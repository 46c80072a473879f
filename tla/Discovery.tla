----------------------------- MODULE Discovery -----------------------------
(***************************************************************************)
(* How a process finds a graphics card and follows its displays            *)
(* (src/src/drmtap.c, src/src/drm_enumerate.c), while monitors are plugged *)
(* and unplugged, modes set, and compositors take and leave DRM master.    *)
(* Opening a card that has no master makes the opener its master, which    *)
(* keeps every compositor out until it is dropped or the file is closed.   *)
(*                                                                         *)
(* Of a display the model keeps what drmtap_displays_changed looks at: the *)
(* connection, the CRTC and the mode, which are read in one step; not its  *)
(* position.  A CRTC drives one connector, and a commit changes one, which *)
(* may move to another CRTC.  Topologies are compared themselves, not      *)
(* their hashes.                                                           *)
(***************************************************************************)
EXTENDS Integers, FiniteSets

CONSTANTS
  Cards,      \* /dev/dri/cardN, by number
  Kms,        \* the cards with KMS resources
  Connectors, \* connector ids, numbered across cards
  CardOf,     \* a function from Connectors to Kms
  Crtcs,      \* CRTCs, numbered across cards
  CrtcCard,   \* a function from Crtcs to Kms
  Possible,   \* a function from Connectors to the sets of CRTCs that can drive them
  Nodes,      \* the cards that have a render node the process may open
  Modes,      \* display modes
  None,       \* no card
  MaxCount    \* displays, or devices, a caller has room for

(* A connector: nothing connected, a monitor without a CRTC (0), or one    *)
(* with a CRTC that scans a buffer out in some mode.                       *)
Links == [mode : {"off", "dark"}, crtc : {0}] \cup [mode : Modes, crtc : Crtcs]

ASSUME DiscoveryAssumption ==
  /\ IsFiniteSet(Cards) /\ IsFiniteSet(Connectors)
  /\ Cards = 1 .. Cardinality(Cards) /\ Kms \subseteq Cards /\ Nodes \subseteq Cards
  /\ Connectors = 1 .. Cardinality(Connectors)
  /\ CardOf \in [Connectors -> Kms]
  /\ IsFiniteSet(Crtcs) /\ Crtcs = 1 .. Cardinality(Crtcs) /\ CrtcCard \in [Crtcs -> Kms]
  /\ Possible \in [Connectors -> SUBSET Crtcs]
  /\ \A k \in Connectors : \A x \in Possible[k] : CrtcCard[x] = CardOf[k]
  /\ None \notin Cards /\ {"off", "dark"} \cap Modes = {}
  /\ MaxCount \in Nat \ {0}

VARIABLES
  link,    \* what is on each connector
  master,  \* whose each card is: "nobody", "other", "ctx", or a file being probed
  cap,     \* the process has CAP_SYS_ADMIN
  fds,     \* the files being probed: cards
  ctx,     \* the open context
  pc,      \* the call under way
  call,    \* its local variables
  last,    \* what the last one said: of changes, and of the card it picked
  stirred, \* history: the displays of the context changed since the displays call began
           \* ("now"), or between the one before it and this ("before")
  steady,  \* history: the CRTCs that drove a display all through a scan, and were readable
  ever     \* history: those that drove one at some time during it

vars == <<link, master, cap, fds, ctx, pc, call, last, stirred, steady, ever>>

World == <<link, cap, steady, ever>>

OnCard(c) == {k \in Connectors : CardOf[k] = c}

OfCard(crtcs, c) == {x \in crtcs : CrtcCard[x] = c}

CountOn(crtcs, c) == Cardinality(OfCard(crtcs, c))

(* The CRTCs with a mode and a buffer.                                     *)
Driving(links) == {x \in Crtcs : \E k \in Connectors : links[k].crtc = x}

(* A connector is driven by a CRTC that can, and no two by the same.       *)
Wired(links) ==
  \A k \in Connectors : links[k].crtc # 0 =>
    /\ links[k].crtc \in Possible[k]
    /\ \A j \in Connectors \ {k} : links[j].crtc # links[k].crtc

(* base: the topology displays_changed compares with; told: the displays   *)
(* held still under the last listing, and it has not been contradicted     *)
(* since; listed: its entries, while that is so.                           *)
Closed == [card |-> None, render |-> FALSE, base |-> {}, listed |-> {}, told |-> FALSE]

(* at, counted: the CRTC that is probed next, and those found active.      *)
Idle == [op |-> "none", next |-> 1, best |-> None, most |-> 0, fallback |-> None,
         seen |-> {}, found |-> {}, at |-> 1, counted |-> {}]

Done == [changed |-> "unasked", picked |-> None, of |-> {}]

Init ==
  /\ link \in [Connectors -> Links] /\ Wired(link)
  /\ master = [c \in Cards |-> "nobody"]
  /\ cap \in BOOLEAN
  /\ fds = {} /\ ctx = Closed
  /\ pc = "idle" /\ call = Idle /\ last = Done
  /\ stirred = {}
  /\ steady = {} /\ ever = {}

-----------------------------------------------------------------------------
(* The monitors and the compositors.                                       *)

Modeset(k, l) ==
  /\ l # link[k]
  /\ link' = [link EXCEPT ![k] = l] /\ Wired(link')
  /\ stirred' = IF CardOf[k] = ctx.card THEN stirred \cup {"now"} ELSE stirred
  /\ IF call.op = "auto"
     THEN steady' = steady \cap Driving(link') /\ ever' = ever \cup Driving(link')
     ELSE UNCHANGED <<steady, ever>>
  /\ UNCHANGED <<master, cap, fds, ctx, pc, call, last>>

(* A VT switch brings a compositor, which becomes master where nobody is,  *)
(* or takes it away.                                                       *)
VtSwitch(from, to) ==
  /\ \E c \in Cards : master[c] = from
  /\ master' = [c \in Cards |-> IF master[c] = from THEN to ELSE master[c]]
  /\ UNCHANGED <<link, cap, fds, ctx, pc, call, last, stirred, steady, ever>>

-----------------------------------------------------------------------------
(* Files.  A card that is opened while it has no master gets one.          *)

OpenedCard(m, c, who) == IF m[c] = "nobody" THEN [m EXCEPT ![c] = who] ELSE m

ClosedCards(m, cs, who) ==
  [c \in Cards |-> IF c \in cs /\ m[c] = who THEN "nobody" ELSE m[c]]

Begin(op) ==
  /\ pc = "idle"
  /\ pc' = op /\ call' = [Idle EXCEPT !.op = op]
  /\ last' = Done
  /\ steady' = IF op = "auto" THEN Driving(link) ELSE {}
  /\ ever' = steady'
  /\ UNCHANGED <<link, cap>>

Finish(ret) == pc' = "idle" /\ call' = Idle /\ last' = ret

-----------------------------------------------------------------------------
(* drmtap_open.                                                            *)

(* Mutant: a process that may read framebuffers anyway stays master.       *)
KeepsMaster(m, c) == m

(* drmDropMaster, for a process that can do without being master.          *)
DropsMaster(m, c) ==
  IF cap /\ m[c] = "ctx" THEN [m EXCEPT ![c] = "nobody"] ELSE m

(* The file is duplicated to a high number, and capabilities are set.      *)
Opened(m, c) ==
  /\ master' = DropsMaster(m, c)
  /\ ctx' = [Closed EXCEPT !.card = c]
  /\ stirred' = {"now"}

(* An explicit device_path, or the DRM_DEVICE of a process without         *)
(* privilege.                                                              *)
OpenPath(c) ==
  /\ pc = "idle" /\ ctx = Closed
  /\ \/ Opened(OpenedCard(master, c, "ctx"), c) /\ Finish(Done)
     \/ Finish(Done) /\ UNCHANGED <<master, ctx, stirred>>
  /\ UNCHANGED <<World, fds>>

OpenAuto == ctx = Closed /\ Begin("auto") /\ UNCHANGED <<master, fds, ctx, stirred>>

(* The next card node, which may be missing or not to be opened.           *)
ScanOpen ==
  /\ pc = "auto" /\ call.next \in Cards
  /\ \/ /\ pc' = "probe"
        /\ fds' = fds \cup {call.next}
        /\ master' = OpenedCard(master, call.next, "probe")
        /\ UNCHANGED call
     \/ call' = [call EXCEPT !.next = @ + 1] /\ UNCHANGED <<pc, fds, master>>
  /\ UNCHANGED <<World, ctx, last, stirred>>

(* The next CRTC of the card is read; a read that fails counts nothing.    *)
ScanCrtc(x) ==
  /\ pc = "probe" /\ x \in OfCard(Crtcs, call.next) /\ call.at <= x
  /\ \A y \in OfCard(Crtcs, call.next) : y >= call.at => y >= x
  /\ \/ /\ call' = [call EXCEPT !.at = x + 1,
                      !.counted = IF x \in Driving(link) THEN @ \cup {x} ELSE @]
        /\ UNCHANGED steady
     \/ call' = [call EXCEPT !.at = x + 1] /\ steady' = steady \ {x}
  /\ UNCHANGED <<link, master, cap, fds, ctx, pc, last, stirred, ever>>

(* Mutant: the first card that drives a display, as until 0.4.15.          *)
FirstActive(active) == call.best = None

(* More displays than any card before: a tie keeps the lower number.       *)
Better(active) == active > call.most

(* Mutant: the card that was best so far stays open.                       *)
SupersededKept(c, active) == {}

(* The files that go when card c has been probed.                          *)
Superseded(c, active) ==
  IF c \notin Kms THEN {c}
  ELSE IF active > 0 THEN IF Better(active) THEN {call.best} \ {None} ELSE {c}
  ELSE IF call.fallback = None THEN {} ELSE {c}

(* The card is ranked by the CRTCs counted; the first without any is kept  *)
(* as a fallback.                                                          *)
ScanProbe ==
  LET c == call.next
      active == Cardinality(call.counted)
      gone == Superseded(c, active)
  IN /\ pc = "probe" /\ \A x \in OfCard(Crtcs, c) : x < call.at
     /\ pc' = "auto"
     /\ fds' = fds \ gone
     /\ master' = ClosedCards(master, gone, "probe")
     /\ LET read == [call EXCEPT !.next = c + 1, !.seen = @ \cup {c},
                                 !.at = 1, !.counted = {}]
        IN call' = IF active > 0 /\ Better(active) THEN [read EXCEPT !.best = c, !.most = active]
                   ELSE IF active = 0 /\ c \notin gone THEN [read EXCEPT !.fallback = c]
                   ELSE read
     /\ UNCHANGED <<World, ctx, last, stirred>>

(* The best card becomes the context's, or the fallback.                   *)
ScanEnd ==
  LET c == IF call.best # None THEN call.best ELSE call.fallback
      kept == [d \in Cards |-> IF d = c /\ master[d] = "probe" THEN "ctx" ELSE master[d]]
  IN /\ pc = "auto" /\ call.next \notin Cards
     /\ IF c = None
        THEN Finish(Done) /\ UNCHANGED <<master, fds, ctx, stirred>>
        ELSE /\ Opened(ClosedCards(kept, {call.fallback}, "probe"), c)
             /\ fds' = fds \ {call.best, call.fallback}
             /\ Finish([Done EXCEPT !.picked = c, !.of = call.seen \cap Kms])
     /\ UNCHANGED World

(* drmtap_close.                                                           *)
Close ==
  /\ pc = "idle" /\ ctx # Closed
  /\ master' = IF ctx.render THEN master ELSE ClosedCards(master, {ctx.card}, "ctx")
  /\ ctx' = Closed
  /\ stirred' = {}
  /\ Finish(Done)
  /\ UNCHANGED <<World, fds>>

-----------------------------------------------------------------------------
(* drmtap_list_devices, which opens every card, and gives mastery back     *)
(* where it can do without.                                                *)
ListDevices == Begin("devices") /\ UNCHANGED <<master, fds, ctx, stirred>>

DeviceOpen ==
  /\ pc = "devices" /\ call.next \in Cards /\ Cardinality(call.found) < MaxCount
  /\ \/ /\ pc' = "device"
        /\ fds' = {call.next}
        /\ master' = LET m == OpenedCard(master, call.next, "probe")
                     IN IF cap THEN ClosedCards(m, {call.next}, "probe") ELSE m
        /\ UNCHANGED call
     \/ call' = [call EXCEPT !.next = @ + 1] /\ UNCHANGED <<pc, fds, master>>
  /\ UNCHANGED <<World, ctx, last, stirred>>

(* A card without KMS is closed and not listed.                            *)
DeviceRead ==
  LET c == call.next IN
  /\ pc = "device"
  /\ pc' = "devices"
  /\ call' = [call EXCEPT !.next = c + 1,
                !.found = IF c \in Kms THEN @ \cup {c} ELSE @]
  /\ fds' = {}
  /\ master' = ClosedCards(master, {c}, "probe")
  /\ UNCHANGED <<World, ctx, last, stirred>>

DevicesEnd ==
  /\ pc = "devices"
  /\ call.next \notin Cards \/ Cardinality(call.found) = MaxCount
  /\ Finish(Done)
  /\ UNCHANGED <<World, master, fds, ctx, stirred>>

-----------------------------------------------------------------------------
(* drmtap_open_render without a name: the render node of a card that shows *)
(* something, as sysfs tells, or where that does not open the first that   *)
(* does.                                                                   *)
OpenRender == ctx = Closed /\ Begin("render") /\ UNCHANGED <<master, fds, ctx, stirred>>

(* card_output_rank.                                                       *)
OutputRank(c) ==
  IF \E k \in OnCard(c) : link[k].mode \in Modes THEN 2
  ELSE IF \E k \in OnCard(c) : link[k].mode # "off" THEN 1
  ELSE 0

(* The nodes come in the order readdir has them.                           *)
RankNode(c) ==
  /\ pc = "render" /\ c \in Nodes \ call.seen
  /\ call.most < 2
  /\ call' = IF OutputRank(c) > call.most
             THEN [call EXCEPT !.seen = @ \cup {c}, !.best = c, !.most = OutputRank(c)]
             ELSE [call EXCEPT !.seen = @ \cup {c}]
  /\ UNCHANGED <<World, master, fds, ctx, pc, last, stirred>>

RenderEnd ==
  /\ pc = "render" /\ (call.seen = Nodes \/ call.most = 2)
  /\ \/ \E c \in Nodes : ctx' = [Closed EXCEPT !.card = c, !.render = TRUE]
     \/ UNCHANGED ctx
  /\ Finish(Done)
  /\ stirred' = {}
  /\ UNCHANGED <<World, master, fds>>

-----------------------------------------------------------------------------
(* drmtap_list_displays and drmtap_displays_changed.                       *)

(* GetResources fails on a card without KMS and on a render node.          *)
Listable == ctx.card \in Kms /\ ~ctx.render

(* A listing does not look at the old baseline, and ends with a new one.   *)
BeginDisplays(op) ==
  /\ Listable /\ Begin(op)
  /\ ctx' = IF op = "list" THEN [Closed EXCEPT !.card = ctx.card] ELSE ctx
  /\ stirred' = IF "now" \in stirred THEN {"before"} ELSE {}
  /\ UNCHANGED <<master, fds>>

(* The ENODEV of a context without displays.                               *)
NoDisplays ==
  /\ pc = "idle" /\ ctx # Closed /\ ~Listable
  /\ Finish(Done)
  /\ UNCHANGED <<World, master, fds, ctx, stirred>>

(* The next connector of the card is read; there may be no memory for it.  *)
Reads(k) ==
  /\ call.next <= k /\ k \in OnCard(ctx.card)
  /\ \A j \in OnCard(ctx.card) : j >= call.next => j >= k
  /\ UNCHANGED <<World, master, fds, ctx, pc, last>>

(* A display that is connected is counted, and fills an entry while there  *)
(* is room.                                                                *)
ListConnector(k) ==
  /\ pc = "list" /\ Reads(k)
  /\ \/ /\ call' = [call EXCEPT !.next = k + 1,
                      !.found = IF link[k].mode # "off" THEN @ \cup {<<k, link[k]>>} ELSE @]
        /\ UNCHANGED stirred
     \/ call' = [call EXCEPT !.next = k + 1] /\ stirred' = stirred \cup {"now"}

ListEnd ==
  /\ pc = "list" /\ \A k \in OnCard(ctx.card) : k < call.next
  /\ pc' = "hash" /\ call' = [call EXCEPT !.next = 1]
  /\ UNCHANGED <<World, master, fds, ctx, last, stirred>>

(* Mutant: the mode is not folded in.                                      *)
FoldsWithoutMode(k) == <<k, [link[k] EXCEPT !.mode = IF @ \in Modes THEN "lit" ELSE @]>>

(* What topology_hash folds of a connector.                                *)
Folds(k) == <<k, link[k]>>

HashConnector(k) ==
  /\ pc \in {"hash", "changed"} /\ Reads(k)
  /\ \/ /\ call' = [call EXCEPT !.next = k + 1, !.seen = @ \cup {Folds(k)}]
        /\ UNCHANGED stirred
     \/ call' = [call EXCEPT !.next = k + 1] /\ stirred' = stirred \cup {"now"}

Hashed(pc1) == pc = pc1 /\ \A k \in OnCard(ctx.card) : k < call.next

Entries(found) ==
  {e \in found : Cardinality({f \in found : f[1] < e[1]}) < MaxCount}

(* The listing ends with the topology as it is by then.                    *)
ListHashed ==
  /\ Hashed("hash")
  /\ LET told == "now" \notin stirred
     IN ctx' = [ctx EXCEPT !.base = call.seen, !.told = told,
                           !.listed = IF told THEN Entries(call.found) ELSE {}]
  /\ Finish(Done)
  /\ UNCHANGED <<World, master, fds, stirred>>

(* Mutant: a change is reported again until the displays are listed.       *)
BaseKept(seen) == ctx.base

(* The baseline moves with every answer.                                   *)
Rebased(seen) == seen

ChangedEnd ==
  LET changed == call.seen # ctx.base IN
  /\ Hashed("changed")
  /\ ctx' = [ctx EXCEPT !.base = Rebased(call.seen), !.told = @ /\ ~changed,
                        !.listed = IF changed THEN {} ELSE @]
  /\ Finish([Done EXCEPT !.changed = IF changed THEN "yes" ELSE "no"])
  /\ UNCHANGED <<World, master, fds, stirred>>

-----------------------------------------------------------------------------
Next ==
  \/ \E k \in Connectors, l \in Links : Modeset(k, l)
  \/ VtSwitch("nobody", "other") \/ VtSwitch("other", "nobody")
  \/ \E c \in Cards : OpenPath(c) \/ RankNode(c)
  \/ \E x \in Crtcs : ScanCrtc(x)
  \/ OpenAuto \/ ScanOpen \/ ScanProbe \/ ScanEnd \/ Close
  \/ ListDevices \/ DeviceOpen \/ DeviceRead \/ DevicesEnd
  \/ OpenRender \/ RenderEnd
  \/ BeginDisplays("list") \/ BeginDisplays("changed") \/ NoDisplays
  \/ \E k \in Connectors : ListConnector(k) \/ HashConnector(k)
  \/ ListEnd \/ ListHashed \/ ChangedEnd

Spec == Init /\ [][Next]_vars

-----------------------------------------------------------------------------
(* Properties.                                                             *)

(* Between calls the library has no file open but its context's, and is    *)
(* master of nothing a compositor could want; a process without the        *)
(* capability stays master of the one card it opened so.  At any time it   *)
(* is master only of files it still has, to close.                         *)
HoldsOnlyItsCard ==
  /\ pc = "idle" => fds = {}
  /\ \A c \in Cards :
       /\ master[c] = "probe" => c \in fds
       /\ master[c] = "ctx" => ctx.card = c /\ ~ctx.render /\ ~cap

(* drmtap_open without a path settles for no card while another it could   *)
(* open had more CRTCs driving a display all along than ever did on the    *)
(* one it picked, and of equals for the first.  CRTCs and not displays:    *)
(* one that moves to another CRTC between two reads is counted twice, or   *)
(* not at all.                                                             *)
BestCard ==
  last.picked # None =>
    \A c \in last.of :
      IF c < last.picked THEN CountOn(steady, c) < CountOn(ever, last.picked)
      ELSE CountOn(steady, c) <= CountOn(ever, last.picked)

(* drmtap_displays_changed answers 0 only while the displays are as they   *)
(* were listed, unless they changed under the listing, and 1 only when     *)
(* they changed since the displays were last asked for.                    *)
ChangesReported ==
  /\ last.changed = "no" /\ "now" \notin stirred /\ ctx.told
       => ctx.listed = Entries({<<k, link[k]>> : k \in {j \in OnCard(ctx.card) : link[j].mode # "off"}})
  /\ last.changed = "yes" => stirred # {}
=============================================================================
