--------------------------- MODULE DiscoveryProofs ---------------------------
(***************************************************************************)
(* What Discovery promises, for any number of cards and connectors, any    *)
(* modes, and any cards without KMS or without a render node.              *)
(***************************************************************************)
EXTENDS Discovery, FiniteSetTheorems, TLAPS

Pairs == Connectors \X Links

CtxType ==
  [card : Cards \cup {None}, render : BOOLEAN, base : SUBSET Pairs, listed : SUBSET Pairs,
   told : BOOLEAN]

CallType(S) ==
  [op : {"none", "auto", "devices", "render", "list", "changed"}, next : Nat,
   best : Cards \cup {None}, most : Nat, fallback : Cards \cup {None},
   seen : SUBSET S, found : SUBSET S, at : Nat, counted : SUBSET Crtcs]

(* A call collects cards, or connectors with what is on them.               *)
Items == IF pc \in {"list", "hash", "changed"} THEN Pairs ELSE Cards

AnswerType ==
  [changed : {"unasked", "yes", "no"}, picked : Cards \cup {None}, of : SUBSET Cards]

Masters == {"nobody", "other", "ctx", "probe"}

TypeInv ==
  /\ link \in [Connectors -> Links]
  /\ master \in [Cards -> Masters]
  /\ cap \in BOOLEAN
  /\ fds \subseteq Cards
  /\ ctx \in CtxType
  /\ pc \in {"idle", "auto", "probe", "devices", "device", "render", "list", "hash", "changed"}
  /\ call \in CallType(Items)
  /\ last \in AnswerType
  /\ stirred \subseteq {"now", "before"}
  /\ steady \subseteq Crtcs /\ ever \subseteq Crtcs

(* The calls and their phases.                                             *)
Scanning == pc \in {"auto", "probe"}

CallInv ==
  /\ pc = "idle" => call = Idle
  /\ Scanning <=> call.op = "auto"
  /\ Scanning \/ pc = "render" => ctx = Closed
  /\ pc \in {"list", "hash", "changed"} => Listable
  /\ last.picked # None => pc = "idle"
  /\ last.changed # "unasked" => pc = "idle" /\ Listable

(* The files a scan keeps open are the best card so far, the fallback and  *)
(* the card it is looking at.                                              *)
Candidates == {call.best, call.fallback} \ {None}

FdsInv ==
  /\ pc \notin {"auto", "probe", "device"} => fds = {}
  /\ pc = "device" => fds = {call.next}
  /\ pc = "auto" => fds = Candidates
  /\ pc = "probe" => fds = Candidates \cup {call.next}
  /\ Scanning => \A c \in Candidates : c < call.next
  /\ Scanning => call.best = None \/ call.best # call.fallback

(* Mastery that nobody else took goes with a file that is still open.      *)
MasterInv ==
  \A c \in Cards :
    /\ master[c] = "probe" => c \in fds
    /\ master[c] = "ctx" => ctx.card = c /\ ~ctx.render /\ ~cap

(* What a scan has watched the CRTCs do.                                    *)
Watched == steady \subseteq Driving(link) /\ Driving(link) \subseteq ever

(* Of the card it is looking at it has counted the CRTCs it read that drove *)
(* a display all along, and none that never did.                            *)
Probed ==
  /\ pc = "auto" => call.at = 1 /\ call.counted = {}
  /\ pc = "probe" =>
       /\ call.counted \subseteq OfCard(ever, call.next)
       /\ \A x \in OfCard(steady, call.next) : x < call.at => x \in call.counted

(* What it has seen was never busier, all along, than its best card.       *)
Ranked == call.seen \cap Kms

ScanRanks ==
  /\ \A c \in Ranked : c < call.next
  /\ call.best = None => /\ call.most = 0
                         /\ \A c \in Ranked : CountOn(steady, c) = 0
                         /\ \A c \in Ranked : call.fallback # None /\ call.fallback <= c
  /\ call.best # None => /\ call.most <= CountOn(ever, call.best)
                         /\ \A c \in Ranked : IF c < call.best
                                               THEN CountOn(steady, c) < call.most
                                               ELSE CountOn(steady, c) <= call.most

ScanInv == Scanning => Watched /\ Probed /\ ScanRanks

(* What a call has read is what is there, unless that changed meanwhile.   *)
Topology == {<<k, link[k]>> : k \in OnCard(ctx.card)}

ReadUpTo(n) == {<<k, link[k]>> : k \in {j \in OnCard(ctx.card) : j < n}}

Lit(topology) == {e \in topology : e[2].mode # "off"}

ReadInv ==
  "now" \notin stirred =>
    /\ pc = "list" => call.found = Lit(ReadUpTo(call.next)) /\ call.seen = {}
    /\ pc = "hash" => call.found = Lit(Topology) /\ call.seen = ReadUpTo(call.next)
    /\ pc = "changed" => call.seen = ReadUpTo(call.next)

(* So is the baseline, until the displays change, and the listing is that  *)
(* of the baseline.                                                        *)
BaseInv ==
  /\ Listable /\ "now" \notin stirred /\ pc \notin {"list", "hash"}
       /\ (pc = "changed" => "before" \notin stirred)
       => ctx.base = Topology
  /\ ctx.told => ctx.listed = Entries(Lit(ctx.base))
  /\ last.changed = "yes" => stirred # {}

Inv == /\ TypeInv /\ CallInv /\ FdsInv /\ MasterInv /\ ScanInv /\ BestCard
       /\ ReadInv /\ BaseInv

-----------------------------------------------------------------------------
(* Constants.                                                              *)
LEMMA Numbers == /\ Cards \subseteq Nat /\ None \notin Kms
                 /\ Connectors \subseteq Nat /\ 0 \notin Connectors
                 /\ Crtcs \subseteq Nat /\ 0 \notin Crtcs
<1>1. /\ Cardinality(Cards) \in Nat /\ Cardinality(Connectors) \in Nat
      /\ Cardinality(Crtcs) \in Nat
  BY DiscoveryAssumption, FS_CardinalityType
<1> QED
  BY <1>1, DiscoveryAssumption

(* The locals of no call, whatever a call collects.                        *)
LEMMA IdleType ==
  ASSUME NEW S
  PROVE  /\ Idle \in CallType(S) /\ Idle.op = "none" /\ Idle.next = 1 /\ Idle.best = None
         /\ Idle.most = 0 /\ Idle.fallback = None /\ Idle.seen = {} /\ Idle.found = {}
         /\ Idle.at = 1 /\ Idle.counted = {}
BY DEF Idle, CallType

(* No context and no answer.                                               *)
LEMMA ClosedType ==
  /\ Closed \in CtxType /\ Closed.card = None /\ ~Closed.render /\ ~Closed.told
  /\ Done \in AnswerType /\ Done.changed = "unasked" /\ Done.picked = None
BY DEF Closed, CtxType, Done, AnswerType

(* A card has finitely many CRTCs, and the more the greater their number.  *)
LEMMA Counted ==
  ASSUME NEW S, NEW T, S \subseteq T, T \subseteq Crtcs
  PROVE  /\ Cardinality(S) \in Nat /\ Cardinality(T) \in Nat /\ Cardinality(S) <= Cardinality(T)
<1>1. IsFiniteSet(T)
  BY DiscoveryAssumption, FS_Subset
<1>2. IsFiniteSet(S) /\ Cardinality(S) <= Cardinality(T)
  BY <1>1, FS_Subset
<1> QED
  BY <1>1, <1>2, FS_CardinalityType

(* The same, of the CRTCs of one card.                                     *)
LEMMA CountedOn ==
  ASSUME NEW S, NEW T, S \subseteq T, T \subseteq Crtcs
  PROVE  \A c : /\ CountOn(S, c) \in Nat /\ CountOn(T, c) \in Nat
                /\ CountOn(S, c) <= CountOn(T, c)
<1> TAKE c
<1>1. OfCard(S, c) \subseteq OfCard(T, c) /\ OfCard(T, c) \subseteq Crtcs
  BY DEF OfCard
<1> QED
  BY <1>1, Counted DEF CountOn

(* The CRTCs that drive a display are CRTCs.                               *)
LEMMA DrivingType == ASSUME NEW links PROVE Driving(links) \subseteq Crtcs
BY DEF Driving

(* The ranks so far hold as the scan goes on.                              *)
LEMMA RanksKept ==
  ASSUME ScanRanks, TypeInv, TypeInv', steady' \subseteq steady, ever \subseteq ever',
         call'.seen = call.seen, call'.best = call.best, call'.most = call.most,
         call'.fallback = call.fallback, \A c \in Ranked : c < call'.next
  PROVE  ScanRanks'
<1>1. /\ Ranked' = Ranked /\ call.most \in Nat
      /\ \A c : /\ CountOn(steady, c) \in Nat /\ CountOn(steady', c) \in Nat
               /\ CountOn(steady', c) <= CountOn(steady, c)
      /\ \A c : /\ CountOn(ever, c) \in Nat /\ CountOn(ever', c) \in Nat
               /\ CountOn(ever, c) <= CountOn(ever', c)
  BY CountedOn DEF TypeInv, CallType, Ranked
<1>2. CASE call.best = None
  <2>1. \A c \in Ranked : CountOn(steady, c) = 0
    BY <1>2 DEF ScanRanks
  <2>2. \A c \in Ranked : CountOn(steady', c) = 0
    BY <1>1, <2>1
  <2> QED
    BY <1>1, <1>2, <2>2 DEF ScanRanks
<1>3. CASE call.best # None
  <2>1. call.most <= CountOn(ever', call.best)
    <3>1. call.most <= CountOn(ever, call.best)
      BY <1>3 DEF ScanRanks
    <3> QED
      BY <1>1, <3>1
  <2>2. ASSUME NEW c \in Ranked
        PROVE  IF c < call.best THEN CountOn(steady', c) < call.most
               ELSE CountOn(steady', c) <= call.most
    <3>1. IF c < call.best THEN CountOn(steady, c) < call.most
          ELSE CountOn(steady, c) <= call.most
      BY <1>3 DEF ScanRanks
    <3> QED
      BY <1>1, <3>1
  <2> QED
    BY <1>1, <1>3, <2>1, <2>2 DEF ScanRanks
<1> QED
  BY <1>2, <1>3

(* Mastery after an open or a close.                                       *)
LEMMA OpenedMastery ==
  ASSUME NEW m \in [Cards -> Masters], NEW c, NEW who \in {"ctx", "probe"}
  PROVE  /\ OpenedCard(m, c, who) \in [Cards -> Masters]
         /\ \A d \in Cards : OpenedCard(m, c, who)[d] \in {m[d], who}
         /\ \A d \in Cards \ {c} : OpenedCard(m, c, who)[d] = m[d]
BY DEF OpenedCard, Masters

(* A close gives mastery back,                                             *)
LEMMA ClosedMastery ==
  ASSUME NEW m \in [Cards -> Masters], NEW cs, NEW who \in {"ctx", "probe"}
  PROVE  /\ ClosedCards(m, cs, who) \in [Cards -> Masters]
         /\ \A d \in Cards : ClosedCards(m, cs, who)[d] \in {m[d], "nobody"}
         /\ \A d \in Cards : d \in cs => ClosedCards(m, cs, who)[d] # who
BY DEF ClosedCards, Masters

(* and so does drmDropMaster, of a process with the capability.            *)
LEMMA DroppedMastery ==
  ASSUME NEW m \in [Cards -> Masters], NEW c
  PROVE  /\ DropsMaster(m, c) \in [Cards -> Masters]
         /\ \A d \in Cards : DropsMaster(m, c)[d] \in {m[d], "nobody"}
         /\ cap /\ c \in Cards => DropsMaster(m, c)[c] # "ctx"
BY DEF DropsMaster, Masters

-----------------------------------------------------------------------------
(* Steps that leave the files alone,                                       *)
LEMMA FilesAside ==
  ASSUME Inv, UNCHANGED <<master, fds, cap>>, pc \notin {"auto", "probe", "device"},
         pc' \notin {"auto", "probe", "device"}, ctx'.card = ctx.card,
         ctx'.render = ctx.render, last'.picked = None \/ UNCHANGED <<last, steady, ever>>
  PROVE  FdsInv' /\ MasterInv' /\ ScanInv' /\ BestCard'
<1>1. ~Scanning' /\ fds' = {}
  BY DEF Scanning, Inv, FdsInv
<1>2. FdsInv' /\ ScanInv'
  BY <1>1 DEF FdsInv, ScanInv
<1>3. MasterInv'
  BY DEF Inv, MasterInv
<1>4. BestCard'
  BY DEF Inv, BestCard
<1> QED
  BY <1>2, <1>3, <1>4

(* and steps that leave the displays alone.                                *)
LEMMA DisplaysAside ==
  ASSUME Inv, UNCHANGED <<link, ctx, stirred>>, pc \notin {"list", "hash", "changed"},
         pc' \notin {"list", "hash", "changed"}, last'.changed = "unasked" \/ last' = last
  PROVE  ReadInv' /\ BaseInv'
BY DEF Inv, ReadInv, BaseInv, Listable, Topology, OnCard

(* A context that was never asked for displays, or has none.               *)
LEMMA NeverAsked ==
  ASSUME ~ctx'.told, ~Listable' \/ "now" \in stirred', pc' = "idle",
         last'.changed = "unasked"
  PROVE  ReadInv' /\ BaseInv'
BY DEF ReadInv, BaseInv

(* A call begins.                                                          *)
LEMMA BeginFacts ==
  ASSUME Inv, NEW op \in {"auto", "devices", "render", "list", "changed"}, Begin(op)
  PROVE  /\ pc = "idle" /\ pc' = op /\ UNCHANGED <<link, cap>> /\ last' = Done
         /\ call' \in CallType(Items') /\ steady' \subseteq Crtcs /\ ever' \subseteq Crtcs
         /\ call'.op = op /\ call'.next = 1 /\ call'.best = None /\ call'.most = 0
         /\ call'.fallback = None /\ call'.seen = {} /\ call'.found = {}
         /\ call'.at = 1 /\ call'.counted = {}
         /\ op = "auto" => steady' = Driving(link) /\ ever' = Driving(link)
<1>1. /\ pc = "idle" /\ pc' = op /\ UNCHANGED <<link, cap>> /\ last' = Done
      /\ call' = [Idle EXCEPT !.op = op]
  BY DEF Begin
<1>2. /\ call' \in CallType(Items') /\ call'.op = op /\ call'.next = 1 /\ call'.best = None
      /\ call'.most = 0 /\ call'.fallback = None /\ call'.seen = {} /\ call'.found = {}
      /\ call'.at = 1 /\ call'.counted = {}
  BY <1>1, IdleType DEF CallType
<1>3. /\ steady' = (IF op = "auto" THEN Driving(link) ELSE {}) /\ ever' = steady'
  BY DEF Begin
<1> QED
  BY <1>1, <1>2, <1>3, DrivingType

(* A call ends.                                                            *)
LEMMA FinishFacts ==
  ASSUME NEW ret \in AnswerType, Finish(ret)
  PROVE  /\ pc' = "idle" /\ call' = Idle /\ call' \in CallType(Items') /\ last' = ret
         /\ last' \in AnswerType
BY IdleType DEF Finish
-----------------------------------------------------------------------------
(* The monitors and the compositors.                                       *)
LEMMA ModesetInv ==
  ASSUME Inv, NEW k \in Connectors, NEW l \in Links, Modeset(k, l)
  PROVE  Inv'
<1> DEFINE c == CardOf[k]
<1>1. /\ link' = [link EXCEPT ![k] = l]
      /\ UNCHANGED <<master, cap, fds, ctx, pc, call, last>>
      /\ c \in Cards /\ link \in [Connectors -> Links]
  BY DiscoveryAssumption DEF Modeset, Inv, TypeInv
<1>2. stirred \subseteq stirred' /\ stirred' \subseteq {"now", "before"}
      /\ (c = ctx.card => "now" \in stirred')
  BY DEF Modeset, Inv, TypeInv
<1>3. /\ call.op # "auto" => UNCHANGED <<steady, ever>>
      /\ call.op = "auto" =>
           steady' = steady \cap Driving(link') /\ ever' = ever \cup Driving(link')
  BY DEF Modeset
<1>4. /\ steady' \subseteq steady /\ ever \subseteq ever'
      /\ steady' \subseteq Crtcs /\ ever' \subseteq Crtcs
      /\ call.op = "auto" => steady' \subseteq Driving(link') /\ Driving(link') \subseteq ever'
  <2>1. Driving(link') \subseteq Crtcs
    BY DrivingType
  <2> QED
    BY <1>3, <2>1 DEF Inv, TypeInv
<1>5. TypeInv' /\ CallInv' /\ FdsInv' /\ MasterInv'
  <2>1. link' \in [Connectors -> Links]
    BY <1>1
  <2> QED
    BY <1>1, <1>2, <1>4, <2>1 DEF Inv, TypeInv, Items, CallInv, Scanning, Listable, FdsInv,
                               Candidates, MasterInv
<1>6. ScanInv'
  <2> SUFFICES ASSUME Scanning PROVE Watched' /\ Probed' /\ ScanRanks'
    BY <1>1 DEF ScanInv, Scanning
  <2>1. call.op = "auto" /\ Watched /\ Probed /\ ScanRanks
    BY DEF Inv, CallInv, ScanInv
  <2>2. Watched'
    BY <1>4, <2>1 DEF Watched, Driving
  <2>3. Probed'
    BY <1>1, <1>4, <2>1 DEF Probed, OfCard
  <2>4. ScanRanks'
    BY <1>1, <1>4, <1>5, <2>1, RanksKept DEF Inv, ScanRanks
  <2> QED
    BY <2>2, <2>3, <2>4
<1>7. BestCard'
  <2>1. last.picked # None => UNCHANGED <<steady, ever>>
    BY <1>3 DEF Inv, CallInv, Scanning
  <2> QED
    BY <1>1, <2>1 DEF Inv, BestCard
<1>8. ReadInv' /\ BaseInv'
  <2>1. ASSUME "now" \notin stirred'
        PROVE  /\ stirred' = stirred /\ \A j \in OnCard(ctx.card) : link'[j] = link[j]
    BY <1>1, <2>1 DEF Modeset, OnCard
  <2>2. Listable' = Listable /\ OnCard(ctx'.card) = OnCard(ctx.card)
    BY <1>1 DEF Listable
  <2>3. "now" \notin stirred' => /\ Topology' = Topology
                                 /\ \A n : ReadUpTo(n)' = ReadUpTo(n)
    BY <2>1, <2>2 DEF Topology, ReadUpTo
  <2>4. ReadInv'
    BY <1>1, <2>1, <2>3 DEF Inv, ReadInv
  <2>5. BaseInv'
    BY <1>1, <1>2, <2>1, <2>2, <2>3 DEF Inv, BaseInv
  <2> QED
    BY <2>4, <2>5
<1> QED
  BY <1>5, <1>6, <1>7, <1>8 DEF Inv

(* A compositor takes the cards nobody has, or gives its own back.         *)
LEMMA VtSwitchInv ==
  ASSUME Inv, NEW from \in {"nobody", "other"}, NEW to \in {"nobody", "other"},
         VtSwitch(from, to)
  PROVE  Inv'
<1>1. /\ UNCHANGED <<link, cap, fds, ctx, pc, call, last, stirred, steady, ever>>
      /\ master' = [c \in Cards |-> IF master[c] = from THEN to ELSE master[c]]
  BY DEF VtSwitch
<1>2. /\ master' \in [Cards -> Masters]
      /\ \A c \in Cards : master'[c] = master[c] \/ master'[c] \in {"nobody", "other"}
  BY <1>1 DEF Inv, TypeInv, Masters
<1>3. TypeInv' /\ CallInv' /\ FdsInv' /\ ScanInv' /\ BestCard'
  BY <1>1, <1>2 DEF Inv, TypeInv, Items, CallInv, Scanning, Listable, FdsInv, Candidates,
                    ScanInv, Watched, Driving, Probed, ScanRanks, Ranked, BestCard
<1>4. MasterInv'
  BY <1>1, <1>2 DEF Inv, MasterInv
<1>5. ReadInv' /\ BaseInv'
  BY <1>1 DEF Inv, ReadInv, BaseInv, Listable, Topology, ReadUpTo, OnCard
<1> QED
  BY <1>3, <1>4, <1>5 DEF Inv

-----------------------------------------------------------------------------
(* drmtap_open and drmtap_close.                                           *)

(* The context that is opened keeps no mastery it can do without.          *)
LEMMA OpenedFacts ==
  ASSUME NEW m \in [Cards -> Masters], NEW c \in Cards,
         Opened(m, c), \A d \in Cards : m[d] = "ctx" => d = c
  PROVE  /\ ctx' \in CtxType /\ ctx'.card = c /\ ~ctx'.render /\ ~ctx'.told
         /\ stirred' = {"now"}
         /\ master' \in [Cards -> Masters]
         /\ \A d \in Cards : /\ master'[d] \in {m[d], "nobody"}
                             /\ master'[d] = "ctx" => d = c /\ ~cap
<1>1. /\ ctx' = [Closed EXCEPT !.card = c] /\ stirred' = {"now"} /\ master' = DropsMaster(m, c)
  BY DEF Opened
<1>2. ctx' \in CtxType /\ ctx'.card = c /\ ~ctx'.render /\ ~ctx'.told
  BY <1>1 DEF Closed, CtxType
<1>3. /\ master' \in [Cards -> Masters]
      /\ \A d \in Cards : /\ master'[d] \in {m[d], "nobody"}
                          /\ d = c /\ cap => master'[d] # "ctx"
  BY <1>1, DroppedMastery
<1> QED
  BY <1>1, <1>2, <1>3

(* Between calls, with no context, the library is master of nothing.       *)
LEMMA NoMaster ==
  ASSUME Inv, ctx = Closed, NEW c \in Cards
  PROVE  master[c] # "ctx" /\ (pc = "idle" => master[c] # "probe")
BY DiscoveryAssumption, ClosedType DEF Inv, MasterInv, FdsInv

(* drmtap_open with a path.                                                *)
LEMMA OpenPathInv ==
  ASSUME Inv, NEW c \in Cards, OpenPath(c)
  PROVE  Inv'
<1>1. /\ pc = "idle" /\ ctx = Closed /\ UNCHANGED <<link, cap, steady, ever, fds>> /\ Finish(Done)
  BY DEF OpenPath, World
<1>2. /\ pc' = "idle" /\ call' = Idle /\ call' \in CallType(Items') /\ last' = Done
      /\ ~Scanning' /\ ~Listable
  BY <1>1, FinishFacts, ClosedType, Numbers DEF Scanning, Listable
<1>3. CASE UNCHANGED <<master, ctx, stirred>>
  <2>1. TypeInv' /\ CallInv'
    BY <1>1, <1>2, <1>3, ClosedType, IdleType DEF Inv, TypeInv, CallInv, Scanning
  <2>2. FdsInv' /\ MasterInv' /\ ScanInv' /\ BestCard'
    BY <1>1, <1>2, <1>3, ClosedType, FilesAside
  <2>3. ReadInv' /\ BaseInv'
    BY <1>1, <1>2, <1>3, ClosedType, DisplaysAside
  <2> QED
    BY <2>1, <2>2, <2>3 DEF Inv
<1>4. CASE Opened(OpenedCard(master, c, "ctx"), c)
  <2> DEFINE m == OpenedCard(master, c, "ctx")
  <2>1. /\ m \in [Cards -> Masters]
        /\ \A d \in Cards : m[d] \in {master[d], "ctx"}
        /\ \A d \in Cards \ {c} : m[d] = master[d]
    BY OpenedMastery DEF Inv, TypeInv
  <2>2. \A d \in Cards : master[d] # "ctx" /\ master[d] # "probe"
    BY <1>1, NoMaster
  <2> HIDE DEF m
  <2>3. /\ ctx' \in CtxType /\ ctx'.card = c /\ ~ctx'.render /\ ~ctx'.told
        /\ stirred' = {"now"}
        /\ master' \in [Cards -> Masters]
        /\ \A d \in Cards : /\ master'[d] \in {m[d], "nobody"}
                            /\ master'[d] = "ctx" => d = c /\ ~cap
    BY <1>4, <2>1, <2>2, OpenedFacts DEF m
  <2>4. TypeInv' /\ CallInv'
    BY <1>1, <1>2, <2>3, ClosedType, IdleType DEF Inv, TypeInv, CallInv, Scanning
  <2>5. FdsInv' /\ MasterInv' /\ ScanInv' /\ BestCard'
    BY <1>1, <1>2, <2>1, <2>2, <2>3, ClosedType DEF Inv, FdsInv, MasterInv, ScanInv, BestCard
  <2>6. ReadInv' /\ BaseInv'
    BY <1>2, <2>3, ClosedType, NeverAsked
  <2> QED
    BY <2>4, <2>5, <2>6 DEF Inv
<1> QED
  BY <1>3, <1>4 DEF OpenPath

(* drmtap_close takes with it whatever mastery the context had.            *)
LEMMA CloseInv == ASSUME Inv, Close PROVE Inv'
<1>1. /\ pc = "idle" /\ ctx' = Closed /\ stirred' = {} /\ UNCHANGED <<link, cap, steady, ever, fds>>
      /\ Finish(Done)
      /\ master' = IF ctx.render THEN master ELSE ClosedCards(master, {ctx.card}, "ctx")
  BY DEF Close, World
<1>2. /\ pc' = "idle" /\ call' = Idle /\ call' \in CallType(Items') /\ last' = Done
      /\ ~Scanning' /\ ~Listable'
  BY <1>1, FinishFacts, ClosedType, Numbers DEF Scanning, Listable
<1>3. /\ master' \in [Cards -> Masters]
      /\ \A c \in Cards : master'[c] # "ctx" /\ master'[c] # "probe"
  BY <1>1, ClosedMastery DEF Inv, TypeInv, MasterInv, FdsInv
<1>4. TypeInv' /\ CallInv'
  BY <1>1, <1>2, <1>3, ClosedType, IdleType DEF Inv, TypeInv, CallInv, Scanning
<1>5. FdsInv' /\ MasterInv' /\ ScanInv' /\ BestCard'
  BY <1>1, <1>2, <1>3, ClosedType DEF Inv, FdsInv, MasterInv, ScanInv, BestCard
<1>6. ReadInv' /\ BaseInv'
  BY <1>1, <1>2, ClosedType, NeverAsked
<1> QED
  BY <1>4, <1>5, <1>6 DEF Inv
-----------------------------------------------------------------------------
(* The scan for a card.                                                    *)
LEMMA OpenAutoInv == ASSUME Inv, OpenAuto PROVE Inv'
<1>1. /\ ctx = Closed /\ Begin("auto") /\ UNCHANGED <<master, fds, ctx, stirred>>
  BY DEF OpenAuto
<1>2. /\ pc = "idle" /\ pc' = "auto" /\ UNCHANGED <<link, cap>> /\ last' = Done
      /\ call' \in CallType(Items') /\ steady' \subseteq Crtcs /\ ever' \subseteq Crtcs
      /\ call'.op = "auto" /\ call'.next = 1 /\ call'.best = None /\ call'.most = 0
      /\ call'.fallback = None /\ call'.seen = {} /\ call'.found = {}
      /\ call'.at = 1 /\ call'.counted = {}
      /\ steady' = Driving(link) /\ ever' = Driving(link)
  BY <1>1, BeginFacts
<1>3. TypeInv' /\ CallInv'
  BY <1>1, <1>2, ClosedType DEF Inv, TypeInv, CallInv, Scanning
<1>4. FdsInv' /\ MasterInv' /\ BestCard'
  BY <1>1, <1>2, ClosedType DEF Inv, FdsInv, Candidates, MasterInv, BestCard
<1>5. ScanInv'
  BY <1>1, <1>2 DEF ScanInv, Watched, Driving, Probed, ScanRanks, Ranked
<1>6. ReadInv' /\ BaseInv'
  BY <1>1, <1>2, ClosedType, DisplaysAside
<1> QED
  BY <1>3, <1>4, <1>5, <1>6 DEF Inv

(* A card is opened, or skipped.                                           *)
LEMMA ScanOpenInv == ASSUME Inv, ScanOpen PROVE Inv'
<1>1. /\ pc = "auto" /\ call.next \in Cards
      /\ UNCHANGED <<link, cap, steady, ever, ctx, last, stirred>>
  BY DEF ScanOpen, World
<1>2. /\ call \in CallType(Cards) /\ call.op = "auto" /\ last.picked = None
      /\ last.changed = "unasked" /\ ctx = Closed /\ fds = Candidates
      /\ call.next \in Nat /\ Scanning
  BY <1>1 DEF Inv, TypeInv, Items, CallInv, Scanning, FdsInv, CallType, AnswerType
<1>3. /\ Watched /\ Probed /\ ScanRanks /\ \A c \in Candidates : c < call.next
      /\ call.at = 1 /\ call.counted = {}
  BY <1>1, <1>2 DEF Inv, ScanInv, FdsInv, Probed
<1>4. CASE /\ pc' = "probe" /\ fds' = fds \cup {call.next} /\ UNCHANGED call
           /\ master' = OpenedCard(master, call.next, "probe")
  <2>1. /\ master' \in [Cards -> Masters]
        /\ \A c \in Cards : master'[c] \in {master[c], "probe"}
        /\ \A c \in Cards \ {call.next} : master'[c] = master[c]
    BY <1>4, OpenedMastery DEF Inv, TypeInv
  <2>2. TypeInv' /\ CallInv'
    BY <1>1, <1>2, <1>4, <2>1 DEF Inv, TypeInv, Items, CallInv, Scanning, Listable
  <2>3. FdsInv' /\ MasterInv'
    BY <1>1, <1>2, <1>4, <2>1 DEF Inv, FdsInv, Candidates, MasterInv, Scanning
  <2>4. Watched' /\ Probed'
    <3>1. \A x \in OfCard(steady, call.next) : ~(x < 1)
      BY Numbers DEF OfCard, Inv, TypeInv
    <3> QED
      BY <1>1, <1>3, <1>4, <3>1 DEF Watched, Driving, Probed
  <2>5. ScanInv' /\ BestCard'
    BY <1>1, <1>2, <1>3, <1>4, <2>4 DEF ScanInv, ScanRanks, Ranked, BestCard
  <2>6. ReadInv' /\ BaseInv'
    BY <1>1, <1>4, DisplaysAside
  <2> QED
    BY <2>2, <2>3, <2>5, <2>6 DEF Inv
<1>5. CASE call' = [call EXCEPT !.next = @ + 1] /\ UNCHANGED <<pc, fds, master>>
  <2>1. /\ call' \in CallType(Cards) /\ call'.op = "auto" /\ call'.next = call.next + 1
        /\ call'.best = call.best /\ call'.most = call.most /\ call'.fallback = call.fallback
        /\ call'.seen = call.seen /\ call'.at = 1 /\ call'.counted = {}
    BY <1>2, <1>3, <1>5 DEF CallType
  <2>2. TypeInv' /\ CallInv'
    BY <1>1, <1>2, <1>5, <2>1 DEF Inv, TypeInv, Items, CallInv, Scanning, Listable
  <2>3. Candidates' = Candidates /\ Ranked' = Ranked /\ Candidates \subseteq Nat
        /\ Ranked \subseteq Nat
    BY <1>2, <2>1, Numbers, DiscoveryAssumption DEF Candidates, Ranked, CallType
  <2>4. FdsInv' /\ MasterInv'
    BY <1>1, <1>2, <1>3, <1>5, <2>1, <2>3 DEF Inv, FdsInv, MasterInv, Scanning
  <2>5. ScanInv' /\ BestCard'
    <3>1. \A c \in Ranked : c < call'.next
      <4>1. \A c \in Ranked : c < call.next
        BY <1>3 DEF ScanRanks
      <4> QED
        BY <1>2, <2>1, <2>3, <4>1
    <3>2. ScanRanks'
      BY <1>1, <1>3, <2>1, <2>2, <3>1, RanksKept DEF Inv
    <3>3. Watched' /\ Probed'
      BY <1>1, <1>3, <1>5, <2>1 DEF Watched, Driving, Probed
    <3> QED
      BY <1>1, <1>2, <3>2, <3>3 DEF ScanInv, BestCard
  <2>6. ReadInv' /\ BaseInv'
    BY <1>1, <1>5, DisplaysAside
  <2> QED
    BY <2>2, <2>4, <2>5, <2>6 DEF Inv
<1> QED
  BY <1>4, <1>5 DEF ScanOpen

(* One CRTC of it is read, or cannot be.                                   *)
LEMMA ScanCrtcInv == ASSUME Inv, NEW x \in Crtcs, ScanCrtc(x) PROVE Inv'
<1>1. /\ pc = "probe" /\ x \in OfCard(Crtcs, call.next) /\ call.at <= x
      /\ \A y \in OfCard(Crtcs, call.next) : y >= call.at => y >= x
      /\ UNCHANGED <<link, master, cap, fds, ctx, pc, last, stirred, ever>>
      /\ \/ /\ call' = [call EXCEPT !.at = x + 1,
                           !.counted = IF x \in Driving(link) THEN @ \cup {x} ELSE @]
            /\ UNCHANGED steady
         \/ call' = [call EXCEPT !.at = x + 1] /\ steady' = steady \ {x}
  BY DEF ScanCrtc
<1>2. /\ call \in CallType(Cards) /\ call.op = "auto" /\ last.picked = None /\ Scanning
      /\ x \in Nat /\ call.at \in Nat /\ call.counted \subseteq Crtcs /\ Crtcs \subseteq Nat
      /\ steady \subseteq Crtcs /\ Watched /\ Probed /\ ScanRanks
  BY <1>1, Numbers DEF Inv, TypeInv, Items, CallInv, Scanning, CallType, ScanInv
<1>3. /\ call' \in CallType(Cards) /\ call'.op = "auto" /\ call'.next = call.next
      /\ call'.best = call.best /\ call'.most = call.most /\ call'.fallback = call.fallback
      /\ call'.seen = call.seen /\ call'.at = x + 1 /\ call.counted \subseteq call'.counted
      /\ call'.counted \subseteq call.counted \cup ({x} \cap Driving(link))
      /\ steady' \subseteq steady /\ (x \in steady' => x \in call'.counted)
  <2>1. x \in steady => x \in Driving(link)
    BY <1>2 DEF Watched
  <2>2. x + 1 \in Nat /\ call.counted \cup {x} \subseteq Crtcs
    BY <1>2
  <2>3. CASE /\ call' = [call EXCEPT !.at = x + 1,
                            !.counted = IF x \in Driving(link) THEN @ \cup {x} ELSE @]
             /\ UNCHANGED steady
    BY <1>2, <2>1, <2>2, <2>3 DEF CallType
  <2>4. CASE call' = [call EXCEPT !.at = x + 1] /\ steady' = steady \ {x}
    BY <1>2, <2>2, <2>4 DEF CallType
  <2> QED
    BY <1>1, <2>3, <2>4
<1>4. TypeInv' /\ CallInv'
  BY <1>1, <1>2, <1>3 DEF Inv, TypeInv, Items, CallInv, Scanning, Listable
<1>5. FdsInv' /\ MasterInv' /\ BestCard'
  BY <1>1, <1>2, <1>3 DEF Inv, FdsInv, Candidates, MasterInv, Scanning, BestCard
<1>6. Watched'
  BY <1>1, <1>2, <1>3 DEF Watched, Driving
<1>7. Probed'
  <2>1. call'.counted \subseteq OfCard(ever, call.next)
    BY <1>1, <1>2, <1>3 DEF Watched, Probed, OfCard
  <2>2. ASSUME NEW y \in OfCard(steady', call.next), y < x + 1
        PROVE  y \in call'.counted
    <3>1. y \in Nat /\ y \in OfCard(steady, call.next) /\ y \in OfCard(Crtcs, call.next)
      BY <1>2, <1>3, <2>2 DEF OfCard
    <3>2. CASE y < call.at
      BY <1>1, <1>2, <1>3, <3>1, <3>2 DEF Probed
    <3>3. CASE ~(y < call.at)
      <4>1. y = x
        BY <1>1, <1>2, <2>2, <3>1, <3>3
      <4> QED
        BY <1>3, <2>2, <4>1 DEF OfCard
    <3> QED
      BY <3>2, <3>3
  <2> QED
    BY <1>1, <1>3, <2>1, <2>2 DEF Probed
<1>8. ScanRanks'
  BY <1>1, <1>2, <1>3, <1>4, RanksKept DEF Inv, ScanRanks
<1>9. ReadInv' /\ BaseInv'
  BY <1>1, DisplaysAside
<1> QED
  BY <1>4, <1>5, <1>6, <1>7, <1>8, <1>9 DEF Inv, ScanInv

(* It becomes the best so far, or the fallback, or is closed.              *)
LEMMA ScanProbeInv == ASSUME Inv, ScanProbe PROVE Inv'
<1> DEFINE c == call.next
           active == Cardinality(call.counted)
           gone == Superseded(c, active)
           ranked == active > 0 /\ Better(active)
           kept == ~ranked /\ active = 0 /\ c \notin gone
<1>1. /\ pc = "probe" /\ pc' = "auto" /\ UNCHANGED <<link, cap, steady, ever, ctx, last, stirred>>
      /\ fds' = fds \ gone /\ master' = ClosedCards(master, gone, "probe")
  BY DEF ScanProbe, World
<1>2. /\ call \in CallType(Cards) /\ call.op = "auto" /\ last.picked = None
      /\ ctx = Closed /\ fds = Candidates \cup {c} /\ Scanning
  BY <1>1 DEF Inv, TypeInv, Items, CallInv, Scanning, FdsInv
<1>3. /\ ScanRanks /\ \A d \in Candidates : d < c
      /\ call.best = None \/ call.best # call.fallback
      /\ c \in Cards /\ c \in Nat /\ active \in Nat /\ Cards \subseteq Nat
      /\ c \notin Kms => active = 0
      /\ CountOn(steady, c) <= active /\ active <= CountOn(ever, c)
      /\ Watched
  <2>1. /\ OfCard(steady, c) \subseteq call.counted /\ call.counted \subseteq OfCard(ever, c)
        /\ OfCard(ever, c) \subseteq Crtcs
    <3>1. \A x \in OfCard(Crtcs, c) : x < call.at
      BY DEF ScanProbe
    <3>2. Probed /\ steady \subseteq Crtcs /\ ever \subseteq Crtcs
      BY <1>2 DEF Inv, ScanInv, TypeInv
    <3> QED
      BY <1>1, <3>1, <3>2 DEF Probed, OfCard
  <2>2. /\ active \in Nat /\ CountOn(steady, c) <= active /\ active <= CountOn(ever, c)
    BY <2>1, Counted DEF CountOn
  <2>3. c \notin Kms => active = 0
    <3>1. c \notin Kms => OfCard(ever, c) = {}
      BY <2>1, DiscoveryAssumption DEF OfCard
    <3>2. c \notin Kms => call.counted = {}
      BY <2>1, <3>1
    <3> QED
      BY <3>2, FS_EmptySet
  <2> HIDE DEF active
  <2> QED
    BY <1>2, <2>2, <2>3, Numbers DEF Inv, ScanInv, FdsInv, TypeInv
<1>4. /\ call' \in CallType(Cards) /\ call'.op = "auto" /\ call'.next = c + 1
      /\ call'.seen = call.seen \cup {c}
      /\ call'.best = IF ranked THEN c ELSE call.best
      /\ call'.most = IF ranked THEN active ELSE call.most
      /\ call'.fallback = IF kept THEN c ELSE call.fallback
      /\ call'.at = 1 /\ call'.counted = {}
  <2> DEFINE read == [call EXCEPT !.next = c + 1, !.seen = @ \cup {c}, !.at = 1,
                                  !.counted = {}]
  <2>1. call' = IF ranked THEN [read EXCEPT !.best = c, !.most = active]
                ELSE IF active = 0 /\ c \notin gone THEN [read EXCEPT !.fallback = c]
                ELSE read
    BY DEF ScanProbe
  <2> HIDE DEF c, active, gone
  <2>2. /\ read \in CallType(Cards) /\ read.op = "auto" /\ read.next = c + 1
        /\ read.seen = call.seen \cup {c} /\ read.best = call.best /\ read.most = call.most
        /\ read.fallback = call.fallback /\ read.at = 1 /\ read.counted = {}
    <3>1. c + 1 \in Nat /\ call.seen \cup {c} \in SUBSET Cards
      BY <1>2, <1>3 DEF CallType
    <3> QED
      BY <1>2, <3>1 DEF CallType
  <2> HIDE DEF read
  <2>3. CASE ranked
    BY <1>3, <2>1, <2>2, <2>3 DEF CallType
  <2>4. CASE ~ranked /\ active = 0 /\ c \notin gone
    BY <1>3, <2>1, <2>2, <2>4 DEF CallType
  <2> QED
    BY <2>1, <2>2, <2>3, <2>4
<1>5. /\ master' \in [Cards -> Masters]
      /\ \A d \in Cards : master'[d] \in {master[d], "nobody"}
      /\ \A d \in Cards : d \in gone => master'[d] # "probe"
  BY <1>1, ClosedMastery DEF Inv, TypeInv
<1> HIDE DEF active
<1>6. /\ ranked => gone = {call.best} \ {None} /\ c \in Kms
      /\ kept => gone = {} /\ c \in Kms
      /\ ~ranked /\ ~kept => gone = {c}
  BY <1>3 DEF Superseded
<1> HIDE DEF gone, c, ranked, kept
<1>7. TypeInv' /\ CallInv'
  BY <1>1, <1>2, <1>4, <1>5 DEF Inv, TypeInv, Items, CallInv, Scanning, Listable
<1>8. FdsInv'
  <2>2. call.best # c /\ call.fallback # c /\ c # None
    BY <1>3, DiscoveryAssumption DEF Candidates
  <2>3. fds' = Candidates'
    <3>1. CASE ranked
      BY <1>1, <1>2, <1>3, <1>4, <1>6, <2>2, <3>1 DEF Candidates, kept
    <3>2. CASE kept
      <4>1. call.fallback = None
        BY <1>3, <1>6, <3>2 DEF kept, Superseded, gone, ranked
      <4> QED
        BY <1>1, <1>2, <1>3, <1>4, <1>6, <2>2, <3>2, <4>1 DEF Candidates, kept
    <3>3. CASE ~ranked /\ ~kept
      BY <1>1, <1>2, <1>3, <1>4, <1>6, <2>2, <3>3 DEF Candidates
    <3> QED
      BY <3>1, <3>2, <3>3
  <2>4. \A d \in Candidates' : d < c + 1
    BY <1>2, <1>3, <1>4 DEF Candidates, CallType
  <2>5. call'.best = None \/ call'.best # call'.fallback
    BY <1>3, <1>4, <2>2 DEF kept
  <2> QED
    BY <1>1, <1>4, <2>3, <2>4, <2>5 DEF FdsInv
<1>9. MasterInv'
  BY <1>1, <1>5 DEF Inv, MasterInv
<1>10. ScanRanks'
  <2>1. /\ Ranked' = Ranked \cup ({c} \cap Kms) /\ Ranked \subseteq Cards
        /\ call.best \in Cards \cup {None} /\ call.most \in Nat
    BY <1>2, <1>4 DEF Ranked, CallType
  <2>2. /\ CountOn(steady, c) <= active /\ active <= CountOn(ever, c)
        /\ \A d \in Cards : CountOn(steady, d) \in Nat /\ CountOn(ever, d) \in Nat
    BY <1>3, CountedOn DEF Inv, TypeInv
  <2>3. \A d \in Ranked' : d < c + 1
    <3>1. \A d \in Ranked : d < c
      BY <1>3 DEF ScanRanks, c
    <3> QED
      BY <1>3, <2>1, <3>1
  <2>4. ASSUME call'.best = None
        PROVE  /\ call'.most = 0
               /\ \A d \in Ranked' : CountOn(steady, d) = 0
               /\ \A d \in Ranked' : call'.fallback # None /\ call'.fallback <= d
    <3>1. call.best = None /\ ~ranked
      BY <1>3, <1>4, <2>4, DiscoveryAssumption
    <3>2. active = 0 /\ call.most = 0
      BY <1>3, <3>1 DEF ScanRanks, Better, ranked
    <3>3. \A d \in Ranked : /\ CountOn(steady, d) = 0 /\ call.fallback # None
                            /\ call.fallback <= d /\ d < c
      BY <1>3, <3>1 DEF ScanRanks, c
    <3>4. c \in Kms => call'.fallback # None /\ call'.fallback <= c
      <4>1. c \in Kms => (kept <=> call.fallback = None)
        BY <1>3, <3>1, <3>2, DiscoveryAssumption DEF Superseded, gone, kept
      <4>2. call.fallback # None => call.fallback < c /\ call.fallback \in Nat
        BY <1>2, <1>3 DEF Candidates, CallType
      <4> QED
        BY <1>3, <1>4, <4>1, <4>2, DiscoveryAssumption
    <3>5. Ranked # {} => call'.fallback = call.fallback
      BY <1>3, <1>4, <1>6, <3>1, <3>2, <3>3 DEF Superseded, gone, kept
    <3>6. c \in Kms => CountOn(steady, c) = 0
      BY <1>3, <2>2, <3>2
    <3> QED
      BY <1>4, <2>1, <3>1, <3>2, <3>3, <3>4, <3>5, <3>6
  <2>5. ASSUME call'.best # None
        PROVE  /\ call'.most <= CountOn(ever, call'.best)
               /\ \A d \in Ranked' : IF d < call'.best THEN CountOn(steady, d) < call'.most
                                     ELSE CountOn(steady, d) <= call'.most
    <3>1. CASE ranked
      <4>1. \A d \in Ranked : d < c /\ CountOn(steady, d) <= call.most /\ d \in Nat
        <5>1. \A d \in Ranked : d < c /\ d \in Nat
          BY <1>3, <2>1 DEF ScanRanks, c
        <5>2. CASE call.best = None
          BY <1>3, <2>1, <5>1, <5>2 DEF ScanRanks
        <5>3. CASE call.best # None
          <6>1. \A d \in Ranked : CountOn(steady, d) < call.most \/ CountOn(steady, d) <= call.most
            BY <1>3, <5>3 DEF ScanRanks
          <6> QED
            BY <2>1, <2>2, <5>1, <6>1
        <5> QED
          BY <5>1, <5>2, <5>3
      <4>2. call.most < active /\ call'.best = c /\ call'.most = active
        BY <1>4, <3>1 DEF ranked, Better
      <4>3. \A d \in Ranked : d < c /\ CountOn(steady, d) < active
        BY <1>3, <2>1, <2>2, <4>1, <4>2
      <4> QED
        BY <1>3, <2>1, <2>2, <4>2, <4>3
    <3>2. CASE ~ranked
      <4>1. /\ call'.best = call.best /\ call'.most = call.most /\ call.best \in Cards
            /\ call.best < c /\ active <= call.most
        BY <1>3, <1>4, <2>1, <2>5, <3>2 DEF ranked, Better, Candidates, ScanRanks
      <4>2. /\ call.most <= CountOn(ever, call.best)
            /\ \A d \in Ranked : IF d < call.best THEN CountOn(steady, d) < call.most
                                 ELSE CountOn(steady, d) <= call.most
        BY <1>3, <2>5, <4>1 DEF ScanRanks
      <4>3. ASSUME NEW d \in Ranked'
            PROVE  IF d < call.best THEN CountOn(steady, d) < call.most
                   ELSE CountOn(steady, d) <= call.most
        <5>1. CASE d \in Ranked
          BY <4>2, <5>1
        <5>2. CASE d = c
          <6>1. ~(d < call.best) /\ CountOn(steady, d) <= call.most
            <7>1. /\ CountOn(steady, c) \in Nat /\ CountOn(steady, c) <= active /\ call.best \in Nat
                  /\ ~(c < call.best)
              <8>1. c \in Cards /\ c \in Nat /\ call.best \in Nat /\ call.best < c
                BY <1>3, <4>1
              <8>2. CountOn(steady, c) \in Nat /\ CountOn(steady, c) <= active
                BY <2>2, <8>1
              <8> QED
                BY <8>1, <8>2
            <7> QED
              BY <1>3, <2>1, <4>1, <5>2, <7>1
          <6> QED
            BY <6>1
        <5> QED
          BY <2>1, <5>1, <5>2
      <4> QED
        BY <4>1, <4>2, <4>3
    <3> QED
      BY <3>1, <3>2
  <2> QED
    BY <1>1, <1>3, <1>4, <2>3, <2>4, <2>5 DEF ScanRanks
<1>11. ScanInv' /\ BestCard'
  <2>1. Watched' /\ Probed'
    BY <1>1, <1>3, <1>4 DEF Watched, Driving, Probed
  <2> QED
    BY <1>1, <1>2, <1>10, <2>1 DEF ScanInv, BestCard
<1>12. ReadInv' /\ BaseInv'
  BY <1>1, DisplaysAside
<1> QED
  BY <1>7, <1>8, <1>9, <1>11, <1>12 DEF Inv

(* The best is handed to the context and the fallback closed.              *)
LEMMA ScanEndInv == ASSUME Inv, ScanEnd PROVE Inv'
<1> DEFINE c == IF call.best # None THEN call.best ELSE call.fallback
           kept == [d \in Cards |-> IF d = c /\ master[d] = "probe" THEN "ctx" ELSE master[d]]
           m == ClosedCards(kept, {call.fallback}, "probe")
           ret == [Done EXCEPT !.picked = c, !.of = call.seen \cap Kms]
<1>1. /\ pc = "auto" /\ call.next \notin Cards /\ UNCHANGED <<link, cap, steady, ever>>
      /\ IF c = None
         THEN Finish(Done) /\ UNCHANGED <<master, fds, ctx, stirred>>
         ELSE /\ Opened(m, c) /\ fds' = fds \ {call.best, call.fallback} /\ Finish(ret)
  BY DEF ScanEnd, World
<1>2. /\ call \in CallType(Cards) /\ call.op = "auto" /\ ctx = Closed /\ fds = Candidates
      /\ Scanning /\ ScanRanks /\ c \in Cards \cup {None}
      /\ call.best = None \/ call.best # call.fallback
  BY <1>1 DEF Inv, TypeInv, Items, CallInv, Scanning, FdsInv, ScanInv, CallType
<1>3. CASE c = None
  <2>1. /\ pc' = "idle" /\ call' = Idle /\ call' \in CallType(Items') /\ last' = Done
        /\ UNCHANGED <<master, fds, ctx, stirred>> /\ fds = {}
    BY <1>1, <1>2, <1>3, FinishFacts, ClosedType DEF Candidates
  <2>2. TypeInv' /\ CallInv'
    BY <1>1, <1>2, <2>1, ClosedType, IdleType DEF Inv, TypeInv, CallInv, Scanning
  <2>3. FdsInv' /\ MasterInv' /\ ScanInv' /\ BestCard'
    BY <1>1, <1>2, <2>1, ClosedType DEF Inv, FdsInv, MasterInv, ScanInv, Scanning, BestCard
  <2>4. ReadInv' /\ BaseInv'
    BY <1>1, <2>1, ClosedType, DisplaysAside
  <2> QED
    BY <2>2, <2>3, <2>4 DEF Inv
<1>4. CASE c # None
  <2>1. /\ ret \in AnswerType /\ ret.changed = "unasked" /\ ret.picked = c /\ ret.of = Ranked
        /\ Ranked \subseteq Cards
    BY <1>2, <1>4, DiscoveryAssumption DEF AnswerType, Done, Ranked, CallType
  <2>2. /\ kept \in [Cards -> Masters]
        /\ \A d \in Cards : /\ kept[d] = "ctx" => d = c
                            /\ kept[d] = "probe" => d # c /\ d \in fds
    <3>1. master \in [Cards -> Masters] /\ \A d \in Cards : master[d] # "ctx"
      BY <1>2, NoMaster DEF Inv, TypeInv
    <3>2. \A d \in Cards : master[d] = "probe" => d \in fds
      BY DEF Inv, MasterInv
    <3> HIDE DEF c
    <3> QED
      BY <3>1, <3>2 DEF Masters
  <2> HIDE DEF kept
  <2>3. /\ m \in [Cards -> Masters]
        /\ \A d \in Cards : m[d] = "ctx" => d = c
        /\ \A d \in Cards : m[d] # "probe"
    <3>1. /\ m \in [Cards -> Masters]
          /\ \A d \in Cards : m[d] \in {kept[d], "nobody"}
          /\ \A d \in Cards : d \in {call.fallback} => m[d] # "probe"
      BY <2>2, ClosedMastery
    <3>2. \A d \in fds : d = c \/ d = call.fallback
      BY <1>2 DEF Candidates
    <3> HIDE DEF m, c
    <3> QED
      BY <2>2, <3>1, <3>2
  <2>4. /\ pc' = "idle" /\ call' = Idle /\ call' \in CallType(Items') /\ last' = ret
        /\ last' \in AnswerType /\ fds' = {}
    BY <1>1, <1>2, <1>4, <2>1, FinishFacts DEF Candidates
  <2>5. Opened(m, c)
    BY <1>1, <1>4
  <2>6. /\ ScanRanks /\ call.most \in Nat
        /\ \A d : CountOn(steady, d) \in Nat /\ CountOn(ever, d) \in Nat
    BY <1>2, CountedOn DEF Inv, TypeInv, CallType
  <2>7. \A d \in Ranked : IF d < c THEN CountOn(steady, d) < CountOn(ever, c)
                          ELSE CountOn(steady, d) <= CountOn(ever, c)
    <3>1. CASE call.best # None
      <4>1. c = call.best /\ CountOn(ever, c) \in Nat
        BY <1>2, <2>6, <3>1 DEF CallType
      <4>2. call.most <= CountOn(ever, c)
        BY <2>6, <3>1, <4>1 DEF ScanRanks
      <4> SUFFICES ASSUME NEW d \in Ranked
                   PROVE  IF d < c THEN CountOn(steady, d) < CountOn(ever, c)
                          ELSE CountOn(steady, d) <= CountOn(ever, c)
        OBVIOUS
      <4>3. IF d < c THEN CountOn(steady, d) < call.most ELSE CountOn(steady, d) <= call.most
        BY <2>6, <3>1, <4>1 DEF ScanRanks
      <4>4. CountOn(steady, d) \in Nat
        BY <2>1, <2>6
      <4> HIDE DEF c
      <4> QED
        BY <2>6, <4>1, <4>2, <4>3, <4>4
    <3>2. CASE call.best = None
      <4>1. c = call.fallback /\ c \in Nat /\ CountOn(ever, c) \in Nat
        BY <1>2, <1>4, <2>6, <3>2, Numbers DEF CallType
      <4>2. \A d \in Ranked : CountOn(steady, d) = 0 /\ c <= d /\ d \in Nat
        BY <2>1, <2>6, <3>2, <4>1, Numbers DEF ScanRanks
      <4> HIDE DEF c
      <4> QED
        BY <4>1, <4>2
    <3> QED
      BY <3>1, <3>2
  <2> HIDE DEF c, m, ret
  <2>8. /\ ctx' \in CtxType /\ ctx'.card = c /\ ~ctx'.render /\ ~ctx'.told
        /\ stirred' = {"now"}
        /\ master' \in [Cards -> Masters]
        /\ \A d \in Cards : /\ master'[d] \in {m[d], "nobody"}
                            /\ master'[d] = "ctx" => d = c /\ ~cap
    BY <1>2, <1>4, <2>3, <2>5, OpenedFacts
  <2>9. TypeInv' /\ CallInv'
    BY <1>1, <2>1, <2>4, <2>8, IdleType DEF Inv, TypeInv, CallInv, Scanning
  <2>10. FdsInv' /\ MasterInv' /\ ScanInv'
    BY <1>1, <2>3, <2>4, <2>8 DEF FdsInv, MasterInv, ScanInv, Scanning
  <2>11. BestCard'
    BY <1>1, <2>1, <2>4, <2>7 DEF BestCard
  <2>12. ReadInv' /\ BaseInv'
    BY <2>1, <2>4, <2>8, NeverAsked
  <2> QED
    BY <2>9, <2>10, <2>11, <2>12 DEF Inv
<1> QED
  BY <1>3, <1>4

-----------------------------------------------------------------------------
(* A call begins that is no scan and asks for no displays,                 *)
LEMMA BeginInv ==
  ASSUME Inv, NEW op \in {"devices", "render"}, Begin(op),
         op = "render" => ctx = Closed, UNCHANGED <<master, fds, ctx, stirred>>
  PROVE  Inv'
<1>1. /\ pc = "idle" /\ pc' = op /\ UNCHANGED <<link, cap>> /\ last' = Done
      /\ call' \in CallType(Items') /\ steady' \subseteq Crtcs /\ ever' \subseteq Crtcs
      /\ call'.op = op
  BY BeginFacts
<1>2. TypeInv' /\ CallInv'
  BY <1>1, ClosedType DEF Inv, TypeInv, CallInv, Scanning
<1>3. FdsInv' /\ MasterInv' /\ ScanInv' /\ BestCard'
  BY <1>1, ClosedType, FilesAside
<1>4. ReadInv' /\ BaseInv'
  BY <1>1, ClosedType, DisplaysAside
<1> QED
  BY <1>2, <1>3, <1>4 DEF Inv

(* and one ends that leaves things as they are.                            *)
LEMMA EndInv ==
  ASSUME Inv, pc \in {"idle", "devices", "render"}, Finish(Done),
         UNCHANGED <<link, cap, steady, ever, master, fds, ctx, stirred>>
  PROVE  Inv'
<1>1. /\ pc' = "idle" /\ call' = Idle /\ call' \in CallType(Items') /\ last' = Done
  BY FinishFacts, ClosedType
<1>2. TypeInv' /\ CallInv'
  BY <1>1, ClosedType, IdleType DEF Inv, TypeInv, CallInv, Scanning
<1>3. FdsInv' /\ MasterInv' /\ ScanInv' /\ BestCard'
  BY <1>1, ClosedType, FilesAside
<1>4. ReadInv' /\ BaseInv'
  BY <1>1, ClosedType, DisplaysAside
<1> QED
  BY <1>2, <1>3, <1>4 DEF Inv

(* drmtap_list_devices has one card open at a time.                        *)
LEMMA DeviceOpenInv == ASSUME Inv, DeviceOpen PROVE Inv'
<1>1. /\ pc = "devices" /\ call.next \in Cards
      /\ UNCHANGED <<link, cap, steady, ever, ctx, last, stirred>>
  BY DEF DeviceOpen, World
<1>2. call \in CallType(Cards) /\ call.op # "auto" /\ last.picked = None /\ fds = {}
  BY <1>1 DEF Inv, TypeInv, Items, CallInv, Scanning, FdsInv
<1>3. CASE call' = [call EXCEPT !.next = @ + 1] /\ UNCHANGED <<pc, fds, master>>
  <2>1. call' \in CallType(Cards) /\ call'.op = call.op
    BY <1>2, <1>3 DEF CallType
  <2>2. TypeInv' /\ CallInv'
    BY <1>1, <1>2, <1>3, <2>1 DEF Inv, TypeInv, Items, CallInv, Scanning, Listable
  <2>3. FdsInv' /\ MasterInv' /\ ScanInv' /\ BestCard'
    BY <1>1, <1>3, FilesAside
  <2>4. ReadInv' /\ BaseInv'
    BY <1>1, <1>3, DisplaysAside
  <2> QED
    BY <2>2, <2>3, <2>4 DEF Inv
<1>4. CASE /\ pc' = "device" /\ fds' = {call.next} /\ UNCHANGED call
           /\ master' = LET m == OpenedCard(master, call.next, "probe")
                        IN IF cap THEN ClosedCards(m, {call.next}, "probe") ELSE m
  <2> DEFINE m == OpenedCard(master, call.next, "probe")
  <2>1. /\ m \in [Cards -> Masters]
        /\ \A c \in Cards : m[c] \in {master[c], "probe"}
        /\ \A c \in Cards \ {call.next} : m[c] = master[c]
    BY OpenedMastery DEF Inv, TypeInv
  <2>2. master' = IF cap THEN ClosedCards(m, {call.next}, "probe") ELSE m
    BY <1>4
  <2> HIDE DEF m
  <2>3. /\ master' \in [Cards -> Masters]
        /\ \A c \in Cards : master'[c] \in {m[c], "nobody"}
    BY <2>1, <2>2, ClosedMastery
  <2>4. TypeInv' /\ CallInv'
    BY <1>1, <1>2, <1>4, <2>3 DEF Inv, TypeInv, Items, CallInv, Scanning, Listable
  <2>5. FdsInv' /\ ScanInv' /\ BestCard'
    BY <1>1, <1>2, <1>4 DEF FdsInv, ScanInv, Scanning, BestCard
  <2>6. MasterInv'
    BY <1>1, <1>2, <1>4, <2>1, <2>3 DEF Inv, MasterInv
  <2>7. ReadInv' /\ BaseInv'
    BY <1>1, <1>4, DisplaysAside
  <2> QED
    BY <2>4, <2>5, <2>6, <2>7 DEF Inv
<1> QED
  BY <1>3, <1>4 DEF DeviceOpen

(* It is closed before the next one is opened.                             *)
LEMMA DeviceReadInv == ASSUME Inv, DeviceRead PROVE Inv'
<1> DEFINE c == call.next
<1>1. /\ pc = "device" /\ pc' = "devices" /\ fds' = {}
      /\ UNCHANGED <<link, cap, steady, ever, ctx, last, stirred>>
      /\ master' = ClosedCards(master, {c}, "probe")
      /\ call' = [call EXCEPT !.next = c + 1, !.found = IF c \in Kms THEN @ \cup {c} ELSE @]
  BY DEF DeviceRead, World
<1>2. /\ call \in CallType(Cards) /\ call.op # "auto" /\ last.picked = None /\ fds = {c}
      /\ c \in Cards /\ c \in Nat
  BY <1>1 DEF Inv, TypeInv, Items, CallInv, Scanning, FdsInv, CallType
<1>3. call' \in CallType(Cards) /\ call'.op = call.op
  <2>1. c + 1 \in Nat /\ call.found \cup {c} \in SUBSET Cards
    BY <1>2 DEF CallType
  <2> HIDE DEF c
  <2> QED
    BY <1>1, <1>2, <2>1 DEF CallType
<1>4. /\ master' \in [Cards -> Masters]
      /\ \A d \in Cards : master'[d] \in {master[d], "nobody"}
      /\ \A d \in Cards : d \in {c} => master'[d] # "probe"
  BY <1>1, ClosedMastery DEF Inv, TypeInv
<1>5. TypeInv' /\ CallInv'
  BY <1>1, <1>2, <1>3, <1>4 DEF Inv, TypeInv, Items, CallInv, Scanning, Listable
<1>6. FdsInv' /\ ScanInv' /\ BestCard'
  BY <1>1, <1>2 DEF FdsInv, ScanInv, Scanning, BestCard
<1>7. MasterInv'
  BY <1>1, <1>2, <1>4 DEF Inv, MasterInv
<1>8. ReadInv' /\ BaseInv'
  BY <1>1, DisplaysAside
<1> QED
  BY <1>5, <1>6, <1>7, <1>8 DEF Inv

(* drmtap_open_render opens no card.                                       *)
LEMMA RankNodeInv == ASSUME Inv, NEW c \in Cards, RankNode(c) PROVE Inv'
<1>1. /\ pc = "render" /\ UNCHANGED <<link, cap, steady, ever, master, fds, ctx, pc, last, stirred>>
  BY DEF RankNode, World
<1>2. call \in CallType(Cards) /\ call.op # "auto"
  BY <1>1 DEF Inv, TypeInv, Items, CallInv, Scanning
<1>3. call' \in CallType(Cards) /\ call'.op = call.op
  <2>1. call.seen \cup {c} \in SUBSET Cards /\ OutputRank(c) \in Nat
    BY <1>2 DEF CallType, OutputRank
  <2>2. call' = IF OutputRank(c) > call.most
                THEN [call EXCEPT !.seen = @ \cup {c}, !.best = c, !.most = OutputRank(c)]
                ELSE [call EXCEPT !.seen = @ \cup {c}]
    BY DEF RankNode
  <2> QED
    BY <1>2, <2>1, <2>2 DEF CallType
<1>4. TypeInv' /\ CallInv'
  BY <1>1, <1>2, <1>3 DEF Inv, TypeInv, Items, CallInv, Scanning, Listable
<1>5. FdsInv' /\ MasterInv' /\ ScanInv' /\ BestCard'
  BY <1>1, FilesAside
<1>6. ReadInv' /\ BaseInv'
  BY <1>1, DisplaysAside
<1> QED
  BY <1>4, <1>5, <1>6 DEF Inv

(* It ends with a render node, or with no context.                         *)
LEMMA RenderEndInv == ASSUME Inv, RenderEnd PROVE Inv'
<1>1. /\ pc = "render" /\ UNCHANGED <<link, cap, steady, ever, master, fds>> /\ stirred' = {}
      /\ Finish(Done)
      /\ \/ \E c \in Nodes : ctx' = [Closed EXCEPT !.card = c, !.render = TRUE]
         \/ UNCHANGED ctx
  BY DEF RenderEnd, World
<1>2. /\ pc' = "idle" /\ call' = Idle /\ call' \in CallType(Items') /\ last' = Done
      /\ ctx = Closed /\ fds = {}
  BY <1>1, FinishFacts, ClosedType DEF Inv, CallInv, FdsInv
<1>3. ctx' \in CtxType /\ ~ctx'.told /\ (ctx'.card = None \/ ctx'.render)
  <2>1. CASE UNCHANGED ctx
    BY <1>2, <2>1, ClosedType
  <2>2. ASSUME NEW c \in Nodes, ctx' = [Closed EXCEPT !.card = c, !.render = TRUE]
        PROVE  ctx' \in CtxType /\ ~ctx'.told /\ (ctx'.card = None \/ ctx'.render)
    BY <2>2, DiscoveryAssumption DEF Closed, CtxType
  <2> QED
    BY <1>1, <2>1, <2>2
<1>4. ~Listable'
  BY <1>3, Numbers DEF Listable
<1>5. TypeInv' /\ CallInv'
  BY <1>1, <1>2, <1>3, ClosedType, IdleType DEF Inv, TypeInv, CallInv, Scanning
<1>6. \A c \in Cards : master[c] # "ctx" /\ master[c] # "probe"
  BY <1>2, NoMaster DEF Inv, MasterInv
<1>7. FdsInv' /\ MasterInv' /\ ScanInv' /\ BestCard'
  BY <1>1, <1>2, <1>6, ClosedType DEF FdsInv, MasterInv, ScanInv, Scanning, BestCard
<1>8. ReadInv' /\ BaseInv'
  BY <1>2, <1>3, <1>4, ClosedType, NeverAsked
<1> QED
  BY <1>5, <1>7, <1>8 DEF Inv

-----------------------------------------------------------------------------
(* The displays of a context.                                              *)

(* What has been read grows by the connector that comes next, up to all.   *)
LEMMA NextConnector ==
  ASSUME Inv, NEW k \in Connectors, Reads(k)
  PROVE  /\ UNCHANGED <<link, cap, steady, ever, master, fds, ctx, pc, last>>
         /\ k \in Nat /\ <<k, link[k]>> \in Pairs
         /\ ReadUpTo(k + 1) = ReadUpTo(call.next) \cup {<<k, link[k]>>}
<1>1. /\ UNCHANGED <<link, cap, steady, ever, master, fds, ctx, pc, last>>
      /\ call.next <= k /\ k \in OnCard(ctx.card)
      /\ \A j \in OnCard(ctx.card) : j >= call.next => j >= k
  BY DEF Reads, World
<1>2. link \in [Connectors -> Links] /\ k \in Nat /\ OnCard(ctx.card) \subseteq Nat
  BY Numbers DEF Inv, TypeInv, OnCard
<1>3. call.next \in Nat
  BY DEF Inv, TypeInv, CallType
<1>4. {j \in OnCard(ctx.card) : j < k + 1} = {j \in OnCard(ctx.card) : j < call.next} \cup {k}
  <2>1. ASSUME NEW j \in OnCard(ctx.card)
        PROVE  j < k + 1 <=> j < call.next \/ j = k
    BY <1>1, <1>2, <1>3
  <2> QED
    BY <1>1, <2>1
<1> QED
  BY <1>1, <1>2, <1>4 DEF Pairs, ReadUpTo

(* When no connector is left the whole topology has been read,             *)
LEMMA AllRead ==
  ASSUME \A k \in OnCard(ctx.card) : k < call.next
  PROVE  ReadUpTo(call.next) = Topology
<1>1. {k \in OnCard(ctx.card) : k < call.next} = OnCard(ctx.card)
  OBVIOUS
<1> QED
  BY <1>1 DEF ReadUpTo, Topology

(* and before the first nothing.                                           *)
LEMMA NothingRead == ReadUpTo(1) = {}
<1>1. \A k \in Connectors : k \in Nat /\ k # 0
  BY Numbers
<1>2. {k \in OnCard(ctx.card) : k < 1} = {}
  BY <1>1 DEF OnCard
<1> QED
  BY <1>2 DEF ReadUpTo

(* Of a topology, what is listed.                                          *)
LEMMA LitOne ==
  ASSUME NEW topology, NEW k, NEW l
  PROVE  Lit(topology \cup {<<k, l>>}) = IF l.mode # "off" THEN Lit(topology) \cup {<<k, l>>}
                                         ELSE Lit(topology)
BY DEF Lit

(* The locals of a displays call.                                          *)
LEMMA DisplaysCall ==
  ASSUME Inv, pc \in {"list", "hash", "changed"}
  PROVE  /\ call \in CallType(Pairs) /\ call.op # "auto" /\ last.picked = None
         /\ last.changed = "unasked" /\ Listable /\ ctx \in CtxType
BY DEF Inv, TypeInv, Items, CallInv, Scanning, AnswerType

(* A listing or a question begins.                                         *)
LEMMA BeginDisplaysInv ==
  ASSUME Inv, NEW op \in {"list", "changed"}, BeginDisplays(op)
  PROVE  Inv'
<1>1. /\ Listable /\ Begin(op) /\ UNCHANGED <<master, fds>>
      /\ ctx' = IF op = "list" THEN [Closed EXCEPT !.card = ctx.card] ELSE ctx
      /\ stirred' = IF "now" \in stirred THEN {"before"} ELSE {}
  BY DEF BeginDisplays
<1>2. /\ pc = "idle" /\ pc' = op /\ UNCHANGED <<link, cap>> /\ last' = Done
      /\ call' \in CallType(Items') /\ steady' \subseteq Crtcs /\ ever' \subseteq Crtcs
      /\ call'.op = op /\ call'.next = 1 /\ call'.seen = {} /\ call'.found = {}
  BY <1>1, BeginFacts
<1>3. /\ ctx' \in CtxType /\ ctx'.card = ctx.card /\ ctx'.render = ctx.render
      /\ op = "list" => ~ctx'.told
      /\ op = "changed" => ctx' = ctx
  <2>1. ctx \in CtxType /\ ~ctx.render
    BY <1>1 DEF Listable, Inv, TypeInv
  <2> QED
    BY <1>1, <2>1 DEF Closed, CtxType
<1>4. TypeInv' /\ CallInv'
  BY <1>1, <1>2, <1>3, ClosedType DEF Inv, TypeInv, CallInv, Scanning, Listable
<1>5. FdsInv' /\ MasterInv' /\ ScanInv' /\ BestCard'
  BY <1>1, <1>2, <1>3, ClosedType, FilesAside
<1>6. ReadInv'
  <2>1. ReadUpTo(1)' = {}
    BY <1>2, <1>3, NothingRead DEF ReadUpTo
  <2>2. ReadUpTo(call.next)' = {}
    BY <1>2, <2>1 DEF ReadUpTo
  <2> QED
    BY <1>2, <2>2 DEF ReadInv, Lit
<1>7. BaseInv'
  <2>1. CASE op = "list"
    BY <1>2, <1>3, <2>1, ClosedType DEF BaseInv
  <2>2. CASE op = "changed"
    BY <1>1, <1>2, <1>3, <2>2, ClosedType DEF Inv, BaseInv, Listable, Topology, OnCard
  <2> QED
    BY <2>1, <2>2
<1> QED
  BY <1>4, <1>5, <1>6, <1>7 DEF Inv

(* A connector is read, or missed.                                         *)
LEMMA ReadStep ==
  ASSUME Inv, pc \in {"list", "hash", "changed"}, call' \in CallType(Pairs),
         call'.op = call.op, stirred' \subseteq {"now", "before"}, stirred \subseteq stirred',
         UNCHANGED <<link, cap, steady, ever, master, fds, ctx, pc, last>>, ReadInv'
  PROVE  Inv'
<1>1. TypeInv' /\ CallInv'
  BY DEF Inv, TypeInv, Items, CallInv, Scanning, Listable
<1>2. FdsInv' /\ MasterInv' /\ ScanInv' /\ BestCard'
  BY FilesAside
<1>3. BaseInv'
  BY DEF Inv, BaseInv, Listable, Topology, OnCard
<1> QED
  BY <1>1, <1>2, <1>3 DEF Inv

(* A listing counts the displays that are connected,                       *)
LEMMA ListConnectorInv ==
  ASSUME Inv, NEW k \in Connectors, ListConnector(k)
  PROVE  Inv'
<1> DEFINE pair == <<k, link[k]>>
           found == IF link[k].mode # "off" THEN call.found \cup {pair} ELSE call.found
<1>1. /\ pc = "list" /\ UNCHANGED <<link, cap, steady, ever, master, fds, ctx, pc, last>>
      /\ k \in Nat /\ pair \in Pairs
      /\ ReadUpTo(k + 1) = ReadUpTo(call.next) \cup {pair}
  BY NextConnector DEF ListConnector
<1>2. call \in CallType(Pairs) /\ stirred \subseteq {"now", "before"}
  BY <1>1, DisplaysCall DEF Inv, TypeInv
<1>3. found \in SUBSET Pairs /\ k + 1 \in Nat
  BY <1>1, <1>2 DEF CallType
<1>4. \A n : ReadUpTo(n)' = ReadUpTo(n)
  BY <1>1 DEF ReadUpTo
<1>5. CASE call' = [call EXCEPT !.next = k + 1, !.found = found] /\ UNCHANGED stirred
  <2>1. /\ call' \in CallType(Pairs) /\ call'.op = call.op /\ call'.next = k + 1
        /\ call'.found = found /\ call'.seen = call.seen
    BY <1>2, <1>3, <1>5 DEF CallType
  <2>2. "now" \notin stirred => call'.found = Lit(ReadUpTo(k + 1))
    <3>1. Lit(ReadUpTo(k + 1)) = IF link[k].mode # "off" THEN Lit(ReadUpTo(call.next)) \cup {pair}
                                 ELSE Lit(ReadUpTo(call.next))
      <4>1. Lit(ReadUpTo(call.next) \cup {<<k, link[k]>>})
              = IF link[k].mode # "off" THEN Lit(ReadUpTo(call.next)) \cup {<<k, link[k]>>}
                ELSE Lit(ReadUpTo(call.next))
        BY LitOne
      <4> QED
        BY <1>1, <4>1
    <3>2. "now" \notin stirred => call.found = Lit(ReadUpTo(call.next))
      BY <1>1 DEF Inv, ReadInv
    <3> HIDE DEF pair
    <3> QED
      BY <2>1, <3>1, <3>2
  <2>3. ReadInv'
    BY <1>1, <1>4, <1>5, <2>1, <2>2 DEF Inv, ReadInv, Lit
  <2> QED
    BY <1>1, <1>2, <1>5, <2>1, <2>3, ReadStep
<1>6. CASE call' = [call EXCEPT !.next = k + 1] /\ stirred' = stirred \cup {"now"}
  <2>1. call' \in CallType(Pairs) /\ call'.op = call.op
    BY <1>2, <1>3, <1>6 DEF CallType
  <2>2. ReadInv'
    BY <1>6 DEF ReadInv
  <2> QED
    BY <1>1, <1>2, <1>6, <2>1, <2>2, ReadStep
<1> QED
  BY <1>5, <1>6 DEF ListConnector

(* a hash covers every connector.                                          *)
LEMMA HashConnectorInv ==
  ASSUME Inv, NEW k \in Connectors, HashConnector(k)
  PROVE  Inv'
<1> DEFINE pair == <<k, link[k]>>
<1>1. /\ pc \in {"hash", "changed"}
      /\ UNCHANGED <<link, cap, steady, ever, master, fds, ctx, pc, last>>
      /\ k \in Nat /\ pair \in Pairs
      /\ ReadUpTo(k + 1) = ReadUpTo(call.next) \cup {pair}
  BY NextConnector DEF HashConnector
<1>2. call \in CallType(Pairs) /\ stirred \subseteq {"now", "before"}
  BY <1>1, DisplaysCall DEF Inv, TypeInv
<1>3. call.seen \cup {pair} \in SUBSET Pairs /\ k + 1 \in Nat
  BY <1>1, <1>2 DEF CallType
<1>4. Topology' = Topology /\ \A n : ReadUpTo(n)' = ReadUpTo(n)
  BY <1>1 DEF ReadUpTo, Topology
<1>5. CASE /\ call' = [call EXCEPT !.next = k + 1, !.seen = @ \cup {Folds(k)}]
           /\ UNCHANGED stirred
  <2>1. /\ call' \in CallType(Pairs) /\ call'.op = call.op /\ call'.next = k + 1
        /\ call'.seen = call.seen \cup {pair} /\ call'.found = call.found
    BY <1>2, <1>3, <1>5 DEF CallType, Folds
  <2>2. ReadInv'
    BY <1>1, <1>4, <1>5, <2>1 DEF Inv, ReadInv
  <2> QED
    BY <1>1, <1>2, <1>5, <2>1, <2>2, ReadStep
<1>6. CASE call' = [call EXCEPT !.next = k + 1] /\ stirred' = stirred \cup {"now"}
  <2>1. call' \in CallType(Pairs) /\ call'.op = call.op
    BY <1>2, <1>3, <1>6 DEF CallType
  <2>2. ReadInv'
    BY <1>6 DEF ReadInv
  <2> QED
    BY <1>1, <1>2, <1>6, <2>1, <2>2, ReadStep
<1> QED
  BY <1>5, <1>6 DEF HashConnector

(* The listing is complete; the topology is read again.                    *)
LEMMA ListEndInv == ASSUME Inv, ListEnd PROVE Inv'
<1>1. /\ pc = "list" /\ \A k \in OnCard(ctx.card) : k < call.next
      /\ pc' = "hash" /\ call' = [call EXCEPT !.next = 1]
      /\ UNCHANGED <<link, cap, steady, ever, master, fds, ctx, last, stirred>>
  BY DEF ListEnd, World
<1>2. call \in CallType(Pairs) /\ call.op # "auto"
  BY <1>1, DisplaysCall
<1>3. call' \in CallType(Pairs) /\ call'.op = call.op /\ call'.next = 1
      /\ call'.found = call.found /\ call'.seen = call.seen
  BY <1>1, <1>2 DEF CallType
<1>4. TypeInv' /\ CallInv'
  BY <1>1, <1>2, <1>3 DEF Inv, TypeInv, Items, CallInv, Scanning, Listable
<1>5. FdsInv' /\ MasterInv' /\ ScanInv' /\ BestCard'
  BY <1>1, FilesAside
<1>6. ReadInv'
  <2>1. ReadUpTo(call.next)' = {} /\ Topology' = Topology
    BY <1>1, <1>3, NothingRead DEF ReadUpTo, Topology
  <2>2. "now" \notin stirred => call.found = Lit(Topology) /\ call.seen = {}
    BY <1>1, AllRead DEF Inv, ReadInv
  <2> QED
    BY <1>1, <1>3, <2>1, <2>2 DEF ReadInv, Lit
<1>7. BaseInv'
  BY <1>1 DEF Inv, BaseInv
<1> QED
  BY <1>4, <1>5, <1>6, <1>7 DEF Inv

(* A listing that nothing stirred becomes what later answers refer to.     *)
LEMMA ListHashedInv == ASSUME Inv, ListHashed PROVE Inv'
<1> DEFINE told == "now" \notin stirred
           listed == IF told THEN Entries(call.found) ELSE {}
<1>1. /\ pc = "hash" /\ \A k \in OnCard(ctx.card) : k < call.next
      /\ ctx' = [ctx EXCEPT !.base = call.seen, !.told = told, !.listed = listed]
      /\ Finish(Done) /\ UNCHANGED <<link, cap, steady, ever, master, fds, stirred>>
  BY DEF ListHashed, Hashed, World
<1>2. call \in CallType(Pairs) /\ Listable /\ ctx \in CtxType
  BY <1>1, DisplaysCall
<1>3. /\ pc' = "idle" /\ call' = Idle /\ call' \in CallType(Items') /\ last' = Done
  BY <1>1, FinishFacts, ClosedType
<1>4. listed \in SUBSET Pairs /\ call.seen \in SUBSET Pairs /\ told \in BOOLEAN
  BY <1>2 DEF CallType, Entries
<1>5. /\ ctx' \in CtxType /\ ctx'.card = ctx.card /\ ctx'.render = ctx.render
      /\ ctx'.base = call.seen /\ ctx'.told = told /\ ctx'.listed = listed
  <2> HIDE DEF listed, told
  <2> QED
    BY <1>1, <1>2, <1>4 DEF CtxType
<1>6. TypeInv' /\ CallInv'
  BY <1>1, <1>3, <1>5, ClosedType, IdleType DEF Inv, TypeInv, CallInv, Scanning
<1>7. FdsInv' /\ MasterInv' /\ ScanInv' /\ BestCard'
  BY <1>1, <1>3, <1>5, ClosedType, FilesAside
<1>8. told => call.seen = Topology /\ call.found = Lit(Topology)
  BY <1>1, AllRead DEF Inv, ReadInv
<1>9. Topology' = Topology
  BY <1>1, <1>5 DEF Topology
<1>10. ReadInv'
  BY <1>3 DEF ReadInv
<1>11. BaseInv'
  <2>1. "now" \notin stirred' => ctx'.base = Topology'
    BY <1>1, <1>5, <1>8, <1>9
  <2>2. ctx'.told => ctx'.listed = Entries(Lit(ctx'.base))
    BY <1>5, <1>8
  <2> QED
    BY <1>3, <2>1, <2>2, ClosedType DEF BaseInv, Entries, Lit
<1> QED
  BY <1>6, <1>7, <1>10, <1>11 DEF Inv

(* The answer to displays_changed.                                         *)
LEMMA ChangedEndInv == ASSUME Inv, ChangedEnd PROVE Inv'
<1> DEFINE changed == call.seen # ctx.base
           told == ctx.told /\ ~changed
           listed == IF changed THEN {} ELSE ctx.listed
           ret == [Done EXCEPT !.changed = IF changed THEN "yes" ELSE "no"]
<1>1. /\ pc = "changed" /\ \A k \in OnCard(ctx.card) : k < call.next
      /\ ctx' = [ctx EXCEPT !.base = call.seen, !.told = told, !.listed = listed]
      /\ Finish(ret) /\ UNCHANGED <<link, cap, steady, ever, master, fds, stirred>>
  BY DEF ChangedEnd, Hashed, World, Rebased
<1>2. call \in CallType(Pairs) /\ Listable /\ ctx \in CtxType
  BY <1>1, DisplaysCall
<1>3. /\ ret \in AnswerType /\ ret.picked = None
      /\ ret.changed = IF changed THEN "yes" ELSE "no"
  BY DEF AnswerType, Done
<1>4. /\ pc' = "idle" /\ call' = Idle /\ call' \in CallType(Items') /\ last' = ret
  BY <1>1, <1>3, FinishFacts
<1>5. listed \in SUBSET Pairs /\ call.seen \in SUBSET Pairs /\ told \in BOOLEAN
  BY <1>2 DEF CallType, CtxType
<1>6. /\ ctx' \in CtxType /\ ctx'.card = ctx.card /\ ctx'.render = ctx.render
      /\ ctx'.base = call.seen /\ (ctx'.told <=> told) /\ ctx'.listed = listed
  <2> HIDE DEF listed, told
  <2> QED
    BY <1>1, <1>2, <1>5 DEF CtxType
<1> HIDE DEF ret
<1>7. TypeInv' /\ CallInv'
  BY <1>1, <1>2, <1>3, <1>4, <1>6, IdleType DEF Inv, TypeInv, CallInv, Scanning, Listable
<1>8. FdsInv' /\ MasterInv' /\ ScanInv' /\ BestCard'
  BY <1>1, <1>3, <1>4, <1>6, FilesAside
<1>9. "now" \notin stirred => call.seen = Topology
  BY <1>1, AllRead DEF Inv, ReadInv
<1>10. Topology' = Topology
  BY <1>1, <1>6 DEF Topology
<1>11. ReadInv'
  BY <1>4 DEF ReadInv
<1>12. BaseInv'
  <2>1. "now" \notin stirred' => ctx'.base = Topology'
    BY <1>1, <1>6, <1>9, <1>10
  <2>2. ctx'.told => ctx'.listed = Entries(Lit(ctx'.base))
    BY <1>6 DEF Inv, BaseInv
  <2>3. last'.changed = "yes" => stirred' # {}
    BY <1>1, <1>2, <1>3, <1>4, <1>9 DEF Inv, BaseInv
  <2> QED
    BY <1>4, <2>1, <2>2, <2>3 DEF BaseInv, Entries, Lit
<1> QED
  BY <1>7, <1>8, <1>11, <1>12 DEF Inv

-----------------------------------------------------------------------------
(* No context, no file, no mastery.                                        *)
LEMMA InitInv == Init => Inv
<1> SUFFICES ASSUME Init PROVE Inv
  OBVIOUS
<1>1. TypeInv /\ CallInv
  BY IdleType, ClosedType, Numbers DEF Init, TypeInv, Masters, CallInv, Scanning, Listable
<1>2. FdsInv /\ MasterInv /\ ScanInv /\ BestCard
  BY ClosedType DEF Init, FdsInv, MasterInv, ScanInv, Scanning, BestCard
<1>3. ReadInv /\ BaseInv
  BY ClosedType, Numbers DEF Init, ReadInv, BaseInv, Listable
<1> QED
  BY <1>1, <1>2, <1>3 DEF Inv

(* Every step preserves the invariant.                                     *)
LEMMA NextInv == Inv /\ [Next]_vars => Inv'
<1> SUFFICES ASSUME Inv, [Next]_vars PROVE Inv'
  OBVIOUS
<1>1. CASE \/ \E k \in Connectors, l \in Links : Modeset(k, l)
           \/ VtSwitch("nobody", "other") \/ VtSwitch("other", "nobody")
  BY <1>1, ModesetInv, VtSwitchInv
<1>2. CASE \E c \in Cards : OpenPath(c) \/ RankNode(c)
  BY <1>2, OpenPathInv, RankNodeInv
<1>3. CASE \/ \E x \in Crtcs : ScanCrtc(x)
           \/ OpenAuto \/ ScanOpen \/ ScanProbe \/ ScanEnd \/ Close
  BY <1>3, OpenAutoInv, ScanOpenInv, ScanCrtcInv, ScanProbeInv, ScanEndInv, CloseInv
<1>4. CASE ListDevices \/ OpenRender
  BY <1>4, BeginInv DEF ListDevices, OpenRender
<1>5. CASE DeviceOpen \/ DeviceRead \/ RenderEnd
  BY <1>5, DeviceOpenInv, DeviceReadInv, RenderEndInv
<1>6. CASE DevicesEnd \/ NoDisplays
  BY <1>6, EndInv DEF DevicesEnd, NoDisplays, World
<1>7. CASE BeginDisplays("list") \/ BeginDisplays("changed")
  BY <1>7, BeginDisplaysInv
<1>8. CASE \E k \in Connectors : ListConnector(k) \/ HashConnector(k)
  BY <1>8, ListConnectorInv, HashConnectorInv
<1>9. CASE ListEnd \/ ListHashed \/ ChangedEnd
  BY <1>9, ListEndInv, ListHashedInv, ChangedEndInv
<1>10. CASE UNCHANGED vars
  <2>1. UNCHANGED <<link, master, cap, fds, ctx, pc, call, last, stirred, steady, ever>>
    BY <1>10 DEF vars
  <2> QED
    BY <2>1 DEF Inv, TypeInv, Items, CallInv, Scanning, Listable, FdsInv, Candidates, MasterInv,
                ScanInv, Watched, Driving, Probed, ScanRanks, Ranked, BestCard, ReadInv, BaseInv, Topology, ReadUpTo,
                OnCard
<1> QED
  BY <1>1, <1>2, <1>3, <1>4, <1>5, <1>6, <1>7, <1>8, <1>9, <1>10 DEF Next

(* The invariant holds of every behaviour.                                 *)
THEOREM SpecInv == Spec => []Inv
BY InitInv, NextInv, PTL DEF Spec

(* Between calls the process has no card open but its context's, and keeps *)
(* no mastery it can do without.                                           *)
THEOREM HoldsItsCard == Spec => []HoldsOnlyItsCard
<1>1. Inv => HoldsOnlyItsCard
  BY DEF Inv, FdsInv, MasterInv, HoldsOnlyItsCard
<1> QED
  BY <1>1, SpecInv, PTL

(* drmtap_open without a path takes the busiest card it could read.        *)
THEOREM PicksBestCard == Spec => []BestCard
<1>1. Inv => BestCard
  BY DEF Inv
<1> QED
  BY <1>1, SpecInv, PTL

(* drmtap_displays_changed says 0 of the displays that were listed, and 1  *)
(* only of a change.                                                       *)
THEOREM ReportsChanges == Spec => []ChangesReported
<1>1. Inv => ChangesReported
  <2> SUFFICES ASSUME Inv, last.changed = "no", "now" \notin stirred, ctx.told
               PROVE  ctx.listed = Entries({<<k, link[k]>> :
                                    k \in {j \in OnCard(ctx.card) : link[j].mode # "off"}})
    BY DEF ChangesReported, Inv, BaseInv
  <2>1. Listable /\ pc = "idle"
    BY DEF Inv, CallInv
  <2>2. ctx.base = Topology
    BY <2>1 DEF Inv, BaseInv
  <2>3. Lit(Topology) = {<<k, link[k]>> : k \in {j \in OnCard(ctx.card) : link[j].mode # "off"}}
    BY DEF Lit, Topology
  <2> QED
    BY <2>2, <2>3 DEF Inv, BaseInv
<1> QED
  BY <1>1, SpecInv, PTL

=============================================================================
