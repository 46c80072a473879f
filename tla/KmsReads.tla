------------------------------ MODULE KmsReads ------------------------------
(***************************************************************************)
(* How the privileged helper answers a grab and a cursor command           *)
(* (src/helper/drmtap-helper.c), and how the library reads the cursor in   *)
(* its own process (src/src/cursor.c): many ioctls, one after the other,   *)
(* over planes that a compositor rebinds between any two of them.  Which   *)
(* planes exist and their types never change; a commit gives a plane a     *)
(* CRTC and a framebuffer, or takes both away.                             *)
(*                                                                         *)
(* The library waits while the helper works and the other way around, so   *)
(* one of them is at work at a time.  An ioctl or an allocation that fails *)
(* for want of memory is a mishap, and may come anywhere.                  *)
(***************************************************************************)
EXTENDS Integers, FiniteSets

CONSTANTS
  Primaries, Overlays, Cursors,  \* planes, by type; numbered in the kernel's order
  Crtcs,     \* CRTC ids
  Fbs,       \* framebuffers of primary and overlay planes
  Shapes,    \* framebuffers of cursor planes
  None,      \* no CRTC, framebuffer or plane: id 0
  Linear,    \* the framebuffers whose modifier says they are linear
  TooBig,    \* the shapes beyond 256x256, the framebuffers beyond 8K
  Machines   \* records: virtio, virgl: the device's driver and its 3D; hot: the
             \* hotspot properties of its cursor planes ("none", "half", "both");
             \* cap: the library may read framebuffer handles itself

Planes == Primaries \cup Overlays \cup Cursors

ASSUME KmsAssumption ==
  /\ IsFiniteSet(Planes) /\ Planes = 1 .. Cardinality(Planes)
  /\ None \notin Crtcs \cup Fbs \cup Shapes \cup Planes
  /\ Linear \subseteq Fbs /\ TooBig \subseteq Fbs \cup Shapes
  /\ Machines \subseteq [virtio : BOOLEAN, virgl : BOOLEAN,
                         hot : {"none", "half", "both"}, cap : BOOLEAN]
  /\ \A m \in Machines : m.virgl => m.virtio

VARIABLES
  kms,     \* what each plane is bound to
  machine, \* the device and the process
  primary, \* the helper's cache: {} at first, then {the primary planes it knows of}
  pc,      \* where the handler stands
  call,    \* its local variables
  held,    \* what it has acquired: a GEM handle, a descriptor, a mapping, a sync window
  last,    \* what the caller was left with
  steady,  \* history: planes bound to the CRTC asked for since the handler began
  mishap   \* history: something failed for want of memory

vars == <<kms, machine, primary, pc, call, held, last, steady, mishap>>

Unbound == [crtc |-> None, fb |-> None]

Bindings(p) == {Unbound} \cup [crtc : Crtcs, fb : IF p \in Cursors THEN Shapes ELSE Fbs]

(* What a handler looks for: the CRTC asked for; 0 is any.                 *)
OnTarget(binding, target) ==
  binding.crtc # None /\ (target = None \/ binding.crtc = target)

(* found: the plane chosen so far, fb: its framebuffer when it was read;   *)
(* at, x: where the cursor was, and what was read; bright, hdr: the same   *)
(* of the HDR metadata; prov: the provenance of the hotspot.               *)
Idle == [who |-> "helper", kind |-> "none", target |-> None, next |-> 1, found |-> None,
         fb |-> None, at |-> 0, x |-> 0, prov |-> "guessed"]

Nothing == [who |-> "helper", kind |-> "none", ret |-> "none", parts |-> "none",
            visible |-> FALSE, plane |-> None, fb |-> None, at |-> 0, x |-> 0,
            bright |-> 0, hdr |-> 0, prov |-> "none"]

Init ==
  /\ kms = [p \in Planes |-> Unbound]
  /\ machine \in Machines
  /\ primary = {}
  /\ pc = "idle" /\ call = Idle /\ held = {} /\ last = Nothing
  /\ steady = {} /\ mishap = FALSE

-----------------------------------------------------------------------------
(* The compositor.                                                         *)
Commit(p) ==
  /\ \E b \in Bindings(p) \ {kms[p]} : kms' = [kms EXCEPT ![p] = b]
  /\ steady' = {q \in steady : OnTarget(kms'[q], call.target)}
  /\ UNCHANGED <<machine, primary, pc, call, held, last, mishap>>

-----------------------------------------------------------------------------
(* Shared steps.                                                           *)

Goto(label, locals) == pc' = label /\ call' = locals

Quiet == UNCHANGED <<kms, machine, steady, mishap>>

Unlucky == UNCHANGED <<kms, machine, steady>> /\ mishap' = TRUE

(* The handler is done, and has released what it lists.                    *)
Done(outcome, released) ==
  /\ Goto("idle", Idle)
  /\ held' = held \ released
  /\ last' = outcome

Outcome(ret) == [Nothing EXCEPT !.who = call.who, !.kind = call.kind, !.ret = ret]

Begin(who, kind, target) ==
  /\ pc = "idle"
  /\ Goto("sweep", [Idle EXCEPT !.who = who, !.kind = kind, !.target = target])
  /\ last' = Nothing
  /\ steady' = {p \in Planes : OnTarget(kms[p], target)}
  /\ mishap' = FALSE
  /\ UNCHANGED <<kms, machine, primary, held>>

(* A plane the handler passes over: not bound as it wants, or one          *)
(* drmModeGetPlane had no memory for.                                      *)
PassOver(wanted) ==
  /\ Goto("sweep", [call EXCEPT !.next = @ + 1])
  /\ \/ ~wanted /\ Quiet
     \/ Unlucky

TakePlane(label) ==
  Goto(label, [call EXCEPT !.next = @ + 1, !.found = call.next, !.fb = kms[call.next].fb])

(* The kernel hides the properties of atomic state (CRTC_X of a plane,     *)
(* CRTC_ID of a connector) from a client that has not asked for            *)
(* DRM_CLIENT_CAP_ATOMIC; the helper asks for universal planes only.       *)
SeesAtomicState(who) == who = "library"

(* A property that is not found reads as 0.                                *)
Read(value) == IF SeesAtomicState(call.who) THEN value ELSE 0

-----------------------------------------------------------------------------
(* grab_and_send.                                                          *)

(* send_error: metadata with data_size 0.                                  *)
GrabError(released) == Done(Outcome("error"), released) /\ UNCHANGED primary

(* read_hdr_metadata: the connector that shows HDR (bright) is looked for  *)
(* by the CRTC its CRTC_ID names.                                          *)
HdrRead(bright) == Read(bright)

(* The metadata is stamped and goes out, with a descriptor or before the   *)
(* pixels; it tells whether the connector of that CRTC shows HDR.          *)
GrabReply(parts) ==
  /\ \E bright \in 0 .. 1 :
       Done([Outcome("ok") EXCEPT !.parts = parts, !.plane = call.found, !.fb = call.fb,
                                  !.bright = bright, !.hdr = HdrRead(bright)],
            {"gem"})
  /\ UNCHANGED primary

(* plane_is_primary: probed once, on first use; a probe that runs out of   *)
(* memory halfway is remembered as far as it came.                         *)
Probed(known) ==
  \/ primary = {known} /\ UNCHANGED <<primary, mishap>>
  \/ primary = {} /\ primary' = {known} /\ mishap' = (mishap \/ known # Primaries)

(* Mutant: the first plane with a framebuffer will do.                     *)
FirstWillDo(known, p) == call.found = None

(* A primary plane is taken at once, the first other one for want of it.   *)
Preferred(known, p) == p \in known \/ call.found = None

(* One plane of the sweep.                                                 *)
GrabSweep ==
  LET p == call.next
      wanted == OnTarget(kms[p], call.target)
  IN /\ pc = "sweep" /\ call.kind = "grab" /\ p \in Planes
     /\ \/ /\ wanted
           /\ \E known \in SUBSET Primaries :
                /\ Probed(known)
                /\ IF Preferred(known, p)
                   THEN TakePlane(IF p \in known THEN "getfb2" ELSE "sweep")
                   ELSE Goto("sweep", [call EXCEPT !.next = p + 1])
           /\ UNCHANGED <<kms, machine, steady>>
        \/ PassOver(wanted) /\ UNCHANGED primary
     /\ UNCHANGED <<held, last>>

GrabSwept ==
  /\ pc = "sweep" /\ call.kind = "grab" /\ call.next \notin Planes
  /\ \/ call.found # None /\ Goto("getfb2", call) /\ UNCHANGED <<held, last, primary>>
     \/ call.found = None /\ GrabError({})
  /\ Quiet

(* drmModeGetPlaneResources failed.                                        *)
GrabNoPlanes ==
  /\ pc = "sweep" /\ call.kind = "grab" /\ call.next = 1
  /\ GrabError({}) /\ Unlucky

(* GetFB2 fails for a framebuffer that was retired since, and may fail; a  *)
(* geometry that is refused gives the handle back.                         *)
GrabGetFb2 ==
  /\ pc = "getfb2" /\ call.kind = "grab"
  /\ \/ GrabError({})
     \/ /\ call.fb \notin TooBig
        /\ held' = held \cup {"gem"}
        /\ Goto("export", call)
        /\ UNCHANGED <<primary, last>>
  /\ Quiet

(* A CPU mapping of a host-side resource reads back black.                 *)
CpuReadable == ~machine.virgl

Exports == call.fb \notin Linear \/ machine.virtio

(* The descriptor goes out with the metadata; when it cannot be had the    *)
(* pixels are sent, except those of a host-side scanout.                   *)
GrabExport ==
  /\ pc = "export" /\ call.kind = "grab"
  /\ \/ Exports /\ GrabReply("dmabuf")
     \/ Exports /\ ~CpuReadable /\ GrabError({"gem"})
     \/ (Exports => CpuReadable) /\ Goto("dumb", call) /\ UNCHANGED <<held, last, primary>>
  /\ Quiet

(* MODE_MAP_DUMB and mmap, either of which may fail, and the pixels.       *)
GrabDumb ==
  /\ pc = "dumb"
  /\ GrabError({"gem"}) \/ GrabReply("pixels")
  /\ Quiet

-----------------------------------------------------------------------------
(* The cursor, in the helper (cursor_and_send) and in the library          *)
(* (drmtap_get_cursor).                                                    *)

IsHelper == call.who = "helper"

(* A cursor sample, with what had been read when the handler stopped.      *)
Sample(visible, image) ==
  [Outcome("ok") EXCEPT !.visible = visible, !.plane = call.found,
     !.fb = IF image THEN call.fb ELSE None, !.at = call.at, !.x = call.x, !.prov = call.prov]

Hidden == Sample(FALSE, FALSE)

(* The sample leaves the helper in its reply, where an older helper has no *)
(* room for the provenance.                                                *)
Sent(sample, released) ==
  Done(sample, released) \/ Done([sample EXCEPT !.prov = "none"], released)

(* find_cursor_plane, and the sweep of cursor_and_send: by the binding of  *)
(* the moment.                                                             *)
CursorSweep ==
  LET p == call.next
      wanted == p \in Cursors /\ OnTarget(kms[p], call.target)
  IN /\ pc = "sweep" /\ call.kind = "cursor" /\ p \in Planes
     /\ \/ wanted /\ TakePlane(IF IsHelper THEN "props" ELSE "plane") /\ Quiet
        \/ PassOver(wanted)
     /\ UNCHANGED <<primary, held, last>>

(* No cursor plane is bound, or there was no memory to list them: the      *)
(* cursor is hidden, which is no error.                                    *)
CursorSwept ==
  /\ pc = "sweep" /\ call.kind = "cursor"
  /\ \/ call.next \notin Planes /\ Quiet
     \/ call.next = 1 /\ Unlucky
  /\ IF IsHelper THEN Sent(Hidden, {}) ELSE Done(Hidden, {})
  /\ UNCHANGED primary

(* The library reads its plane a second time, for its framebuffer.         *)
CursorPlane ==
  LET fb == kms[call.found].fb
  IN /\ pc = "plane"
     /\ \/ fb # None /\ Goto("props", [call EXCEPT !.fb = fb]) /\ Quiet /\ UNCHANGED <<held, last>>
        \/ fb = None /\ Done(Hidden, {}) /\ Quiet
        \/ Done(Outcome("ENODEV"), {}) /\ Unlucky
     /\ UNCHANGED primary

(* wire_hot_measured: the hotspot was measured if both were found.         *)
HotMeasured(props) == props = "both"

(* drmtap_cursor_set_hot_provenance.                                       *)
Provenance == IF HotMeasured(machine.hot) THEN "measured" ELSE "guessed"

(* Position and hotspot.                                                   *)
CursorProps ==
  /\ pc = "props"
  /\ \E at \in 0 .. 1 :
       Goto("getfb2", [call EXCEPT !.at = at, !.x = Read(at), !.prov = Provenance])
  /\ UNCHANGED <<primary, held, last>> /\ Quiet

(* Mutant: the library too reports what it cannot read as hidden.          *)
HiddenForNow == Hidden

(* A visible cursor whose image could not be had: the caller keeps the     *)
(* shape it has.                                                           *)
KeepShape == Sample(TRUE, FALSE)

(* drmtap_cursor_needs_helper: only a want of privilege is the helper's    *)
(* business, and then the read begins again there.                         *)
Delegated ==
  /\ ~machine.cap
  /\ Goto("sweep", [Idle EXCEPT !.kind = "cursor", !.target = call.target])
  /\ UNCHANGED <<held, last>>

At(label) == pc = label /\ call.kind = "cursor"

(* GetFB2 may be refused, give no handle, or come too late for the         *)
(* framebuffer; the helper reports any of it as a hidden cursor, and the   *)
(* library leaves it to the helper or keeps the shape.                     *)
MintCursor == held' = held \cup {"gem"} /\ Goto("export", call) /\ UNCHANGED last

HelperCursorFb ==
  /\ At("getfb2") /\ IsHelper
  /\ MintCursor \/ Sent(Hidden, {})
  /\ UNCHANGED primary /\ Quiet

LibraryCursorFb ==
  /\ At("getfb2") /\ ~IsHelper
  /\ (machine.cap /\ MintCursor) \/ Delegated \/ Done(KeepShape, {})
  /\ UNCHANGED primary /\ Quiet

(* The export, and the mapping with its sync window where there is one: a  *)
(* SYNC_START that failed is not ended.                                    *)
MapCursor ==
  /\ call.fb \notin TooBig
  /\ \E window \in SUBSET {"window"} : held' = held \cup {"fd", "map"} \cup window
  /\ Goto("copy", call) /\ UNCHANGED last

(* Mutant: a shape that is refused keeps its handle.                       *)
RefusedKeepsHandle == {}

RefusedReleases == {"gem"}

(* The size cap, the export and the mapping.                               *)
HelperCursorMap ==
  /\ At("export") /\ IsHelper
  /\ MapCursor \/ Sent(Hidden, RefusedReleases)
  /\ UNCHANGED primary /\ Quiet

LibraryCursorMap ==
  /\ At("export") /\ ~IsHelper
  /\ MapCursor \/ Done(KeepShape, {"gem"})
  /\ UNCHANGED primary /\ Quiet

(* The rows are repacked: by the helper into a buffer of its own, by the   *)
(* library into memory it may not get.                                     *)
HelperCursorCopy ==
  /\ At("copy") /\ IsHelper
  /\ Sent(Sample(TRUE, TRUE), held)
  /\ UNCHANGED primary /\ Quiet

LibraryCursorCopy ==
  /\ At("copy") /\ ~IsHelper
  /\ \/ Done(Sample(TRUE, TRUE), held) /\ Quiet
     \/ Done(KeepShape, held) /\ Unlucky
  /\ UNCHANGED primary

-----------------------------------------------------------------------------
Next ==
  \/ \E p \in Planes : Commit(p)
  \/ \E target \in Crtcs \cup {None} :
       \/ Begin("helper", "grab", target)
       \/ Begin("helper", "cursor", target)
       \/ Begin("library", "cursor", target)
  \/ GrabSweep \/ GrabSwept \/ GrabNoPlanes \/ GrabGetFb2 \/ GrabExport \/ GrabDumb
  \/ CursorSweep \/ CursorSwept \/ CursorPlane \/ CursorProps
  \/ HelperCursorFb \/ HelperCursorMap \/ HelperCursorCopy
  \/ LibraryCursorFb \/ LibraryCursorMap \/ LibraryCursorCopy

Spec == Init /\ [][Next]_vars

-----------------------------------------------------------------------------
(* Properties.                                                             *)

(* Whatever failed, a handler that has answered holds nothing: the helper  *)
(* lives long, and GetFB2 mints a handle on every poll.                    *)
HandlesBalanced == pc = "idle" => held = {}

(* A grab that ran into no shortage shows the primary plane when one was   *)
(* bound to the CRTC all along, whatever other planes a compositor moved   *)
(* around meanwhile, unless the one probe of plane types was cut short.    *)
PrimaryWins ==
  last.kind = "grab" /\ last.ret = "ok" /\ ~mishap /\ primary = {Primaries}
    => last.plane \in Primaries \/ Primaries \cap steady = {}

(* A read in the library hides the cursor only if no cursor plane was      *)
(* bound to the CRTC all along, or if the plane it had found was taken off *)
(* meanwhile: what it cannot read it reports as visible without an image.  *)
(* With several cursor planes the second does happen while another of them *)
(* is on screen, for the plane is not looked up again.                     *)
VisibleStaysVisible ==
  last.kind = "cursor" /\ last.who = "library" /\ last.ret = "ok" /\ ~mishap
    /\ ~last.visible
    => Cursors \cap steady = {} \/ last.plane \in Cursors \ steady

(* Stated by src/src/wire.h (the cursor reply carries CRTC_X and CRTC_Y)   *)
(* and by the comment on helper_connector_crtc: the position of a visible  *)
(* cursor and the HDR transfer of a frame are those of the display.        *)
ReadsAtomicState == last.x = last.at /\ last.hdr = last.bright
=============================================================================
