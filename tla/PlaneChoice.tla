---------------------------- MODULE PlaneChoice ----------------------------
(***************************************************************************)
(* What a context remembers of the display it captures                     *)
(* (src/src/drm_grab.c): the CRTC, chosen once; the plane of the last      *)
(* frame, for which drmtap_plane_rotation answers; the rotation property   *)
(* of that plane; and the width decided for a padded scanout.  Each is     *)
(* read one ioctl at a time from KMS state that the compositor replaces,   *)
(* atomically, between any two of them.                                    *)
(*                                                                         *)
(* CRTCs and planes are numbered in the order KMS lists them; 0 is no id.  *)
(* Buffers, handles and pixels are in SlowGrab: a grab here finds its      *)
(* plane, reads its framebuffer, decides the width to report, and fails or *)
(* succeeds.                                                               *)
(***************************************************************************)
EXTENDS Integers

CONSTANTS
  NumCrtcs,
  NumPlanes,
  Primary,    \* the planes whose "type" is PRIMARY
  Rotatable,  \* the planes that have a "rotation" property
  Configs     \* the KMS states the compositor may commit

Crtcs == 1 .. NumCrtcs
Planes == 1 .. NumPlanes

(* What a plane shows: the width and tiling of its framebuffer (0 for      *)
(* none), the width and origin of the source rectangle, the width it has   *)
(* on the CRTC, and its rotation.                                          *)
Views == [crtc : 0 .. NumCrtcs, fb : Nat, tiled : BOOLEAN, src : Nat,
          offset : BOOLEAN, dst : Nat, rot : Nat]

ASSUME ConfigAssumption ==
  /\ NumCrtcs \in Nat /\ NumPlanes \in Nat
  /\ Primary \subseteq Planes /\ Rotatable \subseteq Planes
  /\ Configs \subseteq [mode : [Crtcs -> Nat], plane : [Planes -> Views]]
  /\ \A k \in Configs, p \in Planes :
       LET v == k.plane[p]
       IN /\ v.crtc = 0 <=> v.fb = 0
          /\ v.crtc # 0 => k.mode[v.crtc] # 0 /\ v.src \in 1 .. v.fb

VARIABLES
  kms,        \* env: the KMS state committed last; mode[c] is hdisplay, 0 when off
  crtcId,     \* ctx->crtc_id
  grabPlane,  \* ctx->grab_plane_id
  rotPlane,   \* ctx->rot_prop_plane_id
  rotState,   \* ctx->rot_prop_state
  memo,       \* ctx->sw_cached, sw_key_*, sw_cached_width
  pc,         \* where the call in progress stands
  call,       \* its local variables
  last,       \* what the last call answered
  answered,   \* history: the CRTCs calls have answered for
  torn        \* history: a memo was made of more than one KMS state or plane

ctx     == <<crtcId, grabPlane, rotPlane, rotState, memo>>
history == <<answered, torn>>
vars    == <<kms, ctx, pc, call, last, history>>

-----------------------------------------------------------------------------
Ops == {"grab", "refresh", "rotation"}

MemoType == [set : BOOLEAN, crtc : 0 .. NumCrtcs, hdisplay : Nat, fb : Nat,
             tiled : BOOLEAN, out : Nat]

NoMemo == [set |-> FALSE, crtc |-> 0, hdisplay |-> 0, fb |-> 0, tiled |-> FALSE, out |-> 0]

(* goal: what the sweep over the planes is for; crtc: the CRTC it looks    *)
(* for; best: the plane it has so far.  As history, blind: an ioctl of it  *)
(* failed; steady: the primary planes lit on that CRTC since it began.     *)
NoCall == [op |-> "none", goal |-> "none", i |-> 0, crtc |-> 0, best |-> 0,
           blind |-> FALSE, steady |-> {}, plane |-> 0, fb |-> 0, tiled |-> FALSE,
           hdisplay |-> 0]

CallType == [op : Ops \cup {"none"}, goal : {"none", "grab", "rect", "rotation"}, i : Nat,
             crtc : 0 .. NumCrtcs, best : 0 .. NumPlanes, blind : BOOLEAN,
             steady : SUBSET Primary, plane : 0 .. NumPlanes, fb : Nat, tiled : BOOLEAN,
             hdisplay : Nat]

AnswerType == [op : Ops \cup {"none"},
               ret : {"none", "ok", "ENODEV", "ENOENT", "ENODATA", "ENOTSUP", "EIO"},
               plane : 0 .. NumPlanes, fb : Nat, tiled : BOOLEAN, width : Nat,
               hdisplay : Nat, rot : Nat]

Nothing == [op |-> "none", ret |-> "none", plane |-> 0, fb |-> 0, tiled |-> FALSE,
            width |-> 0, hdisplay |-> 0, rot |-> 0]

Return(answer) == /\ pc' = "idle"
                  /\ call' = NoCall
                  /\ last' = answer

Fail(errno) == Return([Nothing EXCEPT !.op = call.op, !.ret = errno])

Goto(label, locals) == pc' = label /\ call' = locals /\ last' = Nothing

-----------------------------------------------------------------------------
(* find_primary_plane, for the three who call it.                          *)

Lit(k, c) == {p \in Primary : k.plane[p].crtc = c /\ k.plane[p].fb # 0}

SweepFor(c, locals) ==
  Goto("sweep", [locals EXCEPT !.i = 1, !.crtc = c, !.best = 0, !.blind = FALSE,
                               !.steady = Lit(kms, c)])

(* The sweep begins at the context's CRTC, or at the choice of one.        *)
Sweep(goal, locals) ==
  IF crtcId = 0 THEN Goto("select", [locals EXCEPT !.goal = goal, !.i = 1])
                ELSE SweepFor(crtcId, [locals EXCEPT !.goal = goal])

AfterSelect(c) ==
  IF call.op = "refresh" THEN Goto("refresh", [call EXCEPT !.i = 0, !.crtc = c])
                         ELSE SweepFor(c, call)

(* Mutant: the choice is made again by every call.                         *)
SelectForgotten ==
  /\ pc = "select"
  /\ call.i <= NumCrtcs
  /\ \/ kms.mode[call.i] # 0 /\ AfterSelect(call.i)
     \/ Goto("select", [call EXCEPT !.i = @ + 1])
  /\ UNCHANGED <<kms, ctx, history>>

(* select_first_active_crtc: the first CRTC that has a mode, kept.  One    *)
(* that cannot be read is passed over.                                     *)
Select ==
  /\ pc = "select"
  /\ call.i <= NumCrtcs
  /\ \/ /\ kms.mode[call.i] # 0
        /\ crtcId' = call.i
        /\ AfterSelect(call.i)
     \/ /\ Goto("select", [call EXCEPT !.i = @ + 1])
        /\ UNCHANGED crtcId
  /\ UNCHANGED <<kms, grabPlane, rotPlane, rotState, memo, history>>

NoCrtc ==
  /\ pc = "select"
  /\ call.i > NumCrtcs
  /\ Fail(IF call.op = "grab" THEN "ENODEV" ELSE "ENOENT")
  /\ UNCHANGED <<kms, ctx, history>>

Matches(p) == kms.plane[p].crtc = call.crtc /\ kms.plane[p].fb # 0

(* Mutant: the first plane that matches is kept.                           *)
BetterFirst(primary) == call.best = 0

Better(primary) == primary \/ call.best = 0

(* One plane: GetPlane, and its type when it matches; either may fail.     *)
SweepPlane ==
  /\ pc = "sweep"
  /\ call.i <= NumPlanes
  /\ \E readable, typed \in BOOLEAN :
       LET matches == readable /\ Matches(call.i)
           primary == matches /\ typed /\ call.i \in Primary
       IN Goto("sweep",
            [call EXCEPT !.i = IF primary THEN NumPlanes + 1 ELSE @ + 1,
                         !.best = IF matches /\ Better(primary) THEN call.i ELSE @,
                         !.blind = @ \/ ~readable \/ (matches /\ ~typed)])
  /\ UNCHANGED <<kms, ctx, history>>

Swept(goal) == pc = "sweep" /\ call.i > NumPlanes /\ call.goal = goal

-----------------------------------------------------------------------------
(* A grab.                                                                 *)

BeginGrab ==
  /\ pc = "idle"
  /\ Sweep("grab", [NoCall EXCEPT !.op = "grab"])
  /\ UNCHANGED <<kms, ctx, history>>

(* The plane found is read again for its framebuffer.                      *)
ReadPlane ==
  /\ Swept("grab")
  /\ call.best # 0
  /\ kms.plane[call.best].fb # 0
  /\ Goto("width", [NoCall EXCEPT !.op = "grab", !.crtc = call.crtc, !.plane = call.best,
                               !.fb = kms.plane[call.best].fb,
                               !.tiled = kms.plane[call.best].tiled])
  /\ UNCHANGED <<kms, ctx, history>>

GrabFailed ==
  /\ Swept("grab")
  /\ Fail("ENODEV")
  /\ UNCHANGED <<kms, ctx, history>>

(* Whatever width is reported, the grab may still fail behind it.  (The    *)
(* mode the width was decided for is kept beside it, as history.)          *)
Conclude(width, hdisplay) ==
  \/ /\ Return([op |-> "grab", ret |-> "ok", plane |-> call.plane, fb |-> call.fb,
                tiled |-> call.tiled, width |-> width, hdisplay |-> hdisplay, rot |-> 0])
     /\ grabPlane' = call.plane
     /\ answered' = answered \cup {call.crtc}
  \/ /\ Fail("EIO")
     /\ UNCHANGED <<grabPlane, answered>>

(* drmtap_scanout_width: only a framebuffer wider than the mode is looked  *)
(* at.  A CRTC that cannot be read leaves the width as it is.              *)
Padded == crtcId # 0 /\ kms.mode[crtcId] \in 1 .. call.fb - 1

WidthAsIs ==
  /\ pc = "width"
  /\ Conclude(call.fb, 0)
  /\ UNCHANGED <<kms, crtcId, rotPlane, rotState, memo, torn>>

(* Mutants: keys that leave the layout out, or the mode.                   *)
MemoHitAnyLayout == /\ memo.set
                    /\ memo.crtc = crtcId
                    /\ memo.hdisplay = kms.mode[crtcId]
                    /\ memo.fb = call.fb

MemoHitAnyMode == /\ memo.set
                  /\ memo.crtc = crtcId
                  /\ memo.fb = call.fb
                  /\ memo.tiled = call.tiled

MemoHit == /\ memo.set
           /\ memo.crtc = crtcId
           /\ memo.hdisplay = kms.mode[crtcId]
           /\ memo.fb = call.fb
           /\ memo.tiled = call.tiled

WidthRemembered ==
  /\ pc = "width"
  /\ Padded
  /\ MemoHit
  /\ Conclude(memo.out, kms.mode[crtcId])
  /\ UNCHANGED <<kms, crtcId, rotPlane, rotState, memo, torn>>

WidthLookedUp ==
  /\ pc = "width"
  /\ Padded
  /\ ~MemoHit
  /\ Sweep("rect", [call EXCEPT !.hdisplay = kms.mode[crtcId]])
  /\ UNCHANGED <<kms, ctx, history>>

(* Mutant: nothing says that the source is inside the framebuffer.         *)
ScanoutWidthOfAny(fb, tiled, v) ==
  IF ~tiled /\ ~v.offset /\ v.src = v.dst THEN v.src ELSE fb

(* drmtap_scanout_width_of on a readable rectangle.                        *)
ScanoutWidthOf(fb, tiled, v) ==
  IF ~tiled /\ ~v.offset /\ v.src = v.dst /\ v.src \in 1 .. fb - 1 THEN v.src ELSE fb

(* read_primary_plane_rect on the plane the sweep found, now, or on none;  *)
(* the decision is remembered either way.                                  *)
Decide(width) ==
  /\ memo' = [set |-> TRUE, crtc |-> crtcId, hdisplay |-> call.hdisplay, fb |-> call.fb,
              tiled |-> call.tiled, out |-> width]
  /\ Conclude(width, call.hdisplay)
  /\ UNCHANGED <<kms, crtcId, rotPlane, rotState>>

DecideUnread ==
  /\ Swept("rect")
  /\ Decide(call.fb)
  /\ UNCHANGED torn

DecideByRect ==
  /\ Swept("rect")
  /\ call.best # 0
  /\ Decide(ScanoutWidthOf(call.fb, call.tiled, kms.plane[call.best]))
  /\ torn' = (torn \/ call.best # call.plane)

-----------------------------------------------------------------------------
(* drmtap_crtc_refresh.                                                    *)

BeginRefresh ==
  /\ pc = "idle"
  /\ IF crtcId = 0 THEN Goto("select", [NoCall EXCEPT !.op = "refresh", !.i = 1])
     ELSE Goto("refresh", [NoCall EXCEPT !.op = "refresh", !.crtc = crtcId])
  /\ UNCHANGED <<kms, ctx, history>>

Refresh ==
  /\ pc = "refresh"
  /\ \/ /\ kms.mode[call.crtc] # 0
        /\ Return([Nothing EXCEPT !.op = "refresh", !.ret = "ok",
                                  !.width = kms.mode[call.crtc]])
        /\ answered' = answered \cup {call.crtc}
     \/ /\ Fail("ENODATA")
        /\ UNCHANGED answered
  /\ UNCHANGED <<kms, ctx, torn>>

-----------------------------------------------------------------------------
(* drmtap_plane_rotation.                                                  *)

BeginRotation ==
  /\ pc = "idle"
  /\ IF grabPlane # 0
     THEN Goto("rotate", [NoCall EXCEPT !.op = "rotation", !.plane = grabPlane])
     ELSE Sweep("rotation", [NoCall EXCEPT !.op = "rotation"])
  /\ UNCHANGED <<kms, ctx, history>>

RotationNoPlane ==
  /\ Swept("rotation")
  /\ call.best = 0
  /\ Fail("ENOENT")
  /\ UNCHANGED <<kms, ctx, history>>

RotationPlane ==
  /\ Swept("rotation")
  /\ call.best # 0
  /\ Goto("rotate", [NoCall EXCEPT !.op = "rotation", !.plane = call.best])
  /\ UNCHANGED <<kms, ctx, history>>

(* Mutant: what was learnt of the last plane is taken for this one.        *)
KnownAnyPlane == rotState

(* What is known of the plane's property: nothing on a new plane.          *)
Known == IF call.plane = rotPlane THEN rotState ELSE "unread"

Rotation == [Nothing EXCEPT !.op = "rotation", !.ret = "ok", !.plane = call.plane,
                            !.rot = kms.plane[call.plane].rot]

RotationAbsent == [Nothing EXCEPT !.op = "rotation", !.ret = "ENOTSUP",
                                  !.plane = call.plane]

RotateKnown ==
  /\ pc = "rotate"
  /\ rotPlane' = call.plane
  /\ rotState' = Known
  /\ \/ Known = "absent" /\ Return(RotationAbsent)
     \/ Known = "found" /\ Return(Rotation)
  /\ UNCHANGED <<kms, crtcId, grabPlane, memo, history>>

(* The property is looked for by name among those that can be read; its    *)
(* absence is concluded only when all of them were.                        *)
RotateLookedUp ==
  /\ pc = "rotate"
  /\ Known = "unread"
  /\ rotPlane' = call.plane
  /\ \/ call.plane \in Rotatable /\ rotState' = "found" /\ Return(Rotation)
     \/ call.plane \notin Rotatable /\ rotState' = "absent" /\ Return(RotationAbsent)
  /\ UNCHANGED <<kms, crtcId, grabPlane, memo, history>>

RotateUnreadable ==
  /\ pc = "rotate"
  /\ Known # "absent"
  /\ rotPlane' = call.plane
  /\ rotState' = Known
  /\ Fail("EIO")
  /\ UNCHANGED <<kms, crtcId, grabPlane, memo, history>>

-----------------------------------------------------------------------------
(* The compositor.                                                         *)
Commit ==
  /\ kms' \in Configs \ {kms}
  /\ call' = [call EXCEPT !.steady = @ \cap Lit(kms', call.crtc)]
  /\ torn' = (torn \/ pc = "width" \/ (pc = "sweep" /\ call.goal = "rect"))
  /\ UNCHANGED <<ctx, pc, last, answered>>

Init ==
  /\ kms \in Configs
  /\ crtcId \in 0 .. NumCrtcs
  /\ grabPlane = 0
  /\ rotPlane = 0 /\ rotState = "unread"
  /\ memo = NoMemo
  /\ pc = "idle"
  /\ call = NoCall
  /\ last = Nothing
  /\ answered = {} /\ torn = FALSE

FindPlane == Select \/ NoCrtc \/ SweepPlane

Grab == \/ BeginGrab \/ ReadPlane \/ GrabFailed
        \/ WidthAsIs \/ WidthRemembered \/ WidthLookedUp \/ DecideUnread \/ DecideByRect

Ask == \/ BeginRefresh \/ Refresh
       \/ BeginRotation \/ RotationNoPlane \/ RotationPlane
       \/ RotateKnown \/ RotateLookedUp \/ RotateUnreadable

Next == FindPlane \/ Grab \/ Ask \/ Commit

Spec == Init /\ [][Next]_vars

-----------------------------------------------------------------------------
(* Properties.                                                             *)

(* The context's memories and the call's locals keep their types, and a    *)
(* reported width "only ever shrinks": it is never 0 nor wider than the    *)
(* framebuffer, whatever was committed between the two readings.           *)
TypeOK ==
  /\ kms \in Configs
  /\ crtcId \in 0 .. NumCrtcs
  /\ grabPlane \in 0 .. NumPlanes /\ rotPlane \in 0 .. NumPlanes
  /\ rotState \in {"unread", "found", "absent"}
  /\ memo \in MemoType /\ call \in CallType /\ last \in AnswerType
  /\ pc \in {"idle", "select", "sweep", "width", "refresh", "rotate"}
  /\ answered \subseteq Crtcs /\ torn \in BOOLEAN
  /\ last.op = "grab" /\ last.ret = "ok" => last.width \in 1 .. last.fb

(* A CRTC "is chosen once and kept in ctx->crtc_id, so every later call    *)
(* answers for the same CRTC": grabs and drmtap_crtc_refresh, whatever     *)
(* modes come and go between them.                                         *)
OneCrtc == \A c, d \in answered : c = d

(* find_primary_plane settles for an overlay only when no primary plane    *)
(* was lit on the CRTC all along (or it could not be read).                *)
PrefersPrimary ==
  pc = "sweep" /\ call.i > NumPlanes /\ ~call.blind /\ call.steady # {}
    => call.best \in Primary

(* drmtap_plane_rotation "answers for the plane the last grab read its     *)
(* framebuffer from", with its present rotation, and says that there is    *)
(* none only of a plane that has none: "a failed read is not cached".      *)
RotationOfFrame ==
  [][last' # last /\ last'.op = "rotation" =>
       /\ grabPlane # 0 /\ last'.ret \in {"ok", "ENOTSUP"} => last'.plane = grabPlane
       /\ last'.ret = "ENOTSUP" => last'.plane \notin Rotatable
       /\ last'.ret = "ok" => /\ last'.plane \in Rotatable
                              /\ last'.rot = kms.plane[last'.plane].rot]_vars

Narrowed == last.op = "grab" /\ last.ret = "ok" /\ last.width < last.fb

(* A tiled frame is reported at the width its tiling was laid out for,     *)
(* even when a linear one of the same width was narrowed before it.        *)
TiledKeepsWidth == Narrowed => ~last.tiled

(* "Keyed on all four so a modeset invalidates it": a narrowed width is    *)
(* right in some KMS state of the mode it is reported for, unless          *)
(* a memo was made of two states or planes at once.                        *)
WidthOfSameMode ==
  Narrowed /\ ~torn =>
    \E k \in Configs : \E p \in Planes :
      LET v == k.plane[p]
      IN /\ v.crtc = crtcId /\ k.mode[crtcId] = last.hdisplay
         /\ v.fb = last.fb /\ v.tiled = last.tiled
         /\ ScanoutWidthOf(v.fb, v.tiled, v) = last.width

(* "The answer only changes when the CRTC, the mode, the framebuffer width *)
(* or the layout changes": the narrowed width a grab has remembered is the *)
(* one it would read now from the plane, which still shows the framebuffer *)
(* the grab found there.                                                   *)
RemembersRightWidth ==
  [][LET v == kms.plane[call.plane]
     IN pc = "width" /\ last'.ret = "ok" /\ last'.width < call.fb /\ ~torn
          /\ v.crtc = crtcId /\ v.fb = call.fb /\ v.tiled = call.tiled
          => last'.width = ScanoutWidthOf(v.fb, v.tiled, v)]_vars

-----------------------------------------------------------------------------
(* The inductive invariant: what the properties above need of the call in  *)
(* progress and of the memories.                                           *)

(* A call looks for the CRTC that is kept, and only that one answers.      *)
CrtcShape ==
  /\ pc \in {"sweep", "width", "refresh"} => call.crtc = crtcId /\ crtcId # 0
  /\ pc = "select" => crtcId = 0
  /\ answered \subseteq {crtcId}

(* The planes in steady are still lit, and a sweep that has passed one of  *)
(* them, without a failed ioctl, holds a primary plane.                    *)
SweepShape ==
  /\ pc \in {"select", "sweep"} => call.i >= 1
  /\ pc = "sweep" =>
       /\ call.steady \subseteq Lit(kms, call.crtc)
       /\ ~call.blind => \A p \in call.steady : p < call.i => call.best \in Primary

(* A width is decided on a CRTC already kept, for a lit framebuffer; what  *)
(* is remembered is a width of its framebuffer.                            *)
WidthShape ==
  /\ pc = "select" => call.goal # "rect"
  /\ pc = "width" \/ (pc = "sweep" /\ call.goal = "rect") => call.fb > 0
  /\ memo.set => memo.out \in 1 .. memo.fb
  /\ memo.set /\ memo.tiled => memo.out = memo.fb

(* What is known of a plane's rotation property is true of it, and the     *)
(* plane asked about is the last grab's, if there was one.                 *)
RotationShape ==
  /\ rotState = "absent" => rotPlane \notin Rotatable
  /\ rotState = "found" => rotPlane \in Rotatable
  /\ call.goal = "rotation" => grabPlane = 0
  /\ pc = "rotate" => call.plane # 0 /\ (grabPlane # 0 => call.plane = grabPlane)

Inv == /\ TypeOK /\ PrefersPrimary /\ TiledKeepsWidth
       /\ CrtcShape /\ SweepShape /\ WidthShape /\ RotationShape

=============================================================================
