------------------------- MODULE PlaneChoiceProofs -------------------------
(***************************************************************************)
(* Safety of PlaneChoice for any number of CRTCs and planes and for every  *)
(* set of KMS states a compositor may commit.  Every theorem follows from  *)
(* the inductive invariant Inv of PlaneChoice.                             *)
(***************************************************************************)
EXTENDS PlaneChoice, TLAPS

(* The constants, without what they say of the commits.                    *)
LEMMA Sizes == /\ NumCrtcs \in Nat /\ NumPlanes \in Nat
               /\ 0 \in 0 .. NumCrtcs /\ 0 \in 0 .. NumPlanes
               /\ Primary \subseteq Planes
<1>1. NumCrtcs \in Nat /\ NumPlanes \in Nat /\ Primary \subseteq Planes
  BY ConfigAssumption
<1> QED
  BY <1>1

(* A KMS state is typed.                                                   *)
LEMMA ConfigShape ==
  ASSUME NEW k \in Configs
  PROVE  /\ k.mode \in [Crtcs -> Nat]
         /\ k.plane \in [Planes -> Views]
BY ConfigAssumption

LEMMA InitInv == Init => Inv
<1> SUFFICES ASSUME Init PROVE Inv
  OBVIOUS
<1> USE DEF Init, NoCall, NoMemo, Nothing
<1>1. call \in CallType
  BY Sizes DEF CallType, Ops
<1>2. memo \in MemoType /\ last \in AnswerType
  BY Sizes DEF MemoType, AnswerType, Ops
<1>3. TypeOK
  BY <1>1, <1>2, Sizes DEF TypeOK
<1> QED
  BY <1>3 DEF Inv, PrefersPrimary, TiledKeepsWidth, Narrowed, CrtcShape, SweepShape,
              WidthShape, RotationShape

(* What is remembered of the width and of the rotation property is sound.  *)
MemosSound == /\ memo \in MemoType
              /\ memo.set => memo.out \in 1 .. memo.fb
              /\ memo.set /\ memo.tiled => memo.out = memo.fb
              /\ rotPlane \in 0 .. NumPlanes
              /\ rotState \in {"unread", "found", "absent"}
              /\ rotState = "absent" => rotPlane \notin Rotatable
              /\ rotState = "found" => rotPlane \in Rotatable

LEMMA InvMemosSound == Inv => MemosSound
BY DEF Inv, TypeOK, WidthShape, RotationShape, MemosSound

(* An answer that ends a call: only a grab's width matters to Inv.         *)
LEMMA ReturnKeepsInv ==
  ASSUME Inv, NEW answer \in AnswerType, Return(answer), MemosSound',
         UNCHANGED <<kms, crtcId>>, grabPlane' \in 0 .. NumPlanes, torn' \in BOOLEAN,
         answered' \subseteq Crtcs, answered' \subseteq {crtcId},
         answer.op = "grab" /\ answer.ret = "ok" =>
           answer.width \in 1 .. answer.fb /\ (answer.tiled => answer.width = answer.fb)
  PROVE  Inv'
<1> USE DEF Inv, Return, NoCall
<1>1. call' \in CallType
  BY Sizes DEF CallType, Ops
<1>2. TypeOK'
  BY <1>1 DEF TypeOK, MemosSound
<1>3. TiledKeepsWidth' /\ PrefersPrimary'
  BY <1>2 DEF TiledKeepsWidth, Narrowed, PrefersPrimary, TypeOK, AnswerType
<1>4. CrtcShape' /\ SweepShape' /\ WidthShape' /\ RotationShape'
  BY DEF CrtcShape, SweepShape, WidthShape, RotationShape, MemosSound
<1> QED
  BY <1>2, <1>3, <1>4

(* A call that fails.                                                      *)
LEMMA FailKeepsInv ==
  ASSUME Inv, NEW e \in {"ENODEV", "ENOENT", "ENODATA", "EIO"}, Fail(e), MemosSound',
         UNCHANGED <<kms, crtcId, grabPlane, answered>>, torn' \in BOOLEAN
  PROVE  Inv'
<1> DEFINE answer == [Nothing EXCEPT !.op = call.op, !.ret = e]
<1>1. answer \in AnswerType /\ answer.ret # "ok"
  BY Sizes DEF Nothing, AnswerType, Inv, TypeOK, CallType, Ops
<1>2. Return(answer)
  BY DEF Fail
<1>3. /\ grabPlane' \in 0 .. NumPlanes
      /\ answered' \subseteq Crtcs /\ answered' \subseteq {crtcId}
  BY DEF Inv, TypeOK, CrtcShape
<1> HIDE DEF answer
<1> QED
  BY <1>1, <1>2, <1>3, ReturnKeepsInv

(* A call that goes on: the answer of the one before is forgotten.         *)
LEMMA GotoTyped ==
  ASSUME Inv, NEW label, NEW locals, Goto(label, locals)
  PROVE  last' \in AnswerType /\ last'.op = "none" /\ TiledKeepsWidth'
BY Sizes DEF Goto, Nothing, AnswerType, Ops, TiledKeepsWidth, Narrowed

(* find_primary_plane begins at the CRTC that is kept.                     *)
LEMMA SweepForKeepsInv ==
  ASSUME Inv, NEW locals \in CallType, NEW c \in Crtcs, SweepFor(c, locals),
         crtcId' = c, answered \subseteq {c},
         locals.goal = "rect" => locals.fb > 0,
         locals.goal = "rotation" => grabPlane = 0,
         UNCHANGED <<kms, grabPlane, rotPlane, rotState, memo, answered, torn>>
  PROVE  Inv'
<1> USE DEF Inv, SweepFor
<1>1. /\ pc' = "sweep" /\ call' \in CallType
      /\ call'.i = 1 /\ call'.crtc = c /\ ~call'.blind /\ call'.steady = Lit(kms, c)
      /\ call'.goal = locals.goal /\ call'.fb = locals.fb
  <2>1. Lit(kms, c) \in SUBSET Primary
    BY DEF Lit
  <2>2. c \in 0 .. NumCrtcs /\ 0 \in 0 .. NumPlanes
    BY Sizes DEF Crtcs
  <2> QED
    BY <2>1, <2>2 DEF Goto, CallType
<1>2. last' \in AnswerType /\ last'.op = "none" /\ TiledKeepsWidth'
  BY GotoTyped
<1>3. c \in 0 .. NumCrtcs /\ c # 0
  BY Sizes DEF Crtcs
<1>4. TypeOK'
  BY <1>1, <1>2, <1>3 DEF TypeOK
<1>5. \A p \in Lit(kms, c) : ~(p < 1)
  BY Sizes DEF Lit, Planes
<1>6. SweepShape'
  BY <1>1, <1>5 DEF SweepShape, Lit
<1>7. PrefersPrimary'
  <2>1. NumPlanes < 1 => Lit(kms, c) = {}
    BY Sizes DEF Lit, Planes
  <2> QED
    BY <1>1, <2>1, Sizes DEF PrefersPrimary
<1>8. CrtcShape' /\ WidthShape' /\ RotationShape'
  BY <1>1, <1>3 DEF CrtcShape, WidthShape, RotationShape
<1> QED
  BY <1>2, <1>4, <1>6, <1>7, <1>8

(* Any other step of a call.                                               *)
LEMMA GotoKeepsInv ==
  ASSUME Inv, NEW label \in {"select", "width", "refresh", "rotate"},
         NEW locals \in CallType, Goto(label, locals),
         crtcId' \in 0 .. NumCrtcs, answered \subseteq {crtcId'},
         UNCHANGED <<kms, grabPlane, rotPlane, rotState, memo, answered, torn>>,
         label = "select" => crtcId' = 0 /\ locals.i >= 1 /\ locals.goal # "rect",
         label \in {"width", "refresh"} => locals.crtc = crtcId' /\ crtcId' # 0,
         label = "width" => locals.fb > 0,
         label = "rotate" => locals.plane # 0 /\ (grabPlane # 0 => locals.plane = grabPlane),
         locals.goal = "rotation" => grabPlane = 0
  PROVE  Inv'
<1> USE DEF Inv
<1>1. pc' = label /\ call' = locals
  BY DEF Goto
<1>2. last' \in AnswerType /\ last'.op = "none" /\ TiledKeepsWidth'
  BY GotoTyped
<1>3. TypeOK'
  BY <1>1, <1>2 DEF TypeOK
<1>4. PrefersPrimary' /\ CrtcShape' /\ SweepShape'
  BY <1>1 DEF PrefersPrimary, CrtcShape, SweepShape
<1>5. WidthShape' /\ RotationShape'
  BY <1>1 DEF WidthShape, RotationShape
<1> QED
  BY <1>2, <1>3, <1>4, <1>5

(* find_primary_plane begins, at the CRTC kept or at the choice of one.    *)
LEMMA SweepKeepsInv ==
  ASSUME Inv, NEW goal \in {"grab", "rect", "rotation"}, NEW locals \in CallType,
         Sweep(goal, locals), UNCHANGED <<kms, ctx, history>>,
         goal = "rect" => locals.fb > 0 /\ crtcId # 0,
         goal = "rotation" => grabPlane = 0
  PROVE  Inv'
<1>1. crtcId \in 0 .. NumCrtcs /\ answered \subseteq {crtcId}
  BY DEF Inv, TypeOK, CrtcShape
<1>u. UNCHANGED <<kms, crtcId, grabPlane, rotPlane, rotState, memo, answered, torn>>
  BY DEF ctx, history
<1>2. CASE crtcId = 0
  <2> DEFINE new == [locals EXCEPT !.goal = goal, !.i = 1]
  <2>1. new \in CallType /\ new.goal = goal /\ new.i = 1
    BY DEF CallType
  <2>2. Goto("select", new)
    BY <1>2 DEF Sweep
  <2>3. /\ new.goal # "rect" /\ new.i >= 1
        /\ new.goal = "rotation" => grabPlane = 0
    BY <1>2, <2>1
  <2>4. crtcId' = 0 /\ crtcId' \in 0 .. NumCrtcs /\ answered \subseteq {crtcId'}
    BY <1>1, <1>u, <1>2
  <2> HIDE DEF new
  <2> QED
    BY <1>u, <2>1, <2>2, <2>3, <2>4, GotoKeepsInv
<1>3. CASE crtcId # 0
  <2> DEFINE new == [locals EXCEPT !.goal = goal]
  <2>1. new \in CallType /\ new.goal = goal /\ new.fb = locals.fb
    BY DEF CallType
  <2>2. SweepFor(crtcId, new)
    BY <1>3 DEF Sweep
  <2>3. crtcId \in Crtcs
    BY <1>1, <1>3, Sizes DEF Crtcs
  <2> HIDE DEF new
  <2> QED
    BY <1>1, <1>u, <2>1, <2>2, <2>3, SweepForKeepsInv
<1> QED
  BY <1>2, <1>3

-----------------------------------------------------------------------------
(* Finding the plane.                                                      *)

(* The CRTC chosen is the one every later step of the call looks for.      *)
LEMMA SelectKeepsInv == Inv /\ Select => Inv'
<1> SUFFICES ASSUME Inv, Select PROVE Inv'
  OBVIOUS
<1>1. /\ call.i \in Crtcs /\ call.i \in 0 .. NumCrtcs /\ call.i + 1 \in Nat
      /\ call \in CallType /\ call.goal # "rect" /\ call.i # 0
      /\ call.goal = "rotation" => grabPlane = 0
  BY Sizes DEF Select, Inv, SweepShape, WidthShape, RotationShape, TypeOK, CallType, Crtcs
<1>2. crtcId = 0 /\ answered = {} /\ 0 \in 0 .. NumCrtcs
  BY Sizes DEF Select, Inv, CrtcShape, TypeOK, Crtcs
<1>3. UNCHANGED <<kms, grabPlane, rotPlane, rotState, memo, answered, torn>>
  BY DEF Select, history
<1>4. CASE crtcId' = call.i /\ AfterSelect(call.i) /\ call.op # "refresh"
  <2>1. SweepFor(call.i, call)
    BY <1>4 DEF AfterSelect
  <2> QED
    BY <1>1, <1>2, <1>3, <1>4, <2>1, SweepForKeepsInv
<1>5. CASE crtcId' = call.i /\ AfterSelect(call.i) /\ call.op = "refresh"
  <2> DEFINE new == [call EXCEPT !.i = 0, !.crtc = call.i]
  <2>1. new \in CallType /\ new.crtc = call.i /\ new.goal = call.goal
    BY <1>1 DEF CallType
  <2>2. Goto("refresh", new)
    BY <1>5 DEF AfterSelect
  <2> HIDE DEF new
  <2> QED
    BY <1>1, <1>2, <1>3, <1>5, <2>1, <2>2, GotoKeepsInv
<1>6. CASE Goto("select", [call EXCEPT !.i = @ + 1]) /\ UNCHANGED crtcId
  <2> DEFINE new == [call EXCEPT !.i = @ + 1]
  <2>1. new \in CallType /\ new.i = call.i + 1 /\ new.goal = call.goal
    BY <1>1 DEF CallType
  <2>2. new.i >= 1
    BY <1>1, <2>1, Sizes DEF Crtcs
  <2>3. Goto("select", new)
    BY <1>6
  <2> HIDE DEF new
  <2> QED
    BY <1>1, <1>2, <1>3, <1>6, <2>1, <2>2, <2>3, GotoKeepsInv
<1> QED
  BY <1>4, <1>5, <1>6 DEF Select

LEMMA NoCrtcKeepsInv == Inv /\ NoCrtc => Inv'
<1> SUFFICES ASSUME Inv, NoCrtc PROVE Inv'
  OBVIOUS
<1>1. MemosSound' /\ torn' \in BOOLEAN
  BY InvMemosSound DEF NoCrtc, ctx, history, MemosSound, Inv, TypeOK
<1>2. PICK e \in {"ENODEV", "ENOENT", "ENODATA", "EIO"} : Fail(e)
  BY DEF NoCrtc
<1> QED
  BY <1>1, <1>2, FailKeepsInv DEF NoCrtc, ctx, history

(* A sweep that passes a lit primary plane takes it.                       *)
LEMMA SweepPlaneKeepsInv == Inv /\ SweepPlane => Inv'
<1> SUFFICES ASSUME Inv, SweepPlane PROVE Inv'
  OBVIOUS
<1> USE DEF Inv
<1>1. PICK readable \in BOOLEAN, typed \in BOOLEAN :
        LET matches == readable /\ Matches(call.i)
            primary == matches /\ typed /\ call.i \in Primary
        IN Goto("sweep",
             [call EXCEPT !.i = IF primary THEN NumPlanes + 1 ELSE @ + 1,
                          !.best = IF matches /\ Better(primary) THEN call.i ELSE @,
                          !.blind = @ \/ ~readable \/ (matches /\ ~typed)])
  BY DEF SweepPlane
<1> DEFINE matches == readable /\ Matches(call.i)
           primary == matches /\ typed /\ call.i \in Primary
<1>2. /\ pc = "sweep" /\ call.i \in Planes /\ call \in CallType
      /\ UNCHANGED <<kms, crtcId, grabPlane, rotPlane, rotState, memo, answered, torn>>
  BY Sizes DEF SweepPlane, ctx, history, SweepShape, TypeOK, CallType, Planes
<1>3. /\ pc' = "sweep" /\ call' \in CallType
      /\ call'.i = (IF primary THEN NumPlanes + 1 ELSE call.i + 1)
      /\ call'.best = (IF matches /\ Better(primary) THEN call.i ELSE call.best)
      /\ call'.blind = (call.blind \/ ~readable \/ (matches /\ ~typed))
      /\ call'.steady = call.steady /\ call'.crtc = call.crtc
      /\ call'.goal = call.goal /\ call'.fb = call.fb
  <2>1. /\ call.i \in 0 .. NumPlanes /\ call.i + 1 \in Nat /\ NumPlanes + 1 \in Nat
        /\ primary \in BOOLEAN /\ matches \in BOOLEAN
    BY <1>2, Sizes DEF Planes
  <2>2. Goto("sweep",
             [call EXCEPT !.i = IF primary THEN NumPlanes + 1 ELSE @ + 1,
                          !.best = IF matches /\ Better(primary) THEN call.i ELSE @,
                          !.blind = @ \/ ~readable \/ (matches /\ ~typed)])
    BY <1>1
  <2> HIDE DEF primary, matches
  <2> QED
    BY <1>2, <2>1, <2>2 DEF Goto, CallType
<1>4. last' \in AnswerType /\ last'.op = "none" /\ TiledKeepsWidth'
  BY <1>1, GotoTyped
<1>5. TypeOK'
  BY <1>2, <1>3, <1>4 DEF TypeOK
<1>6. ASSUME ~call'.blind, NEW p \in call'.steady, p < call'.i
      PROVE  call'.best \in Primary
  <2>1. p \in Planes /\ p \in call.steady /\ ~call.blind
    BY <1>2, <1>3, <1>6, Sizes DEF CallType
  <2>2. CASE p < call.i
    <3>1. call.best \in Primary /\ call.best # 0
      BY <1>2, <2>1, <2>2, Sizes DEF SweepShape, Planes
    <3> QED
      BY <1>3, <3>1 DEF Better
  <2>3. CASE p = call.i
    <3>1. Matches(call.i) /\ call.i \in Primary
      BY <1>2, <2>1, <2>3 DEF SweepShape, Lit, Matches
    <3>2. primary
      BY <1>3, <1>6, <3>1
    <3> QED
      BY <1>3, <3>1, <3>2 DEF Better
  <2>4. CASE p > call.i
    <3>1. primary
      BY <1>2, <1>3, <1>6, <2>1, <2>4, Sizes DEF Planes
    <3> QED
      BY <1>3, <3>1 DEF Better
  <2> QED
    BY <1>2, <2>1, <2>2, <2>3, <2>4 DEF Planes
<1>7. SweepShape'
  <2>1. call'.i >= 1
    BY <1>2, <1>3, Sizes DEF Planes
  <2> QED
    BY <1>2, <1>3, <1>6, <2>1 DEF SweepShape, Lit
<1>8. PrefersPrimary'
  <2> SUFFICES ASSUME call'.i > NumPlanes, ~call'.blind, call'.steady # {}
               PROVE  call'.best \in Primary
    BY DEF PrefersPrimary
  <2>1. PICK p \in call'.steady : TRUE
    OBVIOUS
  <2>2. p \in Planes /\ call'.i \in Nat
    BY <1>3, <2>1, Sizes DEF CallType
  <2>3. p < call'.i
    BY <2>2, Sizes DEF Planes
  <2> QED
    BY <1>6, <2>1, <2>3
<1>9. CrtcShape' /\ WidthShape' /\ RotationShape'
  BY <1>2, <1>3 DEF CrtcShape, WidthShape, RotationShape
<1> QED
  BY <1>4, <1>5, <1>7, <1>8, <1>9

-----------------------------------------------------------------------------
(* A grab.                                                                 *)

LEMMA BeginGrabKeepsInv == Inv /\ BeginGrab => Inv'
<1> SUFFICES ASSUME Inv, BeginGrab PROVE Inv'
  OBVIOUS
<1> DEFINE new == [NoCall EXCEPT !.op = "grab"]
<1>1. new \in CallType
  BY Sizes DEF NoCall, CallType, Ops
<1>2. Sweep("grab", new) /\ UNCHANGED <<kms, ctx, history>>
  BY DEF BeginGrab
<1> HIDE DEF new
<1> QED
  BY <1>1, <1>2, SweepKeepsInv

(* The framebuffer read of the plane is lit, so a width can be reported.   *)
LEMMA ReadPlaneKeepsInv == Inv /\ ReadPlane => Inv'
<1> SUFFICES ASSUME Inv, ReadPlane PROVE Inv'
  OBVIOUS
<1> DEFINE v == kms.plane[call.best]
           new == [NoCall EXCEPT !.op = "grab", !.crtc = call.crtc, !.plane = call.best,
                                 !.fb = v.fb, !.tiled = v.tiled]
<1>1. kms \in Configs /\ call \in CallType /\ crtcId \in 0 .. NumCrtcs
  BY DEF Inv, TypeOK
<1>2. call.crtc = crtcId /\ crtcId # 0 /\ answered \subseteq {crtcId}
  BY DEF Inv, CrtcShape, ReadPlane, Swept
<1>3. call.best \in Planes
  BY <1>1, Sizes DEF ReadPlane, CallType, Planes
<1>4. v.fb \in Nat /\ v.fb > 0 /\ v.tiled \in BOOLEAN
  BY <1>1, <1>3, ConfigShape DEF ReadPlane, Views
<1> HIDE DEF v
<1>5. /\ new \in CallType
      /\ new.crtc = crtcId /\ new.fb > 0 /\ new.goal = "none"
  BY <1>1, <1>2, <1>4, Sizes DEF NoCall, CallType, Ops
<1>6. /\ Goto("width", new)
      /\ UNCHANGED <<kms, crtcId, grabPlane, rotPlane, rotState, memo, answered, torn>>
  BY DEF ReadPlane, ctx, history, v
<1> HIDE DEF new
<1> QED
  BY <1>1, <1>2, <1>5, <1>6, GotoKeepsInv

LEMMA GrabFailedKeepsInv == Inv /\ GrabFailed => Inv'
<1> SUFFICES ASSUME Inv, GrabFailed PROVE Inv'
  OBVIOUS
<1>1. MemosSound' /\ torn' \in BOOLEAN
  BY InvMemosSound DEF GrabFailed, ctx, history, MemosSound, Inv, TypeOK
<1> QED
  BY <1>1, FailKeepsInv DEF GrabFailed, ctx, history

(* A grab that ends with a width of its framebuffer.                       *)
LEMMA ConcludeKeepsInv ==
  ASSUME Inv, pc \in {"sweep", "width"}, NEW hdisplay \in Nat,
         NEW width \in 1 .. call.fb, call.tiled => width = call.fb,
         Conclude(width, hdisplay), MemosSound', torn' \in BOOLEAN, UNCHANGED <<kms, crtcId>>
  PROVE  Inv'
<1>1. call \in CallType /\ width \in Nat /\ crtcId \in Crtcs
  BY Sizes DEF Inv, TypeOK, CrtcShape, CallType, Crtcs
<1>2. call.crtc = crtcId /\ answered \subseteq {crtcId}
  BY DEF Inv, CrtcShape
<1>3. CASE Fail("EIO") /\ UNCHANGED <<grabPlane, answered>>
  BY <1>3, FailKeepsInv
<1>4. CASE /\ Return([op |-> "grab", ret |-> "ok", plane |-> call.plane, fb |-> call.fb,
                      tiled |-> call.tiled, width |-> width, hdisplay |-> hdisplay,
                      rot |-> 0])
           /\ grabPlane' = call.plane
           /\ answered' = answered \cup {call.crtc}
  <2> DEFINE answer == [op |-> "grab", ret |-> "ok", plane |-> call.plane, fb |-> call.fb,
                        tiled |-> call.tiled, width |-> width, hdisplay |-> hdisplay,
                        rot |-> 0]
  <2>1. /\ answer \in AnswerType
        /\ answer.width \in 1 .. answer.fb /\ (answer.tiled => answer.width = answer.fb)
    BY <1>1, Sizes DEF AnswerType, CallType, Ops
  <2>2. Return(answer) /\ grabPlane' \in 0 .. NumPlanes
    BY <1>1, <1>4 DEF CallType
  <2>3. answered' \subseteq Crtcs /\ answered' \subseteq {crtcId}
    BY <1>1, <1>2, <1>4
  <2> HIDE DEF answer
  <2> QED
    BY <2>1, <2>2, <2>3, ReturnKeepsInv
<1> QED
  BY <1>3, <1>4 DEF Conclude

(* In the width step the kept CRTC has a mode that can be read.            *)
LEMMA WidthStep ==
  ASSUME Inv, pc = "width"
  PROVE  /\ call \in CallType /\ call.fb \in Nat /\ call.fb > 0
         /\ kms.mode[crtcId] \in Nat
<1>1. crtcId \in Crtcs /\ kms \in Configs
  BY Sizes DEF Inv, TypeOK, CrtcShape, Crtcs
<1> QED
  BY <1>1, ConfigShape DEF Inv, TypeOK, CallType, WidthShape

LEMMA WidthAsIsKeepsInv == Inv /\ WidthAsIs => Inv'
<1> SUFFICES ASSUME Inv, WidthAsIs PROVE Inv'
  OBVIOUS
<1>1. MemosSound' /\ torn' \in BOOLEAN
  BY InvMemosSound DEF WidthAsIs, MemosSound, Inv, TypeOK
<1>2. pc = "width" /\ call.fb \in 1 .. call.fb
  BY WidthStep DEF WidthAsIs
<1> QED
  BY <1>1, <1>2, ConcludeKeepsInv DEF WidthAsIs

(* The memo's width is one of its own framebuffer, and the keys say that   *)
(* this framebuffer is as wide and as tiled.                               *)
LEMMA WidthRememberedKeepsInv == Inv /\ WidthRemembered => Inv'
<1> SUFFICES ASSUME Inv, WidthRemembered PROVE Inv'
  OBVIOUS
<1>1. MemosSound' /\ torn' \in BOOLEAN
  BY InvMemosSound DEF WidthRemembered, MemosSound, Inv, TypeOK
<1>2. pc = "width" /\ kms.mode[crtcId] \in Nat
  BY WidthStep DEF WidthRemembered
<1>3. memo.out \in 1 .. call.fb /\ (call.tiled => memo.out = call.fb)
  BY DEF WidthRemembered, MemoHit, Inv, WidthShape
<1> QED
  BY <1>1, <1>2, <1>3, ConcludeKeepsInv DEF WidthRemembered

LEMMA WidthLookedUpKeepsInv == Inv /\ WidthLookedUp => Inv'
<1> SUFFICES ASSUME Inv, WidthLookedUp PROVE Inv'
  OBVIOUS
<1> DEFINE new == [call EXCEPT !.hdisplay = kms.mode[crtcId]]
<1>1. new \in CallType /\ new.fb > 0
  BY WidthStep DEF WidthLookedUp, CallType
<1>2. Sweep("rect", new) /\ crtcId # 0 /\ UNCHANGED <<kms, ctx, history>>
  BY DEF WidthLookedUp, Padded
<1> HIDE DEF new
<1> QED
  BY <1>1, <1>2, SweepKeepsInv

(* "The width only ever shrinks", and only that of a linear framebuffer.   *)
LEMMA ScanoutWidthBounded ==
  ASSUME NEW fb \in Nat, fb > 0, NEW tiled, NEW v
  PROVE  /\ ScanoutWidthOf(fb, tiled, v) \in 1 .. fb
         /\ tiled => ScanoutWidthOf(fb, tiled, v) = fb
BY DEF ScanoutWidthOf

LEMMA DecideKeepsInv ==
  ASSUME Inv, Swept("rect"), NEW width \in 1 .. call.fb, call.tiled => width = call.fb,
         Decide(width), torn' \in BOOLEAN
  PROVE  Inv'
<1>1. call \in CallType /\ call.hdisplay \in Nat /\ crtcId \in 0 .. NumCrtcs
  BY DEF Inv, TypeOK, CallType
<1>2. MemosSound'
  BY <1>1 DEF Decide, MemosSound, MemoType, CallType, Inv, TypeOK, RotationShape
<1>3. pc = "sweep"
  BY DEF Swept
<1> QED
  BY <1>1, <1>2, <1>3, ConcludeKeepsInv DEF Decide

LEMMA DecideUnreadKeepsInv == Inv /\ DecideUnread => Inv'
<1> SUFFICES ASSUME Inv, DecideUnread PROVE Inv'
  OBVIOUS
<1>1. call.fb \in 1 .. call.fb
  BY DEF DecideUnread, Swept, Inv, TypeOK, CallType, WidthShape
<1> QED
  BY <1>1, DecideKeepsInv DEF DecideUnread, Inv, TypeOK

LEMMA DecideByRectKeepsInv == Inv /\ DecideByRect => Inv'
<1> SUFFICES ASSUME Inv, DecideByRect PROVE Inv'
  OBVIOUS
<1> DEFINE width == ScanoutWidthOf(call.fb, call.tiled, kms.plane[call.best])
<1>1. call.fb \in Nat /\ call.fb > 0
  BY DEF DecideByRect, Swept, Inv, TypeOK, CallType, WidthShape
<1>2. width \in 1 .. call.fb /\ (call.tiled => width = call.fb)
  BY <1>1, ScanoutWidthBounded
<1>3. Swept("rect") /\ Decide(width) /\ torn' \in BOOLEAN
  BY DEF DecideByRect, Inv, TypeOK
<1> HIDE DEF width
<1> QED
  BY <1>2, <1>3, DecideKeepsInv

-----------------------------------------------------------------------------
(* The questions.                                                          *)

LEMMA BeginRefreshKeepsInv == Inv /\ BeginRefresh => Inv'
<1> SUFFICES ASSUME Inv, BeginRefresh PROVE Inv'
  OBVIOUS
<1>1. UNCHANGED <<kms, crtcId, grabPlane, rotPlane, rotState, memo, answered, torn>>
  BY DEF BeginRefresh, ctx, history
<1>2. crtcId \in 0 .. NumCrtcs /\ answered \subseteq {crtcId}
  BY DEF Inv, TypeOK, CrtcShape
<1>3. CASE crtcId = 0
  <2> DEFINE new == [NoCall EXCEPT !.op = "refresh", !.i = 1]
  <2>1. new \in CallType /\ new.i = 1 /\ new.goal = "none"
    <3>1. NoCall \in CallType /\ NoCall.goal = "none"
      BY Sizes DEF NoCall, CallType, Ops
    <3> QED
      BY <3>1 DEF CallType, Ops
  <2>2. Goto("select", new)
    BY <1>3 DEF BeginRefresh
  <2>3. /\ crtcId' = 0 /\ crtcId' \in 0 .. NumCrtcs /\ answered \subseteq {crtcId'}
        /\ new.i >= 1 /\ new.goal # "rect" /\ new.goal # "rotation"
    BY <1>1, <1>2, <1>3, <2>1
  <2> HIDE DEF new
  <2> QED
    BY <1>1, <2>1, <2>2, <2>3, GotoKeepsInv
<1>4. CASE crtcId # 0
  <2> DEFINE new == [NoCall EXCEPT !.op = "refresh", !.crtc = crtcId]
  <2>1. new \in CallType /\ new.crtc = crtcId /\ new.goal = "none"
    BY <1>2, Sizes DEF NoCall, CallType, Ops
  <2>2. Goto("refresh", new)
    BY <1>4 DEF BeginRefresh
  <2> HIDE DEF new
  <2> QED
    BY <1>1, <1>2, <1>4, <2>1, <2>2, GotoKeepsInv
<1> QED
  BY <1>3, <1>4

LEMMA RefreshKeepsInv == Inv /\ Refresh => Inv'
<1> SUFFICES ASSUME Inv, Refresh PROVE Inv'
  OBVIOUS
<1>1. /\ MemosSound' /\ torn' \in BOOLEAN
      /\ UNCHANGED <<kms, crtcId, grabPlane>>
  BY InvMemosSound DEF Refresh, ctx, MemosSound, Inv, TypeOK
<1>2. crtcId \in Crtcs /\ call.crtc = crtcId /\ answered \subseteq {crtcId} /\ kms \in Configs
  BY Sizes DEF Refresh, Inv, TypeOK, CrtcShape, Crtcs
<1>3. CASE Fail("ENODATA") /\ UNCHANGED answered
  BY <1>1, <1>3, FailKeepsInv
<1>4. CASE /\ Return([Nothing EXCEPT !.op = "refresh", !.ret = "ok",
                                     !.width = kms.mode[call.crtc]])
           /\ answered' = answered \cup {call.crtc}
  <2> DEFINE answer == [Nothing EXCEPT !.op = "refresh", !.ret = "ok",
                                       !.width = kms.mode[call.crtc]]
  <2>1. answer \in AnswerType /\ answer.op # "grab"
    <3>1. kms.mode[call.crtc] \in Nat
      BY <1>2, ConfigShape
    <3> QED
      BY <3>1, Sizes DEF Nothing, AnswerType, Ops
  <2>2. Return(answer)
    BY <1>4
  <2>3. /\ grabPlane' \in 0 .. NumPlanes
        /\ answered' \subseteq Crtcs /\ answered' \subseteq {crtcId}
    BY <1>1, <1>2, <1>4 DEF Inv, TypeOK
  <2> HIDE DEF answer
  <2> QED
    BY <1>1, <2>1, <2>2, <2>3, ReturnKeepsInv
<1> QED
  BY <1>3, <1>4 DEF Refresh

LEMMA BeginRotationKeepsInv == Inv /\ BeginRotation => Inv'
<1> SUFFICES ASSUME Inv, BeginRotation PROVE Inv'
  OBVIOUS
<1>1. UNCHANGED <<kms, crtcId, grabPlane, rotPlane, rotState, memo, answered, torn>>
  BY DEF BeginRotation, ctx, history
<1>2. /\ crtcId \in 0 .. NumCrtcs /\ answered \subseteq {crtcId}
      /\ grabPlane \in 0 .. NumPlanes
  BY DEF Inv, TypeOK, CrtcShape
<1>3. CASE grabPlane # 0
  <2> DEFINE new == [NoCall EXCEPT !.op = "rotation", !.plane = grabPlane]
  <2>1. new \in CallType /\ new.plane = grabPlane /\ new.goal = "none"
    BY <1>2, Sizes DEF NoCall, CallType, Ops
  <2>2. Goto("rotate", new)
    BY <1>3 DEF BeginRotation
  <2>3. crtcId' \in 0 .. NumCrtcs /\ answered \subseteq {crtcId'}
    BY <1>1, <1>2
  <2> HIDE DEF new
  <2> QED
    BY <1>1, <1>3, <2>1, <2>2, <2>3, GotoKeepsInv
<1>4. CASE grabPlane = 0
  <2> DEFINE new == [NoCall EXCEPT !.op = "rotation"]
  <2>1. new \in CallType
    BY Sizes DEF NoCall, CallType, Ops
  <2>2. Sweep("rotation", new) /\ UNCHANGED <<kms, ctx, history>>
    BY <1>4 DEF BeginRotation
  <2> HIDE DEF new
  <2> QED
    BY <1>4, <2>1, <2>2, SweepKeepsInv
<1> QED
  BY <1>3, <1>4

LEMMA RotationNoPlaneKeepsInv == Inv /\ RotationNoPlane => Inv'
<1> SUFFICES ASSUME Inv, RotationNoPlane PROVE Inv'
  OBVIOUS
<1>1. MemosSound' /\ torn' \in BOOLEAN
  BY InvMemosSound DEF RotationNoPlane, ctx, history, MemosSound, Inv, TypeOK
<1> QED
  BY <1>1, FailKeepsInv DEF RotationNoPlane, ctx, history

(* The planes are swept only while no grab has told which one to ask.      *)
LEMMA RotationPlaneKeepsInv == Inv /\ RotationPlane => Inv'
<1> SUFFICES ASSUME Inv, RotationPlane PROVE Inv'
  OBVIOUS
<1> DEFINE new == [NoCall EXCEPT !.op = "rotation", !.plane = call.best]
<1>1. /\ Goto("rotate", new)
      /\ UNCHANGED <<kms, crtcId, grabPlane, rotPlane, rotState, memo, answered, torn>>
  BY DEF RotationPlane, ctx, history
<1>2. crtcId \in 0 .. NumCrtcs /\ answered \subseteq {crtcId} /\ grabPlane = 0
  BY DEF RotationPlane, Swept, Inv, TypeOK, CrtcShape, RotationShape
<1>3. new \in CallType /\ new.plane # 0 /\ new.goal = "none"
  BY Sizes DEF RotationPlane, Inv, TypeOK, NoCall, CallType, Ops
<1> HIDE DEF new
<1> QED
  BY <1>1, <1>2, <1>3, GotoKeepsInv

LEMMA RotateStep ==
  ASSUME Inv, pc = "rotate"
  PROVE  /\ call.plane \in Planes /\ call.plane \in 0 .. NumPlanes
         /\ Rotation \in AnswerType /\ Rotation.op = "rotation"
         /\ RotationAbsent \in AnswerType /\ RotationAbsent.op = "rotation"
         /\ Known \in {"unread", "found", "absent"}
         /\ Known = "absent" => call.plane \notin Rotatable
         /\ Known = "found" => call.plane \in Rotatable
<1>1. call.plane \in Planes /\ call.plane \in 0 .. NumPlanes /\ kms \in Configs
  BY Sizes DEF Inv, TypeOK, CallType, RotationShape, Planes
<1>2. kms.plane[call.plane].rot \in Nat
  BY <1>1, ConfigShape DEF Views
<1>3. Rotation \in AnswerType /\ Rotation.op = "rotation"
  BY <1>1, <1>2, Sizes DEF Rotation, Nothing, AnswerType, Ops
<1>4. RotationAbsent \in AnswerType /\ RotationAbsent.op = "rotation"
  BY <1>1, Sizes DEF RotationAbsent, Nothing, AnswerType, Ops
<1>5. /\ Known \in {"unread", "found", "absent"}
      /\ Known = "absent" => call.plane \notin Rotatable
      /\ Known = "found" => call.plane \in Rotatable
  BY DEF Known, Inv, TypeOK, RotationShape
<1> QED
  BY <1>1, <1>3, <1>4, <1>5

(* An answer about the rotation, and what is learnt with it.               *)
LEMMA RotateKeepsInv ==
  ASSUME Inv, pc = "rotate", NEW answer \in {Rotation, RotationAbsent}, Return(answer),
         rotPlane' = call.plane, rotState' \in {"unread", "found", "absent"},
         rotState' = "absent" => call.plane \notin Rotatable,
         rotState' = "found" => call.plane \in Rotatable,
         UNCHANGED <<kms, crtcId, grabPlane, memo, history>>
  PROVE  Inv'
<1>1. MemosSound'
  BY RotateStep, InvMemosSound DEF MemosSound
<1>2. answer \in AnswerType /\ answer.op # "grab"
  BY RotateStep
<1>3. /\ grabPlane' \in 0 .. NumPlanes /\ torn' \in BOOLEAN
      /\ answered' \subseteq Crtcs /\ answered' \subseteq {crtcId}
  BY DEF history, Inv, TypeOK, CrtcShape
<1> QED
  BY <1>1, <1>2, <1>3, ReturnKeepsInv

LEMMA RotateKnownKeepsInv == Inv /\ RotateKnown => Inv'
<1> SUFFICES ASSUME Inv, RotateKnown PROVE Inv'
  OBVIOUS
<1>1. PICK answer \in {Rotation, RotationAbsent} : Return(answer)
  BY DEF RotateKnown
<1>2. pc = "rotate" /\ rotPlane' = call.plane /\ rotState' = Known
  BY DEF RotateKnown
<1> QED
  BY <1>1, <1>2, RotateStep, RotateKeepsInv DEF RotateKnown

LEMMA RotateLookedUpKeepsInv == Inv /\ RotateLookedUp => Inv'
<1> SUFFICES ASSUME Inv, RotateLookedUp PROVE Inv'
  OBVIOUS
<1>1. PICK answer \in {Rotation, RotationAbsent} : Return(answer)
  BY DEF RotateLookedUp
<1>2. /\ pc = "rotate" /\ rotPlane' = call.plane
      /\ rotState' = (IF call.plane \in Rotatable THEN "found" ELSE "absent")
  BY DEF RotateLookedUp
<1> QED
  BY <1>1, <1>2, RotateKeepsInv DEF RotateLookedUp

LEMMA RotateUnreadableKeepsInv == Inv /\ RotateUnreadable => Inv'
<1> SUFFICES ASSUME Inv, RotateUnreadable PROVE Inv'
  OBVIOUS
<1>1. MemosSound' /\ torn' \in BOOLEAN
  BY RotateStep, InvMemosSound DEF RotateUnreadable, history, MemosSound, Inv, TypeOK
<1> QED
  BY <1>1, FailKeepsInv DEF RotateUnreadable, history

-----------------------------------------------------------------------------
(* The compositor: a commit takes planes out of the history of the sweep.  *)
LEMMA CommitKeepsInv == Inv /\ Commit => Inv'
<1> SUFFICES ASSUME Inv, Commit PROVE Inv'
  OBVIOUS
<1>1. /\ kms' \in Configs
      /\ call' = [call EXCEPT !.steady = @ \cap Lit(kms', call.crtc)]
      /\ UNCHANGED <<crtcId, grabPlane, rotPlane, rotState, memo, pc, last, answered>>
  BY DEF Commit, ctx
<1>2. call \in CallType /\ torn' \in BOOLEAN
  BY DEF Inv, TypeOK, Commit
<1>3. /\ call' \in CallType
      /\ call'.steady = call.steady \cap Lit(kms', call.crtc)
      /\ \A f \in {"op", "goal", "i", "crtc", "best", "blind", "plane", "fb"} :
           call'[f] = call[f]
  BY <1>1, <1>2 DEF CallType
<1>4. TypeOK'
  BY <1>1, <1>2, <1>3 DEF Inv, TypeOK
<1>5. PrefersPrimary' /\ TiledKeepsWidth'
  BY <1>1, <1>3 DEF Inv, PrefersPrimary, TiledKeepsWidth, Narrowed
<1>6. SweepShape'
  BY <1>1, <1>3 DEF Inv, SweepShape
<1>7. CrtcShape' /\ WidthShape' /\ RotationShape'
  BY <1>1, <1>3 DEF Inv, CrtcShape, WidthShape, RotationShape
<1> QED
  BY <1>4, <1>5, <1>6, <1>7 DEF Inv

LEMMA NextInv == Inv /\ [Next]_vars => Inv'
<1> SUFFICES ASSUME Inv, [Next]_vars PROVE Inv'
  OBVIOUS
<1>1. CASE FindPlane
  BY <1>1, SelectKeepsInv, NoCrtcKeepsInv, SweepPlaneKeepsInv DEF FindPlane
<1>2. CASE Grab
  BY <1>2, BeginGrabKeepsInv, ReadPlaneKeepsInv, GrabFailedKeepsInv, WidthAsIsKeepsInv,
     WidthRememberedKeepsInv, WidthLookedUpKeepsInv, DecideUnreadKeepsInv,
     DecideByRectKeepsInv DEF Grab
<1>3. CASE Ask
  BY <1>3, BeginRefreshKeepsInv, RefreshKeepsInv, BeginRotationKeepsInv,
     RotationNoPlaneKeepsInv, RotationPlaneKeepsInv, RotateKnownKeepsInv,
     RotateLookedUpKeepsInv, RotateUnreadableKeepsInv DEF Ask
<1>4. CASE Commit
  BY <1>4, CommitKeepsInv
<1>5. CASE UNCHANGED vars
  <2> USE <1>5 DEF vars, ctx, history
  <2>1. TypeOK' /\ PrefersPrimary' /\ TiledKeepsWidth'
    BY DEF Inv, TypeOK, PrefersPrimary, TiledKeepsWidth, Narrowed
  <2>2. CrtcShape' /\ SweepShape' /\ WidthShape' /\ RotationShape'
    BY DEF Inv, CrtcShape, SweepShape, WidthShape, RotationShape
  <2> QED
    BY <2>1, <2>2 DEF Inv
<1> QED
  BY <1>1, <1>2, <1>3, <1>4, <1>5 DEF Next

-----------------------------------------------------------------------------
(* The width a grab reports.                                               *)

(* Some KMS state shows, on that CRTC and in that mode, a plane with that  *)
(* framebuffer whose width drmtap_scanout_width_of would give.             *)
Shown(crtc, hdisplay, fb, tiled, width) ==
  \E k \in Configs : \E p \in Planes :
    LET v == k.plane[p]
    IN /\ v.crtc = crtc /\ k.mode[crtc] = hdisplay
       /\ v.fb = fb /\ v.tiled = tiled
       /\ ScanoutWidthOf(v.fb, v.tiled, v) = width

(* A narrowed width that is remembered was right in some KMS state.        *)
MemoShown ==
  memo.set /\ memo.out < memo.fb /\ ~torn =>
    Shown(memo.crtc, memo.hdisplay, memo.fb, memo.tiled, memo.out)

(* While no commit has come between, the framebuffer the width is decided  *)
(* for is still on the plane it was read from, its mode is the present     *)
(* one, and the plane found for its rectangle is on the CRTC that is kept. *)
DecidedNow ==
  /\ ~torn /\ (pc = "width" \/ (pc = "sweep" /\ call.goal = "rect")) =>
       /\ kms.plane[call.plane].fb = call.fb
       /\ kms.plane[call.plane].tiled = call.tiled
  /\ ~torn /\ pc = "sweep" /\ call.goal = "rect" =>
       /\ kms.mode[crtcId] = call.hdisplay
       /\ call.best # 0 => kms.plane[call.best].crtc = crtcId

WidthInv == MemoShown /\ DecidedNow /\ WidthOfSameMode

LEMMA InitWidth == Init => WidthInv
BY DEF Init, NoMemo, Nothing, NoCall, WidthInv, MemoShown, DecidedNow, WidthOfSameMode, Narrowed

(* A step that reports no width and is not about to decide one.            *)
LEMMA QuietKeepsWidth ==
  ASSUME WidthInv, UNCHANGED <<memo, torn>>, ~Narrowed', pc' # "width",
         pc' = "sweep" => call'.goal # "rect"
  PROVE  WidthInv'
BY DEF WidthInv, MemoShown, DecidedNow, WidthOfSameMode

LEMMA GotoQuiet ==
  ASSUME NEW label, NEW locals, Goto(label, locals)
  PROVE  ~Narrowed' /\ pc' = label /\ call' = locals
BY DEF Goto, Nothing, Narrowed

LEMMA FailQuiet ==
  ASSUME NEW e \in {"ENODEV", "ENOENT", "ENODATA", "EIO"}, Fail(e)
  PROVE  ~Narrowed' /\ pc' = "idle"
BY DEF Fail, Return, Nothing, Narrowed

LEMMA SweepQuiet ==
  ASSUME NEW goal, NEW locals \in CallType, Sweep(goal, locals)
  PROVE  /\ ~Narrowed' /\ pc' \in {"select", "sweep"}
         /\ call'.goal = goal /\ call'.fb = locals.fb /\ call'.tiled = locals.tiled
         /\ call'.plane = locals.plane /\ call'.hdisplay = locals.hdisplay
         /\ pc' = "sweep" => call'.best = 0
<1>1. CASE crtcId = 0
  <2>1. Goto("select", [locals EXCEPT !.goal = goal, !.i = 1])
    BY <1>1 DEF Sweep
  <2> QED
    BY <2>1 DEF Goto, Nothing, Narrowed, CallType
<1>2. CASE crtcId # 0
  <2> DEFINE new == [locals EXCEPT !.goal = goal]
  <2>1. Goto("sweep", [new EXCEPT !.i = 1, !.crtc = crtcId, !.best = 0, !.blind = FALSE,
                                  !.steady = Lit(kms, crtcId)])
    BY <1>2 DEF Sweep, SweepFor
  <2> QED
    BY <2>1 DEF Goto, Nothing, Narrowed, CallType
<1> QED
  BY <1>1, <1>2

(* A grab ends: the width it reports has to be shown.                      *)
LEMMA ConcludeKeepsWidth ==
  ASSUME NEW width, NEW hdisplay, Conclude(width, hdisplay), MemoShown', crtcId' = crtcId,
         ~torn' /\ width < call.fb => Shown(crtcId, hdisplay, call.fb, call.tiled, width)
  PROVE  WidthInv'
<1>1. pc' = "idle"
  BY DEF Conclude, Return, Fail
<1>2. DecidedNow'
  BY <1>1 DEF DecidedNow
<1>3. WidthOfSameMode'
  <2>1. CASE Fail("EIO")
    BY <2>1, FailQuiet DEF WidthOfSameMode
  <2>2. CASE Return([op |-> "grab", ret |-> "ok", plane |-> call.plane, fb |-> call.fb,
                     tiled |-> call.tiled, width |-> width, hdisplay |-> hdisplay,
                     rot |-> 0])
    <3>1. /\ last'.fb = call.fb /\ last'.tiled = call.tiled
          /\ last'.width = width /\ last'.hdisplay = hdisplay
      BY <2>2 DEF Return
    <3>2. Narrowed' => width < call.fb
      BY <3>1 DEF Narrowed
    <3>3. Narrowed' /\ ~torn' =>
            Shown(crtcId, hdisplay, call.fb, call.tiled, width)
      BY <3>2
    <3> QED
      BY <3>1, <3>3 DEF WidthOfSameMode, Shown
  <2> QED
    BY <2>1, <2>2 DEF Conclude
<1> QED
  BY <1>2, <1>3 DEF WidthInv

(* The framebuffer read of the plane is the one it shows.                  *)
LEMMA ReadPlaneKeepsWidth == Inv /\ WidthInv /\ ReadPlane => WidthInv'
<1> SUFFICES ASSUME Inv, WidthInv, ReadPlane PROVE WidthInv'
  OBVIOUS
<1>1. /\ kms' = kms /\ memo' = memo /\ torn' = torn
      /\ pc' = "width" /\ call'.plane = call.best /\ ~Narrowed'
      /\ call'.fb = kms.plane[call.best].fb /\ call'.tiled = kms.plane[call.best].tiled
  BY DEF ReadPlane, ctx, history, NoCall, Goto, Nothing, Narrowed
<1>2. MemoShown' /\ DecidedNow' /\ WidthOfSameMode'
  BY <1>1 DEF WidthInv, MemoShown, DecidedNow, WidthOfSameMode
<1> QED
  BY <1>2 DEF WidthInv

(* The keys of the memo are those of the framebuffer.                      *)
LEMMA WidthRememberedKeepsWidth == Inv /\ WidthInv /\ WidthRemembered => WidthInv'
<1> SUFFICES ASSUME Inv, WidthInv, WidthRemembered PROVE WidthInv'
  OBVIOUS
<1>1. /\ memo' = memo /\ torn' = torn /\ crtcId' = crtcId
      /\ Conclude(memo.out, kms.mode[crtcId])
  BY DEF WidthRemembered
<1>2. MemoShown'
  BY <1>1 DEF WidthInv, MemoShown
<1>3. ~torn' /\ memo.out < call.fb =>
        Shown(crtcId, kms.mode[crtcId], call.fb, call.tiled, memo.out)
  BY <1>1 DEF WidthRemembered, MemoHit, WidthInv, MemoShown
<1> QED
  BY <1>1, <1>2, <1>3, ConcludeKeepsWidth

LEMMA WidthAsIsKeepsWidth == Inv /\ WidthInv /\ WidthAsIs => WidthInv'
<1> SUFFICES ASSUME Inv, WidthInv, WidthAsIs PROVE WidthInv'
  OBVIOUS
<1>1. memo' = memo /\ torn' = torn /\ crtcId' = crtcId /\ Conclude(call.fb, 0)
  BY DEF WidthAsIs
<1>2. MemoShown'
  BY <1>1 DEF WidthInv, MemoShown
<1>3. ~(call.fb < call.fb)
  BY WidthStep DEF WidthAsIs
<1> QED
  BY <1>1, <1>2, <1>3, ConcludeKeepsWidth

LEMMA WidthLookedUpKeepsWidth == Inv /\ WidthInv /\ WidthLookedUp => WidthInv'
<1> SUFFICES ASSUME Inv, WidthInv, WidthLookedUp PROVE WidthInv'
  OBVIOUS
<1> DEFINE new == [call EXCEPT !.hdisplay = kms.mode[crtcId]]
<1>1. /\ new \in CallType /\ new.hdisplay = kms.mode[crtcId]
      /\ new.plane = call.plane /\ new.fb = call.fb /\ new.tiled = call.tiled
  BY WidthStep DEF WidthLookedUp, CallType
<1>2. /\ Sweep("rect", new) /\ pc = "width"
      /\ kms' = kms /\ crtcId' = crtcId /\ memo' = memo /\ torn' = torn
  BY DEF WidthLookedUp, ctx, history
<1> HIDE DEF new
<1>3. /\ ~Narrowed' /\ pc' \in {"select", "sweep"}
      /\ call'.fb = call.fb /\ call'.tiled = call.tiled /\ call'.plane = call.plane
      /\ call'.hdisplay = kms.mode[crtcId] /\ (pc' = "sweep" => call'.best = 0)
  BY <1>1, <1>2, SweepQuiet
<1>4. MemoShown' /\ DecidedNow' /\ WidthOfSameMode'
  BY <1>2, <1>3 DEF WidthInv, MemoShown, DecidedNow, WidthOfSameMode
<1> QED
  BY <1>4 DEF WidthInv

(* A plane that matches is on the CRTC looked for.                         *)
LEMMA SweepPlaneKeepsWidth == Inv /\ WidthInv /\ SweepPlane => WidthInv'
<1> SUFFICES ASSUME Inv, WidthInv, SweepPlane PROVE WidthInv'
  OBVIOUS
<1>1. /\ pc = "sweep" /\ call \in CallType /\ call.crtc = crtcId
      /\ kms' = kms /\ crtcId' = crtcId /\ memo' = memo /\ torn' = torn
  BY DEF SweepPlane, Inv, TypeOK, CrtcShape, ctx, history
<1>2. PICK locals : /\ Goto("sweep", locals)
                    /\ locals.goal = call.goal /\ locals.plane = call.plane
                    /\ locals.fb = call.fb /\ locals.tiled = call.tiled
                    /\ locals.hdisplay = call.hdisplay
                    /\ locals.best = call.best \/ (locals.best = call.i /\ Matches(call.i))
  <2>1. PICK readable \in BOOLEAN, typed \in BOOLEAN :
          LET matches == readable /\ Matches(call.i)
              primary == matches /\ typed /\ call.i \in Primary
          IN Goto("sweep",
               [call EXCEPT !.i = IF primary THEN NumPlanes + 1 ELSE @ + 1,
                            !.best = IF matches /\ Better(primary) THEN call.i ELSE @,
                            !.blind = @ \/ ~readable \/ (matches /\ ~typed)])
    BY DEF SweepPlane
  <2> DEFINE matches == readable /\ Matches(call.i)
             primary == matches /\ typed /\ call.i \in Primary
             locals == [call EXCEPT !.i = IF primary THEN NumPlanes + 1 ELSE @ + 1,
                            !.best = IF matches /\ Better(primary) THEN call.i ELSE @,
                            !.blind = @ \/ ~readable \/ (matches /\ ~typed)]
  <2>2. Goto("sweep", locals)
    BY <2>1
  <2>3. /\ locals.goal = call.goal /\ locals.plane = call.plane
        /\ locals.fb = call.fb /\ locals.tiled = call.tiled
        /\ locals.hdisplay = call.hdisplay
    BY <1>1 DEF CallType
  <2>4. locals.best = call.best \/ (locals.best = call.i /\ Matches(call.i))
    BY <1>1 DEF CallType
  <2> HIDE DEF locals
  <2> QED
    BY <2>2, <2>3, <2>4
<1>3. /\ ~Narrowed' /\ pc' = "sweep" /\ call' = locals
  BY <1>2, GotoQuiet
<1>4. DecidedNow'
  BY <1>1, <1>2, <1>3 DEF WidthInv, DecidedNow, Matches
<1>5. MemoShown' /\ WidthOfSameMode'
  BY <1>1, <1>3 DEF WidthInv, MemoShown, WidthOfSameMode
<1> QED
  BY <1>4, <1>5 DEF WidthInv

(* The whole width is no narrowed one.                                     *)
LEMMA DecideUnreadKeepsWidth == Inv /\ WidthInv /\ DecideUnread => WidthInv'
<1> SUFFICES ASSUME Inv, WidthInv, DecideUnread PROVE WidthInv'
  OBVIOUS
<1>1. /\ Conclude(call.fb, call.hdisplay) /\ crtcId' = crtcId
      /\ memo'.out = call.fb /\ memo'.fb = call.fb /\ call.fb \in Nat
  BY DEF DecideUnread, Decide, Inv, TypeOK, CallType
<1>2. MemoShown'
  BY <1>1 DEF MemoShown
<1> QED
  BY <1>1, <1>2, ConcludeKeepsWidth

(* The rectangle is that of the plane of the framebuffer, in the KMS state *)
(* of the mode: that state shows the width.                                *)
LEMMA DecideByRectKeepsWidth == Inv /\ WidthInv /\ DecideByRect => WidthInv'
<1> SUFFICES ASSUME Inv, WidthInv, DecideByRect PROVE WidthInv'
  OBVIOUS
<1> DEFINE width == ScanoutWidthOf(call.fb, call.tiled, kms.plane[call.best])
<1>1. /\ Conclude(width, call.hdisplay) /\ crtcId' = crtcId
      /\ memo' = [set |-> TRUE, crtc |-> crtcId, hdisplay |-> call.hdisplay, fb |-> call.fb,
                  tiled |-> call.tiled, out |-> width]
      /\ pc = "sweep" /\ call.goal = "rect" /\ call.best # 0
      /\ torn' = (torn \/ call.best # call.plane)
  BY DEF DecideByRect, Decide, Swept
<1>2. kms \in Configs /\ call.best \in Planes
  BY <1>1, Sizes DEF Inv, TypeOK, CallType, Planes
<1>3. ~torn' => Shown(crtcId, call.hdisplay, call.fb, call.tiled, width)
  <2> SUFFICES ASSUME ~torn' PROVE Shown(crtcId, call.hdisplay, call.fb, call.tiled, width)
    OBVIOUS
  <2>1. ~torn /\ call.best = call.plane
    BY <1>1
  <2>2. /\ kms.plane[call.best].crtc = crtcId /\ kms.mode[crtcId] = call.hdisplay
        /\ kms.plane[call.best].fb = call.fb /\ kms.plane[call.best].tiled = call.tiled
    BY <1>1, <2>1 DEF WidthInv, DecidedNow
  <2> QED
    BY <1>2, <2>2 DEF Shown
<1> HIDE DEF width
<1>4. MemoShown'
  <2>1. /\ memo'.crtc = crtcId /\ memo'.hdisplay = call.hdisplay /\ memo'.fb = call.fb
        /\ memo'.tiled = call.tiled /\ memo'.out = width
    BY <1>1
  <2> QED
    BY <1>3, <2>1 DEF MemoShown, Shown
<1> QED
  BY <1>1, <1>3, <1>4, ConcludeKeepsWidth

(* A commit while a width is being decided makes it torn.                  *)
LEMMA CommitKeepsWidth == Inv /\ WidthInv /\ Commit => WidthInv'
<1> SUFFICES ASSUME Inv, WidthInv, Commit PROVE WidthInv'
  OBVIOUS
<1>1. /\ torn' = (torn \/ pc = "width" \/ (pc = "sweep" /\ call.goal = "rect"))
      /\ memo' = memo /\ crtcId' = crtcId /\ last' = last /\ pc' = pc
  BY DEF Commit, ctx
<1>2. call'.goal = call.goal
  BY DEF Commit, Inv, TypeOK, CallType
<1>3. MemoShown' /\ DecidedNow'
  BY <1>1, <1>2 DEF WidthInv, MemoShown, DecidedNow
<1>4. WidthOfSameMode'
  BY <1>1 DEF WidthInv, WidthOfSameMode, Narrowed
<1> QED
  BY <1>3, <1>4 DEF WidthInv

(* The choice of a CRTC leads to no sweep for a rectangle.                 *)
LEMMA FindPlaneKeepsWidth == Inv /\ WidthInv /\ FindPlane => WidthInv'
<1> SUFFICES ASSUME Inv, WidthInv, FindPlane PROVE WidthInv'
  OBVIOUS
<1>1. CASE Select
  <2>1. UNCHANGED <<memo, torn>> /\ call \in CallType /\ call.goal # "rect"
    BY <1>1 DEF Select, history, Inv, TypeOK, WidthShape
  <2>2. ~Narrowed' /\ pc' # "width" /\ call'.goal = call.goal
    <3>1. CASE AfterSelect(call.i) /\ call.op = "refresh"
      <4>1. Goto("refresh", [call EXCEPT !.i = 0, !.crtc = call.i])
        BY <3>1 DEF AfterSelect
      <4> QED
        BY <2>1, <4>1 DEF CallType, Goto, Nothing, Narrowed
    <3>2. CASE AfterSelect(call.i) /\ call.op # "refresh"
      <4>1. SweepFor(call.i, call)
        BY <3>2 DEF AfterSelect
      <4> QED
        BY <2>1, <4>1 DEF SweepFor, CallType, Goto, Nothing, Narrowed
    <3>3. CASE Goto("select", [call EXCEPT !.i = @ + 1])
      BY <2>1, <3>3, GotoQuiet DEF CallType
    <3> QED
      BY <1>1, <3>1, <3>2, <3>3 DEF Select
  <2> QED
    BY <2>1, <2>2, QuietKeepsWidth
<1>2. CASE NoCrtc
  <2>1. PICK e \in {"ENODEV", "ENOENT", "ENODATA", "EIO"} : Fail(e)
    BY <1>2 DEF NoCrtc
  <2> QED
    BY <1>2, <2>1, FailQuiet, QuietKeepsWidth DEF NoCrtc, ctx, history
<1>3. CASE SweepPlane
  BY <1>3, SweepPlaneKeepsWidth
<1> QED
  BY <1>1, <1>2, <1>3 DEF FindPlane

LEMMA GrabKeepsWidth == Inv /\ WidthInv /\ Grab => WidthInv'
<1> SUFFICES ASSUME Inv, WidthInv, Grab PROVE WidthInv'
  OBVIOUS
<1>1. CASE BeginGrab
  <2>1. [NoCall EXCEPT !.op = "grab"] \in CallType
    BY Sizes DEF NoCall, CallType, Ops
  <2>2. ~Narrowed' /\ pc' \in {"select", "sweep"} /\ call'.goal = "grab"
    BY <1>1, <2>1, SweepQuiet DEF BeginGrab
  <2> QED
    BY <1>1, <2>2, QuietKeepsWidth DEF BeginGrab, ctx, history
<1>2. CASE GrabFailed
  BY <1>2, FailQuiet, QuietKeepsWidth DEF GrabFailed, ctx, history
<1> QED
  BY <1>1, <1>2, ReadPlaneKeepsWidth, WidthAsIsKeepsWidth, WidthRememberedKeepsWidth,
     WidthLookedUpKeepsWidth, DecideUnreadKeepsWidth, DecideByRectKeepsWidth DEF Grab

(* No question reports a width, and none begins the sweep for one.         *)
LEMMA AskKeepsWidth == Inv /\ WidthInv /\ Ask => WidthInv'
<1> SUFFICES ASSUME Inv, WidthInv, Ask PROVE WidthInv'
  OBVIOUS
<1>1. UNCHANGED <<memo, torn>>
  BY DEF Ask, BeginRefresh, Refresh, BeginRotation, RotationNoPlane, RotationPlane,
         RotateKnown, RotateLookedUp, RotateUnreadable, ctx, history
<1>2. CASE BeginRefresh \/ BeginRotation
  <2>1. [NoCall EXCEPT !.op = "rotation"] \in CallType
    BY Sizes DEF NoCall, CallType, Ops
  <2>2. ~Narrowed' /\ pc' # "width" /\ (pc' = "sweep" => call'.goal = "rotation")
    BY <1>2, <2>1, GotoQuiet, SweepQuiet DEF BeginRefresh, BeginRotation
  <2> QED
    BY <1>1, <2>2, QuietKeepsWidth
<1>3. CASE RotationPlane
  BY <1>1, <1>3, GotoQuiet, QuietKeepsWidth DEF RotationPlane
<1>4. CASE RotationNoPlane \/ RotateUnreadable
  <2>1. PICK e \in {"ENODEV", "ENOENT", "ENODATA", "EIO"} : Fail(e)
    BY <1>4 DEF RotationNoPlane, RotateUnreadable
  <2> QED
    BY <1>1, <2>1, FailQuiet, QuietKeepsWidth
<1>5. CASE Refresh \/ RotateKnown \/ RotateLookedUp
  <2>1. pc' = "idle"
    BY <1>5 DEF Refresh, RotateKnown, RotateLookedUp, Fail, Return
  <2>2. ~Narrowed'
    BY <1>5, FailQuiet
       DEF Refresh, RotateKnown, RotateLookedUp, Return, Rotation, RotationAbsent, Nothing,
           Narrowed
  <2> QED
    BY <1>1, <2>1, <2>2, QuietKeepsWidth
<1> QED
  BY <1>2, <1>3, <1>4, <1>5 DEF Ask

LEMMA NextWidth == Inv /\ WidthInv /\ [Next]_vars => WidthInv'
<1> SUFFICES ASSUME Inv, WidthInv, [Next]_vars PROVE WidthInv'
  OBVIOUS
<1>1. CASE UNCHANGED vars
  BY <1>1 DEF vars, ctx, history, WidthInv, MemoShown, DecidedNow, WidthOfSameMode, Narrowed
<1> QED
  BY <1>1, FindPlaneKeepsWidth, GrabKeepsWidth, AskKeepsWidth, CommitKeepsWidth DEF Next

-----------------------------------------------------------------------------
(* The theorems.                                                           *)

LEMMA SpecInv == Spec => []Inv
<1>1. Init => Inv
  BY InitInv
<1>2. Inv /\ [Next]_vars => Inv'
  BY NextInv
<1> QED
  BY <1>1, <1>2, PTL DEF Spec

(* The memories of a context keep their types, and no grab reports a width *)
(* of 0 or beyond its framebuffer.                                         *)
THEOREM TypeCorrect == Spec => []TypeOK
<1>1. Inv => TypeOK
  BY DEF Inv
<1> QED
  BY <1>1, SpecInv, PTL

(* All the grabs and refreshes of a context answer for one CRTC.           *)
THEOREM AnswersForOneCrtc == Spec => []OneCrtc
<1>1. Inv => OneCrtc
  BY DEF Inv, CrtcShape, OneCrtc
<1> QED
  BY <1>1, SpecInv, PTL

(* A sweep that could read everything settles for an overlay only when no  *)
(* primary plane was lit throughout.                                       *)
THEOREM SweepPrefersPrimary == Spec => []PrefersPrimary
<1>1. Inv => PrefersPrimary
  BY DEF Inv
<1> QED
  BY <1>1, SpecInv, PTL

(* A tiled framebuffer is never reported narrower than it is.              *)
THEOREM TiledNeverNarrowed == Spec => []TiledKeepsWidth
<1>1. Inv => TiledKeepsWidth
  BY DEF Inv
<1> QED
  BY <1>1, SpecInv, PTL

(* A narrowed width that a grab reports is right in some KMS state of the  *)
(* mode it was decided for, also when it comes from the memo of an earlier *)
(* grab, unless a commit or another plane came between the readings.       *)
THEOREM WidthOfItsMode == Spec => []WidthOfSameMode
<1>1. Init => Inv /\ WidthInv
  BY InitInv, InitWidth
<1>2. (Inv /\ WidthInv) /\ [Next]_vars => (Inv /\ WidthInv)'
  BY NextInv, NextWidth
<1>3. WidthInv => WidthOfSameMode
  BY DEF WidthInv
<1> QED
  BY <1>1, <1>2, <1>3, PTL DEF Spec

(* Only the three ends of drmtap_plane_rotation answer a question about    *)
(* the rotation with anything but an error.                                *)
LEMMA OthersDoNotAnswer ==
  ASSUME FindPlane \/ Grab \/ BeginRefresh \/ Refresh \/ BeginRotation \/ RotationNoPlane
         \/ RotationPlane \/ RotateUnreadable \/ Commit, last' # last
  PROVE  last'.op = "rotation" => last'.ret \notin {"ok", "ENOTSUP"}
<1>1. ASSUME NEW label, NEW locals, Goto(label, locals)
      PROVE  last'.op = "none"
  BY <1>1 DEF Goto, Nothing
<1>2. ASSUME NEW e \in {"ENODEV", "ENOENT", "ENODATA", "EIO"}, Fail(e)
      PROVE  last'.ret \notin {"ok", "ENOTSUP"}
  BY <1>2 DEF Fail, Return, Nothing
<1>3. CASE FindPlane
  BY <1>1, <1>2, <1>3 DEF FindPlane, Select, AfterSelect, SweepFor, NoCrtc, SweepPlane
<1>4. ASSUME NEW goal, NEW locals, Sweep(goal, locals)
      PROVE  last'.op = "none"
  BY <1>1, <1>4 DEF Sweep, SweepFor
<1>5. ASSUME NEW width, NEW hdisplay, Conclude(width, hdisplay)
      PROVE  last'.op = "rotation" => last'.ret \notin {"ok", "ENOTSUP"}
  BY <1>2, <1>5 DEF Conclude, Return
<1>6. CASE Grab
  BY <1>1, <1>2, <1>4, <1>5, <1>6
     DEF Grab, BeginGrab, ReadPlane, GrabFailed, WidthAsIs, WidthRemembered, WidthLookedUp,
         DecideUnread, DecideByRect, Decide
<1>7. CASE BeginRefresh \/ BeginRotation \/ RotationPlane
  BY <1>1, <1>4, <1>7 DEF BeginRefresh, BeginRotation, RotationPlane
<1>8. CASE Refresh
  BY <1>2, <1>8 DEF Refresh, Return, Nothing
<1>9. CASE RotationNoPlane \/ RotateUnreadable
  BY <1>2, <1>9 DEF RotationNoPlane, RotateUnreadable
<1>10. CASE Commit
  BY <1>10 DEF Commit
<1> QED
  BY <1>3, <1>6, <1>7, <1>8, <1>9, <1>10

(* drmtap_plane_rotation answers for the plane of the last grab, with what *)
(* the plane shows now, and denies a rotation only to planes without one.  *)
THEOREM RotationAnswersForFrame == Spec => RotationOfFrame
<1> DEFINE Right ==
      last' # last /\ last'.op = "rotation" =>
       /\ grabPlane # 0 /\ last'.ret \in {"ok", "ENOTSUP"} => last'.plane = grabPlane
       /\ last'.ret = "ENOTSUP" => last'.plane \notin Rotatable
       /\ last'.ret = "ok" => /\ last'.plane \in Rotatable
                              /\ last'.rot = kms.plane[last'.plane].rot
<1>1. Inv /\ [Next]_vars => [Right]_vars
  <2> SUFFICES ASSUME Inv, Next, last' # last PROVE Right
    BY DEF vars
  <2>1. CASE RotateKnown
    <3>1. \/ Known = "absent" /\ last' = RotationAbsent
          \/ Known = "found" /\ last' = Rotation
      BY <2>1 DEF RotateKnown, Return
    <3>2. grabPlane # 0 => call.plane = grabPlane
      BY <2>1 DEF RotateKnown, Inv, RotationShape
    <3>3. /\ Known = "absent" => call.plane \notin Rotatable
          /\ Known = "found" => call.plane \in Rotatable
      BY <2>1, RotateStep DEF RotateKnown
    <3>4. \/ call.plane \notin Rotatable /\ last' = RotationAbsent
          \/ call.plane \in Rotatable /\ last' = Rotation
      BY <3>1, <3>3
    <3> QED
      BY <3>2, <3>4 DEF Rotation, RotationAbsent, Nothing
  <2>2. CASE RotateLookedUp
    <3>1. \/ call.plane \notin Rotatable /\ last' = RotationAbsent
          \/ call.plane \in Rotatable /\ last' = Rotation
      BY <2>2 DEF RotateLookedUp, Return
    <3>2. grabPlane # 0 => call.plane = grabPlane
      BY <2>2 DEF RotateLookedUp, Inv, RotationShape
    <3> QED
      BY <3>1, <3>2 DEF Rotation, RotationAbsent, Nothing
  <2>3. CASE ~RotateKnown /\ ~RotateLookedUp
    BY <2>3, OthersDoNotAnswer DEF Next, Ask
  <2> QED
    BY <2>1, <2>2, <2>3
<1> QED
  BY <1>1, SpecInv, PTL DEF Spec, RotationOfFrame

=============================================================================
