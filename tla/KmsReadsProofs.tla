--------------------------- MODULE KmsReadsProofs ---------------------------
(***************************************************************************)
(* What KmsReads promises, for any number of planes of each type, CRTCs    *)
(* and framebuffers, and every machine.  HeldInv ties what is held to the  *)
(* place in the handler; GrabInv and CursorInv say what a sweep that saw   *)
(* each plane at a moment of its own knows of those that stayed bound.     *)
(***************************************************************************)
EXTENDS KmsReads, FiniteSetTheorems, TLAPS

(* Where a handler stands.                                                 *)
Labels == {"idle", "sweep", "plane", "props", "getfb2", "export", "dumb", "copy"}

(* The locals of a handler.                                                *)
CallType ==
  [who : {"helper", "library"}, kind : {"none", "grab", "cursor"},
   target : Crtcs \cup {None}, next : Nat \ {0}, found : Planes \cup {None},
   fb : Fbs \cup Shapes \cup {None}, at : 0 .. 1, x : 0 .. 1,
   prov : {"guessed", "measured"}]

(* The variables, and the locals of the handler, are typed.                *)
TypeOK ==
  /\ \A p \in Planes : kms[p] \in Bindings(p)
  /\ DOMAIN kms = Planes
  /\ pc \in Labels
  /\ call \in CallType
  /\ mishap \in BOOLEAN

(* What is held is what the place in the handler says.                     *)
HeldInv ==
  /\ pc \in {"idle", "sweep", "plane", "props", "getfb2"} => held = {}
  /\ pc \in {"export", "dumb"} => held = {"gem"}

(* No answer is left while a handler is at work, and only some handlers    *)
(* come to some places.                                                    *)
PlaceInv ==
  /\ pc # "idle" => last = Nothing
  /\ pc = "plane" => call.found \in Cursors
  /\ pc \in {"plane", "props", "copy"} => call.kind = "cursor"
  /\ pc = "dumb" => call.kind = "grab"

(* A steady plane is bound to the CRTC asked for.                          *)
SteadyInv == \A p \in steady : p \in Planes /\ OnTarget(kms[p], call.target)

(* The types of the planes are not probed yet, or were without a loss.     *)
ProbeWhole == primary \in {{}, {Primaries}}

(* A grab's sweep has passed over no steady primary plane, and what was    *)
(* chosen at its end is one if there is one.                               *)
GrabInv ==
  call.kind = "grab" /\ ~mishap =>
    /\ pc = "sweep" /\ ProbeWhole => \A p \in Primaries : p < call.next => p \notin steady
    /\ pc \in {"getfb2", "export", "dumb"} /\ primary = {Primaries} =>
         call.found \in Primaries \/ Primaries \cap steady = {}

(* So has the library's sweep for the cursor.                              *)
CursorInv ==
  pc = "sweep" /\ call.kind = "cursor" /\ call.who = "library" /\ ~mishap =>
    \A p \in Cursors : p < call.next => p \notin steady

(* The inductive invariant.                                                *)
Inv == /\ TypeOK /\ HeldInv /\ PlaceInv /\ SteadyInv /\ GrabInv /\ CursorInv
       /\ HandlesBalanced /\ PrimaryWins /\ VisibleStaysVisible

(* The planes are numbered from 1.                                         *)
LEMMA Numbered == /\ Planes \subseteq Nat \ {0}
                  /\ \A n \in Nat \ {0} : n \notin Planes => \A p \in Planes : p < n
                  /\ Primaries \subseteq Planes /\ Cursors \subseteq Planes
<1>1. Primaries \subseteq Planes /\ Cursors \subseteq Planes
  BY DEF Planes
<1>2. PICK n \in Nat : Planes = 1 .. n
  BY KmsAssumption, FS_CardinalityType
<1> HIDE DEF Planes
<1> QED
  BY <1>1, <1>2

(* A plane that is bound shows something.                                  *)
LEMMA BoundShows ==
  ASSUME TypeOK, NEW p \in Planes
  PROVE  /\ kms[p].crtc \in Crtcs \cup {None}
         /\ kms[p].fb \in Fbs \cup Shapes \cup {None}
         /\ kms[p].crtc = None <=> kms[p].fb = None
BY KmsAssumption DEF TypeOK, Bindings, Unbound

(* What an outcome tells of its call.                                      *)
LEMMA OutcomeShape ==
  ASSUME NEW ret, NEW s, s = Outcome(ret)
  PROVE  s.kind = call.kind /\ s.who = call.who /\ s.ret = ret
BY DEF Outcome, Nothing

(* A sample, and one without the provenance.                               *)
LEMMA SampleShape ==
  ASSUME NEW visible, NEW image, NEW s,
         s = Sample(visible, image) \/ s = [Sample(visible, image) EXCEPT !.prov = "none"]
  PROVE  /\ s.kind = call.kind /\ s.who = call.who /\ s.ret = "ok"
         /\ s.visible = visible /\ s.plane = call.found
BY ZenonT(60) DEF Sample, Outcome, Nothing

(* Between calls the locals are typed too.                                 *)
LEMMA IdleTyped == /\ Idle \in CallType
                   /\ Idle.kind = "none" /\ Idle.target = None /\ Idle.next = 1
BY DEF Idle, CallType

(* A handler that has answered holds nothing, and its answer is right.     *)
LEMMA DoneInv ==
  ASSUME Inv, NEW s, NEW released, Done(s, released), held \ released = {},
         UNCHANGED <<kms, steady>>, mishap' \in BOOLEAN,
         s.kind = "grab" /\ s.ret = "ok" /\ ~mishap' /\ primary' = {Primaries} =>
           s.plane \in Primaries \/ Primaries \cap steady = {},
         s.kind = "cursor" /\ s.who = "library" /\ s.ret = "ok" /\ ~mishap' /\ ~s.visible =>
           Cursors \cap steady = {} \/ s.plane \in Cursors \ steady
  PROVE  Inv'
<1>1. pc' = "idle" /\ call' = Idle /\ held' = {} /\ last' = s
  BY DEF Done, Goto
<1>2. TypeOK'
  BY <1>1, IdleTyped DEF Inv, TypeOK, Labels
<1>3. SteadyInv'
  BY <1>1, IdleTyped DEF Inv, SteadyInv, OnTarget
<1>4. HeldInv' /\ PlaceInv' /\ HandlesBalanced'
  BY <1>1 DEF HeldInv, PlaceInv, HandlesBalanced
<1>5. GrabInv' /\ CursorInv'
  BY <1>1, IdleTyped DEF GrabInv, CursorInv
<1>6. PrimaryWins' /\ VisibleStaysVisible'
  BY <1>1 DEF PrimaryWins, VisibleStaysVisible
<1> QED
  BY <1>2, <1>3, <1>4, <1>5, <1>6 DEF Inv

(* So may one that failed.                                                 *)
LEMMA ErrorInv ==
  ASSUME Inv, NEW ret, NEW released, Done(Outcome(ret), released), ret # "ok",
         held \ released = {}, UNCHANGED <<kms, steady>>, mishap' \in BOOLEAN
  PROVE  Inv'
<1> DEFINE s == Outcome(ret)
<1>1. s.ret # "ok"
  BY OutcomeShape
<1> HIDE DEF s
<1>2. Done(s, released)
  BY DEF s
<1> QED
  BY <1>1, <1>2, DoneInv

(* A cursor handler may always answer with a sample that is visible, and a *)
(* hidden one is the library's only if nothing was there to be seen.       *)
LEMMA SampleInv ==
  ASSUME Inv, NEW s, NEW visible, NEW image,
         s = Sample(visible, image) \/ s = [Sample(visible, image) EXCEPT !.prov = "none"],
         NEW released, Done(s, released), held \ released = {}, call.kind = "cursor",
         UNCHANGED <<kms, steady>>, mishap' \in BOOLEAN,
         call.who = "library" /\ ~mishap' /\ ~visible =>
           Cursors \cap steady = {} \/ call.found \in Cursors \ steady
  PROVE  Inv'
<1>1. /\ s.kind = "cursor" /\ s.who = call.who
      /\ s.visible = visible /\ s.plane = call.found
  BY SampleShape
<1> QED
  BY <1>1, DoneInv

(* What leaves the helper has no such condition: PrimaryWins and           *)
(* VisibleStaysVisible say nothing of its cursor samples.                  *)
LEMMA SentInv ==
  ASSUME Inv, NEW visible, NEW image, NEW released, Sent(Sample(visible, image), released),
         held \ released = {}, call.kind = "cursor", call.who = "helper",
         UNCHANGED <<kms, steady>>, mishap' \in BOOLEAN
  PROVE  Inv'
<1> DEFINE s == Sample(visible, image)
           t == [s EXCEPT !.prov = "none"]
<1>1. Done(s, released) \/ Done(t, released)
  BY DEF Sent
<1> HIDE DEF t
<1>2. CASE Done(t, released)
  BY <1>2, SampleInv DEF t
<1> HIDE DEF s
<1>3. CASE Done(s, released)
  BY <1>3, SampleInv DEF s
<1> QED
  BY <1>1, <1>2, <1>3

(* A handler that goes on has answered nothing, and looks for the same     *)
(* CRTC.                                                                   *)
LEMMA GoOnInv ==
  ASSUME Inv, NEW label \in Labels \ {"idle"}, NEW locals \in CallType, Goto(label, locals),
         pc # "idle", locals.target = call.target, UNCHANGED <<kms, steady, last>>,
         mishap' \in BOOLEAN, HeldInv', GrabInv', CursorInv',
         label = "plane" => locals.found \in Cursors,
         label \in {"plane", "props", "copy"} => locals.kind = "cursor",
         label = "dumb" => locals.kind = "grab"
  PROVE  Inv'
<1>1. pc' = label /\ call' = locals
  BY DEF Goto
<1>2. last' = Nothing
  BY DEF Inv, PlaceInv
<1>3. TypeOK'
  BY <1>1 DEF Inv, TypeOK
<1>4. SteadyInv'
  BY <1>1 DEF Inv, SteadyInv
<1>5. PlaceInv' /\ HandlesBalanced'
  BY <1>1, <1>2 DEF PlaceInv, HandlesBalanced
<1>6. PrimaryWins' /\ VisibleStaysVisible'
  BY <1>2 DEF PrimaryWins, VisibleStaysVisible, Nothing
<1> QED
  BY <1>3, <1>4, <1>5, <1>6 DEF Inv

-----------------------------------------------------------------------------
(* What a compositor commits leaves fewer planes steady.                   *)
LEMMA CommitInv ==
  ASSUME Inv, NEW p \in Planes, Commit(p)
  PROVE  Inv'
<1>1. steady' \subseteq steady /\ UNCHANGED <<primary, pc, call, held, last, mishap>>
  BY DEF Commit
<1>2. TypeOK'
  BY DEF Commit, Inv, TypeOK
<1>3. SteadyInv'
  BY DEF Commit, Inv, SteadyInv
<1>4. HeldInv' /\ PlaceInv' /\ HandlesBalanced'
  BY <1>1 DEF Inv, HeldInv, PlaceInv, HandlesBalanced
<1>5. GrabInv' /\ CursorInv'
  BY <1>1 DEF Inv, GrabInv, ProbeWhole, CursorInv
<1>6. PrimaryWins' /\ VisibleStaysVisible'
  BY <1>1 DEF Inv, PrimaryWins, VisibleStaysVisible
<1> QED
  BY <1>2, <1>3, <1>4, <1>5, <1>6 DEF Inv

(* A handler begins with the planes bound as it wants them, at the first.  *)
LEMMA BeginInv ==
  ASSUME Inv, NEW who \in {"helper", "library"}, NEW kind \in {"grab", "cursor"},
         NEW target \in Crtcs \cup {None}, Begin(who, kind, target)
  PROVE  Inv'
<1>1. /\ pc' = "sweep" /\ held' = {} /\ last' = Nothing /\ mishap' = FALSE
      /\ UNCHANGED kms
      /\ steady' = {p \in Planes : OnTarget(kms[p], target)}
  BY DEF Begin, Goto, Inv, HandlesBalanced
<1>2. call' \in CallType /\ call'.target = target /\ call'.next = 1
  BY IdleTyped DEF Begin, Goto, CallType
<1>3. TypeOK'
  BY <1>1, <1>2 DEF Inv, TypeOK, Labels
<1>4. HeldInv' /\ PlaceInv' /\ SteadyInv' /\ HandlesBalanced'
  BY <1>1, <1>2 DEF HeldInv, PlaceInv, SteadyInv, HandlesBalanced
<1>5. GrabInv' /\ CursorInv'
  BY <1>1, <1>2, Numbered DEF GrabInv, CursorInv
<1>6. PrimaryWins' /\ VisibleStaysVisible'
  BY <1>1 DEF PrimaryWins, VisibleStaysVisible, Nothing
<1> QED
  BY <1>3, <1>4, <1>5, <1>6 DEF Inv

-----------------------------------------------------------------------------
(* A sweep goes on to the next plane.                                      *)
LEMMA NextTyped ==
  ASSUME TypeOK, call.next \in Planes
  PROVE  /\ [call EXCEPT !.next = @ + 1] \in CallType
         /\ [call EXCEPT !.next = @ + 1, !.found = call.next, !.fb = kms[call.next].fb] \in CallType
<1>1. /\ call \in CallType /\ call.next \in Nat \ {0}
      /\ kms[call.next].fb \in Fbs \cup Shapes \cup {None}
  BY BoundShows DEF TypeOK, CallType
<1>2. call.next + 1 \in Nat \ {0}
  BY <1>1
<1> QED
  BY <1>1, <1>2 DEF CallType

(* The plane a sweep goes by was not steady, or there was a mishap.        *)
LEMMA GrabSweepInv == ASSUME Inv, GrabSweep PROVE Inv'
<1> DEFINE p == call.next
           wanted == OnTarget(kms[p], call.target)
           on == [call EXCEPT !.next = @ + 1]
           taken == [call EXCEPT !.next = @ + 1, !.found = call.next, !.fb = kms[call.next].fb]
<1>1. /\ pc = "sweep" /\ call.kind = "grab" /\ p \in Planes /\ call \in CallType
      /\ UNCHANGED <<kms, steady, held, last>>
  BY DEF GrabSweep, PassOver, Quiet, Unlucky, Inv, TypeOK
<1>2. on \in CallType /\ taken \in CallType
  BY <1>1, NextTyped DEF Inv
<1>3. /\ on.kind = "grab" /\ on.target = call.target /\ on.next = p + 1
      /\ taken.kind = "grab" /\ taken.target = call.target /\ taken.next = p + 1
      /\ taken.found = p
  BY <1>1 DEF CallType
<1>4. HeldInv'
  <2>1. held' = {} /\ pc' \in {"sweep", "getfb2"}
    BY <1>1 DEF GrabSweep, PassOver, TakePlane, Goto, Inv, HeldInv
  <2> QED
    BY <2>1 DEF HeldInv
<1>5. mishap' \in BOOLEAN /\ (mishap => mishap')
  <2>1. mishap \in BOOLEAN
    BY DEF Inv, TypeOK
  <2>2. ASSUME NEW known, Probed(known) PROVE mishap' \in BOOLEAN /\ (mishap => mishap')
    BY <2>1, <2>2, Zenon DEF Probed
  <2>3. ASSUME PassOver(wanted) PROVE mishap' \in BOOLEAN /\ (mishap => mishap')
    <3>1. mishap' = mishap \/ mishap' = TRUE
      BY <2>3 DEF PassOver, Quiet, Unlucky
    <3> QED
      BY <2>1, <3>1, Zenon
  <2> QED
    BY <2>2, <2>3 DEF GrabSweep
<1>6. p \in steady => wanted
  BY DEF Inv, SteadyInv
<1>7. ASSUME NEW known \in SUBSET Primaries, Probed(known), wanted,
             IF Preferred(known, p) THEN TakePlane(IF p \in known THEN "getfb2" ELSE "sweep")
                                    ELSE Goto("sweep", on)
      PROVE  Inv'
  <2>1. ~mishap' /\ ProbeWhole' => known = Primaries /\ ProbeWhole /\ ~mishap
    BY <1>7 DEF Probed, ProbeWhole, Inv, TypeOK
  <2>2. CASE p \in known
    <3>1. Goto("getfb2", taken)
      BY <1>7, <2>2 DEF Preferred, TakePlane
    <3>2. GrabInv' /\ CursorInv'
      BY <1>3, <1>7, <2>2, <3>1 DEF Goto, GrabInv, CursorInv
    <3> HIDE DEF taken
    <3> QED
      BY <1>1, <1>2, <1>3, <1>4, <1>5, <3>1, <3>2, GoOnInv DEF Labels
  <2>3. CASE p \notin known
    <3>1. Goto("sweep", taken) \/ Goto("sweep", on)
      BY <1>7, <2>3 DEF TakePlane
    <3>2. pc' = "sweep" /\ call'.kind = "grab" /\ call'.next = p + 1
      BY <1>3, <3>1 DEF Goto
    <3>3. ASSUME ~mishap', ProbeWhole', NEW q \in Primaries, q < p + 1 PROVE q \notin steady
      <4>1. q # p /\ ~mishap /\ ProbeWhole
        BY <2>1, <2>3, <3>3
      <4>2. q < p
        <5>1. p \in Nat /\ q \in Nat
          BY <1>1, <3>3, Numbered
        <5> HIDE DEF p
        <5> QED
          BY <3>3, <4>1, <5>1
      <4> QED
        BY <1>1, <4>1, <4>2 DEF Inv, GrabInv
    <3>4. GrabInv' /\ CursorInv'
      BY <1>1, <3>2, <3>3 DEF GrabInv, CursorInv
    <3> HIDE DEF taken, on
    <3> QED
      BY <1>1, <1>2, <1>3, <1>4, <1>5, <3>1, <3>4, GoOnInv DEF Labels
  <2> QED
    BY <2>2, <2>3
<1>8. ASSUME PassOver(wanted), UNCHANGED primary PROVE Inv'
  <2>1. Goto("sweep", on) /\ (mishap' \/ ~wanted)
    BY <1>8 DEF PassOver, Unlucky
  <2>2. pc' = "sweep" /\ call'.kind = "grab" /\ call'.next = p + 1
    BY <1>3, <2>1 DEF Goto
  <2>3. ASSUME ~mishap', ProbeWhole', NEW q \in Primaries, q < p + 1 PROVE q \notin steady
    BY <1>1, <1>5, <1>6, <1>8, <2>1, <2>3, Numbered DEF Inv, GrabInv, ProbeWhole
  <2>4. GrabInv' /\ CursorInv'
    BY <1>1, <2>2, <2>3 DEF GrabInv, CursorInv
  <2> HIDE DEF on
  <2> QED
    BY <1>1, <1>2, <1>3, <1>4, <1>5, <2>1, <2>4, GoOnInv DEF Labels
<1> QED
  BY <1>7, <1>8 DEF GrabSweep

(* Nothing is left of the planes: those found wanting were not steady.     *)
LEMMA GrabSweptInv == ASSUME Inv, GrabSwept PROVE Inv'
<1>1. /\ pc = "sweep" /\ call.kind = "grab" /\ call.next \notin Planes /\ call \in CallType
      /\ UNCHANGED <<kms, steady, mishap>> /\ mishap \in BOOLEAN /\ held = {}
  BY DEF GrabSwept, Quiet, Inv, TypeOK, HeldInv
<1>2. CASE Goto("getfb2", call) /\ UNCHANGED <<held, last, primary>>
  <2>1. call.next \in Nat \ {0}
    BY <1>1 DEF CallType
  <2>2. GrabInv' /\ CursorInv' /\ HeldInv'
    BY <1>1, <1>2, <2>1, Numbered DEF Goto, Inv, GrabInv, ProbeWhole, CursorInv, HeldInv
  <2> QED
    BY <1>1, <1>2, <2>2, GoOnInv DEF Labels
<1>3. CASE GrabError({})
  BY <1>1, <1>3, ErrorInv DEF GrabError
<1> QED
  BY <1>2, <1>3 DEF GrabSwept

(* There was no memory to list the planes: the grab fails.                 *)
LEMMA GrabNoPlanesInv == ASSUME Inv, GrabNoPlanes PROVE Inv'
<1>1. GrabError({}) /\ held = {} /\ mishap' \in BOOLEAN /\ UNCHANGED <<kms, steady>>
  BY DEF GrabNoPlanes, Unlucky, Inv, HeldInv
<1> QED
  BY <1>1, ErrorInv DEF GrabError

(* From GetFB2 on the plane stays the one chosen.                          *)
LEMMA GrabGoesOn ==
  ASSUME Inv, pc \in {"getfb2", "export"}, call.kind = "grab",
         NEW label \in {"export", "dumb"}, Goto(label, call), held' = {"gem"},
         UNCHANGED <<kms, primary, steady, last, mishap>>
  PROVE  Inv'
<1>1. call \in CallType /\ mishap \in BOOLEAN
  BY DEF Inv, TypeOK
<1>2. GrabInv' /\ CursorInv' /\ HeldInv'
  BY DEF Goto, Inv, GrabInv, CursorInv, HeldInv
<1> QED
  BY <1>1, <1>2, GoOnInv DEF Labels

(* A grab is answered with the plane it chose.                             *)
LEMMA GrabReplyInv ==
  ASSUME Inv, pc \in {"export", "dumb"}, call.kind = "grab", NEW parts, GrabReply(parts),
         UNCHANGED <<kms, steady, mishap>>
  PROVE  Inv'
<1>1. PICK bright \in 0 .. 1 :
        Done([Outcome("ok") EXCEPT !.parts = parts, !.plane = call.found, !.fb = call.fb,
                                   !.bright = bright, !.hdr = HdrRead(bright)], {"gem"})
  BY DEF GrabReply
<1> DEFINE s == [Outcome("ok") EXCEPT !.parts = parts, !.plane = call.found, !.fb = call.fb,
                                      !.bright = bright, !.hdr = HdrRead(bright)]
<1>2. s.kind = "grab" /\ s.plane = call.found
  BY DEF Outcome, Nothing
<1>3. held = {"gem"} /\ mishap \in BOOLEAN
  BY DEF Inv, HeldInv, TypeOK
<1>4. ~mishap /\ primary = {Primaries} => call.found \in Primaries \/ Primaries \cap steady = {}
  BY DEF Inv, GrabInv
<1>5. UNCHANGED primary
  BY DEF GrabReply
<1> HIDE DEF s
<1>6. Done(s, {"gem"})
  BY <1>1 DEF s
<1> QED
  BY <1>2, <1>3, <1>4, <1>5, <1>6, DoneInv

(* GetFB2 gives a handle, or the grab fails with none.                     *)
LEMMA GrabGetFb2Inv == ASSUME Inv, GrabGetFb2 PROVE Inv'
<1>1. /\ pc = "getfb2" /\ call.kind = "grab" /\ held = {} /\ mishap \in BOOLEAN
      /\ UNCHANGED <<kms, steady, mishap>>
  BY DEF GrabGetFb2, Quiet, Inv, HeldInv, TypeOK
<1>2. CASE GrabError({})
  BY <1>1, <1>2, ErrorInv DEF GrabError
<1>3. CASE held' = held \cup {"gem"} /\ Goto("export", call) /\ UNCHANGED <<primary, last>>
  BY <1>1, <1>3, GrabGoesOn
<1> QED
  BY <1>2, <1>3 DEF GrabGetFb2

(* The handle goes back with a descriptor sent, or is kept for the copy.   *)
LEMMA GrabExportInv == ASSUME Inv, GrabExport PROVE Inv'
<1>1. /\ pc = "export" /\ call.kind = "grab" /\ held = {"gem"} /\ mishap \in BOOLEAN
      /\ UNCHANGED <<kms, steady, mishap>>
  BY DEF GrabExport, Quiet, Inv, HeldInv, TypeOK
<1>2. CASE GrabReply("dmabuf")
  BY <1>1, <1>2, GrabReplyInv
<1>3. CASE GrabError({"gem"})
  BY <1>1, <1>3, ErrorInv DEF GrabError
<1>4. CASE Goto("dumb", call) /\ UNCHANGED <<held, last, primary>>
  BY <1>1, <1>4, GrabGoesOn
<1> QED
  BY <1>2, <1>3, <1>4 DEF GrabExport

(* The handle goes back with the pixels sent or not.                       *)
LEMMA GrabDumbInv == ASSUME Inv, GrabDumb PROVE Inv'
<1>1. /\ pc = "dumb" /\ call.kind = "grab" /\ held = {"gem"} /\ mishap \in BOOLEAN
      /\ UNCHANGED <<kms, steady, mishap>>
  BY DEF GrabDumb, Quiet, Inv, HeldInv, TypeOK, PlaceInv
<1>2. CASE GrabReply("pixels")
  BY <1>1, <1>2, GrabReplyInv
<1>3. CASE GrabError({"gem"})
  BY <1>1, <1>3, ErrorInv DEF GrabError
<1> QED
  BY <1>2, <1>3 DEF GrabDumb

-----------------------------------------------------------------------------
(* The same of the cursor's sweep.                                         *)
LEMMA CursorSweepInv == ASSUME Inv, CursorSweep PROVE Inv'
<1> DEFINE p == call.next
           wanted == p \in Cursors /\ OnTarget(kms[p], call.target)
           on == [call EXCEPT !.next = @ + 1]
           taken == [call EXCEPT !.next = @ + 1, !.found = call.next, !.fb = kms[call.next].fb]
<1>1. /\ pc = "sweep" /\ call.kind = "cursor" /\ p \in Planes /\ call \in CallType
      /\ held = {} /\ UNCHANGED <<kms, steady, held, last>>
      /\ mishap' \in BOOLEAN /\ (mishap => mishap')
  <2>1. mishap \in BOOLEAN
    BY DEF Inv, TypeOK
  <2>2. mishap' \in BOOLEAN /\ (mishap => mishap')
    <3>1. mishap' = mishap \/ mishap' = TRUE
      BY DEF CursorSweep, PassOver, Quiet, Unlucky
    <3> QED
      BY <2>1, <3>1, Zenon
  <2> QED
    BY <2>2 DEF CursorSweep, PassOver, Quiet, Unlucky, Inv, TypeOK, HeldInv
<1>2. on \in CallType /\ taken \in CallType
  BY <1>1, NextTyped DEF Inv
<1>3. /\ on.kind = "cursor" /\ on.target = call.target /\ on.next = p + 1 /\ on.who = call.who
      /\ taken.kind = "cursor" /\ taken.target = call.target /\ taken.found = p
  BY <1>1 DEF CallType
<1>4. ASSUME wanted, TakePlane(IF IsHelper THEN "props" ELSE "plane") PROVE Inv'
  <2>1. PICK label \in {"props", "plane"} : Goto(label, taken)
    BY <1>4 DEF TakePlane
  <2>2. GrabInv' /\ CursorInv' /\ HeldInv'
    BY <1>1, <1>3, <2>1 DEF Goto, GrabInv, CursorInv, HeldInv
  <2> HIDE DEF taken
  <2> QED
    BY <1>1, <1>2, <1>3, <1>4, <2>1, <2>2, GoOnInv DEF Labels
<1>5. ASSUME PassOver(wanted) PROVE Inv'
  <2>1. Goto("sweep", on) /\ (mishap' \/ ~wanted)
    BY <1>5 DEF PassOver, Unlucky
  <2>2. pc' = "sweep" /\ call'.kind = "cursor" /\ call'.next = p + 1 /\ call'.who = call.who
    BY <1>3, <2>1 DEF Goto
  <2>3. ASSUME ~mishap', call.who = "library", NEW q \in Cursors, q < p + 1
        PROVE  q \notin steady
    BY <1>1, <2>1, <2>3, Numbered DEF Inv, CursorInv, SteadyInv
  <2>4. GrabInv' /\ CursorInv' /\ HeldInv'
    BY <1>1, <2>2, <2>3 DEF GrabInv, CursorInv, HeldInv
  <2> HIDE DEF on
  <2> QED
    BY <1>1, <1>2, <1>3, <2>1, <2>4, GoOnInv DEF Labels
<1> QED
  BY <1>4, <1>5 DEF CursorSweep

(* None was found: the cursor is hidden.                                   *)
LEMMA CursorSweptInv == ASSUME Inv, CursorSwept PROVE Inv'
<1>1. /\ pc = "sweep" /\ call.kind = "cursor" /\ held = {} /\ call \in CallType
      /\ mishap' \in BOOLEAN /\ UNCHANGED <<kms, steady>>
  BY DEF CursorSwept, Quiet, Unlucky, Inv, HeldInv, TypeOK
<1>2. call.who = "library" /\ ~mishap' => Cursors \cap steady = {}
  <2>1. call.next \in Nat \ {0}
    BY <1>1 DEF CallType
  <2> QED
    <3>1. ~mishap' => call.next \notin Planes /\ ~mishap
      BY DEF CursorSwept, Quiet, Unlucky
    <3> QED
      BY <1>1, <2>1, <3>1, Numbered DEF Inv, CursorInv
<1>3. CASE call.who = "helper"
  BY <1>1, <1>3, SentInv DEF CursorSwept, IsHelper, Hidden
<1>4. CASE call.who # "helper"
  BY <1>1, <1>2, <1>4, SampleInv DEF CursorSwept, IsHelper, Hidden
<1> QED
  BY <1>3, <1>4

(* The plane was taken off since it was found, or it shows something.      *)
LEMMA CursorPlaneInv == ASSUME Inv, CursorPlane PROVE Inv'
<1> DEFINE fb == kms[call.found].fb
           read == [call EXCEPT !.fb = fb]
<1>1. /\ pc = "plane" /\ call.kind = "cursor" /\ held = {} /\ call \in CallType
      /\ mishap' \in BOOLEAN /\ call.found \in Cursors /\ UNCHANGED <<kms, steady>>
  BY DEF CursorPlane, Quiet, Unlucky, Inv, HeldInv, TypeOK, PlaceInv
<1>2. call.found \in Planes /\ fb \in Fbs \cup Shapes \cup {None}
  BY <1>1, Numbered, BoundShows DEF Inv
<1>3. CASE Goto("props", read) /\ UNCHANGED <<held, last>>
  <2>1. read \in CallType /\ read.kind = "cursor" /\ read.target = call.target
    BY <1>1, <1>2 DEF CallType
  <2>2. GrabInv' /\ CursorInv' /\ HeldInv'
    BY <1>1, <1>3, <2>1 DEF Goto, GrabInv, CursorInv, HeldInv
  <2> HIDE DEF read
  <2> QED
    BY <1>1, <1>3, <2>1, <2>2, GoOnInv DEF Labels
<1>4. CASE fb = None /\ Done(Hidden, {})
  <2>1. call.found \notin steady
    BY <1>2, <1>4, BoundShows DEF Inv, SteadyInv, OnTarget
  <2> QED
    BY <1>1, <1>4, <2>1, SampleInv DEF Hidden
<1>5. CASE Done(Outcome("ENODEV"), {})
  BY <1>1, <1>5, ErrorInv
<1> QED
  BY <1>3, <1>4, <1>5 DEF CursorPlane

(* What is read of the properties moves no plane.                          *)
LEMMA CursorPropsInv == ASSUME Inv, CursorProps PROVE Inv'
<1>1. /\ pc = "props" /\ call.kind = "cursor" /\ held = {} /\ call \in CallType
      /\ mishap \in BOOLEAN /\ UNCHANGED <<kms, steady, mishap, held, last>>
  BY DEF CursorProps, Quiet, Inv, HeldInv, TypeOK, PlaceInv
<1>2. PICK at \in 0 .. 1 :
        Goto("getfb2", [call EXCEPT !.at = at, !.x = Read(at), !.prov = Provenance])
  BY DEF CursorProps
<1> DEFINE read == [call EXCEPT !.at = at, !.x = Read(at), !.prov = Provenance]
<1>3. Read(at) \in 0 .. 1 /\ Provenance \in {"guessed", "measured"}
  BY DEF Read, Provenance
<1>4. read \in CallType /\ read.kind = "cursor" /\ read.target = call.target
  BY <1>1, <1>3 DEF CallType
<1>5. GrabInv' /\ CursorInv' /\ HeldInv'
  BY <1>1, <1>2, <1>4 DEF Goto, GrabInv, CursorInv, HeldInv
<1> HIDE DEF read
<1>6. Goto("getfb2", read)
  BY <1>2 DEF read
<1> QED
  BY <1>1, <1>4, <1>5, <1>6, GoOnInv DEF Labels

(* The image: a handle is minted, the buffer mapped, the rows copied.      *)
LEMMA ImageGoesOn ==
  ASSUME Inv, pc # "idle", call.kind = "cursor", NEW label \in {"export", "copy"},
         Goto(label, call), label = "export" => held' = {"gem"},
         UNCHANGED <<kms, steady, last, mishap>>
  PROVE  Inv'
<1>1. call \in CallType /\ mishap \in BOOLEAN
  BY DEF Inv, TypeOK
<1>2. GrabInv' /\ CursorInv' /\ HeldInv'
  BY DEF Goto, GrabInv, CursorInv, HeldInv
<1> QED
  BY <1>1, <1>2, GoOnInv DEF Labels

(* The helper has the handle, or answers with none.                        *)
LEMMA HelperCursorFbInv == ASSUME Inv, HelperCursorFb PROVE Inv'
<1>1. /\ pc = "getfb2" /\ call.kind = "cursor" /\ call.who = "helper" /\ held = {}
      /\ mishap \in BOOLEAN /\ UNCHANGED <<kms, steady, mishap>>
  BY DEF HelperCursorFb, At, IsHelper, Quiet, Inv, HeldInv, TypeOK
<1>2. CASE MintCursor
  BY <1>1, <1>2, ImageGoesOn DEF MintCursor
<1>3. CASE Sent(Hidden, {})
  BY <1>1, <1>3, SentInv DEF Hidden
<1> QED
  BY <1>2, <1>3 DEF HelperCursorFb

(* The library has it, leaves the read to the helper, or keeps the shape.  *)
LEMMA LibraryCursorFbInv == ASSUME Inv, LibraryCursorFb PROVE Inv'
<1>1. /\ pc = "getfb2" /\ call.kind = "cursor" /\ held = {} /\ call \in CallType
      /\ mishap \in BOOLEAN /\ UNCHANGED <<kms, steady, mishap>>
  BY DEF LibraryCursorFb, At, Quiet, Inv, HeldInv, TypeOK
<1>2. CASE MintCursor
  BY <1>1, <1>2, ImageGoesOn DEF MintCursor
<1>3. CASE Delegated
  <2> DEFINE again == [Idle EXCEPT !.kind = "cursor", !.target = call.target]
  <2>1. /\ again \in CallType /\ again.kind = "cursor" /\ again.target = call.target
        /\ again.who = "helper"
    <3>1. call.target \in Crtcs \cup {None}
      BY <1>1 DEF CallType
    <3> QED
      BY <3>1, IdleTyped DEF Idle, CallType
  <2>2. Goto("sweep", again) /\ UNCHANGED <<held, last>>
    BY <1>3 DEF Delegated
  <2>3. GrabInv' /\ CursorInv' /\ HeldInv'
    BY <1>1, <2>1, <2>2 DEF Goto, GrabInv, CursorInv, HeldInv
  <2> HIDE DEF again
  <2> QED
    BY <1>1, <2>1, <2>2, <2>3, GoOnInv DEF Labels
<1>4. CASE Done(KeepShape, {})
  BY <1>1, <1>4, SampleInv DEF KeepShape
<1> QED
  BY <1>2, <1>3, <1>4 DEF LibraryCursorFb

(* A shape that is not mapped gives its handle back, in the helper,        *)
LEMMA HelperCursorMapInv == ASSUME Inv, HelperCursorMap PROVE Inv'
<1>1. /\ pc = "export" /\ call.kind = "cursor" /\ call.who = "helper" /\ held = {"gem"}
      /\ mishap \in BOOLEAN /\ UNCHANGED <<kms, steady, mishap>>
  BY DEF HelperCursorMap, At, IsHelper, Quiet, Inv, HeldInv, TypeOK
<1>2. CASE MapCursor
  BY <1>1, <1>2, ImageGoesOn DEF MapCursor
<1>3. CASE Sent(Hidden, RefusedReleases)
  BY <1>1, <1>3, SentInv DEF Hidden, RefusedReleases
<1> QED
  BY <1>2, <1>3 DEF HelperCursorMap

(* and in the library.                                                     *)
LEMMA LibraryCursorMapInv == ASSUME Inv, LibraryCursorMap PROVE Inv'
<1>1. /\ pc = "export" /\ call.kind = "cursor" /\ held = {"gem"}
      /\ mishap \in BOOLEAN /\ UNCHANGED <<kms, steady, mishap>>
  BY DEF LibraryCursorMap, At, Quiet, Inv, HeldInv, TypeOK
<1>2. CASE MapCursor
  BY <1>1, <1>2, ImageGoesOn DEF MapCursor
<1>3. CASE Done(KeepShape, {"gem"})
  BY <1>1, <1>3, SampleInv DEF KeepShape
<1> QED
  BY <1>2, <1>3 DEF LibraryCursorMap

(* All that was held is released with the image, in the helper,            *)
LEMMA HelperCursorCopyInv == ASSUME Inv, HelperCursorCopy PROVE Inv'
<1>1. /\ call.kind = "cursor" /\ call.who = "helper" /\ mishap \in BOOLEAN
      /\ UNCHANGED <<kms, steady, mishap>> /\ Sent(Sample(TRUE, TRUE), held)
  BY DEF HelperCursorCopy, At, IsHelper, Quiet, Inv, TypeOK
<1> QED
  BY <1>1, SentInv

(* and in the library, copied or not.                                      *)
LEMMA LibraryCursorCopyInv == ASSUME Inv, LibraryCursorCopy PROVE Inv'
<1>1. /\ call.kind = "cursor" /\ mishap' \in BOOLEAN /\ UNCHANGED <<kms, steady>>
      /\ Done(Sample(TRUE, TRUE), held) \/ Done(KeepShape, held)
  BY DEF LibraryCursorCopy, At, Quiet, Unlucky, Inv, TypeOK
<1>2. CASE Done(Sample(TRUE, TRUE), held)
  BY <1>1, <1>2, SampleInv
<1>3. CASE Done(KeepShape, held)
  BY <1>1, <1>3, SampleInv DEF KeepShape
<1> QED
  BY <1>1, <1>2, <1>3

-----------------------------------------------------------------------------
(* No plane is bound and no handler at work.                               *)
LEMMA InitInv == Init => Inv
<1> SUFFICES ASSUME Init PROVE Inv
  OBVIOUS
<1>1. /\ kms = [p \in Planes |-> Unbound] /\ pc = "idle" /\ call = Idle /\ held = {}
      /\ last = Nothing /\ steady = {} /\ mishap = FALSE
  BY DEF Init
<1>2. TypeOK
  BY <1>1, IdleTyped DEF TypeOK, Labels, Bindings
<1>3. HeldInv /\ PlaceInv /\ SteadyInv /\ HandlesBalanced
  BY <1>1 DEF HeldInv, PlaceInv, SteadyInv, HandlesBalanced
<1>4. GrabInv /\ CursorInv
  BY <1>1 DEF GrabInv, CursorInv
<1>5. PrimaryWins /\ VisibleStaysVisible
  BY <1>1 DEF PrimaryWins, VisibleStaysVisible, Nothing
<1> QED
  BY <1>2, <1>3, <1>4, <1>5 DEF Inv

(* Every step keeps the invariant.                                         *)
LEMMA NextInv == Inv /\ [Next]_vars => Inv'
<1> SUFFICES ASSUME Inv, [Next]_vars PROVE Inv'
  OBVIOUS
<1>1. ASSUME NEW p \in Planes, Commit(p) PROVE Inv'
  BY <1>1, CommitInv
<1>2. ASSUME NEW target \in Crtcs \cup {None},
             \/ Begin("helper", "grab", target)
             \/ Begin("helper", "cursor", target)
             \/ Begin("library", "cursor", target)
      PROVE  Inv'
  BY <1>2, BeginInv
<1>3. CASE \/ GrabSweep \/ GrabSwept \/ GrabNoPlanes
           \/ GrabGetFb2 \/ GrabExport \/ GrabDumb
  BY <1>3, GrabSweepInv, GrabSweptInv, GrabNoPlanesInv, GrabGetFb2Inv, GrabExportInv,
     GrabDumbInv
<1>4. CASE \/ CursorSweep \/ CursorSwept \/ CursorPlane \/ CursorProps
           \/ HelperCursorFb \/ HelperCursorMap \/ HelperCursorCopy
           \/ LibraryCursorFb \/ LibraryCursorMap \/ LibraryCursorCopy
  BY <1>4, CursorSweepInv, CursorSweptInv, CursorPlaneInv, CursorPropsInv,
     HelperCursorFbInv, HelperCursorMapInv, HelperCursorCopyInv, LibraryCursorFbInv,
     LibraryCursorMapInv, LibraryCursorCopyInv
<1>5. CASE UNCHANGED vars
  <2> USE <1>5 DEF vars
  <2>1. TypeOK' /\ HeldInv' /\ PlaceInv' /\ SteadyInv'
    BY DEF Inv, TypeOK, HeldInv, PlaceInv, SteadyInv
  <2>2. GrabInv' /\ CursorInv'
    BY DEF Inv, GrabInv, ProbeWhole, CursorInv
  <2>3. HandlesBalanced' /\ PrimaryWins' /\ VisibleStaysVisible'
    BY DEF Inv, HandlesBalanced, PrimaryWins, VisibleStaysVisible
  <2> QED
    BY <2>1, <2>2, <2>3 DEF Inv
<1> QED
  BY <1>1, <1>2, <1>3, <1>4, <1>5 DEF Next

-----------------------------------------------------------------------------
(* The invariant holds of every behaviour.                                 *)
THEOREM SpecInv == Spec => []Inv
BY InitInv, NextInv, PTL DEF Spec

(* GetFB2 mints a handle on every poll of the cursor and on every grab of  *)
(* the helper: whatever fails on the way, none is kept.                    *)
THEOREM NothingHeld == Spec => []HandlesBalanced
<1>1. Inv => HandlesBalanced
  BY DEF Inv
<1> QED
  BY <1>1, SpecInv, PTL

(* A grab through the helper shows the primary plane that stayed on the    *)
(* CRTC, however many planes there are and wherever the others move.       *)
THEOREM PrimaryShown == Spec => []PrimaryWins
<1>1. Inv => PrimaryWins
  BY DEF Inv
<1> QED
  BY <1>1, SpecInv, PTL

(* A cursor that stayed on screen is not read as hidden, however many      *)
(* cursor planes there are.                                                *)
THEOREM VisibleRead == Spec => []VisibleStaysVisible
<1>1. Inv => VisibleStaysVisible
  BY DEF Inv
<1> QED
  BY <1>1, SpecInv, PTL

=============================================================================
