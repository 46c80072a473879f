--------------------------- MODULE SlowGrabProofs ---------------------------
(***************************************************************************)
(* What SlowGrab promises, for any number of frames, framebuffers,         *)
(* handles, descriptors and records, and every machine and scanout.        *)
(***************************************************************************)
EXTENDS SlowGrab, TLAPS

(* The records someone will release: those of the frames the caller holds, *)
(* and that of the frame a grab in progress has filled.                    *)
Filled == pc \in {"map", "process", "give", "desc"}

Holders == IF Filled THEN given \cup {call.frame} ELSE given

Live == {p \in Privs : privs[p].live}

(* The locals of a grab: what it has acquired and not yet put in a record, *)
(* and of which framebuffer.                                               *)
CallInv ==
  /\ pc = "idle" => call = Idle
  /\ pc # "idle" => call.frame \notin given
  /\ call.gem # NoHandle => pc \in {"export", "adopt"}
  /\ call.fd # NoFd => pc = "adopt"
  /\ pc \notin {"idle", "plane"} => call.fb \in Fbs
  /\ pc = "export" => call.gem # NoHandle /\ bo[call.gem] = call.fb
  /\ pc = "adopt" => /\ call.fd = NoFd <=> call.source = "pixels"
                     /\ call.fd # NoFd => buf[call.fd] = call.fb
  /\ pc = "map" => Frame.fd # NoFd /\ ~Priv.sync
  /\ call.source = "dmabuf" /\ call.black => gpu.virgl

(* A frame that is held has a live record of its own, and a live record a  *)
(* frame; any other frame is zeroed.                                       *)
FrameInv ==
  /\ \A f \in Frames \ Holders : frames[f] = Zeroed
  /\ \A f \in Holders : frames[f].priv \in Live
  /\ \A f, g \in Holders : frames[f].priv = frames[g].priv => f = g
  /\ \A p \in Live : \E f \in Holders : frames[f].priv = p
  /\ \A f \in Holders : /\ frames[f].fd = privs[frames[f].priv].fd
                        /\ frames[f].fd # NoFd => buf[frames[f].fd] = frames[f].fb
  /\ maps \subseteq Live
  /\ \A p \in Live : privs[p].sync => privs[p].fd # NoFd

(* A handle is open for one record, or for the grab in progress; so is a   *)
(* descriptor.                                                             *)
HandleInv ==
  /\ \A h \in Handles : bo[h] # NoFb <=> h = call.gem \/ \E p \in Live : privs[p].gem = h
  /\ \A p, q \in Live : privs[p].gem = privs[q].gem => p = q \/ privs[p].gem = NoHandle
  /\ \A p \in Live : privs[p].gem = call.gem => call.gem = NoHandle

FdInv ==
  /\ \A d \in Fds : buf[d] # NoFb <=> d = call.fd \/ \E p \in Live : privs[p].fd = d
  /\ \A p, q \in Live : privs[p].fd = privs[q].fd => p = q \/ privs[p].fd = NoFd
  /\ \A p \in Live : privs[p].fd = call.fd => call.fd = NoFd

(* Only drmtap_grab_desc moves the plane before it has a frame to hand out,*)
(* and it remembers where it was.                                          *)
NameInv ==
  /\ pc # "desc" => grabPlane = named
  /\ pc = "desc" => grabPlane = call.plane
  /\ pc # "idle" => call.before = named

Inv == /\ TypeOK /\ CallInv /\ FrameInv /\ HandleInv /\ FdInv /\ NameInv
       /\ WindowsBalanced /\ PixelsDecoded

-----------------------------------------------------------------------------
(* Records and locals between calls.                                       *)
LEMMA Nulls ==
  /\ Freed \in PrivType /\ ~Freed.live
  /\ Zeroed \in FrameType /\ Zeroed.priv = NoPriv /\ Zeroed.fd = NoFd /\ Zeroed.fb = NoFb
BY DEF Freed, PrivType, Zeroed, FrameType

(* The locals between calls.                                               *)
LEMMA IdleCall ==
  /\ Idle \in CallType /\ Idle.gem = NoHandle /\ Idle.fd = NoFd
  /\ Idle.source = "direct" /\ Idle.op = "none"
<1>1. (CHOOSE f \in Frames : TRUE) \in Frames
  BY GrabAssumption
<1> QED
  BY <1>1 DEF Idle, CallType, Sources

(* A frame that is held, and its record.                                   *)
LEMMA Held ==
  ASSUME Inv, NEW f \in Holders
  PROVE  /\ f \in Frames /\ frames[f].priv \in Live /\ frames[f].priv \in Privs
         /\ frames[f].fd = privs[frames[f].priv].fd
         /\ privs[frames[f].priv] \in PrivType
<1>1. f \in Frames
  BY DEF Inv, TypeOK, CallType, Holders
<1> QED
  BY <1>1 DEF Inv, TypeOK, FrameInv, Live

(* A step that leaves the heap alone.                                      *)
LEMMA SameHeap ==
  ASSUME Inv, UNCHANGED <<bo, buf, win, maps, privs, frames>>, Holders' = Holders,
         call'.gem = call.gem, call'.fd = call.fd
  PROVE  FrameInv' /\ HandleInv' /\ FdInv' /\ WindowsBalanced'
<1>1. Live' = Live
  BY DEF Live
<1> QED
  BY <1>1 DEF Inv, FrameInv, HandleInv, FdInv, WindowsBalanced

(* A grab that failed before there was a record: what it had acquired is   *)
(* given back, and the frame stays zeroed.                                 *)
LEMMA CleanupInv ==
  ASSUME Inv, pc \in {"getfb2", "export", "helper", "adopt"}, NEW errno, Cleanup(errno),
         UNCHANGED staged
  PROVE  Inv'
<1>1. /\ UNCHANGED <<gpu, scanout, cap, win, maps, privs, staged, grabPlane, named, given>>
      /\ pc' = "idle" /\ call' = Idle
      /\ last' = [Nothing EXCEPT !.op = call.op, !.ret = errno]
  BY DEF Cleanup, Fail, Finish, env, history
<1>2. frames' = frames /\ call.frame \in Frames \ given
  <2>1. call.frame \in Frames \ given /\ ~Filled
    BY DEF Inv, TypeOK, CallType, CallInv, Filled
  <2>2. frames[call.frame] = Zeroed
    BY <2>1 DEF Inv, FrameInv, Holders
  <2> QED
    BY <2>1, <2>2 DEF Cleanup, Inv, TypeOK
<1>3. Live' = Live /\ Holders' = Holders /\ ~Filled'
  BY <1>1 DEF Live, Holders, Filled
<1>4. /\ bo' \in [Handles -> Fbs \cup {NoFb}]
      /\ \A h \in Handles : bo'[h] # NoFb <=> bo[h] # NoFb /\ h # call.gem
      /\ buf' \in [Fds -> Fbs \cup {NoFb}]
      /\ \A d \in Fds : buf'[d] # NoFb <=> buf[d] # NoFb /\ d # call.fd
      /\ \A d \in Fds : d # call.fd => buf'[d] = buf[d]
  BY DEF Cleanup, Inv, TypeOK
<1>5. TypeOK'
  BY <1>1, <1>2, <1>4, IdleCall DEF Inv, TypeOK
<1>6. CallInv'
  BY <1>1, IdleCall DEF CallInv
<1>7. FrameInv'
  <2>1. \A f \in Holders : frames[f].fd # NoFd => buf'[frames[f].fd] = buf[frames[f].fd]
    <3> SUFFICES ASSUME NEW f \in Holders, frames[f].fd # NoFd
                 PROVE  buf'[frames[f].fd] = buf[frames[f].fd]
      OBVIOUS
    <3>1. frames[f].fd \in Fds /\ frames[f].fd # call.fd
      BY Held DEF PrivType, Inv, FdInv
    <3> QED
      BY <1>4, <3>1
  <2> QED
    BY <1>1, <1>2, <1>3, <2>1 DEF Inv, FrameInv
<1>8. HandleInv'
  BY <1>1, <1>3, <1>4, IdleCall, GrabAssumption DEF Inv, HandleInv
<1>9. FdInv'
  BY <1>1, <1>3, <1>4, IdleCall, GrabAssumption DEF Inv, FdInv
<1>10. NameInv' /\ WindowsBalanced'
  BY <1>1 DEF Inv, NameInv, WindowsBalanced, CallInv
<1>11. PixelsDecoded'
  BY <1>1 DEF PixelsDecoded, Nothing
<1> QED
  BY <1>5, <1>6, <1>7, <1>8, <1>9, <1>10, <1>11 DEF Inv

(* One that had acquired nothing.                                          *)
LEMMA FailInv ==
  ASSUME Inv, pc \in {"plane", "getfb2", "helper"}, NEW errno, Fail(errno),
         UNCHANGED <<env, kernel, privs, frames, ctx>>
  PROVE  Inv'
<1>1. /\ UNCHANGED <<gpu, scanout, cap, bo, buf, win, maps, privs, frames>>
      /\ UNCHANGED <<staged, grabPlane, named, given>>
      /\ pc' = "idle" /\ call' = Idle
      /\ last' = [Nothing EXCEPT !.op = call.op, !.ret = errno]
  BY DEF Fail, Finish, env, kernel, ctx, history
<1>2. call.gem = NoHandle /\ call.fd = NoFd
  BY DEF Inv, CallInv
<1>3. TypeOK' /\ CallInv'
  BY <1>1, IdleCall DEF Inv, TypeOK, CallInv
<1>4. FrameInv' /\ HandleInv' /\ FdInv' /\ WindowsBalanced'
  <2>1. Holders' = Holders
    BY <1>1 DEF Holders, Filled
  <2> QED
    BY <1>1, <1>2, <2>1, IdleCall, SameHeap
<1>5. NameInv'
  BY <1>1 DEF Inv, NameInv
<1>6. PixelsDecoded'
  BY <1>1 DEF PixelsDecoded, Nothing
<1> QED
  BY <1>3, <1>4, <1>5, <1>6 DEF Inv

(* A grab in progress that acquires nothing in this step.                  *)
LEMMA GoOnInv ==
  ASSUME Inv, NEW label, NEW locals \in CallType, Goto(label, locals), label # "idle",
         UNCHANGED <<gpu, scanout, cap, bo, buf, win, maps, privs, frames, last>>,
         UNCHANGED <<named, given>>, TypeOK', CallInv', NameInv', Holders' = Holders,
         locals.gem = call.gem, locals.fd = call.fd
  PROVE  Inv'
<1>1. call' = locals
  BY DEF Goto
<1>2. FrameInv' /\ HandleInv' /\ FdInv' /\ WindowsBalanced'
  BY <1>1, SameHeap
<1>3. PixelsDecoded'
  BY DEF Inv, PixelsDecoded
<1> QED
  BY <1>2, <1>3 DEF Inv

(* What a held frame owns goes with it, and nothing else does.             *)
LEMMA DropInv ==
  ASSUME Inv, NEW f \in Holders, DropFrame(f), call.gem = NoHandle, call.fd = NoFd,
         pc' = "idle", call' = Idle, given' = Holders \ {f},
         UNCHANGED <<gpu, scanout, cap, staged, named>>, grabPlane' = named, PixelsDecoded'
  PROVE  Inv'
<1> DEFINE p == frames[f].priv
           owned == privs[p]
<1>1. /\ f \in Frames /\ p \in Live /\ p \in Privs /\ frames[f].fd = owned.fd
      /\ owned \in PrivType
  BY Held
<1>2. /\ win' = [d \in Fds |-> IF owned.sync /\ d = owned.fd THEN win[d] - 1 ELSE win[d]]
      /\ maps' = maps \ {p}
      /\ buf' = [d \in Fds |-> IF d = owned.fd THEN NoFb ELSE buf[d]]
      /\ bo' = [h \in Handles |-> IF h = owned.gem THEN NoFb ELSE bo[h]]
      /\ privs' = [privs EXCEPT ![p] = Freed]
      /\ frames' = [frames EXCEPT ![f] = Zeroed]
  BY DEF DropFrame, Dropped
<1>3. /\ DOMAIN privs = Privs /\ DOMAIN frames = Frames
      /\ Holders \subseteq Frames
  BY DEF Inv, TypeOK, Holders, CallType
<1>4. Live' = Live \ {p} /\ Holders' = Holders \ {f} /\ ~Filled'
  BY <1>1, <1>2, <1>3, Nulls DEF Live, Holders, Filled
<1>5. \A q \in Live \ {p} : privs'[q] = privs[q]
  BY <1>2, <1>3 DEF Live
<1>6. \A g \in Frames \ {f} : frames'[g] = frames[g]
  BY <1>2, <1>3
<1>7. \A g \in Holders \ {f} : frames[g].priv \in Live \ {p}
  BY <1>1, Held DEF Inv, FrameInv
<1> HIDE DEF p, owned
<1>8. /\ bo' \in [Handles -> Fbs \cup {NoFb}] /\ buf' \in [Fds -> Fbs \cup {NoFb}]
      /\ maps' \subseteq Privs
  BY <1>2 DEF Inv, TypeOK
<1>9. privs' \in [Privs -> PrivType] /\ frames' \in [Frames -> FrameType]
  BY <1>2, Nulls DEF Inv, TypeOK
<1>10. WindowsBalanced' /\ win' \in [Fds -> Nat]
  <2> SUFFICES ASSUME NEW d \in Fds
               PROVE  win'[d] = IF \E q \in Privs : privs'[q].live /\ privs'[q].sync
                                                   /\ privs'[q].fd = d
                                THEN 1 ELSE 0
    BY <1>2 DEF WindowsBalanced
  <2>1. win[d] = IF \E q \in Live : privs[q].sync /\ privs[q].fd = d THEN 1 ELSE 0
    BY DEF Inv, WindowsBalanced, Live
  <2>2. (\E q \in Privs : privs'[q].live /\ privs'[q].sync /\ privs'[q].fd = d)
          <=> \E q \in Live \ {p} : privs[q].sync /\ privs[q].fd = d
    BY <1>4, <1>5 DEF Live
  <2>3. CASE owned.sync /\ d = owned.fd
    <3>1. \A q \in Live \ {p} : privs[q].fd # d
      BY <1>1, <2>3, GrabAssumption DEF Inv, FdInv, owned
    <3>2. win[d] = 1
      BY <1>1, <2>1, <2>3 DEF owned
    <3> QED
      BY <1>2, <2>2, <2>3, <3>1, <3>2
  <2>4. CASE ~(owned.sync /\ d = owned.fd)
    <3>1. (\E q \in Live : privs[q].sync /\ privs[q].fd = d)
            <=> \E q \in Live \ {p} : privs[q].sync /\ privs[q].fd = d
      BY <2>4 DEF owned
    <3> QED
      BY <1>2, <2>1, <2>2, <2>4, <3>1
  <2> QED
    BY <2>3, <2>4
<1>11. TypeOK'
  BY <1>3, <1>8, <1>9, <1>10, IdleCall DEF Inv, TypeOK
<1>12. CallInv'
  BY IdleCall DEF CallInv
<1>13. FrameInv'
  <2>1. \A g \in Frames \ Holders' : frames'[g] = Zeroed
    BY <1>1, <1>2, <1>3, <1>4, <1>6 DEF Inv, FrameInv
  <2>2. /\ \A g \in Holders' : frames'[g].priv \in Live'
        /\ \A g, k \in Holders' : frames'[g].priv = frames'[k].priv => g = k
    BY <1>3, <1>4, <1>6, <1>7 DEF Inv, FrameInv
  <2>3. \A q \in Live' : \E g \in Holders' : frames'[g].priv = q
    <3> SUFFICES ASSUME NEW q \in Live \ {p} PROVE \E g \in Holders' : frames'[g].priv = q
      BY <1>4
    <3>1. PICK g \in Holders : frames[g].priv = q
      BY DEF Inv, FrameInv
    <3>2. g # f
      BY <3>1 DEF p
    <3> QED
      BY <1>3, <1>4, <1>6, <3>1, <3>2
  <2>4. ASSUME NEW g \in Holders'
        PROVE  /\ frames'[g].fd = privs'[frames'[g].priv].fd
               /\ frames'[g].fd # NoFd => buf'[frames'[g].fd] = frames'[g].fb
    <3>1. /\ g \in Holders /\ frames'[g] = frames[g] /\ frames[g].priv \in Live \ {p}
          /\ privs'[frames[g].priv] = privs[frames[g].priv]
          /\ frames[g].fd = privs[frames[g].priv].fd
      BY <1>3, <1>4, <1>5, <1>6, <1>7, Held
    <3>2. ASSUME frames[g].fd # NoFd
          PROVE  frames[g].fd # owned.fd /\ frames[g].fd \in Fds
      BY <1>1, <3>1, <3>2, Held DEF Inv, FdInv, owned, PrivType
    <3>3. frames[g].fd # NoFd => buf'[frames[g].fd] = buf[frames[g].fd]
      BY <1>2, <3>2
    <3> QED
      BY <3>1, <3>3 DEF Inv, FrameInv
  <2>5. maps' \subseteq Live' /\ \A q \in Live' : privs'[q].sync => privs'[q].fd # NoFd
    BY <1>2, <1>4, <1>5 DEF Inv, FrameInv
  <2> QED
    BY <2>1, <2>2, <2>3, <2>4, <2>5 DEF FrameInv
<1>14. HandleInv'
  <2>1. ASSUME NEW h \in Handles
        PROVE  bo'[h] # NoFb <=> \E q \in Live \ {p} : privs[q].gem = h
    BY <1>1, <1>2, GrabAssumption DEF Inv, HandleInv, owned
  <2> QED
    BY <1>4, <1>5, <2>1, IdleCall, GrabAssumption DEF Inv, HandleInv
<1>15. FdInv'
  <2>1. ASSUME NEW d \in Fds
        PROVE  buf'[d] # NoFb <=> \E q \in Live \ {p} : privs[q].fd = d
    BY <1>1, <1>2, GrabAssumption DEF Inv, FdInv, owned
  <2> QED
    BY <1>4, <1>5, <2>1, IdleCall, GrabAssumption DEF Inv, FdInv
<1>16. NameInv'
  BY DEF NameInv
<1> QED
  BY <1>10, <1>11, <1>12, <1>13, <1>14, <1>15, <1>16 DEF Inv

-----------------------------------------------------------------------------
(* The steps of a grab, in their order.                                    *)

(* A call starts with nothing acquired.                                    *)
LEMMA BeginInv ==
  ASSUME Inv, NEW op \in Ops, NEW f \in Frames, Begin(op, f)
  PROVE  Inv'
<1> DEFINE locals == [Idle EXCEPT !.op = op, !.frame = f, !.before = grabPlane]
<1>1. /\ UNCHANGED <<gpu, scanout, cap, bo, buf, win, maps, privs, frames>>
      /\ UNCHANGED <<staged, grabPlane, named, given>>
      /\ pc = "idle" /\ call = Idle /\ f \notin given /\ last' = Nothing
      /\ Goto("plane", locals)
  BY DEF Begin, env, kernel, ctx, history, Inv, CallInv
<1>2. /\ locals \in CallType /\ locals.frame = f /\ locals.before = grabPlane
      /\ locals.gem = NoHandle /\ locals.fd = NoFd /\ locals.source = "direct"
  BY IdleCall DEF CallType, Inv, TypeOK
<1> HIDE DEF locals
<1>3. TypeOK' /\ CallInv' /\ NameInv'
  BY <1>1, <1>2 DEF Goto, Inv, TypeOK, CallInv, NameInv
<1>4. FrameInv' /\ HandleInv' /\ FdInv' /\ WindowsBalanced'
  <2>1. Holders' = Holders
    BY <1>1 DEF Goto, Holders, Filled
  <2> QED
    BY <1>1, <1>2, <2>1, IdleCall, SameHeap DEF Goto
<1>5. PixelsDecoded'
  BY <1>1 DEF PixelsDecoded, Nothing
<1> QED
  BY <1>3, <1>4, <1>5 DEF Inv

(* The plane and its framebuffer are looked up; nothing is acquired.       *)
LEMMA ReadPlaneInv == ASSUME Inv, ReadPlane PROVE Inv'
<1>1. PICK k \in Planes : Goto("getfb2", [call EXCEPT !.fb = scanout, !.plane = k])
  BY DEF ReadPlane
<1> DEFINE locals == [call EXCEPT !.fb = scanout, !.plane = k]
<1>2. /\ UNCHANGED <<gpu, scanout, cap, bo, buf, win, maps, privs, frames>>
      /\ UNCHANGED <<staged, grabPlane, named, given, last>>
      /\ pc = "plane" /\ scanout \in Fbs /\ call \in CallType
  BY DEF ReadPlane, env, kernel, ctx, history, Inv, TypeOK
<1>3. /\ locals \in CallType /\ locals.frame = call.frame /\ locals.before = call.before
      /\ locals.gem = call.gem /\ locals.fd = call.fd /\ locals.source = call.source
      /\ locals.black = call.black /\ locals.fb = scanout
  BY <1>2 DEF CallType
<1>4. Goto("getfb2", locals)
  BY <1>1
<1> HIDE DEF locals
<1>5. Holders' = Holders
  BY <1>2, <1>4 DEF Goto, Holders, Filled
<1>6. TypeOK' /\ CallInv' /\ NameInv'
  BY <1>2, <1>3, <1>4 DEF Goto, Inv, TypeOK, CallInv, NameInv
<1> QED
  BY <1>2, <1>3, <1>4, <1>5, <1>6, GoOnInv

(* GetFB2 gives the grab a handle that no record owns.                     *)
LEMMA GetFb2Inv == ASSUME Inv, NEW h \in Fresh, GetFb2(h) PROVE Inv'
<1> DEFINE locals == [call EXCEPT !.gem = h]
<1>1. /\ UNCHANGED <<gpu, scanout, cap, buf, win, maps, privs, frames>>
      /\ UNCHANGED <<grabPlane, named, given, last>>
      /\ pc = "getfb2" /\ call \in CallType /\ staged' = call.fb
      /\ bo' = [bo EXCEPT ![h] = call.fb] /\ Goto("export", locals)
  BY DEF GetFb2, env, kernel, ctx, history, Inv, TypeOK
<1>2. /\ h \in Handles /\ bo[h] = NoFb /\ call.fb \in Fbs
      /\ call.gem = NoHandle /\ call.fd = NoFd
  BY <1>1 DEF Fresh, Inv, CallInv
<1>3. /\ locals \in CallType /\ locals.frame = call.frame /\ locals.before = call.before
      /\ locals.gem = h /\ locals.fd = call.fd /\ locals.source = call.source
      /\ locals.black = call.black /\ locals.fb = call.fb
  BY <1>1, <1>2 DEF CallType
<1> HIDE DEF locals
<1>4. pc' = "export" /\ call' = locals
  BY <1>1 DEF Goto
<1>5. /\ bo' \in [Handles -> Fbs \cup {NoFb}] /\ bo'[h] = call.fb
      /\ \A k \in Handles \ {h} : bo'[k] = bo[k]
  BY <1>1, <1>2 DEF Inv, TypeOK
<1>6. Live' = Live /\ Holders' = Holders
  BY <1>1, <1>4 DEF Live, Holders, Filled
<1>7. TypeOK' /\ NameInv'
  BY <1>1, <1>2, <1>3, <1>4, <1>5 DEF Inv, TypeOK, NameInv
<1>8. CallInv'
  BY <1>1, <1>2, <1>3, <1>4, <1>5, GrabAssumption DEF Inv, CallInv
<1>9. FrameInv' /\ WindowsBalanced' /\ PixelsDecoded'
  BY <1>1, <1>6 DEF Inv, FrameInv, WindowsBalanced, PixelsDecoded
<1>10. HandleInv'
  BY <1>1, <1>2, <1>3, <1>4, <1>5, <1>6, GrabAssumption DEF Inv, HandleInv
<1>11. FdInv'
  BY <1>1, <1>3, <1>4, <1>6 DEF Inv, FdInv
<1> QED
  BY <1>7, <1>8, <1>9, <1>10, <1>11 DEF Inv

(* Without the privilege there is no handle, and the helper is asked.      *)
LEMMA GetFb2UnprivilegedInv == ASSUME Inv, GetFb2Unprivileged PROVE Inv'
<1>1. /\ UNCHANGED <<gpu, scanout, cap, bo, buf, win, maps, privs, frames>>
      /\ UNCHANGED <<grabPlane, named, given, last>>
      /\ pc = "getfb2" /\ call \in CallType /\ staged' = call.fb /\ Goto("helper", call)
  BY DEF GetFb2Unprivileged, env, kernel, ctx, history, Inv, TypeOK
<1>2. Holders' = Holders
  BY <1>1 DEF Goto, Holders, Filled
<1>3. TypeOK' /\ CallInv' /\ NameInv'
  BY <1>1 DEF Goto, Inv, TypeOK, CallInv, NameInv, CallType
<1> QED
  BY <1>1, <1>2, <1>3, GoOnInv

(* The descriptor is of the buffer behind the handle, or of what the       *)
(* helper captured, and that is what the frame will be labelled with.      *)
LEMMA FdMinted ==
  ASSUME Inv, NEW d \in Fds, buf[d] = NoFb, pc \in {"export", "helper"},
         NEW locals \in CallType, Goto("adopt", locals), locals.fb \in Fbs,
         buf' = [buf EXCEPT ![d] = locals.fb],
         locals.fd = d, locals.gem = call.gem, locals.frame = call.frame,
         locals.before = call.before, locals.source # "pixels",
         locals.source = "dmabuf" /\ locals.black => gpu.virgl,
         UNCHANGED <<gpu, scanout, cap, bo, win, maps, privs, frames>>,
         UNCHANGED <<staged, grabPlane, named, given, last>>
  PROVE  Inv'
<1>1. pc' = "adopt" /\ call' = locals /\ call.fd = NoFd
  BY DEF Goto, Inv, CallInv
<1>2. /\ buf' \in [Fds -> Fbs \cup {NoFb}] /\ buf'[d] = locals.fb
      /\ \A e \in Fds \ {d} : buf'[e] = buf[e]
  BY DEF Inv, TypeOK
<1>3. Live' = Live /\ Holders' = Holders
  BY <1>1 DEF Live, Holders, Filled
<1>4. TypeOK' /\ NameInv'
  BY <1>1, <1>2 DEF Inv, TypeOK, NameInv
<1>5. CallInv'
  BY <1>1, <1>2, GrabAssumption DEF Inv, CallInv
<1>6. FrameInv'
  <2>1. \A f \in Holders : frames[f].fd # NoFd => buf'[frames[f].fd] = buf[frames[f].fd]
    <3> SUFFICES ASSUME NEW f \in Holders, frames[f].fd # NoFd
                 PROVE  buf'[frames[f].fd] = buf[frames[f].fd]
      OBVIOUS
    <3>1. frames[f].fd \in Fds /\ frames[f].fd # d
      BY Held DEF PrivType, Inv, FdInv
    <3> QED
      BY <1>2, <3>1
  <2> QED
    BY <1>3, <2>1 DEF Inv, FrameInv
<1>7. HandleInv' /\ WindowsBalanced' /\ PixelsDecoded'
  BY <1>1, <1>3 DEF Inv, HandleInv, WindowsBalanced, PixelsDecoded
<1>8. FdInv'
  BY <1>1, <1>2, <1>3, GrabAssumption DEF Inv, FdInv
<1> QED
  BY <1>4, <1>5, <1>6, <1>7, <1>8 DEF Inv

(* A fresh descriptor belongs to the grab, and is of its framebuffer.      *)
LEMMA ExportInv == ASSUME Inv, NEW d \in Fds, buf[d] = NoFb, Export(d) PROVE Inv'
<1> DEFINE locals == [call EXCEPT !.fd = d, !.source = "direct"]
<1>1. /\ UNCHANGED <<gpu, scanout, cap, bo, win, maps, privs, frames>>
      /\ UNCHANGED <<staged, grabPlane, named, given, last>>
      /\ pc = "export" /\ call \in CallType
      /\ buf' = [buf EXCEPT ![d] = call.fb] /\ Goto("adopt", locals) /\ call.fb \in Fbs
  BY DEF Export, env, kernel, ctx, history, Inv, TypeOK, CallInv
<1>2. /\ locals \in CallType /\ locals.frame = call.frame /\ locals.before = call.before
      /\ locals.gem = call.gem /\ locals.fd = d /\ locals.source = "direct"
      /\ locals.fb = call.fb
  BY <1>1 DEF CallType, Sources
<1> HIDE DEF locals
<1> QED
  BY <1>1, <1>2, FdMinted

(* So is the one the helper sends, of the framebuffer the helper captured. *)
LEMMA HelperDmabufInv == ASSUME Inv, NEW d \in Fds, buf[d] = NoFb, HelperDmabuf(d) PROVE Inv'
<1> DEFINE locals == [call EXCEPT !.fb = scanout, !.fd = d, !.source = "dmabuf",
                                  !.black = gpu.virgl]
<1>1. /\ UNCHANGED <<gpu, scanout, cap, bo, win, maps, privs, frames>>
      /\ UNCHANGED <<staged, grabPlane, named, given, last>>
      /\ pc = "helper" /\ call \in CallType /\ scanout \in Fbs
      /\ buf' = [buf EXCEPT ![d] = scanout] /\ Goto("adopt", locals) /\ gpu.virgl \in BOOLEAN
  BY GrabAssumption DEF HelperDmabuf, env, kernel, ctx, history, Inv, TypeOK
<1>2. /\ locals \in CallType /\ locals.frame = call.frame /\ locals.before = call.before
      /\ locals.gem = call.gem /\ locals.fd = d /\ locals.source = "dmabuf"
      /\ locals.fb = scanout /\ locals.black = gpu.virgl
  BY <1>1 DEF CallType, Sources
<1> HIDE DEF locals
<1> QED
  BY <1>1, <1>2, FdMinted

(* Pixels come without a descriptor.                                       *)
LEMMA HelperPixelsInv == ASSUME Inv, HelperPixels PROVE Inv'
<1> DEFINE locals == [call EXCEPT !.fb = scanout, !.source = "pixels"]
<1>1. /\ UNCHANGED <<gpu, scanout, cap, bo, buf, win, maps, privs, frames>>
      /\ UNCHANGED <<staged, grabPlane, named, given, last>>
      /\ pc = "helper" /\ call \in CallType /\ scanout \in Fbs /\ Goto("adopt", locals)
  BY DEF HelperPixels, env, kernel, ctx, history, Inv, TypeOK
<1>2. /\ locals \in CallType /\ locals.frame = call.frame /\ locals.before = call.before
      /\ locals.gem = call.gem /\ locals.fd = call.fd /\ locals.source = "pixels"
      /\ locals.fb = scanout
  BY <1>1 DEF CallType, Sources
<1> HIDE DEF locals
<1>3. Holders' = Holders
  BY <1>1 DEF Goto, Holders, Filled
<1>4. TypeOK' /\ CallInv' /\ NameInv'
  BY <1>1, <1>2 DEF Goto, Inv, TypeOK, CallInv, NameInv
<1> QED
  BY <1>1, <1>2, <1>3, <1>4, GoOnInv

(* The handle of an export that was refused goes back alone.               *)
LEMMA ExportDeniedInv == ASSUME Inv, ExportDenied PROVE Inv'
<1> DEFINE locals == [call EXCEPT !.gem = NoHandle]
<1>1. /\ UNCHANGED <<gpu, scanout, cap, buf, win, maps, privs, frames>>
      /\ UNCHANGED <<staged, grabPlane, named, given, last>>
      /\ pc = "export" /\ call \in CallType /\ call.gem \in Handles /\ call.fb \in Fbs
      /\ bo' = [bo EXCEPT ![call.gem] = NoFb] /\ Goto("helper", locals)
  BY DEF ExportDenied, env, kernel, ctx, history, Inv, TypeOK, CallInv, CallType
<1>2. /\ locals \in CallType /\ locals.frame = call.frame /\ locals.before = call.before
      /\ locals.gem = NoHandle /\ locals.fd = call.fd /\ locals.source = call.source
      /\ locals.black = call.black /\ locals.fb = call.fb
  BY <1>1 DEF CallType
<1> HIDE DEF locals
<1>3. pc' = "helper" /\ call' = locals
  BY <1>1 DEF Goto
<1>4. /\ bo' \in [Handles -> Fbs \cup {NoFb}] /\ bo'[call.gem] = NoFb
      /\ \A h \in Handles \ {call.gem} : bo'[h] = bo[h]
  BY <1>1 DEF Inv, TypeOK
<1>5. Live' = Live /\ Holders' = Holders
  BY <1>1, <1>3 DEF Live, Holders, Filled
<1>6. TypeOK' /\ NameInv' /\ CallInv'
  BY <1>1, <1>2, <1>3, <1>4 DEF Inv, TypeOK, NameInv, CallInv
<1>7. FrameInv' /\ FdInv' /\ WindowsBalanced' /\ PixelsDecoded'
  BY <1>1, <1>2, <1>3, <1>5 DEF Inv, FrameInv, FdInv, WindowsBalanced, PixelsDecoded
<1>8. HandleInv'
  BY <1>1, <1>2, <1>3, <1>4, <1>5, GrabAssumption DEF Inv, HandleInv
<1> QED
  BY <1>6, <1>7, <1>8 DEF Inv

(* The record takes over what the grab had acquired.                       *)
LEMMA AdoptInv == ASSUME Inv, NEW p \in Privs, Adopt(p) PROVE Inv'
<1> DEFINE locals == [call EXCEPT !.gem = NoHandle, !.fd = NoFd]
           record == [gem |-> call.gem, fd |-> call.fd, sync |-> FALSE, live |-> TRUE]
           frame == [priv |-> p, fd |-> call.fd, fb |-> call.fb,
                     data |-> IF call.source = "pixels" THEN "context" ELSE "null"]
           f == call.frame
<1>1. /\ UNCHANGED <<gpu, scanout, cap, bo, buf, win, maps>>
      /\ UNCHANGED <<staged, grabPlane, named, given, last>>
      /\ pc = "adopt" /\ call \in CallType /\ p \notin Live
      /\ privs' = [privs EXCEPT ![p] = record] /\ frames' = [frames EXCEPT ![f] = frame]
      /\ Goto(AfterAdoption, locals)
  BY DEF Adopt, env, kernel, ctx, history, Inv, TypeOK, Live
<1>2. /\ locals \in CallType /\ locals.frame = f /\ locals.before = call.before
      /\ locals.gem = NoHandle /\ locals.fd = NoFd /\ locals.source = call.source
      /\ locals.black = call.black /\ locals.fb = call.fb
  BY <1>1 DEF CallType
<1>3. /\ f \in Frames \ given /\ call.fb \in Fbs
      /\ call.fd = NoFd <=> call.source = "pixels"
      /\ call.fd # NoFd => buf[call.fd] = call.fb
      /\ record \in PrivType /\ frame \in FrameType
      /\ record.live /\ ~record.sync /\ record.fd = call.fd /\ record.gem = call.gem
      /\ frame.priv = p /\ frame.fd = call.fd /\ frame.fb = call.fb
  BY <1>1 DEF Inv, CallInv, CallType, PrivType, FrameType
<1> HIDE DEF locals, record, frame
<1>4. /\ pc' \in {"map", "process", "give"} /\ call' = locals
      /\ pc' = "map" => call.source # "pixels"
  BY <1>1 DEF Goto, AfterAdoption
<1>5. /\ DOMAIN privs = Privs /\ DOMAIN frames = Frames /\ given \subseteq Frames
      /\ Holders = given
  BY <1>1 DEF Inv, TypeOK, Holders, Filled
<1>6. Live' = Live \cup {p} /\ Holders' = given \cup {f}
  BY <1>1, <1>2, <1>3, <1>4, <1>5 DEF Live, Holders, Filled
<1>7. /\ privs'[p] = record /\ \A q \in Live : privs'[q] = privs[q]
      /\ frames'[f] = frame /\ \A g \in Frames \ {f} : frames'[g] = frames[g]
  BY <1>1, <1>3, <1>5 DEF Live
<1>8. TypeOK'
  BY <1>1, <1>2, <1>3, <1>4 DEF Inv, TypeOK
<1>9. CallInv'
  BY <1>1, <1>2, <1>3, <1>4, <1>7, GrabAssumption DEF Inv, CallInv, Frame, Priv
<1>10. FrameInv'
  <2>1. \A g \in given : frames[g].priv \in Live /\ frames'[g] = frames[g]
    BY <1>3, <1>5, <1>7 DEF Inv, FrameInv
  <2>2. \A g \in Frames \ Holders' : frames'[g] = Zeroed
    BY <1>5, <1>6, <1>7 DEF Inv, FrameInv
  <2>3. /\ \A g \in Holders' : frames'[g].priv \in Live'
        /\ \A g, k \in Holders' : frames'[g].priv = frames'[k].priv => g = k
    BY <1>1, <1>3, <1>5, <1>6, <1>7, <2>1 DEF Inv, FrameInv
  <2>4. \A q \in Live' : \E g \in Holders' : frames'[g].priv = q
    BY <1>3, <1>5, <1>6, <1>7, <2>1 DEF Inv, FrameInv
  <2>5. \A g \in Holders' : /\ frames'[g].fd = privs'[frames'[g].priv].fd
                            /\ frames'[g].fd # NoFd => buf'[frames'[g].fd] = frames'[g].fb
    BY <1>1, <1>3, <1>5, <1>6, <1>7, <2>1 DEF Inv, FrameInv
  <2>6. maps' \subseteq Live' /\ \A q \in Live' : privs'[q].sync => privs'[q].fd # NoFd
    BY <1>1, <1>3, <1>6, <1>7 DEF Inv, FrameInv
  <2> QED
    BY <2>2, <2>3, <2>4, <2>5, <2>6 DEF FrameInv
<1>11. HandleInv'
  <2>1. \A h \in Handles : bo'[h] # NoFb <=> \E q \in Live' : privs'[q].gem = h
    BY <1>1, <1>3, <1>6, <1>7 DEF Inv, HandleInv
  <2> QED
    BY <1>2, <1>3, <1>4, <1>6, <1>7, <2>1, GrabAssumption DEF Inv, HandleInv
<1>12. FdInv'
  <2>1. \A d \in Fds : buf'[d] # NoFb <=> \E q \in Live' : privs'[q].fd = d
    BY <1>1, <1>3, <1>6, <1>7 DEF Inv, FdInv
  <2> QED
    BY <1>2, <1>3, <1>4, <1>6, <1>7, <2>1, GrabAssumption DEF Inv, FdInv
<1>13. WindowsBalanced'
  <2>1. \A d \in Fds : (\E q \in Live' : privs'[q].sync /\ privs'[q].fd = d)
                          <=> \E q \in Live : privs[q].sync /\ privs[q].fd = d
    BY <1>3, <1>6, <1>7
  <2> QED
    BY <1>1, <2>1 DEF Inv, WindowsBalanced, Live
<1>14. NameInv' /\ PixelsDecoded'
  BY <1>1, <1>2, <1>4 DEF Inv, NameInv, PixelsDecoded
<1> QED
  BY <1>8, <1>9, <1>10, <1>11, <1>12, <1>13, <1>14 DEF Inv

(* The one START of a record is counted on its own descriptor.             *)
LEMMA MapInv == ASSUME Inv, NEW started \in BOOLEAN, Map(started) PROVE Inv'
<1> DEFINE f == call.frame
<1>1. PICK black \in Shows : Goto(AfterMap, [call EXCEPT !.black = black])
  BY DEF Map
<1> DEFINE locals == [call EXCEPT !.black = black]
<1>2. /\ UNCHANGED <<gpu, scanout, cap, bo, buf>>
      /\ UNCHANGED <<staged, grabPlane, named, given, last>>
      /\ pc = "map" /\ call \in CallType
      /\ frames' = [frames EXCEPT ![f].data = "own"]
  BY DEF Map, env, kernel, ctx, history, Inv, TypeOK
<1>3. f \in Frames /\ f \in Holders /\ Holders \subseteq Frames
  BY <1>2 DEF Inv, TypeOK, CallType, Holders, Filled
<1>4. PICK p \in Live : p = frames[f].priv
  BY <1>3, Held
<1>5. PICK d \in Fds : d = privs[p].fd /\ d = frames[f].fd
  <2>1. frames[f].fd # NoFd
    BY <1>2 DEF Inv, CallInv, Frame
  <2> QED
    BY <1>3, <1>4, <2>1, Held DEF PrivType
<1>6. /\ p \in Privs /\ privs[p] \in PrivType /\ ~privs[p].sync
      /\ maps' = maps \cup {p}
      /\ win' = IF started THEN [win EXCEPT ![d] = @ + 1] ELSE win
      /\ privs' = [privs EXCEPT ![p].sync = started]
  BY <1>2, <1>3, <1>4, <1>5, Held DEF Map, Frame, Priv, Inv, CallInv
<1>7. /\ locals \in CallType /\ locals.frame = f /\ locals.before = call.before
      /\ locals.gem = call.gem /\ locals.fd = call.fd /\ locals.source = call.source
      /\ locals.fb = call.fb
      /\ locals.source = "dmabuf" /\ locals.black => gpu.virgl
  <2>1. gpu.virgl \in BOOLEAN /\ call.black \in BOOLEAN
    BY <1>2, GrabAssumption DEF Inv, TypeOK, CallType
  <2>2. black \in {call.black, gpu.virgl}
    BY DEF Shows
  <2> QED
    BY <1>2, <2>1, <2>2 DEF Inv, CallInv, CallType
<1>8. pc' \in {"process", "give"} /\ call' = locals
  BY <1>1 DEF Goto, AfterMap
<1> HIDE DEF locals
<1>9. /\ privs' \in [Privs -> PrivType] /\ frames' \in [Frames -> FrameType]
      /\ win' \in [Fds -> Nat]
      /\ \A q \in Privs : privs'[q].live = privs[q].live /\ privs'[q].fd = privs[q].fd
      /\ \A q \in Privs : privs'[q].gem = privs[q].gem
      /\ \A q \in Privs \ {p} : privs'[q] = privs[q]
      /\ privs'[p].sync = started
      /\ \A g \in Frames : /\ frames'[g].priv = frames[g].priv /\ frames'[g].fd = frames[g].fd
                           /\ frames'[g].fb = frames[g].fb
                           /\ g # f => frames'[g] = frames[g]
  <2>1. /\ privs \in [Privs -> PrivType] /\ frames \in [Frames -> FrameType]
        /\ win \in [Fds -> Nat]
    BY DEF Inv, TypeOK
  <2>2. win' \in [Fds -> Nat]
    BY <1>6, <2>1
  <2>3. [privs[p] EXCEPT !.sync = started] \in PrivType
    BY <1>6 DEF PrivType
  <2>4. privs' \in [Privs -> PrivType] /\ privs'[p] = [privs[p] EXCEPT !.sync = started]
    BY <1>6, <2>1, <2>3
  <2>5. \A q \in Privs \ {p} : privs'[q] = privs[q]
    BY <1>6, <2>1
  <2>6. /\ privs'[p].live = privs[p].live /\ privs'[p].fd = privs[p].fd
        /\ privs'[p].gem = privs[p].gem /\ privs'[p].sync = started
    BY <1>6, <2>4 DEF PrivType
  <2>7. /\ frames' \in [Frames -> FrameType]
        /\ \A g \in Frames :
             /\ frames'[g].priv = frames[g].priv /\ frames'[g].fd = frames[g].fd
             /\ frames'[g].fb = frames[g].fb
             /\ g # f => frames'[g] = frames[g]
    BY <1>2, <1>3, <2>1 DEF FrameType
  <2> QED
    BY <2>2, <2>4, <2>5, <2>6, <2>7
<1>10. Live' = Live /\ Holders' = Holders
  BY <1>2, <1>7, <1>8, <1>9 DEF Live, Holders, Filled
<1>11. /\ \A q \in Live : privs'[q].fd = privs[q].fd /\ privs'[q].gem = privs[q].gem
      /\ \A q \in Live \ {p} : privs'[q] = privs[q]
  BY <1>9 DEF Live
<1>12. TypeOK'
  BY <1>2, <1>6, <1>4, <1>5, <1>7, <1>8, <1>9 DEF Inv, TypeOK
<1>13. CallInv' /\ NameInv'
  BY <1>2, <1>7, <1>8 DEF Inv, CallInv, NameInv
<1>14. FrameInv'
  <2>1. \A q \in Live : privs'[q].sync => privs'[q].fd # NoFd
    <3>1. privs'[p].fd # NoFd
      BY <1>5, <1>11, GrabAssumption
    <3>2. ASSUME NEW q \in Live, q # p, privs'[q].sync
          PROVE  privs'[q].fd # NoFd
      BY <1>11, <3>2 DEF Inv, FrameInv
    <3> QED
      BY <3>1, <3>2
  <2>2. maps' \subseteq Live
    BY <1>2, <1>6, <1>4, <1>5 DEF Inv, FrameInv
  <2>3. \A g \in Frames \ Holders : frames'[g] = Zeroed
    BY <1>3, <1>9 DEF Inv, FrameInv
  <2>4. \A g \in Holders :
          /\ frames'[g].priv = frames[g].priv /\ frames'[g].fd = frames[g].fd
          /\ frames'[g].fb = frames[g].fb /\ frames[g].priv \in Live
    BY <1>3, <1>9 DEF Inv, FrameInv
  <2> QED
    BY <1>2, <1>10, <1>11, <2>1, <2>2, <2>3, <2>4 DEF Inv, FrameInv
<1>15. HandleInv' /\ FdInv'
  BY <1>2, <1>7, <1>8, <1>10, <1>11 DEF Inv, HandleInv, FdInv
<1>16. WindowsBalanced'
  <2> SUFFICES ASSUME NEW e \in Fds
               PROVE  win'[e] = IF \E q \in Privs : privs'[q].live /\ privs'[q].sync
                                                   /\ privs'[q].fd = e
                                THEN 1 ELSE 0
    BY DEF WindowsBalanced
  <2>1. win[e] = IF \E q \in Privs : privs[q].live /\ privs[q].sync /\ privs[q].fd = e
                 THEN 1 ELSE 0
    BY DEF Inv, WindowsBalanced
  <2>2. CASE e = d
    <3>1. \A q \in Privs : privs[q].live /\ privs[q].fd = d => q = p
      BY <1>6, <1>4, <1>5, GrabAssumption, ZenonT(60) DEF Inv, FdInv, Live
    <3>2. win[d] = 0
      BY <1>6, <1>4, <1>5, <2>1, <2>2, <3>1
    <3>3. win'[d] = IF started THEN 1 ELSE 0
      BY <1>2, <1>6, <1>4, <1>5, <3>2 DEF Inv, TypeOK
    <3>4. \A q \in Privs : privs'[q].live /\ privs'[q].fd = d <=> q = p
      BY <1>6, <1>5, <1>9, <3>1 DEF Live
    <3>5. (\E q \in Privs : privs'[q].live /\ privs'[q].sync /\ privs'[q].fd = e) <=> started
      BY <1>6, <1>9, <2>2, <3>4
    <3> QED
      BY <2>2, <3>3, <3>5
  <2>3. CASE e # d
    <3>1. win'[e] = win[e]
      BY <1>6, <2>3 DEF Inv, TypeOK
    <3> QED
      BY <1>6, <1>5, <1>9, <2>1, <2>3, <3>1
  <2> QED
    BY <2>2, <2>3
<1>17. PixelsDecoded'
  BY <1>2 DEF Inv, PixelsDecoded
<1> QED
  BY <1>12, <1>13, <1>14, <1>15, <1>16, <1>17 DEF Inv

(* A mapping that fails leaves the frame as it was.                        *)
LEMMA MapFailedInv == ASSUME Inv, MapFailed PROVE Inv'
<1>1. /\ UNCHANGED <<gpu, scanout, cap, bo, buf, win, maps, privs, frames>>
      /\ UNCHANGED <<staged, grabPlane, named, given, last>>
      /\ pc = "map" /\ call \in CallType /\ Goto(AfterMap, call)
  BY DEF MapFailed, env, kernel, ctx, history, Inv, TypeOK
<1>2. AfterMap \in {"process", "give"}
  BY DEF AfterMap
<1>3. Holders' = Holders
  BY <1>1, <1>2 DEF Goto, Holders, Filled
<1>4. TypeOK' /\ CallInv' /\ NameInv'
  BY <1>1, <1>2 DEF Goto, Inv, TypeOK, CallInv, NameInv
<1> QED
  BY <1>1, <1>2, <1>3, <1>4, GoOnInv

-----------------------------------------------------------------------------
(* gpu_auto_process never succeeds with pixels that are not decoded, and   *)
(* decodes on the GPU what must not be read by the CPU.                    *)
LEMMA Decoded ==
  ASSUME NEW q \in Queries, NEW o, o = AutoProcess(q), o.ret = "ok", o.at # "nowhere"
  PROVE  /\ q.scan.mod # "invalid" =>
              \/ o.layout = "linear" /\ o.format = "rgb8"
              \/ q.scan.mod = "tiled" /\ q.scan.format = "rgb16"
         /\ q.force => o.at = "readback"
<1> DEFINE scan == q.scan
<1>1. /\ scan.mod \in {"linear", "tiled", "ccs", "invalid"}
      /\ scan.format \in {"rgb8", "rgb10", "rgb16"}
      /\ scan.mod # "invalid" => scan.layout = scan.mod
      /\ q.egl \in {"none", "fails", "nospace", "works"}
  BY DEF Queries, Scanouts, Layouts, Formats
<1> QED
  BY <1>1 DEF AutoProcess, IsLinear, Reduce, AsIs, EglApplies, EglDetile, OnCpu,
              Deswizzle, Refused, InBuffer

(* A frame that is handed out is held from then on.                        *)
LEMMA HandInv ==
  ASSUME Inv, NEW outcome, Hand(outcome), pc \in {"process", "give", "desc"},
         UNCHANGED <<gpu, scanout, cap, bo, buf, win, maps, privs, staged>>,
         grabPlane' = call.plane, frames' \in [Frames -> FrameType],
         \A f \in Frames : /\ frames'[f].priv = frames[f].priv /\ frames'[f].fd = frames[f].fd
                           /\ frames'[f].fb = frames[f].fb
                           /\ f # call.frame => frames'[f] = frames[f],
         PixelsDecoded'
  PROVE  Inv'
<1>1. /\ pc' = "idle" /\ call' = Idle /\ named' = call.plane
      /\ given' = given \cup {call.frame}
  BY DEF Hand, Finish
<1>2. /\ Live' = Live /\ Holders' = Holders /\ Holders \subseteq Frames
      /\ call.frame \in Holders
  BY <1>1 DEF Live, Holders, Filled, Inv, TypeOK, CallType
<1>3. call.gem = NoHandle /\ call.fd = NoFd
  BY DEF Inv, CallInv
<1>4. TypeOK'
  BY <1>1, IdleCall DEF Inv, TypeOK, CallType
<1>5. CallInv' /\ NameInv'
  BY <1>1, IdleCall DEF CallInv, NameInv
<1>6. FrameInv'
  BY <1>2 DEF Inv, FrameInv
<1>7. HandleInv' /\ FdInv' /\ WindowsBalanced'
  BY <1>1, <1>2, <1>3, IdleCall DEF Inv, HandleInv, FdInv, WindowsBalanced
<1> QED
  BY <1>4, <1>5, <1>6, <1>7 DEF Inv

(* A conversion that succeeds hands out the frame it was given.            *)
LEMMA ProcessInv ==
  ASSUME Inv, pc = "process", NEW o \in Processed, Process(o)
  PROVE  Inv'
<1>1. PICK egl \in {"none", "fails", "nospace", "works"}, room \in BOOLEAN :
        o = AutoProcess(Query(egl, room))
  BY DEF Processed
<1> DEFINE q == Query(egl, room)
<1>2. /\ o.ret = "ok" /\ last'.fb = call.fb /\ last'.at = o.at /\ last'.layout = o.layout
      /\ last'.format = o.format /\ last'.source = call.source
      /\ last'.black <=> call.black /\ o.at # "readback"
  BY DEF Process, Failed, Hand, Finish
<1>3. /\ Scan[call.fb] \in Scanouts /\ gpu.virgl \in BOOLEAN
      /\ call.source = "dmabuf" /\ call.black => gpu.virgl
  BY GrabAssumption DEF Inv, TypeOK, CallInv
<1>4. PixelsDecoded'
  <2>1. ASSUME o.at # "nowhere"
        PROVE  /\ Scan[call.fb].mod # "invalid" =>
                    \/ o.layout = "linear" /\ o.format = "rgb8"
                    \/ Scan[call.fb].mod = "tiled" /\ Scan[call.fb].format = "rgb16"
               /\ call.source = "dmabuf" /\ gpu.virgl => o.at = "readback"
    <3>1. q \in Queries
      <4>1. PICK data \in BOOLEAN : data = (Frame.data # "null")
        OBVIOUS
      <4>2. PICK fd \in BOOLEAN : fd = (Frame.fd # NoFd)
        OBVIOUS
      <4>3. PICK force \in BOOLEAN : force = (call.source = "dmabuf" /\ gpu.virgl)
        OBVIOUS
      <4>4. PICK vendor \in BOOLEAN : vendor = Deswizzles(gpu.driver)
        <5>1. Deswizzles(gpu.driver) \in BOOLEAN
          BY DEF Deswizzles
        <5> QED
          BY <5>1, Zenon
      <4>5. q = [scan |-> Scan[call.fb], data |-> data, fd |-> fd, force |-> force,
                 vendor |-> vendor, egl |-> egl, room |-> room]
        BY <4>1, <4>2, <4>3, <4>4, Zenon DEF Query
      <4> HIDE DEF q
      <4> QED
        BY <1>1, <1>3, <4>5 DEF Queries
    <3>2. q.scan = Scan[call.fb] /\ (q.force <=> call.source = "dmabuf" /\ gpu.virgl)
      BY DEF Query
    <3>3. o = AutoProcess(q)
      BY <1>1
    <3> HIDE DEF q
    <3> QED
      BY <1>2, <2>1, <3>1, <3>2, <3>3, Decoded
  <2> QED
    BY <1>2, <1>3, <2>1 DEF PixelsDecoded
<1>5. /\ frames' \in [Frames -> FrameType]
      /\ \A f \in Frames : /\ frames'[f].priv = frames[f].priv /\ frames'[f].fd = frames[f].fd
                           /\ frames'[f].fb = frames[f].fb
                           /\ f # call.frame => frames'[f] = frames[f]
  <2>1. \/ frames' = [frames EXCEPT ![call.frame].data = "context"]
        \/ frames' = frames
    BY DEF Process
  <2>2. frames \in [Frames -> FrameType]
    BY DEF Inv, TypeOK
  <2> QED
    BY <2>1, <2>2 DEF FrameType
<1>6. /\ UNCHANGED <<gpu, scanout, cap, bo, buf, win, maps, privs, staged>>
      /\ grabPlane' = call.plane
  BY DEF Process, env, kernel
<1>7. PICK outcome : Hand(outcome)
  BY DEF Process
<1> QED
  BY <1>4, <1>5, <1>6, <1>7, HandInv

(* The frame of a grab that fails late is dropped like any other.          *)
LEMMA LateFailInv ==
  ASSUME Inv, pc \in {"process", "desc"}, DropFrame(call.frame), NEW errno, Fail(errno),
         UNCHANGED <<gpu, scanout, cap, staged>>, grabPlane' = named
  PROVE  Inv'
<1>1. /\ pc' = "idle" /\ call' = Idle /\ UNCHANGED <<named, given>>
      /\ last' = [Nothing EXCEPT !.op = call.op, !.ret = errno]
  BY DEF Fail, Finish, history
<1>2. /\ call.frame \in Holders /\ given = Holders \ {call.frame}
      /\ call.gem = NoHandle /\ call.fd = NoFd
  BY DEF Inv, CallInv, Holders, Filled
<1>3. PixelsDecoded'
  BY <1>1 DEF PixelsDecoded, Nothing
<1> QED
  BY <1>1, <1>2, <1>3, DropInv

(* One that fails drops it.                                                *)
LEMMA ProcessFailedInv ==
  ASSUME Inv, pc = "process", NEW o, ProcessFailed(o)
  PROVE  Inv'
<1>1. /\ DropFrame(call.frame) /\ UNCHANGED <<gpu, scanout, cap, staged, grabPlane>>
      /\ Fail(IF o.ret = "ok" THEN "EIO" ELSE o.ret)
  BY DEF ProcessFailed, env, ctx
<1>2. grabPlane = named
  BY DEF Inv, NameInv
<1> QED
  BY <1>1, <1>2, LateFailInv

(* A frame without conversion; drmtap_grab_desc looks at it once more.     *)
LEMMA RawDecoded == ASSUME Hand(Raw) PROVE PixelsDecoded'
BY DEF Hand, Finish, Raw, Nothing, PixelsDecoded

(* A frame is given as it is, or looked at once more first.                *)
LEMMA GiveInv == ASSUME Inv, Give PROVE Inv'
<1>1. /\ UNCHANGED <<gpu, scanout, cap, bo, buf, win, maps, privs, frames, staged>>
      /\ pc = "give" /\ call \in CallType /\ grabPlane' = call.plane
      /\ frames \in [Frames -> FrameType]
  BY DEF Give, env, kernel, Inv, TypeOK
<1>2. CASE Goto("desc", call) /\ UNCHANGED <<last, history>>
  <2>1. UNCHANGED <<named, given, last>>
    BY <1>2 DEF history
  <2>2. Holders' = Holders
    BY <1>1, <1>2, <2>1 DEF Goto, Holders, Filled
  <2>3. TypeOK' /\ CallInv' /\ NameInv'
    BY <1>1, <1>2, <2>1 DEF Goto, Inv, TypeOK, CallInv, NameInv, CallType
  <2> QED
    BY <1>1, <1>2, <2>1, <2>2, <2>3, GoOnInv
<1>3. CASE Hand(Raw)
  BY <1>1, <1>3, RawDecoded, HandInv
<1> QED
  BY <1>2, <1>3 DEF Give

(* drmtap_grab_desc hands out a frame that has a descriptor,               *)
LEMMA DescribeInv == ASSUME Inv, Describe PROVE Inv'
<1>1. /\ UNCHANGED <<gpu, scanout, cap, bo, buf, win, maps, privs, frames>>
      /\ UNCHANGED <<staged, grabPlane>>
      /\ pc = "desc" /\ grabPlane = call.plane /\ Hand(Raw)
      /\ frames \in [Frames -> FrameType]
  BY DEF Describe, env, kernel, ctx, Inv, TypeOK, NameInv
<1> QED
  BY <1>1, RawDecoded, HandInv

(* and drops one that has none, with the plane it had named.               *)
LEMMA DescribeRefusedInv == ASSUME Inv, DescribeRefused PROVE Inv'
<1>1. /\ DropFrame(call.frame) /\ UNCHANGED <<gpu, scanout, cap, staged>>
      /\ Fail("ENOTSUP") /\ pc = "desc" /\ grabPlane' = named
  BY DEF DescribeRefused, env, Inv, NameInv
<1> QED
  BY <1>1, LateFailInv

(* drmtap_frame_release.                                                   *)
LEMMA ReleaseInv == ASSUME Inv, NEW f \in Frames, Release(f) PROVE Inv'
<1>1. /\ DropFrame(f) /\ given' = given \ {f} /\ f \in given
      /\ pc = "idle" /\ pc' = "idle" /\ call = Idle /\ call' = Idle
      /\ UNCHANGED <<gpu, scanout, cap, staged, grabPlane, last, named>>
  BY DEF Release, env, ctx, Inv, CallInv
<1>2. Holders = given /\ grabPlane = named /\ call.gem = NoHandle /\ call.fd = NoFd
  BY <1>1, IdleCall DEF Holders, Filled, Inv, NameInv
<1>3. PixelsDecoded'
  BY <1>1 DEF Inv, PixelsDecoded
<1> QED
  BY <1>1, <1>2, <1>3, DropInv

-----------------------------------------------------------------------------
(* The environment leaves all of this alone.                               *)
LEMMA EnvInv ==
  ASSUME Inv, scanout' \in Fbs \cup {NoFb}, cap' \in BOOLEAN,
         UNCHANGED <<gpu, kernel, privs, frames, ctx, pc, call, last, history>>
  PROVE  Inv'
<1>1. /\ UNCHANGED <<gpu, bo, buf, win, maps, privs, frames, staged, grabPlane>>
      /\ UNCHANGED <<pc, call, last, named, given>>
  BY DEF kernel, ctx, history
<1>2. TypeOK' /\ CallInv' /\ NameInv' /\ PixelsDecoded'
  BY <1>1 DEF Inv, TypeOK, CallInv, Frame, Priv, NameInv, PixelsDecoded
<1>3. FrameInv' /\ HandleInv' /\ FdInv' /\ WindowsBalanced'
  <2>1. Holders' = Holders
    BY <1>1 DEF Holders, Filled
  <2> QED
    BY <1>1, <2>1, SameHeap
<1> QED
  BY <1>2, <1>3 DEF Inv

(* Nothing is held at the start.                                           *)
LEMMA InitInv == Init => Inv
<1> SUFFICES ASSUME Init PROVE Inv
  OBVIOUS
<1>1. TypeOK
  BY Nulls, IdleCall DEF Init, DetectDriver, TypeOK
<1>2. Live = {} /\ Holders = {}
  BY Nulls DEF Init, Live, Holders, Filled
<1>3. CallInv /\ NameInv
  BY IdleCall DEF Init, CallInv, NameInv
<1>4. FrameInv
  BY <1>2 DEF Init, FrameInv
<1>5. HandleInv /\ FdInv
  BY <1>2, IdleCall, GrabAssumption DEF Init, HandleInv, FdInv
<1>6. WindowsBalanced
  BY Nulls DEF Init, WindowsBalanced
<1>7. PixelsDecoded
  BY DEF Init, PixelsDecoded, Nothing
<1> QED
  BY <1>1, <1>3, <1>4, <1>5, <1>6, <1>7 DEF Inv

(* Every step of do_grab up to the record preserves the invariant,         *)
LEMMA AcquireInv == ASSUME Inv, Acquire PROVE Inv'
<1>1. CASE NoDisplay \/ GetFb2Failed \/ NoReceiveBuffer
  BY <1>1, FailInv DEF NoDisplay, GetFb2Failed, NoReceiveBuffer
<1>2. CASE GetFb2Rejected \/ ExportFailed \/ HelperFailed \/ NoHelper
  BY <1>2, CleanupInv DEF GetFb2Rejected, ExportFailed, HelperFailed, NoHelper,
                          GeometryRefused
<1>3. CASE ReadPlane \/ GetFb2Unprivileged \/ ExportDenied \/ HelperPixels
  BY <1>3, ReadPlaneInv, GetFb2UnprivilegedInv, ExportDeniedInv, HelperPixelsInv
<1>4. ASSUME NEW h \in Fresh, GetFb2(h) PROVE Inv'
  BY <1>4, GetFb2Inv
<1>5. ASSUME NEW d \in Fds, buf[d] = NoFb, Export(d) \/ HelperDmabuf(d) PROVE Inv'
  BY <1>5, ExportInv, HelperDmabufInv
<1> QED
  BY <1>1, <1>2, <1>3, <1>4, <1>5 DEF Acquire

(* so does every step from there to the caller,                            *)
LEMMA DeliverInv == ASSUME Inv, Deliver PROVE Inv'
<1>1. CASE AdoptFailed
  BY <1>1, CleanupInv DEF AdoptFailed, GeometryRefused
<1>2. CASE (\E p \in Privs : Adopt(p)) \/ (\E started \in BOOLEAN : Map(started)) \/ MapFailed
  BY <1>2, AdoptInv, MapInv, MapFailedInv
<1>3. CASE pc = "process" /\ \E o \in Processed : Process(o) \/ ProcessFailed(o)
  BY <1>3, ProcessInv, ProcessFailedInv
<1>4. CASE Give \/ Describe \/ DescribeRefused
  BY <1>4, GiveInv, DescribeInv, DescribeRefusedInv
<1> QED
  BY <1>1, <1>2, <1>3, <1>4 DEF Deliver

(* and so does every step.                                                 *)
LEMMA NextInv == Inv /\ [Next]_vars => Inv'
<1> SUFFICES ASSUME Inv, [Next]_vars PROVE Inv'
  OBVIOUS
<1>1. scanout \in Fbs \cup {NoFb} /\ cap \in BOOLEAN
  BY DEF Inv, TypeOK
<1>2. CASE Flip
  BY <1>1, <1>2, EnvInv DEF Flip
<1>3. CASE DropPrivilege
  BY <1>1, <1>3, EnvInv DEF DropPrivilege
<1>4. CASE UNCHANGED vars
  BY <1>1, <1>4, EnvInv DEF vars, env
<1>5. CASE \E op \in Ops, f \in Frames : Begin(op, f)
  BY <1>5, BeginInv
<1>6. CASE \E f \in Frames : Release(f)
  BY <1>6, ReleaseInv
<1>7. CASE Acquire \/ Deliver
  BY <1>7, AcquireInv, DeliverInv
<1> QED
  BY <1>2, <1>3, <1>4, <1>5, <1>6, <1>7 DEF Next

-----------------------------------------------------------------------------
(* What the invariant implies.                                             *)
LEMMA InvLeaksNothing == ASSUME Inv PROVE NothingLeaks
<1>1. Accountable = Live
  <2> DEFINE asked == given \cup (IF pc = "idle" THEN {} ELSE {call.frame})
  <2>1. asked \subseteq Frames /\ Holders \subseteq asked
    BY DEF Inv, TypeOK, CallType, Holders, Filled
  <2>2. \A f \in Holders : frames[f].priv \in Live
    BY DEF Inv, FrameInv
  <2>3. \A f \in asked \ Holders : frames[f].priv = NoPriv
    BY <2>1, Nulls DEF Inv, FrameInv
  <2>4. \A p \in Live : p # NoPriv /\ \E f \in Holders : frames[f].priv = p
    BY GrabAssumption DEF Inv, FrameInv, Live
  <2>5. Accountable = {frames[f].priv : f \in asked} \ {NoPriv}
    BY DEF Accountable
  <2> HIDE DEF asked
  <2> QED
    BY <2>1, <2>2, <2>3, <2>4, <2>5
<1>2. \A p \in Live : privs[p].gem \in Handles \cup {NoHandle} /\ privs[p].fd \in Fds \cup {NoFd}
  BY DEF Inv, TypeOK, PrivType, Live
<1>3. call.gem \in Handles \cup {NoHandle} /\ call.fd \in Fds \cup {NoFd}
  BY DEF Inv, TypeOK, CallType
<1>4. {h \in Handles : bo[h] # NoFb} = ({privs[p].gem : p \in Live} \cup {call.gem}) \ {NoHandle}
  BY <1>2, <1>3, GrabAssumption DEF Inv, HandleInv
<1>5. {d \in Fds : buf[d] # NoFb} = ({privs[p].fd : p \in Live} \cup {call.fd}) \ {NoFd}
  BY <1>2, <1>3, GrabAssumption DEF Inv, FdInv
<1>6. maps \subseteq Live /\ {p \in Privs : privs[p].live} = Live
  BY DEF Inv, FrameInv, Live
<1> QED
  BY <1>1, <1>4, <1>5, <1>6 DEF NothingLeaks

(* A held frame has a record of its own, any other frame none.             *)
LEMMA InvReleasable == ASSUME Inv PROVE FramesReleasable
<1> SUFFICES ASSUME NEW f \in Frames, frames[f].priv # NoPriv
             PROVE  /\ privs[frames[f].priv].live
                    /\ \A g \in Frames \ {f} : frames[g].priv # frames[f].priv
  BY DEF FramesReleasable
<1>1. f \in Holders
  BY Nulls DEF Inv, FrameInv
<1> QED
  BY <1>1, Nulls DEF Inv, FrameInv, Live

(* A frame with a descriptor is a held one.                                *)
LEMMA InvFdIsItsBuffer == ASSUME Inv PROVE FrameFdIsItsBuffer
BY Nulls DEF Inv, FrameInv, FrameFdIsItsBuffer

-----------------------------------------------------------------------------
(* The invariant holds of every behaviour.                                 *)
THEOREM SpecInv == Spec => []Inv
BY InitInv, NextInv, PTL DEF Spec

(* Every variable keeps its type: no descriptor sees an END too many.      *)
THEOREM TypeCorrect == Spec => []TypeOK
<1>1. Inv => TypeOK
  BY DEF Inv
<1> QED
  BY <1>1, SpecInv, PTL

(* do_grab and drmtap_frame_release leak nothing, on any path, whatever    *)
(* the order in which frames are taken and released.                       *)
THEOREM NoLeak == Spec => []NothingLeaks
BY InvLeaksNothing, SpecInv, PTL

(* Every DMA_BUF_IOCTL_SYNC START that succeeded is ended once.            *)
THEOREM SyncBalanced == Spec => []WindowsBalanced
<1>1. Inv => WindowsBalanced
  BY DEF Inv
<1> QED
  BY <1>1, SpecInv, PTL

(* drmtap_frame_release may be called on any frame the caller holds.       *)
THEOREM ReleasedOnce == Spec => []FramesReleasable
BY InvReleasable, SpecInv, PTL

(* A frame's descriptor is of the framebuffer its fb_id names.             *)
THEOREM LabelledRight == Spec => []FrameFdIsItsBuffer
BY InvFdIsItsBuffer, SpecInv, PTL

(* drmtap_plane_rotation answers for the last frame handed out.            *)
THEOREM PlaneNamed == Spec => []NamesCapturedPlane
<1>1. Inv => NamesCapturedPlane
  BY DEF Inv, NameInv, NamesCapturedPlane
<1> QED
  BY <1>1, SpecInv, PTL

(* What drmtap_grab_mapped hands out as pixels has been decoded.           *)
THEOREM Delivered == Spec => []PixelsDecoded
<1>1. Inv => PixelsDecoded
  BY DEF Inv
<1> QED
  BY <1>1, SpecInv, PTL

-----------------------------------------------------------------------------
(* A frame the caller holds is its own: no grab into another frame,        *)
(* whatever it fails at, and no release of another one touches its record, *)
(* its handle, its descriptor, its mapping or its sync window (the frames  *)
(* of drmtap.h are independent of one another; memory of the context,      *)
(* which frame->data may point to, is not the frame's).                    *)
Untouched(f) ==
  LET p == frames[f].priv
      owned == privs[p]
  IN /\ frames'[f] = frames[f]
     /\ privs'[p] = owned
     /\ p \in maps' <=> p \in maps
     /\ owned.gem # NoHandle => bo'[owned.gem] = bo[owned.gem]
     /\ owned.fd # NoFd => buf'[owned.fd] = buf[owned.fd] /\ win'[owned.fd] = win[owned.fd]

HeldFramesUntouched == [][\A f \in given \cap given' : Untouched(f)]_vars

(* What is known of the frame and of its record.                           *)
LEMMA HeldOwns ==
  ASSUME Inv, NEW f \in given
  PROVE  LET p == frames[f].priv
             owned == privs[p]
         IN /\ f \in Holders /\ f \in Frames /\ p \in Privs /\ p \in Live
            /\ owned.gem # NoHandle => /\ owned.gem \in Handles /\ bo[owned.gem] # NoFb
                                       /\ owned.gem # call.gem
            /\ owned.fd # NoFd => /\ owned.fd \in Fds /\ buf[owned.fd] # NoFb
                                  /\ owned.fd # call.fd
            /\ pc # "idle" => f # call.frame
<1> DEFINE p == frames[f].priv
           owned == privs[p]
<1>1. f \in Holders BY DEF Holders
<1>2. f \in Frames /\ p \in Live /\ p \in Privs /\ owned \in PrivType
  BY <1>1, Held
<1>3. owned.gem # NoHandle => /\ owned.gem \in Handles /\ bo[owned.gem] # NoFb
                              /\ owned.gem # call.gem
  BY <1>2 DEF PrivType, Inv, HandleInv
<1>4. owned.fd # NoFd => /\ owned.fd \in Fds /\ buf[owned.fd] # NoFb
                         /\ owned.fd # call.fd
  BY <1>2 DEF PrivType, Inv, FdInv
<1>5. pc # "idle" => f # call.frame BY DEF Inv, CallInv
<1> QED BY <1>1, <1>2, <1>3, <1>4, <1>5

(* The failure of a grab that had no record yet.                           *)
LEMMA CleanupUntouched ==
  ASSUME Inv, NEW f \in given, pc # "idle", NEW errno, Cleanup(errno)
  PROVE  Untouched(f)
<1>1. UNCHANGED <<win, maps, privs>>
  BY DEF Cleanup
<1>2. frames'[f] = frames[f]
  BY HeldOwns DEF Cleanup, Inv, TypeOK
<1>3. privs[frames[f].priv].gem # NoHandle
        => bo'[privs[frames[f].priv].gem] = bo[privs[frames[f].priv].gem]
  BY HeldOwns DEF Cleanup
<1>4. privs[frames[f].priv].fd # NoFd
        => buf'[privs[frames[f].priv].fd] = buf[privs[frames[f].priv].fd]
  BY HeldOwns DEF Cleanup
<1> QED BY <1>1, <1>2, <1>3, <1>4 DEF Untouched

(* What another frame owns goes.                                           *)
LEMMA DropUntouched ==
  ASSUME Inv, NEW f \in given, NEW g \in Holders, g # f, DropFrame(g)
  PROVE  Untouched(f)
<1> DEFINE p == frames[f].priv
           q == frames[g].priv
<1>1. /\ f \in Frames /\ f \in Holders /\ p \in Live /\ p \in Privs
      /\ privs[p].gem # NoHandle => privs[p].gem \in Handles
      /\ privs[p].fd # NoFd => privs[p].fd \in Fds
  BY HeldOwns
<1>2. g \in Frames /\ q \in Live /\ q \in Privs
  BY Held
<1>3. p # q BY <1>1 DEF Inv, FrameInv
<1>4. privs[p].gem # NoHandle => privs[p].gem # privs[q].gem
  BY <1>1, <1>2, <1>3 DEF Inv, HandleInv
<1>5. privs[p].fd # NoFd => privs[p].fd # privs[q].fd
  BY <1>1, <1>2, <1>3 DEF Inv, FdInv
<1>6. /\ win' = [d \in Fds |-> IF privs[q].sync /\ d = privs[q].fd THEN win[d] - 1 ELSE win[d]]
      /\ maps' = maps \ {q}
      /\ buf' = [d \in Fds |-> IF d = privs[q].fd THEN NoFb ELSE buf[d]]
      /\ bo' = [h \in Handles |-> IF h = privs[q].gem THEN NoFb ELSE bo[h]]
      /\ privs' = [privs EXCEPT ![q] = Freed]
      /\ frames' = [frames EXCEPT ![g] = Zeroed]
  BY DEF DropFrame, Dropped
<1>7. DOMAIN frames = Frames /\ DOMAIN privs = Privs
  BY DEF Inv, TypeOK
<1> HIDE DEF p, q
<1>8. frames'[f] = frames[f] BY <1>1, <1>6, <1>7
<1>9. privs'[p] = privs[p] BY <1>1, <1>3, <1>6, <1>7
<1>10. p \in maps' <=> p \in maps BY <1>3, <1>6
<1>11. privs[p].gem # NoHandle => bo'[privs[p].gem] = bo[privs[p].gem]
  BY <1>1, <1>4, <1>6
<1>12. privs[p].fd # NoFd => /\ buf'[privs[p].fd] = buf[privs[p].fd]
                             /\ win'[privs[p].fd] = win[privs[p].fd]
  BY <1>1, <1>5, <1>6
<1> QED BY <1>8, <1>9, <1>10, <1>11, <1>12 DEF Untouched, p

(* A step that touches the objects of nobody.                              *)
LEMMA QuietUntouched ==
  ASSUME NEW f, UNCHANGED <<kernel, privs, frames>>
  PROVE  Untouched(f)
BY DEF kernel, Untouched

(* A grab on its way to a frame: what do_grab, grab_via_drm and            *)
(* grab_via_helper open, adopt or close is the grab's own.                 *)
LEMMA AcquireUntouched == ASSUME Inv, NEW f \in given, Acquire PROVE Untouched(f)
<1>1. CASE NoDisplay \/ GetFb2Failed \/ NoReceiveBuffer \/ ReadPlane \/ GetFb2Unprivileged
           \/ HelperPixels
  BY <1>1, QuietUntouched
  DEF NoDisplay, GetFb2Failed, NoReceiveBuffer, ReadPlane, GetFb2Unprivileged, HelperPixels
<1>2. CASE GetFb2Rejected \/ ExportFailed \/ HelperFailed \/ NoHelper
  BY <1>2, CleanupUntouched DEF GetFb2Rejected, ExportFailed, HelperFailed, NoHelper,
                                GeometryRefused
<1>3. ASSUME NEW h \in Fresh, GetFb2(h) PROVE Untouched(f)
  <2>1. UNCHANGED <<buf, win, maps, privs, frames>> /\ bo' = [bo EXCEPT ![h] = call.fb]
    BY <1>3 DEF GetFb2
  <2>2. bo[h] = NoFb /\ bo \in [Handles -> Fbs \cup {NoFb}] BY DEF Fresh, Inv, TypeOK
  <2>3. privs[frames[f].priv].gem # NoHandle
          => bo'[privs[frames[f].priv].gem] = bo[privs[frames[f].priv].gem]
    BY <2>1, <2>2, HeldOwns
  <2> QED BY <2>1, <2>3 DEF Untouched
<1>4. CASE ExportDenied
  <2>1. UNCHANGED <<buf, win, maps, privs, frames>> /\ bo' = [bo EXCEPT ![call.gem] = NoFb]
    BY <1>4 DEF ExportDenied
  <2>2. bo \in [Handles -> Fbs \cup {NoFb}] BY DEF Inv, TypeOK
  <2>3. privs[frames[f].priv].gem # NoHandle
          => bo'[privs[frames[f].priv].gem] = bo[privs[frames[f].priv].gem]
    BY <2>1, <2>2, HeldOwns
  <2> QED BY <2>1, <2>3 DEF Untouched
<1>5. ASSUME NEW d \in Fds, buf[d] = NoFb, Export(d) \/ HelperDmabuf(d) PROVE Untouched(f)
  <2>1. UNCHANGED <<bo, win, maps, privs, frames>> /\ \E b : buf' = [buf EXCEPT ![d] = b]
    BY <1>5 DEF Export, HelperDmabuf
  <2>2. buf \in [Fds -> Fbs \cup {NoFb}] BY DEF Inv, TypeOK
  <2>3. privs[frames[f].priv].fd # NoFd
          => buf'[privs[frames[f].priv].fd] = buf[privs[frames[f].priv].fd]
    BY <1>5, <2>1, <2>2, HeldOwns
  <2> QED BY <2>1, <2>3 DEF Untouched
<1> QED
  BY <1>1, <1>2, <1>3, <1>4, <1>5 DEF Acquire

(* The rest of a grab: the record and the mapping are those of its frame.  *)
LEMMA DeliverUntouched == ASSUME Inv, NEW f \in given, Deliver PROVE Untouched(f)
<1> DEFINE p == frames[f].priv
<1>0. DOMAIN frames = Frames /\ DOMAIN privs = Privs BY DEF Inv, TypeOK
<1>1. CASE AdoptFailed
  BY <1>1, CleanupUntouched DEF AdoptFailed, GeometryRefused
<1>2. ASSUME NEW q \in Privs, Adopt(q) PROVE Untouched(f)
  <2>1. UNCHANGED kernel /\ q # p /\ f # call.frame
    BY <1>2, HeldOwns DEF Adopt, Live
  <2>2. privs'[p] = privs[p] /\ frames'[f] = frames[f]
    BY <1>0, <1>2, <2>1, HeldOwns DEF Adopt
  <2> QED BY <2>1, <2>2 DEF Untouched, kernel
<1>3. ASSUME NEW started \in BOOLEAN, Map(started) PROVE Untouched(f)
  <2> DEFINE g == call.frame
             q == frames[g].priv
  <2>1. g \in Holders /\ g # f /\ f \in Holders
    BY <1>3, HeldOwns DEF Map, Holders, Filled
  <2>2. p # q /\ p \in Live /\ q \in Live /\ p \in Privs /\ q \in Privs
    BY <2>1, Held DEF Inv, FrameInv
  <2>3. privs[p].fd # NoFd => privs[p].fd # privs[q].fd
    BY <2>2 DEF Inv, FdInv
  <2>4. /\ maps' = maps \cup {q} /\ UNCHANGED <<bo, buf>>
        /\ win' = win \/ win' = [win EXCEPT ![privs[q].fd] = @ + 1]
        /\ privs' = [privs EXCEPT ![q].sync = started]
        /\ frames' = [frames EXCEPT ![g].data = "own"]
    BY <1>3 DEF Map, Priv, Frame
  <2>5. win \in [Fds -> Nat] BY DEF Inv, TypeOK
  <2>6. privs[p].fd # NoFd => win'[privs[p].fd] = win[privs[p].fd]
    BY <2>3, <2>4, <2>5, HeldOwns
  <2>7. frames'[f] = frames[f] /\ privs'[p] = privs[p]
    BY <1>0, <2>1, <2>2, <2>4
  <2>8. p \in maps' <=> p \in maps BY <2>2, <2>4
  <2> QED BY <2>4, <2>6, <2>7, <2>8 DEF Untouched
<1>4. ASSUME NEW o, Process(o) PROVE Untouched(f)
  <2>1. UNCHANGED <<kernel, privs>> /\ f # call.frame
    BY <1>4, HeldOwns DEF Process
  <2>2. frames'[f] = frames[f]
    BY <1>0, <1>4, <2>1, HeldOwns DEF Process
  <2> QED BY <2>1, <2>2 DEF Untouched, kernel
<1>5. ASSUME NEW o, ProcessFailed(o) PROVE Untouched(f)
  <2>1. DropFrame(call.frame) /\ pc = "process" BY <1>5 DEF ProcessFailed
  <2>2. call.frame \in Holders /\ call.frame # f BY <2>1, HeldOwns DEF Holders, Filled
  <2> QED BY <2>1, <2>2, DropUntouched
<1>6. CASE DescribeRefused
  <2>1. DropFrame(call.frame) /\ pc = "desc" BY <1>6 DEF DescribeRefused
  <2>2. call.frame \in Holders /\ call.frame # f BY <2>1, HeldOwns DEF Holders, Filled
  <2> QED BY <2>1, <2>2, DropUntouched
<1>7. CASE MapFailed \/ Give \/ Describe
  BY <1>7, QuietUntouched DEF MapFailed, Give, Describe
<1> QED
  BY <1>1, <1>2, <1>3, <1>4, <1>5, <1>6, <1>7 DEF Deliver

(* No grab, failed or not, and no drmtap_frame_release of another frame    *)
(* touches what a held frame owns.                                         *)
THEOREM FramesIndependent == Spec => HeldFramesUntouched
<1>1. Inv /\ [Next]_vars => [\A f \in given \cap given' : Untouched(f)]_vars
  <2> SUFFICES ASSUME Inv, Next, NEW f \in given \cap given' PROVE Untouched(f)
    OBVIOUS
  <2>1. CASE \E op \in Ops, g \in Frames : Begin(op, g)
    BY <2>1, QuietUntouched DEF Begin
  <2>2. CASE Acquire \/ Deliver
    BY <2>2, AcquireUntouched, DeliverUntouched
  <2>3. ASSUME NEW g \in Frames, Release(g) PROVE Untouched(f)
    <3>1. DropFrame(g) /\ g \in Holders /\ g # f BY <2>3 DEF Release, Holders
    <3> QED BY <3>1, DropUntouched
  <2>4. CASE Flip \/ DropPrivilege
    BY <2>4, QuietUntouched DEF Flip, DropPrivilege
  <2> QED BY <2>1, <2>2, <2>3, <2>4 DEF Next
<1> QED
  BY <1>1, SpecInv, PTL DEF Spec, HeldFramesUntouched
====
