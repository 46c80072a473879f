--------------------------- MODULE FastGrabProofs ---------------------------
(***************************************************************************)
(* Safety of the fast path, for any number of slots, framebuffers, handles *)
(* and descriptors.  Every theorem follows from the inductive invariant    *)
(* Inv of FastGrab; the steps of Next are taken in groups: those that      *)
(* leave the slots and the kernel's tables alone, the cleanups, the ones   *)
(* that only move sync windows, the eviction, and the acquisition.         *)
(***************************************************************************)
EXTENDS FastGrab, TLAPS

USE SentinelAssumption, SlotsAssumption

(* The initial state owns nothing.                                         *)
LEMMA InitInv == Init => Inv
<1> SUFFICES ASSUME Init PROVE Inv
  OBVIOUS
<1> USE DEF Init
<1>1. TypeOK
  <2>1. 0 \in Slots
    BY DEF Slots
  <2>2. slots \in [Slots -> SlotType]
    <3>1. EmptySlot \in SlotType
      BY DEF SlotType, EmptySlot
    <3> QED
      BY <3>1
  <2>3. call \in CallType
    BY <2>1 DEF CallType, NoCall, Results
  <2>4. conv \in ConvType
    BY DEF ConvType
  <2>5. /\ bo \in [Handles -> Fbs \cup {NoFb}]
        /\ buf \in [Fds -> Fbs \cup {NoFb}]
        /\ win \in [Fds -> Int]
    OBVIOUS
  <2> QED
    BY <2>2, <2>3, <2>4, <2>5 DEF TypeOK
<1>2. NothingLeaks
  BY DEF NothingLeaks, GemOwned, FdOwned, EmptySlot, NoCall
<1>3. WindowsBalanced
  BY DEF WindowsBalanced, OwesEnd, EmptySlot, NoCall
<1>4. WindowOfLastFrame /\ SlotsFaithful /\ ConvertsOwnPlanes
  BY DEF WindowOfLastFrame, SlotsFaithful, ConvertsOwnPlanes, EmptySlot
<1>5. SlotShape /\ CallShape /\ FlagShape
  BY DEF SlotShape, CallShape, FlagShape, EmptySlot, NoCall, Acquiring, Holds
<1> QED
  BY <1>1, <1>2, <1>3, <1>4, <1>5 DEF Inv

(* fast_sync_close leaves no window open but the one the call itself       *)
(* holds.                                                                  *)
LEMMA SyncClose ==
  ASSUME Inv
  PROVE  /\ WinClosed \in [Fds -> Int]
         /\ \A f \in Fds : WinClosed[f] = IF call.fd = f /\ call.sync THEN 1 ELSE 0
<1>1. WinClosed \in [Fds -> Int]
  BY DEF Inv, TypeOK, WinClosed
<1>2. ASSUME NEW f \in Fds
      PROVE  WinClosed[f] = IF call.fd = f /\ call.sync THEN 1 ELSE 0
  <2>1. f \in OpenFds <=> \E i \in Slots : slots[i].fd = f /\ slots[i].sync
    BY DEF OpenFds
  <2>2. win[f] \in Int /\ win[f] = IF OwesEnd(f) THEN 1 ELSE 0
    BY DEF Inv, TypeOK, WindowsBalanced
  <2>3. ~(call.sync /\ call.fd = f /\ f \in OpenFds)
    BY <2>1 DEF Inv, CallShape, TypeOK, CallType, NoCall, Acquiring
  <2> QED
    BY <2>1, <2>2, <2>3 DEF WinClosed, OwesEnd
<1> QED
  BY <1>1, <1>2

(* drmtap_fast_cleanup gives back everything, when the call in progress    *)
(* holds nothing of its own.                                               *)
LEMMA CleanupReleases ==
  ASSUME Inv, FastCleanup, call.gem = NoHandle, call.fd = NoFd
  PROVE  /\ bo' = [h \in Handles |-> NoFb]
         /\ buf' = [f \in Fds |-> NoFb]
         /\ win' = [f \in Fds |-> 0]
         /\ maps' = {}
         /\ slots' = [i \in Slots |-> EmptySlot]
<1>1. bo' = [h \in Handles |-> NoFb]
  BY DEF Inv, NothingLeaks, GemOwned, FastCleanup
<1>2. buf' = [f \in Fds |-> NoFb]
  BY DEF Inv, NothingLeaks, FdOwned, FastCleanup
<1>3. win' = [f \in Fds |-> 0]
  <2>1. win' = WinClosed
    BY DEF FastCleanup
  <2> QED
    BY <2>1, SyncClose DEF WinClosed
<1>4. maps' = {}
  BY DEF Inv, TypeOK, NothingLeaks, FastCleanup
<1> QED
  BY <1>1, <1>2, <1>3, <1>4 DEF FastCleanup

(* A state in which the slots are empty and the kernel's tables too.       *)
LEMMA CleanupInv ==
  ASSUME Inv, FastCleanup, call.gem = NoHandle, call.fd = NoFd,
         TypeOK', pc' = "idle", NEW r \in Results, call' = NoCall(r),
         ConvertsOwnPlanes'
  PROVE  Inv'
<1>1. /\ bo' = [h \in Handles |-> NoFb]
      /\ buf' = [f \in Fds |-> NoFb]
      /\ win' = [f \in Fds |-> 0]
      /\ maps' = {}
      /\ slots' = [i \in Slots |-> EmptySlot]
      /\ lastFb' = NoFb
      /\ initialized' = FALSE
  BY CleanupReleases DEF FastCleanup
<1>2. NothingLeaks'
  BY <1>1 DEF NothingLeaks, GemOwned, FdOwned, EmptySlot, NoCall
<1>3. WindowsBalanced'
  BY <1>1 DEF WindowsBalanced, OwesEnd, EmptySlot, NoCall
<1>4. WindowOfLastFrame' /\ SlotsFaithful'
  BY <1>1 DEF WindowOfLastFrame, SlotsFaithful, EmptySlot
<1>5. SlotShape' /\ CallShape' /\ FlagShape'
  BY <1>1 DEF SlotShape, CallShape, FlagShape, EmptySlot, NoCall, Acquiring, Holds
<1> QED
  BY <1>2, <1>3, <1>4, <1>5 DEF Inv

-----------------------------------------------------------------------------
(* Every action keeps the variables within their types.                    *)
LEMMA SlotTypes ==
  ASSUME slots \in [Slots -> SlotType]
  PROVE  /\ EmptySlot \in SlotType
         /\ SlotsClosed \in [Slots -> SlotType]
         /\ \A i \in Slots : /\ SlotsClosed[i].fb = slots[i].fb
                             /\ SlotsClosed[i].gem = slots[i].gem
                             /\ SlotsClosed[i].fd = slots[i].fd
                             /\ ~SlotsClosed[i].sync
  BY DEF SlotType, EmptySlot, SlotsClosed

(* Entry, refusal and the reading of the plane keep the types.              *)
LEMMA EnterCallType == Inv /\ EnterCall => TypeOK'
<1> SUFFICES ASSUME Inv, EnterCall PROVE TypeOK'
  OBVIOUS
<1> USE DEF Inv, TypeOK, env, kernel, ctx, flags
<1>0. /\ 0 \in Slots
      /\ \A r \in Results : NoCall(r) \in CallType
  BY DEF Slots, CallType, NoCall
<1>1. CASE Refused
  BY <1>0, <1>1 DEF Refused, Return, Results
<1>2. CASE Enter
  BY <1>0, <1>2 DEF Enter, Goto, Results
<1>3. CASE EnterFirst
  BY <1>0, <1>3, SlotTypes, ZenonT(60) DEF EnterFirst, ReadHdr, Goto, Return, Results
<1>4. CASE ReadPlane
  BY <1>4 DEF ReadPlane, Goto, CallType
<1>5. CASE PlaneBlank
  BY <1>0, <1>5, SyncClose, SlotTypes DEF PlaneBlank, FastCleanup, Return, Results
<1> QED
  BY <1>1, <1>2, <1>3, <1>4, <1>5 DEF EnterCall

(* Serving a cached slot or choosing a slot to fill keeps the types.        *)
LEMMA CacheType == Inv /\ Cache => TypeOK'
<1> SUFFICES ASSUME Inv, Cache PROVE TypeOK'
  OBVIOUS
<1> USE DEF Inv, TypeOK, env, kernel, ctx, flags
<1>0. /\ 0 \in Slots
      /\ \A r \in Results : NoCall(r) \in CallType
  BY DEF Slots, CallType, NoCall
<1>1. ASSUME NEW i \in Slots, ServeCached(i)
      PROVE  TypeOK'
  <2>1. PICK started \in BOOLEAN : BeginRead(i, started)
    BY <1>1 DEF ServeCached
  <2>2. slots' \in [Slots -> SlotType]
    BY <2>1, SlotTypes, SMTT(30) DEF BeginRead, SlotType
  <2>3. win' \in [Fds -> Int]
    BY <2>1, SyncClose DEF BeginRead
  <2>4. staged' \in Fbs \cup {NoFb}
    BY <1>1 DEF ServeCached, Restage, SlotType
  <2>5. lastFb' \in Fbs \cup {NoFb} /\ conv' \in ConvType
    BY <1>1, <2>4 DEF ServeCached, Convert, CallType, ConvType
  <2>6. call' \in CallType /\ pc' = "idle" /\ grabPlane' \in Planes \cup {NoPlane}
    BY <1>0, <1>1 DEF ServeCached, Convert, Return, Results
  <2> QED
    BY <1>1, <2>1, <2>2, <2>3, <2>4, <2>5, <2>6 DEF ServeCached, BeginRead
<1>2. ASSUME NEW i \in Slots, TransferFailed(i)
      PROVE  TypeOK'
  BY <1>0, <1>2, SyncClose, SlotTypes DEF TransferFailed, Return, Results
<1>3. ASSUME NEW i \in Slots, MissEmptySlot(i)
      PROVE  TypeOK'
  BY <1>3, SyncClose, SlotTypes DEF MissEmptySlot, Goto, CallType
<1>4. CASE MissEvict
  BY <1>0, <1>4, SyncClose, SlotTypes DEF MissEvict, Evicted, Goto, CallType, Victim
<1> QED
  BY <1>1, <1>2, <1>3, <1>4 DEF Cache

(* GetFB2, export, mapping and fallback keep the types.                     *)
LEMMA AcquireType == Inv /\ Acquire => TypeOK'
<1> SUFFICES ASSUME Inv, Acquire PROVE TypeOK'
  OBVIOUS
<1> USE DEF Inv, TypeOK, env, kernel, ctx, flags
<1>0. /\ 0 \in Slots
      /\ \A r \in Results : NoCall(r) \in CallType
  BY DEF Slots, CallType, NoCall
<1>1. CASE GetFb2Failed
  BY <1>0, <1>1 DEF GetFb2Failed, Return, Results
<1>2. CASE GetFb2Unprivileged
  BY <1>0, <1>2, SyncClose, SlotTypes DEF GetFb2Unprivileged, FastCleanup, Return, Results
<1>3. CASE GetFb2
  BY <1>0, <1>3 DEF GetFb2, Minted, FreshHandles, FbPlanes, Goto, Return, Results, CallType
<1>4. CASE Export
  <2>1. PICK f \in Fds : /\ buf' = [buf EXCEPT ![f] = bo[call.gem]]
                         /\ Goto("map", [call EXCEPT !.fd = f])
    BY <1>4 DEF Export
  <2>2. pc' = "map" /\ call' \in CallType
    BY <2>1 DEF Goto, CallType
  <2>3. buf' \in [Fds -> Fbs \cup {NoFb}]
    <3>1. call.gem \in Handles
      BY <1>4 DEF Export, CallShape, CallType
    <3> QED
      BY <2>1, <3>1
  <2> QED
    BY <1>4, <2>2, <2>3 DEF Export
<1>5. CASE ExportFailed
  <2>1. bo' \in [Handles -> Fbs \cup {NoFb}]
    BY <1>5 DEF ExportFailed, DropGem
  <2>2. pc' = "idle" /\ call' \in CallType
    BY <1>0, <1>5 DEF ExportFailed, Return, Results
  <2> QED
    BY <1>5, <2>1, <2>2 DEF ExportFailed
<1>6. CASE Mapped
  <2>1. PICK started \in BOOLEAN : Store(started)
    BY <1>6 DEF Mapped
  <2>2. call.fd \in Fds /\ call.gem \in Handles
    BY <1>6 DEF Mapped, CallShape, CallType
  <2>3. slots' \in [Slots -> SlotType] /\ maps' \in SUBSET Fds
    BY <2>1, <2>2 DEF Store, SlotType, CallType
  <2>4. win' \in [Fds -> Int]
    BY <2>1, <2>2 DEF Store
  <2>5. lastFb' \in Fbs \cup {NoFb} /\ conv' \in ConvType
    BY <1>6, <2>1 DEF Mapped, Store, Convert, CallType, ConvType
  <2>6. call' \in CallType /\ pc' = "idle" /\ grabPlane' \in Planes \cup {NoPlane}
    BY <1>0, <1>6 DEF Mapped, Convert, Return, Results
  <2> QED
    BY <1>6, <2>3, <2>4, <2>5, <2>6 DEF Mapped
<1>7. CASE MapFailed
  <2>1. PICK started \in BOOLEAN :
          /\ win' = IF started THEN [win EXCEPT ![call.fd] = @ + 1] ELSE win
          /\ Goto("fallback", [call EXCEPT !.sync = started])
    BY <1>7 DEF MapFailed
  <2>2. win' \in [Fds -> Int]
    <3>1. call.fd \in Fds
      BY <1>7 DEF MapFailed, CallShape, CallType
    <3>2. CASE started
      BY <2>1, <3>1, <3>2
    <3>3. CASE ~started
      BY <2>1, <3>3
    <3> QED
      BY <3>2, <3>3
  <2>3. call' \in CallType
    BY <2>1 DEF Goto, CallType
  <2> QED
    BY <1>7, <2>1, <2>2, <2>3 DEF MapFailed, Goto
<1>8. ASSUME ReleaseUncached, pc = "fallback"
      PROVE  /\ win' \in [Fds -> Int]
             /\ buf' \in [Fds -> Fbs \cup {NoFb}]
             /\ bo' \in [Handles -> Fbs \cup {NoFb}]
  <2>1. win' \in [Fds -> Int]
    <3>1. call.fd \in Fds
      BY <1>8 DEF CallShape, CallType
    <3>2. CASE call.sync
      BY <1>8, <3>1, <3>2 DEF ReleaseUncached
    <3>3. CASE ~call.sync
      BY <1>8, <3>3 DEF ReleaseUncached
    <3> QED
      BY <3>2, <3>3
  <2>2. buf' \in [Fds -> Fbs \cup {NoFb}]
    BY <1>8 DEF ReleaseUncached
  <2>3. bo' \in [Handles -> Fbs \cup {NoFb}]
    BY <1>8 DEF ReleaseUncached, DropGem
  <2> QED
    BY <2>1, <2>2, <2>3
<1>9. CASE EglFallback
  <2>1. lastFb' \in Fbs \cup {NoFb} /\ conv' \in ConvType
    BY <1>9 DEF EglFallback, Convert, CallType, ConvType
  <2>2. call' \in CallType /\ pc' = "idle" /\ grabPlane' \in Planes \cup {NoPlane}
    BY <1>0, <1>9 DEF EglFallback, Convert, Return, Results
  <2> QED
    BY <1>8, <1>9, <2>1, <2>2 DEF EglFallback
<1>10. CASE NoFallback
  BY <1>0, <1>8, <1>10 DEF NoFallback, Return, Results
<1> QED
  BY <1>1, <1>2, <1>3, <1>4, <1>5, <1>6, <1>7, <1>9, <1>10 DEF Acquire

(* Close and open, other captures and the environment keep the types.      *)
LEMMA OtherType ==
  Inv /\ (Reopen \/ SlowGrab \/ ConvertForeign \/ Flip \/ SwitchHdr \/ DropPrivilege)
    => TypeOK'
<1> USE DEF Inv, TypeOK, env, kernel, ctx, flags
<1>0. NoCall("none") \in CallType
  BY DEF Slots, CallType, NoCall, Results
<1>1. ASSUME Inv, Reopen PROVE TypeOK'
  <2>1. win' \in [Fds -> Int] /\ slots' \in [Slots -> SlotType]
    BY <1>1, SyncClose, SlotTypes DEF Reopen, FastCleanup
  <2> QED
    BY <1>0, <1>1, <2>1 DEF Reopen, FastCleanup
<1>2. Inv /\ SlowGrab => TypeOK'
  BY <1>0 DEF SlowGrab, ReadHdr
<1>3. Inv /\ ConvertForeign => TypeOK'
  BY <1>0 DEF ConvertForeign
<1>4. Inv /\ Flip => TypeOK'
  BY DEF Flip
<1>5. Inv /\ SwitchHdr => TypeOK'
  BY DEF SwitchHdr
<1>6. Inv /\ DropPrivilege => TypeOK'
  BY ZenonT(60) DEF DropPrivilege
<1> QED
  BY <1>1, <1>2, <1>3, <1>4, <1>5, <1>6

-----------------------------------------------------------------------------
(* Steps that leave the slots and the kernel's tables alone, and keep what *)
(* the call holds.                                                         *)
LEMMA EnterInv == Inv /\ EnterCall => Inv'
<1> SUFFICES ASSUME Inv, EnterCall PROVE Inv'
  OBVIOUS
<1> USE DEF kernel, ctx, flags
<1>0. TypeOK'
  BY EnterCallType
<1>1. ASSUME Refused \/ Enter
      PROVE  Inv'
  BY <1>0, <1>1 DEF Refused, Enter, Return, Goto, Inv, NothingLeaks, GemOwned, FdOwned,
     WindowsBalanced, OwesEnd, WindowOfLastFrame, SlotsFaithful, ConvertsOwnPlanes,
     SlotShape, CallShape, FlagShape, NoCall, Acquiring, Holds
<1>2. CASE EnterFirst
  <2>1. slots' = slots
    <3>1. slots = [i \in Slots |-> EmptySlot]
      BY <1>2 DEF EnterFirst, Inv, TypeOK, SlotShape, FlagShape, Holds
    <3> QED
      BY <1>2, <3>1 DEF EnterFirst
  <2>2. \A i \in Slots : slots[i] = EmptySlot
    BY <1>2 DEF EnterFirst, Inv, SlotShape, FlagShape, Holds
  <2>3. call.gem = NoHandle /\ call.fd = NoFd /\ ~call.sync /\ pc = "idle" /\ ~noPriv
    BY <1>2 DEF EnterFirst, Inv, CallShape, NoCall
  <2>4. \E r \in Results : call' = NoCall(r)
    BY <1>2 DEF EnterFirst, Return, Goto, Results
  <2>5. NothingLeaks' /\ WindowsBalanced'
    BY <1>2, <2>1, <2>3, <2>4 DEF EnterFirst, Inv, NothingLeaks, GemOwned, FdOwned,
       WindowsBalanced, OwesEnd, NoCall
  <2>6. WindowOfLastFrame' /\ SlotsFaithful' /\ SlotShape'
    <3>0. EmptySlot.fb = NoFb /\ ~EmptySlot.sync
      BY DEF EmptySlot
    <3>1. \A i \in Slots : slots'[i] = EmptySlot /\ slots'[i].fb = NoFb /\ ~slots'[i].sync
      BY <2>1, <2>2, <3>0
    <3>2. WindowOfLastFrame'
      BY <3>1 DEF WindowOfLastFrame
    <3>3. SlotsFaithful'
      BY <3>1 DEF SlotsFaithful
    <3>4. SlotShape'
      BY <3>1 DEF SlotShape
    <3> QED
      BY <3>2, <3>3, <3>4
  <2>8. ConvertsOwnPlanes'
    BY <1>2 DEF EnterFirst, Inv, ConvertsOwnPlanes
  <2>7. CallShape' /\ FlagShape'
    BY <1>2, <2>1, <2>2, <2>3, <2>4 DEF EnterFirst, Return, Goto, CallShape, FlagShape,
       NoCall, Acquiring, Holds, EmptySlot
  <2> QED
    BY <1>0, <2>5, <2>6, <2>7, <2>8 DEF Inv
<1>3. CASE ReadPlane
  <2>1. call = NoCall(call.ret) /\ call' = [call EXCEPT !.fb = scanout]
    BY <1>3 DEF ReadPlane, Goto, Inv, CallShape
  <2>2. call'.gem = NoHandle /\ call'.fd = NoFd /\ call'.sync = FALSE
        /\ call'.slot = 0 /\ call'.ret = call.ret /\ call'.fb = scanout
        /\ call.gem = NoHandle /\ call.fd = NoFd /\ call.sync = FALSE
    BY <2>1 DEF NoCall
  <2>3. call' = [NoCall(call'.ret) EXCEPT !.fb = call'.fb]
    <3>1. call' = [NoCall(call.ret) EXCEPT !.fb = scanout]
      BY <2>1
    <3> QED
      BY <3>1, <2>2
  <2> QED
    BY <1>0, <1>3, <2>2, <2>3 DEF ReadPlane, Goto, Inv, NothingLeaks, GemOwned, FdOwned,
       WindowsBalanced, OwesEnd, WindowOfLastFrame, SlotsFaithful, ConvertsOwnPlanes,
       SlotShape, CallShape, FlagShape, Acquiring, Holds
<1>4. CASE PlaneBlank
  <2>1. call.gem = NoHandle /\ call.fd = NoFd
    BY <1>4 DEF PlaneBlank, Inv, CallShape, NoCall
  <2>2. pc' = "idle" /\ call' = NoCall("ENODEV") /\ "ENODEV" \in Results
    BY <1>4 DEF PlaneBlank, Return, Results
  <2>3. ConvertsOwnPlanes'
    BY <1>4 DEF PlaneBlank, Inv, ConvertsOwnPlanes
  <2> QED
    BY <1>0, <1>4, <2>1, <2>2, <2>3, CleanupInv DEF PlaneBlank
<1> QED
  BY <1>1, <1>2, <1>3, <1>4 DEF EnterCall

(* The environment, another use of the context, and a close.               *)
LEMMA OtherInv ==
  Inv /\ (Reopen \/ SlowGrab \/ ConvertForeign \/ Flip \/ SwitchHdr \/ DropPrivilege)
    => Inv'
<1> USE DEF kernel, ctx, flags
<1>1. ASSUME Inv, Reopen PROVE Inv'
  <2>1. call.gem = NoHandle /\ call.fd = NoFd /\ pc' = "idle" /\ call' = NoCall("none")
    BY <1>1 DEF Reopen, Inv, CallShape, NoCall
  <2>2. ConvertsOwnPlanes' /\ TypeOK' /\ "none" \in Results
    BY <1>1, OtherType DEF Reopen, Inv, ConvertsOwnPlanes, Results
  <2> QED
    BY <1>1, <2>1, <2>2, CleanupInv DEF Reopen
<1>2. ASSUME Inv, SlowGrab \/ ConvertForeign PROVE Inv'
  BY <1>2, OtherType DEF SlowGrab, ConvertForeign, Inv, NothingLeaks, GemOwned, FdOwned,
     WindowsBalanced, OwesEnd, WindowOfLastFrame, SlotsFaithful, ConvertsOwnPlanes,
     SlotShape, CallShape, FlagShape, NoCall, Acquiring, Holds
<1>3. ASSUME Inv, Flip \/ SwitchHdr \/ DropPrivilege PROVE Inv'
  BY <1>3, OtherType DEF Flip, SwitchHdr, DropPrivilege, Inv, NothingLeaks, GemOwned,
     FdOwned, WindowsBalanced, OwesEnd, WindowOfLastFrame, SlotsFaithful,
     ConvertsOwnPlanes, SlotShape, CallShape, FlagShape, Acquiring, Holds, Cached
<1> QED
  BY <1>1, <1>2, <1>3

-----------------------------------------------------------------------------
(* Steps that look a framebuffer up.  At "lookup" the call holds nothing.  *)
LEMMA LookupHolds ==
  ASSUME Inv, pc = "lookup"
  PROVE  /\ call.gem = NoHandle /\ call.fd = NoFd /\ ~call.sync
         /\ call.fb \in Fbs /\ call.slot = 0 /\ initialized /\ ~noPriv
         /\ \A f \in Fds : WinClosed[f] = 0
         /\ call.ret \in Results
<1>1. call = [NoCall(call.ret) EXCEPT !.fb = call.fb] /\ call.fb # NoFb
  BY DEF Inv, CallShape
<1>2. call.gem = NoHandle /\ call.fd = NoFd /\ call.sync = FALSE /\ call.slot = 0
  BY <1>1 DEF NoCall
<1>3. call.fb \in Fbs /\ call.ret \in Results
  BY <1>1 DEF Inv, TypeOK, CallType
<1>4. \A f \in Fds : WinClosed[f] = 0
  BY <1>2, SyncClose
<1> QED
  BY <1>2, <1>3, <1>4 DEF Inv, FlagShape

(* What closing the windows does to the slots.                             *)
LEMMA ClosedSlots ==
  ASSUME Inv
  PROVE  \A j \in Slots : /\ SlotsClosed[j].fb = slots[j].fb
                          /\ SlotsClosed[j].gem = slots[j].gem
                          /\ SlotsClosed[j].fd = slots[j].fd
                          /\ ~SlotsClosed[j].sync
                          /\ slots[j].fb = NoFb => SlotsClosed[j] = EmptySlot
<1> SUFFICES ASSUME NEW j \in Slots, slots[j].fb = NoFb
             PROVE  SlotsClosed[j] = EmptySlot
  BY SlotTypes DEF Inv, TypeOK
<1>1. slots[j] = EmptySlot
  BY DEF Inv, SlotShape
<1>2. SlotsClosed[j] = [EmptySlot EXCEPT !.sync = FALSE]
  BY <1>1 DEF SlotsClosed
<1> QED
  BY <1>2 DEF EmptySlot

(* Serving slot i moves windows only: the objects and their owners stay.   *)
LEMMA ServeInv ==
  ASSUME Inv, NEW i \in Slots, ServeCached(i), TypeOK'
  PROVE  Inv'
<1> USE DEF kernel, ctx, flags
<1>1. PICK started \in BOOLEAN : BeginRead(i, started)
  BY DEF ServeCached
<1>2. /\ \A j \in Slots : /\ slots'[j].fb = slots[j].fb
                         /\ slots'[j].gem = slots[j].gem
                         /\ slots'[j].fd = slots[j].fd
                         /\ slots'[j].sync = (j = i /\ started)
      /\ bo' = bo /\ buf' = buf /\ maps' = maps
  BY <1>1, SlotTypes DEF BeginRead, Inv, TypeOK, SlotsClosed, SlotType
<1>3. /\ pc = "lookup" /\ slots[i].fb = call.fb /\ lastFb' = call.fb
      /\ call.gem = NoHandle /\ call.fd = NoFd /\ call.fb # NoFb
  BY LookupHolds DEF ServeCached, Holds
<1>4. /\ pc' = "idle" /\ call' = NoCall(call'.ret)
      /\ call'.gem = NoHandle /\ call'.fd = NoFd /\ call'.sync = FALSE
  BY DEF ServeCached, Convert, Return, NoCall
<1>5. slots[i].fd \in Fds
  BY <1>3 DEF Inv, SlotsFaithful
<1>6. NothingLeaks'
  BY <1>2, <1>3, <1>4 DEF Inv, NothingLeaks, GemOwned, FdOwned
<1>7. WindowsBalanced'
  <2> SUFFICES ASSUME NEW f \in Fds
               PROVE  (win[f] = IF OwesEnd(f) THEN 1 ELSE 0)' /\ (OwesEnd(f) => buf[f] # NoFb)'
    BY DEF WindowsBalanced
  <2>1. OwesEnd(f)' <=> (started /\ f = slots[i].fd)
    BY <1>2, <1>4 DEF OwesEnd
  <2>2. WinClosed[f] = 0
    BY <1>3, LookupHolds
  <2>3. win'[f] = IF started /\ f = slots[i].fd THEN 1 ELSE 0
    BY <1>1, <2>2 DEF BeginRead
  <2>4. f = slots[i].fd => buf'[f] # NoFb
    BY <1>2, <1>3 DEF Inv, SlotsFaithful
  <2> QED
    BY <2>1, <2>3, <2>4
<1>8. WindowOfLastFrame' /\ SlotsFaithful'
  <2>1. WindowOfLastFrame'
    BY <1>2, <1>3 DEF WindowOfLastFrame
  <2>2. SlotsFaithful'
    BY <1>2 DEF Inv, SlotsFaithful
  <2> QED
    BY <2>1, <2>2
<1>9. ConvertsOwnPlanes'
  <2>1. staged' = call.fb /\ conv' = [fb |-> call.fb, planes |-> staged', hdr |-> curHdr]
    BY <1>3 DEF ServeCached, Restage, Convert
  <2> QED
    BY <2>1 DEF ConvertsOwnPlanes
<1>10. SlotShape'
  <2>1. ASSUME NEW j \in Slots, slots'[j].fb = NoFb PROVE slots'[j] = EmptySlot
    <3>1. slots[j] = EmptySlot /\ j # i
      BY <1>2, <1>3, <2>1 DEF Inv, SlotShape
    <3>2. slots'[j] = SlotsClosed[j]
      BY <1>1, <3>1 DEF BeginRead, SlotsClosed
    <3>3. SlotsClosed[j] = EmptySlot
      BY <1>2, <2>1, ClosedSlots
    <3> QED
      BY <3>2, <3>3
  <2> QED
    BY <1>2, <2>1 DEF Inv, SlotShape
<1>11. CallShape' /\ FlagShape'
  BY <1>3, <1>4, LookupHolds DEF ServeCached, CallShape, FlagShape, Acquiring
<1> QED
  BY <1>6, <1>7, <1>8, <1>9, <1>10, <1>11 DEF Inv

(* The other outcomes of a lookup close the windows, or leave them as they *)
(* were, and hand the call on with a slot or without.                      *)
LEMMA TransferInv ==
  ASSUME Inv, NEW i \in Slots, TransferFailed(i), TypeOK'
  PROVE  Inv'
<1> USE DEF kernel, ctx, flags
<1>1. /\ pc = "lookup" /\ pc' = "idle" /\ call' = NoCall("EIO")
      /\ call.gem = NoHandle /\ call.fd = NoFd /\ call.sync = FALSE
      /\ call'.gem = NoHandle /\ call'.fd = NoFd /\ call'.sync = FALSE
      /\ call' = NoCall(call'.ret)
      /\ bo' = bo /\ buf' = buf /\ maps' = maps /\ lastFb' = lastFb
  BY LookupHolds DEF TransferFailed, Return, NoCall
<1>2. CASE slots' = slots /\ win' = win
  BY <1>1, <1>2 DEF TransferFailed, Inv, NothingLeaks, GemOwned, FdOwned, WindowsBalanced,
     OwesEnd, WindowOfLastFrame, SlotsFaithful, ConvertsOwnPlanes, SlotShape, CallShape,
     FlagShape, Acquiring, Holds
<1>3. CASE slots' = SlotsClosed /\ win' = WinClosed
  <2>1. NothingLeaks'
    BY <1>1, <1>3, ClosedSlots DEF Inv, NothingLeaks, GemOwned, FdOwned
  <2>2. WindowsBalanced'
    BY <1>1, <1>3, ClosedSlots, LookupHolds DEF WindowsBalanced, OwesEnd
  <2>3. WindowOfLastFrame' /\ SlotsFaithful' /\ SlotShape'
    BY <1>1, <1>3, ClosedSlots DEF Inv, WindowOfLastFrame, SlotsFaithful, SlotShape
  <2>4. ConvertsOwnPlanes' /\ CallShape' /\ FlagShape'
    BY <1>1, <1>3, ClosedSlots DEF TransferFailed, Inv, ConvertsOwnPlanes, CallShape,
       FlagShape, Acquiring, Holds
  <2> QED
    BY <2>1, <2>2, <2>3, <2>4 DEF Inv
<1> QED
  BY <1>2, <1>3 DEF TransferFailed

(* A miss that finds an empty slot closes every window and owns nothing    *)
(* yet.                                                                    *)
LEMMA MissInv ==
  ASSUME Inv, NEW i \in Slots, MissEmptySlot(i), TypeOK'
  PROVE  Inv'
<1> USE DEF kernel, ctx, flags
<1>1. /\ pc = "lookup" /\ pc' = "getfb2" /\ call' = [call EXCEPT !.slot = i]
      /\ bo' = bo /\ buf' = buf /\ maps' = maps /\ lastFb' = lastFb
      /\ slots' = SlotsClosed /\ win' = WinClosed
      /\ ~Cached(call.fb) /\ Holds(i, NoFb)
  BY DEF MissEmptySlot, Goto, FirstEmpty
<1>2. /\ call.gem = NoHandle /\ call.fd = NoFd /\ call.sync = FALSE /\ call.fb # NoFb
      /\ call'.gem = NoHandle /\ call'.fd = NoFd /\ call'.sync = FALSE
      /\ call'.slot = i /\ call'.fb = call.fb
  BY <1>1, LookupHolds DEF Inv, TypeOK, CallType
<1>3. NothingLeaks'
  BY <1>1, <1>2, ClosedSlots DEF Inv, NothingLeaks, GemOwned, FdOwned
<1>4. WindowsBalanced'
  BY <1>1, <1>2, ClosedSlots, LookupHolds DEF WindowsBalanced, OwesEnd
<1>5. WindowOfLastFrame' /\ SlotsFaithful' /\ SlotShape'
  BY <1>1, ClosedSlots DEF Inv, WindowOfLastFrame, SlotsFaithful, SlotShape
<1>6. ConvertsOwnPlanes' /\ FlagShape'
  BY <1>1, ClosedSlots DEF MissEmptySlot, Inv, ConvertsOwnPlanes, FlagShape, Holds
<1>7. CallShape'
  BY <1>1, <1>2, ClosedSlots DEF CallShape, Acquiring, Holds, Cached
<1> QED
  BY <1>3, <1>4, <1>5, <1>6, <1>7 DEF Inv

(* The eviction gives back exactly what slot 0 owned: another slot's       *)
(* objects are its own.                                                    *)
LEMMA EvictInv ==
  ASSUME Inv, MissEvict, TypeOK'
  PROVE  Inv'
<1> USE DEF kernel, ctx, flags
<1>1. /\ pc = "lookup" /\ pc' = "getfb2" /\ call' = [call EXCEPT !.slot = Victim]
      /\ lastFb' = lastFb /\ win' = WinClosed
      /\ ~Cached(call.fb) /\ Victim \in Slots
  BY DEF MissEvict, Evicted, Goto, Victim, Slots
<1>2. /\ call.gem = NoHandle /\ call.fd = NoFd /\ call.sync = FALSE /\ call.fb # NoFb
      /\ call'.gem = NoHandle /\ call'.fd = NoFd /\ call'.sync = FALSE
      /\ call'.slot = Victim /\ call'.fb = call.fb
  BY <1>1, LookupHolds DEF Inv, TypeOK, CallType
<1>3. \A j \in Slots : slots'[j] = IF j = Victim THEN EmptySlot ELSE SlotsClosed[j]
  BY <1>1 DEF MissEvict, Evicted, SlotsClosed
<1>4. EmptySlot.fb = NoFb /\ EmptySlot.gem = NoHandle /\ EmptySlot.fd = NoFd
      /\ ~EmptySlot.sync
  BY DEF EmptySlot
<1>5. \A j \in Slots : /\ slots[j].fb # NoFb
                       /\ slots[j].gem \in Handles /\ slots[j].fd \in Fds
                       /\ j # Victim => /\ slots[j].gem # slots[Victim].gem
                                        /\ slots[j].fd # slots[Victim].fd
  BY <1>1 DEF MissEvict, Evicted, Cached, Holds, Inv, SlotsFaithful, SlotShape
<1>6. \A j \in Slots : j # Victim => /\ slots'[j].fb = slots[j].fb
                                     /\ slots'[j].gem = slots[j].gem
                                     /\ slots'[j].fd = slots[j].fd
                                     /\ ~slots'[j].sync
  BY <1>3, ClosedSlots
<1>7. /\ slots'[Victim].fb = NoFb /\ slots'[Victim].gem = NoHandle
      /\ slots'[Victim].fd = NoFd /\ ~slots'[Victim].sync
  BY <1>1, <1>3, <1>4
<1>8. /\ bo' = [h \in Handles |-> IF h = slots[Victim].gem THEN NoFb ELSE bo[h]]
      /\ buf' = [f \in Fds |-> IF f = slots[Victim].fd THEN NoFb ELSE buf[f]]
      /\ maps' = maps \ {slots[Victim].fd}
  BY DEF MissEvict, Evicted
<1>9. NothingLeaks'
  BY <1>1, <1>2, <1>5, <1>6, <1>7, <1>8 DEF Inv, NothingLeaks, GemOwned, FdOwned
<1>10. WindowsBalanced'
  BY <1>1, <1>2, <1>6, <1>7, LookupHolds DEF WindowsBalanced, OwesEnd
<1>11. WindowOfLastFrame' /\ SlotsFaithful'
  BY <1>1, <1>5, <1>6, <1>7, <1>8 DEF Inv, WindowOfLastFrame, SlotsFaithful
<1>12. SlotShape'
  BY <1>1, <1>3, <1>5, <1>6, <1>7 DEF Inv, SlotShape
<1>13. ConvertsOwnPlanes' /\ FlagShape'
  BY <1>1, LookupHolds DEF MissEvict, Inv, ConvertsOwnPlanes, FlagShape
<1>14. CallShape'
  BY <1>1, <1>2, <1>6, <1>7 DEF CallShape, Acquiring, Holds, Cached
<1> QED
  BY <1>9, <1>10, <1>11, <1>12, <1>13, <1>14 DEF Inv

(* No outcome of a lookup breaks the invariant.                            *)
LEMMA CacheInv == Inv /\ Cache => Inv'
  BY CacheType, ServeInv, TransferInv, MissInv, EvictInv DEF Cache

-----------------------------------------------------------------------------
(* Acquiring a buffer.  The slots stand still, closed, until Store; the    *)
(* call owns one handle, then one descriptor, that no slot has.            *)
LEMMA AcquireHolds ==
  ASSUME Inv, Acquiring
  PROVE  /\ call.fb # NoFb /\ call.fb \in Fbs /\ call.slot \in Slots
         /\ initialized /\ ~noPriv /\ ~Cached(call.fb) /\ Holds(call.slot, NoFb)
         /\ \A i \in Slots : ~slots[i].sync
         /\ slots[call.slot].gem = NoHandle /\ slots[call.slot].fd = NoFd
  BY DEF Inv, TypeOK, CallType, CallShape, FlagShape, Acquiring, SlotShape, EmptySlot, Holds

(* A return that gives back what the call still held, slots untouched.     *)
LEMMA AbandonInv ==
  ASSUME Inv, TypeOK', Acquiring,
         slots' = slots, maps' = maps, initialized' = initialized, noPriv' = noPriv,
         ConvertsOwnPlanes', pc' = "idle", NEW r \in Results, call' = NoCall(r),
         bo' = [h \in Handles |-> IF h = call.gem THEN NoFb ELSE bo[h]],
         buf' = [f \in Fds |-> IF f = call.fd THEN NoFb ELSE buf[f]],
         win' = [f \in Fds |-> IF f = call.fd THEN 0 ELSE win[f]]
  PROVE  Inv'
<1>1. /\ call'.gem = NoHandle /\ call'.fd = NoFd /\ call'.sync = FALSE /\ call'.ret = r
      /\ call' = NoCall(call'.ret)
  BY DEF NoCall
<1>2. /\ \A i \in Slots : call.gem # NoHandle => slots[i].gem # call.gem
      /\ \A i \in Slots : call.fd # NoFd => slots[i].fd # call.fd
  BY DEF Inv, CallShape, Acquiring
<1>3. NothingLeaks'
  BY <1>1, <1>2 DEF Inv, NothingLeaks, GemOwned, FdOwned
<1>4. WindowsBalanced'
  BY <1>1, <1>2, AcquireHolds DEF Inv, WindowsBalanced, OwesEnd
<1>5. WindowOfLastFrame' /\ SlotShape'
  BY AcquireHolds DEF Inv, WindowOfLastFrame, SlotShape
<1>6. SlotsFaithful'
  BY <1>2 DEF Inv, SlotsFaithful
<1>7. CallShape' /\ FlagShape'
  BY <1>1 DEF Inv, CallShape, FlagShape, Acquiring, Holds
<1> QED
  BY <1>3, <1>4, <1>5, <1>6, <1>7 DEF Inv

(* GetFB2 leaves the call with at most the main handle, or with nothing    *)
(* and a latched refusal.                                                  *)
LEMMA GetFb2Inv == Inv /\ (GetFb2Failed \/ GetFb2Unprivileged \/ GetFb2) => Inv'
<1> SUFFICES ASSUME Inv, GetFb2Failed \/ GetFb2Unprivileged \/ GetFb2 PROVE Inv'
  OBVIOUS
<1> USE DEF kernel, ctx, flags
<1>1. /\ pc = "getfb2" /\ Acquiring /\ TypeOK'
      /\ call.gem = NoHandle /\ call.fd = NoFd /\ ~call.sync
  BY AcquireType DEF Acquire, GetFb2Failed, GetFb2Unprivileged, GetFb2, Acquiring, Inv, CallShape
<1>2. CASE GetFb2Failed
  BY <1>1, <1>2, AcquireHolds DEF GetFb2Failed, Return, Inv, NothingLeaks, GemOwned, FdOwned,
     WindowsBalanced, OwesEnd, WindowOfLastFrame, SlotsFaithful, ConvertsOwnPlanes,
     SlotShape, CallShape, FlagShape, NoCall, Acquiring, Holds
<1>3. CASE GetFb2Unprivileged
  <2>1. pc' = "idle" /\ call' = NoCall("EACCES") /\ "EACCES" \in Results /\ ConvertsOwnPlanes'
    BY <1>3 DEF GetFb2Unprivileged, Return, Results, Inv, ConvertsOwnPlanes
  <2> QED
    BY <1>1, <1>3, <2>1, CleanupInv DEF GetFb2Unprivileged
<1>4. CASE GetFb2
  <2>1. /\ slots' = slots /\ buf' = buf /\ maps' = maps /\ win' = win /\ lastFb' = lastFb
        /\ initialized' = initialized /\ noPriv' = noPriv /\ conv' = conv
    BY <1>4 DEF GetFb2
  <2>2. PICK fh \in Minted :
       \/ /\ bo' = [h \in Handles |-> IF h \in Kept(fh) THEN call.fb ELSE bo[h]]
          /\ staged' = call.fb
          /\ Goto("export", [call EXCEPT !.gem = fh[1]])
       \/ /\ bo' = [h \in Handles |-> IF h \in Kept(fh) \ {fh[1]} THEN call.fb ELSE bo[h]]
          /\ Return("EIO")
    BY <1>4 DEF GetFb2
  <2>3. Kept(fh) = {fh[1]} /\ fh[1] \in Handles /\ bo[fh[1]] = NoFb
    BY DEF Minted, FreshHandles, Kept, HandlesOf, Auxiliary, FbPlanes
  <2>4. \A i \in Slots : slots[i].gem # fh[1]
    BY <2>3 DEF Inv, NothingLeaks, GemOwned
  <2>5. CASE pc' = "export"
    <3>1. /\ bo' = [h \in Handles |-> IF h = fh[1] THEN call.fb ELSE bo[h]]
          /\ staged' = call.fb
          /\ call' = [call EXCEPT !.gem = fh[1]]
      BY <2>2, <2>3, <2>5 DEF Goto, Return
    <3>2. /\ call'.gem = fh[1] /\ call'.fd = NoFd /\ ~call'.sync /\ call'.fb = call.fb
          /\ call'.slot = call.slot
      BY <1>1, <3>1 DEF Inv, TypeOK, CallType
    <3>3. NothingLeaks' /\ WindowsBalanced'
      BY <1>1, <2>1, <2>3, <2>4, <3>1, <3>2, AcquireHolds DEF Inv, NothingLeaks, GemOwned,
         FdOwned, WindowsBalanced, OwesEnd
    <3>4. WindowOfLastFrame' /\ SlotsFaithful' /\ SlotShape' /\ ConvertsOwnPlanes'
      BY <2>1, <2>4, <3>1 DEF Inv, WindowOfLastFrame, SlotsFaithful, SlotShape,
         ConvertsOwnPlanes
    <3>5. CallShape' /\ FlagShape'
      BY <1>1, <2>1, <2>3, <2>4, <2>5, <3>1, <3>2, AcquireHolds DEF CallShape, FlagShape,
         Acquiring, Holds, Cached
    <3> QED
      BY <1>1, <3>3, <3>4, <3>5 DEF Inv
  <2>6. CASE pc' # "export"
    <3>1. pc' = "idle" /\ call' = NoCall("EIO") /\ "EIO" \in Results /\ bo' = bo
      BY <2>2, <2>3, <2>6 DEF Goto, Return, Results, Inv, TypeOK
    <3>2. ConvertsOwnPlanes'
      BY <2>1 DEF Inv, ConvertsOwnPlanes
    <3>3. /\ bo' = [h \in Handles |-> IF h = call.gem THEN NoFb ELSE bo[h]]
          /\ buf' = [f \in Fds |-> IF f = call.fd THEN NoFb ELSE buf[f]]
          /\ win' = [f \in Fds |-> IF f = call.fd THEN 0 ELSE win[f]]
      BY <1>1, <2>1, <3>1 DEF Inv, TypeOK
    <3> QED
      BY <1>1, <2>1, <3>1, <3>2, <3>3, AbandonInv
  <2> QED
    BY <2>5, <2>6
<1> QED
  BY <1>2, <1>3, <1>4

(* The export adds a descriptor of the same buffer, or drops the handle.   *)
LEMMA ExportInv == Inv /\ (Export \/ ExportFailed) => Inv'
<1> SUFFICES ASSUME Inv, Export \/ ExportFailed PROVE Inv'
  OBVIOUS
<1> USE DEF kernel, ctx, flags
<1>1. /\ pc = "export" /\ Acquiring /\ TypeOK'
      /\ call.gem \in Handles /\ call.fd = NoFd /\ ~call.sync
      /\ bo[call.gem] = call.fb /\ staged = call.fb
      /\ \A i \in Slots : slots[i].gem # call.gem
  BY AcquireType DEF Acquire, Export, ExportFailed, Acquiring, Inv, CallShape, TypeOK, CallType
<1>2. CASE Export
  <2>1. PICK f \in Fds : /\ buf[f] = NoFb
                         /\ buf' = [buf EXCEPT ![f] = bo[call.gem]]
                         /\ pc' = "map" /\ call' = [call EXCEPT !.fd = f]
    BY <1>2 DEF Export, Goto
  <2>2. /\ slots' = slots /\ bo' = bo /\ maps' = maps /\ win' = win /\ lastFb' = lastFb
        /\ initialized' = initialized /\ noPriv' = noPriv /\ conv' = conv /\ staged' = staged
    BY <1>2 DEF Export
  <2>3. /\ call'.gem = call.gem /\ call'.fd = f /\ ~call'.sync /\ call'.fb = call.fb
        /\ call'.slot = call.slot
    BY <1>1, <2>1 DEF Inv, TypeOK, CallType
  <2>4. buf' = [g \in Fds |-> IF g = f THEN call.fb ELSE buf[g]]
    BY <1>1, <2>1 DEF Inv, TypeOK
  <2>5. \A i \in Slots : slots[i].fd # f
    BY <2>1 DEF Inv, NothingLeaks, FdOwned
  <2>6. NothingLeaks' /\ WindowsBalanced'
    BY <1>1, <2>2, <2>3, <2>4, <2>5, AcquireHolds DEF Inv, NothingLeaks, GemOwned,
       FdOwned, WindowsBalanced, OwesEnd
  <2>7. WindowOfLastFrame' /\ SlotsFaithful' /\ SlotShape' /\ ConvertsOwnPlanes'
    <3>1. SlotsFaithful'
      BY <2>2, <2>4, <2>5 DEF Inv, SlotsFaithful
    <3> QED
      BY <2>2, <3>1 DEF Inv, WindowOfLastFrame, SlotShape, ConvertsOwnPlanes
  <2>8. CallShape' /\ FlagShape'
    BY <1>1, <2>1, <2>2, <2>3, <2>4, <2>5, AcquireHolds DEF CallShape, FlagShape,
       Acquiring, Holds, Cached
  <2> QED
    BY <1>1, <2>6, <2>7, <2>8 DEF Inv
<1>3. CASE ExportFailed
  <2>1. /\ slots' = slots /\ maps' = maps /\ initialized' = initialized /\ noPriv' = noPriv
        /\ pc' = "idle" /\ call' = NoCall("EIO") /\ "EIO" \in Results /\ ConvertsOwnPlanes'
    BY <1>3 DEF ExportFailed, Return, Results, Inv, ConvertsOwnPlanes
  <2>2. /\ bo' = [h \in Handles |-> IF h = call.gem THEN NoFb ELSE bo[h]]
        /\ buf' = [f \in Fds |-> IF f = call.fd THEN NoFb ELSE buf[f]]
        /\ win' = [f \in Fds |-> IF f = call.fd THEN 0 ELSE win[f]]
    <3>1. bo' = [bo EXCEPT ![call.gem] = NoFb] /\ buf' = buf /\ win' = win
      BY <1>3 DEF ExportFailed, DropGem
    <3>2. \A f \in Fds : f # call.fd
      BY <1>1
    <3> QED
      BY <3>1, <3>2, ZenonT(60) DEF Inv, TypeOK
  <2> QED
    BY <1>1, <2>1, <2>2, AbandonInv
<1> QED
  BY <1>2, <1>3

(* Store gives the call's handle, descriptor and window to an empty slot.  *)
LEMMA MappedInv == Inv /\ Mapped => Inv'
<1> SUFFICES ASSUME Inv, Mapped PROVE Inv'
  OBVIOUS
<1> USE DEF kernel, ctx, flags
<1>1. /\ pc = "map" /\ Acquiring /\ TypeOK'
      /\ call.gem \in Handles /\ call.fd \in Fds /\ ~call.sync
      /\ bo[call.gem] = call.fb /\ buf[call.fd] = call.fb /\ staged = call.fb
      /\ \A i \in Slots : slots[i].gem # call.gem /\ slots[i].fd # call.fd
  BY AcquireType DEF Acquire, Mapped, Acquiring, Inv, CallShape, TypeOK, CallType
<1>2. PICK started \in BOOLEAN : Store(started)
  BY DEF Mapped
<1>3. /\ bo' = bo /\ buf' = buf /\ initialized' = initialized /\ noPriv' = noPriv
      /\ conv' = [fb |-> call.fb, planes |-> staged', hdr |-> curHdr] /\ staged' = staged
      /\ lastFb' = call.fb /\ maps' = maps \cup {call.fd}
      /\ pc' = "idle" /\ \E r \in Results : call' = NoCall(r)
  BY <1>2 DEF Mapped, Convert, Return, Store, Results
<1>4. /\ call'.gem = NoHandle /\ call'.fd = NoFd /\ ~call'.sync /\ call' = NoCall(call'.ret)
  BY <1>3 DEF NoCall
<1>5. \A i \in Slots :
        IF i = call.slot
        THEN /\ slots'[i].fb = call.fb /\ slots'[i].gem = call.gem
             /\ slots'[i].fd = call.fd /\ slots'[i].sync = started
        ELSE slots'[i] = slots[i]
  BY <1>1, <1>2, AcquireHolds DEF Store, Inv, TypeOK
<1>6. \A f \in Fds : win'[f] = IF f = call.fd /\ started THEN win[f] + 1 ELSE win[f]
  BY <1>1, <1>2 DEF Store, Inv, TypeOK
<1>7. NothingLeaks'
  BY <1>1, <1>3, <1>4, <1>5, AcquireHolds DEF Inv, NothingLeaks, GemOwned, FdOwned
<1>8. WindowsBalanced'
  <2>1. \A f \in Fds : win[f] = 0
    BY <1>1, AcquireHolds DEF Inv, WindowsBalanced, OwesEnd
  <2>2. \A f \in Fds : OwesEnd(f)' <=> f = call.fd /\ started
    BY <1>1, <1>4, <1>5, AcquireHolds DEF OwesEnd
  <2> QED
    BY <1>1, <1>3, <1>6, <2>1, <2>2, AcquireHolds DEF WindowsBalanced
<1>9. WindowOfLastFrame'
  BY <1>1, <1>3, <1>5, AcquireHolds DEF WindowOfLastFrame
<1>10. SlotsFaithful'
  BY <1>1, <1>3, <1>5, AcquireHolds DEF Inv, SlotsFaithful, Cached, Holds
<1>11. SlotShape'
  BY <1>1, <1>5, AcquireHolds DEF Inv, SlotShape
<1>12. ConvertsOwnPlanes'
  BY <1>1, <1>3 DEF ConvertsOwnPlanes
<1>13. CallShape' /\ FlagShape'
  BY <1>1, <1>3, <1>4, AcquireHolds DEF CallShape, FlagShape, Acquiring
<1> QED
  BY <1>1, <1>7, <1>8, <1>9, <1>10, <1>11, <1>12, <1>13 DEF Inv

(* A failed mapping keeps the call's handle, descriptor and window.        *)
LEMMA MapFailedInv == Inv /\ MapFailed => Inv'
<1> SUFFICES ASSUME Inv, MapFailed PROVE Inv'
  OBVIOUS
<1> USE DEF kernel, ctx, flags
<1>1. /\ pc = "map" /\ Acquiring /\ TypeOK'
      /\ call.gem \in Handles /\ call.fd \in Fds /\ ~call.sync
      /\ bo[call.gem] = call.fb /\ buf[call.fd] = call.fb /\ staged = call.fb
      /\ \A i \in Slots : slots[i].gem # call.gem /\ slots[i].fd # call.fd
  BY AcquireType DEF Acquire, MapFailed, Acquiring, Inv, CallShape, TypeOK, CallType
<1>2. PICK started \in BOOLEAN :
        /\ win' = IF started THEN [win EXCEPT ![call.fd] = @ + 1] ELSE win
        /\ pc' = "fallback" /\ call' = [call EXCEPT !.sync = started]
  BY DEF MapFailed, Goto
<1>3. /\ slots' = slots /\ bo' = bo /\ buf' = buf /\ maps' = maps /\ lastFb' = lastFb
      /\ initialized' = initialized /\ noPriv' = noPriv /\ conv' = conv /\ staged' = staged
  BY DEF MapFailed
<1>4. /\ call'.gem = call.gem /\ call'.fd = call.fd /\ call'.sync = started
      /\ call'.fb = call.fb /\ call'.slot = call.slot
  BY <1>2 DEF Inv, TypeOK, CallType
<1>5. \A f \in Fds : win'[f] = IF f = call.fd /\ started THEN win[f] + 1 ELSE win[f]
  BY <1>1, <1>2 DEF Inv, TypeOK
<1>6. NothingLeaks'
  BY <1>3, <1>4 DEF Inv, NothingLeaks, GemOwned, FdOwned
<1>7. WindowsBalanced'
  <2>1. \A f \in Fds : win[f] = 0
    BY <1>1, AcquireHolds DEF Inv, WindowsBalanced, OwesEnd
  <2>2. \A f \in Fds : OwesEnd(f)' <=> f = call.fd /\ started
    BY <1>1, <1>3, <1>4, AcquireHolds DEF OwesEnd
  <2> QED
    BY <1>1, <1>3, <1>5, <2>1, <2>2, AcquireHolds DEF WindowsBalanced
<1>8. WindowOfLastFrame' /\ SlotsFaithful' /\ SlotShape' /\ ConvertsOwnPlanes'
  BY <1>3 DEF Inv, WindowOfLastFrame, SlotsFaithful, SlotShape, ConvertsOwnPlanes
<1>9. CallShape' /\ FlagShape'
  BY <1>1, <1>2, <1>3, <1>4, AcquireHolds DEF CallShape, FlagShape, Acquiring, Holds, Cached
<1> QED
  BY <1>1, <1>6, <1>7, <1>8, <1>9 DEF Inv

(* The fallback returns with nothing kept: the window is ended while the   *)
(* descriptor is still open.                                               *)
LEMMA FallbackInv == Inv /\ (EglFallback \/ NoFallback) => Inv'
<1> SUFFICES ASSUME Inv, EglFallback \/ NoFallback PROVE Inv'
  OBVIOUS
<1> USE DEF kernel, ctx, flags
<1>1. /\ pc = "fallback" /\ Acquiring /\ TypeOK'
      /\ call.gem \in Handles /\ call.fd \in Fds /\ call.sync \in BOOLEAN
      /\ staged = call.fb
      /\ \A i \in Slots : slots[i].gem # call.gem /\ slots[i].fd # call.fd
  BY AcquireType DEF Acquire, EglFallback, NoFallback, Acquiring, Inv, CallShape, TypeOK,
     CallType
<1>2. ReleaseUncached
  BY DEF EglFallback, NoFallback
<1>3. win[call.fd] = IF call.sync THEN 1 ELSE 0
  BY <1>1 DEF Inv, WindowsBalanced, OwesEnd
<1>4. win' = [f \in Fds |-> IF f = call.fd THEN 0 ELSE win[f]]
  <2>1. CASE call.sync
    <3>1. win' = [win EXCEPT ![call.fd] = 0]
      BY <1>2, <1>3, <2>1 DEF ReleaseUncached
    <3> QED
      BY <3>1 DEF Inv, TypeOK
  <2>2. CASE ~call.sync
    BY <1>1, <1>2, <1>3, <2>2 DEF ReleaseUncached, Inv, TypeOK
  <2> QED
    BY <2>1, <2>2
<1>5. /\ bo' = [h \in Handles |-> IF h = call.gem THEN NoFb ELSE bo[h]]
      /\ buf' = [f \in Fds |-> IF f = call.fd THEN NoFb ELSE buf[f]]
  BY <1>1, <1>2 DEF ReleaseUncached, DropGem, Inv, TypeOK
<1>6. /\ slots' = slots /\ maps' = maps /\ initialized' = initialized /\ noPriv' = noPriv
      /\ pc' = "idle" /\ \E r \in Results : call' = NoCall(r)
  BY DEF EglFallback, NoFallback, Convert, Return, Results
<1>7. ConvertsOwnPlanes'
  BY <1>1 DEF EglFallback, NoFallback, Convert, ConvertsOwnPlanes, Inv
<1> QED
  BY <1>1, <1>4, <1>5, <1>6, <1>7, AbandonInv

(* No step of the acquisition breaks the invariant.                        *)
LEMMA AcquireInv == Inv /\ Acquire => Inv'
  BY GetFb2Inv, ExportInv, MappedInv, MapFailedInv, FallbackInv DEF Acquire

-----------------------------------------------------------------------------
(* Every step of the context, of its callers and of the environment keeps  *)
(* the invariant.                                                          *)
LEMMA StepInv == Inv /\ [Next]_vars => Inv'
<1>1. Inv /\ UNCHANGED vars => Inv'
  BY DEF vars, env, kernel, ctx, flags, Inv, TypeOK, NothingLeaks, GemOwned, FdOwned,
     WindowsBalanced, OwesEnd, WindowOfLastFrame, SlotsFaithful, ConvertsOwnPlanes,
     SlotShape, CallShape, FlagShape, Acquiring, Holds, Cached
<1> QED
  BY <1>1, EnterInv, CacheInv, AcquireInv, OtherInv DEF Next

(* The invariant holds of drmtap_grab_mapped_fast whatever the number of   *)
(* slots, framebuffers, handles and descriptors.                           *)
THEOREM InvHolds == Spec => []Inv
<1> QED
  BY InitInv, StepInv, PTL DEF Spec

(* Types, for every number of slots.                                       *)
THEOREM TypeCorrect == Spec => []TypeOK
<1>1. Inv => TypeOK
  BY DEF Inv
<1> QED
  BY <1>1, InvHolds, PTL

(* No return path of drmtap_grab_mapped_fast, no eviction and no cleanup   *)
(* leaks a GEM handle, a descriptor or a mapping, or releases one twice.   *)
THEOREM NoLeak == Spec => []NothingLeaks
<1>1. Inv => NothingLeaks
  BY DEF Inv
<1> QED
  BY <1>1, InvHolds, PTL

(* Each DMA_BUF_SYNC START has exactly one END, while the descriptor is    *)
(* open.                                                                   *)
THEOREM SyncBalanced == Spec => []WindowsBalanced
<1>1. Inv => WindowsBalanced
  BY DEF Inv
<1> QED
  BY <1>1, InvHolds, PTL

(* The comment of fast_sync_close, proved: at most one window is open, for *)
(* any number of slots.  Two slots with a window would both hold the last  *)
(* frame, and no two slots hold the same one.                              *)
THEOREM AtMostOneWindow == Spec => []OneWindow
<1>1. ASSUME Inv, NEW f \in Fds, NEW g \in Fds, win[f] > 0, win[g] > 0
      PROVE  f = g
  <2>1. OwesEnd(f) /\ OwesEnd(g)
    BY <1>1 DEF Inv, WindowsBalanced
  <2>2. \A i \in Slots : slots[i].sync => slots[i].fb = lastFb /\ slots[i].fb # NoFb
    BY <1>1 DEF Inv, WindowOfLastFrame, SlotShape, EmptySlot
  <2>3. \A i, j \in Slots : slots[i].sync /\ slots[j].sync => i = j
    BY <1>1, <2>2 DEF Inv, SlotsFaithful
  <2>4. call.sync => \A i \in Slots : ~slots[i].sync
    BY <1>1 DEF Inv, TypeOK, CallShape, Acquiring, NoCall
  <2> QED
    BY <2>1, <2>3, <2>4 DEF OwesEnd
<1>2. Inv => OneWindow
  BY <1>1 DEF OneWindow
<1> QED
  BY <1>2, InvHolds, PTL

(* A cache hit maps the buffer of the framebuffer it was asked for.        *)
THEOREM HitsAreFaithful == Spec => []SlotsFaithful
<1>1. Inv => SlotsFaithful
  BY DEF Inv
<1> QED
  BY <1>1, InvHolds, PTL

(* Every conversion of the fast path reads ctx->fb2_* of the framebuffer   *)
(* it converts, whatever slow grabs and foreign conversions wrote there.   *)
THEOREM ConvertedWithOwnLayout == Spec => []ConvertsOwnPlanes
<1>1. Inv => ConvertsOwnPlanes
  BY DEF Inv
<1> QED
  BY <1>1, InvHolds, PTL

(* The window a slot keeps open is that of the last frame handed out.      *)
THEOREM WindowBelongs == Spec => []WindowOfLastFrame
<1>1. Inv => WindowOfLastFrame
  BY DEF Inv
<1> QED
  BY <1>1, InvHolds, PTL

(* Once latched, the refusal owns nothing.                                 *)
THEOREM RefusalOwnsNothing == Spec => []RefusalReleases
<1>1. ASSUME Inv, noPriv
      PROVE  /\ \A h \in Handles : bo[h] = NoFb
             /\ \A f \in Fds : buf[f] = NoFb /\ win[f] = 0
  <2>1. pc = "idle" /\ ~initialized
    BY <1>1 DEF Inv, FlagShape
  <2>2. call.gem = NoHandle /\ call.fd = NoFd /\ ~call.sync
    BY <1>1, <2>1 DEF Inv, CallShape, NoCall
  <2>3. \A i \in Slots : slots[i].gem = NoHandle /\ slots[i].fd = NoFd /\ ~slots[i].sync
    BY <1>1, <2>1 DEF Inv, FlagShape, SlotShape, Holds, EmptySlot
  <2>4. \A h \in Handles : ~GemOwned(h)
    BY <2>2, <2>3 DEF GemOwned
  <2>5. \A f \in Fds : ~FdOwned(f) /\ ~OwesEnd(f)
    BY <2>2, <2>3 DEF FdOwned, OwesEnd
  <2> QED
    BY <1>1, <2>4, <2>5 DEF Inv, NothingLeaks, WindowsBalanced
<1>2. Inv => RefusalReleases
  BY <1>1 DEF RefusalReleases
<1> QED
  BY <1>2, InvHolds, PTL

-----------------------------------------------------------------------------
(* A cached mapping stands as long as its slot does: no step of            *)
(* drmtap_grab_mapped_fast, of a slow grab or of a conversion on the same  *)
(* context changes the objects of a slot that is in use, except to release *)
(* all of them at once, with no sync window left open on the descriptor    *)
(* (the eviction, the blank plane, the refusal, drmtap_close).  In         *)
(* particular no slot in use is overwritten by another framebuffer, nor    *)
(* zeroed by the one-time initialisation.                                  *)
MappingKept(i) ==
  LET s == slots[i] IN
  /\ slots'[i].fb = s.fb /\ slots'[i].gem = s.gem /\ slots'[i].fd = s.fd
  /\ bo'[s.gem] = bo[s.gem]
  /\ buf'[s.fd] = buf[s.fd]
  /\ s.fd \in maps'

MappingReleased(i) ==
  LET s == slots[i] IN
  /\ slots'[i] = EmptySlot
  /\ bo'[s.gem] = NoFb
  /\ buf'[s.fd] = NoFb /\ win'[s.fd] = 0
  /\ s.fd \notin maps'

CachedMappingsKept ==
  [][\A i \in Slots : slots[i].fb # NoFb => MappingKept(i) \/ MappingReleased(i)]_vars

(* What is known of a slot in use.                                         *)
LEMMA InUse ==
  ASSUME Inv, NEW i \in Slots, slots[i].fb # NoFb
  PROVE  /\ slots[i].gem \in Handles /\ bo[slots[i].gem] # NoFb
         /\ slots[i].fd \in Fds /\ buf[slots[i].fd] # NoFb /\ slots[i].fd \in maps
         /\ initialized
BY DEF Inv, SlotsFaithful, NothingLeaks, FlagShape, Holds

(* The slots keep their objects, and the kernel's tables lose nothing that *)
(* a slot owns.                                                            *)
LEMMA StandsKept ==
  ASSUME Inv, NEW i \in Slots, slots[i].fb # NoFb,
         slots'[i].fb = slots[i].fb, slots'[i].gem = slots[i].gem, slots'[i].fd = slots[i].fd,
         maps \subseteq maps', bo'[slots[i].gem] = bo[slots[i].gem],
         buf'[slots[i].fd] = buf[slots[i].fd]
  PROVE  MappingKept(i)
BY InUse DEF MappingKept

(* drmtap_fast_cleanup, by a call that holds nothing.                      *)
LEMMA CleanupEmpties ==
  ASSUME Inv, NEW i \in Slots, slots[i].fb # NoFb, FastCleanup,
         pc \in {"idle", "plane", "getfb2"}
  PROVE  MappingReleased(i)
<1>1. call.gem = NoHandle /\ call.fd = NoFd
  BY DEF Inv, CallShape, NoCall
<1> QED
  BY <1>1, CleanupReleases, InUse DEF MappingReleased

(* Entry, and what comes between calls.                                    *)
LEMMA EntryKeeps ==
  ASSUME Inv, NEW i \in Slots, slots[i].fb # NoFb,
         EnterCall \/ Reopen \/ SlowGrab \/ ConvertForeign \/ Flip \/ SwitchHdr \/ DropPrivilege
  PROVE  MappingKept(i) \/ MappingReleased(i)
<1>1. CASE PlaneBlank \/ Reopen
  BY <1>1, CleanupEmpties DEF PlaneBlank, Reopen
<1>2. CASE EnterFirst
  BY <1>2, InUse, StandsKept DEF EnterFirst
<1>3. CASE UNCHANGED <<kernel, slots>>
  BY <1>3, StandsKept DEF kernel
<1> QED
  BY <1>1, <1>2, <1>3 DEF EnterCall, Refused, Enter, ReadPlane, SlowGrab, ConvertForeign, Flip,
                          SwitchHdr, DropPrivilege, ctx

(* The lookup: only the eviction releases, and only slot 0.                *)
LEMMA LookupKeeps ==
  ASSUME Inv, NEW i \in Slots, slots[i].fb # NoFb, Cache
  PROVE  MappingKept(i) \/ MappingReleased(i)
<1>1. ASSUME NEW j \in Slots, ServeCached(j) \/ TransferFailed(j) \/ MissEmptySlot(j)
      PROVE  MappingKept(i)
  <2>1. UNCHANGED <<bo, buf, maps>>
    BY <1>1 DEF ServeCached, BeginRead, TransferFailed, MissEmptySlot
  <2>2. \/ slots' = slots \/ slots' = SlotsClosed
        \/ \E started \in BOOLEAN : slots' = [SlotsClosed EXCEPT ![j].sync = started]
    BY <1>1 DEF ServeCached, BeginRead, TransferFailed, MissEmptySlot
  <2>3. /\ slots'[i].fb = slots[i].fb /\ slots'[i].gem = slots[i].gem
        /\ slots'[i].fd = slots[i].fd
    <3>1. \/ slots'[i] = slots[i] \/ slots'[i] = SlotsClosed[i]
          \/ \E started \in BOOLEAN : slots'[i] = [SlotsClosed[i] EXCEPT !.sync = started]
      BY <2>2 DEF SlotsClosed
    <3>2. SlotsClosed[i] \in SlotType
      BY SlotTypes DEF Inv, TypeOK
    <3> QED BY <3>1, <3>2, ClosedSlots DEF SlotType
  <2> QED BY <2>1, <2>3, StandsKept
<1>2. CASE MissEvict
  <2>1. /\ bo' = [h \in Handles |-> IF h = slots[Victim].gem THEN NoFb ELSE bo[h]]
        /\ buf' = [f \in Fds |-> IF f = slots[Victim].fd THEN NoFb ELSE buf[f]]
        /\ maps' = maps \ {slots[Victim].fd} /\ win' = WinClosed
        /\ slots' = [SlotsClosed EXCEPT ![Victim] = EmptySlot]
        /\ pc = "lookup" /\ Victim \in Slots /\ ~Cached(NoFb)
    BY <1>2 DEF MissEvict, Evicted, Victim, Slots
  <2>2. CASE i = Victim
    BY <2>1, <2>2, InUse, LookupHolds DEF MappingReleased, SlotsClosed
  <2>3. CASE i # Victim
    <3>1. slots[i].gem # slots[Victim].gem /\ slots[i].fd # slots[Victim].fd
      BY <2>1, <2>3 DEF Inv, SlotShape, Cached, Holds
    <3>2. slots'[i] = SlotsClosed[i]
      BY <2>1, <2>3 DEF SlotsClosed
    <3> QED BY <2>1, <3>1, <3>2, InUse, ClosedSlots DEF MappingKept
  <2> QED BY <2>2, <2>3
<1> QED BY <1>1, <1>2 DEF Cache

(* The miss: what is acquired, stored or given back is the call's own, and *)
(* it is stored in an empty slot.                                          *)
LEMMA AcquireKeeps ==
  ASSUME Inv, NEW i \in Slots, slots[i].fb # NoFb, Acquire
  PROVE  MappingKept(i) \/ MappingReleased(i)
<1>1. /\ bo \in [Handles -> Fbs \cup {NoFb}] /\ buf \in [Fds -> Fbs \cup {NoFb}]
      /\ slots \in [Slots -> SlotType]
  BY DEF Inv, TypeOK
<1>2. pc \in {"export", "map", "fallback"} => slots[i].gem # call.gem
  BY DEF Inv, CallShape
<1>3. pc \in {"map", "fallback"} => slots[i].fd # call.fd
  BY DEF Inv, CallShape
<1>4. CASE GetFb2Failed
  BY <1>4, StandsKept DEF GetFb2Failed, kernel, ctx
<1>5. CASE GetFb2Unprivileged
  BY <1>5, CleanupEmpties DEF GetFb2Unprivileged
<1>6. CASE GetFb2
  <2>1. UNCHANGED <<buf, maps, slots>>
    BY <1>6 DEF GetFb2
  <2>2. \E fh \in Minted :
           \/ bo' = [h \in Handles |-> IF h \in Kept(fh) THEN call.fb ELSE bo[h]]
           \/ bo' = [h \in Handles |-> IF h \in Kept(fh) \ {fh[1]} THEN call.fb ELSE bo[h]]
    BY <1>6 DEF GetFb2
  <2>3. \A fh \in Minted : slots[i].gem \notin Kept(fh)
    BY InUse DEF Minted, Kept, HandlesOf, FreshHandles
  <2>4. bo'[slots[i].gem] = bo[slots[i].gem]
    BY <2>2, <2>3, InUse
  <2> QED BY <2>1, <2>4, StandsKept
<1>7. CASE Export
  <2>1. UNCHANGED <<bo, maps, slots>>
        /\ \E f \in Fds : buf[f] = NoFb /\ buf' = [buf EXCEPT ![f] = bo[call.gem]]
    BY <1>7 DEF Export, ctx
  <2> QED BY <1>1, <2>1, InUse, StandsKept
<1>8. CASE ExportFailed
  <2>1. UNCHANGED <<buf, maps, slots>> /\ bo' = [bo EXCEPT ![call.gem] = NoFb]
        /\ pc = "export"
    BY <1>8 DEF ExportFailed, DropGem, ctx
  <2> QED BY <1>1, <1>2, <2>1, InUse, StandsKept
<1>9. CASE Mapped
  <2>1. UNCHANGED <<bo, buf>> /\ maps \subseteq maps' /\ pc = "map"
        /\ \E s : slots' = [slots EXCEPT ![call.slot] = s]
    BY <1>9 DEF Mapped, Store
  <2>2. call.slot # i
    BY <2>1, AcquireHolds DEF Acquiring, Holds
  <2>3. slots'[i] = slots[i] BY <1>1, <2>1, <2>2
  <2> QED BY <2>1, <2>3, StandsKept
<1>10. CASE MapFailed
  BY <1>10, StandsKept DEF MapFailed
<1>11. CASE EglFallback \/ NoFallback
  <2>1. UNCHANGED <<maps, slots>> /\ bo' = [bo EXCEPT ![call.gem] = NoFb]
        /\ buf' = [buf EXCEPT ![call.fd] = NoFb] /\ pc = "fallback"
    BY <1>11 DEF EglFallback, NoFallback, ReleaseUncached, DropGem, ctx
  <2> QED BY <1>1, <1>2, <1>3, <2>1, InUse, StandsKept
<1> QED
  BY <1>4, <1>5, <1>6, <1>7, <1>8, <1>9, <1>10, <1>11 DEF Acquire

(* No step takes part of a slot away, or replaces what is in one.          *)
THEOREM MappingsStand == Spec => CachedMappingsKept
<1>1. Inv /\ [Next]_vars
        => [\A i \in Slots : slots[i].fb # NoFb => MappingKept(i) \/ MappingReleased(i)]_vars
  BY EntryKeeps, LookupKeeps, AcquireKeeps DEF Next
<1> QED
  BY <1>1, InvHolds, PTL DEF Spec, CachedMappingsKept

=============================================================================
