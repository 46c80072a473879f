------------------------------ MODULE FastGrab ------------------------------
(***************************************************************************)
(* The persistent-mmap capture path, drmtap_grab_mapped_fast in            *)
(* src/src/drm_grab.c.  The context keeps a few slots, one per framebuffer *)
(* it has met, and each slot owns a GEM handle, a DMA-BUF descriptor, a    *)
(* CPU mapping and possibly an open DMA_BUF_SYNC window.  One call of the  *)
(* function is several steps here, one per ioctl that can fail, so that    *)
(* the compositor, the connector and the process's own privileges move     *)
(* between them as they do in reality.                                     *)
(*                                                                         *)
(* The kernel keeps three tables: which buffer a GEM handle names (bo),    *)
(* which buffer a descriptor exports (buf), and how many sync windows are  *)
(* open on a descriptor (win).  A buffer is named by its framebuffer id:   *)
(* drmtap.h says that this path assumes an id is never recycled.           *)
(***************************************************************************)
EXTENDS Integers, FiniteSets

CONSTANTS
  Fbs,       \* framebuffer ids the compositor flips between
  NoFb,      \* id 0: no framebuffer
  Handles,   \* GEM handles the kernel can mint on drm_fd
  NoHandle,  \* handle 0
  Fds,       \* descriptors the kernel can hand out
  NoFd,      \* descriptor -1
  NumSlots,  \* DRMTAP_FAST_SLOTS
  Planes,    \* KMS planes find_primary_plane can answer with
  NoPlane    \* plane id 0

ASSUME SentinelAssumption ==
  /\ NoFb \notin Fbs
  /\ NoHandle \notin Handles
  /\ NoFd \notin Fds
  /\ NoPlane \notin Planes

ASSUME SlotsAssumption == NumSlots \in Nat \ {0}

VARIABLES
  isVirtio,    \* env: is_virtio_gpu(ctx), the driver behind drm_fd
  scanout,     \* env: the framebuffer bound to the captured plane, or NoFb
  hdr,         \* env: the connector advertises an HDR transfer function
  cap,         \* env: the process holds CAP_SYS_ADMIN
  bo,          \* kernel: handle -> framebuffer, NoFb when the handle is free
  buf,         \* kernel: descriptor -> framebuffer, NoFb when it is closed
  maps,        \* kernel: descriptors whose buffer is mapped in the process
  win,         \* kernel: descriptor -> STARTs minus ENDs
  slots,       \* ctx->fast_slots
  initialized, \* ctx->fast_initialized
  fastPlane,   \* ctx->fast_plane_id
  lastFb,      \* ctx->fast_last_fb_id
  noCpuMap,    \* ctx->fast_no_cpu_map
  noPriv,      \* ctx->fast_no_privilege
  staged,      \* whose plane layout ctx->fb2_* holds
  curHdr,      \* ctx->cur_hdr_eotf # 0
  grabPlane,   \* ctx->grab_plane_id
  pc,          \* where the call in progress stands
  call,        \* its local variables
  conv         \* the last conversion: the frame's fb, the staged layout and HDR used

env    == <<isVirtio, scanout, hdr, cap>>
kernel == <<bo, buf, maps, win>>
flags  == <<initialized, fastPlane, noCpuMap, noPriv>>
ctx    == <<slots, flags, lastFb, staged, curHdr, grabPlane>>
vars   == <<env, kernel, ctx, pc, call, conv>>

-----------------------------------------------------------------------------
Slots == 0 .. NumSlots - 1

EmptySlot == [fb |-> NoFb, gem |-> NoHandle, fd |-> NoFd, sync |-> FALSE]

SlotType == [fb : Fbs \cup {NoFb}, gem : Handles \cup {NoHandle},
             fd : Fds \cup {NoFd}, sync : BOOLEAN]

(* The locals of a call: the framebuffer it captures, the slot it will     *)
(* fill, the handle and descriptor no slot owns yet, whether a START is    *)
(* open on that descriptor, and what the call returned.                    *)
NoCall(result) == [fb |-> NoFb, slot |-> 0, gem |-> NoHandle, fd |-> NoFd,
                   sync |-> FALSE, ret |-> result]

Results == {"none", "ok", "EACCES", "ENODEV", "ENOMEM", "EIO"}

CallType == [fb : Fbs \cup {NoFb}, slot : Slots, gem : Handles \cup {NoHandle},
             fd : Fds \cup {NoFd}, sync : BOOLEAN, ret : Results]

ConvType == [fb : Fbs \cup {NoFb}, planes : Fbs \cup {NoFb}, hdr : BOOLEAN]

Return(result) == /\ pc' = "idle"
                  /\ call' = NoCall(result)

Goto(label, locals) == /\ pc' = label
                       /\ call' = locals

-----------------------------------------------------------------------------
(* Sync windows.                                                           *)

(* Descriptors that owe an END: those of the slots with sync_started set.  *)
OpenFds == {slots[i].fd : i \in {j \in Slots : slots[j].sync}} \ {NoFd}

(* Mutant: the flags are cleared but no ioctl is made.                     *)
WinKept == win

(* win after fast_sync_close: one END on every slot that owes one.         *)
WinClosed == [f \in Fds |-> IF f \in OpenFds THEN win[f] - 1 ELSE win[f]]

SlotsClosed == [i \in Slots |-> [slots[i] EXCEPT !.sync = FALSE]]

(* drmtap_fast_cleanup: every END, every munmap, every close, every        *)
(* GEM_CLOSE, then the slots and the per-device flags are reset.           *)
FastCleanup ==
  /\ win' = WinClosed
  /\ maps' = maps \ {slots[i].fd : i \in Slots}
  /\ buf' = [f \in Fds |-> IF \E i \in Slots : slots[i].fd = f THEN NoFb ELSE buf[f]]
  /\ bo' = [h \in Handles |-> IF \E i \in Slots : slots[i].gem = h THEN NoFb ELSE bo[h]]
  /\ slots' = [i \in Slots |-> EmptySlot]
  /\ fastPlane' = NoPlane
  /\ lastFb' = NoFb
  /\ initialized' = FALSE
  /\ noCpuMap' = FALSE

-----------------------------------------------------------------------------
(* Entry: the sticky refusal, then the one-time initialisation.            *)

Refused ==
  /\ pc = "idle"
  /\ noPriv
  /\ Return("EACCES")
  /\ UNCHANGED <<env, kernel, ctx, conv>>

Enter ==
  /\ pc = "idle"
  /\ ~noPriv
  /\ initialized
  /\ Goto("plane", NoCall("none"))
  /\ UNCHANGED <<env, kernel, ctx, conv>>

(* read_hdr_metadata_direct: the transfer function of the connector that   *)
(* drives the CRTC, matched by its atomic CRTC_ID; SDR when any of the      *)
(* reads fails.                                                            *)
ReadHdr == curHdr' \in {hdr, FALSE}

(* The first call looks the plane up and reads the HDR state; the slots    *)
(* are zeroed without releasing anything, so they had better be empty.     *)
EnterFirst ==
  /\ pc = "idle"
  /\ ~noPriv
  /\ ~initialized
  /\ ReadHdr
  /\ \/ /\ fastPlane' = NoPlane          \* no active plane
        /\ Return("ENODEV")
        /\ UNCHANGED <<slots, lastFb, noCpuMap, initialized>>
     \/ /\ \E p \in Planes : fastPlane' = p
        /\ slots' = [i \in Slots |-> EmptySlot]
        /\ lastFb' = NoFb
        /\ noCpuMap' = FALSE
        /\ initialized' = TRUE
        /\ Goto("plane", NoCall("none"))
  /\ UNCHANGED <<env, kernel, noPriv, staged, grabPlane, conv>>

(* GetPlane: the plane's current framebuffer, or a teardown when it is     *)
(* blank.  The plane may also have disappeared.                            *)
ReadPlane ==
  /\ pc = "plane"
  /\ scanout # NoFb
  /\ Goto("lookup", [call EXCEPT !.fb = scanout])
  /\ UNCHANGED <<env, kernel, ctx, conv>>

PlaneBlank ==
  /\ pc = "plane"
  /\ FastCleanup
  /\ Return("ENODEV")
  /\ UNCHANGED <<env, noPriv, staged, curHdr, grabPlane, conv>>

-----------------------------------------------------------------------------
(* Serving a cached slot.                                                  *)

Holds(i, fb) == slots[i].fb = fb

(* Mutant: the older windows stay open beside the new one.                 *)
BeginReadBeside(i, started) ==
  /\ started => ~isVirtio
  /\ slots' = [slots EXCEPT ![i].sync = started]
  /\ win' = [f \in Fds |-> win[f] - (IF slots[i].sync /\ f = slots[i].fd THEN 1 ELSE 0)
                                 + (IF started /\ f = slots[i].fd THEN 1 ELSE 0)]
  /\ UNCHANGED <<bo, buf, maps>>

(* The cached buffer is made readable again: TRANSFER_FROM_HOST on virtio, *)
(* a fresh START elsewhere (which may fail and is then not recorded).      *)
(* Either way every older window is closed.                                *)
BeginRead(i, started) ==
  /\ started => ~isVirtio
  /\ slots' = [SlotsClosed EXCEPT ![i].sync = started]
  /\ win' = [f \in Fds |-> WinClosed[f] + IF started /\ f = slots[i].fd THEN 1 ELSE 0]
  /\ UNCHANGED <<bo, buf, maps>>

(* Mutant: a hit leaves the planes of the last GetFB2 staged.              *)
RestageSkipped(i) == UNCHANGED staged

(* fast_slot_restage_planes: a hit skips GetFB2, so ctx->fb2_* is reloaded *)
(* from the slot.                                                          *)
Restage(i) == staged' = slots[i].fb

(* gpu_auto_process reads the layout staged in ctx, then the frame or its  *)
(* error is handed back.  grab_plane_id moves only when there is a frame.  *)
Convert(fb) ==
  /\ conv' = [fb |-> fb, planes |-> staged', hdr |-> curHdr]
  /\ \/ /\ Return("ok")
        /\ grabPlane' = fastPlane
     \/ /\ Return("EIO")
        /\ UNCHANGED grabPlane

(* A slot holds the framebuffer: the "unchanged fb_id" branch and the      *)
(* CACHE HIT branch differ only in that the second closes the windows      *)
(* before anything can fail and records the new last fb_id.                *)
ServeCached(i) ==
  /\ pc = "lookup"
  /\ Holds(i, call.fb)
  /\ \E started \in BOOLEAN : BeginRead(i, started)
  /\ lastFb' = call.fb
  /\ Restage(i)
  /\ Convert(call.fb)
  /\ UNCHANGED <<env, flags, curHdr>>

(* virtio_transfer_from_host, made on virtio only: the transfer or the      *)
(* wait for it can fail.                                                   *)
Transfers == IF isVirtio THEN {"done", "failed"} ELSE {"done"}

(* The windows of the CACHE HIT branch have been closed by the time the    *)
(* transfer fails, those of the unchanged branch have not.                 *)
TransferFailed(i) ==
  /\ pc = "lookup"
  /\ "failed" \in Transfers
  /\ Holds(i, call.fb)
  /\ IF call.fb = lastFb
     THEN UNCHANGED <<slots, win>>
     ELSE slots' = SlotsClosed /\ win' = WinClosed
  /\ Return("EIO")
  /\ UNCHANGED <<env, bo, buf, maps, flags, lastFb, staged, curHdr, grabPlane, conv>>

-----------------------------------------------------------------------------
(* A miss: find_or_alloc_slot, GetFB2, PRIME export, mmap, store.          *)

Cached(fb) == \E i \in Slots : Holds(i, fb)

FirstEmpty(i) == /\ Holds(i, NoFb)
                 /\ \A j \in Slots : Holds(j, NoFb) => i <= j

MissEmptySlot(i) ==
  /\ pc = "lookup"
  /\ ~Cached(call.fb)
  /\ FirstEmpty(i)
  /\ slots' = SlotsClosed
  /\ win' = WinClosed
  /\ Goto("getfb2", [call EXCEPT !.slot = i])
  /\ UNCHANGED <<env, bo, buf, maps, flags, lastFb, staged, curHdr, grabPlane, conv>>

(* The cache is full: slot 0 gives up everything it owns, whatever slot    *)
(* was used last, and is left empty.                                       *)
Victim == 0

(* Mutants: zeroed, descriptor included; its framebuffer id left behind.   *)
EvictedZeroed == [EmptySlot EXCEPT !.fd = 0]
EvictedKeepingFb == [EmptySlot EXCEPT !.fb = slots[Victim].fb]

Evicted == EmptySlot

MissEvict ==
  /\ pc = "lookup"
  /\ ~Cached(call.fb)
  /\ ~Cached(NoFb)
  /\ slots' = [SlotsClosed EXCEPT ![Victim] = Evicted]
  /\ win' = WinClosed
  /\ maps' = maps \ {slots[Victim].fd}
  /\ buf' = [f \in Fds |-> IF f = slots[Victim].fd THEN NoFb ELSE buf[f]]
  /\ bo' = [h \in Handles |-> IF h = slots[Victim].gem THEN NoFb ELSE bo[h]]
  /\ Goto("getfb2", [call EXCEPT !.slot = Victim])
  /\ UNCHANGED <<env, flags, lastFb, staged, curHdr, grabPlane, conv>>

(* GetFB2 mints one handle per plane of the framebuffer; planes that share *)
(* a buffer share a handle.  Two planes stand for the four of the uAPI: an *)
(* auxiliary plane has no handle, the main handle, or its own.             *)
FbPlanes == 1 .. 2

FreshHandles == {h \in Handles : bo[h] = NoFb}

Minted == {fh \in [FbPlanes -> FreshHandles \cup {NoHandle}] : fh[1] # NoHandle}

HandlesOf(fh) == {fh[p] : p \in FbPlanes} \ {NoHandle}

(* Mutant: the planes' own handles are forgotten.                          *)
AuxiliaryForgotten(fh) == {}

(* close_auxiliary_gem_handles                                             *)
Auxiliary(fh) == {fh[p] : p \in FbPlanes \ {1}} \ {NoHandle, fh[1]}

Kept(fh) == HandlesOf(fh) \ Auxiliary(fh)

GetFb2Failed ==
  /\ pc = "getfb2"
  /\ Return("EIO")
  /\ UNCHANGED <<env, kernel, ctx, conv>>

(* Mutant: refused from now on, but the slots keep what they own.          *)
GetFb2UnprivilegedKeeping ==
  /\ pc = "getfb2"
  /\ ~cap
  /\ noPriv' = TRUE
  /\ Return("EACCES")
  /\ UNCHANGED <<env, kernel, slots, lastFb, initialized, fastPlane, noCpuMap, staged,
                 curHdr, grabPlane, conv>>

(* Without CAP_SYS_ADMIN the handles come back zero: latch the refusal and *)
(* release every slot, which is unusable from now on.                      *)
GetFb2Unprivileged ==
  /\ pc = "getfb2"
  /\ ~cap
  /\ noPriv' = TRUE
  /\ FastCleanup
  /\ Return("EACCES")
  /\ UNCHANGED <<env, staged, curHdr, grabPlane, conv>>

(* Geometry that fails validation costs the handle it came with.           *)
GetFb2 ==
  /\ pc = "getfb2"
  /\ cap
  /\ \E fh \in Minted :
       \/ /\ bo' = [h \in Handles |-> IF h \in Kept(fh) THEN call.fb ELSE bo[h]]
          /\ staged' = call.fb
          /\ Goto("export", [call EXCEPT !.gem = fh[1]])
       \/ /\ bo' = [h \in Handles |-> IF h \in Kept(fh) \ {fh[1]} THEN call.fb ELSE bo[h]]
          /\ Return("EIO")
          /\ UNCHANGED staged
  /\ UNCHANGED <<env, buf, maps, win, slots, flags, lastFb, curHdr, grabPlane, conv>>

DropGem == bo' = [bo EXCEPT ![call.gem] = NoFb]

Export ==
  /\ pc = "export"
  /\ \E f \in Fds :
       /\ buf[f] = NoFb
       /\ buf' = [buf EXCEPT ![f] = bo[call.gem]]
       /\ Goto("map", [call EXCEPT !.fd = f])
  /\ UNCHANGED <<env, bo, maps, win, ctx, conv>>

ExportFailed ==
  /\ pc = "export"
  /\ DropGem
  /\ Return("EIO")
  /\ UNCHANGED <<env, buf, maps, win, ctx, conv>>

(* Mutant: the slot is filled but not recorded as the last one served.     *)
StoreUnrecorded(started) ==
  /\ started => ~noCpuMap
  /\ ~isVirtio => ~noCpuMap
  /\ maps' = maps \cup {call.fd}
  /\ win' = IF started THEN [win EXCEPT ![call.fd] = @ + 1] ELSE win
  /\ slots' = [slots EXCEPT ![call.slot] =
                 [fb |-> call.fb, gem |-> call.gem, fd |-> call.fd, sync |-> started]]
  /\ UNCHANGED lastFb

(* The mapping succeeds and the slot adopts handle, descriptor and window. *)
(* On virtio the dumb mapping comes first and takes no START; when that    *)
(* fails, and elsewhere, a START precedes the mmap of the descriptor.      *)
Store(started) ==
  /\ started => ~noCpuMap
  /\ ~isVirtio => ~noCpuMap
  /\ maps' = maps \cup {call.fd}
  /\ win' = IF started THEN [win EXCEPT ![call.fd] = @ + 1] ELSE win
  /\ slots' = [slots EXCEPT ![call.slot] =
                 [fb |-> call.fb, gem |-> call.gem, fd |-> call.fd, sync |-> started]]
  /\ lastFb' = call.fb

Mapped ==
  /\ pc = "map"
  /\ \E started \in BOOLEAN : Store(started)
  /\ UNCHANGED staged
  /\ Convert(call.fb)
  /\ UNCHANGED <<env, bo, buf, flags, curHdr>>

(* The scanout refuses a CPU mapping: remembered, so that later calls skip *)
(* both the START and the mmap.                                            *)
MapFailed ==
  /\ pc = "map"
  /\ \E started \in BOOLEAN :
       /\ started => ~noCpuMap
       /\ win' = IF started THEN [win EXCEPT ![call.fd] = @ + 1] ELSE win
       /\ Goto("fallback", [call EXCEPT !.sync = started])
  /\ noCpuMap' = TRUE
  /\ UNCHANGED <<env, bo, buf, maps, slots, initialized, fastPlane, noPriv, lastFb,
                 staged, curHdr, grabPlane, conv>>

(* The uncached frame: the window closes on the still open descriptor, the *)
(* descriptor and the handle go back.                                      *)
ReleaseUncached ==
  /\ win' = IF call.sync THEN [win EXCEPT ![call.fd] = @ - 1] ELSE win
  /\ buf' = [buf EXCEPT ![call.fd] = NoFb]
  /\ DropGem

EglFallback ==
  /\ pc = "fallback"
  /\ ReleaseUncached
  /\ lastFb' = NoFb
  /\ UNCHANGED staged
  /\ Convert(call.fb)
  /\ UNCHANGED <<env, maps, slots, flags, curHdr>>

NoFallback ==
  /\ pc = "fallback"
  /\ ReleaseUncached
  /\ Return("ENOMEM")
  /\ UNCHANGED <<env, maps, ctx, conv>>

-----------------------------------------------------------------------------
(* What else happens to a context.                                         *)

(* drmtap_close followed by drmtap_open: the slots are released one by one *)
(* and a zeroed context takes the old one's place.                         *)
Reopen ==
  /\ pc = "idle"
  /\ FastCleanup
  /\ noPriv' = FALSE
  /\ staged' = NoFb
  /\ curHdr' = FALSE
  /\ grabPlane' = NoPlane
  /\ call' = NoCall("none")
  /\ UNCHANGED <<env, pc, conv>>

(* A slow grab on the same context (do_grab) reads the HDR state, stages    *)
(* the layout of what it captured unless it failed before that, and names  *)
(* its plane if it produced a frame.  A conversion of a foreign descriptor *)
(* (drmtap_convert_dmabuf) stages what the descriptor says.  What either   *)
(* acquires it releases itself.                                            *)
SlowGrab ==
  /\ pc = "idle"
  /\ ReadHdr
  /\ \/ UNCHANGED <<staged, grabPlane>>
     \/ /\ scanout # NoFb
        /\ staged' = scanout
        /\ grabPlane' \in Planes \cup {grabPlane}
  /\ call' = NoCall("none")
  /\ UNCHANGED <<env, kernel, slots, flags, lastFb, pc, conv>>

ConvertForeign ==
  /\ pc = "idle"
  /\ staged' = NoFb
  /\ curHdr' \in BOOLEAN
  /\ call' = NoCall("none")
  /\ UNCHANGED <<env, kernel, slots, flags, lastFb, grabPlane, pc, conv>>

(* The environment.                                                        *)
Flip == /\ scanout' \in Fbs \cup {NoFb}
        /\ UNCHANGED <<isVirtio, hdr, cap, kernel, ctx, pc, call, conv>>

SwitchHdr == /\ hdr' = ~hdr
             /\ UNCHANGED <<isVirtio, scanout, cap, kernel, ctx, pc, call, conv>>

DropPrivilege == /\ cap
                 /\ cap' = FALSE
                 /\ UNCHANGED <<isVirtio, scanout, hdr, kernel, ctx, pc, call, conv>>

-----------------------------------------------------------------------------
Init ==
  /\ isVirtio \in BOOLEAN
  /\ scanout \in Fbs \cup {NoFb}
  /\ hdr \in BOOLEAN
  /\ cap \in BOOLEAN
  /\ bo = [h \in Handles |-> NoFb]
  /\ buf = [f \in Fds |-> NoFb]
  /\ maps = {}
  /\ win = [f \in Fds |-> 0]
  /\ slots = [i \in Slots |-> EmptySlot]
  /\ initialized = FALSE
  /\ fastPlane = NoPlane
  /\ lastFb = NoFb
  /\ noCpuMap = FALSE
  /\ noPriv = FALSE
  /\ staged = NoFb
  /\ curHdr = FALSE
  /\ grabPlane = NoPlane
  /\ pc = "idle"
  /\ call = NoCall("none")
  /\ conv = [fb |-> NoFb, planes |-> NoFb, hdr |-> FALSE]

EnterCall == Refused \/ Enter \/ EnterFirst \/ ReadPlane \/ PlaneBlank

Cache == \/ \E i \in Slots : ServeCached(i) \/ TransferFailed(i) \/ MissEmptySlot(i)
         \/ MissEvict

Acquire == \/ GetFb2Failed \/ GetFb2Unprivileged \/ GetFb2
           \/ Export \/ ExportFailed
           \/ Mapped \/ MapFailed \/ EglFallback \/ NoFallback

Next == \/ EnterCall \/ Cache \/ Acquire
        \/ Reopen \/ SlowGrab \/ ConvertForeign
        \/ Flip \/ SwitchHdr \/ DropPrivilege

Spec == Init /\ [][Next]_vars

-----------------------------------------------------------------------------
(* Properties.                                                             *)

(* Every field of the context and every local of drmtap_grab_mapped_fast   *)
(* keeps its type.                                                         *)
TypeOK ==
  /\ isVirtio \in BOOLEAN
  /\ scanout \in Fbs \cup {NoFb}
  /\ hdr \in BOOLEAN
  /\ cap \in BOOLEAN
  /\ bo \in [Handles -> Fbs \cup {NoFb}]
  /\ buf \in [Fds -> Fbs \cup {NoFb}]
  /\ maps \in SUBSET Fds
  /\ win \in [Fds -> Int]
  /\ slots \in [Slots -> SlotType]
  /\ initialized \in BOOLEAN
  /\ fastPlane \in Planes \cup {NoPlane}
  /\ lastFb \in Fbs \cup {NoFb}
  /\ noCpuMap \in BOOLEAN
  /\ noPriv \in BOOLEAN
  /\ staged \in Fbs \cup {NoFb}
  /\ curHdr \in BOOLEAN
  /\ grabPlane \in Planes \cup {NoPlane}
  /\ pc \in {"idle", "plane", "lookup", "getfb2", "export", "map", "fallback"}
  /\ call \in CallType
  /\ conv \in ConvType

(* Who owns what: a slot owns the handle and the descriptor it stores, the *)
(* call in progress owns those no slot has adopted yet.                    *)
GemOwned(h) == (\E i \in Slots : slots[i].gem = h) \/ call.gem = h

FdOwned(f) == (\E i \in Slots : slots[i].fd = f) \/ call.fd = f

(* A live handle, descriptor or mapping always has an owner that will      *)
(* release it, and an owner never holds one already released: no return    *)
(* path of drmtap_grab_mapped_fast leaks or frees twice.                   *)
NothingLeaks ==
  /\ \A h \in Handles : bo[h] # NoFb <=> GemOwned(h)
  /\ \A f \in Fds : buf[f] # NoFb <=> FdOwned(f)
  /\ \A f \in Fds : f \in maps <=> \E i \in Slots : slots[i].fd = f

(* sync_started tells the truth: a descriptor has one START without END    *)
(* exactly when a slot, or the call about to give it to one, says so, and  *)
(* such a descriptor is still open.  No END without START, no START lost   *)
(* to an eviction or a cleanup.                                            *)
OwesEnd(f) == \/ \E i \in Slots : slots[i].fd = f /\ slots[i].sync
              \/ call.fd = f /\ call.sync

WindowsBalanced ==
  \A f \in Fds : /\ win[f] = IF OwesEnd(f) THEN 1 ELSE 0
                 /\ OwesEnd(f) => buf[f] # NoFb

(* "At most one slot can be open" (comment of fast_sync_close): two        *)
(* buffers are never held open for CPU access at once.                     *)
OneWindow == \A f, g \in Fds : win[f] > 0 /\ win[g] > 0 => f = g

(* The window a slot keeps open belongs to the last frame handed out, the  *)
(* only one the caller may still be reading.                               *)
WindowOfLastFrame == \A i \in Slots : slots[i].sync => slots[i].fb = lastFb

(* A slot found by fb_id really maps that framebuffer's buffer, so a cache *)
(* hit never shows another one; two slots never hold the same fb_id.       *)
SlotsFaithful ==
  /\ \A i \in Slots : slots[i].fb # NoFb =>
       /\ slots[i].gem \in Handles /\ bo[slots[i].gem] = slots[i].fb
       /\ slots[i].fd \in Fds /\ buf[slots[i].fd] = slots[i].fb
  /\ \A i, j \in Slots : slots[i].fb = slots[j].fb /\ slots[i].fb # NoFb => i = j

(* Whatever was grabbed or converted on the context in between, a frame is *)
(* converted with the plane layout of its own framebuffer.                 *)
ConvertsOwnPlanes == conv.planes = conv.fb

(* Once the process is known to be unprivileged the fast path owns         *)
(* nothing: the refusal released the slots and nothing refills them.       *)
RefusalReleases ==
  noPriv => /\ \A h \in Handles : bo[h] = NoFb
            /\ \A f \in Fds : buf[f] = NoFb /\ win[f] = 0

-----------------------------------------------------------------------------
(* The inductive invariant: what the properties above need of the shape of *)
(* a slot and of the call in progress.                                     *)

(* A slot is empty or owns live objects of its own.                        *)
SlotShape ==
  /\ \A i \in Slots : slots[i].fb = NoFb => slots[i] = EmptySlot
  /\ \A i, j \in Slots : slots[i].fb # NoFb /\ slots[j].fb # NoFb /\ i # j =>
       slots[i].gem # slots[j].gem /\ slots[i].fd # slots[j].fd

Acquiring == pc \in {"getfb2", "export", "map", "fallback"}

(* The call holds what it has acquired so far and nothing a slot owns.     *)
CallShape ==
  /\ pc \in {"idle", "plane"} => call = NoCall(call.ret)
  /\ pc = "lookup" => call.fb # NoFb /\ call = [NoCall(call.ret) EXCEPT !.fb = call.fb]
  /\ Acquiring => /\ call.fb # NoFb
                  /\ ~Cached(call.fb)
                  /\ Holds(call.slot, NoFb)
                  /\ \A i \in Slots : ~slots[i].sync
  /\ pc = "getfb2" => call.gem = NoHandle /\ call.fd = NoFd /\ ~call.sync
  /\ pc = "export" => call.gem # NoHandle /\ call.fd = NoFd /\ ~call.sync
  /\ pc = "map" => call.gem # NoHandle /\ call.fd # NoFd /\ ~call.sync
  /\ pc = "fallback" => call.gem # NoHandle /\ call.fd # NoFd
  /\ pc \in {"export", "map", "fallback"} =>
       /\ bo[call.gem] = call.fb
       /\ staged = call.fb
       /\ \A i \in Slots : slots[i].gem # call.gem
  /\ pc \in {"map", "fallback"} =>
       /\ buf[call.fd] = call.fb
       /\ \A i \in Slots : slots[i].fd # call.fd

(* Slots are filled only between the initialisation and a cleanup, and no  *)
(* call gets past the refusal once it is latched.                          *)
FlagShape ==
  /\ ~initialized => \A i \in Slots : Holds(i, NoFb)
  /\ pc # "idle" => initialized /\ ~noPriv
  /\ noPriv => ~initialized

Inv ==
  /\ TypeOK /\ NothingLeaks /\ WindowsBalanced /\ WindowOfLastFrame
  /\ SlotsFaithful /\ ConvertsOwnPlanes
  /\ SlotShape /\ CallShape /\ FlagShape

=============================================================================
