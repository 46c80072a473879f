------------------------------ MODULE SlowGrab ------------------------------
(***************************************************************************)
(* The capture that acquires and releases everything per frame: do_grab    *)
(* behind drmtap_grab, drmtap_grab_mapped and drmtap_grab_desc, and        *)
(* drmtap_frame_release (src/src/drm_grab.c).  The caller may hold several *)
(* frames; each carries a private record that owns a GEM handle, a DMA-BUF *)
(* descriptor, a mapping and a sync window, some or none of them, as the   *)
(* frame came from the kernel or from the privileged helper.               *)
(*                                                                         *)
(* A grab is one step per ioctl or message, so that the compositor flips   *)
(* and privileges go between them.  A buffer is named by its framebuffer.  *)
(***************************************************************************)
EXTENDS AutoProcess, Integers, FiniteSets

CONSTANTS
  Fbs,       \* framebuffers the compositor flips between
  NoFb,      \* id 0: no framebuffer
  Scan,      \* what each framebuffer is: a function from Fbs to Scanouts
  Handles,   \* GEM handles the kernel can mint on drm_fd
  NoHandle,  \* handle 0
  Fds,       \* descriptors the kernel can hand out
  NoFd,      \* descriptor -1
  Privs,     \* frame_priv_t objects calloc can return
  NoPriv,    \* NULL
  Frames,    \* the caller's drmtap_frame_info variables
  Planes,    \* KMS planes find_primary_plane can answer with
  NoPlane,   \* plane id 0
  Gpus       \* machines: the driver, and whether the device renders on its host,
             \* the EGL detile works, and the library was built with its helper

ASSUME GrabAssumption ==
  /\ NoFb \notin Fbs
  /\ NoHandle \notin Handles
  /\ NoFd \notin Fds
  /\ NoPriv \notin Privs
  /\ NoPlane \notin Planes
  /\ Frames # {}
  /\ Scan \in [Fbs -> Scanouts]
  /\ Gpus \subseteq [driver : Drivers, virgl : BOOLEAN, egl : BOOLEAN, helper : BOOLEAN]
  /\ \A g \in Gpus : g.virgl => g.driver = "virtio_gpu"

VARIABLES
  gpu,        \* env: the device behind drm_fd, and the build
  scanout,    \* env: the framebuffer bound to the captured plane, or NoFb
  cap,        \* env: the process may read framebuffer handles
  bo,         \* kernel: handle -> framebuffer, NoFb when the handle is free
  buf,        \* kernel: descriptor -> framebuffer, NoFb when it is closed
  win,        \* kernel: descriptor -> STARTs minus ENDs
  maps,       \* kernel: frame_priv_t objects whose mapping exists
  privs,      \* heap: the live frame_priv_t objects, Freed otherwise
  frames,     \* the caller's variables
  staged,     \* whose plane layout ctx->fb2_* holds
  grabPlane,  \* ctx->grab_plane_id
  pc,         \* where the grab in progress stands
  call,       \* its local variables
  last,       \* the last capture: what it was, of which framebuffer, its outcome
  named,      \* history: the plane of the last frame the caller was given
  given       \* history: the frames the caller was given and has to release

env    == <<gpu, scanout, cap>>
kernel == <<bo, buf, win, maps>>
ctx    == <<staged, grabPlane>>
history == <<named, given>>
vars   == <<env, kernel, privs, frames, ctx, pc, call, last, history>>

-----------------------------------------------------------------------------
(* do_grab(do_mmap = 0), do_grab(do_mmap = 1), drmtap_grab_desc.           *)
Ops == {"zerocopy", "mapped", "desc"}

(* is_virtio_gpu.                                                          *)
Virtio == gpu.driver = "virtio_gpu"

(* Where the pixels of a frame come from: the process's own export, a      *)
(* DMA-BUF or a copy of the pixels from the helper.                        *)
Sources == {"direct", "dmabuf", "pixels"}

Freed == [gem |-> NoHandle, fd |-> NoFd, sync |-> FALSE, live |-> FALSE]

PrivType == [gem : Handles \cup {NoHandle}, fd : Fds \cup {NoFd}, sync : BOOLEAN,
             live : BOOLEAN]

(* frame->_priv, frame->dma_buf_fd, frame->fb_id, and whether frame->data  *)
(* is NULL, the frame's own mapping or memory of the context.              *)
Zeroed == [priv |-> NoPriv, fd |-> NoFd, fb |-> NoFb, data |-> "null"]

FrameType == [priv : Privs \cup {NoPriv}, fd : Fds \cup {NoFd}, fb : Fbs \cup {NoFb},
              data : {"null", "own", "context"}]

Idle == [op |-> "none", frame |-> CHOOSE f \in Frames : TRUE, plane |-> NoPlane,
         before |-> NoPlane, fb |-> NoFb, gem |-> NoHandle, fd |-> NoFd,
         source |-> "direct", black |-> FALSE]

CallType == [op : Ops \cup {"none"}, frame : Frames, plane : Planes \cup {NoPlane},
             before : Planes \cup {NoPlane}, fb : Fbs \cup {NoFb},
             gem : Handles \cup {NoHandle}, fd : Fds \cup {NoFd}, source : Sources,
             black : BOOLEAN]

Nothing == [op |-> "none", ret |-> "none", fb |-> NoFb, planes |-> NoFb,
            source |-> "direct", at |-> "nowhere", layout |-> "none",
            format |-> "none", black |-> FALSE]

Frame == frames[call.frame]

Priv == privs[Frame.priv]

Goto(label, locals) == pc' = label /\ call' = locals

Finish(outcome) == /\ pc' = "idle"
                   /\ call' = Idle
                   /\ last' = outcome

(* The caller is given the frame, and the plane it came from is named.     *)
Hand(outcome) == /\ Finish(outcome)
                 /\ named' = call.plane
                 /\ given' = given \cup {call.frame}

Fail(errno) == /\ Finish([Nothing EXCEPT !.op = call.op, !.ret = errno])
               /\ UNCHANGED history

-----------------------------------------------------------------------------
(* Entry, and the framebuffer the plane shows now.                         *)

Begin(op, f) ==
  /\ pc = "idle"
  /\ f \notin given
  /\ Goto("plane", [Idle EXCEPT !.op = op, !.frame = f, !.before = grabPlane])
  /\ last' = Nothing
  /\ UNCHANGED <<env, kernel, privs, frames, ctx, history>>

NoDisplay ==
  /\ pc = "plane"
  /\ Fail("ENODEV")
  /\ UNCHANGED <<env, kernel, privs, frames, ctx>>

ReadPlane ==
  /\ pc = "plane"
  /\ scanout # NoFb
  /\ \E p \in Planes : Goto("getfb2", [call EXCEPT !.fb = scanout, !.plane = p])
  /\ UNCHANGED <<env, kernel, privs, frames, ctx, last, history>>

-----------------------------------------------------------------------------
(* GetFB2 and the export, as a process that may do both.                   *)

(* The label "cleanup": what priv or the locals own is released, the frame *)
(* is left owning nothing.                                                 *)
Cleanup(errno) ==
  /\ bo' = [h \in Handles |-> IF h = call.gem THEN NoFb ELSE bo[h]]
  /\ buf' = [d \in Fds |-> IF d = call.fd THEN NoFb ELSE buf[d]]
  /\ frames' = [frames EXCEPT ![call.frame] = Zeroed]
  /\ Fail(errno)
  /\ UNCHANGED <<env, win, maps, privs, grabPlane>>

(* validate_fb_size: no rows, no stride, or more bytes than any frame.     *)
GeometryRefused == Cleanup("EINVAL") /\ UNCHANGED staged

(* One handle per plane, fresh on every call; auxiliary planes with a      *)
(* buffer of their own give theirs back at once.                           *)
Fresh == {h \in Handles : bo[h] = NoFb}

GetFb2Failed ==
  /\ pc = "getfb2"
  /\ Fail("EIO")
  /\ UNCHANGED <<env, kernel, privs, frames, ctx>>

GetFb2Rejected ==
  /\ pc = "getfb2"
  /\ cap => Fresh # {}
  /\ GeometryRefused

GetFb2(h) ==
  /\ pc = "getfb2"
  /\ cap
  /\ bo' = [bo EXCEPT ![h] = call.fb]
  /\ staged' = call.fb
  /\ Goto("export", [call EXCEPT !.gem = h])
  /\ UNCHANGED <<env, buf, win, maps, privs, frames, grabPlane, last, history>>

(* Handles come back zero.                                                 *)
GetFb2Unprivileged ==
  /\ pc = "getfb2"
  /\ ~cap
  /\ staged' = call.fb
  /\ Goto("helper", call)
  /\ UNCHANGED <<env, kernel, privs, frames, grabPlane, last, history>>

Export(d) ==
  /\ pc = "export"
  /\ buf' = [buf EXCEPT ![d] = bo[call.gem]]
  /\ Goto("adopt", [call EXCEPT !.fd = d, !.source = "direct"])
  /\ UNCHANGED <<env, bo, win, maps, privs, frames, ctx, last, history>>

(* Mutant: the handle is left for nobody to close.                         *)
ExportDeniedKeeping ==
  /\ pc = "export"
  /\ Goto("helper", [call EXCEPT !.gem = NoHandle])
  /\ UNCHANGED <<env, kernel, privs, frames, ctx, last, history>>

(* EACCES or EPERM: the helper mints its own handle, this one goes back.   *)
ExportDenied ==
  /\ pc = "export"
  /\ bo' = [bo EXCEPT ![call.gem] = NoFb]
  /\ Goto("helper", [call EXCEPT !.gem = NoHandle])
  /\ UNCHANGED <<env, buf, win, maps, privs, frames, ctx, last, history>>

ExportFailed ==
  /\ pc = "export"
  /\ Cleanup("EIO")
  /\ UNCHANGED staged

-----------------------------------------------------------------------------
(* The helper: it captures what the plane shows when the command reaches   *)
(* it, exports a non-linear or virtio scanout and copies the others, or    *)
(* those it cannot export and are not host-rendered.                       *)

NoReceiveBuffer ==
  /\ pc = "helper"
  /\ Fail("ENOMEM")
  /\ UNCHANGED <<env, kernel, privs, frames, ctx>>

HelperFailed ==
  /\ pc = "helper"
  /\ gpu.helper
  /\ Cleanup("EACCES")
  /\ UNCHANGED staged

(* Built with -Dhelper=disabled: drmtap_helper_grab of the stub.           *)
NoHelper ==
  /\ pc = "helper"
  /\ ~gpu.helper
  /\ Cleanup("EACCES")
  /\ UNCHANGED staged

(* Mutant: the frame is labelled with the framebuffer the library read.    *)
HelperDmabufMislabelled(d) ==
  /\ pc = "helper"
  /\ gpu.helper
  /\ scanout # NoFb
  /\ Scan[scanout].mod # "linear" \/ Virtio
  /\ buf' = [buf EXCEPT ![d] = scanout]
  /\ Goto("adopt", [call EXCEPT !.fd = d, !.source = "dmabuf", !.black = gpu.virgl])
  /\ UNCHANGED <<env, bo, win, maps, privs, frames, ctx, last, history>>

HelperDmabuf(d) ==
  /\ pc = "helper"
  /\ gpu.helper
  /\ scanout # NoFb
  /\ Scan[scanout].mod # "linear" \/ Virtio
  /\ buf' = [buf EXCEPT ![d] = scanout]
  /\ Goto("adopt", [call EXCEPT !.fb = scanout, !.fd = d, !.source = "dmabuf",
                                !.black = gpu.virgl])
  /\ UNCHANGED <<env, bo, win, maps, privs, frames, ctx, last, history>>

HelperPixels ==
  /\ pc = "helper"
  /\ gpu.helper
  /\ scanout # NoFb
  /\ ~gpu.virgl
  /\ Goto("adopt", [call EXCEPT !.fb = scanout, !.source = "pixels"])
  /\ UNCHANGED <<env, kernel, privs, frames, ctx, last, history>>

-----------------------------------------------------------------------------
(* The frame adopts what was acquired.                                     *)

(* The returns before that, from a failed calloc, a geometry that does not *)
(* hold up or a payload that is not one frame: the helper's descriptor is  *)
(* closed, and the frame at most overwritten.                              *)
AdoptFailed ==
  /\ pc = "adopt"
  /\ GeometryRefused

(* Only the mapped path maps a buffer of its own export; one that comes    *)
(* from the helper is always mapped.                                       *)
AfterAdoption == IF call.source = "dmabuf" \/ (call.op = "mapped" /\ call.source = "direct")
                 THEN "map"
                 ELSE IF call.op = "mapped" THEN "process" ELSE "give"

Adopt(p) ==
  /\ pc = "adopt"
  /\ ~privs[p].live
  /\ privs' = [privs EXCEPT ![p] = [gem |-> call.gem, fd |-> call.fd, sync |-> FALSE,
                                    live |-> TRUE]]
  /\ frames' = [frames EXCEPT ![call.frame] =
                  [priv |-> p, fd |-> call.fd, fb |-> call.fb,
                   data |-> IF call.source = "pixels" THEN "context" ELSE "null"]]
  /\ Goto(AfterAdoption, [call EXCEPT !.gem = NoHandle, !.fd = NoFd])
  /\ UNCHANGED <<env, kernel, ctx, last, history>>

(* A host-rendered scanout maps black (through virtio_dumb_mmap too),      *)
(* unless it has been transferred.                                         *)
Shows == {call.black, gpu.virgl}

(* mmap of the descriptor, or on virtio the dumb mapping after a transfer  *)
(* from the host; then the one START, remembered when it succeeds.         *)
AfterMap == IF call.op = "mapped" THEN "process" ELSE "give"

Map(started) ==
  /\ pc = "map"
  /\ maps' = maps \cup {Frame.priv}
  /\ win' = IF started THEN [win EXCEPT ![Priv.fd] = @ + 1] ELSE win
  /\ privs' = [privs EXCEPT ![Frame.priv].sync = started]
  /\ frames' = [frames EXCEPT ![call.frame].data = "own"]
  /\ \E black \in Shows : Goto(AfterMap, [call EXCEPT !.black = black])
  /\ UNCHANGED <<env, bo, buf, ctx, last, history>>

MapFailed ==
  /\ pc = "map"
  /\ Goto(AfterMap, call)
  /\ UNCHANGED <<env, kernel, privs, frames, ctx, last, history>>

-----------------------------------------------------------------------------
(* What frame f owns goes: with an END when ended holds, the mapping, the  *)
(* descriptor, the handle and the object; left is what the caller keeps.   *)
Dropped(f, ended, left) ==
  LET p == frames[f].priv
      owned == privs[p]
  IN /\ win' = [d \in Fds |-> IF ended /\ d = owned.fd THEN win[d] - 1 ELSE win[d]]
     /\ maps' = maps \ {p}
     /\ buf' = [d \in Fds |-> IF d = owned.fd THEN NoFb ELSE buf[d]]
     /\ bo' = [h \in Handles |-> IF h = owned.gem THEN NoFb ELSE bo[h]]
     /\ privs' = [privs EXCEPT ![p] = Freed]
     /\ frames' = [frames EXCEPT ![f] = left]

(* Mutants: the END is issued whether or not the START succeeded; it is    *)
(* forgotten; the frame is not zeroed.                                     *)
DropFrameEnding(f) == Dropped(f, frames[f].priv \in maps, Zeroed)
DropFrameOpen(f) == Dropped(f, FALSE, Zeroed)
DropFrameDangling(f) == Dropped(f, privs[frames[f].priv].sync, frames[f])

(* drmtap_frame_release.                                                   *)
DropFrame(f) == Dropped(f, privs[frames[f].priv].sync, Zeroed)

Release(f) ==
  /\ pc = "idle"
  /\ f \in given
  /\ DropFrame(f)
  /\ given' = given \ {f}
  /\ UNCHANGED <<env, ctx, pc, call, last, named>>

-----------------------------------------------------------------------------
(* Conversion, and what the caller is told.                                *)

Query(egl, room) ==
  [scan |-> Scan[call.fb], data |-> Frame.data # "null", fd |-> Frame.fd # NoFd,
   force |-> call.source = "dmabuf" /\ gpu.virgl, vendor |-> Deswizzles(gpu.driver),
   egl |-> egl, room |-> room]

Processed == {AutoProcess(Query(egl, room)) :
                egl \in IF gpu.egl THEN {"fails", "nospace", "works"} ELSE {"none"},
                room \in BOOLEAN}

(* The direct path takes a success without pixels for the failure of mmap. *)
Failed(o) == \/ o.ret # "ok"
             \/ call.source = "direct" /\ o.at = "nowhere"

Process(o) ==
  /\ pc = "process"
  /\ ~Failed(o)
  /\ frames' = IF o.at \in {"buffer", "readback"}
               THEN [frames EXCEPT ![call.frame].data = "context"] ELSE frames
  /\ grabPlane' = call.plane
  /\ Hand([op |-> "mapped", ret |-> "ok", fb |-> call.fb, planes |-> staged,
         source |-> call.source, at |-> o.at, layout |-> o.layout,
           format |-> o.format, black |-> call.black /\ o.at # "readback"])
  /\ UNCHANGED <<env, kernel, privs, staged>>

(* Mutant: the error is handed on, what the frame acquired is not.         *)
ProcessFailedKeeping(o) ==
  /\ pc = "process"
  /\ Failed(o)
  /\ frames' = [frames EXCEPT ![call.frame] = Zeroed]
  /\ Fail("EIO")
  /\ UNCHANGED <<env, kernel, privs, ctx>>

(* The caller does not release a frame it was refused.                     *)
ProcessFailed(o) ==
  /\ pc = "process"
  /\ Failed(o)
  /\ DropFrame(call.frame)
  /\ Fail(IF o.ret = "ok" THEN "EIO" ELSE o.ret)
  /\ UNCHANGED <<env, ctx>>

(* A frame given without conversion.                                       *)
Raw == [Nothing EXCEPT !.op = call.op, !.ret = "ok", !.fb = call.fb,
                       !.planes = staged, !.source = call.source]

Give ==
  /\ pc = "give"
  /\ grabPlane' = call.plane
  /\ IF call.op = "desc"
     THEN Goto("desc", call) /\ UNCHANGED <<last, history>>
     ELSE Hand(Raw)
  /\ UNCHANGED <<env, kernel, privs, frames, staged>>

(* drmtap_grab_desc needs a descriptor it can describe.                    *)
Describe ==
  /\ pc = "desc"
  /\ Frame.fd # NoFd
  /\ Hand(Raw)
  /\ UNCHANGED <<env, kernel, privs, frames, ctx>>

(* Mutant: the plane of the refused frame stays named.                     *)
DescribeRefusedNaming ==
  /\ pc = "desc"
  /\ Frame.fd = NoFd
  /\ DropFrame(call.frame)
  /\ Fail("ENOTSUP")
  /\ UNCHANGED <<env, ctx>>

DescribeRefused ==
  /\ pc = "desc"
  /\ Frame.fd = NoFd
  /\ DropFrame(call.frame)
  /\ grabPlane' = call.before
  /\ Fail("ENOTSUP")
  /\ UNCHANGED <<env, staged>>

-----------------------------------------------------------------------------
(* The environment.                                                        *)
Flip == /\ scanout' \in Fbs \cup {NoFb}
        /\ UNCHANGED <<gpu, cap, kernel, privs, frames, ctx, pc, call, last, history>>

DropPrivilege == /\ cap
                 /\ cap' = FALSE
                 /\ UNCHANGED <<gpu, scanout, kernel, privs, frames, ctx, pc, call, last,
                                history>>

(* detect_driver: the machine is known once and for all.                   *)
DetectDriver == gpu \in Gpus

Init ==
  /\ DetectDriver
  /\ scanout \in Fbs \cup {NoFb}
  /\ cap \in BOOLEAN
  /\ bo = [h \in Handles |-> NoFb]
  /\ buf = [d \in Fds |-> NoFb]
  /\ win = [d \in Fds |-> 0]
  /\ maps = {}
  /\ privs = [p \in Privs |-> Freed]
  /\ frames = [f \in Frames |-> Zeroed]
  /\ staged = NoFb
  /\ grabPlane = NoPlane
  /\ pc = "idle"
  /\ call = Idle
  /\ last = Nothing
  /\ named = NoPlane
  /\ given = {}

Acquire == \/ NoDisplay \/ ReadPlane
           \/ GetFb2Failed \/ GetFb2Rejected \/ GetFb2Unprivileged
           \/ \E h \in Fresh : GetFb2(h)
           \/ \E d \in {d \in Fds : buf[d] = NoFb} : Export(d) \/ HelperDmabuf(d)
           \/ ExportDenied \/ ExportFailed
           \/ NoReceiveBuffer \/ HelperFailed \/ NoHelper \/ HelperPixels

Deliver == \/ AdoptFailed \/ \E p \in Privs : Adopt(p)
           \/ \E started \in BOOLEAN : Map(started)
           \/ MapFailed
           \/ pc = "process" /\ \E o \in Processed : Process(o) \/ ProcessFailed(o)
           \/ Give \/ Describe \/ DescribeRefused

Next == \/ \E op \in Ops, f \in Frames : Begin(op, f)
        \/ Acquire \/ Deliver
        \/ \E f \in Frames : Release(f)
        \/ Flip \/ DropPrivilege

Spec == Init /\ [][Next]_vars

-----------------------------------------------------------------------------
(* Every variable has its type; no descriptor sees more DMA_BUF_SYNC ENDs  *)
(* than STARTs.                                                            *)
TypeOK ==
  /\ gpu \in Gpus /\ scanout \in Fbs \cup {NoFb} /\ cap \in BOOLEAN
  /\ bo \in [Handles -> Fbs \cup {NoFb}]
  /\ buf \in [Fds -> Fbs \cup {NoFb}]
  /\ win \in [Fds -> Nat]
  /\ maps \subseteq Privs
  /\ privs \in [Privs -> PrivType]
  /\ frames \in [Frames -> FrameType]
  /\ staged \in Fbs \cup {NoFb}
  /\ grabPlane \in Planes \cup {NoPlane}
  /\ pc \in {"idle", "plane", "getfb2", "export", "helper", "adopt", "map", "process",
             "give", "desc"}
  /\ call \in CallType
  /\ named \in Planes \cup {NoPlane}
  /\ given \subseteq Frames

(* The objects someone will release: those of the frames the caller was    *)
(* given, and that of the frame a grab in progress is filling.             *)
Accountable == {frames[f].priv : f \in given \cup (IF pc = "idle" THEN {} ELSE {call.frame})}
               \ {NoPriv}

(* do_grab and drmtap_frame_release leak nothing on any of their return    *)
(* paths: every live object, handle, descriptor and mapping has an owner   *)
(* that will release it, and nobody owns one that is gone.                 *)
NothingLeaks ==
  /\ {p \in Privs : privs[p].live} = Accountable
  /\ {h \in Handles : bo[h] # NoFb} =
       ({privs[p].gem : p \in Accountable} \cup {call.gem}) \ {NoHandle}
  /\ {d \in Fds : buf[d] # NoFb} =
       ({privs[p].fd : p \in Accountable} \cup {call.fd}) \ {NoFd}
  /\ maps \subseteq Accountable

(* Each successful DMA_BUF_IOCTL_SYNC START is matched by exactly one END, *)
(* issued by the release of the frame whose mapping it opened.             *)
WindowsBalanced ==
  \A d \in Fds : win[d] = IF \E p \in Privs : privs[p].live /\ privs[p].sync /\ privs[p].fd = d
                         THEN 1 ELSE 0

(* A frame the caller holds, whatever was grabbed or released meanwhile,   *)
(* can be released once: its record is live and shared with no other frame.*)
FramesReleasable ==
  \A f \in Frames : frames[f].priv # NoPriv =>
    /\ privs[frames[f].priv].live
    /\ \A g \in Frames \ {f} : frames[g].priv # frames[f].priv

(* A frame's descriptor is a DMA-BUF of the framebuffer its fb_id names,   *)
(* though the helper captures later than the library looked.               *)
FrameFdIsItsBuffer ==
  \A f \in Frames : frames[f].fd # NoFd => buf[frames[f].fd] = frames[f].fb

(* drmtap_plane_rotation() answers for the plane of the last frame a       *)
(* caller was given: a refused grab does not move it.                      *)
NamesCapturedPlane == pc = "idle" => grabPlane = named

(* What drmtap_grab_mapped hands out as pixels is decoded: linear, 8 bits  *)
(* a channel, and from the helper never the black mapping of a             *)
(* host-rendered scanout.  Apart: a framebuffer without a modifier, whose  *)
(* layout the code guesses; the tiled 16-bit formats, which come out with  *)
(* their rows cut; and a frame from the helper whose mapping failed, which *)
(* has no pixels (drmtap.h promises both otherwise).  No scanout here is   *)
(* Yf tiled (AutoProcess).                                                 *)
PixelsDecoded ==
  last.op = "mapped" /\ last.ret = "ok" /\ last.at # "nowhere" =>
    /\ Scan[last.fb].mod # "invalid" =>
         \/ last.layout = "linear" /\ last.format = "rgb8"
         \/ Scan[last.fb].mod = "tiled" /\ Scan[last.fb].format = "rgb16"
    /\ last.source = "dmabuf" => ~last.black

=============================================================================
