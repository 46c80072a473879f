----------------------------- MODULE MCSlowGrab -----------------------------
(* SlowGrab on a small instance: two frames, each able to hold a buffer,   *)
(* and the scanouts and devices that take different ways through it.       *)
EXTENDS SlowGrab, TLC

CONSTANTS b1, b2, b3

Scanout(mod, format) == [mod |-> mod, format |-> format, layout |-> mod]

(* What must be reduced, decoded on the CPU or the GPU, decoded on the GPU.*)
MCScan == b1 :> Scanout("linear", "rgb10") @@ b2 :> Scanout("tiled", "rgb10")
       @@ b3 :> Scanout("ccs", "rgb8")

MCScanDeep == b1 :> Scanout("linear", "rgb16") @@ b2 :> Scanout("tiled", "rgb16")
           @@ b3 :> Scanout("ccs", "rgb16")

Machine(driver, virgl, egl) ==
  [driver |-> driver, virgl |-> virgl, egl |-> egl, helper |-> TRUE]

(* A vendor driver with EGL, one without it in a build without a helper,   *)
(* virgl, virtio without 3D.                                               *)
MCGpus == {Machine("i915", FALSE, TRUE),
           [Machine("amdgpu", FALSE, FALSE) EXCEPT !.helper = FALSE],
           Machine("virtio_gpu", TRUE, TRUE), Machine("virtio_gpu", FALSE, FALSE)}

MCSymmetry == Permutations(Handles) \cup Permutations(Fds) \cup Permutations(Privs)
=============================================================================
