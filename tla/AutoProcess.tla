---------------------------- MODULE AutoProcess ----------------------------
(***************************************************************************)
(* gpu_auto_process (src/src/drm_grab.c) as a function: given what is      *)
(* known of a scanout and what access there is to its bytes, which pixels  *)
(* are handed out, or which error.  Pixels are told apart by where they    *)
(* are (the mapping, an output buffer), how their bytes lie and how deep   *)
(* they are; the arithmetic of the conversions is not modelled.            *)
(***************************************************************************)

(* "tiled" stands for the layouts drmtap_deswizzle decodes, "ccs" for all  *)
(* those it answers -ENOTSUP for, "invalid" for a framebuffer that carries *)
(* no modifier: its layout is then whatever the driver chose.  Left out is *)
(* Intel's Yf, which the code decodes in the order of Y (PixelConvert).    *)
Formats == {"rgb8", "rgb10", "rgb16"}

Layouts == {"linear", "tiled", "ccs"}

Scanouts == {s \in [mod : Layouts \cup {"invalid"}, format : Formats, layout : Layouts] :
               s.mod # "invalid" => s.layout = s.mod}

(* The names drmGetVersion gives the drivers behind which a tiled scanout  *)
(* is deswizzled by the CPU; any other name stands for the rest.           *)
Intel == {"i915", "xe"}

Amd == {"amdgpu", "radeon"}

Nvidia == {"nvidia-drm", "nvidia", "nouveau"}

Drivers == Intel \cup Amd \cup Nvidia \cup {"virtio_gpu", "other"}

Deswizzles(driver) == driver \in Intel \cup Amd \cup Nvidia

(* data: there is a CPU mapping; fd: there is a DMA-BUF descriptor; force: *)
(* force_egl; vendor: the driver is one with a CPU deswizzle; egl: what    *)
(* the EGL detile does; room: ensure_out finds a buffer.                   *)
Queries == [scan : Scanouts, data : BOOLEAN, fd : BOOLEAN, force : BOOLEAN,
            vendor : BOOLEAN, egl : {"none", "fails", "nospace", "works"}, room : BOOLEAN]

(* frame->data: NULL, the mapping, an output buffer filled by the CPU or   *)
(* one the GPU was read back into.                                         *)
Places == {"nowhere", "mapping", "buffer", "readback"}

(* "mangled" is the layout of rows copied at the wrong pixel size.         *)
Outcomes == [ret : {"ok", "ENOTSUP", "ENOSPC"}, at : Places,
             layout : Layouts \cup {"mangled", "none"}, format : Formats \cup {"none"}]

-----------------------------------------------------------------------------
Refused(errno) == [ret |-> errno, at |-> "nowhere", layout |-> "none", format |-> "none"]

InBuffer(layout, format) ==
  [ret |-> "ok", at |-> "buffer", layout |-> layout, format |-> format]

(* Success without conversion: the frame keeps what the caller put there,  *)
(* the mapping or nothing.                                                 *)
AsIs(q) == IF q.data
           THEN [ret |-> "ok", at |-> "mapping", layout |-> q.scan.layout,
                 format |-> q.scan.format]
           ELSE [ret |-> "ok", at |-> "nowhere", layout |-> "none", format |-> "none"]

(* Mutant: a deep format is left to the caller.                            *)
ReduceSkipped(q) == AsIs(q)

(* reduce_linear_to_xrgb8888, and the early return of an 8-bit scanout.    *)
Reduce(q) == IF ~q.data \/ q.scan.format = "rgb8" THEN AsIs(q)
             ELSE IF q.room THEN InBuffer(q.scan.layout, "rgb8")
             ELSE Refused("ENOSPC")

(* No modifier is taken for linear when nothing can decode it otherwise.   *)
IsLinear(q) == \/ q.scan.mod = "linear"
               \/ q.scan.mod = "invalid" /\ q.egl = "none"

(* Mutant: a layout the deswizzle does not know is copied as it lies.      *)
DeswizzleAny(q) ==
  IF ~q.room THEN Refused("ENOSPC")
  ELSE IF ~q.vendor THEN Refused("ENOTSUP")
  ELSE InBuffer(IF q.scan.mod = "tiled" THEN "linear" ELSE q.scan.layout, "rgb8")

(* drmtap_deswizzle moves 4-byte pixels whatever the format, and only the  *)
(* 10-bit formats are reduced behind it.                                   *)
Deswizzle(q) ==
  IF ~q.room THEN Refused("ENOSPC")
  ELSE IF ~(q.vendor /\ q.scan.mod = "tiled") THEN Refused("ENOTSUP")
  ELSE IF q.scan.format = "rgb16" THEN InBuffer("mangled", "rgb16")
  ELSE InBuffer("linear", "rgb8")

(* The EGL detile imports the descriptor, lets the driver decode any       *)
(* layout and reads back 8-bit pixels.  A caller's buffer that is too      *)
(* small ends the conversion; any other failure leaves the CPU to try.     *)
EglApplies(q) == q.fd /\ q.egl \in {"works", "nospace"}

EglDetile(q) == IF q.egl = "works" THEN [InBuffer("linear", "rgb8") EXCEPT !.at = "readback"]
                ELSE Refused("ENOSPC")

OnCpu(q) == IF q.force \/ ~q.data THEN Refused("ENOTSUP")
            ELSE IF q.scan.mod = "invalid" THEN Reduce(q)
            ELSE Deswizzle(q)

AutoProcess(q) ==
  IF ~q.force /\ (IsLinear(q) \/ ~(q.data \/ q.fd)) THEN Reduce(q)
  ELSE IF EglApplies(q) THEN EglDetile(q)
  ELSE OnCpu(q)

=============================================================================
