----------------------------- MODULE EglDetile -----------------------------
(***************************************************************************)
(* drmtap_convert_dmabuf and the EGL detile behind it (src/src/drm_grab.c, *)
(* src/src/gpu_egl.c): a capture thread turns framebuffers that a          *)
(* compositor redraws and recycles at any moment into pixels in a          *)
(* context's output buffer.  It keeps imported EGLImages in a few slots    *)
(* and, with DRMTAP_SKIP_UNCHANGED, leaves out the readback of an image    *)
(* that hashes like the last one it read back.                             *)
(*                                                                         *)
(* The GL state is thread-local and a detile holds g_convert_lock to its   *)
(* end, so a call is one step and the other threads are not seen.  Whether *)
(* a device has an EGL display is asked on every call, as it is when the   *)
(* table of displays is full.  What a draw finds in a buffer is any        *)
(* picture.  A hash stands for the image it was computed from: collisions  *)
(* are left out.                                                           *)
(***************************************************************************)
EXTENDS AutoProcess, Integers, FiniteSets, FiniteSetsExt

CONSTANTS
  Ctxs,         \* addresses of the thread's capture contexts, reused after a close
  Fbs,          \* KMS framebuffer ids
  Bufs,         \* buffers; the identity is the DMA-BUF inode
  Pics,         \* what a compositor draws, as the shader renders it
  Devices,      \* DRM devices
  None,         \* no context, buffer, device or framebuffer (fb_id 0)
  Desc,         \* what the exporter says of each buffer, and what it is
  ImageSlots,   \* DRMTAP_EGL_IMAGE_SLOTS
  UserSizes,    \* lengths of caller buffers; 0 = none set
  MaxWrites     \* bound on the sum of ctx->out_gen up to which calls start

(* Geometry, by the pixels it needs.  From 2 on it is at least 1080p.      *)
Sizes == 1 .. 2

Hashed(size) == size >= 2

(* How a buffer is laid out, and how an image samples it.  order: whether  *)
(* the fourcc puts red or blue first (XRGB8888 or XBGR8888).               *)
Descs == [size : Sizes, format : Formats, order : {"rgb", "bgr"}, planes : 1 .. 2,
          mod : Layouts]

ASSUME EglAssumption ==
  /\ None \notin Ctxs \cup Fbs \cup Bufs \cup Devices \cup Pics
  /\ Desc \in [Bufs -> Descs]
  /\ ImageSlots \in Nat \ {0}
  /\ UserSizes \subseteq Nat /\ 0 \in UserSizes
  /\ MaxWrites \in Nat

VARIABLES
  cx,       \* the contexts
  gl,       \* the thread-local egl_state_t
  images,   \* EGLImages created and not destroyed
  last      \* the last conversion: what it was asked for, drew and returned

vars == <<cx, gl, images, last>>

(* What a readback leaves in an output buffer.                             *)
Images == [pic : Pics, size : Sizes]

Garbage == [pic |-> None, size |-> 1]

(* A cached image: the context and framebuffer it was imported for, the    *)
(* geometry and the inode it was imported with, and what it really is: a   *)
(* buffer, sampled in some way through the display of a device.            *)
Empty == [owner |-> None, fb |-> None, desc |-> None, inode |-> None, buf |-> None,
          as |-> None, dev |-> None]

NoHash == [on |-> FALSE, valid |-> FALSE, owner |-> None, shape |-> None, gen |-> 0,
           prev |-> Garbage]

NoGl == [device |-> None, slots |-> [i \in 1 .. ImageSlots |-> Empty], next |-> 0, hash |-> NoHash]

Closed == [open |-> FALSE, device |-> None, user |-> 0, cap |-> 0, gen |-> 0, out |-> Garbage]

Nothing == [ret |-> "none", ctx |-> None, buf |-> None, from |-> Empty, drawn |-> Garbage,
            dst |-> Garbage]

Writes == MapThenSumSet(LAMBDA c : cx[c].gen, Ctxs)

Init ==
  /\ cx = [c \in Ctxs |-> Closed]
  /\ gl = NoGl
  /\ images = 0
  /\ last = Nothing

-----------------------------------------------------------------------------
(* Contexts.                                                               *)

(* drmtap_open or drmtap_open_render.                                      *)
Open(c, dev) ==
  /\ ~cx[c].open
  /\ cx' = [cx EXCEPT ![c] = [Closed EXCEPT !.open = TRUE, !.device = dev]]
  /\ last' = Nothing
  /\ UNCHANGED <<gl, images>>

(* drmtap_set_output_buffer, with a buffer of this length or NULL.         *)
SetOutputBuffer(c, len) ==
  /\ cx[c].open /\ len # cx[c].user
  /\ cx' = [cx EXCEPT ![c].user = len]
  /\ last' = Nothing
  /\ UNCHANGED <<gl, images>>

InUse == {i \in 1 .. ImageSlots : gl.slots[i] # Empty}

(* Mutant: closing leaves the thread's GL state to the thread.             *)
CloseKeepsGl(c) ==
  /\ cx[c].open
  /\ cx' = [cx EXCEPT ![c] = Closed]
  /\ last' = Nothing
  /\ UNCHANGED <<gl, images>>

(* drmtap_close, on the thread that captures (include/drmtap.h:508): every *)
(* image and the hash of the thread go with its GL context.                *)
Close(c) ==
  /\ cx[c].open
  /\ gl' = NoGl
  /\ images' = images - Cardinality(InUse)
  /\ cx' = [cx EXCEPT ![c] = Closed]
  /\ last' = Nothing

-----------------------------------------------------------------------------
(* The output buffer.                                                      *)

(* drmtap_ensure_out: counts the write to come, and resolves the caller's  *)
(* buffer or the context's own, which grows and then holds nothing of use. *)
EnsureOut(x, size) ==
  LET counted == [x EXCEPT !.gen = @ + 1]
  IN IF x.user # 0
     THEN {[ret |-> IF size > x.user THEN "ENOSPC" ELSE "ok", x |-> counted]}
     ELSE IF size <= x.cap THEN {[ret |-> "ok", x |-> counted]}
     ELSE {[ret |-> "ok", x |-> [counted EXCEPT !.cap = size, !.out = Garbage]],
           [ret |-> "ENOMEM", x |-> [counted EXCEPT !.cap = 0, !.out = Garbage]]}

(* The pixels land in the buffer that was resolved.                        *)
Written(x, image) == IF x.user # 0 THEN x ELSE [x EXCEPT !.out = image]

(* What the library knows of the buffer it would return unwritten.         *)
Held(x) == IF x.user # 0 THEN Garbage ELSE x.out

Reducible(d) == d.mod = "linear" /\ d.format # "rgb8"

(* Mutant: the grab reuses the buffer without counting.                    *)
GrabReducesUncounted(c, b) ==
  /\ cx[c].open /\ Writes < MaxWrites /\ Reducible(Desc[b])
  /\ \E r \in EnsureOut(cx[c], Desc[b].size), p \in Pics :
       cx' = [cx EXCEPT ![c] = [IF r.ret = "ok" THEN Written(r.x, [pic |-> p, size |-> Desc[b].size])
                                ELSE r.x EXCEPT !.gen = @ - 1]]
  /\ last' = Nothing
  /\ UNCHANGED <<gl, images>>

(* A grab on the same context whose linear 10-bit or 16-bit scanout is     *)
(* reduced on the CPU: it writes the output buffer and never comes near    *)
(* the EGL state.                                                          *)
GrabReduces(c, b) ==
  /\ cx[c].open /\ Writes < MaxWrites /\ Reducible(Desc[b])
  /\ \E r \in EnsureOut(cx[c], Desc[b].size), p \in Pics :
       cx' = [cx EXCEPT ![c] = IF r.ret = "ok" THEN Written(r.x, [pic |-> p, size |-> Desc[b].size])
                               ELSE r.x]
  /\ last' = Nothing
  /\ UNCHANGED <<gl, images>>

-----------------------------------------------------------------------------
(* The EGL detile, in its three parts.                                     *)

(* Mutant: the GL state of another device is kept.                         *)
MovedNever(dev) == FALSE

(* The thread's GL state serves another device than this context's.        *)
Moved(dev) == gl.device \notin {None, dev}

(* hash_setup: the skip of unchanged frames is asked for, and its shader   *)
(* compiles on the ES 3 context.                                           *)
HashSetup == BOOLEAN

(* egl_init: a GL context on the display of the device.                    *)
Initialized(g, dev) == {[g EXCEPT !.device = dev, !.hash.on = on] : on \in HashSetup}

(* egl_convert_impl begins: the hash taken out of use, the GL state of     *)
(* another device torn down, and a GL context where there is none.  That   *)
(* may fail, and so may making it current.  fallen: images destroyed.      *)
Enter(dev) ==
  LET kept == IF Moved(dev) THEN NoGl ELSE [gl EXCEPT !.hash.valid = FALSE]
      fallen == IF Moved(dev) THEN Cardinality(InUse) ELSE 0
      ready == IF kept.device # None THEN {kept} ELSE Initialized(kept, dev)
  IN {[ok |-> FALSE, gl |-> kept, fallen |-> fallen]}
     \cup {[ok |-> TRUE, gl |-> g, fallen |-> fallen] : g \in ready}

(* Mutant: geometry alone decides whether a slot is still good.            *)
StillGoodByGeometry(slot, d, inode) == slot.desc = d

(* geom_match and ident_match: identity holds unless both inodes are known *)
(* and differ.                                                             *)
StillGood(slot, d, inode) ==
  /\ slot.desc = d
  /\ inode = None \/ slot.inode = None \/ slot.inode = inode

(* The slot for a new image: the first free one, or the next in turn.      *)
Victim(slots, next) ==
  LET free == {i \in DOMAIN slots : slots[i] = Empty}
  IN IF free = {} THEN [slot |-> next + 1, next |-> (next + 1) % ImageSlots]
     ELSE [slot |-> Min(free), next |-> next]

(* Mutant: any refused buffer is tried again as plain 8-bit.               *)
RetrySafeAlways(d) == TRUE

(* A retry may not change what is sampled.                                 *)
RetrySafe(d) == d.planes = 1 /\ d.format = "rgb8" /\ d.order = "rgb"

(* The retries of a refused import: as one plane of XRGB8888, and, of a    *)
(* linear buffer, without a modifier, which is sampled as linear.          *)
Retried(d) ==
  LET xrgb == [d EXCEPT !.format = "rgb8", !.order = "rgb", !.planes = 1]
  IN IF ~RetrySafe(d) THEN {}
     ELSE {xrgb} \cup IF d.mod = "linear" THEN {[xrgb EXCEPT !.mod = "linear"]} ELSE {}

(* egl_import_dmabuf: the ways a buffer may end up being sampled, with all *)
(* its planes or in a retry.  No descriptor, no import.                    *)
Imports(d, fd) == IF fd THEN {d} \cup Retried(d) ELSE {}

(* egl_make_external_texture: may fail, and the new image is destroyed.    *)
Textured(imported, failed) == {imported, failed}

(* The lookup: a good slot of this framebuffer and context is used, a      *)
(* stale one dropped, and a miss imports the descriptor, which may fail.   *)
(* fb_id 0 has no slot.  made: images created minus destroyed.             *)
Lookup(g, c, fb, b, fd) ==
  LET d == Desc[b]
      inode == IF fd THEN b ELSE None
      mine == {i \in DOMAIN g.slots : fb # None /\ g.slots[i].fb = fb /\ g.slots[i].owner = c}
      hits == {i \in mine : StillGood(g.slots[i], d, inode)}
      slots == [i \in DOMAIN g.slots |-> IF i \in mine \ hits THEN Empty ELSE g.slots[i]]
      dropped == Cardinality(mine \ hits)
      Fresh(as) == [owner |-> c, fb |-> fb, desc |-> d, inode |-> inode, buf |-> b,
                    as |-> as, dev |-> g.device]
      v == Victim(slots, g.next)
      evicted == IF slots[v.slot] = Empty THEN 0 ELSE 1
      failed == [ok |-> FALSE, gl |-> [g EXCEPT !.slots = slots], from |-> Empty,
                 made |-> -dropped, cached |-> TRUE]
      Adopted(image) ==
        IF fb = None THEN [ok |-> TRUE, gl |-> g, from |-> image, made |-> 1, cached |-> FALSE]
        ELSE [ok |-> TRUE, from |-> image, made |-> 1 - dropped - evicted, cached |-> TRUE,
              gl |-> [g EXCEPT !.slots = [slots EXCEPT ![v.slot] = image], !.next = v.next]]
  IN IF hits # {}
     THEN {[ok |-> TRUE, gl |-> g, from |-> g.slots[Min(hits)], made |-> 0, cached |-> TRUE]}
     ELSE {failed} \cup UNION {Textured(Adopted(Fresh(as)), failed) : as \in Imports(d, fd)}

(* Mutant: a caller's buffer may go unwritten too.                         *)
HashingAnywhere(g, x, size) == g.hash.on /\ Hashed(size)

Hashing(g, x, size) == g.hash.on /\ x.user = 0 /\ Hashed(size)

(* What hash_check and hash_commit call the same frame.                    *)
Shape(d) == [d EXCEPT !.planes = 1]

(* Mutant: writes through other entry points go unnoticed.                 *)
UnchangedUnlessRedrawn(h, c, x, d, drawn) == h.owner = c /\ h.prev = drawn

(* hash_check's key: nobody wrote the output since the last readback, and  *)
(* the same context drew the same image at the same geometry.              *)
Unchanged(h, c, x, d, drawn) ==
  x.gen = h.gen /\ h.owner = c /\ h.shape = Shape(d) /\ h.prev = drawn

(* A hash that is not valid is never compared again.                       *)
Kept(h) == IF h.valid THEN h ELSE [NoHash EXCEPT !.on = h.on]

(* hash_commit: what was read back becomes the reference.                  *)
Committed(c, x, d, drawn) ==
  [on |-> TRUE, valid |-> TRUE, owner |-> c, shape |-> Shape(d), gen |-> x.gen, prev |-> drawn]

(* The quad is drawn from the live buffer: any picture the compositor has  *)
(* put there.                                                              *)
Draws(size) == {[pic |-> p, size |-> size] : p \in Pics}

(* What a detile that found its image comes to.                            *)
Result(ok, g, hash, x, drawn, dst) ==
  [ok |-> ok, gl |-> [g EXCEPT !.hash = Kept(hash)], x |-> x, drawn |-> drawn, dst |-> dst]

Failed(g, hash, x) == Result(FALSE, g, hash, x, Garbage, Garbage)

(* glReadPixels, good or not: good: the hash it leaves when it is.         *)
ReadPixels(g, x, drawn, hash, good) ==
  {Result(TRUE, g, good, Written(x, drawn), drawn, drawn),
   Failed(g, hash, Written(x, Garbage))}

(* The output buffer is resolved, and the readback follows.  A hash pass   *)
(* that fails turns the hash off for good; an image that hashes like the   *)
(* last one read back is not read; a GL error leaves the output undefined; *)
(* a readback that succeeds becomes the reference.  was: the hash was      *)
(* valid on entry; x: the context before.                                  *)
Resolved(g, was, c, x, d, r, drawn) ==
  LET h == g.hash
      off == [h EXCEPT !.on = FALSE, !.valid = FALSE]
  IN IF r.ret # "ok" THEN {Failed(g, h, r.x)}
     ELSE IF ~Hashing(g, x, d.size) THEN ReadPixels(g, r.x, drawn, h, h)
     ELSE ReadPixels(g, r.x, drawn, off, off)
          \cup IF was /\ Unchanged(h, c, x, d, drawn)
               THEN {Result(TRUE, g, [h EXCEPT !.valid = TRUE, !.gen = r.x.gen], r.x, drawn,
                            Held(r.x))}
               ELSE ReadPixels(g, r.x, drawn, h, Committed(c, r.x, d, drawn))

(* The draw samples the live buffer and the readback follows; a render     *)
(* error fails it, before the output buffer where it is to be hashed.      *)
Readback(g, was, c, x, d) ==
  (IF Hashing(g, x, d.size) THEN {Failed(g, g.hash, x)} ELSE {})
  \cup UNION {Resolved(g, was, c, x, d, r, drawn) :
                r \in EnsureOut(x, d.size), drawn \in Draws(d.size)}

(* Mutant: an image without a slot is left to the cache.                   *)
PerCallKept(l) == 0

(* The end of egl_convert_impl: an image that has no slot is destroyed.    *)
PerCall(l) == IF l.cached THEN 0 ELSE 1

(* A convert that gives up before it draws.                                *)
NotDrawn(g, x, n) ==
  [ok |-> FALSE, gl |-> [g EXCEPT !.hash = Kept(@)], x |-> x, images |-> n, from |-> Empty,
   drawn |-> Garbage, dst |-> Garbage]

(* The rest of a convert that has its GL state and has looked its image up.*)
Sampled(e, l, c, b) ==
  LET n == images - e.fallen + l.made
  IN IF ~l.ok THEN {NotDrawn(l.gl, cx[c], n)}
     ELSE {[ok |-> r.ok, gl |-> r.gl, x |-> r.x, images |-> n - PerCall(l), from |-> l.from,
            drawn |-> r.drawn, dst |-> r.dst] :
             r \in Readback(l.gl, gl.hash.valid, c, cx[c], Desc[b])}

(* drmtap_gpu_egl_convert: all it can do.                                  *)
Detile(c, fb, b, fd) ==
  LET ready == {e \in Enter(cx[c].device) : e.ok}
  IN {NotDrawn(e.gl, cx[c], images - e.fallen) : e \in Enter(cx[c].device) \ ready}
     \cup UNION {UNION {Sampled(e, l, c, b) : l \in Lookup(e.gl, c, fb, b, fd)} : e \in ready}

-----------------------------------------------------------------------------
(* drmtap_convert_dmabuf.                                                  *)

(* egl_display_for_ctx: a display or its absence is remembered for as many *)
(* devices as the table has room for; any other device is asked each time. *)
EglDisplay == BOOLEAN

(* drmtap_gpu_egl_available: asked on every call.                          *)
EglAvailable == EglDisplay \cup {FALSE}

(* gpu_auto_process on a mapping of the buffer, with the descriptor        *)
(* hidden, and a copy of what it leaves there into the output buffer.      *)
CopiedOut(b, r, p) ==
  LET scan == [mod |-> Desc[b].mod, format |-> Desc[b].format, layout |-> Desc[b].mod]
      out == AutoProcess([scan |-> scan, data |-> TRUE, fd |-> FALSE, force |-> FALSE,
                          vendor |-> TRUE, egl |-> "fails", room |-> r.ret = "ok"])
      image == [pic |-> p, size |-> Desc[b].size]
  IN IF r.ret = "ok" /\ out.ret = "ok"
     THEN [ret |-> "ok", x |-> Written(r.x, image), drawn |-> image]
     ELSE [ret |-> IF r.ret = "ok" THEN out.ret ELSE r.ret, x |-> r.x, drawn |-> Garbage]

(* Without the GPU the descriptor is mapped, which may fail, and the CPU   *)
(* works on the mapping.  Either way ensure_out is passed once.            *)
OnCpuOnly(x, b) ==
  {CopiedOut(b, r, p) : r \in EnsureOut(x, Desc[b].size), p \in Pics}
  \cup {[ret |-> "EINVAL", x |-> x, drawn |-> Garbage]}

Fallback(x, b, fd) ==
  IF fd THEN OnCpuOnly(x, b) ELSE {[ret |-> "EINVAL", x |-> x, drawn |-> Garbage]}

(* The exporter sent an fb_id, its buffer's geometry and perhaps a         *)
(* descriptor, which is refused when it is no DMA-BUF or shorter than the  *)
(* geometry says.  The GPU goes first where there is a display.            *)
Convert(c, fb, b, fd) ==
  /\ cx[c].open /\ Writes <= MaxWrites
  /\ LET Done(ret, from, drawn, dst) ==
           last' = [ret |-> ret, ctx |-> c, buf |-> IF fd THEN b ELSE None, from |-> from,
                    drawn |-> drawn, dst |-> dst]
         OnCpuInstead(x) ==
           \E r \in Fallback(x, b, fd) :
             cx' = [cx EXCEPT ![c] = r.x] /\ Done(r.ret, Empty, r.drawn, r.drawn)
     IN \/ fd /\ Done("EINVAL", Empty, Garbage, Garbage) /\ UNCHANGED <<cx, gl, images>>
        \/ \E gpu \in EglAvailable :
             ~gpu /\ OnCpuInstead(cx[c]) /\ UNCHANGED <<gl, images>>
        \/ \E gpu \in EglAvailable, o \in Detile(c, fb, b, fd) :
             /\ gpu
             /\ gl' = o.gl /\ images' = o.images
             /\ IF o.ok THEN cx' = [cx EXCEPT ![c] = o.x] /\ Done("ok", o.from, o.drawn, o.dst)
                ELSE OnCpuInstead(o.x)

-----------------------------------------------------------------------------
Next ==
  \E c \in Ctxs :
    \/ \E dev \in Devices : Open(c, dev)
    \/ \E len \in UserSizes : SetOutputBuffer(c, len)
    \/ \E b \in Bufs : GrabReduces(c, b)
    \/ \E fb \in Fbs \cup {None}, b \in Bufs, fd \in BOOLEAN : Convert(c, fb, b, fd)
    \/ Close(c)

Spec == Init /\ [][Next]_vars

-----------------------------------------------------------------------------
(* Properties.                                                             *)

(* A conversion that succeeds hands out the image it drew, also when the   *)
(* readback was skipped (DRMTAP_SKIP_UNCHANGED: "the previous output is    *)
(* returned"): whichever entry point, caller's buffer, failure or context  *)
(* at the same address came in between, the buffer still held it.          *)
OutputIsThisFrame ==
  last.ret = "ok" =>
    /\ last.dst = last.drawn
    /\ cx[last.ctx].user = 0 => cx[last.ctx].out = last.drawn

(* An image is sampled only for the context it was imported for and        *)
(* through the display of that context's device; and where both sides know *)
(* the inode it is the buffer the caller sent, though KMS gave the same id *)
(* to another buffer of that geometry.  However often the import had to be *)
(* retried, the buffer is sampled with its own format, order of colours,   *)
(* planes and tiling.                                                      *)
RightSource ==
  last.from # Empty =>
    /\ last.from.owner = last.ctx
    /\ last.from.dev = cx[last.ctx].device
    /\ last.from.as = Desc[last.from.buf]
    /\ last.from.as.size = last.drawn.size
    /\ last.buf # None /\ last.from.inode # None => last.from.buf = last.buf

(* Between calls every EGLImage is in a slot, and the slots are of open    *)
(* contexts: nothing pins the buffers of a context that was closed, on the *)
(* thread that captured with it as include/drmtap.h:508 asks.  Closed on   *)
(* another, its images stay until its capture thread exits.                *)
NothingPinned ==
  /\ images = Cardinality(InUse)
  /\ \A i \in InUse : cx[gl.slots[i].owner].open
=============================================================================
