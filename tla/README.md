# TLA+ models of libdrmtap

libdrmtap captures the screen of a Linux machine through DRM/KMS: it finds the
plane a display is scanned out from, takes the framebuffer bound to it, turns the
buffer into a DMA-BUF or into pixels, and hands it to the caller. Most of the code is
bookkeeping of kernel objects across ioctls that can each fail, while a compositor
flips buffers, displays come and go, privileges are dropped, and a privileged helper
process may die. That bookkeeping is what these modules model. Paths below are
relative to the repository root.

## 1. Inventory

| Component (source) | State it keeps | Operations | What is hard |
|---|---|---|---|
| Fast capture (`src/src/drm_grab.c`, `drmtap_grab_mapped_fast`) | `fast_slots[]` (fb id, GEM handle, descriptor, mapping, open sync window), `fast_initialized`, `fast_plane_id`, `fast_last_fb_id`, `fast_no_cpu_map`, `fast_no_privilege` | grab, cleanup | objects live across calls; sync windows stay open between calls; a slot is reused for another buffer; the scanout changes between two ioctls |
| Per-frame capture (`do_grab`, `drmtap_grab`, `drmtap_grab_mapped`, `drmtap_grab_desc`, `drmtap_frame_release`) | one `frame_priv_t` per frame held by the caller, `fb2_*`, `grab_plane_id` | grab x 3, release | many error returns, each with its own set of things to release; ownership moves halfway; the helper captures later than the library looked |
| Automatic conversion (`gpu_auto_process`, `reduce_linear_to_xrgb8888`, `drmtap_deswizzle`) | output buffer | one decision per mapped frame | a ladder of fallbacks (EGL, CPU deswizzle, depth reduction) in which a layout must never be mistaken for another |
| Helper channel, library side (`src/src/privilege_helper.c`, `src/src/wire.h`) | `helper_fd`, `helper_pid`, `helper_no_cursor2`, `helper_cursor2_ok`, `helper_cursor2_retried` | spawn, stop, grab, cursor | untagged replies; helper death at any byte; respawn and retry; EINTR; an old helper binary |
| Helper (`src/helper/drmtap-helper.c`) | its own DRM fd | command loop | which scanout is exported and which is copied; death |
| Plane and CRTC choice (`select_first_active_crtc`, `find_primary_plane`, `drmtap_scanout_width`, `drmtap_crtc_refresh`, `drmtap_plane_rotation`) | `crtc_id`, `grab_plane_id`, `rot_prop_*`, `sw_*` | sweep, memo, two queries | KMS state read in several ioctls while atomic commits replace it; memos that outlive what they were made of |
| Context and device discovery (`src/src/drmtap.c`) | device files, DRM master, everything above | open (by path, by search), open_render, list_devices, close, set_output_buffer | cards ranked one after the other while monitors move; a file opened on a card nobody is master of makes the process its master; partial construction |
| Display enumeration (`src/src/drm_enumerate.c`) | `cached_topology_hash` | list, changed | edge-triggered change detection with a baseline that two calls move |
| EGL detile (`src/src/gpu_egl.c`) and `drmtap_convert_dmabuf` | EGLImage slots, last frame hash, `out_gen`, per-device GL state | detile, convert, release | a cache of images of buffers that are recycled; an unchanged-frame skip against an output buffer others write; imports retried with other attributes |
| The helper's KMS reads (`src/helper/drmtap-helper.c`) and cursor capture (`src/src/cursor.c`) | plane types probed once, capabilities of its file | grab, cursor | many ioctls per answer over planes that are rebound meanwhile; handles that must not accumulate in a process that runs for days |
| Pixel arithmetic (`src/src/pixel_convert.c`) | none | deswizzle, convert, diff | tile offsets at ragged edges and short mappings |
| Rust wrapper (`src/bindings/rust/libdrmtap/src/lib.rs`) | the Arc of the C context, the spare output buffer, `out_len` | open, grab x 3, cursor, drops | frames dropped by other threads in the middle of a grab; a raw pointer lent to C |
| Vendor matches (`gpu_intel.c`, `gpu_amd.c`, `gpu_nvidia.c`, `gpu_generic.c`) | none | match | nothing: pure functions |

How they interact. A context belongs to one thread (`README.md` of the repository);
its concurrency is with the kernel, the compositor, the helper process and signals.
The three capture entry points share the context: `fb2_*` (layout of the framebuffer
being converted), `cur_hdr_*` and `grab_plane_id` are written by each and read by the
others. A per-frame grab whose GETFB2 or export is refused goes to the helper over a
socket pair; so does a cursor once a helper runs.

What makes each component correct:

* *Fast capture*: every handle, descriptor, mapping and sync window has exactly one
  owner on every return path; a cache hit shows the buffer its id names; a frame is
  converted with its own layout; a refused context owns nothing.
* *Per-frame capture*: the same ownership, over several frames held at once and both
  routes; a frame is labelled with the buffer it holds; pixels handed out are decoded.
* *Helper channel*: a reply is taken for the command it answers, a call ends once, a
  retry is bounded, and what is latched about the binary is based on evidence.
* *Plane choice*: a context keeps answering for one CRTC; what is remembered is
  invalidated by what its comment says invalidates it; a rotation is that of the frame.
* *Discovery and enumeration*: a file or a mastership that is not the open card's is given
  up; the card chosen was not outdone throughout the search; a topology change is reported once.
* *EGL and conversion*: what is handed out was drawn for this call, from the buffer the call
  was given and with its own format; no image outlives its context.
* *KMS reads*: nothing stays held after an answer; a primary plane that was lit all along is
  the one captured; a cursor that was visible all along is not reported hidden.
* *Pixels*: each output pixel is the right one and read inside the mapping; the changed
  rectangles cover every change.
* *Rust wrapper*: a frame's slice is its own memory; the C context outlives its users.

`PROJECT.json` lists every part with its status, and the hazards with their lines.

## 2. Modules

| Module | Models | Extends / instantiates |
|---|---|---|
| `FastGrab` | `drmtap_grab_mapped_fast` and what happens around it | |
| `FastGrabProofs` | nine theorems about `FastGrab` | `FastGrab`, TLAPS |
| `AutoProcess` | `gpu_auto_process` as a function | |
| `SlowGrab` | `do_grab`, its entry points, `drmtap_frame_release` | `AutoProcess` |
| `SlowGrabProofs` | eight theorems about `SlowGrab` | `SlowGrab`, TLAPS |
| `HelperChannel` | library and helper over the socket pair | instantiates `HelperService` |
| `HelperChannelProofs` | six theorems about `HelperChannel`, the refinement among them | `HelperChannel`, TLAPS |
| `HelperService` | abstract: what the helper promises a call | |
| `PlaneChoice` | CRTC and plane choice and what is remembered of them | |
| `PlaneChoiceProofs` | six theorems about `PlaneChoice` | `PlaneChoice`, TLAPS |
| `EglDetile` | the EGL detile and `drmtap_convert_dmabuf` | `AutoProcess` |
| `EglDetileProofs` | three theorems about `EglDetile` | `EglDetile`, TLAPS |
| `KmsReads` | the helper's grab and cursor reads, the library's direct cursor read | |
| `KmsReadsProofs` | three theorems about `KmsReads` | `KmsReads`, TLAPS |
| `Discovery` | opening and ranking cards, DRM master, displays and their changes | |
| `DiscoveryProofs` | three theorems about `Discovery` | `Discovery`, TLAPS |
| `PixelConvert` | deswizzlers, format converters, frame difference | |
| `RustTap` | the Rust wrapper's ownership of context and buffers | |
| `WrapperAndPixelProofs` | the theorems about `RustTap` and `PixelConvert`, which share no state | `RustTap`, `PixelConvert`, TLAPS |
| `MC*` | finite instances | the module they are named after |

All state machines have the same form. `pc` says where the call in progress stands and
`call` holds its local variables. A handler is cut into steps at its ioctls (or its
socket operations), because that is where other actors move; everything between two of
them is one action. Guards are the handler's conditions, and a step that can fail has
an alternative for the failure. Actions of the environment (`Flip`, `Commit`,
`SwitchHdr`, `DropPrivilege`, `HelperDies`) run between any two steps. Operators
commented `Mutant` are plausible mistakes in the definition that follows them. They are
not part of a model: each is swapped in to see that a property notices.

### FastGrab

The kernel is three tables: `bo` (handle to buffer), `buf` (descriptor to buffer), `win`
(STARTs minus ENDs on a descriptor), beside the set of live mappings. The context is
`slots` and the flags named after the C fields. A call goes `plane` -> `lookup`
(`find_or_alloc_slot`: hit, empty slot, eviction of slot 0) -> `getfb2` -> `export` ->
`map` -> (`fallback`, the uncached EGL readback) -> `idle`; each of them has its failure.
`SlowGrab`, `ConvertForeign` and `Reopen` are the other entry points as far as the fast
path can see them (`fb2_*`, `cur_hdr_*`, `grab_plane_id`, teardown). A buffer is named by its
framebuffer id: `include/drmtap.h` states that the path assumes an id is not recycled.
Geometry is abstracted to valid or rejected.

### SlowGrab and AutoProcess

One step per ioctl or message of `do_grab`, in the order of the code: plane, GETFB2,
export, helper request, adoption by a `frame_priv_t`, mmap and START, conversion,
hand-over; `drmtap_grab_desc` then describes the frame or refuses it. The caller holds
up to one frame in each of its variables and releases them in any order, but releases a
frame before grabbing into its variable again, as the header requires. `privs` is
the heap: use after free would be a record that is not live. The helper may capture
another buffer than the one the library saw. `Process` calls `AutoProcess`, a function
from what is known of the scanout and the access there is to it, to where the pixels
end up, how they lie and how deep they are; of the layouts the CPU decodes it has X and Y as one, and leaves out Yf
(see `PixelConvert`). A machine (`gpu`) is a driver, whether it is a virtio device
with 3D (`DetectDriver`; the helper exports such a scanout and never copies it), whether there is EGL,
and whether the library was built with a helper: without one, `privilege_helper_stub.c` answers
every request with an error (`NoHelper`). The driver names decide through `Deswizzles`, which is what the
`*_match` functions of the vendor files say, whether the CPU decodes a tiled scanout. The auxiliary handles that GETFB2 mints for the
other planes are closed within the same step and are modelled in `FastGrab` only.

### HelperChannel and HelperService

The client's steps are the socket operations of `drmtap_helper_grab` and
`drmtap_helper_get_cursor`, including the recursion of the latter (`CursorRetry`), the
respawn and single resend, the drains and the 100 ms stop. The helper takes a command,
composes a reply of one or two parts and writes them one by one; it may die at any
moment, and what it had written remains readable. Each part carries the number of the
call that caused it. The code sends no such tag: it is history, and lets the properties
say whose answer was read. After a part has been misread the bytes that follow mean
nothing, and the model only remembers that (`torn`). A cursor larger than 256 x 256
cannot come from the helper, which caps it; that drain is left out. A send to a live helper
succeeds.

`HelperService` is the contract: calls are served one at a time, each ends once, either
without an answer or with the answer to the very question asked. `ServiceSpec` maps the
channel to it, hiding deaths, respawns and retries.

### PlaneChoice

A KMS state is one value, replaced atomically by `Commit` (an atomic commit of the
compositor); the library reads it one ioctl at a time. The sweep `find_primary_plane` is
one action per plane, with its two ways of failing, and begins with the choice of a CRTC
when none is kept. It is shared by a grab, by the rectangle read of
`drmtap_scanout_width` and by `drmtap_plane_rotation`, as in the code (`call.goal` tells
which). Widths are numbers, because the decision compares them; heights follow them.
The property set of a plane is fixed, so the branch for a property that disappeared
(drm_grab.c:434) is not reached. The plane the fast path keeps and the width of a frame the
helper captured are not in this module.

### EglDetile

A buffer is an address of a framebuffer's memory, with the descriptor its exporter would give
(`Desc`: size, format, order of the colours, planes, tiling); a KMS id can be given to any of them and taken away. A
slot keeps the id, the inode, the context and the descriptor it was imported with, as `egl_image_slot_t`
does. GL is thread-local and `g_convert_lock` is held over a detile, so a call is one
step; a picture drawn into the buffer is what the shader would render of it. `RetrySafe` says
of which buffers a refused import may be repeated, as one plane of XRGB8888 (`Retried`). The choice between
EGL and the CPU is `AutoProcess`, the same function `SlowGrab` uses. What a call leaves is built by one
operator per stage (`Lookup`, `Sampled`, `ReadPixels`, `Result`; `NotDrawn` and `CopiedOut` where the
picture is not drawn), each of which has a lemma in the proofs. The hash is the image it
was computed from (no collisions); the invalid modifier, other threads and the GL calls
themselves are left out.

### KmsReads

A plane has a CRTC and a framebuffer or neither, and `Commit` changes one plane at a time
between any two ioctls. The helper's `grab_and_send` and `cursor_and_send` and the direct
path of `cursor.c` are written as their ioctls, with the handle and the mapping each one
acquires (`held`). Two variables are history: `mishap` says that an ioctl or an allocation failed for
want of memory, and `steady` which planes have been bound to the CRTC asked for ever since the
handler began.

### Discovery

Cards have connectors and CRTCs; `Modeset` (a monitor, a mode or the CRTC of a display changes) and `VtSwitch` (a
compositor takes or leaves master) happen between the steps of a scan. The loop of `open_drm_auto` that ranks a
card is one step for each CRTC it reads (`ScanCrtc`), and a read may fail; so a display that moves from one CRTC to
another meanwhile is counted on both or on neither, as in the code. `drmtap_open` with and without a path, `drmtap_open_render`,
`drmtap_list_devices`, `drmtap_list_displays` and `drmtap_displays_changed` are its calls. A topology is
compared itself where the code compares a hash of it; positions, names and refresh rates, which
the hash does not fold or folds incompletely, are not in it.

### PixelConvert

Each public call is one action over all small arguments. A pixel's value is the source position it
came from, and the samples of a colour are tracked through each converter. The reference
definitions (where the tiling's definition puts a pixel, which rectangles differ) are stated
without the loops of the code. They are those of linear, X and Y. The code decodes Yf with the loop for Y
(`Offset`), which is not where `drm_fourcc.h` puts the pixels of Yf: for Yf the property
claims only that nothing is read past the mapping. `DiffFrames` is in closed form: the entry `k` of the array is the tile at which
`dirty_count` was `k`.

### RustTap

A grab is cut where Rust code runs between C calls: take the buffer, the first call, the second one
after `-ENOSPC`, and the wrapping of its result. Drops of frames and of the cursor interleave at each of their own
steps (C release, return of the buffer to the context, drop of the `Arc`). A buffer is
an address with a capacity and the frame whose pixels are in it, so a use after free or a
buffer with two owners is a wrong owner of pixels.

## 3. Runs

| Run | Bounds | What it shows |
|---|---|---|
| `fast_grab` | 3 framebuffers, 2 slots, 3 handles, 2 descriptors, 1 plane; virtio and not | ownership, sync windows and labels of the fast path over any sequence of calls, flips and failures |
| `helper_channel` | 4 calls, old or new binary, deaths anywhere, with and without signals and failing allocations | replies and calls stay in step; losses and the latch need a cause; respawns bounded; every call returns; `HelperService` is implemented |
| `helper_eintr` | 3 calls, signals | finding: a signal desynchronises the channel |
| `slow_grab` | 2 frames, 3 framebuffers, 2 handles, 2 descriptors, 2 planes, 4 machines | ownership over two frames, both routes and every error; labels; decoded pixels |
| `plane_choice` | 2 CRTCs, 3 planes, 12 KMS states | one CRTC per context, primary before overlay, widths and rotations of the right plane and mode |
| `plane_choice_memo` | same | finding: a remembered width outlives the padding it was made of |
| `egl_detile` | 2 contexts of 2 devices, 5 buffers of 4 descriptors, 1 framebuffer id, 1 image slot, 2 pictures, 2 output writes | an output is this call's frame of the buffer it was given; images go with their context |
| `kms_reads` | an overlay, a primary and a cursor plane, 2 CRTCs, 2 framebuffers, 2 shapes, 3 machines | nothing held after an answer; the primary plane wins; a cursor is reported hidden only if none was there all along, or the one looked at was not |
| `helper_atomic` | same | finding: the helper reads properties it never asked the kernel to show |
| `discovery` | 2 cards, 3 connectors, 3 CRTCs, 2 modes, room for 1 result | no stray file or mastership; the best card; each change reported once |
| `pixel_convert` | tiles of 4 x 2, frames up to 9 x 5 to decode and 3 x 3 to compare | every pixel of a linear, X or Y frame from its place, nothing read past the mapping in any layout; colours in their place; rectangles cover the changes |
| `rust_tap` | 3 frames, 5 buffers, lengths 1 and 2 | pixels are the frame's own; the context outlives its users |

Why the bounds are enough. `FastGrab`: the cache logic distinguishes a hit, an empty slot
and a full cache; two slots and three ids give all three, with one slot beside the evicted
one whose window or handle could be confused with it (the code has more slots, and the
theorems hold for any number). The call in progress needs a handle and a descriptor beyond
those of the slots, and one auxiliary handle. `SlowGrab`: a confusion between frames needs
two; the descriptors and handles are as many as two frames can hold, so exhaustion also
happens. The machines are a vendor driver with EGL, another without EGL and without a helper, virgl,
and virtio without 3D. `HelperChannel`: a desynchronisation takes a call that leaves something behind and
one that reads it, and the latch two failures; four calls leave room for both in either
order. `SpawnCap` (7) is one above the largest bound stated. `PlaneChoice`: an overlay
listed before two primary planes on two CRTCs makes every ordering in the sweep happen,
and the KMS states differ pairwise in one of the four keys of the memo, in scaling,
offset, tiling or rotation. `EglDetile`: one image slot makes every second
buffer an eviction, two buffers of one descriptor under one id make the recycling that
the inode is checked for, two differ from them in every key, and the fifth is
refused a retry for the order of its colours alone; two contexts are
enough for an address to be reused while the other's images live. `MaxWrites` (2) bounds the sum of
`out_gen` at which calls still start: one write to be remembered and one to invalidate it. `KmsReads`: the overlay
comes first in the kernel's order, which is the order that can go wrong, and the second CRTC is where
a plane can be moved to. `Discovery`: a card with one CRTC against one with two is
the tie the ranking has to break both ways, and an output of the second card that either of its CRTCs can drive moves
between the two reads; the modes are symmetric, being only compared; room for one result makes the truncated lists happen.
`PixelConvert`: 9 x 5 has two whole tiles and a cut one in both directions for tiles of 4 x 2, and
three columns of tiles differ from two by the row stride of tiles; `MaxRects` (2) is less
than the four tiles a frame of 3 x 3 can have. `RustTap`: a buffer has at most four owners of different kinds
(frames, spare, the grab), and five addresses suffice for three frames, the spare and the grab.

Fairness. Only `CallsReturn` needs it: weak fairness of the client's steps in a call
already begun and of the helper's loop. It says that the ioctls and socket operations of
two running processes return. The code bounds neither (no receive has a timeout), so
a helper stuck in an ioctl blocks the caller: this is listed as a hazard and not
refuted by the run. Nobody has to call, close, die or signal. Deadlock checking is on in every run.

What the violations say. Each contradicts a sentence of the repository, quoted in `PROJECT.json`:
an interrupted receive returns without tearing the channel down, so that the next grab takes
the old reply; a framebuffer that was padded, and is scaled now, is still reported at the
narrowed width, because whether the plane scales is not part of the memo's key; and
the helper reads the cursor's position and the connector's HDR state without the client
capability that makes the kernel show those properties, so they read as 0.

Other disagreements between the code and its texts were met while modelling. The models
contain the code's behaviour, and no run is spent on them:

* Eviction always empties slot 0, where drm_grab.c:1964 and :1978 speak of the least recently used.
* The HDR state is read once per context on the fast path (drm_grab.c:2038), and documented per
  grab (drmtap_internal.h:196).
* The legacy cursor command is latched (privilege_helper.c:374) also when the failing helpers
  belonged to different calls (see the comment at :365).
* A helper buffer that cannot be mapped makes a successful mapped grab with NULL data
  (drm_grab.c:1212, drmtap.h:168).
* A tiled 16-bit scanout decoded on the CPU is handed out with its 16-bit depth (drm_grab.c:1740,
  drmtap.h:220).
* The `-EBUSY` of an unreleased previous frame (drmtap.h) is never returned.
* When the helper cannot read a cursor for a moment, it reports it hidden with a hot spot and
  a width (drmtap.h:573-577).
* The helper's one probe of plane types, cut short, is remembered for its life.
* `drmtap_convert_dmabuf` on the CPU keeps the source's stride where drmtap.h promises a linear
  one of width * 4.
* Between opening a card to rank it and dropping mastership, a compositor that starts can find
  the card taken.
* drmtap.h:777 lists Yf among the layouts `drmtap_deswizzle` converts; pixel_convert.c:299 sends it through the loop
  for Y, so a Yf frame comes out in the wrong order as a success.
* `DrmTap::displays_changed` (lib.rs:349) compares with 0, and so reads an error as a change.

## 4. Proofs

TLC shows the properties on the instances above; the theorems hold for every value of the
constants that satisfies the assumptions. Each proof module has one inductive invariant `Inv`, a lemma
`Init => Inv`, one lemma for each action, and from them `Spec => []Inv`; the theorems follow
from parts of `Inv`. What `Inv` adds to the properties is the interesting part, and is described here.

`FastGrabProofs`: `TypeCorrect`, `NoLeak`, `SyncBalanced`, `AtMostOneWindow`, `WindowBelongs`,
`HitsAreFaithful`, `ConvertedWithOwnLayout`, `RefusalOwnsNothing`: every property of the run.
Assumptions: the null ids are not ids (`SentinelAssumption`) and there is at least one slot
(`SlotsAssumption`). None of the properties is inductive alone. The invariant `Inv` adds the shape
of a slot (empty, or owning live objects that no other slot has), of the call (at `export` it
holds a handle that names the captured buffer and that no slot owns, and so on up to
`fallback`) and of the flags (slots are filled only between initialisation and cleanup). The
central lemmas say what closing windows, emptying a slot and emptying all slots do to the kernel
tables. From the same invariant follows an action property, `MappingsStand`: no step, of this path or of another
on the context, changes the objects of a slot in use, except to release all of them at once with no
window left open. So a slot in use is never overwritten by another framebuffer, and the zeroing by the one-time
initialisation forgets nothing.

`SlowGrabProofs`: `TypeCorrect`, `NoLeak`, `SyncBalanced`, `ReleasedOnce`, `LabelledRight`, `PlaneNamed`,
`Delivered`: every property of the run, and `FramesIndependent`. Assumption: `GrabAssumption` (null values are no values,
there is a frame to grab into, a machine and a scanout are of the shapes listed there). `Inv` adds: what
the grab in progress has acquired at each of its places, and of which framebuffer (`CallInv`); a held frame
has a live record of its own and a live record a frame (`FrameInv`); a handle, and a descriptor, is open
for exactly one record or for the grab (`HandleInv`, `FdInv`), which is what makes a release
unable to close another frame's; and where `grab_plane_id` stands while `drmtap_grab_desc` may still put it
back (`NameInv`). `FramesIndependent` is an action property: no grab into another frame, wherever it fails, and no
release of another frame touches a held frame's record, handle, descriptor, mapping or sync window.
`frame->data` may point to memory of the context, of which it says nothing.

`HelperChannelProofs`: `TypeCorrect`, `SocketQuiet`, `LossIsReal`, `LatchIsFounded`, `FewSpawns` and
`ImplementsService`, the refinement: initial states map to initial states and every step to a step or a
stutter of `HelperService`, which is a safety specification. Assumption: `ChannelAssumption`, the types of
the constants; the bound `MaxCalls` on the calls is any natural number. `Inv` has one part for each question: where the parts of a reply may be, for a client nothing interrupts
(`InStep`: what is in the pipe belongs to the call that waits for it, part by part, and
nothing is there when no call is); where a probe of the new cursor command and its answer may be, for every
client (`ProbeInv`); what a helper found dead says (`LossInv`); what the latch rests on (`EvidenceInv`: the deaths
counted so far against the flags); and how many helpers the call may still spawn (`BudgetInv`, over
the rounds `CursorRetry` has left). `InStep` is why the refinement holds: the answer the client
takes is the one to its own command.

`KmsReadsProofs`: `NothingHeld`, `PrimaryShown`, `VisibleRead`: every invariant of `kms_reads`. Assumption:
`KmsAssumption` (the planes are finitely many and numbered from 1, the null value is no
object, only virtio machines have virgl). `Inv` adds what is held at each place of a
handler (`HeldInv`) and, for a sweep that sees each plane at a moment of its own, that no
plane bound all along lies behind it unnoticed (`GrabInv` for the primary planes, `CursorInv` for the
cursors). `VisibleStaysVisible` says that a cursor is reported hidden only when no cursor plane was bound all along,
or when the plane looked at was not: with several cursor planes on one CRTC the
library looks at the first it finds, and the simpler claim, that a cursor visible all along is never
reported hidden, is false then: TLC shows it when `Cursors` has two planes.

`DiscoveryProofs`: `HoldsItsCard`, `PicksBestCard`, `ReportsChanges`: every property of the run. Assumption:
`DiscoveryAssumption`, with finitely many cards, connectors and CRTCs. `Inv` adds: the files a scan keeps open are
its best card, its fallback and the card it is looking at (`FdsInv`); a mastership that came with an open
goes with a file that is still open (`MasterInv`); every card the scan has passed had no more CRTCs lit all along than the
best one had lit at some time, with the ties of the order (`ScanRanks`), because what is counted of a card lies between those two
sets while it is read (`Counted`); and what a call has read of the connectors,
and the baseline left by an earlier call, is what is there unless something changed meanwhile (`ReadInv`, `BaseInv`).

`EglDetileProofs`: `FrameHandedOut`, `SourceFound`, `NoneLeftPinned`: every property of the run. Assumption:
`EglAssumption`. `Inv` adds: no two slots are for the same framebuffer of the same context (which
justifies that the lookup takes the only one that matches); the images are of the device of the GL state and owned by open
contexts of it, as many as the slots in use (`GlInv`); and a valid frame hash belongs to an open context whose output buffer
still holds the picture it stands for, and is large enough for it, as long as `out_gen` has not moved since (`HashGood`).
The last is the whole argument for the unchanged-frame skip. Each stage of a detile has a lemma
that says what it leaves (`EnsureOutFacts`, `LookupFacts`, `ReadbackFacts`, `DetileFacts`).

`PlaneChoiceProofs`: `TypeCorrect`, `AnswersForOneCrtc`, `SweepPrefersPrimary`,
`TiledNeverNarrowed`, `WidthOfItsMode` and, as an action property, `RotationAnswersForFrame`: every
property of the run. Assumption:
`ConfigAssumption`, the typing of KMS states, with a lit plane showing part of its
framebuffer on a CRTC that has a mode. The invariant `Inv` adds: a call looks for the CRTC that is kept
(`CrtcShape`); a sweep that has passed a plane lit all along holds a primary plane
(`SweepShape`, over the history `steady`, which a commit can only shrink); a remembered width is one of
its framebuffer, the whole of it when tiled (`WidthShape`); what is known of the rotation
property is true (`RotationShape`). `WidthOfItsMode` rests on a second invariant, `WidthInv`: a narrowed
width that is remembered is that of some KMS state, and while no commit has come between the two readings
the framebuffer and the mode a width is decided for are those of the present one. Steps that end a call, go on, or begin a sweep have a
lemma each, to which the actions are reduced.

`WrapperAndPixelProofs`, on `RustTap`: `OwnPixels` and `ContextLivesLongEnough`, both properties of the run. Assumption:
`TapAssumption` (the null value is neither a frame nor a buffer). The invariant `Inv` adds: a buffer has one
owner among the frames, the spare and the grab in progress (`OneOwner`) and is allocated while it has
one (`Allocated`, which is why the allocator cannot hand it out again); the grab's frame is
not in use, and its result says truly where the pixels are (`GrabOK`); the context is open
exactly while someone holds the `Arc` (`ContextOK`). The step that wraps a result into a frame is proved from a
summary of what its three cases do to the buffers.

`WrapperAndPixelProofs`, on `PixelConvert`: `PixelPlaces`, `Colours` and `Changes`, every property of the run.
Assumption: `TileAssumption` (sizes are positive, a Y tile is a whole number of columns). A state is the answer to one
call, so no invariant has to be strengthened; the work is in the arithmetic, for symbolic tile sizes. There is
one quotient and one remainder (`Quotient`), so a position gives back its tile and the place in it (`TileNumber`,
`InTile`), the place in an X or a Y tile gives back the pixel (`XPlace`, `YPlace`), and an offset stays below
whole tile rows (`TiledBound`). For the frame difference: a pixel lies in the tile its coordinates divide to and in
no other, clipped or not (`TileHolds`, `TileExists`), and the number of dirty tiles before each dirty tile numbers them without
a gap (`Ranking`), so that the array is filled from its start with different rectangles. No induction over the loops is
needed: `DiffFrames` says of each entry which tile it is for instead of how a loop got there.

Only model-checked: liveness (`CallsReturn`), which the proof system does not reach. Every invariant and
action property of the passing runs is a theorem. `MappingsStand` and `FramesIndependent` are properties of no run:
they are consequences of the invariants that the runs check. The three violations are counterexamples and need no proof.
`AutoProcess` is a function: what is proved of it is what the proofs of `SlowGrab` and `EglDetile` use.

## 5. Not modelled

* The vendored sources in `src/bindings/rust/libdrmtap-sys/csrc` are a byte-for-byte copy of the
  library and the helper; the modules map the originals.
* The `*_process` functions of the vendor files and the matches of `gpu_generic.c`: nothing calls them.
* In `EglDetile`: the invalid modifier, the GL calls, other threads behind `g_convert_lock`.
* In `PixelConvert`: the tone curve, half floats and rounding; the order of Yf, which no property claims and
  `AutoProcess` leaves out, so that `PixelsDecoded` speaks of X and Y only.
* A ranking of cards by displays: `BestCard` is about CRTCs. The claim that no card with more displays all along is passed over
  is false, and TLC shows it: the one display of a card, moved to the other CRTC between the two reads, is counted
  twice and beats another card's steady one. The code has no defence and its texts do not mention such a change.
* Closing a context on another thread than its capture thread, against drmtap.h:508 and as lib.rs:262 permits:
  `NothingPinned` assumes the capture thread. The images are then freed when that thread exits.
* The helper's seccomp filter, capability handling and opening of its device; logging, error texts.
* HDR and width narrowing inside `SlowGrab`: they change numbers of a frame, not what it owns.
* On early errors `do_grab` leaves a zeroed frame; the model leaves it owning nothing.
* Collisions of the topology and frame hashes.
* The hazards with a note in `PROJECT.json` say what no property covers, and why.

## 6. Plan

Done, in this order: `FastGrab` (the largest state machine, most objects at stake), its proofs,
`HelperChannel` with its contract, `AutoProcess` and `SlowGrab`, `PlaneChoice` and its proofs,
`EglDetile`, `KmsReads`, `Discovery`, `PixelConvert`, `RustTap` and its proofs,
the proofs of `HelperChannel` with its refinement, `KmsReads`, `SlowGrab`, `Discovery`, `EglDetile`,
the width of `PlaneChoice`, and `PixelConvert`, and the action properties `FramesIndependent` and `MappingsStand`.

Next:

1. The plane the fast path keeps (`fast_plane_id`) against CRTC changes, inside `FastGrab`.
2. Action properties of `Discovery` (who may move the baseline) and of `EglDetile` (what a call on one
   context leaves of the images of another).
3. A second thread behind `g_convert_lock` and the table of displays, in `EglDetile`.
