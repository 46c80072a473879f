------------------------------ MODULE RustTap ------------------------------
(***************************************************************************)
(* The safe Rust wrapper, src/bindings/rust/libdrmtap/src/lib.rs: who      *)
(* keeps the C context open, and whose memory a frame's pixels are in.     *)
(*                                                                         *)
(* A DrmTap is used by one thread at a time (it is Send and not Sync), but *)
(* the frames and cursors it handed out are dropped by any thread at any   *)
(* time, also in the middle of a grab.  They share the Ctx: the raw C      *)
(* pointer behind an Arc, and the spare buffer behind a lock.              *)
(*                                                                         *)
(* A Vec<u8> is a buffer with a capacity, 0 once it is freed; what it      *)
(* holds is named by the frame whose pixels were written into it last.     *)
(***************************************************************************)
EXTENDS Naturals, FiniteSets

CONSTANTS
  Frames,   \* the frames a consumer can hold at a time
  Buffers,  \* addresses the allocator can return
  MaxLen,   \* a frame needs 1 .. MaxLen bytes, stride * height
  None

ASSUME TapAssumption == /\ MaxLen \in Nat \ {0}
                        /\ None \notin Frames \cup Buffers

VARIABLES
  open,    \* the C context: not yet drmtap_close'd
  tap,     \* there is a DrmTap
  cursor,  \* the one Cursor: "none", "live" or "released"
  frame,   \* each frame: where it stands in its life, and its fields
  cap,     \* capacity of each buffer
  holds,   \* whose pixels each buffer holds
  inCtx,   \* whose pixels the context's own conversion memory holds
  user,    \* ctx->user_out
  spare,   \* Ctx.1, the buffer of the last released frame
  outLen,  \* DrmTap.out_len
  pc, now, buf, raw  \* the grab in progress: its step, frame, buffer and result

grabbing == <<pc, now, buf, raw>>
memory == <<cap, holds, inCtx>>
vars == <<open, tap, cursor, frame, memory, user, spare, outLen, grabbing>>

Lens == 1 .. MaxLen

(* at: where raw.data points: memory of the frame itself (its mapping), of *)
(* the context, the lent buffer, or nowhere.                               *)
Places == {"frame", "ctx", "lent", "null"}

NoFrame == [st |-> "gone", at |-> "null", len |-> 0, own |-> None]
NoRaw == [ret |-> "none", at |-> "null", len |-> 0]

(* Mutant: a frame holds the bare pointer, as it did once.                 *)
HeldByTap(f, c, t) == t \/ c # "none"

(* Somebody holds a clone of the Arc.                                      *)
Held(f, c, t) == t \/ c # "none" \/ \E g \in Frames : f[g].st # "gone"

(* The drop of an Arc: the last one runs drmtap_close.                     *)
Unref(f, c, t) == open' = (open /\ Held(f, c, t))

Free(b) == cap[b] = 0

(* The buffers of `gone` go back to the allocator.                         *)
Freed(gone) == [b \in Buffers |-> IF b \in gone THEN 0 ELSE cap[b]]

Forgotten(gone) == [b \in Buffers |-> IF b \in gone THEN None ELSE holds[b]]

Known(b) == {b} \ {None}

-----------------------------------------------------------------------------
(* DrmTap::open.  A tap can be opened again once the last one is closed.   *)
Open ==
  /\ ~open
  /\ open' = TRUE /\ tap' = TRUE /\ outLen' = 0
  /\ UNCHANGED <<cursor, frame, memory, user, spare, grabbing>>

(* The spare of a context goes with it; the pixels of a frame that is gone *)
(* are nobody's.                                                           *)
Buried(gone) ==
  LET freed == IF open' THEN {} ELSE Known(spare) IN
  /\ spare' = IF open' THEN spare ELSE None
  /\ cap' = Freed(freed)
  /\ holds' = [b \in Buffers |-> IF b \in freed \/ holds[b] \in gone THEN None ELSE holds[b]]
  /\ inCtx' = IF open' /\ inCtx \notin gone THEN inCtx ELSE None

DropTap ==
  /\ tap /\ pc = "idle"
  /\ tap' = FALSE /\ outLen' = 0
  /\ Unref(frame, cursor, FALSE)
  /\ Buried({})
  /\ UNCHANGED <<cursor, frame, user, grabbing>>

-----------------------------------------------------------------------------
(* DrmTap::grab_mapped.                                                    *)

Fits == spare # None /\ cap[spare] >= outLen

(* Mutant: the spare is lent and stays the spare.                          *)
PeekBuffer(b) ==
  IF Fits THEN b = spare /\ UNCHANGED <<spare, memory>>
  ELSE /\ Free(b) /\ cap' = [cap EXCEPT ![b] = outLen]
       /\ UNCHANGED <<spare, holds, inCtx>>

(* Ctx::take_buffer: the spare when it is big enough; one that is not is   *)
(* dropped for a new one.                                                  *)
TakeBuffer(b) ==
  /\ spare' = None
  /\ IF Fits THEN b = spare /\ UNCHANGED memory
     ELSE /\ Free(b)
          /\ cap' = [Freed(Known(spare)) EXCEPT ![b] = outLen]
          /\ holds' = Forgotten(Known(spare))
          /\ UNCHANGED inCtx

Lend ==
  /\ tap /\ pc = "idle"
  /\ \E f \in Frames : frame[f].st = "gone" /\ now' = f
  /\ \/ outLen = 0 /\ UNCHANGED <<buf, user, spare, memory>>
     \/ outLen > 0 /\ \E b \in Buffers : TakeBuffer(b) /\ buf' = b /\ user' = b
  /\ pc' = "call" /\ raw' = NoRaw
  /\ UNCHANGED <<open, tap, cursor, frame, outLen>>

(* drmtap_grab_mapped for a frame of len bytes: a conversion goes to the   *)
(* buffer that was lent, unless it is too small, or to the context's; the  *)
(* pixels of a helper that needed none stay in the context; a scanout that *)
(* needed none is mapped by the frame; and there may be nothing to see.    *)
Captured(len) ==
  \/ /\ user # None /\ len > cap[user]
     /\ raw' = [ret |-> "ENOSPC", at |-> "null", len |-> 0]
     /\ UNCHANGED memory
  \/ /\ user # None /\ len <= cap[user]
     /\ raw' = [ret |-> "ok", at |-> "lent", len |-> len]
     /\ holds' = [holds EXCEPT ![user] = now]
     /\ UNCHANGED <<cap, inCtx>>
  \/ /\ raw' = [ret |-> "ok", at |-> "ctx", len |-> len]
     /\ inCtx' = now
     /\ UNCHANGED <<cap, holds>>
  \/ /\ \E at \in {"frame", "null"} : raw' = [ret |-> "ok", at |-> at, len |-> len]
     /\ UNCHANGED memory
  \/ /\ raw' = [ret |-> "error", at |-> "null", len |-> 0]
     /\ UNCHANGED memory

(* The first call, after which the context no longer points at the buffer. *)
Call ==
  /\ pc = "call"
  /\ \E len \in Lens : Captured(len)
  /\ user' = None
  /\ pc' = IF raw'.ret = "ENOSPC" THEN "again" ELSE "wrap"
  /\ UNCHANGED <<open, tap, cursor, frame, spare, outLen, now, buf>>

(* "The frame outgrew the buffer: convert into the context's own."         *)
Again ==
  /\ pc = "again"
  /\ \E len \in Lens : Captured(len)
  /\ pc' = "wrap"
  /\ UNCHANGED <<open, tap, cursor, frame, user, spare, outLen, now, buf>>

Finished == pc' = "idle" /\ now' = None /\ buf' = None /\ raw' = NoRaw

(* `check(ctx, ret)?` drops the buffer with the rest of the locals.        *)
Failed ==
  /\ pc = "wrap" /\ raw.ret # "ok"
  /\ cap' = Freed(Known(buf)) /\ holds' = Forgotten(Known(buf))
  /\ Finished
  /\ UNCHANGED <<open, tap, cursor, frame, inCtx, user, spare, outLen>>

(* drmtap_frame_owns_data: the pixels are in a mapping of the frame's own.  *)
OwnsData(at) == at = "frame"

Wrapped(own) == frame' = [frame EXCEPT ![now] = [st |-> "live", at |-> raw.at,
                                                 len |-> raw.len, own |-> own]]

(* The conversion wrote into the buffer: the frame takes it.               *)
WrapLent ==
  /\ raw.at = "lent"
  /\ Wrapped(buf)
  /\ UNCHANGED <<memory, spare>>

(* The frame owns its pixels or has none; the buffer is kept for the next  *)
(* grab, and the spare some other frame left meanwhile is freed.           *)
WrapOwner ==
  /\ raw.at = "null" \/ OwnsData(raw.at)
  /\ Wrapped(None)
  /\ IF buf = None THEN UNCHANGED <<memory, spare>>
     ELSE /\ spare' = buf
          /\ cap' = Freed(Known(spare)) /\ holds' = Forgotten(Known(spare))
          /\ UNCHANGED inCtx

(* Mutant: the buffer is reused whatever its size.                         *)
CopiedAnyway(b) == IF buf = None THEN Free(b) ELSE b = buf

(* copy_unowned: into the buffer when it is big enough, else it is dropped *)
(* for a new one.                                                          *)
CopyInto(b) == IF buf # None /\ cap[buf] >= raw.len THEN b = buf ELSE Free(b)

WrapCopy ==
  /\ raw.at = "ctx"
  /\ \E b \in Buffers :
       /\ CopyInto(b)
       /\ Wrapped(b)
       /\ cap' = [Freed(Known(buf) \ {b}) EXCEPT ![b] = IF b = buf THEN cap[b] ELSE raw.len]
       /\ holds' = [Forgotten(Known(buf)) EXCEPT ![b] = inCtx]
  /\ UNCHANGED <<inCtx, spare>>

Wrap ==
  /\ pc = "wrap" /\ raw.ret = "ok"
  /\ WrapLent \/ WrapOwner \/ WrapCopy
  /\ outLen' = raw.len
  /\ Finished
  /\ UNCHANGED <<open, tap, cursor, user>>

-----------------------------------------------------------------------------
(* The frame needs no copy: it owns its pixels, or has none.               *)
InPlace(f, len) ==
  /\ \E at \in {"frame", "null"} :
       frame' = [frame EXCEPT ![f] = [st |-> "live", at |-> at, len |-> len, own |-> None]]
  /\ UNCHANGED memory

(* DrmTap::grab: one call, nothing lent, and a copy of what the context    *)
(* holds, which is what a helper without an export sent.                   *)
GrabRaw ==
  /\ tap /\ pc = "idle"
  /\ \E f \in Frames, len \in Lens :
       /\ frame[f].st = "gone"
       /\ \/ InPlace(f, len)
          \/ \E b \in Buffers :
               /\ Free(b)
               /\ frame' = [frame EXCEPT ![f] = [st |-> "live", at |-> "ctx", len |-> len,
                                                 own |-> b]]
               /\ cap' = [cap EXCEPT ![b] = len]
               /\ holds' = [holds EXCEPT ![b] = f]
               /\ inCtx' = f
  /\ UNCHANGED <<open, tap, cursor, user, spare, outLen, grabbing>>

(* DrmTap::grab_desc: the same, but a frame without a descriptor, the only *)
(* kind whose pixels are in the context, is refused.                       *)
GrabDesc ==
  /\ tap /\ pc = "idle"
  /\ \E f \in Frames, len \in Lens : frame[f].st = "gone" /\ InPlace(f, len)
  /\ UNCHANGED <<open, tap, cursor, user, spare, outLen, grabbing>>

(* DrmTap::get_cursor.                                                     *)
GetCursor ==
  /\ tap /\ pc = "idle" /\ cursor = "none"
  /\ cursor' = "live"
  /\ UNCHANGED <<open, tap, frame, memory, user, spare, outLen, grabbing>>

-----------------------------------------------------------------------------
(* Frame::drop on whatever thread: the C release, which uses the context;  *)
Release(f) ==
  /\ frame[f].st = "live"
  /\ frame' = [frame EXCEPT ![f].st = "released", ![f].at = "null", ![f].len = 0]
  /\ UNCHANGED <<open, tap, cursor, memory, user, spare, outLen, grabbing>>

(* then Ctx::keep_buffer, which frees the spare it replaces;               *)
Keep(f) ==
  /\ frame[f].st = "released" /\ frame[f].own # None
  /\ frame' = [frame EXCEPT ![f].own = None]
  /\ spare' = frame[f].own
  /\ cap' = Freed(Known(spare)) /\ holds' = Forgotten(Known(spare))
  /\ UNCHANGED <<open, tap, cursor, inCtx, user, outLen, grabbing>>

(* then the fields, the Arc among them.                                    *)
Dropped(f) ==
  /\ frame[f].st = "released" /\ frame[f].own = None
  /\ frame' = [frame EXCEPT ![f] = NoFrame]
  /\ Unref(frame', cursor, tap)
  /\ Buried({f})
  /\ UNCHANGED <<tap, cursor, user, outLen, grabbing>>

(* Cursor::drop.                                                           *)
CursorRelease ==
  /\ cursor = "live" /\ cursor' = "released"
  /\ UNCHANGED <<open, tap, frame, memory, user, spare, outLen, grabbing>>

CursorDropped ==
  /\ cursor = "released" /\ cursor' = "none"
  /\ Unref(frame, "none", tap)
  /\ Buried({})
  /\ UNCHANGED <<tap, frame, user, outLen, grabbing>>

-----------------------------------------------------------------------------
Init ==
  /\ open = FALSE /\ tap = FALSE /\ cursor = "none"
  /\ frame = [f \in Frames |-> NoFrame]
  /\ cap = [b \in Buffers |-> 0] /\ holds = [b \in Buffers |-> None]
  /\ inCtx = None /\ user = None /\ spare = None /\ outLen = 0
  /\ pc = "idle" /\ now = None /\ buf = None /\ raw = NoRaw

Next == \/ Open \/ DropTap
        \/ Lend \/ Call \/ Again \/ Failed \/ Wrap \/ GrabRaw \/ GrabDesc \/ GetCursor
        \/ \E f \in Frames : Release(f) \/ Keep(f) \/ Dropped(f)
        \/ CursorRelease \/ CursorDropped

Spec == Init /\ [][Next]_vars

-----------------------------------------------------------------------------
(* The pixels Frame::data returns are the frame's own, however many frames *)
(* are alive and whichever thread drops the others: they are in its        *)
(* mapping, or in a buffer that is allocated, long enough for the slice    *)
(* and written for no other frame since.                                   *)
PixelsAreItsOwn ==
  \A f \in Frames : frame[f].st = "live" =>
    IF frame[f].own = None THEN frame[f].at \in {"frame", "null"}
    ELSE /\ cap[frame[f].own] >= frame[f].len
         /\ holds[frame[f].own] = f
         /\ frame[f].own \notin {spare, user}

(* The context outlives every frame and cursor, so that no release runs on *)
(* a closed one, and it is closed with the last of them; it never points   *)
(* at a buffer but during the grab that lent it.                           *)
ContextOutlives ==
  /\ open <=> tap \/ cursor # "none" \/ \E f \in Frames : frame[f].st # "gone"
  /\ user # None => pc = "call" /\ user = buf /\ cap[user] > 0
=============================================================================
