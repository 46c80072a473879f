----------------------- MODULE WrapperAndPixelProofs -----------------------
(* Theorems about two components that share no state: the Rust wrapper     *)
(* (RustTap) and the pixel arithmetic (PixelConvert).                      *)
(*                                                                         *)
(* The two properties of RustTap are not inductive: they need to know that *)
(* no two owners share a buffer, that a buffer with an owner is allocated, *)
(* and what the result of the grab in progress says about the buffer it    *)
(* lent.                                                                   *)
(*                                                                         *)
(* Those of PixelConvert speak of one call, so every step proves them      *)
(* anew; what they need are facts about quotients and remainders, about    *)
(* tiles, and about the order of the members of a finite set.              *)
EXTENDS RustTap, PixelConvert, FiniteSetTheorems, FunctionTheorems, TLAPS

TypeOK ==
  /\ open \in BOOLEAN /\ tap \in BOOLEAN
  /\ cursor \in {"none", "live", "released"}
  /\ frame \in [Frames -> [st : {"gone", "live", "released"}, at : Places, len : Nat,
                           own : Buffers \cup {None}]]
  /\ cap \in [Buffers -> Nat]
  /\ holds \in [Buffers -> Frames \cup {None}]
  /\ inCtx \in Frames \cup {None}
  /\ user \in Buffers \cup {None}
  /\ spare \in Buffers \cup {None}
  /\ buf \in Buffers \cup {None}
  /\ outLen \in Nat
  /\ pc \in {"idle", "call", "again", "wrap"}
  /\ now \in Frames \cup {None}
  /\ raw \in [ret : {"none", "ok", "error", "ENOSPC"}, at : Places, len : Nat]

(* No buffer has two owners: a frame, the spare, the grab in progress.     *)
OneOwner ==
  /\ \A f \in Frames : frame[f].own # None => frame[f].own \notin {spare, buf}
  /\ \A f, g \in Frames : f # g /\ frame[f].own # None => frame[f].own # frame[g].own
  /\ spare # None => spare # buf

(* What has an owner is allocated.                                         *)
Allocated ==
  /\ \A f \in Frames : frame[f].own # None => cap[frame[f].own] > 0
  /\ spare # None => cap[spare] > 0
  /\ buf # None => cap[buf] > 0

(* A frame is one of the wrapper's stages: gone without a buffer, live     *)
(* with its pixels.                                                        *)
FrameOK(f) ==
  /\ frame[f].st = "gone" => frame[f].own = None
  /\ frame[f].st = "live" =>
       IF frame[f].own = None THEN frame[f].at \in {"frame", "null"}
       ELSE cap[frame[f].own] >= frame[f].len /\ holds[frame[f].own] = f

(* The grab in progress: its frame is nobody else's, and its result is     *)
(* where it says.                                                          *)
GrabOK ==
  /\ pc = "idle" => buf = None /\ raw = NoRaw
  /\ pc # "idle" => tap /\ now \in Frames /\ frame[now].st = "gone"
  /\ user = IF pc = "call" THEN buf ELSE None
  /\ raw.ret = "ok" => raw.len > 0
  /\ raw.at = "lent" => buf # None /\ cap[buf] >= raw.len /\ holds[buf] = now
  /\ raw.at = "ctx" => inCtx = now

ContextOK == open <=> Held(frame, cursor, tap)

Inv == /\ TypeOK /\ OneOwner /\ Allocated /\ (\A f \in Frames : FrameOK(f))
       /\ GrabOK /\ ContextOK

USE TapAssumption

(* DrmTap::open: a new context, owned by its tap alone.                    *)
LEMMA OpenInv == ASSUME Inv, Open
  PROVE  Inv'
<1> USE DEF Inv, Open, memory, grabbing
<1>1. TypeOK'
  BY DEF TypeOK
<1>2. OneOwner'
  BY DEF OneOwner
<1>3. Allocated'
  BY DEF Allocated
<1>4. (\A f \in Frames : FrameOK(f))'
  BY DEF FrameOK
<1>5. GrabOK'
  BY DEF GrabOK
<1>6. ContextOK'
  BY DEF ContextOK, Held
<1> QED
  BY <1>1, <1>2, <1>3, <1>4, <1>5, <1>6

(* The tap goes; the context and the spare with it when it was the last.   *)
LEMMA DropTapInv == ASSUME Inv, DropTap
  PROVE  Inv'
<1> USE DEF Inv, DropTap, Unref, Buried, Held, grabbing, Known, Freed
<1>1. TypeOK'
  BY DEF TypeOK
<1>2. OneOwner'
  BY DEF OneOwner
<1>3. Allocated'
  BY DEF TypeOK, OneOwner, Allocated
<1>4. (\A f \in Frames : FrameOK(f))'
  BY DEF TypeOK, OneOwner, FrameOK
<1>5. GrabOK'
  BY DEF GrabOK, NoRaw
<1>6. ContextOK'
  BY DEF ContextOK
<1> QED
  BY <1>1, <1>2, <1>3, <1>4, <1>5, <1>6

(* take_buffer: the buffer lent is the spare or a new one, so that no      *)
(* frame has it.                                                           *)
LEMMA LendInv == ASSUME Inv, Lend
  PROVE  Inv'
<1> USE DEF Inv, Lend, TakeBuffer, Fits, memory, Known, Free, Freed, Forgotten
<1>0. /\ cap' \in [Buffers -> Nat] /\ holds' \in [Buffers -> Frames \cup {None}]
      /\ \A x \in Buffers \ {spare} : cap[x] > 0 => cap'[x] = cap[x] /\ holds'[x] = holds[x]
      /\ buf' = None \/ (buf' \in Buffers /\ cap'[buf'] > 0)
  <2>1. CASE outLen = 0
    BY <2>1 DEF TypeOK, GrabOK
  <2>2. CASE outLen > 0
    <3>1. PICK b \in Buffers : TakeBuffer(b) /\ buf' = b /\ user' = b
      BY <2>2 DEF TypeOK
    <3>2. CASE Fits
      BY <2>2, <3>1, <3>2 DEF TypeOK
    <3>3. CASE ~Fits
      <4>1. /\ Freed(Known(spare)) \in [Buffers -> Nat]
            /\ holds' \in [Buffers -> Frames \cup {None}]
        BY <3>1, <3>3 DEF TypeOK
      <4>2. cap' = [Freed(Known(spare)) EXCEPT ![b] = outLen] /\ cap[b] = 0
        BY <3>1, <3>3
      <4> QED
        BY <2>2, <3>1, <3>3, <4>1, <4>2 DEF TypeOK
    <3> QED
      BY <3>2, <3>3
  <2> QED
    BY <2>1, <2>2 DEF TypeOK
<1>1. TypeOK'
  BY <1>0 DEF TypeOK, Places, NoRaw
<1>2. OneOwner'
  BY DEF OneOwner, Allocated
<1>3. Allocated'
  <2>1. spare' = None \/ UNCHANGED <<buf, cap, spare>>
    BY DEF TypeOK
  <2>2. CASE UNCHANGED <<buf, cap, spare>>
    BY <2>2 DEF Allocated
  <2>3. CASE spare' = None
    BY <1>0, <2>3 DEF TypeOK, OneOwner, Allocated
  <2> QED
    BY <2>1, <2>2, <2>3
<1>4. (\A f \in Frames : FrameOK(f))'
  BY <1>0 DEF TypeOK, OneOwner, FrameOK
<1>5. GrabOK'
  BY DEF GrabOK, NoRaw
<1>6. ContextOK'
  BY DEF ContextOK
<1> QED
  BY <1>1, <1>2, <1>3, <1>4, <1>5, <1>6

(* What the first call wrote is in the buffer that was lent, in the        *)
(* context or in the frame's own mapping.                                  *)
LEMMA CallInv == ASSUME Inv, Call
  PROVE  Inv'
<1> USE DEF Inv, Call, Captured, Lens, memory
<1>1. TypeOK'
  BY DEF TypeOK, Places
<1>2. OneOwner'
  BY DEF OneOwner
<1>3. Allocated'
  BY DEF Allocated
<1>4. (\A f \in Frames : FrameOK(f))'
  BY DEF TypeOK, OneOwner, GrabOK, FrameOK
<1>5. GrabOK'
  BY DEF TypeOK, GrabOK
<1>6. ContextOK'
  BY DEF ContextOK
<1> QED
  BY <1>1, <1>2, <1>3, <1>4, <1>5, <1>6

(* The second call cannot write into the buffer: nothing is lent.          *)
LEMMA AgainInv == ASSUME Inv, Again
  PROVE  Inv'
<1> USE DEF Inv, Again, Captured, Lens, memory
<1>1. TypeOK'
  BY DEF TypeOK, Places
<1>2. OneOwner'
  BY DEF OneOwner
<1>3. Allocated'
  BY DEF Allocated
<1>4. (\A f \in Frames : FrameOK(f))'
  BY DEF GrabOK, FrameOK
<1>5. GrabOK'
  BY DEF GrabOK
<1>6. ContextOK'
  BY DEF ContextOK
<1> QED
  BY <1>1, <1>2, <1>3, <1>4, <1>5, <1>6

(* A failed grab frees a buffer nobody else has.                           *)
LEMMA FailedInv == ASSUME Inv, Failed
  PROVE  Inv'
<1> USE DEF Inv, Failed, Finished, Known, Freed, Forgotten
<1>1. TypeOK'
  BY DEF TypeOK, Places, NoRaw
<1>2. OneOwner'
  BY DEF OneOwner
<1>3. Allocated'
  BY DEF TypeOK, OneOwner, Allocated
<1>4. (\A f \in Frames : FrameOK(f))'
  BY DEF TypeOK, OneOwner, FrameOK
<1>5. GrabOK'
  BY DEF GrabOK, NoRaw
<1>6. ContextOK'
  BY DEF ContextOK
<1> QED
  BY <1>1, <1>2, <1>3, <1>4, <1>5, <1>6

(* Each kind of result gives the frame a buffer that nobody else has, or   *)
(* none.                                                                   *)
LEMMA WrapInv == ASSUME Inv, Wrap
  PROVE  Inv'
<1> DEFINE own == frame'[now].own
<1>1. /\ UNCHANGED <<open, tap, cursor, user, inCtx>>
      /\ pc = "wrap" /\ pc' = "idle" /\ now' = None /\ buf' = None /\ raw' = NoRaw
      /\ outLen' = raw.len /\ outLen' \in Nat
      /\ now \in Frames /\ frame[now].st = "gone" /\ frame[now].own = None
  BY DEF Wrap, WrapLent, WrapOwner, WrapCopy, memory, Finished, Inv, TypeOK, GrabOK, FrameOK
<1>2. /\ own \in Buffers \cup {None}
      /\ frame' = [frame EXCEPT ![now] = [st |-> "live", at |-> raw.at, len |-> raw.len,
                                         own |-> own]]
      /\ cap' \in [Buffers -> Nat] /\ holds' \in [Buffers -> Frames \cup {None}]
      /\ spare' \in {None, buf, spare}
      /\ own # None => /\ own # spare' /\ cap'[own] > 0 /\ cap'[own] >= raw.len
                       /\ holds'[own] = now
                       /\ own = buf \/ cap[own] = 0
      /\ own = None => raw.at \in {"frame", "null"}
      /\ spare' # None => cap'[spare'] > 0
      /\ \A x \in Buffers : cap[x] > 0 /\ x # buf /\ (x # spare \/ spare' = spare)
                            => cap'[x] = cap[x] /\ holds'[x] = holds[x]
  <2>1. raw.len > 0
    BY DEF Wrap, Inv, GrabOK
  <2>2. CASE WrapLent
    <3>1. frame' = [frame EXCEPT ![now] = [st |-> "live", at |-> raw.at, len |-> raw.len,
                                          own |-> buf]]
      BY <2>2 DEF WrapLent, Wrapped
    <3>2. own = buf
      BY <1>1, <3>1 DEF Inv, TypeOK
    <3> QED
      BY <2>1, <2>2, <3>1, <3>2
      DEF WrapLent, memory, Inv, TypeOK, OneOwner, Allocated, GrabOK
  <2>3. CASE WrapOwner
    <3>1. frame' = [frame EXCEPT ![now] = [st |-> "live", at |-> raw.at, len |-> raw.len,
                                          own |-> None]]
      BY <2>3 DEF WrapOwner, Wrapped
    <3>2. own = None
      BY <1>1, <3>1 DEF TypeOK
    <3>3. CASE buf = None
      BY <2>3, <3>1, <3>2, <3>3
      DEF WrapOwner, OwnsData, memory, Inv, TypeOK, Allocated
    <3>4. CASE buf # None
      <4>1. spare' = buf /\ cap' = Freed(Known(spare)) /\ holds' = Forgotten(Known(spare))
        BY <2>3, <3>4 DEF WrapOwner
      <4>2. /\ cap' \in [Buffers -> Nat] /\ holds' \in [Buffers -> Frames \cup {None}]
            /\ \A x \in Buffers \ {spare} : cap'[x] = cap[x] /\ holds'[x] = holds[x]
        BY <4>1 DEF Freed, Forgotten, Known, Inv, TypeOK
      <4>3. cap'[spare'] > 0 /\ spare' # spare
        BY <3>4, <4>1, <4>2 DEF Inv, TypeOK, OneOwner, Allocated
      <4>4. raw.at \in {"frame", "null"}
        BY <2>3 DEF WrapOwner, OwnsData
      <4> QED
        BY <3>1, <3>2, <4>1, <4>2, <4>3, <4>4
    <3> QED
      BY <3>3, <3>4
  <2>4. CASE WrapCopy
    <3>1. PICK b \in Buffers :
            /\ CopyInto(b)
            /\ Wrapped(b)
            /\ cap' = [Freed(Known(buf) \ {b}) EXCEPT
                         ![b] = IF b = buf THEN cap[b] ELSE raw.len]
            /\ holds' = [Forgotten(Known(buf)) EXCEPT ![b] = inCtx]
      BY <2>4 DEF WrapCopy
    <3>2. own = b
      BY <1>1, <3>1 DEF Wrapped, Inv, TypeOK
    <3>3. inCtx = now /\ raw.len \in Nat
      BY <2>4 DEF WrapCopy, Inv, GrabOK, TypeOK
    <3>4. Freed(Known(buf) \ {b}) \in [Buffers -> Nat]
      BY DEF Freed, Inv, TypeOK
    <3>5. Forgotten(Known(buf)) \in [Buffers -> Frames \cup {None}]
      BY DEF Forgotten, Inv, TypeOK
    <3>6. /\ cap' \in [Buffers -> Nat] /\ holds' \in [Buffers -> Frames \cup {None}]
          /\ cap'[b] = IF b = buf THEN cap[b] ELSE raw.len
          /\ holds'[b] = now
          /\ \A x \in Buffers \ {b, buf} : cap'[x] = cap[x] /\ holds'[x] = holds[x]
      BY <1>1, <3>1, <3>3, <3>4, <3>5 DEF Freed, Forgotten, Known
    <3>7. IF b = buf THEN cap[b] >= raw.len ELSE cap[b] = 0
      BY <3>1 DEF CopyInto, Free, Inv, Allocated
    <3>8. spare' = spare
      BY <2>4 DEF WrapCopy
    <3>9. spare = None \/ (b # spare /\ spare # buf)
      BY <3>7 DEF Inv, OneOwner, Allocated
    <3>10. cap'[b] > 0 /\ cap'[b] >= raw.len
      BY <2>1, <3>3, <3>6, <3>7 DEF TypeOK
    <3>11. \A x \in Buffers : cap[x] > 0 /\ x # buf => x # b
      BY <3>7
    <3>12. spare' # None => cap'[spare'] > 0
      BY <3>6, <3>8, <3>9 DEF Inv, TypeOK, Allocated
    <3> QED
      BY <3>1, <3>2, <3>6, <3>7, <3>8, <3>9, <3>10, <3>11, <3>12, ZenonT(60)
      DEF Wrapped
  <2> QED
    BY <2>2, <2>3, <2>4 DEF Wrap
<1> HIDE DEF own
<1>3. TypeOK'
  BY <1>1, <1>2 DEF Inv, TypeOK, Places, NoRaw
<1>4. OneOwner'
  <2>1. \A g \in Frames \ {now} : frame'[g] = frame[g]
    BY <1>2
  <2>2. frame'[now].own = own
    BY DEF own
  <2>3. \A g \in Frames \ {now} : frame[g].own # None => frame[g].own # own
    BY <1>1, <1>2 DEF Inv, OneOwner, Allocated
  <2> QED
    BY <1>1, <1>2, <2>1, <2>2, <2>3 DEF Inv, OneOwner
<1>5. Allocated'
  <2>1. \A g \in Frames \ {now} : frame'[g] = frame[g]
    BY <1>2
  <2>2. frame'[now].own = own
    BY DEF own
  <2> QED
    BY <1>1, <1>2, <2>1, <2>2 DEF Inv, TypeOK, OneOwner, Allocated
<1>6. (\A f \in Frames : FrameOK(f))'
  <2>1. ASSUME NEW f \in Frames, f # now PROVE FrameOK(f)'
    <3>1. frame'[f] = frame[f]
      BY <1>2, <2>1
    <3> QED
      BY <1>1, <1>2, <3>1 DEF Inv, TypeOK, OneOwner, Allocated, FrameOK
  <2>2. ASSUME NEW f \in Frames, f = now PROVE FrameOK(f)'
    <3>1. frame'[now] = [st |-> "live", at |-> raw.at, len |-> raw.len, own |-> own]
      BY <1>1, <1>2 DEF Inv, TypeOK
    <3> QED
      BY <1>2, <2>2, <3>1 DEF FrameOK
  <2> QED
    BY <2>1, <2>2
<1>7. GrabOK'
  BY <1>1 DEF Inv, GrabOK, NoRaw
<1>8. ContextOK'
  BY <1>1, <1>2 DEF Inv, ContextOK, Held, GrabOK
<1> QED
  BY <1>3, <1>4, <1>5, <1>6, <1>7, <1>8 DEF Inv

(* A copy goes into a new buffer.                                          *)
LEMMA GrabRawInv == ASSUME Inv, GrabRaw
  PROVE  Inv'
<1> USE DEF Inv, GrabRaw, InPlace, Lens, memory, grabbing, Free
<1>1. TypeOK'
  BY DEF TypeOK, Places
<1>2. OneOwner'
  BY DEF TypeOK, OneOwner, Allocated
<1>3. Allocated'
  BY DEF TypeOK, Allocated
<1>4. (\A f \in Frames : FrameOK(f))'
  BY DEF TypeOK, Allocated, FrameOK
<1>5. GrabOK'
  BY DEF GrabOK, NoRaw
<1>6. ContextOK'
  BY DEF ContextOK, Held
<1> QED
  BY <1>1, <1>2, <1>3, <1>4, <1>5, <1>6

(* A described frame has no buffer.                                        *)
LEMMA GrabDescInv == ASSUME Inv, GrabDesc
  PROVE  Inv'
<1> USE DEF Inv, GrabDesc, InPlace, Lens, memory, grabbing
<1>1. TypeOK'
  BY DEF TypeOK, Places
<1>2. OneOwner'
  BY DEF OneOwner
<1>3. Allocated'
  BY DEF Allocated
<1>4. (\A f \in Frames : FrameOK(f))'
  BY DEF FrameOK
<1>5. GrabOK'
  BY DEF GrabOK
<1>6. ContextOK'
  BY DEF ContextOK, Held
<1> QED
  BY <1>1, <1>2, <1>3, <1>4, <1>5, <1>6

(* A cursor holds the context.                                             *)
LEMMA GetCursorInv == ASSUME Inv, GetCursor
  PROVE  Inv'
<1> USE DEF Inv, GetCursor, memory, grabbing
<1>1. TypeOK'
  BY DEF TypeOK
<1>2. OneOwner'
  BY DEF OneOwner
<1>3. Allocated'
  BY DEF Allocated
<1>4. (\A f \in Frames : FrameOK(f))'
  BY DEF FrameOK
<1>5. GrabOK'
  BY DEF GrabOK
<1>6. ContextOK'
  BY DEF ContextOK, Held
<1> QED
  BY <1>1, <1>2, <1>3, <1>4, <1>5, <1>6

(* The C release leaves the buffer with the frame.                         *)
LEMMA ReleaseInv == ASSUME Inv, NEW f \in Frames, Release(f)
  PROVE  Inv'
<1> USE DEF Inv, Release, memory, grabbing
<1>1. TypeOK'
  <2>1. frame'[f] = [st |-> "released", at |-> "null", len |-> 0, own |-> frame[f].own]
    BY ZenonT(60) DEF TypeOK
  <2> QED
    BY <2>1 DEF TypeOK
<1>2. OneOwner'
  BY DEF TypeOK, OneOwner
<1>3. Allocated'
  BY DEF TypeOK, Allocated
<1>4. (\A g \in Frames : FrameOK(g))'
  BY DEF TypeOK, FrameOK
<1>5. GrabOK'
  BY DEF TypeOK, GrabOK
<1>6. ContextOK'
  BY DEF TypeOK, ContextOK, Held
<1> QED
  BY <1>1, <1>2, <1>3, <1>4, <1>5, <1>6

(* keep_buffer: the buffer moves from the frame to the spare, and the old  *)
(* spare, which was nobody else's, is freed.                               *)
LEMMA KeepInv == ASSUME Inv, NEW f \in Frames, Keep(f)
  PROVE  Inv'
<1> USE DEF Inv, Keep, grabbing, Known, Freed, Forgotten
<1>1. TypeOK'
  <2>1. frame'[f] = [st |-> frame[f].st, at |-> frame[f].at, len |-> frame[f].len, own |-> None]
    BY DEF TypeOK
  <2>2. spare' \in Buffers \cup {None}
    BY DEF TypeOK
  <2> QED
    BY <2>1, <2>2 DEF TypeOK
<1>2. OneOwner'
  BY DEF TypeOK, OneOwner
<1>3. Allocated'
  BY DEF TypeOK, OneOwner, Allocated
<1>4. (\A g \in Frames : FrameOK(g))'
  BY DEF TypeOK, OneOwner, FrameOK
<1>5. GrabOK'
  BY DEF TypeOK, OneOwner, GrabOK
<1>6. ContextOK'
  BY DEF ContextOK, Held
<1> QED
  BY <1>1, <1>2, <1>3, <1>4, <1>5, <1>6

(* The last of a frame: a grab in progress keeps the context open, and     *)
(* its pixels are not those of the frame that goes.                        *)
LEMMA DroppedInv == ASSUME Inv, NEW f \in Frames, Dropped(f)
  PROVE  Inv'
<1> USE DEF Inv, Dropped, Unref, Buried, Held, grabbing, Known, Freed
<1>1. TypeOK'
  BY DEF TypeOK, Places, NoFrame
<1>2. OneOwner'
  BY DEF OneOwner, NoFrame
<1>3. Allocated'
  BY DEF TypeOK, OneOwner, Allocated, NoFrame
<1>4. (\A g \in Frames : FrameOK(g))'
  BY DEF TypeOK, OneOwner, FrameOK, NoFrame
<1>5. GrabOK'
  <2>1. UNCHANGED <<tap, user, pc, now, buf, raw>>
    OBVIOUS
  <2>2. CASE pc = "idle"
    BY <2>1, <2>2 DEF GrabOK, NoRaw
  <2>3. CASE pc # "idle"
    <3>1. /\ open' /\ cap' = cap
          /\ \A x \in Buffers : holds[x] \notin {f} => holds'[x] = holds[x]
          /\ inCtx \notin {f} => inCtx' = inCtx
      BY <2>3 DEF TypeOK, GrabOK, ContextOK
    <3>2. now \in Frames \ {f} /\ frame'[now] = frame[now]
      BY <2>3 DEF GrabOK
    <3> QED
      BY <2>1, <3>1, <3>2 DEF TypeOK, GrabOK
  <2> QED
    BY <2>2, <2>3
<1>6. ContextOK'
  BY DEF ContextOK
<1> QED
  BY <1>1, <1>2, <1>3, <1>4, <1>5, <1>6

(* drmtap_cursor_release leaves the context held.                          *)
LEMMA CursorReleaseInv == ASSUME Inv, CursorRelease
  PROVE  Inv'
<1> USE DEF Inv, CursorRelease, memory, grabbing
<1>1. TypeOK'
  BY DEF TypeOK
<1>2. OneOwner'
  BY DEF OneOwner
<1>3. Allocated'
  BY DEF Allocated
<1>4. (\A f \in Frames : FrameOK(f))'
  BY DEF FrameOK
<1>5. GrabOK'
  BY DEF GrabOK
<1>6. ContextOK'
  BY DEF ContextOK, Held
<1> QED
  BY <1>1, <1>2, <1>3, <1>4, <1>5, <1>6

(* The same for a cursor.                                                  *)
LEMMA CursorDroppedInv == ASSUME Inv, CursorDropped
  PROVE  Inv'
<1> USE DEF Inv, CursorDropped, Unref, Buried, Held, grabbing, Known, Freed
<1>1. TypeOK'
  BY DEF TypeOK
<1>2. OneOwner'
  BY DEF OneOwner
<1>3. Allocated'
  BY DEF TypeOK, OneOwner, Allocated
<1>4. (\A f \in Frames : FrameOK(f))'
  BY DEF TypeOK, OneOwner, FrameOK
<1>5. GrabOK'
  <2>1. UNCHANGED <<tap, user, pc, now, buf, raw>>
    OBVIOUS
  <2>2. CASE pc = "idle"
    BY <2>1, <2>2 DEF GrabOK, NoRaw
  <2>3. CASE pc # "idle"
    <3>1. /\ open' /\ cap' = cap
          /\ \A x \in Buffers : holds[x] \notin {} => holds'[x] = holds[x]
          /\ inCtx \notin {} => inCtx' = inCtx
      BY <2>3 DEF TypeOK, GrabOK, ContextOK
    <3>2. now \in Frames \ {} /\ frame'[now] = frame[now]
      BY <2>3 DEF GrabOK
    <3> QED
      BY <2>1, <3>1, <3>2 DEF TypeOK, GrabOK
  <2> QED
    BY <2>2, <2>3
<1>6. ContextOK'
  BY DEF ContextOK
<1> QED
  BY <1>1, <1>2, <1>3, <1>4, <1>5, <1>6

(* The wrapper's invariant: initially nothing is open, and every step of   *)
(* the tap's thread and of a drop on any other keeps it.                   *)
LEMMA InitInv == Init => Inv
<1> SUFFICES ASSUME Init PROVE Inv
  OBVIOUS
<1>1. NoFrame \in [st : {"gone", "live", "released"}, at : Places, len : Nat,
                   own : Buffers \cup {None}]
  BY DEF NoFrame, Places
<1>2. TypeOK
  BY <1>1 DEF Init, TypeOK, NoRaw, Places
<1> QED
  BY <1>2 DEF Init, Inv, OneOwner, Allocated, FrameOK, GrabOK, ContextOK, Held, NoFrame, NoRaw

LEMMA NextInv == Inv /\ [Next]_vars => Inv'
<1> SUFFICES ASSUME Inv, [Next]_vars PROVE Inv'
  OBVIOUS
<1>1. CASE Open \/ DropTap \/ GetCursor \/ CursorRelease \/ CursorDropped
  BY <1>1, OpenInv, DropTapInv, GetCursorInv, CursorReleaseInv, CursorDroppedInv
<1>2. CASE Lend \/ Call \/ Again \/ Failed \/ Wrap \/ GrabRaw \/ GrabDesc
  BY <1>2, LendInv, CallInv, AgainInv, FailedInv, WrapInv, GrabRawInv, GrabDescInv
<1>3. ASSUME NEW f \in Frames, Release(f) \/ Keep(f) \/ Dropped(f) PROVE Inv'
  BY <1>3, ReleaseInv, KeepInv, DroppedInv
<1>4. CASE UNCHANGED vars
  <2>1. UNCHANGED <<open, tap, cursor, frame, cap, holds, inCtx, user, spare, outLen, pc, now,
                    buf, raw>>
    BY <1>4 DEF vars, memory, grabbing
  <2> QED
    BY <2>1 DEF Inv, TypeOK, OneOwner, Allocated, FrameOK, GrabOK, ContextOK
<1> QED
  BY <1>1, <1>2, <1>3, <1>4 DEF Next

(* The wrapper of lib.rs keeps its invariant through every grab and drop.   *)
THEOREM InvHolds == Spec => []Inv
BY InitInv, NextInv, PTL DEF Spec

(* Frame::data (lib.rs) never returns the pixels of another frame, freed   *)
(* memory or memory that is being written, for any number of frames held   *)
(* and dropped by any threads.                                             *)
THEOREM OwnPixels == Spec => []PixelsAreItsOwn
<1>1. Inv => PixelsAreItsOwn
  <2> SUFFICES ASSUME Inv, NEW f \in Frames, frame[f].st = "live", frame[f].own # None
               PROVE  /\ cap[frame[f].own] >= frame[f].len
                      /\ holds[frame[f].own] = f
                      /\ frame[f].own \notin {spare, user}
    BY DEF PixelsAreItsOwn, Inv, FrameOK
  <2>1. cap[frame[f].own] >= frame[f].len /\ holds[frame[f].own] = f
    BY DEF Inv, FrameOK
  <2>2. frame[f].own \notin {spare, buf} /\ user \in {buf, None}
    BY DEF Inv, OneOwner, GrabOK
  <2> QED
    BY <2>1, <2>2
<1> QED
  BY <1>1, InvHolds, PTL

(* Ctx::drop (lib.rs) runs once, after the last frame, cursor and tap, and *)
(* the C context never keeps the pointer to a buffer after the call.       *)
THEOREM ContextLivesLongEnough == Spec => []ContextOutlives
<1>1. Inv => ContextOutlives
  BY DEF Inv, ContextOK, Held, ContextOutlives, GrabOK, Allocated
<1> QED
  BY <1>1, InvHolds, PTL

-----------------------------------------------------------------------------
(* The pixel arithmetic.                                                   *)

(* There is one quotient and one remainder.                                *)
LEMMA Quotient ==
  ASSUME NEW b \in Nat, b > 0, NEW q \in Nat, NEW r \in 0 .. b - 1
  PROVE  (b * q + r) \div b = q /\ (b * q + r) % b = r
  OBVIOUS

(* What they are.                                                          *)
LEMMA DivMod ==
  ASSUME NEW a \in Nat, NEW b \in Nat, b > 0
  PROVE  /\ a \div b \in Nat
         /\ a % b \in 0 .. b - 1
         /\ a = b * (a \div b) + (a % b)
  OBVIOUS

(* A product grows with its factors.                                       *)
LEMMA Monotone ==
  ASSUME NEW a \in Nat, NEW b \in Nat, NEW c \in Nat, a <= b
  PROVE  a * c <= b * c /\ c * a <= c * b
  OBVIOUS

(* A tile is a whole number of columns.                                    *)
LEMMA Tile ==
  /\ TileW \in Nat /\ TileW > 0
  /\ TileH \in Nat /\ TileH > 0
  /\ Oword \in Nat /\ Oword > 0
  /\ TileW = Oword * (TileW \div Oword)
  /\ TileW \div Oword \in Nat
BY TileAssumption

(* A row of whole tiles: Ceil and \div give the number it was made of.     *)
LEMMA Across ==
  ASSUME NEW m \in Nat
  PROVE  Ceil(m * TileW, TileW) = m /\ (m * TileW) \div TileW = m
<1>1. (TileW * m + (TileW - 1)) \div TileW = m BY Tile, Quotient
<1>2. (TileW * m + 0) \div TileW = m BY Tile, Quotient
<1>3. TileW * m = m * TileW BY Tile
<1> QED BY <1>1, <1>2, <1>3, Tile DEF Ceil

(* The number of a tile gives its row and its column.                      *)
LEMMA TileNumber ==
  ASSUME NEW m \in Nat, NEW x \in Nat, NEW y \in Nat, x < m * TileW
  PROVE  LET t == (y \div TileH) * m + (x \div TileW) IN
         /\ t \in Nat
         /\ m > 0 /\ x \div TileW < m
         /\ t % m = x \div TileW /\ t \div m = y \div TileH
<1> DEFINE c == x \div TileW
           r == y \div TileH
<1>1. c \in Nat /\ x % TileW \in 0 .. TileW - 1 /\ x = TileW * c + (x % TileW) BY Tile, DivMod
<1>2. r \in Nat BY Tile, DivMod
<1>3. m > 0 BY Tile
<1> HIDE DEF c, r
<1>4. c < m
  <2> SUFFICES ASSUME m <= c PROVE FALSE BY <1>1
  <2>1. TileW * m <= TileW * c BY <1>1, Tile, Monotone
  <2>2. TileW * c <= x BY <1>1, Tile
  <2> QED BY <2>1, <2>2, <1>1, Tile
<1>5. (m * r + c) \div m = r /\ (m * r + c) % m = c BY <1>1, <1>2, <1>3, <1>4, Quotient
<1>6. m * r + c = r * m + c /\ r * m + c \in Nat BY <1>1, <1>2
<1> QED BY <1>3, <1>4, <1>5, <1>6 DEF c, r

(* A position is a tile and a place in it.                                 *)
LEMMA InTile ==
  ASSUME NEW t \in Nat, NEW j \in 0 .. TileW * TileH - 1
  PROVE  LET a == t * TileW * TileH + j IN
         a \in Nat /\ a \div (TileW * TileH) = t /\ a % (TileW * TileH) = j
<1> DEFINE b == TileW * TileH
<1>1. b \in Nat /\ b > 0 BY Tile
<1>2. t * TileW * TileH = b * t BY Tile
<1> HIDE DEF b
<1>3. (b * t + j) \div b = t /\ (b * t + j) % b = j BY <1>1, Quotient DEF b
<1>4. b * t + j \in Nat BY <1>1
<1> QED BY <1>2, <1>3, <1>4 DEF b

(* The place of a pixel in an X tile: row after row.                       *)
LEMMA XPlace ==
  ASSUME NEW x \in Nat, NEW y \in Nat
  PROVE  LET j == (y % TileH) * TileW + (x % TileW) IN
         /\ j \in 0 .. TileW * TileH - 1
         /\ j % TileW = x % TileW /\ j \div TileW = y % TileH
<1> DEFINE u == x % TileW
           v == y % TileH
<1>1. u \in 0 .. TileW - 1 /\ v \in 0 .. TileH - 1 BY Tile, DivMod
<1> HIDE DEF u, v
<1>2. (TileW * v + u) % TileW = u /\ (TileW * v + u) \div TileW = v BY <1>1, Tile, Quotient
<1>3. TileW * v <= TileW * (TileH - 1) BY <1>1, Tile, Monotone
<1>4. TileW * v + u \in 0 .. TileW * TileH - 1 BY <1>1, <1>3, Tile
<1>5. v * TileW = TileW * v BY <1>1, Tile
<1> QED BY <1>2, <1>4, <1>5 DEF u, v

(* The place of a pixel in a Y tile: column after column of Oword pixels.  *)
LEMMA YPlace ==
  ASSUME NEW x \in Nat, NEW y \in Nat
  PROVE  LET t == x % TileW
             j == (t \div Oword) * Oword * TileH + (y % TileH) * Oword + (t % Oword) IN
         /\ j \in 0 .. TileW * TileH - 1
         /\ (j \div (Oword * TileH)) * Oword + (j % Oword) = t
         /\ (j % (Oword * TileH)) \div Oword = y % TileH
<1> DEFINE t == x % TileW
           c == t \div Oword
           o == t % Oword
           v == y % TileH
           n == TileW \div Oword
           col == Oword * TileH
           in == Oword * v + o
           j == col * c + in
<1>1. t \in 0 .. TileW - 1 /\ v \in 0 .. TileH - 1 BY Tile, DivMod
<1>2. c \in Nat /\ o \in 0 .. Oword - 1 /\ t = Oword * c + o BY <1>1, Tile, DivMod
<1>3. n \in Nat /\ TileW = Oword * n BY Tile
<1> HIDE DEF t, c, o, v, n
<1>4. c < n
  <2> SUFFICES ASSUME n <= c PROVE FALSE BY <1>2, <1>3
  <2>1. Oword * n <= Oword * c BY <1>2, <1>3, Tile, Monotone
  <2> QED BY <2>1, <1>1, <1>2, <1>3, Tile
<1>5. col \in Nat /\ col > 0 BY Tile
<1>6. in \in 0 .. col - 1
  <2>1. Oword * v <= Oword * (TileH - 1) BY <1>1, Tile, Monotone
  <2>2. Oword * v \in Nat BY <1>1, Tile
  <2> QED BY <2>1, <2>2, <1>1, <1>2, Tile
<1>7. in \div Oword = v /\ in % Oword = o BY <1>1, <1>2, Tile, Quotient
<1>8. j \div col = c /\ j % col = in
  <2> HIDE DEF col, in
  <2> QED BY <1>2, <1>5, <1>6, Quotient
<1>9. j % Oword = o
  <2> DEFINE k == TileH * c + v
  <2>1. k \in Nat BY <1>1, <1>2, Tile
  <2>2. j = Oword * k + o BY <1>1, <1>2, Tile
  <2> HIDE DEF k
  <2> QED BY <2>1, <2>2, <1>2, Tile, Quotient
<1>10. j \in 0 .. TileW * TileH - 1
  <2>1. col * n = TileW * TileH BY <1>3, Tile
  <2> HIDE DEF col, in
  <2>2. col * c <= col * (n - 1) /\ col * c \in Nat BY <1>2, <1>3, <1>4, <1>5, Monotone
  <2>3. col * (n - 1) = col * n - col BY <1>3, <1>5
  <2> QED BY <2>1, <2>2, <2>3, <1>5, <1>6, <1>3
<1>11. c * Oword * TileH + v * Oword + o = j
  <2>1. c * Oword * TileH = col * c BY <1>2, Tile
  <2>2. v * Oword = Oword * v BY <1>1, Tile
  <2> QED BY <2>1, <2>2, <1>1, <1>2, Tile
<1>12. c * Oword + o = t BY <1>2, Tile
<1> HIDE DEF in
<1> QED BY <1>7, <1>8, <1>9, <1>10, <1>11, <1>12 DEF t, c, o, v

(* How far the offset of a tiled pixel can be.                             *)
LEMMA TiledBound ==
  ASSUME NEW m \in Nat, NEW x \in Nat, NEW y \in Nat, x < m * TileW,
         NEW j \in 0 .. TileW * TileH - 1,
         NEW h \in Nat, y < h
  PROVE  ((y \div TileH) * m + (x \div TileW)) * TileW * TileH + j <= (h + TileH) * (m * TileW)
<1> DEFINE c == x \div TileW
           r == y \div TileH
           t == r * m + c
           b == TileW * TileH
<1>1. c \in Nat /\ m > 0 /\ c < m BY TileNumber, Tile, DivMod
<1>2. r \in Nat /\ TileH * r <= y BY Tile, DivMod
<1>3. b \in Nat /\ b > 0 BY Tile
<1> HIDE DEF c, r
<1>4. t + 1 <= (r + 1) * m /\ t \in Nat BY <1>1, <1>2
<1>5. (r + 1) * m \in Nat BY <1>2
<1>6. (t + 1) * b <= ((r + 1) * m) * b
  <2> HIDE DEF t, b
  <2> QED BY <1>3, <1>4, <1>5, Monotone
<1>7. (t + 1) * b = t * TileW * TileH + b BY <1>4, Tile
<1>8. ((r + 1) * m) * b = (TileH * (r + 1)) * (m * TileW) BY <1>2, Tile
<1>9. TileH * (r + 1) \in Nat /\ h + TileH \in Nat BY <1>2, Tile
<1>10. m * TileW \in Nat BY Tile
<1>11. TileH * (r + 1) <= h + TileH
  <2>1. TileH * (r + 1) = TileH * r + TileH BY <1>2, Tile
  <2>2. TileH * r \in Nat BY <1>2, Tile
  <2> QED BY <2>1, <2>2, <1>2, Tile
<1>12. (TileH * (r + 1)) * (m * TileW) <= (h + TileH) * (m * TileW)
  BY <1>9, <1>10, <1>11, Monotone
<1>13. t * TileW * TileH \in Nat BY <1>4, Tile
<1>14. j \in Nat /\ j < b BY Tile
<1>15. (h + TileH) * (m * TileW) \in Nat BY <1>9, <1>10
<1>16. ((r + 1) * m) * b \in Nat BY <1>3, <1>5
<1> HIDE DEF t, b
<1>17. t * TileW * TileH + j <= (h + TileH) * (m * TileW)
  BY <1>3, <1>6, <1>7, <1>8, <1>12, <1>13, <1>14, <1>15, <1>16
<1> QED BY <1>17 DEF t, c, r

(* A pixel of a row of whole tiles lies where the order of the tiles puts  *)
(* it.                                                                     *)
LEMMA TiledBack ==
  ASSUME NEW layout \in {"x", "y"}, NEW m \in Nat, NEW h \in Nat,
         NEW x \in Nat, NEW y \in Nat, x < m * TileW, y < h
  PROVE  /\ Offset(layout, <<x, y>>, m * TileW) \in 0 .. (h + TileH) * (m * TileW)
         /\ PixelAt(layout, Offset(layout, <<x, y>>, m * TileW), m * TileW) = <<x, y>>
<1> DEFINE t == (y \div TileH) * m + (x \div TileW)
           jx == (y % TileH) * TileW + (x % TileW)
           jy == ((x % TileW) \div Oword) * Oword * TileH + (y % TileH) * Oword
                    + ((x % TileW) % Oword)
           back == <<(t % m) * TileW + (x % TileW), (t \div m) * TileH + (y % TileH)>>
<1>1. /\ t \in Nat
      /\ t % m = x \div TileW /\ t \div m = y \div TileH
  BY TileNumber, ZenonT(60)
<1>2. back = <<x, y>>
  <2>1. x \div TileW \in Nat /\ x % TileW \in 0 .. TileW - 1 /\ x = TileW * (x \div TileW) + (x % TileW)
    BY Tile, DivMod
  <2>2. y \div TileH \in Nat /\ y % TileH \in 0 .. TileH - 1 /\ y = TileH * (y \div TileH) + (y % TileH)
    BY Tile, DivMod
  <2>3. (x \div TileW) * TileW = TileW * (x \div TileW) BY <2>1, Tile
  <2>4. (y \div TileH) * TileH = TileH * (y \div TileH) BY <2>2, Tile
  <2> QED BY <1>1, <2>1, <2>2, <2>3, <2>4
<1>3. TileOf(<<x, y>>, m * TileW) = t BY Across DEF TileOf
<1>4. (m * TileW) \div TileW = m BY Across
<1>5. CASE layout = "x"
  <2>1. Offset(layout, <<x, y>>, m * TileW) = t * TileW * TileH + jx
    <3>1. Offset(layout, <<x, y>>, m * TileW) = XTiled(<<x, y>>, m * TileW) BY <1>5 DEF Offset
    <3>2. XTiled(<<x, y>>, m * TileW) = TileOf(<<x, y>>, m * TileW) * TileW * TileH + (y % TileH) * TileW + (x % TileW)
      BY DEF XTiled
    <3>3. t * TileW * TileH \in Nat BY <1>1, Tile
    <3>4. y % TileH \in Nat /\ x % TileW \in Nat BY Tile, DivMod
    <3>5. (y % TileH) * TileW \in Nat BY <3>4, Tile
    <3> HIDE DEF t
    <3> QED BY <3>1, <3>2, <3>3, <3>4, <3>5, <1>3
  <2>2. jx \in 0 .. TileW * TileH - 1 /\ jx % TileW = x % TileW /\ jx \div TileW = y % TileH
    BY XPlace
  <2> DEFINE a == t * TileW * TileH + jx
  <2>3. a \in Nat /\ a \div (TileW * TileH) = t /\ a % (TileW * TileH) = jx
    <3> HIDE DEF t, jx
    <3> QED BY <1>1, <2>2, InTile
  <2>4. a <= (h + TileH) * (m * TileW)
    <3> HIDE DEF jx
    <3> QED BY <2>2, TiledBound
  <2>5. (h + TileH) * (m * TileW) \in Nat BY Tile
  <2> HIDE DEF t, jx, a
  <2>6. PixelAt(layout, a, m * TileW) = <<(t % m) * TileW + (jx % TileW), (t \div m) * TileH + (jx \div TileW)>>
    BY <1>4, <1>5, <2>3 DEF PixelAt
  <2>7. a \in 0 .. (h + TileH) * (m * TileW) BY <2>3, <2>4, <2>5
  <2>8. PixelAt(layout, a, m * TileW) = <<x, y>> BY <2>6, <2>2, <1>2
  <2>9. Offset(layout, <<x, y>>, m * TileW) = a BY <2>1 DEF a
  <2> QED BY <2>7, <2>8, <2>9
<1>6. CASE layout = "y"
  <2>1. Offset(layout, <<x, y>>, m * TileW) = t * TileW * TileH + jy
    <3>1. Offset(layout, <<x, y>>, m * TileW) = YTiled(<<x, y>>, m * TileW) BY <1>6 DEF Offset
    <3>2. YTiled(<<x, y>>, m * TileW)
            = TileOf(<<x, y>>, m * TileW) * TileW * TileH + ((x % TileW) \div Oword) * Oword * TileH
                + (y % TileH) * Oword + ((x % TileW) % Oword)
      BY DEF YTiled
    <3>3. t * TileW * TileH \in Nat BY <1>1, Tile
    <3>4. y % TileH \in Nat /\ x % TileW \in Nat BY Tile, DivMod
    <3>5. (x % TileW) \div Oword \in Nat /\ (x % TileW) % Oword \in Nat BY <3>4, Tile, DivMod
    <3>6. ((x % TileW) \div Oword) * Oword * TileH \in Nat /\ (y % TileH) * Oword \in Nat
      BY <3>4, <3>5, Tile
    <3> HIDE DEF t
    <3> QED BY <3>1, <3>2, <3>3, <3>5, <3>6, <1>3
  <2>2. /\ jy \in 0 .. TileW * TileH - 1
        /\ (jy \div (Oword * TileH)) * Oword + (jy % Oword) = x % TileW
        /\ (jy % (Oword * TileH)) \div Oword = y % TileH
    BY YPlace
  <2> DEFINE a == t * TileW * TileH + jy
  <2>3. a \in Nat /\ a \div (TileW * TileH) = t /\ a % (TileW * TileH) = jy
    <3> HIDE DEF t, jy
    <3> QED BY <1>1, <2>2, InTile
  <2>4. a <= (h + TileH) * (m * TileW)
    <3> HIDE DEF jy
    <3> QED BY <2>2, TiledBound
  <2>5. (h + TileH) * (m * TileW) \in Nat BY Tile
  <2> HIDE DEF t, jy, a
  <2>6. PixelAt(layout, a, m * TileW)
          = <<(t % m) * TileW + ((jy \div (Oword * TileH)) * Oword + (jy % Oword)),
              (t \div m) * TileH + ((jy % (Oword * TileH)) \div Oword)>>
    BY <1>4, <1>6, <2>3 DEF PixelAt
  <2>7. a \in 0 .. (h + TileH) * (m * TileW) BY <2>3, <2>4, <2>5
  <2>8. PixelAt(layout, a, m * TileW) = <<x, y>> BY <2>6, <2>2, <1>2
  <2>9. Offset(layout, <<x, y>>, m * TileW) = a BY <2>1 DEF a
  <2> QED BY <2>7, <2>8, <2>9
<1> QED BY <1>5, <1>6

(* What a pixel of a tiled source decodes to.                              *)
LEMMA TiledDecoded ==
  ASSUME NEW layout \in {"x", "y"}, NEW w \in Nat, NEW h \in Nat, NEW stride \in Nat,
         \E m \in Nat : stride = m * TileW, w <= stride, NEW size \in Nat,
         NEW p \in Frame(w, h)
  PROVE  LET v == IF Backed(layout, p, w, stride, size) THEN Offset(layout, p, stride) ELSE Zero IN
         IF v = Zero
         THEN \E a \in size .. (h + TileH) * stride : PixelAt(layout, a, stride) = p
         ELSE v \in 0 .. size - 1 /\ PixelAt(layout, v, stride) = p
<1>1. PICK x \in 0 .. w - 1, y \in 0 .. h - 1 : p = <<x, y>> BY DEF Frame
<1> PICK m \in Nat : stride = m * TileW OBVIOUS
<1>2. x \in Nat /\ y \in Nat /\ x < m * TileW /\ y < h BY Tile
<1> DEFINE o == Offset(layout, p, stride)
           top == (h + TileH) * stride
<1>3. o \in 0 .. top /\ PixelAt(layout, o, stride) = p BY <1>1, <1>2, TiledBack
<1>4. top \in Nat BY Tile
<1>5. Backed(layout, p, w, stride, size) <=> o + 1 <= size BY DEF Backed, Tiled
<1> HIDE DEF o, top
<1>6. CASE o + 1 <= size
  <2>1. o # Zero /\ o \in 0 .. size - 1 BY <1>3, <1>4, <1>6 DEF Zero
  <2> QED BY <1>3, <1>5, <1>6, <2>1 DEF o
<1>7. CASE ~(o + 1 <= size)
  <2>1. o \in size .. top BY <1>3, <1>4, <1>7
  <2> QED BY <1>3, <1>5, <1>7, <2>1 DEF top
<1> QED BY <1>6, <1>7

(* What a pixel of a linear source decodes to: a row is read or left out   *)
(* as a whole, by its last pixel.                                          *)
LEMMA LinearDecoded ==
  ASSUME NEW layout, layout \notin Tiled, NEW w \in Nat, NEW h \in Nat,
         NEW stride \in Nat, w <= stride, NEW size \in Nat,
         NEW p \in Frame(w, h)
  PROVE  LET v == IF Backed(layout, p, w, stride, size) THEN Offset(layout, p, stride) ELSE Zero IN
         IF v = Zero
         THEN \E a \in size .. (h + TileH) * stride :
                PixelAt(layout, a, stride)[2] = p[2] /\ PixelAt(layout, a, stride)[1] < w
         ELSE v \in 0 .. size - 1 /\ PixelAt(layout, v, stride) = p
<1>1. PICK x \in 0 .. w - 1, y \in 0 .. h - 1 : p = <<x, y>> BY DEF Frame
<1> DEFINE row == y * stride
           last == row + (w - 1)
           top == (h + TileH) * stride
<1>2. stride > 0 /\ w > 0 /\ w - 1 \in 0 .. stride - 1 /\ x \in 0 .. stride - 1 OBVIOUS
<1>3. row \in Nat /\ row = stride * y OBVIOUS
<1>4. (stride * y + x) % stride = x /\ (stride * y + x) \div stride = y BY <1>2, Quotient
<1>5. (stride * y + (w - 1)) % stride = w - 1 /\ (stride * y + (w - 1)) \div stride = y
  BY <1>2, Quotient
<1>6. Offset(layout, p, stride) = row + x BY <1>1 DEF Offset, Tiled
<1>7. PixelAt(layout, row + x, stride) = p BY <1>1, <1>3, <1>4 DEF PixelAt, Tiled
<1>8. PixelAt(layout, last, stride) = <<w - 1, y>> BY <1>3, <1>5 DEF PixelAt, Tiled
<1>9. Backed(layout, p, w, stride, size) <=> row + w <= size BY <1>1 DEF Backed, Tiled
<1>10. last <= top /\ top \in Nat
  <2>1. y + 1 \in Nat /\ h + TileH \in Nat /\ y + 1 <= h + TileH BY Tile
  <2>2. (y + 1) * stride <= top BY <2>1, Monotone
  <2>3. (y + 1) * stride = row + stride OBVIOUS
  <2>4. top \in Nat BY <2>1
  <2> HIDE DEF row, top
  <2> QED BY <2>2, <2>3, <2>4, <1>2, <1>3
<1> HIDE DEF row, top
<1>11. CASE row + w <= size
  <2>1. row + x # Zero /\ row + x \in 0 .. size - 1 BY <1>2, <1>3, <1>11 DEF Zero
  <2> QED BY <1>6, <1>7, <1>9, <1>11, <2>1
<1>12. CASE ~(row + w <= size)
  <2>1. last \in size .. top BY <1>2, <1>3, <1>10, <1>12
  <2>2. PixelAt(layout, last, stride)[2] = p[2] /\ PixelAt(layout, last, stride)[1] < w
    BY <1>1, <1>2, <1>8
  <2> HIDE DEF last
  <2>3. \E a \in size .. top :
          PixelAt(layout, a, stride)[2] = p[2] /\ PixelAt(layout, a, stride)[1] < w
    BY <2>1, <2>2
  <2> QED BY <1>9, <1>12, <2>3 DEF top
<1> QED BY <1>11, <1>12

(* The rounded-up quotient.                                                *)
LEMMA CeilCovers ==
  ASSUME NEW a \in Nat, NEW b \in Nat, b > 0
  PROVE  Ceil(a, b) \in Nat /\ a <= Ceil(a, b) * b /\ (a > 0 => Ceil(a, b) > 0)
<1> DEFINE n == a + b - 1
           q == n \div b
<1>1. n \in Nat OBVIOUS
<1>2. q \in Nat /\ n % b \in 0 .. b - 1 /\ n = b * q + (n % b) BY <1>1, DivMod
<1>3. b * q = q * b /\ q * b \in Nat BY <1>2
<1>4. Ceil(a, b) = q BY DEF Ceil
<1> DEFINE r == n % b
<1>5. n = q * b + r /\ r \in 0 .. b - 1 BY <1>2, <1>3
<1>6. n = a + b - 1 OBVIOUS
<1> HIDE DEF r, q, n
<1>7. a <= q * b
  <2> DEFINE t == q * b
  <2>1. t \in Nat /\ n = t + r BY <1>3, <1>5
  <2> HIDE DEF t
  <2>2. a <= t BY <2>1, <1>5, <1>6
  <2> QED BY <2>2 DEF t
<1>8. a > 0 => q > 0
  <2> SUFFICES ASSUME a > 0, q = 0 PROVE FALSE BY <1>2
  <2>1. q * b = 0 BY <1>2
  <2> QED BY <2>1, <1>7
<1> QED BY <1>2, <1>4, <1>7, <1>8

(* drmtap_deswizzle: every pixel of its answer.                            *)
LEMMA DeswizzleStep ==
  ASSUME Deswizzle
  PROVE  PixelsFromTheirPlace'
<1> USE Tile
<1>1. PICK w \in 1 .. MaxW, h \in 1 .. MaxH, layout \in Layouts, slack \in 0 .. 1,
           short \in 0 .. TileW, dst \in {MaxW - 1, MaxW} :
        LET stride == IF layout \in Tiled THEN (Ceil(w, TileW) + slack) * TileW ELSE w + slack
            c == [op |-> "deswizzle", w |-> w, h |-> h, layout |-> layout, stride |-> stride,
                  dst |-> dst, size |-> stride * h - short]
        IN short < stride * h /\ call' = c /\ result' = Deswizzled(c)
  BY DEF Deswizzle
<1> DEFINE m == Ceil(w, TileW) + slack
           stride == IF layout \in Tiled THEN m * TileW ELSE w + slack
           size == stride * h - short
           c == [op |-> "deswizzle", w |-> w, h |-> h, layout |-> layout, stride |-> stride,
                 dst |-> dst, size |-> size]
           V(p) == IF Backed(layout, p, w, stride, size) THEN Offset(layout, p, stride) ELSE Zero
<1>2. short < stride * h /\ call' = c /\ result' = Deswizzled(c) BY <1>1
<1>3. MaxW \in Nat /\ MaxH \in Nat BY TileAssumption
<1>4. w \in Nat /\ h \in Nat /\ short \in Nat /\ slack \in Nat BY <1>3
<1>5. Ceil(w, TileW) \in Nat /\ w <= Ceil(w, TileW) * TileW BY <1>4, CeilCovers
<1>6. m \in Nat /\ w <= m * TileW
  <2>1. m \in Nat /\ Ceil(w, TileW) <= m BY <1>4, <1>5
  <2>2. Ceil(w, TileW) * TileW <= m * TileW BY <2>1, <1>5, Monotone
  <2>3. Ceil(w, TileW) * TileW \in Nat /\ m * TileW \in Nat BY <1>5, <2>1
  <2> QED BY <2>1, <2>2, <2>3, <1>4, <1>5
<1>7. stride \in Nat /\ w <= stride /\ (layout \in Tiled => stride = m * TileW)
  <2>1. m * TileW \in Nat /\ w + slack \in Nat /\ w <= w + slack BY <1>4, <1>6
  <2> HIDE DEF m
  <2> QED BY <2>1, <1>6
<1>8. size \in Nat
  <2>1. stride * h \in Nat BY <1>4, <1>7
  <2> HIDE DEF stride
  <2> QED BY <2>1, <1>2, <1>4
<1> HIDE DEF m, stride, size
<1>9. call'.op = "deswizzle" /\ call'.w = w /\ call'.h = h /\ call'.layout = layout
        /\ call'.stride = stride /\ call'.size = size
  BY <1>2
<1> SUFFICES ASSUME result'.ret = 0, NEW p \in Frame(w, h)
             PROVE  /\ result'.out[p] # Zero => result'.out[p] \in 0 .. size - 1
                    /\ layout # "yf" =>
                         IF result'.out[p] # Zero
                         THEN PixelAt(layout, result'.out[p], stride) = p
                         ELSE \E a \in size .. (h + TileH) * stride :
                                LET q == PixelAt(layout, a, stride) IN
                                \/ q = p
                                \/ layout \in {"linear", "invalid"} /\ q[2] = p[2] /\ q[1] < w
  BY <1>9 DEF PixelsFromTheirPlace
<1>10. layout # "ccs" /\ result'.out = [q \in Frame(w, h) |-> V(q)]
  BY <1>2 DEF Deswizzled, ENOTSUP, EINVAL
<1>11. result'.out[p] = V(p) BY <1>10
<1>12. CASE layout \in {"x", "y"}
  <2>1. IF V(p) = Zero
        THEN \E a \in size .. (h + TileH) * stride : PixelAt(layout, a, stride) = p
        ELSE V(p) \in 0 .. size - 1 /\ PixelAt(layout, V(p), stride) = p
    <3>1. \E k \in Nat : stride = k * TileW BY <1>6, <1>7, <1>12 DEF Tiled
    <3> QED BY <1>4, <1>7, <1>8, <1>12, <3>1, TiledDecoded
  <2> HIDE DEF V
  <2> QED BY <1>11, <1>12, <2>1
<1>13. CASE layout \in {"linear", "invalid"}
  <2>1. IF V(p) = Zero
        THEN \E a \in size .. (h + TileH) * stride :
               PixelAt(layout, a, stride)[2] = p[2] /\ PixelAt(layout, a, stride)[1] < w
        ELSE V(p) \in 0 .. size - 1 /\ PixelAt(layout, V(p), stride) = p
    <3>1. layout \notin Tiled BY <1>13 DEF Tiled
    <3> QED BY <1>4, <1>7, <1>8, <3>1, LinearDecoded
  <2> HIDE DEF V
  <2> QED BY <1>11, <1>13, <2>1
<1>14. CASE layout = "yf"
  <2> DEFINE u == IF Backed("y", p, w, stride, size) THEN Offset("y", p, stride) ELSE Zero
  <2>1. V(p) = u BY <1>14 DEF Backed, Offset, Tiled
  <2>2. u # Zero => u \in 0 .. size - 1
    <3>1. \E k \in Nat : stride = k * TileW BY <1>6, <1>7, <1>14 DEF Tiled
    <3> QED BY <1>4, <1>7, <1>8, <3>1, TiledDecoded
  <2> HIDE DEF V, u
  <2> QED BY <1>11, <1>14, <2>1, <2>2
<1> QED BY <1>10, <1>12, <1>13, <1>14 DEF Layouts

(* The converters: each format by its own function, or refused.            *)
LEMMA ConvertStep ==
  ASSUME Convert
  PROVE  ColoursKept'
<1>1. PICK from \in Formats, to \in {"XR24", "AR24", "AB24", "XR30"}, w \in 1 .. MaxW,
           stride \in 1 .. 2 * MaxW, dst \in {MaxW - 1, MaxW}, hdr \in BOOLEAN :
        LET c == [op |-> "convert", from |-> from, to |-> to, w |-> w, stride |-> stride,
                  dst |-> dst, hdr |-> hdr]
        IN /\ Depth(from) = 2 => to = "XR24"
           /\ hdr => Depth(from) = 1 /\ to = "XR24"
           /\ call' = c
           /\ result' = IF Depth(from) = 2 THEN ConvertDeep(c)
                        ELSE IF hdr THEN ToneMap(c) ELSE ConvertFormat(c)
  BY DEF Convert
<1> DEFINE c == [op |-> "convert", from |-> from, to |-> to, w |-> w, stride |-> stride,
                 dst |-> dst, hdr |-> hdr]
           Kept == \A colour \in {"r", "g", "b"} :
                     MemoryOrder(from)[result'.out[colour]] = colour
<1>2. /\ call' = c
      /\ result' = IF Depth(from) = 2 THEN ConvertDeep(c)
                   ELSE IF hdr THEN ToneMap(c) ELSE ConvertFormat(c)
  BY <1>1
<1>3. call'.from = from /\ call'.to = to BY <1>2
<1> SUFFICES ASSUME result'.ret = 0
             PROVE  IF result'.out = [same |-> TRUE] THEN from = to ELSE Kept
  BY <1>3 DEF ColoursKept
<1>4. CASE result' = Samples(DeepUnits(from)) /\ Depth(from) = 2
  <2>1. from \in {"XR48", "XB48", "XR4H", "XB4H"} BY <1>4 DEF Depth
  <2>2. result'.out = DeepUnits(from) BY <1>4 DEF Samples
  <2> QED BY <2>1, <2>2 DEF DeepUnits, MemoryOrder
<1>5. CASE result' = Samples(TenBit(from)) /\ from \in {"XR30", "AR30", "XB30", "AB30"}
  <2>1. result'.out = TenBit(from) BY <1>5 DEF Samples
  <2> QED BY <1>5, <2>1 DEF TenBit, MemoryOrder
<1>6. CASE result' = Samples(SwappedBytes(from)) /\ from = "AB24"
  <2>1. result'.out = SwappedBytes(from) BY <1>6 DEF Samples
  <2> QED BY <1>6, <2>1 DEF SwappedBytes, MemoryOrder
<1>7. CASE result' = Samples([same |-> TRUE]) /\ from = to
  BY <1>7 DEF Samples
<1>8. \/ result' = Samples(DeepUnits(from)) /\ Depth(from) = 2
      \/ result' = Samples(TenBit(from)) /\ from \in {"XR30", "AR30", "XB30", "AB30"}
      \/ result' = Samples(SwappedBytes(from)) /\ from = "AB24"
      \/ result' = Samples([same |-> TRUE]) /\ from = to
  <2>1. Refuse(EINVAL).ret # 0 /\ Refuse(ENOTSUP).ret # 0 BY DEF Refuse, EINVAL, ENOTSUP
  <2>2. CASE Depth(from) = 2
    BY <1>2, <2>1, <2>2 DEF ConvertDeep
  <2>3. CASE Depth(from) # 2 /\ hdr
    BY <1>2, <2>1, <2>3 DEF ToneMap
  <2>4. CASE Depth(from) # 2 /\ ~hdr
    BY <1>2, <2>1, <2>4 DEF ConvertFormat
  <2> QED BY <2>2, <2>3, <2>4
<1> QED BY <1>4, <1>5, <1>6, <1>7, <1>8

(* Which tiles a pixel is in: the one its coordinates divide to.           *)
LEMMA TileHolds ==
  ASSUME NEW w \in Nat, NEW h \in Nat, NEW tile \in Nat, w > 0, h > 0, tile > 0,
         NEW n \in 0 .. Ceil(w, tile) * Ceil(h, tile) - 1,
         NEW p \in Frame(w, h)
  PROVE  Inside(p, Rect(n, w, h, tile))
           <=> n = Ceil(w, tile) * (p[2] \div tile) + (p[1] \div tile)
<1> DEFINE across == Ceil(w, tile)
           down == Ceil(h, tile)
           c == n % across
           r == n \div across
<1>1. PICK x \in 0 .. w - 1, y \in 0 .. h - 1 : p = <<x, y>> BY DEF Frame
<1>2. x \in Nat /\ y \in Nat /\ x < w /\ y < h OBVIOUS
<1> DEFINE cx == x \div tile
           ry == y \div tile
<1>3. across \in Nat /\ across > 0 /\ w <= across * tile BY CeilCovers
<1>4. down \in Nat BY CeilCovers
<1>5. n \in Nat
  <2>1. across * down \in Nat BY <1>3, <1>4
  <2> QED BY <2>1
<1>6. r \in Nat /\ c \in 0 .. across - 1 /\ n = across * r + c
  <2> HIDE DEF across
  <2> QED BY <1>3, <1>5, DivMod
<1>7. cx \in Nat /\ x % tile \in 0 .. tile - 1 /\ x = tile * cx + (x % tile) BY <1>2, DivMod
<1>8. ry \in Nat /\ y % tile \in 0 .. tile - 1 /\ y = tile * ry + (y % tile) BY <1>2, DivMod
<1>9. cx < across
  <2> SUFFICES ASSUME across <= cx PROVE FALSE BY <1>3, <1>7
  <2>1. tile * across <= tile * cx BY <1>3, <1>7, Monotone
  <2>2. tile * across = across * tile /\ tile * cx \in Nat /\ tile * across \in Nat BY <1>3, <1>7
  <2> HIDE DEF across, cx
  <2> QED BY <2>1, <2>2, <1>2, <1>3, <1>7
<1>10. Rect(n, w, h, tile) = [x |-> c * tile, y |-> r * tile,
                              w |-> Clipped(c * tile, tile, w), h |-> Clipped(r * tile, tile, h)]
  BY DEF Rect, TileAt
<1>11. Inside(p, Rect(n, w, h, tile))
         <=> /\ x \in c * tile .. (c * tile) + Clipped(c * tile, tile, w) - 1
             /\ y \in r * tile .. (r * tile) + Clipped(r * tile, tile, h) - 1
  BY <1>1, <1>10 DEF Inside
<1>12. c * tile = tile * c /\ r * tile = tile * r /\ tile * c \in Nat /\ tile * r \in Nat
  <2> HIDE DEF c, r, across
  <2> QED BY <1>3, <1>6
<1>13. x \in c * tile .. (c * tile) + Clipped(c * tile, tile, w) - 1 <=> cx = c
  <2> HIDE DEF c, across
  <2>1. c \in Nat BY <1>3, <1>6
  <2>2. ASSUME x \in c * tile .. (c * tile) + Clipped(c * tile, tile, w) - 1 PROVE cx = c
    <3> DEFINE k == tile * c
               d == x - k
    <3>1. k \in Nat /\ x >= k /\ x <= k + tile - 1 BY <1>2, <1>12, <2>2 DEF Clipped
    <3> HIDE DEF k
    <3>2. d \in 0 .. tile - 1 /\ x = k + d BY <1>2, <3>1
    <3> HIDE DEF d
    <3>3. (tile * c + d) \div tile = c BY <2>1, <3>2, Quotient
    <3> QED BY <3>2, <3>3 DEF k
  <2>3. ASSUME cx = c PROVE x \in c * tile .. (c * tile) + Clipped(c * tile, tile, w) - 1
    <3> DEFINE k == tile * c
               d == x % tile
    <3>1. k \in Nat /\ d \in 0 .. tile - 1 /\ x = k + d BY <1>7, <1>12, <2>3
    <3> HIDE DEF k, d
    <3>2. x \in k .. k + Clipped(k, tile, w) - 1 BY <1>2, <3>1 DEF Clipped
    <3> QED BY <3>2, <1>12 DEF k
  <2> QED BY <2>2, <2>3
<1>14. y \in r * tile .. (r * tile) + Clipped(r * tile, tile, h) - 1 <=> ry = r
  <2> HIDE DEF r, across
  <2>2. ASSUME y \in r * tile .. (r * tile) + Clipped(r * tile, tile, h) - 1 PROVE ry = r
    <3> DEFINE k == tile * r
               d == y - k
    <3>1. k \in Nat /\ y >= k /\ y <= k + tile - 1 BY <1>2, <1>12, <2>2 DEF Clipped
    <3> HIDE DEF k
    <3>2. d \in 0 .. tile - 1 /\ y = k + d BY <1>2, <3>1
    <3> HIDE DEF d
    <3>3. (tile * r + d) \div tile = r BY <1>6, <3>2, Quotient
    <3> QED BY <3>2, <3>3 DEF k
  <2>3. ASSUME ry = r PROVE y \in r * tile .. (r * tile) + Clipped(r * tile, tile, h) - 1
    <3> DEFINE k == tile * r
               d == y % tile
    <3>1. k \in Nat /\ d \in 0 .. tile - 1 /\ y = k + d BY <1>8, <1>12, <2>3
    <3> HIDE DEF k, d
    <3>2. y \in k .. k + Clipped(k, tile, h) - 1 BY <1>2, <3>1 DEF Clipped
    <3> QED BY <3>2, <1>12 DEF k
  <2> QED BY <2>2, <2>3
<1>15. cx = c /\ ry = r <=> n = across * ry + cx
  <2>1. n = across * ry + cx => n % across = cx /\ n \div across = ry
    <3> HIDE DEF across, cx, ry
    <3> QED BY <1>3, <1>7, <1>8, <1>9, Quotient
  <2> QED BY <2>1, <1>6
<1>16. across * ry + cx = Ceil(w, tile) * (p[2] \div tile) + (p[1] \div tile) BY <1>1
<1> QED BY <1>11, <1>13, <1>14, <1>15, <1>16

(* The tile a pixel divides to is one of the loops'.                       *)
LEMMA TileExists ==
  ASSUME NEW w \in Nat, NEW h \in Nat, NEW tile \in Nat, w > 0, h > 0, tile > 0,
         NEW p \in Frame(w, h)
  PROVE  \E n \in 0 .. Ceil(w, tile) * Ceil(h, tile) - 1 : Inside(p, Rect(n, w, h, tile))
<1> DEFINE across == Ceil(w, tile)
           down == Ceil(h, tile)
           x == p[1]
           y == p[2]
           cx == x \div tile
           ry == y \div tile
           n == across * ry + cx
<1>1. x \in Nat /\ y \in Nat /\ x < w /\ y < h BY DEF Frame
<1>2. across \in Nat /\ across > 0 /\ w <= across * tile BY CeilCovers
<1>3. down \in Nat /\ h <= down * tile BY CeilCovers
<1>4. cx \in Nat /\ tile * cx <= x
  <2> HIDE DEF x
  <2> QED BY <1>1, DivMod
<1>5. ry \in Nat /\ tile * ry <= y
  <2> HIDE DEF y
  <2> QED BY <1>1, DivMod
<1> HIDE DEF across, down, x, y, cx, ry
<1>6. cx < across
  <2> SUFFICES ASSUME across <= cx PROVE FALSE BY <1>2, <1>4
  <2>1. tile * across <= tile * cx BY <1>2, <1>4, Monotone
  <2>2. tile * across = across * tile /\ tile * cx \in Nat /\ tile * across \in Nat BY <1>2, <1>4
  <2> QED BY <2>1, <2>2, <1>1, <1>2, <1>4
<1>7. ry < down
  <2> SUFFICES ASSUME down <= ry PROVE FALSE BY <1>3, <1>5
  <2>1. tile * down <= tile * ry BY <1>3, <1>5, Monotone
  <2>2. tile * down = down * tile /\ tile * ry \in Nat /\ tile * down \in Nat BY <1>3, <1>5
  <2> QED BY <2>1, <2>2, <1>1, <1>3, <1>5
<1>8. n \in 0 .. across * down - 1
  <2>1. across * ry <= across * (down - 1) BY <1>2, <1>3, <1>5, <1>7, Monotone
  <2>2. across * (down - 1) = across * down - across BY <1>2, <1>3
  <2>3. across * ry \in Nat /\ across * down \in Nat BY <1>2, <1>3, <1>5
  <2> QED BY <2>1, <2>2, <2>3, <1>2, <1>4, <1>6
<1>9. Inside(p, Rect(n, w, h, tile))
  BY <1>8, TileHolds DEF n, across, down, x, y, cx, ry
<1> QED BY <1>8, <1>9 DEF across, down

(* A rectangle does not leave the frame.                                   *)
LEMMA RectInFrame ==
  ASSUME NEW w \in Nat, NEW h \in Nat, NEW tile \in Nat, w > 0, tile > 0,
         NEW n \in Nat
  PROVE  LET r == Rect(n, w, h, tile) IN
         /\ r.x \in Nat /\ r.y \in Nat /\ r.w \in Int /\ r.h \in Int
         /\ r.x + r.w <= w /\ r.y + r.h <= h
<1> DEFINE across == Ceil(w, tile)
           rx == (n % across) * tile
           ry == (n \div across) * tile
<1>1. across \in Nat /\ across > 0 BY CeilCovers
<1>2. rx \in Nat /\ ry \in Nat
  <2>1. n % across \in Nat /\ n \div across \in Nat
    <3> HIDE DEF across
    <3> QED BY <1>1, DivMod
  <2> QED BY <2>1
<1>3. Rect(n, w, h, tile) = [x |-> rx, y |-> ry, w |-> Clipped(rx, tile, w), h |-> Clipped(ry, tile, h)]
  BY DEF Rect, TileAt
<1> HIDE DEF rx, ry
<1>4. /\ Clipped(rx, tile, w) \in Int /\ rx + Clipped(rx, tile, w) <= w
      /\ Clipped(ry, tile, h) \in Int /\ ry + Clipped(ry, tile, h) <= h
  BY <1>2 DEF Clipped
<1> QED BY <1>2, <1>3, <1>4

(* A tile differs when it holds a pixel that does.                         *)
LEMMA DirtyHolds ==
  ASSUME NEW w \in Nat, NEW h \in Nat, NEW changed \in SUBSET Frame(w, h), NEW r
  PROVE  Dirty(r, changed) <=> \E p \in changed : Inside(p, r)
<1>1. ASSUME Dirty(r, changed) PROVE \E p \in changed : Inside(p, r)
  <2>1. PICK row \in r.y .. r.y + r.h - 1, x \in r.x .. r.x + r.w - 1 : <<x, row>> \in changed
    BY <1>1 DEF Dirty
  <2>2. Inside(<<x, row>>, r) BY DEF Inside
  <2> QED BY <2>1, <2>2
<1>2. ASSUME NEW p \in changed, Inside(p, r) PROVE Dirty(r, changed)
  <2>1. p = <<p[1], p[2]>> BY DEF Frame
  <2> QED BY <1>2, <2>1 DEF Inside, Dirty
<1> QED BY <1>1, <1>2

(* The places of the members of a finite set of naturals in their order:   *)
(* each has its own, and they are all the numbers below the size.          *)
LEMMA Ranking ==
  ASSUME NEW D \in SUBSET Nat, IsFiniteSet(D),
         NEW B, B = [n \in D |-> Cardinality({m \in D : m < n})]
  PROVE  B \in Bijection(D, 0 .. Cardinality(D) - 1)
<1> DEFINE U(n) == {m \in D : m < n}
<1>1. Cardinality(D) \in Nat BY FS_CardinalityType
<1>2. ASSUME NEW n \in D
      PROVE  /\ IsFiniteSet(U(n)) /\ Cardinality(U(n)) \in Nat
             /\ Cardinality(U(n)) < Cardinality(D)
  <2>1. U(n) \in SUBSET D /\ n \notin U(n) OBVIOUS
  <2>2. /\ IsFiniteSet(U(n)) /\ Cardinality(U(n)) <= Cardinality(D)
        /\ Cardinality(D) = Cardinality(U(n)) => D = U(n)
    <3> HIDE DEF U
    <3> QED BY <2>1, FS_Subset
  <2>3. Cardinality(U(n)) \in Nat BY <2>2, FS_CardinalityType
  <2> QED BY <1>1, <2>1, <2>2, <2>3
<1>3. ASSUME NEW n \in D, NEW k \in D, n < k
      PROVE  Cardinality(U(n)) < Cardinality(U(k))
  <2>1. U(n) \in SUBSET U(k) /\ n \in U(k) /\ n \notin U(n)
    <3>1. ASSUME NEW m \in U(n) PROVE m \in U(k)
      <4>1. m \in Nat /\ n \in Nat /\ k \in Nat /\ m < n OBVIOUS
      <4>2. m < k BY <4>1, <1>3
      <4> QED BY <4>2
    <3>2. n \in U(k) BY <1>3
    <3>3. n \notin U(n) OBVIOUS
    <3> HIDE DEF U
    <3> QED BY <3>1, <3>2, <3>3
  <2>2. /\ Cardinality(U(n)) <= Cardinality(U(k))
        /\ Cardinality(U(k)) = Cardinality(U(n)) => U(k) = U(n)
    <3>1. IsFiniteSet(U(k)) BY <1>2
    <3> HIDE DEF U
    <3> QED BY <2>1, <3>1, FS_Subset
  <2>3. Cardinality(U(n)) \in Nat /\ Cardinality(U(k)) \in Nat BY <1>2
  <2> QED BY <2>1, <2>2, <2>3
<1> DEFINE T == 0 .. Cardinality(D) - 1
<1>4. \A n \in D : B[n] = Cardinality(U(n)) OBVIOUS
<1>5. B \in [D -> T]
  <2>1. \A n \in D : Cardinality(U(n)) \in T BY <1>1, <1>2
  <2> HIDE DEF T
  <2> QED BY <2>1
<1>6. \A n, k \in D : B[n] = B[k] => n = k
  <2> SUFFICES ASSUME NEW n \in D, NEW k \in D, n # k PROVE B[n] # B[k] OBVIOUS
  <2>1. n < k \/ k < n OBVIOUS
  <2>2. Cardinality(U(n)) # Cardinality(U(k))
    <3>1. Cardinality(U(n)) \in Nat /\ Cardinality(U(k)) \in Nat BY <1>2
    <3> HIDE DEF U
    <3> QED BY <1>3, <2>1, <3>1
  <2> HIDE DEF U
  <2> QED BY <1>4, <2>2
<1> HIDE DEF T
<1>7. B \in Injection(D, T) BY <1>5, <1>6, Fun_IsInj
<1>8. IsFiniteSet(T) /\ Cardinality(T) = Cardinality(D)
  <2> DEFINE last == Cardinality(D) - 1
  <2>1. last \in Int /\ last >= -1 BY <1>1
  <2>2. T = 0 .. last BY DEF T
  <2> HIDE DEF last
  <2>3. IsFiniteSet(0 .. last) /\ Cardinality(0 .. last) = last + 1
    BY <2>1, FS_Interval
  <2>4. last + 1 = Cardinality(D) BY <1>1 DEF last
  <2> QED BY <2>2, <2>3, <2>4
<1>9. B \in Surjection(D, T) BY <1>7, <1>8, FS_Injection
<1> QED BY <1>7, <1>9 DEF Bijection, T

(* drmtap_diff_frames: the tiles that differ, in the order of the loops,   *)
(* up to the length of the array.                                          *)
LEMMA DiffStep ==
  ASSUME Diff
  PROVE  ChangesCovered'
<1>1. PICK w \in 1 .. MaxDiff, h \in 1 .. MaxDiff, tile \in 1 .. MaxTile, max \in 1 .. MaxRects :
        \E changed \in SUBSET Frame(w, h) :
          LET d == [op |-> "diff", w |-> w, h |-> h, tile |-> tile, max |-> max, changed |-> changed]
          IN call' = d /\ result' = DiffFrames(d)
  BY DEF Diff
<1>2. PICK changed \in SUBSET Frame(w, h) :
        LET d == [op |-> "diff", w |-> w, h |-> h, tile |-> tile, max |-> max, changed |-> changed]
        IN call' = d /\ result' = DiffFrames(d)
  BY <1>1
<1> DEFINE c == [op |-> "diff", w |-> w, h |-> h, tile |-> tile, max |-> max, changed |-> changed]
           R(n) == Rect(n, w, h, tile)
           N == 0 .. Ceil(w, tile) * Ceil(h, tile) - 1
           D == DirtyTiles(c)
           count == Cardinality(D)
           lim == IF count < max THEN count ELSE max
           B == [n \in D |-> Cardinality({m \in D : m < n})]
           T(k) == CHOOSE n \in D : DirtyBefore(c, n) = k
           K == 0 .. lim - 1
           rects == {R(T(k)) : k \in K}
<1>3. /\ w \in Nat /\ h \in Nat /\ tile \in Nat /\ max \in Nat
      /\ w > 0 /\ h > 0 /\ tile > 0 /\ max > 0
  BY TileAssumption
<1>4. call' = c /\ result' = DiffFrames(c) BY <1>2
<1>5. D = {n \in N : Dirty(R(n), changed)} BY DEF DirtyTiles
<1>6. D \in SUBSET Nat /\ IsFiniteSet(D) /\ count \in Nat
  <2> DEFINE tiles == Ceil(w, tile) * Ceil(h, tile)
  <2>1. tiles \in Nat
    <3>1. Ceil(w, tile) \in Nat /\ Ceil(h, tile) \in Nat BY <1>3, CeilCovers
    <3> QED BY <3>1
  <2>2. N \in SUBSET Nat /\ IsFiniteSet(N)
    <3>1. N = 0 .. tiles - 1 OBVIOUS
    <3> HIDE DEF tiles
    <3>2. 0 .. tiles - 1 \in SUBSET Nat /\ IsFiniteSet(0 .. tiles - 1) BY <2>1, FS_Interval
    <3> HIDE DEF N
    <3> QED BY <3>1, <3>2
  <2> HIDE DEF N
  <2>3. D \in SUBSET N BY <1>5
  <2> HIDE DEF D
  <2>4. IsFiniteSet(D) BY <2>2, <2>3, FS_Subset
  <2> QED BY <2>2, <2>3, <2>4, FS_CardinalityType
<1>7. lim \in Nat /\ lim <= count /\ lim <= max BY <1>3, <1>6
<1>8. \A n \in D : B[n] = DirtyBefore(c, n) BY DEF DirtyBefore
<1>9. B \in Bijection(D, 0 .. count - 1)
  <2> HIDE DEF D
  <2> QED BY <1>6, Ranking
<1>10. result'.ret = count /\ result'.out = [k \in K |-> R(T(k))] BY <1>4 DEF DiffFrames
<1>11. rects = {result'.out[i] : i \in DOMAIN result'.out}
  <2>1. DOMAIN result'.out = K /\ \A k \in K : result'.out[k] = R(T(k)) BY <1>10
  <2> HIDE DEF K, T, R
  <2> QED BY <2>1
<1>12. \A n \in D : n \in N /\ \E p \in changed : Inside(p, R(n))
  <2> HIDE DEF N, R
  <2> QED BY <1>3, <1>5, DirtyHolds
<1> HIDE DEF D, B, lim
<1>13. /\ \A n \in D : B[n] \in 0 .. count - 1
       /\ \A k \in 0 .. count - 1 : \E n \in D : B[n] = k
  <2> DEFINE Z == 0 .. count - 1
  <2>1. B \in Bijection(D, Z) BY <1>9
  <2> HIDE DEF Z
  <2>2. /\ B \in [D -> Z]
        /\ \A k \in Z : \E n \in D : B[n] = k
    BY <2>1, Fun_BijectionProperties
  <2>3. \A n \in D : B[n] \in Z BY <2>2
  <2> QED BY <2>2, <2>3 DEF Z
<1>14. \A n, m \in D : B[n] = B[m] => n = m BY <1>9, Fun_BijectionProperties
<1>15. ASSUME NEW k \in K PROVE T(k) \in D /\ B[T(k)] = k
  <2>1. k \in 0 .. count - 1 BY <1>6, <1>7
  <2>2. \E n \in D : DirtyBefore(c, n) = k BY <1>8, <1>13, <2>1
  <2> HIDE DEF c
  <2>3. T(k) \in D /\ DirtyBefore(c, T(k)) = k BY <2>2
  <2> QED BY <1>8, <2>3
<1> HIDE DEF T, K
<1>16. ASSUME NEW n \in D, NEW m \in D, NEW p \in Frame(w, h), Inside(p, R(n)), Inside(p, R(m))
       PROVE  n = m
  <2>1. n \in N /\ m \in N BY <1>12
  <2>2. n = Ceil(w, tile) * (p[2] \div tile) + (p[1] \div tile)
    BY <1>3, <1>16, <2>1, TileHolds
  <2>3. m = Ceil(w, tile) * (p[2] \div tile) + (p[1] \div tile)
    BY <1>3, <1>16, <2>1, TileHolds
  <2> QED BY <2>2, <2>3
<1>17. \A r \in rects : \E n \in D : r = R(n) BY <1>15
<1>18. ASSUME NEW r \in rects
       PROVE  /\ r.x + r.w <= w /\ r.y + r.h <= h
              /\ \E p \in changed : Inside(p, r)
  <2>1. PICK n \in D : r = R(n) BY <1>17
  <2>2. n \in Nat BY <1>6
  <2>3. R(n).x + R(n).w <= w /\ R(n).y + R(n).h <= h BY <1>3, <2>2, RectInFrame
  <2> QED BY <1>12, <2>1, <2>3
<1>19. ASSUME NEW r \in rects, NEW s \in rects,
              NEW p \in Frame(w, h), Inside(p, r), Inside(p, s)
       PROVE  r = s
  <2>1. PICK n \in D, m \in D : r = R(n) /\ s = R(m) BY <1>17
  <2>2. n = m BY <1>16, <1>19, <2>1
  <2> QED BY <2>1, <2>2
<1>20. Cardinality(rects) = lim
  <2> DEFINE f == [k \in K |-> R(T(k))]
  <2>1. f \in [K -> rects] /\ \A k \in K : f[k] = R(T(k)) OBVIOUS
  <2>2. ASSUME NEW k \in K, NEW j \in K, f[k] = f[j] PROVE k = j
    <3>1. R(T(k)) = R(T(j)) /\ T(k) \in D /\ T(j) \in D BY <1>15, <2>1, <2>2
    <3>2. PICK p \in changed : Inside(p, R(T(k))) BY <1>12, <3>1
    <3>3. T(k) = T(j) BY <1>16, <3>1, <3>2
    <3> QED BY <1>15, <3>3
  <2>3. \A r \in rects : \E k \in K : f[k] = r OBVIOUS
  <2> HIDE DEF f, rects
  <2>4. f \in Injection(K, rects) BY <2>1, <2>2, Fun_IsInj
  <2>5. f \in Surjection(K, rects) BY <2>1, <2>3, Fun_IsSurj
  <2>6. IsFiniteSet(K) /\ Cardinality(K) = lim BY <1>7, FS_Interval DEF K
  <2>7. ExistsBijection(K, rects) BY <2>4, <2>5 DEF ExistsBijection, Bijection
  <2> QED BY <2>6, <2>7, FS_Bijection
<1>21. ASSUME count <= max, NEW p \in changed PROVE \E r \in rects : Inside(p, r)
  <2>1. PICK n \in N : Inside(p, R(n)) BY <1>3, TileExists
  <2>2. Dirty(R(n), changed) BY <1>3, <2>1, DirtyHolds
  <2>3. n \in D BY <1>5, <2>2
  <2>4. B[n] \in K BY <1>3, <1>6, <1>13, <1>21, <2>3 DEF K, lim
  <2>5. T(B[n]) = n BY <1>14, <1>15, <2>3, <2>4
  <2>6. R(n) \in rects BY <2>4, <2>5
  <2> QED BY <2>1, <2>6
<1>22. result'.ret = count /\ call'.w = w /\ call'.h = h /\ call'.max = max /\ call'.changed = changed
  BY <1>4, <1>10
<1> HIDE DEF rects, c, R, count
<1>23. lim = IF count < max THEN count ELSE max BY DEF lim
<1>24. LET S == {result'.out[i] : i \in DOMAIN result'.out} IN
         /\ \A r \in S : /\ r.x + r.w <= w /\ r.y + r.h <= h
                         /\ \E p \in changed : Inside(p, r)
         /\ \A r, s \in S : (\E p \in Frame(w, h) : Inside(p, r) /\ Inside(p, s)) => r = s
         /\ Cardinality(S) = IF count < max THEN count ELSE max
         /\ count <= max => \A p \in changed : \E r \in S : Inside(p, r)
  BY <1>11, <1>18, <1>19, <1>20, <1>21, <1>23, Zenon
<1> QED BY <1>22, <1>24 DEF ChangesCovered

(* Every state is the answer to one call, or none.                         *)
LEMMA PixelSteps ==
  ASSUME [PixelNext]_pixelVars
  PROVE  /\ Deswizzle \/ call'.op # "deswizzle" \/ UNCHANGED pixelVars
         /\ Convert \/ call'.op # "convert" \/ UNCHANGED pixelVars
         /\ Diff \/ call'.op # "diff" \/ UNCHANGED pixelVars
<1>1. Deswizzle => call'.op = "deswizzle"
  BY DEF Deswizzle
<1>2. Convert => call'.op = "convert"
  BY DEF Convert
<1>3. Diff => call'.op = "diff"
  BY DEF Diff
<1>4. Return => call'.op = "none"
  BY DEF Return, Idle
<1> QED BY <1>1, <1>2, <1>3, <1>4 DEF PixelNext

(* A linear, X tiled or Y tiled frame that is decoded holds every pixel at *)
(* its place, and zeros only for what the mapping is too short for, and    *)
(* no frame, Yf tiled or not, is read beyond the mapping: for every tile   *)
(* size, width and stride.                                                 *)
THEOREM PixelPlaces == PixelSpec => []PixelsFromTheirPlace
<1>1. PixelInit => PixelsFromTheirPlace
  BY DEF PixelInit, Idle, PixelsFromTheirPlace
<1>2. PixelsFromTheirPlace /\ [PixelNext]_pixelVars => PixelsFromTheirPlace'
  <2> SUFFICES ASSUME PixelsFromTheirPlace, [PixelNext]_pixelVars PROVE PixelsFromTheirPlace'
    OBVIOUS
  <2>1. CASE Deswizzle BY <2>1, DeswizzleStep
  <2>2. CASE call'.op # "deswizzle" BY <2>2 DEF PixelsFromTheirPlace
  <2>3. CASE UNCHANGED pixelVars BY <2>3 DEF pixelVars, PixelsFromTheirPlace
  <2> QED BY <2>1, <2>2, <2>3, PixelSteps
<1> QED BY <1>1, <1>2, PTL DEF PixelSpec

(* No converter confuses two colours, for any format it accepts.           *)
THEOREM Colours == PixelSpec => []ColoursKept
<1>1. PixelInit => ColoursKept
  BY DEF PixelInit, Idle, ColoursKept
<1>2. ColoursKept /\ [PixelNext]_pixelVars => ColoursKept'
  <2> SUFFICES ASSUME ColoursKept, [PixelNext]_pixelVars PROVE ColoursKept'
    OBVIOUS
  <2>1. CASE Convert BY <2>1, ConvertStep
  <2>2. CASE call'.op # "convert" BY <2>2 DEF ColoursKept
  <2>3. CASE UNCHANGED pixelVars BY <2>3 DEF pixelVars, ColoursKept
  <2> QED BY <2>1, <2>2, <2>3, PixelSteps
<1> QED BY <1>1, <1>2, PTL DEF PixelSpec

(* The rectangles of a comparison are disjoint, stay in the frame, are as  *)
(* many as announced and leave no change out, for every frame and tile.    *)
THEOREM Changes == PixelSpec => []ChangesCovered
<1>1. PixelInit => ChangesCovered
  BY DEF PixelInit, Idle, ChangesCovered
<1>2. ChangesCovered /\ [PixelNext]_pixelVars => ChangesCovered'
  <2> SUFFICES ASSUME ChangesCovered, [PixelNext]_pixelVars PROVE ChangesCovered'
    OBVIOUS
  <2>1. CASE Diff BY <2>1, DiffStep
  <2>2. CASE call'.op # "diff" BY <2>2 DEF ChangesCovered
  <2>3. CASE UNCHANGED pixelVars BY <2>3 DEF pixelVars, ChangesCovered
  <2> QED BY <2>1, <2>2, <2>3, PixelSteps
<1> QED BY <1>1, <1>2, PTL DEF PixelSpec
=============================================================================
