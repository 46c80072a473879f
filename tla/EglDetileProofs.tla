--------------------------- MODULE EglDetileProofs ---------------------------
(***************************************************************************)
(* What EglDetile promises, for any number of contexts, framebuffers,      *)
(* buffers, devices and cached images, any pictures and any buffer sizes.  *)
(***************************************************************************)
EXTENDS EglDetile, FiniteSetTheorems, WellFoundedInduction, TLAPS

(* What an output buffer holds: a picture, or nothing of use.              *)
Contents == [pic : Pics \cup {None}, size : Sizes]

CtxType ==
  [open : BOOLEAN, device : Devices \cup {None}, user : Nat, cap : Nat, gen : Nat,
   out : Contents]

(* A cached image: its own geometry is what it was imported and is sampled *)
(* with, and a known inode is that of its buffer.                          *)
ImageType ==
  {s \in [owner : Ctxs, fb : Fbs \cup {None}, desc : Descs, inode : Bufs \cup {None},
          buf : Bufs, as : Descs, dev : Devices] :
     /\ s.desc = Desc[s.buf] /\ s.as = Desc[s.buf]
     /\ s.inode # None => s.inode = s.buf}

HashType ==
  [on : BOOLEAN, valid : BOOLEAN, owner : Ctxs \cup {None}, shape : Descs \cup {None},
   gen : Nat, prev : Contents]

Slots == [1 .. ImageSlots -> ImageType \cup {Empty}]

GlType ==
  [device : Devices \cup {None}, slots : Slots, next : 0 .. ImageSlots - 1, hash : HashType]

Used(slots) == {i \in 1 .. ImageSlots : slots[i] # Empty}

(* The open contexts of a device.                                          *)
Homes(dev) == {c \in Ctxs : cx[c].open /\ cx[c].device = dev}

(* No two slots are for the same framebuffer of the same context: the      *)
(* first one that matches is the only one.                                 *)
OneSlotEach(slots) ==
  \A i, j \in Used(slots) :
    slots[i].fb = slots[j].fb /\ slots[i].owner = slots[j].owner => i = j

(* The images of a GL state are of its device and of these contexts.       *)
SlotsGood(g, homes) ==
  /\ g \in GlType
  /\ OneSlotEach(g.slots)
  /\ \A i \in Used(g.slots) : g.slots[i].dev = g.device
  /\ \A i \in Used(g.slots) : g.slots[i].owner \in homes

(* While nobody wrote the output buffer of the context a hash was taken    *)
(* for, that buffer holds the image the hash stands for.                   *)
HashOf(h, x) ==
  /\ h.shape.size = h.prev.size
  /\ h.gen <= x.gen
  /\ h.gen = x.gen => x.out = h.prev
  /\ h.gen = x.gen => h.prev.size <= x.cap

HashGood(h) ==
  h.valid => h.owner \in Ctxs /\ cx[h.owner].open /\ HashOf(h, cx[h.owner])

CtxInv == cx \in [Ctxs -> CtxType] /\ \A c \in Ctxs : cx[c].open => cx[c].device # None

GlInv ==
  /\ SlotsGood(gl, Homes(gl.device))
  /\ HashGood(gl.hash)
  /\ images = Cardinality(Used(gl.slots))

Inv == CtxInv /\ GlInv /\ OutputIsThisFrame /\ RightSource

-----------------------------------------------------------------------------
(* The least element of a set of naturals is one of it.                    *)
LEMMA MinIn == ASSUME NEW S \in SUBSET Nat, S # {} PROVE Min(S) \in S
<1>1. IsWellFoundedOn(OpToRel(<, Nat), Nat)
  BY NatLessThanWellFounded
<1>2. PICK x \in S : \A y \in S : ~(<<y, x>> \in OpToRel(<, Nat))
  BY <1>1, WFMin, Zenon
<1>3. \A y \in S : x <= y
  <2>1. SUFFICES ASSUME NEW y \in S, ~(x <= y) PROVE FALSE
    OBVIOUS
  <2>2. x \in Nat /\ y \in Nat /\ y < x
    BY <2>1
  <2>3. <<y, x>> \in {ss \in Nat \X Nat : ss[1] < ss[2]}
    BY <2>2
  <2> QED BY <1>2, <2>3, Zenon DEF OpToRel
<1> QED BY <1>3, Zenon DEF Min

(* What drmtap_ensure_out resolves has been counted, is large enough, and  *)
(* is as it was if it was large enough before.                             *)
LEMMA EnsureOutFacts ==
  ASSUME NEW x \in CtxType, NEW size \in Sizes, NEW r \in EnsureOut(x, size)
  PROVE  /\ r.x \in CtxType /\ r.x.gen = x.gen + 1
         /\ r.x.open = x.open /\ r.x.device = x.device /\ r.x.user = x.user
         /\ r.ret = "ok" /\ x.user = 0 => size <= r.x.cap
         /\ x.user = 0 /\ size <= x.cap => r.ret = "ok" /\ r.x.cap = x.cap /\ r.x.out = x.out
<1> DEFINE counted == [x EXCEPT !.gen = @ + 1]
<1>1. /\ counted \in CtxType /\ counted.gen = x.gen + 1 /\ counted.cap = x.cap
      /\ counted.open = x.open /\ counted.device = x.device /\ counted.user = x.user
      /\ counted.out = x.out
  BY DEF CtxType
<1>2. CASE x.user # 0
  <2>1. r.x = counted
    BY <1>2 DEF EnsureOut
  <2> QED BY <1>1, <1>2, <2>1
<1>3. CASE x.user = 0 /\ size <= x.cap
  <2>1. r.x = counted /\ r.ret = "ok"
    BY <1>3 DEF EnsureOut
  <2> QED BY <1>1, <1>3, <2>1
<1>4. CASE x.user = 0 /\ ~(size <= x.cap)
  <2>1. Garbage \in Contents
    BY DEF Garbage, Contents, Sizes
  <2>2. \/ r = [ret |-> "ok", x |-> [counted EXCEPT !.cap = size, !.out = Garbage]]
        \/ r = [ret |-> "ENOMEM", x |-> [counted EXCEPT !.cap = 0, !.out = Garbage]]
    BY <1>4 DEF EnsureOut
  <2> HIDE DEF counted
  <2>3. CASE r = [ret |-> "ok", x |-> [counted EXCEPT !.cap = size, !.out = Garbage]]
    <3>1. size \in Nat
      BY DEF Sizes
    <3>2. /\ r.ret = "ok" /\ r.x = [counted EXCEPT !.cap = size, !.out = Garbage]
      BY <2>3
    <3>3. /\ r.x \in CtxType /\ r.x.gen = counted.gen /\ r.x.open = counted.open
          /\ r.x.device = counted.device /\ r.x.user = counted.user /\ r.x.cap = size
      BY <1>1, <2>1, <3>1, <3>2 DEF CtxType
    <3> QED BY <1>1, <1>4, <3>1, <3>3
  <2>4. CASE r = [ret |-> "ENOMEM", x |-> [counted EXCEPT !.cap = 0, !.out = Garbage]]
    BY <1>1, <1>4, <2>1, <2>4 DEF CtxType
  <2> QED BY <2>2, <2>3, <2>4
<1> QED BY <1>2, <1>3, <1>4

(* A write into the resolved buffer changes at most what it holds.         *)
LEMMA WrittenFacts ==
  ASSUME NEW x \in CtxType, NEW image \in Contents
  PROVE  /\ Written(x, image) \in CtxType /\ Written(x, image).gen = x.gen
         /\ Written(x, image).open = x.open /\ Written(x, image).device = x.device
         /\ Written(x, image).user = x.user /\ Written(x, image).cap = x.cap
         /\ x.user = 0 => Written(x, image).out = image
  BY DEF Written, CtxType

(* Whatever a call does to a context's output buffer: it is left alone or  *)
(* counted, and the context stays what it is.                              *)
Reaches(x, y) ==
  /\ y \in CtxType
  /\ y.open = x.open /\ y.device = x.device /\ y.user = x.user
  /\ y = x \/ y.gen > x.gen

(* Two calls on it one after the other.                                    *)
LEMMA ReachesOn ==
  ASSUME NEW x \in CtxType, NEW y \in CtxType, NEW z \in CtxType, Reaches(x, y), Reaches(y, z)
  PROVE  Reaches(x, z)
<1>1. x.gen \in Nat /\ y.gen \in Nat /\ z.gen \in Nat
  BY DEF CtxType
<1> QED BY <1>1 DEF Reaches

(* A picture of the size of a buffer is something to find in an output.    *)
LEMMA PictureFacts ==
  ASSUME NEW b \in Bufs, NEW p \in Pics
  PROVE  Desc[b] \in Descs /\ Desc[b].size \in Sizes
         /\ [pic |-> p, size |-> Desc[b].size] \in Contents
<1>1. Desc[b] \in Descs
  BY EglAssumption
<1>2. Desc[b].size \in Sizes
  BY <1>1 DEF Descs
<1> QED BY <1>1, <1>2 DEF Contents

(* The CPU's share of drmtap_convert_dmabuf hands out what it copied.      *)
LEMMA OnCpuFacts ==
  ASSUME NEW x \in CtxType, NEW b \in Bufs, NEW r \in OnCpuOnly(x, b)
  PROVE  /\ Reaches(x, r.x)
         /\ r.ret = "ok" /\ r.x.user = 0 => r.x.out = r.drawn
<1> DEFINE image(p) == [pic |-> p, size |-> Desc[b].size]
<1>1. CASE r = [ret |-> "EINVAL", x |-> x, drawn |-> Garbage]
  BY <1>1 DEF Reaches
<1>2. CASE \E r1 \in EnsureOut(x, Desc[b].size), p \in Pics : r = CopiedOut(b, r1, p)
  <2>1. PICK r1 \in EnsureOut(x, Desc[b].size), p \in Pics : r = CopiedOut(b, r1, p)
    BY <1>2
  <2>2. Desc[b].size \in Sizes /\ image(p) \in Contents
    BY PictureFacts
  <2>3. /\ r1.x \in CtxType /\ r1.x.gen = x.gen + 1
        /\ r1.x.open = x.open /\ r1.x.device = x.device /\ r1.x.user = x.user
    BY <2>2, EnsureOutFacts
  <2>4. x.gen \in Nat
    BY DEF CtxType
  <2>5. Reaches(x, r1.x)
    BY <2>3, <2>4 DEF Reaches
  <2>6. PICK out :
          r = IF r1.ret = "ok" /\ out.ret = "ok"
              THEN [ret |-> "ok", x |-> Written(r1.x, image(p)), drawn |-> image(p)]
              ELSE [ret |-> IF r1.ret = "ok" THEN out.ret ELSE r1.ret, x |-> r1.x,
                    drawn |-> Garbage]
    BY <2>1 DEF CopiedOut
  <2>8. CASE r1.ret = "ok" /\ out.ret = "ok"
    <3>1. r = [ret |-> "ok", x |-> Written(r1.x, image(p)), drawn |-> image(p)]
      BY <2>6, <2>8
    <3> HIDE DEF image
    <3>2. /\ Written(r1.x, image(p)) \in CtxType
          /\ Written(r1.x, image(p)).gen = r1.x.gen
          /\ Written(r1.x, image(p)).open = r1.x.open
          /\ Written(r1.x, image(p)).device = r1.x.device
          /\ Written(r1.x, image(p)).user = r1.x.user
          /\ r1.x.user = 0 => Written(r1.x, image(p)).out = image(p)
      BY <2>2, <2>3, WrittenFacts
    <3>3. Reaches(x, Written(r1.x, image(p)))
      BY <2>3, <2>4, <3>2 DEF Reaches
    <3> QED BY <3>1, <3>2, <3>3
  <2>9. CASE ~(r1.ret = "ok" /\ out.ret = "ok")
    <3>1. r.x = r1.x /\ r.ret # "ok"
      BY <2>6, <2>9
    <3> QED BY <2>5, <3>1
  <2> QED BY <2>8, <2>9
<1>3. r \in {CopiedOut(b, r1, p) : r1 \in EnsureOut(x, Desc[b].size), p \in Pics}
           \cup {[ret |-> "EINVAL", x |-> x, drawn |-> Garbage]}
  BY DEF OnCpuOnly
<1> QED BY <1>1, <1>2, <1>3

(* Nor does it matter whether there is a descriptor to map.                *)
LEMMA FallbackFacts ==
  ASSUME NEW x \in CtxType, NEW b \in Bufs, NEW fd \in BOOLEAN, NEW r \in Fallback(x, b, fd)
  PROVE  /\ Reaches(x, r.x)
         /\ r.ret = "ok" /\ r.x.user = 0 => r.x.out = r.drawn
<1>1. CASE fd
  BY <1>1, OnCpuFacts DEF Fallback
<1>2. CASE ~fd
  BY <1>2 DEF Fallback, Reaches
<1> QED BY <1>1, <1>2

-----------------------------------------------------------------------------
(* The slots.                                                              *)

(* Empty is no image.                                                      *)
LEMMA EmptyFacts ==
  /\ Empty \notin ImageType
  /\ Empty.fb = None
  /\ \A c \in Ctxs : c # None
  /\ \A b \in Bufs : b # None
  BY EglAssumption DEF Empty, ImageType

(* What is used are images, and finitely many.                             *)
LEMMA UsedFacts ==
  ASSUME NEW slots \in Slots
  PROVE  /\ IsFiniteSet(Used(slots)) /\ Cardinality(Used(slots)) \in Nat
         /\ \A i \in Used(slots) : i \in 1 .. ImageSlots /\ slots[i] \in ImageType
<1>1. IsFiniteSet(1 .. ImageSlots)
  BY FS_Interval, EglAssumption
<1>2. Used(slots) \in SUBSET (1 .. ImageSlots)
  BY DEF Used
<1>3. IsFiniteSet(Used(slots))
  BY <1>1, <1>2, FS_Subset
<1> QED BY <1>2, <1>3, FS_CardinalityType DEF Used, Slots

(* Emptying slots takes their images out and leaves the others.            *)
LEMMA Dropping ==
  ASSUME NEW slots \in Slots, NEW mine \in SUBSET Used(slots), NEW new,
         new = [i \in DOMAIN slots |-> IF i \in mine THEN Empty ELSE slots[i]]
  PROVE  /\ new \in Slots /\ Used(new) = Used(slots) \ mine
         /\ \A i \in Used(new) : i \in Used(slots) /\ new[i] = slots[i]
         /\ Cardinality(mine) \in Nat
         /\ Cardinality(Used(new)) = Cardinality(Used(slots)) - Cardinality(mine)
<1>1. new \in Slots
  BY DEF Slots
<1>2. Used(new) = Used(slots) \ mine
  BY DEF Slots, Used
<1>3. \A i \in Used(new) : i \in Used(slots) /\ new[i] = slots[i]
  BY DEF Slots, Used
<1>4. IsFiniteSet(Used(slots))
  BY UsedFacts
<1>5. IsFiniteSet(mine) /\ Cardinality(mine) \in Nat
  BY <1>4, FS_Subset, FS_CardinalityType
<1>6. Cardinality(Used(slots) \ mine) = Cardinality(Used(slots)) - Cardinality(Used(slots) \cap mine)
  BY <1>4, FS_Difference
<1>7. Used(slots) \cap mine = mine
  OBVIOUS
<1> QED BY <1>1, <1>2, <1>3, <1>5, <1>6, <1>7

(* Filling a slot adds one image, in place of the one it held.             *)
LEMMA Filling ==
  ASSUME NEW slots \in Slots, NEW s \in 1 .. ImageSlots, NEW image \in ImageType,
         NEW new \in Slots, new[s] = image,
         \A i \in 1 .. ImageSlots : i # s => new[i] = slots[i]
  PROVE  /\ \A i \in Used(new) : i # s => i \in Used(slots) /\ new[i] = slots[i]
         /\ slots[s] = Empty => Cardinality(Used(new)) = Cardinality(Used(slots)) + 1
         /\ slots[s] # Empty => Cardinality(Used(new)) = Cardinality(Used(slots))
<1>1. Used(new) = Used(slots) \cup {s}
  BY EmptyFacts DEF Slots, Used
<1>2. \A i \in Used(new) : i # s => i \in Used(slots) /\ new[i] = slots[i]
  BY DEF Slots, Used
<1>3. IsFiniteSet(Used(slots)) /\ Cardinality(Used(slots)) \in Nat
  BY UsedFacts
<1>4. CASE slots[s] = Empty
  <2>1. s \notin Used(slots)
    BY <1>4 DEF Used
  <2>2. Cardinality(Used(slots) \cup {s}) = Cardinality(Used(slots)) + 1
    BY <1>3, <2>1, FS_AddElement
  <2>3. Cardinality(Used(new)) = Cardinality(Used(slots)) + 1
    BY <1>1, <2>2, Zenon
  <2> QED BY <1>2, <1>4, <2>3
<1>5. CASE slots[s] # Empty
  <2>1. s \in Used(slots)
    BY <1>5 DEF Used
  <2>2. Used(new) = Used(slots)
    BY <1>1, <2>1
  <2>3. Cardinality(Used(new)) = Cardinality(Used(slots))
    BY <2>2, Zenon
  <2> QED BY <1>2, <1>5, <2>3
<1> QED BY <1>4, <1>5

(* The slot that makes room is one of the slots.                           *)
LEMMA VictimFacts ==
  ASSUME NEW slots \in Slots, NEW next \in 0 .. ImageSlots - 1
  PROVE  /\ Victim(slots, next).slot \in 1 .. ImageSlots
         /\ Victim(slots, next).next \in 0 .. ImageSlots - 1
<1> DEFINE free == {i \in DOMAIN slots : slots[i] = Empty}
<1>1. free \in SUBSET (1 .. ImageSlots)
  BY DEF Slots
<1>2. ImageSlots \in Nat /\ ImageSlots > 0
  BY EglAssumption
<1>3. CASE free = {}
  <2>1. (next + 1) % ImageSlots \in 0 .. ImageSlots - 1
    BY <1>2
  <2> QED BY <1>2, <1>3, <2>1 DEF Victim
<1>4. CASE free # {}
  <2>1. free \in SUBSET Nat
    BY <1>1
  <2>2. Min(free) \in free
    BY <1>4, <2>1, MinIn
  <2> QED BY <1>1, <1>4, <2>2 DEF Victim
<1> QED BY <1>3, <1>4

(* However an import is retried, it is sampled as what it is.              *)
LEMMA ImportsFaithful ==
  ASSUME NEW d \in Descs, NEW fd \in BOOLEAN
  PROVE  /\ \A as \in Imports(d, fd) : as = d
         /\ \A as \in Imports(d, fd) : fd
<1>1. RetrySafe(d) => [d EXCEPT !.format = "rgb8", !.order = "rgb", !.planes = 1] = d
  BY DEF RetrySafe, Descs
<1>2. RetrySafe(d) /\ d.mod = "linear"
        => [[d EXCEPT !.format = "rgb8", !.order = "rgb", !.planes = 1] EXCEPT !.mod = "linear"] = d
  BY <1>1 DEF Descs
<1>3. Retried(d) \subseteq {d}
  BY <1>1, <1>2 DEF Retried
<1> QED BY <1>3 DEF Imports

(* What a draw samples: an image of this context and device, and of this   *)
(* buffer as far as the inodes tell, at the geometry that was sent.        *)
Sources(from, c, dev, b, fd) ==
  /\ from \in ImageType
  /\ from.owner = c /\ from.dev = dev
  /\ from.as = Desc[from.buf] /\ from.as.size = Desc[b].size
  /\ fd /\ from.inode # None => from.buf = b

(* A slot that is still good is what the caller means.                     *)
LEMMA HitFacts ==
  ASSUME NEW s \in ImageType, NEW c, NEW dev, NEW b \in Bufs, NEW fd \in BOOLEAN,
         s.owner = c, s.dev = dev, StillGood(s, Desc[b], IF fd THEN b ELSE None)
  PROVE  Sources(s, c, dev, b, fd)
<1>1. s.desc = Desc[s.buf] /\ s.as = Desc[s.buf] /\ s.desc = Desc[b]
  BY DEF ImageType, StillGood
<1>2. ASSUME fd, s.inode # None PROVE s.buf = b
  <2>1. s.inode = b
    BY <1>2, EmptyFacts DEF StillGood
  <2> QED BY <1>2, <2>1 DEF ImageType
<1> QED BY <1>1, <1>2 DEF Sources

(* So is a new import.                                                     *)
LEMMA FreshFacts ==
  ASSUME NEW c \in Ctxs, NEW dev \in Devices, NEW fb \in Fbs \cup {None}, NEW b \in Bufs,
         NEW fd \in BOOLEAN
  PROVE  Sources([owner |-> c, fb |-> fb, desc |-> Desc[b], inode |-> IF fd THEN b ELSE None,
                  buf |-> b, as |-> Desc[b], dev |-> dev], c, dev, b, fd)
<1>1. Desc[b] \in Descs
  BY EglAssumption
<1>2. PICK inode \in Bufs \cup {None} :
        inode = (IF fd THEN b ELSE None) /\ (inode # None => inode = b)
  OBVIOUS
<1> DEFINE s == [owner |-> c, fb |-> fb, desc |-> Desc[b], inode |-> inode, buf |-> b,
                 as |-> Desc[b], dev |-> dev]
<1>3. s \in ImageType
  BY <1>1, <1>2 DEF ImageType
<1>4. Sources(s, c, dev, b, fd)
  BY <1>1, <1>3 DEF Sources
<1> QED BY <1>2, <1>4

(* The lookup of an image keeps the slots good, counts what it makes and   *)
(* destroys, and finds an image that is what the caller means.             *)
LEMMA LookupFacts ==
  ASSUME NEW g, NEW homes \in SUBSET Ctxs, SlotsGood(g, homes), g.device \in Devices,
         NEW c \in homes, NEW fb \in Fbs \cup {None}, NEW b \in Bufs, NEW fd \in BOOLEAN,
         NEW l \in Lookup(g, c, fb, b, fd)
  PROVE  /\ SlotsGood(l.gl, homes) /\ l.gl.device = g.device /\ l.gl.hash = g.hash
         /\ l.made \in Int
         /\ Cardinality(Used(l.gl.slots)) = Cardinality(Used(g.slots)) + l.made - PerCall(l)
         /\ ~l.ok => PerCall(l) = 0
         /\ l.ok => Sources(l.from, c, g.device, b, fd)
<1> DEFINE d == Desc[b]
           inode == IF fd THEN b ELSE None
           mine == {i \in DOMAIN g.slots : fb # None /\ g.slots[i].fb = fb /\ g.slots[i].owner = c}
           hits == {i \in mine : StillGood(g.slots[i], d, inode)}
           slots == [i \in DOMAIN g.slots |-> IF i \in mine \ hits THEN Empty ELSE g.slots[i]]
           dropped == Cardinality(mine \ hits)
           Fresh(as) == [owner |-> c, fb |-> fb, desc |-> d, inode |-> inode, buf |-> b,
                         as |-> as, dev |-> g.device]
           v == Victim(slots, g.next)
           evicted == IF slots[v.slot] = Empty THEN 0 ELSE 1
           failed == [ok |-> FALSE, gl |-> [g EXCEPT !.slots = slots], from |-> Empty,
                      made |-> -dropped, cached |-> TRUE]
           Adopted(image) ==
             IF fb = None
             THEN [ok |-> TRUE, gl |-> g, from |-> image, made |-> 1, cached |-> FALSE]
             ELSE [ok |-> TRUE, from |-> image, made |-> 1 - dropped - evicted, cached |-> TRUE,
                   gl |-> [g EXCEPT !.slots = [slots EXCEPT ![v.slot] = image], !.next = v.next]]
<1>1. /\ g \in GlType /\ g.slots \in Slots /\ g.next \in 0 .. ImageSlots - 1
      /\ c \in Ctxs /\ d \in Descs
  BY EglAssumption DEF SlotsGood, GlType
<1>2. mine \in SUBSET Used(g.slots)
  BY <1>1, EmptyFacts DEF Used, Slots
<1>3. Cardinality(Used(g.slots)) \in Nat
  BY <1>1, UsedFacts
<1>4. CASE hits # {}
  <2>1. l = [ok |-> TRUE, gl |-> g, from |-> g.slots[Min(hits)], made |-> 0, cached |-> TRUE]
    BY <1>4 DEF Lookup
  <2>2. hits \in SUBSET Nat
    BY <1>2 DEF Used
  <2>3. PICK i \in hits : i = Min(hits)
    BY <1>4, <2>2, MinIn
  <2>4. /\ i \in Used(g.slots) /\ g.slots[i].owner = c
        /\ StillGood(g.slots[i], Desc[b], IF fd THEN b ELSE None)
    BY <1>2
  <2>5. g.slots[i] \in ImageType /\ g.slots[i].dev = g.device
    BY <1>1, <2>4, UsedFacts DEF SlotsGood
  <2>6. Sources(g.slots[i], c, g.device, b, fd)
    BY <2>4, <2>5, HitFacts
  <2>7. /\ l.gl = g /\ l.made = 0 /\ l.cached /\ l.ok /\ l.from = g.slots[i]
    BY <2>1, <2>3
  <2> QED BY <1>3, <2>6, <2>7 DEF PerCall
<1>5. CASE hits = {}
  <2>1. mine \ hits = mine
    BY <1>5
  <2> HIDE DEF mine, hits
  <2>2. slots = [i \in DOMAIN g.slots |-> IF i \in mine THEN Empty ELSE g.slots[i]]
    BY <2>1
  <2>3. dropped = Cardinality(mine)
    BY <2>1
  <2> HIDE DEF slots, dropped
  <2>4. /\ slots \in Slots /\ Used(slots) = Used(g.slots) \ mine
        /\ \A i \in Used(slots) : i \in Used(g.slots) /\ slots[i] = g.slots[i]
        /\ dropped \in Nat
        /\ Cardinality(Used(slots)) = Cardinality(Used(g.slots)) - dropped
    BY <1>1, <1>2, <2>2, <2>3, Dropping
  <2>5. \A i \in Used(slots) : slots[i].dev = g.device /\ slots[i].owner \in homes
    BY <2>4 DEF SlotsGood
  <2>6. OneSlotEach(slots)
    BY <2>4 DEF SlotsGood, OneSlotEach
  <2>7. ASSUME fb # None
        PROVE  \A i \in Used(slots) : slots[i].fb = fb => slots[i].owner # c
    BY <1>1, <2>4, <2>7 DEF mine, Used, Slots
  <2>8. \/ l = failed
        \/ \E as \in Imports(d, fd) : l \in Textured(Adopted(Fresh(as)), failed)
    BY <1>5, ZenonT(60) DEF Lookup, mine, hits, slots, dropped
  <2> HIDE DEF d
  <2>9. CASE l = failed
    <3>1. /\ l.gl \in GlType /\ l.gl.slots = slots
          /\ l.gl.device = g.device /\ l.gl.hash = g.hash
      BY <1>1, <2>4, <2>9 DEF GlType
    <3>2. SlotsGood(l.gl, homes)
      BY <2>5, <2>6, <3>1 DEF SlotsGood
    <3>3. /\ ~l.ok /\ l.made = -dropped /\ l.cached
      BY <2>9
    <3>4. PerCall(l) = 0
      BY <3>3 DEF PerCall
    <3>5. Cardinality(Used(l.gl.slots)) = Cardinality(Used(slots))
      BY <3>1, Zenon
    <3>6. Cardinality(Used(l.gl.slots)) = Cardinality(Used(g.slots)) + l.made - PerCall(l)
      BY ONLY <1>3, <2>4, <3>3, <3>4, <3>5
    <3> QED BY <2>4, <3>1, <3>2, <3>3, <3>4, <3>6
  <2>10. CASE \E as \in Imports(d, fd) : l = Adopted(Fresh(as))
    <3>1. l = Adopted(Fresh(d))
      BY <1>1, <2>10, ImportsFaithful
    <3>2. PICK image : image = Fresh(d) /\ l = Adopted(image)
      BY <3>1
    <3>3. Sources(image, c, g.device, b, fd)
      BY <1>1, <3>2, FreshFacts DEF d
    <3>4. image \in ImageType /\ image.owner = c /\ image.dev = g.device
      BY <3>3 DEF Sources
    <3> HIDE DEF Fresh
    <3>5. CASE fb = None
      <4>1. /\ l.ok /\ l.gl = g /\ l.from = image /\ l.made = 1 /\ ~l.cached
        BY <3>2, <3>5
      <4> QED BY <1>3, <3>3, <4>1 DEF PerCall
    <3>6. CASE fb # None
      <4>1. v.slot \in 1 .. ImageSlots /\ v.next \in 0 .. ImageSlots - 1
        BY <1>1, <2>4, VictimFacts
      <4>2. PICK s \in 1 .. ImageSlots, n \in 0 .. ImageSlots - 1 : s = v.slot /\ n = v.next
        BY <4>1
      <4> HIDE DEF v
      <4> DEFINE new == [slots EXCEPT ![s] = image]
      <4>3. /\ l.ok /\ l.from = image /\ l.made = 1 - dropped - evicted /\ l.cached
            /\ l.gl = [g EXCEPT !.slots = new, !.next = n]
        BY <3>2, <3>6, <4>2
      <4>4. PICK filled : filled = new
        OBVIOUS
      <4> HIDE DEF new
      <4>5. /\ filled \in Slots /\ filled[s] = image
            /\ \A i \in Used(filled) : i # s => i \in Used(slots) /\ filled[i] = slots[i]
            /\ Cardinality(Used(filled)) = Cardinality(Used(slots)) + 1 - evicted
        <5>1. PICK base \in Slots, one \in ImageType : base = slots /\ one = image
          BY <2>4, <3>4
        <5>2. filled = [base EXCEPT ![s] = one]
          BY <4>4, <5>1 DEF new
        <5>3. filled \in Slots /\ filled[s] = one
          BY <4>2, <5>1, <5>2 DEF Slots
        <5>4. \A i \in 1 .. ImageSlots : i # s => filled[i] = base[i]
          BY <4>2, <5>1, <5>2 DEF Slots
        <5>5. /\ \A i \in Used(filled) : i # s => i \in Used(base) /\ filled[i] = base[i]
              /\ base[s] = Empty => Cardinality(Used(filled)) = Cardinality(Used(base)) + 1
              /\ base[s] # Empty => Cardinality(Used(filled)) = Cardinality(Used(base))
          BY <4>2, <5>1, <5>3, <5>4, Filling
        <5>6. evicted = IF base[s] = Empty THEN 0 ELSE 1
          BY <4>2, <5>1
        <5>7. Cardinality(Used(base)) \in Nat
          BY UsedFacts
        <5>8. Cardinality(Used(filled)) = Cardinality(Used(base)) + 1 - evicted
          BY ONLY <5>5, <5>6, <5>7
        <5> QED BY <5>1, <5>5, <5>8, <5>3
      <4>6. \A i \in Used(filled) : filled[i].dev = g.device /\ filled[i].owner \in homes
        BY <2>5, <3>4, <4>5
      <4>7. /\ l.gl \in GlType /\ l.gl.slots = filled
            /\ l.gl.device = g.device /\ l.gl.hash = g.hash
        <5>1. g \in GlType /\ filled \in Slots /\ n \in 0 .. ImageSlots - 1
          BY <1>1, <4>2, <4>5 DEF SlotsGood
        <5>2. l.gl = [g EXCEPT !.slots = filled, !.next = n]
          BY <4>3, <4>4
        <5> QED BY <5>1, <5>2 DEF GlType
      <4>8. image.fb = fb
        BY <3>2 DEF Fresh
      <4>9. OneSlotEach(filled)
        <5>1. SUFFICES ASSUME NEW i \in Used(filled), NEW j \in Used(filled), i # j,
                              filled[i].fb = filled[j].fb, filled[i].owner = filled[j].owner
                       PROVE  FALSE
          BY DEF OneSlotEach
        <5>2. CASE i # s /\ j # s
          BY <2>6, <4>5, <5>1, <5>2 DEF OneSlotEach
        <5>3. CASE i = s
          BY <2>7, <3>4, <3>6, <4>5, <4>8, <5>1, <5>3
        <5>4. CASE j = s
          BY <2>7, <3>4, <3>6, <4>5, <4>8, <5>1, <5>4
        <5> QED BY <5>2, <5>3, <5>4
      <4>10. SlotsGood(l.gl, homes)
        BY <4>6, <4>7, <4>9 DEF SlotsGood
      <4>11. evicted \in Int
        OBVIOUS
      <4> HIDE DEF evicted
      <4>12. PerCall(l) = 0
        BY <4>3 DEF PerCall
      <4> QED BY <1>3, <2>4, <3>3, <4>3, <4>5, <4>11, <4>12, <4>7, <4>10
    <3> QED BY <3>5, <3>6
  <2> QED BY <2>8, <2>9, <2>10 DEF Textured
<1> QED BY <1>4, <1>5

-----------------------------------------------------------------------------
(* The GL state and the readback.                                          *)

(* No GL state has no images, and no hash.                                 *)
LEMMA NoGlFacts ==
  /\ NoGl \in GlType /\ NoGl.device = None /\ ~NoGl.hash.valid /\ NoGl.hash.owner = None
  /\ Used(NoGl.slots) = {} /\ Cardinality(Used(NoGl.slots)) = 0
  /\ \A homes : SlotsGood(NoGl, homes)
<1>1. ImageSlots \in Nat /\ 0 \in 0 .. ImageSlots - 1
  BY EglAssumption
<1>2. [i \in 1 .. ImageSlots |-> Empty] \in Slots
  BY DEF Slots
<1>3. NoHash \in HashType
  BY DEF NoHash, HashType, Garbage, Contents, Sizes
<1>4. NoGl \in GlType
  BY <1>1, <1>2, <1>3 DEF NoGl, GlType
<1>5. Used(NoGl.slots) = {}
  BY DEF NoGl, Used
<1>6. Cardinality(Used(NoGl.slots)) = 0
  BY <1>5, FS_EmptySet
<1>7. NoGl.device = None /\ ~NoGl.hash.valid /\ NoGl.hash.owner = None
  BY DEF NoGl, NoHash
<1> QED BY <1>4, <1>5, <1>6, <1>7 DEF SlotsGood, OneSlotEach

(* The GL state a call works on: of its device, all its images counted,    *)
(* and its hash as it was or none.                                         *)
LEMMA EnterFacts ==
  ASSUME CtxInv, GlInv, NEW c \in Ctxs, cx[c].open, NEW e \in Enter(cx[c].device)
  PROVE  /\ SlotsGood(e.gl, Homes(e.gl.device))
         /\ images - e.fallen = Cardinality(Used(e.gl.slots))
         /\ ~e.gl.hash.valid
         /\ e.ok => e.gl.device = cx[c].device
         /\ gl.hash.valid /\ e.gl.hash.owner = c => HashOf(e.gl.hash, cx[c])
         /\ images \in Int /\ e.fallen \in Int
<1>1. PICK dev \in Devices : dev = cx[c].device
  BY DEF CtxInv, CtxType
<1> DEFINE kept == IF Moved(dev) THEN NoGl ELSE [gl EXCEPT !.hash.valid = FALSE]
           fallen == IF Moved(dev) THEN Cardinality(InUse) ELSE 0
<1>2. gl \in GlType /\ gl.hash \in HashType /\ gl.slots \in Slots
  BY DEF GlInv, SlotsGood, GlType
<1>3. InUse = Used(gl.slots)
  BY DEF InUse, Used
<1>4. images = Cardinality(Used(gl.slots)) /\ images \in Nat
  BY <1>2, UsedFacts DEF GlInv
<1>5. /\ SlotsGood(kept, Homes(kept.device))
      /\ images - fallen = Cardinality(Used(kept.slots)) /\ fallen \in Int
      /\ ~kept.hash.valid
      /\ kept.device \in {None, dev}
      /\ gl.hash.valid /\ kept.hash.owner = c => HashOf(kept.hash, cx[c])
  <2>1. CASE Moved(dev)
    <3>1. kept = NoGl /\ fallen = images
      BY <1>3, <1>4, <2>1
    <3>2. kept.hash.owner # c
      BY <3>1, NoGlFacts, EmptyFacts
    <3> HIDE DEF kept, fallen
    <3> QED BY <1>4, <3>1, <3>2, NoGlFacts
  <2>2. CASE ~Moved(dev)
    <3>1. kept = [gl EXCEPT !.hash.valid = FALSE] /\ fallen = 0
      BY <2>2
    <3> HIDE DEF kept, fallen
    <3>2. /\ kept \in GlType /\ kept.slots = gl.slots /\ kept.device = gl.device
          /\ ~kept.hash.valid /\ kept.hash.owner = gl.hash.owner
          /\ kept.hash.shape = gl.hash.shape /\ kept.hash.gen = gl.hash.gen
          /\ kept.hash.prev = gl.hash.prev
      BY <1>2, <3>1 DEF GlType, HashType
    <3>3. SlotsGood(kept, Homes(kept.device))
      BY <3>2 DEF SlotsGood, GlInv
    <3>4. kept.device \in {None, dev}
      BY <2>2, <3>2 DEF Moved
    <3>5. gl.hash.valid /\ kept.hash.owner = c => HashOf(kept.hash, cx[c])
      BY <3>2 DEF GlInv, HashGood, HashOf
    <3> QED BY <1>4, <3>1, <3>2, <3>3, <3>4, <3>5
  <2> QED BY <2>1, <2>2
<1>6. \/ e = [ok |-> FALSE, gl |-> kept, fallen |-> fallen]
      \/ kept.device # None /\ e = [ok |-> TRUE, gl |-> kept, fallen |-> fallen]
      \/ kept.device = None /\ \E g \in Initialized(kept, dev) :
                                 e = [ok |-> TRUE, gl |-> g, fallen |-> fallen]
  BY <1>1 DEF Enter
<1> HIDE DEF kept, fallen
<1>7. CASE e = [ok |-> FALSE, gl |-> kept, fallen |-> fallen]
  BY <1>4, <1>5, <1>7
<1>8. CASE kept.device # None /\ e = [ok |-> TRUE, gl |-> kept, fallen |-> fallen]
  <2>1. kept.device = cx[c].device
    BY <1>1, <1>5, <1>8
  <2> QED BY <1>4, <1>5, <1>8, <2>1
<1>9. CASE kept.device = None /\ \E g \in Initialized(kept, dev) :
                                    e = [ok |-> TRUE, gl |-> g, fallen |-> fallen]
  <2>1. PICK on \in BOOLEAN :
          e = [ok |-> TRUE, gl |-> [kept EXCEPT !.device = dev, !.hash.on = on], fallen |-> fallen]
    BY <1>9 DEF Initialized, HashSetup
  <2>2. kept \in GlType
    BY <1>5 DEF SlotsGood
  <2>3. /\ e.gl \in GlType /\ e.gl.slots = kept.slots /\ e.gl.device = dev
        /\ ~e.gl.hash.valid /\ e.gl.hash.owner = kept.hash.owner
        /\ e.gl.hash.shape = kept.hash.shape /\ e.gl.hash.gen = kept.hash.gen
        /\ e.gl.hash.prev = kept.hash.prev
    BY <1>5, <2>1, <2>2 DEF GlType, HashType
  <2>4. Homes(None) = {}
    BY DEF Homes, CtxInv
  <2>5. Used(e.gl.slots) = {}
    BY <1>5, <1>9, <2>3, <2>4 DEF SlotsGood
  <2>6. SlotsGood(e.gl, Homes(e.gl.device))
    BY <2>3, <2>5 DEF SlotsGood, OneSlotEach
  <2>7. gl.hash.valid /\ e.gl.hash.owner = c => HashOf(e.gl.hash, cx[c])
    BY <1>5, <2>3 DEF HashOf
  <2>8. e.ok /\ e.fallen = fallen
    BY <2>1
  <2> QED BY <1>1, <1>4, <1>5, <2>3, <2>6, <2>7, <2>8
<1> QED BY <1>6, <1>7, <1>8, <1>9

(* A hash that is not valid is kept as one that is compared with nothing.  *)
LEMMA KeptFacts ==
  ASSUME NEW h \in HashType
  PROVE  /\ Kept(h) \in HashType
         /\ Kept(h).valid = h.valid
         /\ h.valid => Kept(h) = h
<1>1. NoHash \in HashType /\ ~NoHash.valid
  BY DEF NoHash, HashType, Garbage, Contents, Sizes
<1>2. CASE h.valid
  BY <1>2 DEF Kept
<1>3. CASE ~h.valid
  <2>1. Kept(h) = [NoHash EXCEPT !.on = h.on] /\ h.valid = FALSE
    BY <1>3 DEF Kept, HashType
  <2> QED BY <1>1, <1>3, <2>1 DEF HashType
<1> QED BY <1>2, <1>3

(* What a readback does: at most the hash of the GL state changes, a       *)
(* success hands out what it drew, in the context's own buffer too, and a  *)
(* hash that is left is one of this context and of that buffer.            *)
Finishes(r, g, c, x, d) ==
  /\ r.gl \in GlType /\ r.gl.slots = g.slots /\ r.gl.device = g.device
  /\ Reaches(x, r.x)
  /\ r.ok => r.dst = r.drawn /\ r.drawn.size = d.size
  /\ r.ok /\ x.user = 0 => r.x.out = r.drawn
  /\ r.gl.hash.valid => r.ok /\ r.gl.hash.owner = c /\ HashOf(r.gl.hash, r.x)

(* So does every readback.                                                 *)
LEMMA ReadbackFacts ==
  ASSUME NEW g \in GlType, ~g.hash.valid, NEW was \in BOOLEAN, NEW c \in Ctxs,
         NEW x \in CtxType, NEW d \in Descs, was /\ g.hash.owner = c => HashOf(g.hash, x),
         NEW o \in Readback(g, was, c, x, d)
  PROVE  Finishes(o, g, c, x, d)
<1> DEFINE h == g.hash
           size == d.size
           hashing == Hashing(g, x, size)
           off == [h EXCEPT !.on = FALSE, !.valid = FALSE]
<1>1. /\ h \in HashType /\ ~h.valid /\ off \in HashType /\ ~off.valid
      /\ size \in Sizes /\ Garbage \in Contents /\ x.gen \in Nat
  <2>1. h \in HashType /\ ~h.valid
    BY DEF GlType
  <2>2. off \in HashType /\ ~off.valid
    BY <2>1 DEF HashType
  <2>3. size \in Sizes /\ x.gen \in Nat
    BY DEF Descs, CtxType
  <2>4. Garbage \in Contents
    BY DEF Garbage, Contents, Sizes
  <2> QED BY <2>1, <2>2, <2>3, <2>4
<1>2. ASSUME NEW hash \in HashType, ~hash.valid, NEW y, Reaches(x, y), o = Failed(g, hash, y)
      PROVE  Finishes(o, g, c, x, d)
  <2>1. Kept(hash) \in HashType /\ ~Kept(hash).valid
    BY <1>2, KeptFacts
  <2>2. /\ o.gl \in GlType /\ o.gl.slots = g.slots /\ o.gl.device = g.device
        /\ o.gl.hash = Kept(hash) /\ o.x = y /\ ~o.ok
    BY <1>2, <2>1 DEF GlType, Failed, Result
  <2> QED BY <1>2, <2>1, <2>2 DEF Finishes
<1>3. ASSUME NEW hash \in HashType, NEW y, Reaches(x, y), NEW drawn, drawn.size = size,
             NEW dst, dst = drawn, x.user = 0 => y.out = drawn,
             hash.valid => hash.owner = c /\ HashOf(hash, y), o = Result(TRUE, g, hash, y, drawn, dst)
      PROVE  Finishes(o, g, c, x, d)
  <2>1. Kept(hash) \in HashType /\ (Kept(hash).valid => hash.valid /\ Kept(hash) = hash)
    BY KeptFacts
  <2>2. /\ o.gl \in GlType /\ o.gl.slots = g.slots /\ o.gl.device = g.device
        /\ o.gl.hash = Kept(hash) /\ o.x = y /\ o.ok /\ o.drawn = drawn /\ o.dst = dst
    BY <1>3, <2>1 DEF GlType, Result
  <2> QED BY <1>3, <2>1, <2>2 DEF Finishes
<1>4. CASE hashing /\ o = Failed(g, h, x)
  <2>1. Reaches(x, x)
    BY DEF Reaches
  <2> QED BY <1>1, <1>2, <1>4, <2>1
<1>5. CASE \E r \in EnsureOut(x, size), drawn \in Draws(size) : o \in Resolved(g, was, c, x, d, r, drawn)
  <2>1. PICK r \in EnsureOut(x, size), drawn \in Draws(size) : o \in Resolved(g, was, c, x, d, r, drawn)
    BY <1>5
  <2>2. drawn \in Contents /\ drawn.size = size
    BY <1>1 DEF Draws, Contents
  <2> DEFINE y == r.x
  <2>3. /\ y \in CtxType /\ y.gen = x.gen + 1
        /\ y.open = x.open /\ y.device = x.device /\ y.user = x.user
        /\ r.ret = "ok" /\ x.user = 0 => size <= y.cap
        /\ x.user = 0 /\ size <= x.cap => y.cap = x.cap /\ y.out = x.out
    BY <1>1, EnsureOutFacts
  <2>4. Reaches(x, y)
    BY <1>1, <2>3 DEF Reaches
  <2>5. ASSUME NEW image \in Contents
        PROVE  /\ Written(y, image) \in CtxType /\ Reaches(x, Written(y, image))
               /\ Written(y, image).gen = y.gen /\ Written(y, image).cap = y.cap
               /\ x.user = 0 => Written(y, image).out = image
    <3>1. /\ Written(y, image) \in CtxType /\ Written(y, image).gen = y.gen
          /\ Written(y, image).open = y.open /\ Written(y, image).device = y.device
          /\ Written(y, image).user = y.user /\ Written(y, image).cap = y.cap
          /\ y.user = 0 => Written(y, image).out = image
      BY <2>3, WrittenFacts
    <3> QED BY <1>1, <2>3, <3>1 DEF Reaches
  <2> HIDE DEF y, Resolved
  <2>6. ASSUME NEW hash \in HashType, ~hash.valid, o = Failed(g, hash, Written(y, Garbage))
        PROVE  Finishes(o, g, c, x, d)
    BY <1>1, <1>2, <2>5, <2>6
  <2>7. ASSUME NEW hash \in HashType, o = Result(TRUE, g, hash, Written(y, drawn), drawn, drawn),
               hash.valid => hash.owner = c /\ HashOf(hash, Written(y, drawn))
        PROVE  Finishes(o, g, c, x, d)
    BY <1>3, <2>2, <2>5, <2>7
  <2>8. CASE r.ret # "ok"
    <3>1. o = Failed(g, h, y)
      BY <2>1, <2>8 DEF y, Resolved
    <3> QED BY <1>1, <1>2, <2>4, <3>1
  <2>9. CASE r.ret = "ok" /\ ~hashing
    <3>1. o \in ReadPixels(g, y, drawn, h, h)
      BY <2>1, <2>9 DEF y, Resolved
    <3> QED BY <1>1, <2>6, <2>7, <3>1 DEF ReadPixels
  <2>10. CASE r.ret = "ok" /\ hashing
    <3>1. x.user = 0
      BY <2>10 DEF Hashing
    <3>2. \/ o \in ReadPixels(g, y, drawn, off, off)
          \/ /\ was /\ Unchanged(h, c, x, d, drawn)
             /\ o = Result(TRUE, g, [h EXCEPT !.valid = TRUE, !.gen = y.gen], y, drawn, Held(y))
          \/ o \in ReadPixels(g, y, drawn, h, Committed(c, y, d, drawn))
      BY <2>1, <2>10 DEF y, Resolved
    <3>3. CASE o \in ReadPixels(g, y, drawn, off, off)
      BY <1>1, <2>6, <2>7, <3>3 DEF ReadPixels
    <3>4. CASE /\ was /\ Unchanged(h, c, x, d, drawn)
               /\ o = Result(TRUE, g, [h EXCEPT !.valid = TRUE, !.gen = y.gen], y, drawn, Held(y))
      <4> DEFINE same == [h EXCEPT !.valid = TRUE, !.gen = y.gen]
      <4>1. o = Result(TRUE, g, same, y, drawn, Held(y))
        BY <3>4
      <4>2. /\ x.gen = h.gen /\ h.owner = c /\ h.shape = Shape(d) /\ h.prev = drawn
        BY <3>4 DEF Unchanged
      <4>3. h.shape.size = size
        BY <4>2 DEF Shape, Descs
      <4>4. x.out = drawn /\ size <= x.cap
        BY <3>4, <4>2, <4>3 DEF HashOf
      <4>5. y.out = drawn /\ y.cap = x.cap /\ size <= y.cap
        BY <2>3, <3>1, <4>4
      <4>6. Held(y) = drawn
        BY <2>3, <3>1, <4>5 DEF Held
      <4>7. /\ same \in HashType /\ same.owner = c /\ same.gen = y.gen
            /\ same.shape = h.shape /\ same.prev = drawn
        BY <1>1, <2>3, <4>2 DEF HashType, CtxType
      <4> HIDE DEF same
      <4>8. y.gen \in Nat
        BY <2>3 DEF CtxType
      <4>9. HashOf(same, y)
        BY <2>2, <4>3, <4>5, <4>7, <4>8 DEF HashOf
      <4> QED BY <1>3, <2>2, <2>4, <4>1, <4>5, <4>6, <4>7, <4>9
    <3>5. CASE o \in ReadPixels(g, y, drawn, h, Committed(c, y, d, drawn))
      <4> DEFINE good == Committed(c, y, d, drawn)
      <4>1. o \in ReadPixels(g, y, drawn, h, good)
        BY <3>5
      <4>2. Shape(d) \in Descs /\ Shape(d).size = size
        BY DEF Shape, Descs
      <4>3. /\ good \in HashType /\ good.owner = c /\ good.gen = y.gen
            /\ good.shape = Shape(d) /\ good.prev = drawn
        BY <2>2, <2>3, <4>2 DEF Committed, HashType, CtxType
      <4> HIDE DEF good
      <4>4. y.gen \in Nat
        BY <2>3 DEF CtxType
      <4>5. HashOf(good, Written(y, drawn))
        BY <2>2, <2>3, <2>5, <2>10, <3>1, <4>2, <4>3, <4>4 DEF HashOf
      <4> QED BY <1>1, <2>6, <2>7, <4>1, <4>3, <4>5 DEF ReadPixels
    <3> QED BY <3>2, <3>3, <3>4, <3>5
  <2> QED BY <2>8, <2>9, <2>10
<1>6. \/ hashing /\ o = Failed(g, h, x)
      \/ \E r \in EnsureOut(x, size), drawn \in Draws(size) : o \in Resolved(g, was, c, x, d, r, drawn)
  BY DEF Readback
<1> QED BY <1>4, <1>5, <1>6

-----------------------------------------------------------------------------
(* drmtap_gpu_egl_convert and the actions.                                 *)

(* What a detile comes to, whatever happens in it.                         *)
Detiles(o, c, b, fd) ==
  /\ SlotsGood(o.gl, Homes(o.gl.device))
  /\ o.images = Cardinality(Used(o.gl.slots))
  /\ Reaches(cx[c], o.x)
  /\ o.gl.hash.valid => o.ok /\ o.gl.hash.owner = c /\ HashOf(o.gl.hash, o.x)
  /\ o.ok => o.dst = o.drawn /\ o.drawn.size = Desc[b].size
  /\ o.ok => Sources(o.from, c, cx[c].device, b, fd)
  /\ o.ok /\ cx[c].user = 0 => o.x.out = o.drawn

(* Giving up leaves no hash, and everything else as it was.                *)
LEMMA NotDrawnFacts ==
  ASSUME NEW g, NEW n, NEW c \in Ctxs, NEW b, NEW fd, CtxInv, ~g.hash.valid,
         SlotsGood(g, Homes(g.device)), n = Cardinality(Used(g.slots)),
         NEW o, o = NotDrawn(g, cx[c], n)
  PROVE  Detiles(o, c, b, fd)
<1>1. g \in GlType /\ g.hash \in HashType
  BY DEF SlotsGood, GlType
<1>2. Kept(g.hash) \in HashType /\ ~Kept(g.hash).valid
  BY <1>1, KeptFacts
<1>3. /\ o.gl \in GlType /\ o.gl.slots = g.slots /\ o.gl.device = g.device
      /\ o.gl.hash = Kept(g.hash) /\ o.x = cx[c] /\ ~o.ok /\ o.images = n
  BY <1>1, <1>2 DEF NotDrawn, GlType
<1>4. SlotsGood(o.gl, Homes(o.gl.device))
  BY <1>3 DEF SlotsGood
<1>5. Reaches(cx[c], cx[c])
  BY DEF Reaches, CtxInv
<1> QED BY <1>2, <1>3, <1>4, <1>5 DEF Detiles

(* Every detile comes to that.                                             *)
LEMMA DetileFacts ==
  ASSUME CtxInv, GlInv, NEW c \in Ctxs, cx[c].open, NEW fb \in Fbs \cup {None}, NEW b \in Bufs,
         NEW fd \in BOOLEAN, NEW o \in Detile(c, fb, b, fd)
  PROVE  Detiles(o, c, b, fd)
<1>1. PICK x \in CtxType, dev \in Devices, was \in BOOLEAN :
        x = cx[c] /\ dev = x.device /\ was = gl.hash.valid
  BY DEF CtxInv, CtxType, GlInv, SlotsGood, GlType, HashType
<1>2. PICK e \in Enter(cx[c].device) :
        \/ ~e.ok /\ o = NotDrawn(e.gl, cx[c], images - e.fallen)
        \/ e.ok /\ \E l \in Lookup(e.gl, c, fb, b, fd) : o \in Sampled(e, l, c, b)
  BY DEF Detile
<1>3. /\ SlotsGood(e.gl, Homes(e.gl.device))
      /\ images - e.fallen = Cardinality(Used(e.gl.slots))
      /\ ~e.gl.hash.valid
      /\ e.ok => e.gl.device = cx[c].device
      /\ gl.hash.valid /\ e.gl.hash.owner = c => HashOf(e.gl.hash, cx[c])
      /\ images \in Int /\ e.fallen \in Int
  BY EnterFacts
<1>4. CASE ~e.ok /\ o = NotDrawn(e.gl, cx[c], images - e.fallen)
  BY <1>3, <1>4, NotDrawnFacts
<1>5. CASE e.ok /\ \E l \in Lookup(e.gl, c, fb, b, fd) : o \in Sampled(e, l, c, b)
  <2>1. PICK l \in Lookup(e.gl, c, fb, b, fd) : o \in Sampled(e, l, c, b)
    BY <1>5
  <2>2. PICK homes \in SUBSET Ctxs : homes = Homes(dev)
    BY DEF Homes
  <2>3. c \in homes /\ e.gl.device = dev
    BY <1>1, <1>3, <1>5, <2>2 DEF Homes
  <2>4. SlotsGood(e.gl, homes)
    BY <1>3, <2>2, <2>3
  <2>5. /\ SlotsGood(l.gl, homes) /\ l.gl.device = dev /\ l.gl.hash = e.gl.hash
        /\ l.made \in Int
        /\ Cardinality(Used(l.gl.slots)) = Cardinality(Used(e.gl.slots)) + l.made - PerCall(l)
        /\ ~l.ok => PerCall(l) = 0
        /\ l.ok => Sources(l.from, c, dev, b, fd)
    BY <2>1, <2>3, <2>4, LookupFacts
  <2> DEFINE n == images - e.fallen + l.made
  <2>6. PerCall(l) \in Int
    BY DEF PerCall
  <2>7. n - PerCall(l) = Cardinality(Used(l.gl.slots)) /\ n \in Int
    BY <1>3, <2>5, <2>6
  <2>8. CASE ~l.ok
    <3>1. o = NotDrawn(l.gl, cx[c], n)
      BY <2>1, <2>8 DEF Sampled
    <3>2. n = Cardinality(Used(l.gl.slots))
      BY <2>5, <2>7, <2>8
    <3>3. SlotsGood(l.gl, Homes(l.gl.device)) /\ ~l.gl.hash.valid
      BY <1>3, <2>2, <2>5
    <3> QED BY <3>1, <3>2, <3>3, NotDrawnFacts
  <2>9. CASE l.ok
    <3>1. PICK r \in Readback(l.gl, gl.hash.valid, c, cx[c], Desc[b]) :
            o = [ok |-> r.ok, gl |-> r.gl, x |-> r.x, images |-> n - PerCall(l),
                 from |-> l.from, drawn |-> r.drawn, dst |-> r.dst]
      BY <2>1, <2>9 DEF Sampled
    <3>2. Desc[b] \in Descs /\ l.gl \in GlType /\ ~l.gl.hash.valid
      BY <1>3, <2>5, EglAssumption DEF SlotsGood
    <3>3. r \in Readback(l.gl, was, c, x, Desc[b])
      BY <1>1, <3>1
    <3>4. was /\ l.gl.hash.owner = c => HashOf(l.gl.hash, x)
      BY <1>1, <1>3, <2>5
    <3>5. Finishes(r, l.gl, c, x, Desc[b])
      BY <3>2, <3>3, <3>4, ReadbackFacts
    <3>6. SlotsGood(r.gl, homes) /\ r.gl.device = dev
      BY <2>5, <3>5 DEF Finishes, SlotsGood
    <3>7. /\ o.ok = r.ok /\ o.gl = r.gl /\ o.x = r.x /\ o.images = n - PerCall(l)
          /\ o.from = l.from /\ o.drawn = r.drawn /\ o.dst = r.dst
      BY <3>1
    <3>8. o.images = Cardinality(Used(o.gl.slots))
      BY <2>7, <3>5, <3>7 DEF Finishes
    <3> QED BY <1>1, <2>2, <2>5, <2>9, <3>5, <3>6, <3>7, <3>8 DEF Finishes, Detiles
  <2> QED BY <2>8, <2>9
<1> QED BY <1>2, <1>4, <1>5

(* A step that changes nothing of a context but its output buffer.         *)
LEMMA CtxStep ==
  ASSUME CtxInv, NEW c \in Ctxs, NEW y, Reaches(cx[c], y), cx' = [cx EXCEPT ![c] = y]
  PROVE  /\ CtxInv' /\ cx'[c] = y
         /\ \A dev : Homes(dev)' = Homes(dev)
         /\ \A h \in HashType : HashGood(h) => HashGood(h)'
<1>1. /\ y \in CtxType /\ y.open = cx[c].open /\ y.device = cx[c].device
      /\ y = cx[c] \/ y.gen > cx[c].gen
  BY DEF Reaches
<1>2. /\ cx' \in [Ctxs -> CtxType] /\ cx'[c] = y
      /\ \A k \in Ctxs : k # c => cx'[k] = cx[k]
      /\ \A k \in Ctxs : cx'[k].open = cx[k].open
      /\ \A k \in Ctxs : cx'[k].device = cx[k].device
  BY <1>1 DEF CtxInv
<1>3. CtxInv'
  BY <1>2 DEF CtxInv
<1>4. \A dev : Homes(dev)' = Homes(dev)
  BY <1>2 DEF Homes
<1>5. ASSUME NEW h \in HashType, HashGood(h) PROVE HashGood(h)'
  <2>1. CASE ~h.valid
    BY <2>1 DEF HashGood
  <2>2. CASE h.valid
    <3>1. PICK k \in Ctxs : k = h.owner /\ cx[k].open /\ HashOf(h, cx[k])
      BY <1>5, <2>2 DEF HashGood
    <3>2. HashOf(h, cx'[k])
      <4>1. CASE cx'[k] = cx[k]
        BY <3>1, <4>1
      <4>2. CASE cx'[k] # cx[k]
        <5>1. k = c /\ y.gen > cx[c].gen
          BY <1>1, <1>2, <4>2
        <5>2. y.gen \in Nat /\ cx[c].gen \in Nat /\ h.gen \in Nat
          BY <1>1 DEF CtxType, CtxInv, HashType
        <5> QED BY <1>2, <3>1, <5>1, <5>2 DEF HashOf
      <4> QED BY <4>1, <4>2
    <3>3. h.owner \in Ctxs /\ cx'[h.owner].open /\ HashOf(h, cx'[h.owner])
      BY <1>2, <3>1, <3>2
    <3> QED BY <3>3 DEF HashGood
  <2> QED BY <2>1, <2>2
<1> QED BY <1>2, <1>3, <1>4, <1>5

(* The GL state as it was, with no context less for its device.            *)
LEMMA GlKept ==
  ASSUME GlInv, UNCHANGED <<gl, images>>, Homes(gl.device) \subseteq Homes(gl.device)',
         \A h \in HashType : HashGood(h) => HashGood(h)'
  PROVE  GlInv'
<1>1. gl' = gl /\ images' = images /\ gl.hash \in HashType
  BY DEF GlInv, SlotsGood, GlType
<1>2. HashGood(gl.hash)'
  BY <1>1 DEF GlInv, HashGood
<1>3. SlotsGood(gl, Homes(gl.device))'
  BY <1>1 DEF GlInv, SlotsGood
<1> QED BY <1>1, <1>2, <1>3 DEF GlInv

(* The GL state a detile leaves, after whatever its context went through.  *)
LEMMA GlAfter ==
  ASSUME CtxInv, NEW c \in Ctxs, cx[c].open, NEW b, NEW fd, NEW o, Detiles(o, c, b, fd),
         NEW y, y = o.x \/ (~o.ok /\ Reaches(cx[c], y)), cx' = [cx EXCEPT ![c] = y],
         gl' = o.gl, images' = o.images
  PROVE  CtxInv' /\ GlInv' /\ cx'[c] = y /\ Reaches(cx[c], y)
<1>1. Reaches(cx[c], y)
  BY DEF Detiles
<1>2. /\ CtxInv' /\ cx'[c] = y
      /\ \A dev : Homes(dev)' = Homes(dev)
  BY <1>1, CtxStep
<1>3. SlotsGood(gl, Homes(gl.device))'
  <2>1. PICK dev, homes : dev = o.gl.device /\ homes = Homes(dev)
    OBVIOUS
  <2>2. Homes(dev)' = homes
    BY <1>2, <2>1
  <2>3. Homes(gl.device)' = homes
    BY <2>1, <2>2 DEF Homes
  <2>4. SlotsGood(o.gl, homes)
    BY <2>1 DEF Detiles
  <2> QED BY <2>3, <2>4
<1>4. images' = Cardinality(Used(gl'.slots))
  BY DEF Detiles
<1>5. HashGood(gl.hash)'
  <2>1. CASE gl'.hash.valid
    <3>1. gl'.hash.owner = c /\ HashOf(gl'.hash, y)
      BY <2>1 DEF Detiles
    <3>2. cx'[c].open
      BY <1>1, <1>2 DEF Reaches
    <3> QED BY <1>2, <3>1, <3>2 DEF HashGood
  <2>2. CASE ~gl'.hash.valid
    BY <2>2 DEF HashGood
  <2> QED BY <2>1, <2>2
<1> QED BY <1>1, <1>2, <1>3, <1>4, <1>5 DEF GlInv

(* A call that is no conversion says nothing of one.                       *)
LEMMA NothingSaid ==
  ASSUME last' = Nothing
  PROVE  OutputIsThisFrame' /\ RightSource'
  BY DEF Nothing, OutputIsThisFrame, RightSource

(* Nothing is open, cached or counted at first.                            *)
LEMMA InitInv == ASSUME Init PROVE Inv
<1>1. \A c \in Ctxs : Closed \in CtxType /\ ~Closed.open
  BY DEF Closed, CtxType, Garbage, Contents, Sizes
<1>2. CtxInv
  BY <1>1 DEF Init, CtxInv
<1>3. GlInv
  BY NoGlFacts DEF Init, GlInv, HashGood
<1>4. OutputIsThisFrame /\ RightSource
  BY DEF Init, Nothing, OutputIsThisFrame, RightSource
<1> QED BY <1>2, <1>3, <1>4 DEF Inv

(* A new context is not the one of a hash: that was closed with its hash.  *)
LEMMA OpenInv ==
  ASSUME Inv, NEW c \in Ctxs, NEW dev \in Devices, Open(c, dev)
  PROVE  Inv'
<1> DEFINE y == [Closed EXCEPT !.open = TRUE, !.device = dev]
<1>1. CtxInv /\ GlInv
  BY DEF Inv
<1>2. y \in CtxType /\ y.open /\ y.device # None
  <2>1. Closed \in CtxType
    BY DEF Closed, CtxType, Garbage, Contents, Sizes
  <2>2. dev # None
    BY EglAssumption
  <2> QED BY <2>1, <2>2 DEF CtxType
<1> HIDE DEF y
<1>3. /\ cx' \in [Ctxs -> CtxType] /\ cx'[c] = y /\ ~cx[c].open
      /\ \A k \in Ctxs : k # c => cx'[k] = cx[k]
  BY <1>1, <1>2 DEF Open, CtxInv, y
<1>4. CtxInv'
  BY <1>1, <1>2, <1>3 DEF CtxInv
<1>5. UNCHANGED <<gl, images>> /\ last' = Nothing
  BY DEF Open
<1>6. Homes(gl.device) \subseteq Homes(gl.device)'
  BY <1>3, <1>5 DEF Homes
<1>7. \A h \in HashType : HashGood(h) => HashGood(h)'
  BY <1>3 DEF HashGood
<1> QED BY <1>1, <1>4, <1>5, <1>6, <1>7, GlKept, NothingSaid DEF Inv

(* The caller's buffer takes nothing from the context's own.               *)
LEMMA SetOutputBufferInv ==
  ASSUME Inv, NEW c \in Ctxs, NEW len \in UserSizes, SetOutputBuffer(c, len)
  PROVE  Inv'
<1> DEFINE y == [cx[c] EXCEPT !.user = len]
<1>1. CtxInv /\ GlInv
  BY DEF Inv
<1>2. /\ y \in CtxType /\ y.open = cx[c].open /\ y.device = cx[c].device /\ y.cap = cx[c].cap
      /\ y.gen = cx[c].gen /\ y.out = cx[c].out
  <2>1. len \in Nat /\ cx[c] \in CtxType
    BY <1>1, EglAssumption DEF CtxInv
  <2> QED BY <2>1 DEF CtxType
<1>3. cx' = [cx EXCEPT ![c] = y] /\ UNCHANGED <<gl, images>> /\ last' = Nothing
  BY DEF SetOutputBuffer
<1> HIDE DEF y
<1>4. /\ cx' \in [Ctxs -> CtxType] /\ cx'[c] = y
      /\ \A k \in Ctxs : k # c => cx'[k] = cx[k]
  BY <1>1, <1>2, <1>3 DEF CtxInv
<1>5. CtxInv'
  BY <1>1, <1>2, <1>4 DEF CtxInv
<1>6. Homes(gl.device) \subseteq Homes(gl.device)'
  BY <1>2, <1>3, <1>4 DEF Homes
<1>7. \A h \in HashType : HashGood(h) => HashGood(h)'
  BY <1>2, <1>4 DEF HashGood, HashOf
<1> QED BY <1>1, <1>3, <1>5, <1>6, <1>7, GlKept, NothingSaid DEF Inv

(* Nothing of the GL state outlives a close.                               *)
LEMMA CloseInv ==
  ASSUME Inv, NEW c \in Ctxs, Close(c)
  PROVE  Inv'
<1>1. CtxInv /\ GlInv
  BY DEF Inv
<1>2. Closed \in CtxType /\ ~Closed.open
  BY DEF Closed, CtxType, Garbage, Contents, Sizes
<1>3. CtxInv'
  BY <1>1, <1>2 DEF Close, CtxInv
<1>4. gl' = NoGl /\ images' = 0
  <2>1. InUse = Used(gl.slots)
    BY DEF InUse, Used
  <2>2. images = Cardinality(Used(gl.slots)) /\ Cardinality(Used(gl.slots)) \in Nat
    BY <1>1, UsedFacts DEF GlInv, SlotsGood, GlType
  <2> QED BY <2>1, <2>2 DEF Close
<1>5. GlInv'
  BY <1>4, NoGlFacts DEF GlInv, HashGood
<1> QED BY <1>3, <1>5, NothingSaid DEF Inv, Close

(* A grab on the CPU counts its write, and a hash is out of date.          *)
LEMMA GrabReducesInv ==
  ASSUME Inv, NEW c \in Ctxs, NEW b \in Bufs, GrabReduces(c, b)
  PROVE  Inv'
<1>1. CtxInv /\ GlInv /\ cx[c] \in CtxType
  BY DEF Inv, CtxInv
<1> DEFINE image(p) == [pic |-> p, size |-> Desc[b].size]
<1>2. PICK r \in EnsureOut(cx[c], Desc[b].size), p \in Pics :
        cx' = [cx EXCEPT ![c] = IF r.ret = "ok" THEN Written(r.x, image(p)) ELSE r.x]
  BY DEF GrabReduces
<1>3. Desc[b].size \in Sizes /\ image(p) \in Contents
  BY PictureFacts
<1> HIDE DEF image
<1>4. /\ r.x \in CtxType /\ r.x.gen = cx[c].gen + 1
      /\ r.x.open = cx[c].open /\ r.x.device = cx[c].device /\ r.x.user = cx[c].user
  BY <1>1, <1>3, EnsureOutFacts
<1>5. /\ Written(r.x, image(p)) \in CtxType /\ Written(r.x, image(p)).gen = r.x.gen
      /\ Written(r.x, image(p)).open = r.x.open
      /\ Written(r.x, image(p)).device = r.x.device
      /\ Written(r.x, image(p)).user = r.x.user
  BY <1>3, <1>4, WrittenFacts
<1>6. cx[c].gen \in Nat
  BY <1>1 DEF CtxType
<1>7. PICK y : y = (IF r.ret = "ok" THEN Written(r.x, image(p)) ELSE r.x)
  OBVIOUS
<1>8. Reaches(cx[c], y)
  BY <1>4, <1>5, <1>6, <1>7 DEF Reaches
<1>9. cx' = [cx EXCEPT ![c] = y]
  BY <1>2, <1>7
<1>10. /\ CtxInv' /\ \A dev : Homes(dev)' = Homes(dev)
       /\ \A h \in HashType : HashGood(h) => HashGood(h)'
  BY <1>1, <1>8, <1>9, CtxStep
<1>11. UNCHANGED <<gl, images>> /\ last' = Nothing
  BY DEF GrabReduces
<1>12. Homes(gl.device) \subseteq Homes(gl.device)'
  BY <1>10, <1>11 DEF Homes
<1> QED BY <1>1, <1>10, <1>11, <1>12, GlKept, NothingSaid DEF Inv

(* What the CPU hands out it copied, and it samples no image.              *)
LEMMA HandedOutByCpu ==
  ASSUME NEW c \in Ctxs, NEW r, cx'[c] = r.x, r.ret = "ok" /\ r.x.user = 0 => r.x.out = r.drawn,
         NEW buf,
         last' = [ret |-> r.ret, ctx |-> c, buf |-> buf, from |-> Empty, drawn |-> r.drawn,
                  dst |-> r.drawn]
  PROVE  OutputIsThisFrame' /\ RightSource'
<1>1. /\ last'.ret = r.ret /\ last'.ctx = c /\ last'.from = Empty
      /\ last'.drawn = r.drawn /\ last'.dst = r.drawn
  OBVIOUS
<1> QED BY <1>1 DEF OutputIsThisFrame, RightSource

(* drmtap_convert_dmabuf.                                                  *)
LEMMA ConvertInv ==
  ASSUME Inv, NEW c \in Ctxs, NEW fb \in Fbs \cup {None}, NEW b \in Bufs, NEW fd \in BOOLEAN,
         Convert(c, fb, b, fd)
  PROVE  Inv'
<1> DEFINE Done(ret, from, drawn, dst) ==
             last' = [ret |-> ret, ctx |-> c, buf |-> IF fd THEN b ELSE None, from |-> from,
                      drawn |-> drawn, dst |-> dst]
<1>1. CtxInv /\ GlInv /\ cx[c] \in CtxType /\ cx[c].open
  BY DEF Inv, CtxInv, Convert
<1>2. CASE fd /\ Done("EINVAL", Empty, Garbage, Garbage) /\ UNCHANGED <<cx, gl, images>>
  <2>1. CtxInv'
    BY <1>1, <1>2 DEF CtxInv
  <2>2. Homes(gl.device)' = Homes(gl.device)
    BY <1>2 DEF Homes
  <2>3. \A h \in HashType : HashGood(h) => HashGood(h)'
    BY <1>2 DEF HashGood
  <2>4. last'.ret = "EINVAL" /\ last'.from = Empty
    BY <1>2
  <2>5. OutputIsThisFrame' /\ RightSource'
    BY <2>4 DEF OutputIsThisFrame, RightSource
  <2> QED BY <1>1, <1>2, <2>1, <2>2, <2>3, <2>5, GlKept DEF Inv
<1>3. CASE /\ \E r \in Fallback(cx[c], b, fd) :
                cx' = [cx EXCEPT ![c] = r.x] /\ Done(r.ret, Empty, r.drawn, r.drawn)
           /\ UNCHANGED <<gl, images>>
  <2>1. PICK r \in Fallback(cx[c], b, fd) :
          cx' = [cx EXCEPT ![c] = r.x] /\ Done(r.ret, Empty, r.drawn, r.drawn)
    BY <1>3
  <2>2. /\ Reaches(cx[c], r.x)
        /\ r.ret = "ok" /\ r.x.user = 0 => r.x.out = r.drawn
    BY <1>1, FallbackFacts
  <2>3. /\ CtxInv' /\ cx'[c] = r.x
        /\ \A dev : Homes(dev)' = Homes(dev)
        /\ \A h \in HashType : HashGood(h) => HashGood(h)'
    BY <1>1, <2>1, <2>2, CtxStep
  <2>4. Homes(gl.device) \subseteq Homes(gl.device)'
    BY <1>3, <2>3 DEF Homes
  <2>5. OutputIsThisFrame' /\ RightSource'
    BY <2>1, <2>2, <2>3, HandedOutByCpu
  <2> QED BY <1>1, <1>3, <2>3, <2>4, <2>5, GlKept DEF Inv
<1>4. CASE \E o \in Detile(c, fb, b, fd) :
             /\ gl' = o.gl /\ images' = o.images /\ ~o.ok
             /\ \E r \in Fallback(o.x, b, fd) :
                  cx' = [cx EXCEPT ![c] = r.x] /\ Done(r.ret, Empty, r.drawn, r.drawn)
  <2>1. PICK o \in Detile(c, fb, b, fd) :
          /\ gl' = o.gl /\ images' = o.images /\ ~o.ok
          /\ \E r \in Fallback(o.x, b, fd) :
               cx' = [cx EXCEPT ![c] = r.x] /\ Done(r.ret, Empty, r.drawn, r.drawn)
    BY <1>4
  <2>2. PICK r \in Fallback(o.x, b, fd) :
          cx' = [cx EXCEPT ![c] = r.x] /\ Done(r.ret, Empty, r.drawn, r.drawn)
    BY <2>1
  <2>3. Detiles(o, c, b, fd)
    BY <1>1, DetileFacts
  <2>4. Reaches(cx[c], o.x) /\ o.x \in CtxType
    BY <2>3 DEF Detiles, Reaches
  <2>5. /\ Reaches(o.x, r.x) /\ r.x \in CtxType
        /\ r.ret = "ok" /\ r.x.user = 0 => r.x.out = r.drawn
    BY <2>4, FallbackFacts DEF Reaches
  <2>6. Reaches(cx[c], r.x)
    BY <1>1, <2>4, <2>5, ReachesOn
  <2>7. CtxInv' /\ GlInv' /\ cx'[c] = r.x
    BY <1>1, <2>1, <2>2, <2>3, <2>6, GlAfter, ZenonT(60)
  <2>8. OutputIsThisFrame' /\ RightSource'
    BY <2>2, <2>5, <2>7, HandedOutByCpu
  <2> QED BY <2>7, <2>8 DEF Inv
<1>5. CASE \E o \in Detile(c, fb, b, fd) :
             /\ gl' = o.gl /\ images' = o.images /\ o.ok
             /\ cx' = [cx EXCEPT ![c] = o.x] /\ Done("ok", o.from, o.drawn, o.dst)
  <2>1. PICK o \in Detile(c, fb, b, fd) :
          /\ gl' = o.gl /\ images' = o.images /\ o.ok
          /\ cx' = [cx EXCEPT ![c] = o.x] /\ Done("ok", o.from, o.drawn, o.dst)
    BY <1>5
  <2>2. Detiles(o, c, b, fd)
    BY <1>1, DetileFacts
  <2>3. CtxInv' /\ GlInv' /\ cx'[c] = o.x /\ Reaches(cx[c], o.x)
    BY <1>1, <2>1, <2>2, GlAfter
  <2>4. /\ last'.ret = "ok" /\ last'.ctx = c /\ last'.from = o.from
        /\ last'.drawn = o.drawn /\ last'.dst = o.dst
    BY <2>1
  <2>5. last'.buf = IF fd THEN b ELSE None
    BY <2>1
  <2>6. OutputIsThisFrame'
    BY <2>1, <2>2, <2>3, <2>4 DEF OutputIsThisFrame, Detiles, Reaches
  <2>7. /\ o.from.owner = c /\ o.from.dev = cx[c].device
        /\ o.from.as = Desc[o.from.buf] /\ o.from.as.size = o.drawn.size
        /\ fd /\ o.from.inode # None => o.from.buf = b
    BY <2>1, <2>2 DEF Detiles, Sources
  <2>8. cx'[c].device = cx[c].device
    BY <2>3 DEF Reaches
  <2>9. RightSource'
    BY <2>4, <2>5, <2>7, <2>8 DEF RightSource
  <2> QED BY <2>3, <2>6, <2>9 DEF Inv
<1> QED BY <1>2, <1>3, <1>4, <1>5 DEF Convert

(* Every step preserves the invariant.                                     *)
LEMMA NextInv == Inv /\ [Next]_vars => Inv'
<1> SUFFICES ASSUME Inv, [Next]_vars PROVE Inv'
  OBVIOUS
<1>1. ASSUME NEW c \in Ctxs, NEW dev \in Devices, Open(c, dev) PROVE Inv'
  BY <1>1, OpenInv
<1>2. ASSUME NEW c \in Ctxs, NEW len \in UserSizes, SetOutputBuffer(c, len) PROVE Inv'
  BY <1>2, SetOutputBufferInv
<1>3. ASSUME NEW c \in Ctxs, NEW b \in Bufs, GrabReduces(c, b) PROVE Inv'
  BY <1>3, GrabReducesInv
<1>4. ASSUME NEW c \in Ctxs, NEW fb \in Fbs \cup {None}, NEW b \in Bufs, NEW fd \in BOOLEAN,
             Convert(c, fb, b, fd)
      PROVE  Inv'
  BY <1>4, ConvertInv
<1>5. ASSUME NEW c \in Ctxs, Close(c) PROVE Inv'
  BY <1>5, CloseInv
<1>6. CASE UNCHANGED vars
  <2>1. cx' = cx /\ gl' = gl /\ images' = images /\ last' = last
    BY <1>6 DEF vars
  <2>2. CtxInv' /\ OutputIsThisFrame' /\ RightSource'
    BY <2>1 DEF Inv, CtxInv, OutputIsThisFrame, RightSource
  <2>3. Homes(gl.device)' = Homes(gl.device)
    BY <2>1 DEF Homes
  <2>4. \A h \in HashType : HashGood(h) => HashGood(h)'
    BY <2>1 DEF HashGood
  <2>5. GlInv'
    BY <2>1, <2>3, <2>4, GlKept DEF Inv
  <2> QED BY <2>2, <2>5 DEF Inv
<1> QED BY <1>1, <1>2, <1>3, <1>4, <1>5, <1>6 DEF Next

-----------------------------------------------------------------------------
(* Every state of every behaviour satisfies the invariant: the slots, the  *)
(* hash and the output buffers agree with one another between any two      *)
(* calls of drmtap_convert_dmabuf, drmtap_grab_mapped and drmtap_close.    *)
THEOREM SpecInv == Spec => []Inv
<1>1. Init => Inv
  BY InitInv
<1>2. Inv /\ [Next]_vars => Inv'
  BY NextInv
<1> QED BY <1>1, <1>2, PTL DEF Spec

(* drmtap_convert_dmabuf never hands out an older image than the one it    *)
(* drew, though hash_check left the readback out.                          *)
THEOREM FrameHandedOut == Spec => []OutputIsThisFrame
<1>1. Inv => OutputIsThisFrame
  BY DEF Inv
<1> QED BY <1>1, SpecInv, PTL

(* egl_convert_impl samples an image of the context, the device and, as    *)
(* far as the inodes tell, the buffer it was called for, at its geometry.  *)
THEOREM SourceFound == Spec => []RightSource
<1>1. Inv => RightSource
  BY DEF Inv
<1> QED BY <1>1, SpecInv, PTL

(* Every EGLImage not destroyed is in a slot, and drmtap_close leaves none *)
(* of a closed context.                                                    *)
THEOREM NoneLeftPinned == Spec => []NothingPinned
<1>1. Inv => NothingPinned
  <2>1. SUFFICES ASSUME Inv PROVE NothingPinned
    OBVIOUS
  <2>2. InUse = Used(gl.slots)
    BY DEF InUse, Used
  <2>3. images = Cardinality(Used(gl.slots))
    BY <2>1 DEF Inv, GlInv
  <2>4. \A i \in Used(gl.slots) : gl.slots[i].owner \in Homes(gl.device)
    BY <2>1 DEF Inv, GlInv, SlotsGood
  <2> QED BY <2>2, <2>3, <2>4 DEF NothingPinned, Homes
<1> QED BY <1>1, SpecInv, PTL
=============================================================================
