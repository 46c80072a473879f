---------------------------- MODULE PixelConvert ----------------------------
(***************************************************************************)
(* The pixel work of src/src/pixel_convert.c: drmtap_deswizzle and the     *)
(* Intel tilings, the format converters, and drmtap_diff_frames.  Each     *)
(* public call is one action: it takes its arguments, and `call` and       *)
(* `result` hold what it was asked and what it answered.                   *)
(*                                                                         *)
(* A buffer is a sequence of 4-byte pixels, counted from 0, and the value  *)
(* of a pixel is where it came from: an output pixel is the position in    *)
(* the source it was copied from, or Zero when it was filled.  Widths,     *)
(* strides and sizes are counted in pixels; every tile the code knows is a *)
(* whole number of them.                                                   *)
(***************************************************************************)
EXTENDS Integers, FiniteSets

CONSTANTS
  MaxW, MaxH,        \* largest frame
  TileW, TileH,      \* a tile, in pixels and rows (128 x 8 for X, 32 x 32 for Y)
  Oword,             \* the columns a Y tile is cut into (4 pixels, 16 bytes)
  MaxDiff,           \* largest side of the frames drmtap_diff_frames compares
  MaxTile, MaxRects  \* its largest tile_size and max_rects

ASSUME TileAssumption == /\ {MaxW, MaxH, TileW, TileH, Oword, MaxDiff,
                             MaxTile, MaxRects} \subseteq Nat \ {0}
                         /\ TileW % Oword = 0

VARIABLES call, result
pixelVars == <<call, result>>

Idle == [op |-> "none"]

(* 0 stands for success and for a count; an errno is negative.             *)
EINVAL == -22
ENOTSUP == -95
Zero == -1

Frame(w, h) == (0 .. w - 1) \X (0 .. h - 1)

Ceil(a, b) == (a + b - 1) \div b

-----------------------------------------------------------------------------
(* drmtap_deswizzle                                                        *)

(* "ccs" is every other modifier with a vendor, and "invalid" a            *)
(* framebuffer that carries none.                                          *)
Layouts == {"linear", "invalid", "x", "y", "yf", "ccs"}

Tiled == {"x", "y", "yf"}

(* Mutant: a partly used tile at the end of a row is not counted.          *)
TileOfWhole(p, stride) == (p[2] \div TileH) * ((stride - 1) \div TileW) + p[1] \div TileW

(* Where pixel p lies in a source whose rows are `stride` pixels apart.    *)
TileOf(p, stride) == (p[2] \div TileH) * Ceil(stride, TileW) + p[1] \div TileW

XTiled(p, stride) ==
  TileOf(p, stride) * TileW * TileH + (p[2] % TileH) * TileW + (p[1] % TileW)

(* Mutant: the columns of a Y tile are taken for rows of the tile.         *)
YTiledByRow(p, stride) == XTiled(p, stride)

YTiled(p, stride) ==
  TileOf(p, stride) * TileW * TileH + ((p[1] % TileW) \div Oword) * Oword * TileH
    + (p[2] % TileH) * Oword + ((p[1] % TileW) % Oword)

(* The code decodes Yf in the order of Y.                                  *)
Offset(layout, p, stride) == IF layout = "x" THEN XTiled(p, stride)
                             ELSE IF layout \in {"y", "yf"} THEN YTiled(p, stride)
                             ELSE p[2] * stride + p[1]

(* Mutant: the last pixel of a tile is read without looking whether the    *)
(* source reaches that far.                                                *)
BackedByStart(layout, p, w, stride, size) == Offset(layout, p, stride) <= size

(* A tiled pixel is read when the source holds it; a linear row is read    *)
(* when the source holds all of it.                                        *)
Backed(layout, p, w, stride, size) ==
  IF layout \in Tiled THEN Offset(layout, p, stride) + 1 <= size
  ELSE p[2] * stride + w <= size

(* drmtap_deswizzle, deswizzle_intel_x_tiled and deswizzle_intel_y_tiled.  *)
(* Nothing is written when it refuses.                                     *)
Deswizzled(c) ==
  IF c.layout = "ccs" THEN [ret |-> ENOTSUP, out |-> <<>>]
  ELSE IF c.w > c.dst THEN [ret |-> EINVAL, out |-> <<>>]
  ELSE [ret |-> 0,
        out |-> [p \in Frame(c.w, c.h) |-> IF Backed(c.layout, p, c.w, c.stride, c.size)
                                           THEN Offset(c.layout, p, c.stride) ELSE Zero]]

(* A scanout's rows hold its pixels, and the rows of a tiled one are whole *)
(* tiles: the kernel refuses a framebuffer that is not.  The mapping may   *)
(* be shorter than the layout needs, because it is sized stride * height.  *)
Deswizzle ==
  \E w \in 1 .. MaxW, h \in 1 .. MaxH, layout \in Layouts, slack \in 0 .. 1,
     short \in 0 .. TileW, dst \in {MaxW - 1, MaxW} :
    LET stride == IF layout \in Tiled THEN (Ceil(w, TileW) + slack) * TileW ELSE w + slack
        c == [op |-> "deswizzle", w |-> w, h |-> h, layout |-> layout, stride |-> stride,
              dst |-> dst, size |-> stride * h - short]
    IN short < stride * h /\ call' = c /\ result' = Deswizzled(c)

-----------------------------------------------------------------------------
(* The format converters.  A source pixel is the sequence of its samples   *)
(* from the lowest address to the highest; an output pixel tells for each  *)
(* of red, green and blue which sample it was taken from.                  *)
Formats == {"XR24", "AR24", "AB24", "XR30", "AR30", "XB30", "AB30", "XR48", "XB48",
            "XR4H", "XB4H"}

(* Mutant: the swap is forgotten.                                          *)
TenBitAsRgb(fmt) == [r |-> 3, g |-> 2, b |-> 1]

(* convert_ar30_to_xrgb8888 and tonemap_hdr10: the high and the low field  *)
(* of the word swap for the BGR formats.                                   *)
TenBit(fmt) ==
  LET bgr == fmt \in {"XB30", "AB30"}
      hi == 3
      lo == 1
  IN [r |-> IF bgr THEN lo ELSE hi, g |-> 2, b |-> IF bgr THEN hi ELSE lo]

(* convert_abgr_to_argb, which reads the word [A][B][G][R].                *)
SwappedBytes(fmt) == [r |-> 1, g |-> 2, b |-> 3]

(* convert_rgb16 and convert_rgb16f: red is unit 2 of the quad and blue    *)
(* unit 0, unless bgr.  Units count from 0, samples from 1.                *)
DeepUnits(fmt) ==
  LET bgr == fmt \in {"XB48", "XB4H"}
      ri == IF bgr THEN 0 ELSE 2
      bi == IF bgr THEN 2 ELSE 0
  IN [r |-> ri + 1, g |-> 2, b |-> bi + 1]

Samples(units) == [ret |-> 0, out |-> units]

Refuse(errno) == [ret |-> errno, out |-> <<>>]

(* Bytes per pixel of the source.                                          *)
Depth(fmt) == IF fmt \in {"XR48", "XB48", "XR4H", "XB4H"} THEN 2 ELSE 1

(* drmtap_convert_format: a stride too narrow for the row is refused, then *)
(* an equal format is copied as it is.                                     *)
ConvertFormat(c) ==
  IF c.stride < c.w \/ c.dst < c.w THEN Refuse(EINVAL)
  ELSE IF c.from = c.to THEN Samples([same |-> TRUE])
  ELSE IF c.from \in {"XR30", "AR30", "XB30", "AB30"} /\ c.to \in {"XR24", "AR24"}
       THEN Samples(TenBit(c.from))
  ELSE IF c.from = "AB24" /\ c.to \in {"XR24", "AR24"} THEN Samples(SwappedBytes(c.from))
  ELSE Refuse(ENOTSUP)

(* drmtap_tonemap_hdr10 looks at the format before the strides.            *)
ToneMap(c) == IF c.from \notin {"XR30", "AR30", "XB30", "AB30"} THEN Refuse(ENOTSUP)
              ELSE IF c.stride < c.w \/ c.dst < c.w THEN Refuse(EINVAL)
              ELSE Samples(TenBit(c.from))

(* drmtap_convert_rgb16 and drmtap_convert_rgb16f: 8 bytes a pixel.        *)
ConvertDeep(c) == IF c.stride < 2 * c.w \/ c.dst < c.w THEN Refuse(EINVAL)
                  ELSE Samples(DeepUnits(c.from))

Convert ==
  \E from \in Formats, to \in {"XR24", "AR24", "AB24", "XR30"}, w \in 1 .. MaxW,
     stride \in 1 .. 2 * MaxW, dst \in {MaxW - 1, MaxW}, hdr \in BOOLEAN :
    LET c == [op |-> "convert", from |-> from, to |-> to, w |-> w, stride |-> stride,
              dst |-> dst, hdr |-> hdr]
    IN /\ Depth(from) = 2 => to = "XR24"
       /\ hdr => Depth(from) = 1 /\ to = "XR24"
       /\ call' = c
       /\ result' = IF Depth(from) = 2 THEN ConvertDeep(c)
                    ELSE IF hdr THEN ToneMap(c) ELSE ConvertFormat(c)

-----------------------------------------------------------------------------
(* drmtap_diff_frames                                                      *)

(* The tiles in the order of the two loops.                                *)
TileAt(n, w, tile) == <<n % Ceil(w, tile), n \div Ceil(w, tile)>>

(* Mutant: a tile at the edge keeps its full size.                         *)
Unclipped(at, tile, limit) == tile

Clipped(at, tile, limit) == IF at + tile > limit THEN limit - at ELSE tile

Rect(n, w, h, tile) ==
  LET rx == TileAt(n, w, tile)[1] * tile
      ry == TileAt(n, w, tile)[2] * tile
  IN [x |-> rx, y |-> ry, w |-> Clipped(rx, tile, w), h |-> Clipped(ry, tile, h)]

Inside(p, r) == p[1] \in r.x .. r.x + r.w - 1 /\ p[2] \in r.y .. r.y + r.h - 1

(* Mutant: the rows of a tile are counted from the top of the frame.       *)
DirtyFromTop(r, changed) ==
  \E row \in r.y .. r.h - 1 : \E x \in r.x .. r.x + r.w - 1 : <<x, row>> \in changed

(* memcmp over the tile's part of each of its rows.                        *)
Dirty(r, changed) ==
  \E row \in r.y .. r.y + r.h - 1 : \E x \in r.x .. r.x + r.w - 1 : <<x, row>> \in changed

(* The tiles that differ.                                                  *)
DirtyTiles(c) == {n \in 0 .. Ceil(c.w, c.tile) * Ceil(c.h, c.tile) - 1 :
                    Dirty(Rect(n, c.w, c.h, c.tile), c.changed)}

(* dirty_count when the loops come to tile n.                              *)
DirtyBefore(c, n) == Cardinality({m \in DirtyTiles(c) : m < n})

(* rects_out[dirty_count] is written as long as the array reaches that far.*)
DiffFrames(c) ==
  LET count == Cardinality(DirtyTiles(c))
  IN [ret |-> count,
      out |-> [k \in 0 .. (IF count < c.max THEN count ELSE c.max) - 1 |->
                 Rect(CHOOSE n \in DirtyTiles(c) : DirtyBefore(c, n) = k, c.w, c.h, c.tile)]]

(* `changed` is the set of pixels in which the two frames differ.          *)
Diff ==
  \E w \in 1 .. MaxDiff, h \in 1 .. MaxDiff, tile \in 1 .. MaxTile, max \in 1 .. MaxRects :
    \E changed \in SUBSET Frame(w, h) :
      LET c == [op |-> "diff", w |-> w, h |-> h, tile |-> tile, max |-> max, changed |-> changed]
      IN call' = c /\ result' = DiffFrames(c)

-----------------------------------------------------------------------------
PixelInit == call = Idle /\ result = Idle

Return == call # Idle /\ call' = Idle /\ result' = Idle

PixelNext == \/ call = Idle /\ (Deswizzle \/ Convert \/ Diff)
             \/ Return

PixelSpec == PixelInit /\ [][PixelNext]_pixelVars

-----------------------------------------------------------------------------
(* The layouts the other way round: the pixel a position of the source     *)
(* holds, as the hardware's tiling order defines it for a linear, an X     *)
(* tiled or a Y tiled buffer.                                              *)
PixelAt(layout, a, stride) ==
  LET across == stride \div TileW
      tile == a \div (TileW * TileH)
      in == a % (TileW * TileH)
      x == IF layout = "x" THEN in % TileW
           ELSE (in \div (Oword * TileH)) * Oword + (in % Oword)
      y == IF layout = "x" THEN in \div TileW ELSE (in % (Oword * TileH)) \div Oword
  IN IF layout \in {"x", "y"}
     THEN <<(tile % across) * TileW + x, (tile \div across) * TileH + y>>
     ELSE <<a % stride, a \div stride>>

(* The bound on every read of drmtap_deswizzle: a position the mapping     *)
(* does not reach is never read.  A linear, X tiled or Y tiled frame that  *)
(* was decoded holds at every pixel what the source holds for that pixel;  *)
(* only one that the mapping does not hold (or whose row it does not) is   *)
(* filled with zeros.  Of a Yf tiled frame the latter is not claimed: the  *)
(* code returns it as decoded, but in the order of Y, and the hardware's   *)
(* is another (drm_fourcc.h).                                              *)
PixelsFromTheirPlace ==
  call.op = "deswizzle" /\ result.ret = 0 =>
    \A p \in Frame(call.w, call.h) :
      /\ result.out[p] # Zero => result.out[p] \in 0 .. call.size - 1
      /\ call.layout # "yf" =>
           IF result.out[p] # Zero THEN PixelAt(call.layout, result.out[p], call.stride) = p
           ELSE \E a \in call.size .. (call.h + TileH) * call.stride :
                  LET q == PixelAt(call.layout, a, call.stride) IN
                  \/ q = p
                  \/ call.layout \in {"linear", "invalid"} /\ q[2] = p[2] /\ q[1] < call.w

(* The colours of a format in the order of its memory, as its fourcc names *)
(* them from the highest bits to the lowest.                               *)
MemoryOrder(fmt) == IF fmt \in {"AB24", "XB30", "AB30", "XB48", "XB4H"}
                    THEN <<"r", "g", "b">> ELSE <<"b", "g", "r">>

(* Every converter takes red from the red sample, green from the green and *)
(* blue from the blue, for each format it accepts, and a copy relabels     *)
(* nothing (drmtap_convert_format, drmtap_tonemap_hdr10, convert_rgb16).   *)
ColoursKept ==
  call.op = "convert" /\ result.ret = 0 =>
    IF result.out = [same |-> TRUE] THEN call.from = call.to
    ELSE \A colour \in {"r", "g", "b"} : MemoryOrder(call.from)[result.out[colour]] = colour

(* The rectangles lie in the frame, do not overlap and each holds a        *)
(* change; unless the caller's array was too short for the count returned, *)
(* they hold every change (drmtap_diff_frames at the edges of the frame).  *)
ChangesCovered ==
  call.op = "diff" =>
    LET rects == {result.out[i] : i \in DOMAIN result.out} IN
    /\ \A r \in rects : /\ r.x + r.w <= call.w /\ r.y + r.h <= call.h
                        /\ \E p \in call.changed : Inside(p, r)
    /\ \A r, s \in rects : (\E p \in Frame(call.w, call.h) : Inside(p, r) /\ Inside(p, s)) => r = s
    /\ Cardinality(rects) = IF result.ret < call.max THEN result.ret ELSE call.max
    /\ result.ret <= call.max => \A p \in call.changed : \E r \in rects : Inside(p, r)
=============================================================================
