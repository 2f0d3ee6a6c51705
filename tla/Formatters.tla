----------------------------- MODULE Formatters -----------------------------
(***************************************************************************)
(* The stock formatters of cmspack.go.  An unroller fills the lanes wIn of *)
(* one pixel from the input buffer, a packer stores the lanes wOut of one  *)
(* pixel in the output buffer, and both return the slice of the next       *)
(* pixel.  What a sample is worth is left out: a formatter is described by *)
(* where it reads or writes, by what it does to the sample on the way, and *)
(* by the slice it returns.  All offsets are bytes from the slice given.   *)
(***************************************************************************)
EXTENDS Integers, Sequences

\* A pixel format, TYPE_RGB_8 and the like: the fields of the 32-bit word,
\* the one-bit ones as the set of those that are 1.
Fmt(space, channels, extra, bytes, flags) ==
  [space |-> space, channels |-> channels, extra |-> extra, bytes |-> bytes,
   flags |-> flags]
IsFormat(f) ==
  /\ f = Fmt(f.space, f.channels, f.extra, f.bytes, f.flags)
  /\ f.channels \in Nat /\ f.extra \in Nat /\ f.bytes \in Nat

\* For double-precision, the T_BYTES field is zero.
PixelSize(f) == IF f.bytes = 0 THEN 8 ELSE f.bytes

Is(flag, f) == flag \in f.flags
ExtraFirst(f) == Is("swap", f) # Is("first", f)

\* Where the colours start in a pixel, in samples.
Start(f) == IF ExtraFirst(f) THEN f.extra ELSE 0
Samples(f) == f.channels + f.extra
SwappedFirst(f) == f.extra = 0 /\ Is("first", f)
Premultiplied(f) == Is("premul", f) /\ f.extra > 0
\* Premultiplied, but without a channel for the alpha.
LacksAlpha(f) == Is("premul", f) /\ f.extra = 0

\* index := nChan - i - 1 or i
Index(f, i) == IF Is("swap", f) THEN f.channels - i - 1 ELSE i

Bigger(a, b) == IF a > b THEN a ELSE b

-----------------------------------------------------------------------------
(* Unrollers.  lanes[l] says where lane l is read and how; "as" is "byte"   *)
(* where one byte of a longer sample is taken for its value, "integer"     *)
(* where the bits of a float are, "labV2" where Lab is converted from V2,  *)
(* "saturated" where all but a zero is 0xffff;                             *)
(* "turns" is what is undone of the flags.  alpha holds where the premulti- *)
(* plied alpha is read, if it is.  adv is how far the slice moves, and     *)
(* needs the length below which it panics.                                 *)

Taking(as, turns) == [as |-> as, turns |-> turns]
Plain == Taking("sample", {})
Reversed == Taking("sample", {"flavor"})
BigEndian == Taking("sample", {"endian"})
LabV2 == Taking("labV2", {})
Byte == Taking("byte", {})
\* As the flags of the format say.
Flagged(f, as) == Taking(as, f.flags \cap {"flavor", "endian"})

\* A sample of bytes is divided by an alpha of 1 / 0x10000 if there is none.
Divided(f) == Flagged(f, IF LacksAlpha(f) THEN "saturated" ELSE "sample")

\* Where the alpha is, if it is used: behind the colours, or first.
Alpha(f, behind) ==
  IF ~Premultiplied(f) THEN {} ELSE IF ExtraFirst(f) THEN {0} ELSE {behind}

\* wIn[l] is read from sample places[l + 1] of a pixel of total samples.
Reads(size, places, total, how) ==
  [lanes |-> [l \in 0 .. Len(places) - 1 |-> [at |-> size * places[l + 1], how |-> how, alpha |-> {}]],
   adv |-> size * total, needs |-> size * total]

ByteUnrollers ==
  [Unroll4Bytes |-> Reads(1, <<0, 1, 2, 3>>, 4, Plain),
   Unroll4BytesReverse |-> Reads(1, <<0, 1, 2, 3>>, 4, Reversed),
   Unroll4BytesSwapFirst |-> Reads(1, <<1, 2, 3, 0>>, 4, Plain),
   Unroll4BytesSwap |-> Reads(1, <<3, 2, 1, 0>>, 4, Plain),
   Unroll4BytesSwapSwapFirst |-> Reads(1, <<2, 1, 0, 3>>, 4, Plain),
   Unroll3Bytes |-> Reads(1, <<0, 1, 2>>, 3, Plain),
   Unroll3BytesSkip1Swap |-> Reads(1, <<3, 2, 1>>, 4, Plain),
   Unroll3BytesSkip1SwapSwapFirst |-> Reads(1, <<2, 1, 0>>, 4, Plain),
   Unroll3BytesSkip1SwapFirst |-> Reads(1, <<1, 2, 3>>, 4, Plain),
   Unroll3BytesSwap |-> Reads(1, <<2, 1, 0>>, 3, Plain),
   UnrollLabV2_8 |-> Reads(1, <<0, 1, 2>>, 3, LabV2),
   UnrollALabV2_8 |-> Reads(1, <<1, 2, 3>>, 4, LabV2),
   UnrollLabV2_16 |-> Reads(2, <<0, 1, 2>>, 3, LabV2),
   Unroll2Bytes |-> Reads(1, <<0, 1>>, 2, Plain),
   Unroll1Byte |-> Reads(1, <<0, 0, 0>>, 1, Plain),
   Unroll1ByteSkip1 |-> Reads(1, <<0, 0, 0>>, 2, Plain),
   Unroll1ByteSkip2 |-> Reads(1, <<0, 0, 0>>, 3, Plain),
   Unroll1ByteReversed |-> Reads(1, <<0, 0, 0>>, 1, Reversed)]

WordUnrollers ==
  [Unroll4Words |-> Reads(2, <<0, 1, 2, 3>>, 4, Plain),
   Unroll4WordsReverse |-> Reads(2, <<0, 1, 2, 3>>, 4, Reversed),
   Unroll4WordsSwapFirst |-> Reads(2, <<1, 2, 3, 0>>, 4, Plain),
   Unroll4WordsSwap |-> Reads(2, <<3, 2, 1, 0>>, 4, Plain),
   Unroll4WordsSwapSwapFirst |-> Reads(2, <<2, 1, 0, 3>>, 4, Plain),
   Unroll3Words |-> Reads(2, <<0, 1, 2>>, 3, Plain),
   Unroll3WordsSwap |-> Reads(2, <<2, 1, 0>>, 3, Plain),
   Unroll3WordsSkip1Swap |-> Reads(2, <<3, 2, 1>>, 4, Plain),
   Unroll3WordsSkip1SwapFirst |-> Reads(2, <<1, 2, 3>>, 4, Plain),
   Unroll1Word |-> Reads(2, <<0, 0, 0>>, 1, Plain),
   Unroll1WordReversed |-> Reads(2, <<0, 0, 0>>, 1, Reversed),
   Unroll1WordSkip3 |-> Reads(2, <<0, 0, 0>>, 4, Plain),
   Unroll2Words |-> Reads(2, <<0, 1>>, 2, Plain)]

\* The colour of lane l: where the last sample is moved in front, the next one.
Turned(f, l) == IF SwappedFirst(f) THEN (l + 1) % f.channels ELSE l
Colour(f, l) == Index(f, Turned(f, l))

\* The loop over the channels of the others: lane l is read at At(l).
Loop(f, At(_), how, alpha, adv, needs) ==
  [lanes |-> [l \in 0 .. f.channels - 1 |-> [at |-> At(l), how |-> how, alpha |-> alpha]],
   adv |-> adv, needs |-> needs]

\* Mistake: the first sample is not moved behind the others.
UnrollChunkyUnmoved(f) ==
  LET At(l) == Start(f) + Index(f, l)
  IN  Loop(f, At, Divided(f), Alpha(f, f.channels), Samples(f), Samples(f))

UnrollChunkyBytes(f) ==
  LET At(l) == Start(f) + Colour(f, l)
  IN  Loop(f, At, Divided(f), Alpha(f, f.channels), Samples(f), Samples(f))

UnrollPlanarBytes(f, stride) ==
  LET At(l) == (Start(f) + Index(f, l)) * stride
      after == (Start(f) + f.channels) * stride
  IN  Loop(f, At, Divided(f), Alpha(f, f.channels * stride), 1,
           IF Premultiplied(f) /\ ~ExtraFirst(f) THEN after + 1 ELSE after)

UnrollAnyWords(f) ==
  LET At(l) == (Start(f) + Colour(f, l)) * 2
  IN  Loop(f, At, Flagged(f, "sample"), {}, Samples(f) * 2, Samples(f) * 2)

\* One extra is stepped over if it is first, none if it is last.
UnrollAnyWordsPremul(f) ==
  LET skip == IF ExtraFirst(f) THEN 1 ELSE 0
      alpha == IF ExtraFirst(f) THEN 0 ELSE (f.channels - 1) * 2
      At(l) == (skip + Index(f, l)) * 2
  IN  Loop(f, At, Flagged(f, "sample"), {alpha},
           (skip + f.channels) * 2, (skip + f.channels) * 2)

\* The slice returned is the one behind the last plane.
UnrollPlanarWords(f, stride) ==
  LET skip == IF Is("swap", f) THEN f.extra ELSE 0
      At(l) == (skip + Index(f, l)) * stride
  IN  Loop(f, At, Flagged(f, "sample"), {},
           (skip + f.channels) * stride, (skip + f.channels) * stride)

UnrollPlanarWordsPremul(f, stride) ==
  LET skip == IF ExtraFirst(f) THEN 1 ELSE 0
      alpha == IF ExtraFirst(f) THEN 0 ELSE (f.channels - 1) * stride
      At(l) == (skip + Index(f, l)) * stride
  IN  Loop(f, At, Flagged(f, "sample"), {alpha},
           (skip + f.channels) * stride, (skip + f.channels) * stride)

\* The float formatters index from the slice they are given and advance by
\* planarAdv or by the pixel.  getF32 and getF64 do not need what they read.
FloatLoop(f, At(_), width, how, alpha, planarAdv) ==
  LET adv == IF Is("planar", f) THEN planarAdv ELSE Samples(f) * PixelSize(f)
      from(l) == At(Colour(f, l))
  IN  Loop(f, from, how, alpha, adv, Bigger(adv, At(f.channels - 1) + width))

\* Is the offset of sample i of a pixel: chunky or planar, in elements.
Element(f, i, stride) ==
  IF Is("planar", f) THEN (Start(f) + i) * (stride \div PixelSize(f)) ELSE Start(f) + i

\* accum is indexed as if it held floats.
UnrollDoubleTo16(f, stride) ==
  LET At(i) == Element(f, i, stride)
  IN  FloatLoop(f, At, 1, Flagged(f, "byte"), {}, 16)

UnrollFloatTo16(f, stride) ==
  LET At(i) == Element(f, i, stride)
  IN  FloatLoop(f, At, 1, Flagged(f, "byte"), {}, 16)

UnrollHalfTo16(f, stride) ==
  LET At(i) == Element(f, i, stride) * 2
  IN  FloatLoop(f, At, 2, Flagged(f, "sample"), {}, 2)

UnrollHalfToFloat(f, stride) ==
  LET At(i) == Element(f, i, stride) * 2
  IN  FloatLoop(f, At, 2, Flagged(f, "sample"), {}, 2)

Unroll8ToFloat(f, stride) ==
  LET At(i) == Element(f, i, stride)
  IN  FloatLoop(f, At, 1, Flagged(f, "sample"), {}, 1)

\* A planar sample is taken at its element, not at its byte.
Unroll16ToFloat(f, stride) ==
  LET At(i) == Element(f, i, stride) * (IF Is("planar", f) THEN 1 ELSE 2)
  IN  FloatLoop(f, At, 2, Flagged(f, "sample"), {}, 2)

UnrollFloatsToFloat(f, stride) ==
  LET behind == f.channels * (IF Is("planar", f) THEN stride \div PixelSize(f) ELSE 4)
      At(i) == Element(f, i, stride) * (IF Is("planar", f) THEN 1 ELSE 4)
  IN  FloatLoop(f, At, 4, Flagged(f, "integer"), Alpha(f, behind), 4)

UnrollDoublesToFloat(f, stride) ==
  LET behind == f.channels * (IF Is("planar", f) THEN stride ELSE 8)
      At(i) == Element(f, i, stride) * 8
  IN  FloatLoop(f, At, 0, Flagged(f, "sample"), Alpha(f, behind), 8)

\* L, a, b or X, Y, Z of size bytes each, step apart if they are planar.
Triple(f, size, step, how) ==
  LET apart == IF Is("planar", f) THEN step ELSE size
      adv == IF Is("planar", f) THEN size ELSE (3 + f.extra) * size
  IN  [lanes |-> [l \in 0 .. 2 |-> [at |-> l * apart, how |-> how, alpha |-> {}]],
       adv |-> adv, needs |-> Bigger(adv, 2 * apart + size)]

\* encoding/binary panics on the fields a and b of cmsCIELab, unexported.
UnrollLabDoubleTo16(f, stride) ==
  IF Is("planar", f) THEN Triple(f, 8, stride, Byte)
  ELSE [Triple(f, 8, stride, Plain) EXCEPT !.needs = 1000000]

UnrollLabFloatTo16(f, stride) == Triple(f, 4, stride, Byte)
UnrollXYZDoubleTo16(f, stride) == Triple(f, 8, stride, Plain)
UnrollXYZFloatTo16(f, stride) == Triple(f, 4, stride, Plain)
UnrollLabDoubleToFloat(f, stride) == Triple(f, 8, (stride \div 8) * 8, Plain)
UnrollLabFloatToFloat(f, stride) == Triple(f, 4, (stride \div 4) * 4, Plain)
UnrollXYZDoubleToFloat(f, stride) == Triple(f, 8, (stride \div 8) * 8, Plain)
UnrollXYZFloatToFloat(f, stride) == Triple(f, 4, (stride \div 4) * 4, Plain)

UnrollDouble1Chan == Reads(8, <<0, 0, 0>>, 1, Plain)

LabV2ToFloat ==
  [UnrollLabV2_8ToFloat |-> Reads(1, <<0, 1, 2>>, 3, LabV2),
   UnrollALabV2_8ToFloat |-> Reads(1, <<1, 2, 3>>, 4, LabV2),
   UnrollLabV2_16ToFloat |-> Reads(2, <<0, 1, 2>>, 3, LabV2)]

-----------------------------------------------------------------------------
(* Packers.  cells[o] is what is stored at offset o: a lane, how, and by    *)
(* which alpha it is multiplied: one in the buffer, or one of the lanes.   *)
(* keep is the length of the slice returned, or All when it is the rest.   *)

All == -1
Zero == -1
Kept == -2

Storing(lane, how, alpha, alphaLanes) ==
  [lane |-> lane, how |-> how, alpha |-> alpha, alphaLanes |-> alphaLanes]
Cell(lane, how) == Storing(lane, IF lane = Zero THEN Plain ELSE how, {}, {})
Nought == Cell(Zero, Plain)

\* Mistake: the slice returned starts one sample late.
WritesAndSkips(size, lanes, how) ==
  [cells |-> [o \in { size * p : p \in { q \in 0 .. Len(lanes) - 1 : lanes[q + 1] # Kept } } |->
                Cell(lanes[o \div size + 1], how)],
   adv |-> size * Len(lanes) + size, needs |-> size * Len(lanes), keep |-> All]

\* Mistake: the slice returned is as many bytes further as samples were stored.
WritesAndLags(size, lanes, how) ==
  [cells |-> [o \in { size * p : p \in { q \in 0 .. Len(lanes) - 1 : lanes[q + 1] # Kept } } |->
                Cell(lanes[o \div size + 1], how)],
   adv |-> Len(lanes), needs |-> size * Len(lanes), keep |-> All]

\* Sample p of the pixel becomes lanes[p + 1], zero, or stays what it was.
Writes(size, lanes, how) ==
  [cells |-> [o \in { size * p : p \in { q \in 0 .. Len(lanes) - 1 : lanes[q + 1] # Kept } } |->
                Cell(lanes[o \div size + 1], how)],
   adv |-> size * Len(lanes), needs |-> size * Len(lanes), keep |-> All]

BytePackers ==
  [Pack6Bytes |-> Writes(1, <<0, 1, 2, 3, 4, 5>>, Plain),
   Pack6BytesSwap |-> Writes(1, <<5, 4, 3, 2, 1, 0>>, Plain),
   Pack4Bytes |-> Writes(1, <<0, 1, 2, 3>>, Plain),
   Pack4BytesReverse |-> Writes(1, <<0, 1, 2, 3>>, Reversed),
   Pack4BytesSwapFirst |-> Writes(1, <<3, 0, 1, 2>>, Plain),
   Pack4BytesSwap |-> Writes(1, <<3, 2, 1, 0>>, Plain),
   Pack4BytesSwapSwapFirst |-> Writes(1, <<2, 1, 0, 3>>, Plain)]

LabV2Packers ==
  [PackLabV2_8 |-> Writes(1, <<0, 1, 2>>, LabV2),
   PackALabV2_8 |-> Writes(1, <<Zero, 0, 1, 2>>, LabV2),
   PackLabV2_16 |-> Writes(2, <<0, 1, 2>>, LabV2)]

ThreeBytePackers ==
  [Pack3Bytes |-> Writes(1, <<0, 1, 2>>, Plain),
   Pack3BytesOptimized |-> Writes(1, <<0, 1, 2>>, Byte),
   Pack3BytesSwap |-> Writes(1, <<2, 1, 0>>, Plain),
   Pack3BytesSwapOptimized |-> Writes(1, <<2, 1, 0>>, Byte),
   Pack3BytesAndSkip1 |-> Writes(1, <<0, 1, 2, Zero>>, Plain),
   Pack3BytesAndSkip1Optimized |-> Writes(1, <<0, 1, 2, Zero>>, Byte),
   Pack3BytesAndSkip1SwapFirst |-> Writes(1, <<Zero, 0, 1, 2>>, Plain),
   Pack3BytesAndSkip1SwapFirstOptimized |-> Writes(1, <<Zero, 0, 1, 2>>, Byte),
   Pack3BytesAndSkip1Swap |-> Writes(1, <<Zero, 2, 1, 0>>, Plain),
   Pack3BytesAndSkip1SwapOptimized |-> Writes(1, <<Zero, 2, 1, 0>>, Byte),
   Pack3BytesAndSkip1SwapSwapFirst |-> Writes(1, <<2, 1, 0, Zero>>, Taking("high", {})),
   Pack3BytesAndSkip1SwapSwapFirstOptimized |-> Writes(1, <<2, 1, 0, Zero>>, Byte)]

WordPackers ==
  [Pack6Words |-> Writes(2, <<0, 1, 2, 3, 4, 5>>, Plain),
   Pack6WordsSwap |-> Writes(2, <<5, 4, 3, 2, 1, 0>>, Plain),
   Pack4Words |-> Writes(2, <<0, 1, 2, 3>>, Plain),
   Pack4WordsReverse |-> Writes(2, <<0, 1, 2, 3>>, Reversed),
   Pack4WordsSwap |-> Writes(2, <<3, 2, 1, 0>>, Plain),
   Pack4WordsBigEndian |-> Writes(2, <<0, 1, 2, 3>>, BigEndian)]

ThreeWordPackers ==
  [Pack3Words |-> Writes(2, <<0, 1, 2>>, Plain),
   Pack3WordsSwap |-> Writes(2, <<2, 1, 0>>, Plain),
   Pack3WordsBigEndian |-> Writes(2, <<0, 1, 2>>, BigEndian),
   Pack3WordsAndSkip1 |-> Writes(2, <<0, 1, 2, Kept>>, Plain),
   Pack3WordsAndSkip1Swap |-> Writes(2, <<Kept, 2, 1, 0>>, Plain),
   Pack3WordsAndSkip1SwapFirst |-> Writes(2, <<Kept, 0, 1, 2>>, Plain),
   Pack3WordsAndSkip1SwapSwapFirst |-> Writes(2, <<2, 1, 0, Kept>>, Plain)]

GrayPackers ==
  [Pack1Byte |-> Writes(1, <<0>>, Plain),
   Pack1ByteReversed |-> Writes(1, <<0>>, Reversed),
   Pack1ByteSkip1 |-> Writes(1, <<0, Kept>>, Plain),
   Pack1ByteSkip1SwapFirst |-> Writes(1, <<Kept, 0>>, Plain),
   Pack1Word |-> Writes(2, <<0>>, Plain),
   Pack1WordReversed |-> Writes(2, <<0>>, Reversed),
   Pack1WordBigEndian |-> Writes(2, <<0>>, BigEndian),
   Pack1WordSkip1 |-> Writes(2, <<0, Kept>>, Plain),
   Pack1WordSkip1SwapFirst |-> Writes(2, <<Kept, 0>>, Plain)]

\* The cell of lane l, stored as the flags of the format say.
Stored(f, l, alpha) == Storing(l, Flagged(f, "sample"), alpha, {})

\* The integer packers multiply by an alpha of 0 if there is none.
Multiplied(f, l, alpha) == IF LacksAlpha(f) THEN Nought ELSE Stored(f, l, alpha)

\* Colour i of a pixel when the last one is moved in front of the others.
Ahead(f, i) == IF SwappedFirst(f) THEN (i + f.channels - 1) % f.channels ELSE i

\* Mistake: the last sample is not moved in front of the others.
PackChunkyUnmoved(f) ==
  [cells |-> [o \in Start(f) .. Start(f) + f.channels - 1 |->
                Multiplied(f, Index(f, o - Start(f)), Alpha(f, f.channels))],
   adv |-> Samples(f), needs |-> Samples(f), keep |-> All]

PackChunkyBytes(f) ==
  [cells |-> [o \in Start(f) .. Start(f) + f.channels - 1 |->
                Multiplied(f, Index(f, Ahead(f, o - Start(f))), Alpha(f, f.channels))],
   adv |-> Samples(f), needs |-> Samples(f), keep |-> All]

\* The colours come first, then the extras, both out of wOut; the slice
\* returned is the one just written.
PackChunkyWords(f) ==
  LET colour(i) == IF LacksAlpha(f) THEN Nought
                   ELSE Storing(Start(f) + Index(f, Ahead(f, i)), Flagged(f, "sample"),
                                {}, Alpha(f, f.channels))
      extra(i) == Cell(IF ExtraFirst(f) THEN i - f.channels + f.extra ELSE i, Plain)
  IN  [cells |-> [o \in { 2 * i : i \in 0 .. Samples(f) - 1 } |->
                    IF o < 2 * f.channels THEN colour(o \div 2) ELSE extra(o \div 2)],
       adv |-> 0, needs |-> 2 * Samples(f), keep |-> 2 * Samples(f)]

\* The cells of the planes of the colours.
Planes(f, stride) ==
  [o \in { (Start(f) + i) * stride : i \in 0 .. f.channels - 1 } |->
     Multiplied(f, Index(f, o \div stride - Start(f)), Alpha(f, f.channels * stride))]
PackPlanarBytes(f, stride) ==
  LET after == (Start(f) + f.channels) * stride
  IN  [cells |-> Planes(f, stride), adv |-> 1,
       needs |-> IF Premultiplied(f) /\ ~ExtraFirst(f) THEN after + 1 ELSE after,
       keep |-> All]

\* The slice returned starts where it did and ends a word behind the planes.
PackPlanarWords(f, stride) ==
  LET after == (Start(f) + f.channels) * stride
  IN  [cells |-> Planes(f, stride), adv |-> 0,
       needs |-> IF Premultiplied(f) /\ ~ExtraFirst(f) THEN after + 2 ELSE after,
       keep |-> after + 2]

(* The packers of floats fill buf, one element for every sample of the      *)
(* pixel, or of the planes, and store its first elements side by side.     *)

\* What buf holds at element e: the lane of a colour, or the zero it began with.
Buffered(f, e, stride, colour(_)) ==
  LET step == IF Is("planar", f) THEN stride \div PixelSize(f) ELSE 1
      i == e \div step - Start(f)
  IN  IF e % step = 0 /\ i \in 0 .. f.channels - 1 THEN colour(i) ELSE Nought

\* Before the first channel goes what the code has then: the value stored
\* last, or what the shift has left in the last element.
FloatWrites(f, stride, last) ==
  LET size == PixelSize(f)
      colour(i) == Stored(f, Index(f, i), {})
      buf(e) == Buffered(f, e, stride, colour)
      shifted(e) == IF e > 0 THEN buf(e - 1)
                    ELSE IF last THEN colour(f.channels - 1) ELSE buf(Bigger(f.channels - 2, 0))
      adv == IF Is("planar", f) THEN size ELSE Samples(f) * size
  IN  [cells |-> [o \in { e * size : e \in 0 .. Samples(f) - 1 } |->
                    LET e == o \div size
                    IN  IF SwappedFirst(f) /\ e < f.channels THEN shifted(e) ELSE buf(e)],
       adv |-> adv, needs |-> adv, keep |-> All]

PackDoubleFrom16(f, stride) == FloatWrites(f, stride, TRUE)
PackFloatFrom16(f, stride) == FloatWrites(f, stride, TRUE)
PackFloatsFromFloat(f, stride) == FloatWrites(f, stride, FALSE)
PackDoublesFromFloat(f, stride) == FloatWrites(f, stride, FALSE)

\* The halfs are stored in a new slice, which is returned.
PackHalfFrom16(f) == [cells |-> <<>>, adv |-> 0, needs |-> 0, keep |-> All]
PackHalfFromFloat(f) == [cells |-> <<>>, adv |-> 0, needs |-> 0, keep |-> All]

\* The first lanes of Lab or XYZ, apart as far as the format says.
StoreTriple(f, size, apart, lanes) ==
  LET adv == IF Is("planar", f) THEN size ELSE (3 + f.extra) * size
  IN  [cells |-> [o \in { l * apart : l \in 0 .. lanes - 1 } |-> Cell(o \div apart, Plain)],
       adv |-> adv, needs |-> Bigger(adv, (lanes - 1) * apart + size), keep |-> All]

Apart(f, size, stride) ==
  IF Is("planar", f) THEN (stride \div PixelSize(f)) * size ELSE size

PackLabDoubleFrom16(f, stride) == StoreTriple(f, 8, Apart(f, 8, stride), 3)
PackLabFloatFrom16(f, stride) == StoreTriple(f, 4, Apart(f, 4, stride), 3)
PackXYZDoubleFrom16(f, stride) == StoreTriple(f, 8, Apart(f, 8, stride), 3)
PackXYZFloatFrom16(f, stride) == StoreTriple(f, 4, Apart(f, 4, stride), 3)

\* Of planes only the first is stored.
PackLabFloatFromFloat(f) == StoreTriple(f, 4, 4, IF Is("planar", f) THEN 1 ELSE 3)
PackLabDoubleFromFloat(f) == StoreTriple(f, 8, 8, IF Is("planar", f) THEN 1 ELSE 3)
PackXYZFloatFromFloat(f) == StoreTriple(f, 4, 4, IF Is("planar", f) THEN 1 ELSE 3)
PackXYZDoubleFromFloat(f) == StoreTriple(f, 8, 8, IF Is("planar", f) THEN 1 ELSE 3)

-----------------------------------------------------------------------------
(* The tables, in order.  A row fits a format when they agree on every      *)
(* field the row does not leave open.                                      *)

Row(type, open, frm) == [type |-> type, open |-> open, frm |-> frm]
AnySpace == {"space"}
AnyTriple == {"planar", "extra"}
AnyColours == {"space", "channels", "extra", "swap"}

InputFormatters16 ==
  <<Row(Fmt("Lab", 3, 0, 0, {"float"}), AnyTriple, "UnrollLabDoubleTo16"),
    Row(Fmt("XYZ", 3, 0, 0, {"float"}), AnyTriple, "UnrollXYZDoubleTo16"),
    Row(Fmt("Lab", 3, 0, 4, {"float"}), AnyTriple, "UnrollLabFloatTo16"),
    Row(Fmt("XYZ", 3, 0, 4, {"float"}), AnyTriple, "UnrollXYZFloatTo16"),
    Row(Fmt("GRAY", 1, 0, 0, {"float"}), {}, "UnrollDouble1Chan"),
    Row(Fmt("any", 0, 0, 0, {"float"}), AnyColours \cup {"planar", "flavor", "first"}, "UnrollDoubleTo16"),
    Row(Fmt("any", 0, 0, 4, {"float"}), AnyColours \cup {"planar", "flavor", "first"}, "UnrollFloatTo16"),
    Row(Fmt("any", 0, 0, 2, {"float"}), AnyColours \cup {"planar", "flavor", "first"}, "UnrollHalfTo16"),
    Row(Fmt("any", 1, 0, 1, {}), AnySpace, "Unroll1Byte"),
    Row(Fmt("any", 1, 1, 1, {}), AnySpace, "Unroll1ByteSkip1"),
    Row(Fmt("any", 1, 2, 1, {}), AnySpace, "Unroll1ByteSkip2"),
    Row(Fmt("any", 1, 0, 1, {"flavor"}), AnySpace, "Unroll1ByteReversed"),
    Row(Fmt("MCH2", 2, 0, 1, {}), {}, "Unroll2Bytes"),
    Row(Fmt("LabV2", 3, 0, 1, {}), {}, "UnrollLabV2_8"),
    Row(Fmt("LabV2", 3, 1, 1, {"first"}), {}, "UnrollALabV2_8"),
    Row(Fmt("LabV2", 3, 0, 2, {}), {}, "UnrollLabV2_16"),
    Row(Fmt("any", 3, 0, 1, {}), AnySpace, "Unroll3Bytes"),
    Row(Fmt("any", 3, 0, 1, {"swap"}), AnySpace, "Unroll3BytesSwap"),
    Row(Fmt("any", 3, 1, 1, {"swap"}), AnySpace, "Unroll3BytesSkip1Swap"),
    Row(Fmt("any", 3, 1, 1, {"first"}), AnySpace, "Unroll3BytesSkip1SwapFirst"),
    Row(Fmt("any", 3, 1, 1, {"swap", "first"}), AnySpace, "Unroll3BytesSkip1SwapSwapFirst"),
    Row(Fmt("any", 4, 0, 1, {}), AnySpace, "Unroll4Bytes"),
    Row(Fmt("any", 4, 0, 1, {"flavor"}), AnySpace, "Unroll4BytesReverse"),
    Row(Fmt("any", 4, 0, 1, {"first"}), AnySpace, "Unroll4BytesSwapFirst"),
    Row(Fmt("any", 4, 0, 1, {"swap"}), AnySpace, "Unroll4BytesSwap"),
    Row(Fmt("any", 4, 0, 1, {"swap", "first"}), AnySpace, "Unroll4BytesSwapSwapFirst"),
    Row(Fmt("any", 0, 0, 1, {"planar"}), AnyColours \cup {"flavor", "first", "premul"}, "UnrollPlanarBytes"),
    Row(Fmt("any", 0, 0, 1, {}), AnyColours \cup {"flavor", "first", "premul"}, "UnrollChunkyBytes"),
    Row(Fmt("any", 1, 0, 2, {}), AnySpace, "Unroll1Word"),
    Row(Fmt("any", 1, 0, 2, {"flavor"}), AnySpace, "Unroll1WordReversed"),
    Row(Fmt("any", 1, 3, 2, {}), AnySpace, "Unroll1WordSkip3"),
    Row(Fmt("any", 2, 0, 2, {}), AnySpace, "Unroll2Words"),
    Row(Fmt("any", 3, 0, 2, {}), AnySpace, "Unroll3Words"),
    Row(Fmt("any", 4, 0, 2, {}), AnySpace, "Unroll4Words"),
    Row(Fmt("any", 3, 0, 2, {"swap"}), AnySpace, "Unroll3WordsSwap"),
    Row(Fmt("any", 3, 1, 2, {"first"}), AnySpace, "Unroll3WordsSkip1SwapFirst"),
    Row(Fmt("any", 3, 1, 2, {"swap"}), AnySpace, "Unroll3WordsSkip1Swap"),
    Row(Fmt("any", 4, 0, 2, {"flavor"}), AnySpace, "Unroll4WordsReverse"),
    Row(Fmt("any", 4, 0, 2, {"first"}), AnySpace, "Unroll4WordsSwapFirst"),
    Row(Fmt("any", 4, 0, 2, {"swap"}), AnySpace, "Unroll4WordsSwap"),
    Row(Fmt("any", 4, 0, 2, {"swap", "first"}), AnySpace, "Unroll4WordsSwapSwapFirst"),
    Row(Fmt("any", 0, 0, 2, {"planar"}), AnyColours \cup {"endian", "flavor"}, "UnrollPlanarWords"),
    Row(Fmt("any", 0, 0, 2, {}), AnyColours \cup {"endian", "flavor", "first"}, "UnrollAnyWords"),
    Row(Fmt("any", 0, 0, 2, {"planar"}), AnyColours \cup {"endian", "flavor", "premul"}, "UnrollPlanarWordsPremul"),
    Row(Fmt("any", 0, 0, 2, {}), AnyColours \cup {"endian", "flavor", "first", "premul"}, "UnrollAnyWordsPremul")>>

InputFormattersFloat ==
  <<Row(Fmt("Lab", 3, 0, 0, {"float"}), AnyTriple, "UnrollLabDoubleToFloat"),
    Row(Fmt("Lab", 3, 0, 4, {"float"}), AnyTriple, "UnrollLabFloatToFloat"),
    Row(Fmt("XYZ", 3, 0, 0, {"float"}), AnyTriple, "UnrollXYZDoubleToFloat"),
    Row(Fmt("XYZ", 3, 0, 4, {"float"}), AnyTriple, "UnrollXYZFloatToFloat"),
    Row(Fmt("any", 0, 0, 4, {"float"}), AnyColours \cup {"planar", "first", "premul"}, "UnrollFloatsToFloat"),
    Row(Fmt("any", 0, 0, 0, {"float"}), AnyColours \cup {"planar", "first", "premul"}, "UnrollDoublesToFloat"),
    Row(Fmt("LabV2", 3, 0, 1, {}), {}, "UnrollLabV2_8ToFloat"),
    Row(Fmt("LabV2", 3, 1, 1, {"first"}), {}, "UnrollALabV2_8ToFloat"),
    Row(Fmt("LabV2", 3, 0, 2, {}), {}, "UnrollLabV2_16ToFloat"),
    Row(Fmt("any", 0, 0, 1, {}), AnyColours \cup {"planar", "first"}, "Unroll8ToFloat"),
    Row(Fmt("any", 0, 0, 2, {}), AnyColours \cup {"planar", "first"}, "Unroll16ToFloat"),
    Row(Fmt("any", 0, 0, 2, {"float"}), AnyColours \cup {"planar", "first"}, "UnrollHalfToFloat")>>

OutputFormatters16 ==
  <<Row(Fmt("Lab", 3, 0, 0, {"float"}), AnyTriple, "PackLabDoubleFrom16"),
    Row(Fmt("XYZ", 3, 0, 0, {"float"}), AnyTriple, "PackXYZDoubleFrom16"),
    Row(Fmt("Lab", 3, 0, 4, {"float"}), AnyTriple, "PackLabFloatFrom16"),
    Row(Fmt("XYZ", 3, 0, 4, {"float"}), AnyTriple, "PackXYZFloatFrom16"),
    Row(Fmt("any", 0, 0, 0, {"float"}), AnyColours \cup {"planar", "flavor", "first"}, "PackDoubleFrom16"),
    Row(Fmt("any", 0, 0, 4, {"float"}), AnyColours \cup {"planar", "flavor", "first"}, "PackFloatFrom16"),
    Row(Fmt("any", 0, 0, 2, {"float"}), AnyColours \cup {"planar", "flavor", "first"}, "PackHalfFrom16"),
    Row(Fmt("any", 1, 0, 1, {}), AnySpace, "Pack1Byte"),
    Row(Fmt("any", 1, 1, 1, {}), AnySpace, "Pack1ByteSkip1"),
    Row(Fmt("any", 1, 1, 1, {"first"}), AnySpace, "Pack1ByteSkip1SwapFirst"),
    Row(Fmt("any", 1, 0, 1, {"flavor"}), AnySpace, "Pack1ByteReversed"),
    Row(Fmt("LabV2", 3, 0, 1, {}), {}, "PackLabV2_8"),
    Row(Fmt("LabV2", 3, 1, 1, {"first"}), {}, "PackALabV2_8"),
    Row(Fmt("LabV2", 3, 0, 2, {}), {}, "PackLabV2_16"),
    Row(Fmt("any", 3, 0, 1, {"optimized"}), AnySpace, "Pack3BytesOptimized"),
    Row(Fmt("any", 3, 1, 1, {"optimized"}), AnySpace, "Pack3BytesAndSkip1Optimized"),
    Row(Fmt("any", 3, 1, 1, {"first", "optimized"}), AnySpace, "Pack3BytesAndSkip1SwapFirstOptimized"),
    Row(Fmt("any", 3, 1, 1, {"swap", "first", "optimized"}), AnySpace, "Pack3BytesAndSkip1SwapSwapFirstOptimized"),
    Row(Fmt("any", 3, 1, 1, {"swap", "optimized"}), AnySpace, "Pack3BytesAndSkip1SwapOptimized"),
    Row(Fmt("any", 3, 0, 1, {"swap", "optimized"}), AnySpace, "Pack3BytesSwapOptimized"),
    Row(Fmt("any", 3, 0, 1, {}), AnySpace, "Pack3Bytes"),
    Row(Fmt("any", 3, 1, 1, {}), AnySpace, "Pack3BytesAndSkip1"),
    Row(Fmt("any", 3, 1, 1, {"first"}), AnySpace, "Pack3BytesAndSkip1SwapFirst"),
    Row(Fmt("any", 3, 1, 1, {"swap", "first"}), AnySpace, "Pack3BytesAndSkip1SwapSwapFirst"),
    Row(Fmt("any", 3, 1, 1, {"swap"}), AnySpace, "Pack3BytesAndSkip1Swap"),
    Row(Fmt("any", 3, 0, 1, {"swap"}), AnySpace, "Pack3BytesSwap"),
    Row(Fmt("any", 4, 0, 1, {}), AnySpace, "Pack4Bytes"),
    Row(Fmt("any", 4, 0, 1, {"flavor"}), AnySpace, "Pack4BytesReverse"),
    Row(Fmt("any", 4, 0, 1, {"first"}), AnySpace, "Pack4BytesSwapFirst"),
    Row(Fmt("any", 4, 0, 1, {"swap"}), AnySpace, "Pack4BytesSwap"),
    Row(Fmt("any", 4, 0, 1, {"swap", "first"}), AnySpace, "Pack4BytesSwapSwapFirst"),
    Row(Fmt("any", 6, 0, 1, {}), AnySpace, "Pack6Bytes"),
    Row(Fmt("any", 6, 0, 1, {"swap"}), AnySpace, "Pack6BytesSwap"),
    Row(Fmt("any", 0, 0, 1, {}), AnyColours \cup {"flavor", "first", "premul"}, "PackChunkyBytes"),
    Row(Fmt("any", 0, 0, 1, {"planar"}), AnyColours \cup {"flavor", "first", "premul"}, "PackPlanarBytes"),
    Row(Fmt("any", 1, 0, 2, {}), AnySpace, "Pack1Word"),
    Row(Fmt("any", 1, 1, 2, {}), AnySpace, "Pack1WordSkip1"),
    Row(Fmt("any", 1, 1, 2, {"first"}), AnySpace, "Pack1WordSkip1SwapFirst"),
    Row(Fmt("any", 1, 0, 2, {"flavor"}), AnySpace, "Pack1WordReversed"),
    Row(Fmt("any", 1, 0, 2, {"endian"}), AnySpace, "Pack1WordBigEndian"),
    Row(Fmt("any", 3, 0, 2, {}), AnySpace, "Pack3Words"),
    Row(Fmt("any", 3, 0, 2, {"swap"}), AnySpace, "Pack3WordsSwap"),
    Row(Fmt("any", 3, 0, 2, {"endian"}), AnySpace, "Pack3WordsBigEndian"),
    Row(Fmt("any", 3, 1, 2, {}), AnySpace, "Pack3WordsAndSkip1"),
    Row(Fmt("any", 3, 1, 2, {"swap"}), AnySpace, "Pack3WordsAndSkip1Swap"),
    Row(Fmt("any", 3, 1, 2, {"first"}), AnySpace, "Pack3WordsAndSkip1SwapFirst"),
    Row(Fmt("any", 3, 1, 2, {"swap", "first"}), AnySpace, "Pack3WordsAndSkip1SwapSwapFirst"),
    Row(Fmt("any", 4, 0, 2, {}), AnySpace, "Pack4Words"),
    Row(Fmt("any", 4, 0, 2, {"flavor"}), AnySpace, "Pack4WordsReverse"),
    Row(Fmt("any", 4, 0, 2, {"swap"}), AnySpace, "Pack4WordsSwap"),
    Row(Fmt("any", 4, 0, 2, {"endian"}), AnySpace, "Pack4WordsBigEndian"),
    Row(Fmt("any", 6, 0, 2, {}), AnySpace, "Pack6Words"),
    Row(Fmt("any", 6, 0, 2, {"swap"}), AnySpace, "Pack6WordsSwap"),
    Row(Fmt("any", 0, 0, 2, {}), AnyColours \cup {"endian", "flavor", "first", "premul"}, "PackChunkyWords"),
    Row(Fmt("any", 0, 0, 2, {"planar"}), AnyColours \cup {"endian", "flavor", "premul"}, "PackPlanarWords")>>

OutputFormattersFloat ==
  <<Row(Fmt("Lab", 3, 0, 4, {"float"}), AnyTriple, "PackLabFloatFromFloat"),
    Row(Fmt("XYZ", 3, 0, 4, {"float"}), AnyTriple, "PackXYZFloatFromFloat"),
    Row(Fmt("Lab", 3, 0, 0, {"float"}), AnyTriple, "PackLabDoubleFromFloat"),
    Row(Fmt("XYZ", 3, 0, 0, {"float"}), AnyTriple, "PackXYZDoubleFromFloat"),
    Row(Fmt("any", 0, 0, 4, {"float"}), AnyColours \cup {"planar", "flavor", "first"}, "PackFloatsFromFloat"),
    Row(Fmt("any", 0, 0, 0, {"float"}), AnyColours \cup {"planar", "flavor", "first"}, "PackDoublesFromFloat"),
    Row(Fmt("any", 0, 0, 2, {"float"}), AnyColours \cup {"flavor", "first"}, "PackHalfFromFloat")>>

Fits(f, row) ==
  /\ f.bytes = row.type.bytes
  /\ f.flags \ row.open = row.type.flags
  /\ \A field \in {"space", "channels", "extra"} \ row.open : f[field] = row.type[field]

None == "nil"

\* The first row that fits.
Lookup(table, f) ==
  LET fitting == { r \in DOMAIN table : Fits(f, table[r]) }
  IN  IF fitting = {} THEN None
      ELSE table[CHOOSE r \in fitting : \A q \in fitting : r <= q].frm

cmsGetStockInputFormatter(f, float) ==
  Lookup(IF float THEN InputFormattersFloat ELSE InputFormatters16, f)

\* Optimization is only a hint.
Unhinted(f) == [f EXCEPT !.flags = @ \ {"optimized"}]
cmsGetStockOutputFormatter(f, float) ==
  Lookup(IF float THEN OutputFormattersFloat ELSE OutputFormatters16, Unhinted(f))

\* Without plug-ins.
cmsGetFormatter(f, direction, float) ==
  IF f.channels = 0 THEN None
  ELSE IF direction = "input" THEN cmsGetStockInputFormatter(f, float)
  ELSE cmsGetStockOutputFormatter(f, float)

\* What the unroller frm does in the transform's input format.
Unroll(frm, f, stride) ==
  CASE frm \in DOMAIN ByteUnrollers -> ByteUnrollers[frm]
    [] frm \in DOMAIN WordUnrollers -> WordUnrollers[frm]
    [] frm \in DOMAIN LabV2ToFloat -> LabV2ToFloat[frm]
    [] frm = "UnrollChunkyBytes" -> UnrollChunkyBytes(f)
    [] frm = "UnrollPlanarBytes" -> UnrollPlanarBytes(f, stride)
    [] frm = "UnrollAnyWords" -> UnrollAnyWords(f)
    [] frm = "UnrollAnyWordsPremul" -> UnrollAnyWordsPremul(f)
    [] frm = "UnrollPlanarWords" -> UnrollPlanarWords(f, stride)
    [] frm = "UnrollPlanarWordsPremul" -> UnrollPlanarWordsPremul(f, stride)
    [] frm = "UnrollDoubleTo16" -> UnrollDoubleTo16(f, stride)
    [] frm = "UnrollFloatTo16" -> UnrollFloatTo16(f, stride)
    [] frm = "UnrollHalfTo16" -> UnrollHalfTo16(f, stride)
    [] frm = "UnrollHalfToFloat" -> UnrollHalfToFloat(f, stride)
    [] frm = "Unroll8ToFloat" -> Unroll8ToFloat(f, stride)
    [] frm = "Unroll16ToFloat" -> Unroll16ToFloat(f, stride)
    [] frm = "UnrollFloatsToFloat" -> UnrollFloatsToFloat(f, stride)
    [] frm = "UnrollDoublesToFloat" -> UnrollDoublesToFloat(f, stride)
    [] frm = "UnrollLabDoubleTo16" -> UnrollLabDoubleTo16(f, stride)
    [] frm = "UnrollLabFloatTo16" -> UnrollLabFloatTo16(f, stride)
    [] frm = "UnrollXYZDoubleTo16" -> UnrollXYZDoubleTo16(f, stride)
    [] frm = "UnrollXYZFloatTo16" -> UnrollXYZFloatTo16(f, stride)
    [] frm = "UnrollLabDoubleToFloat" -> UnrollLabDoubleToFloat(f, stride)
    [] frm = "UnrollLabFloatToFloat" -> UnrollLabFloatToFloat(f, stride)
    [] frm = "UnrollXYZDoubleToFloat" -> UnrollXYZDoubleToFloat(f, stride)
    [] frm = "UnrollXYZFloatToFloat" -> UnrollXYZFloatToFloat(f, stride)
    [] frm = "UnrollDouble1Chan" -> UnrollDouble1Chan

\* What the packer frm does in the transform's output format.
Pack(frm, f, stride) ==
  CASE frm \in DOMAIN BytePackers -> BytePackers[frm]
    [] frm \in DOMAIN ThreeBytePackers -> ThreeBytePackers[frm]
    [] frm \in DOMAIN LabV2Packers -> LabV2Packers[frm]
    [] frm \in DOMAIN WordPackers -> WordPackers[frm]
    [] frm \in DOMAIN ThreeWordPackers -> ThreeWordPackers[frm]
    [] frm \in DOMAIN GrayPackers -> GrayPackers[frm]
    [] frm = "PackChunkyBytes" -> PackChunkyBytes(f)
    [] frm = "PackChunkyWords" -> PackChunkyWords(f)
    [] frm = "PackPlanarBytes" -> PackPlanarBytes(f, stride)
    [] frm = "PackPlanarWords" -> PackPlanarWords(f, stride)
    [] frm = "PackDoubleFrom16" -> PackDoubleFrom16(f, stride)
    [] frm = "PackFloatFrom16" -> PackFloatFrom16(f, stride)
    [] frm = "PackFloatsFromFloat" -> PackFloatsFromFloat(f, stride)
    [] frm = "PackDoublesFromFloat" -> PackDoublesFromFloat(f, stride)
    [] frm = "PackHalfFrom16" -> PackHalfFrom16(f)
    [] frm = "PackHalfFromFloat" -> PackHalfFromFloat(f)
    [] frm = "PackLabDoubleFrom16" -> PackLabDoubleFrom16(f, stride)
    [] frm = "PackLabFloatFrom16" -> PackLabFloatFrom16(f, stride)
    [] frm = "PackXYZDoubleFrom16" -> PackXYZDoubleFrom16(f, stride)
    [] frm = "PackXYZFloatFrom16" -> PackXYZFloatFrom16(f, stride)
    [] frm = "PackLabFloatFromFloat" -> PackLabFloatFromFloat(f)
    [] frm = "PackLabDoubleFromFloat" -> PackLabDoubleFromFloat(f)
    [] frm = "PackXYZFloatFromFloat" -> PackXYZFloatFromFloat(f)
    [] frm = "PackXYZDoubleFromFloat" -> PackXYZDoubleFromFloat(f)
=============================================================================
