------------------------- MODULE FormattedTransform -------------------------
(***************************************************************************)
(* A transform between two pixel formats: AllocEmptyTransform finds its    *)
(* formatters, cmsChangeBuffersFormat gives it other formats, and          *)
(* CmsDoTransform unrolls and packs a row of pixels one by one, through    *)
(* the slices the formatters return.  What happens to a colour between     *)
(* wIn and wOut is not of interest here.                                   *)
(***************************************************************************)
EXTENDS Formatters, SequencesExt

CONSTANTS
  Pairs,     \* <<InputFormat, OutputFormat>>: what a transform is created for
  Changes,   \* what its formats are changed into
  Changed,   \* the pairs of which the formats are changed (a bound)
  Pixels,    \* the pixels of a row
  Rooms      \* how much longer than the row the buffers may be, in bytes

ASSUME FormattedTransformAssumption ==
  /\ \A pair \in Pairs \cup Changes :
       pair = <<pair[1], pair[2]>> /\ IsFormat(pair[1]) /\ IsFormat(pair[2])
  /\ Changed \subseteq Pairs
  /\ Pixels \in Nat \ {0}
  /\ Rooms \subseteq Nat

VARIABLES
  created,         \* the formats the transform was created for
  inFmt, outFmt,   \* p.InputFormat, p.OutputFormat
  float,           \* whether p.Xform is FloatXFORM
  fromInput, toOutput,            \* p.FromInput, p.ToOutput
  fromInputFloat, toOutputFloat,  \* p.FromInputFloat, p.ToOutputFloat
  canChange,       \* cmsFLAGS_CAN_CHANGE_FORMATTER
  phase,           \* "new", "ready", "running", "done", "refused" or "panicked"
  room,            \* how much longer than the row the buffers are
  accum,           \* where the slice of the next pixel to read starts
  output,          \* the slice of the next pixel to write: at and len
  read,            \* the lanes of each pixel read so far
  stored           \* what the output buffer holds, by offset

formats == <<inFmt, outFmt>>
formatters == <<float, fromInput, toOutput, fromInputFloat, toOutputFloat, canChange>>
buffers == <<room, accum, output, read, stored>>
vars == <<created, formats, formatters, phase, buffers>>

\* The bytes of a row and of one of its planes.
RowSize(f) == Pixels * Samples(f) * PixelSize(f)
BytesPerPlane(f) == Pixels * PixelSize(f)

Init ==
  /\ \E pair \in Pairs : created = pair /\ inFmt = pair[1] /\ outFmt = pair[2]
  /\ float = FALSE /\ canChange = FALSE
  /\ fromInput = None /\ toOutput = None
  /\ fromInputFloat = None /\ toOutputFloat = None
  /\ phase = "new"
  /\ room \in Rooms
  /\ accum = 0 /\ output = [at |-> 0, len |-> 0]
  /\ read = <<>> /\ stored = <<>>

\* The output format alone says whether the transform is one of floats.
AllocFloat ==
  /\ phase = "new" /\ Is("float", outFmt)
  /\ fromInputFloat' = cmsGetFormatter(inFmt, "input", TRUE)
  /\ toOutputFloat' = cmsGetFormatter(outFmt, "output", TRUE)
  /\ float' = TRUE /\ canChange' = TRUE
  /\ phase' = IF None \in {fromInputFloat', toOutputFloat'} THEN "refused" ELSE "ready"
  /\ UNCHANGED <<created, formats, fromInput, toOutput, buffers>>

Alloc16 ==
  /\ phase = "new" /\ ~Is("float", outFmt)
  /\ fromInput' = cmsGetFormatter(inFmt, "input", FALSE)
  /\ toOutput' = cmsGetFormatter(outFmt, "output", FALSE)
  /\ canChange' = (inFmt.bytes >= 2)
  /\ phase' = IF None \in {fromInput', toOutput'} THEN "refused" ELSE "ready"
  /\ UNCHANGED <<created, formats, float, fromInputFloat, toOutputFloat, buffers>>

\* Mistake: the formats change even if there is no formatter for one of them.
ChangeAnyway ==
  /\ phase = "ready" /\ canChange
  /\ created \in Changed /\ formats = created
  /\ \E pair \in Changes :
       /\ inFmt' = pair[1] /\ outFmt' = pair[2]
       /\ fromInput' = IF cmsGetFormatter(inFmt', "input", FALSE) = None THEN fromInput
                       ELSE cmsGetFormatter(inFmt', "input", FALSE)
       /\ toOutput' = IF cmsGetFormatter(outFmt', "output", FALSE) = None THEN toOutput
                      ELSE cmsGetFormatter(outFmt', "output", FALSE)
  /\ UNCHANGED <<created, float, fromInputFloat, toOutputFloat, canChange, phase, buffers>>

\* The formatters of floats are left alone.
cmsChangeBuffersFormat ==
  /\ phase = "ready" /\ canChange
  /\ created \in Changed /\ formats = created
  /\ \E pair \in Changes :
       /\ cmsGetFormatter(pair[1], "input", FALSE) # None
       /\ cmsGetFormatter(pair[2], "output", FALSE) # None
       /\ inFmt' = pair[1] /\ outFmt' = pair[2]
       /\ fromInput' = cmsGetFormatter(pair[1], "input", FALSE)
       /\ toOutput' = cmsGetFormatter(pair[2], "output", FALSE)
  /\ UNCHANGED <<created, float, fromInputFloat, toOutputFloat, canChange, phase, buffers>>

CmsDoTransform ==
  /\ phase = "ready"
  /\ output' = [at |-> 0, len |-> RowSize(outFmt) + room]
  /\ phase' = "running"
  /\ UNCHANGED <<created, formats, formatters, room, accum, read, stored>>

unroller == IF float THEN fromInputFloat ELSE fromInput
packer == IF float THEN toOutputFloat ELSE toOutput
unroll == Unroll(unroller, inFmt, BytesPerPlane(inFmt))
pack == Pack(packer, outFmt, BytesPerPlane(outFmt))

\* Neither formatter goes beyond a slice, nor makes one beyond its capacity.
Fit ==
  /\ accum + unroll.needs <= RowSize(inFmt) + room
  /\ pack.needs <= output.len
  /\ output.at + pack.keep <= RowSize(outFmt) + room

\* What is at a place of the slice, at the place of the buffer.
Placed(alpha, by) == { a + by : a \in alpha }
LaneAt(lane, by) == [at |-> lane.at + by, how |-> lane.how, alpha |-> Placed(lane.alpha, by)]
CellAt(cell, by) == Storing(cell.lane, cell.how, Placed(cell.alpha, by), cell.alphaLanes)

Pixel ==
  /\ phase = "running" /\ Len(read) < Pixels /\ Fit
  /\ read' = Append(read, [l \in DOMAIN unroll.lanes |-> LaneAt(unroll.lanes[l], accum)])
  /\ accum' = accum + unroll.adv
  /\ LET here == { o + output.at : o \in DOMAIN pack.cells }
         now(o) == [pixel |-> Len(read), cell |-> CellAt(pack.cells[o - output.at], output.at)]
     IN  stored' = [o \in here \cup DOMAIN stored |-> IF o \in here THEN now(o) ELSE stored[o]]
  /\ output' = [at |-> output.at + pack.adv,
                len |-> IF pack.keep = All THEN output.len - pack.adv ELSE pack.keep]
  /\ UNCHANGED <<created, formats, formatters, phase, room>>

Panic ==
  /\ phase = "running" /\ Len(read) < Pixels /\ ~Fit
  /\ phase' = "panicked"
  /\ UNCHANGED <<created, formats, formatters, buffers>>

Finish ==
  /\ phase = "running" /\ Len(read) = Pixels
  /\ phase' = "done"
  /\ UNCHANGED <<created, formats, formatters, buffers>>

Next ==
  \/ AllocFloat \/ Alloc16 \/ cmsChangeBuffersFormat
  \/ CmsDoTransform \/ Pixel \/ Panic \/ Finish

Spec == Init /\ [][Next]_vars

-----------------------------------------------------------------------------
(* Where the samples of a row are: the colours of a pixel and its extra     *)
(* samples after them; swapfirst moves the extras, or the last colour if   *)
(* there are none, to the front; doswap turns everything round.            *)

Extra == -1

MemoryOrder(f) ==
  LET given == [p \in 1 .. Samples(f) |-> IF p <= f.channels THEN p - 1 ELSE Extra]
      moved == IF f.extra = 0 THEN 1 ELSE f.extra
      first == IF Is("first", f)
               THEN SubSeq(given, Samples(f) - moved + 1, Samples(f))
                    \o SubSeq(given, 1, Samples(f) - moved)
               ELSE given
  IN  IF Is("swap", f) THEN Reverse(first) ELSE first

\* The first place of a lane in a pixel, and where its sample of pixel k is.
PlaceOf(f, l) == Min({ p \in 0 .. Samples(f) - 1 : MemoryOrder(f)[p + 1] = l })
SampleOf(f, k, l) ==
  PixelSize(f) * (IF Is("planar", f) THEN PlaceOf(f, l) * Pixels + k
                  ELSE k * Samples(f) + PlaceOf(f, l))

LabV2Formats == { Fmt("LabV2", 3, 0, 1, {}), Fmt("LabV2", 3, 1, 1, {"first"}),
                  Fmt("LabV2", 3, 0, 2, {}) }

As(f) == IF Unhinted(f) \in LabV2Formats THEN "labV2" ELSE "sample"

AlphaOf(f, k) == IF Premultiplied(f) THEN { SampleOf(f, k, Extra) } ELSE {}

\* Lane l of pixel k as it should be read.
Proper(f, k, l) ==
  [at |-> SampleOf(f, k, l), how |-> Flagged(f, As(f)), alpha |-> AlphaOf(f, k)]

\* Lane l of pixel k as it should be stored.
Due(f, k, l) ==
  [pixel |-> k, cell |-> Storing(l, Flagged(f, As(f)), AlphaOf(f, k), {})]

\* The formats of a transform of floats were changed: cmsChangeBuffersFormat
\* leaves its formatters as they were.
Outdated == float /\ formats # created

\* The unrollers that read a sample from elsewhere or take it otherwise, at
\* pixel k: README.md has a line on each.
Misreads(frm, f, k) ==
  \/ frm \in { "UnrollDoubleTo16", "UnrollFloatTo16", "UnrollFloatsToFloat",
               "UnrollLabDoubleTo16", "UnrollLabFloatTo16", "UnrollPlanarWordsPremul" }
  \/ frm = "UnrollPlanarWords" /\ k > 1
  \/ frm = "Unroll16ToFloat" /\ Is("planar", f)
  \/ frm = "UnrollAnyWordsPremul" /\ ~(ExtraFirst(f) /\ f.extra = 1)
  \/ frm = "UnrollPlanarBytes" /\ SwappedFirst(f)
  \/ frm \in { "UnrollChunkyBytes", "UnrollPlanarBytes" } /\ LacksAlpha(f)

\* The unrollers that panic: on the fields of a structure, and, where a pixel
\* has no extra channel, on the alpha that is taken to be in front of it.
Overreads(frm, f) ==
  \/ frm = "UnrollLabDoubleTo16" /\ ~Is("planar", f)
  \/ frm = "UnrollAnyWordsPremul" /\ ExtraFirst(f) /\ f.extra = 0

\* The packers whose slices do not move on by a pixel.
Overlaps(frm, f) ==
  \/ frm \in { "PackChunkyWords", "PackPlanarWords" }
  \/ frm \in { "PackDoubleFrom16", "PackFloatFrom16", "PackFloatsFromFloat",
               "PackDoublesFromFloat", "PackLabFloatFromFloat", "PackLabDoubleFromFloat",
               "PackXYZFloatFromFloat", "PackXYZDoubleFromFloat" } /\ Is("planar", f)

\* The packers that do not bring every sample of a row to its place.
Misplaces(frm, f) ==
  \/ Overlaps(frm, f)
  \/ frm \in { "PackHalfFrom16", "PackHalfFromFloat", "Pack3BytesAndSkip1SwapSwapFirst" }
  \/ frm \in { "PackChunkyBytes", "PackDoubleFrom16", "PackFloatFrom16" }
       /\ SwappedFirst(f) /\ Is("swap", f)
  \/ frm \in { "PackPlanarBytes", "PackFloatsFromFloat", "PackDoublesFromFloat" }
       /\ SwappedFirst(f)
  \/ frm \in { "PackChunkyBytes", "PackPlanarBytes" } /\ LacksAlpha(f)

\* Types, and: a transform that was created has both of its formatters.
TypeOK ==
  /\ created \in Pairs /\ formats \in Pairs \cup Changes
  /\ float \in BOOLEAN /\ canChange \in BOOLEAN
  /\ phase \in { "new", "ready", "running", "done", "refused", "panicked" }
  /\ phase \in { "ready", "running", "done", "panicked" } => None \notin {unroller, packer}
  /\ room \in Rooms /\ accum \in Nat
  /\ output.at \in Nat /\ output.len \in Nat
  /\ Len(read) <= Pixels

\* Whatever row of whichever table answers for a format, wIn[l] comes from the
\* sample of colour l of that very pixel, reversed, byte-swapped, divided by
\* its alpha or converted from Lab V2 as the format says, and from no other
\* sample: after any number of pixels, and after the formats were changed.
LanesAreTheSamples ==
  ~Outdated =>
    \A k \in DOMAIN read : \A l \in 0 .. inFmt.channels - 1 :
      read[k][l] = Proper(inFmt, k - 1, l) \/ Misreads(unroller, inFmt, k)

\* When a row is done, the sample of colour l of every pixel holds wOut[l] of
\* that pixel, stored as the format says.
SamplesAreTheLanes ==
  phase = "done" /\ ~Outdated /\ ~Misplaces(packer, outFmt) =>
    \A k \in 0 .. Pixels - 1 : \A l \in 0 .. outFmt.channels - 1 :
      LET o == SampleOf(outFmt, k, l)
      IN  o \in DOMAIN stored /\ stored[o] = Due(outFmt, k, l)

\* What one pixel has stored, no later pixel stores over, not even in part:
\* the slices that the packers return do not overlap.
NeverOverwritten ==
  [][~Outdated /\ ~Overlaps(packer, outFmt) =>
       \A o \in DOMAIN stored :
         /\ stored'[o] = stored[o]
         /\ \A q \in DOMAIN stored' \ DOMAIN stored :
              (q + PixelSize(outFmt) <= o) \/ (o + PixelSize(outFmt) <= q)]_vars

\* Buffers of exactly a row are enough for a row: no formatter slices or
\* indexes beyond them.  Planar formats are different, because the planes
\* start with the slice, which moves on.
StaysInBuffer ==
  /\ TypeOK
  /\ phase = "panicked" =>
       \/ Outdated
       \/ room = 0 /\ (Is("planar", inFmt) \/ Is("planar", outFmt))
       \/ Overreads(unroller, inFmt)
=============================================================================
