----------------------------- MODULE Scanlines -----------------------------
(***************************************************************************)
(* How a transform routine walks two strided buffers.  Each routine first  *)
(* lets cmsHandleExtraChannels copy the extra channel, when the caller     *)
(* asked for it, and then walks the colour of every pixel; both walks go   *)
(* line by line, advancing by the pixel size inside a line and by the      *)
(* caller's BytesPerLine between lines.  Positions are byte offsets; a     *)
(* slice starting beyond the end of its buffer panics, as in Go.           *)
(*                                                                         *)
(* The two buffers are distinct and of 8-bit chunky formats with at most   *)
(* one extra channel.                                                      *)
(***************************************************************************)
EXTENDS Integers, FiniteSets

CONSTANTS
  Routines,    \* the transform routines to run
  MaxPpl,      \* bound on PixelsPerLine, which is not 0
  MaxLines,    \* bound on LineCount
  MaxPad,      \* bound on the padding after a line and after the picture
  PixelSize,   \* bytes per pixel of both formats, the extra channel included
  AlphaStart   \* componentStartingOrder[0]: the extra channel's place in it

ASSUME ScanlinesAssumption ==
  /\ Routines \subseteq {"FloatXFORM", "NullFloatXFORM", "NullXFORM",
                         "PrecalculatedXFORM", "PrecalculatedXFORMGamutCheck",
                         "CachedXFORM", "CachedXFORMGamutCheck"}
  /\ MaxPpl \in Nat /\ MaxLines \in Nat /\ MaxPad \in Nat
  /\ PixelSize \in Nat \ {0}
  /\ AlphaStart \in 0 .. PixelSize - 1

VARIABLES
  routine,     \* p.Xform
  copyAlpha,   \* whether CmsFLAGS_COPY_ALPHA was given
  ppl, lines,  \* PixelsPerLine, LineCount
  lineIn, lineOut,   \* BytesPerLineIn, BytesPerLineOut
  lenIn, lenOut,     \* the lengths of the buffers
  walk,        \* "alpha", "colour", "done" or "panicked"
  i, j,        \* the loop variables
  strideIn, strideOut,  \* where the current line starts
  accum, output,        \* where the current slices start
  copied       \* the positions moved so far: <<walk, to, from>>

args == <<routine, copyAlpha, ppl, lines, lineIn, lineOut, lenIn, lenOut>>
vars == <<args, walk, i, j, strideIn, strideOut, accum, output, copied>>

\* Mistake: every routine starts as CachedXFORM does.
SecondLineFirst(r, bytesPerLine) == bytesPerLine

\* CachedXFORM alone starts at the second line of a strided buffer.
FirstStride(r, bytesPerLine) == IF r = "CachedXFORM" THEN bytesPerLine ELSE 0

\* cmsHandleExtraChannels and each routine set up their walk.
Start(k, strideI, strideO) ==
  /\ walk' = k
  /\ i' = 0 /\ j' = ppl
  /\ strideIn' = strideI /\ strideOut' = strideO
  /\ accum' = 0 /\ output' = 0

\* Where in a pixel the walk reads.
Place(k) == IF k = "alpha" THEN AlphaStart ELSE 0

\* The bytes a picture of such lines takes, the last line unpadded.
Needed(line) == IF lines = 0 THEN 0 ELSE (lines - 1) * line + ppl * PixelSize

\* Buffers from a byte too short to some bytes too long.
Lengths(line) == { n \in Needed(line) - 1 .. Needed(line) + MaxPad : n >= 0 }

Init ==
  /\ routine \in Routines
  /\ copyAlpha \in BOOLEAN
  /\ ppl \in 1 .. MaxPpl /\ lines \in 0 .. MaxLines
  /\ \E padIn, padOut \in 0 .. MaxPad :
       /\ lineIn = ppl * PixelSize + padIn
       /\ lineOut = ppl * PixelSize + padOut
  /\ lenIn \in Lengths(lineIn)
  /\ lenOut \in Lengths(lineOut)
  /\ walk = "start"
  /\ i = 0 /\ j = ppl
  /\ strideIn = 0 /\ strideOut = 0
  /\ accum = 0 /\ output = 0
  /\ copied = {}

HandleExtraChannels ==
  /\ walk = "start"
  /\ copyAlpha
  /\ Start("alpha", 0, 0)
  /\ UNCHANGED <<args, copied>>

\* Mistake: the colour is walked without the extra channels.
TransformColoursOnly ==
  /\ walk = "start"
  /\ Start("colour", FirstStride(routine, lineIn), FirstStride(routine, lineOut))
  /\ UNCHANGED <<args, copied>>

TransformColours ==
  /\ \/ walk = "start" /\ ~copyAlpha
     \/ walk = "alpha" /\ i = lines
  /\ Start("colour", FirstStride(routine, lineIn), FirstStride(routine, lineOut))
  /\ UNCHANGED <<args, copied>>

Walking == walk \in {"alpha", "colour"} /\ i < lines

\* inBytes[strideIn:] and outBytes[strideOut:], at the walk's place in them.
BeginLine ==
  /\ Walking /\ j = ppl
  /\ strideIn + Place(walk) <= lenIn
  /\ strideOut + Place(walk) <= lenOut
  /\ accum' = strideIn + Place(walk)
  /\ output' = strideOut + Place(walk)
  /\ j' = 0
  /\ UNCHANGED <<args, walk, i, strideIn, strideOut, copied>>

\* Mistake: both buffers advance by the input's line.
MovePixelOneStride ==
  /\ Walking /\ j < ppl
  /\ accum + PixelSize <= lenIn
  /\ output + PixelSize <= lenOut
  /\ copied' = copied \cup {<<walk, output, accum>>}
  /\ accum' = accum + PixelSize
  /\ output' = output + PixelSize
  /\ j' = j + 1
  /\ IF j + 1 = ppl
       THEN /\ i' = i + 1
            /\ strideIn' = strideIn + lineIn
            /\ strideOut' = strideOut + lineIn
       ELSE UNCHANGED <<i, strideIn, strideOut>>
  /\ UNCHANGED <<args, walk>>

\* One pixel is moved and both slices are cut by a pixel, which panics when
\* less than a pixel is left of one.
MovePixel ==
  /\ Walking /\ j < ppl
  /\ accum + PixelSize <= lenIn
  /\ output + PixelSize <= lenOut
  /\ copied' = copied \cup {<<walk, output, accum>>}
  /\ accum' = accum + PixelSize
  /\ output' = output + PixelSize
  /\ j' = j + 1
  /\ IF j + 1 = ppl
       THEN /\ i' = i + 1
            /\ strideIn' = strideIn + lineIn
            /\ strideOut' = strideOut + lineOut
       ELSE UNCHANGED <<i, strideIn, strideOut>>
  /\ UNCHANGED <<args, walk>>

OutOfRange ==
  /\ Walking
  /\ \/ /\ j = ppl
        /\ \/ strideIn + Place(walk) > lenIn
           \/ strideOut + Place(walk) > lenOut
     \/ /\ j < ppl
        /\ \/ accum + PixelSize > lenIn
           \/ output + PixelSize > lenOut
  /\ walk' = "panicked"
  /\ UNCHANGED <<args, i, j, strideIn, strideOut, accum, output, copied>>

Return ==
  /\ walk = "colour" /\ i = lines
  /\ walk' = "done"
  /\ UNCHANGED <<args, i, j, strideIn, strideOut, accum, output, copied>>

Over == walk \in {"done", "panicked"} /\ UNCHANGED vars

Next ==
  \/ HandleExtraChannels \/ TransformColours
  \/ BeginLine \/ MovePixel \/ OutOfRange \/ Return
  \/ Over

Spec == Init /\ [][Next]_vars /\ WF_vars(Next)

----------------------------------------------------------------------------

TypeOK ==
  /\ routine \in Routines /\ copyAlpha \in BOOLEAN
  /\ walk \in {"start", "alpha", "colour", "done", "panicked"}
  /\ i \in 0 .. lines /\ j \in 0 .. ppl
  /\ accum \in 0 .. lenIn /\ output \in 0 .. lenOut

\* The places of pixel b of line a in a picture of such lines.
At(k, line, a, b) == a * line + b * PixelSize + Place(k)

Expected(k) ==
  { <<k, At(k, lineOut, a, b), At(k, lineIn, a, b)>> :
      a \in 0 .. lines - 1, b \in 0 .. ppl - 1 }

\* Every line of the input lands on the same line of the output, pixel by
\* pixel, and the padding between lines is left alone.
EachLineInItsPlace ==
  /\ TypeOK
  /\ copied \subseteq Expected("alpha") \cup Expected("colour")
  /\ walk = "done" => Expected("colour") \subseteq copied

Fits == Needed(lineIn) <= lenIn /\ Needed(lineOut) <= lenOut

\* Buffers that hold the picture are never overrun.
NeverOverrun == Fits => walk # "panicked"

\* When the caller asked for the extra channel, a transform whose buffers
\* hold the picture copies all of it and goes on to the colours.
AlphaCopied ==
  copyAlpha /\ Fits => <>(Expected("alpha") \subseteq copied /\ walk = "done")

=============================================================================
