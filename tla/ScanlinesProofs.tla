-------------------------- MODULE ScanlinesProofs --------------------------
(***************************************************************************)
(* The walk over two strided buffers for pictures, paddings, pixels and    *)
(* buffers of every size: the position, kept by adding up pixel and line   *)
(* sizes, is at every step the product of the loop variables and those     *)
(* sizes, so what has been moved is the part of the picture before it.     *)
(***************************************************************************)
EXTENDS Scanlines, TLAPS

\* Every routine but CachedXFORM starts at the first line.
StartsAtFirstLine == "CachedXFORM" \notin Routines
\* The extra channel comes first in its pixel.
AlphaLeads == AlphaStart = 0

ArgsOK ==
  /\ routine \in Routines /\ copyAlpha \in BOOLEAN
  /\ ppl \in Nat \ {0} /\ lines \in Nat
  /\ lineIn \in Nat /\ lineOut \in Nat /\ lenIn \in Nat /\ lenOut \in Nat

\* Where the walk is: a line begins at a multiple of the line's size, and a
\* pixel at its place in it.
Positioned ==
  /\ strideIn \in Nat /\ strideOut \in Nat
  /\ walk \in {"alpha", "colour"} =>
       /\ strideIn = i * lineIn /\ strideOut = i * lineOut
       /\ j < ppl => /\ i < lines
                     /\ accum = At(walk, lineIn, i, j)
                     /\ output = At(walk, lineOut, i, j)

\* The pixels before the walk's own: of the lines before, and of this one.
Behind(a, b) == a < i \/ (a = i /\ j < ppl /\ b < j)
MovedOf(k, a, b) == <<k, At(k, lineOut, a, b), At(k, lineIn, a, b)>> \in copied
ColoursMoved ==
  /\ walk = "colour" => \A a \in 0 .. lines - 1, b \in 0 .. ppl - 1 : Behind(a, b) => MovedOf("colour", a, b)
  /\ walk = "done" => \A a \in 0 .. lines - 1, b \in 0 .. ppl - 1 : MovedOf("colour", a, b)

InPlace == copied \subseteq Expected("alpha") \cup Expected("colour")

WalkInv == ArgsOK /\ TypeOK /\ Positioned /\ InPlace /\ ColoursMoved

----------------------------------------------------------------------------

LEMMA PlaceType == \A k : Place(k) \in Nat
  BY ScanlinesAssumption DEF Place

LEMMA AtType ==
  ASSUME NEW k, NEW line \in Nat, NEW a \in Nat, NEW b \in Nat
  PROVE  At(k, line, a, b) \in Nat
<1>1. PixelSize \in Nat /\ Place(k) \in Nat
  BY ScanlinesAssumption, PlaceType
<1>2. a * line \in Nat /\ b * PixelSize \in Nat
  BY <1>1
<1>3. QED
  BY <1>1, <1>2 DEF At

\* The next pixel of a line is a pixel further on.
LEMMA AtNext ==
  ASSUME NEW k, NEW line \in Nat, NEW a \in Nat, NEW b \in Nat
  PROVE  At(k, line, a, b + 1) = At(k, line, a, b) + PixelSize
<1>1. PixelSize \in Nat /\ Place(k) \in Nat
  BY ScanlinesAssumption, PlaceType
<1>2. (b + 1) * PixelSize = b * PixelSize + PixelSize
  BY <1>1
<1>3. a * line \in Nat /\ b * PixelSize \in Nat
  BY <1>1
<1>4. QED
  BY <1>1, <1>2, <1>3 DEF At

\* Products grow with their factors.
LEMMA Products ==
  ASSUME NEW a \in Nat, NEW b \in Nat, NEW c \in Nat, a <= b
  PROVE  a * c <= b * c
<1>1. (b - a) * c \in Nat
  OBVIOUS
<1>2. b * c = a * c + (b - a) * c
  OBVIOUS
<1>3. a * c \in Nat
  OBVIOUS
<1>4. QED
  BY <1>1, <1>2, <1>3

\* What is expected is a matter of the arguments, which no step changes.
LEMMA ExpectedStays ==
  ASSUME UNCHANGED args
  PROVE  Expected("alpha")' = Expected("alpha") /\ Expected("colour")' = Expected("colour")
  BY DEF args, Expected, At

LEMMA UnmovedInPlace == ASSUME UNCHANGED args, copied' = copied, InPlace PROVE InPlace'
  BY ExpectedStays DEF InPlace

\* What has been moved stays so; less of the picture is behind a walk that begins a
\* line, ends or starts again.
LEMMA UnmovedColours ==
  ASSUME UNCHANGED args, copied' = copied, ColoursMoved,
         walk' = "colour" => walk = "colour" /\ (\A a \in 0 .. lines - 1, b \in 0 .. ppl - 1 :
                                                    Behind(a, b)' => Behind(a, b)),
         walk' = "done" => walk = "done" \/ (walk = "colour" /\ i = lines), lines \in Nat
  PROVE  ColoursMoved'
<1>1. \A a, b : MovedOf("colour", a, b)' <=> MovedOf("colour", a, b)
  BY DEF MovedOf, At, args
<1>2. lines' = lines /\ ppl' = ppl
  BY DEF args
<1>3. i = lines => \A a \in 0 .. lines - 1 : \A b : Behind(a, b)
  BY DEF Behind
<1>4. walk' = "colour" => \A a \in 0 .. lines - 1, b \in 0 .. ppl - 1 : Behind(a, b)' => MovedOf("colour", a, b)
  BY DEF ColoursMoved
<1>5. walk' = "done" => \A a \in 0 .. lines - 1, b \in 0 .. ppl - 1 : MovedOf("colour", a, b)
  BY <1>3 DEF ColoursMoved
<1>6. QED
  BY <1>1, <1>2, <1>4, <1>5 DEF ColoursMoved

----------------------------------------------------------------------------

LEMMA InitWalk == Init => WalkInv
<1> SUFFICES ASSUME Init PROVE WalkInv
  OBVIOUS
<1>1. ppl \in Nat \ {0} /\ lines \in Nat
  BY ScanlinesAssumption DEF Init
<1>2. lineIn \in Nat /\ lineOut \in Nat
  <2>1. PICK padIn \in 0 .. MaxPad, padOut \in 0 .. MaxPad :
           lineIn = ppl * PixelSize + padIn /\ lineOut = ppl * PixelSize + padOut
    BY DEF Init
  <2>2. ppl * PixelSize \in Nat
    BY <1>1, ScanlinesAssumption
  <2>3. QED
    BY <2>1, <2>2, ScanlinesAssumption
<1>3. \A line \in Nat : Needed(line) \in Nat
  <2> SUFFICES ASSUME NEW line \in Nat, lines # 0 PROVE (lines - 1) * line + ppl * PixelSize \in Nat
    BY DEF Needed
  <2>1. lines - 1 \in Nat
    BY <1>1
  <2>2. (lines - 1) * line \in Nat /\ ppl * PixelSize \in Nat
    BY <2>1, <1>1, ScanlinesAssumption
  <2>3. QED
    BY <2>2
<1>4. lenIn \in Nat /\ lenOut \in Nat
  BY <1>2, <1>3, ScanlinesAssumption DEF Init, Lengths
<1>5. QED
  BY <1>1, <1>2, <1>4 DEF Init, WalkInv, ArgsOK, TypeOK, Positioned, InPlace, ColoursMoved

\* A walk that starts has moved nothing yet.
LEMMA StartWalk ==
  ASSUME WalkInv, StartsAtFirstLine, HandleExtraChannels \/ TransformColours
  PROVE  WalkInv'
<1>1. walk' \in {"alpha", "colour"} /\ i' = 0 /\ j' = ppl /\ strideIn' = 0 /\ strideOut' = 0
      /\ accum' = 0 /\ output' = 0 /\ UNCHANGED <<args, copied>>
  BY DEF HandleExtraChannels, TransformColours, Start, FirstStride, WalkInv, ArgsOK, StartsAtFirstLine
<1>2. ArgsOK' /\ TypeOK'
  BY <1>1 DEF WalkInv, ArgsOK, TypeOK, args
<1>3. Positioned'
  BY <1>1 DEF WalkInv, ArgsOK, Positioned, args
<1>4. InPlace'
  BY <1>1 DEF WalkInv, InPlace, Expected, At, args
<1>5. ColoursMoved'
  BY <1>1 DEF WalkInv, ArgsOK, ColoursMoved, Behind, args
<1>6. QED
  BY <1>2, <1>3, <1>4, <1>5 DEF WalkInv

LEMMA BeginLineWalk ==
  ASSUME WalkInv, BeginLine
  PROVE  WalkInv'
<1> USE DEF WalkInv, ArgsOK, BeginLine, Walking
<1>1. ArgsOK' /\ TypeOK'
  BY PlaceType DEF TypeOK, Positioned, args
<1>2. Positioned'
  <2>1. i \in Nat /\ 0 * PixelSize = 0
    BY ScanlinesAssumption DEF TypeOK
  <2>2. i * lineIn \in Nat /\ i * lineOut \in Nat
    BY <2>1
  <2>3. At(walk, lineIn, i, 0) = strideIn + Place(walk) /\ At(walk, lineOut, i, 0) = strideOut + Place(walk)
    BY <2>1, <2>2, PlaceType DEF At, Positioned
  <2>4. QED
    BY <2>3 DEF Positioned, args, At, Place
<1>3. InPlace'
  BY UnmovedInPlace
<1>4. ColoursMoved'
  <2>1. \A a \in Int, b \in Nat : Behind(a, b)' => Behind(a, b)
    BY ScanlinesAssumption DEF Behind, args, TypeOK
  <2>2. \A a \in 0 .. lines - 1, b \in 0 .. ppl - 1 : Behind(a, b)' => Behind(a, b)
    BY <2>1
  <2>3. QED
    BY <2>2, UnmovedColours
<1>5. QED
  BY <1>1, <1>2, <1>3, <1>4

LEMMA MovePixelWalk ==
  ASSUME WalkInv, MovePixel
  PROVE  WalkInv'
<1> USE DEF WalkInv, ArgsOK, MovePixel, Walking
<1>1. i \in Nat /\ j \in Nat /\ i < lines /\ j < ppl /\ i \in 0 .. lines - 1 /\ j \in 0 .. ppl - 1
  BY DEF TypeOK
<1>2. accum = At(walk, lineIn, i, j) /\ output = At(walk, lineOut, i, j)
  BY <1>1 DEF Positioned
<1>3. ArgsOK' /\ TypeOK'
  BY <1>1, ScanlinesAssumption DEF TypeOK, args
<1>4. Positioned'
  <2>1. CASE j + 1 = ppl
    <3>1. (i + 1) * lineIn = i * lineIn + lineIn /\ (i + 1) * lineOut = i * lineOut + lineOut
      BY <1>1
    <3>2. strideIn + lineIn \in Nat /\ strideOut + lineOut \in Nat
      BY DEF Positioned
    <3>3. QED
      BY <1>1, <2>1, <3>1, <3>2 DEF Positioned, args
  <2>2. CASE j + 1 # ppl
    <3>1. At(walk, lineIn, i, j + 1) = accum + PixelSize /\ At(walk, lineOut, i, j + 1) = output + PixelSize
      BY <1>1, <1>2, AtNext
    <3>2. QED
      BY <1>1, <2>2, <3>1 DEF Positioned, args, At, Place
  <2>3. QED
    BY <2>1, <2>2
<1>5. InPlace'
  <2>1. <<walk, output, accum>> \in Expected("alpha") \cup Expected("colour")
    BY <1>1, <1>2 DEF Expected
  <2>2. copied' = copied \cup {<<walk, output, accum>>} /\ UNCHANGED args
    OBVIOUS
  <2>3. QED
    BY <2>1, <2>2, ExpectedStays DEF InPlace
<1>6. ColoursMoved'
  <2> SUFFICES ASSUME walk = "colour", NEW a \in 0 .. lines - 1, NEW b \in 0 .. ppl - 1, Behind(a, b)'
      PROVE  MovedOf("colour", a, b)'
    BY DEF ColoursMoved, args
  <2>1. Behind(a, b) \/ (a = i /\ b = j)
    BY <1>1 DEF Behind, args
  <2>2. CASE Behind(a, b)
    BY <2>2 DEF ColoursMoved, MovedOf, At, args
  <2>3. CASE a = i /\ b = j
    BY <1>2, <2>3 DEF MovedOf, At, args
  <2>4. QED
    BY <2>1, <2>2, <2>3
<1>7. QED
  BY <1>3, <1>4, <1>5, <1>6

LEMMA EndWalk ==
  ASSUME WalkInv, OutOfRange \/ Return \/ UNCHANGED vars
  PROVE  WalkInv'
<1> USE DEF WalkInv, ArgsOK
<1>1. ArgsOK' /\ TypeOK'
  BY DEF OutOfRange, Return, TypeOK, args, vars
<1>2. Positioned'
  BY DEF OutOfRange, Return, Positioned, At, Place, args, vars
<1>3. UNCHANGED <<args, copied, i, j>>
  BY DEF OutOfRange, Return, vars
<1>4. InPlace'
  BY <1>3, UnmovedInPlace
<1>5. ColoursMoved'
  <2>1. \A a \in 0 .. lines - 1, b \in 0 .. ppl - 1 : Behind(a, b)' => Behind(a, b)
    BY <1>3 DEF Behind, args
  <2>2. QED
    BY <1>3, <2>1, UnmovedColours DEF OutOfRange, Return, vars
<1>6. QED
  BY <1>1, <1>2, <1>4, <1>5

LEMMA NextWalk == StartsAtFirstLine /\ WalkInv /\ [Next]_vars => WalkInv'
  BY StartWalk, BeginLineWalk, MovePixelWalk, EndWalk DEF Next, Over

\* At every step the walk is where its loop variables say, and has moved the pixels
\* before that place, each to its own (the loops of all routines but CachedXFORM).
THEOREM WalksInOrder == ASSUME StartsAtFirstLine PROVE Spec => []WalkInv
<1>1. WalkInv /\ [Next]_vars => WalkInv'
  BY NextWalk
<1>2. QED
  BY <1>1, InitWalk, PTL DEF Spec

\* Whatever the sizes of the picture, its padding, its pixels and the buffers: each
\* pixel is moved to its own place only, and at the end all of them are (the loops of
\* the transform routines but CachedXFORM's).
THEOREM PixelsKeepTheirPlaces == ASSUME StartsAtFirstLine PROVE Spec => []EachLineInItsPlace
<1>1. WalkInv => EachLineInItsPlace
  BY DEF WalkInv, InPlace, ColoursMoved, MovedOf, Expected, EachLineInItsPlace
<1>2. QED
  BY <1>1, WalksInOrder, PTL

----------------------------------------------------------------------------

\* The end of a pixel is within a buffer that holds the picture.
LEMMA WithinNeeded ==
  ASSUME ArgsOK, NEW line \in Nat, NEW a \in 0 .. lines - 1, NEW b \in 0 .. ppl - 1
  PROVE  /\ a * line <= Needed(line)
         /\ a * line + b * PixelSize + PixelSize <= Needed(line)
<1> DEFINE L == lines - 1
<1>1. a \in Nat /\ L \in Nat /\ a <= L /\ b + 1 \in Nat /\ b \in Nat /\ b + 1 <= ppl /\ PixelSize \in Nat /\ ppl \in Nat
  BY ScanlinesAssumption DEF ArgsOK
<1>2. a * line <= L * line
  BY <1>1, Products
<1>3. (b + 1) * PixelSize <= ppl * PixelSize
  BY <1>1, Products
<1>4. (b + 1) * PixelSize = b * PixelSize + PixelSize
  BY <1>1
<1>5. a * line \in Nat /\ L * line \in Nat /\ b * PixelSize \in Nat /\ ppl * PixelSize \in Nat
  BY <1>1
<1>6. Needed(line) = L * line + ppl * PixelSize
  BY <1>1 DEF Needed
<1> HIDE DEF L
<1>7. QED
  BY <1>1, <1>2, <1>3, <1>4, <1>5, <1>6

LEMMA NextOverrun ==
  ASSUME StartsAtFirstLine, AlphaLeads, WalkInv, NeverOverrun, [Next]_vars
  PROVE  NeverOverrun'
<1> SUFFICES ASSUME Fits, walk' = "panicked", walk # "panicked" PROVE FALSE
  <2>1. Fits' => Fits
    BY DEF Next, HandleExtraChannels, TransformColours, Start, BeginLine, MovePixel, OutOfRange, Return, Over,
       Fits, Needed, args, vars
  <2>2. QED
    BY <2>1 DEF NeverOverrun
<1>1. OutOfRange
  BY DEF Next, HandleExtraChannels, TransformColours, Start, BeginLine, MovePixel, Return, Over, vars, args, WalkInv, TypeOK, Walking
<1>2. i \in 0 .. lines - 1 /\ lineIn \in Nat /\ lineOut \in Nat /\ ArgsOK /\ Place(walk) = 0 /\ lenIn \in Nat /\ lenOut \in Nat
      /\ ppl \in Nat \ {0} /\ j \in Nat /\ PixelSize \in Nat
  BY <1>1, ScanlinesAssumption DEF OutOfRange, Walking, WalkInv, TypeOK, ArgsOK, Place, AlphaLeads
<1>3. strideIn = i * lineIn /\ strideOut = i * lineOut
  BY <1>1 DEF OutOfRange, Walking, WalkInv, Positioned
<1>4. CASE j = ppl
  <2>1. strideIn <= Needed(lineIn) /\ strideOut <= Needed(lineOut)
    <3>1. 0 \in 0 .. ppl - 1
      BY <1>2
    <3>2. i * lineIn <= Needed(lineIn) /\ i * lineOut <= Needed(lineOut)
      BY <1>2, <3>1, WithinNeeded
    <3>3. QED
      BY <1>3, <3>2
  <2>2. strideIn \in Nat /\ strideOut \in Nat
    BY DEF WalkInv, Positioned
  <2>3. Needed(lineIn) \in Int /\ Needed(lineOut) \in Int
    <3>1. (lines - 1) * lineIn \in Int /\ (lines - 1) * lineOut \in Int /\ ppl * PixelSize \in Int
      BY <1>2 DEF ArgsOK
    <3>2. QED
      BY <3>1 DEF Needed
  <2>4. QED
    BY <1>1, <1>2, <1>4, <2>1, <2>2, <2>3 DEF OutOfRange, Fits
<1>5. CASE j < ppl
  <2>1. accum = At(walk, lineIn, i, j) /\ output = At(walk, lineOut, i, j)
    BY <1>1, <1>5 DEF OutOfRange, Walking, WalkInv, Positioned
  <2>2. i * lineIn \in Nat /\ i * lineOut \in Nat /\ j * PixelSize \in Nat /\ j \in 0 .. ppl - 1
    BY <1>2, <1>5
  <2>3. accum = i * lineIn + j * PixelSize /\ output = i * lineOut + j * PixelSize
    BY <1>2, <2>1, <2>2 DEF At
  <2>4. accum + PixelSize <= Needed(lineIn) /\ output + PixelSize <= Needed(lineOut)
    BY <1>2, <2>2, <2>3, WithinNeeded
  <2>5. Needed(lineIn) \in Int /\ Needed(lineOut) \in Int
    <3>1. (lines - 1) * lineIn \in Int /\ (lines - 1) * lineOut \in Int /\ ppl * PixelSize \in Int
      BY <1>2 DEF ArgsOK
    <3>2. QED
      BY <3>1 DEF Needed
  <2>6. QED
    BY <1>1, <1>2, <1>5, <2>2, <2>3, <2>4, <2>5 DEF OutOfRange, Fits
<1>6. QED
  BY <1>1, <1>4, <1>5 DEF OutOfRange, Walking

\* Buffers of exactly the picture's size are enough, in every routine but CachedXFORM
\* and when the extra channel comes first (the slices of the transform routines and of
\* cmsHandleExtraChannels).
THEOREM ExactBuffersAreEnough == ASSUME StartsAtFirstLine, AlphaLeads PROVE Spec => []NeverOverrun
<1>1. Init => NeverOverrun
  BY DEF Init, NeverOverrun
<1>2. WalkInv /\ NeverOverrun /\ [Next]_vars => NeverOverrun'
  BY NextOverrun
<1>3. QED
  BY <1>1, <1>2, WalksInOrder, PTL DEF Spec
=============================================================================
