-------------------- MODULE FormattedTransformProofs --------------------
(***************************************************************************)
(* What FormattedTransform promises, for every pair of formats and rows of *)
(* any length: each lane is read from its own sample, each sample gets its *)
(* own lane, nothing that was stored is stored over, and a row of pixels   *)
(* is never more than the buffers hold.                                    *)
(*                                                                         *)
(* A formatter comes out of a table.  The row that was found settles some  *)
(* fields of the format (RowFits), and with them the formatter reads every *)
(* lane of the first pixel where MemoryOrder says it is, or stores it      *)
(* there, and moves on by a pixel (Serves for unrollers, Keeps for         *)
(* packers).  MemoryOrder is first put in closed form (PlaceOfLane).       *)
(* Pixel k is then the first one moved by k * Advance (ProperSteps,        *)
(* CellSteps), and the invariants say that the loop has moved by just      *)
(* that much after k pixels (InStep, Laid) and has left enough for the     *)
(* others (Left).                                                          *)
(***************************************************************************)
EXTENDS FormattedTransform, SequenceTheorems, WellFoundedInduction, TLAPS

----------------------------------------------------------------------------
(* Where the samples of a pixel are, without MemoryOrder.                  *)

\* What the fields of a format are.
LEMMA FormatType ==
  ASSUME NEW f, IsFormat(f)
  PROVE  /\ f.channels \in Nat /\ f.extra \in Nat /\ f.bytes \in Nat
         /\ Samples(f) \in Nat /\ Samples(f) = f.channels + f.extra
         /\ PixelSize(f) \in Nat \ {0}
         /\ Start(f) \in Nat
         /\ Pixels \in Nat \ {0}
  BY FormattedTransformAssumption DEF IsFormat, Samples, PixelSize, Start

\* The samples as they are given, and with some of them moved to the front.
Given(f) == [p \in 1 .. Samples(f) |-> IF p <= f.channels THEN p - 1 ELSE Extra]
Moved(f) == IF f.extra = 0 THEN 1 ELSE f.extra
Fronted(f) ==
  SubSeq(Given(f), Samples(f) - Moved(f) + 1, Samples(f)) \o SubSeq(Given(f), 1, Samples(f) - Moved(f))

\* The colours in order, then the extra samples.
LEMMA GivenType ==
  ASSUME NEW f, IsFormat(f)
  PROVE  /\ Given(f) \in Seq(Int) /\ Len(Given(f)) = Samples(f)
         /\ \A p \in 1 .. Samples(f) :
              Given(f)[p] \in Int /\ Given(f)[p] = IF p <= f.channels THEN p - 1 ELSE Extra
  BY FormatType DEF Given, Extra

\* What the end of that holds once it is moved to the front.
LEMMA FrontedIs ==
  ASSUME NEW f, IsFormat(f), f.channels > 0
  PROVE  /\ Fronted(f) \in Seq(Int) /\ Len(Fronted(f)) = Samples(f)
         /\ \A p \in 1 .. Samples(f) :
              Fronted(f)[p] = IF p <= Moved(f) THEN Given(f)[Samples(f) - Moved(f) + p]
                              ELSE Given(f)[p - Moved(f)]
<1> DEFINE n == Samples(f)
           m == Moved(f)
           a == SubSeq(Given(f), n - m + 1, n)
           b == SubSeq(Given(f), 1, n - m)
<1>1. n \in Nat /\ m \in 1 .. n
  BY FormatType DEF Moved
<1> HIDE DEF n, m
<1>2. \A p \in 1 .. n : Given(f)[p] \in Int
  BY GivenType DEF n
<1>3. \A i \in n - m + 1 .. n : Given(f)[i] \in Int
  BY <1>1, <1>2
<1>4. /\ a \in Seq(Int) /\ Len(a) = m
      /\ \A i \in 1 .. m : a[i] = Given(f)[n - m + i]
  <2>1. /\ a \in Seq(Int)
        /\ Len(a) = IF n - m + 1 <= n THEN n - (n - m + 1) + 1 ELSE 0
        /\ \A i \in 1 .. n - (n - m + 1) + 1 : a[i] = Given(f)[n - m + 1 + i - 1]
    BY <1>1, <1>3, SubSeqProperties
  <2> HIDE DEF a
  <2>2. n - (n - m + 1) + 1 = m /\ n - m + 1 <= n /\ \A i \in 1 .. m : n - m + 1 + i - 1 = n - m + i
    BY <1>1
  <2>3. QED
    BY <2>1, <2>2
<1>5. \A i \in 1 .. n - m : Given(f)[i] \in Int
  BY <1>1, <1>2
<1>6. /\ b \in Seq(Int) /\ Len(b) = n - m
      /\ \A i \in 1 .. n - m : b[i] = Given(f)[i]
  <2>1. /\ b \in Seq(Int)
        /\ Len(b) = IF 1 <= n - m THEN n - m - 1 + 1 ELSE 0
        /\ \A i \in 1 .. n - m - 1 + 1 : b[i] = Given(f)[1 + i - 1]
    BY <1>1, <1>5, SubSeqProperties
  <2> HIDE DEF b
  <2>2. n - m - 1 + 1 = n - m /\ (~(1 <= n - m) => n - m = 0) /\ \A i \in 1 .. n - m : 1 + i - 1 = i
    BY <1>1
  <2>3. QED
    BY <2>1, <2>2
<1>7. Fronted(f) = a \o b
  BY DEF Fronted, n, m
<1> HIDE DEF a, b
<1>8. /\ a \o b \in Seq(Int) /\ Len(a \o b) = Len(a) + Len(b)
      /\ \A i \in 1 .. Len(a) + Len(b) : (a \o b)[i] = IF i <= Len(a) THEN a[i] ELSE b[i - Len(a)]
  BY <1>4, <1>6, ConcatProperties
<1>9. \A p \in 1 .. n : p > m => p - m \in 1 .. n - m
  BY <1>1
<1>10. Len(a) + Len(b) = n
  BY <1>1, <1>4, <1>6
<1>11. \A p \in 1 .. n : (a \o b)[p] = IF p <= m THEN Given(f)[n - m + p] ELSE Given(f)[p - m]
  BY <1>1, <1>4, <1>6, <1>8, <1>9, <1>10
<1>12. QED
  BY <1>7, <1>8, <1>10, <1>11 DEF n, m

\* The lane at place p of a pixel.
LEMMA OrderIs ==
  ASSUME NEW f, IsFormat(f), f.channels > 0, NEW p \in 0 .. Samples(f) - 1
  PROVE  MemoryOrder(f)[p + 1] =
           LET q == IF Is("swap", f) THEN Samples(f) - 1 - p ELSE p
               g == IF ~Is("first", f) THEN q
                    ELSE IF q < Moved(f) THEN Samples(f) - Moved(f) + q ELSE q - Moved(f)
           IN  IF g < f.channels THEN g ELSE Extra
<1> DEFINE n == Samples(f)
           m == Moved(f)
           first == IF Is("first", f) THEN Fronted(f) ELSE Given(f)
           q == IF Is("swap", f) THEN n - 1 - p ELSE p
           g == IF ~Is("first", f) THEN q ELSE IF q < m THEN n - m + q ELSE q - m
<1>1. n \in Nat /\ m \in 1 .. n /\ f.channels \in Nat /\ p \in 0 .. n - 1
  BY FormatType DEF Moved
<1>2. MemoryOrder(f) = IF Is("swap", f) THEN Reverse(first) ELSE first
  BY DEF MemoryOrder, Fronted, Given, Moved
<1> HIDE DEF n, m
<1>3. Len(first) = n
  BY GivenType, FrontedIs DEF n
<1>4. MemoryOrder(f)[p + 1] = first[q + 1]
  <2> HIDE DEF first
  <2>1. Is("swap", f) => Reverse(first)[p + 1] = first[n - (p + 1) + 1]
    BY <1>1, <1>3 DEF Reverse
  <2>2. n - (p + 1) + 1 = n - 1 - p + 1
    BY <1>1
  <2>3. QED
    BY <1>2, <2>1, <2>2
<1>5. q \in 0 .. n - 1 /\ g \in 0 .. n - 1
  BY <1>1
<1>6. first[q + 1] = Given(f)[g + 1]
  <2> HIDE DEF q
  <2>1. CASE ~Is("first", f)
    BY <2>1
  <2>2. CASE Is("first", f)
    <3>1. Fronted(f)[q + 1] = IF q + 1 <= m THEN Given(f)[n - m + (q + 1)] ELSE Given(f)[(q + 1) - m]
      <4>1. q + 1 \in 1 .. n
        BY <1>1, <1>5
      <4>2. QED
        BY <4>1, FrontedIs DEF n, m
    <3>2. (q + 1 <= m <=> q < m) /\ n - m + (q + 1) = n - m + q + 1 /\ (q + 1) - m = q - m + 1
      BY <1>1, <1>5
    <3>3. QED
      BY <2>2, <3>1, <3>2
  <2>3. QED
    BY <2>1, <2>2
<1>7. Given(f)[g + 1] = IF g < f.channels THEN g ELSE Extra
  <2> HIDE DEF g
  <2>1. g + 1 \in 1 .. n /\ (g + 1 <= f.channels <=> g < f.channels) /\ g + 1 - 1 = g
    BY <1>1, <1>5
  <2>2. Given(f)[g + 1] = IF g + 1 <= f.channels THEN g + 1 - 1 ELSE Extra
    BY <1>1, <1>5, <2>1, GivenType DEF n
  <2>3. QED
    BY <2>1, <2>2
<1>8. QED
  BY <1>4, <1>6, <1>7 DEF n, m

\* Turned is a permutation of the lanes, by one.
LEMMA TurnedIs ==
  ASSUME NEW f, IsFormat(f), NEW l \in 0 .. f.channels - 1
  PROVE  /\ Turned(f, l) = IF ~SwappedFirst(f) THEN l ELSE IF l + 1 = f.channels THEN 0 ELSE l + 1
         /\ Turned(f, l) \in 0 .. f.channels - 1
<1>1. f.channels \in Nat /\ l \in 0 .. f.channels - 1
  BY FormatType
<1>2. l + 1 = f.channels => (l + 1) % f.channels = 0
  BY <1>1
<1>3. l + 1 # f.channels => (l + 1) % f.channels = l + 1
  BY <1>1
<1> HIDE DEF SwappedFirst
<1>4. Turned(f, l) = IF ~SwappedFirst(f) THEN l ELSE IF l + 1 = f.channels THEN 0 ELSE l + 1
  BY <1>2, <1>3 DEF Turned
<1>5. QED
  BY <1>1, <1>4

\* A least element is the minimum.
LEMMA MinOfOne ==
  ASSUME NEW T, NEW x \in T, x \in Int, \A y \in T : y \in Int /\ x <= y
  PROVE  Min(T) = x
<1>1. ASSUME NEW z \in T, \A y \in T : z <= y
      PROVE  z = x
  BY <1>1
<1>2. \E z \in T : \A y \in T : z <= y
  OBVIOUS
<1>3. Min(T) \in T /\ \A y \in T : Min(T) <= y
  BY <1>2 DEF Min
<1>4. QED
  BY <1>1, <1>3

\* Where lane l is.
LEMMA PlaceOfLane ==
  ASSUME NEW f, IsFormat(f), NEW l \in 0 .. f.channels - 1
  PROVE  /\ PlaceOf(f, l) = Start(f) + Index(f, Turned(f, l))
         /\ PlaceOf(f, l) \in 0 .. Samples(f) - 1
<1> DEFINE n == Samples(f)
           m == Moved(f)
           c == f.channels
           e == f.extra
           t == IF ~SwappedFirst(f) THEN l ELSE IF l + 1 = c THEN 0 ELSE l + 1
           P == (IF ExtraFirst(f) THEN e ELSE 0) + (IF Is("swap", f) THEN c - t - 1 ELSE t)
           q(p) == IF Is("swap", f) THEN n - 1 - p ELSE p
           g(p) == IF ~Is("first", f) THEN q(p) ELSE IF q(p) < m THEN n - m + q(p) ELSE q(p) - m
           T == { p \in 0 .. n - 1 : MemoryOrder(f)[p + 1] = l }
<1>1. c \in Nat /\ e \in Nat /\ n = c + e /\ l \in 0 .. c - 1 /\ m = IF e = 0 THEN 1 ELSE e
  BY FormatType DEF Moved
<1>2. Start(f) + Index(f, Turned(f, l)) = P
  BY TurnedIs DEF Start, Index
<1>3. ExtraFirst(f) <=> (Is("swap", f) /\ ~Is("first", f)) \/ (~Is("swap", f) /\ Is("first", f))
  BY DEF ExtraFirst, Is
<1>4. SwappedFirst(f) <=> e = 0 /\ Is("first", f)
  BY DEF SwappedFirst
<1>5. \A p \in 0 .. n - 1 : MemoryOrder(f)[p + 1] = IF g(p) < c THEN g(p) ELSE Extra
  BY <1>1, OrderIs
<1> HIDE DEF n, m, c, e
<1>6. P \in 0 .. n - 1 /\ g(P) = l
  <2>1. CASE Is("swap", f) /\ Is("first", f)
    BY <1>1, <1>3, <1>4, <2>1
  <2>2. CASE Is("swap", f) /\ ~Is("first", f)
    BY <1>1, <1>3, <1>4, <2>2
  <2>3. CASE ~Is("swap", f) /\ Is("first", f)
    BY <1>1, <1>3, <1>4, <2>3
  <2>4. CASE ~Is("swap", f) /\ ~Is("first", f)
    BY <1>1, <1>3, <1>4, <2>4
  <2>5. QED
    BY <2>1, <2>2, <2>3, <2>4
<1>7. ASSUME NEW p \in 0 .. n - 1, g(p) = l
      PROVE  p = P
  <2>1. CASE Is("swap", f) /\ Is("first", f)
    BY <1>1, <1>3, <1>4, <1>7, <2>1
  <2>2. CASE Is("swap", f) /\ ~Is("first", f)
    BY <1>1, <1>3, <1>4, <1>7, <2>2
  <2>3. CASE ~Is("swap", f) /\ Is("first", f)
    BY <1>1, <1>3, <1>4, <1>7, <2>3
  <2>4. CASE ~Is("swap", f) /\ ~Is("first", f)
    BY <1>1, <1>3, <1>4, <1>7, <2>4
  <2>5. QED
    BY <2>1, <2>2, <2>3, <2>4
<1> HIDE DEF g, P
<1>8. P \in T
  BY <1>1, <1>5, <1>6
<1>9. \A p \in T : p = P
  BY <1>1, <1>5, <1>7 DEF Extra
<1>10. Min(T) = P
  <2> HIDE DEF T
  <2>1. P \in Int
    BY <1>1, <1>6
  <2>2. \A y \in T : y \in Int /\ P <= y
    BY <2>1, <1>9
  <2>3. QED
    BY <2>1, <2>2, <1>8, MinOfOne
<1>11. PlaceOf(f, l) = Min(T)
  BY DEF PlaceOf, n
<1>12. QED
  BY <1>2, <1>6, <1>10, <1>11 DEF n

\* Where the extra samples start.
LEMMA PlaceOfExtra ==
  ASSUME NEW f, IsFormat(f), f.channels > 0, f.extra > 0
  PROVE  PlaceOf(f, Extra) = IF ExtraFirst(f) THEN 0 ELSE f.channels
<1> DEFINE n == Samples(f)
           m == Moved(f)
           c == f.channels
           e == f.extra
           P == IF ExtraFirst(f) THEN 0 ELSE c
           q(p) == IF Is("swap", f) THEN n - 1 - p ELSE p
           g(p) == IF ~Is("first", f) THEN q(p) ELSE IF q(p) < m THEN n - m + q(p) ELSE q(p) - m
           T == { p \in 0 .. n - 1 : MemoryOrder(f)[p + 1] = Extra }
<1>1. c \in Nat /\ e \in Nat /\ c > 0 /\ e > 0 /\ n = c + e /\ m = e
  BY FormatType DEF Moved
<1>3. ExtraFirst(f) <=> (Is("swap", f) /\ ~Is("first", f)) \/ (~Is("swap", f) /\ Is("first", f))
  BY DEF ExtraFirst, Is
<1>5. \A p \in 0 .. n - 1 : MemoryOrder(f)[p + 1] = IF g(p) < c THEN g(p) ELSE Extra
  BY <1>1, OrderIs
<1> HIDE DEF n, m, c, e
<1>6. P \in 0 .. n - 1 /\ g(P) >= c
  <2>1. CASE Is("swap", f) /\ Is("first", f)
    BY <1>1, <1>3, <2>1
  <2>2. CASE Is("swap", f) /\ ~Is("first", f)
    BY <1>1, <1>3, <2>2
  <2>3. CASE ~Is("swap", f) /\ Is("first", f)
    BY <1>1, <1>3, <2>3
  <2>4. CASE ~Is("swap", f) /\ ~Is("first", f)
    BY <1>1, <1>3, <2>4
  <2>5. QED
    BY <2>1, <2>2, <2>3, <2>4
<1>7. ASSUME NEW p \in 0 .. n - 1
      PROVE  g(p) \in 0 .. n - 1 /\ (g(p) >= c => P <= p)
  <2>1. CASE Is("swap", f) /\ Is("first", f)
    BY <1>1, <1>3, <2>1
  <2>2. CASE Is("swap", f) /\ ~Is("first", f)
    BY <1>1, <1>3, <2>2
  <2>3. CASE ~Is("swap", f) /\ Is("first", f)
    BY <1>1, <1>3, <2>3
  <2>4. CASE ~Is("swap", f) /\ ~Is("first", f)
    BY <1>1, <1>3, <2>4
  <2>5. QED
    BY <2>1, <2>2, <2>3, <2>4
<1> HIDE DEF g, P
<1>8. P \in T
  BY <1>1, <1>5, <1>6, <1>7
<1>9. \A p \in T : p \in Int /\ P <= p
  BY <1>1, <1>5, <1>7 DEF Extra
<1>10. Min(T) = P
  <2> HIDE DEF T
  <2>1. P \in Int
    BY <1>1, <1>6
  <2>2. QED
    BY <2>1, <1>8, <1>9, MinOfOne
<1>11. PlaceOf(f, Extra) = Min(T)
  BY DEF PlaceOf, n
<1>12. QED
  BY <1>10, <1>11 DEF P, c

----------------------------------------------------------------------------
(* The tables.                                                             *)

\* A set of natural numbers has a least.
LEMMA LeastNatural ==
  ASSUME NEW T, T \subseteq Nat, T # {}
  PROVE  \E x \in T : \A y \in T : x <= y
<1> DEFINE R == {ss \in Nat \X Nat : ss[1] < ss[2]}
<1>1. IsWellFoundedOn(OpToRel(<, Nat), Nat)
  BY NatLessThanWellFounded
<1>2. OpToRel(<, Nat) = R
  BY DEF OpToRel
<1>3. IsWellFoundedOn(R, Nat)
  BY <1>1, <1>2, Zenon
<1>4. ASSUME NEW x \in T, NEW y \in T, ~(<<y, x>> \in R)
      PROVE  x <= y
  <2>1. <<y, x>> \in Nat \X Nat /\ <<y, x>>[1] = y /\ <<y, x>>[2] = x
    OBVIOUS
  <2>2. ~(y < x)
    BY <1>4, <2>1, Zenon
  <2>3. QED
    BY <2>2
<1> HIDE DEF R
<1>5. PICK x \in T : \A y \in T : ~(<<y, x>> \in R)
  BY <1>3, WFMin
<1>6. QED
  BY <1>4, <1>5

\* Lookup returns the formatter of the first row that fits.
LEMMA LookupIs ==
  ASSUME NEW table, NEW n \in Nat, DOMAIN table = 1 .. n, NEW f, Lookup(table, f) # None
  PROVE  \E r \in 1 .. n : /\ Fits(f, table[r])
                           /\ Lookup(table, f) = table[r].frm
                           /\ \A q \in 1 .. n : q < r => ~Fits(f, table[q])
<1> DEFINE fitting == { r \in DOMAIN table : Fits(f, table[r]) }
<1>1. fitting # {} /\ Lookup(table, f) = table[CHOOSE r \in fitting : \A q \in fitting : r <= q].frm
  BY DEF Lookup
<1>2. fitting \subseteq Nat
  OBVIOUS
<1>3. PICK r \in fitting : \A q \in fitting : r <= q
  BY <1>1, <1>2, LeastNatural
<1> DEFINE c == CHOOSE x \in fitting : \A q \in fitting : x <= q
<1>4. c \in fitting /\ \A q \in fitting : c <= q
  BY <1>3
<1>5. Lookup(table, f) = table[c].frm
  BY <1>1
<1> HIDE DEF c
<1>6. c \in 1 .. n /\ Fits(f, table[c])
  BY <1>4
<1>7. \A q \in 1 .. n : q < c => ~Fits(f, table[q])
  BY <1>4, <1>6
<1>8. QED
  BY <1>5, <1>6, <1>7

\* A row that fits settles the fields that it does not leave open.
LEMMA RowFits ==
  ASSUME NEW f, NEW space, NEW c, NEW e, NEW b, NEW flags, NEW open, NEW frm
  PROVE  Fits(f, Row(Fmt(space, c, e, b, flags), open, frm)) <=>
           /\ f.bytes = b /\ f.flags \ open = flags
           /\ "space" \notin open => f.space = space
           /\ "channels" \notin open => f.channels = c
           /\ "extra" \notin open => f.extra = e
  BY DEF Fits, Row, Fmt

----------------------------------------------------------------------------
(* What a right unroller is: it reads every lane of the first pixel from    *)
(* where it is, and moves on by a pixel.                                   *)

Advance(f) == IF Is("planar", f) THEN PixelSize(f) ELSE PixelSize(f) * Samples(f)
ReadsFirst(u, f) ==
  \A l \in 0 .. f.channels - 1 : l \in DOMAIN u.lanes /\ u.lanes[l] = Proper(f, 0, l)
ReadsRight(u, f) ==
  /\ ReadsFirst(u, f) /\ u.adv = Advance(f)
  /\ ~Is("planar", f) => u.needs \in 0 .. Advance(f)

\* It does not go beyond the pixel.
Stays(u, f) == u.adv <= Advance(f) /\ u.needs \in 0 .. Advance(f)

\* The unroller frm reads the lanes of f, except where it is known not to.
Serves(frm, f) ==
  LET u == Unroll(frm, f, BytesPerPlane(f))
  IN  /\ u.adv \in Nat
      /\ ~Is("planar", f) /\ ~Overreads(frm, f) => Stays(u, f)
      /\ \A k \in 0 .. Pixels - 1 :
           ~Misreads(frm, f, k + 1) => ReadsFirst(u, f) /\ (k > 0 => u.adv = Advance(f))

\* The place of lane l in a pixel of c colours and e extras whose flags are F.
Spot(c, e, F, l) ==
  LET t == IF ~(e = 0 /\ "first" \in F) THEN l ELSE IF l + 1 = c THEN 0 ELSE l + 1
  IN  (IF ("swap" \in F /\ "first" \notin F) \/ ("swap" \notin F /\ "first" \in F) THEN e ELSE 0)
      + (IF "swap" \in F THEN c - t - 1 ELSE t)
Ordered(places, c, e, F) ==
  \A l \in 0 .. c - 1 : l \in 0 .. Len(places) - 1 /\ places[l + 1] = Spot(c, e, F, l)

\* A pixel takes a natural number of bytes.
LEMMA AdvanceType ==
  ASSUME NEW f, IsFormat(f)
  PROVE  Advance(f) \in Nat
<1>1. PixelSize(f) \in Nat /\ Samples(f) \in Nat
  BY FormatType
<1>2. PixelSize(f) * Samples(f) \in Nat
  BY <1>1
<1>3. QED
  BY <1>1, <1>2 DEF Advance

\* The place of a lane depends on nothing but what a row with a fixed layout settles.
LEMMA FixedPlace ==
  ASSUME NEW f, IsFormat(f), NEW F, "swap" \in F <=> "swap" \in f.flags,
         "first" \in F <=> "first" \in f.flags, NEW l \in 0 .. f.channels - 1
  PROVE  PlaceOf(f, l) = Spot(f.channels, f.extra, F, l)
<1>1. /\ Is("swap", f) <=> "swap" \in F
      /\ Is("first", f) <=> "first" \in F
  BY DEF Is
<1>2. PlaceOf(f, l) = Start(f) + Index(f, Turned(f, l))
  BY PlaceOfLane
<1>3. Turned(f, l) = IF ~(f.extra = 0 /\ "first" \in F) THEN l ELSE IF l + 1 = f.channels THEN 0 ELSE l + 1
  BY <1>1, TurnedIs DEF SwappedFirst
<1>4. ExtraFirst(f) <=> ("swap" \in F /\ "first" \notin F) \/ ("swap" \notin F /\ "first" \in F)
  BY <1>1 DEF ExtraFirst, Is
<1>5. QED
  BY <1>1, <1>2, <1>3, <1>4 DEF Spot, Start, Index

\* An unroller with a list of places is right if the list has the lanes in order.
LEMMA FixedRead ==
  ASSUME NEW f, IsFormat(f), NEW F, f.flags \ {"space"} = F, "planar" \notin F, "premul" \notin F,
         NEW places, Ordered(places, f.channels, f.extra, F),
         NEW size, size = PixelSize(f), NEW total, total = f.channels + f.extra,
         NEW as, as = As(f)
  PROVE  ReadsRight(Reads(size, places, total, Taking(as, F \cap {"flavor", "endian"})), f)
<1> DEFINE how == Taking(as, F \cap {"flavor", "endian"})
           u == Reads(size, places, total, how)
<1>1. ~Is("planar", f) /\ ~Premultiplied(f)
  BY DEF Is, Premultiplied
<1>2. how = Flagged(f, As(f))
  <2>1. f.flags \cap {"flavor", "endian"} = F \cap {"flavor", "endian"}
    OBVIOUS
  <2>2. QED
    BY <2>1 DEF Flagged
<1> HIDE DEF how
<1>3. u.adv = Advance(f) /\ u.needs \in 0 .. Advance(f)
  <2>1. u.adv = Advance(f) /\ u.needs = Advance(f)
    BY <1>1 DEF Advance, Samples, Reads
  <2>2. QED
    BY <2>1, AdvanceType
<1>4. ASSUME NEW l \in 0 .. f.channels - 1
      PROVE  l \in DOMAIN u.lanes /\ u.lanes[l] = Proper(f, 0, l)
  <2>1. l \in 0 .. Len(places) - 1 /\ places[l + 1] = PlaceOf(f, l)
    BY FixedPlace DEF Ordered
  <2>2. l \in DOMAIN u.lanes /\ u.lanes[l] = [at |-> size * PlaceOf(f, l), how |-> how, alpha |-> {}]
    BY <2>1 DEF Reads
  <2>3. SampleOf(f, 0, l) = size * PlaceOf(f, l)
    BY <1>1, FormatType, PlaceOfLane DEF SampleOf
  <2>4. Proper(f, 0, l) = [at |-> size * PlaceOf(f, l), how |-> how, alpha |-> {}]
    BY <1>1, <1>2, <2>3 DEF Proper, AlphaOf
  <2>5. QED
    BY <2>2, <2>4
<1> HIDE DEF u
<1>5. ReadsRight(u, f)
  BY <1>3, <1>4 DEF ReadsRight, ReadsFirst
<1>6. QED
  BY <1>5 DEF u, how

\* How a lane of a format without the optimized hint is read.
LEMMA Sampled ==
  ASSUME NEW f, IsFormat(f), "optimized" \notin f.flags
  PROVE  As(f) = IF f \in LabV2Formats THEN "labV2" ELSE "sample"
<1>1. f.flags \ {"optimized"} = f.flags
  OBVIOUS
<1>2. Unhinted(f) = f
  BY <1>1 DEF Unhinted, IsFormat, Fmt
<1>3. QED
  BY <1>2 DEF As

\* A right unroller serves, for every pixel.
LEMMA RightServes ==
  ASSUME NEW f, IsFormat(f), NEW frm, ReadsRight(Unroll(frm, f, BytesPerPlane(f)), f)
  PROVE  Serves(frm, f)
<1> DEFINE u == Unroll(frm, f, BytesPerPlane(f))
<1>1. Advance(f) \in Nat /\ u.adv = Advance(f)
  BY AdvanceType DEF ReadsRight
<1>2. ~Is("planar", f) => Stays(u, f)
  <2>1. Advance(f) <= Advance(f)
    BY <1>1
  <2>2. QED
    BY <1>1, <2>1 DEF ReadsRight, Stays
<1>3. ReadsFirst(u, f)
  BY DEF ReadsRight
<1>4. QED
  BY <1>1, <1>2, <1>3 DEF Serves

\* The first pixel, by the two layouts.
LEMMA ChunkyFirst ==
  ASSUME NEW f, IsFormat(f), f.channels > 0, ~Is("planar", f)
  PROVE  /\ \A l \in 0 .. f.channels - 1 : SampleOf(f, 0, l) = PixelSize(f) * (Start(f) + Colour(f, l))
         /\ AlphaOf(f, 0) = Alpha(f, PixelSize(f) * f.channels)
         /\ Advance(f) = PixelSize(f) * Samples(f)
<1>1. PixelSize(f) \in Nat /\ Samples(f) \in Nat
  BY FormatType
<1>2. ASSUME NEW l \in 0 .. f.channels - 1
      PROVE  SampleOf(f, 0, l) = PixelSize(f) * (Start(f) + Colour(f, l))
  <2>1. PlaceOf(f, l) = Start(f) + Colour(f, l) /\ PlaceOf(f, l) \in Int
    BY PlaceOfLane DEF Colour
  <2>2. SampleOf(f, 0, l) = PixelSize(f) * (0 * Samples(f) + PlaceOf(f, l))
    BY DEF SampleOf
  <2>3. QED
    BY <1>1, <2>1, <2>2
<1>3. ASSUME Premultiplied(f)
      PROVE  AlphaOf(f, 0) = Alpha(f, PixelSize(f) * f.channels)
  <2>1. f.extra > 0 /\ f.channels \in Nat
    BY <1>3, FormatType DEF Premultiplied
  <2>2. PlaceOf(f, Extra) = IF ExtraFirst(f) THEN 0 ELSE f.channels
    BY <2>1, PlaceOfExtra
  <2>3. SampleOf(f, 0, Extra) = PixelSize(f) * (0 * Samples(f) + PlaceOf(f, Extra))
    BY DEF SampleOf
  <2>4. SampleOf(f, 0, Extra) = IF ExtraFirst(f) THEN 0 ELSE PixelSize(f) * f.channels
    BY <1>1, <2>1, <2>2, <2>3
  <2>5. QED
    BY <1>3, <2>4 DEF AlphaOf, Alpha
<1>4. ~Premultiplied(f) => AlphaOf(f, 0) = Alpha(f, PixelSize(f) * f.channels)
  BY DEF AlphaOf, Alpha
<1>5. QED
  BY <1>2, <1>3, <1>4 DEF Advance

\* The same of planes.
LEMMA PlanarFirst ==
  ASSUME NEW f, IsFormat(f), f.channels > 0, Is("planar", f)
  PROVE  /\ \A l \in 0 .. f.channels - 1 :
              SampleOf(f, 0, l) = (Start(f) + Colour(f, l)) * BytesPerPlane(f)
         /\ AlphaOf(f, 0) = Alpha(f, f.channels * BytesPerPlane(f))
         /\ Advance(f) = PixelSize(f)
<1>1. PixelSize(f) \in Nat /\ Pixels \in Nat
  BY FormatType
<1>2. ASSUME NEW l \in 0 .. f.channels - 1
      PROVE  SampleOf(f, 0, l) = (Start(f) + Colour(f, l)) * BytesPerPlane(f)
  <2>1. PlaceOf(f, l) = Start(f) + Colour(f, l) /\ PlaceOf(f, l) \in Int
    BY PlaceOfLane DEF Colour
  <2>2. SampleOf(f, 0, l) = PixelSize(f) * (PlaceOf(f, l) * Pixels + 0)
    BY DEF SampleOf
  <2>3. PixelSize(f) * (PlaceOf(f, l) * Pixels + 0) = PlaceOf(f, l) * (Pixels * PixelSize(f))
    BY <1>1, <2>1
  <2>4. QED
    BY <2>1, <2>2, <2>3 DEF BytesPerPlane
<1>3. ASSUME Premultiplied(f)
      PROVE  AlphaOf(f, 0) = Alpha(f, f.channels * BytesPerPlane(f))
  <2>1. f.extra > 0 /\ f.channels \in Nat
    BY <1>3, FormatType DEF Premultiplied
  <2>2. PlaceOf(f, Extra) = IF ExtraFirst(f) THEN 0 ELSE f.channels
    BY <2>1, PlaceOfExtra
  <2>3. SampleOf(f, 0, Extra) = PixelSize(f) * (PlaceOf(f, Extra) * Pixels + 0)
    BY DEF SampleOf
  <2>4. SampleOf(f, 0, Extra) = IF ExtraFirst(f) THEN 0 ELSE f.channels * (Pixels * PixelSize(f))
    BY <1>1, <2>1, <2>2, <2>3
  <2>5. QED
    BY <1>3, <2>4 DEF AlphaOf, Alpha, BytesPerPlane
<1>4. ~Premultiplied(f) => AlphaOf(f, 0) = Alpha(f, f.channels * BytesPerPlane(f))
  BY DEF AlphaOf, Alpha
<1>5. QED
  BY <1>2, <1>3, <1>4 DEF Advance

\* The unrollers that work out where they read.
Reckoned ==
  { "UnrollChunkyBytes", "UnrollPlanarBytes", "UnrollAnyWords", "UnrollAnyWordsPremul",
    "UnrollPlanarWords", "UnrollPlanarWordsPremul", "UnrollDoubleTo16",
    "UnrollFloatTo16", "UnrollHalfTo16", "UnrollHalfToFloat", "Unroll8ToFloat",
    "Unroll16ToFloat", "UnrollFloatsToFloat", "UnrollDoublesToFloat",
    "UnrollLabDoubleTo16", "UnrollLabFloatTo16", "UnrollXYZDoubleTo16",
    "UnrollXYZFloatTo16", "UnrollLabDoubleToFloat", "UnrollLabFloatToFloat",
    "UnrollXYZDoubleToFloat", "UnrollXYZFloatToFloat", "UnrollDouble1Chan" }

\* The tables of unrollers, one by one: bytes,
LEMMA ByteUnroll ==
  ASSUME NEW frm \in DOMAIN ByteUnrollers, NEW f, NEW stride
  PROVE  Unroll(frm, f, stride) = ByteUnrollers[frm]
<1>1. frm \notin DOMAIN WordUnrollers /\ frm \notin DOMAIN LabV2ToFloat
  BY DEF ByteUnrollers, WordUnrollers, LabV2ToFloat
<1>2. frm \notin Reckoned
  BY DEF ByteUnrollers, Reckoned
<1>3. QED
  BY <1>1, <1>2 DEF Unroll, Reckoned

\* words,
LEMMA WordUnroll ==
  ASSUME NEW frm \in DOMAIN WordUnrollers, NEW f, NEW stride
  PROVE  Unroll(frm, f, stride) = WordUnrollers[frm]
<1>1. frm \notin DOMAIN ByteUnrollers /\ frm \notin DOMAIN LabV2ToFloat
  BY DEF ByteUnrollers, WordUnrollers, LabV2ToFloat
<1>2. frm \notin Reckoned
  BY DEF WordUnrollers, Reckoned
<1>3. QED
  BY <1>1, <1>2 DEF Unroll, Reckoned

\* Lab version 2 to floats,
LEMMA LabUnroll ==
  ASSUME NEW frm \in DOMAIN LabV2ToFloat, NEW f, NEW stride
  PROVE  Unroll(frm, f, stride) = LabV2ToFloat[frm]
<1>1. frm \notin DOMAIN ByteUnrollers /\ frm \notin DOMAIN WordUnrollers
  BY DEF ByteUnrollers, WordUnrollers, LabV2ToFloat
<1>2. frm \notin Reckoned
  BY DEF LabV2ToFloat, Reckoned
<1>3. QED
  BY <1>1, <1>2 DEF Unroll, Reckoned

\* and the ones that work out where they read.
LEMMA ReckonedUnroll ==
  ASSUME NEW f, NEW stride
  PROVE  /\ Unroll("UnrollChunkyBytes", f, stride) = UnrollChunkyBytes(f)
         /\ Unroll("UnrollPlanarBytes", f, stride) = UnrollPlanarBytes(f, stride)
         /\ Unroll("UnrollAnyWords", f, stride) = UnrollAnyWords(f)
         /\ Unroll("UnrollAnyWordsPremul", f, stride) = UnrollAnyWordsPremul(f)
         /\ Unroll("UnrollPlanarWords", f, stride) = UnrollPlanarWords(f, stride)
         /\ Unroll("UnrollPlanarWordsPremul", f, stride) = UnrollPlanarWordsPremul(f, stride)
         /\ Unroll("UnrollDoubleTo16", f, stride) = UnrollDoubleTo16(f, stride)
         /\ Unroll("UnrollFloatTo16", f, stride) = UnrollFloatTo16(f, stride)
         /\ Unroll("UnrollHalfTo16", f, stride) = UnrollHalfTo16(f, stride)
         /\ Unroll("UnrollHalfToFloat", f, stride) = UnrollHalfToFloat(f, stride)
         /\ Unroll("Unroll8ToFloat", f, stride) = Unroll8ToFloat(f, stride)
         /\ Unroll("Unroll16ToFloat", f, stride) = Unroll16ToFloat(f, stride)
         /\ Unroll("UnrollFloatsToFloat", f, stride) = UnrollFloatsToFloat(f, stride)
         /\ Unroll("UnrollDoublesToFloat", f, stride) = UnrollDoublesToFloat(f, stride)
         /\ Unroll("UnrollLabDoubleTo16", f, stride) = UnrollLabDoubleTo16(f, stride)
         /\ Unroll("UnrollLabFloatTo16", f, stride) = UnrollLabFloatTo16(f, stride)
         /\ Unroll("UnrollXYZDoubleTo16", f, stride) = UnrollXYZDoubleTo16(f, stride)
         /\ Unroll("UnrollXYZFloatTo16", f, stride) = UnrollXYZFloatTo16(f, stride)
         /\ Unroll("UnrollLabDoubleToFloat", f, stride) = UnrollLabDoubleToFloat(f, stride)
         /\ Unroll("UnrollLabFloatToFloat", f, stride) = UnrollLabFloatToFloat(f, stride)
         /\ Unroll("UnrollXYZDoubleToFloat", f, stride) = UnrollXYZDoubleToFloat(f, stride)
         /\ Unroll("UnrollXYZFloatToFloat", f, stride) = UnrollXYZFloatToFloat(f, stride)
         /\ Unroll("UnrollDouble1Chan", f, stride) = UnrollDouble1Chan
<1>1. \A frm \in Reckoned : frm \notin DOMAIN ByteUnrollers
  BY DEF ByteUnrollers, Reckoned
<1>2. \A frm \in Reckoned : frm \notin DOMAIN WordUnrollers
  BY DEF WordUnrollers, Reckoned
<1>3. \A frm \in Reckoned : frm \notin DOMAIN LabV2ToFloat
  BY DEF LabV2ToFloat, Reckoned
<1>4. QED
  BY <1>1, <1>2, <1>3 DEF Unroll, Reckoned

\* What a formatter does when the samples are given one after the other.
LEMMA LoopRight ==
  ASSUME NEW f, IsFormat(f), f.channels > 0, NEW u, u.adv = Advance(f),
         ~Is("planar", f) => u.needs \in 0 .. Advance(f),
         NEW at, NEW alpha, NEW how,
         u.lanes = [l \in 0 .. f.channels - 1 |-> [at |-> at[l], how |-> how, alpha |-> alpha]],
         \A l \in 0 .. f.channels - 1 : at[l] = SampleOf(f, 0, l),
         how = Flagged(f, As(f)), alpha = AlphaOf(f, 0)
  PROVE  ReadsRight(u, f)
  BY DEF ReadsRight, ReadsFirst, Proper

\* Bytes of any format.
LEMMA ChunkyBytes ==
  ASSUME NEW f, IsFormat(f), f.channels > 0, ~Is("planar", f), f.bytes = 1, As(f) = "sample"
  PROVE  /\ UnrollChunkyBytes(f).adv \in Nat /\ Stays(UnrollChunkyBytes(f), f)
         /\ ~LacksAlpha(f) => ReadsRight(UnrollChunkyBytes(f), f)
<1> DEFINE at == [l \in 0 .. f.channels - 1 |-> Start(f) + Colour(f, l)]
           u == UnrollChunkyBytes(f)
<1>1. PixelSize(f) = 1 /\ Samples(f) \in Nat /\ f.channels \in Nat /\ Start(f) \in Nat
  BY FormatType DEF PixelSize
<1>2. \A l \in 0 .. f.channels - 1 : Start(f) + Colour(f, l) \in Int
  BY PlaceOfLane DEF Colour
<1>3. u.adv = Samples(f) /\ u.needs = Samples(f)
  BY DEF UnrollChunkyBytes, Loop
<1>4. u.lanes = [l \in 0 .. f.channels - 1 |->
                   [at |-> at[l], how |-> Divided(f), alpha |-> Alpha(f, f.channels)]]
  BY DEF UnrollChunkyBytes, Loop
<1>5. Advance(f) = Samples(f) /\ AlphaOf(f, 0) = Alpha(f, f.channels)
  <2>1. 1 * Samples(f) = Samples(f) /\ 1 * f.channels = f.channels
    BY <1>1
  <2>2. QED
    BY <1>1, <2>1, ChunkyFirst
<1>6. \A l \in 0 .. f.channels - 1 : at[l] = SampleOf(f, 0, l)
  BY <1>1, <1>2, ChunkyFirst
<1> HIDE DEF u, at
<1>7. u.needs \in 0 .. Advance(f)
  BY <1>3, <1>5, AdvanceType
<1>8. u.adv \in Nat /\ Stays(u, f)
  BY <1>1, <1>3, <1>5, <1>7, AdvanceType DEF Stays
<1>9. ASSUME ~LacksAlpha(f)
      PROVE  ReadsRight(u, f)
  <2>1. Divided(f) = Flagged(f, As(f))
    BY <1>9 DEF Divided
  <2>2. QED
    BY <1>3, <1>4, <1>5, <1>6, <1>7, <2>1, LoopRight
<1>10. QED
  BY <1>8, <1>9 DEF u

\* Words of any format.
LEMMA AnyWords ==
  ASSUME NEW f, IsFormat(f), f.channels > 0, ~Is("planar", f), ~Premultiplied(f), f.bytes = 2, As(f) = "sample"
  PROVE  ReadsRight(UnrollAnyWords(f), f)
<1> DEFINE at == [l \in 0 .. f.channels - 1 |-> (Start(f) + Colour(f, l)) * 2]
           u == UnrollAnyWords(f)
<1>1. PixelSize(f) = 2 /\ Samples(f) \in Nat
  BY FormatType DEF PixelSize
<1>2. \A l \in 0 .. f.channels - 1 : Start(f) + Colour(f, l) \in Int
  BY PlaceOfLane DEF Colour
<1>3. u.adv = Samples(f) * 2 /\ u.needs = Samples(f) * 2
  BY DEF UnrollAnyWords, Loop
<1>4. u.lanes = [l \in 0 .. f.channels - 1 |-> [at |-> at[l], how |-> Flagged(f, "sample"), alpha |-> {}]]
  BY DEF UnrollAnyWords, Loop
<1>5. Advance(f) = Samples(f) * 2 /\ AlphaOf(f, 0) = {}
  <2>1. 2 * Samples(f) = Samples(f) * 2
    BY <1>1
  <2>2. QED
    BY <1>1, <2>1, ChunkyFirst DEF AlphaOf
<1>6. \A l \in 0 .. f.channels - 1 : at[l] = SampleOf(f, 0, l)
  BY <1>1, <1>2, ChunkyFirst
<1> HIDE DEF u, at
<1>7. u.lanes = [l \in 0 .. f.channels - 1 |->
                   [at |-> at[l], how |-> Flagged(f, "sample"), alpha |-> AlphaOf(f, 0)]]
  BY <1>4, <1>5
<1>8. u.needs \in 0 .. Advance(f)
  BY <1>3, <1>5, AdvanceType
<1>9. QED
  BY <1>3, <1>5, <1>6, <1>7, <1>8, LoopRight DEF u

\* Words multiplied with the one extra sample in front of them.
LEMMA AnyWordsPremul ==
  ASSUME NEW f, IsFormat(f), f.channels > 0, ~Is("planar", f), Premultiplied(f), f.bytes = 2, As(f) = "sample",
         ExtraFirst(f), f.extra = 1
  PROVE  ReadsRight(UnrollAnyWordsPremul(f), f)
<1> DEFINE at == [l \in 0 .. f.channels - 1 |-> (1 + Index(f, l)) * 2]
           u == UnrollAnyWordsPremul(f)
<1>1. PixelSize(f) = 2 /\ Samples(f) = f.channels + 1 /\ f.channels \in Nat /\ Start(f) = 1
  BY FormatType DEF PixelSize, Start
<1>2. \A l \in 0 .. f.channels - 1 : Start(f) + Colour(f, l) \in Int /\ Colour(f, l) = Index(f, l)
  BY PlaceOfLane DEF Colour, Turned, SwappedFirst
<1>3. u.adv = (1 + f.channels) * 2 /\ u.needs = (1 + f.channels) * 2
  BY DEF UnrollAnyWordsPremul, Loop
<1>4. u.lanes = [l \in 0 .. f.channels - 1 |-> [at |-> at[l], how |-> Flagged(f, "sample"), alpha |-> {0}]]
  BY DEF UnrollAnyWordsPremul, Loop
<1>5. Advance(f) = (1 + f.channels) * 2 /\ AlphaOf(f, 0) = {0}
  <2>1. 2 * (f.channels + 1) = (1 + f.channels) * 2
    BY <1>1
  <2>2. QED
    BY <1>1, <2>1, ChunkyFirst DEF Alpha
<1>6. \A l \in 0 .. f.channels - 1 : at[l] = SampleOf(f, 0, l)
  BY <1>1, <1>2, ChunkyFirst
<1> HIDE DEF u, at
<1>7. u.lanes = [l \in 0 .. f.channels - 1 |->
                   [at |-> at[l], how |-> Flagged(f, "sample"), alpha |-> AlphaOf(f, 0)]]
  BY <1>4, <1>5
<1>8. u.needs \in 0 .. Advance(f)
  BY <1>3, <1>5, AdvanceType
<1>9. QED
  BY <1>3, <1>5, <1>6, <1>7, <1>8, LoopRight DEF u

\* Planes of bytes.
LEMMA PlanarBytes ==
  ASSUME NEW f, IsFormat(f), f.channels > 0, Is("planar", f), ~SwappedFirst(f), f.bytes = 1, As(f) = "sample",
         ~LacksAlpha(f)
  PROVE  ReadsRight(UnrollPlanarBytes(f, BytesPerPlane(f)), f)
<1> DEFINE b == BytesPerPlane(f)
           at == [l \in 0 .. f.channels - 1 |-> (Start(f) + Index(f, l)) * b]
           u == UnrollPlanarBytes(f, b)
<1>1. PixelSize(f) = 1
  BY DEF PixelSize
<1>2. \A l \in 0 .. f.channels - 1 : Colour(f, l) = Index(f, l)
  BY DEF Colour, Turned
<1> HIDE DEF b
<1>3. u.adv = 1
  BY DEF UnrollPlanarBytes, Loop
<1>4. u.lanes = [l \in 0 .. f.channels - 1 |->
                   [at |-> at[l], how |-> Flagged(f, "sample"), alpha |-> Alpha(f, f.channels * b)]]
  BY DEF UnrollPlanarBytes, Loop, Divided
<1>5. Advance(f) = 1 /\ AlphaOf(f, 0) = Alpha(f, f.channels * b)
  BY <1>1, PlanarFirst DEF b
<1>6. \A l \in 0 .. f.channels - 1 : at[l] = SampleOf(f, 0, l)
  BY <1>2, PlanarFirst DEF b
<1> HIDE DEF u, at
<1>7. QED
  BY <1>3, <1>4, <1>5, <1>6, LoopRight DEF u, b

\* The slice moves on too far, so that only the first pixel is read right.
LEMMA PlanarWords ==
  ASSUME NEW f, IsFormat(f), f.channels > 0, Is("planar", f), ~Is("first", f), ~Premultiplied(f),
         f.bytes = 2, As(f) = "sample"
  PROVE  /\ ReadsFirst(UnrollPlanarWords(f, BytesPerPlane(f)), f)
         /\ UnrollPlanarWords(f, BytesPerPlane(f)).adv \in Nat
<1> DEFINE b == BytesPerPlane(f)
           skip == IF Is("swap", f) THEN f.extra ELSE 0
           at == [l \in 0 .. f.channels - 1 |-> (skip + Index(f, l)) * b]
           u == UnrollPlanarWords(f, b)
<1>1. b \in Nat /\ f.channels \in Nat /\ f.extra \in Nat
  BY FormatType DEF BytesPerPlane
<1>2. \A l \in 0 .. f.channels - 1 : Colour(f, l) = Index(f, l)
  BY DEF Colour, Turned, SwappedFirst
<1>3. Start(f) = skip
  BY DEF Start, ExtraFirst, Is
<1> HIDE DEF b
<1>4. u.adv \in Nat
  <2>1. u.adv = (skip + f.channels) * b
    BY DEF UnrollPlanarWords, Loop
  <2>2. QED
    BY <1>1, <2>1
<1>5. u.lanes = [l \in 0 .. f.channels - 1 |-> [at |-> at[l], how |-> Flagged(f, "sample"), alpha |-> {}]]
  BY DEF UnrollPlanarWords, Loop
<1>6. \A l \in 0 .. f.channels - 1 : at[l] = SampleOf(f, 0, l)
  BY <1>2, <1>3, PlanarFirst DEF b
<1> HIDE DEF u, at
<1>7. ReadsFirst(u, f)
  BY <1>5, <1>6 DEF ReadsFirst, Proper, AlphaOf
<1>8. QED
  BY <1>4, <1>7 DEF u, b

\* Where a loop over elements reads.
LEMMA ElementIs ==
  ASSUME NEW f, IsFormat(f), NEW i, Start(f) + i \in Int
  PROVE  Element(f, i, BytesPerPlane(f)) = IF Is("planar", f) THEN (Start(f) + i) * Pixels ELSE Start(f) + i
<1>1. PixelSize(f) \in Nat \ {0} /\ Pixels \in Nat
  BY FormatType
<1>2. (Pixels * PixelSize(f)) \div PixelSize(f) = Pixels
  BY <1>1
<1>3. QED
  BY <1>2 DEF Element, BytesPerPlane

\* The loops over elements of the size of the pixel.
LEMMA ElementsRight ==
  ASSUME NEW f, IsFormat(f), f.channels > 0, As(f) = "sample",
         NEW u, u.adv = IF Is("planar", f) THEN PixelSize(f) ELSE Samples(f) * PixelSize(f),
         NEW width \in Int, width <= PixelSize(f),
         u.needs = Bigger(u.adv, Element(f, f.channels - 1, BytesPerPlane(f)) * PixelSize(f) + width),
         u.lanes = [l \in 0 .. f.channels - 1 |->
                      [at |-> Element(f, Colour(f, l), BytesPerPlane(f)) * PixelSize(f),
                       how |-> Flagged(f, "sample"), alpha |-> AlphaOf(f, 0)]]
  PROVE  ReadsRight(u, f)
<1> DEFINE at == [l \in 0 .. f.channels - 1 |-> Element(f, Colour(f, l), BytesPerPlane(f)) * PixelSize(f)]
<1>1. PixelSize(f) \in Nat /\ Samples(f) \in Nat /\ Pixels \in Nat
  BY FormatType
<1>2. u.adv = Advance(f)
  <2>1. Samples(f) * PixelSize(f) = PixelSize(f) * Samples(f)
    BY <1>1
  <2>2. QED
    BY <2>1 DEF Advance
<1>3. ASSUME ~Is("planar", f)
      PROVE  u.needs \in 0 .. Advance(f)
  <2> DEFINE s == PixelSize(f)
             n == Samples(f)
             p == Start(f) + (f.channels - 1)
  <2>1. p \in Int /\ p + 1 <= n /\ Advance(f) = s * n
    BY <1>3, FormatType DEF Start, Advance
  <2>2. Element(f, f.channels - 1, BytesPerPlane(f)) = p
    BY <1>3, <2>1, ElementIs
  <2> HIDE DEF s, n, p
  <2>3. p * s + width <= s * n
    <3>1. s * (p + 1) <= s * n /\ s * (p + 1) = p * s + s
      BY <1>1, <2>1 DEF s, n
    <3>2. QED
      BY <1>1, <2>1, <3>1 DEF s, n
  <2>4. u.needs = Bigger(u.adv, p * s + width)
    BY <2>2 DEF s
  <2>5. s * n \in Nat /\ p * s + width \in Int
    BY <1>1, <2>1 DEF s, n
  <2>6. QED
    BY <1>2, <2>1, <2>3, <2>4, <2>5 DEF Bigger
<1>4. ASSUME NEW l \in 0 .. f.channels - 1
      PROVE  at[l] = SampleOf(f, 0, l)
  <2> DEFINE p == Start(f) + Colour(f, l)
             s == PixelSize(f)
  <2>1. p \in Int
    BY PlaceOfLane DEF Colour
  <2>2. Element(f, Colour(f, l), BytesPerPlane(f)) = IF Is("planar", f) THEN p * Pixels ELSE p
    BY <2>1, ElementIs
  <2> HIDE DEF p, s
  <2>3. CASE Is("planar", f)
    <3>1. SampleOf(f, 0, l) = p * (Pixels * s)
      BY <2>3, PlanarFirst DEF BytesPerPlane, p, s
    <3>2. (p * Pixels) * s = p * (Pixels * s)
      BY <1>1, <2>1 DEF s
    <3>3. QED
      BY <2>2, <2>3, <3>1, <3>2 DEF s
  <2>4. CASE ~Is("planar", f)
    <3>1. SampleOf(f, 0, l) = s * p
      BY <2>4, ChunkyFirst DEF p, s
    <3>2. p * s = s * p
      BY <1>1, <2>1 DEF s
    <3>3. QED
      BY <2>2, <2>4, <3>1, <3>2 DEF s
  <2>5. QED
    BY <2>3, <2>4
<1> HIDE DEF at
<1>5. u.lanes = [l \in 0 .. f.channels - 1 |->
                   [at |-> at[l], how |-> Flagged(f, "sample"), alpha |-> AlphaOf(f, 0)]]
  BY DEF at
<1>6. QED
  BY <1>2, <1>3, <1>4, <1>5, LoopRight

\* Half floats.
LEMMA HalfsRight ==
  ASSUME NEW f, IsFormat(f), f.channels > 0, f.bytes = 2, ~Premultiplied(f), As(f) = "sample"
  PROVE  /\ ReadsRight(UnrollHalfTo16(f, BytesPerPlane(f)), f)
         /\ ReadsRight(UnrollHalfToFloat(f, BytesPerPlane(f)), f)
<1> DEFINE b == BytesPerPlane(f)
<1>1. PixelSize(f) = 2 /\ AlphaOf(f, 0) = {}
  BY DEF PixelSize, AlphaOf
<1>2. ASSUME NEW u, u \in {UnrollHalfTo16(f, b), UnrollHalfToFloat(f, b)}
      PROVE  ReadsRight(u, f)
  <2>1. u.adv = IF Is("planar", f) THEN 2 ELSE Samples(f) * PixelSize(f)
    BY <1>2 DEF UnrollHalfTo16, UnrollHalfToFloat, FloatLoop, Loop
  <2>2. u.lanes = [l \in 0 .. f.channels - 1 |->
                     [at |-> Element(f, Colour(f, l), b) * 2, how |-> Flagged(f, "sample"), alpha |-> {}]]
    <3> DEFINE lanes == [l \in 0 .. f.channels - 1 |->
                          [at |-> Element(f, Colour(f, l), b) * 2, how |-> Flagged(f, "sample"), alpha |-> {}]]
    <3>1. UnrollHalfTo16(f, b).lanes = lanes
      BY DEF UnrollHalfTo16, FloatLoop, Loop
    <3>2. UnrollHalfToFloat(f, b).lanes = lanes
      BY DEF UnrollHalfToFloat, FloatLoop, Loop
    <3> HIDE DEF lanes
    <3>3. u.lanes = lanes
      BY <1>2, <3>1, <3>2
    <3>4. QED
      BY <3>3 DEF lanes
  <2>3. u.needs = Bigger(u.adv, Element(f, f.channels - 1, b) * PixelSize(f) + 2)
    BY <1>1, <1>2 DEF UnrollHalfTo16, UnrollHalfToFloat, FloatLoop, Loop
  <2>4. 2 <= PixelSize(f)
    BY <1>1
  <2>5. u.lanes = [l \in 0 .. f.channels - 1 |->
                     [at |-> Element(f, Colour(f, l), b) * PixelSize(f),
                      how |-> Flagged(f, "sample"), alpha |-> AlphaOf(f, 0)]]
    BY <1>1, <2>2
  <2>6. u.adv = IF Is("planar", f) THEN PixelSize(f) ELSE Samples(f) * PixelSize(f)
    BY <1>1, <2>1
  <2>7. QED
    BY <2>3, <2>4, <2>5, <2>6, ElementsRight
<1>3. QED
  BY <1>2

\* Bytes as floats.
LEMMA BytesToFloat ==
  ASSUME NEW f, IsFormat(f), f.channels > 0, f.bytes = 1, ~Premultiplied(f), As(f) = "sample"
  PROVE  ReadsRight(Unroll8ToFloat(f, BytesPerPlane(f)), f)
<1> DEFINE b == BytesPerPlane(f)
           u == Unroll8ToFloat(f, b)
<1>1. PixelSize(f) = 1 /\ AlphaOf(f, 0) = {}
  BY DEF PixelSize, AlphaOf
<1>2. u.adv = IF Is("planar", f) THEN 1 ELSE Samples(f) * PixelSize(f)
  BY DEF Unroll8ToFloat, FloatLoop, Loop
<1>3. u.lanes = [l \in 0 .. f.channels - 1 |->
                   [at |-> Element(f, Colour(f, l), b), how |-> Flagged(f, "sample"), alpha |-> {}]]
  BY DEF Unroll8ToFloat, FloatLoop, Loop
<1>4. \A l \in 0 .. f.channels - 1 : Element(f, Colour(f, l), b) = Element(f, Colour(f, l), b) * 1
  <2>1. \A l \in 0 .. f.channels - 1 : Start(f) + Colour(f, l) \in Int
    BY PlaceOfLane DEF Colour
  <2>2. \A l \in 0 .. f.channels - 1 : Element(f, Colour(f, l), b) \in Int
    BY <2>1, ElementIs, FormatType
  <2>3. QED
    BY <2>2
<1> HIDE DEF u
<1>5. u.lanes = [l \in 0 .. f.channels - 1 |->
                   [at |-> Element(f, Colour(f, l), b) * PixelSize(f),
                    how |-> Flagged(f, "sample"), alpha |-> AlphaOf(f, 0)]]
  BY <1>1, <1>3, <1>4
<1>6. u.needs = Bigger(u.adv, Element(f, f.channels - 1, b) * PixelSize(f) + 1)
  <2>1. u.needs = Bigger(u.adv, Element(f, f.channels - 1, b) + 1)
    BY DEF u, Unroll8ToFloat, FloatLoop, Loop
  <2>2. Start(f) + (f.channels - 1) \in Int
    BY FormatType
  <2>3. Element(f, f.channels - 1, b) \in Int
    BY <2>2, ElementIs, FormatType
  <2>4. Element(f, f.channels - 1, b) * 1 = Element(f, f.channels - 1, b)
    BY <2>3
  <2>5. QED
    BY <1>1, <2>1, <2>4
<1>7. 1 <= PixelSize(f)
  BY <1>1
<1>8. QED
  BY <1>1, <1>2, <1>5, <1>6, <1>7, ElementsRight DEF u

\* Words as floats.
LEMMA WordsToFloat ==
  ASSUME NEW f, IsFormat(f), f.channels > 0, f.bytes = 2, ~Premultiplied(f), As(f) = "sample"
  PROVE  /\ Unroll16ToFloat(f, BytesPerPlane(f)).adv \in Nat
         /\ ~Is("planar", f) => ReadsRight(Unroll16ToFloat(f, BytesPerPlane(f)), f)
<1> DEFINE b == BytesPerPlane(f)
           u == Unroll16ToFloat(f, b)
<1>1. PixelSize(f) = 2 /\ AlphaOf(f, 0) = {}
  BY DEF PixelSize, AlphaOf
<1>2. u.adv = IF Is("planar", f) THEN 2 ELSE Samples(f) * PixelSize(f)
  BY DEF Unroll16ToFloat, FloatLoop, Loop
<1>3. u.adv \in Nat
  <2>1. Samples(f) * PixelSize(f) \in Nat
    BY FormatType
  <2>2. QED
    BY <1>2, <2>1
<1>4. ASSUME ~Is("planar", f)
      PROVE  ReadsRight(u, f)
  <2>1. u.lanes = [l \in 0 .. f.channels - 1 |->
                     [at |-> Element(f, Colour(f, l), b) * 2, how |-> Flagged(f, "sample"), alpha |-> {}]]
    BY <1>4 DEF Unroll16ToFloat, FloatLoop, Loop
  <2>2. u.needs = Bigger(u.adv, Element(f, f.channels - 1, b) * PixelSize(f) + 2)
    BY <1>1, <1>4 DEF Unroll16ToFloat, FloatLoop, Loop
  <2>3. 2 <= PixelSize(f)
    BY <1>1
  <2> HIDE DEF u
  <2>4. u.lanes = [l \in 0 .. f.channels - 1 |->
                     [at |-> Element(f, Colour(f, l), b) * PixelSize(f),
                      how |-> Flagged(f, "sample"), alpha |-> AlphaOf(f, 0)]]
    BY <1>1, <2>1
  <2>5. u.adv = IF Is("planar", f) THEN PixelSize(f) ELSE Samples(f) * PixelSize(f)
    BY <1>1, <1>2
  <2>6. QED
    BY <2>2, <2>3, <2>4, <2>5, ElementsRight
<1>5. QED
  BY <1>3, <1>4

\* Doubles as floats.
LEMMA DoublesToFloat ==
  ASSUME NEW f, IsFormat(f), f.channels > 0, f.bytes = 0, As(f) = "sample"
  PROVE  ReadsRight(UnrollDoublesToFloat(f, BytesPerPlane(f)), f)
<1> DEFINE b == BytesPerPlane(f)
           behind == f.channels * (IF Is("planar", f) THEN b ELSE 8)
           u == UnrollDoublesToFloat(f, b)
<1>1. PixelSize(f) = 8
  BY DEF PixelSize
<1>2. AlphaOf(f, 0) = Alpha(f, behind)
  <2>1. 8 * f.channels = f.channels * 8
    BY FormatType
  <2>2. QED
    BY <1>1, <2>1, ChunkyFirst, PlanarFirst
<1>3. u.adv = IF Is("planar", f) THEN 8 ELSE Samples(f) * PixelSize(f)
  BY DEF UnrollDoublesToFloat, FloatLoop, Loop
<1>4. u.lanes = [l \in 0 .. f.channels - 1 |->
                   [at |-> Element(f, Colour(f, l), b) * 8, how |-> Flagged(f, "sample"), alpha |-> Alpha(f, behind)]]
  BY DEF UnrollDoublesToFloat, FloatLoop, Loop
<1>5. u.needs = Bigger(u.adv, Element(f, f.channels - 1, b) * PixelSize(f) + 0)
  BY <1>1 DEF UnrollDoublesToFloat, FloatLoop, Loop
<1>6. 0 <= PixelSize(f)
  BY <1>1
<1> HIDE DEF u, behind
<1>7. QED
  BY <1>1, <1>2, <1>3, <1>4, <1>5, <1>6, ElementsRight DEF u

\* The unrollers that take a sample for something else still move on.
LEMMA MisreadersMove ==
  ASSUME NEW f, IsFormat(f)
  PROVE  /\ UnrollDoubleTo16(f, BytesPerPlane(f)).adv \in Nat
         /\ UnrollFloatTo16(f, BytesPerPlane(f)).adv \in Nat
         /\ UnrollFloatsToFloat(f, BytesPerPlane(f)).adv \in Nat
         /\ UnrollAnyWordsPremul(f).adv \in Nat
         /\ UnrollPlanarWordsPremul(f, BytesPerPlane(f)).adv \in Nat
         /\ UnrollPlanarBytes(f, BytesPerPlane(f)).adv \in Nat
         /\ UnrollLabDoubleTo16(f, BytesPerPlane(f)).adv \in Nat
         /\ UnrollLabFloatTo16(f, BytesPerPlane(f)).adv \in Nat
<1> DEFINE b == BytesPerPlane(f)
           row == Samples(f) * PixelSize(f)
           skip == IF ExtraFirst(f) THEN 1 ELSE 0
<1>1. b \in Nat /\ row \in Nat /\ f.channels \in Nat /\ f.extra \in Nat
  BY FormatType DEF BytesPerPlane
<1>2. UnrollDoubleTo16(f, b).adv = IF Is("planar", f) THEN 16 ELSE row
  BY DEF UnrollDoubleTo16, FloatLoop, Loop
<1>3. UnrollFloatTo16(f, b).adv = IF Is("planar", f) THEN 16 ELSE row
  BY DEF UnrollFloatTo16, FloatLoop, Loop
<1>4. UnrollFloatsToFloat(f, b).adv = IF Is("planar", f) THEN 4 ELSE row
  BY DEF UnrollFloatsToFloat, FloatLoop, Loop
<1>5. UnrollAnyWordsPremul(f).adv = (skip + f.channels) * 2
  BY DEF UnrollAnyWordsPremul, Loop
<1>6. UnrollPlanarWordsPremul(f, b).adv = (skip + f.channels) * b
  BY DEF UnrollPlanarWordsPremul, Loop
<1>7. UnrollPlanarBytes(f, b).adv = 1
  BY DEF UnrollPlanarBytes, Loop
<1>8. UnrollLabFloatTo16(f, b).adv = IF Is("planar", f) THEN 4 ELSE (3 + f.extra) * 4
  BY DEF UnrollLabFloatTo16, Triple
<1>9. UnrollLabDoubleTo16(f, b).adv = IF Is("planar", f) THEN 8 ELSE (3 + f.extra) * 8
  BY DEF UnrollLabDoubleTo16, Triple
<1>10. (skip + f.channels) * b \in Nat /\ (3 + f.extra) * 8 \in Nat
  BY <1>1
<1> HIDE DEF b, row
<1>11. QED
  BY <1>1, <1>2, <1>3, <1>4, <1>5, <1>6, <1>7, <1>8, <1>9, <1>10 DEF b

\* And of a pixel that is not in planes they do not go beyond it.
LEMMA MisreadersStay ==
  ASSUME NEW f, IsFormat(f), ~Is("planar", f)
  PROVE  /\ Stays(UnrollDoubleTo16(f, BytesPerPlane(f)), f)
         /\ Stays(UnrollFloatTo16(f, BytesPerPlane(f)), f)
         /\ f.bytes = 4 => Stays(UnrollFloatsToFloat(f, BytesPerPlane(f)), f)
         /\ f.bytes = 2 /\ (ExtraFirst(f) => f.extra > 0) => Stays(UnrollAnyWordsPremul(f), f)
         /\ f.bytes = 4 /\ f.channels = 3 => Stays(UnrollLabFloatTo16(f, BytesPerPlane(f)), f)
<1> DEFINE b == BytesPerPlane(f)
           s == PixelSize(f)
           n == Samples(f)
           row == n * s
           p == Start(f) + (f.channels - 1)
<1>1. /\ s \in Nat \ {0} /\ n \in Nat /\ n = f.channels + f.extra /\ f.channels \in Nat /\ f.extra \in Nat
      /\ p \in Int /\ p + 1 <= n
  BY FormatType DEF Start
<1>2. Element(f, f.channels - 1, b) = p
  BY <1>1, ElementIs
<1>3. Advance(f) = row /\ row \in Nat
  BY <1>1 DEF Advance
<1>4. UnrollDoubleTo16(f, b).adv = row /\ UnrollDoubleTo16(f, b).needs = Bigger(row, p + 1)
  BY <1>2 DEF UnrollDoubleTo16, FloatLoop, Loop
<1>5. UnrollFloatTo16(f, b).adv = row /\ UnrollFloatTo16(f, b).needs = Bigger(row, p + 1)
  BY <1>2 DEF UnrollFloatTo16, FloatLoop, Loop
<1>6. UnrollFloatsToFloat(f, b).adv = row /\ UnrollFloatsToFloat(f, b).needs = Bigger(row, p * 4 + 4)
  BY <1>2 DEF UnrollFloatsToFloat, FloatLoop, Loop
<1>7. UnrollLabFloatTo16(f, b).adv = (3 + f.extra) * 4 /\ UnrollLabFloatTo16(f, b).needs = Bigger((3 + f.extra) * 4, 2 * 4 + 4)
  BY DEF UnrollLabFloatTo16, Triple
<1>8. /\ UnrollAnyWordsPremul(f).adv = ((IF ExtraFirst(f) THEN 1 ELSE 0) + f.channels) * 2
      /\ UnrollAnyWordsPremul(f).needs = ((IF ExtraFirst(f) THEN 1 ELSE 0) + f.channels) * 2
  BY DEF UnrollAnyWordsPremul, Loop
<1>9. p + 1 <= row
  <2>1. n <= n * s
    BY <1>1
  <2>2. QED
    BY <1>1, <1>3, <2>1
<1>10. f.bytes = 4 => s = 4
  BY DEF PixelSize
<1>11. f.bytes = 2 => s = 2
  BY DEF PixelSize
<1> HIDE DEF b, s, n, p, row
<1>12. /\ Stays(UnrollDoubleTo16(f, b), f) /\ Stays(UnrollFloatTo16(f, b), f)
  BY <1>1, <1>3, <1>4, <1>5, <1>9 DEF Stays, Bigger
<1>13. ASSUME f.bytes = 4
       PROVE  Stays(UnrollFloatsToFloat(f, b), f)
  <2>1. p * 4 + 4 <= row
    BY <1>1, <1>10, <1>13 DEF row
  <2>2. QED
    BY <1>1, <1>3, <1>6, <2>1 DEF Stays, Bigger
<1>14. ASSUME f.bytes = 4, f.channels = 3
       PROVE  Stays(UnrollLabFloatTo16(f, b), f)
  <2>1. row = (3 + f.extra) * 4 /\ 12 <= row
    BY <1>1, <1>10, <1>14 DEF row
  <2>2. QED
    BY <1>3, <1>7, <2>1 DEF Stays, Bigger
<1>15. ASSUME f.bytes = 2, ExtraFirst(f) => f.extra > 0
       PROVE  Stays(UnrollAnyWordsPremul(f), f)
  <2>1. ((IF ExtraFirst(f) THEN 1 ELSE 0) + f.channels) * 2 <= row
    BY <1>1, <1>11, <1>15 DEF row
  <2>2. QED
    BY <1>1, <1>3, <1>8, <2>1 DEF Stays
<1>16. QED
  BY <1>12, <1>13, <1>14, <1>15 DEF b

\* Lab and XYZ.
LEMMA TripleRight ==
  ASSUME NEW f, IsFormat(f), f.channels = 3, f.flags \ {"planar", "extra"} = {"float"}, As(f) = "sample",
         NEW size, size = PixelSize(f), NEW step, step = BytesPerPlane(f)
  PROVE  ReadsRight(Triple(f, size, step, Plain), f)
<1> DEFINE apart == IF Is("planar", f) THEN step ELSE size
           at == [l \in 0 .. 2 |-> l * apart]
           u == Triple(f, size, step, Plain)
<1>1. size \in Nat /\ step = Pixels * size /\ Pixels \in Nat /\ f.extra \in Nat
  BY FormatType DEF BytesPerPlane
<1>2. ~Is("swap", f) /\ ~Is("first", f) /\ ~Premultiplied(f)
  BY DEF Is, Premultiplied
<1>3. \A l \in 0 .. 2 : PlaceOf(f, l) = l
  BY <1>2, PlaceOfLane, TurnedIs DEF Start, Index, ExtraFirst, Is, SwappedFirst
<1>4. ASSUME NEW l \in 0 .. 2
      PROVE  at[l] = SampleOf(f, 0, l)
  <2>1. SampleOf(f, 0, l) = size * (IF Is("planar", f) THEN l * Pixels + 0 ELSE 0 * Samples(f) + l)
    BY <1>3 DEF SampleOf
  <2>2. size * (l * Pixels + 0) = l * step /\ size * (0 * Samples(f) + l) = l * size
    BY <1>1, FormatType
  <2>3. at[l] = l * apart
    OBVIOUS
  <2> HIDE DEF at
  <2>4. QED
    BY <2>1, <2>2, <2>3
<1>5. Plain = Flagged(f, As(f))
  <2>1. f.flags \cap {"flavor", "endian"} = {}
    OBVIOUS
  <2>2. QED
    BY <2>1 DEF Plain, Flagged
<1>6. AlphaOf(f, 0) = {}
  BY <1>2 DEF AlphaOf
<1>7. u.adv = Advance(f)
  <2>1. u.adv = IF Is("planar", f) THEN size ELSE (3 + f.extra) * size
    BY DEF Triple
  <2>2. (3 + f.extra) * size = size * (3 + f.extra)
    BY <1>1
  <2>3. QED
    BY <2>1, <2>2 DEF Advance, Samples
<1>8. u.lanes = [l \in 0 .. 2 |-> [at |-> at[l], how |-> Plain, alpha |-> {}]]
  BY DEF Triple
<1> HIDE DEF u, at
<1>9. ASSUME NEW l \in 0 .. f.channels - 1
      PROVE  l \in DOMAIN u.lanes /\ u.lanes[l] = Proper(f, 0, l)
  <2>1. l \in 0 .. 2
    OBVIOUS
  <2>2. l \in DOMAIN u.lanes /\ u.lanes[l] = [at |-> at[l], how |-> Plain, alpha |-> {}]
    BY <1>8, <2>1
  <2>3. QED
    BY <1>4, <1>5, <1>6, <2>1, <2>2 DEF Proper
<1>10. ASSUME ~Is("planar", f)
       PROVE  u.needs \in 0 .. Advance(f)
  <2>1. Advance(f) = size * (3 + f.extra)
    BY <1>10 DEF Advance, Samples
  <2>2. u.needs = Bigger((3 + f.extra) * size, 2 * size + size)
    BY <1>10 DEF u, Triple
  <2>3. (3 + f.extra) * size = 3 * size + f.extra * size /\ f.extra * size \in Nat
    BY <1>1
  <2>4. QED
    BY <1>1, <2>1, <2>2, <2>3 DEF Bigger
<1>11. ReadsRight(u, f)
  BY <1>7, <1>9, <1>10 DEF ReadsRight, ReadsFirst
<1>12. QED
  BY <1>11 DEF u

----------------------------------------------------------------------------
(* The rows of the tables of unrollers.                                    *)

\* A row that fixes the layout of its pixels has a formatter for it.
LEMMA FixedRow ==
  ASSUME NEW f, IsFormat(f),
         NEW space, NEW c, NEW e, NEW b, NEW F, NEW open, NEW frm, NEW row,
         row = Row(Fmt(space, c, e, b, F), open, frm), Fits(f, row),
         open = {} \/ open = {"space"},
         "space" \notin F, "planar" \notin F, "premul" \notin F, "optimized" \notin F,
         NEW places, Ordered(places, c, e, F),
         NEW size, size = IF b = 0 THEN 8 ELSE b, NEW total, total = c + e,
         NEW as, as = IF f \in LabV2Formats THEN "labV2" ELSE "sample",
         NEW turns, turns = F \cap {"flavor", "endian"},
         Unroll(frm, f, BytesPerPlane(f)) = Reads(size, places, total, Taking(as, turns))
  PROVE  Serves(row.frm, f)
<1>1. f.bytes = b /\ f.channels = c /\ f.extra = e /\ f.flags \ open = F
  <2>1. "channels" \notin open /\ "extra" \notin open
    OBVIOUS
  <2>2. QED
    BY <2>1, RowFits
<1>2. f.flags \ {"space"} = F
  BY <1>1
<1>3. "optimized" \notin f.flags
  BY <1>2
<1>4. as = As(f)
  BY <1>3, Sampled
<1>5. ReadsRight(Reads(size, places, total, Taking(as, F \cap {"flavor", "endian"})), f)
  BY <1>1, <1>2, <1>4, FixedRead DEF PixelSize
<1>6. row.frm = frm
  BY DEF Row
<1>7. QED
  BY <1>5, <1>6, RightServes

\* What a row settles that leaves colours open.
LEMMA OpenRow ==
  ASSUME NEW f, IsFormat(f), NEW space, NEW c, NEW e, NEW b, NEW F, NEW open, NEW frm, NEW row,
         row = Row(Fmt(space, c, e, b, F), open, frm), Fits(f, row)
  PROVE  /\ f.bytes = b /\ row.frm = frm
         /\ "channels" \notin open => f.channels = c
         /\ \A flag : flag \notin open => (flag \in f.flags <=> flag \in F)
<1>1. f.bytes = b /\ f.flags \ open = F /\ ("channels" \notin open => f.channels = c)
  BY RowFits
<1>2. QED
  BY <1>1 DEF Row

\* Lab version 2 has rows of its own.
LEMMA LabFields ==
  ASSUME NEW f, f \in LabV2Formats
  PROVE  f.channels = 3 /\ "float" \notin f.flags
  BY DEF LabV2Formats, Fmt

\* One of the rows for Lab version 2 fits each of its formats.
LEMMA LabRows ==
  ASSUME NEW f, f \in LabV2Formats, NEW plain, NEW first, NEW wide
  PROVE  \/ Fits(f, Row(Fmt("LabV2", 3, 0, 1, {}), {}, plain))
         \/ Fits(f, Row(Fmt("LabV2", 3, 1, 1, {"first"}), {}, first))
         \/ Fits(f, Row(Fmt("LabV2", 3, 0, 2, {}), {}, wide))
  BY RowFits DEF LabV2Formats, Fmt

\* Other formats are read as they are.
LEMMA AsSample ==
  ASSUME NEW f, IsFormat(f), "optimized" \notin f.flags, f \notin LabV2Formats
  PROVE  As(f) = "sample"
  BY Sampled

\* Nothing is asked of an unroller that misreads each pixel.
LEMMA MisreadServes ==
  ASSUME NEW f, NEW frm, Unroll(frm, f, BytesPerPlane(f)).adv \in Nat, \A k : Misreads(frm, f, k),
         ~Is("planar", f) /\ ~Overreads(frm, f) => Stays(Unroll(frm, f, BytesPerPlane(f)), f)
  PROVE  Serves(frm, f)
  BY DEF Serves

\* Lab and XYZ as floats or doubles, interleaved or in planes.
LEMMA TripleServes ==
  ASSUME NEW f, IsFormat(f), NEW space, NEW b, NEW frm, NEW row,
         row = Row(Fmt(space, 3, 0, b, {"float"}), AnyTriple, frm), Fits(f, row),
         NEW size \in {4, 8}, size = IF b = 0 THEN 8 ELSE b,
         NEW step, step = BytesPerPlane(f) \/ step = (BytesPerPlane(f) \div size) * size,
         Unroll(frm, f, BytesPerPlane(f)) = Triple(f, size, step, Plain)
  PROVE  Serves(row.frm, f)
<1>1. f.bytes = b /\ f.channels = 3 /\ f.flags \ AnyTriple = {"float"} /\ row.frm = frm
  <2>1. "channels" \notin AnyTriple
    BY DEF AnyTriple
  <2>2. f.bytes = b /\ f.channels = 3 /\ f.flags \ AnyTriple = {"float"}
    BY <2>1, RowFits
  <2>3. QED
    BY <2>2 DEF Row
<1>2. f.flags \ {"planar", "extra"} = {"float"}
  BY <1>1 DEF AnyTriple
<1>3. size = PixelSize(f)
  BY <1>1 DEF PixelSize
<1>4. step = BytesPerPlane(f)
  <2> DEFINE p == Pixels
  <2>1. BytesPerPlane(f) = p * size /\ p \in Nat
    BY <1>3, FormatType DEF BytesPerPlane
  <2> HIDE DEF p
  <2>2. (p * size) \div size = p
    BY <2>1
  <2>3. QED
    BY <2>1, <2>2
<1>5. As(f) = "sample"
  <2>1. "optimized" \notin f.flags /\ "float" \in f.flags
    BY <1>2
  <2>2. f \notin LabV2Formats
    BY <2>1, LabFields
  <2>3. QED
    BY <2>1, <2>2, AsSample
<1>6. ReadsRight(Triple(f, size, step, Plain), f)
  BY <1>1, <1>2, <1>3, <1>4, <1>5, TripleRight
<1>7. QED
  BY <1>1, <1>6, RightServes

\* The rows of words with a fixed layout,
LEMMA Input16Fixed ==
  ASSUME NEW f, IsFormat(f), NEW r \in 1 .. 45, Fits(f, InputFormatters16[r]),
         r > 16 => f \notin LabV2Formats,
         r \in {5} \cup 9 .. 26 \cup 29 .. 41
  PROVE  Serves(InputFormatters16[r].frm, f)
<1> DEFINE b == BytesPerPlane(f)
<1>5. CASE r = 5
  <2>1. InputFormatters16[5] = Row(Fmt("GRAY", 1, 0, 0, {"float"}), {}, "UnrollDouble1Chan")
    BY DEF InputFormatters16
  <2>3. Unroll("UnrollDouble1Chan", f, b) = Reads(8, <<0, 0, 0>>, 1, Taking("sample", {}))
    BY ReckonedUnroll DEF UnrollDouble1Chan, Plain
  <2>4. Ordered(<<0, 0, 0>>, 1, 0, {"float"})
    BY DEF Ordered, Spot
  <2>5. f \notin LabV2Formats
    BY <1>5, <2>1, RowFits, LabFields
  <2>6. QED
    BY <1>5, <2>1, <2>3, <2>4, <2>5, FixedRow
<1>9. CASE r = 9
  <2>1. InputFormatters16[9] = Row(Fmt("any", 1, 0, 1, {}), {"space"}, "Unroll1Byte")
    BY DEF InputFormatters16, AnySpace
  <2>2. "Unroll1Byte" \in DOMAIN ByteUnrollers /\ ByteUnrollers["Unroll1Byte"] = Reads(1, <<0, 0, 0>>, 1, Plain)
    BY DEF ByteUnrollers
  <2>3. Unroll("Unroll1Byte", f, b) = Reads(1, <<0, 0, 0>>, 1, Taking("sample", {}))
    BY <2>2, ByteUnroll DEF Plain
  <2>4. Ordered(<<0, 0, 0>>, 1, 0, {})
    BY DEF Ordered, Spot
  <2>5. f \notin LabV2Formats
    BY <1>9, <2>1, RowFits, LabFields
  <2>6. QED
    BY <1>9, <2>1, <2>3, <2>4, <2>5, FixedRow
<1>10. CASE r = 10
  <2>1. InputFormatters16[10] = Row(Fmt("any", 1, 1, 1, {}), {"space"}, "Unroll1ByteSkip1")
    BY DEF InputFormatters16, AnySpace
  <2>2. "Unroll1ByteSkip1" \in DOMAIN ByteUnrollers /\ ByteUnrollers["Unroll1ByteSkip1"] = Reads(1, <<0, 0, 0>>, 2, Plain)
    BY DEF ByteUnrollers
  <2>3. Unroll("Unroll1ByteSkip1", f, b) = Reads(1, <<0, 0, 0>>, 2, Taking("sample", {}))
    BY <2>2, ByteUnroll DEF Plain
  <2>4. Ordered(<<0, 0, 0>>, 1, 1, {})
    BY DEF Ordered, Spot
  <2>5. f \notin LabV2Formats
    BY <1>10, <2>1, RowFits, LabFields
  <2>6. QED
    BY <1>10, <2>1, <2>3, <2>4, <2>5, FixedRow
<1>11. CASE r = 11
  <2>1. InputFormatters16[11] = Row(Fmt("any", 1, 2, 1, {}), {"space"}, "Unroll1ByteSkip2")
    BY DEF InputFormatters16, AnySpace
  <2>2. "Unroll1ByteSkip2" \in DOMAIN ByteUnrollers /\ ByteUnrollers["Unroll1ByteSkip2"] = Reads(1, <<0, 0, 0>>, 3, Plain)
    BY DEF ByteUnrollers
  <2>3. Unroll("Unroll1ByteSkip2", f, b) = Reads(1, <<0, 0, 0>>, 3, Taking("sample", {}))
    BY <2>2, ByteUnroll DEF Plain
  <2>4. Ordered(<<0, 0, 0>>, 1, 2, {})
    BY DEF Ordered, Spot
  <2>5. f \notin LabV2Formats
    BY <1>11, <2>1, RowFits, LabFields
  <2>6. QED
    BY <1>11, <2>1, <2>3, <2>4, <2>5, FixedRow
<1>12. CASE r = 12
  <2>1. InputFormatters16[12] = Row(Fmt("any", 1, 0, 1, {"flavor"}), {"space"}, "Unroll1ByteReversed")
    BY DEF InputFormatters16, AnySpace
  <2>2. "Unroll1ByteReversed" \in DOMAIN ByteUnrollers /\ ByteUnrollers["Unroll1ByteReversed"] = Reads(1, <<0, 0, 0>>, 1, Reversed)
    BY DEF ByteUnrollers
  <2>3. Unroll("Unroll1ByteReversed", f, b) = Reads(1, <<0, 0, 0>>, 1, Taking("sample", {"flavor"}))
    BY <2>2, ByteUnroll DEF Reversed
  <2>4. Ordered(<<0, 0, 0>>, 1, 0, {"flavor"})
    BY DEF Ordered, Spot
  <2>5. f \notin LabV2Formats
    BY <1>12, <2>1, RowFits, LabFields
  <2>6. QED
    BY <1>12, <2>1, <2>3, <2>4, <2>5, FixedRow
<1>13. CASE r = 13
  <2>1. InputFormatters16[13] = Row(Fmt("MCH2", 2, 0, 1, {}), {}, "Unroll2Bytes")
    BY DEF InputFormatters16
  <2>2. "Unroll2Bytes" \in DOMAIN ByteUnrollers /\ ByteUnrollers["Unroll2Bytes"] = Reads(1, <<0, 1>>, 2, Plain)
    BY DEF ByteUnrollers
  <2>3. Unroll("Unroll2Bytes", f, b) = Reads(1, <<0, 1>>, 2, Taking("sample", {}))
    BY <2>2, ByteUnroll DEF Plain
  <2>4. Ordered(<<0, 1>>, 2, 0, {})
    BY DEF Ordered, Spot
  <2>5. f \notin LabV2Formats
    BY <1>13, <2>1, RowFits, LabFields
  <2>6. QED
    BY <1>13, <2>1, <2>3, <2>4, <2>5, FixedRow
<1>14. CASE r = 14
  <2>1. InputFormatters16[14] = Row(Fmt("LabV2", 3, 0, 1, {}), {}, "UnrollLabV2_8")
    BY DEF InputFormatters16
  <2>2. "UnrollLabV2_8" \in DOMAIN ByteUnrollers /\ ByteUnrollers["UnrollLabV2_8"] = Reads(1, <<0, 1, 2>>, 3, LabV2)
    BY DEF ByteUnrollers
  <2>3. Unroll("UnrollLabV2_8", f, b) = Reads(1, <<0, 1, 2>>, 3, Taking("labV2", {}))
    BY <2>2, ByteUnroll DEF LabV2
  <2>4. Ordered(<<0, 1, 2>>, 3, 0, {})
    BY DEF Ordered, Spot
  <2>5. f \in LabV2Formats
    BY <1>14, <2>1, RowFits DEF LabV2Formats, IsFormat
  <2>6. QED
    BY <1>14, <2>1, <2>3, <2>4, <2>5, FixedRow
<1>15. CASE r = 15
  <2>1. InputFormatters16[15] = Row(Fmt("LabV2", 3, 1, 1, {"first"}), {}, "UnrollALabV2_8")
    BY DEF InputFormatters16
  <2>2. "UnrollALabV2_8" \in DOMAIN ByteUnrollers /\ ByteUnrollers["UnrollALabV2_8"] = Reads(1, <<1, 2, 3>>, 4, LabV2)
    BY DEF ByteUnrollers
  <2>3. Unroll("UnrollALabV2_8", f, b) = Reads(1, <<1, 2, 3>>, 4, Taking("labV2", {}))
    BY <2>2, ByteUnroll DEF LabV2
  <2>4. Ordered(<<1, 2, 3>>, 3, 1, {"first"})
    BY DEF Ordered, Spot
  <2>5. f \in LabV2Formats
    BY <1>15, <2>1, RowFits DEF LabV2Formats, IsFormat
  <2>6. QED
    BY <1>15, <2>1, <2>3, <2>4, <2>5, FixedRow
<1>16. CASE r = 16
  <2>1. InputFormatters16[16] = Row(Fmt("LabV2", 3, 0, 2, {}), {}, "UnrollLabV2_16")
    BY DEF InputFormatters16
  <2>2. "UnrollLabV2_16" \in DOMAIN ByteUnrollers /\ ByteUnrollers["UnrollLabV2_16"] = Reads(2, <<0, 1, 2>>, 3, LabV2)
    BY DEF ByteUnrollers
  <2>3. Unroll("UnrollLabV2_16", f, b) = Reads(2, <<0, 1, 2>>, 3, Taking("labV2", {}))
    BY <2>2, ByteUnroll DEF LabV2
  <2>4. Ordered(<<0, 1, 2>>, 3, 0, {})
    BY DEF Ordered, Spot
  <2>5. f \in LabV2Formats
    BY <1>16, <2>1, RowFits DEF LabV2Formats, IsFormat
  <2>6. QED
    BY <1>16, <2>1, <2>3, <2>4, <2>5, FixedRow
<1>17. CASE r = 17
  <2>1. InputFormatters16[17] = Row(Fmt("any", 3, 0, 1, {}), {"space"}, "Unroll3Bytes")
    BY DEF InputFormatters16, AnySpace
  <2>2. "Unroll3Bytes" \in DOMAIN ByteUnrollers /\ ByteUnrollers["Unroll3Bytes"] = Reads(1, <<0, 1, 2>>, 3, Plain)
    BY DEF ByteUnrollers
  <2>3. Unroll("Unroll3Bytes", f, b) = Reads(1, <<0, 1, 2>>, 3, Taking("sample", {}))
    BY <2>2, ByteUnroll DEF Plain
  <2>4. Ordered(<<0, 1, 2>>, 3, 0, {})
    BY DEF Ordered, Spot
  <2>5. f \notin LabV2Formats
    BY <1>17
  <2>6. QED
    BY <1>17, <2>1, <2>3, <2>4, <2>5, FixedRow
<1>18. CASE r = 18
  <2>1. InputFormatters16[18] = Row(Fmt("any", 3, 0, 1, {"swap"}), {"space"}, "Unroll3BytesSwap")
    BY DEF InputFormatters16, AnySpace
  <2>2. "Unroll3BytesSwap" \in DOMAIN ByteUnrollers /\ ByteUnrollers["Unroll3BytesSwap"] = Reads(1, <<2, 1, 0>>, 3, Plain)
    BY DEF ByteUnrollers
  <2>3. Unroll("Unroll3BytesSwap", f, b) = Reads(1, <<2, 1, 0>>, 3, Taking("sample", {}))
    BY <2>2, ByteUnroll DEF Plain
  <2>4. Ordered(<<2, 1, 0>>, 3, 0, {"swap"})
    BY DEF Ordered, Spot
  <2>5. f \notin LabV2Formats
    BY <1>18
  <2>6. QED
    BY <1>18, <2>1, <2>3, <2>4, <2>5, FixedRow
<1>19. CASE r = 19
  <2>1. InputFormatters16[19] = Row(Fmt("any", 3, 1, 1, {"swap"}), {"space"}, "Unroll3BytesSkip1Swap")
    BY DEF InputFormatters16, AnySpace
  <2>2. "Unroll3BytesSkip1Swap" \in DOMAIN ByteUnrollers /\ ByteUnrollers["Unroll3BytesSkip1Swap"] = Reads(1, <<3, 2, 1>>, 4, Plain)
    BY DEF ByteUnrollers
  <2>3. Unroll("Unroll3BytesSkip1Swap", f, b) = Reads(1, <<3, 2, 1>>, 4, Taking("sample", {}))
    BY <2>2, ByteUnroll DEF Plain
  <2>4. Ordered(<<3, 2, 1>>, 3, 1, {"swap"})
    BY DEF Ordered, Spot
  <2>5. f \notin LabV2Formats
    BY <1>19
  <2>6. QED
    BY <1>19, <2>1, <2>3, <2>4, <2>5, FixedRow
<1>20. CASE r = 20
  <2>1. InputFormatters16[20] = Row(Fmt("any", 3, 1, 1, {"first"}), {"space"}, "Unroll3BytesSkip1SwapFirst")
    BY DEF InputFormatters16, AnySpace
  <2>2. "Unroll3BytesSkip1SwapFirst" \in DOMAIN ByteUnrollers /\ ByteUnrollers["Unroll3BytesSkip1SwapFirst"] = Reads(1, <<1, 2, 3>>, 4, Plain)
    BY DEF ByteUnrollers
  <2>3. Unroll("Unroll3BytesSkip1SwapFirst", f, b) = Reads(1, <<1, 2, 3>>, 4, Taking("sample", {}))
    BY <2>2, ByteUnroll DEF Plain
  <2>4. Ordered(<<1, 2, 3>>, 3, 1, {"first"})
    BY DEF Ordered, Spot
  <2>5. f \notin LabV2Formats
    BY <1>20
  <2>6. QED
    BY <1>20, <2>1, <2>3, <2>4, <2>5, FixedRow
<1>21. CASE r = 21
  <2>1. InputFormatters16[21] = Row(Fmt("any", 3, 1, 1, {"swap", "first"}), {"space"}, "Unroll3BytesSkip1SwapSwapFirst")
    BY DEF InputFormatters16, AnySpace
  <2>2. "Unroll3BytesSkip1SwapSwapFirst" \in DOMAIN ByteUnrollers /\ ByteUnrollers["Unroll3BytesSkip1SwapSwapFirst"] = Reads(1, <<2, 1, 0>>, 4, Plain)
    BY DEF ByteUnrollers
  <2>3. Unroll("Unroll3BytesSkip1SwapSwapFirst", f, b) = Reads(1, <<2, 1, 0>>, 4, Taking("sample", {}))
    BY <2>2, ByteUnroll DEF Plain
  <2>4. Ordered(<<2, 1, 0>>, 3, 1, {"swap", "first"})
    BY DEF Ordered, Spot
  <2>5. f \notin LabV2Formats
    BY <1>21
  <2>6. QED
    BY <1>21, <2>1, <2>3, <2>4, <2>5, FixedRow
<1>22. CASE r = 22
  <2>1. InputFormatters16[22] = Row(Fmt("any", 4, 0, 1, {}), {"space"}, "Unroll4Bytes")
    BY DEF InputFormatters16, AnySpace
  <2>2. "Unroll4Bytes" \in DOMAIN ByteUnrollers /\ ByteUnrollers["Unroll4Bytes"] = Reads(1, <<0, 1, 2, 3>>, 4, Plain)
    BY DEF ByteUnrollers
  <2>3. Unroll("Unroll4Bytes", f, b) = Reads(1, <<0, 1, 2, 3>>, 4, Taking("sample", {}))
    BY <2>2, ByteUnroll DEF Plain
  <2>4. Ordered(<<0, 1, 2, 3>>, 4, 0, {})
    BY DEF Ordered, Spot
  <2>5. f \notin LabV2Formats
    BY <1>22
  <2>6. QED
    BY <1>22, <2>1, <2>3, <2>4, <2>5, FixedRow
<1>23. CASE r = 23
  <2>1. InputFormatters16[23] = Row(Fmt("any", 4, 0, 1, {"flavor"}), {"space"}, "Unroll4BytesReverse")
    BY DEF InputFormatters16, AnySpace
  <2>2. "Unroll4BytesReverse" \in DOMAIN ByteUnrollers /\ ByteUnrollers["Unroll4BytesReverse"] = Reads(1, <<0, 1, 2, 3>>, 4, Reversed)
    BY DEF ByteUnrollers
  <2>3. Unroll("Unroll4BytesReverse", f, b) = Reads(1, <<0, 1, 2, 3>>, 4, Taking("sample", {"flavor"}))
    BY <2>2, ByteUnroll DEF Reversed
  <2>4. Ordered(<<0, 1, 2, 3>>, 4, 0, {"flavor"})
    BY DEF Ordered, Spot
  <2>5. f \notin LabV2Formats
    BY <1>23
  <2>6. QED
    BY <1>23, <2>1, <2>3, <2>4, <2>5, FixedRow
<1>24. CASE r = 24
  <2>1. InputFormatters16[24] = Row(Fmt("any", 4, 0, 1, {"first"}), {"space"}, "Unroll4BytesSwapFirst")
    BY DEF InputFormatters16, AnySpace
  <2>2. "Unroll4BytesSwapFirst" \in DOMAIN ByteUnrollers /\ ByteUnrollers["Unroll4BytesSwapFirst"] = Reads(1, <<1, 2, 3, 0>>, 4, Plain)
    BY DEF ByteUnrollers
  <2>3. Unroll("Unroll4BytesSwapFirst", f, b) = Reads(1, <<1, 2, 3, 0>>, 4, Taking("sample", {}))
    BY <2>2, ByteUnroll DEF Plain
  <2>4. Ordered(<<1, 2, 3, 0>>, 4, 0, {"first"})
    BY DEF Ordered, Spot
  <2>5. f \notin LabV2Formats
    BY <1>24
  <2>6. QED
    BY <1>24, <2>1, <2>3, <2>4, <2>5, FixedRow
<1>25. CASE r = 25
  <2>1. InputFormatters16[25] = Row(Fmt("any", 4, 0, 1, {"swap"}), {"space"}, "Unroll4BytesSwap")
    BY DEF InputFormatters16, AnySpace
  <2>2. "Unroll4BytesSwap" \in DOMAIN ByteUnrollers /\ ByteUnrollers["Unroll4BytesSwap"] = Reads(1, <<3, 2, 1, 0>>, 4, Plain)
    BY DEF ByteUnrollers
  <2>3. Unroll("Unroll4BytesSwap", f, b) = Reads(1, <<3, 2, 1, 0>>, 4, Taking("sample", {}))
    BY <2>2, ByteUnroll DEF Plain
  <2>4. Ordered(<<3, 2, 1, 0>>, 4, 0, {"swap"})
    BY DEF Ordered, Spot
  <2>5. f \notin LabV2Formats
    BY <1>25
  <2>6. QED
    BY <1>25, <2>1, <2>3, <2>4, <2>5, FixedRow
<1>26. CASE r = 26
  <2>1. InputFormatters16[26] = Row(Fmt("any", 4, 0, 1, {"swap", "first"}), {"space"}, "Unroll4BytesSwapSwapFirst")
    BY DEF InputFormatters16, AnySpace
  <2>2. "Unroll4BytesSwapSwapFirst" \in DOMAIN ByteUnrollers /\ ByteUnrollers["Unroll4BytesSwapSwapFirst"] = Reads(1, <<2, 1, 0, 3>>, 4, Plain)
    BY DEF ByteUnrollers
  <2>3. Unroll("Unroll4BytesSwapSwapFirst", f, b) = Reads(1, <<2, 1, 0, 3>>, 4, Taking("sample", {}))
    BY <2>2, ByteUnroll DEF Plain
  <2>4. Ordered(<<2, 1, 0, 3>>, 4, 0, {"swap", "first"})
    BY DEF Ordered, Spot
  <2>5. f \notin LabV2Formats
    BY <1>26
  <2>6. QED
    BY <1>26, <2>1, <2>3, <2>4, <2>5, FixedRow
<1>29. CASE r = 29
  <2>1. InputFormatters16[29] = Row(Fmt("any", 1, 0, 2, {}), {"space"}, "Unroll1Word")
    BY DEF InputFormatters16, AnySpace
  <2>2. "Unroll1Word" \in DOMAIN WordUnrollers /\ WordUnrollers["Unroll1Word"] = Reads(2, <<0, 0, 0>>, 1, Plain)
    BY DEF WordUnrollers
  <2>3. Unroll("Unroll1Word", f, b) = Reads(2, <<0, 0, 0>>, 1, Taking("sample", {}))
    BY <2>2, WordUnroll DEF Plain
  <2>4. Ordered(<<0, 0, 0>>, 1, 0, {})
    BY DEF Ordered, Spot
  <2>5. f \notin LabV2Formats
    BY <1>29
  <2>6. QED
    BY <1>29, <2>1, <2>3, <2>4, <2>5, FixedRow
<1>30. CASE r = 30
  <2>1. InputFormatters16[30] = Row(Fmt("any", 1, 0, 2, {"flavor"}), {"space"}, "Unroll1WordReversed")
    BY DEF InputFormatters16, AnySpace
  <2>2. "Unroll1WordReversed" \in DOMAIN WordUnrollers /\ WordUnrollers["Unroll1WordReversed"] = Reads(2, <<0, 0, 0>>, 1, Reversed)
    BY DEF WordUnrollers
  <2>3. Unroll("Unroll1WordReversed", f, b) = Reads(2, <<0, 0, 0>>, 1, Taking("sample", {"flavor"}))
    BY <2>2, WordUnroll DEF Reversed
  <2>4. Ordered(<<0, 0, 0>>, 1, 0, {"flavor"})
    BY DEF Ordered, Spot
  <2>5. f \notin LabV2Formats
    BY <1>30
  <2>6. QED
    BY <1>30, <2>1, <2>3, <2>4, <2>5, FixedRow
<1>31. CASE r = 31
  <2>1. InputFormatters16[31] = Row(Fmt("any", 1, 3, 2, {}), {"space"}, "Unroll1WordSkip3")
    BY DEF InputFormatters16, AnySpace
  <2>2. "Unroll1WordSkip3" \in DOMAIN WordUnrollers /\ WordUnrollers["Unroll1WordSkip3"] = Reads(2, <<0, 0, 0>>, 4, Plain)
    BY DEF WordUnrollers
  <2>3. Unroll("Unroll1WordSkip3", f, b) = Reads(2, <<0, 0, 0>>, 4, Taking("sample", {}))
    BY <2>2, WordUnroll DEF Plain
  <2>4. Ordered(<<0, 0, 0>>, 1, 3, {})
    BY DEF Ordered, Spot
  <2>5. f \notin LabV2Formats
    BY <1>31
  <2>6. QED
    BY <1>31, <2>1, <2>3, <2>4, <2>5, FixedRow
<1>32. CASE r = 32
  <2>1. InputFormatters16[32] = Row(Fmt("any", 2, 0, 2, {}), {"space"}, "Unroll2Words")
    BY DEF InputFormatters16, AnySpace
  <2>2. "Unroll2Words" \in DOMAIN WordUnrollers /\ WordUnrollers["Unroll2Words"] = Reads(2, <<0, 1>>, 2, Plain)
    BY DEF WordUnrollers
  <2>3. Unroll("Unroll2Words", f, b) = Reads(2, <<0, 1>>, 2, Taking("sample", {}))
    BY <2>2, WordUnroll DEF Plain
  <2>4. Ordered(<<0, 1>>, 2, 0, {})
    BY DEF Ordered, Spot
  <2>5. f \notin LabV2Formats
    BY <1>32
  <2>6. QED
    BY <1>32, <2>1, <2>3, <2>4, <2>5, FixedRow
<1>33. CASE r = 33
  <2>1. InputFormatters16[33] = Row(Fmt("any", 3, 0, 2, {}), {"space"}, "Unroll3Words")
    BY DEF InputFormatters16, AnySpace
  <2>2. "Unroll3Words" \in DOMAIN WordUnrollers /\ WordUnrollers["Unroll3Words"] = Reads(2, <<0, 1, 2>>, 3, Plain)
    BY DEF WordUnrollers
  <2>3. Unroll("Unroll3Words", f, b) = Reads(2, <<0, 1, 2>>, 3, Taking("sample", {}))
    BY <2>2, WordUnroll DEF Plain
  <2>4. Ordered(<<0, 1, 2>>, 3, 0, {})
    BY DEF Ordered, Spot
  <2>5. f \notin LabV2Formats
    BY <1>33
  <2>6. QED
    BY <1>33, <2>1, <2>3, <2>4, <2>5, FixedRow
<1>34. CASE r = 34
  <2>1. InputFormatters16[34] = Row(Fmt("any", 4, 0, 2, {}), {"space"}, "Unroll4Words")
    BY DEF InputFormatters16, AnySpace
  <2>2. "Unroll4Words" \in DOMAIN WordUnrollers /\ WordUnrollers["Unroll4Words"] = Reads(2, <<0, 1, 2, 3>>, 4, Plain)
    BY DEF WordUnrollers
  <2>3. Unroll("Unroll4Words", f, b) = Reads(2, <<0, 1, 2, 3>>, 4, Taking("sample", {}))
    BY <2>2, WordUnroll DEF Plain
  <2>4. Ordered(<<0, 1, 2, 3>>, 4, 0, {})
    BY DEF Ordered, Spot
  <2>5. f \notin LabV2Formats
    BY <1>34
  <2>6. QED
    BY <1>34, <2>1, <2>3, <2>4, <2>5, FixedRow
<1>35. CASE r = 35
  <2>1. InputFormatters16[35] = Row(Fmt("any", 3, 0, 2, {"swap"}), {"space"}, "Unroll3WordsSwap")
    BY DEF InputFormatters16, AnySpace
  <2>2. "Unroll3WordsSwap" \in DOMAIN WordUnrollers /\ WordUnrollers["Unroll3WordsSwap"] = Reads(2, <<2, 1, 0>>, 3, Plain)
    BY DEF WordUnrollers
  <2>3. Unroll("Unroll3WordsSwap", f, b) = Reads(2, <<2, 1, 0>>, 3, Taking("sample", {}))
    BY <2>2, WordUnroll DEF Plain
  <2>4. Ordered(<<2, 1, 0>>, 3, 0, {"swap"})
    BY DEF Ordered, Spot
  <2>5. f \notin LabV2Formats
    BY <1>35
  <2>6. QED
    BY <1>35, <2>1, <2>3, <2>4, <2>5, FixedRow
<1>36. CASE r = 36
  <2>1. InputFormatters16[36] = Row(Fmt("any", 3, 1, 2, {"first"}), {"space"}, "Unroll3WordsSkip1SwapFirst")
    BY DEF InputFormatters16, AnySpace
  <2>2. "Unroll3WordsSkip1SwapFirst" \in DOMAIN WordUnrollers /\ WordUnrollers["Unroll3WordsSkip1SwapFirst"] = Reads(2, <<1, 2, 3>>, 4, Plain)
    BY DEF WordUnrollers
  <2>3. Unroll("Unroll3WordsSkip1SwapFirst", f, b) = Reads(2, <<1, 2, 3>>, 4, Taking("sample", {}))
    BY <2>2, WordUnroll DEF Plain
  <2>4. Ordered(<<1, 2, 3>>, 3, 1, {"first"})
    BY DEF Ordered, Spot
  <2>5. f \notin LabV2Formats
    BY <1>36
  <2>6. QED
    BY <1>36, <2>1, <2>3, <2>4, <2>5, FixedRow
<1>37. CASE r = 37
  <2>1. InputFormatters16[37] = Row(Fmt("any", 3, 1, 2, {"swap"}), {"space"}, "Unroll3WordsSkip1Swap")
    BY DEF InputFormatters16, AnySpace
  <2>2. "Unroll3WordsSkip1Swap" \in DOMAIN WordUnrollers /\ WordUnrollers["Unroll3WordsSkip1Swap"] = Reads(2, <<3, 2, 1>>, 4, Plain)
    BY DEF WordUnrollers
  <2>3. Unroll("Unroll3WordsSkip1Swap", f, b) = Reads(2, <<3, 2, 1>>, 4, Taking("sample", {}))
    BY <2>2, WordUnroll DEF Plain
  <2>4. Ordered(<<3, 2, 1>>, 3, 1, {"swap"})
    BY DEF Ordered, Spot
  <2>5. f \notin LabV2Formats
    BY <1>37
  <2>6. QED
    BY <1>37, <2>1, <2>3, <2>4, <2>5, FixedRow
<1>38. CASE r = 38
  <2>1. InputFormatters16[38] = Row(Fmt("any", 4, 0, 2, {"flavor"}), {"space"}, "Unroll4WordsReverse")
    BY DEF InputFormatters16, AnySpace
  <2>2. "Unroll4WordsReverse" \in DOMAIN WordUnrollers /\ WordUnrollers["Unroll4WordsReverse"] = Reads(2, <<0, 1, 2, 3>>, 4, Reversed)
    BY DEF WordUnrollers
  <2>3. Unroll("Unroll4WordsReverse", f, b) = Reads(2, <<0, 1, 2, 3>>, 4, Taking("sample", {"flavor"}))
    BY <2>2, WordUnroll DEF Reversed
  <2>4. Ordered(<<0, 1, 2, 3>>, 4, 0, {"flavor"})
    BY DEF Ordered, Spot
  <2>5. f \notin LabV2Formats
    BY <1>38
  <2>6. QED
    BY <1>38, <2>1, <2>3, <2>4, <2>5, FixedRow
<1>39. CASE r = 39
  <2>1. InputFormatters16[39] = Row(Fmt("any", 4, 0, 2, {"first"}), {"space"}, "Unroll4WordsSwapFirst")
    BY DEF InputFormatters16, AnySpace
  <2>2. "Unroll4WordsSwapFirst" \in DOMAIN WordUnrollers /\ WordUnrollers["Unroll4WordsSwapFirst"] = Reads(2, <<1, 2, 3, 0>>, 4, Plain)
    BY DEF WordUnrollers
  <2>3. Unroll("Unroll4WordsSwapFirst", f, b) = Reads(2, <<1, 2, 3, 0>>, 4, Taking("sample", {}))
    BY <2>2, WordUnroll DEF Plain
  <2>4. Ordered(<<1, 2, 3, 0>>, 4, 0, {"first"})
    BY DEF Ordered, Spot
  <2>5. f \notin LabV2Formats
    BY <1>39
  <2>6. QED
    BY <1>39, <2>1, <2>3, <2>4, <2>5, FixedRow
<1>40. CASE r = 40
  <2>1. InputFormatters16[40] = Row(Fmt("any", 4, 0, 2, {"swap"}), {"space"}, "Unroll4WordsSwap")
    BY DEF InputFormatters16, AnySpace
  <2>2. "Unroll4WordsSwap" \in DOMAIN WordUnrollers /\ WordUnrollers["Unroll4WordsSwap"] = Reads(2, <<3, 2, 1, 0>>, 4, Plain)
    BY DEF WordUnrollers
  <2>3. Unroll("Unroll4WordsSwap", f, b) = Reads(2, <<3, 2, 1, 0>>, 4, Taking("sample", {}))
    BY <2>2, WordUnroll DEF Plain
  <2>4. Ordered(<<3, 2, 1, 0>>, 4, 0, {"swap"})
    BY DEF Ordered, Spot
  <2>5. f \notin LabV2Formats
    BY <1>40
  <2>6. QED
    BY <1>40, <2>1, <2>3, <2>4, <2>5, FixedRow
<1>41. CASE r = 41
  <2>1. InputFormatters16[41] = Row(Fmt("any", 4, 0, 2, {"swap", "first"}), {"space"}, "Unroll4WordsSwapSwapFirst")
    BY DEF InputFormatters16, AnySpace
  <2>2. "Unroll4WordsSwapSwapFirst" \in DOMAIN WordUnrollers /\ WordUnrollers["Unroll4WordsSwapSwapFirst"] = Reads(2, <<2, 1, 0, 3>>, 4, Plain)
    BY DEF WordUnrollers
  <2>3. Unroll("Unroll4WordsSwapSwapFirst", f, b) = Reads(2, <<2, 1, 0, 3>>, 4, Taking("sample", {}))
    BY <2>2, WordUnroll DEF Plain
  <2>4. Ordered(<<2, 1, 0, 3>>, 4, 0, {"swap", "first"})
    BY DEF Ordered, Spot
  <2>5. f \notin LabV2Formats
    BY <1>41
  <2>6. QED
    BY <1>41, <2>1, <2>3, <2>4, <2>5, FixedRow
<1>100. QED
  BY <1>5, <1>9, <1>10, <1>11, <1>12, <1>13, <1>14, <1>15, <1>16, <1>17, <1>18, <1>19, <1>20, <1>21, <1>22, <1>23, <1>24, <1>25, <1>26, <1>29, <1>30, <1>31, <1>32, <1>33, <1>34, <1>35, <1>36, <1>37, <1>38, <1>39, <1>40, <1>41

\* and those that leave the layout to the formatter.
LEMMA Input16Open ==
  ASSUME NEW f, IsFormat(f), f.channels > 0, NEW r \in 1 .. 45, Fits(f, InputFormatters16[r]),
         f \in LabV2Formats => r < 17, r = 45 => ~Fits(f, InputFormatters16[43]),
         r \in 1 .. 4 \cup 6 .. 8 \cup {27, 28} \cup 42 .. 45
  PROVE  Serves(InputFormatters16[r].frm, f)
<1> DEFINE b == BytesPerPlane(f)
<1>1. CASE r = 1
  <2>1. InputFormatters16[1] = Row(Fmt("Lab", 3, 0, 0, {"float"}), AnyTriple, "UnrollLabDoubleTo16")
    BY DEF InputFormatters16
  <2>2. /\ f.bytes = 0 /\ InputFormatters16[r].frm = "UnrollLabDoubleTo16"
        /\ f.channels = 3
    BY <1>1, <2>1, OpenRow DEF AnyColours, AnyTriple, Is
  <2>3. Unroll("UnrollLabDoubleTo16", f, b).adv \in Nat
    BY ReckonedUnroll, MisreadersMove
  <2>4. ~Is("planar", f) /\ ~Overreads("UnrollLabDoubleTo16", f) => Stays(Unroll("UnrollLabDoubleTo16", f, b), f)
    BY DEF Overreads
  <2>5. QED
    BY <2>2, <2>3, <2>4, MisreadServes DEF Misreads
<1>2. CASE r = 2
  <2>1. InputFormatters16[2] = Row(Fmt("XYZ", 3, 0, 0, {"float"}), AnyTriple, "UnrollXYZDoubleTo16")
    BY DEF InputFormatters16
  <2>2. Unroll("UnrollXYZDoubleTo16", f, b) = Triple(f, 8, b, Plain)
    BY ReckonedUnroll DEF UnrollXYZDoubleTo16
  <2>3. QED
    BY <1>2, <2>1, <2>2, TripleServes DEF Fmt
<1>3. CASE r = 3
  <2>1. InputFormatters16[3] = Row(Fmt("Lab", 3, 0, 4, {"float"}), AnyTriple, "UnrollLabFloatTo16")
    BY DEF InputFormatters16
  <2>2. /\ f.bytes = 4 /\ InputFormatters16[r].frm = "UnrollLabFloatTo16"
        /\ f.channels = 3
    BY <1>3, <2>1, OpenRow DEF AnyColours, AnyTriple, Is
  <2>3. Unroll("UnrollLabFloatTo16", f, b).adv \in Nat
    BY ReckonedUnroll, MisreadersMove
  <2>4. ~Is("planar", f) /\ ~Overreads("UnrollLabFloatTo16", f) => Stays(Unroll("UnrollLabFloatTo16", f, b), f)
    BY <2>2, ReckonedUnroll, MisreadersStay
  <2>5. QED
    BY <2>2, <2>3, <2>4, MisreadServes DEF Misreads
<1>4. CASE r = 4
  <2>1. InputFormatters16[4] = Row(Fmt("XYZ", 3, 0, 4, {"float"}), AnyTriple, "UnrollXYZFloatTo16")
    BY DEF InputFormatters16
  <2>2. Unroll("UnrollXYZFloatTo16", f, b) = Triple(f, 4, b, Plain)
    BY ReckonedUnroll DEF UnrollXYZFloatTo16
  <2>3. QED
    BY <1>4, <2>1, <2>2, TripleServes DEF Fmt
<1>6. CASE r = 6
  <2>1. InputFormatters16[6] = Row(Fmt("any", 0, 0, 0, {"float"}), AnyColours \cup {"planar", "flavor", "first"}, "UnrollDoubleTo16")
    BY DEF InputFormatters16
  <2>2. /\ f.bytes = 0 /\ InputFormatters16[r].frm = "UnrollDoubleTo16"
    BY <1>6, <2>1, OpenRow DEF AnyColours, AnyTriple, Is
  <2>3. Unroll("UnrollDoubleTo16", f, b).adv \in Nat
    BY ReckonedUnroll, MisreadersMove
  <2>4. ~Is("planar", f) /\ ~Overreads("UnrollDoubleTo16", f) => Stays(Unroll("UnrollDoubleTo16", f, b), f)
    BY <2>2, ReckonedUnroll, MisreadersStay
  <2>5. QED
    BY <2>2, <2>3, <2>4, MisreadServes DEF Misreads
<1>7. CASE r = 7
  <2>1. InputFormatters16[7] = Row(Fmt("any", 0, 0, 4, {"float"}), AnyColours \cup {"planar", "flavor", "first"}, "UnrollFloatTo16")
    BY DEF InputFormatters16
  <2>2. /\ f.bytes = 4 /\ InputFormatters16[r].frm = "UnrollFloatTo16"
    BY <1>7, <2>1, OpenRow DEF AnyColours, AnyTriple, Is
  <2>3. Unroll("UnrollFloatTo16", f, b).adv \in Nat
    BY ReckonedUnroll, MisreadersMove
  <2>4. ~Is("planar", f) /\ ~Overreads("UnrollFloatTo16", f) => Stays(Unroll("UnrollFloatTo16", f, b), f)
    BY <2>2, ReckonedUnroll, MisreadersStay
  <2>5. QED
    BY <2>2, <2>3, <2>4, MisreadServes DEF Misreads
<1>8. CASE r = 8
  <2>1. InputFormatters16[8] = Row(Fmt("any", 0, 0, 2, {"float"}), AnyColours \cup {"planar", "flavor", "first"}, "UnrollHalfTo16")
    BY DEF InputFormatters16
  <2>2. /\ f.bytes = 2 /\ InputFormatters16[r].frm = "UnrollHalfTo16"
        /\ "optimized" \notin f.flags /\ "float" \in f.flags /\ ~Premultiplied(f)
    BY <1>8, <2>1, OpenRow DEF AnyColours, Is, Premultiplied, SwappedFirst
  <2>3. ReadsRight(Unroll("UnrollHalfTo16", f, b), f)
    BY <2>2, AsSample, ReckonedUnroll, LabFields, HalfsRight
  <2>4. QED
    BY <2>2, <2>3, RightServes
<1>27. CASE r = 27
  <2>1. InputFormatters16[27] = Row(Fmt("any", 0, 0, 1, {"planar"}), AnyColours \cup {"flavor", "first", "premul"}, "UnrollPlanarBytes")
    BY DEF InputFormatters16
  <2>2. /\ f.bytes = 1 /\ InputFormatters16[r].frm = "UnrollPlanarBytes"
        /\ "optimized" \notin f.flags /\ Is("planar", f) /\ r > 16
    BY <1>27, <2>1, OpenRow DEF AnyColours, Is, Premultiplied, SwappedFirst
  <2>3. Unroll("UnrollPlanarBytes", f, b).adv \in Nat
    BY ReckonedUnroll, MisreadersMove
  <2>4. CASE SwappedFirst(f) \/ LacksAlpha(f)
    BY <2>2, <2>3, <2>4, MisreadServes DEF Misreads
  <2>5. CASE ~SwappedFirst(f) /\ ~LacksAlpha(f)
    <3>1. ReadsRight(Unroll("UnrollPlanarBytes", f, b), f)
      BY <2>2, <2>5, AsSample, ReckonedUnroll, PlanarBytes
    <3>2. QED
      BY <2>2, <3>1, RightServes
  <2>6. QED
    BY <2>4, <2>5
<1>28. CASE r = 28
  <2>1. InputFormatters16[28] = Row(Fmt("any", 0, 0, 1, {}), AnyColours \cup {"flavor", "first", "premul"}, "UnrollChunkyBytes")
    BY DEF InputFormatters16
  <2>2. /\ f.bytes = 1 /\ InputFormatters16[r].frm = "UnrollChunkyBytes"
        /\ "optimized" \notin f.flags /\ ~Is("planar", f) /\ r > 16
    BY <1>28, <2>1, OpenRow DEF AnyColours, Is, Premultiplied, SwappedFirst
  <2>3. /\ Unroll("UnrollChunkyBytes", f, b).adv \in Nat /\ Stays(Unroll("UnrollChunkyBytes", f, b), f)
        /\ ~LacksAlpha(f) => ReadsRight(Unroll("UnrollChunkyBytes", f, b), f)
    BY <2>2, AsSample, ReckonedUnroll, ChunkyBytes
  <2>4. CASE LacksAlpha(f)
    BY <2>2, <2>3, <2>4, MisreadServes DEF Misreads
  <2>5. CASE ~LacksAlpha(f)
    BY <2>2, <2>3, <2>5, RightServes
  <2>6. QED
    BY <2>4, <2>5
<1>42. CASE r = 42
  <2>1. InputFormatters16[42] = Row(Fmt("any", 0, 0, 2, {"planar"}), AnyColours \cup {"endian", "flavor"}, "UnrollPlanarWords")
    BY DEF InputFormatters16
  <2>2. /\ f.bytes = 2 /\ InputFormatters16[r].frm = "UnrollPlanarWords"
        /\ "optimized" \notin f.flags /\ Is("planar", f) /\ ~Is("first", f) /\ ~Premultiplied(f) /\ r > 16
    BY <1>42, <2>1, OpenRow DEF AnyColours, Is, Premultiplied, SwappedFirst
  <2>3. ReadsFirst(UnrollPlanarWords(f, b), f) /\ UnrollPlanarWords(f, b).adv \in Nat
    BY <2>2, AsSample, PlanarWords
  <2>4. Unroll("UnrollPlanarWords", f, b) = UnrollPlanarWords(f, b)
    BY ReckonedUnroll
  <2>5. Pixels \in Nat
    BY FormattedTransformAssumption
  <2>6. \A k \in 0 .. Pixels - 1 : k > 0 => Misreads("UnrollPlanarWords", f, k + 1)
    BY <2>5 DEF Misreads
  <2>7. QED
    BY <2>2, <2>3, <2>4, <2>5, <2>6 DEF Serves
<1>43. CASE r = 43
  <2>1. InputFormatters16[43] = Row(Fmt("any", 0, 0, 2, {}), AnyColours \cup {"endian", "flavor", "first"}, "UnrollAnyWords")
    BY DEF InputFormatters16
  <2>2. /\ f.bytes = 2 /\ InputFormatters16[r].frm = "UnrollAnyWords"
        /\ "optimized" \notin f.flags /\ ~Is("planar", f) /\ ~Premultiplied(f) /\ r > 16
    BY <1>43, <2>1, OpenRow DEF AnyColours, Is, Premultiplied, SwappedFirst
  <2>3. ReadsRight(Unroll("UnrollAnyWords", f, b), f)
    BY <2>2, AsSample, ReckonedUnroll, AnyWords
  <2>4. QED
    BY <2>2, <2>3, RightServes
<1>44. CASE r = 44
  <2>1. InputFormatters16[44] = Row(Fmt("any", 0, 0, 2, {"planar"}), AnyColours \cup {"endian", "flavor", "premul"}, "UnrollPlanarWordsPremul")
    BY DEF InputFormatters16
  <2>2. /\ f.bytes = 2 /\ InputFormatters16[r].frm = "UnrollPlanarWordsPremul"
        /\ Is("planar", f)
    BY <1>44, <2>1, OpenRow DEF AnyColours, AnyTriple, Is
  <2>3. Unroll("UnrollPlanarWordsPremul", f, b).adv \in Nat
    BY ReckonedUnroll, MisreadersMove
  <2>4. ~Is("planar", f) /\ ~Overreads("UnrollPlanarWordsPremul", f) => Stays(Unroll("UnrollPlanarWordsPremul", f, b), f)
    BY <2>2
  <2>5. QED
    BY <2>2, <2>3, <2>4, MisreadServes DEF Misreads
<1>45. CASE r = 45
  <2>1. InputFormatters16[45] = Row(Fmt("any", 0, 0, 2, {}), AnyColours \cup {"endian", "flavor", "first", "premul"}, "UnrollAnyWordsPremul")
    BY DEF InputFormatters16
  <2>2. /\ f.bytes = 2 /\ InputFormatters16[r].frm = "UnrollAnyWordsPremul"
        /\ "optimized" \notin f.flags /\ ~Is("planar", f) /\ r > 16
    BY <1>45, <2>1, OpenRow DEF AnyColours, Is, Premultiplied, SwappedFirst
  <2>3. Unroll("UnrollAnyWordsPremul", f, b).adv \in Nat
    BY ReckonedUnroll, MisreadersMove
  <2>4. CASE ~(ExtraFirst(f) /\ f.extra = 1)
    <3>1. ~Overreads("UnrollAnyWordsPremul", f) => (ExtraFirst(f) => f.extra > 0)
      BY FormatType DEF Overreads
    <3>2. ~Overreads("UnrollAnyWordsPremul", f) => Stays(Unroll("UnrollAnyWordsPremul", f, b), f)
      BY <2>2, <3>1, ReckonedUnroll, MisreadersStay
    <3>3. QED
      BY <2>2, <2>3, <2>4, <3>2, MisreadServes DEF Misreads
  <2>5. InputFormatters16[43] = Row(Fmt("any", 0, 0, 2, {}), AnyColours \cup {"endian", "flavor", "first"}, "UnrollAnyWords")
    BY DEF InputFormatters16
  <2>6. CASE ExtraFirst(f) /\ f.extra = 1
    <3>1. Premultiplied(f)
      <4>1. "premul" \in f.flags
        BY <1>45, <2>1, <2>5 DEF Fits, Row, Fmt, AnyColours
      <4>2. QED
        BY <2>6, <4>1 DEF Premultiplied, Is
    <3>2. ReadsRight(Unroll("UnrollAnyWordsPremul", f, b), f)
      BY <2>2, <2>6, <3>1, AsSample, ReckonedUnroll, AnyWordsPremul
    <3>3. QED
      BY <2>2, <3>2, RightServes
  <2>7. QED
    BY <2>4, <2>6
<1>100. QED
  BY <1>1, <1>2, <1>3, <1>4, <1>6, <1>7, <1>8, <1>27, <1>28, <1>42, <1>43, <1>44, <1>45

\* The unroller of a transform of words serves.
LEMMA Input16Serves ==
  ASSUME NEW f, IsFormat(f), cmsGetFormatter(f, "input", FALSE) # None
  PROVE  Serves(cmsGetFormatter(f, "input", FALSE), f) /\ f.channels > 0
<1>1. f.channels > 0
  <2>1. f.channels # 0
    BY DEF cmsGetFormatter
  <2>2. QED
    BY <2>1, FormatType
<1>2. cmsGetFormatter(f, "input", FALSE) = Lookup(InputFormatters16, f)
  BY DEF cmsGetFormatter, cmsGetStockInputFormatter
<1>3. DOMAIN InputFormatters16 = 1 .. 45
  BY DEF InputFormatters16
<1>4. PICK r \in 1 .. 45 : /\ Fits(f, InputFormatters16[r])
                           /\ Lookup(InputFormatters16, f) = InputFormatters16[r].frm
                           /\ \A q \in 1 .. 45 : q < r => ~Fits(f, InputFormatters16[q])
  BY <1>2, <1>3, LookupIs
<1>5. ASSUME f \in LabV2Formats
      PROVE  r < 17
  <2>1. /\ InputFormatters16[14] = Row(Fmt("LabV2", 3, 0, 1, {}), {}, "UnrollLabV2_8")
        /\ InputFormatters16[15] = Row(Fmt("LabV2", 3, 1, 1, {"first"}), {}, "UnrollALabV2_8")
        /\ InputFormatters16[16] = Row(Fmt("LabV2", 3, 0, 2, {}), {}, "UnrollLabV2_16")
    BY DEF InputFormatters16
  <2>2. \E q \in 14 .. 16 : Fits(f, InputFormatters16[q])
    BY <1>5, <2>1, LabRows
  <2>3. QED
    BY <1>4, <2>2
<1>6. r = 45 => ~Fits(f, InputFormatters16[43])
  BY <1>4
<1>7. r \in {5} \cup 9 .. 26 \cup 29 .. 41 \/ r \in 1 .. 4 \cup 6 .. 8 \cup {27, 28} \cup 42 .. 45
  OBVIOUS
<1>8. Serves(InputFormatters16[r].frm, f)
  BY <1>1, <1>4, <1>5, <1>6, <1>7, Input16Fixed, Input16Open
<1>9. QED
  BY <1>1, <1>2, <1>4, <1>8

\* The rows of floats.
LEMMA InputFloatRows ==
  ASSUME NEW f, IsFormat(f), f.channels > 0, NEW r \in 1 .. 12, Fits(f, InputFormattersFloat[r]),
         f \in LabV2Formats => r < 10
  PROVE  Serves(InputFormattersFloat[r].frm, f)
<1> DEFINE b == BytesPerPlane(f)
<1>1. CASE r = 1
  <2>1. InputFormattersFloat[1] = Row(Fmt("Lab", 3, 0, 0, {"float"}), AnyTriple, "UnrollLabDoubleToFloat")
    BY DEF InputFormattersFloat
  <2>2. Unroll("UnrollLabDoubleToFloat", f, b) = Triple(f, 8, (b \div 8) * 8, Plain)
    BY ReckonedUnroll DEF UnrollLabDoubleToFloat
  <2>3. QED
    BY <1>1, <2>1, <2>2, TripleServes DEF Fmt
<1>2. CASE r = 2
  <2>1. InputFormattersFloat[2] = Row(Fmt("Lab", 3, 0, 4, {"float"}), AnyTriple, "UnrollLabFloatToFloat")
    BY DEF InputFormattersFloat
  <2>2. Unroll("UnrollLabFloatToFloat", f, b) = Triple(f, 4, (b \div 4) * 4, Plain)
    BY ReckonedUnroll DEF UnrollLabFloatToFloat
  <2>3. QED
    BY <1>2, <2>1, <2>2, TripleServes DEF Fmt
<1>3. CASE r = 3
  <2>1. InputFormattersFloat[3] = Row(Fmt("XYZ", 3, 0, 0, {"float"}), AnyTriple, "UnrollXYZDoubleToFloat")
    BY DEF InputFormattersFloat
  <2>2. Unroll("UnrollXYZDoubleToFloat", f, b) = Triple(f, 8, (b \div 8) * 8, Plain)
    BY ReckonedUnroll DEF UnrollXYZDoubleToFloat
  <2>3. QED
    BY <1>3, <2>1, <2>2, TripleServes DEF Fmt
<1>4. CASE r = 4
  <2>1. InputFormattersFloat[4] = Row(Fmt("XYZ", 3, 0, 4, {"float"}), AnyTriple, "UnrollXYZFloatToFloat")
    BY DEF InputFormattersFloat
  <2>2. Unroll("UnrollXYZFloatToFloat", f, b) = Triple(f, 4, (b \div 4) * 4, Plain)
    BY ReckonedUnroll DEF UnrollXYZFloatToFloat
  <2>3. QED
    BY <1>4, <2>1, <2>2, TripleServes DEF Fmt
<1>5. CASE r = 5
  <2>1. InputFormattersFloat[5] = Row(Fmt("any", 0, 0, 4, {"float"}), AnyColours \cup {"planar", "first", "premul"}, "UnrollFloatsToFloat")
    BY DEF InputFormattersFloat
  <2>2. /\ f.bytes = 4 /\ InputFormattersFloat[r].frm = "UnrollFloatsToFloat"
    BY <1>5, <2>1, OpenRow DEF AnyColours, AnyTriple, Is
  <2>3. Unroll("UnrollFloatsToFloat", f, b).adv \in Nat
    BY ReckonedUnroll, MisreadersMove
  <2>4. ~Is("planar", f) /\ ~Overreads("UnrollFloatsToFloat", f) => Stays(Unroll("UnrollFloatsToFloat", f, b), f)
    BY <2>2, ReckonedUnroll, MisreadersStay
  <2>5. QED
    BY <2>2, <2>3, <2>4, MisreadServes DEF Misreads
<1>6. CASE r = 6
  <2>1. InputFormattersFloat[6] = Row(Fmt("any", 0, 0, 0, {"float"}), AnyColours \cup {"planar", "first", "premul"}, "UnrollDoublesToFloat")
    BY DEF InputFormattersFloat
  <2>2. /\ f.bytes = 0 /\ InputFormattersFloat[r].frm = "UnrollDoublesToFloat"
        /\ "optimized" \notin f.flags /\ "float" \in f.flags
    BY <1>6, <2>1, OpenRow DEF AnyColours, Is, Premultiplied, SwappedFirst
  <2>3. ReadsRight(Unroll("UnrollDoublesToFloat", f, b), f)
    BY <2>2, AsSample, ReckonedUnroll, LabFields, DoublesToFloat
  <2>4. QED
    BY <2>2, <2>3, RightServes
<1>7. CASE r = 7
  <2>1. InputFormattersFloat[7] = Row(Fmt("LabV2", 3, 0, 1, {}), {}, "UnrollLabV2_8ToFloat")
    BY DEF InputFormattersFloat
  <2>2. "UnrollLabV2_8ToFloat" \in DOMAIN LabV2ToFloat /\ LabV2ToFloat["UnrollLabV2_8ToFloat"] = Reads(1, <<0, 1, 2>>, 3, LabV2)
    BY DEF LabV2ToFloat
  <2>3. Unroll("UnrollLabV2_8ToFloat", f, b) = Reads(1, <<0, 1, 2>>, 3, Taking("labV2", {}))
    BY <2>2, LabUnroll DEF LabV2
  <2>4. Ordered(<<0, 1, 2>>, 3, 0, {})
    BY DEF Ordered, Spot
  <2>5. f \in LabV2Formats
    BY <1>7, <2>1, RowFits DEF LabV2Formats, IsFormat
  <2>6. QED
    BY <1>7, <2>1, <2>3, <2>4, <2>5, FixedRow
<1>8. CASE r = 8
  <2>1. InputFormattersFloat[8] = Row(Fmt("LabV2", 3, 1, 1, {"first"}), {}, "UnrollALabV2_8ToFloat")
    BY DEF InputFormattersFloat
  <2>2. "UnrollALabV2_8ToFloat" \in DOMAIN LabV2ToFloat /\ LabV2ToFloat["UnrollALabV2_8ToFloat"] = Reads(1, <<1, 2, 3>>, 4, LabV2)
    BY DEF LabV2ToFloat
  <2>3. Unroll("UnrollALabV2_8ToFloat", f, b) = Reads(1, <<1, 2, 3>>, 4, Taking("labV2", {}))
    BY <2>2, LabUnroll DEF LabV2
  <2>4. Ordered(<<1, 2, 3>>, 3, 1, {"first"})
    BY DEF Ordered, Spot
  <2>5. f \in LabV2Formats
    BY <1>8, <2>1, RowFits DEF LabV2Formats, IsFormat
  <2>6. QED
    BY <1>8, <2>1, <2>3, <2>4, <2>5, FixedRow
<1>9. CASE r = 9
  <2>1. InputFormattersFloat[9] = Row(Fmt("LabV2", 3, 0, 2, {}), {}, "UnrollLabV2_16ToFloat")
    BY DEF InputFormattersFloat
  <2>2. "UnrollLabV2_16ToFloat" \in DOMAIN LabV2ToFloat /\ LabV2ToFloat["UnrollLabV2_16ToFloat"] = Reads(2, <<0, 1, 2>>, 3, LabV2)
    BY DEF LabV2ToFloat
  <2>3. Unroll("UnrollLabV2_16ToFloat", f, b) = Reads(2, <<0, 1, 2>>, 3, Taking("labV2", {}))
    BY <2>2, LabUnroll DEF LabV2
  <2>4. Ordered(<<0, 1, 2>>, 3, 0, {})
    BY DEF Ordered, Spot
  <2>5. f \in LabV2Formats
    BY <1>9, <2>1, RowFits DEF LabV2Formats, IsFormat
  <2>6. QED
    BY <1>9, <2>1, <2>3, <2>4, <2>5, FixedRow
<1>10. CASE r = 10
  <2>1. InputFormattersFloat[10] = Row(Fmt("any", 0, 0, 1, {}), AnyColours \cup {"planar", "first"}, "Unroll8ToFloat")
    BY DEF InputFormattersFloat
  <2>2. /\ f.bytes = 1 /\ InputFormattersFloat[r].frm = "Unroll8ToFloat"
        /\ "optimized" \notin f.flags /\ ~Premultiplied(f) /\ r >= 10
    BY <1>10, <2>1, OpenRow DEF AnyColours, Is, Premultiplied, SwappedFirst
  <2>3. ReadsRight(Unroll("Unroll8ToFloat", f, b), f)
    BY <2>2, AsSample, ReckonedUnroll, BytesToFloat
  <2>4. QED
    BY <2>2, <2>3, RightServes
<1>11. CASE r = 11
  <2>1. InputFormattersFloat[11] = Row(Fmt("any", 0, 0, 2, {}), AnyColours \cup {"planar", "first"}, "Unroll16ToFloat")
    BY DEF InputFormattersFloat
  <2>2. /\ f.bytes = 2 /\ InputFormattersFloat[r].frm = "Unroll16ToFloat"
        /\ "optimized" \notin f.flags /\ ~Premultiplied(f) /\ r >= 10
    BY <1>11, <2>1, OpenRow DEF AnyColours, Is, Premultiplied, SwappedFirst
  <2>3. /\ Unroll("Unroll16ToFloat", f, b).adv \in Nat
        /\ ~Is("planar", f) => ReadsRight(Unroll("Unroll16ToFloat", f, b), f)
    BY <2>2, AsSample, ReckonedUnroll, WordsToFloat
  <2>4. CASE Is("planar", f)
    BY <2>2, <2>3, <2>4, MisreadServes DEF Misreads
  <2>5. CASE ~Is("planar", f)
    BY <2>2, <2>3, <2>5, RightServes
  <2>6. QED
    BY <2>4, <2>5
<1>12. CASE r = 12
  <2>1. InputFormattersFloat[12] = Row(Fmt("any", 0, 0, 2, {"float"}), AnyColours \cup {"planar", "first"}, "UnrollHalfToFloat")
    BY DEF InputFormattersFloat
  <2>2. /\ f.bytes = 2 /\ InputFormattersFloat[r].frm = "UnrollHalfToFloat"
        /\ "optimized" \notin f.flags /\ "float" \in f.flags /\ ~Premultiplied(f)
    BY <1>12, <2>1, OpenRow DEF AnyColours, Is, Premultiplied, SwappedFirst
  <2>3. ReadsRight(Unroll("UnrollHalfToFloat", f, b), f)
    BY <2>2, AsSample, ReckonedUnroll, LabFields, HalfsRight
  <2>4. QED
    BY <2>2, <2>3, RightServes
<1>100. QED
  BY <1>1, <1>2, <1>3, <1>4, <1>5, <1>6, <1>7, <1>8, <1>9, <1>10, <1>11, <1>12

\* The unroller of a transform of floats serves.
LEMMA InputFloatServes ==
  ASSUME NEW f, IsFormat(f), cmsGetFormatter(f, "input", TRUE) # None
  PROVE  Serves(cmsGetFormatter(f, "input", TRUE), f) /\ f.channels > 0
<1>1. f.channels > 0
  <2>1. f.channels # 0
    BY DEF cmsGetFormatter
  <2>2. QED
    BY <2>1, FormatType
<1>2. cmsGetFormatter(f, "input", TRUE) = Lookup(InputFormattersFloat, f)
  BY DEF cmsGetFormatter, cmsGetStockInputFormatter
<1>3. DOMAIN InputFormattersFloat = 1 .. 12
  BY DEF InputFormattersFloat
<1>4. PICK r \in 1 .. 12 : /\ Fits(f, InputFormattersFloat[r])
                           /\ Lookup(InputFormattersFloat, f) = InputFormattersFloat[r].frm
                           /\ \A q \in 1 .. 12 : q < r => ~Fits(f, InputFormattersFloat[q])
  BY <1>2, <1>3, LookupIs
<1>5. ASSUME f \in LabV2Formats
      PROVE  r < 10
  <2>1. /\ InputFormattersFloat[7] = Row(Fmt("LabV2", 3, 0, 1, {}), {}, "UnrollLabV2_8ToFloat")
        /\ InputFormattersFloat[8] = Row(Fmt("LabV2", 3, 1, 1, {"first"}), {}, "UnrollALabV2_8ToFloat")
        /\ InputFormattersFloat[9] = Row(Fmt("LabV2", 3, 0, 2, {}), {}, "UnrollLabV2_16ToFloat")
    BY DEF InputFormattersFloat
  <2>2. \E q \in 7 .. 9 : Fits(f, InputFormattersFloat[q])
    BY <1>5, <2>1, LabRows
  <2>3. QED
    BY <1>4, <2>2
<1>6. Serves(InputFormattersFloat[r].frm, f)
  BY <1>1, <1>4, <1>5, InputFloatRows
<1>7. QED
  BY <1>1, <1>2, <1>4, <1>6

----------------------------------------------------------------------------
(* From the first pixel to the others.                                     *)

\* Sample l of pixel k is that of the first pixel, moved by k pixels,
LEMMA SampleSteps ==
  ASSUME NEW f, IsFormat(f), NEW k \in Nat, NEW l, PlaceOf(f, l) \in Int
  PROVE  SampleOf(f, k, l) = SampleOf(f, 0, l) + k * Advance(f)
<1> DEFINE s == PixelSize(f)
           n == Samples(f)
           p == PlaceOf(f, l)
<1>1. s \in Int /\ n \in Int /\ p \in Int /\ Pixels \in Int
  BY FormatType
<1>2. /\ SampleOf(f, k, l) = s * (IF Is("planar", f) THEN p * Pixels + k ELSE k * n + p)
      /\ SampleOf(f, 0, l) = s * (IF Is("planar", f) THEN p * Pixels + 0 ELSE 0 * n + p)
      /\ Advance(f) = IF Is("planar", f) THEN s ELSE s * n
  BY DEF SampleOf, Advance
<1> HIDE DEF s, n, p
<1>3. s * (p * Pixels + k) = s * (p * Pixels + 0) + k * s
  BY <1>1
<1>4. s * (k * n + p) = s * (0 * n + p) + k * (s * n)
  BY <1>1
<1>5. QED
  BY <1>2, <1>3, <1>4

\* as the extra sample is that it was multiplied with,
LEMMA AlphaSteps ==
  ASSUME NEW f, IsFormat(f), f.channels > 0, NEW k \in Nat
  PROVE  AlphaOf(f, k) = Placed(AlphaOf(f, 0), k * Advance(f))
<1>1. ASSUME Premultiplied(f)
      PROVE  SampleOf(f, k, Extra) = SampleOf(f, 0, Extra) + k * Advance(f)
  <2>1. PlaceOf(f, Extra) \in Int
    BY <1>1, PlaceOfExtra, FormatType DEF Premultiplied
  <2>2. QED
    BY <2>1, SampleSteps
<1>2. CASE Premultiplied(f)
  BY <1>1, <1>2 DEF AlphaOf, Placed
<1>3. CASE ~Premultiplied(f)
  BY <1>3 DEF AlphaOf, Placed
<1>4. QED
  BY <1>2, <1>3

\* and so is what is to be read there.
LEMMA ProperSteps ==
  ASSUME NEW f, IsFormat(f), NEW k \in Nat, NEW l \in 0 .. f.channels - 1
  PROVE  LaneAt(Proper(f, 0, l), k * Advance(f)) = Proper(f, k, l)
<1>1. f.channels > 0 /\ PlaceOf(f, l) \in Int
  BY PlaceOfLane, FormatType
<1>2. SampleOf(f, k, l) = SampleOf(f, 0, l) + k * Advance(f)
  BY <1>1, SampleSteps
<1>3. AlphaOf(f, k) = Placed(AlphaOf(f, 0), k * Advance(f))
  BY <1>1, AlphaSteps
<1>4. QED
  BY <1>2, <1>3 DEF LaneAt, Proper

----------------------------------------------------------------------------
(* The inductive invariant.                                                *)

\* The formatters are those of the formats, unless a transform of floats was
\* given others.
Looked ==
  /\ created \in Pairs /\ IsFormat(inFmt) /\ IsFormat(outFmt)
  /\ phase = "new" => formats = created /\ ~float
  /\ phase \in {"ready", "running", "done", "panicked"} =>
       IF float THEN /\ fromInputFloat # None /\ toOutputFloat # None
                     /\ fromInputFloat = cmsGetFormatter(created[1], "input", TRUE)
                     /\ toOutputFloat = cmsGetFormatter(created[2], "output", TRUE)
       ELSE /\ fromInput # None /\ toOutput # None
            /\ fromInput = cmsGetFormatter(inFmt, "input", FALSE)
            /\ toOutput = cmsGetFormatter(outFmt, "output", FALSE)

\* The lanes of the pixel whose slice starts at x.
LanesAt(x) == [l \in DOMAIN unroll.lanes |-> LaneAt(unroll.lanes[l], x)]

\* Every slice starts as far behind the one before as the unroller has moved.
InStep ==
  /\ phase \in {"new", "ready", "refused"} => read = <<>> /\ accum = 0
  /\ phase \in {"running", "done", "panicked"} /\ ~Outdated =>
       /\ read \in Seq({ LanesAt(x) : x \in Int })
       /\ Len(read) <= Pixels
       /\ accum = Len(read) * unroll.adv
       /\ \A k \in 1 .. Len(read) : read[k] = LanesAt((k - 1) * unroll.adv)

Phases == { "new", "ready", "running", "done", "refused", "panicked" }
LanesInv == phase \in Phases /\ Looked /\ InStep

\* The unroller that was looked up serves the format it was looked up for.
LEMMA UnrollerServes ==
  ASSUME Looked, ~Outdated, phase \in {"ready", "running", "done", "panicked"}
  PROVE  Serves(unroller, inFmt)
<1>1. CASE float
  <2>1. created = <<created[1], created[2]>>
    BY FormattedTransformAssumption DEF Looked
  <2>2. created[1] = inFmt
    BY <1>1, <2>1 DEF Outdated, formats
  <2>3. unroller = cmsGetFormatter(inFmt, "input", TRUE) /\ unroller # None
    BY <1>1, <2>2 DEF Looked, unroller
  <2>4. QED
    BY <2>3, InputFloatServes DEF Looked
<1>2. CASE ~float
  <2>1. unroller = cmsGetFormatter(inFmt, "input", FALSE) /\ unroller # None
    BY <1>2 DEF Looked, unroller
  <2>2. QED
    BY <2>1, Input16Serves DEF Looked
<1>3. QED
  BY <1>1, <1>2

\* The invariant says what it is for,
LEMMA LanesFromInv == ASSUME LanesInv PROVE LanesAreTheSamples
<1> SUFFICES ASSUME ~Outdated, NEW k \in DOMAIN read, NEW l \in 0 .. inFmt.channels - 1,
                    ~Misreads(unroller, inFmt, k)
             PROVE  read[k][l] = Proper(inFmt, k - 1, l)
  BY DEF LanesAreTheSamples
<1>1. phase \in {"running", "done", "panicked"}
  BY DEF LanesInv, InStep, Phases
<1> DEFINE adv == unroll.adv
           x == (k - 1) * adv
<1>2. k \in 1 .. Pixels /\ read[k] = LanesAt(x)
  BY <1>1, FormattedTransformAssumption DEF LanesInv, InStep
<1>3. Serves(unroller, inFmt) /\ IsFormat(inFmt)
  BY <1>1, UnrollerServes DEF LanesInv, Looked
<1>4. adv \in Int /\ ReadsFirst(unroll, inFmt) /\ (k > 1 => adv = Advance(inFmt))
  <2>1. k - 1 \in 0 .. Pixels - 1 /\ (k - 1) + 1 = k
    BY <1>2, FormattedTransformAssumption
  <2>2. QED
    BY <1>3, <2>1 DEF Serves, unroll
<1> HIDE DEF adv
<1>5. x = (k - 1) * Advance(inFmt)
  BY <1>2, <1>3, <1>4, AdvanceType
<1> HIDE DEF x
<1>6. l \in DOMAIN unroll.lanes /\ unroll.lanes[l] = Proper(inFmt, 0, l)
  BY <1>4 DEF ReadsFirst
<1>7. read[k][l] = LaneAt(Proper(inFmt, 0, l), x)
  BY <1>2, <1>6 DEF LanesAt
<1>8. k - 1 \in Nat
  BY <1>2
<1>9. QED
  BY <1>3, <1>5, <1>7, <1>8, ProperSteps

\* holds at first,
LEMMA LanesInit == Init => LanesInv
<1> SUFFICES ASSUME Init PROVE LanesInv
  OBVIOUS
<1>1. PICK pair \in Pairs : created = pair /\ inFmt = pair[1] /\ outFmt = pair[2]
  BY DEF Init
<1>2. pair = <<pair[1], pair[2]>> /\ IsFormat(pair[1]) /\ IsFormat(pair[2])
  BY FormattedTransformAssumption
<1>3. Looked
  BY <1>1, <1>2 DEF Init, Looked, formats
<1>4. InStep
  BY DEF Init, InStep
<1>5. QED
  BY <1>3, <1>4 DEF LanesInv, Phases, Init

\* and after every step.
LEMMA LanesStep == LanesInv /\ [Next]_vars => LanesInv'
<1> SUFFICES ASSUME LanesInv, [Next]_vars PROVE LanesInv'
  OBVIOUS
<1> USE DEF LanesInv, Phases
<1>1. CASE AllocFloat
  <2>1. Looked'
    <3>1. /\ created' = created /\ inFmt' = inFmt /\ outFmt' = outFmt
          /\ inFmt = created[1] /\ outFmt = created[2]
      BY <1>1 DEF AllocFloat, Looked, formats
    <3>2. /\ fromInputFloat' = cmsGetFormatter(created[1], "input", TRUE) /\ float'
          /\ toOutputFloat' = cmsGetFormatter(created[2], "output", TRUE)
          /\ phase' \in {"refused", "ready"}
          /\ phase' = "ready" => fromInputFloat' # None /\ toOutputFloat' # None
      BY <1>1, <3>1 DEF AllocFloat
    <3>3. QED
      BY <3>1, <3>2 DEF Looked
  <2>2. InStep'
    BY <1>1 DEF AllocFloat, InStep, buffers
  <2>3. QED
    BY <1>1, <2>1, <2>2 DEF AllocFloat
<1>2. CASE Alloc16
  <2>1. Looked'
    BY <1>2 DEF Alloc16, Looked, formats
  <2>2. InStep'
    BY <1>2 DEF Alloc16, InStep, buffers
  <2>3. QED
    BY <1>2, <2>1, <2>2 DEF Alloc16
<1>3. CASE cmsChangeBuffersFormat
  <2>1. Looked'
    <3>1. PICK pair \in Changes :
             /\ cmsGetFormatter(pair[1], "input", FALSE) # None
             /\ cmsGetFormatter(pair[2], "output", FALSE) # None
             /\ inFmt' = pair[1] /\ outFmt' = pair[2]
             /\ fromInput' = cmsGetFormatter(pair[1], "input", FALSE)
             /\ toOutput' = cmsGetFormatter(pair[2], "output", FALSE)
      BY <1>3 DEF cmsChangeBuffersFormat
    <3>2. IsFormat(inFmt') /\ IsFormat(outFmt')
      BY <3>1, FormattedTransformAssumption
    <3>3. phase = "ready" /\ UNCHANGED <<created, float, fromInputFloat, toOutputFloat, phase>>
      BY <1>3 DEF cmsChangeBuffersFormat
    <3>4. QED
      BY <3>1, <3>2, <3>3 DEF Looked
  <2>2. InStep'
    BY <1>3 DEF cmsChangeBuffersFormat, InStep, buffers
  <2>3. QED
    BY <1>3, <2>1, <2>2 DEF cmsChangeBuffersFormat
<1>4. CASE CmsDoTransform
  <2>1. Looked'
    BY <1>4 DEF CmsDoTransform, Looked, formats, formatters
  <2>2. InStep'
    <3>1. phase = "ready" /\ phase' = "running" /\ read' = <<>> /\ accum' = 0
      BY <1>4 DEF CmsDoTransform, InStep
    <3>2. UNCHANGED <<created, formats, formatters>>
      BY <1>4 DEF CmsDoTransform
    <3>3. ASSUME ~Outdated'
          PROVE  unroll'.adv \in Int
      <4>1. ~Outdated
        BY <3>2, <3>3 DEF Outdated, formatters
      <4>2. Serves(unroller, inFmt)
        BY <3>1, <4>1, UnrollerServes
      <4>3. unroll' = unroll
        BY <3>2 DEF unroll, unroller, formats, formatters
      <4>4. QED
        BY <4>2, <4>3 DEF Serves, unroll
    <3>4. QED
      BY <3>1, <3>3, FormattedTransformAssumption DEF InStep
  <2>3. QED
    BY <1>4, <2>1, <2>2 DEF CmsDoTransform
<1>5. CASE Pixel
  <2>1. Looked'
    BY <1>5 DEF Pixel, Looked, formats, formatters
  <2>2. InStep'
    <3>1. /\ phase = "running" /\ phase' = "running" /\ Len(read) < Pixels
          /\ read' = Append(read, LanesAt(accum)) /\ accum' = accum + unroll.adv
          /\ UNCHANGED <<created, formats, formatters>>
      BY <1>5 DEF Pixel, LanesAt
    <3>2. unroll' = unroll /\ (Outdated' <=> Outdated) /\ \A x : LanesAt(x)' = LanesAt(x)
      BY <3>1 DEF unroll, unroller, Outdated, formats, formatters, LanesAt
    <3> SUFFICES ASSUME ~Outdated
                 PROVE  /\ read' \in Seq({ LanesAt(x)' : x \in Int })
                        /\ Len(read') <= Pixels
                        /\ accum' = Len(read') * unroll'.adv
                        /\ \A k \in 1 .. Len(read') : read'[k] = LanesAt((k - 1) * unroll.adv)'
      BY <3>1, <3>2 DEF InStep
    <3> DEFINE adv == unroll.adv
               n == Len(read)
    <3>3. /\ read \in Seq({ LanesAt(x) : x \in Int }) /\ n \in Nat
          /\ accum = n * adv
          /\ \A k \in 1 .. n : read[k] = LanesAt((k - 1) * adv)
      BY <3>1 DEF InStep
    <3>4. adv \in Int
      BY <3>1, UnrollerServes DEF Serves, unroll
    <3> HIDE DEF adv
    <3>5. accum \in Int
      BY <3>3, <3>4
    <3>6. LanesAt(accum) \in { LanesAt(x) : x \in Int }
      BY <3>5
    <3>7. /\ read' \in Seq({ LanesAt(x) : x \in Int }) /\ Len(read') = n + 1
          /\ \A k \in 1 .. n : read'[k] = read[k]
          /\ read'[n + 1] = LanesAt(accum)
      BY <3>1, <3>3, <3>6, AppendProperties
    <3>8. accum' = (n + 1) * adv
      <4>1. accum' = accum + adv
        BY <3>1 DEF adv
      <4>2. n * adv + adv = (n + 1) * adv
        BY <3>3, <3>4
      <4>3. QED
        BY <3>3, <4>1, <4>2
    <3>9. \A k \in 1 .. n + 1 : read'[k] = LanesAt((k - 1) * adv)
      <4>1. (n + 1) - 1 = n
        BY <3>3
      <4>2. read'[n + 1] = LanesAt(((n + 1) - 1) * adv)
        BY <3>3, <3>7, <4>1
      <4>3. \A k \in 1 .. n + 1 : k \in 1 .. n \/ k = n + 1
        BY <3>3
      <4>4. QED
        BY <3>3, <3>7, <4>2, <4>3
    <3>10. Len(read') <= Pixels
      BY <3>1, <3>3, <3>7, FormattedTransformAssumption
    <3>11. unroll'.adv = adv
      BY <3>2 DEF adv
    <3>12. \A k \in 1 .. n + 1 : read'[k] = LanesAt((k - 1) * unroll.adv)'
      BY <3>2, <3>9, <3>11
    <3>13. { LanesAt(x)' : x \in Int } = { LanesAt(x) : x \in Int }
      BY <3>2
    <3> HIDE DEF n
    <3>14. QED
      BY <3>7, <3>8, <3>10, <3>11, <3>12, <3>13
  <2>3. QED
    BY <1>5, <2>1, <2>2 DEF Pixel
<1>6. CASE Panic
  <2>1. Looked'
    BY <1>6 DEF Panic, Looked, formats, formatters
  <2>2. InStep'
    <3>1. unroll' = unroll /\ (Outdated' <=> Outdated) /\ \A x : LanesAt(x)' = LanesAt(x)
      BY <1>6 DEF Panic, unroll, unroller, Outdated, formats, formatters, LanesAt
    <3>2. QED
      BY <1>6, <3>1 DEF Panic, InStep, buffers
  <2>3. QED
    BY <1>6, <2>1, <2>2 DEF Panic
<1>7. CASE Finish
  <2>1. Looked'
    BY <1>7 DEF Finish, Looked, formats, formatters
  <2>2. InStep'
    <3>1. unroll' = unroll /\ (Outdated' <=> Outdated) /\ \A x : LanesAt(x)' = LanesAt(x)
      BY <1>7 DEF Finish, unroll, unroller, Outdated, formats, formatters, LanesAt
    <3>2. QED
      BY <1>7, <3>1 DEF Finish, InStep, buffers
  <2>3. QED
    BY <1>7, <2>1, <2>2 DEF Finish
<1>8. CASE UNCHANGED vars
  <2>1. Looked'
    BY <1>8 DEF vars, Looked, formats, formatters
  <2>2. InStep'
    <3>1. unroll' = unroll /\ (Outdated' <=> Outdated) /\ \A x : LanesAt(x)' = LanesAt(x)
      BY <1>8 DEF vars, unroll, unroller, Outdated, formats, formatters, LanesAt
    <3>2. QED
      BY <1>8, <3>1 DEF vars, InStep, buffers
  <2>3. QED
    BY <1>8, <2>1, <2>2 DEF vars
<1>9. QED
  BY <1>1, <1>2, <1>3, <1>4, <1>5, <1>6, <1>7, <1>8 DEF Next

\* Whatever formats there are and however long the row is, every lane is taken
\* from its own sample of its own pixel, but where README.md says otherwise.
THEOREM LanesAreTheSamplesAlways == Spec => []LanesAreTheSamples
<1>1. LanesInv => LanesAreTheSamples
  BY LanesFromInv
<1>2. QED
  BY <1>1, LanesInit, LanesStep, PTL DEF Spec

----------------------------------------------------------------------------
(* The same of the packers.                                                *)

\* The packers that work out where they store.
ReckonedPackers ==
  { "PackChunkyBytes", "PackChunkyWords", "PackPlanarBytes",
    "PackPlanarWords", "PackDoubleFrom16", "PackFloatFrom16",
    "PackFloatsFromFloat", "PackDoublesFromFloat", "PackHalfFrom16",
    "PackHalfFromFloat", "PackLabDoubleFrom16", "PackLabFloatFrom16",
    "PackXYZDoubleFrom16", "PackXYZFloatFrom16", "PackLabFloatFromFloat",
    "PackLabDoubleFromFloat", "PackXYZFloatFromFloat", "PackXYZDoubleFromFloat" }

\* The tables of packers, one by one: bytes,
LEMMA BytePack ==
  ASSUME NEW frm \in DOMAIN BytePackers, NEW f, NEW stride
  PROVE  Pack(frm, f, stride) = BytePackers[frm]
<1>1. /\ frm \notin DOMAIN ThreeBytePackers
      /\ frm \notin DOMAIN LabV2Packers
      /\ frm \notin DOMAIN WordPackers
      /\ frm \notin DOMAIN ThreeWordPackers
      /\ frm \notin DOMAIN GrayPackers
  BY DEF BytePackers, ThreeBytePackers, LabV2Packers, WordPackers, ThreeWordPackers, GrayPackers
<1>2. frm \notin ReckonedPackers
  BY DEF BytePackers, ReckonedPackers
<1>3. QED
  BY <1>1, <1>2 DEF Pack, ReckonedPackers

\* three bytes of four,
LEMMA ThreeBytePack ==
  ASSUME NEW frm \in DOMAIN ThreeBytePackers, NEW f, NEW stride
  PROVE  Pack(frm, f, stride) = ThreeBytePackers[frm]
<1>1. /\ frm \notin DOMAIN BytePackers
      /\ frm \notin DOMAIN LabV2Packers
      /\ frm \notin DOMAIN WordPackers
      /\ frm \notin DOMAIN ThreeWordPackers
      /\ frm \notin DOMAIN GrayPackers
  BY DEF BytePackers, ThreeBytePackers, LabV2Packers, WordPackers, ThreeWordPackers, GrayPackers
<1>2. frm \notin ReckonedPackers
  BY DEF ThreeBytePackers, ReckonedPackers
<1>3. QED
  BY <1>1, <1>2 DEF Pack, ReckonedPackers

\* Lab version 2,
LEMMA LabPack ==
  ASSUME NEW frm \in DOMAIN LabV2Packers, NEW f, NEW stride
  PROVE  Pack(frm, f, stride) = LabV2Packers[frm]
<1>1. /\ frm \notin DOMAIN BytePackers
      /\ frm \notin DOMAIN ThreeBytePackers
      /\ frm \notin DOMAIN WordPackers
      /\ frm \notin DOMAIN ThreeWordPackers
      /\ frm \notin DOMAIN GrayPackers
  BY DEF BytePackers, ThreeBytePackers, LabV2Packers, WordPackers, ThreeWordPackers, GrayPackers
<1>2. frm \notin ReckonedPackers
  BY DEF LabV2Packers, ReckonedPackers
<1>3. QED
  BY <1>1, <1>2 DEF Pack, ReckonedPackers

\* words,
LEMMA WordPack ==
  ASSUME NEW frm \in DOMAIN WordPackers, NEW f, NEW stride
  PROVE  Pack(frm, f, stride) = WordPackers[frm]
<1>1. /\ frm \notin DOMAIN BytePackers
      /\ frm \notin DOMAIN ThreeBytePackers
      /\ frm \notin DOMAIN LabV2Packers
      /\ frm \notin DOMAIN ThreeWordPackers
      /\ frm \notin DOMAIN GrayPackers
  BY DEF BytePackers, ThreeBytePackers, LabV2Packers, WordPackers, ThreeWordPackers, GrayPackers
<1>2. frm \notin ReckonedPackers
  BY DEF WordPackers, ReckonedPackers
<1>3. QED
  BY <1>1, <1>2 DEF Pack, ReckonedPackers

\* three words of four,
LEMMA ThreeWordPack ==
  ASSUME NEW frm \in DOMAIN ThreeWordPackers, NEW f, NEW stride
  PROVE  Pack(frm, f, stride) = ThreeWordPackers[frm]
<1>1. /\ frm \notin DOMAIN BytePackers
      /\ frm \notin DOMAIN ThreeBytePackers
      /\ frm \notin DOMAIN LabV2Packers
      /\ frm \notin DOMAIN WordPackers
      /\ frm \notin DOMAIN GrayPackers
  BY DEF BytePackers, ThreeBytePackers, LabV2Packers, WordPackers, ThreeWordPackers, GrayPackers
<1>2. frm \notin ReckonedPackers
  BY DEF ThreeWordPackers, ReckonedPackers
<1>3. QED
  BY <1>1, <1>2 DEF Pack, ReckonedPackers

\* gray with more than one sample,
LEMMA GrayPack ==
  ASSUME NEW frm \in DOMAIN GrayPackers, NEW f, NEW stride
  PROVE  Pack(frm, f, stride) = GrayPackers[frm]
<1>1. /\ frm \notin DOMAIN BytePackers
      /\ frm \notin DOMAIN ThreeBytePackers
      /\ frm \notin DOMAIN LabV2Packers
      /\ frm \notin DOMAIN WordPackers
      /\ frm \notin DOMAIN ThreeWordPackers
  BY DEF BytePackers, ThreeBytePackers, LabV2Packers, WordPackers, ThreeWordPackers, GrayPackers
<1>2. frm \notin ReckonedPackers
  BY DEF GrayPackers, ReckonedPackers
<1>3. QED
  BY <1>1, <1>2 DEF Pack, ReckonedPackers

\* and the ones that work out where they store.
LEMMA ReckonedPack ==
  ASSUME NEW f, NEW stride
  PROVE  /\ Pack("PackChunkyBytes", f, stride) = PackChunkyBytes(f)
         /\ Pack("PackChunkyWords", f, stride) = PackChunkyWords(f)
         /\ Pack("PackPlanarBytes", f, stride) = PackPlanarBytes(f, stride)
         /\ Pack("PackPlanarWords", f, stride) = PackPlanarWords(f, stride)
         /\ Pack("PackDoubleFrom16", f, stride) = PackDoubleFrom16(f, stride)
         /\ Pack("PackFloatFrom16", f, stride) = PackFloatFrom16(f, stride)
         /\ Pack("PackFloatsFromFloat", f, stride) = PackFloatsFromFloat(f, stride)
         /\ Pack("PackDoublesFromFloat", f, stride) = PackDoublesFromFloat(f, stride)
         /\ Pack("PackHalfFrom16", f, stride) = PackHalfFrom16(f)
         /\ Pack("PackHalfFromFloat", f, stride) = PackHalfFromFloat(f)
         /\ Pack("PackLabDoubleFrom16", f, stride) = PackLabDoubleFrom16(f, stride)
         /\ Pack("PackLabFloatFrom16", f, stride) = PackLabFloatFrom16(f, stride)
         /\ Pack("PackXYZDoubleFrom16", f, stride) = PackXYZDoubleFrom16(f, stride)
         /\ Pack("PackXYZFloatFrom16", f, stride) = PackXYZFloatFrom16(f, stride)
         /\ Pack("PackLabFloatFromFloat", f, stride) = PackLabFloatFromFloat(f)
         /\ Pack("PackLabDoubleFromFloat", f, stride) = PackLabDoubleFromFloat(f)
         /\ Pack("PackXYZFloatFromFloat", f, stride) = PackXYZFloatFromFloat(f)
         /\ Pack("PackXYZDoubleFromFloat", f, stride) = PackXYZDoubleFromFloat(f)
<1>1. \A frm \in ReckonedPackers : frm \notin DOMAIN BytePackers
  BY DEF BytePackers, ReckonedPackers
<1>2. \A frm \in ReckonedPackers : frm \notin DOMAIN ThreeBytePackers
  BY DEF ThreeBytePackers, ReckonedPackers
<1>3. \A frm \in ReckonedPackers : frm \notin DOMAIN LabV2Packers
  BY DEF LabV2Packers, ReckonedPackers
<1>4. \A frm \in ReckonedPackers : frm \notin DOMAIN WordPackers
  BY DEF WordPackers, ReckonedPackers
<1>5. \A frm \in ReckonedPackers : frm \notin DOMAIN ThreeWordPackers
  BY DEF ThreeWordPackers, ReckonedPackers
<1>6. \A frm \in ReckonedPackers : frm \notin DOMAIN GrayPackers
  BY DEF GrayPackers, ReckonedPackers
<1>7. QED
  BY <1>1, <1>2, <1>3, <1>4, <1>5, <1>6 DEF Pack, ReckonedPackers

\* A tidy packer stores within its pixel and moves on by a pixel.
Within(o, f) ==
  IF Is("planar", f) THEN \E q \in Int : o = q * BytesPerPlane(f)
  ELSE \E m \in 0 .. Samples(f) - 1 : o = PixelSize(f) * m
Tidy(p, f) ==
  DOMAIN p.cells # {} => p.adv = Advance(f) /\ \A o \in DOMAIN p.cells : Within(o, f)

\* It stores every lane of the first pixel where it belongs.
Stores(p, f) ==
  \A l \in 0 .. f.channels - 1 :
    /\ SampleOf(f, 0, l) \in DOMAIN p.cells
    /\ p.cells[SampleOf(f, 0, l)] = Storing(l, Flagged(f, As(f)), AlphaOf(f, 0), {})

\* It asks for as much as it steps over, or says how long the rest is.
Sound(p) ==
  /\ p.adv \in Nat /\ p.needs \in Nat
  /\ p.keep \in Nat \/ (p.keep = All /\ p.adv <= p.needs)

\* It asks for no more than a pixel, and leaves no less if it stays there.
Modest(p, f) ==
  ~Is("planar", f) =>
    p.needs <= Advance(f) /\ (p.keep # All => p.adv = 0 /\ p.keep = Advance(f))

\* The packer frm does all of it, except where it is known not to.
Keeps(frm, f) ==
  LET p == Pack(frm, f, BytesPerPlane(f))
  IN  /\ ~Overlaps(frm, f) => Tidy(p, f)
      /\ ~Misplaces(frm, f) => Stores(p, f)
      /\ Sound(p) /\ Modest(p, f)

\* A packer that does all of this keeps to its format.
LEMMA AllKeep ==
  ASSUME NEW f, NEW frm, NEW p, p = Pack(frm, f, BytesPerPlane(f)),
         Tidy(p, f), Stores(p, f), Sound(p), Modest(p, f)
  PROVE  Keeps(frm, f)
  BY DEF Keeps

\* What a list of lanes stores.
LEMMA WritesIs ==
  ASSUME NEW size, size \in Nat \ {0}, NEW lanes, NEW n \in Nat, Len(lanes) = n, NEW how,
         NEW w, w = Writes(size, lanes, how)
  PROVE  /\ w.adv = size * n /\ w.needs = size * n /\ w.keep = All
         /\ \A o \in DOMAIN w.cells : \E m \in 0 .. n - 1 : o = size * m
         /\ \A m \in 0 .. n - 1 : lanes[m + 1] # Kept =>
              size * m \in DOMAIN w.cells /\ w.cells[size * m] = Cell(lanes[m + 1], how)
<1>1. /\ w.adv = size * n /\ w.needs = size * n /\ w.keep = All
      /\ w.cells = [o \in { size * p : p \in { q \in 0 .. n - 1 : lanes[q + 1] # Kept } } |->
                      Cell(lanes[o \div size + 1], how)]
  BY DEF Writes
<1>2. ASSUME NEW m \in 0 .. n - 1, lanes[m + 1] # Kept
      PROVE  size * m \in DOMAIN w.cells /\ w.cells[size * m] = Cell(lanes[m + 1], how)
  <2>1. (size * m) \div size = m
    OBVIOUS
  <2>2. size * m \in { size * p : p \in { q \in 0 .. n - 1 : lanes[q + 1] # Kept } }
    BY <1>2
  <2>3. QED
    BY <1>1, <2>1, <2>2
<1>3. QED
  BY <1>1, <1>2

\* Which sample holds which lane.
Arranged(lanes, c, e, F) ==
  /\ Len(lanes) = c + e
  /\ \A l \in 0 .. c - 1 : Spot(c, e, F, l) \in 0 .. c + e - 1 /\ lanes[Spot(c, e, F, l) + 1] = l

\* A list as long as a pixel is tidy and modest,
LEMMA FixedTidy ==
  ASSUME NEW f, IsFormat(f), ~Is("planar", f), NEW size, size = PixelSize(f),
         NEW lanes, Len(lanes) = f.channels + f.extra, NEW how
  PROVE  /\ Tidy(Writes(size, lanes, how), f)
         /\ Sound(Writes(size, lanes, how)) /\ Modest(Writes(size, lanes, how), f)
<1> DEFINE w == Writes(size, lanes, how)
           n == Samples(f)
<1>1. size \in Nat \ {0} /\ n \in Nat /\ Len(lanes) = n
  BY FormatType
<1> HIDE DEF n
<1>2. /\ w.adv = size * n /\ w.needs = size * n /\ w.keep = All
      /\ \A o \in DOMAIN w.cells : \E m \in 0 .. n - 1 : o = size * m
  BY <1>1, WritesIs
<1> HIDE DEF w
<1>3. Tidy(w, f)
  BY <1>2 DEF Tidy, Within, Advance, n
<1>4. size * n \in Nat /\ size * n <= size * n /\ Advance(f) = size * n
  BY <1>1 DEF Advance, n
<1>5. Sound(w) /\ Modest(w, f)
  BY <1>2, <1>4 DEF Sound, Modest
<1>6. QED
  BY <1>3, <1>5 DEF w

\* and stores its lanes if it has them in the order of memory.
LEMMA FixedStore ==
  ASSUME NEW f, IsFormat(f), ~Is("planar", f), ~Premultiplied(f), NEW size, size = PixelSize(f),
         NEW F, "swap" \in F <=> "swap" \in f.flags, "first" \in F <=> "first" \in f.flags,
         NEW lanes, Arranged(lanes, f.channels, f.extra, F), NEW how, how = Flagged(f, As(f))
  PROVE  Stores(Writes(size, lanes, how), f)
<1> DEFINE w == Writes(size, lanes, how)
           n == Samples(f)
<1>1. size \in Nat \ {0} /\ n \in Nat /\ Len(lanes) = n /\ n = f.channels + f.extra
  BY FormatType DEF Arranged
<1> HIDE DEF n
<1>2. \A m \in 0 .. n - 1 : lanes[m + 1] # Kept =>
        size * m \in DOMAIN w.cells /\ w.cells[size * m] = Cell(lanes[m + 1], how)
  BY <1>1, WritesIs
<1> HIDE DEF w
<1>3. ASSUME NEW l \in 0 .. f.channels - 1
      PROVE  /\ SampleOf(f, 0, l) \in DOMAIN w.cells
             /\ w.cells[SampleOf(f, 0, l)] = Storing(l, how, {}, {})
  <2> DEFINE m == PlaceOf(f, l)
  <2>1. m \in 0 .. n - 1 /\ lanes[m + 1] = l
    <3>1. m = Spot(f.channels, f.extra, F, l)
      BY FixedPlace
    <3>2. /\ Spot(f.channels, f.extra, F, l) \in 0 .. f.channels + f.extra - 1
          /\ lanes[Spot(f.channels, f.extra, F, l) + 1] = l
      BY DEF Arranged
    <3> HIDE DEF m
    <3>3. QED
      BY <1>1, <3>1, <3>2, FormatType
  <2>2. SampleOf(f, 0, l) = size * m
    BY <1>1, <2>1, FormatType DEF SampleOf
  <2> HIDE DEF m
  <2>3. lanes[m + 1] # Kept
    BY <2>1 DEF Kept
  <2>4. size * m \in DOMAIN w.cells /\ w.cells[size * m] = Cell(lanes[m + 1], how)
    BY <1>2, <2>1, <2>3
  <2>5. Cell(l, how) = Storing(l, how, {}, {})
    BY DEF Cell, Zero
  <2>6. QED
    BY <2>1, <2>2, <2>4, <2>5
<1>4. Stores(w, f)
  BY <1>3 DEF Stores, AlphaOf
<1>5. QED
  BY <1>4 DEF w

\* Turned round twice, a colour is where it was.
LEMMA IndexTwice ==
  ASSUME NEW f, IsFormat(f), NEW l \in 0 .. f.channels - 1
  PROVE  Index(f, l) \in 0 .. f.channels - 1 /\ Index(f, Index(f, l)) = l
  BY FormatType DEF Index

\* How a lane that is not Lab version 2 is stored.
LEMMA StoredIs ==
  ASSUME NEW f, As(f) = "sample", NEW l, NEW alpha
  PROVE  Stored(f, l, alpha) = Storing(l, Flagged(f, As(f)), alpha, {})
  BY DEF Stored

\* The packers turn the lanes by one the other way round than the unrollers.
LEMMA AheadIs ==
  ASSUME NEW f, IsFormat(f), NEW l \in 0 .. f.channels - 1, SwappedFirst(f) => ~Is("swap", f)
  PROVE  Index(f, Ahead(f, Colour(f, l))) = l /\ Colour(f, l) \in 0 .. f.channels - 1
<1>1. CASE ~SwappedFirst(f)
  BY <1>1, IndexTwice DEF Ahead, Colour, Turned
<1>2. CASE SwappedFirst(f)
  <2> DEFINE c == f.channels
  <2>1. \A i : Index(f, i) = i
    BY <1>2 DEF Index
  <2>2. Turned(f, l) = IF l + 1 = c THEN 0 ELSE l + 1
    BY <1>2, TurnedIs
  <2>3. c \in Nat /\ c > 0
    BY FormatType
  <2> HIDE DEF c
  <2>4. (0 + c - 1) % c = c - 1 /\ (l + 1 + c - 1) % c = l
    <3>1. l \in 0 .. c - 1
      BY DEF c
    <3>2. QED
      BY <2>3, <3>1
  <2>5. Ahead(f, Turned(f, l)) = (Turned(f, l) + c - 1) % c
    BY <1>2 DEF Ahead, c
  <2>6. l \in 0 .. c - 1
    BY DEF c
  <2>7. Ahead(f, Turned(f, l)) = l
    BY <2>2, <2>3, <2>4, <2>5, <2>6
  <2>8. QED
    BY <2>1, <2>2, <2>3, <2>6, <2>7 DEF Colour, c
<1>3. QED
  BY <1>1, <1>2

\* Bytes of any format.
LEMMA ChunkyStores ==
  ASSUME NEW f, IsFormat(f), f.channels > 0, ~Is("planar", f), f.bytes = 1
  PROVE  /\ Tidy(PackChunkyBytes(f), f) /\ Sound(PackChunkyBytes(f)) /\ Modest(PackChunkyBytes(f), f)
         /\ As(f) = "sample" /\ (SwappedFirst(f) => ~Is("swap", f)) /\ ~LacksAlpha(f) =>
              Stores(PackChunkyBytes(f), f)
<1> DEFINE p == PackChunkyBytes(f)
<1>1. /\ PixelSize(f) = 1 /\ Samples(f) \in Nat /\ f.channels \in Nat /\ Start(f) \in Nat
      /\ Start(f) + f.channels <= Samples(f)
  BY FormatType DEF PixelSize, Start
<1>2. p.adv = Samples(f) /\ p.needs = Samples(f) /\ p.keep = All
  BY DEF PackChunkyBytes
<1>3. p.cells = [o \in Start(f) .. Start(f) + f.channels - 1 |->
                   Multiplied(f, Index(f, Ahead(f, o - Start(f))), Alpha(f, f.channels))]
  BY DEF PackChunkyBytes
<1> HIDE DEF p
<1>4. Advance(f) = Samples(f) /\ AlphaOf(f, 0) = Alpha(f, f.channels)
  <2>1. 1 * Samples(f) = Samples(f) /\ 1 * f.channels = f.channels
    BY <1>1
  <2>2. QED
    BY <1>1, <2>1, ChunkyFirst
<1>5. Tidy(p, f)
  <2>1. \A o \in DOMAIN p.cells : o \in 0 .. Samples(f) - 1 /\ o = 1 * o
    BY <1>1, <1>3
  <2>2. QED
    BY <1>1, <1>2, <1>4, <2>1 DEF Tidy, Within
<1>6. Sound(p) /\ Modest(p, f)
  BY <1>1, <1>2, <1>4 DEF Sound, Modest
<1>7. ASSUME As(f) = "sample", SwappedFirst(f) => ~Is("swap", f), ~LacksAlpha(f)
      PROVE  Stores(p, f)
  <2>1. ASSUME NEW l \in 0 .. f.channels - 1
        PROVE  /\ SampleOf(f, 0, l) \in DOMAIN p.cells
               /\ p.cells[SampleOf(f, 0, l)] = Storing(l, Flagged(f, As(f)), AlphaOf(f, 0), {})
    <3> DEFINE i == Colour(f, l)
    <3>1. i \in 0 .. f.channels - 1 /\ Index(f, Ahead(f, i)) = l
      BY <1>7, AheadIs
    <3>2. SampleOf(f, 0, l) = Start(f) + i
      <4>1. SampleOf(f, 0, l) = 1 * (Start(f) + i)
        BY <1>1, ChunkyFirst
      <4> HIDE DEF i
      <4>2. QED
        BY <1>1, <3>1, <4>1
    <3> HIDE DEF i
    <3> DEFINE o == Start(f) + i
    <3>3. o \in Start(f) .. Start(f) + f.channels - 1 /\ o - Start(f) = i
      BY <1>1, <3>1
    <3> HIDE DEF o
    <3>4. p.cells[o] = Stored(f, l, Alpha(f, f.channels))
      BY <1>3, <1>7, <3>1, <3>3 DEF Multiplied
    <3>5. QED
      BY <1>3, <1>4, <1>7, <3>2, <3>3, <3>4, StoredIs DEF o
  <2>2. QED
    BY <2>1 DEF Stores
<1>8. QED
  BY <1>5, <1>7, <1>6 DEF p

\* The packers of planes never make a slice with a length below zero.
LEMMA PlanarSound ==
  ASSUME NEW f, IsFormat(f), f.channels > 0, Is("planar", f)
  PROVE  /\ Sound(PackPlanarBytes(f, BytesPerPlane(f))) /\ Modest(PackPlanarBytes(f, BytesPerPlane(f)), f)
         /\ Sound(PackPlanarWords(f, BytesPerPlane(f))) /\ Modest(PackPlanarWords(f, BytesPerPlane(f)), f)
<1> DEFINE b == BytesPerPlane(f)
           i == Start(f) + f.channels
           after == i * b
           p == PackPlanarBytes(f, b)
           q == PackPlanarWords(f, b)
<1>1. b \in Nat \ {0} /\ i \in Nat \ {0}
  BY FormatType DEF BytesPerPlane, Start
<1>2. /\ p.adv = 1 /\ p.keep = All
      /\ p.needs \in {after, after + 1}
  BY DEF PackPlanarBytes
<1>3. q.adv = 0 /\ q.keep = after + 2 /\ q.needs \in {after, after + 2}
  BY DEF PackPlanarWords
<1> HIDE DEF b, i, p, q
<1>4. after \in Nat /\ after >= 1
  BY <1>1
<1> HIDE DEF after
<1>5. Sound(p) /\ Sound(q)
  BY <1>2, <1>3, <1>4 DEF Sound
<1>6. Modest(p, f) /\ Modest(q, f)
  BY DEF Modest
<1>7. QED
  BY <1>5, <1>6 DEF p, q, b

\* Words of any format leave the slice where it is.
LEMMA ChunkyWordsSound ==
  ASSUME NEW f, IsFormat(f), f.channels > 0, f.bytes = 2
  PROVE  Sound(PackChunkyWords(f)) /\ Modest(PackChunkyWords(f), f)
<1> DEFINE p == PackChunkyWords(f)
           n == Samples(f)
<1>1. n \in Nat /\ PixelSize(f) = 2
  BY FormatType DEF PixelSize
<1>2. p.adv = 0 /\ p.needs = 2 * n /\ p.keep = 2 * n
  BY DEF PackChunkyWords
<1>3. ~Is("planar", f) => Advance(f) = 2 * n
  BY <1>1 DEF Advance
<1> HIDE DEF p, n
<1>4. 2 * n \in Nat /\ 2 * n <= 2 * n
  BY <1>1
<1>5. Sound(p) /\ Modest(p, f)
  BY <1>2, <1>3, <1>4 DEF Sound, Modest
<1>6. QED
  BY <1>5 DEF p

\* Planes of bytes.
LEMMA PlanarStores ==
  ASSUME NEW f, IsFormat(f), f.channels > 0, Is("planar", f), f.bytes = 1
  PROVE  /\ Tidy(PackPlanarBytes(f, BytesPerPlane(f)), f)
         /\ As(f) = "sample" /\ ~SwappedFirst(f) /\ ~LacksAlpha(f) =>
              Stores(PackPlanarBytes(f, BytesPerPlane(f)), f)
<1> DEFINE b == BytesPerPlane(f)
           p == PackPlanarBytes(f, b)
           alpha == Alpha(f, f.channels * b)
<1>1. /\ PixelSize(f) = 1 /\ f.channels \in Nat /\ Start(f) \in Nat
      /\ b \in Nat \ {0} /\ Advance(f) = 1 /\ AlphaOf(f, 0) = alpha
  BY FormatType, PlanarFirst DEF PixelSize, BytesPerPlane
<1>2. ~SwappedFirst(f) => \A l \in 0 .. f.channels - 1 : SampleOf(f, 0, l) = (Start(f) + Index(f, l)) * b
  BY PlanarFirst DEF Colour, Turned
<1>3. Within(b, f) /\ \A q \in Int : Within(q * b, f)
  BY <1>1 DEF Within
<1> HIDE DEF b, alpha
<1>4. /\ p.adv = 1
      /\ p.cells = [o \in { (Start(f) + i) * b : i \in 0 .. f.channels - 1 } |->
                      Multiplied(f, Index(f, o \div b - Start(f)), alpha)]
  BY DEF PackPlanarBytes, Planes, alpha
<1> HIDE DEF p
<1>5. Tidy(p, f)
  <2>1. ASSUME NEW o \in DOMAIN p.cells PROVE Within(o, f)
    <3>1. PICK i \in 0 .. f.channels - 1 : o = (Start(f) + i) * b
      BY <1>4, <2>1
    <3>2. Start(f) + i \in Int
      BY <1>1
    <3>3. QED
      BY <1>3, <3>1, <3>2
  <2>2. QED
    BY <1>1, <1>4, <2>1 DEF Tidy
<1>6. ASSUME As(f) = "sample", ~SwappedFirst(f), ~LacksAlpha(f)
      PROVE  Stores(p, f)
  <2>1. ASSUME NEW l \in 0 .. f.channels - 1
        PROVE  /\ SampleOf(f, 0, l) \in DOMAIN p.cells
               /\ p.cells[SampleOf(f, 0, l)] = Storing(l, Flagged(f, As(f)), AlphaOf(f, 0), {})
    <3> DEFINE i == Index(f, l)
               o == (Start(f) + i) * b
    <3>1. i \in 0 .. f.channels - 1 /\ Index(f, i) = l
      BY IndexTwice
    <3>2. SampleOf(f, 0, l) = o
      BY <1>2, <1>6
    <3> HIDE DEF i
    <3>3. o \in { (Start(f) + j) * b : j \in 0 .. f.channels - 1 }
      BY <3>1
    <3>4. o \div b - Start(f) = i
      <4>1. Start(f) + i \in Nat
        BY <1>1, <3>1
      <4>2. ((Start(f) + i) * b) \div b = Start(f) + i
        BY <1>1, <4>1
      <4>3. QED
        BY <1>1, <3>1, <4>2
    <3> HIDE DEF o
    <3>5. p.cells[o] = Stored(f, l, alpha)
      BY <1>4, <1>6, <3>1, <3>3, <3>4 DEF Multiplied
    <3>6. QED
      BY <1>1, <1>4, <1>6, <3>2, <3>3, <3>5, StoredIs
  <2>2. QED
    BY <2>1 DEF Stores
<1>7. QED
  BY <1>5, <1>6 DEF p, b

\* The larger of two numbers.
LEMMA BiggerIs ==
  ASSUME NEW a \in Nat, NEW b \in Nat
  PROVE  /\ Bigger(a, b) \in Nat /\ a <= Bigger(a, b) /\ b <= Bigger(a, b)
         /\ \A c \in Nat : a <= c /\ b <= c => Bigger(a, b) <= c
  BY DEF Bigger

\* Lab and XYZ in any format, and in their own.
LEMMA TripleSound ==
  ASSUME NEW f, IsFormat(f), NEW size \in Nat, NEW apart \in Nat, NEW lanes \in {1, 3}
  PROVE  /\ Sound(StoreTriple(f, size, apart, lanes))
         /\ f.channels = 3 /\ size = PixelSize(f) /\ apart = size => Modest(StoreTriple(f, size, apart, lanes), f)
<1> DEFINE p == StoreTriple(f, size, apart, lanes)
           all == (3 + f.extra) * size
           adv == IF Is("planar", f) THEN size ELSE all
           last == (lanes - 1) * apart + size
<1>1. p.adv = adv /\ p.needs = Bigger(adv, last) /\ p.keep = All
  BY DEF StoreTriple
<1>2. f.extra \in Nat
  BY FormatType
<1>3. all \in Nat
  BY <1>2
<1>4. last \in Nat
  BY SMT
<1>5. apart = size => last <= all
  <2>1. all = 3 * size + f.extra * size /\ f.extra * size \in Nat
    BY <1>2
  <2>2. apart = size => last <= 3 * size
    BY SMT
  <2>3. 3 * size \in Nat
    OBVIOUS
  <2> HIDE DEF last, all
  <2>4. QED
    BY <1>4, <2>1, <2>2, <2>3
<1>6. f.channels = 3 /\ size = PixelSize(f) /\ ~Is("planar", f) => Advance(f) = all
  <2>1. size * (3 + f.extra) = all
    BY <1>2
  <2>2. QED
    BY <2>1 DEF Advance, Samples
<1> HIDE DEF p, all, last
<1>7. adv \in Nat
  BY <1>3
<1>8. Sound(p)
  <2> HIDE DEF adv
  <2>1. QED
    BY <1>1, <1>4, <1>7, BiggerIs DEF Sound
<1>9. ASSUME f.channels = 3, size = PixelSize(f), apart = size, ~Is("planar", f)
      PROVE  p.needs <= Advance(f)
  <2>1. adv = all /\ last <= all /\ Advance(f) = all /\ all <= all
    BY <1>3, <1>5, <1>6, <1>9
  <2> HIDE DEF adv
  <2>2. QED
    BY <1>1, <1>3, <1>4, <2>1, BiggerIs
<1>10. QED
  BY <1>1, <1>8, <1>9 DEF p, Modest

\* Lab and XYZ.
LEMMA TripleStores ==
  ASSUME NEW f, IsFormat(f), f.channels = 3, ~Is("swap", f), ~Is("first", f), ~Premultiplied(f),
         As(f) = "sample", f.flags \cap {"flavor", "endian"} = {},
         NEW size, size = PixelSize(f),
         NEW apart, apart = IF Is("planar", f) THEN BytesPerPlane(f) ELSE size
  PROVE  Tidy(StoreTriple(f, size, apart, 3), f) /\ Stores(StoreTriple(f, size, apart, 3), f)
<1> DEFINE p == StoreTriple(f, size, apart, 3)
<1>1. /\ size \in Nat \ {0} /\ f.extra \in Nat /\ apart \in Nat \ {0}
      /\ BytesPerPlane(f) = Pixels * size /\ Pixels \in Nat \ {0} /\ Samples(f) = 3 + f.extra
  <2>1. Pixels * size \in Nat \ {0}
    BY FormatType
  <2>2. QED
    BY <2>1, FormatType DEF BytesPerPlane
<1>2. p.adv = IF Is("planar", f) THEN size ELSE (3 + f.extra) * size
  BY DEF StoreTriple
<1>3. p.cells = [o \in { l * apart : l \in 0 .. 3 - 1 } |-> Cell(o \div apart, Plain)]
  BY DEF StoreTriple
<1>4. Plain = Flagged(f, As(f)) /\ AlphaOf(f, 0) = {}
  BY DEF Plain, Flagged, AlphaOf
<1> HIDE DEF p
<1>5. p.adv = Advance(f)
  <2>1. (3 + f.extra) * size = size * (3 + f.extra)
    BY <1>1
  <2>2. QED
    BY <1>1, <1>2, <2>1 DEF Advance
<1>6. Tidy(p, f)
  <2>1. ASSUME NEW o \in DOMAIN p.cells PROVE Within(o, f)
    <3>1. PICK l \in 0 .. 2 : o = l * apart
      BY <1>3, <2>1
    <3>2. l * size = size * l /\ l \in 0 .. Samples(f) - 1 /\ l \in Int
      BY <1>1
    <3>3. QED
      BY <3>1, <3>2 DEF Within
  <2>2. QED
    BY <1>5, <2>1 DEF Tidy
<1>7. ASSUME NEW l \in 0 .. 2
      PROVE  /\ SampleOf(f, 0, l) \in DOMAIN p.cells
             /\ p.cells[SampleOf(f, 0, l)] = Storing(l, Plain, {}, {})
  <2>1. PlaceOf(f, l) = l
    BY PlaceOfLane, TurnedIs DEF Start, Index, ExtraFirst, Is, SwappedFirst
  <2>2. SampleOf(f, 0, l) = size * (IF Is("planar", f) THEN l * Pixels + 0 ELSE 0 * Samples(f) + l)
    BY <2>1 DEF SampleOf
  <2>3. size * (l * Pixels + 0) = l * (Pixels * size) /\ size * (0 * Samples(f) + l) = l * size
    BY <1>1
  <2> DEFINE o == l * apart
  <2>4. SampleOf(f, 0, l) = o
    BY <1>1, <2>2, <2>3
  <2>5. o \div apart = l /\ o \in { i * apart : i \in 0 .. 3 - 1 }
    BY <1>1
  <2> HIDE DEF o
  <2>6. p.cells[o] = Cell(l, Plain) /\ o \in DOMAIN p.cells
    BY <1>3, <2>5
  <2>7. Cell(l, Plain) = Storing(l, Plain, {}, {})
    BY DEF Cell, Zero
  <2>8. QED
    BY <2>4, <2>6, <2>7
<1>8. Stores(p, f)
  <2>1. ASSUME NEW l \in 0 .. f.channels - 1
        PROVE  /\ SampleOf(f, 0, l) \in DOMAIN p.cells
               /\ p.cells[SampleOf(f, 0, l)] = Storing(l, Flagged(f, As(f)), AlphaOf(f, 0), {})
    <3>1. l \in 0 .. 2
      OBVIOUS
    <3>2. QED
      BY <1>4, <1>7, <3>1
  <2>2. QED
    BY <2>1 DEF Stores
<1>9. QED
  BY <1>6, <1>8 DEF p

\* Floats and doubles ask for a pixel, or for a sample of a plane.
LEMMA FloatSound ==
  ASSUME NEW f, IsFormat(f), NEW stride, NEW last
  PROVE  Sound(FloatWrites(f, stride, last)) /\ Modest(FloatWrites(f, stride, last), f)
<1> DEFINE p == FloatWrites(f, stride, last)
           adv == IF Is("planar", f) THEN PixelSize(f) ELSE Samples(f) * PixelSize(f)
<1>1. p.adv = adv /\ p.needs = adv /\ p.keep = All
  BY DEF FloatWrites
<1>2. adv = Advance(f) /\ adv \in Nat
  <2>1. PixelSize(f) \in Nat /\ Samples(f) \in Nat
    BY FormatType
  <2>2. Samples(f) * PixelSize(f) = PixelSize(f) * Samples(f)
    BY <2>1
  <2>3. QED
    BY <2>1, <2>2, AdvanceType DEF Advance
<1> HIDE DEF p, adv
<1>3. adv <= adv
  BY <1>2
<1>4. Sound(p) /\ Modest(p, f)
  BY <1>1, <1>2, <1>3 DEF Sound, Modest
<1>5. QED
  BY <1>4 DEF p

\* Floats and doubles of any format move on by a pixel,
LEMMA FloatTidy ==
  ASSUME NEW f, IsFormat(f), f.channels > 0, ~Is("planar", f), NEW stride, NEW last
  PROVE  Tidy(FloatWrites(f, stride, last), f)
<1> DEFINE p == FloatWrites(f, stride, last)
           size == PixelSize(f)
           n == Samples(f)
<1>1. size \in Nat \ {0} /\ n \in Nat
  BY FormatType
<1>2. p.adv = n * size
  BY DEF FloatWrites
<1>3. DOMAIN p.cells = { e * size : e \in 0 .. n - 1 }
  BY DEF FloatWrites
<1>4. Advance(f) = size * n
  BY DEF Advance
<1> HIDE DEF p, size, n
<1>5. n * size = size * n /\ \A e \in 0 .. n - 1 : e * size = size * e
  BY <1>1
<1>6. Tidy(p, f)
  BY <1>2, <1>3, <1>4, <1>5 DEF Tidy, Within, size, n
<1>7. QED
  BY <1>6 DEF p

\* and store their lanes.
LEMMA FloatStores ==
  ASSUME NEW f, IsFormat(f), f.channels > 0, ~Is("planar", f), ~Premultiplied(f), As(f) = "sample",
         NEW stride, NEW last, SwappedFirst(f) => last /\ ~Is("swap", f)
  PROVE  Stores(FloatWrites(f, stride, last), f)
<1> DEFINE p == FloatWrites(f, stride, last)
           size == PixelSize(f)
           n == Samples(f)
           c == f.channels
           colour(i) == Stored(f, Index(f, i), {})
           buf(e) == IF e % 1 = 0 /\ e \div 1 - Start(f) \in 0 .. c - 1 THEN colour(e \div 1 - Start(f)) ELSE Nought
           shifted(e) == IF e > 0 THEN buf(e - 1)
                         ELSE IF last THEN colour(c - 1) ELSE buf(Bigger(c - 2, 0))
<1>1. size \in Nat \ {0} /\ n \in Nat /\ c \in Nat /\ Start(f) \in Nat /\ Start(f) + c <= n
  BY FormatType DEF Start
<1>2. p.cells = [o \in { e * size : e \in 0 .. n - 1 } |->
                   IF SwappedFirst(f) /\ o \div size < c THEN shifted(o \div size) ELSE buf(o \div size)]
  BY DEF FloatWrites, Buffered
<1>3. \A e \in Int : e % 1 = 0 /\ e \div 1 = e
  OBVIOUS
<1> HIDE DEF p, size, n, c
<1>4. ASSUME NEW l \in 0 .. c - 1
      PROVE  /\ SampleOf(f, 0, l) \in DOMAIN p.cells
             /\ p.cells[SampleOf(f, 0, l)] = Stored(f, l, {})
  <2> DEFINE e == Start(f) + Colour(f, l)
             o == e * size
  <2>1. Colour(f, l) \in 0 .. c - 1 /\ Index(f, Ahead(f, Colour(f, l))) = l
    BY AheadIs DEF c
  <2>2. e \in 0 .. n - 1
    BY <1>1, <2>1
  <2>3. SampleOf(f, 0, l) = o
    <3>1. SampleOf(f, 0, l) = size * e
      BY ChunkyFirst DEF size, c
    <3>2. QED
      BY <1>1, <2>2, <3>1
  <2>4. o \div size = e /\ o \in { q * size : q \in 0 .. n - 1 }
    <3> HIDE DEF e
    <3>1. QED
      BY <1>1, <2>2
  <2>5. (IF SwappedFirst(f) /\ e < c THEN shifted(e) ELSE buf(e)) = Stored(f, l, {})
    <3>1. CASE ~SwappedFirst(f)
      <4>1. buf(e) = colour(Colour(f, l))
        BY <1>1, <1>3, <2>1, <2>2
      <4>2. Ahead(f, Colour(f, l)) = Colour(f, l)
        BY <3>1 DEF Ahead
      <4>3. QED
        BY <2>1, <3>1, <4>1, <4>2
    <3>2. CASE SwappedFirst(f)
      <4>1. Start(f) = 0 /\ e = Colour(f, l) /\ e < c
        BY <1>1, <2>1, <3>2 DEF Start, SwappedFirst
      <4>2. Colour(f, l) = IF l + 1 = c THEN 0 ELSE l + 1
        BY <3>2, TurnedIs DEF Colour, Index, c
      <4>3. colour(l) = Stored(f, l, {})
        BY <3>2 DEF Index
      <4>4. e > 0 => buf(e - 1) = colour(l)
        BY <1>1, <1>3, <4>1, <4>2
      <4>5. ~(e > 0) => l = c - 1
        BY <1>1, <4>1, <4>2
      <4>6. QED
        BY <3>2, <4>1, <4>3, <4>4, <4>5
    <3>3. QED
      BY <3>1, <3>2
  <2> HIDE DEF e, o, shifted, buf
  <2>6. QED
    BY <1>2, <2>3, <2>4, <2>5
<1>5. AlphaOf(f, 0) = {}
  BY DEF AlphaOf
<1>6. Stores(p, f)
  BY <1>4, <1>5, StoredIs DEF Stores, c
<1>7. QED
  BY <1>6 DEF p

\* Half floats are not stored at all.
LEMMA HalfsTidy ==
  ASSUME NEW f, IsFormat(f)
  PROVE  /\ Tidy(PackHalfFrom16(f), f) /\ Tidy(PackHalfFromFloat(f), f)
         /\ Sound(PackHalfFrom16(f)) /\ Sound(PackHalfFromFloat(f))
         /\ Modest(PackHalfFrom16(f), f) /\ Modest(PackHalfFromFloat(f), f)
<1>1. Advance(f) \in Nat
  BY AdvanceType
<1>2. QED
  BY <1>1 DEF Tidy, Sound, Modest, PackHalfFrom16, PackHalfFromFloat

----------------------------------------------------------------------------
(* The rows of the tables of packers.                                      *)

\* What the hint changes of a format.
LEMMA Hinted ==
  ASSUME NEW f, IsFormat(f), NEW g, g = Unhinted(f)
  PROVE  /\ IsFormat(g) /\ g.space = f.space /\ g.channels = f.channels /\ g.extra = f.extra
         /\ g.bytes = f.bytes /\ g.flags = f.flags \ {"optimized"}
  BY DEF Unhinted, IsFormat, Fmt

\* A row that fixes the layout of its pixels has a packer for it.
LEMMA FixedPacks ==
  ASSUME NEW f, IsFormat(f),
         NEW space, NEW c, NEW e, NEW b, NEW F, NEW open, NEW frm, NEW row,
         row = Row(Fmt(space, c, e, b, F), open, frm), Fits(Unhinted(f), row),
         open = {} \/ open = {"space"},
         "space" \notin F, "planar" \notin F, "premul" \notin F,
         NEW lanes, Arranged(lanes, c, e, F),
         NEW size, size = IF b = 0 THEN 8 ELSE b,
         NEW as, as = IF Unhinted(f) \in LabV2Formats THEN "labV2" ELSE "sample",
         NEW turns, turns = F \cap {"flavor", "endian"},
         Pack(frm, f, BytesPerPlane(f)) = Writes(size, lanes, Taking(as, turns))
  PROVE  Keeps(row.frm, f)
<1> DEFINE g == Unhinted(f)
<1>1. /\ g.channels = f.channels /\ g.extra = f.extra
      /\ g.bytes = f.bytes /\ g.flags = f.flags \ {"optimized"}
  BY Hinted
<1> HIDE DEF g
<1>2. g.bytes = b /\ g.channels = c /\ g.extra = e /\ g.flags \ open = F
  <2>1. "channels" \notin open /\ "extra" \notin open
    OBVIOUS
  <2>2. Fits(g, row)
    BY DEF g
  <2>3. QED
    BY <2>1, <2>2, RowFits
<1>3. \A flag : flag \notin {"space", "optimized"} => (flag \in F <=> flag \in f.flags)
  BY <1>1, <1>2
<1>4. ~Is("planar", f) /\ ~Premultiplied(f) /\ size = PixelSize(f)
  BY <1>1, <1>2, <1>3 DEF Is, Premultiplied, PixelSize
<1>5. Taking(as, turns) = Flagged(f, As(f))
  <2>1. turns = f.flags \cap {"flavor", "endian"}
    BY <1>3
  <2>2. QED
    BY <2>1 DEF Flagged, As
<1>6. Arranged(lanes, f.channels, f.extra, F)
  BY <1>1, <1>2
<1>7. /\ Tidy(Pack(frm, f, BytesPerPlane(f)), f)
      /\ Sound(Pack(frm, f, BytesPerPlane(f))) /\ Modest(Pack(frm, f, BytesPerPlane(f)), f)
  BY <1>4, <1>6, FixedTidy DEF Arranged
<1>8. Stores(Pack(frm, f, BytesPerPlane(f)), f)
  BY <1>3, <1>4, <1>5, <1>6, FixedStore
<1>9. row.frm = frm
  BY DEF Row
<1>10. QED
  BY <1>7, <1>8, <1>9, AllKeep

\* What a row settles of a format with the hint.
LEMMA OpenPacks ==
  ASSUME NEW f, IsFormat(f), NEW space, NEW c, NEW e, NEW b, NEW F, NEW open, NEW frm, NEW row,
         row = Row(Fmt(space, c, e, b, F), open, frm), Fits(Unhinted(f), row)
  PROVE  /\ f.bytes = b /\ row.frm = frm
         /\ "channels" \notin open => f.channels = c
         /\ \A flag : flag \notin open /\ flag # "optimized" => (flag \in f.flags <=> flag \in F)
         /\ "optimized" \notin open => "optimized" \notin F
<1> DEFINE g == Unhinted(f)
<1>1. g.channels = f.channels /\ g.bytes = f.bytes /\ g.flags = f.flags \ {"optimized"}
  BY Hinted
<1> HIDE DEF g
<1>2. Fits(g, row)
  BY DEF g
<1>3. g.bytes = b /\ g.flags \ open = F /\ ("channels" \notin open => g.channels = c)
  BY <1>2, RowFits
<1>4. row.frm = frm
  BY DEF Row
<1>5. QED
  BY <1>1, <1>3, <1>4

\* Lab and XYZ, wherever they are stored apart as they should be.
LEMMA TriplePacks ==
  ASSUME NEW f, IsFormat(f), NEW space, NEW b, NEW frm, NEW row,
         row = Row(Fmt(space, 3, 0, b, {"float"}), AnyTriple, frm), Fits(Unhinted(f), row),
         NEW size \in {4, 8}, size = IF b = 0 THEN 8 ELSE b
  PROVE  /\ f.channels = 3 /\ row.frm = frm
         /\ LET p == StoreTriple(f, size, Apart(f, size, BytesPerPlane(f)), 3)
            IN  Tidy(p, f) /\ Stores(p, f) /\ Sound(p) /\ Modest(p, f)
<1>1. /\ f.bytes = b /\ row.frm = frm /\ f.channels = 3
      /\ \A flag : flag \notin AnyTriple /\ flag # "optimized" => (flag \in f.flags <=> flag \in {"float"})
  <2>1. "channels" \notin AnyTriple
    BY DEF AnyTriple
  <2>2. QED
    BY <2>1, OpenPacks
<1>2. ~Is("swap", f) /\ ~Is("first", f) /\ ~Premultiplied(f) /\ f.flags \cap {"flavor", "endian"} = {}
  BY <1>1 DEF Is, Premultiplied, AnyTriple
<1>3. As(f) = "sample"
  <2>1. "float" \in Unhinted(f).flags
    BY <1>1, Hinted DEF AnyTriple
  <2>2. QED
    BY <2>1, LabFields DEF As
<1>4. size = PixelSize(f)
  BY <1>1 DEF PixelSize
<1>5. Apart(f, size, BytesPerPlane(f)) = IF Is("planar", f) THEN BytesPerPlane(f) ELSE size
  <2> DEFINE n == Pixels
  <2>1. BytesPerPlane(f) = n * size /\ n \in Nat
    BY <1>4, FormatType DEF BytesPerPlane
  <2> HIDE DEF n
  <2>2. (n * size) \div size = n
    BY <2>1
  <2>3. QED
    BY <1>4, <2>1, <2>2 DEF Apart
<1> DEFINE p == StoreTriple(f, size, Apart(f, size, BytesPerPlane(f)), 3)
<1>7. Tidy(p, f) /\ Stores(p, f)
  BY <1>1, <1>2, <1>3, <1>4, <1>5, TripleStores
<1>8. Sound(p) /\ Modest(p, f)
  <2>1. BytesPerPlane(f) \in Nat /\ size \in Nat
    BY FormatType DEF BytesPerPlane
  <2> DEFINE apart == Apart(f, size, BytesPerPlane(f))
  <2>2. apart \in Nat /\ (~Is("planar", f) => apart = size)
    BY <1>5, <2>1
  <2> HIDE DEF apart
  <2>3. /\ Sound(StoreTriple(f, size, apart, 3))
        /\ f.channels = 3 /\ size = PixelSize(f) /\ apart = size => Modest(StoreTriple(f, size, apart, 3), f)
    BY <2>1, <2>2, TripleSound
  <2>4. Is("planar", f) => Modest(StoreTriple(f, size, apart, 3), f)
    BY DEF Modest
  <2>5. QED
    BY <1>1, <1>4, <2>2, <2>3, <2>4 DEF apart
<1>9. QED
  BY <1>1, <1>7, <1>8

\* A format that fits a row for Lab version 2 is one of its formats.
LEMMA LabFits ==
  ASSUME NEW f, IsFormat(f), NEW c, NEW e, NEW b, NEW F, NEW frm,
         Fits(Unhinted(f), Row(Fmt("LabV2", c, e, b, F), {}, frm)), Fmt("LabV2", c, e, b, F) \in LabV2Formats
  PROVE  Unhinted(f) \in LabV2Formats
<1> DEFINE g == Unhinted(f)
<1>1. IsFormat(g)
  BY Hinted
<1>2. Fits(g, Row(Fmt("LabV2", c, e, b, F), {}, frm))
  OBVIOUS
<1> HIDE DEF g
<1>3. g.space = "LabV2" /\ g.channels = c /\ g.extra = e /\ g.bytes = b /\ g.flags = F
  BY <1>2, RowFits
<1>4. g = Fmt(g.space, g.channels, g.extra, g.bytes, g.flags)
  BY <1>1 DEF IsFormat
<1>5. g \in LabV2Formats
  BY <1>3, <1>4
<1>6. QED
  BY <1>5 DEF g

\* The rows of words with a fixed layout,
LEMMA Output16Fixed ==
  ASSUME NEW f, IsFormat(f), NEW r \in 1 .. 55, Fits(Unhinted(f), OutputFormatters16[r]),
         r > 14 => Unhinted(f) \notin LabV2Formats,
         r \in 8 .. 33 \cup 36 .. 53
  PROVE  Keeps(OutputFormatters16[r].frm, f)
<1> DEFINE b == BytesPerPlane(f)
<1>8. CASE r = 8
  <2>1. OutputFormatters16[8] = Row(Fmt("any", 1, 0, 1, {}), {"space"}, "Pack1Byte")
    BY DEF OutputFormatters16, AnySpace
  <2>2. "Pack1Byte" \in DOMAIN GrayPackers /\ GrayPackers["Pack1Byte"] = Writes(1, <<0>>, Plain)
    BY DEF GrayPackers
  <2>3. Pack("Pack1Byte", f, b) = Writes(1, <<0>>, Taking("sample", {}))
    BY <2>2, GrayPack DEF Plain
  <2>4. Arranged(<<0>>, 1, 0, {})
    BY DEF Arranged, Spot, Zero, Kept
  <2>5. Unhinted(f) \notin LabV2Formats
    BY <1>8, <2>1, RowFits, LabFields
  <2>6. QED
    BY <1>8, <2>1, <2>3, <2>4, <2>5, FixedPacks
<1>9. CASE r = 9
  <2>1. OutputFormatters16[9] = Row(Fmt("any", 1, 1, 1, {}), {"space"}, "Pack1ByteSkip1")
    BY DEF OutputFormatters16, AnySpace
  <2>2. "Pack1ByteSkip1" \in DOMAIN GrayPackers /\ GrayPackers["Pack1ByteSkip1"] = Writes(1, <<0, Kept>>, Plain)
    BY DEF GrayPackers
  <2>3. Pack("Pack1ByteSkip1", f, b) = Writes(1, <<0, Kept>>, Taking("sample", {}))
    BY <2>2, GrayPack DEF Plain
  <2>4. Arranged(<<0, Kept>>, 1, 1, {})
    BY DEF Arranged, Spot, Zero, Kept
  <2>5. Unhinted(f) \notin LabV2Formats
    BY <1>9, <2>1, RowFits, LabFields
  <2>6. QED
    BY <1>9, <2>1, <2>3, <2>4, <2>5, FixedPacks
<1>10. CASE r = 10
  <2>1. OutputFormatters16[10] = Row(Fmt("any", 1, 1, 1, {"first"}), {"space"}, "Pack1ByteSkip1SwapFirst")
    BY DEF OutputFormatters16, AnySpace
  <2>2. "Pack1ByteSkip1SwapFirst" \in DOMAIN GrayPackers /\ GrayPackers["Pack1ByteSkip1SwapFirst"] = Writes(1, <<Kept, 0>>, Plain)
    BY DEF GrayPackers
  <2>3. Pack("Pack1ByteSkip1SwapFirst", f, b) = Writes(1, <<Kept, 0>>, Taking("sample", {}))
    BY <2>2, GrayPack DEF Plain
  <2>4. Arranged(<<Kept, 0>>, 1, 1, {"first"})
    BY DEF Arranged, Spot, Zero, Kept
  <2>5. Unhinted(f) \notin LabV2Formats
    BY <1>10, <2>1, RowFits, LabFields
  <2>6. QED
    BY <1>10, <2>1, <2>3, <2>4, <2>5, FixedPacks
<1>11. CASE r = 11
  <2>1. OutputFormatters16[11] = Row(Fmt("any", 1, 0, 1, {"flavor"}), {"space"}, "Pack1ByteReversed")
    BY DEF OutputFormatters16, AnySpace
  <2>2. "Pack1ByteReversed" \in DOMAIN GrayPackers /\ GrayPackers["Pack1ByteReversed"] = Writes(1, <<0>>, Reversed)
    BY DEF GrayPackers
  <2>3. Pack("Pack1ByteReversed", f, b) = Writes(1, <<0>>, Taking("sample", {"flavor"}))
    BY <2>2, GrayPack DEF Reversed
  <2>4. Arranged(<<0>>, 1, 0, {"flavor"})
    BY DEF Arranged, Spot, Zero, Kept
  <2>5. Unhinted(f) \notin LabV2Formats
    BY <1>11, <2>1, RowFits, LabFields
  <2>6. QED
    BY <1>11, <2>1, <2>3, <2>4, <2>5, FixedPacks
<1>12. CASE r = 12
  <2>1. OutputFormatters16[12] = Row(Fmt("LabV2", 3, 0, 1, {}), {}, "PackLabV2_8")
    BY DEF OutputFormatters16
  <2>2. "PackLabV2_8" \in DOMAIN LabV2Packers /\ LabV2Packers["PackLabV2_8"] = Writes(1, <<0, 1, 2>>, LabV2)
    BY DEF LabV2Packers
  <2>3. Pack("PackLabV2_8", f, b) = Writes(1, <<0, 1, 2>>, Taking("labV2", {}))
    BY <2>2, LabPack DEF LabV2
  <2>4. Arranged(<<0, 1, 2>>, 3, 0, {})
    BY DEF Arranged, Spot, Zero, Kept
  <2>5. Unhinted(f) \in LabV2Formats
    BY <1>12, <2>1, LabFits DEF LabV2Formats
  <2>6. QED
    BY <1>12, <2>1, <2>3, <2>4, <2>5, FixedPacks
<1>13. CASE r = 13
  <2>1. OutputFormatters16[13] = Row(Fmt("LabV2", 3, 1, 1, {"first"}), {}, "PackALabV2_8")
    BY DEF OutputFormatters16
  <2>2. "PackALabV2_8" \in DOMAIN LabV2Packers /\ LabV2Packers["PackALabV2_8"] = Writes(1, <<Zero, 0, 1, 2>>, LabV2)
    BY DEF LabV2Packers
  <2>3. Pack("PackALabV2_8", f, b) = Writes(1, <<Zero, 0, 1, 2>>, Taking("labV2", {}))
    BY <2>2, LabPack DEF LabV2
  <2>4. Arranged(<<Zero, 0, 1, 2>>, 3, 1, {"first"})
    BY DEF Arranged, Spot, Zero, Kept
  <2>5. Unhinted(f) \in LabV2Formats
    BY <1>13, <2>1, LabFits DEF LabV2Formats
  <2>6. QED
    BY <1>13, <2>1, <2>3, <2>4, <2>5, FixedPacks
<1>14. CASE r = 14
  <2>1. OutputFormatters16[14] = Row(Fmt("LabV2", 3, 0, 2, {}), {}, "PackLabV2_16")
    BY DEF OutputFormatters16
  <2>2. "PackLabV2_16" \in DOMAIN LabV2Packers /\ LabV2Packers["PackLabV2_16"] = Writes(2, <<0, 1, 2>>, LabV2)
    BY DEF LabV2Packers
  <2>3. Pack("PackLabV2_16", f, b) = Writes(2, <<0, 1, 2>>, Taking("labV2", {}))
    BY <2>2, LabPack DEF LabV2
  <2>4. Arranged(<<0, 1, 2>>, 3, 0, {})
    BY DEF Arranged, Spot, Zero, Kept
  <2>5. Unhinted(f) \in LabV2Formats
    BY <1>14, <2>1, LabFits DEF LabV2Formats
  <2>6. QED
    BY <1>14, <2>1, <2>3, <2>4, <2>5, FixedPacks
<1>15. CASE r = 15
  <2>1. OutputFormatters16[15] = Row(Fmt("any", 3, 0, 1, {"optimized"}), {"space"}, "Pack3BytesOptimized")
    BY DEF OutputFormatters16, AnySpace
  <2>2. QED
    BY <1>15, <2>1, OpenPacks
<1>16. CASE r = 16
  <2>1. OutputFormatters16[16] = Row(Fmt("any", 3, 1, 1, {"optimized"}), {"space"}, "Pack3BytesAndSkip1Optimized")
    BY DEF OutputFormatters16, AnySpace
  <2>2. QED
    BY <1>16, <2>1, OpenPacks
<1>17. CASE r = 17
  <2>1. OutputFormatters16[17] = Row(Fmt("any", 3, 1, 1, {"first", "optimized"}), {"space"}, "Pack3BytesAndSkip1SwapFirstOptimized")
    BY DEF OutputFormatters16, AnySpace
  <2>2. QED
    BY <1>17, <2>1, OpenPacks
<1>18. CASE r = 18
  <2>1. OutputFormatters16[18] = Row(Fmt("any", 3, 1, 1, {"swap", "first", "optimized"}), {"space"}, "Pack3BytesAndSkip1SwapSwapFirstOptimized")
    BY DEF OutputFormatters16, AnySpace
  <2>2. QED
    BY <1>18, <2>1, OpenPacks
<1>19. CASE r = 19
  <2>1. OutputFormatters16[19] = Row(Fmt("any", 3, 1, 1, {"swap", "optimized"}), {"space"}, "Pack3BytesAndSkip1SwapOptimized")
    BY DEF OutputFormatters16, AnySpace
  <2>2. QED
    BY <1>19, <2>1, OpenPacks
<1>20. CASE r = 20
  <2>1. OutputFormatters16[20] = Row(Fmt("any", 3, 0, 1, {"swap", "optimized"}), {"space"}, "Pack3BytesSwapOptimized")
    BY DEF OutputFormatters16, AnySpace
  <2>2. QED
    BY <1>20, <2>1, OpenPacks
<1>21. CASE r = 21
  <2>1. OutputFormatters16[21] = Row(Fmt("any", 3, 0, 1, {}), {"space"}, "Pack3Bytes")
    BY DEF OutputFormatters16, AnySpace
  <2>2. "Pack3Bytes" \in DOMAIN ThreeBytePackers /\ ThreeBytePackers["Pack3Bytes"] = Writes(1, <<0, 1, 2>>, Plain)
    BY DEF ThreeBytePackers
  <2>3. Pack("Pack3Bytes", f, b) = Writes(1, <<0, 1, 2>>, Taking("sample", {}))
    BY <2>2, ThreeBytePack DEF Plain
  <2>4. Arranged(<<0, 1, 2>>, 3, 0, {})
    BY DEF Arranged, Spot, Zero, Kept
  <2>5. Unhinted(f) \notin LabV2Formats
    BY <1>21
  <2>6. QED
    BY <1>21, <2>1, <2>3, <2>4, <2>5, FixedPacks
<1>22. CASE r = 22
  <2>1. OutputFormatters16[22] = Row(Fmt("any", 3, 1, 1, {}), {"space"}, "Pack3BytesAndSkip1")
    BY DEF OutputFormatters16, AnySpace
  <2>2. "Pack3BytesAndSkip1" \in DOMAIN ThreeBytePackers /\ ThreeBytePackers["Pack3BytesAndSkip1"] = Writes(1, <<0, 1, 2, Zero>>, Plain)
    BY DEF ThreeBytePackers
  <2>3. Pack("Pack3BytesAndSkip1", f, b) = Writes(1, <<0, 1, 2, Zero>>, Taking("sample", {}))
    BY <2>2, ThreeBytePack DEF Plain
  <2>4. Arranged(<<0, 1, 2, Zero>>, 3, 1, {})
    BY DEF Arranged, Spot, Zero, Kept
  <2>5. Unhinted(f) \notin LabV2Formats
    BY <1>22
  <2>6. QED
    BY <1>22, <2>1, <2>3, <2>4, <2>5, FixedPacks
<1>23. CASE r = 23
  <2>1. OutputFormatters16[23] = Row(Fmt("any", 3, 1, 1, {"first"}), {"space"}, "Pack3BytesAndSkip1SwapFirst")
    BY DEF OutputFormatters16, AnySpace
  <2>2. "Pack3BytesAndSkip1SwapFirst" \in DOMAIN ThreeBytePackers /\ ThreeBytePackers["Pack3BytesAndSkip1SwapFirst"] = Writes(1, <<Zero, 0, 1, 2>>, Plain)
    BY DEF ThreeBytePackers
  <2>3. Pack("Pack3BytesAndSkip1SwapFirst", f, b) = Writes(1, <<Zero, 0, 1, 2>>, Taking("sample", {}))
    BY <2>2, ThreeBytePack DEF Plain
  <2>4. Arranged(<<Zero, 0, 1, 2>>, 3, 1, {"first"})
    BY DEF Arranged, Spot, Zero, Kept
  <2>5. Unhinted(f) \notin LabV2Formats
    BY <1>23
  <2>6. QED
    BY <1>23, <2>1, <2>3, <2>4, <2>5, FixedPacks
<1>24. CASE r = 24
  <2>1. OutputFormatters16[24] = Row(Fmt("any", 3, 1, 1, {"swap", "first"}), {"space"}, "Pack3BytesAndSkip1SwapSwapFirst")
    BY DEF OutputFormatters16, AnySpace
  <2>2. "Pack3BytesAndSkip1SwapSwapFirst" \in DOMAIN ThreeBytePackers /\ ThreeBytePackers["Pack3BytesAndSkip1SwapSwapFirst"] = Writes(1, <<2, 1, 0, Zero>>, Taking("high", {}))
    BY DEF ThreeBytePackers
  <2>3. Pack("Pack3BytesAndSkip1SwapSwapFirst", f, b) = Writes(1, <<2, 1, 0, Zero>>, Taking("high", {}))
    BY <2>2, ThreeBytePack
  <2>4. /\ f.bytes = 1 /\ f.channels = 3 /\ f.extra = 1 /\ OutputFormatters16[r].frm = "Pack3BytesAndSkip1SwapSwapFirst"
        /\ ~Is("planar", f)
    BY <1>24, <2>1, RowFits, OpenPacks, Hinted DEF Is
  <2>5. PixelSize(f) = 1 /\ Len(<<2, 1, 0, Zero>>) = f.channels + f.extra
    BY <2>4 DEF PixelSize
  <2>6. Tidy(Pack("Pack3BytesAndSkip1SwapSwapFirst", f, b), f) /\ Sound(Pack("Pack3BytesAndSkip1SwapSwapFirst", f, b)) /\ Modest(Pack("Pack3BytesAndSkip1SwapSwapFirst", f, b), f)
    BY <2>3, <2>4, <2>5, FixedTidy
  <2>7. QED
    BY <2>4, <2>6 DEF Keeps, Misplaces
<1>25. CASE r = 25
  <2>1. OutputFormatters16[25] = Row(Fmt("any", 3, 1, 1, {"swap"}), {"space"}, "Pack3BytesAndSkip1Swap")
    BY DEF OutputFormatters16, AnySpace
  <2>2. "Pack3BytesAndSkip1Swap" \in DOMAIN ThreeBytePackers /\ ThreeBytePackers["Pack3BytesAndSkip1Swap"] = Writes(1, <<Zero, 2, 1, 0>>, Plain)
    BY DEF ThreeBytePackers
  <2>3. Pack("Pack3BytesAndSkip1Swap", f, b) = Writes(1, <<Zero, 2, 1, 0>>, Taking("sample", {}))
    BY <2>2, ThreeBytePack DEF Plain
  <2>4. Arranged(<<Zero, 2, 1, 0>>, 3, 1, {"swap"})
    BY DEF Arranged, Spot, Zero, Kept
  <2>5. Unhinted(f) \notin LabV2Formats
    BY <1>25
  <2>6. QED
    BY <1>25, <2>1, <2>3, <2>4, <2>5, FixedPacks
<1>26. CASE r = 26
  <2>1. OutputFormatters16[26] = Row(Fmt("any", 3, 0, 1, {"swap"}), {"space"}, "Pack3BytesSwap")
    BY DEF OutputFormatters16, AnySpace
  <2>2. "Pack3BytesSwap" \in DOMAIN ThreeBytePackers /\ ThreeBytePackers["Pack3BytesSwap"] = Writes(1, <<2, 1, 0>>, Plain)
    BY DEF ThreeBytePackers
  <2>3. Pack("Pack3BytesSwap", f, b) = Writes(1, <<2, 1, 0>>, Taking("sample", {}))
    BY <2>2, ThreeBytePack DEF Plain
  <2>4. Arranged(<<2, 1, 0>>, 3, 0, {"swap"})
    BY DEF Arranged, Spot, Zero, Kept
  <2>5. Unhinted(f) \notin LabV2Formats
    BY <1>26
  <2>6. QED
    BY <1>26, <2>1, <2>3, <2>4, <2>5, FixedPacks
<1>27. CASE r = 27
  <2>1. OutputFormatters16[27] = Row(Fmt("any", 4, 0, 1, {}), {"space"}, "Pack4Bytes")
    BY DEF OutputFormatters16, AnySpace
  <2>2. "Pack4Bytes" \in DOMAIN BytePackers /\ BytePackers["Pack4Bytes"] = Writes(1, <<0, 1, 2, 3>>, Plain)
    BY DEF BytePackers
  <2>3. Pack("Pack4Bytes", f, b) = Writes(1, <<0, 1, 2, 3>>, Taking("sample", {}))
    BY <2>2, BytePack DEF Plain
  <2>4. Arranged(<<0, 1, 2, 3>>, 4, 0, {})
    BY DEF Arranged, Spot, Zero, Kept
  <2>5. Unhinted(f) \notin LabV2Formats
    BY <1>27
  <2>6. QED
    BY <1>27, <2>1, <2>3, <2>4, <2>5, FixedPacks
<1>28. CASE r = 28
  <2>1. OutputFormatters16[28] = Row(Fmt("any", 4, 0, 1, {"flavor"}), {"space"}, "Pack4BytesReverse")
    BY DEF OutputFormatters16, AnySpace
  <2>2. "Pack4BytesReverse" \in DOMAIN BytePackers /\ BytePackers["Pack4BytesReverse"] = Writes(1, <<0, 1, 2, 3>>, Reversed)
    BY DEF BytePackers
  <2>3. Pack("Pack4BytesReverse", f, b) = Writes(1, <<0, 1, 2, 3>>, Taking("sample", {"flavor"}))
    BY <2>2, BytePack DEF Reversed
  <2>4. Arranged(<<0, 1, 2, 3>>, 4, 0, {"flavor"})
    BY DEF Arranged, Spot, Zero, Kept
  <2>5. Unhinted(f) \notin LabV2Formats
    BY <1>28
  <2>6. QED
    BY <1>28, <2>1, <2>3, <2>4, <2>5, FixedPacks
<1>29. CASE r = 29
  <2>1. OutputFormatters16[29] = Row(Fmt("any", 4, 0, 1, {"first"}), {"space"}, "Pack4BytesSwapFirst")
    BY DEF OutputFormatters16, AnySpace
  <2>2. "Pack4BytesSwapFirst" \in DOMAIN BytePackers /\ BytePackers["Pack4BytesSwapFirst"] = Writes(1, <<3, 0, 1, 2>>, Plain)
    BY DEF BytePackers
  <2>3. Pack("Pack4BytesSwapFirst", f, b) = Writes(1, <<3, 0, 1, 2>>, Taking("sample", {}))
    BY <2>2, BytePack DEF Plain
  <2>4. Arranged(<<3, 0, 1, 2>>, 4, 0, {"first"})
    BY DEF Arranged, Spot, Zero, Kept
  <2>5. Unhinted(f) \notin LabV2Formats
    BY <1>29
  <2>6. QED
    BY <1>29, <2>1, <2>3, <2>4, <2>5, FixedPacks
<1>30. CASE r = 30
  <2>1. OutputFormatters16[30] = Row(Fmt("any", 4, 0, 1, {"swap"}), {"space"}, "Pack4BytesSwap")
    BY DEF OutputFormatters16, AnySpace
  <2>2. "Pack4BytesSwap" \in DOMAIN BytePackers /\ BytePackers["Pack4BytesSwap"] = Writes(1, <<3, 2, 1, 0>>, Plain)
    BY DEF BytePackers
  <2>3. Pack("Pack4BytesSwap", f, b) = Writes(1, <<3, 2, 1, 0>>, Taking("sample", {}))
    BY <2>2, BytePack DEF Plain
  <2>4. Arranged(<<3, 2, 1, 0>>, 4, 0, {"swap"})
    BY DEF Arranged, Spot, Zero, Kept
  <2>5. Unhinted(f) \notin LabV2Formats
    BY <1>30
  <2>6. QED
    BY <1>30, <2>1, <2>3, <2>4, <2>5, FixedPacks
<1>31. CASE r = 31
  <2>1. OutputFormatters16[31] = Row(Fmt("any", 4, 0, 1, {"swap", "first"}), {"space"}, "Pack4BytesSwapSwapFirst")
    BY DEF OutputFormatters16, AnySpace
  <2>2. "Pack4BytesSwapSwapFirst" \in DOMAIN BytePackers /\ BytePackers["Pack4BytesSwapSwapFirst"] = Writes(1, <<2, 1, 0, 3>>, Plain)
    BY DEF BytePackers
  <2>3. Pack("Pack4BytesSwapSwapFirst", f, b) = Writes(1, <<2, 1, 0, 3>>, Taking("sample", {}))
    BY <2>2, BytePack DEF Plain
  <2>4. Arranged(<<2, 1, 0, 3>>, 4, 0, {"swap", "first"})
    BY DEF Arranged, Spot, Zero, Kept
  <2>5. Unhinted(f) \notin LabV2Formats
    BY <1>31
  <2>6. QED
    BY <1>31, <2>1, <2>3, <2>4, <2>5, FixedPacks
<1>32. CASE r = 32
  <2>1. OutputFormatters16[32] = Row(Fmt("any", 6, 0, 1, {}), {"space"}, "Pack6Bytes")
    BY DEF OutputFormatters16, AnySpace
  <2>2. "Pack6Bytes" \in DOMAIN BytePackers /\ BytePackers["Pack6Bytes"] = Writes(1, <<0, 1, 2, 3, 4, 5>>, Plain)
    BY DEF BytePackers
  <2>3. Pack("Pack6Bytes", f, b) = Writes(1, <<0, 1, 2, 3, 4, 5>>, Taking("sample", {}))
    BY <2>2, BytePack DEF Plain
  <2>4. Arranged(<<0, 1, 2, 3, 4, 5>>, 6, 0, {})
    BY DEF Arranged, Spot, Zero, Kept
  <2>5. Unhinted(f) \notin LabV2Formats
    BY <1>32
  <2>6. QED
    BY <1>32, <2>1, <2>3, <2>4, <2>5, FixedPacks
<1>33. CASE r = 33
  <2>1. OutputFormatters16[33] = Row(Fmt("any", 6, 0, 1, {"swap"}), {"space"}, "Pack6BytesSwap")
    BY DEF OutputFormatters16, AnySpace
  <2>2. "Pack6BytesSwap" \in DOMAIN BytePackers /\ BytePackers["Pack6BytesSwap"] = Writes(1, <<5, 4, 3, 2, 1, 0>>, Plain)
    BY DEF BytePackers
  <2>3. Pack("Pack6BytesSwap", f, b) = Writes(1, <<5, 4, 3, 2, 1, 0>>, Taking("sample", {}))
    BY <2>2, BytePack DEF Plain
  <2>4. Arranged(<<5, 4, 3, 2, 1, 0>>, 6, 0, {"swap"})
    BY DEF Arranged, Spot, Zero, Kept
  <2>5. Unhinted(f) \notin LabV2Formats
    BY <1>33
  <2>6. QED
    BY <1>33, <2>1, <2>3, <2>4, <2>5, FixedPacks
<1>36. CASE r = 36
  <2>1. OutputFormatters16[36] = Row(Fmt("any", 1, 0, 2, {}), {"space"}, "Pack1Word")
    BY DEF OutputFormatters16, AnySpace
  <2>2. "Pack1Word" \in DOMAIN GrayPackers /\ GrayPackers["Pack1Word"] = Writes(2, <<0>>, Plain)
    BY DEF GrayPackers
  <2>3. Pack("Pack1Word", f, b) = Writes(2, <<0>>, Taking("sample", {}))
    BY <2>2, GrayPack DEF Plain
  <2>4. Arranged(<<0>>, 1, 0, {})
    BY DEF Arranged, Spot, Zero, Kept
  <2>5. Unhinted(f) \notin LabV2Formats
    BY <1>36
  <2>6. QED
    BY <1>36, <2>1, <2>3, <2>4, <2>5, FixedPacks
<1>37. CASE r = 37
  <2>1. OutputFormatters16[37] = Row(Fmt("any", 1, 1, 2, {}), {"space"}, "Pack1WordSkip1")
    BY DEF OutputFormatters16, AnySpace
  <2>2. "Pack1WordSkip1" \in DOMAIN GrayPackers /\ GrayPackers["Pack1WordSkip1"] = Writes(2, <<0, Kept>>, Plain)
    BY DEF GrayPackers
  <2>3. Pack("Pack1WordSkip1", f, b) = Writes(2, <<0, Kept>>, Taking("sample", {}))
    BY <2>2, GrayPack DEF Plain
  <2>4. Arranged(<<0, Kept>>, 1, 1, {})
    BY DEF Arranged, Spot, Zero, Kept
  <2>5. Unhinted(f) \notin LabV2Formats
    BY <1>37
  <2>6. QED
    BY <1>37, <2>1, <2>3, <2>4, <2>5, FixedPacks
<1>38. CASE r = 38
  <2>1. OutputFormatters16[38] = Row(Fmt("any", 1, 1, 2, {"first"}), {"space"}, "Pack1WordSkip1SwapFirst")
    BY DEF OutputFormatters16, AnySpace
  <2>2. "Pack1WordSkip1SwapFirst" \in DOMAIN GrayPackers /\ GrayPackers["Pack1WordSkip1SwapFirst"] = Writes(2, <<Kept, 0>>, Plain)
    BY DEF GrayPackers
  <2>3. Pack("Pack1WordSkip1SwapFirst", f, b) = Writes(2, <<Kept, 0>>, Taking("sample", {}))
    BY <2>2, GrayPack DEF Plain
  <2>4. Arranged(<<Kept, 0>>, 1, 1, {"first"})
    BY DEF Arranged, Spot, Zero, Kept
  <2>5. Unhinted(f) \notin LabV2Formats
    BY <1>38
  <2>6. QED
    BY <1>38, <2>1, <2>3, <2>4, <2>5, FixedPacks
<1>39. CASE r = 39
  <2>1. OutputFormatters16[39] = Row(Fmt("any", 1, 0, 2, {"flavor"}), {"space"}, "Pack1WordReversed")
    BY DEF OutputFormatters16, AnySpace
  <2>2. "Pack1WordReversed" \in DOMAIN GrayPackers /\ GrayPackers["Pack1WordReversed"] = Writes(2, <<0>>, Reversed)
    BY DEF GrayPackers
  <2>3. Pack("Pack1WordReversed", f, b) = Writes(2, <<0>>, Taking("sample", {"flavor"}))
    BY <2>2, GrayPack DEF Reversed
  <2>4. Arranged(<<0>>, 1, 0, {"flavor"})
    BY DEF Arranged, Spot, Zero, Kept
  <2>5. Unhinted(f) \notin LabV2Formats
    BY <1>39
  <2>6. QED
    BY <1>39, <2>1, <2>3, <2>4, <2>5, FixedPacks
<1>40. CASE r = 40
  <2>1. OutputFormatters16[40] = Row(Fmt("any", 1, 0, 2, {"endian"}), {"space"}, "Pack1WordBigEndian")
    BY DEF OutputFormatters16, AnySpace
  <2>2. "Pack1WordBigEndian" \in DOMAIN GrayPackers /\ GrayPackers["Pack1WordBigEndian"] = Writes(2, <<0>>, BigEndian)
    BY DEF GrayPackers
  <2>3. Pack("Pack1WordBigEndian", f, b) = Writes(2, <<0>>, Taking("sample", {"endian"}))
    BY <2>2, GrayPack DEF BigEndian
  <2>4. Arranged(<<0>>, 1, 0, {"endian"})
    BY DEF Arranged, Spot, Zero, Kept
  <2>5. Unhinted(f) \notin LabV2Formats
    BY <1>40
  <2>6. QED
    BY <1>40, <2>1, <2>3, <2>4, <2>5, FixedPacks
<1>41. CASE r = 41
  <2>1. OutputFormatters16[41] = Row(Fmt("any", 3, 0, 2, {}), {"space"}, "Pack3Words")
    BY DEF OutputFormatters16, AnySpace
  <2>2. "Pack3Words" \in DOMAIN ThreeWordPackers /\ ThreeWordPackers["Pack3Words"] = Writes(2, <<0, 1, 2>>, Plain)
    BY DEF ThreeWordPackers
  <2>3. Pack("Pack3Words", f, b) = Writes(2, <<0, 1, 2>>, Taking("sample", {}))
    BY <2>2, ThreeWordPack DEF Plain
  <2>4. Arranged(<<0, 1, 2>>, 3, 0, {})
    BY DEF Arranged, Spot, Zero, Kept
  <2>5. Unhinted(f) \notin LabV2Formats
    BY <1>41
  <2>6. QED
    BY <1>41, <2>1, <2>3, <2>4, <2>5, FixedPacks
<1>42. CASE r = 42
  <2>1. OutputFormatters16[42] = Row(Fmt("any", 3, 0, 2, {"swap"}), {"space"}, "Pack3WordsSwap")
    BY DEF OutputFormatters16, AnySpace
  <2>2. "Pack3WordsSwap" \in DOMAIN ThreeWordPackers /\ ThreeWordPackers["Pack3WordsSwap"] = Writes(2, <<2, 1, 0>>, Plain)
    BY DEF ThreeWordPackers
  <2>3. Pack("Pack3WordsSwap", f, b) = Writes(2, <<2, 1, 0>>, Taking("sample", {}))
    BY <2>2, ThreeWordPack DEF Plain
  <2>4. Arranged(<<2, 1, 0>>, 3, 0, {"swap"})
    BY DEF Arranged, Spot, Zero, Kept
  <2>5. Unhinted(f) \notin LabV2Formats
    BY <1>42
  <2>6. QED
    BY <1>42, <2>1, <2>3, <2>4, <2>5, FixedPacks
<1>43. CASE r = 43
  <2>1. OutputFormatters16[43] = Row(Fmt("any", 3, 0, 2, {"endian"}), {"space"}, "Pack3WordsBigEndian")
    BY DEF OutputFormatters16, AnySpace
  <2>2. "Pack3WordsBigEndian" \in DOMAIN ThreeWordPackers /\ ThreeWordPackers["Pack3WordsBigEndian"] = Writes(2, <<0, 1, 2>>, BigEndian)
    BY DEF ThreeWordPackers
  <2>3. Pack("Pack3WordsBigEndian", f, b) = Writes(2, <<0, 1, 2>>, Taking("sample", {"endian"}))
    BY <2>2, ThreeWordPack DEF BigEndian
  <2>4. Arranged(<<0, 1, 2>>, 3, 0, {"endian"})
    BY DEF Arranged, Spot, Zero, Kept
  <2>5. Unhinted(f) \notin LabV2Formats
    BY <1>43
  <2>6. QED
    BY <1>43, <2>1, <2>3, <2>4, <2>5, FixedPacks
<1>44. CASE r = 44
  <2>1. OutputFormatters16[44] = Row(Fmt("any", 3, 1, 2, {}), {"space"}, "Pack3WordsAndSkip1")
    BY DEF OutputFormatters16, AnySpace
  <2>2. "Pack3WordsAndSkip1" \in DOMAIN ThreeWordPackers /\ ThreeWordPackers["Pack3WordsAndSkip1"] = Writes(2, <<0, 1, 2, Kept>>, Plain)
    BY DEF ThreeWordPackers
  <2>3. Pack("Pack3WordsAndSkip1", f, b) = Writes(2, <<0, 1, 2, Kept>>, Taking("sample", {}))
    BY <2>2, ThreeWordPack DEF Plain
  <2>4. Arranged(<<0, 1, 2, Kept>>, 3, 1, {})
    BY DEF Arranged, Spot, Zero, Kept
  <2>5. Unhinted(f) \notin LabV2Formats
    BY <1>44
  <2>6. QED
    BY <1>44, <2>1, <2>3, <2>4, <2>5, FixedPacks
<1>45. CASE r = 45
  <2>1. OutputFormatters16[45] = Row(Fmt("any", 3, 1, 2, {"swap"}), {"space"}, "Pack3WordsAndSkip1Swap")
    BY DEF OutputFormatters16, AnySpace
  <2>2. "Pack3WordsAndSkip1Swap" \in DOMAIN ThreeWordPackers /\ ThreeWordPackers["Pack3WordsAndSkip1Swap"] = Writes(2, <<Kept, 2, 1, 0>>, Plain)
    BY DEF ThreeWordPackers
  <2>3. Pack("Pack3WordsAndSkip1Swap", f, b) = Writes(2, <<Kept, 2, 1, 0>>, Taking("sample", {}))
    BY <2>2, ThreeWordPack DEF Plain
  <2>4. Arranged(<<Kept, 2, 1, 0>>, 3, 1, {"swap"})
    BY DEF Arranged, Spot, Zero, Kept
  <2>5. Unhinted(f) \notin LabV2Formats
    BY <1>45
  <2>6. QED
    BY <1>45, <2>1, <2>3, <2>4, <2>5, FixedPacks
<1>46. CASE r = 46
  <2>1. OutputFormatters16[46] = Row(Fmt("any", 3, 1, 2, {"first"}), {"space"}, "Pack3WordsAndSkip1SwapFirst")
    BY DEF OutputFormatters16, AnySpace
  <2>2. "Pack3WordsAndSkip1SwapFirst" \in DOMAIN ThreeWordPackers /\ ThreeWordPackers["Pack3WordsAndSkip1SwapFirst"] = Writes(2, <<Kept, 0, 1, 2>>, Plain)
    BY DEF ThreeWordPackers
  <2>3. Pack("Pack3WordsAndSkip1SwapFirst", f, b) = Writes(2, <<Kept, 0, 1, 2>>, Taking("sample", {}))
    BY <2>2, ThreeWordPack DEF Plain
  <2>4. Arranged(<<Kept, 0, 1, 2>>, 3, 1, {"first"})
    BY DEF Arranged, Spot, Zero, Kept
  <2>5. Unhinted(f) \notin LabV2Formats
    BY <1>46
  <2>6. QED
    BY <1>46, <2>1, <2>3, <2>4, <2>5, FixedPacks
<1>47. CASE r = 47
  <2>1. OutputFormatters16[47] = Row(Fmt("any", 3, 1, 2, {"swap", "first"}), {"space"}, "Pack3WordsAndSkip1SwapSwapFirst")
    BY DEF OutputFormatters16, AnySpace
  <2>2. "Pack3WordsAndSkip1SwapSwapFirst" \in DOMAIN ThreeWordPackers /\ ThreeWordPackers["Pack3WordsAndSkip1SwapSwapFirst"] = Writes(2, <<2, 1, 0, Kept>>, Plain)
    BY DEF ThreeWordPackers
  <2>3. Pack("Pack3WordsAndSkip1SwapSwapFirst", f, b) = Writes(2, <<2, 1, 0, Kept>>, Taking("sample", {}))
    BY <2>2, ThreeWordPack DEF Plain
  <2>4. Arranged(<<2, 1, 0, Kept>>, 3, 1, {"swap", "first"})
    BY DEF Arranged, Spot, Zero, Kept
  <2>5. Unhinted(f) \notin LabV2Formats
    BY <1>47
  <2>6. QED
    BY <1>47, <2>1, <2>3, <2>4, <2>5, FixedPacks
<1>48. CASE r = 48
  <2>1. OutputFormatters16[48] = Row(Fmt("any", 4, 0, 2, {}), {"space"}, "Pack4Words")
    BY DEF OutputFormatters16, AnySpace
  <2>2. "Pack4Words" \in DOMAIN WordPackers /\ WordPackers["Pack4Words"] = Writes(2, <<0, 1, 2, 3>>, Plain)
    BY DEF WordPackers
  <2>3. Pack("Pack4Words", f, b) = Writes(2, <<0, 1, 2, 3>>, Taking("sample", {}))
    BY <2>2, WordPack DEF Plain
  <2>4. Arranged(<<0, 1, 2, 3>>, 4, 0, {})
    BY DEF Arranged, Spot, Zero, Kept
  <2>5. Unhinted(f) \notin LabV2Formats
    BY <1>48
  <2>6. QED
    BY <1>48, <2>1, <2>3, <2>4, <2>5, FixedPacks
<1>49. CASE r = 49
  <2>1. OutputFormatters16[49] = Row(Fmt("any", 4, 0, 2, {"flavor"}), {"space"}, "Pack4WordsReverse")
    BY DEF OutputFormatters16, AnySpace
  <2>2. "Pack4WordsReverse" \in DOMAIN WordPackers /\ WordPackers["Pack4WordsReverse"] = Writes(2, <<0, 1, 2, 3>>, Reversed)
    BY DEF WordPackers
  <2>3. Pack("Pack4WordsReverse", f, b) = Writes(2, <<0, 1, 2, 3>>, Taking("sample", {"flavor"}))
    BY <2>2, WordPack DEF Reversed
  <2>4. Arranged(<<0, 1, 2, 3>>, 4, 0, {"flavor"})
    BY DEF Arranged, Spot, Zero, Kept
  <2>5. Unhinted(f) \notin LabV2Formats
    BY <1>49
  <2>6. QED
    BY <1>49, <2>1, <2>3, <2>4, <2>5, FixedPacks
<1>50. CASE r = 50
  <2>1. OutputFormatters16[50] = Row(Fmt("any", 4, 0, 2, {"swap"}), {"space"}, "Pack4WordsSwap")
    BY DEF OutputFormatters16, AnySpace
  <2>2. "Pack4WordsSwap" \in DOMAIN WordPackers /\ WordPackers["Pack4WordsSwap"] = Writes(2, <<3, 2, 1, 0>>, Plain)
    BY DEF WordPackers
  <2>3. Pack("Pack4WordsSwap", f, b) = Writes(2, <<3, 2, 1, 0>>, Taking("sample", {}))
    BY <2>2, WordPack DEF Plain
  <2>4. Arranged(<<3, 2, 1, 0>>, 4, 0, {"swap"})
    BY DEF Arranged, Spot, Zero, Kept
  <2>5. Unhinted(f) \notin LabV2Formats
    BY <1>50
  <2>6. QED
    BY <1>50, <2>1, <2>3, <2>4, <2>5, FixedPacks
<1>51. CASE r = 51
  <2>1. OutputFormatters16[51] = Row(Fmt("any", 4, 0, 2, {"endian"}), {"space"}, "Pack4WordsBigEndian")
    BY DEF OutputFormatters16, AnySpace
  <2>2. "Pack4WordsBigEndian" \in DOMAIN WordPackers /\ WordPackers["Pack4WordsBigEndian"] = Writes(2, <<0, 1, 2, 3>>, BigEndian)
    BY DEF WordPackers
  <2>3. Pack("Pack4WordsBigEndian", f, b) = Writes(2, <<0, 1, 2, 3>>, Taking("sample", {"endian"}))
    BY <2>2, WordPack DEF BigEndian
  <2>4. Arranged(<<0, 1, 2, 3>>, 4, 0, {"endian"})
    BY DEF Arranged, Spot, Zero, Kept
  <2>5. Unhinted(f) \notin LabV2Formats
    BY <1>51
  <2>6. QED
    BY <1>51, <2>1, <2>3, <2>4, <2>5, FixedPacks
<1>52. CASE r = 52
  <2>1. OutputFormatters16[52] = Row(Fmt("any", 6, 0, 2, {}), {"space"}, "Pack6Words")
    BY DEF OutputFormatters16, AnySpace
  <2>2. "Pack6Words" \in DOMAIN WordPackers /\ WordPackers["Pack6Words"] = Writes(2, <<0, 1, 2, 3, 4, 5>>, Plain)
    BY DEF WordPackers
  <2>3. Pack("Pack6Words", f, b) = Writes(2, <<0, 1, 2, 3, 4, 5>>, Taking("sample", {}))
    BY <2>2, WordPack DEF Plain
  <2>4. Arranged(<<0, 1, 2, 3, 4, 5>>, 6, 0, {})
    BY DEF Arranged, Spot, Zero, Kept
  <2>5. Unhinted(f) \notin LabV2Formats
    BY <1>52
  <2>6. QED
    BY <1>52, <2>1, <2>3, <2>4, <2>5, FixedPacks
<1>53. CASE r = 53
  <2>1. OutputFormatters16[53] = Row(Fmt("any", 6, 0, 2, {"swap"}), {"space"}, "Pack6WordsSwap")
    BY DEF OutputFormatters16, AnySpace
  <2>2. "Pack6WordsSwap" \in DOMAIN WordPackers /\ WordPackers["Pack6WordsSwap"] = Writes(2, <<5, 4, 3, 2, 1, 0>>, Plain)
    BY DEF WordPackers
  <2>3. Pack("Pack6WordsSwap", f, b) = Writes(2, <<5, 4, 3, 2, 1, 0>>, Taking("sample", {}))
    BY <2>2, WordPack DEF Plain
  <2>4. Arranged(<<5, 4, 3, 2, 1, 0>>, 6, 0, {"swap"})
    BY DEF Arranged, Spot, Zero, Kept
  <2>5. Unhinted(f) \notin LabV2Formats
    BY <1>53
  <2>6. QED
    BY <1>53, <2>1, <2>3, <2>4, <2>5, FixedPacks
<1>100. QED
  BY <1>8, <1>9, <1>10, <1>11, <1>12, <1>13, <1>14, <1>15, <1>16, <1>17, <1>18, <1>19, <1>20, <1>21, <1>22, <1>23, <1>24, <1>25, <1>26, <1>27, <1>28, <1>29, <1>30, <1>31, <1>32, <1>33, <1>36, <1>37, <1>38, <1>39, <1>40, <1>41, <1>42, <1>43, <1>44, <1>45, <1>46, <1>47, <1>48, <1>49, <1>50, <1>51, <1>52, <1>53

\* and those that leave the layout to the formatter.
LEMMA Output16Open ==
  ASSUME NEW f, IsFormat(f), f.channels > 0, NEW r \in 1 .. 55, Fits(Unhinted(f), OutputFormatters16[r]),
         Unhinted(f) \in LabV2Formats => r < 15,
         r \in 1 .. 7 \cup {34, 35, 54, 55}
  PROVE  Keeps(OutputFormatters16[r].frm, f)
<1> DEFINE b == BytesPerPlane(f)
<1>1. CASE r = 1
  <2>1. OutputFormatters16[1] = Row(Fmt("Lab", 3, 0, 0, {"float"}), AnyTriple, "PackLabDoubleFrom16")
    BY DEF OutputFormatters16
  <2>2. Pack("PackLabDoubleFrom16", f, b) = StoreTriple(f, 8, Apart(f, 8, b), 3)
    BY ReckonedPack DEF PackLabDoubleFrom16
  <2>3. /\ OutputFormatters16[r].frm = "PackLabDoubleFrom16"
        /\ LET p == StoreTriple(f, 8, Apart(f, 8, b), 3)
           IN  Tidy(p, f) /\ Stores(p, f) /\ Sound(p) /\ Modest(p, f)
    BY <1>1, <2>1, TriplePacks
  <2>4. QED
    BY <2>2, <2>3, AllKeep
<1>2. CASE r = 2
  <2>1. OutputFormatters16[2] = Row(Fmt("XYZ", 3, 0, 0, {"float"}), AnyTriple, "PackXYZDoubleFrom16")
    BY DEF OutputFormatters16
  <2>2. Pack("PackXYZDoubleFrom16", f, b) = StoreTriple(f, 8, Apart(f, 8, b), 3)
    BY ReckonedPack DEF PackXYZDoubleFrom16
  <2>3. /\ OutputFormatters16[r].frm = "PackXYZDoubleFrom16"
        /\ LET p == StoreTriple(f, 8, Apart(f, 8, b), 3)
           IN  Tidy(p, f) /\ Stores(p, f) /\ Sound(p) /\ Modest(p, f)
    BY <1>2, <2>1, TriplePacks
  <2>4. QED
    BY <2>2, <2>3, AllKeep
<1>3. CASE r = 3
  <2>1. OutputFormatters16[3] = Row(Fmt("Lab", 3, 0, 4, {"float"}), AnyTriple, "PackLabFloatFrom16")
    BY DEF OutputFormatters16
  <2>2. Pack("PackLabFloatFrom16", f, b) = StoreTriple(f, 4, Apart(f, 4, b), 3)
    BY ReckonedPack DEF PackLabFloatFrom16
  <2>3. /\ OutputFormatters16[r].frm = "PackLabFloatFrom16"
        /\ LET p == StoreTriple(f, 4, Apart(f, 4, b), 3)
           IN  Tidy(p, f) /\ Stores(p, f) /\ Sound(p) /\ Modest(p, f)
    BY <1>3, <2>1, TriplePacks
  <2>4. QED
    BY <2>2, <2>3, AllKeep
<1>4. CASE r = 4
  <2>1. OutputFormatters16[4] = Row(Fmt("XYZ", 3, 0, 4, {"float"}), AnyTriple, "PackXYZFloatFrom16")
    BY DEF OutputFormatters16
  <2>2. Pack("PackXYZFloatFrom16", f, b) = StoreTriple(f, 4, Apart(f, 4, b), 3)
    BY ReckonedPack DEF PackXYZFloatFrom16
  <2>3. /\ OutputFormatters16[r].frm = "PackXYZFloatFrom16"
        /\ LET p == StoreTriple(f, 4, Apart(f, 4, b), 3)
           IN  Tidy(p, f) /\ Stores(p, f) /\ Sound(p) /\ Modest(p, f)
    BY <1>4, <2>1, TriplePacks
  <2>4. QED
    BY <2>2, <2>3, AllKeep
<1>5. CASE r = 5
  <2>1. OutputFormatters16[5] = Row(Fmt("any", 0, 0, 0, {"float"}), AnyColours \cup {"planar", "flavor", "first"}, "PackDoubleFrom16")
    BY DEF OutputFormatters16
  <2>2. /\ OutputFormatters16[r].frm = "PackDoubleFrom16" /\ "float" \in f.flags /\ ~Premultiplied(f)
    BY <1>5, <2>1, OpenPacks DEF AnyColours, Is, Premultiplied
  <2>3. As(f) = "sample"
    BY <2>2, Hinted, LabFields DEF As
  <2>4. Pack("PackDoubleFrom16", f, b) = FloatWrites(f, b, TRUE)
    BY ReckonedPack DEF PackDoubleFrom16
  <2>5. Sound(Pack("PackDoubleFrom16", f, b)) /\ Modest(Pack("PackDoubleFrom16", f, b), f)
    <3>1. \A last \in {TRUE, FALSE} : Sound(FloatWrites(f, b, last)) /\ Modest(FloatWrites(f, b, last), f)
      BY FloatSound
    <3>2. QED
      BY <2>4, <3>1
  <2>6. CASE Is("planar", f)
    <3>1. Overlaps("PackDoubleFrom16", f) /\ Misplaces("PackDoubleFrom16", f)
      BY <2>6 DEF Misplaces, Overlaps
    <3>2. QED
      BY <2>2, <2>6, <2>5, <3>1 DEF Keeps
  <2>7. CASE ~Is("planar", f)
    <3>1. Tidy(Pack("PackDoubleFrom16", f, b), f)
      BY <2>4, <2>7, FloatTidy
    <3>2. ASSUME ~Misplaces("PackDoubleFrom16", f)
          PROVE  Stores(Pack("PackDoubleFrom16", f, b), f)
      <4>1. ~(SwappedFirst(f) /\ Is("swap", f))
        BY <3>2 DEF Misplaces
      <4>2. \A last \in {TRUE, FALSE} :
              (SwappedFirst(f) => last /\ ~Is("swap", f)) => Stores(FloatWrites(f, b, last), f)
        BY <2>2, <2>3, <2>7, FloatStores
      <4>3. QED
        BY <2>4, <4>1, <4>2
    <3>3. QED
      BY <2>2, <2>5, <3>1, <3>2 DEF Keeps
  <2>8. QED
    BY <2>6, <2>7
<1>6. CASE r = 6
  <2>1. OutputFormatters16[6] = Row(Fmt("any", 0, 0, 4, {"float"}), AnyColours \cup {"planar", "flavor", "first"}, "PackFloatFrom16")
    BY DEF OutputFormatters16
  <2>2. /\ OutputFormatters16[r].frm = "PackFloatFrom16" /\ "float" \in f.flags /\ ~Premultiplied(f)
    BY <1>6, <2>1, OpenPacks DEF AnyColours, Is, Premultiplied
  <2>3. As(f) = "sample"
    BY <2>2, Hinted, LabFields DEF As
  <2>4. Pack("PackFloatFrom16", f, b) = FloatWrites(f, b, TRUE)
    BY ReckonedPack DEF PackFloatFrom16
  <2>5. Sound(Pack("PackFloatFrom16", f, b)) /\ Modest(Pack("PackFloatFrom16", f, b), f)
    <3>1. \A last \in {TRUE, FALSE} : Sound(FloatWrites(f, b, last)) /\ Modest(FloatWrites(f, b, last), f)
      BY FloatSound
    <3>2. QED
      BY <2>4, <3>1
  <2>6. CASE Is("planar", f)
    <3>1. Overlaps("PackFloatFrom16", f) /\ Misplaces("PackFloatFrom16", f)
      BY <2>6 DEF Misplaces, Overlaps
    <3>2. QED
      BY <2>2, <2>6, <2>5, <3>1 DEF Keeps
  <2>7. CASE ~Is("planar", f)
    <3>1. Tidy(Pack("PackFloatFrom16", f, b), f)
      BY <2>4, <2>7, FloatTidy
    <3>2. ASSUME ~Misplaces("PackFloatFrom16", f)
          PROVE  Stores(Pack("PackFloatFrom16", f, b), f)
      <4>1. ~(SwappedFirst(f) /\ Is("swap", f))
        BY <3>2 DEF Misplaces
      <4>2. \A last \in {TRUE, FALSE} :
              (SwappedFirst(f) => last /\ ~Is("swap", f)) => Stores(FloatWrites(f, b, last), f)
        BY <2>2, <2>3, <2>7, FloatStores
      <4>3. QED
        BY <2>4, <4>1, <4>2
    <3>3. QED
      BY <2>2, <2>5, <3>1, <3>2 DEF Keeps
  <2>8. QED
    BY <2>6, <2>7
<1>7. CASE r = 7
  <2>1. OutputFormatters16[7] = Row(Fmt("any", 0, 0, 2, {"float"}), AnyColours \cup {"planar", "flavor", "first"}, "PackHalfFrom16")
    BY DEF OutputFormatters16
  <2>2. OutputFormatters16[r].frm = "PackHalfFrom16" /\ Misplaces("PackHalfFrom16", f)
    BY <1>7, <2>1 DEF Row, Misplaces, Overlaps
  <2>3. Tidy(Pack("PackHalfFrom16", f, b), f) /\ Sound(Pack("PackHalfFrom16", f, b)) /\ Modest(Pack("PackHalfFrom16", f, b), f)
    BY ReckonedPack, HalfsTidy
  <2>4. QED
    BY <2>2, <2>3 DEF Keeps
<1>34. CASE r = 34
  <2>1. OutputFormatters16[34] = Row(Fmt("any", 0, 0, 1, {}), AnyColours \cup {"flavor", "first", "premul"}, "PackChunkyBytes")
    BY DEF OutputFormatters16
  <2>2. /\ OutputFormatters16[r].frm = "PackChunkyBytes" /\ f.bytes = 1 /\ ~Is("planar", f) /\ r > 14
    BY <1>34, <2>1, OpenPacks DEF AnyColours, Is
  <2>3. As(f) = "sample" /\ Pack("PackChunkyBytes", f, b) = PackChunkyBytes(f)
    BY <2>2, ReckonedPack DEF As
  <2>4. ~Misplaces("PackChunkyBytes", f) => (SwappedFirst(f) => ~Is("swap", f)) /\ ~LacksAlpha(f)
    BY DEF Misplaces
  <2>5. QED
    BY <2>2, <2>3, <2>4, ChunkyStores DEF Keeps
<1>35. CASE r = 35
  <2>1. OutputFormatters16[35] = Row(Fmt("any", 0, 0, 1, {"planar"}), AnyColours \cup {"flavor", "first", "premul"}, "PackPlanarBytes")
    BY DEF OutputFormatters16
  <2>2. /\ OutputFormatters16[r].frm = "PackPlanarBytes" /\ f.bytes = 1 /\ Is("planar", f) /\ r > 14
    BY <1>35, <2>1, OpenPacks DEF AnyColours, Is
  <2>3. As(f) = "sample" /\ Pack("PackPlanarBytes", f, b) = PackPlanarBytes(f, b)
    BY <2>2, ReckonedPack DEF As
  <2>4. SwappedFirst(f) \/ LacksAlpha(f) => Misplaces("PackPlanarBytes", f)
    BY DEF Misplaces
  <2>5. Sound(PackPlanarBytes(f, b)) /\ Modest(PackPlanarBytes(f, b), f)
    BY <2>2, PlanarSound
  <2>6. QED
    BY <2>2, <2>3, <2>4, <2>5, PlanarStores DEF Keeps
<1>54. CASE r = 54
  <2>1. OutputFormatters16[54] = Row(Fmt("any", 0, 0, 2, {}), AnyColours \cup {"endian", "flavor", "first", "premul"}, "PackChunkyWords")
    BY DEF OutputFormatters16
  <2>2. OutputFormatters16[r].frm = "PackChunkyWords" /\ f.bytes = 2 /\ ~Is("planar", f)
    BY <1>54, <2>1, OpenPacks DEF AnyColours, Is
  <2>3. Pack("PackChunkyWords", f, b) = PackChunkyWords(f)
    BY ReckonedPack
  <2>4. Sound(Pack("PackChunkyWords", f, b)) /\ Modest(Pack("PackChunkyWords", f, b), f)
    BY <2>2, <2>3, ChunkyWordsSound
  <2>5. QED
    BY <2>2, <2>4 DEF Keeps, Misplaces, Overlaps
<1>55. CASE r = 55
  <2>1. OutputFormatters16[55] = Row(Fmt("any", 0, 0, 2, {"planar"}), AnyColours \cup {"endian", "flavor", "premul"}, "PackPlanarWords")
    BY DEF OutputFormatters16
  <2>2. OutputFormatters16[r].frm = "PackPlanarWords" /\ f.bytes = 2 /\ Is("planar", f)
    BY <1>55, <2>1, OpenPacks DEF AnyColours, Is
  <2>3. Pack("PackPlanarWords", f, b) = PackPlanarWords(f, b)
    BY ReckonedPack
  <2>4. Sound(Pack("PackPlanarWords", f, b)) /\ Modest(Pack("PackPlanarWords", f, b), f)
    BY <2>2, <2>3, PlanarSound
  <2>5. QED
    BY <2>2, <2>4 DEF Keeps, Misplaces, Overlaps
<1>100. QED
  BY <1>1, <1>2, <1>3, <1>4, <1>5, <1>6, <1>7, <1>34, <1>35, <1>54, <1>55

\* The rows of floats.
LEMMA OutputFloatRows ==
  ASSUME NEW f, IsFormat(f), f.channels > 0, NEW r \in 1 .. 7, Fits(Unhinted(f), OutputFormattersFloat[r])
  PROVE  Keeps(OutputFormattersFloat[r].frm, f)
<1> DEFINE b == BytesPerPlane(f)
<1>1. CASE r = 1
  <2>1. OutputFormattersFloat[1] = Row(Fmt("Lab", 3, 0, 4, {"float"}), AnyTriple, "PackLabFloatFromFloat")
    BY DEF OutputFormattersFloat
  <2>2. /\ OutputFormattersFloat[r].frm = "PackLabFloatFromFloat"
        /\ LET p == StoreTriple(f, 4, Apart(f, 4, b), 3)
           IN  Tidy(p, f) /\ Stores(p, f) /\ Sound(p) /\ Modest(p, f)
    BY <1>1, <2>1, TriplePacks
  <2>3. ~Is("planar", f) => Pack("PackLabFloatFromFloat", f, b) = StoreTriple(f, 4, Apart(f, 4, b), 3)
    BY ReckonedPack DEF PackLabFloatFromFloat, Apart
  <2>4. CASE Is("planar", f)
    <3>1. Overlaps("PackLabFloatFromFloat", f) /\ Misplaces("PackLabFloatFromFloat", f)
      BY <2>4 DEF Misplaces, Overlaps
    <3>2. Pack("PackLabFloatFromFloat", f, b) = StoreTriple(f, 4, 4, 1)
      BY <2>4, ReckonedPack DEF PackLabFloatFromFloat
    <3>3. Sound(Pack("PackLabFloatFromFloat", f, b)) /\ Modest(Pack("PackLabFloatFromFloat", f, b), f)
      BY <2>4, <3>2, TripleSound DEF Modest
    <3>4. QED
      BY <2>2, <2>4, <3>1, <3>3 DEF Keeps
  <2>5. CASE ~Is("planar", f)
    BY <2>2, <2>3, <2>5, AllKeep
  <2>6. QED
    BY <2>4, <2>5
<1>2. CASE r = 2
  <2>1. OutputFormattersFloat[2] = Row(Fmt("XYZ", 3, 0, 4, {"float"}), AnyTriple, "PackXYZFloatFromFloat")
    BY DEF OutputFormattersFloat
  <2>2. /\ OutputFormattersFloat[r].frm = "PackXYZFloatFromFloat"
        /\ LET p == StoreTriple(f, 4, Apart(f, 4, b), 3)
           IN  Tidy(p, f) /\ Stores(p, f) /\ Sound(p) /\ Modest(p, f)
    BY <1>2, <2>1, TriplePacks
  <2>3. ~Is("planar", f) => Pack("PackXYZFloatFromFloat", f, b) = StoreTriple(f, 4, Apart(f, 4, b), 3)
    BY ReckonedPack DEF PackXYZFloatFromFloat, Apart
  <2>4. CASE Is("planar", f)
    <3>1. Overlaps("PackXYZFloatFromFloat", f) /\ Misplaces("PackXYZFloatFromFloat", f)
      BY <2>4 DEF Misplaces, Overlaps
    <3>2. Pack("PackXYZFloatFromFloat", f, b) = StoreTriple(f, 4, 4, 1)
      BY <2>4, ReckonedPack DEF PackXYZFloatFromFloat
    <3>3. Sound(Pack("PackXYZFloatFromFloat", f, b)) /\ Modest(Pack("PackXYZFloatFromFloat", f, b), f)
      BY <2>4, <3>2, TripleSound DEF Modest
    <3>4. QED
      BY <2>2, <2>4, <3>1, <3>3 DEF Keeps
  <2>5. CASE ~Is("planar", f)
    BY <2>2, <2>3, <2>5, AllKeep
  <2>6. QED
    BY <2>4, <2>5
<1>3. CASE r = 3
  <2>1. OutputFormattersFloat[3] = Row(Fmt("Lab", 3, 0, 0, {"float"}), AnyTriple, "PackLabDoubleFromFloat")
    BY DEF OutputFormattersFloat
  <2>2. /\ OutputFormattersFloat[r].frm = "PackLabDoubleFromFloat"
        /\ LET p == StoreTriple(f, 8, Apart(f, 8, b), 3)
           IN  Tidy(p, f) /\ Stores(p, f) /\ Sound(p) /\ Modest(p, f)
    BY <1>3, <2>1, TriplePacks
  <2>3. ~Is("planar", f) => Pack("PackLabDoubleFromFloat", f, b) = StoreTriple(f, 8, Apart(f, 8, b), 3)
    BY ReckonedPack DEF PackLabDoubleFromFloat, Apart
  <2>4. CASE Is("planar", f)
    <3>1. Overlaps("PackLabDoubleFromFloat", f) /\ Misplaces("PackLabDoubleFromFloat", f)
      BY <2>4 DEF Misplaces, Overlaps
    <3>2. Pack("PackLabDoubleFromFloat", f, b) = StoreTriple(f, 8, 8, 1)
      BY <2>4, ReckonedPack DEF PackLabDoubleFromFloat
    <3>3. Sound(Pack("PackLabDoubleFromFloat", f, b)) /\ Modest(Pack("PackLabDoubleFromFloat", f, b), f)
      BY <2>4, <3>2, TripleSound DEF Modest
    <3>4. QED
      BY <2>2, <2>4, <3>1, <3>3 DEF Keeps
  <2>5. CASE ~Is("planar", f)
    BY <2>2, <2>3, <2>5, AllKeep
  <2>6. QED
    BY <2>4, <2>5
<1>4. CASE r = 4
  <2>1. OutputFormattersFloat[4] = Row(Fmt("XYZ", 3, 0, 0, {"float"}), AnyTriple, "PackXYZDoubleFromFloat")
    BY DEF OutputFormattersFloat
  <2>2. /\ OutputFormattersFloat[r].frm = "PackXYZDoubleFromFloat"
        /\ LET p == StoreTriple(f, 8, Apart(f, 8, b), 3)
           IN  Tidy(p, f) /\ Stores(p, f) /\ Sound(p) /\ Modest(p, f)
    BY <1>4, <2>1, TriplePacks
  <2>3. ~Is("planar", f) => Pack("PackXYZDoubleFromFloat", f, b) = StoreTriple(f, 8, Apart(f, 8, b), 3)
    BY ReckonedPack DEF PackXYZDoubleFromFloat, Apart
  <2>4. CASE Is("planar", f)
    <3>1. Overlaps("PackXYZDoubleFromFloat", f) /\ Misplaces("PackXYZDoubleFromFloat", f)
      BY <2>4 DEF Misplaces, Overlaps
    <3>2. Pack("PackXYZDoubleFromFloat", f, b) = StoreTriple(f, 8, 8, 1)
      BY <2>4, ReckonedPack DEF PackXYZDoubleFromFloat
    <3>3. Sound(Pack("PackXYZDoubleFromFloat", f, b)) /\ Modest(Pack("PackXYZDoubleFromFloat", f, b), f)
      BY <2>4, <3>2, TripleSound DEF Modest
    <3>4. QED
      BY <2>2, <2>4, <3>1, <3>3 DEF Keeps
  <2>5. CASE ~Is("planar", f)
    BY <2>2, <2>3, <2>5, AllKeep
  <2>6. QED
    BY <2>4, <2>5
<1>5. CASE r = 5
  <2>1. OutputFormattersFloat[5] = Row(Fmt("any", 0, 0, 4, {"float"}), AnyColours \cup {"planar", "flavor", "first"}, "PackFloatsFromFloat")
    BY DEF OutputFormattersFloat
  <2>2. /\ OutputFormattersFloat[r].frm = "PackFloatsFromFloat" /\ "float" \in f.flags /\ ~Premultiplied(f)
    BY <1>5, <2>1, OpenPacks DEF AnyColours, Is, Premultiplied
  <2>3. As(f) = "sample"
    BY <2>2, Hinted, LabFields DEF As
  <2>4. Pack("PackFloatsFromFloat", f, b) = FloatWrites(f, b, FALSE)
    BY ReckonedPack DEF PackFloatsFromFloat
  <2>5. Sound(Pack("PackFloatsFromFloat", f, b)) /\ Modest(Pack("PackFloatsFromFloat", f, b), f)
    <3>1. \A last \in {TRUE, FALSE} : Sound(FloatWrites(f, b, last)) /\ Modest(FloatWrites(f, b, last), f)
      BY FloatSound
    <3>2. QED
      BY <2>4, <3>1
  <2>6. CASE Is("planar", f)
    <3>1. Overlaps("PackFloatsFromFloat", f) /\ Misplaces("PackFloatsFromFloat", f)
      BY <2>6 DEF Misplaces, Overlaps
    <3>2. QED
      BY <2>2, <2>6, <2>5, <3>1 DEF Keeps
  <2>7. CASE ~Is("planar", f)
    <3>1. Tidy(Pack("PackFloatsFromFloat", f, b), f)
      BY <2>4, <2>7, FloatTidy
    <3>2. ASSUME ~Misplaces("PackFloatsFromFloat", f)
          PROVE  Stores(Pack("PackFloatsFromFloat", f, b), f)
      <4>1. ~SwappedFirst(f)
        BY <3>2 DEF Misplaces
      <4>2. \A last \in {TRUE, FALSE} :
              (SwappedFirst(f) => last /\ ~Is("swap", f)) => Stores(FloatWrites(f, b, last), f)
        BY <2>2, <2>3, <2>7, FloatStores
      <4>3. QED
        BY <2>4, <4>1, <4>2
    <3>3. QED
      BY <2>2, <2>5, <3>1, <3>2 DEF Keeps
  <2>8. QED
    BY <2>6, <2>7
<1>6. CASE r = 6
  <2>1. OutputFormattersFloat[6] = Row(Fmt("any", 0, 0, 0, {"float"}), AnyColours \cup {"planar", "flavor", "first"}, "PackDoublesFromFloat")
    BY DEF OutputFormattersFloat
  <2>2. /\ OutputFormattersFloat[r].frm = "PackDoublesFromFloat" /\ "float" \in f.flags /\ ~Premultiplied(f)
    BY <1>6, <2>1, OpenPacks DEF AnyColours, Is, Premultiplied
  <2>3. As(f) = "sample"
    BY <2>2, Hinted, LabFields DEF As
  <2>4. Pack("PackDoublesFromFloat", f, b) = FloatWrites(f, b, FALSE)
    BY ReckonedPack DEF PackDoublesFromFloat
  <2>5. Sound(Pack("PackDoublesFromFloat", f, b)) /\ Modest(Pack("PackDoublesFromFloat", f, b), f)
    <3>1. \A last \in {TRUE, FALSE} : Sound(FloatWrites(f, b, last)) /\ Modest(FloatWrites(f, b, last), f)
      BY FloatSound
    <3>2. QED
      BY <2>4, <3>1
  <2>6. CASE Is("planar", f)
    <3>1. Overlaps("PackDoublesFromFloat", f) /\ Misplaces("PackDoublesFromFloat", f)
      BY <2>6 DEF Misplaces, Overlaps
    <3>2. QED
      BY <2>2, <2>6, <2>5, <3>1 DEF Keeps
  <2>7. CASE ~Is("planar", f)
    <3>1. Tidy(Pack("PackDoublesFromFloat", f, b), f)
      BY <2>4, <2>7, FloatTidy
    <3>2. ASSUME ~Misplaces("PackDoublesFromFloat", f)
          PROVE  Stores(Pack("PackDoublesFromFloat", f, b), f)
      <4>1. ~SwappedFirst(f)
        BY <3>2 DEF Misplaces
      <4>2. \A last \in {TRUE, FALSE} :
              (SwappedFirst(f) => last /\ ~Is("swap", f)) => Stores(FloatWrites(f, b, last), f)
        BY <2>2, <2>3, <2>7, FloatStores
      <4>3. QED
        BY <2>4, <4>1, <4>2
    <3>3. QED
      BY <2>2, <2>5, <3>1, <3>2 DEF Keeps
  <2>8. QED
    BY <2>6, <2>7
<1>7. CASE r = 7
  <2>1. OutputFormattersFloat[7] = Row(Fmt("any", 0, 0, 2, {"float"}), AnyColours \cup {"flavor", "first"}, "PackHalfFromFloat")
    BY DEF OutputFormattersFloat
  <2>2. OutputFormattersFloat[r].frm = "PackHalfFromFloat" /\ Misplaces("PackHalfFromFloat", f)
    BY <1>7, <2>1 DEF Row, Misplaces, Overlaps
  <2>3. Tidy(Pack("PackHalfFromFloat", f, b), f) /\ Sound(Pack("PackHalfFromFloat", f, b)) /\ Modest(Pack("PackHalfFromFloat", f, b), f)
    BY ReckonedPack, HalfsTidy
  <2>4. QED
    BY <2>2, <2>3 DEF Keeps
<1>100. QED
  BY <1>1, <1>2, <1>3, <1>4, <1>5, <1>6, <1>7

\* The packer of a transform of words keeps to its format.
LEMMA Output16Keeps ==
  ASSUME NEW f, IsFormat(f), cmsGetFormatter(f, "output", FALSE) # None
  PROVE  Keeps(cmsGetFormatter(f, "output", FALSE), f) /\ f.channels > 0
<1> DEFINE g == Unhinted(f)
<1>1. f.channels > 0
  <2>1. f.channels # 0
    BY DEF cmsGetFormatter
  <2>2. QED
    BY <2>1, FormatType
<1>2. cmsGetFormatter(f, "output", FALSE) = Lookup(OutputFormatters16, g)
  BY DEF cmsGetFormatter, cmsGetStockOutputFormatter
<1>3. DOMAIN OutputFormatters16 = 1 .. 55
  BY DEF OutputFormatters16
<1> HIDE DEF g
<1>4. PICK r \in 1 .. 55 : /\ Fits(g, OutputFormatters16[r])
                           /\ Lookup(OutputFormatters16, g) = OutputFormatters16[r].frm
                           /\ \A q \in 1 .. 55 : q < r => ~Fits(g, OutputFormatters16[q])
  BY <1>2, <1>3, LookupIs
<1>5. ASSUME g \in LabV2Formats
      PROVE  r < 15
  <2>1. /\ OutputFormatters16[12] = Row(Fmt("LabV2", 3, 0, 1, {}), {}, "PackLabV2_8")
        /\ OutputFormatters16[13] = Row(Fmt("LabV2", 3, 1, 1, {"first"}), {}, "PackALabV2_8")
        /\ OutputFormatters16[14] = Row(Fmt("LabV2", 3, 0, 2, {}), {}, "PackLabV2_16")
    BY DEF OutputFormatters16
  <2>2. \E q \in 12 .. 14 : Fits(g, OutputFormatters16[q])
    BY <1>5, <2>1, LabRows
  <2>3. QED
    BY <1>4, <2>2
<1>6. r \in 8 .. 33 \cup 36 .. 53 \/ r \in 1 .. 7 \cup {34, 35, 54, 55}
  OBVIOUS
<1>7. Keeps(OutputFormatters16[r].frm, f)
  BY <1>1, <1>4, <1>5, <1>6, Output16Fixed, Output16Open DEF g
<1>8. QED
  BY <1>1, <1>2, <1>4, <1>7

\* The packer of a transform of floats keeps to its format.
LEMMA OutputFloatKeeps ==
  ASSUME NEW f, IsFormat(f), cmsGetFormatter(f, "output", TRUE) # None
  PROVE  Keeps(cmsGetFormatter(f, "output", TRUE), f) /\ f.channels > 0
<1> DEFINE g == Unhinted(f)
<1>1. f.channels > 0
  <2>1. f.channels # 0
    BY DEF cmsGetFormatter
  <2>2. QED
    BY <2>1, FormatType
<1>2. cmsGetFormatter(f, "output", TRUE) = Lookup(OutputFormattersFloat, g)
  BY DEF cmsGetFormatter, cmsGetStockOutputFormatter
<1>3. DOMAIN OutputFormattersFloat = 1 .. 7
  BY DEF OutputFormattersFloat
<1> HIDE DEF g
<1>4. PICK r \in 1 .. 7 : /\ Fits(g, OutputFormattersFloat[r])
                          /\ Lookup(OutputFormattersFloat, g) = OutputFormattersFloat[r].frm
  BY <1>2, <1>3, LookupIs
<1>5. QED
  BY <1>1, <1>2, <1>4, OutputFloatRows DEF g

----------------------------------------------------------------------------
(* Pixels do not meet in the output buffer.                                *)

\* Where an offset of pixel n is, in samples.
LEMMA SampleIndex ==
  ASSUME NEW f, IsFormat(f), NEW c, Within(c, f), NEW n \in Nat
  PROVE  \E i \in Int : /\ c + n * Advance(f) = PixelSize(f) * i
                        /\ IF Is("planar", f) THEN \E q \in Int : i = q * Pixels + n
                           ELSE \E m \in 0 .. Samples(f) - 1 : i = m + n * Samples(f)
<1> DEFINE s == PixelSize(f)
           t == Samples(f)
<1>1. s \in Int /\ t \in Int /\ Pixels \in Int
  BY FormatType
<1>2. CASE Is("planar", f)
  <2>1. PICK q \in Int : c = q * BytesPerPlane(f)
    BY <1>2 DEF Within
  <2>2. Advance(f) = s /\ BytesPerPlane(f) = Pixels * s
    BY <1>2 DEF Advance, BytesPerPlane
  <2> HIDE DEF s
  <2>3. q * (Pixels * s) + n * s = s * (q * Pixels + n) /\ q * Pixels + n \in Int
    BY <1>1
  <2>4. QED
    BY <1>2, <2>1, <2>2, <2>3 DEF s
<1>3. CASE ~Is("planar", f)
  <2>1. PICK m \in 0 .. t - 1 : c = s * m
    BY <1>3 DEF Within
  <2>2. Advance(f) = s * t
    BY <1>3 DEF Advance
  <2> HIDE DEF s, t
  <2>3. s * m + n * (s * t) = s * (m + n * t) /\ m + n * t \in Int
    BY <1>1
  <2>4. QED
    BY <1>3, <2>1, <2>2, <2>3 DEF s, t
<1>4. QED
  BY <1>2, <1>3

\* No sample of a pixel is one of a later pixel.
LEMMA PixelsDiffer ==
  ASSUME NEW f, IsFormat(f), NEW c, NEW d, Within(c, f), Within(d, f),
         NEW n \in Nat, NEW m \in Nat, n < m, m < Pixels
  PROVE  c + n * Advance(f) # d + m * Advance(f)
<1> DEFINE s == PixelSize(f)
           t == Samples(f)
<1>1. s \in Nat \ {0} /\ t \in Nat /\ Pixels \in Nat
  BY FormatType
<1>2. PICK i \in Int : /\ c + n * Advance(f) = s * i
                       /\ IF Is("planar", f) THEN \E q \in Int : i = q * Pixels + n
                          ELSE \E p \in 0 .. t - 1 : i = p + n * t
  BY SampleIndex
<1>3. PICK j \in Int : /\ d + m * Advance(f) = s * j
                       /\ IF Is("planar", f) THEN \E q \in Int : j = q * Pixels + m
                          ELSE \E p \in 0 .. t - 1 : j = p + m * t
  BY SampleIndex
<1> HIDE DEF s, t
<1>4. CASE Is("planar", f)
  <2>1. PICK q \in Int : i = q * Pixels + n
    BY <1>2, <1>4
  <2>2. PICK r \in Int : j = r * Pixels + m
    BY <1>3, <1>4
  <2>3. i # j
    <3>1. (q - r) * Pixels = q * Pixels - r * Pixels
      BY <1>1
    <3>2. CASE q <= r
      <4>1. q * Pixels <= r * Pixels
        BY <1>1, <3>2
      <4>2. QED
        BY <1>1, <2>1, <2>2, <4>1
    <3>3. CASE q > r
      <4>1. (q - r) * Pixels >= 1 * Pixels
        <5> DEFINE e == q - r
        <5>1. e >= 1 /\ e \in Int
          BY <3>3
        <5> HIDE DEF e
        <5>2. e * Pixels >= 1 * Pixels
          BY <1>1, <5>1
        <5>3. QED
          BY <5>2 DEF e
      <4>2. QED
        BY <1>1, <2>1, <2>2, <3>1, <4>1
    <3>4. QED
      BY <3>2, <3>3
  <2>4. QED
    BY <1>1, <1>2, <1>3, <2>3
<1>5. CASE ~Is("planar", f)
  <2>1. PICK p \in 0 .. t - 1 : i = p + n * t
    BY <1>2, <1>5
  <2>2. PICK r \in 0 .. t - 1 : j = r + m * t
    BY <1>3, <1>5
  <2>3. i # j
    <3>1. (n + 1) * t <= m * t /\ (n + 1) * t = n * t + t
      BY <1>1
    <3>2. QED
      BY <1>1, <2>1, <2>2, <3>1
  <2>4. QED
    BY <1>1, <1>2, <1>3, <2>3
<1>6. QED
  BY <1>4, <1>5

\* Two offsets that differ are a sample apart.
LEMMA SampleApart ==
  ASSUME NEW f, IsFormat(f), NEW c, NEW d, Within(c, f), Within(d, f), NEW n \in Nat, NEW m \in Nat,
         NEW o, NEW q, o = c + n * Advance(f), q = d + m * Advance(f), o # q
  PROVE  q + PixelSize(f) <= o \/ o + PixelSize(f) <= q
<1> DEFINE s == PixelSize(f)
<1>1. s \in Nat
  BY FormatType
<1>2. \E i \in Int : o = s * i
  BY SampleIndex
<1>3. \E j \in Int : q = s * j
  BY SampleIndex
<1> HIDE DEF s
<1>4. PICK i \in Int : o = s * i
  BY <1>2
<1>5. PICK j \in Int : q = s * j
  BY <1>3
<1>6. CASE i < j
  <2>1. s * (i + 1) <= s * j /\ s * (i + 1) = s * i + s
    BY <1>1, <1>6
  <2>2. QED
    BY <1>1, <1>4, <1>5, <2>1 DEF s
<1>7. CASE j < i
  <2>1. s * (j + 1) <= s * i /\ s * (j + 1) = s * j + s
    BY <1>1, <1>7
  <2>2. QED
    BY <1>1, <1>4, <1>5, <2>1 DEF s
<1>8. i # j
  BY <1>4, <1>5
<1>9. QED
  BY <1>6, <1>7, <1>8

----------------------------------------------------------------------------
(* What is stored, as long as the packer is tidy.                          *)

Orderly == ~Overlaps(packer, outFmt)
Transforming == phase \in {"running", "done", "panicked"} /\ ~Outdated

\* The offset o is one of the pixels up to n.
OfPixels(o, n) == \E m \in 0 .. n, c \in DOMAIN pack.cells : o = c + m * Advance(outFmt)
IsDue(o, k, l) == o \in DOMAIN stored /\ stored[o] = Due(outFmt, k, l)
Laid ==
  /\ phase \in {"new", "ready", "refused"} => stored = <<>>
  /\ phase = "done" => Len(read) = Pixels
  /\ Transforming /\ Orderly =>
       /\ DOMAIN pack.cells # {} => output.at = Len(read) * Advance(outFmt)
       /\ \A o \in DOMAIN stored : OfPixels(o, Len(read) - 1)
       /\ ~Misplaces(packer, outFmt) =>
            \A k \in 0 .. Len(read) - 1, l \in 0 .. outFmt.channels - 1 : IsDue(SampleOf(outFmt, k, l), k, l)

\* The packer that was looked up keeps to the format it was looked up for.
LEMMA PackerKeeps ==
  ASSUME Looked, Transforming
  PROVE  Keeps(packer, outFmt)
<1>1. CASE float
  <2>1. created = <<created[1], created[2]>>
    BY FormattedTransformAssumption DEF Looked
  <2>2. created[2] = outFmt
    BY <1>1, <2>1 DEF Outdated, formats, Transforming
  <2>3. packer = cmsGetFormatter(outFmt, "output", TRUE) /\ packer # None
    BY <1>1, <2>2 DEF Looked, packer, Transforming
  <2>4. QED
    BY <2>3, OutputFloatKeeps DEF Looked
<1>2. CASE ~float
  <2>1. packer = cmsGetFormatter(outFmt, "output", FALSE) /\ packer # None
    BY <1>2 DEF Looked, packer, Transforming
  <2>2. QED
    BY <2>1, Output16Keeps DEF Looked
<1>3. QED
  BY <1>1, <1>2

\* A packer that is not known to stray is tidy.
LEMMA OrderlyIsTidy ==
  ASSUME Looked, Transforming, Orderly
  PROVE  Tidy(pack, outFmt) /\ (~Misplaces(packer, outFmt) => Stores(pack, outFmt))
  BY PackerKeeps DEF Keeps, Orderly, pack

\* A cell of the first pixel, moved to pixel k, is the one that is due there.
LEMMA CellSteps ==
  ASSUME NEW f, IsFormat(f), NEW k \in Nat, NEW l \in 0 .. f.channels - 1
  PROVE  /\ SampleOf(f, 0, l) \in Int
         /\ SampleOf(f, k, l) = SampleOf(f, 0, l) + k * Advance(f)
         /\ [pixel |-> k, cell |-> CellAt(Storing(l, Flagged(f, As(f)), AlphaOf(f, 0), {}), k * Advance(f))]
              = Due(f, k, l)
<1>1. f.channels > 0 /\ PlaceOf(f, l) \in Int
  BY PlaceOfLane, FormatType
<1>2. SampleOf(f, 0, l) \in Int
  <2>1. PixelSize(f) \in Int /\ Samples(f) \in Int /\ Pixels \in Int
    BY FormatType
  <2>2. PixelSize(f) * (PlaceOf(f, l) * Pixels + 0) \in Int
    BY <1>1, <2>1
  <2>3. PixelSize(f) * (0 * Samples(f) + PlaceOf(f, l)) \in Int
    BY <1>1, <2>1
  <2>4. QED
    BY <2>2, <2>3 DEF SampleOf
<1>3. SampleOf(f, k, l) = SampleOf(f, 0, l) + k * Advance(f)
  BY <1>1, SampleSteps
<1>4. Placed(AlphaOf(f, 0), k * Advance(f)) = AlphaOf(f, k)
  BY <1>1, AlphaSteps
<1>5. QED
  BY <1>2, <1>3, <1>4 DEF CellAt, Storing, Due

\* What Pixel does to the output buffer.
LEMMA PixelStores ==
  ASSUME LanesInv, Laid, Pixel, ~Outdated, Orderly
  PROVE  /\ \A o \in DOMAIN stored : o \in DOMAIN stored' /\ stored'[o] = stored[o]
         /\ \A o \in DOMAIN stored' : OfPixels(o, Len(read))
         /\ DOMAIN pack.cells # {} => output'.at = (Len(read) + 1) * Advance(outFmt)
         /\ ~Misplaces(packer, outFmt) =>
              \A l \in 0 .. outFmt.channels - 1 :
                /\ SampleOf(outFmt, Len(read), l) \in DOMAIN stored'
                /\ stored'[SampleOf(outFmt, Len(read), l)] = Due(outFmt, Len(read), l)
<1> DEFINE n == Len(read)
           adv == Advance(outFmt)
           cells == pack.cells
           at == output.at
           here == { o + at : o \in DOMAIN cells }
<1>1. /\ phase = "running" /\ Transforming /\ Looked /\ n \in Nat /\ n < Pixels
      /\ IsFormat(outFmt) /\ adv \in Nat
  <2>1. phase = "running" /\ Transforming /\ Looked /\ n < Pixels
    BY DEF Pixel, LanesInv, Transforming
  <2>2. n \in Nat
    BY <2>1 DEF LanesInv, InStep, Transforming
  <2>3. IsFormat(outFmt)
    BY <2>1 DEF Looked
  <2>4. QED
    BY <2>1, <2>2, <2>3, AdvanceType
<1>2. Tidy(pack, outFmt) /\ (~Misplaces(packer, outFmt) => Stores(pack, outFmt))
  BY <1>1, OrderlyIsTidy
<1>3. /\ DOMAIN cells # {} => at = n * adv
      /\ \A o \in DOMAIN stored : OfPixels(o, n - 1)
  BY <1>1 DEF Laid
<1>4. stored' = [o \in here \cup DOMAIN stored |->
                   IF o \in here THEN [pixel |-> n, cell |-> CellAt(cells[o - at], at)] ELSE stored[o]]
  BY DEF Pixel
<1>5. output'.at = at + pack.adv /\ outFmt' = outFmt
  BY DEF Pixel, formats
<1> HIDE DEF n, adv, cells, at
<1>6. ASSUME NEW o \in DOMAIN stored PROVE o \notin here
  <2> SUFFICES ASSUME o \in here PROVE FALSE
    OBVIOUS
  <2>1. PICK d \in DOMAIN cells : o = d + at
    OBVIOUS
  <2>2. PICK m \in 0 .. n - 1, c \in DOMAIN cells : o = c + m * adv
    BY <1>3 DEF OfPixels, cells, adv
  <2>3. Within(c, outFmt) /\ Within(d, outFmt)
    BY <1>2, <2>1, <2>2 DEF Tidy, cells
  <2>4. m \in Nat /\ m < n
    BY <1>1
  <2>5. c + m * adv # d + n * adv
    BY <1>1, <2>3, <2>4, PixelsDiffer DEF adv
  <2>6. QED
    BY <1>3, <2>1, <2>2, <2>5
<1>7. \A o \in DOMAIN stored : o \in DOMAIN stored' /\ stored'[o] = stored[o]
  BY <1>4, <1>6
<1>8. ASSUME NEW o \in DOMAIN stored'
      PROVE  \E m \in 0 .. n, c \in DOMAIN cells : o = c + m * adv
  <2>1. CASE o \in DOMAIN stored
    <3>1. PICK m \in 0 .. n - 1, c \in DOMAIN cells : o = c + m * adv
      BY <1>3, <2>1 DEF OfPixels, cells, adv
    <3>2. m \in 0 .. n
      BY <1>1
    <3>3. QED
      BY <3>1, <3>2
  <2>2. CASE o \in here
    <3>1. PICK d \in DOMAIN cells : o = d + n * adv
      BY <1>3, <2>2
    <3>2. n \in 0 .. n
      BY <1>1
    <3>3. QED
      BY <3>1, <3>2
  <2>3. QED
    BY <1>4, <2>1, <2>2
<1>9. ASSUME DOMAIN cells # {} PROVE output'.at = (n + 1) * adv
  <2>1. pack.adv = adv /\ at = n * adv
    BY <1>2, <1>3, <1>9 DEF Tidy, cells, adv
  <2>2. n * adv + adv = (n + 1) * adv
    BY <1>1
  <2>3. QED
    BY <1>5, <2>1, <2>2
<1>10. ASSUME ~Misplaces(packer, outFmt), NEW l \in 0 .. outFmt.channels - 1
       PROVE  SampleOf(outFmt, n, l) \in DOMAIN stored' /\ stored'[SampleOf(outFmt, n, l)] = Due(outFmt, n, l)
  <2> DEFINE c == SampleOf(outFmt, 0, l)
             o == SampleOf(outFmt, n, l)
             cell == Storing(l, Flagged(outFmt, As(outFmt)), AlphaOf(outFmt, 0), {})
  <2>1. c \in DOMAIN cells /\ cells[c] = cell
    BY <1>2, <1>10 DEF Stores, cells
  <2>2. c \in Int /\ o = c + n * adv /\ [pixel |-> n, cell |-> CellAt(cell, n * adv)] = Due(outFmt, n, l)
    BY <1>1, CellSteps DEF adv
  <2>3. at = n * adv
    BY <1>3, <2>1
  <2> HIDE DEF c, o, cell
  <2>4. o \in here /\ o - at = c
    <3>1. n * adv \in Int
      BY <1>1
    <3>2. QED
      BY <2>1, <2>2, <2>3, <3>1
  <2>5. o \in DOMAIN stored' /\ stored'[o] = Due(outFmt, n, l)
    BY <1>4, <2>1, <2>2, <2>3, <2>4
  <2>6. QED
    BY <2>5 DEF o
<1>11. \A o \in DOMAIN stored' : OfPixels(o, n)
  BY <1>8 DEF OfPixels, cells, adv
<1>12. QED
  BY <1>7, <1>9, <1>10, <1>11 DEF n, adv, cells

RowInv == LanesInv /\ Laid

\* The invariant says what it is for,
LEMMA SamplesFromInv == ASSUME RowInv PROVE SamplesAreTheLanes
<1> SUFFICES ASSUME phase = "done", ~Outdated, ~Misplaces(packer, outFmt),
                    NEW k \in 0 .. Pixels - 1, NEW l \in 0 .. outFmt.channels - 1
             PROVE  IsDue(SampleOf(outFmt, k, l), k, l)
  BY DEF SamplesAreTheLanes, IsDue
<1>1. Orderly
  BY DEF Orderly, Misplaces
<1>2. QED
  BY <1>1 DEF RowInv, Laid, Transforming

\* holds at first,
LEMMA RowInit == Init => RowInv
  BY LanesInit DEF RowInv, Laid, Init, Transforming

\* and after every step.
LEMMA RowStep == RowInv /\ [Next]_vars => RowInv'
<1> SUFFICES ASSUME RowInv, [Next]_vars PROVE Laid'
  BY LanesStep DEF RowInv
<1> USE DEF RowInv, LanesInv, Phases
<1>1. CASE AllocFloat \/ Alloc16 \/ cmsChangeBuffersFormat
  BY <1>1 DEF AllocFloat, Alloc16, cmsChangeBuffersFormat, Laid, Transforming, buffers
<1>2. CASE CmsDoTransform
  <2>1. phase = "ready" /\ phase' = "running" /\ output'.at = 0 /\ read' = <<>> /\ stored' = <<>>
    BY <1>2 DEF CmsDoTransform, Laid, InStep
  <2>2. Len(read') = 0 /\ IsFormat(outFmt')
    BY <1>2, <2>1 DEF CmsDoTransform, Looked, formats
  <2>3. 0 * Advance(outFmt)' = 0
    BY <2>2, AdvanceType
  <2>4. QED
    BY <2>1, <2>2, <2>3 DEF Laid
<1>3. CASE Pixel
  <2>1. phase = "running" /\ phase' = "running" /\ UNCHANGED <<created, formats, formatters>>
    BY <1>3 DEF Pixel
  <2>2. /\ pack' = pack /\ packer' = packer /\ outFmt' = outFmt
        /\ (Outdated' <=> Outdated) /\ (Transforming' <=> ~Outdated) /\ (Orderly' <=> Orderly)
    BY <2>1 DEF pack, packer, Outdated, Transforming, Orderly, formats, formatters
  <2> SUFFICES ASSUME ~Outdated, Orderly
               PROVE  /\ DOMAIN pack.cells # {} => output'.at = Len(read') * Advance(outFmt)
                      /\ \A o \in DOMAIN stored' : OfPixels(o, Len(read') - 1)
                      /\ ~Misplaces(packer, outFmt) =>
                           \A k \in 0 .. Len(read') - 1, l \in 0 .. outFmt.channels - 1 :
                             /\ SampleOf(outFmt, k, l) \in DOMAIN stored'
                             /\ stored'[SampleOf(outFmt, k, l)] = Due(outFmt, k, l)
    <3>1. \A o, n : OfPixels(o, n)' <=> OfPixels(o, n)
      BY <2>2 DEF OfPixels
    <3>2. QED
      BY <2>1, <2>2, <3>1 DEF Laid, IsDue
  <2>3. Len(read) \in Nat /\ Len(read') = Len(read) + 1
    <3>1. read \in Seq({ LanesAt(x) : x \in Int })
      BY <2>1 DEF InStep
    <3>2. \E lanes : read' = Append(read, lanes)
      BY <1>3 DEF Pixel
    <3>3. QED
      BY <3>1, <3>2
  <2> DEFINE n == Len(read)
  <2>4. /\ \A o \in DOMAIN stored : o \in DOMAIN stored' /\ stored'[o] = stored[o]
        /\ \A o \in DOMAIN stored' : OfPixels(o, n)
        /\ DOMAIN pack.cells # {} => output'.at = (n + 1) * Advance(outFmt)
        /\ ~Misplaces(packer, outFmt) =>
             \A l \in 0 .. outFmt.channels - 1 :
               /\ SampleOf(outFmt, n, l) \in DOMAIN stored'
               /\ stored'[SampleOf(outFmt, n, l)] = Due(outFmt, n, l)
    BY <1>3, PixelStores
  <2>5. Transforming
    BY <2>1 DEF Transforming
  <2>6. ~Misplaces(packer, outFmt) =>
          \A k \in 0 .. n - 1, l \in 0 .. outFmt.channels - 1 : IsDue(SampleOf(outFmt, k, l), k, l)
    BY <2>5 DEF Laid
  <2> HIDE DEF n
  <2>7. n \in Nat /\ Len(read') = n + 1 /\ Len(read') - 1 = n
    BY <2>3 DEF n
  <2>8. ASSUME ~Misplaces(packer, outFmt), NEW k \in 0 .. n, NEW l \in 0 .. outFmt.channels - 1
        PROVE  /\ SampleOf(outFmt, k, l) \in DOMAIN stored'
               /\ stored'[SampleOf(outFmt, k, l)] = Due(outFmt, k, l)
    <3>1. k = n \/ k \in 0 .. n - 1
      BY <2>7
    <3>2. QED
      BY <2>4, <2>6, <2>8, <3>1 DEF IsDue
  <2>9. QED
    BY <2>4, <2>7, <2>8
<1>4. CASE Panic \/ Finish \/ UNCHANGED vars
  <2>1. /\ UNCHANGED <<created, formats, formatters, buffers>>
        /\ \/ phase' = phase
           \/ phase = "running" /\ phase' = "panicked"
           \/ phase = "running" /\ phase' = "done" /\ Len(read) = Pixels
    <3>1. CASE Panic
      BY <3>1 DEF Panic
    <3>2. CASE Finish
      BY <3>2 DEF Finish
    <3>3. CASE UNCHANGED vars
      BY <3>3 DEF vars
    <3>4. QED
      BY <1>4, <3>1, <3>2, <3>3
  <2>2. /\ pack' = pack /\ packer' = packer /\ outFmt' = outFmt /\ output' = output /\ stored' = stored /\ read' = read
        /\ (Transforming' <=> Transforming) /\ (Orderly' <=> Orderly)
    BY <2>1 DEF pack, packer, Outdated, Transforming, Orderly, formats, formatters, buffers
  <2>3. \A o, n : OfPixels(o, n)' <=> OfPixels(o, n)
    BY <2>2 DEF OfPixels
  <2>4. \A o, k, l : IsDue(o, k, l)' <=> IsDue(o, k, l)
    BY <2>2 DEF IsDue
  <2>5. QED
    BY <2>1, <2>2, <2>3, <2>4 DEF Laid
<1>5. QED
  BY <1>1, <1>2, <1>3, <1>4 DEF Next

\* For any formats, any number of channels and a row of any length, the sample
\* of every colour of every pixel ends up with its lane of that pixel.
THEOREM SamplesAreTheLanesAlways == Spec => []SamplesAreTheLanes
<1>1. RowInv => SamplesAreTheLanes
  BY SamplesFromInv
<1>2. QED
  BY <1>1, RowInit, RowStep, PTL DEF Spec

\* A pixel stores beside those before it.
LEMMA NothingOverwritten ==
  ASSUME RowInv, [Next]_vars, ~Outdated, Orderly, NEW o \in DOMAIN stored
  PROVE  /\ stored'[o] = stored[o]
         /\ \A q \in DOMAIN stored' \ DOMAIN stored :
              (q + PixelSize(outFmt) <= o) \/ (o + PixelSize(outFmt) <= q)
<1>1. CASE ~Pixel
  <2>1. stored' = stored
    BY <1>1 DEF Next, AllocFloat, Alloc16, cmsChangeBuffersFormat, CmsDoTransform, Panic, Finish, vars, buffers
  <2>2. QED
    BY <2>1
<1>2. CASE Pixel
  <2>1. /\ stored'[o] = stored[o]
        /\ \A q \in DOMAIN stored' : OfPixels(q, Len(read))
    BY <1>2, PixelStores DEF RowInv
  <2>2. phase = "running" /\ Transforming /\ Looked
    BY <1>2 DEF Pixel, Transforming, RowInv, LanesInv
  <2>3. IsFormat(outFmt) /\ Tidy(pack, outFmt)
    BY <2>2, OrderlyIsTidy DEF Looked
  <2>4. OfPixels(o, Len(read) - 1)
    BY <2>2 DEF RowInv, Laid
  <2>5. PICK m \in 0 .. Len(read) - 1, c \in DOMAIN pack.cells : o = c + m * Advance(outFmt)
    BY <2>4 DEF OfPixels
  <2>6. ASSUME NEW q \in DOMAIN stored' \ DOMAIN stored
        PROVE  (q + PixelSize(outFmt) <= o) \/ (o + PixelSize(outFmt) <= q)
    <3>1. PICK n \in 0 .. Len(read), d \in DOMAIN pack.cells : q = d + n * Advance(outFmt)
      BY <2>1 DEF OfPixels
    <3>2. Within(c, outFmt) /\ Within(d, outFmt)
      BY <2>3 DEF Tidy
    <3>3. m \in Nat /\ n \in Nat /\ o # q
      OBVIOUS
    <3>4. QED
      BY <2>3, <2>5, <3>1, <3>2, <3>3, SampleApart
  <2>7. QED
    BY <2>1, <2>6
<1>3. QED
  BY <1>1, <1>2

\* The slices that the packers return never overlap what was stored before.
THEOREM NeverStoredOver == Spec => NeverOverwritten
<1>1. RowInv /\ [Next]_vars =>
        [~Outdated /\ ~Overlaps(packer, outFmt) =>
           \A o \in DOMAIN stored :
             /\ stored'[o] = stored[o]
             /\ \A q \in DOMAIN stored' \ DOMAIN stored :
                  (q + PixelSize(outFmt) <= o) \/ (o + PixelSize(outFmt) <= q)]_vars
  BY NothingOverwritten DEF Orderly
<1>2. QED
  BY <1>1, RowInit, RowStep, PTL DEF Spec, NeverOverwritten

----------------------------------------------------------------------------
(* Any formatter of floats, in any format: where it was given another.     *)

FloatUnrollers ==
  { "UnrollLabDoubleToFloat", "UnrollLabFloatToFloat", "UnrollXYZDoubleToFloat",
    "UnrollXYZFloatToFloat", "UnrollFloatsToFloat", "UnrollDoublesToFloat",
    "UnrollLabV2_8ToFloat", "UnrollALabV2_8ToFloat", "UnrollLabV2_16ToFloat",
    "Unroll8ToFloat", "Unroll16ToFloat", "UnrollHalfToFloat" }
FloatPackers ==
  { "PackLabFloatFromFloat", "PackXYZFloatFromFloat", "PackLabDoubleFromFloat",
    "PackXYZDoubleFromFloat", "PackFloatsFromFloat", "PackDoublesFromFloat",
    "PackHalfFromFloat" }

\* The formatters of floats, by name.
LEMMA FloatNames ==
  ASSUME NEW g
  PROVE  /\ cmsGetFormatter(g, "input", TRUE) \in FloatUnrollers \cup {None}
         /\ cmsGetFormatter(g, "output", TRUE) \in FloatPackers \cup {None}
<1>1. \A r \in 1 .. 12 : InputFormattersFloat[r].frm \in FloatUnrollers
  BY DEF InputFormattersFloat, Row, FloatUnrollers
<1>2. \A r \in 1 .. 7 : OutputFormattersFloat[r].frm \in FloatPackers
  BY DEF OutputFormattersFloat, Row, FloatPackers
<1>3. DOMAIN InputFormattersFloat = 1 .. 12 /\ DOMAIN OutputFormattersFloat = 1 .. 7
  BY DEF InputFormattersFloat, OutputFormattersFloat
<1>4. \A h : Lookup(InputFormattersFloat, h) \in FloatUnrollers \cup {None}
  <2> TAKE h
  <2>1. CASE Lookup(InputFormattersFloat, h) # None
    <3>1. \E r \in 1 .. 12 : Lookup(InputFormattersFloat, h) = InputFormattersFloat[r].frm
      <4>1. 12 \in Nat /\ DOMAIN InputFormattersFloat = 1 .. 12
        BY <1>3
      <4>2. QED
        BY <2>1, <4>1, LookupIs
    <3>2. QED
      BY <1>1, <3>1
  <2>2. QED
    BY <2>1
<1>5. \A h : Lookup(OutputFormattersFloat, h) \in FloatPackers \cup {None}
  <2> TAKE h
  <2>1. CASE Lookup(OutputFormattersFloat, h) # None
    <3>1. \E r \in 1 .. 7 : Lookup(OutputFormattersFloat, h) = OutputFormattersFloat[r].frm
      <4>1. 7 \in Nat /\ DOMAIN OutputFormattersFloat = 1 .. 7
        BY <1>3
      <4>2. QED
        BY <2>1, <4>1, LookupIs
    <3>2. QED
      BY <1>2, <3>1
  <2>2. QED
    BY <2>1
<1>6. QED
  BY <1>4, <1>5 DEF cmsGetFormatter, cmsGetStockInputFormatter, cmsGetStockOutputFormatter

\* None of the unrollers among them moves backwards,
LEMMA FloatUnrollMoves ==
  ASSUME NEW f, IsFormat(f), NEW frm \in FloatUnrollers
  PROVE  Unroll(frm, f, BytesPerPlane(f)).adv \in Nat
<1> DEFINE b == BytesPerPlane(f)
<1>1. f.extra \in Nat /\ Samples(f) * PixelSize(f) \in Nat
  BY FormatType
<1>2. \A size \in {4, 8} : \A step, how : Triple(f, size, step, how).adv \in Nat
  BY <1>1 DEF Triple
<1>3. CASE frm \in { "UnrollLabDoubleToFloat", "UnrollLabFloatToFloat",
                     "UnrollXYZDoubleToFloat", "UnrollXYZFloatToFloat" }
  BY <1>2, <1>3, ReckonedUnroll
     DEF UnrollLabDoubleToFloat, UnrollLabFloatToFloat, UnrollXYZDoubleToFloat, UnrollXYZFloatToFloat
<1>4. CASE frm \in { "UnrollFloatsToFloat", "UnrollDoublesToFloat", "Unroll8ToFloat",
                     "Unroll16ToFloat", "UnrollHalfToFloat" }
  <2> DEFINE adv(n) == IF Is("planar", f) THEN n ELSE Samples(f) * PixelSize(f)
  <2>1. /\ UnrollFloatsToFloat(f, b).adv = adv(4) /\ UnrollDoublesToFloat(f, b).adv = adv(8)
        /\ Unroll8ToFloat(f, b).adv = adv(1) /\ Unroll16ToFloat(f, b).adv = adv(2)
        /\ UnrollHalfToFloat(f, b).adv = adv(2)
    BY DEF UnrollFloatsToFloat, UnrollDoublesToFloat, Unroll8ToFloat, Unroll16ToFloat,
           UnrollHalfToFloat, FloatLoop, Loop
  <2>2. \A n \in Nat : adv(n) \in Nat
    BY <1>1
  <2> HIDE DEF adv
  <2>3. QED
    BY <1>4, <2>1, <2>2, ReckonedUnroll
<1>5. CASE frm \in { "UnrollLabV2_8ToFloat", "UnrollALabV2_8ToFloat", "UnrollLabV2_16ToFloat" }
  <2>1. frm \in DOMAIN LabV2ToFloat /\ LabV2ToFloat[frm].adv \in Nat
    BY <1>5 DEF LabV2ToFloat, Reads
  <2>2. QED
    BY <2>1, LabUnroll
<1>6. QED
  BY <1>3, <1>4, <1>5 DEF FloatUnrollers

\* and none of the packers returns a slice with a length below zero.
LEMMA FloatPackSound ==
  ASSUME NEW f, IsFormat(f), NEW frm \in FloatPackers
  PROVE  Sound(Pack(frm, f, BytesPerPlane(f)))
<1> DEFINE b == BytesPerPlane(f)
<1>1. CASE frm \in { "PackLabFloatFromFloat", "PackXYZFloatFromFloat", "PackLabDoubleFromFloat",
                     "PackXYZDoubleFromFloat" }
  <2>1. \A size \in {4, 8}, lanes \in {1, 3} : Sound(StoreTriple(f, size, size, lanes))
    <3> TAKE size \in {4, 8}, lanes \in {1, 3}
    <3>1. size \in Nat
      OBVIOUS
    <3>2. QED
      BY <3>1, TripleSound
  <2>2. QED
    BY <1>1, <2>1, ReckonedPack
       DEF PackLabFloatFromFloat, PackXYZFloatFromFloat, PackLabDoubleFromFloat, PackXYZDoubleFromFloat
<1>2. CASE frm \in { "PackFloatsFromFloat", "PackDoublesFromFloat" }
  <2>1. \A last \in {TRUE, FALSE} : Sound(FloatWrites(f, b, last))
    BY FloatSound
  <2>2. QED
    BY <1>2, <2>1, ReckonedPack DEF PackFloatsFromFloat, PackDoublesFromFloat
<1>3. CASE frm = "PackHalfFromFloat"
  BY <1>3, ReckonedPack, HalfsTidy
<1>4. QED
  BY <1>1, <1>2, <1>3 DEF FloatPackers

\* So no formatter of a transform ever does.
LEMMA SlicesMove ==
  ASSUME Looked, phase \in {"ready", "running", "done", "panicked"}
  PROVE  unroll.adv \in Nat /\ Sound(pack)
<1>1. CASE float
  <2>1. unroller \in FloatUnrollers /\ packer \in FloatPackers
    BY <1>1, FloatNames DEF Looked, unroller, packer
  <2>2. QED
    BY <2>1, FloatUnrollMoves, FloatPackSound DEF unroll, pack, Looked
<1>2. CASE ~float
  <2>1. /\ unroller = cmsGetFormatter(inFmt, "input", FALSE) /\ unroller # None
        /\ packer = cmsGetFormatter(outFmt, "output", FALSE) /\ packer # None
    BY <1>2 DEF Looked, unroller, packer
  <2>2. Serves(unroller, inFmt) /\ Keeps(packer, outFmt)
    BY <2>1, Input16Serves, Output16Keeps DEF Looked
  <2>3. QED
    BY <2>2 DEF Serves, Keeps, unroll, pack
<1>3. QED
  BY <1>1, <1>2

----------------------------------------------------------------------------
(* The slices do not run out.                                              *)

Chunky == ~Is("planar", inFmt) /\ ~Is("planar", outFmt)

\* What is left of the output buffer is enough for the pixels that are left,
\* or for one of them if the slice never moves.
Left ==
  IF pack.keep = All
  THEN /\ output.at + output.len = RowSize(outFmt) + room
       /\ output.len >= (Pixels - Len(read)) * Advance(outFmt)
  ELSE output.at = 0 /\ output.len >= Advance(outFmt)
Sliced ==
  /\ formats \in Pairs \cup Changes /\ float \in BOOLEAN /\ canChange \in BOOLEAN
  /\ room \in Rooms /\ accum \in Nat /\ output.at \in Nat /\ output.len \in Nat
  /\ phase \in {"running", "done", "panicked"} =>
       /\ read \in Seq({ LanesAt(x) : x \in Int })
       /\ Len(read) <= Pixels
  /\ Transforming /\ ~Is("planar", outFmt) => Left
  /\ phase = "panicked" => Outdated \/ ~Chunky \/ Overreads(unroller, inFmt)
SlicesInv == LanesInv /\ Sliced

\* A row is so many pixels.
LEMMA RowIs ==
  ASSUME NEW f, IsFormat(f)
  PROVE  /\ RowSize(f) \in Nat
         /\ ~Is("planar", f) => RowSize(f) = Pixels * Advance(f) /\ Advance(f) <= RowSize(f)
<1> DEFINE a == PixelSize(f) * Samples(f)
           n == Pixels
<1>1. a \in Nat /\ n \in Nat \ {0} /\ PixelSize(f) \in Nat /\ Samples(f) \in Nat
  BY FormatType
<1>2. RowSize(f) = n * a
  <2>1. n * Samples(f) * PixelSize(f) = n * (PixelSize(f) * Samples(f))
    BY <1>1
  <2>2. QED
    BY <2>1 DEF RowSize
<1>3. ~Is("planar", f) => Advance(f) = a
  BY DEF Advance
<1> HIDE DEF a, n
<1>4. n * a \in Nat /\ a <= n * a
  <2>1. 1 * a <= n * a
    BY <1>1
  <2>2. QED
    BY <1>1, <2>1
<1>5. QED
  BY <1>2, <1>3, <1>4 DEF n

\* The types follow from the invariant,
LEMMA TypesFromInv == ASSUME SlicesInv PROVE TypeOK
<1>1. phase \in {"ready", "running", "done", "panicked"} => None \notin {unroller, packer}
  BY DEF SlicesInv, LanesInv, Looked, unroller, packer
<1>2. Len(read) <= Pixels
  <2>1. CASE phase \in {"new", "ready", "refused"}
    BY <2>1, FormattedTransformAssumption DEF SlicesInv, LanesInv, InStep
  <2>2. CASE phase \in {"running", "done", "panicked"}
    BY <2>2 DEF SlicesInv, Sliced
  <2>3. QED
    BY <2>1, <2>2 DEF SlicesInv, LanesInv, Phases
<1>3. QED
  BY <1>1, <1>2 DEF SlicesInv, LanesInv, Looked, Sliced, TypeOK, Phases

\* and so does it that a row fits, as long as its formats are not planar.
LEMMA RowFitsBuffer ==
  ASSUME SlicesInv, phase = "running", Len(read) < Pixels, ~Outdated, Chunky, ~Overreads(unroller, inFmt)
  PROVE  Fit
<1> DEFINE n == Len(read)
           a == Advance(inFmt)
           c == Advance(outFmt)
           adv == unroll.adv
           needs == unroll.needs
<1>1. Looked /\ Transforming /\ IsFormat(inFmt) /\ IsFormat(outFmt)
  BY DEF SlicesInv, LanesInv, Looked, Transforming
<1>2. n \in Nat /\ Pixels \in Nat /\ n + 1 <= Pixels /\ room \in Nat
  <2>1. read \in Seq({ LanesAt(x) : x \in Int })
    BY DEF SlicesInv, Sliced
  <2>2. n \in Nat
    BY <2>1
  <2>3. QED
    BY <2>2, FormattedTransformAssumption DEF SlicesInv, Sliced
<1>3. a \in Nat /\ c \in Nat /\ RowSize(inFmt) = Pixels * a /\ RowSize(outFmt) = Pixels * c
      /\ RowSize(inFmt) \in Nat /\ RowSize(outFmt) \in Nat
  BY <1>1, AdvanceType, RowIs DEF Chunky
<1>4. adv \in Nat /\ adv <= a /\ needs \in 0 .. a /\ accum = n * adv
  BY <1>1, UnrollerServes DEF Serves, Stays, unroll, Chunky, SlicesInv, LanesInv, InStep
<1>5. Sound(pack) /\ Modest(pack, outFmt) /\ Left
  BY <1>1, PackerKeeps DEF Keeps, pack, Chunky, SlicesInv, Sliced
<1>6. accum + needs <= RowSize(inFmt) + room
  <2> HIDE DEF n, a, adv, needs
  <2>1. n * adv <= n * a
    BY <1>2, <1>3, <1>4
  <2>2. (n + 1) * a <= Pixels * a /\ (n + 1) * a = n * a + a
    BY <1>2, <1>3
  <2>3. QED
    BY <1>2, <1>3, <1>4, <2>1, <2>2
<1>7. pack.needs <= output.len /\ output.at + pack.keep <= RowSize(outFmt) + room
  <2> DEFINE rest == (Pixels - n) * c
  <2> HIDE DEF n, c
  <2>1. /\ output.at \in Nat /\ output.len \in Nat /\ pack.needs \in Nat /\ pack.needs <= c
        /\ pack.keep # All => pack.keep = c
    BY <1>5 DEF Sound, Modest, Chunky, SlicesInv, Sliced, c
  <2>2. rest \in Nat /\ c <= rest
    <3>1. 1 * c <= (Pixels - n) * c
      <4> DEFINE m == Pixels - n
      <4>1. m \in Nat /\ 1 <= m
        BY <1>2
      <4> HIDE DEF m
      <4>2. 1 * c <= m * c
        BY <1>3, <4>1
      <4>3. QED
        BY <4>2 DEF m
    <3>2. QED
      BY <1>2, <1>3, <3>1
  <2>3. c <= Pixels * c
    <3>1. 1 * c <= Pixels * c
      BY <1>2, <1>3
    <3>2. QED
      BY <1>3, <3>1
  <2> HIDE DEF rest
  <2>4. CASE pack.keep = All
    <3>1. output.at + output.len = RowSize(outFmt) + room /\ output.len >= rest
      BY <1>5, <2>4 DEF Left, rest, n, c
    <3>2. All = -1
      BY DEF All
    <3>3. QED
      BY <1>2, <1>3, <2>1, <2>2, <2>4, <3>1, <3>2
  <2>5. CASE pack.keep # All
    <3>1. output.at = 0 /\ output.len >= c
      BY <1>5, <2>5 DEF Left, c
    <3>2. QED
      BY <1>2, <1>3, <2>1, <2>3, <2>5, <3>1
  <2>6. QED
    BY <2>4, <2>5
<1>8. QED
  BY <1>6, <1>7 DEF Fit

\* The invariant holds at first,
LEMMA SlicesInit == Init => SlicesInv
<1> SUFFICES ASSUME Init PROVE Sliced
  BY LanesInit DEF SlicesInv
<1>1. PICK pair \in Pairs : inFmt = pair[1] /\ outFmt = pair[2]
  BY DEF Init
<1>2. formats \in Pairs
  BY <1>1, FormattedTransformAssumption DEF formats
<1>3. QED
  BY <1>2 DEF Init, Sliced, Transforming

\* Left in terms of its values, to say what a step makes of them.
Leaves(p, f, at, len, n, spare) ==
  IF p.keep = All
  THEN at + len = RowSize(f) + spare /\ len >= (Pixels - n) * Advance(f)
  ELSE at = 0 /\ len >= Advance(f)

\* What is left,
LEMMA LeftIs == Left <=> Leaves(pack, outFmt, output.at, output.len, Len(read), room)
  BY DEF Left, Leaves

\* before the first pixel,
LEMMA SlicesStart ==
  ASSUME NEW p, NEW f, IsFormat(f), ~Is("planar", f), NEW spare \in Nat
  PROVE  Leaves(p, f, 0, RowSize(f) + spare, 0, spare)
<1> DEFINE row == RowSize(f)
<1>1. row \in Nat /\ row = Pixels * Advance(f) /\ Advance(f) <= row /\ Advance(f) \in Nat
  BY RowIs, AdvanceType
<1>2. Pixels - 0 = Pixels
  BY FormattedTransformAssumption
<1> HIDE DEF row
<1>3. 0 + (row + spare) = row + spare /\ row + spare >= row /\ row + spare >= Advance(f)
  BY <1>1
<1>4. QED
  BY <1>1, <1>2, <1>3 DEF Leaves, row

\* and after one more.
LEMMA SlicesShrink ==
  ASSUME NEW p, NEW f, IsFormat(f), ~Is("planar", f), Sound(p), Modest(p, f),
         NEW at \in Nat, NEW len \in Nat, NEW n \in Nat, n < Pixels, NEW spare \in Nat,
         Leaves(p, f, at, len, n, spare)
  PROVE  Leaves(p, f, at + p.adv, IF p.keep = All THEN len - p.adv ELSE p.keep, n + 1, spare)
<1> DEFINE a == Advance(f)
           rest == (Pixels - n) * a
           adv == p.adv
<1>1. a \in Nat /\ RowSize(f) \in Nat /\ Pixels \in Nat
  BY RowIs, AdvanceType, FormatType
<1>2. adv \in Nat /\ (p.keep = All => adv <= a)
  <2>1. p.keep = All => p.keep \notin Nat
    BY DEF All
  <2>2. p.needs \in Nat /\ p.needs <= a /\ adv \in Nat /\ (p.keep = All => adv <= p.needs)
    BY <2>1 DEF Sound, Modest
  <2> HIDE DEF a, adv
  <2>3. QED
    BY <1>1, <2>2
<1> HIDE DEF adv
<1>3. CASE p.keep = All
  <2>1. at + len = RowSize(f) + spare /\ len >= rest
    BY <1>3 DEF Leaves
  <2>2. rest = (Pixels - (n + 1)) * a + a /\ (Pixels - (n + 1)) * a \in Nat
    <3> DEFINE m == Pixels - (n + 1)
    <3>1. m \in Nat /\ Pixels - n = m + 1
      BY <1>1
    <3> HIDE DEF m, a
    <3>2. (m + 1) * a = m * a + a /\ m * a \in Nat
      BY <1>1, <3>1
    <3>3. QED
      BY <3>1, <3>2 DEF m
  <2> DEFINE less == (Pixels - (n + 1)) * a
  <2> HIDE DEF rest, less
  <2>3. rest = less + a /\ less \in Nat
    BY <2>2 DEF less
  <2> HIDE DEF a
  <2>4. (at + adv) + (len - adv) = RowSize(f) + spare /\ len - adv >= less
    BY <1>1, <1>2, <1>3, <2>1, <2>3
  <2>5. QED
    BY <1>3, <2>4 DEF Leaves, less, a, adv
<1>4. CASE p.keep # All
  <2>1. at = 0 /\ adv = 0 /\ p.keep = a
    BY <1>4 DEF Leaves, Modest, adv
  <2>2. at + adv = 0 /\ p.keep >= a
    BY <1>1, <2>1
  <2>3. QED
    BY <1>4, <2>2 DEF Leaves, adv
<1>5. QED
  BY <1>3, <1>4

\* Every step keeps the invariant.
LEMMA SlicesStep == SlicesInv /\ [Next]_vars => SlicesInv'
<1> SUFFICES ASSUME SlicesInv, [Next]_vars PROVE Sliced'
  BY LanesStep DEF SlicesInv
<1> USE DEF SlicesInv, LanesInv, Phases
<1>1. CASE AllocFloat \/ Alloc16
  <2>1. /\ UNCHANGED <<created, formats, buffers>> /\ phase' \in {"ready", "refused"}
        /\ float' \in BOOLEAN /\ canChange' \in BOOLEAN
    <3>1. CASE AllocFloat
      BY <3>1 DEF AllocFloat, formats, buffers
    <3>2. CASE Alloc16
      <4>1. (inFmt.bytes >= 2) \in BOOLEAN
        BY DEF Looked, IsFormat
      <4>2. QED
        BY <3>2, <4>1 DEF Alloc16, Sliced
    <3>3. QED
      BY <1>1, <3>1, <3>2
  <2>2. QED
    BY <2>1 DEF Sliced, Transforming, buffers
<1>2. CASE cmsChangeBuffersFormat
  <2>1. PICK pair \in Changes : inFmt' = pair[1] /\ outFmt' = pair[2]
    BY <1>2 DEF cmsChangeBuffersFormat
  <2>2. formats' \in Changes
    BY <2>1, FormattedTransformAssumption DEF formats
  <2>3. phase = "ready" /\ UNCHANGED <<created, float, canChange, phase, buffers>>
    BY <1>2 DEF cmsChangeBuffersFormat
  <2>4. QED
    BY <2>2, <2>3 DEF Sliced, Transforming, buffers
<1>3. CASE CmsDoTransform
  <2>1. /\ phase = "ready" /\ phase' = "running" /\ read = <<>>
        /\ UNCHANGED <<created, formats, float, canChange, outFmt, room, accum, read>>
        /\ output' = [at |-> 0, len |-> RowSize(outFmt) + room]
    BY <1>3 DEF CmsDoTransform, formats, formatters, InStep
  <2>2. IsFormat(outFmt) /\ room \in Nat
    BY <2>1, FormattedTransformAssumption DEF Looked, Sliced
  <2>3. RowSize(outFmt) + room \in Nat
    BY <2>2, RowIs
  <2>4. ~Is("planar", outFmt) => Left'
    <3>1. \A p : ~Is("planar", outFmt) => Leaves(p, outFmt, 0, RowSize(outFmt) + room, 0, room)
      BY <2>2, SlicesStart
    <3>2. Left' <=> Leaves(pack', outFmt, 0, RowSize(outFmt) + room, 0, room)
      BY <2>1 DEF Left, Leaves
    <3>3. QED
      BY <3>1, <3>2
  <2>5. read' \in Seq({ LanesAt(x) : x \in Int }') /\ Len(read') <= Pixels
    BY <2>1, FormattedTransformAssumption
  <2>6. QED
    BY <2>1, <2>3, <2>4, <2>5 DEF Sliced
<1>4. CASE Pixel
  <2>1. /\ phase = "running" /\ phase' = "running" /\ Len(read) < Pixels /\ Fit
        /\ read' = Append(read, LanesAt(accum)) /\ accum' = accum + unroll.adv
        /\ UNCHANGED <<created, formats, formatters, room>>
        /\ output' = [at |-> output.at + pack.adv,
                      len |-> IF pack.keep = All THEN output.len - pack.adv ELSE pack.keep]
    BY <1>4 DEF Pixel, LanesAt
  <2>2. /\ unroll' = unroll /\ pack' = pack /\ (Outdated' <=> Outdated) /\ (Transforming' <=> Transforming)
        /\ outFmt' = outFmt /\ \A x : LanesAt(x)' = LanesAt(x)
    BY <2>1 DEF unroll, unroller, pack, packer, Outdated, Transforming, formats, formatters, LanesAt
  <2>3. unroll.adv \in Nat /\ Sound(pack)
    BY <2>1, SlicesMove
  <2>4. accum' \in Nat
    BY <2>1, <2>3 DEF Sliced
  <2>5. output'.at \in Nat /\ output'.len \in Nat
    <3>1. /\ output.at \in Nat /\ output.len \in Nat
          /\ pack.adv \in Nat /\ pack.needs \in Nat /\ pack.needs <= output.len
          /\ pack.keep \in Nat \/ (pack.keep = All /\ pack.adv <= pack.needs)
      BY <2>1, <2>3 DEF Fit, Sliced, Sound
    <3>2. All \notin Nat
      BY DEF All
    <3>3. QED
      BY <2>1, <3>1, <3>2
  <2> DEFINE n == Len(read)
  <2>6. /\ read' \in Seq({ LanesAt(x) : x \in Int }) /\ n \in Nat /\ Len(read') = n + 1 /\ n + 1 <= Pixels
    <3>1. read \in Seq({ LanesAt(x) : x \in Int }) /\ accum \in Int
      BY <2>1 DEF Sliced
    <3>2. LanesAt(accum) \in { LanesAt(x) : x \in Int }
      BY <3>1
    <3>3. QED
      BY <2>1, <3>1, <3>2, AppendProperties, FormattedTransformAssumption
  <2>7. { LanesAt(x)' : x \in Int } = { LanesAt(x) : x \in Int }
    BY <2>2
  <2>8. ASSUME Transforming, ~Is("planar", outFmt)
        PROVE  Left'
    <3>1. Left /\ IsFormat(outFmt) /\ Modest(pack, outFmt) /\ room \in Nat
      BY <2>1, <2>8, PackerKeeps, FormattedTransformAssumption DEF Sliced, Looked, Keeps, pack
    <3>2. Leaves(pack, outFmt, output.at, output.len, n, room)
      BY <3>1, LeftIs
    <3>3. Leaves(pack, outFmt, output.at + pack.adv,
                 IF pack.keep = All THEN output.len - pack.adv ELSE pack.keep, n + 1, room)
      <4>1. output.at \in Nat /\ output.len \in Nat
        BY DEF Sliced
      <4> HIDE DEF n
      <4>2. QED
        BY <2>1, <2>3, <2>6, <2>8, <3>1, <3>2, <4>1, SlicesShrink DEF n
    <3>4. /\ output'.at = output.at + pack.adv
          /\ output'.len = IF pack.keep = All THEN output.len - pack.adv ELSE pack.keep
          /\ room' = room
      BY <2>1
    <3>5. Leaves(pack', outFmt', output'.at, output'.len, Len(read'), room')
      BY <2>2, <2>6, <3>3, <3>4
    <3>6. QED
      BY <3>5 DEF Left, Leaves
  <2>9. QED
    <3>1. formats' \in Pairs \cup Changes /\ float' \in BOOLEAN /\ canChange' \in BOOLEAN /\ room' \in Rooms
      BY <2>1 DEF Sliced, formatters
    <3>2. read' \in Seq({ LanesAt(x)' : x \in Int })
      BY <2>6, <2>7
    <3>3. Transforming' /\ ~Is("planar", outFmt') => Left'
      BY <2>2, <2>8
    <3> HIDE DEF n
    <3>4. QED
      BY <2>1, <2>4, <2>5, <2>6, <3>1, <3>2, <3>3 DEF Sliced
<1>5. CASE Panic \/ Finish \/ UNCHANGED vars
  <2>1. /\ UNCHANGED <<created, formats, formatters, buffers>>
        /\ phase' = phase \/ (phase = "running" /\ phase' \in {"done", "panicked"})
    BY <1>5 DEF Panic, Finish, vars
  <2>2. /\ unroller' = unroller /\ unroll' = unroll /\ pack' = pack /\ (Outdated' <=> Outdated)
        /\ (Chunky' <=> Chunky) /\ inFmt' = inFmt /\ outFmt' = outFmt /\ \A x : LanesAt(x)' = LanesAt(x)
    BY <2>1 DEF unroll, unroller, pack, packer, Outdated, Chunky, formats, formatters, LanesAt
  <2>3. Left' <=> Left
    BY <2>1, <2>2 DEF Left, buffers
  <2>4. Transforming' => Transforming
    BY <2>1, <2>2 DEF Transforming
  <2>5. { LanesAt(x)' : x \in Int } = { LanesAt(x) : x \in Int }
    BY <2>2
  <2>6. phase' = "panicked" => Outdated \/ ~Chunky \/ Overreads(unroller, inFmt)
    <3>1. CASE Panic
      BY <3>1, RowFitsBuffer DEF Panic
    <3>2. CASE ~Panic
      <4>1. phase' = "panicked" => phase = "panicked"
        BY <1>5, <3>2 DEF Finish, vars
      <4>2. QED
        BY <4>1 DEF Sliced
    <3>3. QED
      BY <3>1, <3>2
  <2>7. QED
    BY <2>1, <2>2, <2>3, <2>4, <2>5, <2>6 DEF Sliced, buffers, formatters
<1>6. QED
  BY <1>1, <1>2, <1>3, <1>4, <1>5 DEF Next

\* Whatever formats there are, no formatter slices or indexes beyond buffers of
\* a row of any length, nor beyond longer ones if the formats are not planar,
\* but where README.md says otherwise.
THEOREM StaysInBufferAlways ==
  Spec => [](room = 0 \/ ~(Is("planar", inFmt) \/ Is("planar", outFmt)) => StaysInBuffer)
<1>1. SlicesInv => (room = 0 \/ ~(Is("planar", inFmt) \/ Is("planar", outFmt)) => StaysInBuffer)
  BY TypesFromInv DEF SlicesInv, Sliced, StaysInBuffer, Chunky
<1>2. QED
  BY <1>1, SlicesInit, SlicesStep, PTL DEF Spec

\* A transform that was created has both of its formatters, and the slices
\* they return never have a length below zero: after the formats of a transform
\* of floats were changed, too.
THEOREM TypesAreCorrect == Spec => []TypeOK
<1>1. SlicesInv => TypeOK
  BY TypesFromInv
<1>2. QED
  BY <1>1, SlicesInit, SlicesStep, PTL DEF Spec
=============================================================================
