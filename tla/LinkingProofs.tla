--------------------------- MODULE LinkingProofs ---------------------------
(***************************************************************************)
(* What Linking promises of a transform that is returned, for any profiles *)
(* and any chain of them: that its stages meet, and that each profile has  *)
(* its part once and in order; and that a chain of sound profiles has one. *)
(*                                                                         *)
(* Every reader of a profile, whatever the profile, makes stages that take *)
(* one encoding and give another (Reads), of which one is a table at most  *)
(* (Own), and AddConversion adds stages of no profile that lead from what  *)
(* comes out to what goes in (Adds).  So a round of DefaultICCintents puts *)
(* one profile's part behind the parts before it (StepHolds).  In which    *)
(* space the chain is after a round is found in GetXFormColorSpaces by     *)
(* another rule, which comes to the same (WalkAgrees).  The invariant of   *)
(* both loops together is ChainUpto; that of the creation of a transform,  *)
(* LinkingInv, says only whose the pipeline is that it returns.            *)
(*                                                                         *)
(* That nothing fails is argued with the channels: a sound profile is read *)
(* as stages that take those of one of its spaces and give those of the    *)
(* other (Yields), whichever way it is used, and the space it is handed is *)
(* one it takes (SpaceComes).  The invariant of both loops is YieldsUpto.  *)
(* It holds of the chains that measure a black point too (TwoMade,         *)
(* RoundtripMade), so that no conversion fails (ConversionMade).           *)
(***************************************************************************)
EXTENDS Linking, SequenceTheorems, FiniteSetTheorems, WellFoundedInduction, TLAPS

----------------------------------------------------------------------------
(* Induction, from the well-foundedness of the natural numbers.            *)

\* A set of natural numbers has a least.
LEMMA LeastNatural ==
  ASSUME NEW T, T \subseteq Nat, T # {}
  PROVE  \E x \in T : \A y \in T : x <= y
<1> DEFINE R == {ss \in Nat \X Nat : ss[1] < ss[2]}
<1>1. IsWellFoundedOn(OpToRel(<, Nat), Nat)
  BY NatLessThanWellFounded
<1>2. OpToRel(<, Nat) = R
  BY DEF OpToRel
<1>3. IsWellFoundedOn(R, Nat)
  BY <1>1, <1>2, Zenon
<1>4. ASSUME NEW x \in T, NEW y \in T, ~(<<y, x>> \in R)
      PROVE  x <= y
  <2>1. <<y, x>> \in Nat \X Nat /\ <<y, x>>[1] = y /\ <<y, x>>[2] = x
    OBVIOUS
  <2>2. ~(y < x)
    BY <1>4, <2>1, Zenon
  <2>3. QED
    BY <2>2
<1> HIDE DEF R
<1>5. PICK x \in T : \A y \in T : ~(<<y, x>> \in R)
  BY <1>3, WFMin
<1>6. QED
  BY <1>4, <1>5

\* Induction over an interval.
LEMMA Induction ==
  ASSUME NEW n \in Nat, NEW S, 0 \in S, \A i \in 0 .. n : i \in S /\ i < n => i + 1 \in S
  PROVE  0 .. n \subseteq S
<1> SUFFICES ASSUME (0 .. n) \ S # {} PROVE FALSE
  OBVIOUS
<1>0. (0 .. n) \ S \subseteq Nat
  OBVIOUS
<1>1. PICK x \in (0 .. n) \ S : \A y \in (0 .. n) \ S : x <= y
  BY <1>0, LeastNatural
<1>2. x # 0 /\ x - 1 \in 0 .. n
  BY <1>1
<1>3. QED
  BY <1>1, <1>2

----------------------------------------------------------------------------
(* Lists of stages, and what goes through them.                            *)

\* e is a list of stages.
IsList(e) == \E S : e \in Seq(S)

\* A list has a length and is defined up to it.
LEMMA ListFacts ==
  ASSUME NEW e, IsList(e)
  PROVE  Len(e) \in Nat /\ DOMAIN e = 1 .. Len(e)
<1>1. PICK S : e \in Seq(S)
  BY DEF IsList
<1>2. QED
  BY <1>1, LenProperties

\* The list of no stage.
LEMMA EmptyList == IsList(<<>>) /\ Len(<<>>) = 0
<1>1. <<>> \in Seq({})
  OBVIOUS
<1>2. QED
  BY <1>1 DEF IsList

\* The list of one stage.
LEMMA OneList ==
  ASSUME NEW s
  PROVE  IsList(<<s>>) /\ Len(<<s>>) = 1 /\ <<s>>[1] = s
<1>1. <<s>> \in Seq({s}) /\ Len(<<s>>) = 1 /\ <<s>>[1] = s
  OBVIOUS
<1>2. QED
  BY <1>1 DEF IsList

\* A sequence is one over any larger set too.
LEMMA WiderSeq ==
  ASSUME NEW S, NEW T, S \subseteq T, NEW e \in Seq(S)
  PROVE  e \in Seq(T)
<1>1. Len(e) \in Nat /\ e \in [1 .. Len(e) -> S]
  BY LenProperties
<1>2. e \in [1 .. Len(e) -> T]
  BY <1>1
<1>3. QED
  BY <1>1, <1>2 DEF Seq

\* Both parts of two lists in a row.
LEMMA ConcatLists ==
  ASSUME NEW e, IsList(e), NEW f, IsList(f)
  PROVE  /\ IsList(e \o f) /\ Len(e \o f) = Len(e) + Len(f)
         /\ \A k \in 1 .. Len(e) : (e \o f)[k] = e[k]
         /\ \A k \in 1 .. Len(f) : (e \o f)[Len(e) + k] = f[k]
<1>1. PICK S : e \in Seq(S)
  BY DEF IsList
<1>2. PICK T : f \in Seq(T)
  BY DEF IsList
<1> DEFINE U == S \cup T
<1>3. e \in Seq(U) /\ f \in Seq(U)
  <2>1. S \subseteq U /\ T \subseteq U
    OBVIOUS
  <2> HIDE DEF U
  <2>2. QED
    BY <1>1, <1>2, <2>1, WiderSeq
<1> HIDE DEF U
<1>4. /\ e \o f \in Seq(U) /\ Len(e \o f) = Len(e) + Len(f)
      /\ \A i \in 1 .. Len(e) + Len(f) : (e \o f)[i] = IF i <= Len(e) THEN e[i] ELSE f[i - Len(e)]
  BY <1>3, ConcatProperties
<1>5. Len(e) \in Nat /\ Len(f) \in Nat
  BY <1>3, LenProperties
<1>6. \A k \in 1 .. Len(e) : k \in 1 .. Len(e) + Len(f) /\ k <= Len(e)
  BY <1>5
<1>7. \A k \in 1 .. Len(f) : /\ Len(e) + k \in 1 .. Len(e) + Len(f) /\ ~(Len(e) + k <= Len(e))
                             /\ (Len(e) + k) - Len(e) = k
  BY <1>5
<1>8. QED
  BY <1>4, <1>6, <1>7 DEF IsList

\* A stage appended is a list of one after the others.
LEMMA AppendedIs ==
  ASSUME NEW e, IsList(e), NEW s
  PROVE  Append(e, s) = e \o <<s>>
<1>1. PICK S : e \in Seq(S)
  BY DEF IsList
<1> DEFINE U == S \cup {s}
<1>2. e \in Seq(U) /\ s \in U
  <2>1. S \subseteq U /\ s \in U
    OBVIOUS
  <2> HIDE DEF U
  <2>2. QED
    BY <1>1, <2>1, WiderSeq
<1> HIDE DEF U
<1>3. QED
  BY <1>2, AppendIsConcat

\* The values the loop of Through leaves.
FlowUpto(f, e, x, n) == f = [k \in 0 .. n |-> IF k = 0 THEN x ELSE Flow(f[k - 1], e[k])]

\* They exist for any number of stages.
LEMMA FlowUptoExists ==
  ASSUME NEW n \in Nat, NEW e, NEW v
  PROVE  \E f : FlowUpto(f, e, v, n)
<1> DEFINE Upto == {k \in 0 .. n : \E f : FlowUpto(f, e, v, k)}
<1>1. 0 \in Upto
  <2> DEFINE f == [k \in 0 .. 0 |-> v]
  <2>1. FlowUpto(f, e, v, 0)
    BY DEF FlowUpto
  <2> HIDE DEF f
  <2>2. 0 \in 0 .. n
    OBVIOUS
  <2>3. QED
    BY <2>1, <2>2
<1>2. ASSUME NEW i \in 0 .. n, i \in Upto, i < n PROVE i + 1 \in Upto
  <2>1. PICK f : FlowUpto(f, e, v, i)
    BY <1>2
  <2> DEFINE g == [k \in 0 .. i + 1 |-> IF k <= i THEN f[k] ELSE Flow(f[i], e[i + 1])]
  <2>2. ASSUME NEW k \in 0 .. i + 1
        PROVE  g[k] = IF k = 0 THEN v ELSE Flow(g[k - 1], e[k])
    <3>1. CASE k <= i
      <4>1. k \in 0 .. i /\ g[k] = f[k] /\ (k # 0 => k - 1 \in 0 .. i + 1 /\ k - 1 <= i)
        BY <3>1
      <4>2. k # 0 => g[k - 1] = f[k - 1]
        BY <4>1
      <4>3. f[k] = IF k = 0 THEN v ELSE Flow(f[k - 1], e[k])
        BY <4>1, <2>1 DEF FlowUpto
      <4> HIDE DEF g
      <4>4. QED
        BY <4>1, <4>2, <4>3
    <3>2. CASE ~(k <= i)
      <4>1. k # 0 /\ k - 1 = i /\ i \in 0 .. i + 1 /\ g[i] = f[i] /\ k = i + 1
        BY <3>2
      <4>2. g[k] = Flow(f[i], e[i + 1])
        BY <3>2
      <4> HIDE DEF g
      <4>3. QED
        BY <4>1, <4>2
    <3>3. QED
      BY <3>1, <3>2
  <2>3. g = [k \in 0 .. i + 1 |-> g[k]]
    OBVIOUS
  <2> HIDE DEF g
  <2>4. FlowUpto(g, e, v, i + 1)
    BY <2>2, <2>3 DEF FlowUpto
  <2>5. i + 1 \in 0 .. n
    BY <1>2
  <2>6. QED
    BY <2>4, <2>5
<1> HIDE DEF Upto
<1>3. 0 .. n \subseteq Upto
  BY <1>1, <1>2, Induction
<1>4. n \in Upto
  BY <1>3
<1>5. QED
  BY <1>4 DEF Upto

\* f has the encodings between the n stages of e, when x goes in.
Flows(f, e, x, n) ==
  f[0] = x /\ \A k \in 1 .. n : f[k] = Flow(f[k - 1], e[k])

\* What Through gives is the last of the encodings between the stages.
LEMMA ThroughIs ==
  ASSUME NEW e, IsList(e), NEW x
  PROVE  \E f : Flows(f, e, x, Len(e)) /\ Through(e, x) = f[Len(e)]
<1> DEFINE f == CHOOSE g : FlowUpto(g, e, x, Len(e))
<1>1. Len(e) \in Nat
  BY ListFacts
<1>2. FlowUpto(f, e, x, Len(e))
  <2>1. \E g : FlowUpto(g, e, x, Len(e))
    BY <1>1, FlowUptoExists
  <2>2. QED
    BY <2>1
<1>3. Through(e, x) = f[Len(e)]
  BY DEF Through, FlowUpto
<1> HIDE DEF f
<1>4. \A k \in 0 .. Len(e) : f[k] = IF k = 0 THEN x ELSE Flow(f[k - 1], e[k])
  BY <1>2 DEF FlowUpto
<1>5. Flows(f, e, x, Len(e))
  <2>1. 0 \in 0 .. Len(e) /\ \A k \in 1 .. Len(e) : k \in 0 .. Len(e) /\ k # 0
    BY <1>1
  <2>2. QED
    BY <2>1, <1>4 DEF Flows
<1>6. QED
  BY <1>3, <1>5

\* Two loops that agree at a place go on alike over stages that take and give
\* the same.
SameEnds(s, t) == s.data.from = t.data.from /\ s.data.to = t.data.to
AlikeFrom(d, a, e, n) == \A k \in 1 .. n : SameEnds(d[a + k], e[k])
Past(a, n, m) == m = a + n

\* Then they end alike.
LEMMA FlowsGoOn ==
  ASSUME NEW d, NEW e, NEW f, NEW g, NEW x, NEW y, NEW m, NEW n \in Nat, NEW a \in Nat,
         Flows(f, d, x, m), Flows(g, e, y, n), Past(a, n, m), AlikeFrom(d, a, e, n), f[a] = g[0]
  PROVE  f[m] = g[n]
<1> DEFINE Like == {k \in 0 .. n : f[a + k] = g[k]}
<1>1. 0 \in Like
  BY SMT
<1>2. ASSUME NEW k \in 0 .. n, k \in Like, k < n PROVE k + 1 \in Like
  <2>1. k + 1 \in 1 .. n /\ a + (k + 1) \in 1 .. m /\ (a + (k + 1)) - 1 = a + k /\ (k + 1) - 1 = k
        /\ k + 1 \in 0 .. n
    BY <1>2 DEF Past
  <2>2. f[a + (k + 1)] = Flow(f[a + k], d[a + (k + 1)])
    BY <2>1 DEF Flows
  <2>3. g[k + 1] = Flow(g[k], e[k + 1])
    BY <2>1 DEF Flows
  <2>4. SameEnds(d[a + (k + 1)], e[k + 1]) /\ f[a + k] = g[k]
    BY <2>1, <1>2 DEF AlikeFrom
  <2>5. Flow(f[a + k], d[a + (k + 1)]) = Flow(g[k], e[k + 1])
    BY <2>4, Zenon DEF Flow, SameEnds
  <2>6. QED
    BY <2>1, <2>2, <2>3, <2>5
<1> HIDE DEF Like
<1>3. 0 .. n \subseteq Like
  BY <1>1, <1>2, Induction
<1>4. n \in 0 .. n
  OBVIOUS
<1>5. QED
  BY <1>3, <1>4 DEF Like, Past

\* Without stages what goes in comes out.
LEMMA ThroughNone == \A x : Through(<<>>, x) = x
<1> TAKE x
<1>1. PICK f : Flows(f, <<>>, x, 0) /\ Through(<<>>, x) = f[0]
  BY ThroughIs, EmptyList
<1>2. QED
  BY <1>1 DEF Flows

\* One stage.
LEMMA ThroughOne ==
  ASSUME NEW s, NEW x
  PROVE  Through(<<s>>, x) = Flow(x, s)
<1>0. IsList(<<s>>) /\ Len(<<s>>) = 1
  BY OneList
<1>1. PICK f : Flows(f, <<s>>, x, Len(<<s>>)) /\ Through(<<s>>, x) = f[Len(<<s>>)]
  BY <1>0, ThroughIs
<1>2. f[0] = x /\ f[1] = Flow(f[1 - 1], <<s>>[1]) /\ 1 - 1 = 0 /\ <<s>>[1] = s
  BY <1>0, <1>1, OneList DEF Flows
<1>3. QED
  BY <1>0, <1>1, <1>2

\* Two lists in a row.
LEMMA ThroughBoth ==
  ASSUME NEW e, IsList(e), NEW f, IsList(f), NEW x
  PROVE  Through(e \o f, x) = Through(f, Through(e, x))
<1> DEFINE d == e \o f
<1>1. /\ IsList(d) /\ Len(d) = Len(e) + Len(f) /\ Len(e) \in Nat /\ Len(f) \in Nat
      /\ \A k \in 1 .. Len(e) : d[k] = e[k]
      /\ \A k \in 1 .. Len(f) : d[Len(e) + k] = f[k]
  BY ConcatLists, ListFacts
<1> HIDE DEF d
<1>2. PICK h : Flows(h, d, x, Len(d)) /\ Through(d, x) = h[Len(d)]
  BY <1>1, ThroughIs
<1>3. PICK g : Flows(g, e, x, Len(e)) /\ Through(e, x) = g[Len(e)]
  BY ThroughIs
<1>4. PICK u : Flows(u, f, Through(e, x), Len(f)) /\ Through(f, Through(e, x)) = u[Len(f)]
  BY ThroughIs
<1>5. h[Len(e)] = g[Len(e)]
  <2>1. Flows(h, d, x, Len(e))
    BY <1>1, <1>2 DEF Flows
  <2>2. AlikeFrom(d, 0, e, Len(e)) /\ Past(0, Len(e), Len(e))
    BY <1>1 DEF SameEnds, AlikeFrom, Past
  <2>3. h[0] = g[0]
    BY <1>3, <2>1 DEF Flows
  <2>4. QED
    BY <1>1, <1>3, <2>1, <2>2, <2>3, FlowsGoOn
<1>6. h[Len(d)] = u[Len(f)]
  <2>1. h[Len(e)] = u[0]
    BY <1>3, <1>4, <1>5 DEF Flows
  <2>2. AlikeFrom(d, Len(e), f, Len(f)) /\ Past(Len(e), Len(f), Len(d))
    BY <1>1 DEF SameEnds, AlikeFrom, Past
  <2>3. QED
    BY <1>1, <1>2, <1>4, <2>1, <2>2, FlowsGoOn
<1>7. QED
  BY <1>2, <1>4, <1>6 DEF d

\* Which profile a stage is of does not matter.
LEMMA ThroughAlike ==
  ASSUME NEW d, IsList(d), NEW e, IsList(e), Len(d) = Len(e),
         \A k \in 1 .. Len(e) : SameEnds(d[k], e[k]), NEW x
  PROVE  Through(d, x) = Through(e, x)
<1>1. Len(e) \in Nat
  BY ListFacts
<1>2. PICK f : Flows(f, d, x, Len(d)) /\ Through(d, x) = f[Len(d)]
  BY ThroughIs
<1>3. PICK g : Flows(g, e, x, Len(e)) /\ Through(e, x) = g[Len(e)]
  BY ThroughIs
<1>4. f[0] = g[0]
  BY <1>2, <1>3 DEF Flows
<1>5. AlikeFrom(d, 0, e, Len(e)) /\ Past(0, Len(e), Len(d))
  BY <1>1 DEF AlikeFrom, Past
<1>6. QED
  BY <1>1, <1>2, <1>3, <1>4, <1>5, FlowsGoOn

----------------------------------------------------------------------------
(* The stages of a pipeline that was made.                                 *)

\* Fields of a pipeline with the stages e, and the result it is if it was made.
No == FALSE
AnyLut(i, o, e, y) == [in |-> i, out |-> o, elements |-> e, saveAs8 |-> No, nil |-> y]
IsMade(r) == r.how = "made"
MadeOf(r, i, o, e, y) == r = [how |-> "made", lut |-> AnyLut(i, o, e, y)]
\* If r was made it has the stages e.
Holds(r, e) == IsMade(r) => \E i, o, y : MadeOf(r, i, o, e, y)

\* The fields of a pipeline, and what it is with one of them changed.
LEMMA LutFields ==
  ASSUME NEW i, NEW o, NEW e, NEW y, NEW d
  PROVE  /\ AnyLut(i, o, e, y).in = i /\ AnyLut(i, o, e, y).out = o
         /\ AnyLut(i, o, e, y).elements = e
         /\ [AnyLut(i, o, e, y) EXCEPT !.elements = d] = AnyLut(i, o, d, y)
         /\ [AnyLut(i, o, e, y) EXCEPT !.in = d] = AnyLut(d, o, e, y)
         /\ [AnyLut(i, o, e, y) EXCEPT !.out = d] = AnyLut(i, d, e, y)
BY DEF AnyLut

\* The stages of a result that was made.
LEMMA MadeFields ==
  ASSUME NEW r, NEW i, NEW o, NEW e, NEW y, MadeOf(r, i, o, e, y)
  PROVE  IsMade(r) /\ r.lut = AnyLut(i, o, e, y) /\ r.lut.elements = e
BY LutFields DEF MadeOf, IsMade

\* Which results were made.
LEMMA Results ==
  /\ ~IsMade(NilLut) /\ ~IsMade(Panics)
  /\ \A p : IsMade(Made(p)) /\ Made(p).lut = p
BY DEF IsMade, NilLut, Panics, Made

\* BlessLUT keeps the stages.
LEMMA BlessedIs ==
  ASSUME NEW i, NEW o, NEW e, NEW y
  PROVE  \E a, b : Blessed(AnyLut(i, o, e, y)) = AnyLut(a, b, e, y)
<1>1. AnyLut(i, o, e, y).elements = e
  BY LutFields
<1>2. CASE e = <<>>
  BY <1>1, <1>2 DEF Blessed
<1>3. CASE e # <<>>
  <2> DEFINE a == Head(e).in
             b == Last(e).out
  <2>1. Blessed(AnyLut(i, o, e, y)) = [AnyLut(i, o, e, y) EXCEPT !.in = a, !.out = b]
    BY <1>1, <1>3 DEF Blessed
  <2> HIDE DEF a, b
  <2>2. [AnyLut(i, o, e, y) EXCEPT !.in = a, !.out = b] = AnyLut(a, b, e, y)
    <3>1. [AnyLut(i, o, e, y) EXCEPT !.in = a] = AnyLut(a, o, e, y)
      BY LutFields
    <3>2. [AnyLut(a, o, e, y) EXCEPT !.out = b] = AnyLut(a, b, e, y)
      BY LutFields
    <3>3. QED
      BY <3>1, <3>2
  <2>3. QED
    BY <2>1, <2>2
<1>4. QED
  BY <1>2, <1>3

\* What cmsPipelineInsertStage and its like return has the stages they put there.
LEMMA InsertedHolds ==
  ASSUME NEW i, NEW o, NEW e, NEW y
  PROVE  Holds(Inserted(Done(AnyLut(i, o, e, y))), e)
<1>1. PICK a, b : Blessed(AnyLut(i, o, e, y)) = AnyLut(a, b, e, y)
  BY BlessedIs
<1>2. Done(AnyLut(i, o, e, y)).p = AnyLut(a, b, e, y)
  BY <1>1 DEF Done
<1> DEFINE d == Done(AnyLut(i, o, e, y))
<1> HIDE DEF d
<1>3. d.p = AnyLut(a, b, e, y)
  BY <1>2 DEF d
<1>4. CASE d.ok
  <2>1. Inserted(d) = [how |-> "made", lut |-> AnyLut(a, b, e, y)]
    BY <1>3, <1>4 DEF Inserted, Made
  <2>2. QED
    BY <2>1 DEF Holds, MadeOf, d
<1>5. CASE ~d.ok
  <2>1. Inserted(d) = NilLut
    BY <1>5 DEF Inserted
  <2>2. QED
    BY <2>1, Results DEF Holds, d
<1>6. QED
  BY <1>4, <1>5

\* A new pipeline has none.
LEMMA AllocHolds == \A i, o : Holds(Made(PipelineAlloc(i, o)), <<>>)
<1> TAKE i, o
<1>1. \E a, b, y : PipelineAlloc(i, o) = AnyLut(a, b, <<>>, y)
  BY DEF PipelineAlloc, NoPipeline, AnyLut, No
<1>2. QED
  BY <1>1 DEF Made, Holds, MadeOf

\* A stage inserted at the end.
LEMMA AtEndHolds ==
  ASSUME NEW r, NEW e, Holds(r, e), NEW s
  PROVE  Holds(AtEnd(r, s), Append(e, s)) /\ (IsMade(AtEnd(r, s)) => IsMade(r))
<1>1. CASE ~IsMade(r)
  BY <1>1 DEF IsMade, AtEnd, Holds
<1>2. CASE IsMade(r)
  <2>1. PICK i, o, y : MadeOf(r, i, o, e, y)
    BY <1>2 DEF Holds
  <2>2. r.lut = AnyLut(i, o, e, y)
        /\ [AnyLut(i, o, e, y) EXCEPT !.elements = Append(@, s)] = AnyLut(i, o, Append(e, s), y)
    <3>1. AnyLut(i, o, e, y).elements = e
      BY LutFields
    <3> DEFINE d == Append(e, s)
    <3>2. [AnyLut(i, o, e, y) EXCEPT !.elements = Append(@, s)] = [AnyLut(i, o, e, y) EXCEPT !.elements = d]
      BY <3>1
    <3> HIDE DEF d
    <3>3. [AnyLut(i, o, e, y) EXCEPT !.elements = d] = AnyLut(i, o, d, y)
      BY LutFields
    <3>4. QED
      BY <2>1, <3>2, <3>3, MadeFields DEF d
  <2>3. CASE s = NoStage
    <3>1. AtEnd(r, s) = NilLut
      BY <1>2, <2>3 DEF IsMade, AtEnd, Inserted, InsertAtEnd
    <3>2. QED
      BY <3>1, Results, <1>2 DEF Holds
  <2>4. CASE s # NoStage
    <3>1. AtEnd(r, s) = Inserted(Done(AnyLut(i, o, Append(e, s), y)))
      BY <1>2, <2>2, <2>4 DEF IsMade, AtEnd, InsertAtEnd
    <3>2. QED
      BY <3>1, <1>2, InsertedHolds
  <2>5. QED
    BY <2>3, <2>4
<1>3. QED
  BY <1>1, <1>2

\* A stage inserted at the begin.
LEMMA AtBeginHolds ==
  ASSUME NEW r, NEW e, Holds(r, e), NEW s
  PROVE  Holds(AtBegin(r, s), <<s>> \o e) /\ (IsMade(AtBegin(r, s)) => IsMade(r))
<1>1. CASE ~IsMade(r)
  BY <1>1 DEF IsMade, AtBegin, Holds
<1>2. CASE IsMade(r)
  <2>1. PICK i, o, y : MadeOf(r, i, o, e, y)
    BY <1>2 DEF Holds
  <2>2. r.lut = AnyLut(i, o, e, y)
        /\ [AnyLut(i, o, e, y) EXCEPT !.elements = <<s>> \o @] = AnyLut(i, o, <<s>> \o e, y)
    <3>1. AnyLut(i, o, e, y).elements = e
      BY LutFields
    <3> DEFINE d == <<s>> \o e
    <3>2. [AnyLut(i, o, e, y) EXCEPT !.elements = <<s>> \o @] = [AnyLut(i, o, e, y) EXCEPT !.elements = d]
      BY <3>1
    <3> HIDE DEF d
    <3>3. [AnyLut(i, o, e, y) EXCEPT !.elements = d] = AnyLut(i, o, d, y)
      BY LutFields
    <3>4. QED
      BY <2>1, <3>2, <3>3, MadeFields DEF d
  <2>3. CASE s = NoStage
    <3>1. AtBegin(r, s) = NilLut
      BY <1>2, <2>3 DEF IsMade, AtBegin, Inserted, InsertAtBegin
    <3>2. QED
      BY <3>1, Results, <1>2 DEF Holds
  <2>4. CASE s # NoStage
    <3>1. AtBegin(r, s) = Inserted(Done(AnyLut(i, o, <<s>> \o e, y)))
      BY <1>2, <2>2, <2>4 DEF IsMade, AtBegin, InsertAtBegin
    <3>2. QED
      BY <3>1, <1>2, InsertedHolds
  <2>5. QED
    BY <2>3, <2>4
<1>3. QED
  BY <1>1, <1>2

\* cmsPipelineCatSteal puts the stages of the second pipeline behind those of the first.
LEMMA StealHolds ==
  ASSUME NEW r, NEW e, Holds(r, e), NEW q, NEW f, Holds(q, f)
  PROVE  Holds(Steal(r, q), e \o f) /\ (IsMade(Steal(r, q)) => IsMade(r) /\ IsMade(q))
<1>1. CASE ~IsMade(r) \/ ~IsMade(q)
  <2>1. Steal(r, q) = [how |-> IF r.how # "made" THEN r.how ELSE q.how, lut |-> NoPipeline]
    BY <1>1 DEF Steal, IsMade
  <2>2. ~IsMade(Steal(r, q))
    BY <2>1, <1>1 DEF IsMade
  <2>3. QED
    BY <2>2 DEF Holds
<1>2. CASE IsMade(r) /\ IsMade(q)
  <2>1. PICK i, o, y : MadeOf(r, i, o, e, y)
    BY <1>2 DEF Holds
  <2>2. PICK a, b, z : MadeOf(q, a, b, f, z)
    BY <1>2 DEF Holds
  <2>3. r.lut = AnyLut(i, o, e, y) /\ q.lut.elements = f
        /\ [AnyLut(i, o, e, y) EXCEPT !.elements = @ \o f] = AnyLut(i, o, e \o f, y)
    <3>1. AnyLut(i, o, e, y).elements = e
      BY LutFields
    <3> DEFINE d == e \o f
    <3>2. [AnyLut(i, o, e, y) EXCEPT !.elements = @ \o f] = [AnyLut(i, o, e, y) EXCEPT !.elements = d]
      BY <3>1
    <3> HIDE DEF d
    <3>3. [AnyLut(i, o, e, y) EXCEPT !.elements = d] = AnyLut(i, o, d, y)
      BY LutFields
    <3>4. QED
      BY <2>1, <2>2, <3>2, <3>3, MadeFields DEF d
  <2>4. Steal(r, q) = Inserted(Done(AnyLut(i, o, e \o f, y)))
    BY <1>2, <2>3 DEF IsMade, Steal
  <2>5. QED
    BY <2>4, <1>2, InsertedHolds
<1>3. QED
  BY <1>1, <1>2

\* The stages e placed at k.
PlacedList(e, k) == [j \in DOMAIN e |-> PlacedAt(e[j], k)]

\* The stages of a pipeline are placed.
LEMMA PlaceHolds ==
  ASSUME NEW r, NEW e, Holds(r, e), NEW k
  PROVE  Holds(Place(r, k), PlacedList(e, k)) /\ (IsMade(Place(r, k)) => IsMade(r))
<1>1. CASE ~IsMade(r)
  BY <1>1 DEF IsMade, Place, Holds
<1>2. CASE IsMade(r)
  <2>1. PICK i, o, y : MadeOf(r, i, o, e, y)
    BY <1>2 DEF Holds
  <2>2. r.lut = AnyLut(i, o, e, y) /\ r.lut.elements = e
    BY <2>1, MadeFields
  <2>3. Place(r, k) = [r EXCEPT !.lut.elements = PlacedList(e, k)]
    BY <1>2, <2>2 DEF IsMade, Place, PlacedList
  <2>4. r = [how |-> "made", lut |-> AnyLut(i, o, e, y)]
    BY <2>1 DEF MadeOf
  <2> DEFINE d == PlacedList(e, k)
  <2> HIDE DEF d
  <2>5. [r EXCEPT !.lut.elements = d] = [how |-> "made", lut |-> [AnyLut(i, o, e, y) EXCEPT !.elements = d]]
    BY <2>4
  <2>6. Place(r, k) = [how |-> "made", lut |-> AnyLut(i, o, d, y)]
    BY <2>3, <2>5, LutFields DEF d
  <2>7. QED
    BY <2>6, <1>2 DEF Holds, MadeOf, d
<1>3. QED
  BY <1>1, <1>2

----------------------------------------------------------------------------
(* The stages of one profile.                                              *)

\* None has been placed in the chain yet.
IsFresh(s) == s = Converting(s.type, s.in, s.out, s.data.from, s.data.to)
Fresh(e) == \A k \in 1 .. Len(e) : IsFresh(e[k])
IsTable(s) == s.type \in Tables
OneTable(e) == \A j, k \in 1 .. Len(e) : IsTable(e[j]) /\ IsTable(e[k]) => j = k
\* The stages a profile is read as, and those put beside them.
Own(e) == IsList(e) /\ Len(e) > 0 /\ Fresh(e) /\ OneTable(e)
Aside(e) == IsList(e) /\ Fresh(e) /\ \A k \in 1 .. Len(e) : ~IsTable(e[k])
IsAside(s) == IsFresh(s) /\ ~IsTable(s)

\* Where a stage of two lists in a row is from.
LEMMA PlacesOfBoth ==
  ASSUME NEW e, IsList(e), NEW f, IsList(f), NEW k \in 1 .. Len(e \o f)
  PROVE  \/ k \in 1 .. Len(e) /\ (e \o f)[k] = e[k]
         \/ k - Len(e) \in 1 .. Len(f) /\ (e \o f)[k] = f[k - Len(e)] /\ k > Len(e)
<1>1. Len(e) \in Nat /\ Len(f) \in Nat /\ Len(e \o f) = Len(e) + Len(f)
  BY ConcatLists, ListFacts
<1>2. CASE k <= Len(e)
  <2>1. k \in 1 .. Len(e)
    BY <1>1, <1>2
  <2>2. QED
    BY <2>1, ConcatLists
<1>3. CASE k > Len(e)
  <2> DEFINE j == k - Len(e)
  <2>1. j \in 1 .. Len(f) /\ Len(e) + j = k
    BY <1>1, <1>3
  <2> HIDE DEF j
  <2>2. (e \o f)[Len(e) + j] = f[j]
    BY <2>1, ConcatLists
  <2>3. QED
    BY <2>1, <2>2, <1>3 DEF j
<1>4. QED
  BY <1>1, <1>2, <1>3

\* With stages of no profile before it, a profile still has its stages.
LEMMA AsideBefore ==
  ASSUME NEW e, Own(e), NEW f, Aside(f)
  PROVE  Own(f \o e)
<1>1. /\ IsList(f \o e) /\ Len(f \o e) = Len(f) + Len(e) /\ Len(f) \in Nat /\ Len(e) \in Nat /\ Len(e) > 0
  BY ConcatLists, ListFacts DEF Own, Aside
<1> DEFINE d == f \o e
<1>2. ASSUME NEW k \in 1 .. Len(d)
      PROVE  \/ k \in 1 .. Len(f) /\ d[k] = f[k]
             \/ k - Len(f) \in 1 .. Len(e) /\ d[k] = e[k - Len(f)] /\ k > Len(f)
  BY PlacesOfBoth DEF Own, Aside
<1> HIDE DEF d
<1>3. Fresh(d)
  BY <1>2 DEF Fresh, Own, Aside
<1>4. OneTable(d)
  <2> SUFFICES ASSUME NEW j \in 1 .. Len(d), NEW k \in 1 .. Len(d), IsTable(d[j]), IsTable(d[k])
               PROVE  j = k
    BY DEF OneTable
  <2>1. j - Len(f) \in 1 .. Len(e) /\ d[j] = e[j - Len(f)]
    BY <1>2 DEF Aside
  <2>2. k - Len(f) \in 1 .. Len(e) /\ d[k] = e[k - Len(f)]
    BY <1>2 DEF Aside
  <2>3. j - Len(f) = k - Len(f)
    BY <2>1, <2>2 DEF Own, OneTable
  <2>4. j \in Nat /\ k \in Nat /\ Len(f) \in Nat
    BY <1>1
  <2>5. QED
    BY <2>3, <2>4
<1>5. QED
  BY <1>1, <1>3, <1>4 DEF Own, d

\* And with such stages behind it.
LEMMA AsideAfter ==
  ASSUME NEW e, Own(e), NEW f, Aside(f)
  PROVE  Own(e \o f)
<1>1. /\ IsList(e \o f) /\ Len(e \o f) = Len(e) + Len(f) /\ Len(f) \in Nat /\ Len(e) \in Nat /\ Len(e) > 0
  BY ConcatLists, ListFacts DEF Own, Aside
<1> DEFINE d == e \o f
<1>2. ASSUME NEW k \in 1 .. Len(d)
      PROVE  \/ k \in 1 .. Len(e) /\ d[k] = e[k]
             \/ k - Len(e) \in 1 .. Len(f) /\ d[k] = f[k - Len(e)] /\ k > Len(e)
  BY PlacesOfBoth DEF Own, Aside
<1> HIDE DEF d
<1>3. Fresh(d)
  BY <1>2 DEF Fresh, Own, Aside
<1>4. OneTable(d)
  <2> SUFFICES ASSUME NEW j \in 1 .. Len(d), NEW k \in 1 .. Len(d), IsTable(d[j]), IsTable(d[k])
               PROVE  j = k
    BY DEF OneTable
  <2>1. j \in 1 .. Len(e) /\ d[j] = e[j]
    BY <1>2 DEF Aside
  <2>2. k \in 1 .. Len(e) /\ d[k] = e[k]
    BY <1>2 DEF Aside
  <2>3. QED
    BY <2>1, <2>2 DEF Own, OneTable
<1>5. QED
  BY <1>1, <1>3, <1>4 DEF Own, d

\* Two lists of stages of no profile are one.
LEMMA AsideBoth ==
  ASSUME NEW e, Aside(e), NEW f, Aside(f)
  PROVE  Aside(e \o f)
<1>1. IsList(e \o f)
  BY ConcatLists DEF Aside
<1>2. ASSUME NEW k \in 1 .. Len(e \o f) PROVE IsFresh((e \o f)[k]) /\ ~IsTable((e \o f)[k])
  <2>1. \/ k \in 1 .. Len(e) /\ (e \o f)[k] = e[k]
        \/ k - Len(e) \in 1 .. Len(f) /\ (e \o f)[k] = f[k - Len(e)] /\ k > Len(e)
    BY PlacesOfBoth DEF Aside
  <2>2. QED
    BY <2>1 DEF Aside, Fresh
<1>3. QED
  BY <1>1, <1>2 DEF Aside, Fresh

\* A stage that is there if c, and the encoding behind it.
Maybe(c, s) == IF c THEN <<s>> ELSE <<>>
Then(c, s, x) == IF c THEN Flow(x, s) ELSE x

\* A list of at most one stage.
LEMMA MaybeIs ==
  ASSUME NEW c, NEW s, NEW x
  PROVE  /\ IsList(Maybe(c, s)) /\ Through(Maybe(c, s), x) = Then(c, s, x)
         /\ IsAside(s) => Aside(Maybe(c, s))
<1>1. CASE c
  <2>1. IsAside(s) => Aside(<<s>>)
    BY OneList DEF Aside, Fresh, IsAside
  <2>2. QED
    BY <1>1, <2>1, OneList, ThroughOne DEF Maybe, Then
<1>2. CASE ~c
  <2>1. Aside(<<>>)
    BY EmptyList DEF Aside, Fresh
  <2>2. QED
    BY <1>2, <2>1, EmptyList, ThroughNone DEF Maybe, Then
<1>3. QED
  BY <1>1, <1>2

\* The empty list adds nothing.
LEMMA AlmostAlone ==
  ASSUME NEW e, IsList(e)
  PROVE  <<>> \o e = e /\ e \o <<>> = e
<1>1. PICK S : e \in Seq(S)
  BY DEF IsList
<1>2. QED
  BY <1>1, ConcatEmptySeq

\* The stages m, with s before them if a and u after them if b.
Around(a, s, m, b, u) == (Maybe(a, s) \o m) \o Maybe(b, u)

\* What BeginIf and EndIf do to the stages of a pipeline.
LEMMA WrapHolds ==
  ASSUME NEW r, NEW m, IsList(m), Holds(r, m), NEW a, NEW s, NEW b, NEW u
  PROVE  Holds(EndIf(b, BeginIf(a, r, s), u), Around(a, s, m, b, u))
<1> DEFINE q == BeginIf(a, r, s)
           f == Maybe(a, s) \o m
<1>1. IsList(f)
  BY ConcatLists, MaybeIs
<1>2. Holds(q, f)
  <2>1. CASE a
    BY <2>1, AtBeginHolds DEF BeginIf, Maybe
  <2>2. CASE ~a
    BY <2>2, AlmostAlone DEF BeginIf, Maybe
  <2>3. QED
    BY <2>1, <2>2
<1> HIDE DEF q, f
<1>3. Holds(EndIf(b, q, u), f \o Maybe(b, u))
  <2>1. CASE b
    <3>1. Append(f, u) = f \o <<u>>
      BY <1>1, AppendedIs
    <3>2. Holds(AtEnd(q, u), Append(f, u))
      BY <1>2, AtEndHolds
    <3>3. QED
      BY <2>1, <3>1, <3>2 DEF EndIf, Maybe
  <2>2. CASE ~b
    BY <2>2, <1>1, <1>2, AlmostAlone DEF EndIf, Maybe
  <2>3. QED
    BY <2>1, <2>2
<1>4. QED
  BY <1>3 DEF q, f, Around

\* They are still those of one profile,
LEMMA WrapOwn ==
  ASSUME NEW m, Own(m), NEW a, NEW s, IsAside(s), NEW b, NEW u, IsAside(u)
  PROVE  Own(Around(a, s, m, b, u))
<1>1. Aside(Maybe(a, s)) /\ Aside(Maybe(b, u))
  BY MaybeIs
<1>2. Own(Maybe(a, s) \o m)
  BY <1>1, AsideBefore
<1>3. QED
  BY <1>1, <1>2, AsideAfter DEF Around

\* and what goes through them goes through the added ones first and last.
LEMMA ThroughWrap ==
  ASSUME NEW m, IsList(m), NEW a, NEW s, NEW b, NEW u, NEW x
  PROVE  Through(Around(a, s, m, b, u), x) = Then(b, u, Through(m, Then(a, s, x)))
<1>1. IsList(Maybe(a, s)) /\ IsList(Maybe(b, u)) /\ IsList(Maybe(a, s) \o m)
  BY MaybeIs, ConcatLists
<1>2. Through(Maybe(a, s) \o m, x) = Through(m, Then(a, s, x))
  BY <1>1, ThroughBoth, MaybeIs
<1>3. QED
  BY <1>1, <1>2, ThroughBoth, MaybeIs DEF Around

\* What a stage made by Converting takes and gives.
LEMMA ConvertingIs ==
  ASSUME NEW t, NEW i, NEW o, NEW x, NEW y, NEW s, s = Converting(t, i, o, x, y), NEW z
  PROVE  /\ s.type = t /\ IsFresh(s)
         /\ Flow(z, s) = IF x = "any" THEN z ELSE IF x = z THEN y ELSE "none"
<1>1. s.type = t /\ s.data = [from |-> x, to |-> y, of |-> 0] /\ s.in = i /\ s.out = o
  BY DEF Converting, StageAllocPlaceholder
<1>2. QED
  BY <1>1 DEF Flow, IsFresh

\* One stage can be all of a profile.
LEMMA OwnOne ==
  ASSUME NEW s, IsFresh(s)
  PROVE  Own(<<s>>)
BY OneList DEF Own, Fresh, OneTable

----------------------------------------------------------------------------
(* The readers: from which encoding to which the stages of a profile go.   *)

\* How the spaces are encoded.
LEMMA EncodedIs ==
  /\ Encoded("Lab", "v4") = "LabV4" /\ Encoded("Lab", "lut16") = "LabV2" /\ Encoded("Lab", "float") = "LabFloat"
  /\ Encoded("XYZ", "v4") = "XYZ" /\ Encoded("XYZ", "lut16") = "XYZ" /\ Encoded("XYZ", "float") = "XYZFloat"
  /\ Encoded("Gray", "v4") = "Gray" /\ Encoded("RGB", "v4") = "RGB" /\ Encoded("1CLR", "v4") = "1CLR"
  /\ Encoded("4CLR", "v4") = Encoded("CMYK", "v4")
  /\ \A s : s \notin PCSes => \A k : Encoded(s, k) = Encoded(s, "v4")
  /\ \A s, k : s # "any" => Encoded(s, k) # "any"
BY DEF Encoded, PCSes

\* If r was made, its stages are one profile's, and if ok they take x and give y.
Reads(r, x, y, ok) ==
  IsMade(r) => \E f : Holds(r, f) /\ Own(f) /\ (ok => Through(f, x) = y)

\* Nothing is added to a pipeline that was not made.
LEMMA WrapMade ==
  ASSUME NEW r, ~IsMade(r), NEW a, NEW s, NEW b, NEW u
  PROVE  ~IsMade(EndIf(b, BeginIf(a, r, s), u))
BY DEF IsMade, EndIf, BeginIf, AtEnd, AtBegin

\* A pipeline with something put before and after it.
LEMMA WrapReads ==
  ASSUME NEW r, NEW m, IsMade(r) => Holds(r, m), Own(m), NEW a, NEW s, IsAside(s), NEW b, NEW u, IsAside(u),
         NEW x, NEW y, NEW ok, IsMade(r) /\ ok => Then(b, u, Through(m, Then(a, s, x))) = y
  PROVE  Reads(EndIf(b, BeginIf(a, r, s), u), x, y, ok)
<1> DEFINE q == EndIf(b, BeginIf(a, r, s), u)
           f == Around(a, s, m, b, u)
<1>1. SUFFICES ASSUME IsMade(q) PROVE Holds(q, f) /\ Own(f) /\ (ok => Through(f, x) = y)
  BY DEF Reads
<1>2. IsMade(r)
  BY <1>1, WrapMade
<1>3. IsList(m)
  BY DEF Own
<1>4. Holds(q, f)
  BY <1>2, <1>3, WrapHolds
<1>5. Own(f)
  BY WrapOwn
<1>6. Through(f, x) = Then(b, u, Through(m, Then(a, s, x)))
  BY <1>3, ThroughWrap
<1>7. QED
  BY <1>2, <1>4, <1>5, <1>6

\* The kind of encoding that a tag of this type has.
KindOf(type) == IF type = "lut" THEN "v4" ELSE type
\* A stage that reads and gives the encodings of this kind.
Tabulates(t, from, to, kind) == IsFresh(t) /\ Flow(Encoded(from, kind), t) = Encoded(to, kind)

\* The stages of a new pipeline with one stage,
LEMMA OneHolds ==
  ASSUME NEW i, NEW o, NEW s
  PROVE  Holds(OneStage(i, o, s), <<s>>)
<1>1. Holds(OneStage(i, o, s), Append(<<>>, s))
  BY AllocHolds, AtEndHolds DEF OneStage
<1>2. Append(<<>>, s) = <<s>>
  OBVIOUS
<1>3. QED
  BY <1>1, <1>2

\* and with two.
LEMMA TwoHold ==
  ASSUME NEW i, NEW o, NEW s, NEW t
  PROVE  Holds(TwoStages(i, o, s, t), <<s>> \o <<t>>)
<1>1. Holds(TwoStages(i, o, s, t), Append(<<s>>, t))
  BY OneHolds, AtEndHolds DEF TwoStages
<1>2. Append(<<s>>, t) = <<s>> \o <<t>>
  BY OneList, AppendedIs
<1>3. QED
  BY <1>1, <1>2

\* A table that is read is one stage, from one space to the other as its type encodes them.
LEMMA TagHolds ==
  ASSUME NEW p, NEW tag, NEW from, from # "any", NEW to, p.tags[tag].identity => from = to,
         NEW r, r = TagPipeline(p, tag, from, to), IsMade(r)
  PROVE  /\ p.tags[tag].type # "damaged"
         /\ \E t : Holds(r, <<t>>) /\ Tabulates(t, from, to, KindOf(p.tags[tag].type))
<1> DEFINE v == p.tags[tag]
           kind == KindOf(v.type)
           t == IF v.identity THEN Converting(tag, v.in, v.out, "any", "any")
                ELSE Converting(tag, v.in, v.out, Encoded(from, kind), Encoded(to, kind))
<1>1. v.type # "damaged"
  BY Results DEF TagPipeline
<1>2. r = OneStage(v.in, v.out, t)
  BY <1>1 DEF TagPipeline, KindOf
<1>3. Holds(r, <<t>>)
  <2> HIDE DEF t, v
  <2>1. QED
    BY <1>2, OneHolds
<1>4. Tabulates(t, from, to, kind)
  <2>1. Encoded(from, kind) # "any"
    BY EncodedIs
  <2>2. CASE v.identity
    <3>1. t = Converting(tag, v.in, v.out, "any", "any") /\ from = to
      BY <2>2
    <3> HIDE DEF t, v, kind
    <3>2. IsFresh(t) /\ Flow(Encoded(from, kind), t) = Encoded(from, kind)
      BY <3>1, ConvertingIs
    <3>3. QED
      BY <3>1, <3>2 DEF Tabulates
  <2>3. CASE ~v.identity
    <3>1. t = Converting(tag, v.in, v.out, Encoded(from, kind), Encoded(to, kind))
      BY <2>3
    <3> HIDE DEF t, v, kind
    <3>2. IsFresh(t) /\ Flow(Encoded(from, kind), t) = Encoded(to, kind)
      BY <2>1, <3>1, ConvertingIs
    <3>3. QED
      BY <3>2 DEF Tabulates
  <2>4. QED
    BY <2>2, <2>3
<1>5. QED
  BY <1>1, <1>3, <1>4

\* The stages that convert encodings are none of the profile's tables.
LEMMA ConversionsAside ==
  /\ IsAside(LabV2ToV4) /\ IsAside(LabV4ToV2) /\ IsAside(Lab2XYZ) /\ IsAside(XYZ2Lab)
  /\ \A s : IsAside(NormalizeToFloat(s)) /\ IsAside(NormalizeFromFloat(s))
  /\ IsAside(Matrix(3, 3, "XYZ", "XYZ"))
<1>1. Tables = {"AToB0", "AToB1", "AToB2", "BToA0", "BToA1", "BToA2",
                "DToB0", "DToB1", "DToB2", "DToB3", "BToD0", "BToD1", "BToD2", "BToD3"}
  <2>1. ASSUME NEW t \in {Device2PCS16, PCS2Device16, Device2PCSFloat, PCS2DeviceFloat}
        PROVE  DOMAIN t = 1 .. 4
    BY DEF Device2PCS16, PCS2Device16, Device2PCSFloat, PCS2DeviceFloat
  <2>2. Tables = UNION {{t[k] : k \in 1 .. 4} : t \in {Device2PCS16, PCS2Device16, Device2PCSFloat, PCS2DeviceFloat}}
    BY <2>1 DEF Tables
  <2>3. 1 .. 4 = {1, 2, 3, 4}
    OBVIOUS
  <2>4. QED
    BY <2>2, <2>3 DEF Device2PCS16, PCS2Device16, Device2PCSFloat, PCS2DeviceFloat
<1>2. \A t, i, o, x, y : /\ Converting(t, i, o, x, y).type = t /\ IsFresh(Converting(t, i, o, x, y))
  BY ConvertingIs
<1>3. {"LabV2ToV4", "LabV4ToV2", "Lab2XYZ", "XYZ2Lab", "Normalize", "Matrix", "CurveSet", "NamedColor"} \cap Tables = {}
  BY <1>1
<1>4. QED
  BY <1>2, <1>3 DEF IsAside, IsTable, LabV2ToV4, LabV4ToV2, Lab2XYZ, XYZ2Lab, NormalizeToFloat,
                    NormalizeFromFloat, Matrix

\* What the stages that convert encodings do.
LEMMA ConversionsFlow ==
  /\ Flow("LabV2", LabV2ToV4) = "LabV4" /\ Flow("LabV4", LabV4ToV2) = "LabV2"
  /\ Flow("LabV4", Lab2XYZ) = "XYZ" /\ Flow("XYZ", XYZ2Lab) = "LabV4"
  /\ Flow("XYZ", Matrix(3, 3, "XYZ", "XYZ")) = "XYZ"
  /\ \A s \in PCSes : /\ Flow(Encoded(s, "v4"), NormalizeToFloat(s)) = Encoded(s, "float")
                      /\ Flow(Encoded(s, "float"), NormalizeFromFloat(s)) = Encoded(s, "v4")
<1>1. \A t, i, o, x, y, z :
        Flow(z, Converting(t, i, o, x, y)) = IF x = "any" THEN z ELSE IF x = z THEN y ELSE "none"
  BY ConvertingIs
<1>2. \A s \in PCSes : \A k : Encoded(s, k) # "any"
  BY EncodedIs DEF PCSes
<1>3. QED
  BY <1>1, <1>2 DEF LabV2ToV4, LabV4ToV2, Lab2XYZ, XYZ2Lab, NormalizeToFloat, NormalizeFromFloat, Matrix

\* A table of the profile, from one of its two spaces to the other.
Between(p, from, to) == {from, to} = {p.space, p.pcs}

\* A table with stages beside it, if that converts for any table.
LEMMA TableReads ==
  ASSUME NEW p, WellMade(p), NEW tag \in DOMAIN p.tags, NEW from, NEW to, Between(p, from, to),
         NEW a, NEW s, IsAside(s), NEW b, NEW u, IsAside(u), NEW x, NEW y, NEW ok,
         \A t : p.tags[tag].type # "damaged" /\ ok /\ Tabulates(t, from, to, KindOf(p.tags[tag].type))
                  => Then(b, u, Flow(Then(a, s, x), t)) = y
  PROVE  Reads(EndIf(b, BeginIf(a, TagPipeline(p, tag, from, to), s), u), x, y, ok)
<1> DEFINE r == TagPipeline(p, tag, from, to)
<1>1. CASE ~IsMade(r)
  BY <1>1, WrapMade DEF Reads
<1>2. CASE IsMade(r)
  <2>1. from # "any" /\ (p.tags[tag].identity => from = to)
    BY DEF WellMade, Between
  <2>2. PICK t : Holds(r, <<t>>) /\ Tabulates(t, from, to, KindOf(p.tags[tag].type))
    BY <1>2, <2>1, TagHolds
  <2>3. p.tags[tag].type # "damaged"
    BY <1>2, <2>1, TagHolds
  <2> HIDE DEF r
  <2>4. Own(<<t>>) /\ \A z : Through(<<t>>, z) = Flow(z, t)
    BY <2>2, OwnOne, ThroughOne DEF Tabulates
  <2>5. ok => Then(b, u, Through(<<t>>, Then(a, s, x))) = y
    BY <2>2, <2>3, <2>4
  <2>6. Reads(EndIf(b, BeginIf(a, r, s), u), x, y, ok)
    BY <2>2, <2>4, <2>5, WrapReads
  <2>7. QED
    BY <2>6 DEF r
<1>3. QED
  BY <1>1, <1>2

\* A float table, normalised on both sides (ReadFloatInputTag, ReadFloatOutputTag).
LEMMA FloatReads ==
  ASSUME NEW p, WellMade(p), NEW tag \in DOMAIN p.tags, tag \in FloatTags,
         NEW from, NEW to, Between(p, from, to), NEW ok
  PROVE  Reads(ReadFloatTag(p, tag, from, to), Encoded(from, "v4"), Encoded(to, "v4"), ok)
<1> DEFINE type == p.tags[tag].type
           s == NormalizeToFloat(from)
           u == NormalizeFromFloat(to)
<1>1. ASSUME NEW t, type # "damaged", Tabulates(t, from, to, KindOf(type))
      PROVE  Then(to \in PCSes, u, Flow(Then(from \in PCSes, s, Encoded(from, "v4")), t)) = Encoded(to, "v4")
  <2>1. KindOf(type) = "float"
    BY <1>1 DEF WellMade, TypesOf, KindOf
  <2>2. Then(from \in PCSes, s, Encoded(from, "v4")) = Encoded(from, "float")
    BY ConversionsFlow, EncodedIs DEF Then
  <2>3. Then(to \in PCSes, u, Encoded(to, "float")) = Encoded(to, "v4")
    BY ConversionsFlow, EncodedIs DEF Then
  <2>4. Flow(Encoded(from, "float"), t) = Encoded(to, "float")
    BY <1>1, <2>1 DEF Tabulates
  <2>5. QED
    BY <2>2, <2>3, <2>4
<1>2. IsAside(s) /\ IsAside(u)
  BY ConversionsAside
<1> HIDE DEF s, u
<1>3. Reads(EndIf(to \in PCSes, BeginIf(from \in PCSes, TagPipeline(p, tag, from, to), s), u),
            Encoded(from, "v4"), Encoded(to, "v4"), ok)
  BY <1>1, <1>2, TableReads
<1>4. QED
  BY <1>3 DEF ReadFloatTag, s, u

\* A 16-bit table, with Lab in version 2 where a table of the old type has it.
LEMMA WordReads ==
  ASSUME NEW p, WellMade(p), NEW tag \in DOMAIN p.tags, tag \notin FloatTags,
         NEW from, NEW to, Between(p, from, to), NEW a, NEW b, NEW ok,
         ok /\ p.tags[tag].type # "damaged" =>
              /\ a <=> p.tags[tag].type = "lut16" /\ from = "Lab"
              /\ b <=> p.tags[tag].type = "lut16" /\ to = "Lab"
  PROVE  Reads(EndIf(b, BeginIf(a, TagPipeline(p, tag, from, to), LabV4ToV2), LabV2ToV4),
               Encoded(from, "v4"), Encoded(to, "v4"), ok)
<1> DEFINE type == p.tags[tag].type
<1>1. ASSUME NEW t, type # "damaged", ok, Tabulates(t, from, to, KindOf(type))
      PROVE  Then(b, LabV2ToV4, Flow(Then(a, LabV4ToV2, Encoded(from, "v4")), t)) = Encoded(to, "v4")
  <2>1. type \in {"lut16", "lut"}
    BY <1>1 DEF WellMade, TypesOf
  <2>2. /\ a <=> type = "lut16" /\ from = "Lab"
        /\ b <=> type = "lut16" /\ to = "Lab"
    BY <1>1
  <2> DEFINE kind == KindOf(type)
  <2>3. (type = "lut16" /\ kind = "lut16") \/ (type = "lut" /\ kind = "v4")
    <3> HIDE DEF type
    <3>1. QED
      BY <2>1 DEF KindOf
  <2>4. \A x : x # "Lab" => Encoded(x, "lut16") = Encoded(x, "v4")
    BY EncodedIs DEF PCSes
  <2>5. Flow(Encoded(from, kind), t) = Encoded(to, kind)
    BY <1>1 DEF Tabulates
  <2> HIDE DEF kind, type
  <2>6. Then(a, LabV4ToV2, Encoded(from, "v4")) = Encoded(from, kind)
    BY <2>2, <2>3, <2>4, ConversionsFlow, EncodedIs DEF Then
  <2>7. Then(b, LabV2ToV4, Encoded(to, kind)) = Encoded(to, "v4")
    BY <2>2, <2>3, <2>4, ConversionsFlow, EncodedIs DEF Then
  <2>8. QED
    BY <2>5, <2>6, <2>7
<1>2. IsAside(LabV4ToV2) /\ IsAside(LabV2ToV4)
  BY ConversionsAside
<1>3. QED
  BY <1>1, <1>2, TableReads

\* Two stages in a row, with something before or after them.
LEMMA TwoRead ==
  ASSUME NEW i, NEW o, NEW s, NEW t, IsFresh(s), IsAside(t),
         NEW a, NEW v, IsAside(v), NEW b, NEW u, IsAside(u), NEW x, NEW y, NEW ok,
         ok => Then(b, u, Flow(Flow(Then(a, v, x), s), t)) = y
  PROVE  Reads(EndIf(b, BeginIf(a, TwoStages(i, o, s, t), v), u), x, y, ok)
<1> DEFINE m == <<s>> \o <<t>>
           r == TwoStages(i, o, s, t)
<1>1. Own(m)
  <2>1. Own(<<s>>) /\ Aside(<<t>>)
    BY OwnOne, OneList DEF Aside, Fresh, IsAside
  <2>2. QED
    BY <2>1, AsideAfter
<1>2. \A z : Through(m, z) = Flow(Flow(z, s), t)
  BY ThroughBoth, ThroughOne, OneList
<1>3. Holds(r, m)
  BY TwoHold
<1> HIDE DEF m, r
<1>4. Reads(EndIf(b, BeginIf(a, r, v), u), x, y, ok)
  BY <1>1, <1>2, <1>3, WrapReads
<1>5. QED
  BY <1>4 DEF r

\* A stage that is not put there changes nothing.
LEMMA BareIs ==
  ASSUME NEW a, ~a, NEW r, NEW s
  PROVE  /\ BeginIf(a, r, s) = r /\ EndIf(a, r, s) = r
         /\ \A x : Then(a, s, x) = x
BY DEF BeginIf, EndIf, Then

\* The same with a stage after them only,
LEMMA EndRead ==
  ASSUME NEW i, NEW o, NEW s, NEW t, IsFresh(s), IsAside(t), NEW b, NEW u, IsAside(u),
         NEW x, NEW y, NEW ok, ok => Then(b, u, Flow(Flow(x, s), t)) = y
  PROVE  Reads(EndIf(b, TwoStages(i, o, s, t), u), x, y, ok)
<1>1. ASSUME NEW a, ~a
      PROVE  Reads(EndIf(b, TwoStages(i, o, s, t), u), x, y, ok)
  <2>1. Then(a, u, x) = x
    BY <1>1, BareIs
  <2>2. ok => Then(b, u, Flow(Flow(Then(a, u, x), s), t)) = y
    BY <2>1
  <2>3. Reads(EndIf(b, BeginIf(a, TwoStages(i, o, s, t), u), u), x, y, ok)
    BY <2>2, TwoRead
  <2>4. BeginIf(a, TwoStages(i, o, s, t), u) = TwoStages(i, o, s, t)
    BY <1>1, BareIs
  <2>5. QED
    BY <2>3, <2>4
<1>2. \E a : ~a
  BY Zenon
<1>3. QED
  BY <1>1, <1>2

\* with one before them only,
LEMMA BeginRead ==
  ASSUME NEW i, NEW o, NEW s, NEW t, IsFresh(s), IsAside(t), NEW a, NEW v, IsAside(v),
         NEW x, NEW y, NEW ok, ok => Flow(Flow(Then(a, v, x), s), t) = y
  PROVE  Reads(BeginIf(a, TwoStages(i, o, s, t), v), x, y, ok)
<1>1. ASSUME NEW b, ~b
      PROVE  Reads(BeginIf(a, TwoStages(i, o, s, t), v), x, y, ok)
  <2>1. \A z : Then(b, v, z) = z
    BY <1>1, BareIs
  <2>2. ok => Then(b, v, Flow(Flow(Then(a, v, x), s), t)) = y
    BY <2>1
  <2>3. Reads(EndIf(b, BeginIf(a, TwoStages(i, o, s, t), v), v), x, y, ok)
    BY <2>2, TwoRead
  <2>4. EndIf(b, BeginIf(a, TwoStages(i, o, s, t), v), v) = BeginIf(a, TwoStages(i, o, s, t), v)
    BY <1>1, BareIs
  <2>5. QED
    BY <2>3, <2>4
<1>2. \E b : ~b
  BY Zenon
<1>3. QED
  BY <1>1, <1>2

\* and with none.
LEMMA BareRead ==
  ASSUME NEW i, NEW o, NEW s, NEW t, IsFresh(s), IsAside(t),
         NEW x, NEW y, NEW ok, ok => Flow(Flow(x, s), t) = y
  PROVE  Reads(TwoStages(i, o, s, t), x, y, ok)
<1>1. ASSUME NEW a, ~a
      PROVE  Reads(TwoStages(i, o, s, t), x, y, ok)
  <2>1. Then(a, t, x) = x /\ BeginIf(a, TwoStages(i, o, s, t), t) = TwoStages(i, o, s, t)
    BY <1>1, BareIs
  <2>2. Reads(BeginIf(a, TwoStages(i, o, s, t), t), x, y, ok)
    BY <2>1, BeginRead
  <2>3. QED
    BY <2>1, <2>2
<1>2. \E a : ~a
  BY Zenon
<1>3. QED
  BY <1>1, <1>2

\* The tags of the four intents are 16-bit tags or float tags, as their tables say.
LEMMA TagsOfIntents ==
  ASSUME NEW p, NEW intent \in ICCIntents
  PROVE  /\ Tag16(p, Device2PCS16, intent) \notin FloatTags /\ Tag16(p, PCS2Device16, intent) \notin FloatTags
         /\ Device2PCSFloat[intent + 1] \in FloatTags /\ PCS2DeviceFloat[intent + 1] \in FloatTags
         /\ Device2PCSFloat[1] \in FloatTags /\ Device2PCSFloat[1] = "DToB0"
<1>1. intent + 1 \in {1, 2, 3, 4}
  BY DEF ICCIntents
<1>2. \A k \in {1, 2, 3, 4} :
        /\ Device2PCS16[k] \notin FloatTags /\ PCS2Device16[k] \notin FloatTags
        /\ Device2PCSFloat[k] \in FloatTags /\ PCS2DeviceFloat[k] \in FloatTags
  BY DEF Device2PCS16, PCS2Device16, Device2PCSFloat, PCS2DeviceFloat, FloatTags
<1>3. Device2PCSFloat[1] = "DToB0"
  BY DEF Device2PCSFloat
<1>4. QED
  BY <1>1, <1>2, <1>3 DEF Tag16

\* What curves and matrices do, which are no tables.
LEMMA StagesFlow ==
  /\ \A n, x, y, z : /\ IsFresh(Curves(n, x, y)) /\ IsAside(Curves(n, x, y))
                     /\ Flow(z, Curves(n, x, y)) = IF x = "any" THEN z ELSE IF x = z THEN y ELSE "none"
  /\ \A m, n, x, y, z : /\ IsFresh(Matrix(m, n, x, y)) /\ IsAside(Matrix(m, n, x, y))
                        /\ Flow(z, Matrix(m, n, x, y)) = IF x = "any" THEN z ELSE IF x = z THEN y ELSE "none"
<1>1. \A t, i, o, x, y, z :
        /\ Converting(t, i, o, x, y).type = t /\ IsFresh(Converting(t, i, o, x, y))
        /\ Flow(z, Converting(t, i, o, x, y)) = IF x = "any" THEN z ELSE IF x = z THEN y ELSE "none"
  BY ConvertingIs
<1>2. "CurveSet" \notin Tables /\ "Matrix" \notin Tables
  <2>1. \A k \in 1 .. 4 : /\ Device2PCS16[k] \notin {"CurveSet", "Matrix"} /\ PCS2Device16[k] \notin {"CurveSet", "Matrix"}
                          /\ Device2PCSFloat[k] \notin {"CurveSet", "Matrix"} /\ PCS2DeviceFloat[k] \notin {"CurveSet", "Matrix"}
    <3>1. 1 .. 4 = {1, 2, 3, 4}
      OBVIOUS
    <3>2. QED
      BY <3>1 DEF Device2PCS16, PCS2Device16, Device2PCSFloat, PCS2DeviceFloat
  <2>2. \A t \in {Device2PCS16, PCS2Device16, Device2PCSFloat, PCS2DeviceFloat} : DOMAIN t = 1 .. 4
    BY DEF Device2PCS16, PCS2Device16, Device2PCSFloat, PCS2DeviceFloat
  <2>3. QED
    BY <2>1, <2>2 DEF Tables
<1>3. QED
  BY <1>1, <1>2 DEF Curves, Matrix, IsAside, IsTable

\* A profile whose header says what the readers build.
Orderly(p) == ~SpaceIsOtherPCS(p) /\ ~HeaderIsWrong(p) /\ p.class # "link"

\* BuildGrayInputMatrixPipeline goes from gray to the connection space.
LEMMA GrayInputReads ==
  ASSUME NEW p, p.space = "Gray"
  PROVE  Reads(BuildGrayInputMatrixPipeline(p), Encoded(p.space, "v4"), Encoded(p.pcs, "v4"), Orderly(p))
<1>1. CASE ~p.gray
  BY <1>1, Results DEF BuildGrayInputMatrixPipeline, Reads
<1>2. CASE p.gray /\ p.pcs = "Lab"
  <2> DEFINE s == Matrix(1, 3, "Gray", "Gray")
             t == Curves(3, "Gray", "LabV4")
  <2>1. IsFresh(s) /\ IsAside(t) /\ Flow(Flow("Gray", s), t) = "LabV4"
    BY StagesFlow
  <2> HIDE DEF s, t
  <2>2. Reads(TwoStages(1, 3, s, t), "Gray", "LabV4", Orderly(p))
    BY <2>1, BareRead
  <2>3. BuildGrayInputMatrixPipeline(p) = TwoStages(1, 3, s, t)
    BY <1>2 DEF BuildGrayInputMatrixPipeline, s, t
  <2>4. QED
    BY <1>2, <2>2, <2>3, EncodedIs
<1>3. CASE p.gray /\ p.pcs # "Lab"
  <2> DEFINE s == Curves(1, "Gray", "Gray")
             t == Matrix(1, 3, "Gray", "XYZ")
  <2>1. IsFresh(s) /\ IsAside(t) /\ Flow(Flow("Gray", s), t) = "XYZ"
    BY StagesFlow
  <2> HIDE DEF s, t
  <2>2. Reads(TwoStages(1, 3, s, t), "Gray", "XYZ", Orderly(p))
    BY <2>1, BareRead
  <2>3. BuildGrayInputMatrixPipeline(p) = TwoStages(1, 3, s, t)
    BY <1>3 DEF BuildGrayInputMatrixPipeline, s, t
  <2>4. Orderly(p) => p.pcs = "XYZ"
    BY <1>3 DEF Orderly, HeaderIsWrong, PCSes
  <2>5. QED
    BY <2>2, <2>3, <2>4, EncodedIs DEF Reads
<1>4. QED
  BY <1>1, <1>2, <1>3

\* BuildGrayOutputPipeline goes from the connection space to gray.
LEMMA GrayOutputReads ==
  ASSUME NEW p, WellMade(p), p.space = "Gray"
  PROVE  Reads(BuildGrayOutputPipeline(p), Encoded(p.pcs, "v4"), Encoded(p.space, "v4"), Orderly(p))
<1>1. CASE ~p.gray
  BY <1>1, Results DEF BuildGrayOutputPipeline, Reads
<1>2. CASE p.gray
  <2> DEFINE x == Encoded(p.pcs, "v4")
             s == Matrix(3, 1, x, "Gray")
             t == Curves(1, "Gray", "Gray")
  <2>1. x # "any"
    BY EncodedIs DEF WellMade
  <2> HIDE DEF x
  <2>2. IsFresh(s) /\ IsAside(t) /\ Flow(Flow(x, s), t) = "Gray"
    BY <2>1, StagesFlow
  <2>3. BuildGrayOutputPipeline(p) = TwoStages(3, 1, s, t)
    BY <1>2 DEF BuildGrayOutputPipeline, x
  <2> HIDE DEF s, t
  <2>4. Reads(TwoStages(3, 1, s, t), x, "Gray", Orderly(p))
    BY <2>2, BareRead
  <2>5. QED
    BY <2>3, <2>4, EncodedIs DEF x
<1>3. QED
  BY <1>1, <1>2

\* BuildRGBInputMatrixShaper goes from RGB to the connection space.
LEMMA ShaperInputReads ==
  ASSUME NEW p
  PROVE  Reads(BuildRGBInputMatrixShaper(p), Encoded(p.space, "v4"), Encoded(p.pcs, "v4"), Orderly(p))
<1>1. CASE p.shaper = "none"
  BY <1>1, Results DEF BuildRGBInputMatrixShaper, Reads
<1>2. CASE p.shaper # "none"
  <2> DEFINE s == Curves(3, "RGB", "RGB")
             t == Matrix(3, 3, "RGB", "XYZ")
             b == p.pcs = "Lab"
  <2>1. IsFresh(s) /\ IsAside(t) /\ Flow(Flow("RGB", s), t) = "XYZ"
    BY StagesFlow
  <2>2. BuildRGBInputMatrixShaper(p) = EndIf(b, TwoStages(3, 3, s, t), XYZ2Lab)
    BY <1>2 DEF BuildRGBInputMatrixShaper
  <2>3. Orderly(p) => p.space = "RGB" /\ p.pcs \in PCSes
    BY <1>2 DEF Orderly, HeaderIsWrong
  <2> HIDE DEF s, t
  <2>4. Orderly(p) => Then(b, XYZ2Lab, "XYZ") = Encoded(p.pcs, "v4")
    BY <2>3, ConversionsFlow, EncodedIs DEF PCSes, Then
  <2>5. Orderly(p) => Then(b, XYZ2Lab, Flow(Flow(Encoded(p.space, "v4"), s), t)) = Encoded(p.pcs, "v4")
    BY <2>1, <2>3, <2>4, EncodedIs
  <2> HIDE DEF b
  <2>6. Reads(EndIf(b, TwoStages(3, 3, s, t), XYZ2Lab), Encoded(p.space, "v4"), Encoded(p.pcs, "v4"), Orderly(p))
    BY <2>1, <2>5, ConversionsAside, EndRead
  <2>7. QED
    BY <2>2, <2>6
<1>3. QED
  BY <1>1, <1>2

\* BuildRGBOutputMatrixShaper goes from the connection space to RGB.
LEMMA ShaperOutputReads ==
  ASSUME NEW p
  PROVE  Reads(BuildRGBOutputMatrixShaper(p), Encoded(p.pcs, "v4"), Encoded(p.space, "v4"), Orderly(p))
<1>1. CASE p.shaper # "matrix"
  BY <1>1, Results DEF BuildRGBOutputMatrixShaper, Reads
<1>2. CASE p.shaper = "matrix"
  <2> DEFINE s == Matrix(3, 3, "XYZ", "RGB")
             t == Curves(3, "RGB", "RGB")
             a == p.pcs = "Lab"
  <2>1. IsFresh(s) /\ IsAside(t) /\ Flow(Flow("XYZ", s), t) = "RGB"
    BY StagesFlow
  <2>2. BuildRGBOutputMatrixShaper(p) = BeginIf(a, TwoStages(3, 3, s, t), Lab2XYZ)
    BY <1>2 DEF BuildRGBOutputMatrixShaper
  <2>3. Orderly(p) => p.space = "RGB" /\ p.pcs \in PCSes
    BY <1>2 DEF Orderly, HeaderIsWrong
  <2> HIDE DEF s, t
  <2>4. Orderly(p) => Then(a, Lab2XYZ, Encoded(p.pcs, "v4")) = "XYZ"
    BY <2>3, ConversionsFlow, EncodedIs DEF PCSes, Then
  <2>5. Orderly(p) => Flow(Flow(Then(a, Lab2XYZ, Encoded(p.pcs, "v4")), s), t) = Encoded(p.space, "v4")
    BY <2>1, <2>3, <2>4, EncodedIs
  <2> HIDE DEF a
  <2>6. Reads(BeginIf(a, TwoStages(3, 3, s, t), Lab2XYZ), Encoded(p.pcs, "v4"), Encoded(p.space, "v4"), Orderly(p))
    BY <2>1, <2>5, ConversionsAside, BeginRead
  <2>7. QED
    BY <2>2, <2>6
<1>3. QED
  BY <1>1, <1>2

\* The stage of the named colours takes their index.
LEMMA NamedIs ==
  ASSUME NEW p, NEW usePCS
  PROVE  /\ IsFresh(NamedColor(usePCS, p))
         /\ Flow("1CLR", NamedColor(usePCS, p)) = IF usePCS THEN "LabV2" ELSE Encoded(p.space, "lut16")
<1>1. \A t, i, o, x, y, z :
        /\ IsFresh(Converting(t, i, o, x, y))
        /\ Flow(z, Converting(t, i, o, x, y)) = IF x = "any" THEN z ELSE IF x = z THEN y ELSE "none"
  BY ConvertingIs
<1>2. QED
  BY <1>1 DEF NamedColor

\* _cmsReadInputLUT goes from the device to the connection space.
LEMMA InputReads ==
  ASSUME NEW p, WellMade(p), p.class # "named", NEW intent
  PROVE  Reads(ReadInputLUT(p, intent), Encoded(p.space, "v4"), Encoded(p.pcs, "v4"), Orderly(p))
<1> DEFINE tag == Tag16(p, Device2PCS16, intent)
           float == Device2PCSFloat[intent + 1]
           ok == Orderly(p)
<1>1. Between(p, p.space, p.pcs)
  BY DEF Between
<1>2. CASE intent \in ICCIntents /\ IsTag(p, float)
  <2>1. ReadInputLUT(p, intent) = ReadFloatTag(p, float, p.space, p.pcs)
    BY <1>2 DEF ReadInputLUT
  <2>2. float \in FloatTags /\ float \in DOMAIN p.tags
    BY <1>2, TagsOfIntents DEF IsTag
  <2> HIDE DEF float, ok
  <2>3. Reads(ReadFloatTag(p, float, p.space, p.pcs), Encoded(p.space, "v4"), Encoded(p.pcs, "v4"), ok)
    BY <1>1, <2>2, FloatReads
  <2>4. QED
    BY <2>1, <2>3 DEF ok
<1>3. CASE intent \in ICCIntents /\ ~IsTag(p, float) /\ IsTag(p, tag)
  <2> DEFINE a == IsV2Lab(p, tag) /\ p.space = "Lab"
             b == IsV2Lab(p, tag)
  <2>1. ReadInputLUT(p, intent) = EndIf(b, BeginIf(a, TagPipeline(p, tag, p.space, p.pcs), LabV4ToV2), LabV2ToV4)
    BY <1>3 DEF ReadInputLUT
  <2>2. tag \notin FloatTags /\ tag \in DOMAIN p.tags
    BY <1>3, TagsOfIntents DEF IsTag
  <2>3. ok => (p.space = "Lab" => p.pcs = "Lab")
    BY DEF Orderly, SpaceIsOtherPCS, PCSes
  <2>4. ok => (a <=> p.tags[tag].type = "lut16" /\ p.space = "Lab") /\ (b <=> p.tags[tag].type = "lut16" /\ p.pcs = "Lab")
    BY <2>3 DEF IsV2Lab
  <2> HIDE DEF a, b, tag, ok
  <2>5. Reads(EndIf(b, BeginIf(a, TagPipeline(p, tag, p.space, p.pcs), LabV4ToV2), LabV2ToV4),
              Encoded(p.space, "v4"), Encoded(p.pcs, "v4"), ok)
    BY <1>1, <2>2, <2>4, WordReads
  <2>6. QED
    BY <2>1, <2>5 DEF ok
<1>4. CASE ~(intent \in ICCIntents /\ IsTag(p, float)) /\ ~(intent \in ICCIntents /\ ~IsTag(p, float) /\ IsTag(p, tag))
  <2>1. ReadInputLUT(p, intent) = IF p.space = "Gray" THEN BuildGrayInputMatrixPipeline(p)
                                  ELSE BuildRGBInputMatrixShaper(p)
    BY <1>4 DEF ReadInputLUT
  <2>2. QED
    BY <2>1, GrayInputReads, ShaperInputReads
<1>5. QED
  BY <1>2, <1>3, <1>4

\* For named colours it goes from their index to Lab.
LEMMA NamedInputReads ==
  ASSUME NEW p, p.class = "named", NEW intent, NEW ok
  PROVE  Reads(ReadInputLUT(p, intent), "1CLR", "LabV4", ok)
<1> DEFINE s == NamedColor(TRUE, p)
<1>1. ReadInputLUT(p, intent) = TwoStages(0, 0, s, LabV2ToV4)
  BY DEF ReadInputLUT
<1>2. IsFresh(s) /\ Flow("1CLR", s) = "LabV2"
  BY NamedIs
<1> HIDE DEF s
<1>3. Reads(TwoStages(0, 0, s, LabV2ToV4), "1CLR", "LabV4", ok)
  BY <1>2, ConversionsAside, ConversionsFlow, BareRead
<1>4. QED
  BY <1>1, <1>3

\* _cmsReadOutputLUT goes from the connection space to the device.
LEMMA OutputReads ==
  ASSUME NEW p, WellMade(p), NEW intent
  PROVE  Reads(ReadOutputLUT(p, intent), Encoded(p.pcs, "v4"), Encoded(p.space, "v4"), Orderly(p))
<1> DEFINE tag == Tag16(p, PCS2Device16, intent)
           float == PCS2DeviceFloat[intent + 1]
           ok == Orderly(p)
<1>1. Between(p, p.pcs, p.space)
  BY DEF Between
<1>2. CASE intent \in ICCIntents /\ IsTag(p, float)
  <2>1. ReadOutputLUT(p, intent) = ReadFloatTag(p, float, p.pcs, p.space)
    BY <1>2 DEF ReadOutputLUT
  <2>2. float \in FloatTags /\ float \in DOMAIN p.tags
    BY <1>2, TagsOfIntents DEF IsTag
  <2> HIDE DEF float, ok
  <2>3. Reads(ReadFloatTag(p, float, p.pcs, p.space), Encoded(p.pcs, "v4"), Encoded(p.space, "v4"), ok)
    BY <1>1, <2>2, FloatReads
  <2>4. QED
    BY <2>1, <2>3 DEF ok
<1>3. CASE intent \in ICCIntents /\ ~IsTag(p, float) /\ IsTag(p, tag)
  <2> DEFINE a == IsV2Lab(p, tag)
             b == IsV2Lab(p, tag) /\ p.space = "Lab"
  <2>1. ReadOutputLUT(p, intent) = EndIf(b, BeginIf(a, TagPipeline(p, tag, p.pcs, p.space), LabV4ToV2), LabV2ToV4)
    BY <1>3 DEF ReadOutputLUT
  <2>2. tag \notin FloatTags /\ tag \in DOMAIN p.tags
    BY <1>3, TagsOfIntents DEF IsTag
  <2>3. ok => (p.space = "Lab" => p.pcs = "Lab")
    BY DEF Orderly, SpaceIsOtherPCS, PCSes
  <2>4. ok => (a <=> p.tags[tag].type = "lut16" /\ p.pcs = "Lab") /\ (b <=> p.tags[tag].type = "lut16" /\ p.space = "Lab")
    BY <2>3 DEF IsV2Lab
  <2> HIDE DEF a, b, tag, ok
  <2>5. Reads(EndIf(b, BeginIf(a, TagPipeline(p, tag, p.pcs, p.space), LabV4ToV2), LabV2ToV4),
              Encoded(p.pcs, "v4"), Encoded(p.space, "v4"), ok)
    BY <1>1, <2>2, <2>4, WordReads
  <2>6. QED
    BY <2>1, <2>5 DEF ok
<1>4. CASE ~(intent \in ICCIntents /\ IsTag(p, float)) /\ ~(intent \in ICCIntents /\ ~IsTag(p, float) /\ IsTag(p, tag))
  <2>1. ReadOutputLUT(p, intent) = IF p.space = "Gray" THEN BuildGrayOutputPipeline(p)
                                   ELSE BuildRGBOutputMatrixShaper(p)
    BY <1>4 DEF ReadOutputLUT
  <2>2. QED
    BY <2>1, GrayOutputReads, ShaperOutputReads
<1>5. QED
  BY <1>2, <1>3, <1>4

\* _cmsReadDevicelinkLUT goes from the index of named colours to the device,
LEMMA NamedLinkReads ==
  ASSUME NEW p, p.class = "named", NEW intent, NEW ok
  PROVE  Reads(ReadDevicelinkLUT(p, intent), "1CLR", Encoded(p.space, "v4"), ok)
<1>1. CASE intent \notin ICCIntents
  <2>1. ReadDevicelinkLUT(p, intent) = NilLut
    BY <1>1 DEF ReadDevicelinkLUT
  <2>2. QED
    BY <2>1, Results DEF Reads
<1>2. CASE intent \in ICCIntents
  <2> DEFINE s == NamedColor(FALSE, p)
             r == OneStage(0, 0, s)
             b == p.space = "Lab"
  <2>1. ReadDevicelinkLUT(p, intent) = EndIf(b, r, LabV2ToV4)
    BY <1>2 DEF ReadDevicelinkLUT
  <2>2. IsFresh(s) /\ Flow("1CLR", s) = Encoded(p.space, "lut16")
    BY NamedIs
  <2>3. Then(b, LabV2ToV4, Encoded(p.space, "lut16")) = Encoded(p.space, "v4")
    <3>1. p.space # "Lab" => Encoded(p.space, "lut16") = Encoded(p.space, "v4")
      BY EncodedIs DEF PCSes
    <3>2. QED
      BY <3>1, EncodedIs, ConversionsFlow DEF Then
  <2> HIDE DEF s, b
  <2>4. Holds(r, <<s>>) /\ Own(<<s>>) /\ \A z : Through(<<s>>, z) = Flow(z, s)
    BY <2>2, OneHolds, OwnOne, ThroughOne
  <2> HIDE DEF r
  <2>5. ASSUME NEW a, ~a
        PROVE  Reads(EndIf(b, r, LabV2ToV4), "1CLR", Encoded(p.space, "v4"), ok)
    <3>1. /\ BeginIf(a, r, LabV2ToV4) = r /\ Then(a, LabV2ToV4, "1CLR") = "1CLR"
      BY <2>5, BareIs
    <3>2. Then(b, LabV2ToV4, Through(<<s>>, Then(a, LabV2ToV4, "1CLR"))) = Encoded(p.space, "v4")
      BY <3>1, <2>2, <2>3, <2>4
    <3>3. Reads(EndIf(b, BeginIf(a, r, LabV2ToV4), LabV2ToV4), "1CLR", Encoded(p.space, "v4"), ok)
      BY <3>2, <2>4, ConversionsAside, WrapReads
    <3>4. QED
      BY <3>1, <3>3
  <2>6. \E a : ~a
    BY Zenon
  <2>7. QED
    BY <2>1, <2>5, <2>6
<1>3. QED
  BY <1>1, <1>2

\* and for a link from its space to its connection space, unless its float tag is bare.
LEMMA LinkReads ==
  ASSUME NEW p, WellMade(p), p.class \in {"link", "abstract"}, NEW intent
  PROVE  Reads(ReadDevicelinkLUT(p, intent), Encoded(p.space, "v4"), Encoded(p.pcs, "v4"), ~BareFloat(p, intent))
<1> DEFINE tag == Tag16(p, Device2PCS16, intent)
           float == Device2PCSFloat[intent + 1]
           first == Device2PCSFloat[1]
           ok == ~BareFloat(p, intent)
           x == Encoded(p.space, "v4")
           y == Encoded(p.pcs, "v4")
<1>1. Between(p, p.space, p.pcs)
  BY DEF Between
<1>2. CASE intent \notin ICCIntents
  <2>1. ReadDevicelinkLUT(p, intent) = NilLut
    BY <1>2 DEF ReadDevicelinkLUT
  <2>2. QED
    BY <2>1, Results DEF Reads
<1>3. CASE intent \in ICCIntents /\ IsTag(p, float)
  <2>1. ReadDevicelinkLUT(p, intent) = ReadFloatTag(p, float, p.space, p.pcs)
    BY <1>3 DEF ReadDevicelinkLUT
  <2>2. float \in FloatTags /\ float \in DOMAIN p.tags
    BY <1>3, TagsOfIntents DEF IsTag
  <2> HIDE DEF float, ok
  <2>3. Reads(ReadFloatTag(p, float, p.space, p.pcs), Encoded(p.space, "v4"), Encoded(p.pcs, "v4"), ok)
    BY <1>1, <2>2, FloatReads
  <2>4. QED
    BY <2>1, <2>3 DEF ok
<1>4. CASE intent \in ICCIntents /\ ~IsTag(p, float) /\ IsTag(p, first)
  <2>1. ReadDevicelinkLUT(p, intent) = TagPipeline(p, first, p.space, p.pcs)
    BY <1>4 DEF ReadDevicelinkLUT
  <2>2. first \in DOMAIN p.tags /\ first = "DToB0"
    BY <1>4, TagsOfIntents DEF IsTag
  <2>3. ~ok
    BY <1>4, <2>2 DEF BareFloat, IsTag
  <2> DEFINE r == TagPipeline(p, first, p.space, p.pcs)
  <2> HIDE DEF ok, first
  <2>4. ASSUME NEW a, ~a
        PROVE  Reads(r, x, y, ok)
    <3> HIDE DEF x, y
    <3>1. Reads(EndIf(a, BeginIf(a, r, LabV2ToV4), LabV2ToV4), x, y, ok)
      BY <1>1, <2>2, <2>3, ConversionsAside, TableReads
    <3> HIDE DEF r
    <3>2. EndIf(a, BeginIf(a, r, LabV2ToV4), LabV2ToV4) = r
      BY <2>4, BareIs
    <3>3. QED
      BY <3>1, <3>2
  <2>5. \E a : ~a
    BY Zenon
  <2>6. Reads(r, x, y, ok)
    BY <2>4, <2>5
  <2>7. QED
    BY <2>1, <2>6 DEF ok
<1>5. CASE intent \in ICCIntents /\ ~IsTag(p, float) /\ ~IsTag(p, first) /\ IsTag(p, tag) /\ p.tags[tag].type # "damaged"
  <2> DEFINE a == p.tags[tag].type = "lut16" /\ p.space = "Lab"
             b == IsV2Lab(p, tag)
  <2>1. ReadDevicelinkLUT(p, intent) = EndIf(b, BeginIf(a, TagPipeline(p, tag, p.space, p.pcs), LabV4ToV2), LabV2ToV4)
    BY <1>5 DEF ReadDevicelinkLUT
  <2>2. tag \notin FloatTags /\ tag \in DOMAIN p.tags
    BY <1>5, TagsOfIntents DEF IsTag
  <2>4. (a <=> p.tags[tag].type = "lut16" /\ p.space = "Lab") /\ (b <=> p.tags[tag].type = "lut16" /\ p.pcs = "Lab")
    BY DEF IsV2Lab
  <2> HIDE DEF a, b, tag, ok
  <2>5. Reads(EndIf(b, BeginIf(a, TagPipeline(p, tag, p.space, p.pcs), LabV4ToV2), LabV2ToV4),
              Encoded(p.space, "v4"), Encoded(p.pcs, "v4"), ok)
    BY <1>1, <2>2, <2>4, WordReads
  <2>6. QED
    BY <2>1, <2>5 DEF ok
<1>6. CASE intent \in ICCIntents /\ ~IsTag(p, float) /\ ~IsTag(p, first) /\ ~(IsTag(p, tag) /\ p.tags[tag].type # "damaged")
  <2>1. ReadDevicelinkLUT(p, intent) \in {NilLut, Panics}
    BY <1>6 DEF ReadDevicelinkLUT
  <2>2. QED
    BY <2>1, Results DEF Reads
<1>7. QED
  BY <1>2, <1>3, <1>4, <1>5, <1>6

----------------------------------------------------------------------------
(* What is put between two profiles.                                       *)

\* r is q with stages added that take x to y and are of no profile.
Adds(r, q, x, y) ==
  IsMade(r) => /\ IsMade(q)
               /\ \A e : IsList(e) /\ Holds(q, e) =>
                    \E f : Aside(f) /\ Through(f, x) = y /\ Holds(r, e \o f)

\* No stages.
LEMMA AddsNone ==
  ASSUME NEW r, NEW x
  PROVE  Adds(r, r, x, x)
<1> SUFFICES ASSUME IsMade(r), NEW e, IsList(e), Holds(r, e)
             PROVE  \E f : Aside(f) /\ Through(f, x) = x /\ Holds(r, e \o f)
  BY DEF Adds
<1>1. Aside(<<>>) /\ Through(<<>>, x) = x /\ e \o <<>> = e
  BY EmptyList, ThroughNone, AlmostAlone DEF Aside, Fresh
<1>2. QED
  BY <1>1

\* Three lists in a row.
LEMMA ListsAssociate ==
  ASSUME NEW d, IsList(d), NEW e, IsList(e), NEW f, IsList(f)
  PROVE  (d \o e) \o f = d \o (e \o f)
<1>1. PICK S : d \in Seq(S)
  BY DEF IsList
<1>2. PICK T : e \in Seq(T)
  BY DEF IsList
<1>3. PICK U : f \in Seq(U)
  BY DEF IsList
<1> DEFINE V == S \cup (T \cup U)
<1>4. d \in Seq(V) /\ e \in Seq(V) /\ f \in Seq(V)
  <2>1. S \subseteq V /\ T \subseteq V /\ U \subseteq V
    OBVIOUS
  <2> HIDE DEF V
  <2>2. QED
    BY <1>1, <1>2, <1>3, <2>1, WiderSeq
<1> HIDE DEF V
<1>5. QED
  BY <1>4, ConcatAssociative

\* One stage more, if it is there.
LEMMA AddsOne ==
  ASSUME NEW r, NEW q, NEW x, NEW y, Adds(r, q, x, y), NEW s, IsAside(s), NEW c
  PROVE  Adds(EndIf(c, r, s), q, x, Then(c, s, y))
<1>1. CASE ~c
  BY <1>1, BareIs
<1>2. CASE c
  <2>1. EndIf(c, r, s) = AtEnd(r, s) /\ Then(c, s, y) = Flow(y, s)
    BY <1>2 DEF EndIf, Then
  <2> DEFINE t == AtEnd(r, s)
  <2>2. ASSUME IsMade(t) PROVE IsMade(r) /\ IsMade(q)
    BY <2>2 DEF IsMade, AtEnd, Adds
  <2>3. ASSUME IsMade(t), NEW e, IsList(e), Holds(q, e)
        PROVE  \E f : Aside(f) /\ Through(f, x) = Flow(y, s) /\ Holds(t, e \o f)
    <3>1. PICK f : Aside(f) /\ Through(f, x) = y /\ Holds(r, e \o f)
      BY <2>2, <2>3 DEF Adds
    <3>2. IsList(e \o f) /\ IsList(f) /\ IsList(<<s>>) /\ IsList(f \o <<s>>)
      BY <2>3, <3>1, OneList, ConcatLists DEF Aside
    <3>3. Aside(f \o <<s>>)
      <4>1. Aside(<<s>>)
        BY OneList DEF Aside, Fresh, IsAside
      <4>2. QED
        BY <3>1, <4>1, AsideBoth
    <3>4. Through(f \o <<s>>, x) = Flow(y, s)
      BY <3>1, <3>2, ThroughBoth, ThroughOne
    <3>5. Holds(t, Append(e \o f, s))
      BY <3>1, AtEndHolds
    <3>6. Append(e \o f, s) = e \o (f \o <<s>>)
      <4>1. Append(e \o f, s) = (e \o f) \o <<s>>
        BY <3>2, AppendedIs
      <4>2. (e \o f) \o <<s>> = e \o (f \o <<s>>)
        BY <2>3, <3>2, ListsAssociate
      <4>3. QED
        BY <4>1, <4>2
    <3> HIDE DEF t
    <3>7. Holds(t, e \o (f \o <<s>>))
      BY <3>5, <3>6
    <3>8. QED
      BY <3>3, <3>4, <3>7
  <2> HIDE DEF t
  <2>4. Adds(t, q, x, Flow(y, s))
    BY <2>2, <2>3 DEF Adds
  <2>5. QED
    BY <2>1, <2>4 DEF t
<1>3. QED
  BY <1>1, <1>2

\* The layer of ComputeConversion, if it is not empty.
LEMMA AddsLayer ==
  ASSUME NEW r, NEW q, NEW x, Adds(r, q, x, "XYZ"), NEW moves
  PROVE  Adds(Layer(r, moves), q, x, "XYZ")
<1> DEFINE s == Matrix(3, 3, "XYZ", "XYZ")
<1>1. IsAside(s) /\ Then(moves, s, "XYZ") = "XYZ"
  BY ConversionsAside, ConversionsFlow DEF Then
<1> HIDE DEF s
<1>2. Adds(EndIf(moves, r, s), q, x, Then(moves, s, "XYZ"))
  BY <1>1, AddsOne
<1>3. QED
  BY <1>1, <1>2 DEF Layer, s

\* One stage more.
LEMMA AddsStage ==
  ASSUME NEW r, NEW q, NEW x, NEW y, Adds(r, q, x, y), NEW s, IsAside(s)
  PROVE  Adds(AtEnd(r, s), q, x, Flow(y, s))
<1>1. ASSUME NEW c, c
      PROVE  Adds(AtEnd(r, s), q, x, Flow(y, s))
  <2>1. Adds(EndIf(c, r, s), q, x, Then(c, s, y))
    BY AddsOne
  <2>2. QED
    BY <1>1, <2>1 DEF EndIf, Then
<1>2. \E c : c
  BY Zenon
<1>3. QED
  BY <1>1, <1>2

\* AddConversion takes one connection space to the other.
LEMMA AddConversionAdds ==
  ASSUME NEW r, NEW in, NEW out, NEW moves
  PROVE  Adds(AddConversion(r, in, out, moves), r, Encoded(in, "v4"), Encoded(out, "v4"))
<1> DEFINE q == AddConversion(r, in, out, moves)
<1>0. \A x : Adds(r, r, x, x)
  BY AddsNone
<1>1. CASE in = "XYZ" /\ out = "XYZ"
  <2>1. q = Layer(r, moves)
    BY <1>1 DEF AddConversion
  <2>2. QED
    BY <1>0, <1>1, <2>1, AddsLayer, EncodedIs
<1>2. CASE in = "XYZ" /\ out = "Lab"
  <2>1. q = AtEnd(Layer(r, moves), XYZ2Lab)
    BY <1>2 DEF AddConversion
  <2>2. Adds(Layer(r, moves), r, "XYZ", "XYZ")
    BY <1>0, AddsLayer
  <2>3. Adds(AtEnd(Layer(r, moves), XYZ2Lab), r, "XYZ", "LabV4")
    BY <2>2, AddsStage, ConversionsAside, ConversionsFlow
  <2>4. QED
    BY <1>2, <2>1, <2>3, EncodedIs
<1>3. CASE in = "Lab" /\ out = "XYZ"
  <2>1. q = Layer(AtEnd(r, Lab2XYZ), moves)
    BY <1>3 DEF AddConversion
  <2>2. Adds(AtEnd(r, Lab2XYZ), r, "LabV4", "XYZ")
    BY <1>0, AddsStage, ConversionsAside, ConversionsFlow
  <2>3. Adds(Layer(AtEnd(r, Lab2XYZ), moves), r, "LabV4", "XYZ")
    BY <2>2, AddsLayer
  <2>4. QED
    BY <1>3, <2>1, <2>3, EncodedIs
<1>4. CASE in = "Lab" /\ out = "Lab" /\ moves
  <2>1. q = AtEnd(Layer(AtEnd(r, Lab2XYZ), moves), XYZ2Lab)
    BY <1>4 DEF AddConversion
  <2>2. Adds(AtEnd(r, Lab2XYZ), r, "LabV4", "XYZ")
    BY <1>0, AddsStage, ConversionsAside, ConversionsFlow
  <2>3. Adds(Layer(AtEnd(r, Lab2XYZ), moves), r, "LabV4", "XYZ")
    BY <2>2, AddsLayer
  <2>4. Adds(AtEnd(Layer(AtEnd(r, Lab2XYZ), moves), XYZ2Lab), r, "LabV4", "LabV4")
    BY <2>3, AddsStage, ConversionsAside, ConversionsFlow
  <2>5. QED
    BY <1>4, <2>1, <2>4, EncodedIs
<1>5. CASE (in = "Lab" /\ out = "Lab" /\ ~moves) \/ (~(in \in PCSes /\ out \in PCSes) /\ in \notin PCSes /\ in = out)
  <2>1. q = r /\ in = out
    BY <1>5 DEF AddConversion, PCSes
  <2>2. QED
    BY <1>0, <2>1
<1>6. CASE ~(in \in PCSes /\ out \in PCSes) /\ ~(in \notin PCSes /\ in = out)
  <2>1. q = NilLut
    BY <1>6 DEF AddConversion, PCSes
  <2>2. QED
    BY <2>1, Results DEF Adds
<1>7. QED
  BY <1>1, <1>2, <1>3, <1>4, <1>5, <1>6 DEF PCSes

----------------------------------------------------------------------------
(* The chain so far.                                                       *)

\* The stages e are those of the first k profiles, in order, each with a part and
\* with at most one table.
Of(e, j) == e[j].data.of
Placed(e, k) ==
  /\ \A j \in 1 .. Len(e) : Of(e, j) \in 1 .. k
  /\ \A j \in 1 .. Len(e) : j > 1 => Of(e, j - 1) <= Of(e, j)
  /\ \A i \in 1 .. k : \E j \in 1 .. Len(e) : Of(e, j) = i
  /\ \A i, j \in 1 .. Len(e) : IsTable(e[i]) /\ IsTable(e[j]) /\ Of(e, i) = Of(e, j) => i = j

\* A stage is placed once.
LEMMA PlacedAtIs ==
  ASSUME NEW s, NEW k
  PROVE  /\ IsFresh(s) => /\ PlacedAt(s, k).data.of = k /\ PlacedAt(s, k).type = s.type
                          /\ SameEnds(PlacedAt(s, k), s)
         /\ s.data.of # 0 => PlacedAt(s, k) = s
<1>1. ASSUME NEW t, NEW i, NEW o, NEW x, NEW y, s = Converting(t, i, o, x, y)
      PROVE  PlacedAt(s, k).data.of = k /\ PlacedAt(s, k).type = s.type /\ SameEnds(PlacedAt(s, k), s)
  <2>1. s = [type |-> t, implements |-> t, in |-> i, out |-> o, data |-> [from |-> x, to |-> y, of |-> 0]]
    BY <1>1 DEF Converting, StageAllocPlaceholder
  <2>2. PlacedAt(s, k) = [type |-> t, implements |-> t, in |-> i, out |-> o, data |-> [from |-> x, to |-> y, of |-> k]]
    BY <2>1 DEF PlacedAt
  <2>3. QED
    BY <2>1, <2>2 DEF SameEnds
<1>2. QED
  BY <1>1 DEF IsFresh, PlacedAt

\* The list of the placed stages.
LEMMA PlacedListIs ==
  ASSUME NEW e, IsList(e), NEW k
  PROVE  /\ IsList(PlacedList(e, k)) /\ Len(PlacedList(e, k)) = Len(e)
         /\ \A j \in 1 .. Len(e) : PlacedList(e, k)[j] = PlacedAt(e[j], k)
<1> DEFINE d == PlacedList(e, k)
           S == {d[j] : j \in 1 .. Len(e)}
<1>1. DOMAIN e = 1 .. Len(e) /\ Len(e) \in Nat
  BY ListFacts
<1>2. d = [j \in 1 .. Len(e) |-> PlacedAt(e[j], k)]
  BY <1>1 DEF PlacedList
<1>3. \A j \in 1 .. Len(e) : d[j] = PlacedAt(e[j], k)
  BY <1>2
<1> HIDE DEF d
<1>4. d \in [1 .. Len(e) -> S]
  BY <1>2
<1> HIDE DEF S
<1>5. d \in Seq(S) /\ Len(d) = Len(e)
  BY <1>1, <1>4, SeqDef, LenProperties
<1>6. QED
  BY <1>3, <1>5 DEF IsList, d

\* One profile's stages after those of the k before.
LEMMA PlaceNext ==
  ASSUME NEW k \in Nat, NEW e, IsList(e), Placed(e, k), NEW g, Own(g), NEW h, h = PlacedList(e \o g, k + 1)
  PROVE  /\ IsList(h) /\ Placed(h, k + 1)
         /\ \A x : Through(h, x) = Through(g, Through(e, x))
<1> DEFINE d == e \o g
           n == Len(e)
           m == Len(g)
<1>1. IsList(g) /\ IsList(d)
  BY ConcatLists DEF Own
<1>2. n \in Nat /\ m \in Nat /\ m > 0 /\ Len(d) = n + m
  BY <1>1, ConcatLists, ListFacts DEF Own
<1>3. /\ IsList(h) /\ Len(h) = n + m
      /\ \A j \in 1 .. (n + m) : h[j] = PlacedAt(d[j], k + 1)
  BY <1>1, <1>2, PlacedListIs
<1>4. \A j \in 1 .. n : d[j] = e[j]
  BY <1>1, ConcatLists
<1>5. \A j \in 1 .. m : d[n + j] = g[j]
  BY <1>1, ConcatLists
<1> HIDE DEF d
\* The stages already placed stay; the new ones are placed.
<1>6. ASSUME NEW j \in 1 .. n
      PROVE  h[j] = e[j] /\ Of(e, j) \in 1 .. k
  <2>1. j \in 1 .. (n + m)
    BY <1>2
  <2>2. Of(e, j) \in 1 .. k
    BY DEF Placed
  <2>3. e[j].data.of # 0
    BY <2>2 DEF Of
  <2>4. PlacedAt(e[j], k + 1) = e[j]
    BY <2>3, PlacedAtIs
  <2>5. QED
    BY <2>1, <2>2, <2>4, <1>3, <1>4
<1>7. ASSUME NEW j \in 1 .. m
      PROVE  /\ Of(h, n + j) = k + 1 /\ (IsTable(h[n + j]) <=> IsTable(g[j]))
             /\ SameEnds(h[n + j], g[j])
  <2>1. n + j \in 1 .. (n + m)
    BY <1>2
  <2>2. h[n + j] = PlacedAt(g[j], k + 1)
    BY <2>1, <1>3, <1>5
  <2>3. IsFresh(g[j])
    BY DEF Own, Fresh
  <2>4. /\ PlacedAt(g[j], k + 1).data.of = k + 1 /\ PlacedAt(g[j], k + 1).type = g[j].type
        /\ SameEnds(PlacedAt(g[j], k + 1), g[j])
    BY <2>3, PlacedAtIs
  <2>5. QED
    BY <2>2, <2>4 DEF Of, IsTable
\* Every place is one or the other.
<1>8. ASSUME NEW j \in 1 .. (n + m)
      PROVE  \/ j \in 1 .. n
             \/ j > n /\ j - n \in 1 .. m /\ n + (j - n) = j
  BY <1>2
<1>9. ASSUME NEW j \in 1 .. (n + m), j > n
      PROVE  Of(h, j) = k + 1 /\ (IsTable(h[j]) <=> IsTable(g[j - n])) /\ j - n \in 1 .. m
  <2>1. j - n \in 1 .. m /\ n + (j - n) = j
    BY <1>2, <1>9
  <2> DEFINE i == j - n
  <2> HIDE DEF i
  <2>2. i \in 1 .. m /\ n + i = j
    BY <2>1 DEF i
  <2>3. Of(h, n + i) = k + 1 /\ (IsTable(h[n + i]) <=> IsTable(g[i]))
    BY <2>2, <1>7
  <2>4. QED
    BY <2>2, <2>3 DEF i
<1>10. ASSUME NEW j \in 1 .. n
       PROVE  Of(h, j) = Of(e, j) /\ (IsTable(h[j]) <=> IsTable(e[j])) /\ Of(h, j) \in 1 .. k
  BY <1>6 DEF Of
<1>11. Placed(h, k + 1)
  <2>1. \A j \in 1 .. (n + m) : Of(h, j) \in 1 .. (k + 1)
    <3> TAKE j \in 1 .. (n + m)
    <3>1. CASE j \in 1 .. n
      <4>1. Of(h, j) \in 1 .. k
        BY <3>1, <1>10
      <4>2. QED
        BY <4>1
    <3>2. CASE j > n
      BY <3>2, <1>9
    <3>3. QED
      BY <3>1, <3>2, <1>8
  <2>2. ASSUME NEW j \in 1 .. (n + m), j > 1
        PROVE  Of(h, j - 1) <= Of(h, j)
    <3>0. j - 1 \in 1 .. (n + m)
      BY <1>2, <2>2
    <3>1. CASE j \in 1 .. n
      <4>1. j - 1 \in 1 .. n
        BY <3>1, <2>2, <1>2
      <4>2. Of(e, j - 1) <= Of(e, j)
        BY <3>1, <2>2 DEF Placed
      <4>3. QED
        BY <4>1, <4>2, <3>1, <1>10
    <3>2. CASE j > n
      <4>1. Of(h, j) = k + 1
        BY <3>2, <1>9
      <4>2. Of(h, j - 1) \in 1 .. (k + 1)
        BY <2>1, <3>0
      <4> HIDE DEF n, m
      <4>3. QED
        BY <4>1, <4>2
    <3>3. QED
      BY <3>1, <3>2, <1>8
  <2>3. ASSUME NEW i \in 1 .. (k + 1)
        PROVE  \E j \in 1 .. (n + m) : Of(h, j) = i
    <3>1. CASE i \in 1 .. k
      <4>1. PICK j \in 1 .. n : Of(e, j) = i
        BY <3>1 DEF Placed
      <4>2. j \in 1 .. (n + m)
        BY <1>2
      <4>3. QED
        BY <4>1, <4>2, <1>10
    <3>2. CASE i = k + 1
      <4>1. n + 1 \in 1 .. (n + m) /\ n + 1 > n
        BY <1>2
      <4>2. Of(h, n + 1) = k + 1
        BY <4>1, <1>9
      <4>3. QED
        BY <3>2, <4>1, <4>2
    <3>3. QED
      BY <3>1, <3>2
  <2>4. ASSUME NEW i \in 1 .. (n + m), NEW j \in 1 .. (n + m), IsTable(h[i]), IsTable(h[j]), Of(h, i) = Of(h, j)
        PROVE  i = j
    <3>1. CASE i \in 1 .. n /\ j \in 1 .. n
      <4>1. IsTable(e[i]) /\ IsTable(e[j]) /\ Of(e, i) = Of(e, j)
        BY <3>1, <2>4, <1>10
      <4>2. QED
        BY <3>1, <4>1 DEF Placed
    <3>2. CASE i > n /\ j > n
      <4>1. /\ IsTable(g[i - n]) /\ IsTable(g[j - n]) /\ i - n \in 1 .. m /\ j - n \in 1 .. m
        BY <3>2, <2>4, <1>9
      <4>2. i - n = j - n
        BY <4>1 DEF Own, OneTable
      <4>3. QED
        BY <4>2, <1>2
    <3>3. CASE i \in 1 .. n /\ j > n
      <4>1. Of(h, i) \in 1 .. k /\ Of(h, j) = k + 1
        BY <3>3, <1>9, <1>10
      <4>2. QED
        BY <4>1, <2>4
    <3>4. CASE i > n /\ j \in 1 .. n
      <4>1. Of(h, j) \in 1 .. k /\ Of(h, i) = k + 1
        BY <3>4, <1>9, <1>10
      <4>2. QED
        BY <4>1, <2>4
    <3>5. QED
      BY <3>1, <3>2, <3>3, <3>4, <1>8
  <2>5. QED
    BY <1>3, <2>1, <2>2, <2>3, <2>4 DEF Placed
<1>12. ASSUME NEW x PROVE Through(h, x) = Through(g, Through(e, x))
  <2>1. \A j \in 1 .. (n + m) : SameEnds(h[j], d[j])
    <3> TAKE j \in 1 .. (n + m)
    <3>1. CASE j \in 1 .. n
      BY <3>1, <1>4, <1>6 DEF SameEnds
    <3>2. CASE j > n /\ j - n \in 1 .. m /\ n + (j - n) = j
      <4> DEFINE i == j - n
      <4>1. i \in 1 .. m /\ n + i = j
        BY <3>2
      <4> HIDE DEF i
      <4>2. SameEnds(h[n + i], g[i]) /\ d[n + i] = g[i]
        BY <4>1, <1>5, <1>7
      <4>3. QED
        BY <4>1, <4>2
    <3>3. QED
      BY <3>1, <3>2, <1>8
  <2>2. Through(h, x) = Through(d, x)
    BY <1>1, <1>2, <1>3, <2>1, ThroughAlike
  <2>3. Through(d, x) = Through(g, Through(e, x))
    BY <1>1, ThroughBoth DEF d
  <2>4. QED
    BY <2>2, <2>3
<1>13. QED
  BY <1>3, <1>11, <1>12

----------------------------------------------------------------------------
(* One step of the chain.                                                  *)

\* What a reader is known to do may be said of fewer profiles.
LEMMA ReadsLess ==
  ASSUME NEW r, NEW x, NEW y, NEW ok, Reads(r, x, y, ok), NEW v, NEW w, NEW less,
         less => ok /\ v = x /\ w = y
  PROVE  Reads(r, v, w, less)
BY DEF Reads

\* The profile at place k of the chain is none that breaks the encodings.
Fits(c, p, k) ==
  /\ ~SpaceIsOtherPCS(p) /\ ~HeaderIsWrong(p) /\ ~BareFloat(p, c.intents[k])
  /\ p.class = "named" => k = 1
\* What its stages take and what they give.
Takes(p, k, space) == IF p.class = "named" THEN "1CLR" ELSE Encoded(SpaceIn(p, k, space), "v4")
Gives(c, p, k, space) ==
  IF p.class = "named" /\ Len(c.chain) = 1 THEN Encoded(p.space, "v4") ELSE Encoded(SpaceOut(p, k, space), "v4")

\* However the profile is read, its stages take the one and give the other.
LEMMA ReadLutReads ==
  ASSUME NEW c, NEW p, WellMade(p), NEW k, NEW space
  PROVE  Reads(ReadLut(c, p, k, space), Takes(p, k, space), Gives(c, p, k, space), Fits(c, p, k))
<1> DEFINE i == c.intents[k]
           ok == Fits(c, p, k)
           x == Takes(p, k, space)
           y == Gives(c, p, k, space)
<1>1. CASE IsLink(p)
  <2>1. ReadLut(c, p, k, space) = ReadDevicelinkLUT(p, i)
    BY <1>1 DEF ReadLut, ReadAsLink
  <2>2. x = Encoded(p.space, "v4") /\ y = Encoded(p.pcs, "v4")
    BY <1>1 DEF Takes, Gives, SpaceIn, SpaceOut, Forward, IsLink
  <2>3. ok => ~BareFloat(p, i)
    BY DEF Fits
  <2> HIDE DEF ok, x, y, i
  <2>4. Reads(ReadDevicelinkLUT(p, i), Encoded(p.space, "v4"), Encoded(p.pcs, "v4"), ~BareFloat(p, i))
    BY <1>1, LinkReads DEF IsLink
  <2>5. Reads(ReadDevicelinkLUT(p, i), x, y, ok)
    BY <2>2, <2>3, <2>4, ReadsLess
  <2>6. QED
    BY <2>1, <2>5 DEF ok, x, y
<1>2. CASE ~IsLink(p) /\ p.class = "named" /\ Len(c.chain) = 1
  <2>1. ReadLut(c, p, k, space) = ReadDevicelinkLUT(p, i)
    BY <1>2 DEF ReadLut, ReadAsLink
  <2>2. x = "1CLR" /\ y = Encoded(p.space, "v4")
    BY <1>2 DEF Takes, Gives
  <2> HIDE DEF ok, x, y, i
  <2>3. QED
    BY <1>2, <2>1, <2>2, NamedLinkReads DEF ok, x, y
<1>3. CASE ~IsLink(p) /\ ~(p.class = "named" /\ Len(c.chain) = 1) /\ UsedAsInput(p, k, space)
  <2>1. ReadLut(c, p, k, space) = ReadInputLUT(p, i)
    BY <1>3 DEF ReadLut, ReadAsLink
  <2>2. y = Encoded(p.pcs, "v4") /\ (p.class # "named" => x = Encoded(p.space, "v4"))
        /\ (p.class = "named" => x = "1CLR")
    BY <1>3 DEF Takes, Gives, SpaceIn, SpaceOut, Forward
  <2>3. ok => Orderly(p) /\ (p.class = "named" => p.pcs = "Lab")
    BY <1>3 DEF Fits, Orderly, HeaderIsWrong, IsLink
  <2> HIDE DEF ok, x, y, i
  <2>4. CASE p.class = "named"
    <3>1. Reads(ReadInputLUT(p, i), "1CLR", "LabV4", ok)
      BY <2>4, NamedInputReads
    <3>2. ok => y = "LabV4"
      BY <2>2, <2>3, <2>4, EncodedIs
    <3>3. Reads(ReadInputLUT(p, i), x, y, ok)
      BY <2>2, <2>4, <3>1, <3>2, ReadsLess
    <3>4. QED
      BY <2>1, <3>3 DEF ok, x, y
  <2>5. CASE p.class # "named"
    <3>1. Reads(ReadInputLUT(p, i), Encoded(p.space, "v4"), Encoded(p.pcs, "v4"), Orderly(p))
      BY <2>5, InputReads
    <3>2. Reads(ReadInputLUT(p, i), x, y, ok)
      BY <2>2, <2>3, <2>5, <3>1, ReadsLess
    <3>3. QED
      BY <2>1, <3>2 DEF ok, x, y
  <2>6. QED
    BY <2>4, <2>5
<1>4. CASE ~IsLink(p) /\ ~(p.class = "named" /\ Len(c.chain) = 1) /\ ~UsedAsInput(p, k, space)
  <2>1. ReadLut(c, p, k, space) = ReadOutputLUT(p, i)
    BY <1>4 DEF ReadLut, ReadAsLink
  <2>2. ok => p.class # "named" /\ Orderly(p)
    BY <1>4 DEF Fits, Orderly, UsedAsInput, IsLink
  <2>3. y = Encoded(p.space, "v4") /\ (p.class # "named" => x = Encoded(p.pcs, "v4"))
    BY <1>4 DEF Takes, Gives, SpaceIn, SpaceOut, Forward
  <2> HIDE DEF ok, x, y, i
  <2>4. Reads(ReadOutputLUT(p, i), Encoded(p.pcs, "v4"), Encoded(p.space, "v4"), Orderly(p))
    BY OutputReads
  <2>5. Reads(ReadOutputLUT(p, i), x, y, ok)
    BY <2>2, <2>3, <2>4, ReadsLess
  <2>6. QED
    BY <2>1, <2>5 DEF ok, x, y
<1>5. QED
  BY <1>1, <1>2, <1>3, <1>4

\* Where nothing is converted.
Straight(conv, adds, from, to) == ~adds \/ (from = to /\ ~conv.moves)

\* Between equal spaces that are not moved nothing is put.
LEMMA NothingAdded ==
  ASSUME NEW r, NEW space, NEW moves, ~moves
  PROVE  AddConversion(r, space, space, moves) = r
BY DEF AddConversion, Layer, EndIf, PCSes

\* A profile's stages after the conversion to it.
LEMMA JoinedHolds ==
  ASSUME NEW r, NEW lut, NEW conv, NEW adds, NEW from, NEW to, NEW k \in Nat,
         NEW e, IsList(e), Holds(r, e), Placed(e, k), NEW v, NEW w, NEW ok, Reads(lut, v, w, ok),
         NEW q, q = Place(Joined(r, lut, conv, adds, from, to), k + 1), IsMade(q)
  PROVE  /\ IsMade(r) /\ IsMade(lut)
         /\ \E h : /\ IsList(h) /\ Holds(q, h) /\ Placed(h, k + 1)
                   /\ \A x : /\ ok
                             /\ \/ Straight(conv, adds, from, to) /\ Through(e, x) = v
                                \/ adds /\ Through(e, x) = Encoded(from, "v4") /\ v = Encoded(to, "v4")
                                     /\ ~Straight(conv, adds, from, to)
                             => Through(h, x) = w
<1> DEFINE ready == Ready(r, lut, conv, adds, from, to)
           joined == Joined(r, lut, conv, adds, from, to)
           straight == Straight(conv, adds, from, to)
<1>1. IsMade(joined)
  BY DEF Place, IsMade
<1>2. joined = Steal(ready, lut)
  BY DEF Joined
<1> HIDE DEF joined, ready
<1>3. IsMade(ready) /\ IsMade(lut)
  BY <1>1, <1>2 DEF Steal, IsMade
<1>4. PICK g : Holds(lut, g) /\ Own(g) /\ (ok => Through(g, v) = w)
  BY <1>3 DEF Reads
<1>5. ready = IF adds THEN AddConversion(r, from, to, conv.moves) ELSE r
  <2>1. conv.how = "made"
    BY <1>3, Results DEF ready, Ready, IsMade
  <2>2. QED
    BY <1>3, <2>1 DEF ready, Ready, IsMade
<1>6. Straight(conv, adds, from, to) => ready = r
  BY <1>5, NothingAdded DEF Straight
<1>7. /\ IsMade(r)
      /\ \E f : /\ Aside(f) /\ Holds(ready, e \o f)
                /\ straight => \A y : Through(f, y) = y
                /\ ~straight => Through(f, Encoded(from, "v4")) = Encoded(to, "v4")
  <2>1. CASE straight
    <3>1. ready = r
      BY <1>6, <2>1
    <3>2. Aside(<<>>) /\ e \o <<>> = e /\ \A y : Through(<<>>, y) = y
      BY EmptyList, ThroughNone, AlmostAlone DEF Aside, Fresh
    <3> HIDE DEF straight
    <3>3. Holds(ready, e \o <<>>)
      BY <3>1, <3>2
    <3>4. QED
      BY <1>3, <2>1, <3>1, <3>2, <3>3
  <2>2. CASE ~straight
    <3>1. adds
      BY <2>2 DEF Straight
    <3>2. ready = AddConversion(r, from, to, conv.moves)
      BY <1>5, <3>1
    <3> HIDE DEF straight
    <3>3. Adds(ready, r, Encoded(from, "v4"), Encoded(to, "v4"))
      BY <3>2, AddConversionAdds
    <3>4. QED
      BY <1>3, <2>2, <3>3 DEF Adds
  <2>3. QED
    BY <2>1, <2>2
<1> HIDE DEF straight
<1>8. PICK f : /\ Aside(f) /\ Holds(ready, e \o f)
               /\ straight => \A y : Through(f, y) = y
               /\ ~straight => Through(f, Encoded(from, "v4")) = Encoded(to, "v4")
  BY <1>7
<1>9. Own(f \o g) /\ IsList(f) /\ IsList(g) /\ IsList(f \o g)
  BY <1>4, <1>8, AsideBefore, ConcatLists DEF Own, Aside
<1>10. Holds(joined, e \o (f \o g))
  <2>1. Holds(joined, (e \o f) \o g)
    BY <1>2, <1>4, <1>8, StealHolds
  <2>2. (e \o f) \o g = e \o (f \o g)
    BY <1>9, ListsAssociate
  <2>3. QED
    BY <2>1, <2>2
<1> DEFINE h == PlacedList(e \o (f \o g), k + 1)
<1>11. Holds(q, h)
  BY <1>10, PlaceHolds DEF joined
<1>12. IsList(h) /\ Placed(h, k + 1) /\ \A x : Through(h, x) = Through(f \o g, Through(e, x))
  BY <1>9, PlaceNext
<1>13. \A x : Through(f \o g, x) = Through(g, Through(f, x))
  BY <1>9, ThroughBoth
<1> HIDE DEF h
<1>14. ASSUME NEW x, ok,
              \/ straight /\ Through(e, x) = v
              \/ ~straight /\ Through(e, x) = Encoded(from, "v4") /\ v = Encoded(to, "v4")
       PROVE  Through(h, x) = w
  <2>1. Through(f, Through(e, x)) = v
    BY <1>8, <1>14
  <2>2. QED
    BY <1>4, <1>12, <1>13, <1>14, <2>1
<1>15. QED
  BY <1>3, <1>7, <1>11, <1>12, <1>14 DEF straight

\* x comes out of the stages before as the profile wants it.
Arrives(e, x, p, k, space) ==
  IF p.class = "named" THEN k = 0 /\ Through(e, x) = "1CLR" ELSE Through(e, x) = Encoded(space, "v4")

\* Compatible spaces other than the connection spaces are encoded alike.
LEMMA CompatibleEncoded ==
  ASSUME NEW a, NEW b, ColorSpaceIsCompatible(a, b), b \notin PCSes
  PROVE  Encoded(a, "v4") = Encoded(b, "v4")
<1>1. CASE a = b
  BY <1>1
<1>2. CASE {a, b} = {"4CLR", "CMYK"}
  <2>1. (a = "4CLR" /\ b = "CMYK") \/ (a = "CMYK" /\ b = "4CLR")
    BY <1>2
  <2>2. QED
    BY <2>1, EncodedIs
<1>3. {a, b} # PCSes
  OBVIOUS
<1>4. QED
  BY <1>1, <1>2, <1>3 DEF ColorSpaceIsCompatible

\* A state of the loop: what is linked, and the space it ends in.
Pair(s) == s = [r |-> s.r, space |-> s.space]

\* The stages e of the first k profiles are ready for the profile p.
Joinable(st, e, p, k) ==
  /\ Pair(st) /\ (k = 0 => st.space = p.space)
  /\ IsList(e) /\ Holds(st.r, e) /\ Placed(e, k)
\* t is st with the stages of one profile more.
Stepped(c, p, k, st, e, t) ==
  /\ IsMade(st.r) /\ ColorSpaceIsCompatible(SpaceIn(p, k + 1, st.space), st.space)
  /\ t.space = SpaceOut(p, k + 1, st.space)
  /\ \E h : /\ IsList(h) /\ Holds(t.r, h) /\ Placed(h, k + 1)
            /\ \A x : Fits(c, p, k + 1) /\ Arrives(e, x, p, k, st.space)
                        => Through(h, x) = Gives(c, p, k + 1, st.space)

\* One round of the loop of DefaultICCintents.
LEMMA StepHolds ==
  ASSUME NEW c, NEW m, NEW st, NEW k \in Nat, NEW p, WellMade(p), NEW e, Joinable(st, e, p, k),
         NEW t, t = StepOf(c, m, st, k + 1, p), IsMade(t.r)
  PROVE  Stepped(c, p, k, st, e, t)
<1> DEFINE in == SpaceIn(p, k + 1, st.space)
           lut == ReadLut(c, p, k + 1, st.space)
           conv == IF Converts(c, p, k + 1, st.space) THEN m[k + 1] ELSE Identity
           adds == ReadAsLink(c, p) \/ ~UsedAsInput(p, k + 1, st.space)
           q == Place(Joined(st.r, lut, conv, adds, st.space, in), k + 1)
           straight == Straight(conv, adds, st.space, in)
           v == Takes(p, k + 1, st.space)
           w == Gives(c, p, k + 1, st.space)
           ok == Fits(c, p, k + 1)
<1>0. Pair(st) /\ (k = 0 => st.space = p.space) /\ IsList(e) /\ Holds(st.r, e) /\ Placed(e, k)
  BY DEF Joinable
<1>1. st.r.how = "made"
  BY DEF StepOf, IsMade
<1>2. ColorSpaceIsCompatible(in, st.space)
  <2>1. SUFFICES ASSUME ~ColorSpaceIsCompatible(in, st.space) PROVE FALSE
    OBVIOUS
  <2>2. t = [st EXCEPT !.r = NilLut]
    BY <1>1, <2>1 DEF StepOf
  <2>3. t.r = NilLut
    BY <1>0, <2>2 DEF Pair
  <2>4. QED
    BY <2>3, Results
<1>3. t = [r |-> q, space |-> SpaceOut(p, k + 1, st.space)]
  BY <1>1, <1>2 DEF StepOf
<1>4. Reads(lut, v, w, ok)
  BY ReadLutReads
<1>5. ok => (~straight => adds /\ p.class # "named")
  <2>1. SUFFICES ASSUME ok, ~straight PROVE adds /\ p.class # "named"
    OBVIOUS
  <2>2. adds
    BY <2>1 DEF Straight
  <2>3. ASSUME p.class = "named" PROVE FALSE
    <3>1. k = 0 /\ st.space = p.space
      BY <1>0, <2>1, <2>3 DEF Fits
    <3>2. UsedAsInput(p, k + 1, st.space)
      BY <2>3, <3>1 DEF UsedAsInput, IsLink
    <3>3. in = p.space /\ ~Converts(c, p, k + 1, st.space)
      BY <2>3, <3>2 DEF SpaceIn, Forward, Converts
    <3>4. ~conv.moves
      BY <3>3 DEF Identity
    <3>5. QED
      BY <2>1, <3>1, <3>3, <3>4 DEF Straight
  <2>4. QED
    BY <2>2, <2>3
<1>6. ASSUME ok, straight, p.class # "named"
      PROVE  Encoded(st.space, "v4") = Encoded(in, "v4")
  <2>1. CASE adds
    BY <1>6, <2>1 DEF Straight
  <2>2. CASE ~adds
    <3>1. UsedAsInput(p, k + 1, st.space) /\ ~IsLink(p)
      BY <2>2 DEF ReadAsLink
    <3>2. in = p.space
      BY <3>1 DEF SpaceIn, Forward
    <3>3. st.space = p.space \/ st.space \notin PCSes
      BY <1>0, <3>1 DEF UsedAsInput
    <3>4. QED
      BY <1>2, <3>2, <3>3, CompatibleEncoded
  <2>3. QED
    BY <2>1, <2>2
<1>7. \A x : ok /\ Arrives(e, x, p, k, st.space) =>
               \/ straight /\ Through(e, x) = v
               \/ adds /\ Through(e, x) = Encoded(st.space, "v4") /\ v = Encoded(in, "v4") /\ ~straight
  <2> SUFFICES ASSUME NEW x, ok, Arrives(e, x, p, k, st.space)
               PROVE  \/ straight /\ Through(e, x) = v
                      \/ adds /\ Through(e, x) = Encoded(st.space, "v4") /\ v = Encoded(in, "v4") /\ ~straight
    OBVIOUS
  <2>1. p.class # "named" => v = Encoded(in, "v4") /\ Through(e, x) = Encoded(st.space, "v4")
    BY DEF Takes, Arrives
  <2>2. p.class = "named" => v = "1CLR" /\ Through(e, x) = "1CLR"
    BY DEF Takes, Arrives
  <2> HIDE DEF ok, straight, v, adds, in
  <2>3. QED
    BY <1>5, <1>6, <2>1, <2>2
<1> HIDE DEF in, lut, conv, adds, v, w, ok
<1>8. IsMade(q)
  BY <1>3
<1>9. \E h : /\ IsList(h) /\ Holds(q, h) /\ Placed(h, k + 1)
             /\ \A x : /\ ok
                       /\ \/ straight /\ Through(e, x) = v
                          \/ adds /\ Through(e, x) = Encoded(st.space, "v4") /\ v = Encoded(in, "v4") /\ ~straight
                       => Through(h, x) = w
  BY <1>0, <1>4, <1>8, JoinedHolds
<1> HIDE DEF q, straight
<1>10. \E h : /\ IsList(h) /\ Holds(q, h) /\ Placed(h, k + 1)
              /\ \A x : ok /\ Arrives(e, x, p, k, st.space) => Through(h, x) = w
  BY <1>7, <1>9
<1>11. t.r = q /\ t.space = SpaceOut(p, k + 1, st.space)
  BY <1>3
<1>12. QED
  BY <1>1, <1>2, <1>10, <1>11 DEF Stepped, IsMade, in, w, ok

\* The other rule for which way a profile is used comes to the same.
LEMMA WalkAgrees ==
  ASSUME NEW c, NEW name, NEW p, p = Profile(name), NEW k, Fits(c, p, k), NEW n, NEW s,
         p.class # "named", k = 1 => s.post = p.space,
         ColorSpaceIsCompatible(SpaceIn(p, k, s.post), s.post)
  PROVE  /\ Walk(n, k, s, name).post = SpaceOut(p, k, s.post)
         /\ k = 1 => Walk(n, k, s, name).entry = SpaceIn(p, k, s.post)
<1> DEFINE input == s.post \notin PCSes \/ p.class = "link"
           in == IF input THEN p.space ELSE p.pcs
           out == IF input THEN p.pcs ELSE p.space
<1>1. Walk(n, k, s, name) = [entry |-> IF k = 1 THEN in ELSE s.entry, post |-> out]
  BY DEF Walk
<1>2. p.class # "link" /\ p.space \in PCSes => p.pcs = p.space
  BY DEF Fits, SpaceIsOtherPCS
<1>3. in = SpaceIn(p, k, s.post) /\ out = SpaceOut(p, k, s.post)
  <2>1. CASE p.class = "link"
    BY <2>1 DEF SpaceIn, SpaceOut, Forward, IsLink
  <2>2. CASE p.class = "abstract"
    <3>1. SpaceIn(p, k, s.post) = p.space /\ SpaceOut(p, k, s.post) = p.pcs
      BY <2>2 DEF SpaceIn, SpaceOut, Forward, IsLink
    <3>2. s.post \in PCSes => p.space \in PCSes
      <4>1. SUFFICES ASSUME s.post \in PCSes PROVE p.space \in PCSes
        OBVIOUS
      <4>2. s.post \notin {"4CLR", "CMYK"}
        BY <4>1 DEF PCSes
      <4>3. p.space = s.post \/ {p.space, s.post} = PCSes
        BY <3>1, <4>2 DEF ColorSpaceIsCompatible
      <4>4. QED
        BY <4>1, <4>3
    <3>3. QED
      BY <1>2, <2>2, <3>1, <3>2
  <2>3. CASE ~IsLink(p) /\ k = 1
    <3>1. SpaceIn(p, k, s.post) = p.space /\ SpaceOut(p, k, s.post) = p.pcs
      BY <2>3 DEF SpaceIn, SpaceOut, Forward, UsedAsInput
    <3>2. QED
      BY <1>2, <2>3, <3>1 DEF IsLink
  <2>4. CASE ~IsLink(p) /\ k # 1
    BY <2>4 DEF SpaceIn, SpaceOut, Forward, UsedAsInput, IsLink
  <2>5. QED
    BY <2>1, <2>2, <2>3, <2>4 DEF IsLink
<1>4. QED
  BY <1>1, <1>3

----------------------------------------------------------------------------
(* The two loops over a chain.                                             *)

\* What the loop of DefaultICCintents leaves at each place.
NoneYet(c) == [r |-> Made(PipelineAlloc(0, 0)), space |-> Profile(c.chain[1]).space]
LinkUpto(f, c, m, n) ==
  f = [k \in 0 .. n |-> IF k = 0 THEN NoneYet(c) ELSE Step(c, m, f[k - 1], k)]

\* They exist.
LEMMA LinkUptoExists ==
  ASSUME NEW n \in Nat, NEW c, NEW m
  PROVE  \E f : LinkUpto(f, c, m, n)
<1> DEFINE Upto == {k \in 0 .. n : \E f : LinkUpto(f, c, m, k)}
<1>1. 0 \in Upto
  <2> DEFINE f == [k \in 0 .. 0 |-> NoneYet(c)]
  <2>1. LinkUpto(f, c, m, 0)
    BY DEF LinkUpto
  <2> HIDE DEF f
  <2>2. 0 \in 0 .. n
    OBVIOUS
  <2>3. QED
    BY <2>1, <2>2
<1>2. ASSUME NEW i \in 0 .. n, i \in Upto, i < n PROVE i + 1 \in Upto
  <2>1. PICK f : LinkUpto(f, c, m, i)
    BY <1>2
  <2> DEFINE g == [k \in 0 .. i + 1 |-> IF k <= i THEN f[k] ELSE Step(c, m, f[i], i + 1)]
  <2>2. ASSUME NEW k \in 0 .. i + 1
        PROVE  g[k] = IF k = 0 THEN NoneYet(c) ELSE Step(c, m, g[k - 1], k)
    <3>1. CASE k <= i
      <4>1. k \in 0 .. i /\ g[k] = f[k] /\ (k # 0 => k - 1 \in 0 .. i + 1 /\ k - 1 <= i)
        BY <3>1
      <4>2. k # 0 => g[k - 1] = f[k - 1]
        BY <4>1
      <4>3. f[k] = IF k = 0 THEN NoneYet(c) ELSE Step(c, m, f[k - 1], k)
        BY <4>1, <2>1 DEF LinkUpto
      <4> HIDE DEF g
      <4>4. QED
        BY <4>1, <4>2, <4>3
    <3>2. CASE ~(k <= i)
      <4>1. k # 0 /\ k - 1 = i /\ i \in 0 .. i + 1 /\ g[i] = f[i] /\ k = i + 1
        BY <3>2
      <4>2. g[k] = Step(c, m, f[i], i + 1)
        BY <3>2
      <4> HIDE DEF g
      <4>3. QED
        BY <4>1, <4>2
    <3>3. QED
      BY <3>1, <3>2
  <2>3. g = [k \in 0 .. i + 1 |-> g[k]]
    OBVIOUS
  <2> HIDE DEF g
  <2>4. LinkUpto(g, c, m, i + 1)
    BY <2>2, <2>3 DEF LinkUpto
  <2>5. i + 1 \in 0 .. n
    BY <1>2
  <2>6. QED
    BY <2>4, <2>5
<1> HIDE DEF Upto
<1>3. 0 .. n \subseteq Upto
  BY <1>1, <1>2, Induction
<1>4. n \in Upto
  BY <1>3
<1>5. QED
  BY <1>4 DEF Upto

\* What the loop of GetXFormColorSpaces leaves.
NotWalked(chain) == [entry |-> "", post |-> Profile(chain[1]).space]
WalkUpto(f, chain, n) ==
  f = [k \in 0 .. n |-> IF k = 0 THEN NotWalked(chain) ELSE Walk(Len(chain), k, f[k - 1], chain[k])]

\* They exist.
LEMMA WalkUptoExists ==
  ASSUME NEW n \in Nat, NEW chain
  PROVE  \E f : WalkUpto(f, chain, n)
<1> DEFINE Upto == {k \in 0 .. n : \E f : WalkUpto(f, chain, k)}
<1>1. 0 \in Upto
  <2> DEFINE f == [k \in 0 .. 0 |-> NotWalked(chain)]
  <2>1. WalkUpto(f, chain, 0)
    BY DEF WalkUpto
  <2> HIDE DEF f
  <2>2. 0 \in 0 .. n
    OBVIOUS
  <2>3. QED
    BY <2>1, <2>2
<1>2. ASSUME NEW i \in 0 .. n, i \in Upto, i < n PROVE i + 1 \in Upto
  <2>1. PICK f : WalkUpto(f, chain, i)
    BY <1>2
  <2> DEFINE g == [k \in 0 .. i + 1 |-> IF k <= i THEN f[k] ELSE Walk(Len(chain), i + 1, f[i], chain[i + 1])]
  <2>2. ASSUME NEW k \in 0 .. i + 1
        PROVE  g[k] = IF k = 0 THEN NotWalked(chain) ELSE Walk(Len(chain), k, g[k - 1], chain[k])
    <3>1. CASE k <= i
      <4>1. k \in 0 .. i /\ g[k] = f[k] /\ (k # 0 => k - 1 \in 0 .. i + 1 /\ k - 1 <= i)
        BY <3>1
      <4>2. k # 0 => g[k - 1] = f[k - 1]
        BY <4>1
      <4>3. f[k] = IF k = 0 THEN NotWalked(chain) ELSE Walk(Len(chain), k, f[k - 1], chain[k])
        BY <4>1, <2>1 DEF WalkUpto
      <4> HIDE DEF g
      <4>4. QED
        BY <4>1, <4>2, <4>3
    <3>2. CASE ~(k <= i)
      <4>1. k # 0 /\ k - 1 = i /\ i \in 0 .. i + 1 /\ g[i] = f[i] /\ k = i + 1
        BY <3>2
      <4>2. g[k] = Walk(Len(chain), i + 1, f[i], chain[i + 1])
        BY <3>2
      <4> HIDE DEF g
      <4>3. QED
        BY <4>1, <4>2
    <3>3. QED
      BY <3>1, <3>2
  <2>3. g = [k \in 0 .. i + 1 |-> g[k]]
    OBVIOUS
  <2> HIDE DEF g
  <2>4. WalkUpto(g, chain, i + 1)
    BY <2>2, <2>3 DEF WalkUpto
  <2>5. i + 1 \in 0 .. n
    BY <1>2
  <2>6. QED
    BY <2>4, <2>5
<1> HIDE DEF Upto
<1>3. 0 .. n \subseteq Upto
  BY <1>1, <1>2, Induction
<1>4. n \in Upto
  BY <1>3
<1>5. QED
  BY <1>4 DEF Upto

\* The values of the two loops, round by round.
Links(f, c, m) ==
  /\ f[0] = NoneYet(c)
  /\ \A k \in 1 .. Len(c.chain) : f[k] = Step(c, m, f[k - 1], k)
Walks(w, chain) ==
  /\ w[0] = NotWalked(chain)
  /\ \A k \in 1 .. Len(chain) : w[k] = Walk(Len(chain), k, w[k - 1], chain[k])

\* What DefaultICCintents gives is what its last round leaves,
LEMMA DefaultICCintentsIs ==
  ASSUME NEW c, NEW m, Len(c.chain) \in Nat
  PROVE  \E f : Links(f, c, m) /\ DefaultICCintents(c, m) = f[Len(c.chain)].r
<1> DEFINE n == Len(c.chain)
           f == CHOOSE g : LinkUpto(g, c, m, n)
<1>1. LinkUpto(f, c, m, n)
  <2>1. \E g : LinkUpto(g, c, m, n)
    BY LinkUptoExists
  <2>2. QED
    BY <2>1
<1>2. DefaultICCintents(c, m) = f[n].r
  BY DEF DefaultICCintents, LinkUpto, NoneYet
<1> HIDE DEF f
<1>3. \A k \in 0 .. n : f[k] = IF k = 0 THEN NoneYet(c) ELSE Step(c, m, f[k - 1], k)
  BY <1>1 DEF LinkUpto
<1>4. 0 \in 0 .. n /\ \A k \in 1 .. n : k \in 0 .. n /\ k # 0
  OBVIOUS
<1>5. Links(f, c, m)
  BY <1>3, <1>4 DEF Links
<1>6. QED
  BY <1>2, <1>5

\* and so it is with GetXFormColorSpaces.
LEMMA GetXFormColorSpacesIs ==
  ASSUME NEW chain, Len(chain) \in Nat
  PROVE  \E w : /\ Walks(w, chain)
                /\ GetXFormColorSpaces(chain) = [entry |-> w[Len(chain)].entry, exit |-> w[Len(chain)].post]
<1> DEFINE n == Len(chain)
           w == CHOOSE g : WalkUpto(g, chain, n)
<1>1. WalkUpto(w, chain, n)
  <2>1. \E g : WalkUpto(g, chain, n)
    BY WalkUptoExists
  <2>2. QED
    BY <2>1
<1>2. GetXFormColorSpaces(chain) = [entry |-> w[n].entry, exit |-> w[n].post]
  BY DEF GetXFormColorSpaces, WalkUpto, NotWalked
<1> HIDE DEF w
<1>3. \A k \in 0 .. n : w[k] = IF k = 0 THEN NotWalked(chain) ELSE Walk(Len(chain), k, w[k - 1], chain[k])
  BY <1>1 DEF WalkUpto
<1>4. 0 \in 0 .. n /\ \A k \in 1 .. n : k \in 0 .. n /\ k # 0
  OBVIOUS
<1>5. Walks(w, chain)
  BY <1>3, <1>4 DEF Walks
<1>6. QED
  BY <1>2, <1>5

----------------------------------------------------------------------------
(* The whole chain.                                                        *)

\* The profile at place j; a chain of such profiles; the first k of them break no encoding.
At(c, j) == Profile(c.chain[j])
Chained(c) == /\ Len(c.chain) \in Nat \ {0}
              /\ \A j \in 1 .. Len(c.chain) : WellMade(At(c, j))
FitsUpto(c, k) == \A j \in 1 .. k : Fits(c, At(c, j), j)
\* The stages so far take what the entry space is encoded as and give what the
\* space so far is; after the last profile only the exit space matters.
Meets(c, e, f, w, k) ==
  /\ k < Len(c.chain) => w[k].post = f[k].space
  /\ IF k = 0 THEN e = <<>> ELSE Through(e, Encoded(w[k].entry, "v4")) = Encoded(w[k].post, "v4")
\* The invariant of the two loops: what is linked after k profiles.
ChainUpto(c, f, w, k) ==
  /\ Pair(f[k])
  /\ IsMade(f[k].r) =>
       \E e : IsList(e) /\ Holds(f[k].r, e) /\ Placed(e, k) /\ (FitsUpto(c, k) => Meets(c, e, f, w, k))

\* A round leaves a state of the loop.
LEMMA StepPairs ==
  ASSUME NEW c, NEW m, NEW s, Pair(s), NEW k
  PROVE  Pair(Step(c, m, s, k))
<1> DEFINE p == Profile(c.chain[k])
<1> HIDE DEF p
<1>1. \A a, b : Pair([r |-> a, space |-> b])
  BY DEF Pair
<1>2. Step(c, m, s, k) = StepOf(c, m, s, k, p)
  BY DEF Step, p
<1>3. CASE s.r.how # "made"
  BY <1>2, <1>3 DEF StepOf
<1>4. CASE s.r.how = "made" /\ ~ColorSpaceIsCompatible(SpaceIn(p, k, s.space), s.space)
  <2>1. Step(c, m, s, k) = [s EXCEPT !.r = NilLut]
    BY <1>2, <1>4 DEF StepOf
  <2>2. QED
    BY <2>1 DEF Pair
<1>5. CASE s.r.how = "made" /\ ColorSpaceIsCompatible(SpaceIn(p, k, s.space), s.space)
  <2>1. \E a, b : Step(c, m, s, k) = [r |-> a, space |-> b]
    BY <1>2, <1>5 DEF StepOf
  <2>2. QED
    BY <1>1, <2>1
<1>6. QED
  BY <1>3, <1>4, <1>5

\* The fields of a state of the one loop,
LEMMA PairFields ==
  ASSUME NEW s, NEW a, NEW b, s = [r |-> a, space |-> b]
  PROVE  Pair(s) /\ s.r = a /\ s.space = b
BY DEF Pair

\* and of the other.
LEMMA WalkFields ==
  ASSUME NEW s, NEW a, NEW b, s = [entry |-> a, post |-> b]
  PROVE  s.entry = a /\ s.post = b
OBVIOUS

\* Where the loops start.
LEMMA LoopsStart ==
  ASSUME NEW c
  PROVE  /\ Pair(NoneYet(c)) /\ NoneYet(c).r = Made(PipelineAlloc(0, 0))
         /\ NoneYet(c).space = Profile(c.chain[1]).space
         /\ NotWalked(c.chain).post = Profile(c.chain[1]).space
<1> DEFINE a == Made(PipelineAlloc(0, 0))
           b == Profile(c.chain[1]).space
<1>1. NoneYet(c) = [r |-> a, space |-> b] /\ NotWalked(c.chain) = [entry |-> "", post |-> b]
  BY DEF NoneYet, NotWalked
<1> HIDE DEF a, b
<1>2. Pair(NoneYet(c)) /\ NoneYet(c).r = a /\ NoneYet(c).space = b
  BY <1>1, PairFields
<1>3. NotWalked(c.chain).post = b
  BY <1>1, WalkFields
<1>4. QED
  BY <1>2, <1>3 DEF a, b

\* The invariant holds before the first profile,
LEMMA ChainStarts ==
  ASSUME NEW c, Chained(c), NEW m, NEW f, Links(f, c, m), NEW w, Walks(w, c.chain)
  PROVE  ChainUpto(c, f, w, 0)
<1>1. f[0] = NoneYet(c) /\ w[0] = NotWalked(c.chain)
  BY DEF Links, Walks
<1>2. Pair(f[0]) /\ f[0].r = Made(PipelineAlloc(0, 0)) /\ w[0].post = f[0].space
  BY <1>1, LoopsStart
<1>3. Holds(f[0].r, <<>>)
  BY <1>2, AllocHolds
<1>4. IsList(<<>>) /\ Placed(<<>>, 0)
  BY EmptyList DEF Placed
<1>5. Meets(c, <<>>, f, w, 0)
  BY <1>2 DEF Meets
<1>6. QED
  BY <1>2, <1>3, <1>4, <1>5 DEF ChainUpto

\* is kept by a round of both loops,
LEMMA ChainGoesOn ==
  ASSUME NEW c, Chained(c),
         NEW m, NEW f, Links(f, c, m), NEW w, Walks(w, c.chain),
         NEW k \in Nat, k < Len(c.chain), ChainUpto(c, f, w, k)
  PROVE  ChainUpto(c, f, w, k + 1)
<1> DEFINE n == Len(c.chain)
           p == At(c, k + 1)
           name == c.chain[k + 1]
           in == SpaceIn(p, k + 1, f[k].space)
           out == SpaceOut(p, k + 1, f[k].space)
           v == w[k + 1]
           x == Encoded(v.entry, "v4")
<1>1. k \in Nat /\ k + 1 \in 1 .. n /\ (k + 1) - 1 = k /\ (n > 1 <=> n # 1)
  <2>1. n \in Nat \ {0} /\ k < n
    BY DEF Chained
  <2> HIDE DEF n
  <2>2. QED
    BY <2>1
<1>2. f[k + 1] = Step(c, m, f[k], k + 1)
  BY <1>1 DEF Links
<1>3. v = Walk(n, k + 1, w[k], name)
  BY <1>1 DEF Walks
<1>4. Pair(f[k]) /\ Pair(f[k + 1])
  BY <1>2, StepPairs DEF ChainUpto
<1>5. k = 0 => f[k].space = p.space /\ w[k].post = p.space
  <2>1. SUFFICES ASSUME k = 0 PROVE f[0].space = p.space /\ w[0].post = p.space
    OBVIOUS
  <2>2. p = Profile(c.chain[1])
    BY <2>1 DEF At
  <2>3. f[0] = NoneYet(c) /\ w[0] = NotWalked(c.chain)
    BY DEF Links, Walks
  <2> HIDE DEF p
  <2>4. QED
    BY <2>2, <2>3, LoopsStart
<1>6. f[k + 1] = StepOf(c, m, f[k], k + 1, p)
  BY <1>2 DEF Step, At
<1>7. SUFFICES ASSUME IsMade(f[k + 1].r)
               PROVE  \E e : /\ IsList(e) /\ Holds(f[k + 1].r, e) /\ Placed(e, k + 1)
                             /\ FitsUpto(c, k + 1) => Meets(c, e, f, w, k + 1)
  BY <1>4 DEF ChainUpto
<1>8. WellMade(p)
  BY <1>1 DEF Chained
<1>9. p = Profile(name)
  BY DEF At
<1> HIDE DEF n, p, name, in, out, v, x
<1>10. IsMade(f[k].r)
  <2>1. f[k].r.how # "made" => f[k + 1] = f[k]
    BY <1>6 DEF StepOf
  <2>2. QED
    BY <1>7, <2>1 DEF IsMade
<1>11. PICK e : IsList(e) /\ Holds(f[k].r, e) /\ Placed(e, k) /\ (FitsUpto(c, k) => Meets(c, e, f, w, k))
  BY <1>10 DEF ChainUpto
<1>12. /\ ColorSpaceIsCompatible(in, f[k].space)
       /\ f[k + 1].space = out
       /\ \E h : /\ IsList(h) /\ Holds(f[k + 1].r, h) /\ Placed(h, k + 1)
                 /\ \A y : Fits(c, p, k + 1) /\ Arrives(e, y, p, k, f[k].space)
                             => Through(h, y) = Gives(c, p, k + 1, f[k].space)
  <2> DEFINE s == f[k]
             t == f[k + 1]
  <2>1. Joinable(s, e, p, k)
    BY <1>4, <1>5, <1>11 DEF Joinable
  <2>2. t = StepOf(c, m, s, k + 1, p) /\ IsMade(t.r)
    BY <1>6, <1>7
  <2> HIDE DEF s, t
  <2>3. Stepped(c, p, k, s, e, t)
    BY <1>1, <1>8, <2>1, <2>2, StepHolds
  <2>4. QED
    BY <2>3 DEF Stepped, s, t, in, out
<1>13. PICK h : /\ IsList(h) /\ Holds(f[k + 1].r, h) /\ Placed(h, k + 1)
                /\ \A y : Fits(c, p, k + 1) /\ Arrives(e, y, p, k, f[k].space)
                            => Through(h, y) = Gives(c, p, k + 1, f[k].space)
  BY <1>12
<1>14. ASSUME FitsUpto(c, k + 1) PROVE Meets(c, h, f, w, k + 1)
  <2>1. Fits(c, p, k + 1) /\ FitsUpto(c, k)
    BY <1>1, <1>14 DEF FitsUpto, p
  <2>2. Meets(c, e, f, w, k)
    BY <1>11, <2>1
  <2>3. w[k].post = f[k].space /\ (k = 0 => e = <<>>)
        /\ (k # 0 => Through(e, Encoded(w[k].entry, "v4")) = Encoded(w[k].post, "v4"))
    BY <2>2 DEF Meets
  <2>4. CASE p.class = "named"
    <3>1. k = 0 /\ e = <<>>
      BY <1>1, <2>1, <2>3, <2>4 DEF Fits
    <3>2. v.entry = "1CLR" /\ v.post = IF n > 1 THEN p.pcs ELSE p.space
      BY <1>3, <1>9, <2>4, <3>1 DEF Walk
    <3>3. x = "1CLR"
      BY <3>2, EncodedIs DEF x
    <3>4. Arrives(e, x, p, k, f[k].space)
      BY <2>4, <3>1, <3>3, ThroughNone DEF Arrives
    <3>5. out = p.pcs
      BY <2>4, <3>1 DEF out, SpaceOut, Forward, UsedAsInput, IsLink
    <3>6. Gives(c, p, k + 1, f[k].space) = Encoded(v.post, "v4")
      <4>1. n > 1 <=> n # 1
        BY <1>1
      <4>2. Gives(c, p, k + 1, f[k].space) = IF n = 1 THEN Encoded(p.space, "v4") ELSE Encoded(out, "v4")
        BY <2>4 DEF Gives, out, n
      <4>3. QED
        BY <3>2, <3>5, <4>1, <4>2
    <3>7. Through(h, x) = Encoded(v.post, "v4")
      BY <1>13, <2>1, <3>4, <3>6
    <3>8. k + 1 < n => v.post = f[k + 1].space
      BY <1>12, <3>1, <3>2, <3>5
    <3>9. QED
      BY <1>1, <3>7, <3>8 DEF Meets, v, x, n
  <2>5. CASE p.class # "named"
    <3> DEFINE s == w[k]
    <3>1. s.post = f[k].space
      BY <2>3
    <3> HIDE DEF s
    <3>2. ColorSpaceIsCompatible(SpaceIn(p, k + 1, s.post), s.post) /\ (k + 1 = 1 => s.post = p.space)
      BY <1>1, <1>5, <1>12, <3>1 DEF in, s
    <3>3. /\ Walk(n, k + 1, s, name).post = SpaceOut(p, k + 1, s.post)
          /\ k + 1 = 1 => Walk(n, k + 1, s, name).entry = SpaceIn(p, k + 1, s.post)
      BY <1>9, <2>1, <2>5, <3>2, WalkAgrees
    <3>4. v.post = out /\ (k = 0 => v.entry = in)
      BY <1>3, <3>1, <3>3 DEF s, in, out
    <3>5. Arrives(e, x, p, k, f[k].space)
      <4>1. CASE k = 0
        <5>1. in = p.space
          BY <1>5, <4>1 DEF in, SpaceIn, Forward, UsedAsInput
        <5>2. x = Encoded(f[k].space, "v4")
          BY <1>5, <3>4, <4>1, <5>1 DEF x
        <5>3. Through(e, x) = x
          BY <2>3, <4>1, ThroughNone
        <5>4. QED
          BY <2>5, <5>2, <5>3 DEF Arrives
      <4>2. CASE k # 0
        <5>1. v.entry = w[k].entry
          BY <1>1, <1>3, <4>2 DEF Walk
        <5>2. QED
          BY <2>3, <2>5, <4>2, <5>1 DEF Arrives, x
      <4>3. QED
        BY <4>1, <4>2
    <3>6. Gives(c, p, k + 1, f[k].space) = Encoded(v.post, "v4")
      BY <2>5, <3>4 DEF Gives, out
    <3>7. Through(h, x) = Encoded(v.post, "v4")
      BY <1>13, <2>1, <3>5, <3>6
    <3>8. QED
      BY <1>1, <1>12, <3>4, <3>7 DEF Meets, v, x
  <2>6. QED
    BY <2>4, <2>5
<1>15. QED
  BY <1>13, <1>14

\* and so holds at their end.
LEMMA ChainEnds ==
  ASSUME NEW c, Chained(c), NEW m
  PROVE  LET r == DefaultICCintents(c, m)
             s == GetXFormColorSpaces(c.chain)
         IN IsMade(r) => \E e : /\ IsList(e) /\ Holds(r, e) /\ Placed(e, Len(c.chain))
                                /\ FitsUpto(c, Len(c.chain)) =>
                                     Through(e, Encoded(s.entry, "v4")) = Encoded(s.exit, "v4")
<1> DEFINE n == Len(c.chain)
           r == DefaultICCintents(c, m)
           s == GetXFormColorSpaces(c.chain)
<1>0. n \in Nat \ {0}
  BY DEF Chained
<1>1. PICK f : Links(f, c, m) /\ r = f[n].r
  BY <1>0, DefaultICCintentsIs
<1>2. PICK w : Walks(w, c.chain) /\ s = [entry |-> w[n].entry, exit |-> w[n].post]
  BY <1>0, GetXFormColorSpacesIs
<1> DEFINE Kept == {k \in 0 .. n : ChainUpto(c, f, w, k)}
<1>3. 0 \in Kept
  BY <1>0, <1>1, <1>2, ChainStarts
<1>4. ASSUME NEW k \in 0 .. n, k \in Kept, k < n PROVE k + 1 \in Kept
  BY <1>0, <1>1, <1>2, <1>4, ChainGoesOn
<1> HIDE DEF Kept, r, s
<1>5. 0 .. n \subseteq Kept
  BY <1>0, <1>3, <1>4, Induction
<1>6. ChainUpto(c, f, w, n) /\ n # 0
  BY <1>0, <1>5 DEF Kept
<1>7. ASSUME IsMade(r)
      PROVE  \E e : /\ IsList(e) /\ Holds(r, e) /\ Placed(e, n)
                    /\ FitsUpto(c, n) => Through(e, Encoded(s.entry, "v4")) = Encoded(s.exit, "v4")
  <2>1. PICK e : IsList(e) /\ Holds(r, e) /\ Placed(e, n) /\ (FitsUpto(c, n) => Meets(c, e, f, w, n))
    BY <1>1, <1>6, <1>7 DEF ChainUpto
  <2>2. s.entry = w[n].entry /\ s.exit = w[n].post
    BY <1>2
  <2>3. FitsUpto(c, n) => Through(e, Encoded(s.entry, "v4")) = Encoded(s.exit, "v4")
    BY <1>6, <2>1, <2>2 DEF Meets
  <2>4. QED
    BY <2>1, <2>3
<1>8. QED
  BY <1>7 DEF r, s

----------------------------------------------------------------------------
(* What linking gives.                                                     *)

\* A call has a chain, with an intent for each profile, and the rules for black points leave both alone.
LEMMA CallIs ==
  ASSUME NEW c \in Calls
  PROVE  /\ Chained(c) /\ DOMAIN c.chain = 1 .. Len(c.chain) /\ DOMAIN c.intents = 1 .. Len(c.chain)
         /\ 1 \in 1 .. Len(c.chain)
         /\ BPCRules(c).chain = c.chain /\ BPCRules(c).intents = c.intents
         /\ Translated(BPCRules(c)).chain = c.chain
         /\ Translated(BPCRules(c)).intents = [k \in DOMAIN c.intents |-> TranslateNonICCIntents(c.intents[k])]
<1>1. /\ c \in [chain : Seq(Names) \ {<<>>}, intents : Seq(Nat), bpc : Seq(BOOLEAN),
                input : STRING, output : STRING, sixteen : BOOLEAN]
      /\ DOMAIN c.intents = DOMAIN c.chain
  BY LinkingAssumption
<1>2. c.chain \in Seq(Names) /\ c.chain # <<>>
  BY <1>1
<1>3. Len(c.chain) \in Nat /\ DOMAIN c.chain = 1 .. Len(c.chain) /\ \A k \in 1 .. Len(c.chain) : c.chain[k] \in Names
  BY <1>2, LenProperties, ElementOfSeq
<1>4. Len(c.chain) # 0
  BY <1>2, EmptySeq
<1>5. Chained(c)
  BY <1>3, <1>4, LinkingAssumption DEF Chained, At, Profile
<1>6. BPCRules(c).chain = c.chain /\ BPCRules(c).intents = c.intents
      /\ Translated(BPCRules(c)).chain = c.chain
      /\ Translated(BPCRules(c)).intents = [k \in DOMAIN c.intents |-> TranslateNonICCIntents(c.intents[k])]
  <2> DEFINE u == [k \in DOMAIN c.bpc |->
                     CASE c.intents[k] = Absolute -> FALSE
                       [] c.intents[k] \in {Perceptual, Saturation} /\ Profile(c.chain[k]).v4 -> TRUE
                       [] OTHER -> c.bpc[k]]
             b == BPCRules(c)
  <2>1. b = [c EXCEPT !.bpc = u]
    BY DEF BPCRules
  <2> HIDE DEF u
  <2>2. \E x1, x2, x3, x4, x5, x6 :
          c = [chain |-> x1, intents |-> x2, bpc |-> x3, input |-> x4, output |-> x5, sixteen |-> x6]
    BY <1>1
  <2>3. b.chain = c.chain /\ b.intents = c.intents
    BY <2>1, <2>2
  <2>4. \E x1, x2, x3, x4, x5, x6 :
          b = [chain |-> x1, intents |-> x2, bpc |-> x3, input |-> x4, output |-> x5, sixteen |-> x6]
    BY <2>1, <2>2
  <2> HIDE DEF b
  <2> DEFINE w == [k \in DOMAIN b.intents |-> TranslateNonICCIntents(b.intents[k])]
  <2>5. Translated(b) = [b EXCEPT !.intents = w]
    BY DEF Translated
  <2> HIDE DEF w
  <2>6. Translated(b).chain = b.chain /\ Translated(b).intents = w
    BY <2>4, <2>5
  <2>7. QED
    BY <2>3, <2>6 DEF w, b
<1>7. 1 \in 1 .. Len(c.chain)
  BY <1>3, <1>4
<1>8. QED
  BY <1>1, <1>3, <1>5, <1>6, <1>7

\* A pipeline that linking makes is what DefaultICCintents makes of the chain, with
\* the intents as they are or translated.
Same(d, c) ==
  /\ d.chain = c.chain
  /\ \/ d.intents = c.intents
     \/ d.intents = [k \in DOMAIN c.intents |-> TranslateNonICCIntents(c.intents[k])]

\* The handlers of the intents that keep black either leave it to the ICC handler or fail, or panic.
LEMMA LinkProfilesIs ==
  ASSUME NEW c \in Calls, c.intents[1] \notin KPlaneIntents, IsMade(LinkProfiles(BPCRules(c)))
  PROVE  \E d, m : Same(d, c) /\ LinkProfiles(BPCRules(c)) = DefaultICCintents(d, m)
<1> DEFINE b == BPCRules(c)
<1>1. b.chain = c.chain /\ b.intents = c.intents /\ Same(Translated(b), c)
  BY CallIs DEF Same
<1>2. Same(b, c)
  BY <1>1 DEF Same
<1> HIDE DEF b
<1>3. \A d : \E m : ICC(d) = DefaultICCintents(d, m)
  BY DEF ICC
<1>4. CASE c.intents[1] \in ICCIntents
  <2>1. c.intents[1] \notin KOnlyIntents
    BY <1>4 DEF ICCIntents, KOnlyIntents
  <2>2. LinkProfiles(b) = ICC(b)
    BY <1>1, <1>4, <2>1 DEF LinkProfiles, Handled, ICCPart
  <2>3. QED
    BY <1>2, <1>3, <2>2 DEF b
<1>5. CASE c.intents[1] \notin ICCIntents /\ c.intents[1] \in KOnlyIntents
  <2>1. LinkProfiles(b) = BlackPreservingKOnlyIntents(b, ICC(ICCPart(b)))
    BY <1>1, <1>5 DEF LinkProfiles, Handled
  <2>2. CASE ~PreservesBlack(b)
    <3>1. LinkProfiles(b) = ICC(Translated(b))
      BY <1>1, <1>5, <2>1, <2>2 DEF BlackPreservingKOnlyIntents, ICCPart
    <3>2. QED
      BY <1>1, <1>3, <3>1 DEF b
  <2>3. CASE PreservesBlack(b)
    <3>1. ASSUME ICC(ICCPart(b)).how # "made" PROVE FALSE
      <4>1. LinkProfiles(b) = ICC(ICCPart(b))
        BY <2>1, <3>1 DEF BlackPreservingKOnlyIntents
      <4>2. QED
        BY <3>1, <4>1 DEF IsMade, b
    <3>2. LinkProfiles(b) = BuildKToneCurve(Preserved(b))
      BY <2>1, <2>3, <3>1 DEF BlackPreservingKOnlyIntents
    <3>3. BuildKToneCurve(Preserved(b)) \in {NilLut, Panics}
      BY DEF BuildKToneCurve, ComputeKToLstar
    <3>4. QED
      BY <3>2, <3>3, Results DEF b
  <2>4. QED
    BY <2>2, <2>3
<1>6. CASE c.intents[1] \notin ICCIntents /\ c.intents[1] \notin KOnlyIntents
  <2>1. LinkProfiles(b) = NilLut
    BY <1>1, <1>6 DEF LinkProfiles, Handled
  <2>2. QED
    BY <2>1, Results DEF b
<1>7. QED
  BY <1>4, <1>5, <1>6

\* The profiles of a plain call break no encoding.
LEMMA PlainFits ==
  ASSUME NEW c \in Calls, Plain(c), NEW d, Same(d, c)
  PROVE  FitsUpto(d, Len(d.chain))
<1> SUFFICES ASSUME NEW j \in 1 .. Len(c.chain) PROVE Fits(d, At(d, j), j)
  BY DEF FitsUpto, Same
<1> DEFINE p == Profile(c.chain[j])
           i == c.intents[j]
<1>1. p = At(d, j)
  BY DEF At, Same
<1>2. j \in DOMAIN c.chain /\ j \in DOMAIN c.intents
  BY CallIs
<1>3. /\ ~SpaceIsOtherPCS(p) /\ ~HeaderIsWrong(p)
      /\ ~BareFloat(p, TranslateNonICCIntents(i))
      /\ p.class = "named" => j = 1
  BY <1>2 DEF Plain
<1>4. d.intents[j] = i \/ d.intents[j] = TranslateNonICCIntents(i)
  BY <1>2 DEF Same
<1> HIDE DEF p
<1>5. ~BareFloat(p, i)
  <2>1. CASE i \in ICCIntents
    <3>1. TranslateNonICCIntents(i) = i
      BY <2>1 DEF TranslateNonICCIntents, ICCIntents, KOnlyIntents, KPlaneIntents
    <3>2. QED
      BY <1>3, <3>1
  <2>2. CASE i \notin ICCIntents
    BY <2>2 DEF BareFloat
  <2>3. QED
    BY <2>1, <2>2
<1>6. ~BareFloat(p, d.intents[j])
  BY <1>3, <1>4, <1>5
<1>7. QED
  BY <1>1, <1>3, <1>6 DEF Fits

\* The stages of a pipeline that linking makes.
LEMMA LinkedIs ==
  ASSUME NEW c \in Calls, c.intents[1] \notin KPlaneIntents, NEW r, r = LinkProfiles(BPCRules(c)), IsMade(r),
         NEW s, s = GetXFormColorSpaces(c.chain)
  PROVE  \E e : /\ IsList(e) /\ r.lut.elements = e /\ Placed(e, Len(c.chain))
                /\ Plain(c) => Through(e, Encoded(s.entry, "v4")) = Encoded(s.exit, "v4")
<1>1. PICK d, m : Same(d, c) /\ r = DefaultICCintents(d, m)
  BY LinkProfilesIs
<1>2. Chained(c) /\ d.chain = c.chain
  BY <1>1, CallIs DEF Same
<1>3. Chained(d)
  BY <1>2 DEF Chained, At
<1>4. PICK e : /\ IsList(e) /\ Holds(r, e) /\ Placed(e, Len(d.chain))
               /\ FitsUpto(d, Len(d.chain)) => Through(e, Encoded(s.entry, "v4")) = Encoded(s.exit, "v4")
  BY <1>1, <1>2, <1>3, ChainEnds
<1>5. r.lut.elements = e
  BY <1>4, MadeFields DEF Holds
<1>6. Plain(c) => FitsUpto(d, Len(d.chain))
  BY <1>1, PlainFits
<1>7. QED
  BY <1>2, <1>4, <1>5, <1>6

----------------------------------------------------------------------------
(* The creation of a transform.                                            *)

\* A pipeline that is returned is the one that the chain was linked to.
Linked == result = LinkProfiles(BPCRules(call))
\* The spaces are those that were found for the call.
SpacesFound == spaces = GetXFormColorSpaces(call.chain)
\* The inductive invariant: a pipeline that is there is the one of the call, and so are the spaces.
LinkingInv ==
  /\ pc \in {"idle", "spaces", "gamma", "ramp", "link", "finish", "return"}
  /\ pc # "idle" => call \in Calls
  /\ pc \in {"idle", "spaces"} => ~IsMade(result)
  /\ pc \in {"gamma", "ramp", "link", "finish", "return"} => SpacesFound
  /\ pc = "finish" => Linked
  /\ pc = "return" /\ IsMade(result) => Linked

\* It holds at the start,
LEMMA LinkingInit == Init => LinkingInv
BY Results DEF Init, LinkingInv

\* and each step keeps it.
LEMMA LinkingNext == LinkingInv /\ [Next]_vars => LinkingInv'
<1> SUFFICES ASSUME LinkingInv, [Next]_vars PROVE LinkingInv'
  OBVIOUS
<1>1. ASSUME NEW c \in Calls, CreateTransform(c) PROVE LinkingInv'
  BY <1>1, Results DEF CreateTransform, LinkingInv
<1>2. CASE FindSpaces
  <2>1. pc = "spaces" /\ call' = call /\ result' = result /\ spaces' = GetXFormColorSpaces(call.chain)
        /\ pc' \in {"return", "gamma", "link"}
    BY <1>2 DEF FindSpaces
  <2>2. SpacesFound'
    BY <2>1 DEF SpacesFound
  <2>3. QED
    BY <2>1, <2>2 DEF LinkingInv
<1>3. CASE DetectRGBProfileGamma
  <2>1. /\ pc = "gamma" /\ call' = call /\ spaces' = spaces
        /\ \/ pc' \in {"link", "ramp"} /\ result' = result
           \/ pc' = "return" /\ result' = Panics
    BY <1>3 DEF DetectRGBProfileGamma
  <2>2. SpacesFound'
    BY <2>1 DEF SpacesFound, LinkingInv
  <2>3. QED
    BY <2>1, <2>2, Results DEF LinkingInv
<1>4. CASE FillRamp
  <2>1. pc = "ramp" /\ call' = call /\ spaces' = spaces /\ result' = result /\ pc' \in {"ramp", "link"}
    BY <1>4 DEF FillRamp
  <2>2. SpacesFound'
    BY <2>1 DEF SpacesFound, LinkingInv
  <2>3. QED
    BY <2>1, <2>2 DEF LinkingInv
<1>5. CASE Link
  <2>1. /\ pc = "link" /\ call' = call /\ spaces' = spaces /\ pc' \in {"finish", "return"}
        /\ result' = LinkProfiles(BPCRules(call))
    BY <1>5 DEF Link
  <2>2. SpacesFound' /\ Linked'
    BY <2>1 DEF SpacesFound, Linked, LinkingInv
  <2>3. QED
    BY <2>1, <2>2 DEF LinkingInv
<1>6. CASE Finish
  <2>1. /\ pc = "finish" /\ call' = call /\ spaces' = spaces /\ pc' = "return"
        /\ result' = Allocated(call, spaces, result)
    BY <1>6 DEF Finish
  <2>2. SpacesFound'
    BY <2>1 DEF SpacesFound, LinkingInv
  <2>3. result' = result \/ result' \in {NilLut, Panics}
    BY <2>1 DEF Allocated
  <2>4. IsMade(result') => Linked'
    BY <2>1, <2>3, Results DEF LinkingInv, Linked
  <2>5. QED
    BY <2>1, <2>2, <2>4 DEF LinkingInv, IsMade
<1>7. CASE Return
  BY <1>7, Results DEF Return, LinkingInv
<1>8. CASE UNCHANGED vars
  BY <1>8 DEF vars, LinkingInv, SpacesFound, Linked, IsMade
<1>9. QED
  BY <1>1, <1>2, <1>3, <1>4, <1>5, <1>6, <1>7, <1>8 DEF Next

\* Whatever the profiles and the chains: what a creation has linked and found is that of
\* its own call (cmsCreateExtendedTransform).
THEOREM LinkingInvAlways == Spec => []LinkingInv
BY LinkingInit, LinkingNext, PTL DEF Spec

\* The stages of a transform that is returned.
LEMMA ReturnedIs ==
  ASSUME LinkingInv, Returned("made"), call.intents[1] \notin KPlaneIntents
  PROVE  /\ call \in Calls
         /\ \E e : /\ IsList(e) /\ result.lut.elements = e /\ Placed(e, Len(call.chain))
                   /\ Plain(call) => Through(e, Encoded(spaces.entry, "v4")) = Encoded(spaces.exit, "v4")
<1>1. call \in Calls /\ IsMade(result) /\ SpacesFound /\ Linked
  BY DEF LinkingInv, Returned, IsMade
<1>2. QED
  BY <1>1, LinkedIs DEF SpacesFound, Linked

\* Whatever the profiles and the chains: in a transform that is returned every stage
\* takes the encoding that the one before it gives (the readers of cmsio1.go,
\* AddConversion), unless a profile is one of those that break it.
THEOREM StagesMeetAlways == Spec => []StagesMeet
<1>1. LinkingInv => StagesMeet
  <2> SUFFICES ASSUME LinkingInv, Returned("made"), Plain(call)
               PROVE  Carries(result.lut, Encoded(spaces.entry, "v4"), Encoded(spaces.exit, "v4"))
    BY DEF StagesMeet
  <2>1. call.intents[1] \notin KPlaneIntents
    BY DEF Plain
  <2>2. QED
    BY <2>1, ReturnedIs DEF Carries
<1>2. QED
  BY <1>1, LinkingInvAlways, PTL

\* A set of at most one element.
LEMMA AtMostOne ==
  ASSUME NEW S, \A x, y \in S : x = y
  PROVE  Cardinality(S) <= 1
<1>1. CASE S = {}
  BY <1>1, FS_EmptySet
<1>2. CASE S # {}
  <2>1. PICK x : x \in S
    BY <1>2
  <2>2. S = {x}
    BY <2>1
  <2>3. QED
    BY <2>2, FS_Singleton
<1>3. QED
  BY <1>1, <1>2

\* Whatever the profiles and the chains: each profile has its part in the pipeline,
\* once and in the order of the chain (DefaultICCintents, cmsPipelineCatSteal).
THEOREM EachProfileOnceAlways == Spec => []EachProfileOnce
<1>1. LinkingInv => EachProfileOnce
  <2> DEFINE n == Len(call.chain)
             of == [j \in DOMAIN result.lut.elements |-> result.lut.elements[j].data.of]
             OfProfile(k) == {j \in DOMAIN of : of[j] = k /\ result.lut.elements[j].type \in Tables}
  <2>1. SUFFICES ASSUME LinkingInv, Returned("made"), call.intents[1] \notin KPlaneIntents
                 PROVE  /\ {of[j] : j \in DOMAIN of} = DOMAIN call.chain
                        /\ \A j \in DOMAIN of : j > 1 => of[j - 1] <= of[j]
                        /\ \A k \in DOMAIN call.chain : Cardinality(OfProfile(k)) <= 1
    BY DEF EachProfileOnce
  <2>2. PICK e : IsList(e) /\ result.lut.elements = e /\ Placed(e, n)
    BY <2>1, ReturnedIs
  <2>3. DOMAIN e = 1 .. Len(e) /\ Len(e) \in Nat
    BY <2>2, ListFacts
  <2>4. DOMAIN of = 1 .. Len(e) /\ \A j \in 1 .. Len(e) : of[j] = Of(e, j)
    BY <2>2, <2>3 DEF Of
  <2>5. DOMAIN call.chain = 1 .. n
    BY <2>1, ReturnedIs, CallIs
  <2>6. \A k : OfProfile(k) = {j \in 1 .. Len(e) : Of(e, j) = k /\ IsTable(e[j])}
    BY <2>2, <2>4 DEF IsTable
  <2> HIDE DEF of, OfProfile
  <2>7. {of[j] : j \in DOMAIN of} = DOMAIN call.chain
    BY <2>2, <2>4, <2>5 DEF Placed
  <2>8. ASSUME NEW j \in DOMAIN of, j > 1 PROVE of[j - 1] <= of[j]
    <3>1. j \in 1 .. Len(e) /\ j - 1 \in 1 .. Len(e)
      BY <2>3, <2>4, <2>8
    <3>2. Of(e, j - 1) <= Of(e, j)
      BY <2>2, <2>8, <3>1 DEF Placed
    <3>3. QED
      BY <2>4, <3>1, <3>2
  <2>9. ASSUME NEW k \in DOMAIN call.chain PROVE Cardinality(OfProfile(k)) <= 1
    <3>1. \A i, j \in OfProfile(k) : i = j
      BY <2>2, <2>6 DEF Placed
    <3>2. QED
      BY <3>1, AtMostOne
  <2>10. QED
    BY <2>7, <2>8, <2>9
<1>2. QED
  BY <1>1, LinkingInvAlways, PTL

----------------------------------------------------------------------------
(* How many channels the stages take and give.                             *)

\* A stage that takes i channels and gives o, and can be inserted.
HasChannels(s) == {"in", "out"} \subseteq DOMAIN s
Sized(s, i, o) == s # NoStage /\ HasChannels(s) /\ s.in = i /\ s.out = o
Width(e, k) == e[k].out
\* The stages e take i channels and give o, each taking those of the one before.
Joins(e, i, o) ==
  /\ IsList(e)
  /\ \A k \in 1 .. Len(e) : e[k].in = (IF k = 1 THEN i ELSE Width(e, k - 1)) /\ HasChannels(e[k])
  /\ o = IF Len(e) = 0 THEN i ELSE Width(e, Len(e))

\* No stage.
LEMMA JoinsNone == \A i : Joins(<<>>, i, i)
BY EmptyList DEF Joins

\* One stage.
LEMMA JoinsOne ==
  ASSUME NEW s, NEW i, NEW o, Sized(s, i, o)
  PROVE  Joins(<<s>>, i, o)
BY OneList DEF Joins, Width, Sized

\* One list after another whose channels are those it takes.
LEMMA JoinsBoth ==
  ASSUME NEW e, NEW f, NEW i, NEW m, NEW o, Joins(e, i, m), Joins(f, m, o)
  PROVE  Joins(e \o f, i, o)
<1> DEFINE d == e \o f
<1>1. /\ IsList(e) /\ IsList(f) /\ Len(e) \in Nat /\ Len(f) \in Nat
  BY ListFacts DEF Joins
<1>2. /\ IsList(d) /\ Len(d) = Len(e) + Len(f)
      /\ \A k \in 1 .. Len(e) : d[k] = e[k]
      /\ \A k \in 1 .. Len(f) : d[Len(e) + k] = f[k]
  BY <1>1, ConcatLists
<1>3. ASSUME NEW k \in 1 .. Len(d)
      PROVE  \/ k \in 1 .. Len(e) /\ d[k] = e[k]
             \/ k - Len(e) \in 1 .. Len(f) /\ d[k] = f[k - Len(e)] /\ k > Len(e)
  BY <1>1, PlacesOfBoth
<1> HIDE DEF d
<1>4. ASSUME NEW k \in 1 .. Len(d)
      PROVE  d[k].in = (IF k = 1 THEN i ELSE Width(d, k - 1)) /\ HasChannels(d[k])
  <2>1. CASE k \in 1 .. Len(e) /\ d[k] = e[k]
    <3>1. e[k].in = (IF k = 1 THEN i ELSE Width(e, k - 1)) /\ HasChannels(e[k])
      BY <2>1 DEF Joins
    <3>2. k # 1 => k - 1 \in 1 .. Len(e)
      BY <1>1, <2>1
    <3>3. k # 1 => d[k - 1] = e[k - 1]
      BY <1>2, <3>2
    <3>4. QED
      BY <2>1, <3>1, <3>3 DEF Width
  <2>2. CASE k - Len(e) \in 1 .. Len(f) /\ d[k] = f[k - Len(e)] /\ k > Len(e)
    <3> DEFINE j == k - Len(e)
    <3>1. j \in 1 .. Len(f) /\ d[k] = f[j] /\ k = Len(e) + j /\ j \in Nat
      BY <1>1, <2>2
    <3> HIDE DEF j
    <3>2. f[j].in = (IF j = 1 THEN m ELSE Width(f, j - 1)) /\ HasChannels(f[j])
      BY <3>1 DEF Joins
    <3>3. CASE j # 1
      <4>1. j - 1 \in 1 .. Len(f) /\ k - 1 = Len(e) + (j - 1) /\ k # 1
        BY <1>1, <3>1, <3>3
      <4>2. d[k - 1] = f[j - 1]
        BY <1>2, <4>1
      <4>3. QED
        BY <3>1, <3>2, <3>3, <4>1, <4>2 DEF Width
    <3>4. CASE j = 1 /\ Len(e) = 0
      <4>1. k = 1 /\ m = i
        BY <3>1, <3>4 DEF Joins
      <4>2. QED
        BY <3>1, <3>2, <3>4, <4>1
    <3>5. CASE j = 1 /\ Len(e) # 0
      <4>1. k # 1 /\ k - 1 = Len(e) /\ Len(e) \in 1 .. Len(e) /\ m = Width(e, Len(e))
        BY <1>1, <3>1, <3>5 DEF Joins
      <4>2. d[k - 1] = e[Len(e)]
        BY <1>2, <4>1
      <4>3. QED
        BY <3>1, <3>2, <3>5, <4>1, <4>2 DEF Width
    <3>6. QED
      BY <3>3, <3>4, <3>5
  <2>3. QED
    BY <1>3, <2>1, <2>2
<1>5. o = IF Len(d) = 0 THEN i ELSE Width(d, Len(d))
  <2>1. CASE Len(f) # 0
    <3>1. Len(f) \in 1 .. Len(f) /\ Len(d) # 0 /\ o = Width(f, Len(f))
      BY <1>1, <1>2, <2>1 DEF Joins
    <3>2. d[Len(d)] = f[Len(f)]
      BY <1>2, <3>1
    <3>3. QED
      BY <3>1, <3>2 DEF Width
  <2>2. CASE Len(f) = 0 /\ Len(e) # 0
    <3>1. Len(e) \in 1 .. Len(e) /\ Len(d) = Len(e) /\ o = m /\ m = Width(e, Len(e))
      BY <1>1, <1>2, <2>2 DEF Joins
    <3>2. d[Len(d)] = e[Len(e)]
      BY <1>2, <3>1
    <3>3. QED
      BY <2>2, <3>1, <3>2 DEF Width
  <2>3. CASE Len(f) = 0 /\ Len(e) = 0
    BY <1>2, <2>3 DEF Joins
  <2>4. QED
    BY <2>1, <2>2, <2>3
<1>6. QED
  BY <1>2, <1>4, <1>5 DEF Joins, d

\* Then no two stages are refused (BlessLUT),
LEMMA JoinsIsConsistent ==
  ASSUME NEW e, NEW i, NEW o, Joins(e, i, o)
  PROVE  Consistent(e)
<1>1. Len(e) \in Nat
  BY ListFacts DEF Joins
<1>2. ASSUME NEW k \in 1 .. (Len(e) - 1)
      PROVE  e[k + 1].in = e[k].out
  <2>1. k + 1 \in 1 .. Len(e) /\ k + 1 # 1 /\ (k + 1) - 1 = k
    BY <1>1
  <2>2. e[k + 1].in = Width(e, (k + 1) - 1)
    BY <2>1 DEF Joins
  <2>3. QED
    BY <2>1, <2>2 DEF Width
<1>3. QED
  BY <1>2 DEF Consistent

\* and the pipeline has the channels of its ends.
LEMMA EndsAre ==
  ASSUME NEW e, NEW i, NEW o, Joins(e, i, o), e # <<>>
  PROVE  Head(e).in = i /\ Last(e).out = o
<1>1. Len(e) \in Nat /\ IsList(e)
  BY ListFacts DEF Joins
<1>2. PICK S : e \in Seq(S)
  BY <1>1 DEF IsList
<1>3. Len(e) # 0
  BY <1>2, EmptySeq
<1>4. Head(e) = e[1] /\ 1 \in 1 .. Len(e) /\ Last(e) = e[Len(e)]
  BY <1>1, <1>2, <1>3 DEF Last
<1>5. e[1].in = i /\ o = e[Len(e)].out
  BY <1>3, <1>4 DEF Joins, Width
<1>6. QED
  BY <1>4, <1>5

\* r was made, with stages that take i channels and give o, and it says so itself
\* unless it has none.
Yields(r, i, o) ==
  \E e, a, b, y : MadeOf(r, a, b, e, y) /\ Joins(e, i, o) /\ (e # <<>> => a = i /\ b = o)

\* Such a result was made.
LEMMA YieldingIsMade ==
  ASSUME NEW r, NEW i, NEW o, Yields(r, i, o)
  PROVE  IsMade(r)
BY MadeFields DEF Yields

\* What is blessed has the channels of its stages.
LEMMA InsertedYields ==
  ASSUME NEW a, NEW b, NEW e, NEW y, NEW i, NEW o, Joins(e, i, o)
  PROVE  Yields(Inserted(Done(AnyLut(a, b, e, y))), i, o)
<1>0. AnyLut(a, b, e, y).elements = e
  BY LutFields
<1>1. PICK c, d : Blessed(AnyLut(a, b, e, y)) = AnyLut(c, d, e, y) /\ (e # <<>> => c = i /\ d = o)
  <2>1. CASE e = <<>>
    BY <1>0, <2>1 DEF Blessed
  <2>2. CASE e # <<>>
    <3> DEFINE h == Head(e).in
               l == Last(e).out
    <3>1. Blessed(AnyLut(a, b, e, y)) = [AnyLut(a, b, e, y) EXCEPT !.in = h, !.out = l]
      BY <1>0, <2>2 DEF Blessed
    <3>2. h = i /\ l = o
      BY <2>2, EndsAre
    <3> HIDE DEF h, l
    <3>3. [AnyLut(a, b, e, y) EXCEPT !.in = h, !.out = l] = AnyLut(h, l, e, y)
      <4>1. [AnyLut(a, b, e, y) EXCEPT !.in = h] = AnyLut(h, b, e, y)
        BY LutFields
      <4>2. [AnyLut(h, b, e, y) EXCEPT !.out = l] = AnyLut(h, l, e, y)
        BY LutFields
      <4>3. QED
        BY <4>1, <4>2
    <3>4. QED
      BY <3>1, <3>2, <3>3
  <2>3. QED
    BY <2>1, <2>2
<1>2. Consistent(e)
  BY JoinsIsConsistent
<1> DEFINE g == Done(AnyLut(a, b, e, y))
<1>3. g.ok = Consistent(e) /\ g.p = AnyLut(c, d, e, y)
  BY <1>0, <1>1 DEF Done
<1> HIDE DEF g
<1>4. Inserted(g) = [how |-> "made", lut |-> AnyLut(c, d, e, y)]
  BY <1>2, <1>3 DEF Inserted, Made
<1>5. MadeOf(Inserted(g), c, d, e, y)
  BY <1>4 DEF MadeOf
<1>6. QED
  BY <1>1, <1>5 DEF Yields, g

\* A pipeline without stages fits any channels.
LEMMA AllocYields == \A a, b, i : Yields(Made(PipelineAlloc(a, b)), i, i)
<1> TAKE a, b, i
<1>1. PICK c, d, y : PipelineAlloc(a, b) = AnyLut(c, d, <<>>, y)
  BY DEF PipelineAlloc, NoPipeline, AnyLut, No
<1>2. MadeOf(Made(PipelineAlloc(a, b)), c, d, <<>>, y)
  BY <1>1 DEF Made, MadeOf
<1>3. QED
  BY <1>2, JoinsNone DEF Yields

\* A stage is added at the end,
LEMMA AtEndYields ==
  ASSUME NEW r, NEW i, NEW m, Yields(r, i, m), NEW s, NEW o, Sized(s, m, o)
  PROVE  Yields(AtEnd(r, s), i, o)
<1>1. PICK e, a, b, y : MadeOf(r, a, b, e, y) /\ Joins(e, i, m)
  BY DEF Yields
<1>2. IsMade(r) /\ r.lut = AnyLut(a, b, e, y)
  BY <1>1, MadeFields
<1>3. [AnyLut(a, b, e, y) EXCEPT !.elements = Append(@, s)] = AnyLut(a, b, Append(e, s), y)
  <2>1. AnyLut(a, b, e, y).elements = e
    BY LutFields
  <2> DEFINE d == Append(e, s)
  <2>2. [AnyLut(a, b, e, y) EXCEPT !.elements = Append(@, s)] = [AnyLut(a, b, e, y) EXCEPT !.elements = d]
    BY <2>1
  <2> HIDE DEF d
  <2>3. [AnyLut(a, b, e, y) EXCEPT !.elements = d] = AnyLut(a, b, d, y)
    BY LutFields
  <2>4. QED
    BY <2>2, <2>3 DEF d
<1>4. AtEnd(r, s) = Inserted(Done(AnyLut(a, b, Append(e, s), y)))
  BY <1>2, <1>3 DEF IsMade, AtEnd, InsertAtEnd, Sized
<1>5. Joins(Append(e, s), i, o)
  <2>1. Joins(<<s>>, m, o) /\ IsList(e)
    BY <1>1, JoinsOne DEF Joins
  <2>2. Append(e, s) = e \o <<s>>
    BY <2>1, AppendedIs
  <2>3. QED
    BY <1>1, <2>1, <2>2, JoinsBoth
<1>6. QED
  BY <1>4, <1>5, InsertedYields

\* or at the beginning,
LEMMA AtBeginYields ==
  ASSUME NEW r, NEW m, NEW o, Yields(r, m, o), NEW s, NEW i, Sized(s, i, m)
  PROVE  Yields(AtBegin(r, s), i, o)
<1>1. PICK e, a, b, y : MadeOf(r, a, b, e, y) /\ Joins(e, m, o)
  BY DEF Yields
<1>2. IsMade(r) /\ r.lut = AnyLut(a, b, e, y)
  BY <1>1, MadeFields
<1>3. [AnyLut(a, b, e, y) EXCEPT !.elements = <<s>> \o @] = AnyLut(a, b, <<s>> \o e, y)
  <2>1. AnyLut(a, b, e, y).elements = e
    BY LutFields
  <2> DEFINE d == <<s>> \o e
  <2>2. [AnyLut(a, b, e, y) EXCEPT !.elements = <<s>> \o @] = [AnyLut(a, b, e, y) EXCEPT !.elements = d]
    BY <2>1
  <2> HIDE DEF d
  <2>3. [AnyLut(a, b, e, y) EXCEPT !.elements = d] = AnyLut(a, b, d, y)
    BY LutFields
  <2>4. QED
    BY <2>2, <2>3 DEF d
<1>4. AtBegin(r, s) = Inserted(Done(AnyLut(a, b, <<s>> \o e, y)))
  BY <1>2, <1>3 DEF IsMade, AtBegin, InsertAtBegin, Sized
<1>5. Joins(<<s>> \o e, i, o)
  BY <1>1, JoinsOne, JoinsBoth
<1>6. QED
  BY <1>4, <1>5, InsertedYields

\* or all those of another pipeline (cmsPipelineCatSteal).
LEMMA StealYields ==
  ASSUME NEW r, NEW q, NEW i, NEW m, NEW o, Yields(r, i, m), Yields(q, m, o)
  PROVE  Yields(Steal(r, q), i, o)
<1>1. PICK e, a, b, y : MadeOf(r, a, b, e, y) /\ Joins(e, i, m)
  BY DEF Yields
<1>2. PICK f, c, d, z : MadeOf(q, c, d, f, z) /\ Joins(f, m, o)
  BY DEF Yields
<1>3. IsMade(r) /\ r.lut = AnyLut(a, b, e, y) /\ IsMade(q) /\ q.lut.elements = f
  BY <1>1, <1>2, MadeFields
<1>4. [AnyLut(a, b, e, y) EXCEPT !.elements = @ \o f] = AnyLut(a, b, e \o f, y)
  <2>1. AnyLut(a, b, e, y).elements = e
    BY LutFields
  <2> DEFINE g == e \o f
  <2>2. [AnyLut(a, b, e, y) EXCEPT !.elements = @ \o f] = [AnyLut(a, b, e, y) EXCEPT !.elements = g]
    BY <2>1
  <2> HIDE DEF g
  <2>3. [AnyLut(a, b, e, y) EXCEPT !.elements = g] = AnyLut(a, b, g, y)
    BY LutFields
  <2>4. QED
    BY <2>2, <2>3 DEF g
<1>5. Steal(r, q) = Inserted(Done(AnyLut(a, b, e \o f, y)))
  BY <1>3, <1>4 DEF IsMade, Steal
<1>6. QED
  BY <1>1, <1>2, <1>5, JoinsBoth, InsertedYields

\* A list of length 0.
LEMMA NoStages ==
  ASSUME NEW e, IsList(e), Len(e) = 0
  PROVE  e = <<>>
<1>1. PICK S : e \in Seq(S)
  BY DEF IsList
<1>2. QED
  BY <1>1, EmptySeq

\* Saying which profile the stages are of changes no channel.
LEMMA PlaceYields ==
  ASSUME NEW r, NEW i, NEW o, Yields(r, i, o), NEW k
  PROVE  Yields(Place(r, k), i, o)
<1>1. PICK e, a, b, y : MadeOf(r, a, b, e, y) /\ Joins(e, i, o) /\ (e # <<>> => a = i /\ b = o)
  BY DEF Yields
<1>2. IsMade(r) /\ r.lut = AnyLut(a, b, e, y) /\ IsList(e) /\ Len(e) \in Nat
  BY <1>1, MadeFields, ListFacts DEF Joins
<1> DEFINE g == PlacedList(e, k)
<1>3. IsList(g) /\ Len(g) = Len(e) /\ \A j \in 1 .. Len(e) : g[j] = PlacedAt(e[j], k)
  BY <1>2, PlacedListIs
<1>4. MadeOf(Place(r, k), a, b, g, y)
  <2>1. r = [how |-> "made", lut |-> AnyLut(a, b, e, y)]
    BY <1>1 DEF MadeOf
  <2>2. Place(r, k) = [r EXCEPT !.lut.elements = [j \in DOMAIN @ |-> PlacedAt(r.lut.elements[j], k)]]
    BY <1>2 DEF Place, IsMade
  <2>3. [r EXCEPT !.lut.elements = [j \in DOMAIN @ |-> PlacedAt(r.lut.elements[j], k)]] = [r EXCEPT !.lut = [@ EXCEPT !.elements = g]]
    BY <1>2, LutFields DEF PlacedList
  <2> HIDE DEF g
  <2>4. [r EXCEPT !.lut = [@ EXCEPT !.elements = g]] = [r EXCEPT !.lut = AnyLut(a, b, g, y)]
    BY <1>2, LutFields
  <2>5. [r EXCEPT !.lut = AnyLut(a, b, g, y)] = [how |-> "made", lut |-> AnyLut(a, b, g, y)]
    BY <2>1
  <2>6. QED
    BY <2>2, <2>3, <2>4, <2>5 DEF MadeOf
<1> HIDE DEF g
<1>5. ASSUME NEW j \in 1 .. Len(e)
      PROVE  g[j].in = e[j].in /\ g[j].out = e[j].out /\ HasChannels(g[j])
  <2>1. HasChannels(e[j]) /\ g[j] = PlacedAt(e[j], k)
    BY <1>1, <1>3 DEF Joins
  <2>2. QED
    BY <2>1 DEF PlacedAt, HasChannels
<1>6. Joins(g, i, o)
  <2>1. ASSUME NEW j \in 1 .. Len(g)
        PROVE  g[j].in = (IF j = 1 THEN i ELSE Width(g, j - 1)) /\ HasChannels(g[j])
    <3>1. e[j].in = (IF j = 1 THEN i ELSE Width(e, j - 1)) /\ g[j].in = e[j].in /\ HasChannels(g[j])
      BY <1>1, <1>3, <1>5 DEF Joins
    <3>2. j # 1 => j - 1 \in 1 .. Len(e)
      BY <1>2, <1>3
    <3>3. j # 1 => Width(g, j - 1) = Width(e, j - 1)
      BY <1>5, <3>2 DEF Width
    <3>4. QED
      BY <3>1, <3>3
  <2>2. o = IF Len(g) = 0 THEN i ELSE Width(g, Len(g))
    <3>1. Len(e) # 0 => Len(e) \in 1 .. Len(e)
      BY <1>2
    <3>2. Len(e) # 0 => Width(g, Len(e)) = Width(e, Len(e))
      BY <1>5, <3>1 DEF Width
    <3>3. QED
      BY <1>1, <1>3, <3>2 DEF Joins
  <2>3. QED
    BY <1>3, <2>1, <2>2 DEF Joins
<1>7. g # <<>> => e # <<>>
  BY <1>2, <1>3, EmptyList, NoStages
<1>8. QED
  BY <1>1, <1>4, <1>6, <1>7 DEF Yields

----------------------------------------------------------------------------
(* The readers of a sound profile.                                         *)

\* A stage that is not nil has the channels it is allocated with:
LEMMA ConvertingSized ==
  ASSUME NEW t, t # "none", NEW i, NEW o, NEW x, NEW y
  PROVE  Sized(Converting(t, i, o, x, y), i, o)
<1> DEFINE s == Converting(t, i, o, x, y)
<1>1. s = [type |-> t, implements |-> t, in |-> i, out |-> o, data |-> [from |-> x, to |-> y, of |-> 0]]
  BY DEF Converting, StageAllocPlaceholder
<1> HIDE DEF s
<1>2. s.type = t /\ s.in = i /\ s.out = o /\ HasChannels(s)
  BY <1>1 DEF HasChannels
<1>3. s # NoStage
  BY <1>2 DEF NoStage
<1>4. QED
  BY <1>2, <1>3 DEF Sized, s

\* those of the library.
LEMMA ConversionsSized ==
  /\ Sized(LabV2ToV4, 3, 3) /\ Sized(LabV4ToV2, 3, 3) /\ Sized(Lab2XYZ, 3, 3) /\ Sized(XYZ2Lab, 3, 3)
  /\ \A s : Sized(NormalizeToFloat(s), 3, 3) /\ Sized(NormalizeFromFloat(s), 3, 3)
  /\ \A n, x, y : Sized(Curves(n, x, y), n, n)
  /\ \A m, n, x, y : Sized(Matrix(m, n, x, y), m, n)
BY ConvertingSized DEF LabV2ToV4, LabV4ToV2, Lab2XYZ, XYZ2Lab, NormalizeToFloat, NormalizeFromFloat, Curves, Matrix

\* A stage that keeps the number of channels is added at the end,
LEMMA EndIfYields ==
  ASSUME NEW r, NEW i, NEW o, Yields(r, i, o), NEW c, NEW s, c => Sized(s, o, o)
  PROVE  Yields(EndIf(c, r, s), i, o)
BY AtEndYields DEF EndIf

\* or at the beginning, on a condition.
LEMMA BeginIfYields ==
  ASSUME NEW r, NEW i, NEW o, Yields(r, i, o), NEW c, NEW s, c => Sized(s, i, i)
  PROVE  Yields(BeginIf(c, r, s), i, o)
BY AtBeginYields DEF BeginIf

\* A pipeline of one stage,
LEMMA OneYields ==
  ASSUME NEW s, NEW i, NEW o, Sized(s, i, o), NEW a, NEW b
  PROVE  Yields(OneStage(a, b, s), i, o)
BY AllocYields, AtEndYields DEF OneStage

\* and of two.
LEMMA TwoYields ==
  ASSUME NEW s, NEW t, NEW i, NEW m, NEW o, Sized(s, i, m), Sized(t, m, o), NEW a, NEW b
  PROVE  Yields(TwoStages(a, b, s, t), i, o)
BY OneYields, AtEndYields DEF TwoStages

\* The channels of the spaces that are named.
LEMMA ChannelsAre ==
  /\ \A s \in PCSes : ChannelsOfColorSpace(s) = 3
  /\ ChannelsOfColorSpace("Gray") = 1 /\ ChannelsOfColorSpace("RGB") = 3
BY DEF ChannelsOfColorSpace, PCSes

\* The duplicate of a table's pipeline.
LEMMA TagYields ==
  ASSUME NEW p, NEW tag, tag # "none", p.tags[tag].type # "damaged", NEW from, NEW to
  PROVE  Yields(TagPipeline(p, tag, from, to), p.tags[tag].in, p.tags[tag].out)
<1> DEFINE t == p.tags[tag]
           kind == IF t.type = "lut" THEN "v4" ELSE t.type
           s == IF t.identity THEN Converting(tag, t.in, t.out, "any", "any")
                ELSE Converting(tag, t.in, t.out, Encoded(from, kind), Encoded(to, kind))
<1>1. TagPipeline(p, tag, from, to) = OneStage(t.in, t.out, s)
  BY DEF TagPipeline
<1>2. Sized(s, t.in, t.out)
  <2>1. \A x, y : Sized(Converting(tag, t.in, t.out, x, y), t.in, t.out)
    BY ConvertingSized
  <2> HIDE DEF t, kind
  <2>2. QED
    BY <2>1
<1> HIDE DEF s, t
<1>3. QED
  BY <1>1, <1>2, OneYields DEF t

\* The channels of the spaces a table is between, given the way it goes.
Ends(p, tag) == IF tag \in FromDevice THEN <<p.space, p.pcs>> ELSE <<p.pcs, p.space>>

\* A table of a sound profile, with the stages around it,
LEMMA TableYields ==
  ASSUME NEW p, Sound(p), NEW tag \in DOMAIN p.tags, tag # "none",
         NEW from, NEW to, <<from, to>> = Ends(p, tag),
         NEW a, NEW s, a => from \in PCSes /\ Sized(s, 3, 3), NEW b, NEW u, b => to \in PCSes /\ Sized(u, 3, 3)
  PROVE  Yields(EndIf(b, BeginIf(a, TagPipeline(p, tag, from, to), s), u),
              ChannelsOfColorSpace(from), ChannelsOfColorSpace(to))
<1> DEFINE i == ChannelsOfColorSpace(from)
           o == ChannelsOfColorSpace(to)
<1>1. p.tags[tag].type # "damaged"
  BY DEF Sound
<1>2. p.tags[tag].in = i /\ p.tags[tag].out = o
  <2>1. <<p.tags[tag].in, p.tags[tag].out>> =
          IF tag \in FromDevice THEN <<ChannelsOfColorSpace(p.space), ChannelsOfColorSpace(p.pcs)>>
          ELSE <<ChannelsOfColorSpace(p.pcs), ChannelsOfColorSpace(p.space)>>
    BY DEF Sound, TablesFit
  <2>2. IF tag \in FromDevice THEN from = p.space /\ to = p.pcs ELSE from = p.pcs /\ to = p.space
    BY DEF Ends
  <2>3. QED
    BY <2>1, <2>2
<1>3. (a => i = 3) /\ (b => o = 3)
  BY ChannelsAre
<1> HIDE DEF i, o
<1>4. Yields(TagPipeline(p, tag, from, to), i, o)
  BY <1>1, <1>2, TagYields
<1>5. Yields(BeginIf(a, TagPipeline(p, tag, from, to), s), i, o)
  BY <1>3, <1>4, BeginIfYields
<1>6. Yields(EndIf(b, BeginIf(a, TagPipeline(p, tag, from, to), s), u), i, o)
  BY <1>3, <1>5, EndIfYields
<1>7. QED
  BY <1>6 DEF i, o

\* and one of floats.
LEMMA FloatYields ==
  ASSUME NEW p, Sound(p), NEW tag \in DOMAIN p.tags, tag # "none",
         NEW from, NEW to, <<from, to>> = Ends(p, tag)
  PROVE  Yields(ReadFloatTag(p, tag, from, to), ChannelsOfColorSpace(from), ChannelsOfColorSpace(to))
BY TableYields, ConversionsSized DEF ReadFloatTag

\* The tags the readers ask for, by the way they go.
LEMMA TagWays ==
  ASSUME NEW p, NEW intent \in ICCIntents
  PROVE  /\ Tag16(p, Device2PCS16, intent) \in FromDevice /\ Device2PCSFloat[intent + 1] \in FromDevice
         /\ Tag16(p, PCS2Device16, intent) \notin FromDevice \cup {"none"}
         /\ PCS2DeviceFloat[intent + 1] \notin FromDevice \cup {"none"}
         /\ Device2PCSFloat[1] = "DToB0" /\ "DToB0" \in FromDevice /\ "none" \notin FromDevice
         /\ IsTag(p, "AToB0") => IsTag(p, Tag16(p, Device2PCS16, intent))
         /\ IsTag(p, "BToA0") => IsTag(p, Tag16(p, PCS2Device16, intent))
<1>1. intent \in {0, 1, 2, 3}
  BY DEF ICCIntents
<1>2. Device2PCS16[1] = "AToB0" /\ Device2PCS16[2] = "AToB1" /\ Device2PCS16[3] = "AToB2" /\ Device2PCS16[4] = "AToB1"
  BY DEF Device2PCS16
<1>3. PCS2Device16[1] = "BToA0" /\ PCS2Device16[2] = "BToA1" /\ PCS2Device16[3] = "BToA2" /\ PCS2Device16[4] = "BToA1"
  BY DEF PCS2Device16
<1>4. Device2PCSFloat[1] = "DToB0" /\ Device2PCSFloat[2] = "DToB1" /\ Device2PCSFloat[3] = "DToB2" /\ Device2PCSFloat[4] = "DToB3"
  BY DEF Device2PCSFloat
<1>5. PCS2DeviceFloat[1] = "BToD0" /\ PCS2DeviceFloat[2] = "BToD1" /\ PCS2DeviceFloat[3] = "BToD2" /\ PCS2DeviceFloat[4] = "BToD3"
  BY DEF PCS2DeviceFloat
<1>6. Tag16(p, Device2PCS16, intent) \in FromDevice /\ Device2PCSFloat[intent + 1] \in FromDevice
  BY <1>1, <1>2, <1>4 DEF Tag16, FromDevice
<1>7. /\ Tag16(p, PCS2Device16, intent) \notin FromDevice \cup {"none"}
      /\ PCS2DeviceFloat[intent + 1] \notin FromDevice \cup {"none"}
  BY <1>1, <1>3, <1>5 DEF Tag16, FromDevice
<1>8. /\ IsTag(p, "AToB0") => IsTag(p, Tag16(p, Device2PCS16, intent))
      /\ IsTag(p, "BToA0") => IsTag(p, Tag16(p, PCS2Device16, intent))
  BY <1>2, <1>3 DEF Tag16
<1>9. QED
  BY <1>4, <1>6, <1>7, <1>8 DEF FromDevice

\* The channels of a space.
Ch(space) == ChannelsOfColorSpace(space)

\* What is used of a sound profile.
LEMMA SoundIs ==
  ASSUME NEW p, Sound(p)
  PROVE  /\ p.class \notin {"link", "named"} /\ p.pcs \in PCSes /\ p.white # "none"
         /\ p.class = "abstract" => p.space \in PCSes
         /\ p.class # "abstract" /\ p.space \in PCSes => p.space = p.pcs
         /\ p.class # "abstract" =>
              \/ IsMatrixShaper(p)
              \/ IsTag(p, "AToB0") /\ IsTag(p, "BToA0")
         /\ p.class = "abstract" => IsTag(p, "AToB0") \/ IsTag(p, "DToB0")
BY DEF Sound, HeaderIsWrong, SpaceIsOtherPCS, IsTag

\* The pipelines of a gray curve,
LEMMA GrayYields ==
  ASSUME NEW p, Sound(p), p.gray
  PROVE  /\ Yields(BuildGrayInputMatrixPipeline(p), 1, 3)
         /\ Yields(BuildGrayOutputPipeline(p), 3, 1)
<1>1. \A x, y : Sized(Matrix(1, 3, x, y), 1, 3) /\ Sized(Curves(3, x, y), 3, 3) /\ Sized(Curves(1, x, y), 1, 1)
                /\ Sized(Matrix(3, 1, x, y), 3, 1)
  BY ConversionsSized
<1>2. Yields(TwoStages(1, 3, Matrix(1, 3, "Gray", "Gray"), Curves(3, "Gray", "LabV4")), 1, 3)
  BY <1>1, TwoYields
<1>3. Yields(TwoStages(1, 3, Curves(1, "Gray", "Gray"), Matrix(1, 3, "Gray", "XYZ")), 1, 3)
  BY <1>1, TwoYields
<1>4. Yields(TwoStages(3, 1, Matrix(3, 1, Encoded(p.pcs, "v4"), "Gray"), Curves(1, "Gray", "Gray")), 3, 1)
  BY <1>1, TwoYields
<1>5. QED
  BY <1>2, <1>3, <1>4 DEF BuildGrayInputMatrixPipeline, BuildGrayOutputPipeline

\* of the colorants and curves,
LEMMA ShaperYields ==
  ASSUME NEW p, Sound(p), p.shaper # "none"
  PROVE  /\ Yields(BuildRGBInputMatrixShaper(p), 3, 3)
         /\ Yields(BuildRGBOutputMatrixShaper(p), 3, 3)
<1>1. \A x, y : Sized(Matrix(3, 3, x, y), 3, 3) /\ Sized(Curves(3, x, y), 3, 3)
  BY ConversionsSized
<1>2. Yields(TwoStages(3, 3, Curves(3, "RGB", "RGB"), Matrix(3, 3, "RGB", "XYZ")), 3, 3)
  BY <1>1, TwoYields
<1>3. Yields(TwoStages(3, 3, Matrix(3, 3, "XYZ", "RGB"), Curves(3, "RGB", "RGB")), 3, 3)
  BY <1>1, TwoYields
<1>4. p.shaper = "matrix"
  BY DEF Sound
<1>5. Yields(BuildRGBInputMatrixShaper(p), 3, 3)
  BY <1>2, EndIfYields, ConversionsSized DEF BuildRGBInputMatrixShaper
<1>6. Yields(BuildRGBOutputMatrixShaper(p), 3, 3)
  BY <1>3, <1>4, BeginIfYields, ConversionsSized DEF BuildRGBOutputMatrixShaper
<1>7. QED
  BY <1>5, <1>6

\* and of a profile that has one of the two.
LEMMA ShapedYields ==
  ASSUME NEW p, Sound(p), IsMatrixShaper(p)
  PROVE  /\ Yields(IF p.space = "Gray" THEN BuildGrayInputMatrixPipeline(p) ELSE BuildRGBInputMatrixShaper(p),
                 Ch(p.space), Ch(p.pcs))
         /\ Yields(IF p.space = "Gray" THEN BuildGrayOutputPipeline(p) ELSE BuildRGBOutputMatrixShaper(p),
                 Ch(p.pcs), Ch(p.space))
<1>1. Ch(p.pcs) = 3 /\ Ch("Gray") = 1 /\ Ch("RGB") = 3
  BY SoundIs, ChannelsAre DEF Ch
<1>2. CASE p.space = "Gray"
  BY <1>1, <1>2, GrayYields DEF IsMatrixShaper
<1>3. CASE p.space # "Gray"
  <2>1. p.space = "RGB" /\ p.shaper # "none"
    BY <1>3 DEF IsMatrixShaper
  <2>2. QED
    BY <1>1, <2>1, ShaperYields
<1>4. QED
  BY <1>2, <1>3

\* The readers succeed on a sound profile, whatever the intent: as an input,
LEMMA InputYields ==
  ASSUME NEW p, Sound(p), p.class # "abstract", NEW intent \in ICCIntents
  PROVE  Yields(ReadInputLUT(p, intent), Ch(p.space), Ch(p.pcs))
<1> DEFINE f == Device2PCSFloat[intent + 1]
           tag == Tag16(p, Device2PCS16, intent)
<1>1. p.class # "named" /\ p.pcs \in PCSes
  BY SoundIs
<1>2. f \in FromDevice /\ tag \in FromDevice /\ f # "none" /\ tag # "none"
  BY TagWays
<1>3. <<p.space, p.pcs>> = Ends(p, f) /\ <<p.space, p.pcs>> = Ends(p, tag)
  BY <1>2 DEF Ends
<1>4. CASE IsTag(p, f)
  <2>1. ReadInputLUT(p, intent) = ReadFloatTag(p, f, p.space, p.pcs)
    BY <1>1, <1>4 DEF ReadInputLUT
  <2>2. QED
    BY <1>2, <1>3, <1>4, <2>1, FloatYields DEF IsTag, Ch
<1>5. CASE ~IsTag(p, f) /\ IsTag(p, tag)
  <2> DEFINE b == IsV2Lab(p, tag)
             a == IsV2Lab(p, tag) /\ p.space = "Lab"
  <2>1. ReadInputLUT(p, intent) =
          EndIf(b, BeginIf(a, TagPipeline(p, tag, p.space, p.pcs), LabV4ToV2), LabV2ToV4)
    BY <1>1, <1>5 DEF ReadInputLUT
  <2>2. (a => p.space \in PCSes) /\ (b => p.pcs \in PCSes)
    BY DEF PCSes, IsV2Lab
  <2>3. tag \in DOMAIN p.tags
    BY <1>5 DEF IsTag
  <2> HIDE DEF a, b, tag
  <2>4. Yields(EndIf(b, BeginIf(a, TagPipeline(p, tag, p.space, p.pcs), LabV4ToV2), LabV2ToV4), Ch(p.space), Ch(p.pcs))
    BY <1>2, <1>3, <2>2, <2>3, TableYields, ConversionsSized DEF Ch
  <2>5. QED
    BY <2>1, <2>4
<1>6. CASE ~IsTag(p, f) /\ ~IsTag(p, tag)
  <2>1. IsMatrixShaper(p)
    BY <1>6, SoundIs, TagWays
  <2>2. ReadInputLUT(p, intent) =
          IF p.space = "Gray" THEN BuildGrayInputMatrixPipeline(p) ELSE BuildRGBInputMatrixShaper(p)
    BY <1>1, <1>6 DEF ReadInputLUT
  <2>3. QED
    BY <2>1, <2>2, ShapedYields
<1>7. QED
  BY <1>4, <1>5, <1>6

\* as an output,
LEMMA OutputYields ==
  ASSUME NEW p, Sound(p), p.class # "abstract", NEW intent \in ICCIntents
  PROVE  Yields(ReadOutputLUT(p, intent), Ch(p.pcs), Ch(p.space))
<1> DEFINE f == PCS2DeviceFloat[intent + 1]
           tag == Tag16(p, PCS2Device16, intent)
<1>2. f \notin FromDevice /\ tag \notin FromDevice /\ f # "none" /\ tag # "none"
  BY TagWays
<1>3. <<p.pcs, p.space>> = Ends(p, f) /\ <<p.pcs, p.space>> = Ends(p, tag)
  BY <1>2 DEF Ends
<1>4. CASE IsTag(p, f)
  <2>1. ReadOutputLUT(p, intent) = ReadFloatTag(p, f, p.pcs, p.space)
    BY <1>4 DEF ReadOutputLUT
  <2>2. QED
    BY <1>2, <1>3, <1>4, <2>1, FloatYields DEF IsTag, Ch
<1>5. CASE ~IsTag(p, f) /\ IsTag(p, tag)
  <2> DEFINE a == IsV2Lab(p, tag)
             b == IsV2Lab(p, tag) /\ p.space = "Lab"
  <2>1. ReadOutputLUT(p, intent) =
          EndIf(b, BeginIf(a, TagPipeline(p, tag, p.pcs, p.space), LabV4ToV2), LabV2ToV4)
    BY <1>5 DEF ReadOutputLUT
  <2>2. (a => p.pcs \in PCSes) /\ (b => p.space \in PCSes)
    BY DEF PCSes, IsV2Lab
  <2>3. tag \in DOMAIN p.tags
    BY <1>5 DEF IsTag
  <2> HIDE DEF a, b, tag
  <2>4. Yields(EndIf(b, BeginIf(a, TagPipeline(p, tag, p.pcs, p.space), LabV4ToV2), LabV2ToV4), Ch(p.pcs), Ch(p.space))
    BY <1>2, <1>3, <2>2, <2>3, TableYields, ConversionsSized DEF Ch
  <2>5. QED
    BY <2>1, <2>4
<1>6. CASE ~IsTag(p, f) /\ ~IsTag(p, tag)
  <2>1. IsMatrixShaper(p)
    BY <1>6, SoundIs, TagWays
  <2>2. ReadOutputLUT(p, intent) =
          IF p.space = "Gray" THEN BuildGrayOutputPipeline(p) ELSE BuildRGBOutputMatrixShaper(p)
    BY <1>6 DEF ReadOutputLUT
  <2>3. QED
    BY <2>1, <2>2, ShapedYields
<1>7. QED
  BY <1>4, <1>5, <1>6

\* and as an abstract profile.
LEMMA AbstractYields ==
  ASSUME NEW p, Sound(p), p.class = "abstract", NEW intent \in ICCIntents
  PROVE  Yields(ReadDevicelinkLUT(p, intent), Ch(p.space), Ch(p.pcs))
<1> DEFINE f == Device2PCSFloat[intent + 1]
           tag == Tag16(p, Device2PCS16, intent)
<1>1. p.class # "named" /\ p.pcs \in PCSes /\ p.space \in PCSes
  BY SoundIs
<1>2. f \in FromDevice /\ tag \in FromDevice /\ f # "none" /\ tag # "none"
      /\ Device2PCSFloat[1] = "DToB0" /\ "DToB0" \in FromDevice
  BY TagWays
<1>3. <<p.space, p.pcs>> = Ends(p, f) /\ <<p.space, p.pcs>> = Ends(p, tag) /\ <<p.space, p.pcs>> = Ends(p, "DToB0")
  BY <1>2 DEF Ends
<1>4. CASE IsTag(p, f)
  <2>1. ReadDevicelinkLUT(p, intent) = ReadFloatTag(p, f, p.space, p.pcs)
    BY <1>1, <1>4 DEF ReadDevicelinkLUT
  <2>2. QED
    BY <1>2, <1>3, <1>4, <2>1, FloatYields DEF IsTag, Ch
<1>5. CASE ~IsTag(p, f) /\ IsTag(p, "DToB0")
  <2>1. ReadDevicelinkLUT(p, intent) = TagPipeline(p, "DToB0", p.space, p.pcs)
    BY <1>1, <1>2, <1>5 DEF ReadDevicelinkLUT
  <2>2. TagPipeline(p, "DToB0", p.space, p.pcs) = EndIf(FALSE, BeginIf(FALSE, TagPipeline(p, "DToB0", p.space, p.pcs), LabV4ToV2), LabV2ToV4)
    BY DEF EndIf, BeginIf
  <2>3. QED
    BY <1>2, <1>3, <1>5, <2>1, <2>2, TableYields DEF IsTag, Ch
<1>6. CASE ~IsTag(p, f) /\ ~IsTag(p, "DToB0")
  <2> DEFINE b == IsV2Lab(p, tag)
             a == p.tags[tag].type = "lut16" /\ p.space = "Lab"
  <2>0. IsTag(p, tag)
    BY <1>6, SoundIs, TagWays
  <2>3. tag \in DOMAIN p.tags /\ p.tags[tag].type # "damaged"
    BY <2>0 DEF IsTag, Sound
  <2>1. ReadDevicelinkLUT(p, intent) =
          EndIf(b, BeginIf(a, TagPipeline(p, tag, p.space, p.pcs), LabV4ToV2), LabV2ToV4)
    BY <1>1, <1>2, <1>6, <2>0, <2>3 DEF ReadDevicelinkLUT
  <2> HIDE DEF a, b, tag
  <2>4. Yields(EndIf(b, BeginIf(a, TagPipeline(p, tag, p.space, p.pcs), LabV4ToV2), LabV2ToV4), Ch(p.space), Ch(p.pcs))
    BY <1>1, <1>2, <1>3, <2>3, TableYields, ConversionsSized DEF Ch
  <2>5. QED
    BY <2>1, <2>4
<1>7. QED
  BY <1>4, <1>5, <1>6

----------------------------------------------------------------------------
(* A sound profile in a chain.                                             *)

\* The layer of a matrix,
LEMMA LayerYields ==
  ASSUME NEW r, NEW i, Yields(r, i, 3), NEW moves
  PROVE  Yields(Layer(r, moves), i, 3)
BY EndIfYields, ConversionsSized DEF Layer

\* and the conversion between two connection spaces.
LEMMA AddYields ==
  ASSUME NEW r, NEW i, Yields(r, i, 3), NEW in \in PCSes, NEW out \in PCSes, NEW moves
  PROVE  Yields(AddConversion(r, in, out, moves), i, 3)
<1>1. Sized(Lab2XYZ, 3, 3) /\ Sized(XYZ2Lab, 3, 3)
  BY ConversionsSized
<1>2. Yields(Layer(r, moves), i, 3)
  BY LayerYields
<1>3. Yields(AtEnd(Layer(r, moves), XYZ2Lab), i, 3)
  BY <1>1, <1>2, AtEndYields
<1>4. Yields(Layer(AtEnd(r, Lab2XYZ), moves), i, 3)
  BY <1>1, AtEndYields, LayerYields
<1>5. Yields(AtEnd(Layer(AtEnd(r, Lab2XYZ), moves), XYZ2Lab), i, 3)
  BY <1>1, <1>4, AtEndYields
<1>6. CASE in = "XYZ" /\ out = "XYZ"
  BY <1>2, <1>6 DEF AddConversion
<1>7. CASE in = "XYZ" /\ out = "Lab"
  BY <1>3, <1>7 DEF AddConversion
<1>8. CASE in = "Lab" /\ out = "XYZ"
  BY <1>4, <1>8 DEF AddConversion
<1>9. CASE in = "Lab" /\ out = "Lab"
  BY <1>5, <1>9 DEF AddConversion
<1>10. QED
  BY <1>6, <1>7, <1>8, <1>9 DEF PCSes

\* A profile is joined to the chain before it.
LEMMA JoinedYields ==
  ASSUME NEW r, NEW i, NEW m, Yields(r, i, m), NEW lut, NEW n, NEW o, Yields(lut, n, o),
         NEW conv, conv.how = "made", NEW adds, NEW from, NEW to,
         adds => from \in PCSes /\ to \in PCSes /\ m = 3 /\ n = 3, ~adds => m = n
  PROVE  Yields(Joined(r, lut, conv, adds, from, to), i, o)
<1>1. lut.how = "made"
  BY YieldingIsMade DEF IsMade
<1>2. Yields(Ready(r, lut, conv, adds, from, to), i, n)
  <2>1. CASE adds
    <3>1. Ready(r, lut, conv, adds, from, to) = AddConversion(r, from, to, conv.moves)
      BY <1>1, <2>1 DEF Ready
    <3>2. QED
      BY <2>1, <3>1, AddYields
  <2>2. CASE ~adds
    BY <1>1, <2>2 DEF Ready
  <2>3. QED
    BY <2>1, <2>2
<1>3. QED
  BY <1>2, StealYields DEF Joined

\* What a sound profile is handed, at place k.
Handed(p, k, space) ==
  /\ k = 1 => space = p.space
  /\ space \in PCSes \/ (p.class # "abstract" /\ space = p.space)

\* How a sound profile is used, its reader succeeds.
LEMMA LutYields ==
  ASSUME NEW c, NEW p, Sound(p), NEW k, c.intents[k] \in ICCIntents, NEW space
  PROVE  Yields(ReadLut(c, p, k, space), Ch(SpaceIn(p, k, space)), Ch(SpaceOut(p, k, space)))
<1>1. p.class \notin {"link", "named"}
  BY SoundIs
<1>2. CASE p.class = "abstract"
  <2>1. ReadLut(c, p, k, space) = ReadDevicelinkLUT(p, c.intents[k])
    BY <1>2 DEF ReadLut, ReadAsLink, IsLink
  <2>2. SpaceIn(p, k, space) = p.space /\ SpaceOut(p, k, space) = p.pcs
    BY <1>2 DEF SpaceIn, SpaceOut, Forward, IsLink
  <2>3. QED
    BY <1>2, <2>1, <2>2, AbstractYields
<1>3. CASE p.class # "abstract" /\ UsedAsInput(p, k, space)
  <2>1. ReadLut(c, p, k, space) = ReadInputLUT(p, c.intents[k])
    BY <1>1, <1>3 DEF ReadLut, ReadAsLink, IsLink
  <2>2. SpaceIn(p, k, space) = p.space /\ SpaceOut(p, k, space) = p.pcs
    BY <1>3 DEF SpaceIn, SpaceOut, Forward
  <2>3. QED
    BY <1>3, <2>1, <2>2, InputYields
<1>4. CASE p.class # "abstract" /\ ~UsedAsInput(p, k, space)
  <2>1. ReadLut(c, p, k, space) = ReadOutputLUT(p, c.intents[k])
    BY <1>1, <1>4 DEF ReadLut, ReadAsLink, IsLink
  <2>2. SpaceIn(p, k, space) = p.pcs /\ SpaceOut(p, k, space) = p.space
    BY <1>1, <1>4 DEF SpaceIn, SpaceOut, Forward, IsLink
  <2>3. QED
    BY <1>4, <2>1, <2>2, OutputYields
<1>5. QED
  BY <1>2, <1>3, <1>4

\* A round of the loop succeeds.
LEMMA StepYields ==
  ASSUME NEW c, NEW m, NEW st, NEW k, NEW p, Sound(p), c.intents[k] \in ICCIntents, NEW i,
         Yields(st.r, i, Ch(st.space)), Handed(p, k, st.space), k = 1 \/ (k > 1 /\ m[k].how = "made"),
         NEW t, t = StepOf(c, m, st, k, p)
  PROVE  t.space = SpaceOut(p, k, st.space) /\ Yields(t.r, i, Ch(t.space))
<1> DEFINE space == st.space
           lut == ReadLut(c, p, k, space)
           conv == IF Converts(c, p, k, space) THEN m[k] ELSE Identity
           adds == ReadAsLink(c, p) \/ ~UsedAsInput(p, k, space)
           from == space
           to == SpaceIn(p, k, space)
           q == Place(Joined(st.r, lut, conv, adds, from, to), k)
<1>1. p.class \notin {"link", "named"} /\ p.pcs \in PCSes /\ (p.class = "abstract" => p.space \in PCSes)
  BY SoundIs
<1>2. /\ adds => from \in PCSes /\ to \in PCSes
      /\ ~adds => from = to
      /\ Converts(c, p, k, space) => k # 1
  BY <1>1 DEF Handed, ReadAsLink, IsLink, UsedAsInput, SpaceIn, Forward, Converts
<1>3. ColorSpaceIsCompatible(to, space)
  BY <1>2 DEF ColorSpaceIsCompatible, PCSes
<1>4. st.r.how = "made"
  BY YieldingIsMade DEF IsMade
<1>5. t = [r |-> q, space |-> SpaceOut(p, k, space)]
  BY <1>3, <1>4 DEF StepOf
<1>6. Yields(lut, Ch(to), Ch(SpaceOut(p, k, space)))
  BY LutYields
<1>7. conv.how = "made"
  BY <1>2 DEF Identity
<1>8. Yields(q, i, Ch(SpaceOut(p, k, space)))
  <2>1. adds => Ch(from) = 3 /\ Ch(to) = 3
    BY <1>2, ChannelsAre DEF Ch
  <2>2. ~adds => Ch(from) = Ch(to)
    BY <1>2
  <2>3. Yields(st.r, i, Ch(from))
    OBVIOUS
  <2> HIDE DEF lut, conv, adds, from, to
  <2>4. Yields(Joined(st.r, lut, conv, adds, from, to), i, Ch(SpaceOut(p, k, space)))
    BY <1>2, <1>6, <1>7, <2>1, <2>2, <2>3, JoinedYields
  <2>5. QED
    BY <2>4, PlaceYields
<1>9. QED
  BY <1>5, <1>8

----------------------------------------------------------------------------
(* A chain of sound profiles.                                              *)

\* An odd place.
Odd(k) == k % 2 = 1
\* Spaces that are the same, or both connection spaces.
Alike(a, b) == a = b \/ {a, b} \subseteq PCSes
\* After an even place the profile is used the other way: it is like the one before.
Turns(c) ==
  \A k \in 2 .. (Len(c.chain) - 1) :
    ~Odd(k) => /\ At(c, k + 1).space = At(c, k).space
               /\ At(c, k + 1).class = "abstract" <=> At(c, k).class = "abstract"
\* A chain of sound profiles with the intents they are made for, linked by conversions that were made.
SoundChain(c, m) ==
  /\ Chained(c) /\ Turns(c)
  /\ \A k \in 1 .. Len(c.chain) : Sound(At(c, k)) /\ c.intents[k] \in ICCIntents
  /\ \A k \in 2 .. Len(c.chain) : m[k].how = "made"
\* The space after k profiles.
Comes(c, k, space) ==
  IF k = 0 THEN space = At(c, 1).space
  ELSE IF Odd(k) THEN space \in PCSes
  ELSE IF At(c, k).class = "abstract" THEN {space, At(c, k).space} \subseteq PCSes
  ELSE space = At(c, k).space

\* Places are odd and even in turn.
LEMMA OddIs ==
  /\ ~Odd(0) /\ Odd(1) /\ \A k \in Nat : Odd(k + 1) <=> ~Odd(k)
BY DEF Odd

\* The space a profile is handed is one it takes, and so is the one it hands on.
LEMMA SpaceComes ==
  ASSUME NEW c, NEW m, SoundChain(c, m), NEW k \in Nat, k < Len(c.chain), NEW space, Comes(c, k, space),
         NEW p, p = At(c, k + 1)
  PROVE  Handed(p, k + 1, space) /\ Comes(c, k + 1, SpaceOut(p, k + 1, space))
<1> DEFINE n == Len(c.chain)
<1>0. n \in Nat \ {0}
  BY DEF SoundChain, Chained
<1>1. k + 1 \in 1 .. n /\ (k + 1 = 1 <=> k = 0) /\ k + 1 # 0
  BY <1>0
<1>2. Sound(p)
  BY <1>1 DEF SoundChain
<1>3. p.class \notin {"link", "named"} /\ p.pcs \in PCSes /\ (p.class = "abstract" => p.space \in PCSes)
      /\ (p.class # "abstract" /\ p.space \in PCSes => p.space = p.pcs)
  BY <1>2, SoundIs
<1>4. /\ p.class = "abstract" => SpaceOut(p, k + 1, space) = p.pcs
      /\ p.class # "abstract" /\ (k = 0 \/ space \notin PCSes) => SpaceOut(p, k + 1, space) = p.pcs
      /\ p.class # "abstract" /\ k # 0 /\ space \in PCSes => SpaceOut(p, k + 1, space) = p.space
  BY <1>1, <1>3 DEF SpaceOut, Forward, IsLink, UsedAsInput
<1>5. CASE k = 0
  <2>1. Odd(k + 1) /\ space = p.space
    BY <1>5, OddIs DEF Comes
  <2>2. QED
    BY <1>1, <1>3, <1>4, <1>5, <2>1 DEF Handed, Comes
<1>6. CASE k # 0 /\ Odd(k)
  <2>1. ~Odd(k + 1) /\ space \in PCSes
    BY <1>6, OddIs DEF Comes
  <2>2. QED
    BY <1>1, <1>3, <1>4, <1>6, <2>1 DEF Handed, Comes
<1>7. CASE k # 0 /\ ~Odd(k)
  <2>1. Odd(k + 1)
    BY <1>7, OddIs
  <2>2. k \in 2 .. (n - 1)
    <3>1. k # 1
      BY <1>7, OddIs
    <3>2. QED
      BY <1>0, <1>7, <3>1
  <2>3. p.space = At(c, k).space /\ (p.class = "abstract" <=> At(c, k).class = "abstract")
    BY <1>7, <2>2 DEF SoundChain, Turns
  <2>4. IF p.class = "abstract" THEN space \in PCSes ELSE space = p.space
    BY <1>7, <2>3 DEF Comes
  <2>5. QED
    BY <1>1, <1>3, <1>4, <1>7, <2>1, <2>4 DEF Handed, Comes
<1>8. QED
  BY <1>5, <1>6, <1>7

\* The other loop finds a space with as many channels (GetXFormColorSpaces).
LEMMA WalkAlike ==
  ASSUME NEW name, NEW p, p = Profile(name), Sound(p), NEW k, NEW space, Handed(p, k, space),
         NEW s, Alike(s.post, space), k = 1 => s.post = p.space, NEW n, NEW t, t = Walk(n, k, s, name)
  PROVE  /\ Alike(t.post, SpaceOut(p, k, space))
         /\ k = 1 => Alike(t.entry, p.space)
         /\ k # 1 => t.entry = s.entry
<1> DEFINE input == s.post \notin PCSes
           in == IF input THEN p.space ELSE p.pcs
           out == IF input THEN p.pcs ELSE p.space
<1>1. p.class \notin {"link", "named"} /\ p.pcs \in PCSes /\ (p.class = "abstract" => p.space \in PCSes)
      /\ (p.class # "abstract" /\ p.space \in PCSes => p.space = p.pcs)
  BY SoundIs
<1>2. t = [entry |-> IF k = 1 THEN in ELSE s.entry, post |-> out]
  BY <1>1 DEF Walk
<1>3. t.post = out /\ t.entry = IF k = 1 THEN in ELSE s.entry
  BY <1>2, WalkFields
<1>4. input <=> space \notin PCSes
  BY DEF Alike
<1>5. Alike(out, SpaceOut(p, k, space))
  <2>1. CASE p.class = "abstract"
    <3>1. SpaceOut(p, k, space) = p.pcs
      BY <2>1 DEF SpaceOut, Forward, IsLink
    <3>2. QED
      BY <1>1, <2>1, <3>1 DEF Alike
  <2>2. CASE p.class # "abstract" /\ k = 1
    <3>1. SpaceOut(p, k, space) = p.pcs
      BY <1>1, <2>2 DEF SpaceOut, Forward, IsLink, UsedAsInput
    <3>2. QED
      BY <1>1, <2>2, <3>1 DEF Alike
  <2>3. CASE p.class # "abstract" /\ k # 1
    <3>1. SpaceOut(p, k, space) = out
      BY <1>1, <1>4, <2>3 DEF SpaceOut, Forward, IsLink, UsedAsInput
    <3>2. QED
      BY <3>1 DEF Alike
  <2>4. QED
    BY <2>1, <2>2, <2>3
<1>6. k = 1 => Alike(in, p.space)
  BY <1>1 DEF Alike
<1>7. QED
  BY <1>3, <1>5, <1>6

\* What is linked after k profiles.
YieldsUpto(c, f, w, k) ==
  /\ Yields(f[k].r, Ch(At(c, 1).space), Ch(f[k].space)) /\ Comes(c, k, f[k].space)
  /\ Alike(w[k].post, f[k].space) /\ (k # 0 => Alike(w[k].entry, At(c, 1).space))

\* That holds before the first profile,
LEMMA RoundsStart ==
  ASSUME NEW c, NEW m, NEW f, Links(f, c, m), NEW w, Walks(w, c.chain)
  PROVE  YieldsUpto(c, f, w, 0)
<1>1. f[0] = NoneYet(c) /\ w[0] = NotWalked(c.chain)
  BY DEF Links, Walks
<1>2. f[0].r = Made(PipelineAlloc(0, 0)) /\ f[0].space = At(c, 1).space /\ w[0].post = At(c, 1).space
  BY <1>1, LoopsStart DEF At
<1>3. Yields(f[0].r, Ch(At(c, 1).space), Ch(f[0].space))
  BY <1>2, AllocYields
<1>4. QED
  BY <1>2, <1>3 DEF YieldsUpto, Comes, Alike

\* and is kept by a round of both loops.
LEMMA RoundsGoOn ==
  ASSUME NEW c, NEW m, SoundChain(c, m), NEW f, Links(f, c, m), NEW w, Walks(w, c.chain),
         NEW k \in Nat, k < Len(c.chain), YieldsUpto(c, f, w, k)
  PROVE  YieldsUpto(c, f, w, k + 1)
<1> DEFINE n == Len(c.chain)
           p == At(c, k + 1)
           name == c.chain[k + 1]
           st == f[k]
           t == f[k + 1]
           s == w[k]
           v == w[k + 1]
<1>1. k + 1 \in 1 .. n /\ (k + 1) - 1 = k /\ (k + 1 = 1 <=> k = 0) /\ (k # 0 => k + 1 \in 2 .. n /\ k + 1 > 1)
      /\ k + 1 # 0
  <2>1. n \in Nat \ {0} /\ k < n
    BY DEF Chained, SoundChain
  <2> HIDE DEF n
  <2>2. QED
    BY <2>1
<1>2. Sound(p) /\ c.intents[k + 1] \in ICCIntents /\ (k + 1 = 1 \/ (k + 1 > 1 /\ m[k + 1].how = "made"))
  BY <1>1 DEF SoundChain
<1>3. t = StepOf(c, m, st, k + 1, p) /\ v = Walk(n, k + 1, s, name) /\ p = Profile(name)
  BY <1>1 DEF Links, Walks, Step, At
<1>4. Yields(st.r, Ch(At(c, 1).space), Ch(st.space)) /\ Comes(c, k, st.space) /\ Alike(s.post, st.space)
  BY DEF YieldsUpto
<1>5. Handed(p, k + 1, st.space) /\ Comes(c, k + 1, SpaceOut(p, k + 1, st.space))
  BY <1>4, SpaceComes
<1>6. k = 0 => s.post = p.space /\ p = At(c, 1)
  <2>1. SUFFICES ASSUME k = 0 PROVE w[0].post = p.space /\ p = At(c, 1)
    OBVIOUS
  <2>2. p = At(c, 1)
    BY <2>1
  <2>3. w[0] = NotWalked(c.chain)
    BY DEF Walks
  <2>4. w[0].post = At(c, 1).space
    BY <2>3, LoopsStart DEF At
  <2>5. QED
    BY <2>2, <2>4
<1>7. k # 0 => Alike(s.entry, At(c, 1).space)
  BY DEF YieldsUpto
<1> HIDE DEF p, name, st, t, s, v, n
<1>8. t.space = SpaceOut(p, k + 1, st.space) /\ Yields(t.r, Ch(At(c, 1).space), Ch(t.space))
  BY <1>2, <1>3, <1>4, <1>5, StepYields
<1>9. /\ Alike(v.post, SpaceOut(p, k + 1, st.space))
      /\ k + 1 = 1 => Alike(v.entry, p.space)
      /\ k + 1 # 1 => v.entry = s.entry
  BY <1>1, <1>2, <1>3, <1>4, <1>5, <1>6, WalkAlike
<1>10. Alike(v.entry, At(c, 1).space)
  BY <1>1, <1>6, <1>7, <1>9
<1>11. QED
  BY <1>5, <1>8, <1>9, <1>10 DEF YieldsUpto, t, v

\* Spaces that are alike have as many channels.
LEMMA AlikeChannels ==
  ASSUME NEW a, NEW b, Alike(a, b)
  PROVE  Ch(a) = Ch(b)
BY ChannelsAre DEF Alike, Ch

\* A sound chain is linked, with the channels of its spaces.
LEMMA SoundChainLinks ==
  ASSUME NEW c, NEW m, SoundChain(c, m), NEW r, r = DefaultICCintents(c, m),
         NEW s, s = GetXFormColorSpaces(c.chain)
  PROVE  IsMade(r) /\ ChannelsFit(r.lut, s)
<1> DEFINE n == Len(c.chain)
<1>0. n \in Nat \ {0} /\ Chained(c)
  BY DEF Chained, SoundChain
<1>1. PICK f : Links(f, c, m) /\ r = f[n].r
  BY <1>0, DefaultICCintentsIs
<1>2. PICK w : Walks(w, c.chain) /\ s = [entry |-> w[n].entry, exit |-> w[n].post]
  BY <1>0, GetXFormColorSpacesIs
<1> DEFINE S == {k \in 0 .. n : YieldsUpto(c, f, w, k)}
<1>3. 0 \in S
  BY <1>0, <1>1, <1>2, RoundsStart
<1>4. ASSUME NEW k \in 0 .. n, k \in S, k < n PROVE k + 1 \in S
  BY <1>0, <1>1, <1>2, <1>4, RoundsGoOn
<1> HIDE DEF S
<1>5. 0 .. n \subseteq S
  BY <1>0, <1>3, <1>4, Induction
<1>6. YieldsUpto(c, f, w, n) /\ n # 0
  BY <1>0, <1>5 DEF S
<1>7. /\ Yields(r, Ch(At(c, 1).space), Ch(f[n].space))
      /\ Ch(s.entry) = Ch(At(c, 1).space) /\ Ch(s.exit) = Ch(f[n].space)
  BY <1>1, <1>2, <1>6, AlikeChannels DEF YieldsUpto
<1>8. IsMade(r)
  BY <1>7, YieldingIsMade
<1>9. PICK e : IsList(e) /\ Holds(r, e) /\ Placed(e, n)
  BY <1>0, <1>8, ChainEnds
<1>10. e # <<>>
  <2>1. 1 \in 1 .. n
    BY <1>0
  <2>2. \E j \in 1 .. Len(e) : TRUE
    BY <1>9, <2>1 DEF Placed
  <2>3. QED
    BY <2>2, EmptyList
<1>11. PICK d, a, b, y : MadeOf(r, a, b, d, y) /\ (d # <<>> => a = Ch(At(c, 1).space) /\ b = Ch(f[n].space))
  BY <1>7 DEF Yields
<1>12. r.lut = AnyLut(a, b, d, y) /\ d = e
  BY <1>8, <1>9, <1>11, MadeFields DEF Holds
<1>13. r.lut.in = a /\ r.lut.out = b
  BY <1>12, LutFields
<1>14. QED
  BY <1>7, <1>8, <1>10, <1>11, <1>12, <1>13 DEF ChannelsFit, Ch

----------------------------------------------------------------------------
(* The transforms that are created in one piece.                           *)

\* And the transform is created.
LEMMA AllocatedMade ==
  ASSUME NEW c, NEW m, SoundChain(c, m), NEW d, d.chain = c.chain, NEW s, s = GetXFormColorSpaces(c.chain),
         NEW r, r = DefaultICCintents(c, m)
  PROVE  Allocated(d, s, r) = r /\ IsMade(r)
<1>1. IsMade(r) /\ ChannelsFit(r.lut, s)
  BY SoundChainLinks
<1>2. 1 \in 1 .. Len(c.chain) /\ Len(c.chain) \in 1 .. Len(c.chain)
  BY DEF SoundChain, Chained
<1>3. \A k \in 1 .. Len(c.chain) : HasWhite(c.chain[k])
  BY SoundIs DEF SoundChain, HasWhite, At
<1>4. HasWhite(d.chain[1]) /\ HasWhite(Last(d.chain))
  BY <1>2, <1>3 DEF Last
<1>5. QED
  BY <1>1, <1>4 DEF Allocated, IsMade

\* The rules for black points change neither the chain nor the intents of a request.
LEMMA RequestIs ==
  ASSUME NEW chain, NEW intents, NEW bpc, NEW input, NEW output,
         NEW c, c = Request(chain, intents, bpc, input, output)
  PROVE  /\ c.chain = chain /\ c.intents = intents /\ c.input = input /\ c.output = output
         /\ BPCRules(c).chain = chain /\ BPCRules(c).intents = intents
<1> DEFINE u == [k \in DOMAIN c.bpc |->
                   CASE c.intents[k] = Absolute -> FALSE
                     [] c.intents[k] \in {Perceptual, Saturation} /\ Profile(c.chain[k]).v4 -> TRUE
                     [] OTHER -> c.bpc[k]]
<1>1. BPCRules(c) = [c EXCEPT !.bpc = u]
  BY DEF BPCRules
<1> HIDE DEF u
<1>2. c = [chain |-> chain, intents |-> intents, bpc |-> bpc, input |-> input, output |-> output, sixteen |-> No]
  BY DEF Request, No
<1>3. QED
  BY <1>1, <1>2

\* A transform created in one piece is made, when its chain is sound.
LEMMA CreatedMade ==
  ASSUME NEW c, NEW m, SoundChain(BPCRules(c), m), BPCRules(c).chain = c.chain,
         ProperFormats(c, GetXFormColorSpaces(c.chain))
  PROVE  Created(c, m).how = "made"
<1> DEFINE s == GetXFormColorSpaces(c.chain)
           r == DefaultICCintents(BPCRules(c), m)
<1>1. Allocated(c, s, r) = r /\ IsMade(r)
  BY AllocatedMade
<1>2. Created(c, m) = Allocated(c, s, r)
  BY DEF Created, CreatedIn
<1>3. QED
  BY <1>1, <1>2 DEF IsMade

\* The profiles the library makes for itself are sound.
LEMMA IdentitySound ==
  ASSUME NEW space \in PCSes, NEW v4, NEW type \in {"lut", "lut16"}
  PROVE  Sound(CreateIdentity(space, v4, type))
<1> DEFINE tags == IdentityTag(type, 3)
           base == CreateRGBProfile(TRUE, No, No)
           p == CreateIdentity(space, v4, type)
<1>1. DOMAIN tags = {"AToB0"} /\ tags["AToB0"].type = type /\ tags["AToB0"].in = 3 /\ tags["AToB0"].out = 3
  BY DEF IdentityTag
<1>0. PICK u, v, g : base = [class |-> "display", space |-> "RGB", pcs |-> "XYZ", v4 |-> v, tags |-> u, shaper |-> "none",
                          gray |-> g, white |-> "D50", chad |-> "matrix", black |-> "dark", colorants |-> 0]
  BY DEF CreateRGBProfile, No
<1>9. p = [base EXCEPT !.class = "abstract", !.space = space, !.pcs = space, !.v4 = v4, !.tags = tags]
  BY DEF CreateIdentity, No
<1> HIDE DEF tags, base, p
<1>2. p = [class |-> "abstract", space |-> space, pcs |-> space, v4 |-> v4, tags |-> tags, shaper |-> "none",
           gray |-> g, white |-> "D50", chad |-> "matrix", black |-> "dark", colorants |-> 0]
  BY <1>0, <1>9
<1>3. p.class = "abstract" /\ p.space = space /\ p.pcs = space /\ p.tags = tags /\ p.shaper = "none" /\ p.white = "D50"
  BY <1>2
<1>4. ChannelsOfColorSpace(space) = 3
  BY ChannelsAre
<1>5. TablesFit(p)
  BY <1>1, <1>3, <1>4 DEF TablesFit, FromDevice
<1>6. ~HeaderIsWrong(p)
  BY <1>3 DEF HeaderIsWrong
<1>7. IsTag(p, "AToB0") /\ \A t \in DOMAIN p.tags : p.tags[t].type # "damaged"
  BY <1>1, <1>3 DEF IsTag
<1>8. Sound(p)
  BY <1>3, <1>5, <1>6, <1>7 DEF Sound
<1>10. QED
  BY <1>8 DEF p

\* Lab of both versions and XYZ.
LEMMA OwnProfilesSound ==
  /\ {"lab2", "lab4", "xyz"} \subseteq Names
  /\ Sound(Profile("lab2")) /\ Sound(Profile("lab4")) /\ Sound(Profile("xyz"))
  /\ Profile("lab4").class = "abstract" /\ Profile("lab4").space = "Lab" /\ Profile("lab4").pcs = "Lab"
<1>1. Profile("lab2") = CreateLab2Profile /\ Profile("lab4") = CreateLab4Profile /\ Profile("xyz") = CreateXYZProfile
  BY LinkingAssumption DEF Profile
<1>2. "Lab" \in PCSes /\ "XYZ" \in PCSes
  BY DEF PCSes
<1>3. Sound(CreateLab2Profile) /\ Sound(CreateLab4Profile) /\ Sound(CreateXYZProfile)
  BY <1>2, IdentitySound DEF CreateLab2Profile, CreateLab4Profile, CreateXYZProfile
<1>4. CreateLab4Profile.class = "abstract" /\ CreateLab4Profile.space = "Lab" /\ CreateLab4Profile.pcs = "Lab"
  BY DEF CreateLab4Profile, CreateIdentity, CreateRGBProfile
<1>5. QED
  BY <1>1, <1>3, <1>4, LinkingAssumption

\* A transform of a sound profile and one of the library's is created.
LEMMA TwoMade ==
  ASSUME NEW n \in Names, Sound(Profile(n)), NEW v \in {"lab2", "xyz"}, NEW intent \in ICCIntents,
         NEW c, c = Two(n, v, intent)
  PROVE  Created(c, Unmoved(c)).how = "made"
<1> DEFINE b == BPCRules(c)
           m == Unmoved(c)
<1>1. /\ c.chain = <<n, v>> /\ c.input = "any" /\ c.output = "any"
      /\ b.chain = <<n, v>> /\ b.intents = <<intent, intent>>
  BY RequestIs DEF Two
<1>2. \A k \in 1 .. 2 : m[k].how = "made"
  BY <1>1 DEF Unmoved, Identity
<1> HIDE DEF b, m
<1>3. Len(b.chain) = 2 /\ At(b, 1) = Profile(n) /\ At(b, 2) = Profile(v)
  BY <1>1 DEF At
<1>4. Chained(b)
  BY <1>3, OwnProfilesSound, LinkingAssumption DEF Chained, Profile
<1>5. Turns(b)
  BY <1>3 DEF Turns
<1>6. \A k \in 1 .. 2 : Sound(At(b, k)) /\ b.intents[k] \in ICCIntents
  BY <1>1, <1>3, OwnProfilesSound
<1>7. SoundChain(b, m)
  BY <1>2, <1>3, <1>4, <1>5, <1>6 DEF SoundChain
<1>8. ProperFormats(c, GetXFormColorSpaces(c.chain))
  BY <1>1 DEF ProperFormats, IsProperColorSpace
<1>9. QED
  BY <1>1, <1>7, <1>8, CreatedMade DEF b, m

\* And so is the transform from Lab to a sound profile, and back.
LEMMA RoundtripMade ==
  ASSUME NEW n \in Names, Sound(Profile(n)), NEW intent \in ICCIntents, NEW c, c = CreateRoundtripXForm(n, intent)
  PROVE  Created(c, Fixed(c)).how = "made"
<1> DEFINE b == BPCRules(c)
           m == Fixed(c)
           chain == <<"lab4", n, n, "lab4">>
<1>1. /\ c.chain = chain /\ c.input = "Lab" /\ c.output = "Lab"
      /\ b.chain = chain /\ b.intents = <<Relative, intent, Relative, Relative>>
  BY RequestIs DEF CreateRoundtripXForm
<1>2. \A k \in 1 .. 4 : m[k].how = "made"
  BY <1>1 DEF Fixed
<1> HIDE DEF b, m
<1>3. Len(b.chain) = 4 /\ At(b, 1) = Profile("lab4") /\ At(b, 2) = Profile(n) /\ At(b, 3) = Profile(n)
      /\ At(b, 4) = Profile("lab4")
  BY <1>1 DEF At
<1>0. \A k \in 1 .. 4 : k = 1 \/ k = 2 \/ k = 3 \/ k = 4
  OBVIOUS
<1>4. Chained(b)
  BY <1>0, <1>3, OwnProfilesSound, LinkingAssumption DEF Chained, Profile
<1>5. Turns(b)
  <2>1. \A k \in 2 .. 3 : k = 2 \/ Odd(k)
    BY DEF Odd
  <2>2. QED
    BY <1>3, <2>1 DEF Turns
<1>6. \A k \in 1 .. 4 : Sound(At(b, k)) /\ b.intents[k] \in ICCIntents
  BY <1>0, <1>1, <1>3, OwnProfilesSound DEF Relative, ICCIntents
<1>7. SoundChain(b, m)
  BY <1>2, <1>3, <1>4, <1>5, <1>6 DEF SoundChain
<1>8. ProperFormats(c, GetXFormColorSpaces(c.chain))
  <2>1. Len(chain) = 4 /\ chain[1] = "lab4" /\ chain[4] = "lab4"
    OBVIOUS
  <2> HIDE DEF chain
  <2>2. PICK w : /\ Walks(w, chain)
                 /\ GetXFormColorSpaces(chain) = [entry |-> w[Len(chain)].entry, exit |-> w[Len(chain)].post]
    <3>1. Len(chain) \in Nat
      BY <2>1
    <3>2. QED
      BY <3>1, GetXFormColorSpacesIs
  <2>3. \A j \in Nat : \A s : /\ Walk(4, j, s, "lab4").post = "Lab"
                              /\ j = 1 => Walk(4, j, s, "lab4").entry = "Lab"
    BY OwnProfilesSound DEF Walk
  <2>4. ASSUME NEW j \in 2 .. 4 PROVE w[j].entry = w[j - 1].entry
    <3>1. w[j] = Walk(4, j, w[j - 1], chain[j])
      BY <2>1, <2>2 DEF Walks
    <3>2. QED
      BY <3>1 DEF Walk
  <2>5. w[1] = Walk(4, 1, w[0], "lab4") /\ w[4] = Walk(4, 4, w[3], "lab4")
    BY <2>1, <2>2 DEF Walks
  <2>6. w[1].entry = "Lab" /\ w[4].post = "Lab"
    BY <2>3, <2>5
  <2>7. w[4].entry = "Lab"
    BY <2>4, <2>6
  <2>8. QED
    BY <1>1, <2>1, <2>2, <2>6, <2>7 DEF ProperFormats, IsProperColorSpace, chain
<1>9. QED
  BY <1>1, <1>7, <1>8, CreatedMade DEF b, m

----------------------------------------------------------------------------
(* No black point is missing.                                              *)

\* A black point that was measured, or needed no measurement.
IsFound(b) == b.how = "made"

\* The black points that need no measurement; one of a transform that was created.
LEMMA PointsAre ==
  /\ IsFound(Zero) /\ \A x : IsFound(Found(x))
  /\ \A c, m, b : Created(c, m).how = "made" => Evaluates(c, m, b) = b
<1> DEFINE t(f, x) == [how |-> "made", found |-> f, xyz |-> x]
<1>1. \A f, x : IsFound(t(f, x))
  BY DEF IsFound
<1>2. Zero = t(FALSE, "zero") /\ \A x : Found(x) = t(TRUE, x)
  BY DEF Zero, Found
<1> HIDE DEF t
<1>3. IsFound(Zero) /\ \A x : IsFound(Found(x))
  BY <1>1, <1>2
<1>4. QED
  BY <1>3 DEF Evaluates

\* A sound profile's black point is measured without a failure,
LEMMA SourceFound ==
  ASSUME NEW n \in Names, NEW p, p = Profile(n), Sound(p), NEW intent \in ICCIntents
  PROVE  IsFound(DetectBlackPoint(n, p, intent))
<1>1. ASSUME NEW i \in ICCIntents
      PROVE  IsFound(BlackPointAsDarkerColorant(n, i))
  <2> DEFINE c == Two(n, "lab2", i)
  <2>1. Created(c, Unmoved(c)).how = "made"
    BY TwoMade
  <2> HIDE DEF c
  <2>2. IsFound(DarkerOf(c, p, i))
    BY <2>1, PointsAre DEF DarkerOf
  <2>3. QED
    BY <2>2 DEF BlackPointAsDarkerColorant, c
<1>2. IsFound(BlackPointUsingPerceptualBlack(n))
  <2> DEFINE c == CreateRoundtripXForm(n, Perceptual)
  <2>1. Perceptual \in ICCIntents
    BY DEF Perceptual, ICCIntents
  <2>2. Created(c, Fixed(c)).how = "made"
    BY <2>1, RoundtripMade
  <2> HIDE DEF c
  <2>3. IsFound(Roundtrip(c, Profile(n).black))
    BY <2>2, PointsAre DEF Roundtrip
  <2>4. QED
    BY <2>3, PointsAre DEF BlackPointUsingPerceptualBlack, c
<1>3. Relative \in ICCIntents
  BY DEF Relative, ICCIntents
<1>4. QED
  BY <1>1, <1>2, <1>3, PointsAre DEF DetectBlackPoint

\* as the source and as the destination of a conversion.
LEMMA DestinationFound ==
  ASSUME NEW n \in Names, NEW p, p = Profile(n), Sound(p), NEW intent \in ICCIntents,
         NEW source, IsFound(source)
  PROVE  IsFound(DetectDestinationBlackPoint(n, p, intent, source))
<1> DEFINE c == CreateRoundtripXForm(n, intent)
<1>1. Created(c, Fixed(c)).how = "made"
  BY RoundtripMade
<1> HIDE DEF c
<1>2. IsFound(Roundtrip(c, p.black))
  BY <1>1, PointsAre DEF Roundtrip
<1>3. QED
  BY <1>2 DEF DetectDestinationBlackPoint, c

\* So every measurement is one,
LEMMA MeasuredFound ==
  ASSUME NEW n \in Names, Sound(Profile(n)), NEW intent \in ICCIntents
  PROVE  IsFound(Measured[n][intent].source) /\ IsFound(Measured[n][intent].destination)
<1> DEFINE a == DetectBlackPoint(n, Profile(n), intent)
           b == DetectDestinationBlackPoint(n, Profile(n), intent, a)
<1>1. IsFound(a)
  BY SourceFound
<1>2. IsFound(b)
  BY <1>1, DestinationFound
<1>3. Measured[n][intent] = [source |-> a, destination |-> b]
  <2>1. Measured[n][intent] = BlackPoints(n, intent, a)
    BY DEF Measured
  <2> HIDE DEF a
  <2>2. QED
    BY <2>1 DEF BlackPoints
<1> HIDE DEF a, b
<1>4. QED
  BY <1>1, <1>2, <1>3

\* No conversion between sound profiles fails.
LEMMA ConversionMade ==
  ASSUME NEW c, NEW k, c.intents[k] \in ICCIntents,
         NEW x \in Names, x = c.chain[k - 1], Sound(Profile(x)), NEW y \in Names, y = c.chain[k], Sound(Profile(y)),
         c.intents[k] = Absolute => Profile(x).chad = "matrix" /\ Profile(y).chad = "matrix"
  PROVE  ComputeConversion(c, k, Measured).how = "made"
<1> DEFINE intent == c.intents[k]
<1>1. CASE intent = Absolute
  <2>1. ComputeConversion(c, k, Measured) = Adaptation(Profile(x), Profile(y))
    BY <1>1 DEF ComputeConversion
  <2>2. ReadsCHAD(Profile(x)) /\ ReadsCHAD(Profile(y))
    BY <1>1 DEF ReadsCHAD
  <2>3. QED
    BY <2>1, <2>2 DEF Adaptation
<1>2. CASE intent # Absolute /\ ~c.bpc[k]
  <2>1. ComputeConversion(c, k, Measured) = Identity
    BY <1>2 DEF ComputeConversion
  <2>2. QED
    BY <2>1 DEF Identity
<1>3. CASE intent # Absolute /\ c.bpc[k]
  <2>1. ComputeConversion(c, k, Measured) = Compensation(Measured[x][intent].source, Measured[y][intent].destination)
    BY <1>3 DEF ComputeConversion
  <2>2. IsFound(Measured[x][intent].source) /\ IsFound(Measured[y][intent].destination)
    BY MeasuredFound
  <2>3. QED
    BY <2>1, <2>2 DEF Compensation, IsFound
<1>4. QED
  BY <1>1, <1>2, <1>3

\* In a chain whose profiles agree every second one is used as an input.
LEMMA AgreeTurns ==
  ASSUME NEW c \in Calls, Agree(c.chain), NEW d, d.chain = c.chain
  PROVE  Turns(d)
<1> DEFINE n == Len(c.chain)
<1>1. n \in Nat /\ DOMAIN c.chain = 1 .. n
  BY CallIs DEF Chained
<1>2. SUFFICES ASSUME NEW k \in 2 .. (n - 1)
               PROVE  /\ At(d, k + 1).space = At(d, k).space
                      /\ At(d, k + 1).class = "abstract" <=> At(d, k).class = "abstract"
  BY DEF Turns
<1>3. n > 2 /\ k \in 1 .. n /\ k + 1 \in 1 .. n
  BY <1>1
<1>4. \A j \in 1 .. n : c.chain[j] \in ToSet(c.chain)
  BY <1>1 DEF ToSet
<1>5. \A j \in 1 .. n : At(d, j).class # "abstract" /\ At(d, j).space = Profile(c.chain[1]).space
  BY <1>1, <1>3, <1>4 DEF Agree, At
<1>6. QED
  BY <1>3, <1>5

\* The chain of a sound call is linked.
LEMMA SoundCallLinks ==
  ASSUME NEW c \in Calls, SoundCall(c), Agree(c.chain), NEW s, s = GetXFormColorSpaces(c.chain),
         NEW r, r = LinkProfiles(BPCRules(c))
  PROVE  IsMade(r) /\ IsMade(Allocated(c, s, r))
<1> DEFINE n == Len(c.chain)
           b == BPCRules(c)
           m == ConversionsBy(b, Measured)
<1>1. /\ Chained(c) /\ DOMAIN c.chain = 1 .. n /\ DOMAIN c.intents = 1 .. n /\ 1 \in 1 .. n
      /\ b.chain = c.chain /\ b.intents = c.intents
  BY CallIs
<1>2. n \in Nat \ {0} /\ \A k \in 1 .. n : c.chain[k] \in Names
  <2>1. c.chain \in Seq(Names)
    BY LinkingAssumption
  <2>2. QED
    BY <1>1, <2>1, ElementOfSeq DEF Chained
<1>3. \A k \in 1 .. n : Sound(Profile(c.chain[k])) /\ c.intents[k] \in ICCIntents
  BY <1>1 DEF SoundCall
<1> HIDE DEF b, n
<1>4. ASSUME NEW k \in 2 .. n
      PROVE  m[k].how = "made"
  <2>1. k \in 1 .. n /\ k - 1 \in 1 .. n
    BY <1>2
  <2>2. c.intents[k] = Absolute => Profile(c.chain[k - 1]).chad = "matrix" /\ Profile(c.chain[k]).chad = "matrix"
    BY <1>1, <2>1 DEF SoundCall
  <2>3. ComputeConversion(b, k, Measured).how = "made"
    BY <1>1, <1>2, <1>3, <2>1, <2>2, ConversionMade
  <2>4. m[k] = ComputeConversion(b, k, Measured)
    BY <1>1 DEF ConversionsBy, n
  <2>5. QED
    BY <2>3, <2>4
<1> HIDE DEF m
<1>5. SoundChain(b, m)
  <2>1. Chained(b) /\ \A k \in 1 .. n : Sound(At(b, k)) /\ b.intents[k] \in ICCIntents
    BY <1>1, <1>3 DEF Chained, At
  <2>2. Turns(b)
    BY <1>1, AgreeTurns
  <2>3. QED
    BY <1>1, <1>4, <2>1, <2>2 DEF SoundChain, n
<1>6. r = DefaultICCintents(b, m)
  <2>1. b.intents[1] \in ICCIntents
    BY <1>1, <1>3
  <2>2. r = LinkProfiles(b)
    BY DEF b
  <2>3. b.intents[1] \notin KOnlyIntents /\ b.intents[1] \notin KPlaneIntents
    BY <2>1 DEF ICCIntents, KOnlyIntents, KPlaneIntents
  <2>4. ICCPart(b) = b
    BY <2>1 DEF ICCPart
  <2>5. LinkProfiles(b) = ICC(b)
    BY <2>1, <2>3, <2>4 DEF LinkProfiles, Handled
  <2>6. QED
    BY <2>2, <2>5 DEF ICC, m
<1>7. Allocated(c, s, r) = r /\ IsMade(r)
  BY <1>1, <1>5, <1>6, AllocatedMade
<1>8. QED
  BY <1>7

\* The transform the gamma of an RGB profile is measured by.
GammaCall(c) == Two(Head(c.chain), "xyz", Relative)
\* Why a creation returned: the formats are not those of the spaces, the measurement of
\* the gamma panicked, nothing was linked, or what was linked went through the last checks.
Reason ==
  \/ ~ProperFormats(call, spaces)
  \/ Created(GammaCall(call), Unmoved(GammaCall(call))).how = "panics"
  \/ ~IsMade(LinkProfiles(BPCRules(call)))
  \/ result = Allocated(call, spaces, LinkProfiles(BPCRules(call)))
\* The inductive invariant.
ReasonInv == LinkingInv /\ (pc = "return" => Reason)

\* It holds at the start,
LEMMA ReasonInit == Init => ReasonInv
BY LinkingInit DEF Init, ReasonInv

\* and each step keeps it.
LEMMA ReasonNext == ReasonInv /\ [Next]_vars => ReasonInv'
<1> SUFFICES ASSUME ReasonInv, [Next]_vars PROVE ReasonInv'
  OBVIOUS
<1>0. LinkingInv' /\ LinkingInv
  BY LinkingNext DEF ReasonInv
<1>1. ASSUME NEW c \in Calls, CreateTransform(c) PROVE ReasonInv'
  BY <1>0, <1>1 DEF CreateTransform, ReasonInv
<1>2. CASE FindSpaces
  <2>1. pc' = "return" => ~ProperFormats(call, spaces') /\ call' = call
    BY <1>2 DEF FindSpaces
  <2>2. pc' = "return" => ~ProperFormats(call', spaces')
    BY <2>1
  <2>3. QED
    BY <1>0, <2>2 DEF ReasonInv, Reason
<1>3. CASE DetectRGBProfileGamma
  <2>1. /\ pc' = "return" => Created(GammaCall(call), Unmoved(GammaCall(call))).how = "panics"
        /\ call' = call
    BY <1>3 DEF DetectRGBProfileGamma, GammaCall
  <2>2. pc' = "return" => Created(GammaCall(call'), Unmoved(GammaCall(call'))).how = "panics"
    BY <2>1
  <2>3. QED
    BY <1>0, <2>2 DEF ReasonInv, Reason
<1>4. CASE FillRamp
  BY <1>0, <1>4 DEF FillRamp, ReasonInv
<1>5. CASE Link
  <2>1. pc' = "return" => ~IsMade(LinkProfiles(BPCRules(call)))
    BY <1>5 DEF Link, IsMade
  <2>2. call' = call
    BY <1>5 DEF Link
  <2>3. QED
    BY <1>0, <2>1, <2>2 DEF ReasonInv, Reason
<1>6. CASE Finish
  <2>1. result' = Allocated(call, spaces, LinkProfiles(BPCRules(call))) /\ call' = call /\ spaces' = spaces
    BY <1>0, <1>6 DEF Finish, LinkingInv, Linked
  <2>2. QED
    BY <1>0, <2>1 DEF ReasonInv, Reason
<1>7. CASE Return
  BY <1>0, <1>7 DEF Return, ReasonInv
<1>8. CASE UNCHANGED vars
  <2>1. pc' = pc /\ call' = call /\ spaces' = spaces /\ result' = result
    BY <1>8 DEF vars
  <2>2. Reason => Reason'
    BY <2>1 DEF Reason
  <2>3. QED
    BY <1>0, <2>1, <2>2 DEF ReasonInv
<1>9. QED
  BY <1>1, <1>2, <1>3, <1>4, <1>5, <1>6, <1>7, <1>8 DEF Next

\* Whatever the profiles and the chains: linking sound profiles by the four intents
\* succeeds, with every black point, white and adaptation it needs.
THEOREM SoundChainsAreMadeAlways == Spec => []SoundChainsAreMade
<1>1. ReasonInv => SoundChainsAreMade
  <2> SUFFICES ASSUME ReasonInv, pc = "return", ProperFormats(call, spaces), Agree(call.chain), SoundCall(call)
               PROVE  IsMade(result)
    BY DEF SoundChainsAreMade, IsMade
  <2>1. call \in Calls /\ SpacesFound
    BY DEF ReasonInv, LinkingInv
  <2>2. /\ IsMade(LinkProfiles(BPCRules(call)))
        /\ IsMade(Allocated(call, spaces, LinkProfiles(BPCRules(call))))
    BY <2>1, SoundCallLinks DEF SpacesFound
  <2>3. Created(GammaCall(call), Unmoved(GammaCall(call))).how # "panics"
    <3> DEFINE x == Head(call.chain)
    <3>1. call.chain \in Seq(Names) /\ 1 \in DOMAIN call.chain
      BY <2>1, CallIs, LinkingAssumption
    <3>2. x = call.chain[1] /\ x \in Names
      BY <3>1, ElementOfSeq, LenProperties
    <3>3. Sound(Profile(x)) /\ Relative \in ICCIntents
      BY <3>1, <3>2 DEF SoundCall, Relative, ICCIntents
    <3> HIDE DEF x
    <3>4. Created(Two(x, "xyz", Relative), Unmoved(Two(x, "xyz", Relative))).how = "made"
      BY <3>2, <3>3, TwoMade
    <3>5. QED
      BY <3>4 DEF GammaCall, x
  <2>4. result = Allocated(call, spaces, LinkProfiles(BPCRules(call)))
    BY <2>2, <2>3 DEF ReasonInv, Reason
  <2>5. QED
    BY <2>2, <2>4
<1>2. Spec => []ReasonInv
  BY ReasonInit, ReasonNext, PTL DEF Spec
<1>3. QED
  BY <1>1, <1>2, PTL
=============================================================================
