--------------------------- MODULE Interpolation ---------------------------
(***************************************************************************)
(* Colour look-up tables and the look-ups between their nodes, in words of *)
(* `Bits' bits: Unit is 0x10000, Top 0xFFFF and Half 0x8000 at the width   *)
(* of the code.  The first input varies slowest, and the outputs of a node *)
(* stand together.  The evaluators of up to three inputs are here; those   *)
(* of more call them on two planes of the first input (ClutEvaluation).    *)
(*                                                                         *)
(* A slice of a table is its first index, base.  An evaluator that indexes *)
(* outside its table panics: its answer is <<>>.  Indices are not wrapped  *)
(* at 32 bits, which no table that could be allocated reaches.             *)
(***************************************************************************)
EXTENDS Integers, Sequences, FiniteSets, SequencesExt

CONSTANT Bits
ASSUME BitsAssumption == Bits \in Nat \ {0, 1}

Unit == 2 ^ Bits
Top  == Unit - 1
Half == Unit \div 2
Word(n)   == n % Unit
DWord(n)  == n % (Unit * Unit)
Signed(n) == DWord(n + Half * Unit) - Half * Unit

ToFixedDomain(a) == Signed(a + ((a + Half - 1) \div Top))

\* cmsComputeInterpParamsEx: the factors are kept from the last input to the first.
ComputeInterpParams(nodes, out, trilinear) ==
  LET n == Len(nodes)
      opta[i \in 1 .. n] == IF i = 1 THEN <<out>>
                          ELSE LET s == opta[i - 1] IN Append(s, Last(s) * nodes[n - i + 2])
  IN [domain |-> [k \in 1 .. n |-> nodes[k] - 1], opta |-> opta[n], out |-> out, trilinear |-> trilinear]

\* Where a number is on its input: the node below it, how far the next one is
\* (there is none at the top), and the rest between them.
Axis(v, d, stride) ==
  LET fx == ToFixedDomain(v * d)
  IN [near |-> stride * (fx \div Unit), step |-> IF v # Top THEN stride ELSE 0, rest |-> fx % Unit]
Axes(n, p, input) == [k \in 1 .. n |-> Axis(input[k], p.domain[k], p.opta[n - k + 1])]

\* The corner of a cell that is on the far side of these inputs.
Corner(axes, far) ==
  LET at[k \in 0 .. Len(axes)] ==
        IF k = 0 THEN 0 ELSE at[k - 1] + axes[k].near + (IF k \in far THEN axes[k].step ELSE 0)
  IN at[Len(axes)]
InTable(table, base, axes, out) ==
  base >= 0 /\ Corner(axes, {}) >= 0 /\ base + Corner(axes, DOMAIN axes) + out <= Len(table)

----------------------------------------------------------------------------
\* Both round half up and agree; the first is of unsigned 32 bits.
LinearInterp(a, l, h) == Word((DWord((h - l) * a + Half) \div Unit) + l)
Lerp(a, l, h) == Word(l + (Signed(Signed((h - l) * a) + Half) \div Unit))

\* One input and one output, and one input.
LinLerp1D(p, table, input) ==
  LET x == Axis(input[1], p.domain[1], 1)
  IN CASE input[1] = Top \/ p.domain[1] = 0 -> <<table[p.domain[1] + 1]>>
       [] ~InTable(table, 0, <<x>>, 1)     -> <<>>
       [] OTHER -> <<LinearInterp(x.rest, table[x.near + 1], table[x.near + x.step + 1])>>
Eval1Input(p, table, input) ==
  LET x    == Axis(input[1], p.domain[1], p.opta[1])
      last == p.domain[1] * p.opta[1]
  IN CASE input[1] = Top \/ p.domain[1] = 0 -> SubSeq(table, last + 1, last + p.out)
       [] ~InTable(table, 0, <<x>>, p.out) -> <<>>
       [] OTHER -> [c \in 1 .. p.out |-> LinearInterp(x.rest, table[x.near + c], table[x.near + x.step + c])]

BilinearInterp16(p, table, input) ==
  LET axes == Axes(2, p, input)
      Dens(far, c) == table[Corner(axes, far) + c]
      Row(far, c)  == Lerp(axes[1].rest, Dens(far, c), Dens(far \cup {1}, c))
  IN IF ~InTable(table, 0, axes, p.out) THEN <<>>
     ELSE [c \in 1 .. p.out |-> Lerp(axes[2].rest, Row({}, c), Row({2}, c))]

TrilinearInterp16(p, table, input) ==
  LET axes == Axes(3, p, input)
      Dens(far, c) == table[Corner(axes, far) + c]
      Row(far, c)  == Lerp(axes[1].rest, Dens(far, c), Dens(far \cup {1}, c))
      Side(far, c) == Lerp(axes[2].rest, Row(far, c), Row(far \cup {2}, c))
  IN IF ~InTable(table, 0, axes, p.out) THEN <<>>
     ELSE [c \in 1 .. p.out |-> Lerp(axes[3].rest, Side({}, c), Side({3}, c))]

\* A tetrahedron is a walk from the near corner to the far one, the input with
\* the largest rest first.  Equal rests give the same sum in either order.
\* Mistake: two of the orders are confused.
OrderConfused(r) ==
  IF r[1] >= r[2]
  THEN IF r[2] >= r[3] THEN <<1, 2, 3>> ELSE IF r[3] >= r[1] THEN <<1, 3, 2>> ELSE <<3, 1, 2>>
  ELSE IF r[1] >= r[3] THEN <<2, 1, 3>> ELSE IF r[2] >= r[3] THEN <<2, 3, 1>> ELSE <<3, 2, 1>>
Order(r) ==
  IF r[1] >= r[2]
  THEN IF r[2] >= r[3] THEN <<1, 2, 3>> ELSE IF r[3] >= r[1] THEN <<3, 1, 2>> ELSE <<1, 3, 2>>
  ELSE IF r[1] >= r[3] THEN <<2, 1, 3>> ELSE IF r[2] >= r[3] THEN <<2, 3, 1>> ELSE <<3, 2, 1>>
Walk(table, base, axes, c) ==
  LET order == Order([k \in 1 .. 3 |-> axes[k].rest])
      v     == [j \in 0 .. 3 |-> table[base + Corner(axes, {order[i] : i \in 1 .. j}) + c]]
  IN [from |-> v[0],
      sum  |-> (v[1] - v[0]) * axes[order[1]].rest + (v[2] - v[1]) * axes[order[2]].rest
               + (v[3] - v[2]) * axes[order[3]].rest]

\* The sum is kept in 32 bits and divided by Top.  It can wrap, and the
\* quotient is then one off.
TetrahedralInterp16(p, table, input) ==
  LET axes == Axes(3, p, input)
      Between(w) == LET rest == Signed(w.sum + Half + 1)
                    IN Word(w.from + (Signed(rest + (rest \div Unit)) \div Unit))
  IN IF ~InTable(table, 0, axes, p.out) THEN <<>>
     ELSE [c \in 1 .. p.out |-> Between(Walk(table, 0, axes, c))]

\* doPlane of Eval4Inputs: the sum is kept in 64 bits and divided by Unit.
Plane(table, base, axes, out) ==
  [c \in 1 .. out |-> LET w == Walk(table, base, axes, c) IN Word(w.from + ((w.sum + Half) \div Unit))]

\* DefaultInterpolatorsFactory, for words and up to three inputs.
Lerp16(p, table, input) ==
  CASE Len(p.domain) = 1 /\ p.out = 1       -> LinLerp1D(p, table, input)
    [] Len(p.domain) = 1 /\ p.out # 1       -> Eval1Input(p, table, input)
    [] Len(p.domain) = 2                    -> BilinearInterp16(p, table, input)
    [] Len(p.domain) = 3 /\ p.trilinear     -> TrilinearInterp16(p, table, input)
    [] Len(p.domain) = 3 /\ ~p.trilinear    -> TetrahedralInterp16(p, table, input)

\* The inputs of a plane of the first of n, copy(p1.Domain[:n-1], p.Domain[1:n]):
\* the last one is left where it was.
NextDomain(n, domain) == [k \in DOMAIN domain |-> IF k < n THEN domain[k + 1] ELSE domain[k]]
=============================================================================
