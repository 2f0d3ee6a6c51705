------------------------- MODULE FloatInterpolation -------------------------
(***************************************************************************)
(* The same look-ups in floating point.  The input v stands for v / Top,   *)
(* and may be outside 0 .. 1; an interpolation gives its answer times Top. *)
(***************************************************************************)
EXTENDS Interpolation

Fclamp(v) == IF v < 0 THEN 0 ELSE IF v > Top THEN Top ELSE v
FloatAxis(v, d, stride) ==
  LET px == Fclamp(v) * d
  IN [near |-> stride * (px \div Top), step |-> IF v < Top THEN stride ELSE 0, rest |-> px % Top]
FloatAxes(n, p, input) == [k \in 1 .. n |-> FloatAxis(input[k], p.domain[k], p.opta[n - k + 1])]
FloatLerp(a, l, h) == l * Top + (h - l) * a

LinLerp1Dfloat(p, table, input) ==
  LET px   == Fclamp(input[1]) * p.domain[1]
      y0   == table[(px \div Top) + 1]
      y1   == table[((px + Top - 1) \div Top) + 1]
  IN IF Fclamp(input[1]) = Top \/ p.domain[1] = 0 THEN <<table[p.domain[1] + 1] * Top>>
     ELSE <<FloatLerp(px % Top, y0, y1)>>
Eval1InputFloat(p, table, input) ==
  LET px    == Fclamp(input[1]) * p.domain[1]
      cell1 == (px + Top - 1) \div Top
      K0    == (px \div Top) * p.opta[1]
      K1    == (IF cell1 >= Len(table) THEN Len(table) - 1 ELSE cell1) * p.opta[1]
      last  == p.domain[1] * p.opta[1]
  IN IF Fclamp(input[1]) = Top \/ p.domain[1] = 0 THEN [c \in 1 .. p.out |-> table[last + c] * Top]
     ELSE [c \in 1 .. p.out |-> FloatLerp(px % Top, table[K0 + c], table[K1 + c])]

BilinearInterpFloat(p, table, input) ==
  LET axes == FloatAxes(2, p, input)
      Row(far, c) == FloatLerp(axes[1].rest, table[Corner(axes, far) + c], table[Corner(axes, far \cup {1}) + c])
  IN [c \in 1 .. p.out |-> FloatLerp(axes[2].rest, Row({}, c), Row({2}, c))]
TrilinearInterpFloat(p, table, input) ==
  LET axes == FloatAxes(3, p, input)
      Row(far, c)  == FloatLerp(axes[1].rest, table[Corner(axes, far) + c], table[Corner(axes, far \cup {1}) + c])
      Side(far, c) == FloatLerp(axes[2].rest, Row(far, c), Row(far \cup {2}, c))
  IN [c \in 1 .. p.out |-> FloatLerp(axes[3].rest, Side({}, c), Side({3}, c))]
FloatPlane(table, base, axes, out) ==
  [c \in 1 .. out |-> LET w == Walk(table, base, axes, c) IN w.from * Top + w.sum]
TetrahedralInterpFloat(p, table, input) == FloatPlane(table, 0, FloatAxes(3, p, input), p.out)

\* Eval4InputsFloat, and those of more inputs: two planes of the first input,
\* each a table of the inputs after it.
FloatBlend(x, lo, hi) == [c \in DOMAIN lo |-> FloatLerp(x.rest, lo[c], hi[c])]
FirstAxis(n, p, input) == FloatAxis(input[1], p.domain[1], p.opta[n])
Eval4InputsFloat(p, table, base, input) ==
  LET x    == FirstAxis(4, p, input)
      axes == Tail(FloatAxes(4, p, input))
  IN FloatBlend(x, FloatPlane(table, base + x.near, axes, p.out),
                   FloatPlane(table, base + x.near + x.step, axes, p.out))
RECURSIVE EvalMoreInputsFloat(_, _, _, _, _)
EvalMoreInputsFloat(n, p, table, base, input) ==
  LET x  == FirstAxis(n, p, input)
      p1 == [p EXCEPT !.domain = NextDomain(n, p.domain)]
  IN IF n = 4 THEN Eval4InputsFloat(p, table, base, input)
     ELSE FloatBlend(x, EvalMoreInputsFloat(n - 1, p1, table, base + x.near, Tail(input)),
                        EvalMoreInputsFloat(n - 1, p1, table, base + x.near + x.step, Tail(input)))
LerpFloat(p, table, input) ==
  LET n == Len(p.domain)
  IN CASE n = 1 /\ p.out = 1    -> LinLerp1Dfloat(p, table, input)
       [] n = 1 /\ p.out # 1    -> Eval1InputFloat(p, table, input)
       [] n = 2                 -> BilinearInterpFloat(p, table, input)
       [] n = 3 /\ p.trilinear  -> TrilinearInterpFloat(p, table, input)
       [] n = 3 /\ ~p.trilinear -> TetrahedralInterpFloat(p, table, input)
       [] OTHER                 -> EvalMoreInputsFloat(n, p, table, 0, input)
=============================================================================
