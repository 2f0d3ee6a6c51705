---------------------------- MODULE ClutAnswers ----------------------------
(***************************************************************************)
(* What the evaluations of ClutEvaluation answer, against the exact answer *)
(* and the one in floating point.                                          *)
(***************************************************************************)
EXTENDS ClutEvaluation, FloatInterpolation

CONSTANT Tolerance    \* how far from the exact answer an answer may be

\* A node count past half the width overflows the fixed-point position: the
\* code has no check of it.
Tall(job) == \E k \in DOMAIN Cluts[job.clut].nodes : Cluts[job.clut].nodes[k] > Half

\* The node of a table at these coordinates, and the exact answer: the inputs
\* are interpolated one by one, but the last three of a table that is not
\* trilinear together, as the mean, over every threshold, of the corner on the
\* far side of the inputs whose rest is over it.
NodeOf(clut, at, c) ==
  LET node[k \in 0 .. Len(at)] == IF k = 0 THEN 0 ELSE node[k - 1] * clut.nodes[k] + at[k]
  IN clut.table[node[Len(at)] * clut.out + c]
Single(clut) == IF Len(clut.nodes) < 3 \/ clut.trilinear THEN Len(clut.nodes) ELSE Len(clut.nodes) - 3
Scale(clut)  == Top ^ (IF Single(clut) = Len(clut.nodes) THEN Single(clut) ELSE Single(clut) + 1)
Px(clut, input, k) == input[k] * (clut.nodes[k] - 1)
Tetrahedron(clut, input, at, c) ==
  LET Past(k, t) == (Px(clut, input, k) \div Top) + (IF Px(clut, input, k) % Top > t THEN 1 ELSE 0)
      n == Len(clut.nodes)
      sum[t \in 0 .. Top] ==
        IF t = 0 THEN 0
        ELSE sum[t - 1] + NodeOf(clut, at \o <<Past(n - 2, t - 1), Past(n - 1, t - 1), Past(n, t - 1)>>, c)
  IN sum[Top]
RECURSIVE Exact(_, _, _, _)
Exact(clut, input, at, c) ==
  LET k    == Len(at) + 1
      cell == Px(clut, input, k) \div Top
      rest == Px(clut, input, k) % Top
  IN CASE k > Len(clut.nodes) -> NodeOf(clut, at, c)
       [] k > Single(clut) /\ k <= Len(clut.nodes) -> Tetrahedron(clut, input, at, c)
       [] OTHER -> (Top - rest) * Exact(clut, input, Append(at, cell), c)
                   + (IF rest = 0 THEN 0 ELSE rest * Exact(clut, input, Append(at, cell + 1), c))
Truth(job) ==
  LET clut == Cluts[job.clut] IN [c \in 1 .. clut.out |-> Exact(clut, job.input, <<>>, c)]
Jobs == UNION {UNION {{todo1[g][k] : k \in DOMAIN todo1[g]} : g \in Goroutines} : todo1 \in Work}
Truths == (NoJob :> <<>>) @@ [job \in {job \in Jobs : ~Tall(job)} |-> Truth(job)]

AtNode(job) ==
  \A k \in DOMAIN job.input : (job.input[k] * (Cluts[job.clut].nodes[k] - 1)) % Top = 0
Abs1(n) == IF n < 0 THEN -n ELSE n
Answered(g) == answer[g].clut # "none" /\ ~Tall(answer[g])
JobOf(g) == [clut |-> answer[g].clut, input |-> answer[g].input]

\* A colour on a node of the table, white and black among them, gets exactly
\* what the table has there, whatever the number of inputs.
NodesAreExact ==
  \A g \in Goroutines : Answered(g) /\ AtNode(answer[g]) =>
    [c \in DOMAIN answer[g].out |-> answer[g].out[c] * Scale(Cluts[answer[g].clut])] = Truths[JobOf(g)]

\* Any other colour gets an answer this far at most from the exact one, and no
\* panic, unless the table is too tall; the floating point answer is exact.
AnswersAreNear ==
  \A g \in Goroutines : Answered(g) =>
    LET clut  == Cluts[answer[g].clut]
        truth == Truths[JobOf(g)]
    IN /\ DOMAIN answer[g].out = 1 .. clut.out
       /\ \A c \in 1 .. clut.out : Abs1(answer[g].out[c] * Scale(clut) - truth[c]) <= Tolerance * Scale(clut)
       /\ LerpFloat(Params[answer[g].clut], clut.table, answer[g].input) = truth
=============================================================================
