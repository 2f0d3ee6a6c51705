-------------------------- MODULE MCClutEvaluation --------------------------
EXTENDS ClutAnswers
CONSTANTS g1, g2

\* A table of scattered values; one of the extremes; one with a step at each node.
Scattered(i) == (i * i * 5 + i * 3 + 2) % Unit
Extremes(i)  == IF (i * i + i \div 3) % 5 < 2 THEN Top ELSE 0
Sequence(f) == f \o <<>>     \* evaluated once
Size(nodes, out) == LET n[k \in 0 .. Len(nodes)] == IF k = 0 THEN out ELSE n[k - 1] * nodes[k] IN n[Len(nodes)]
Clut(nodes, out, trilinear) ==
  [nodes |-> nodes, out |-> out, trilinear |-> trilinear,
   table |-> Sequence([i \in 1 .. Size(nodes, out) |-> Scattered(i)])]
Hard(nodes, out, trilinear) ==
  [Clut(nodes, out, trilinear) EXCEPT !.table = Sequence([i \in DOMAIN @ |-> Extremes(i)])]
MCCluts ==
  [curve |-> Clut(<<4>>, 1, FALSE), point |-> Clut(<<1>>, 1, FALSE), gray |-> Clut(<<3>>, 2, FALSE),
   tall |-> Clut(<<6>>, 1, FALSE),
   duo |-> Clut(<<3, 2>>, 2, FALSE), rgb |-> Clut(<<2, 3, 4>>, 2, FALSE), rgbHard |-> Hard(<<2, 2, 3>>, 1, FALSE),
   lab |-> Clut(<<3, 2, 2>>, 1, TRUE), cmyk |-> Clut(<<2, 3, 2, 3>>, 1, FALSE),
   cmykHard |-> Hard(<<3, 2, 2, 2>>, 2, FALSE), tallK |-> Clut(<<6, 2, 2, 2>>, 1, FALSE),
   five |-> Clut(<<2, 3, 2, 3, 2>>, 2, FALSE), six |-> Clut(<<2, 2, 3, 2, 2, 3>>, 1, FALSE),
   tallSix |-> Clut(<<2, 6, 2, 2, 2, 2>>, 1, FALSE)]

Job(clut, input) == [clut |-> clut, input |-> input]
Inputs(n, values) == [1 .. n -> values]
Words == 0 .. Top
\* One goroutine alone.
Points ==
  {Job(c, i) : c \in {"curve", "point", "gray", "tall"}, i \in Inputs(1, Words)}
  \cup {Job("duo", i) : i \in Inputs(2, Words)}
  \cup {Job(c, i) : c \in {"rgb", "rgbHard", "lab"}, i \in Inputs(3, Words)}
  \cup {Job("cmyk", i) : i \in Inputs(4, {0, 2, 3, 5, 7})}
  \cup {Job("cmykHard", i) : i \in Inputs(4, {0, 3, 4, 6, 7})}
  \cup {Job("tallK", i) : i \in Inputs(4, {1, 7})}
  \cup {Job("five", i) : i \in Inputs(5, {0, 3, 7})}
  \cup {Job("six", i) : i \in Inputs(6, {0, 4, 7})}
\* Two at once.
Deep == {Job("five", <<3, 5, 0, 6, 2>>), Job("six", <<7, 1, 2, 6, 0, 5>>), Job("tallSix", <<1, 7, 2, 3, 4, 5>>)}
MCWork ==
  {(g1 :> <<p>>) @@ (g2 :> <<>>) : p \in Points}
  \cup {(g1 :> <<p>>) @@ (g2 :> <<q>>) : p \in Deep, q \in Deep}
=============================================================================
