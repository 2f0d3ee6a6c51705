------------------------ MODULE PipelineHeapProofs ------------------------
(***************************************************************************)
(* What PipelineHeap promises, for every number of stages and pipelines.   *)
(*                                                                         *)
(* The invariant says which chain each pipeline is, p: distinct stages     *)
(* linked in that order, none of them in another chain or in the caller's  *)
(* hands, with the channels of its ends (Sound); and of PreOptimize, that  *)
(* it is after the first i of them and that the rules it has been through  *)
(* match nothing behind it, unless it has something to tell (Running,      *)
(* Cleared).  CellsOf walks along Next; that it gives p back is proved     *)
(* once (PlacesAreChains), and each operation is shown to leave a heap     *)
(* with chains p', not to change what the walk returns.                    *)
(*                                                                         *)
(* The second half shows that PipelineHeap implements PipelineLists: read  *)
(* along its chain a pipeline is a sequence of stages (ListOf), each       *)
(* operation on the chains is the one on the sequences, and what           *)
(* PreOptimize takes out or multiplies leaves a pipeline that computes     *)
(* the same.                                                               *)
(***************************************************************************)
EXTENDS PipelineHeap, SequenceTheorems, FiniteSetTheorems, WellFoundedInduction, TLAPS

----------------------------------------------------------------------------
(* Loops: induction over their rounds, and what they compute.              *)

\* A set of natural numbers has a least.
LEMMA LeastNatural ==
  ASSUME NEW T, T \subseteq Nat, T # {}
  PROVE  \E x \in T : \A y \in T : x <= y
<1> DEFINE R == {ss \in Nat \X Nat : ss[1] < ss[2]}
<1>1. IsWellFoundedOn(OpToRel(<, Nat), Nat)
  BY NatLessThanWellFounded
<1>2. OpToRel(<, Nat) = R
  BY DEF OpToRel
<1>3. IsWellFoundedOn(R, Nat)
  BY <1>1, <1>2, Zenon
<1>4. ASSUME NEW x \in T, NEW y \in T, ~(<<y, x>> \in R)
      PROVE  x <= y
  <2>1. <<y, x>> \in Nat \X Nat /\ <<y, x>>[1] = y /\ <<y, x>>[2] = x
    OBVIOUS
  <2>2. ~(y < x)
    BY <1>4, <2>1, Zenon
  <2>3. QED
    BY <2>2
<1> HIDE DEF R
<1>5. PICK x \in T : \A y \in T : ~(<<y, x>> \in R)
  BY <1>3, WFMin
<1>6. QED
  BY <1>4, <1>5

\* Induction over an interval.
LEMMA Induction ==
  ASSUME NEW n \in Nat, NEW S, 0 \in S, \A i \in 0 .. n : i \in S /\ i < n => i + 1 \in S
  PROVE  0 .. n \subseteq S
<1> SUFFICES ASSUME (0 .. n) \ S # {} PROVE FALSE
  OBVIOUS
<1>0. (0 .. n) \ S \subseteq Nat
  OBVIOUS
<1>1. PICK x \in (0 .. n) \ S : \A y \in (0 .. n) \ S : x <= y
  BY <1>0, LeastNatural
<1>2. x # 0 /\ x - 1 \in 0 .. n
  BY <1>1
<1>3. QED
  BY <1>1, <1>2

\* What a loop computes: after[i] is what it has after i rounds.
IsLoop(after, n, S, first, round) ==
  /\ after \in [0 .. n -> S]
  /\ after[0] = first
  /\ \A i \in 1 .. n : after[i] = round[<<i, after[i - 1]>>]

\* It exists.
LEMMA Iteration ==
  ASSUME NEW n \in Nat, NEW S, NEW c \in S,
         NEW G \in [(1 .. n) \X S -> S]
  PROVE  \E f : IsLoop(f, n, S, c, G)
<1> DEFINE P(k, f) == /\ f \in [0 .. k -> S]
                      /\ f[0] = c
                      /\ \A i \in 1 .. k : f[i] = G[<<i, f[i - 1]>>]
           Reached == { k \in 0 .. n : \E f : P(k, f) }
<1>0. \A i \in 1 .. n, x \in S : G[<<i, x>>] \in S
  OBVIOUS
<1>1. 0 \in Reached
  <2>1. P(0, [i \in 0 .. 0 |-> c])
    OBVIOUS
  <2> HIDE DEF P
  <2>2. 0 \in 0 .. n
    OBVIOUS
  <2>3. QED
    BY <2>1, <2>2
<1>2. ASSUME NEW k \in 0 .. n, k \in Reached, k < n
      PROVE  k + 1 \in Reached
  <2>1. PICK f : P(k, f)
    BY <1>2
  <2> DEFINE g == [i \in 0 .. k + 1 |-> IF i = k + 1 THEN G[<<k + 1, f[k]>>] ELSE f[i]]
  <2>2. f[k] \in S /\ k + 1 \in 1 .. n
    BY <2>1, <1>2
  <2>3. G[<<k + 1, f[k]>>] \in S
    BY <2>2, <1>0
  <2>4. g \in [0 .. k + 1 -> S] /\ g[0] = c
    BY <2>1, <2>3
  <2>5. ASSUME NEW i \in 1 .. k + 1
        PROVE  g[i] = G[<<i, g[i - 1]>>]
    <3>1. CASE i = k + 1
      BY <3>1
    <3>2. CASE i # k + 1
      <4>1. i \in 1 .. k /\ g[i] = f[i] /\ g[i - 1] = f[i - 1]
        BY <3>2
      <4>2. QED
        BY <4>1, <2>1
    <3>3. QED
      BY <3>1, <3>2
  <2>6. P(k + 1, g)
    BY <2>4, <2>5
  <2> HIDE DEF P
  <2>7. k + 1 \in 0 .. n
    BY <1>2
  <2>8. QED
    BY <2>6, <2>7
<1> HIDE DEF Reached, P
<1>3. n \in Reached
  BY <1>1, <1>2, Induction
<1> USE DEF Reached, P
<1>4. PICK f : P(n, f)
  BY <1>3
<1>5. QED
  BY <1>4 DEF IsLoop

----------------------------------------------------------------------------
(* Chains.                                                                 *)

\* The chain from head on is s.
Linked(next, head, s) ==
  /\ s \in Seq(Cells)
  /\ \A j, k \in 1 .. Len(s) : s[j] = s[k] => j = k
  /\ head = IF s = <<>> THEN Nil ELSE s[1]
  /\ \A k \in 1 .. Len(s) : next[s[k]] = IF k = Len(s) THEN Nil ELSE s[k + 1]

LEMMA CellFacts == /\ NCells \in Nat /\ NCells > 0 /\ Nil \notin Cells /\ Cells \subseteq Nat
                   /\ IsFiniteSet(Cells) /\ Cardinality(Cells) = NCells
<1>1. NCells \in Nat /\ NCells > 0
  BY CellsAssumption
<1>2. IsFiniteSet(1 .. NCells) /\ Cardinality(1 .. NCells) = NCells
  BY <1>1, FS_Interval
<1>3. QED
  BY <1>1, <1>2 DEF Cells, Nil

\* Stages that are all different are no more than there are.
LEMMA NoLongerThanAll ==
  ASSUME NEW s \in Seq(Cells), \A j, k \in 1 .. Len(s) : s[j] = s[k] => j = k
  PROVE  Len(s) <= NCells
<1>1. Len(s) \in Nat /\ s \in [1 .. Len(s) -> Cells]
  BY LenProperties
<1>2. IsFiniteSet(1 .. Len(s)) /\ Cardinality(1 .. Len(s)) = Len(s)
  BY <1>1, FS_Interval
<1>3. SUFFICES ASSUME NCells < Len(s) PROVE FALSE
  BY <1>1, CellFacts
<1>4. \E j, k \in 1 .. Len(s) : j # k /\ s[j] = s[k]
  BY <1>1, <1>2, <1>3, CellFacts, FS_PigeonHole
<1>5. QED
  BY <1>4

\* One stage and what follows it.
LEMMA SuffixStep ==
  ASSUME NEW s \in Seq(Cells), NEW k \in 1 .. Len(s)
  PROVE  SubSeq(s, k, Len(s)) = <<s[k]>> \o SubSeq(s, k + 1, Len(s))
<1>1. Len(s) \in k .. Len(s)
  BY LenProperties
<1>2. QED
  BY <1>1, SubSeqRecursiveFirst

\* Walking along a chain gives its stages in order.
LEMMA ChainIsWalked ==
  ASSUME NEW next \in [Cells -> Cells \cup {Nil}], NEW head, NEW s, Linked(next, head, s)
  PROVE  Chain(next, head) = s
<1> DEFINE S == [Cells \cup {Nil} -> Seq(Cells)]
           Round(room, f) == [c \in Cells \cup {Nil} |->
                                IF c = Nil \/ room = 0 THEN <<>> ELSE <<c>> \o f[next[c]]]
           Shorter == [c \in Cells \cup {Nil} |-> <<>>]
           Rounds == [x \in (1 .. NCells) \X S |-> Round(x[1], x[2])]
           Right(f) == f = [room \in 0 .. NCells |->
                              [c \in Cells \cup {Nil} |->
                                 IF c = Nil \/ room = 0 THEN <<>> ELSE <<c>> \o f[room - 1][next[c]]]]
           from == CHOOSE f : Right(f)
<1>1. NCells \in Nat
  BY CellFacts
<1>2. Shorter \in S
  BY EmptySeq
<1>3. Rounds \in [(1 .. NCells) \X S -> S]
  <2>1. SUFFICES ASSUME NEW room \in 1 .. NCells, NEW f \in S PROVE Round(room, f) \in S
    OBVIOUS
  <2>2. SUFFICES ASSUME NEW c \in Cells, room # 0 PROVE <<c>> \o f[next[c]] \in Seq(Cells)
    BY EmptySeq
  <2>3. <<c>> \in Seq(Cells) /\ f[next[c]] \in Seq(Cells)
    OBVIOUS
  <2>4. QED
    BY <2>3, ConcatProperties
<1> HIDE DEF Rounds, S
<1>4. PICK f : IsLoop(f, NCells, S, Shorter, Rounds)
  BY <1>1, <1>2, <1>3, Iteration
<1>5. f \in [0 .. NCells -> S] /\ f[0] = Shorter
      /\ \A i \in 1 .. NCells : f[i] = Rounds[<<i, f[i - 1]>>]
  BY <1>4 DEF IsLoop
<1>6. Right(f)
  <2>1. ASSUME NEW room \in 0 .. NCells
        PROVE  f[room] = [c \in Cells \cup {Nil} |->
                            IF c = Nil \/ room = 0 THEN <<>> ELSE <<c>> \o f[room - 1][next[c]]]
    <3>1. CASE room = 0
      BY <1>5, <3>1
    <3>2. CASE room # 0
      <4>1. room \in 1 .. NCells /\ room - 1 \in 0 .. NCells
        BY <3>2, <1>1
      <4>2. f[room] = Rounds[<<room, f[room - 1]>>] /\ f[room - 1] \in S
        BY <4>1, <1>5
      <4>3. f[room] = Round(room, f[room - 1])
        BY <4>1, <4>2 DEF Rounds
      <4>4. QED
        BY <4>3
    <3>3. QED
      BY <3>1, <3>2
  <2>2. f = [room \in 0 .. NCells |-> f[room]]
    BY <1>5
  <2>3. QED
    BY <2>1, <2>2
<1>7. Right(from)
  BY <1>6
<1> HIDE DEF from
<1>8. \A room \in 0 .. NCells :
         /\ from[room][Nil] = <<>>
         /\ \A c \in Cells : room # 0 => from[room][c] = <<c>> \o from[room - 1][next[c]]
  <2>1. SUFFICES ASSUME NEW room \in 0 .. NCells
                 PROVE  /\ from[room][Nil] = <<>>
                        /\ \A c \in Cells : room # 0 => from[room][c] = <<c>> \o from[room - 1][next[c]]
    OBVIOUS
  <2>2. from[room] = [c \in Cells \cup {Nil} |->
                        IF c = Nil \/ room = 0 THEN <<>> ELSE <<c>> \o from[room - 1][next[c]]]
    BY <1>7, <2>1, Zenon
  <2>3. QED
    BY <2>2, CellFacts
<1>9. Len(s) \in Nat /\ s \in [1 .. Len(s) -> Cells]
  BY LenProperties DEF Linked
<1> DEFINE Good == {room \in 0 .. NCells :
                      \A k \in 1 .. Len(s) : Len(s) - k + 1 <= room => from[room][s[k]] = SubSeq(s, k, Len(s))}
<1>10. 0 \in Good
  BY <1>1, <1>9
<1>11. ASSUME NEW room \in 0 .. NCells, room \in Good, room < NCells
       PROVE  room + 1 \in Good
  <2>1. SUFFICES ASSUME NEW k \in 1 .. Len(s), Len(s) - k + 1 <= room + 1
                 PROVE  from[room + 1][s[k]] = SubSeq(s, k, Len(s))
    BY <1>1, <1>11
  <2>2. from[room + 1][s[k]] = <<s[k]>> \o from[room][next[s[k]]]
    <3>1. room + 1 \in 0 .. NCells /\ room + 1 # 0 /\ (room + 1) - 1 = room /\ s[k] \in Cells
      BY <1>1, <1>9, <1>11
    <3>2. QED
      BY <3>1, <1>8
  <2>3. from[room][next[s[k]]] = SubSeq(s, k + 1, Len(s))
    <3>1. CASE k = Len(s)
      <4>1. next[s[k]] = Nil
        BY <3>1, <1>9 DEF Linked
      <4>2. from[room][Nil] = <<>>
        BY <1>8
      <4>3. SubSeq(s, k + 1, Len(s)) = <<>>
        BY <3>1, <1>9, SubSeqEmpty
      <4>4. QED
        BY <4>1, <4>2, <4>3
    <3>2. CASE k # Len(s)
      <4>1. k + 1 \in 1 .. Len(s) /\ Len(s) - (k + 1) + 1 <= room
        <5>1. \A n, r \in Nat : \A j \in 1 .. n : j # n /\ n - j + 1 <= r + 1 =>
                j + 1 \in 1 .. n /\ n - (j + 1) + 1 <= r
          OBVIOUS
        <5>2. room \in Nat /\ Len(s) \in Nat
          BY <1>1, <1>9
        <5>3. QED
          BY <5>1, <5>2, <3>2, <2>1
      <4>2. next[s[k]] = s[k + 1]
        BY <3>2, <1>9 DEF Linked
      <4>3. QED
        BY <4>1, <4>2, <1>11
    <3>3. QED
      BY <3>1, <3>2
  <2>4. QED
    BY <2>2, <2>3, SuffixStep DEF Linked
<1> HIDE DEF Good
<1>12. NCells \in Good
  BY <1>1, <1>10, <1>11, Induction
<1>13. Chain(next, head) = from[NCells][head]
  BY DEF Chain, from
<1> NCells \in 0 .. NCells
  BY <1>1
<1>14. CASE s = <<>>
  <2>1. head = Nil
    BY <1>14 DEF Linked
  <2>2. QED
    BY <1>8, <1>13, <1>14, <2>1
<1>15. CASE s # <<>>
  <2>1. 1 \in 1 .. Len(s) /\ head = s[1]
    <3>1. s \in Seq(Cells) /\ head = s[1]
      BY <1>15 DEF Linked
    <3>2. Len(s) \in Nat \ {0}
      BY <3>1, <1>15, EmptySeq
    <3>3. QED
      BY <3>1, <3>2
  <2>2. Len(s) - 1 + 1 <= NCells
    <3>1. Len(s) <= NCells
      BY NoLongerThanAll DEF Linked
    <3>2. QED
      BY <1>9, <3>1
  <2>3. from[NCells][s[1]] = SubSeq(s, 1, Len(s))
    BY <1>12, <2>1, <2>2 DEF Good
  <2>4. SubSeq(s, 1, Len(s)) = s
    BY SubSeqFull DEF Linked
  <2>5. QED
    BY <1>13, <2>1, <2>3, <2>4
<1>16. QED
  BY <1>14, <1>15

----------------------------------------------------------------------------
(* Who owns the stages.                                                    *)

\* The stages there can be: those a caller makes and the products of matrices.
Stages == {Kinds[k] : k \in DOMAIN Kinds} \cup {StageAllocMatrix(3, 3, m, <<>>) : m \in [1 .. 9 -> Int]}
StagesOrNone == Stages \cup {NoStage}
LutsAre == [in : Nat, out : Nat, head : Cells \cup {Nil}, nil : BOOLEAN]
Heaps == [stage : [Cells -> StagesOrNone], next : [Cells -> Cells \cup {Nil}], lut : [Luts -> LutsAre]]

\* What the chains can be.
Chains == [Luts -> Seq(Cells)]

\* Pipeline l is the chain p[l], and the caller holds the stages of H.
Owned(h, p, H) ==
  /\ h \in Heaps /\ p \in [Luts -> Seq(Cells)] /\ H \subseteq Cells
  /\ \A l \in Luts : Linked(h.next, h.lut[l].head, p[l]) /\ (h.lut[l].nil => p[l] = <<>>)
  /\ \A l \in Luts : \A k \in 1 .. Len(p[l]) :
       /\ p[l][k] \notin H /\ h.stage[p[l][k]] # NoStage
       /\ \A m \in Luts \ {l} : \A j \in 1 .. Len(p[m]) : p[m][j] # p[l][k]
  /\ \A c \in H : h.stage[c] # NoStage /\ h.next[c] = Nil

\* The stages of the other pipelines.
Elsewhere(p, l) == {c \in Cells : \E m \in Luts \ {l} : \E k \in 1 .. Len(p[m]) : p[m][k] = c}

LEMMA FunctionsAreSeqs ==
  ASSUME NEW S, NEW n \in Nat, NEW f \in [1 .. n -> S]
  PROVE  f \in Seq(S) /\ Len(f) = n /\ DOMAIN f = 1 .. n
  BY SeqDef

LEMMA PlacesAreChains ==
  ASSUME NEW h, NEW p, NEW H, Owned(h, p, H), NEW l \in Luts
  PROVE  /\ CellsOf(h, l) = p[l] /\ p[l] \in Seq(Cells) /\ Linked(h.next, h.lut[l].head, p[l])
         /\ Len(p[l]) \in Nat /\ DOMAIN p[l] = 1 .. Len(p[l]) /\ p[l] \in [1 .. Len(p[l]) -> Cells]
         /\ StagesOf(h, l) = [k \in 1 .. Len(p[l]) |-> h.stage[p[l][k]]]
         /\ StagesOf(h, l) \in Seq(StagesOrNone) /\ Len(StagesOf(h, l)) = Len(p[l])
<1>1. h.next \in [Cells -> Cells \cup {Nil}] /\ Linked(h.next, h.lut[l].head, p[l]) /\ p[l] \in Seq(Cells)
  BY DEF Owned, Heaps
<1>2. CellsOf(h, l) = p[l]
  BY <1>1, ChainIsWalked DEF CellsOf
<1>3. Len(p[l]) \in Nat /\ DOMAIN p[l] = 1 .. Len(p[l]) /\ p[l] \in [1 .. Len(p[l]) -> Cells]
  BY <1>1, LenProperties
<1>4. StagesOf(h, l) = [k \in 1 .. Len(p[l]) |-> h.stage[p[l][k]]]
  BY <1>2, <1>3 DEF StagesOf
<1>5. h.stage \in [Cells -> StagesOrNone]
  BY DEF Owned, Heaps
<1>6. StagesOf(h, l) \in [1 .. Len(p[l]) -> StagesOrNone]
  BY <1>3, <1>4, <1>5
<1>7. StagesOf(h, l) \in Seq(StagesOrNone) /\ Len(StagesOf(h, l)) = Len(p[l])
  BY <1>3, <1>6, FunctionsAreSeqs
<1>8. QED
  BY <1>1, <1>2, <1>3, <1>4, <1>7

\* The chains of p, with s as that of l.
With(p, l, s) == [p EXCEPT ![l] = s]

LEMMA WithIs ==
  ASSUME NEW p \in [Luts -> Seq(Cells)], NEW l \in Luts, NEW s \in Seq(Cells), NEW q, q = With(p, l, s)
  PROVE  q \in [Luts -> Seq(Cells)] /\ q[l] = s /\ \A m \in Luts \ {l} : q[m] = p[m]
  BY DEF With

\* In g the pipeline l is linked as s, and the caller holds G; the other
\* pipelines are as in h.
Relinked(h, p, l, g, s, G) ==
  /\ g \in Heaps /\ G \subseteq Cells
  /\ \A m \in Luts \ {l} : g.lut[m] = h.lut[m]
  /\ \A c \in Elsewhere(p, l) : c \notin G /\ g.next[c] = h.next[c] /\ g.stage[c] = h.stage[c]
  /\ Linked(g.next, g.lut[l].head, s) /\ (g.lut[l].nil => s = <<>>)
  /\ \A k \in 1 .. Len(s) : s[k] \notin Elsewhere(p, l) /\ s[k] \notin G /\ g.stage[s[k]] # NoStage
  /\ \A c \in G : g.stage[c] # NoStage /\ g.next[c] = Nil

LEMMA OneIsLinkedAgain ==
  ASSUME NEW h, NEW p, NEW H, Owned(h, p, H), NEW l \in Luts,
         NEW g, NEW s, NEW G, Relinked(h, p, l, g, s, G)
  PROVE  Owned(g, With(p, l, s), G)
<1> DEFINE q == With(p, l, s)
<1> USE DEF Relinked
<1>1. p \in [Luts -> Seq(Cells)] /\ s \in Seq(Cells)
  BY DEF Owned, Linked
<1>2. q \in [Luts -> Seq(Cells)] /\ q[l] = s /\ \A m \in Luts \ {l} : q[m] = p[m]
  BY <1>1, WithIs
<1> HIDE DEF q
<1>3. ASSUME NEW m \in Luts \ {l}, NEW k \in 1 .. Len(p[m])
      PROVE  p[m][k] \in Elsewhere(p, l)
  BY <1>1, ElementOfSeq DEF Elsewhere
<1>4. ASSUME NEW m \in Luts PROVE Linked(g.next, g.lut[m].head, q[m]) /\ (g.lut[m].nil => q[m] = <<>>)
  <2>1. CASE m = l
    BY <2>1, <1>2
  <2>2. CASE m # l
    <3>1. \A k \in 1 .. Len(p[m]) : g.next[p[m][k]] = h.next[p[m][k]]
      BY <2>2, <1>3
    <3>2. Linked(h.next, h.lut[m].head, p[m]) /\ (h.lut[m].nil => p[m] = <<>>) /\ g.lut[m] = h.lut[m]
      BY <2>2 DEF Owned
    <3>3. Linked(g.next, g.lut[m].head, p[m])
      BY <3>1, <3>2 DEF Linked
    <3>4. QED
      BY <2>2, <3>2, <3>3, <1>2
  <2>3. QED
    BY <2>1, <2>2
<1>5. ASSUME NEW m \in Luts, NEW k \in 1 .. Len(q[m])
      PROVE  /\ q[m][k] \notin G /\ g.stage[q[m][k]] # NoStage
             /\ \A n \in Luts \ {m} : \A j \in 1 .. Len(q[n]) : q[n][j] # q[m][k]
  <2>1. CASE m = l
    BY <2>1, <1>2, <1>3
  <2>2. CASE m # l
    <3>1. p[m][k] \in Elsewhere(p, l) /\ q[m] = p[m]
      BY <2>2, <1>2, <1>3
    <3>2. h.stage[p[m][k]] # NoStage
          /\ \A n \in Luts \ {m} : \A j \in 1 .. Len(p[n]) : p[n][j] # p[m][k]
      BY <3>1 DEF Owned
    <3>3. ASSUME NEW n \in Luts \ {m}, NEW j \in 1 .. Len(q[n]) PROVE q[n][j] # q[m][k]
      <4>1. CASE n = l
        BY <4>1, <3>1, <1>2
      <4>2. CASE n # l
        BY <4>2, <3>1, <3>2, <1>2
      <4>3. QED
        BY <4>1, <4>2
    <3>4. QED
      BY <3>1, <3>2, <3>3
  <2>3. QED
    BY <2>1, <2>2
<1>6. QED
  BY <1>2, <1>4, <1>5 DEF Owned, q

\* Channels do not say who owns a stage.
LEMMA ChannelsAside ==
  ASSUME NEW h, NEW p, NEW H, Owned(h, p, H), NEW g \in Heaps, g.next = h.next, g.stage = h.stage,
         \A l \in Luts : g.lut[l].head = h.lut[l].head /\ g.lut[l].nil = h.lut[l].nil
  PROVE  Owned(g, p, H)
  BY DEF Owned

LEMMA MatrixStage ==
  ASSUME NEW m \in [1 .. 9 -> Int]
  PROVE  StageAllocMatrix(3, 3, m, <<>>) =
           [type |-> "Matrix", implements |-> "Matrix", in |-> 3, out |-> 3,
            data |-> [matrix |-> m, offset |-> <<>>]]
<1>1. 3 * 3 # 0
  OBVIOUS
<1>2. QED
  BY <1>1 DEF StageAllocMatrix, StageAllocPlaceholder

LEMMA StagesAreWellMade == \A s \in Stages : WellMade(s)
<1>1. \A k \in DOMAIN Kinds : WellMade(Kinds[k])
  BY KindsAssumption
<1>2. ASSUME NEW m \in [1 .. 9 -> Int]
      PROVE  WellMade(StageAllocMatrix(3, 3, m, <<>>))
  <2> DEFINE s == StageAllocMatrix(3, 3, m, <<>>)
  <2>1. /\ s.type = "Matrix" /\ s.implements = "Matrix" /\ s.in = 3 /\ s.out = 3
        /\ s.data.matrix = m /\ s.data.offset = <<>>
    BY MatrixStage
  <2> HIDE DEF s
  <2>2. s # NoStage /\ StageDup(s) = s
    BY <2>1 DEF NoStage, StageDup
  <2>3. s.in * s.out = 9
    BY <2>1
  <2>4. s.data.matrix \in [1 .. s.in * s.out -> Int]
    BY <2>1, <2>3
  <2>5. WellMade(s)
    BY <2>1, <2>2, <2>4 DEF WellMade
  <2>6. QED
    BY <2>5 DEF s
<1>3. QED
  BY <1>1, <1>2 DEF Stages

LEMMA StageChannels ==
  ASSUME NEW s \in StagesOrNone
  PROVE  s.in \in Nat /\ s.out \in Nat
<1>1. CASE s = NoStage
  BY <1>1 DEF NoStage
<1>2. CASE s # NoStage
  BY <1>2, StagesAreWellMade DEF WellMade, StagesOrNone
<1>3. QED
  BY <1>1, <1>2

LEMMA TwoFields ==
  ASSUME NEW x \in LutsAre, NEW i, NEW o
  PROVE  [x EXCEPT !.in = i, !.out = o] = [in |-> i, out |-> o, head |-> x.head, nil |-> x.nil]
<1> DEFINE y == [x EXCEPT !.in = i]
<1>1. y = [in |-> i, out |-> x.out, head |-> x.head, nil |-> x.nil]
  BY DEF LutsAre
<1> HIDE DEF y
<1>2. [y EXCEPT !.out = o] = [in |-> i, out |-> o, head |-> x.head, nil |-> x.nil]
  BY <1>1
<1>3. QED
  BY <1>2 DEF y

LEMMA ChannelsSet ==
  ASSUME NEW h \in Heaps, NEW l \in Luts, NEW i \in Nat, NEW o \in Nat,
         NEW g, g = SetChannels(h, l, i, o)
  PROVE  /\ g \in Heaps /\ g.stage = h.stage /\ g.next = h.next
         /\ g.lut = [h.lut EXCEPT ![l] = [in |-> i, out |-> o, head |-> h.lut[l].head, nil |-> h.lut[l].nil]]
<1> DEFINE r == [in |-> i, out |-> o, head |-> h.lut[l].head, nil |-> h.lut[l].nil]
<1>1. h.lut[l] \in LutsAre
  BY DEF Heaps
<1>2. r \in LutsAre
  BY <1>1 DEF LutsAre
<1>3. [h.lut[l] EXCEPT !.in = i, !.out = o] = r
  BY <1>1, TwoFields
<1>4. g = [h EXCEPT !.lut = [h.lut EXCEPT ![l] = r]]
  BY <1>3 DEF SetChannels
<1> HIDE DEF r
<1>5. g \in Heaps /\ g.stage = h.stage /\ g.next = h.next /\ g.lut = [h.lut EXCEPT ![l] = r]
  BY <1>2, <1>4 DEF Heaps
<1>6. QED
  BY <1>5 DEF r

\* The channels of pipeline l are those of its ends.
EndsAre(h, p, l) ==
  p[l] # <<>> => h.lut[l].in = h.stage[p[l][1]].in /\ h.lut[l].out = h.stage[p[l][Len(p[l])]].out

\* BlessLUT sets the channels and nothing else.
LEMMA Blessing ==
  ASSUME NEW h, NEW p, NEW H, Owned(h, p, H), NEW l \in Luts, NEW g, g = BlessLUT(h, l)
  PROVE  /\ Owned(g, p, H) /\ g.next = h.next /\ g.stage = h.stage
         /\ \A m \in Luts \ {l} : g.lut[m] = h.lut[m]
         /\ g.lut[l].head = h.lut[l].head /\ g.lut[l].nil = h.lut[l].nil
         /\ EndsAre(g, p, l) /\ (p[l] = <<>> => g = h)
<1>1. h \in Heaps
  BY DEF Owned
<1> DEFINE s == StagesOf(h, l)
           n == Len(p[l])
<1>2. n \in Nat /\ p[l] \in [1 .. n -> Cells] /\ s = [k \in 1 .. n |-> h.stage[p[l][k]]]
  BY PlacesAreChains
<1>3. CASE p[l] = <<>>
  <2>1. s = <<>>
    BY <1>2, <1>3
  <2>2. g = h
    BY <2>1 DEF BlessLUT
  <2>3. QED
    BY <1>3, <2>2 DEF EndsAre
<1>4. CASE p[l] # <<>>
  <2>1. n \in Nat \ {0}
    BY <1>4, EmptySeq, PlacesAreChains
  <2>2. s # <<>> /\ Head(s) = h.stage[p[l][1]] /\ Last(s) = h.stage[p[l][n]]
    <3>1. Len(s) = n /\ s \in Seq(StagesOrNone)
      BY PlacesAreChains
    <3>2. s # <<>>
      BY <3>1, <2>1
    <3>3. Head(s) = s[1] /\ Last(s) = s[n] /\ 1 \in 1 .. n /\ n \in 1 .. n
      BY <3>1, <3>2, <2>1 DEF Last
    <3>4. QED
      BY <3>2, <3>3, <1>2
  <2> DEFINE i == h.stage[p[l][1]].in
             o == h.stage[p[l][n]].out
  <2>3. i \in Nat /\ o \in Nat
    <3>1. p[l][1] \in Cells /\ p[l][n] \in Cells
      BY <1>2, <2>1
    <3>2. h.stage[p[l][1]] \in StagesOrNone /\ h.stage[p[l][n]] \in StagesOrNone
      BY <1>1, <3>1 DEF Heaps
    <3>3. QED
      BY <3>2, StageChannels
  <2>4. g = SetChannels(h, l, i, o)
    BY <2>2 DEF BlessLUT
  <2> HIDE DEF i, o, s
  <2>5. /\ g \in Heaps /\ g.next = h.next /\ g.stage = h.stage
        /\ \A m \in Luts \ {l} : g.lut[m] = h.lut[m]
        /\ g.lut[l].head = h.lut[l].head /\ g.lut[l].nil = h.lut[l].nil
        /\ g.lut[l].in = i /\ g.lut[l].out = o
    <3>1. /\ g \in Heaps /\ g.next = h.next /\ g.stage = h.stage
          /\ g.lut = [h.lut EXCEPT ![l] = [in |-> i, out |-> o, head |-> h.lut[l].head, nil |-> h.lut[l].nil]]
      BY <1>1, <2>3, <2>4, ChannelsSet
    <3>2. h.lut \in [Luts -> LutsAre]
      BY <1>1 DEF Heaps
    <3>3. QED
      BY <3>1, <3>2
  <2>6. Owned(g, p, H)
    <3>1. ASSUME NEW m \in Luts PROVE g.lut[m].head = h.lut[m].head /\ g.lut[m].nil = h.lut[m].nil
      BY <2>5
    <3>2. g \in Heaps /\ g.next = h.next /\ g.stage = h.stage
      BY <2>5
    <3>3. QED
      BY <3>1, <3>2, ChannelsAside
  <2>7. EndsAre(g, p, l)
    BY <2>5 DEF EndsAre, i, o
  <2>8. QED
    BY <2>5, <2>6, <2>7, <1>4
<1>5. QED
  BY <1>3, <1>4

\* Stages in no pipeline come and go.
LooseOnly(h, p, g, G) ==
  /\ g \in Heaps /\ g.lut = h.lut /\ G \subseteq Cells
  /\ \A l \in Luts : \A k \in 1 .. Len(p[l]) :
       p[l][k] \notin G /\ g.next[p[l][k]] = h.next[p[l][k]] /\ g.stage[p[l][k]] = h.stage[p[l][k]]
  /\ \A c \in G : g.stage[c] # NoStage /\ g.next[c] = Nil

LEMMA LooseStagesChange ==
  ASSUME NEW h, NEW p, NEW H, Owned(h, p, H), NEW g, NEW G, LooseOnly(h, p, g, G)
  PROVE  Owned(g, p, G)
<1> USE DEF LooseOnly
<1>1. ASSUME NEW l \in Luts PROVE Linked(g.next, g.lut[l].head, p[l]) /\ (g.lut[l].nil => p[l] = <<>>)
  <2>1. Linked(h.next, h.lut[l].head, p[l]) /\ (h.lut[l].nil => p[l] = <<>>)
    BY DEF Owned
  <2>2. QED
    BY <2>1 DEF Linked
<1>2. QED
  BY <1>1 DEF Owned

\* A stage that is free, or in the caller's hands, is in no pipeline.
LEMMA LooseIsNowhere ==
  ASSUME NEW h, NEW p, NEW H, Owned(h, p, H), NEW c \in Cells, h.stage[c] = NoStage \/ c \in H
  PROVE  \A l \in Luts : \A k \in 1 .. Len(p[l]) : p[l][k] # c
  BY DEF Owned

\* What the caller holds when it has taken c, and the stages with s at c.
Taken(H, c) == H \cup {c}
Made(stage, c, s) == [stage EXCEPT ![c] = s]

LEMMA StageIsMade ==
  ASSUME NEW h, NEW p, NEW H, Owned(h, p, H), NEW c \in Cells, h.stage[c] = NoStage,
         NEW s \in Stages, NEW g, g = NewStage(h, c, s)
  PROVE  /\ Owned(g, p, Taken(H, c)) /\ g.lut = h.lut /\ g.stage = Made(h.stage, c, s)
<1>1. h \in Heaps /\ s \in StagesOrNone /\ s # NoStage
  BY StagesAreWellMade DEF Owned, WellMade, StagesOrNone
<1>2. /\ g \in Heaps /\ g.lut = h.lut
      /\ g.stage = [h.stage EXCEPT ![c] = s] /\ g.next = [h.next EXCEPT ![c] = Nil]
  BY <1>1 DEF NewStage, Heaps
<1>3. h.next \in [Cells -> Cells \cup {Nil}] /\ h.stage \in [Cells -> StagesOrNone]
  BY <1>1 DEF Heaps
<1>4. ASSUME NEW l \in Luts, NEW k \in 1 .. Len(p[l])
      PROVE  /\ p[l][k] \notin H \cup {c} /\ g.next[p[l][k]] = h.next[p[l][k]]
             /\ g.stage[p[l][k]] = h.stage[p[l][k]]
  <2>1. p[l][k] # c /\ p[l][k] \notin H /\ p[l][k] \in Cells
    BY LooseIsNowhere, PlacesAreChains DEF Owned
  <2>2. QED
    BY <2>1, <1>2, <1>3
<1>5. ASSUME NEW d \in H \cup {c} PROVE g.stage[d] # NoStage /\ g.next[d] = Nil
  <2>1. d \in Cells /\ (d # c => h.stage[d] # NoStage /\ h.next[d] = Nil)
    BY DEF Owned
  <2>2. QED
    BY <2>1, <1>1, <1>2, <1>3
<1>6. H \cup {c} \subseteq Cells
  BY DEF Owned
<1>7. LooseOnly(h, p, g, H \cup {c})
  BY <1>2, <1>4, <1>5, <1>6 DEF LooseOnly
<1>8. QED
  BY <1>2, <1>7, LooseStagesChange DEF Taken, Made

\* What the caller still holds when it has given c away.
Given(H, c) == H \ {c}

\* The stages without c.
Freed(stage, c) == [stage EXCEPT ![c] = NoStage]

\* A stage that is in no pipeline is freed.
LEMMA StageIsFreed ==
  ASSUME NEW h, NEW p, NEW H, Owned(h, p, H), NEW c \in Cells,
         \A l \in Luts : \A k \in 1 .. Len(p[l]) : p[l][k] # c,
         NEW g, g = StageFree(h, c)
  PROVE  /\ Owned(g, p, Given(H, c)) /\ g.lut = h.lut
         /\ g.stage = Freed(h.stage, c) /\ g.next = h.next
<1>1. h \in Heaps /\ NoStage \in StagesOrNone
  BY DEF Owned, StagesOrNone
<1>2. g \in Heaps /\ g.lut = h.lut /\ g.stage = [h.stage EXCEPT ![c] = NoStage] /\ g.next = h.next
  BY <1>1 DEF StageFree, Heaps
<1>3. h.stage \in [Cells -> StagesOrNone]
  BY <1>1 DEF Heaps
<1>4. ASSUME NEW l \in Luts, NEW k \in 1 .. Len(p[l])
      PROVE  /\ p[l][k] \notin H \ {c} /\ g.next[p[l][k]] = h.next[p[l][k]]
             /\ g.stage[p[l][k]] = h.stage[p[l][k]]
  <2>1. p[l][k] # c /\ p[l][k] \notin H /\ p[l][k] \in Cells
    BY PlacesAreChains DEF Owned
  <2>2. QED
    BY <2>1, <1>2, <1>3
<1>5. ASSUME NEW d \in H \ {c} PROVE g.stage[d] # NoStage /\ g.next[d] = Nil
  <2>1. d \in Cells /\ h.stage[d] # NoStage /\ h.next[d] = Nil
    BY DEF Owned
  <2>2. QED
    BY <2>1, <1>2, <1>3
<1>6. H \ {c} \subseteq Cells
  BY DEF Owned
<1>7. LooseOnly(h, p, g, H \ {c})
  BY <1>2, <1>4, <1>5, <1>6 DEF LooseOnly
<1>8. QED
  BY <1>2, <1>7, LooseStagesChange DEF Given, Freed

----------------------------------------------------------------------------
(* The operations on pipelines.                                            *)

LEMMA NextIsSet ==
  ASSUME NEW h \in Heaps, NEW c \in Cells, NEW d \in Cells \cup {Nil}, NEW g, g = SetNext(h, c, d)
  PROVE  g \in Heaps /\ g.stage = h.stage /\ g.lut = h.lut /\ g.next = [h.next EXCEPT ![c] = d]
         /\ h.next \in [Cells -> Cells \cup {Nil}]
  BY DEF SetNext, Heaps

LEMMA HeadIsSet ==
  ASSUME NEW h \in Heaps, NEW l \in Luts, NEW c \in Cells \cup {Nil}, NEW g, g = SetHead(h, l, c)
  PROVE  /\ g \in Heaps /\ g.stage = h.stage /\ g.next = h.next
         /\ \A m \in Luts \ {l} : g.lut[m] = h.lut[m]
         /\ g.lut[l].head = c /\ g.lut[l].nil = h.lut[l].nil
         /\ g.lut[l].in = h.lut[l].in /\ g.lut[l].out = h.lut[l].out
<1> DEFINE r == [h.lut[l] EXCEPT !.head = c]
<1>1. h.lut \in [Luts -> LutsAre] /\ h.lut[l] \in LutsAre
  BY DEF Heaps
<1>2. /\ r \in LutsAre /\ r.head = c /\ r.nil = h.lut[l].nil
      /\ r.in = h.lut[l].in /\ r.out = h.lut[l].out
  BY <1>1 DEF LutsAre
<1>3. g = [h EXCEPT !.lut = [h.lut EXCEPT ![l] = r]]
  BY DEF SetHead
<1> HIDE DEF r
<1>4. g \in Heaps /\ g.stage = h.stage /\ g.next = h.next /\ g.lut = [h.lut EXCEPT ![l] = r]
  BY <1>2, <1>3 DEF Heaps
<1>5. QED
  BY <1>1, <1>2, <1>4

\* What was elsewhere before is no stage of l, and not in the caller's hands.
LEMMA ElsewhereIsAside ==
  ASSUME NEW h, NEW p, NEW H, Owned(h, p, H), NEW l \in Luts
  PROVE  /\ \A k \in 1 .. Len(p[l]) : p[l][k] \notin Elsewhere(p, l)
         /\ \A c \in Elsewhere(p, l) : c \in Cells /\ c \notin H /\ h.stage[c] # NoStage
<1>1. ASSUME NEW k \in 1 .. Len(p[l]) PROVE p[l][k] \notin Elsewhere(p, l)
  BY DEF Owned, Elsewhere
<1>2. ASSUME NEW c \in Elsewhere(p, l) PROVE c \in Cells /\ c \notin H /\ h.stage[c] # NoStage
  BY DEF Owned, Elsewhere
<1>3. QED
  BY <1>1, <1>2

\* A stage, and then those of s; those of s, and then a stage.
Before(c, s) == <<c>> \o s
After(s, c) == Append(s, c)

LEMMA Prepended ==
  ASSUME NEW s \in Seq(Cells), NEW c \in Cells, NEW t, t = Before(c, s)
  PROVE  /\ t \in Seq(Cells) /\ t # <<>> /\ Len(s) \in Nat /\ Len(t) = Len(s) + 1 /\ t[1] = c
         /\ \A k \in 1 .. Len(s) : t[k + 1] = s[k]
         /\ \A k \in 1 .. Len(t) : t[k] = IF k = 1 THEN c ELSE s[k - 1]
<1>1. <<c>> \in Seq(Cells) /\ Len(<<c>>) = 1 /\ <<c>>[1] = c /\ Len(s) \in Nat
  BY LenProperties
<1>2. t \in Seq(Cells) /\ Len(t) = 1 + Len(s)
      /\ \A i \in 1 .. 1 + Len(s) : t[i] = IF i <= 1 THEN <<c>>[i] ELSE s[i - 1]
  BY <1>1, ConcatProperties DEF Before
<1>3. t # <<>>
  BY <1>1, <1>2, EmptySeq
<1>4. QED
  BY <1>1, <1>2, <1>3

\* The first i stages of s, and then those of u.
Kept(s, i, u) == SubSeq(s, 1, i) \o u

LEMMA FirstKept ==
  ASSUME NEW S, NEW s \in Seq(S), NEW u \in Seq(S), NEW i \in 0 .. Len(s),
         NEW t, t = Kept(s, i, u)
  PROVE  /\ t \in Seq(S) /\ Len(t) = i + Len(u)
         /\ \A k \in 1 .. Len(t) : t[k] = IF k <= i THEN s[k] ELSE u[k - i]
<1>1. Len(s) \in Nat /\ Len(u) \in Nat /\ s \in [1 .. Len(s) -> S]
  BY LenProperties
<1>2. i \in Int /\ 1 \in Int /\ \A k \in 1 .. i : s[k] \in S
  BY <1>1
<1>3. /\ SubSeq(s, 1, i) \in Seq(S) /\ Len(SubSeq(s, 1, i)) = IF 1 <= i THEN i - 1 + 1 ELSE 0
      /\ \A k \in 1 .. i - 1 + 1 : SubSeq(s, 1, i)[k] = s[1 + k - 1]
  BY <1>2, SubSeqProperties
<1>4. /\ Len(SubSeq(s, 1, i)) = i
      /\ \A k \in 1 .. i : SubSeq(s, 1, i)[k] = s[k]
  <2>1. \A k \in 1 .. i : 1 + k - 1 = k /\ k \in 1 .. i - 1 + 1
    BY <1>1
  <2>2. \A k \in 1 .. i : SubSeq(s, 1, i)[k] = s[k]
    BY <1>3, <2>1
  <2>3. QED
    BY <1>1, <1>3, <2>2
<1>5. /\ t \in Seq(S) /\ Len(t) = i + Len(u)
      /\ \A k \in 1 .. i + Len(u) : t[k] = IF k <= i THEN SubSeq(s, 1, i)[k] ELSE u[k - i]
  <2> DEFINE v == SubSeq(s, 1, i)
  <2>1. v \in Seq(S) /\ Len(v) = i
    BY <1>3, <1>4
  <2> HIDE DEF v
  <2> DEFINE w == v \o u
  <2>2. /\ w \in Seq(S) /\ Len(w) = i + Len(u)
        /\ \A k \in 1 .. i + Len(u) : w[k] = IF k <= i THEN v[k] ELSE u[k - i]
    BY <2>1, ConcatProperties
  <2> HIDE DEF w
  <2>3. t = w
    BY DEF Kept, v, w
  <2>4. QED
    BY <2>2, <2>3 DEF v
<1>6. \A k \in 1 .. Len(t) : k <= i => k \in 1 .. i
  BY <1>1
<1>7. QED
  BY <1>1, <1>4, <1>5, <1>6

\* The stage i of s, or the pipeline itself.
CellAt(s, i) == IF i = 0 THEN Nil ELSE s[i]
\* What follows the first i stages of s.
From(s, i) == SubSeq(s, i + 1, Len(s))
Following1(s, i) == IF i = Len(s) THEN Nil ELSE s[i + 1]

LEMMA RestOf ==
  ASSUME NEW S, NEW s \in Seq(S), NEW i \in 0 .. Len(s), NEW u, u = From(s, i)
  PROVE  /\ u \in Seq(S) /\ Len(u) = Len(s) - i /\ \A k \in 1 .. Len(u) : u[k] = s[i + k]
<1>1. Len(s) \in Nat /\ s \in [1 .. Len(s) -> S] /\ i \in Int /\ i + 1 \in Int /\ Len(s) \in Int
  BY LenProperties
<1>2. \A k \in i + 1 .. Len(s) : s[k] \in S
  BY <1>1
<1>3. /\ u \in Seq(S)
      /\ Len(u) = IF i + 1 <= Len(s) THEN Len(s) - (i + 1) + 1 ELSE 0
      /\ \A k \in 1 .. Len(s) - (i + 1) + 1 : u[k] = s[(i + 1) + k - 1]
  BY <1>1, <1>2, SubSeqProperties DEF From
<1>4. Len(u) = Len(s) - i
  <2>1. \A n \in Nat : \A j \in 0 .. n : (IF j + 1 <= n THEN n - (j + 1) + 1 ELSE 0) = n - j
    OBVIOUS
  <2>2. QED
    BY <1>1, <1>3, <2>1
<1>5. \A k \in 1 .. Len(u) : k \in 1 .. Len(s) - (i + 1) + 1 /\ (i + 1) + k - 1 = i + k
  BY <1>1, <1>4
<1>6. QED
  BY <1>3, <1>4, <1>5

\* u is what is left of s after its first i elements.
IsRest(u, S, s, i) == u \in Seq(S) /\ Len(u) = Len(s) - i /\ \A k \in 1 .. Len(u) : u[k] = s[i + k]

LEMMA RestIs ==
  ASSUME NEW S, NEW s \in Seq(S), NEW i \in 0 .. Len(s)
  PROVE  IsRest(From(s, i), S, s, i)
  BY RestOf DEF IsRest

\* What follows is itself a chain.
LEMMA RestIsLinked ==
  ASSUME NEW next, NEW head, NEW s, Linked(next, head, s), NEW i \in 0 .. Len(s)
  PROVE  Linked(next, Following1(s, i), From(s, i))
<1> DEFINE u == From(s, i)
<1>1. s \in Seq(Cells) /\ Len(s) \in Nat
  BY LenProperties DEF Linked
<1>2. u \in Seq(Cells) /\ Len(u) = Len(s) - i /\ \A k \in 1 .. Len(u) : u[k] = s[i + k]
  BY <1>1, RestOf
<1>3. \A k \in 1 .. Len(u) : i + k \in 1 .. Len(s) /\ (i + k = Len(s) <=> k = Len(u))
  BY <1>1, <1>2
<1> HIDE DEF u
<1>4. \A j, k \in 1 .. Len(u) : u[j] = u[k] => j = k
  <2>1. \A x, y \in 1 .. Len(s) : s[x] = s[y] => x = y
    BY DEF Linked
  <2>2. SUFFICES ASSUME NEW j \in 1 .. Len(u), NEW k \in 1 .. Len(u), u[j] = u[k] PROVE j = k
    OBVIOUS
  <2>3. i + j = i + k
    BY <1>2, <1>3, <2>1, <2>2
  <2>4. QED
    BY <1>1, <1>2, <2>3
<1>5. Following1(s, i) = IF u = <<>> THEN Nil ELSE u[1]
  <2>1. u = <<>> <=> Len(u) = 0
    BY <1>2, EmptySeq
  <2>2. i # Len(s) => 1 \in 1 .. Len(u)
    BY <1>1, <1>2
  <2>3. QED
    BY <1>1, <1>2, <2>1, <2>2 DEF Following1
<1>6. ASSUME NEW k \in 1 .. Len(u) PROVE next[u[k]] = IF k = Len(u) THEN Nil ELSE u[k + 1]
  <2>1. next[s[i + k]] = IF i + k = Len(s) THEN Nil ELSE s[(i + k) + 1]
    BY <1>3 DEF Linked
  <2>2. k # Len(u) => k + 1 \in 1 .. Len(u) /\ i + (k + 1) = (i + k) + 1
    <3>1. \A n \in Nat : \A x \in 1 .. n : x # n => x + 1 \in 1 .. n
      OBVIOUS
    <3>2. Len(u) \in Nat /\ i \in Nat
      BY <1>1, <1>2
    <3>3. i + (k + 1) = (i + k) + 1
      BY <3>2
    <3>4. QED
      BY <3>1, <3>2, <3>3
  <2>3. QED
    BY <1>2, <1>3, <2>1, <2>2
<1>7. QED
  BY <1>2, <1>4, <1>5, <1>6 DEF Linked, u

\* A stage put before a chain.
LEMMA OneBefore ==
  ASSUME NEW next \in [Cells -> Cells \cup {Nil}], NEW d, NEW u, Linked(next, d, u),
         NEW c \in Cells, \A k \in 1 .. Len(u) : u[k] # c
  PROVE  Linked([next EXCEPT ![c] = d], c, Before(c, u))
<1> DEFINE t == Before(c, u)
           then == [next EXCEPT ![c] = d]
<1>1. u \in Seq(Cells) /\ Len(u) \in Nat /\ u \in [1 .. Len(u) -> Cells]
  BY LenProperties DEF Linked
<1>2. /\ t \in Seq(Cells) /\ t # <<>> /\ Len(t) = Len(u) + 1 /\ t[1] = c
      /\ \A k \in 1 .. Len(t) : t[k] = IF k = 1 THEN c ELSE u[k - 1]
  <2>1. u \in Seq(Cells)
    BY <1>1
  <2>2. QED
    BY <2>1, Prepended
<1> HIDE DEF t
<1>3. ASSUME NEW j \in 1 .. Len(t), NEW k \in 1 .. Len(t), t[j] = t[k] PROVE j = k
  <2>1. \A i \in 1 .. Len(t) : i # 1 => i - 1 \in 1 .. Len(u) /\ t[i] = u[i - 1] /\ t[i] # c
    BY <1>1, <1>2
  <2>2. \A x, y \in 1 .. Len(u) : u[x] = u[y] => x = y
    BY <1>1 DEF Linked
  <2>3. CASE j = 1 \/ k = 1
    BY <2>1, <2>3, <1>2, <1>3
  <2>4. CASE j # 1 /\ k # 1
    <3>1. j - 1 = k - 1
      BY <2>1, <2>2, <2>4, <1>3
    <3>2. QED
      BY <3>1, <1>1, <1>2
  <2>5. QED
    BY <2>3, <2>4
<1>4. ASSUME NEW k \in 1 .. Len(t) PROVE then[t[k]] = IF k = Len(t) THEN Nil ELSE t[k + 1]
  <2>1. CASE k = 1
    <3>1. then[t[k]] = d
      BY <2>1, <1>2
    <3>2. d = IF u = <<>> THEN Nil ELSE u[1]
      BY DEF Linked
    <3>3. u = <<>> <=> Len(u) = 0
      BY <1>1, EmptySeq
    <3>4. Len(u) # 0 => k + 1 \in 1 .. Len(t) /\ t[k + 1] = u[1]
      BY <2>1, <1>1, <1>2
    <3>5. QED
      BY <2>1, <3>1, <3>2, <3>3, <3>4, <1>1, <1>2
  <2>2. CASE k # 1
    <3>1. k - 1 \in 1 .. Len(u) /\ t[k] = u[k - 1] /\ (k = Len(t) <=> k - 1 = Len(u))
      BY <2>2, <1>1, <1>2
    <3>2. then[t[k]] = next[u[k - 1]]
      BY <3>1, <1>1, <1>2
    <3>3. next[u[k - 1]] = IF k - 1 = Len(u) THEN Nil ELSE u[(k - 1) + 1]
      BY <3>1, <1>1 DEF Linked
    <3>4. k # Len(t) => k + 1 \in 1 .. Len(t) /\ t[k + 1] = u[(k - 1) + 1]
      BY <2>2, <1>1, <1>2
    <3>5. QED
      BY <3>1, <3>2, <3>3, <3>4
  <2>3. QED
    BY <2>1, <2>2
<1>5. QED
  BY <1>2, <1>3, <1>4 DEF Linked, t

\* What a pointer cell points to is set.
LEMMA PutFrame ==
  ASSUME NEW h \in Heaps, NEW l \in Luts, NEW at \in Cells \cup {Nil}, NEW d \in Cells \cup {Nil},
         NEW g, g = PutAt(h, l, at, d)
  PROVE  /\ g \in Heaps /\ g.stage = h.stage
         /\ \A m \in Luts \ {l} : g.lut[m] = h.lut[m]
         /\ g.lut[l].nil = h.lut[l].nil /\ g.lut[l].in = h.lut[l].in /\ g.lut[l].out = h.lut[l].out
         /\ g.lut[l].head = IF at = Nil THEN d ELSE h.lut[l].head
         /\ \A c \in Cells : g.next[c] = IF c = at THEN d ELSE h.next[c]
         /\ h.next \in [Cells -> Cells \cup {Nil}]
<1>1. h.next \in [Cells -> Cells \cup {Nil}] /\ Nil \notin Cells
  BY CellFacts DEF Heaps
<1>2. CASE at = Nil
  <2>1. g = SetHead(h, l, d)
    BY <1>2 DEF PutAt
  <2>2. /\ g \in Heaps /\ g.stage = h.stage /\ g.next = h.next
        /\ \A m \in Luts \ {l} : g.lut[m] = h.lut[m]
        /\ g.lut[l].head = d /\ g.lut[l].nil = h.lut[l].nil
        /\ g.lut[l].in = h.lut[l].in /\ g.lut[l].out = h.lut[l].out
    BY <2>1, HeadIsSet
  <2>3. \A c \in Cells : c # at
    BY <1>1, <1>2
  <2>4. QED
    BY <2>2, <2>3, <1>1, <1>2
<1>3. CASE at # Nil
  <2>1. g = SetNext(h, at, d) /\ at \in Cells
    BY <1>3 DEF PutAt
  <2>2. g \in Heaps /\ g.stage = h.stage /\ g.lut = h.lut /\ g.next = [h.next EXCEPT ![at] = d]
    BY <2>1, NextIsSet
  <2>3. QED
    BY <2>1, <2>2, <1>1, <1>3
<1>4. QED
  BY <1>2, <1>3

\* The chain u from d on can follow the first i stages of pipeline l, when the
\* caller then holds the stages of G.
MayFollow(h, p, l, i, d, u, G) ==
  /\ Linked(h.next, d, u)
  /\ \A k \in 1 .. Len(u) :
       /\ u[k] \notin Elsewhere(p, l) /\ u[k] \notin G /\ h.stage[u[k]] # NoStage
       /\ \A j \in 1 .. i : p[l][j] # u[k]

LEMMA CellIsPut ==
  ASSUME NEW h, NEW p, NEW H, Owned(h, p, H), NEW l \in Luts, ~h.lut[l].nil,
         NEW i \in 0 .. Len(p[l]), NEW d, NEW u, NEW G \in SUBSET H, MayFollow(h, p, l, i, d, u, G),
         NEW g, g = PutAt(h, l, CellAt(p[l], i), d),
         NEW q, q = With(p, l, Kept(p[l], i, u))
  PROVE  /\ Owned(g, q, G) /\ g.stage = h.stage /\ \A m \in Luts \ {l} : g.lut[m] = h.lut[m]
         /\ g.lut[l].nil = h.lut[l].nil /\ g.lut[l].in = h.lut[l].in /\ g.lut[l].out = h.lut[l].out
         /\ \A c \in Cells : c # CellAt(p[l], i) => g.next[c] = h.next[c]
<1> DEFINE s == p[l]
           t == Kept(s, i, u)
           at == CellAt(s, i)
<1>1. h \in Heaps /\ H \subseteq Cells
  BY DEF Owned
<1>2. /\ s \in Seq(Cells) /\ s \in [1 .. Len(s) -> Cells] /\ Len(s) \in Nat
      /\ Linked(h.next, h.lut[l].head, s)
  BY PlacesAreChains
<1>3. u \in Seq(Cells) /\ u \in [1 .. Len(u) -> Cells] /\ Len(u) \in Nat /\ Linked(h.next, d, u)
  BY LenProperties DEF MayFollow, Linked
<1>4. d \in Cells \cup {Nil}
  <2>1. u # <<>> => 1 \in 1 .. Len(u)
    BY <1>3, EmptySeq
  <2>2. QED
    BY <1>3, <2>1 DEF Linked
<1>5. at \in Cells \cup {Nil} /\ (at = Nil <=> i = 0) /\ (i # 0 => i \in 1 .. Len(s) /\ at = s[i])
  <2>1. i # 0 => i \in 1 .. Len(s)
    BY <1>2
  <2>2. QED
    BY <2>1, <1>2, CellFacts DEF CellAt
<1>6. /\ g \in Heaps /\ g.stage = h.stage
      /\ \A m \in Luts \ {l} : g.lut[m] = h.lut[m]
      /\ g.lut[l].nil = h.lut[l].nil /\ g.lut[l].in = h.lut[l].in /\ g.lut[l].out = h.lut[l].out
      /\ g.lut[l].head = IF at = Nil THEN d ELSE h.lut[l].head
      /\ \A c \in Cells : g.next[c] = IF c = at THEN d ELSE h.next[c]
  <2>1. g = PutAt(h, l, at, d)
    OBVIOUS
  <2>2. at \in Cells \cup {Nil}
    BY <1>5
  <2> HIDE DEF at
  <2>3. QED
    BY <2>1, <2>2, <1>1, <1>4, PutFrame, SMTT(20)
<1> HIDE DEF at
<1>7. /\ t \in Seq(Cells) /\ Len(t) = i + Len(u)
      /\ \A k \in 1 .. Len(t) : t[k] = IF k <= i THEN s[k] ELSE u[k - i]
  BY <1>2, <1>3, FirstKept, SMTT(20)
<1> HIDE DEF t
<1>8. \A k \in 1 .. Len(t) : /\ k <= i => k \in 1 .. Len(s) /\ k \in 1 .. i /\ t[k] = s[k]
                             /\ ~(k <= i) => k - i \in 1 .. Len(u) /\ t[k] = u[k - i]
  BY <1>2, <1>3, <1>7
<1>9. \A k \in 1 .. Len(u) : /\ u[k] \notin Elsewhere(p, l) /\ u[k] \notin G /\ h.stage[u[k]] # NoStage
                             /\ \A j \in 1 .. i : s[j] # u[k]
  BY DEF MayFollow
<1>10. \A j, k \in 1 .. Len(s) : s[j] = s[k] => j = k
  BY <1>2 DEF Linked
<1>11. \A j, k \in 1 .. Len(t) : t[j] = t[k] => j = k
  <2>1. SUFFICES ASSUME NEW j \in 1 .. Len(t), NEW k \in 1 .. Len(t), t[j] = t[k] PROVE j = k
    OBVIOUS
  <2>2. CASE j <= i /\ k <= i
    BY <2>1, <2>2, <1>8, <1>10
  <2>3. CASE ~(j <= i) /\ ~(k <= i)
    <3>1. \A x, y \in 1 .. Len(u) : u[x] = u[y] => x = y
      BY <1>3 DEF Linked
    <3>2. j - i = k - i
      BY <2>1, <2>3, <3>1, <1>8
    <3>3. QED
      BY <3>2, <1>2, <1>7
  <2>4. CASE (j <= i) # (k <= i)
    BY <2>1, <2>4, <1>8, <1>9, SMTT(20)
  <2>5. QED
    BY <2>2, <2>3, <2>4
<1>12. u = <<>> <=> Len(u) = 0
  BY <1>3, EmptySeq
<1>13. t = <<>> <=> Len(t) = 0
  BY <1>7, EmptySeq
<1>14. g.lut[l].head = IF t = <<>> THEN Nil ELSE t[1]
  <2>1. CASE i = 0
    <3>1. Len(t) = Len(u) /\ (Len(u) # 0 => 1 \in 1 .. Len(t) /\ t[1] = u[1])
      BY <2>1, <1>3, <1>7
    <3>2. g.lut[l].head = IF u = <<>> THEN Nil ELSE u[1]
      BY <2>1, <1>3, <1>5, <1>6 DEF Linked
    <3>3. QED
      BY <3>1, <3>2, <1>12, <1>13
  <2>2. CASE i # 0
    <3>1. 1 \in 1 .. Len(t) /\ 1 <= i /\ Len(t) # 0 /\ Len(s) # 0
      BY <2>2, <1>2, <1>3, <1>7
    <3>2. t[1] = s[1] /\ t # <<>> /\ s # <<>>
      BY <3>1, <1>8, <1>13, EmptySeq
    <3>3. h.lut[l].head = s[1]
      BY <3>2, <1>2 DEF Linked
    <3>4. QED
      BY <2>2, <3>2, <3>3, <1>5, <1>6
  <2>3. QED
    BY <2>1, <2>2
<1>15. ASSUME NEW k \in 1 .. Len(t) PROVE g.next[t[k]] = IF k = Len(t) THEN Nil ELSE t[k + 1]
  <2>1. CASE k < i
    <3>1. k <= i /\ k # Len(t) /\ k + 1 \in 1 .. Len(t) /\ k + 1 <= i /\ k # Len(s)
      BY <2>1, <1>2, <1>3, <1>7
    <3>2. k \in 1 .. Len(s) /\ t[k] = s[k] /\ t[k + 1] = s[k + 1] /\ i \in 1 .. Len(s) /\ at = s[i] /\ k # i
      BY <2>1, <3>1, <1>2, <1>5, <1>8
    <3>3. s[k] \in Cells /\ s[k] # at
      BY <3>2, <1>2, <1>10
    <3>4. h.next[s[k]] = s[k + 1]
      BY <3>1, <3>2, <1>2 DEF Linked
    <3>5. QED
      BY <3>1, <3>2, <3>3, <3>4, <1>6
  <2>2. CASE k = i
    <3>1. t[k] = at /\ at \in Cells
      BY <2>2, <1>2, <1>5, <1>8
    <3>2. g.next[t[k]] = IF u = <<>> THEN Nil ELSE u[1]
      BY <3>1, <1>3, <1>6 DEF Linked
    <3>3. (k = Len(t) <=> Len(u) = 0) /\ (Len(u) # 0 => k + 1 \in 1 .. Len(t) /\ ~(k + 1 <= i) /\ k + 1 - i = 1)
      BY <2>2, <1>2, <1>3, <1>7
    <3>4. Len(u) # 0 => t[k + 1] = u[1]
      <4>1. Len(u) # 0 => t[k + 1] = u[(k + 1) - i]
        BY <3>3, <1>8
      <4>2. Len(u) # 0 => (k + 1) - i = 1
        BY <3>3
      <4>3. QED
        BY <4>1, <4>2
    <3>5. QED
      BY <3>2, <3>3, <3>4, <1>12
  <2>3. CASE k > i
    <3>1. ~(k <= i)
      BY <2>3, <1>2, <1>7
    <3>2. k - i \in 1 .. Len(u) /\ t[k] = u[k - i]
      BY <3>1, <1>8
    <3>3. u[k - i] \in Cells /\ u[k - i] # at
      <4>1. u[k - i] \in Cells /\ \A j \in 1 .. i : s[j] # u[k - i]
        BY <3>2, <1>3, <1>9
      <4>2. i # 0 => i \in 1 .. i
        BY <1>2
      <4>3. QED
        BY <4>1, <4>2, <1>5, CellFacts
    <3>4. g.next[t[k]] = IF k - i = Len(u) THEN Nil ELSE u[(k - i) + 1]
      BY <3>2, <3>3, <1>3, <1>6 DEF Linked
    <3>5. (k = Len(t) <=> k - i = Len(u))
          /\ (k # Len(t) => k + 1 \in 1 .. Len(t) /\ ~(k + 1 <= i) /\ (k + 1) - i = (k - i) + 1)
      BY <2>3, <1>2, <1>3, <1>7
    <3>6. k # Len(t) => t[k + 1] = u[(k - i) + 1]
      BY <3>5, <1>8
    <3>7. QED
      BY <3>4, <3>5, <3>6
  <2>4. QED
    BY <2>1, <2>2, <2>3, <1>2, <1>7
<1>16. Linked(g.next, g.lut[l].head, t)
  BY <1>7, <1>11, <1>14, <1>15 DEF Linked
<1>17. ASSUME NEW c \in Elsewhere(p, l)
       PROVE  c \notin G /\ g.next[c] = h.next[c] /\ g.stage[c] = h.stage[c]
  <2>1. c \in Cells /\ c \notin H /\ \A k \in 1 .. Len(s) : s[k] # c
    BY ElsewhereIsAside
  <2>2. c # at
    BY <2>1, <1>5, CellFacts
  <2>3. QED
    BY <2>1, <2>2, <1>6
<1>18. ASSUME NEW k \in 1 .. Len(t)
       PROVE  t[k] \notin Elsewhere(p, l) /\ t[k] \notin G /\ g.stage[t[k]] # NoStage
  <2>1. CASE k <= i
    <3>1. k \in 1 .. Len(s) /\ t[k] = s[k]
      BY <2>1, <1>8
    <3>2. s[k] \notin H /\ h.stage[s[k]] # NoStage /\ s[k] \notin Elsewhere(p, l)
      BY <3>1, ElsewhereIsAside DEF Owned
    <3>3. QED
      BY <3>1, <3>2, <1>6
  <2>2. CASE ~(k <= i)
    BY <2>2, <1>6, <1>8, <1>9
  <2>3. QED
    BY <2>1, <2>2
<1>19. ASSUME NEW c \in G PROVE g.stage[c] # NoStage /\ g.next[c] = Nil
  <2>1. c \in H /\ c \in Cells /\ h.stage[c] # NoStage /\ h.next[c] = Nil
    BY DEF Owned
  <2>2. c # at
    BY <2>1, <1>5, CellFacts DEF Owned
  <2>3. QED
    BY <2>1, <2>2, <1>6
<1>20. Relinked(h, p, l, g, t, G)
  BY <1>1, <1>6, <1>16, <1>17, <1>18, <1>19 DEF Relinked
<1>21. Owned(g, q, G)
  <2>1. Owned(g, With(p, l, t), G)
    BY <1>20, OneIsLinkedAgain
  <2>2. QED
    BY <2>1 DEF t
<1>22. QED
  BY <1>6, <1>21 DEF at

LEMMA RestMayFollow ==
  ASSUME NEW h, NEW p, NEW H, Owned(h, p, H), NEW l \in Luts,
         NEW i \in 0 .. Len(p[l]), NEW j \in i .. Len(p[l])
  PROVE  MayFollow(h, p, l, i, Following1(p[l], j), From(p[l], j), H)
<1> DEFINE s == p[l]
           u == From(s, j)
<1>1. s \in Seq(Cells) /\ Len(s) \in Nat /\ Linked(h.next, h.lut[l].head, s)
  BY PlacesAreChains
<1>2. j \in 0 .. Len(s)
  BY <1>1
<1>3. Len(u) = Len(s) - j /\ \A k \in 1 .. Len(u) : u[k] = s[j + k]
  BY <1>1, <1>2, RestOf
<1>4. Linked(h.next, Following1(s, j), u)
  BY <1>1, <1>2, RestIsLinked
<1>5. ASSUME NEW k \in 1 .. Len(u)
      PROVE  /\ u[k] \notin Elsewhere(p, l) /\ u[k] \notin H /\ h.stage[u[k]] # NoStage
             /\ \A x \in 1 .. i : s[x] # u[k]
  <2>1. j + k \in 1 .. Len(s) /\ u[k] = s[j + k]
    <3> HIDE DEF u
    <3>1. QED
      BY <1>1, <1>2, <1>3
  <2>2. \A x \in 1 .. i : x \in 1 .. Len(s) /\ x # j + k
    <3> HIDE DEF u
    <3>1. k \in Nat /\ k >= 1
      BY <1>1, <1>2, <1>3
    <3>2. QED
      BY <1>1, <3>1
  <2>3. \A x, y \in 1 .. Len(s) : s[x] = s[y] => x = y
    BY <1>1 DEF Linked
  <2>4. u[k] \notin H /\ h.stage[u[k]] # NoStage
    BY <2>1 DEF Owned
  <2>5. u[k] \notin Elsewhere(p, l)
    BY <2>1, ElsewhereIsAside
  <2>6. QED
    BY <2>1, <2>2, <2>3, <2>4, <2>5
<1>6. QED
  BY <1>4, <1>5 DEF MayFollow

\* t is s without the element at place j.
IsWithout(t, S, s, j) ==
  /\ t = Kept(s, j - 1, From(s, j))
  /\ t \in Seq(S) /\ Len(t) = Len(s) - 1
  /\ \A k \in 1 .. Len(t) : t[k] = s[IF k < j THEN k ELSE k + 1]

LEMMA WithoutOne ==
  ASSUME NEW S, NEW s \in Seq(S), NEW j \in 1 .. Len(s), NEW t, t = RemoveAt(s, j)
  PROVE  IsWithout(t, S, s, j)
<1>1. Len(s) \in Nat /\ j \in 0 .. Len(s) /\ j - 1 \in 0 .. Len(s)
  BY LenProperties
<1>0. PICK i \in 0 .. Len(s) : i = j - 1
  BY <1>1
<1> DEFINE u == From(s, j)
           v == Kept(s, i, u)
<1>2. t = v
  BY <1>0, <1>1 DEF RemoveAt, From, Kept
<1>3. u \in Seq(S) /\ Len(u) = Len(s) - j /\ \A k \in 1 .. Len(u) : u[k] = s[j + k]
  BY <1>1, RestOf
<1> HIDE DEF u
<1>4. /\ v \in Seq(S) /\ Len(v) = i + Len(u)
      /\ \A k \in 1 .. Len(v) : v[k] = IF k <= i THEN s[k] ELSE u[k - i]
  <2>1. u \in Seq(S)
    BY <1>3
  <2>2. QED
    BY <2>1, FirstKept
<1> HIDE DEF v
<1>5. Len(v) = Len(s) - 1
  BY <1>0, <1>1, <1>3, <1>4
<1>6. ASSUME NEW k \in 1 .. Len(v) PROVE v[k] = s[IF k < j THEN k ELSE k + 1]
  <2>1. CASE k < j
    BY <2>1, <1>0, <1>1, <1>4
  <2>2. CASE ~(k < j)
    <3>1. k - i \in 1 .. Len(u) /\ j + (k - i) = k + 1 /\ ~(k <= i)
      BY <2>2, <1>0, <1>1, <1>3, <1>5
    <3>2. QED
      BY <2>2, <3>1, <1>3, <1>4
  <2>3. QED
    BY <2>1, <2>2
<1>7. t \in Seq(S) /\ Len(t) = Len(s) - 1 /\ \A k \in 1 .. Len(t) : t[k] = s[IF k < j THEN k ELSE k + 1]
  BY <1>2, <1>4, <1>5, <1>6
<1>8. t = Kept(s, j - 1, From(s, j))
  BY <1>0, <1>2 DEF v, u
<1>9. QED
  BY <1>7, <1>8 DEF IsWithout

\* Place j is the one after i.
NextTo(i, j) == j = i + 1

\* A stage is taken out of the chain: what pointed to it points to its Next.
LEMMA OneIsOut ==
  ASSUME NEW h, NEW p, NEW H, Owned(h, p, H), NEW l \in Luts, ~h.lut[l].nil,
         NEW i \in 0 .. Len(p[l]), NEW j \in 1 .. Len(p[l]), NextTo(i, j),
         NEW g, g = PutAt(h, l, CellAt(p[l], i), h.next[p[l][j]]),
         NEW q, q = With(p, l, RemoveAt(p[l], j))
  PROVE  /\ Owned(g, q, H) /\ g.stage = h.stage /\ \A m \in Luts \ {l} : g.lut[m] = h.lut[m]
         /\ g.lut[l].nil = h.lut[l].nil /\ g.lut[l].in = h.lut[l].in /\ g.lut[l].out = h.lut[l].out
         /\ p[l][j] \in Cells /\ h.stage[p[l][j]] # NoStage /\ g.next[p[l][j]] = h.next[p[l][j]]
         /\ \A m \in Luts : \A k \in 1 .. Len(q[m]) : q[m][k] # p[l][j]
<1> DEFINE u == From(p[l], j)
           t == RemoveAt(p[l], j)
           c == p[l][j]
           d == Following1(p[l], j)
           b == PutAt(h, l, CellAt(p[l], i), d)
           r == With(p, l, Kept(p[l], i, u))
<1>1. /\ p[l] \in Seq(Cells) /\ p[l] \in [1 .. Len(p[l]) -> Cells] /\ Len(p[l]) \in Nat
      /\ Linked(h.next, h.lut[l].head, p[l])
  BY PlacesAreChains
<1>2. j \in i .. Len(p[l]) /\ i = j - 1
  BY <1>1 DEF NextTo
<1>3. h.next[c] = d
  BY <1>1 DEF Linked, Following1
<1>4. /\ t = Kept(p[l], j - 1, u)
      /\ t \in Seq(Cells) /\ Len(t) = Len(p[l]) - 1
      /\ \A k \in 1 .. Len(t) : t[k] = p[l][IF k < j THEN k ELSE k + 1]
  <2>1. p[l] \in Seq(Cells)
    BY <1>1
  <2>2. IsWithout(t, Cells, p[l], j)
    BY <2>1, WithoutOne
  <2>3. QED
    BY <2>2 DEF IsWithout
<1>5. q = r /\ g = b
  BY <1>2, <1>3, <1>4
<1>6. MayFollow(h, p, l, i, d, u, H)
  BY <1>2, RestMayFollow
<1> HIDE DEF u, t, d
<1>7. /\ Owned(b, r, H) /\ b.stage = h.stage /\ \A m \in Luts \ {l} : b.lut[m] = h.lut[m]
      /\ b.lut[l].nil = h.lut[l].nil /\ b.lut[l].in = h.lut[l].in /\ b.lut[l].out = h.lut[l].out
      /\ \A x \in Cells : x # CellAt(p[l], i) => b.next[x] = h.next[x]
  <2>1. H \in SUBSET H
    OBVIOUS
  <2>2. QED
    BY <2>1, <1>6, CellIsPut
<1>8. r[l] = t /\ \A m \in Luts \ {l} : r[m] = p[m]
  <2>1. p \in [Luts -> Seq(Cells)]
    BY DEF Owned
  <2>2. r = With(p, l, t)
    BY <1>2, <1>4
  <2>3. t \in Seq(Cells)
    BY <1>4
  <2> HIDE DEF r
  <2>4. QED
    BY <2>1, <2>2, <2>3, WithIs
<1> HIDE DEF b, r
<1>9. c \in Cells /\ h.stage[c] # NoStage /\ c \notin Elsewhere(p, l)
  <2>1. c \in Cells
    BY <1>1
  <2>2. \A k \in 1 .. Len(p[l]) : h.stage[p[l][k]] # NoStage
    BY Zenon DEF Owned
  <2>3. c \notin Elsewhere(p, l)
    BY Zenon, ElsewhereIsAside
  <2>4. QED
    BY <2>1, <2>2, <2>3
<1>10. \A x, y \in 1 .. Len(p[l]) : p[l][x] = p[l][y] => x = y
  BY <1>1 DEF Linked
<1>11. b.next[c] = h.next[c]
  <2>1. c # CellAt(p[l], i)
    <3>1. CASE i = 0
      BY <3>1, <1>9, CellFacts DEF CellAt
    <3>2. CASE i # 0
      <4>1. i \in 1 .. Len(p[l]) /\ i # j
        BY <3>2, <1>1, <1>2
      <4>2. QED
        BY <3>2, <4>1, <1>10 DEF CellAt
    <3>3. QED
      BY <3>1, <3>2
  <2>2. QED
    BY <2>1, <1>7, <1>9
<1>12. ASSUME NEW k \in 1 .. Len(t) PROVE t[k] # c
  <2> DEFINE x == IF k < j THEN k ELSE k + 1
  <2>1. x \in 1 .. Len(p[l]) /\ x # j
    BY <1>1, <1>4
  <2> HIDE DEF x
  <2>2. t[k] = p[l][x]
    BY <1>4 DEF x
  <2>3. QED
    BY <2>1, <2>2, <1>10
<1>13. ASSUME NEW m \in Luts, NEW k \in 1 .. Len(r[m]) PROVE r[m][k] # c
  <2>1. CASE m = l
    BY <2>1, <1>8, <1>12
  <2>2. CASE m # l
    BY <2>2, <1>8, <1>9 DEF Elsewhere
  <2>3. QED
    BY <2>1, <2>2
<1>14. QED
  BY <1>5, <1>7, <1>9, <1>11, <1>13

----------------------------------------------------------------------------
(* The operations.                                                         *)

LEMMA KeptNone ==
  ASSUME NEW S, NEW s \in Seq(S), NEW u \in Seq(S)
  PROVE  Kept(s, 0, u) = u
<1>1. SubSeq(s, 1, 0) = <<>>
  BY SubSeqEmpty
<1>2. QED
  BY <1>1, ConcatEmptySeq DEF Kept

LEMMA KeptAll ==
  ASSUME NEW S, NEW s \in Seq(S), NEW c \in S
  PROVE  Kept(s, Len(s), <<c>>) = After(s, c)
<1>1. SubSeq(s, 1, Len(s)) = s
  BY SubSeqFull
<1>2. QED
  BY <1>1, AppendIsConcat DEF Kept, After

\* Of the pipelines only the first stage of l has changed.
SameShell(g, h, l) ==
  /\ \A m \in Luts \ {l} : g.lut[m] = h.lut[m]
  /\ g.lut[l].nil = h.lut[l].nil /\ g.lut[l].in = h.lut[l].in /\ g.lut[l].out = h.lut[l].out

\* After an operation on pipeline l of h it is the chain s, with the channels
\* of its ends, and the caller holds the stages of G.
IsNow(h, g, p, l, s, G) ==
  /\ Owned(g, With(p, l, s), G)
  /\ \A m \in Luts \ {l} : g.lut[m] = h.lut[m]
  /\ g.lut[l].nil = h.lut[l].nil
  /\ EndsAre(g, With(p, l, s), l)
  /\ s = <<>> => g.lut[l].in = h.lut[l].in /\ g.lut[l].out = h.lut[l].out

LEMMA AndBlessed ==
  ASSUME NEW h, NEW p \in Chains, NEW l \in Luts, NEW s \in Seq(Cells), NEW G, NEW b,
         Owned(b, With(p, l, s), G), SameShell(b, h, l), NEW g, g = BlessLUT(b, l)
  PROVE  IsNow(h, g, p, l, s, G) /\ g.stage = b.stage /\ g.next = b.next
<1> DEFINE q == With(p, l, s)
<1>1. q[l] = s
  BY WithIs DEF Chains
<1> HIDE DEF q
<1>2. Owned(b, q, G)
  BY DEF q
<1>3. /\ Owned(g, q, G) /\ g.next = b.next /\ g.stage = b.stage
      /\ \A m \in Luts \ {l} : g.lut[m] = b.lut[m]
      /\ g.lut[l].nil = b.lut[l].nil /\ EndsAre(g, q, l) /\ (q[l] = <<>> => g = b)
  BY <1>2, Blessing
<1>4. QED
  BY <1>1, <1>3 DEF IsNow, SameShell, q

\* A stage that is in no pipeline goes to the caller.
LEMMA OneIsTaken ==
  ASSUME NEW h, NEW p, NEW H, Owned(h, p, H), NEW c \in Cells, h.stage[c] # NoStage,
         \A l \in Luts : \A k \in 1 .. Len(p[l]) : p[l][k] # c,
         NEW g, g = SetNext(h, c, Nil)
  PROVE  Owned(g, p, Taken(H, c)) /\ g.stage = h.stage /\ g.lut = h.lut
<1>1. h \in Heaps /\ H \subseteq Cells
  BY DEF Owned
<1>2. /\ g \in Heaps /\ g.stage = h.stage /\ g.lut = h.lut /\ g.next = [h.next EXCEPT ![c] = Nil]
      /\ h.next \in [Cells -> Cells \cup {Nil}]
  <2>1. h \in Heaps /\ Nil \in Cells \cup {Nil}
    BY <1>1
  <2>2. QED
    BY <2>1, NextIsSet
<1>3. ASSUME NEW l \in Luts, NEW k \in 1 .. Len(p[l])
      PROVE  /\ p[l][k] \notin H \cup {c} /\ g.next[p[l][k]] = h.next[p[l][k]]
             /\ g.stage[p[l][k]] = h.stage[p[l][k]]
  <2>1. p[l][k] # c /\ p[l][k] \notin H /\ p[l][k] \in Cells
    BY PlacesAreChains DEF Owned
  <2>2. QED
    BY <2>1, <1>2
<1>4. ASSUME NEW d \in H \cup {c} PROVE g.stage[d] # NoStage /\ g.next[d] = Nil
  <2>1. d \in Cells /\ (d # c => h.stage[d] # NoStage /\ h.next[d] = Nil)
    BY <1>1 DEF Owned
  <2>2. QED
    BY <2>1, <1>2
<1>5. H \cup {c} \subseteq Cells
  BY <1>1
<1>6. LooseOnly(h, p, g, H \cup {c})
  BY <1>2, <1>3, <1>4, <1>5 DEF LooseOnly
<1>7. QED
  BY <1>2, <1>6, LooseStagesChange DEF Taken

\* What the Next of a stage is already can be set again.
LEMMA NextStays ==
  ASSUME NEW h \in Heaps, NEW c \in Cells, NEW d, h.next[c] = d
  PROVE  SetNext(h, c, d) = h
<1>1. [h.next EXCEPT ![c] = d] = h.next
  BY DEF Heaps
<1>2. QED
  BY <1>1 DEF SetNext, Heaps

\* The stage c was taken out of pipeline l, which now is t, and is held.
TakenOut(g, h, p, H, l, t, c) ==
  /\ IsNow(h, g, p, l, t, Taken(H, c)) /\ g.stage = h.stage /\ c \in Cells /\ c \notin H
  /\ \A m \in Luts : \A k \in 1 .. Len(With(p, l, t)[m]) : With(p, l, t)[m][k] # c

\* The first stage goes to the caller.
LEMMA FirstIsUnlinked ==
  ASSUME NEW h, NEW p, NEW H, Owned(h, p, H), NEW l \in Luts, ~h.lut[l].nil, p[l] # <<>>,
         NEW c, c = h.lut[l].head, NEW g, g = UnlinkBegin(h, l)
  PROVE  c = p[l][1] /\ TakenOut(g, h, p, H, l, RemoveAt(p[l], 1), c)
<1> DEFINE a == PutAt(h, l, CellAt(p[l], 0), h.next[p[l][1]])
           b == SetNext(a, c, Nil)
           t == RemoveAt(p[l], 1)
           q == With(p, l, t)
<1>1. p[l] \in Seq(Cells) /\ Len(p[l]) \in Nat /\ Linked(h.next, h.lut[l].head, p[l])
  BY PlacesAreChains
<1>2. 0 \in 0 .. Len(p[l]) /\ 1 \in 1 .. Len(p[l]) /\ NextTo(0, 1)
  BY <1>1, EmptySeq DEF NextTo
<1>3. c = p[l][1]
  BY <1>1 DEF Linked
<1>4. c \notin H
  BY <1>2, <1>3 DEF Owned
<1>5. /\ Owned(a, q, H) /\ a.stage = h.stage /\ \A m \in Luts \ {l} : a.lut[m] = h.lut[m]
      /\ a.lut[l].nil = h.lut[l].nil /\ a.lut[l].in = h.lut[l].in /\ a.lut[l].out = h.lut[l].out
      /\ p[l][1] \in Cells /\ h.stage[p[l][1]] # NoStage
      /\ \A m \in Luts : \A k \in 1 .. Len(q[m]) : q[m][k] # p[l][1]
  BY <1>2, OneIsOut
<1>6. t \in Seq(Cells)
  <2>1. p[l] \in Seq(Cells)
    BY <1>1
  <2>2. IsWithout(t, Cells, p[l], 1)
    BY <2>1, <1>2, WithoutOne
  <2>3. QED
    BY <2>2 DEF IsWithout
<1>7. a = SetHead(h, l, h.next[c])
  BY <1>3 DEF PutAt, CellAt
<1>8. g = BlessLUT(b, l)
  BY <1>7 DEF UnlinkBegin
<1> HIDE DEF a, q
<1>9. Owned(b, q, Taken(H, c)) /\ b.stage = a.stage /\ b.lut = a.lut
  BY <1>3, <1>5, OneIsTaken
<1> HIDE DEF b, t
<1>10. SameShell(b, h, l)
  BY <1>5, <1>9 DEF SameShell
<1>11. IsNow(h, g, p, l, t, Taken(H, c)) /\ g.stage = b.stage
  <2>1. p \in Chains
    BY DEF Owned, Chains
  <2>2. Owned(b, With(p, l, t), Taken(H, c))
    BY <1>9 DEF q
  <2>3. QED
    BY <2>1, <2>2, <1>6, <1>8, <1>10, AndBlessed
<1>12. QED
  BY <1>3, <1>4, <1>5, <1>9, <1>11 DEF t, q, TakenOut

\* Place n is the last of s.
EndsAt(s, n) == n = Len(s)

LEMMA LastIsUnlinked ==
  ASSUME NEW h, NEW p, NEW H, Owned(h, p, H), NEW l \in Luts, ~h.lut[l].nil,
         NEW i \in 0 .. Len(p[l]), NEW n \in 1 .. Len(p[l]), NextTo(i, n), EndsAt(p[l], n),
         NEW c, c = p[l][n], NEW g, g = UnlinkEnd(h, l)
  PROVE  TakenOut(g, h, p, H, l, RemoveAt(p[l], n), c)
<1>1. p[l] \in Seq(Cells) /\ Linked(h.next, h.lut[l].head, p[l])
  BY PlacesAreChains
<1>0. /\ i # 0 => i \in 1 .. Len(p[l]) /\ n > 1 /\ n - 1 = i
      /\ i = 0 => ~(n > 1)
  BY DEF NextTo
<1> DEFINE a == PutAt(h, l, CellAt(p[l], i), h.next[p[l][n]])
           t == RemoveAt(p[l], n)
           q == With(p, l, t)
<1>4. c \notin H /\ c \in Cells
  BY <1>1, ElementOfSeq DEF Owned
<1>5. /\ Owned(a, q, H) /\ a.stage = h.stage /\ \A m \in Luts \ {l} : a.lut[m] = h.lut[m]
      /\ a.lut[l].nil = h.lut[l].nil /\ a.lut[l].in = h.lut[l].in /\ a.lut[l].out = h.lut[l].out
      /\ h.stage[p[l][n]] # NoStage /\ a.next[p[l][n]] = h.next[p[l][n]]
      /\ \A m \in Luts : \A k \in 1 .. Len(q[m]) : q[m][k] # p[l][n]
  BY OneIsOut
<1>6. t \in Seq(Cells)
  <2>1. p[l] \in Seq(Cells)
    BY <1>1
  <2>2. IsWithout(t, Cells, p[l], n)
    BY <2>1, WithoutOne
  <2>3. QED
    BY <2>2 DEF IsWithout
<1>7. h.next[p[l][n]] = Nil
  BY <1>1 DEF Linked, EndsAt
<1>8. a = IF n > 1 THEN SetNext(h, p[l][n - 1], Nil) ELSE SetHead(h, l, Nil)
  <2>1. CASE i = 0
    BY <2>1, <1>0, <1>7 DEF PutAt, CellAt
  <2>2. CASE i # 0
    <3>1. i \in 1 .. Len(p[l]) /\ n > 1 /\ n - 1 = i
      BY <2>2, <1>0
    <3>2. p[l][i] # Nil
      BY <3>1, <1>1, ElementOfSeq, CellFacts
    <3>3. QED
      BY <2>2, <3>1, <3>2, <1>7 DEF PutAt, CellAt
  <2>3. QED
    BY <2>1, <2>2
<1>9. CellsOf(h, l) = p[l]
  BY PlacesAreChains
<1>10. g = BlessLUT(a, l)
  BY <1>8, <1>9 DEF UnlinkEnd, EndsAt
<1> HIDE DEF a, q
<1>11. Owned(a, q, Taken(H, c))
  <2>1. a \in Heaps /\ a.next[c] = Nil
    BY <1>5, <1>7 DEF Owned
  <2>2. a = SetNext(a, c, Nil)
    BY <2>1, <1>4, NextStays
  <2>3. QED
    BY <2>2, <1>4, <1>5, OneIsTaken
<1> HIDE DEF t
<1>12. SameShell(a, h, l)
  BY <1>5 DEF SameShell
<1>13. IsNow(h, g, p, l, t, Taken(H, c)) /\ g.stage = a.stage
  <2>1. p \in Chains
    BY DEF Owned, Chains
  <2>2. Owned(a, With(p, l, t), Taken(H, c))
    BY <1>11 DEF q
  <2> DEFINE f == BlessLUT(a, l)
  <2>3. IsNow(h, f, p, l, t, Taken(H, c)) /\ f.stage = a.stage
    BY <2>1, <2>2, <1>6, <1>12, AndBlessed
  <2>4. QED
    BY <2>3, <1>10
<1>14. QED
  BY <1>4, <1>5, <1>13 DEF t, q, TakenOut

\* s with c after its first i stages.
Inserted(s, i, c) == Kept(s, i, Before(c, From(s, i)))
IsInserted(t, s, i, c) ==
  /\ t \in Seq(Cells) /\ t # <<>> /\ Len(t) = Len(s) + 1
  /\ \A k \in 1 .. Len(t) : t[k] = IF k <= i THEN s[k] ELSE IF k = i + 1 THEN c ELSE s[k - 1]

LEMMA InsertedOne ==
  ASSUME NEW s \in Seq(Cells), NEW i \in 0 .. Len(s), NEW c \in Cells, NEW t, t = Inserted(s, i, c)
  PROVE  IsInserted(t, s, i, c)
<1> DEFINE u == From(s, i)
           v == Before(c, u)
           w == Kept(s, i, v)
<1>1. u \in Seq(Cells) /\ Len(u) = Len(s) - i /\ \A k \in 1 .. Len(u) : u[k] = s[i + k]
  BY RestOf
<1>2. u \in Seq(Cells)
  BY <1>1
<1> HIDE DEF u
<1>3. /\ v \in Seq(Cells) /\ Len(v) = Len(u) + 1
      /\ \A k \in 1 .. Len(v) : v[k] = IF k = 1 THEN c ELSE u[k - 1]
  BY <1>2, Prepended
<1>4. v \in Seq(Cells)
  BY <1>3
<1> HIDE DEF v
<1>5. /\ w \in Seq(Cells) /\ Len(w) = i + Len(v)
      /\ \A k \in 1 .. Len(w) : w[k] = IF k <= i THEN s[k] ELSE v[k - i]
  BY <1>4, FirstKept
<1> HIDE DEF w
<1>6. Len(s) \in Nat /\ Len(u) \in Nat /\ Len(v) \in Nat /\ Len(w) \in Nat
  BY <1>2, <1>4, <1>5, LenProperties
<1>7. Len(w) = Len(s) + 1
  BY <1>1, <1>3, <1>5, <1>6
<1>8. w # <<>>
  BY <1>6, <1>7
<1>9. ASSUME NEW k \in 1 .. Len(w)
      PROVE  w[k] = IF k <= i THEN s[k] ELSE IF k = i + 1 THEN c ELSE s[k - 1]
  <2>1. CASE k <= i
    BY <2>1, <1>5
  <2>2. CASE ~(k <= i)
    <3>1. k - i \in 1 .. Len(v)
      BY <2>2, <1>5, <1>6
    <3>2. w[k] = v[k - i] /\ v[k - i] = IF k - i = 1 THEN c ELSE u[(k - i) - 1]
      BY <2>2, <3>1, <1>3, <1>5
    <3>3. CASE k = i + 1
      BY <2>2, <3>2, <3>3
    <3>4. CASE k # i + 1
      <4>1. k - i # 1 /\ (k - i) - 1 \in 1 .. Len(u) /\ i + ((k - i) - 1) = k - 1
        BY <2>2, <3>1, <3>4, <1>3, <1>6
      <4>2. u[(k - i) - 1] = s[k - 1]
        BY <4>1, <1>1
      <4>3. QED
        BY <2>2, <3>2, <3>4, <4>1, <4>2
    <3>5. QED
      BY <3>3, <3>4
  <2>3. QED
    BY <2>1, <2>2
<1>10. t = w
  BY DEF Inserted, w, v, u
<1>11. QED
  BY <1>5, <1>7, <1>8, <1>9, <1>10 DEF IsInserted

\* A stage that is in no pipeline goes in after the first i of pipeline l.
LEMMA OneGoesIn ==
  ASSUME NEW h, NEW p, NEW H, Owned(h, p, H), NEW l \in Luts, ~h.lut[l].nil, NEW i \in 0 .. Len(p[l]),
         NEW c \in Cells, h.stage[c] # NoStage, \A m \in Luts : \A k \in 1 .. Len(p[m]) : p[m][k] # c,
         NEW b, b = SetNext(h, c, Following1(p[l], i)),
         NEW g, g = PutAt(b, l, CellAt(p[l], i), c)
  PROVE  /\ Owned(g, With(p, l, Inserted(p[l], i, c)), Given(H, c)) /\ g.stage = h.stage
         /\ SameShell(g, h, l) /\ g.next[c] = Following1(p[l], i)
<1> DEFINE d == Following1(p[l], i)
           u == From(p[l], i)
           v == Before(c, u)
           G == H \ {c}
           q == With(p, l, Kept(p[l], i, v))
<1>1. h \in Heaps /\ H \subseteq Cells /\ p[l] \in Seq(Cells) /\ Len(p[l]) \in Nat
  BY PlacesAreChains DEF Owned
<1>2. MayFollow(h, p, l, i, d, u, H)
  <2>1. i \in i .. Len(p[l])
    BY <1>1
  <2>2. QED
    BY <2>1, RestMayFollow
<1>3. u \in Seq(Cells) /\ \A k \in 1 .. Len(u) : u[k] # c
  <2>1. p[l] \in Seq(Cells)
    BY <1>1
  <2>2. IsRest(u, Cells, p[l], i)
    BY <2>1, RestIs
  <2> HIDE DEF u
  <2>3. u \in Seq(Cells) /\ \A k \in 1 .. Len(u) : i + k \in 1 .. Len(p[l]) /\ u[k] = p[l][i + k]
    BY <1>1, <2>2 DEF IsRest
  <2>4. QED
    BY <2>3
<1> HIDE DEF u
<1>4. d \in Cells \cup {Nil}
  <2>1. Linked(h.next, d, u)
    BY <1>2 DEF MayFollow
  <2>2. u # <<>> => u[1] \in Cells
    BY <1>3, EmptySeq, ElementOfSeq
  <2>3. QED
    BY <2>1, <2>2 DEF Linked
<1> HIDE DEF d
<1>5. /\ b \in Heaps /\ b.stage = h.stage /\ b.lut = h.lut /\ b.next = [h.next EXCEPT ![c] = d]
      /\ h.next \in [Cells -> Cells \cup {Nil}]
  <2>1. b = SetNext(h, c, d) /\ h \in Heaps
    BY <1>1 DEF d
  <2>2. QED
    BY <2>1, <1>4, NextIsSet
<1>6. Owned(b, p, G)
  <2>1. ASSUME NEW m \in Luts, NEW k \in 1 .. Len(p[m])
        PROVE  /\ p[m][k] \notin G /\ b.next[p[m][k]] = h.next[p[m][k]]
               /\ b.stage[p[m][k]] = h.stage[p[m][k]]
    <3>1. p[m][k] # c /\ p[m][k] \notin H /\ p[m][k] \in Cells
      BY PlacesAreChains DEF Owned
    <3>2. QED
      BY <3>1, <1>5
  <2>2. ASSUME NEW x \in G PROVE b.stage[x] # NoStage /\ b.next[x] = Nil
    <3>1. x \in Cells /\ x # c /\ h.stage[x] # NoStage /\ h.next[x] = Nil
      BY DEF Owned
    <3>2. QED
      BY <3>1, <1>5
  <2>3. LooseOnly(h, p, b, G)
    BY <2>1, <2>2, <1>1, <1>5 DEF LooseOnly
  <2>4. QED
    BY <2>3, LooseStagesChange
<1>7. Linked(b.next, c, v)
  <2>1. Linked(h.next, d, u)
    BY <1>2 DEF MayFollow
  <2>2. QED
    BY <2>1, <1>3, <1>5, OneBefore
<1>8. /\ v \in Seq(Cells) /\ Len(v) = Len(u) + 1
      /\ \A k \in 1 .. Len(v) : v[k] = IF k = 1 THEN c ELSE u[k - 1]
  <2>1. u \in Seq(Cells)
    BY <1>3
  <2>2. QED
    BY <2>1, Prepended
<1>9. Len(u) \in Nat
  BY <1>3, LenProperties
<1> HIDE DEF v
<1>10. MayFollow(b, p, l, i, c, v, G)
  <2>1. ASSUME NEW k \in 1 .. Len(v)
        PROVE  /\ v[k] \notin Elsewhere(p, l) /\ v[k] \notin G /\ b.stage[v[k]] # NoStage
               /\ \A j \in 1 .. i : p[l][j] # v[k]
    <3>1. CASE k = 1
      <4>1. v[k] = c
        BY <3>1, <1>8
      <4>2. c \notin Elsewhere(p, l)
        BY DEF Elsewhere
      <4>3. \A j \in 1 .. i : j \in 1 .. Len(p[l])
        BY <1>1
      <4>4. QED
        BY <4>1, <4>2, <4>3, <1>5
    <3>2. CASE k # 1
      <4>1. k - 1 \in 1 .. Len(u) /\ v[k] = u[k - 1]
        BY <3>2, <1>8, <1>9
      <4>2. QED
        BY <4>1, <1>2, <1>5 DEF MayFollow
    <3>3. QED
      BY <3>1, <3>2
  <2>2. QED
    BY <2>1, <1>7 DEF MayFollow
<1>11. ~b.lut[l].nil
  BY <1>5
<1>12. c # CellAt(p[l], i)
  <2>1. CASE i = 0
    BY <2>1, CellFacts DEF CellAt
  <2>2. CASE i # 0
    <3>1. i \in 1 .. Len(p[l])
      BY <2>2, <1>1
    <3>2. QED
      BY <2>2, <3>1 DEF CellAt
  <2>3. QED
    BY <2>1, <2>2
<1>13. /\ Owned(g, q, G) /\ g.stage = b.stage /\ \A m \in Luts \ {l} : g.lut[m] = b.lut[m]
       /\ g.lut[l].nil = b.lut[l].nil /\ g.lut[l].in = b.lut[l].in /\ g.lut[l].out = b.lut[l].out
       /\ \A x \in Cells : x # CellAt(p[l], i) => g.next[x] = b.next[x]
  <2>1. G \in SUBSET G
    OBVIOUS
  <2> HIDE DEF G
  <2>2. QED
    BY <2>1, <1>6, <1>10, <1>11, CellIsPut
<1>14. SameShell(g, h, l) /\ g.stage = h.stage
  BY <1>5, <1>13 DEF SameShell
<1>15. g.next[c] = d
  BY <1>5, <1>12, <1>13
<1>16. QED
  BY <1>13, <1>14, <1>15 DEF Inserted, Given, u, v, d


----------------------------------------------------------------------------
(* The operations.                                                         *)

\* A stage in hand is the first of the pipeline.
LEMMA BeginIsInserted ==
  ASSUME NEW h, NEW p, NEW H, Owned(h, p, H), NEW l \in Luts, ~h.lut[l].nil, NEW c \in H,
         NEW g, g = InsertBegin(h, l, c)
  PROVE  IsNow(h, g, p, l, Inserted(p[l], 0, c), Given(H, c)) /\ g.stage = h.stage
<1>1. c \in Cells /\ h.stage[c] # NoStage /\ \A m \in Luts : \A k \in 1 .. Len(p[m]) : p[m][k] # c
  BY LooseIsNowhere DEF Owned
<1>2. p[l] \in Seq(Cells) /\ Len(p[l]) \in Nat /\ Linked(h.next, h.lut[l].head, p[l]) /\ p \in Chains
  BY PlacesAreChains DEF Owned, Chains
<1>3. 0 \in 0 .. Len(p[l])
  BY <1>2
<1>4. h.lut[l].head = Following1(p[l], 0)
  BY <1>2, EmptySeq DEF Linked, Following1
<1> DEFINE b == SetNext(h, c, Following1(p[l], 0))
           a == PutAt(b, l, CellAt(p[l], 0), c)
           t == Inserted(p[l], 0, c)
<1>5. Owned(a, With(p, l, t), Given(H, c)) /\ a.stage = h.stage /\ SameShell(a, h, l)
  <2>1. c \in Cells /\ h.stage[c] # NoStage
    BY <1>1
  <2>2. \A m \in Luts : \A k \in 1 .. Len(p[m]) : p[m][k] # c
    BY <1>1
  <2> DEFINE i == 0
  <2>3. i \in 0 .. Len(p[l])
    BY <1>3
  <2> HIDE DEF i
  <2> DEFINE bb == SetNext(h, c, Following1(p[l], i))
             aa == PutAt(bb, l, CellAt(p[l], i), c)
             tt == Inserted(p[l], i, c)
  <2>4. Owned(aa, With(p, l, tt), Given(H, c)) /\ aa.stage = h.stage /\ SameShell(aa, h, l)
    BY <2>1, <2>2, <2>3, OneGoesIn
  <2>5. QED
    BY <2>4 DEF i
<1>6. t \in Seq(Cells)
  <2>1. p[l] \in Seq(Cells)
    BY <1>2
  <2>2. IsInserted(t, p[l], 0, c)
    BY <2>1, <1>1, <1>3, InsertedOne
  <2>3. QED
    BY <2>2 DEF IsInserted
<1>7. g = BlessLUT(a, l)
  BY <1>4 DEF InsertBegin, PutAt, CellAt
<1> HIDE DEF a, t
<1>8. QED
  BY <1>2, <1>5, <1>6, <1>7, AndBlessed DEF t

\* A stage in hand is the last of the pipeline.
LEMMA EndIsInserted ==
  ASSUME NEW h, NEW p, NEW H, Owned(h, p, H), NEW l \in Luts, ~h.lut[l].nil, NEW c \in H,
         NEW n, EndsAt(p[l], n), NEW g, g = InsertEnd(h, l, c)
  PROVE  IsNow(h, g, p, l, Inserted(p[l], n, c), Given(H, c)) /\ g.stage = h.stage
<1>1. /\ c \in Cells /\ h.stage[c] # NoStage /\ \A m \in Luts : \A k \in 1 .. Len(p[m]) : p[m][k] # c
      /\ h.next[c] = Nil /\ h \in Heaps
  BY LooseIsNowhere DEF Owned
<1>2. p[l] \in Seq(Cells) /\ Len(p[l]) \in Nat /\ p \in Chains
  BY PlacesAreChains DEF Owned, Chains
<1>3. n \in 0 .. Len(p[l]) /\ n = Len(p[l])
  BY <1>2 DEF EndsAt
<1>4. Following1(p[l], n) = Nil
  BY <1>3 DEF Following1
<1> DEFINE b == SetNext(h, c, Following1(p[l], n))
           a == PutAt(b, l, CellAt(p[l], n), c)
           t == Inserted(p[l], n, c)
<1>5. Owned(a, With(p, l, t), Given(H, c)) /\ a.stage = h.stage /\ SameShell(a, h, l)
      /\ a.next[c] = Following1(p[l], n)
  <2>1. n \in 0 .. Len(p[l])
    BY <1>3
  <2>2. c \in Cells /\ h.stage[c] # NoStage
    BY <1>1
  <2>3. \A m \in Luts : \A k \in 1 .. Len(p[m]) : p[m][k] # c
    BY <1>1
  <2>4. QED
    BY <2>1, <2>2, <2>3, OneGoesIn
<1>6. t \in Seq(Cells)
  <2>1. p[l] \in Seq(Cells)
    BY <1>2
  <2>2. n \in 0 .. Len(p[l])
    BY <1>3
  <2>3. IsInserted(t, p[l], n, c)
    BY <2>1, <2>2, <1>1, InsertedOne
  <2>4. QED
    BY <2>3 DEF IsInserted
<1>7. b = h
  <2>1. SetNext(h, c, Nil) = h
    BY <1>1, NextStays
  <2>2. QED
    BY <2>1, <1>4
<1>8. a \in Heaps /\ a.next[c] = Nil
  BY <1>4, <1>5 DEF Owned
<1>9. g = BlessLUT(a, l)
  <2>1. CellsOf(h, l) = p[l]
    BY PlacesAreChains
  <2>2. CASE p[l] = <<>>
    <3>1. CellAt(p[l], n) = Nil
      BY <2>2, <1>3 DEF CellAt
    <3>2. a = SetHead(h, l, c)
      BY <3>1, <1>7 DEF PutAt
    <3>3. QED
      BY <3>2, <2>1, <2>2 DEF InsertEnd
  <2>3. CASE p[l] # <<>>
    <3>1. n # 0 /\ n \in 1 .. Len(p[l])
      BY <2>3, <1>2, <1>3, EmptySeq
    <3>2. CellAt(p[l], n) = Last(p[l]) /\ CellAt(p[l], n) \in Cells
      <4>1. p[l][n] \in Cells
        BY <3>1, <1>2, ElementOfSeq
      <4>2. QED
        BY <3>1, <4>1, <1>3 DEF CellAt, Last
    <3>3. a = SetNext(h, Last(p[l]), c)
      BY <3>2, <1>7, CellFacts DEF PutAt
    <3>4. SetNext(a, c, Nil) = a
      BY <1>1, <1>8, NextStays
    <3>5. g = BlessLUT(SetNext(a, c, Nil), l)
      BY <3>3, <2>1, <2>3 DEF InsertEnd
    <3>6. QED
      BY <3>4, <3>5
  <2>4. QED
    BY <2>2, <2>3
<1> HIDE DEF a, t
<1>10. QED
  BY <1>2, <1>5, <1>6, <1>9, AndBlessed DEF t


\* The cell after the first i stages points to the next one.
LEMMA PointsToNext ==
  ASSUME NEW h, NEW p, NEW H, Owned(h, p, H), NEW l \in Luts, NEW i \in 0 .. Len(p[l]),
         NEW at, at = CellAt(p[l], i)
  PROVE  /\ PointsTo(h, l, at) = Following1(p[l], i) /\ at \in Cells \cup {Nil}
         /\ Following1(p[l], i) \in Cells \cup {Nil}
<1>1. p[l] \in Seq(Cells) /\ Len(p[l]) \in Nat /\ Linked(h.next, h.lut[l].head, p[l])
  BY PlacesAreChains
<1>2. /\ i # 0 => i \in 1 .. Len(p[l])
      /\ i # Len(p[l]) => i + 1 \in 1 .. Len(p[l])
      /\ i = 0 /\ i # Len(p[l]) => i + 1 = 1
  BY <1>1
<1>3. \A k \in 1 .. Len(p[l]) : p[l][k] \in Cells
  BY <1>1, ElementOfSeq
<1>4. CASE i = 0
  BY <1>1, <1>2, <1>3, <1>4, EmptySeq DEF PointsTo, CellAt, Following1, Linked
<1>5. CASE i # 0
  BY <1>1, <1>2, <1>3, <1>5, CellFacts DEF PointsTo, CellAt, Following1, Linked
<1>6. QED
  BY <1>4, <1>5

\* The stage after the first i is taken out and freed.
LEMMA ElementIsRemoved ==
  ASSUME NEW h, NEW p, NEW H, Owned(h, p, H), NEW l \in Luts, ~h.lut[l].nil,
         NEW i \in 0 .. Len(p[l]), NEW j \in 1 .. Len(p[l]), NextTo(i, j),
         NEW at, at = CellAt(p[l], i), NEW g, g = RemoveElement(h, l, at)
  PROVE  /\ Owned(g, With(p, l, RemoveAt(p[l], j)), H) /\ SameShell(g, h, l)
         /\ p[l][j] \in Cells /\ PointsTo(h, l, at) = p[l][j]
         /\ g.stage = Freed(h.stage, p[l][j])
<1> DEFINE c == p[l][j]
           b == PutAt(h, l, CellAt(p[l], i), h.next[p[l][j]])
           q == With(p, l, RemoveAt(p[l], j))
<1>1. p[l] \in Seq(Cells) /\ Len(p[l]) \in Nat
  BY PlacesAreChains
<1>2. PointsTo(h, l, at) = c
  <2>1. PointsTo(h, l, at) = Following1(p[l], i)
    BY PointsToNext
  <2>2. i # Len(p[l]) /\ j = i + 1
    BY <1>1 DEF NextTo
  <2>3. QED
    BY <2>1, <2>2 DEF Following1
<1>3. /\ Owned(b, q, H) /\ b.stage = h.stage /\ \A m \in Luts \ {l} : b.lut[m] = h.lut[m]
      /\ b.lut[l].nil = h.lut[l].nil /\ b.lut[l].in = h.lut[l].in /\ b.lut[l].out = h.lut[l].out
      /\ c \in Cells /\ h.stage[c] # NoStage
      /\ \A m \in Luts : \A k \in 1 .. Len(q[m]) : q[m][k] # c
  BY OneIsOut
<1>4. g = StageFree(b, c)
  BY <1>2 DEF RemoveElement
<1>5. c \notin H
  BY DEF Owned
<1> HIDE DEF b, q, c
<1>6. /\ Owned(g, q, Given(H, c)) /\ g.lut = b.lut
      /\ g.stage = Freed(b.stage, c)
  BY <1>3, <1>4, StageIsFreed
<1>7. Given(H, c) = H
  BY <1>5 DEF Given
<1>8. SameShell(g, h, l)
  BY <1>3, <1>6 DEF SameShell
<1>9. QED
  BY <1>2, <1>3, <1>6, <1>7, <1>8 DEF q, c


\* t is s without the n elements after the first i.
IsCut(t, s, i, n) ==
  /\ Len(t) = Len(s) - n
  /\ \A x \in 1 .. Len(t) : t[x] = s[IF x <= i THEN x ELSE x + n]

CutTwo(s, j, k) == RemoveAt(RemoveAt(s, k), j)

LEMMA OneIsCut ==
  ASSUME NEW S, NEW s \in Seq(S), NEW i \in 0 .. Len(s), NEW j \in 1 .. Len(s), NextTo(i, j),
         NEW t, t = RemoveAt(s, j)
  PROVE  t \in Seq(S) /\ IsCut(t, s, i, 1)
<1>1. IsWithout(t, S, s, j)
  BY WithoutOne
<1>2. t \in Seq(S) /\ Len(t) \in Nat /\ Len(t) = Len(s) - 1
  BY <1>1, LenProperties DEF IsWithout
<1>3. j = i + 1 /\ i \in Nat
  BY DEF NextTo
<1>4. ASSUME NEW x \in 1 .. Len(t) PROVE t[x] = s[IF x <= i THEN x ELSE x + 1]
  <2>1. t[x] = s[IF x < j THEN x ELSE x + 1]
    BY <1>1 DEF IsWithout
  <2>2. x < j <=> x <= i
    BY <1>2, <1>3
  <2>3. QED
    BY <2>1, <2>2
<1>5. IsCut(t, s, i, 1)
  BY <1>2, <1>4 DEF IsCut
<1>6. QED
  BY <1>2, <1>5

LEMMA TwoAreCut ==
  ASSUME NEW S, NEW s \in Seq(S), NEW i \in 0 .. Len(s), NEW j \in 1 .. Len(s), NEW k \in 1 .. Len(s),
         NextTo(i, j), NextTo(j, k)
  PROVE  /\ CutTwo(s, j, k) \in Seq(S) /\ IsCut(CutTwo(s, j, k), s, i, 2)
         /\ i \in 0 .. Len(RemoveAt(s, k)) /\ j \in 1 .. Len(RemoveAt(s, k))
         /\ RemoveAt(s, k) \in Seq(S) /\ RemoveAt(s, k)[j] = s[j]
         /\ CellAt(RemoveAt(s, k), i) = CellAt(s, i)
<1> DEFINE r == RemoveAt(s, k)
           t == RemoveAt(r, j)
<1>1. j \in 0 .. Len(s)
  OBVIOUS
<1>2. r \in Seq(S) /\ IsCut(r, s, j, 1)
  BY <1>1, OneIsCut
<1>3. t = CutTwo(s, j, k)
  BY DEF CutTwo
<1> HIDE DEF r
<1>4. Len(r) \in Nat /\ Len(s) \in Nat
  BY <1>2, LenProperties
<1>5. i \in 0 .. Len(r) /\ j \in 1 .. Len(r)
  BY <1>2, <1>4 DEF IsCut, NextTo
<1>11. \A x \in 1 .. j : x \in 1 .. Len(r) /\ r[x] = s[x]
  BY <1>2, <1>5 DEF IsCut
<1>6. r[j] = s[j] /\ CellAt(r, i) = CellAt(s, i)
  <2>1. j \in 1 .. j /\ (i # 0 => i \in 1 .. j)
    BY DEF NextTo
  <2>2. QED
    BY <1>11, <2>1 DEF CellAt
<1>7. t \in Seq(S) /\ IsCut(t, r, i, 1)
  <2>1. r \in Seq(S)
    BY <1>2
  <2>2. QED
    BY <2>1, <1>5, OneIsCut
<1> HIDE DEF t
<1>8. Len(t) \in Nat /\ Len(t) = Len(s) - 2
  BY <1>2, <1>4, <1>7, LenProperties DEF IsCut
<1>9. ASSUME NEW x \in 1 .. Len(t) PROVE t[x] = s[IF x <= i THEN x ELSE x + 2]
  <2>1. CASE x <= i
    <3>1. t[x] = r[x]
      BY <2>1, <1>7 DEF IsCut
    <3>4. x \in 1 .. j
      <4>1. x \in Int /\ 1 <= x /\ x <= i
        BY <2>1, <1>8
      <4>2. i <= j
        BY DEF NextTo
      <4>3. QED
        BY <4>1, <4>2
    <3>2. QED
      BY <2>1, <3>1, <3>4, <1>11
  <2>2. CASE ~(x <= i)
    <3>4. t[x] = r[x + 1]
      BY <2>2, <1>7 DEF IsCut
    <3>5. x \in Int /\ 1 <= x /\ x <= Len(t) /\ Len(t) = Len(r) - 1
      BY <1>7, <1>8 DEF IsCut
    <3>6. ~(x + 1 <= j)
      BY <2>2, <3>5 DEF NextTo
    <3>1. x + 1 \in 1 .. Len(r) /\ ~(x + 1 <= j) /\ (x + 1) + 1 = x + 2 /\ t[x] = r[x + 1]
      BY <3>4, <3>5, <3>6, <1>4
    <3>2. r[x + 1] = s[(x + 1) + 1]
      BY <3>1, <1>2 DEF IsCut
    <3>3. QED
      BY <2>2, <3>1, <3>2
  <2>3. QED
    BY <2>1, <2>2
<1>10. QED
  BY <1>2, <1>3, <1>5, <1>6, <1>7, <1>8, <1>9 DEF IsCut, r

\* The second write to a place is the one that stays.
LEMMA WithTwice ==
  ASSUME NEW p \in Chains, NEW l \in Luts, NEW r, NEW t
  PROVE  With(With(p, l, r), l, t) = With(p, l, t) /\ With(p, l, r)[l] = r
  BY DEF With, Chains

\* The two stages after the first i are taken out and freed.
LEMMA TwoAreRemoved ==
  ASSUME NEW h, NEW p, NEW H, Owned(h, p, H), NEW l \in Luts, ~h.lut[l].nil,
         NEW i \in 0 .. Len(p[l]), NEW j \in 1 .. Len(p[l]), NEW k \in 1 .. Len(p[l]),
         NextTo(i, j), NextTo(j, k),
         NEW at, at = CellAt(p[l], i), NEW g, g = RemoveTwo(h, l, at)
  PROVE  /\ Owned(g, With(p, l, CutTwo(p[l], j, k)), H) /\ SameShell(g, h, l)
         /\ p[l][j] \in Cells /\ p[l][k] \in Cells
         /\ PointsTo(h, l, at) = p[l][j] /\ PointsTo(h, l, p[l][j]) = p[l][k]
         /\ g.stage = Freed(Freed(h.stage, p[l][k]), p[l][j])
<1> DEFINE c == p[l][j]
           a == RemoveElement(h, l, CellAt(p[l], j))
           r == RemoveAt(p[l], k)
           q == With(p, l, r)
<1>1. p[l] \in Seq(Cells) /\ Len(p[l]) \in Nat /\ p \in Chains
  BY PlacesAreChains DEF Owned, Chains
<1>2. PointsTo(h, l, at) = c /\ c \in Cells
  <2> DEFINE b == RemoveElement(h, l, at)
  <2>1. PointsTo(h, l, at) = c /\ c \in Cells
    BY ElementIsRemoved
  <2>2. QED
    BY <2>1
<1>3. CellAt(p[l], j) = c
  BY DEF CellAt
<1>4. /\ Owned(a, q, H) /\ SameShell(a, h, l)
      /\ p[l][k] \in Cells /\ PointsTo(h, l, CellAt(p[l], j)) = p[l][k]
      /\ a.stage = Freed(h.stage, p[l][k])
  <2>1. j \in 0 .. Len(p[l])
    OBVIOUS
  <2>2. QED
    BY <2>1, ElementIsRemoved
<1>5. g = RemoveElement(a, l, at)
  BY <1>2, <1>3 DEF RemoveTwo
<1>6. q[l] = r
  BY <1>1, WithTwice
<1>7. /\ i \in 0 .. Len(r) /\ j \in 1 .. Len(r) /\ r[j] = c /\ CellAt(r, i) = at
  <2>1. p[l] \in Seq(Cells)
    BY <1>1
  <2>2. QED
    BY <2>1, TwoAreCut
<1> HIDE DEF a, r, q
<1>8. ~a.lut[l].nil
  BY <1>4 DEF SameShell
<1>9. /\ Owned(g, With(q, l, RemoveAt(q[l], j)), H) /\ SameShell(g, a, l)
      /\ g.stage = Freed(a.stage, q[l][j])
  <2>1. i \in 0 .. Len(q[l]) /\ j \in 1 .. Len(q[l]) /\ at = CellAt(q[l], i)
    BY <1>6, <1>7
  <2>2. QED
    BY <2>1, <1>4, <1>5, <1>8, ElementIsRemoved
<1>10. With(q, l, RemoveAt(q[l], j)) = With(p, l, CutTwo(p[l], j, k))
  <2>1. With(q, l, RemoveAt(r, j)) = With(p, l, RemoveAt(r, j))
    BY <1>1, WithTwice DEF q
  <2>2. QED
    BY <2>1, <1>6 DEF CutTwo, r
<1>11. SameShell(g, h, l)
  BY <1>4, <1>9 DEF SameShell
<1>12. QED
  BY <1>2, <1>3, <1>4, <1>6, <1>7, <1>9, <1>10, <1>11

\* The first free stage is one.
LEMMA OneIsFree ==
  ASSUME NEW h, FreeCells(h) # {}, NEW c, c = Min(FreeCells(h))
  PROVE  c \in Cells /\ h.stage[c] = NoStage
<1>1. FreeCells(h) \subseteq Nat
  BY CellFacts DEF FreeCells
<1>2. \E x \in FreeCells(h) : \A y \in FreeCells(h) : x <= y
  BY <1>1, LeastNatural
<1>3. c \in FreeCells(h)
  BY <1>2 DEF Min
<1>4. QED
  BY <1>3 DEF FreeCells

\* A free stage is made, and goes into the pipeline after its first i.
LEMMA MadeAndPut ==
  ASSUME NEW h, NEW p, NEW H, Owned(h, p, H), NEW l \in Luts, ~h.lut[l].nil, NEW i \in 0 .. Len(p[l]),
         NEW c \in Cells, h.stage[c] = NoStage, NEW s \in Stages,
         NEW d, d = Following1(p[l], i),
         NEW g, g = PutAt(SetNext(NewStage(h, c, s), c, d), l, CellAt(p[l], i), c)
  PROVE  /\ Owned(g, With(p, l, Inserted(p[l], i, c)), H) /\ SameShell(g, h, l)
         /\ g.stage = Made(h.stage, c, s) /\ c \notin H
<1> DEFINE a == NewStage(h, c, s)
           G == Taken(H, c)
           b == SetNext(a, c, Following1(p[l], i))
<1>1. Owned(a, p, G) /\ a.lut = h.lut /\ a.stage = Made(h.stage, c, s)
  BY StageIsMade
<1>2. c \notin H
  BY DEF Owned
<1> HIDE DEF a, G
<1>3. c \in G
  BY DEF G, Taken
<1>4. c \in Cells /\ a.stage[c] # NoStage
  BY <1>1, <1>3 DEF Owned
<1>5. \A m \in Luts : \A k \in 1 .. Len(p[m]) : p[m][k] # c
  BY <1>1, <1>3, LooseIsNowhere
<1>6. g = PutAt(b, l, CellAt(p[l], i), c)
  BY DEF a
<1>7. ~a.lut[l].nil
  BY <1>1
<1>8. /\ Owned(g, With(p, l, Inserted(p[l], i, c)), Given(G, c)) /\ g.stage = a.stage
      /\ SameShell(g, a, l)
  BY <1>1, <1>4, <1>5, <1>6, <1>7, OneGoesIn
<1>9. Given(G, c) = H
  BY <1>2 DEF Given, Taken, G
<1>10. SameShell(g, h, l)
  BY <1>1, <1>8 DEF SameShell
<1>11. QED
  BY <1>1, <1>2, <1>8, <1>9, <1>10

\* The product of matrices is a matrix.
LEMMA ProductIsMatrix ==
  ASSUME NEW a \in [1 .. 9 -> Int], NEW b \in [1 .. 9 -> Int]
  PROVE  MAT3per(a, b) \in [1 .. 9 -> Int]
<1>1. ASSUME NEW k \in 1 .. 9 PROVE RowTimesColumn(a, b, (k - 1) \div 3, (k - 1) % 3) \in Int
  <2>1. (k - 1) \div 3 \in 0 .. 2 /\ (k - 1) % 3 \in 0 .. 2
    OBVIOUS
  <2>2. ASSUME NEW i \in 0 .. 2, NEW j \in 0 .. 2 PROVE RowTimesColumn(a, b, i, j) \in Int
    <3>1. /\ i * 3 + 1 \in 1 .. 9 /\ i * 3 + 2 \in 1 .. 9 /\ i * 3 + 3 \in 1 .. 9
          /\ j + 1 \in 1 .. 9 /\ 3 + j + 1 \in 1 .. 9 /\ 6 + j + 1 \in 1 .. 9
      OBVIOUS
    <3>2. /\ a[i * 3 + 1] \in Int /\ a[i * 3 + 2] \in Int /\ a[i * 3 + 3] \in Int
          /\ b[j + 1] \in Int /\ b[3 + j + 1] \in Int /\ b[6 + j + 1] \in Int
      BY <3>1
    <3>3. \A x, y, z, u, v, w \in Int : x * u + y * v + z * w \in Int
      OBVIOUS
    <3>4. QED
      BY <3>2, <3>3 DEF RowTimesColumn
  <2>3. QED
    BY <2>1, <2>2
<1>2. QED
  BY <1>1 DEF MAT3per

\* The matrix stages that can be multiplied are three by three.
LEMMA MatricesToMultiply ==
  ASSUME NEW s \in StagesOrNone, s.implements = "Matrix", Multipliable(s)
  PROVE  s.data.matrix \in [1 .. 9 -> Int]
<1>1. s # NoStage
  BY DEF NoStage
<1>2. WellMade(s)
  BY <1>1, StagesAreWellMade DEF StagesOrNone
<1>3. s.in = 3 /\ s.out = 3
  BY DEF Multipliable
<1>4. s.data.matrix \in [1 .. s.in * s.out -> Int]
  BY <1>2 DEF WellMade
<1>5. s.in * s.out = 9
  BY <1>3
<1>6. QED
  BY <1>4, <1>5


\* What comes before a cut stays where it was.
LEMMA CutTwoKeeps ==
  ASSUME NEW S, NEW s \in Seq(S), NEW i \in 0 .. Len(s), NEW j \in 1 .. Len(s), NEW k \in 1 .. Len(s),
         NextTo(i, j), NextTo(j, k), NEW t, t = CutTwo(s, j, k)
  PROVE  t \in Seq(S) /\ i \in 0 .. Len(t) /\ CellAt(t, i) = CellAt(s, i)
<1>1. t \in Seq(S) /\ IsCut(t, s, i, 2)
  BY TwoAreCut
<1>2. Len(t) \in Nat /\ Len(s) \in Nat /\ Len(t) = Len(s) - 2
  BY <1>1, LenProperties DEF IsCut
<1>3. i + 2 <= Len(s)
  BY <1>2 DEF NextTo
<1>4. i \in 0 .. Len(t)
  BY <1>2, <1>3
<1>5. CASE i = 0
  BY <1>1, <1>4, <1>5 DEF CellAt
<1>6. CASE i # 0
  <2>1. i \in 1 .. Len(t) /\ i <= i
    BY <1>4, <1>6
  <2>2. t[i] = s[i]
    BY <2>1, <1>1 DEF IsCut
  <2>3. QED
    BY <2>2, <1>1, <1>4, <1>6 DEF CellAt
<1>7. QED
  BY <1>5, <1>6

\* Two matrices after the first i become their product, or nothing.
\* g is f, or f with a stage of res after the first i of r.
Multiplied(g, f, h, p, H, l, i, r, res) ==
  /\ res \in [1 .. 9 -> Int]
  /\ res = IdentityMatrix => g = f
  /\ res # IdentityMatrix =>
       \E c \in Cells :
         /\ f.stage[c] = NoStage
         /\ Owned(g, With(p, l, Inserted(r, i, c)), H) /\ SameShell(g, h, l)
         /\ g.stage = Made(f.stage, c, StageAllocMatrix(3, 3, res, <<>>))

LEMMA TwoAreMultiplied ==
  ASSUME NEW h, NEW p, NEW H, Owned(h, p, H), NEW l \in Luts, ~h.lut[l].nil,
         NEW i \in 0 .. Len(p[l]), NEW j \in 1 .. Len(p[l]), NEW k \in 1 .. Len(p[l]),
         NextTo(i, j), NextTo(j, k), NEW at, at = CellAt(p[l], i),
         h.stage[p[l][j]].implements = "Matrix", Multipliable(h.stage[p[l][j]]),
         h.stage[p[l][k]].implements = "Matrix", Multipliable(h.stage[p[l][k]]),
         NEW res, res = MAT3per(h.stage[p[l][k]].data.matrix, h.stage[p[l][j]].data.matrix),
         NEW f, f = RemoveTwo(h, l, at), NEW g, g = MultiplyTwo(h, l, at)
  PROVE  Multiplied(g, f, h, p, H, l, i, CutTwo(p[l], j, k), res)
<1>1. p[l] \in Seq(Cells) /\ Len(p[l]) \in Nat /\ p \in Chains /\ h.stage \in [Cells -> StagesOrNone]
  BY PlacesAreChains DEF Owned, Chains, Heaps
<1> DEFINE t == CutTwo(p[l], j, k)
           q == With(p, l, t)
           s == StageAllocMatrix(3, 3, res, <<>>)
           c == Min(FreeCells(f))
           chain == PointsTo(f, l, at)
<1>2. /\ Owned(f, q, H) /\ SameShell(f, h, l) /\ p[l][j] \in Cells /\ p[l][k] \in Cells
      /\ PointsTo(h, l, at) = p[l][j] /\ PointsTo(h, l, p[l][j]) = p[l][k]
      /\ f.stage = Freed(Freed(h.stage, p[l][k]), p[l][j])
  BY TwoAreRemoved
<1>3. h.next[p[l][j]] = p[l][k]
  BY <1>2, CellFacts DEF PointsTo
<1>4. res \in [1 .. 9 -> Int]
  <2>1. h.stage[p[l][j]] \in StagesOrNone /\ h.stage[p[l][k]] \in StagesOrNone
    BY <1>1, <1>2
  <2>2. h.stage[p[l][j]].data.matrix \in [1 .. 9 -> Int]
    BY <2>1, MatricesToMultiply
  <2>3. h.stage[p[l][k]].data.matrix \in [1 .. 9 -> Int]
    BY <2>1, MatricesToMultiply
  <2>4. QED
    BY <2>2, <2>3, ProductIsMatrix
<1>5. g = IF res = IdentityMatrix THEN f
          ELSE PutAt(SetNext(NewStage(f, c, s), c, chain), l, at, c)
  BY <1>2, <1>3 DEF MultiplyTwo
<1>6. c \in Cells /\ f.stage[c] = NoStage
  <2>1. f.stage[p[l][j]] = NoStage
    BY <1>1, <1>2 DEF Freed
  <2>2. FreeCells(f) # {}
    BY <2>1, <1>2 DEF FreeCells
  <2>3. QED
    BY <2>2, OneIsFree
<1>7. s \in Stages
  BY <1>4 DEF Stages
<1>8. i \in 0 .. Len(t) /\ CellAt(t, i) = at
  <2>1. p[l] \in Seq(Cells)
    BY <1>1
  <2>2. QED
    BY <2>1, CutTwoKeeps
<1>9. q[l] = t
  BY <1>1, WithTwice
<1>10. ~f.lut[l].nil
  BY <1>2 DEF SameShell
<1> HIDE DEF q, t, s, c
<1>11. i \in 0 .. Len(q[l]) /\ at = CellAt(q[l], i)
  BY <1>8, <1>9
<1>12. chain = Following1(q[l], i)
  BY <1>2, <1>11, PointsToNext
<1> HIDE DEF chain
<1>13. ASSUME res # IdentityMatrix
       PROVE  /\ Owned(g, With(q, l, Inserted(q[l], i, c)), H) /\ SameShell(g, f, l)
              /\ g.stage = Made(f.stage, c, s)
  <2>1. g = PutAt(SetNext(NewStage(f, c, s), c, chain), l, CellAt(q[l], i), c)
    BY <1>5, <1>11, <1>13
  <2>2. i \in 0 .. Len(q[l])
    BY <1>11
  <2>3. QED
    BY <2>1, <2>2, <1>2, <1>6, <1>7, <1>10, <1>12, MadeAndPut
<1>14. With(q, l, Inserted(q[l], i, c)) = With(p, l, Inserted(CutTwo(p[l], j, k), i, c))
  <2>1. With(q, l, Inserted(t, i, c)) = With(p, l, Inserted(t, i, c))
    BY <1>1, WithTwice DEF q
  <2>2. QED
    BY <2>1, <1>9 DEF t
<1>15. SameShell(g, f, l) => SameShell(g, h, l)
  BY <1>2 DEF SameShell
<1>16. QED
  BY <1>4, <1>5, <1>6, <1>13, <1>14, <1>15 DEF s, t, Multiplied

----------------------------------------------------------------------------
(* Copies.                                                                 *)

\* With the first j stages of s copied to the end of pipeline l of h, which
\* then is t, the heap is x.
Copying(h, p, H, l, s, j, x, t) ==
  /\ t \in Seq(Cells) /\ Len(t) = Len(p[l]) + j
  /\ Owned(x, With(p, l, t), H)
  /\ x.lut[l].nil = h.lut[l].nil /\ \A m \in Luts \ {l} : x.lut[m] = h.lut[m]
  /\ \A c \in Cells : h.stage[c] # NoStage => x.stage[c] = h.stage[c]
  /\ Cardinality(FreeCells(x)) + j = Cardinality(FreeCells(h))
  /\ \A i \in 1 .. Len(p[l]) : t[i] = p[l][i]
  /\ \A i \in 1 .. j : x.stage[t[Len(p[l]) + i]] = h.stage[s[i]]

\* There are s stages to copy and room for their copies.
ToCopy(h, s) ==
  /\ s \in Seq(Cells) /\ \A i \in 1 .. Len(s) : h.stage[s[i]] # NoStage
  /\ Cardinality(FreeCells(h)) >= Len(s)

LEMMA FreeAreFinite ==
  ASSUME NEW h
  PROVE  IsFiniteSet(FreeCells(h)) /\ Cardinality(FreeCells(h)) \in Nat
<1>1. FreeCells(h) \subseteq Cells
  BY DEF FreeCells
<1>2. QED
  BY <1>1, CellFacts, FS_Subset, FS_CardinalityType

\* While there are stages to copy there is a place for the next copy, which is
\* like the original.
LEMMA NextCopy ==
  ASSUME NEW h, NEW p, NEW H, Owned(h, p, H), NEW l \in Luts, NEW s, ToCopy(h, s),
         NEW j \in 0 .. Len(s), NEW k \in 1 .. Len(s), NextTo(j, k),
         NEW x, NEW t, Copying(h, p, H, l, s, j, x, t), NEW c, c = Min(FreeCells(x))
  PROVE  /\ c \in Cells /\ x.stage[c] = NoStage /\ s[k] \in Cells
         /\ StageDup(x.stage[s[k]]) = h.stage[s[k]] /\ h.stage[s[k]] \in Stages
<1>1. s \in Seq(Cells) /\ Len(s) \in Nat /\ s[k] \in Cells
  BY LenProperties, ElementOfSeq DEF ToCopy
<1>2. FreeCells(x) # {}
  <2>1. SUFFICES ASSUME FreeCells(x) = {} PROVE FALSE
    OBVIOUS
  <2>2. Cardinality(FreeCells(x)) = 0
    BY <2>1, FS_EmptySet
  <2>3. Cardinality(FreeCells(h)) = j
    BY <2>2, <1>1 DEF Copying
  <2>4. j < Len(s)
    BY <1>1 DEF NextTo
  <2>5. QED
    BY <2>3, <2>4, <1>1 DEF ToCopy
<1>3. c \in Cells /\ x.stage[c] = NoStage
  BY <1>2, OneIsFree
<1>4. h.stage[s[k]] # NoStage
  BY DEF ToCopy
<1>5. x.stage[s[k]] = h.stage[s[k]]
  BY <1>1, <1>4 DEF Copying
<1>6. h.stage[s[k]] \in Stages
  BY <1>1, <1>4 DEF Owned, Heaps, StagesOrNone
<1>7. StageDup(h.stage[s[k]]) = h.stage[s[k]]
  BY <1>6, StagesAreWellMade DEF WellMade
<1>8. QED
  BY <1>1, <1>3, <1>5, <1>6, <1>7

\* The copy has gone to the end of the pipeline.
LEMMA OneMoreCopied ==
  ASSUME NEW h, NEW p, NEW H, Owned(h, p, H), NEW l \in Luts, NEW s, ToCopy(h, s),
         NEW j \in 0 .. Len(s), NEW k \in 1 .. Len(s), NextTo(j, k),
         NEW x, NEW t, Copying(h, p, H, l, s, j, x, t),
         NEW n, EndsAt(t, n), NEW c \in Cells, x.stage[c] = NoStage,
         NEW g, NEW u, u = Inserted(t, n, c), Owned(g, With(p, l, u), H),
         g.stage = Made(x.stage, c, h.stage[s[k]]), g.lut[l].nil = x.lut[l].nil,
         \A m \in Luts \ {l} : g.lut[m] = x.lut[m]
  PROVE  Copying(h, p, H, l, s, k, g, u)
<1>1. p[l] \in Seq(Cells) /\ Len(p[l]) \in Nat /\ t \in Seq(Cells) /\ Len(t) \in Nat
  BY LenProperties DEF Copying, Owned
<1>2. IsInserted(u, t, n, c)
  <2>1. t \in Seq(Cells)
    BY <1>1
  <2>2. n \in 0 .. Len(t)
    BY <1>1 DEF EndsAt
  <2>3. QED
    BY <2>1, <2>2, InsertedOne
<1>3. u \in Seq(Cells) /\ Len(u) = Len(t) + 1 /\ u[Len(t) + 1] = c /\ \A i \in 1 .. Len(t) : u[i] = t[i]
  BY <1>1, <1>2 DEF IsInserted, EndsAt
<1>4. Len(t) = Len(p[l]) + j
  BY DEF Copying
<1>14. Len(t) + 1 = Len(p[l]) + k
  <2> DEFINE now == Len(t)
             first == Len(p[l])
  <2>1. now \in Nat /\ first \in Nat /\ now = first + j
    BY <1>1, <1>4
  <2> HIDE DEF now, first
  <2>2. now + 1 = first + (j + 1)
    BY <2>1
  <2>3. k = j + 1
    BY DEF NextTo
  <2>4. now + 1 = first + k
    BY <2>2, <2>3
  <2>5. QED
    BY <2>4 DEF now, first
<1>5. Len(u) = Len(p[l]) + k
  BY <1>3, <1>14
<1>6. h.stage[s[k]] # NoStage /\ h.stage[s[k]] \in StagesOrNone
  <2>1. s[k] \in Cells
    BY ElementOfSeq DEF ToCopy
  <2>2. QED
    BY <2>1 DEF ToCopy, Heaps, Owned
<1>7. h.stage \in [Cells -> StagesOrNone] /\ x.stage \in [Cells -> StagesOrNone]
  BY DEF Heaps, Copying, Owned
<1>8. ASSUME NEW d \in Cells, h.stage[d] # NoStage PROVE g.stage[d] = h.stage[d]
  <2>1. x.stage[d] = h.stage[d] /\ d # c
    BY <1>8 DEF Copying
  <2>2. QED
    BY <2>1, <1>7 DEF Made
<1>9. Cardinality(FreeCells(g)) + k = Cardinality(FreeCells(h))
  <2>1. FreeCells(g) = FreeCells(x) \ {c} /\ c \in FreeCells(x)
    BY <1>6, <1>7 DEF FreeCells, Made
  <2>2. Cardinality(FreeCells(g)) = Cardinality(FreeCells(x)) - 1
    BY <2>1, FreeAreFinite, FS_RemoveElement
  <2>3. Cardinality(FreeCells(x)) + j = Cardinality(FreeCells(h))
    BY DEF Copying
  <2>4. Cardinality(FreeCells(x)) \in Nat /\ Cardinality(FreeCells(g)) \in Nat
    BY FreeAreFinite
  <2>5. QED
    BY <2>2, <2>3, <2>4 DEF NextTo
<1>10. \A i \in 1 .. Len(p[l]) : u[i] = p[l][i]
  <2>1. \A i \in 1 .. Len(p[l]) : i \in 1 .. Len(t) /\ t[i] = p[l][i]
    BY <1>1, <1>4 DEF Copying
  <2>2. QED
    BY <2>1, <1>3
<1>11. ASSUME NEW i \in 1 .. k PROVE g.stage[u[Len(p[l]) + i]] = h.stage[s[i]]
  <2>1. CASE i = k
    <3>1. Len(p[l]) + i = Len(t) + 1
      BY <2>1, <1>14
    <3>2. u[Len(p[l]) + i] = c
      BY <3>1, <1>3
    <3>3. QED
      BY <2>1, <3>2, <1>7 DEF Made
  <2>2. CASE i # k
    <3>1. i \in 1 .. j
      BY <2>2 DEF NextTo
    <3>2. Len(p[l]) + i \in 1 .. Len(t)
      BY <3>1, <1>1, <1>4
    <3>3. u[Len(p[l]) + i] = t[Len(p[l]) + i] /\ t[Len(p[l]) + i] \in Cells
      BY <3>2, <1>1, <1>3, ElementOfSeq
    <3>4. x.stage[t[Len(p[l]) + i]] = h.stage[s[i]]
      BY <3>1 DEF Copying
    <3>5. h.stage[s[i]] # NoStage
      BY DEF ToCopy
    <3>6. t[Len(p[l]) + i] # c
      BY <3>4, <3>5
    <3>7. QED
      BY <3>3, <3>4, <3>6, <1>7 DEF Made
  <2>3. QED
    BY <2>1, <2>2
<1>12. g.lut[l].nil = h.lut[l].nil /\ \A m \in Luts \ {l} : g.lut[m] = h.lut[m]
  BY DEF Copying
<1>13. QED
  BY <1>3, <1>5, <1>8, <1>9, <1>10, <1>11, <1>12 DEF Copying


\* c linked to the last of pipeline l, or as its first.
LinkedLast(b, p, l, c) == IF p[l] = <<>> THEN SetHead(b, l, c) ELSE SetNext(b, Last(p[l]), c)
LastIn(p, l, c) == Inserted(p[l], Len(p[l]), c)
WithLast(p, l, c) == With(p, l, LastIn(p, l, c))

\* Pipeline l has been allocated.
Live(h, l) == ~h.lut[l].nil

\* A stage is made and linked to the last of the pipeline.
LEMMA EndIsMade ==
  ASSUME NEW h, NEW p, NEW H, Owned(h, p, H), NEW l \in Luts, Live(h, l),
         NEW c \in FreeCells(h), NEW s \in Stages, NEW b, b = NewStage(h, c, s),
         NEW g, g = LinkedLast(b, p, l, c)
  PROVE  /\ Owned(g, WithLast(p, l, c), H) /\ SameShell(g, h, l)
         /\ g.stage = Made(h.stage, c, s)
<1> DEFINE n == Len(p[l])
<1>1. p[l] \in Seq(Cells) /\ Len(p[l]) \in Nat
  BY PlacesAreChains
<1>2. n \in 0 .. Len(p[l]) /\ n = Len(p[l])
  BY <1>1
<1>3. Following1(p[l], n) = Nil
  BY <1>2 DEF Following1
<1> DEFINE G == Taken(H, c)
           a == PutAt(SetNext(NewStage(h, c, s), c, Nil), l, CellAt(p[l], n), c)
<1>0. c \in Cells /\ h.stage[c] = NoStage /\ ~h.lut[l].nil
  BY DEF FreeCells, Live
<1>4. Owned(b, p, G)
  <2>1. c \in Cells /\ h.stage[c] = NoStage
    BY <1>0
  <2>2. QED
    BY <2>1, StageIsMade
<1>5. b \in Heaps /\ b.next[c] = Nil
  <2>1. c \in G
    BY DEF Taken
  <2> HIDE DEF G
  <2>2. QED
    BY <2>1, <1>4 DEF Owned
<1>6. SetNext(b, c, Nil) = b
  <2>1. c \in Cells
    BY <1>0
  <2>2. QED
    BY <2>1, <1>5, NextStays
<1>7. a = g
  <2>1. a = PutAt(b, l, CellAt(p[l], n), c)
    BY <1>6
  <2>2. CASE p[l] = <<>>
    BY <2>1, <2>2, <1>2 DEF CellAt, PutAt, LinkedLast
  <2>3. CASE p[l] # <<>>
    <3>1. n # 0 /\ n \in 1 .. Len(p[l])
      BY <2>3, <1>1, <1>2, EmptySeq
    <3>2. CellAt(p[l], n) = Last(p[l]) /\ CellAt(p[l], n) \in Cells
      <4>1. p[l][n] \in Cells
        BY <3>1, <1>1, ElementOfSeq
      <4>2. QED
        BY <3>1, <4>1, <1>2 DEF CellAt, Last
    <3>3. QED
      BY <2>1, <2>3, <3>2, CellFacts DEF PutAt, LinkedLast
  <2>4. QED
    BY <2>2, <2>3
<1>8. n \in 0 .. Len(p[l]) /\ Nil = Following1(p[l], n)
  BY <1>2, <1>3
<1> HIDE DEF a
<1>9. /\ Owned(a, With(p, l, Inserted(p[l], n, c)), H) /\ SameShell(a, h, l)
      /\ a.stage = Made(h.stage, c, s)
  <2> DEFINE d == Following1(p[l], n)
             f == PutAt(SetNext(NewStage(h, c, s), c, d), l, CellAt(p[l], n), c)
  <2>1. n \in 0 .. Len(p[l])
    BY <1>8
  <2> HIDE DEF n
  <2>2. /\ Owned(f, With(p, l, Inserted(p[l], n, c)), H) /\ SameShell(f, h, l)
        /\ f.stage = Made(h.stage, c, s)
    <3>1. d = Following1(p[l], n)
      OBVIOUS
    <3> HIDE DEF d
    <3>2. QED
      BY <2>1, <3>1, <1>0, MadeAndPut
  <2>3. f = a
    BY <1>8 DEF a
  <2>4. QED
    BY <2>2, <2>3
<1>10. QED
  BY <1>7, <1>9 DEF WithLast, LastIn

\* A stage is made and inserted at the end of the pipeline.
LEMMA EndIsMadeAndBlessed ==
  ASSUME NEW h, NEW p, NEW H, Owned(h, p, H), NEW l \in Luts, Live(h, l),
         NEW c \in FreeCells(h), NEW s \in Stages,
         NEW g, g = InsertEnd(NewStage(h, c, s), l, c)
  PROVE  IsNow(h, g, p, l, LastIn(p, l, c), H) /\ g.stage = Made(h.stage, c, s)
<1> DEFINE b == NewStage(h, c, s)
           G == Taken(H, c)
           n == Len(p[l])
           t == Inserted(p[l], n, c)
<1>0. c \in Cells /\ h.stage[c] = NoStage /\ ~h.lut[l].nil
  BY DEF FreeCells, Live
<1>1. Owned(b, p, G) /\ b.lut = h.lut /\ b.stage = Made(h.stage, c, s)
  <2>1. c \in Cells /\ h.stage[c] = NoStage
    BY <1>0
  <2>2. QED
    BY <2>1, StageIsMade
<1>2. c \notin H
  BY <1>0 DEF Owned
<1>3. c \in G /\ Given(G, c) = H
  BY <1>2 DEF Taken, Given
<1>4. ~b.lut[l].nil /\ EndsAt(p[l], n)
  BY <1>0, <1>1 DEF EndsAt
<1> HIDE DEF b, G, n
<1>5. IsNow(b, g, p, l, t, Given(G, c)) /\ g.stage = b.stage
  <2>1. g = InsertEnd(b, l, c)
    BY DEF b
  <2>2. QED
    BY <2>1, <1>1, <1>3, <1>4, EndIsInserted
<1>6. IsNow(h, g, p, l, t, H)
  BY <1>1, <1>3, <1>5 DEF IsNow
<1>7. QED
  BY <1>1, <1>5, <1>6 DEF LastIn, n


\* What the loops of cmsPipelineDup and cmsPipelineCat leave after each round.
DupLoop(f, n, g, l, s) ==
  f = [k \in 0 .. n |-> IF k = 0 THEN g ELSE DupCopy(f[k - 1], l, s[k])]
CatLoop(f, n, g, l, s) ==
  f = [k \in 0 .. n |-> IF k = 0 THEN [h |-> g, ok |-> TRUE] ELSE CatCopy(f[k - 1], l, s[k])]

LEMMA DupLoopExists ==
  ASSUME NEW n \in Nat, NEW g, NEW l, NEW s
  PROVE  \E f : DupLoop(f, n, g, l, s)
<1> DEFINE Upto == {k \in 0 .. n : \E f : DupLoop(f, k, g, l, s)}
<1>1. 0 \in Upto
  <2> DEFINE f == [k \in 0 .. 0 |-> g]
  <2>1. DupLoop(f, 0, g, l, s)
    BY DEF DupLoop
  <2> HIDE DEF f
  <2>2. 0 \in 0 .. n
    OBVIOUS
  <2>3. QED
    BY <2>1, <2>2
<1>2. ASSUME NEW i \in 0 .. n, i \in Upto, i < n PROVE i + 1 \in Upto
  <2>1. PICK f : DupLoop(f, i, g, l, s)
    BY <1>2
  <2> DEFINE e == [k \in 0 .. i + 1 |-> IF k <= i THEN f[k] ELSE DupCopy(f[i], l, s[i + 1])]
  <2>2. ASSUME NEW k \in 0 .. i + 1
        PROVE  e[k] = IF k = 0 THEN g ELSE DupCopy(e[k - 1], l, s[k])
    <3>1. CASE k <= i
      <4>1. k \in 0 .. i /\ e[k] = f[k] /\ (k # 0 => k - 1 \in 0 .. i + 1 /\ k - 1 <= i)
        BY <3>1
      <4>2. k # 0 => e[k - 1] = f[k - 1]
        BY <4>1
      <4>3. f[k] = IF k = 0 THEN g ELSE DupCopy(f[k - 1], l, s[k])
        BY <4>1, <2>1 DEF DupLoop
      <4> HIDE DEF e
      <4>4. QED
        BY <4>1, <4>2, <4>3
    <3>2. CASE ~(k <= i)
      <4>1. k # 0 /\ k - 1 = i /\ i \in 0 .. i + 1 /\ e[i] = f[i] /\ k = i + 1
        BY <3>2
      <4>2. e[k] = DupCopy(f[i], l, s[i + 1])
        BY <3>2
      <4> HIDE DEF e
      <4>3. QED
        BY <4>1, <4>2
    <3>3. QED
      BY <3>1, <3>2
  <2>3. e = [k \in 0 .. i + 1 |-> e[k]]
    OBVIOUS
  <2> HIDE DEF e
  <2>4. DupLoop(e, i + 1, g, l, s)
    BY <2>2, <2>3 DEF DupLoop
  <2>5. i + 1 \in 0 .. n
    BY <1>2
  <2>6. QED
    BY <2>4, <2>5
<1> HIDE DEF Upto
<1>3. 0 .. n \subseteq Upto
  BY <1>1, <1>2, Induction
<1>4. n \in Upto
  BY <1>3
<1>5. QED
  BY <1>4 DEF Upto

LEMMA CatLoopExists ==
  ASSUME NEW n \in Nat, NEW g, NEW l, NEW s
  PROVE  \E f : CatLoop(f, n, g, l, s)
<1> DEFINE Upto == {k \in 0 .. n : \E f : CatLoop(f, k, g, l, s)}
<1>1. 0 \in Upto
  <2> DEFINE f == [k \in 0 .. 0 |-> [h |-> g, ok |-> TRUE]]
  <2>1. CatLoop(f, 0, g, l, s)
    BY DEF CatLoop
  <2> HIDE DEF f
  <2>2. 0 \in 0 .. n
    OBVIOUS
  <2>3. QED
    BY <2>1, <2>2
<1>2. ASSUME NEW i \in 0 .. n, i \in Upto, i < n PROVE i + 1 \in Upto
  <2>1. PICK f : CatLoop(f, i, g, l, s)
    BY <1>2
  <2> DEFINE e == [k \in 0 .. i + 1 |-> IF k <= i THEN f[k] ELSE CatCopy(f[i], l, s[i + 1])]
  <2>2. ASSUME NEW k \in 0 .. i + 1
        PROVE  e[k] = IF k = 0 THEN [h |-> g, ok |-> TRUE] ELSE CatCopy(e[k - 1], l, s[k])
    <3>1. CASE k <= i
      <4>1. k \in 0 .. i /\ e[k] = f[k] /\ (k # 0 => k - 1 \in 0 .. i + 1 /\ k - 1 <= i)
        BY <3>1
      <4>2. k # 0 => e[k - 1] = f[k - 1]
        BY <4>1
      <4>3. f[k] = IF k = 0 THEN [h |-> g, ok |-> TRUE] ELSE CatCopy(f[k - 1], l, s[k])
        BY <4>1, <2>1 DEF CatLoop
      <4> HIDE DEF e
      <4>4. QED
        BY <4>1, <4>2, <4>3
    <3>2. CASE ~(k <= i)
      <4>1. k # 0 /\ k - 1 = i /\ i \in 0 .. i + 1 /\ e[i] = f[i] /\ k = i + 1
        BY <3>2
      <4>2. e[k] = CatCopy(f[i], l, s[i + 1])
        BY <3>2
      <4> HIDE DEF e
      <4>3. QED
        BY <4>1, <4>2
    <3>3. QED
      BY <3>1, <3>2
  <2>3. e = [k \in 0 .. i + 1 |-> e[k]]
    OBVIOUS
  <2> HIDE DEF e
  <2>4. CatLoop(e, i + 1, g, l, s)
    BY <2>2, <2>3 DEF CatLoop
  <2>5. i + 1 \in 0 .. n
    BY <1>2
  <2>6. QED
    BY <2>4, <2>5
<1> HIDE DEF Upto
<1>3. 0 .. n \subseteq Upto
  BY <1>1, <1>2, Induction
<1>4. n \in Upto
  BY <1>3
<1>5. QED
  BY <1>4 DEF Upto


\* One stage more is copied by cmsPipelineDup.
LEMMA DupCopied ==
  ASSUME NEW h, NEW p, NEW H, Owned(h, p, H), NEW l \in Luts, ~h.lut[l].nil, NEW s, ToCopy(h, s),
         NEW j \in 0 .. Len(s), NEW k \in 1 .. Len(s), NextTo(j, k),
         NEW x, NEW t, Copying(h, p, H, l, s, j, x, t), NEW g, g = DupCopy(x, l, s[k])
  PROVE  (\E u : Copying(h, p, H, l, s, k, g, u)) /\ SameShell(g, x, l)
<1> DEFINE q == With(p, l, t)
           c == Min(FreeCells(x))
           v == StageDup(x.stage[s[k]])
           b == NewStage(x, c, v)
           n == Len(t)
           u == Inserted(t, n, c)
<1>1. p \in Chains /\ h \in Heaps
  BY DEF Owned, Chains
<1>2. /\ c \in Cells /\ x.stage[c] = NoStage /\ s[k] \in Cells /\ v = h.stage[s[k]] /\ v \in Stages
  <2>1. c = Min(FreeCells(x))
    OBVIOUS
  <2> HIDE DEF c
  <2>2. /\ c \in Cells /\ x.stage[c] = NoStage /\ s[k] \in Cells
        /\ StageDup(x.stage[s[k]]) = h.stage[s[k]] /\ h.stage[s[k]] \in Stages
    BY <1>1, <2>1, NextCopy
  <2>3. QED
    BY <2>2
<1>3. Owned(x, q, H) /\ ~x.lut[l].nil /\ EndsAt(t, n) /\ t \in Seq(Cells)
  BY DEF Copying, EndsAt
<1>4. q[l] = t
  BY <1>1, WithTwice
<1>5. CellsOf(x, l) = t
  BY <1>3, <1>4, PlacesAreChains
<1>6. g = LinkedLast(b, q, l, c)
  BY <1>4, <1>5 DEF DupCopy, LinkedLast
<1>7. b = NewStage(x, c, v)
  OBVIOUS
<1> HIDE DEF q, c, v, b, n, u
<1>9. Owned(g, WithLast(q, l, c), H) /\ SameShell(g, x, l) /\ g.stage = Made(x.stage, c, v)
  <2>1. c \in FreeCells(x) /\ v \in Stages
    BY <1>2 DEF FreeCells
  <2>2. Owned(x, q, H) /\ Live(x, l)
    BY <1>3 DEF Live
  <2>3. QED
    BY <2>1, <2>2, <1>6, <1>7, EndIsMade
<1>10. WithLast(q, l, c) = With(p, l, u)
  BY <1>1, <1>4, WithTwice DEF q, u, n, WithLast, LastIn
<1>11. Owned(g, With(p, l, u), H) /\ u = Inserted(t, n, c) /\ g.stage = Made(x.stage, c, h.stage[s[k]])
  BY <1>2, <1>9, <1>10 DEF u
<1>12. g.lut[l].nil = x.lut[l].nil /\ \A m \in Luts \ {l} : g.lut[m] = x.lut[m]
  BY <1>9 DEF SameShell
<1>13. Copying(h, p, H, l, s, k, g, u)
  BY <1>1, <1>2, <1>3, <1>11, <1>12, OneMoreCopied
<1>14. QED
  BY <1>9, <1>13

\* Before the first round nothing is copied.
LEMMA NothingCopied ==
  ASSUME NEW h, NEW p, NEW H, Owned(h, p, H), NEW l \in Luts, NEW s
  PROVE  Copying(h, p, H, l, s, 0, h, p[l])
<1>1. p[l] \in Seq(Cells) /\ Len(p[l]) \in Nat
  BY PlacesAreChains
<1>2. With(p, l, p[l]) = p
  BY DEF With, Owned
<1>3. Cardinality(FreeCells(h)) \in Nat
  BY FreeAreFinite
<1>4. Len(p[l]) = Len(p[l]) + 0 /\ Cardinality(FreeCells(h)) + 0 = Cardinality(FreeCells(h))
  BY <1>1, <1>3
<1>5. QED
  BY <1>1, <1>2, <1>4 DEF Copying

\* All stages are copied by cmsPipelineDup.
LEMMA AllDupCopied ==
  ASSUME NEW h, NEW p, NEW H, Owned(h, p, H), NEW l \in Luts, ~h.lut[l].nil, NEW s, ToCopy(h, s),
         NEW n, EndsAt(s, n), NEW f, DupLoop(f, n, h, l, s)
  PROVE  (\E u : Copying(h, p, H, l, s, n, f[n], u)) /\ SameShell(f[n], h, l)
<1> DEFINE Good == {j \in 0 .. n : (\E u : Copying(h, p, H, l, s, j, f[j], u)) /\ SameShell(f[j], h, l)}
<1>1. n \in Nat /\ n = Len(s)
  BY LenProperties DEF ToCopy, EndsAt
<1>2. f[0] = h /\ \A j \in 0 .. n : j + 1 \in 0 .. n => f[j + 1] = DupCopy(f[j], l, s[j + 1])
  <2>1. \A k \in 0 .. n : f[k] = IF k = 0 THEN h ELSE DupCopy(f[k - 1], l, s[k])
    BY DEF DupLoop
  <2>2. 0 \in 0 .. n /\ \A j \in 0 .. n : j + 1 # 0 /\ (j + 1) - 1 = j
    BY <1>1
  <2>3. QED
    BY <2>1, <2>2
<1>3. 0 \in Good
  BY <1>1, <1>2, NothingCopied DEF SameShell
<1>4. ASSUME NEW j \in 0 .. n, j \in Good, j < n PROVE j + 1 \in Good
  <2> DEFINE k == j + 1
  <2>1. j \in 0 .. Len(s) /\ k \in 1 .. Len(s) /\ k \in 0 .. n /\ NextTo(j, k)
    BY <1>1, <1>4 DEF NextTo
  <2>2. PICK t : Copying(h, p, H, l, s, j, f[j], t)
    BY <1>4
  <2>3. f[k] = DupCopy(f[j], l, s[k])
    BY <2>1, <1>2
  <2> HIDE DEF k
  <2>4. (\E u : Copying(h, p, H, l, s, k, f[k], u)) /\ SameShell(f[k], f[j], l)
    BY <2>1, <2>2, <2>3, DupCopied
  <2>5. SameShell(f[k], h, l)
    BY <2>4, <1>4 DEF SameShell
  <2>6. k \in Good
    BY <2>1, <2>4, <2>5
  <2>7. QED
    BY <2>6 DEF k
<1> HIDE DEF Good
<1>5. n \in Good
  <2>1. n \in Nat
    BY <1>1
  <2>2. 0 .. n \subseteq Good
    BY <2>1, <1>3, <1>4, Induction
  <2>3. QED
    BY <2>1, <2>2
<1>6. QED
  BY <1>5 DEF Good


\* One stage more is copied by cmsPipelineCat.
LEMMA CatCopied ==
  ASSUME NEW h, NEW p, NEW H, Owned(h, p, H), NEW l \in Luts, ~h.lut[l].nil, NEW s, ToCopy(h, s),
         NEW j \in 0 .. Len(s), NEW k \in 1 .. Len(s), NextTo(j, k),
         NEW x, NEW t, Copying(h, p, H, l, s, j, x, t),
         NEW c, c = Min(FreeCells(x)), NEW g, g = InsertEnd(NewStage(x, c, StageDup(x.stage[s[k]])), l, c)
  PROVE  \E u : Copying(h, p, H, l, s, k, g, u) /\ EndsAre(g, With(p, l, u), l)
<1> DEFINE q == With(p, l, t)
           v == StageDup(x.stage[s[k]])
           b == NewStage(x, c, v)
           n == Len(t)
           u == Inserted(t, n, c)
<1>1. p \in Chains
  BY DEF Owned, Chains
<1>2. /\ c \in Cells /\ x.stage[c] = NoStage /\ s[k] \in Cells /\ v = h.stage[s[k]] /\ v \in Stages
  <2>1. /\ c \in Cells /\ x.stage[c] = NoStage /\ s[k] \in Cells
        /\ StageDup(x.stage[s[k]]) = h.stage[s[k]] /\ h.stage[s[k]] \in Stages
    BY NextCopy
  <2>2. QED
    BY <2>1
<1>3. Owned(x, q, H) /\ ~x.lut[l].nil /\ EndsAt(t, n) /\ t \in Seq(Cells)
  BY DEF Copying, EndsAt
<1>4. q[l] = t
  BY <1>1, WithTwice
<1>5. g = InsertEnd(NewStage(x, c, v), l, c)
  OBVIOUS
<1> HIDE DEF q, v, b, n, u
<1>7. IsNow(x, g, q, l, LastIn(q, l, c), H) /\ g.stage = Made(x.stage, c, v)
  <2>1. c \in FreeCells(x) /\ v \in Stages
    BY <1>2 DEF FreeCells
  <2>2. Owned(x, q, H) /\ Live(x, l)
    BY <1>3 DEF Live
  <2>3. QED
    BY <2>1, <2>2, <1>5, EndIsMadeAndBlessed
<1>8. With(q, l, LastIn(q, l, c)) = With(p, l, u)
  BY <1>1, <1>4, WithTwice DEF q, u, n, LastIn
<1>9. /\ Owned(g, With(p, l, u), H) /\ u = Inserted(t, n, c) /\ g.stage = Made(x.stage, c, h.stage[s[k]])
      /\ EndsAre(g, With(p, l, u), l)
  BY <1>2, <1>7, <1>8 DEF u, IsNow
<1>10. g.lut[l].nil = x.lut[l].nil /\ \A m \in Luts \ {l} : g.lut[m] = x.lut[m]
  BY <1>7 DEF IsNow
<1>11. Copying(h, p, H, l, s, k, g, u)
  BY <1>2, <1>3, <1>9, <1>10, OneMoreCopied
<1>12. QED
  BY <1>9, <1>11

\* After j rounds of cmsPipelineCat i stages have been copied: j, unless one
\* did not fit.
Catted(h, p, H, l, s, j, r) ==
  \E i \in 0 .. j :
    /\ \E t : /\ Copying(h, p, H, l, s, i, r.h, t)
              /\ EndsAre(r.h, With(p, l, t), l) \/ r.h = h
    /\ r.ok => i = j

LEMMA CatRound ==
  ASSUME NEW h, NEW p, NEW H, Owned(h, p, H), NEW l \in Luts, ~h.lut[l].nil, NEW s, ToCopy(h, s),
         NEW j \in 0 .. Len(s), NEW k \in 1 .. Len(s), NextTo(j, k),
         NEW r, Catted(h, p, H, l, s, j, r), NEW g, g = CatCopy(r, l, s[k])
  PROVE  Catted(h, p, H, l, s, k, g)
<1>1. j \in 0 .. k /\ k \in 0 .. k /\ \A i \in 0 .. j : i \in 0 .. k
  BY DEF NextTo
<1>2. CASE ~r.ok
  <2>1. g = r
    BY <1>2 DEF CatCopy
  <2>2. QED
    BY <2>1, <1>1, <1>2 DEF Catted
<1>3. CASE r.ok
  <2>1. PICK t : Copying(h, p, H, l, s, j, r.h, t)
    BY <1>3 DEF Catted
  <2> DEFINE x == r.h
             c == Min(FreeCells(x))
             f == InsertEnd(NewStage(x, c, StageDup(x.stage[s[k]])), l, c)
  <2>2. g = [h |-> f, ok |-> Consistent(StagesOf(f, l))]
    BY <1>3 DEF CatCopy
  <2>3. \E u : Copying(h, p, H, l, s, k, f, u) /\ EndsAre(f, With(p, l, u), l)
    <3>1. Copying(h, p, H, l, s, j, x, t) /\ c = Min(FreeCells(x))
      BY <2>1
    <3> HIDE DEF x, c
    <3>2. QED
      BY <3>1, CatCopied
  <2> HIDE DEF x, c, f
  <2>4. g.h = f
    BY <2>2
  <2>5. PICK u : Copying(h, p, H, l, s, k, f, u) /\ EndsAre(f, With(p, l, u), l)
    BY <2>3
  <2>6. k \in 0 .. k
    BY <1>1
  <2>7. Copying(h, p, H, l, s, k, g.h, u) /\ EndsAre(g.h, With(p, l, u), l)
    BY <2>4, <2>5
  <2>8. QED
    BY <2>6, <2>7 DEF Catted
<1>4. QED
  BY <1>2, <1>3

LEMMA AllCatted ==
  ASSUME NEW h, NEW p, NEW H, Owned(h, p, H), NEW l \in Luts, ~h.lut[l].nil, NEW s, ToCopy(h, s),
         NEW n, EndsAt(s, n), NEW f, CatLoop(f, n, h, l, s)
  PROVE  Catted(h, p, H, l, s, n, f[n])
<1> DEFINE Good == {j \in 0 .. n : Catted(h, p, H, l, s, j, f[j])}
<1>1. n \in Nat /\ n = Len(s)
  BY LenProperties DEF ToCopy, EndsAt
<1>2. /\ f[0] = [h |-> h, ok |-> TRUE]
      /\ \A j \in 0 .. n : j + 1 \in 0 .. n => f[j + 1] = CatCopy(f[j], l, s[j + 1])
  <2>1. \A k \in 0 .. n : f[k] = IF k = 0 THEN [h |-> h, ok |-> TRUE] ELSE CatCopy(f[k - 1], l, s[k])
    BY DEF CatLoop
  <2>2. 0 \in 0 .. n /\ \A j \in 0 .. n : j + 1 # 0 /\ (j + 1) - 1 = j
    BY <1>1
  <2>3. QED
    BY <2>1, <2>2
<1>3. 0 \in Good
  <2>1. Copying(h, p, H, l, s, 0, h, p[l])
    BY NothingCopied
  <2>2. f[0].h = h /\ 0 \in 0 .. 0 /\ 0 \in 0 .. n
    BY <1>1, <1>2
  <2>3. Catted(h, p, H, l, s, 0, f[0])
    BY <2>1, <2>2 DEF Catted
  <2>4. QED
    BY <2>2, <2>3
<1>4. ASSUME NEW j \in 0 .. n, j \in Good, j < n PROVE j + 1 \in Good
  <2> DEFINE k == j + 1
  <2>1. j \in 0 .. Len(s) /\ k \in 1 .. Len(s) /\ k \in 0 .. n /\ NextTo(j, k)
    BY <1>1, <1>4 DEF NextTo
  <2>2. f[k] = CatCopy(f[j], l, s[k]) /\ Catted(h, p, H, l, s, j, f[j])
    BY <2>1, <1>2, <1>4
  <2> HIDE DEF k
  <2>3. Catted(h, p, H, l, s, k, f[k])
    BY <2>1, <2>2, CatRound
  <2>4. k \in Good
    BY <2>1, <2>3
  <2>5. QED
    BY <2>4 DEF k
<1> HIDE DEF Good
<1>5. n \in Good
  <2>1. n \in Nat
    BY <1>1
  <2>2. 0 .. n \subseteq Good
    BY <2>1, <1>3, <1>4, Induction
  <2>3. QED
    BY <2>1, <2>2
<1>6. QED
  BY <1>5 DEF Good


----------------------------------------------------------------------------
(* The channels are those of the ends.                                     *)

Sound(h, p, H) == Owned(h, p, H) /\ \A l \in Luts : EndsAre(h, p, l)

\* The pipelines other than l are as they were, and so are their stages.
SameElsewhere(g, h, p, l) ==
  \A m \in Luts \ {l} :
    /\ g.lut[m] = h.lut[m]
    /\ \A k \in 1 .. Len(p[m]) : g.stage[p[m][k]] = h.stage[p[m][k]]

LEMMA StillSound ==
  ASSUME NEW h, NEW p, NEW H, Sound(h, p, H), NEW l \in Luts, NEW t,
         NEW g, NEW q, q = With(p, l, t), NEW G, Owned(g, q, G), SameElsewhere(g, h, p, l), EndsAre(g, q, l)
  PROVE  Sound(g, q, G)
<1>1. Owned(h, p, H) /\ p \in Chains
  BY DEF Sound, Owned, Chains
<1>2. \A m \in Luts \ {l} : q[m] = p[m]
  BY <1>1 DEF With, Chains
<1>3. ASSUME NEW m \in Luts \ {l} PROVE EndsAre(g, q, m)
  <2>1. CASE p[m] = <<>>
    BY <2>1, <1>2 DEF EndsAre
  <2>2. CASE p[m] # <<>>
    <3>1. p[m] \in Seq(Cells) /\ Len(p[m]) \in Nat
      BY <1>1, PlacesAreChains
    <3>2. 1 \in 1 .. Len(p[m]) /\ Len(p[m]) \in 1 .. Len(p[m])
      BY <2>2, <3>1, EmptySeq
    <3>3. g.stage[p[m][1]] = h.stage[p[m][1]] /\ g.stage[p[m][Len(p[m])]] = h.stage[p[m][Len(p[m])]]
          /\ g.lut[m] = h.lut[m]
      BY <3>2 DEF SameElsewhere
    <3>4. EndsAre(h, p, m) /\ q[m] = p[m]
      BY <1>2 DEF Sound
    <3>5. QED
      BY <3>3, <3>4 DEF EndsAre
  <2>3. QED
    BY <2>1, <2>2
<1>4. QED
  BY <1>3 DEF Sound

\* Stages in no pipeline come and go.
LEMMA SoundAside ==
  ASSUME NEW h, NEW p, NEW H, Sound(h, p, H), NEW g, NEW G, Owned(g, p, G), g.lut = h.lut,
         \A l \in Luts : \A k \in 1 .. Len(p[l]) : g.stage[p[l][k]] = h.stage[p[l][k]]
  PROVE  Sound(g, p, G)
<1>1. ASSUME NEW l \in Luts PROVE EndsAre(g, p, l)
  <2>1. CASE p[l] = <<>>
    BY <2>1 DEF EndsAre
  <2>2. CASE p[l] # <<>>
    <3>1. p[l] \in Seq(Cells) /\ Len(p[l]) \in Nat
      BY PlacesAreChains DEF Sound
    <3>2. 1 \in 1 .. Len(p[l]) /\ Len(p[l]) \in 1 .. Len(p[l])
      BY <2>2, <3>1, EmptySeq
    <3>3. g.stage[p[l][1]] = h.stage[p[l][1]] /\ g.stage[p[l][Len(p[l])]] = h.stage[p[l][Len(p[l])]]
      BY <3>2
    <3>4. EndsAre(h, p, l)
      BY DEF Sound
    <3>5. QED
      BY <3>3, <3>4 DEF EndsAre
  <2>3. QED
    BY <2>1, <2>2
<1>2. QED
  BY <1>1 DEF Sound

\* The pipeline has the stages of t and the channels of its ends, the stages
\* being as they were.
LEMMA NowSound ==
  ASSUME NEW h, NEW p, NEW H, Sound(h, p, H), NEW l \in Luts, NEW t, NEW G, NEW g,
         IsNow(h, g, p, l, t, G), g.stage = h.stage
  PROVE  Sound(g, With(p, l, t), G)
<1> DEFINE q == With(p, l, t)
<1>1. q = With(p, l, t)
  OBVIOUS
<1>2. Owned(g, q, G) /\ SameElsewhere(g, h, p, l) /\ EndsAre(g, q, l)
  BY DEF IsNow, SameElsewhere
<1> HIDE DEF q
<1>3. Sound(g, q, G)
  BY <1>1, <1>2, StillSound
<1>4. QED
  BY <1>3, <1>1

\* A stage is made for the caller.
LEMMA StageIsAllocated ==
  ASSUME NEW h, NEW p, NEW H, Sound(h, p, H), NEW c \in FreeCells(h), NEW s \in Stages,
         NEW g, g = NewStage(h, c, s)
  PROVE  Sound(g, p, Taken(H, c)) /\ c \notin H
<1>1. c \in Cells /\ h.stage[c] = NoStage /\ Owned(h, p, H)
  BY DEF FreeCells, Sound
<1>2. Owned(g, p, Taken(H, c)) /\ g.lut = h.lut /\ g.stage = Made(h.stage, c, s)
  <2>1. c \in Cells /\ h.stage[c] = NoStage
    BY <1>1
  <2>2. QED
    BY <2>1, <1>1, StageIsMade
<1>3. ASSUME NEW l \in Luts, NEW k \in 1 .. Len(p[l]) PROVE g.stage[p[l][k]] = h.stage[p[l][k]]
  <2>1. p[l][k] # c /\ p[l][k] \in Cells
    BY <1>1, PlacesAreChains DEF Owned
  <2>2. QED
    BY <2>1, <1>1, <1>2 DEF Made, Owned, Heaps
<1>4. Sound(g, p, Taken(H, c))
  BY <1>2, <1>3, SoundAside
<1>5. c \notin H
  BY <1>1 DEF Owned
<1>6. QED
  BY <1>4, <1>5

\* A stage in no pipeline is freed.
LEMMA LooseIsFreed ==
  ASSUME NEW h, NEW p, NEW H, Sound(h, p, H), NEW c \in Cells,
         \A l \in Luts : \A k \in 1 .. Len(p[l]) : p[l][k] # c,
         NEW g, g = StageFree(h, c)
  PROVE  Sound(g, p, Given(H, c))
<1>1. Owned(h, p, H)
  BY DEF Sound
<1>2. Owned(g, p, Given(H, c)) /\ g.lut = h.lut /\ g.stage = Freed(h.stage, c)
  BY <1>1, StageIsFreed
<1>3. ASSUME NEW l \in Luts, NEW k \in 1 .. Len(p[l]) PROVE g.stage[p[l][k]] = h.stage[p[l][k]]
  <2>1. p[l][k] # c /\ p[l][k] \in Cells
    BY <1>1, PlacesAreChains
  <2>2. QED
    BY <2>1, <1>1, <1>2 DEF Freed, Owned, Heaps
<1>4. QED
  BY <1>2, <1>3, SoundAside

\* A pipeline without stages: allocated or freed.
LEMMA EmptyIsSound ==
  ASSUME NEW h, NEW p, NEW H, Sound(h, p, H), NEW l \in Luts, NEW r \in LutsAre, r.head = Nil,
         NEW S, S \subseteq Cells, \A k \in 1 .. Len(p[l]) : p[l][k] \in S,
         \A c \in S : \E k \in 1 .. Len(p[l]) : p[l][k] = c,
         NEW g, g = [h EXCEPT !.stage = [c \in Cells |-> IF c \in S THEN NoStage ELSE @[c]], !.lut[l] = r]
  PROVE  Sound(g, With(p, l, <<>>), H)
<1>1. Owned(h, p, H) /\ h \in Heaps /\ H \subseteq Cells
  BY DEF Sound, Owned
<1>2. /\ g \in Heaps /\ g.next = h.next /\ g.lut = [h.lut EXCEPT ![l] = r]
      /\ g.stage = [c \in Cells |-> IF c \in S THEN NoStage ELSE h.stage[c]]
  <2> DEFINE st == [c \in Cells |-> IF c \in S THEN NoStage ELSE h.stage[c]]
             lu == [h.lut EXCEPT ![l] = r]
  <2>1. st \in [Cells -> StagesOrNone] /\ lu \in [Luts -> LutsAre]
    BY <1>1 DEF Heaps, StagesOrNone
  <2> DEFINE rec == [stage |-> st, next |-> h.next, lut |-> lu]
  <2>2. g = rec
    BY <1>1 DEF Heaps
  <2> HIDE DEF st, lu
  <2>3. h.next \in [Cells -> Cells \cup {Nil}]
    BY <1>1 DEF Heaps
  <2>4. rec \in Heaps
    BY <2>1, <2>3 DEF Heaps
  <2>5. rec.next = h.next /\ rec.lut = lu /\ rec.stage = st
    OBVIOUS
  <2> HIDE DEF rec
  <2>6. g.next = h.next /\ g.lut = lu /\ g.stage = st /\ g \in Heaps
    BY <2>2, <2>4, <2>5, Zenon
  <2>7. QED
    BY <2>6, Zenon DEF st, lu
<1>3. h.lut \in [Luts -> LutsAre]
  BY <1>1 DEF Heaps
<1>4. g.lut[l] = r /\ \A m \in Luts \ {l} : g.lut[m] = h.lut[m]
  BY <1>2, <1>3
<1>5. ASSUME NEW c \in Elsewhere(p, l)
      PROVE  c \notin H /\ g.next[c] = h.next[c] /\ g.stage[c] = h.stage[c]
  <2>1. c \in Cells /\ c \notin H /\ \A k \in 1 .. Len(p[l]) : p[l][k] # c
    BY <1>1, ElsewhereIsAside
  <2>2. c \notin S
    BY <2>1
  <2>3. QED
    BY <2>1, <2>2, <1>2
<1>6. <<>> \in Seq(Cells) /\ Len(<<>>) = 0
  BY EmptySeq
<1>7. Linked(g.next, g.lut[l].head, <<>>)
  BY <1>4, <1>6 DEF Linked
<1>8. ASSUME NEW c \in H PROVE g.stage[c] # NoStage /\ g.next[c] = Nil
  <2>1. c \in Cells /\ h.stage[c] # NoStage /\ h.next[c] = Nil /\ c \notin S
    BY <1>1 DEF Owned
  <2>2. QED
    BY <2>1, <1>2
<1>9. Relinked(h, p, l, g, <<>>, H)
  BY <1>1, <1>2, <1>4, <1>5, <1>6, <1>7, <1>8 DEF Relinked
<1> DEFINE q == With(p, l, <<>>)
<1>10. Owned(g, q, H)
  BY <1>1, <1>9, OneIsLinkedAgain
<1>11. ASSUME NEW m \in Luts \ {l}, NEW k \in 1 .. Len(p[m]) PROVE g.stage[p[m][k]] = h.stage[p[m][k]]
  <2>1. p[m][k] \in Cells
    BY <1>1, PlacesAreChains
  <2>2. p[m][k] \in Elsewhere(p, l)
    BY <2>1 DEF Elsewhere
  <2>3. QED
    BY <2>2, <1>5
<1>12. SameElsewhere(g, h, p, l)
  BY <1>4, <1>11 DEF SameElsewhere
<1>13. q[l] = <<>> /\ q = With(p, l, <<>>)
  BY <1>1 DEF Owned, With
<1>14. EndsAre(g, q, l)
  BY <1>13 DEF EndsAre
<1> HIDE DEF q
<1>15. Sound(g, q, H)
  BY <1>10, <1>12, <1>13, <1>14, StillSound
<1>16. QED
  BY <1>15, <1>13


----------------------------------------------------------------------------
(* cmsPipelineCatSteal.                                                    *)

\* The stages of one chain, then those of another.
Joined(s, u) == Kept(s, Len(s), u)
\* The stages of m have gone to l.
Moved(p, l, m) == With(With(p, m, <<>>), l, Joined(p[l], p[m]))

LEMMA ChainIsEmptied ==
  ASSUME NEW h, NEW p, NEW H, Owned(h, p, H), NEW m \in Luts, NEW g, g = SetHead(h, m, Nil)
  PROVE  /\ Owned(g, With(p, m, <<>>), H) /\ g.stage = h.stage /\ g.next = h.next
         /\ SameShell(g, h, m)
<1>1. h \in Heaps /\ H \subseteq Cells /\ Nil \in Cells \cup {Nil}
  BY DEF Owned
<1>2. /\ g \in Heaps /\ g.stage = h.stage /\ g.next = h.next
      /\ \A k \in Luts \ {m} : g.lut[k] = h.lut[k]
      /\ g.lut[m].head = Nil /\ g.lut[m].nil = h.lut[m].nil
      /\ g.lut[m].in = h.lut[m].in /\ g.lut[m].out = h.lut[m].out
  BY <1>1, HeadIsSet
<1>3. <<>> \in Seq(Cells) /\ Len(<<>>) = 0
  BY EmptySeq
<1>4. Linked(g.next, g.lut[m].head, <<>>)
  BY <1>2, <1>3 DEF Linked
<1>5. \A c \in H : h.stage[c] # NoStage /\ h.next[c] = Nil
  BY DEF Owned
<1>6. \A c \in Elsewhere(p, m) : c \in Cells /\ c \notin H /\ h.stage[c] # NoStage
  BY ElsewhereIsAside
<1>7. Relinked(h, p, m, g, <<>>, H)
  BY <1>1, <1>2, <1>3, <1>4, <1>5, <1>6 DEF Relinked
<1>8. Owned(g, With(p, m, <<>>), H)
  BY <1>7, OneIsLinkedAgain
<1>9. QED
  BY <1>2, <1>8 DEF SameShell

LEMMA PutLast ==
  ASSUME NEW b, NEW p, NEW l, p[l] \in Seq(Cells), NEW n, EndsAt(p[l], n), NEW c
  PROVE  PutAt(b, l, CellAt(p[l], n), c) = LinkedLast(b, p, l, c)
<1>1. Len(p[l]) \in Nat /\ n = Len(p[l])
  BY DEF EndsAt
<1>2. CASE p[l] = <<>>
  <2>1. CellAt(p[l], n) = Nil
    BY <1>1, <1>2, EmptySeq DEF CellAt
  <2>2. QED
    BY <1>2, <2>1 DEF LinkedLast, PutAt
<1>3. CASE p[l] # <<>>
  <2>1. n # 0 /\ n \in 1 .. Len(p[l])
    BY <1>1, <1>3, EmptySeq
  <2>2. p[l][n] \in Cells
    BY <2>1, ElementOfSeq
  <2>3. CellAt(p[l], n) = Last(p[l]) /\ CellAt(p[l], n) # Nil
    BY <2>1, <2>2, <1>1, CellFacts DEF CellAt, Last
  <2>4. QED
    BY <1>3, <2>3 DEF LinkedLast, PutAt
<1>4. QED
  BY <1>2, <1>3

LEMMA PutAndSetCommute ==
  ASSUME NEW h \in Heaps, NEW l \in Luts, NEW m \in Luts, l # m,
         NEW at, NEW c, NEW d
  PROVE  SetHead(PutAt(h, l, at, c), m, d) = PutAt(SetHead(h, m, d), l, at, c)
<1>1. h.lut \in [Luts -> LutsAre] /\ h = [stage |-> h.stage, next |-> h.next, lut |-> h.lut]
  BY DEF Heaps
<1>2. CASE at = Nil
  <2>1. [[h.lut EXCEPT ![l].head = c] EXCEPT ![m].head = d]
          = [[h.lut EXCEPT ![m].head = d] EXCEPT ![l].head = c]
    BY <1>1
  <2>2. QED
    BY <2>1, <1>1, <1>2 DEF PutAt, SetHead
<1>3. CASE at # Nil
  BY <1>1, <1>3 DEF PutAt, SetHead, SetNext
<1>4. QED
  BY <1>2, <1>3

\* What was in m can follow the stages of l once m is empty.
LEMMA OthersMayFollow ==
  ASSUME NEW h, NEW p, NEW H, Owned(h, p, H), NEW l \in Luts, NEW m \in Luts, l # m,
         NEW b, b.next = h.next, b.stage = h.stage, NEW n, EndsAt(p[l], n)
  PROVE  MayFollow(b, With(p, m, <<>>), l, n, h.lut[m].head, p[m], H)
<1> DEFINE q == With(p, m, <<>>)
<1>1. p \in [Luts -> Seq(Cells)] /\ <<>> \in Seq(Cells)
  BY EmptySeq DEF Owned
<1>2. q[m] = <<>> /\ \A k \in Luts \ {m} : q[k] = p[k]
  BY <1>1 DEF With
<1>3. Linked(h.next, h.lut[m].head, p[m])
  BY PlacesAreChains
<1>4. n = Len(p[l]) /\ q[l] = p[l] /\ Len(<<>>) = 0
  BY <1>2, EmptySeq DEF EndsAt
<1> HIDE DEF q
<1>5. ASSUME NEW k \in 1 .. Len(p[m])
      PROVE  /\ p[m][k] \notin Elsewhere(q, l) /\ p[m][k] \notin H /\ h.stage[p[m][k]] # NoStage
             /\ \A j \in 1 .. n : q[l][j] # p[m][k]
  <2>1. /\ p[m][k] \notin H /\ h.stage[p[m][k]] # NoStage
        /\ \A x \in Luts \ {m} : \A j \in 1 .. Len(p[x]) : p[x][j] # p[m][k]
    BY DEF Owned
  <2>2. \A x \in Luts : \A j \in 1 .. Len(q[x]) : q[x][j] # p[m][k]
    BY <2>1, <1>2, <1>4
  <2>3. QED
    BY <2>1, <2>2, <1>4 DEF Elsewhere
<1>6. QED
  BY <1>3, <1>5 DEF MayFollow, q

LEMMA JoinedNone ==
  ASSUME NEW S, NEW s \in Seq(S)
  PROVE  Joined(s, <<>>) = s
<1>1. SubSeq(s, 1, Len(s)) = s
  BY SubSeqFull
<1>2. QED
  BY <1>1, ConcatEmptySeq DEF Joined, Kept

\* The pipelines after cmsPipelineCatSteal(l, m).
IsStolen(g, h, p, l, m) ==
  /\ g.stage = h.stage
  /\ \A k \in Luts \ {l, m} : g.lut[k] = h.lut[k]
  /\ g.lut[l].nil = h.lut[l].nil
  /\ Joined(p[l], p[m]) = <<>> => g.lut[l].in = h.lut[l].in /\ g.lut[l].out = h.lut[l].out
  /\ g.lut[m].nil = h.lut[m].nil /\ g.lut[m].in = h.lut[m].in /\ g.lut[m].out = h.lut[m].out

LEMMA NothingStolen ==
  ASSUME NEW h, NEW p, NEW H, Sound(h, p, H), NEW l \in Luts, NEW m \in Luts, l # m,
         p[m] = <<>>, NEW g, g = BlessLUT(h, l)
  PROVE  Sound(g, Moved(p, l, m), H) /\ IsStolen(g, h, p, l, m)
<1>1. Owned(h, p, H) /\ p \in [Luts -> Seq(Cells)]
  BY DEF Sound, Owned
<1>2. /\ Owned(g, p, H) /\ g.stage = h.stage /\ \A k \in Luts \ {l} : g.lut[k] = h.lut[k]
      /\ g.lut[l].nil = h.lut[l].nil /\ EndsAre(g, p, l) /\ (p[l] = <<>> => g = h)
  BY <1>1, Blessing
<1>3. Joined(p[l], p[m]) = p[l]
  BY <1>1, JoinedNone
<1>4. With(p, m, <<>>) = p
  BY <1>1 DEF With
<1>5. With(p, l, p[l]) = p
  BY <1>1 DEF With
<1>6. Moved(p, l, m) = p
  BY <1>3, <1>4, <1>5 DEF Moved
<1>7. SameElsewhere(g, h, p, l)
  BY <1>2 DEF SameElsewhere
<1>8. Sound(g, p, H)
  BY <1>2, <1>5, <1>7, StillSound
<1>9. IsStolen(g, h, p, l, m)
  BY <1>2, <1>3 DEF IsStolen
<1>10. QED
  BY <1>6, <1>8, <1>9

LEMMA StagesAreStolen ==
  ASSUME NEW h, NEW p, NEW H, Sound(h, p, H), NEW l \in Luts, NEW m \in Luts, l # m, Live(h, l),
         NEW c, c = h.lut[m].head, NEW n, EndsAt(p[l], n),
         NEW g, g = BlessLUT(SetHead(LinkedLast(h, p, l, c), m, Nil), l)
  PROVE  Sound(g, Moved(p, l, m), H) /\ IsStolen(g, h, p, l, m)
<1> DEFINE b == SetHead(h, m, Nil)
           q == With(p, m, <<>>)
<1>1. Owned(h, p, H) /\ h \in Heaps
  BY DEF Sound, Owned
<1>2. /\ p[l] \in Seq(Cells) /\ p[m] \in Seq(Cells) /\ p \in Chains
  BY <1>1, PlacesAreChains DEF Owned, Chains
<1>3. Owned(b, q, H) /\ b.stage = h.stage /\ b.next = h.next /\ SameShell(b, h, m)
  BY <1>1, ChainIsEmptied
<1>4. MayFollow(b, q, l, n, c, p[m], H)
  <2>1. b.next = h.next /\ b.stage = h.stage
    BY <1>3
  <2> HIDE DEF b
  <2>2. QED
    BY <2>1, <1>1, OthersMayFollow
<1>5. q[l] = p[l] /\ q[m] = <<>> /\ q = With(p, m, <<>>)
  BY <1>2 DEF With, Chains
<1>6. b.lut[l] = h.lut[l] /\ ~b.lut[l].nil
  BY <1>3 DEF SameShell, Live
<1> DEFINE a == PutAt(b, l, CellAt(q[l], n), c)
           t == Kept(q[l], n, p[m])
<1>7. g = BlessLUT(a, l)
  <2>1. SetHead(LinkedLast(h, p, l, c), m, Nil) = SetHead(PutAt(h, l, CellAt(p[l], n), c), m, Nil)
    BY <1>2, PutLast
  <2>2. SetHead(PutAt(h, l, CellAt(p[l], n), c), m, Nil) = PutAt(b, l, CellAt(p[l], n), c)
    BY <1>1, PutAndSetCommute
  <2>3. QED
    BY <2>1, <2>2, <1>5
<1>8. Joined(p[l], p[m]) = t
  <2>1. n = Len(p[l])
    BY DEF EndsAt
  <2>2. QED
    BY <2>1, <1>5 DEF Joined
<1> HIDE DEF b, q
<1>9. Owned(a, With(q, l, t), H) /\ a.stage = b.stage /\ SameShell(a, b, l) /\ t \in Seq(Cells)
  <2>1. n \in 0 .. Len(q[l])
    <3>1. Len(p[l]) \in Nat
      BY <1>2
    <3>2. QED
      BY <3>1, <1>5 DEF EndsAt
  <2>2. H \in SUBSET H
    OBVIOUS
  <2>3. /\ Owned(a, With(q, l, t), H) /\ a.stage = b.stage /\ \A k \in Luts \ {l} : a.lut[k] = b.lut[k]
        /\ a.lut[l].nil = b.lut[l].nil /\ a.lut[l].in = b.lut[l].in /\ a.lut[l].out = b.lut[l].out
    BY <2>1, <2>2, <1>3, <1>4, <1>6, CellIsPut
  <2>4. t \in Seq(Cells)
    <3>1. q[l] \in Seq(Cells)
      BY <1>2, <1>5
    <3>2. QED
      BY <3>1, <2>1, <1>2, FirstKept
  <2>5. QED
    BY <2>3, <2>4 DEF SameShell
<1> HIDE DEF a, t
<1>10. q \in Chains
  BY <1>3 DEF Owned, Chains
<1>11. IsNow(b, g, q, l, t, H) /\ g.stage = a.stage
  BY <1>7, <1>9, <1>10, AndBlessed
<1>12. Sound(b, q, H)
  <2>1. SameElsewhere(b, h, p, m)
    BY <1>3 DEF SameElsewhere, SameShell
  <2>2. EndsAre(b, q, m)
    BY <1>5 DEF EndsAre
  <2>3. QED
    BY <1>3, <1>5, <2>1, <2>2, StillSound
<1>13. g.stage = b.stage
  BY <1>9, <1>11
<1>14. Sound(g, With(q, l, t), H)
  BY <1>11, <1>12, <1>13, NowSound
<1>15. With(q, l, t) = Moved(p, l, m)
  BY <1>5, <1>8 DEF Moved
<1>16. IsStolen(g, h, p, l, m)
  BY <1>3, <1>6, <1>8, <1>11, <1>13 DEF IsStolen, IsNow, SameShell
<1>17. QED
  BY <1>14, <1>15, <1>16

LEMMA SoundAfterSteal ==
  ASSUME NEW h, NEW p, NEW H, Sound(h, p, H), NEW l \in Luts, NEW m \in Luts, l # m, Live(h, l),
         NEW g, g = PipelineCatSteal(h, l, m)
  PROVE  Sound(g, Moved(p, l, m), H) /\ IsStolen(g, h, p, l, m)
<1> DEFINE c == h.lut[m].head
           n == Len(p[l])
<1>1. Owned(h, p, H)
  BY DEF Sound
<1>2. CellsOf(h, l) = p[l] /\ Linked(h.next, c, p[m])
  BY <1>1, PlacesAreChains
<1>3. EndsAt(p[l], n)
  BY DEF EndsAt
<1> HIDE DEF n
<1>4. CASE c = Nil
  <2>1. p[m] = <<>>
    <3>1. SUFFICES ASSUME p[m] # <<>> PROVE FALSE
      OBVIOUS
    <3>2. p[m] \in Seq(Cells)
      BY <1>2 DEF Linked
    <3>3. c = p[m][1] /\ p[m][1] \in Cells
      BY <3>1, <3>2, <1>2, EmptySeq DEF Linked
    <3>4. QED
      BY <3>3, <1>4, CellFacts
  <2>2. g = BlessLUT(h, l)
    BY <1>4 DEF PipelineCatSteal
  <2>3. QED
    BY <2>1, <2>2, NothingStolen
<1>5. CASE c # Nil
  <2>1. g = BlessLUT(SetHead(LinkedLast(h, p, l, c), m, Nil), l)
    BY <1>2, <1>5 DEF PipelineCatSteal, LinkedLast
  <2>2. QED
    BY <2>1, <1>3, StagesAreStolen
<1>6. QED
  BY <1>4, <1>5

----------------------------------------------------------------------------
(* cmsPipelineDup and cmsPipelineCat.                                      *)

\* The stages of h are those of x too.
Grows(x, h) == \A c \in Cells : h.stage[c] # NoStage => x.stage[c] = h.stage[c]

\* Stages that come, or go, do not change the other pipelines.
LEMMA OthersStay ==
  ASSUME NEW h, NEW p, NEW H, Owned(h, p, H), NEW l \in Luts, NEW t,
         NEW g, NEW G, Owned(g, With(p, l, t), G), \A m \in Luts \ {l} : g.lut[m] = h.lut[m],
         Grows(g, h) \/ Grows(h, g)
  PROVE  SameElsewhere(g, h, p, l)
<1> DEFINE q == With(p, l, t)
<1>1. p \in [Luts -> Seq(Cells)]
  BY DEF Owned
<1>2. \A m \in Luts \ {l} : q[m] = p[m]
  BY <1>1 DEF With
<1> HIDE DEF q
<1>3. Owned(g, q, G)
  BY DEF q
<1>4. ASSUME NEW m \in Luts \ {l}, NEW k \in 1 .. Len(p[m]) PROVE g.stage[p[m][k]] = h.stage[p[m][k]]
  <2>1. p[m][k] \in Cells
    BY PlacesAreChains
  <2>2. h.stage[p[m][k]] # NoStage
    BY DEF Owned
  <2>3. g.stage[p[m][k]] # NoStage
    <3>1. q[m] = p[m]
      BY <1>2
    <3>2. \A j \in 1 .. Len(q[m]) : g.stage[q[m][j]] # NoStage
      BY <1>3 DEF Owned
    <3>3. QED
      BY <3>1, <3>2
  <2>4. QED
    BY <2>1, <2>2, <2>3 DEF Grows
<1>5. QED
  BY <1>4 DEF SameElsewhere

\* A pipeline becomes another one.
SetLut(h, m, r) == [h EXCEPT !.lut[m] = r]

LEMMA LutIsSet ==
  ASSUME NEW h \in Heaps, NEW m \in Luts, NEW r \in LutsAre, NEW g, g = SetLut(h, m, r)
  PROVE  /\ g \in Heaps /\ g.stage = h.stage /\ g.next = h.next
         /\ g.lut = [h.lut EXCEPT ![m] = r]
<1>1. h = [stage |-> h.stage, next |-> h.next, lut |-> h.lut]
  BY DEF Heaps
<1> DEFINE lu == [h.lut EXCEPT ![m] = r]
<1>2. lu \in [Luts -> LutsAre] /\ h.stage \in [Cells -> StagesOrNone] /\ h.next \in [Cells -> Cells \cup {Nil}]
  BY DEF Heaps
<1> DEFINE rec == [stage |-> h.stage, next |-> h.next, lut |-> lu]
<1>3. g = rec
  BY <1>1 DEF SetLut
<1> HIDE DEF lu
<1>4. rec \in Heaps
  BY <1>2 DEF Heaps
<1>5. rec.next = h.next /\ rec.lut = lu /\ rec.stage = h.stage
  OBVIOUS
<1> HIDE DEF rec
<1>6. g \in Heaps /\ g.next = h.next /\ g.lut = lu /\ g.stage = h.stage
  BY <1>3, <1>4, <1>5, Zenon
<1>7. QED
  BY <1>6 DEF lu

LEMMA EmptyIsSet ==
  ASSUME NEW h, NEW p, NEW H, Sound(h, p, H), NEW m \in Luts, p[m] = <<>>,
         NEW r \in LutsAre, r.head = Nil, NEW g, g = SetLut(h, m, r)
  PROVE  /\ Sound(g, p, H) /\ g.stage = h.stage /\ g.next = h.next
         /\ g.lut[m] = r /\ \A k \in Luts \ {m} : g.lut[k] = h.lut[k]
<1>1. Owned(h, p, H) /\ h \in Heaps /\ H \subseteq Cells /\ h.lut \in [Luts -> LutsAre]
      /\ p \in [Luts -> Seq(Cells)]
  BY DEF Sound, Owned, Heaps
<1>2. g \in Heaps /\ g.stage = h.stage /\ g.next = h.next /\ g.lut = [h.lut EXCEPT ![m] = r]
  BY <1>1, LutIsSet
<1>3. g.lut[m] = r /\ \A k \in Luts \ {m} : g.lut[k] = h.lut[k]
  BY <1>1, <1>2
<1>4. <<>> \in Seq(Cells) /\ Len(<<>>) = 0
  BY EmptySeq
<1>5. Linked(g.next, g.lut[m].head, <<>>)
  BY <1>3, <1>4 DEF Linked
<1>6. \A c \in H : h.stage[c] # NoStage /\ h.next[c] = Nil
  BY <1>1 DEF Owned
<1>7. \A c \in Elsewhere(p, m) : c \in Cells /\ c \notin H /\ h.stage[c] # NoStage
  BY <1>1, ElsewhereIsAside
<1>8. Relinked(h, p, m, g, <<>>, H)
  BY <1>1, <1>2, <1>3, <1>4, <1>5, <1>6, <1>7 DEF Relinked
<1>9. Owned(g, With(p, m, <<>>), H)
  BY <1>1, <1>8, OneIsLinkedAgain
<1>10. With(p, m, <<>>) = p
  BY <1>1 DEF With
<1>11. SameElsewhere(g, h, p, m) /\ EndsAre(g, p, m)
  BY <1>2, <1>3 DEF SameElsewhere, EndsAre
<1>12. Sound(g, p, H)
  BY <1>9, <1>10, <1>11, StillSound
<1>13. QED
  BY <1>2, <1>3, <1>12

\* u in m is a copy of the stages of l.
IsCopy(g, h, p, l, m, u) ==
  /\ u \in Seq(Cells) /\ Len(u) = Len(p[l])
  /\ \A i \in 1 .. Len(u) : g.stage[u[i]] = h.stage[p[l][i]]
  /\ Grows(g, h)
  /\ \A k \in Luts \ {m} : g.lut[k] = h.lut[k]
  /\ g.lut[m].nil = h.lut[l].nil
  /\ u = <<>> => g.lut[m].in = h.lut[l].in /\ g.lut[m].out = h.lut[l].out

LEMMA SameFree ==
  ASSUME NEW h, NEW g, g.stage = h.stage
  PROVE  FreeCells(g) = FreeCells(h)
BY DEF FreeCells

EmptyLike(x) == [x EXCEPT !.head = Nil]

LEMMA WholeDup ==
  ASSUME NEW h, NEW p, NEW H, Sound(h, p, H), NEW l \in Luts, NEW m \in Luts, l # m,
         Live(h, l), p[m] = <<>>, Cardinality(FreeCells(h)) >= Len(p[l]),
         NEW r, r = EmptyLike(h.lut[l]), NEW b, b = SetLut(h, m, r),
         NEW n, EndsAt(p[l], n), NEW f, DupLoop(f, n, b, m, p[l]),
         NEW g, g = BlessLUT(f[n], m)
  PROVE  \E u : Sound(g, With(p, m, u), H) /\ IsCopy(g, h, p, l, m, u)
<1> DEFINE s == p[l]
           x == f[n]
<1>1. Owned(h, p, H) /\ h.lut[l] \in LutsAre
  BY DEF Sound, Owned, Heaps
<1>2. r \in LutsAre /\ r.head = Nil /\ r.nil = h.lut[l].nil /\ r.in = h.lut[l].in /\ r.out = h.lut[l].out
  BY <1>1 DEF LutsAre, EmptyLike
<1>4. /\ Sound(b, p, H) /\ b.stage = h.stage /\ b.lut[m] = r
      /\ \A k \in Luts \ {m} : b.lut[k] = h.lut[k]
  BY <1>2, EmptyIsSet
<1>5. Owned(b, p, H) /\ ~b.lut[m].nil
  BY <1>2, <1>4 DEF Sound, Live
<1>6. s \in Seq(Cells) /\ \A i \in 1 .. Len(s) : h.stage[s[i]] # NoStage
  BY <1>1, PlacesAreChains DEF Owned
<1>7. ToCopy(b, s)
  <2>1. FreeCells(b) = FreeCells(h)
    BY <1>4, SameFree
  <2>2. QED
    BY <2>1, <1>4, <1>6 DEF ToCopy
<1>8. (\E u : Copying(b, p, H, m, s, n, x, u)) /\ SameShell(x, b, m)
  BY <1>5, <1>7, AllDupCopied
<1>9. PICK u : Copying(b, p, H, m, s, n, x, u)
  BY <1>8
<1> DEFINE q == With(p, m, u)
<1>10. /\ u \in Seq(Cells) /\ Len(u) = Len(p[m]) + n /\ Owned(x, q, H)
       /\ \A k \in Luts \ {m} : x.lut[k] = b.lut[k]
       /\ Grows(x, b)
       /\ \A i \in 1 .. n : x.stage[u[i]] = b.stage[s[i]]
  <2> DEFINE z == Len(p[m])
  <2>1. /\ u \in Seq(Cells) /\ Len(u) = z + n /\ Owned(x, q, H)
        /\ \A k \in Luts \ {m} : x.lut[k] = b.lut[k]
        /\ Grows(x, b)
        /\ \A i \in 1 .. n : x.stage[u[z + i]] = b.stage[s[i]]
    BY <1>9 DEF Copying, Grows
  <2>2. z = 0 /\ n \in Nat
    BY <1>6, EmptySeq DEF EndsAt
  <2> HIDE DEF z
  <2>3. Len(u) = z + n /\ \A i \in 1 .. n : z + i = i
    BY <2>1, <2>2
  <2>4. Len(u) = Len(p[m]) + n
    BY <2>3 DEF z
  <2>5. \A i \in 1 .. n : x.stage[u[i]] = b.stage[s[i]]
    BY <2>1, <2>3
  <2>6. QED
    BY <2>1, <2>4, <2>5
<1>11. q[m] = u /\ q = With(p, m, u)
  BY <1>1 DEF Owned, With
<1> HIDE DEF q
<1>12. /\ Owned(g, q, H) /\ g.stage = x.stage /\ \A k \in Luts \ {m} : g.lut[k] = x.lut[k]
       /\ g.lut[m].nil = x.lut[m].nil /\ EndsAre(g, q, m) /\ (q[m] = <<>> => g = x)
  <2>1. Owned(x, q, H)
    BY <1>10
  <2>2. g = BlessLUT(x, m)
    OBVIOUS
  <2> HIDE DEF x
  <2>3. QED
    BY <2>1, <2>2, Blessing, SMTT(20)
<1>13. Len(p[m]) = 0 /\ n = Len(s) /\ n \in Nat
  BY <1>6, EmptySeq DEF EndsAt
<1>14. Grows(g, h)
  BY <1>4, <1>10, <1>12 DEF Grows
<1>15. IsCopy(g, h, p, l, m, u)
  <2>1. Len(u) = Len(p[l])
    BY <1>10, <1>13
  <2>2. \A i \in 1 .. Len(u) : g.stage[u[i]] = h.stage[p[l][i]]
    BY <2>1, <1>4, <1>10, <1>12, <1>13
  <2>3. \A k \in Luts \ {m} : g.lut[k] = h.lut[k]
    BY <1>4, <1>10, <1>12
  <2>4. g.lut[m].nil = h.lut[l].nil
    BY <1>2, <1>4, <1>8, <1>12 DEF SameShell
  <2>5. u = <<>> => g.lut[m].in = h.lut[l].in /\ g.lut[m].out = h.lut[l].out
    BY <1>2, <1>4, <1>8, <1>11, <1>12 DEF SameShell
  <2>6. QED
    BY <2>1, <2>2, <2>3, <2>4, <2>5, <1>10, <1>14 DEF IsCopy
<1>16. SameElsewhere(g, h, p, m)
  <2>1. Owned(g, With(p, m, u), H)
    BY <1>11, <1>12
  <2>2. \A k \in Luts \ {m} : g.lut[k] = h.lut[k]
    BY <1>15 DEF IsCopy
  <2>3. QED
    BY <2>1, <2>2, <1>1, <1>14, OthersStay
<1>17. Sound(g, q, H)
  BY <1>11, <1>12, <1>16, StillSound
<1>18. QED
  BY <1>11, <1>15, <1>17

\* cmsPipelineDup makes nothing.
DupRefused(h, l) ==
  PipelineAlloc(h.lut[l].in, h.lut[l].out).nil \/ ~Consistent(StagesOf(h, l))

LEMMA SoundAfterDup ==
  ASSUME NEW h, NEW p, NEW H, Sound(h, p, H), NEW l \in Luts, NEW m \in Luts,
         Live(h, l), ~Live(h, m), Cardinality(FreeCells(h)) >= Len(p[l]),
         NEW g, g = CopyOf(h, l, m)
  PROVE  \/ DupRefused(h, l) /\ g = h
         \/ ~DupRefused(h, l) /\ \E u : Sound(g, With(p, m, u), H) /\ IsCopy(g, h, p, l, m, u)
<1> DEFINE b == SetLut(h, m, EmptyLike(h.lut[l]))
           s == p[l]
           n == Len(s)
           f == CHOOSE f : DupLoop(f, n, b, m, s)
<1>1. Owned(h, p, H)
  BY DEF Sound
<1>2. CellsOf(h, l) = s /\ s \in Seq(Cells) /\ n \in Nat
  BY <1>1, PlacesAreChains
<1>3. l # m /\ p[m] = <<>>
  BY <1>1 DEF Live, Owned
<1>4. g = IF DupRefused(h, l) THEN h ELSE BlessLUT(f[n], m)
  BY <1>2 DEF CopyOf, DupLoop, SetLut, EmptyLike, DupRefused
<1>5. DupLoop(f, n, b, m, s)
  BY <1>2, DupLoopExists
<1>6. EndsAt(s, n)
  BY DEF EndsAt
<1> HIDE DEF f, n
<1>7. CASE ~DupRefused(h, l)
  <2>1. g = BlessLUT(f[n], m)
    BY <1>4, <1>7
  <2>2. QED
    BY <2>1, <1>3, <1>5, <1>6, <1>7, WholeDup
<1>8. QED
  BY <1>4, <1>7

LEMMA BothEmpty ==
  ASSUME NEW h, NEW p, NEW H, Sound(h, p, H), NEW l \in Luts, p[l] = <<>>, NEW m \in Luts,
         NEW b, b = SetChannels(h, l, h.lut[m].in, h.lut[m].out)
  PROVE  /\ Sound(b, p, H) /\ b.stage = h.stage /\ b.lut[l].nil = h.lut[l].nil
         /\ b.lut[l].in = h.lut[m].in /\ b.lut[l].out = h.lut[m].out
         /\ \A k \in Luts \ {l} : b.lut[k] = h.lut[k]
<1> DEFINE i == h.lut[m].in
           o == h.lut[m].out
<1>1. Owned(h, p, H) /\ h \in Heaps /\ h.lut \in [Luts -> LutsAre]
  BY DEF Sound, Owned, Heaps
<1>2. i \in Nat /\ o \in Nat
  BY <1>1 DEF LutsAre
<1> DEFINE r == [in |-> i, out |-> o, head |-> h.lut[l].head, nil |-> h.lut[l].nil]
<1>3. b \in Heaps /\ b.stage = h.stage /\ b.next = h.next /\ b.lut = [h.lut EXCEPT ![l] = r]
  BY <1>1, <1>2, ChannelsSet
<1>4. b.lut[l] = r /\ \A k \in Luts \ {l} : b.lut[k] = h.lut[k]
  BY <1>1, <1>3
<1>5. \A k \in Luts : b.lut[k].head = h.lut[k].head /\ b.lut[k].nil = h.lut[k].nil
  BY <1>4
<1>6. Owned(b, p, H)
  BY <1>1, <1>3, <1>5, ChannelsAside
<1>7. SameElsewhere(b, h, p, l) /\ EndsAre(b, p, l)
  BY <1>3, <1>4 DEF SameElsewhere, EndsAre
<1>8. p = With(p, l, <<>>)
  BY <1>1 DEF With, Owned
<1>9. Sound(b, p, H)
  BY <1>6, <1>7, <1>8, StillSound
<1>10. QED
  BY <1>3, <1>4, <1>9

LEMMA SoundAfterCat ==
  ASSUME NEW h, NEW p, NEW H, Sound(h, p, H), NEW l \in Luts, NEW m \in Luts,
         Live(h, l), Cardinality(FreeCells(h)) >= Len(p[m]),
         NEW r, r = PipelinesCat(h, l, m)
  PROVE  \E q : Sound(r.h, q, H)
<1> DEFINE b == IF CellsOf(h, l) = <<>> /\ CellsOf(h, m) = <<>>
                THEN SetChannels(h, l, h.lut[m].in, h.lut[m].out) ELSE h
           s == CellsOf(h, m)
           n == Len(s)
           f == CHOOSE f : CatLoop(f, n, b, l, s)
<1>1. Owned(h, p, H)
  BY DEF Sound
<1>2. /\ CellsOf(h, l) = p[l] /\ s = p[m] /\ s \in Seq(Cells) /\ n \in Nat
      /\ \A i \in 1 .. Len(s) : h.stage[s[i]] # NoStage
  <2>1. CellsOf(h, l) = p[l] /\ CellsOf(h, m) = p[m] /\ p[m] \in Seq(Cells) /\ Len(p[m]) \in Nat
    BY <1>1, PlacesAreChains
  <2>2. \A i \in 1 .. Len(p[m]) : h.stage[p[m][i]] # NoStage
    BY <1>1 DEF Owned
  <2>3. QED
    BY <2>1, <2>2
<1>3. r = f[n]
  BY DEF PipelinesCat, CatLoop
<1>4. CatLoop(f, n, b, l, s)
  BY <1>2, CatLoopExists
<1>5. EndsAt(s, n)
  BY DEF EndsAt
<1>6. Sound(b, p, H) /\ b.stage = h.stage /\ b.lut[l].nil = h.lut[l].nil
  BY <1>2, BothEmpty
<1> HIDE DEF b, n, f, s
<1>7. Owned(b, p, H) /\ ~b.lut[l].nil
  BY <1>6 DEF Sound, Live
<1>8. ToCopy(b, s)
  <2>1. FreeCells(b) = FreeCells(h)
    BY <1>6, SameFree
  <2>2. QED
    BY <2>1, <1>2, <1>6 DEF ToCopy
<1> DEFINE x == f[n]
<1>9. Catted(b, p, H, l, s, n, x)
  BY <1>4, <1>5, <1>7, <1>8, AllCatted
<1>10. x = r
  BY <1>3
<1> HIDE DEF x
<1>11. PICK i, t : Copying(b, p, H, l, s, i, x.h, t) /\ (EndsAre(x.h, With(p, l, t), l) \/ x.h = b)
  BY <1>9 DEF Catted
<1>12. CASE x.h = b
  BY <1>6, <1>10, <1>12
<1>13. CASE EndsAre(x.h, With(p, l, t), l)
  <2> DEFINE g == x.h
             q == With(p, l, t)
  <2>1. Owned(g, q, H) /\ Grows(g, b) /\ \A k \in Luts \ {l} : g.lut[k] = b.lut[k]
    BY <1>11 DEF Copying, Grows
  <2>2. EndsAre(g, q, l)
    BY <1>13
  <2> HIDE DEF g
  <2>3. SameElsewhere(g, b, p, l)
    BY <2>1, <1>7, OthersStay
  <2>4. Sound(g, q, H)
    <3>1. q = With(p, l, t)
      OBVIOUS
    <3> HIDE DEF q
    <3>2. QED
      BY <2>1, <2>2, <2>3, <3>1, <1>6, StillSound
  <2>5. QED
    BY <2>4, <1>10 DEF g
<1>14. QED
  BY <1>11, <1>12, <1>13

----------------------------------------------------------------------------
(* What PreOptimize takes out.                                             *)

\* The n stages after the first i take as many channels as they give.
Passes(e, i, n) == i + n <= Len(e) /\ e[i + 1].in = e[i + n].out
SameEnds(d, e) == d # <<>> => d[1].in = e[1].in /\ d[Len(d)].out = e[Len(e)].out

\* Without them the stages fit as before.
LEMMA CutFits ==
  ASSUME NEW S, NEW e \in Seq(S), NEW d \in Seq(S), NEW i \in Nat, NEW n \in 1 .. 2,
         IsCut(d, e, i, n), Passes(e, i, n), Consistent(e)
  PROVE  Consistent(d) /\ SameEnds(d, e)
<1> DEFINE m == Len(e)
<1>1. /\ m \in Nat /\ Len(d) = m - n /\ n \in Nat /\ n >= 1
      /\ i + n <= m /\ e[i + 1].in = e[i + n].out
      /\ \A x \in 1 .. Len(d) : d[x] = e[IF x <= i THEN x ELSE x + n]
      /\ \A x \in 1 .. m - 1 : e[x + 1].in = e[x].out
  <2>1. m \in Nat /\ n \in Nat /\ n >= 1
    BY LenProperties
  <2>2. Len(d) = m - n /\ \A x \in 1 .. Len(d) : d[x] = e[IF x <= i THEN x ELSE x + n]
    BY Zenon DEF IsCut
  <2>3. i + n <= m /\ e[i + 1].in = e[i + n].out
    BY Zenon DEF Passes
  <2>4. \A x \in 1 .. m - 1 : e[x + 1].in = e[x].out
    BY Zenon DEF Consistent
  <2>5. QED
    BY <2>1, <2>2, <2>3, <2>4, Zenon
<1> HIDE DEF m
<1>2. \A x \in 1 .. m - n : (x <= i => d[x] = e[x]) /\ (x > i => d[x] = e[x + n])
  BY <1>1
<1>3. i > 0 => e[i].out = e[i + n].out
  <2>1. i > 0 => i \in 1 .. m - 1
    BY <1>1
  <2>2. QED
    BY <2>1, <1>1
<1>4. i < m - n => e[(i + n) + 1].in = e[i + n].out
  <2>1. i < m - n => i + n \in 1 .. m - 1
    BY <1>1
  <2>2. QED
    BY <2>1, <1>1
<1>5. ASSUME NEW x \in 1 .. m - n - 1 PROVE d[x + 1].in = d[x].out
  <2>1. x \in 1 .. m - n /\ x + 1 \in 1 .. m - n
    BY <1>1
  <2>2. CASE x < i
    <3>1. d[x] = e[x] /\ d[x + 1] = e[x + 1] /\ x \in 1 .. m - 1
      BY <2>1, <2>2, <1>1, <1>2
    <3>2. QED
      BY <3>1, <1>1
  <2>3. CASE x = i
    <3>1. d[x] = e[i] /\ d[x + 1] = e[(x + 1) + n] /\ (x + 1) + n = (i + n) + 1 /\ i > 0 /\ i < m - n
      BY <2>1, <2>3, <1>1, <1>2
    <3>2. QED
      BY <3>1, <1>3, <1>4
  <2>4. CASE x > i
    <3>1. d[x] = e[x + n] /\ d[x + 1] = e[(x + 1) + n] /\ (x + 1) + n = (x + n) + 1 /\ x + n \in 1 .. m - 1
      BY <2>1, <2>4, <1>1, <1>2
    <3>2. QED
      BY <3>1, <1>1
  <2>5. QED
    BY <2>2, <2>3, <2>4
<1>6. Consistent(d)
  BY <1>1, <1>5 DEF Consistent
<1>7. ASSUME d # <<>> PROVE d[1].in = e[1].in /\ d[Len(d)].out = e[m].out
  <2>1. m - n > 0 /\ 1 \in 1 .. m - n /\ m - n \in 1 .. m - n
    BY <1>1, <1>7, EmptySeq
  <2>2. d[1].in = e[1].in
    <3>1. CASE i > 0
      BY <3>1, <2>1, <1>2
    <3>2. CASE ~(i > 0)
      <4>1. i = 0 /\ i < m - n /\ 1 > i /\ 1 + n = (i + n) + 1 /\ i + 1 = 1
        BY <3>2, <2>1, <1>1
      <4>2. d[1] = e[(i + n) + 1]
        BY <4>1, <2>1, <1>2
      <4>3. QED
        BY <4>1, <4>2, <1>1, <1>4
    <3>3. QED
      BY <3>1, <3>2
  <2>3. d[m - n].out = e[m].out
    <3>1. CASE m - n > i
      <4>1. (m - n) + n = m
        BY <1>1
      <4>2. d[m - n] = e[(m - n) + n]
        BY <3>1, <2>1, <1>2
      <4>3. QED
        BY <4>1, <4>2
    <3>2. CASE ~(m - n > i)
      <4>1. m - n = i /\ i + n = m /\ i > 0 /\ m - n <= i
        BY <3>2, <2>1, <1>1
      <4>2. d[m - n] = e[i]
        BY <4>1, <2>1, <1>2
      <4>3. QED
        BY <4>1, <4>2, <1>3
    <3>3. QED
      BY <3>1, <3>2
  <2>4. QED
    BY <2>2, <2>3, <1>1
<1>8. SameEnds(d, e)
  BY <1>7 DEF SameEnds, m
<1>9. QED
  BY <1>6, <1>8

\* d is e with s for the two stages after the first i.
IsSwap(d, e, i, s) ==
  /\ Len(d) = Len(e) - 1 /\ i + 2 <= Len(e)
  /\ \A x \in 1 .. Len(d) : d[x] = IF x <= i THEN e[x] ELSE IF x = i + 1 THEN s ELSE e[x + 1]

LEMMA SwapFits ==
  ASSUME NEW S, NEW e \in Seq(S), NEW d \in Seq(S), NEW i \in Nat, NEW s,
         IsSwap(d, e, i, s), Consistent(e), s.in = e[i + 1].in, s.out = e[i + 2].out
  PROVE  Consistent(d) /\ SameEnds(d, e)
<1> DEFINE m == Len(e)
<1>1. /\ m \in Nat /\ Len(d) = m - 1 /\ i + 2 <= m
      /\ \A x \in 1 .. Len(d) : d[x] = IF x <= i THEN e[x] ELSE IF x = i + 1 THEN s ELSE e[x + 1]
      /\ \A x \in 1 .. m - 1 : e[x + 1].in = e[x].out
  BY DEF IsSwap, Consistent
<1> HIDE DEF m
<1>2. \A x \in 1 .. m - 1 :
        (x <= i => d[x] = e[x]) /\ (x = i + 1 => d[x] = s) /\ (x > i + 1 => d[x] = e[x + 1])
  BY <1>1
<1>3. i > 0 => e[i + 1].in = e[i].out
  <2>1. i > 0 => i \in 1 .. m - 1
    BY <1>1
  <2>2. QED
    BY <2>1, <1>1
<1>4. i + 2 < m => e[(i + 2) + 1].in = e[i + 2].out
  <2>1. i + 2 < m => i + 2 \in 1 .. m - 1
    BY <1>1
  <2>2. QED
    BY <2>1, <1>1
<1>5. ASSUME NEW x \in 1 .. m - 1 - 1 PROVE d[x + 1].in = d[x].out
  <2>1. x \in 1 .. m - 1 /\ x + 1 \in 1 .. m - 1
    BY <1>1
  <2>2. CASE x < i
    <3>1. d[x] = e[x] /\ d[x + 1] = e[x + 1]
      BY <2>1, <2>2, <1>1, <1>2
    <3>2. QED
      BY <3>1, <2>1, <1>1
  <2>3. CASE x = i
    <3>1. d[x] = e[i] /\ d[x + 1] = s /\ i > 0
      BY <2>1, <2>3, <1>1, <1>2
    <3>2. QED
      BY <3>1, <1>3
  <2>4. CASE x = i + 1
    <3>1. d[x] = s /\ d[x + 1] = e[(x + 1) + 1] /\ (x + 1) + 1 = (i + 2) + 1 /\ i + 2 < m
      BY <2>1, <2>4, <1>1, <1>2
    <3>2. QED
      BY <3>1, <1>4
  <2>5. CASE x > i + 1
    <3>1. d[x] = e[x + 1] /\ d[x + 1] = e[(x + 1) + 1] /\ x + 1 \in 1 .. m - 1
      BY <2>1, <2>5, <1>1, <1>2
    <3>2. QED
      BY <3>1, <1>1
  <2>6. QED
    BY <2>2, <2>3, <2>4, <2>5
<1>6. Consistent(d)
  BY <1>1, <1>5 DEF Consistent
<1>7. d[1].in = e[1].in /\ d[Len(d)].out = e[m].out
  <2>1. 1 \in 1 .. m - 1 /\ m - 1 \in 1 .. m - 1
    BY <1>1
  <2>2. d[1].in = e[1].in
    <3>1. CASE i > 0
      BY <3>1, <2>1, <1>2
    <3>2. CASE ~(i > 0)
      <4>1. i + 1 = 1
        BY <3>2
      <4>2. QED
        BY <4>1, <2>1, <1>2
    <3>3. QED
      BY <3>1, <3>2
  <2>3. d[m - 1].out = e[m].out
    <3>1. CASE m - 1 > i + 1
      <4>1. (m - 1) + 1 = m
        BY <1>1
      <4>2. QED
        BY <3>1, <4>1, <2>1, <1>2
    <3>2. CASE ~(m - 1 > i + 1)
      <4>1. m - 1 = i + 1 /\ i + 2 = m
        BY <3>2, <1>1
      <4>2. d[m - 1] = s
        BY <4>1, <2>1, <1>2
      <4>3. QED
        BY <4>1, <4>2
    <3>3. QED
      BY <3>1, <3>2
  <2>4. QED
    BY <2>2, <2>3, <1>1
<1>8. SameEnds(d, e)
  BY <1>7 DEF SameEnds, m
<1>9. QED
  BY <1>6, <1>8

\* The stages of a chain, and its ends.
LEMMA StagesAre ==
  ASSUME NEW h, NEW p, NEW H, Owned(h, p, H), NEW l \in Luts, NEW e, e = StagesOf(h, l)
  PROVE  /\ e \in Seq(StagesOrNone) /\ Len(e) = Len(p[l]) /\ Len(e) \in Nat
         /\ \A k \in 1 .. Len(p[l]) : e[k] = h.stage[p[l][k]] /\ e[k] \in Stages /\ p[l][k] \in Cells
         /\ (e = <<>> <=> p[l] = <<>>)
         /\ EndsAre(h, p, l) <=> (e # <<>> => h.lut[l].in = e[1].in /\ h.lut[l].out = e[Len(e)].out)
<1>1. /\ e = [k \in 1 .. Len(p[l]) |-> h.stage[p[l][k]]] /\ e \in Seq(StagesOrNone) /\ Len(e) = Len(p[l])
      /\ p[l] \in Seq(Cells) /\ Len(p[l]) \in Nat
  BY PlacesAreChains
<1>2. ASSUME NEW k \in 1 .. Len(p[l])
      PROVE  e[k] = h.stage[p[l][k]] /\ e[k] \in Stages /\ p[l][k] \in Cells
  <2>1. p[l][k] \in Cells
    BY <1>1, ElementOfSeq
  <2>2. h.stage[p[l][k]] \in StagesOrNone /\ h.stage[p[l][k]] # NoStage
    BY <2>1 DEF Owned, Heaps
  <2>3. QED
    BY <1>1, <2>1, <2>2 DEF StagesOrNone
<1>3. e = <<>> <=> p[l] = <<>>
  BY <1>1, EmptySeq
<1>4. p[l] # <<>> => 1 \in 1 .. Len(p[l]) /\ Len(p[l]) \in 1 .. Len(p[l])
  BY <1>1, EmptySeq
<1>5. EndsAre(h, p, l) <=> (e # <<>> => h.lut[l].in = e[1].in /\ h.lut[l].out = e[Len(e)].out)
  <2>1. p[l] # <<>> => e[1] = h.stage[p[l][1]] /\ e[Len(e)] = h.stage[p[l][Len(p[l])]]
    BY <1>1, <1>2, <1>4
  <2>2. QED
    BY <2>1, <1>3 DEF EndsAre
<1>6. QED
  BY <1>1, <1>2, <1>3, <1>5

\* A pipeline whose first and last stage have the channels they had.
LEMMA SameEndsAre ==
  ASSUME NEW h, NEW p, NEW H, Sound(h, p, H), NEW l \in Luts, p[l] # <<>>,
         NEW g, NEW t, NEW G, Owned(g, With(p, l, t), G), SameShell(g, h, l),
         SameEnds(StagesOf(g, l), StagesOf(h, l))
  PROVE  EndsAre(g, With(p, l, t), l)
<1> DEFINE q == With(p, l, t)
           d == StagesOf(g, l)
           e == StagesOf(h, l)
<1>1. Owned(h, p, H) /\ EndsAre(h, p, l) /\ Owned(g, q, G)
  BY DEF Sound
<1>2. SameEnds(d, e) /\ d = StagesOf(g, l) /\ e = StagesOf(h, l)
  OBVIOUS
<1> HIDE DEF q, d, e
<1>3. e # <<>> /\ h.lut[l].in = e[1].in /\ h.lut[l].out = e[Len(e)].out
  BY <1>1, <1>2, StagesAre
<1>4. d # <<>> => g.lut[l].in = d[1].in /\ g.lut[l].out = d[Len(d)].out
  BY <1>2, <1>3 DEF SameEnds, SameShell
<1>5. EndsAre(g, q, l)
  BY <1>1, <1>2, <1>4, StagesAre
<1>6. QED
  BY <1>5 DEF q

\* The stages are cut as their places are.
LEMMA StagesAreCut ==
  ASSUME NEW h, NEW p, NEW H, Owned(h, p, H), NEW l \in Luts,
         NEW i \in Nat, NEW n \in 1 .. 2, i + n <= Len(p[l]),
         NEW t, IsCut(t, p[l], i, n), NEW g, NEW G, Owned(g, With(p, l, t), G), Grows(h, g)
  PROVE  IsCut(StagesOf(g, l), StagesOf(h, l), i, n)
<1> DEFINE q == With(p, l, t)
           d == StagesOf(g, l)
           e == StagesOf(h, l)
<1>1. p \in [Luts -> Seq(Cells)]
  BY DEF Owned
<1>2. q[l] = t
  BY <1>1 DEF With
<1>3. d = StagesOf(g, l) /\ e = StagesOf(h, l) /\ Owned(g, q, G)
  OBVIOUS
<1> HIDE DEF q, d, e
<1>4. /\ Len(d) = Len(q[l]) /\ Len(d) \in Nat
      /\ \A k \in 1 .. Len(q[l]) : d[k] = g.stage[q[l][k]] /\ d[k] \in Stages /\ q[l][k] \in Cells
  BY <1>3, StagesAre
<1>5. /\ Len(e) = Len(p[l]) /\ Len(e) \in Nat
      /\ \A k \in 1 .. Len(p[l]) : e[k] = h.stage[p[l][k]]
  BY <1>3, StagesAre
<1>6. Len(t) = Len(p[l]) - n /\ \A x \in 1 .. Len(t) : t[x] = p[l][IF x <= i THEN x ELSE x + n]
  BY DEF IsCut
<1>7. Len(d) = Len(e) - n
  BY <1>2, <1>4, <1>5, <1>6
<1>8. ASSUME NEW x \in 1 .. Len(d) PROVE d[x] = e[IF x <= i THEN x ELSE x + n]
  <2> DEFINE y == IF x <= i THEN x ELSE x + n
  <2>1. x \in 1 .. Len(t) /\ x \in 1 .. Len(q[l])
    BY <1>2, <1>4
  <2>2. y \in 1 .. Len(p[l])
    BY <1>5, <1>7
  <2>3. t[x] = p[l][y]
    BY <2>1, <1>6
  <2> HIDE DEF y
  <2>4. d[x] = g.stage[t[x]] /\ d[x] \in Stages /\ t[x] \in Cells
    BY <2>1, <1>2, <1>4
  <2>5. g.stage[t[x]] # NoStage
    BY <2>4, StagesAreWellMade DEF WellMade
  <2>6. h.stage[t[x]] = g.stage[t[x]]
    BY <2>4, <2>5 DEF Grows
  <2>7. d[x] = e[y]
    BY <2>2, <2>3, <2>4, <2>6, <1>5
  <2>8. QED
    BY <2>7 DEF y
<1>9. QED
  BY <1>7, <1>8 DEF IsCut, d, e

LEMMA CutIsSound ==
  ASSUME NEW h, NEW p, NEW H, Sound(h, p, H), NEW l \in Luts, NEW i \in Nat, NEW n \in 1 .. 2,
         Passes(StagesOf(h, l), i, n), Consistent(StagesOf(h, l)),
         NEW t, IsCut(t, p[l], i, n), NEW g, Owned(g, With(p, l, t), H), SameShell(g, h, l), Grows(h, g)
  PROVE  /\ Sound(g, With(p, l, t), H) /\ Consistent(StagesOf(g, l)) /\ SameElsewhere(g, h, p, l)
         /\ IsCut(StagesOf(g, l), StagesOf(h, l), i, n)
<1> DEFINE q == With(p, l, t)
           d == StagesOf(g, l)
           e == StagesOf(h, l)
<1>1. Owned(h, p, H) /\ p \in [Luts -> Seq(Cells)] /\ Owned(g, q, H)
  BY DEF Sound, Owned
<1>2. e \in Seq(StagesOrNone) /\ Len(e) = Len(p[l]) /\ i + n <= Len(p[l])
  BY <1>1, StagesAre DEF Passes
<1>3. d \in Seq(StagesOrNone)
  <2> HIDE DEF q
  <2>1. QED
    BY <1>1, StagesAre
<1>4. IsCut(d, e, i, n)
  BY <1>1, <1>2, StagesAreCut
<1> HIDE DEF d, e
<1>5. Passes(e, i, n) /\ Consistent(e)
  BY DEF e
<1>6. Consistent(d) /\ SameEnds(d, e)
  BY <1>2, <1>3, <1>4, <1>5, CutFits
<1>7. p[l] # <<>>
  <2>1. Len(p[l]) # 0
    BY <1>1, <1>2, PlacesAreChains
  <2>2. QED
    BY <2>1, EmptySeq
<1>8. EndsAre(g, q, l)
  BY <1>1, <1>6, <1>7, SameEndsAre DEF d, e
<1>9. SameElsewhere(g, h, p, l)
  <2>1. \A m \in Luts \ {l} : g.lut[m] = h.lut[m]
    BY DEF SameShell
  <2>2. QED
    BY <2>1, <1>1, OthersStay
<1>10. Sound(g, q, H)
  <2>1. q = With(p, l, t)
    OBVIOUS
  <2> HIDE DEF q
  <2>2. QED
    BY <2>1, <1>1, <1>8, <1>9, StillSound
<1>11. QED
  BY <1>4, <1>6, <1>9, <1>10 DEF d, e

\* What PreOptimize makes of pipeline l, whose chain is now t: the cell it is
\* at is still the one after the first i stages.
Optimised(g, h, p, H, l, i, t) ==
  /\ Sound(g, With(p, l, t), H) /\ SameShell(g, h, l) /\ Consistent(StagesOf(g, l))
  /\ t \in Seq(Cells) /\ i \in 0 .. Len(t) /\ CellAt(t, i) = CellAt(p[l], i)
  /\ SameElsewhere(g, h, p, l)

LEMMA IdentityPasses ==
  ASSUME NEW s \in Stages, s.implements = "Identity"
  PROVE  s.in = s.out
BY StagesAreWellMade DEF WellMade

LEMMA PairPasses ==
  ASSUME NEW s \in Stages, NEW u \in Stages, NEW r \in DOMAIN Pairs,
         <<s.implements, u.implements>> = Pairs[r]
  PROVE  s.in = 3 /\ s.out = 3 /\ u.in = 3 /\ u.out = 3
<1> DEFINE a == s.implements
           b == u.implements
<1>1. <<a, b>> = Pairs[r]
  OBVIOUS
<1> HIDE DEF a, b
<1>2. a \in ToSet(<<a, b>>) /\ b \in ToSet(<<a, b>>)
  <2>1. 1 \in DOMAIN <<a, b>> /\ 2 \in DOMAIN <<a, b>> /\ <<a, b>>[1] = a /\ <<a, b>>[2] = b
    OBVIOUS
  <2>2. QED
    BY <2>1 DEF ToSet
<1>3. a \in ToSet(Pairs[r]) /\ b \in ToSet(Pairs[r])
  BY <1>1, <1>2, Zenon
<1>4. \E k \in DOMAIN Pairs : a \in ToSet(Pairs[k])
  BY <1>3
<1>5. \E k \in DOMAIN Pairs : b \in ToSet(Pairs[k])
  BY <1>3
<1>6. WellMade(s) /\ WellMade(u)
  BY StagesAreWellMade
<1>7. s.in = 3 /\ s.out = 3
  BY <1>4, <1>6, Zenon DEF WellMade, a
<1>8. u.in = 3 /\ u.out = 3
  BY <1>5, <1>6, Zenon DEF WellMade, b
<1>9. QED
  BY <1>7, <1>8

LEMMA CutKeepsPlace ==
  ASSUME NEW S, NEW s \in Seq(S), NEW i \in Nat, NEW n \in 1 .. 2, i + n <= Len(s),
         NEW t \in Seq(S), IsCut(t, s, i, n)
  PROVE  i \in 0 .. Len(t) /\ CellAt(t, i) = CellAt(s, i)
<1>1. Len(s) \in Nat /\ Len(t) = Len(s) - n /\ \A x \in 1 .. Len(t) : t[x] = s[IF x <= i THEN x ELSE x + n]
  BY DEF IsCut
<1>2. i \in 0 .. Len(t) /\ (i # 0 => i \in 1 .. Len(t))
  BY <1>1
<1>3. i # 0 => t[i] = s[i]
  BY <1>1, <1>2
<1>4. QED
  BY <1>2, <1>3 DEF CellAt

LEMMA IdentityIsRemoved ==
  ASSUME NEW h, NEW p, NEW H, Sound(h, p, H), NEW l \in Luts, Live(h, l),
         NEW i \in 0 .. Len(p[l]), NEW j \in 1 .. Len(p[l]), NextTo(i, j),
         Consistent(StagesOf(h, l)), h.stage[p[l][j]].implements = "Identity",
         NEW at, at = CellAt(p[l], i), NEW g, g = RemoveElement(h, l, at)
  PROVE  /\ Optimised(g, h, p, H, l, i, RemoveAt(p[l], j))
         /\ IsCut(StagesOf(g, l), StagesOf(h, l), i, 1)
<1> DEFINE s == p[l]
           t == RemoveAt(s, j)
           e == StagesOf(h, l)
<1>1. Owned(h, p, H) /\ ~h.lut[l].nil
  BY DEF Sound, Live
<1>2. /\ Owned(g, With(p, l, t), H) /\ SameShell(g, h, l) /\ s[j] \in Cells
      /\ g.stage = Freed(h.stage, s[j])
  BY <1>1, ElementIsRemoved
<1>3. s \in Seq(Cells) /\ Len(s) \in Nat
  BY <1>1, PlacesAreChains
<1>4. t \in Seq(Cells) /\ IsCut(t, s, i, 1)
  <2> HIDE DEF s
  <2>1. j \in 1 .. Len(s) /\ i \in 0 .. Len(s)
    BY DEF s
  <2>2. QED
    BY <2>1, <1>3, OneIsCut
<1>5. Grows(h, g)
  BY <1>1, <1>2 DEF Grows, Freed, Owned, Heaps
<1>6. Passes(e, i, 1)
  <2>1. e = StagesOf(h, l)
    OBVIOUS
  <2> HIDE DEF e
  <2>2. e[j] = h.stage[s[j]] /\ e[j] \in Stages /\ Len(e) = Len(s)
    BY <2>1, <1>1, StagesAre
  <2>3. e[j].in = e[j].out
    BY <2>2, IdentityPasses
  <2>4. j = i + 1 /\ i + 1 <= Len(e)
    BY <2>2, <1>3 DEF NextTo
  <2>5. QED
    BY <2>3, <2>4 DEF Passes
<1>7. /\ Sound(g, With(p, l, t), H) /\ Consistent(StagesOf(g, l)) /\ SameElsewhere(g, h, p, l)
      /\ IsCut(StagesOf(g, l), StagesOf(h, l), i, 1)
  <2>1. 1 \in 1 .. 2 /\ i \in Nat
    BY <1>3
  <2> HIDE DEF t
  <2>2. QED
    BY <2>1, <1>2, <1>4, <1>5, <1>6, CutIsSound
<1>8. i \in 0 .. Len(t) /\ CellAt(t, i) = CellAt(s, i)
  <2>1. 1 \in 1 .. 2 /\ i \in Nat /\ i + 1 <= Len(s)
    BY <1>3 DEF NextTo
  <2> HIDE DEF s, t
  <2>2. QED
    BY <2>1, <1>3, <1>4, CutKeepsPlace
<1>9. QED
  BY <1>2, <1>4, <1>7, <1>8 DEF Optimised

\* Two that together take as many channels as they give.
LEMMA TwoAreOptimised ==
  ASSUME NEW h, NEW p, NEW H, Sound(h, p, H), NEW l \in Luts, Live(h, l),
         NEW i \in 0 .. Len(p[l]), NEW j \in 1 .. Len(p[l]), NEW k \in 1 .. Len(p[l]),
         NextTo(i, j), NextTo(j, k), Consistent(StagesOf(h, l)),
         h.stage[p[l][j]].in = h.stage[p[l][k]].out,
         NEW at, at = CellAt(p[l], i), NEW g, g = RemoveTwo(h, l, at)
  PROVE  /\ Optimised(g, h, p, H, l, i, CutTwo(p[l], j, k)) /\ Grows(h, g)
         /\ IsCut(CutTwo(p[l], j, k), p[l], i, 2) /\ Owned(g, With(p, l, CutTwo(p[l], j, k)), H)
         /\ IsCut(StagesOf(g, l), StagesOf(h, l), i, 2)
<1> DEFINE s == p[l]
           t == CutTwo(s, j, k)
           e == StagesOf(h, l)
<1>1. Owned(h, p, H) /\ ~h.lut[l].nil
  BY DEF Sound, Live
<1>2. /\ Owned(g, With(p, l, t), H) /\ SameShell(g, h, l) /\ s[j] \in Cells /\ s[k] \in Cells
      /\ g.stage = Freed(Freed(h.stage, s[k]), s[j])
  BY <1>1, TwoAreRemoved
<1>3. s \in Seq(Cells) /\ Len(s) \in Nat
  BY <1>1, PlacesAreChains
<1>4. t \in Seq(Cells) /\ IsCut(t, s, i, 2)
  <2> HIDE DEF s
  <2>1. j \in 1 .. Len(s) /\ i \in 0 .. Len(s) /\ k \in 1 .. Len(s)
    BY DEF s
  <2>2. QED
    BY <2>1, <1>3, TwoAreCut
<1>5. Grows(h, g)
  BY <1>1, <1>2 DEF Grows, Freed, Owned, Heaps
<1>6. i \in Nat /\ i + 2 <= Len(s) /\ i + 1 = j /\ i + 2 = k /\ 2 \in 1 .. 2
  BY <1>3 DEF NextTo
<1>7. Passes(e, i, 2)
  <2>1. e = StagesOf(h, l)
    OBVIOUS
  <2> HIDE DEF e
  <2>2. e[j] = h.stage[s[j]] /\ e[k] = h.stage[s[k]] /\ Len(e) = Len(s)
    BY <2>1, <1>1, StagesAre
  <2>3. QED
    BY <2>2, <1>6 DEF Passes
<1>8. /\ Sound(g, With(p, l, t), H) /\ Consistent(StagesOf(g, l)) /\ SameElsewhere(g, h, p, l)
      /\ IsCut(StagesOf(g, l), StagesOf(h, l), i, 2)
  <2> HIDE DEF t
  <2>1. i \in Nat /\ 2 \in 1 .. 2
    BY <1>6
  <2>2. QED
    BY <2>1, <1>2, <1>4, <1>5, <1>7, CutIsSound
<1>9. i \in 0 .. Len(t) /\ CellAt(t, i) = CellAt(s, i)
  <2>1. 2 \in 1 .. 2 /\ i \in Nat /\ i + 2 <= Len(s)
    BY <1>6
  <2> HIDE DEF s, t
  <2>2. QED
    BY <2>1, <1>3, <1>4, CutKeepsPlace
<1>10. QED
  BY <1>2, <1>4, <1>5, <1>8, <1>9 DEF Optimised

\* A stage is made and nothing else.
LEMMA MadeGrows ==
  ASSUME NEW f \in Heaps, NEW c \in Cells, f.stage[c] = NoStage, NEW s, NEW g, g.stage = Made(f.stage, c, s)
  PROVE  Grows(g, f) /\ g.stage[c] = s
BY DEF Grows, Made, Heaps

LEMMA SwappedStages ==
  ASSUME NEW h, NEW p, NEW H, Owned(h, p, H), NEW l \in Luts, NEW i \in Nat, i + 2 <= Len(p[l]),
         NEW r \in Seq(Cells), IsCut(r, p[l], i, 2), NEW f \in Heaps, Grows(h, f),
         \A k \in 1 .. Len(r) : f.stage[r[k]] # NoStage,
         NEW c \in Cells, f.stage[c] = NoStage, NEW s, NEW t, IsInserted(t, r, i, c),
         NEW g, g.stage = Made(f.stage, c, s), NEW G, Owned(g, With(p, l, t), G)
  PROVE  IsSwap(StagesOf(g, l), StagesOf(h, l), i, s)
<1>0. Grows(g, f) /\ g.stage[c] = s
  <2>1. f.stage \in [Cells -> StagesOrNone]
    BY DEF Heaps
  <2>2. g.stage[c] = s
    BY <2>1, Zenon DEF Made
  <2>3. Grows(g, f)
    BY MadeGrows
  <2>4. QED
    BY <2>2, <2>3
<1> DEFINE q == With(p, l, t)
           d == StagesOf(g, l)
           e == StagesOf(h, l)
<1>1. p \in [Luts -> Seq(Cells)]
  BY DEF Owned
<1>2. q[l] = t
  BY <1>1 DEF With
<1>3. d = StagesOf(g, l) /\ e = StagesOf(h, l) /\ Owned(g, q, G)
  OBVIOUS
<1> HIDE DEF q, d, e
<1>4. /\ Len(d) = Len(q[l]) /\ Len(d) \in Nat
      /\ \A k \in 1 .. Len(q[l]) : d[k] = g.stage[q[l][k]]
  BY <1>3, StagesAre
<1>5. /\ Len(e) = Len(p[l]) /\ Len(e) \in Nat
      /\ \A k \in 1 .. Len(p[l]) : e[k] = h.stage[p[l][k]]
  BY <1>3, StagesAre
<1>6. Len(r) = Len(p[l]) - 2 /\ \A x \in 1 .. Len(r) : r[x] = p[l][IF x <= i THEN x ELSE x + 2]
  BY DEF IsCut
<1>7. Len(t) = Len(r) + 1 /\ \A x \in 1 .. Len(t) : t[x] = IF x <= i THEN r[x] ELSE IF x = i + 1 THEN c ELSE r[x - 1]
  BY DEF IsInserted
<1>8. Len(d) = Len(e) - 1 /\ i + 2 <= Len(e)
  BY <1>2, <1>4, <1>5, <1>6, <1>7
<1>9. ASSUME NEW y \in 1 .. Len(r)
      PROVE  g.stage[r[y]] = e[IF y <= i THEN y ELSE y + 2]
  <2> DEFINE z == IF y <= i THEN y ELSE y + 2
  <2>1. z \in 1 .. Len(p[l]) /\ r[y] = p[l][z]
    BY <1>5, <1>6
  <2> HIDE DEF z
  <2>2. r[y] \in Cells /\ f.stage[r[y]] # NoStage
    BY ElementOfSeq
  <2>3. g.stage[r[y]] = f.stage[r[y]]
    BY <2>2, <1>0 DEF Grows
  <2>4. f.stage[r[y]] = h.stage[r[y]]
    BY <2>2 DEF Grows
  <2>5. g.stage[r[y]] = e[z]
    BY <2>1, <2>3, <2>4, <1>5
  <2>6. QED
    BY <2>5 DEF z
<1>10. ASSUME NEW x \in 1 .. Len(d)
       PROVE  d[x] = IF x <= i THEN e[x] ELSE IF x = i + 1 THEN s ELSE e[x + 1]
  <2>1. x \in 1 .. Len(t) /\ d[x] = g.stage[t[x]]
    BY <1>2, <1>4
  <2>2. CASE x <= i
    <3>1. t[x] = r[x] /\ x \in 1 .. Len(r)
      BY <2>1, <2>2, <1>4, <1>5, <1>6, <1>7
    <3>2. g.stage[r[x]] = e[x]
      BY <3>1, <2>2, <1>9
    <3>3. QED
      BY <3>1, <3>2, <2>1, <2>2
  <2>3. CASE x = i + 1
    <3>1. t[x] = c /\ ~(x <= i)
      BY <2>1, <2>3, <1>7
    <3>2. QED
      BY <3>1, <1>0, <2>1, <2>3
  <2>4. CASE x > i + 1
    <3>1. t[x] = r[x - 1] /\ x - 1 \in 1 .. Len(r) /\ ~(x - 1 <= i) /\ (x - 1) + 2 = x + 1 /\ ~(x <= i) /\ x # i + 1
      BY <2>1, <2>4, <1>4, <1>5, <1>6, <1>7
    <3>2. g.stage[r[x - 1]] = e[(x - 1) + 2]
      BY <3>1, <1>9
    <3>3. QED
      BY <3>1, <3>2, <2>1
  <2>5. QED
    BY <2>2, <2>3, <2>4, <1>4
<1>11. QED
  BY <1>8, <1>10 DEF IsSwap, d, e

\* d is e with a stage of the matrix res, unless it is the identity, for the two
\* after the first i.
ProductIsIn(d, e, i, res) ==
  /\ res = IdentityMatrix => IsCut(d, e, i, 2)
  /\ res # IdentityMatrix => IsSwap(d, e, i, StageAllocMatrix(3, 3, res, <<>>))

\* _MultiplyMatrix: two matrices, without or with their product.
LEMMA MatricesAreMultiplied ==
  ASSUME NEW h, NEW p, NEW H, Sound(h, p, H), NEW l \in Luts, Live(h, l),
         NEW i \in 0 .. Len(p[l]), NEW j \in 1 .. Len(p[l]), NEW k \in 1 .. Len(p[l]),
         NextTo(i, j), NextTo(j, k), Consistent(StagesOf(h, l)),
         h.stage[p[l][j]].implements = "Matrix", Multipliable(h.stage[p[l][j]]),
         h.stage[p[l][k]].implements = "Matrix", Multipliable(h.stage[p[l][k]]),
         NEW at, at = CellAt(p[l], i), NEW g, g = MultiplyTwo(h, l, at)
  PROVE  /\ \E t : Optimised(g, h, p, H, l, i, t)
         /\ ProductIsIn(StagesOf(g, l), StagesOf(h, l), i,
                        MAT3per(h.stage[p[l][k]].data.matrix, h.stage[p[l][j]].data.matrix))
<1> DEFINE s == p[l]
           r == CutTwo(s, j, k)
           f == RemoveTwo(h, l, at)
           res == MAT3per(h.stage[s[k]].data.matrix, h.stage[s[j]].data.matrix)
<1>1. Owned(h, p, H) /\ ~h.lut[l].nil
  BY DEF Sound, Live
<1>2. f = RemoveTwo(h, l, at) /\ res = MAT3per(h.stage[s[k]].data.matrix, h.stage[s[j]].data.matrix)
  OBVIOUS
<1>3. h.stage[s[j]].in = 3 /\ h.stage[s[j]].out = 3 /\ h.stage[s[k]].in = 3 /\ h.stage[s[k]].out = 3
  BY DEF Multipliable
<1>4. /\ Optimised(f, h, p, H, l, i, r) /\ Grows(h, f)
      /\ IsCut(r, s, i, 2) /\ Owned(f, With(p, l, r), H)
      /\ IsCut(StagesOf(f, l), StagesOf(h, l), i, 2)
  <2>1. h.stage[p[l][j]].in = h.stage[p[l][k]].out
    BY <1>3
  <2>2. QED
    BY <2>1, <1>2, TwoAreOptimised
<1>5. Multiplied(g, f, h, p, H, l, i, r, res)
  BY <1>1, TwoAreMultiplied
<1> HIDE DEF f, res
<1>6. CASE res = IdentityMatrix
  <2>1. g = f
    BY <1>5, <1>6 DEF Multiplied
  <2>2. ProductIsIn(StagesOf(g, l), StagesOf(h, l), i, res)
    BY <2>1, <1>4, <1>6 DEF ProductIsIn
  <2>3. QED
    BY <2>1, <2>2, <1>2, <1>4
<1>7. CASE res # IdentityMatrix
  <2> DEFINE v == StageAllocMatrix(3, 3, res, <<>>)
  <2>1. v.in = 3 /\ v.out = 3
    BY <1>5, MatrixStage, SMTT(20) DEF Multiplied
  <2> HIDE DEF v
  <2>2. PICK c \in Cells : /\ f.stage[c] = NoStage
                           /\ Owned(g, With(p, l, Inserted(r, i, c)), H) /\ SameShell(g, h, l)
                           /\ g.stage = Made(f.stage, c, v)
    BY <1>5, <1>7 DEF v, Multiplied
  <2> DEFINE t == Inserted(r, i, c)
             d == StagesOf(g, l)
             e == StagesOf(h, l)
  <2>3. r \in Seq(Cells) /\ i \in 0 .. Len(r) /\ CellAt(r, i) = CellAt(s, i) /\ f \in Heaps
    BY <1>4 DEF Optimised, Owned
  <2>4. /\ s \in Seq(Cells) /\ Len(s) \in Nat /\ i \in Nat /\ i + 2 <= Len(s) /\ i + 1 = j /\ i + 2 = k
        /\ Len(r) \in Nat
    <3>1. s \in Seq(Cells) /\ Len(s) \in Nat
      BY <1>1, PlacesAreChains
    <3>2. QED
      BY <3>1, <2>3 DEF NextTo
  <2> HIDE DEF r
  <2>5. IsInserted(t, r, i, c)
    BY <2>3, InsertedOne
  <2>6. Owned(g, With(p, l, t), H)
    BY <2>2
  <2> HIDE DEF t
  <2>7. t \in Seq(Cells) /\ Len(t) = Len(r) + 1 /\ t # <<>>
        /\ \A x \in 1 .. Len(t) : t[x] = IF x <= i THEN r[x] ELSE IF x = i + 1 THEN c ELSE r[x - 1]
    BY <2>5 DEF IsInserted
  <2>8. i \in 0 .. Len(t) /\ CellAt(t, i) = CellAt(s, i)
    <3>1. i \in 0 .. Len(t) /\ (i # 0 => i \in 1 .. Len(t) /\ i <= i)
      BY <2>3, <2>4, <2>7
    <3>2. i # 0 => t[i] = r[i]
      BY <3>1, <2>7
    <3>3. CellAt(t, i) = CellAt(r, i)
      BY <3>2 DEF CellAt
    <3>4. QED
      BY <3>1, <3>3, <2>3
  <2>9. \A x \in 1 .. Len(r) : f.stage[r[x]] # NoStage
    <3>1. p \in [Luts -> Seq(Cells)]
      BY <1>1 DEF Owned
    <3> DEFINE q == With(p, l, r)
    <3>2. q[l] = r
      BY <3>1 DEF With
    <3> HIDE DEF q
    <3>3. Owned(f, q, H)
      BY <1>4 DEF q
    <3>4. \A x \in 1 .. Len(q[l]) : f.stage[q[l][x]] # NoStage
      BY <3>3 DEF Owned
    <3>5. QED
      BY <3>2, <3>4
  <2>10. IsSwap(d, e, i, v)
    <3>1. i + 2 <= Len(p[l]) /\ i \in Nat /\ IsCut(r, p[l], i, 2)
      BY <2>4, <1>4
    <3>2. f.stage[c] = NoStage /\ g.stage = Made(f.stage, c, v)
      BY <2>2
    <3>3. QED
      BY <3>1, <3>2, <2>3, <2>5, <2>6, <2>9, <1>1, <1>4, SwappedStages
  <2>11. d \in Seq(StagesOrNone) /\ d = StagesOf(g, l) /\ e = StagesOf(h, l)
    <3> DEFINE q == With(p, l, t)
    <3>1. Owned(g, q, H)
      BY <2>6
    <3> HIDE DEF q
    <3>2. QED
      BY <3>1, StagesAre
  <2> HIDE DEF d, e
  <2>12. e \in Seq(StagesOrNone) /\ e[i + 1].in = 3 /\ e[i + 2].out = 3 /\ Consistent(e)
    <3>1. e \in Seq(StagesOrNone) /\ e[j] = h.stage[s[j]] /\ e[k] = h.stage[s[k]]
      BY <2>11, <1>1, StagesAre
    <3>2. QED
      BY <3>1, <2>4, <2>11, <1>3
  <2>13. Consistent(d) /\ SameEnds(d, e)
    BY <2>1, <2>4, <2>10, <2>11, <2>12, SwapFits
  <2>14. p[l] # <<>>
    BY <2>4, EmptySeq
  <2>15. EndsAre(g, With(p, l, t), l)
    BY <2>2, <2>6, <2>11, <2>13, <2>14, SameEndsAre
  <2>16. SameElsewhere(g, h, p, l)
    <3>1. \A m \in Luts \ {l} : g.lut[m] = h.lut[m] /\ f.lut[m] = h.lut[m]
      BY <2>2, <1>4 DEF SameShell, Optimised
    <3>2. SameElsewhere(f, h, p, l)
      BY <3>1, <1>1, <1>4, OthersStay
    <3> DEFINE q == With(p, l, r)
    <3>3. p \in Chains
      BY <1>1 DEF Owned, Chains
    <3>4. With(q, l, t) = With(p, l, t) /\ \A m \in Luts \ {l} : q[m] = p[m]
      BY <3>3, WithTwice DEF With, Chains
    <3>5. Owned(f, q, H)
      BY <1>4
    <3> HIDE DEF q
    <3>6. Grows(g, f)
      BY <2>2, <2>3, MadeGrows
    <3>7. Owned(g, With(q, l, t), H) /\ \A m \in Luts \ {l} : g.lut[m] = f.lut[m]
      BY <2>6, <3>1, <3>4
    <3>8. SameElsewhere(g, f, q, l)
      BY <3>5, <3>6, <3>7, OthersStay
    <3>9. QED
      BY <3>2, <3>4, <3>8 DEF SameElsewhere
  <2>17. Sound(g, With(p, l, t), H)
    <3> DEFINE q == With(p, l, t)
    <3>1. q = With(p, l, t) /\ Owned(g, q, H) /\ EndsAre(g, q, l)
      BY <2>6, <2>15
    <3> HIDE DEF q
    <3>2. Sound(g, q, H)
      BY <3>1, <2>16, StillSound
    <3>3. QED
      BY <3>1, <3>2
  <2>18. Optimised(g, h, p, H, l, i, t)
    BY <2>2, <2>7, <2>8, <2>11, <2>13, <2>16, <2>17 DEF Optimised
  <2>19. ProductIsIn(d, e, i, res)
    BY <2>10, <1>7 DEF ProductIsIn, v
  <2>20. QED
    BY <2>11, <2>18, <2>19, <1>2
<1>8. QED
  BY <1>6, <1>7

----------------------------------------------------------------------------
(* The invariant: heap and hands are sound for some chains, and PreOptimize*)
(* is at a cell of its pipeline, with nothing behind it that it had to take*)
(* out unless it has something to tell.                                    *)

\* PreOptimize is after the first i stages of l.
Running(h, p, H, ps, l, i) ==
  /\ l \in Luts /\ i \in 0 .. Len(p[l]) /\ ps.rule \in 1 .. LastRule /\ ps.opt \in BOOLEAN
  /\ ps = [lut |-> {l}, rule |-> ps.rule, at |-> CellAt(p[l], i), opt |-> ps.opt]
  /\ Live(h, l) /\ H = {} /\ Consistent(StagesOf(h, l))

\* The rules before this one match no stage of l, this one none of the first i.
Cleared(h, p, l, i, rule) ==
  \A k \in 1 .. Len(p[l]) :
    /\ rule > 1 \/ k <= i => h.stage[p[l][k]].implements # "Identity"
    /\ \A r \in DOMAIN Pairs :
         k < Len(p[l]) /\ (r + 1 < rule \/ (r + 1 = rule /\ k <= i)) =>
           <<h.stage[p[l][k]].implements, h.stage[p[l][k + 1]].implements>> # Pairs[r]

HeapInv ==
  \E p :
    /\ Sound(heap, p, held) /\ Cardinality(held) <= MaxHeld
    /\ Resting \/ \E l, i : /\ Running(heap, p, held, pass, l, i)
                            /\ pass.opt \/ Cleared(heap, p, l, i, pass.rule)

LEMMA StillResting ==
  ASSUME Resting, pass' = pass, NEW q, Sound(heap', q, held'), Cardinality(held') <= MaxHeld
  PROVE  HeapInv'
BY DEF HeapInv, Resting

LEMMA FewerHeld ==
  ASSUME NEW H, H \subseteq Cells, Cardinality(H) <= MaxHeld, NEW c
  PROVE  Cardinality(Given(H, c)) <= MaxHeld
<1>1. IsFiniteSet(H) /\ MaxHeld \in Nat
  BY CellFacts, FS_Subset, CellsAssumption
<1>2. Given(H, c) \subseteq H
  BY DEF Given
<1>3. IsFiniteSet(Given(H, c)) /\ Cardinality(Given(H, c)) <= Cardinality(H)
  BY <1>1, <1>2, FS_Subset
<1>4. Cardinality(H) \in Nat /\ Cardinality(Given(H, c)) \in Nat
  BY <1>1, <1>3, FS_CardinalityType
<1>5. QED
  BY <1>1, <1>3, <1>4

LEMMA OneMoreHeld ==
  ASSUME NEW H, H \subseteq Cells, Cardinality(H) < MaxHeld, NEW c, c \notin H
  PROVE  Cardinality(Taken(H, c)) <= MaxHeld
<1>1. IsFiniteSet(H) /\ MaxHeld \in Nat
  BY CellFacts, FS_Subset, CellsAssumption
<1>2. Cardinality(H \cup {c}) = Cardinality(H) + 1 /\ Cardinality(H) \in Nat
  BY <1>1, FS_AddElement, FS_CardinalityType
<1>3. QED
  BY <1>1, <1>2 DEF Taken

LEMMA GivenBack ==
  ASSUME NEW H, NEW c, c \notin H
  PROVE  Given(Taken(H, c), c) = H
BY DEF Given, Taken

LEMMA StartsSound == Init => HeapInv
<1> SUFFICES ASSUME Init PROVE HeapInv
  OBVIOUS
<1> DEFINE p == [l \in Luts |-> <<>>]
<1>1. heap \in Heaps
  BY DEF Init, Heaps, StagesOrNone, LutsAre, NoLut
<1>2. p \in [Luts -> Seq(Cells)] /\ \A l \in Luts : p[l] = <<>>
  BY EmptySeq
<1>3. Len(<<>>) = 0 /\ <<>> \in Seq(Cells)
  BY EmptySeq
<1>4. held = {} /\ \A l \in Luts : heap.lut[l].head = Nil
  BY DEF Init, NoLut
<1> HIDE DEF p
<1>5. \A l \in Luts : Linked(heap.next, heap.lut[l].head, p[l])
  BY <1>2, <1>3, <1>4 DEF Linked
<1>6. Owned(heap, p, held)
  BY <1>1, <1>2, <1>3, <1>4, <1>5 DEF Owned
<1>7. Sound(heap, p, held)
  BY <1>2, <1>6 DEF Sound, EndsAre
<1>8. Cardinality(held) <= MaxHeld
  BY <1>4, FS_EmptySet, CellsAssumption
<1>9. Resting
  BY DEF Init, Resting
<1>10. QED
  BY <1>7, <1>8, <1>9 DEF HeapInv

----------------------------------------------------------------------------
(* The caller's operations.                                                *)

LEMMA AllocStageSafe ==
  ASSUME NEW p, Sound(heap, p, held), NEW k \in DOMAIN Kinds, AllocStage(Kinds[k])
  PROVE  HeapInv'
<1> DEFINE c == Min(FreeCells(heap))
           s == Kinds[k]
<1>1. /\ Resting /\ Cardinality(held) < MaxHeld /\ FreeCells(heap) # {}
      /\ heap' = NewStage(heap, c, s) /\ held' = held \cup {c} /\ pass' = pass
  BY DEF AllocStage, HandsFree
<1>2. c \in FreeCells(heap) /\ s \in Stages /\ held \subseteq Cells
  <2>1. c \in Cells /\ heap.stage[c] = NoStage
    BY <1>1, OneIsFree
  <2>2. QED
    BY <2>1 DEF FreeCells, Stages, Sound, Owned
<1> HIDE DEF c, s
<1>3. Sound(heap', p, Taken(held, c)) /\ c \notin held
  BY <1>1, <1>2, StageIsAllocated
<1>4. held' = Taken(held, c)
  BY <1>1 DEF Taken
<1>5. Cardinality(held') <= MaxHeld
  BY <1>1, <1>2, <1>3, <1>4, OneMoreHeld
<1>6. QED
  BY <1>1, <1>3, <1>4, <1>5, StillResting

LEMMA FreeHeldSafe ==
  ASSUME NEW p, Sound(heap, p, held), Cardinality(held) <= MaxHeld, NEW c \in held, FreeHeld(c)
  PROVE  HeapInv'
<1>1. Resting /\ heap' = StageFree(heap, c) /\ held' = Given(held, c) /\ pass' = pass
  BY DEF FreeHeld, Given
<1>2. Owned(heap, p, held) /\ held \subseteq Cells /\ c \in Cells
  BY DEF Sound, Owned
<1>3. \A l \in Luts : \A k \in 1 .. Len(p[l]) : p[l][k] # c
  BY <1>2, LooseIsNowhere
<1>4. Sound(heap', p, Given(held, c))
  BY <1>1, <1>2, <1>3, LooseIsFreed
<1>5. Cardinality(Given(held, c)) <= MaxHeld
  BY <1>2, FewerHeld
<1>6. QED
  BY <1>1, <1>4, <1>5, StillResting

LEMMA PipelineAllocateSafe ==
  ASSUME NEW p, Sound(heap, p, held), Cardinality(held) <= MaxHeld,
         NEW l \in Luts, NEW w \in Widths, PipelineAllocate(l, w)
  PROVE  HeapInv'
<1> DEFINE r == [in |-> w[1], out |-> w[2], head |-> Nil, nil |-> FALSE]
<1>1. Resting /\ heap.lut[l].nil /\ held' = held /\ pass' = pass /\ heap' = SetLut(heap, l, r)
  BY DEF PipelineAllocate, Alive, SetLut
<1>2. r \in LutsAre /\ r.head = Nil
  BY WidthsAssumption DEF LutsAre
<1>3. p[l] = <<>>
  BY <1>1 DEF Sound, Owned
<1> HIDE DEF r
<1>4. Sound(heap', p, held)
  BY <1>1, <1>2, <1>3, EmptyIsSet
<1>5. QED
  BY <1>1, <1>4, StillResting

LEMMA PipelineFreeSafe ==
  ASSUME NEW p, Sound(heap, p, held), Cardinality(held) <= MaxHeld, NEW l \in Luts, PipelineFree(l)
  PROVE  HeapInv'
<1> DEFINE S == ToSet(CellsOf(heap, l))
<1>1. /\ Resting /\ held' = held /\ pass' = pass
      /\ heap' = [heap EXCEPT !.stage = [c \in Cells |-> IF c \in S THEN NoStage ELSE @[c]], !.lut[l] = NoLut]
  BY DEF PipelineFree
<1>2. NoLut \in LutsAre /\ NoLut.head = Nil
  BY DEF LutsAre, NoLut
<1>3. /\ S \subseteq Cells /\ \A k \in 1 .. Len(p[l]) : p[l][k] \in S
      /\ \A c \in S : \E k \in 1 .. Len(p[l]) : p[l][k] = c
  <2>1. CellsOf(heap, l) = p[l] /\ DOMAIN p[l] = 1 .. Len(p[l]) /\ \A k \in 1 .. Len(p[l]) : p[l][k] \in Cells
    BY PlacesAreChains DEF Sound
  <2>2. S = {p[l][k] : k \in 1 .. Len(p[l])}
    BY <2>1 DEF ToSet
  <2>3. QED
    BY <2>1, <2>2
<1> HIDE DEF S
<1>4. Sound(heap', With(p, l, <<>>), held)
  BY <1>1, <1>2, <1>3, EmptyIsSound
<1>5. QED
  BY <1>1, <1>4, StillResting

LEMMA PipelineInsertStageSafe ==
  ASSUME NEW p, Sound(heap, p, held), Cardinality(held) <= MaxHeld,
         NEW l \in Luts, NEW c \in held, PipelineInsertStage(l, c)
  PROVE  HeapInv'
<1> DEFINE n == Len(p[l])
<1>1. /\ Resting /\ ~heap.lut[l].nil /\ held' = Given(held, c) /\ pass' = pass
      /\ heap' = InsertBegin(heap, l, c) \/ heap' = InsertEnd(heap, l, c)
  BY DEF PipelineInsertStage, Alive, Given
<1>2. Owned(heap, p, held) /\ held \subseteq Cells
  BY DEF Sound, Owned
<1>3. EndsAt(p[l], n)
  BY DEF EndsAt
<1> HIDE DEF n
<1>4. \E t : IsNow(heap, heap', p, l, t, Given(held, c)) /\ heap'.stage = heap.stage
  <2>1. CASE heap' = InsertBegin(heap, l, c)
    BY <2>1, <1>1, <1>2, BeginIsInserted
  <2>2. CASE heap' = InsertEnd(heap, l, c)
    BY <2>2, <1>1, <1>2, <1>3, EndIsInserted
  <2>3. QED
    BY <2>1, <2>2, <1>1
<1>5. PICK t : IsNow(heap, heap', p, l, t, Given(held, c)) /\ heap'.stage = heap.stage
  BY <1>4
<1>6. Sound(heap', With(p, l, t), Given(held, c))
  BY <1>5, NowSound
<1>7. Cardinality(Given(held, c)) <= MaxHeld
  BY <1>2, FewerHeld
<1>8. QED
  BY <1>1, <1>6, <1>7, StillResting

LEMMA PipelineUnlinkStageSafe ==
  ASSUME NEW p, Sound(heap, p, held), Cardinality(held) <= MaxHeld,
         NEW l \in Luts, PipelineUnlinkStage(l)
  PROVE  HeapInv'
<1>1. /\ Resting /\ ~heap.lut[l].nil /\ heap.lut[l].head # Nil /\ pass' = pass
      /\ \E c, h :
           /\ (c = heap.lut[l].head /\ h = UnlinkBegin(heap, l)) \/ (c = Last(CellsOf(heap, l)) /\ h = UnlinkEnd(heap, l))
           /\ \/ Cardinality(held) < MaxHeld /\ heap' = h /\ held' = Taken(held, c)
              \/ heap' = StageFree(h, c) /\ held' = held
  <2>1. PICK end \in {"begin", "end"} :
          LET c == IF end = "begin" THEN heap.lut[l].head ELSE Last(CellsOf(heap, l))
              h == IF end = "begin" THEN UnlinkBegin(heap, l) ELSE UnlinkEnd(heap, l)
          IN \/ HandsFree /\ heap' = h /\ held' = held \cup {c}
             \/ heap' = StageFree(h, c) /\ UNCHANGED held
    BY DEF PipelineUnlinkStage
  <2> DEFINE c == IF end = "begin" THEN heap.lut[l].head ELSE Last(CellsOf(heap, l))
             h == IF end = "begin" THEN UnlinkBegin(heap, l) ELSE UnlinkEnd(heap, l)
  <2>2. \/ Cardinality(held) < MaxHeld /\ heap' = h /\ held' = Taken(held, c)
        \/ heap' = StageFree(h, c) /\ held' = held
    BY <2>1 DEF Taken, HandsFree
  <2>3. (c = heap.lut[l].head /\ h = UnlinkBegin(heap, l)) \/ (c = Last(CellsOf(heap, l)) /\ h = UnlinkEnd(heap, l))
    <3>1. /\ end = "begin" => c = heap.lut[l].head
          /\ end # "begin" => c = Last(CellsOf(heap, l))
      OBVIOUS
    <3>2. /\ end = "begin" => h = UnlinkBegin(heap, l)
          /\ end # "begin" => h = UnlinkEnd(heap, l)
      OBVIOUS
    <3> HIDE DEF c, h
    <3>3. QED
      BY <3>1, <3>2
  <2> HIDE DEF c, h
  <2>4. Resting /\ ~heap.lut[l].nil /\ heap.lut[l].head # Nil /\ pass' = pass
    BY DEF PipelineUnlinkStage, Alive
  <2>5. QED
    BY <2>2, <2>3, <2>4
<1>2. PICK c, h :
        /\ (c = heap.lut[l].head /\ h = UnlinkBegin(heap, l)) \/ (c = Last(CellsOf(heap, l)) /\ h = UnlinkEnd(heap, l))
        /\ \/ Cardinality(held) < MaxHeld /\ heap' = h /\ held' = Taken(held, c)
           \/ heap' = StageFree(h, c) /\ held' = held
  BY <1>1
<1>3. Owned(heap, p, held) /\ held \subseteq Cells
  BY DEF Sound, Owned
<1>4. /\ CellsOf(heap, l) = p[l] /\ Linked(heap.next, heap.lut[l].head, p[l])
      /\ p[l] \in Seq(Cells) /\ Len(p[l]) \in Nat
  BY <1>3, PlacesAreChains
<1>5. p[l] # <<>> /\ ~heap.lut[l].nil
  BY <1>1, <1>4 DEF Linked
<1>6. \E t : TakenOut(h, heap, p, held, l, t, c)
  <2>1. CASE c = heap.lut[l].head /\ h = UnlinkBegin(heap, l)
    <3>1. TakenOut(h, heap, p, held, l, RemoveAt(p[l], 1), c)
      BY <2>1, <1>3, <1>5, FirstIsUnlinked
    <3>2. QED
      BY <3>1
  <2>2. CASE c = Last(CellsOf(heap, l)) /\ h = UnlinkEnd(heap, l)
    <3> DEFINE n == Len(p[l])
               i == n - 1
    <3>1. i \in 0 .. n /\ n \in 1 .. n /\ NextTo(i, n) /\ EndsAt(p[l], n)
      BY <1>4, <1>5, EmptySeq DEF NextTo, EndsAt
    <3>2. c = p[l][n]
      BY <2>2, <1>4 DEF Last
    <3>3. i \in 0 .. Len(p[l]) /\ n \in 1 .. Len(p[l])
      BY <3>1
    <3>4. NextTo(i, n) /\ EndsAt(p[l], n)
      BY <3>1
    <3>5. h = UnlinkEnd(heap, l)
      BY <2>2
    <3> HIDE DEF n, i
    <3>6. TakenOut(h, heap, p, held, l, RemoveAt(p[l], n), c)
      BY <3>2, <3>3, <3>4, <3>5, <1>3, <1>5, LastIsUnlinked
    <3>7. QED
      BY <3>6
  <2>3. QED
    BY <2>1, <2>2, <1>2
<1>7. PICK t : TakenOut(h, heap, p, held, l, t, c)
  BY <1>6
<1>13. /\ IsNow(heap, h, p, l, t, Taken(held, c)) /\ h.stage = heap.stage /\ c \in Cells /\ c \notin held
       /\ \A m \in Luts : \A k \in 1 .. Len(With(p, l, t)[m]) : With(p, l, t)[m][k] # c
  BY <1>7 DEF TakenOut
<1> DEFINE q == With(p, l, t)
<1>8. Sound(h, q, Taken(held, c))
  BY <1>13, NowSound
<1>9. \A m \in Luts : \A k \in 1 .. Len(q[m]) : q[m][k] # c
  BY <1>13
<1> HIDE DEF q
<1>10. CASE Cardinality(held) < MaxHeld /\ heap' = h /\ held' = Taken(held, c)
  <2>1. Cardinality(held') <= MaxHeld
    BY <1>3, <1>13, <1>10, OneMoreHeld
  <2>2. QED
    BY <2>1, <1>1, <1>8, <1>10, StillResting
<1>11. CASE heap' = StageFree(h, c) /\ held' = held
  <2>1. Sound(heap', q, Given(Taken(held, c), c))
    BY <1>13, <1>8, <1>9, <1>11, LooseIsFreed
  <2>2. Given(Taken(held, c), c) = held
    BY <1>13, GivenBack
  <2>3. QED
    BY <2>1, <2>2, <1>1, <1>11, StillResting
<1>12. QED
  BY <1>2, <1>10, <1>11

LEMMA PipelineDuplicateSafe ==
  ASSUME NEW p, Sound(heap, p, held), Cardinality(held) <= MaxHeld,
         NEW l \in Luts, NEW m \in Luts, PipelineDuplicate(l, m)
  PROVE  HeapInv'
<1>1. /\ Resting /\ Live(heap, l) /\ ~Live(heap, m) /\ held' = held /\ pass' = pass
      /\ heap' = CopyOf(heap, l, m) /\ Cardinality(FreeCells(heap)) >= Len(CellsOf(heap, l))
  BY DEF PipelineDuplicate, Alive, Live, RoomFor
<1>2. CellsOf(heap, l) = p[l]
  BY PlacesAreChains DEF Sound
<1>3. Cardinality(FreeCells(heap)) >= Len(p[l])
  BY <1>1, <1>2
<1>4. heap' = heap \/ \E u : Sound(heap', With(p, m, u), held)
  BY <1>1, <1>3, SoundAfterDup
<1>5. \E q : Sound(heap', q, held)
  BY <1>4
<1>6. QED
  BY <1>1, <1>5, StillResting

LEMMA CatPipelinesSafe ==
  ASSUME NEW p, Sound(heap, p, held), Cardinality(held) <= MaxHeld,
         NEW l \in Luts, NEW m \in Luts, CatPipelines(l, m)
  PROVE  HeapInv'
<1>1. /\ Resting /\ Live(heap, l) /\ l # m /\ held' = held /\ pass' = pass
      /\ \/ /\ heap' = PipelinesCat(heap, l, m).h
            /\ Cardinality(FreeCells(heap)) >= Len(CellsOf(heap, m))
         \/ heap' = PipelineCatSteal(heap, l, m)
  BY DEF CatPipelines, Alive, Live, RoomFor
<1>2. CellsOf(heap, m) = p[m]
  BY PlacesAreChains DEF Sound
<1>3. \E q : Sound(heap', q, held)
  <2>1. CASE /\ heap' = PipelinesCat(heap, l, m).h
             /\ Cardinality(FreeCells(heap)) >= Len(CellsOf(heap, m))
    <3> DEFINE r == PipelinesCat(heap, l, m)
    <3>1. Cardinality(FreeCells(heap)) >= Len(p[m])
      BY <2>1, <1>2
    <3>2. \E q : Sound(r.h, q, held)
      BY <3>1, <1>1, SoundAfterCat
    <3>3. QED
      BY <3>2, <2>1
  <2>2. CASE heap' = PipelineCatSteal(heap, l, m)
    BY <2>2, <1>1, SoundAfterSteal
  <2>3. QED
    BY <2>1, <2>2, <1>1
<1>4. QED
  BY <1>1, <1>3, StillResting

----------------------------------------------------------------------------
(* PreOptimize.                                                            *)

LEMMA RuleNumbers == /\ DOMAIN Pairs = 1 .. 6 /\ LastRule = 8
BY DEF Pairs, LastRule

LEMMA PassFields ==
  ASSUME NEW h, NEW p, NEW H, NEW ps, NEW l, NEW i, Running(h, p, H, ps, l, i)
  PROVE  /\ ps.lut = {l} /\ ps.at = CellAt(p[l], i) /\ ps.rule \in 1 .. 8 /\ ps.opt \in BOOLEAN
         /\ l \in Luts /\ i \in 0 .. Len(p[l]) /\ Live(h, l) /\ H = {} /\ Consistent(StagesOf(h, l))
         /\ ps = [lut |-> {l}, rule |-> ps.rule, at |-> CellAt(p[l], i), opt |-> ps.opt]
<1>1. ps = [lut |-> {l}, rule |-> ps.rule, at |-> CellAt(p[l], i), opt |-> ps.opt]
  BY DEF Running
<1>2. ps.lut = {l} /\ ps.at = CellAt(p[l], i)
  BY <1>1
<1>3. QED
  BY <1>1, <1>2, RuleNumbers DEF Running

\* A record with these fields is a place of PreOptimize.
LEMMA PassMade ==
  ASSUME NEW h, NEW p, NEW H, NEW ps, NEW l \in Luts, NEW i \in 0 .. Len(p[l]),
         NEW r \in 1 .. 8, NEW o \in BOOLEAN, NEW at, at = CellAt(p[l], i),
         ps = [lut |-> {l}, rule |-> r, at |-> at, opt |-> o],
         Live(h, l), H = {}, Consistent(StagesOf(h, l))
  PROVE  Running(h, p, H, ps, l, i) /\ ps.rule = r /\ ps.opt = o
<1>1. ps.rule = r /\ ps.opt = o
  OBVIOUS
<1>2. QED
  BY <1>1, RuleNumbers DEF Running

LEMMA WherePassIs ==
  ASSUME NEW p, Sound(heap, p, held), NEW l, NEW i, Running(heap, p, held, pass, l, i)
  PROVE  /\ Lut = l /\ i \in Nat /\ Len(p[l]) \in Nat /\ i <= Len(p[l])
         /\ Here = Nil <=> i = Len(p[l])
         /\ i < Len(p[l]) => /\ i + 1 \in 1 .. Len(p[l]) /\ NextTo(i, i + 1) /\ p[l][i + 1] \in Cells
                             /\ Here = p[l][i + 1] /\ Here = CellAt(p[l], i + 1)
         /\ Following = Nil <=> i + 1 >= Len(p[l])
         /\ i + 1 < Len(p[l]) => /\ i + 2 \in 1 .. Len(p[l]) /\ NextTo(i + 1, i + 2)
                                 /\ Following = p[l][i + 2]
<1> DEFINE s == p[l]
           n == Len(s)
           at == pass.at
<1>1. Owned(heap, p, held) /\ l \in Luts /\ i \in 0 .. n /\ at = CellAt(s, i) /\ pass.lut = {l}
  BY PassFields DEF Sound
<1>2. /\ s \in Seq(Cells) /\ n \in Nat /\ \A k \in 1 .. n : s[k] \in Cells
      /\ \A k \in 1 .. n : heap.next[s[k]] = IF k = n THEN Nil ELSE s[k + 1]
  BY <1>1, PlacesAreChains DEF Linked
<1>3. Lut = l
  BY <1>1 DEF Lut
<1>4. Here = Following1(s, i)
  <2>1. at = CellAt(p[l], i) /\ i \in 0 .. Len(p[l])
    BY <1>1
  <2> HIDE DEF at
  <2>2. PointsTo(heap, l, at) = Following1(p[l], i)
    BY <2>1, <1>1, PointsToNext
  <2>3. QED
    BY <2>2, <1>3 DEF Here, at
<1>5. (Here = Nil <=> i = n) /\ (i < n => i + 1 \in 1 .. n /\ Here = s[i + 1] /\ s[i + 1] \in Cells)
  <2>1. i < n => i + 1 \in 1 .. n /\ i # n
    BY <1>1, <1>2
  <2>2. QED
    BY <2>1, <1>1, <1>2, <1>4, CellFacts DEF Following1
<1>6. i < n => Here = CellAt(s, i + 1) /\ NextTo(i, i + 1)
  BY <1>1, <1>2, <1>5 DEF CellAt, NextTo
<1>7. i < n => Following = IF i + 1 = n THEN Nil ELSE s[(i + 1) + 1]
  BY <1>2, <1>5, CellFacts DEF Following
<1>8. i + 1 < n => i + 2 \in 1 .. n /\ s[i + 2] \in Cells /\ Following = s[i + 2] /\ NextTo(i + 1, i + 2)
  <2>1. i + 1 < n => i + 2 \in 1 .. n /\ i + 1 # n /\ (i + 1) + 1 = i + 2 /\ i < n
    BY <1>1, <1>2
  <2>2. QED
    BY <2>1, <1>2, <1>7 DEF NextTo
<1>9. Following = Nil <=> i + 1 >= n
  <2>1. CASE i = n
    BY <2>1, <1>1, <1>2, <1>5 DEF Following
  <2>2. CASE i + 1 = n
    BY <2>2, <1>1, <1>2, <1>7
  <2>3. CASE i + 1 < n
    BY <2>3, <1>1, <1>2, <1>8, CellFacts
  <2>4. QED
    BY <2>1, <2>2, <2>3, <1>1, <1>2
<1>10. i \in Nat /\ i <= n
  BY <1>1, <1>2
<1>11. QED
  BY <1>2, <1>3, <1>5, <1>6, <1>8, <1>9, <1>10

\* A rule that found nothing up to the end.
LEMMA EndClears ==
  ASSUME NEW h, NEW p, NEW l, NEW i \in Nat, NEW rule \in 1 .. 8, Cleared(h, p, l, i, rule),
         Len(p[l]) \in Nat, rule = 1 => i = Len(p[l]), rule # 1 => i + 1 >= Len(p[l]),
         NEW r, NextTo(rule, r)
  PROVE  Cleared(h, p, l, 0, r)
<1> DEFINE n == Len(p[l])
<1>1. r = rule + 1 /\ n \in Nat
  BY DEF NextTo
<1>2. ASSUME NEW k \in 1 .. n PROVE h.stage[p[l][k]].implements # "Identity"
  <2>1. rule > 1 \/ k <= i
    BY <1>1
  <2>2. QED
    BY <2>1 DEF Cleared
<1>3. ASSUME NEW k \in 1 .. n, NEW x \in DOMAIN Pairs, k < n, x + 1 < r \/ (x + 1 = r /\ k <= 0)
      PROVE  <<h.stage[p[l][k]].implements, h.stage[p[l][k + 1]].implements>> # Pairs[x]
  <2>1. x \in 1 .. 6
    BY RuleNumbers
  <2>2. x + 1 < rule \/ (x + 1 = rule /\ k <= i)
    BY <2>1, <1>1, <1>3
  <2>3. k < Len(p[l])
    BY <1>3
  <2>4. QED
    BY <2>2, <2>3 DEF Cleared
<1>4. QED
  BY <1>2, <1>3 DEF Cleared

LEMMA NothingClearedYet ==
  ASSUME NEW h, NEW p, NEW l, Len(p[l]) \in Nat
  PROVE  Cleared(h, p, l, 0, 1)
<1>1. \A x \in DOMAIN Pairs : ~(x + 1 < 1) /\ x + 1 # 1
  BY RuleNumbers
<1>2. QED
  BY <1>1 DEF Cleared

LEMMA PreOptimizeSafe ==
  ASSUME NEW p, Sound(heap, p, held), Cardinality(held) <= MaxHeld, NEW l \in Luts, PreOptimize(l)
  PROVE  HeapInv'
<1>1. /\ Live(heap, l) /\ held = {} /\ Consistent(StagesOf(heap, l)) /\ heap' = heap /\ held' = held
      /\ pass' = [lut |-> {l}, rule |-> 1, at |-> Nil, opt |-> FALSE]
  BY DEF PreOptimize, Alive, Live, Idle
<1>2. Len(p[l]) \in Nat
  BY PlacesAreChains DEF Sound
<1>3. 0 \in 0 .. Len(p[l]) /\ CellAt(p[l], 0) = Nil /\ 1 \in 1 .. 8
  BY <1>2 DEF CellAt
<1>4. Running(heap, p, held, pass', l, 0) /\ pass'.rule = 1
  BY <1>1, <1>3, PassMade
<1>5. Cleared(heap, p, l, 0, 1)
  BY <1>2, NothingClearedYet
<1>6. QED
  BY <1>1, <1>4, <1>5 DEF HeapInv

LEMMA WhereRulesBegin ==
  ASSUME NEW l, pass.lut = {l}, NEW r, NEW o
  PROVE  Begun(r, o) = [lut |-> {l}, rule |-> r, at |-> Nil, opt |-> o]
BY DEF Begun

LEMMA RuleReturnsSafe ==
  ASSUME NEW p, Sound(heap, p, held), Cardinality(held) <= MaxHeld,
         NEW l, NEW i, Running(heap, p, held, pass, l, i),
         NEW o \in BOOLEAN, RuleReturns(o), heap' = heap, held' = held,
         NEW r, NextTo(pass.rule, r), o \/ pass.rule >= 8 \/ pass.opt \/ Cleared(heap, p, l, 0, r)
  PROVE  HeapInv'
<1>0. pass.lut = {l}
  BY PassFields
<1>1. /\ l \in Luts /\ Live(heap, l) /\ held = {} /\ Consistent(StagesOf(heap, l))
      /\ pass.rule \in 1 .. 8 /\ pass.opt \in BOOLEAN
  BY PassFields
<1>2. Len(p[l]) \in Nat
  BY <1>1, PlacesAreChains DEF Sound
<1>3. 0 \in 0 .. Len(p[l]) /\ CellAt(p[l], 0) = Nil
  BY <1>2 DEF CellAt
<1>4. CASE o
  <2> DEFINE b == FALSE
  <2>1. pass' = Begun(1, b)
    <3>1. pass' = Begun(1, FALSE)
      BY <1>4 DEF RuleReturns
    <3>2. QED
      BY ONLY <3>1, Zenon DEF b
  <2>4. b \in BOOLEAN
    OBVIOUS
  <2> HIDE DEF b
  <2>2. Running(heap, p, held, pass', l, 0) /\ pass'.rule = 1
    <3>1. pass' = [lut |-> {l}, rule |-> 1, at |-> Nil, opt |-> b]
      BY <2>1, <1>0, WhereRulesBegin
    <3>2. 1 \in 1 .. 8
      OBVIOUS
    <3>3. QED
      BY <3>1, <3>2, <2>4, <1>1, <1>3, PassMade
  <2>3. Cleared(heap, p, l, 0, 1)
    BY <1>2, NothingClearedYet
  <2>5. QED
    BY <2>2, <2>3 DEF HeapInv
<1>5. CASE ~o /\ pass.rule < 8
  <2>1. r = pass.rule + 1 /\ r \in 1 .. 8
    BY <1>1, <1>5 DEF NextTo
  <2>2. pass' = [lut |-> {l}, rule |-> r, at |-> Nil, opt |-> pass.opt]
    <3>1. pass' = Begun(pass.rule + 1, pass.opt)
      BY <1>5, RuleNumbers DEF RuleReturns
    <3>2. QED
      BY <3>1, <2>1, <1>0, WhereRulesBegin
  <2>3. r \in 1 .. 8
    BY <2>1
  <2>4. Running(heap, p, held, pass', l, 0) /\ pass'.rule = r /\ pass'.opt = pass.opt
    BY <2>2, <2>3, <1>1, <1>3, PassMade
  <2>5. pass.opt \/ Cleared(heap, p, l, 0, r)
    BY <1>1, <1>5
  <2>6. QED
    BY <2>4, <2>5 DEF HeapInv
<1>6. CASE ~o /\ ~(pass.rule < 8)
  <2>1. pass' = Idle
    BY <1>6, RuleNumbers DEF RuleReturns
  <2>2. QED
    BY <2>1 DEF HeapInv, Resting
<1>7. QED
  BY <1>4, <1>5, <1>6


LEMMA RuleEndsSafe ==
  ASSUME NEW p, Sound(heap, p, held), Cardinality(held) <= MaxHeld,
         NEW l, NEW i, Running(heap, p, held, pass, l, i),
         pass.opt \/ Cleared(heap, p, l, i, pass.rule), RuleEnds
  PROVE  HeapInv'
<1> DEFINE rule == pass.rule
           r == rule + 1
<1>1. rule \in 1 .. 8 /\ pass.opt \in BOOLEAN
  BY PassFields
<1>2. i \in Nat /\ Len(p[l]) \in Nat /\ (Here = Nil <=> i = Len(p[l])) /\ (Following = Nil <=> i + 1 >= Len(p[l]))
  BY WherePassIs
<1>3. /\ RuleReturns(pass.opt) /\ heap' = heap /\ held' = held
      /\ (IF rule = 1 THEN Here ELSE Following) = Nil
  BY DEF RuleEnds, AtEnd
<1>4. (rule = 1 => i = Len(p[l])) /\ (rule # 1 => i + 1 >= Len(p[l]))
  BY <1>2, <1>3
<1>5. NextTo(rule, r)
  BY DEF NextTo
<1> HIDE DEF rule, r
<1>6. pass.opt \/ Cleared(heap, p, l, 0, r)
  <2>1. Cleared(heap, p, l, i, rule) => Cleared(heap, p, l, 0, r)
    BY <1>1, <1>2, <1>4, <1>5, EndClears
  <2>2. QED
    BY <2>1 DEF rule
<1>7. NextTo(pass.rule, r)
  BY <1>5 DEF rule
<1>8. QED
  BY <1>1, <1>3, <1>6, <1>7, RuleReturnsSafe

LEMMA MultiplyMatrixGivesUpSafe ==
  ASSUME NEW p, Sound(heap, p, held), Cardinality(held) <= MaxHeld,
         NEW l, NEW i, Running(heap, p, held, pass, l, i), MultiplyMatrixGivesUp
  PROVE  HeapInv'
<1> DEFINE o == FALSE
           r == pass.rule + 1
<1>1. pass.rule >= 8 /\ heap' = heap /\ held' = held
  BY RuleNumbers DEF MultiplyMatrixGivesUp
<1>2. RuleReturns(o) /\ o \in BOOLEAN
  BY Zenon DEF MultiplyMatrixGivesUp
<1>3. NextTo(pass.rule, r)
  BY DEF NextTo
<1> HIDE DEF o, r
<1>4. QED
  BY <1>1, <1>2, <1>3, RuleReturnsSafe

\* What PreOptimize looks for is not at its place.
LEMMA ClearsOneMore ==
  ASSUME NEW h, NEW p, NEW l, NEW i \in Nat, NEW rule \in 1 .. 8, Cleared(h, p, l, i, rule),
         NEW j, NextTo(i, j), NEW k, NextTo(j, k),
         rule = 1 => h.stage[p[l][j]].implements # "Identity",
         rule \in 2 .. 7 => <<h.stage[p[l][j]].implements, h.stage[p[l][k]].implements>> # Pairs[rule - 1]
  PROVE  Cleared(h, p, l, j, rule)
<1>1. j = i + 1 /\ k = j + 1
  BY DEF NextTo
<1>2. ASSUME NEW x \in 1 .. Len(p[l]), rule > 1 \/ x <= j
      PROVE  h.stage[p[l][x]].implements # "Identity"
  <2>1. CASE rule > 1 \/ x <= i
    BY <2>1 DEF Cleared
  <2>2. CASE rule = 1 /\ x = j
    BY <2>2
  <2>3. QED
    BY <2>1, <2>2, <1>1, <1>2
<1>3. ASSUME NEW x \in 1 .. Len(p[l]), NEW r \in DOMAIN Pairs, x < Len(p[l]),
             r + 1 < rule \/ (r + 1 = rule /\ x <= j)
      PROVE  <<h.stage[p[l][x]].implements, h.stage[p[l][x + 1]].implements>> # Pairs[r]
  <2>1. r \in 1 .. 6
    BY RuleNumbers
  <2>2. CASE r + 1 < rule \/ (r + 1 = rule /\ x <= i)
    BY <2>2, <1>3 DEF Cleared
  <2>3. CASE r + 1 = rule /\ x = j
    <3>1. rule \in 2 .. 7 /\ rule - 1 = r /\ x + 1 = k
      BY <2>1, <2>3, <1>1
    <3>2. QED
      BY <3>1, <2>3
  <2>4. QED
    BY <2>1, <2>2, <2>3, <1>1, <1>3
<1>4. QED
  BY <1>2, <1>3 DEF Cleared

\* Where the rules end, and what they do there.
LEMMA NotAtEnd ==
  ASSUME NEW p, Sound(heap, p, held), NEW l, NEW i, Running(heap, p, held, pass, l, i), ~AtEnd
  PROVE  i < Len(p[l]) /\ (pass.rule # 1 => i + 1 < Len(p[l]))
<1>1. i \in Nat /\ Len(p[l]) \in Nat /\ i <= Len(p[l]) /\ (Here = Nil <=> i = Len(p[l]))
      /\ (Following = Nil <=> i + 1 >= Len(p[l]))
  BY WherePassIs
<1>2. (IF pass.rule = 1 THEN Here ELSE Following) # Nil
  BY DEF AtEnd
<1>3. CASE pass.rule = 1
  BY <1>1, <1>2, <1>3
<1>4. CASE pass.rule # 1
  BY <1>1, <1>2, <1>4
<1>5. QED
  BY <1>3, <1>4


\* The stages the rule looks at.
LEMMA TheTwo ==
  ASSUME NEW p, Sound(heap, p, held), NEW l, NEW i, Running(heap, p, held, pass, l, i), ~AtEnd,
         NEW j, NextTo(i, j), NEW k, NextTo(j, k)
  PROVE  /\ i \in Nat /\ i \in 0 .. Len(p[l]) /\ j \in 1 .. Len(p[l]) /\ j \in 0 .. Len(p[l]) /\ Lut = l
         /\ Here = p[l][j] /\ Here = CellAt(p[l], j)
         /\ pass.rule # 1 => k \in 1 .. Len(p[l]) /\ Following = p[l][k]
<1>1. i < Len(p[l]) /\ (pass.rule # 1 => i + 1 < Len(p[l]))
  BY NotAtEnd
<1>2. /\ Lut = l /\ i \in Nat /\ Len(p[l]) \in Nat
      /\ i < Len(p[l]) => /\ i + 1 \in 1 .. Len(p[l]) /\ Here = p[l][i + 1] /\ Here = CellAt(p[l], i + 1)
      /\ i + 1 < Len(p[l]) => i + 2 \in 1 .. Len(p[l]) /\ Following = p[l][i + 2]
  BY WherePassIs
<1>3. j = i + 1
  BY DEF NextTo
<1>4. k = i + 2
  BY <1>2, <1>3 DEF NextTo
<1>5. i \in 0 .. Len(p[l]) /\ (i + 1 \in 1 .. Len(p[l]) => i + 1 \in 0 .. Len(p[l]))
  BY <1>1, <1>2
<1>6. QED
  BY <1>1, <1>2, <1>3, <1>4, <1>5

LEMMA WhatMatches ==
  ASSUME pass.rule \in 1 .. 8
  PROVE  /\ pass.rule = 1 => (Matches <=> heap.stage[Here].implements = "Identity")
         /\ pass.rule \in 2 .. 7 =>
              (Matches <=> <<heap.stage[Here].implements, heap.stage[Following].implements>> = Pairs[pass.rule - 1])
         /\ pass.rule = 8 => (Matches <=> /\ heap.stage[Here].implements = "Matrix"
                                          /\ heap.stage[Following].implements = "Matrix")
<1>1. LastRule = 8
  BY RuleNumbers
<1>2. CASE pass.rule = 1
  BY <1>1, <1>2 DEF Matches
<1>3. CASE pass.rule \in 2 .. 7
  BY <1>1, <1>3 DEF Matches
<1>4. CASE pass.rule = 8
  BY <1>1, <1>4 DEF Matches
<1>5. QED
  BY <1>2, <1>3, <1>4

\* The record while the rule goes on.
LEMMA PassGoesOn ==
  ASSUME NEW ps, NEW l, NEW at, NEW rule, NEW o, ps = [lut |-> {l}, rule |-> rule, at |-> at, opt |-> o], NEW c
  PROVE  [ps EXCEPT !.at = c] = [lut |-> {l}, rule |-> rule, at |-> c, opt |-> o]
OBVIOUS

LEMMA PassTells ==
  ASSUME NEW ps, NEW l, NEW at, NEW rule, NEW o, ps = [lut |-> {l}, rule |-> rule, at |-> at, opt |-> o], NEW c
  PROVE  [ps EXCEPT !.opt = c] = [lut |-> {l}, rule |-> rule, at |-> at, opt |-> c]
OBVIOUS

LEMMA RuleStays ==
  ASSUME NEW ps, NEW l, NEW at, NEW rule, NEW o, ps = [lut |-> {l}, rule |-> rule, at |-> at, opt |-> o], NEW c
  PROVE  [ps EXCEPT !.at = c].rule = rule /\ [ps EXCEPT !.opt = c].rule = rule
OBVIOUS

LEMMA StepOverSafe ==
  ASSUME NEW p, Sound(heap, p, held), Cardinality(held) <= MaxHeld,
         NEW l, NEW i, Running(heap, p, held, pass, l, i),
         pass.opt \/ Cleared(heap, p, l, i, pass.rule), StepOver
  PROVE  HeapInv'
<1> DEFINE j == i + 1
           k == j + 1
           rule == pass.rule
           o == pass.opt
           at == pass.at
           c == Here
<1>1. /\ l \in Luts /\ Live(heap, l) /\ held = {} /\ Consistent(StagesOf(heap, l))
      /\ rule \in 1 .. 8 /\ o \in BOOLEAN
  BY PassFields
<1>2. pass = [lut |-> {l}, rule |-> rule, at |-> at, opt |-> o]
  BY PassFields
<1>3. ~AtEnd /\ ~Matches /\ heap' = heap /\ held' = held /\ pass' = [pass EXCEPT !.at = c]
  BY DEF StepOver
<1>4. NextTo(i, j) /\ NextTo(j, k)
  BY DEF NextTo
<1>11. c = Here /\ rule = pass.rule /\ (o \/ Cleared(heap, p, l, i, rule))
  OBVIOUS
<1> HIDE DEF j, k, rule, o, at, c
<1>5. /\ i \in Nat /\ j \in 0 .. Len(p[l]) /\ c = p[l][j] /\ c = CellAt(p[l], j)
      /\ rule # 1 => Following = p[l][k]
  BY <1>3, <1>4, <1>11, TheTwo
<1>6. pass' = [lut |-> {l}, rule |-> rule, at |-> c, opt |-> o]
  <2> DEFINE ps == pass
  <2>1. ps = [lut |-> {l}, rule |-> rule, at |-> at, opt |-> o]
    BY <1>2
  <2>2. pass' = [ps EXCEPT !.at = c]
    BY <1>3
  <2> HIDE DEF ps
  <2>3. [ps EXCEPT !.at = c] = [lut |-> {l}, rule |-> rule, at |-> c, opt |-> o]
    BY <2>1, PassGoesOn
  <2>4. QED
    BY <2>2, <2>3, Zenon
<1>7. Running(heap, p, held, pass', l, j) /\ pass'.rule = rule /\ pass'.opt = o
  BY <1>1, <1>5, <1>6, PassMade
<1>8. o \/ Cleared(heap, p, l, j, rule)
  <2>1. rule = 1 => heap.stage[p[l][j]].implements # "Identity"
    BY <1>1, <1>3, <1>5, <1>11, WhatMatches
  <2>2. rule \in 2 .. 7 => <<heap.stage[p[l][j]].implements, heap.stage[p[l][k]].implements>> # Pairs[rule - 1]
    <3>1. rule \in 2 .. 7 => <<heap.stage[c].implements, heap.stage[Following].implements>> # Pairs[rule - 1]
      BY <1>1, <1>3, <1>11, WhatMatches
    <3>2. rule \in 2 .. 7 => c = p[l][j] /\ Following = p[l][k]
      BY <1>5
    <3>3. QED
      BY <3>1, <3>2
  <2>3. CASE Cleared(heap, p, l, i, rule)
    BY <2>1, <2>2, <2>3, <1>1, <1>4, <1>5, ClearsOneMore
  <2>4. QED
    BY <2>3, <1>11
<1>9. Sound(heap', p, held') /\ Cardinality(held') <= MaxHeld /\ Running(heap', p, held', pass', l, j)
      /\ (pass'.opt \/ Cleared(heap', p, l, j, pass'.rule))
  BY <1>3, <1>7, <1>8
<1>10. QED
  BY <1>9 DEF HeapInv

\* A rule took stages away.
Tells == pass' = [pass EXCEPT !.opt = TRUE]

LEMMA OptimisedSafe ==
  ASSUME NEW p, Sound(heap, p, held), Cardinality(held) <= MaxHeld,
         NEW l, NEW i, Running(heap, p, held, pass, l, i),
         NEW t, Optimised(heap', heap, p, held, l, i, t), held' = held, Tells
  PROVE  HeapInv'
<1> DEFINE rule == pass.rule
           o == pass.opt
           at == pass.at
           c == TRUE
           q == With(p, l, t)
<1>1. /\ l \in Luts /\ Live(heap, l) /\ held = {}
      /\ rule \in 1 .. 8 /\ at = CellAt(p[l], i)
  BY PassFields
<1>2. pass = [lut |-> {l}, rule |-> rule, at |-> at, opt |-> o]
  BY PassFields
<1>3. c \in BOOLEAN /\ c
  OBVIOUS
<1>4. pass' = [pass EXCEPT !.opt = c]
  BY Zenon DEF Tells
<1>5. p \in [Luts -> Seq(Cells)]
  BY DEF Sound, Owned
<1>6. /\ Sound(heap', q, held) /\ SameShell(heap', heap, l) /\ Consistent(StagesOf(heap', l))
      /\ t \in Seq(Cells) /\ i \in 0 .. Len(t) /\ CellAt(t, i) = CellAt(p[l], i)
  BY DEF Optimised
<1>7. q[l] = t
  BY <1>1, <1>5, <1>6, WithIs
<1> HIDE DEF rule, o, at, c, q
<1>8. pass' = [lut |-> {l}, rule |-> rule, at |-> at, opt |-> c]
  <2> DEFINE ps == pass
  <2>1. ps = [lut |-> {l}, rule |-> rule, at |-> at, opt |-> o]
    BY <1>2
  <2>2. pass' = [ps EXCEPT !.opt = c]
    BY <1>4
  <2> HIDE DEF ps
  <2>3. [ps EXCEPT !.opt = c] = [lut |-> {l}, rule |-> rule, at |-> at, opt |-> c]
    BY <2>1, PassTells
  <2>4. QED
    BY <2>2, <2>3, Zenon
<1>9. Live(heap', l)
  BY <1>1, <1>6 DEF Live, SameShell
<1>10. i \in 0 .. Len(q[l]) /\ at = CellAt(q[l], i)
  BY <1>1, <1>6, <1>7
<1>11. Running(heap', q, held, pass', l, i) /\ pass'.opt = c
  <2>1. i \in 0 .. Len(q[l]) /\ at = CellAt(q[l], i) /\ Consistent(StagesOf(heap', l)) /\ c \in BOOLEAN
        /\ l \in Luts /\ held = {} /\ rule \in 1 .. 8
    BY <1>1, <1>3, <1>6, <1>10
  <2>2. QED
    BY <2>1, <1>8, <1>9, PassMade
<1>12. Sound(heap', q, held') /\ Cardinality(held') <= MaxHeld /\ Running(heap', q, held', pass', l, i) /\ pass'.opt
  BY <1>3, <1>6, <1>11
<1>13. QED
  BY <1>12 DEF HeapInv

\* What the rules make of the stages e: an identity goes, a pair goes, or the
\* product of two matrices comes for them.
DropsIdentity(d, e, i) == IsCut(d, e, i, 1) /\ i + 1 <= Len(e) /\ e[i + 1].implements = "Identity"
DropsPair(d, e, i) ==
  /\ IsCut(d, e, i, 2) /\ i + 2 <= Len(e)
  /\ \E r \in DOMAIN Pairs : <<e[i + 1].implements, e[i + 2].implements>> = Pairs[r]
Multiplies(d, e, i) ==
  /\ ProductIsIn(d, e, i, MAT3per(e[i + 2].data.matrix, e[i + 1].data.matrix)) /\ i + 2 <= Len(e)
  /\ e[i + 1].implements = "Matrix" /\ Multipliable(e[i + 1])
  /\ e[i + 2].implements = "Matrix" /\ Multipliable(e[i + 2])

LEMMA Remove1OpDrops ==
  ASSUME NEW p, Sound(heap, p, held), NEW l, NEW i, Running(heap, p, held, pass, l, i), Remove1Op
  PROVE  /\ \E t : Optimised(heap', heap, p, held, l, i, t)
         /\ held' = held /\ Tells /\ DropsIdentity(StagesOf(heap', l), StagesOf(heap, l), i)
<1> DEFINE j == i + 1
           k == j + 1
           at == pass.at
           g == RemoveElement(heap, l, at)
<1>1. /\ l \in Luts /\ Live(heap, l) /\ Consistent(StagesOf(heap, l)) /\ pass.rule \in 1 .. 8 /\ at = CellAt(p[l], i)
  BY PassFields
<1>2. /\ pass.rule = 1 /\ ~AtEnd /\ Matches /\ heap' = RemoveElement(heap, Lut, at)
      /\ held' = held /\ Tells
  BY DEF Remove1Op, Tells
<1>3. NextTo(i, j) /\ NextTo(j, k)
  BY DEF NextTo
<1> HIDE DEF j, k, at
<1>4. i \in 0 .. Len(p[l]) /\ j \in 1 .. Len(p[l]) /\ Lut = l /\ Here = p[l][j]
  BY <1>2, <1>3, TheTwo
<1>5. heap.stage[p[l][j]].implements = "Identity"
  BY <1>1, <1>2, <1>4, WhatMatches
<1>6. heap' = g
  BY <1>2, <1>4
<1>7. /\ Optimised(g, heap, p, held, l, i, RemoveAt(p[l], j))
      /\ IsCut(StagesOf(g, l), StagesOf(heap, l), i, 1)
  BY <1>1, <1>3, <1>4, <1>5, IdentityIsRemoved
<1> HIDE DEF g
<1> DEFINE t == RemoveAt(p[l], j)
           e == StagesOf(heap, l)
<1>8. Optimised(heap', heap, p, held, l, i, t) /\ IsCut(StagesOf(heap', l), e, i, 1)
  BY <1>6, <1>7
<1>9. Len(e) = Len(p[l]) /\ Len(e) \in Nat /\ e[j] = heap.stage[p[l][j]] /\ e = StagesOf(heap, l)
  <2>1. Owned(heap, p, held)
    BY DEF Sound
  <2>2. QED
    BY <2>1, <1>1, <1>4, StagesAre
<1> HIDE DEF t, e
<1>10. j = i + 1 /\ i + 1 <= Len(e)
  BY <1>3, <1>4, <1>9 DEF NextTo
<1>11. DropsIdentity(StagesOf(heap', l), e, i)
  BY <1>5, <1>8, <1>9, <1>10 DEF DropsIdentity
<1>12. QED
  BY <1>2, <1>8, <1>9, <1>11

LEMMA Remove2OpDrops ==
  ASSUME NEW p, Sound(heap, p, held), NEW l, NEW i, Running(heap, p, held, pass, l, i), Remove2Op
  PROVE  /\ \E t : Optimised(heap', heap, p, held, l, i, t)
         /\ held' = held /\ Tells /\ DropsPair(StagesOf(heap', l), StagesOf(heap, l), i)
<1> DEFINE j == i + 1
           k == j + 1
           at == pass.at
           g == RemoveTwo(heap, l, at)
           t == CutTwo(p[l], j, k)
           a == heap.stage[p[l][j]]
           b == heap.stage[p[l][k]]
           r == pass.rule - 1
<1>1. /\ l \in Luts /\ Live(heap, l) /\ Consistent(StagesOf(heap, l)) /\ pass.rule \in 1 .. 8 /\ at = CellAt(p[l], i)
  BY PassFields
<1>2. /\ pass.rule \in 2 .. 7 /\ ~AtEnd /\ Matches /\ heap' = RemoveTwo(heap, Lut, at)
      /\ held' = held /\ Tells
  BY RuleNumbers DEF Remove2Op, Tells
<1>3. NextTo(i, j) /\ NextTo(j, k)
  BY DEF NextTo
<1>10. r \in DOMAIN Pairs /\ r = pass.rule - 1
  BY <1>2, RuleNumbers
<1> HIDE DEF j, k, at, r
<1>4. /\ i \in 0 .. Len(p[l]) /\ j \in 1 .. Len(p[l]) /\ Lut = l /\ Here = p[l][j]
      /\ k \in 1 .. Len(p[l]) /\ Following = p[l][k]
  <2>1. pass.rule # 1
    BY <1>2
  <2>2. QED
    BY <2>1, <1>2, <1>3, TheTwo
<1>5. <<a.implements, b.implements>> = Pairs[r]
  BY <1>1, <1>2, <1>4, <1>10, WhatMatches
<1>6. a \in Stages /\ b \in Stages
  <2>1. Owned(heap, p, held)
    BY DEF Sound
  <2>2. QED
    BY <2>1, <1>1, <1>4, StagesAre
<1>7. a.in = b.out
  <2> HIDE DEF a, b
  <2>1. QED
    BY <1>5, <1>6, <1>10, PairPasses
<1>8. Optimised(g, heap, p, held, l, i, t) /\ IsCut(StagesOf(g, l), StagesOf(heap, l), i, 2)
  <2>1. heap.stage[p[l][j]].in = heap.stage[p[l][k]].out
    BY <1>7
  <2> HIDE DEF a, b
  <2>2. QED
    BY <2>1, <1>1, <1>3, <1>4, TwoAreOptimised
<1>9. heap' = g
  BY <1>2, <1>4
<1> DEFINE e == StagesOf(heap, l)
<1>12. /\ Len(e) = Len(p[l]) /\ Len(e) \in Nat /\ e[j] = a /\ e[k] = b /\ e = StagesOf(heap, l)
  <2>1. Owned(heap, p, held)
    BY DEF Sound
  <2>2. QED
    BY <2>1, <1>1, <1>4, StagesAre
<1> HIDE DEF a, b, g, t, e
<1>11. Optimised(heap', heap, p, held, l, i, t) /\ IsCut(StagesOf(heap', l), e, i, 2)
  BY <1>8, <1>9, <1>12
<1>13. j = i + 1 /\ k = i + 2 /\ i + 2 <= Len(e)
  BY <1>3, <1>4, <1>12 DEF NextTo
<1>14. DropsPair(StagesOf(heap', l), e, i)
  BY <1>5, <1>10, <1>11, <1>12, <1>13 DEF DropsPair
<1>15. QED
  BY <1>2, <1>11, <1>12, <1>14

LEMMA MultiplyMatrixMultiplies ==
  ASSUME NEW p, Sound(heap, p, held), NEW l, NEW i, Running(heap, p, held, pass, l, i), MultiplyMatrix
  PROVE  /\ \E t : Optimised(heap', heap, p, held, l, i, t)
         /\ held' = held /\ Tells /\ Multiplies(StagesOf(heap', l), StagesOf(heap, l), i)
<1> DEFINE j == i + 1
           k == j + 1
           at == pass.at
           g == MultiplyTwo(heap, l, at)
<1>1. /\ l \in Luts /\ Live(heap, l) /\ Consistent(StagesOf(heap, l)) /\ pass.rule \in 1 .. 8 /\ at = CellAt(p[l], i)
  BY PassFields
<1>2. /\ pass.rule = 8 /\ ~AtEnd /\ Matches /\ heap' = MultiplyTwo(heap, Lut, at)
      /\ Multipliable(heap.stage[Here]) /\ Multipliable(heap.stage[Following])
      /\ held' = held /\ Tells
  BY RuleNumbers DEF MultiplyMatrix, BothMultipliable, Tells
<1>3. NextTo(i, j) /\ NextTo(j, k)
  BY DEF NextTo
<1> HIDE DEF j, k, at
<1>4. /\ i \in 0 .. Len(p[l]) /\ j \in 1 .. Len(p[l]) /\ Lut = l /\ Here = p[l][j]
      /\ k \in 1 .. Len(p[l]) /\ Following = p[l][k]
  <2>1. pass.rule # 1
    BY <1>2
  <2>2. QED
    BY <2>1, <1>2, <1>3, TheTwo
<1>5. /\ heap.stage[p[l][j]].implements = "Matrix" /\ Multipliable(heap.stage[p[l][j]])
      /\ heap.stage[p[l][k]].implements = "Matrix" /\ Multipliable(heap.stage[p[l][k]])
  <2>1. heap.stage[Here].implements = "Matrix" /\ heap.stage[Following].implements = "Matrix"
    BY <1>1, <1>2, WhatMatches
  <2>2. QED
    BY <2>1, <1>2, <1>4
<1> DEFINE e == StagesOf(heap, l)
<1>6. /\ \E t : Optimised(g, heap, p, held, l, i, t)
      /\ ProductIsIn(StagesOf(g, l), e, i,
                     MAT3per(heap.stage[p[l][k]].data.matrix, heap.stage[p[l][j]].data.matrix))
  BY <1>1, <1>3, <1>4, <1>5, MatricesAreMultiplied
<1>7. heap' = g
  BY <1>2, <1>4
<1>8. /\ Len(e) = Len(p[l]) /\ Len(e) \in Nat /\ e = StagesOf(heap, l)
      /\ e[j] = heap.stage[p[l][j]] /\ e[k] = heap.stage[p[l][k]]
  <2>1. Owned(heap, p, held)
    BY DEF Sound
  <2>2. QED
    BY <2>1, <1>1, <1>4, StagesAre
<1> HIDE DEF g, e
<1>9. j = i + 1 /\ k = i + 2 /\ i + 2 <= Len(e)
  BY <1>3, <1>4, <1>8 DEF NextTo
<1>10. Multiplies(StagesOf(heap', l), e, i)
  BY <1>5, <1>6, <1>7, <1>8, <1>9 DEF Multiplies
<1>11. QED
  BY <1>2, <1>6, <1>7, <1>8, <1>10

LEMMA OptimisingSafe ==
  ASSUME NEW p, Sound(heap, p, held), Cardinality(held) <= MaxHeld,
         NEW l, NEW i, Running(heap, p, held, pass, l, i), Remove1Op \/ Remove2Op \/ MultiplyMatrix
  PROVE  HeapInv'
<1>1. held' = held /\ Tells /\ \E t : Optimised(heap', heap, p, held, l, i, t)
  BY Remove1OpDrops, Remove2OpDrops, MultiplyMatrixMultiplies
<1>2. PICK t : Optimised(heap', heap, p, held, l, i, t)
  BY <1>1
<1>3. QED
  BY <1>1, <1>2, OptimisedSafe

\* Every step keeps the invariant.
LEMMA PreOptimizeStepSafe ==
  ASSUME NEW p, Sound(heap, p, held), Cardinality(held) <= MaxHeld,
         NEW l, NEW i, Running(heap, p, held, pass, l, i),
         pass.opt \/ Cleared(heap, p, l, i, pass.rule), PreOptimizeStep
  PROVE  HeapInv'
<1>1. CASE RuleEnds
  BY <1>1, RuleEndsSafe
<1>2. CASE StepOver
  BY <1>2, StepOverSafe
<1>3. CASE Remove1Op \/ Remove2Op \/ MultiplyMatrix
  BY <1>3, OptimisingSafe
<1>6. CASE MultiplyMatrixGivesUp
  BY <1>6, MultiplyMatrixGivesUpSafe
<1>7. QED
  BY <1>1, <1>2, <1>3, <1>6 DEF PreOptimizeStep

\* PreOptimize takes no step while nothing runs.
LEMMA RestingMakesNoStep ==
  ASSUME PreOptimizeStep
  PROVE  ~Resting
<1>1. pass.rule = 1 \/ pass.rule \in 2 .. 7 \/ pass.rule = 8 => ~Resting
  BY DEF Resting, Idle
<1>2. (RuleEnds => ~Resting) /\ (StepOver => ~Resting)
  BY DEF RuleEnds, StepOver
<1>3. Remove1Op => ~Resting
  BY <1>1 DEF Remove1Op
<1>4. Remove2Op => ~Resting
  <2>1. Remove2Op => pass.rule \in 2 .. 7
    BY RuleNumbers DEF Remove2Op
  <2>2. QED
    BY <2>1, <1>1
<1>5. MultiplyMatrix \/ MultiplyMatrixGivesUp => ~Resting
  <2>1. MultiplyMatrix \/ MultiplyMatrixGivesUp => pass.rule = 8
    BY RuleNumbers DEF MultiplyMatrix, MultiplyMatrixGivesUp
  <2>2. QED
    BY <2>1, <1>1
<1>6. QED
  BY <1>2, <1>3, <1>4, <1>5 DEF PreOptimizeStep

LEMMA HeapInvIsKept ==
  ASSUME HeapInv, [Next]_vars
  PROVE  HeapInv'
<1>1. PICK p : /\ Sound(heap, p, held) /\ Cardinality(held) <= MaxHeld
               /\ Resting \/ \E l, i : /\ Running(heap, p, held, pass, l, i)
                                       /\ pass.opt \/ Cleared(heap, p, l, i, pass.rule)
  BY DEF HeapInv
<1>2. Sound(heap, p, held) /\ Cardinality(held) <= MaxHeld
  BY <1>1
<1>3. CASE UNCHANGED vars
  BY <1>3 DEF vars, HeapInv, Resting
<1>4. CASE \E k \in DOMAIN Kinds : AllocStage(Kinds[k])
  BY <1>2, <1>4, AllocStageSafe
<1>5. CASE \E c \in held : FreeHeld(c) \/ \E l \in Luts : PipelineInsertStage(l, c)
  BY <1>2, <1>5, FreeHeldSafe, PipelineInsertStageSafe
<1>6. CASE \E l \in Luts : PipelineFree(l) \/ PipelineUnlinkStage(l) \/ PreOptimize(l)
  BY <1>2, <1>6, PipelineFreeSafe, PipelineUnlinkStageSafe, PreOptimizeSafe
<1>7. CASE \E l \in Luts, w \in Widths : PipelineAllocate(l, w)
  BY <1>2, <1>7, PipelineAllocateSafe
<1>8. CASE \E l, m \in Luts : PipelineDuplicate(l, m) \/ CatPipelines(l, m)
  BY <1>2, <1>8, PipelineDuplicateSafe, CatPipelinesSafe
<1>9. CASE PreOptimizeStep
  <2>1. ~Resting
    BY <1>9, RestingMakesNoStep
  <2>2. PICK l, i : /\ Running(heap, p, held, pass, l, i)
                    /\ pass.opt \/ Cleared(heap, p, l, i, pass.rule)
    BY <2>1, <1>1
  <2>3. QED
    BY <2>2, <1>2, <1>9, PreOptimizeStepSafe
<1>10. QED
  BY <1>3, <1>4, <1>5, <1>6, <1>7, <1>8, <1>9 DEF Next


LEMMA HeapInvHolds == Spec => []HeapInv
<1>1. HeapInv /\ [Next]_vars => HeapInv'
  BY HeapInvIsKept
<1>2. QED
  BY <1>1, StartsSound, PTL DEF Spec

----------------------------------------------------------------------------
(* What follows from the invariant.                                        *)

LEMMA HeapIsTyped == HeapInv => TypeOK
<1> SUFFICES ASSUME HeapInv PROVE TypeOK
  OBVIOUS
<1>1. PICK p : /\ Sound(heap, p, held) /\ Cardinality(held) <= MaxHeld
               /\ Resting \/ \E l, i : /\ Running(heap, p, held, pass, l, i)
                                       /\ pass.opt \/ Cleared(heap, p, l, i, pass.rule)
  BY DEF HeapInv
<1>2. Owned(heap, p, held)
  BY <1>1 DEF Sound
<1>3. DOMAIN heap.stage = Cells /\ heap.next \in [Cells -> Cells \cup {Nil}]
  BY <1>2 DEF Owned, Heaps
<1>4. held \subseteq Cells \ FreeCells(heap)
  BY <1>2 DEF Owned, FreeCells
<1>5. \A l \in Luts : heap.lut[l].head \in Cells \cup {Nil}
  BY <1>2 DEF Owned, Heaps, LutsAre
<1>6. pass.rule \in 0 .. LastRule /\ pass.lut \subseteq Alive
  <2>1. CASE Resting
    <3>1. pass.rule = 0 /\ pass.lut = {}
      BY <2>1 DEF Resting, Idle
    <3>2. QED
      BY <3>1, RuleNumbers
  <2>2. CASE ~Resting
    <3>1. PICK l, i : Running(heap, p, held, pass, l, i)
      BY <1>1, <2>2
    <3>2. pass.rule \in 1 .. 8 /\ pass.lut = {l} /\ l \in Luts /\ Live(heap, l)
      BY <3>1, PassFields
    <3>3. QED
      BY <3>2, RuleNumbers DEF Alive, Live
  <2>3. QED
    BY <2>1, <2>2
<1>7. QED
  BY <1>1, <1>3, <1>4, <1>5, <1>6 DEF TypeOK

LEMMA HeapIsOwned == HeapInv => EveryStageHasOneOwner
<1> SUFFICES ASSUME HeapInv PROVE EveryStageHasOneOwner
  OBVIOUS
<1>1. PICK p : Sound(heap, p, held)
  BY DEF HeapInv
<1>2. Owned(heap, p, held)
  BY <1>1 DEF Sound
<1> DEFINE places == [l \in Luts |-> CellsOf(heap, l)]
<1>3. \A l \in Luts : /\ places[l] = p[l] /\ p[l] \in Seq(Cells) /\ Linked(heap.next, heap.lut[l].head, p[l])
                      /\ Len(p[l]) \in Nat /\ DOMAIN p[l] = 1 .. Len(p[l])
  BY <1>2, PlacesAreChains
<1>4. \A l \in Luts : \A k \in 1 .. Len(p[l]) :
        /\ p[l][k] \notin held /\ heap.stage[p[l][k]] # NoStage
        /\ \A m \in Luts \ {l} : \A j \in 1 .. Len(p[m]) : p[m][j] # p[l][k]
  BY <1>2 DEF Owned
<1> HIDE DEF places
<1>5. ASSUME NEW l \in Luts
      PROVE  /\ IsInjective(places[l])
             /\ places[l] # <<>> => heap.next[Last(places[l])] = Nil
             /\ ToSet(places[l]) \cap (held \cup FreeCells(heap)) = {}
  <2>1. /\ places[l] = p[l] /\ p[l] \in Seq(Cells) /\ Linked(heap.next, heap.lut[l].head, p[l])
        /\ Len(p[l]) \in Nat /\ DOMAIN p[l] = 1 .. Len(p[l])
    BY <1>3
  <2>2. IsInjective(p[l])
    BY <2>1 DEF IsInjective, Linked
  <2>3. p[l] # <<>> => heap.next[Last(p[l])] = Nil
    <3>1. ASSUME p[l] # <<>> PROVE Len(p[l]) \in 1 .. Len(p[l])
      BY <3>1, <2>1
    <3>2. QED
      BY <3>1, <2>1 DEF Last, Linked
  <2>4. ToSet(p[l]) \cap (held \cup FreeCells(heap)) = {}
    BY <2>1, <1>4 DEF ToSet, FreeCells
  <2>5. QED
    BY <2>1, <2>2, <2>3, <2>4
<1>6. ASSUME NEW l \in Luts, NEW m \in Luts, l # m PROVE ToSet(places[l]) \cap ToSet(places[m]) = {}
  <2>1. places[l] = p[l] /\ places[m] = p[m] /\ DOMAIN p[l] = 1 .. Len(p[l]) /\ DOMAIN p[m] = 1 .. Len(p[m])
    BY <1>3
  <2>2. ToSet(p[l]) \cap ToSet(p[m]) = {}
    BY <2>1, <1>4, <1>6 DEF ToSet
  <2>3. QED
    BY <2>1, <2>2
<1>7. \A c \in held : heap.next[c] = Nil
  BY <1>2 DEF Owned
<1>8. QED
  BY <1>5, <1>6, <1>7, HeapIsTyped DEF EveryStageHasOneOwner, places

\* No stage is in two places, and no chain holds a freed one: whatever the
\* operations of cmslut.go do to the pointers, and PreOptimize with them, each
\* stage is once in one pipeline, in the caller's hands, or gone.
THEOREM EveryStageHasOneOwnerAlways == Spec => []EveryStageHasOneOwner
<1>1. HeapInv => EveryStageHasOneOwner
  BY HeapIsOwned
<1>2. QED
  BY <1>1, HeapInvHolds, PTL

LEMMA ChannelsFollow == HeapInv => ChannelsAreTheEnds
<1> SUFFICES ASSUME HeapInv, NEW l \in Luts, NEW s, s = StagesOf(heap, l), s # <<>>
             PROVE  heap.lut[l].in = Head(s).in /\ heap.lut[l].out = Last(s).out
  BY DEF ChannelsAreTheEnds
<1>1. PICK p : Sound(heap, p, held)
  BY DEF HeapInv
<1>2. Owned(heap, p, held) /\ EndsAre(heap, p, l)
  BY <1>1 DEF Sound
<1>3. s \in Seq(StagesOrNone) /\ heap.lut[l].in = s[1].in /\ heap.lut[l].out = s[Len(s)].out
  BY <1>2, StagesAre
<1>4. Head(s) = s[1] /\ Last(s) = s[Len(s)]
  BY <1>3 DEF Last
<1>5. QED
  BY <1>3, <1>4

\* A pipeline's InputChannels and OutputChannels are those of its first and
\* last stage, also while PreOptimize, which never sets them, takes stages
\* away.
THEOREM ChannelsAreTheEndsAlways == Spec => []ChannelsAreTheEnds
<1>1. HeapInv => ChannelsAreTheEnds
  BY ChannelsFollow
<1>2. QED
  BY <1>1, HeapInvHolds, PTL

\* A rule that returns to the caller is the last, and told nothing.
LEMMA LastReturn ==
  ASSUME HeapInv, ~Resting, [Next]_vars, pass'.rule = 0
  PROVE  \/ MultiplyMatrixGivesUp /\ UNCHANGED heap
         \/ RuleEnds /\ ~pass.opt /\ pass.rule = 8 /\ UNCHANGED heap
<1>0. PICK p, l, i : Running(heap, p, held, pass, l, i)
  BY DEF HeapInv
<1>1. pass.rule \in 1 .. 8 /\ pass.opt \in BOOLEAN
  BY <1>0, PassFields
<1>2. PreOptimizeStep \/ UNCHANGED vars
  BY DEF Next, AllocStage, FreeHeld, PipelineInsertStage, PipelineFree, PipelineUnlinkStage, PreOptimize,
         PipelineAllocate, PipelineDuplicate, CatPipelines
<1>3. ~UNCHANGED vars
  BY <1>1 DEF vars
<1>4. ASSUME NEW c, pass' = [pass EXCEPT !.at = c] \/ pass' = [pass EXCEPT !.opt = c] PROVE FALSE
  <2> DEFINE ps == pass
             rule == pass.rule
             at == pass.at
             o == pass.opt
  <2>1. ps = [lut |-> {l}, rule |-> rule, at |-> at, opt |-> o]
    BY <1>0, PassFields
  <2>2. rule # 0 /\ (pass' = [ps EXCEPT !.at = c] \/ pass' = [ps EXCEPT !.opt = c])
    BY <1>1, <1>4
  <2> HIDE DEF ps, rule, at, o
  <2>3. [ps EXCEPT !.at = c].rule = rule /\ [ps EXCEPT !.opt = c].rule = rule
    BY <2>1, RuleStays
  <2>4. pass'.rule = rule
    BY <2>2, <2>3, Zenon
  <2>5. QED
    BY <2>2, <2>4
<1>5. ~StepOver
  BY <1>4 DEF StepOver
<1>6. ~Remove1Op /\ ~Remove2Op /\ ~MultiplyMatrix
  BY <1>4 DEF Remove1Op, Remove2Op, MultiplyMatrix
<1>7. CASE MultiplyMatrixGivesUp
  BY <1>7 DEF MultiplyMatrixGivesUp
<1>8. CASE RuleEnds
  <2>1. RuleReturns(pass.opt) /\ heap' = heap
    BY <1>8 DEF RuleEnds
  <2>2. ~pass.opt
    BY <2>1 DEF RuleReturns, Begun
  <2>3. ~(pass.rule < 8)
    BY <2>1, <2>2, <1>1, RuleNumbers DEF RuleReturns, Begun
  <2>4. QED
    BY <2>1, <2>2, <2>3, <1>1, <1>8
<1>9. QED
  BY <1>2, <1>3, <1>5, <1>6, <1>7, <1>8 DEF PreOptimizeStep


\* A pipeline in which no rule found anything.
LEMMA NothingLeft ==
  ASSUME NEW p, Sound(heap, p, held), NEW l \in Luts, NEW i, Cleared(heap, p, l, i, 8)
  PROVE  Irreducible(StagesOf(heap, l))
<1> DEFINE s == StagesOf(heap, l)
           n == Len(p[l])
<1>1. Owned(heap, p, held)
  BY DEF Sound
<1>2. n \in Nat /\ DOMAIN s = 1 .. n /\ Len(s) = n
  <2>1. StagesOf(heap, l) = [k \in 1 .. Len(p[l]) |-> heap.stage[p[l][k]]] /\ Len(StagesOf(heap, l)) = Len(p[l])
        /\ Len(p[l]) \in Nat
    BY <1>1, PlacesAreChains
  <2>2. QED
    BY <2>1
<1>3. \A k \in 1 .. n : s[k] = heap.stage[p[l][k]]
  BY <1>1, StagesAre
<1> HIDE DEF s
<1>4. ASSUME NEW k \in 1 .. n PROVE s[k].implements # "Identity"
  BY <1>3 DEF Cleared
<1>5. ASSUME NEW k \in 1 .. n - 1 PROVE <<s[k].implements, s[k + 1].implements>> \notin ToSet(Pairs)
  <2>1. k \in 1 .. n /\ k + 1 \in 1 .. n /\ k < n
    BY <1>2
  <2>2. \A r \in DOMAIN Pairs : r + 1 < 8
    BY RuleNumbers
  <2>3. \A r \in DOMAIN Pairs :
          <<heap.stage[p[l][k]].implements, heap.stage[p[l][k + 1]].implements>> # Pairs[r]
    BY <2>1, <2>2 DEF Cleared
  <2>4. s[k] = heap.stage[p[l][k]] /\ s[k + 1] = heap.stage[p[l][k + 1]]
    BY <2>1, <1>3
  <2>5. \A r \in DOMAIN Pairs : <<s[k].implements, s[k + 1].implements>> # Pairs[r]
    BY <2>3, <2>4
  <2>6. QED
    BY <2>5 DEF ToSet
<1>6. Irreducible(s)
  BY <1>2, <1>4, <1>5 DEF Irreducible
<1>7. QED
  BY <1>6 DEF s

LEMMA LastReturnLeavesNothing ==
  ASSUME HeapInv, ~Resting, [Next]_vars, pass'.rule = 0
  PROVE  \/ pass.opt /\ MultiplyMatrixGivesUp
         \/ Irreducible(StagesOf(heap', Lut))
<1>1. PICK p : /\ Sound(heap, p, held) /\ Cardinality(held) <= MaxHeld
               /\ Resting \/ \E l, i : /\ Running(heap, p, held, pass, l, i)
                                       /\ pass.opt \/ Cleared(heap, p, l, i, pass.rule)
  BY DEF HeapInv
<1>2. PICK l, i : /\ Running(heap, p, held, pass, l, i)
                  /\ pass.opt \/ Cleared(heap, p, l, i, pass.rule)
  BY <1>1
<1>3. l \in Luts /\ Lut = l
  BY <1>1, <1>2, WherePassIs, PassFields
<1>4. \/ MultiplyMatrixGivesUp /\ heap' = heap
      \/ RuleEnds /\ ~pass.opt /\ pass.rule = 8 /\ heap' = heap
  BY LastReturn
<1>5. pass.rule = 8
  BY <1>4, RuleNumbers DEF MultiplyMatrixGivesUp
<1>6. CASE ~pass.opt
  <2>1. Cleared(heap, p, l, i, 8)
    BY <1>2, <1>5, <1>6
  <2>2. Irreducible(StagesOf(heap, l))
    BY <2>1, <1>1, <1>3, NothingLeft
  <2>3. QED
    BY <2>2, <1>3, <1>4
<1>7. QED
  BY <1>4, <1>6

\* The last round of PreOptimize has seen every stage and every two in a row,
\* and none of them changed since.
THEOREM NothingIsLeftToRemove == Spec => NothingLeftToRemove
<1>1. HeapInv /\ [Next]_vars =>
        [~Resting /\ pass'.rule = 0 =>
           \/ pass.opt /\ MultiplyMatrixGivesUp
           \/ Irreducible(StagesOf(heap', Lut))]_vars
  BY LastReturnLeavesNothing
<1>2. QED
  BY <1>1, HeapInvHolds, PTL DEF Spec, NothingLeftToRemove

----------------------------------------------------------------------------
(* The pipelines as sequences.                                             *)

\* A live pipeline with these channels and stages.
AnyList(i, o, e, x, y) == [in |-> i, out |-> o, elements |-> e, saveAs8 |-> x, nil |-> y]
No == FALSE
LiveList(i, o, e) == AnyList(i, o, e, No, No)

\* What AsList and InHand say of a heap h, the caller holding the stages of H.
ListOf(h, l) ==
  IF h.lut[l].nil THEN NoPipeline ELSE LiveList(h.lut[l].in, h.lut[l].out, StagesOf(h, l))
ListsOf(h) == [l \in Luts |-> ListOf(h, l)]
HandOf(h, H) == [c \in Cells |-> IF c \in H THEN h.stage[c] ELSE NoStage]

\* What the refinement maps the pipelines and the stages in hand to.
LEMMA MappedNow == /\ [l \in Luts |-> AsList(l)] = ListsOf(heap)
                   /\ [c \in Cells |-> InHand(c)] = HandOf(heap, held)
BY DEF ListsOf, ListOf, LiveList, AnyList, No, HandOf, AsList, InHand

\* And in the next state.
LEMMA MappedNext == /\ [l \in Luts |-> AsList(l)]' = ListsOf(heap')
                    /\ [c \in Cells |-> InHand(c)]' = HandOf(heap', held')
BY DEF ListsOf, ListOf, LiveList, AnyList, No, HandOf, AsList, InHand, StagesOf, CellsOf

\* The operators the abstract module has from Pipelines are those of this one.
LEMMA SameNone == Lists!NoStage = NoStage /\ Lists!NoPipeline = NoPipeline
BY DEF Lists!NoStage, NoStage, Lists!NoPipeline, NoPipeline

\* BlessLUT and what it rests on are the same operators on both sides.
LEMMA SameBlessed == \A x : Lists!Blessed(x) = Blessed(x)
BY DEF Lists!Blessed, Blessed, Lists!Last, Last

LEMMA SameConsistent == \A e : Lists!Consistent(e) = Consistent(e)
BY DEF Lists!Consistent, Consistent

LEMMA SameInsertions ==
  \A x, s : /\ Lists!InsertAtBegin(x, s) = InsertAtBegin(x, s)
            /\ Lists!InsertAtEnd(x, s) = InsertAtEnd(x, s)
BY SameNone, SameBlessed, SameConsistent
   DEF Lists!InsertAtBegin, InsertAtBegin, Lists!InsertAtEnd, InsertAtEnd, Lists!Done, Done

LEMMA SameUnlinks ==
  /\ \A x : Lists!UnlinkFirst(x) = UnlinkFirst(x) /\ Lists!UnlinkLast(x) = UnlinkLast(x)
  /\ \A e : Lists!Last(e) = Last(e)
BY SameBlessed DEF Lists!UnlinkFirst, UnlinkFirst, Lists!UnlinkLast, UnlinkLast,
                   Lists!Front, Front, Lists!Last, Last

LEMMA SameAlloc == \A i, o : Lists!PipelineAlloc(i, o) = PipelineAlloc(i, o)
BY SameNone DEF Lists!PipelineAlloc, PipelineAlloc, Lists!MaxChannels, MaxChannels

----------------------------------------------------------------------------
\* The fields of a pipeline, one of them changed.
LEMMA ListFields ==
  ASSUME NEW i, NEW o, NEW e, NEW x, NEW y, NEW d
  PROVE  /\ AnyList(i, o, e, x, y).in = i /\ AnyList(i, o, e, x, y).out = o
         /\ AnyList(i, o, e, x, y).elements = e /\ AnyList(i, o, e, x, y).nil = y
         /\ [AnyList(i, o, e, x, y) EXCEPT !.elements = d] = AnyList(i, o, d, x, y)
         /\ [AnyList(i, o, e, x, y) EXCEPT !.in = d] = AnyList(d, o, e, x, y)
         /\ [AnyList(i, o, e, x, y) EXCEPT !.out = d] = AnyList(i, d, e, x, y)
BY DEF AnyList

\* A live pipeline is its channels and its stages in order, the freed one has neither.
LEMMA NilOf ==
  ASSUME NEW h, h \in Heaps, NEW l \in Luts
  PROVE  /\ ListsOf(h)[l] = ListOf(h, l)
         /\ ListOf(h, l).nil = h.lut[l].nil
         /\ Live(h, l) => ListOf(h, l) = LiveList(h.lut[l].in, h.lut[l].out, StagesOf(h, l))
         /\ ~Live(h, l) => ListOf(h, l) = NoPipeline
<1>1. h.lut[l].nil \in BOOLEAN
  BY DEF Heaps, LutsAre
<1>2. NoPipeline.nil = TRUE /\ LiveList(h.lut[l].in, h.lut[l].out, StagesOf(h, l)).nil = No
  <2>1. LiveList(h.lut[l].in, h.lut[l].out, StagesOf(h, l)).nil = No
    BY ListFields DEF LiveList
  <2>2. QED
    BY <2>1 DEF NoPipeline, No
<1>3. QED
  BY <1>1, <1>2 DEF ListsOf, ListOf, Live, No

\* The fields of a live pipeline, with other stages, and blessed.
LEMMA FieldsOf ==
  ASSUME NEW i, NEW o, NEW e, NEW d
  PROVE  /\ LiveList(i, o, e).elements = e /\ LiveList(i, o, e).in = i /\ LiveList(i, o, e).out = o
         /\ LiveList(i, o, e).nil = No
         /\ [LiveList(i, o, e) EXCEPT !.elements = d] = LiveList(i, o, d)
         /\ Blessed(LiveList(i, o, e)) =
              IF e = <<>> THEN LiveList(i, o, e) ELSE LiveList(Head(e).in, Last(e).out, e)
<1>1. [LiveList(i, o, e) EXCEPT !.elements = d] = LiveList(i, o, d)
  BY ListFields DEF LiveList
<1>2. LiveList(i, o, e).elements = e /\ LiveList(i, o, e).in = i /\ LiveList(i, o, e).out = o
      /\ LiveList(i, o, e).nil = No
  BY ListFields DEF LiveList
<1>3. ASSUME NEW a, NEW b PROVE [LiveList(i, o, e) EXCEPT !.in = a, !.out = b] = LiveList(a, b, e)
  <2>1. [LiveList(i, o, e) EXCEPT !.in = a] = LiveList(a, o, e)
    BY ListFields DEF LiveList
  <2>2. [LiveList(a, o, e) EXCEPT !.out = b] = LiveList(a, b, e)
    BY ListFields DEF LiveList
  <2> HIDE DEF LiveList
  <2>3. QED
    BY <2>1, <2>2
<1>4. QED
  BY <1>1, <1>2, <1>3 DEF Blessed

\* Only pipeline l has changed.
LEMMA OneListChanges ==
  ASSUME NEW h, NEW p, NEW H, Owned(h, p, H), NEW l \in Luts,
         NEW g, NEW t, NEW G, Owned(g, With(p, l, t), G), SameElsewhere(g, h, p, l)
  PROVE  ListsOf(g) = [ListsOf(h) EXCEPT ![l] = ListOf(g, l)]
<1> DEFINE q == With(p, l, t)
<1>1. \A m \in Luts \ {l} : q[m] = p[m]
  BY DEF With, Owned
<1>2. Owned(g, q, G)
  OBVIOUS
<1> HIDE DEF q
<1>3. ASSUME NEW m \in Luts \ {l} PROVE ListOf(g, m) = ListOf(h, m)
  <2>1. StagesOf(h, m) = [k \in 1 .. Len(p[m]) |-> h.stage[p[m][k]]]
    BY PlacesAreChains
  <2>2. StagesOf(g, m) = [k \in 1 .. Len(q[m]) |-> g.stage[q[m][k]]]
    BY <1>2, PlacesAreChains
  <2>3. g.lut[m] = h.lut[m] /\ \A k \in 1 .. Len(p[m]) : g.stage[p[m][k]] = h.stage[p[m][k]]
    BY DEF SameElsewhere
  <2>4. StagesOf(g, m) = StagesOf(h, m)
    BY <2>1, <2>2, <2>3, <1>1
  <2>5. QED
    BY <2>3, <2>4 DEF ListOf
<1>4. QED
  BY <1>3 DEF ListsOf

\* Nothing but the pipelines' stages in hand: the pipelines stay.
LEMMA NoListChanges ==
  ASSUME NEW h, NEW p, NEW H, Owned(h, p, H), NEW g, NEW G, Owned(g, p, G), g.lut = h.lut,
         \A l \in Luts : \A k \in 1 .. Len(p[l]) : g.stage[p[l][k]] = h.stage[p[l][k]]
  PROVE  ListsOf(g) = ListsOf(h)
<1>3. ASSUME NEW m \in Luts PROVE ListOf(g, m) = ListOf(h, m)
  <2>1. StagesOf(h, m) = [k \in 1 .. Len(p[m]) |-> h.stage[p[m][k]]]
    BY PlacesAreChains
  <2>2. StagesOf(g, m) = [k \in 1 .. Len(p[m]) |-> g.stage[p[m][k]]]
    BY PlacesAreChains
  <2>4. StagesOf(g, m) = StagesOf(h, m)
    BY <2>1, <2>2
  <2>5. QED
    BY <2>4 DEF ListOf
<1>4. QED
  BY <1>3 DEF ListsOf

\* The list of a sound pipeline is blessed.
LEMMA ListIsBlessed ==
  ASSUME NEW h, NEW p, NEW H, Owned(h, p, H), NEW l \in Luts, Live(h, l), EndsAre(h, p, l),
         NEW i, NEW o, p[l] = <<>> => h.lut[l].in = i /\ h.lut[l].out = o
  PROVE  ListOf(h, l) = Blessed(LiveList(i, o, StagesOf(h, l)))
<1> DEFINE e == StagesOf(h, l)
<1>1. /\ e \in Seq(StagesOrNone) /\ (e = <<>> <=> p[l] = <<>>)
      /\ (e # <<>> => h.lut[l].in = e[1].in /\ h.lut[l].out = e[Len(e)].out)
  BY StagesAre
<1>2. ListOf(h, l) = LiveList(h.lut[l].in, h.lut[l].out, e)
  BY DEF ListOf, Live
<1> HIDE DEF e
<1>5. e = StagesOf(h, l)
  BY DEF e
<1>3. CASE e = <<>>
  BY <1>1, <1>2, <1>3, <1>5, FieldsOf
<1>4. CASE e # <<>>
  <2>1. Head(e) = e[1] /\ Last(e) = e[Len(e)]
    BY <1>1, <1>4 DEF Last
  <2>2. Blessed(LiveList(i, o, e)) = LiveList(Head(e).in, Last(e).out, e)
    BY <1>4, FieldsOf
  <2>3. QED
    BY <2>1, <2>2, <1>1, <1>2, <1>4, <1>5
<1>6. QED
  BY <1>3, <1>4

\* A pipeline that was relinked as t and blessed is the one with the stages of t, blessed.
LEMMA NowIs ==
  ASSUME NEW h, NEW p, NEW H, Owned(h, p, H), NEW l \in Luts, Live(h, l), NEW t \in Seq(Cells), NEW G, NEW g,
         IsNow(h, g, p, l, t, G)
  PROVE  ListOf(g, l) = Blessed([ListOf(h, l) EXCEPT !.elements = StagesOf(g, l)])
<1> DEFINE q == With(p, l, t)
           i == h.lut[l].in
           o == h.lut[l].out
<1>1. q[l] = t
  BY DEF With, Owned
<1>2. /\ Owned(g, q, G) /\ g.lut[l].nil = h.lut[l].nil /\ EndsAre(g, q, l)
      /\ (t = <<>> => g.lut[l].in = i /\ g.lut[l].out = o)
  BY DEF IsNow
<1> HIDE DEF q
<1>3. Live(g, l) /\ (q[l] = <<>> => g.lut[l].in = i /\ g.lut[l].out = o)
  BY <1>1, <1>2 DEF Live
<1>4. ListOf(h, l) = LiveList(i, o, StagesOf(h, l))
  BY DEF ListOf, Live
<1> HIDE DEF i, o
<1>5. ListOf(g, l) = Blessed(LiveList(i, o, StagesOf(g, l)))
  BY <1>2, <1>3, ListIsBlessed
<1>6. QED
  BY <1>4, <1>5, FieldsOf

\* The stages at these places are as they were.
StaysIn(g, h, s) == \A k \in 1 .. Len(s) : g.stage[s[k]] = h.stage[s[k]]

\* The stages of pipeline l, now that it is linked as t.
LEMMA StagesNow ==
  ASSUME NEW p \in Chains, NEW l \in Luts, NEW t \in Seq(Cells), NEW g, NEW G, Owned(g, With(p, l, t), G),
         NEW d, d = StagesOf(g, l)
  PROVE  /\ d \in Seq(StagesOrNone) /\ Len(d) = Len(t) /\ Len(d) \in Nat
         /\ \A k \in 1 .. Len(t) : d[k] = g.stage[t[k]] /\ d[k] \in Stages
<1> DEFINE q == With(p, l, t)
<1>1. q[l] = t
  BY WithIs DEF Chains
<1>2. Owned(g, q, G)
  OBVIOUS
<1> HIDE DEF q
<1>3. QED
  BY <1>1, <1>2, StagesAre

\* A stage linked before a chain is the first of its stages.
LEMMA OneBeforeThem ==
  ASSUME NEW h, NEW p, NEW H, Owned(h, p, H), NEW l \in Luts, NEW c \in Cells, h.stage[c] \in StagesOrNone,
         NEW t, IsInserted(t, p[l], 0, c), NEW g, NEW G, Owned(g, With(p, l, t), G), g.stage = h.stage
  PROVE  StagesOf(g, l) = <<h.stage[c]>> \o StagesOf(h, l)
<1> DEFINE e == StagesOf(h, l)
           d == StagesOf(g, l)
           s == h.stage[c]
<1>1. /\ e \in Seq(StagesOrNone) /\ Len(e) = Len(p[l]) /\ Len(e) \in Nat
      /\ \A k \in 1 .. Len(p[l]) : e[k] = h.stage[p[l][k]]
  BY StagesAre
<1>2. /\ t \in Seq(Cells) /\ Len(t) = Len(p[l]) + 1
      /\ \A k \in 1 .. Len(t) : t[k] = IF k <= 0 THEN p[l][k] ELSE IF k = 0 + 1 THEN c ELSE p[l][k - 1]
  BY DEF IsInserted
<1>3. /\ d \in Seq(StagesOrNone) /\ Len(d) = Len(t) /\ Len(d) \in Nat
      /\ \A k \in 1 .. Len(t) : d[k] = g.stage[t[k]]
  <2>1. p \in Chains
    BY DEF Owned, Chains
  <2>2. QED
    BY <1>2, <2>1, StagesNow
<1> HIDE DEF e, d
<1>4. <<s>> \in Seq(StagesOrNone) /\ Len(<<s>>) = 1 /\ <<s>>[1] = s
  OBVIOUS
<1>5. /\ <<s>> \o e \in Seq(StagesOrNone) /\ Len(<<s>> \o e) = 1 + Len(e)
      /\ \A k \in 1 .. 1 + Len(e) : (<<s>> \o e)[k] = IF k <= 1 THEN <<s>>[k] ELSE e[k - 1]
  BY <1>1, <1>4, ConcatProperties
<1>6. ASSUME NEW k \in 1 .. Len(d) PROVE d[k] = (<<s>> \o e)[k]
  <2>1. k \in 1 .. Len(t) /\ k \in 1 .. 1 + Len(e) /\ k \in Int
    BY <1>1, <1>2, <1>3
  <2>2. CASE k = 1
    <3>1. t[k] = c
      BY <2>1, <2>2, <1>2
    <3>2. QED
      BY <3>1, <2>1, <2>2, <1>3, <1>4, <1>5
  <2>3. CASE k # 1
    <3>1. k - 1 \in 1 .. Len(p[l]) /\ ~(k <= 1) /\ ~(k <= 0)
      BY <2>1, <2>3, <1>1
    <3>2. t[k] = p[l][k - 1]
      BY <2>1, <2>3, <3>1, <1>2
    <3>3. QED
      BY <3>1, <3>2, <2>1, <1>1, <1>3, <1>5
  <2>4. QED
    BY <2>2, <2>3
<1>7. d = <<s>> \o e
  <2>1. Len(d) = Len(<<s>> \o e)
    BY <1>1, <1>2, <1>3, <1>5
  <2>2. QED
    BY <2>1, <1>3, <1>5, <1>6, SeqEqual
<1>8. QED
  BY <1>7 DEF d, e

\* A stage linked behind a chain is the last of its stages.
LEMMA OneAfterThem ==
  ASSUME NEW h, NEW p, NEW H, Owned(h, p, H), NEW l \in Luts, NEW c \in Cells,
         NEW o, o = p[l], NEW n, EndsAt(o, n), NEW t, IsInserted(t, o, n, c),
         NEW g, NEW G, Owned(g, With(p, l, t), G), StaysIn(g, h, o), NEW s, s = g.stage[c]
  PROVE  StagesOf(g, l) = After(StagesOf(h, l), s)
<1> DEFINE e == StagesOf(h, l)
           d == StagesOf(g, l)
           u == Append(e, s)
<1>1. /\ e \in Seq(StagesOrNone) /\ Len(e) = Len(p[l]) /\ Len(e) \in Nat
      /\ \A k \in 1 .. Len(p[l]) : e[k] = h.stage[p[l][k]]
  BY StagesAre
<1>2. /\ t \in Seq(Cells) /\ Len(t) = Len(p[l]) + 1
      /\ \A k \in 1 .. Len(t) : t[k] = IF k <= n THEN p[l][k] ELSE IF k = n + 1 THEN c ELSE p[l][k - 1]
  BY DEF IsInserted
<1>3. /\ d \in Seq(StagesOrNone) /\ Len(d) = Len(t) /\ Len(d) \in Nat
      /\ \A k \in 1 .. Len(t) : d[k] = g.stage[t[k]]
  <2>1. p \in Chains
    BY DEF Owned, Chains
  <2>2. QED
    BY <1>2, <2>1, StagesNow
<1>4. s \in StagesOrNone
  BY DEF Owned, Heaps
<1>0. n = Len(e)
  BY <1>1 DEF EndsAt
<1> HIDE DEF e, d
<1>5. /\ u \in Seq(StagesOrNone) /\ Len(u) = Len(e) + 1
      /\ (\A k \in 1 .. Len(e) : u[k] = e[k]) /\ u[Len(e) + 1] = s
  BY <1>1, <1>4, AppendProperties
<1> HIDE DEF u
<1>6. ASSUME NEW k \in 1 .. Len(d) PROVE d[k] = u[k]
  <2>1. k \in 1 .. Len(t) /\ k \in 1 .. Len(e) + 1 /\ k \in Int
    BY <1>1, <1>2, <1>3
  <2>2. CASE k = Len(e) + 1
    <3>1. t[k] = c
      BY <2>1, <2>2, <1>0, <1>1, <1>2
    <3>2. QED
      BY <3>1, <2>1, <2>2, <1>3, <1>5
  <2>3. CASE k # Len(e) + 1
    <3>1. k \in 1 .. Len(e) /\ k <= n
      BY <2>1, <2>3, <1>0, <1>1
    <3>2. t[k] = p[l][k]
      BY <2>1, <3>1, <1>2
    <3>3. g.stage[p[l][k]] = h.stage[p[l][k]]
      BY <3>1, <1>1 DEF StaysIn
    <3>4. QED
      BY <3>1, <3>2, <3>3, <2>1, <1>1, <1>3, <1>5
  <2>4. QED
    BY <2>2, <2>3
<1>7. d = u
  <2>1. Len(d) = Len(u)
    BY <1>1, <1>2, <1>3, <1>5
  <2>2. QED
    BY <2>1, <1>3, <1>5, <1>6, SeqEqual
<1>8. QED
  BY <1>7 DEF d, e, u, After

\* c was the first stage, or the last, of pipeline l.
FirstOut(g, h, l, c) ==
  LET e == StagesOf(h, l) IN e # <<>> /\ StagesOf(g, l) = Tail(e) /\ Head(e) = h.stage[c]
LastOut(g, h, l, c) ==
  LET e == StagesOf(h, l) IN e # <<>> /\ StagesOf(g, l) = Front(e) /\ Last(e) = h.stage[c]

\* Unlinking at the beginning takes the first stage off (cmslut.go:1038).
LEMMA FirstIsGone ==
  ASSUME NEW h, NEW p, NEW H, Owned(h, p, H), NEW l \in Luts, ~h.lut[l].nil, p[l] # <<>>,
         NEW c, c = h.lut[l].head, NEW g, g = UnlinkBegin(h, l)
  PROVE  FirstOut(g, h, l, c)
<1> DEFINE e == StagesOf(h, l)
           d == StagesOf(g, l)
           t == RemoveAt(p[l], 1)
           G == Taken(H, c)
<1>10. c = p[l][1] /\ TakenOut(g, h, p, H, l, t, c)
  BY FirstIsUnlinked
<1>11. Owned(g, With(p, l, t), G) /\ StaysIn(g, h, p[l])
  BY <1>10 DEF TakenOut, IsNow, StaysIn
<1>1. /\ e \in Seq(StagesOrNone) /\ Len(e) = Len(p[l]) /\ Len(e) \in Nat /\ p[l] \in Seq(Cells)
      /\ (\A k \in 1 .. Len(p[l]) : e[k] = h.stage[p[l][k]]) /\ e # <<>>
  BY StagesAre, PlacesAreChains
<1>0. 1 \in 1 .. Len(p[l])
  BY <1>1, EmptySeq
<1>2. /\ t \in Seq(Cells) /\ Len(t) = Len(p[l]) - 1
      /\ \A k \in 1 .. Len(t) : t[k] = p[l][IF k < 1 THEN k ELSE k + 1]
  <2>1. IsWithout(t, Cells, p[l], 1)
    BY <1>0, <1>1, WithoutOne
  <2>2. QED
    BY <2>1 DEF IsWithout
<1>3. /\ d \in Seq(StagesOrNone) /\ Len(d) = Len(t) /\ Len(d) \in Nat
      /\ \A k \in 1 .. Len(t) : d[k] = g.stage[t[k]]
  <2>1. p \in Chains
    BY DEF Owned, Chains
  <2>2. QED
    BY <1>2, <2>1, <1>11, StagesNow
<1> HIDE DEF e, d, t
<1>5. Tail(e) \in Seq(StagesOrNone) /\ Len(Tail(e)) = Len(e) - 1 /\ Head(e) = e[1]
      /\ \A k \in 1 .. Len(Tail(e)) : Tail(e)[k] = e[k + 1]
  BY <1>1, HeadTailProperties
<1>6. ASSUME NEW k \in 1 .. Len(d) PROVE d[k] = Tail(e)[k]
  <2>1. k \in 1 .. Len(t) /\ k \in 1 .. Len(Tail(e)) /\ k + 1 \in 1 .. Len(p[l]) /\ ~(k < 1)
    BY <1>1, <1>2, <1>3, <1>5
  <2>2. t[k] = p[l][k + 1]
    BY <2>1, <1>2
  <2>3. g.stage[p[l][k + 1]] = h.stage[p[l][k + 1]]
    BY <2>1, <1>11 DEF StaysIn
  <2>4. QED
    BY <2>1, <2>2, <2>3, <1>1, <1>3, <1>5
<1>7. d = Tail(e)
  <2>1. Len(d) = Len(Tail(e))
    BY <1>1, <1>2, <1>3, <1>5
  <2>2. QED
    BY <2>1, <1>3, <1>5, <1>6, SeqEqual
<1>8. Head(e) = h.stage[c]
  BY <1>0, <1>1, <1>5, <1>10
<1>9. QED
  BY <1>1, <1>7, <1>8 DEF d, e, FirstOut

\* Unlinking at the end walks to the last stage and takes it off (cmslut.go:1044).
LEMMA LastIsGone ==
  ASSUME NEW h, NEW p, NEW H, Owned(h, p, H), NEW l \in Luts, ~h.lut[l].nil,
         NEW i \in 0 .. Len(p[l]), NEW n \in 1 .. Len(p[l]), NextTo(i, n), EndsAt(p[l], n),
         NEW c, c = p[l][n], NEW g, g = UnlinkEnd(h, l)
  PROVE  LastOut(g, h, l, c)
<1> DEFINE e == StagesOf(h, l)
           d == StagesOf(g, l)
           u == Front(e)
           t == RemoveAt(p[l], n)
           G == Taken(H, c)
<1>10. TakenOut(g, h, p, H, l, t, c)
  BY LastIsUnlinked
<1>11. Owned(g, With(p, l, t), G) /\ StaysIn(g, h, p[l])
  BY <1>10 DEF TakenOut, IsNow, StaysIn
<1>1. /\ e \in Seq(StagesOrNone) /\ Len(e) = Len(p[l]) /\ Len(e) \in Nat /\ p[l] \in Seq(Cells)
      /\ (\A k \in 1 .. Len(p[l]) : e[k] = h.stage[p[l][k]])
  BY StagesAre, PlacesAreChains
<1>0. n = Len(e) /\ n \in Nat
  BY <1>1 DEF EndsAt
<1>2. /\ t \in Seq(Cells) /\ Len(t) = Len(p[l]) - 1
      /\ \A k \in 1 .. Len(t) : t[k] = p[l][IF k < n THEN k ELSE k + 1]
  <2>1. IsWithout(t, Cells, p[l], n)
    BY <1>1, WithoutOne
  <2>2. QED
    BY <2>1 DEF IsWithout
<1>3. /\ d \in Seq(StagesOrNone) /\ Len(d) = Len(t) /\ Len(d) \in Nat
      /\ \A k \in 1 .. Len(t) : d[k] = g.stage[t[k]]
  <2>1. p \in Chains
    BY DEF Owned, Chains
  <2>2. QED
    BY <1>2, <2>1, <1>11, StagesNow
<1> HIDE DEF e, d, t
<1>5. u \in Seq(StagesOrNone) /\ Len(u) = Len(e) - 1
      /\ \A k \in 1 .. Len(u) : u[k] = e[k]
  <2>1. \A k \in 1 .. Len(e) - 1 : e[k] \in StagesOrNone
    BY <1>1, ElementOfSeq
  <2>2. /\ SubSeq(e, 1, Len(e) - 1) \in Seq(StagesOrNone)
        /\ Len(SubSeq(e, 1, Len(e) - 1)) = IF 1 <= Len(e) - 1 THEN (Len(e) - 1) - 1 + 1 ELSE 0
        /\ \A k \in 1 .. (Len(e) - 1) - 1 + 1 : SubSeq(e, 1, Len(e) - 1)[k] = e[1 + k - 1]
    <3>1. 1 \in Int /\ Len(e) - 1 \in Int
      BY <1>1
    <3>2. QED
      BY <3>1, <2>1, SubSeqProperties
  <2>3. u = SubSeq(e, 1, Len(e) - 1)
    BY DEF Front
  <2>4. QED
    BY <2>2, <2>3, <1>0, <1>1
<1> HIDE DEF u
<1>6. ASSUME NEW k \in 1 .. Len(d) PROVE d[k] = u[k]
  <2>1. k \in 1 .. Len(t) /\ k \in 1 .. Len(u) /\ k \in 1 .. Len(p[l]) /\ k < n
    BY <1>0, <1>1, <1>2, <1>3, <1>5
  <2>2. t[k] = p[l][k]
    BY <2>1, <1>2
  <2>3. g.stage[p[l][k]] = h.stage[p[l][k]]
    BY <2>1, <1>11 DEF StaysIn
  <2>4. QED
    BY <2>1, <2>2, <2>3, <1>1, <1>3, <1>5
<1>7. d = u
  <2>1. Len(d) = Len(u)
    BY <1>1, <1>2, <1>3, <1>5
  <2>2. QED
    BY <2>1, <1>3, <1>5, <1>6, SeqEqual
<1>8. e # <<>> /\ Last(e) = h.stage[c]
  <2>1. e # <<>>
    BY <1>0, <1>1, EmptySeq
  <2>2. QED
    BY <2>1, <1>0, <1>1 DEF Last
<1>9. QED
  BY <1>7, <1>8 DEF d, e, u, LastOut

\* What is alive, and what the caller does not hold.
LEMMA AliveIs == ASSUME NEW p, Sound(heap, p, held) PROVE \A l \in Luts : l \in Lists!Alive <=> Live(heap, l)
<1>1. heap \in Heaps
  BY DEF Sound, Owned
<1>2. ASSUME NEW l \in Luts PROVE l \in Lists!Alive <=> Live(heap, l)
  <2>1. ListsOf(heap)[l].nil = heap.lut[l].nil
    BY <1>1, NilOf
  <2>2. QED
    BY <2>1, MappedNow DEF Lists!Alive, Live
<1>3. QED
  BY <1>2

\* A place the caller holds nothing at is empty.
LEMMA EmptyIs == ASSUME NEW p, Sound(heap, p, held) PROVE \A c \in Cells : c \in Lists!Empty <=> c \notin held
<1>1. \A c \in held : heap.stage[c] # NoStage
  BY DEF Sound, Owned
<1>2. ASSUME NEW c \in Cells PROVE c \in Lists!Empty <=> c \notin held
  <2>1. HandOf(heap, held)[c] = IF c \in held THEN heap.stage[c] ELSE NoStage
    BY DEF HandOf
  <2>2. QED
    BY <2>1, <1>1, MappedNow, SameNone DEF Lists!Empty
<1>3. QED
  BY <1>2

\* The stages in hand with one more, with one less, and as they were.
LEMMA HandTakes ==
  ASSUME NEW h, NEW g, NEW H, NEW c \in Cells, c \notin H, \A d \in H : g.stage[d] = h.stage[d]
  PROVE  HandOf(g, Taken(H, c)) = [HandOf(h, H) EXCEPT ![c] = g.stage[c]]
BY DEF HandOf, Taken

LEMMA HandGives ==
  ASSUME NEW h, NEW g, NEW H, NEW c \in H, \A d \in Given(H, c) : g.stage[d] = h.stage[d]
  PROVE  HandOf(g, Given(H, c)) = [HandOf(h, H) EXCEPT ![c] = NoStage]
BY DEF HandOf, Given

LEMMA HandStays ==
  ASSUME NEW h, NEW g, NEW H, \A d \in H : g.stage[d] = h.stage[d]
  PROVE  HandOf(g, H) = HandOf(h, H)
BY DEF HandOf

----------------------------------------------------------------------------
(* Each operation on the heap is the one on the sequences.                 *)

\* The allocation of a stage puts it in the hand of the caller.
LEMMA AllocStageMakes ==
  ASSUME NEW p, Sound(heap, p, held), NEW k \in DOMAIN Kinds, AllocStage(Kinds[k])
  PROVE  Lists!Next
<1> DEFINE c == Min(FreeCells(heap))
           s == Kinds[k]
<1>1. FreeCells(heap) # {} /\ heap' = NewStage(heap, c, s) /\ held' = Taken(held, c)
  BY DEF AllocStage, Taken
<1>2. c \in Cells /\ heap.stage[c] = NoStage /\ s \in Stages /\ Owned(heap, p, held)
  BY <1>1, OneIsFree DEF Stages, Sound
<1> HIDE DEF c, s
<1>3. c \notin held
  BY <1>2 DEF Owned
<1>4. Owned(heap', p, held') /\ heap'.lut = heap.lut /\ heap'.stage = Made(heap.stage, c, s)
  BY <1>1, <1>2, StageIsMade
<1>5. heap'.stage[c] = s /\ \A d \in Cells : d # c => heap'.stage[d] = heap.stage[d]
  BY <1>2, <1>4 DEF Made, Owned, Heaps
<1>6. \A l \in Luts : \A x \in 1 .. Len(p[l]) : heap'.stage[p[l][x]] = heap.stage[p[l][x]]
  BY <1>2, <1>5, LooseIsNowhere, PlacesAreChains
<1>7. ListsOf(heap') = ListsOf(heap)
  BY <1>2, <1>4, <1>6, NoListChanges
<1>8. \A d \in held : heap'.stage[d] = heap.stage[d]
  BY <1>2, <1>3, <1>5 DEF Owned
<1>9. HandOf(heap', held') = [HandOf(heap, held) EXCEPT ![c] = s]
  <2>1. HandOf(heap', Taken(held, c)) = [HandOf(heap, held) EXCEPT ![c] = heap'.stage[c]]
    BY <1>2, <1>3, <1>8, HandTakes
  <2>2. QED
    BY <2>1, <1>1, <1>5
<1>10. c \in Lists!Empty
  BY <1>2, <1>3, EmptyIs
<1>11. Lists!MakeStage(c, s)
  BY <1>7, <1>9, <1>10, MappedNow, MappedNext DEF Lists!MakeStage
<1>12. QED
  BY <1>2, <1>11 DEF Lists!Next, s

\* cmsStageFree of a stage in hand: the caller has it no more.
LEMMA FreeHeldDrops ==
  ASSUME NEW p, Sound(heap, p, held), NEW c \in held, FreeHeld(c)
  PROVE  Lists!Next
<1>1. heap' = StageFree(heap, c) /\ held' = Given(held, c)
  BY DEF FreeHeld, Given
<1>2. Owned(heap, p, held) /\ held \subseteq Cells /\ c \in Cells
  BY DEF Sound, Owned
<1>3. \A l \in Luts : \A k \in 1 .. Len(p[l]) : p[l][k] # c
  BY <1>2, LooseIsNowhere
<1>4. Owned(heap', p, held') /\ heap'.lut = heap.lut /\ heap'.stage = Freed(heap.stage, c)
  BY <1>1, <1>2, <1>3, StageIsFreed
<1>5. \A d \in Cells : d # c => heap'.stage[d] = heap.stage[d]
  BY <1>2, <1>4 DEF Freed, Owned, Heaps
<1>6. \A l \in Luts : \A x \in 1 .. Len(p[l]) : heap'.stage[p[l][x]] = heap.stage[p[l][x]]
  BY <1>2, <1>3, <1>5, PlacesAreChains
<1>7. ListsOf(heap') = ListsOf(heap)
  BY <1>2, <1>4, <1>6, NoListChanges
<1>8. \A d \in Given(held, c) : heap'.stage[d] = heap.stage[d]
  BY <1>2, <1>5 DEF Given
<1>9. HandOf(heap', held') = [HandOf(heap, held) EXCEPT ![c] = NoStage]
  BY <1>1, <1>8, HandGives
<1>10. c \notin Lists!Empty
  BY <1>2, EmptyIs
<1>11. Lists!DropStage(c)
  BY <1>7, <1>9, <1>10, MappedNow, MappedNext, SameNone DEF Lists!DropStage
<1>12. QED
  BY <1>2, <1>11 DEF Lists!Next

\* cmsPipelineAlloc makes an empty pipeline of these channels (cmslut.go:878).
LEMMA PipelineAllocateAllocs ==
  ASSUME NEW p, Sound(heap, p, held), NEW l \in Luts, NEW w \in Widths, PipelineAllocate(l, w)
  PROVE  Lists!Next
<1> DEFINE r == [in |-> w[1], out |-> w[2], head |-> Nil, nil |-> FALSE]
<1>1. /\ heap.lut[l].nil /\ held' = held /\ heap' = SetLut(heap, l, r)
      /\ ~PipelineAlloc(w[1], w[2]).nil
  BY DEF PipelineAllocate, Alive, SetLut
<1>2. r \in LutsAre /\ r.head = Nil
  BY WidthsAssumption DEF LutsAre
<1>3. p[l] = <<>> /\ Owned(heap, p, held)
  BY <1>1 DEF Sound, Owned
<1>13. r.in = w[1] /\ r.out = w[2] /\ ~r.nil
  OBVIOUS
<1> HIDE DEF r
<1>4. /\ Sound(heap', p, held) /\ heap'.stage = heap.stage
      /\ heap'.lut[l] = r /\ \A k \in Luts \ {l} : heap'.lut[k] = heap.lut[k]
  BY <1>1, <1>2, <1>3, EmptyIsSet
<1>5. p = With(p, l, <<>>)
  BY <1>3 DEF With, Owned
<1>6. Owned(heap', With(p, l, <<>>), held) /\ SameElsewhere(heap', heap, p, l)
  BY <1>4, <1>5 DEF Sound, SameElsewhere
<1>7. ListsOf(heap') = [ListsOf(heap) EXCEPT ![l] = ListOf(heap', l)]
  BY <1>3, <1>6, OneListChanges
<1>8. ListOf(heap', l) = PipelineAlloc(w[1], w[2])
  <2>1. StagesOf(heap', l) = <<>>
    BY <1>3, <1>4, StagesAre DEF Sound
  <2>2. ListOf(heap', l) = LiveList(w[1], w[2], <<>>)
    BY <2>1, <1>4, <1>13 DEF ListOf
  <2>3. ~(w[1] >= MaxChannels \/ w[2] >= MaxChannels)
    BY <1>1 DEF PipelineAlloc, NoPipeline
  <2>4. QED
    BY <2>2, <2>3 DEF PipelineAlloc, LiveList, AnyList, No
<1>9. HandOf(heap', held') = HandOf(heap, held)
  BY <1>1, <1>4, HandStays
<1>10. l \notin Lists!Alive
  BY <1>1, AliveIs DEF Live
<1>11. Lists!Alloc(l, w)
  BY <1>7, <1>8, <1>9, <1>10, MappedNow, MappedNext, SameAlloc DEF Lists!Alloc
<1>12. QED
  BY <1>11 DEF Lists!Next

\* cmsPipelineFree frees the stages of the pipeline and the pipeline (cmslut.go:919).
LEMMA PipelineFreeFrees ==
  ASSUME NEW p, Sound(heap, p, held), NEW l \in Luts, PipelineFree(l)
  PROVE  Lists!Next
<1> DEFINE S == ToSet(CellsOf(heap, l))
           st == [c \in Cells |-> IF c \in S THEN NoStage ELSE heap.stage[c]]
           b == [heap EXCEPT !.stage = st]
<1>1. /\ Live(heap, l) /\ held' = held
      /\ heap' = [heap EXCEPT !.stage = [c \in Cells |-> IF c \in S THEN NoStage ELSE @[c]], !.lut[l] = NoLut]
  BY DEF PipelineFree, Alive, Live
<1>2. NoLut \in LutsAre /\ NoLut.head = Nil /\ NoLut.nil
  BY DEF LutsAre, NoLut
<1>3. /\ S \subseteq Cells /\ \A k \in 1 .. Len(p[l]) : p[l][k] \in S
      /\ \A c \in S : \E k \in 1 .. Len(p[l]) : p[l][k] = c
  <2>1. CellsOf(heap, l) = p[l] /\ DOMAIN p[l] = 1 .. Len(p[l]) /\ \A k \in 1 .. Len(p[l]) : p[l][k] \in Cells
    BY PlacesAreChains DEF Sound
  <2>2. S = {p[l][k] : k \in 1 .. Len(p[l])}
    BY <2>1 DEF ToSet
  <2>3. QED
    BY <2>1, <2>2
<1>4. heap \in Heaps /\ Owned(heap, p, held) /\ held \subseteq Cells
  BY DEF Sound, Owned
<1>5. b \in Heaps /\ b.stage = st /\ heap' = SetLut(b, l, NoLut) /\ b.lut = heap.lut
  <2>1. st \in [Cells -> StagesOrNone]
    BY <1>4 DEF Heaps, StagesOrNone
  <2>2. heap' = SetLut(b, l, NoLut)
    BY <1>1 DEF SetLut
  <2> HIDE DEF st
  <2>3. QED
    BY <2>1, <2>2, <1>4 DEF Heaps
<1>6. heap'.stage = st /\ heap'.lut = [heap.lut EXCEPT ![l] = NoLut]
  <2> HIDE DEF b, st
  <2>1. QED
    BY <1>2, <1>5, LutIsSet
<1> HIDE DEF S, b
<1>7. Sound(heap', With(p, l, <<>>), held)
  BY <1>1, <1>2, <1>3, EmptyIsSound
<1>8. \A m \in Luts \ {l} : heap'.lut[m] = heap.lut[m]
  BY <1>6, <1>4 DEF Heaps
<1>9. heap'.lut[l] = NoLut
  BY <1>6, <1>4 DEF Heaps
<1>10. SameElsewhere(heap', heap, p, l)
  <2>1. Grows(heap, heap')
    BY <1>6 DEF Grows
  <2>2. QED
    BY <2>1, <1>4, <1>7, <1>8, OthersStay DEF Sound
<1>11. ListsOf(heap') = [ListsOf(heap) EXCEPT ![l] = ListOf(heap', l)]
  BY <1>4, <1>7, <1>10, OneListChanges DEF Sound
<1>12. ListOf(heap', l) = NoPipeline
  BY <1>2, <1>9 DEF ListOf
<1>13. \A c \in held : heap'.stage[c] = heap.stage[c]
  <2>1. \A c \in held : c \notin S
    BY <1>3, <1>4 DEF Owned
  <2>2. QED
    BY <2>1, <1>4, <1>6
<1>14. HandOf(heap', held') = HandOf(heap, held)
  <2>1. HandOf(heap', held) = HandOf(heap, held)
    BY <1>13, HandStays
  <2>2. QED
    BY <2>1, <1>1
<1>15. l \in Lists!Alive
  BY <1>1, AliveIs
<1>16. Lists!Free(l)
  BY <1>11, <1>12, <1>14, <1>15, MappedNow, MappedNext, SameNone DEF Lists!Free
<1>17. QED
  BY <1>16 DEF Lists!Next

\* Relinking one pipeline changes its stages and its channels, and no other pipeline.
LEMMA NowChanges ==
  ASSUME NEW h, NEW p, NEW H, Owned(h, p, H), NEW l \in Luts, Live(h, l), NEW t \in Seq(Cells), NEW G, NEW g,
         IsNow(h, g, p, l, t, G), g.stage = h.stage, NEW e, e = StagesOf(g, l)
  PROVE  /\ ListsOf(g) = [ListsOf(h) EXCEPT ![l] = Blessed([@ EXCEPT !.elements = e])]
         /\ ListsOf(h)[l] = ListOf(h, l) /\ ListOf(h, l).elements = StagesOf(h, l)
<1>1. Owned(g, With(p, l, t), G) /\ SameElsewhere(g, h, p, l)
  BY DEF IsNow, SameElsewhere
<1>2. ListsOf(g) = [ListsOf(h) EXCEPT ![l] = ListOf(g, l)]
  BY <1>1, OneListChanges
<1>3. ListOf(g, l) = Blessed([ListOf(h, l) EXCEPT !.elements = e])
  BY NowIs
<1>4. ListsOf(h)[l] = ListOf(h, l)
  BY DEF ListsOf
<1>5. ListOf(h, l).elements = StagesOf(h, l)
  BY NilOf, FieldsOf DEF Owned
<1>6. QED
  BY <1>2, <1>3, <1>4, <1>5 DEF ListsOf

\* What inserting at either end does to a sequence.
LEMMA InsertionsAre ==
  ASSUME NEW x, NEW s, s # NoStage
  PROVE  /\ InsertAtBegin(x, s).p = Blessed([x EXCEPT !.elements = <<s>> \o @])
         /\ InsertAtEnd(x, s).p = Blessed([x EXCEPT !.elements = Append(@, s)])
BY DEF InsertAtBegin, InsertAtEnd, Done

\* cmsPipelineInsertStage: the stage goes from the hand to the end of the
\* sequence it was meant for.
LEMMA PipelineInsertStageInserts ==
  ASSUME NEW p, Sound(heap, p, held), NEW l \in Luts, NEW c \in held, PipelineInsertStage(l, c)
  PROVE  Lists!Next
<1> DEFINE n == Len(p[l])
           s == heap.stage[c]
           G == Given(held, c)
           e == StagesOf(heap, l)
<1>1. /\ Live(heap, l) /\ held' = G
      /\ heap' = InsertBegin(heap, l, c) \/ heap' = InsertEnd(heap, l, c)
  BY DEF PipelineInsertStage, Alive, Given, Live
<1>2. Owned(heap, p, held) /\ held \subseteq Cells /\ c \in Cells
  BY DEF Sound, Owned
<1>3. n \in 0 .. n /\ 0 \in 0 .. n /\ p[l] \in Seq(Cells)
  BY <1>2, PlacesAreChains
<1>11. EndsAt(p[l], n)
  BY DEF EndsAt
<1>4. s # NoStage /\ s \in StagesOrNone
  BY <1>2 DEF Owned, Heaps
<1>5. c \notin Lists!Empty /\ l \in Lists!Alive
  BY <1>1, <1>2, EmptyIs, AliveIs
<1>6. HandOf(heap, held)[c] = s
  BY <1>2 DEF HandOf
<1>7. ASSUME heap'.stage = heap.stage PROVE HandOf(heap', held') = [HandOf(heap, held) EXCEPT ![c] = NoStage]
  <2>1. \A d \in Given(held, c) : heap'.stage[d] = heap.stage[d]
    BY <1>7
  <2>2. HandOf(heap', Given(held, c)) = [HandOf(heap, held) EXCEPT ![c] = NoStage]
    BY <2>1, HandGives
  <2>3. QED
    BY <2>2, <1>1
<1>8. ~heap.lut[l].nil
  BY <1>1 DEF Live
<1> HIDE DEF n, s, G, e
<1>9. CASE heap' = InsertBegin(heap, l, c)
  <2> DEFINE t == Inserted(p[l], 0, c)
  <2>1. IsNow(heap, heap', p, l, t, G) /\ heap'.stage = heap.stage
    BY <1>2, <1>8, <1>9, BeginIsInserted DEF G
  <2>2. IsInserted(t, p[l], 0, c) /\ t \in Seq(Cells)
    <3>1. 0 \in 0 .. Len(p[l])
      BY <1>3 DEF n
    <3>2. IsInserted(t, p[l], 0, c)
      BY <3>1, <1>2, <1>3, InsertedOne
    <3>3. QED
      BY <3>2 DEF IsInserted
  <2> HIDE DEF t
  <2>3. Owned(heap', With(p, l, t), G)
    BY <2>1 DEF IsNow
  <2>4. StagesOf(heap', l) = <<s>> \o e
    BY <2>1, <2>2, <2>3, <1>2, <1>4, OneBeforeThem DEF s, e
  <2> DEFINE d == StagesOf(heap', l)
             X == ListsOf(heap)
  <2>5. /\ ListsOf(heap') = [X EXCEPT ![l] = Blessed([@ EXCEPT !.elements = d])]
        /\ X[l] = ListOf(heap, l) /\ ListOf(heap, l).elements = e
    BY <2>1, <2>2, <1>1, <1>2, NowChanges DEF e
  <2>6. d = <<s>> \o e
    BY <2>4
  <2> HIDE DEF d, X
  <2>7. Blessed([X[l] EXCEPT !.elements = d]) = InsertAtBegin(X[l], s).p
    BY <2>5, <2>6, <1>4, InsertionsAre
  <2>8. ListsOf(heap') = [X EXCEPT ![l] = InsertAtBegin(@, s).p]
    BY <2>5, <2>7
  <2>9. HandOf(heap', held') = [HandOf(heap, held) EXCEPT ![c] = NoStage]
    BY <2>1, <1>7
  <2>10. Lists!InsertStage(l, c, Lists!InsertAtBegin)
    BY <2>8, <2>9, <1>5, <1>6, MappedNow, MappedNext, SameNone, SameInsertions DEF Lists!InsertStage, X
  <2>11. QED
    BY <2>10, <1>2 DEF Lists!Next
<1>10. CASE heap' = InsertEnd(heap, l, c)
  <2> DEFINE t == Inserted(p[l], n, c)
  <2>1. IsNow(heap, heap', p, l, t, G) /\ heap'.stage = heap.stage
    BY <1>2, <1>11, <1>8, <1>10, EndIsInserted DEF G
  <2>2. IsInserted(t, p[l], n, c) /\ t \in Seq(Cells)
    <3>1. n \in 0 .. Len(p[l])
      BY <1>3 DEF n
    <3>2. IsInserted(t, p[l], n, c)
      BY <3>1, <1>2, <1>3, InsertedOne
    <3>3. QED
      BY <3>2 DEF IsInserted
  <2> HIDE DEF t
  <2>3. Owned(heap', With(p, l, t), G) /\ StaysIn(heap', heap, p[l])
    BY <2>1 DEF IsNow, StaysIn
  <2>4. StagesOf(heap', l) = Append(e, s)
    <3>1. s = heap'.stage[c]
      BY <2>1 DEF s
    <3> DEFINE o == p[l]
    <3>4. EndsAt(o, n) /\ IsInserted(t, o, n, c) /\ StaysIn(heap', heap, o) /\ o = p[l]
      BY <2>2, <2>3, <1>11
    <3> HIDE DEF o
    <3>2. StagesOf(heap', l) = After(StagesOf(heap, l), s)
      BY <3>1, <3>4, <2>3, <1>2, OneAfterThem
    <3>3. QED
      BY <3>2 DEF e, After
  <2> DEFINE d == StagesOf(heap', l)
             X == ListsOf(heap)
  <2>5. /\ ListsOf(heap') = [X EXCEPT ![l] = Blessed([@ EXCEPT !.elements = d])]
        /\ X[l] = ListOf(heap, l) /\ ListOf(heap, l).elements = e
    BY <2>1, <2>2, <1>1, <1>2, NowChanges DEF e
  <2>6. d = Append(e, s)
    BY <2>4
  <2> HIDE DEF d, X
  <2>7. Blessed([X[l] EXCEPT !.elements = d]) = InsertAtEnd(X[l], s).p
    BY <2>5, <2>6, <1>4, InsertionsAre
  <2>8. ListsOf(heap') = [X EXCEPT ![l] = InsertAtEnd(@, s).p]
    BY <2>5, <2>7
  <2>9. HandOf(heap', held') = [HandOf(heap, held) EXCEPT ![c] = NoStage]
    BY <2>1, <1>7
  <2>10. Lists!InsertStage(l, c, Lists!InsertAtEnd)
    BY <2>8, <2>9, <1>5, <1>6, MappedNow, MappedNext, SameNone, SameInsertions DEF Lists!InsertStage, X
  <2>11. QED
    BY <2>10, <1>2 DEF Lists!Next
<1>12. QED
  BY <1>1, <1>9, <1>10

\* A stage that was taken out, and freed at once.
LEMMA TakenAndFreed ==
  ASSUME NEW h, NEW p, NEW H, NEW c \in Cells, c \notin H, Owned(h, p, Taken(H, c)),
         \A m \in Luts : \A k \in 1 .. Len(p[m]) : p[m][k] # c,
         NEW g, g = StageFree(h, c)
  PROVE  ListsOf(g) = ListsOf(h) /\ HandOf(g, H) = HandOf(h, H)
<1>1. /\ Owned(g, p, Given(Taken(H, c), c)) /\ g.lut = h.lut
      /\ g.stage = Freed(h.stage, c)
  BY StageIsFreed
<1>2. h.stage \in [Cells -> StagesOrNone] /\ H \subseteq Cells
  BY DEF Owned, Heaps, Taken
<1>3. \A d \in Cells : d # c => g.stage[d] = h.stage[d]
  BY <1>1, <1>2 DEF Freed
<1>4. \A l \in Luts : \A k \in 1 .. Len(p[l]) : g.stage[p[l][k]] = h.stage[p[l][k]]
  BY <1>3, PlacesAreChains
<1>5. ListsOf(g) = ListsOf(h)
  BY <1>1, <1>4, NoListChanges
<1>6. HandOf(g, H) = HandOf(h, H)
  BY <1>2, <1>3 DEF HandOf
<1>7. QED
  BY <1>5, <1>6

\* What unlinking at either end does to a sequence.
LEMMA UnlinksAre ==
  ASSUME NEW x, x.elements # <<>>
  PROVE  /\ UnlinkFirst(x) = Blessed([x EXCEPT !.elements = Tail(@)])
         /\ UnlinkLast(x) = Blessed([x EXCEPT !.elements = Front(@)])
BY DEF UnlinkFirst, UnlinkLast

\* Stage c of pipeline l went to the caller, or was freed.
LEMMA OneIsUnlinked ==
  ASSUME NEW p, Sound(heap, p, held), NEW l \in Luts, Live(heap, l),
         NEW t \in Seq(Cells), NEW c, NEW h, TakenOut(h, heap, p, held, l, t, c),
         \/ heap' = h /\ held' = Taken(held, c)
         \/ heap' = StageFree(h, c) /\ held' = held,
         NEW d, d = StagesOf(h, l)
  PROVE  /\ c \in Cells /\ c \in Lists!Empty /\ l \in Lists!Alive
         /\ ListsOf(heap)[l].elements = StagesOf(heap, l)
         /\ ListsOf(heap') = [ListsOf(heap) EXCEPT ![l] = Blessed([@ EXCEPT !.elements = d])]
         /\ \/ HandOf(heap', held') = [HandOf(heap, held) EXCEPT ![c] = heap.stage[c]]
            \/ HandOf(heap', held') = HandOf(heap, held)
<1> DEFINE q == With(p, l, t)
           G == Taken(held, c)
<1>1. /\ IsNow(heap, h, p, l, t, G) /\ h.stage = heap.stage /\ c \in Cells /\ c \notin held
      /\ Owned(heap, p, held) /\ Owned(h, q, G)
      /\ \A m \in Luts : \A k \in 1 .. Len(q[m]) : q[m][k] # c
  BY DEF TakenOut, Sound, IsNow
<1>2. c \in Lists!Empty /\ l \in Lists!Alive
  BY <1>1, EmptyIs, AliveIs
<1>3. /\ ListsOf(h) = [ListsOf(heap) EXCEPT ![l] = Blessed([@ EXCEPT !.elements = d])]
      /\ ListsOf(heap)[l].elements = StagesOf(heap, l)
  BY <1>1, NowChanges
<1>4. HandOf(h, G) = [HandOf(heap, held) EXCEPT ![c] = heap.stage[c]]
  <2>1. \A x \in held : h.stage[x] = heap.stage[x]
    BY <1>1
  <2>2. HandOf(h, Taken(held, c)) = [HandOf(heap, held) EXCEPT ![c] = h.stage[c]]
    <3>1. c \in Cells /\ c \notin held
      BY <1>1
    <3>2. QED
      BY <2>1, <3>1, HandTakes
  <2>3. QED
    BY <2>2, <1>1
<1> HIDE DEF q
<1>5. CASE heap' = h /\ held' = G
  BY <1>1, <1>2, <1>3, <1>4, <1>5
<1>6. CASE heap' = StageFree(h, c) /\ held' = held
  <2>1. ListsOf(heap') = ListsOf(h) /\ HandOf(heap', held) = HandOf(h, held)
    BY <1>1, <1>6, TakenAndFreed
  <2>2. HandOf(h, held) = HandOf(heap, held)
    BY <1>1, HandStays
  <2>3. QED
    BY <2>1, <2>2, <1>1, <1>2, <1>3, <1>6
<1>7. QED
  BY <1>5, <1>6

\* What PipelineUnlinkStage does: c and h are the stage and the heap without it.
LEMMA WhatIsUnlinked ==
  ASSUME NEW l \in Luts, PipelineUnlinkStage(l)
  PROVE  \E c, h :
           /\ (c = heap.lut[l].head /\ h = UnlinkBegin(heap, l)) \/ (c = Last(CellsOf(heap, l)) /\ h = UnlinkEnd(heap, l))
           /\ \/ Cardinality(held) < MaxHeld /\ heap' = h /\ held' = Taken(held, c)
              \/ heap' = StageFree(h, c) /\ held' = held
<1>1. PICK end \in {"begin", "end"} :
        LET c == IF end = "begin" THEN heap.lut[l].head ELSE Last(CellsOf(heap, l))
            h == IF end = "begin" THEN UnlinkBegin(heap, l) ELSE UnlinkEnd(heap, l)
        IN \/ HandsFree /\ heap' = h /\ held' = held \cup {c}
           \/ heap' = StageFree(h, c) /\ UNCHANGED held
  BY DEF PipelineUnlinkStage
<1> DEFINE c == IF end = "begin" THEN heap.lut[l].head ELSE Last(CellsOf(heap, l))
           h == IF end = "begin" THEN UnlinkBegin(heap, l) ELSE UnlinkEnd(heap, l)
<1>2. \/ Cardinality(held) < MaxHeld /\ heap' = h /\ held' = Taken(held, c)
      \/ heap' = StageFree(h, c) /\ held' = held
  BY <1>1 DEF Taken, HandsFree
<1>3. (c = heap.lut[l].head /\ h = UnlinkBegin(heap, l)) \/ (c = Last(CellsOf(heap, l)) /\ h = UnlinkEnd(heap, l))
  <2>1. /\ end = "begin" => c = heap.lut[l].head
        /\ end # "begin" => c = Last(CellsOf(heap, l))
    OBVIOUS
  <2>2. /\ end = "begin" => h = UnlinkBegin(heap, l)
        /\ end # "begin" => h = UnlinkEnd(heap, l)
    OBVIOUS
  <2> HIDE DEF c, h
  <2>3. QED
    BY <2>1, <2>2
<1> HIDE DEF c, h
<1>4. QED
  BY <1>2, <1>3

\* cmsPipelineUnlinkStage takes the stage off its end and gives it to the caller,
\* or frees it; of an empty pipeline it gives nothing.
LEMMA PipelineUnlinkStageUnlinks ==
  ASSUME NEW p, Sound(heap, p, held), NEW l \in Luts, PipelineUnlinkStage(l)
  PROVE  Lists!Next
<1>1. Live(heap, l) /\ heap.lut[l].head # Nil
  BY DEF PipelineUnlinkStage, Alive, Live
<1>2. PICK c, h :
        /\ (c = heap.lut[l].head /\ h = UnlinkBegin(heap, l)) \/ (c = Last(CellsOf(heap, l)) /\ h = UnlinkEnd(heap, l))
        /\ \/ heap' = h /\ held' = Taken(held, c)
           \/ heap' = StageFree(h, c) /\ held' = held
  BY WhatIsUnlinked
<1>3. Owned(heap, p, held) /\ held \subseteq Cells /\ ~heap.lut[l].nil
  BY <1>1 DEF Sound, Owned, Live
<1>4. /\ CellsOf(heap, l) = p[l] /\ Linked(heap.next, heap.lut[l].head, p[l])
      /\ p[l] \in Seq(Cells) /\ Len(p[l]) \in Nat
  BY <1>3, PlacesAreChains
<1>5. p[l] # <<>>
  BY <1>1, <1>4 DEF Linked
<1> DEFINE e == StagesOf(heap, l)
           d == StagesOf(h, l)
           X == ListsOf(heap)
           Y == HandOf(heap, held)
<1>6. CASE c = heap.lut[l].head /\ h = UnlinkBegin(heap, l)
  <2> DEFINE t == RemoveAt(p[l], 1)
  <2>1. c = p[l][1] /\ TakenOut(h, heap, p, held, l, t, c)
    BY <1>3, <1>5, <1>6, FirstIsUnlinked
  <2>2. t \in Seq(Cells)
    <3>1. 1 \in 1 .. Len(p[l])
      BY <1>4, <1>5, EmptySeq
    <3>2. IsWithout(t, Cells, p[l], 1)
      BY <3>1, <1>4, WithoutOne
    <3>3. QED
      BY <3>2 DEF IsWithout
  <2>3. FirstOut(h, heap, l, c)
    BY <1>3, <1>5, <1>6, FirstIsGone
  <2>4. d = Tail(e) /\ e # <<>> /\ Head(e) = heap.stage[c]
    BY <2>3, Zenon DEF FirstOut
  <2> HIDE DEF t
  <2>5. /\ c \in Cells /\ c \in Lists!Empty /\ l \in Lists!Alive /\ X[l].elements = e
        /\ ListsOf(heap') = [X EXCEPT ![l] = Blessed([@ EXCEPT !.elements = d])]
        /\ HandOf(heap', held') = [Y EXCEPT ![c] = heap.stage[c]] \/ HandOf(heap', held') = Y
    BY <2>1, <2>2, <1>1, <1>2, OneIsUnlinked
  <2> HIDE DEF d, e, X, Y
  <2>6. Blessed([X[l] EXCEPT !.elements = d]) = UnlinkFirst(X[l])
    BY <2>4, <2>5, UnlinksAre
  <2>7. ListsOf(heap') = [X EXCEPT ![l] = UnlinkFirst(@)]
    BY <2>5, <2>6
  <2>8. CASE HandOf(heap', held') = [Y EXCEPT ![c] = heap.stage[c]]
    <3>1. X[l].elements # <<>> /\ HandOf(heap', held') = [Y EXCEPT ![c] = Head(X[l].elements)]
      BY <2>4, <2>5, <2>8
    <3>2. Lists!UnlinkStage(l, c, Lists!UnlinkFirst, Head)
      BY <3>1, <2>5, <2>7, MappedNow, MappedNext, SameUnlinks DEF Lists!UnlinkStage, X, Y
    <3>3. QED
      BY <3>2, <2>5 DEF Lists!Next
  <2>9. CASE HandOf(heap', held') = Y
    <3>1. Lists!UnlinkAndFree(l, Lists!UnlinkFirst)
      BY <2>5, <2>7, <2>9, MappedNow, MappedNext, SameUnlinks DEF Lists!UnlinkAndFree, X, Y
    <3>2. QED
      BY <3>1 DEF Lists!Next
  <2>10. QED
    BY <2>5, <2>8, <2>9
<1>7. CASE c = Last(CellsOf(heap, l)) /\ h = UnlinkEnd(heap, l)
  <2> DEFINE n == Len(p[l])
             i == n - 1
             t == RemoveAt(p[l], n)
  <2>11. i \in 0 .. n /\ n \in 1 .. n /\ NextTo(i, n) /\ EndsAt(p[l], n)
    BY <1>4, <1>5, EmptySeq DEF NextTo, EndsAt
  <2>12. c = p[l][n]
    BY <1>4, <1>7 DEF Last
  <2>13. i \in 0 .. Len(p[l]) /\ n \in 1 .. Len(p[l])
    BY <2>11
  <2>14. NextTo(i, n) /\ EndsAt(p[l], n)
    BY <2>11
  <2> HIDE DEF n, i
  <2>1. TakenOut(h, heap, p, held, l, t, c)
    BY <2>12, <2>13, <2>14, <1>3, <1>5, <1>7, LastIsUnlinked
  <2>2. t \in Seq(Cells)
    <3>1. IsWithout(t, Cells, p[l], n)
      BY <2>13, <1>4, WithoutOne
    <3>2. QED
      BY <3>1 DEF IsWithout
  <2>3. LastOut(h, heap, l, c)
    BY <2>12, <2>13, <2>14, <1>3, <1>5, <1>7, LastIsGone
  <2>4. d = Front(e) /\ e # <<>> /\ Last(e) = heap.stage[c]
    BY <2>3, Zenon DEF LastOut
  <2> HIDE DEF t
  <2>5. /\ c \in Cells /\ c \in Lists!Empty /\ l \in Lists!Alive /\ X[l].elements = e
        /\ ListsOf(heap') = [X EXCEPT ![l] = Blessed([@ EXCEPT !.elements = d])]
        /\ HandOf(heap', held') = [Y EXCEPT ![c] = heap.stage[c]] \/ HandOf(heap', held') = Y
    BY <2>1, <2>2, <1>1, <1>2, OneIsUnlinked
  <2> HIDE DEF d, e, X, Y
  <2>6. Blessed([X[l] EXCEPT !.elements = d]) = UnlinkLast(X[l])
    BY <2>4, <2>5, UnlinksAre
  <2>7. ListsOf(heap') = [X EXCEPT ![l] = UnlinkLast(@)]
    BY <2>5, <2>6
  <2>8. CASE HandOf(heap', held') = [Y EXCEPT ![c] = heap.stage[c]]
    <3>1. X[l].elements # <<>> /\ HandOf(heap', held') = [Y EXCEPT ![c] = Last(X[l].elements)]
      BY <2>4, <2>5, <2>8
    <3>2. Lists!UnlinkStage(l, c, Lists!UnlinkLast, Lists!Last)
      BY <3>1, <2>5, <2>7, MappedNow, MappedNext, SameUnlinks DEF Lists!UnlinkStage, X, Y
    <3>3. QED
      BY <3>2, <2>5 DEF Lists!Next
  <2>9. CASE HandOf(heap', held') = Y
    <3>1. Lists!UnlinkAndFree(l, Lists!UnlinkLast)
      BY <2>5, <2>7, <2>9, MappedNow, MappedNext, SameUnlinks DEF Lists!UnlinkAndFree, X, Y
    <3>2. QED
      BY <3>1 DEF Lists!Next
  <2>10. QED
    BY <2>5, <2>8, <2>9
<1>8. QED
  BY <1>2, <1>6, <1>7

----------------------------------------------------------------------------
\* t is s, and then u.
IsJoined(t, s, u) ==
  /\ Len(t) = Len(s) + Len(u)
  /\ \A k \in 1 .. Len(s) : t[k] = s[k]
  /\ \A k \in 1 .. Len(u) : t[Len(s) + k] = u[k]

\* Chains are joined one behind the other, and so are sequences of stages.
LEMMA JoinedIs ==
  ASSUME NEW S, NEW s \in Seq(S), NEW u \in Seq(S)
  PROVE  Joined(s, u) \in Seq(S) /\ IsJoined(Joined(s, u), s, u)
<1> DEFINE n == Len(s)
           t == Joined(s, u)
<1>1. n \in 0 .. Len(s) /\ t = Kept(s, n, u) /\ Len(u) \in Nat /\ n \in Nat
  BY LenProperties DEF Joined
<1>2. n = Len(s)
  OBVIOUS
<1> HIDE DEF n, t
<1>3. /\ t \in Seq(S) /\ Len(t) = n + Len(u)
      /\ \A k \in 1 .. Len(t) : t[k] = IF k <= n THEN s[k] ELSE u[k - n]
  BY <1>1, FirstKept
<1>4. ASSUME NEW k \in 1 .. n PROVE t[k] = s[k]
  <2>1. k \in 1 .. Len(t) /\ k <= n
    BY <1>1, <1>3
  <2>2. QED
    BY <2>1, <1>3
<1>5. ASSUME NEW k \in 1 .. Len(u) PROVE t[n + k] = u[k]
  <2> DEFINE j == n + k
  <2>1. j \in 1 .. Len(t) /\ ~(j <= n) /\ j - n = k
    BY <1>1, <1>3
  <2>2. j = n + k
    OBVIOUS
  <2> HIDE DEF j
  <2>3. t[j] = u[j - n]
    BY <2>1, <1>3
  <2>4. QED
    BY <2>1, <2>2, <2>3
<1>6. QED
  BY <1>2, <1>3, <1>4, <1>5 DEF IsJoined, t

LEMMA ConcatIs ==
  ASSUME NEW S, NEW e \in Seq(S), NEW f \in Seq(S)
  PROVE  e \o f \in Seq(S) /\ IsJoined(e \o f, e, f)
<1> DEFINE d == e \o f
<1>1. /\ d \in Seq(S) /\ Len(d) = Len(e) + Len(f) /\ Len(e) \in Nat /\ Len(f) \in Nat
      /\ \A k \in 1 .. Len(e) + Len(f) : d[k] = IF k <= Len(e) THEN e[k] ELSE f[k - Len(e)]
  BY ConcatProperties, LenProperties
<1> HIDE DEF d
<1>2. QED
  BY <1>1 DEF IsJoined, d

\* Two sequences are joined in one way only.
LEMMA JoinedOnce ==
  ASSUME NEW S, NEW e \in Seq(S), NEW f \in Seq(S), NEW d \in Seq(S), NEW c \in Seq(S),
         IsJoined(d, e, f), IsJoined(c, e, f)
  PROVE  d = c
<1>1. Len(e) \in Nat /\ Len(f) \in Nat /\ Len(d) = Len(e) + Len(f) /\ Len(c) = Len(d)
  BY LenProperties DEF IsJoined
<1>2. ASSUME NEW k \in 1 .. Len(d) PROVE d[k] = c[k]
  <2>1. CASE k \in 1 .. Len(e)
    BY <2>1 DEF IsJoined
  <2>2. CASE k \notin 1 .. Len(e)
    <3>1. k - Len(e) \in 1 .. Len(f) /\ k = Len(e) + (k - Len(e))
      BY <2>2, <1>1
    <3>2. QED
      BY <3>1 DEF IsJoined
  <2>3. QED
    BY <2>1, <2>2
<1>3. QED
  BY <1>1, <1>2, SeqEqual

\* e has what st says of the members of s.
IsRead(e, s, st) == Len(e) = Len(s) /\ \A k \in 1 .. Len(s) : e[k] = st[s[k]]

\* The stages of joined chains are those of the one and then those of the other.
LEMMA StagesOfJoined ==
  ASSUME NEW st, NEW s, NEW u, NEW t, IsJoined(t, s, u), Len(s) \in Nat, Len(u) \in Nat,
         NEW e, IsRead(e, s, st), NEW f, IsRead(f, u, st), NEW d, IsRead(d, t, st)
  PROVE  IsJoined(d, e, f)
<1> USE DEF IsRead
<1>1. Len(t) = Len(s) + Len(u)
  BY DEF IsJoined
<1>2. ASSUME NEW k \in 1 .. Len(s) PROVE d[k] = e[k]
  <2>1. k \in 1 .. Len(t) /\ t[k] = s[k]
    BY <1>1 DEF IsJoined
  <2>2. QED
    BY <2>1
<1>3. ASSUME NEW k \in 1 .. Len(u) PROVE d[Len(s) + k] = f[k]
  <2> DEFINE j == Len(s) + k
  <2>1. t[j] = u[k]
    BY Zenon DEF IsJoined
  <2>2. j \in 1 .. Len(t)
    BY <1>1
  <2> HIDE DEF j
  <2>3. d[j] = st[t[j]] /\ f[k] = st[u[k]]
    BY <2>2
  <2>4. QED
    BY <2>1, <2>3 DEF j
<1>4. QED
  BY <1>1, <1>2, <1>3 DEF IsJoined

\* The stages of a pipeline whose chain is as it was, and its stages too.
LEMMA StagesStay ==
  ASSUME NEW h, NEW p, NEW H, Owned(h, p, H), NEW m \in Luts,
         NEW g, NEW q, NEW G, Owned(g, q, G), q[m] = p[m],
         \A k \in 1 .. Len(p[m]) : g.stage[p[m][k]] = h.stage[p[m][k]]
  PROVE  StagesOf(g, m) = StagesOf(h, m)
<1>1. StagesOf(h, m) = [j \in 1 .. Len(p[m]) |-> h.stage[p[m][j]]]
  BY PlacesAreChains
<1>2. StagesOf(g, m) = [j \in 1 .. Len(q[m]) |-> g.stage[q[m][j]]]
  BY PlacesAreChains
<1>3. QED
  BY <1>1, <1>2

\* The stages of m have gone to l.
LEMMA StagesAreJoined ==
  ASSUME NEW h, NEW p, NEW H, Owned(h, p, H), NEW l \in Luts, NEW m \in Luts,
         NEW g, NEW q, NEW G, Owned(g, q, G), g.stage = h.stage, q[l] = Joined(p[l], p[m])
  PROVE  StagesOf(g, l) = StagesOf(h, l) \o StagesOf(h, m)
<1> DEFINE e == StagesOf(h, l)
           f == StagesOf(h, m)
           d == StagesOf(g, l)
<1>1. /\ e \in Seq(StagesOrNone) /\ Len(e) = Len(p[l]) /\ Len(e) \in Nat
      /\ \A k \in 1 .. Len(p[l]) : e[k] = h.stage[p[l][k]]
  BY StagesAre
<1>2. /\ f \in Seq(StagesOrNone) /\ Len(f) = Len(p[m]) /\ Len(f) \in Nat
      /\ \A k \in 1 .. Len(p[m]) : f[k] = h.stage[p[m][k]]
  BY StagesAre
<1>3. /\ d \in Seq(StagesOrNone) /\ Len(d) = Len(q[l]) /\ Len(d) \in Nat
      /\ \A k \in 1 .. Len(q[l]) : d[k] = g.stage[q[l][k]]
  BY StagesAre
<1> HIDE DEF e, f, d
<1>4. p[l] \in Seq(Cells) /\ p[m] \in Seq(Cells) /\ Len(p[l]) \in Nat /\ Len(p[m]) \in Nat
  BY PlacesAreChains
<1>5. IsJoined(q[l], p[l], p[m])
  BY <1>4, JoinedIs
<1>6. \A k \in 1 .. Len(q[l]) : d[k] = h.stage[q[l][k]]
  BY <1>3
<1>7. IsJoined(d, e, f)
  <2>1. IsRead(e, p[l], h.stage) /\ IsRead(f, p[m], h.stage)
    BY <1>1, <1>2 DEF IsRead
  <2>2. IsRead(d, q[l], h.stage)
    BY <1>3, <1>6 DEF IsRead
  <2>3. QED
    BY <2>1, <2>2, <1>4, <1>5, StagesOfJoined, Zenon
<1>8. e \in Seq(StagesOrNone) /\ f \in Seq(StagesOrNone) /\ d \in Seq(StagesOrNone)
  BY <1>1, <1>2, <1>3
<1>9. d = e \o f
  BY <1>7, <1>8, ConcatIs, JoinedOnce
<1>10. QED
  BY <1>9 DEF d, e, f

\* All stages go from one pipeline to another.
LEMMA MovedIs ==
  ASSUME NEW p \in Chains, NEW l \in Luts, NEW m \in Luts, l # m, NEW q, q = Moved(p, l, m)
  PROVE  /\ q[l] = Joined(p[l], p[m]) /\ q[m] = <<>>
         /\ \A k \in Luts \ {l, m} : q[k] = p[k]
<1>1. p \in [Luts -> Seq(Cells)]
  BY DEF Chains
<1> DEFINE a == With(p, m, <<>>)
<1>2. /\ DOMAIN a = Luts /\ a[m] = <<>> /\ \A k \in Luts \ {m} : a[k] = p[k]
  BY <1>1 DEF With
<1>3. q = With(a, l, Joined(p[l], p[m]))
  BY DEF Moved
<1> HIDE DEF a
<1>4. q[l] = Joined(p[l], p[m]) /\ \A k \in Luts \ {l} : q[k] = a[k]
  BY <1>2, <1>3 DEF With
<1>5. QED
  BY <1>2, <1>4

\* Two pipelines were relinked, the others stay.
LEMMA TwoListsChange ==
  ASSUME NEW h, NEW p, NEW H, Owned(h, p, H), NEW l \in Luts, NEW m \in Luts, l # m,
         NEW g, NEW q, NEW G, Owned(g, q, G), g.stage = h.stage,
         \A k \in Luts \ {l, m} : q[k] = p[k] /\ g.lut[k] = h.lut[k],
         NEW x, x = ListOf(g, l), NEW y, y = ListOf(g, m)
  PROVE  ListsOf(g) = [ListsOf(h) EXCEPT ![l] = x, ![m] = y]
<1>1. ASSUME NEW k \in Luts \ {l, m} PROVE ListOf(g, k) = ListOf(h, k)
  <2>3. StagesOf(g, k) = StagesOf(h, k)
    <3>1. q[k] = p[k] /\ k \in Luts
      OBVIOUS
    <3>2. QED
      BY <3>1, StagesStay
  <2>4. QED
    BY <2>3 DEF ListOf
<1>2. QED
  BY <1>1 DEF ListsOf

\* The two changes of a steal, and those two in one.
LEMMA TwoExcept ==
  ASSUME NEW x, DOMAIN x = Luts, NEW l \in Luts, NEW m \in Luts, l # m, NEW a,
         NEW b, b = [x[m] EXCEPT !.elements = <<>>]
  PROVE  [x EXCEPT ![l] = a, ![m].elements = <<>>] = [x EXCEPT ![l] = a, ![m] = b]
<1> DEFINE y == [x EXCEPT ![l] = a]
<1>1. y[m] = x[m]
  OBVIOUS
<1> HIDE DEF y
<1>2. [y EXCEPT ![m] = [y[m] EXCEPT !.elements = <<>>]] = [y EXCEPT ![m] = b]
  BY <1>1, Zenon
<1>3. QED
  BY <1>2, Zenon DEF y

Stolen(x, l, m) ==
  [x EXCEPT ![l] = Blessed([@ EXCEPT !.elements = x[l].elements \o x[m].elements]), ![m].elements = <<>>]

Changed(x, l, a, m, b) == [x EXCEPT ![l] = a, ![m] = b]

\* A steal as the abstract module writes it.
LEMMA IsStolenOnce ==
  ASSUME NEW x, DOMAIN x = Luts, NEW l \in Luts, NEW m \in Luts, l # m
  PROVE  Stolen(x, l, m) = Changed(x, l, Blessed([x[l] EXCEPT !.elements = x[l].elements \o x[m].elements]),
                                   m, [x[m] EXCEPT !.elements = <<>>])
<1> DEFINE a == Blessed([x[l] EXCEPT !.elements = x[l].elements \o x[m].elements])
           b == [x[m] EXCEPT !.elements = <<>>]
<1>1. Stolen(x, l, m) = [x EXCEPT ![l] = a, ![m].elements = <<>>]
  BY DEF Stolen
<1>2. b = [x[m] EXCEPT !.elements = <<>>]
  OBVIOUS
<1> HIDE DEF a, b
<1>3. [x EXCEPT ![l] = a, ![m].elements = <<>>] = [x EXCEPT ![l] = a, ![m] = b]
  BY <1>2, TwoExcept
<1>4. Stolen(x, l, m) = Changed(x, l, a, m, b)
  BY <1>1, <1>3 DEF Changed
<1>5. QED
  BY <1>4 DEF a, b

\* After a steal the one pipeline has the stages of both and the other none.
LEMMA PipelinesAreStolen ==
  ASSUME NEW h, NEW p, NEW H, Sound(h, p, H), NEW l \in Luts, NEW m \in Luts, l # m,
         Live(h, l), Live(h, m),
         NEW g, Sound(g, Moved(p, l, m), H), IsStolen(g, h, p, l, m),
         NEW x, x = ListsOf(h)
  PROVE  ListsOf(g) = Stolen(x, l, m)
<1> DEFINE q == Moved(p, l, m)
           e == StagesOf(h, l)
           f == StagesOf(h, m)
<1>1. Owned(h, p, H) /\ Owned(g, q, H) /\ p \in Chains /\ h \in Heaps
  BY DEF Sound, Owned, Chains
<1>2. q[l] = Joined(p[l], p[m]) /\ q[m] = <<>> /\ \A k \in Luts \ {l, m} : q[k] = p[k]
  BY <1>1, MovedIs
<1>3. EndsAre(g, q, l)
  BY DEF Sound
<1> HIDE DEF q
<1>4. /\ g.stage = h.stage /\ \A k \in Luts \ {l, m} : g.lut[k] = h.lut[k]
      /\ g.lut[l].nil = h.lut[l].nil
      /\ q[l] = <<>> => g.lut[l].in = h.lut[l].in /\ g.lut[l].out = h.lut[l].out
      /\ g.lut[m].nil = h.lut[m].nil /\ g.lut[m].in = h.lut[m].in /\ g.lut[m].out = h.lut[m].out
  BY <1>2 DEF IsStolen
<1>5. StagesOf(g, l) = e \o f
  BY <1>1, <1>2, <1>4, StagesAreJoined
<1>6. StagesOf(g, m) = <<>>
  BY <1>1, <1>2, StagesAre
<1>7. Live(g, l) /\ Live(g, m)
  BY <1>4 DEF Live
<1>8. x[l] = LiveList(h.lut[l].in, h.lut[l].out, e) /\ x[m] = LiveList(h.lut[m].in, h.lut[m].out, f)
  BY <1>1, NilOf
<1> HIDE DEF e, f
<1>9. ListOf(g, l) = Blessed(LiveList(h.lut[l].in, h.lut[l].out, e \o f))
  <2>1. ListOf(g, l) = Blessed(LiveList(h.lut[l].in, h.lut[l].out, StagesOf(g, l)))
    BY <1>1, <1>3, <1>4, <1>7, ListIsBlessed
  <2>2. QED
    BY <2>1, <1>5
<1>10. ListOf(g, m) = LiveList(h.lut[m].in, h.lut[m].out, <<>>)
  BY <1>4, <1>6, <1>7 DEF ListOf, Live
<1>11. ListsOf(g) = [x EXCEPT ![l] = ListOf(g, l), ![m] = ListOf(g, m)]
  BY <1>1, <1>2, <1>4, TwoListsChange
<1> DEFINE a == LiveList(h.lut[l].in, h.lut[l].out, e)
           b == LiveList(h.lut[m].in, h.lut[m].out, f)
<1>12. [a EXCEPT !.elements = e \o f] = LiveList(h.lut[l].in, h.lut[l].out, e \o f)
  <2>1. ASSUME NEW d PROVE [a EXCEPT !.elements = d] = LiveList(h.lut[l].in, h.lut[l].out, d)
    BY FieldsOf
  <2>2. QED
    BY <2>1, Zenon
<1>18. [b EXCEPT !.elements = <<>>] = LiveList(h.lut[m].in, h.lut[m].out, <<>>)
  BY FieldsOf
<1>19. a.elements = e /\ b.elements = f
  BY FieldsOf
<1>13. x[l] = a /\ x[m] = b
  BY <1>8
<1> HIDE DEF a, b
<1>14. ListOf(g, l) = Blessed([x[l] EXCEPT !.elements = x[l].elements \o x[m].elements])
  BY <1>9, <1>12, <1>13, <1>19
<1>15. ListOf(g, m) = [x[m] EXCEPT !.elements = <<>>]
  BY <1>10, <1>18, <1>13
<1>16. DOMAIN x = Luts
  BY DEF ListsOf
<1>20. ListsOf(g) = Changed(x, l, ListOf(g, l), m, ListOf(g, m))
  BY <1>11 DEF Changed
<1>17. QED
  <2>1. Stolen(x, l, m) = Changed(x, l, Blessed([x[l] EXCEPT !.elements = x[l].elements \o x[m].elements]),
                                  m, [x[m] EXCEPT !.elements = <<>>])
    BY <1>16, IsStolenOnce, Zenon
  <2>2. QED
    BY <2>1, <1>14, <1>15, <1>20, Zenon

\* cmsPipelineCatSteal: linking the chain of one pipeline behind the last stage of another is to
\* concatenate the sequences.
LEMMA StealSteals ==
  ASSUME NEW p, Sound(heap, p, held), NEW l \in Luts, NEW m \in Luts, l # m,
         Live(heap, l), Live(heap, m), heap' = PipelineCatSteal(heap, l, m), held' = held
  PROVE  Lists!Next
<1>1. Sound(heap', Moved(p, l, m), held) /\ IsStolen(heap', heap, p, l, m)
  BY SoundAfterSteal
<1> DEFINE x == ListsOf(heap)
<1>2. ListsOf(heap') = Stolen(x, l, m)
  BY <1>1, PipelinesAreStolen
<1> HIDE DEF x
<1>3. HandOf(heap', held') = HandOf(heap, held)
  BY <1>1, HandStays DEF IsStolen
<1>4. l \in Lists!Alive /\ m \in Lists!Alive
  BY AliveIs
<1>5. [k \in Luts |-> AsList(k)] = x
  BY MappedNow DEF x
<1>6. Lists!Steal(l, m)
  BY <1>2, <1>3, <1>4, <1>5, MappedNow, MappedNext, SameBlessed DEF Lists!Steal, Stolen
<1>7. QED
  BY <1>6 DEF Lists!Next

----------------------------------------------------------------------------
\* Copies of curves, stages and pipelines are the same operators on both sides.
LEMMA SameCurves ==
  /\ Lists!NoCurve = NoCurve /\ Lists!BuildGamma(Lists!One) = BuildGamma(One)
  /\ \A c : Lists!DupToneCurve(c) = DupToneCurve(c)
<1>1. Lists!NoCurve = NoCurve /\ Lists!One = One /\ Lists!MaxEntries = MaxEntries
  BY DEF Lists!NoCurve, NoCurve, Lists!One, One, Lists!MaxEntries, MaxEntries
<1>2. \A s, t : Lists!AllocateToneCurveStruct(s, t) = AllocateToneCurveStruct(s, t)
  BY <1>1 DEF Lists!AllocateToneCurveStruct, AllocateToneCurveStruct
<1>3. \A n : Lists!Ramp(n) = Ramp(n)
  BY DEF Lists!Ramp, Ramp
<1>4. \A x : Lists!EntriesByGamma(x) = EntriesByGamma(x)
  BY <1>1 DEF Lists!EntriesByGamma, EntriesByGamma
<1>5. \A s : Lists!EntriesOf(s) = EntriesOf(s)
  BY <1>1, <1>4 DEF Lists!EntriesOf, EntriesOf
<1>6. \A s : Lists!BuildSegmentedCurve(s) = BuildSegmentedCurve(s)
  BY <1>2, <1>3, <1>5 DEF Lists!BuildSegmentedCurve, BuildSegmentedCurve
<1>7. \A t, x : Lists!Segment(t, x) = Segment(t, x)
  BY DEF Lists!Segment, Segment, Lists!SegmentTo, SegmentTo, Lists!PlusInfinity, PlusInfinity
<1>8. Lists!ParametricTypes = ParametricTypes
  BY DEF Lists!ParametricTypes, ParametricTypes
<1>9. \A t, x : Lists!BuildParametricCurve(t, x) = BuildParametricCurve(t, x)
  BY <1>1, <1>6, <1>7, <1>8 DEF Lists!BuildParametricCurve, BuildParametricCurve
<1>10. Lists!BuildGamma(Lists!One) = BuildGamma(One)
  BY <1>1, <1>9 DEF Lists!BuildGamma, BuildGamma
<1>11. \A c : Lists!DupToneCurve(c) = DupToneCurve(c)
  BY <1>2 DEF Lists!DupToneCurve, DupToneCurve
<1>12. QED
  BY <1>1, <1>10, <1>11

LEMMA SameStageDup == \A s : Lists!StageDup(s) = StageDup(s)
<1>1. \A t, i, o, d : Lists!StageAllocPlaceholder(t, i, o, d) = StageAllocPlaceholder(t, i, o, d)
  BY DEF Lists!StageAllocPlaceholder, StageAllocPlaceholder
<1>2. \A n, c : Lists!StageAllocToneCurves(n, c) = StageAllocToneCurves(n, c)
  BY <1>1, SameCurves, SameNone DEF Lists!StageAllocToneCurves, StageAllocToneCurves
<1>3. QED
  BY <1>2 DEF Lists!StageDup, StageDup

LEMMA SameDup == \A x : Lists!PipelineDup(x) = PipelineDup(x)
<1>1. Lists!MaxChannels = MaxChannels
  BY DEF Lists!MaxChannels, MaxChannels
<1>2. QED
  BY <1>1, SameStageDup, SameNone, SameBlessed, SameConsistent DEF Lists!PipelineDup, PipelineDup

\* A copy of a stage is like it: tables are copied, curves rebuilt.
LEMMA StagesAreDup == \A s \in Stages : StageDup(s) = s
<1>1. \A m : StageDup(StageAllocMatrix(3, 3, m, <<>>)) = StageAllocMatrix(3, 3, m, <<>>)
  BY DEF StageDup, StageAllocMatrix, StageAllocPlaceholder
<1>2. QED
  BY <1>1, KindsAssumption DEF Stages, WellMade

\* A copy of a sound pipeline is like it.
LEMMA DupIsLike ==
  ASSUME NEW i, NEW o, NEW e \in Seq(Stages), NEW x, x = LiveList(i, o, e), Blessed(x) = x
  PROVE  PipelineDup(x) = IF i >= MaxChannels \/ o >= MaxChannels \/ ~Consistent(e) THEN NoPipeline ELSE x
<1>1. x.elements = e /\ x.in = i /\ x.out = o /\ ~x.nil /\ [x EXCEPT !.elements = e] = x
  <2>1. x.elements = e /\ x.in = i /\ x.out = o /\ x.nil = No
    BY FieldsOf
  <2>2. [LiveList(i, o, e) EXCEPT !.elements = e] = LiveList(i, o, e)
    BY FieldsOf
  <2>3. QED
    BY <2>1, <2>2, Zenon DEF No
<1>2. [k \in DOMAIN e |-> StageDup(e[k])] = e
  <2>1. e \in [1 .. Len(e) -> Stages] /\ DOMAIN e = 1 .. Len(e)
    BY LenProperties
  <2>2. \A k \in DOMAIN e : StageDup(e[k]) = e[k]
    BY <2>1, StagesAreDup
  <2>3. QED
    BY <2>1, <2>2
<1>3. [x EXCEPT !.elements = [k \in DOMAIN @ |-> StageDup(@[k])]] = x
  BY <1>1, <1>2, Zenon
<1>4. QED
  BY <1>1, <1>3 DEF PipelineDup

\* Stages of a pipeline are stages as the allocators make them.
LEMMA StagesAreSound ==
  ASSUME NEW h, NEW p, NEW H, Owned(h, p, H), NEW l \in Luts, NEW e, e = StagesOf(h, l)
  PROVE  e \in Seq(Stages)
<1>1. /\ Len(p[l]) \in Nat /\ p[l] \in [1 .. Len(p[l]) -> Cells] /\ e = [k \in 1 .. Len(p[l]) |-> h.stage[p[l][k]]]
  BY PlacesAreChains
<1>2. h.stage \in [Cells -> StagesOrNone] /\ \A k \in 1 .. Len(p[l]) : h.stage[p[l][k]] # NoStage
  BY DEF Owned, Heaps
<1>3. e \in [1 .. Len(p[l]) -> Stages]
  BY <1>1, <1>2 DEF StagesOrNone
<1>4. QED
  BY <1>1, <1>3, FunctionsAreSeqs

\* The pipelines after cmsPipelineDup.
LEMMA CopyChanges ==
  ASSUME NEW h, NEW p, NEW H, Sound(h, p, H), NEW l \in Luts, NEW m \in Luts, l # m, Live(h, l),
         NEW g, NEW u, Sound(g, With(p, m, u), H), IsCopy(g, h, p, l, m, u)
  PROVE  ListsOf(g) = [ListsOf(h) EXCEPT ![m] = ListOf(h, l)]
<1> DEFINE q == With(p, m, u)
           e == StagesOf(h, l)
           d == StagesOf(g, m)
           i == h.lut[l].in
           o == h.lut[l].out
<1>1. Owned(h, p, H) /\ Owned(g, q, H) /\ EndsAre(h, p, l) /\ EndsAre(g, q, m)
  BY DEF Sound
<1>2. q[m] = u /\ \A k \in Luts \ {m} : q[k] = p[k]
  BY <1>1 DEF Owned, With
<1>3. SameElsewhere(g, h, p, m)
  BY <1>1, OthersStay DEF IsCopy
<1>4. ListsOf(g) = [ListsOf(h) EXCEPT ![m] = ListOf(g, m)]
  BY <1>1, <1>3, OneListChanges
<1> HIDE DEF q
<1>5. /\ Len(u) = Len(p[l]) /\ \A k \in 1 .. Len(u) : g.stage[u[k]] = h.stage[p[l][k]]
      /\ g.lut[m].nil = h.lut[l].nil
      /\ u = <<>> => g.lut[m].in = h.lut[l].in /\ g.lut[m].out = h.lut[l].out
  BY DEF IsCopy
<1>6. d = e
  <2>1. e = [k \in 1 .. Len(p[l]) |-> h.stage[p[l][k]]]
    BY <1>1, PlacesAreChains
  <2>2. d = [k \in 1 .. Len(q[m]) |-> g.stage[q[m][k]]]
    BY <1>1, PlacesAreChains
  <2>3. QED
    BY <2>1, <2>2, <1>2, <1>5
<1>7. Live(g, m)
  BY <1>5 DEF Live
<1>8. ListOf(h, l) = Blessed(LiveList(i, o, e))
  BY <1>1, ListIsBlessed
<1>9. ListOf(g, m) = Blessed(LiveList(i, o, d))
  BY <1>1, <1>2, <1>5, <1>7, ListIsBlessed
<1>10. ListOf(g, m) = ListOf(h, l)
  BY <1>6, <1>8, <1>9
<1>11. QED
  BY <1>4, <1>10

\* The list of a sound pipeline has the channels of its ends.
LEMMA BlessedAlready ==
  ASSUME NEW h, NEW p, NEW H, Sound(h, p, H), NEW l \in Luts, Live(h, l)
  PROVE  /\ Blessed(ListOf(h, l)) = ListOf(h, l)
         /\ ListOf(h, l) = LiveList(h.lut[l].in, h.lut[l].out, StagesOf(h, l))
<1>1. ListOf(h, l) = Blessed(LiveList(h.lut[l].in, h.lut[l].out, StagesOf(h, l)))
  BY ListIsBlessed DEF Sound
<1>2. ListOf(h, l) = LiveList(h.lut[l].in, h.lut[l].out, StagesOf(h, l))
  BY DEF ListOf, Live
<1>3. QED
  BY <1>1, <1>2

\* cmsPipelineDup, stage by stage along the chain, is the copy of the sequence.
LEMMA PipelineDuplicateDups ==
  ASSUME NEW p, Sound(heap, p, held), NEW l \in Luts, NEW m \in Luts, PipelineDuplicate(l, m)
  PROVE  Lists!Next
<1> DEFINE i == heap.lut[l].in
           o == heap.lut[l].out
           e == StagesOf(heap, l)
           x == ListsOf(heap)
<1>1. /\ Live(heap, l) /\ ~Live(heap, m) /\ held' = held
      /\ heap' = CopyOf(heap, l, m) /\ Cardinality(FreeCells(heap)) >= Len(CellsOf(heap, l))
  BY DEF PipelineDuplicate, Alive, Live, RoomFor
<1>2. Owned(heap, p, held) /\ heap \in Heaps
  BY DEF Sound, Owned
<1>3. Cardinality(FreeCells(heap)) >= Len(p[l])
  BY <1>1, <1>2, PlacesAreChains
<1>4. \/ DupRefused(heap, l) /\ heap' = heap
      \/ ~DupRefused(heap, l) /\ \E u : Sound(heap', With(p, m, u), held) /\ IsCopy(heap', heap, p, l, m, u)
  BY <1>1, <1>3, SoundAfterDup
<1>5. l # m /\ l \in Lists!Alive /\ m \notin Lists!Alive
  BY <1>1, AliveIs
<1>6. x[l] = LiveList(i, o, e) /\ Blessed(x[l]) = x[l] /\ x[l] = ListOf(heap, l)
  BY <1>1, <1>2, BlessedAlready, NilOf
<1>7. x[m] = NoPipeline /\ DOMAIN x = Luts
  BY <1>1, <1>2, NilOf DEF ListsOf
<1>8. e \in Seq(Stages)
  BY <1>2, StagesAreSound
<1>9. DupRefused(heap, l) <=> (i >= MaxChannels \/ o >= MaxChannels \/ ~Consistent(e))
  BY DEF DupRefused, PipelineAlloc, NoPipeline
<1> HIDE DEF i, o, e, x
<1>10. PipelineDup(x[l]) = IF i >= MaxChannels \/ o >= MaxChannels \/ ~Consistent(e) THEN NoPipeline ELSE x[l]
  BY <1>6, <1>8, DupIsLike
<1>11. PipelineDup(x[l]) = IF DupRefused(heap, l) THEN NoPipeline ELSE x[l]
  BY <1>9, <1>10
<1>12. /\ ListsOf(heap') = [x EXCEPT ![m] = PipelineDup(x[l])]
       /\ HandOf(heap', held') = HandOf(heap, held)
  <2>1. CASE DupRefused(heap, l)
    <3>1. heap' = heap
      BY <2>1, <1>4
    <3>2. [x EXCEPT ![m] = NoPipeline] = x
      BY <1>7 DEF ListsOf, x
    <3>3. QED
      BY <3>1, <3>2, <2>1, <1>1, <1>11 DEF x
  <2>2. CASE ~DupRefused(heap, l)
    <3>1. PICK u : Sound(heap', With(p, m, u), held) /\ IsCopy(heap', heap, p, l, m, u)
      BY <2>2, <1>4
    <3>2. ListsOf(heap') = [x EXCEPT ![m] = x[l]]
      BY <3>1, <1>1, <1>5, <1>6, CopyChanges DEF x
    <3>3. \A c \in held : heap'.stage[c] = heap.stage[c]
      BY <3>1, <1>2 DEF IsCopy, Grows, Owned
    <3>4. HandOf(heap', held) = HandOf(heap, held)
      BY <3>3, HandStays
    <3>5. QED
      BY <3>2, <3>4, <2>2, <1>1, <1>11
  <2>3. QED
    BY <2>1, <2>2
<1>13. [k \in Luts |-> AsList(k)] = x
  BY MappedNow DEF x
<1>14. Lists!Dup(l, m)
  BY <1>5, <1>12, <1>13, MappedNow, MappedNext, SameDup DEF Lists!Dup
<1>15. QED
  BY <1>14 DEF Lists!Next

----------------------------------------------------------------------------
\* A copy of stage s goes to the end of the list.
LEMMA CatCopyAppends ==
  ASSUME NEW x, NEW q, NEW H, Owned(x, q, H), NEW l \in Luts, Live(x, l),
         NEW c \in Cells, x.stage[c] = NoStage, NEW v \in Stages,
         NEW g, g = InsertEnd(NewStage(x, c, v), l, c)
  PROVE  /\ StagesOf(g, l) = After(StagesOf(x, l), v)
         /\ ListOf(g, l) = Blessed([ListOf(x, l) EXCEPT !.elements = StagesOf(g, l)])
<1> DEFINE o == q[l]
           n == Len(q[l])
           t == LastIn(q, l, c)
<1>1. IsNow(x, g, q, l, t, H) /\ g.stage = Made(x.stage, c, v)
  <2>1. c \in FreeCells(x)
    BY DEF FreeCells
  <2>2. QED
    BY <2>1, EndIsMadeAndBlessed
<1>2. o \in Seq(Cells) /\ n \in 0 .. Len(o) /\ EndsAt(o, n) /\ t = Inserted(o, n, c)
  BY PlacesAreChains DEF EndsAt, LastIn
<1>3. o = q[l]
  OBVIOUS
<1> HIDE DEF o, n, t
<1>4. IsInserted(t, o, n, c)
  BY <1>2, InsertedOne
<1>5. t \in Seq(Cells)
  BY <1>4 DEF IsInserted
<1>6. g.stage[c] = v /\ \A d \in Cells : d # c => g.stage[d] = x.stage[d]
  BY <1>1 DEF Made, Owned, Heaps
<1>7. StaysIn(g, x, o)
  <2>1. \A k \in 1 .. Len(q[l]) : q[l][k] # c /\ q[l][k] \in Cells
    <3>1. \A k \in 1 .. Len(q[l]) : x.stage[q[l][k]] # NoStage
      BY DEF Owned
    <3>2. QED
      BY <3>1, PlacesAreChains
  <2>2. QED
    BY <2>1, <1>3, <1>6 DEF StaysIn
<1>8. Owned(g, With(q, l, t), H)
  BY <1>1 DEF IsNow
<1>9. StagesOf(g, l) = After(StagesOf(x, l), v)
  <2>1. v = g.stage[c]
    BY <1>6
  <2>2. EndsAt(o, n)
    BY <1>2
  <2>3. QED
    BY <2>1, <2>2, <1>3, <1>4, <1>7, <1>8, OneAfterThem
<1>10. ListOf(g, l) = Blessed([ListOf(x, l) EXCEPT !.elements = StagesOf(g, l)])
  BY <1>1, <1>5, NowIs
<1>11. QED
  BY <1>9, <1>10

\* The values the loop of the abstract cmsPipelineCat leaves.
ListLoop(a, n, z, e) ==
  a = [k \in 0 .. n |-> IF k = 0 THEN [ok |-> TRUE, p |-> z] ELSE CatStep(a[k - 1], e[k])]

\* The loop over the sequence has values for every number of rounds.
LEMMA ListLoopExists ==
  ASSUME NEW n \in Nat, NEW z, NEW e
  PROVE  \E a : ListLoop(a, n, z, e)
<1> DEFINE Upto == {k \in 0 .. n : \E a : ListLoop(a, k, z, e)}
<1>1. 0 \in Upto
  <2> DEFINE a == [k \in 0 .. 0 |-> [ok |-> TRUE, p |-> z]]
  <2>1. ListLoop(a, 0, z, e)
    BY DEF ListLoop
  <2> HIDE DEF a
  <2>2. 0 \in 0 .. n
    OBVIOUS
  <2>3. QED
    BY <2>1, <2>2
<1>2. ASSUME NEW i \in 0 .. n, i \in Upto, i < n PROVE i + 1 \in Upto
  <2>1. PICK a : ListLoop(a, i, z, e)
    BY <1>2
  <2> DEFINE b == [k \in 0 .. i + 1 |-> IF k <= i THEN a[k] ELSE CatStep(a[i], e[i + 1])]
  <2>2. ASSUME NEW k \in 0 .. i + 1
        PROVE  b[k] = IF k = 0 THEN [ok |-> TRUE, p |-> z] ELSE CatStep(b[k - 1], e[k])
    <3>1. CASE k <= i
      <4>1. k \in 0 .. i /\ b[k] = a[k] /\ (k # 0 => k - 1 \in 0 .. i + 1 /\ k - 1 <= i)
        BY <3>1
      <4>2. k # 0 => b[k - 1] = a[k - 1]
        BY <4>1
      <4>3. a[k] = IF k = 0 THEN [ok |-> TRUE, p |-> z] ELSE CatStep(a[k - 1], e[k])
        BY <4>1, <2>1 DEF ListLoop
      <4> HIDE DEF b
      <4>4. QED
        BY <4>1, <4>2, <4>3
    <3>2. CASE ~(k <= i)
      <4>1. k # 0 /\ k - 1 = i /\ i \in 0 .. i + 1 /\ b[i] = a[i] /\ k = i + 1
        BY <3>2
      <4>2. b[k] = CatStep(a[i], e[i + 1])
        BY <3>2
      <4> HIDE DEF b
      <4>3. QED
        BY <4>1, <4>2
    <3>3. QED
      BY <3>1, <3>2
  <2>3. b = [k \in 0 .. i + 1 |-> b[k]]
    OBVIOUS
  <2> HIDE DEF b
  <2>4. ListLoop(b, i + 1, z, e)
    BY <2>2, <2>3 DEF ListLoop
  <2>5. i + 1 \in 0 .. n
    BY <1>2
  <2>6. QED
    BY <2>4, <2>5
<1> HIDE DEF Upto
<1>3. 0 .. n \subseteq Upto
  BY <1>1, <1>2, Induction
<1>4. n \in Upto
  BY <1>3
<1>5. QED
  BY <1>4 DEF Upto

ListLoopRuns(a, n, z, e) ==
  /\ a[0].ok = TRUE /\ a[0].p = z
  /\ \A j \in 0 .. n : j + 1 \in 0 .. n => a[j + 1] = CatStep(a[j], e[j + 1])

\* They are unique, so these are those the abstract cmsPipelineCat chooses.
LEMMA ListLoopIs ==
  ASSUME NEW n \in Nat, NEW z, NEW e, NEW a, ListLoop(a, n, z, e)
  PROVE  ListLoopRuns(a, n, z, e)
<1>1. \A k \in 0 .. n : a[k] = IF k = 0 THEN [ok |-> TRUE, p |-> z] ELSE CatStep(a[k - 1], e[k])
  BY DEF ListLoop
<1>2. 0 \in 0 .. n /\ \A j \in 0 .. n : j + 1 # 0 /\ (j + 1) - 1 = j
  OBVIOUS
<1>3. QED
  BY <1>1, <1>2 DEF ListLoopRuns

\* The list as it is after each round is the list of the heap.
InStep(h, p, H, l, s, j, r, b) ==
  /\ r.ok \in BOOLEAN /\ b.ok = r.ok
  /\ b.p = ListOf(r.h, l)
  /\ \E i \in 0 .. j :
       /\ \E t : Copying(h, p, H, l, s, i, r.h, t) /\ Sound(r.h, With(p, l, t), H)
       /\ r.ok => i = j

\* One round appends a copy of a stage and sets the channels.
LEMMA CatStepIs ==
  ASSUME NEW b, NEW s, s # NoStage, StageDup(s) = s
  PROVE  /\ b.ok => CatStep(b, s) = Done([b.p EXCEPT !.elements = Append(@, s)])
         /\ ~b.ok => CatStep(b, s) = b
BY DEF CatStep, InsertAtEnd

\* If the loop over the chain and the loop over the sequence agree before a
\* round, they agree after it.
LEMMA InStepRound ==
  ASSUME NEW h, NEW p, NEW H, Sound(h, p, H), NEW l \in Luts, ~h.lut[l].nil, NEW s, ToCopy(h, s),
         NEW j \in 0 .. Len(s), NEW k \in 1 .. Len(s), NextTo(j, k),
         NEW r, NEW b, InStep(h, p, H, l, s, j, r, b),
         NEW g, g = CatCopy(r, l, s[k]), NEW d, d = CatStep(b, h.stage[s[k]])
  PROVE  InStep(h, p, H, l, s, k, g, d)
<1> DEFINE v == h.stage[s[k]]
<1>1. j \in 0 .. k /\ k \in 0 .. k /\ \A i \in 0 .. j : i \in 0 .. k
  BY DEF NextTo
<1>2. Owned(h, p, H) /\ p \in Chains
  BY DEF Sound, Owned, Chains
<1>9. v \in Stages /\ v # NoStage /\ StageDup(v) = v
  <2>1. s[k] \in Cells /\ v # NoStage
    BY ElementOfSeq DEF ToCopy
  <2>2. v \in Stages
    BY <2>1, <1>2 DEF Owned, Heaps, StagesOrNone
  <2>3. QED
    BY <2>1, <2>2, StagesAreDup
<1> HIDE DEF v
<1>3. CASE ~r.ok
  <2>1. g = r
    BY <1>3 DEF CatCopy
  <2>2. d = b
    BY <1>3, <1>9, CatStepIs DEF InStep, v
  <2>3. QED
    BY <2>1, <2>2, <1>1, <1>3 DEF InStep
<1>4. CASE r.ok
  <2> DEFINE x == r.h
             c == Min(FreeCells(x))
             f == InsertEnd(NewStage(x, c, StageDup(x.stage[s[k]])), l, c)
             y == ListOf(x, l)
  <2>1. PICK t : Copying(h, p, H, l, s, j, x, t) /\ Sound(x, With(p, l, t), H)
    BY <1>4 DEF InStep
  <2>2. g = [h |-> f, ok |-> Consistent(StagesOf(f, l))]
    BY <1>4 DEF CatCopy
  <2>3. g.h = f /\ g.ok = Consistent(StagesOf(f, l))
    BY <2>2
  <2>4. b.ok /\ b.p = y
    BY <1>4 DEF InStep
  <2>5. /\ c \in Cells /\ x.stage[c] = NoStage /\ StageDup(x.stage[s[k]]) = v
    <3>1. c = Min(FreeCells(x))
      OBVIOUS
    <3> HIDE DEF x, c
    <3>2. QED
      BY <3>1, <2>1, <1>2, NextCopy DEF v
  <2>6. f = InsertEnd(NewStage(x, c, v), l, c)
    BY <2>5
  <2>7. Owned(x, With(p, l, t), H) /\ Live(x, l)
    BY <2>1 DEF Copying, Live
  <2>8. \E u : Copying(h, p, H, l, s, k, f, u) /\ EndsAre(f, With(p, l, u), l)
    <3>1. c = Min(FreeCells(x))
      OBVIOUS
    <3> HIDE DEF x, c
    <3>2. QED
      BY <3>1, <2>1, <1>2, CatCopied
  <2> HIDE DEF x, c, f, y
  <2>9. PICK u : Copying(h, p, H, l, s, k, f, u) /\ EndsAre(f, With(p, l, u), l)
    BY <2>8
  <2>10. Sound(f, With(p, l, u), H)
    <3> DEFINE q == With(p, l, u)
    <3>1. Owned(f, q, H) /\ Grows(f, h) /\ \A m \in Luts \ {l} : f.lut[m] = h.lut[m]
      BY <2>9 DEF Copying, Grows
    <3>2. SameElsewhere(f, h, p, l)
      BY <3>1, <1>2, OthersStay
    <3>3. EndsAre(f, q, l) /\ q = With(p, l, u)
      BY <2>9
    <3> HIDE DEF q
    <3>4. Sound(f, q, H)
      BY <3>1, <3>2, <3>3, StillSound
    <3>5. QED
      BY <3>4 DEF q
  <2>11. /\ StagesOf(f, l) = After(StagesOf(x, l), v)
         /\ ListOf(f, l) = Blessed([ListOf(x, l) EXCEPT !.elements = StagesOf(f, l)])
    BY <2>5, <2>6, <2>7, <1>9, CatCopyAppends
  <2>12. y.elements = StagesOf(x, l)
    BY <2>7, NilOf, FieldsOf DEF Owned, y
  <2> DEFINE e == StagesOf(f, l)
             z == [y EXCEPT !.elements = e]
  <2>13. d = Done([y EXCEPT !.elements = Append(@, v)])
    BY <2>4, <1>9, CatStepIs DEF v
  <2>14. e = Append(y.elements, v)
    BY <2>11, <2>12 DEF After
  <2>17. z.elements = e
    <3>1. y = LiveList(x.lut[l].in, x.lut[l].out, StagesOf(x, l))
      BY <2>7, NilOf DEF y, Owned
    <3> HIDE DEF e
    <3>2. QED
      BY <3>1, FieldsOf
  <2> HIDE DEF e
  <2>15. d = Done(z)
    BY <2>13, <2>14
  <2>16. Blessed(z) = ListOf(f, l)
    BY <2>11 DEF e, y
  <2> HIDE DEF z
  <2>18. d.ok = Consistent(e) /\ d.p = Blessed(z)
    BY <2>15, <2>17 DEF Done
  <2>19. d.ok = g.ok /\ d.p = ListOf(g.h, l)
    BY <2>3, <2>16, <2>18 DEF e
  <2>20. Consistent(e) \in BOOLEAN
    BY DEF Consistent
  <2>21. g.ok \in BOOLEAN
    BY <2>20, <2>3 DEF e
  <2>22. Copying(h, p, H, l, s, k, g.h, u) /\ Sound(g.h, With(p, l, u), H)
    BY <2>3, <2>9, <2>10
  <2>23. k \in 0 .. k
    BY <1>1
  <2>24. QED
    BY <2>19, <2>21, <2>22, <2>23 DEF InStep
<1>5. QED
  BY <1>3, <1>4

\* So they agree at the end.
LEMMA AllInStep ==
  ASSUME NEW h, NEW p, NEW H, Sound(h, p, H), NEW l \in Luts, ~h.lut[l].nil, NEW s, ToCopy(h, s),
         NEW n, EndsAt(s, n), NEW f, CatLoop(f, n, h, l, s),
         NEW e, \A k \in 1 .. n : e[k] = h.stage[s[k]],
         NEW a, ListLoop(a, n, ListOf(h, l), e)
  PROVE  InStep(h, p, H, l, s, n, f[n], a[n])
<1> DEFINE Good == {j \in 0 .. n : InStep(h, p, H, l, s, j, f[j], a[j])}
<1>1. n \in Nat /\ n = Len(s)
  BY LenProperties DEF ToCopy, EndsAt
<1>2. /\ f[0] = [h |-> h, ok |-> TRUE]
      /\ \A j \in 0 .. n : j + 1 \in 0 .. n => f[j + 1] = CatCopy(f[j], l, s[j + 1])
  <2>1. \A k \in 0 .. n : f[k] = IF k = 0 THEN [h |-> h, ok |-> TRUE] ELSE CatCopy(f[k - 1], l, s[k])
    BY DEF CatLoop
  <2>2. 0 \in 0 .. n /\ \A j \in 0 .. n : j + 1 # 0 /\ (j + 1) - 1 = j
    BY <1>1
  <2>3. QED
    BY <2>1, <2>2
<1>3. /\ a[0].ok = TRUE /\ a[0].p = ListOf(h, l)
      /\ \A j \in 0 .. n : j + 1 \in 0 .. n => a[j + 1] = CatStep(a[j], e[j + 1])
  <2>1. n \in Nat
    BY <1>1
  <2>2. ListLoopRuns(a, n, ListOf(h, l), e)
    BY <2>1, ListLoopIs
  <2>3. QED
    BY <2>2 DEF ListLoopRuns
<1>4. 0 \in Good
  <2>1. Copying(h, p, H, l, s, 0, h, p[l])
    BY NothingCopied DEF Sound
  <2>2. With(p, l, p[l]) = p
    BY DEF With, Sound, Owned
  <2>3. f[0].h = h /\ f[0].ok = TRUE /\ 0 \in 0 .. 0 /\ 0 \in 0 .. n
    BY <1>1, <1>2
  <2>4. InStep(h, p, H, l, s, 0, f[0], a[0])
    BY <2>1, <2>2, <2>3, <1>3 DEF InStep
  <2>5. QED
    BY <2>3, <2>4
<1>5. ASSUME NEW j \in 0 .. n, j \in Good, j < n PROVE j + 1 \in Good
  <2> DEFINE k == j + 1
  <2>1. j \in 0 .. Len(s) /\ k \in 1 .. Len(s) /\ k \in 0 .. n /\ NextTo(j, k)
    BY <1>1, <1>5 DEF NextTo
  <2>2. f[k] = CatCopy(f[j], l, s[k]) /\ a[k] = CatStep(a[j], e[k]) /\ InStep(h, p, H, l, s, j, f[j], a[j])
    BY <2>1, <1>2, <1>3, <1>5
  <2> HIDE DEF k
  <2>3. e[k] = h.stage[s[k]]
    BY <2>1, <1>1
  <2>4. a[k] = CatStep(a[j], h.stage[s[k]])
    BY <2>2, <2>3
  <2>5. InStep(h, p, H, l, s, k, f[k], a[k])
    BY <2>1, <2>2, <2>4, InStepRound
  <2>6. k \in Good
    BY <2>1, <2>5
  <2>7. QED
    BY <2>6 DEF k
<1> HIDE DEF Good
<1>6. n \in Good
  <2>1. n \in Nat
    BY <1>1
  <2>2. 0 .. n \subseteq Good
    BY <2>1, <1>4, <1>5, Induction
  <2>3. QED
    BY <2>1, <2>2
<1>7. QED
  BY <1>6 DEF Good

\* What the loop leaves of the other pipelines and of the stages in hand.
LEMMA OneIsCatted ==
  ASSUME NEW h, NEW p, NEW H, Sound(h, p, H), NEW l \in Luts, NEW s, NEW n, NEW r, NEW b,
         InStep(h, p, H, l, s, n, r, b), NEW g, g = r.h
  PROVE  /\ ListsOf(g) = [ListsOf(h) EXCEPT ![l] = ListOf(g, l)]
         /\ HandOf(g, H) = HandOf(h, H)
         /\ g.lut[l].nil = h.lut[l].nil
         /\ \E q : Sound(g, q, H)
<1>1. PICK i, t : Copying(h, p, H, l, s, i, g, t) /\ Sound(g, With(p, l, t), H)
  BY DEF InStep
<1> DEFINE q == With(p, l, t)
<1>2. /\ Owned(h, p, H) /\ Owned(g, q, H) /\ Grows(g, h) /\ g.lut[l].nil = h.lut[l].nil
      /\ \A m \in Luts \ {l} : g.lut[m] = h.lut[m]
  BY <1>1 DEF Copying, Grows, Sound
<1>3. SameElsewhere(g, h, p, l)
  BY <1>2, OthersStay
<1>4. ListsOf(g) = [ListsOf(h) EXCEPT ![l] = ListOf(g, l)]
  BY <1>2, <1>3, OneListChanges
<1>5. \A c \in H : g.stage[c] = h.stage[c]
  BY <1>2 DEF Grows, Owned
<1>6. HandOf(g, H) = HandOf(h, H)
  BY <1>5, HandStays
<1>7. QED
  BY <1>1, <1>2, <1>4, <1>6

\* The loop of the abstract module is this one.
LEMMA SameCatStep == \A b, s : Lists!CatStep(b, s) = CatStep(b, s)
BY SameInsertions, SameStageDup DEF Lists!CatStep, CatStep

LEMMA SameDone == \A x : Lists!Done(x) = Done(x)
BY SameBlessed, SameConsistent DEF Lists!Done, Done

\* The loop, with the step of the abstract module.
AbstractLoop(a, n, z, e) ==
  a = [k \in 0 .. n |-> IF k = 0 THEN [ok |-> TRUE, p |-> z] ELSE Lists!CatStep(a[k - 1], e[k])]

\* And so are its values.
LEMMA SameLoop ==
  ASSUME NEW a, NEW n, NEW z, NEW e
  PROVE  AbstractLoop(a, n, z, e) <=> ListLoop(a, n, z, e)
BY SameCatStep DEF AbstractLoop, ListLoop

\* What the abstract cmsPipelineCat makes of x and y, when not both are empty.
LEMMA CatIsLoop ==
  ASSUME NEW x, NEW y, x.elements # <<>> \/ y.elements # <<>>, Len(y.elements) \in Nat
  PROVE  \E a : /\ ListLoop(a, Len(y.elements), x, y.elements)
                /\ Lists!PipelineCat(x, y) = IF a[Len(y.elements)].ok THEN Done(a[Len(y.elements)].p)
                                             ELSE a[Len(y.elements)]
<1> DEFINE a == CHOOSE f : AbstractLoop(f, Len(y.elements), x, y.elements)
<1>1. AbstractLoop(a, Len(y.elements), x, y.elements)
  BY ListLoopExists, SameLoop
<1>2. Lists!PipelineCat(x, y) = IF a[Len(y.elements)].ok THEN Lists!Done(a[Len(y.elements)].p)
                                ELSE a[Len(y.elements)]
  BY DEF Lists!PipelineCat, AbstractLoop
<1> HIDE DEF a
<1>3. QED
  BY <1>1, <1>2, SameLoop, SameDone

\* Of two empty pipelines the abstract one gives the channels of the second.
LEMMA CatOfEmpty ==
  ASSUME NEW x, NEW y, x.elements = <<>>, y.elements = <<>>
  PROVE  Lists!PipelineCat(x, y).p = [x EXCEPT !.in = y.in, !.out = y.out]
BY DEF Lists!PipelineCat

Widened(x, i, o) == [x EXCEPT !.in = i, !.out = o]

\* cmsPipelineCat of two empty pipelines sets the channels.
LEMMA EmptyCat ==
  ASSUME NEW h, NEW p, NEW H, Sound(h, p, H), NEW l \in Luts, NEW m \in Luts, l # m, Live(h, l), Live(h, m),
         p[l] = <<>>, p[m] = <<>>, NEW g, g = SetChannels(h, l, h.lut[m].in, h.lut[m].out),
         NEW x, x = ListsOf(h)
  PROVE  /\ ListsOf(g) = [x EXCEPT ![l] = Lists!PipelineCat(x[l], x[m]).p]
         /\ HandOf(g, H) = HandOf(h, H)
<1> DEFINE i == h.lut[m].in
           o == h.lut[m].out
<1>1. /\ Sound(g, p, H) /\ g.stage = h.stage /\ g.lut[l].nil = h.lut[l].nil
      /\ g.lut[l].in = h.lut[m].in /\ g.lut[l].out = h.lut[m].out
      /\ \A k \in Luts \ {l} : g.lut[k] = h.lut[k]
  BY BothEmpty
<1>2. Owned(h, p, H) /\ Owned(g, p, H) /\ h \in Heaps
  BY <1>1 DEF Sound, Owned
<1>3. HandOf(g, H) = HandOf(h, H)
  BY <1>1, HandStays
<1>4. p = With(p, l, <<>>)
  BY <1>2 DEF With, Owned
<1>5. SameElsewhere(g, h, p, l)
  BY <1>1 DEF SameElsewhere
<1>6. ListsOf(g) = [x EXCEPT ![l] = ListOf(g, l)]
  <2>1. Owned(g, With(p, l, <<>>), H)
    BY <1>2, <1>4
  <2>2. QED
    BY <2>1, <1>2, <1>5, OneListChanges
<1>7. StagesOf(h, l) = <<>> /\ StagesOf(h, m) = <<>> /\ StagesOf(g, l) = <<>>
  BY <1>2, StagesAre
<1>8. ListOf(g, l) = LiveList(i, o, <<>>)
  BY <1>1, <1>7 DEF ListOf, Live
<1>9. x[l] = LiveList(h.lut[l].in, h.lut[l].out, <<>>) /\ x[m] = LiveList(i, o, <<>>)
  BY <1>2, <1>7, NilOf
<1> HIDE DEF i, o
<1>10. /\ x[l].elements = <<>> /\ x[m].elements = <<>> /\ x[m].in = i /\ x[m].out = o
  BY <1>9, FieldsOf
<1>11. Widened(x[l], i, o) = LiveList(i, o, <<>>)
  <2>1. ASSUME NEW a, NEW b
        PROVE  Widened(AnyList(a, b, <<>>, No, No), i, o) = AnyList(i, o, <<>>, No, No)
    <3>1. [AnyList(a, b, <<>>, No, No) EXCEPT !.in = i] = AnyList(i, b, <<>>, No, No)
      BY ListFields
    <3>2. [AnyList(i, b, <<>>, No, No) EXCEPT !.out = o] = AnyList(i, o, <<>>, No, No)
      BY ListFields
    <3>3. QED
      BY <3>1, <3>2 DEF Widened
  <2>2. x[l] = AnyList(h.lut[l].in, h.lut[l].out, <<>>, No, No)
    BY <1>9 DEF LiveList
  <2>3. QED
    BY <2>1, <2>2 DEF LiveList
<1>12. Lists!PipelineCat(x[l], x[m]).p = Widened(x[l], x[m].in, x[m].out)
  BY <1>10, CatOfEmpty DEF Widened
<1>13. ListOf(g, l) = Lists!PipelineCat(x[l], x[m]).p
  BY <1>8, <1>10, <1>11, <1>12
<1>14. QED
  BY <1>3, <1>6, <1>13

\* cmsPipelineCat of chains is that of sequences (cmslut.go:1067).
LEMMA CatIsCat ==
  ASSUME NEW h, NEW p, NEW H, Sound(h, p, H), NEW l \in Luts, NEW m \in Luts, l # m, Live(h, l), Live(h, m),
         Cardinality(FreeCells(h)) >= Len(p[m]),
         NEW r, r = PipelinesCat(h, l, m), NEW g, g = r.h, NEW x, x = ListsOf(h)
  PROVE  /\ ListsOf(g) = [x EXCEPT ![l] = Lists!PipelineCat(x[l], x[m]).p]
         /\ HandOf(g, H) = HandOf(h, H)
<1> DEFINE b == IF CellsOf(h, l) = <<>> /\ CellsOf(h, m) = <<>>
                THEN SetChannels(h, l, h.lut[m].in, h.lut[m].out) ELSE h
           s == CellsOf(h, m)
           n == Len(s)
           f == CHOOSE f : CatLoop(f, n, b, l, s)
           e == StagesOf(h, m)
<1>1. Owned(h, p, H) /\ h \in Heaps
  BY DEF Sound, Owned
<1>2. /\ CellsOf(h, l) = p[l] /\ s = p[m] /\ s \in Seq(Cells) /\ n \in Nat
      /\ \A i \in 1 .. Len(s) : h.stage[s[i]] # NoStage
  <2>1. CellsOf(h, l) = p[l] /\ CellsOf(h, m) = p[m] /\ p[m] \in Seq(Cells) /\ Len(p[m]) \in Nat
    BY <1>1, PlacesAreChains
  <2>2. \A i \in 1 .. Len(p[m]) : h.stage[p[m][i]] # NoStage
    BY <1>1 DEF Owned
  <2>3. QED
    BY <2>1, <2>2
<1>3. r = f[n]
  BY DEF PipelinesCat, CatLoop
<1>4. CatLoop(f, n, b, l, s)
  BY <1>2, CatLoopExists
<1>5. EndsAt(s, n)
  BY DEF EndsAt
<1>6. /\ Len(e) = n /\ \A k \in 1 .. n : e[k] = h.stage[s[k]]
      /\ e = <<>> <=> p[m] = <<>>
      /\ StagesOf(h, l) = <<>> <=> p[l] = <<>>
  <2>1. /\ Len(StagesOf(h, m)) = Len(p[m]) /\ \A k \in 1 .. Len(p[m]) : StagesOf(h, m)[k] = h.stage[p[m][k]]
        /\ StagesOf(h, m) = <<>> <=> p[m] = <<>>
        /\ StagesOf(h, l) = <<>> <=> p[l] = <<>>
    BY <1>1, StagesAre
  <2>2. QED
    BY <2>1, <1>2
<1>7. b = IF p[l] = <<>> /\ p[m] = <<>> THEN SetChannels(h, l, h.lut[m].in, h.lut[m].out) ELSE h
  BY <1>2
<1>8. n = 0 <=> p[m] = <<>>
  BY <1>2, EmptySeq
<1>9. x[l].elements = StagesOf(h, l) /\ x[m].elements = e /\ x[l] = ListOf(h, l)
  <2>1. x[l] = ListOf(h, l) /\ x[m] = ListOf(h, m)
    BY <1>1, NilOf
  <2>2. ListOf(h, l).elements = StagesOf(h, l) /\ ListOf(h, m).elements = StagesOf(h, m)
    BY <1>1, NilOf, FieldsOf
  <2>3. QED
    BY <2>1, <2>2
<1> HIDE DEF b, n, f, s, e
<1>10. CASE p[l] = <<>> /\ p[m] = <<>>
  <2>1. n = 0 /\ b = SetChannels(h, l, h.lut[m].in, h.lut[m].out)
    BY <1>7, <1>8, <1>10
  <2>2. f[0] = [h |-> b, ok |-> TRUE]
    BY <2>1, <1>4 DEF CatLoop
  <2>3. g = b
    BY <2>1, <2>2, <1>3
  <2>4. g = SetChannels(h, l, h.lut[m].in, h.lut[m].out)
    BY <2>1, <2>3
  <2>5. QED
    BY <2>4, <1>10, EmptyCat
<1>11. CASE ~(p[l] = <<>> /\ p[m] = <<>>)
  <2>1. b = h
    BY <1>7, <1>11
  <2>2. CatLoop(f, n, h, l, s)
    BY <2>1, <1>4
  <2>3. ToCopy(h, s)
    BY <1>2 DEF ToCopy
  <2>4. x[l].elements # <<>> \/ x[m].elements # <<>>
    BY <1>6, <1>9, <1>11
  <2>5. PICK a : /\ ListLoop(a, n, x[l], e)
                 /\ Lists!PipelineCat(x[l], x[m]) = IF a[n].ok THEN Done(a[n].p) ELSE a[n]
    <3>1. Len(x[m].elements) = n /\ n \in Nat
      BY <1>2, <1>6, <1>9
    <3>2. \E a : /\ ListLoop(a, Len(x[m].elements), x[l], x[m].elements)
                 /\ Lists!PipelineCat(x[l], x[m]) = IF a[Len(x[m].elements)].ok THEN Done(a[Len(x[m].elements)].p)
                                                    ELSE a[Len(x[m].elements)]
      BY <2>4, <3>1, CatIsLoop
    <3>3. QED
      BY <3>1, <3>2, <1>9
  <2>6. InStep(h, p, H, l, s, n, r, a[n])
    <3>1. ListLoop(a, n, ListOf(h, l), e)
      BY <2>5, <1>9
    <3>2. ~h.lut[l].nil /\ \A k \in 1 .. n : e[k] = h.stage[s[k]]
      BY <1>6 DEF Live
    <3>3. InStep(h, p, H, l, s, n, f[n], a[n])
      BY <3>1, <3>2, <2>2, <2>3, <1>5, AllInStep
    <3>4. QED
      BY <3>3, <1>3
  <2>7. /\ ListsOf(g) = [x EXCEPT ![l] = ListOf(g, l)] /\ HandOf(g, H) = HandOf(h, H)
        /\ g.lut[l].nil = h.lut[l].nil /\ \E q : Sound(g, q, H)
    BY <2>6, OneIsCatted
  <2>8. a[n].p = ListOf(g, l)
    BY <2>6 DEF InStep
  <2>9. Blessed(ListOf(g, l)) = ListOf(g, l)
    <3>1. PICK q : Sound(g, q, H)
      BY <2>7
    <3>2. Live(g, l)
      BY <2>7 DEF Live
    <3>3. QED
      BY <3>1, <3>2, BlessedAlready
  <2>10. Lists!PipelineCat(x[l], x[m]).p = ListOf(g, l)
    BY <2>5, <2>8, <2>9 DEF Done
  <2>11. QED
    BY <2>7, <2>10
<1>12. QED
  BY <1>10, <1>11

\* And so is every step that concatenates, copying or stealing.
LEMMA CatPipelinesCats ==
  ASSUME NEW p, Sound(heap, p, held), NEW l \in Luts, NEW m \in Luts, CatPipelines(l, m)
  PROVE  Lists!Next
<1>1. /\ Live(heap, l) /\ Live(heap, m) /\ l # m /\ held' = held
      /\ \/ /\ heap' = PipelinesCat(heap, l, m).h
            /\ Cardinality(FreeCells(heap)) >= Len(CellsOf(heap, m))
         \/ heap' = PipelineCatSteal(heap, l, m)
  BY DEF CatPipelines, Alive, Live, RoomFor
<1>2. CASE heap' = PipelineCatSteal(heap, l, m)
  BY <1>1, <1>2, StealSteals
<1>3. CASE heap' = PipelinesCat(heap, l, m).h /\ Cardinality(FreeCells(heap)) >= Len(CellsOf(heap, m))
  <2>1. Cardinality(FreeCells(heap)) >= Len(p[m])
    BY <1>3, PlacesAreChains DEF Sound
  <2> DEFINE x == ListsOf(heap)
             r == PipelinesCat(heap, l, m)
  <2>2. heap' = r.h /\ r = PipelinesCat(heap, l, m)
    BY <1>3
  <2> HIDE DEF x, r
  <2>3. /\ ListsOf(heap') = [x EXCEPT ![l] = Lists!PipelineCat(x[l], x[m]).p]
        /\ HandOf(heap', held) = HandOf(heap, held)
    BY <2>1, <2>2, <1>1, CatIsCat DEF x
  <2>4. l \in Lists!Alive /\ m \in Lists!Alive
    BY <1>1, AliveIs
  <2>5. [k \in Luts |-> AsList(k)] = x
    BY MappedNow DEF x
  <2>6. HandOf(heap', held') = HandOf(heap, held)
    BY <2>3, <1>1
  <2>7. Lists!Cat(l, m)
    BY <2>3, <2>4, <2>5, <2>6, <1>1, MappedNow, MappedNext DEF Lists!Cat
  <2>8. QED
    BY <2>7 DEF Lists!Next
<1>4. QED
  BY <1>1, <1>2, <1>3

----------------------------------------------------------------------------
(* What the stages compute.                                                *)

\* f has the sums of the first elements of v.
SumLoop(f, v) == f = [k \in 0 .. Len(v) |-> IF k = 0 THEN 0 ELSE f[k - 1] + v[k]]

\* A sum is that of one element less, and that element.
LEMMA SumLoopExists ==
  ASSUME NEW n \in Nat, NEW v \in [1 .. n -> Int]
  PROVE  /\ Len(v) = n
         /\ \E f \in [0 .. n -> Int] : SumLoop(f, v)
<1>1. Len(v) = n
  BY FunctionsAreSeqs
<1> DEFINE G == [z \in (1 .. n) \X Int |-> z[2] + v[z[1]]]
<1>2. G \in [(1 .. n) \X Int -> Int]
  OBVIOUS
<1>3. \A i \in 1 .. n, x \in Int : G[<<i, x>>] = x + v[i]
  OBVIOUS
<1> HIDE DEF G
<1>4. PICK f : IsLoop(f, n, Int, 0, G)
  <2>1. 0 \in Int
    OBVIOUS
  <2>2. QED
    BY <2>1, <1>2, Iteration
<1>5. f \in [0 .. n -> Int] /\ f[0] = 0 /\ \A i \in 1 .. n : f[i] = G[<<i, f[i - 1]>>]
  BY <1>4 DEF IsLoop
<1>6. ASSUME NEW k \in 0 .. n PROVE f[k] = IF k = 0 THEN 0 ELSE f[k - 1] + v[k]
  <2>1. k # 0 => k \in 1 .. n /\ k - 1 \in 0 .. n /\ f[k - 1] \in Int
    BY <1>5
  <2>2. k # 0 => f[k] = f[k - 1] + v[k]
    BY <2>1, <1>3, <1>5
  <2>3. QED
    BY <2>2, <1>5
<1>7. SumLoop(f, v)
  BY <1>1, <1>5, <1>6 DEF SumLoop
<1>8. QED
  BY <1>1, <1>5, <1>7

\* f has the sums of the first elements of v, and x is the last of them.
IsSum(x, f, v, n) ==
  /\ x = f[n] /\ f[0] = 0 /\ \A k \in 1 .. n : f[k] = f[k - 1] + v[k]
  /\ \A k \in 0 .. n : f[k] \in Int

\* The sum of finitely many integers is one.
LEMMA SumIs ==
  ASSUME NEW n \in Nat, NEW v \in [1 .. n -> Int]
  PROVE  \E f : IsSum(Lists!SumOf(v), f, v, n)
<1> DEFINE f == CHOOSE g : SumLoop(g, v)
<1>1. Len(v) = n /\ SumLoop(f, v)
  BY SumLoopExists
<1>2. Lists!SumOf(v) = f[n]
  BY <1>1 DEF Lists!SumOf, SumLoop
<1> HIDE DEF f
<1>3. \A k \in 0 .. n : f[k] = IF k = 0 THEN 0 ELSE f[k - 1] + v[k]
  BY <1>1 DEF SumLoop
<1>4. f[0] = 0 /\ \A k \in 1 .. n : f[k] = f[k - 1] + v[k]
  BY <1>3
<1> DEFINE T == {k \in 0 .. n : f[k] \in Int}
<1>5. 0 \in T
  BY <1>4
<1>6. ASSUME NEW k \in 0 .. n, k \in T, k < n PROVE k + 1 \in T
  <2>1. k + 1 \in 1 .. n /\ (k + 1) - 1 = k /\ k + 1 \in 0 .. n
    BY <1>6
  <2>2. f[k + 1] = f[k] + v[k + 1]
    BY <2>1, <1>4
  <2>3. QED
    BY <2>1, <2>2, <1>6
<1> HIDE DEF T
<1>7. 0 .. n \subseteq T
  BY <1>5, <1>6, Induction
<1>8. \A k \in 0 .. n : f[k] \in Int
  BY <1>7 DEF T
<1>9. QED
  BY <1>2, <1>4, <1>8 DEF IsSum

\* A sum of integers is an integer, and of three the sum of the three.
LEMMA SumIsInt ==
  ASSUME NEW n \in Nat, NEW v \in [1 .. n -> Int]
  PROVE  Lists!SumOf(v) \in Int
<1>1. PICK f : IsSum(Lists!SumOf(v), f, v, n)
  BY SumIs
<1>2. n \in 0 .. n
  OBVIOUS
<1>3. QED
  BY <1>1, <1>2 DEF IsSum

LEMMA SumOfThree ==
  ASSUME NEW v \in [1 .. 3 -> Int]
  PROVE  Lists!SumOf(v) = v[1] + v[2] + v[3]
<1>1. \A n \in Nat : v \in [1 .. n -> Int] => \E f : IsSum(Lists!SumOf(v), f, v, n)
  BY SumIs
<1>2. PICK f : IsSum(Lists!SumOf(v), f, v, 3)
  BY <1>1
<1>3. /\ Lists!SumOf(v) = f[3] /\ f[0] = 0
      /\ f[1] = f[1 - 1] + v[1] /\ f[2] = f[2 - 1] + v[2] /\ f[3] = f[3 - 1] + v[3]
  BY <1>2 DEF IsSum
<1>4. v[1] \in Int /\ v[2] \in Int /\ v[3] \in Int
  OBVIOUS
<1>5. QED
  BY <1>3, <1>4

\* Where a row of a matrix stored by rows begins and ends.
LEMMA RowEnds ==
  ASSUME NEW i \in Nat \ {0}, NEW o \in Nat \ {0}, NEW r \in 1 .. o, NEW k \in 1 .. i
  PROVE  /\ (r - 1) * i + k \in 1 .. i * o
         /\ (r - 1) * i \in Nat /\ r * i = (r - 1) * i + i /\ r * i <= i * o
<1>1. r * i = (r - 1) * i + i
  OBVIOUS
<1>2. r * i <= i * o
  <2>1. (o - r) * i >= 0
    <3> DEFINE d == o - r
    <3>1. d \in Nat
      OBVIOUS
    <3> HIDE DEF d
    <3>2. d * i >= 0
      BY <3>1
    <3>3. QED
      BY <3>2 DEF d
  <2>2. (o - r) * i = o * i - r * i
    OBVIOUS
  <2>3. QED
    BY <2>1, <2>2
<1>3. (r - 1) * i \in Nat
  <2> DEFINE d == r - 1
  <2>1. d \in Nat
    OBVIOUS
  <2> HIDE DEF d
  <2>2. d * i \in Nat
    BY <2>1
  <2>3. QED
    BY <2>2 DEF d
<1>4. (r - 1) * i + k \in 1 .. i * o
  <2> DEFINE x == (r - 1) * i
             y == r * i
             z == i * o
  <2>1. x \in Nat /\ y = x + i /\ y <= z /\ z \in Int
    BY <1>1, <1>2, <1>3
  <2> HIDE DEF x, y, z
  <2>2. x + k \in 1 .. z
    BY <2>1
  <2>3. QED
    BY <2>2 DEF x, z
<1>5. QED
  BY <1>1, <1>2, <1>3, <1>4

\* a is row r of m, whose rows are of i columns.
IsRow(a, m, i, r) == a \in [1 .. i -> Int] /\ \A k \in 1 .. i : a[k] = m[(r - 1) * i + k]

\* A row of a matrix stored by rows.
LEMMA RowIs ==
  ASSUME NEW i \in Nat \ {0}, NEW o \in Nat \ {0}, NEW n, n = i * o, NEW m \in [1 .. n -> Int], NEW r \in 1 .. o
  PROVE  IsRow(Lists!RowOf(m, i, r), m, i, r)
<1> DEFINE x == (r - 1) * i
           y == r * i
<1>1. x \in Nat /\ y = x + i
  BY RowEnds
<1>2. \A k \in 1 .. i : x + k \in 1 .. i * o
  BY RowEnds
<1>3. Lists!RowOf(m, i, r) = SubSeq(m, x + 1, y)
  BY DEF Lists!RowOf
<1> HIDE DEF x, y
<1>4. SubSeq(m, x + 1, y) = [k \in 1 .. i |-> m[x + k]]
  BY <1>1
<1>5. \A k \in 1 .. i : m[x + k] \in Int
  BY <1>2
<1>6. IsRow([k \in 1 .. i |-> m[x + k]], m, i, r)
  BY <1>5 DEF IsRow, x
<1>7. QED
  BY <1>3, <1>4, <1>6

\* A row times a vector.
LEMMA DotIs ==
  ASSUME NEW n \in Nat, NEW a \in [1 .. n -> Int], NEW v \in [1 .. n -> Int]
  PROVE  /\ Lists!Dot(a, v) \in Int
         /\ n = 3 => Lists!Dot(a, v) = a[1] * v[1] + a[2] * v[2] + a[3] * v[3]
<1> DEFINE t == [k \in 1 .. n |-> a[k] * v[k]]
<1>1. Lists!Dot(a, v) = Lists!SumOf(t) /\ t \in [1 .. n -> Int]
  BY DEF Lists!Dot
<1>2. n = 3 => t \in [1 .. 3 -> Int] /\ t[1] = a[1] * v[1] /\ t[2] = a[2] * v[2] /\ t[3] = a[3] * v[3]
  BY <1>1
<1> HIDE DEF t
<1>3. QED
  BY <1>1, <1>2, SumIsInt, SumOfThree

\* A matrix of o rows of i has o rows.
LEMMA WholeRows ==
  ASSUME NEW i \in Nat \ {0}, NEW o \in Nat \ {0}
  PROVE  (i * o) \div i = o
<1> DEFINE p == i * o
           q == p \div i
<1>1. p \in Nat
  OBVIOUS
<1>2. q \in Int /\ i * q <= p /\ p < i * q + i
  <2> HIDE DEF p
  <2>1. QED
    BY <1>1
<1>3. q = o
  <2>1. CASE q < o
    <3>1. i * (o - q) >= i
      <4> DEFINE d == o - q
      <4>1. d \in Nat /\ d >= 1
        BY <2>1, <1>2
      <4> HIDE DEF d
      <4>2. i * d >= i
        BY <4>1
      <4>3. QED
        BY <4>2 DEF d
    <3> HIDE DEF q
    <3>2. i * (o - q) = p - i * q
      BY <1>2
    <3>3. QED
      BY <3>1, <3>2, <1>1, <1>2
  <2>2. CASE q > o
    <3>1. i * (q - o) >= i
      <4> DEFINE d == q - o
      <4>1. d \in Nat /\ d >= 1
        BY <2>2, <1>2
      <4> HIDE DEF d
      <4>2. i * d >= i
        BY <4>1
      <4>3. QED
        BY <4>2 DEF d
    <3> HIDE DEF q
    <3>2. i * (q - o) = i * q - p
      BY <1>2
    <3>3. QED
      BY <3>1, <3>2, <1>1, <1>2
  <2>3. QED
    BY <2>1, <2>2, <1>2
<1>4. QED
  BY <1>3

\* What a matrix stage makes of i channels.
LEMMA AffineIs ==
  ASSUME NEW i \in Nat \ {0}, NEW o \in Nat \ {0}, NEW data, data.matrix \in [1 .. i * o -> Int],
         data.offset = <<>> \/ data.offset \in [1 .. o -> Int], NEW v \in [1 .. i -> Int]
  PROVE  Lists!Affine(data, i, v) \in [1 .. o -> Int]
<1> DEFINE m == data.matrix
           y(r) == Lists!Dot(Lists!RowOf(m, i, r), v) + IF data.offset = <<>> THEN 0 ELSE data.offset[r]
<1>1. Len(m) \div i = o
  <2>1. i * o \in Nat
    OBVIOUS
  <2>2. Len(m) = i * o
    BY <2>1, FunctionsAreSeqs
  <2>3. QED
    BY <2>2, WholeRows
<1>2. ASSUME NEW r \in 1 .. o PROVE y(r) \in Int
  <2>1. Lists!RowOf(m, i, r) \in [1 .. i -> Int]
    <3>1. r \in 1 .. o
      OBVIOUS
    <3> HIDE DEF m
    <3> DEFINE n == i * o
    <3>2. m \in [1 .. n -> Int] /\ n = i * o
      BY DEF m
    <3> HIDE DEF n
    <3>3. IsRow(Lists!RowOf(m, i, r), m, i, r)
      BY <3>1, <3>2, RowIs
    <3>4. QED
      BY <3>3 DEF IsRow
  <2> DEFINE d == Lists!Dot(Lists!RowOf(m, i, r), v)
  <2>2. d \in Int
    BY <2>1, DotIs
  <2> HIDE DEF d
  <2>3. d + (IF data.offset = <<>> THEN 0 ELSE data.offset[r]) \in Int
    BY <2>2
  <2>4. QED
    BY <2>3 DEF d
<1>3. Lists!Affine(data, i, v) = [r \in 1 .. (Len(m) \div i) |-> y(r)]
  BY DEF Lists!Affine
<1> HIDE DEF y
<1>4. QED
  BY <1>1, <1>2, <1>3

\* w is what the matrix m of three by three makes of v.
IsAffine(w, m, v) ==
  /\ w \in [1 .. 3 -> Int]
  /\ w[1] = m[1] * v[1] + m[2] * v[2] + m[3] * v[3]
  /\ w[2] = m[4] * v[1] + m[5] * v[2] + m[6] * v[3]
  /\ w[3] = m[7] * v[1] + m[8] * v[2] + m[9] * v[3]

\* What a matrix of three by three makes of three.
LEMMA AffineOfThree ==
  ASSUME NEW data, data.matrix \in [1 .. 9 -> Int], data.offset = <<>>, NEW v \in [1 .. 3 -> Int],
         NEW m, m = data.matrix
  PROVE  IsAffine(Lists!Affine(data, 3, v), m, v)
<1> DEFINE y(r) == Lists!Dot(Lists!RowOf(m, 3, r), v) + 0
<1>1. Len(m) = 9 /\ 9 \div 3 = 3
  <2>1. \A n \in Nat : m \in [1 .. n -> Int] => Len(m) = n
    BY FunctionsAreSeqs
  <2>2. QED
    BY <2>1
<1>2. ASSUME NEW r \in 1 .. 3
      PROVE  /\ y(r) \in Int
             /\ y(r) = m[(r - 1) * 3 + 1] * v[1] + m[(r - 1) * 3 + 2] * v[2] + m[(r - 1) * 3 + 3] * v[3]
  <2> DEFINE a == Lists!RowOf(m, 3, r)
  <2>1. IsRow(a, m, 3, r)
    <3>1. 3 \in Nat \ {0} /\ 9 = 3 * 3
      OBVIOUS
    <3>2. \A i \in Nat \ {0} : 9 = i * 3 => IsRow(Lists!RowOf(m, i, r), m, i, r)
      <4> SUFFICES ASSUME NEW i \in Nat \ {0}, 9 = i * 3 PROVE IsRow(Lists!RowOf(m, i, r), m, i, r)
        OBVIOUS
      <4> DEFINE o == 3
                 n == 9
      <4>1. o \in Nat \ {0} /\ n = i * o /\ m \in [1 .. n -> Int] /\ r \in 1 .. o
        OBVIOUS
      <4> HIDE DEF o, n
      <4>2. QED
        BY <4>1, RowIs
    <3>3. QED
      BY <3>1, <3>2
  <2>2. a \in [1 .. 3 -> Int] /\ a[1] = m[(r - 1) * 3 + 1] /\ a[2] = m[(r - 1) * 3 + 2] /\ a[3] = m[(r - 1) * 3 + 3]
    <3>1. 1 \in 1 .. 3 /\ 2 \in 1 .. 3 /\ 3 \in 1 .. 3
      OBVIOUS
    <3> HIDE DEF a
    <3>2. QED
      BY <3>1, <2>1 DEF IsRow
  <2> HIDE DEF a
  <2> DEFINE d == Lists!Dot(a, v)
  <2>3. d \in Int /\ d = a[1] * v[1] + a[2] * v[2] + a[3] * v[3]
    <3>1. \A n \in Nat : a \in [1 .. n -> Int] /\ v \in [1 .. n -> Int] =>
            /\ Lists!Dot(a, v) \in Int
            /\ n = 3 => Lists!Dot(a, v) = a[1] * v[1] + a[2] * v[2] + a[3] * v[3]
      BY DotIs
    <3>2. QED
      BY <3>1, <2>2
  <2>4. y(r) = d + 0
    BY DEF d, a
  <2> HIDE DEF d, y
  <2>5. QED
    BY <2>2, <2>3, <2>4
<1>3. Lists!Affine(data, 3, v) = [r \in 1 .. 3 |-> y(r)]
  BY <1>1 DEF Lists!Affine
<1> HIDE DEF y
<1> DEFINE w == [r \in 1 .. 3 |-> y(r)]
<1>4. w \in [1 .. 3 -> Int] /\ w[1] = y(1) /\ w[2] = y(2) /\ w[3] = y(3)
  BY <1>2
<1>5. /\ y(1) = m[1] * v[1] + m[2] * v[2] + m[3] * v[3]
      /\ y(2) = m[4] * v[1] + m[5] * v[2] + m[6] * v[3]
      /\ y(3) = m[7] * v[1] + m[8] * v[2] + m[9] * v[3]
  BY <1>2
<1> HIDE DEF w
<1>6. IsAffine(w, m, v)
  BY <1>4, <1>5 DEF IsAffine
<1>7. QED
  BY <1>3, <1>6 DEF w

\* The four conversions the optimiser knows, and their inverses.
LEMMA TheConversions ==
  /\ DOMAIN Lists!Forth = 1 .. 4 /\ DOMAIN Lists!Back = 1 .. 4
  /\ Lists!ToSet(Lists!Forth) = {"XYZ2Lab", "LabV4toV2", "Lab2FloatPCS", "XYZ2FloatPCS"}
  /\ Lists!ToSet(Lists!Back) = {"Lab2XYZ", "LabV2toV4", "FloatPCS2Lab", "FloatPCS2XYZ"}
<1>1. DOMAIN Lists!Forth = 1 .. 4 /\ DOMAIN Lists!Back = 1 .. 4
  BY DEF Lists!Forth, Lists!Back
<1>2. Lists!ToSet(Lists!Forth) = {Lists!Forth[1], Lists!Forth[2], Lists!Forth[3], Lists!Forth[4]}
  <2> DEFINE f == Lists!Forth
  <2>1. DOMAIN f = 1 .. 4
    BY <1>1
  <2> HIDE DEF f
  <2>2. {f[k] : k \in DOMAIN f} = {f[1], f[2], f[3], f[4]}
    BY <2>1
  <2>3. QED
    BY <2>2 DEF Lists!ToSet, f
<1>3. Lists!ToSet(Lists!Back) = {Lists!Back[1], Lists!Back[2], Lists!Back[3], Lists!Back[4]}
  <2> DEFINE f == Lists!Back
  <2>1. DOMAIN f = 1 .. 4
    BY <1>1
  <2> HIDE DEF f
  <2>2. {f[k] : k \in DOMAIN f} = {f[1], f[2], f[3], f[4]}
    BY <2>1
  <2>3. QED
    BY <2>2 DEF Lists!ToSet, f
<1>4. QED
  BY <1>1, <1>2, <1>3 DEF Lists!Forth, Lists!Back

\* What a stage of a conversion computes.
LEMMA ThereApplies ==
  ASSUME NEW k \in 1 .. 4, NEW s, s.implements = Lists!Forth[k], NEW v
  PROVE  Lists!Apply(v, s) = Lists!There(k, v)
<1>1. \A j \in 1 .. 4 : Lists!Forth[j] = s.implements <=> j = k
  BY DEF Lists!Forth
<1>2. Lists!Place(Lists!Forth, s.implements) = k
  BY <1>1, TheConversions DEF Lists!Place
<1>3. s.implements \in Lists!ToSet(Lists!Forth)
  BY TheConversions DEF Lists!Forth
<1>4. s.implements # "Identity" /\ s.implements # "Matrix"
  BY DEF Lists!Forth
<1>5. Lists!Apply(v, s) = Lists!There(Lists!Place(Lists!Forth, s.implements), v)
  <2>1. s.implements \notin Lists!ToSet(Lists!Back)
    BY TheConversions DEF Lists!Forth
  <2>2. QED
    BY <1>3, <1>4, <2>1 DEF Lists!Apply
<1>6. QED
  BY <1>2, <1>5

LEMMA AndBackApplies ==
  ASSUME NEW k \in 1 .. 4, NEW s, s.implements = Lists!Back[k], NEW v
  PROVE  Lists!Apply(v, s) = Lists!AndBack(k, v)
<1>1. \A j \in 1 .. 4 : Lists!Back[j] = s.implements <=> j = k
  BY DEF Lists!Back
<1>2. Lists!Place(Lists!Back, s.implements) = k
  BY <1>1, TheConversions DEF Lists!Place
<1>3. s.implements \in Lists!ToSet(Lists!Back)
  BY TheConversions DEF Lists!Back
<1>4. s.implements # "Identity" /\ s.implements # "Matrix" /\ s.implements \notin Lists!ToSet(Lists!Forth)
  BY TheConversions DEF Lists!Back
<1>5. Lists!Apply(v, s) = Lists!AndBack(Lists!Place(Lists!Back, s.implements), v)
  BY <1>3, <1>4 DEF Lists!Apply
<1>6. QED
  BY <1>2, <1>5

\* The two of a pair are inverse to each other, in either order.
LEMMA ThereAndBack ==
  ASSUME NEW k \in 1 .. 4, NEW v \in [1 .. 3 -> Int]
  PROVE  /\ Lists!There(k, v) \in [1 .. 3 -> Int] /\ Lists!AndBack(k, v) \in [1 .. 3 -> Int]
         /\ Lists!AndBack(k, Lists!There(k, v)) = v /\ Lists!There(k, Lists!AndBack(k, v)) = v
<1>1. \A x \in Int, y \in Int, z \in Int : <<x, y, z>> \in [1 .. 3 -> Int]
  OBVIOUS
<1>2. v[1] \in Int /\ v[2] \in Int /\ v[3] \in Int /\ v = <<v[1], v[2], v[3]>>
  OBVIOUS
<1>3. Lists!There(k, v) \in [1 .. 3 -> Int] /\ Lists!AndBack(k, v) \in [1 .. 3 -> Int]
  BY <1>1, <1>2 DEF Lists!There, Lists!AndBack
<1>4. Lists!AndBack(k, Lists!There(k, v)) = <<(v[1] + k) - k, v[2], v[3]>>
  BY DEF Lists!There, Lists!AndBack
<1>5. Lists!There(k, Lists!AndBack(k, v)) = <<v[1], v[2], (v[3] - k) + k>>
  BY DEF Lists!There, Lists!AndBack
<1>6. (v[1] + k) - k = v[1] /\ (v[3] - k) + k = v[3]
  BY <1>2
<1>7. QED
  BY <1>2, <1>3, <1>4, <1>5, <1>6

\* Two conversions that are a pair do nothing.
LEMMA PairDoesNothing ==
  ASSUME NEW r \in DOMAIN Pairs, NEW s, NEW u, <<s.implements, u.implements>> = Pairs[r],
         NEW v \in [1 .. 3 -> Int]
  PROVE  Lists!Apply(Lists!Apply(v, s), u) = v
<1>1. s.implements = Pairs[r][1] /\ u.implements = Pairs[r][2]
  OBVIOUS
<1>2. \E k \in 1 .. 4 : \/ Pairs[r][1] = Lists!Forth[k] /\ Pairs[r][2] = Lists!Back[k]
                        \/ Pairs[r][1] = Lists!Back[k] /\ Pairs[r][2] = Lists!Forth[k]
  <2>1. r \in 1 .. 6
    BY RuleNumbers
  <2>2. /\ Lists!Forth[1] = "XYZ2Lab" /\ Lists!Back[1] = "Lab2XYZ"
        /\ Lists!Forth[2] = "LabV4toV2" /\ Lists!Back[2] = "LabV2toV4"
        /\ Lists!Forth[3] = "Lab2FloatPCS" /\ Lists!Back[3] = "FloatPCS2Lab"
        /\ Lists!Forth[4] = "XYZ2FloatPCS" /\ Lists!Back[4] = "FloatPCS2XYZ"
    BY DEF Lists!Forth, Lists!Back
  <2>3. /\ Pairs[1][1] = "XYZ2Lab" /\ Pairs[1][2] = "Lab2XYZ"
        /\ Pairs[2][1] = "Lab2XYZ" /\ Pairs[2][2] = "XYZ2Lab"
        /\ Pairs[3][1] = "LabV4toV2" /\ Pairs[3][2] = "LabV2toV4"
        /\ Pairs[4][1] = "LabV2toV4" /\ Pairs[4][2] = "LabV4toV2"
        /\ Pairs[5][1] = "Lab2FloatPCS" /\ Pairs[5][2] = "FloatPCS2Lab"
        /\ Pairs[6][1] = "XYZ2FloatPCS" /\ Pairs[6][2] = "FloatPCS2XYZ"
    BY DEF Pairs
  <2>4. 1 \in 1 .. 4 /\ 2 \in 1 .. 4 /\ 3 \in 1 .. 4 /\ 4 \in 1 .. 4
    OBVIOUS
  <2>5. r = 1 \/ r = 2 \/ r = 3 \/ r = 4 \/ r = 5 \/ r = 6
    BY <2>1
  <2>6. QED
    BY <2>2, <2>3, <2>4, <2>5, Zenon
<1>3. PICK k \in 1 .. 4 : \/ s.implements = Lists!Forth[k] /\ u.implements = Lists!Back[k]
                          \/ s.implements = Lists!Back[k] /\ u.implements = Lists!Forth[k]
  BY <1>1, <1>2
<1>4. QED
  BY <1>3, ThereApplies, AndBackApplies, ThereAndBack

\* A stage makes integers of integers.
LEMMA StageGives ==
  ASSUME NEW s \in Stages, NEW v \in [1 .. s.in -> Int]
  PROVE  Lists!Apply(v, s) \in [1 .. s.out -> Int]
<1>1. WellMade(s)
  BY StagesAreWellMade
<1>2. s.in \in Nat \ {0} /\ s.out \in Nat \ {0}
  BY <1>1 DEF WellMade
<1>3. CASE s.implements = "Identity"
  <2>1. s.in = s.out
    BY <1>3, IdentityPasses
  <2>2. Lists!Apply(v, s) = v
    BY <1>3, TheConversions DEF Lists!Apply
  <2>3. QED
    BY <2>1, <2>2
<1>4. CASE s.implements = "Matrix"
  <2>1. /\ s.data.matrix \in [1 .. s.in * s.out -> Int]
        /\ s.data.offset = <<>> \/ s.data.offset \in [1 .. s.out -> Int]
    BY <1>1, <1>4 DEF WellMade
  <2>2. Lists!Affine(s.data, s.in, v) \in [1 .. s.out -> Int]
    BY <1>2, <2>1, AffineIs
  <2>3. Lists!Apply(v, s) = Lists!Affine(s.data, s.in, v)
    BY <1>4, TheConversions DEF Lists!Apply
  <2>4. QED
    BY <2>2, <2>3
<1>5. CASE s.implements \in Lists!ToSet(Lists!Forth) \/ s.implements \in Lists!ToSet(Lists!Back)
  <2>1. \E k \in 1 .. 4 : s.implements = Lists!Forth[k] \/ s.implements = Lists!Back[k]
    BY <1>5, TheConversions DEF Lists!ToSet
  <2>2. \E r \in DOMAIN Pairs : s.implements \in ToSet(Pairs[r])
    <3>1. DOMAIN <<"a", "b">> = 1 .. 2
      OBVIOUS
    <3>2. \A x, y : ToSet(<<x, y>>) = {x, y}
      BY DEF ToSet
    <3>3. /\ ToSet(Pairs[1]) = {"XYZ2Lab", "Lab2XYZ"} /\ ToSet(Pairs[3]) = {"LabV4toV2", "LabV2toV4"}
          /\ ToSet(Pairs[5]) = {"Lab2FloatPCS", "FloatPCS2Lab"} /\ ToSet(Pairs[6]) = {"XYZ2FloatPCS", "FloatPCS2XYZ"}
      BY <3>2 DEF Pairs
    <3>4. 1 \in DOMAIN Pairs /\ 3 \in DOMAIN Pairs /\ 5 \in DOMAIN Pairs /\ 6 \in DOMAIN Pairs
      BY RuleNumbers
    <3>5. \/ s.implements \in {"XYZ2Lab", "Lab2XYZ"} \/ s.implements \in {"LabV4toV2", "LabV2toV4"}
          \/ s.implements \in {"Lab2FloatPCS", "FloatPCS2Lab"} \/ s.implements \in {"XYZ2FloatPCS", "FloatPCS2XYZ"}
      BY <1>5, TheConversions
    <3>6. QED
      BY <3>3, <3>4, <3>5
  <2>3. s.in = 3 /\ s.out = 3
    BY <2>2, <1>1, Zenon DEF WellMade
  <2>4. \A k \in 1 .. 4 : Lists!There(k, v) \in [1 .. 3 -> Int] /\ Lists!AndBack(k, v) \in [1 .. 3 -> Int]
    BY <2>3, ThereAndBack
  <2>5. QED
    BY <2>1, <2>3, <2>4, ThereApplies, AndBackApplies
<1>6. CASE /\ s.implements # "Identity" /\ s.implements # "Matrix"
           /\ s.implements \notin Lists!ToSet(Lists!Forth) /\ s.implements \notin Lists!ToSet(Lists!Back)
  <2>1. Lists!Apply(v, s) = [k \in 1 .. s.out |-> Lists!SumOf(v) + k * v[1] + k]
    BY <1>6 DEF Lists!Apply
  <2>2. Lists!SumOf(v) \in Int
    BY <1>2, SumIsInt
  <2>3. v[1] \in Int
    BY <1>2
  <2>4. \A k \in 1 .. s.out : Lists!SumOf(v) + k * v[1] + k \in Int
    BY <1>2, <2>2, <2>3
  <2>5. QED
    BY <2>1, <2>4
<1>7. QED
  BY <1>3, <1>4, <1>5, <1>6

\* The elements of a matrix of three by three are integers.
LEMMA Nine ==
  ASSUME NEW m \in [1 .. 9 -> Int]
  PROVE  /\ m[1] \in Int /\ m[2] \in Int /\ m[3] \in Int /\ m[4] \in Int /\ m[5] \in Int /\ m[6] \in Int
         /\ m[7] \in Int /\ m[8] \in Int /\ m[9] \in Int
<1>1. \A k \in 1 .. 9 : m[k] \in Int
  OBVIOUS
<1>2. QED
  BY <1>1

\* p is the product of the matrices n and m.
IsProduct(p, n, m) ==
  /\ p[1] = n[1] * m[1] + n[2] * m[4] + n[3] * m[7]
  /\ p[2] = n[1] * m[2] + n[2] * m[5] + n[3] * m[8]
  /\ p[3] = n[1] * m[3] + n[2] * m[6] + n[3] * m[9]
  /\ p[4] = n[4] * m[1] + n[5] * m[4] + n[6] * m[7]
  /\ p[5] = n[4] * m[2] + n[5] * m[5] + n[6] * m[8]
  /\ p[6] = n[4] * m[3] + n[5] * m[6] + n[6] * m[9]
  /\ p[7] = n[7] * m[1] + n[8] * m[4] + n[9] * m[7]
  /\ p[8] = n[7] * m[2] + n[8] * m[5] + n[9] * m[8]
  /\ p[9] = n[7] * m[3] + n[8] * m[6] + n[9] * m[9]

\* The elements of a product of matrices.
LEMMA ProductIs ==
  ASSUME NEW n, NEW m
  PROVE  IsProduct(MAT3per(n, m), n, m)
<1> DEFINE p == MAT3per(n, m)
<1>1. \A k \in 1 .. 9 : p[k] = RowTimesColumn(n, m, (k - 1) \div 3, (k - 1) % 3)
  BY DEF MAT3per
<1>2. /\ p[1] = RowTimesColumn(n, m, 0, 0) /\ p[2] = RowTimesColumn(n, m, 0, 1) /\ p[3] = RowTimesColumn(n, m, 0, 2)
      /\ p[4] = RowTimesColumn(n, m, 1, 0) /\ p[5] = RowTimesColumn(n, m, 1, 1) /\ p[6] = RowTimesColumn(n, m, 1, 2)
      /\ p[7] = RowTimesColumn(n, m, 2, 0) /\ p[8] = RowTimesColumn(n, m, 2, 1) /\ p[9] = RowTimesColumn(n, m, 2, 2)
  <2>1. /\ (1 - 1) \div 3 = 0 /\ (1 - 1) % 3 = 0 /\ (2 - 1) \div 3 = 0 /\ (2 - 1) % 3 = 1
        /\ (3 - 1) \div 3 = 0 /\ (3 - 1) % 3 = 2 /\ (4 - 1) \div 3 = 1 /\ (4 - 1) % 3 = 0
        /\ (5 - 1) \div 3 = 1 /\ (5 - 1) % 3 = 1 /\ (6 - 1) \div 3 = 1 /\ (6 - 1) % 3 = 2
        /\ (7 - 1) \div 3 = 2 /\ (7 - 1) % 3 = 0 /\ (8 - 1) \div 3 = 2 /\ (8 - 1) % 3 = 1
        /\ (9 - 1) \div 3 = 2 /\ (9 - 1) % 3 = 2
    OBVIOUS
  <2>2. /\ 1 \in 1 .. 9 /\ 2 \in 1 .. 9 /\ 3 \in 1 .. 9 /\ 4 \in 1 .. 9 /\ 5 \in 1 .. 9
        /\ 6 \in 1 .. 9 /\ 7 \in 1 .. 9 /\ 8 \in 1 .. 9 /\ 9 \in 1 .. 9
    OBVIOUS
  <2>3. QED
    BY <2>1, <2>2, <1>1, Zenon
<1> HIDE DEF p
<1>3. IsProduct(p, n, m)
  BY <1>2 DEF RowTimesColumn, IsProduct
<1>4. QED
  BY <1>3 DEF p

\* The data of matrix stages of three by three, and of the product of two.
NoOffset(a) == a.matrix \in [1 .. 9 -> Int] /\ a.offset = <<>>
HasProduct(c, b, a) == c.matrix = MAT3per(b.matrix, a.matrix) /\ c.offset = <<>>

\* To apply one matrix and then another is to apply their product, in that order.
LEMMA ProductApplies ==
  ASSUME NEW a, NoOffset(a), NEW b, NoOffset(b), NEW c, HasProduct(c, b, a), NEW v \in [1 .. 3 -> Int]
  PROVE  Lists!Affine(b, 3, Lists!Affine(a, 3, v)) = Lists!Affine(c, 3, v)
<1> DEFINE m == a.matrix
           n == b.matrix
           p == c.matrix
           w == Lists!Affine(a, 3, v)
           x == Lists!Affine(b, 3, w)
           y == Lists!Affine(c, 3, v)
<1>1. /\ m \in [1 .. 9 -> Int] /\ n \in [1 .. 9 -> Int] /\ p = MAT3per(n, m)
      /\ a.offset = <<>> /\ b.offset = <<>> /\ c.offset = <<>>
  BY DEF NoOffset, HasProduct
<1>2. p \in [1 .. 9 -> Int]
  <2> HIDE DEF m, n, p
  <2>1. QED
    BY <1>1, ProductIsMatrix
<1>3. IsAffine(w, m, v)
  BY <1>1, AffineOfThree
<1>4. w \in [1 .. 3 -> Int]
  BY <1>3 DEF IsAffine
<1>5. IsAffine(x, n, w)
  <2> HIDE DEF w
  <2>1. QED
    BY <1>1, <1>4, AffineOfThree
<1>6. IsAffine(y, p, v)
  BY <1>1, <1>2, AffineOfThree
<1> HIDE DEF m, n, p, w, x, y
<1>7. v[1] \in Int /\ v[2] \in Int /\ v[3] \in Int
  OBVIOUS
<1>8. /\ w[1] = m[1] * v[1] + m[2] * v[2] + m[3] * v[3]
      /\ w[2] = m[4] * v[1] + m[5] * v[2] + m[6] * v[3]
      /\ w[3] = m[7] * v[1] + m[8] * v[2] + m[9] * v[3]
  BY <1>3 DEF IsAffine
<1>9. /\ m[1] \in Int /\ m[2] \in Int /\ m[3] \in Int /\ m[4] \in Int /\ m[5] \in Int /\ m[6] \in Int
      /\ m[7] \in Int /\ m[8] \in Int /\ m[9] \in Int
  BY <1>1, Nine
<1>10. /\ n[1] \in Int /\ n[2] \in Int /\ n[3] \in Int /\ n[4] \in Int /\ n[5] \in Int /\ n[6] \in Int
       /\ n[7] \in Int /\ n[8] \in Int /\ n[9] \in Int
  BY <1>1, Nine
<1>11. ASSUME NEW i \in Int, NEW j \in Int, NEW k \in Int
       PROVE  i * w[1] + j * w[2] + k * w[3]
                = (i * m[1] + j * m[4] + k * m[7]) * v[1] + (i * m[2] + j * m[5] + k * m[8]) * v[2]
                    + (i * m[3] + j * m[6] + k * m[9]) * v[3]
  <2> DEFINE b1 == m[1]
             b2 == m[2]
             b3 == m[3]
             b4 == m[4]
             b5 == m[5]
             b6 == m[6]
             b7 == m[7]
             b8 == m[8]
             b9 == m[9]
             v1 == v[1]
             v2 == v[2]
             v3 == v[3]
  <2>1. /\ b1 \in Int /\ b2 \in Int /\ b3 \in Int /\ b4 \in Int /\ b5 \in Int /\ b6 \in Int
        /\ b7 \in Int /\ b8 \in Int /\ b9 \in Int /\ v1 \in Int /\ v2 \in Int /\ v3 \in Int
    BY <1>7, <1>9
  <2>2. w[1] = b1 * v1 + b2 * v2 + b3 * v3 /\ w[2] = b4 * v1 + b5 * v2 + b6 * v3 /\ w[3] = b7 * v1 + b8 * v2 + b9 * v3
    BY <1>8
  <2> HIDE DEF b1, b2, b3, b4, b5, b6, b7, b8, b9, v1, v2, v3
  <2>3. i * (b1 * v1 + b2 * v2 + b3 * v3) + j * (b4 * v1 + b5 * v2 + b6 * v3) + k * (b7 * v1 + b8 * v2 + b9 * v3)
          = (i * b1 + j * b4 + k * b7) * v1 + (i * b2 + j * b5 + k * b8) * v2 + (i * b3 + j * b6 + k * b9) * v3
    BY <2>1
  <2>4. QED
    BY <2>2, <2>3, Zenon DEF b1, b2, b3, b4, b5, b6, b7, b8, b9, v1, v2, v3
<1> DEFINE Spread(i, j, k) ==
             i * w[1] + j * w[2] + k * w[3]
               = (i * m[1] + j * m[4] + k * m[7]) * v[1] + (i * m[2] + j * m[5] + k * m[8]) * v[2]
                   + (i * m[3] + j * m[6] + k * m[9]) * v[3]
<1>21. \A i, j, k \in Int : Spread(i, j, k)
  BY <1>11
<1> HIDE DEF Spread
<1>12. /\ x[1] = n[1] * w[1] + n[2] * w[2] + n[3] * w[3]
       /\ x[2] = n[4] * w[1] + n[5] * w[2] + n[6] * w[3]
       /\ x[3] = n[7] * w[1] + n[8] * w[2] + n[9] * w[3]
  BY <1>5 DEF IsAffine
<1>13. /\ y[1] = p[1] * v[1] + p[2] * v[2] + p[3] * v[3]
       /\ y[2] = p[4] * v[1] + p[5] * v[2] + p[6] * v[3]
       /\ y[3] = p[7] * v[1] + p[8] * v[2] + p[9] * v[3]
  BY <1>6 DEF IsAffine
<1>14. IsProduct(p, n, m)
  BY <1>1, ProductIs
<1>15. x[1] = y[1]
  <2>1. n[1] * w[1] + n[2] * w[2] + n[3] * w[3]
          = (n[1] * m[1] + n[2] * m[4] + n[3] * m[7]) * v[1] + (n[1] * m[2] + n[2] * m[5] + n[3] * m[8]) * v[2]
              + (n[1] * m[3] + n[2] * m[6] + n[3] * m[9]) * v[3]
    <3>1. Spread(n[1], n[2], n[3])
      BY <1>10, <1>21
    <3>2. QED
      BY <3>1, Zenon DEF Spread
  <2>2. /\ p[1] = n[1] * m[1] + n[2] * m[4] + n[3] * m[7]
        /\ p[2] = n[1] * m[2] + n[2] * m[5] + n[3] * m[8]
        /\ p[3] = n[1] * m[3] + n[2] * m[6] + n[3] * m[9]
    BY <1>14, Zenon DEF IsProduct
  <2>3. QED
    BY <2>1, <2>2, <1>12, <1>13, Zenon
<1>16. x[2] = y[2]
  <2>1. n[4] * w[1] + n[5] * w[2] + n[6] * w[3]
          = (n[4] * m[1] + n[5] * m[4] + n[6] * m[7]) * v[1] + (n[4] * m[2] + n[5] * m[5] + n[6] * m[8]) * v[2]
              + (n[4] * m[3] + n[5] * m[6] + n[6] * m[9]) * v[3]
    <3>1. Spread(n[4], n[5], n[6])
      BY <1>10, <1>21
    <3>2. QED
      BY <3>1, Zenon DEF Spread
  <2>2. /\ p[4] = n[4] * m[1] + n[5] * m[4] + n[6] * m[7]
        /\ p[5] = n[4] * m[2] + n[5] * m[5] + n[6] * m[8]
        /\ p[6] = n[4] * m[3] + n[5] * m[6] + n[6] * m[9]
    BY <1>14, Zenon DEF IsProduct
  <2>3. QED
    BY <2>1, <2>2, <1>12, <1>13, Zenon
<1>17. x[3] = y[3]
  <2>1. n[7] * w[1] + n[8] * w[2] + n[9] * w[3]
          = (n[7] * m[1] + n[8] * m[4] + n[9] * m[7]) * v[1] + (n[7] * m[2] + n[8] * m[5] + n[9] * m[8]) * v[2]
              + (n[7] * m[3] + n[8] * m[6] + n[9] * m[9]) * v[3]
    <3>1. Spread(n[7], n[8], n[9])
      BY <1>10, <1>21
    <3>2. QED
      BY <3>1, Zenon DEF Spread
  <2>2. /\ p[7] = n[7] * m[1] + n[8] * m[4] + n[9] * m[7]
        /\ p[8] = n[7] * m[2] + n[8] * m[5] + n[9] * m[8]
        /\ p[9] = n[7] * m[3] + n[8] * m[6] + n[9] * m[9]
    BY <1>14, Zenon DEF IsProduct
  <2>3. QED
    BY <2>1, <2>2, <1>12, <1>13, Zenon
<1>18. x \in [1 .. 3 -> Int] /\ y \in [1 .. 3 -> Int]
  BY <1>5, <1>6 DEF IsAffine
<1>19. x = y
  <2>1. \A r \in 1 .. 3 : r = 1 \/ r = 2 \/ r = 3
    OBVIOUS
  <2>2. \A r \in 1 .. 3 : x[r] = y[r]
    BY <2>1, <1>15, <1>16, <1>17, Zenon
  <2>3. x = [r \in 1 .. 3 |-> x[r]] /\ y = [r \in 1 .. 3 |-> y[r]]
    BY <1>18
  <2>4. QED
    BY <2>2, <2>3, Zenon
<1>20. QED
  BY <1>19 DEF x, y, w

\* Applied by a stage of that matrix.
LEMMA IdentityMatrixApplies ==
  ASSUME NEW c, c.matrix = IdentityMatrix, c.offset = <<>>, NEW v \in [1 .. 3 -> Int]
  PROVE  Lists!Affine(c, 3, v) = v
<1> DEFINE m == c.matrix
           w == Lists!Affine(c, 3, v)
<1>1. /\ m[1] = 1 /\ m[2] = 0 /\ m[3] = 0 /\ m[4] = 0 /\ m[5] = 1 /\ m[6] = 0
      /\ m[7] = 0 /\ m[8] = 0 /\ m[9] = 1 /\ m \in [1 .. 9 -> Int]
  BY DEF IdentityMatrix
<1>2. IsAffine(w, m, v)
  BY <1>1, AffineOfThree
<1> HIDE DEF m, w
<1>4. v[1] \in Int /\ v[2] \in Int /\ v[3] \in Int
  OBVIOUS
<1>5. /\ w[1] = 1 * v[1] + 0 * v[2] + 0 * v[3]
      /\ w[2] = 0 * v[1] + 1 * v[2] + 0 * v[3]
      /\ w[3] = 0 * v[1] + 0 * v[2] + 1 * v[3]
  BY <1>1, <1>2, Zenon DEF IsAffine
<1>6. w[1] = v[1] /\ w[2] = v[2] /\ w[3] = v[3]
  BY <1>4, <1>5
<1>7. w \in [1 .. 3 -> Int]
  BY <1>2 DEF IsAffine
<1>8. w = v
  BY <1>6, <1>7
<1>9. QED
  BY <1>8 DEF w

----------------------------------------------------------------------------
\* The values the loop of Compute leaves.
MapUpto(f, e, v, n) ==
  f = [k \in 0 .. n |-> IF k = 0 THEN v ELSE Lists!Apply(f[k - 1], e[k])]

\* What the first n stages make of v, for every n.
LEMMA MapUptoExists ==
  ASSUME NEW n \in Nat, NEW e, NEW v
  PROVE  \E f : MapUpto(f, e, v, n)
<1> DEFINE Upto == {k \in 0 .. n : \E f : MapUpto(f, e, v, k)}
<1>1. 0 \in Upto
  <2> DEFINE f == [k \in 0 .. 0 |-> v]
  <2>1. MapUpto(f, e, v, 0)
    BY DEF MapUpto
  <2> HIDE DEF f
  <2>2. 0 \in 0 .. n
    OBVIOUS
  <2>3. QED
    BY <2>1, <2>2
<1>2. ASSUME NEW i \in 0 .. n, i \in Upto, i < n PROVE i + 1 \in Upto
  <2>1. PICK f : MapUpto(f, e, v, i)
    BY <1>2
  <2> DEFINE g == [k \in 0 .. i + 1 |-> IF k <= i THEN f[k] ELSE Lists!Apply(f[i], e[i + 1])]
  <2>2. ASSUME NEW k \in 0 .. i + 1
        PROVE  g[k] = IF k = 0 THEN v ELSE Lists!Apply(g[k - 1], e[k])
    <3>1. CASE k <= i
      <4>1. k \in 0 .. i /\ g[k] = f[k] /\ (k # 0 => k - 1 \in 0 .. i + 1 /\ k - 1 <= i)
        BY <3>1
      <4>2. k # 0 => g[k - 1] = f[k - 1]
        BY <4>1
      <4>3. f[k] = IF k = 0 THEN v ELSE Lists!Apply(f[k - 1], e[k])
        BY <4>1, <2>1 DEF MapUpto
      <4> HIDE DEF g
      <4>4. QED
        BY <4>1, <4>2, <4>3
    <3>2. CASE ~(k <= i)
      <4>1. k # 0 /\ k - 1 = i /\ i \in 0 .. i + 1 /\ g[i] = f[i] /\ k = i + 1
        BY <3>2
      <4>2. g[k] = Lists!Apply(f[i], e[i + 1])
        BY <3>2
      <4> HIDE DEF g
      <4>3. QED
        BY <4>1, <4>2
    <3>3. QED
      BY <3>1, <3>2
  <2>3. g = [k \in 0 .. i + 1 |-> g[k]]
    OBVIOUS
  <2> HIDE DEF g
  <2>4. MapUpto(g, e, v, i + 1)
    BY <2>2, <2>3 DEF MapUpto
  <2>5. i + 1 \in 0 .. n
    BY <1>2
  <2>6. QED
    BY <2>4, <2>5
<1> HIDE DEF Upto
<1>3. 0 .. n \subseteq Upto
  BY <1>1, <1>2, Induction
<1>4. n \in Upto
  BY <1>3
<1>5. QED
  BY <1>4 DEF Upto

\* f has what v becomes after each of the n stages of e.
Runs(f, e, v, n) ==
  f[0] = v /\ \A k \in 1 .. n : f[k] = Lists!Apply(f[k - 1], e[k])

\* What a pipeline computes is the last value of the run over its stages.
LEMMA ComputeIs ==
  ASSUME NEW S, NEW e \in Seq(S), NEW v
  PROVE  \E f : Runs(f, e, v, Len(e)) /\ Lists!Compute(e, v) = f[Len(e)]
<1> DEFINE f == CHOOSE g : MapUpto(g, e, v, Len(e))
<1>1. Len(e) \in Nat
  OBVIOUS
<1>2. MapUpto(f, e, v, Len(e))
  <2>1. \E g : MapUpto(g, e, v, Len(e))
    BY <1>1, MapUptoExists
  <2>2. QED
    BY <2>1
<1>3. Lists!Compute(e, v) = f[Len(e)]
  BY DEF Lists!Compute, MapUpto
<1> HIDE DEF f
<1>4. \A k \in 0 .. Len(e) : f[k] = IF k = 0 THEN v ELSE Lists!Apply(f[k - 1], e[k])
  BY <1>2 DEF MapUpto
<1>5. Runs(f, e, v, Len(e))
  <2>1. 0 \in 0 .. Len(e) /\ \A k \in 1 .. Len(e) : k \in 0 .. Len(e) /\ k # 0
    BY <1>1
  <2>2. QED
    BY <2>1, <1>4 DEF Runs
<1>6. QED
  BY <1>3, <1>5

\* Stages that fit give integers to the next one.
LEMMA StagesTake ==
  ASSUME NEW e \in Seq(Stages), Consistent(e), NEW n, n = Len(e), n # 0, NEW v \in [1 .. e[1].in -> Int],
         NEW f, Runs(f, e, v, n), NEW i \in 0 .. n, NEW j \in 1 .. n, NextTo(i, j)
  PROVE  f[i] \in [1 .. e[j].in -> Int]
<1> DEFINE Fit == {k \in 0 .. n - 1 : f[k] \in [1 .. e[k + 1].in -> Int]}
<1>1. n \in Nat /\ n - 1 \in Nat /\ \A k \in 1 .. n : e[k] \in Stages
  OBVIOUS
<1>2. 0 \in Fit
  BY <1>1 DEF Runs
<1>3. ASSUME NEW k \in 0 .. n - 1, k \in Fit, k < n - 1 PROVE k + 1 \in Fit
  <2> DEFINE a == k + 1
             b == a + 1
  <2>1. a \in 1 .. n /\ a \in 0 .. n - 1 /\ b \in 1 .. n /\ a \in 1 .. n - 1
    BY <1>1, <1>3
  <2>2. f[k] \in [1 .. e[a].in -> Int] /\ a - 1 = k
    BY <1>3
  <2>3. e[b].in = e[a].out
    BY <2>1 DEF Consistent
  <2> HIDE DEF a, b
  <2>4. f[a] = Lists!Apply(f[k], e[a])
    BY <2>1, <2>2 DEF Runs
  <2>5. f[a] \in [1 .. e[b].in -> Int]
    BY <2>1, <2>2, <2>3, <2>4, <1>1, StageGives
  <2>6. QED
    BY <2>1, <2>5 DEF a, b
<1> HIDE DEF Fit
<1>4. 0 .. n - 1 \subseteq Fit
  BY <1>1, <1>2, <1>3, Induction
<1>5. i \in 0 .. n - 1 /\ j = i + 1
  BY <1>1 DEF NextTo
<1>6. i \in Fit
  BY <1>4, <1>5
<1>7. QED
  BY <1>5, <1>6 DEF Fit

\* The k stages of d after the first a are those of e after the first b.
Aligned(d, a, e, b, k) == \A x \in 1 .. k : d[a + x] = e[b + x]
Past(a, k, r) == r = a + k

\* Two runs that agree at a place go on alike over the same stages.
LEMMA RunsGoOn ==
  ASSUME NEW d, NEW m \in Nat, NEW f, NEW v, Runs(f, d, v, m),
         NEW e, NEW n \in Nat, NEW g, NEW u, Runs(g, e, u, n),
         NEW a \in Nat, NEW b \in Nat, NEW k \in Nat, NEW c \in 0 .. m, Past(a, k, c), NEW z \in 0 .. n, Past(b, k, z),
         f[a] = g[b], Aligned(d, a, e, b, k)
  PROVE  f[c] = g[z]
<1> DEFINE Alike == {x \in 0 .. k : f[a + x] = g[b + x]}
<1>6. c = a + k /\ z = b + k /\ a + k <= m /\ b + k <= n
  BY DEF Past
<1>1. 0 \in Alike
  OBVIOUS
<1>2. ASSUME NEW x \in 0 .. k, x \in Alike, x < k PROVE x + 1 \in Alike
  <2> DEFINE y == x + 1
             r == a + y
             s == b + y
  <2>1. y \in 1 .. k /\ r \in 1 .. m /\ s \in 1 .. n /\ r - 1 = a + x /\ s - 1 = b + x /\ y \in 0 .. k
    BY <1>2, <1>6
  <2>2. d[r] = e[s]
    BY <2>1 DEF Aligned
  <2>3. f[a + x] = g[b + x]
    BY <1>2
  <2> HIDE DEF r, s
  <2>4. f[r] = Lists!Apply(f[r - 1], d[r]) /\ g[s] = Lists!Apply(g[s - 1], e[s])
    BY <2>1 DEF Runs
  <2>5. f[r] = g[s]
    BY <2>1, <2>2, <2>3, <2>4
  <2>6. QED
    BY <2>1, <2>5 DEF r, s
<1> HIDE DEF Alike
<1>3. 0 .. k \subseteq Alike
  BY <1>1, <1>2, Induction
<1>4. k \in Alike
  BY <1>3
<1>5. QED
  BY <1>4, <1>6 DEF Alike

\* Without a stage, or two, that do nothing the stages compute the same.
Neutral(e, i, n) ==
  \A v \in [1 .. e[i + 1].in -> Int] :
    /\ n = 1 => Lists!Apply(v, e[i + 1]) = v
    /\ n = 2 => Lists!Apply(Lists!Apply(v, e[i + 1]), e[i + 2]) = v

\* Take out a neutral stage or two: the runs agree up to there, skip them, and
\* go on alike.
LEMMA CutKeepsMap ==
  ASSUME NEW e \in Seq(Stages), NEW d \in Seq(Stages), NEW i \in Nat, NEW n \in 1 .. 2, i + n <= Len(e),
         IsCut(d, e, i, n), Consistent(e), Neutral(e, i, n), NEW v \in [1 .. e[1].in -> Int]
  PROVE  Lists!Compute(d, v) = Lists!Compute(e, v)
<1> DEFINE ne == Len(e)
           nd == Len(d)
           j == i + 1
           b == i + n
           r == nd - i
<1>1. PICK f : Runs(f, d, v, nd) /\ Lists!Compute(d, v) = f[nd]
  BY ComputeIs
<1>2. PICK g : Runs(g, e, v, ne) /\ Lists!Compute(e, v) = g[ne]
  BY ComputeIs
<1>3. nd \in Nat /\ ne \in Nat /\ n \in Nat /\ n >= 1 /\ nd = ne - n /\ b <= ne
  BY DEF IsCut
<1>4. /\ ne = Len(e) /\ ne # 0 /\ i <= nd /\ i <= ne /\ i \in 0 .. ne /\ j \in 1 .. ne /\ NextTo(i, j)
      /\ r \in Nat /\ i + r = nd /\ b + r = ne /\ b \in Nat /\ b + r <= ne /\ i + r <= nd
  BY <1>3 DEF NextTo
<1>5. \A x \in 1 .. nd : d[x] = e[IF x <= i THEN x ELSE x + n]
  BY DEF IsCut
<1>6. Aligned(d, 0, e, 0, i)
  <2>1. \A x \in 1 .. i : x \in 1 .. nd /\ x <= i /\ 0 + x = x
    BY <1>3, <1>4
  <2>2. QED
    BY <2>1, <1>5 DEF Aligned
<1>7. Aligned(d, i, e, b, r)
  <2>1. \A x \in 1 .. r : i + x \in 1 .. nd /\ ~(i + x <= i) /\ (i + x) + n = b + x
    BY <1>3, <1>4
  <2>2. QED
    BY <2>1, <1>5 DEF Aligned
<1> HIDE DEF nd, ne, j, b, r
<1>8. f[i] = g[i]
  <2>1. f[0] = g[0]
    BY <1>1, <1>2 DEF Runs
  <2>2. i \in 0 .. nd /\ i \in 0 .. ne /\ Past(0, i, i) /\ 0 \in Nat
    BY <1>4 DEF Past
  <2>3. QED
    BY <2>1, <2>2, <1>1, <1>2, <1>3, <1>6, RunsGoOn
<1>9. g[i] \in [1 .. e[j].in -> Int]
  BY <1>2, <1>4, StagesTake
<1>10. g[b] = g[i]
  <2>1. CASE n = 1
    <3>1. b = j /\ j = i + 1 /\ j - 1 = i /\ j \in 1 .. ne
      BY <2>1, <1>4 DEF b, j
    <3>2. g[j] = Lists!Apply(g[j - 1], e[j])
      BY <3>1, <1>2 DEF Runs
    <3>3. Lists!Apply(g[i], e[j]) = g[i]
      BY <3>1, <2>1, <1>9 DEF Neutral
    <3>4. QED
      BY <3>1, <3>2, <3>3
  <2>2. CASE n = 2
    <3>1. b = i + 2 /\ j = i + 1 /\ j - 1 = i /\ b - 1 = j /\ j \in 1 .. ne /\ b \in 1 .. ne
      BY <2>2, <1>3, <1>4 DEF b, j
    <3>2. g[j] = Lists!Apply(g[j - 1], e[j]) /\ g[b] = Lists!Apply(g[b - 1], e[b])
      BY <3>1, <1>2 DEF Runs
    <3>3. Lists!Apply(Lists!Apply(g[i], e[j]), e[b]) = g[i]
      BY <3>1, <2>2, <1>9 DEF Neutral
    <3>4. QED
      BY <3>1, <3>2, <3>3
  <2>3. QED
    BY <2>1, <2>2
<1>11. f[nd] = g[ne]
  <2>1. nd \in 0 .. nd /\ ne \in 0 .. ne /\ Past(i, r, nd) /\ Past(b, r, ne)
    BY <1>3, <1>4 DEF Past
  <2>2. f[i] = g[b] /\ r \in Nat /\ b \in Nat
    BY <1>4, <1>8, <1>10
  <2>3. QED
    BY <2>1, <2>2, <1>1, <1>2, <1>3, <1>7, RunsGoOn
<1>12. QED
  BY <1>1, <1>2, <1>11

\* With one stage for two that compute what it computes, too.
Composed(e, i, s) ==
  \A v \in [1 .. e[i + 1].in -> Int] :
    Lists!Apply(Lists!Apply(v, e[i + 1]), e[i + 2]) = Lists!Apply(v, s)

\* Put one stage for two it is the composition of: the same.
LEMMA SwapKeepsMap ==
  ASSUME NEW e \in Seq(Stages), NEW d \in Seq(Stages), NEW i \in Nat, NEW s,
         IsSwap(d, e, i, s), Consistent(e), Composed(e, i, s), NEW v \in [1 .. e[1].in -> Int]
  PROVE  Lists!Compute(d, v) = Lists!Compute(e, v)
<1> DEFINE ne == Len(e)
           nd == Len(d)
           j == i + 1
           b == i + 2
           r == nd - j
<1>1. PICK f : Runs(f, d, v, nd) /\ Lists!Compute(d, v) = f[nd]
  BY ComputeIs
<1>2. PICK g : Runs(g, e, v, ne) /\ Lists!Compute(e, v) = g[ne]
  BY ComputeIs
<1>3. nd \in Nat /\ ne \in Nat /\ nd = ne - 1 /\ b <= ne
  BY DEF IsSwap
<1>4. /\ ne = Len(e) /\ ne # 0 /\ i <= nd /\ i <= ne /\ i \in 0 .. ne /\ j \in 1 .. ne /\ NextTo(i, j)
      /\ r \in Nat /\ j + r = nd /\ b + r = ne /\ b \in Nat /\ j \in Nat /\ b + r <= ne /\ j + r <= nd
      /\ j \in 1 .. nd /\ b \in 1 .. ne /\ j - 1 = i /\ b - 1 = j
  BY <1>3 DEF NextTo
<1>5. \A x \in 1 .. nd : d[x] = IF x <= i THEN e[x] ELSE IF x = i + 1 THEN s ELSE e[x + 1]
  BY DEF IsSwap
<1>6. Aligned(d, 0, e, 0, i)
  <2>1. \A x \in 1 .. i : x \in 1 .. nd /\ x <= i /\ 0 + x = x
    BY <1>3, <1>4
  <2>2. QED
    BY <2>1, <1>5 DEF Aligned
<1>7. Aligned(d, j, e, b, r)
  <2>1. \A x \in 1 .. r : j + x \in 1 .. nd /\ ~(j + x <= i) /\ j + x # i + 1 /\ (j + x) + 1 = b + x
    BY <1>3, <1>4
  <2>2. QED
    BY <2>1, <1>5 DEF Aligned
<1>13. d[j] = s
  <2>1. j \in 1 .. nd /\ ~(j <= i) /\ j = i + 1
    BY <1>4
  <2> HIDE DEF j
  <2>2. QED
    BY <2>1, <1>5
<1>14. j = i + 1 /\ b = i + 2
  OBVIOUS
<1> HIDE DEF nd, ne, j, b, r
<1>8. f[i] = g[i]
  <2>1. f[0] = g[0]
    BY <1>1, <1>2 DEF Runs
  <2>2. i \in 0 .. nd /\ i \in 0 .. ne /\ Past(0, i, i) /\ 0 \in Nat
    BY <1>4 DEF Past
  <2>3. QED
    BY <2>1, <2>2, <1>1, <1>2, <1>3, <1>6, RunsGoOn
<1>9. g[i] \in [1 .. e[j].in -> Int]
  BY <1>2, <1>4, StagesTake
<1>10. f[j] = g[b]
  <2>1. f[j] = Lists!Apply(f[i], s)
    BY <1>1, <1>4, <1>13 DEF Runs
  <2>2. g[j] = Lists!Apply(g[i], e[j]) /\ g[b] = Lists!Apply(g[j], e[b])
    BY <1>2, <1>4 DEF Runs
  <2>3. Lists!Apply(Lists!Apply(g[i], e[j]), e[b]) = Lists!Apply(g[i], s)
    BY <1>9, <1>14 DEF Composed
  <2>4. QED
    BY <2>1, <2>2, <2>3, <1>8
<1>11. f[nd] = g[ne]
  <2>1. nd \in 0 .. nd /\ ne \in 0 .. ne /\ Past(j, r, nd) /\ Past(b, r, ne)
    BY <1>3, <1>4 DEF Past
  <2>2. r \in Nat /\ b \in Nat /\ j \in Nat
    BY <1>4
  <2>3. QED
    BY <2>1, <2>2, <1>1, <1>2, <1>3, <1>7, <1>10, RunsGoOn
<1>12. QED
  BY <1>1, <1>2, <1>11

\* The vectors the maps are compared at are of integers.
LEMMA ProbesAreInts ==
  ASSUME NEW n \in Nat
  PROVE  Lists!Probes(n) \subseteq [1 .. n -> Int]
BY DEF Lists!Probes

\* So the map is the same.
LEMMA CutIsSameMap ==
  ASSUME NEW e \in Seq(Stages), NEW d \in Seq(Stages), NEW i \in Nat, NEW n \in 1 .. 2, i + n <= Len(e),
         IsCut(d, e, i, n), Consistent(e), Neutral(e, i, n)
  PROVE  Lists!SameMap(d, e, e[1].in)
<1>1. e[1].in \in Nat
  <2>1. 1 \in 1 .. Len(e)
    OBVIOUS
  <2>2. e[1] \in Stages
    BY <2>1, ElementOfSeq
  <2>3. QED
    BY <2>2, StagesAreWellMade DEF WellMade
<1>2. QED
  BY <1>1, ProbesAreInts, CutKeepsMap DEF Lists!SameMap

\* The same for what SameMap asks.
LEMMA SwapIsSameMap ==
  ASSUME NEW e \in Seq(Stages), NEW d \in Seq(Stages), NEW i \in Nat, NEW s,
         IsSwap(d, e, i, s), Consistent(e), Composed(e, i, s)
  PROVE  Lists!SameMap(d, e, e[1].in)
<1>1. e[1].in \in Nat
  <2>1. 1 \in 1 .. Len(e)
    BY DEF IsSwap
  <2>2. e[1] \in Stages
    BY <2>1, ElementOfSeq
  <2>3. QED
    BY <2>2, StagesAreWellMade DEF WellMade
<1>2. QED
  BY <1>1, ProbesAreInts, SwapKeepsMap DEF Lists!SameMap

\* What a matrix stage computes.
LEMMA MatrixApplies ==
  ASSUME NEW s, s.implements = "Matrix", s.in = 3, NEW v
  PROVE  Lists!Apply(v, s) = Lists!Affine(s.data, 3, v)
<1>1. s.implements # "Identity"
  OBVIOUS
<1>2. s.implements \notin Lists!ToSet(Lists!Forth) /\ s.implements \notin Lists!ToSet(Lists!Back)
  BY TheConversions
<1>3. QED
  BY <1>1, <1>2 DEF Lists!Apply

\* Remove1Op takes out only what does nothing (cmsopt.go:84).
LEMMA DroppedIdentityIsNeutral ==
  ASSUME NEW d, NEW e, NEW i, DropsIdentity(d, e, i)
  PROVE  Neutral(e, i, 1)
<1>1. e[i + 1].implements = "Identity"
  BY DEF DropsIdentity
<1>2. \A v : Lists!Apply(v, e[i + 1]) = v
  BY <1>1, TheConversions DEF Lists!Apply
<1>3. 1 # 2
  OBVIOUS
<1>4. QED
  BY <1>2, <1>3 DEF Neutral

\* Remove2Op takes out only two in a row that are inverse (cmsopt.go:100).
LEMMA DroppedPairIsNeutral ==
  ASSUME NEW d, NEW e \in Seq(Stages), NEW i \in Nat, DropsPair(d, e, i)
  PROVE  Neutral(e, i, 2)
<1> DEFINE a == e[i + 1]
           b == e[i + 2]
<1>1. PICK r \in DOMAIN Pairs : <<a.implements, b.implements>> = Pairs[r]
  BY DEF DropsPair
<1>2. a \in Stages /\ b \in Stages
  <2>1. i + 1 \in 1 .. Len(e) /\ i + 2 \in 1 .. Len(e)
    BY DEF DropsPair
  <2>2. QED
    BY <2>1, ElementOfSeq
<1>5. a = e[i + 1] /\ b = e[i + 2]
  OBVIOUS
<1> HIDE DEF a, b
<1>3. a.in = 3
  BY <1>1, <1>2, PairPasses
<1>4. \A v \in [1 .. 3 -> Int] : Lists!Apply(Lists!Apply(v, a), b) = v
  BY <1>1, PairDoesNothing
<1>6. 2 # 1
  OBVIOUS
<1>7. QED
  BY <1>3, <1>4, <1>5, <1>6 DEF Neutral

\* Two matrices compute what a stage of their product computes.
LEMMA TwoMatricesApply ==
  ASSUME NEW a \in Stages, a.implements = "Matrix", Multipliable(a),
         NEW b \in Stages, b.implements = "Matrix", Multipliable(b),
         NEW c, c.matrix = MAT3per(b.data.matrix, a.data.matrix), c.offset = <<>>, NEW v \in [1 .. 3 -> Int]
  PROVE  /\ c.matrix \in [1 .. 9 -> Int] /\ a.in = 3
         /\ Lists!Apply(Lists!Apply(v, a), b) = Lists!Affine(c, 3, v)
<1>1. a.in = 3 /\ b.in = 3 /\ a.data.offset = <<>> /\ b.data.offset = <<>>
  BY DEF Multipliable
<1>2. a.data.matrix \in [1 .. 9 -> Int] /\ b.data.matrix \in [1 .. 9 -> Int]
  BY MatricesToMultiply DEF StagesOrNone
<1>3. \A w : Lists!Apply(w, a) = Lists!Affine(a.data, 3, w)
  BY <1>1, MatrixApplies
<1>4. \A w : Lists!Apply(w, b) = Lists!Affine(b.data, 3, w)
  BY <1>1, MatrixApplies
<1> DEFINE x == a.data
           y == b.data
<1>5. /\ NoOffset(x) /\ NoOffset(y) /\ HasProduct(c, y, x)
      /\ x.matrix \in [1 .. 9 -> Int] /\ y.matrix \in [1 .. 9 -> Int] /\ c.matrix = MAT3per(y.matrix, x.matrix)
      /\ Lists!Apply(Lists!Apply(v, a), b) = Lists!Affine(y, 3, Lists!Affine(x, 3, v))
  BY <1>1, <1>2, <1>3, <1>4 DEF NoOffset, HasProduct
<1> HIDE DEF x, y
<1>6. Lists!Affine(y, 3, Lists!Affine(x, 3, v)) = Lists!Affine(c, 3, v)
  BY <1>5, ProductApplies
<1>7. c.matrix \in [1 .. 9 -> Int]
  BY <1>5, ProductIsMatrix
<1>8. QED
  BY <1>1, <1>5, <1>6, <1>7

\* Those the optimiser multiplies.
LEMMA MultipliedIsSame ==
  ASSUME NEW e \in Seq(Stages), NEW d \in Seq(Stages), NEW i \in Nat, Consistent(e), Multiplies(d, e, i)
  PROVE  Lists!SameMap(d, e, e[1].in) /\ Len(d) < Len(e)
<1> DEFINE a == e[i + 1]
           b == e[i + 2]
           res == MAT3per(b.data.matrix, a.data.matrix)
           c == [matrix |-> res, offset |-> <<>>]
<1>1. /\ ProductIsIn(d, e, i, res) /\ i + 2 <= Len(e)
      /\ a.implements = "Matrix" /\ Multipliable(a) /\ b.implements = "Matrix" /\ Multipliable(b)
  BY DEF Multiplies
<1>2. a \in Stages /\ b \in Stages
  <2>1. i + 1 \in 1 .. Len(e) /\ i + 2 \in 1 .. Len(e)
    BY <1>1
  <2>2. QED
    BY <2>1, ElementOfSeq
<1>3. a = e[i + 1] /\ b = e[i + 2] /\ res = MAT3per(b.data.matrix, a.data.matrix)
  OBVIOUS
<1>4. c.matrix = res /\ c.offset = <<>> /\ c = [matrix |-> res, offset |-> <<>>]
  OBVIOUS
<1> HIDE DEF a, b, res, c
<1>5. \A v \in [1 .. 3 -> Int] : /\ res \in [1 .. 9 -> Int] /\ a.in = 3
                                 /\ Lists!Apply(Lists!Apply(v, a), b) = Lists!Affine(c, 3, v)
  BY <1>1, <1>2, <1>3, <1>4, TwoMatricesApply
<1>6. res \in [1 .. 9 -> Int] /\ a.in = 3
  <2>1. [k \in 1 .. 3 |-> 0] \in [1 .. 3 -> Int]
    OBVIOUS
  <2>2. QED
    BY <2>1, <1>5
<1>7. CASE res = IdentityMatrix
  <2>1. \A v \in [1 .. 3 -> Int] : Lists!Affine(c, 3, v) = v
    BY <1>4, <1>7, IdentityMatrixApplies
  <2>2. Neutral(e, i, 2)
    <3>1. 2 # 1
      OBVIOUS
    <3>2. QED
      BY <2>1, <3>1, <1>3, <1>5, <1>6 DEF Neutral
  <2>3. IsCut(d, e, i, 2)
    BY <1>1, <1>7 DEF ProductIsIn
  <2>4. 2 \in 1 .. 2
    OBVIOUS
  <2>5. Lists!SameMap(d, e, e[1].in)
    BY <2>2, <2>3, <2>4, <1>1, CutIsSameMap
  <2>6. Len(d) < Len(e)
    BY <2>3 DEF IsCut
  <2>7. QED
    BY <2>5, <2>6
<1>8. CASE res # IdentityMatrix
  <2> DEFINE s == StageAllocMatrix(3, 3, res, <<>>)
  <2>1. s.implements = "Matrix" /\ s.in = 3 /\ s.data = c
    BY <1>4, <1>6, MatrixStage
  <2>2. IsSwap(d, e, i, s)
    BY <1>1, <1>8 DEF ProductIsIn
  <2> HIDE DEF s
  <2>3. \A v : Lists!Apply(v, s) = Lists!Affine(c, 3, v)
    BY <2>1, MatrixApplies
  <2>4. Composed(e, i, s)
    BY <2>3, <1>3, <1>5, <1>6 DEF Composed
  <2>5. Lists!SameMap(d, e, e[1].in)
    BY <2>2, <2>4, SwapIsSameMap
  <2>6. Len(d) < Len(e)
    BY <2>2 DEF IsSwap
  <2>7. QED
    BY <2>5, <2>6
<1>9. QED
  BY <1>7, <1>8

\* So what they leave computes the same, and is shorter.
LEMMA DroppedIsSame ==
  ASSUME NEW e \in Seq(Stages), NEW d \in Seq(Stages), NEW i \in Nat, Consistent(e),
         DropsIdentity(d, e, i) \/ DropsPair(d, e, i)
  PROVE  Lists!SameMap(d, e, e[1].in) /\ Len(d) < Len(e)
<1>1. CASE DropsIdentity(d, e, i)
  <2>1. IsCut(d, e, i, 1) /\ i + 1 <= Len(e) /\ 1 \in 1 .. 2 /\ Len(d) < Len(e)
    BY <1>1 DEF DropsIdentity, IsCut
  <2>2. Neutral(e, i, 1)
    BY <1>1, DroppedIdentityIsNeutral
  <2>3. QED
    BY <2>1, <2>2, CutIsSameMap
<1>2. CASE DropsPair(d, e, i)
  <2>1. IsCut(d, e, i, 2) /\ i + 2 <= Len(e) /\ 2 \in 1 .. 2 /\ Len(d) < Len(e)
    BY <1>2 DEF DropsPair, IsCut
  <2>2. Neutral(e, i, 2)
    BY <1>2, DroppedPairIsNeutral
  <2>3. QED
    BY <2>1, <2>2, CutIsSameMap
<1>3. QED
  BY <1>1, <1>2

----------------------------------------------------------------------------
\* What PreOptimize does to the stages is a rewriting of them.
LEMMA OptimisingRewrites ==
  ASSUME NEW p, Sound(heap, p, held), NEW l, NEW i, Running(heap, p, held, pass, l, i),
         Remove1Op \/ Remove2Op \/ MultiplyMatrix
  PROVE  Lists!Next
<1> DEFINE e == StagesOf(heap, l)
           d == StagesOf(heap', l)
           x == ListsOf(heap)
           y == ListsOf(heap')
<1>1. /\ held' = held /\ \E t : Optimised(heap', heap, p, held, l, i, t)
      /\ DropsIdentity(d, e, i) \/ DropsPair(d, e, i) \/ Multiplies(d, e, i)
  BY Remove1OpDrops, Remove2OpDrops, MultiplyMatrixMultiplies
<1>2. PICK t : Optimised(heap', heap, p, held, l, i, t)
  BY <1>1
<1>3. l \in Luts /\ Live(heap, l) /\ held = {} /\ i \in 0 .. Len(p[l]) /\ Consistent(e)
  BY PassFields
<1>4. /\ Owned(heap, p, held) /\ EndsAre(heap, p, l) /\ heap \in Heaps
      /\ i \in Nat /\ p[l] \in Seq(Cells)
  <2>1. Owned(heap, p, held) /\ EndsAre(heap, p, l) /\ heap \in Heaps
    BY <1>3 DEF Sound, Owned
  <2>2. QED
    BY <2>1, <1>3, PlacesAreChains
<1>5. /\ Owned(heap', With(p, l, t), held) /\ SameShell(heap', heap, l) /\ Consistent(d)
      /\ SameElsewhere(heap', heap, p, l) /\ heap' \in Heaps
  BY <1>2 DEF Optimised, Sound, Owned
<1>6. e \in Seq(Stages)
  BY <1>3, <1>4, StagesAreSound
<1>7. d \in Seq(Stages)
  <2> DEFINE q == With(p, l, t)
  <2>1. Owned(heap', q, held)
    BY <1>5
  <2> HIDE DEF q
  <2>2. QED
    BY <2>1, <1>3, StagesAreSound
<1>8. y = [x EXCEPT ![l] = ListOf(heap', l)]
  BY <1>3, <1>4, <1>5, OneListChanges
<1>9. Live(heap', l) /\ heap'.lut[l].in = heap.lut[l].in /\ heap'.lut[l].out = heap.lut[l].out
  BY <1>3, <1>5 DEF SameShell, Live
<1>10. /\ x[l] = LiveList(heap.lut[l].in, heap.lut[l].out, e)
       /\ ListOf(heap', l) = LiveList(heap.lut[l].in, heap.lut[l].out, d)
  BY <1>3, <1>4, <1>5, <1>9, NilOf
<1>11. e # <<>> => heap.lut[l].in = e[1].in
  BY <1>3, <1>4, StagesAre
<1>12. l \in DOMAIN x
  BY <1>3 DEF ListsOf
<1> HIDE DEF d, e, x, y
<1>13. Lists!SameMap(d, e, e[1].in) /\ Len(d) < Len(e)
  BY <1>1, <1>3, <1>4, <1>6, <1>7, DroppedIsSame, MultipliedIsSame
<1>14. e # <<>>
  <2>1. Len(e) # 0
    BY <1>13, <1>6, <1>7
  <2>2. QED
    BY <2>1
<1>15. ListOf(heap', l) = [x[l] EXCEPT !.elements = d] /\ x[l].elements = e /\ x[l].in = e[1].in
  BY <1>10, <1>11, <1>14, FieldsOf
<1>16. y[l] = ListOf(heap', l) /\ y[l].elements = d
  BY <1>8, <1>10, <1>12, FieldsOf
<1>17. y = [x EXCEPT ![l].elements = y[l].elements]
  BY <1>8, <1>15, <1>16, Zenon
<1>18. l \in Lists!Alive
  BY <1>3, AliveIs
<1>19. HandOf(heap', held') = HandOf(heap, held)
  BY <1>1, <1>3 DEF HandOf
<1>20. [k \in Luts |-> AsList(k)] = x /\ [k \in Luts |-> AsList(k)]' = y
  BY MappedNow, MappedNext DEF x, y
<1>21. /\ Lists!Consistent(x[l].elements) /\ Lists!Consistent(y[l].elements)
       /\ Len(y[l].elements) < Len(x[l].elements)
       /\ Lists!SameMap(y[l].elements, x[l].elements, x[l].in)
  BY <1>3, <1>5, <1>13, <1>15, <1>16, SameConsistent DEF d, e
<1>22. Lists!Rewrite(l)
  BY <1>17, <1>18, <1>19, <1>20, <1>21, MappedNow, MappedNext DEF Lists!Rewrite
<1>23. QED
  BY <1>3, <1>22 DEF Lists!Next

\* A step that leaves the heap and the hands changes nothing of the sequences.
LEMMA StutterMaps ==
  ASSUME heap' = heap, held' = held
  PROVE  UNCHANGED Lists!vars
BY MappedNow, MappedNext DEF Lists!vars

\* A step of PreOptimize is a rewriting of the sequence, or nothing.
LEMMA PreOptimizeStepMaps ==
  ASSUME NEW p, Sound(heap, p, held), NEW l, NEW i, Running(heap, p, held, pass, l, i), PreOptimizeStep
  PROVE  Lists!Next \/ UNCHANGED Lists!vars
<1>1. CASE Remove1Op \/ Remove2Op \/ MultiplyMatrix
  BY <1>1, OptimisingRewrites
<1>2. CASE RuleEnds \/ StepOver \/ MultiplyMatrixGivesUp
  <2>1. heap' = heap /\ held' = held
    BY <1>2 DEF RuleEnds, StepOver, MultiplyMatrixGivesUp
  <2>2. QED
    BY <2>1, StutterMaps
<1>3. QED
  BY <1>1, <1>2 DEF PreOptimizeStep

\* Every step is one of PipelineLists or changes nothing of it.
LEMMA NextMaps ==
  ASSUME HeapInv, [Next]_vars
  PROVE  [Lists!Next]_(Lists!vars)
<1> SUFFICES Lists!Next \/ UNCHANGED Lists!vars
  OBVIOUS
<1>1. PICK p : /\ Sound(heap, p, held)
               /\ Resting \/ \E l, i : Running(heap, p, held, pass, l, i)
  BY DEF HeapInv
<1>2. Sound(heap, p, held)
  BY <1>1
<1>3. CASE UNCHANGED vars
  <2>1. heap' = heap /\ held' = held
    BY <1>3 DEF vars
  <2>2. QED
    BY <2>1, StutterMaps
<1>4. CASE \E k \in DOMAIN Kinds : AllocStage(Kinds[k])
  BY <1>2, <1>4, AllocStageMakes
<1>5. CASE \E c \in held : FreeHeld(c) \/ \E l \in Luts : PipelineInsertStage(l, c)
  BY <1>2, <1>5, FreeHeldDrops, PipelineInsertStageInserts
<1>6. CASE \E l \in Luts : PipelineFree(l) \/ PipelineUnlinkStage(l)
  BY <1>2, <1>6, PipelineFreeFrees, PipelineUnlinkStageUnlinks
<1>7. CASE \E l \in Luts : PreOptimize(l)
  <2>1. heap' = heap /\ held' = held
    BY <1>7 DEF PreOptimize
  <2>2. QED
    BY <2>1, StutterMaps
<1>8. CASE \E l \in Luts, w \in Widths : PipelineAllocate(l, w)
  BY <1>2, <1>8, PipelineAllocateAllocs
<1>9. CASE \E l, m \in Luts : PipelineDuplicate(l, m) \/ CatPipelines(l, m)
  BY <1>2, <1>9, PipelineDuplicateDups, CatPipelinesCats
<1>10. CASE PreOptimizeStep
  <2>1. ~Resting
    BY <1>10, RestingMakesNoStep
  <2>2. PICK l, i : Running(heap, p, held, pass, l, i)
    BY <2>1, <1>1
  <2>3. QED
    BY <2>2, <1>2, <1>10, PreOptimizeStepMaps
<1>11. QED
  BY <1>3, <1>4, <1>5, <1>6, <1>7, <1>8, <1>9, <1>10 DEF Next

\* At the start there is no pipeline and no stage in hand.
LEMMA StartMaps == HeapInv => (held = {} /\ Alive = {} => Lists!Init)
<1> SUFFICES ASSUME HeapInv, held = {}, Alive = {} PROVE Lists!Init
  OBVIOUS
<1>1. PICK p : Sound(heap, p, held)
  BY DEF HeapInv
<1>2. heap \in Heaps
  BY <1>1 DEF Sound, Owned
<1>3. \A l \in Luts : ~Live(heap, l)
  BY <1>2 DEF Alive, Live, Heaps, LutsAre
<1>4. ListsOf(heap) = [l \in Luts |-> NoPipeline]
  BY <1>2, <1>3, NilOf DEF ListsOf
<1>5. HandOf(heap, held) = [c \in Cells |-> NoStage]
  BY DEF HandOf
<1>6. QED
  BY <1>4, <1>5, MappedNow, SameNone DEF Lists!Init

\* Seen as sequences of stages, the linked pipelines do what PipelineLists
\* allows and nothing else: each operation of cmslut.go is the operation on the
\* sequences, and PreOptimize only makes a pipeline shorter without changing
\* what it computes or its channels, for every number of stages and pipelines
\* and all kinds of stages (cmslut.go:997, cmsopt.go:200).
THEOREM PipelinesImplementLists == Spec => ImplementsLists
<1>1. HeapInv /\ [Next]_vars => [Lists!Next]_(Lists!vars)
  BY NextMaps
<1>2. QED
  BY <1>1, StartMaps, HeapInvHolds, PTL DEF Spec, ImplementsLists
=============================================================================
