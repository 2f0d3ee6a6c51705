--------------------------- MODULE PipelineLists ---------------------------
(***************************************************************************)
(* What the pipeline operations of cmslut.go promise: a pipeline is a      *)
(* sequence of stages, the caller holds stages that are in no pipeline,    *)
(* and each operation replaces one sequence by another.  The optimiser may *)
(* replace stages by fewer ones that compute the same.                     *)
(*                                                                         *)
(* A stage computes an affine map of integers.  A conversion between       *)
(* spaces is a stand-in of which only this is used: it is the inverse of   *)
(* its counterpart, and it commutes neither with a matrix nor with another *)
(* conversion.                                                             *)
(***************************************************************************)
EXTENDS Pipelines

CONSTANTS
  Slots,      \* where a stage can be when it is in no pipeline
  Luts,       \* the pipelines
  Widths,     \* the channels a pipeline may be allocated with
  Kinds       \* the stages a caller makes

VARIABLES lists, hand
vars == <<lists, hand>>

----------------------------------------------------------------------------
(* What the stages compute.                                                *)

\* The pairs PreOptimize removes, in the order it looks for them.
Pairs == << <<"XYZ2Lab", "Lab2XYZ">>, <<"Lab2XYZ", "XYZ2Lab">>,
            <<"LabV4toV2", "LabV2toV4">>, <<"LabV2toV4", "LabV4toV2">>,
            <<"Lab2FloatPCS", "FloatPCS2Lab">>, <<"XYZ2FloatPCS", "FloatPCS2XYZ">> >>
Forth == <<"XYZ2Lab", "LabV4toV2", "Lab2FloatPCS", "XYZ2FloatPCS">>
Back  == <<"Lab2XYZ", "LabV2toV4", "FloatPCS2Lab", "FloatPCS2XYZ">>

SumOf(v) == LET sum[k \in 0 .. Len(v)] == IF k = 0 THEN 0 ELSE sum[k - 1] + v[k] IN sum[Len(v)]
\* Row r of a matrix in row order, applied to v.
RowOf(matrix, cols, r) == SubSeq(matrix, (r - 1) * cols + 1, r * cols)
Dot(a, b) == SumOf([k \in DOMAIN a |-> a[k] * b[k]])
Affine(data, cols, v) ==
  [r \in 1 .. (Len(data.matrix) \div cols) |->
     Dot(RowOf(data.matrix, cols, r), v) + IF data.offset = <<>> THEN 0 ELSE data.offset[r]]

There(k, v) == <<v[2], v[3], v[1] + k>>
AndBack(k, v) == <<v[3] - k, v[1], v[2]>>
Place(names, x) == CHOOSE k \in DOMAIN names : names[k] = x
Apply(v, s) ==
  CASE s.implements = "Identity" -> v
    [] s.implements = "Matrix"   -> Affine(s.data, s.in, v)
    [] s.implements \in ToSet(Forth) -> There(Place(Forth, s.implements), v)
    [] s.implements \in ToSet(Back)  -> AndBack(Place(Back, s.implements), v)
    [] OTHER -> [k \in 1 .. s.out |-> SumOf(v) + k * v[1] + k]
Compute(elements, v) ==
  LET after[k \in 0 .. Len(elements)] == IF k = 0 THEN v ELSE Apply(after[k - 1], elements[k])
  IN after[Len(elements)]

\* An affine map of n channels is known by what it does to these.
Probes(n) == {[k \in 1 .. n |-> IF k = j THEN 1 ELSE 0] : j \in 0 .. n}
SameMap(e, f, n) == \A v \in Probes(n) : Compute(e, v) = Compute(f, v)

----------------------------------------------------------------------------
(* The operations.                                                         *)

Empty == {c \in Slots : hand[c] = NoStage}
Alive == {l \in Luts : ~lists[l].nil}

Init ==
  /\ lists = [l \in Luts |-> NoPipeline]
  /\ hand = [c \in Slots |-> NoStage]

MakeStage(c, s) ==
  /\ c \in Empty
  /\ hand' = [hand EXCEPT ![c] = s]
  /\ UNCHANGED lists

DropStage(c) ==
  /\ c \notin Empty
  /\ hand' = [hand EXCEPT ![c] = NoStage]
  /\ UNCHANGED lists

Alloc(l, w) ==
  /\ l \notin Alive
  /\ lists' = [lists EXCEPT ![l] = PipelineAlloc(w[1], w[2])]
  /\ UNCHANGED hand

Free(l) ==
  /\ l \in Alive
  /\ lists' = [lists EXCEPT ![l] = NoPipeline]
  /\ UNCHANGED hand

InsertStage(l, c, Insert(_, _)) ==
  /\ l \in Alive /\ c \notin Empty
  /\ lists' = [lists EXCEPT ![l] = Insert(@, hand[c]).p]
  /\ hand' = [hand EXCEPT ![c] = NoStage]

UnlinkStage(l, c, Unlink(_), Which(_)) ==
  /\ l \in Alive /\ c \in Empty /\ lists[l].elements # <<>>
  /\ lists' = [lists EXCEPT ![l] = Unlink(@)]
  /\ hand' = [hand EXCEPT ![c] = Which(lists[l].elements)]

UnlinkAndFree(l, Unlink(_)) ==
  /\ l \in Alive
  /\ lists' = [lists EXCEPT ![l] = Unlink(@)]
  /\ UNCHANGED hand

Dup(l, m) ==
  /\ l \in Alive /\ m \notin Alive
  /\ lists' = [lists EXCEPT ![m] = PipelineDup(lists[l])]
  /\ UNCHANGED hand

Cat(l, m) ==
  /\ {l, m} \subseteq Alive /\ l # m
  /\ lists' = [lists EXCEPT ![l] = PipelineCat(@, lists[m]).p]
  /\ UNCHANGED hand

\* cmsPipelineCatSteal.
Steal(l, m) ==
  /\ {l, m} \subseteq Alive /\ l # m
  /\ lists' = [lists EXCEPT ![l] = Blessed([@ EXCEPT !.elements = lists[l].elements \o lists[m].elements]),
                            ![m].elements = <<>>]
  /\ UNCHANGED hand

\* The optimiser: fewer stages, the same map, the channels as they were.
Rewrite(l) ==
  /\ l \in Alive /\ Consistent(lists[l].elements)
  /\ lists' = [lists EXCEPT ![l].elements = lists'[l].elements]
  /\ Len(lists'[l].elements) < Len(lists[l].elements)
  /\ Consistent(lists'[l].elements)
  /\ SameMap(lists'[l].elements, lists[l].elements, lists[l].in)
  /\ UNCHANGED hand

Next ==
  \/ \E c \in Slots : DropStage(c) \/ \E k \in DOMAIN Kinds : MakeStage(c, Kinds[k])
  \/ \E l \in Luts : \E w \in Widths : Alloc(l, w)
  \/ \E l \in Luts : Free(l) \/ Rewrite(l)
  \/ \E l \in Luts, c \in Slots :
       \/ InsertStage(l, c, InsertAtBegin)
       \/ InsertStage(l, c, InsertAtEnd)
       \/ UnlinkStage(l, c, UnlinkFirst, Head)
       \/ UnlinkStage(l, c, UnlinkLast, Last)
  \/ \E l \in Luts : UnlinkAndFree(l, UnlinkFirst) \/ UnlinkAndFree(l, UnlinkLast)
  \/ \E l, m \in Luts : Dup(l, m) \/ Cat(l, m) \/ Steal(l, m)

Spec == Init /\ [][Next]_vars
=============================================================================
