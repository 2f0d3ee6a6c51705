--------------------------- MODULE MCPipelineHeap ---------------------------
(***************************************************************************)
(* Two pipelines and up to three stages of four kinds, moved about in      *)
(* every order and optimised at any time; and a pipeline of four stages of *)
(* seven kinds, in every combination, that PreOptimize is given.           *)
(***************************************************************************)
EXTENDS PipelineHeap

Conversion(name) == StageAllocPlaceholder(name, 3, 3, <<>>)
\* Permutations of the channels: their products are permutations.
Turn == <<0, 1, 0, 0, 0, 1, 1, 0, 0>>
Swap == <<0, 1, 0, 1, 0, 0, 0, 0, 1>>

MCKinds == <<Conversion("XYZ2Lab"), Conversion("Lab2XYZ"),
             StageAllocMatrix(3, 3, Turn, <<>>),
             StageAllocPlaceholder("CLut", 3, 2, <<>>)>>
LongKinds == MCKinds \o <<StageAllocMatrix(3, 3, Swap, <<>>), StageAllocIdentity(3),
                          StageAllocMatrix(3, 3, Swap, <<1, 2, 3>>)>>
MCWidths == {<<3, 3>>, <<0, 0>>}

\* The long pipeline, with PreOptimize called.
LongHeap(kinds) ==
  [stage |-> [c \in Cells |-> LongKinds[kinds[c]]],
   next  |-> [c \in Cells |-> IF c = NCells THEN Nil ELSE c + 1],
   lut   |-> [l \in Luts |-> IF l # "long" THEN NoLut
                            ELSE [in |-> 3, out |-> LongKinds[kinds[NCells]].out, head |-> 1, nil |-> FALSE]]]
LongInit ==
  /\ \E kinds \in [Cells -> DOMAIN LongKinds] :
       /\ Consistent([c \in Cells |-> LongKinds[kinds[c]]])
       /\ heap = LongHeap(kinds)
  /\ held = {}
  /\ pass = [Idle EXCEPT !.lut = {"long"}, !.rule = 1]

\* Bounds: the long pipeline is only optimised and freed, and without it there
\* are at most three stages.
Within ==
  IF "long" \in Alive THEN PreOptimizeStep \/ PipelineFree("long")
  ELSE "long" \notin Alive' /\ Cardinality(Cells \ FreeCells(heap')) <= 3

MCSpec ==
  /\ Init \/ LongInit
  /\ [][Next /\ Within]_vars
  /\ WF_vars(PreOptimizeStep)
=============================================================================
