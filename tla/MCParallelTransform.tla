------------------------ MODULE MCParallelTransform ------------------------
(***************************************************************************)
(* Small instances of ParallelTransform: two sample values, a transform    *)
(* that keeps all colours apart, and a picture of two colours, the one the *)
(* cache starts with and the one that differs from it in the last channel  *)
(* only.                                                                   *)
(***************************************************************************)
EXTENDS ParallelTransform

MCCalls == 0 .. MaxWorkers - 1

MCEval == [x \in Pixel |-> x]

MCInputs ==
  { [k \in 1 .. Channels |-> 0],
    [k \in 1 .. Channels |-> IF k = Channels THEN 1 ELSE 0] }

=============================================================================
