------------------------ MODULE MCConcurrentCallers ------------------------
(***************************************************************************)
(* Three callers, one with a manager of its own and two that pass the zero *)
(* manager and so share the transform's; pictures of two colours, and      *)
(* managers whose lanes start clean or full.                               *)
(***************************************************************************)
EXTENDS ConcurrentCallers

MCManagers == (Calls \ ZeroCallers) \cup {PMemManager}

MCEval == [x \in Pixel |-> x]

\* The colour the cache starts with, and the one that differs from it in the
\* last channel only.
MCInputs ==
  { [k \in 1 .. Channels |-> 0],
    [k \in 1 .. Channels |-> IF k = Channels THEN 1 ELSE 0] }

MCDirtyLanes == { [k \in Lanes |-> v] : v \in Sample }

=============================================================================
