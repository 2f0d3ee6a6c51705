-------------------------- MODULE MCProfileLocking --------------------------
(***************************************************************************)
(* Two good tags of one type and a damaged one.                            *)
(***************************************************************************)
EXTENDS ProfileLocking

MCDisk == [t \in Tags |-> IF t = "damaged" THEN "nil" ELSE t]

=============================================================================
