--------------------------- MODULE MCProfileTags ---------------------------
(***************************************************************************)
(* Two curve tags of which one may link to the other, a signature tag and  *)
(* a private tag in a directory of three places; files in which the curve  *)
(* tags share a block, in which one is damaged, and in which the private   *)
(* tag holds a curve.                                                      *)
(***************************************************************************)
EXTENDS ProfileSave, TLC

MCSupported == [s \in Sigs |->
  CASE s \in {"rTRC", "gTRC"} -> {"curv"}
    [] s = "tech" -> {"sig"}
    [] OTHER -> {}]

MCDisk ==
  1 :> [type |-> "curv", val |-> 1, size |-> 12, readable |-> TRUE]
  @@ 2 :> [type |-> "sig", val |-> 1, size |-> 12, readable |-> TRUE]
  @@ 3 :> [type |-> "curv", val |-> 1, size |-> 12, readable |-> FALSE]
  @@ 4 :> [type |-> "curv", val |-> 1, size |-> 0, readable |-> FALSE]

MCMalformed == { <<"sig", 2>> }

AllFiles ==
  { <<>>,
    << <<"rTRC", 1>>, <<"gTRC", 1>> >>,
    << <<"rTRC", 3>>, <<"gTRC", 4>>, <<"tech", 2>> >>,
    << <<"rTRC", 1>>, <<"priv", 1>> >> }

MCFiles == { f \in AllFiles : \A i \in DOMAIN f : f[i][1] \in Sigs }

\* Ten bytes leave the next tag to be aligned; a tag of none shares its offset.
MCRawWrites ==
  ((Sigs \ {"tech"}) \X {10} \X {RawBytes})
    \cup { <<"tech", 0, RawBytes>>, <<"priv", 10, NilBytes>> }

\* Two of these are between tags of different types; with the link that the
\* first file has from gTRC to rTRC they make chains, and would make a cycle.
MCLinks ==
  { <<"rTRC", "gTRC">>, <<"gTRC", "priv">>, <<"tech", "rTRC">> } \cap (Sigs \X Sigs)

=============================================================================
