--------------------------- MODULE MCListMutation ---------------------------
(***************************************************************************)
(* Programs run when their records are small; the checker is examined for  *)
(* the wider ones too.                                                     *)
(***************************************************************************)
EXTENDS ListMutation, TLC

CONSTANT MaxRunFields   \* bound: fields of the records of programs that run

Symmetries == Permutations(Records) \cup Permutations(Object)

MCNext == Next /\ (phase' = "run" => \A r \in Records : Len(fieldTypes[r]) <= MaxRunFields)

MCSpec == Init /\ [][MCNext]_vars
=============================================================================
