------------------------------ MODULE MCEagerRc ------------------------------
(* Small programs for the default profile. *)
EXTENDS EagerRc, TLC

Compiled(kinds, objects, depth, temps) ==
    [kinds |-> kinds, objects |-> objects, depth |-> depth, temps |-> temps]

(* Graphs of Lists and Texts; of records; values that refer to immortal    *)
(* ones; and nested functions.                                             *)
MCPrograms == <<Compiled({"LIST", "TEXT"}, 3, 1, 1),
                Compiled({"RECORD"}, 3, 1, 0),
                Compiled({"LITERAL", "LIST", "TEXT"}, 2, 1, 0),
                Compiled({"SCALAR_RECORD"}, 2, 2, 1)>>

Symmetry == Permutations(Object)
=============================================================================
