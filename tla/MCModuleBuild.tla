---------------------------- MODULE MCModuleBuild ----------------------------
(***************************************************************************)
(* Small instances of the incremental build: a program e that imports a,   *)
(* which imports b and has a record of b in its interface.                 *)
(***************************************************************************)
EXTENDS ModuleBuild, TLC

CONSTANTS e, a, b, c1, c2

Source(body, functions, layout, mentions, imports, calls) ==
    [body |-> body, functions |-> functions, layout |-> layout,
     mentions |-> mentions, imports |-> imports, calls |-> calls]

(* Edits of bodies, headers and records; e may drop its import, and b may  *)
(* close a cycle.                                                          *)
EveryEdit ==
    e :> {Source(0, 1, 1, {}, {a}, {1}), Source(1, 1, 1, {}, {a}, {1}),
          Source(2, 1, 1, {}, {}, {})}
    @@ a :> {Source(0, 1, 1, {b}, {b}, {1, 2}), Source(1, 2, 1, {b}, {b}, {2})}
    @@ b :> {Source(0, 1, 1, {}, {}, {}), Source(1, 1, 1, {}, {}, {}),
             Source(2, 2, 1, {}, {}, {}), Source(3, 1, 2, {}, {}, {}),
             Source(4, 1, 1, {}, {a}, {1})}

(* Edits of the record in b, and of the body of e. *)
FewEdits ==
    e :> {Source(0, 1, 1, {}, {a}, {1}), Source(1, 1, 1, {}, {a}, {1})}
    @@ a :> {Source(0, 1, 1, {b}, {b}, {1, 2})}
    @@ b :> {Source(0, 1, 1, {}, {}, {}), Source(3, 1, 2, {}, {}, {})}

(* Both compilers get the same image names. *)
Colliding == [c \in Compilers |-> 0]

Symmetry == Permutations(Builders) \cup Permutations(Compilers)
=============================================================================
