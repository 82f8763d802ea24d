---------------------------- MODULE MCBoundedRc ----------------------------
(* Small programs for the bounded runtime. *)
EXTENDS BoundedRc, TLC

(* A frame header of two bytes and one byte per local. *)
MCCharge == [n \in 0..MaxLocals |-> 2 + n]

Compiled(calls, budget, objects, results, locals, width, depth, frames) ==
    [calls |-> calls, budget |-> budget, objects |-> objects, results |-> results,
     locals |-> locals, width |-> width, depth |-> depth, frames |-> frames]

(***************************************************************************)
(* Programs with the calls of one part of the runtime each, and the        *)
(* smallest bounds at which that part meets values being destroyed.        *)
(***************************************************************************)
Recording == Compiled({"record", "local", "step"}, 1, 3, 2, 1, 2, 1, 1)
Listing == Compiled({"literal", "list", "add", "set", "local", "step"}, 2, 3, 1, 1, 2, 1, 1)
Appending == Compiled({"literal", "list", "appended", "local", "step"}, 1, 3, 2, 1, 2, 1, 1)
Texting == Compiled({"literal", "text", "slice", "join", "local", "move", "step", "record"},
                    1, 3, 2, 1, 1, 1, 1)
ValuePrograms == <<Recording, Listing, Appending, Texting>>

Nesting == Compiled({"scalar", "local", "move", "retain", "enter", "enterStack", "leave"},
                    3, 2, 1, 2, 1, 2, 3)
Keeping == Compiled({"record", "keep", "step", "enter", "leave"}, 1, 2, 1, 0, 1, 2, 2)
FramePrograms == <<Nesting, Keeping>>

(* A program that makes and mutates values of every kind, for the          *)
(* contract, and one that keeps making garbage of every sort, for progress.*)
Mixing == Compiled({"literal", "record", "list", "add", "set", "text", "slice", "join",
                    "local", "move", "step", "leave"}, 2, 2, 1, 1, 1, 1, 1)
PromisePrograms == <<Mixing, Keeping>>

Symmetry == Permutations(Object) \cup Permutations(Register)
=============================================================================
