----------------------------- MODULE StackGuard ------------------------------
(***************************************************************************)
(* The guard of language recursion (minyar_runtime.c, minyar_stack_enter   *)
(* and minyar_stack_leave).  The stack grows down towards its guard page;  *)
(* room is what lies between the two.  A generated function has its frame  *)
(* before it asks the guard, and tells it before it returns.               *)
(***************************************************************************)
EXTENDS Integers, Sequences

CONSTANTS StackSize,       \* room when main is called
          Frame,           \* sizes of the frames of generated functions
          Reserve,         \* MINYAR_STACK_RESERVE_BYTES
          Report,          \* room that minyar_stop needs
          MaxDepth,        \* MINYAR_MAX_CALL_DEPTH
          FallbackDepth    \* MINYAR_FALLBACK_CALL_DEPTH

(* "Retain enough space to report the failure." *)
StackAssumption ==
    /\ {StackSize, Reserve, Report, MaxDepth, FallbackDepth} \cup Frame \subseteq Nat
    /\ StackSize > Reserve
    /\ \A f \in Frame : f + Report <= Reserve

VARIABLES known,     \* whether the bounds of the stack are available
          depth,     \* minyar_call_depth
          frames,    \* of the open functions, the newest first
          room,
          outcome

vars == <<known, depth, frames, room, outcome>>

Init ==
    /\ known \in BOOLEAN
    /\ depth = 0 /\ frames = <<>> /\ room = StackSize
    /\ outcome = "running"

(* Mutant: calls are counted, the stack is not looked at. *)
TooManyCalls(space) == depth >= MaxDepth \/ (~known /\ depth >= FallbackDepth)

Refused(space) ==
    \/ depth >= MaxDepth
    \/ ~known /\ depth >= FallbackDepth
    \/ known /\ space <= Reserve

(* A call, up to and with minyar_stack_enter. *)
Enter(f) ==
    /\ outcome = "running"
    /\ frames' = <<f>> \o frames
    /\ room' = room - f
    /\ \/ room' <= 0 /\ outcome' = "fault" /\ depth' = depth
       \/ room' > 0 /\ Refused(room') /\ outcome' = "refused" /\ depth' = depth
       \/ room' > 0 /\ ~Refused(room') /\ outcome' = outcome /\ depth' = depth + 1
    /\ UNCHANGED known

(* minyar_stack_leave and the return behind it. *)
Leave ==
    /\ outcome = "running" /\ frames # <<>>
    /\ IF depth = 0 THEN outcome' = "unbalanced" /\ UNCHANGED <<depth, frames, room>>
       ELSE /\ depth' = depth - 1 /\ outcome' = outcome
            /\ frames' = Tail(frames) /\ room' = room + Head(frames)
    /\ UNCHANGED known

Next == Leave \/ \E f \in Frame : Enter(f)

Spec == Init /\ [][Next]_vars
-----------------------------------------------------------------------------
(* "Keep language recursion from reaching the guard page"                  *)
(* (minyar_runtime.c 91): where the bounds are known, functions of any     *)
(* frame sizes within the reserve end in a report, with room to make it,   *)
(* and never in a fault; the depth stays the number of open functions.     *)
StackGuarded ==
    /\ outcome = "running" => depth = Len(frames)
    /\ outcome # "unbalanced"
    /\ known => /\ outcome # "fault"
                /\ outcome = "refused" => room >= Report
=============================================================================
