------------------------------ MODULE Ownership ------------------------------
(***************************************************************************)
(* The promise of MinLang's reference-counted runtime, without counts,     *)
(* queues or budgets.  A slot (a local, a temporary, a field of a value,   *)
(* a machine register) owns at most one value.  A value is reclaimed only  *)
(* after its last owner has let go of it, and a value that has lost its    *)
(* last owner never gets another.                                          *)
(*                                                                         *)
(* A value that loses its last owner is either reclaimed at once or is     *)
(* "dying": it stays in memory, still owning what its fields hold, until   *)
(* those have been handed on one by one.                                   *)
(***************************************************************************)
CONSTANTS Object,  \* storage cells for values
          Root,    \* slots outside every value: locals, temporaries, registers
          Index,   \* positions of the fields inside a value
          None     \* an empty slot

(* What an implementation's slots and values must satisfy. *)
OwnershipAssumption ==
    /\ None \notin Object
    /\ Root \cap (Object \X Index) = {}

VARIABLES edge,    \* what each slot owns
          status   \* "free", "live" or "dying", for each cell

vars == <<edge, status>>

Field == Object \X Index
Slot == Root \cup Field

(* A value can be stored in a root, or in a field of a live value. *)
Writable(s) == s \in Field => status[s[1]] = "live"

OwnedElsewhere(o, s) == \E t \in Slot \ {s} : edge[t] = o

Full == {s \in Slot : edge[s] # None}
Empty == Slot \ Full

(* The slots that a step leaves without the reference they had. *)
Emptied == {t \in Full : edge'[t] = None}

HoldsNothing(o) == \A i \in Index : edge[<<o, i>>] = None

Init ==
    /\ edge = [s \in Slot |-> None]
    /\ status = [o \in Object |-> "free"]

(* A constructor returns one owned reference. *)
Allocate(o, s) ==
    /\ status[o] = "free"
    /\ s \in Root
    /\ edge' = [edge EXCEPT ![s] = o]
    /\ status' = [status EXCEPT ![o] = "live"]

(* A second owner of a value that is alive. *)
Share(s, o) ==
    /\ status[o] = "live"
    /\ s \in Root
    /\ edge' = [edge EXCEPT ![s] = o]
    /\ UNCHANGED status

(* The reference in the full slot t moves into the empty slot s. *)
Move(s, t) ==
    /\ Writable(s)
    /\ UNCHANGED status
    /\ edge' = [edge EXCEPT ![s] = edge[t], ![t] = None]

(* The reference in the full slot t replaces the one in the full slot s,   *)
(* which moves into the empty root u.                                      *)
Exchange(s, t, u) ==
    /\ s # t
    /\ Writable(s)
    /\ u \in Root
    /\ UNCHANGED status
    /\ edge' = [edge EXCEPT ![s] = edge[t], ![t] = None, ![u] = edge[s]]

(* An owner lets go.  The last one leaves the value dying, or reclaims a   *)
(* value that owns nothing.                                                *)
Drop(s) ==
    /\ edge' = [edge EXCEPT ![s] = None]
    /\ IF OwnedElsewhere(edge[s], s)
       THEN UNCHANGED status
       ELSE \E fate \in {"free", "dying"} :
                /\ fate = "free" => HoldsNothing(edge[s])
                /\ status' = [status EXCEPT ![edge[s]] = fate]

(* The last owner of a value with a single field lets go: the value is     *)
(* reclaimed and the owner is left holding what the field held.            *)
Unwrap(s, i) ==
    /\ ~ OwnedElsewhere(edge[s], s)
    /\ \A j \in Index \ {i} : edge[<<edge[s], j>>] = None
    /\ s # <<edge[s], i>>
    /\ edge' = [edge EXCEPT ![s] = edge[<<edge[s], i>>],
                            ![<<edge[s], i>>] = None]
    /\ status' = [status EXCEPT ![edge[s]] = "free"]

(* A dying value that has handed on all it held. *)
Reclaim(o) ==
    /\ status[o] = "dying"
    /\ HoldsNothing(o)
    /\ status' = [status EXCEPT ![o] = "free"]
    /\ UNCHANGED edge

Next ==
    \/ \E o \in Object, s \in Empty : Allocate(o, s) \/ Share(s, o)
    \/ \E t \in Emptied :
          \/ Drop(t)
          \/ \E s \in Empty : Move(s, t)
          \/ \E s \in Full, u \in Empty : Exchange(s, t, u)
    \/ \E s \in Full, i \in Index : Unwrap(s, i)
    \/ \E o \in Object : Reclaim(o)

Spec == Init /\ [][Next]_vars
-----------------------------------------------------------------------------
(* The variables keep their types. *)
TypeOK ==
    /\ edge \in [Slot -> Object \cup {None}]
    /\ status \in [Object -> {"free", "live", "dying"}]

(* No slot owns a value that has been reclaimed or is being reclaimed:     *)
(* what every retain and release of the runtime is for.                    *)
NoDangling == \A s \in Slot : edge[s] # None => status[edge[s]] = "live"

(* A live value has an owner: nothing is lost without being queued.        *)
LiveIsOwned == \A o \in Object : status[o] = "live" => \E s \in Slot : edge[s] = o

(* A reclaimed cell owns nothing: no reference was thrown away with it.    *)
FreeHoldsNothing == \A o \in Object : status[o] = "free" => HoldsNothing(o)

Safety == NoDangling /\ LiveIsOwned /\ FreeHoldsNothing
=============================================================================
