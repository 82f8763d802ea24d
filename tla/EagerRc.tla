------------------------------- MODULE EagerRc -------------------------------
(***************************************************************************)
(* Reference counting in the default profile (minyar_rc.h without          *)
(* MINYAR_BOUNDED_RC).  A release destroys everything that dies with its   *)
(* value before it returns.  It does not recurse: dead Lists and records   *)
(* are pushed on the work list rc_pending, and the loop of                 *)
(* minyar_rc_release pops one, drops its fields and frees it.              *)
(*                                                                         *)
(* A call acquires the reference it stores (hand), stores it, and releases *)
(* what it displaced (falling is the value rc_drop is called with).  Each  *)
(* drop, pop and visited field is a step.                                  *)
(***************************************************************************)
EXTENDS Integers, FiniteSetsExt, SequencesExt

CONSTANTS Object,     \* storage cells for values
          Literal,    \* immortal values
          Register,   \* results of calls that generated code holds
          Programs,   \* compiled programs: what they make, within which bounds
          MaxFrames,  \* bound: nested functions
          MaxLocals,  \* bound: locals of a function
          MaxTemps,   \* bound: temporaries of a function
          Width,      \* bound: fields and elements
          None

ASSUME EagerAssumption ==
    /\ IsFiniteSet(Object) /\ IsFiniteSet(Register)
    /\ None \notin Object \cup Literal
    /\ Object \cap Literal = {}
    /\ {MaxFrames, MaxLocals, MaxTemps} \subseteq Nat
    /\ Width \in Nat \ {0}  \* the backing of a view is a field
    /\ \A p \in DOMAIN Programs :
          Programs[p].depth \in 0..MaxFrames /\ Programs[p].temps \in 0..MaxTemps

VARIABLES program,  \* the program that runs
          kind,     \* the kind of each value, "FREE" without one
          count,    \* its reference count
          fields,   \* its elements, its fields, or a Text's backing
          frames,   \* rc_frames, the innermost last
          reg,      \* what each register owns
          hand,     \* the reference a call is about to store
          falling,  \* the argument of rc_drop
          pending,  \* rc_pending
          visit,    \* the dead value whose fields are dropped, and the next field
          call      \* what the current call does next

heapVars == <<kind, count, fields>>
vars == <<program, heapVars, frames, reg, hand, falling, pending, visit, call>>

(* The kinds of values the program makes, and bounds on what it keeps.     *)
Kinds == Programs[program].kinds
MaxObjects == Programs[program].objects
Depth == Programs[program].depth
Temporaries == Programs[program].temps

Index == 1..Width
NoVisit == [of |-> None, next |-> 1]
Idle == call.op = "none"
Doing(op) == call.op = op
Done == [op |-> "none"]
Mortal(v) == v \in Object
Free(o) == kind[o] = "FREE"
Top == Len(frames)
NewFrame(n) == [locals |-> [i \in 1..n |-> None], temps |-> <<>>]

Init ==
    /\ program \in DOMAIN Programs
    /\ kind = [o \in Object |-> "FREE"]
    /\ count = [o \in Object |-> 0]
    /\ fields = [o \in Object |-> <<>>]
    /\ frames = <<>>
    /\ reg = [r \in Register |-> None]
    /\ hand = None /\ falling = None
    /\ pending = <<>> /\ visit = NoVisit
    /\ call = Done
-----------------------------------------------------------------------------
(***************************************************************************)
(* Destruction.                                                            *)
(***************************************************************************)
(* Mutant: a List of references is freed like one of scalars. *)
LeafAnyList(o) == kind[o] \in {"TEXT", "LIST", "REFERENCES", "SCALAR_RECORD"}

Leaf(o) == kind[o] \in {"TEXT", "LIST", "SCALAR_RECORD"}

Backing(o) == IF kind[o] = "TEXT" THEN fields[o][1] ELSE None

LastOwner(o) == count[o] = 1

(* object->ownership >> 3 is not zero. *)
Counted(o) == Mortal(o) /\ count[o] > 0

(* rc_drop.  A leaf is freed at once, and a view's root is dropped next.   *)
(* A count of zero is an immortal value's.                                 *)
RcDrop ==
    LET o == falling IN
    /\ falling # None
    /\ \/ /\ ~Counted(o)
          /\ falling' = None
          /\ UNCHANGED <<heapVars, pending>>
       \/ /\ Counted(o) /\ ~LastOwner(o)
          /\ count' = [count EXCEPT ![o] = @ - 1]
          /\ falling' = None
          /\ UNCHANGED <<kind, fields, pending>>
       \/ /\ Counted(o) /\ LastOwner(o) /\ Leaf(o)
          /\ kind' = [kind EXCEPT ![o] = "FREE"]
          /\ count' = [count EXCEPT ![o] = 0]
          /\ fields' = [fields EXCEPT ![o] = <<>>]
          /\ falling' = Backing(o)
          /\ UNCHANGED pending
       \/ /\ Counted(o) /\ LastOwner(o) /\ ~Leaf(o)
          /\ count' = [count EXCEPT ![o] = @ - 1]
          /\ pending' = Append(pending, o)
          /\ falling' = None
          /\ UNCHANGED <<kind, fields>>
    /\ UNCHANGED <<frames, reg, hand, visit, call>>

(* Mutant: the value stays on the work list while it is visited. *)
PopPendingKept ==
    /\ falling = None /\ visit = NoVisit /\ pending # <<>>
    /\ visit' = [of |-> Last(pending), next |-> 1]
    /\ UNCHANGED <<heapVars, frames, reg, hand, falling, pending, call>>

(* object = rc_pending[--rc_pending_count] *)
PopPending ==
    /\ falling = None /\ visit = NoVisit /\ pending # <<>>
    /\ visit' = [of |-> Last(pending), next |-> 1]
    /\ pending' = Front(pending)
    /\ UNCHANGED <<heapVars, frames, reg, hand, falling, call>>

(* Mutant: the loop does not advance. *)
AdvanceNever(n) == n

Advance(n) == n + 1

(* One iteration of the loop over the elements or fields. *)
VisitField ==
    /\ falling = None /\ visit # NoVisit
    /\ visit.next <= Len(fields[visit.of])
    /\ falling' = fields[visit.of][visit.next]
    /\ visit' = [visit EXCEPT !.next = Advance(@)]
    /\ UNCHANGED <<heapVars, frames, reg, hand, pending, call>>

FreeVisited ==
    /\ falling = None /\ visit # NoVisit
    /\ visit.next > Len(fields[visit.of])
    /\ kind' = [kind EXCEPT ![visit.of] = "FREE"]
    /\ fields' = [fields EXCEPT ![visit.of] = <<>>]
    /\ visit' = NoVisit
    /\ UNCHANGED <<count, frames, reg, hand, falling, pending, call>>

Destroy == RcDrop \/ PopPending \/ VisitField \/ FreeVisited

(* minyar_rc_release has returned, or was not called. *)
Settled == falling = None /\ visit = NoVisit /\ pending = <<>>
-----------------------------------------------------------------------------
(***************************************************************************)
(* The rest of a call.                                                     *)
(***************************************************************************)
Stored ==
    /\ hand' = None
    /\ call' = [op |-> "return"]
    /\ UNCHANGED <<kind, count, reg, pending, visit>>

(* minyar_rc_local_take: the new value is stored before the old one is     *)
(* released.                                                               *)
StoreLocal ==
    /\ Settled /\ Doing("local")
    /\ frames' = [frames EXCEPT ![Top].locals[call.index] = hand]
    /\ falling' = frames[Top].locals[call.index]
    /\ Stored /\ UNCHANGED fields

(* minyar_rc_keep *)
StoreTemporary ==
    /\ Settled /\ Doing("keep")
    /\ frames' = [frames EXCEPT ![Top].temps = Append(@, hand)]
    /\ Stored /\ UNCHANGED <<fields, falling>>

(* minyar_list_add, minyar_list_add_take *)
StoreNewElement ==
    /\ Settled /\ Doing("append")
    /\ fields' = [fields EXCEPT ![call.of] = Append(@, hand)]
    /\ Stored /\ UNCHANGED <<frames, falling>>

(* minyar_list_set_owned; for a record under construction, and for the     *)
(* backing of a view, nothing is displaced.                                *)
StoreField ==
    /\ Settled /\ Doing("field")
    /\ fields' = [fields EXCEPT ![call.of][call.index] = hand]
    /\ falling' = fields[call.of][call.index]
    /\ Stored /\ UNCHANGED frames

(* The retain of minyar_text_slice, after the view was allocated. *)
RetainRoot ==
    /\ Settled /\ Doing("view")
    /\ hand' = call.root
    /\ count' = IF Mortal(call.root) THEN [count EXCEPT ![call.root] = @ + 1] ELSE count
    /\ call' = [op |-> "field", of |-> call.of, index |-> 1]
    /\ UNCHANGED <<kind, fields, frames, reg, falling, pending, visit>>

(* minyar_rc_step: temporaries are released last first, each completely. *)
ReleaseTemporary ==
    /\ Settled /\ call.op \in {"step", "leave"} /\ frames[Top].temps # <<>>
    /\ falling' = Last(frames[Top].temps)
    /\ frames' = [frames EXCEPT ![Top].temps = Front(@)]
    /\ UNCHANGED <<heapVars, reg, hand, pending, visit, call>>

(* Mutant: the last local of the frame is forgotten. *)
LocalsLeftButOne == call.next < Len(frames[Top].locals)

LocalsLeft == call.next <= Len(frames[Top].locals)

(* minyar_rc_leave releases the locals first to last; the frame keeps the  *)
(* pointers, which nobody reads again.                                     *)
ReleaseLocal ==
    /\ Settled /\ Doing("leave") /\ frames[Top].temps = <<>> /\ LocalsLeft
    /\ falling' = frames[Top].locals[call.next]
    /\ frames' = [frames EXCEPT ![Top].locals[call.next] = None]
    /\ call' = [call EXCEPT !.next = @ + 1]
    /\ UNCHANGED <<heapVars, reg, hand, pending, visit>>

PopFrame ==
    /\ Settled /\ Doing("leave") /\ frames[Top].temps = <<>> /\ ~LocalsLeft
    /\ frames' = Front(frames)
    /\ call' = Done
    /\ UNCHANGED <<heapVars, reg, hand, falling, pending, visit>>

Return ==
    /\ Settled
    /\ Doing("return") \/ (Doing("step") /\ frames[Top].temps = <<>>)
    /\ call' = Done
    /\ UNCHANGED <<heapVars, frames, reg, hand, falling, pending, visit>>

Machine ==
    \/ Destroy
    \/ StoreLocal \/ StoreTemporary \/ StoreNewElement \/ StoreField \/ RetainRoot
    \/ ReleaseTemporary \/ ReleaseLocal \/ PopFrame \/ Return
-----------------------------------------------------------------------------
(***************************************************************************)
(* Generated code.  Its operands are values it can name: held by a         *)
(* register, a local or a temporary, or by a field of such a value.        *)
(***************************************************************************)
Elements(o) == IF Mortal(o) /\ ~Leaf(o) THEN ToSet(fields[o]) ELSE {}

HeldByProgram ==
    {reg[r] : r \in Register}
    \cup UNION {Range(frames[d].locals) \cup ToSet(frames[d].temps) : d \in 1..Top}

Operand ==
    {v \in Literal : "LITERAL" \in Kinds}
    \cup ((HeldByProgram \cup UNION {Elements(o) : o \in HeldByProgram}) \ {None})

(* A set of values with everything that its members own. *)
Closed(P) == \A o \in P : ToSet(fields[o]) \cap Object \subseteq P

(* The compiler rejects a List mutation that could make a cycle: l is not  *)
(* among what v owns, directly or not.                                     *)
MayStore(l, v) ==
    \E P \in SUBSET Object : Closed(P) /\ {v} \cap Object \subseteq P /\ l \notin P

(* A constructor returns one owned reference. *)
Allocate(r, o, k, n, next) ==
    /\ Idle /\ reg[r] = None /\ Free(o)
    /\ Cardinality({p \in Object : ~Free(p)}) < MaxObjects
    /\ kind' = [kind EXCEPT ![o] = k]
    /\ count' = [count EXCEPT ![o] = 1]
    /\ fields' = [fields EXCEPT ![o] = [i \in 1..n |-> None]]
    /\ reg' = [reg EXCEPT ![r] = o]
    /\ call' = next
    /\ UNCHANGED <<frames, hand, falling, pending, visit>>

New ==
    \E r \in Register, o \in Object :
        \/ \E k \in Kinds \cap {"LIST", "SCALAR_RECORD"} : Allocate(r, o, k, 0, Done)
        \/ "TEXT" \in Kinds /\ Allocate(r, o, "TEXT", 1, Done)
        \/ \E n \in 0..Width : "RECORD" \in Kinds /\ Allocate(r, o, "RECORD", n, Done)

ReferencesKind == "REFERENCES"

(* minyar_list_references, on an empty List. *)
ListReferences ==
    \E l \in Operand :
        /\ Idle /\ Mortal(l) /\ kind[l] = "LIST"
        /\ kind' = [kind EXCEPT ![l] = ReferencesKind]
        /\ UNCHANGED <<count, fields, frames, reg, hand, falling, pending, visit, call>>

(* text->backing ? text->backing : text *)
TextRoot(t) == IF Mortal(t) /\ fields[t][1] # None THEN fields[t][1] ELSE t

(* minyar_text_slice of a proper part. *)
Slice ==
    \E r \in Register, o \in Object, t \in Operand :
        /\ "TEXT" \in Kinds /\ (Mortal(t) => kind[t] = "TEXT")
        /\ Allocate(r, o, "TEXT", 1, [op |-> "view", of |-> o, root |-> TextRoot(t)])

(* minyar_rc_retain, for a value that is returned. *)
RetainResult ==
    \E r \in Register, v \in Operand :
        /\ Idle /\ reg[r] = None
        /\ reg' = [reg EXCEPT ![r] = v]
        /\ count' = IF Mortal(v) THEN [count EXCEPT ![v] = @ + 1] ELSE count
        /\ UNCHANGED <<kind, fields, frames, hand, falling, pending, visit, call>>

(* A call that retains its operand ... *)
Acquire(v, next) ==
    /\ Idle
    /\ hand' = v
    /\ count' = IF Mortal(v) THEN [count EXCEPT ![v] = @ + 1] ELSE count
    /\ call' = next
    /\ UNCHANGED <<kind, fields, frames, reg, falling, pending, visit>>

(* ... or is given an owned result. *)
Take(r, next) ==
    /\ Idle /\ reg[r] # None
    /\ hand' = reg[r]
    /\ reg' = [reg EXCEPT ![r] = None]
    /\ call' = next
    /\ UNCHANGED <<heapVars, frames, falling, pending, visit>>

AcquireOrTake(v, next) ==
    Acquire(v, next) \/ \E r \in Register : reg[r] = v /\ Take(r, next)

(* minyar_rc_local, minyar_rc_local_take *)
Local ==
    \E v \in Operand, i \in 1..MaxLocals :
        /\ Top > 0 /\ i <= Len(frames[Top].locals)
        /\ AcquireOrTake(v, [op |-> "local", index |-> i])

(* minyar_rc_borrow, minyar_rc_keep; an immortal value is not kept. *)
Keep ==
    \E v \in Operand :
        /\ Top > 0 /\ Mortal(v) /\ Len(frames[Top].temps) < Temporaries
        /\ AcquireOrTake(v, [op |-> "keep"])

ListAdd ==
    \E l, v \in Operand :
        /\ Mortal(l) /\ kind[l] = "REFERENCES" /\ Len(fields[l]) < Width
        /\ MayStore(l, v)
        /\ AcquireOrTake(v, [op |-> "append", of |-> l])

ListSet ==
    \E l, v \in Operand, i \in Index :
        /\ Mortal(l) /\ kind[l] = "REFERENCES" /\ i <= Len(fields[l])
        /\ MayStore(l, v)
        /\ AcquireOrTake(v, [op |-> "field", of |-> l, index |-> i])

(* minyar_record_set_reference and minyar_record_set_take, once per field  *)
(* of a record under construction.                                         *)
RecordSet ==
    \E r \in Register, v \in Operand, i \in Index :
        LET o == reg[r] IN
        /\ Mortal(o) /\ kind[o] = "RECORD" /\ count[o] = 1
        /\ i <= Len(fields[o]) /\ fields[o][i] = None
        /\ MayStore(o, v)
        /\ AcquireOrTake(v, [op |-> "field", of |-> o, index |-> i])

(* minyar_rc_local_move: the local's reference becomes a result. *)
LocalMove ==
    \E r \in Register, i \in 1..MaxLocals :
        /\ Idle /\ reg[r] = None /\ Top > 0 /\ i <= Len(frames[Top].locals)
        /\ reg' = [reg EXCEPT ![r] = frames[Top].locals[i]]
        /\ frames' = [frames EXCEPT ![Top].locals[i] = None]
        /\ UNCHANGED <<heapVars, hand, falling, pending, visit, call>>

(* minyar_rc_release of a result. *)
ReleaseResult ==
    \E r \in Register :
        /\ Idle /\ reg[r] # None
        /\ falling' = reg[r]
        /\ reg' = [reg EXCEPT ![r] = None]
        /\ call' = [op |-> "return"]
        /\ UNCHANGED <<heapVars, frames, hand, pending, visit>>

Enter ==
    \E n \in 0..MaxLocals :
        /\ Idle /\ Top < Depth
        /\ frames' = Append(frames, NewFrame(n))
        /\ UNCHANGED <<heapVars, reg, hand, falling, pending, visit, call>>

StepOrLeave ==
    \E op \in {"step", "leave"} :
        /\ Idle /\ Top > 0
        /\ call' = [op |-> op, next |-> 1]
        /\ UNCHANGED <<heapVars, frames, reg, hand, falling, pending, visit>>

Program ==
    \/ New \/ ListReferences \/ Slice \/ RetainResult \/ Local \/ Keep
    \/ ListAdd \/ ListSet \/ RecordSet \/ LocalMove \/ ReleaseResult
    \/ Enter \/ StepOrLeave

Next == (Program \/ Machine) /\ UNCHANGED program

Spec == Init /\ [][Next]_vars
-----------------------------------------------------------------------------
(***************************************************************************)
(* Slots and what they own.  A dead value owns the fields that were not    *)
(* visited yet.                                                            *)
(***************************************************************************)
RootSlot ==
    {<<"reg", r>> : r \in Register} \cup {<<"hand">>, <<"falling">>}
    \cup {<<"local", d, i>> : d \in 1..MaxFrames, i \in 1..MaxLocals}
    \cup {<<"temp", d, i>> : d \in 1..MaxFrames, i \in 1..MaxTemps}

Slot == RootSlot \cup (Object \X Index)

At(s, i) == IF i \in DOMAIN s THEN s[i] ELSE None

Visited(o, i) == visit.of = o /\ i < visit.next

Held(s) ==
    IF s \notin RootSlot
    THEN IF Visited(s[1], s[2]) THEN None ELSE At(fields[s[1]], s[2])
    ELSE CASE s[1] = "reg" -> reg[s[2]]
           [] s[1] = "hand" -> hand
           [] s[1] = "falling" -> falling
           [] s[1] = "local" -> IF s[2] <= Top THEN At(frames[s[2]].locals, s[3]) ELSE None
           [] s[1] = "temp" -> IF s[2] <= Top THEN At(frames[s[2]].temps, s[3]) ELSE None

edge == [s \in Slot |-> IF Mortal(Held(s)) THEN Held(s) ELSE None]

Dead(o) == ~Free(o) /\ count[o] = 0

status ==
    [o \in Object |-> IF Free(o) THEN "free" ELSE IF Dead(o) THEN "dying" ELSE "live"]

Reachable ==
    LET roots == {Held(s) : s \in RootSlot} \cap Object
    IN  {o \in Object : \A P \in SUBSET Object : Closed(P) /\ roots \subseteq P => o \in P}

TypeOK ==
    /\ kind \in [Object -> {"FREE", "TEXT", "LIST", "REFERENCES", "RECORD", "SCALAR_RECORD"}]
    /\ count \in [Object -> 0..Cardinality(Slot)]
    /\ \A o \in Object : ToSet(fields[o]) \subseteq Object \cup Literal \cup {None}
    /\ Top <= Depth /\ hand \in Object \cup Literal \cup {None}

(* A reference count is the number of slots that own the value, at every   *)
(* step of every call; while a value is destroyed, its remaining fields    *)
(* still count (minyar_rc_retain, rc_drop, minyar_rc_release).             *)
CountExact ==
    \A o \in Object : Cardinality({s \in Slot : Held(s) = o}) = count[o]

(* A value with a zero count is on the work list once, or is the one being *)
(* visited: rc_pending never holds a value twice, so none is freed twice.  *)
DeadQueuedOnce ==
    /\ IsInjective(pending)
    /\ {o \in Object : Dead(o)} = ToSet(pending) \cup ({visit.of} \ {None})
    /\ visit.of \notin ToSet(pending)

(* "Iterative destruction": when a call has returned, everything that died *)
(* in it is freed, and what is allocated can be reached from a local, a    *)
(* temporary or a result.  Nothing leaks, since no cycle can be built.     *)
DestructionComplete ==
    Idle => \A o \in Object : ~Free(o) => o \in Reachable

(* rc_drop calls itself for the root of a view only, and a root has none:  *)
(* releasing a graph of any depth never recurses deeper.                   *)
DropsRecurseOnce ==
    [][\A o \in Object :
          (falling = o /\ falling' # None /\ kind'[o] = "FREE")
              => falling' \in Literal \/ fields[falling'][1] = None]_vars

(* Destruction frees every value that dies once, and misses none. *)
DestroyedOnce == TypeOK /\ DeadQueuedOnce /\ DestructionComplete

(* The default profile implements the ownership contract. *)
Contract == INSTANCE Ownership WITH Root <- RootSlot
ASSUME ContractAssumption == Contract!OwnershipAssumption
ImplementsOwnership == Contract!Spec

(* What a release has still to do: every allocated value and unvisited     *)
(* field, a pending entry and the value in rc_drop's hands.                *)
Allocated == {o \in Object : ~Free(o)}
FieldsLeft ==
    {s \in Object \X Index : s[2] \in DOMAIN fields[s[1]] /\ ~Visited(s[1], s[2])}
Remaining ==
    Cardinality(Allocated) + 3 * Cardinality(FieldsLeft)
    + Len(pending) + (IF falling = None THEN 0 ELSE 2)

(* Every step of a release leaves less to do, so it returns, after a       *)
(* number of steps bounded by the size of the graph that dies and on a     *)
(* stack of bounded depth.                                                 *)
ReleasesEnd == [][Destroy => Remaining' < Remaining]_vars /\ DropsRecurseOnce
=============================================================================
