------------------------------ MODULE BoundedRc ------------------------------
(***************************************************************************)
(* The bounded reference-counting runtime (minyar_rc.h,                    *)
(* minyar_bounded_rc.h, minyar_stack_frames.h and the List, record and     *)
(* Text operations of minyar_runtime.c), driven by a compiled program.     *)
(*                                                                         *)
(* A value whose last owner lets go is not freed recursively.  It is       *)
(* queued, and every runtime call then pays for at most Budget units of    *)
(* queued work, so the program keeps allocating, sharing and overwriting   *)
(* values while others are half destroyed.                                 *)
(*                                                                         *)
(* The program is sequential.  A runtime call is a sequence of micro-steps *)
(* kept in todo; a program call is possible only when the previous one has *)
(* completed (Idle).  Inside a call, a poll runs one unit of work per step *)
(* (work > 0) and rc_drop one level per step (falling # None).             *)
(***************************************************************************)
EXTENDS Integers, Sequences, SequencesExt, FiniteSets

CONSTANTS Object,      \* heap cells for values
          Literal,     \* immortal Texts: literals and the caches
          Register,    \* owned results the program has not stored yet
          Frame,       \* ownership frames, on the heap or on the C stack
          Chunk,       \* temporary chunks
          None,        \* the null pointer, or a scalar field
          ChunkSlots,  \* RC_TEMPORARY_CHUNK_SLOTS
          CacheBytes,  \* MINYAR_FRAME_CACHE_BYTES
          Charge,      \* bytes charged for a frame, by its local capacity
          GrowAt,      \* List lengths that equal the capacity
          StackOwners, \* most locals of a frame on the C stack
          MaxCount,    \* the largest reference count
          MaxLocals,   \* bound: locals of a function
          MaxWidth,    \* bound: fields of a record, elements of a List
          Programs     \* compiled programs, each with the runtime's budget

Local == 1..MaxLocals
Index == 1..MaxWidth
Value == Object \cup Literal \cup {None}

ASSUME ConstantsAssumption ==
    /\ \A p \in DOMAIN Programs :
          /\ Programs[p].budget \in Nat \ {0}
          /\ Programs[p].locals \in 0..MaxLocals /\ Programs[p].width \in 0..MaxWidth
          /\ Programs[p].frames \in 0..Cardinality(Frame)
    /\ ChunkSlots \in Nat \ {0}
    /\ MaxCount \in Nat \ {0}
    /\ MaxWidth \in Nat \ {0}
    /\ {CacheBytes, MaxLocals, StackOwners} \subseteq Nat
    /\ Charge \in [0..MaxLocals -> Nat]
    /\ GrowAt \subseteq Nat
    /\ None \notin Object \cup Literal
    /\ Object \cap Literal = {}
    /\ IsFiniteSet(Object) /\ IsFiniteSet(Frame) /\ Frame # {}
    /\ IsFiniteSet(Chunk) /\ IsFiniteSet(Register)

VARIABLES
    program,                              \* the program that runs
    kind, count, fields, cursor,          \* RcObject headers and payloads
    recent, old, active, activeCursor, turn, \* queues of dead values
    frame, stack, frameQueue, freeFrames, cachedBytes,
    chunk, chunkQueue,
    nextQueue, pending,                   \* rc_bounded_next_queue, rc_pending_count
    reg,                                  \* owned results held by the program
    hand,                                 \* the owned operand of the current call
    falling,                              \* the reference rc_drop is dropping
    spent, work, todo                     \* progress of the current call

heapVars == <<kind, count, fields, cursor>>
objectQueueVars == <<recent, old, active, activeCursor, turn>>
frameVars == <<frame, stack, frameQueue, freeFrames, cachedBytes>>
chunkVars == <<chunk, chunkQueue>>
callVars == <<spent, work, todo>>
vars == <<program, heapVars, objectQueueVars, frameVars, chunkVars, nextQueue, pending,
          reg, hand, falling, callVars>>

(***************************************************************************)
(* A program is the set of runtime calls it makes, the poll budget it is   *)
(* compiled with (MINYAR_RC_POLL_BUDGET), and bounds on what it keeps.     *)
(***************************************************************************)
Calls == Programs[program].calls
Budget == Programs[program].budget
MaxObjects == Programs[program].objects
MaxResults == Programs[program].results
ProgramLocals == Programs[program].locals
Width == Programs[program].width
MaxDepth == Programs[program].depth
MaxFrames == Programs[program].frames

Kinds == {"FREE", "TEXT", "LIST", "REFERENCES", "REFERENCES_IMMORTAL",
          "RECORD", "SCALAR_RECORD"}

EmptyLocal == [ref |-> None, tag |-> FALSE]
UnusedFrame == [locals |-> [i \in Local |-> EmptyLocal], written |-> <<>>,
                localCount |-> 0, capacity |-> 0, temps |-> <<>>,
                tempCount |-> 0, onStack |-> FALSE]

Mortal(v) == v \in Object
Live(o) == count[o] > 0
Dead(o) == kind[o] # "FREE" /\ count[o] = 0
Free(o) == kind[o] = "FREE"

Running == stack # <<>>
Top == stack[1]
Polling == work > 0
Idle == Running /\ todo = <<>> /\ work = 0 /\ falling = None

UnusedFrames ==
    Frame \ (ToSet(stack) \cup ToSet(frameQueue) \cup ToSet(freeFrames))
UsedChunks ==
    ToSet(chunkQueue) \cup UNION {ToSet(frame[f].temps) : f \in ToSet(stack)}
UnusedChunks == Chunk \ UsedChunks

(* Which unused frame or chunk the heap hands out makes no difference. *)
NewFrame == CHOOSE f \in UnusedFrames : TRUE
NewChunk == CHOOSE c \in UnusedChunks : TRUE
-----------------------------------------------------------------------------
(***************************************************************************)
(* Micro-steps of a call.                                                  *)
(***************************************************************************)
Op(name) == [do |-> name]
Service(budget) == [do |-> "service", budget |-> budget]
Rest == Op("rest")
Allocate(r, k, n) == [do |-> "allocate", reg |-> r, kind |-> k, length |-> n]
Retain(v) == [do |-> "retain", value |-> v]
Into(name, target, i) == [do |-> name, target |-> target, index |-> i]

Doing(name) == todo # <<>> /\ work = 0 /\ falling = None /\ todo[1].do = name
Now == todo[1]

(* A micro-step's target is a value, or the register that holds it. *)
At(target) == IF target \in Register THEN reg[target] ELSE target

Stop == <<Op("stop")>>
-----------------------------------------------------------------------------
(***************************************************************************)
(* rc_drop: one level of dropping the reference in falling.                *)
(***************************************************************************)
(* rc_drop's result only matters to minyar_rc_release, which subtracts it  *)
(* from the budget of the poll that follows.                               *)
CountDrop == spent' = IF todo # <<>> /\ Now.do = "rest" THEN spent + 1 ELSE spent

FinishObject(o) ==
    /\ kind' = [kind EXCEPT ![o] = "FREE"]
    /\ count' = [count EXCEPT ![o] = 0]
    /\ fields' = [fields EXCEPT ![o] = <<>>]
    /\ cursor' = [cursor EXCEPT ![o] = 0]

(* Mutant: every List is destroyed like a List of scalars. *)
AnyListIsLeaf(o) == kind[o] # "RECORD" \/ fields[o] = <<>>

(* Values that own nothing the runtime has to visit. *)
Leaf(o) == \/ kind[o] \in {"SCALAR_RECORD", "LIST", "REFERENCES_IMMORTAL"}
           \/ fields[o] = <<>>

DropLiteral ==
    /\ falling \in Literal
    /\ falling' = None
    /\ UNCHANGED <<heapVars, recent, pending, spent>>

DropShared ==
    /\ Mortal(falling)
    /\ count[falling] > 1
    /\ count' = [count EXCEPT ![falling] = @ - 1]
    /\ falling' = None
    /\ UNCHANGED <<kind, fields, cursor, recent, pending, spent>>

DropLeaf ==
    /\ Mortal(falling)
    /\ count[falling] = 1
    /\ Leaf(falling)
    /\ FinishObject(falling)
    /\ falling' = None
    /\ CountDrop
    /\ UNCHANGED <<recent, pending>>

Backing(o) == fields[o][1]

(* A Text view is freed and rc_drop continues with the Text it points into. *)
DropView ==
    /\ Mortal(falling)
    /\ count[falling] = 1
    /\ kind[falling] = "TEXT"
    /\ ~ Leaf(falling)
    /\ FinishObject(falling)
    /\ falling' = Backing(falling)
    /\ CountDrop
    /\ UNCHANGED <<recent, pending>>

(* A List of references or a record joins the stack of recent dead values. *)
DropNode ==
    /\ Mortal(falling)
    /\ count[falling] = 1
    /\ kind[falling] \in {"REFERENCES", "RECORD"}
    /\ ~ Leaf(falling)
    /\ count' = [count EXCEPT ![falling] = 0]
    /\ cursor' = [cursor EXCEPT ![falling] = 0]
    /\ recent' = <<falling>> \o recent
    /\ pending' = pending + 1
    /\ falling' = None
    /\ UNCHANGED <<kind, fields, spent>>

RcDrop ==
    /\ DropLiteral \/ DropShared \/ DropLeaf \/ DropView \/ DropNode
    /\ UNCHANGED <<old, active, activeCursor, turn, frameVars, chunkVars,
                   nextQueue, reg, hand, work, todo>>
-----------------------------------------------------------------------------
(***************************************************************************)
(* minyar_rc_poll: one unit of queued work per step.                       *)
(***************************************************************************)
Ready(q) == CASE q = 0 -> active # None \/ old # <<>> \/ recent # <<>>
              [] q = 1 -> frameQueue # <<>>
              [] q = 2 -> chunkQueue # <<>>

(* The first ready queue, searching from nextQueue. *)
Selected(q) ==
    /\ Ready(q)
    /\ \A p \in 0..2 : Ready(p) => (q - nextQueue) % 3 <= (p - nextQueue) % 3

(* A unit that hands one reference to rc_drop. *)
VisitUnit(v) ==
    /\ falling' = v
    /\ work' = work - 1
    /\ UNCHANGED <<pending, heapVars>>

(* A unit that retires the task itself; the poll ends with nothing pending. *)
RetireUnit ==
    /\ pending' = pending - 1
    /\ work' = IF pending' = 0 THEN 0 ELSE work - 1
    /\ UNCHANGED falling

(* When the old batch is exhausted it is replaced by the recent stack. *)
Capture == active = None /\ old = <<>>
OldBatch == IF Capture THEN recent ELSE old

(* Mutant: the captured values stay on the recent stack. *)
UncapturedRecent == recent

RecentBatch == IF Capture THEN <<>> ELSE recent

(* Mutant: a captured value is visited from its first field again. *)
FirstField(o) == 0

(* The cursor a recent unit may have left in the value's spare bits. *)
SavedCursor(o) == cursor[o]

OldObjectUnit ==
    LET o == IF active # None THEN active ELSE OldBatch[1]
        c == IF active # None THEN activeCursor ELSE SavedCursor(o)
    IN /\ recent' = RecentBatch
       /\ old' = IF active # None THEN OldBatch ELSE Tail(OldBatch)
       /\ \/ /\ c < Len(fields[o])
             /\ active' = o
             /\ activeCursor' = c + 1
             /\ VisitUnit(fields[o][c + 1])
          \/ /\ c = Len(fields[o])
             /\ active' = None
             /\ activeCursor' = 0
             /\ FinishObject(o)
             /\ RetireUnit

(* The cursor is saved before the child is dropped: the child may be       *)
(* pushed above its parent.                                                *)
RecentObjectUnit ==
    LET o == recent[1]
    IN /\ UNCHANGED <<old, active, activeCursor>>
       /\ \/ /\ cursor[o] < Len(fields[o])
             /\ cursor' = [cursor EXCEPT ![o] = @ + 1]
             /\ falling' = fields[o][cursor[o] + 1]
             /\ work' = work - 1
             /\ UNCHANGED <<kind, count, fields, recent, pending>>
          \/ /\ cursor[o] = Len(fields[o])
             /\ recent' = Tail(recent)
             /\ FinishObject(o)
             /\ RetireUnit

(* The only old task is a one-field record whose field has been visited. *)
SoleUnaryParent ==
    /\ old = <<>>
    /\ active # None
    /\ kind[active] = "RECORD"
    /\ Len(fields[active]) = 1
    /\ activeCursor = 1

UseRecent == turn = 1 /\ RecentBatch # <<>> /\ ~ SoleUnaryParent

ObjectUnit ==
    /\ turn' = 1 - turn
    /\ IF UseRecent THEN RecentObjectUnit ELSE OldObjectUnit
    /\ UNCHANGED <<frameVars, chunkVars>>

CacheFits(bytes) == bytes <= CacheBytes /\ cachedBytes <= CacheBytes - bytes

(* A frame's storage is cached for the next call while the cache has room. *)
RetireFrame(f) ==
    LET bytes == Charge[frame[f].capacity]
        forget(l) == [l EXCEPT !.ref = None]
    IN /\ frameQueue' = Tail(frameQueue)
       /\ IF CacheFits(bytes)
          THEN /\ freeFrames' = <<f>> \o freeFrames
               /\ cachedBytes' = cachedBytes + bytes
               /\ frame' = [frame EXCEPT ![f].locals =
                               [i \in Local |-> forget(frame[f].locals[i])]]
          ELSE /\ frame' = [frame EXCEPT ![f] = UnusedFrame]
               /\ UNCHANGED <<freeFrames, cachedBytes>>

(* Mutant: the locals are visited without going through the index. *)
UnindexedLocal(f, n) == frame[f].locals[n].ref

(* rc_bounded_pending_local_value: the local in the n-th written slot. *)
PendingLocal(f, n) == frame[f].locals[frame[f].written[n]].ref

FrameUnit ==
    LET f == frameQueue[1]
        n == frame[f].localCount
    IN /\ \/ /\ n > 0
             /\ frame' = [frame EXCEPT ![f].localCount = n - 1]
             /\ VisitUnit(PendingLocal(f, n))
             /\ UNCHANGED <<frameQueue, freeFrames, cachedBytes>>
          \/ /\ n = 0
             /\ RetireFrame(f)
             /\ RetireUnit
             /\ UNCHANGED heapVars
       /\ UNCHANGED <<stack, objectQueueVars, chunkVars>>

NextTemporary(c) == Last(chunk[c])

ChunkUnit ==
    LET c == chunkQueue[1]
    IN /\ \/ /\ chunk[c] # <<>>
             /\ chunk' = [chunk EXCEPT ![c] = Front(@)]
             /\ VisitUnit(NextTemporary(c))
             /\ UNCHANGED chunkQueue
          \/ /\ chunk[c] = <<>>
             /\ chunkQueue' = Tail(chunkQueue)
             /\ RetireUnit
             /\ UNCHANGED <<chunk, heapVars>>
       /\ UNCHANGED <<objectQueueVars, frameVars>>

PollUnit ==
    /\ Polling
    /\ falling = None
    /\ \E q \in 0..2 :
          /\ Selected(q)
          /\ nextQueue' = (q + 1) % 3
          /\ CASE q = 0 -> ObjectUnit
               [] q = 1 -> FrameUnit
               [] q = 2 -> ChunkUnit
    /\ UNCHANGED <<reg, hand, spent, todo>>
-----------------------------------------------------------------------------
(***************************************************************************)
(* The micro-steps.  Each one is the head of todo.                         *)
(***************************************************************************)
(* rc_service_pending, and minyar_rc_poll, which does nothing when nothing *)
(* is pending.                                                             *)
StartPoll(budget) == work' = IF pending > 0 THEN budget ELSE 0

DoService ==
    /\ Doing("service")
    /\ StartPoll(Now.budget)
    /\ todo' = Tail(todo)
    /\ UNCHANGED <<heapVars, objectQueueVars, frameVars, chunkVars, nextQueue,
                   pending, reg, hand, falling, spent>>

(* The poll of minyar_rc_release: its budget pays for what rc_drop freed. *)
DoRest ==
    /\ Doing("rest")
    /\ StartPoll(IF spent < Budget THEN Budget - spent ELSE 0)
    /\ spent' = 0
    /\ todo' = Tail(todo)
    /\ UNCHANGED <<heapVars, objectQueueVars, frameVars, chunkVars, nextQueue,
                   pending, reg, hand, falling>>

(* Micro-steps that end no poll and touch no queue. *)
OnHeap ==
    /\ todo' = Tail(todo)
    /\ UNCHANGED <<objectQueueVars, frameVars, chunkVars, nextQueue, pending,
                   spent, work>>

(* rc_allocate_object, after its service: the register owns the value. *)
DoAllocate ==
    /\ Doing("allocate")
    /\ \E o \in Object :
          /\ Free(o)
          /\ kind' = [kind EXCEPT ![o] = Now.kind]
          /\ count' = [count EXCEPT ![o] = 1]
          /\ fields' = [fields EXCEPT ![o] = [i \in 1..Now.length |-> None]]
          /\ reg' = [reg EXCEPT ![Now.reg] = o]
    /\ OnHeap
    /\ UNCHANGED <<cursor, hand, falling>>

Saturated(v) == Mortal(v) /\ count[v] = MaxCount

(* minyar_rc_retain: a count that would overflow stops the program. *)
DoRetain ==
    /\ Doing("retain")
    /\ IF Saturated(Now.value)
       THEN /\ todo' = Stop
            /\ UNCHANGED <<heapVars, objectQueueVars, frameVars, chunkVars,
                           nextQueue, pending, reg, hand, falling, spent, work>>
       ELSE /\ hand' = Now.value
            /\ count' = IF Mortal(Now.value)
                        THEN [count EXCEPT ![Now.value] = @ + 1] ELSE count
            /\ OnHeap
            /\ UNCHANGED <<kind, fields, cursor, reg, falling>>

(* The retained reference becomes a result of the program's. *)
DoResult ==
    /\ Doing("result")
    /\ reg' = [reg EXCEPT ![Now.target] = hand]
    /\ hand' = None
    /\ OnHeap
    /\ UNCHANGED <<heapVars, falling>>

(* An owned result is the operand of a call that consumes it. *)
DoTake ==
    /\ Doing("take")
    /\ hand' = reg[Now.target]
    /\ reg' = [reg EXCEPT ![Now.target] = None]
    /\ OnHeap
    /\ UNCHANGED <<heapVars, falling>>

(* minyar_join_text_take_left writes the joined bytes into its left operand. *)
DoGrow ==
    /\ Doing("grow")
    /\ OnHeap
    /\ UNCHANGED <<heapVars, reg, hand, falling>>

(* view->backing = root *)
DoBacking ==
    /\ Doing("backing")
    /\ fields' = [fields EXCEPT ![At(Now.target)] = <<hand>>]
    /\ hand' = None
    /\ OnHeap
    /\ UNCHANGED <<kind, count, cursor, reg, falling>>

(* The release inside minyar_join_text_take_left. *)
DoRelease ==
    /\ Doing("release")
    /\ falling' = reg[Now.target]
    /\ reg' = [reg EXCEPT ![Now.target] = None]
    /\ OnHeap
    /\ UNCHANGED <<heapVars, hand>>

(* Mutant: a List is never promoted. *)
UnpromotedKind(l, v) == kind[l]

(* list_store_kind: the first mortal element promotes an immortal-only List. *)
StoreKind(l, v) ==
    IF kind[l] = "REFERENCES_IMMORTAL" /\ Mortal(v) THEN "REFERENCES" ELSE kind[l]

(* minyar_list_references *)
DoReferences ==
    /\ Doing("references")
    /\ LET l == At(Now.target)
       IN kind' = [kind EXCEPT ![l] =
              CASE @ # "LIST" -> @
                [] @ = "LIST" /\ fields[l] = <<>> -> "REFERENCES_IMMORTAL"
                [] OTHER -> "REFERENCES"]
    /\ OnHeap
    /\ UNCHANGED <<count, fields, cursor, reg, hand, falling>>

(* list->values[list->length++] = value *)
DoAppend ==
    /\ Doing("append")
    /\ LET l == At(Now.target)
       IN /\ kind' = [kind EXCEPT ![l] = StoreKind(l, hand)]
          /\ fields' = [fields EXCEPT ![l] = Append(@, hand)]
    /\ hand' = None
    /\ OnHeap
    /\ UNCHANGED <<count, cursor, reg, falling>>

Replaced(l, i) == IF StoreKind(l, hand) = "REFERENCES" THEN fields[l][i] ELSE None

(* minyar_list_set_owned: the old element is released after the store. *)
DoReplace ==
    /\ Doing("replace")
    /\ LET l == At(Now.target)
       IN /\ kind' = [kind EXCEPT ![l] = StoreKind(l, hand)]
          /\ fields' = [fields EXCEPT ![l][Now.index] = hand]
          /\ falling' = Replaced(l, Now.index)
    /\ hand' = None
    /\ OnHeap
    /\ UNCHANGED <<count, cursor, reg>>

(* minyar_record_set_take, on a record under construction. *)
DoField ==
    /\ Doing("field")
    /\ fields' = [fields EXCEPT ![At(Now.target)][Now.index] = hand]
    /\ hand' = None
    /\ OnHeap
    /\ UNCHANGED <<kind, count, cursor, reg, falling>>

(* minyar_rc_local_take: a slot is entered in the written index the first  *)
(* time it holds a value, and its low bit (tag) remembers that it is.      *)
TakeLocal(fr, i, v) ==
    [fr EXCEPT
        !.written = IF ~ fr.locals[i].tag /\ v # None THEN Append(@, i) ELSE @,
        !.locals[i] = IF v # None \/ fr.locals[i].tag
                      THEN [ref |-> v, tag |-> TRUE] ELSE @]

DoLocal ==
    /\ Doing("local")
    /\ frame' = [frame EXCEPT ![Top] = TakeLocal(@, Now.index, hand)]
    /\ falling' = frame[Top].locals[Now.index].ref
    /\ hand' = None
    /\ todo' = Tail(todo)
    /\ UNCHANGED <<heapVars, objectQueueVars, stack, frameQueue, freeFrames,
                   cachedBytes, chunkVars, nextQueue, pending, reg, spent, work>>

(* minyar_rc_keep: a new chunk when the last one is full ... *)
DoChunk ==
    /\ Doing("chunk")
    /\ frame' = [frame EXCEPT ![Top].temps = Append(@, NewChunk)]
    /\ chunk' = [chunk EXCEPT ![NewChunk] = <<>>]
    /\ todo' = Tail(todo)
    /\ UNCHANGED <<heapVars, objectQueueVars, stack, frameQueue, freeFrames,
                   cachedBytes, chunkQueue, nextQueue, pending, reg, hand,
                   falling, spent, work>>

(* ... and the value is held until the next step of the program. *)
DoHold ==
    /\ Doing("hold")
    /\ chunk' = [chunk EXCEPT ![Last(frame[Top].temps)] = Append(@, hand)]
    /\ frame' = [frame EXCEPT ![Top].tempCount = @ + 1]
    /\ hand' = None
    /\ todo' = Tail(todo)
    /\ UNCHANGED <<heapVars, objectQueueVars, stack, frameQueue, freeFrames,
                   cachedBytes, chunkQueue, nextQueue, pending, reg, falling,
                   spent, work>>

(* minyar_rc_enter, after its poll: a cached frame is reused, and its      *)
(* local storage grows when it is too small.                               *)
OpenFrame(fr, n, onStack) ==
    [locals |-> [i \in Local |-> IF i <= n THEN EmptyLocal ELSE fr.locals[i]],
     written |-> <<>>, localCount |-> n,
     capacity |-> IF n > fr.capacity THEN n ELSE fr.capacity,
     temps |-> fr.temps, tempCount |-> 0, onStack |-> onStack]

DoEnter ==
    /\ Doing("enter")
    /\ LET f == IF freeFrames # <<>> THEN freeFrames[1] ELSE NewFrame
       IN /\ IF freeFrames # <<>>
             THEN /\ freeFrames' = Tail(freeFrames)
                  /\ cachedBytes' = cachedBytes - Charge[frame[f].capacity]
             ELSE UNCHANGED <<freeFrames, cachedBytes>>
          /\ frame' = [frame EXCEPT ![f] = OpenFrame(@, Now.index, FALSE)]
          /\ stack' = <<f>> \o stack
    /\ todo' = Tail(todo)
    /\ UNCHANGED <<heapVars, objectQueueVars, frameQueue, chunkVars, nextQueue,
                   pending, reg, hand, falling, spent, work>>

(* minyar_rc_enter_stack_v1: the caller supplies the storage. *)
DoEnterStack ==
    /\ Doing("enterStack")
    /\ frame' = [frame EXCEPT ![NewFrame] = OpenFrame(@, Now.index, TRUE)]
    /\ stack' = <<NewFrame>> \o stack
    /\ todo' = Tail(todo)
    /\ UNCHANGED <<heapVars, objectQueueVars, frameQueue, freeFrames, cachedBytes,
                   chunkVars, nextQueue, pending, reg, hand, falling, spent, work>>

(* minyar_rc_leave_stack_v1 drops its written locals itself, last first. *)
DoDropLocals ==
    /\ Doing("dropLocals")
    /\ LET f == Now.target
           n == frame[f].localCount
       IN IF n > 0
          THEN /\ falling' = PendingLocal(f, n)
               /\ frame' = [frame EXCEPT ![f].localCount = n - 1]
               /\ UNCHANGED todo
          ELSE /\ frame' = [frame EXCEPT ![f] = UnusedFrame]
               /\ todo' = Tail(todo)
               /\ UNCHANGED falling
    /\ UNCHANGED <<heapVars, objectQueueVars, stack, frameQueue, freeFrames,
                   cachedBytes, chunkVars, nextQueue, pending, reg, hand, spent,
                   work>>

Resume ==
    \/ DoService \/ DoRest \/ DoAllocate \/ DoRetain \/ DoResult \/ DoBacking
    \/ DoTake \/ DoGrow \/ DoRelease \/ DoReferences \/ DoAppend \/ DoReplace \/ DoField
    \/ DoLocal \/ DoChunk \/ DoHold
    \/ DoEnter \/ DoEnterStack \/ DoDropLocals
-----------------------------------------------------------------------------
(***************************************************************************)
(* The program.  A call sets todo; its operands are values the program can *)
(* name: held by a register, a local or a temporary of an active function, *)
(* or by a field of such a value.                                          *)
(***************************************************************************)
HeldByProgram ==
    {reg[r] : r \in Register}
    \cup {frame[f].locals[i].ref : f \in ToSet(stack), i \in Local}
    \cup UNION {UNION {ToSet(chunk[c]) : c \in ToSet(frame[f].temps)}
                : f \in ToSet(stack)}

Elements(o) == IF Mortal(o) /\ kind[o] # "TEXT" THEN ToSet(fields[o]) ELSE {}

Operand == {v \in Literal : "literal" \in Calls} \cup
    ((HeldByProgram \cup UNION {Elements(o) : o \in HeldByProgram}) \ {None})

Texts == {v \in Operand : Mortal(v) => kind[v] = "TEXT"}
Lists == {v \in Operand :
             Mortal(v) /\ kind[v] \in {"REFERENCES", "REFERENCES_IMMORTAL"}}
Results == {r \in Register : reg[r] # None}
EmptyRegisters == {r \in Register \ Results : Cardinality(Results) < MaxResults}
CanAllocate == Cardinality({o \in Object : ~ Free(o)}) < MaxObjects

(* A set of values with everything that its members own. *)
Closed(P) == \A o \in P : ToSet(fields[o]) \cap Object \subseteq P

(* The compiler rejects a List mutation that could make a cycle: l is not  *)
(* among what v owns, directly or not.                                     *)
MayStore(l, v) ==
    \E P \in SUBSET Object : Closed(P) /\ {v} \cap Object \subseteq P /\ l \notin P

Call(name, steps) ==
    /\ Idle
    /\ name \in Calls
    /\ todo' = steps
    /\ UNCHANGED <<heapVars, objectQueueVars, frameVars, chunkVars, nextQueue,
                   pending, reg, hand, falling, spent, work>>

Poll == Service(Budget)
Result(r) == Into("result", r, 0)
Take(r) == Into("take", r, 0)

(* A call that retains its operand, or takes over an owned result. *)
Acquiring == {[value |-> v, steps |-> <<Retain(v)>>] : v \in Operand}
Taking == {[value |-> reg[r], steps |-> <<Take(r)>>] : r \in Results}

NewRecord ==
    \E r \in EmptyRegisters, n \in 0..Width :
        CanAllocate /\ Call("record", <<Poll, Allocate(r, "RECORD", n)>>)

NewScalarRecord ==
    \E r \in EmptyRegisters :
        CanAllocate /\ Call("scalar", <<Poll, Allocate(r, "SCALAR_RECORD", 0)>>)

(* A field of a record under construction; each is set once. *)
RecordSet ==
    \E r \in Results, i \in Index, a \in Acquiring \cup Taking :
        /\ Mortal(reg[r]) /\ kind[reg[r]] = "RECORD" /\ count[reg[r]] = 1
        /\ i <= Len(fields[reg[r]]) /\ fields[reg[r]][i] = None
        /\ MayStore(reg[r], a.value)
        /\ Call("record", a.steps \o <<Into("field", reg[r], i), Poll>>)

(* minyar_record_set of a scalar field only polls. *)
RecordSetScalar ==
    \E r \in Results :
        /\ Mortal(reg[r]) /\ kind[reg[r]] = "RECORD"
        /\ Call("record", <<Poll>>)

NewList ==
    \E r \in EmptyRegisters :
        CanAllocate /\ Call("list", <<Poll, Allocate(r, "LIST", 0)>>)

ListReferences ==
    \E l \in Operand :
        /\ Mortal(l) /\ kind[l] = "LIST"
        /\ Call("list", <<Into("references", l, 0)>>)

Grow(n) == IF n \in GrowAt THEN <<Poll>> ELSE <<>>

ListAdd ==
    \E l \in Lists, a \in Acquiring \cup Taking :
        /\ Len(fields[l]) < Width
        /\ MayStore(l, a.value)
        /\ Call("add", Grow(Len(fields[l])) \o a.steps
                       \o <<Into("append", l, 0), Poll>>)

ReplaceSteps(l, i, a) ==
    a.steps \o <<Into("replace", l, i)>>
            \o IF StoreKind(l, a.value) = "REFERENCES" THEN <<Rest>> ELSE <<>>

ListSet ==
    \E l \in Lists, i \in Index, a \in Acquiring \cup Taking :
        /\ i <= Len(fields[l])
        /\ MayStore(l, a.value)
        /\ Call("set", ReplaceSteps(l, i, a))

(* Each element of l is retained and appended to the List in r: three      *)
(* steps for every element.                                                *)
CopySteps(l, r) ==
    [j \in 1..(3 * Len(fields[l])) |->
        CASE j % 3 = 1 -> Retain(fields[l][(j + 2) \div 3])
          [] j % 3 = 2 -> Into("append", r, 0)
          [] j % 3 = 0 -> Poll]

(* minyar_list_appended: a copy of the List with one more element. *)
ListAppended ==
    \E r \in EmptyRegisters, l \in Lists, a \in Acquiring \cup Taking :
        LET n == Len(fields[l])
            grows == Cardinality({g \in GrowAt : g <= n})
        IN /\ CanAllocate
           /\ n < Width
           /\ Call("appended",
                   <<Poll, Allocate(r, "LIST", 0), Into("references", r, 0)>>
                   \o [g \in 1..grows |-> Poll]
                   \o CopySteps(l, r) \o a.steps \o <<Into("append", r, 0), Poll>>)

(* A Text allocates its bytes, then its header. *)
TextSteps(r) == <<Poll, Poll, Allocate(r, "TEXT", 0)>>

NewText == \E r \in EmptyRegisters : CanAllocate /\ Call("text", TextSteps(r))

(* ensure_text_index: a Text whose characters have not been counted may    *)
(* need an index, whose allocation polls.                                  *)
Indexing == {Service(0), Poll}

(* minyar_text_slice: the same Text, a copy, or a view of its root. *)
TextRoot(t) == IF Mortal(t) /\ fields[t] # <<>> THEN fields[t][1] ELSE t

TextSlice ==
    \E r \in EmptyRegisters, t \in Texts, index \in Indexing :
        \/ Call("slice", <<index, Retain(t), Result(r)>>)
        \/ CanAllocate /\ Call("slice", <<index>> \o TextSteps(r))
        \/ /\ CanAllocate
           /\ Call("slice", <<index, Poll, Allocate(r, "TEXT", 0), Retain(TextRoot(t)),
                              Into("backing", r, 0)>>)

(* minyar_join_text_take_left: a Text that nobody else owns is extended,   *)
(* reallocating its bytes when they are full; any other is copied.         *)
ReusesLeft(t) == Mortal(t) /\ count[t] = 1 /\ fields[t] = <<>>

JoinTakeLeft ==
    \E r \in Results :
        /\ reg[r] \in Texts
        /\ IF ReusesLeft(reg[r])
           THEN \E steps \in {<<>>, <<Poll>>} :
                    Call("join", steps \o <<Into("grow", r, 0)>>)
           ELSE /\ CanAllocate
                /\ \E q \in EmptyRegisters :
                    Call("join", TextSteps(q) \o <<Into("release", r, 0), Rest>>)

(* minyar_rc_retain, for a returned value. *)
RetainResult ==
    \E r \in EmptyRegisters, v \in Operand : Call("retain", <<Retain(v), Result(r)>>)

ChunkFull ==
    \/ frame[Top].temps = <<>>
    \/ Len(chunk[Last(frame[Top].temps)]) = ChunkSlots

(* minyar_rc_keep of an owned result, and minyar_rc_borrow, which retains  *)
(* first.  Immortal values are not kept.                                   *)
Keep ==
    \E a \in Acquiring \cup Taking :
        /\ Mortal(a.value)
        /\ ChunkFull => UnusedChunks # {}
        /\ Call("keep", a.steps
                        \o (IF ChunkFull THEN <<Poll, Op("chunk")>> ELSE <<>>)
                        \o <<Op("hold"), Poll>>)

(* Mutant: the old value is released before the new one is retained. *)
ReleaseThenStore(i, a) ==
    <<Into("local", None, i), Rest>> \o a.steps \o <<Into("local", None, i), Rest>>

LocalSteps(i, a) == a.steps \o <<Into("local", None, i), Rest>>

(* minyar_rc_local (null at the end of a scope) and minyar_rc_local_take. *)
SetLocal ==
    \E i \in Local, a \in Acquiring \cup Taking \cup {[value |-> None, steps |-> <<>>]} :
        /\ i <= frame[Top].localCount
        /\ Call("local", LocalSteps(i, a))

(* Mutant: the tag is cleared with the reference. *)
VacateUntagged(fr, i) == [fr EXCEPT !.locals[i] = EmptyLocal]

(* minyar_rc_local_move: the slot's reference becomes a result; its tag    *)
(* stays.                                                                  *)
Vacate(fr, i) == [fr EXCEPT !.locals[i].ref = None]

MoveLocal ==
    /\ Idle
    /\ "move" \in Calls
    /\ \E i \in Local, r \in EmptyRegisters :
          /\ i <= frame[Top].localCount
          /\ frame[Top].locals[i].ref # None
          /\ reg' = [reg EXCEPT ![r] = frame[Top].locals[i].ref]
          /\ frame' = [frame EXCEPT ![Top] = Vacate(@, i)]
    /\ UNCHANGED <<heapVars, objectQueueVars, stack, frameQueue, freeFrames,
                   cachedBytes, chunkVars, nextQueue, pending, hand, falling,
                   callVars>>

(* Mutant: the division forgets the last, partly filled chunk. *)
FullChunks(fr) == fr.tempCount \div ChunkSlots

(* rc_bounded_retire_temporaries: the frame's chunks join the queue; the   *)
(* number of chunks is computed from the number of temporaries.            *)
TemporaryChunks(fr) == (fr.tempCount + ChunkSlots - 1) \div ChunkSlots
WithoutTemporaries(fr) == [fr EXCEPT !.temps = <<>>, !.tempCount = 0]

Step ==
    /\ Idle
    /\ "step" \in Calls
    /\ frame' = [frame EXCEPT ![Top] = WithoutTemporaries(@)]
    /\ chunkQueue' = chunkQueue \o frame[Top].temps
    /\ pending' = pending + TemporaryChunks(frame[Top])
    /\ todo' = <<Poll>>
    /\ UNCHANGED <<heapVars, objectQueueVars, stack, frameQueue, freeFrames,
                   cachedBytes, chunk, nextQueue, reg, hand, falling, spent, work>>

EnterSteps(n) == <<Poll, Into("enter", None, n)>>
FitsStack(n) == n > 0 /\ n <= StackOwners /\ n < Budget

CanOpenFrame == Cardinality(Frame \ UnusedFrames) < MaxFrames

Enter ==
    \E n \in 0..ProgramLocals :
        /\ Len(stack) < MaxDepth
        /\ freeFrames # <<>> \/ CanOpenFrame
        /\ Call("enter", EnterSteps(n))

EnterStack ==
    \E n \in 0..ProgramLocals :
        /\ Len(stack) < MaxDepth
        /\ CanOpenFrame
        /\ Call("enterStack", IF FitsStack(n)
                              THEN <<Poll, Into("enterStack", None, n)>>
                              ELSE EnterSteps(n))

(* The frame leaves the stack and its temporaries are queued. *)
Detach(f) ==
    /\ stack' = Tail(stack)
    /\ frame' = [frame EXCEPT ![f] =
                    [WithoutTemporaries(@) EXCEPT !.localCount = Len(frame[f].written)]]
    /\ chunkQueue' = chunkQueue \o frame[f].temps

(* minyar_rc_leave queues the frame too. *)
Leave ==
    /\ Idle
    /\ "leave" \in Calls
    /\ ~ frame[Top].onStack
    /\ Detach(Top)
    /\ frameQueue' = Append(frameQueue, Top)
    /\ pending' = pending + TemporaryChunks(frame[Top]) + 1
    /\ todo' = <<Poll>>
    /\ UNCHANGED <<heapVars, objectQueueVars, freeFrames, cachedBytes, chunk,
                   nextQueue, reg, hand, falling, spent, work>>

(* minyar_rc_leave_stack_v1 pays for its locals from the poll's budget. *)
LeaveStack ==
    /\ Idle
    /\ frame[Top].onStack
    /\ Detach(Top)
    /\ pending' = pending + TemporaryChunks(frame[Top])
    /\ todo' = <<Into("dropLocals", Top, 0),
                 Service(Budget - Len(frame[Top].written))>>
    /\ UNCHANGED <<heapVars, objectQueueVars, frameQueue, freeFrames, cachedBytes,
                   chunk, nextQueue, reg, hand, falling, spent, work>>

Program ==
    /\ Idle
    /\ UNCHANGED program
    /\ \/ NewRecord \/ NewScalarRecord \/ RecordSet \/ RecordSetScalar
       \/ NewList \/ ListReferences \/ ListAdd \/ ListSet \/ ListAppended
       \/ NewText \/ TextSlice \/ JoinTakeLeft
       \/ RetainResult \/ Keep \/ SetLocal \/ MoveLocal
       \/ Step \/ Enter \/ EnterStack \/ Leave \/ LeaveStack

(* The process has returned from its first function, or has stopped with   *)
(* an error.                                                               *)
Halted == \/ todo = Stop
          \/ stack = <<>> /\ todo = <<>> /\ work = 0 /\ falling = None

Init ==
    /\ program \in DOMAIN Programs
    /\ kind = [o \in Object |-> "FREE"]
    /\ count = [o \in Object |-> 0]
    /\ fields = [o \in Object |-> <<>>]
    /\ cursor = [o \in Object |-> 0]
    /\ recent = <<>> /\ old = <<>>
    /\ active = None /\ activeCursor = 0 /\ turn = 0
    /\ frame = [f \in Frame |-> UnusedFrame]
    /\ stack = <<>> /\ frameQueue = <<>> /\ freeFrames = <<>> /\ cachedBytes = 0
    /\ chunk = [c \in Chunk |-> <<>>] /\ chunkQueue = <<>>
    /\ nextQueue = 0 /\ pending = 0
    /\ reg = [r \in Register |-> None] /\ hand = None /\ falling = None
    /\ spent = 0 /\ work = 0
    /\ \E n \in 0..ProgramLocals : todo = EnterSteps(n)

Machine == (RcDrop \/ PollUnit \/ Resume) /\ UNCHANGED program

Next == Machine \/ Program \/ (Halted /\ UNCHANGED vars)

Spec == Init /\ [][Next]_vars
-----------------------------------------------------------------------------
(***************************************************************************)
(* Who owns what.  A dead value still owns the fields its cursor has not   *)
(* passed; a queued frame the locals it has still to visit.                *)
(***************************************************************************)
RootSlot == (Frame \X Local) \cup (Chunk \X (1..ChunkSlots))
            \cup (Register \X {0}) \cup {<<"hand", 0>>, <<"falling", 0>>}
Slot == RootSlot \cup (Object \X Index)

(* A slot's first component tells what it is a part of. *)
ASSUME SlotAssumption ==
    /\ Object \cap (Frame \cup Chunk \cup Register \cup {"hand", "falling"}) = {}
    /\ Frame \cap (Chunk \cup Register \cup {"hand", "falling"}) = {}
    /\ Chunk \cap (Register \cup {"hand", "falling"}) = {}
    /\ Register \cap {"hand", "falling"} = {}

Progress(o) == IF o = active THEN activeCursor ELSE cursor[o]

OwnedLocals(f) ==
    IF f \in ToSet(stack) THEN ToSet(frame[f].written)
    ELSE {frame[f].written[j] : j \in 1..frame[f].localCount}

Held(s) ==
    LET c == s[1]
        i == s[2]
    IN CASE c \in Object -> IF Progress(c) < i /\ i <= Len(fields[c])
                            THEN fields[c][i] ELSE None
         [] c \in Frame -> IF i \in OwnedLocals(c) THEN frame[c].locals[i].ref ELSE None
         [] c \in Chunk -> IF i <= Len(chunk[c]) THEN chunk[c][i] ELSE None
         [] c \in Register -> reg[c]
         [] c = "hand" -> hand
         [] c = "falling" -> falling

edge == [s \in Slot |-> IF Mortal(Held(s)) THEN Held(s) ELSE None]
status == [o \in Object |-> IF Free(o) THEN "free" ELSE IF Live(o) THEN "live" ELSE "dying"]

Owners(o) == {s \in Slot : edge[s] = o}

DeadValues == recent \o old \o IF active = None THEN <<>> ELSE <<active>>

(* Live values that the program, a call in progress or pending cleanup can *)
(* still reach.                                                            *)
OwnedBy(o) == {edge[<<o, i>>] : i \in Index} \ {None}
Reachable ==
    LET roots == {edge[s] : s \in RootSlot} \cup {o \in Object : Dead(o)}
    IN  {o \in Object : \A P \in SUBSET Object :
            roots \ {None} \subseteq P /\ (\A p \in P : OwnedBy(p) \subseteq P) => o \in P}
-----------------------------------------------------------------------------
LocalSlot == [ref : Value, tag : BOOLEAN]
FrameRecord == [locals : [Local -> LocalSlot], written : Seq(Local),
                localCount : 0..MaxLocals, capacity : 0..MaxLocals,
                temps : Seq(Chunk), tempCount : Nat, onStack : BOOLEAN]

(* The variables keep their types.  *)
TypeOK ==
    /\ program \in DOMAIN Programs
    /\ kind \in [Object -> Kinds]
    /\ count \in [Object -> 0..MaxCount]
    /\ fields \in [Object -> Seq(Value)]
    /\ cursor \in [Object -> Nat]
    /\ recent \in Seq(Object) /\ old \in Seq(Object)
    /\ active \in Object \cup {None} /\ activeCursor \in Nat /\ turn \in {0, 1}
    /\ frame \in [Frame -> FrameRecord]
    /\ stack \in Seq(Frame) /\ frameQueue \in Seq(Frame) /\ freeFrames \in Seq(Frame)
    /\ cachedBytes \in Nat
    /\ chunk \in [Chunk -> Seq(Value)] /\ chunkQueue \in Seq(Chunk)
    /\ nextQueue \in 0..2 /\ pending \in Nat
    /\ reg \in [Register -> Value] /\ hand \in Value /\ falling \in Value
    /\ spent \in Nat /\ work \in 0..Budget

(* A reference count is the number of slots that own the value, at every   *)
(* step of every call: no reference is counted twice or lost, whether it   *)
(* sits in a local, a temporary, a field of a half-destroyed value, a      *)
(* detached frame or in transit.  A dead or free cell has no owner left.   *)
CountExact == \A o \in Object : Cardinality(Owners(o)) = count[o]

(* Everything alive is still reachable: since the compiler rules out       *)
(* cycles, exact counts leave no unreachable live value behind.            *)
NoLeak == \A o \in Object : Live(o) => o \in Reachable

(* The polls inside a call never reclaim a value the call still uses:      *)
(* operands read before a service point are valid after it.  An operand    *)
(* that a call only reads, such as the right one of a join or the Text     *)
(* that is sliced, is no part of todo: it is among what the program can    *)
(* name, and all of that is alive whatever a call or a poll is doing.      *)
OperandsAlive ==
    /\ \A j \in 1..Len(todo) :
          /\ todo[j].do = "retain" /\ Mortal(todo[j].value) => Live(todo[j].value)
          /\ todo[j].do \in {"append", "replace", "field", "references"}
                /\ Mortal(todo[j].target) => Live(todo[j].target)
    /\ \A v \in Operand : Mortal(v) => Live(v)

(* rc_pending_count is the number of queued tasks: dead values, detached   *)
(* frames and temporary chunks, the latter counted by division when they   *)
(* are detached.  It decides whether a service point polls at all.         *)
PendingExact ==
    pending = Len(DeadValues) + Len(frameQueue) + Len(chunkQueue)

(* A value with a zero count is queued exactly once. *)
DeadQueuedOnce ==
    /\ IsInjective(DeadValues)
    /\ ToSet(DeadValues) = {o \in Object : Dead(o)}

(* The written index of a frame lists each local that ever held a value    *)
(* once, so it cannot run past the storage shared with the locals.         *)
WrittenExact ==
    \A f \in ToSet(stack) :
        LET fr == frame[f]
        IN /\ IsInjective(fr.written)
           /\ ToSet(fr.written) = {i \in 1..fr.localCount : fr.locals[i].tag}
           /\ Len(fr.written) <= fr.capacity

(* The frame cache is charged exactly for what it holds, within its limit. *)
Storage(f) == {f} \X (1..Charge[frame[f].capacity])
CachedStorage == UNION {Storage(f) : f \in ToSet(freeFrames)}
CacheExact ==
    /\ cachedBytes = Cardinality(CachedStorage)
    /\ cachedBytes <= CacheBytes

(* A List whose destruction skips its elements holds only immortal ones. *)
ImmortalLists ==
    \A o \in Object : kind[o] = "REFERENCES_IMMORTAL" => ToSet(fields[o]) \subseteq Literal

(* A view points at a root Text, never at another view: rc_drop recurses   *)
(* at most once.                                                           *)
FlatViews ==
    \A o \in Object : kind[o] = "TEXT" =>
        /\ Len(fields[o]) <= 1
        /\ \A v \in ToSet(fields[o]) :
              Mortal(v) => kind[v] = "TEXT" /\ fields[v] = <<>>

(* A Text's bytes are overwritten only while the consuming call is its     *)
(* only owner, even though uniqueness was tested before a poll.            *)
GrowsUnshared == Doing("grow") => Owners(reg[Now.target]) = {<<Now.target, 0>>}

(* The queues of minyar_rc_poll hold each dead value once, and their       *)
(* number is the one that service points go by.                            *)
QueuesExact == DeadQueuedOnce /\ PendingExact

(* What a call took for granted before it polled still holds when it goes  *)
(* on: operands are alive, and a Text that grows in place is unshared.     *)
OperandsSafe == OperandsAlive /\ GrowsUnshared

(* Nothing leaks: what is alive can be reached, and the two shortcuts of   *)
(* destruction, for Lists of immortals and for views, skip no owner.       *)
NothingLeaks == TypeOK /\ NoLeak /\ ImmortalLists /\ FlatViews

(* Frames, their written index and their cache, and the chunks they detach *)
(* are accounted for exactly.                                              *)
FramesExact == WrittenExact /\ CacheExact /\ PendingExact

(* The runtime implements the ownership contract. *)
Contract == INSTANCE Ownership WITH Root <- RootSlot
ASSUME ContractAssumption == Contract!OwnershipAssumption
ImplementsOwnership == Contract!Spec
-----------------------------------------------------------------------------
(* A compiled loop services cleanup on every iteration and recursion polls *)
(* on entry, so a program that keeps running keeps reaching service points.*)
FairSpec == Spec /\ WF_vars(Machine) /\ SF_vars(Step /\ UNCHANGED program)

(* Every dead value, detached frame and retired temporary is eventually    *)
(* reclaimed, however much garbage the program keeps producing.            *)
CleanupProgresses ==
    /\ \A o \in Object : Dead(o) ~> (Free(o) \/ Halted)
    /\ \A f \in Frame : f \in ToSet(frameQueue) ~> (f \notin ToSet(frameQueue) \/ Halted)
    /\ \A c \in Chunk : c \in ToSet(chunkQueue) ~> (c \notin ToSet(chunkQueue) \/ Halted)
=============================================================================
