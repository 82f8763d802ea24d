--------------------------- MODULE BoundedRcSteps ---------------------------
(***************************************************************************)
(* The inductive invariant of the bounded runtime.  Every micro-step of a  *)
(* call, every unit of cleanup and every released reference keeps it, for  *)
(* any values, registers, frames, chunks, programs and bounds.             *)
(***************************************************************************)
EXTENDS BoundedRc, FiniteSetTheorems, SequenceTheorems, TLAPS

(* Counting references, and the steps of the contract. *)
Refs == INSTANCE OwnershipProofs WITH Root <- RootSlot
-----------------------------------------------------------------------------
(***************************************************************************)
(* The inductive invariant.                                                *)
(***************************************************************************)
Closing == {"result", "backing", "release", "replace", "field", "local", "hold",
            "enter", "enterStack", "grow", "dropLocals"}
Acquires == {"retain", "take"}
Consumes == {"result", "append", "replace", "field", "local", "hold", "backing"}
Fills == {"allocate", "result"}
Targeted == {"references", "append", "backing", "replace", "field", "grow"}
NewKinds == {"RECORD", "SCALAR_RECORD", "LIST", "TEXT"}
ListKinds == {"REFERENCES", "REFERENCES_IMMORTAL"}

(* The micro-steps a call can have left. *)
MicroStep ==
    [do : {"rest", "chunk", "hold", "stop"}]
    \cup [do : {"service"}, budget : Int]
    \cup [do : {"allocate"}, reg : Register, kind : {"RECORD"}, length : 0..MaxWidth]
    \cup [do : {"allocate"}, reg : Register, kind : NewKinds, length : {0}]
    \cup [do : {"retain"}, value : Value]
    \cup [do : {"result", "take", "release", "backing", "grow"}, target : Register, index : Nat]
    \cup [do : {"append", "references"}, target : Register \cup Object, index : Nat]
    \cup [do : {"replace", "field"}, target : Object, index : Nat]
    \cup [do : {"local", "enter", "enterStack"}, target : {None}, index : Nat]
    \cup [do : {"dropLocals"}, target : Frame, index : Nat]

(* The variables' types, but for those that only account. *)
Typed ==
    /\ program \in DOMAIN Programs
    /\ kind \in [Object -> Kinds]
    /\ count \in [Object -> Nat]
    /\ fields \in [Object -> Seq(Value)]
    /\ cursor \in [Object -> Nat]
    /\ recent \in Seq(Object) /\ old \in Seq(Object)
    /\ active \in Object \cup {None} /\ activeCursor \in Nat
    /\ frame \in [Frame -> FrameRecord]
    /\ stack \in Seq(Frame) /\ frameQueue \in Seq(Frame) /\ freeFrames \in Seq(Frame)
    /\ chunk \in [Chunk -> Seq(Value)] /\ chunkQueue \in Seq(Chunk)
    /\ reg \in [Register -> Value] /\ hand \in Value /\ falling \in Value
    /\ todo \in Seq(MicroStep)

In(s, x) == \E i \in 1..Len(s) : s[i] = x
Distinct(s) == \A i, j \in 1..Len(s) : s[i] = s[j] => i = j

(* What the kinds of values hold, and how far their cleanup has come. *)
HeapSound ==
    /\ \A o \in Object :
          /\ Free(o) => count[o] = 0 /\ fields[o] = <<>>
          /\ Free(o) \/ Live(o) => cursor[o] = 0
          /\ Len(fields[o]) <= MaxWidth /\ cursor[o] <= Len(fields[o])
          /\ kind[o] \in {"LIST", "SCALAR_RECORD"} => fields[o] = <<>>
          /\ kind[o] = "REFERENCES_IMMORTAL" =>
                \A i \in 1..Len(fields[o]) : fields[o][i] \notin Object
          /\ kind[o] = "TEXT" => Len(fields[o]) <= 1
    /\ active # None => activeCursor <= Len(fields[active])

(* The dead values wait in one queue each. *)
QueueSound ==
    /\ Distinct(recent) /\ Distinct(old)
    /\ \A o \in Object :
          /\ ~ (In(recent, o) /\ In(old, o))
          /\ o = active => ~ In(recent, o) /\ ~ In(old, o)
          /\ Dead(o) <=> In(recent, o) \/ In(old, o) \/ o = active

(* The frame whose locals minyar_rc_leave_stack_v1 is dropping. *)
Dropping(f) == todo # <<>> /\ todo[1].do = "dropLocals" /\ todo[1].target = f
Detached(f) == In(frameQueue, f) \/ Dropping(f)

(* A frame is open, or detached and to be visited, or cached, or unused;   *)
(* only an open one has temporaries, and only one that still owns locals   *)
(* has references.                                                         *)
FrameShape(f) ==
    /\ In(stack, f) => ~ Detached(f) /\ ~ In(freeFrames, f)
    /\ Detached(f) => ~ In(freeFrames, f)
    /\ ~ (In(frameQueue, f) /\ Dropping(f))
    /\ Distinct(frame[f].written)
    /\ In(stack, f) =>
          /\ \A i \in Local : In(frame[f].written, i) <=>
                                 i <= frame[f].localCount /\ frame[f].locals[i].tag
          /\ \A i \in Local : ~ In(frame[f].written, i) => frame[f].locals[i].ref = None
    /\ Detached(f) => frame[f].localCount <= Len(frame[f].written)
    /\ ~ In(stack, f) => frame[f].temps = <<>>
    /\ ~ In(stack, f) /\ ~ Detached(f) =>
          frame[f].localCount = 0 /\ \A i \in Local : frame[f].locals[i].ref = None

FrameSound ==
    /\ Distinct(stack) /\ Distinct(frameQueue) /\ Distinct(freeFrames)
    /\ \A f \in Frame : FrameShape(f)

(* A temporary chunk belongs to one open frame, or waits in the queue, or  *)
(* is empty.                                                               *)
ChunkSound ==
    /\ Distinct(chunkQueue)
    /\ \A f \in Frame : Distinct(frame[f].temps)
    /\ \A f \in Frame, c \in Chunk : In(frame[f].temps, c) =>
          /\ ~ In(chunkQueue, c)
          /\ \A g \in Frame : In(frame[g].temps, c) => g = f
    /\ \A c \in Chunk :
          /\ Len(chunk[c]) <= ChunkSlots
          /\ ~ In(chunkQueue, c) /\ (\A f \in Frame : ~ In(frame[f].temps, c)) => chunk[c] = <<>>

(* From step j on the operand in hand is consumed, after at most a poll    *)
(* and a new chunk.                                                        *)
Does(j, name) == j \in 1..Len(todo) /\ todo[j].do = name
Ends(j) ==
    \/ j \in 1..Len(todo) /\ todo[j].do \in Consumes
    \/ Does(j, "chunk") /\ Does(j + 1, "hold")
    \/ Does(j, "service") /\ Does(j + 1, "chunk") /\ Does(j + 2, "hold")

(* The form of a call's remaining steps. *)
StepsFormed ==
    /\ \A i, j \in 1..Len(todo) : i < j =>
          /\ todo[i].do \in Closing => todo[j].do \in {"rest", "service"}
          /\ ~ (todo[i].do \in Fills /\ todo[j].do \in Fills)
          /\ todo[j].do # "dropLocals"
          /\ todo[i].do = "append" /\ todo[j].do = "append" => j >= i + 3
          /\ todo[i].do = "take" /\ todo[j].do \in Targeted => todo[j].target # todo[i].target
          /\ todo[j].do = "grow" => todo[i].do = "service"
    /\ \A i \in 1..Len(todo) :
          /\ todo[i].do \in Acquires => Ends(i + 1)
          /\ todo[i].do = "chunk" => Does(i + 1, "hold")
    /\ hand # None => Ends(1)

(* The register r is filled before step j. *)
Promised(r, k, j) ==
    \E i \in 1..(j - 1) : todo[i].do = "allocate" /\ todo[i].reg = r /\ todo[i].kind = k
Promoted(t, j) == \E i \in 1..(j - 1) : todo[i].do = "references" /\ todo[i].target = t

Length(v) == IF v \in Object THEN Len(fields[v]) ELSE 0

(* What a remaining step takes for granted: that the register it fills is  *)
(* empty, that the value it writes into is of the right kind and has room, *)
(* and that the frame or chunk it needs is there.                          *)
RegisterReady(j) ==
    LET s == todo[j] IN
    /\ s.do = "allocate" => reg[s.reg] = None
    /\ s.do = "result" => reg[s.target] = None

(* The value a step writes into is of the right kind and has room. *)
TargetReady(j) ==
    LET s == todo[j]
        t == At(s.target)
    IN  /\ s.do \in {"references", "append"} =>
              t \in Object \/ (s.target \in Register /\ Promised(s.target, "LIST", j))
        /\ s.do = "references" => (t \in Object => kind[t] \in ListKinds \cup {"LIST"})
        /\ s.do = "append" =>
              /\ Promoted(s.target, j) \/ (t \in Object /\ kind[t] \in ListKinds)
              /\ 3 * Length(t) + (Len(todo) - 1 - j) <= 3 * (MaxWidth - 1)
        /\ s.do = "replace" => kind[t] \in ListKinds /\ s.index \in 1..Len(fields[t])
        /\ s.do = "field" => /\ kind[t] = "RECORD" /\ s.index \in 1..Len(fields[t])
                             /\ fields[t][s.index] = None
        /\ s.do = "backing" => \/ Promised(s.target, "TEXT", j)
                               \/ t \in Object /\ kind[t] = "TEXT" /\ fields[t] = <<>>
        /\ s.do = "grow" => t \in Object /\ count[t] = 1

(* The frame, local or chunk a step needs is there. *)
FrameReady(j) ==
    LET s == todo[j] IN
    /\ s.do \in {"local", "hold", "chunk"} => stack # <<>>
    /\ s.do = "local" => s.index \in 1..frame[Top].localCount
    /\ s.do = "chunk" => UnusedChunks # {}
    /\ s.do = "hold" => \/ j > 1 /\ todo[j - 1].do = "chunk"
                        \/ /\ frame[Top].temps # <<>>
                           /\ Len(chunk[Last(frame[Top].temps)]) < ChunkSlots
    /\ s.do \in {"enter", "enterStack"} => s.index \in 0..MaxLocals
    /\ s.do = "enter" => freeFrames # <<>> \/ UnusedFrames # {}
    /\ s.do = "enterStack" => UnusedFrames # {}
    /\ s.do = "dropLocals" => ~ In(stack, s.target)

StepReady(j) == RegisterReady(j) /\ TargetReady(j) /\ FrameReady(j)

(* A set of values each of which is held where no cleanup reaches it: by   *)
(* the program, by the call in progress, or by a member of the set.        *)
Lasting(s, P) ==
    \/ \E r \in Register : s = <<r, 0>>
    \/ s = <<"hand", 0>>
    \/ \E f \in Frame, i \in Local : In(stack, f) /\ s = <<f, i>>
    \/ \E f \in Frame, c \in Chunk, i \in 1..ChunkSlots :
          In(stack, f) /\ In(frame[f].temps, c) /\ s = <<c, i>>
    \/ \E p \in P, i \in Index : s = <<p, i>>

Supported(P) == \A o \in P : \E s \in Slot : Lasting(s, P) /\ edge[s] = o

(* The values that the remaining steps name. *)
Named(j) ==
    IF todo[j].do = "retain" THEN {todo[j].value}
    ELSE IF todo[j].do \in Targeted THEN {At(todo[j].target)} ELSE {}

(* What the remaining steps name is held, and so survives every poll       *)
(* between them.                                                           *)
OperandsHeld ==
    \E P \in SUBSET Object :
        /\ Supported(P)
        /\ \A j \in 1..Len(todo) : Named(j) \cap Object \subseteq P

StepsSound == StepsFormed /\ (\A j \in 1..Len(todo) : StepReady(j)) /\ OperandsHeld

(* The inductive invariant: the state is sound, and counts are exact. *)
Sound == Typed /\ HeapSound /\ QueueSound /\ FrameSound /\ ChunkSound /\ StepsSound
IInv == Sound /\ CountExact
-----------------------------------------------------------------------------
(***************************************************************************)
(* Slots, and the mortal values they hold.                                 *)
(***************************************************************************)
HandSlot == <<"hand", 0>>
FallingSlot == <<"falling", 0>>

(* Immortal values are not counted. *)
Counted(v) == IF v \in Object THEN v ELSE None

FieldEdge(o, i) ==
    IF Progress(o) < i /\ i <= Len(fields[o]) THEN Counted(fields[o][i]) ELSE None
LocalEdge(f, i) ==
    IF i \in OwnedLocals(f) THEN Counted(frame[f].locals[i].ref) ELSE None
ChunkEdge(c, i) == IF i <= Len(chunk[c]) THEN Counted(chunk[c][i]) ELSE None

(* The slots, each in its form. *)
LEMMA SlotForms ==
    /\ \A r \in Register : <<r, 0>> \in RootSlot
    /\ HandSlot \in RootSlot /\ FallingSlot \in RootSlot
    /\ \A f \in Frame, i \in Local : <<f, i>> \in RootSlot
    /\ \A c \in Chunk, i \in 1..ChunkSlots : <<c, i>> \in RootSlot
    /\ \A o \in Object, i \in Index : <<o, i>> \in Slot
    /\ RootSlot \subseteq Slot
    /\ \A s \in Slot :
          \/ \E r \in Register : s = <<r, 0>>
          \/ s = HandSlot \/ s = FallingSlot
          \/ \E f \in Frame, i \in Local : s = <<f, i>>
          \/ \E c \in Chunk, i \in 1..ChunkSlots : s = <<c, i>>
          \/ \E o \in Object, i \in Index : s = <<o, i>>
  BY DEF Slot, RootSlot, HandSlot, FallingSlot

(* edge, written out for every form of slot. *)
EdgeForms ==
    /\ \A r \in Register : edge[<<r, 0>>] = Counted(reg[r])
    /\ edge[HandSlot] = Counted(hand) /\ edge[FallingSlot] = Counted(falling)
    /\ \A f \in Frame, i \in Local : edge[<<f, i>>] = LocalEdge(f, i)
    /\ \A c \in Chunk, i \in 1..ChunkSlots : edge[<<c, i>>] = ChunkEdge(c, i)
    /\ \A o \in Object, i \in Index : edge[<<o, i>>] = FieldEdge(o, i)
    /\ DOMAIN edge = Slot
    /\ edge = [s \in Slot |-> edge[s]]

LEMMA Forms == EdgeForms
  <1>1. ASSUME NEW s \in Slot PROVE edge[s] = Counted(Held(s))
    BY DEF edge, Mortal, Counted
  <1>2. Counted(None) = None
    BY DEF Counted
  <1>3. ASSUME NEW r \in Register PROVE edge[<<r, 0>>] = Counted(reg[r])
    <2>1. Held(<<r, 0>>) = reg[r]
      <3> DEFINE s == <<r, 0>>
      <3>1. s[1] = r
        OBVIOUS
      <3> HIDE DEF s
      <3>2. s[1] \notin Object /\ s[1] \notin Frame /\ s[1] \notin Chunk
            /\ s[1] \in Register /\ s[1] # "hand" /\ s[1] # "falling"
        BY <3>1, SlotAssumption
      <3>3. Held(s) = reg[s[1]]
        BY <3>2 DEF Held
      <3> QED
        BY <3>1, <3>3 DEF s
    <2> QED
      BY <1>1, <2>1, SlotForms
  <1>4. edge[HandSlot] = Counted(hand)
    <2>1. Held(HandSlot) = hand
      <3>1. HandSlot[1] = "hand"
        BY DEF HandSlot
      <3>2. HandSlot[1] \notin Object /\ HandSlot[1] \notin Frame /\ HandSlot[1] \notin Chunk
            /\ HandSlot[1] \notin Register /\ HandSlot[1] # "falling"
        BY <3>1, SlotAssumption
      <3> QED
        BY <3>1, <3>2 DEF Held
    <2> QED
      BY <1>1, <2>1, SlotForms
  <1>5. edge[FallingSlot] = Counted(falling)
    <2>1. Held(FallingSlot) = falling
      <3>1. FallingSlot[1] = "falling"
        BY DEF FallingSlot
      <3>2. FallingSlot[1] \notin Object /\ FallingSlot[1] \notin Frame
            /\ FallingSlot[1] \notin Chunk
            /\ FallingSlot[1] \notin Register /\ FallingSlot[1] # "hand"
        BY <3>1, SlotAssumption
      <3> QED
        BY <3>1, <3>2 DEF Held
    <2> QED
      BY <1>1, <2>1, SlotForms
  <1>6. ASSUME NEW f \in Frame, NEW i \in Local PROVE edge[<<f, i>>] = LocalEdge(f, i)
    <2>1. Held(<<f, i>>) = IF i \in OwnedLocals(f) THEN frame[f].locals[i].ref ELSE None
      <3> DEFINE s == <<f, i>>
      <3>1. s[1] = f /\ s[2] = i
        OBVIOUS
      <3> HIDE DEF s
      <3>2. s[1] \notin Object /\ s[1] \in Frame /\ s[1] \notin Chunk
            /\ s[1] \notin Register /\ s[1] # "hand" /\ s[1] # "falling"
        BY <3>1, SlotAssumption
      <3>3. Held(s) = IF s[2] \in OwnedLocals(s[1]) THEN frame[s[1]].locals[s[2]].ref ELSE None
        BY <3>2 DEF Held
      <3> QED
        BY <3>1, <3>3 DEF s
    <2> QED
      BY <1>1, <1>2, <2>1, SlotForms DEF LocalEdge
  <1>7. ASSUME NEW c \in Chunk, NEW i \in 1..ChunkSlots PROVE edge[<<c, i>>] = ChunkEdge(c, i)
    <2>1. Held(<<c, i>>) = IF i <= Len(chunk[c]) THEN chunk[c][i] ELSE None
      <3> DEFINE s == <<c, i>>
      <3>1. s[1] = c /\ s[2] = i
        OBVIOUS
      <3> HIDE DEF s
      <3>2. s[1] \notin Object /\ s[1] \notin Frame /\ s[1] \in Chunk
            /\ s[1] \notin Register /\ s[1] # "hand" /\ s[1] # "falling"
        BY <3>1, SlotAssumption
      <3>3. Held(s) = IF s[2] <= Len(chunk[s[1]]) THEN chunk[s[1]][s[2]] ELSE None
        BY <3>2 DEF Held
      <3> QED
        BY <3>1, <3>3 DEF s
    <2> QED
      BY <1>1, <1>2, <2>1, SlotForms DEF ChunkEdge
  <1>8. ASSUME NEW o \in Object, NEW i \in Index PROVE edge[<<o, i>>] = FieldEdge(o, i)
    <2>1. Held(<<o, i>>) = IF Progress(o) < i /\ i <= Len(fields[o]) THEN fields[o][i] ELSE None
      <3> DEFINE s == <<o, i>>
      <3>1. s[1] = o /\ s[2] = i
        OBVIOUS
      <3> HIDE DEF s
      <3>2. s[1] \in Object /\ s[1] \notin Frame /\ s[1] \notin Chunk
            /\ s[1] \notin Register /\ s[1] # "hand" /\ s[1] # "falling"
        BY <3>1, SlotAssumption
      <3>3. Held(s) = IF Progress(s[1]) < s[2] /\ s[2] <= Len(fields[s[1]])
                      THEN fields[s[1]][s[2]] ELSE None
        BY <3>2 DEF Held
      <3> QED
        BY <3>1, <3>3 DEF s
    <2> QED
      BY <1>1, <1>2, <2>1, SlotForms DEF FieldEdge
  <1>9. DOMAIN edge = Slot /\ edge = [s \in Slot |-> edge[s]]
    BY DEF edge
  <1> QED
    BY <1>3, <1>4, <1>5, <1>6, <1>7, <1>8, <1>9 DEF EdgeForms

LEMMA FormsNext == EdgeForms'
  BY Forms, PTL

(* Slots of different forms are different. *)
LEMMA Differ ==
    /\ HandSlot # FallingSlot
    /\ \A r \in Register : <<r, 0>> # HandSlot /\ <<r, 0>> # FallingSlot
    /\ \A f \in Frame : \A i : /\ <<f, i>> # HandSlot /\ <<f, i>> # FallingSlot
                               /\ \A r \in Register : <<f, i>> # <<r, 0>>
    /\ \A c \in Chunk : \A i : /\ <<c, i>> # HandSlot /\ <<c, i>> # FallingSlot
                               /\ \A r \in Register : <<c, i>> # <<r, 0>>
                               /\ \A f \in Frame : \A j : <<c, i>> # <<f, j>>
    /\ \A o \in Object : \A i : /\ <<o, i>> # HandSlot /\ <<o, i>> # FallingSlot
                                /\ \A r \in Register : <<o, i>> # <<r, 0>>
                                /\ \A f \in Frame : \A j : <<o, i>> # <<f, j>>
                                /\ \A c \in Chunk : \A j : <<o, i>> # <<c, j>>
  BY SlotAssumption DEF HandSlot, FallingSlot

LEMMA SlotsAreFinite == IsFiniteSet(Slot)
  <1>1. IsFiniteSet(Local) /\ IsFiniteSet(Index) /\ IsFiniteSet(1..ChunkSlots)
    <2>1. 1 \in Int /\ MaxLocals \in Int /\ MaxWidth \in Int /\ ChunkSlots \in Int
      BY ConstantsAssumption
    <2> QED
      BY <2>1, FS_Interval DEF Local, Index
  <1>2. IsFiniteSet(Frame \X Local) /\ IsFiniteSet(Object \X Index)
    BY <1>1, FS_Product, ConstantsAssumption
  <1>3. IsFiniteSet(Chunk \X (1..ChunkSlots)) /\ IsFiniteSet(Register \X {0})
    <2>1. IsFiniteSet({0})
      BY FS_Singleton
    <2> QED
      BY <1>1, <2>1, FS_Product, ConstantsAssumption
  <1>4. IsFiniteSet({<<"hand", 0>>, <<"falling", 0>>})
    <2>1. {<<"hand", 0>>, <<"falling", 0>>} = {<<"hand", 0>>} \cup {<<"falling", 0>>}
      OBVIOUS
    <2>2. IsFiniteSet({<<"hand", 0>>}) /\ IsFiniteSet({<<"falling", 0>>})
      BY FS_Singleton
    <2> QED
      BY <2>1, <2>2, FS_Union
  <1>5. IsFiniteSet((Frame \X Local) \cup (Chunk \X (1..ChunkSlots)))
    BY <1>2, <1>3, FS_Union
  <1>6. IsFiniteSet((Frame \X Local) \cup (Chunk \X (1..ChunkSlots)) \cup (Register \X {0}))
    BY <1>3, <1>5, FS_Union
  <1>7. IsFiniteSet(RootSlot)
    BY <1>4, <1>6, FS_Union DEF RootSlot
  <1> QED
    BY <1>2, <1>7, FS_Union DEF Slot

(* Finite sets and their sizes, as the contract's proofs use them. *)
LEMMA SameSizes ==
    ASSUME NEW S
    PROVE  (Refs!IsFiniteSet(S) <=> IsFiniteSet(S)) /\ Refs!Cardinality(S) = Cardinality(S)
  <1>1. Refs!IsFiniteSet(S) <=> IsFiniteSet(S)
    BY DEF IsFiniteSet, Refs!IsFiniteSet
  <1>2. Refs!Cardinality(S) = Cardinality(S)
    BY DEF Cardinality, Refs!Cardinality
  <1> QED
    BY <1>1, <1>2

(* The slots of the runtime are those of the contract. *)
LEMMA ReferencesAreSlots ==
    Refs!CountingAssumption /\ Refs!Slot = Slot /\ Refs!EdgeOf(edge) = edge
  <1>1. Refs!Slot = Slot
    BY DEF Refs!Slot, Refs!Field, Slot
  <1>2. Refs!OwnershipAssumption
    BY ConstantsAssumption, SlotAssumption DEF Refs!OwnershipAssumption, RootSlot
  <1>3. Refs!EdgeOf(edge) = edge
    BY <1>1 DEF Refs!EdgeOf, edge, Mortal
  <1>4. IsFiniteSet(Refs!Slot)
    BY <1>1, SlotsAreFinite
  <1>5. Refs!IsFiniteSet(Refs!Slot)
    BY <1>4, SameSizes
  <1> QED
    BY <1>1, <1>2, <1>3, <1>5 DEF Refs!CountingAssumption

(* A step changes what the slots in E hold, and no other slot. *)
SameFields(E) ==
    \A o \in Object, i \in Index : <<o, i>> \notin E => FieldEdge(o, i)' = FieldEdge(o, i)
SameLocals(E) ==
    \A f \in Frame, i \in Local : <<f, i>> \notin E => LocalEdge(f, i)' = LocalEdge(f, i)
SameChunks(E) ==
    \A c \in Chunk, i \in 1..ChunkSlots :
        <<c, i>> \notin E => ChunkEdge(c, i)' = ChunkEdge(c, i)
SameRegisters(E) ==
    \A r \in Register : <<r, 0>> \notin E => Counted(reg'[r]) = Counted(reg[r])
SameEdges(E) == \A s \in Slot \ E : edge'[s] = edge[s]

(* A step that changes the slots in E only, part by part. *)
LEMMA OthersKept ==
    ASSUME NEW E, SameFields(E), SameLocals(E), SameChunks(E), SameRegisters(E),
           HandSlot \notin E => Counted(hand') = Counted(hand),
           FallingSlot \notin E => Counted(falling') = Counted(falling)
    PROVE  SameEdges(E)
  <1> SUFFICES ASSUME NEW s \in Slot, s \notin E PROVE edge'[s] = edge[s]
    BY DEF SameEdges
  <1> USE Forms, FormsNext DEF EdgeForms
  <1>1. CASE \E r \in Register : s = <<r, 0>>
    BY <1>1 DEF SameRegisters
  <1>2. CASE s = HandSlot
    BY <1>2
  <1>3. CASE s = FallingSlot
    BY <1>3
  <1>4. CASE \E f \in Frame, i \in Local : s = <<f, i>>
    BY <1>4 DEF SameLocals
  <1>5. CASE \E c \in Chunk, i \in 1..ChunkSlots : s = <<c, i>>
    BY <1>5 DEF SameChunks
  <1>6. CASE \E o \in Object, i \in Index : s = <<o, i>>
    BY <1>6 DEF SameFields
  <1> QED
    BY <1>1, <1>2, <1>3, <1>4, <1>5, <1>6, SlotForms

LEMMA FieldsUnchanged ==
    ASSUME UNCHANGED <<fields, cursor, active, activeCursor>>, NEW E
    PROVE  SameFields(E)
  BY DEF SameFields, FieldEdge, Progress

LEMMA LocalsUnchanged ==
    ASSUME UNCHANGED <<frame, stack>>, NEW E
    PROVE  SameLocals(E)
  BY DEF SameLocals, LocalEdge, OwnedLocals

LEMMA ChunksUnchanged ==
    ASSUME UNCHANGED chunk, NEW E
    PROVE  SameChunks(E)
  BY DEF SameChunks, ChunkEdge

LEMMA RegistersUnchanged ==
    ASSUME UNCHANGED reg, NEW E
    PROVE  SameRegisters(E)
  BY DEF SameRegisters
-----------------------------------------------------------------------------
(***************************************************************************)
(* Sequences as queues and stacks.                                         *)
(***************************************************************************)
LEMMA ToSetIn ==
    ASSUME NEW S, NEW s \in Seq(S)
    PROVE  /\ \A x : x \in ToSet(s) <=> In(s, x)
           /\ \A x : In(s, x) => x \in S
           /\ \A i \in 1..Len(s) : s[i] \in S /\ In(s, s[i])
           /\ Len(s) \in Nat
           /\ s = <<>> <=> Len(s) = 0
           /\ s = <<>> => \A x : ~ In(s, x)
           /\ s # <<>> => In(s, s[1]) /\ Len(s) >= 1
  <1>1. Len(s) \in Nat /\ DOMAIN s = 1..Len(s) /\ \A i \in 1..Len(s) : s[i] \in S
    BY ElementOfSeq
  <1>2. s = <<>> <=> Len(s) = 0
    BY EmptySeq
  <1> QED
    BY <1>1, <1>2 DEF ToSet, In

LEMMA TailFacts ==
    ASSUME NEW S, NEW s \in Seq(S), s # <<>>
    PROVE  /\ Tail(s) \in Seq(S) /\ Len(Tail(s)) = Len(s) - 1 /\ Len(s) \in Nat \ {0}
           /\ s[1] \in S
           /\ \A i \in 1..(Len(s) - 1) : Tail(s)[i] = s[i + 1]
           /\ \A x : In(s, x) <=> x = s[1] \/ In(Tail(s), x)
           /\ Distinct(s) => Distinct(Tail(s)) /\ ~ In(Tail(s), s[1])
  <1>1. Len(s) \in Nat \ {0} /\ s[1] \in S
    BY EmptySeq
  <1>2. /\ Tail(s) \in Seq(S) /\ Len(Tail(s)) = Len(s) - 1
        /\ \A i \in 1..(Len(s) - 1) : Tail(s)[i] = s[i + 1]
    BY <1>1
  <1>3. ASSUME NEW x PROVE In(s, x) <=> x = s[1] \/ In(Tail(s), x)
    <2>1. ASSUME NEW i \in 1..Len(s), s[i] = x PROVE x = s[1] \/ In(Tail(s), x)
      <3>1. CASE i = 1
        BY <2>1, <3>1
      <3>2. CASE i # 1
        <4>1. i - 1 \in 1..(Len(s) - 1) /\ Tail(s)[i - 1] = s[i]
          BY <1>1, <1>2, <3>2
        <4> QED
          BY <1>2, <2>1, <4>1 DEF In
      <3> QED
        BY <3>1, <3>2
    <2>2. ASSUME NEW i \in 1..(Len(s) - 1), Tail(s)[i] = x PROVE In(s, x)
      <3>1. i + 1 \in 1..Len(s) /\ s[i + 1] = x
        BY <1>1, <1>2, <2>2
      <3> QED
        BY <3>1 DEF In
    <2>3. 1 \in 1..Len(s)
      BY <1>1
    <2> QED
      BY <1>2, <2>1, <2>2, <2>3 DEF In
  <1>4. ASSUME Distinct(s) PROVE Distinct(Tail(s)) /\ ~ In(Tail(s), s[1])
    BY <1>1, <1>2, <1>4 DEF Distinct, In
  <1> QED
    BY <1>1, <1>2, <1>3, <1>4

LEMMA PushFacts ==
    ASSUME NEW S, NEW s \in Seq(S), NEW v \in S
    PROVE  /\ <<v>> \o s \in Seq(S) /\ Len(<<v>> \o s) = Len(s) + 1 /\ Len(s) \in Nat
           /\ <<v>> \o s # <<>>
           /\ (<<v>> \o s)[1] = v
           /\ \A i \in 1..Len(s) : (<<v>> \o s)[i + 1] = s[i]
           /\ \A x : In(<<v>> \o s, x) <=> x = v \/ In(s, x)
           /\ Distinct(s) /\ ~ In(s, v) => Distinct(<<v>> \o s)
           /\ Tail(<<v>> \o s) = s
  <1> DEFINE t == <<v>> \o s
  <1>1. /\ t \in Seq(S) /\ Len(t) = Len(s) + 1 /\ Len(s) \in Nat /\ t # <<>>
        /\ t[1] = v /\ \A i \in 1..Len(s) : t[i + 1] = s[i]
    OBVIOUS
  <1> HIDE DEF t
  <1>2. Tail(t) = s
    <2>1. Tail(t) \in Seq(S) /\ Len(Tail(t)) = Len(s) /\ \A i \in 1..Len(s) : Tail(t)[i] = s[i]
      BY <1>1, TailFacts
    <2> QED
      BY <2>1, SeqEqual
  <1>3. \A x : In(t, x) <=> x = v \/ In(s, x)
    BY <1>1, <1>2, TailFacts
  <1>4. ASSUME Distinct(s), ~ In(s, v) PROVE Distinct(t)
    <2> SUFFICES ASSUME NEW i \in 1..Len(t), NEW j \in 1..Len(t), t[i] = t[j] PROVE i = j
      BY DEF Distinct
    <2>1. ASSUME NEW k \in 1..Len(t), k # 1
          PROVE  k - 1 \in 1..Len(s) /\ t[k] = s[k - 1] /\ t[k] # v
      <3>1. k - 1 \in 1..Len(s)
        BY <1>1, <2>1
      <3>2. t[(k - 1) + 1] = s[k - 1]
        BY <1>1, <3>1
      <3> QED
        BY <1>1, <1>4, <3>1, <3>2 DEF In
    <2>2. CASE i = 1
      BY <1>1, <2>1, <2>2
    <2>3. CASE i # 1
      <3>1. j # 1 /\ s[i - 1] = s[j - 1] /\ i - 1 \in 1..Len(s) /\ j - 1 \in 1..Len(s)
        BY <1>1, <2>1, <2>3
      <3>2. i - 1 = j - 1
        BY <1>4, <3>1 DEF Distinct
      <3> QED
        BY <3>2
    <2> QED
      BY <2>2, <2>3
  <1> QED
    BY <1>1, <1>2, <1>3, <1>4 DEF t

LEMMA AppendFacts ==
    ASSUME NEW S, NEW s \in Seq(S), NEW v \in S
    PROVE  /\ Append(s, v) \in Seq(S) /\ Len(Append(s, v)) = Len(s) + 1 /\ Len(s) \in Nat
           /\ Append(s, v) # <<>>
           /\ Append(s, v)[Len(s) + 1] = v
           /\ \A i \in 1..Len(s) : Append(s, v)[i] = s[i]
           /\ \A x : In(Append(s, v), x) <=> x = v \/ In(s, x)
           /\ Distinct(s) /\ ~ In(s, v) => Distinct(Append(s, v))
  <1> DEFINE t == Append(s, v)
  <1>1. /\ t \in Seq(S) /\ Len(t) = Len(s) + 1 /\ Len(s) \in Nat /\ t # <<>>
        /\ t[Len(s) + 1] = v /\ \A i \in 1..Len(s) : t[i] = s[i]
    OBVIOUS
  <1> HIDE DEF t
  <1>2. ASSUME NEW k \in 1..Len(t), k # Len(s) + 1 PROVE k \in 1..Len(s) /\ t[k] = s[k]
    BY <1>1, <1>2
  <1>3. ASSUME NEW x PROVE In(t, x) <=> x = v \/ In(s, x)
    <2>1. In(t, x) => x = v \/ In(s, x)
      BY <1>1, <1>2 DEF In
    <2>2. In(s, x) => In(t, x)
      BY <1>1 DEF In
    <2>3. In(t, v)
      BY <1>1 DEF In
    <2> QED
      BY <2>1, <2>2, <2>3
  <1>4. ASSUME Distinct(s), ~ In(s, v) PROVE Distinct(t)
    BY <1>1, <1>2, <1>4 DEF Distinct, In
  <1> QED
    BY <1>1, <1>3, <1>4 DEF t

LEMMA ConcatFacts ==
    ASSUME NEW S, NEW s \in Seq(S), NEW t \in Seq(S)
    PROVE  /\ s \o t \in Seq(S) /\ Len(s \o t) = Len(s) + Len(t)
           /\ \A x : In(s \o t, x) <=> In(s, x) \/ In(t, x)
           /\ Distinct(s) /\ Distinct(t) /\ (\A x : ~ (In(s, x) /\ In(t, x))) => Distinct(s \o t)
  <1> DEFINE u == s \o t
  <1>1. /\ u \in Seq(S) /\ Len(u) = Len(s) + Len(t) /\ Len(s) \in Nat /\ Len(t) \in Nat
        /\ \A i \in 1..Len(s) : u[i] = s[i]
        /\ \A i \in 1..Len(t) : u[Len(s) + i] = t[i]
    OBVIOUS
  <1> HIDE DEF u
  <1>2. ASSUME NEW k \in 1..Len(u)
        PROVE  \/ k \in 1..Len(s) /\ u[k] = s[k] /\ In(s, u[k])
               \/ k - Len(s) \in 1..Len(t) /\ u[k] = t[k - Len(s)] /\ In(t, u[k])
    <2>1. CASE k <= Len(s)
      BY <1>1, <2>1 DEF In
    <2>2. CASE k > Len(s)
      <3>1. k - Len(s) \in 1..Len(t) /\ Len(s) + (k - Len(s)) = k
        BY <1>1, <2>2
      <3>2. u[k] = t[k - Len(s)]
        BY <1>1, <3>1
      <3> QED
        BY <3>1, <3>2 DEF In
    <2> QED
      BY <1>1, <2>1, <2>2
  <1>3. ASSUME NEW x PROVE In(u, x) <=> In(s, x) \/ In(t, x)
    <2>1. In(u, x) => In(s, x) \/ In(t, x)
      BY <1>2 DEF In
    <2>2. In(s, x) => In(u, x)
      BY <1>1 DEF In
    <2>3. ASSUME NEW i \in 1..Len(t), t[i] = x PROVE In(u, x)
      <3>1. Len(s) + i \in 1..Len(u)
        BY <1>1
      <3> QED
        BY <1>1, <2>3, <3>1 DEF In
    <2> QED
      BY <2>1, <2>2, <2>3 DEF In
  <1>4. ASSUME Distinct(s), Distinct(t), \A x : ~ (In(s, x) /\ In(t, x)) PROVE Distinct(u)
    <2> SUFFICES ASSUME NEW i \in 1..Len(u), NEW j \in 1..Len(u), u[i] = u[j] PROVE i = j
      BY DEF Distinct
    <2>1. CASE i \in 1..Len(s) /\ u[i] = s[i] /\ In(s, u[i])
      BY ZenonT(120), <1>1, <1>2, <1>4, <2>1 DEF Distinct
    <2>2. CASE i - Len(s) \in 1..Len(t) /\ u[i] = t[i - Len(s)] /\ In(t, u[i])
      <3>1. j - Len(s) \in 1..Len(t) /\ u[j] = t[j - Len(s)]
        BY <1>2, <1>4, <2>2
      <3>2. i - Len(s) = j - Len(s)
        BY <1>4, <2>2, <3>1 DEF Distinct
      <3> QED
        BY <1>1, <3>2
    <2> QED
      BY <1>2, <2>1, <2>2
  <1> QED
    BY <1>1, <1>3, <1>4 DEF u

LEMMA FrontFacts ==
    ASSUME NEW S, NEW s \in Seq(S), s # <<>>
    PROVE  /\ Front(s) \in Seq(S) /\ Len(Front(s)) = Len(s) - 1 /\ Len(s) \in Nat \ {0}
           /\ Last(s) \in S /\ Last(s) = s[Len(s)] /\ In(s, Last(s))
           /\ \A i \in 1..(Len(s) - 1) : Front(s)[i] = s[i]
  <1>1. Len(s) \in Nat \ {0}
    BY EmptySeq
  <1> DEFINE n == Len(s) - 1
  <1>2. n \in Nat /\ n <= Len(s) /\ 1 \in 1..(Len(s) + 1) /\ Front(s) = SubSeq(s, 1, n)
    BY <1>1 DEF Front
  <1>3. /\ SubSeq(s, 1, n) \in Seq(S)
        /\ Len(SubSeq(s, 1, n)) = IF 1 <= n THEN n - 1 + 1 ELSE 0
        /\ \A i \in 1..(n - 1 + 1) : SubSeq(s, 1, n)[i] = s[1 + i - 1]
    <2>1. \A i \in 1..n : s[i] \in S
      BY <1>1
    <2> QED
      BY <1>2, <2>1, SubSeqProperties
  <1>4. /\ Front(s) \in Seq(S) /\ Len(Front(s)) = n
        /\ \A i \in 1..n : Front(s)[i] = s[i]
    <2>1. Front(s) \in Seq(S) /\ Len(Front(s)) = IF 1 <= n THEN n - 1 + 1 ELSE 0
      BY <1>2, <1>3
    <2>2. Len(Front(s)) = n
      <3> HIDE DEF n
      <3> QED
        BY ONLY <1>2, <2>1
    <2>3. ASSUME NEW i \in 1..n PROVE Front(s)[i] = s[i]
      <3>1. i \in 1..(n - 1 + 1) /\ 1 + i - 1 = i
        BY <1>2
      <3>2. SubSeq(s, 1, n)[i] = s[1 + i - 1]
        BY <1>3, <3>1
      <3> QED
        BY <1>2, <3>1, <3>2
    <2> QED
      BY <2>1, <2>2, <2>3
  <1>5. Last(s) \in S /\ Last(s) = s[Len(s)] /\ In(s, Last(s))
    BY <1>1 DEF Last, In
  <1> QED
    BY <1>1, <1>4, <1>5
-----------------------------------------------------------------------------
(***************************************************************************)
(* What the invariant says of values that are held.                        *)
(***************************************************************************)
Counts == CountExact <=> Refs!Exact(edge, count)

(* CountExact is the exactness that the steps of the contract keep. *)
LEMMA CountsExactly == Counts
  <1>1. Refs!Slot = Slot
    BY ReferencesAreSlots
  <1>2. ASSUME NEW o \in Object
        PROVE  Refs!Cardinality(Refs!Holders(edge, o)) = Cardinality(Owners(o))
    <2>1. Refs!Holders(edge, o) = Owners(o)
      BY <1>1 DEF Refs!Holders, Owners
    <2> QED
      BY <2>1, SameSizes
  <1> QED
    BY <1>2 DEF Counts, CountExact, Refs!Exact

LEMMA CountsNext == Counts'
  BY CountsExactly, PTL

(* What a slot holds is counted, and counted as often as it is held. *)
LEMMA EdgeFacts ==
    ASSUME IInv, NEW o \in Object
    PROVE  /\ count[o] \in Nat
           /\ \A s \in Slot : edge[s] = o => count[o] > 0
           /\ \A s, t \in Slot : s # t /\ edge[s] = o /\ edge[t] = o => count[o] > 1
  <1>1. Refs!Exact(edge, count)
    BY CountsExactly DEF Counts, IInv
  <1>2. Refs!IsFiniteSet(Refs!Slot) /\ Refs!Slot = Slot
    BY ReferencesAreSlots DEF Refs!CountingAssumption
  <1>3. /\ count[o] \in Nat
        /\ \A s \in Refs!Slot : edge[s] = o => count[o] > 0
        /\ \A s, t \in Refs!Slot : s # t /\ edge[s] = o /\ edge[t] = o => count[o] > 1
    BY <1>1, <1>2, Refs!HolderFacts
  <1> QED
    BY <1>2, <1>3

(* A live value is in no queue, and has all its fields. *)
LEMMA LiveFacts ==
    ASSUME Sound, NEW o \in Object, count[o] > 0
    PROVE  /\ kind[o] # "FREE" /\ cursor[o] = 0 /\ Progress(o) = 0
           /\ ~ In(recent, o) /\ ~ In(old, o) /\ o # active
           /\ status[o] = "live"
  <1>1. count[o] \in Nat /\ count[o] # 0
    BY DEF Sound, Typed
  <1>2. kind[o] # "FREE" /\ cursor[o] = 0
    BY <1>1 DEF Sound, HeapSound, Free, Live
  <1>3. ~ Dead(o)
    BY <1>1 DEF Dead
  <1>4. ~ In(recent, o) /\ ~ In(old, o) /\ o # active
    BY <1>3 DEF Sound, QueueSound
  <1> QED
    BY <1>2, <1>4 DEF Progress, status, Free, Live

(* What is held is alive. *)
LEMMA SupportedLive ==
    ASSUME IInv, NEW P, P \subseteq Object, Supported(P), NEW o \in P
    PROVE  count[o] > 0
  BY EdgeFacts DEF Supported
-----------------------------------------------------------------------------
(***************************************************************************)
(* The remaining steps of a call.                                          *)
(***************************************************************************)
LEMMA StepTypes ==
    ASSUME NEW s \in MicroStep
    PROVE  /\ s.do = "allocate" => /\ s.reg \in Register /\ s.kind \in NewKinds
                                   /\ s.length \in 0..MaxWidth
                                   /\ s.kind = "RECORD" \/ s.length = 0
           /\ s.do = "service" => s.budget \in Int
           /\ s.do = "retain" => s.value \in Value
           /\ s.do \in {"result", "take", "release", "backing", "grow"} =>
                 s.target \in Register
           /\ s.do \in {"append", "references"} => s.target \in Register \cup Object
           /\ s.do \in {"replace", "field"} => s.target \in Object
           /\ s.do = "dropLocals" => s.target \in Frame
           /\ s.do \in Targeted => s.target \in Register \cup Object
           /\ s.do \in Targeted \cup {"local", "enter", "enterStack"} => s.index \in Nat
  BY ConstantsAssumption DEF MicroStep, Targeted, NewKinds

LEMMA StepForms ==
    /\ \A k \in {"rest", "chunk", "hold", "stop"} : Op(k) \in MicroStep
    /\ \A b \in Int : Service(b) \in MicroStep
    /\ \A r \in Register, n \in 0..MaxWidth : Allocate(r, "RECORD", n) \in MicroStep
    /\ \A r \in Register, k \in NewKinds : Allocate(r, k, 0) \in MicroStep
    /\ \A v \in Value : Retain(v) \in MicroStep
    /\ \A k \in {"result", "take", "release", "backing", "grow"}, r \in Register, i \in Nat :
          Into(k, r, i) \in MicroStep
    /\ \A k \in {"append", "references"}, t \in Register \cup Object, i \in Nat :
          Into(k, t, i) \in MicroStep
    /\ \A k \in {"replace", "field"}, t \in Object, i \in Nat : Into(k, t, i) \in MicroStep
    /\ \A k \in {"local", "enter", "enterStack"}, i \in Nat : Into(k, None, i) \in MicroStep
    /\ \A f \in Frame, i \in Nat : Into("dropLocals", f, i) \in MicroStep
  <1>1. /\ \A k \in {"rest", "chunk", "hold", "stop"} : Op(k) \in MicroStep
        /\ \A b \in Int : Service(b) \in MicroStep
    BY DEF MicroStep, Op, Service
  <1>2. /\ \A r \in Register, n \in 0..MaxWidth : Allocate(r, "RECORD", n) \in MicroStep
        /\ \A r \in Register, k \in NewKinds : Allocate(r, k, 0) \in MicroStep
    BY DEF MicroStep, Allocate
  <1>3. \A v \in Value : Retain(v) \in MicroStep
    BY DEF MicroStep, Retain
  <1>4. \A k \in {"result", "take", "release", "backing", "grow"}, r \in Register, i \in Nat :
          Into(k, r, i) \in MicroStep
    BY DEF MicroStep, Into
  <1>5. \A k \in {"append", "references"}, t \in Register \cup Object, i \in Nat :
          Into(k, t, i) \in MicroStep
    BY DEF MicroStep, Into
  <1>6. \A k \in {"replace", "field"}, t \in Object, i \in Nat : Into(k, t, i) \in MicroStep
    BY DEF MicroStep, Into
  <1>7. \A k \in {"local", "enter", "enterStack"}, i \in Nat : Into(k, None, i) \in MicroStep
    BY DEF MicroStep, Into
  <1>8. \A f \in Frame, i \in Nat : Into("dropLocals", f, i) \in MicroStep
    BY DEF MicroStep, Into
  <1> QED
    BY <1>1, <1>2, <1>3, <1>4, <1>5, <1>6, <1>7, <1>8

(* A machine step leaves the remaining steps alone, or performs the first. *)
Ahead(d) ==
    /\ d \in {0, 1}
    /\ Len(todo) \in Nat /\ Len(todo') = Len(todo) - d
    /\ \A j \in 1..Len(todo') : todo'[j] = todo[j + d] /\ j + d \in 1..Len(todo)

(* A step of a call takes the head of todo; a unit of a poll leaves todo   *)
(* alone.                                                                  *)
LEMMA AheadForms ==
    ASSUME todo \in Seq(MicroStep)
    PROVE  /\ todo' = todo => Ahead(0)
           /\ todo # <<>> /\ todo' = Tail(todo) =>
                 Ahead(1) /\ todo' \in Seq(MicroStep) /\ 1 \in 1..Len(todo)
  <1>1. Len(todo) \in Nat
    OBVIOUS
  <1>2. ASSUME todo # <<>>, todo' = Tail(todo)
        PROVE  Ahead(1) /\ todo' \in Seq(MicroStep) /\ 1 \in 1..Len(todo)
    <2>1. /\ Tail(todo) \in Seq(MicroStep) /\ Len(Tail(todo)) = Len(todo) - 1
          /\ Len(todo) \in Nat \ {0}
          /\ \A i \in 1..(Len(todo) - 1) : Tail(todo)[i] = todo[i + 1]
      BY <1>2, TailFacts
    <2> QED
      BY <1>2, <2>1 DEF Ahead
  <1>3. ASSUME todo' = todo PROVE Ahead(0)
    BY <1>1, <1>3 DEF Ahead
  <1> QED
    BY <1>2, <1>3

LEMMA EndsAhead ==
    ASSUME NEW d, Ahead(d), NEW j \in Nat \ {0}, Ends(j + d)
    PROVE  Ends(j)'
  <1>1. d \in {0, 1} /\ Len(todo) \in Nat /\ Len(todo') = Len(todo) - d
        /\ \A i \in 1..Len(todo') : todo'[i] = todo[i + d]
    BY DEF Ahead
  <1>2. \A i \in Nat \ {0} : i + d \in 1..Len(todo) => i \in 1..Len(todo') /\ todo'[i] = todo[i + d]
    BY <1>1
  <1>3. \A i \in Nat \ {0} : \A name : Does(i + d, name) => Does(i, name)'
    BY <1>2 DEF Does
  <1>4. CASE j + d \in 1..Len(todo) /\ todo[j + d].do \in Consumes
    BY <1>2, <1>4 DEF Ends
  <1>5. CASE Does(j + d, "chunk") /\ Does(j + d + 1, "hold")
    <2>1. j + 1 \in Nat \ {0} /\ j + d + 1 = (j + 1) + d
      BY <1>1
    <2> QED
      BY <1>3, <1>5, <2>1 DEF Ends
  <1>6. CASE Does(j + d, "service") /\ Does(j + d + 1, "chunk") /\ Does(j + d + 2, "hold")
    <2>1. j + 1 \in Nat \ {0} /\ j + d + 1 = (j + 1) + d
          /\ j + 2 \in Nat \ {0} /\ j + d + 2 = (j + 2) + d
      BY <1>1
    <2> QED
      BY <1>3, <1>6, <2>1 DEF Ends
  <1> QED
    BY <1>4, <1>5, <1>6 DEF Ends

(* The form of the remaining steps survives taking the first. *)
LEMMA FormedAhead ==
    ASSUME NEW d, Ahead(d), StepsFormed, hand' # None => Ends(1)'
    PROVE  StepsFormed'
  <1>1. d \in {0, 1} /\ Len(todo) \in Nat /\ Len(todo') = Len(todo) - d
        /\ \A i \in 1..Len(todo') : todo'[i] = todo[i + d] /\ i + d \in 1..Len(todo)
    BY DEF Ahead
  <1>2. ASSUME NEW i \in 1..Len(todo'), NEW j \in 1..Len(todo'), i < j
        PROVE  /\ todo'[i].do \in Closing => todo'[j].do \in {"rest", "service"}
               /\ ~ (todo'[i].do \in Fills /\ todo'[j].do \in Fills)
               /\ todo'[j].do # "dropLocals"
               /\ todo'[i].do = "append" /\ todo'[j].do = "append" => j >= i + 3
               /\ todo'[i].do = "take" /\ todo'[j].do \in Targeted => todo'[j].target # todo'[i].target
               /\ todo'[j].do = "grow" => todo'[i].do = "service"
    <2>1. i + d \in 1..Len(todo) /\ j + d \in 1..Len(todo) /\ i + d < j + d
          /\ todo'[i] = todo[i + d] /\ todo'[j] = todo[j + d]
      BY <1>1, <1>2
    <2>2. /\ todo[i + d].do \in Closing => todo[j + d].do \in {"rest", "service"}
          /\ ~ (todo[i + d].do \in Fills /\ todo[j + d].do \in Fills)
          /\ todo[j + d].do # "dropLocals"
          /\ todo[i + d].do = "append" /\ todo[j + d].do = "append" => j + d >= i + d + 3
          /\ todo[i + d].do = "take" /\ todo[j + d].do \in Targeted
                => todo[j + d].target # todo[i + d].target
          /\ todo[j + d].do = "grow" => todo[i + d].do = "service"
      BY <2>1 DEF StepsFormed
    <2>3. j + d >= i + d + 3 => j >= i + 3
      BY <1>1
    <2> QED
      BY <2>1, <2>2, <2>3
  <1>3. ASSUME NEW i \in 1..Len(todo')
        PROVE  /\ todo'[i].do \in Acquires => Ends(i + 1)'
               /\ todo'[i].do = "chunk" => Does(i + 1, "hold")'
    <2>1. i + d \in 1..Len(todo) /\ todo'[i] = todo[i + d]
      BY <1>1, <1>3
    <2>2. /\ todo'[i].do \in Acquires => Ends(i + d + 1)
          /\ todo'[i].do = "chunk" => Does(i + d + 1, "hold")
      BY <2>1 DEF StepsFormed
    <2>3. i + 1 \in Nat \ {0} /\ i + d + 1 = (i + 1) + d
      BY <1>1, <1>3
    <2>4. Does((i + 1) + d, "hold") => Does(i + 1, "hold")'
      BY <1>1, <2>3 DEF Does
    <2> QED
      BY <2>2, <2>3, <2>4, EndsAhead
  <1> QED
    BY <1>2, <1>3 DEF StepsFormed

(* When only polls are left, nothing is taken for granted.                 *)
LEMMA StepsOver ==
    ASSUME hand' = None,
           \A j \in 1..Len(todo') : todo'[j].do \in {"rest", "service", "stop"}
    PROVE  StepsSound'
  <1>1. StepsFormed'
    BY DEF StepsFormed, Closing, Fills, Acquires, Targeted
  <1>2. \A j \in 1..Len(todo') : StepReady(j)'
    BY DEF StepReady, RegisterReady, TargetReady, FrameReady
  <1>3. Supported({})'
    BY DEF Supported
  <1>4. \A j \in 1..Len(todo') : (Named(j) \cap Object \subseteq {})'
    BY DEF Named, Targeted
  <1>5. OperandsHeld'
    BY <1>3, <1>4 DEF OperandsHeld
  <1> QED
    BY <1>1, <1>2, <1>5 DEF StepsSound

(* After a step that closes its call.                                      *)
LEMMA CallCloses ==
    ASSUME Typed, StepsFormed, todo # <<>>, todo' = Tail(todo),
           todo[1].do \in Closing, hand' = None
    PROVE  StepsSound'
  <1>1. Ahead(1) /\ 1 \in 1..Len(todo)
    BY AheadForms DEF Typed
  <1>2. ASSUME NEW j \in 1..Len(todo') PROVE todo'[j].do \in {"rest", "service", "stop"}
    <2>1. todo'[j] = todo[j + 1] /\ j + 1 \in 1..Len(todo) /\ 1 < j + 1
      BY <1>1, <1>2 DEF Ahead
    <2> QED
      BY <1>1, <2>1 DEF StepsFormed
  <1> QED
    BY <1>2, StepsOver
(* The values that the steps name, in a set that supports itself.          *)
NamedIn(P) == \A j \in 1..Len(todo) : Named(j) \cap Object \subseteq P

(* What is named stays what it is.                                         *)
SteadyTargets ==
    \A j \in 1..Len(todo') :
        todo'[j].do \in Targeted => At(todo[j].target)' = At(todo'[j].target)
SteadyRegisters == \A r \in Register : reg[r] = None => reg'[r] = None
NoGrowth == \A j \in 1..Len(todo) : todo[j].do # "grow"
SteadyValues(P) ==
    \A o \in P : /\ kind'[o] = kind[o] /\ fields'[o] = fields[o]
                 /\ (count[o] = 1 => count'[o] = 1) \/ NoGrowth'
SteadyFrames ==
    /\ stack' = stack
    /\ stack # <<>> =>
          /\ frame'[Top].localCount = frame[Top].localCount
          /\ frame'[Top].temps = frame[Top].temps
          /\ frame[Top].temps # <<>> =>
                chunk'[Last(frame[Top].temps)] = chunk[Last(frame[Top].temps)]
    /\ UnusedChunks # {} => UnusedChunks' # {}
    /\ UnusedFrames \subseteq UnusedFrames'
    /\ freeFrames # <<>> => freeFrames' # <<>>

LEMMA NamesAhead ==
    ASSUME NEW d, Ahead(d), SteadyTargets, NEW P, NamedIn(P)
    PROVE  NamedIn(P)'
  <1> SUFFICES ASSUME NEW j \in 1..Len(todo')
               PROVE  (Named(j) \cap Object \subseteq P)'
    BY DEF NamedIn
  <1>1. todo'[j] = todo[j + d] /\ j + d \in 1..Len(todo)
    BY DEF Ahead
  <1>2. Named(j)' = Named(j + d)
    BY <1>1 DEF Named, SteadyTargets
  <1> QED
    BY <1>1, <1>2 DEF NamedIn

LEMMA PromisesAhead ==
    ASSUME NEW d, Ahead(d), NEW j \in 1..Len(todo')
    PROVE  /\ d = 0 \/ todo[1].do # "allocate" =>
                 \A r, k : Promised(r, k, j + d) => Promised(r, k, j)'
           /\ d = 0 \/ todo[1].do # "references" =>
                 \A t : Promoted(t, j + d) => Promoted(t, j)'
  <1>1. d \in {0, 1} /\ Len(todo) \in Nat /\ Len(todo') = Len(todo) - d
        /\ \A i \in 1..Len(todo') : todo'[i] = todo[i + d] /\ i + d \in 1..Len(todo)
    BY DEF Ahead
  <1>2. ASSUME NEW i \in 1..(j + d - 1), ~ (d = 1 /\ i = 1)
        PROVE  i - d \in 1..(j - 1) /\ todo'[i - d] = todo[i]
    <2>1. i - d \in 1..(j - 1) /\ i - d \in 1..Len(todo') /\ (i - d) + d = i
      BY <1>1, <1>2
    <2> QED
      BY <1>1, <2>1
  <1>3. ASSUME d = 0 \/ todo[1].do # "allocate", NEW r, NEW k, Promised(r, k, j + d)
        PROVE  Promised(r, k, j)'
    <2>1. PICK i \in 1..(j + d - 1) :
              todo[i].do = "allocate" /\ todo[i].reg = r /\ todo[i].kind = k
      BY <1>1, <1>3 DEF Promised
    <2>2. i - d \in 1..(j - 1) /\ todo'[i - d] = todo[i]
      BY <1>1, <1>2, <1>3, <2>1
    <2> QED
      BY <2>1, <2>2 DEF Promised
  <1>4. ASSUME d = 0 \/ todo[1].do # "references", NEW t, Promoted(t, j + d)
        PROVE  Promoted(t, j)'
    <2>1. PICK i \in 1..((j + d) - 1) : todo[i].do = "references" /\ todo[i].target = t
      BY ONLY <1>4 DEF Promoted
    <2>2. i - d \in 1..(j - 1) /\ todo'[i - d] = todo[i]
      BY <1>1, <1>2, <1>4, <2>1
    <2> QED
      BY <2>1, <2>2 DEF Promoted
  <1> QED
    BY <1>3, <1>4

LEMMA RegistersAhead ==
    ASSUME NEW d, Ahead(d), SteadyRegisters, Typed,
           NEW j \in 1..Len(todo'), RegisterReady(j + d)
    PROVE  RegisterReady(j)'
  <1>1. todo'[j] = todo[j + d] /\ j + d \in 1..Len(todo)
    BY DEF Ahead
  <1>2. todo[j + d] \in MicroStep
    BY <1>1 DEF Typed
  <1> DEFINE s == todo[j + d]
  <1>3. /\ s.do = "allocate" => s.reg \in Register /\ reg[s.reg] = None
        /\ s.do = "result" => s.target \in Register /\ reg[s.target] = None
    BY <1>2, StepTypes DEF RegisterReady
  <1> HIDE DEF s
  <1> QED
    BY <1>1, <1>3 DEF RegisterReady, SteadyRegisters, s

LEMMA FramesAhead ==
    ASSUME NEW d, Ahead(d), SteadyFrames, d = 0 \/ todo[1].do # "chunk",
           NEW j \in 1..Len(todo'), FrameReady(j + d)
    PROVE  FrameReady(j)'
  <1> DEFINE s == todo[j + d]
  <1>1. todo'[j] = s /\ j + d \in 1..Len(todo) /\ d \in {0, 1}
    BY DEF Ahead
  <1>2. stack' = stack
    BY DEF SteadyFrames
  <1>3. stack # <<>> => /\ frame'[Top].localCount = frame[Top].localCount
                        /\ frame'[Top].temps = frame[Top].temps
                        /\ frame[Top].temps # <<>> =>
                              chunk'[Last(frame[Top].temps)] = chunk[Last(frame[Top].temps)]
    BY DEF SteadyFrames
  <1>4. Top' = Top
    BY <1>2 DEF Top
  <1>5. /\ UnusedChunks # {} => UnusedChunks' # {}
        /\ UnusedFrames # {} => UnusedFrames' # {}
        /\ freeFrames # <<>> => freeFrames' # <<>>
    BY DEF SteadyFrames
  <1>6. /\ s.do \in {"local", "hold", "chunk"} => stack # <<>>
        /\ s.do = "local" => s.index \in 1..frame[Top].localCount
        /\ s.do = "chunk" => UnusedChunks # {}
        /\ s.do = "hold" => \/ j + d > 1 /\ todo[j + d - 1].do = "chunk"
                            \/ /\ frame[Top].temps # <<>>
                               /\ Len(chunk[Last(frame[Top].temps)]) < ChunkSlots
        /\ s.do \in {"enter", "enterStack"} => s.index \in 0..MaxLocals
        /\ s.do = "enter" => freeFrames # <<>> \/ UnusedFrames # {}
        /\ s.do = "enterStack" => UnusedFrames # {}
        /\ s.do = "dropLocals" => ~ In(stack, s.target)
    BY <1>1 DEF FrameReady
  <1>7. s.do = "hold" /\ j + d > 1 /\ todo[j + d - 1].do = "chunk"
           => j > 1 /\ todo'[j - 1].do = "chunk"
    <2>1. SUFFICES ASSUME j + d > 1, todo[j + d - 1].do = "chunk"
                   PROVE  j > 1 /\ todo'[j - 1].do = "chunk"
      OBVIOUS
    <2>2. j > 1
      BY <1>1, <2>1
    <2>3. j - 1 \in 1..Len(todo') /\ (j - 1) + d = j + d - 1
      BY <1>1, <2>2 DEF Ahead
    <2>4. todo'[j - 1] = todo[(j - 1) + d]
      BY <2>3 DEF Ahead
    <2> QED
      BY <2>1, <2>2, <2>3, <2>4
  <1> HIDE DEF s
  <1>8. s.do = "hold" => \/ j > 1 /\ todo'[j - 1].do = "chunk"
                         \/ /\ frame'[Top].temps # <<>>
                            /\ Len(chunk'[Last(frame'[Top].temps)]) < ChunkSlots
    BY <1>3, <1>6, <1>7
  <1> QED
    BY <1>1, <1>2, <1>3, <1>4, <1>5, <1>6, <1>8 DEF FrameReady

(* One remaining step, and the value it writes into.                       *)
LEMMA TargetAhead ==
    ASSUME NEW d, Ahead(d), Typed, NEW j \in 1..Len(todo'), TargetReady(j + d),
           NEW s, s = todo[j + d], NEW t, t = At(s.target),
           s.do \in Targeted => At(todo[j].target)' = t,
           \A k : Promised(s.target, k, j + d) => Promised(s.target, k, j)',
           Promoted(s.target, j + d) => Promoted(s.target, j)',
           s.do \in Targeted /\ t \in Object =>
              /\ kind'[t] = kind[t] /\ fields'[t] = fields[t]
              /\ s.do = "grow" /\ count[t] = 1 => count'[t] = 1
    PROVE  TargetReady(j)'
  <1>1. todo'[j] = s /\ j + d \in 1..Len(todo) /\ d \in {0, 1}
        /\ Len(todo) \in Nat /\ Len(todo') = Len(todo) - d
    BY DEF Ahead
  <1>3. CASE s.do \notin Targeted
    BY <1>1, <1>3 DEF TargetReady, Targeted
  <1>4. CASE s.do \in Targeted
    <2>1. At(todo[j].target)' = t
      BY <1>4
    <2>3. t \in Object => /\ kind'[t] = kind[t] /\ fields'[t] = fields[t]
                          /\ s.do = "grow" /\ count[t] = 1 => count'[t] = 1
      BY <1>4
    <2>4. Length(t)' = Length(t)
      BY <2>3 DEF Length
    <2>5. Len(todo') - 1 - j = Len(todo) - 1 - (j + d)
      BY <1>1
    <2>6. /\ s.do \in {"references", "append"} =>
                t \in Object \/ (s.target \in Register /\ Promised(s.target, "LIST", j + d))
          /\ s.do = "references" => (t \in Object => kind[t] \in ListKinds \cup {"LIST"})
          /\ s.do = "append" =>
                /\ Promoted(s.target, j + d) \/ (t \in Object /\ kind[t] \in ListKinds)
                /\ 3 * Length(t) + (Len(todo) - 1 - (j + d)) <= 3 * (MaxWidth - 1)
          /\ s.do = "replace" => kind[t] \in ListKinds /\ s.index \in 1..Len(fields[t])
          /\ s.do = "field" => /\ kind[t] = "RECORD" /\ s.index \in 1..Len(fields[t])
                               /\ fields[t][s.index] = None
          /\ s.do = "backing" => \/ Promised(s.target, "TEXT", j + d)
                                 \/ t \in Object /\ kind[t] = "TEXT" /\ fields[t] = <<>>
          /\ s.do = "grow" => t \in Object /\ count[t] = 1
      BY <1>1 DEF TargetReady
    <2>7. s.do \in {"replace", "field"} => t \in Object
      <3>1. s.do \in {"replace", "field"} => s.target \in Object
        BY <1>1, StepTypes DEF Typed
      <3> QED
        BY <3>1, SlotAssumption DEF At
    <2>8. /\ s.do \in {"references", "append"} =>
                t \in Object \/ (s.target \in Register /\ Promised(s.target, "LIST", j)')
          /\ s.do = "references" => (t \in Object => kind'[t] \in ListKinds \cup {"LIST"})
          /\ s.do = "append" =>
                /\ Promoted(s.target, j)' \/ (t \in Object /\ kind'[t] \in ListKinds)
                /\ 3 * Length(t)' + (Len(todo') - 1 - j) <= 3 * (MaxWidth - 1)
          /\ s.do = "replace" => kind'[t] \in ListKinds /\ s.index \in 1..Len(fields'[t])
          /\ s.do = "field" => /\ kind'[t] = "RECORD" /\ s.index \in 1..Len(fields'[t])
                               /\ fields'[t][s.index] = None
          /\ s.do = "backing" => \/ Promised(s.target, "TEXT", j)'
                                 \/ t \in Object /\ kind'[t] = "TEXT" /\ fields'[t] = <<>>
          /\ s.do = "grow" => t \in Object /\ count'[t] = 1
      BY <2>3, <2>4, <2>5, <2>6, <2>7
    <2> QED
      BY <1>1, <2>1, <2>8 DEF TargetReady
  <1> QED
    BY <1>3, <1>4

LEMMA TargetsAhead ==
    ASSUME NEW d, Ahead(d), SteadyTargets, Typed,
           d = 0 \/ todo[1].do \notin {"allocate", "references"},
           NEW P \in SUBSET Object, SteadyValues(P), NamedIn(P),
           NEW j \in 1..Len(todo'), TargetReady(j + d)
    PROVE  TargetReady(j)'
  <1> PICK s : s = todo[j + d]
    OBVIOUS
  <1> PICK t : t = At(s.target)
    OBVIOUS
  <1>1. todo'[j] = s /\ j + d \in 1..Len(todo)
    BY DEF Ahead
  <1>2. /\ \A k : Promised(s.target, k, j + d) => Promised(s.target, k, j)'
        /\ Promoted(s.target, j + d) => Promoted(s.target, j)'
    BY PromisesAhead
  <1>3. s.do \in Targeted => At(todo[j].target)' = t
    BY <1>1 DEF SteadyTargets
  <1>4. s.do \in Targeted /\ t \in Object =>
           /\ kind'[t] = kind[t] /\ fields'[t] = fields[t]
           /\ s.do = "grow" /\ count[t] = 1 => count'[t] = 1
    <2> SUFFICES ASSUME s.do \in Targeted, t \in Object
                 PROVE  /\ kind'[t] = kind[t] /\ fields'[t] = fields[t]
                        /\ s.do = "grow" /\ count[t] = 1 => count'[t] = 1
      OBVIOUS
    <2>1. Named(j + d) = {t}
      BY DEF Named, Targeted
    <2>2. t \in P
      BY <1>1, <2>1 DEF NamedIn
    <2> QED
      BY <1>1, <2>2 DEF SteadyValues, NoGrowth
  <1> QED
    BY ONLY Typed, Ahead(d), j \in 1..Len(todo'), TargetReady(j + d), s = todo[j + d],
            t = At(s.target), <1>2, <1>3, <1>4, TargetAhead

(* Where the supporting slots and what they hold stay, so does the support.*)
LEMMA SupportSteady ==
    ASSUME NEW P \in SUBSET Object, Supported(P), SteadyFrames,
           \A f \in Frame : In(stack, f) => frame'[f].temps = frame[f].temps,
           \A s \in Slot : Lasting(s, P) /\ edge[s] \in P => edge'[s] = edge[s]
    PROVE  Supported(P)'
  <1>1. \A s : Lasting(s, P) => Lasting(s, P)'
    BY DEF Lasting, SteadyFrames
  <1> QED
    BY <1>1 DEF Supported

(* The remaining steps stay sound when what they rely on is steady. *)
LEMMA StepsKept ==
    ASSUME Typed, StepsSound, NEW d, Ahead(d),
           d = 0 \/ todo[1].do \notin {"allocate", "references", "chunk"},
           hand' # None => Ends(1)',
           NEW P \in SUBSET Object, NamedIn(P), Supported(P)',
           SteadyTargets, SteadyRegisters, SteadyValues(P), SteadyFrames
    PROVE  StepsSound'
  <1>1. StepsFormed'
    BY FormedAhead DEF StepsSound
  <1>2. ASSUME NEW j \in 1..Len(todo') PROVE StepReady(j)'
    <2>1. StepReady(j + d)
      BY DEF StepsSound, Ahead
    <2>2. RegisterReady(j)'
      BY <2>1, RegistersAhead DEF StepReady
    <2>3. TargetReady(j)'
      BY <2>1, TargetsAhead DEF StepReady
    <2>4. FrameReady(j)'
      BY <2>1, FramesAhead DEF StepReady
    <2> QED
      BY <2>2, <2>3, <2>4 DEF StepReady
  <1>3. OperandsHeld'
    <2>1. NamedIn(P)'
      BY NamesAhead
    <2> QED
      BY <2>1 DEF OperandsHeld, NamedIn
  <1> QED
    BY <1>1, <1>2, <1>3 DEF StepsSound

LEMMA OperandsSupported ==
    ASSUME OperandsHeld
    PROVE  \E P \in SUBSET Object : Supported(P) /\ NamedIn(P)
  BY DEF OperandsHeld, NamedIn
-----------------------------------------------------------------------------
(***************************************************************************)
(* What steps leave alone.                                                 *)
(***************************************************************************)
LEMMA HeapUnchanged ==
    ASSUME HeapSound, UNCHANGED <<kind, count, fields, cursor, active, activeCursor>>
    PROVE  HeapSound'
  BY DEF HeapSound, Free, Live

LEMMA QueueUnchanged ==
    ASSUME QueueSound, UNCHANGED <<kind, count, recent, old, active>>
    PROVE  QueueSound'
  BY DEF QueueSound, Dead, Distinct, In

LEMMA FrameUnchanged ==
    ASSUME FrameSound, UNCHANGED <<frame, stack, frameQueue, freeFrames>>,
           \A f \in Frame : Dropping(f)' <=> Dropping(f)
    PROVE  FrameSound'
  <1>1. \A f \in Frame : Detached(f)' <=> Detached(f)
    BY DEF Detached, In
  <1>2. \A s : /\ Distinct(s)' <=> Distinct(s)
               /\ \A x : In(s, x)' <=> In(s, x)
    BY DEF Distinct, In
  <1> QED
    BY <1>1, <1>2 DEF FrameSound, FrameShape

LEMMA ChunkUnchanged ==
    ASSUME ChunkSound, UNCHANGED <<chunkQueue, chunk>>,
           \A f \in Frame : frame'[f].temps = frame[f].temps
    PROVE  ChunkSound'
  <1>1. /\ Distinct(chunkQueue)
        /\ \A f \in Frame : Distinct(frame'[f].temps)
        /\ \A f \in Frame, c \in Chunk : In(frame'[f].temps, c) =>
              /\ ~ In(chunkQueue, c)
              /\ \A g \in Frame : In(frame'[g].temps, c) => g = f
        /\ \A c \in Chunk :
              /\ Len(chunk[c]) <= ChunkSlots
              /\ ~ In(chunkQueue, c) /\ (\A f \in Frame : ~ In(frame'[f].temps, c))
                    => chunk[c] = <<>>
    BY DEF ChunkSound
  <1> QED
    BY <1>1 DEF ChunkSound, Distinct, In

LEMMA DropsUnchanged ==
    ASSUME Typed, StepsFormed,
           \/ todo' = todo
           \/ todo # <<>> /\ todo[1].do # "dropLocals" /\ todo' = Tail(todo)
    PROVE  \A f \in Frame : Dropping(f)' <=> Dropping(f)
  <1>1. CASE todo' = todo
    BY <1>1 DEF Dropping
  <1>2. CASE todo # <<>> /\ todo[1].do # "dropLocals" /\ todo' = Tail(todo)
    <2>1. Ahead(1) /\ 1 \in 1..Len(todo) /\ todo' \in Seq(MicroStep)
      BY <1>2, AheadForms DEF Typed
    <2>2. ASSUME todo' # <<>> PROVE todo'[1].do # "dropLocals"
      <3>1. 1 \in 1..Len(todo')
        BY <2>1, <2>2
      <3>2. todo'[1] = todo[2] /\ 2 \in 1..Len(todo)
        BY <2>1, <3>1 DEF Ahead
      <3> QED
        BY <2>1, <3>2 DEF StepsFormed
    <2> QED
      BY <1>2, <2>2 DEF Dropping
  <1> QED
    BY <1>1, <1>2

LEMMA EdgesUnchanged ==
    ASSUME UNCHANGED <<fields, cursor, active, activeCursor, frame, stack, chunk,
                       reg, hand, falling>>
    PROVE  \A s \in Slot : edge'[s] = edge[s]
  BY FieldsUnchanged, LocalsUnchanged, ChunksUnchanged, RegistersUnchanged, OthersKept
     DEF SameEdges

LEMMA FramesSteady ==
    ASSUME UNCHANGED <<stack, frame, chunk, chunkQueue, frameQueue, freeFrames>>
    PROVE  SteadyFrames
  BY DEF SteadyFrames, UnusedChunks, UsedChunks, UnusedFrames, Top

LEMMA RegistersSteady ==
    ASSUME UNCHANGED reg
    PROVE  SteadyRegisters
  BY DEF SteadyRegisters

LEMMA TargetsSteady ==
    ASSUME UNCHANGED reg
    PROVE  SteadyTargets
  BY DEF SteadyTargets, At

(* The slots that support values are not the one that is being dropped,    *)
(* nor fields of values outside of the set.                                *)
LEMMA LastingDiffers ==
    ASSUME NEW P \in SUBSET Object, NEW s, Lasting(s, P)
    PROVE  /\ s # FallingSlot
           /\ \A o \in Object \ P : \A i : s # <<o, i>>
           /\ \A f \in Frame : \A i : ~ In(stack, f) => s # <<f, i>>
           /\ \A c \in Chunk : \A i :
                 (\A f \in Frame : In(stack, f) => ~ In(frame[f].temps, c)) => s # <<c, i>>
  BY SlotAssumption DEF Lasting, FallingSlot

(* The last reference to a value is being dropped: no one else holds it.   *)
LEMMA FallingUnsupported ==
    ASSUME IInv, falling \in Object, count[falling] = 1,
           NEW P \in SUBSET Object, Supported(P)
    PROVE  falling \notin P
  <1> SUFFICES ASSUME falling \in P PROVE FALSE
    OBVIOUS
  <1>1. PICK s \in Slot : Lasting(s, P) /\ edge[s] = falling
    BY DEF Supported
  <1>2. s # FallingSlot /\ FallingSlot \in Slot
    BY <1>1, LastingDiffers, SlotForms
  <1>3. edge[FallingSlot] = falling
    BY Forms DEF EdgeForms, Counted
  <1> QED
    BY <1>1, <1>2, <1>3, EdgeFacts

StepForm == Refs!StepForms(edge, edge', count, count', FallingSlot)

(* What holding and counting look like from one slot.                      *)
LEMMA RefsSlots == Refs!Slot = Slot /\ RootSlot \subseteq Slot /\ FallingSlot \in RootSlot
  BY ReferencesAreSlots, SlotForms

(* The forms of steps the runtime takes, as steps of the contract. *)
LEMMA KeptForm ==
    ASSUME \A s \in Slot : edge'[s] = edge[s], count' = count, status' = status
    PROVE  StepForm
  BY RefsSlots DEF StepForm, Refs!StepForms, Refs!Rearranges, Refs!Kept

LEMMA MovedForm ==
    ASSUME NEW s \in Slot, NEW t \in Slot,
           s \in RootSlot \/ (\E o \in Object, i \in Index : s = <<o, i>> /\ status[o] = "live"),
           s # t, edge[s] = None, edge'[s] = edge[t], edge'[t] = None, SameEdges({s, t}),
           count' = count, status' = status
    PROVE  StepForm
  <1>1. Refs!InLive(s)
    BY DEF Refs!InLive
  <1>2. Refs!Moved(edge, edge', s, t)
    BY RefsSlots DEF Refs!Moved, SameEdges
  <1> QED
    BY <1>1, <1>2, RefsSlots DEF StepForm, Refs!StepForms, Refs!Rearranges

LEMMA ExchangedForm ==
    ASSUME NEW s \in Slot, NEW t \in Slot, NEW u \in RootSlot,
           s \in RootSlot \/ (\E o \in Object, i \in Index : s = <<o, i>> /\ status[o] = "live"),
           s # t, s # u, t # u, edge[u] = None,
           edge'[s] = edge[t], edge'[t] = None, edge'[u] = edge[s], SameEdges({s, t, u}),
           count' = count, status' = status
    PROVE  StepForm
  <1>1. Refs!InLive(s)
    BY DEF Refs!InLive
  <1>2. Refs!Exchanged(edge, edge', s, t, u)
    BY RefsSlots DEF Refs!Exchanged, SameEdges
  <1> QED
    BY <1>1, <1>2, RefsSlots DEF StepForm, Refs!StepForms, Refs!Rearranges

(* The sound counts, and the contract, follow from the form of the step.   *)
LEMMA FormKeepsCounts ==
    ASSUME IInv, StepForm
    PROVE  CountExact'
  <1>1. Refs!CountingAssumption
    BY ReferencesAreSlots
  <1>2. Refs!Exact(edge, count)
    BY CountsExactly DEF Counts, IInv
  <1>3. Refs!StepForms(edge, edge', count, count', FallingSlot)
    BY DEF StepForm
  <1>4. count \in [Object -> Nat] /\ FallingSlot \in RootSlot
    BY SlotForms DEF IInv, Sound, Typed
  <1>5. Refs!Exact(edge', count')
    BY <1>1, <1>2, <1>3, <1>4, Refs!FormsKeepCounts
  <1>6. Refs!Exact(edge, count)'
    BY <1>5 DEF Refs!Exact, Refs!Holders
  <1> QED
    BY <1>6, CountsNext DEF Counts
-----------------------------------------------------------------------------
(***************************************************************************)
(* rc_drop, one level at a time.                                           *)
(***************************************************************************)
DropsOnly == UNCHANGED <<old, active, activeCursor, turn, frameVars, chunkVars,
                         nextQueue, reg, hand, work, todo, program>>

(* Every form of rc_drop changes the falling slot and at most the fields   *)
(* of the value that fell.                                                 *)
LEMMA FallingChanges ==
    ASSUME DropsOnly,
           NEW E, FallingSlot \in E,
           \A o \in Object : (\E i \in Index : <<o, i>> \notin E) =>
               fields'[o] = fields[o] /\ cursor'[o] = cursor[o]
    PROVE  SameEdges(E)
  <1>1. SameLocals(E) /\ SameChunks(E) /\ SameRegisters(E)
    BY LocalsUnchanged, ChunksUnchanged, RegistersUnchanged DEF DropsOnly, frameVars, chunkVars
  <1>2. SameFields(E)
    BY DEF SameFields, FieldEdge, Progress, DropsOnly
  <1> QED
    BY <1>1, <1>2, OthersKept DEF DropsOnly

(* The rest of the state, and the steps of the call.                       *)
LEMMA DropKeepsRest ==
    ASSUME IInv, DropsOnly, Typed',
           NEW v \in Object,
           \A o \in Object \ {v} : kind'[o] = kind[o] /\ fields'[o] = fields[o]
                                   /\ count'[o] = count[o],
           \/ count[v] = 1 /\ SameEdges({FallingSlot} \cup {<<v, i>> : i \in Index})
           \/ count[v] > 1 /\ kind' = kind /\ fields' = fields /\ SameEdges({FallingSlot}),
           falling = v
    PROVE  FrameSound' /\ ChunkSound' /\ StepsSound'
  <1>1. FrameSound' /\ ChunkSound'
    BY FrameUnchanged, ChunkUnchanged DEF IInv, Sound, DropsOnly, frameVars, chunkVars, Dropping
  <1>2. PICK P \in SUBSET Object : Supported(P) /\ NamedIn(P)
    BY OperandsSupported DEF IInv, Sound, StepsSound
  <1>3. count[v] \in Nat
    BY DEF IInv, Sound, Typed
  <1>4. count[v] = 1 => v \notin P
    BY <1>2, FallingUnsupported
  <1>5. SteadyValues(P)
    BY <1>3, <1>4 DEF SteadyValues
  <1>6. SteadyFrames /\ SteadyRegisters /\ SteadyTargets
    BY FramesSteady, RegistersSteady, TargetsSteady DEF DropsOnly, frameVars, chunkVars
  <1>7. ASSUME NEW s \in Slot, Lasting(s, P) PROVE edge'[s] = edge[s]
    <2>1. s # FallingSlot /\ (v \notin P => \A i : s # <<v, i>>)
      BY <1>7, LastingDiffers
    <2> QED
      BY <1>4, <2>1 DEF SameEdges
  <1>8. Supported(P)'
    BY <1>2, <1>6, <1>7, SupportSteady DEF DropsOnly, frameVars
  <1>9. Ahead(0) /\ (hand' # None => Ends(1)')
    <2>1. Ahead(0)
      BY AheadForms DEF IInv, Sound, Typed, DropsOnly
    <2>2. hand # None => Ends(1)
      BY DEF IInv, Sound, StepsSound, StepsFormed
    <2>3. Ends(1) => Ends(1)'
      BY <2>1, EndsAhead
    <2> QED
      BY <2>1, <2>2, <2>3 DEF DropsOnly
  <1>10. StepsSound'
    BY <1>2, <1>5, <1>6, <1>8, <1>9, StepsKept DEF IInv, Sound
  <1> QED
    BY <1>1, <1>10

(* The five forms of one level of rc_drop. *)
LEMMA DropLiteralSound ==
    ASSUME IInv, DropLiteral, DropsOnly
    PROVE  StepForm /\ Sound'
  <1> USE DEF DropLiteral, DropsOnly, heapVars, frameVars, chunkVars
  <1>1. falling \notin Object /\ None \notin Object
    BY ConstantsAssumption
  <1>2. SameEdges({FallingSlot})
    BY FallingChanges
  <1>3. edge[FallingSlot] = None /\ edge'[FallingSlot] = None
    BY <1>1, Forms, FormsNext DEF EdgeForms, Counted
  <1>4. \A s \in Slot : edge'[s] = edge[s]
    BY <1>2, <1>3 DEF SameEdges
  <1>5. StepForm
    BY <1>4, KeptForm DEF status, Free, Live
  <1>6. Typed' /\ HeapSound' /\ QueueSound' /\ FrameSound' /\ ChunkSound'
    <2>1. Typed'
      BY DEF IInv, Sound, Typed, Value
    <2> QED
      BY <2>1, HeapUnchanged, QueueUnchanged, FrameUnchanged, ChunkUnchanged
         DEF IInv, Sound, Dropping
  <1>7. StepsSound'
    <2>1. PICK P \in SUBSET Object : Supported(P) /\ NamedIn(P)
      BY OperandsSupported DEF IInv, Sound, StepsSound
    <2>2. SteadyFrames /\ SteadyRegisters /\ SteadyTargets /\ SteadyValues(P)
      BY FramesSteady, RegistersSteady, TargetsSteady DEF SteadyValues
    <2>3. Supported(P)'
      BY <1>4, <2>1, <2>2, SupportSteady
    <2>4. Ahead(0) /\ (hand' # None => Ends(1)')
      <3>1. Ahead(0)
        BY AheadForms DEF IInv, Sound, Typed
      <3>2. hand # None => Ends(1)
        BY DEF IInv, Sound, StepsSound, StepsFormed
      <3>3. Ends(1) => Ends(1)'
        BY <3>1, EndsAhead
      <3> QED
        BY <3>1, <3>2, <3>3
    <2> QED
      BY <2>1, <2>2, <2>3, <2>4, StepsKept DEF IInv, Sound
  <1> QED
    BY <1>5, <1>6, <1>7 DEF Sound

LEMMA DropSharedSound ==
    ASSUME IInv, DropShared, DropsOnly
    PROVE  StepForm /\ Sound'
  <1> USE DEF DropShared, DropsOnly, frameVars, chunkVars
  <1> PICK v : v = falling
    OBVIOUS
  <1>1. v \in Object /\ None \notin Object /\ count[v] \in Nat
        /\ count' = [count EXCEPT ![v] = count[v] - 1]
    BY ConstantsAssumption DEF Mortal, IInv, Sound, Typed
  <1>2. SameEdges({FallingSlot})
    BY FallingChanges
  <1>3. edge[FallingSlot] = v /\ edge'[FallingSlot] = None
    BY <1>1, Forms, FormsNext DEF EdgeForms, Counted
  <1>4. StepForm
    <2>1. status' = status
      <3>1. count'[v] > 0 /\ \A o \in Object \ {v} : count'[o] = count[o]
        BY <1>1 DEF IInv, Sound, Typed
      <3> QED
        BY <1>1, <3>1 DEF status, Free, Live
    <2>2. Refs!Lost(edge, edge', FallingSlot)
      BY <1>2, <1>3, RefsSlots DEF Refs!Lost, Refs!OnlyAt, SameEdges
    <2>3. Refs!Drops(edge, edge', count, count', FallingSlot)
      BY <1>1, <1>3, <2>1, <2>2 DEF Refs!Drops, Refs!Counts
    <2> QED
      BY <2>3 DEF StepForm, Refs!StepForms
  <1>5. Typed'
    <2>1. count' \in [Object -> Nat]
      BY <1>1 DEF IInv, Sound, Typed
    <2> QED
      BY <2>1 DEF IInv, Sound, Typed, Value
  <1>6. \A o \in Object : Free(o)' = Free(o) /\ (Live(o)' <=> Live(o)) /\ (Dead(o)' <=> Dead(o))
        /\ (count[o] = 0 => count'[o] = 0)
    BY SMTT(60), <1>1 DEF Free, Live, Dead, IInv, Sound, Typed
  <1>7. HeapSound'
    BY <1>6 DEF IInv, Sound, HeapSound, Free
  <1>8. QueueSound'
    BY <1>6 DEF IInv, Sound, QueueSound, Distinct, In
  <1>9. FrameSound' /\ ChunkSound' /\ StepsSound'
    <2>1. \A o \in Object \ {v} : kind'[o] = kind[o] /\ fields'[o] = fields[o]
                                   /\ count'[o] = count[o]
      BY <1>1 DEF IInv, Sound, Typed
    <2>2. count[v] > 1 /\ kind' = kind /\ fields' = fields
      OBVIOUS
    <2>3. DropsOnly
      OBVIOUS
    <2> QED
      BY ONLY IInv, <1>1, <1>2, <1>5, <2>1, <2>2, <2>3, v = falling, DropKeepsRest
  <1> QED
    BY <1>4, <1>5, <1>7, <1>8, <1>9 DEF Sound
(* A value that is freed holds nothing.                                    *)
LEMMA FinishFacts ==
    ASSUME Typed, NEW v \in Object, FinishObject(v)
    PROVE  /\ kind'[v] = "FREE" /\ count'[v] = 0 /\ fields'[v] = <<>> /\ cursor'[v] = 0
           /\ \A o \in Object \ {v} : /\ kind'[o] = kind[o] /\ count'[o] = count[o]
                                      /\ fields'[o] = fields[o] /\ cursor'[o] = cursor[o]
           /\ kind' \in [Object -> Kinds] /\ count' \in [Object -> Nat]
           /\ fields' \in [Object -> Seq(Value)] /\ cursor' \in [Object -> Nat]
           /\ count' = [count EXCEPT ![v] = 0]
           /\ status' = [status EXCEPT ![v] = "free"]
           /\ \A i \in Index : FieldEdge(v, i)' = None
  <1>1. /\ kind' = [kind EXCEPT ![v] = "FREE"] /\ count' = [count EXCEPT ![v] = 0]
        /\ fields' = [fields EXCEPT ![v] = <<>>] /\ cursor' = [cursor EXCEPT ![v] = 0]
    BY DEF FinishObject
  <1>2. /\ kind'[v] = "FREE" /\ count'[v] = 0 /\ fields'[v] = <<>> /\ cursor'[v] = 0
        /\ \A o \in Object \ {v} : /\ kind'[o] = kind[o] /\ count'[o] = count[o]
                                   /\ fields'[o] = fields[o] /\ cursor'[o] = cursor[o]
    BY <1>1 DEF Typed
  <1>3. /\ kind' \in [Object -> Kinds] /\ count' \in [Object -> Nat] /\ cursor' \in [Object -> Nat]
    BY <1>1 DEF Typed, Kinds
  <1>4. fields' \in [Object -> Seq(Value)]
    <2>1. <<>> \in Seq(Value)
      OBVIOUS
    <2> QED
      BY <1>1, <2>1 DEF Typed
  <1>5. status' = [status EXCEPT ![v] = "free"]
    BY <1>2 DEF status, Free, Live
  <1>6. ASSUME NEW i \in Index PROVE FieldEdge(v, i)' = None
    <2>1. Len(fields'[v]) = 0 /\ i \in Nat /\ i > 0
      BY <1>2, EmptySeq DEF Index
    <2> QED
      BY <2>1 DEF FieldEdge
  <1> QED
    BY <1>1, <1>2, <1>3, <1>4, <1>5, <1>6

(* Freeing a value that was live keeps the heap and its queues in order.   *)
LEMMA LiveFinished ==
    ASSUME Sound, NEW v \in Object, count[v] > 0, FinishObject(v),
           UNCHANGED <<recent, old, active, activeCursor>>
    PROVE  HeapSound' /\ QueueSound'
  <1>1. Typed
    BY DEF Sound
  <1>2. /\ kind'[v] = "FREE" /\ count'[v] = 0 /\ fields'[v] = <<>> /\ cursor'[v] = 0
        /\ \A o \in Object \ {v} : /\ kind'[o] = kind[o] /\ count'[o] = count[o]
                                   /\ fields'[o] = fields[o] /\ cursor'[o] = cursor[o]
    BY <1>1, FinishFacts
  <1>3. v # active /\ ~ In(recent, v) /\ ~ In(old, v)
    BY LiveFacts
  <1>4. Len(fields'[v]) = 0 /\ MaxWidth \in Nat
    BY <1>2, EmptySeq, ConstantsAssumption
  <1>5. \A o \in Object \ {v} : (Free(o)' <=> Free(o)) /\ (Live(o)' <=> Live(o)) /\ (Dead(o)' <=> Dead(o))
    BY <1>2 DEF Free, Live, Dead
  <1>6. HeapSound'
    <2>1. ASSUME NEW o \in Object
          PROVE  /\ Free(o)' => count'[o] = 0 /\ fields'[o] = <<>>
                 /\ Free(o)' \/ Live(o)' => cursor'[o] = 0
                 /\ Len(fields'[o]) <= MaxWidth /\ cursor'[o] <= Len(fields'[o])
                 /\ kind'[o] \in {"LIST", "SCALAR_RECORD"} => fields'[o] = <<>>
                 /\ kind'[o] = "REFERENCES_IMMORTAL" =>
                       \A i \in 1..Len(fields'[o]) : fields'[o][i] \notin Object
                 /\ kind'[o] = "TEXT" => Len(fields'[o]) <= 1
      <3>1. CASE o = v
        BY <1>2, <1>4, <3>1
      <3>2. CASE o # v
        BY <1>2, <1>5, <3>2 DEF Sound, HeapSound
      <3> QED
        BY <3>1, <3>2
    <2>2. active' # None => activeCursor' <= Len(fields'[active'])
      <3>1. active # None => active \in Object /\ active # v
        BY <1>1, <1>3 DEF Typed
      <3> QED
        BY <1>2, <3>1 DEF Sound, HeapSound
    <2> QED
      BY <2>1, <2>2 DEF HeapSound
  <1>7. QueueSound'
    <2>1. ~ Dead(v)'
      BY <1>2 DEF Dead
    <2> QED
      BY <1>3, <1>5, <2>1 DEF Sound, QueueSound, Distinct, In
  <1> QED
    BY <1>6, <1>7

LEMMA DropLeafSound ==
    ASSUME IInv, DropLeaf, DropsOnly
    PROVE  StepForm /\ Sound'
  <1> USE DEF DropsOnly, frameVars, chunkVars
  <1> PICK v : v = falling
    OBVIOUS
  <1>1. /\ v \in Object /\ None \notin Object /\ count[v] = 1 /\ Leaf(v)
        /\ FinishObject(v) /\ falling' = None /\ recent' = recent
    BY ConstantsAssumption DEF DropLeaf, Mortal
  <1>2. Typed /\ Sound /\ count[v] > 0
    BY <1>1 DEF IInv, Sound
  <1>3. /\ \A o \in Object \ {v} : /\ kind'[o] = kind[o] /\ count'[o] = count[o]
                                   /\ fields'[o] = fields[o] /\ cursor'[o] = cursor[o]
        /\ kind' \in [Object -> Kinds] /\ count' \in [Object -> Nat]
        /\ fields' \in [Object -> Seq(Value)] /\ cursor' \in [Object -> Nat]
        /\ count' = [count EXCEPT ![v] = 0]
        /\ status' = [status EXCEPT ![v] = "free"]
        /\ \A i \in Index : FieldEdge(v, i)' = None
    BY <1>1, <1>2, FinishFacts
  <1>4. \A i \in Index : FieldEdge(v, i) = None
    <2> SUFFICES ASSUME NEW i \in Index, FieldEdge(v, i) # None PROVE FALSE
      OBVIOUS
    <2>1. i \in 1..Len(fields[v]) /\ fields[v][i] \in Object
      BY <1>2 DEF FieldEdge, Counted, Typed, Index
    <2>2. fields[v] # <<>>
      BY <2>1, EmptySeq
    <2> QED
      BY <1>1, <1>2, <2>1, <2>2 DEF Leaf, Sound, HeapSound
  <1>5. SameEdges({FallingSlot} \cup {<<v, i>> : i \in Index})
    BY <1>3, FallingChanges
  <1>6. edge[FallingSlot] = v /\ edge'[FallingSlot] = None
        /\ \A i \in Index : edge[<<v, i>>] = None /\ edge'[<<v, i>>] = None
    <2>1. edge[FallingSlot] = v /\ edge'[FallingSlot] = None
      BY <1>1, Forms, FormsNext DEF EdgeForms, Counted
    <2>2. \A i \in Index : edge[<<v, i>>] = None
      BY <1>1, <1>4, Forms DEF EdgeForms
    <2>3. \A i \in Index : edge'[<<v, i>>] = None
      BY <1>1, <1>3, FormsNext DEF EdgeForms
    <2> QED
      BY <2>1, <2>2, <2>3
  <1>7. StepForm
    <2>1. \A s \in Slot \ {FallingSlot} : edge'[s] = edge[s]
      BY <1>5, <1>6 DEF SameEdges
    <2>2. Refs!Lost(edge, edge', FallingSlot)
      BY <1>6, <2>1, RefsSlots DEF Refs!Lost, Refs!OnlyAt
    <2>3. Refs!GivesUp(edge, v) /\ Refs!Becomes(v, "free")
      BY <1>1, <1>3, <1>6 DEF Refs!GivesUp, Refs!Becomes
    <2>4. Refs!Drops(edge, edge', count, count', FallingSlot)
      BY <1>1, <1>3, <1>6, <2>2, <2>3 DEF Refs!Drops, Refs!Counts
    <2> QED
      BY <2>4 DEF StepForm, Refs!StepForms
  <1>8. Typed'
    BY <1>1, <1>2, <1>3 DEF Typed, Value
  <1>9. HeapSound' /\ QueueSound'
    BY <1>1, <1>2, LiveFinished
  <1>10. FrameSound' /\ ChunkSound' /\ StepsSound'
    <2>1. DropsOnly
      OBVIOUS
    <2> QED
      BY ONLY IInv, <1>1, <1>3, <1>5, <1>8, <2>1, v = falling, DropKeepsRest
  <1> QED
    BY <1>7, <1>8, <1>9, <1>10 DEF Sound

LEMMA DropViewSound ==
    ASSUME IInv, DropView, DropsOnly
    PROVE  StepForm /\ Sound'
  <1> USE DEF DropsOnly, frameVars, chunkVars
  <1> PICK v : v = falling
    OBVIOUS
  <1>1. /\ v \in Object /\ None \notin Object /\ count[v] = 1 /\ ~ Leaf(v) /\ kind[v] = "TEXT"
        /\ FinishObject(v) /\ falling' = fields[v][1] /\ recent' = recent
    BY ConstantsAssumption DEF DropView, Mortal, Backing
  <1>2. Typed /\ Sound /\ count[v] > 0
    BY <1>1 DEF IInv, Sound
  <1>3. /\ \A o \in Object \ {v} : /\ kind'[o] = kind[o] /\ count'[o] = count[o]
                                   /\ fields'[o] = fields[o] /\ cursor'[o] = cursor[o]
        /\ kind' \in [Object -> Kinds] /\ count' \in [Object -> Nat]
        /\ fields' \in [Object -> Seq(Value)] /\ cursor' \in [Object -> Nat]
        /\ count' = [count EXCEPT ![v] = 0]
        /\ status' = [status EXCEPT ![v] = "free"]
        /\ \A i \in Index : FieldEdge(v, i)' = None
    BY <1>1, <1>2, FinishFacts
  <1>4. /\ 1 \in Index /\ Len(fields[v]) = 1 /\ fields[v][1] \in Value /\ Progress(v) = 0
    <2>1. fields[v] \in Seq(Value) /\ fields[v] # <<>> /\ Len(fields[v]) <= 1
      BY <1>1, <1>2 DEF Leaf, Typed, Sound, HeapSound
    <2>2. Len(fields[v]) \in Nat \ {0} /\ fields[v][1] \in Value
      BY <2>1, TailFacts
    <2>3. Len(fields[v]) = 1
      <3>1. \A n \in Nat \ {0} : n <= 1 => n = 1
        OBVIOUS
      <3> QED
        BY <2>1, <2>2, <3>1, Zenon
    <2>4. 1 \in Index
      BY ConstantsAssumption DEF Index
    <2> QED
      BY <1>1, <1>2, <2>2, <2>3, <2>4, LiveFacts
  <1>5. FieldEdge(v, 1) = Counted(fields[v][1]) /\ \A i \in Index \ {1} : FieldEdge(v, i) = None
    BY <1>4 DEF FieldEdge, Index
  <1>6. SameEdges({FallingSlot} \cup {<<v, i>> : i \in Index})
    BY <1>3, FallingChanges
  <1>7. /\ edge[FallingSlot] = v /\ edge'[FallingSlot] = edge[<<v, 1>>]
        /\ \A i \in Index : edge'[<<v, i>>] = None
        /\ \A i \in Index \ {1} : edge[<<v, i>>] = None
    <2>1. edge[FallingSlot] = Counted(v) /\ edge'[FallingSlot] = Counted(fields[v][1])
      BY <1>1, Forms, FormsNext DEF EdgeForms, Counted
    <2>2. edge[<<v, 1>>] = Counted(fields[v][1])
      BY <1>1, <1>4, <1>5, Forms DEF EdgeForms
    <2>3. \A i \in Index : edge'[<<v, i>>] = None
      BY <1>1, <1>3, FormsNext DEF EdgeForms
    <2>4. \A i \in Index \ {1} : edge[<<v, i>>] = None
      BY <1>1, <1>5, Forms DEF EdgeForms
    <2> QED
      BY <1>1, <2>1, <2>2, <2>3, <2>4 DEF Counted
  <1>8. StepForm
    <2>1. \A r \in Slot \ {FallingSlot, <<v, 1>>} : edge'[r] = edge[r]
      BY <1>6, <1>7 DEF SameEdges
    <2>2. Refs!Unwraps(edge, edge', count, count', FallingSlot)
      BY <1>1, <1>3, <1>4, <1>7, <2>1, RefsSlots DEF Refs!Unwraps, Refs!Counts, Refs!Becomes
    <2> QED
      BY <2>2 DEF StepForm, Refs!StepForms
  <1>9. Typed'
    BY <1>1, <1>2, <1>3, <1>4 DEF Typed
  <1>10. HeapSound' /\ QueueSound'
    BY <1>1, <1>2, LiveFinished
  <1>11. FrameSound' /\ ChunkSound' /\ StepsSound'
    <2>1. DropsOnly
      OBVIOUS
    <2> QED
      BY ONLY IInv, <1>1, <1>3, <1>6, <1>9, <2>1, v = falling, DropKeepsRest
  <1> QED
    BY <1>8, <1>9, <1>10, <1>11 DEF Sound

LEMMA DropNodeSound ==
    ASSUME IInv, DropNode, DropsOnly
    PROVE  StepForm /\ Sound'
  <1> USE DEF DropsOnly, frameVars, chunkVars
  <1> PICK v : v = falling
    OBVIOUS
  <1>1. /\ v \in Object /\ None \notin Object /\ count[v] = 1
        /\ kind[v] \in {"REFERENCES", "RECORD"}
        /\ count' = [count EXCEPT ![v] = 0] /\ cursor' = [cursor EXCEPT ![v] = 0]
        /\ recent' = <<v>> \o recent /\ falling' = None /\ UNCHANGED <<kind, fields>>
    BY ConstantsAssumption DEF DropNode, Mortal
  <1>2. Typed /\ Sound /\ count[v] > 0
    BY <1>1 DEF IInv, Sound
  <1>3. /\ cursor[v] = 0 /\ ~ In(recent, v) /\ ~ In(old, v) /\ v # active
    BY <1>1, <1>2, LiveFacts
  <1>4. cursor' = cursor
    BY <1>1, <1>2, <1>3 DEF Typed
  <1>5. SameEdges({FallingSlot})
    BY <1>1, <1>4, FallingChanges
  <1>6. edge[FallingSlot] = v /\ edge'[FallingSlot] = None
    BY <1>1, Forms, FormsNext DEF EdgeForms, Counted
  <1>7. count'[v] = 0 /\ \A o \in Object \ {v} : count'[o] = count[o]
    BY <1>1, <1>2 DEF Typed
  <1>8. StepForm
    <2>1. Refs!Lost(edge, edge', FallingSlot)
      BY <1>5, <1>6, RefsSlots DEF Refs!Lost, Refs!OnlyAt, SameEdges
    <2>2. Refs!Becomes(v, "dying")
      <3>1. kind'[v] # "FREE" /\ ~ (count'[v] > 0)
        BY <1>1, <1>7
      <3>2. status'[v] = "dying" /\ \A o \in Object \ {v} : status'[o] = status[o]
        BY <1>1, <1>7, <3>1 DEF status, Free, Live
      <3> QED
        BY <3>2 DEF Refs!Becomes, status
    <2>3. Refs!Counts(count, count', v, count[v] - 1) /\ v # None
      BY <1>1 DEF Refs!Counts
    <2>4. Refs!Drops(edge, edge', count, count', FallingSlot)
      BY <1>1, <1>6, <2>1, <2>2, <2>3 DEF Refs!Drops
    <2> QED
      BY <2>4 DEF StepForm, Refs!StepForms
  <1>9. /\ recent \in Seq(Object) /\ recent' \in Seq(Object)
        /\ \A x : In(recent', x) <=> x = v \/ In(recent, x)
        /\ Distinct(recent) /\ ~ In(recent, v) => Distinct(recent')
    <2>1. recent \in Seq(Object)
      BY <1>2 DEF Typed
    <2> QED
      BY <1>1, <2>1, PushFacts
  <1>10. Typed'
    <2>1. count' \in [Object -> Nat]
      BY <1>1, <1>2 DEF Typed
    <2> QED
      BY <1>1, <1>2, <1>4, <1>9, <2>1 DEF Typed, Value
  <1>11. HeapSound'
    BY <1>1, <1>2, <1>3, <1>4, <1>7 DEF Sound, HeapSound, Free, Live
  <1>12. QueueSound'
    <2>1. Dead(v)' /\ \A o \in Object \ {v} : Dead(o)' <=> Dead(o)
      BY <1>1, <1>7 DEF Dead
    <2>2. Distinct(recent') /\ Distinct(old)'
      BY <1>2, <1>3, <1>9 DEF Sound, QueueSound, Distinct
    <2>3. \A o : In(old, o)' <=> In(old, o)
      BY DEF In
    <2>4. ASSUME NEW o \in Object
          PROVE  /\ ~ (In(recent', o) /\ In(old, o))
                 /\ o = active => ~ In(recent', o) /\ ~ In(old, o)
                 /\ Dead(o)' <=> In(recent', o) \/ In(old, o) \/ o = active
      BY <1>2, <1>3, <1>9, <2>1 DEF Sound, QueueSound
    <2>5. \A o : In(recent, o)' <=> In(recent', o)
      BY DEF In
    <2>6. Distinct(recent)'
      BY <2>2 DEF Distinct
    <2> QED
      BY <2>2, <2>3, <2>4, <2>5, <2>6 DEF QueueSound
  <1>13. FrameSound' /\ ChunkSound' /\ StepsSound'
    <2>1. DropsOnly
      OBVIOUS
    <2>2. \A o \in Object \ {v} : kind'[o] = kind[o] /\ fields'[o] = fields[o]
                                   /\ count'[o] = count[o]
      BY <1>1, <1>7
    <2>3. SameEdges({FallingSlot} \cup {<<v, i>> : i \in Index})
      BY <1>5 DEF SameEdges
    <2> QED
      BY ONLY IInv, <1>1, <1>10, <2>1, <2>2, <2>3, v = falling, DropKeepsRest
  <1> QED
    BY <1>8, <1>10, <1>11, <1>12, <1>13 DEF Sound

(* One level of rc_drop. *)
LEMMA RcDropSound ==
    ASSUME IInv, RcDrop, program' = program
    PROVE  StepForm /\ Sound'
  <1>1. DropsOnly
    BY DEF RcDrop, DropsOnly
  <1> QED
    BY <1>1, DropLiteralSound, DropSharedSound, DropLeafSound, DropViewSound, DropNodeSound
       DEF RcDrop
-----------------------------------------------------------------------------
(***************************************************************************)
(* minyar_rc_poll, one unit of work at a time.                             *)
(***************************************************************************)
(* Pending cleanup never touches what the steps of a call rely on.         *)
LEMMA PollKeepsSteps ==
    ASSUME IInv, UNCHANGED <<reg, hand, todo>>, SteadyFrames,
           \A o \in Object : count[o] > 0 =>
              kind'[o] = kind[o] /\ fields'[o] = fields[o] /\ count'[o] = count[o],
           \A f \in Frame : In(stack, f) => frame'[f].temps = frame[f].temps,
           \A s \in Slot :
              \/ edge'[s] = edge[s] \/ s = FallingSlot
              \/ \E o \in Object : count[o] = 0 /\ \E i \in Index : s = <<o, i>>
              \/ \E f \in Frame : ~ In(stack, f) /\ \E i \in Local : s = <<f, i>>
              \/ \E c \in Chunk : /\ \A f \in Frame : In(stack, f) => ~ In(frame[f].temps, c)
                                  /\ \E i \in 1..ChunkSlots : s = <<c, i>>
    PROVE  StepsSound'
  <1>1. PICK P \in SUBSET Object : Supported(P) /\ NamedIn(P)
    BY OperandsSupported DEF IInv, Sound, StepsSound
  <1>2. \A o \in P : count[o] > 0
    BY <1>1, SupportedLive
  <1>3. SteadyValues(P)
    BY <1>2 DEF SteadyValues
  <1>4. SteadyRegisters /\ SteadyTargets
    BY RegistersSteady, TargetsSteady
  <1>5. ASSUME NEW s \in Slot, Lasting(s, P) PROVE edge'[s] = edge[s]
    <2>1. s # FallingSlot
      BY <1>5, LastingDiffers
    <2>2. ASSUME NEW o \in Object, count[o] = 0, NEW i \in Index, s = <<o, i>> PROVE FALSE
      BY <1>2, <1>5, <2>2, LastingDiffers
    <2>3. ASSUME NEW f \in Frame, ~ In(stack, f), NEW i \in Local, s = <<f, i>> PROVE FALSE
      BY <1>5, <2>3, LastingDiffers
    <2>4. ASSUME NEW c \in Chunk, \A f \in Frame : In(stack, f) => ~ In(frame[f].temps, c),
                 NEW i \in 1..ChunkSlots, s = <<c, i>>
          PROVE  FALSE
      BY <1>5, <2>4, LastingDiffers
    <2> QED
      BY <2>1, <2>2, <2>3, <2>4
  <1>6. Supported(P)'
    BY <1>1, <1>5, SupportSteady
  <1>7. Ahead(0) /\ (hand' # None => Ends(1)')
    <2>1. Ahead(0)
      BY AheadForms DEF IInv, Sound, Typed
    <2>2. hand # None => Ends(1)
      BY DEF IInv, Sound, StepsSound, StepsFormed
    <2>3. Ends(1) => Ends(1)'
      BY <2>1, EndsAhead
    <2> QED
      BY <2>1, <2>2, <2>3
  <1> QED
    BY <1>1, <1>3, <1>4, <1>6, <1>7, StepsKept DEF IInv, Sound

(* A dead value's next field falls.                                        *)
ObjectsOnly == UNCHANGED <<frameVars, chunkVars, reg, hand, spent, todo, program>>

(* A unit hands the next field of a dead value to rc_drop. *)
LEMMA VisitField ==
    ASSUME Typed, HeapSound, ObjectsOnly, UNCHANGED <<kind, count, fields>>, falling = None,
           NEW o \in Object, NEW c \in Nat, c = Progress(o), c < Len(fields[o]),
           falling' = fields[o][c + 1], Progress(o)' = c + 1,
           \A p \in Object \ {o} : Progress(p)' = Progress(p)
    PROVE  /\ StepForm /\ SameEdges({FallingSlot, <<o, c + 1>>}) /\ c + 1 \in Index
           /\ falling' \in Value
  <1>1. Len(fields[o]) \in Nat /\ Len(fields[o]) <= MaxWidth /\ MaxWidth \in Nat
    BY ConstantsAssumption DEF Typed, HeapSound
  <1>2. c + 1 \in Index /\ c + 1 \in 1..Len(fields[o])
    BY <1>1 DEF Index
  <1>3. falling' \in Value
    BY <1>2 DEF Typed
  <1> DEFINE t == <<o, c + 1>>
  <1>4. SameFields({FallingSlot, t})
    <2> SUFFICES ASSUME NEW p \in Object, NEW i \in Index, <<p, i>> # t
                 PROVE  FieldEdge(p, i)' = FieldEdge(p, i)
      BY DEF SameFields
    <2>1. CASE p = o
      <3>1. i # c + 1 /\ i \in Nat
        BY <2>1 DEF Index
      <3> QED
        BY <2>1, <3>1 DEF FieldEdge
    <2>2. CASE p # o
      BY <2>2 DEF FieldEdge
    <2> QED
      BY <2>1, <2>2
  <1>5. SameEdges({FallingSlot, t})
    <2>1. SameLocals({FallingSlot, t}) /\ SameChunks({FallingSlot, t}) /\ SameRegisters({FallingSlot, t})
      BY LocalsUnchanged, ChunksUnchanged, RegistersUnchanged DEF ObjectsOnly, frameVars, chunkVars
    <2>2. Counted(hand') = Counted(hand) /\ FallingSlot \in {FallingSlot, t}
      BY DEF ObjectsOnly
    <2> HIDE DEF t
    <2> QED
      BY ONLY <1>4, <2>1, <2>2, OthersKept
  <1>6. edge[FallingSlot] = None /\ edge'[FallingSlot] = Counted(fields[o][c + 1])
    <2>1. None \notin Object
      BY ConstantsAssumption
    <2> QED
      BY <2>1, Forms, FormsNext DEF EdgeForms, Counted
  <1>7. edge[t] = Counted(fields[o][c + 1])
    <2>1. edge[t] = FieldEdge(o, c + 1)
      BY <1>2, Forms DEF EdgeForms
    <2>2. c < c + 1 /\ c + 1 <= Len(fields[o])
      BY <1>2
    <2> QED
      BY <2>1, <2>2 DEF FieldEdge
  <1>8. edge'[t] = None
    <2>1. edge'[t] = FieldEdge(o, c + 1)'
      BY <1>2, FormsNext DEF EdgeForms
    <2>2. ~ (c + 1 < c + 1)
      OBVIOUS
    <2> QED
      BY <2>1, <2>2 DEF FieldEdge
  <1>9. FallingSlot \in Slot /\ FallingSlot \in RootSlot /\ t \in Slot /\ FallingSlot # t
    BY <1>2, SlotForms, Differ
  <1>10. status' = status
    BY DEF status, Free, Live
  <1>11. StepForm
    <2> HIDE DEF t
    <2> QED
      BY <1>5, <1>6, <1>7, <1>8, <1>9, <1>10, MovedForm
  <1> QED
    BY <1>2, <1>3, <1>5, <1>11

(* A dead value whose fields have all fallen is freed.                     *)
LEMMA RetireObject ==
    ASSUME Typed, HeapSound, ObjectsOnly, falling' = falling,
           NEW o \in Object, Dead(o), Progress(o) = Len(fields[o]), FinishObject(o),
           \A p \in Object \ {o} : Progress(p)' = Progress(p)
    PROVE  StepForm /\ (\A s \in Slot : edge'[s] = edge[s])
  <1>1. /\ \A p \in Object \ {o} : /\ kind'[p] = kind[p] /\ count'[p] = count[p]
                                   /\ fields'[p] = fields[p]
        /\ status' = [status EXCEPT ![o] = "free"]
        /\ count' = [count EXCEPT ![o] = 0]
        /\ \A i \in Index : FieldEdge(o, i)' = None
    BY FinishFacts
  <1>2. \A i \in Index : FieldEdge(o, i) = None
    <2>1. Len(fields[o]) \in Nat
      BY DEF Typed
    <2>2. \A i \in Index : ~ (Progress(o) < i /\ i <= Len(fields[o]))
      BY <2>1 DEF Index
    <2> QED
      BY <2>2 DEF FieldEdge
  <1>3. SameFields({})
    <2> SUFFICES ASSUME NEW p \in Object, NEW i \in Index
                 PROVE  FieldEdge(p, i)' = FieldEdge(p, i)
      BY DEF SameFields
    <2>1. CASE p = o
      BY <1>1, <1>2, <2>1
    <2>2. CASE p # o
      BY <1>1, <2>2 DEF FieldEdge
    <2> QED
      BY <2>1, <2>2
  <1>4. \A s \in Slot : edge'[s] = edge[s]
    <2>1. SameLocals({}) /\ SameChunks({}) /\ SameRegisters({})
      BY LocalsUnchanged, ChunksUnchanged, RegistersUnchanged DEF ObjectsOnly, frameVars, chunkVars
    <2>2. SameEdges({})
      BY <1>3, <2>1, OthersKept DEF ObjectsOnly
    <2> QED
      BY <2>2 DEF SameEdges
  <1>5. \A i \in Index : edge[<<o, i>>] = None
    BY <1>2, Forms DEF EdgeForms
  <1>6. count' = count /\ status[o] = "dying"
    <2>1. count[o] = 0
      BY DEF Dead
    <2> QED
      BY <1>1, <2>1 DEF Typed, Dead, status, Free, Live
  <1>7. Refs!Reclaims(edge, edge', count, count')
    <2>1. Refs!GivesUp(edge, o)
      BY <1>5, ConstantsAssumption DEF Refs!GivesUp
    <2> QED
      BY <1>1, <1>4, <1>6, <2>1, RefsSlots DEF Refs!Reclaims, Refs!Becomes, Refs!Kept
  <1> QED
    BY <1>4, <1>7 DEF StepForm, Refs!StepForms

(* The heap stays in order when a dead value is freed.                     *)
LEMMA DeadFinished ==
    ASSUME Typed, HeapSound, NEW o \in Object, FinishObject(o),
           \/ active' = active /\ activeCursor' = activeCursor /\ active # o
           \/ active' = None
    PROVE  HeapSound'
  <1>1. /\ kind'[o] = "FREE" /\ count'[o] = 0 /\ fields'[o] = <<>> /\ cursor'[o] = 0
        /\ \A p \in Object \ {o} : /\ kind'[p] = kind[p] /\ count'[p] = count[p]
                                   /\ fields'[p] = fields[p] /\ cursor'[p] = cursor[p]
    BY FinishFacts
  <1>2. Len(fields'[o]) = 0 /\ MaxWidth \in Nat
    BY <1>1, EmptySeq, ConstantsAssumption
  <1>3. \A p \in Object \ {o} : (Free(p)' <=> Free(p)) /\ (Live(p)' <=> Live(p))
    BY <1>1 DEF Free, Live
  <1>4. ASSUME NEW p \in Object
        PROVE  /\ Free(p)' => count'[p] = 0 /\ fields'[p] = <<>>
               /\ Free(p)' \/ Live(p)' => cursor'[p] = 0
               /\ Len(fields'[p]) <= MaxWidth /\ cursor'[p] <= Len(fields'[p])
               /\ kind'[p] \in {"LIST", "SCALAR_RECORD"} => fields'[p] = <<>>
               /\ kind'[p] = "REFERENCES_IMMORTAL" =>
                     \A i \in 1..Len(fields'[p]) : fields'[p][i] \notin Object
               /\ kind'[p] = "TEXT" => Len(fields'[p]) <= 1
    <2>1. CASE p = o
      BY <1>1, <1>2, <2>1
    <2>2. CASE p # o
      BY <1>1, <1>3, <2>2 DEF HeapSound
    <2> QED
      BY <2>1, <2>2
  <1>5. active' # None => activeCursor' <= Len(fields'[active'])
    <2>1. ASSUME active' = active, active # None, active # o
          PROVE  fields'[active] = fields[active] /\ activeCursor <= Len(fields[active])
      <3>1. active \in Object
        BY <2>1 DEF Typed
      <3> QED
        BY <1>1, <2>1, <3>1 DEF HeapSound
    <2> QED
      BY <2>1
  <1> QED
    BY <1>4, <1>5 DEF HeapSound
(* The old batch's next task leaves its queue.                             *)
TakenFrom(o, newRecent, newOld) ==
    /\ newRecent \in Seq(Object) /\ newOld \in Seq(Object)
    /\ Distinct(newRecent) /\ Distinct(newOld)
    /\ \A x \in Object : ~ (In(newRecent, x) /\ In(newOld, x))
    /\ \A x \in Object : In(newRecent, x) \/ In(newOld, x) <=> Dead(x) /\ x # o

(* The old task a poll goes on with. *)
LEMMA OldTask ==
    ASSUME Typed, HeapSound, QueueSound, Ready(0), NEW o, NEW c,
           o = (IF active # None THEN active ELSE OldBatch[1]),
           c = (IF active # None THEN activeCursor ELSE SavedCursor(o))
    PROVE  /\ o \in Object /\ Dead(o) /\ c \in Nat /\ c = Progress(o) /\ c <= Len(fields[o])
           /\ \A p \in Object \ {o} : p # active
           /\ TakenFrom(o, RecentBatch, IF active # None THEN OldBatch ELSE Tail(OldBatch))
  <1>1. /\ recent \in Seq(Object) /\ old \in Seq(Object) /\ active \in Object \cup {None}
        /\ None \notin Object
        /\ Distinct(recent) /\ Distinct(old)
        /\ \A x \in Object : /\ ~ (In(recent, x) /\ In(old, x))
                             /\ x = active => ~ In(recent, x) /\ ~ In(old, x)
                             /\ Dead(x) <=> In(recent, x) \/ In(old, x) \/ x = active
    BY ConstantsAssumption DEF Typed, QueueSound
  <1>2. /\ cursor \in [Object -> Nat] /\ activeCursor \in Nat
        /\ \A x \in Object : cursor[x] <= Len(fields[x])
        /\ active # None => activeCursor <= Len(fields[active])
    BY DEF Typed, HeapSound
  <1>3. <<>> \in Seq(Object) /\ Distinct(<<>>) /\ \A x : ~ In(<<>>, x)
    BY DEF Distinct, In
  <1>4. CASE active # None
    <2>1. OldBatch = old /\ RecentBatch = recent /\ o = active /\ c = activeCursor
      BY <1>4 DEF OldBatch, RecentBatch, Capture
    <2>2. TakenFrom(o, recent, old)
      BY <1>1, <1>4, <2>1 DEF TakenFrom
    <2> QED
      BY <1>1, <1>2, <1>4, <2>1, <2>2 DEF Progress
  <1>5. ASSUME active = None, old # <<>>
        PROVE  /\ OldBatch = old /\ RecentBatch = recent
               /\ TakenFrom(old[1], recent, Tail(old)) /\ old[1] \in Object /\ Dead(old[1])
    <2>1. OldBatch = old /\ RecentBatch = recent
      BY <1>5 DEF OldBatch, RecentBatch, Capture
    <2>2. /\ Tail(old) \in Seq(Object) /\ old[1] \in Object
          /\ \A x : In(old, x) <=> x = old[1] \/ In(Tail(old), x)
          /\ Distinct(Tail(old)) /\ ~ In(Tail(old), old[1])
      BY <1>1, <1>5, TailFacts
    <2>3. \A x \in Object : Dead(x) <=> In(recent, x) \/ In(old, x)
      BY <1>1, <1>5
    <2>4. \A x \in Object : In(recent, x) \/ In(Tail(old), x) <=> Dead(x) /\ x # old[1]
      BY <1>1, <2>2, <2>3
    <2>5. TakenFrom(old[1], recent, Tail(old))
      BY <1>1, <2>2, <2>4 DEF TakenFrom
    <2> QED
      BY <2>1, <2>2, <2>3, <2>5
  <1>6. ASSUME active = None, old = <<>>
        PROVE  /\ OldBatch = recent /\ RecentBatch = <<>>
               /\ TakenFrom(recent[1], <<>>, Tail(recent)) /\ recent[1] \in Object
               /\ Dead(recent[1])
    <2>1. OldBatch = recent /\ RecentBatch = <<>>
      BY <1>6 DEF OldBatch, RecentBatch, Capture
    <2>2. recent # <<>>
      BY <1>6 DEF Ready
    <2>3. /\ Tail(recent) \in Seq(Object) /\ recent[1] \in Object
          /\ \A x : In(recent, x) <=> x = recent[1] \/ In(Tail(recent), x)
          /\ Distinct(Tail(recent)) /\ ~ In(Tail(recent), recent[1])
      BY <1>1, <2>2, TailFacts
    <2>4. \A x \in Object : Dead(x) <=> In(recent, x)
      BY <1>1, <1>3, <1>6
    <2>5. TakenFrom(recent[1], <<>>, Tail(recent))
      BY <1>3, <2>3, <2>4 DEF TakenFrom
    <2> QED
      BY <2>1, <2>3, <2>4, <2>5
  <1>7. CASE active = None
    <2>1. o = OldBatch[1] /\ c = cursor[o]
      BY <1>7 DEF SavedCursor
    <2>2. /\ o \in Object /\ Dead(o)
          /\ TakenFrom(o, RecentBatch, Tail(OldBatch))
      <3>1. CASE old # <<>>
        BY <1>5, <1>7, <2>1, <3>1
      <3>2. CASE old = <<>>
        BY <1>6, <1>7, <2>1, <3>2
      <3> QED
        BY <3>1, <3>2
    <2> QED
      BY <1>1, <1>2, <1>7, <2>1, <2>2 DEF Progress
  <1> QED
    BY <1>4, <1>7

(* Taking a task, and keeping it or letting it go.                         *)
LEMMA TaskKept ==
    ASSUME Typed, NEW o \in Object, Dead(o), TakenFrom(o, recent', old'), active' = o,
           UNCHANGED <<kind, count>>
    PROVE  QueueSound'
  <1>1. \A x \in Object : Dead(x)' <=> Dead(x)
    BY DEF Dead
  <1>2. /\ Distinct(recent') /\ Distinct(old')
        /\ \A x \in Object : ~ (In(recent', x) /\ In(old', x))
        /\ \A x \in Object : In(recent', x) \/ In(old', x) <=> Dead(x) /\ x # o
    BY DEF TakenFrom
  <1>3. /\ Distinct(recent)' <=> Distinct(recent')
        /\ Distinct(old)' <=> Distinct(old')
        /\ \A x : (In(recent, x)' <=> In(recent', x)) /\ (In(old, x)' <=> In(old', x))
    BY DEF Distinct, In
  <1> QED
    BY <1>1, <1>2, <1>3 DEF QueueSound

(* A dead value with no field left is freed. *)
LEMMA TaskRetired ==
    ASSUME Typed, NEW o \in Object, Dead(o), FinishObject(o), TakenFrom(o, recent', old'),
           active' = None
    PROVE  QueueSound'
  <1>1. ~ Dead(o)' /\ \A x \in Object \ {o} : Dead(x)' <=> Dead(x)
    BY FinishFacts DEF Dead
  <1>2. /\ Distinct(recent') /\ Distinct(old')
        /\ \A x \in Object : ~ (In(recent', x) /\ In(old', x))
        /\ \A x \in Object : In(recent', x) \/ In(old', x) <=> Dead(x) /\ x # o
    BY DEF TakenFrom
  <1>3. /\ Distinct(recent)' <=> Distinct(recent')
        /\ Distinct(old)' <=> Distinct(old')
        /\ \A x : (In(recent, x)' <=> In(recent', x)) /\ (In(old, x)' <=> In(old', x))
    BY DEF Distinct, In
  <1>4. None \notin Object
    BY ConstantsAssumption
  <1> QED
    BY <1>1, <1>2, <1>3, <1>4 DEF QueueSound

(* The rest of the invariant after a unit of object work.                  *)
LEMMA ObjectUnitKeepsRest ==
    ASSUME IInv, ObjectsOnly,
           \A o \in Object : count[o] > 0 =>
              kind'[o] = kind[o] /\ fields'[o] = fields[o] /\ count'[o] = count[o],
           NEW v \in Object, count[v] = 0, NEW c,
           \A s \in Slot : s # FallingSlot /\ s # <<v, c>> => edge'[s] = edge[s], c \in Index
    PROVE  FrameSound' /\ ChunkSound' /\ StepsSound'
  <1> USE DEF ObjectsOnly, frameVars, chunkVars
  <1>1. FrameSound' /\ ChunkSound'
    BY FrameUnchanged, ChunkUnchanged DEF IInv, Sound, Dropping
  <1>2. SteadyFrames
    BY FramesSteady
  <1>3. \A s \in Slot :
              \/ edge'[s] = edge[s] \/ s = FallingSlot
              \/ \E o \in Object : count[o] = 0 /\ \E i \in Index : s = <<o, i>>
    OBVIOUS
  <1>4. StepsSound'
    BY <1>2, <1>3, PollKeepsSteps
  <1> QED
    BY <1>1, <1>4

LEMMA OldObjectSound ==
    ASSUME IInv, ObjectsOnly, falling = None, Ready(0), OldObjectUnit
    PROVE  StepForm /\ Sound'
  <1> USE DEF ObjectsOnly, frameVars, chunkVars
  <1>1. Typed /\ HeapSound /\ QueueSound
    BY DEF IInv, Sound
  <1>2. PICK o, c :
          /\ o = (IF active # None THEN active ELSE OldBatch[1])
          /\ c = (IF active # None THEN activeCursor ELSE SavedCursor(o))
    OBVIOUS
  <1>3. /\ o \in Object /\ Dead(o) /\ c \in Nat /\ c = Progress(o) /\ c <= Len(fields[o])
        /\ \A p \in Object \ {o} : p # active
        /\ TakenFrom(o, RecentBatch, IF active # None THEN OldBatch ELSE Tail(OldBatch))
    BY <1>1, <1>2, OldTask
  <1>4. /\ recent' = RecentBatch
        /\ old' = IF active # None THEN OldBatch ELSE Tail(OldBatch)
        /\ \/ /\ c < Len(fields[o])
              /\ active' = o
              /\ activeCursor' = c + 1
              /\ VisitUnit(fields[o][c + 1])
           \/ /\ c = Len(fields[o])
              /\ active' = None
              /\ activeCursor' = 0
              /\ FinishObject(o)
              /\ RetireUnit
    BY <1>2 DEF OldObjectUnit
  <1>5. TakenFrom(o, recent', old') /\ recent' \in Seq(Object) /\ old' \in Seq(Object)
    BY <1>3, <1>4 DEF TakenFrom
  <1>6. count[o] = 0 /\ kind[o] # "FREE"
    BY <1>3 DEF Dead
  <1>7. CASE c < Len(fields[o]) /\ active' = o /\ activeCursor' = c + 1 /\ VisitUnit(fields[o][c + 1])
    <2>1. UNCHANGED heapVars /\ falling' = fields[o][c + 1]
      BY <1>7 DEF VisitUnit
    <2>2. /\ Progress(o)' = c + 1
          /\ \A p \in Object \ {o} : Progress(p)' = Progress(p)
      BY <1>3, <1>7, <2>1 DEF Progress, heapVars
    <2>3. /\ StepForm /\ SameEdges({FallingSlot, <<o, c + 1>>}) /\ c + 1 \in Index
          /\ falling' \in Value
      BY <1>1, <1>3, <1>7, <2>1, <2>2, VisitField DEF heapVars
    <2>4. Typed'
      BY SMTT(60), <1>1, <1>3, <1>5, <1>7, <2>1, <2>3 DEF Typed, heapVars
    <2>5. HeapSound'
      <3>1. c + 1 <= Len(fields[o])
        BY <1>1, <1>3, <1>7 DEF Typed
      <3> QED
        BY <1>1, <1>7, <2>1, <3>1 DEF HeapSound, heapVars, Free, Live
    <2>6. QueueSound'
      BY <1>1, <1>3, <1>5, <1>7, <2>1, TaskKept DEF heapVars
    <2>7. FrameSound' /\ ChunkSound' /\ StepsSound'
      <3>1. \A s \in Slot : s # FallingSlot /\ s # <<o, c + 1>> => edge'[s] = edge[s]
        BY <2>3 DEF SameEdges
      <3>2. \A p \in Object : kind'[p] = kind[p] /\ fields'[p] = fields[p] /\ count'[p] = count[p]
        BY <2>1 DEF heapVars
      <3> HIDE DEF ObjectsOnly
      <3> QED
        BY <1>3, <1>6, <2>3, <3>1, <3>2, ObjectUnitKeepsRest
    <2> QED
      BY <2>3, <2>4, <2>5, <2>6, <2>7 DEF Sound
  <1>8. CASE /\ c = Len(fields[o]) /\ active' = None /\ activeCursor' = 0
             /\ FinishObject(o) /\ RetireUnit
    <2>1. /\ \A p \in Object \ {o} : /\ kind'[p] = kind[p] /\ count'[p] = count[p]
                                     /\ fields'[p] = fields[p] /\ cursor'[p] = cursor[p]
          /\ kind' \in [Object -> Kinds] /\ count' \in [Object -> Nat]
          /\ fields' \in [Object -> Seq(Value)] /\ cursor' \in [Object -> Nat]
      BY <1>1, <1>3, <1>8, FinishFacts
    <2>2. falling' = falling
      BY <1>8 DEF RetireUnit
    <2>3. \A p \in Object \ {o} : Progress(p)' = Progress(p)
      BY <1>3, <1>8, <2>1, ConstantsAssumption DEF Progress
    <2>4. StepForm /\ (\A s \in Slot : edge'[s] = edge[s])
      BY <1>1, <1>3, <1>8, <2>2, <2>3, RetireObject
    <2>5. Typed'
      BY <1>1, <1>5, <1>8, <2>1, <2>2 DEF Typed
    <2>6. HeapSound'
      BY <1>1, <1>3, <1>8, DeadFinished
    <2>7. QueueSound'
      BY <1>1, <1>3, <1>5, <1>8, TaskRetired
    <2>8. FrameSound' /\ ChunkSound' /\ StepsSound'
      <3>1. \A p \in Object : count[p] > 0 =>
               kind'[p] = kind[p] /\ fields'[p] = fields[p] /\ count'[p] = count[p]
        BY <1>6, <2>1
      <3>2. 1 \in Index
        BY ConstantsAssumption DEF Index
      <3> HIDE DEF ObjectsOnly
      <3> QED
        BY <1>3, <1>6, <2>4, <3>1, <3>2, ObjectUnitKeepsRest
    <2> QED
      BY <2>4, <2>5, <2>6, <2>7, <2>8 DEF Sound
  <1> QED
    BY <1>4, <1>7, <1>8
LEMMA RecentObjectSound ==
    ASSUME IInv, ObjectsOnly, falling = None, recent # <<>>, RecentObjectUnit
    PROVE  StepForm /\ Sound'
  <1> USE DEF ObjectsOnly, frameVars, chunkVars
  <1>1. Typed /\ HeapSound /\ QueueSound
    BY DEF IInv, Sound
  <1> PICK o : o = recent[1]
    OBVIOUS
  <1>2. /\ o \in Object /\ Tail(recent) \in Seq(Object) /\ In(recent, o)
        /\ \A x : In(recent, x) <=> x = o \/ In(Tail(recent), x)
        /\ Distinct(Tail(recent)) /\ ~ In(Tail(recent), o)
    <2>1. recent \in Seq(Object) /\ Distinct(recent)
      BY <1>1 DEF Typed, QueueSound
    <2> QED
      BY <2>1, TailFacts
  <1>3. Dead(o) /\ o # active /\ ~ In(old, o) /\ count[o] = 0 /\ kind[o] # "FREE"
    BY <1>1, <1>2 DEF QueueSound, Dead
  <1>4. Progress(o) = cursor[o] /\ cursor[o] \in Nat /\ cursor[o] <= Len(fields[o])
    BY <1>1, <1>2, <1>3 DEF Progress, Typed, HeapSound
  <1>5. UNCHANGED <<old, active, activeCursor>>
    BY DEF RecentObjectUnit
  <1>6. CASE /\ cursor[o] < Len(fields[o])
             /\ cursor' = [cursor EXCEPT ![o] = @ + 1]
             /\ falling' = fields[o][cursor[o] + 1]
             /\ UNCHANGED <<kind, count, fields, recent, pending>>
    <2> PICK c : c = cursor[o]
      OBVIOUS
    <2>1. /\ cursor'[o] = c + 1 /\ \A p \in Object \ {o} : cursor'[p] = cursor[p]
          /\ cursor' \in [Object -> Nat]
      <3>1. cursor \in [Object -> Nat]
        BY <1>1 DEF Typed
      <3>3. c \in Nat
        BY <1>4
      <3>4. c + 1 \in Nat
        BY ONLY <3>3
      <3>2. cursor' = [cursor EXCEPT ![o] = c + 1]
        BY <1>6
      <3> HIDE DEF ObjectsOnly
      <3> QED
        BY ONLY <1>2, <3>1, <3>2, <3>4
    <2>2. /\ Progress(o)' = c + 1
          /\ \A p \in Object \ {o} : Progress(p)' = Progress(p)
      BY <1>3, <1>5, <2>1 DEF Progress
    <2>3. /\ StepForm /\ SameEdges({FallingSlot, <<o, c + 1>>}) /\ c + 1 \in Index
          /\ falling' \in Value
      BY <1>1, <1>2, <1>4, <1>6, <2>2, VisitField
    <2>4. Typed'
      BY <1>1, <1>5, <1>6, <2>1, <2>3 DEF Typed
    <2>5. HeapSound'
      <3>1. c + 1 <= Len(fields[o])
        BY SMTT(60), <1>1, <1>2, <1>4, <1>6 DEF Typed
      <3> QED
        BY <1>1, <1>3, <1>5, <1>6, <2>1, <3>1 DEF HeapSound, Free, Live
    <2>6. QueueSound'
      BY <1>1, <1>5, <1>6, QueueUnchanged
    <2>7. FrameSound' /\ ChunkSound' /\ StepsSound'
      <3>1. \A s \in Slot : s # FallingSlot /\ s # <<o, c + 1>> => edge'[s] = edge[s]
        BY <2>3 DEF SameEdges
      <3>2. \A p \in Object : kind'[p] = kind[p] /\ fields'[p] = fields[p] /\ count'[p] = count[p]
        BY <1>6
      <3> HIDE DEF ObjectsOnly
      <3> QED
        BY <1>2, <1>3, <2>3, <3>1, <3>2, ObjectUnitKeepsRest
    <2> QED
      BY <2>3, <2>4, <2>5, <2>6, <2>7 DEF Sound
  <1>7. CASE /\ cursor[o] = Len(fields[o]) /\ recent' = Tail(recent)
             /\ FinishObject(o) /\ RetireUnit
    <2>1. /\ \A p \in Object \ {o} : /\ kind'[p] = kind[p] /\ count'[p] = count[p]
                                     /\ fields'[p] = fields[p] /\ cursor'[p] = cursor[p]
          /\ kind' \in [Object -> Kinds] /\ count' \in [Object -> Nat]
          /\ fields' \in [Object -> Seq(Value)] /\ cursor' \in [Object -> Nat]
          /\ kind'[o] = "FREE"
      BY <1>1, <1>2, <1>7, FinishFacts
    <2>2. falling' = falling
      BY <1>7 DEF RetireUnit
    <2>3. \A p \in Object \ {o} : Progress(p)' = Progress(p)
      BY <1>5, <2>1 DEF Progress
    <2>4. StepForm /\ (\A s \in Slot : edge'[s] = edge[s])
      BY <1>1, <1>2, <1>3, <1>4, <1>7, <2>2, <2>3, RetireObject
    <2>5. Typed'
      BY <1>1, <1>2, <1>5, <1>7, <2>1, <2>2 DEF Typed
    <2>6. HeapSound'
      BY <1>1, <1>2, <1>3, <1>5, <1>7, DeadFinished
    <2>7. QueueSound'
      <3>1. ~ Dead(o)' /\ \A x \in Object \ {o} : Dead(x)' <=> Dead(x)
        BY <2>1 DEF Dead
      <3>2. \A x : In(recent, x)' <=> In(Tail(recent), x)
        BY <1>7 DEF In
      <3>3. Distinct(recent)'
        BY <1>2, <1>7 DEF Distinct
      <3>4. (\A x : In(old, x)' <=> In(old, x)) /\ (Distinct(old)' <=> Distinct(old))
        BY <1>5 DEF In, Distinct
      <3>5. ASSUME NEW x \in Object
            PROVE  /\ ~ (In(Tail(recent), x) /\ In(old, x))
                   /\ x = active => ~ In(Tail(recent), x) /\ ~ In(old, x)
                   /\ Dead(x)' <=> In(Tail(recent), x) \/ In(old, x) \/ x = active
        BY <1>1, <1>2, <1>3, <3>1 DEF QueueSound
      <3> QED
        BY <1>1, <1>5, <3>2, <3>3, <3>4, <3>5 DEF QueueSound
    <2>8. FrameSound' /\ ChunkSound' /\ StepsSound'
      <3>1. \A p \in Object : count[p] > 0 =>
               kind'[p] = kind[p] /\ fields'[p] = fields[p] /\ count'[p] = count[p]
        BY <1>3, <2>1
      <3>2. 1 \in Index
        BY ConstantsAssumption DEF Index
      <3> HIDE DEF ObjectsOnly
      <3> QED
        BY <1>2, <1>3, <2>4, <3>1, <3>2, ObjectUnitKeepsRest
    <2> QED
      BY <2>4, <2>5, <2>6, <2>7, <2>8 DEF Sound
  <1> QED
    BY <1>6, <1>7 DEF RecentObjectUnit

(* A unit of the queues of dead values. *)
LEMMA ObjectUnitSound ==
    ASSUME IInv, UNCHANGED <<reg, hand, spent, todo, program>>, falling = None, Ready(0), ObjectUnit
    PROVE  StepForm /\ Sound'
  <1>1. ObjectsOnly
    BY DEF ObjectUnit, ObjectsOnly
  <1>2. UseRecent => recent # <<>>
    BY DEF UseRecent, RecentBatch
  <1> QED
    BY <1>1, <1>2, OldObjectSound, RecentObjectSound DEF ObjectUnit
(* A step writes one frame that is off the stack.                          *)
LEMMA FrameWritten ==
    ASSUME Typed, NEW f \in Frame, NEW r \in FrameRecord, frame' = [frame EXCEPT ![f] = r]
    PROVE  /\ frame' \in [Frame -> FrameRecord] /\ frame'[f] = r
           /\ \A g \in Frame \ {f} : frame'[g] = frame[g]
  <1>1. frame \in [Frame -> FrameRecord]
    BY DEF Typed
  <1> QED
    BY ONLY <1>1, f \in Frame, r \in FrameRecord, frame' = [frame EXCEPT ![f] = r]

LEMMA RecordWrites ==
    ASSUME NEW r \in FrameRecord, NEW n \in 0..MaxLocals
    PROVE  /\ [r EXCEPT !.localCount = n] \in FrameRecord
           /\ [r EXCEPT !.localCount = n].localCount = n
           /\ [r EXCEPT !.localCount = n].locals = r.locals
           /\ [r EXCEPT !.localCount = n].written = r.written
           /\ [r EXCEPT !.localCount = n].temps = r.temps
           /\ [r EXCEPT !.localCount = n].capacity = r.capacity
  BY DEF FrameRecord

LEMMA UnusedFrameFacts ==
    /\ UnusedFrame \in FrameRecord
    /\ UnusedFrame.localCount = 0 /\ UnusedFrame.written = <<>> /\ UnusedFrame.temps = <<>>
    /\ \A i \in Local : UnusedFrame.locals[i] = EmptyLocal
    /\ EmptyLocal.ref = None /\ EmptyLocal.tag = FALSE /\ EmptyLocal \in LocalSlot
  <1>1. EmptyLocal \in LocalSlot /\ EmptyLocal.ref = None /\ EmptyLocal.tag = FALSE
    BY DEF EmptyLocal, LocalSlot, Value
  <1>2. [i \in Local |-> EmptyLocal] \in [Local -> LocalSlot]
    BY <1>1
  <1>3. <<>> \in Seq(Local) /\ <<>> \in Seq(Chunk) /\ 0 \in 0..MaxLocals /\ 0 \in Nat /\ FALSE \in BOOLEAN
    BY ConstantsAssumption
  <1>4. UnusedFrame \in FrameRecord
    BY ONLY <1>2, <1>3 DEF UnusedFrame, FrameRecord
  <1> QED
    BY <1>1, <1>4 DEF UnusedFrame

LEMMA FramesSteadyBut ==
    ASSUME Typed, NEW f \in Frame, ~ In(stack, f),
           \A g \in Frame \ {f} : frame'[g] = frame[g],
           UNCHANGED <<stack, chunk, chunkQueue>>,
           UnusedFrames \subseteq UnusedFrames', freeFrames # <<>> => freeFrames' # <<>>
    PROVE  SteadyFrames /\ \A g \in Frame : In(stack, g) => frame'[g].temps = frame[g].temps
  <1>1. \A g \in Frame : In(stack, g) => frame'[g] = frame[g]
    OBVIOUS
  <1>2. stack \in Seq(Frame)
    BY DEF Typed
  <1>3. \A g : g \in ToSet(stack) => g \in Frame /\ In(stack, g)
    BY <1>2, ToSetIn
  <1>4. stack # <<>> => Top \in Frame /\ In(stack, Top)
    BY <1>2, ToSetIn DEF Top
  <1>5. Top' = Top
    BY DEF Top
  <1>6. UsedChunks' = UsedChunks
    <2>1. \A g \in ToSet(stack) : frame'[g].temps = frame[g].temps
      BY <1>1, <1>3
    <2> QED
      BY <2>1 DEF UsedChunks
  <1>7. UnusedChunks' = UnusedChunks
    BY <1>6 DEF UnusedChunks
  <1>8. stack # <<>> => frame'[Top] = frame[Top]
    BY <1>1, <1>4
  <1> QED
    BY <1>1, <1>7, <1>8 DEF SteadyFrames

(* A frame off the stack owns the locals it has still to visit.            *)
LEMMA OffStack ==
    ASSUME Typed, FrameSound, NEW f \in Frame, Detached(f)
    PROVE  /\ ~ In(stack, f) /\ f \notin ToSet(stack)
           /\ OwnedLocals(f) = {frame[f].written[j] : j \in 1..frame[f].localCount}
           /\ ~ In(freeFrames, f) /\ ~ (In(frameQueue, f) /\ Dropping(f))
           /\ frame[f].localCount \in Nat /\ Len(frame[f].written) \in Nat
           /\ frame[f].localCount <= Len(frame[f].written)
           /\ \A j \in 1..frame[f].localCount : frame[f].written[j] \in Local
           /\ frame[f].temps = <<>> /\ frame[f] \in FrameRecord
           /\ Distinct(frame[f].written)
  <1>1. ~ In(stack, f)
    BY DEF FrameSound, FrameShape
  <1>2. f \notin ToSet(stack)
    BY <1>1, ToSetIn DEF Typed
  <1>3. frame[f] \in FrameRecord /\ frame[f].written \in Seq(Local) /\ frame[f].localCount \in Nat
    <2>1. frame[f] \in FrameRecord
      BY DEF Typed
    <2>2. frame[f].written \in Seq(Local) /\ frame[f].localCount \in 0..MaxLocals
      BY <2>1 DEF FrameRecord
    <2> QED
      BY <2>1, <2>2
  <1>4. frame[f].localCount <= Len(frame[f].written)
    BY DEF FrameSound, FrameShape
  <1>5. Len(frame[f].written) \in Nat
        /\ \A j \in 1..Len(frame[f].written) : frame[f].written[j] \in Local
    BY <1>3, ToSetIn
  <1>6. \A j \in 1..frame[f].localCount : frame[f].written[j] \in Local
    BY <1>3, <1>4, <1>5
  <1>7. ~ In(freeFrames, f) /\ ~ (In(frameQueue, f) /\ Dropping(f)) /\ frame[f].temps = <<>>
        /\ Distinct(frame[f].written)
    BY <1>1 DEF FrameSound, FrameShape
  <1> QED
    BY <1>1, <1>2, <1>3, <1>4, <1>5, <1>6, <1>7 DEF OwnedLocals

(* A frame that a step leaves alone keeps its shape.                       *)
LEMMA ShapeKept ==
    ASSUME NEW g \in Frame, FrameShape(g), frame'[g] = frame[g],
           In(stack, g)' <=> In(stack, g), In(freeFrames, g)' <=> In(freeFrames, g),
           In(frameQueue, g)' <=> In(frameQueue, g), Dropping(g)' <=> Dropping(g)
    PROVE  FrameShape(g)'
  <1>1. /\ (Distinct(frame[g].written)' <=> Distinct(frame[g].written))
        /\ \A x : In(frame[g].written, x)' <=> In(frame[g].written, x)
    BY DEF Distinct, In
  <1>2. Detached(g)' <=> Detached(g)
    BY DEF Detached
  <1> QED
    BY <1>1, <1>2 DEF FrameShape

(* A frame's local falls, whether its poll or minyar_rc_leave_stack_v1     *)
(* visits it.                                                              *)
LEMMA VisitLocal ==
    ASSUME IInv, NEW f \in Frame, Detached(f), NEW n, n = frame[f].localCount, n > 0,
           frame' = [frame EXCEPT ![f].localCount = n - 1],
           falling = None, falling' = PendingLocal(f, n),
           UNCHANGED <<heapVars, recent, old, active, activeCursor, chunkVars, stack, frameQueue,
                       freeFrames, reg, hand, todo, program>>
    PROVE  StepForm /\ Sound'
  <1> USE DEF heapVars, chunkVars
  <1>1. Typed /\ FrameSound
    BY DEF IInv, Sound
  <1> PICK w : w = frame[f].written
    OBVIOUS
  <1>2. /\ ~ In(stack, f) /\ f \notin ToSet(stack)
        /\ OwnedLocals(f) = {w[j] : j \in 1..n}
        /\ n \in Nat \ {0} /\ Len(w) \in Nat /\ n <= Len(w) /\ n \in 1..Len(w)
        /\ \A j \in 1..n : w[j] \in Local
        /\ frame[f] \in FrameRecord /\ Distinct(w)
    <2>1. n \in Nat
      BY <1>1, OffStack
    <2> QED
      BY <1>1, <2>1, OffStack
  <1> PICK i : i = w[n]
    OBVIOUS
  <1>3. i \in Local
    BY <1>2
  <1>4. n - 1 \in 0..MaxLocals /\ frame[f].localCount \in 0..MaxLocals
    <2>1. frame[f].localCount \in 0..MaxLocals
      BY <1>2 DEF FrameRecord
    <2>2. n \in 0..MaxLocals /\ MaxLocals \in Nat
      BY <2>1, ConstantsAssumption
    <2> QED
      BY ONLY <1>2, <2>1, <2>2
  <1>5. /\ frame' \in [Frame -> FrameRecord] /\ \A g \in Frame \ {f} : frame'[g] = frame[g]
        /\ frame'[f].localCount = n - 1 /\ frame'[f].locals = frame[f].locals
        /\ frame'[f].written = w /\ frame'[f].temps = frame[f].temps
    <2> PICK r : r = [frame[f] EXCEPT !.localCount = n - 1]
      OBVIOUS
    <2>1. /\ r \in FrameRecord /\ r.localCount = n - 1 /\ r.locals = frame[f].locals
          /\ r.written = w /\ r.temps = frame[f].temps
      BY <1>2, <1>4, RecordWrites
    <2>2. frame' = [frame EXCEPT ![f] = r]
      OBVIOUS
    <2>3. frame' \in [Frame -> FrameRecord] /\ frame'[f] = r /\ \A g \in Frame \ {f} : frame'[g] = frame[g]
      BY <1>1, <2>1, <2>2, FrameWritten
    <2> QED
      BY <2>1, <2>3
  <1>6. falling' = frame[f].locals[i].ref /\ falling' \in Value
    <2>1. frame[f].locals[i] \in LocalSlot
      BY <1>2, <1>3 DEF FrameRecord
    <2> QED
      BY <2>1 DEF PendingLocal, LocalSlot
  <1>7. OwnedLocals(f)' = {w[j] : j \in 1..(n - 1)}
    BY <1>2, <1>5 DEF OwnedLocals
  <1>8. i \in OwnedLocals(f) /\ i \notin OwnedLocals(f)'
        /\ \A k : k # i => (k \in OwnedLocals(f)' <=> k \in OwnedLocals(f))
    <2>1. \A j \in 1..(n - 1) : j \in 1..Len(w) /\ j # n
      BY <1>2
    <2>2. \A j \in 1..(n - 1) : w[j] # i
      BY <1>2, <2>1 DEF Distinct
    <2>3. \A j \in 1..n : j = n \/ j \in 1..(n - 1)
      BY <1>2
    <2>4. \A j \in 1..(n - 1) : j \in 1..n
      BY <1>2
    <2>5. n \in 1..n
      BY <1>2
    <2> QED
      BY <1>2, <1>7, <2>2, <2>3, <2>4, <2>5
  <1> DEFINE t == <<f, i>>
  <1>9. SameEdges({FallingSlot, t})
    <2>1. SameLocals({FallingSlot, t})
      <3> SUFFICES ASSUME NEW g \in Frame, NEW k \in Local, <<g, k>> # t
                   PROVE  LocalEdge(g, k)' = LocalEdge(g, k)
        BY DEF SameLocals
      <3>1. CASE g = f
        BY <1>5, <1>8, <3>1 DEF LocalEdge
      <3>2. CASE g # f
        BY <1>5, <3>2 DEF LocalEdge, OwnedLocals
      <3> QED
        BY <3>1, <3>2
    <2>2. SameFields({FallingSlot, t}) /\ SameChunks({FallingSlot, t}) /\ SameRegisters({FallingSlot, t})
      BY FieldsUnchanged, ChunksUnchanged, RegistersUnchanged
    <2>3. Counted(hand') = Counted(hand) /\ FallingSlot \in {FallingSlot, t}
      OBVIOUS
    <2> HIDE DEF t
    <2> QED
      BY ONLY <2>1, <2>2, <2>3, OthersKept
  <1>10. /\ edge[FallingSlot] = None /\ edge'[FallingSlot] = Counted(frame[f].locals[i].ref)
         /\ edge[t] = Counted(frame[f].locals[i].ref) /\ edge'[t] = None
    <2>1. edge[FallingSlot] = None /\ edge'[FallingSlot] = Counted(frame[f].locals[i].ref)
      BY <1>6, ConstantsAssumption, Forms, FormsNext DEF EdgeForms, Counted
    <2>2. edge[t] = LocalEdge(f, i)
      BY <1>3, Forms DEF EdgeForms
    <2>3. edge'[t] = LocalEdge(f, i)'
      BY <1>3, FormsNext DEF EdgeForms
    <2> QED
      BY <1>8, <2>1, <2>2, <2>3 DEF LocalEdge
  <1>11. StepForm
    <2>1. FallingSlot \in Slot /\ FallingSlot \in RootSlot /\ t \in Slot /\ FallingSlot # t
      BY <1>3, SlotForms, Differ
    <2>2. status' = status /\ count' = count
      BY DEF status, Free, Live
    <2> HIDE DEF t
    <2> QED
      BY ONLY <1>9, <1>10, <2>1, <2>2, MovedForm
  <1>12. Typed'
    BY <1>1, <1>5, <1>6 DEF Typed
  <1>13. HeapSound' /\ QueueSound' /\ ChunkSound'
    <2>1. \A g \in Frame : frame'[g].temps = frame[g].temps
      BY <1>5
    <2> QED
      BY <2>1, HeapUnchanged, QueueUnchanged, ChunkUnchanged DEF IInv, Sound
  <1>14. \A g \in Frame : (Dropping(g)' <=> Dropping(g)) /\ (Detached(g)' <=> Detached(g))
    BY DEF Dropping, Detached, In
  <1>15. FrameSound'
    <2>1. \A s : /\ Distinct(s)' <=> Distinct(s)
                 /\ \A x : In(s, x)' <=> In(s, x)
      BY DEF Distinct, In
    <2>2. n - 1 <= Len(w) /\ Detached(f)
      BY <1>2
    <2>3. ASSUME NEW g \in Frame PROVE FrameShape(g)'
      <3>1. CASE g = f
        <4>1. frame'[f].localCount <= Len(frame'[f].written)
          BY <1>5, <2>2
        <4>2. ~ In(stack, f) /\ Detached(f) /\ frame'[f].temps = frame[f].temps
              /\ frame'[f].written = frame[f].written
          BY <1>2, <1>5
        <4>3. /\ ~ In(freeFrames, f) /\ ~ (In(frameQueue, f) /\ Dropping(f))
              /\ Distinct(frame[f].written) /\ frame[f].temps = <<>>
          BY <1>1, OffStack
        <4>4. ~ In(stack, f)' /\ Detached(f)' /\ ~ In(freeFrames, f)'
              /\ ~ (In(frameQueue, f)' /\ Dropping(f)')
          BY <1>14, <2>1, <4>2, <4>3
        <4> QED
          BY <2>1, <3>1, <4>1, <4>2, <4>3, <4>4 DEF FrameShape
      <3>2. CASE g # f
        <4>1. frame'[g] = frame[g] /\ FrameShape(g)
          BY <1>1, <1>5, <3>2 DEF FrameSound
        <4>2. (In(stack, g)' <=> In(stack, g)) /\ (In(freeFrames, g)' <=> In(freeFrames, g))
              /\ (In(frameQueue, g)' <=> In(frameQueue, g))
          BY <2>1
        <4> QED
          BY <1>14, <4>1, <4>2, ShapeKept
      <3> QED
        BY <3>1, <3>2
    <2>4. Distinct(stack) /\ Distinct(frameQueue) /\ Distinct(freeFrames)
      BY <1>1 DEF FrameSound
    <2> QED
      BY <2>1, <2>3, <2>4 DEF FrameSound
  <1>16. StepsSound'
    <2>1. UnusedFrames' = UnusedFrames
      BY DEF UnusedFrames
    <2>2. SteadyFrames /\ \A g \in Frame : In(stack, g) => frame'[g].temps = frame[g].temps
      BY <1>1, <1>2, <1>5, <2>1, FramesSteadyBut
    <2>3. \A s \in Slot :
              \/ edge'[s] = edge[s] \/ s = FallingSlot
              \/ \E g \in Frame : ~ In(stack, g) /\ \E k \in Local : s = <<g, k>>
      BY <1>2, <1>3, <1>9 DEF SameEdges
    <2> QED
      BY <2>2, <2>3, PollKeepsSteps
  <1> QED
    BY <1>11, <1>12, <1>13, <1>15, <1>16 DEF Sound

(* A frame whose locals have fallen leaves its queue, or the hands of      *)
(* minyar_rc_leave_stack_v1.                                               *)
LEMMA RetireFrameSound ==
    ASSUME IInv, NEW f \in Frame, Detached(f), frame[f].localCount = 0,
           NEW r \in FrameRecord, frame' = [frame EXCEPT ![f] = r],
           r.localCount = 0, r.temps = <<>>, Distinct(r.written),
           \A i \in Local : r.locals[i].ref = None,
           UNCHANGED <<heapVars, recent, old, active, activeCursor, chunkVars, stack, reg, hand,
                       falling, program>>,
           frameQueue' \in Seq(Frame), Distinct(frameQueue'), todo' \in Seq(MicroStep),
           \A g \in Frame : /\ In(frameQueue', g) => In(frameQueue, g)
                            /\ Dropping(g)' => Dropping(g)
                            /\ In(frameQueue', g) \/ Dropping(g)' <=> Detached(g) /\ g # f,
           \/ freeFrames' = freeFrames
           \/ In(frameQueue, f) /\ freeFrames' = <<f>> \o freeFrames
    PROVE  /\ StepForm /\ Typed' /\ HeapSound' /\ QueueSound' /\ FrameSound' /\ ChunkSound'
           /\ SteadyFrames /\ (\A s \in Slot : edge'[s] = edge[s])
           /\ \A g \in Frame : In(stack, g) => frame'[g].temps = frame[g].temps
  <1> USE DEF heapVars, chunkVars
  <1>1. Typed /\ FrameSound
    BY DEF IInv, Sound
  <1>2. /\ frame' \in [Frame -> FrameRecord] /\ frame'[f] = r
        /\ \A g \in Frame \ {f} : frame'[g] = frame[g]
    BY <1>1, FrameWritten
  <1>3. /\ ~ In(stack, f) /\ f \notin ToSet(stack) /\ ~ In(freeFrames, f)
        /\ OwnedLocals(f) = {frame[f].written[j] : j \in 1..frame[f].localCount}
        /\ frame[f].temps = <<>>
    BY <1>1, OffStack
  <1>4. 1..0 = {}
    OBVIOUS
  <1>5. OwnedLocals(f) = {} /\ OwnedLocals(f)' = {}
    BY <1>2, <1>3, <1>4 DEF OwnedLocals
  <1>6. \A s \in Slot : edge'[s] = edge[s]
    <2>1. SameLocals({})
      <3> SUFFICES ASSUME NEW g \in Frame, NEW k \in Local
                   PROVE  LocalEdge(g, k)' = LocalEdge(g, k)
        BY DEF SameLocals
      <3>1. CASE g = f
        BY <1>5, <3>1 DEF LocalEdge
      <3>2. CASE g # f
        BY <1>2, <3>2 DEF LocalEdge, OwnedLocals
      <3> QED
        BY <3>1, <3>2
    <2>2. SameFields({}) /\ SameChunks({}) /\ SameRegisters({})
      BY FieldsUnchanged, ChunksUnchanged, RegistersUnchanged
    <2>3. Counted(hand') = Counted(hand) /\ Counted(falling') = Counted(falling)
      OBVIOUS
    <2>4. SameEdges({})
      BY ONLY <2>1, <2>2, <2>3, OthersKept
    <2> QED
      BY <2>4 DEF SameEdges
  <1>7. StepForm
    BY <1>6, KeptForm DEF status, Free, Live
  <1>8. /\ freeFrames \in Seq(Frame) /\ freeFrames' \in Seq(Frame) /\ Distinct(freeFrames')
        /\ \A g : In(freeFrames', g) => In(freeFrames, g) \/ (g = f /\ In(frameQueue, f))
        /\ \A g : In(freeFrames, g) => In(freeFrames', g)
        /\ freeFrames # <<>> => freeFrames' # <<>>
    <2>1. freeFrames \in Seq(Frame) /\ Distinct(freeFrames)
      BY <1>1 DEF Typed, FrameSound
    <2>2. CASE freeFrames' = freeFrames
      BY <2>1, <2>2
    <2>3. CASE In(frameQueue, f) /\ freeFrames' = <<f>> \o freeFrames
      BY <1>3, <2>1, <2>3, PushFacts
    <2> QED
      BY <2>2, <2>3
  <1>9. Typed'
    BY <1>1, <1>2, <1>8 DEF Typed
  <1>10. HeapSound' /\ QueueSound' /\ ChunkSound'
    <2>1. \A g \in Frame : frame'[g].temps = frame[g].temps
      BY <1>2, <1>3
    <2> QED
      BY <2>1, HeapUnchanged, QueueUnchanged, ChunkUnchanged DEF IInv, Sound
  <1>11. FrameSound'
    <2>1. /\ \A x : In(stack, x)' <=> In(stack, x)
          /\ \A x : In(frameQueue, x)' <=> In(frameQueue', x)
          /\ \A x : In(freeFrames, x)' <=> In(freeFrames', x)
          /\ Distinct(stack)' /\ Distinct(frameQueue)' /\ Distinct(freeFrames)'
      BY <1>1, <1>8 DEF FrameSound, Distinct, In
    <2>2. ~ Detached(f)' /\ \A g \in Frame \ {f} : Detached(g)' <=> Detached(g)
      BY <2>1 DEF Detached
    <2>3. ASSUME NEW g \in Frame PROVE FrameShape(g)'
      <3>1. CASE g = f
        <4>1. /\ frame'[f].temps = <<>> /\ frame'[f].localCount = 0
              /\ \A k \in Local : frame'[f].locals[k].ref = None
              /\ Distinct(frame[f].written)'
          BY <1>2 DEF Distinct
        <4>2. ~ In(stack, f)' /\ ~ Detached(f)' /\ ~ (In(frameQueue, f)' /\ Dropping(f)')
          BY <1>3, <2>1, <2>2 DEF Detached
        <4> QED
          BY <3>1, <4>1, <4>2 DEF FrameShape
      <3>2. CASE g # f
        <4>1. frame'[g] = frame[g] /\ FrameShape(g)
          BY <1>1, <1>2, <3>2 DEF FrameSound
        <4>2. (In(stack, g)' <=> In(stack, g)) /\ (In(freeFrames, g)' <=> In(freeFrames, g))
          BY <1>8, <2>1, <3>2
        <4>3. (In(frameQueue, g)' <=> In(frameQueue, g)) /\ (Dropping(g)' <=> Dropping(g))
          BY <2>1, <2>2, <3>2, <4>1 DEF Detached, FrameShape
        <4> QED
          BY <4>1, <4>2, <4>3, ShapeKept
      <3> QED
        BY <3>1, <3>2
    <2> QED
      BY <2>1, <2>3 DEF FrameSound
  <1>12. SteadyFrames /\ \A g \in Frame : In(stack, g) => frame'[g].temps = frame[g].temps
    <2>1. UnusedFrames \subseteq UnusedFrames'
      <3> SUFFICES ASSUME NEW g \in UnusedFrames PROVE g \in UnusedFrames'
        OBVIOUS
      <3>1. /\ stack \in Seq(Frame) /\ frameQueue \in Seq(Frame) /\ freeFrames \in Seq(Frame)
            /\ frameQueue' \in Seq(Frame) /\ freeFrames' \in Seq(Frame)
        BY <1>1, <1>8 DEF Typed
      <3>2. g \in Frame /\ ~ In(stack, g) /\ ~ In(frameQueue, g) /\ ~ In(freeFrames, g)
        BY <3>1, ToSetIn DEF UnusedFrames
      <3>3. ~ In(frameQueue', g) /\ ~ In(freeFrames', g)
        BY <1>8, <3>2
      <3>4. g \notin ToSet(stack') /\ g \notin ToSet(frameQueue') /\ g \notin ToSet(freeFrames')
        BY <3>1, <3>2, <3>3, ToSetIn
      <3> QED
        BY <3>2, <3>4 DEF UnusedFrames
    <2> QED
      BY <1>1, <1>2, <1>3, <1>8, <2>1, FramesSteadyBut
  <1> QED
    BY <1>6, <1>7, <1>9, <1>10, <1>11, <1>12

(* A unit of the queue of frames. *)
LEMMA FrameUnitSound ==
    ASSUME IInv, UNCHANGED <<reg, hand, spent, todo, program>>, falling = None, Ready(1), FrameUnit
    PROVE  StepForm /\ Sound'
  <1>1. Typed /\ FrameSound
    BY DEF IInv, Sound
  <1> PICK f : f = frameQueue[1]
    OBVIOUS
  <1> PICK n : n = frame[f].localCount
    OBVIOUS
  <1>2. /\ f \in Frame /\ In(frameQueue, f) /\ Detached(f)
        /\ Tail(frameQueue) \in Seq(Frame) /\ Distinct(Tail(frameQueue))
        /\ \A g : In(Tail(frameQueue), g) <=> In(frameQueue, g) /\ g # f
    <2>1. frameQueue \in Seq(Frame) /\ frameQueue # <<>> /\ Distinct(frameQueue)
      BY <1>1 DEF Typed, FrameSound, Ready
    <2>2. /\ f \in Frame /\ Tail(frameQueue) \in Seq(Frame) /\ Distinct(Tail(frameQueue))
          /\ \A g : In(frameQueue, g) <=> g = f \/ In(Tail(frameQueue), g)
          /\ ~ In(Tail(frameQueue), f)
      BY <2>1, TailFacts
    <2> QED
      BY <2>2 DEF Detached
  <1>3. UNCHANGED <<stack, objectQueueVars, chunkVars>>
    BY DEF FrameUnit
  <1>4. CASE /\ n > 0
             /\ frame' = [frame EXCEPT ![f].localCount = n - 1]
             /\ VisitUnit(PendingLocal(f, n))
             /\ UNCHANGED <<frameQueue, freeFrames, cachedBytes>>
    <2>1. /\ UNCHANGED <<heapVars, recent, old, active, activeCursor, chunkVars, stack, frameQueue,
                         freeFrames, reg, hand, todo, program>>
          /\ falling' = PendingLocal(f, n) /\ n > 0
          /\ frame' = [frame EXCEPT ![f].localCount = n - 1]
      BY <1>3, <1>4 DEF VisitUnit, objectQueueVars
    <2> QED
      BY ONLY IInv, <1>2, <2>1, falling = None, n = frame[f].localCount, VisitLocal
  <1>5. CASE n = 0 /\ RetireFrame(f) /\ RetireUnit /\ UNCHANGED heapVars
    <2>1. /\ UNCHANGED <<heapVars, recent, old, active, activeCursor, chunkVars, stack, reg, hand,
                         falling, program>>
          /\ frame[f].localCount = 0
      BY <1>3, <1>5 DEF RetireUnit, objectQueueVars
    <2>2. frameQueue' = Tail(frameQueue)
      BY <1>5 DEF RetireFrame
    <2>3. /\ frameQueue' \in Seq(Frame) /\ Distinct(frameQueue') /\ todo' \in Seq(MicroStep)
          /\ \A g \in Frame : /\ In(frameQueue', g) => In(frameQueue, g)
                              /\ Dropping(g)' => Dropping(g)
                              /\ In(frameQueue', g) \/ Dropping(g)' <=> Detached(g) /\ g # f
      <3>1. todo' \in Seq(MicroStep)
        BY <1>1 DEF Typed
      <3>2. ~ Dropping(f)
        BY <1>1, <1>2, OffStack
      <3>3. \A g : Dropping(g)' <=> Dropping(g)
        BY DEF Dropping
      <3> QED
        BY <1>2, <2>2, <3>1, <3>2, <3>3 DEF Detached
    <2>4. PICK r \in FrameRecord :
            /\ frame' = [frame EXCEPT ![f] = r]
            /\ r.localCount = 0 /\ r.temps = <<>> /\ Distinct(r.written)
            /\ \A i \in Local : r.locals[i].ref = None
            /\ \/ freeFrames' = freeFrames
               \/ freeFrames' = <<f>> \o freeFrames
      <3>1. CASE CacheFits(Charge[frame[f].capacity])
        <4> PICK ls : ls = [i \in Local |-> [frame[f].locals[i] EXCEPT !.ref = None]]
          OBVIOUS
        <4>1. /\ freeFrames' = <<f>> \o freeFrames
              /\ frame' = [frame EXCEPT ![f].locals = ls]
          BY <1>5, <3>1 DEF RetireFrame
        <4>2. frame[f] \in FrameRecord /\ frame[f].temps = <<>> /\ Distinct(frame[f].written)
          BY <1>1, <1>2, OffStack
        <4>3. ls \in [Local -> LocalSlot] /\ \A i \in Local : ls[i].ref = None
          <5>1. \A i \in Local : frame[f].locals[i] \in LocalSlot
            BY <4>2 DEF FrameRecord
          <5>2. \A x \in LocalSlot : [x EXCEPT !.ref = None] \in LocalSlot
                                     /\ [x EXCEPT !.ref = None].ref = None
            BY DEF LocalSlot, Value
          <5> QED
            BY <5>1, <5>2
        <4> PICK r : r = [frame[f] EXCEPT !.locals = ls]
          OBVIOUS
        <4>4. /\ r \in FrameRecord /\ r.localCount = frame[f].localCount /\ r.temps = frame[f].temps
              /\ r.written = frame[f].written /\ r.locals = ls
          BY <4>2, <4>3 DEF FrameRecord
        <4>5. frame' = [frame EXCEPT ![f] = r]
          BY <4>1
        <4> QED
          <5>1. /\ r \in FrameRecord /\ frame' = [frame EXCEPT ![f] = r]
                /\ r.localCount = 0 /\ r.temps = <<>> /\ freeFrames' = <<f>> \o freeFrames
            BY <2>1, <4>1, <4>2, <4>4, <4>5
          <5>2. Distinct(r.written) /\ \A i \in Local : r.locals[i].ref = None
            BY <4>2, <4>3, <4>4
          <5> QED
            BY ONLY <5>1, <5>2
      <3>2. CASE ~ CacheFits(Charge[frame[f].capacity])
        <4>1. frame' = [frame EXCEPT ![f] = UnusedFrame] /\ freeFrames' = freeFrames
          BY <1>5, <3>2 DEF RetireFrame
        <4>2. Distinct(<<>>)
          BY DEF Distinct
        <4> QED
          BY <4>1, <4>2, UnusedFrameFacts
      <3> QED
        BY <3>1, <3>2
    <2>5. /\ StepForm /\ Typed' /\ HeapSound' /\ QueueSound' /\ FrameSound' /\ ChunkSound'
          /\ SteadyFrames /\ (\A s \in Slot : edge'[s] = edge[s])
          /\ \A g \in Frame : In(stack, g) => frame'[g].temps = frame[g].temps
      BY ONLY IInv, <1>2, <2>1, <2>3, <2>4, RetireFrameSound
    <2>6. StepsSound'
      BY <2>1, <2>5, PollKeepsSteps DEF heapVars
    <2> QED
      BY <2>5, <2>6 DEF Sound
  <1> QED
    BY <1>4, <1>5 DEF FrameUnit

(* A queued chunk belongs to no frame.                                     *)
LEMMA ChunkUnitSound ==
    ASSUME IInv, UNCHANGED <<reg, hand, spent, todo, program>>, falling = None, Ready(2), ChunkUnit
    PROVE  StepForm /\ Sound'
  <1> USE DEF objectQueueVars, frameVars
  <1>1. Typed /\ ChunkSound
    BY DEF IInv, Sound
  <1> PICK c : c = chunkQueue[1]
    OBVIOUS
  <1>2. /\ c \in Chunk /\ In(chunkQueue, c)
        /\ chunkQueue \in Seq(Chunk) /\ Tail(chunkQueue) \in Seq(Chunk) /\ Distinct(Tail(chunkQueue))
        /\ \A x : In(Tail(chunkQueue), x) <=> In(chunkQueue, x) /\ x # c
    <2>1. chunkQueue \in Seq(Chunk) /\ chunkQueue # <<>> /\ Distinct(chunkQueue)
      BY <1>1 DEF Typed, ChunkSound, Ready
    <2>2. /\ c \in Chunk /\ Tail(chunkQueue) \in Seq(Chunk) /\ Distinct(Tail(chunkQueue))
          /\ \A x : In(chunkQueue, x) <=> x = c \/ In(Tail(chunkQueue), x)
          /\ ~ In(Tail(chunkQueue), c)
      BY <2>1, TailFacts
    <2> QED
      BY <2>1, <2>2
  <1>3. /\ chunk \in [Chunk -> Seq(Value)] /\ Len(chunk[c]) <= ChunkSlots
        /\ \A f \in Frame : ~ In(frame[f].temps, c)
    BY <1>1, <1>2 DEF Typed, ChunkSound
  <1>4. UNCHANGED <<recent, old, active, activeCursor, stack, frame, frameQueue, freeFrames>>
    BY DEF ChunkUnit
  <1>5. FrameSound'
    BY <1>4, FrameUnchanged DEF IInv, Sound, Dropping
  <1>6. \A f \in Frame : In(stack, f) => frame'[f].temps = frame[f].temps
    BY <1>4
  <1>7. CASE /\ chunk[c] # <<>> /\ chunk' = [chunk EXCEPT ![c] = Front(@)]
             /\ VisitUnit(NextTemporary(c)) /\ UNCHANGED chunkQueue
    <2> PICK n : n = Len(chunk[c])
      OBVIOUS
    <2>1. UNCHANGED heapVars /\ falling' = Last(chunk[c])
      BY <1>7 DEF VisitUnit, NextTemporary
    <2>2. /\ Front(chunk[c]) \in Seq(Value) /\ Len(Front(chunk[c])) = n - 1 /\ n \in Nat \ {0}
          /\ falling' \in Value /\ falling' = chunk[c][n]
          /\ \A i \in 1..(n - 1) : Front(chunk[c])[i] = chunk[c][i]
      <3>1. chunk[c] \in Seq(Value) /\ chunk[c] # <<>>
        BY <1>2, <1>3, <1>7
      <3>2. /\ Front(chunk[c]) \in Seq(Value) /\ Len(Front(chunk[c])) = n - 1 /\ n \in Nat \ {0}
            /\ Last(chunk[c]) \in Value /\ Last(chunk[c]) = chunk[c][n]
            /\ \A i \in 1..(n - 1) : Front(chunk[c])[i] = chunk[c][i]
        BY <3>1, FrontFacts
      <3> QED
        BY <2>1, <3>2
    <2>3. /\ chunk' \in [Chunk -> Seq(Value)] /\ chunk'[c] = Front(chunk[c])
          /\ \A d \in Chunk \ {c} : chunk'[d] = chunk[d]
      BY <1>2, <1>3, <1>7, <2>2
    <2>4. n \in 1..ChunkSlots /\ n - 1 <= ChunkSlots
      BY <1>3, <2>2, ConstantsAssumption
    <2> DEFINE t == <<c, n>>
    <2>5. SameEdges({FallingSlot, t})
      <3>1. SameChunks({FallingSlot, t})
        <4> SUFFICES ASSUME NEW d \in Chunk, NEW i \in 1..ChunkSlots, <<d, i>> # t
                     PROVE  ChunkEdge(d, i)' = ChunkEdge(d, i)
          BY DEF SameChunks
        <4>1. CASE d = c
          <5>1. i # n /\ i \in Nat \ {0}
            BY <4>1
          <5>2. i <= n - 1 <=> i <= n
            BY <2>2, <5>1
          <5>3. i <= n - 1 => i \in 1..(n - 1)
            BY <2>2, <5>1
          <5> QED
            BY <2>2, <2>3, <4>1, <5>2, <5>3 DEF ChunkEdge
        <4>2. CASE d # c
          BY <2>3, <4>2 DEF ChunkEdge
        <4> QED
          BY <4>1, <4>2
      <3>2. SameFields({FallingSlot, t}) /\ SameLocals({FallingSlot, t}) /\ SameRegisters({FallingSlot, t})
        BY <1>4, <2>1, FieldsUnchanged, LocalsUnchanged, RegistersUnchanged DEF heapVars
      <3>3. Counted(hand') = Counted(hand) /\ FallingSlot \in {FallingSlot, t}
        OBVIOUS
      <3> HIDE DEF t
      <3> QED
        BY ONLY <3>1, <3>2, <3>3, OthersKept
    <2>6. /\ edge[FallingSlot] = None /\ edge'[FallingSlot] = Counted(chunk[c][n])
          /\ edge[t] = Counted(chunk[c][n]) /\ edge'[t] = None
      <3>1. edge[FallingSlot] = None /\ edge'[FallingSlot] = Counted(chunk[c][n])
        BY <2>2, ConstantsAssumption, Forms, FormsNext DEF EdgeForms, Counted
      <3>2. edge[t] = ChunkEdge(c, n) /\ edge'[t] = ChunkEdge(c, n)'
        BY <1>2, <2>4, Forms, FormsNext DEF EdgeForms
      <3>3. n <= n /\ ~ (n <= n - 1)
        BY <2>2
      <3> QED
        BY <2>2, <2>3, <3>1, <3>2, <3>3 DEF ChunkEdge
    <2>7. StepForm
      <3>1. FallingSlot \in Slot /\ FallingSlot \in RootSlot /\ t \in Slot /\ FallingSlot # t
        BY <1>2, <2>4, SlotForms, Differ
      <3>2. status' = status /\ count' = count
        BY <2>1 DEF status, Free, Live, heapVars
      <3> HIDE DEF t
      <3> QED
        BY ONLY <2>5, <2>6, <3>1, <3>2, MovedForm
    <2>8. Typed'
      BY <1>1, <1>4, <1>7, <2>1, <2>2, <2>3 DEF Typed, heapVars
    <2>9. HeapSound' /\ QueueSound'
      BY <1>4, <2>1, HeapUnchanged, QueueUnchanged DEF IInv, Sound, heapVars
    <2>10. ChunkSound'
      <3>1. Len(chunk'[c]) <= ChunkSlots
        BY <2>2, <2>3, <2>4
      <3>2. /\ \A s : Distinct(s)' <=> Distinct(s)
            /\ \A s : \A x : In(s, x)' <=> In(s, x)
        BY DEF Distinct, In
      <3> QED
        BY <1>1, <1>2, <1>4, <1>7, <2>3, <3>1, <3>2 DEF ChunkSound
    <2>11. SteadyFrames
      <3>1. UnusedChunks' = UnusedChunks /\ UnusedFrames' = UnusedFrames
        BY <1>4, <1>7 DEF UnusedChunks, UsedChunks, UnusedFrames
      <3>2. stack # <<>> /\ frame[Top].temps # <<>> => Last(frame[Top].temps) \in Chunk \ {c}
        <4> SUFFICES ASSUME stack # <<>>, frame[Top].temps # <<>>
                     PROVE  Last(frame[Top].temps) \in Chunk \ {c}
          OBVIOUS
        <4>1. Top \in Frame
          BY <1>1, ToSetIn DEF Typed, Top
        <4>2. frame[Top].temps \in Seq(Chunk)
          BY <1>1, <4>1 DEF Typed, FrameRecord
        <4>3. Last(frame[Top].temps) \in Chunk /\ In(frame[Top].temps, Last(frame[Top].temps))
          BY <4>2, FrontFacts
        <4> QED
          BY <1>3, <4>1, <4>3
      <3>3. Top' = Top
        BY <1>4 DEF Top
      <3> QED
        BY <1>4, <2>3, <3>1, <3>2, <3>3 DEF SteadyFrames
    <2>12. StepsSound'
      <3>1. \A s \in Slot :
                \/ edge'[s] = edge[s] \/ s = FallingSlot
                \/ \E d \in Chunk : /\ \A f \in Frame : In(stack, f) => ~ In(frame[f].temps, d)
                                    /\ \E i \in 1..ChunkSlots : s = <<d, i>>
        BY <1>2, <1>3, <2>4, <2>5 DEF SameEdges
      <3> QED
        BY <1>6, <2>1, <2>11, <3>1, PollKeepsSteps DEF heapVars
    <2> QED
      BY <1>5, <2>7, <2>8, <2>9, <2>10, <2>12 DEF Sound
  <1>8. CASE chunk[c] = <<>> /\ chunkQueue' = Tail(chunkQueue) /\ RetireUnit /\ UNCHANGED <<chunk, heapVars>>
    <2>1. /\ falling' = falling /\ UNCHANGED <<kind, count, fields, cursor, chunk>>
          /\ chunkQueue' = Tail(chunkQueue)
      BY <1>8 DEF RetireUnit, heapVars
    <2>2. \A s \in Slot : edge'[s] = edge[s]
      BY <1>4, <2>1, EdgesUnchanged
    <2>3. StepForm
      BY <2>1, <2>2, KeptForm DEF status, Free, Live
    <2>4. Typed'
      BY <1>1, <1>2, <1>4, <2>1 DEF Typed
    <2>5. HeapSound' /\ QueueSound'
      BY <1>4, <2>1, HeapUnchanged, QueueUnchanged DEF IInv, Sound
    <2>6. ChunkSound'
      <3>1. /\ \A s : Distinct(s)' <=> Distinct(s)
            /\ \A s : \A x : In(s, x)' <=> In(s, x)
        BY DEF Distinct, In
      <3>2. /\ Distinct(chunkQueue)'
            /\ \A x : In(chunkQueue, x)' <=> In(chunkQueue, x) /\ x # c
        BY <1>2, <2>1 DEF Distinct, In
      <3> QED
        BY <1>1, <1>2, <1>4, <1>8, <2>1, <3>1, <3>2 DEF ChunkSound
    <2>7. SteadyFrames
      <3>1. UnusedFrames' = UnusedFrames
        BY <1>4 DEF UnusedFrames
      <3>2. UnusedChunks \subseteq UnusedChunks'
        <4>1. ToSet(chunkQueue') \subseteq ToSet(chunkQueue)
          BY <1>2, <2>1, ToSetIn
        <4> QED
          BY <1>4, <4>1 DEF UnusedChunks, UsedChunks
      <3>3. Top' = Top
        BY <1>4 DEF Top
      <3> QED
        BY <1>4, <2>1, <3>1, <3>2, <3>3 DEF SteadyFrames
    <2>8. StepsSound'
      BY <1>6, <2>1, <2>2, <2>7, PollKeepsSteps
    <2> QED
      BY <1>5, <2>3, <2>4, <2>5, <2>6, <2>8 DEF Sound
  <1> QED
    BY <1>7, <1>8 DEF ChunkUnit

(* One unit of minyar_rc_poll. *)
LEMMA PollUnitSound ==
    ASSUME IInv, PollUnit, program' = program
    PROVE  StepForm /\ Sound'
  <1>1. UNCHANGED <<reg, hand, spent, todo, program>> /\ falling = None
    BY DEF PollUnit
  <1>2. PICK q \in 0..2 :
           /\ Ready(q)
           /\ CASE q = 0 -> ObjectUnit
                [] q = 1 -> FrameUnit
                [] q = 2 -> ChunkUnit
    BY DEF PollUnit, Selected
  <1>3. q = 0 \/ q = 1 \/ q = 2
    OBVIOUS
  <1>4. CASE q = 0
    BY <1>1, <1>2, <1>4, ObjectUnitSound
  <1>5. CASE q = 1
    <2>1. Ready(1) /\ FrameUnit
      BY <1>2, <1>5
    <2> QED
      BY <1>1, <2>1, FrameUnitSound
  <1>6. CASE q = 2
    <2>1. Ready(2) /\ ChunkUnit
      BY <1>2, <1>6
    <2> QED
      BY <1>1, <2>1, ChunkUnitSound
  <1> QED
    BY <1>3, <1>4, <1>5, <1>6
-----------------------------------------------------------------------------
(***************************************************************************)
(* The micro-steps of a call.                                              *)
(***************************************************************************)
LEMMA DoingFacts ==
    ASSUME IInv, NEW name, Doing(name)
    PROVE  /\ Typed /\ HeapSound /\ QueueSound /\ FrameSound /\ ChunkSound /\ StepsFormed
           /\ todo # <<>> /\ falling = None /\ Now \in MicroStep /\ todo[1] = Now /\ Now.do = name
           /\ RegisterReady(1) /\ TargetReady(1) /\ FrameReady(1) /\ 1 \in 1..Len(todo)
           /\ todo' = Tail(todo) => Ahead(1) /\ todo' \in Seq(MicroStep)
           /\ edge[FallingSlot] = None
           /\ hand # None => name \in Consumes \cup {"chunk", "service"}
           /\ None \notin Object
  <1>1. /\ Typed /\ HeapSound /\ QueueSound /\ FrameSound /\ ChunkSound /\ StepsFormed
        /\ \A j \in 1..Len(todo) : StepReady(j)
    BY DEF IInv, Sound, StepsSound
  <1>2. todo # <<>> /\ falling = None /\ todo[1] = Now /\ Now.do = name
    BY DEF Doing, Now
  <1>3. todo \in Seq(MicroStep)
    BY <1>1 DEF Typed
  <1>4. /\ 1 \in 1..Len(todo) /\ Now \in MicroStep
        /\ todo' = Tail(todo) => Ahead(1) /\ todo' \in Seq(MicroStep)
    <2>1. 1 \in 1..Len(todo) /\ todo[1] \in MicroStep
      BY <1>2, <1>3, TailFacts
    <2> QED
      BY <1>2, <1>3, <2>1, AheadForms
  <1>5. RegisterReady(1) /\ TargetReady(1) /\ FrameReady(1)
    BY <1>1, <1>4 DEF StepReady
  <1>6. edge[FallingSlot] = None
    BY <1>2, Forms DEF EdgeForms, Counted
  <1>7. hand # None => name \in Consumes \cup {"chunk", "service"}
    <2>1. hand # None => Ends(1)
      BY <1>1 DEF StepsFormed
    <2> QED
      BY <1>2, <2>1 DEF Ends, Does
  <1>8. None \notin Object
    BY ConstantsAssumption
  <1> QED
    BY <1>1, <1>2, <1>4, <1>5, <1>6, <1>7, <1>8

(* An operand in hand is consumed by a step that is still to come.         *)
LEMMA EndsNext ==
    ASSUME Ahead(1), Ends(1), todo[1].do \notin Consumes
    PROVE  Ends(1)'
  <1>1. Len(todo) \in Nat /\ Len(todo') = Len(todo) - 1
        /\ \A j \in 1..Len(todo') : todo'[j] = todo[j + 1]
    BY DEF Ahead
  <1>2. ASSUME NEW j \in Nat, j >= 2 PROVE \A name : Does(j, name) => Does(j - 1, name)'
    <2>1. j \in 1..Len(todo) => j - 1 \in 1..Len(todo') /\ (j - 1) + 1 = j
      BY <1>1, <1>2
    <2> QED
      BY <1>1, <2>1 DEF Does
  <1>3. CASE Does(1, "chunk") /\ Does(2, "hold")
    <2>1. Does(1, "hold")'
      BY <1>2, <1>3
    <2>2. "hold" \in Consumes
      BY DEF Consumes
    <2> QED
      BY <2>1, <2>2 DEF Does, Ends
  <1>4. CASE Does(1, "service") /\ Does(2, "chunk") /\ Does(3, "hold")
    <2>1. Does(2 - 1, "chunk")' /\ Does(3 - 1, "hold")'
      BY <1>2, <1>4
    <2> QED
      BY <2>1 DEF Ends
  <1> QED
    BY <1>3, <1>4 DEF Ends

(* A step that only turns to the next one.                                 *)
LEMMA QuietStep ==
    ASSUME IInv, NEW name, Doing(name),
           name \notin Consumes \cup {"allocate", "references", "chunk", "dropLocals"},
           todo' = Tail(todo),
           UNCHANGED <<kind, count, fields, cursor, recent, old, active, activeCursor, frame, stack,
                       frameQueue, freeFrames, chunk, chunkQueue, reg, hand, falling, program>>
    PROVE  StepForm /\ Sound'
  <1>1. /\ Typed /\ HeapSound /\ QueueSound /\ FrameSound /\ ChunkSound /\ StepsFormed
        /\ todo # <<>> /\ todo[1].do = name /\ Ahead(1) /\ todo' \in Seq(MicroStep)
    BY DoingFacts
  <1>2. \A s \in Slot : edge'[s] = edge[s]
    BY EdgesUnchanged
  <1>3. StepForm
    BY <1>2, KeptForm DEF status, Free, Live
  <1>4. Typed'
    BY <1>1 DEF Typed
  <1>5. HeapSound' /\ QueueSound' /\ FrameSound' /\ ChunkSound'
    <2>1. \A f \in Frame : Dropping(f)' <=> Dropping(f)
      BY <1>1, DropsUnchanged
    <2> QED
      BY <1>1, <2>1, HeapUnchanged, QueueUnchanged, FrameUnchanged, ChunkUnchanged
  <1>6. StepsSound'
    <2>1. PICK P \in SUBSET Object : Supported(P) /\ NamedIn(P)
      BY OperandsSupported DEF IInv, Sound, StepsSound
    <2>2. SteadyFrames /\ SteadyRegisters /\ SteadyTargets /\ SteadyValues(P)
      BY FramesSteady, RegistersSteady, TargetsSteady DEF SteadyValues
    <2>3. Supported(P)'
      BY <1>2, <2>1, <2>2, SupportSteady
    <2>4. hand' # None => Ends(1)'
      BY <1>1, EndsNext DEF StepsFormed
    <2>5. StepsSound /\ todo[1].do \notin {"allocate", "references", "chunk"}
      BY <1>1 DEF IInv, Sound
    <2> QED
      BY ONLY <1>1, <2>1, <2>2, <2>3, <2>4, <2>5, StepsKept
  <1> QED
    BY <1>3, <1>4, <1>5, <1>6 DEF Sound

(* Service points, the end of a call, and a Text that grows in place. *)
LEMMA QuietStepsSound ==
    ASSUME IInv, DoService \/ DoRest \/ DoGrow, program' = program
    PROVE  StepForm /\ Sound'
  <1> USE DEF heapVars, objectQueueVars, frameVars, chunkVars, Consumes
  <1>1. CASE DoService
    BY <1>1, QuietStep DEF DoService
  <1>2. CASE DoRest
    BY <1>2, QuietStep DEF DoRest
  <1>3. CASE DoGrow
    BY <1>3, QuietStep DEF DoGrow, OnHeap
  <1> QED
    BY <1>1, <1>2, <1>3

(* What the steps name is alive.                                           *)
LEMMA NamedAlive ==
    ASSUME IInv, NEW j \in 1..Len(todo), NEW t \in Object, t \in Named(j)
    PROVE  count[t] > 0
  <1>1. PICK P \in SUBSET Object : Supported(P) /\ NamedIn(P)
    BY OperandsSupported DEF IInv, Sound, StepsSound
  <1>2. t \in P
    BY <1>1 DEF NamedIn
  <1> QED
    BY <1>1, <1>2, SupportedLive

LEMMA TargetAlive ==
    ASSUME IInv, NEW name, Doing(name), name \in Targeted, NEW t \in Object, t = At(Now.target)
    PROVE  /\ count[t] > 0 /\ kind[t] # "FREE" /\ cursor[t] = 0 /\ Progress(t) = 0
           /\ ~ In(recent, t) /\ ~ In(old, t) /\ t # active /\ status[t] = "live"
  <1>1. todo[1] = Now /\ Now.do = name /\ 1 \in 1..Len(todo)
    BY DoingFacts
  <1>2. t \in Named(1)
    BY <1>1 DEF Named, Targeted
  <1>3. count[t] > 0
    BY <1>1, <1>2, NamedAlive
  <1> QED
    BY <1>3, LiveFacts DEF IInv

(* A step that closes its call.                                            *)
LEMMA ClosingStep ==
    ASSUME IInv, NEW name, Doing(name), name \in Closing \ {"dropLocals"},
           todo' = Tail(todo), hand' = None
    PROVE  /\ StepsSound' /\ todo' \in Seq(MicroStep)
           /\ \A f \in Frame : Dropping(f)' <=> Dropping(f)
  <1>1. /\ Typed /\ StepsFormed /\ todo # <<>> /\ todo[1].do = name /\ todo' \in Seq(MicroStep)
    BY DoingFacts
  <1>2. StepsSound'
    BY <1>1, CallCloses
  <1> QED
    BY <1>1, <1>2, DropsUnchanged

(* The operand in hand moves to a register, or a register's to rc_drop.    *)
LEMMA DoResultSound ==
    ASSUME IInv, DoResult, program' = program
    PROVE  StepForm /\ Sound'
  <1> USE DEF heapVars, objectQueueVars, frameVars, chunkVars
  <1>1. /\ Doing("result") /\ todo' = Tail(todo) /\ hand' = None
        /\ reg' = [reg EXCEPT ![Now.target] = hand]
        /\ UNCHANGED <<kind, count, fields, cursor, recent, old, active, activeCursor, frame, stack,
                       frameQueue, freeFrames, chunk, chunkQueue, falling, program>>
    BY DEF DoResult, OnHeap
  <1> PICK r : r = Now.target
    OBVIOUS
  <1>2. /\ Typed /\ HeapSound /\ QueueSound /\ FrameSound /\ ChunkSound /\ Now \in MicroStep
        /\ todo[1] = Now /\ Now.do = "result" /\ RegisterReady(1) /\ None \notin Object
    BY <1>1, DoingFacts
  <1>3. r \in Register /\ reg[r] = None
    BY <1>2, StepTypes DEF RegisterReady
  <1>4. reg' \in [Register -> Value] /\ reg'[r] = hand /\ \A q \in Register \ {r} : reg'[q] = reg[q]
    BY <1>1, <1>2, <1>3 DEF Typed
  <1> DEFINE s == <<r, 0>>
  <1>5. SameEdges({s, HandSlot})
    <2>1. SameRegisters({s, HandSlot})
      BY <1>4 DEF SameRegisters
    <2>2. SameFields({s, HandSlot}) /\ SameLocals({s, HandSlot}) /\ SameChunks({s, HandSlot})
      BY <1>1, FieldsUnchanged, LocalsUnchanged, ChunksUnchanged
    <2>3. Counted(falling') = Counted(falling) /\ HandSlot \in {s, HandSlot}
      BY <1>1
    <2> HIDE DEF s
    <2> QED
      BY ONLY <2>1, <2>2, <2>3, OthersKept
  <1>6. edge[s] = None /\ edge'[s] = edge[HandSlot] /\ edge'[HandSlot] = None
    BY <1>1, <1>2, <1>3, <1>4, Forms, FormsNext DEF EdgeForms, Counted
  <1>7. StepForm
    <2>1. s \in Slot /\ HandSlot \in Slot /\ s \in RootSlot /\ s # HandSlot
      BY <1>3, SlotForms, Differ
    <2>2. status' = status /\ count' = count
      BY <1>1 DEF status, Free, Live
    <2> HIDE DEF s
    <2> QED
      BY ONLY <1>5, <1>6, <2>1, <2>2, MovedForm
  <1>8. StepsSound' /\ todo' \in Seq(MicroStep) /\ \A f \in Frame : Dropping(f)' <=> Dropping(f)
    BY <1>1, ClosingStep DEF Closing
  <1>9. Typed'
    BY <1>1, <1>2, <1>4, <1>8 DEF Typed, Value
  <1>10. HeapSound' /\ QueueSound' /\ FrameSound' /\ ChunkSound'
    BY <1>1, <1>2, <1>8, HeapUnchanged, QueueUnchanged, FrameUnchanged, ChunkUnchanged
  <1> QED
    BY <1>7, <1>8, <1>9, <1>10 DEF Sound

LEMMA DoReleaseSound ==
    ASSUME IInv, DoRelease, program' = program
    PROVE  StepForm /\ Sound'
  <1> USE DEF heapVars, objectQueueVars, frameVars, chunkVars
  <1>1. /\ Doing("release") /\ todo' = Tail(todo) /\ falling' = reg[Now.target]
        /\ reg' = [reg EXCEPT ![Now.target] = None]
        /\ UNCHANGED <<kind, count, fields, cursor, recent, old, active, activeCursor, frame, stack,
                       frameQueue, freeFrames, chunk, chunkQueue, hand, program>>
    BY DEF DoRelease, OnHeap
  <1> PICK r : r = Now.target
    OBVIOUS
  <1>2. /\ Typed /\ HeapSound /\ QueueSound /\ FrameSound /\ ChunkSound /\ Now \in MicroStep
        /\ todo[1] = Now /\ Now.do = "release" /\ None \notin Object
        /\ edge[FallingSlot] = None /\ hand = None
    BY <1>1, DoingFacts DEF Consumes
  <1>3. r \in Register
    BY <1>2, StepTypes
  <1>4. /\ reg' \in [Register -> Value] /\ reg'[r] = None /\ falling' = reg[r] /\ falling' \in Value
        /\ \A q \in Register \ {r} : reg'[q] = reg[q]
    BY <1>1, <1>2, <1>3 DEF Typed, Value
  <1> DEFINE t == <<r, 0>>
  <1>5. SameEdges({FallingSlot, t})
    <2>1. SameRegisters({FallingSlot, t})
      BY <1>4 DEF SameRegisters
    <2>2. SameFields({FallingSlot, t}) /\ SameLocals({FallingSlot, t}) /\ SameChunks({FallingSlot, t})
      BY <1>1, FieldsUnchanged, LocalsUnchanged, ChunksUnchanged
    <2>3. Counted(hand') = Counted(hand) /\ FallingSlot \in {FallingSlot, t}
      BY <1>1
    <2> HIDE DEF t
    <2> QED
      BY ONLY <2>1, <2>2, <2>3, OthersKept
  <1>6. edge'[FallingSlot] = edge[t] /\ edge'[t] = None
    <2>1. edge[t] = Counted(reg[r])
      BY <1>3, Forms DEF EdgeForms
    <2>2. edge'[t] = Counted(reg'[r]) /\ edge'[FallingSlot] = Counted(falling')
      BY <1>3, FormsNext DEF EdgeForms, Counted
    <2> QED
      BY <1>2, <1>4, <2>1, <2>2 DEF Counted
  <1>7. StepForm
    <2>1. t \in Slot /\ FallingSlot \in Slot /\ FallingSlot \in RootSlot /\ FallingSlot # t
      BY <1>3, SlotForms, Differ
    <2>2. status' = status /\ count' = count
      BY <1>1 DEF status, Free, Live
    <2> HIDE DEF t
    <2> QED
      BY ONLY <1>2, <1>5, <1>6, <2>1, <2>2, MovedForm
  <1>8. StepsSound' /\ todo' \in Seq(MicroStep) /\ \A f \in Frame : Dropping(f)' <=> Dropping(f)
    BY <1>1, <1>2, ClosingStep DEF Closing
  <1>9. Typed'
    BY <1>1, <1>2, <1>4, <1>8 DEF Typed
  <1>10. HeapSound' /\ QueueSound' /\ FrameSound' /\ ChunkSound'
    BY <1>1, <1>2, <1>8, HeapUnchanged, QueueUnchanged, FrameUnchanged, ChunkUnchanged
  <1> QED
    BY <1>7, <1>8, <1>9, <1>10 DEF Sound

(* The operand in hand is stored in field i of l, and the value that was   *)
(* there falls.                                                            *)
Stores(l, i, fs, k) ==
    /\ fields' = [fields EXCEPT ![l] = fs] /\ kind' = [kind EXCEPT ![l] = k]
    /\ fs \in Seq(Value) /\ Len(fs) <= MaxWidth /\ i \in 1..Len(fs) /\ fs[i] = hand /\ hand' = None
    /\ \A j \in 1..Len(fs) : j # i => j \in 1..Len(fields[l]) /\ fs[j] = fields[l][j]
    /\ \A j \in 1..Len(fields[l]) : j \in 1..Len(fs)
    /\ k \in Kinds \ {"FREE", "LIST", "SCALAR_RECORD"}
    /\ k = "REFERENCES_IMMORTAL" => \A j \in 1..Len(fs) : fs[j] \notin Object
    /\ k = "TEXT" => Len(fs) <= 1
    /\ falling' \in Value
    /\ Counted(falling') = IF i \in 1..Len(fields[l]) THEN Counted(fields[l][i]) ELSE None

(* The operand in hand goes into a field; the reference it replaces falls. *)
LEMMA Stored ==
    ASSUME IInv, falling = None, NEW l \in Object, count[l] > 0, NEW i, NEW fs, NEW k,
           Stores(l, i, fs, k), todo' \in Seq(MicroStep),
           UNCHANGED <<count, cursor, recent, old, active, activeCursor, frame, stack,
                       frameQueue, freeFrames, chunk, chunkQueue, reg, program>>
    PROVE  /\ StepForm /\ Typed' /\ HeapSound' /\ QueueSound'
           /\ i \in Index /\ SameEdges({<<l, i>>, HandSlot, FallingSlot})
           /\ edge'[<<l, i>>] = edge[HandSlot]
           /\ fields'[l] = fs /\ kind'[l] = k
           /\ \A o \in Object \ {l} : fields'[o] = fields[o] /\ kind'[o] = kind[o]
  <1>1. Typed /\ HeapSound /\ QueueSound /\ None \notin Object
    BY ConstantsAssumption DEF IInv, Sound
  <1>2. kind[l] # "FREE" /\ cursor[l] = 0 /\ Progress(l) = 0 /\ l # active /\ status[l] = "live"
    BY LiveFacts DEF IInv
  <1>3. /\ Len(fs) \in Nat /\ Len(fields[l]) \in Nat /\ i \in Index /\ i \in Nat \ {0}
    <2>1. Len(fs) \in Nat /\ Len(fields[l]) \in Nat
      BY SMTT(60), <1>1 DEF Stores, Typed
    <2>2. i \in 1..Len(fs) /\ Len(fs) <= MaxWidth /\ MaxWidth \in Nat
      BY ConstantsAssumption DEF Stores
    <2> QED
      BY ONLY <2>1, <2>2 DEF Index
  <1>4. /\ fields' \in [Object -> Seq(Value)] /\ kind' \in [Object -> Kinds]
        /\ fields'[l] = fs /\ kind'[l] = k
        /\ \A o \in Object \ {l} : fields'[o] = fields[o] /\ kind'[o] = kind[o]
    BY <1>1 DEF Typed, Stores
  <1>5. Typed'
    BY <1>1, <1>4 DEF Typed, Stores, Value
  <1>6. FieldEdge(l, i)' = Counted(hand)
        /\ FieldEdge(l, i) = IF i \in 1..Len(fields[l]) THEN Counted(fields[l][i]) ELSE None
    <2>1. Progress(l)' = 0
      BY <1>2 DEF Progress
    <2>2. 0 < i /\ i <= Len(fs)
      BY <1>3 DEF Stores
    <2> QED
      BY <1>2, <1>3, <1>4, <2>1, <2>2 DEF FieldEdge, Stores
  <1>7. ASSUME NEW j \in Index, j # i PROVE FieldEdge(l, j)' = FieldEdge(l, j)
    <2>1. Progress(l)' = 0 /\ 0 < j /\ j \in Nat
      BY <1>2 DEF Progress, Index
    <2>2. j <= Len(fs) <=> j \in 1..Len(fs)
      BY <1>3, <2>1
    <2>3. j <= Len(fields[l]) <=> j \in 1..Len(fields[l])
      BY <1>3, <2>1
    <2>4. j \in 1..Len(fs) <=> j \in 1..Len(fields[l])
      BY <1>7 DEF Stores
    <2>5. j \in 1..Len(fs) => fs[j] = fields[l][j]
      BY <1>7 DEF Stores
    <2> QED
      BY <1>2, <1>4, <2>1, <2>2, <2>3, <2>4, <2>5 DEF FieldEdge
  <1> DEFINE s == <<l, i>>
  <1>8. SameEdges({s, HandSlot, FallingSlot})
    <2>1. SameFields({s, HandSlot, FallingSlot})
      <3> SUFFICES ASSUME NEW o \in Object, NEW j \in Index, <<o, j>> # s
                   PROVE  FieldEdge(o, j)' = FieldEdge(o, j)
        BY DEF SameFields
      <3>1. CASE o = l
        BY <1>7, <3>1
      <3>2. CASE o # l
        BY <1>4, <3>2 DEF FieldEdge, Progress
      <3> QED
        BY <3>1, <3>2
    <2>2. /\ SameRegisters({s, HandSlot, FallingSlot}) /\ SameLocals({s, HandSlot, FallingSlot})
          /\ SameChunks({s, HandSlot, FallingSlot})
      BY RegistersUnchanged, LocalsUnchanged, ChunksUnchanged
    <2>3. FallingSlot \in {s, HandSlot, FallingSlot} /\ HandSlot \in {s, HandSlot, FallingSlot}
      OBVIOUS
    <2> HIDE DEF s
    <2> QED
      BY ONLY <2>1, <2>2, <2>3, OthersKept
  <1>9. /\ edge[FallingSlot] = None /\ edge'[s] = edge[HandSlot] /\ edge'[HandSlot] = None
        /\ edge'[FallingSlot] = edge[s]
    <2>1. /\ edge[FallingSlot] = None /\ edge[HandSlot] = Counted(hand)
          /\ edge[s] = FieldEdge(l, i)
      BY <1>1, <1>3, Forms DEF EdgeForms, Counted
    <2>2. /\ edge'[FallingSlot] = Counted(falling') /\ edge'[HandSlot] = Counted(hand')
          /\ edge'[s] = FieldEdge(l, i)'
      BY <1>3, FormsNext DEF EdgeForms, Counted
    <2>3. Counted(hand') = None
      BY <1>1 DEF Counted, Stores
    <2> QED
      BY <1>6, <2>1, <2>2, <2>3 DEF Stores
  <1>10. \A o \in Object : (Free(o)' <=> Free(o)) /\ (Live(o)' <=> Live(o)) /\ (Dead(o)' <=> Dead(o))
    BY <1>2, <1>4 DEF Free, Live, Dead, Stores
  <1>11. StepForm
    <2>1. s \in Slot /\ HandSlot \in Slot /\ FallingSlot \in RootSlot
          /\ s # HandSlot /\ s # FallingSlot /\ HandSlot # FallingSlot
      BY <1>3, SlotForms, Differ
    <2>2. status' = status /\ count' = count
      BY <1>10 DEF status
    <2>3. \E o \in Object, j \in Index : s = <<o, j>> /\ status[o] = "live"
      BY <1>2, <1>3
    <2> HIDE DEF s
    <2> QED
      BY ONLY <1>8, <1>9, <2>1, <2>2, <2>3, ExchangedForm
  <1>12. HeapSound'
    <2>1. ASSUME NEW o \in Object
          PROVE  /\ Free(o)' => count'[o] = 0 /\ fields'[o] = <<>>
                 /\ Free(o)' \/ Live(o)' => cursor'[o] = 0
                 /\ Len(fields'[o]) <= MaxWidth /\ cursor'[o] <= Len(fields'[o])
                 /\ kind'[o] \in {"LIST", "SCALAR_RECORD"} => fields'[o] = <<>>
                 /\ kind'[o] = "REFERENCES_IMMORTAL" =>
                       \A j \in 1..Len(fields'[o]) : fields'[o][j] \notin Object
                 /\ kind'[o] = "TEXT" => Len(fields'[o]) <= 1
      <3>1. CASE o = l
        <4>1. ~ Free(l)' /\ cursor'[l] = 0
          BY <1>2, <1>10 DEF Free
        <4>2. 0 <= Len(fs)
          BY <1>3
        <4> QED
          BY <1>4, <3>1, <4>1, <4>2 DEF Stores
      <3>2. CASE o # l
        BY <1>1, <1>4, <1>10, <3>2 DEF HeapSound
      <3> QED
        BY <3>1, <3>2
    <2>2. active' # None => activeCursor' <= Len(fields'[active'])
      <3>1. active # None => active \in Object /\ active # l
        BY <1>1, <1>2 DEF Typed
      <3> QED
        BY <1>1, <1>4, <3>1 DEF HeapSound
    <2> QED
      BY <2>1, <2>2 DEF HeapSound
  <1>13. QueueSound'
    BY <1>1, <1>10 DEF QueueSound, Distinct, In
  <1> QED
    BY <1>3, <1>4, <1>5, <1>8, <1>9, <1>11, <1>12, <1>13

(* A store is the last step of its call that changes anything. *)
LEMMA StoreCloses ==
    ASSUME IInv, NEW name, Doing(name), name \in {"backing", "field", "replace"}, OnHeap,
           NEW l \in Object, l = At(Now.target), NEW i, NEW fs, NEW k, Stores(l, i, fs, k),
           UNCHANGED <<count, cursor, reg, program>>
    PROVE  StepForm /\ Sound'
  <1> USE DEF objectQueueVars, frameVars, chunkVars
  <1>1. name \in Closing \ {"dropLocals"} /\ todo' = Tail(todo) /\ hand' = None
        /\ name \in Targeted
    BY DEF OnHeap, Stores, Closing, Targeted
  <1>2. UNCHANGED <<recent, old, active, activeCursor, frame, stack, frameQueue, freeFrames,
                    chunk, chunkQueue>>
    BY DEF OnHeap
  <1>3. StepsSound' /\ todo' \in Seq(MicroStep) /\ \A f \in Frame : Dropping(f)' <=> Dropping(f)
    BY <1>1, ClosingStep
  <1>4. falling = None /\ count[l] > 0 /\ FrameSound /\ ChunkSound
    BY <1>1, DoingFacts, TargetAlive
  <1>5. StepForm /\ Typed' /\ HeapSound' /\ QueueSound'
    BY ONLY IInv, <1>2, <1>3, <1>4, l \in Object, Stores(l, i, fs, k),
            UNCHANGED <<count, cursor, reg, program>>, Stored
  <1>6. FrameSound' /\ ChunkSound'
    BY <1>2, <1>3, <1>4, FrameUnchanged, ChunkUnchanged
  <1> QED
    BY <1>3, <1>5, <1>6 DEF Sound

(* A view gets the Text it points into. *)
LEMMA DoBackingSound ==
    ASSUME IInv, DoBacking, program' = program
    PROVE  StepForm /\ Sound'
  <1>1. /\ Doing("backing") /\ OnHeap /\ hand' = None /\ UNCHANGED <<kind, count, cursor, reg, falling>>
        /\ fields' = [fields EXCEPT ![At(Now.target)] = <<hand>>]
    BY DEF DoBacking
  <1> PICK l : l = At(Now.target)
    OBVIOUS
  <1>2. Typed /\ TargetReady(1) /\ todo[1] = Now /\ Now.do = "backing" /\ falling = None
        /\ None \notin Object
    BY <1>1, DoingFacts
  <1>3. ~ Promised(Now.target, "TEXT", 1)
    <2>1. 1..(1 - 1) = {}
      OBVIOUS
    <2> QED
      BY <2>1 DEF Promised
  <1>4. l \in Object /\ kind[l] = "TEXT" /\ fields[l] = <<>>
    BY <1>2, <1>3 DEF TargetReady
  <1>5. Stores(l, 1, <<hand>>, "TEXT")
    <2>1. hand \in Value /\ kind \in [Object -> Kinds] /\ falling' = None /\ None \in Value
      BY <1>1, <1>2 DEF Typed, Value
    <2>2. <<hand>> \in Seq(Value) /\ Len(<<hand>>) = 1 /\ <<hand>>[1] = hand /\ 1 \in 1..1
          /\ \A j \in 1..1 : j = 1
      BY <2>1
    <2>3. 1 <= MaxWidth /\ 1 <= 1
      BY ConstantsAssumption
    <2>4. kind' = [kind EXCEPT ![l] = "TEXT"]
      BY <1>1, <1>4, <2>1
    <2>5. 1..Len(fields[l]) = {} /\ 1 \notin 1..Len(fields[l])
      BY <1>4, EmptySeq
    <2>6. Counted(falling') = None
      BY <1>2, <2>1 DEF Counted
    <2>7. "TEXT" \in Kinds \ {"FREE", "LIST", "SCALAR_RECORD"}
      BY DEF Kinds
    <2>8. falling' \in Value
      BY <2>1
    <2> QED
      BY ONLY <1>1, <2>2, <2>3, <2>4, <2>5, <2>6, <2>7, <2>8, l = At(Now.target) DEF Stores
  <1> QED
    BY <1>1, <1>4, <1>5, StoreCloses

(* A record gets a field. *)
LEMMA DoFieldSound ==
    ASSUME IInv, DoField, program' = program
    PROVE  StepForm /\ Sound'
  <1>1. /\ Doing("field") /\ OnHeap /\ hand' = None /\ UNCHANGED <<kind, count, cursor, reg, falling>>
        /\ fields' = [fields EXCEPT ![At(Now.target)][Now.index] = hand]
    BY DEF DoField
  <1> PICK l, i : l = At(Now.target) /\ i = Now.index
    OBVIOUS
  <1>2. Typed /\ HeapSound /\ TargetReady(1) /\ todo[1] = Now /\ Now.do = "field" /\ falling = None
        /\ None \notin Object /\ Now \in MicroStep
    BY <1>1, DoingFacts
  <1>3. l \in Object
    BY <1>2, StepTypes, SlotAssumption DEF At
  <1>4. kind[l] = "RECORD" /\ i \in 1..Len(fields[l]) /\ fields[l][i] = None
    BY <1>2 DEF TargetReady
  <1> PICK fs : fs = [fields[l] EXCEPT ![i] = hand]
    OBVIOUS
  <1>5. fields[l] \in Seq(Value) /\ Len(fields[l]) <= MaxWidth /\ hand \in Value
    BY <1>2, <1>3 DEF Typed, HeapSound
  <1>6. /\ fs \in Seq(Value) /\ Len(fs) = Len(fields[l]) /\ fs[i] = hand
        /\ \A j \in 1..Len(fields[l]) : j # i => fs[j] = fields[l][j]
    BY ONLY <1>4, <1>5, fs = [fields[l] EXCEPT ![i] = hand]
  <1>7. Stores(l, i, fs, "RECORD")
    <2>1. kind' = [kind EXCEPT ![l] = "RECORD"] /\ fields' = [fields EXCEPT ![l] = fs]
      BY <1>1, <1>2, <1>3, <1>4 DEF Typed
    <2>2. falling' \in Value /\ Counted(falling') = None
      BY <1>1, <1>2 DEF Counted, Value
    <2>3. i \in 1..Len(fields[l]) => Counted(fields[l][i]) = None
      BY <1>2, <1>4 DEF Counted
    <2>4. "RECORD" \in Kinds \ {"FREE", "LIST", "SCALAR_RECORD"}
      BY DEF Kinds
    <2> QED
      BY ONLY <1>1, <1>4, <1>5, <1>6, <2>1, <2>2, <2>3, <2>4 DEF Stores
  <1> QED
    BY <1>1, <1>3, <1>7, StoreCloses

(* A List keeps its promise to hold only immortal elements, or drops it.   *)
LEMMA StoredKind ==
    ASSUME Typed, HeapSound, NEW l \in Object, kind[l] \in ListKinds
    PROVE  /\ StoreKind(l, hand) \in ListKinds
           /\ StoreKind(l, hand) = "REFERENCES_IMMORTAL" =>
                 /\ hand \notin Object /\ kind[l] = "REFERENCES_IMMORTAL"
                 /\ \A j \in 1..Len(fields[l]) : fields[l][j] \notin Object
  BY DEF StoreKind, ListKinds, HeapSound, Mortal

(* An element of a List is replaced. *)
LEMMA DoReplaceSound ==
    ASSUME IInv, DoReplace, program' = program
    PROVE  StepForm /\ Sound'
  <1> PICK l, i : l = At(Now.target) /\ i = Now.index
    OBVIOUS
  <1>1. /\ Doing("replace") /\ OnHeap /\ hand' = None /\ UNCHANGED <<count, cursor, reg>>
        /\ fields' = [fields EXCEPT ![l][i] = hand]
        /\ kind' = [kind EXCEPT ![l] = StoreKind(l, hand)]
        /\ falling' = Replaced(l, i)
    BY DEF DoReplace
  <1>2. Typed /\ HeapSound /\ TargetReady(1) /\ todo[1] = Now /\ Now.do = "replace" /\ falling = None
        /\ None \notin Object /\ Now \in MicroStep
    BY <1>1, DoingFacts
  <1>3. l \in Object
    BY <1>2, StepTypes, SlotAssumption DEF At
  <1>4. kind[l] \in ListKinds /\ i \in 1..Len(fields[l])
    BY <1>2 DEF TargetReady
  <1> PICK fs : fs = [fields[l] EXCEPT ![i] = hand]
    OBVIOUS
  <1> PICK k : k = StoreKind(l, hand)
    OBVIOUS
  <1>5. fields[l] \in Seq(Value) /\ Len(fields[l]) <= MaxWidth /\ hand \in Value
    BY <1>2, <1>3 DEF Typed, HeapSound
  <1>6. /\ fs \in Seq(Value) /\ Len(fs) = Len(fields[l]) /\ fs[i] = hand
        /\ \A j \in 1..Len(fields[l]) : j # i => fs[j] = fields[l][j]
        /\ fields[l][i] \in Value
    BY ONLY <1>4, <1>5, fs = [fields[l] EXCEPT ![i] = hand]
  <1>7. Stores(l, i, fs, k)
    <2>1. fields' = [fields EXCEPT ![l] = fs]
      BY <1>1, <1>2, <1>3, <1>4 DEF Typed
    <2>2. /\ k \in ListKinds
          /\ k = "REFERENCES_IMMORTAL" =>
                 /\ hand \notin Object
                 /\ \A j \in 1..Len(fields[l]) : fields[l][j] \notin Object
      BY <1>2, <1>3, <1>4, StoredKind
    <2>3. /\ k \in Kinds \ {"FREE", "LIST", "SCALAR_RECORD"} /\ k # "TEXT"
          /\ k = "REFERENCES" \/ k = "REFERENCES_IMMORTAL"
      BY <2>2 DEF Kinds, ListKinds
    <2>4. k = "REFERENCES_IMMORTAL" => \A j \in 1..Len(fs) : fs[j] \notin Object
      BY <1>6, <2>2
    <2>5. falling' \in Value /\ Counted(falling') = Counted(fields[l][i])
      <3>1. CASE k = "REFERENCES"
        BY <1>1, <1>6, <3>1 DEF Replaced
      <3>2. CASE k = "REFERENCES_IMMORTAL"
        BY <1>1, <1>2, <1>4, <2>2, <3>2 DEF Replaced, Counted, Value
      <3> QED
        BY <2>3, <3>1, <3>2
    <2> QED
      BY ONLY <1>1, <1>4, <1>5, <1>6, <2>1, <2>3, <2>4, <2>5, k = StoreKind(l, hand) DEF Stores
  <1> QED
    BY <1>1, <1>3, <1>7, StoreCloses

LEMMA LastingKept ==
    ASSUME UNCHANGED <<frame, stack>>, NEW P
    PROVE  \A s : Lasting(s, P)' <=> Lasting(s, P)
  BY DEF Lasting, In

(* The steps after one, each made ready again.                             *)
LEMMA StepsReadied ==
    ASSUME IInv, todo # <<>>, todo' = Tail(todo), hand' # None => Ends(1)',
           \A j \in 1..Len(todo') : RegisterReady(j)' /\ TargetReady(j)' /\ FrameReady(j)',
           NEW P \in SUBSET Object, Supported(P)', NamedIn(P)'
    PROVE  StepsSound'
  <1>1. Ahead(1) /\ StepsFormed
    BY AheadForms DEF IInv, Sound, StepsSound, Typed
  <1>2. StepsFormed'
    BY <1>1, FormedAhead
  <1>3. \A j \in 1..Len(todo') : StepReady(j)'
    BY DEF StepReady
  <1>4. OperandsHeld'
    BY DEF OperandsHeld, NamedIn
  <1> QED
    BY <1>2, <1>3, <1>4 DEF StepsSound

(* An element joins a List. *)
LEMMA DoAppendSound ==
    ASSUME IInv, DoAppend, program' = program
    PROVE  StepForm /\ Sound'
  <1> USE DEF objectQueueVars, frameVars, chunkVars
  <1> PICK l : l = At(Now.target)
    OBVIOUS
  <1>1. /\ Doing("append") /\ OnHeap /\ hand' = None /\ UNCHANGED <<count, cursor, reg, falling>>
        /\ fields' = [fields EXCEPT ![l] = Append(fields[l], hand)]
        /\ kind' = [kind EXCEPT ![l] = StoreKind(l, hand)]
    BY DEF DoAppend
  <1>2. /\ Typed /\ HeapSound /\ FrameSound /\ ChunkSound /\ StepsFormed
        /\ TargetReady(1) /\ todo[1] = Now /\ Now.do = "append" /\ falling = None
        /\ None \notin Object /\ Now \in MicroStep /\ todo # <<>> /\ 1 \in 1..Len(todo)
    BY <1>1, DoingFacts
  <1>3. todo' = Tail(todo) /\ Ahead(1) /\ todo' \in Seq(MicroStep)
        /\ UNCHANGED <<recent, old, active, activeCursor, frame, stack, frameQueue, freeFrames,
                       chunk, chunkQueue>>
    <2>1. todo' = Tail(todo)
      BY <1>1 DEF OnHeap
    <2> QED
      BY <1>1, <2>1, DoingFacts DEF OnHeap
  <1>4. ~ Promised(Now.target, "LIST", 1) /\ ~ Promoted(Now.target, 1)
    <2>1. 1..(1 - 1) = {}
      OBVIOUS
    <2> QED
      BY <2>1 DEF Promised, Promoted
  <1>5. l \in Object /\ kind[l] \in ListKinds
        /\ 3 * Length(l) + (Len(todo) - 1 - 1) <= 3 * (MaxWidth - 1)
    BY <1>2, <1>4 DEF TargetReady
  <1>6. count[l] > 0 /\ Progress(l) = 0
    BY <1>1, <1>5, TargetAlive DEF Targeted
  <1> PICK n : n = Len(fields[l])
    OBVIOUS
  <1>7. fields[l] \in Seq(Value) /\ hand \in Value /\ n \in Nat /\ Length(l) = n /\ Len(todo) \in Nat \ {0}
    <2>1. fields[l] \in Seq(Value) /\ hand \in Value /\ n \in Nat
      BY <1>2, <1>5 DEF Typed
    <2>2. Length(l) = n
      BY <1>5 DEF Length
    <2>3. Len(todo) \in Nat \ {0}
      BY <1>2, <1>3 DEF Ahead
    <2> QED
      BY <2>1, <2>2, <2>3
  <1>8. n + 1 <= MaxWidth /\ MaxWidth \in Nat
    <2>1. MaxWidth \in Nat
      BY ConstantsAssumption
    <2>2. 3 * n + (Len(todo) - 1 - 1) <= 3 * (MaxWidth - 1)
      BY <1>5, <1>7
    <2>3. \A m \in Nat \ {0}, w \in Nat : 3 * n + (m - 1 - 1) <= 3 * (w - 1) => n + 1 <= w
      BY ONLY <1>7
    <2> QED
      BY <1>7, <2>1, <2>2, <2>3
  <1> PICK fs : fs = Append(fields[l], hand)
    OBVIOUS
  <1> PICK k : k = StoreKind(l, hand)
    OBVIOUS
  <1>9. /\ fs \in Seq(Value) /\ Len(fs) = n + 1 /\ fs[n + 1] = hand
        /\ \A j \in 1..n : fs[j] = fields[l][j]
    BY <1>7, AppendFacts
  <1>10. /\ k \in ListKinds
         /\ k = "REFERENCES_IMMORTAL" =>
                 /\ hand \notin Object
                 /\ \A j \in 1..Len(fields[l]) : fields[l][j] \notin Object
    BY <1>2, <1>5, StoredKind
  <1>11. Stores(l, n + 1, fs, k)
    <2>1. \A j \in 1..(n + 1) : j # n + 1 => j \in 1..n
      BY <1>7
    <2>2. k \in Kinds \ {"FREE", "LIST", "SCALAR_RECORD"} /\ k # "TEXT"
      BY <1>10 DEF Kinds, ListKinds
    <2>3. k = "REFERENCES_IMMORTAL" => \A j \in 1..(n + 1) : fs[j] \notin Object
      BY <1>9, <1>10, <2>1
    <2>4. falling' \in Value /\ Counted(falling') = None
      BY <1>1, <1>2 DEF Counted, Value
    <2>5. n + 1 \notin 1..n /\ n + 1 \in 1..(n + 1) /\ \A j \in 1..n : j \in 1..(n + 1)
      BY <1>7
    <2> QED
      BY ONLY <1>1, <1>8, <1>9, <2>1, <2>2, <2>3, <2>4, <2>5, n = Len(fields[l]),
              fs = Append(fields[l], hand), k = StoreKind(l, hand) DEF Stores
  <1>12. /\ StepForm /\ Typed' /\ HeapSound' /\ QueueSound'
         /\ n + 1 \in Index /\ SameEdges({<<l, n + 1>>, HandSlot, FallingSlot})
         /\ edge'[<<l, n + 1>>] = edge[HandSlot]
         /\ fields'[l] = fs /\ kind'[l] = k
         /\ \A o \in Object \ {l} : fields'[o] = fields[o] /\ kind'[o] = kind[o]
    BY ONLY IInv, <1>1, <1>2, <1>3, <1>5, <1>6, <1>11, program' = program, Stored
  <1>13. FrameSound' /\ ChunkSound'
    <2>1. \A f \in Frame : Dropping(f)' <=> Dropping(f)
      BY <1>2, <1>3, DropsUnchanged
    <2> QED
      BY <1>2, <1>3, <2>1, FrameUnchanged, ChunkUnchanged
  <1>14. PICK P \in SUBSET Object : Supported(P) /\ NamedIn(P)
    BY OperandsSupported DEF IInv, Sound, StepsSound
  <1>15. l \in P
    <2>1. Named(1) = {l}
      BY <1>2 DEF Named, Targeted
    <2> QED
      BY <1>2, <1>5, <1>14, <2>1 DEF NamedIn
  <1>16. Supported(P)'
    <2> SUFFICES ASSUME NEW o \in P PROVE \E s \in Slot : Lasting(s, P)' /\ edge'[s] = o
      BY DEF Supported
    <2>1. PICK s \in Slot : Lasting(s, P) /\ edge[s] = o
      BY <1>14 DEF Supported
    <2>2. o # None
      BY <1>2
    <2>3. CASE s = HandSlot
      <3>1. Lasting(<<l, n + 1>>, P)' /\ <<l, n + 1>> \in Slot
        BY <1>5, <1>12, <1>15, SlotForms DEF Lasting
      <3> QED
        BY <1>12, <2>1, <2>3, <3>1
    <2>4. CASE s # HandSlot
      <3>1. s # FallingSlot
        BY <2>1, LastingDiffers
      <3>2. edge[<<l, n + 1>>] = None
        <4>1. edge[<<l, n + 1>>] = FieldEdge(l, n + 1)
          BY <1>5, <1>12, Forms DEF EdgeForms
        <4>2. ~ (n + 1 <= n)
          BY <1>7
        <4> QED
          BY <4>1, <4>2 DEF FieldEdge
      <3>3. edge'[s] = edge[s]
        BY <1>12, <2>1, <2>2, <2>4, <3>1, <3>2 DEF SameEdges
      <3> QED
        BY <1>3, <2>1, <3>3, LastingKept
    <2> QED
      BY <2>3, <2>4
  <1>17. ASSUME NEW j \in 1..Len(todo') PROVE TargetReady(j)'
    <2> PICK s : s = todo[j + 1]
      OBVIOUS
    <2> PICK t : t = At(s.target)
      OBVIOUS
    <2>1. todo'[j] = s /\ j + 1 \in 1..Len(todo) /\ Len(todo') = Len(todo) - 1
      BY <1>3 DEF Ahead
    <2>2. TargetReady(j + 1)
      BY <2>1 DEF IInv, Sound, StepsSound, StepReady
    <2>3. /\ \A kk : Promised(s.target, kk, j + 1) => Promised(s.target, kk, j)'
          /\ Promoted(s.target, j + 1) => Promoted(s.target, j)'
      BY <1>2, <1>3, PromisesAhead
    <2>4. At(todo[j].target)' = t
      BY <1>1, <2>1 DEF At
    <2>5. CASE t # l \/ s.do \notin Targeted
      <3>1. s.do \in Targeted /\ t \in Object =>
                 /\ kind'[t] = kind[t] /\ fields'[t] = fields[t]
                 /\ s.do = "grow" /\ count[t] = 1 => count'[t] = 1
        BY <1>1, <1>12, <2>5
      <3> QED
        BY ONLY <1>2, <1>3, j \in 1..Len(todo'), <2>2, s = todo[j + 1], t = At(s.target),
                <2>3, <2>4, <3>1, TargetAhead
    <2>6. CASE t = l /\ s.do \in Targeted
      <3>1. /\ s.do = "append" => j + 1 >= 1 + 3
        <4>1. 1 < j + 1
          OBVIOUS
        <4> QED
          BY <1>2, <2>1, <4>1 DEF StepsFormed
      <3>2. /\ s.do = "append" => 3 * Length(t)' + (Len(todo') - 1 - j) <= 3 * (MaxWidth - 1)
        <4>1. Length(t)' = n + 1
          BY <1>5, <1>9, <1>12, <2>6 DEF Length
        <4>2. Len(todo') = Len(todo) - 1 /\ Len(todo) \in Nat /\ j \in Nat
          BY <1>7, <2>1
        <4>3. 3 * n + (Len(todo) - 1 - 1) <= 3 * (MaxWidth - 1)
          BY <1>5, <1>7
        <4> HIDE DEF Targeted
        <4> QED
          BY ONLY <1>7, <1>8, <3>1, <4>1, <4>2, <4>3, j \in 1..Len(todo')
      <3>3. /\ s.do = "replace" => kind[t] \in ListKinds /\ s.index \in 1..Len(fields[t])
            /\ s.do = "field" => kind[t] = "RECORD"
            /\ s.do = "backing" => Promised(s.target, "TEXT", j + 1) \/ kind[t] = "TEXT"
            /\ s.do = "grow" => count[t] = 1
        BY <2>1, <2>2, <2>4 DEF TargetReady
      <3>4. s.do # "field" /\ (s.do = "backing" => Promised(s.target, "TEXT", j)')
        BY <1>5, <2>3, <2>6, <3>3 DEF ListKinds
      <3>5. s.do = "replace" => s.index \in 1..Len(fields'[t])
        BY SMTT(60), <1>7, <1>9, <1>12, <2>6, <3>3
      <3>6. t \in Object /\ kind'[t] \in ListKinds /\ (s.do = "grow" => count'[t] = 1)
        BY <1>1, <1>5, <1>10, <1>12, <2>6, <3>3
      <3> QED
        BY <2>1, <2>4, <3>2, <3>3, <3>4, <3>5, <3>6 DEF TargetReady
    <2> QED
      BY <2>5, <2>6
  <1>18. StepsSound'
    <2>1. SteadyFrames /\ SteadyRegisters /\ SteadyTargets
      BY <1>1, <1>3, FramesSteady, RegistersSteady, TargetsSteady
    <2>2. ASSUME NEW j \in 1..Len(todo') PROVE RegisterReady(j)' /\ FrameReady(j)'
      <3>1. RegisterReady(j + 1) /\ FrameReady(j + 1)
        BY <1>3 DEF IInv, Sound, StepsSound, StepReady, Ahead
      <3> QED
        BY <1>2, <1>3, <2>1, <3>1, RegistersAhead, FramesAhead
    <2>3. NamedIn(P)'
      BY <1>3, <1>14, <2>1, NamesAhead
    <2> QED
      BY <1>1, <1>2, <1>3, <1>16, <1>17, <2>2, <2>3, StepsReadied
  <1> QED
    BY <1>12, <1>13, <1>18 DEF Sound

(* A new value: it owns nothing, and the register that holds it is its     *)
(* only owner.                                                             *)
LEMMA NewValue ==
    ASSUME Typed, HeapSound, QueueSound, NEW o \in Object, Free(o), NEW k \in NewKinds,
           NEW n \in 0..MaxWidth, k = "RECORD" \/ n = 0,
           kind' = [kind EXCEPT ![o] = k], count' = [count EXCEPT ![o] = 1],
           fields' = [fields EXCEPT ![o] = [i \in 1..n |-> None]],
           UNCHANGED <<cursor, recent, old, active, activeCursor>>
    PROVE  /\ HeapSound' /\ QueueSound' /\ count[o] = 0 /\ status[o] = "free"
           /\ kind'[o] = k /\ count'[o] = 1 /\ (k # "RECORD" => fields'[o] = <<>>)
           /\ \A p \in Object \ {o} : /\ kind'[p] = kind[p] /\ count'[p] = count[p]
                                      /\ fields'[p] = fields[p]
           /\ kind' \in [Object -> Kinds] /\ count' \in [Object -> Nat]
           /\ fields' \in [Object -> Seq(Value)]
           /\ status' = [status EXCEPT ![o] = "live"]
           /\ \A E : SameFields(E)
  <1> PICK fs : fs = [i \in 1..n |-> None]
    OBVIOUS
  <1>1. fs \in Seq(Value) /\ Len(fs) = n /\ n \in Nat /\ \A i \in 1..n : fs[i] = None
    <2>1. n \in Nat /\ None \in Value
      BY ConstantsAssumption DEF Value
    <2> QED
      BY <2>1
  <1>2. k # "RECORD" => fs = <<>>
    BY <1>1, EmptySeq
  <1>3. kind \in [Object -> Kinds] /\ count \in [Object -> Nat] /\ fields \in [Object -> Seq(Value)]
        /\ cursor \in [Object -> Nat] /\ k \in Kinds /\ None \notin Object
    BY ConstantsAssumption DEF Typed, NewKinds, Kinds
  <1>4. /\ kind'[o] = k /\ count'[o] = 1 /\ fields'[o] = fs
        /\ \A p \in Object \ {o} : /\ kind'[p] = kind[p] /\ count'[p] = count[p]
                                   /\ fields'[p] = fields[p]
        /\ kind' \in [Object -> Kinds] /\ count' \in [Object -> Nat]
        /\ fields' \in [Object -> Seq(Value)]
    BY <1>1, <1>3
  <1>5. count[o] = 0 /\ fields[o] = <<>> /\ cursor[o] = 0 /\ ~ Dead(o)
    BY DEF HeapSound, Free, Dead
  <1>6. o # active /\ ~ In(recent, o) /\ ~ In(old, o)
    BY <1>5 DEF QueueSound
  <1>7. /\ k # "FREE" /\ k # "REFERENCES_IMMORTAL"
        /\ k \in {"LIST", "SCALAR_RECORD", "TEXT"} => k # "RECORD"
    BY DEF NewKinds
  <1>8. HeapSound'
    <2>1. ASSUME NEW p \in Object
          PROVE  /\ Free(p)' => count'[p] = 0 /\ fields'[p] = <<>>
                 /\ Free(p)' \/ Live(p)' => cursor'[p] = 0
                 /\ Len(fields'[p]) <= MaxWidth /\ cursor'[p] <= Len(fields'[p])
                 /\ kind'[p] \in {"LIST", "SCALAR_RECORD"} => fields'[p] = <<>>
                 /\ kind'[p] = "REFERENCES_IMMORTAL" =>
                      \A i \in 1..Len(fields'[p]) : fields'[p][i] \notin Object
                 /\ kind'[p] = "TEXT" => Len(fields'[p]) <= 1
      <3>1. CASE p = o
        <4>1. Len(fields'[p]) = n /\ cursor'[p] = 0 /\ ~ Free(p)'
          BY <1>1, <1>4, <1>5, <1>7, <3>1 DEF Free
        <4>2. kind'[p] \in {"LIST", "SCALAR_RECORD"} => fields'[p] = <<>>
          BY <1>2, <1>4, <1>7, <3>1
        <4>3. kind'[p] = "TEXT" => n = 0
          BY <1>4, <3>1
        <4> QED
          BY <1>1, <1>4, <1>7, <3>1, <4>1, <4>2, <4>3
      <3>2. CASE p # o
        BY <1>4, <3>2 DEF HeapSound, Free, Live
      <3> QED
        BY <3>1, <3>2
    <2>2. active' # None => activeCursor' <= Len(fields'[active'])
      <3>1. active # None => active \in Object \ {o}
        BY <1>6 DEF Typed
      <3> QED
        BY <1>4, <3>1 DEF HeapSound
    <2> QED
      BY <2>1, <2>2 DEF HeapSound
  <1>9. QueueSound'
    <2>1. \A p \in Object : Dead(p)' <=> Dead(p)
      BY <1>4, <1>5 DEF Dead
    <2> QED
      BY <2>1 DEF QueueSound, Distinct, In
  <1>10. status[o] = "free" /\ status' = [status EXCEPT ![o] = "live"]
    <2>1. \A p \in Object \ {o} : status'[p] = status[p]
      BY <1>4 DEF status, Free, Live
    <2>2. status'[o] = "live" /\ status[o] = "free"
      BY <1>4, <1>7 DEF status, Free, Live
    <2> QED
      BY <2>1, <2>2 DEF status
  <1>11. ASSUME NEW E PROVE SameFields(E)
    <2> SUFFICES ASSUME NEW p \in Object, NEW i \in Index PROVE FieldEdge(p, i)' = FieldEdge(p, i)
      BY DEF SameFields
    <2>1. CASE p = o
      <3>1. FieldEdge(p, i) = None
        <4>1. Len(fields[p]) = 0 /\ ~ (i <= 0)
          BY <1>5, <2>1 DEF Index
        <4> QED
          BY <4>1 DEF FieldEdge
      <3>2. FieldEdge(p, i)' = None
        <4>1. i <= n => fields'[p][i] = None
          BY <1>1, <1>4, <2>1 DEF Index
        <4>2. Len(fields'[p]) = n
          BY <1>1, <1>4, <2>1
        <4> QED
          BY <1>3, <4>1, <4>2 DEF FieldEdge, Counted
      <3> QED
        BY <3>1, <3>2
    <2>2. CASE p # o
      <3>1. fields'[p] = fields[p] /\ Progress(p)' = Progress(p)
        BY <1>4, <2>2 DEF Progress
      <3> QED
        BY <3>1 DEF FieldEdge
    <2> QED
      BY <2>1, <2>2
  <1> QED
    BY <1>2, <1>4, <1>5, <1>8, <1>9, <1>10, <1>11

(* The set of supported values grows by one that a root holds.             *)
LEMMA SupportGrows ==
    ASSUME UNCHANGED <<frame, stack>>, NEW P \in SUBSET Object, Supported(P), NEW o \in Object,
           NEW s \in Slot, Lasting(s, P \cup {o}), edge'[s] = o,
           \A t \in Slot : Lasting(t, P) /\ edge[t] \in P => edge'[t] = edge[t]
    PROVE  Supported(P \cup {o})'
  <1>1. \A t : Lasting(t, P) => Lasting(t, P \cup {o})
    BY DEF Lasting
  <1>2. \A t : Lasting(t, P \cup {o}) => Lasting(t, P \cup {o})'
    BY LastingKept
  <1> QED
    BY <1>1, <1>2 DEF Supported

(* A constructor returns an owned, empty value. *)
LEMMA DoAllocateSound ==
    ASSUME IInv, DoAllocate, program' = program
    PROVE  StepForm /\ Sound'
  <1> USE DEF objectQueueVars, frameVars, chunkVars
  <1> PICK r, k, n : r = Now.reg /\ k = Now.kind /\ n = Now.length
    OBVIOUS
  <1>1. /\ Doing("allocate") /\ todo' = Tail(todo)
        /\ UNCHANGED <<cursor, recent, old, active, activeCursor, frame, stack, frameQueue,
                       freeFrames, chunk, chunkQueue, hand, falling>>
    BY DEF DoAllocate, OnHeap
  <1>2. /\ Typed /\ HeapSound /\ QueueSound /\ FrameSound /\ ChunkSound /\ StepsFormed
        /\ todo[1] = Now /\ Now.do = "allocate" /\ RegisterReady(1) /\ None \notin Object
        /\ Now \in MicroStep /\ Ahead(1) /\ todo' \in Seq(MicroStep) /\ 1 \in 1..Len(todo)
        /\ todo # <<>>
    BY <1>1, DoingFacts
  <1>3. hand = None
    <2>1. hand # None => "allocate" \in Consumes \cup {"chunk", "service"}
      BY <1>1, DoingFacts
    <2> QED
      BY <2>1 DEF Consumes
  <1>4. /\ r \in Register /\ reg[r] = None /\ k \in NewKinds /\ n \in 0..MaxWidth
        /\ k = "RECORD" \/ n = 0
    BY <1>2, StepTypes DEF RegisterReady
  <1>5. PICK o \in Object :
          /\ Free(o) /\ kind' = [kind EXCEPT ![o] = k] /\ count' = [count EXCEPT ![o] = 1]
          /\ fields' = [fields EXCEPT ![o] = [i \in 1..n |-> None]]
          /\ reg' = [reg EXCEPT ![r] = o]
    BY DEF DoAllocate
  <1>6. /\ HeapSound' /\ QueueSound' /\ count[o] = 0 /\ status[o] = "free"
        /\ kind'[o] = k /\ count'[o] = 1 /\ (k # "RECORD" => fields'[o] = <<>>)
        /\ \A p \in Object \ {o} : /\ kind'[p] = kind[p] /\ count'[p] = count[p]
                                   /\ fields'[p] = fields[p]
        /\ kind' \in [Object -> Kinds] /\ count' \in [Object -> Nat]
        /\ fields' \in [Object -> Seq(Value)]
        /\ status' = [status EXCEPT ![o] = "live"]
        /\ \A E : SameFields(E)
    BY ONLY <1>1, <1>2, <1>4, <1>5, NewValue
  <1>7. reg' \in [Register -> Value] /\ reg'[r] = o /\ \A q \in Register \ {r} : reg'[q] = reg[q]
    BY <1>2, <1>4, <1>5 DEF Typed, Value
  <1> DEFINE s == <<r, 0>>
  <1>8. SameEdges({s})
    <2>1. SameRegisters({s})
      BY <1>7 DEF SameRegisters
    <2>2. SameFields({s}) /\ SameLocals({s}) /\ SameChunks({s})
      BY <1>1, <1>6, LocalsUnchanged, ChunksUnchanged
    <2>3. Counted(falling') = Counted(falling) /\ Counted(hand') = Counted(hand)
      BY <1>1
    <2> HIDE DEF s
    <2> QED
      BY ONLY <2>1, <2>2, <2>3, OthersKept
  <1>9. edge[s] = None /\ edge'[s] = o
    BY <1>2, <1>4, <1>7, Forms, FormsNext DEF EdgeForms, Counted
  <1>10. StepForm
    <2>1. s \in RootSlot
      BY <1>4, SlotForms
    <2>2. Refs!Gained(edge, edge', s, o)
      BY <1>8, <1>9, RefsSlots DEF Refs!Gained, Refs!OnlyAt, SameEdges
    <2>3. Refs!Allocates(edge, edge', count, count')
      BY <1>5, <1>6, <2>1, <2>2 DEF Refs!Allocates, Refs!Becomes, Refs!Counts
    <2> QED
      BY <2>3 DEF StepForm, Refs!StepForms
  <1>11. Typed'
    BY <1>1, <1>2, <1>6, <1>7 DEF Typed
  <1>12. FrameSound' /\ ChunkSound'
    <2>1. \A f \in Frame : Dropping(f)' <=> Dropping(f)
      BY <1>1, <1>2, DropsUnchanged
    <2> QED
      BY <1>1, <1>2, <2>1, FrameUnchanged, ChunkUnchanged
  <1>13. PICK P \in SUBSET Object : Supported(P) /\ NamedIn(P)
    BY OperandsSupported DEF IInv, Sound, StepsSound
  <1>14. \A p \in P : p # o
    BY <1>6, <1>13, SupportedLive
  <1>15. Supported(P \cup {o})'
    <2>1. s \in Slot /\ Lasting(s, P \cup {o})
      BY <1>4, SlotForms DEF Lasting
    <2>2. \A t \in Slot : Lasting(t, P) /\ edge[t] \in P => edge'[t] = edge[t]
      BY <1>2, <1>8, <1>9 DEF SameEdges
    <2> HIDE DEF s
    <2> QED
      BY <1>1, <1>9, <1>13, <2>1, <2>2, SupportGrows
  <1>16. ASSUME NEW j \in 1..Len(todo')
         PROVE  /\ todo'[j] = todo[j + 1] /\ j + 1 \in 1..Len(todo) /\ 1 < j + 1
                /\ todo[j + 1].do \notin Fills
    <2>1. todo'[j] = todo[j + 1] /\ j + 1 \in 1..Len(todo) /\ 1 < j + 1
      BY <1>2 DEF Ahead
    <2>2. "allocate" \in Fills
      BY DEF Fills
    <2> QED
      BY <1>2, <2>1, <2>2 DEF StepsFormed
  <1>17. NamedIn(P \cup {o})'
    <2> SUFFICES ASSUME NEW j \in 1..Len(todo')
                 PROVE  Named(j)' \cap Object \subseteq P \cup {o}
      BY DEF NamedIn
    <2> PICK u : u = todo[j + 1]
      OBVIOUS
    <2>1. todo'[j] = u /\ u \in MicroStep /\ Named(j + 1) \cap Object \subseteq P
      BY SMTT(60), <1>2, <1>13, <1>16 DEF NamedIn, Typed
    <2>2. CASE u.do = "retain"
      BY <2>1, <2>2 DEF Named
    <2>3. CASE u.do \in Targeted
      <3>1. At(u.target)' = At(u.target) \/ At(u.target)' = o
        BY <1>7 DEF At
      <3> QED
        BY <2>1, <2>3, <3>1 DEF Named, Targeted
    <2> QED
      BY <2>1, <2>2, <2>3 DEF Named
  <1>18. ASSUME NEW j \in 1..Len(todo') PROVE TargetReady(j)'
    <2> PICK u : u = todo[j + 1]
      OBVIOUS
    <2> PICK t : t = At(u.target)
      OBVIOUS
    <2>1. /\ todo'[j] = u /\ j + 1 \in 1..Len(todo) /\ u \in MicroStep /\ j \in Nat
          /\ Len(todo) \in Nat /\ Len(todo') = Len(todo) - 1
      BY SMTT(60), <1>2, <1>16 DEF Typed, Ahead
    <2>2. TargetReady(j + 1)
      BY <2>1 DEF IInv, Sound, StepsSound, StepReady
    <2>3. ASSUME NEW q, NEW kk, Promised(q, kk, j + 1)
          PROVE  Promised(q, kk, j)' \/ (q = r /\ kk = k)
      <3>1. PICK i \in 1..((j + 1) - 1) :
               todo[i].do = "allocate" /\ todo[i].reg = q /\ todo[i].kind = kk
        BY <2>3 DEF Promised
      <3>2. CASE i = 1
        BY <1>2, <3>1, <3>2
      <3>3. CASE i # 1
        <4>1. i - 1 \in 1..(j - 1) /\ i - 1 \in 1..Len(todo') /\ (i - 1) + 1 = i
          BY <2>1, <3>3
        <4>2. todo'[i - 1] = todo[i]
          BY <1>2, <4>1 DEF Ahead
        <4> QED
          BY <3>1, <4>1, <4>2 DEF Promised
      <3> QED
        BY <3>2, <3>3
    <2>4. \A q : Promoted(q, j + 1) => Promoted(q, j)'
      BY <1>2, PromisesAhead
    <2>5. CASE u.do \notin Targeted
      BY <2>1, <2>5 DEF TargetReady, Targeted
    <2>6. CASE u.do \in Targeted /\ u.target # r
      <3>1. At(todo[j].target)' = t
        BY <1>7, <2>1, <2>6 DEF At
      <3>2. t \in Object => /\ kind'[t] = kind[t] /\ fields'[t] = fields[t]
                            /\ u.do = "grow" /\ count[t] = 1 => count'[t] = 1
        <4>1. t \in Object => t \in P
          BY <1>13, <2>1, <2>6 DEF NamedIn, Named, Targeted
        <4> QED
          BY <1>6, <1>14, <4>1
      <3>3. \A kk : Promised(u.target, kk, j + 1) => Promised(u.target, kk, j)'
        BY <2>3, <2>6
      <3> QED
        BY ONLY <1>2, j \in 1..Len(todo'), <2>2, u = todo[j + 1], t = At(u.target), <2>4,
                <3>1, <3>2, <3>3, TargetAhead
    <2>7. CASE u.do \in Targeted /\ u.target = r
      <3>1. t = None /\ At(u.target)' = o
        BY <1>4, <1>7, <2>7 DEF At
      <3>2. ASSUME NEW kk, Promised(r, kk, j + 1) PROVE kk = k
        <4>1. PICK i \in 1..((j + 1) - 1) :
                 todo[i].do = "allocate" /\ todo[i].reg = r /\ todo[i].kind = kk
          BY <3>2 DEF Promised
        <4>2. CASE i = 1
          BY <1>2, <4>1, <4>2
        <4>3. CASE i # 1
          <5>1. i - 1 \in 1..Len(todo') /\ (i - 1) + 1 = i
            BY <2>1, <4>3
          <5>2. todo[i].do \notin Fills
            BY <1>16, <5>1
          <5> QED
            BY <4>1, <5>2 DEF Fills
        <4> QED
          BY <4>2, <4>3
      <3>3. r \notin Object /\ u.do \notin {"replace", "field", "grow"}
        <4>1. r \notin Object
          BY <1>4, SlotAssumption
        <4>2. u.do \in {"replace", "field"} => u.target \in Object
          BY <2>1, StepTypes
        <4>3. u.do # "grow"
          BY <1>2, <2>1, <2>2, <3>1 DEF TargetReady
        <4> QED
          BY <2>7, <4>1, <4>2, <4>3
      <3>4. /\ u.do \in {"references", "append"} => k = "LIST"
            /\ u.do = "append" => /\ Promoted(u.target, j)'
                                  /\ 3 * 0 + (Len(todo) - 1 - (j + 1)) <= 3 * (MaxWidth - 1)
            /\ u.do = "backing" => k = "TEXT"
        BY <1>2, <2>1, <2>2, <2>4, <2>7, <3>1, <3>2 DEF TargetReady, Length
      <3>5. k # "RECORD" => Length(o)' = 0
        BY <1>6 DEF Length
      <3>6. Len(todo') - 1 - j = Len(todo) - 1 - (j + 1)
        BY <2>1
      <3> QED
        BY <1>6, <2>1, <3>1, <3>3, <3>4, <3>5, <3>6 DEF TargetReady, ListKinds, Targeted
    <2> QED
      BY <2>5, <2>6, <2>7
  <1>19. StepsSound'
    <2>1. SteadyFrames
      BY <1>1, FramesSteady
    <2>2. ASSUME NEW j \in 1..Len(todo') PROVE RegisterReady(j)' /\ FrameReady(j)'
      <3>1. FrameReady(j + 1)
        BY <1>16 DEF IInv, Sound, StepsSound, StepReady
      <3>2. FrameReady(j)'
        BY <1>2, <2>1, <3>1, FramesAhead
      <3>3. RegisterReady(j)'
        BY <1>16 DEF RegisterReady, Fills
      <3> QED
        BY <3>2, <3>3
    <2>3. P \cup {o} \in SUBSET Object /\ hand' = None
      BY <1>1, <1>3
    <2> QED
      BY ONLY IInv, <1>1, <1>2, <1>15, <1>17, <1>18, <2>2, <2>3, StepsReadied
  <1> QED
    BY <1>6, <1>10, <1>11, <1>12, <1>19 DEF Sound

(* A step that turns to the next one, and disturbs nothing it relies on.   *)
LEMMA StepsGoOn ==
    ASSUME IInv, NEW name, Doing(name), name \notin {"allocate", "references", "chunk"},
           todo' = Tail(todo), UNCHANGED <<stack, frame, chunk, chunkQueue, frameQueue, freeFrames>>,
           hand' # None => Ends(1)',
           NEW P \in SUBSET Object, NamedIn(P), Supported(P)', SteadyValues(P),
           SteadyTargets, SteadyRegisters
    PROVE  StepsSound'
  <1>1. Typed /\ Ahead(1) /\ todo[1].do = name
    BY DoingFacts
  <1>2. StepsSound /\ SteadyFrames
    BY FramesSteady DEF IInv, Sound
  <1>3. todo[1].do \notin {"allocate", "references", "chunk"}
    BY <1>1
  <1> QED
    BY ONLY <1>1, <1>2, <1>3, hand' # None => Ends(1)', P \in SUBSET Object, NamedIn(P),
            Supported(P)', SteadyValues(P), SteadyTargets, SteadyRegisters, StepsKept

(* The operand of the step after next comes into the hand.                 *)
LEMMA HandFilled ==
    ASSUME IInv, NEW name, Doing(name), name \in Acquires, todo' = Tail(todo)
    PROVE  Ends(1)' /\ hand = None /\ NoGrowth'
  <1>1. /\ StepsFormed /\ todo[1].do = name /\ Ahead(1) /\ 1 \in 1..Len(todo)
        /\ (hand # None => name \in Consumes \cup {"chunk", "service"})
    BY DoingFacts
  <1>2. name # "service" /\ name \notin Consumes \cup {"chunk", "service"}
    BY DEF Acquires, Consumes
  <1>3. Ends(1 + 1)
    BY <1>1 DEF StepsFormed
  <1>4. Ends(1)'
    BY <1>1, <1>3, EndsAhead
  <1>5. NoGrowth'
    <2> SUFFICES ASSUME NEW j \in 1..Len(todo') PROVE todo'[j].do # "grow"
      BY DEF NoGrowth
    <2>1. todo'[j] = todo[j + 1] /\ j + 1 \in 1..Len(todo) /\ 1 < j + 1
      BY <1>1 DEF Ahead
    <2> QED
      BY <1>1, <1>2, <2>1 DEF StepsFormed
  <1> QED
    BY <1>1, <1>2, <1>4, <1>5

(* A retain of an immortal value, or of one whose count is at its limit. *)
LEMMA SaturatedSound ==
    ASSUME IInv, DoRetain, Saturated(Now.value), program' = program
    PROVE  StepForm /\ Sound'
  <1> USE DEF heapVars, objectQueueVars, frameVars, chunkVars
  <1>1. /\ Doing("retain") /\ todo' = Stop
        /\ UNCHANGED <<kind, count, fields, cursor, recent, old, active, activeCursor, frame, stack,
                       frameQueue, freeFrames, chunk, chunkQueue, reg, hand, falling, program>>
    BY DEF DoRetain
  <1>2. /\ Typed /\ HeapSound /\ QueueSound /\ FrameSound /\ ChunkSound /\ todo[1].do = "retain"
        /\ (hand # None => "retain" \in Consumes \cup {"chunk", "service"})
    BY <1>1, DoingFacts
  <1>3. hand = None
    BY <1>2 DEF Consumes
  <1>4. Stop \in Seq(MicroStep) /\ Len(Stop) = 1 /\ Stop[1].do = "stop"
    <2>1. Op("stop") \in MicroStep /\ Op("stop").do = "stop"
      BY StepForms DEF Op
    <2> QED
      BY <2>1 DEF Stop
  <1>5. StepsSound'
    BY <1>1, <1>3, <1>4, StepsOver
  <1>6. \A f \in Frame : Dropping(f)' <=> Dropping(f)
    BY <1>1, <1>2, <1>4 DEF Dropping
  <1>7. HeapSound' /\ QueueSound' /\ FrameSound' /\ ChunkSound'
    BY <1>1, <1>2, <1>6, HeapUnchanged, QueueUnchanged, FrameUnchanged, ChunkUnchanged
  <1>8. Typed'
    BY <1>1, <1>2, <1>4 DEF Typed
  <1>9. StepForm
    <2>1. \A s \in Slot : edge'[s] = edge[s]
      BY <1>1, EdgesUnchanged
    <2> QED
      BY <1>1, <2>1, KeptForm DEF status, Free, Live
  <1> QED
    BY <1>5, <1>7, <1>8, <1>9 DEF Sound

(* A retain that counts. *)
LEMMA RetainedSound ==
    ASSUME IInv, DoRetain, ~ Saturated(Now.value), program' = program
    PROVE  StepForm /\ Sound'
  <1> USE DEF heapVars, objectQueueVars, frameVars, chunkVars
  <1> PICK v : v = Now.value
    OBVIOUS
  <1>1. /\ Doing("retain") /\ todo' = Tail(todo) /\ hand' = v
        /\ count' = IF Mortal(v) THEN [count EXCEPT ![v] = @ + 1] ELSE count
        /\ UNCHANGED <<kind, fields, cursor, recent, old, active, activeCursor, frame, stack,
                       frameQueue, freeFrames, chunk, chunkQueue, reg, falling, program>>
    BY DEF DoRetain, OnHeap
  <1>2. /\ Typed /\ HeapSound /\ QueueSound /\ FrameSound /\ ChunkSound /\ Now \in MicroStep
        /\ todo[1] = Now /\ Now.do = "retain" /\ None \notin Object /\ StepsFormed
        /\ Ahead(1) /\ todo' \in Seq(MicroStep) /\ 1 \in 1..Len(todo)
    BY <1>1, DoingFacts
  <1>3. Ends(1)' /\ hand = None /\ NoGrowth'
    <2>1. "retain" \in Acquires
      BY DEF Acquires
    <2> QED
      BY <1>1, <2>1, HandFilled
  <1>4. v \in Value
    BY <1>2, StepTypes
  <1>5. v \in Object => count[v] > 0 /\ status[v] = "live"
    <2>1. Named(1) = {v}
      BY <1>2 DEF Named
    <2>2. v \in Object => count[v] > 0
      BY <1>2, <2>1, NamedAlive
    <2> QED
      BY <2>2, LiveFacts DEF IInv
  <1>6. /\ count' \in [Object -> Nat]
        /\ \A o \in Object : (count'[o] > 0 <=> count[o] > 0) /\ (count'[o] = 0 <=> count[o] = 0)
    <2>1. count \in [Object -> Nat]
      BY <1>2 DEF Typed
    <2>2. CASE v \in Object
      <3>1. count' = [count EXCEPT ![v] = count[v] + 1] /\ count[v] \in Nat /\ count[v] > 0
        BY <1>1, <1>5, <2>1, <2>2 DEF Mortal
      <3>2. count'[v] = count[v] + 1 /\ \A o \in Object \ {v} : count'[o] = count[o]
        BY <2>1, <2>2, <3>1
      <3> QED
        BY <2>1, <3>1, <3>2
    <2>3. CASE v \notin Object
      BY <1>1, <2>1, <2>3 DEF Mortal
    <2> QED
      BY <2>2, <2>3
  <1>7. status' = status
    BY <1>1, <1>6 DEF status, Free, Live
  <1>8. SameEdges({HandSlot})
    <2>1. SameRegisters({HandSlot}) /\ SameFields({HandSlot}) /\ SameLocals({HandSlot})
          /\ SameChunks({HandSlot})
      BY <1>1, RegistersUnchanged, FieldsUnchanged, LocalsUnchanged, ChunksUnchanged
    <2>2. Counted(falling') = Counted(falling)
      BY <1>1
    <2> QED
      BY ONLY <2>1, <2>2, OthersKept
  <1>9. edge[HandSlot] = None /\ edge'[HandSlot] = Counted(v) /\ HandSlot \in RootSlot
    BY <1>1, <1>2, <1>3, SlotForms, Forms, FormsNext DEF EdgeForms, Counted
  <1>10. StepForm
    <2>1. CASE v \in Object
      <3>1. Refs!Gained(edge, edge', HandSlot, v) /\ v # None
        BY <1>2, <1>8, <1>9, <2>1, RefsSlots DEF Refs!Gained, Refs!OnlyAt, SameEdges, Counted
      <3>2. Refs!Counts(count, count', v, count[v] + 1)
        BY <1>1, <2>1 DEF Refs!Counts, Mortal
      <3>3. Refs!Shares(edge, edge', count, count')
        BY <1>5, <1>7, <1>9, <2>1, <3>1, <3>2 DEF Refs!Shares
      <3> QED
        BY <3>3 DEF StepForm, Refs!StepForms
    <2>2. CASE v \notin Object
      <3>1. \A s \in Slot : edge'[s] = edge[s]
        BY <1>8, <1>9, <2>2 DEF Counted, SameEdges
      <3>2. count' = count
        BY <1>1, <2>2 DEF Mortal
      <3> QED
        BY <1>7, <3>1, <3>2, KeptForm
    <2> QED
      BY <2>1, <2>2
  <1>11. Typed'
    BY <1>1, <1>2, <1>4, <1>6 DEF Typed
  <1>12. HeapSound' /\ QueueSound'
    <2>1. HeapSound'
      BY <1>1, <1>2, <1>6 DEF HeapSound, Free, Live
    <2>2. QueueSound'
      BY <1>1, <1>2, <1>6 DEF QueueSound, Dead, Distinct, In
    <2> QED
      BY <2>1, <2>2
  <1>13. FrameSound' /\ ChunkSound'
    <2>1. \A f \in Frame : Dropping(f)' <=> Dropping(f)
      BY <1>1, <1>2, DropsUnchanged
    <2> QED
      BY <1>1, <1>2, <2>1, FrameUnchanged, ChunkUnchanged
  <1>14. StepsSound'
    <2>1. PICK P \in SUBSET Object : Supported(P) /\ NamedIn(P)
      BY OperandsSupported DEF IInv, Sound, StepsSound
    <2>2. SteadyFrames /\ SteadyRegisters /\ SteadyTargets /\ SteadyValues(P)
      BY <1>1, <1>3, FramesSteady, RegistersSteady, TargetsSteady DEF SteadyValues
    <2>3. Supported(P)'
      <3>1. \A s \in Slot : Lasting(s, P) /\ edge[s] \in P => edge'[s] = edge[s]
        BY <1>2, <1>8, <1>9 DEF SameEdges
      <3> QED
        BY <1>1, <2>1, <2>2, <3>1, SupportSteady
    <2>4. "retain" \notin {"allocate", "references", "chunk"}
      OBVIOUS
    <2> QED
      BY ONLY IInv, <1>1, <1>3, <2>1, <2>2, <2>3, <2>4, StepsGoOn
  <1> QED
    BY <1>10, <1>11, <1>12, <1>13, <1>14 DEF Sound

(* An owned result is taken over. *)
LEMMA DoTakeSound ==
    ASSUME IInv, DoTake, program' = program
    PROVE  StepForm /\ Sound'
  <1> USE DEF heapVars, objectQueueVars, frameVars, chunkVars
  <1> PICK r : r = Now.target
    OBVIOUS
  <1>1. /\ Doing("take") /\ todo' = Tail(todo) /\ hand' = reg[r]
        /\ reg' = [reg EXCEPT ![r] = None]
        /\ UNCHANGED <<kind, count, fields, cursor, recent, old, active, activeCursor, frame, stack,
                       frameQueue, freeFrames, chunk, chunkQueue, falling, program>>
    BY DEF DoTake, OnHeap
  <1>2. /\ Typed /\ HeapSound /\ QueueSound /\ FrameSound /\ ChunkSound /\ Now \in MicroStep
        /\ todo[1] = Now /\ Now.do = "take" /\ None \notin Object /\ StepsFormed
        /\ Ahead(1) /\ todo' \in Seq(MicroStep) /\ 1 \in 1..Len(todo)
    BY <1>1, DoingFacts
  <1>3. Ends(1)' /\ hand = None
    <2>1. "take" \in Acquires
      BY DEF Acquires
    <2> QED
      BY <1>1, <2>1, HandFilled
  <1>4. r \in Register /\ reg[r] \in Value
    BY <1>2, StepTypes DEF Typed
  <1>5. reg' \in [Register -> Value] /\ reg'[r] = None /\ \A q \in Register \ {r} : reg'[q] = reg[q]
    BY <1>1, <1>2, <1>4 DEF Typed, Value
  <1> DEFINE s == <<r, 0>>
  <1>6. SameEdges({HandSlot, s})
    <2>1. SameRegisters({HandSlot, s})
      BY <1>5 DEF SameRegisters
    <2>2. SameFields({HandSlot, s}) /\ SameLocals({HandSlot, s}) /\ SameChunks({HandSlot, s})
      BY <1>1, FieldsUnchanged, LocalsUnchanged, ChunksUnchanged
    <2>3. Counted(falling') = Counted(falling) /\ HandSlot \in {HandSlot, s}
      BY <1>1
    <2> HIDE DEF s
    <2> QED
      BY ONLY <2>1, <2>2, <2>3, OthersKept
  <1>7. edge[HandSlot] = None /\ edge'[HandSlot] = edge[s] /\ edge'[s] = None
    BY <1>1, <1>2, <1>3, <1>4, <1>5, Forms, FormsNext DEF EdgeForms, Counted
  <1>8. s \in Slot /\ HandSlot \in Slot /\ HandSlot \in RootSlot /\ s # HandSlot
    BY <1>4, SlotForms, Differ
  <1>9. StepForm
    <2>1. status' = status /\ count' = count
      BY <1>1 DEF status, Free, Live
    <2> HIDE DEF s
    <2> QED
      BY ONLY <1>6, <1>7, <1>8, <2>1, MovedForm
  <1>10. Typed'
    BY <1>1, <1>2, <1>4, <1>5 DEF Typed
  <1>11. HeapSound' /\ QueueSound' /\ FrameSound' /\ ChunkSound'
    <2>1. \A f \in Frame : Dropping(f)' <=> Dropping(f)
      BY <1>1, <1>2, DropsUnchanged
    <2> QED
      BY <1>1, <1>2, <2>1, HeapUnchanged, QueueUnchanged, FrameUnchanged, ChunkUnchanged
  <1>12. StepsSound'
    <2>1. PICK P \in SUBSET Object : Supported(P) /\ NamedIn(P)
      BY OperandsSupported DEF IInv, Sound, StepsSound
    <2>2. SteadyFrames /\ SteadyRegisters /\ SteadyValues(P)
      BY <1>1, <1>5, FramesSteady DEF SteadyValues, SteadyRegisters
    <2>3. SteadyTargets
      <3> SUFFICES ASSUME NEW j \in 1..Len(todo'), todo'[j].do \in Targeted
                   PROVE  At(todo[j].target)' = At(todo'[j].target)
        BY DEF SteadyTargets
      <3>1. todo'[j] = todo[j + 1] /\ j + 1 \in 1..Len(todo) /\ 1 < j + 1
        BY <1>2 DEF Ahead
      <3>2. todo'[j].target # r
        BY <1>2, <3>1 DEF StepsFormed
      <3> QED
        BY <1>5, <3>2 DEF At
    <2>4. Supported(P)'
      <3> SUFFICES ASSUME NEW o \in P PROVE \E t \in Slot : Lasting(t, P)' /\ edge'[t] = o
        BY DEF Supported
      <3>1. PICK t \in Slot : Lasting(t, P) /\ edge[t] = o
        BY <2>1 DEF Supported
      <3>2. CASE t = s
        <4>1. Lasting(HandSlot, P)'
          BY DEF Lasting, HandSlot
        <4> QED
          BY <1>7, <1>8, <3>1, <3>2, <4>1
      <3>3. CASE t # s
        <4>1. t # HandSlot
          BY <1>2, <1>7, <3>1
        <4>2. edge'[t] = edge[t]
          BY <1>6, <3>3, <4>1 DEF SameEdges
        <4> QED
          BY <1>1, <3>1, <4>2, LastingKept
      <3> QED
        BY <3>2, <3>3
    <2>5. "take" \notin {"allocate", "references", "chunk"}
      OBVIOUS
    <2> QED
      BY ONLY IInv, <1>1, <1>3, <2>1, <2>2, <2>3, <2>4, <2>5, StepsGoOn
  <1> QED
    BY <1>9, <1>10, <1>11, <1>12 DEF Sound

(* A new List becomes a List of references. *)
LEMMA DoReferencesSound ==
    ASSUME IInv, DoReferences, program' = program
    PROVE  StepForm /\ Sound'
  <1> USE DEF heapVars, objectQueueVars, frameVars, chunkVars
  <1> PICK q : q = Now.target
    OBVIOUS
  <1> PICK l : l = At(q)
    OBVIOUS
  <1>1. /\ Doing("references") /\ todo' = Tail(todo)
        /\ kind' = [kind EXCEPT ![l] =
              CASE @ # "LIST" -> @
                [] @ = "LIST" /\ fields[l] = <<>> -> "REFERENCES_IMMORTAL"
                [] OTHER -> "REFERENCES"]
        /\ UNCHANGED <<count, fields, cursor, recent, old, active, activeCursor, frame, stack,
                       frameQueue, freeFrames, chunk, chunkQueue, reg, hand, falling, program>>
    BY DEF DoReferences, OnHeap
  <1>2. /\ Typed /\ HeapSound /\ QueueSound /\ FrameSound /\ ChunkSound /\ TargetReady(1)
        /\ todo[1] = Now /\ Now.do = "references" /\ StepsFormed /\ todo # <<>>
        /\ Ahead(1) /\ todo' \in Seq(MicroStep) /\ 1 \in 1..Len(todo)
        /\ (hand # None => "references" \in Consumes \cup {"chunk", "service"})
    BY <1>1, DoingFacts
  <1>3. hand = None
    BY <1>2 DEF Consumes
  <1>4. l \in Object /\ kind[l] \in ListKinds \cup {"LIST"}
    <2>1. 1..(1 - 1) = {}
      OBVIOUS
    <2>2. ~ Promised(q, "LIST", 1)
      BY <2>1 DEF Promised
    <2> QED
      BY <1>2, <2>2 DEF TargetReady
  <1>5. kind[l] = "LIST" => fields[l] = <<>>
    BY <1>2, <1>4 DEF HeapSound
  <1>6. /\ kind' \in [Object -> Kinds] /\ \A o \in Object \ {l} : kind'[o] = kind[o]
        /\ kind'[l] = IF kind[l] = "LIST" THEN "REFERENCES_IMMORTAL" ELSE kind[l]
    <2>1. kind \in [Object -> Kinds] /\ "REFERENCES_IMMORTAL" \in Kinds
      BY <1>2 DEF Typed, Kinds
    <2>2. CASE kind[l] = "LIST"
      <3>1. kind' = [kind EXCEPT ![l] = "REFERENCES_IMMORTAL"]
        BY <1>1, <1>5, <2>2
      <3> QED
        BY <1>4, <2>1, <2>2, <3>1
    <2>3. CASE kind[l] # "LIST"
      <3>1. kind' = [kind EXCEPT ![l] = kind[l]]
        BY <1>1, <2>3
      <3> QED
        BY <1>4, <2>1, <2>3, <3>1
    <2> QED
      BY <2>2, <2>3
  <1>7. kind'[l] \in ListKinds /\ kind[l] # "FREE"
    BY <1>4, <1>6 DEF ListKinds
  <1>8. \A o \in Object : kind'[o] = "FREE" <=> kind[o] = "FREE"
    BY <1>6, <1>7 DEF ListKinds
  <1>9. StepForm
    <2>1. \A s \in Slot : edge'[s] = edge[s]
      BY <1>1, EdgesUnchanged
    <2>2. status' = status
      BY <1>1, <1>8 DEF status, Free, Live
    <2> QED
      BY <1>1, <2>1, <2>2, KeptForm
  <1>10. Typed'
    BY <1>1, <1>2, <1>6 DEF Typed
  <1>11. HeapSound'
    <2>1. ASSUME NEW o \in Object
          PROVE  /\ kind'[o] \in {"LIST", "SCALAR_RECORD"} => fields[o] = <<>>
                 /\ kind'[o] = "REFERENCES_IMMORTAL" =>
                       \A i \in 1..Len(fields[o]) : fields[o][i] \notin Object
                 /\ kind'[o] = "TEXT" => Len(fields[o]) <= 1
      <3>1. CASE o = l /\ kind[l] = "LIST"
        <4>1. 1..Len(fields[o]) = {}
          BY <1>5, <3>1
        <4> QED
          BY <1>6, <3>1, <4>1
      <3>2. CASE o # l \/ kind[l] # "LIST"
        <4>1. kind'[o] = kind[o]
          BY <1>6, <3>2
        <4> QED
          BY <1>2, <4>1 DEF HeapSound
      <3> QED
        BY <3>1, <3>2
    <2> QED
      BY <1>1, <1>2, <1>8, <2>1 DEF HeapSound, Free, Live
  <1>12. QueueSound'
    BY <1>1, <1>2, <1>8 DEF QueueSound, Dead, Distinct, In
  <1>13. FrameSound' /\ ChunkSound'
    <2>1. \A f \in Frame : Dropping(f)' <=> Dropping(f)
      BY <1>1, <1>2, DropsUnchanged
    <2> QED
      BY <1>1, <1>2, <2>1, FrameUnchanged, ChunkUnchanged
  <1>14. ASSUME NEW j \in 1..Len(todo') PROVE TargetReady(j)'
    <2> PICK s : s = todo[j + 1]
      OBVIOUS
    <2> PICK t : t = At(s.target)
      OBVIOUS
    <2>1. /\ todo'[j] = s /\ j + 1 \in 1..Len(todo) /\ s \in MicroStep
          /\ Len(todo) \in Nat /\ Len(todo') = Len(todo) - 1
      BY <1>2 DEF Typed, Ahead
    <2>2. TargetReady(j + 1)
      BY <2>1 DEF IInv, Sound, StepsSound, StepReady
    <2>3. /\ \A kk : Promised(s.target, kk, j + 1) => Promised(s.target, kk, j)'
      BY <1>2, PromisesAhead
    <2>4. At(todo[j].target)' = t
      BY <1>1, <2>1 DEF At
    <2>5. CASE s.do \notin Targeted
      BY <2>1, <2>5 DEF TargetReady, Targeted
    <2>6. CASE t # l
      <3>1. s.target # q
        BY <2>6
      <3>2. Promoted(s.target, j + 1) => Promoted(s.target, j)'
        <4> SUFFICES ASSUME Promoted(s.target, j + 1) PROVE Promoted(s.target, j)'
          OBVIOUS
        <4>1. PICK i \in 1..((j + 1) - 1) : todo[i].do = "references" /\ todo[i].target = s.target
          BY DEF Promoted
        <4>2. i # 1
          BY <1>2, <3>1, <4>1
        <4>3. i - 1 \in 1..(j - 1) /\ i - 1 \in 1..Len(todo') /\ (i - 1) + 1 = i
          BY <2>1, <4>2
        <4>4. todo'[i - 1] = todo[i]
          BY <1>2, <4>3 DEF Ahead
        <4> QED
          BY <4>1, <4>3, <4>4 DEF Promoted
      <3>3. t \in Object => /\ kind'[t] = kind[t] /\ fields'[t] = fields[t]
                            /\ s.do = "grow" /\ count[t] = 1 => count'[t] = 1
        BY <1>1, <1>6, <2>6
      <3> QED
        BY ONLY <1>2, j \in 1..Len(todo'), <2>2, s = todo[j + 1], t = At(s.target), <2>3, <2>4,
                <3>2, <3>3, TargetAhead
    <2>7. CASE t = l /\ s.do \in Targeted
      <3>1. fields'[t] = fields[t] /\ Length(t)' = Length(t) /\ count'[t] = count[t]
        BY <1>1 DEF Length
      <3>2. Len(todo') - 1 - j = Len(todo) - 1 - (j + 1)
        BY <2>1
      <3>3. /\ s.do = "append" => 3 * Length(t) + (Len(todo) - 1 - (j + 1)) <= 3 * (MaxWidth - 1)
            /\ s.do = "replace" => s.index \in 1..Len(fields[t])
            /\ s.do = "field" => kind[t] = "RECORD"
            /\ s.do = "backing" => Promised(s.target, "TEXT", j + 1) \/ kind[t] = "TEXT"
            /\ s.do = "grow" => count[t] = 1
        BY <2>1, <2>2 DEF TargetReady
      <3>4. s.do # "field" /\ (s.do = "backing" => Promised(s.target, "TEXT", j)')
        BY <1>4, <2>3, <2>7, <3>3 DEF ListKinds
      <3> QED
        BY <1>4, <1>7, <2>1, <2>4, <2>7, <3>1, <3>2, <3>3, <3>4 DEF TargetReady
    <2> QED
      BY <2>5, <2>6, <2>7
  <1>15. StepsSound'
    <2>1. PICK P \in SUBSET Object : Supported(P) /\ NamedIn(P)
      BY OperandsSupported DEF IInv, Sound, StepsSound
    <2>2. SteadyFrames /\ SteadyRegisters /\ SteadyTargets
      BY <1>1, FramesSteady, RegistersSteady, TargetsSteady
    <2>3. NamedIn(P)'
      BY <1>2, <2>1, <2>2, NamesAhead
    <2>4. Supported(P)'
      <3>1. \A s \in Slot : edge'[s] = edge[s]
        BY <1>1, EdgesUnchanged
      <3> QED
        BY <1>1, <2>1, <2>2, <3>1, SupportSteady
    <2>5. ASSUME NEW j \in 1..Len(todo') PROVE RegisterReady(j)' /\ FrameReady(j)'
      <3>1. RegisterReady(j + 1) /\ FrameReady(j + 1)
        BY <1>2 DEF IInv, Sound, StepsSound, StepReady, Ahead
      <3> QED
        BY <1>2, <2>2, <3>1, RegistersAhead, FramesAhead
    <2>6. hand' = None
      BY <1>1, <1>3
    <2> QED
      BY ONLY IInv, <1>1, <1>2, <1>14, <2>1, <2>3, <2>4, <2>5, <2>6, StepsReadied
  <1> QED
    BY <1>9, <1>10, <1>11, <1>12, <1>13, <1>15 DEF Sound

LEMMA TakeLocalFacts ==
    ASSUME NEW fr \in FrameRecord, NEW i \in Local, NEW v \in Value,
           NEW r, r = TakeLocal(fr, i, v)
    PROVE  /\ r \in FrameRecord /\ r.localCount = fr.localCount /\ r.temps = fr.temps
           /\ ~ fr.locals[i].tag /\ v # None => r.written = Append(fr.written, i)
           /\ fr.locals[i].tag \/ v = None => r.written = fr.written
           /\ v # None \/ fr.locals[i].tag => r.locals[i].ref = v /\ r.locals[i].tag
           /\ v = None /\ ~ fr.locals[i].tag => r.locals[i] = fr.locals[i]
           /\ \A j \in Local \ {i} : r.locals[j] = fr.locals[j]
           /\ fr.locals[i].ref \in Value
  <1>1. /\ fr.locals \in [Local -> LocalSlot] /\ fr.written \in Seq(Local)
        /\ fr.localCount \in 0..MaxLocals /\ fr.capacity \in 0..MaxLocals
        /\ fr.temps \in Seq(Chunk) /\ fr.tempCount \in Nat /\ fr.onStack \in BOOLEAN
    BY DEF FrameRecord
  <1>2. fr.locals[i] \in LocalSlot /\ fr.locals[i].tag \in BOOLEAN /\ fr.locals[i].ref \in Value
    BY <1>1 DEF LocalSlot
  <1> PICK ls : ls = [fr.locals EXCEPT ![i] = IF v # None \/ fr.locals[i].tag THEN [ref |-> v, tag |-> TRUE] ELSE @]
    OBVIOUS
  <1> PICK ws : ws = IF ~ fr.locals[i].tag /\ v # None THEN Append(fr.written, i) ELSE fr.written
    OBVIOUS
  <1>3. ls \in [Local -> LocalSlot] /\ ws \in Seq(Local)
    BY <1>1, <1>2 DEF LocalSlot
  <1>4. /\ v # None \/ fr.locals[i].tag => ls[i] = [ref |-> v, tag |-> TRUE]
        /\ v = None /\ ~ fr.locals[i].tag => ls[i] = fr.locals[i]
        /\ \A j \in Local \ {i} : ls[j] = fr.locals[j]
    BY <1>1
  <1>5. r = [fr EXCEPT !.written = ws, !.locals = ls]
    BY DEF TakeLocal, FrameRecord
  <1>6. /\ r.locals = ls /\ r.written = ws /\ r.localCount = fr.localCount /\ r.temps = fr.temps
        /\ r.capacity = fr.capacity /\ r.tempCount = fr.tempCount /\ r.onStack = fr.onStack
    BY <1>5 DEF FrameRecord
  <1>7. r \in FrameRecord
    BY <1>3, <1>5 DEF FrameRecord
  <1> QED
    BY <1>2, <1>4, <1>6, <1>7

(* The frame of the running function.                                      *)
LEMMA TopFacts ==
    ASSUME Typed, FrameSound, stack # <<>>
    PROVE  /\ Top \in Frame /\ In(stack, Top) /\ frame[Top] \in FrameRecord
           /\ FrameShape(Top) /\ ~ Detached(Top) /\ ~ In(freeFrames, Top)
           /\ OwnedLocals(Top) = ToSet(frame[Top].written)
           /\ frame[Top].localCount \in 0..MaxLocals /\ frame[Top].written \in Seq(Local)
           /\ frame[Top].temps \in Seq(Chunk) /\ frame[Top].tempCount \in Nat
  <1>1. Top \in Frame /\ In(stack, Top) /\ Top \in ToSet(stack)
    BY ToSetIn DEF Typed, Top
  <1>2. frame[Top] \in FrameRecord /\ FrameShape(Top)
    BY <1>1 DEF Typed, FrameSound
  <1> QED
    BY <1>1, <1>2 DEF FrameShape, OwnedLocals, FrameRecord

(* A local is assigned; the reference it had falls. *)
LEMMA DoLocalSound ==
    ASSUME IInv, DoLocal, program' = program
    PROVE  StepForm /\ Sound'
  <1> USE DEF heapVars, objectQueueVars, chunkVars
  <1> PICK f, i, v : f = Top /\ i = Now.index /\ v = hand
    OBVIOUS
  <1> PICK fr, r : fr = frame[f] /\ r = TakeLocal(fr, i, v)
    OBVIOUS
  <1> PICK ref : ref = fr.locals[i].ref
    OBVIOUS
  <1>1. /\ Doing("local") /\ todo' = Tail(todo) /\ hand' = None /\ falling' = ref
        /\ UNCHANGED <<kind, count, fields, cursor, recent, old, active, activeCursor, stack,
                       frameQueue, freeFrames, chunk, chunkQueue, reg, program>>
    BY DEF DoLocal
  <1>2. frame' = [frame EXCEPT ![f] = r]
    BY DEF DoLocal
  <1>3. /\ Typed /\ HeapSound /\ QueueSound /\ FrameSound /\ ChunkSound /\ FrameReady(1)
        /\ todo[1] = Now /\ Now.do = "local" /\ falling = None /\ edge[FallingSlot] = None
        /\ None \notin Object
    BY <1>1, DoingFacts
  <1>4. stack # <<>> /\ i \in 1..fr.localCount
    BY <1>3 DEF FrameReady
  <1>5. /\ f \in Frame /\ In(stack, f) /\ fr \in FrameRecord /\ FrameShape(f)
        /\ ~ Detached(f) /\ ~ In(freeFrames, f)
        /\ OwnedLocals(f) = ToSet(fr.written) /\ fr.localCount \in 0..MaxLocals
        /\ fr.written \in Seq(Local)
    BY <1>3, <1>4, TopFacts
  <1>6. i \in Local /\ i <= fr.localCount
    BY <1>4, <1>5, ConstantsAssumption DEF Local
  <1>7. v \in Value
    BY <1>3 DEF Typed
  <1>8. /\ r \in FrameRecord /\ r.localCount = fr.localCount /\ r.temps = fr.temps
        /\ ~ fr.locals[i].tag /\ v # None => r.written = Append(fr.written, i)
        /\ fr.locals[i].tag \/ v = None => r.written = fr.written
        /\ v # None \/ fr.locals[i].tag => r.locals[i].ref = v /\ r.locals[i].tag
        /\ v = None /\ ~ fr.locals[i].tag => r.locals[i] = fr.locals[i]
        /\ \A j \in Local \ {i} : r.locals[j] = fr.locals[j]
        /\ fr.locals[i].ref \in Value
    <2>1. fr \in FrameRecord /\ i \in Local /\ v \in Value /\ r = TakeLocal(fr, i, v)
      BY <1>5, <1>6, <1>7
    <2> QED
      BY ONLY <2>1, TakeLocalFacts
  <1>9. /\ frame' \in [Frame -> FrameRecord] /\ frame'[f] = r
        /\ \A g \in Frame \ {f} : frame'[g] = frame[g]
    BY <1>2, <1>3, <1>5, <1>8, FrameWritten
  <1>10. /\ \A j \in Local : In(fr.written, j) <=> j <= fr.localCount /\ fr.locals[j].tag
         /\ \A j \in Local : ~ In(fr.written, j) => fr.locals[j].ref = None
         /\ Distinct(fr.written)
    BY <1>5 DEF FrameShape
  <1>11. (In(fr.written, i) <=> fr.locals[i].tag) /\ (~ fr.locals[i].tag => ref = None)
    BY <1>6, <1>10
  <1> PICK w : w = Append(fr.written, i)
    OBVIOUS
  <1>11a. /\ \A x : In(w, x) <=> x = i \/ In(fr.written, x)
          /\ ~ In(fr.written, i) => Distinct(w)
    <2>1. fr.written \in Seq(Local) /\ i \in Local /\ Distinct(fr.written)
      BY <1>5, <1>6, <1>10
    <2> QED
      BY ONLY <2>1, w = Append(fr.written, i), AppendFacts
  <1>11b. \/ v # None /\ ~ In(fr.written, i) /\ r.written = w
          \/ (v = None \/ In(fr.written, i)) /\ r.written = fr.written
    BY <1>8, <1>11
  <1>12. \A j \in Local : In(r.written, j) <=> In(fr.written, j) \/ (j = i /\ (v # None \/ fr.locals[i].tag))
    <2>1. \A j : In(r.written, j) <=> In(fr.written, j) \/ (j = i /\ v # None)
      BY ONLY <1>11a, <1>11b
    <2> QED
      BY ONLY <1>11, <2>1
  <1>13. Distinct(r.written)
    BY <1>10, <1>11a, <1>11b
  <1>14. OwnedLocals(f)' = ToSet(r.written) /\ r.written \in Seq(Local)
    <2>1. stack' = stack /\ f \in ToSet(stack)
      BY <1>1, <1>3, <1>5, ToSetIn DEF Typed
    <2>2. r.written \in Seq(Local)
      BY <1>8 DEF FrameRecord
    <2> QED
      BY <1>9, <2>1, <2>2 DEF OwnedLocals
  <1>15. /\ \A j \in Local : LocalEdge(f, j) = IF In(fr.written, j) THEN Counted(fr.locals[j].ref) ELSE None
         /\ \A j \in Local : LocalEdge(f, j)' = IF In(r.written, j) THEN Counted(r.locals[j].ref) ELSE None
    BY <1>5, <1>9, <1>14, ToSetIn DEF LocalEdge, Counted
  <1> DEFINE s == <<f, i>>
  <1>16. SameEdges({s, HandSlot, FallingSlot})
    <2>1. SameLocals({s, HandSlot, FallingSlot})
      <3> SUFFICES ASSUME NEW g \in Frame, NEW j \in Local, <<g, j>> # s
                   PROVE  LocalEdge(g, j)' = LocalEdge(g, j)
        BY DEF SameLocals
      <3>1. CASE g = f
        <4>1. j # i
          BY <3>1
        <4> QED
          BY <1>8, <1>12, <1>15, <3>1, <4>1
      <3>2. CASE g # f
        <4>1. frame'[g] = frame[g] /\ stack' = stack
          BY <1>1, <1>9, <3>2
        <4> QED
          BY <4>1 DEF LocalEdge, OwnedLocals
      <3> QED
        BY <3>1, <3>2
    <2>2. /\ SameFields({s, HandSlot, FallingSlot}) /\ SameRegisters({s, HandSlot, FallingSlot})
          /\ SameChunks({s, HandSlot, FallingSlot})
      BY <1>1, FieldsUnchanged, RegistersUnchanged, ChunksUnchanged
    <2>3. HandSlot \in {s, HandSlot, FallingSlot} /\ FallingSlot \in {s, HandSlot, FallingSlot}
      OBVIOUS
    <2> HIDE DEF s
    <2> QED
      BY ONLY <2>1, <2>2, <2>3, OthersKept
  <1>17. /\ edge'[s] = edge[HandSlot] /\ edge'[HandSlot] = None /\ edge'[FallingSlot] = edge[s]
    <2>1. edge[s] = LocalEdge(f, i) /\ edge'[s] = LocalEdge(f, i)'
      BY <1>5, <1>6, Forms, FormsNext DEF EdgeForms
    <2>2. LocalEdge(f, i) = Counted(ref)
      BY <1>3, <1>6, <1>11, <1>15 DEF Counted
    <2>3. LocalEdge(f, i)' = Counted(v)
      <3>1. CASE v # None \/ fr.locals[i].tag
        BY SMTT(60), <1>6, <1>8, <1>12, <1>15, <3>1
      <3>2. CASE v = None /\ ~ fr.locals[i].tag
        BY <1>3, <1>6, <1>11, <1>12, <1>15, <3>2 DEF Counted
      <3> QED
        BY <3>1, <3>2
    <2>4. edge[HandSlot] = Counted(v) /\ edge'[HandSlot] = None /\ edge'[FallingSlot] = Counted(ref)
      BY <1>1, <1>3, Forms, FormsNext DEF EdgeForms, Counted
    <2> QED
      BY <2>1, <2>2, <2>3, <2>4
  <1>18. StepForm
    <2>1. s \in Slot /\ s \in RootSlot /\ HandSlot \in Slot /\ FallingSlot \in RootSlot
          /\ s # HandSlot /\ s # FallingSlot /\ HandSlot # FallingSlot
      BY <1>5, <1>6, SlotForms, Differ
    <2>2. status' = status /\ count' = count
      BY <1>1 DEF status, Free, Live
    <2> HIDE DEF s
    <2> QED
      BY ONLY <1>3, <1>16, <1>17, <2>1, <2>2, ExchangedForm
  <1>19. StepsSound' /\ todo' \in Seq(MicroStep) /\ \A g \in Frame : Dropping(g)' <=> Dropping(g)
    BY <1>1, ClosingStep DEF Closing
  <1>20. Typed'
    BY <1>1, <1>3, <1>8, <1>9, <1>19 DEF Typed, Value
  <1>21. HeapSound' /\ QueueSound'
    BY <1>1, <1>3, HeapUnchanged, QueueUnchanged
  <1>22. FrameSound'
    <2>1. ASSUME NEW g \in Frame PROVE FrameShape(g)'
      <3>1. CASE g = f
        <4>1. \A j \in Local : In(r.written, j) <=> j <= r.localCount /\ r.locals[j].tag
          <5> SUFFICES ASSUME NEW j \in Local
                       PROVE  In(r.written, j) <=> j <= r.localCount /\ r.locals[j].tag
            OBVIOUS
          <5>1. CASE j # i
            BY <1>8, <1>10, <1>12, <5>1
          <5>2. CASE j = i
            BY <1>6, <1>8, <1>11, <1>12, <5>2
          <5> QED
            BY <5>1, <5>2
        <4>2. \A j \in Local : ~ In(r.written, j) => r.locals[j].ref = None
          BY <1>8, <1>10, <1>11, <1>12
        <4>3. ~ Detached(f)' /\ ~ In(freeFrames, f)' /\ In(stack, f)'
          BY <1>1, <1>5, <1>19 DEF Detached, In
        <4>4. frame'[g] = r
          BY <1>9, <3>1
        <4> QED
          BY <1>13, <3>1, <4>1, <4>2, <4>3, <4>4 DEF FrameShape, Detached
      <3>2. CASE g # f
        <4>1. FrameShape(g) /\ frame'[g] = frame[g]
          BY <1>3, <1>9, <3>2 DEF FrameSound
        <4>2. /\ In(stack, g)' <=> In(stack, g)
              /\ In(freeFrames, g)' <=> In(freeFrames, g)
              /\ In(frameQueue, g)' <=> In(frameQueue, g)
          BY <1>1
        <4> QED
          BY <1>19, <4>1, <4>2, ShapeKept
      <3> QED
        BY <3>1, <3>2
    <2> QED
      BY <1>1, <1>3, <2>1 DEF FrameSound, Distinct
  <1>23. ChunkSound'
    <2>1. \A g \in Frame : frame'[g].temps = frame[g].temps
      BY <1>8, <1>9
    <2> QED
      BY <1>1, <1>3, <2>1, ChunkUnchanged
  <1> QED
    BY <1>18, <1>19, <1>20, <1>21, <1>22, <1>23 DEF Sound

(* A frame record with other temporaries.                                  *)
LEMMA TempsWritten ==
    ASSUME NEW fr \in FrameRecord, NEW ts \in Seq(Chunk),
           NEW r, r = [fr EXCEPT !.temps = ts]
    PROVE  /\ r \in FrameRecord /\ r.temps = ts
           /\ r.locals = fr.locals /\ r.written = fr.written /\ r.localCount = fr.localCount
  BY DEF FrameRecord

LEMMA TempsCounted ==
    ASSUME NEW fr \in FrameRecord, NEW n \in Nat, NEW r, r = [fr EXCEPT !.tempCount = n]
    PROVE  /\ r \in FrameRecord /\ r.temps = fr.temps
           /\ r.locals = fr.locals /\ r.written = fr.written /\ r.localCount = fr.localCount
  BY DEF FrameRecord

(* Temporaries come and go, the locals stay.                               *)
LEMMA TempsShape ==
    ASSUME NEW f \in Frame, FrameShape(f), In(stack, f),
           frame'[f].locals = frame[f].locals, frame'[f].written = frame[f].written,
           frame'[f].localCount = frame[f].localCount,
           UNCHANGED <<stack, frameQueue, freeFrames>>, Dropping(f)' <=> Dropping(f)
    PROVE  FrameShape(f)'
  <1>1. /\ In(stack, f)' <=> In(stack, f)
        /\ In(freeFrames, f)' <=> In(freeFrames, f)
        /\ In(frameQueue, f)' <=> In(frameQueue, f)
    OBVIOUS
  <1> QED
    BY <1>1 DEF FrameShape, Detached

LEMMA TopChanges ==
    ASSUME Typed, FrameSound, NEW f \in Frame, In(stack, f), NEW r \in FrameRecord,
           frame' = [frame EXCEPT ![f] = r], r.locals = frame[f].locals,
           r.written = frame[f].written, r.localCount = frame[f].localCount,
           UNCHANGED <<stack, frameQueue, freeFrames>>,
           \A g \in Frame : Dropping(g)' <=> Dropping(g)
    PROVE  FrameSound' /\ \A E : SameLocals(E)
  <1>1. /\ frame'[f] = r /\ \A g \in Frame \ {f} : frame'[g] = frame[g]
    BY FrameWritten
  <1>2. ASSUME NEW g \in Frame PROVE FrameShape(g)'
    <2>1. FrameShape(g)
      BY DEF FrameSound
    <2>2. CASE g = f
      BY <1>1, <2>1, <2>2, TempsShape
    <2>3. CASE g # f
      <3>1. /\ In(stack, g)' <=> In(stack, g)
            /\ In(freeFrames, g)' <=> In(freeFrames, g)
            /\ In(frameQueue, g)' <=> In(frameQueue, g)
        OBVIOUS
      <3> QED
        BY <1>1, <2>1, <2>3, <3>1, ShapeKept
    <2> QED
      BY <2>2, <2>3
  <1>3. FrameSound'
    BY <1>2 DEF FrameSound, Distinct
  <1>4. \A g \in Frame : /\ frame'[g].locals = frame[g].locals
                         /\ frame'[g].written = frame[g].written
                         /\ frame'[g].localCount = frame[g].localCount
    BY <1>1
  <1>5. \A E : SameLocals(E)
    BY <1>4 DEF SameLocals, LocalEdge, OwnedLocals
  <1> QED
    BY <1>3, <1>5

LEMMA UnusedChunkFacts ==
    ASSUME Typed, ChunkSound, FrameSound, NEW c \in UnusedChunks
    PROVE  /\ c \in Chunk /\ ~ In(chunkQueue, c) /\ chunk[c] = <<>>
           /\ \A f \in Frame : ~ In(frame[f].temps, c)
  <1>1. c \in Chunk /\ c \notin ToSet(chunkQueue)
        /\ \A f \in ToSet(stack) : c \notin ToSet(frame[f].temps)
    BY DEF UnusedChunks, UsedChunks
  <1>2. ~ In(chunkQueue, c)
    BY <1>1, ToSetIn DEF Typed
  <1>3. ASSUME NEW f \in Frame PROVE ~ In(frame[f].temps, c)
    <2>1. frame[f].temps \in Seq(Chunk)
      BY DEF Typed, FrameRecord
    <2>2. CASE In(stack, f)
      <3>1. f \in ToSet(stack)
        BY <2>2, ToSetIn DEF Typed
      <3> QED
        BY <1>1, <2>1, <3>1, ToSetIn
    <2>3. CASE ~ In(stack, f)
      <3>1. frame[f].temps = <<>>
        BY <2>3 DEF FrameSound, FrameShape
      <3> QED
        BY <3>1 DEF In
    <2> QED
      BY <2>2, <2>3
  <1> QED
    BY <1>1, <1>2, <1>3 DEF ChunkSound

(* A frame gets another temporary chunk. *)
LEMMA DoChunkSound ==
    ASSUME IInv, DoChunk, program' = program
    PROVE  StepForm /\ Sound'
  <1> USE DEF heapVars, objectQueueVars
  <1> PICK f, c : f = Top /\ c = NewChunk
    OBVIOUS
  <1> PICK fr, ts : fr = frame[f] /\ ts = Append(frame[f].temps, c)
    OBVIOUS
  <1> PICK r : r = [fr EXCEPT !.temps = ts]
    OBVIOUS
  <1>1. /\ Doing("chunk") /\ todo' = Tail(todo)
        /\ UNCHANGED <<kind, count, fields, cursor, recent, old, active, activeCursor, stack,
                       frameQueue, freeFrames, chunkQueue, reg, hand, falling, program>>
    BY DEF DoChunk
  <1>2. /\ Typed /\ HeapSound /\ QueueSound /\ FrameSound /\ ChunkSound /\ FrameReady(1)
        /\ StepsFormed /\ todo[1] = Now /\ Now.do = "chunk" /\ todo # <<>>
        /\ Ahead(1) /\ todo' \in Seq(MicroStep) /\ 1 \in 1..Len(todo)
    BY <1>1, DoingFacts
  <1>3. stack # <<>> /\ UnusedChunks # {}
    BY <1>2 DEF FrameReady
  <1>4. c \in UnusedChunks
    BY <1>3 DEF NewChunk
  <1>5. /\ c \in Chunk /\ ~ In(chunkQueue, c) /\ chunk[c] = <<>>
        /\ \A g \in Frame : ~ In(frame[g].temps, c)
    BY <1>2, <1>4, UnusedChunkFacts
  <1>6. /\ f \in Frame /\ In(stack, f) /\ fr \in FrameRecord /\ fr.temps \in Seq(Chunk)
        /\ ~ Detached(f)
    BY <1>2, <1>3, TopFacts
  <1>7. chunk' = chunk
    <2>1. chunk' = [chunk EXCEPT ![c] = chunk[c]]
      BY <1>5 DEF DoChunk
    <2> QED
      BY <1>2, <1>5, <2>1 DEF Typed
  <1>8. frame' = [frame EXCEPT ![f] = r]
    BY DEF DoChunk
  <1>9. /\ ts \in Seq(Chunk) /\ ts # <<>> /\ Len(ts) = Len(fr.temps) + 1 /\ ts[Len(ts)] = c
        /\ Last(ts) = c /\ Distinct(ts) /\ (\A x : In(ts, x) <=> x = c \/ In(fr.temps, x))
    <2>1. Distinct(fr.temps) /\ ~ In(fr.temps, c)
      BY <1>2, <1>5, <1>6 DEF ChunkSound
    <2>2. fr.temps \in Seq(Chunk) /\ c \in Chunk /\ ts = Append(fr.temps, c)
      BY <1>5, <1>6
    <2>3. /\ ts \in Seq(Chunk) /\ ts # <<>> /\ Len(ts) = Len(fr.temps) + 1
          /\ ts[Len(fr.temps) + 1] = c
          /\ Distinct(ts) /\ (\A x : In(ts, x) <=> x = c \/ In(fr.temps, x))
      BY ONLY <2>1, <2>2, AppendFacts
    <2> QED
      BY <2>3 DEF Last
  <1>10. /\ r \in FrameRecord /\ r.temps = ts /\ r.locals = fr.locals /\ r.written = fr.written
         /\ r.localCount = fr.localCount
    <2>1. fr \in FrameRecord /\ ts \in Seq(Chunk) /\ r = [fr EXCEPT !.temps = ts]
      BY <1>6, <1>9
    <2> QED
      BY ONLY <2>1, TempsWritten
  <1>11. /\ frame' \in [Frame -> FrameRecord] /\ frame'[f] = r
         /\ \A g \in Frame \ {f} : frame'[g] = frame[g]
    BY <1>2, <1>6, <1>8, <1>10, FrameWritten
  <1>12. \A g \in Frame : Dropping(g)' <=> Dropping(g)
    BY <1>1, <1>2, DropsUnchanged
  <1>13. FrameSound' /\ \A E : SameLocals(E)
    BY ONLY <1>1, <1>2, <1>6, <1>8, <1>10, <1>12, fr = frame[f], TopChanges
  <1>14. StepForm
    <2>1. SameFields({}) /\ SameRegisters({}) /\ SameChunks({}) /\ SameLocals({})
      BY <1>1, <1>7, <1>13, FieldsUnchanged, RegistersUnchanged, ChunksUnchanged
    <2>2. Counted(hand') = Counted(hand) /\ Counted(falling') = Counted(falling)
      BY <1>1
    <2>3. SameEdges({})
      BY ONLY <2>1, <2>2, OthersKept
    <2>4. \A s \in Slot : edge'[s] = edge[s]
      BY <2>3 DEF SameEdges
    <2> QED
      BY <1>1, <2>4, KeptForm DEF status, Free, Live
  <1>15. Typed'
    BY <1>1, <1>2, <1>7, <1>11 DEF Typed
  <1>16. HeapSound' /\ QueueSound'
    BY <1>1, <1>2, HeapUnchanged, QueueUnchanged
  <1>17. ChunkSound'
    <2>5. frame'[f].temps = ts /\ frame[f].temps = fr.temps
          /\ \A g \in Frame \ {f} : frame'[g].temps = frame[g].temps
      BY <1>10, <1>11
    <2>1. \A g \in Frame : Distinct(frame'[g].temps)
      <3>1. \A g \in Frame \ {f} : Distinct(frame[g].temps)
        BY <1>2 DEF ChunkSound
      <3> QED
        BY <1>9, <2>5, <3>1
    <2>2. ASSUME NEW g \in Frame, NEW d \in Chunk
          PROVE  In(frame'[g].temps, d) <=> In(frame[g].temps, d) \/ (g = f /\ d = c)
      <3>1. CASE g = f
        BY <1>9, <2>5, <3>1
      <3>2. CASE g # f
        BY <2>5, <3>2
      <3> QED
        BY <3>1, <3>2
    <2>3. ASSUME NEW g \in Frame, NEW d \in Chunk, In(frame'[g].temps, d)
          PROVE  /\ ~ In(chunkQueue, d)
                 /\ \A h \in Frame : In(frame'[h].temps, d) => h = g
      BY <1>2, <1>5, <2>2, <2>3 DEF ChunkSound
    <2>4. \A d \in Chunk : (\A g \in Frame : ~ In(frame'[g].temps, d)) =>
                              \A g \in Frame : ~ In(frame[g].temps, d)
      BY <2>2
    <2> QED
      BY ZenonT(120), <1>1, <1>2, <1>7, <2>1, <2>3, <2>4 DEF ChunkSound, In, Distinct
  <1>18. StepsSound'
    <2>1. /\ 1 \in 1..Len(todo') /\ todo'[1].do = "hold" /\ Len(todo') = Len(todo) - 1
          /\ Len(todo) \in Nat
          /\ \A j \in 1..Len(todo') : todo'[j] = todo[j + 1] /\ j + 1 \in 1..Len(todo)
      <3>1. Does(1 + 1, "hold") /\ 1 + 1 = 2
        BY <1>2 DEF StepsFormed
      <3> QED
        BY <1>2, <3>1 DEF Does, Ahead
    <2>2. ASSUME NEW j \in 1..Len(todo'), j # 1 PROVE todo'[j].do \in {"rest", "service"}
      <3>1. 2 \in 1..Len(todo) /\ todo[2].do = "hold" /\ 2 < j + 1
        <4>1. 1 + 1 = 2 /\ 2 < j + 1 /\ todo'[1] = todo[1 + 1] /\ 1 + 1 \in 1..Len(todo)
          BY <2>1, <2>2
        <4> QED
          BY <2>1, <4>1
      <3>2. "hold" \in Closing
        BY DEF Closing
      <3> QED
        BY <1>2, <2>1, <3>1, <3>2 DEF StepsFormed
    <2>3. StepsFormed'
      <3>1. hand # None => Ends(1)'
        <4>1. "chunk" \notin Consumes
          BY DEF Consumes
        <4> QED
          BY <1>2, <4>1, EndsNext DEF StepsFormed
      <3> QED
        BY <1>1, <1>2, <3>1, FormedAhead
    <2>4. stack' # <<>> /\ Top' = f /\ Len(chunk'[c]) = 0
      BY <1>1, <1>3, <1>5, <1>7 DEF Top
    <2>5. ASSUME NEW j \in 1..Len(todo') PROVE StepReady(j)'
      <3>1. CASE j = 1
        <4>1. frame'[Top'].temps # <<>> /\ Len(chunk'[Last(frame'[Top'].temps)]) < ChunkSlots
          <5>1. ChunkSlots \in Nat \ {0}
            BY ConstantsAssumption
          <5>2. frame'[Top'].temps = ts
            BY <1>10, <1>11, <2>4
          <5>3. Len(chunk'[Last(frame'[Top'].temps)]) = 0
            BY <1>9, <2>4, <5>2
          <5> QED
            BY <1>9, <5>1, <5>2, <5>3
        <4>2. FrameReady(j)'
          BY <2>1, <2>4, <3>1, <4>1 DEF FrameReady
        <4>3. RegisterReady(j)' /\ TargetReady(j)'
          BY <2>1, <3>1 DEF RegisterReady, TargetReady
        <4> QED
          BY <4>2, <4>3 DEF StepReady
      <3>2. CASE j # 1
        BY <2>2, <3>2 DEF StepReady, RegisterReady, TargetReady, FrameReady
      <3> QED
        BY <3>1, <3>2
    <2>6. OperandsHeld'
      <3>1. \A j \in 1..Len(todo') : Named(j)' = {}
        BY <2>1, <2>2 DEF Named, Targeted
      <3>2. Supported({})'
        BY DEF Supported
      <3> QED
        BY <3>1, <3>2 DEF OperandsHeld
    <2> QED
      BY <2>3, <2>5, <2>6 DEF StepsSound
  <1> QED
    BY <1>13, <1>14, <1>15, <1>16, <1>17, <1>18 DEF Sound

(* The operand in hand is held until the next step of the program.         *)
LEMMA DoHoldSound ==
    ASSUME IInv, DoHold, program' = program
    PROVE  StepForm /\ Sound'
  <1> USE DEF heapVars, objectQueueVars
  <1> PICK f : f = Top
    OBVIOUS
  <1> PICK fr, c : fr = frame[f] /\ c = Last(frame[f].temps)
    OBVIOUS
  <1> PICK r, n : r = [fr EXCEPT !.tempCount = @ + 1] /\ n = Len(chunk[c])
    OBVIOUS
  <1> PICK vs : vs = Append(chunk[c], hand)
    OBVIOUS
  <1>1. /\ Doing("hold") /\ todo' = Tail(todo) /\ hand' = None
        /\ UNCHANGED <<kind, count, fields, cursor, recent, old, active, activeCursor, stack,
                       frameQueue, freeFrames, chunkQueue, reg, falling, program>>
    BY DEF DoHold
  <1>2. chunk' = [chunk EXCEPT ![c] = vs] /\ frame' = [frame EXCEPT ![f] = r]
    BY DEF DoHold
  <1>3. /\ Typed /\ HeapSound /\ QueueSound /\ FrameSound /\ ChunkSound /\ FrameReady(1)
        /\ todo[1] = Now /\ Now.do = "hold" /\ None \notin Object
    BY <1>1, DoingFacts
  <1>4. stack # <<>> /\ fr.temps # <<>> /\ n < ChunkSlots
    BY <1>3 DEF FrameReady
  <1>5. /\ f \in Frame /\ In(stack, f) /\ fr \in FrameRecord /\ fr.temps \in Seq(Chunk)
        /\ fr.tempCount \in Nat
    BY <1>3, <1>4, TopFacts
  <1>6. c \in Chunk /\ In(fr.temps, c)
    BY <1>4, <1>5, FrontFacts
  <1>7. /\ r \in FrameRecord /\ r.temps = fr.temps /\ r.locals = fr.locals
        /\ r.written = fr.written /\ r.localCount = fr.localCount
    <2>1. fr.tempCount + 1 \in Nat /\ r = [fr EXCEPT !.tempCount = fr.tempCount + 1]
      BY <1>5
    <2> QED
      BY ONLY <1>5, <2>1, TempsCounted
  <1>8. /\ frame' \in [Frame -> FrameRecord] /\ frame'[f] = r
        /\ \A g \in Frame \ {f} : frame'[g] = frame[g]
    BY <1>2, <1>3, <1>5, <1>7, FrameWritten
  <1>9. /\ vs \in Seq(Value) /\ Len(vs) = n + 1 /\ vs[n + 1] = hand /\ n \in Nat
        /\ \A i \in 1..n : vs[i] = chunk[c][i]
    <2>1. chunk[c] \in Seq(Value) /\ hand \in Value
      BY <1>3, <1>6 DEF Typed
    <2> QED
      BY ONLY <2>1, vs = Append(chunk[c], hand), n = Len(chunk[c]), AppendFacts
  <1>10. chunk' \in [Chunk -> Seq(Value)] /\ chunk'[c] = vs
         /\ \A d \in Chunk \ {c} : chunk'[d] = chunk[d]
    BY <1>2, <1>3, <1>6, <1>9 DEF Typed
  <1>11. \A g \in Frame : Dropping(g)' <=> Dropping(g)
    BY <1>1, ClosingStep DEF Closing
  <1>12. FrameSound' /\ \A E : SameLocals(E)
    BY ONLY <1>1, <1>2, <1>3, <1>5, <1>7, <1>11, fr = frame[f], TopChanges
  <1>13. n + 1 \in 1..ChunkSlots
    <2>1. ChunkSlots \in Nat
      BY ConstantsAssumption
    <2> QED
      BY <1>4, <1>9, <2>1
  <1> PICK s : s = <<c, n + 1>>
    OBVIOUS
  <1>14. SameEdges({s, HandSlot})
    <2>1. SameChunks({s, HandSlot})
      <3> SUFFICES ASSUME NEW d \in Chunk, NEW i \in 1..ChunkSlots, <<d, i>> # s
                   PROVE  ChunkEdge(d, i)' = ChunkEdge(d, i)
        BY DEF SameChunks
      <3>1. CASE d = c
        <4>1. i # n + 1 /\ i \in Int /\ i >= 1
          BY <3>1, ConstantsAssumption
        <4>2. (i <= n + 1 <=> i <= n) /\ (i <= n => vs[i] = chunk[c][i])
          BY <1>9, <4>1
        <4> QED
          BY <1>9, <1>10, <3>1, <4>2 DEF ChunkEdge
      <3>2. CASE d # c
        BY <1>10, <3>2 DEF ChunkEdge
      <3> QED
        BY <3>1, <3>2
    <2>2. SameFields({s, HandSlot}) /\ SameRegisters({s, HandSlot}) /\ SameLocals({s, HandSlot})
      BY <1>1, <1>12, FieldsUnchanged, RegistersUnchanged
    <2>3. Counted(falling') = Counted(falling) /\ HandSlot \in {s, HandSlot}
      BY <1>1
    <2> QED
      BY ONLY <2>1, <2>2, <2>3, OthersKept
  <1>15. edge[s] = None /\ edge'[s] = edge[HandSlot] /\ edge'[HandSlot] = None
    <2>1. edge[s] = ChunkEdge(c, n + 1) /\ edge'[s] = ChunkEdge(c, n + 1)'
      BY <1>6, <1>13, Forms, FormsNext DEF EdgeForms
    <2>2. ~ (n + 1 <= n) /\ n + 1 <= n + 1
      BY <1>9
    <2>3. ChunkEdge(c, n + 1) = None
      BY <2>2 DEF ChunkEdge
    <2>4. ChunkEdge(c, n + 1)' = Counted(hand)
      BY <1>9, <1>10, <2>2 DEF ChunkEdge, Counted
    <2>5. edge[HandSlot] = Counted(hand) /\ edge'[HandSlot] = None
      BY <1>1, <1>3, Forms, FormsNext DEF EdgeForms, Counted
    <2> QED
      BY <2>1, <2>3, <2>4, <2>5
  <1>16. StepForm
    <2>1. s \in Slot /\ s \in RootSlot /\ HandSlot \in Slot /\ s # HandSlot
      BY <1>6, <1>13, SlotForms, Differ
    <2>2. status' = status /\ count' = count
      BY <1>1 DEF status, Free, Live
    <2> QED
      BY ONLY <1>14, <1>15, <2>1, <2>2, MovedForm
  <1>17. StepsSound' /\ todo' \in Seq(MicroStep)
    BY <1>1, ClosingStep DEF Closing
  <1>18. Typed'
    BY <1>1, <1>3, <1>8, <1>10, <1>17 DEF Typed, Value
  <1>19. HeapSound' /\ QueueSound'
    BY <1>1, <1>3, HeapUnchanged, QueueUnchanged
  <1>20. ChunkSound'
    <2>1. \A g \in Frame : frame'[g].temps = frame[g].temps
      BY <1>7, <1>8
    <2>2. ASSUME NEW d \in Chunk
          PROVE  /\ Len(chunk'[d]) <= ChunkSlots
                 /\ ~ In(chunkQueue, d) /\ (\A g \in Frame : ~ In(frame'[g].temps, d)) =>
                       chunk'[d] = <<>>
      <3>1. CASE d = c
        <4>1. In(frame'[f].temps, c)
          BY <1>5, <1>6, <2>1
        <4>2. Len(chunk'[d]) <= ChunkSlots
          BY <1>9, <1>10, <1>13, <3>1
        <4> QED
          BY <1>5, <3>1, <4>1, <4>2
      <3>2. CASE d # c
        BY <1>3, <1>10, <2>1, <3>2 DEF ChunkSound
      <3> QED
        BY <3>1, <3>2
    <2>3. /\ \A g \in Frame : Distinct(frame'[g].temps)
          /\ \A g \in Frame, d \in Chunk : In(frame'[g].temps, d) =>
                /\ ~ In(chunkQueue, d)
                /\ \A h \in Frame : In(frame'[h].temps, d) => h = g
      BY <1>3, <2>1 DEF ChunkSound
    <2>4. chunkQueue' = chunkQueue /\ Distinct(chunkQueue)
      BY <1>1, <1>3 DEF ChunkSound
    <2> QED
      BY <2>2, <2>3, <2>4 DEF ChunkSound, In, Distinct
  <1> QED
    BY <1>12, <1>16, <1>17, <1>18, <1>19, <1>20 DEF Sound

(* A frame is opened with its locals cleared. *)
LEMMA OpenFrameFacts ==
    ASSUME NEW fr \in FrameRecord, NEW n \in 0..MaxLocals, NEW b \in BOOLEAN,
           NEW r, r = OpenFrame(fr, n, b)
    PROVE  /\ r \in FrameRecord /\ r.localCount = n /\ r.written = <<>> /\ r.temps = fr.temps
           /\ \A i \in Local : i <= n => r.locals[i] = EmptyLocal
           /\ \A i \in Local : ~ (i <= n) => r.locals[i] = fr.locals[i]
  <1>1. /\ fr.locals \in [Local -> LocalSlot] /\ fr.capacity \in 0..MaxLocals
        /\ fr.temps \in Seq(Chunk)
    BY DEF FrameRecord
  <1> PICK ls : ls = [i \in Local |-> IF i <= n THEN EmptyLocal ELSE fr.locals[i]]
    OBVIOUS
  <1> PICK cap : cap = IF n > fr.capacity THEN n ELSE fr.capacity
    OBVIOUS
  <1>2. ls \in [Local -> LocalSlot] /\ cap \in 0..MaxLocals
    <2>1. EmptyLocal \in LocalSlot
      BY UnusedFrameFacts
    <2> QED
      BY <1>1, <2>1
  <1>3. r = [locals |-> ls, written |-> <<>>, localCount |-> n, capacity |-> cap,
             temps |-> fr.temps, tempCount |-> 0, onStack |-> b]
    BY DEF OpenFrame
  <1>4. r \in FrameRecord
    <2>1. <<>> \in Seq(Local) /\ 0 \in Nat
      OBVIOUS
    <2> QED
      BY <1>1, <1>2, <1>3, <2>1 DEF FrameRecord
  <1> QED
    BY <1>3, <1>4

(* A frame that is free or unused becomes the frame of the running         *)
(* function.                                                               *)
LEMMA OpenedSound ==
    ASSUME IInv, NEW name \in {"enter", "enterStack"}, Doing(name), todo' = Tail(todo),
           NEW f \in Frame, ~ In(stack, f), ~ In(frameQueue, f), NEW b \in BOOLEAN,
           frame' = [frame EXCEPT ![f] = OpenFrame(@, Now.index, b)], stack' = <<f>> \o stack,
           freeFrames' \in Seq(Frame), Distinct(freeFrames'),
           \A g \in Frame : In(freeFrames', g) <=> In(freeFrames, g) /\ g # f,
           UNCHANGED <<kind, count, fields, cursor, recent, old, active, activeCursor,
                       frameQueue, chunk, chunkQueue, reg, hand, falling, program>>
    PROVE  StepForm /\ Sound'
  <1> PICK n, fr : n = Now.index /\ fr = frame[f]
    OBVIOUS
  <1> PICK r : r = OpenFrame(fr, n, b)
    OBVIOUS
  <1>1. /\ Typed /\ HeapSound /\ QueueSound /\ FrameSound /\ ChunkSound /\ FrameReady(1)
        /\ todo[1] = Now /\ Now.do = name
        /\ (hand # None => name \in Consumes \cup {"chunk", "service"})
    BY DoingFacts
  <1>2. n \in 0..MaxLocals /\ hand = None
    BY <1>1 DEF FrameReady, Consumes
  <1>3. fr \in FrameRecord
    BY <1>1 DEF Typed
  <1>4. /\ r \in FrameRecord /\ r.localCount = n /\ r.written = <<>> /\ r.temps = fr.temps
        /\ \A i \in Local : i <= n => r.locals[i] = EmptyLocal
        /\ \A i \in Local : ~ (i <= n) => r.locals[i] = fr.locals[i]
    BY ONLY <1>2, <1>3, b \in BOOLEAN, r = OpenFrame(fr, n, b), OpenFrameFacts
  <1>5. /\ frame' \in [Frame -> FrameRecord] /\ frame'[f] = r
        /\ \A g \in Frame \ {f} : frame'[g] = frame[g]
    BY <1>1, <1>4, FrameWritten
  <1>6. /\ stack' \in Seq(Frame) /\ (\A g : In(stack', g) <=> g = f \/ In(stack, g))
        /\ Distinct(stack')
    <2>1. stack \in Seq(Frame) /\ Distinct(stack)
      BY <1>1 DEF Typed, FrameSound
    <2> QED
      BY <2>1, PushFacts
  <1>7. StepsSound' /\ todo' \in Seq(MicroStep) /\ \A g \in Frame : Dropping(g)' <=> Dropping(g)
    BY <1>2, ClosingStep DEF Closing
  <1>8. ~ Dropping(f) /\ ~ Detached(f) /\ ~ Detached(f)'
    <2>1. ~ Dropping(f)
      BY <1>1 DEF Dropping
    <2> QED
      BY <1>7, <2>1 DEF Detached, In
  <1>9. /\ fr.localCount = 0 /\ \A i \in Local : fr.locals[i].ref = None
        /\ fr.temps = <<>>
    BY <1>1, <1>8 DEF FrameSound, FrameShape
  <1>10. \A i \in Local : r.locals[i].ref = None
    BY <1>4, <1>9, UnusedFrameFacts
  <1>11. SameLocals({})
    <2> SUFFICES ASSUME NEW g \in Frame, NEW i \in Local PROVE LocalEdge(g, i)' = LocalEdge(g, i)
      BY DEF SameLocals
    <2>1. CASE g = f
      <3>1. frame'[g].locals[i].ref = None /\ frame[g].locals[i].ref = None
        BY <1>5, <1>9, <1>10, <2>1
      <3> QED
        BY <3>1, ConstantsAssumption DEF LocalEdge, Counted
    <2>2. CASE g # f
      <3>1. frame'[g] = frame[g]
        BY <1>5, <2>2
      <3>2. g \in ToSet(stack') <=> g \in ToSet(stack)
        BY ZenonT(120), <1>1, <1>6, <2>2, ToSetIn DEF Typed
      <3> QED
        BY <3>1, <3>2 DEF LocalEdge, OwnedLocals
    <2> QED
      BY <2>1, <2>2
  <1>12. StepForm
    <2>1. SameFields({}) /\ SameRegisters({}) /\ SameChunks({})
      BY FieldsUnchanged, RegistersUnchanged, ChunksUnchanged
    <2>2. Counted(hand') = Counted(hand) /\ Counted(falling') = Counted(falling)
      OBVIOUS
    <2>3. SameEdges({})
      BY ONLY <1>11, <2>1, <2>2, OthersKept
    <2>4. \A s \in Slot : edge'[s] = edge[s]
      BY <2>3 DEF SameEdges
    <2> QED
      BY <2>4, KeptForm DEF status, Free, Live
  <1>13. Typed'
    BY <1>1, <1>5, <1>6, <1>7 DEF Typed
  <1>14. HeapSound' /\ QueueSound'
    BY <1>1, HeapUnchanged, QueueUnchanged
  <1>15. ChunkSound'
    <2>1. \A g \in Frame : frame'[g].temps = frame[g].temps
      BY <1>4, <1>5
    <2> QED
      BY <1>1, <2>1, ChunkUnchanged
  <1>16. FrameSound'
    <2>1. ASSUME NEW g \in Frame PROVE FrameShape(g)'
      <3>1. CASE g = f
        <4>1. \A i : ~ In(r.written, i)
          BY <1>4 DEF In
        <4>2. Distinct(r.written)
          BY <1>4 DEF Distinct
        <4>3. \A i \in Local : ~ (i <= r.localCount /\ r.locals[i].tag)
          BY <1>4, UnusedFrameFacts
        <4>4. ~ In(freeFrames', f) /\ In(stack', f)
          BY <1>6
        <4>5. frame'[g] = r
          BY <1>5, <3>1
        <4> QED
          BY <1>8, <1>10, <3>1, <4>1, <4>2, <4>3, <4>4, <4>5 DEF FrameShape, Detached, In
      <3>2. CASE g # f
        <4>1. FrameShape(g) /\ frame'[g] = frame[g]
          BY <1>1, <1>5, <3>2 DEF FrameSound
        <4>2. /\ In(stack, g)' <=> In(stack, g)
              /\ In(freeFrames, g)' <=> In(freeFrames, g)
              /\ In(frameQueue, g)' <=> In(frameQueue, g)
          BY <1>6, <3>2 DEF In
        <4> QED
          BY <1>7, <4>1, <4>2, ShapeKept
      <3> QED
        BY <3>1, <3>2
    <2>2. Distinct(frameQueue)
      BY <1>1 DEF FrameSound
    <2> QED
      BY <1>6, <2>1, <2>2 DEF FrameSound, Distinct
  <1> QED
    BY <1>7, <1>12, <1>13, <1>14, <1>15, <1>16 DEF Sound

LEMMA UnusedFrameSound ==
    ASSUME Typed, UnusedFrames # {}
    PROVE  /\ NewFrame \in Frame /\ ~ In(stack, NewFrame) /\ ~ In(frameQueue, NewFrame)
           /\ ~ In(freeFrames, NewFrame)
  <1>1. NewFrame \in UnusedFrames
    BY DEF NewFrame
  <1> QED
    BY <1>1, ToSetIn DEF UnusedFrames, Typed

(* minyar_rc_enter and minyar_rc_enter_stack_v1. *)
LEMMA DoEnterSound ==
    ASSUME IInv, DoEnter \/ DoEnterStack, program' = program
    PROVE  StepForm /\ Sound'
  <1> USE DEF heapVars, objectQueueVars, chunkVars
  <1>1. CASE DoEnter /\ freeFrames # <<>>
    <2> PICK f : f = freeFrames[1]
      OBVIOUS
    <2>1. /\ Doing("enter") /\ todo' = Tail(todo) /\ freeFrames' = Tail(freeFrames)
          /\ frame' = [frame EXCEPT ![f] = OpenFrame(@, Now.index, FALSE)]
          /\ stack' = <<f>> \o stack
          /\ UNCHANGED <<kind, count, fields, cursor, recent, old, active, activeCursor,
                         frameQueue, chunk, chunkQueue, reg, hand, falling, program>>
      BY <1>1 DEF DoEnter
    <2>2. Typed /\ FrameSound
      BY <2>1, DoingFacts
    <2>3. freeFrames \in Seq(Frame) /\ Distinct(freeFrames)
      BY <2>2 DEF Typed, FrameSound
    <2>4. /\ f \in Frame /\ In(freeFrames, f) /\ freeFrames' \in Seq(Frame) /\ Distinct(freeFrames')
          /\ ~ In(freeFrames', f) /\ \A x : In(freeFrames, x) <=> x = f \/ In(freeFrames', x)
      BY <1>1, <2>1, <2>3, TailFacts
    <2>5. ~ In(stack, f) /\ ~ In(frameQueue, f)
      BY <2>2, <2>4 DEF FrameSound, FrameShape, Detached
    <2>6. \A g \in Frame : In(freeFrames', g) <=> In(freeFrames, g) /\ g # f
      BY <2>4
    <2>7. FALSE \in BOOLEAN /\ "enter" \in {"enter", "enterStack"}
      OBVIOUS
    <2> QED
      BY ONLY IInv, <2>1, <2>4, <2>5, <2>6, <2>7, OpenedSound
  <1>2. CASE DoEnterStack \/ (DoEnter /\ freeFrames = <<>>)
    <2> PICK f : f = NewFrame
      OBVIOUS
    <2>1. PICK name \in {"enter", "enterStack"}, b \in BOOLEAN :
             /\ Doing(name) /\ todo' = Tail(todo) /\ freeFrames' = freeFrames
             /\ name = "enter" => freeFrames = <<>>
             /\ frame' = [frame EXCEPT ![f] = OpenFrame(@, Now.index, b)]
             /\ stack' = <<f>> \o stack
             /\ UNCHANGED <<kind, count, fields, cursor, recent, old, active, activeCursor,
                            frameQueue, chunk, chunkQueue, reg, hand, falling, program>>
      <3>1. CASE DoEnterStack
        <4>1. "enterStack" \in {"enter", "enterStack"} /\ TRUE \in BOOLEAN
          OBVIOUS
        <4> QED
          BY <3>1, <4>1 DEF DoEnterStack
      <3>2. CASE DoEnter /\ freeFrames = <<>>
        <4>1. "enter" \in {"enter", "enterStack"} /\ FALSE \in BOOLEAN
          OBVIOUS
        <4> QED
          BY <3>2, <4>1 DEF DoEnter
      <3> QED
        BY <1>2, <3>1, <3>2
    <2>2. Typed /\ FrameSound /\ FrameReady(1) /\ todo[1].do = name
      BY <2>1, DoingFacts
    <2>3. UnusedFrames # {}
      BY <2>1, <2>2 DEF FrameReady
    <2>4. f \in Frame /\ ~ In(stack, f) /\ ~ In(frameQueue, f) /\ ~ In(freeFrames, f)
      BY <2>2, <2>3, UnusedFrameSound
    <2>5. /\ \A g \in Frame : In(freeFrames', g) <=> In(freeFrames, g) /\ g # f
          /\ freeFrames' \in Seq(Frame) /\ Distinct(freeFrames')
      BY <2>1, <2>2, <2>4 DEF Typed, FrameSound
    <2> QED
      BY ONLY IInv, <2>1, <2>4, <2>5, OpenedSound
  <1> QED
    BY <1>1, <1>2 DEF DoEnter

(* minyar_rc_leave_stack_v1 drops one local after another. *)
LEMMA DoDropLocalsSound ==
    ASSUME IInv, DoDropLocals, program' = program
    PROVE  StepForm /\ Sound'
  <1> USE DEF objectQueueVars, chunkVars
  <1> PICK f : f = Now.target
    OBVIOUS
  <1> PICK n : n = frame[f].localCount
    OBVIOUS
  <1>1. /\ Doing("dropLocals")
        /\ UNCHANGED <<heapVars, recent, old, active, activeCursor, turn, chunkVars, stack,
                       frameQueue, freeFrames, reg, hand, program>>
        /\ IF n > 0
           THEN /\ falling' = PendingLocal(f, n)
                /\ frame' = [frame EXCEPT ![f].localCount = n - 1]
                /\ todo' = todo
           ELSE /\ frame' = [frame EXCEPT ![f] = UnusedFrame]
                /\ todo' = Tail(todo)
                /\ falling' = falling
    BY DEF DoDropLocals
  <1>2. /\ Typed /\ FrameSound /\ StepsFormed /\ todo # <<>> /\ Now \in MicroStep
        /\ todo[1] = Now /\ Now.do = "dropLocals" /\ falling = None
        /\ (hand # None => "dropLocals" \in Consumes \cup {"chunk", "service"})
        /\ todo' = Tail(todo) => Ahead(1) /\ todo' \in Seq(MicroStep)
    BY <1>1, DoingFacts
  <1>3. f \in Frame /\ Dropping(f) /\ Detached(f) /\ hand = None
    BY <1>2, StepTypes DEF Dropping, Detached, Consumes
  <1>4. n \in Nat
    BY <1>2, <1>3, OffStack
  <1>5. CASE n > 0
    <2>1. /\ falling' = PendingLocal(f, n)
          /\ frame' = [frame EXCEPT ![f].localCount = n - 1] /\ todo' = todo
          /\ UNCHANGED <<heapVars, recent, old, active, activeCursor, chunkVars, stack, frameQueue,
                         freeFrames, reg, hand, todo, program>>
      BY <1>1, <1>5 DEF heapVars
    <2> QED
      BY ONLY IInv, <1>2, <1>3, <1>5, <2>1, n = frame[f].localCount, VisitLocal
  <1>6. CASE n = 0
    <2>1. /\ frame' = [frame EXCEPT ![f] = UnusedFrame] /\ todo' = Tail(todo)
          /\ UNCHANGED <<heapVars, recent, old, active, activeCursor, chunkVars, stack, reg, hand,
                         falling, program>>
          /\ frameQueue' = frameQueue /\ freeFrames' = freeFrames
      BY <1>1, <1>6 DEF heapVars
    <2>2. /\ UnusedFrame \in FrameRecord /\ UnusedFrame.localCount = 0 /\ UnusedFrame.temps = <<>>
          /\ Distinct(UnusedFrame.written) /\ \A i \in Local : UnusedFrame.locals[i].ref = None
      BY UnusedFrameFacts DEF Distinct
    <2>3. \A g \in Frame : ~ Dropping(g)'
      <3> SUFFICES ASSUME NEW g \in Frame, Dropping(g)' PROVE FALSE
        OBVIOUS
      <3>1. Ahead(1)
        BY <1>2, <2>1
      <3>2. todo'[1] = todo[1 + 1] /\ 1 + 1 \in 1..Len(todo)
        <4>1. todo' \in Seq(MicroStep) /\ todo' # <<>>
          BY <1>2, <2>1 DEF Dropping
        <4>2. 1 \in 1..Len(todo')
          BY <4>1, TailFacts
        <4> QED
          BY <3>1, <4>2 DEF Ahead
      <3>3. todo[1 + 1].do # "dropLocals"
        <4>1. 1 \in 1..Len(todo) /\ 1 < 1 + 1
          BY <1>1, DoingFacts
        <4> QED
          BY <1>2, <3>2, <4>1 DEF StepsFormed
      <3> QED
        BY <3>2, <3>3 DEF Dropping
    <2>4. /\ frameQueue' \in Seq(Frame) /\ Distinct(frameQueue') /\ todo' \in Seq(MicroStep)
      BY <1>2, <2>1 DEF Typed, FrameSound
    <2>5. \A g \in Frame : /\ In(frameQueue', g) => In(frameQueue, g)
                           /\ Dropping(g)' => Dropping(g)
                           /\ In(frameQueue', g) \/ Dropping(g)' <=> Detached(g) /\ g # f
      <3>1. ~ In(frameQueue, f) /\ \A g \in Frame : Dropping(g) <=> g = f
        BY <1>2, <1>3, OffStack DEF Dropping
      <3> QED
        BY <2>1, <2>3, <3>1 DEF Detached
    <2>6. StepsSound'
      <3>1. "dropLocals" \in Closing
        BY DEF Closing
      <3> QED
        BY <1>2, <1>3, <2>1, <3>1, CallCloses
    <2>7. /\ StepForm /\ Typed' /\ HeapSound' /\ QueueSound' /\ FrameSound' /\ ChunkSound'
      BY ONLY IInv, <1>3, <1>6, <2>1, <2>2, <2>4, <2>5, n = frame[f].localCount, RetireFrameSound
    <2> QED
      BY <2>6, <2>7 DEF Sound
  <1> QED
    BY <1>4, <1>5, <1>6

(* One micro-step of a call. *)
LEMMA ResumeSound ==
    ASSUME IInv, Resume, program' = program
    PROVE  StepForm /\ Sound'
  BY QuietStepsSound, DoAllocateSound, SaturatedSound, RetainedSound, DoResultSound,
     DoBackingSound, DoTakeSound, DoReleaseSound, DoReferencesSound, DoAppendSound,
     DoReplaceSound, DoFieldSound, DoLocalSound, DoChunkSound, DoHoldSound, DoEnterSound,
     DoDropLocalsSound DEF Resume
-----------------------------------------------------------------------------
(***************************************************************************)
(* What the fields of values hold: no reference leads back to the value it *)
(* is in, a List of references holds no null, a view points at a Text of   *)
(* its own bytes.  A micro-step that stores a reference must find it fit.  *)
(***************************************************************************)
(* Every set of live values has one that none of the set refers to. *)
LiveAcyclic ==
    \A S \in SUBSET Object :
        S # {} /\ (\A o \in S : Live(o)) => \E o \in S : \A p \in S : o \notin ToSet(fields[p])

(* A Text that is not a view. *)
RootText(v) == v \in Object => kind[v] = "TEXT" /\ fields[v] = <<>>

(* What the fields of live values hold. *)
FieldsFit(o) ==
    /\ kind[o] \in ListKinds => None \notin ToSet(fields[o])
    /\ kind[o] = "TEXT" => Live(o) /\ \A v \in ToSet(fields[o]) : RootText(v)

HeapFit == LiveAcyclic /\ \A o \in Object : FieldsFit(o)

(* The value that step j stores. *)
Storing == {"append", "replace", "field", "backing"}
Given(j) ==
    IF j = 1 THEN hand
    ELSE IF todo[j - 1].do = "retain" THEN todo[j - 1].value ELSE reg[todo[j - 1].target]

(* A set of values that nothing alive leads out of. *)
LiveClosed(P) == \A o \in P : Live(o) => ToSet(fields[o]) \cap Object \subseteq P
Apart(l, v) == \E P \in SUBSET Object : LiveClosed(P) /\ {v} \cap Object \subseteq P /\ l \notin P
Unheld(l) == \A o \in Object : Live(o) => l \notin ToSet(fields[o])

(* The store name may put v into l. *)
Fits(name, l, v) ==
    /\ name # "backing" => v # None
    /\ l \in Object => Apart(l, v)
    /\ name = "backing" => RootText(v) /\ (l \in Object => Unheld(l))

StoreReady(j) ==
    todo[j].do \in Storing =>
        /\ j > 1 => todo[j - 1].do \in Acquires
        /\ j > 1 /\ todo[j].do = "backing" => todo[j - 1].do = "retain"
        /\ Fits(todo[j].do, At(todo[j].target), Given(j))

StoresReady ==
    /\ \A j \in 1..Len(todo) : StoreReady(j)
    /\ \A i, j \in 1..Len(todo) : todo[j].do \in Storing =>
          /\ todo[i].do \in Storing => todo[i].target = todo[j].target
          /\ todo[i].do = "take" /\ i < j => j = i + 1

(* What a live value refers to is alive. *)
FieldsLive == \A o, v \in Object : Live(o) /\ v \in ToSet(fields[o]) => Live(v)
LEMMA FieldLive == IInv => FieldsLive
  <1> SUFFICES ASSUME IInv, NEW o \in Object, NEW v \in Object, Live(o), v \in ToSet(fields[o])
               PROVE  Live(v)
    BY DEF FieldsLive
  <1>1. Sound /\ fields[o] \in Seq(Value) /\ Len(fields[o]) <= MaxWidth
    BY DEF IInv, Sound, Typed, HeapSound
  <1>2. PICK i \in 1..Len(fields[o]) : fields[o][i] = v
    BY <1>1, ToSetIn DEF In
  <1>3. i \in Index /\ Len(fields[o]) \in Nat
    BY <1>1, <1>2, ConstantsAssumption DEF Index
  <1>4. Progress(o) = 0
    BY <1>1, LiveFacts DEF Live
  <1>5. edge[<<o, i>>] = v
    BY <1>2, <1>3, <1>4, Forms DEF EdgeForms, FieldEdge, Counted
  <1>6. <<o, i>> \in Slot
    BY <1>3, SlotForms
  <1> QED
    BY <1>5, <1>6, EdgeFacts DEF Live

LEMMA FieldLiveNext == IInv' => FieldsLive'
  BY FieldLive, PTL

(* Steps that keep every value that lives on as it was. *)
QuietHeap ==
    \A o \in Object :
        \/ /\ kind'[o] = kind[o] /\ fields'[o] = fields[o] /\ (Live(o)' => Live(o))
           /\ kind[o] = "TEXT" /\ Live(o) => Live(o)'
        \/ kind'[o] = "FREE" /\ ~ Live(o)'

LEMMA QuietKeepsHeap ==
    ASSUME IInv', HeapFit, QuietHeap
    PROVE  HeapFit'
  <1>1. \A o \in Object : Live(o)' => Live(o) /\ kind'[o] = kind[o] /\ fields'[o] = fields[o]
    BY DEF QuietHeap
  <1>2. LiveAcyclic'
    <2> SUFFICES ASSUME NEW S \in SUBSET Object, S # {}, \A o \in S : Live(o)'
                 PROVE  \E o \in S : \A p \in S : o \notin ToSet(fields'[p])
      BY DEF LiveAcyclic
    <2>1. PICK o \in S : \A p \in S : o \notin ToSet(fields[p])
      BY <1>1 DEF HeapFit, LiveAcyclic
    <2> QED
      BY <1>1, <2>1
  <1>3. ASSUME NEW o \in Object PROVE FieldsFit(o)'
    <2>1. CASE kind'[o] = "FREE"
      BY <2>1 DEF FieldsFit, ListKinds
    <2>2. CASE kind'[o] # "FREE"
      <3>1. kind'[o] = kind[o] /\ fields'[o] = fields[o] /\ (kind[o] = "TEXT" /\ Live(o) => Live(o)')
        BY <2>2 DEF QuietHeap
      <3>2. FieldsFit(o)
        BY DEF HeapFit
      <3>3. ASSUME kind'[o] = "TEXT", NEW v \in ToSet(fields'[o]) PROVE Live(o)' /\ RootText(v)'
        <4>1. Live(o)' /\ RootText(v)
          BY <3>1, <3>2, <3>3 DEF FieldsFit
        <4>2. v \in Object => Live(v)'
          BY <3>3, <4>1, FieldLiveNext DEF FieldsLive
        <4> QED
          BY <1>1, <4>1, <4>2 DEF RootText
      <3>4. kind'[o] = "TEXT" => Live(o)'
        BY <3>1, <3>2 DEF FieldsFit
      <3>5. kind'[o] \in ListKinds => None \notin ToSet(fields'[o])
        BY <3>1, <3>2 DEF FieldsFit
      <3> QED
        BY <3>3, <3>4, <3>5 DEF FieldsFit
    <2> QED
      BY <2>1, <2>2
  <1> QED
    BY <1>2, <1>3 DEF HeapFit

(* What a store needs stays true while the value stored lives. *)
LEMMA QuietFits ==
    ASSUME QuietHeap, NEW name, NEW l, NEW v, Fits(name, l, v), v \in Object => Live(v)'
    PROVE  Fits(name, l, v)'
  <1>1. \A o \in Object : Live(o)' => Live(o) /\ kind'[o] = kind[o] /\ fields'[o] = fields[o]
    BY DEF QuietHeap
  <1>2. ASSUME l \in Object PROVE Apart(l, v)'
    <2>1. PICK P \in SUBSET Object : LiveClosed(P) /\ {v} \cap Object \subseteq P /\ l \notin P
      BY <1>2 DEF Fits, Apart
    <2>2. LiveClosed(P)'
      BY <1>1, <2>1 DEF LiveClosed
    <2> QED
      BY <2>1, <2>2 DEF Apart
  <1>3. RootText(v) => RootText(v)'
    BY <1>1 DEF RootText
  <1>4. Unheld(l) => Unheld(l)'
    BY <1>1 DEF Unheld
  <1> QED
    BY <1>2, <1>3, <1>4 DEF Fits

(* Released references, and units of cleanup, are quiet. *)
LEMMA DropIsQuiet ==
    ASSUME IInv, RcDrop
    PROVE  QuietHeap
  <1>1. Typed /\ HeapSound
    BY DEF IInv, Sound
  <1>2. CASE DropLiteral
    BY <1>2 DEF DropLiteral, heapVars, QuietHeap, Live
  <1>3. CASE DropShared
    <2>1. falling \in Object /\ count[falling] > 1 /\ UNCHANGED <<kind, fields>>
          /\ count' = [count EXCEPT ![falling] = @ - 1]
      BY <1>3 DEF DropShared, Mortal
    <2>2. \A o \in Object : count[o] \in Nat /\ count'[o] = IF o = falling THEN count[o] - 1 ELSE count[o]
      BY <1>1, <2>1 DEF Typed
    <2>3. \A o \in Object : Live(o)' <=> Live(o)
      BY <2>1, <2>2 DEF Live
    <2> QED
      BY <2>1, <2>3 DEF QuietHeap
  <1>4. CASE DropLeaf \/ DropView
    <2>1. falling \in Object /\ FinishObject(falling)
      BY <1>4 DEF DropLeaf, DropView, Mortal
    <2> QED
      BY <1>1, <2>1, FinishFacts DEF QuietHeap, Live
  <1>5. CASE DropNode
    <2>1. falling \in Object /\ kind[falling] # "TEXT" /\ UNCHANGED <<kind, fields>>
          /\ count' = [count EXCEPT ![falling] = 0]
      BY <1>5 DEF DropNode, Mortal
    <2>2. \A o \in Object : count'[o] = IF o = falling THEN 0 ELSE count[o]
      BY <1>1, <2>1 DEF Typed
    <2>3. \A o \in Object : Live(o)' => Live(o)
      BY <2>2 DEF Live
    <2>4. \A o \in Object : kind[o] = "TEXT" /\ Live(o) => Live(o)'
      BY <2>1, <2>2 DEF Live
    <2> QED
      BY <2>1, <2>3, <2>4 DEF QuietHeap
  <1> QED
    BY <1>2, <1>3, <1>4, <1>5 DEF RcDrop

LEMMA UnitIsQuiet ==
    ASSUME IInv, PollUnit
    PROVE  QuietHeap
  <1>1. Typed /\ HeapSound /\ QueueSound
    BY DEF IInv, Sound
  <1>2. ASSUME UNCHANGED <<kind, count, fields>> PROVE QuietHeap
    BY <1>2 DEF QuietHeap, Live
  <1>3. ASSUME NEW o \in Object, FinishObject(o) PROVE QuietHeap
    BY <1>1, <1>3, FinishFacts DEF QuietHeap, Live
  <1>4. PICK q \in 0..2 :
          /\ Selected(q)
          /\ CASE q = 0 -> ObjectUnit
               [] q = 1 -> FrameUnit
               [] q = 2 -> ChunkUnit
    BY DEF PollUnit
  <1>5. CASE q = 0
    <2>1. ObjectUnit /\ Ready(0)
      BY <1>4, <1>5 DEF Selected
    <2>2. CASE OldObjectUnit
      <3> PICK o : o = (IF active # None THEN active ELSE OldBatch[1])
        OBVIOUS
      <3> PICK c : c = (IF active # None THEN activeCursor ELSE SavedCursor(o))
        OBVIOUS
      <3>1. o \in Object
        BY <1>1, <2>1, OldTask
      <3> QED
        BY <1>2, <1>3, <2>2, <3>1 DEF OldObjectUnit, VisitUnit, heapVars
    <2>3. CASE RecentObjectUnit /\ recent # <<>>
      <3>1. recent[1] \in Object
        BY <1>1, <2>3, TailFacts DEF Typed
      <3> QED
        BY <1>2, <1>3, <2>3, <3>1 DEF RecentObjectUnit
    <2>4. UseRecent => recent # <<>>
      BY DEF UseRecent, RecentBatch
    <2> QED
      BY <2>1, <2>2, <2>3, <2>4 DEF ObjectUnit
  <1>6. CASE q \in {1, 2}
    <2>1. FrameUnit \/ ChunkUnit
      <3>1. q = 1 => FrameUnit
        BY <1>4
      <3>2. q = 2 => ChunkUnit
        BY <1>4
      <3> QED
        BY <1>6, <3>1, <3>2
    <2> QED
      BY <1>2, <2>1 DEF FrameUnit, ChunkUnit, VisitUnit, heapVars
  <1> QED
    BY <1>4, <1>5, <1>6

(***************************************************************************)
(* The stores a call has left.                                             *)
(***************************************************************************)
GivensLive ==
    \A j \in 1..Len(todo) :
        todo[j].do \in Storing /\ (j > 1 => todo[j - 1].do \in Acquires) /\ Given(j) \in Object
            => Live(Given(j))

(* What a step stores is alive: the call holds it.                         *)
LEMMA GivenLive == IInv => GivensLive
  <1> SUFFICES ASSUME IInv, NEW j \in 1..Len(todo), todo[j].do \in Storing,
                      j > 1 => todo[j - 1].do \in Acquires, NEW v \in Object, v = Given(j)
               PROVE  Live(v)
    BY DEF GivensLive
  <1>1. Typed /\ Len(todo) \in Nat
    <2>1. Typed /\ todo \in Seq(MicroStep)
      BY DEF IInv, Sound, Typed
    <2> QED
      BY <2>1
  <1>2. CASE j = 1
    <2>1. edge[HandSlot] = v /\ HandSlot \in Slot
      BY <1>2, Forms, SlotForms DEF EdgeForms, Counted, Given
    <2> QED
      BY <2>1, EdgeFacts DEF Live
  <1>3. CASE j > 1
    <2> PICK i : i = j - 1
      OBVIOUS
    <2>1. i \in 1..Len(todo) /\ todo[i].do \in Acquires /\ todo[i] \in MicroStep
      BY <1>1, <1>3 DEF Typed
    <2>2. v = IF todo[i].do = "retain" THEN todo[i].value ELSE reg[todo[i].target]
      BY <1>1, <1>3 DEF Given
    <2>3. CASE todo[i].do = "retain"
      <3>1. v \in Named(i)
        BY <2>2, <2>3 DEF Named
      <3> QED
        BY <2>1, <3>1, NamedAlive DEF Live
    <2>4. CASE todo[i].do = "take"
      <3>1. todo[i].target \in Register
        BY <2>1, <2>4, StepTypes
      <3>2. edge[<<todo[i].target, 0>>] = v /\ <<todo[i].target, 0>> \in Slot
        BY <2>2, <2>4, <3>1, Forms, SlotForms DEF EdgeForms, Counted
      <3> QED
        BY <3>2, EdgeFacts DEF Live
    <2> QED
      BY <2>1, <2>3, <2>4 DEF Acquires
  <1> QED
    BY <1>1, <1>2, <1>3

LEMMA GivenLiveNext == IInv' => GivensLive'
  BY GivenLive, PTL

(* The values that the remaining steps store stay the same.                *)
SteadyGiven(d) ==
    \A j \in 1..Len(todo') : todo'[j].do \in Storing => Given(j)' = Given(j + d)

LEMMA StoresAhead ==
    ASSUME StoresReady, NEW d, Ahead(d), \A j \in 1..Len(todo') : StoreReady(j)'
    PROVE  StoresReady'
  <1>1. \A j \in 1..Len(todo') : todo'[j] = todo[j + d] /\ j + d \in 1..Len(todo)
    BY DEF Ahead
  <1>2. ASSUME NEW i \in 1..Len(todo'), NEW j \in 1..Len(todo'), todo'[j].do \in Storing
        PROVE  /\ todo'[i].do \in Storing => todo'[i].target = todo'[j].target
               /\ todo'[i].do = "take" /\ i < j => j = i + 1
    <2>1. i + d \in 1..Len(todo) /\ j + d \in 1..Len(todo) /\ todo'[i] = todo[i + d]
          /\ todo'[j] = todo[j + d] /\ d \in {0, 1}
      BY <1>1 DEF Ahead
    <2>2. i < j => i + d < j + d
      BY <2>1
    <2>3. j + d = (i + d) + 1 => j = i + 1
      BY <2>1
    <2> QED
      BY <1>2, <2>1, <2>2, <2>3 DEF StoresReady
  <1> QED
    BY <1>2 DEF StoresReady

LEMMA StoreAhead ==
    ASSUME NEW d, Ahead(d), NEW j \in 1..Len(todo'), StoreReady(j + d),
           todo'[j].do \in Storing =>
               \E l, v : Given(j)' = v /\ At(todo[j].target)' = l /\ Fits(todo[j].do, l, v)'
    PROVE  StoreReady(j)'
  <1> SUFFICES ASSUME todo'[j].do \in Storing PROVE StoreReady(j)'
    BY DEF StoreReady
  <1>1. /\ d \in {0, 1} /\ Len(todo) \in Nat /\ todo'[j] = todo[j + d] /\ j + d \in 1..Len(todo)
        /\ Len(todo') = Len(todo) - d
    BY DEF Ahead
  <1>2. j > 1 => j + d > 1 /\ todo'[j - 1] = todo[j + d - 1]
    <2> SUFFICES ASSUME j > 1 PROVE j + d > 1 /\ todo'[j - 1] = todo[j + d - 1]
      OBVIOUS
    <2>1. j - 1 \in 1..Len(todo') /\ (j - 1) + d = j + d - 1 /\ j + d > 1
      BY <1>1
    <2> QED
      BY <2>1 DEF Ahead
  <1>3. todo[j + d].do \in Storing
    BY <1>1
  <1> QED
    BY <1>1, <1>2, <1>3 DEF StoreReady

(* What the remaining steps store still fits, as far as it lives. *)
FitsAhead(d) ==
    \A j \in 1..Len(todo') : todo'[j].do \in Storing =>
        \E l : /\ At(todo[j].target)' = l
               /\ \A v : /\ v = Given(j + d) /\ (v \in Object => Live(v)')
                         /\ Fits(todo[j + d].do, At(todo[j + d].target), v)
                         => Fits(todo[j].do, l, v)'

LEMMA FittingStores ==
    ASSUME IInv', StoresReady, NEW d, Ahead(d), SteadyGiven(d), FitsAhead(d)
    PROVE  StoresReady'
  <1> SUFFICES ASSUME NEW j \in 1..Len(todo') PROVE StoreReady(j)'
    BY StoresAhead
  <1>1. todo'[j] = todo[j + d] /\ j + d \in 1..Len(todo)
    BY DEF Ahead
  <1>2. StoreReady(j + d)
    BY <1>1 DEF StoresReady
  <1>3. ASSUME todo'[j].do \in Storing
        PROVE  \E l, v : Given(j)' = v /\ At(todo[j].target)' = l /\ Fits(todo[j].do, l, v)'
    <2> PICK v : v = Given(j + d)
      OBVIOUS
    <2>1. Fits(todo[j + d].do, At(todo[j + d].target), v)
      BY <1>1, <1>2, <1>3 DEF StoreReady
    <2>2. Given(j)' = v
      BY <1>3 DEF SteadyGiven
    <2>3. j > 1 => todo'[j - 1].do \in Acquires
      <3> SUFFICES ASSUME j > 1 PROVE todo'[j - 1].do \in Acquires
        OBVIOUS
      <3>1. /\ d \in {0, 1} /\ j - 1 \in 1..Len(todo') /\ (j - 1) + d = j + d - 1 /\ j + d > 1
        BY DEF Ahead
      <3>2. todo'[j - 1] = todo[j + d - 1]
        BY <3>1 DEF Ahead
      <3> QED
        BY <1>1, <1>2, <1>3, <3>1, <3>2 DEF StoreReady
    <2>4. v \in Object => Live(v)'
      BY <1>3, <2>2, <2>3, GivenLiveNext DEF GivensLive
    <2>5. PICK l : At(todo[j].target)' = l /\ Fits(todo[j].do, l, v)'
      BY <1>3, <2>1, <2>4 DEF FitsAhead
    <2> QED
      BY <2>2, <2>5
  <1> QED
    BY ONLY <1>2, <1>3, j \in 1..Len(todo'), Ahead(d), StoreAhead

LEMMA QuietStores ==
    ASSUME IInv', StoresReady, QuietHeap, NEW d, Ahead(d), SteadyGiven(d), SteadyTargets
    PROVE  StoresReady'
  <1>1. FitsAhead(d)
    <2> SUFFICES ASSUME NEW j \in 1..Len(todo'), todo'[j].do \in Storing
                 PROVE  \E l : /\ At(todo[j].target)' = l
                               /\ \A v : /\ v = Given(j + d) /\ (v \in Object => Live(v)')
                                         /\ Fits(todo[j + d].do, At(todo[j + d].target), v)
                                         => Fits(todo[j].do, l, v)'
      BY DEF FitsAhead
    <2> PICK l : l = At(todo[j + d].target)
      OBVIOUS
    <2> PICK name : name = todo[j + d].do
      OBVIOUS
    <2>1. todo'[j] = todo[j + d]
      BY DEF Ahead
    <2>2. At(todo[j].target)' = l
      BY <2>1 DEF SteadyTargets, Storing, Targeted
    <2>3. ASSUME NEW v, v \in Object => Live(v)', Fits(name, l, v) PROVE Fits(name, l, v)'
      BY <2>3, QuietFits
    <2> QED
      BY <2>1, <2>2, <2>3
  <1> QED
    BY <1>1, FittingStores

(* Between micro-steps nothing changes what is stored, or where.           *)
LEMMA GivenKept ==
    ASSUME UNCHANGED <<hand, reg, todo>>
    PROVE  SteadyGiven(0)
  <1>1. Len(todo) \in Int => \A j \in 1..Len(todo) : j + 0 = j
    OBVIOUS
  <1> QED
    BY <1>1 DEF SteadyGiven, Given

(* A step that is not the acquisition of what is stored next.              *)
LEMMA GivenAhead ==
    ASSUME StoresReady, Ahead(1),
           2 \in 1..Len(todo) /\ todo[2].do \in Storing => hand' = Given(2),
           \A i \in 2..Len(todo) : todo[i].do = "take" /\ todo[i + 1].do \in Storing =>
                                     reg'[todo[i].target] = reg[todo[i].target]
    PROVE  SteadyGiven(1)
  <1> SUFFICES ASSUME NEW j \in 1..Len(todo'), todo'[j].do \in Storing
               PROVE  Given(j)' = Given(j + 1)
    BY DEF SteadyGiven
  <1>1. /\ Len(todo) \in Nat /\ Len(todo') = Len(todo) - 1
        /\ \A i \in 1..Len(todo') : todo'[i] = todo[i + 1] /\ i + 1 \in 1..Len(todo)
    BY DEF Ahead
  <1>2. CASE j = 1
    <2>1. 2 \in 1..Len(todo) /\ todo[2].do \in Storing
      BY <1>1, <1>2
    <2> QED
      BY <1>2, <2>1 DEF Given
  <1>3. CASE j > 1
    <2> PICK i : i = j - 1
      OBVIOUS
    <2>1. /\ i \in 1..Len(todo') /\ todo'[i] = todo[j] /\ j \in 2..Len(todo)
          /\ (j + 1) - 1 = j /\ j + 1 # 1 /\ j # 1 /\ todo[j + 1] = todo'[j] /\ j + 1 \in 1..Len(todo)
          /\ j + 1 > 1 /\ todo[j + 1].do \in Storing
      BY <1>1, <1>3
    <2>2. todo[j].do \in Acquires
      BY <2>1 DEF StoresReady, StoreReady
    <2>3. Given(j + 1) = IF todo[j].do = "retain" THEN todo[j].value ELSE reg[todo[j].target]
      BY <2>1 DEF Given
    <2>4. Given(j)' = IF todo[j].do = "retain" THEN todo[j].value ELSE reg'[todo[j].target]
      BY <2>1 DEF Given
    <2> QED
      BY <2>1, <2>2, <2>3, <2>4 DEF Acquires
  <1> QED
    BY <1>2, <1>3

(* After a step that closes a call, or opens a chunk, nothing is stored.   *)
LEMMA NoStoresLeft ==
    ASSUME IInv, todo # <<>>, todo[1].do \in Closing \cup {"chunk"}, todo' = Tail(todo)
    PROVE  \A j \in 1..Len(todo') : todo'[j].do \notin Storing
  <1>1. todo \in Seq(MicroStep) /\ StepsFormed
    BY DEF IInv, Sound, Typed, StepsSound
  <1>2. Len(Tail(todo)) = Len(todo) - 1 /\ Len(todo) \in Nat \ {0}
        /\ \A i \in 1..(Len(todo) - 1) : Tail(todo)[i] = todo[i + 1]
    BY <1>1, TailFacts
  <1> TAKE i \in 1..Len(todo')
  <1>3. i \in 1..(Len(todo) - 1) /\ todo'[i] = todo[i + 1]
    BY <1>2
  <1>4. i + 1 \in 1..Len(todo) /\ 1 \in 1..Len(todo) /\ 1 < i + 1
    BY <1>2, <1>3
  <1>5. \A a, b \in 1..Len(todo) : a < b /\ todo[a].do \in Closing => todo[b].do \in {"rest", "service"}
    BY <1>1 DEF StepsFormed
  <1>6. CASE todo[1].do \in Closing
    BY <1>3, <1>4, <1>5, <1>6 DEF Storing
  <1>7. CASE todo[1].do = "chunk"
    <2>1. 2 \in 1..Len(todo) /\ todo[2].do = "hold"
      BY <1>1, <1>4, <1>7 DEF StepsFormed, Does
    <2>2. 2 < i + 1 \/ i + 1 = 2
      BY <1>3
    <2> QED
      BY <1>3, <1>4, <1>5, <2>1, <2>2 DEF Closing, Storing
  <1> QED
    BY <1>6, <1>7

LEMMA NoStores ==
    ASSUME \A j \in 1..Len(todo') : todo'[j].do \notin Storing
    PROVE  StoresReady'
  BY DEF StoresReady, StoreReady

(***************************************************************************)
(* The machine keeps what stores need.                                     *)
(***************************************************************************)
HeapReady == HeapFit /\ StoresReady

LEMMA CleanupReady ==
    ASSUME IInv, IInv', HeapReady, RcDrop \/ PollUnit
    PROVE  HeapReady'
  <1>1. UNCHANGED <<hand, reg, todo>>
    BY DEF RcDrop, PollUnit
  <1>2. QuietHeap
    BY DropIsQuiet, UnitIsQuiet
  <1>3. Ahead(0)
    BY <1>1, AheadForms DEF IInv, Sound, Typed
  <1>4. SteadyGiven(0) /\ SteadyTargets
    BY <1>1, GivenKept, TargetsSteady
  <1> QED
    BY <1>2, <1>3, <1>4, QuietKeepsHeap, QuietStores DEF HeapReady

(* Steps that hand nothing over and leave the heap alone. *)
LEMMA HeapAlone ==
    ASSUME UNCHANGED <<kind, count, fields>>
    PROVE  QuietHeap
  BY DEF QuietHeap, Live

LEMMA QuietReady ==
    ASSUME IInv, IInv', HeapReady, DoService \/ DoRest
    PROVE  HeapReady'
  <1>1. PICK name \in {"service", "rest"} : Doing(name) /\ todo' = Tail(todo)
    BY DEF DoService, DoRest
  <1>2. UNCHANGED <<kind, count, fields, hand, reg>>
    BY DEF DoService, DoRest, heapVars
  <1>3. Ahead(1) /\ todo[1].do = name
    BY <1>1, DoingFacts
  <1>4. SteadyGiven(1)
    <2>1. 2 \in 1..Len(todo) /\ todo[2].do \in Storing => todo[1].do \in Acquires
      BY DEF HeapReady, StoresReady, StoreReady
    <2>2. todo[1].do \notin Acquires
      BY <1>1, <1>3 DEF Acquires
    <2> QED
      BY <1>2, <1>3, <2>1, <2>2, GivenAhead DEF HeapReady
  <1> QED
    BY <1>2, <1>3, <1>4, HeapAlone, TargetsSteady, QuietKeepsHeap, QuietStores DEF HeapReady

(* The last steps of a call that store nothing. *)
LEMMA ClosedReady ==
    ASSUME IInv, IInv', HeapReady, NEW name \in Closing \cup {"chunk"}, Doing(name),
           todo' = Tail(todo), UNCHANGED <<kind, count, fields>>
    PROVE  HeapReady'
  <1>1. todo # <<>> /\ todo[1].do = name
    BY DoingFacts
  <1> QED
    BY <1>1, HeapAlone, QuietKeepsHeap, NoStoresLeft, NoStores DEF HeapReady

LEMMA ClosingReady ==
    ASSUME IInv, IInv', HeapReady,
           DoGrow \/ DoResult \/ DoRelease \/ DoLocal \/ DoChunk \/ DoHold \/ DoEnter \/ DoEnterStack
    PROVE  HeapReady'
  <1>1. \E name \in Closing \cup {"chunk"} : Doing(name)
    BY DEF DoGrow, DoResult, DoRelease, DoLocal, DoChunk, DoHold, DoEnter, DoEnterStack, Closing
  <1>2. todo' = Tail(todo) /\ UNCHANGED <<kind, count, fields>>
    BY DEF DoGrow, DoResult, DoRelease, DoLocal, DoChunk, DoHold, DoEnter, DoEnterStack, OnHeap,
       heapVars
  <1> QED
    BY <1>1, <1>2, ClosedReady

LEMMA DropLocalsReady ==
    ASSUME IInv, IInv', HeapReady, DoDropLocals
    PROVE  HeapReady'
  <1>1. Doing("dropLocals") /\ UNCHANGED <<kind, count, fields, hand, reg>>
        /\ (todo' = todo \/ todo' = Tail(todo))
    BY DEF DoDropLocals, heapVars
  <1>2. CASE todo' = Tail(todo)
    BY <1>1, <1>2, ClosedReady DEF Closing
  <1>3. CASE todo' = todo
    <2>1. Ahead(0)
      BY <1>3, AheadForms DEF IInv, Sound, Typed
    <2> QED
      BY <1>1, <1>3, <2>1, HeapAlone, GivenKept, TargetsSteady, QuietKeepsHeap, QuietStores
         DEF HeapReady
  <1> QED
    BY <1>1, <1>2, <1>3

(* minyar_rc_retain *)
LEMMA RetainReady ==
    ASSUME IInv, IInv', HeapReady, DoRetain
    PROVE  HeapReady'
  <1>1. Doing("retain")
    BY DEF DoRetain
  <1>2. Now.do = "retain" /\ todo[1] = Now /\ Typed /\ todo # <<>>
    BY <1>1, DoingFacts
  <1>3. CASE Saturated(Now.value)
    <2>1. todo' = Stop /\ UNCHANGED <<kind, count, fields>>
      BY <1>3 DEF DoRetain, heapVars
    <2>2. \A j \in 1..Len(todo') : todo'[j].do = "stop"
      BY <2>1 DEF Stop, Op
    <2>3. \A j \in 1..Len(todo') : todo'[j].do \notin Storing
      BY <2>2 DEF Storing
    <2> QED
      BY <2>1, <2>3, HeapAlone, QuietKeepsHeap, NoStores DEF HeapReady
  <1>4. CASE ~ Saturated(Now.value)
    <2>1. /\ hand' = Now.value /\ todo' = Tail(todo) /\ UNCHANGED <<kind, fields, reg>>
          /\ count' = IF Mortal(Now.value) THEN [count EXCEPT ![Now.value] = @ + 1] ELSE count
      BY <1>4 DEF DoRetain, OnHeap
    <2>2. \A o \in Object : count[o] \in Nat
                            /\ (count'[o] = count[o] \/ (o = Now.value /\ count'[o] = count[o] + 1))
      BY <1>2, <2>1 DEF Typed, Mortal
    <2>3. \A o \in Object : Live(o) => Live(o)'
      BY <2>2 DEF Live
    <2>4. Now.value \in Object => Live(Now.value)
      <3>1. 1 \in 1..Len(todo) /\ Now.value \in Named(1)
        BY <1>1, <1>2, DoingFacts DEF Named
      <3> QED
        BY <3>1, NamedAlive DEF Live
    <2>5. \A o \in Object : Live(o)' => Live(o)
      BY <2>2, <2>4 DEF Live
    <2>6. QuietHeap
      BY <2>1, <2>3, <2>5 DEF QuietHeap
    <2>7. Ahead(1)
      BY <1>1, <2>1, DoingFacts
    <2>8. SteadyGiven(1)
      <3>1. 2 - 1 = 1 /\ 2 # 1
        OBVIOUS
      <3>2. Given(2) = hand'
        BY <1>2, <2>1, <3>1 DEF Given
      <3> QED
        BY <2>1, <2>7, <3>2, GivenAhead DEF HeapReady
    <2> QED
      BY <2>1, <2>6, <2>7, <2>8, TargetsSteady, QuietKeepsHeap, QuietStores DEF HeapReady
  <1> QED
    BY <1>3, <1>4

(* An owned result is taken. *)
LEMMA TakeReady ==
    ASSUME IInv, IInv', HeapReady, DoTake
    PROVE  HeapReady'
  <1>1. /\ Doing("take") /\ todo' = Tail(todo) /\ UNCHANGED <<kind, count, fields>>
        /\ hand' = reg[Now.target] /\ reg' = [reg EXCEPT ![Now.target] = None]
    BY DEF DoTake, OnHeap, heapVars
  <1>2. /\ Now.do = "take" /\ todo[1] = Now /\ Typed /\ StepsFormed /\ Ahead(1) /\ 1 \in 1..Len(todo)
        /\ Now \in MicroStep
    BY <1>1, DoingFacts
  <1>3. Now.target \in Register /\ Len(todo) \in Nat
    BY <1>2, StepTypes DEF Ahead
  <1>4. \A r \in Register \ {Now.target} : reg'[r] = reg[r]
    BY <1>1, <1>2 DEF Typed
  <1>5. SteadyGiven(1)
    <2>1. 2 - 1 = 1 /\ 2 # 1
      OBVIOUS
    <2>2. Given(2) = hand'
      BY <1>1, <1>2, <2>1 DEF Given
    <2>3. ASSUME NEW i \in 2..Len(todo), todo[i].do = "take", todo[i + 1].do \in Storing
          PROVE  FALSE
      <3>1. i \in 1..Len(todo) /\ 1 < i + 1 /\ i + 1 # 1 + 1
        BY <1>3
      <3>2. Ends(i + 1)
        BY <1>2, <2>3, <3>1 DEF StepsFormed, Acquires
      <3>3. i + 1 \in 1..Len(todo)
        BY <1>3, <3>1, <3>2 DEF Ends, Does
      <3> QED
        BY <1>2, <2>3, <3>1, <3>3 DEF HeapReady, StoresReady
    <2> QED
      BY <1>2, <2>2, <2>3, GivenAhead DEF HeapReady
  <1>6. SteadyTargets
    <2> SUFFICES ASSUME NEW j \in 1..Len(todo'), todo'[j].do \in Targeted
                 PROVE  At(todo[j].target)' = At(todo'[j].target)
      BY DEF SteadyTargets
    <2>1. todo'[j] = todo[j + 1] /\ j + 1 \in 1..Len(todo) /\ 1 < j + 1
      BY <1>2, <1>3 DEF Ahead
    <2>2. todo[j + 1].target # Now.target
      BY <1>2, <2>1 DEF StepsFormed
    <2> QED
      BY <1>4, <2>1, <2>2 DEF At
  <1> QED
    BY <1>1, <1>2, <1>5, <1>6, HeapAlone, QuietKeepsHeap, QuietStores DEF HeapReady

(* minyar_list_references: a List without elements becomes one of references. *)
LEMMA ReferencesReady ==
    ASSUME IInv, IInv', HeapReady, DoReferences
    PROVE  HeapReady'
  <1> PICK l : l = At(Now.target)
    OBVIOUS
  <1>1. /\ Doing("references") /\ todo' = Tail(todo) /\ UNCHANGED <<count, fields, reg, hand>>
        /\ kind' = [kind EXCEPT ![l] =
              CASE @ # "LIST" -> @
                [] @ = "LIST" /\ fields[l] = <<>> -> "REFERENCES_IMMORTAL"
                [] OTHER -> "REFERENCES"]
    BY DEF DoReferences, OnHeap
  <1>2. /\ Typed /\ HeapSound /\ Ahead(1) /\ todo[1] = Now /\ Now.do = "references"
    BY <1>1, DoingFacts
  <1>3. \A o \in Object :
           \/ kind'[o] = kind[o]
           \/ kind[o] = "LIST" /\ kind'[o] \in ListKinds /\ fields[o] = <<>>
    BY <1>1, <1>2 DEF Typed, HeapSound, ListKinds
  <1>4. \A v : RootText(v) => RootText(v)'
    BY <1>1, <1>3 DEF RootText
  <1>5. \A o \in Object : Live(o)' <=> Live(o)
    BY <1>1 DEF Live
  <1>6. HeapFit'
    <2>1. LiveAcyclic'
      BY <1>1, <1>5 DEF HeapReady, HeapFit, LiveAcyclic
    <2>2. ASSUME NEW o \in Object PROVE FieldsFit(o)'
      <3>1. FieldsFit(o)
        BY DEF HeapReady, HeapFit
      <3>2. CASE kind'[o] = kind[o]
        BY <1>1, <1>4, <1>5, <3>1, <3>2 DEF FieldsFit
      <3>3. CASE kind'[o] \in ListKinds /\ fields[o] = <<>>
        <4>1. ToSet(<<>>) = {}
          BY DEF ToSet
        <4> QED
          BY <1>1, <3>3, <4>1 DEF FieldsFit, ListKinds
      <3> QED
        BY <1>3, <3>2, <3>3
    <2> QED
      BY <2>1, <2>2 DEF HeapFit
  <1>7. \A name, t, v : Fits(name, t, v) => Fits(name, t, v)'
    <2>1. \A t, v : Apart(t, v) => Apart(t, v)'
      BY <1>1, <1>5 DEF Apart, LiveClosed
    <2>2. \A t : Unheld(t) => Unheld(t)'
      BY <1>1, <1>5 DEF Unheld
    <2> QED
      BY <1>4, <2>1, <2>2 DEF Fits
  <1>8. FitsAhead(1)
    <2> SUFFICES ASSUME NEW j \in 1..Len(todo')
                 PROVE  \E t : /\ At(todo[j].target)' = t
                               /\ \A v : Fits(todo[j + 1].do, At(todo[j + 1].target), v)
                                            => Fits(todo[j].do, t, v)'
      BY DEF FitsAhead
    <2> PICK t : t = At(todo[j + 1].target)
      OBVIOUS
    <2>1. todo'[j] = todo[j + 1] /\ At(todo[j].target)' = t
      BY <1>1, <1>2 DEF Ahead, At
    <2> QED
      BY <1>7, <2>1
  <1>9. SteadyGiven(1)
    <2>1. 2 \in 1..Len(todo) /\ todo[2].do \in Storing => todo[1].do \in Acquires
      BY DEF HeapReady, StoresReady, StoreReady
    <2>2. todo[1].do \notin Acquires
      BY <1>2 DEF Acquires
    <2> QED
      BY <1>1, <1>2, <2>1, <2>2, GivenAhead DEF HeapReady
  <1> QED
    BY <1>2, <1>6, <1>8, <1>9, FittingStores DEF HeapReady

(* A new value owns nothing, and nothing owns it. *)
LEMMA AllocateReady ==
    ASSUME IInv, IInv', HeapReady, DoAllocate
    PROVE  HeapReady'
  <1> PICK r, k, n : r = Now.reg /\ k = Now.kind /\ n = Now.length
    OBVIOUS
  <1>1. Doing("allocate") /\ todo' = Tail(todo) /\ hand' = hand
    BY DEF DoAllocate, OnHeap
  <1>2. /\ Typed /\ HeapSound /\ Ahead(1) /\ todo[1] = Now /\ Now.do = "allocate"
        /\ Now \in MicroStep /\ RegisterReady(1) /\ None \notin Object
    BY <1>1, DoingFacts
  <1>3. /\ r \in Register /\ reg[r] = None /\ k \in NewKinds /\ n \in 0..MaxWidth
        /\ k = "RECORD" \/ n = 0
    BY <1>2, StepTypes DEF RegisterReady
  <1>4. PICK o \in Object :
          /\ Free(o) /\ kind' = [kind EXCEPT ![o] = k] /\ count' = [count EXCEPT ![o] = 1]
          /\ fields' = [fields EXCEPT ![o] = [i \in 1..n |-> None]]
          /\ reg' = [reg EXCEPT ![r] = o]
    BY DEF DoAllocate
  <1>5. /\ kind'[o] = k /\ Live(o)' /\ fields'[o] = [i \in 1..n |-> None]
        /\ \A p \in Object \ {o} : kind'[p] = kind[p] /\ fields'[p] = fields[p] /\ (Live(p)' <=> Live(p))
        /\ ~ Live(o)
    BY <1>2, <1>4 DEF Typed, HeapSound, Live
  <1>6. ToSet(fields'[o]) \subseteq {None} /\ (k = "TEXT" => ToSet(fields'[o]) = {})
    <2>1. ToSet([i \in 1..n |-> None]) \subseteq {None}
      BY DEF ToSet
    <2>2. n = 0 => ToSet([i \in 1..n |-> None]) = {}
      BY DEF ToSet
    <2> QED
      BY <1>3, <1>5, <2>1, <2>2
  <1>7. \A p \in Object : Live(p) => o \notin ToSet(fields[p])
    BY <1>5, FieldLive DEF FieldsLive
  <1>8. \A v : v # o /\ RootText(v) => RootText(v)'
    BY <1>5 DEF RootText
  <1>9. HeapFit'
    <2>1. LiveAcyclic'
      <3> SUFFICES ASSUME NEW S \in SUBSET Object, S # {}, \A q \in S : Live(q)'
                   PROVE  \E q \in S : \A p \in S : q \notin ToSet(fields'[p])
        BY DEF LiveAcyclic
      <3>1. CASE S \ {o} = {}
        BY <1>2, <1>6, <3>1
      <3>2. CASE S \ {o} # {}
        <4>1. S \ {o} \in SUBSET Object /\ \A q \in S \ {o} : Live(q)
          BY <1>5
        <4>2. PICK q \in S \ {o} : \A p \in S \ {o} : q \notin ToSet(fields[p])
          BY <3>2, <4>1 DEF HeapReady, HeapFit, LiveAcyclic
        <4> QED
          BY <1>2, <1>5, <1>6, <4>2
      <3> QED
        BY <3>1, <3>2
    <2>2. ASSUME NEW p \in Object PROVE FieldsFit(p)'
      <3>1. CASE p = o
        BY <1>3, <1>5, <1>6, <3>1 DEF FieldsFit, NewKinds, ListKinds
      <3>2. CASE p # o
        <4>1. FieldsFit(p) /\ kind'[p] = kind[p] /\ fields'[p] = fields[p] /\ (Live(p)' <=> Live(p))
          BY <1>5, <3>2 DEF HeapReady, HeapFit
        <4> QED
          BY <1>7, <1>8, <4>1 DEF FieldsFit
      <3> QED
        BY <3>1, <3>2
    <2> QED
      BY <2>1, <2>2 DEF HeapFit
  <1>10. ASSUME NEW name, NEW l, NEW v, v # o, Fits(name, l, v)
         PROVE  Fits(name, l, v)'
    <2>1. ASSUME l \in Object PROVE Apart(l, v)'
      <3>1. PICK P \in SUBSET Object : LiveClosed(P) /\ {v} \cap Object \subseteq P /\ l \notin P
        BY <1>10, <2>1 DEF Fits, Apart
      <3>2. LiveClosed(P)'
        BY <1>2, <1>5, <1>6, <3>1 DEF LiveClosed
      <3> QED
        BY <3>1, <3>2 DEF Apart
    <2>2. ASSUME l \in Object, Unheld(l) PROVE Unheld(l)'
      BY <1>2, <1>5, <1>6, <2>2 DEF Unheld
    <2> QED
      BY <1>8, <1>10, <2>1, <2>2 DEF Fits
  <1>11. ASSUME NEW name, NEW v, v # o, Fits(name, None, v)
         PROVE  Fits(name, o, v)'
    <2>1. Apart(o, v)'
      <3>1. LiveClosed(Object \ {o})'
        BY <1>5, <1>7 DEF LiveClosed
      <3> QED
        BY <1>11, <3>1 DEF Apart
    <2>2. Unheld(o)'
      BY <1>2, <1>5, <1>6, <1>7 DEF Unheld
    <2> QED
      BY <1>8, <1>11, <2>1, <2>2 DEF Fits
  <1>12. FitsAhead(1)
    <2> SUFFICES ASSUME NEW j \in 1..Len(todo'), todo'[j].do \in Storing
                 PROVE  \E l : /\ At(todo[j].target)' = l
                               /\ \A v : /\ v = Given(j + 1)
                                         /\ Fits(todo[j + 1].do, At(todo[j + 1].target), v)
                                         => Fits(todo[j].do, l, v)'
      BY DEF FitsAhead
    <2>1. todo'[j] = todo[j + 1] /\ j + 1 \in 1..Len(todo) /\ j + 1 > 1
      BY <1>2 DEF Ahead
    <2> PICK name, t : name = todo[j + 1].do /\ t = todo[j + 1].target
      OBVIOUS
    <2>2. Given(j + 1) # o
      <3>1. todo[j + 1].do \in Storing /\ (j + 1 > 1 => todo[j + 1 - 1].do \in Acquires)
        BY <2>1 DEF HeapReady, StoresReady, StoreReady
      <3>2. Given(j + 1) \in Object => Live(Given(j + 1))
        BY <2>1, <3>1, GivenLive DEF GivensLive
      <3> QED
        BY <1>5, <3>2
    <2>3. CASE t = r
      <3>1. At(todo[j].target)' = o
        BY <1>2, <1>3, <1>4, <2>1, <2>3 DEF At, Typed
      <3>2. At(t) = None
        BY <1>3, <2>3 DEF At
      <3>3. \A v : v = Given(j + 1) /\ Fits(name, At(t), v) => Fits(name, o, v)'
        BY <1>11, <2>2, <3>2
      <3> QED
        BY <2>1, <3>1, <3>3
    <2>4. CASE t # r
      <3> PICK l : l = At(t)
        OBVIOUS
      <3>1. At(todo[j].target)' = l
        BY <1>2, <1>4, <2>1, <2>4 DEF At, Typed
      <3>2. \A v : v = Given(j + 1) /\ Fits(name, l, v) => Fits(name, l, v)'
        BY <1>10, <2>2
      <3> QED
        BY <2>1, <3>1, <3>2
    <2> QED
      BY <2>3, <2>4
  <1>13. SteadyGiven(1)
    <2>1. 2 \in 1..Len(todo) /\ todo[2].do \in Storing => todo[1].do \in Acquires
      BY DEF HeapReady, StoresReady, StoreReady
    <2>2. todo[1].do \notin Acquires
      BY <1>2 DEF Acquires
    <2>3. ASSUME NEW i \in 2..Len(todo), todo[i].do = "take", todo[i + 1].do \in Storing
          PROVE  reg'[todo[i].target] = reg[todo[i].target]
      <3>1. Len(todo) \in Nat /\ i \in 1..Len(todo) /\ todo \in Seq(MicroStep)
        BY <1>2 DEF Ahead, Typed
      <3>2. todo[i].target \in Register /\ Ends(i + 1)
        <4>1. todo[i] \in MicroStep
          BY <3>1
        <4>2. StepsFormed
          BY DEF IInv, Sound, StepsSound
        <4> QED
          BY <2>3, <3>1, <4>1, <4>2, StepTypes DEF StepsFormed, Acquires
      <3>3. i + 1 \in 1..Len(todo)
        BY <3>1, <3>2 DEF Ends, Does
      <3> PICK name : name = todo[i + 1].do
        OBVIOUS
      <3>4. i + 1 > 1 /\ (i + 1) - 1 = i /\ i + 1 # 1
        BY <3>1
      <3>5. Given(i + 1) = reg[todo[i].target]
        BY <2>3, <3>4 DEF Given
      <3>6. name # "backing" /\ Fits(name, At(todo[i + 1].target), Given(i + 1))
        BY <2>3, <3>3, <3>4 DEF HeapReady, StoresReady, StoreReady
      <3>7. todo[i].target # r
        BY <1>3, <3>5, <3>6 DEF Fits
      <3> QED
        BY <1>2, <1>4, <3>2, <3>7 DEF Typed
    <2> QED
      BY <1>1, <1>2, <2>1, <2>2, <2>3, GivenAhead DEF HeapReady
  <1> QED
    BY <1>2, <1>9, <1>12, <1>13, FittingStores DEF HeapReady

(***************************************************************************)
(* Stores.                                                                 *)
(***************************************************************************)
(* Step name puts v into the live value l. *)
PutIn(name, l, v) ==
    /\ l \in Object /\ Live(l) /\ Fits(name, l, v) /\ count' = count
    /\ \A o \in Object \ {l} : kind'[o] = kind[o] /\ fields'[o] = fields[o]
    /\ ToSet(fields'[l]) \subseteq ToSet(fields[l]) \cup {v}
    /\ kind'[l] = kind[l] \/ {kind[l], kind'[l]} \subseteq ListKinds
    /\ name = "backing" <=> kind[l] = "TEXT"

LEMMA StoreKeepsHeap ==
    ASSUME HeapFit, NEW name, NEW l, NEW v, PutIn(name, l, v)
    PROVE  HeapFit'
  <1>1. PICK P \in SUBSET Object : LiveClosed(P) /\ {v} \cap Object \subseteq P /\ l \notin P
    BY DEF PutIn, Fits, Apart
  <1>2. /\ l \in Object /\ (\A o \in Object : Live(o)' <=> Live(o))
        /\ \A o \in Object \ {l} : kind'[o] = kind[o] /\ fields'[o] = fields[o]
        /\ ToSet(fields'[l]) \subseteq ToSet(fields[l]) \cup {v}
    BY DEF PutIn, Live
  <1>3. LiveAcyclic'
    <2> SUFFICES ASSUME NEW S \in SUBSET Object, S # {}, \A o \in S : Live(o)'
                 PROVE  \E o \in S : \A p \in S : o \notin ToSet(fields'[p])
      BY DEF LiveAcyclic
    <2>1. CASE l \notin S
      <3>1. PICK o \in S : \A p \in S : o \notin ToSet(fields[p])
        BY <1>2 DEF HeapFit, LiveAcyclic
      <3> QED
        BY <1>2, <2>1, <3>1
    <2>2. CASE l \in S
      <3>1. S \ P # {} /\ S \ P \in SUBSET Object /\ \A o \in S \ P : Live(o)
        BY <1>1, <1>2, <2>2
      <3>2. PICK o \in S \ P : \A p \in S \ P : o \notin ToSet(fields[p])
        BY <3>1 DEF HeapFit, LiveAcyclic
      <3>3. \A p \in S \cap P : o \notin ToSet(fields[p])
        BY <1>1, <1>2, <3>2 DEF LiveClosed
      <3>4. o # v
        BY <1>1, <3>2
      <3> QED
        BY <1>1, <1>2, <3>2, <3>3, <3>4
    <2> QED
      BY <2>1, <2>2
  <1>4. FieldsFit(l)'
    <2>1. FieldsFit(l)
      BY <1>2 DEF HeapFit
    <2>2. kind'[l] \in ListKinds => None \notin ToSet(fields'[l])
      <3>1. kind'[l] \in ListKinds => kind[l] \in ListKinds /\ kind[l] # "TEXT"
        BY DEF PutIn, ListKinds
      <3>2. kind[l] # "TEXT" => v # None
        BY DEF PutIn, Fits
      <3> QED
        BY <1>2, <2>1, <3>1, <3>2 DEF FieldsFit
    <2>3. ASSUME kind'[l] = "TEXT"
          PROVE  Live(l)' /\ \A w \in ToSet(fields'[l]) : RootText(w)'
      <3>1. kind[l] = "TEXT" /\ RootText(v) /\ Live(l)'
        BY <1>2, <2>3 DEF PutIn, ListKinds, Fits
      <3>2. \A w \in ToSet(fields'[l]) : RootText(w) /\ w # l
        <4>1. v # l
          BY <1>1, <1>2
        <4>2. l \notin ToSet(fields[l])
          BY <3>1 DEF PutIn, Fits, Unheld
        <4> QED
          BY <1>2, <2>1, <3>1, <4>1, <4>2 DEF FieldsFit
      <3> QED
        BY <1>2, <3>1, <3>2 DEF RootText
    <2> QED
      BY <2>2, <2>3 DEF FieldsFit
  <1>5. ASSUME NEW o \in Object \ {l} PROVE FieldsFit(o)'
    <2>1. FieldsFit(o) /\ kind'[o] = kind[o] /\ fields'[o] = fields[o] /\ (Live(o)' <=> Live(o))
      BY <1>2 DEF HeapFit
    <2>2. ASSUME kind[o] = "TEXT", NEW w \in ToSet(fields[o]) PROVE RootText(w)'
      <3>1. Live(o) /\ RootText(w)
        BY <2>1, <2>2 DEF FieldsFit
      <3>2. w # l
        BY <2>2, <3>1 DEF PutIn, Fits, Unheld, RootText
      <3> QED
        BY <1>2, <3>1, <3>2 DEF RootText
    <2> QED
      BY <2>1, <2>2 DEF FieldsFit
  <1> QED
    BY <1>3, <1>4, <1>5 DEF HeapFit

(* A second store into the same List still fits. *)
LEMMA StoreKeepsFits ==
    ASSUME NEW name, NEW l, NEW v, PutIn(name, l, v), kind[l] # "TEXT",
           NEW next, NEW w, Fits(next, l, w)
    PROVE  Fits(next, l, w)'
  <1>1. /\ l \in Object /\ (\A o \in Object : Live(o)' <=> Live(o)) /\ v # l
        /\ \A o \in Object \ {l} : kind'[o] = kind[o] /\ fields'[o] = fields[o]
        /\ ToSet(fields'[l]) \subseteq ToSet(fields[l]) \cup {v}
    BY DEF PutIn, Live, Fits, Apart
  <1>2. Apart(l, w)'
    <2>1. PICK P \in SUBSET Object : LiveClosed(P) /\ {w} \cap Object \subseteq P /\ l \notin P
      BY <1>1 DEF Fits, Apart
    <2>2. LiveClosed(P)'
      BY <1>1, <2>1 DEF LiveClosed
    <2> QED
      BY <2>1, <2>2 DEF Apart
  <1>3. RootText(w) => RootText(w)'
    BY <1>1 DEF RootText
  <1>4. Unheld(l) => Unheld(l)'
    BY <1>1 DEF Unheld
  <1> QED
    BY <1>2, <1>3, <1>4 DEF Fits

(* The reference in hand fits where the step puts it. *)
LEMMA StoreFits ==
    ASSUME IInv, HeapReady, NEW name \in Storing, Doing(name)
    PROVE  /\ Fits(name, At(Now.target), hand)
           /\ At(Now.target) \in Object => Live(At(Now.target))
  <1>1. 1 \in 1..Len(todo) /\ todo[1] = Now /\ Now.do = name
    BY DoingFacts
  <1>2. Given(1) = hand
    BY DEF Given
  <1>3. Fits(name, At(Now.target), hand)
    BY <1>1, <1>2 DEF HeapReady, StoresReady, StoreReady
  <1>4. At(Now.target) \in Object => Live(At(Now.target))
    BY TargetAlive DEF Storing, Targeted, Live
  <1> QED
    BY <1>3, <1>4

LEMMA ElementsWritten ==
    ASSUME NEW S, NEW s \in Seq(S), NEW v \in S, NEW i
    PROVE  /\ ToSet([s EXCEPT ![i] = v]) \subseteq ToSet(s) \cup {v}
           /\ ToSet(Append(s, v)) \subseteq ToSet(s) \cup {v}
  <1>1. ToSet([s EXCEPT ![i] = v]) \subseteq ToSet(s) \cup {v}
    <2>1. \A j \in DOMAIN s : [s EXCEPT ![i] = v][j] \in {s[j], v}
      OBVIOUS
    <2> QED
      BY <2>1 DEF ToSet
  <1>2. ToSet(Append(s, v)) \subseteq ToSet(s) \cup {v}
    <2>1. Append(s, v) \in Seq(S) /\ \A x : In(Append(s, v), x) <=> x = v \/ In(s, x)
      BY AppendFacts
    <2> QED
      BY <2>1, ToSetIn
  <1> QED
    BY <1>1, <1>2

(* view->backing = root *)
LEMMA BackingReady ==
    ASSUME IInv, HeapReady, DoBacking
    PROVE  HeapReady'
  <1> PICK l : l = At(Now.target)
    OBVIOUS
  <1>1. /\ Doing("backing") /\ todo' = Tail(todo) /\ UNCHANGED <<kind, count>>
        /\ fields' = [fields EXCEPT ![l] = <<hand>>]
    BY DEF DoBacking, OnHeap
  <1>2. Typed /\ TargetReady(1) /\ todo[1] = Now /\ Now.do = "backing" /\ todo # <<>>
    BY <1>1, DoingFacts
  <1>3. l \in Object /\ kind[l] = "TEXT"
    <2>1. 1..(1 - 1) = {}
      OBVIOUS
    <2>2. ~ Promised(Now.target, "TEXT", 1)
      BY <2>1 DEF Promised
    <2> QED
      BY <1>2, <2>2 DEF TargetReady
  <1>4. Fits("backing", l, hand) /\ Live(l)
    BY <1>1, <1>3, StoreFits DEF Storing
  <1>5. ToSet(fields'[l]) \subseteq ToSet(fields[l]) \cup {hand}
    <2>1. fields'[l] = <<hand>>
      BY <1>1, <1>2, <1>3 DEF Typed
    <2>2. ToSet(<<hand>>) \subseteq {hand}
      BY DEF ToSet
    <2> QED
      BY <2>1, <2>2
  <1>6. PutIn("backing", l, hand)
    BY <1>1, <1>2, <1>3, <1>4, <1>5 DEF PutIn, Typed
  <1>7. StoresReady'
    BY <1>1, <1>2, NoStoresLeft, NoStores DEF Closing
  <1> QED
    BY <1>6, <1>7, StoreKeepsHeap DEF HeapReady

(* minyar_record_set_take *)
LEMMA FieldReady ==
    ASSUME IInv, HeapReady, DoField
    PROVE  HeapReady'
  <1> PICK l : l = At(Now.target)
    OBVIOUS
  <1>1. /\ Doing("field") /\ todo' = Tail(todo) /\ UNCHANGED <<kind, count>>
        /\ fields' = [fields EXCEPT ![l] = [@ EXCEPT ![Now.index] = hand]]
    BY DEF DoField, OnHeap
  <1>2. Typed /\ TargetReady(1) /\ todo[1] = Now /\ Now.do = "field" /\ todo # <<>>
        /\ Now \in MicroStep
    BY <1>1, DoingFacts
  <1>3. l \in Object /\ kind[l] = "RECORD"
    <2>1. Now.target \in Object
      BY <1>2, StepTypes
    <2>2. Now.target \notin Register
      BY <2>1, SlotAssumption
    <2> QED
      BY <1>2, <2>1, <2>2 DEF TargetReady, At
  <1>4. Fits("field", l, hand) /\ Live(l)
    BY <1>1, <1>3, StoreFits DEF Storing
  <1>5. ToSet(fields'[l]) \subseteq ToSet(fields[l]) \cup {hand}
    <2>1. fields'[l] = [fields[l] EXCEPT ![Now.index] = hand] /\ hand \in Value
          /\ fields[l] \in Seq(Value)
      BY <1>1, <1>2, <1>3 DEF Typed
    <2> QED
      BY <2>1, ElementsWritten
  <1>6. PutIn("field", l, hand)
    BY <1>1, <1>2, <1>3, <1>4, <1>5 DEF PutIn, Typed
  <1>7. StoresReady'
    BY <1>1, <1>2, NoStoresLeft, NoStores DEF Closing
  <1> QED
    BY <1>6, <1>7, StoreKeepsHeap DEF HeapReady

(* minyar_list_set_owned *)
LEMMA ReplaceReady ==
    ASSUME IInv, HeapReady, DoReplace
    PROVE  HeapReady'
  <1> PICK l : l = At(Now.target)
    OBVIOUS
  <1>1. /\ Doing("replace") /\ todo' = Tail(todo) /\ UNCHANGED <<count>>
        /\ kind' = [kind EXCEPT ![l] = StoreKind(l, hand)]
        /\ fields' = [fields EXCEPT ![l] = [@ EXCEPT ![Now.index] = hand]]
    BY DEF DoReplace, OnHeap
  <1>2. Typed /\ HeapSound /\ TargetReady(1) /\ todo[1] = Now /\ Now.do = "replace" /\ todo # <<>>
        /\ Now \in MicroStep
    BY <1>1, DoingFacts
  <1>3. l \in Object /\ kind[l] \in ListKinds
    <2>1. Now.target \in Object
      BY <1>2, StepTypes
    <2>2. Now.target \notin Register
      BY <2>1, SlotAssumption
    <2> QED
      BY <1>2, <2>1, <2>2 DEF TargetReady, At
  <1>4. Fits("replace", l, hand) /\ Live(l)
    BY <1>1, <1>3, StoreFits DEF Storing
  <1>5. ToSet(fields'[l]) \subseteq ToSet(fields[l]) \cup {hand}
    <2>1. fields'[l] = [fields[l] EXCEPT ![Now.index] = hand] /\ hand \in Value
          /\ fields[l] \in Seq(Value)
      BY <1>1, <1>2, <1>3 DEF Typed
    <2> QED
      BY <2>1, ElementsWritten
  <1>6. kind'[l] \in ListKinds /\ kind[l] # "TEXT"
    BY <1>1, <1>2, <1>3, StoredKind DEF Typed, ListKinds
  <1>7. PutIn("replace", l, hand)
    BY <1>1, <1>2, <1>3, <1>4, <1>5, <1>6 DEF PutIn, Typed
  <1>8. StoresReady'
    BY <1>1, <1>2, NoStoresLeft, NoStores DEF Closing
  <1> QED
    BY <1>7, <1>8, StoreKeepsHeap DEF HeapReady

(* list->values[list->length++] = value *)
LEMMA AppendReady ==
    ASSUME IInv, IInv', HeapReady, DoAppend
    PROVE  HeapReady'
  <1> PICK l : l = At(Now.target)
    OBVIOUS
  <1>1. /\ Doing("append") /\ todo' = Tail(todo) /\ UNCHANGED <<count, reg>>
        /\ kind' = [kind EXCEPT ![l] = StoreKind(l, hand)]
        /\ fields' = [fields EXCEPT ![l] = Append(@, hand)]
    BY DEF DoAppend, OnHeap
  <1>2. Typed /\ HeapSound /\ TargetReady(1) /\ todo[1] = Now /\ Now.do = "append" /\ todo # <<>>
        /\ Now \in MicroStep /\ Ahead(1) /\ 1 \in 1..Len(todo)
    BY <1>1, DoingFacts
  <1>3. l \in Object /\ kind[l] \in ListKinds
    <2>1. 1..(1 - 1) = {}
      OBVIOUS
    <2>2. ~ Promised(Now.target, "LIST", 1) /\ ~ Promoted(Now.target, 1)
      BY <2>1 DEF Promised, Promoted
    <2> QED
      BY <1>2, <2>2 DEF TargetReady
  <1>4. Fits("append", l, hand) /\ Live(l)
    BY <1>1, <1>3, StoreFits DEF Storing
  <1>5. ToSet(fields'[l]) \subseteq ToSet(fields[l]) \cup {hand}
    <2>1. fields'[l] = Append(fields[l], hand) /\ hand \in Value /\ fields[l] \in Seq(Value)
      BY <1>1, <1>2, <1>3 DEF Typed
    <2> QED
      BY <2>1, ElementsWritten
  <1>6. kind'[l] \in ListKinds /\ kind[l] # "TEXT"
    BY <1>1, <1>2, <1>3, StoredKind DEF Typed, ListKinds
  <1>7. PutIn("append", l, hand)
    BY <1>1, <1>2, <1>3, <1>4, <1>5, <1>6 DEF PutIn, Typed
  <1>8. FitsAhead(1)
    <2> SUFFICES ASSUME NEW j \in 1..Len(todo'), todo'[j].do \in Storing
                 PROVE  \E t : /\ At(todo[j].target)' = t
                               /\ \A v : Fits(todo[j + 1].do, At(todo[j + 1].target), v)
                                            => Fits(todo[j].do, t, v)'
      BY DEF FitsAhead
    <2>1. todo'[j] = todo[j + 1] /\ j + 1 \in 1..Len(todo)
      BY <1>2 DEF Ahead
    <2>2. todo[j + 1].target = Now.target
      BY <1>2, <2>1 DEF HeapReady, StoresReady, Storing
    <2>3. At(todo[j].target)' = l /\ At(todo[j + 1].target) = l
      BY <1>1, <2>1, <2>2 DEF At
    <2> PICK next : next = todo[j + 1].do
      OBVIOUS
    <2>4. \A v : Fits(next, l, v) => Fits(next, l, v)'
      BY <1>6, <1>7, StoreKeepsFits
    <2> QED
      BY <2>1, <2>3, <2>4
  <1>9. SteadyGiven(1)
    <2>1. 2 \in 1..Len(todo) /\ todo[2].do \in Storing => todo[1].do \in Acquires
      BY DEF HeapReady, StoresReady, StoreReady
    <2>2. todo[1].do \notin Acquires
      BY <1>2 DEF Acquires
    <2> QED
      BY <1>1, <1>2, <2>1, <2>2, GivenAhead DEF HeapReady
  <1> QED
    BY <1>2, <1>7, <1>8, <1>9, StoreKeepsHeap, FittingStores DEF HeapReady

LEMMA ResumeReady ==
    ASSUME IInv, IInv', HeapReady, Resume
    PROVE  HeapReady'
  BY QuietReady, AllocateReady, RetainReady, ClosingReady, BackingReady, TakeReady, ReferencesReady,
     AppendReady, ReplaceReady, FieldReady, DropLocalsReady DEF Resume
=============================================================================
