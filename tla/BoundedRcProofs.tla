-------------------------- MODULE BoundedRcProofs ---------------------------
(***************************************************************************)
(* The bounded runtime keeps exact counts, queues every dead value once    *)
(* and knows how many tasks wait, never reclaims what a call in progress   *)
(* still uses, and implements the ownership contract, for any values,      *)
(* registers, frames, chunks, programs and bounds.                         *)
(***************************************************************************)
EXTENDS BoundedRcSteps
-----------------------------------------------------------------------------
(***************************************************************************)
(* The values that a program can name between two calls.                   *)
(***************************************************************************)
(* Every value that is held, directly or not, where no cleanup reaches it. *)
HeldValues == UNION {P \in SUBSET Object : Supported(P)}

LEMMA SupportWidens ==
    ASSUME NEW P, NEW Q, P \subseteq Q, NEW s, Lasting(s, P)
    PROVE  Lasting(s, Q)
  BY DEF Lasting

LEMMA HeldSupported == HeldValues \subseteq Object /\ Supported(HeldValues)
  <1>1. HeldValues \subseteq Object
    BY DEF HeldValues
  <1>2. ASSUME NEW o \in HeldValues PROVE \E s \in Slot : Lasting(s, HeldValues) /\ edge[s] = o
    <2>1. PICK P \in SUBSET Object : Supported(P) /\ o \in P
      BY DEF HeldValues
    <2>2. P \subseteq HeldValues
      BY <2>1 DEF HeldValues
    <2>3. PICK s \in Slot : Lasting(s, P) /\ edge[s] = o
      BY <2>1 DEF Supported
    <2> QED
      BY <2>2, <2>3, SupportWidens
  <1> QED
    BY <1>1, <1>2 DEF Supported

LEMMA HeldBy ==
    ASSUME NEW s \in Slot, Lasting(s, HeldValues), edge[s] \in Object
    PROVE  edge[s] \in HeldValues
  <1> DEFINE P == HeldValues \cup {edge[s]}
  <1>1. HeldValues \subseteq P /\ P \in SUBSET Object
    BY HeldSupported
  <1>2. ASSUME NEW o \in P PROVE \E t \in Slot : Lasting(t, P) /\ edge[t] = o
    <2>1. CASE o = edge[s]
      <3>1. Lasting(s, P)
        BY <1>1, SupportWidens
      <3> QED
        BY <2>1, <3>1
    <2>2. CASE o \in HeldValues
      <3>1. PICK t \in Slot : Lasting(t, HeldValues) /\ edge[t] = o
        BY <2>2, HeldSupported DEF Supported
      <3>2. Lasting(t, P)
        BY <1>1, <3>1, SupportWidens
      <3> QED
        BY <3>1, <3>2
    <2> QED
      BY <2>1, <2>2
  <1>3. Supported(P) /\ edge[s] \in P
    BY <1>2 DEF Supported
  <1> QED
    BY <1>1, <1>3 DEF HeldValues

(* What a held value is made of is held too. *)
LEMMA FieldsHeld ==
    ASSUME IInv, NEW o \in HeldValues, NEW i \in 1..Len(fields[o])
    PROVE  /\ o \in Object /\ count[o] > 0 /\ fields[o][i] \in Value
           /\ fields[o][i] \in Object => fields[o][i] \in HeldValues
  <1>1. o \in Object /\ count[o] > 0 /\ Sound
    BY HeldSupported, SupportedLive DEF IInv
  <1>2. Progress(o) = 0 /\ fields[o] \in Seq(Value) /\ Len(fields[o]) <= MaxWidth
    BY <1>1, LiveFacts DEF Sound, Typed, HeapSound
  <1>3. i \in Index /\ fields[o][i] \in Value /\ 0 < i /\ i <= Len(fields[o])
    <2>1. Len(fields[o]) \in Nat /\ fields[o][i] \in Value
      BY <1>2
    <2> QED
      BY <1>2, <2>1, ConstantsAssumption DEF Index
  <1>4. <<o, i>> \in Slot /\ Lasting(<<o, i>>, HeldValues)
    BY <1>1, <1>3, SlotForms DEF Lasting
  <1>5. fields[o][i] \in Object => edge[<<o, i>>] = fields[o][i]
    BY <1>1, <1>2, <1>3, Forms DEF EdgeForms, FieldEdge, Counted
  <1> QED
    BY <1>1, <1>3, <1>4, <1>5, HeldBy

(* What the program can name is held. *)
LEMMA ProgramHolds ==
    ASSUME IInv, NEW v \in HeldByProgram
    PROVE  v \in Value /\ (v \in Object => v \in HeldValues)
  <1>1. Typed /\ FrameSound /\ ChunkSound
    BY DEF IInv, Sound
  <1>2. CASE \E r \in Register : v = reg[r]
    <2>1. PICK r \in Register : v = reg[r]
      BY <1>2
    <2>2. v \in Value /\ <<r, 0>> \in Slot /\ Lasting(<<r, 0>>, HeldValues)
      BY <1>1, <2>1, SlotForms DEF Typed, Lasting
    <2>3. v \in Object => edge[<<r, 0>>] = v
      BY <2>1, Forms DEF EdgeForms, Counted
    <2> QED
      BY <2>2, <2>3, HeldBy
  <1>3. CASE \E f \in ToSet(stack), i \in Local : v = frame[f].locals[i].ref
    <2>1. PICK f \in ToSet(stack), i \in Local : v = frame[f].locals[i].ref
      BY <1>3
    <2>2. f \in Frame /\ In(stack, f)
      BY <1>1, <2>1, ToSetIn DEF Typed
    <2>3. frame[f] \in FrameRecord
      BY <1>1, <2>2 DEF Typed
    <2>4. v \in Value /\ frame[f].written \in Seq(Local)
      BY <2>1, <2>3 DEF FrameRecord, LocalSlot
    <2>5. <<f, i>> \in Slot /\ Lasting(<<f, i>>, HeldValues)
      BY <2>2, SlotForms DEF Lasting
    <2>6. v \in Object => edge[<<f, i>>] = v
      <3>1. SUFFICES ASSUME v \in Object PROVE edge[<<f, i>>] = v
        OBVIOUS
      <3>2. In(frame[f].written, i)
        BY <1>1, <2>1, <2>2, <3>1, ConstantsAssumption DEF FrameSound, FrameShape
      <3>3. i \in OwnedLocals(f)
        BY <2>1, <2>4, <3>2, ToSetIn DEF OwnedLocals
      <3> QED
        BY <2>1, <2>2, <3>1, <3>3, Forms DEF EdgeForms, LocalEdge, Counted
    <2> QED
      BY <2>4, <2>5, <2>6, HeldBy
  <1>4. CASE \E f \in ToSet(stack), c \in Chunk : c \in ToSet(frame[f].temps) /\ v \in ToSet(chunk[c])
    <2>1. PICK f \in ToSet(stack), c \in Chunk : c \in ToSet(frame[f].temps) /\ v \in ToSet(chunk[c])
      BY <1>4
    <2>2. f \in Frame /\ In(stack, f)
      BY <1>1, <2>1, ToSetIn DEF Typed
    <2>3. frame[f].temps \in Seq(Chunk)
      BY <1>1, <2>2 DEF Typed, FrameRecord
    <2>4. In(frame[f].temps, c) /\ chunk[c] \in Seq(Value) /\ Len(chunk[c]) <= ChunkSlots
      BY <1>1, <2>1, <2>3, ToSetIn DEF Typed, ChunkSound
    <2>5. PICK i \in 1..Len(chunk[c]) : chunk[c][i] = v
      BY <2>1, <2>4, ToSetIn DEF In
    <2>6. v \in Value /\ i \in 1..ChunkSlots /\ i <= Len(chunk[c])
      <3>1. Len(chunk[c]) \in Nat /\ chunk[c][i] \in Value
        BY <2>4
      <3> QED
        BY <2>4, <2>5, <3>1, ConstantsAssumption
    <2>7. <<c, i>> \in Slot /\ Lasting(<<c, i>>, HeldValues)
      BY <2>2, <2>4, <2>6, SlotForms DEF Lasting
    <2>8. v \in Object => edge[<<c, i>>] = v
      BY <2>5, <2>6, Forms DEF EdgeForms, ChunkEdge, Counted
    <2> QED
      BY <2>6, <2>7, <2>8, HeldBy
  <1>5. ASSUME NEW f \in ToSet(stack), NEW c \in ToSet(frame[f].temps) PROVE c \in Chunk
    <2>1. f \in Frame
      BY <1>1, <1>5, ToSetIn DEF Typed
    <2>2. frame[f].temps \in Seq(Chunk)
      BY <1>1, <2>1 DEF Typed, FrameRecord
    <2> QED
      BY <1>5, <2>2, ToSetIn
  <1> QED
    BY <1>2, <1>3, <1>4, <1>5 DEF HeldByProgram

LEMMA OperandFacts ==
    ASSUME IInv, NEW v \in Operand
    PROVE  /\ v \in Value \ {None} /\ (v \in Object => v \in HeldValues)
           /\ v \in Object => count[v] > 0
  <1>1. CASE v \in Literal
    BY <1>1, ConstantsAssumption DEF Value
  <1>2. CASE v \in HeldByProgram /\ v # None
    BY <1>2, ProgramHolds, HeldSupported, SupportedLive
  <1>3. CASE \E o \in HeldByProgram : v \in Elements(o) /\ v # None
    <2>1. PICK o \in HeldByProgram : v \in Elements(o) /\ v # None
      BY <1>3
    <2>2. o \in Object /\ v \in ToSet(fields[o])
      BY <2>1 DEF Elements, Mortal
    <2>3. o \in HeldValues
      BY <2>1, <2>2, ProgramHolds
    <2>4. fields[o] \in Seq(Value)
      BY <2>2 DEF IInv, Sound, Typed
    <2>5. PICK i \in 1..Len(fields[o]) : fields[o][i] = v
      BY <2>2, <2>4, ToSetIn DEF In
    <2>6. v \in Value /\ (v \in Object => v \in HeldValues)
      BY <2>3, <2>5, FieldsHeld
    <2> QED
      BY <2>1, <2>6, HeldSupported, SupportedLive
  <1> QED
    BY <1>1, <1>2, <1>3 DEF Operand
-----------------------------------------------------------------------------
(***************************************************************************)
(* The program's calls.                                                    *)
(***************************************************************************)
CallOnly == UNCHANGED <<program, heapVars, objectQueueVars, frameVars, chunkVars, nextQueue,
                        pending, reg, hand, falling, spent, work>>

LEMMA IdleFacts ==
    ASSUME IInv, Idle
    PROVE  /\ Typed /\ HeapSound /\ QueueSound /\ FrameSound /\ ChunkSound
           /\ todo = <<>> /\ falling = None /\ hand = None /\ stack # <<>>
           /\ (\A f \in Frame : ~ Dropping(f)) /\ None \notin Object
  <1>1. Typed /\ HeapSound /\ QueueSound /\ FrameSound /\ ChunkSound /\ StepsFormed
    BY DEF IInv, Sound, StepsSound
  <1>2. todo = <<>> /\ falling = None /\ stack # <<>> /\ Len(todo) = 0
    BY DEF Idle, Running
  <1>3. hand = None
    <2>1. ~ Ends(1)
      BY <1>2 DEF Ends, Does
    <2> QED
      BY <1>1, <2>1 DEF StepsFormed
  <1>4. \A f \in Frame : ~ Dropping(f)
    BY <1>2 DEF Dropping
  <1> QED
    BY <1>1, <1>2, <1>3, <1>4, ConstantsAssumption

(* A call changes nothing but the steps that remain. *)
LEMMA CalledSound ==
    ASSUME IInv, Idle, CallOnly, todo' \in Seq(MicroStep),
           todo' # <<>> => todo'[1].do # "dropLocals",
           StepsFormed', \A j \in 1..Len(todo') : StepReady(j)',
           \A j \in 1..Len(todo') : (Named(j) \cap Object)' \subseteq HeldValues
    PROVE  StepForm /\ Sound'
  <1> USE DEF CallOnly, heapVars, objectQueueVars, frameVars, chunkVars
  <1>1. /\ Typed /\ HeapSound /\ QueueSound /\ FrameSound /\ ChunkSound
        /\ (\A f \in Frame : ~ Dropping(f))
    BY IdleFacts
  <1>2. \A s \in Slot : edge'[s] = edge[s]
    BY EdgesUnchanged
  <1>3. StepForm
    BY <1>2, KeptForm DEF status, Free, Live
  <1>4. Typed'
    BY <1>1 DEF Typed
  <1>5. HeapSound' /\ QueueSound' /\ FrameSound' /\ ChunkSound'
    <2>1. \A f \in Frame : Dropping(f)' <=> Dropping(f)
      BY <1>1 DEF Dropping
    <2> QED
      BY <1>1, <2>1, HeapUnchanged, QueueUnchanged, FrameUnchanged, ChunkUnchanged
  <1>6. StepsSound'
    <2> PICK P : P = HeldValues
      OBVIOUS
    <2>1. P \in SUBSET Object /\ Supported(P)
      BY HeldSupported
    <2>2. SteadyFrames
      BY FramesSteady
    <2>3. Supported(P)'
      BY <1>2, <2>1, <2>2, SupportSteady
    <2>4. OperandsHeld'
      <3>1. \A j \in 1..Len(todo') : (Named(j) \cap Object)' \subseteq P
        OBVIOUS
      <3> QED
        BY <2>1, <2>3, <3>1 DEF OperandsHeld
    <2> QED
      BY <2>4 DEF StepsSound
  <1> QED
    BY <1>3, <1>4, <1>5, <1>6 DEF Sound

LEMMA CallFacts ==
    ASSUME NEW name, NEW steps, Call(name, steps), program' = program
    PROVE  CallOnly /\ todo' = steps
  BY DEF Call, CallOnly, heapVars, objectQueueVars, frameVars, chunkVars

(* Steps that need nothing and name nothing. *)
LEMMA PlainReady ==
    ASSUME NEW j, todo'[j].do \in {"service", "rest", "enter", "enterStack", "local", "chunk", "hold", "release", "take"}
    PROVE  Named(j)' = {} /\ RegisterReady(j)' /\ TargetReady(j)'
  BY DEF Named, Targeted, RegisterReady, TargetReady

LEMMA UnframedReady ==
    ASSUME NEW j, todo'[j].do \notin {"local", "hold", "chunk", "enter", "enterStack", "dropLocals"}
    PROVE  FrameReady(j)'
  BY DEF FrameReady

LEMMA PollFacts == ASSUME Typed PROVE Poll \in MicroStep /\ Poll.do = "service"
  <1>1. Budget \in Int
    BY ConstantsAssumption DEF Budget, Typed
  <1> QED
    BY <1>1, StepForms DEF Poll, Service

LEMMA IndexingFacts ==
    ASSUME Typed, NEW z \in Indexing
    PROVE  z \in MicroStep /\ z.do = "service"
  <1>1. z = Poll \/ z = Service(0)
    BY DEF Indexing
  <1> QED
    BY <1>1, PollFacts, StepForms DEF Service

LEMMA ConcatAt ==
    ASSUME NEW S, NEW s \in Seq(S), NEW t \in Seq(S)
    PROVE  /\ s \o t \in Seq(S) /\ Len(s \o t) = Len(s) + Len(t)
           /\ Len(s) \in Nat /\ Len(t) \in Nat
           /\ \A i \in 1..Len(s) : (s \o t)[i] = s[i]
           /\ \A i \in 1..Len(t) : (s \o t)[Len(s) + i] = t[i]
  OBVIOUS

LEMMA IndexedText ==
    ASSUME NEW z, NEW r
    PROVE  <<z>> \o TextSteps(r) = <<z, Poll, Poll, Allocate(r, "TEXT", 0)>>
  <1> PICK p, s : p = Poll /\ s = Allocate(r, "TEXT", 0)
    OBVIOUS
  <1> DEFINE S == {z, p, s}
             a == <<z>>
             b == <<p, p, s>>
             c == <<z, p, p, s>>
  <1>1. /\ a \in Seq(S) /\ Len(a) = 1 /\ a[1] = z
        /\ b \in Seq(S) /\ Len(b) = 3 /\ b[1] = p /\ b[2] = p /\ b[3] = s
        /\ c \in Seq(S) /\ Len(c) = 4 /\ c[1] = z /\ c[2] = p /\ c[3] = p /\ c[4] = s
    OBVIOUS
  <1> HIDE DEF a, b, c, S
  <1> PICK d : d = a \o b
    OBVIOUS
  <1>2. /\ d \in Seq(S) /\ Len(d) = 1 + 3
        /\ \A i \in 1..1 : d[i] = a[i]
        /\ \A i \in 1..3 : d[1 + i] = b[i]
    <2>1. a \in Seq(S) /\ b \in Seq(S)
      BY <1>1
    <2>2. /\ d \in Seq(S) /\ Len(d) = Len(a) + Len(b)
          /\ \A i \in 1..Len(a) : d[i] = a[i]
          /\ \A i \in 1..Len(b) : d[Len(a) + i] = b[i]
      BY ONLY <2>1, d = a \o b, ConcatAt
    <2> QED
      BY <1>1, <2>2
  <1>3. d[1] = a[1] /\ d[1 + 1] = b[1] /\ d[1 + 2] = b[2] /\ d[1 + 3] = b[3]
    BY <1>2
  <1>4. \A i \in 1..4 : d[i] = c[i]
    <2>1. \A i \in 1..4 : i = 1 \/ i = 2 \/ i = 3 \/ i = 4
      OBVIOUS
    <2>2. d[1] = z /\ d[2] = p /\ d[3] = p /\ d[4] = s
      BY <1>1, <1>2, <1>3
    <2> QED
      BY <1>1, <2>1, <2>2
  <1>5. d = c
    <2>1. d \in Seq(S) /\ c \in Seq(S) /\ Len(d) = Len(c) /\ Len(d) = 4
      BY <1>1, <1>2
    <2>2. \A i \in 1..Len(d) : d[i] = c[i]
      BY <1>4, <2>1
    <2> QED
      BY ONLY <2>1, <2>2, SeqEqual
  <1>6. <<z>> \o <<p, p, s>> = <<z, p, p, s>>
    BY <1>5 DEF a, b, c
  <1> QED
    BY <1>6 DEF TextSteps

(* A call that only allocates. *)
LEMMA AllocationSound ==
    ASSUME IInv, NEW r \in EmptyRegisters, NEW k \in NewKinds, NEW n \in 0..MaxWidth,
           k = "RECORD" \/ n = 0, NEW name, NEW steps,
           \/ steps \in {<<Poll, Allocate(r, k, n)>>, <<Poll, Poll, Allocate(r, k, n)>>}
           \/ \E z \in Indexing : steps = <<z, Poll, Poll, Allocate(r, k, n)>>,
           Call(name, steps), program' = program
    PROVE  StepForm /\ Sound'
  <1>1. Idle /\ CallOnly /\ todo' = steps
    BY CallFacts DEF Call
  <1>2. Typed /\ hand = None
    BY <1>1, IdleFacts
  <1> PICK s : s = Allocate(r, k, n)
    OBVIOUS
  <1> PICK p : p = Poll
    OBVIOUS
  <1>3. /\ s \in MicroStep /\ s.do = "allocate" /\ s.reg = r /\ r \in Register /\ reg[r] = None
        /\ p \in MicroStep /\ p.do = "service"
    BY <1>2, StepForms, PollFacts DEF Allocate, EmptyRegisters, Results
  <1>4. PICK m \in {2, 3, 4} : /\ todo' \in Seq(MicroStep) /\ Len(todo') = m /\ todo'[m] = s
                               /\ \A j \in 1..(m - 1) : todo'[j].do = "service"
    <2>1. CASE todo' = <<p, s>>
      BY <1>3, <2>1
    <2>2. CASE todo' = <<p, p, s>>
      BY <1>3, <2>2
    <2>3. CASE \E z \in Indexing : todo' = <<z, p, p, s>>
      <3>1. PICK z \in Indexing : todo' = <<z, p, p, s>>
        BY <2>3
      <3>2. z \in MicroStep /\ z.do = "service"
        BY <1>2, IndexingFacts
      <3> QED
        BY <1>3, <3>1, <3>2
    <2> QED
      BY <1>1, <2>1, <2>2, <2>3
  <1>5. \A j \in 1..Len(todo') : /\ todo'[j] = s \/ todo'[j].do = "service"
                                 /\ j < Len(todo') => todo'[j].do = "service"
    BY <1>4
  <1>6. StepsFormed'
    BY <1>1, <1>2, <1>3, <1>4, <1>5 DEF StepsFormed, Closing, Fills, Acquires, Targeted, CallOnly
  <1>7. ASSUME NEW j \in 1..Len(todo') PROVE StepReady(j)' /\ Named(j)' = {}
    <2>1. CASE todo'[j].do = "service"
      BY <2>1, PlainReady, UnframedReady DEF StepReady
    <2>2. CASE todo'[j] = s
      <3>1. RegisterReady(j)' /\ TargetReady(j)' /\ Named(j)' = {}
        BY <1>1, <1>3, <2>2 DEF RegisterReady, TargetReady, Named, Targeted, CallOnly
      <3> QED
        BY <1>3, <2>2, <3>1, UnframedReady DEF StepReady
    <2> QED
      BY <1>5, <2>1, <2>2
  <1>8. todo' # <<>> => todo'[1].do # "dropLocals"
    BY <1>3, <1>4, <1>5
  <1> QED
    BY <1>1, <1>4, <1>6, <1>7, <1>8, CalledSound

(* A retain or a take: the operand a call acquires. *)
LEMMA AcquireFacts ==
    ASSUME IInv, Idle, NEW a \in Acquiring \cup Taking
    PROVE  /\ a.value \in Value \ {None} /\ (a.value \in Object => a.value \in HeldValues)
           /\ \E q \in MicroStep :
                 /\ a.steps = <<q>>
                 /\ \/ q.do = "retain" /\ q.value = a.value
                    \/ q.do = "take" /\ q.target \in Results /\ reg[q.target] = a.value
  <1>1. Typed
    BY IdleFacts
  <1>2. CASE a \in Acquiring
    <2>1. PICK v \in Operand : a = [value |-> v, steps |-> <<Retain(v)>>]
      BY <1>2 DEF Acquiring
    <2>2. v \in Value \ {None} /\ (v \in Object => v \in HeldValues)
      BY OperandFacts
    <2>3. Retain(v) \in MicroStep /\ Retain(v).do = "retain" /\ Retain(v).value = v
      BY <2>2, StepForms DEF Retain
    <2> QED
      BY <2>1, <2>2, <2>3
  <1>3. CASE a \in Taking
    <2>1. PICK r \in Results : a = [value |-> reg[r], steps |-> <<Take(r)>>]
      BY <1>3 DEF Taking
    <2>2. r \in Register /\ reg[r] # None /\ reg[r] \in Value
      BY <1>1, <2>1 DEF Results, Typed
    <2>3. reg[r] \in HeldByProgram
      BY <2>2 DEF HeldByProgram
    <2>4. reg[r] \in Object => reg[r] \in HeldValues
      BY <2>3, ProgramHolds
    <2>5. Take(r) \in MicroStep /\ Take(r).do = "take" /\ Take(r).target = r
      <3>1. Take(r) \in MicroStep
        BY <2>2, StepForms DEF Take
      <3> QED
        BY <3>1 DEF Take, Into
    <2> QED
      BY <2>1, <2>2, <2>4, <2>5
  <1> QED
    BY <1>2, <1>3

(* A call that acquires an operand and stores it. *)
LEMMA StoringCall ==
    ASSUME IInv, Idle, CallOnly, todo' \in Seq(MicroStep),
           NEW c \in Nat \ {0}, c + 1 \in 1..Len(todo'), NEW q, NEW x,
           todo'[c] = q, todo'[c + 1] = x,
           x.do \in {"append", "replace", "field", "local"},
           \A j \in 1..Len(todo') : j # c /\ j # c + 1 => todo'[j].do \in {"service", "rest"},
           \/ q.do = "retain" /\ (q.value \in Object => q.value \in HeldValues)
           \/ q.do = "take" /\ (x.do # "local" => x.target # q.target),
           TargetReady(c + 1)', FrameReady(c + 1)',
           x.do # "local" => (At(x.target) \in Object => At(x.target) \in HeldValues)
    PROVE  StepForm /\ Sound'
  <1>1. hand' = None
    BY IdleFacts DEF CallOnly
  <1>2. ASSUME NEW j \in 1..Len(todo')
        PROVE  \/ j = c /\ todo'[j] = q
               \/ j = c + 1 /\ todo'[j] = x
               \/ j # c /\ j # c + 1 /\ todo'[j].do \in {"service", "rest"}
    BY <1>2
  <1>3. c \in 1..Len(todo') /\ Len(todo') \in Nat
    OBVIOUS
  <1>4. StepsFormed'
    <2>1. ASSUME NEW i \in 1..Len(todo'), NEW j \in 1..Len(todo'), i < j
          PROVE  /\ todo'[i].do \in Closing => todo'[j].do \in {"rest", "service"}
                 /\ ~ (todo'[i].do \in Fills /\ todo'[j].do \in Fills)
                 /\ todo'[j].do # "dropLocals"
                 /\ todo'[i].do = "append" /\ todo'[j].do = "append" => j >= i + 3
                 /\ todo'[i].do = "take" /\ todo'[j].do \in Targeted
                       => todo'[j].target # todo'[i].target
                 /\ todo'[j].do = "grow" => todo'[i].do = "service"
      <3>1. i = c => todo'[i] = q /\ todo'[i].do \in {"retain", "take"}
        OBVIOUS
      <3>2. j = c => todo'[j].do \in {"retain", "take"}
        OBVIOUS
      <3>3. i # c /\ i # c + 1 => todo'[i].do \in {"service", "rest"}
        BY <1>2
      <3>4. j # c /\ j # c + 1 => todo'[j].do \in {"service", "rest"}
        BY <1>2
      <3>5. j = c + 1 => todo'[j] = x
        OBVIOUS
      <3>6. i = c + 1 => todo'[i] = x /\ j # c /\ j # c + 1
        BY <2>1
      <3> QED
        BY <3>1, <3>2, <3>3, <3>4, <3>5, <3>6 DEF Closing, Fills, Targeted
    <2>2. ASSUME NEW i \in 1..Len(todo')
          PROVE  /\ todo'[i].do \in Acquires => Ends(i + 1)'
                 /\ todo'[i].do = "chunk" => Does(i + 1, "hold")'
      <3>1. Ends(c + 1)'
        BY DEF Ends, Consumes
      <3> QED
        BY <1>2, <3>1 DEF Acquires
    <2> QED
      BY <1>1, <2>1, <2>2 DEF StepsFormed
  <1>5. ASSUME NEW j \in 1..Len(todo')
        PROVE  StepReady(j)' /\ (Named(j) \cap Object)' \subseteq HeldValues
    <2>1. CASE j = c
      <3>1. todo'[j] = q
        BY <2>1
      <3> QED
        BY <3>1 DEF StepReady, RegisterReady, TargetReady, FrameReady, Named, Targeted
    <2>2. CASE j = c + 1
      <3>1. todo'[j] = x /\ RegisterReady(j)' /\ TargetReady(j)' /\ FrameReady(j)'
        BY <2>2 DEF RegisterReady
      <3>2. At(x.target)' = At(x.target)
        BY DEF At, CallOnly
      <3>3. (Named(j) \cap Object)' \subseteq HeldValues
        BY <3>1, <3>2 DEF Named, Targeted
      <3> QED
        BY <3>1, <3>3 DEF StepReady
    <2>3. CASE j # c /\ j # c + 1
      <3>1. todo'[j].do \in {"service", "rest"}
        BY <2>3
      <3> QED
        BY <3>1, PlainReady, UnframedReady DEF StepReady
    <2> QED
      BY <2>1, <2>2, <2>3
  <1>6. todo'[1].do # "dropLocals"
    BY <1>2, <1>3
  <1> QED
    BY <1>4, <1>5, <1>6, CalledSound

(* A call that only polls, but for one step that needs no operand in hand. *)
LEMMA SingleCall ==
    ASSUME IInv, Idle, CallOnly, todo' \in Seq(MicroStep),
           NEW c \in 1..Len(todo'), NEW x, todo'[c] = x,
           x.do \in {"service", "references", "local", "enter", "enterStack", "grow"},
           \A j \in 1..Len(todo') : j # c => todo'[j].do \in {"service", "rest"},
           x.do = "grow" => \A j \in 1..Len(todo') : j # c => todo'[j].do = "service",
           TargetReady(c)', FrameReady(c)',
           x.do \in Targeted => (At(x.target) \in Object => At(x.target) \in HeldValues)
    PROVE  StepForm /\ Sound'
  <1>1. hand' = None
    BY IdleFacts DEF CallOnly
  <1>2. Len(todo') \in Nat
    OBVIOUS
  <1>3. StepsFormed'
    <2>1. ASSUME NEW i \in 1..Len(todo'), NEW j \in 1..Len(todo'), i < j
          PROVE  /\ todo'[i].do \in Closing => todo'[j].do \in {"rest", "service"}
                 /\ ~ (todo'[i].do \in Fills /\ todo'[j].do \in Fills)
                 /\ todo'[j].do # "dropLocals"
                 /\ todo'[i].do = "append" /\ todo'[j].do = "append" => j >= i + 3
                 /\ todo'[i].do = "take" /\ todo'[j].do \in Targeted
                       => todo'[j].target # todo'[i].target
                 /\ todo'[j].do = "grow" => todo'[i].do = "service"
      <3>1. i = c => j # c
        BY <2>1
      <3> QED
        BY <3>1 DEF Closing, Fills, Targeted
    <2>2. ASSUME NEW i \in 1..Len(todo')
          PROVE  todo'[i].do \notin Acquires \cup {"chunk"}
      BY DEF Acquires
    <2> QED
      BY <1>1, <2>1, <2>2 DEF StepsFormed
  <1>4. ASSUME NEW j \in 1..Len(todo')
        PROVE  StepReady(j)' /\ (Named(j) \cap Object)' \subseteq HeldValues
    <2>1. CASE j = c
      <3>1. todo'[j] = x /\ RegisterReady(j)' /\ TargetReady(j)' /\ FrameReady(j)'
        BY <2>1 DEF RegisterReady
      <3>2. At(x.target)' = At(x.target)
        BY DEF At, CallOnly
      <3>3. (Named(j) \cap Object)' \subseteq HeldValues
        BY <3>1, <3>2 DEF Named
      <3> QED
        BY <3>1, <3>3 DEF StepReady
    <2>2. CASE j # c
      <3>1. todo'[j].do \in {"service", "rest"}
        BY <2>2
      <3> QED
        BY <3>1, PlainReady, UnframedReady DEF StepReady
    <2> QED
      BY <2>1, <2>2
  <1>5. todo'[1].do # "dropLocals"
    BY <1>2
  <1> QED
    BY <1>3, <1>4, <1>5, CalledSound

LEMMA StepsAre ==
    ASSUME Typed
    PROVE  /\ Poll \in MicroStep /\ Poll.do = "service"
           /\ Rest \in MicroStep /\ Rest.do = "rest"
           /\ \A name, t, i : /\ Into(name, t, i).do = name /\ Into(name, t, i).target = t
                              /\ Into(name, t, i).index = i
  BY PollFacts, StepForms DEF Rest, Op, Into

LEMMA TargetIsObject ==
    ASSUME NEW t \in Object
    PROVE  At(t) = t
  BY SlotAssumption DEF At

LEMMA TopLocals ==
    ASSUME IInv, Idle, NEW i \in Local, i <= frame[Top].localCount
    PROVE  i \in 1..frame[Top].localCount /\ i \in Nat
  <1>1. frame[Top].localCount \in 0..MaxLocals /\ MaxLocals \in Nat
    BY IdleFacts, TopFacts, ConstantsAssumption
  <1> QED
    BY <1>1 DEF Local

(***************************************************************************)
(* What a call that the compiler lets through stores.                      *)
(***************************************************************************)
LEMMA AllowedApart ==
    ASSUME NEW l, NEW v, MayStore(l, v)
    PROVE  Apart(l, v)
  BY DEF MayStore, Apart, Closed, LiveClosed

LEMMA FitsCalled ==
    ASSUME CallOnly, NEW name, NEW l, NEW v, Fits(name, l, v)
    PROVE  Fits(name, l, v)'
  BY DEF CallOnly, heapVars, Fits, Apart, LiveClosed, Live, RootText, Unheld

(* A call that acquires the value v and stores it in a value.              *)
LEMMA StoringFits ==
    ASSUME CallOnly, NEW c \in Nat \ {0}, Len(todo') \in Nat, c + 1 \in 1..Len(todo'), NEW q, NEW x, NEW v,
           todo'[c] = q, todo'[c + 1] = x,
           x.do \in {"append", "replace", "field"},
           \A j \in 1..Len(todo') : j # c /\ j # c + 1 => todo'[j].do \in {"service", "rest"},
           (q.do = "retain" /\ q.value = v) \/ (q.do = "take" /\ reg[q.target] = v),
           v # None, MayStore(At(x.target), v)
    PROVE  StoresReady'
  <1>1. Given(c + 1)' = v /\ todo'[c + 1 - 1] = q
    BY DEF Given, CallOnly
  <1>2. At(x.target)' = At(x.target)
    BY DEF At, CallOnly
  <1>3. Fits(x.do, At(x.target), v)
    BY AllowedApart DEF Fits
  <1>4. ASSUME NEW j \in 1..Len(todo'), todo'[j].do \in Storing PROVE j = c + 1
    BY <1>4 DEF Storing
  <1>5. StoreReady(c + 1)'
    <2>1. \E l, w : At(x.target)' = l /\ Given(c + 1)' = w /\ Fits(x.do, l, w)'
      BY <1>1, <1>2, <1>3, FitsCalled
    <2> QED
      BY <1>1, <2>1 DEF StoreReady, Acquires
  <1>6. ASSUME NEW j \in 1..Len(todo') PROVE StoreReady(j)'
    BY <1>4, <1>5 DEF StoreReady
  <1>7. ASSUME NEW i \in 1..Len(todo'), NEW j \in 1..Len(todo'), todo'[j].do \in Storing
        PROVE  /\ todo'[i].do \in Storing => todo'[i].target = todo'[j].target
               /\ todo'[i].do = "take" /\ i < j => j = i + 1
    <2>1. j = c + 1 /\ (todo'[i].do \in Storing => i = c + 1)
      BY <1>4, <1>7
    <2>2. todo'[i].do = "take" => i = c
      BY DEF Storing
    <2> QED
      BY <2>1, <2>2
  <1> QED
    BY <1>6, <1>7 DEF StoresReady

(* minyar_record_set. *)
LEMMA RecordSetSound ==
    ASSUME IInv, RecordSet, program' = program
    PROVE  StepForm /\ Sound' /\ StoresReady'
  <1>1. PICK r \in Results, i \in Index, a \in Acquiring \cup Taking :
             /\ Mortal(reg[r]) /\ kind[reg[r]] = "RECORD" /\ count[reg[r]] = 1
             /\ i <= Len(fields[reg[r]]) /\ fields[reg[r]][i] = None
             /\ MayStore(reg[r], a.value)
             /\ Call("record", a.steps \o <<Into("field", reg[r], i), Poll>>)
    BY DEF RecordSet
  <1> PICK o, x, p : o = reg[r] /\ x = Into("field", reg[r], i) /\ p = Poll
    OBVIOUS
  <1>2. /\ Idle /\ CallOnly /\ todo' = a.steps \o <<x, p>>
    BY <1>1, CallFacts DEF Call
  <1>3. Typed
    BY <1>2, IdleFacts
  <1>4. o \in Object /\ r \in Register /\ o \in HeldValues
    <2>1. o \in HeldByProgram /\ o \in Object /\ r \in Register
      BY <1>1 DEF HeldByProgram, Results, Mortal
    <2> QED
      BY <2>1, ProgramHolds
  <1>5. PICK q \in MicroStep :
           /\ a.steps = <<q>>
           /\ \/ q.do = "retain" /\ q.value = a.value
              \/ q.do = "take" /\ q.target \in Results /\ reg[q.target] = a.value
    BY <1>2, AcquireFacts
  <1>6. i \in 1..Len(fields[o]) /\ i \in Nat
    BY <1>1, <1>3, <1>4, ConstantsAssumption DEF Index, Typed
  <1>7. /\ x \in MicroStep /\ x.do = "field" /\ x.target = o /\ x.index = i
        /\ p \in MicroStep /\ p.do = "service"
    <2>1. "field" \in {"replace", "field"}
      OBVIOUS
    <2>2. x \in MicroStep
      BY <1>4, <1>6, <2>1, StepForms
    <2> QED
      BY <1>3, <2>2, StepsAre
  <1>8. todo' \in Seq(MicroStep) /\ Len(todo') = 3 /\ todo'[1] = q /\ todo'[2] = x /\ todo'[3] = p
    BY <1>2, <1>5, <1>7
  <1>9. TargetReady(2)' /\ FrameReady(2)'
    <2>1. At(x.target)' = o
      BY <1>4, <1>7, SlotAssumption DEF At
    <2> QED
      BY <1>1, <1>2, <1>6, <1>7, <1>8, <2>1
         DEF TargetReady, FrameReady, CallOnly, heapVars
  <1>10. \/ q.do = "retain" /\ (q.value \in Object => q.value \in HeldValues)
         \/ q.do = "take" /\ (x.do # "local" => x.target # q.target)
    <2>1. a.value \in Object => a.value \in HeldValues
      BY <1>2, AcquireFacts
    <2>2. q.target \in Results => x.target # q.target
      BY <1>4, <1>7, SlotAssumption DEF Results
    <2> QED
      BY <1>5, <2>1, <2>2
  <1>11. At(x.target) \in HeldValues
    BY <1>4, <1>7, TargetIsObject
  <1>12. /\ 1 \in Nat \ {0} /\ 1 + 1 \in 1..Len(todo') /\ todo'[1 + 1] = x
         /\ \A j \in 1..Len(todo') : j # 1 /\ j # 1 + 1 => todo'[j].do \in {"service", "rest"}
         /\ TargetReady(1 + 1)' /\ FrameReady(1 + 1)'
         /\ x.do \in {"append", "replace", "field", "local"}
    BY <1>7, <1>8, <1>9
  <1>13. StepForm /\ Sound'
    BY ONLY IInv, <1>2, <1>8, <1>10, <1>11, <1>12, StoringCall
  <1>14. StoresReady'
    <2>1. MayStore(At(x.target), a.value)
      BY <1>1, <1>4, <1>7, TargetIsObject
    <2>2. a.value # None
      BY <1>2, AcquireFacts
    <2>3. /\ (q.do = "retain" /\ q.value = a.value) \/ (q.do = "take" /\ reg[q.target] = a.value)
          /\ x.do \in {"append", "replace", "field"} /\ Len(todo') \in Nat
      BY <1>5, <1>7, <1>8
    <2> QED
      <3> PICK c : c = 1
        OBVIOUS
      <3>1. /\ c \in Nat \ {0} /\ c + 1 \in 1..Len(todo') /\ todo'[c] = q /\ todo'[c + 1] = x
            /\ \A j \in 1..Len(todo') : j # c /\ j # c + 1 => todo'[j].do \in {"service", "rest"}
        BY ONLY <1>8, <1>12, c = 1
      <3> QED
        BY ONLY <1>2, <2>1, <2>2, <2>3, <3>1, StoringFits
  <1> QED
    BY <1>13, <1>14

LEMMA ListFacts ==
    ASSUME IInv, Idle, NEW l \in Lists
    PROVE  /\ l \in Object /\ l \in HeldValues /\ kind[l] \in ListKinds /\ l \notin Register
           /\ fields[l] \in Seq(Value) /\ Len(fields[l]) \in Nat
           /\ At(l) = l
  <1>1. l \in Operand /\ l \in Object /\ kind[l] \in ListKinds
    BY DEF Lists, Mortal, ListKinds
  <1>2. l \in HeldValues /\ l \notin Register
    BY <1>1, OperandFacts, SlotAssumption
  <1>3. fields[l] \in Seq(Value)
    BY <1>1, IdleFacts DEF Typed
  <1> QED
    BY <1>1, <1>2, <1>3, TargetIsObject

LEMMA WidthBound == ASSUME Typed PROVE Width \in Nat /\ Width <= MaxWidth /\ MaxWidth \in Nat
  BY ConstantsAssumption DEF Typed, Width

(* The operand of a call that stores it in a value. *)
LEMMA OperandReady ==
    ASSUME IInv, Idle, NEW a \in Acquiring \cup Taking
    PROVE  /\ a.value # None
           /\ \E q \in MicroStep :
              /\ a.steps = <<q>>
              /\ \/ /\ q.do = "retain" /\ q.value = a.value
                    /\ q.value \in Object => q.value \in HeldValues
                 \/ q.do = "take" /\ q.target \in Results /\ q.target \in Register
                    /\ q.target \notin Object /\ reg[q.target] = a.value
  <1>1. PICK q \in MicroStep :
           /\ a.steps = <<q>>
           /\ \/ q.do = "retain" /\ q.value = a.value
              \/ q.do = "take" /\ q.target \in Results /\ reg[q.target] = a.value
    BY AcquireFacts
  <1>2. a.value # None /\ (a.value \in Object => a.value \in HeldValues)
    BY AcquireFacts
  <1>3. q.do = "take" => q.target \in Register /\ q.target \notin Object
    BY <1>1, SlotAssumption DEF Results
  <1> QED
    BY <1>1, <1>2, <1>3

(* minyar_list_add. *)
LEMMA ListAddSound ==
    ASSUME IInv, ListAdd, program' = program
    PROVE  StepForm /\ Sound' /\ StoresReady'
  <1>1. PICK l \in Lists, a \in Acquiring \cup Taking :
             /\ Len(fields[l]) < Width /\ MayStore(l, a.value)
             /\ Call("add", Grow(Len(fields[l])) \o a.steps \o <<Into("append", l, 0), Poll>>)
    BY DEF ListAdd
  <1> PICK x, p, g : x = Into("append", l, 0) /\ p = Poll /\ g = Grow(Len(fields[l]))
    OBVIOUS
  <1>2. Idle /\ CallOnly /\ todo' = (g \o a.steps) \o <<x, p>>
    BY <1>1, CallFacts DEF Call
  <1>3. Typed
    BY <1>2, IdleFacts
  <1>4. PICK q \in MicroStep :
           /\ a.steps = <<q>>
           /\ \/ /\ q.do = "retain" /\ q.value = a.value
                 /\ q.value \in Object => q.value \in HeldValues
              \/ q.do = "take" /\ q.target \in Results /\ q.target \in Register
                 /\ q.target \notin Object /\ reg[q.target] = a.value
    BY <1>2, OperandReady
  <1>5. /\ l \in Object /\ l \in HeldValues /\ kind[l] \in ListKinds /\ At(l) = l
        /\ Len(fields[l]) \in Nat
    BY <1>2, ListFacts
  <1>6. /\ x \in MicroStep /\ x.do = "append" /\ x.target = l /\ p \in MicroStep /\ p.do = "service"
    <2>1. "append" \in {"append", "references"} /\ 0 \in Nat
      OBVIOUS
    <2>2. x \in MicroStep
      BY <1>5, <2>1, StepForms
    <2> QED
      BY <1>3, <2>2, StepsAre
  <1>7. PICK c \in {1, 2} : /\ todo' \in Seq(MicroStep) /\ Len(todo') = c + 2
                            /\ todo'[c] = q /\ todo'[c + 1] = x /\ todo'[c + 2] = p
                            /\ c = 2 => todo'[1] = p
    <2>1. CASE g = <<>>
      <3>1. g \o <<q>> = <<q>>
        BY <2>1
      <3>2. todo' = <<q>> \o <<x, p>>
        BY <1>2, <1>4, <3>1
      <3>3. todo' \in Seq(MicroStep) /\ Len(todo') = 3 /\ todo'[1] = q /\ todo'[2] = x /\ todo'[3] = p
        BY <1>6, <3>2
      <3> QED
        BY <3>3
    <2>2. CASE g = <<p>>
      <3> PICK h : h = g \o <<q>>
        OBVIOUS
      <3>1. h \in Seq(MicroStep) /\ Len(h) = 2 /\ h[1] = p /\ h[2] = q
        BY <1>6, <2>2
      <3>2. todo' = h \o <<x, p>>
        BY <1>2, <1>4
      <3>3. /\ todo' \in Seq(MicroStep) /\ Len(todo') = 4
            /\ todo'[1] = p /\ todo'[2] = q /\ todo'[3] = x /\ todo'[4] = p
        BY <1>6, <3>1, <3>2
      <3> QED
        BY <3>3
    <2> QED
      BY <2>1, <2>2 DEF Grow
  <1>8. TargetReady(c + 1)' /\ FrameReady(c + 1)'
    <2>1. At(x.target)' = l
      BY <1>5, <1>6, SlotAssumption DEF At
    <2>2. Length(l)' = Len(fields[l]) /\ kind' = kind
      BY <1>2, <1>5 DEF Length, CallOnly, heapVars
    <2>3. 3 * Len(fields[l]) + (Len(todo') - 1 - (c + 1)) <= 3 * (MaxWidth - 1)
      <3>1. Len(fields[l]) + 1 <= MaxWidth
        BY <1>1, <1>3, <1>5, WidthBound
      <3>2. Len(todo') - 1 - (c + 1) = 0
        BY <1>7
      <3> QED
        BY <1>3, <1>5, <3>1, <3>2, WidthBound
    <2> QED
      BY <1>5, <1>6, <1>7, <2>1, <2>2, <2>3 DEF TargetReady, FrameReady
  <1>9. /\ c \in Nat \ {0} /\ c + 1 \in 1..Len(todo')
        /\ \A j \in 1..Len(todo') : j # c /\ j # c + 1 => todo'[j].do \in {"service", "rest"}
        /\ x.do \in {"append", "replace", "field", "local"}
        /\ x.do # "local" => (At(x.target) \in Object => At(x.target) \in HeldValues)
        /\ \/ q.do = "retain" /\ (q.value \in Object => q.value \in HeldValues)
           \/ q.do = "take" /\ (x.do # "local" => x.target # q.target)
    BY <1>4, <1>5, <1>6, <1>7
  <1>10. StepForm /\ Sound'
    BY ONLY IInv, <1>2, <1>7, <1>8, <1>9, StoringCall
  <1>11. StoresReady'
    <2>1. MayStore(At(x.target), a.value) /\ a.value # None
      BY <1>1, <1>2, <1>5, <1>6, OperandReady
    <2>2. /\ (q.do = "retain" /\ q.value = a.value) \/ (q.do = "take" /\ reg[q.target] = a.value)
          /\ x.do \in {"append", "replace", "field"} /\ Len(todo') \in Nat
      BY <1>4, <1>6, <1>7
    <2> QED
      BY ONLY <1>2, <1>7, <1>9, <2>1, <2>2, StoringFits
  <1> QED
    BY <1>10, <1>11

(* minyar_list_set. *)
LEMMA ListSetSound ==
    ASSUME IInv, ListSet, program' = program
    PROVE  StepForm /\ Sound' /\ StoresReady'
  <1>1. PICK l \in Lists, i \in Index, a \in Acquiring \cup Taking :
             i <= Len(fields[l]) /\ MayStore(l, a.value) /\ Call("set", ReplaceSteps(l, i, a))
    BY DEF ListSet
  <1> PICK x, p, g : /\ x = Into("replace", l, i) /\ p = Rest
                     /\ g = IF StoreKind(l, a.value) = "REFERENCES" THEN <<Rest>> ELSE <<>>
    OBVIOUS
  <1>2. Idle /\ CallOnly /\ todo' = (a.steps \o <<x>>) \o g
    BY <1>1, CallFacts DEF Call, ReplaceSteps
  <1>3. Typed
    BY <1>2, IdleFacts
  <1>4. PICK q \in MicroStep :
           /\ a.steps = <<q>>
           /\ \/ /\ q.do = "retain" /\ q.value = a.value
                 /\ q.value \in Object => q.value \in HeldValues
              \/ q.do = "take" /\ q.target \in Results /\ q.target \in Register
                 /\ q.target \notin Object /\ reg[q.target] = a.value
    BY <1>2, OperandReady
  <1>5. /\ l \in Object /\ l \in HeldValues /\ kind[l] \in ListKinds /\ At(l) = l
        /\ Len(fields[l]) \in Nat
    BY <1>2, ListFacts
  <1>6. i \in 1..Len(fields[l]) /\ i \in Nat
    BY <1>1, <1>5, ConstantsAssumption DEF Index
  <1>7. /\ x \in MicroStep /\ x.do = "replace" /\ x.target = l /\ x.index = i
        /\ p \in MicroStep /\ p.do = "rest"
    <2>1. "replace" \in {"replace", "field"}
      OBVIOUS
    <2>2. x \in MicroStep
      BY <1>5, <1>6, <2>1, StepForms
    <2> QED
      BY <1>3, <2>2, StepsAre
  <1>8. /\ todo' \in Seq(MicroStep) /\ Len(todo') \in {2, 3} /\ todo'[1] = q /\ todo'[2] = x
        /\ Len(todo') = 3 => todo'[3] = p
    <2> PICK h : h = <<q>> \o <<x>>
      OBVIOUS
    <2>1. h \in Seq(MicroStep) /\ Len(h) = 2 /\ h[1] = q /\ h[2] = x
      BY <1>7
    <2>2. todo' = h \o g
      BY <1>2, <1>4
    <2>3. CASE g = <<>>
      <3>1. todo' = h
        BY <2>1, <2>2, <2>3
      <3> QED
        BY <2>1, <3>1
    <2>4. CASE g = <<p>>
      BY <1>7, <2>1, <2>2, <2>4
    <2> QED
      BY <2>3, <2>4
  <1>9. TargetReady(1 + 1)' /\ FrameReady(1 + 1)'
    <2>1. At(x.target)' = l
      BY <1>5, <1>7, SlotAssumption DEF At
    <2>2. fields' = fields /\ kind' = kind
      BY <1>2 DEF CallOnly, heapVars
    <2> QED
      BY <1>5, <1>6, <1>7, <1>8, <2>1, <2>2 DEF TargetReady, FrameReady
  <1>10. /\ 1 \in Nat \ {0} /\ 1 + 1 \in 1..Len(todo') /\ todo'[1 + 1] = x
         /\ \A j \in 1..Len(todo') : j # 1 /\ j # 1 + 1 => todo'[j].do \in {"service", "rest"}
         /\ x.do \in {"append", "replace", "field", "local"}
         /\ x.do # "local" => (At(x.target) \in Object => At(x.target) \in HeldValues)
         /\ \/ q.do = "retain" /\ (q.value \in Object => q.value \in HeldValues)
            \/ q.do = "take" /\ (x.do # "local" => x.target # q.target)
    BY <1>4, <1>5, <1>7, <1>8
  <1>11. StepForm /\ Sound'
    BY ONLY IInv, <1>2, <1>8, <1>9, <1>10, StoringCall
  <1>12. StoresReady'
    <2>1. MayStore(At(x.target), a.value) /\ a.value # None
      BY <1>1, <1>2, <1>5, <1>7, OperandReady
    <2>2. /\ (q.do = "retain" /\ q.value = a.value) \/ (q.do = "take" /\ reg[q.target] = a.value)
          /\ x.do \in {"append", "replace", "field"} /\ Len(todo') \in Nat
      BY <1>4, <1>7, <1>8
    <2> QED
      <3> PICK c : c = 1
        OBVIOUS
      <3>1. /\ c \in Nat \ {0} /\ c + 1 \in 1..Len(todo') /\ todo'[c] = q /\ todo'[c + 1] = x
            /\ \A j \in 1..Len(todo') : j # c /\ j # c + 1 => todo'[j].do \in {"service", "rest"}
        BY ONLY <1>8, <1>10, c = 1
      <3> QED
        BY ONLY <1>2, <2>1, <2>2, <3>1, StoringFits
  <1> QED
    BY <1>11, <1>12

(* minyar_rc_local and minyar_rc_local_take. *)
LEMMA SetLocalSound ==
    ASSUME IInv, SetLocal, program' = program
    PROVE  StepForm /\ Sound'
  <1>1. PICK i \in Local, a \in Acquiring \cup Taking \cup {[value |-> None, steps |-> <<>>]} :
             i <= frame[Top].localCount /\ Call("local", LocalSteps(i, a))
    BY DEF SetLocal
  <1> PICK x, p : x = Into("local", None, i) /\ p = Rest
    OBVIOUS
  <1>2. Idle /\ CallOnly /\ todo' = a.steps \o <<x, p>>
    BY <1>1, CallFacts DEF Call, LocalSteps
  <1>3. Typed /\ stack # <<>>
    BY <1>2, IdleFacts
  <1>4. i \in 1..frame[Top].localCount /\ i \in Nat
    BY <1>1, <1>2, TopLocals
  <1>5. /\ x \in MicroStep /\ x.do = "local" /\ x.index = i /\ p \in MicroStep /\ p.do = "rest"
    <2>1. "local" \in {"local", "enter", "enterStack"}
      OBVIOUS
    <2>2. x \in MicroStep
      BY <1>4, <2>1, StepForms
    <2> QED
      BY <1>3, <2>2, StepsAre
  <1>6. ASSUME NEW j, todo'[j] = x PROVE TargetReady(j)' /\ FrameReady(j)'
    <2>1. stack' = stack /\ frame' = frame
      BY <1>2 DEF CallOnly, frameVars
    <2> QED
      BY <1>3, <1>4, <1>5, <1>6, <2>1 DEF TargetReady, FrameReady, Top
  <1>7. CASE a \in Acquiring \cup Taking
    <2>1. PICK q \in MicroStep :
             /\ a.steps = <<q>>
             /\ \/ q.do = "retain" /\ (q.value \in Object => q.value \in HeldValues)
                \/ q.do = "take" /\ q.target \in Results /\ q.target \in Register
                   /\ q.target \notin Object
      BY <1>2, <1>7, OperandReady
    <2>2. todo' \in Seq(MicroStep) /\ Len(todo') = 3 /\ todo'[1] = q /\ todo'[2] = x /\ todo'[3] = p
      BY <1>2, <1>5, <2>1
    <2>3. /\ 1 \in Nat \ {0} /\ 1 + 1 \in 1..Len(todo') /\ todo'[1 + 1] = x
          /\ \A j \in 1..Len(todo') : j # 1 /\ j # 1 + 1 => todo'[j].do \in {"service", "rest"}
          /\ x.do \in {"append", "replace", "field", "local"}
          /\ x.do # "local" => (At(x.target) \in Object => At(x.target) \in HeldValues)
          /\ \/ q.do = "retain" /\ (q.value \in Object => q.value \in HeldValues)
             \/ q.do = "take" /\ (x.do # "local" => x.target # q.target)
          /\ TargetReady(1 + 1)' /\ FrameReady(1 + 1)'
      BY <1>5, <1>6, <2>1, <2>2
    <2> QED
      BY ONLY IInv, <1>2, <2>2, <2>3, StoringCall
  <1>8. CASE a = [value |-> None, steps |-> <<>>]
    <2>1. todo' = <<>> \o <<x, p>>
      BY <1>2, <1>8
    <2>2. todo' \in Seq(MicroStep) /\ Len(todo') = 2 /\ todo'[1] = x /\ todo'[2] = p
      BY <1>5, <2>1
    <2>3. /\ 1 \in 1..Len(todo')
          /\ x.do \in {"service", "references", "local", "enter", "enterStack", "grow"}
          /\ \A j \in 1..Len(todo') : j # 1 => todo'[j].do \in {"service", "rest"}
          /\ x.do = "grow" => \A j \in 1..Len(todo') : j # 1 => todo'[j].do = "service"
          /\ x.do \in Targeted => (At(x.target) \in Object => At(x.target) \in HeldValues)
          /\ TargetReady(1)' /\ FrameReady(1)'
      BY <1>5, <1>6, <2>2 DEF Targeted
    <2> QED
      BY ONLY IInv, <1>2, <2>2, <2>3, SingleCall
  <1> QED
    BY <1>1, <1>7, <1>8

(* The calls that only allocate, poll, promote a List or open a frame.     *)
LEMMA NewValueSound ==
    ASSUME IInv, NewRecord \/ NewScalarRecord \/ NewList \/ NewText, program' = program
    PROVE  StepForm /\ Sound'
  <1>1. Typed /\ 0 \in 0..MaxWidth
    BY ConstantsAssumption DEF IInv, Sound
  <1>2. CASE NewRecord
    <2>1. PICK r \in EmptyRegisters, n \in 0..Width :
               Call("record", <<Poll, Allocate(r, "RECORD", n)>>)
      BY <1>2 DEF NewRecord
    <2>2. n \in 0..MaxWidth /\ "RECORD" \in NewKinds
      BY <1>1, WidthBound DEF NewKinds
    <2>3. \/ "RECORD" = "RECORD" \/ n = 0
      OBVIOUS
    <2>4. <<Poll, Allocate(r, "RECORD", n)>> \in {<<Poll, Allocate(r, "RECORD", n)>>, <<Poll, Poll, Allocate(r, "RECORD", n)>>}
      OBVIOUS
    <2> QED
      BY <2>1, <2>2, <2>4, AllocationSound
  <1>3. CASE NewScalarRecord
    <2>1. PICK r \in EmptyRegisters : Call("scalar", <<Poll, Allocate(r, "SCALAR_RECORD", 0)>>)
      BY <1>3 DEF NewScalarRecord
    <2>2. "SCALAR_RECORD" \in NewKinds
      BY DEF NewKinds
    <2> QED
      BY <1>1, <2>1, <2>2, AllocationSound
  <1>4. CASE NewList
    <2>1. PICK r \in EmptyRegisters : Call("list", <<Poll, Allocate(r, "LIST", 0)>>)
      BY <1>4 DEF NewList
    <2>2. "LIST" \in NewKinds
      BY DEF NewKinds
    <2> QED
      BY <1>1, <2>1, <2>2, AllocationSound
  <1>5. CASE NewText
    <2>1. PICK r \in EmptyRegisters : Call("text", <<Poll, Poll, Allocate(r, "TEXT", 0)>>)
      BY <1>5 DEF NewText, TextSteps
    <2>2. "TEXT" \in NewKinds
      BY DEF NewKinds
    <2> QED
      BY <1>1, <2>1, <2>2, AllocationSound
  <1> QED
    BY <1>2, <1>3, <1>4, <1>5

(* A scalar field is set: a service point only. *)
LEMMA RecordSetScalarSound ==
    ASSUME IInv, RecordSetScalar, program' = program
    PROVE  StepForm /\ Sound'
  <1>1. Call("record", <<Poll>>)
    BY DEF RecordSetScalar
  <1> PICK x : x = Poll
    OBVIOUS
  <1>2. Idle /\ CallOnly /\ todo' = <<x>>
    BY <1>1, CallFacts DEF Call
  <1>3. x \in MicroStep /\ x.do = "service"
    BY <1>2, IdleFacts, StepsAre
  <1>4. todo' \in Seq(MicroStep) /\ Len(todo') = 1 /\ todo'[1] = x
    BY <1>2, <1>3
  <1>5. TargetReady(1)' /\ FrameReady(1)'
    BY <1>3, <1>4 DEF TargetReady, FrameReady
  <1> QED
    BY <1>2, <1>3, <1>4, <1>5, SingleCall DEF Targeted

(* A List is told that it holds references. *)
LEMMA ListReferencesSound ==
    ASSUME IInv, ListReferences, program' = program
    PROVE  StepForm /\ Sound'
  <1>1. PICK l \in Operand : Mortal(l) /\ kind[l] = "LIST" /\ Call("list", <<Into("references", l, 0)>>)
    BY DEF ListReferences
  <1> PICK x : x = Into("references", l, 0)
    OBVIOUS
  <1>2. Idle /\ CallOnly /\ todo' = <<x>>
    BY <1>1, CallFacts DEF Call
  <1>3. l \in Object /\ l \in HeldValues /\ At(l) = l
    BY <1>1, OperandFacts, TargetIsObject DEF Mortal
  <1>4. x \in MicroStep /\ x.do = "references" /\ x.target = l
    <2>1. "references" \in {"append", "references"} /\ 0 \in Nat
      OBVIOUS
    <2>2. x \in MicroStep
      BY <1>3, <2>1, StepForms
    <2> QED
      BY <1>2, <2>2, IdleFacts, StepsAre
  <1>5. todo' \in Seq(MicroStep) /\ Len(todo') = 1 /\ todo'[1] = x
    BY <1>2, <1>4
  <1>6. TargetReady(1)' /\ FrameReady(1)'
    <2>1. At(x.target)' = l /\ kind' = kind
      BY <1>2, <1>3, <1>4, SlotAssumption DEF At, CallOnly, heapVars
    <2> QED
      BY <1>1, <1>3, <1>4, <1>5, <2>1 DEF TargetReady, FrameReady
  <1> QED
    BY <1>2, <1>3, <1>4, <1>5, <1>6, SingleCall

(* A function is entered. *)
LEMMA OpeningSound ==
    ASSUME IInv, Enter \/ EnterStack, program' = program
    PROVE  StepForm /\ Sound'
  <1>1. PICK n \in 0..ProgramLocals, name, k \in {"enter", "enterStack"} :
             /\ Call(name, <<Poll, Into(k, None, n)>>)
             /\ CanOpenFrame \/ (k = "enter" /\ freeFrames # <<>>)
    <2>1. CASE Enter
      BY <2>1 DEF Enter, EnterSteps
    <2>2. CASE EnterStack
      <3>1. PICK n \in 0..ProgramLocals :
              /\ CanOpenFrame
              /\ Call("enterStack", IF FitsStack(n)
                              THEN <<Poll, Into("enterStack", None, n)>>
                              ELSE EnterSteps(n))
        BY <2>2 DEF EnterStack
      <3>2. CASE FitsStack(n)
        BY <3>1, <3>2
      <3>3. CASE ~ FitsStack(n)
        BY <3>1, <3>3 DEF EnterSteps
      <3> QED
        BY <3>2, <3>3
    <2> QED
      BY <2>1, <2>2
  <1> PICK x, p : x = Into(k, None, n) /\ p = Poll
    OBVIOUS
  <1>2. Idle /\ CallOnly /\ todo' = <<p, x>>
    BY <1>1, CallFacts DEF Call
  <1>3. Typed
    BY <1>2, IdleFacts
  <1>4. n \in 0..MaxLocals /\ n \in Nat
    <2>1. ProgramLocals \in 0..MaxLocals /\ MaxLocals \in Nat
      BY <1>3, ConstantsAssumption DEF Typed, ProgramLocals
    <2> QED
      BY <2>1
  <1>5. x \in MicroStep /\ x.do = k /\ x.index = n /\ p \in MicroStep /\ p.do = "service"
    <2>1. k \in {"local", "enter", "enterStack"}
      OBVIOUS
    <2>2. x \in MicroStep
      BY <1>4, <2>1, StepForms
    <2> QED
      BY <1>3, <2>2, StepsAre
  <1>6. CanOpenFrame => UnusedFrames # {}
    <2>1. SUFFICES ASSUME CanOpenFrame, UnusedFrames = {} PROVE FALSE
      OBVIOUS
    <2>2. Cardinality(Frame) < MaxFrames
      BY <2>1 DEF CanOpenFrame
    <2>3. MaxFrames \in 0..Cardinality(Frame)
      BY <1>3, ConstantsAssumption DEF Typed, MaxFrames
    <2>4. Cardinality(Frame) \in Nat
      BY ConstantsAssumption, FS_CardinalityType
    <2> QED
      BY <2>2, <2>3, <2>4
  <1>7. todo' \in Seq(MicroStep) /\ Len(todo') = 2 /\ todo'[1] = p /\ todo'[2] = x
    BY <1>2, <1>5
  <1>8. TargetReady(2)' /\ FrameReady(2)'
    <2>1. freeFrames' = freeFrames /\ UnusedFrames' = UnusedFrames
      BY <1>2 DEF CallOnly, frameVars, UnusedFrames
    <2> QED
      BY <1>1, <1>4, <1>5, <1>6, <1>7, <2>1 DEF TargetReady, FrameReady
  <1>9. /\ 2 \in 1..Len(todo')
        /\ x.do \in {"service", "references", "local", "enter", "enterStack", "grow"}
        /\ \A j \in 1..Len(todo') : j # 2 => todo'[j].do \in {"service", "rest"}
        /\ x.do = "grow" => \A j \in 1..Len(todo') : j # 2 => todo'[j].do = "service"
        /\ x.do \in Targeted => (At(x.target) \in Object => At(x.target) \in HeldValues)
    BY <1>5, <1>7 DEF Targeted
  <1> QED
    BY ONLY IInv, <1>2, <1>7, <1>8, <1>9, SingleCall

LEMMA RetainedResultSound ==
    ASSUME IInv, NEW r \in EmptyRegisters, NEW v \in Operand, NEW name,
           Call(name, <<Retain(v), Result(r)>>), program' = program
    PROVE  StepForm /\ Sound'
  <1> PICK q, x : q = Retain(v) /\ x = Result(r)
    OBVIOUS
  <1>1. Idle /\ CallOnly /\ todo' = <<q, x>>
    BY CallFacts DEF Call
  <1>2. Typed /\ hand = None
    BY <1>1, IdleFacts
  <1>3. v \in Value /\ (v \in Object => v \in HeldValues) /\ r \in Register /\ reg[r] = None
    BY OperandFacts DEF EmptyRegisters, Results
  <1>4. /\ q \in MicroStep /\ q.do = "retain" /\ q.value = v
        /\ x \in MicroStep /\ x.do = "result" /\ x.target = r
    <2>1. "result" \in {"result", "take", "release", "backing", "grow"} /\ 0 \in Nat
      OBVIOUS
    <2>2. q \in MicroStep /\ x \in MicroStep
      BY <1>3, <2>1, StepForms DEF Result
    <2> QED
      BY <2>2 DEF Retain, Result, Into
  <1>5. /\ todo' \in Seq(MicroStep) /\ Len(todo') = 2 /\ todo'[1] = q /\ todo'[2] = x
        /\ \A j \in 1..Len(todo') : j = 1 \/ j = 2
    BY <1>1, <1>4
  <1>6. StepsFormed'
    <2>1. Ends(2)'
      BY <1>4, <1>5 DEF Ends, Consumes
    <2> QED
      BY <1>1, <1>2, <1>4, <1>5, <2>1 DEF StepsFormed, Closing, Fills, Acquires, Targeted, CallOnly
  <1>7. ASSUME NEW j \in 1..Len(todo')
        PROVE  StepReady(j)' /\ (Named(j) \cap Object)' \subseteq HeldValues
    <2>1. CASE j = 1
      BY <1>3, <1>4, <1>5, <2>1
         DEF StepReady, RegisterReady, TargetReady, FrameReady, Named
    <2>2. CASE j = 2
      <3>1. reg' = reg
        BY <1>1 DEF CallOnly
      <3> QED
        BY <1>3, <1>4, <1>5, <2>2, <3>1
           DEF StepReady, RegisterReady, TargetReady, FrameReady, Named, Targeted
    <2> QED
      BY <1>5, <2>1, <2>2
  <1> QED
    BY <1>1, <1>4, <1>5, <1>6, <1>7, CalledSound

LEMMA ViewSound ==
    ASSUME IInv, NEW r \in EmptyRegisters, NEW t \in Texts,
           NEW z \in Indexing,
           Call("slice", <<z, Poll, Allocate(r, "TEXT", 0), Retain(TextRoot(t)), Into("backing", r, 0)>>),
           program' = program
    PROVE  StepForm /\ Sound'
  <1> PICK v : v = TextRoot(t)
    OBVIOUS
  <1> PICK p, s, q, x : /\ p = Poll /\ s = Allocate(r, "TEXT", 0) /\ q = Retain(v)
                        /\ x = Into("backing", r, 0)
    OBVIOUS
  <1>1. Idle /\ CallOnly /\ todo' = <<z, p, s, q, x>>
    BY CallFacts DEF Call
  <1>2. Typed /\ hand = None /\ None \notin Object
    BY <1>1, IdleFacts
  <1>3. r \in Register /\ reg[r] = None
    BY DEF EmptyRegisters, Results
  <1>4. v \in Value /\ (v \in Object => v \in HeldValues)
    <2>1. t \in Operand
      BY DEF Texts
    <2>2. t \in Value /\ (t \in Object => t \in HeldValues)
      BY <2>1, OperandFacts
    <2>3. CASE t \in Object /\ fields[t] # <<>>
      <3>1. fields[t] \in Seq(Value) /\ 1 \in 1..Len(fields[t])
        BY <1>2, <2>3, ToSetIn DEF Typed
      <3> QED
        BY <2>2, <2>3, <3>1, FieldsHeld DEF TextRoot, Mortal
    <2>4. CASE ~ (t \in Object /\ fields[t] # <<>>)
      BY <2>2, <2>4 DEF TextRoot, Mortal
    <2> QED
      BY <2>3, <2>4
  <1>5. /\ p \in MicroStep /\ p.do = "service"
        /\ s \in MicroStep /\ s.do = "allocate" /\ s.reg = r /\ s.kind = "TEXT"
        /\ q \in MicroStep /\ q.do = "retain" /\ q.value = v
        /\ x \in MicroStep /\ x.do = "backing" /\ x.target = r
        /\ z \in MicroStep /\ z.do = "service"
    <2>1. "backing" \in {"result", "take", "release", "backing", "grow"} /\ 0 \in Nat
          /\ "TEXT" \in NewKinds
      BY DEF NewKinds
    <2>2. s \in MicroStep /\ q \in MicroStep /\ x \in MicroStep
      BY <1>3, <1>4, <2>1, StepForms
    <2> QED
      BY <1>2, <2>2, PollFacts, IndexingFacts DEF Allocate, Retain, Into
  <1>6. /\ todo' \in Seq(MicroStep) /\ Len(todo') = 5
        /\ todo'[1] = z /\ todo'[2] = p /\ todo'[3] = s /\ todo'[4] = q /\ todo'[5] = x
        /\ \A j \in 1..Len(todo') : j \in {1, 2, 3, 4, 5}
    BY <1>1, <1>5
  <1>7. StepsFormed'
    <2>1. Ends(4 + 1)'
      BY <1>5, <1>6 DEF Ends, Consumes
    <2> QED
      BY <1>1, <1>2, <1>5, <1>6, <2>1 DEF StepsFormed, Closing, Fills, Acquires, Targeted, CallOnly
  <1>8. ASSUME NEW j \in 1..Len(todo')
        PROVE  StepReady(j)' /\ (Named(j) \cap Object)' \subseteq HeldValues
    <2>0. reg' = reg
      BY <1>1 DEF CallOnly
    <2>1. CASE j = 1 \/ j = 2
      BY <1>5, <1>6, <2>1, PlainReady, UnframedReady DEF StepReady
    <2>2. CASE j = 3
      BY <1>3, <1>5, <1>6, <2>0, <2>2
         DEF StepReady, RegisterReady, TargetReady, FrameReady, Named, Targeted
    <2>3. CASE j = 4
      BY <1>4, <1>5, <1>6, <2>3
         DEF StepReady, RegisterReady, TargetReady, FrameReady, Named
    <2>4. CASE j = 5
      <3>1. Promised(r, "TEXT", 5)'
        BY <1>5, <1>6 DEF Promised
      <3>2. At(x.target)' \notin Object
        BY <1>2, <1>3, <1>5, <2>0 DEF At
      <3> QED
        BY <1>5, <1>6, <2>4, <3>1, <3>2
           DEF StepReady, RegisterReady, TargetReady, FrameReady, Named, Targeted
    <2> QED
      BY <1>6, <2>1, <2>2, <2>3, <2>4
  <1> QED
    BY <1>1, <1>5, <1>6, <1>7, <1>8, CalledSound

(* A slice of all of a Text is the Text itself. *)
LEMMA SharedSliceSound ==
    ASSUME IInv, NEW r \in EmptyRegisters, NEW v \in Operand, NEW z \in Indexing,
           Call("slice", <<z, Retain(v), Result(r)>>), program' = program
    PROVE  StepForm /\ Sound'
  <1> PICK q, x : q = Retain(v) /\ x = Result(r)
    OBVIOUS
  <1>1. Idle /\ CallOnly /\ todo' = <<z, q, x>>
    BY CallFacts DEF Call
  <1>2. Typed /\ hand = None
    BY <1>1, IdleFacts
  <1>3. v \in Value /\ (v \in Object => v \in HeldValues) /\ r \in Register /\ reg[r] = None
    BY OperandFacts DEF EmptyRegisters, Results
  <1>4. /\ q \in MicroStep /\ q.do = "retain" /\ q.value = v
        /\ x \in MicroStep /\ x.do = "result" /\ x.target = r
        /\ z \in MicroStep /\ z.do = "service"
    <2>1. "result" \in {"result", "take", "release", "backing", "grow"} /\ 0 \in Nat
      OBVIOUS
    <2>2. q \in MicroStep /\ x \in MicroStep
      BY <1>3, <2>1, StepForms DEF Result
    <2> QED
      BY <1>2, <2>2, IndexingFacts DEF Retain, Result, Into
  <1>5. /\ todo' \in Seq(MicroStep) /\ Len(todo') = 3
        /\ todo'[1] = z /\ todo'[2] = q /\ todo'[3] = x
        /\ \A j \in 1..Len(todo') : j = 1 \/ j = 2 \/ j = 3
    BY <1>1, <1>4
  <1>6. StepsFormed'
    <2>1. Ends(2 + 1)'
      BY <1>4, <1>5 DEF Ends, Consumes
    <2> QED
      BY <1>1, <1>2, <1>4, <1>5, <2>1 DEF StepsFormed, Closing, Fills, Acquires, Targeted, CallOnly
  <1>7. ASSUME NEW j \in 1..Len(todo')
        PROVE  StepReady(j)' /\ (Named(j) \cap Object)' \subseteq HeldValues
    <2>1. CASE j = 1
      BY <1>4, <1>5, <2>1, PlainReady, UnframedReady DEF StepReady
    <2>2. CASE j = 2
      BY <1>3, <1>4, <1>5, <2>2
         DEF StepReady, RegisterReady, TargetReady, FrameReady, Named
    <2>3. CASE j = 3
      <3>1. reg' = reg
        BY <1>1 DEF CallOnly
      <3> QED
        BY <1>3, <1>4, <1>5, <2>3, <3>1
           DEF StepReady, RegisterReady, TargetReady, FrameReady, Named, Targeted
    <2> QED
      BY <1>5, <2>1, <2>2, <2>3
  <1> QED
    BY <1>1, <1>4, <1>5, <1>6, <1>7, CalledSound

(* A slice that shares, and minyar_rc_retain of a returned value. *)
LEMMA SharingSound ==
    ASSUME IInv, TextSlice \/ RetainResult, program' = program
    PROVE  StepForm /\ Sound'
  <1>1. CASE RetainResult
    BY <1>1, RetainedResultSound DEF RetainResult
  <1>2. CASE TextSlice
    <2>1. PICK r \in EmptyRegisters, t \in Texts, z \in Indexing :
        \/ Call("slice", <<z, Retain(t), Result(r)>>)
        \/ Call("slice", <<z>> \o TextSteps(r))
        \/ Call("slice", <<z, Poll, Allocate(r, "TEXT", 0), Retain(TextRoot(t)),
                              Into("backing", r, 0)>>)
      BY <1>2 DEF TextSlice
    <2>2. CASE Call("slice", <<z, Retain(t), Result(r)>>)
      BY <2>2, SharedSliceSound DEF Texts
    <2>3. CASE Call("slice", <<z>> \o TextSteps(r))
      <3>1. "TEXT" \in NewKinds /\ 0 \in 0..MaxWidth
        BY ConstantsAssumption DEF NewKinds
      <3>2. Call("slice", <<z, Poll, Poll, Allocate(r, "TEXT", 0)>>)
        BY <2>3, IndexedText
      <3> QED
        BY <3>1, <3>2, AllocationSound
    <2> QED
      BY <2>1, <2>2, <2>3, ViewSound
  <1> QED
    BY <1>1, <1>2

(* minyar_join_text_take_left. *)
LEMMA JoinSound ==
    ASSUME IInv, JoinTakeLeft, program' = program
    PROVE  StepForm /\ Sound'
  <1>1. PICK r \in Results :
          \/ /\ ReusesLeft(reg[r])
             /\ \E steps \in {<<>>, <<Poll>>} : Call("join", steps \o <<Into("grow", r, 0)>>)
          \/ \E q \in EmptyRegisters : Call("join", TextSteps(q) \o <<Into("release", r, 0), Rest>>)
    BY DEF JoinTakeLeft
  <1>2. Idle
    BY <1>1 DEF Call
  <1>3. Typed /\ hand = None /\ r \in Register
    BY <1>2, IdleFacts DEF Results
  <1> PICK p : p = Poll
    OBVIOUS
  <1>4. p \in MicroStep /\ p.do = "service"
    BY <1>3, PollFacts
  <1>5. CASE ReusesLeft(reg[r]) /\ \E steps \in {<<>>, <<Poll>>} :
                                       Call("join", steps \o <<Into("grow", r, 0)>>)
    <2> PICK x : x = Into("grow", r, 0)
      OBVIOUS
    <2>1. x \in MicroStep /\ x.do = "grow" /\ x.target = r
      <3>1. "grow" \in {"result", "take", "release", "backing", "grow"} /\ 0 \in Nat
        OBVIOUS
      <3>2. x \in MicroStep
        BY <1>3, <3>1, StepForms
      <3> QED
        BY <3>2 DEF Into
    <2>2. CallOnly /\ (todo' = <<>> \o <<x>> \/ todo' = <<p>> \o <<x>>)
      BY <1>5, CallFacts
    <2>3. PICK c \in {1, 2} : /\ todo' \in Seq(MicroStep) /\ Len(todo') = c /\ todo'[c] = x
                              /\ c = 2 => todo'[1] = p
      <3>1. CASE todo' = <<>> \o <<x>>
        <4>1. todo' \in Seq(MicroStep) /\ Len(todo') = 1 /\ todo'[1] = x
          BY <2>1, <3>1
        <4> QED
          BY <4>1
      <3>2. CASE todo' = <<p>> \o <<x>>
        <4>1. todo' \in Seq(MicroStep) /\ Len(todo') = 2 /\ todo'[1] = p /\ todo'[2] = x
          BY <1>4, <2>1, <3>2
        <4> QED
          BY <4>1
      <3> QED
        BY <2>2, <3>1, <3>2
    <2>4. reg[r] \in Object /\ count[reg[r]] = 1 /\ reg[r] \in HeldValues /\ At(r) = reg[r]
      <3>1. reg[r] \in Object /\ count[reg[r]] = 1 /\ reg[r] \in HeldByProgram
        BY <1>3, <1>5 DEF ReusesLeft, Mortal, HeldByProgram
      <3> QED
        BY <1>3, <3>1, ProgramHolds DEF At
    <2>5. TargetReady(c)' /\ FrameReady(c)'
      <3>1. At(r)' = reg[r] /\ count' = count
        BY <1>3, <2>2 DEF At, CallOnly, heapVars
      <3> QED
        BY <2>1, <2>3, <2>4, <3>1 DEF TargetReady, FrameReady
    <2>6. /\ c \in 1..Len(todo')
          /\ x.do \in {"service", "references", "local", "enter", "enterStack", "grow"}
          /\ \A j \in 1..Len(todo') : j # c => todo'[j].do \in {"service", "rest"}
          /\ x.do = "grow" => \A j \in 1..Len(todo') : j # c => todo'[j].do = "service"
          /\ x.do \in Targeted => (At(x.target) \in Object => At(x.target) \in HeldValues)
      BY <1>4, <2>1, <2>3, <2>4
    <2> QED
      BY ONLY IInv, <1>2, <2>2, <2>3, <2>5, <2>6, SingleCall
  <1>6. CASE \E q \in EmptyRegisters :
                Call("join", TextSteps(q) \o <<Into("release", r, 0), Rest>>)
    <2>1. PICK q \in EmptyRegisters :
             Call("join", TextSteps(q) \o <<Into("release", r, 0), Rest>>)
      BY <1>6
    <2> PICK s, x, z : s = Allocate(q, "TEXT", 0) /\ x = Into("release", r, 0) /\ z = Rest
      OBVIOUS
    <2>2. CallOnly /\ todo' = <<p, p, s>> \o <<x, z>>
      BY <2>1, CallFacts DEF TextSteps
    <2>3. q \in Register /\ reg[q] = None
      BY DEF EmptyRegisters, Results
    <2>4. /\ s \in MicroStep /\ s.do = "allocate" /\ s.reg = q
          /\ x \in MicroStep /\ x.do = "release" /\ z \in MicroStep /\ z.do = "rest"
      <3>1. "release" \in {"result", "take", "release", "backing", "grow"} /\ 0 \in Nat
            /\ "TEXT" \in NewKinds
        BY DEF NewKinds
      <3>2. s \in MicroStep /\ x \in MicroStep
        BY <1>3, <2>3, <3>1, StepForms
      <3> QED
        BY <1>3, <3>2, StepsAre DEF Allocate
    <2>5. /\ todo' \in Seq(MicroStep) /\ Len(todo') = 5
          /\ todo'[1] = p /\ todo'[2] = p /\ todo'[3] = s /\ todo'[4] = x /\ todo'[5] = z
      BY <1>4, <2>2, <2>4
    <2>6. \A j \in 1..Len(todo') : j \in {1, 2, 3, 4, 5}
      BY <2>5
    <2>7. StepsFormed'
      BY <1>3, <1>4, <2>2, <2>4, <2>5, <2>6
         DEF StepsFormed, Closing, Fills, Acquires, Targeted, CallOnly
    <2>8. ASSUME NEW j \in 1..Len(todo') PROVE StepReady(j)' /\ Named(j)' = {}
      <3>1. CASE j = 3
        <4>1. reg' = reg
          BY <2>2 DEF CallOnly
        <4> QED
          BY <2>3, <2>4, <2>5, <3>1, <4>1
             DEF StepReady, RegisterReady, TargetReady, FrameReady, Named, Targeted
      <3>2. CASE j # 3
        <4>1. todo'[j].do \in {"service", "rest", "release"}
          BY <1>4, <2>4, <2>5, <2>6, <3>2
        <4> QED
          BY <4>1, PlainReady, UnframedReady DEF StepReady
      <3> QED
        BY <3>1, <3>2
    <2> QED
      BY <1>2, <1>4, <2>2, <2>5, <2>7, <2>8, CalledSound
  <1> QED
    BY <1>1, <1>5, <1>6

(* minyar_rc_keep and minyar_rc_borrow. *)
LEMMA KeepSound ==
    ASSUME IInv, Keep, program' = program
    PROVE  StepForm /\ Sound'
  <1>1. PICK a \in Acquiring \cup Taking :
          /\ ChunkFull => UnusedChunks # {}
          /\ Call("keep", a.steps
                        \o (IF ChunkFull THEN <<Poll, Op("chunk")>> ELSE <<>>)
                        \o <<Op("hold"), Poll>>)
    BY DEF Keep
  <1> PICK p, k, h, g : /\ p = Poll /\ k = Op("chunk") /\ h = Op("hold")
                        /\ g = IF ChunkFull THEN <<p, k>> ELSE <<>>
    OBVIOUS
  <1>2. Idle /\ CallOnly /\ todo' = (a.steps \o g) \o <<h, p>>
    BY <1>1, CallFacts DEF Call
  <1>3. Typed /\ hand = None /\ stack # <<>> /\ FrameSound /\ ChunkSound
    BY <1>2, IdleFacts
  <1>4. PICK q \in MicroStep :
           /\ a.steps = <<q>>
           /\ \/ q.do = "retain" /\ (q.value \in Object => q.value \in HeldValues)
              \/ q.do = "take" /\ q.target \in Results /\ q.target \in Register
                 /\ q.target \notin Object
    BY <1>2, OperandReady
  <1>5. /\ p \in MicroStep /\ p.do = "service" /\ k \in MicroStep /\ k.do = "chunk"
        /\ h \in MicroStep /\ h.do = "hold"
    <2>1. "chunk" \in {"rest", "chunk", "hold", "stop"} /\ "hold" \in {"rest", "chunk", "hold", "stop"}
      OBVIOUS
    <2>2. k \in MicroStep /\ h \in MicroStep
      BY <2>1, StepForms
    <2> QED
      BY <1>3, <2>2, PollFacts DEF Op
  <1>6. /\ stack' = stack /\ frame' = frame /\ chunk' = chunk /\ hand' = None
        /\ UnusedChunks' = UnusedChunks
    BY <1>2, <1>3 DEF CallOnly, frameVars, chunkVars, UnusedChunks, UsedChunks
  <1>7. /\ \/ q.do = "retain" /\ (q.value \in Object => q.value \in HeldValues)
           \/ q.do = "take"
    BY <1>4
  <1>8. CASE ChunkFull
    <2> PICK s : s = <<q>> \o <<p, k>>
      OBVIOUS
    <2>1. s \in Seq(MicroStep) /\ Len(s) = 3 /\ s[1] = q /\ s[2] = p /\ s[3] = k
      BY <1>5
    <2>2. todo' = s \o <<h, p>>
      BY <1>2, <1>4, <1>8
    <2>3. /\ todo' \in Seq(MicroStep) /\ Len(todo') = 5
          /\ todo'[1] = q /\ todo'[2] = p /\ todo'[3] = k /\ todo'[4] = h /\ todo'[5] = p
      BY <1>5, <2>1, <2>2
    <2>4. \A j \in 1..Len(todo') : j \in {1, 2, 3, 4, 5}
      BY <2>3
    <2>5. StepsFormed'
      <3>1. Ends(1 + 1)'
        BY <1>5, <2>3 DEF Ends, Does
      <3>2. Does(3 + 1, "hold")'
        BY <1>5, <2>3 DEF Does
      <3>3. ASSUME NEW i \in 1..Len(todo'), NEW j \in 1..Len(todo'), i < j
            PROVE  /\ todo'[i].do \in Closing => todo'[j].do \in {"rest", "service"}
                   /\ ~ (todo'[i].do \in Fills /\ todo'[j].do \in Fills)
                   /\ todo'[j].do # "dropLocals"
                   /\ ~ (todo'[i].do = "append" /\ todo'[j].do = "append")
                   /\ todo'[j].do \notin Targeted
                   /\ todo'[j].do # "grow"
        BY <1>5, <1>7, <2>3, <2>4, <3>3 DEF Closing, Fills, Targeted
      <3>4. ASSUME NEW i \in 1..Len(todo')
            PROVE  /\ todo'[i].do \in Acquires => Ends(i + 1)'
                   /\ todo'[i].do = "chunk" => Does(i + 1, "hold")'
        BY <1>5, <1>7, <2>3, <2>4, <3>1, <3>2 DEF Acquires
      <3> QED
        BY <1>6, <3>3, <3>4 DEF StepsFormed
    <2>6. ASSUME NEW j \in 1..Len(todo')
          PROVE  StepReady(j)' /\ (Named(j) \cap Object)' \subseteq HeldValues
      <3>1. CASE j = 1
        BY <1>7, <2>3, <3>1
           DEF StepReady, RegisterReady, TargetReady, FrameReady, Named, Targeted
      <3>2. CASE j \in {2, 5}
        BY <1>5, <2>3, <3>2, PlainReady, UnframedReady DEF StepReady
      <3>3. CASE j = 3
        <4>1. FrameReady(j)'
          BY <1>1, <1>3, <1>5, <1>6, <1>8, <2>3, <3>3 DEF FrameReady
        <4> QED
          BY <1>5, <2>3, <3>3, <4>1, PlainReady DEF StepReady
      <3>4. CASE j = 4
        <4>1. FrameReady(j)'
          BY <1>3, <1>5, <1>6, <2>3, <3>4 DEF FrameReady
        <4> QED
          BY <1>5, <2>3, <3>4, <4>1, PlainReady DEF StepReady
      <3> QED
        BY <2>4, <3>1, <3>2, <3>3, <3>4
    <2>7. todo'[1].do # "dropLocals"
      BY <1>7, <2>3
    <2> QED
      BY <1>2, <2>3, <2>5, <2>6, <2>7, CalledSound
  <1>9. CASE ~ ChunkFull
    <2>1. <<q>> \o <<>> = <<q>> /\ g = <<>>
      BY <1>9
    <2>2. todo' = <<q>> \o <<h, p>>
      BY <1>2, <1>4, <2>1
    <2>3. /\ todo' \in Seq(MicroStep) /\ Len(todo') = 3
          /\ todo'[1] = q /\ todo'[2] = h /\ todo'[3] = p
      BY <1>5, <2>2
    <2>4. \A j \in 1..Len(todo') : j \in {1, 2, 3}
      BY <2>3
    <2>5. StepsFormed'
      <3>1. Ends(1 + 1)'
        BY <1>5, <2>3 DEF Ends, Consumes
      <3>3. ASSUME NEW i \in 1..Len(todo'), NEW j \in 1..Len(todo'), i < j
            PROVE  /\ todo'[i].do \in Closing => todo'[j].do \in {"rest", "service"}
                   /\ ~ (todo'[i].do \in Fills /\ todo'[j].do \in Fills)
                   /\ todo'[j].do # "dropLocals"
                   /\ ~ (todo'[i].do = "append" /\ todo'[j].do = "append")
                   /\ todo'[j].do \notin Targeted
                   /\ todo'[j].do # "grow"
        BY <1>5, <1>7, <2>3, <2>4, <3>3 DEF Closing, Fills, Targeted
      <3>4. ASSUME NEW i \in 1..Len(todo')
            PROVE  /\ todo'[i].do \in Acquires => Ends(i + 1)'
                   /\ todo'[i].do # "chunk"
        BY <1>5, <1>7, <2>3, <2>4, <3>1 DEF Acquires
      <3> QED
        BY <1>6, <3>3, <3>4 DEF StepsFormed
    <2>6. ASSUME NEW j \in 1..Len(todo')
          PROVE  StepReady(j)' /\ (Named(j) \cap Object)' \subseteq HeldValues
      <3>1. CASE j = 1
        BY <1>7, <2>3, <3>1
           DEF StepReady, RegisterReady, TargetReady, FrameReady, Named, Targeted
      <3>2. CASE j = 3
        BY <1>5, <2>3, <3>2, PlainReady, UnframedReady DEF StepReady
      <3>3. CASE j = 2
        <4>1. frame[Top].temps # <<>> /\ Len(chunk[Last(frame[Top].temps)]) # ChunkSlots
          BY <1>9 DEF ChunkFull
        <4>2. Len(chunk[Last(frame[Top].temps)]) < ChunkSlots
          <5>1. Last(frame[Top].temps) \in Chunk
            BY <1>3, <4>1, TopFacts, FrontFacts
          <5>2. Len(chunk[Last(frame[Top].temps)]) <= ChunkSlots
            BY <1>3, <5>1 DEF ChunkSound
          <5>3. Len(chunk[Last(frame[Top].temps)]) \in Nat
            BY <1>3, <5>1 DEF Typed
          <5> QED
            BY <4>1, <5>2, <5>3, ConstantsAssumption
        <4>3. FrameReady(j)'
          BY <1>3, <1>5, <1>6, <2>3, <3>3, <4>1, <4>2 DEF FrameReady, Top
        <4> QED
          BY <1>5, <2>3, <3>3, <4>3, PlainReady DEF StepReady
      <3> QED
        BY <2>4, <3>1, <3>2, <3>3
    <2>7. todo'[1].do # "dropLocals"
      BY <1>7, <2>3
    <2> QED
      BY <1>2, <2>3, <2>5, <2>6, <2>7, CalledSound
  <1> QED
    BY <1>8, <1>9

LEMMA Thirds ==
    ASSUME NEW n \in Nat, NEW m \in 1..(3 * n)
    PROVE  /\ m % 3 = 1 \/ m % 3 = 2 \/ m % 3 = 0
           /\ m % 3 = 1 => (m + 2) \div 3 \in 1..n /\ (m + 1) % 3 = 2 /\ m + 1 \in 1..(3 * n)
  OBVIOUS

(* An element of a List that the program can name. *)
Copied(v) ==
    /\ v \in Object => v \in HeldValues
    /\ \E l \in Lists : v \in ToSet(fields[l])

(* The copy of a List: a retain, an append and a poll for each element. *)
LEMMA CopyFacts ==
    ASSUME IInv, Idle, NEW l \in Lists, NEW r \in Register
    PROVE  /\ CopySteps(l, r) \in Seq(MicroStep)
           /\ Len(CopySteps(l, r)) = 3 * Len(fields[l])
           /\ \A m \in 1..(3 * Len(fields[l])) :
                 LET c == CopySteps(l, r)[m] IN
                 \/ m % 3 = 1 /\ c.do = "retain" /\ Copied(c.value)
                 \/ m % 3 = 2 /\ c.do = "append" /\ c.target = r
                 \/ m % 3 = 0 /\ c.do = "service"
  <1> PICK n : n = Len(fields[l])
    OBVIOUS
  <1> PICK c : c = CopySteps(l, r)
    OBVIOUS
  <1>1. Typed /\ l \in HeldValues /\ n \in Nat /\ fields[l] \in Seq(Value)
    BY IdleFacts, ListFacts
  <1>2. c = [j \in 1..(3 * n) |->
               CASE j % 3 = 1 -> Retain(fields[l][(j + 2) \div 3])
                 [] j % 3 = 2 -> Into("append", r, 0)
                 [] j % 3 = 0 -> Poll]
    BY DEF CopySteps
  <1>3. ASSUME NEW m \in 1..(3 * n)
        PROVE  /\ c[m] \in MicroStep
               /\ \/ m % 3 = 1 /\ c[m].do = "retain" /\ Copied(c[m].value)
                  \/ m % 3 = 2 /\ c[m].do = "append" /\ c[m].target = r
                  \/ m % 3 = 0 /\ c[m].do = "service"
    <2>1. c[m] = CASE m % 3 = 1 -> Retain(fields[l][(m + 2) \div 3])
                   [] m % 3 = 2 -> Into("append", r, 0)
                   [] m % 3 = 0 -> Poll
      BY <1>2
    <2>2. m % 3 = 1 \/ m % 3 = 2 \/ m % 3 = 0
      BY <1>1, Thirds
    <2>3. CASE m % 3 = 1
      <3> PICK i : i = (m + 2) \div 3
        OBVIOUS
      <3>1. i \in 1..n
        BY <1>1, <2>3, Thirds
      <3>2. fields[l][i] \in Value /\ Copied(fields[l][i])
        <4>1. fields[l][i] \in Value /\ (fields[l][i] \in Object => fields[l][i] \in HeldValues)
          BY <1>1, <3>1, FieldsHeld
        <4>2. fields[l][i] \in ToSet(fields[l])
          <5>1. In(fields[l], fields[l][i])
            BY <3>1 DEF In
          <5> QED
            BY <1>1, <5>1, ToSetIn
        <4> QED
          BY <4>1, <4>2 DEF Copied
      <3>3. c[m] = Retain(fields[l][i])
        BY <2>1, <2>3
      <3>4. Retain(fields[l][i]) \in MicroStep
        BY <3>2, StepForms
      <3> QED
        BY <2>3, <3>2, <3>3, <3>4 DEF Retain
    <2>4. CASE m % 3 = 2
      <3>1. c[m] = Into("append", r, 0)
        BY <2>1, <2>4
      <3>2. Into("append", r, 0) \in MicroStep
        <4>1. "append" \in {"append", "references"} /\ r \in Register \cup Object /\ 0 \in Nat
          OBVIOUS
        <4> QED
          BY <4>1, StepForms
      <3> QED
        BY <2>4, <3>1, <3>2 DEF Into
    <2>5. CASE m % 3 = 0
      <3>1. c[m] = Poll
        BY <2>1, <2>5
      <3> QED
        BY <1>1, <2>5, <3>1, PollFacts
    <2> QED
      BY <2>2, <2>3, <2>4, <2>5
  <1>4. c \in Seq(MicroStep) /\ Len(c) = 3 * n
    <2>1. 3 * n \in Nat /\ \A m \in 1..(3 * n) : c[m] \in MicroStep
      BY <1>1, <1>3
    <2>2. c \in [1..(3 * n) -> MicroStep]
      BY <1>2, <2>1
    <2> QED
      BY ONLY <2>1, <2>2
  <1> QED
    BY <1>3, <1>4

LEMMA GrowthCounted ==
    ASSUME NEW n \in Nat
    PROVE  Cardinality({g \in GrowAt : g <= n}) \in Nat
  <1>1. GrowAt \subseteq Nat
    BY ConstantsAssumption
  <1>2. {g \in GrowAt : g <= n} \subseteq 0..n
    <2> SUFFICES ASSUME NEW g \in GrowAt, g <= n PROVE g \in 0..n
      OBVIOUS
    <2> QED
      BY <1>1
  <1>3. IsFiniteSet(0..n)
    BY FS_Interval
  <1> QED
    BY <1>2, <1>3, FS_Subset, FS_CardinalityType

IsJoin(u, s, t) ==
    /\ u \in Seq(MicroStep) /\ Len(u) = Len(s) + Len(t)
    /\ \A i \in 1..Len(s) : u[i] = s[i]
    /\ \A i \in 1..Len(t) : u[Len(s) + i] = t[i]

LEMMA StepsJoined ==
    ASSUME NEW s \in Seq(MicroStep), NEW t \in Seq(MicroStep)
    PROVE  IsJoin(s \o t, s, t)
  <1>1. /\ s \o t \in Seq(MicroStep) /\ Len(s \o t) = Len(s) + Len(t)
        /\ \A i \in 1..Len(s) : (s \o t)[i] = s[i]
        /\ \A i \in 1..Len(t) : (s \o t)[Len(s) + i] = t[i]
    OBVIOUS
  <1> QED
    BY <1>1 DEF IsJoin

(* What the steps s of minyar_list_appended are, by position. *)
AppendedAs(s, r, n, b) ==
    /\ n < Width /\ b >= 3 /\ Len(s) = b + 3 * n + 3
    /\ s[2].do = "allocate" /\ s[2].reg = r /\ s[2].kind = "LIST"
    /\ s[3].do = "references" /\ s[3].target = r
    /\ \A j \in 1..b : j = 2 \/ j = 3 \/ s[j].do = "service"
    /\ \A m \in 1..(3 * n) :
          \/ m % 3 = 1 /\ s[b + m].do = "retain" /\ Copied(s[b + m].value)
          \/ m % 3 = 2 /\ s[b + m].do = "append" /\ s[b + m].target = r
          \/ m % 3 = 0 /\ s[b + m].do = "service"
    /\ \/ /\ s[b + 3 * n + 1].do = "retain" /\ s[b + 3 * n + 1].value # None
          /\ s[b + 3 * n + 1].value \in Object => s[b + 3 * n + 1].value \in HeldValues
       \/ s[b + 3 * n + 1].do = "take" /\ s[b + 3 * n + 1].target \in Results
    /\ s[b + 3 * n + 2].do = "append" /\ s[b + 3 * n + 2].target = r
    /\ s[b + 3 * n + 3].do = "service"

LEMMA AppendedSteps ==
    ASSUME IInv, ListAppended, program' = program
    PROVE  /\ Idle /\ CallOnly /\ todo' \in Seq(MicroStep)
           /\ \E r \in EmptyRegisters, n \in Nat, b \in Nat : AppendedAs(todo', r, n, b)
  <1>1. PICK r \in EmptyRegisters, l \in Lists, a \in Acquiring \cup Taking :
           /\ Len(fields[l]) < Width
           /\ Call("appended",
                   <<Poll, Allocate(r, "LIST", 0), Into("references", r, 0)>>
                   \o [g \in 1..Cardinality({g \in GrowAt : g <= Len(fields[l])}) |-> Poll]
                   \o CopySteps(l, r) \o a.steps \o <<Into("append", r, 0), Poll>>)
    BY DEF ListAppended
  <1> PICK n, c, G : /\ n = Len(fields[l]) /\ c = CopySteps(l, r)
                     /\ G = Cardinality({g \in GrowAt : g <= Len(fields[l])})
    OBVIOUS
  <1> PICK p, s, f, x : /\ p = Poll /\ s = Allocate(r, "LIST", 0) /\ f = Into("references", r, 0)
                        /\ x = Into("append", r, 0)
    OBVIOUS
  <1> PICK h : h = [g \in 1..G |-> p]
    OBVIOUS
  <1>2. /\ Idle /\ CallOnly
        /\ todo' = <<p, s, f>> \o h \o c \o a.steps \o <<x, p>>
    BY <1>1, CallFacts DEF Call
  <1>3. Typed /\ r \in Register
    BY <1>2, IdleFacts DEF EmptyRegisters
  <1>4. PICK q \in MicroStep :
           /\ a.steps = <<q>>
           /\ \/ /\ q.do = "retain" /\ q.value # None
                 /\ q.value \in Object => q.value \in HeldValues
              \/ q.do = "take" /\ q.target \in Results
    BY <1>2, OperandReady
  <1>5. n \in Nat /\ G \in Nat
    BY <1>2, ListFacts, GrowthCounted
  <1>6. /\ p \in MicroStep /\ p.do = "service"
        /\ s \in MicroStep /\ s.do = "allocate" /\ s.reg = r /\ s.kind = "LIST"
        /\ f \in MicroStep /\ f.do = "references" /\ f.target = r
        /\ x \in MicroStep /\ x.do = "append" /\ x.target = r
    <2>1. /\ "append" \in {"append", "references"} /\ "references" \in {"append", "references"}
          /\ r \in Register \cup Object /\ 0 \in Nat /\ "LIST" \in NewKinds
      BY <1>3 DEF NewKinds
    <2>2. s \in MicroStep /\ f \in MicroStep /\ x \in MicroStep
      BY <1>3, <2>1, StepForms
    <2> QED
      BY <1>3, <2>2, StepsAre DEF Allocate
  <1>7. /\ c \in Seq(MicroStep) /\ Len(c) = 3 * n
        /\ \A m \in 1..(3 * n) :
                 \/ m % 3 = 1 /\ c[m].do = "retain" /\ Copied(c[m].value)
                 \/ m % 3 = 2 /\ c[m].do = "append" /\ c[m].target = r
                 \/ m % 3 = 0 /\ c[m].do = "service"
    BY <1>2, <1>3, CopyFacts
  <1>8. h \in Seq(MicroStep) /\ Len(h) = G /\ \A j \in 1..G : h[j] = p
    BY <1>5, <1>6
  <1> PICK e, b, u, v, w : /\ e = <<p, s, f>> /\ b = 3 + G /\ u = e \o h /\ v = u \o c
                           /\ w = v \o <<q>>
    OBVIOUS
  <1>9. e \in Seq(MicroStep) /\ Len(e) = 3 /\ e[1] = p /\ e[2] = s /\ e[3] = f
    BY <1>6
  <1>10. /\ u \in Seq(MicroStep) /\ Len(u) = b
         /\ (\A j \in 1..3 : u[j] = e[j]) /\ (\A j \in 1..G : u[3 + j] = h[j])
    <2>1. 3 \in Nat /\ G \in Nat /\ e \in Seq(MicroStep) /\ h \in Seq(MicroStep)
          /\ Len(e) = 3 /\ Len(h) = G
      BY <1>5, <1>8, <1>9
    <2>2. IsJoin(u, e, h)
      BY ONLY <2>1, u = e \o h, StepsJoined
    <2> QED
      BY ONLY <2>1, <2>2, b = 3 + G DEF IsJoin
  <1>11. u[2] = s /\ u[3] = f /\ \A j \in 1..b : j = 2 \/ j = 3 \/ u[j] = p
    <2>1. u[1] = p /\ u[2] = s /\ u[3] = f
      BY <1>9, <1>10
    <2>2. ASSUME NEW j \in 1..b, j > 3 PROVE u[j] = p
      <3>1. j - 3 \in 1..G /\ 3 + (j - 3) = j
        BY <1>5, <2>2
      <3>2. u[3 + (j - 3)] = h[j - 3]
        BY <1>10, <3>1
      <3> QED
        BY <1>8, <3>1, <3>2
    <2>3. ASSUME NEW j \in 1..b PROVE j = 2 \/ j = 3 \/ u[j] = p
      <3>1. j = 1 \/ j = 2 \/ j = 3 \/ j > 3
        BY <1>5
      <3> QED
        BY <2>1, <2>2, <3>1
    <2> QED
      BY <2>1, <2>3
  <1>12. b \in Nat /\ b >= 3 /\ 3 * n \in Nat /\ b + 3 * n \in Nat
    BY SMTT(60), <1>5
  <1> PICK k : k = 3 * n
    OBVIOUS
  <1>13. /\ v \in Seq(MicroStep) /\ Len(v) = b + k /\ k \in Nat /\ b + k \in Nat
         /\ (\A j \in 1..b : v[j] = u[j]) /\ (\A m \in 1..k : v[b + m] = c[m])
    <2>1. c \in Seq(MicroStep) /\ Len(c) = k /\ k \in Nat /\ b + k \in Nat
      BY <1>7, <1>12
    <2>2. u \in Seq(MicroStep) /\ Len(u) = b /\ b \in Nat
      BY <1>10, <1>12
    <2>3. /\ v \in Seq(MicroStep) /\ Len(v) = b + k
          /\ (\A j \in 1..b : v[j] = u[j]) /\ (\A m \in 1..k : v[b + m] = c[m])
      <3>1. IsJoin(v, u, c)
        BY ONLY <2>1, <2>2, v = u \o c, StepsJoined
      <3> QED
        BY ONLY <2>1, <2>2, <3>1 DEF IsJoin
    <2> QED
      BY <2>1, <2>3
  <1>14. /\ w \in Seq(MicroStep) /\ Len(w) = b + k + 1
         /\ (\A j \in 1..(b + k) : w[j] = v[j]) /\ w[b + k + 1] = q
    <2> PICK y : y = <<q>>
      OBVIOUS
    <2>1. y \in Seq(MicroStep) /\ Len(y) = 1 /\ y[1] = q /\ 1 \in 1..1 /\ 1 \in Nat
      OBVIOUS
    <2> QED
      <3>1. IsJoin(w, v, y)
        BY ONLY <1>13, <2>1, w = v \o <<q>>, y = <<q>>, StepsJoined
      <3> QED
        BY ONLY <1>13, <2>1, <3>1 DEF IsJoin
  <1>15. todo' = w \o <<x, p>>
    BY <1>2, <1>4
  <1>16. /\ todo' \in Seq(MicroStep) /\ Len(todo') = (b + k + 1) + 2
         /\ (\A j \in 1..(b + k + 1) : todo'[j] = w[j])
         /\ todo'[b + k + 1 + 1] = x /\ todo'[b + k + 1 + 2] = p
    <2> PICK y : y = <<x, p>>
      OBVIOUS
    <2>1. y \in Seq(MicroStep) /\ Len(y) = 2 /\ y[1] = x /\ y[2] = p /\ 1 \in 1..2 /\ 2 \in 1..2 /\ 2 \in Nat
      BY <1>6
    <2>2. b + k + 1 \in Nat
      BY <1>13
    <2> QED
      <3>1. IsJoin(todo', w, y)
        BY ONLY <1>14, <1>15, <2>1, y = <<x, p>>, StepsJoined
      <3> QED
        BY ONLY <1>14, <2>1, <2>2, <3>1 DEF IsJoin
  <1>17. \A j \in 1..b : todo'[j] = u[j]
    <2> SUFFICES ASSUME NEW j \in 1..b PROVE todo'[j] = u[j]
      OBVIOUS
    <2>1. j \in 1..(b + k) /\ j \in 1..(b + k + 1)
      BY ONLY <1>12, <1>13, j \in 1..b
    <2> QED
      BY ONLY <1>13, <1>14, <1>16, <2>1, j \in 1..b
  <1>18. \A m \in 1..k : todo'[b + m] = c[m]
    <2> SUFFICES ASSUME NEW m \in 1..k PROVE todo'[b + m] = c[m]
      OBVIOUS
    <2>1. b + m \in 1..(b + k) /\ b + m \in 1..(b + k + 1)
      BY ONLY <1>12, <1>13, m \in 1..k
    <2> QED
      BY ONLY <1>13, <1>14, <1>16, <2>1, m \in 1..k
  <1>19. /\ Len(todo') = b + 3 * n + 3 /\ todo'[b + 3 * n + 1] = q
         /\ todo'[b + 3 * n + 2] = x /\ todo'[b + 3 * n + 3] = p
    <2>1. b + k + 1 \in 1..(b + k + 1)
      BY ONLY <1>12, <1>13
    <2>2. todo'[b + k + 1] = q
      BY ONLY <1>14, <1>16, <2>1
    <2>3. /\ (b + k + 1) + 2 = b + 3 * n + 3 /\ b + k + 1 = b + 3 * n + 1
          /\ b + k + 1 + 1 = b + 3 * n + 2 /\ b + k + 1 + 2 = b + 3 * n + 3
      BY SMTT(60), <1>5, <1>12
    <2> QED
      BY ONLY <1>16, <2>2, <2>3
  <1>20. 2 \in 1..b /\ 3 \in 1..b
    BY <1>12
  <1>25. todo'[2] = s /\ todo'[3] = f /\ \A j \in 1..b : j = 2 \/ j = 3 \/ todo'[j] = p
    BY ONLY <1>11, <1>17, <1>20
  <1>21. /\ todo'[2].do = "allocate" /\ todo'[2].reg = r /\ todo'[2].kind = "LIST"
         /\ todo'[3].do = "references" /\ todo'[3].target = r
         /\ \A j \in 1..b : j = 2 \/ j = 3 \/ todo'[j].do = "service"
    BY ONLY <1>6, <1>25
  <1>22. \A m \in 1..(3 * n) :
                       \/ m % 3 = 1 /\ todo'[b + m].do = "retain" /\ Copied(todo'[b + m].value)
                       \/ m % 3 = 2 /\ todo'[b + m].do = "append" /\ todo'[b + m].target = r
                       \/ m % 3 = 0 /\ todo'[b + m].do = "service"
    BY ONLY <1>7, <1>18, k = 3 * n
  <1>23. /\ \/ /\ todo'[b + 3 * n + 1].do = "retain" /\ todo'[b + 3 * n + 1].value # None
               /\ todo'[b + 3 * n + 1].value \in Object =>
                             todo'[b + 3 * n + 1].value \in HeldValues
            \/ /\ todo'[b + 3 * n + 1].do = "take"
               /\ todo'[b + 3 * n + 1].target \in Results
         /\ todo'[b + 3 * n + 2].do = "append" /\ todo'[b + 3 * n + 2].target = r
         /\ todo'[b + 3 * n + 3].do = "service"
    BY ONLY <1>4, <1>6, <1>19
  <1>24. n < Width
    BY <1>1
  <1>26. AppendedAs(todo', r, n, b)
    BY ONLY <1>12, <1>19, <1>21, <1>22, <1>23, <1>24 DEF AppendedAs
  <1> QED
    BY ONLY <1>2, <1>5, <1>12, <1>16, <1>26, r \in EmptyRegisters

LEMMA AppendedAt ==
    ASSUME NEW s, NEW r, NEW n \in Nat, NEW b \in Nat, AppendedAs(s, r, n, b), NEW j \in 1..Len(s)
    PROVE  \/ s[j].do \in {"service", "allocate", "references"}
           \/ s[j].do = "retain" /\ j # b + 3 * n + 1
           \/ /\ s[j].do = "append" /\ s[j].target = r
              /\ j > 1 /\ s[j - 1].do = "retain" /\ Copied(s[j - 1].value)
           \/ j = b + 3 * n + 1 /\ s[j].do \in {"retain", "take"}
           \/ j = b + 3 * n + 2 /\ s[j].do = "append" /\ s[j].target = r
  <1> PICK k : k = 3 * n
    OBVIOUS
  <1>1. k \in Nat /\ Len(s) = b + k + 3 /\ b >= 3
    BY DEF AppendedAs
  <1>2. CASE j \in 1..b
    BY <1>2 DEF AppendedAs
  <1>3. CASE j > b /\ j <= b + k
    <2> PICK m : m = j - b
      OBVIOUS
    <2>1. m \in 1..k /\ j = b + m /\ j # b + 3 * n + 1
      BY ONLY <1>1, <1>3, m = j - b, j \in 1..Len(s), b \in Nat, k = 3 * n
    <2>2. \A i \in 1..k :
             \/ i % 3 = 1 /\ s[b + i].do = "retain" /\ Copied(s[b + i].value)
             \/ i % 3 = 2 /\ s[b + i].do = "append" /\ s[b + i].target = r
             \/ i % 3 = 0 /\ s[b + i].do = "service"
      BY ONLY AppendedAs(s, r, n, b), k = 3 * n DEF AppendedAs
    <2>3. CASE m % 3 = 2 /\ s[b + m].do = "append" /\ s[b + m].target = r
      <3> PICK i : i = m - 1
        OBVIOUS
      <3>1. i \in 1..k /\ i % 3 = 1 /\ b + i = j - 1 /\ j > 1
        <4>1. m % 3 = 2 /\ m \in Nat /\ m <= k
          BY ONLY <1>1, <2>1, <2>3
        <4>2. (m - 1) % 3 = 1 /\ m > 1
          BY ONLY <4>1
        <4>3. i \in 1..k /\ b + i = j - 1 /\ j > 1
          BY ONLY <1>1, <2>1, <4>1, <4>2, i = m - 1, b \in Nat
        <4> QED
          BY ONLY <4>2, <4>3, i = m - 1
      <3>2. s[b + i].do = "retain" /\ Copied(s[b + i].value)
        BY ONLY <2>2, <3>1
      <3> QED
        BY <2>1, <2>3, <3>1, <3>2
    <2> QED
      BY ONLY <2>1, <2>2, <2>3
  <1>4. CASE j = b + k + 1 \/ j = b + k + 2 \/ j = b + k + 3
    BY <1>4 DEF AppendedAs
  <1>5. j \in 1..b \/ (j > b /\ j <= b + k) \/ j = b + k + 1 \/ j = b + k + 2 \/ j = b + k + 3
    BY ONLY <1>1, b \in Nat, j \in 1..Len(s)
  <1> QED
    BY <1>2, <1>3, <1>4, <1>5

(* The elements that the call copies, and the one it adds, can be stored.  *)
LEMMA AppendedFits ==
    ASSUME IInv, ListAppended, program' = program, HeapFit
    PROVE  StoresReady'
  <1>1. Idle /\ CallOnly /\ Typed /\ None \notin Object
    BY AppendedSteps, IdleFacts
  <1>2. PICK r \in EmptyRegisters, n \in Nat, b \in Nat : AppendedAs(todo', r, n, b)
    BY AppendedSteps
  <1> PICK e : e = b + 3 * n + 2
    OBVIOUS
  <1>3. e \in Nat /\ e - 1 = b + 3 * n + 1 /\ Len(todo') = e + 1 /\ e > 1 /\ e # b + 3 * n + 1
    BY <1>2 DEF AppendedAs
  <1>4. r \in Register /\ At(r)' = None
    BY <1>1 DEF EmptyRegisters, Results, At, CallOnly
  <1>5. \A name, v : v # None /\ name # "backing" => Fits(name, None, v)'
    BY <1>1, <1>4 DEF Fits
  <1>6. ASSUME NEW v, Copied(v) PROVE v # None
    <2>1. PICK l \in Lists : v \in ToSet(fields[l])
      BY <1>6 DEF Copied
    <2>2. l \in Object /\ kind[l] \in ListKinds
      BY <1>1, ListFacts
    <2> QED
      BY <2>1, <2>2 DEF HeapFit, FieldsFit
  <1>7. \/ todo'[e - 1].do = "retain" /\ todo'[e - 1].value # None
        \/ todo'[e - 1].do = "take" /\ todo'[e - 1].target \in Results
    BY <1>2, <1>3 DEF AppendedAs
  <1>8. ASSUME NEW j \in 1..Len(todo'), todo'[j].do \in Storing
        PROVE  /\ todo'[j].do = "append" /\ todo'[j].target = r /\ j > 1
               /\ todo'[j - 1].do \in Acquires /\ Given(j)' # None /\ j <= e
    <2>1. \/ /\ todo'[j].do = "append" /\ todo'[j].target = r
             /\ j > 1 /\ todo'[j - 1].do = "retain" /\ Copied(todo'[j - 1].value)
          \/ j = e /\ todo'[j].do = "append" /\ todo'[j].target = r
      BY ONLY <1>2, <1>8, AppendedAt, e = b + 3 * n + 2, n \in Nat, b \in Nat DEF Storing
    <2>2. todo'[e + 1].do = "service" /\ (j <= e \/ j = e + 1)
      BY <1>2, <1>3 DEF AppendedAs
    <2>3. reg' = reg
      BY <1>1 DEF CallOnly
    <2> QED
      BY <1>3, <1>6, <1>7, <1>8, <2>1, <2>2, <2>3 DEF Given, Acquires, Storing, Results
  <1>9. ASSUME NEW i \in 1..Len(todo'), NEW j \in 1..Len(todo'), todo'[j].do \in Storing,
               todo'[i].do = "take", i < j
        PROVE  j = i + 1
    <2>1. i = e - 1
      <3>1. \/ todo'[i].do \in {"service", "allocate", "references", "retain", "append"}
            \/ i = b + 3 * n + 1
        BY ONLY <1>2, AppendedAt, i \in 1..Len(todo'), n \in Nat, b \in Nat
      <3> QED
        BY ONLY <1>3, <1>9, <3>1
    <2> QED
      BY <1>3, <1>8, <1>9, <2>1
  <1>10. ASSUME NEW j \in 1..Len(todo') PROVE StoreReady(j)'
    <2> SUFFICES ASSUME todo'[j].do \in Storing PROVE StoreReady(j)'
      BY DEF StoreReady
    <2>1. At(todo[j].target)' = None
      BY <1>4, <1>8
    <2>2. \E l, v : At(todo[j].target)' = l /\ Given(j)' = v /\ Fits(todo[j].do, l, v)'
      BY <1>5, <1>8, <2>1
    <2> QED
      BY <1>8, <2>2 DEF StoreReady
  <1> QED
    BY <1>8, <1>9, <1>10 DEF StoresReady

LEMMA SpacedThirds ==
    ASSUME NEW b \in Nat, NEW i \in Nat, NEW j \in Nat, i >= b, j >= b, i < j,
           (i - b) % 3 = 2, (j - b) % 3 = 2
    PROVE  j >= i + 3
  OBVIOUS

(* minyar_list_appended. *)
LEMMA ListAppendedSound ==
    ASSUME IInv, ListAppended, program' = program
    PROVE  StepForm /\ Sound'
  <1>1. Idle /\ CallOnly /\ todo' \in Seq(MicroStep)
    BY AppendedSteps
  <1>2. PICK r \in EmptyRegisters, n \in Nat, b \in Nat : AppendedAs(todo', r, n, b)
    BY AppendedSteps
  <1> PICK k, N : k = 3 * n /\ N = Len(todo')
    OBVIOUS
  <1>3. Typed /\ hand' = None /\ r \in Register /\ reg[r] = None /\ r \notin Results
        /\ reg' = reg /\ None \notin Object
    BY <1>1, IdleFacts DEF CallOnly, EmptyRegisters, Results
  <1>4. k \in Nat /\ N = b + k + 3 /\ N \in Nat /\ k <= 3 * (MaxWidth - 1)
    <2>1. Width \in Nat /\ Width <= MaxWidth /\ MaxWidth \in Nat
      BY <1>3, WidthBound
    <2>2. n < Width /\ Len(todo') = b + 3 * n + 3
      BY <1>2 DEF AppendedAs
    <2> QED
      BY ONLY <2>1, <2>2, n \in Nat, b \in Nat, k = 3 * n, N = Len(todo')
  <1>5. \A m \in 1..k :
           \/ /\ m % 3 = 1 /\ todo'[b + m].do = "retain"
              /\ todo'[b + m].value \in Object => todo'[b + m].value \in HeldValues
           \/ m % 3 = 2 /\ todo'[b + m].do = "append" /\ todo'[b + m].target = r
           \/ m % 3 = 0 /\ todo'[b + m].do = "service"
    BY ONLY <1>2, k = 3 * n DEF AppendedAs, Copied
  <1>6. /\ \/ /\ todo'[b + k + 1].do = "retain"
              /\ todo'[b + k + 1].value \in Object => todo'[b + k + 1].value \in HeldValues
           \/ todo'[b + k + 1].do = "take" /\ todo'[b + k + 1].target \in Results
        /\ todo'[b + k + 2].do = "append" /\ todo'[b + k + 2].target = r
        /\ todo'[b + k + 3].do = "service"
    BY ONLY <1>2, k = 3 * n DEF AppendedAs
  <1> DEFINE Append3(j) == todo'[j].do = "append" /\ todo'[j].target = r
                           /\ j >= b + 2 /\ j <= N - 1 /\ (j - b) % 3 = 2
             Retain3(j) == todo'[j].do = "retain" /\ j <= N - 1 /\ todo'[j + 1].do = "append"
                           /\ (todo'[j].value \in Object => todo'[j].value \in HeldValues)
             Take3(j) == todo'[j].do = "take" /\ j <= N - 1 /\ todo'[j + 1].do = "append"
                         /\ todo'[j].target \in Results
  <1>7. ASSUME NEW j \in 1..N
        PROVE  \/ todo'[j].do = "service"
               \/ j = 2 \/ j = 3
               \/ Append3(j) \/ Retain3(j) \/ Take3(j)
    <2>1. CASE j <= b
      <3>1. j \in 1..b
        BY <2>1
      <3> QED
        BY ONLY <1>2, <3>1 DEF AppendedAs
    <2>2. CASE j > b /\ j <= b + k
      <3> PICK m : m = j - b
        OBVIOUS
      <3>1. m \in 1..k /\ b + m = j
        BY ONLY <1>4, <2>2, b \in Nat, j \in 1..N, m = j - b
      <3>2. CASE m % 3 = 1 /\ todo'[b + m].do = "retain"
                 /\ (todo'[b + m].value \in Object => todo'[b + m].value \in HeldValues)
        <4>1. (m + 1) % 3 = 2 /\ m + 1 \in 1..k
          BY <3>1, <3>2, Thirds
        <4>2. b + (m + 1) = j + 1
          BY <3>1
        <4>3. todo'[j + 1].do = "append"
          <5>1. \/ (m + 1) % 3 = 1
                \/ (m + 1) % 3 = 2 /\ todo'[b + (m + 1)].do = "append"
                \/ (m + 1) % 3 = 0
            BY ONLY <1>5, <4>1
          <5> QED
            BY ONLY <4>1, <4>2, <5>1
        <4>4. j <= N - 1
          BY ONLY <1>4, <2>2, b \in Nat, j \in 1..N
        <4> QED
          BY <3>1, <3>2, <4>3, <4>4
      <3>3. CASE m % 3 = 2 /\ todo'[b + m].do = "append" /\ todo'[b + m].target = r
        <4>1. j >= b + 2
          <5>1. m # 1
            BY <3>3
          <5> QED
            BY <3>1, <5>1
        <4>2. j <= N - 1
          BY ONLY <1>4, <2>2, b \in Nat, j \in 1..N
        <4> QED
          BY <3>1, <3>3, <4>1, <4>2
      <3> HIDE DEF Append3, Retain3, Take3
      <3>4. CASE m % 3 = 0 /\ todo'[b + m].do = "service"
        BY <3>1, <3>4
      <3> QED
        BY ONLY <1>5, <3>1, <3>2, <3>3, <3>4
    <2>3. CASE j = b + k + 1
      <3>1. j + 1 = b + k + 2 /\ j <= N - 1
        BY ONLY <1>4, <2>3, b \in Nat, j \in 1..N
      <3> QED
        BY ONLY <1>6, <2>3, <3>1
    <2>4. CASE j = b + k + 2
      <3>1. j >= b + 2 /\ j <= N - 1
        BY ONLY <1>4, <2>4, b \in Nat, j \in 1..N
      <3>2. (j - b) % 3 = 2
        <4>1. j - b = 3 * n + 2
          BY ONLY <1>4, <2>4, b \in Nat, n \in Nat, k = 3 * n
        <4>2. (3 * n + 2) % 3 = 2
          BY ONLY n \in Nat
        <4> QED
          BY ONLY <4>1, <4>2
      <3> QED
        BY ONLY <1>6, <2>4, <3>1, <3>2
    <2>5. CASE j = b + k + 3
      BY <1>6, <2>5
    <2>6. j <= b \/ (j > b /\ j <= b + k) \/ j = b + k + 1 \/ j = b + k + 2 \/ j = b + k + 3
      BY ONLY <1>4, b \in Nat, j \in 1..N
    <2> HIDE DEF Append3, Retain3, Take3
    <2> QED
      BY ONLY <2>1, <2>2, <2>3, <2>4, <2>5, <2>6
  <1>8. /\ todo'[2].do = "allocate" /\ todo'[2].reg = r /\ todo'[2].kind = "LIST"
        /\ todo'[3].do = "references" /\ todo'[3].target = r
    BY <1>2 DEF AppendedAs
  <1>9. StepsFormed'
    <2>1. ASSUME NEW i \in 1..N, NEW j \in 1..N, i < j
          PROVE  /\ todo'[i].do \in Closing => todo'[j].do \in {"rest", "service"}
                 /\ ~ (todo'[i].do \in Fills /\ todo'[j].do \in Fills)
                 /\ todo'[j].do # "dropLocals"
                 /\ todo'[i].do = "append" /\ todo'[j].do = "append" => j >= i + 3
                 /\ todo'[i].do = "take" /\ todo'[j].do \in Targeted
                       => todo'[j].target # todo'[i].target
                 /\ todo'[j].do # "grow"
      <3>1. \A h \in 1..N : todo'[h].do \notin Closing \cup {"dropLocals", "grow"}
        BY <1>7, <1>8 DEF Closing
      <3>2. \A h \in 1..N : todo'[h].do \in Fills => h = 2
        BY <1>7, <1>8 DEF Fills
      <3>3. todo'[i].do = "append" /\ todo'[j].do = "append" => j >= i + 3
        <4>1. SUFFICES ASSUME todo'[i].do = "append", todo'[j].do = "append" PROVE j >= i + 3
          OBVIOUS
        <4>2. Append3(i) /\ Append3(j)
          <5> HIDE DEF Append3
          <5>1. \A h \in 1..N : todo'[h].do = "append" => Append3(h)
            BY <1>7, <1>8
          <5> QED
            BY <4>1, <5>1
        <4>3. i >= b /\ j >= b /\ (i - b) % 3 = 2 /\ (j - b) % 3 = 2 /\ i \in Nat /\ j \in Nat
          BY <4>2
        <4> QED
          BY ONLY <4>3, <2>1, b \in Nat, SpacedThirds
      <3>4. \A h \in 1..N : todo'[h].do \in Targeted => todo'[h].target = r
        BY <1>7, <1>8 DEF Targeted
      <3>5. todo'[i].do = "take" => todo'[i].target # r
        BY <1>3, <1>7, <1>8
      <3>6. i # j
        BY <2>1
      <3> QED
        BY <3>1, <3>2, <3>3, <3>4, <3>5, <3>6
    <2>2. ASSUME NEW i \in 1..N
          PROVE  /\ todo'[i].do \in Acquires => Ends(i + 1)'
                 /\ todo'[i].do # "chunk"
      <3>1. todo'[i].do \in Acquires => i + 1 \in 1..N /\ todo'[i + 1].do = "append"
        <4>1. todo'[i].do \in Acquires => i <= N - 1 /\ todo'[i + 1].do = "append"
          BY <1>7, <1>8 DEF Acquires
        <4>2. i <= N - 1 => i + 1 \in 1..N
          BY <1>4
        <4> QED
          BY <4>1, <4>2
      <3>2. todo'[i].do # "chunk"
        BY <1>7, <1>8
      <3> QED
        BY <3>1, <3>2 DEF Ends, Consumes
    <2> QED
      BY ONLY <1>3, <2>1, <2>2, N = Len(todo') DEF StepsFormed
  <1>10. At(r)' = None /\ At(r)' \notin Object /\ Length(None)' = 0
    BY <1>3 DEF At, Length
  <1>11. 1 \in 1..N /\ 2 \in 1..N /\ 3 \in 1..N
    BY <1>2, <1>4 DEF AppendedAs
  <1>12. \A j \in 1..N : j > 2 => Promised(r, "LIST", j)'
    <2> SUFFICES ASSUME NEW j \in 1..N, j > 2 PROVE Promised(r, "LIST", j)'
      OBVIOUS
    <2>1. 2 \in 1..(j - 1)
      OBVIOUS
    <2> QED
      BY <1>8, <2>1 DEF Promised
  <1>13. \A j \in 1..N : j > 3 => Promoted(r, j)'
    <2> SUFFICES ASSUME NEW j \in 1..N, j > 3 PROVE Promoted(r, j)'
      OBVIOUS
    <2>1. 3 \in 1..(j - 1)
      OBVIOUS
    <2> QED
      BY <1>8, <2>1 DEF Promoted
  <1>14. ASSUME NEW j \in 1..N
         PROVE  StepReady(j)' /\ (Named(j) \cap Object)' \subseteq HeldValues
    <2>1. CASE todo'[j].do \in {"service", "take"}
      BY <2>1, PlainReady, UnframedReady DEF StepReady
    <2>2. CASE j = 2
      BY <1>3, <1>8, <2>2
         DEF StepReady, RegisterReady, TargetReady, FrameReady, Named, Targeted
    <2>3. CASE j = 3
      <3>1. TargetReady(j)'
        BY <1>3, <1>8, <1>10, <1>12, <2>3 DEF TargetReady
      <3> QED
        BY <1>8, <1>10, <2>3, <3>1, UnframedReady DEF StepReady, RegisterReady, Named, Targeted
    <2>4. CASE Append3(j)
      <3>1. 3 * 0 + (N - 1 - j) <= 3 * (MaxWidth - 1)
        <4>1. N - 1 - j <= k
          <5>1. j >= b + 2
            BY <2>4
          <5> QED
            BY ONLY <1>4, <5>1, b \in Nat, j \in 1..N
        <4> QED
          BY ONLY <1>4, <4>1, j \in 1..N, ConstantsAssumption DEF ConstantsAssumption
      <3>2. j > 3
        <4>1. j >= b + 2 /\ b >= 3
          BY <1>2, <2>4 DEF AppendedAs
        <4> QED
          BY ONLY <4>1, b \in Nat, j \in 1..N
      <3>3. TargetReady(j)'
        BY ONLY <1>3, <1>10, <1>12, <1>13, <2>4, <3>1, <3>2, j \in 1..N, N = Len(todo')
           DEF TargetReady
      <3>4. (Named(j) \cap Object)' \subseteq HeldValues
        BY <1>10, <2>4 DEF Named
      <3> QED
        BY <2>4, <3>3, <3>4, UnframedReady DEF StepReady, RegisterReady
    <2>5. CASE Retain3(j)
      BY <2>5, UnframedReady
         DEF StepReady, RegisterReady, TargetReady, Named
    <2> HIDE DEF Append3, Retain3
    <2> QED
      BY <1>7, <2>1, <2>2, <2>3, <2>4, <2>5
  <1>15. todo'[1].do # "dropLocals"
    BY <1>7, <1>8, <1>11
  <1> QED
    BY ONLY IInv, <1>1, <1>9, <1>14, <1>15, N = Len(todo'), CalledSound

LEMMA VacateFacts ==
    ASSUME NEW fr \in FrameRecord, NEW i \in Local, NEW r, r = Vacate(fr, i)
    PROVE  /\ r \in FrameRecord /\ r.localCount = fr.localCount /\ r.temps = fr.temps
           /\ r.written = fr.written /\ r.locals[i].ref = None
           /\ \A j \in Local : r.locals[j].tag = fr.locals[j].tag
           /\ \A j \in Local \ {i} : r.locals[j] = fr.locals[j]
           /\ fr.locals[i].ref \in Value
  <1>1. fr.locals \in [Local -> LocalSlot] /\ fr.locals[i] \in LocalSlot
    BY DEF FrameRecord
  <1> PICK l : l = [fr.locals[i] EXCEPT !.ref = None]
    OBVIOUS
  <1>2. l \in LocalSlot /\ l.ref = None /\ l.tag = fr.locals[i].tag /\ fr.locals[i].ref \in Value
    BY <1>1 DEF LocalSlot, Value
  <1> PICK ls : ls = [fr.locals EXCEPT ![i] = l]
    OBVIOUS
  <1>3. ls \in [Local -> LocalSlot] /\ ls[i] = l /\ \A j \in Local \ {i} : ls[j] = fr.locals[j]
    BY <1>1, <1>2
  <1>4. r = [fr EXCEPT !.locals = ls]
    BY DEF Vacate
  <1>5. /\ r \in FrameRecord /\ r.locals = ls /\ r.localCount = fr.localCount
        /\ r.temps = fr.temps /\ r.written = fr.written
    BY <1>3, <1>4 DEF FrameRecord
  <1>6. \A j \in Local : r.locals[j].tag = fr.locals[j].tag
    BY <1>2, <1>3, <1>5
  <1> QED
    BY <1>2, <1>3, <1>5, <1>6

(* minyar_rc_local_move: the reference of a local becomes a result. *)
LEMMA MoveLocalSound ==
    ASSUME IInv, MoveLocal, program' = program
    PROVE  StepForm /\ Sound'
  <1> USE DEF heapVars, objectQueueVars, chunkVars, callVars
  <1>1. /\ Idle
        /\ UNCHANGED <<kind, count, fields, cursor, recent, old, active, activeCursor, stack,
                       frameQueue, freeFrames, chunk, chunkQueue, hand, falling, todo, program>>
    BY DEF MoveLocal
  <1>2. PICK i \in Local, q \in EmptyRegisters :
           /\ frame[Top].locals[i].ref # None
           /\ reg' = [reg EXCEPT ![q] = frame[Top].locals[i].ref]
           /\ frame' = [frame EXCEPT ![Top] = Vacate(@, i)]
    BY DEF MoveLocal
  <1> PICK f, fr : f = Top /\ fr = frame[f]
    OBVIOUS
  <1> PICK r, v : r = Vacate(fr, i) /\ v = fr.locals[i].ref
    OBVIOUS
  <1>3. /\ Typed /\ HeapSound /\ QueueSound /\ FrameSound /\ ChunkSound
        /\ todo = <<>> /\ falling = None /\ hand = None /\ stack # <<>>
        /\ (\A g \in Frame : ~ Dropping(g)) /\ None \notin Object
    BY <1>1, IdleFacts
  <1>4. /\ f \in Frame /\ In(stack, f) /\ fr \in FrameRecord /\ FrameShape(f)
        /\ ~ Detached(f) /\ ~ In(freeFrames, f) /\ OwnedLocals(f) = ToSet(fr.written)
        /\ fr.written \in Seq(Local)
    BY <1>3, TopFacts
  <1>5. /\ r \in FrameRecord /\ r.localCount = fr.localCount /\ r.temps = fr.temps
        /\ r.written = fr.written /\ r.locals[i].ref = None
        /\ \A j \in Local : r.locals[j].tag = fr.locals[j].tag
        /\ \A j \in Local \ {i} : r.locals[j] = fr.locals[j]
        /\ v \in Value
    BY SMTT(60), <1>4, VacateFacts
  <1>6. frame' = [frame EXCEPT ![f] = r]
    BY <1>2
  <1>7. /\ frame' \in [Frame -> FrameRecord] /\ frame'[f] = r
        /\ \A g \in Frame \ {f} : frame'[g] = frame[g]
    BY <1>3, <1>4, <1>5, <1>6, FrameWritten
  <1>8. /\ q \in Register /\ reg[q] = None /\ reg'[q] = v
        /\ \A p \in Register \ {q} : reg'[p] = reg[p]
        /\ reg' \in [Register -> Value]
    <2>1. reg \in [Register -> Value]
      BY <1>3 DEF Typed
    <2>2. q \in Register /\ reg[q] = None
      BY DEF EmptyRegisters, Results
    <2>3. reg' = [reg EXCEPT ![q] = v]
      BY <1>2
    <2> QED
      BY ONLY <1>5, <2>1, <2>2, <2>3
  <1>9. /\ \A j \in Local : In(fr.written, j) <=> j <= fr.localCount /\ fr.locals[j].tag
        /\ \A j \in Local : ~ In(fr.written, j) => fr.locals[j].ref = None
        /\ Distinct(fr.written)
    BY <1>4 DEF FrameShape
  <1>10. In(fr.written, i)
    BY <1>2, <1>9
  <1>11. OwnedLocals(f)' = OwnedLocals(f) /\ i \in OwnedLocals(f)
    <2>1. stack' = stack /\ f \in ToSet(stack)
      BY <1>1, <1>3, <1>4, ToSetIn DEF Typed
    <2> QED
      BY <1>4, <1>5, <1>7, <1>10, <2>1, ToSetIn DEF OwnedLocals
  <1> DEFINE s == <<q, 0>>
             t == <<f, i>>
  <1>12. SameEdges({s, t})
    <2>1. SameLocals({s, t})
      <3> SUFFICES ASSUME NEW g \in Frame, NEW j \in Local, <<g, j>> # t
                   PROVE  LocalEdge(g, j)' = LocalEdge(g, j)
        BY DEF SameLocals
      <3>1. CASE g = f
        BY <1>5, <1>7, <1>11, <3>1 DEF LocalEdge
      <3>2. CASE g # f
        BY <1>1, <1>7, <3>2 DEF LocalEdge, OwnedLocals
      <3> QED
        BY <3>1, <3>2
    <2>2. SameRegisters({s, t})
      BY <1>8 DEF SameRegisters
    <2>3. SameFields({s, t}) /\ SameChunks({s, t})
      BY <1>1, FieldsUnchanged, ChunksUnchanged
    <2>4. Counted(hand') = Counted(hand) /\ Counted(falling') = Counted(falling)
      BY <1>1
    <2> HIDE DEF s, t
    <2> QED
      BY ONLY <2>1, <2>2, <2>3, <2>4, OthersKept
  <1>13. edge[s] = None /\ edge'[s] = edge[t] /\ edge'[t] = None
    <2>1. edge[s] = Counted(reg[q]) /\ edge'[s] = Counted(v)
      BY <1>8, Forms, FormsNext DEF EdgeForms
    <2>2. edge[t] = LocalEdge(f, i) /\ edge'[t] = LocalEdge(f, i)'
      BY <1>4, Forms, FormsNext DEF EdgeForms
    <2>3. LocalEdge(f, i) = Counted(v) /\ LocalEdge(f, i)' = None
      BY <1>3, <1>5, <1>7, <1>11 DEF LocalEdge, Counted
    <2> QED
      BY <1>3, <1>8, <2>1, <2>2, <2>3 DEF Counted
  <1>14. StepForm
    <2>1. s \in Slot /\ s \in RootSlot /\ t \in Slot /\ s # t
      BY <1>4, <1>8, SlotForms, Differ
    <2>2. status' = status /\ count' = count
      BY <1>1 DEF status, Free, Live
    <2> HIDE DEF s, t
    <2> QED
      BY ONLY <1>12, <1>13, <2>1, <2>2, MovedForm
  <1>15. Typed'
    BY <1>1, <1>3, <1>7, <1>8 DEF Typed
  <1>16. HeapSound' /\ QueueSound' /\ ChunkSound'
    <2>1. \A g \in Frame : frame'[g].temps = frame[g].temps
      BY <1>5, <1>7
    <2> QED
      BY <1>1, <1>3, <2>1, HeapUnchanged, QueueUnchanged, ChunkUnchanged
  <1>17. FrameSound'
    <2>1. \A g \in Frame : Dropping(g)' <=> Dropping(g)
      BY <1>1 DEF Dropping
    <2>2. ASSUME NEW g \in Frame PROVE FrameShape(g)'
      <3>1. CASE g = f
        <4>1. \A j \in Local : In(r.written, j) <=> j <= r.localCount /\ r.locals[j].tag
          BY <1>5, <1>9
        <4>2. \A j \in Local : ~ In(r.written, j) => r.locals[j].ref = None
          BY <1>5, <1>9
        <4>3. ~ Detached(f)' /\ ~ In(freeFrames, f)' /\ In(stack, f)'
          BY <1>1, <1>4, <2>1 DEF Detached, In
        <4>4. frame'[g] = r /\ Distinct(r.written)
          BY <1>5, <1>7, <1>9, <3>1
        <4> QED
          BY <3>1, <4>1, <4>2, <4>3, <4>4 DEF FrameShape, Detached
      <3>2. CASE g # f
        <4>1. FrameShape(g) /\ frame'[g] = frame[g]
          BY <1>3, <1>7, <3>2 DEF FrameSound
        <4>2. /\ In(stack, g)' <=> In(stack, g)
              /\ In(freeFrames, g)' <=> In(freeFrames, g)
              /\ In(frameQueue, g)' <=> In(frameQueue, g)
          BY <1>1
        <4> QED
          BY <2>1, <4>1, <4>2, ShapeKept
      <3> QED
        BY <3>1, <3>2
    <2> QED
      BY <1>1, <1>3, <2>2 DEF FrameSound, Distinct
  <1>18. StepsSound'
    <2>1. hand' = None /\ Len(todo') = 0
      BY <1>1, <1>3
    <2> QED
      BY <2>1, StepsOver
  <1> QED
    BY <1>14, <1>15, <1>16, <1>17, <1>18 DEF Sound

LEMMA ClearedFacts ==
    ASSUME NEW fr \in FrameRecord, NEW r, r = WithoutTemporaries(fr)
    PROVE  /\ r \in FrameRecord /\ r.temps = <<>> /\ r.locals = fr.locals
           /\ r.written = fr.written /\ r.localCount = fr.localCount
  <1> PICK u : u = [fr EXCEPT !.temps = <<>>]
    OBVIOUS
  <1>1. /\ u \in FrameRecord /\ u.temps = <<>>
        /\ u.locals = fr.locals /\ u.written = fr.written /\ u.localCount = fr.localCount
    <2>1. <<>> \in Seq(Chunk)
      OBVIOUS
    <2> QED
      BY ZenonT(120), <2>1, TempsWritten
  <1>2. r = [u EXCEPT !.tempCount = 0]
    BY DEF WithoutTemporaries, FrameRecord
  <1>3. /\ r \in FrameRecord /\ r.temps = u.temps
        /\ r.locals = u.locals /\ r.written = u.written /\ r.localCount = u.localCount
    <2>1. u \in FrameRecord /\ 0 \in Nat
      BY <1>1
    <2> QED
      BY ONLY <1>2, <2>1, TempsCounted
  <1> QED
    BY <1>1, <1>3

(* The temporaries of a frame join the queue. *)
LEMMA TempsQueued ==
    ASSUME Typed, ChunkSound, NEW f \in Frame, chunkQueue' = chunkQueue \o frame[f].temps,
           frame'[f].temps = <<>>, \A g \in Frame \ {f} : frame'[g].temps = frame[g].temps,
           chunk' = chunk
    PROVE  chunkQueue' \in Seq(Chunk) /\ ChunkSound'
  <1> PICK ts : ts = frame[f].temps
    OBVIOUS
  <1>1. chunkQueue \in Seq(Chunk) /\ ts \in Seq(Chunk)
    BY DEF Typed, FrameRecord
  <1>2. /\ Distinct(chunkQueue) /\ Distinct(ts)
        /\ \A c \in Chunk : In(ts, c) =>
              ~ In(chunkQueue, c) /\ \A g \in Frame : In(frame[g].temps, c) => g = f
    BY DEF ChunkSound
  <1>3. \A c : In(ts, c) => c \in Chunk
    BY <1>1, ToSetIn
  <1>4. /\ chunkQueue' \in Seq(Chunk)
        /\ \A c : In(chunkQueue', c) <=> In(chunkQueue, c) \/ In(ts, c)
        /\ Distinct(chunkQueue')
    BY <1>1, <1>2, <1>3, ConcatFacts
  <1>5. \A c : ~ In(<<>>, c)
    BY DEF In
  <1>6. \A g \in Frame : Distinct(frame'[g].temps)
    BY DEF ChunkSound, Distinct
  <1>7. ASSUME NEW g \in Frame, NEW c \in Chunk, In(frame'[g].temps, c)
        PROVE  ~ In(chunkQueue', c) /\ \A h \in Frame : In(frame'[h].temps, c) => h = g
    <2>1. g # f /\ In(frame[g].temps, c)
      BY <1>5, <1>7
    <2>2. ~ In(chunkQueue, c) /\ \A h \in Frame : In(frame[h].temps, c) => h = g
      BY <2>1 DEF ChunkSound
    <2>3. ~ In(ts, c)
      BY <1>2, <2>1
    <2> QED
      BY <1>4, <1>5, <2>2, <2>3
  <1>8. ASSUME NEW c \in Chunk, ~ In(chunkQueue', c), \A g \in Frame : ~ In(frame'[g].temps, c)
        PROVE  chunk'[c] = <<>>
    <2>1. ~ In(chunkQueue, c) /\ ~ In(ts, c)
      BY <1>4, <1>8
    <2>2. \A g \in Frame : ~ In(frame[g].temps, c)
      BY <1>8, <2>1
    <2> QED
      BY <2>1, <2>2 DEF ChunkSound
  <1>9. \A c \in Chunk : Len(chunk'[c]) <= ChunkSlots
    BY DEF ChunkSound
  <1> QED
    BY <1>4, <1>6, <1>7, <1>8, <1>9 DEF ChunkSound

(* minyar_rc_step: the temporaries of the open frame are queued. *)
LEMMA StepSound ==
    ASSUME IInv, Step, program' = program
    PROVE  StepForm /\ Sound'
  <1> USE DEF heapVars, objectQueueVars
  <1>1. /\ Idle /\ todo' = <<Poll>>
        /\ UNCHANGED <<kind, count, fields, cursor, recent, old, active, activeCursor, stack,
                       frameQueue, freeFrames, chunk, reg, hand, falling, program>>
        /\ frame' = [frame EXCEPT ![Top] = WithoutTemporaries(@)]
        /\ chunkQueue' = chunkQueue \o frame[Top].temps
    BY DEF Step
  <1> PICK f, r : f = Top /\ r = WithoutTemporaries(frame[f])
    OBVIOUS
  <1>2. /\ Typed /\ HeapSound /\ QueueSound /\ FrameSound /\ ChunkSound
        /\ todo = <<>> /\ falling = None /\ hand = None /\ stack # <<>>
        /\ (\A g \in Frame : ~ Dropping(g))
    BY <1>1, IdleFacts
  <1>3. f \in Frame /\ In(stack, f) /\ frame[f] \in FrameRecord
    BY <1>2, TopFacts
  <1>4. /\ r \in FrameRecord /\ r.temps = <<>> /\ r.locals = frame[f].locals
        /\ r.written = frame[f].written /\ r.localCount = frame[f].localCount
    BY <1>3, ClearedFacts
  <1>5. frame' = [frame EXCEPT ![f] = r]
    BY <1>1
  <1>6. /\ frame' \in [Frame -> FrameRecord] /\ frame'[f] = r
        /\ \A g \in Frame \ {f} : frame'[g] = frame[g]
    BY <1>2, <1>3, <1>4, <1>5, FrameWritten
  <1>7. todo' \in Seq(MicroStep) /\ \A j \in 1..Len(todo') : todo'[j].do = "service"
    BY <1>1, <1>2, PollFacts
  <1>8. \A g \in Frame : Dropping(g)' <=> Dropping(g)
    <2>1. todo'[1].do = "service"
      BY <1>1, <1>2, PollFacts
    <2> QED
      BY <1>2, <2>1 DEF Dropping
  <1>9. FrameSound' /\ \A E : SameLocals(E)
    BY <1>1, <1>2, <1>3, <1>4, <1>5, <1>8, TopChanges
  <1>10. \A s \in Slot : edge'[s] = edge[s]
    <2>1. SameFields({}) /\ SameChunks({}) /\ SameRegisters({})
      BY <1>1, FieldsUnchanged, ChunksUnchanged, RegistersUnchanged
    <2>2. SameLocals({})
      BY <1>9
    <2>3. Counted(hand') = Counted(hand) /\ Counted(falling') = Counted(falling)
      BY <1>1
    <2>4. SameEdges({})
      BY ONLY <2>1, <2>2, <2>3, OthersKept
    <2> QED
      BY <2>4 DEF SameEdges
  <1>11. StepForm
    BY <1>1, <1>10, KeptForm DEF status, Free, Live
  <1>12. chunkQueue' \in Seq(Chunk) /\ ChunkSound'
    <2>1. /\ chunkQueue' = chunkQueue \o frame[f].temps /\ chunk' = chunk
          /\ frame'[f].temps = <<>> /\ \A g \in Frame \ {f} : frame'[g].temps = frame[g].temps
      BY <1>1, <1>4, <1>6
    <2> QED
      BY ONLY <1>2, <1>3, <2>1, TempsQueued
  <1>13. Typed'
    BY <1>1, <1>2, <1>6, <1>7, <1>12 DEF Typed
  <1>14. HeapSound' /\ QueueSound'
    BY <1>1, <1>2, HeapUnchanged, QueueUnchanged
  <1>15. StepsSound'
    BY <1>1, <1>2, <1>7, StepsOver
  <1> QED
    BY <1>9, <1>11, <1>12, <1>13, <1>14, <1>15 DEF Sound

(* An index that lists each local once fits beside the locals. *)
LEMMA IndexFits ==
    ASSUME NEW w \in Seq(Local), Distinct(w)
    PROVE  Len(w) \in 0..MaxLocals
  <1> PICK n : n = Len(w)
    OBVIOUS
  <1>1. n \in Nat /\ MaxLocals \in Nat /\ w \in [1..n -> Local]
    BY ConstantsAssumption
  <1>2. /\ IsFiniteSet(1..n) /\ Cardinality(1..n) = n
        /\ IsFiniteSet(Local) /\ Cardinality(Local) = MaxLocals
    <2>1. /\ IsFiniteSet(1..n) /\ Cardinality(1..n) = IF 1 > n THEN 0 ELSE n - 1 + 1
          /\ IsFiniteSet(1..MaxLocals)
          /\ Cardinality(1..MaxLocals) = IF 1 > MaxLocals THEN 0 ELSE MaxLocals - 1 + 1
      <3>1. 1 \in Int /\ n \in Int /\ MaxLocals \in Int
        BY <1>1
      <3> QED
        BY ONLY <3>1, FS_Interval
    <2> QED
      BY <1>1, <2>1 DEF Local
  <1>3. ~ (MaxLocals < n)
    <2> SUFFICES ASSUME MaxLocals < n PROVE FALSE
      OBVIOUS
    <2>1. \E i, j \in 1..n : i # j /\ w[i] = w[j]
      BY ONLY <1>1, <1>2, MaxLocals < n, FS_PigeonHole
    <2> QED
      BY <2>1 DEF Distinct
  <1> QED
    BY <1>1, <1>3

LEMMA DetachedFacts ==
    ASSUME NEW fr \in FrameRecord, Distinct(fr.written), NEW r,
           r = [WithoutTemporaries(fr) EXCEPT !.localCount = Len(fr.written)]
    PROVE  /\ r \in FrameRecord /\ r.temps = <<>> /\ r.locals = fr.locals
           /\ r.written = fr.written /\ r.localCount = Len(fr.written)
  <1> PICK u, n : u = WithoutTemporaries(fr) /\ n = Len(fr.written)
    OBVIOUS
  <1>1. /\ u \in FrameRecord /\ u.temps = <<>> /\ u.locals = fr.locals
        /\ u.written = fr.written
    BY ClearedFacts
  <1>2. n \in 0..MaxLocals
    <2>1. fr.written \in Seq(Local)
      BY DEF FrameRecord
    <2> QED
      BY <2>1, IndexFits
  <1>3. r = [u EXCEPT !.localCount = n]
    OBVIOUS
  <1>4. /\ r \in FrameRecord /\ r.localCount = n /\ r.locals = u.locals
        /\ r.written = u.written /\ r.temps = u.temps
    BY <1>1, <1>2, <1>3, RecordWrites
  <1> QED
    BY <1>1, <1>4

(* The top frame leaves the stack, to be visited by the queue or the call. *)
LEMMA DetachSound ==
    ASSUME IInv, Idle, Detach(Top),
           UNCHANGED <<kind, count, fields, cursor, recent, old, active, activeCursor, freeFrames,
                       chunk, reg, hand, falling, program>>,
           todo' \in Seq(MicroStep), frameQueue' \in Seq(Frame), Distinct(frameQueue'),
           \A g \in Frame \ {Top} : (In(frameQueue', g) <=> In(frameQueue, g)) /\ ~ Dropping(g)',
           In(frameQueue', Top) <=> ~ (todo' # <<>> /\ todo'[1].do = "dropLocals" /\ todo'[1].target = Top)
    PROVE  /\ StepForm /\ Typed' /\ HeapSound' /\ QueueSound' /\ FrameSound' /\ ChunkSound'
           /\ Top \in Frame /\ ~ In(stack', Top) /\ hand' = None
  <1> PICK f, fr : f = Top /\ fr = frame[f]
    OBVIOUS
  <1> PICK r : r = [WithoutTemporaries(fr) EXCEPT !.localCount = Len(fr.written)]
    OBVIOUS
  <1>1. /\ Typed /\ HeapSound /\ QueueSound /\ FrameSound /\ ChunkSound
        /\ todo = <<>> /\ falling = None /\ hand = None /\ stack # <<>>
        /\ (\A g \in Frame : ~ Dropping(g))
    BY IdleFacts
  <1>2. /\ f \in Frame /\ In(stack, f) /\ fr \in FrameRecord /\ FrameShape(f)
        /\ ~ Detached(f) /\ ~ In(freeFrames, f) /\ OwnedLocals(f) = ToSet(fr.written)
        /\ fr.written \in Seq(Local)
    BY <1>1, TopFacts
  <1>3. Distinct(fr.written) /\ Len(fr.written) \in Nat
    BY <1>2, ToSetIn DEF FrameShape
  <1>4. /\ r \in FrameRecord /\ r.temps = <<>> /\ r.locals = fr.locals
        /\ r.written = fr.written /\ r.localCount = Len(fr.written)
    BY ZenonT(120), <1>2, <1>3, DetachedFacts
  <1>5. /\ frame' = [frame EXCEPT ![f] = r] /\ stack' = Tail(stack)
        /\ chunkQueue' = chunkQueue \o frame[f].temps
    BY DEF Detach
  <1>6. /\ frame' \in [Frame -> FrameRecord] /\ frame'[f] = r
        /\ \A g \in Frame \ {f} : frame'[g] = frame[g]
    BY <1>1, <1>2, <1>4, <1>5, FrameWritten
  <1>7. stack \in Seq(Frame) /\ Distinct(stack) /\ f = stack[1]
    BY <1>1 DEF Typed, FrameSound, Top
  <1>8. /\ stack' \in Seq(Frame) /\ Distinct(stack') /\ ~ In(stack', f)
        /\ \A x : In(stack, x) <=> x = f \/ In(stack', x)
    BY <1>1, <1>5, <1>7, TailFacts
  <1>9. \A x : (x \in ToSet(stack) <=> In(stack, x)) /\ (x \in ToSet(stack)' <=> In(stack', x))
    <2>1. \A x : x \in ToSet(stack) <=> In(stack, x)
      BY <1>7, ToSetIn
    <2>2. \A x : x \in ToSet(stack') <=> In(stack', x)
      BY <1>8, ToSetIn
    <2> QED
      BY <2>1, <2>2
  <1>10. OwnedLocals(f)' = OwnedLocals(f)
    <2>1. OwnedLocals(f)' = {fr.written[j] : j \in 1..Len(fr.written)}
      BY <1>4, <1>6, <1>8, <1>9 DEF OwnedLocals
    <2>2. \A x : x \in ToSet(fr.written) <=> In(fr.written, x)
      BY <1>2, ToSetIn
    <2> QED
      BY <1>2, <2>1, <2>2 DEF In
  <1>11. \A s \in Slot : edge'[s] = edge[s]
    <2>1. SameLocals({})
      <3> SUFFICES ASSUME NEW g \in Frame, NEW j \in Local
                   PROVE  LocalEdge(g, j)' = LocalEdge(g, j)
        BY DEF SameLocals
      <3>1. CASE g = f
        BY <1>4, <1>6, <1>10, <3>1 DEF LocalEdge
      <3>2. CASE g # f
        <4>1. g \in ToSet(stack)' <=> g \in ToSet(stack)
          BY <1>8, <1>9, <3>2
        <4> QED
          BY <1>6, <3>2, <4>1 DEF LocalEdge, OwnedLocals
      <3> QED
        BY <3>1, <3>2
    <2>2. SameFields({}) /\ SameChunks({}) /\ SameRegisters({})
      BY FieldsUnchanged, ChunksUnchanged, RegistersUnchanged
    <2>3. Counted(hand') = Counted(hand) /\ Counted(falling') = Counted(falling)
      OBVIOUS
    <2>4. SameEdges({})
      BY ONLY <2>1, <2>2, <2>3, OthersKept
    <2> QED
      BY <2>4 DEF SameEdges
  <1>12. StepForm
    BY <1>11, KeptForm DEF status, Free, Live
  <1>13. chunkQueue' \in Seq(Chunk) /\ ChunkSound'
    <2>1. /\ chunkQueue' = chunkQueue \o frame[f].temps /\ chunk' = chunk
          /\ frame'[f].temps = <<>> /\ \A g \in Frame \ {f} : frame'[g].temps = frame[g].temps
      BY <1>4, <1>5, <1>6
    <2> QED
      BY ONLY <1>1, <1>2, <2>1, TempsQueued
  <1>14. Typed'
    BY <1>1, <1>6, <1>8, <1>13 DEF Typed
  <1>15. HeapSound' /\ QueueSound'
    BY <1>1, HeapUnchanged, QueueUnchanged
  <1>16. Dropping(f)' <=> (todo' # <<>> /\ todo'[1].do = "dropLocals" /\ todo'[1].target = f)
    BY DEF Dropping
  <1>17. FrameSound'
    <2>1. ASSUME NEW g \in Frame PROVE FrameShape(g)'
      <3>1. CASE g = f
        <4>1. ~ In(stack, f)' /\ Detached(f)' /\ ~ In(freeFrames, f)'
              /\ ~ (In(frameQueue, f)' /\ Dropping(f)')
          BY <1>2, <1>8, <1>16 DEF Detached, In
        <4>2. /\ Distinct(frame'[f].written) /\ frame'[f].temps = <<>>
              /\ frame'[f].localCount <= Len(frame'[f].written)
          BY <1>3, <1>4, <1>6
        <4> QED
          BY <3>1, <4>1, <4>2 DEF FrameShape
      <3>2. CASE g # f
        <4>1. FrameShape(g) /\ frame'[g] = frame[g]
          BY <1>1, <1>6, <3>2 DEF FrameSound
        <4>2. /\ In(stack, g)' <=> In(stack, g)
              /\ In(freeFrames, g)' <=> In(freeFrames, g)
              /\ In(frameQueue, g)' <=> In(frameQueue, g)
              /\ Dropping(g)' <=> Dropping(g)
          <5>1. In(stack, g)' <=> In(stack', g)
            BY DEF In
          <5>2. In(frameQueue, g)' <=> In(frameQueue', g)
            BY DEF In
          <5>3. In(freeFrames, g)' <=> In(freeFrames, g)
            BY DEF In
          <5> QED
            BY <1>1, <1>8, <3>2, <5>1, <5>2, <5>3
        <4> QED
          BY <4>1, <4>2, ShapeKept
      <3> QED
        BY <3>1, <3>2
    <2>2. Distinct(stack)' /\ Distinct(frameQueue)' /\ Distinct(freeFrames)'
      BY <1>1, <1>8 DEF FrameSound, Distinct
    <2> QED
      BY <2>1, <2>2 DEF FrameSound
  <1> QED
    BY <1>1, <1>2, <1>8, <1>12, <1>13, <1>14, <1>15, <1>17

(* minyar_rc_leave: the frame is queued too. *)
LEMMA LeaveSound ==
    ASSUME IInv, Leave, program' = program
    PROVE  StepForm /\ Sound'
  <1> USE DEF heapVars, objectQueueVars
  <1>1. /\ Idle /\ Detach(Top) /\ todo' = <<Poll>> /\ frameQueue' = Append(frameQueue, Top)
        /\ UNCHANGED <<kind, count, fields, cursor, recent, old, active, activeCursor, freeFrames,
                       chunk, reg, hand, falling, program>>
    BY DEF Leave
  <1> PICK f : f = Top
    OBVIOUS
  <1>2. /\ Typed /\ FrameSound /\ stack # <<>> /\ hand = None
    BY <1>1, IdleFacts
  <1>3. f \in Frame /\ ~ Detached(f)
    BY <1>2, TopFacts
  <1>4. frameQueue \in Seq(Frame) /\ Distinct(frameQueue) /\ ~ In(frameQueue, f)
    BY <1>2, <1>3 DEF Typed, FrameSound, Detached
  <1>5. /\ frameQueue' \in Seq(Frame) /\ Distinct(frameQueue')
        /\ \A x : In(frameQueue', x) <=> x = f \/ In(frameQueue, x)
    BY <1>1, <1>3, <1>4, AppendFacts
  <1>6. /\ todo' \in Seq(MicroStep) /\ todo'[1].do = "service"
        /\ \A j \in 1..Len(todo') : todo'[j].do = "service"
    BY <1>1, <1>2, PollFacts
  <1>7. \A g \in Frame : ~ Dropping(g)'
    BY <1>6 DEF Dropping
  <1>8. /\ StepForm /\ Typed' /\ HeapSound' /\ QueueSound' /\ FrameSound' /\ ChunkSound'
        /\ hand' = None
    <2>1. \A g \in Frame \ {Top} : (In(frameQueue', g) <=> In(frameQueue, g)) /\ ~ Dropping(g)'
      BY <1>5, <1>7
    <2>2. In(frameQueue', Top) <=> ~ (todo' # <<>> /\ todo'[1].do = "dropLocals" /\ todo'[1].target = Top)
      BY <1>5, <1>6
    <2> QED
      BY ONLY IInv, <1>1, <1>5, <1>6, <2>1, <2>2, DetachSound
  <1>9. StepsSound'
    BY <1>6, <1>8, StepsOver
  <1> QED
    BY <1>8, <1>9 DEF Sound

(* minyar_rc_leave_stack_v1: the call drops the locals itself. *)
LEMMA LeaveStackSound ==
    ASSUME IInv, LeaveStack, program' = program
    PROVE  StepForm /\ Sound'
  <1> USE DEF heapVars, objectQueueVars
  <1> PICK f, d, p : /\ f = Top /\ d = Into("dropLocals", f, 0)
                     /\ p = Service(Budget - Len(frame[f].written))
    OBVIOUS
  <1>1. /\ Idle /\ Detach(Top) /\ todo' = <<d, p>> /\ frameQueue' = frameQueue
        /\ UNCHANGED <<kind, count, fields, cursor, recent, old, active, activeCursor, freeFrames,
                       chunk, reg, hand, falling, program>>
    BY DEF LeaveStack
  <1>2. /\ Typed /\ FrameSound /\ stack # <<>> /\ hand = None
    BY <1>1, IdleFacts
  <1>3. f \in Frame /\ ~ Detached(f) /\ frame[f].written \in Seq(Local)
    BY <1>2, TopFacts
  <1>4. frameQueue \in Seq(Frame) /\ Distinct(frameQueue) /\ ~ In(frameQueue, f)
    BY <1>2, <1>3 DEF Typed, FrameSound, Detached
  <1>5. d \in MicroStep /\ d.do = "dropLocals" /\ d.target = f
    <2>1. d \in MicroStep
      BY <1>3, StepForms
    <2> QED
      BY <2>1 DEF Into
  <1>6. p \in MicroStep /\ p.do = "service"
    <2>1. Budget \in Nat /\ Len(frame[f].written) \in Nat
      BY SMTT(60), <1>2, <1>3, ToSetIn, ConstantsAssumption DEF Typed, Budget
    <2>2. Budget - Len(frame[f].written) \in Int
      BY <2>1
    <2>3. p \in MicroStep
      BY <2>2, StepForms
    <2> QED
      BY <2>3 DEF Service
  <1>7. /\ todo' \in Seq(MicroStep) /\ Len(todo') = 2 /\ todo' # <<>>
        /\ todo'[1] = d /\ todo'[2] = p
    BY <1>1, <1>5, <1>6
  <1>8. \A g \in Frame \ {f} : ~ Dropping(g)'
    BY <1>5, <1>7 DEF Dropping
  <1>9. /\ StepForm /\ Typed' /\ HeapSound' /\ QueueSound' /\ FrameSound' /\ ChunkSound'
        /\ ~ In(stack', f) /\ hand' = None
    <2>1. \A g \in Frame \ {Top} : (In(frameQueue', g) <=> In(frameQueue, g)) /\ ~ Dropping(g)'
      BY <1>1, <1>8
    <2>2. In(frameQueue', Top) <=> ~ (todo' # <<>> /\ todo'[1].do = "dropLocals" /\ todo'[1].target = Top)
      BY <1>1, <1>4, <1>5, <1>7
    <2>3. frameQueue' \in Seq(Frame) /\ Distinct(frameQueue') /\ todo' \in Seq(MicroStep)
      BY <1>1, <1>4, <1>7
    <2> QED
      BY ONLY IInv, <1>1, <2>1, <2>2, <2>3, DetachSound, f = Top
  <1>10. StepsSound'
    <2>1. \A j \in 1..Len(todo') : j = 1 \/ j = 2
      BY <1>7
    <2>2. StepsFormed'
      <3>1. ASSUME NEW i \in 1..Len(todo'), NEW j \in 1..Len(todo'), i < j
            PROVE  i = 1 /\ j = 2 /\ todo'[i].do = "dropLocals" /\ todo'[j].do = "service"
        BY <1>5, <1>6, <1>7, <2>1, <3>1
      <3>2. \A i \in 1..Len(todo') : todo'[i].do \in {"dropLocals", "service"}
        BY <1>5, <1>6, <1>7, <2>1
      <3> QED
        BY <1>9, <3>1, <3>2 DEF StepsFormed, Closing, Fills, Acquires, Targeted
    <2>3. ASSUME NEW j \in 1..Len(todo') PROVE StepReady(j)' /\ Named(j)' = {}
      <3>1. CASE j = 1
        <4>1. todo'[j].do = "dropLocals" /\ todo'[j].target = f
          BY <1>5, <1>7, <3>1
        <4> QED
          BY <1>9, <4>1 DEF StepReady, RegisterReady, TargetReady, FrameReady, Named, Targeted, In
      <3>2. CASE j = 2
        <4>1. todo'[j].do = "service"
          BY <1>6, <1>7, <3>2
        <4> QED
          BY <4>1, PlainReady, UnframedReady DEF StepReady
      <3> QED
        BY <2>1, <3>1, <3>2
    <2>4. OperandsHeld'
      <3>1. {} \in SUBSET Object /\ Supported({})'
        BY DEF Supported
      <3> QED
        BY <2>3, <3>1 DEF OperandsHeld
    <2> QED
      BY <2>2, <2>3, <2>4 DEF StepsSound
  <1> QED
    BY <1>9, <1>10 DEF Sound
-----------------------------------------------------------------------------
(***************************************************************************)
(* The invariant holds.                                                    *)
(***************************************************************************)
(* Every call of a program. *)
LEMMA ProgramSound ==
    ASSUME IInv, Program
    PROVE  StepForm /\ Sound'
  <1>1. program' = program
    BY DEF Program
  <1>2. \/ NewRecord \/ NewScalarRecord \/ RecordSet \/ RecordSetScalar
        \/ NewList \/ ListReferences \/ ListAdd \/ ListSet \/ ListAppended
        \/ NewText \/ TextSlice \/ JoinTakeLeft
        \/ RetainResult \/ Keep \/ SetLocal \/ MoveLocal
        \/ Step \/ Enter \/ EnterStack \/ Leave \/ LeaveStack
    BY DEF Program
  <1>3. CASE NewRecord \/ NewScalarRecord \/ NewList \/ NewText
    BY <1>1, <1>3, NewValueSound
  <1>4. CASE RecordSet \/ RecordSetScalar
    BY <1>1, <1>4, RecordSetSound, RecordSetScalarSound
  <1>5. CASE ListReferences \/ ListAdd \/ ListSet \/ ListAppended
    BY <1>1, <1>5, ListReferencesSound, ListAddSound, ListSetSound, ListAppendedSound
  <1>6. CASE TextSlice \/ RetainResult \/ JoinTakeLeft
    BY <1>1, <1>6, SharingSound, JoinSound
  <1>7. CASE Keep \/ SetLocal \/ MoveLocal
    BY <1>1, <1>7, KeepSound, SetLocalSound, MoveLocalSound
  <1>8. CASE Step \/ Enter \/ EnterStack \/ Leave \/ LeaveStack
    BY <1>1, <1>8, StepSound, OpeningSound, LeaveSound, LeaveStackSound
  <1> QED
    BY <1>2, <1>3, <1>4, <1>5, <1>6, <1>7, <1>8

LEMMA StutterSound ==
    ASSUME IInv, UNCHANGED vars
    PROVE  StepForm /\ Sound'
  <1> USE DEF vars, heapVars, objectQueueVars, frameVars, chunkVars, callVars
  <1>1. /\ Typed /\ HeapSound /\ QueueSound /\ FrameSound /\ ChunkSound /\ StepsFormed
    BY DEF IInv, Sound, StepsSound
  <1>2. \A s \in Slot : edge'[s] = edge[s]
    BY EdgesUnchanged
  <1>3. StepForm
    BY <1>2, KeptForm DEF status, Free, Live
  <1>4. Typed'
    BY <1>1 DEF Typed
  <1>5. HeapSound' /\ QueueSound' /\ ChunkSound'
    BY <1>1, HeapUnchanged, QueueUnchanged, ChunkUnchanged
  <1>6. FrameSound'
    BY <1>1, DropsUnchanged, FrameUnchanged
  <1>7. StepsSound'
    BY <1>2, FramesSteady, PollKeepsSteps
  <1> QED
    BY <1>3, <1>4, <1>5, <1>6, <1>7 DEF Sound

(* Every step of the runtime follows a form of the contract and keeps the  *)
(* invariant.                                                              *)
LEMMA NextSound ==
    ASSUME IInv, [Next]_vars
    PROVE  StepForm /\ IInv'
  <1>1. StepForm /\ Sound'
    <2>1. CASE Machine
      BY <2>1, RcDropSound, PollUnitSound, ResumeSound DEF Machine
    <2>2. CASE Program
      BY <2>2, ProgramSound
    <2>3. CASE UNCHANGED vars
      BY <2>3, StutterSound
    <2> QED
      BY <2>1, <2>2, <2>3 DEF Next
  <1> QED
    BY <1>1, FormKeepsCounts DEF IInv

LEMMA InitialSteps ==
    ASSUME Init
    PROVE  Typed /\ StepsSound /\ \A f \in Frame : ~ Dropping(f)
  <1>1. PICK n \in 0..ProgramLocals : todo = EnterSteps(n)
    BY DEF Init
  <1> PICK p, e : p = Poll /\ e = Into("enter", None, n)
    OBVIOUS
  <1>2. n \in 0..MaxLocals /\ n \in Nat
    <2>1. ProgramLocals \in 0..MaxLocals /\ MaxLocals \in Nat
      BY ConstantsAssumption DEF Init, ProgramLocals
    <2> QED
      BY <2>1
  <1>3. e \in MicroStep /\ e.do = "enter" /\ e.index = n
    <2>1. "enter" \in {"local", "enter", "enterStack"}
      OBVIOUS
    <2>2. e \in MicroStep
      BY <1>2, <2>1, StepForms
    <2> QED
      BY <2>2 DEF Into
  <1>4. p \in MicroStep /\ p.do = "service"
    <2>1. Budget \in Int
      BY ConstantsAssumption DEF Init, Budget
    <2>2. p \in MicroStep
      BY <2>1, StepForms DEF Poll
    <2> QED
      BY <2>2 DEF Poll, Service
  <1>5. /\ todo \in Seq(MicroStep) /\ Len(todo) = 2 /\ todo[1] = p /\ todo[2] = e
        /\ \A j \in 1..Len(todo) : j = 1 \/ j = 2
    <2>1. todo = <<p, e>>
      BY <1>1 DEF EnterSteps
    <2> QED
      BY <1>3, <1>4, <2>1
  <1>6. Typed
    <2>1. "FREE" \in Kinds /\ <<>> \in Seq(Value) /\ 0 \in Nat /\ None \in Value
      BY DEF Kinds, Value
    <2>2. frame \in [Frame -> FrameRecord]
      BY UnusedFrameFacts DEF Init
    <2> QED
      BY <1>5, <2>1, <2>2 DEF Init, Typed
  <1>7. StepsFormed
    <2>1. ASSUME NEW i \in 1..Len(todo), NEW j \in 1..Len(todo), i < j
          PROVE  todo[i].do = "service" /\ todo[j].do = "enter"
      BY <1>3, <1>4, <1>5, <2>1
    <2>2. \A i \in 1..Len(todo) : todo[i].do \in {"enter", "service"}
      BY <1>3, <1>4, <1>5
    <2>3. hand = None
      BY DEF Init
    <2> QED
      BY <2>1, <2>2, <2>3 DEF StepsFormed, Closing, Fills, Acquires, Targeted
  <1>8. UnusedFrames # {}
    <2>1. stack = <<>> /\ frameQueue = <<>> /\ freeFrames = <<>>
      BY DEF Init
    <2>2. \A x : x \notin ToSet(<<>>)
      BY DEF ToSet
    <2> QED
      BY <2>1, <2>2, ConstantsAssumption DEF UnusedFrames
  <1>9. ASSUME NEW j \in 1..Len(todo) PROVE StepReady(j) /\ Named(j) = {}
    <2>1. CASE j = 1
      <3>1. todo[j].do = "service"
        BY <1>4, <1>5, <2>1
      <3> QED
        BY <3>1 DEF StepReady, RegisterReady, TargetReady, FrameReady, Named, Targeted
    <2>2. CASE j = 2
      <3>1. todo[j].do = "enter" /\ todo[j].index = n
        BY <1>3, <1>5, <2>2
      <3> QED
        BY <1>2, <1>8, <3>1 DEF StepReady, RegisterReady, TargetReady, FrameReady, Named, Targeted
    <2> QED
      BY <1>5, <2>1, <2>2
  <1>10. OperandsHeld
    <2>1. {} \in SUBSET Object /\ Supported({})
      BY DEF Supported
    <2> QED
      BY <1>9, <2>1 DEF OperandsHeld
  <1>11. \A f \in Frame : ~ Dropping(f)
    BY <1>4, <1>5 DEF Dropping
  <1> QED
    BY <1>6, <1>7, <1>9, <1>10, <1>11 DEF StepsSound

(* A program starts with no values and its first function to enter. *)
LEMMA InitSound ==
    ASSUME Init
    PROVE  IInv /\ edge = [s \in Slot |-> None] /\ status = [o \in Object |-> "free"]
  <1>1. Typed /\ StepsSound /\ \A f \in Frame : ~ Dropping(f)
    BY InitialSteps
  <1>2. /\ \A x : ~ In(<<>>, x)
        /\ Distinct(<<>>)
    BY DEF In, Distinct
  <1>3. None \notin Object
    BY ConstantsAssumption
  <1>4. HeapSound
    <2>1. \A o \in Object : /\ kind[o] = "FREE" /\ count[o] = 0
                            /\ fields[o] = <<>> /\ cursor[o] = 0
      BY DEF Init
    <2>2. active = None /\ MaxWidth \in Nat
      BY ConstantsAssumption DEF Init
    <2> QED
      BY <2>1, <2>2 DEF HeapSound, Free, Live
  <1>5. QueueSound
    <2>1. \A o \in Object : kind[o] = "FREE"
      BY DEF Init
    <2>2. recent = <<>> /\ old = <<>> /\ active = None
      BY DEF Init
    <2> QED
      BY <1>2, <1>3, <2>1, <2>2 DEF QueueSound, Dead
  <1>6. /\ stack = <<>> /\ frameQueue = <<>> /\ freeFrames = <<>> /\ chunkQueue = <<>>
        /\ \A f \in Frame : frame[f] = UnusedFrame
        /\ \A c \in Chunk : chunk[c] = <<>>
    BY DEF Init
  <1>7. FrameSound
    <2>1. \A f \in Frame : ~ In(stack, f) /\ ~ Detached(f)
      BY <1>1, <1>2, <1>6 DEF Detached
    <2>2. ASSUME NEW f \in Frame PROVE FrameShape(f)
      <3>1. /\ Distinct(frame[f].written) /\ frame[f].temps = <<>> /\ frame[f].localCount = 0
            /\ \A i \in Local : frame[f].locals[i].ref = None
        BY <1>2, <1>6, UnusedFrameFacts
      <3> QED
        BY <2>1, <3>1 DEF FrameShape, Detached
    <2> QED
      BY <1>2, <1>6, <2>2 DEF FrameSound
  <1>8. ChunkSound
    <2>1. \A f \in Frame : frame[f].temps = <<>>
      BY <1>6, UnusedFrameFacts
    <2>2. \A c \in Chunk : Len(chunk[c]) <= ChunkSlots /\ chunk[c] = <<>>
      BY <1>6, ConstantsAssumption
    <2> QED
      BY <1>2, <1>6, <2>1, <2>2 DEF ChunkSound
  <1>9. \A s \in Slot : edge[s] = None
    <2>1. Counted(None) = None
      BY DEF Counted
    <2>2. \A r \in Register : edge[<<r, 0>>] = None
      BY <2>1, Forms DEF EdgeForms, Init
    <2>3. edge[HandSlot] = None /\ edge[FallingSlot] = None
      BY <2>1, Forms DEF EdgeForms, Init
    <2>4. \A f \in Frame, i \in Local : edge[<<f, i>>] = None
      <3> SUFFICES ASSUME NEW f \in Frame, NEW i \in Local PROVE edge[<<f, i>>] = None
        OBVIOUS
      <3>1. frame[f].locals[i].ref = None
        BY <1>6, UnusedFrameFacts
      <3>2. LocalEdge(f, i) = None
        BY <2>1, <3>1 DEF LocalEdge
      <3> QED
        BY <3>2, Forms DEF EdgeForms
    <2>5. \A c \in Chunk, i \in 1..ChunkSlots : edge[<<c, i>>] = None
      <3> SUFFICES ASSUME NEW c \in Chunk, NEW i \in 1..ChunkSlots PROVE edge[<<c, i>>] = None
        OBVIOUS
      <3>1. ~ (i <= Len(chunk[c]))
        BY <1>6
      <3>2. ChunkEdge(c, i) = None
        BY <3>1 DEF ChunkEdge
      <3> QED
        BY <3>2, Forms DEF EdgeForms
    <2>6. \A o \in Object, i \in Index : edge[<<o, i>>] = None
      <3> SUFFICES ASSUME NEW o \in Object, NEW i \in Index PROVE edge[<<o, i>>] = None
        OBVIOUS
      <3>1. fields[o] = <<>> /\ i \in Nat \ {0}
        BY ConstantsAssumption DEF Init, Index
      <3>2. FieldEdge(o, i) = None
        BY <3>1 DEF FieldEdge
      <3> QED
        BY <3>2, Forms DEF EdgeForms
    <2> QED
      BY <2>2, <2>3, <2>4, <2>5, <2>6, SlotForms
  <1>10. CountExact
    <2>1. \A o \in Object : Owners(o) = {} /\ count[o] = 0
      BY <1>3, <1>9 DEF Owners, Init
    <2> QED
      BY <2>1, FS_EmptySet DEF CountExact
  <1>11. edge = [s \in Slot |-> None]
    BY <1>9, Forms DEF EdgeForms
  <1>12. status = [o \in Object |-> "free"]
    BY DEF Init, status, Free
  <1> QED
    BY <1>1, <1>4, <1>5, <1>7, <1>8, <1>10, <1>11, <1>12 DEF IInv, Sound

(* The inductive invariant holds whatever the program calls and however    *)
(* its cleanup is interleaved with it.                                     *)
THEOREM IInvHolds == Spec => []IInv
  <1>1. Init => IInv
    BY InitSound
  <1>2. IInv /\ [Next]_vars => IInv'
    BY NextSound
  <1> QED
    BY <1>1, <1>2, PTL DEF Spec
-----------------------------------------------------------------------------
(***************************************************************************)
(* What the runtime keeps, whatever the program calls.                     *)
(***************************************************************************)
(* A reference count is the number of slots that own the value, at every   *)
(* step of every runtime call of every program: fields of half-destroyed   *)
(* values, queued frames and references in transit included.               *)
THEOREM CountsStayExact == Spec => []CountExact
  <1>1. IInv => CountExact
    BY DEF IInv
  <1> QED
    BY <1>1, IInvHolds, PTL

(* A Text that grows in place has the one owner that grows it. *)
LEMMA Unshared ==
    ASSUME IInv
    PROVE  GrowsUnshared
  <1> SUFFICES ASSUME Doing("grow")
               PROVE  Owners(reg[Now.target]) = {<<Now.target, 0>>}
    BY DEF GrowsUnshared
  <1> PICK r, t : r = Now.target /\ t = reg[r]
    OBVIOUS
  <1>1. Typed /\ Now \in MicroStep /\ todo[1] = Now /\ Now.do = "grow" /\ TargetReady(1)
    BY DoingFacts
  <1>2. r \in Register
    BY <1>1, StepTypes
  <1>3. t \in Object /\ count[t] = 1
    BY <1>1, <1>2 DEF TargetReady, At
  <1>4. <<r, 0>> \in Slot /\ edge[<<r, 0>>] = t
    BY <1>2, <1>3, SlotForms, Forms DEF EdgeForms, Counted
  <1>5. \A s \in Slot : edge[s] = t => s = <<r, 0>>
    BY <1>3, <1>4, EdgeFacts
  <1> QED
    BY <1>4, <1>5 DEF Owners

(* What the remaining steps name is alive. *)
LEMMA OperandsLive ==
    ASSUME IInv
    PROVE  OperandsAlive
  <1> SUFFICES ASSUME NEW j \in 1..Len(todo)
               PROVE  /\ todo[j].do = "retain" /\ Mortal(todo[j].value) => Live(todo[j].value)
                      /\ todo[j].do \in {"append", "replace", "field", "references"}
                            /\ Mortal(todo[j].target) => Live(todo[j].target)
    BY OperandFacts DEF OperandsAlive, Mortal, Live
  <1>1. ASSUME todo[j].do = "retain", todo[j].value \in Object
        PROVE  count[todo[j].value] > 0
    <2>1. todo[j].value \in Named(j)
      BY <1>1 DEF Named
    <2> QED
      BY <1>1, <2>1, NamedAlive
  <1>2. ASSUME todo[j].do \in {"append", "replace", "field", "references"}, todo[j].target \in Object
        PROVE  count[todo[j].target] > 0
    <2>1. At(todo[j].target) = todo[j].target
      BY <1>2, SlotAssumption DEF At
    <2>2. todo[j].target \in Named(j)
      BY <1>2, <2>1 DEF Named, Targeted
    <2> QED
      BY <1>2, <2>2, NamedAlive
  <1> QED
    BY <1>1, <1>2 DEF Mortal, Live

(* The polls inside a call never reclaim what the call still uses, and a   *)
(* Text that was unshared when the call began is unshared when its bytes   *)
(* are overwritten.                                                        *)
THEOREM PollsSpareOperands == Spec => []OperandsSafe
  <1>1. IInv => OperandsSafe
    BY Unshared, OperandsLive DEF OperandsSafe
  <1> QED
    BY <1>1, IInvHolds, PTL

(* The three queues of dead values, seen as one. *)
LEMMA QueuedOnce ==
    ASSUME IInv
    PROVE  DeadQueuedOnce
  <1> PICK a : a = IF active = None THEN <<>> ELSE <<active>>
    OBVIOUS
  <1>1. Typed /\ QueueSound /\ None \notin Object
    BY ConstantsAssumption DEF IInv, Sound
  <1>2. /\ recent \in Seq(Object) /\ old \in Seq(Object) /\ a \in Seq(Object)
        /\ Distinct(a) /\ \A o \in Object : In(a, o) <=> o = active
    <2>1. recent \in Seq(Object) /\ old \in Seq(Object) /\ active \in Object \cup {None}
      BY <1>1 DEF Typed
    <2>2. CASE active = None
      <3>1. a = <<>> /\ Len(a) = 0
        BY <2>2
      <3> QED
        BY <1>1, <2>1, <2>2, <3>1 DEF In, Distinct
    <2>3. CASE active # None
      <3>1. a = <<active>> /\ Len(a) = 1 /\ a[1] = active /\ a \in Seq(Object)
        BY <2>1, <2>3
      <3> QED
        BY <2>1, <3>1 DEF In, Distinct
    <2> QED
      BY <2>2, <2>3
  <1> PICK b : b = recent \o old
    OBVIOUS
  <1>3. b \in Seq(Object) /\ Distinct(b) /\ \A x : In(b, x) <=> In(recent, x) \/ In(old, x)
    <2>1. Distinct(recent) /\ Distinct(old) /\ \A x : ~ (In(recent, x) /\ In(old, x))
      BY <1>1, <1>2, ToSetIn DEF QueueSound
    <2> QED
      BY <1>2, <2>1, ConcatFacts
  <1>4. DeadValues = b \o a
    BY <1>2 DEF DeadValues
  <1>5. /\ DeadValues \in Seq(Object) /\ Distinct(DeadValues)
        /\ \A x : In(DeadValues, x) <=> In(b, x) \/ In(a, x)
    <2>1. \A x : ~ (In(b, x) /\ In(a, x))
      BY <1>1, <1>2, <1>3, ToSetIn DEF QueueSound
    <2> QED
      BY ZenonT(120), <1>2, <1>3, <1>4, <2>1, ConcatFacts
  <1>6. IsInjective(DeadValues)
    BY <1>5 DEF Distinct, IsInjective
  <1>7. ToSet(DeadValues) = {o \in Object : Dead(o)}
    <2>1. \A x : x \in ToSet(DeadValues) <=> x \in Object /\ In(DeadValues, x)
      BY <1>5, ToSetIn
    <2>2. \A o \in Object : Dead(o) <=> In(DeadValues, o)
      BY <1>1, <1>2, <1>3, <1>5 DEF QueueSound
    <2> QED
      BY <2>1, <2>2
  <1> QED
    BY <1>6, <1>7 DEF DeadQueuedOnce

(* A value whose last owner let go is queued once, by whichever of the     *)
(* three queues of dead values, until it is freed.                         *)
THEOREM DeadAreQueuedOnce == Spec => []DeadQueuedOnce
  <1>1. IInv => DeadQueuedOnce
    BY QueuedOnce
  <1> QED
    BY <1>1, IInvHolds, PTL

(* The contract as its proofs see it, and as the runtime does. *)
LEMMA ContractSteps ==
    ASSUME IInv, [Next]_vars
    PROVE  [Refs!Next]_Refs!vars
  <1>1. Refs!CountingAssumption /\ Refs!Slot = Slot /\ edge = Refs!EdgeOf(edge)
    BY ReferencesAreSlots
  <1>2. edge' = Refs!EdgeOf(edge')
    <2>1. DOMAIN edge' = Slot /\ edge' = [s \in Slot |-> edge'[s]]
      BY FormsNext DEF EdgeForms
    <2>2. \A s \in Slot : edge'[s] = IF edge'[s] \in Object THEN edge'[s] ELSE None
      BY DEF edge, Mortal
    <2> QED
      BY <1>1, <2>1, <2>2 DEF Refs!EdgeOf
  <1>3. Refs!Exact(edge, count)
    BY CountsExactly DEF Counts, IInv
  <1>4. Refs!StepForms(edge, edge', count, count', FallingSlot)
    BY NextSound DEF StepForm
  <1>5. count \in [Object -> Nat] /\ FallingSlot \in RootSlot
    BY SlotForms DEF IInv, Sound, Typed
  <1> QED
    BY <1>1, <1>2, <1>3, <1>4, <1>5, Refs!FormsFollowContract

LEMMA SameContract ==
    /\ Refs!Init <=> Contract!Init
    /\ [Refs!Next]_Refs!vars <=> [Contract!Next]_Contract!vars
    /\ Refs!Safety <=> Contract!Safety
  <1>1. Refs!Init <=> Contract!Init
    BY DEF Refs!Init, Contract!Init, Refs!Slot, Contract!Slot, Refs!Field, Contract!Field
  <1>2. [Refs!Next]_Refs!vars <=> [Contract!Next]_Contract!vars
    BY DEF Refs!Next, Contract!Next, Refs!Allocate, Contract!Allocate,
           Refs!Share, Contract!Share, Refs!Move, Contract!Move,
           Refs!Exchange, Contract!Exchange, Refs!Drop, Contract!Drop,
           Refs!Unwrap, Contract!Unwrap, Refs!Reclaim, Contract!Reclaim,
           Refs!Writable, Contract!Writable, Refs!OwnedElsewhere, Contract!OwnedElsewhere,
           Refs!Full, Contract!Full, Refs!Empty, Contract!Empty, Refs!Emptied, Contract!Emptied,
           Refs!HoldsNothing, Contract!HoldsNothing, Refs!Slot, Contract!Slot,
           Refs!Field, Contract!Field, Refs!vars, Contract!vars
  <1>3. Refs!Safety <=> Contract!Safety
    BY DEF Refs!Safety, Contract!Safety, Refs!NoDangling, Contract!NoDangling,
           Refs!LiveIsOwned, Contract!LiveIsOwned, Refs!FreeHoldsNothing,
           Contract!FreeHoldsNothing, Refs!HoldsNothing, Contract!HoldsNothing,
           Refs!Slot, Contract!Slot, Refs!Field, Contract!Field
  <1> QED
    BY <1>1, <1>2, <1>3

(* Every step of the bounded runtime, a unit of a poll or one level of     *)
(* rc_drop, is a step of the ownership contract or leaves it alone.        *)
THEOREM BoundedProfileImplementsOwnership == Spec => ImplementsOwnership
  <1>1. Init => Contract!Init
    BY InitSound DEF Contract!Init, Contract!Slot, Contract!Field, Slot
  <1>2. IInv /\ [Next]_vars => [Contract!Next]_Contract!vars
    BY ContractSteps, SameContract
  <1> QED
    BY <1>1, <1>2, IInvHolds, PTL DEF Spec, ImplementsOwnership, Contract!Spec

(* No slot owns a value that is being destroyed or has been, every live    *)
(* value has an owner, and a free cell owns nothing.                       *)
THEOREM BoundedProfileIsSafe == Spec => []Contract!Safety
  <1>1. Refs!OwnershipAssumption
    BY ReferencesAreSlots DEF Refs!CountingAssumption
  <1>2. Refs!Spec => []Refs!Safety
    BY <1>1, Refs!ContractIsSafe
  <1>3. Refs!Spec <=> Contract!Spec
    BY SameContract, PTL DEF Refs!Spec, Contract!Spec
  <1> QED
    BY <1>2, <1>3, SameContract, BoundedProfileImplementsOwnership, PTL DEF ImplementsOwnership
-----------------------------------------------------------------------------
(***************************************************************************)
(* What the runtime counts without looking: the queued tasks (pending),    *)
(* the chunks of a frame (by division) and the locals a frame has room     *)
(* for.                                                                    *)
(***************************************************************************)
(* The chunk that minyar_rc_keep writes to.                                *)
LastChunk(f) == chunk[frame[f].temps[Len(frame[f].temps)]]

(* The chunks of an open frame are full but for the last, and that one is  *)
(* empty only until the value it was added for is held.                    *)
TempsFull(f) ==
    /\ frame[f].temps = <<>> => frame[f].tempCount = 0
    /\ frame[f].temps # <<>> =>
          /\ frame[f].tempCount = ChunkSlots * (Len(frame[f].temps) - 1) + Len(LastChunk(f))
          /\ Len(LastChunk(f)) > 0 \/ (f = Top /\ Does(1, "hold"))

(* minyar_rc_keep adds a chunk only when the last one is full. *)
ChunkDue == \E j \in 1..Len(todo) : todo[j].do = "chunk"
ChunksNeeded == ChunkDue => ChunkFull

(* An open frame has room for its locals.                                  *)
IndexFitting == \A f \in Frame : In(stack, f) => frame[f].localCount <= frame[f].capacity

(* What the runtime counts without looking.                                *)
Accounts ==
    PendingExact /\ (\A f \in Frame : TempsFull(f)) /\ ChunksNeeded /\ IndexFitting

(* A number of chunks by division. *)
LEMMA ChunksByDivision ==
    ASSUME NEW k \in Nat \ {0}, NEW n \in Nat \ {0}, NEW r \in 1..k
    PROVE  (k * (n - 1) + r + k - 1) \div k = n
  <1>1. (k * (n - 1) + r + k - 1) = k * n + (r - 1)
    OBVIOUS
  <1>2. r - 1 \in 0..(k - 1) /\ k * n \in Nat
    OBVIOUS
  <1>3. (k * n + (r - 1)) \div k = n
    BY <1>2
  <1> QED
    BY <1>1, <1>3

(* The queued tasks, by their queues. *)
Visiting == IF active = None THEN 0 ELSE 1
Tasks == Len(recent) + Len(old) + Visiting + Len(frameQueue) + Len(chunkQueue)

(* pending, as a sum that needs no search.                                 *)
TasksForm == Typed => Tasks \in Nat /\ (PendingExact <=> pending = Tasks)

LEMMA TasksCounted == TasksForm
  <1> USE DEF TasksForm
  <1> SUFFICES ASSUME Typed PROVE Tasks \in Nat /\ (PendingExact <=> pending = Tasks)
    OBVIOUS
  <1>1. /\ recent \in Seq(Object) /\ old \in Seq(Object) /\ active \in Object \cup {None}
        /\ frameQueue \in Seq(Frame) /\ chunkQueue \in Seq(Chunk)
    BY DEF Typed
  <1> PICK last : last = (IF active = None THEN <<>> ELSE <<active>>)
    OBVIOUS
  <1>2. recent \o old \in Seq(Object \cup {None}) /\ Len(recent \o old) = Len(recent) + Len(old)
    BY <1>1
  <1>3. last \in Seq(Object \cup {None}) /\ Len(last) = IF active = None THEN 0 ELSE 1
    <2>1. CASE active = None
      BY <2>1
    <2>2. CASE active # None
      <3>1. last = <<active>>
        BY <2>2
      <3> QED
        BY <1>1, <2>2, <3>1
    <2> QED
      BY <2>1, <2>2
  <1>4. Len((recent \o old) \o last) = Len(recent) + Len(old) + Len(last)
    BY <1>2, <1>3
  <1>5. DeadValues = (recent \o old) \o last
    BY <1>1, <1>3 DEF DeadValues
  <1>6. Len(DeadValues) = Len(recent) + Len(old) + (IF active = None THEN 0 ELSE 1)
    BY <1>3, <1>4, <1>5
  <1>7. /\ Len(recent) \in Nat /\ Len(old) \in Nat /\ Len(frameQueue) \in Nat
        /\ Len(chunkQueue) \in Nat
    BY <1>1
  <1> QED
    BY <1>6, <1>7 DEF Tasks, Visiting, PendingExact

(* The same in the next state.                                             *)
LEMMA TasksNext == TasksForm'
  BY TasksCounted, PTL

(* A step that touches neither the last chunk of a frame nor its number of *)
(* temporaries, and does not complete a call that adds a chunk.            *)
HoldKept == ~ Does(1, "hold") \/ UNCHANGED <<stack, todo>>
SteadyTemps(f) ==
    /\ frame'[f].temps = frame[f].temps /\ frame'[f].tempCount = frame[f].tempCount
    /\ frame[f].temps # <<>> => LastChunk(f)' = LastChunk(f)

(* Such a step leaves a frame's temporaries as they were.                  *)
LEMMA TempsSteady ==
    ASSUME NEW f \in Frame, TempsFull(f), SteadyTemps(f), HoldKept
    PROVE  TempsFull(f)'
  <1>1. f = Top /\ Does(1, "hold") => (f = Top)' /\ Does(1, "hold")'
    BY DEF HoldKept, Does, Top
  <1> QED
    BY <1>1 DEF TempsFull, SteadyTemps

(* A chunk is added to the frame on top.                                   *)
LEMMA TopOfChunk ==
    ASSUME IInv, ChunkDue
    PROVE  Top \in Frame
  <1>1. PICK j \in 1..Len(todo) : todo[j].do = "chunk"
    BY DEF ChunkDue
  <1>2. stack # <<>> /\ stack \in Seq(Frame)
    BY <1>1 DEF IInv, Sound, Typed, StepsSound, StepReady, FrameReady
  <1> QED
    BY <1>2 DEF Top

(* What a step must show that keeps the accounts.                          *)
LEMMA AccountsKept ==
    ASSUME IInv, Accounts, IInv', HoldKept, pending' = Tasks',
           \A f \in Frame : SteadyTemps(f),
           ChunkDue' => ChunkDue /\ stack' = stack,
           \A f \in Frame : In(stack', f) => frame'[f].localCount <= frame'[f].capacity
    PROVE  Accounts'
  <1>1. PendingExact'
    BY TasksNext DEF IInv, Sound, TasksForm
  <1>2. \A f \in Frame : TempsFull(f)'
    BY TempsSteady DEF Accounts
  <1>3. ChunksNeeded'
    <2> SUFFICES ASSUME ChunkDue' PROVE ChunkFull'
      BY DEF ChunksNeeded
    <2>1. ChunkFull /\ Top \in Frame /\ Top' = Top
      BY TopOfChunk DEF Accounts, ChunksNeeded, Top
    <2>2. SteadyTemps(Top)
      BY <2>1
    <2> QED
      BY <2>1, <2>2 DEF ChunkFull, SteadyTemps, LastChunk, Last
  <1>4. IndexFitting'
    BY DEF IndexFitting, In
  <1> QED
    BY <1>1, <1>2, <1>3, <1>4 DEF Accounts

(* Most steps change neither frames nor chunks. *)
LEMMA FramesAlone ==
    ASSUME Accounts, UNCHANGED <<frame, stack, chunk>>
    PROVE  /\ \A f \in Frame : SteadyTemps(f)
           /\ \A f \in Frame : In(stack', f) => frame'[f].localCount <= frame'[f].capacity
  BY DEF SteadyTemps, LastChunk, Accounts, IndexFitting, In

(* Nor does a step that leaves the calls alone ask for a chunk.            *)
LEMMA StepsAlone ==
    ASSUME UNCHANGED <<stack, todo>>
    PROVE  HoldKept /\ (ChunkDue' => ChunkDue /\ stack' = stack)
  BY DEF HoldKept, ChunkDue

(* Before the step, pending counted the tasks.                             *)
LEMMA TasksWere ==
    ASSUME IInv, Accounts
    PROVE  pending = Tasks /\ Tasks \in Nat
  BY TasksCounted DEF IInv, Sound, Accounts, TasksForm

(* rc_drop queues what died and counts it.                                 *)
LEMMA DropsCounted ==
    ASSUME IInv, Accounts, IInv', RcDrop
    PROVE  Accounts'
  <1>1. UNCHANGED <<old, active, frame, stack, frameQueue, chunk, chunkQueue, todo>>
    BY DEF RcDrop, frameVars, chunkVars
  <1>2. pending' = Tasks'
    <2>1. CASE UNCHANGED <<recent, pending>>
      BY <1>1, <2>1, TasksWere DEF Tasks, Visiting
    <2>2. CASE DropNode
      <3>1. recent' = <<falling>> \o recent /\ pending' = pending + 1 /\ falling \in Object
        BY <2>2 DEF DropNode, Mortal
      <3>2. Len(recent') = Len(recent) + 1 /\ Len(recent) \in Nat
        BY <3>1, PushFacts DEF IInv, Sound, Typed
      <3>3. /\ Len(old) \in Nat /\ Len(frameQueue) \in Nat /\ Len(chunkQueue) \in Nat
        <4>1. old \in Seq(Object) /\ frameQueue \in Seq(Frame) /\ chunkQueue \in Seq(Chunk)
          BY DEF IInv, Sound, Typed
        <4> QED
          BY <4>1
      <3>4. Visiting' = Visiting /\ Visiting \in Nat
        BY <1>1 DEF Visiting
      <3> QED
        BY <1>1, <3>1, <3>2, <3>3, <3>4, TasksWere DEF Tasks
    <2> QED
      BY <2>1, <2>2 DEF RcDrop, DropLiteral, DropShared, DropLeaf, DropView
  <1> QED
    BY <1>1, <1>2, FramesAlone, StepsAlone, AccountsKept
-----------------------------------------------------------------------------
(***************************************************************************)
(* Released references and units of cleanup keep the accounts.             *)
(***************************************************************************)
(* The queues and the visited value, as numbers.                           *)
LEMMA QueueTypes ==
    ASSUME IInv
    PROVE  /\ Len(recent) \in Nat /\ Len(old) \in Nat /\ Len(frameQueue) \in Nat
           /\ Len(chunkQueue) \in Nat
           /\ recent \in Seq(Object) /\ old \in Seq(Object) /\ frameQueue \in Seq(Frame)
           /\ chunkQueue \in Seq(Chunk)
           /\ Visiting \in Nat /\ (active' = active => Visiting' = Visiting)
  <1>1. /\ recent \in Seq(Object) /\ old \in Seq(Object) /\ frameQueue \in Seq(Frame)
        /\ chunkQueue \in Seq(Chunk)
    BY DEF IInv, Sound, Typed
  <1>2. Visiting \in Nat /\ (active' = active => Visiting' = Visiting)
    BY DEF Visiting
  <1> QED
    BY <1>1, <1>2

LEMMA QueueLengths ==
    ASSUME IInv
    PROVE  /\ Len(recent) \in Nat /\ Len(old) \in Nat /\ Len(frameQueue) \in Nat
           /\ Len(chunkQueue) \in Nat /\ Visiting \in Nat
  BY QueueTypes

(* Moving the recent values to the old ones loses none.                    *)
LEMMA BatchSums ==
    ASSUME NEW a \in Nat, NEW b \in Nat, NEW c \in Nat, NEW d \in Nat, NEW e \in Int,
           NEW f \in Nat, NEW g \in Nat, NEW v \in Nat, a + b = c + d,
           (v = 1 /\ e = b) \/ (v = 0 /\ e = b - 1)
    PROVE  /\ a + e + 1 + f + g = c + d + v + f + g
           /\ a + e + 0 + f + g = c + d + v + f + g - 1
  OBVIOUS

(* A unit of a poll that visits keeps its task; one that retires it counts *)
(* it down.                                                                *)
LEMMA ObjectUnitCounted ==
    ASSUME IInv, Accounts, falling = None, Ready(0), ObjectUnit
    PROVE  pending' = Tasks'
  <1>1. UNCHANGED <<frameQueue, chunkQueue>>
    BY DEF ObjectUnit, frameVars, chunkVars
  <1>2. pending = Tasks /\ Tasks \in Nat
    BY TasksWere
  <1>3. active # None \/ old # <<>> \/ recent # <<>>
    BY DEF Ready
  <1>4. None \notin Object
    BY ConstantsAssumption
  <1>5. CASE UseRecent /\ RecentObjectUnit
    <2>1. recent # <<>>
      BY <1>5 DEF UseRecent, RecentBatch
    <2>2. UNCHANGED <<old, active>>
      BY <1>5 DEF RecentObjectUnit
    <2>3. CASE UNCHANGED <<recent, pending>>
      BY <1>1, <1>2, <2>2, <2>3, QueueTypes DEF Tasks
    <2>4. CASE recent' = Tail(recent) /\ pending' = pending - 1
      <3>1. Len(recent') = Len(recent) - 1
        BY <2>1, <2>4, QueueTypes, TailFacts
      <3>2. Visiting' = Visiting
        BY <2>2, QueueTypes
      <3>3. Tasks' = Len(recent') + Len(old) + Visiting + Len(frameQueue) + Len(chunkQueue)
        BY <1>1, <2>2, <3>2 DEF Tasks
      <3>4. pending = Len(recent) + Len(old) + Visiting + Len(frameQueue) + Len(chunkQueue)
        BY <1>2 DEF Tasks
      <3> QED
        BY <2>4, <3>1, <3>3, <3>4, QueueLengths
    <2> QED
      BY <1>5, <2>3, <2>4 DEF RecentObjectUnit, RetireUnit
  <1>6. CASE ~ UseRecent /\ OldObjectUnit
    <2> PICK o, c : /\ o = (IF active # None THEN active ELSE OldBatch[1])
                    /\ c = (IF active # None THEN activeCursor ELSE SavedCursor(o))
      OBVIOUS
    <2>1. o # None
      <3>1. o \in Object
        BY OldTask DEF IInv, Sound
      <3> QED
        BY <1>4, <3>1
    <2>2. /\ recent' = RecentBatch
          /\ old' = IF active # None THEN OldBatch ELSE Tail(OldBatch)
          /\ \/ active' = o /\ pending' = pending
             \/ active' = None /\ pending' = pending - 1
      BY <1>6 DEF OldObjectUnit, VisitUnit, RetireUnit
    <2> PICK batch : batch = OldBatch
      OBVIOUS
    <2>3. Len(recent') + Len(batch) = Len(recent) + Len(old) /\ batch \in Seq(Object)
          /\ (active = None => batch # <<>>)
      <3>1. CASE Capture
        <4>1. recent' = <<>> /\ batch = recent /\ old = <<>>
          BY <2>2, <3>1 DEF RecentBatch, OldBatch, Capture
        <4>2. Len(recent') = 0 /\ Len(old) = 0
          BY <4>1
        <4> QED
          BY <1>3, <4>1, <4>2, QueueTypes
      <3>2. CASE ~ Capture
        <4>1. recent' = recent /\ batch = old
          BY <2>2, <3>2 DEF RecentBatch, OldBatch
        <4> QED
          BY <3>2, <4>1, QueueTypes DEF Capture
      <3> QED
        BY <3>1, <3>2
    <2>4. Len(batch) \in Nat /\ Len(recent') \in Nat
      <3>1. recent' = <<>> \/ recent' = recent
        BY <2>2 DEF RecentBatch
      <3>2. Len(<<>>) = 0
        OBVIOUS
      <3> QED
        BY <2>3, <3>1, <3>2, QueueTypes
    <2>5a. \/ Visiting = 1 /\ Len(old') = Len(batch)
           \/ Visiting = 0 /\ Len(old') = Len(batch) - 1
      BY <2>2, <2>3, <2>4, TailFacts DEF Visiting
    <2>5b. Len(recent') + Len(batch) = Len(recent) + Len(old)
      BY <2>3
    <2> PICK a, b, x, d, e, f, g : /\ a = Len(recent') /\ b = Len(batch) /\ x = Len(recent)
                                   /\ d = Len(old) /\ e = Len(old') /\ f = Len(frameQueue)
                                   /\ g = Len(chunkQueue)
      OBVIOUS
    <2>5c. /\ a \in Nat /\ b \in Nat /\ x \in Nat /\ d \in Nat /\ f \in Nat /\ g \in Nat
           /\ Visiting \in Nat
      BY <2>4, QueueLengths
    <2>5d. a + b = x + d /\ ((Visiting = 1 /\ e = b) \/ (Visiting = 0 /\ e = b - 1))
      BY <2>5a, <2>5b
    <2>5e. e \in Int
      BY <2>5c, <2>5d
    <2>5f. /\ a + e + 1 + f + g = x + d + Visiting + f + g
           /\ a + e + 0 + f + g = x + d + Visiting + f + g - 1
      BY ONLY <2>5c, <2>5d, <2>5e, BatchSums
    <2>6. CASE active' = o /\ pending' = pending
      <3>1. Visiting' = 1
        BY <2>1, <2>6 DEF Visiting
      <3>2. Tasks' = Len(recent') + Len(old') + 1 + Len(frameQueue) + Len(chunkQueue)
        BY <1>1, <3>1 DEF Tasks
      <3>3. pending = Len(recent) + Len(old) + Visiting + Len(frameQueue) + Len(chunkQueue)
        BY <1>2 DEF Tasks
      <3> QED
        BY <2>5f, <2>6, <3>2, <3>3
    <2>7. CASE active' = None /\ pending' = pending - 1
      <3>1. Visiting' = 0
        BY <2>7 DEF Visiting
      <3>2. Tasks' = Len(recent') + Len(old') + 0 + Len(frameQueue) + Len(chunkQueue)
        BY <1>1, <3>1 DEF Tasks
      <3>3. pending = Len(recent) + Len(old) + Visiting + Len(frameQueue) + Len(chunkQueue)
        BY <1>2 DEF Tasks
      <3> QED
        BY <2>5f, <2>7, <3>2, <3>3
    <2> QED
      BY <2>2, <2>6, <2>7
  <1> QED
    BY <1>5, <1>6 DEF ObjectUnit

(* A unit on a value keeps the accounts.                                   *)
LEMMA ObjectUnitAccounts ==
    ASSUME IInv, Accounts, IInv', UNCHANGED todo, falling = None, Ready(0), ObjectUnit
    PROVE  Accounts'
  <1>1. UNCHANGED <<frame, stack, chunk>>
    BY DEF ObjectUnit, frameVars, chunkVars
  <1> QED
    BY <1>1, ObjectUnitCounted, FramesAlone, StepsAlone, AccountsKept

(* A frame that is not open has no temporaries. *)
LEMMA DetachedAccounts ==
    ASSUME IInv, Accounts, NEW f \in Frame, Detached(f), NEW r \in FrameRecord,
           frame' = [frame EXCEPT ![f] = r], r.temps = <<>>, r.tempCount = 0,
           UNCHANGED <<stack, chunk>>
    PROVE  /\ \A g \in Frame : SteadyTemps(g)
           /\ \A g \in Frame : In(stack', g) => frame'[g].localCount <= frame'[g].capacity
  <1>1. /\ frame'[f] = r /\ \A g \in Frame \ {f} : frame'[g] = frame[g]
    BY FrameWritten DEF IInv, Sound
  <1>2. frame[f].temps = <<>> /\ ~ In(stack, f)
    BY OffStack DEF IInv, Sound
  <1>3. frame[f].tempCount = 0
    BY <1>2 DEF Accounts, TempsFull
  <1>4. \A g \in Frame : SteadyTemps(g)
    BY <1>1, <1>2, <1>3 DEF SteadyTemps, LastChunk
  <1>5. ASSUME NEW g \in Frame, In(stack', g) PROVE frame'[g].localCount <= frame'[g].capacity
    BY <1>1, <1>2, <1>5 DEF Accounts, IndexFitting, In
  <1> QED
    BY <1>4, <1>5

(* A unit on a retired frame drops one local or retires it.                *)
LEMMA FrameUnitAccounts ==
    ASSUME IInv, Accounts, IInv', UNCHANGED todo, falling = None, Ready(1), FrameUnit
    PROVE  Accounts'
  <1> PICK f : f = frameQueue[1]
    OBVIOUS
  <1> PICK fr : fr = frame[f]
    OBVIOUS
  <1>1. /\ f \in Frame /\ Detached(f) /\ Len(Tail(frameQueue)) = Len(frameQueue) - 1
        /\ Len(frameQueue) \in Nat
    <2>1. frameQueue # <<>>
      BY DEF Ready
    <2> QED
      BY <2>1, QueueTypes, TailFacts DEF Detached
  <1>2. UNCHANGED <<stack, recent, old, active, chunk, chunkQueue>>
    BY DEF FrameUnit, objectQueueVars, chunkVars
  <1>3. fr \in FrameRecord /\ fr.temps = <<>> /\ fr.tempCount = 0
    <2>1. fr \in FrameRecord /\ fr.temps = <<>>
      BY <1>1, OffStack DEF IInv, Sound
    <2> QED
      BY <1>1, <2>1 DEF Accounts, TempsFull
  <1>4. PICK r \in FrameRecord : /\ frame' = [frame EXCEPT ![f] = r]
                                 /\ r.temps = <<>> /\ r.tempCount = 0
    <2>1. CASE /\ fr.localCount > 0
               /\ frame' = [frame EXCEPT ![f].localCount = fr.localCount - 1]
      <3> PICK r : r = [fr EXCEPT !.localCount = fr.localCount - 1]
        OBVIOUS
      <3>1. fr.localCount \in 0..MaxLocals /\ MaxLocals \in Nat
        BY <1>3, ConstantsAssumption DEF FrameRecord
      <3>2. fr.localCount - 1 \in 0..MaxLocals
        BY <2>1, <3>1
      <3>3. r \in FrameRecord /\ r.temps = <<>> /\ r.tempCount = 0
        BY <1>3, <3>2 DEF FrameRecord
      <3>4. frame' = [frame EXCEPT ![f] = r]
        BY <2>1
      <3> QED
        BY <3>3, <3>4
    <2>2. CASE RetireFrame(f) /\ CacheFits(Charge[fr.capacity])
      <3> PICK ls : ls = [i \in Local |-> [fr.locals[i] EXCEPT !.ref = None]]
        OBVIOUS
      <3> PICK r : r = [fr EXCEPT !.locals = ls]
        OBVIOUS
      <3>1. ls \in [Local -> LocalSlot]
        <4>1. \A i \in Local : fr.locals[i] \in [ref : Value, tag : BOOLEAN] /\ None \in Value
          BY <1>3 DEF FrameRecord, LocalSlot, Value
        <4> QED
          BY <4>1 DEF LocalSlot
      <3>2. r \in FrameRecord /\ r.temps = <<>> /\ r.tempCount = 0
        BY <1>3, <3>1 DEF FrameRecord
      <3>3. frame' = [frame EXCEPT ![f] = r]
        BY <2>2 DEF RetireFrame
      <3> QED
        BY <3>2, <3>3
    <2>3. CASE RetireFrame(f) /\ ~ CacheFits(Charge[fr.capacity])
      <3>1. frame' = [frame EXCEPT ![f] = UnusedFrame]
        BY <2>3 DEF RetireFrame
      <3>2. UnusedFrame.tempCount = 0
        BY DEF UnusedFrame
      <3> QED
        BY <3>1, <3>2, UnusedFrameFacts
    <2> QED
      BY <2>1, <2>2, <2>3 DEF FrameUnit
  <1>5. \/ frameQueue' = frameQueue /\ pending' = pending
        \/ frameQueue' = Tail(frameQueue) /\ pending' = pending - 1
    BY DEF FrameUnit, VisitUnit, RetireUnit, RetireFrame
  <1>6. pending' = Tasks'
    <2>1. pending = Tasks /\ Tasks \in Nat
      BY TasksWere
    <2>2. Visiting' = Visiting
      BY <1>2, QueueTypes
    <2> QED
      BY SMTT(60), <1>1, <1>2, <1>5, <2>1, <2>2, QueueLengths DEF Tasks
  <1> QED
    BY <1>1, <1>2, <1>4, <1>6, DetachedAccounts, StepsAlone, AccountsKept

(* A unit on a queued chunk drops one temporary or frees it.               *)
LEMMA ChunkUnitAccounts ==
    ASSUME IInv, Accounts, IInv', UNCHANGED todo, falling = None, Ready(2), ChunkUnit
    PROVE  Accounts'
  <1> PICK c : c = chunkQueue[1]
    OBVIOUS
  <1>1. /\ c \in Chunk /\ In(chunkQueue, c) /\ Len(Tail(chunkQueue)) = Len(chunkQueue) - 1
        /\ Len(chunkQueue) \in Nat
    <2>1. chunkQueue # <<>>
      BY DEF Ready
    <2> QED
      BY <2>1, QueueTypes, TailFacts
  <1>2. UNCHANGED <<stack, frame, recent, old, active, frameQueue>>
    BY DEF ChunkUnit, objectQueueVars, frameVars
  <1>3. /\ \A d \in Chunk \ {c} : chunk'[d] = chunk[d]
        /\ \/ chunkQueue' = chunkQueue /\ pending' = pending
           \/ chunkQueue' = Tail(chunkQueue) /\ pending' = pending - 1
    BY DEF ChunkUnit, VisitUnit, RetireUnit, IInv, Sound, Typed
  <1>4. ASSUME NEW f \in Frame PROVE SteadyTemps(f)
    <2> PICK ts : ts = frame[f].temps
      OBVIOUS
    <2>1. ts \in Seq(Chunk)
      BY DEF IInv, Sound, Typed, FrameRecord
    <2>2. ts # <<>> => ts[Len(ts)] \in Chunk /\ In(ts, ts[Len(ts)])
      BY <2>1 DEF In
    <2>3. ts # <<>> => ts[Len(ts)] # c
      BY <1>1, <2>2 DEF IInv, Sound, ChunkSound
    <2> QED
      BY <1>2, <1>3, <2>2, <2>3 DEF SteadyTemps, LastChunk
  <1>5. \A f \in Frame : In(stack', f) => frame'[f].localCount <= frame'[f].capacity
    BY <1>2 DEF Accounts, IndexFitting, In
  <1>6. pending' = Tasks'
    <2>1. pending = Tasks /\ Tasks \in Nat
      BY TasksWere
    <2>2. Visiting' = Visiting
      BY <1>2, QueueTypes
    <2> QED
      BY SMTT(60), <1>1, <1>2, <1>3, <2>1, <2>2, QueueLengths DEF Tasks
  <1> QED
    BY <1>2, <1>4, <1>5, <1>6, StepsAlone, AccountsKept

(* A poll counts down what it retires and nothing else.                    *)
LEMMA PollsCounted ==
    ASSUME IInv, Accounts, IInv', PollUnit
    PROVE  Accounts'
  <1>1. falling = None /\ todo' = todo
    BY DEF PollUnit
  <1>2. \/ Ready(0) /\ ObjectUnit
        \/ Ready(1) /\ FrameUnit
        \/ Ready(2) /\ ChunkUnit
    <2>1. PICK q \in 0..2 : Selected(q) /\ CASE q = 0 -> ObjectUnit [] q = 1 -> FrameUnit [] q = 2 -> ChunkUnit
      BY DEF PollUnit
    <2>2. q = 0 \/ q = 1 \/ q = 2
      OBVIOUS
    <2> QED
      BY <2>1, <2>2 DEF Selected
  <1> QED
    BY <1>1, <1>2, ObjectUnitAccounts, FrameUnitAccounts, ChunkUnitAccounts
-----------------------------------------------------------------------------
(***************************************************************************)
(* So does every micro-step of a call.                                     *)
(***************************************************************************)
(* The micro-step at the head of a call.                                   *)
LEMMA DoingIs ==
    ASSUME IInv, NEW name, Doing(name), name # "hold"
    PROVE  /\ ~ Does(1, "hold") /\ HoldKept /\ 1 \in 1..Len(todo) /\ todo[1].do = name
           /\ todo # <<>> /\ todo \in Seq(MicroStep)
  <1>1. todo # <<>> /\ todo[1].do = name /\ todo \in Seq(MicroStep)
    BY DEF Doing, Now, IInv, Sound, Typed
  <1>2. 1 \in 1..Len(todo)
    BY <1>1
  <1> QED
    BY <1>1, <1>2 DEF Does, HoldKept

(* Completing a step adds none.                                            *)
LEMMA ChunkWasDue ==
    ASSUME IInv, todo # <<>>, todo' = Tail(todo)
    PROVE  ChunkDue' => ChunkDue
  <1>1. todo \in Seq(MicroStep)
    BY DEF IInv, Sound, Typed
  <1>2. Len(Tail(todo)) = Len(todo) - 1 /\ Len(todo) \in Nat \ {0}
        /\ \A i \in 1..(Len(todo) - 1) : Tail(todo)[i] = todo[i + 1]
    BY <1>1, TailFacts
  <1> SUFFICES ASSUME ChunkDue' PROVE ChunkDue
    OBVIOUS
  <1>3. PICK i \in 1..Len(Tail(todo)) : Tail(todo)[i].do = "chunk"
    BY DEF ChunkDue
  <1>4. i + 1 \in 1..Len(todo) /\ todo[i + 1].do = "chunk"
    BY <1>2, <1>3
  <1> QED
    BY <1>4 DEF ChunkDue

(* The closing steps of a call come after its chunk.                       *)
LEMMA NoChunkLeft ==
    ASSUME IInv, todo # <<>>, todo[1].do \in Closing \cup {"chunk"}, todo' = Tail(todo)
    PROVE  ~ ChunkDue'
  <1>1. todo \in Seq(MicroStep) /\ StepsFormed
    BY DEF IInv, Sound, Typed, StepsSound
  <1>2. Len(Tail(todo)) = Len(todo) - 1 /\ Len(todo) \in Nat \ {0}
        /\ \A i \in 1..(Len(todo) - 1) : Tail(todo)[i] = todo[i + 1]
    BY <1>1, TailFacts
  <1> SUFFICES ASSUME ChunkDue' PROVE FALSE
    OBVIOUS
  <1>3. PICK i \in 1..Len(Tail(todo)) : Tail(todo)[i].do = "chunk"
    BY DEF ChunkDue
  <1>4. i + 1 \in 1..Len(todo) /\ todo[i + 1].do = "chunk" /\ 1 \in 1..Len(todo) /\ 1 < i + 1
    BY <1>2, <1>3
  <1>5. \A a, b \in 1..Len(todo) : a < b /\ todo[a].do \in Closing => todo[b].do \in {"rest", "service"}
    BY <1>1 DEF StepsFormed
  <1>6. todo[1].do = "chunk"
    BY <1>4, <1>5
  <1>7. 2 \in 1..Len(todo) /\ todo[2].do = "hold"
    BY <1>1, <1>4, <1>6 DEF StepsFormed, Does
  <1>8. 2 < i + 1
    BY <1>3, <1>4, <1>7
  <1> QED
    BY <1>4, <1>5, <1>7, <1>8 DEF Closing

(* Micro-steps that change neither frames, chunks nor queues. *)
LEMMA PlainAccounts ==
    ASSUME IInv, Accounts, IInv', NEW name, Doing(name), name # "hold",
           todo' = Tail(todo) \/ todo' = Stop,
           UNCHANGED <<recent, old, active, frame, stack, frameQueue, chunk, chunkQueue, pending>>
    PROVE  Accounts'
  <1>1. HoldKept /\ todo # <<>>
    BY DoingIs
  <1>2. pending' = Tasks'
    BY TasksWere DEF Tasks, Visiting
  <1>3. ChunkDue' => ChunkDue /\ stack' = stack
    <2>1. CASE todo' = Tail(todo)
      BY <1>1, <2>1, ChunkWasDue
    <2>2. CASE todo' = Stop
      <3>1. Len(todo') = 1 /\ todo'[1].do = "stop"
        BY <2>2 DEF Stop, Op
      <3> QED
        BY <3>1 DEF ChunkDue
    <2> QED
      BY <2>1, <2>2
  <1> QED
    BY <1>1, <1>2, <1>3, FramesAlone, AccountsKept

(* The micro-steps that are plain in this sense.                           *)
Plain ==
    \/ DoService \/ DoRest \/ DoAllocate \/ DoRetain \/ DoResult \/ DoBacking
    \/ DoTake \/ DoGrow \/ DoRelease \/ DoReferences \/ DoAppend \/ DoReplace \/ DoField

LEMMA PlainCounted ==
    ASSUME IInv, Accounts, IInv', Plain
    PROVE  Accounts'
  <1>1. \E name \in {"service", "rest", "allocate", "retain", "result", "backing", "take", "grow",
                     "release", "references", "append", "replace", "field"} : Doing(name)
    BY DEF Plain, DoService, DoRest, DoAllocate, DoRetain, DoResult, DoBacking, DoTake, DoGrow,
           DoRelease, DoReferences, DoAppend, DoReplace, DoField
  <1>2. /\ todo' = Tail(todo) \/ todo' = Stop
        /\ UNCHANGED <<recent, old, active, frame, stack, frameQueue, chunk, chunkQueue, pending>>
    BY DEF Plain, DoService, DoRest, DoAllocate, DoRetain, DoResult, DoBacking, DoTake, DoGrow,
           DoRelease, DoReferences, DoAppend, DoReplace, DoField, OnHeap, objectQueueVars,
           frameVars, chunkVars
  <1> QED
    BY <1>1, <1>2, PlainAccounts

(* minyar_rc_local_take writes within the room of its frame.               *)
LEMMA LocalCounted ==
    ASSUME IInv, Accounts, IInv', DoLocal
    PROVE  Accounts'
  <1>1. /\ Doing("local") /\ todo' = Tail(todo)
        /\ UNCHANGED <<recent, old, active, stack, frameQueue, chunk, chunkQueue, pending>>
        /\ frame' = [frame EXCEPT ![Top] = TakeLocal(@, Now.index, hand)]
    BY DEF DoLocal, objectQueueVars, chunkVars
  <1>2. HoldKept /\ todo # <<>>
    BY <1>1, DoingIs
  <1>3. pending' = Tasks'
    BY <1>1, TasksWere DEF Tasks, Visiting
  <1>4. ASSUME NEW f \in Frame
        PROVE  /\ frame'[f].temps = frame[f].temps /\ frame'[f].tempCount = frame[f].tempCount
               /\ frame'[f].localCount = frame[f].localCount
               /\ frame'[f].capacity = frame[f].capacity
    <2>1. frame \in [Frame -> FrameRecord]
      BY DEF IInv, Sound, Typed
    <2>2. CASE f = Top
      <3>1. frame'[f] = TakeLocal(frame[f], Now.index, hand) /\ frame[f] \in FrameRecord
        BY <1>1, <2>1, <2>2
      <3> QED
        BY <3>1 DEF TakeLocal, FrameRecord
    <2>3. CASE f # Top
      BY <1>1, <2>1, <2>3
    <2> QED
      BY <2>2, <2>3
  <1>5. \A f \in Frame : SteadyTemps(f)
    BY <1>1, <1>4 DEF SteadyTemps, LastChunk
  <1>6. \A f \in Frame : In(stack', f) => frame'[f].localCount <= frame'[f].capacity
    BY <1>1, <1>4 DEF Accounts, IndexFitting, In
  <1>7. ChunkDue' => ChunkDue /\ stack' = stack
    BY <1>1, <1>2, ChunkWasDue
  <1> QED
    BY <1>2, <1>3, <1>5, <1>6, <1>7, AccountsKept

(* The accounts after a step that adds or fills a chunk.                   *)
LEMMA AccountsNext ==
    ASSUME IInv', pending' = Tasks', \A f \in Frame : TempsFull(f)', ~ ChunkDue',
           \A f \in Frame : In(stack', f) => frame'[f].localCount <= frame'[f].capacity
    PROVE  Accounts'
  <1>1. PendingExact'
    BY TasksNext DEF IInv, Sound, TasksForm
  <1>2. ChunksNeeded'
    BY DEF ChunksNeeded
  <1>3. IndexFitting'
    BY DEF IndexFitting, In
  <1> QED
    BY <1>1, <1>2, <1>3 DEF Accounts

(* The frames below keep their temporaries.                                *)
LEMMA OtherTemps ==
    ASSUME NEW f \in Frame, TempsFull(f), SteadyTemps(f), f # Top
    PROVE  TempsFull(f)'
  BY DEF TempsFull, SteadyTemps

(* A new list of chunks changes nothing else of a frame.                   *)
LEMMA TempCountKept ==
    ASSUME NEW fr \in FrameRecord, NEW ts \in Seq(Chunk)
    PROVE  /\ [fr EXCEPT !.temps = ts].tempCount = fr.tempCount
           /\ [fr EXCEPT !.temps = ts].capacity = fr.capacity
           /\ [fr EXCEPT !.temps = ts].localCount = fr.localCount
           /\ [fr EXCEPT !.temps = ts].temps = ts
  BY DEF FrameRecord

(* A new chunk is empty, and all before it are full.                       *)
LEMMA ChunkCounted ==
    ASSUME IInv, Accounts, IInv', DoChunk
    PROVE  Accounts'
  <1> PICK f, c : f = Top /\ c = NewChunk
    OBVIOUS
  <1> PICK fr, ts : fr = frame[f] /\ ts = Append(frame[f].temps, c)
    OBVIOUS
  <1> PICK r : r = [fr EXCEPT !.temps = ts]
    OBVIOUS
  <1>1. /\ Doing("chunk") /\ todo' = Tail(todo)
        /\ UNCHANGED <<recent, old, active, stack, frameQueue, chunkQueue, pending>>
    BY DEF DoChunk, objectQueueVars
  <1>2. /\ Typed /\ FrameSound /\ ChunkSound /\ FrameReady(1)
        /\ StepsFormed /\ todo[1] = Now /\ Now.do = "chunk" /\ todo # <<>>
        /\ 1 \in 1..Len(todo)
    BY <1>1, DoingFacts
  <1>3. stack # <<>> /\ UnusedChunks # {}
    BY <1>2 DEF FrameReady
  <1>4. c \in UnusedChunks
    BY <1>3 DEF NewChunk
  <1>5. c \in Chunk /\ chunk[c] = <<>>
    BY <1>2, <1>4, UnusedChunkFacts
  <1>6. /\ f \in Frame /\ In(stack, f) /\ fr \in FrameRecord /\ fr.temps \in Seq(Chunk)
        /\ fr.tempCount \in Nat
    BY <1>2, <1>3, TopFacts
  <1>7. chunk' = chunk
    <2>1. chunk' = [chunk EXCEPT ![c] = chunk[c]]
      BY <1>5 DEF DoChunk
    <2> QED
      BY <1>2, <1>5, <2>1 DEF Typed
  <1>8. frame' = [frame EXCEPT ![f] = r]
    BY DEF DoChunk
  <1>9. ts \in Seq(Chunk) /\ ts # <<>> /\ Len(ts) = Len(fr.temps) + 1 /\ ts[Len(ts)] = c
    BY <1>5, <1>6
  <1>10. /\ r.tempCount = fr.tempCount /\ r.capacity = fr.capacity
         /\ r.localCount = fr.localCount /\ r.temps = ts
    BY <1>6, <1>9, TempCountKept
  <1>11. frame'[f] = r /\ \A g \in Frame \ {f} : frame'[g] = frame[g]
    BY <1>2, <1>6, <1>8 DEF Typed
  <1>12. ChunkFull
    BY <1>2 DEF Accounts, ChunksNeeded, ChunkDue
  <1>13. fr.tempCount = ChunkSlots * Len(fr.temps)
    <2>1. TempsFull(f)
      BY <1>6 DEF Accounts
    <2>2. CASE fr.temps = <<>>
      <3>1. fr.tempCount = 0 /\ Len(fr.temps) = 0
        BY <2>1, <2>2 DEF TempsFull
      <3> QED
        BY <3>1, ConstantsAssumption
    <2>3. CASE fr.temps # <<>>
      <3>1. Len(chunk[fr.temps[Len(fr.temps)]]) = ChunkSlots
        BY <1>12, <2>3 DEF ChunkFull, Last
      <3>2. fr.tempCount = ChunkSlots * (Len(fr.temps) - 1) + ChunkSlots
        BY <2>1, <2>3, <3>1 DEF TempsFull, LastChunk
      <3>3. Len(fr.temps) \in Nat /\ ChunkSlots \in Nat
        BY <1>6, ConstantsAssumption
      <3> QED
        BY SMTT(60), <3>2, <3>3
    <2> QED
      BY <2>2, <2>3
  <1>14. Does(1, "hold")' /\ ~ ChunkDue'
    <2>1. 2 \in 1..Len(todo) /\ todo[2].do = "hold"
      BY <1>2 DEF StepsFormed, Does
    <2>2. todo \in Seq(MicroStep)
      BY <1>2 DEF Typed
    <2>3. Len(todo') = Len(todo) - 1 /\ todo'[1] = todo[2] /\ Len(todo) \in Nat
      BY <1>1, <2>1, <2>2
    <2>4. ~ ChunkDue'
      BY <1>1, <1>2, NoChunkLeft
    <2> QED
      BY <2>1, <2>3, <2>4 DEF Does
  <1>15. TempsFull(f)'
    <2>1. Len(ts) - 1 = Len(fr.temps) /\ Len(fr.temps) \in Nat
      BY <1>6, <1>9
    <2>2. LastChunk(f)' = <<>>
      BY <1>5, <1>7, <1>9, <1>10, <1>11 DEF LastChunk
    <2>3. Len(LastChunk(f)') = 0
      BY <2>2
    <2>4. frame'[f].temps = ts /\ frame'[f].tempCount = ChunkSlots * (Len(ts) - 1) + 0
      <3>1. ChunkSlots * Len(fr.temps) \in Nat
        <4>1. ChunkSlots \in Nat
          BY ConstantsAssumption
        <4> QED
          BY <1>6, <4>1
      <3> QED
        BY <1>10, <1>11, <1>13, <2>1, <3>1
    <2>5. f = Top'
      BY <1>1 DEF Top
    <2> QED
      BY <1>9, <1>14, <2>3, <2>4, <2>5 DEF TempsFull
  <1>16. ASSUME NEW g \in Frame, g # f PROVE TempsFull(g)'
    BY <1>7, <1>11, <1>16, OtherTemps DEF SteadyTemps, LastChunk, Accounts
  <1>17. \A g \in Frame : TempsFull(g)'
    BY <1>15, <1>16
  <1>18. pending' = Tasks'
    BY <1>1, TasksWere DEF Tasks, Visiting
  <1>19. ASSUME NEW g \in Frame, In(stack', g)
        PROVE  frame'[g].localCount <= frame'[g].capacity
    <2>1. frame[g].localCount <= frame[g].capacity
      BY <1>1, <1>19 DEF Accounts, IndexFitting
    <2>2. /\ frame'[g].localCount = frame[g].localCount
          /\ frame'[g].capacity = frame[g].capacity
      <3>1. CASE g = f
        BY <1>1, <1>10, <1>11, <3>1
      <3>2. CASE g # f
        BY <1>1, <1>10, <1>11, <3>2
      <3> QED
        BY <3>1, <3>2
    <2> QED
      BY <2>1, <2>2
  <1> QED
    BY <1>14, <1>17, <1>18, <1>19, AccountsNext

(* A new number of temporaries changes nothing else of a frame.            *)
LEMMA TempCounted ==
    ASSUME NEW fr \in FrameRecord, NEW n \in Nat
    PROVE  /\ [fr EXCEPT !.tempCount = n].tempCount = n
           /\ [fr EXCEPT !.tempCount = n].capacity = fr.capacity
           /\ [fr EXCEPT !.tempCount = n].localCount = fr.localCount
           /\ [fr EXCEPT !.tempCount = n].temps = fr.temps
  BY DEF FrameRecord

(* A temporary goes to the last chunk, which has room.                     *)
LEMMA HoldCounted ==
    ASSUME IInv, Accounts, IInv', DoHold
    PROVE  Accounts'
  <1> PICK f : f = Top
    OBVIOUS
  <1> PICK fr, c : fr = frame[f] /\ c = Last(frame[f].temps)
    OBVIOUS
  <1> PICK r, n : r = [fr EXCEPT !.tempCount = fr.tempCount + 1] /\ n = Len(chunk[c])
    OBVIOUS
  <1> PICK vs : vs = Append(chunk[c], hand)
    OBVIOUS
  <1>1. /\ Doing("hold") /\ todo' = Tail(todo)
        /\ UNCHANGED <<recent, old, active, stack, frameQueue, chunkQueue, pending>>
    BY DEF DoHold, objectQueueVars
  <1>2. chunk' = [chunk EXCEPT ![c] = vs] /\ frame' = [frame EXCEPT ![f] = r]
    BY DEF DoHold
  <1>3. /\ Typed /\ FrameSound /\ ChunkSound /\ FrameReady(1)
        /\ todo[1] = Now /\ Now.do = "hold" /\ todo # <<>>
    BY <1>1, DoingFacts
  <1>4. stack # <<>> /\ fr.temps # <<>> /\ n < ChunkSlots
    BY <1>3 DEF FrameReady
  <1>5. /\ f \in Frame /\ In(stack, f) /\ fr \in FrameRecord /\ fr.temps \in Seq(Chunk)
        /\ fr.tempCount \in Nat
    BY <1>3, <1>4, TopFacts
  <1>6. c \in Chunk /\ In(fr.temps, c) /\ c = fr.temps[Len(fr.temps)]
    BY <1>4, <1>5, FrontFacts DEF Last
  <1>7. /\ r.tempCount = fr.tempCount + 1 /\ r.capacity = fr.capacity
        /\ r.localCount = fr.localCount /\ r.temps = fr.temps
    <2>1. fr.tempCount + 1 \in Nat
      BY <1>5
    <2> QED
      BY <1>5, <2>1, TempCounted
  <1>8. frame'[f] = r /\ \A g \in Frame \ {f} : frame'[g] = frame[g]
    BY <1>2, <1>3, <1>5 DEF Typed
  <1>9. Len(vs) = n + 1 /\ n \in Nat
    BY SMTT(60), <1>3, <1>6 DEF Typed
  <1>10. chunk'[c] = vs /\ \A d \in Chunk \ {c} : chunk'[d] = chunk[d]
    BY <1>2, <1>3, <1>6 DEF Typed
  <1>11. TempsFull(f)'
    <2>1. TempsFull(f)
      BY <1>5 DEF Accounts
    <2>2. fr.tempCount = ChunkSlots * (Len(fr.temps) - 1) + n
      BY <1>4, <1>6, <2>1 DEF TempsFull, LastChunk
    <2>3. LastChunk(f)' = vs
      <3>1. frame'[f].temps = fr.temps
        BY <1>7, <1>8
      <3>2. chunk'[fr.temps[Len(fr.temps)]] = vs
        BY <1>6, <1>10
      <3> QED
        BY <3>1, <3>2 DEF LastChunk
    <2>4. r.tempCount = ChunkSlots * (Len(fr.temps) - 1) + (n + 1)
      <3>1. ChunkSlots * (Len(fr.temps) - 1) \in Int
        BY <1>5, ConstantsAssumption
      <3> QED
        BY <1>7, <1>9, <2>2, <3>1
    <2>5. Len(vs) > 0
      BY <1>9
    <2> QED
      BY <1>4, <1>7, <1>8, <1>9, <2>3, <2>4, <2>5 DEF TempsFull
  <1>12. ASSUME NEW g \in Frame, g # f PROVE TempsFull(g)'
    <2> PICK us : us = frame[g].temps
      OBVIOUS
    <2>1. us \in Seq(Chunk)
      BY <1>3 DEF Typed, FrameRecord
    <2>2. us # <<>> => us[Len(us)] \in Chunk /\ In(us, us[Len(us)])
      BY SMTT(60), <2>1 DEF In
    <2>3. us # <<>> => us[Len(us)] # c
      BY <1>3, <1>5, <1>6, <1>12, <2>2 DEF ChunkSound
    <2>4. SteadyTemps(g)
      BY <1>8, <1>10, <1>12, <2>2, <2>3 DEF SteadyTemps, LastChunk
    <2> QED
      BY <1>12, <2>4, OtherTemps DEF Accounts
  <1>13. \A g \in Frame : TempsFull(g)'
    BY <1>11, <1>12
  <1>14. ~ ChunkDue'
    BY <1>1, <1>3, NoChunkLeft DEF Closing
  <1>15. pending' = Tasks'
    BY <1>1, TasksWere DEF Tasks, Visiting
  <1>16. ASSUME NEW g \in Frame, In(stack', g)
        PROVE  frame'[g].localCount <= frame'[g].capacity
    <2>1. frame[g].localCount <= frame[g].capacity
      BY <1>1, <1>16 DEF Accounts, IndexFitting
    <2>2. /\ frame'[g].localCount = frame[g].localCount
          /\ frame'[g].capacity = frame[g].capacity
      <3>1. CASE g = f
        BY <1>1, <1>7, <1>8, <3>1
      <3>2. CASE g # f
        BY <1>1, <1>7, <1>8, <3>2
      <3> QED
        BY <3>1, <3>2
    <2> QED
      BY <2>1, <2>2
  <1> QED
    BY <1>13, <1>14, <1>15, <1>16, AccountsNext

(* A frame opens with no temporaries and enough capacity.                  *)
LEMMA OpenedAccount ==
    ASSUME NEW fr \in FrameRecord, NEW n \in 0..MaxLocals, NEW b \in BOOLEAN,
           NEW r, r = OpenFrame(fr, n, b)
    PROVE  /\ r.temps = fr.temps /\ r.tempCount = 0 /\ r.localCount = n
           /\ r.localCount <= r.capacity
  <1>1. fr.capacity \in 0..MaxLocals /\ MaxLocals \in Nat
    BY ConstantsAssumption DEF FrameRecord
  <1> QED
    BY <1>1 DEF OpenFrame

(* minyar_rc_enter and its variant on the C stack.                         *)
LEMMA EnterCounted ==
    ASSUME IInv, Accounts, IInv', DoEnter \/ DoEnterStack
    PROVE  Accounts'
  <1>1. PICK name \in {"enter", "enterStack"}, f \in Frame, b \in BOOLEAN :
           /\ Doing(name) /\ todo' = Tail(todo) /\ ~ In(stack, f)
           /\ frame' = [frame EXCEPT ![f] = OpenFrame(@, Now.index, b)]
           /\ stack' = <<f>> \o stack
    <2>1. Typed /\ FrameSound
      BY DEF IInv, Sound
    <2>2. CASE DoEnter /\ freeFrames # <<>>
      <3> PICK f : f = freeFrames[1]
        OBVIOUS
      <3>1. /\ Doing("enter") /\ todo' = Tail(todo)
            /\ frame' = [frame EXCEPT ![f] = OpenFrame(@, Now.index, FALSE)]
            /\ stack' = <<f>> \o stack
        BY <2>2 DEF DoEnter
      <3>2. freeFrames \in Seq(Frame)
        BY <2>1 DEF Typed
      <3>3. f \in Frame /\ In(freeFrames, f)
        BY <2>2, <3>2, TailFacts
      <3>4. ~ In(stack, f)
        BY <2>1, <3>3 DEF FrameSound, FrameShape
      <3> QED
        BY <3>1, <3>3, <3>4
    <2>3. CASE DoEnter /\ freeFrames = <<>>
      <3>1. Doing("enter") /\ FrameReady(1) /\ todo[1].do = "enter"
        <4>1. Doing("enter")
          BY <2>3 DEF DoEnter
        <4> QED
          BY <4>1, DoingFacts
      <3>2. NewFrame \in Frame /\ ~ In(stack, NewFrame)
        BY <2>1, <2>3, <3>1, UnusedFrameSound DEF FrameReady
      <3> QED
        BY <2>3, <3>1, <3>2 DEF DoEnter
    <2>4. CASE DoEnterStack
      <3>1. Doing("enterStack") /\ FrameReady(1) /\ todo[1].do = "enterStack"
        <4>1. Doing("enterStack")
          BY <2>4 DEF DoEnterStack
        <4> QED
          BY <4>1, DoingFacts
      <3>2. NewFrame \in Frame /\ ~ In(stack, NewFrame)
        BY <2>1, <2>4, <3>1, UnusedFrameSound DEF FrameReady
      <3> QED
        BY <2>4, <3>1, <3>2 DEF DoEnterStack
    <2> QED
      BY <2>2, <2>3, <2>4
  <1>2. /\ UNCHANGED <<recent, old, active, frameQueue, chunk, chunkQueue, pending>>
    BY DEF DoEnter, DoEnterStack, objectQueueVars, chunkVars
  <1>3. /\ Typed /\ FrameSound /\ FrameReady(1) /\ todo[1] = Now /\ Now.do = name /\ todo # <<>>
    BY <1>1, DoingFacts
  <1> PICK fr, n : fr = frame[f] /\ n = Now.index
    OBVIOUS
  <1> PICK r : r = OpenFrame(fr, n, b)
    OBVIOUS
  <1>4. fr \in FrameRecord /\ n \in 0..MaxLocals
    BY <1>1, <1>3 DEF Typed, FrameReady
  <1>5. /\ r.temps = fr.temps /\ r.tempCount = 0 /\ r.localCount <= r.capacity
    BY <1>4, OpenedAccount
  <1>6. frame'[f] = r /\ \A g \in Frame \ {f} : frame'[g] = frame[g]
    BY <1>1, <1>3 DEF Typed
  <1>7. fr.temps = <<>> /\ fr.tempCount = 0
    <2>1. fr.temps = <<>>
      BY <1>1, <1>3 DEF FrameSound, FrameShape
    <2> QED
      BY <1>1, <2>1 DEF Accounts, TempsFull
  <1>8. ASSUME NEW g \in Frame PROVE SteadyTemps(g)
    <2>1. CASE g = f
      BY <1>5, <1>6, <1>7, <2>1 DEF SteadyTemps
    <2>2. CASE g # f
      BY <1>2, <1>6, <2>2 DEF SteadyTemps, LastChunk
    <2> QED
      BY <2>1, <2>2
  <1>9. ASSUME NEW g \in Frame, In(stack', g)
        PROVE  frame'[g].localCount <= frame'[g].capacity
    <2>1. CASE g = f
      BY <1>5, <1>6, <2>1
    <2>2. CASE g # f
      <3>1. In(stack, g)
        <4>1. stack \in Seq(Frame)
          BY <1>3 DEF Typed
        <4>2. \A x : In(stack', x) <=> x = f \/ In(stack, x)
          BY <1>1, <4>1, PushFacts
        <4> QED
          BY <1>9, <2>2, <4>2
      <3> QED
        BY <1>6, <2>2, <3>1 DEF Accounts, IndexFitting
    <2> QED
      BY <2>1, <2>2
  <1>10. HoldKept
    BY <1>1, DoingIs
  <1>11. ~ ChunkDue'
    BY <1>1, <1>3, NoChunkLeft DEF Closing
  <1>12. pending' = Tasks'
    BY <1>2, TasksWere DEF Tasks, Visiting
  <1> QED
    BY <1>8, <1>9, <1>10, <1>11, <1>12, AccountsKept

(* A frame on the C stack drops its locals on the way out.                 *)
LEMMA DropLocalsCounted ==
    ASSUME IInv, Accounts, IInv', DoDropLocals
    PROVE  Accounts'
  <1> PICK f : f = Now.target
    OBVIOUS
  <1> PICK fr : fr = frame[f]
    OBVIOUS
  <1>1. /\ Doing("dropLocals")
        /\ UNCHANGED <<recent, old, active, stack, frameQueue, chunk, chunkQueue, pending>>
        /\ \/ /\ fr.localCount > 0 /\ todo' = todo
              /\ frame' = [frame EXCEPT ![f].localCount = fr.localCount - 1]
           \/ frame' = [frame EXCEPT ![f] = UnusedFrame] /\ todo' = Tail(todo)
    BY DEF DoDropLocals, objectQueueVars, chunkVars
  <1>2. /\ Typed /\ FrameSound /\ todo # <<>> /\ Now \in MicroStep
        /\ todo[1] = Now /\ Now.do = "dropLocals"
    BY <1>1, DoingFacts
  <1>3. f \in Frame /\ Dropping(f) /\ Detached(f)
    BY <1>2, StepTypes DEF Dropping, Detached
  <1>4. fr \in FrameRecord /\ fr.temps = <<>> /\ fr.tempCount = 0
    <2>1. fr \in FrameRecord /\ fr.temps = <<>>
      BY <1>2, <1>3, OffStack
    <2> QED
      BY <1>3, <2>1 DEF Accounts, TempsFull
  <1>5. PICK r \in FrameRecord : /\ frame' = [frame EXCEPT ![f] = r]
                                 /\ r.temps = <<>> /\ r.tempCount = 0
    <2>1. CASE /\ fr.localCount > 0
               /\ frame' = [frame EXCEPT ![f].localCount = fr.localCount - 1]
      <3> PICK r : r = [fr EXCEPT !.localCount = fr.localCount - 1]
        OBVIOUS
      <3>1. fr.localCount \in 0..MaxLocals /\ MaxLocals \in Nat
        BY <1>4, ConstantsAssumption DEF FrameRecord
      <3>2. fr.localCount - 1 \in 0..MaxLocals
        BY <2>1, <3>1
      <3>3. r \in FrameRecord /\ r.temps = <<>> /\ r.tempCount = 0
        BY <1>4, <3>2 DEF FrameRecord
      <3>4. frame' = [frame EXCEPT ![f] = r]
        BY <2>1
      <3> QED
        BY <3>3, <3>4
    <2>2. CASE frame' = [frame EXCEPT ![f] = UnusedFrame]
      <3>1. UnusedFrame.tempCount = 0
        BY DEF UnusedFrame
      <3> QED
        BY <2>2, <3>1, UnusedFrameFacts
    <2> QED
      BY <1>1, <2>1, <2>2
  <1>6. HoldKept
    BY <1>1, DoingIs
  <1>7. ChunkDue' => ChunkDue /\ stack' = stack
    <2>1. CASE todo' = todo
      BY <1>1, <2>1 DEF ChunkDue
    <2>2. CASE todo' = Tail(todo)
      BY <1>1, <1>2, <2>2, ChunkWasDue
    <2> QED
      BY <1>1, <2>1, <2>2
  <1>8. pending' = Tasks'
    BY <1>1, TasksWere DEF Tasks, Visiting
  <1>9. /\ \A g \in Frame : SteadyTemps(g)
        /\ \A g \in Frame : In(stack', g) => frame'[g].localCount <= frame'[g].capacity
    BY <1>1, <1>3, <1>5, DetachedAccounts
  <1> QED
    BY <1>6, <1>7, <1>8, <1>9, AccountsKept

(* Every micro-step of a call.                                             *)
LEMMA ResumeCounted ==
    ASSUME IInv, Accounts, IInv', Resume
    PROVE  Accounts'
  BY PlainCounted, LocalCounted, ChunkCounted, HoldCounted, EnterCounted, DropLocalsCounted
     DEF Resume, Plain
-----------------------------------------------------------------------------
(***************************************************************************)
(* So does every call of the program, by the steps it is made of.          *)
(***************************************************************************)
(* A call whose steps avoid N. *)
Without(N, s) == (\E S : s \in Seq(S)) /\ \A i \in 1..Len(s) : s[i] \notin N

LEMMA WithoutOne ==
    ASSUME NEW N, NEW x, x \notin N
    PROVE  Without(N, <<x>>)
  <1>1. <<x>> \in Seq({x}) /\ Len(<<x>>) = 1 /\ <<x>>[1] = x
    OBVIOUS
  <1>2. \A i \in 1..Len(<<x>>) : <<x>>[i] \notin N
    BY <1>1
  <1> QED
    BY <1>1, <1>2 DEF Without

LEMMA WithoutJoin ==
    ASSUME NEW N, NEW s, NEW t, Without(N, s), Without(N, t)
    PROVE  Without(N, s \o t)
  <1>1. PICK S, T : s \in Seq(S) /\ t \in Seq(T)
    BY DEF Without
  <1>2. s \in Seq(S \cup T) /\ t \in Seq(S \cup T)
    BY <1>1
  <1>3. /\ s \o t \in Seq(S \cup T) /\ Len(s \o t) = Len(s) + Len(t)
        /\ Len(s) \in Nat /\ Len(t) \in Nat
        /\ \A i \in 1..Len(s) : (s \o t)[i] = s[i]
        /\ \A i \in 1..Len(t) : (s \o t)[Len(s) + i] = t[i]
    BY <1>2, ConcatAt
  <1> PICK u, m, n : u = s \o t /\ m = Len(s) /\ n = Len(t)
    OBVIOUS
  <1>4. /\ m \in Nat /\ n \in Nat /\ Len(u) = m + n
        /\ \A i \in 1..m : u[i] \notin N
        /\ \A i \in 1..n : u[m + i] \notin N
    BY <1>3 DEF Without
  <1>5. ASSUME NEW i \in 1..Len(u) PROVE u[i] \notin N
    <2>1. CASE i <= m
      BY <1>4, <2>1
    <2>2. CASE i > m
      <3>1. i - m \in 1..n /\ m + (i - m) = i
        BY <1>4, <2>2
      <3> QED
        BY <1>4, <3>1
    <2> QED
      BY <1>4, <2>1, <2>2
  <1> QED
    BY <1>3, <1>5 DEF Without

LEMMA WithoutNone ==
    ASSUME NEW N
    PROVE  Without(N, <<>>)
  <1>1. <<>> \in Seq({}) /\ Len(<<>>) = 0
    OBVIOUS
  <1> QED
    BY <1>1 DEF Without

LEMMA WithoutTwo ==
    ASSUME NEW N, NEW x, NEW y, x \notin N, y \notin N
    PROVE  Without(N, <<x, y>>)
  <1> PICK s : s = <<x, y>>
    OBVIOUS
  <1>1. s \in Seq({x, y}) /\ Len(s) = 2
    OBVIOUS
  <1>2. s[1] = x /\ s[2] = y
    OBVIOUS
  <1>3. ASSUME NEW i \in 1..Len(s) PROVE s[i] \notin N
    <2>1. i = 1 \/ i = 2
      BY <1>1
    <2> QED
      BY <1>2, <2>1
  <1> QED
    BY <1>1, <1>3 DEF Without

LEMMA WithoutThree ==
    ASSUME NEW N, NEW x, NEW y, NEW z, x \notin N, y \notin N, z \notin N
    PROVE  Without(N, <<x, y, z>>)
  <1> PICK s : s = <<x, y, z>>
    OBVIOUS
  <1>1. s \in Seq({x, y, z}) /\ Len(s) = 3
    OBVIOUS
  <1>2. s[1] = x /\ s[2] = y /\ s[3] = z
    OBVIOUS
  <1>3. ASSUME NEW i \in 1..Len(s) PROVE s[i] \notin N
    <2>1. i = 1 \/ i = 2 \/ i = 3
      BY <1>1
    <2> QED
      BY <1>2, <2>1
  <1> QED
    BY <1>1, <1>3 DEF Without

LEMMA WithoutFive ==
    ASSUME NEW N, NEW x, NEW y, NEW z, NEW w, NEW u,
           x \notin N, y \notin N, z \notin N, w \notin N, u \notin N
    PROVE  Without(N, <<x, y, z, w, u>>)
  <1> PICK s : s = <<x, y, z, w, u>>
    OBVIOUS
  <1>1. s \in Seq({x, y, z, w, u}) /\ Len(s) = 5
    OBVIOUS
  <1>2. s[1] = x /\ s[2] = y /\ s[3] = z /\ s[4] = w /\ s[5] = u
    OBVIOUS
  <1>3. ASSUME NEW i \in 1..Len(s) PROVE s[i] \notin N
    <2>1. i = 1 \/ i = 2 \/ i = 3 \/ i = 4 \/ i = 5
      BY <1>1
    <2> QED
      BY <1>2, <2>1
  <1> QED
    BY <1>1, <1>3 DEF Without

LEMMA WithoutFour ==
    ASSUME NEW N, NEW x, NEW y, NEW z, NEW w,
           x \notin N, y \notin N, z \notin N, w \notin N
    PROVE  Without(N, <<x, y, z, w>>)
  <1> PICK s : s = <<x, y, z, w>>
    OBVIOUS
  <1>1. s \in Seq({x, y, z, w}) /\ Len(s) = 4
    OBVIOUS
  <1>2. s[1] = x /\ s[2] = y /\ s[3] = z /\ s[4] = w
    OBVIOUS
  <1>3. ASSUME NEW i \in 1..Len(s) PROVE s[i] \notin N
    <2>1. i = 1 \/ i = 2 \/ i = 3 \/ i = 4
      BY <1>1
    <2> QED
      BY <1>2, <2>1
  <1> QED
    BY <1>1, <1>3 DEF Without

(* The names of micro-steps.                                               *)
LEMMA NamesOfSteps ==
    /\ Poll.do = "service" /\ Rest.do = "rest"
    /\ \A r, k, n : Allocate(r, k, n).do = "allocate"
    /\ \A v : Retain(v).do = "retain"
    /\ \A name, t, i : Into(name, t, i).do = name
    /\ \A r : Result(r).do = "result" /\ Take(r).do = "take"
    /\ \A b : Service(b).do = "service"
    /\ \A name : Op(name).do = name
  BY DEF Poll, Service, Rest, Op, Allocate, Retain, Into, Result, Take

(* Micro-steps with these names; and those beyond the budget of a poll. *)
Bearing(names) == {q \in MicroStep : q.do \in names}
Overdrawn == {q \in MicroStep : \/ (q.do = "service" /\ q.budget \notin 0..Budget)
                                \/ (q.do = "enterStack" /\ q.index > Budget)}

(* Steps that only stores, the opening of a chunk and overdrafts take. *)
Spared(N) == Budget \in Nat /\ N \subseteq Bearing(Storing \cup {"chunk"}) \cup Overdrawn

LEMMA StepsSpared ==
    ASSUME NEW N, Spared(N)
    PROVE  /\ Poll \notin N /\ Rest \notin N /\ Op("hold") \notin N
           /\ \A r, k, n : Allocate(r, k, n) \notin N
           /\ \A v : Retain(v) \notin N
           /\ \A r : Result(r) \notin N /\ Take(r) \notin N
           /\ \A name \in {"release", "grow", "references", "local", "enter", "dropLocals"} :
                 \A t, i : Into(name, t, i) \notin N
           /\ \A t, n : ~ (n > Budget) => Into("enterStack", t, n) \notin N
  <1>1. ASSUME NEW q, q.do \notin Storing \cup {"chunk", "service", "enterStack"} PROVE q \notin N
    BY <1>1 DEF Spared, Bearing, Overdrawn
  <1>2. Poll \notin N
    <2>1. Poll.do = "service" /\ Poll.budget = Budget
      BY DEF Poll, Service
    <2>2. Poll.do \notin Storing \cup {"chunk"} /\ Poll.budget \in 0..Budget
      BY <2>1 DEF Storing, Spared
    <2> QED
      BY <2>1, <2>2 DEF Spared, Bearing, Overdrawn
  <1>3. ASSUME NEW t, NEW n, ~ (n > Budget) PROVE Into("enterStack", t, n) \notin N
    <2> PICK q : q = Into("enterStack", t, n)
      OBVIOUS
    <2>1. q.do = "enterStack" /\ q.index = n
      BY DEF Into
    <2>2. q.do \notin Storing \cup {"chunk"}
      BY <2>1 DEF Storing
    <2> QED
      BY <1>3, <2>1, <2>2 DEF Spared, Bearing, Overdrawn
  <1>4. Rest \notin N /\ Op("hold") \notin N
    BY <1>1, NamesOfSteps DEF Storing
  <1>5. \A r, k, n : Allocate(r, k, n) \notin N
    BY <1>1, NamesOfSteps DEF Storing
  <1>6. (\A v : Retain(v) \notin N) /\ (\A r : Result(r) \notin N /\ Take(r) \notin N)
    BY <1>1, NamesOfSteps DEF Storing
  <1>7. ASSUME NEW name \in {"release", "grow", "references", "local", "enter", "dropLocals"},
               NEW t, NEW i
        PROVE  Into(name, t, i) \notin N
    BY <1>1, NamesOfSteps DEF Storing
  <1> QED
    BY <1>2, <1>3, <1>4, <1>5, <1>6, <1>7

(* Ways to come by an argument add none.                                   *)
LEMMA WithoutAcquired ==
    ASSUME NEW a \in Acquiring \cup Taking,
           NEW N, Spared(N)
    PROVE  Without(N, a.steps)
  <1>1. CASE a \in Acquiring
    <2>1. PICK v \in Operand : a = [value |-> v, steps |-> <<Retain(v)>>]
      BY <1>1 DEF Acquiring
    <2>2. Retain(v) \notin N
      BY StepsSpared
    <2> QED
      BY <2>1, <2>2, WithoutOne
  <1>2. CASE a \in Taking
    <2>1. PICK r \in Results : a = [value |-> reg[r], steps |-> <<Take(r)>>]
      BY <1>2 DEF Taking
    <2>2. Take(r) \notin N
      BY StepsSpared
    <2> QED
      BY <2>1, <2>2, WithoutOne
  <1> QED
    BY <1>1, <1>2

(* A call that asks for a chunk only if it must keeps the accounts.        *)
LEMMA CallCounted ==
    ASSUME IInv, Accounts, IInv', Idle, CallOnly, ChunkDue' => ChunkFull
    PROVE  Accounts'
  <1>1. UNCHANGED <<recent, old, active, frame, stack, frameQueue, chunk, chunkQueue, pending>>
    BY DEF CallOnly, objectQueueVars, frameVars, chunkVars
  <1>2. HoldKept
    <2>1. todo = <<>>
      BY IdleFacts
    <2>2. Len(todo) = 0
      BY <2>1
    <2> QED
      BY <2>2 DEF HoldKept, Does
  <1>3. pending' = Tasks'
    BY <1>1, TasksWere DEF Tasks, Visiting
  <1>4. PendingExact'
    BY <1>3, TasksNext DEF IInv, Sound, TasksForm
  <1>5. \A f \in Frame : TempsFull(f)'
    BY <1>1, <1>2, FramesAlone, TempsSteady DEF Accounts
  <1>6. ChunksNeeded'
    <2>1. ChunkFull' <=> ChunkFull
      BY <1>1 DEF ChunkFull, Top
    <2> QED
      BY <2>1 DEF ChunksNeeded
  <1>7. IndexFitting'
    BY <1>1 DEF Accounts, IndexFitting, In
  <1> QED
    BY <1>4, <1>5, <1>6, <1>7 DEF Accounts

(* Without a step that opens a chunk, none is due. *)
LEMMA NoChunkDue ==
    ASSUME IInv', NEW steps, todo' = steps, Without(Bearing({"chunk"}), steps)
    PROVE  ~ ChunkDue'
  <1>1. todo' \in Seq(MicroStep)
    BY DEF IInv, Sound, Typed
  <1>2. ASSUME NEW j \in 1..Len(todo') PROVE todo'[j].do # "chunk"
    BY <1>1, ElementOfSeq DEF Without, Bearing
  <1> QED
    BY <1>2 DEF ChunkDue

LEMMA SetsSpared ==
    ASSUME IInv
    PROVE  /\ Spared(Bearing({"chunk"})) /\ Spared(Bearing(Storing)) /\ Spared(Overdrawn)
           /\ \A q \in Bearing({"chunk"}) \cup Overdrawn : q.do \notin Storing
  <1>1. Budget \in Nat
    BY ConstantsAssumption DEF IInv, Sound, Typed, Budget
  <1> QED
    BY <1>1 DEF Spared, Bearing, Overdrawn, Storing

(* A call of the program that avoids N. *)
PlainCall(N, name, steps) == Call(name, steps) /\ Without(N, steps)

LEMMA PlainCallCounted ==
    ASSUME IInv, Accounts, IInv', program' = program, NEW name, NEW steps,
           PlainCall(Bearing({"chunk"}), name, steps)
    PROVE  Accounts'
  <1>1. Idle /\ CallOnly /\ todo' = steps
    BY CallFacts DEF PlainCall, Call
  <1>2. ~ ChunkDue'
    BY <1>1, NoChunkDue DEF PlainCall
  <1> QED
    BY <1>1, <1>2, CallCounted

NewValues == NewRecord \/ NewScalarRecord \/ NewList \/ NewText

(* Calls that make values, set fields, or do anything else.                *)
LEMMA NewValueCalls ==
    ASSUME NEW N, Spared(N), NewValues
    PROVE  \E name, steps : PlainCall(N, name, steps)
  <1>1. CASE NewRecord
    <2>1. PICK r \in EmptyRegisters, n \in 0..Width :
             Call("record", <<Poll, Allocate(r, "RECORD", n)>>)
      BY <1>1 DEF NewRecord
    <2>2. Without(N, <<Poll, Allocate(r, "RECORD", n)>>)
      BY StepsSpared, WithoutTwo
    <2> QED
      BY <2>1, <2>2 DEF PlainCall
  <1>2. CASE NewScalarRecord
    <2>1. PICK r \in EmptyRegisters :
             Call("scalar", <<Poll, Allocate(r, "SCALAR_RECORD", 0)>>)
      BY <1>2 DEF NewScalarRecord
    <2>2. Without(N, <<Poll, Allocate(r, "SCALAR_RECORD", 0)>>)
      BY StepsSpared, WithoutTwo
    <2> QED
      BY <2>1, <2>2 DEF PlainCall
  <1>3. CASE NewList
    <2>1. PICK r \in EmptyRegisters : Call("list", <<Poll, Allocate(r, "LIST", 0)>>)
      BY <1>3 DEF NewList
    <2>2. Without(N, <<Poll, Allocate(r, "LIST", 0)>>)
      BY StepsSpared, WithoutTwo
    <2> QED
      BY <2>1, <2>2 DEF PlainCall
  <1>4. CASE NewText
    <2>1. PICK r \in EmptyRegisters : Call("text", <<Poll, Poll, Allocate(r, "TEXT", 0)>>)
      BY <1>4 DEF NewText, TextSteps
    <2>2. Without(N, <<Poll, Poll, Allocate(r, "TEXT", 0)>>)
      BY StepsSpared, WithoutThree
    <2> QED
      BY <2>1, <2>2 DEF PlainCall
  <1> QED
    BY <1>1, <1>2, <1>3, <1>4 DEF NewValues

Setters == RecordSet \/ ListAdd \/ ListSet

LEMMA SetterCalls ==
    ASSUME NEW N, Spared(N), \A q \in N : q.do \notin Storing, Setters
    PROVE  \E name, steps : PlainCall(N, name, steps)
  <1>4. ASSUME NEW name \in Storing, NEW t, NEW i PROVE Into(name, t, i) \notin N
    BY NamesOfSteps
  <1>1. CASE RecordSet
    <2>1. PICK r \in Results, i \in Index, a \in Acquiring \cup Taking :
             Call("record", a.steps \o <<Into("field", reg[r], i), Poll>>)
      BY <1>1 DEF RecordSet
    <2>2. Without(N, <<Into("field", reg[r], i), Poll>>)
      BY <1>4, StepsSpared, WithoutTwo DEF Storing
    <2>3. Without(N, a.steps \o <<Into("field", reg[r], i), Poll>>)
      BY <2>2, WithoutAcquired, WithoutJoin
    <2> QED
      BY <2>1, <2>3 DEF PlainCall
  <1>2. CASE ListAdd
    <2>1. PICK l \in Lists, a \in Acquiring \cup Taking :
             Call("add", Grow(Len(fields[l])) \o a.steps \o <<Into("append", l, 0), Poll>>)
      BY <1>2 DEF ListAdd
    <2>2. Without(N, <<Into("append", l, 0), Poll>>) /\ Without(N, <<Poll>>)
      BY <1>4, StepsSpared, WithoutOne, WithoutTwo DEF Storing
    <2> PICK g, s, t : /\ g = Grow(Len(fields[l])) /\ s = a.steps
                       /\ t = <<Into("append", l, 0), Poll>>
      OBVIOUS
    <2>3. Without(N, g)
      BY <2>2, WithoutNone DEF Grow
    <2>4. Without(N, (g \o s) \o t)
      BY <2>2, <2>3, WithoutAcquired, WithoutJoin
    <2> QED
      BY <2>1, <2>4 DEF PlainCall
  <1>3. CASE ListSet
    <2>1. PICK l \in Lists, i \in Index, a \in Acquiring \cup Taking :
             Call("set", ReplaceSteps(l, i, a))
      BY <1>3 DEF ListSet
    <2> PICK s, t, e : /\ s = a.steps /\ t = <<Into("replace", l, i)>>
                       /\ e = IF StoreKind(l, a.value) = "REFERENCES" THEN <<Rest>> ELSE <<>>
      OBVIOUS
    <2>2. Without(N, t) /\ Without(N, <<Rest>>) /\ Without(N, <<>>)
      BY <1>4, StepsSpared, WithoutOne, WithoutNone DEF Storing
    <2>3. Without(N, e)
      BY <2>2
    <2>4. Without(N, (s \o t) \o e)
      BY <2>2, <2>3, WithoutAcquired, WithoutJoin
    <2>5. ReplaceSteps(l, i, a) = (s \o t) \o e
      BY DEF ReplaceSteps
    <2> QED
      BY <2>1, <2>4, <2>5 DEF PlainCall
  <1> QED
    BY <1>1, <1>2, <1>3 DEF Setters

(* minyar_list_appended copies, then adds.                                 *)
LEMMA AppendedCalls ==
    ASSUME IInv, NEW N, Spared(N), \A q \in N : q.do \notin Storing, ListAppended
    PROVE  \E name, steps : PlainCall(N, name, steps)
  <1>1. PICK r \in EmptyRegisters, l \in Lists, a \in Acquiring \cup Taking :
           Call("appended",
                   <<Poll, Allocate(r, "LIST", 0), Into("references", r, 0)>>
                   \o [g \in 1..Cardinality({g \in GrowAt : g <= Len(fields[l])}) |-> Poll]
                   \o CopySteps(l, r) \o a.steps \o <<Into("append", r, 0), Poll>>)
    BY DEF ListAppended
  <1> PICK n, G : n = Len(fields[l]) /\ G = Cardinality({g \in GrowAt : g <= Len(fields[l])})
    OBVIOUS
  <1>2. n \in Nat /\ G \in Nat
    <2>1. Idle
      BY <1>1 DEF Call
    <2> QED
      BY <2>1, ListFacts, GrowthCounted
  <1>3. Into("append", r, 0) \notin N
    BY NamesOfSteps DEF Storing
  <1> PICK e, h, c, s, x : /\ e = <<Poll, Allocate(r, "LIST", 0), Into("references", r, 0)>>
                           /\ h = [g \in 1..G |-> Poll] /\ c = CopySteps(l, r) /\ s = a.steps
                           /\ x = <<Into("append", r, 0), Poll>>
    OBVIOUS
  <1>4. Without(N, e) /\ Without(N, s) /\ Without(N, x)
    BY <1>3, StepsSpared, WithoutTwo, WithoutThree, WithoutAcquired
  <1>5. Without(N, h)
    <2>1. h \in Seq({Poll}) /\ Len(h) = G
      BY <1>2
    <2>2. \A i \in 1..Len(h) : h[i] \notin N
      BY <2>1, StepsSpared
    <2> QED
      BY <2>1, <2>2 DEF Without
  <1>6. Without(N, c)
    <2> PICK k : k = 3 * n
      OBVIOUS
    <2> PICK S : S = {c[i] : i \in 1..k}
      OBVIOUS
    <2>1. /\ k \in Nat
          /\ c = [j \in 1..k |-> CASE j % 3 = 1 -> Retain(fields[l][(j + 2) \div 3])
                                  [] j % 3 = 2 -> Into("append", r, 0)
                                  [] j % 3 = 0 -> Poll]
      BY <1>2 DEF CopySteps
    <2>2. ASSUME NEW i \in 1..k PROVE c[i] \notin N
      <3>1. i % 3 = 1 \/ i % 3 = 2 \/ i % 3 = 0
        BY <1>2, Thirds
      <3>2. \/ c[i] = Retain(fields[l][(i + 2) \div 3])
            \/ c[i] = Into("append", r, 0)
            \/ c[i] = Poll
        BY <2>1, <3>1
      <3> QED
        BY <1>3, <3>2, StepsSpared
    <2>3. c \in [1..k -> S]
      BY <2>1
    <2>4. c \in Seq(S) /\ Len(c) = k
      BY <2>1, <2>3
    <2> QED
      BY <2>2, <2>4 DEF Without
  <1>7. Without(N, (((e \o h) \o c) \o s) \o x)
    BY <1>4, <1>5, <1>6, WithoutJoin
  <1> QED
    BY <1>1, <1>7 DEF PlainCall

Others == RecordSetScalar \/ ListReferences \/ JoinTakeLeft \/ RetainResult \/ SetLocal
          \/ Enter \/ EnterStack

LEMMA OtherCalls ==
    ASSUME NEW N, Spared(N), Others
    PROVE  \E name, steps : PlainCall(N, name, steps)
  <1>1. CASE RecordSetScalar
    <2>1. Call("record", <<Poll>>)
      BY <1>1 DEF RecordSetScalar
    <2>2. Without(N, <<Poll>>)
      BY StepsSpared, WithoutOne
    <2> QED
      BY <2>1, <2>2 DEF PlainCall
  <1>6. CASE ListReferences
    <2>1. PICK l \in Operand : Call("list", <<Into("references", l, 0)>>)
      BY <1>6 DEF ListReferences
    <2>2. Without(N, <<Into("references", l, 0)>>)
      BY StepsSpared, WithoutOne
    <2> QED
      BY <2>1, <2>2 DEF PlainCall
  <1>2. CASE JoinTakeLeft
    <2>1. PICK r \in Results :
             \/ Call("join", <<>> \o <<Into("grow", r, 0)>>)
             \/ Call("join", <<Poll>> \o <<Into("grow", r, 0)>>)
             \/ \E q \in EmptyRegisters :
                   Call("join", <<Poll, Poll, Allocate(q, "TEXT", 0)>>
                                   \o <<Into("release", r, 0), Rest>>)
      BY <1>2 DEF JoinTakeLeft, TextSteps
    <2>2. /\ Without(N, <<Into("grow", r, 0)>>) /\ Without(N, <<Poll>>) /\ Without(N, <<>>)
          /\ \A q : Without(N, <<Poll, Poll, Allocate(q, "TEXT", 0)>>)
          /\ Without(N, <<Into("release", r, 0), Rest>>)
      BY StepsSpared, WithoutNone, WithoutOne, WithoutTwo, WithoutThree
    <2>3. /\ Without(N, <<>> \o <<Into("grow", r, 0)>>)
          /\ Without(N, <<Poll>> \o <<Into("grow", r, 0)>>)
          /\ \A q : Without(N, <<Poll, Poll, Allocate(q, "TEXT", 0)>>
                               \o <<Into("release", r, 0), Rest>>)
      BY <2>2, WithoutJoin
    <2> QED
      BY <2>1, <2>3 DEF PlainCall
  <1>3. CASE RetainResult
    <2>1. PICK r \in EmptyRegisters, v \in Operand : Call("retain", <<Retain(v), Result(r)>>)
      BY <1>3 DEF RetainResult
    <2>2. Without(N, <<Retain(v), Result(r)>>)
      BY StepsSpared, WithoutTwo
    <2> QED
      BY <2>1, <2>2 DEF PlainCall
  <1>4. CASE SetLocal
    <2>1. PICK i \in Local, a \in Acquiring \cup Taking \cup {[value |-> None, steps |-> <<>>]} :
             Call("local", a.steps \o <<Into("local", None, i), Rest>>)
      BY <1>4 DEF SetLocal, LocalSteps
    <2>2. Without(N, a.steps)
      BY WithoutAcquired, WithoutNone
    <2>3. Without(N, <<Into("local", None, i), Rest>>)
      BY StepsSpared, WithoutTwo
    <2>4. Without(N, a.steps \o <<Into("local", None, i), Rest>>)
      BY <2>2, <2>3, WithoutJoin
    <2> QED
      BY <2>1, <2>4 DEF PlainCall
  <1>5. CASE Enter \/ EnterStack
    <2>1. PICK n \in 0..ProgramLocals :
             \/ Call("enter", <<Poll, Into("enter", None, n)>>)
             \/ Call("enterStack", <<Poll, Into("enter", None, n)>>)
             \/ FitsStack(n) /\ Call("enterStack", <<Poll, Into("enterStack", None, n)>>)
      BY <1>5 DEF Enter, EnterStack, EnterSteps
    <2>2. Without(N, <<Poll, Into("enter", None, n)>>)
      BY StepsSpared, WithoutTwo
    <2>3. FitsStack(n) => Without(N, <<Poll, Into("enterStack", None, n)>>)
      <3>1. n < Budget => ~ (n > Budget)
        BY DEF Spared
      <3> QED
        BY <3>1, StepsSpared, WithoutTwo DEF FitsStack
    <2> QED
      BY <2>1, <2>2, <2>3 DEF PlainCall
  <1> QED
    BY <1>1, <1>2, <1>3, <1>4, <1>5, <1>6 DEF Others

ViewSteps(z, r, t) ==
    <<z, Poll, Allocate(r, "TEXT", 0), Retain(TextRoot(t)), Into("backing", r, 0)>>

LEMMA IndexingSpared ==
    ASSUME NEW N, Spared(N), NEW z \in Indexing
    PROVE  z \notin N
  <1>1. z.do = "service" /\ (z = Poll \/ z.budget = 0)
    BY DEF Indexing, Poll, Service
  <1>2. CASE z.budget = 0
    <2>1. z.do \notin Storing \cup {"chunk"} /\ z.budget \in 0..Budget
      BY <1>1, <1>2 DEF Storing, Spared
    <2> QED
      BY <1>1, <2>1 DEF Spared, Bearing, Overdrawn
  <1> QED
    BY <1>1, <1>2, StepsSpared

(* A slice shares its Text, copies it, or points into its root. *)
LEMMA SliceCalls ==
    ASSUME NEW N, Spared(N), TextSlice
    PROVE  \/ \E name, steps : PlainCall(N, name, steps)
           \/ \E r \in EmptyRegisters, t \in Texts, z \in Indexing :
                 Call("slice", ViewSteps(z, r, t))
  <1>1. PICK r \in EmptyRegisters, t \in Texts, z \in Indexing :
           \/ Call("slice", <<z, Retain(t), Result(r)>>)
           \/ Call("slice", <<z, Poll, Poll, Allocate(r, "TEXT", 0)>>)
           \/ Call("slice", ViewSteps(z, r, t))
    BY IndexedText DEF TextSlice, ViewSteps
  <1>2. /\ Without(N, <<z, Retain(t), Result(r)>>)
        /\ Without(N, <<z, Poll, Poll, Allocate(r, "TEXT", 0)>>)
    BY StepsSpared, IndexingSpared, WithoutThree, WithoutFour
  <1> QED
    BY <1>1, <1>2 DEF PlainCall

LEMMA ViewCalls ==
    ASSUME NEW N, Spared(N), \A q \in N : q.do \notin Storing, NEW r, NEW t, NEW z \in Indexing
    PROVE  Without(N, ViewSteps(z, r, t))
  <1>1. Into("backing", r, 0) \notin N
    BY NamesOfSteps DEF Storing
  <1> QED
    BY <1>1, StepsSpared, IndexingSpared, WithoutFive DEF ViewSteps

LEMMA SlicesCounted ==
    ASSUME IInv, Accounts, IInv', program' = program, TextSlice
    PROVE  Accounts'
  <1> PICK N : N = Bearing({"chunk"})
    OBVIOUS
  <1>1. Spared(N) /\ \A q \in N : q.do \notin Storing
    BY SetsSpared
  <1>2. \E name, steps : PlainCall(N, name, steps)
    BY <1>1, SliceCalls, ViewCalls DEF PlainCall
  <1> QED
    BY <1>2, PlainCallCounted

(* minyar_rc_keep adds a chunk only when the last one is full.             *)
LEMMA KeepCalls ==
    ASSUME IInv, NEW N, Spared(N), Keep, program' = program
    PROVE  \E steps : /\ Idle /\ CallOnly /\ todo' = steps
                      /\ (Op("chunk") \in N => ~ ChunkFull) => Without(N, steps)
  <1>1. PICK a \in Acquiring \cup Taking :
          Call("keep", a.steps \o (IF ChunkFull THEN <<Poll, Op("chunk")>> ELSE <<>>)
                        \o <<Op("hold"), Poll>>)
    BY DEF Keep
  <1> PICK s, g, t : /\ s = a.steps /\ t = <<Op("hold"), Poll>>
                     /\ g = IF ChunkFull THEN <<Poll, Op("chunk")>> ELSE <<>>
    OBVIOUS
  <1>2. Idle /\ CallOnly /\ todo' = (s \o g) \o t
    BY <1>1, CallFacts DEF Call
  <1>3. (Op("chunk") \in N => ~ ChunkFull) => Without(N, (s \o g) \o t)
    <2> SUFFICES ASSUME Op("chunk") \in N => ~ ChunkFull PROVE Without(N, (s \o g) \o t)
      OBVIOUS
    <2>1. Without(N, g) /\ Without(N, t)
      BY StepsSpared, WithoutNone, WithoutTwo
    <2> QED
      BY <2>1, WithoutAcquired, WithoutJoin
  <1> QED
    BY <1>2, <1>3

LEMMA KeepCounted ==
    ASSUME IInv, Accounts, IInv', Keep, program' = program
    PROVE  Accounts'
  <1> PICK N : N = Bearing({"chunk"})
    OBVIOUS
  <1>1. Spared(N)
    BY SetsSpared
  <1>2. PICK steps : /\ Idle /\ CallOnly /\ todo' = steps
                     /\ (Op("chunk") \in N => ~ ChunkFull) => Without(N, steps)
    BY <1>1, KeepCalls
  <1>3. ~ ChunkFull => ~ ChunkDue'
    BY <1>2, NoChunkDue
  <1> QED
    BY <1>2, <1>3, CallCounted

(* The division finds every chunk of the frame that retires. *)
LEMMA ChunksDivided ==
    ASSUME IInv, Accounts, Idle
    PROVE  /\ TemporaryChunks(frame[Top]) = Len(frame[Top].temps)
           /\ frame[Top].temps \in Seq(Chunk) /\ Top \in Frame
  <1> PICK fr, k : fr = frame[Top] /\ k = ChunkSlots
    OBVIOUS
  <1>1. /\ Typed /\ ChunkSound /\ Top \in Frame /\ fr.temps \in Seq(Chunk)
        /\ fr.tempCount \in Nat /\ todo = <<>>
    BY IdleFacts, TopFacts
  <1>2. k \in Nat \ {0}
    BY ConstantsAssumption
  <1>3. TempsFull(Top) /\ ~ Does(1, "hold")
    <2>1. Len(todo) = 0
      BY <1>1
    <2> QED
      BY <1>1, <2>1 DEF Accounts, Does
  <1>4. TemporaryChunks(fr) = (fr.tempCount + k - 1) \div k
    BY DEF TemporaryChunks
  <1>5. CASE fr.temps = <<>>
    <2>1. fr.tempCount = 0 /\ Len(fr.temps) = 0
      BY <1>3, <1>5 DEF TempsFull
    <2>2. (0 + k - 1) \div k = 0
      BY <1>2
    <2> QED
      BY <1>1, <1>4, <2>1, <2>2
  <1>6. CASE fr.temps # <<>>
    <2> PICK n, c : n = Len(fr.temps) /\ c = fr.temps[Len(fr.temps)]
      OBVIOUS
    <2> PICK r : r = Len(chunk[c])
      OBVIOUS
    <2>1. n \in Nat \ {0} /\ c \in Chunk
      BY <1>1, <1>6, TailFacts, ElementOfSeq
    <2>2. r \in Nat /\ r <= k
      BY <1>1, <2>1 DEF Typed, ChunkSound
    <2>3. fr.tempCount = k * (n - 1) + r /\ r > 0
      BY <1>3, <1>6 DEF TempsFull, LastChunk
    <2>4. r \in 1..k
      BY <1>2, <2>2, <2>3
    <2>5. (k * (n - 1) + r + k - 1) \div k = n
      BY <1>2, <2>1, <2>4, ChunksByDivision
    <2> QED
      BY <1>1, <1>4, <2>3, <2>5
  <1> QED
    BY <1>1, <1>5, <1>6

(* minyar_rc_local_move empties a local of the frame on top.               *)
LEMMA MoveLocalCounted ==
    ASSUME IInv, Accounts, IInv', MoveLocal
    PROVE  Accounts'
  <1>1. PICK i \in Local, r \in EmptyRegisters :
           /\ Idle /\ frame' = [frame EXCEPT ![Top] = Vacate(@, i)]
           /\ UNCHANGED <<recent, old, active, stack, frameQueue, chunk, chunkQueue, pending,
                          todo>>
    BY DEF MoveLocal, objectQueueVars, chunkVars, callVars
  <1>2. Typed
    BY DEF IInv, Sound
  <1>3. ASSUME NEW f \in Frame
        PROVE  /\ frame'[f].temps = frame[f].temps /\ frame'[f].tempCount = frame[f].tempCount
               /\ frame'[f].localCount = frame[f].localCount
               /\ frame'[f].capacity = frame[f].capacity
    <2>1. frame[f] \in FrameRecord
      BY <1>2 DEF Typed
    <2>2. CASE f = Top
      <3>1. frame'[f] = Vacate(frame[f], i)
        BY <1>1, <1>2, <2>2 DEF Typed
      <3> QED
        BY <2>1, <3>1 DEF Vacate, FrameRecord
    <2>3. CASE f # Top
      BY <1>1, <1>2, <2>3 DEF Typed
    <2> QED
      BY <2>2, <2>3
  <1>4. \A f \in Frame : SteadyTemps(f)
    BY <1>1, <1>3 DEF SteadyTemps, LastChunk
  <1>5. \A f \in Frame : In(stack', f) => frame'[f].localCount <= frame'[f].capacity
    BY <1>1, <1>3 DEF Accounts, IndexFitting, In
  <1>6. pending' = Tasks'
    BY <1>1, TasksWere DEF Tasks, Visiting
  <1>7. HoldKept /\ (ChunkDue' => ChunkDue /\ stack' = stack)
    BY <1>1, StepsAlone
  <1> QED
    BY <1>4, <1>5, <1>6, <1>7, AccountsKept

(* The frame on top gives its chunks to the queue. *)
LEMMA RetiredAccounts ==
    ASSUME IInv, Accounts, IInv', Idle, NEW r \in FrameRecord,
           frame' = [frame EXCEPT ![Top] = r], r.temps = <<>>, r.tempCount = 0,
           r.localCount <= r.capacity \/ ~ In(stack', Top),
           stack' = stack \/ stack' = Tail(stack),
           chunkQueue' = chunkQueue \o frame[Top].temps,
           NEW d \in Nat, Len(frameQueue') = Len(frameQueue) + d,
           pending' = pending + TemporaryChunks(frame[Top]) + d,
           UNCHANGED <<recent, old, active, chunk>>, ~ ChunkDue'
    PROVE  Accounts'
  <1>1. Typed /\ stack # <<>> /\ stack \in Seq(Frame) /\ todo = <<>>
    BY IdleFacts DEF Typed
  <1>2. /\ TemporaryChunks(frame[Top]) = Len(frame[Top].temps)
        /\ frame[Top].temps \in Seq(Chunk) /\ Top \in Frame
    BY ChunksDivided
  <1>3. frame'[Top] = r /\ \A g \in Frame \ {Top} : frame'[g] = frame[g]
    BY <1>1, <1>2, FrameWritten
  <1>4. ~ Does(1, "hold")
    <2>1. Len(todo) = 0
      BY <1>1
    <2> QED
      BY <2>1 DEF Does
  <1>5. ASSUME NEW g \in Frame PROVE TempsFull(g)'
    <2>1. CASE g = Top
      <3>1. frame'[g].temps = <<>> /\ frame'[g].tempCount = 0
        BY <1>3, <2>1
      <3> QED
        BY <3>1 DEF TempsFull
    <2>2. CASE g # Top
      <3>1. SteadyTemps(g)
        BY <1>3, <2>2 DEF SteadyTemps, LastChunk
      <3> QED
        BY <2>2, <3>1, OtherTemps DEF Accounts
    <2> QED
      BY <2>1, <2>2
  <1>6. ASSUME NEW g \in Frame, In(stack', g)
        PROVE  frame'[g].localCount <= frame'[g].capacity
    <2>1. CASE g = Top
      BY <1>3, <1>6, <2>1
    <2>2. CASE g # Top
      <3>1. In(stack, g)
        <4>1. CASE stack' = stack
          BY <1>6, <4>1
        <4>2. CASE stack' = Tail(stack)
          <5>1. \A x : In(stack, x) <=> x = stack[1] \/ In(Tail(stack), x)
            BY <1>1, TailFacts
          <5> QED
            BY <1>6, <4>2, <5>1
        <4> QED
          BY <4>1, <4>2
      <3> QED
        BY <1>3, <2>2, <3>1 DEF Accounts, IndexFitting
    <2> QED
      BY <2>1, <2>2
  <1>7. pending' = Tasks'
    <2>1. Len(chunkQueue') = Len(chunkQueue) + Len(frame[Top].temps)
      BY <1>2, QueueTypes, ConcatAt
    <2>2. pending = Tasks /\ Visiting' = Visiting
      BY TasksWere, QueueTypes
    <2>3. Len(frame[Top].temps) \in Nat
      BY <1>2
    <2>4. Tasks' = Len(recent) + Len(old) + Visiting + Len(frameQueue') + Len(chunkQueue')
      BY <2>2 DEF Tasks
    <2>5. pending' = Tasks + Len(frame[Top].temps) + d
      BY <1>2, <2>2
    <2>6. Tasks = Len(recent) + Len(old) + Visiting + Len(frameQueue) + Len(chunkQueue)
      BY DEF Tasks
    <2>7. Len(frameQueue') = Len(frameQueue) + d
      OBVIOUS
    <2> PICK a, b, v, f, q, l : /\ a = Len(recent) /\ b = Len(old) /\ v = Visiting
                                /\ f = Len(frameQueue) /\ q = Len(chunkQueue)
                                /\ l = Len(frame[Top].temps)
      OBVIOUS
    <2>8. a \in Nat /\ b \in Nat /\ v \in Nat /\ f \in Nat /\ q \in Nat /\ l \in Nat
      BY <2>3, QueueLengths
    <2>9. a + b + v + (f + d) + (q + l) = (a + b + v + f + q) + l + d
      BY ONLY <2>8, d \in Nat
    <2> QED
      BY <2>1, <2>4, <2>5, <2>6, <2>7, <2>9
  <1> QED
    BY <1>5, <1>6, <1>7, AccountsNext
-----------------------------------------------------------------------------
(***************************************************************************)
(* The accounts hold, and what follows from them.                          *)
(***************************************************************************)
(* A frame without its temporaries.                                        *)
LEMMA ClearedAccount ==
    ASSUME NEW fr \in FrameRecord, NEW r, r = WithoutTemporaries(fr)
    PROVE  /\ r \in FrameRecord /\ r.temps = <<>> /\ r.tempCount = 0
           /\ r.localCount = fr.localCount /\ r.capacity = fr.capacity
  <1>1. r \in FrameRecord /\ r.temps = <<>> /\ r.localCount = fr.localCount
    BY ClearedFacts
  <1>2. r.tempCount = 0 /\ r.capacity = fr.capacity
    BY DEF WithoutTemporaries, FrameRecord
  <1> QED
    BY <1>1, <1>2

(* minyar_rc_step retires the temporaries of the frame on top.             *)
LEMMA StepCounted ==
    ASSUME IInv, Accounts, IInv', Step
    PROVE  Accounts'
  <1> PICK fr : fr = frame[Top]
    OBVIOUS
  <1> PICK r : r = WithoutTemporaries(fr)
    OBVIOUS
  <1>1. /\ Idle /\ frame' = [frame EXCEPT ![Top] = r] /\ todo' = <<Poll>>
        /\ chunkQueue' = chunkQueue \o frame[Top].temps
        /\ pending' = pending + TemporaryChunks(frame[Top])
        /\ UNCHANGED <<recent, old, active, chunk, frameQueue, stack>>
    BY DEF Step, objectQueueVars
  <1>2. fr \in FrameRecord /\ In(stack, Top) /\ Top \in Frame
    BY <1>1, IdleFacts, TopFacts
  <1>3. /\ r \in FrameRecord /\ r.temps = <<>> /\ r.tempCount = 0
        /\ r.localCount = fr.localCount /\ r.capacity = fr.capacity
    BY <1>2, ClearedAccount
  <1>4. r.localCount <= r.capacity
    BY <1>2, <1>3 DEF Accounts, IndexFitting
  <1>5. ~ ChunkDue'
    BY <1>1, SetsSpared, StepsSpared, WithoutOne, NoChunkDue
  <1>6. Len(frameQueue) \in Nat /\ pending \in Nat
    BY QueueTypes, TasksWere
  <1>7. Len(frameQueue') = Len(frameQueue) + 0
    BY <1>1, <1>6
  <1>8. pending' = pending + TemporaryChunks(frame[Top]) + 0
    <2>1. TemporaryChunks(frame[Top]) \in Nat
      BY <1>1, ChunksDivided
    <2> QED
      BY <1>1, <1>6, <2>1
  <1>9. 0 \in Nat
    OBVIOUS
  <1> QED
    BY ONLY IInv, Accounts, IInv', <1>1, <1>3, <1>4, <1>5, <1>7, <1>8, <1>9, RetiredAccounts

(* Leaving a frame queues the frame and its chunks.                        *)
LEMMA LeaveCounted ==
    ASSUME IInv, Accounts, IInv', Leave \/ LeaveStack
    PROVE  Accounts'
  <1> PICK fr : fr = frame[Top]
    OBVIOUS
  <1> PICK u : u = WithoutTemporaries(fr)
    OBVIOUS
  <1> PICK r : r = [u EXCEPT !.localCount = Len(fr.written)]
    OBVIOUS
  <1>1. /\ Idle /\ frame' = [frame EXCEPT ![Top] = r] /\ stack' = Tail(stack)
        /\ chunkQueue' = chunkQueue \o frame[Top].temps
        /\ UNCHANGED <<recent, old, active, chunk>>
    BY DEF Leave, LeaveStack, Detach, objectQueueVars
  <1>2. /\ Typed /\ FrameSound /\ stack # <<>> /\ Top \in Frame /\ fr \in FrameRecord
        /\ FrameShape(Top)
    BY <1>1, IdleFacts, TopFacts
  <1>3. u \in FrameRecord /\ u.temps = <<>> /\ u.tempCount = 0
    BY <1>2, ClearedAccount
  <1>4. r \in FrameRecord /\ r.temps = <<>>
    <2>1. Distinct(fr.written)
      BY <1>2 DEF FrameShape
    <2>2. r = [WithoutTemporaries(fr) EXCEPT !.localCount = Len(fr.written)]
      OBVIOUS
    <2> QED
      BY ONLY <1>2, <2>1, <2>2, DetachedFacts
  <1>5. r.tempCount = 0
    BY <1>3 DEF FrameRecord
  <1>6. ~ In(stack', Top)
    <2>1. stack \in Seq(Frame) /\ Distinct(stack) /\ Top = stack[1]
      BY <1>2 DEF Typed, FrameSound, Top
    <2> QED
      BY <1>1, <1>2, <2>1, TailFacts
  <1>7. ~ ChunkDue'
    <2>1. CASE Leave
      <3>1. todo' = <<Poll>>
        BY <2>1 DEF Leave
      <3> QED
        BY <3>1, SetsSpared, StepsSpared, WithoutOne, NoChunkDue
    <2>2. CASE LeaveStack
      <3>1. todo' = <<Into("dropLocals", Top, 0), Service(Budget - Len(frame[Top].written))>>
        BY <2>2 DEF LeaveStack
      <3>2. Service(Budget - Len(frame[Top].written)) \notin Bearing({"chunk"})
        BY NamesOfSteps DEF Bearing
      <3> QED
        BY <3>1, <3>2, SetsSpared, StepsSpared, WithoutTwo, NoChunkDue
    <2> QED
      BY <2>1, <2>2
  <1>8. PICK d \in Nat : /\ Len(frameQueue') = Len(frameQueue) + d
                         /\ pending' = pending + TemporaryChunks(frame[Top]) + d
    <2>1. Len(frameQueue) \in Nat /\ frameQueue \in Seq(Frame) /\ pending \in Nat
      BY QueueTypes, TasksWere
    <2>2. CASE Leave
      <3>1. Len(frameQueue') = Len(frameQueue) + 1
        BY <1>2, <2>1, <2>2 DEF Leave
      <3>2. 1 \in Nat /\ pending' = pending + TemporaryChunks(frame[Top]) + 1
        BY <2>2 DEF Leave
      <3> QED
        BY <3>1, <3>2
    <2>3. CASE LeaveStack
      <3>1. Len(frameQueue') = Len(frameQueue) + 0 /\ 0 \in Nat
        BY <2>1, <2>3 DEF LeaveStack
      <3>2. TemporaryChunks(frame[Top]) \in Nat
        BY <1>1, ChunksDivided
      <3>3. pending' = pending + TemporaryChunks(frame[Top]) + 0
        BY <2>1, <2>3, <3>2 DEF LeaveStack
      <3> QED
        BY <3>1, <3>3
    <2> QED
      BY <2>2, <2>3
  <1> QED
    BY ONLY IInv, Accounts, IInv', <1>1, <1>4, <1>5, <1>6, <1>7, <1>8, RetiredAccounts

(* Every step of the program.                                              *)
LEMMA ProgramCounted ==
    ASSUME IInv, Accounts, IInv', Program
    PROVE  Accounts'
  <1>1. program' = program
    BY DEF Program
  <1>2. CASE NewValues \/ Setters \/ ListAppended \/ Others
    <2> PICK N : N = Bearing({"chunk"})
      OBVIOUS
    <2>1. Spared(N) /\ \A q \in N : q.do \notin Storing
      BY SetsSpared
    <2>2. \E name, steps : PlainCall(N, name, steps)
      BY <1>2, <2>1, NewValueCalls, SetterCalls, AppendedCalls, OtherCalls
    <2> QED
      BY <1>1, <2>2, PlainCallCounted
  <1>3. CASE TextSlice
    BY <1>1, <1>3, SlicesCounted
  <1> QED
    BY <1>1, <1>2, <1>3, KeepCounted, MoveLocalCounted, StepCounted, LeaveCounted
       DEF Program, NewValues, Setters, Others

LEMMA StutterCounted ==
    ASSUME IInv, Accounts, IInv', UNCHANGED vars
    PROVE  Accounts'
  <1>1. UNCHANGED <<recent, old, active, frame, stack, frameQueue, chunk, chunkQueue, pending,
                    todo>>
    BY DEF vars, objectQueueVars, frameVars, chunkVars, callVars
  <1>2. pending' = Tasks'
    BY <1>1, TasksWere DEF Tasks, Visiting
  <1> QED
    BY <1>1, <1>2, FramesAlone, StepsAlone, AccountsKept

(* At first there is nothing to count.                                     *)
LEMMA InitCounted ==
    ASSUME Init
    PROVE  Accounts
  <1>1. /\ recent = <<>> /\ old = <<>> /\ active = None /\ frameQueue = <<>> /\ stack = <<>>
        /\ chunkQueue = <<>> /\ pending = 0 /\ frame = [f \in Frame |-> UnusedFrame]
    BY DEF Init
  <1>2. PendingExact
    BY <1>1 DEF PendingExact, DeadValues
  <1>3. \A f \in Frame : TempsFull(f)
    BY <1>1 DEF TempsFull, UnusedFrame
  <1>4. ChunksNeeded
    <2>1. PICK n : todo = <<Poll, Into("enter", None, n)>>
      BY DEF Init, EnterSteps
    <2>2. todo[1].do = "service" /\ todo[2].do = "enter" /\ Len(todo) = 2
      BY <2>1, NamesOfSteps
    <2> QED
      BY <2>2 DEF ChunksNeeded, ChunkDue
  <1>5. IndexFitting
    BY <1>1 DEF IndexFitting, In
  <1> QED
    BY <1>2, <1>3, <1>4, <1>5 DEF Accounts

(* The accounts are inductive together with the invariant of the counts:   *)
(* rc_drop, minyar_rc_keep, minyar_rc_enter, minyar_rc_step and the units  *)
(* of a poll change the number of tasks by what they queue or retire, and  *)
(* keep every chunk of an open frame but the last one full.                *)
THEOREM AccountsHold == Spec => [](IInv /\ Accounts)
  <1>1. Init => IInv /\ Accounts
    BY InitSound, InitCounted
  <1>2. IInv /\ Accounts /\ [Next]_vars => (IInv /\ Accounts)'
    <2> SUFFICES ASSUME IInv, Accounts, [Next]_vars PROVE IInv' /\ Accounts'
      OBVIOUS
    <2>1. IInv'
      BY NextSound
    <2>2. CASE Machine
      BY <2>1, <2>2, DropsCounted, PollsCounted, ResumeCounted DEF Machine
    <2>3. CASE Program
      BY <2>1, <2>3, ProgramCounted
    <2>4. CASE UNCHANGED vars
      BY <2>1, <2>4, StutterCounted
    <2> QED
      BY <2>1, <2>2, <2>3, <2>4 DEF Next
  <1> QED
    BY <1>1, <1>2, PTL DEF Spec

(* Every dead value waits exactly once, and pending is the number of dead  *)
(* values, retired frames and chunks that wait, although retiring          *)
(* temporaries adds chunks by dividing the temporaries by the slots of a   *)
(* chunk.  So a poll (minyar_rc_poll) that looks at pending alone stops    *)
(* when, and only when, nothing is left to do.                             *)
THEOREM QueuesStayExact == Spec => []QueuesExact
  <1>1. IInv /\ Accounts => QueuesExact
    BY QueuedOnce DEF Accounts, QueuesExact
  <1> QED
    BY <1>1, AccountsHold, PTL

(* Different numbers up to n are at most n. *)
LEMMA DistinctFits ==
    ASSUME NEW n \in Nat, NEW w \in Seq(1..n), Distinct(w)
    PROVE  Len(w) <= n
  <1> PICK k : k = Len(w)
    OBVIOUS
  <1>1. k \in Nat /\ w \in [1..k -> 1..n]
    OBVIOUS
  <1>2. /\ IsFiniteSet(1..k) /\ Cardinality(1..k) = k
        /\ IsFiniteSet(1..n) /\ Cardinality(1..n) = n
    <2>1. 1 \in Int /\ n \in Int /\ k \in Int
      BY <1>1
    <2>2. /\ IsFiniteSet(1..k) /\ Cardinality(1..k) = IF 1 > k THEN 0 ELSE k - 1 + 1
          /\ IsFiniteSet(1..n) /\ Cardinality(1..n) = IF 1 > n THEN 0 ELSE n - 1 + 1
      BY ONLY <2>1, FS_Interval
    <2> QED
      BY <1>1, <2>2
  <1>3. ~ (n < k)
    <2> SUFFICES ASSUME n < k PROVE FALSE
      OBVIOUS
    <2>1. \E i, j \in 1..k : i # j /\ w[i] = w[j]
      BY ONLY <1>1, <1>2, n < k, FS_PigeonHole
    <2> QED
      BY <2>1 DEF Distinct
  <1> QED
    BY <1>1, <1>3

(* An open frame has written no more locals than it has.                   *)
LEMMA WrittenWithin ==
    ASSUME IInv, NEW f \in Frame, In(stack, f)
    PROVE  Len(frame[f].written) \in Nat /\ Len(frame[f].written) <= frame[f].localCount
  <1> PICK fr : fr = frame[f]
    OBVIOUS
  <1> PICK w, n : w = fr.written /\ n = fr.localCount
    OBVIOUS
  <1>1. Typed /\ FrameSound
    BY DEF IInv, Sound
  <1>3. w \in Seq(Local) /\ n \in 0..MaxLocals /\ MaxLocals \in Nat
    <2>1. fr \in FrameRecord
      BY <1>1 DEF Typed
    <2> QED
      BY <2>1, ConstantsAssumption DEF FrameRecord
  <1>4. /\ Distinct(w)
        /\ \A i \in Local : In(w, i) <=> i <= n /\ fr.locals[i].tag
    BY <1>1 DEF FrameSound, FrameShape
  <1>7. Len(w) <= n
    <2>1. \A i \in 1..Len(w) : w[i] \in 1..n
      <3>1. \A i \in 1..Len(w) : w[i] \in Local /\ In(w, w[i])
        BY <1>3, ToSetIn
      <3>2. \A i \in Local : i <= n => i \in 1..n
        BY <1>3 DEF Local
      <3> QED
        BY <1>4, <3>1, <3>2
    <2> PICK k : k = Len(w)
      OBVIOUS
    <2>3. k \in Nat /\ w \in [1..k -> Local]
      BY <1>3
    <2>4. w \in [1..k -> 1..n]
      BY <2>1, <2>3
    <2>5. w \in Seq(1..n)
      BY ONLY <2>3, <2>4, SeqDef
    <2>2. w \in Seq(1..n) /\ n \in Nat
      BY <1>3, <2>5
    <2> QED
      BY <1>4, <2>2, DistinctFits
  <1> QED
    BY <1>3, <1>7

(* The index fits: different locals of a frame, no more than it has.       *)
LEMMA WrittenIsExact ==
    ASSUME IInv, Accounts
    PROVE  WrittenExact
  <1> SUFFICES ASSUME NEW f \in ToSet(stack)
               PROVE  LET fr == frame[f]
                      IN /\ IsInjective(fr.written)
                         /\ ToSet(fr.written) = {i \in 1..fr.localCount : fr.locals[i].tag}
                         /\ Len(fr.written) <= fr.capacity
    BY DEF WrittenExact
  <1> PICK fr : fr = frame[f]
    OBVIOUS
  <1> PICK w, n : w = fr.written /\ n = fr.localCount
    OBVIOUS
  <1>1. Typed /\ FrameSound
    BY DEF IInv, Sound
  <1>2. f \in Frame /\ In(stack, f)
    BY <1>1, ToSetIn DEF Typed
  <1>3. /\ w \in Seq(Local) /\ n \in 0..MaxLocals /\ fr.capacity \in 0..MaxLocals
        /\ MaxLocals \in Nat
    <2>1. fr \in FrameRecord
      BY <1>1, <1>2 DEF Typed
    <2> QED
      BY <2>1, ConstantsAssumption DEF FrameRecord
  <1>4. /\ Distinct(w)
        /\ \A i \in Local : In(w, i) <=> i <= n /\ fr.locals[i].tag
    BY <1>1, <1>2 DEF FrameSound, FrameShape
  <1>5. IsInjective(w)
    BY <1>3, <1>4 DEF Distinct, IsInjective
  <1>6. ToSet(w) = {i \in 1..n : fr.locals[i].tag}
    <2>1. \A x : x \in ToSet(w) <=> In(w, x)
      BY <1>3, ToSetIn
    <2>2. \A x : In(w, x) => x \in Local
      BY <1>3, ToSetIn
    <2>3. \A i : i \in Local /\ i <= n <=> i \in 1..n
      BY <1>3 DEF Local
    <2> QED
      BY <1>4, <2>1, <2>2, <2>3
  <1>7. Len(w) <= n
    BY <1>2, WrittenWithin
  <1>8. Len(w) <= fr.capacity
    <2>1. n <= fr.capacity
      BY <1>2 DEF Accounts, IndexFitting
    <2>2. Len(w) \in Nat
      BY <1>3
    <2> QED
      BY <1>3, <1>7, <2>1, <2>2
  <1> QED
    BY <1>5, <1>6, <1>8

-----------------------------------------------------------------------------
(***************************************************************************)
(* The cache of frames (minyar_rc_enter, rc_bounded_frame_unit).           *)
(***************************************************************************)
(* A frame's storage is as many bytes as the frame is charged with. *)
LEMMA StorageSize ==
    ASSUME Typed, NEW f \in Frame
    PROVE  /\ IsFiniteSet(Storage(f)) /\ Cardinality(Storage(f)) = Charge[frame[f].capacity]
           /\ Charge[frame[f].capacity] \in Nat
  <1> PICK n : n = Charge[frame[f].capacity]
    OBVIOUS
  <1>1. n \in Nat
    <2>1. frame[f] \in FrameRecord
      BY DEF Typed
    <2>2. frame[f].capacity \in 0..MaxLocals
      BY <2>1 DEF FrameRecord
    <2> QED
      BY <2>2, ConstantsAssumption
  <1>2. IsFiniteSet(1..n) /\ Cardinality(1..n) = n
    <2>1. 1 \in Int /\ n \in Int
      BY <1>1
    <2>2. IsFiniteSet(1..n) /\ Cardinality(1..n) = IF 1 > n THEN 0 ELSE n - 1 + 1
      BY ONLY <2>1, FS_Interval
    <2> QED
      BY <1>1, <2>2
  <1>3. IsFiniteSet({f}) /\ Cardinality({f}) = 1
    BY FS_Singleton
  <1>4. IsFiniteSet({f} \X (1..n)) /\ Cardinality({f} \X (1..n)) = 1 * n
    BY ONLY <1>2, <1>3, FS_Product
  <1> QED
    BY <1>1, <1>4 DEF Storage

(* Different frames have different storage. *)
LEMMA StoragesDiffer ==
    ASSUME NEW f, NEW g, f # g
    PROVE  Storage(f) \cap Storage(g) = {}
  BY DEF Storage

(* The cache is charged for what it holds, which is finite. *)
CacheCounted == IsFiniteSet(CachedStorage) /\ CacheExact

LEMMA CachedFrames ==
    ASSUME Typed
    PROVE  \A p : p \in CachedStorage <=> \E f \in Frame : In(freeFrames, f) /\ p \in Storage(f)
  <1>1. freeFrames \in Seq(Frame)
    BY DEF Typed
  <1>2. \A x : x \in ToSet(freeFrames) <=> x \in Frame /\ In(freeFrames, x)
    BY <1>1, ToSetIn
  <1> QED
    BY <1>2 DEF CachedStorage

LEMMA CachedNext ==
    Typed' => \A p : p \in CachedStorage' <=>
                  \E f \in Frame : In(freeFrames', f) /\ p \in Storage(f)'
  <1>1. Typed => \A p : p \in CachedStorage <=>
                  \E f \in Frame : In(freeFrames, f) /\ p \in Storage(f)
    BY CachedFrames
  <1>2. Typed' => (\A p : p \in CachedStorage <=>
                  \E f \in Frame : In(freeFrames, f) /\ p \in Storage(f))'
    BY <1>1, PTL
  <1> QED
    BY <1>2 DEF In

(* A step that leaves cached frames alone leaves the account right. *)
LEMMA CacheAlone ==
    ASSUME IInv, IInv', CacheCounted, UNCHANGED <<freeFrames, cachedBytes>>,
           \A f \in Frame : In(freeFrames, f) => frame'[f].capacity = frame[f].capacity
    PROVE  CacheCounted'
  <1>1. Typed /\ Typed'
    BY DEF IInv, Sound
  <1>2. \A f \in Frame : In(freeFrames, f) => Storage(f)' = Storage(f)
    BY DEF Storage
  <1>3. CachedStorage' = CachedStorage
    BY <1>1, <1>2, CachedFrames, CachedNext
  <1> QED
    BY <1>3 DEF CacheCounted, CacheExact

(* Only one frame is written, and it is not cached. *)
LEMMA CacheElsewhere ==
    ASSUME IInv, IInv', CacheCounted, UNCHANGED <<freeFrames, cachedBytes>>,
           NEW g, g \in Frame => ~ In(freeFrames, g),
           \A f \in Frame : f # g => frame'[f] = frame[f]
    PROVE  CacheCounted'
  BY CacheAlone

(* The frame on top is open, so it is not cached. *)
LEMMA TopUncached ==
    ASSUME IInv, Running
    PROVE  Top \in Frame /\ ~ In(freeFrames, Top)
  <1>1. Typed /\ FrameSound /\ stack \in Seq(Frame) /\ stack # <<>>
    BY DEF IInv, Sound, Typed, Running
  <1>2. Top \in Frame /\ In(stack, Top)
    BY <1>1, ToSetIn DEF Top
  <1> QED
    BY <1>1, <1>2 DEF FrameSound, FrameShape

(* rc_drop and most micro-steps leave frames alone. *)
LEMMA FramesKeepCache ==
    ASSUME IInv, IInv', CacheCounted, UNCHANGED frameVars
    PROVE  CacheCounted'
  BY CacheAlone DEF frameVars

(* A retired frame is cached when its storage fits. *)
LEMMA CachePushed ==
    ASSUME IInv, IInv', CacheCounted, NEW f \in Frame, ~ In(freeFrames, f),
           CacheFits(Charge[frame[f].capacity]),
           freeFrames' = <<f>> \o freeFrames,
           cachedBytes' = cachedBytes + Charge[frame[f].capacity],
           \A g \in Frame : frame'[g].capacity = frame[g].capacity
    PROVE  CacheCounted'
  <1>1. Typed /\ Typed'
    BY DEF IInv, Sound
  <1>2. \A g \in Frame : Storage(g)' = Storage(g)
    BY DEF Storage
  <1>3. \A g : In(freeFrames', g) <=> g = f \/ In(freeFrames, g)
    BY <1>1, PushFacts DEF Typed
  <1>4. CachedStorage' = CachedStorage \cup Storage(f)
    BY <1>1, <1>2, <1>3, CachedFrames, CachedNext
  <1>5. CachedStorage \cap Storage(f) = {}
    <2>1. \A g \in Frame : In(freeFrames, g) => Storage(g) \cap Storage(f) = {}
      BY StoragesDiffer
    <2> QED
      BY <1>1, <2>1, CachedFrames
  <1> PICK n : n = Charge[frame[f].capacity]
    OBVIOUS
  <1>6. IsFiniteSet(Storage(f)) /\ Cardinality(Storage(f)) = n /\ n \in Nat
    BY <1>1, StorageSize
  <1>7. IsFiniteSet(CachedStorage) /\ Cardinality(CachedStorage) = cachedBytes
    BY DEF CacheCounted, CacheExact
  <1>8. cachedBytes \in Nat
    BY <1>7, FS_CardinalityType
  <1>9. /\ IsFiniteSet(CachedStorage \cup Storage(f))
        /\ Cardinality(CachedStorage \cup Storage(f)) = cachedBytes + n - 0
    <2>1. /\ IsFiniteSet(CachedStorage \cup Storage(f))
          /\ Cardinality(CachedStorage \cup Storage(f)) =
                Cardinality(CachedStorage) + Cardinality(Storage(f))
                  - Cardinality(CachedStorage \cap Storage(f))
      BY ONLY <1>6, <1>7, FS_Union
    <2> QED
      BY ONLY <1>5, <1>6, <1>7, <2>1, FS_EmptySet
  <1>10. cachedBytes + n <= CacheBytes /\ cachedBytes' = cachedBytes + n
    <2>1. n <= CacheBytes /\ cachedBytes <= CacheBytes - n
      BY DEF CacheFits
    <2> QED
      BY <1>6, <1>8, <2>1, ConstantsAssumption
  <1> QED
    BY <1>4, <1>6, <1>8, <1>9, <1>10 DEF CacheCounted, CacheExact

(* minyar_rc_enter takes a frame from the cache and pays it back. *)
LEMMA CachePopped ==
    ASSUME IInv, IInv', CacheCounted, freeFrames # <<>>,
           freeFrames' = Tail(freeFrames),
           cachedBytes' = cachedBytes - Charge[frame[freeFrames[1]].capacity],
           \A g \in Frame : g # freeFrames[1] => frame'[g] = frame[g]
    PROVE  CacheCounted'
  <1> PICK f : f = freeFrames[1]
    OBVIOUS
  <1>1. Typed /\ Typed' /\ FrameSound
    BY DEF IInv, Sound
  <1>2. \A g \in Frame : g # f => Storage(g)' = Storage(g)
    BY DEF Storage
  <1>3. /\ f \in Frame /\ ~ In(freeFrames', f)
        /\ \A g : In(freeFrames, g) <=> g = f \/ In(freeFrames', g)
    <2>1. freeFrames \in Seq(Frame) /\ Distinct(freeFrames)
      BY <1>1 DEF Typed, FrameSound
    <2> QED
      BY <2>1, TailFacts
  <1>4. CachedStorage = CachedStorage' \cup Storage(f)
    BY <1>1, <1>2, <1>3, CachedFrames, CachedNext
  <1>5. CachedStorage' \cap Storage(f) = {}
    <2>1. \A g \in Frame : In(freeFrames', g) => Storage(g)' \cap Storage(f) = {}
      BY <1>2, <1>3, StoragesDiffer
    <2> QED
      BY <1>1, <2>1, CachedNext
  <1> PICK n : n = Charge[frame[f].capacity]
    OBVIOUS
  <1>6. IsFiniteSet(Storage(f)) /\ Cardinality(Storage(f)) = n /\ n \in Nat
    BY <1>1, <1>3, StorageSize
  <1>7. /\ IsFiniteSet(CachedStorage) /\ Cardinality(CachedStorage) = cachedBytes
        /\ cachedBytes <= CacheBytes
    BY DEF CacheCounted, CacheExact
  <1>8. IsFiniteSet(CachedStorage')
    BY <1>4, <1>7, FS_Subset
  <1> PICK k : k = Cardinality(CachedStorage')
    OBVIOUS
  <1>9. k \in Nat
    BY <1>8, FS_CardinalityType
  <1>10. Cardinality(CachedStorage' \cup Storage(f)) = k + n - 0
    BY <1>5, <1>6, <1>8, FS_Union, FS_EmptySet
  <1>11. cachedBytes = k + n
    BY <1>4, <1>6, <1>7, <1>9, <1>10
  <1>12. cachedBytes' = k /\ k <= CacheBytes
    <2>1. CacheBytes \in Nat /\ cachedBytes' = cachedBytes - n
      BY ConstantsAssumption
    <2> PICK c, d : c = cachedBytes /\ d = cachedBytes'
      OBVIOUS
    <2>2. c = k + n /\ c <= CacheBytes /\ d = c - n /\ CacheBytes \in Nat
      BY <1>7, <1>11, <2>1
    <2>3. d = k /\ k <= CacheBytes
      BY ONLY <1>6, <1>9, <2>2
    <2> QED
      BY <2>3
  <1> QED
    BY <1>8, <1>12 DEF CacheCounted, CacheExact

(* A unit of the queue of frames visits a local or retires the frame. *)
LEMMA FrameUnitCached ==
    ASSUME IInv, IInv', CacheCounted, Ready(1), FrameUnit
    PROVE  CacheCounted'
  <1> PICK f : f = frameQueue[1]
    OBVIOUS
  <1>1. Typed /\ FrameSound /\ f \in Frame /\ In(frameQueue, f)
    <2>1. Typed /\ FrameSound /\ frameQueue # <<>>
      BY DEF IInv, Sound, Ready
    <2> QED
      BY <2>1, ToSetIn DEF Typed
  <1>2. ~ In(freeFrames, f)
    BY <1>1 DEF FrameSound, FrameShape, Detached
  <1>3. \A g \in Frame : g # f => frame'[g] = frame[g]
    BY <1>1 DEF FrameUnit, RetireFrame, Typed
  <1>4. CASE UNCHANGED <<freeFrames, cachedBytes>>
    BY <1>2, <1>3, <1>4, CacheElsewhere
  <1>5. CASE RetireFrame(f) /\ CacheFits(Charge[frame[f].capacity])
    <2>1. /\ freeFrames' = <<f>> \o freeFrames
          /\ cachedBytes' = cachedBytes + Charge[frame[f].capacity]
      BY <1>5 DEF RetireFrame
    <2>2. frame'[f].capacity = frame[f].capacity
      <3> PICK ls : frame' = [frame EXCEPT ![f].locals = ls]
        BY <1>5 DEF RetireFrame
      <3>1. frame[f] \in FrameRecord /\ frame'[f] = [frame[f] EXCEPT !.locals = ls]
        BY <1>1 DEF Typed
      <3> QED
        BY <3>1 DEF FrameRecord
    <2>3. \A g \in Frame : frame'[g].capacity = frame[g].capacity
      BY <1>3, <2>2
    <2> QED
      BY <1>1, <1>2, <1>5, <2>1, <2>3, CachePushed
  <1>6. CASE RetireFrame(f) /\ ~ CacheFits(Charge[frame[f].capacity])
    BY <1>4, <1>6 DEF RetireFrame
  <1> QED
    BY <1>4, <1>5, <1>6 DEF FrameUnit

(* minyar_rc_enter and minyar_rc_enter_stack_v1. *)
LEMMA EnterCached ==
    ASSUME IInv, IInv', CacheCounted, DoEnter \/ DoEnterStack
    PROVE  CacheCounted'
  <1>1. Typed /\ FrameSound
    BY DEF IInv, Sound
  <1>2. CASE DoEnter /\ freeFrames # <<>>
    <2>1. \A g \in Frame : g # freeFrames[1] => frame'[g] = frame[g]
      BY <1>1, <1>2 DEF DoEnter, Typed
    <2>2. /\ freeFrames' = Tail(freeFrames)
          /\ cachedBytes' = cachedBytes - Charge[frame[freeFrames[1]].capacity]
      BY <1>2 DEF DoEnter
    <2> QED
      BY <1>2, <2>1, <2>2, CachePopped
  <1>3. CASE DoEnterStack \/ (DoEnter /\ freeFrames = <<>>)
    <2>1. PICK name \in {"enter", "enterStack"} :
            Doing(name) /\ (name = "enter" => freeFrames = <<>>)
      BY <1>3 DEF DoEnter, DoEnterStack
    <2>2. FrameReady(1) /\ todo[1].do = name
      BY <2>1, DoingFacts
    <2>3. UnusedFrames # {}
      BY <2>1, <2>2 DEF FrameReady
    <2>4. ~ In(freeFrames, NewFrame)
      BY <1>1, <2>3, UnusedFrameSound
    <2>5. /\ UNCHANGED <<freeFrames, cachedBytes>>
          /\ \A g \in Frame : g # NewFrame => frame'[g] = frame[g]
      BY <1>1, <1>3 DEF DoEnter, DoEnterStack, Typed
    <2> QED
      BY <2>4, <2>5, CacheElsewhere
  <1> QED
    BY <1>2, <1>3

(* minyar_rc_leave_stack_v1 frees a frame that was never cached. *)
LEMMA DropLocalsCached ==
    ASSUME IInv, IInv', CacheCounted, DoDropLocals
    PROVE  CacheCounted'
  <1>1. Typed /\ FrameSound /\ todo # <<>> /\ Now \in MicroStep /\ Now.do = "dropLocals"
        /\ todo[1] = Now
    <2>1. Doing("dropLocals")
      BY DEF DoDropLocals
    <2> QED
      BY <2>1, DoingFacts
  <1>2. Now.target \in Frame /\ Detached(Now.target)
    BY <1>1, StepTypes DEF Dropping, Detached
  <1>3. ~ In(freeFrames, Now.target)
    BY <1>1, <1>2, OffStack
  <1>4. /\ UNCHANGED <<freeFrames, cachedBytes>>
        /\ \A g \in Frame : g # Now.target => frame'[g] = frame[g]
    BY <1>1 DEF DoDropLocals, Typed
  <1> QED
    BY <1>3, <1>4, CacheElsewhere

(* Micro-steps write the frame on top, or one that is not cached. *)
LEMMA ResumeCached ==
    ASSUME IInv, IInv', CacheCounted, Resume
    PROVE  CacheCounted'
  <1>1. CASE DoLocal \/ DoChunk \/ DoHold
    <2>1. PICK name \in {"local", "chunk", "hold"} : Doing(name)
      BY <1>1 DEF DoLocal, DoChunk, DoHold
    <2>2. FrameReady(1) /\ todo[1].do = name
      BY <2>1, DoingFacts
    <2>3. Running
      BY <2>2 DEF FrameReady, Running
    <2>4. UNCHANGED <<freeFrames, cachedBytes>> /\ \A g \in Frame : g # Top => frame'[g] = frame[g]
      BY <1>1 DEF DoLocal, DoChunk, DoHold, IInv, Sound, Typed
    <2> QED
      BY <2>3, <2>4, TopUncached, CacheElsewhere
  <1>2. CASE DoService \/ DoRest \/ DoAllocate \/ DoRetain \/ DoResult \/ DoBacking
    BY <1>2, FramesKeepCache
       DEF DoService, DoRest, DoAllocate, DoRetain, DoResult, DoBacking, OnHeap
  <1>3. CASE \/ DoTake \/ DoGrow \/ DoRelease \/ DoReferences \/ DoAppend \/ DoReplace
             \/ DoField
    BY <1>3, FramesKeepCache
       DEF DoTake, DoGrow, DoRelease, DoReferences, DoAppend, DoReplace, DoField, OnHeap
  <1> QED
    BY <1>1, <1>2, <1>3, EnterCached, DropLocalsCached DEF Resume

LEMMA MachineCached ==
    ASSUME IInv, IInv', CacheCounted, Machine
    PROVE  CacheCounted'
  <1>1. CASE RcDrop
    BY <1>1, FramesKeepCache DEF RcDrop
  <1>2. CASE PollUnit
    <2>1. PICK q \in 0..2 : /\ Selected(q)
                            /\ CASE q = 0 -> ObjectUnit
                                 [] q = 1 -> FrameUnit
                                 [] q = 2 -> ChunkUnit
      BY <1>2 DEF PollUnit
    <2>2. CASE q = 0
      BY <2>1, <2>2, FramesKeepCache DEF ObjectUnit
    <2>3. CASE q = 1
      BY <2>1, <2>3, FrameUnitCached DEF Selected
    <2>4. CASE q = 2
      BY <2>1, <2>4, FramesKeepCache DEF ChunkUnit
    <2> QED
      BY <2>1, <2>2, <2>3, <2>4
  <1> QED
    BY <1>1, <1>2, ResumeCached DEF Machine

LEMMA ProgramCached ==
    ASSUME IInv, IInv', CacheCounted, Program
    PROVE  CacheCounted'
  <1>1. ASSUME NEW name, NEW steps, Call(name, steps) PROVE CacheCounted'
    BY <1>1, FramesKeepCache DEF Call
  <1>2. CASE NewRecord \/ NewScalarRecord \/ RecordSet \/ RecordSetScalar
    BY <1>1, <1>2 DEF NewRecord, NewScalarRecord, RecordSet, RecordSetScalar
  <1>3. CASE NewList \/ ListReferences \/ ListAdd \/ ListSet \/ ListAppended
    BY <1>1, <1>3 DEF NewList, ListReferences, ListAdd, ListSet, ListAppended
  <1>4. CASE NewText \/ TextSlice \/ JoinTakeLeft
    BY <1>1, <1>4 DEF NewText, TextSlice, JoinTakeLeft
  <1>5. CASE RetainResult \/ Keep \/ SetLocal \/ Enter \/ EnterStack
    BY <1>1, <1>5 DEF RetainResult, Keep, SetLocal, Enter, EnterStack
  <1>6. CASE MoveLocal \/ Step \/ Leave \/ LeaveStack
    <2>1. Running
      BY <1>6 DEF MoveLocal, Step, Leave, LeaveStack, Idle
    <2>2. UNCHANGED <<freeFrames, cachedBytes>> /\ \A g \in Frame : g # Top => frame'[g] = frame[g]
      BY <1>6 DEF MoveLocal, Step, Leave, LeaveStack, Detach, IInv, Sound, Typed
    <2> QED
      BY <2>1, <2>2, TopUncached, CacheElsewhere
  <1> QED
    BY <1>2, <1>3, <1>4, <1>5, <1>6 DEF Program

LEMMA InitCached ==
    ASSUME Init
    PROVE  CacheCounted
  <1>1. freeFrames = <<>> /\ cachedBytes = 0
    BY DEF Init
  <1>2. ToSet(freeFrames) = {}
    <2>1. freeFrames \in Seq(Frame)
      BY <1>1
    <2> QED
      BY <1>1, <2>1, ToSetIn
  <1>3. CachedStorage = {}
    BY <1>2 DEF CachedStorage
  <1> QED
    BY <1>1, <1>3, FS_EmptySet, ConstantsAssumption DEF CacheCounted, CacheExact

(* The cache of frames is charged right in every state. *)
LEMMA CacheHolds == Spec => []CacheCounted
  <1>1. Init => CacheCounted
    BY InitCached
  <1>2. IInv /\ IInv' /\ CacheCounted /\ [Next]_vars => CacheCounted'
    <2> SUFFICES ASSUME IInv, IInv', CacheCounted, [Next]_vars PROVE CacheCounted'
      OBVIOUS
    <2>1. CASE UNCHANGED vars
      BY <2>1, FramesKeepCache DEF vars
    <2> QED
      BY <2>1, MachineCached, ProgramCached DEF Next
  <1> QED
    BY <1>1, <1>2, AccountsHold, PTL DEF Spec

(* The written index of an open frame names each local that ever held a    *)
(* value once and never runs past the capacity that minyar_rc_enter        *)
(* reserved for it; the cache of frames is charged for the storage it      *)
(* holds, which never exceeds its limit; and pending counts the frames and *)
(* chunks that wait.                                                       *)
THEOREM FramesStayExact == Spec => []FramesExact
  <1>1. IInv /\ Accounts /\ CacheCounted => FramesExact
    BY WrittenIsExact DEF FramesExact, Accounts, CacheCounted
  <1> QED
    BY <1>1, AccountsHold, CacheHolds, PTL
-----------------------------------------------------------------------------
(***************************************************************************)
(* What is alive can be reached: live values form no cycle, because a      *)
(* program may only store a value where it does not lead back to.          *)
(***************************************************************************)
(* A call that stores nothing. *)
LEMMA PlainCallReady ==
    ASSUME IInv', NEW steps, todo' = steps, Without(Bearing(Storing), steps)
    PROVE  StoresReady'
  <1>1. todo' \in Seq(MicroStep)
    BY DEF IInv, Sound, Typed
  <1>2. ASSUME NEW j \in 1..Len(todo') PROVE todo'[j].do \notin Storing
    BY <1>1, ElementOfSeq DEF Without, Bearing
  <1> QED
    BY <1>2, NoStores

(* The Text that a view of t points into is not a view itself. *)
LEMMA RootOfText ==
    ASSUME IInv, HeapFit, Idle, NEW t \in Texts
    PROVE  RootText(TextRoot(t))
  <1>1. t \in Object => kind[t] = "TEXT"
    BY DEF Texts, Mortal
  <1>2. CASE t \in Object /\ fields[t] # <<>>
    <2>1. fields[t] \in Seq(Value)
      BY <1>2 DEF IInv, Sound, Typed
    <2>2. fields[t][1] \in ToSet(fields[t])
      BY <1>2, <2>1, ToSetIn DEF In
    <2>3. FieldsFit(t)
      BY <1>2 DEF HeapFit
    <2>4. RootText(fields[t][1])
      BY <1>1, <1>2, <2>2, <2>3 DEF FieldsFit
    <2> QED
      BY <1>2, <2>4 DEF TextRoot, Mortal
  <1>3. CASE ~ (t \in Object /\ fields[t] # <<>>)
    BY <1>1, <1>3 DEF TextRoot, Mortal, RootText
  <1> QED
    BY <1>2, <1>3

(* minyar_text_slice that makes a view. *)
LEMMA ViewReady ==
    ASSUME IInv, IInv', HeapFit, program' = program, NEW r \in EmptyRegisters, NEW t \in Texts,
           NEW z \in Indexing, Call("slice", ViewSteps(z, r, t))
    PROVE  StoresReady'
  <1>1. Idle /\ CallOnly /\ todo' = ViewSteps(z, r, t)
    BY CallFacts DEF Call
  <1> PICK v : v = TextRoot(t)
    OBVIOUS
  <1>2. /\ Len(todo') = 5
        /\ todo'[1] = z /\ todo'[2] = Poll /\ todo'[3] = Allocate(r, "TEXT", 0)
        /\ todo'[4] = Retain(v) /\ todo'[5] = Into("backing", r, 0)
    BY <1>1 DEF ViewSteps
  <1>3. /\ todo'[1].do = "service" /\ todo'[2].do = "service" /\ todo'[3].do = "allocate"
        /\ todo'[4].do = "retain" /\ todo'[4].value = v
        /\ todo'[5].do = "backing" /\ todo'[5].target = r
    BY <1>2, NamesOfSteps DEF Into, Retain, Indexing, Service, Poll
  <1>4. ASSUME NEW j \in 1..Len(todo')
        PROVE  j = 5 \/ todo'[j].do \notin Storing \cup {"take"}
    <2>1. j = 1 \/ j = 2 \/ j = 3 \/ j = 4 \/ j = 5
      BY <1>2
    <2> QED
      BY <1>3, <2>1 DEF Storing
  <1>5. RootText(v)
    BY <1>1, RootOfText
  <1>6. At(r)' = None /\ None \notin Object
    BY <1>1, IdleFacts DEF EmptyRegisters, Results, At, CallOnly
  <1>7. PICK d : d = 5
    OBVIOUS
  <1>8. d - 1 = 4 /\ d > 1 /\ d # 1
    BY <1>7
  <1>9. Given(d)' = v
    BY <1>3, <1>8 DEF Given
  <1>10. StoreReady(d)'
    <2>1. Fits("backing", None, v)
      BY <1>5, <1>6 DEF Fits
    <2>2. Fits("backing", None, v)'
      BY <1>1, <2>1, FitsCalled
    <2>3. todo'[d].do = "backing" /\ todo'[d].target = r /\ todo'[d - 1].do = "retain"
      BY <1>3, <1>7, <1>8
    <2>4. \E l, w : At(todo[d].target)' = l /\ Given(d)' = w /\ Fits(todo[d].do, l, w)'
      BY <1>6, <1>9, <2>2, <2>3
    <2> QED
      BY <2>3, <2>4 DEF StoreReady, Acquires
  <1>11. ASSUME NEW j \in 1..Len(todo') PROVE StoreReady(j)'
    BY <1>4, <1>7, <1>10 DEF StoreReady
  <1>12. ASSUME NEW i \in 1..Len(todo'), NEW j \in 1..Len(todo'), todo'[j].do \in Storing
         PROVE  /\ todo'[i].do \in Storing => todo'[i].target = todo'[j].target
                /\ ~ (todo'[i].do = "take" /\ i < j)
    <2>1. j = 5
      BY <1>4, <1>12
    <2>2. i = 5 \/ todo'[i].do \notin Storing \cup {"take"}
      BY <1>4
    <2> QED
      BY <1>3, <2>1, <2>2
  <1> QED
    BY <1>11, <1>12 DEF StoresReady

LEMMA SlicesReady ==
    ASSUME IInv, IInv', HeapFit, program' = program, TextSlice
    PROVE  StoresReady'
  <1> PICK N : N = Bearing(Storing)
    OBVIOUS
  <1>1. Spared(N)
    BY SetsSpared
  <1>2. ASSUME NEW name, NEW steps, PlainCall(N, name, steps) PROVE StoresReady'
    BY <1>2, PlainCallReady DEF PlainCall, Call
  <1> QED
    BY <1>1, <1>2, SliceCalls, ViewReady

LEMMA KeepReady ==
    ASSUME IInv, IInv', program' = program, Keep
    PROVE  StoresReady'
  <1> PICK N : N = Bearing(Storing)
    OBVIOUS
  <1>1. Spared(N)
    BY SetsSpared
  <1>2. Op("chunk") \notin N
    BY NamesOfSteps DEF Bearing, Storing
  <1>3. \E steps : todo' = steps /\ Without(N, steps)
    BY <1>1, <1>2, KeepCalls
  <1> QED
    BY <1>3, PlainCallReady

(* Calls that are one step of the machine. *)
LEMMA ShortCallsReady ==
    ASSUME IInv, IInv', Step \/ Leave \/ LeaveStack \/ MoveLocal
    PROVE  StoresReady'
  <1>1. CASE Step \/ Leave
    <2>1. todo' = <<Poll>>
      BY <1>1 DEF Step, Leave
    <2> QED
      BY <2>1, SetsSpared, StepsSpared, WithoutOne, PlainCallReady
  <1>2. CASE LeaveStack
    <2>1. todo' = <<Into("dropLocals", Top, 0), Service(Budget - Len(frame[Top].written))>>
      BY <1>2 DEF LeaveStack
    <2>2. Service(Budget - Len(frame[Top].written)) \notin Bearing(Storing)
      BY NamesOfSteps DEF Bearing, Storing
    <2> QED
      BY <2>1, <2>2, SetsSpared, StepsSpared, WithoutTwo, PlainCallReady
  <1>3. CASE MoveLocal
    <2>1. todo' = todo /\ Idle
      BY <1>3 DEF MoveLocal, callVars
    <2>2. Len(todo') = 0
      BY <2>1, IdleFacts
    <2> QED
      BY <2>2, NoStores
  <1> QED
    BY <1>1, <1>2, <1>3

(* Only the machine writes to the heap. *)
LEMMA ProgramHeap ==
    ASSUME Program
    PROVE  UNCHANGED <<kind, count, fields>>
  <1>1. ASSUME NEW name, NEW steps, Call(name, steps) PROVE UNCHANGED <<kind, count, fields>>
    BY <1>1 DEF Call, heapVars
  <1>2. CASE NewRecord \/ NewScalarRecord \/ RecordSet \/ RecordSetScalar
    BY <1>1, <1>2 DEF NewRecord, NewScalarRecord, RecordSet, RecordSetScalar
  <1>3. CASE NewList \/ ListReferences \/ ListAdd \/ ListSet \/ ListAppended
    BY <1>1, <1>3 DEF NewList, ListReferences, ListAdd, ListSet, ListAppended
  <1>4. CASE NewText \/ TextSlice \/ JoinTakeLeft
    BY <1>1, <1>4 DEF NewText, TextSlice, JoinTakeLeft
  <1>5. CASE RetainResult \/ Keep \/ SetLocal \/ Enter \/ EnterStack
    BY <1>1, <1>5 DEF RetainResult, Keep, SetLocal, Enter, EnterStack
  <1>6. CASE MoveLocal \/ Step \/ Leave \/ LeaveStack
    BY <1>6 DEF MoveLocal, Step, Leave, LeaveStack, heapVars
  <1> QED
    BY <1>2, <1>3, <1>4, <1>5, <1>6 DEF Program

(* The program leaves the heap alone and stores only what fits. *)
LEMMA ProgramReady ==
    ASSUME IInv, IInv', HeapReady, Program
    PROVE  HeapReady'
  <1>1. program' = program
    BY DEF Program
  <1>2. HeapFit
    BY DEF HeapReady
  <1>3. StoresReady'
    <2>1. CASE NewValues \/ Others
      <3> PICK N : N = Bearing(Storing)
        OBVIOUS
      <3>1. \E name, steps : PlainCall(N, name, steps)
        BY <2>1, SetsSpared, NewValueCalls, OtherCalls
      <3> QED
        BY <3>1, PlainCallReady DEF PlainCall, Call
    <2>2. CASE Setters
      BY <1>1, <2>2, RecordSetSound, ListAddSound, ListSetSound DEF Setters
    <2>3. CASE ListAppended
      BY <1>1, <1>2, <2>3, AppendedFits
    <2>4. CASE TextSlice \/ Keep
      BY <1>1, <1>2, <2>4, SlicesReady, KeepReady
    <2> QED
      BY <2>1, <2>2, <2>3, <2>4, ShortCallsReady DEF Program, NewValues, Setters, Others
  <1>4. UNCHANGED <<kind, count, fields>>
    BY ProgramHeap
  <1> QED
    BY <1>2, <1>3, <1>4, HeapAlone, QuietKeepsHeap DEF HeapReady

LEMMA StutterReady ==
    ASSUME IInv, IInv', HeapReady, UNCHANGED vars
    PROVE  HeapReady'
  <1>1. UNCHANGED <<kind, count, fields, hand, reg, todo>>
    BY DEF vars, heapVars, callVars
  <1>2. Ahead(0)
    BY <1>1, AheadForms DEF IInv, Sound, Typed
  <1> QED
    BY <1>1, <1>2, HeapAlone, GivenKept, TargetsSteady, QuietKeepsHeap, QuietStores DEF HeapReady

(* At first there is no value, and nothing to store. *)
LEMMA InitReady ==
    ASSUME Init
    PROVE  HeapReady
  <1>1. kind = [o \in Object |-> "FREE"] /\ fields = [o \in Object |-> <<>>]
    BY DEF Init
  <1>2. \A o \in Object : ToSet(fields[o]) = {}
    BY <1>1 DEF ToSet
  <1>3. LiveAcyclic
    BY <1>2 DEF LiveAcyclic
  <1>4. \A o \in Object : FieldsFit(o)
    BY <1>1 DEF FieldsFit, ListKinds
  <1>5. StoresReady
    <2>1. PICK n : todo = <<Poll, Into("enter", None, n)>>
      BY DEF Init, EnterSteps
    <2>2. todo[1].do = "service" /\ todo[2].do = "enter" /\ Len(todo) = 2
      BY <2>1, NamesOfSteps
    <2>3. ASSUME NEW j \in 1..Len(todo) PROVE todo[j].do \notin Storing
      <3>1. j = 1 \/ j = 2
        BY <2>2
      <3> QED
        BY <2>2, <3>1 DEF Storing
    <2> QED
      BY <2>3 DEF StoresReady, StoreReady
  <1> QED
    BY <1>3, <1>4, <1>5 DEF HeapReady, HeapFit

LEMMA NextReady ==
    ASSUME IInv, IInv', HeapReady, [Next]_vars
    PROVE  HeapReady'
  <1>1. CASE Machine
    BY <1>1, CleanupReady, ResumeReady DEF Machine
  <1>2. CASE Program
    BY <1>2, ProgramReady
  <1> QED
    BY <1>1, <1>2, StutterReady DEF Next
(* What a live value outside every root is referred to by is a live value  *)
(* outside every root too, and so would lead to a cycle.                   *)
LEMMA LiveAreReachable ==
    ASSUME IInv, HeapFit
    PROVE  NoLeak
  <1> SUFFICES ASSUME NEW o \in Object, Live(o), NEW P \in SUBSET Object,
                      \A s \in RootSlot : edge[s] # None => edge[s] \in P,
                      \A p \in Object : Dead(p) => p \in P,
                      \A p \in P : OwnedBy(p) \subseteq P
               PROVE  o \in P
    <2>1. None \notin Object
      BY ConstantsAssumption
    <2> QED
      BY <2>1 DEF NoLeak, Reachable
  <1> SUFFICES ASSUME o \notin P PROVE FALSE
    OBVIOUS
  <1>1. Typed /\ HeapSound /\ CountExact
    BY DEF IInv, Sound
  <1> PICK S : S = {x \in Object : Live(x) /\ x \notin P}
    OBVIOUS
  <1>2. S \in SUBSET Object /\ S # {} /\ \A x \in S : Live(x)
    OBVIOUS
  <1>3. PICK x \in S : \A p \in S : x \notin ToSet(fields[p])
    BY <1>2 DEF HeapFit, LiveAcyclic
  <1>4. x \in Object /\ x # None /\ count[x] > 0
    BY <1>2, ConstantsAssumption DEF Live
  <1>5. PICK s \in Slot : edge[s] = x
    <2> SUFFICES ASSUME \A s \in Slot : edge[s] # x PROVE FALSE
      OBVIOUS
    <2>1. Owners(x) = {}
      BY DEF Owners
    <2>2. Cardinality(Owners(x)) = 0
      BY <2>1, FS_EmptySet
    <2>3. Cardinality(Owners(x)) = count[x]
      BY <1>1, <1>4 DEF CountExact
    <2> QED
      BY <1>4, <2>2, <2>3
  <1>6. s \notin RootSlot
    BY <1>3, <1>4, <1>5
  <1>7. PICK p \in Object, i \in Index : s = <<p, i>>
    BY <1>5, <1>6 DEF Slot
  <1>8. edge[<<p, i>>] = x /\ <<p, i>> \in Slot
    BY <1>5, <1>7
  <1>9. p \notin P
    BY <1>3, <1>4, <1>8 DEF OwnedBy
  <1>10. x = fields[p][i] /\ i \in 1..Len(fields[p])
    <2>1. Held(<<p, i>>) = x
      BY <1>4, <1>8 DEF edge
    <2>2. Held(<<p, i>>) = IF Progress(p) < i /\ i <= Len(fields[p]) THEN fields[p][i] ELSE None
      BY SlotAssumption DEF Held
    <2>3. i \in Nat \ {0} /\ i <= Len(fields[p]) /\ x = fields[p][i]
      BY <1>4, <2>1, <2>2 DEF Index
    <2>4. Len(fields[p]) \in Nat
      BY <1>1 DEF Typed
    <2> QED
      BY <2>3, <2>4
  <1>11. x \in ToSet(fields[p])
    <2>1. fields[p] \in Seq(Value)
      BY <1>1 DEF Typed
    <2> QED
      BY <1>10, <2>1, ToSetIn DEF In
  <1>12. ~ Live(p)
    BY <1>3, <1>9, <1>11
  <1>13. Free(p)
    <2>1. count[p] \in Nat /\ ~ (count[p] > 0)
      BY <1>1, <1>12 DEF Typed, Live
    <2>2. count[p] = 0
      BY <2>1
    <2> QED
      BY <1>9, <2>2 DEF Dead, Free
  <1> QED
    <2>1. fields[p] = <<>>
      BY <1>1, <1>13 DEF HeapSound
    <2>2. Len(fields[p]) = 0
      BY <2>1
    <2> QED
      BY <1>10, <2>2

(* Destruction may skip the elements of a List of immortal ones, and what  *)
(* is behind a view's Text.                                                *)
LEMMA ShortcutsAreSafe ==
    ASSUME IInv, HeapFit
    PROVE  ImmortalLists /\ FlatViews
  <1>1. Typed /\ HeapSound
    BY DEF IInv, Sound
  <1>2. ASSUME NEW o \in Object
        PROVE  \A v \in ToSet(fields[o]) : v \in Value /\ \E i \in 1..Len(fields[o]) : fields[o][i] = v
    <2>1. fields[o] \in Seq(Value)
      BY <1>1 DEF Typed
    <2>2. \A v : v \in ToSet(fields[o]) => v \in Value /\ In(fields[o], v)
      BY <2>1, ToSetIn
    <2> QED
      BY <2>2 DEF In
  <1>3. ASSUME NEW o \in Object, kind[o] = "REFERENCES_IMMORTAL", NEW v \in ToSet(fields[o])
        PROVE  v \in Literal
    <2>1. v \in Value /\ v \notin Object
      BY <1>1, <1>2, <1>3 DEF HeapSound
    <2>2. v # None
      BY <1>3 DEF HeapFit, FieldsFit, ListKinds
    <2> QED
      BY <2>1, <2>2 DEF Value
  <1>4. ASSUME NEW o \in Object, kind[o] = "TEXT"
        PROVE  /\ Len(fields[o]) <= 1
               /\ \A v \in ToSet(fields[o]) : v \in Object => kind[v] = "TEXT" /\ fields[v] = <<>>
    <2>1. Len(fields[o]) <= 1
      BY <1>1, <1>4 DEF HeapSound
    <2>2. FieldsFit(o)
      BY DEF HeapFit
    <2> QED
      BY <1>4, <2>1, <2>2 DEF FieldsFit, RootText
  <1>5. ImmortalLists
    BY <1>3 DEF ImmortalLists
  <1>6. FlatViews
    BY <1>4 DEF FlatViews, Mortal
  <1> QED
    BY <1>5, <1>6

(***************************************************************************)
(* The counters of the runtime stay in their ranges: a saturated count     *)
(* stops the program, and no poll is given more than the budget.           *)
(***************************************************************************)
CountBound == \A o \in Object : count[o] <= MaxCount
Turns == turn \in {0, 1} /\ nextQueue \in 0..2
Paid == \A j \in 1..Len(todo) : todo[j] \notin Overdrawn
FramesPaid == \A f \in Frame : frame[f].onStack => frame[f].localCount <= Budget

LEMMA SameBudget ==
    ASSUME IInv, program' = program
    PROVE  Budget \in Nat /\ Budget' = Budget /\ Overdrawn' = Overdrawn
  BY SetsSpared DEF Spared, Budget, Overdrawn

(* A unit of a poll frees a value or leaves the counts alone. *)
LEMMA UnitCounts ==
    ASSUME IInv, PollUnit
    PROVE  count' = count \/ \E o \in Object : count' = [count EXCEPT ![o] = 0]
  <1>1. PICK q \in 0..2 : /\ Selected(q)
                          /\ CASE q = 0 -> ObjectUnit
                               [] q = 1 -> FrameUnit
                               [] q = 2 -> ChunkUnit
    BY DEF PollUnit
  <1>2. Typed
    BY DEF IInv, Sound
  <1>3. CASE q = 0
    <2>1. CASE UseRecent
      <3>1. RecentObjectUnit
        BY <1>1, <1>3, <2>1 DEF ObjectUnit
      <3>2. recent # <<>>
        BY <2>1 DEF UseRecent, RecentBatch
      <3>3. recent[1] \in Object
        BY <1>2, <3>2, ElementOfSeq DEF Typed
      <3> QED
        BY <3>1, <3>3 DEF RecentObjectUnit, FinishObject
    <2>2. CASE ~ UseRecent
      <3>1. OldObjectUnit /\ (active # None \/ old # <<>> \/ recent # <<>>)
        BY <1>1, <1>3, <2>2 DEF ObjectUnit, Selected, Ready
      <3> PICK o : o = IF active # None THEN active ELSE OldBatch[1]
        OBVIOUS
      <3>2. o \in Object
        <4>1. CASE active # None
          BY <1>2, <4>1 DEF Typed
        <4>2. CASE active = None
          <5>1. OldBatch # <<>> /\ OldBatch \in Seq(Object)
            BY <1>2, <3>1, <4>2 DEF OldBatch, Capture, Typed
          <5>2. OldBatch[1] \in Object
            BY <5>1, ElementOfSeq
          <5> QED
            BY <4>2, <5>2
        <4> QED
          BY <4>1, <4>2
      <3>3. count' = count \/ count' = [count EXCEPT ![o] = 0]
        BY <3>1 DEF OldObjectUnit, VisitUnit, FinishObject, heapVars
      <3> QED
        BY <3>2, <3>3
    <2> QED
      BY <2>1, <2>2
  <1>4. CASE q = 1
    BY <1>1, <1>4 DEF FrameUnit, VisitUnit, heapVars
  <1>5. CASE q = 2
    BY <1>1, <1>5 DEF ChunkUnit, VisitUnit, heapVars
  <1> QED
    BY <1>3, <1>4, <1>5

(* A count changes by one at a time. *)
LEMMA CountsBounded ==
    ASSUME IInv, IInv', CountBound, [Next]_vars
    PROVE  CountBound'
  <1>1. /\ count \in [Object -> Nat] /\ count' \in [Object -> Nat] /\ MaxCount \in Nat \ {0}
    BY ConstantsAssumption DEF IInv, Sound, Typed
  <1> DEFINE Lower == \A o \in Object : count'[o] <= count[o] \/ count'[o] <= 1
  <1>2. Lower => CountBound'
    <2> SUFFICES ASSUME Lower, NEW o \in Object PROVE count'[o] <= MaxCount
      BY DEF CountBound
    <2> PICK c, d : c = count[o] /\ d = count'[o]
      OBVIOUS
    <2>1. c \in Nat /\ d \in Nat /\ c <= MaxCount /\ (d <= c \/ d <= 1)
      BY <1>1 DEF CountBound
    <2>2. d <= MaxCount
      BY ONLY <1>1, <2>1
    <2> QED
      BY <2>2
  <1>3. CASE count' = count
    BY <1>3 DEF CountBound
  <1>4. ASSUME NEW o \in Object, count' = [count EXCEPT ![o] = 0] \/ count' = [count EXCEPT ![o] = 1]
        PROVE  CountBound'
    <2>1. \A p \in Object : count'[p] = count[p] \/ count'[p] = 0 \/ count'[p] = 1
      BY <1>1, <1>4
    <2>2. \A p \in Object : count[p] <= count[p]
      BY <1>1
    <2>3. Lower
      BY <2>1, <2>2
    <2> HIDE DEF Lower
    <2> QED
      BY <1>2, <2>3
  <1>5. CASE RcDrop
    <2>1. CASE DropShared
      <3>1. falling \in Object /\ count' = [count EXCEPT ![falling] = count[falling] - 1]
        BY <2>1 DEF DropShared, Mortal
      <3>2. \A p \in Object : count'[p] = count[p] \/ count'[p] = count[p] - 1
        BY <1>1, <3>1
      <3>3. \A n \in Nat : n - 1 <= n /\ n <= n
        OBVIOUS
      <3>4. Lower
        BY <1>1, <3>2, <3>3
      <3> HIDE DEF Lower
      <3> QED
        BY <1>2, <3>4
    <2>2. CASE DropLiteral
      BY <1>3, <2>2 DEF DropLiteral, heapVars
    <2>3. CASE DropLeaf \/ DropView \/ DropNode
      <3>1. falling \in Object /\ count' = [count EXCEPT ![falling] = 0]
        BY <2>3 DEF DropLeaf, DropView, DropNode, FinishObject, Mortal
      <3> QED
        BY <1>4, <3>1
    <2> QED
      BY <1>5, <2>1, <2>2, <2>3 DEF RcDrop
  <1>6. CASE PollUnit
    <2>1. count' = count \/ \E o \in Object : count' = [count EXCEPT ![o] = 0]
      BY <1>6, UnitCounts
    <2> QED
      BY <1>3, <1>4, <2>1
  <1>7. CASE Resume
    <2>1. CASE DoAllocate
      BY <1>4, <2>1 DEF DoAllocate
    <2>2. CASE DoRetain
      <3> PICK v : v = Now.value
        OBVIOUS
      <3>1. CASE Saturated(v)
        BY <1>3, <2>2, <3>1 DEF DoRetain, heapVars
      <3>2. CASE ~ Saturated(v) /\ v \in Object
        <4>1. count' = [count EXCEPT ![v] = count[v] + 1] /\ count[v] # MaxCount
          BY <2>2, <3>2 DEF DoRetain, Saturated, Mortal
        <4> SUFFICES ASSUME NEW o \in Object PROVE count'[o] <= MaxCount
          BY DEF CountBound
        <4>2. CASE o = v
          <5> PICK c : c = count[v]
            OBVIOUS
          <5>1. c \in Nat /\ c <= MaxCount /\ c # MaxCount
            BY <1>1, <3>2, <4>1 DEF CountBound
          <5>2. c + 1 <= MaxCount
            BY ONLY <1>1, <5>1
          <5>3. count'[o] = c + 1
            BY <1>1, <3>2, <4>1, <4>2
          <5> QED
            BY <5>2, <5>3
        <4>3. CASE o # v
          <5>1. count'[o] = count[o]
            BY <1>1, <4>1, <4>3
          <5> QED
            BY <5>1 DEF CountBound
        <4> QED
          BY <4>2, <4>3
      <3>3. CASE ~ Saturated(v) /\ v \notin Object
        BY <1>3, <2>2, <3>3 DEF DoRetain, Mortal
      <3> QED
        BY <3>1, <3>2, <3>3
    <2>3. CASE DoService \/ DoRest \/ DoResult \/ DoBacking \/ DoTake \/ DoGrow \/ DoRelease
      BY <1>3, <2>3
         DEF DoService, DoRest, DoResult, DoBacking, DoTake, DoGrow, DoRelease, heapVars
    <2>4. CASE DoReferences \/ DoAppend \/ DoReplace \/ DoField \/ DoLocal \/ DoChunk \/ DoHold
      BY <1>3, <2>4
         DEF DoReferences, DoAppend, DoReplace, DoField, DoLocal, DoChunk, DoHold, heapVars
    <2>5. CASE DoEnter \/ DoEnterStack \/ DoDropLocals
      BY <1>3, <2>5 DEF DoEnter, DoEnterStack, DoDropLocals, heapVars
    <2> QED
      BY <1>7, <2>1, <2>2, <2>3, <2>4, <2>5 DEF Resume
  <1>8. CASE Program
    BY <1>3, <1>8, ProgramHeap
  <1>9. CASE UNCHANGED vars
    BY <1>3, <1>9 DEF vars, heapVars
  <1> QED
    BY <1>5, <1>6, <1>7, <1>8, <1>9 DEF Next, Machine
(* The machine takes a step off the call, or goes on with it.              *)
LEMMA MachineTodo ==
    ASSUME Machine
    PROVE  todo' = todo \/ (todo # <<>> /\ todo' = Tail(todo)) \/ todo' = Stop
  <1>1. CASE RcDrop \/ PollUnit
    BY <1>1 DEF RcDrop, PollUnit
  <1>2. CASE DoService \/ DoRest \/ DoAllocate \/ DoRetain \/ DoResult \/ DoBacking \/ DoTake \/ DoGrow
    BY <1>2
       DEF DoService, DoRest, DoAllocate, DoRetain, DoResult, DoBacking, DoTake, DoGrow, OnHeap, Doing
  <1>3. CASE DoRelease \/ DoReferences \/ DoAppend \/ DoReplace \/ DoField \/ DoLocal \/ DoChunk
    BY <1>3
       DEF DoRelease, DoReferences, DoAppend, DoReplace, DoField, DoLocal, DoChunk, OnHeap, Doing
  <1>4. CASE DoHold \/ DoEnter \/ DoEnterStack \/ DoDropLocals
    BY <1>4 DEF DoHold, DoEnter, DoEnterStack, DoDropLocals, Doing
  <1> QED
    BY <1>1, <1>2, <1>3, <1>4 DEF Machine, Resume

LEMMA MachinePaid ==
    ASSUME IInv, Paid, Machine
    PROVE  Paid'
  <1>1. program' = program /\ todo \in Seq(MicroStep)
    BY DEF Machine, IInv, Sound, Typed
  <1>2. Overdrawn' = Overdrawn
    BY <1>1, SameBudget
  <1>3. CASE todo' = todo
    BY <1>2, <1>3 DEF Paid
  <1>4. CASE todo # <<>> /\ todo' = Tail(todo)
    <2>1. Len(todo') = Len(todo) - 1 /\ Len(todo) \in Nat \ {0}
          /\ \A j \in 1..(Len(todo) - 1) : todo'[j] = todo[j + 1]
      BY <1>1, <1>4, TailFacts
    <2>2. ASSUME NEW j \in 1..Len(todo') PROVE todo'[j] \notin Overdrawn
      <3>1. j \in 1..(Len(todo) - 1) /\ j + 1 \in 1..Len(todo)
        BY <2>1
      <3> QED
        BY <2>1, <3>1 DEF Paid
    <2> QED
      BY <1>2, <2>2 DEF Paid
  <1>5. CASE todo' = Stop
    <2>1. Op("stop").do = "stop"
      BY NamesOfSteps
    <2>2. Op("stop") \notin Overdrawn
      BY <2>1 DEF Overdrawn
    <2>3. Len(todo') = 1 /\ todo'[1] = Op("stop")
      BY <1>5 DEF Stop
    <2>4. \A j \in 1..Len(todo') : todo'[j] \notin Overdrawn
      BY <2>2, <2>3
    <2> QED
      BY <1>2, <2>4 DEF Paid
  <1> QED
    BY <1>3, <1>4, <1>5, MachineTodo

(* A call within the budget. *)
LEMMA CallPaid ==
    ASSUME IInv, program' = program, NEW steps, todo' = steps, Without(Overdrawn, steps)
    PROVE  Paid'
  <1>1. Overdrawn' = Overdrawn
    BY SameBudget
  <1> QED
    BY <1>1 DEF Without, Paid

(* A frame on the C stack has no more locals than a poll may visit.        *)
LEMMA LocalsPaid ==
    ASSUME IInv, FramesPaid, Running, frame[Top].onStack
    PROVE  /\ Len(frame[Top].written) \in 0..Budget
           /\ Budget - Len(frame[Top].written) \in 0..Budget
  <1>1. Top \in Frame /\ In(stack, Top) /\ frame[Top].localCount \in Nat
    <2>1. /\ Top \in Frame /\ In(stack, Top) /\ frame[Top].localCount \in 0..MaxLocals
      BY TopFacts DEF IInv, Sound, Running
    <2> QED
      BY <2>1, ConstantsAssumption
  <1> PICK k, n, b : k = Len(frame[Top].written) /\ n = frame[Top].localCount /\ b = Budget
    OBVIOUS
  <1>2. k \in Nat /\ k <= n
    BY <1>1, WrittenWithin
  <1>3. n \in Nat /\ n <= b /\ b \in Nat
    BY <1>1, SetsSpared DEF FramesPaid, Spared
  <1>4. k \in 0..b /\ b - k \in 0..b
    BY ONLY <1>2, <1>3
  <1> QED
    BY <1>4

LEMMA ProgramPaid ==
    ASSUME IInv, IInv', FramesPaid, Program
    PROVE  Paid'
  <1> PICK N : N = Overdrawn
    OBVIOUS
  <1>1. program' = program
    BY DEF Program
  <1>2. Spared(N) /\ \A q \in N : q.do \notin Storing
    BY SetsSpared
  <1>3. ASSUME NEW steps, todo' = steps, Without(N, steps) PROVE Paid'
    BY <1>1, <1>3, CallPaid
  <1>4. ASSUME NEW name, NEW steps, PlainCall(N, name, steps) PROVE Paid'
    BY <1>3, <1>4 DEF PlainCall, Call
  <1>5. CASE NewValues \/ Setters \/ ListAppended \/ Others
    BY <1>2, <1>4, <1>5, NewValueCalls, SetterCalls, AppendedCalls, OtherCalls
  <1>6. CASE TextSlice
    <2>1. \E name, steps : PlainCall(N, name, steps)
      BY <1>2, <1>6, SliceCalls, ViewCalls DEF PlainCall
    <2> QED
      BY <1>4, <2>1
  <1>7. CASE Keep
    <2>1. Op("chunk") \notin N
      BY NamesOfSteps DEF Overdrawn
    <2>2. \E steps : todo' = steps /\ Without(N, steps)
      BY <1>1, <1>2, <1>7, <2>1, KeepCalls
    <2> QED
      BY <1>3, <2>2
  <1>8. CASE Step \/ Leave
    <2>1. todo' = <<Poll>> /\ Without(N, <<Poll>>)
      BY <1>2, <1>8, StepsSpared, WithoutOne DEF Step, Leave
    <2> QED
      BY <1>3, <2>1
  <1>9. CASE LeaveStack
    <2> PICK q : q = Service(Budget - Len(frame[Top].written))
      OBVIOUS
    <2>1. todo' = <<Into("dropLocals", Top, 0), q>> /\ Running /\ frame[Top].onStack
      BY <1>9 DEF LeaveStack, Idle
    <2>2. q.do = "service" /\ q.budget = Budget - Len(frame[Top].written)
      BY DEF Service
    <2>3. q.budget \in 0..Budget
      BY <2>1, <2>2, LocalsPaid
    <2>4. q \notin N
      BY <2>2, <2>3 DEF Overdrawn
    <2> QED
      BY <1>2, <1>3, <2>1, <2>4, StepsSpared, WithoutTwo
  <1>10. CASE MoveLocal
    <2>1. todo' = todo /\ Idle
      BY <1>10 DEF MoveLocal, callVars
    <2>2. Len(todo') = 0
      BY <2>1, IdleFacts
    <2> QED
      BY <2>2 DEF Paid
  <1> QED
    BY <1>5, <1>6, <1>7, <1>8, <1>9, <1>10 DEF Program, NewValues, Setters, Others

(* Nothing gives a frame on the C stack more locals. *)
LEMMA FramesPaidAlone ==
    ASSUME IInv, FramesPaid, program' = program, NEW f,
           \A g \in Frame : g # f => frame'[g] = frame[g],
           f \in Frame => (frame'[f].onStack => frame'[f].localCount <= Budget)
    PROVE  FramesPaid'
  <1>1. Budget' = Budget
    BY SameBudget
  <1>2. ASSUME NEW g \in Frame, frame'[g].onStack PROVE frame'[g].localCount <= Budget
    BY <1>2 DEF FramesPaid
  <1> QED
    BY <1>1, <1>2 DEF FramesPaid

(* Frame f is written, but for its locals' number and place.               *)
LEMMA FramesPaidSteady ==
    ASSUME IInv, FramesPaid, program' = program, NEW f, NEW r, frame' = [frame EXCEPT ![f] = r],
           f \in Frame => /\ r.onStack => frame[f].onStack
                          /\ r.localCount \in Int /\ r.localCount <= frame[f].localCount
    PROVE  FramesPaid'
  <1>1. Typed
    BY DEF IInv, Sound
  <1>2. \A g \in Frame : g # f => frame'[g] = frame[g]
    BY <1>1 DEF Typed
  <1>3. ASSUME f \in Frame, r.onStack PROVE r.localCount <= Budget
    <2>1. frame[f].localCount \in Nat
      <3>1. frame[f] \in FrameRecord
        BY <1>1, <1>3 DEF Typed
      <3> QED
        BY <3>1, ConstantsAssumption DEF FrameRecord
    <2> PICK m, n, b : m = r.localCount /\ n = frame[f].localCount /\ b = Budget
      OBVIOUS
    <2>2. m \in Int /\ m <= n /\ n \in Nat /\ n <= b /\ b \in Nat
      BY <1>3, <2>1, SetsSpared DEF FramesPaid, Spared
    <2>3. m <= b
      BY ONLY <2>2
    <2> QED
      BY <2>3
  <1>4. f \in Frame => frame'[f] = r
    BY <1>1 DEF Typed
  <1> QED
    BY <1>2, <1>3, <1>4, FramesPaidAlone
(* A frame's record changes without regard to where it is and how many     *)
(* locals it has.                                                          *)
LEMMA RecordSteady ==
    ASSUME NEW fr \in FrameRecord
    PROVE  /\ \A ls : LET r == [fr EXCEPT !.locals = ls]
                      IN  r.onStack = fr.onStack /\ r.localCount = fr.localCount
           /\ \A ts : LET r == [fr EXCEPT !.temps = ts]
                      IN  r.onStack = fr.onStack /\ r.localCount = fr.localCount
           /\ \A n : LET r == [fr EXCEPT !.tempCount = n]
                     IN  r.onStack = fr.onStack /\ r.localCount = fr.localCount
           /\ \A n : LET r == [fr EXCEPT !.localCount = n]
                     IN  r.onStack = fr.onStack /\ r.localCount = n
           /\ \A i, v : LET r == TakeLocal(fr, i, v)
                        IN  r.onStack = fr.onStack /\ r.localCount = fr.localCount
           /\ \A i : LET r == Vacate(fr, i)
                     IN  r.onStack = fr.onStack /\ r.localCount = fr.localCount
           /\ LET r == WithoutTemporaries(fr)
              IN  r.onStack = fr.onStack /\ r.localCount = fr.localCount
           /\ \A n : LET r == [WithoutTemporaries(fr) EXCEPT !.localCount = n]
                     IN  r.onStack = fr.onStack /\ r.localCount = n
           /\ fr.localCount \in Nat
  BY ConstantsAssumption DEF FrameRecord, TakeLocal, Vacate, WithoutTemporaries

LEMMA UnusedPaid == ~ UnusedFrame.onStack /\ UnusedFrame.localCount = 0
  BY DEF UnusedFrame

(* A unit visits a local of a retired frame, or is done with the frame.    *)
LEMMA FrameUnitPaid ==
    ASSUME IInv, FramesPaid, program' = program, Ready(1), FrameUnit
    PROVE  FramesPaid'
  <1> PICK f, n : f = frameQueue[1] /\ n = frame[f].localCount
    OBVIOUS
  <1>1. Typed /\ f \in Frame
    <2>1. Typed /\ frameQueue # <<>>
      BY DEF IInv, Sound, Ready
    <2> QED
      BY <2>1, ElementOfSeq DEF Typed
  <1>2. frame[f] \in FrameRecord /\ n \in Nat
    <2>1. frame[f] \in FrameRecord
      BY <1>1 DEF Typed
    <2> QED
      BY <2>1, RecordSteady
  <1>3. \E r : /\ frame' = [frame EXCEPT ![f] = r]
               /\ r.onStack => frame[f].onStack
               /\ r.localCount \in Int /\ r.localCount <= n
    <2>1. CASE frame' = [frame EXCEPT ![f].localCount = n - 1]
      <3> PICK r : r = [frame[f] EXCEPT !.localCount = n - 1]
        OBVIOUS
      <3>1. r.onStack = frame[f].onStack /\ r.localCount = n - 1
        BY <1>2, RecordSteady
      <3>2. n - 1 \in Int /\ n - 1 <= n
        BY <1>2
      <3>3. frame' = [frame EXCEPT ![f] = r]
        BY <2>1
      <3> QED
        BY <3>1, <3>2, <3>3
    <2>2. CASE RetireFrame(f) /\ CacheFits(Charge[frame[f].capacity])
      <3> PICK ls : frame' = [frame EXCEPT ![f].locals = ls]
        BY <2>2 DEF RetireFrame
      <3> PICK r : r = [frame[f] EXCEPT !.locals = ls]
        OBVIOUS
      <3>1. r.onStack = frame[f].onStack /\ r.localCount = n
        BY <1>2, RecordSteady
      <3>2. frame' = [frame EXCEPT ![f] = r]
        OBVIOUS
      <3>3. n \in Int /\ n <= n
        BY <1>2
      <3>4. (r.onStack => frame[f].onStack) /\ r.localCount \in Int /\ r.localCount <= n
        BY <3>1, <3>3
      <3> QED
        BY <3>2, <3>4
    <2>3. CASE RetireFrame(f) /\ ~ CacheFits(Charge[frame[f].capacity])
      <3>1. frame' = [frame EXCEPT ![f] = UnusedFrame]
        BY <2>3 DEF RetireFrame
      <3>2. 0 \in Int /\ 0 <= n
        BY <1>2
      <3> QED
        BY <3>1, <3>2, UnusedPaid
    <2> QED
      BY <2>1, <2>2, <2>3 DEF FrameUnit
  <1> QED
    BY <1>3, FramesPaidSteady

(* A step that writes the frame on top. *)
LEMMA TopPaid ==
    ASSUME IInv, FramesPaid, program' = program, Running, NEW r,
           frame' = [frame EXCEPT ![Top] = r],
           frame[Top] \in FrameRecord =>
              r.onStack = frame[Top].onStack /\ r.localCount = frame[Top].localCount
    PROVE  FramesPaid'
  <1>1. Top \in Frame /\ frame[Top] \in FrameRecord
    BY TopFacts DEF IInv, Sound, Running
  <1> PICK n : n = frame[Top].localCount
    OBVIOUS
  <1>2. n \in Nat
    BY <1>1, RecordSteady
  <1>3. n \in Int /\ n <= n
    BY <1>2
  <1> QED
    BY <1>1, <1>3, FramesPaidSteady

(* minyar_rc_local_take and minyar_rc_keep write the frame on top.         *)
LEMMA HeldPaid ==
    ASSUME IInv, FramesPaid, program' = program, DoLocal \/ DoChunk \/ DoHold
    PROVE  FramesPaid'
  <1>1. Running
    <2>1. PICK name \in {"local", "chunk", "hold"} : Doing(name)
      BY DEF DoLocal, DoChunk, DoHold
    <2>2. FrameReady(1) /\ todo[1].do = name
      BY <2>1, DoingFacts
    <2> QED
      BY <2>2 DEF FrameReady, Running
  <1> PICK fr : fr = frame[Top]
    OBVIOUS
  <1>2. CASE DoLocal
    <2> PICK r : r = TakeLocal(fr, Now.index, hand)
      OBVIOUS
    <2>1. frame' = [frame EXCEPT ![Top] = r]
      BY <1>2 DEF DoLocal
    <2>2. fr \in FrameRecord => r.onStack = fr.onStack /\ r.localCount = fr.localCount
      BY RecordSteady
    <2> QED
      BY <1>1, <2>1, <2>2, TopPaid
  <1>3. CASE DoChunk
    <2> PICK r : r = [fr EXCEPT !.temps = Append(fr.temps, NewChunk)]
      OBVIOUS
    <2>1. frame' = [frame EXCEPT ![Top] = r]
      BY <1>3 DEF DoChunk
    <2>2. fr \in FrameRecord => r.onStack = fr.onStack /\ r.localCount = fr.localCount
      BY RecordSteady
    <2> QED
      BY <1>1, <2>1, <2>2, TopPaid
  <1>4. CASE DoHold
    <2> PICK r : r = [fr EXCEPT !.tempCount = fr.tempCount + 1]
      OBVIOUS
    <2>1. frame' = [frame EXCEPT ![Top] = r]
      BY <1>4 DEF DoHold
    <2>2. fr \in FrameRecord => r.onStack = fr.onStack /\ r.localCount = fr.localCount
      BY RecordSteady
    <2> QED
      BY <1>1, <2>1, <2>2, TopPaid
  <1> QED
    BY <1>2, <1>3, <1>4

(* minyar_rc_enter, and a frame on the C stack that fits the budget.       *)
LEMMA EnterPaid ==
    ASSUME IInv, FramesPaid, Paid, program' = program, DoEnter \/ DoEnterStack
    PROVE  FramesPaid'
  <1>1. Typed
    BY DEF IInv, Sound
  <1> PICK n : n = Now.index
    OBVIOUS
  <1>2. \E b \in BOOLEAN : \E f : /\ frame' = [frame EXCEPT ![f] = OpenFrame(frame[f], n, b)]
                                  /\ b => DoEnterStack
    <2>1. CASE DoEnter
      <3>1. \E f : frame' = [frame EXCEPT ![f] = OpenFrame(frame[f], n, FALSE)]
        BY <2>1 DEF DoEnter
      <3> QED
        BY <3>1
    <2>2. CASE DoEnterStack
      <3>1. \E f : frame' = [frame EXCEPT ![f] = OpenFrame(frame[f], n, TRUE)]
        BY <2>2 DEF DoEnterStack
      <3> QED
        BY <2>2, <3>1
    <2> QED
      BY <2>1, <2>2
  <1> PICK b \in BOOLEAN :
         \E f : frame' = [frame EXCEPT ![f] = OpenFrame(frame[f], n, b)] /\ (b => DoEnterStack)
    BY <1>2
  <1> PICK f : frame' = [frame EXCEPT ![f] = OpenFrame(frame[f], n, b)] /\ (b => DoEnterStack)
    OBVIOUS
  <1> PICK r : r = OpenFrame(frame[f], n, b)
    OBVIOUS
  <1>3. r.onStack = b /\ r.localCount = n
    BY DEF OpenFrame
  <1>4. \A g \in Frame : g # f => frame'[g] = frame[g]
    BY <1>1 DEF Typed
  <1>5. f \in Frame => frame'[f] = r
    BY <1>1 DEF Typed
  <1>6. b => n <= Budget
    <2> SUFFICES ASSUME DoEnterStack PROVE n <= Budget
      OBVIOUS
    <2>1. Doing("enterStack")
      BY DEF DoEnterStack
    <2>2. /\ Now \in MicroStep /\ Now.do = "enterStack" /\ todo[1] = Now /\ 1 \in 1..Len(todo)
          /\ FrameReady(1)
      BY <2>1, DoingFacts
    <2>3. Now \notin Overdrawn
      BY <2>2 DEF Paid
    <2>4. ~ (n > Budget)
      BY <2>2, <2>3 DEF Overdrawn
    <2>5. n \in 0..MaxLocals
      BY <2>2 DEF FrameReady
    <2>6. n \in Nat /\ Budget \in Nat
      BY <2>5, SameBudget, ConstantsAssumption
    <2> QED
      BY <2>4, <2>6
  <1> QED
    BY <1>3, <1>4, <1>5, <1>6, FramesPaidAlone

(* The locals of a frame on the C stack are dropped one by one.            *)
LEMMA DropLocalsPaid ==
    ASSUME IInv, FramesPaid, program' = program, DoDropLocals
    PROVE  FramesPaid'
  <1> PICK f, n : f = Now.target /\ n = frame[f].localCount
    OBVIOUS
  <1>1. Typed /\ f \in Frame
    <2>1. Doing("dropLocals")
      BY DEF DoDropLocals
    <2>2. Typed /\ Now \in MicroStep /\ Now.do = "dropLocals"
      BY <2>1, DoingFacts
    <2> QED
      BY <2>2, StepTypes
  <1>2. frame[f] \in FrameRecord /\ n \in Nat
    <2>1. frame[f] \in FrameRecord
      BY <1>1 DEF Typed
    <2> QED
      BY <2>1, RecordSteady
  <1>3. CASE frame' = [frame EXCEPT ![f].localCount = n - 1]
    <2> PICK r : r = [frame[f] EXCEPT !.localCount = n - 1]
      OBVIOUS
    <2>1. r.onStack = frame[f].onStack /\ r.localCount = n - 1
      BY <1>2, RecordSteady
    <2>2. n - 1 \in Int /\ n - 1 <= n
      BY <1>2
    <2>3. frame' = [frame EXCEPT ![f] = r]
      BY <1>3
    <2> QED
      BY <2>1, <2>2, <2>3, FramesPaidSteady
  <1>4. CASE frame' = [frame EXCEPT ![f] = UnusedFrame]
    <2>1. 0 \in Int /\ 0 <= n
      BY <1>2
    <2> QED
      BY <1>4, <2>1, UnusedPaid, FramesPaidSteady
  <1> QED
    BY <1>3, <1>4 DEF DoDropLocals

LEMMA FramesPaidSame ==
    ASSUME IInv, FramesPaid, program' = program, frame' = frame
    PROVE  FramesPaid'
  BY SameBudget DEF FramesPaid

LEMMA MachineFramesPaid ==
    ASSUME IInv, FramesPaid, Paid, Machine
    PROVE  FramesPaid'
  <1>1. program' = program
    BY DEF Machine
  <1>2. CASE RcDrop
    BY <1>1, <1>2, FramesPaidSame DEF RcDrop, frameVars
  <1>3. CASE PollUnit
    <2>1. PICK q \in 0..2 : /\ Selected(q)
                            /\ CASE q = 0 -> ObjectUnit
                                 [] q = 1 -> FrameUnit
                                 [] q = 2 -> ChunkUnit
      BY <1>3 DEF PollUnit
    <2>2. CASE q = 0
      BY <1>1, <2>1, <2>2, FramesPaidSame DEF ObjectUnit, frameVars
    <2>3. CASE q = 1
      BY <1>1, <2>1, <2>3, FrameUnitPaid DEF Selected
    <2>4. CASE q = 2
      BY <1>1, <2>1, <2>4, FramesPaidSame DEF ChunkUnit, frameVars
    <2> QED
      BY <2>1, <2>2, <2>3, <2>4
  <1>4. CASE DoService \/ DoRest \/ DoAllocate \/ DoRetain \/ DoResult \/ DoBacking \/ DoTake
    BY <1>1, <1>4, FramesPaidSame
       DEF DoService, DoRest, DoAllocate, DoRetain, DoResult, DoBacking, DoTake, OnHeap, frameVars
  <1>5. CASE DoGrow \/ DoRelease \/ DoReferences \/ DoAppend \/ DoReplace \/ DoField
    BY <1>1, <1>5, FramesPaidSame
       DEF DoGrow, DoRelease, DoReferences, DoAppend, DoReplace, DoField, OnHeap, frameVars
  <1> QED
    BY <1>1, <1>2, <1>3, <1>4, <1>5, HeldPaid, EnterPaid, DropLocalsPaid DEF Machine, Resume

LEMMA ProgramFramesPaid ==
    ASSUME IInv, FramesPaid, Program
    PROVE  FramesPaid'
  <1>1. program' = program
    BY DEF Program
  <1>2. ASSUME NEW name, NEW steps, Call(name, steps) PROVE FramesPaid'
    BY <1>1, <1>2, FramesPaidSame DEF Call, frameVars
  <1>3. CASE NewRecord \/ NewScalarRecord \/ RecordSet \/ RecordSetScalar
    BY <1>2, <1>3 DEF NewRecord, NewScalarRecord, RecordSet, RecordSetScalar
  <1>4. CASE NewList \/ ListReferences \/ ListAdd \/ ListSet \/ ListAppended
    BY <1>2, <1>4 DEF NewList, ListReferences, ListAdd, ListSet, ListAppended
  <1>5. CASE NewText \/ TextSlice \/ JoinTakeLeft
    BY <1>2, <1>5 DEF NewText, TextSlice, JoinTakeLeft
  <1>6. CASE RetainResult \/ Keep \/ SetLocal \/ Enter \/ EnterStack
    BY <1>2, <1>6 DEF RetainResult, Keep, SetLocal, Enter, EnterStack
  <1> PICK fr : fr = frame[Top]
    OBVIOUS
  <1>7. CASE MoveLocal
    <2>1. PICK i \in Local : frame' = [frame EXCEPT ![Top] = Vacate(fr, i)]
      BY <1>7 DEF MoveLocal
    <2>2. Running
      BY <1>7 DEF MoveLocal, Idle
    <2> PICK r : r = Vacate(fr, i)
      OBVIOUS
    <2> QED
      BY <1>1, <2>1, <2>2, RecordSteady, TopPaid
  <1>8. CASE Step
    <2> PICK r : r = WithoutTemporaries(fr)
      OBVIOUS
    <2>1. Running /\ frame' = [frame EXCEPT ![Top] = r]
      BY <1>8 DEF Step, Idle
    <2> QED
      BY <1>1, <2>1, RecordSteady, TopPaid
  <1>9. CASE Leave \/ LeaveStack
    <2> PICK k : k = Len(fr.written)
      OBVIOUS
    <2> PICK r : r = [WithoutTemporaries(fr) EXCEPT !.localCount = k]
      OBVIOUS
    <2>1. Running /\ frame' = [frame EXCEPT ![Top] = r]
      BY <1>9 DEF Leave, LeaveStack, Detach, Idle
    <2>2. Top \in Frame /\ In(stack, Top) /\ fr \in FrameRecord
      BY <2>1, TopFacts DEF IInv, Sound, Running
    <2>3. r.onStack = fr.onStack /\ r.localCount = k
      BY <2>2, RecordSteady
    <2>4. k \in Nat /\ k <= fr.localCount
      BY <2>2, WrittenWithin
    <2>5. k \in Int
      BY <2>4
    <2> QED
      BY <1>1, <2>1, <2>3, <2>4, <2>5, FramesPaidSteady
  <1> QED
    BY <1>3, <1>4, <1>5, <1>6, <1>7, <1>8, <1>9 DEF Program
Progressing == spent \in Nat /\ work \in 0..Budget

(* A poll is given what its service point asks for, less what its release  *)
(* has already done, and each unit takes one.                              *)
LEMMA MachineProgressing ==
    ASSUME IInv, Progressing, Paid, Machine
    PROVE  Progressing'
  <1> PICK b, w, s : b = Budget /\ w = work /\ s = spent
    OBVIOUS
  <1>1. b \in Nat /\ b = Budget' /\ w \in Int /\ 0 <= w /\ w <= b /\ s \in Nat
    <2>1. program' = program
      BY DEF Machine
    <2>2. b \in Nat /\ b = Budget' /\ w \in 0..b /\ s \in Nat
      BY <2>1, SameBudget DEF Progressing
    <2> QED
      BY <2>2
  <1>2. ASSUME spent' \in {s, s + 1, 0}, work' \in {w, 0} \cup 0..b PROVE Progressing'
    BY <1>1, <1>2 DEF Progressing
  <1>3. CASE RcDrop
    <2>1. spent' = s \/ spent' = s + 1
      BY <1>3 DEF RcDrop, DropLiteral, DropShared, DropLeaf, DropView, DropNode, CountDrop
    <2>2. work' = w
      BY <1>3 DEF RcDrop
    <2> QED
      BY <1>2, <2>1, <2>2
  <1>4. CASE PollUnit
    <2>1. PICK q \in 0..2 : CASE q = 0 -> ObjectUnit [] q = 1 -> FrameUnit [] q = 2 -> ChunkUnit
      BY <1>4 DEF PollUnit
    <2>2. work' = w - 1 \/ work' = 0
      <3>1. CASE q = 0
        BY <2>1, <3>1 DEF ObjectUnit, RecentObjectUnit, OldObjectUnit, VisitUnit, RetireUnit
      <3>2. CASE q = 1
        BY <2>1, <3>2 DEF FrameUnit, VisitUnit, RetireUnit
      <3>3. CASE q = 2
        BY <2>1, <3>3 DEF ChunkUnit, VisitUnit, RetireUnit
      <3> QED
        BY <3>1, <3>2, <3>3
    <2>3. w > 0 /\ spent' = s
      BY <1>4 DEF PollUnit, Polling
    <2>4. w - 1 \in 0..b
      BY ONLY <1>1, <2>3
    <2> QED
      BY <1>2, <2>2, <2>3, <2>4
  <1>5. CASE DoService
    <2>1. Doing("service")
      BY <1>5 DEF DoService
    <2>2. Now \in MicroStep /\ Now.do = "service" /\ todo[1] = Now /\ 1 \in 1..Len(todo)
      BY <2>1, DoingFacts
    <2>3. Now \notin Overdrawn
      BY <2>2 DEF Paid
    <2>4. Now.budget \in 0..b
      BY <2>2, <2>3 DEF Overdrawn
    <2>5. work' = Now.budget \/ work' = 0
      BY <1>5 DEF DoService, StartPoll
    <2>6. spent' = s
      BY <1>5 DEF DoService
    <2> QED
      BY <1>2, <2>4, <2>5, <2>6
  <1>6. CASE DoRest
    <2>1. spent' = 0 /\ (work' = (IF s < b THEN b - s ELSE 0) \/ work' = 0)
      BY <1>6 DEF DoRest, StartPoll
    <2>2. b \in Nat /\ s \in Nat
      BY <1>1
    <2>3. s < b => b - s \in 0..b
      BY ONLY <2>2
    <2>4. 0 \in 0..b
      BY ONLY <2>2
    <2> QED
      BY <1>2, <2>1, <2>3, <2>4
  <1>7. CASE DoAllocate \/ DoRetain \/ DoResult \/ DoBacking \/ DoTake \/ DoGrow
    <2>1. spent' = s /\ work' = w
      BY <1>7 DEF DoAllocate, DoRetain, DoResult, DoBacking, DoTake, DoGrow, OnHeap
    <2> QED
      BY <1>2, <2>1
  <1>8. CASE DoRelease \/ DoReferences \/ DoAppend \/ DoReplace \/ DoField
    <2>1. spent' = s /\ work' = w
      BY <1>8 DEF DoRelease, DoReferences, DoAppend, DoReplace, DoField, OnHeap
    <2> QED
      BY <1>2, <2>1
  <1>9. CASE DoLocal \/ DoChunk \/ DoHold \/ DoEnter \/ DoEnterStack \/ DoDropLocals
    <2>1. spent' = s /\ work' = w
      BY <1>9 DEF DoLocal, DoChunk, DoHold, DoEnter, DoEnterStack, DoDropLocals
    <2> QED
      BY <1>2, <2>1
  <1> QED
    BY <1>3, <1>4, <1>5, <1>6, <1>7, <1>8, <1>9 DEF Machine, Resume

LEMMA ProgramProgressing ==
    ASSUME IInv, Progressing, Program
    PROVE  Progressing'
  <1>1. Budget' = Budget
    BY SameBudget DEF Program
  <1>2. spent' = spent /\ work' = work
    <2>1. ASSUME NEW name, NEW steps, Call(name, steps) PROVE spent' = spent /\ work' = work
      BY <2>1 DEF Call
    <2>2. CASE NewRecord \/ NewScalarRecord \/ RecordSet \/ RecordSetScalar
      BY <2>1, <2>2 DEF NewRecord, NewScalarRecord, RecordSet, RecordSetScalar
    <2>3. CASE NewList \/ ListReferences \/ ListAdd \/ ListSet \/ ListAppended
      BY <2>1, <2>3 DEF NewList, ListReferences, ListAdd, ListSet, ListAppended
    <2>4. CASE NewText \/ TextSlice \/ JoinTakeLeft
      BY <2>1, <2>4 DEF NewText, TextSlice, JoinTakeLeft
    <2>5. CASE RetainResult \/ Keep \/ SetLocal \/ Enter \/ EnterStack
      BY <2>1, <2>5 DEF RetainResult, Keep, SetLocal, Enter, EnterStack
    <2>6. CASE MoveLocal \/ Step \/ Leave \/ LeaveStack
      BY <2>6 DEF MoveLocal, Step, Leave, LeaveStack, callVars
    <2> QED
      BY <2>2, <2>3, <2>4, <2>5, <2>6 DEF Program
  <1> QED
    BY <1>1, <1>2 DEF Progressing

(* The queues take turns. *)
LEMMA TurnsTaken ==
    ASSUME IInv, Turns, [Next]_vars
    PROVE  Turns'
  <1>1. CASE PollUnit
    <2>1. PICK q \in 0..2 :
             /\ nextQueue' = (q + 1) % 3
             /\ CASE q = 0 -> ObjectUnit [] q = 1 -> FrameUnit [] q = 2 -> ChunkUnit
      BY <1>1 DEF PollUnit
    <2>2. (q + 1) % 3 \in 0..2
      <3>1. q = 0 \/ q = 1 \/ q = 2
        OBVIOUS
      <3>2. (0 + 1) % 3 = 1 /\ (1 + 1) % 3 = 2 /\ (2 + 1) % 3 = 0
        OBVIOUS
      <3> QED
        BY ONLY <3>1, <3>2
    <2>3. turn' = turn \/ turn' = 1 - turn
      <3>1. CASE q = 0
        BY <2>1, <3>1 DEF ObjectUnit
      <3>2. CASE q = 1
        BY <2>1, <3>2 DEF FrameUnit, objectQueueVars
      <3>3. CASE q = 2
        BY <2>1, <3>3 DEF ChunkUnit, objectQueueVars
      <3> QED
        BY <3>1, <3>2, <3>3
    <2>4. turn' \in {0, 1}
      BY <2>3 DEF Turns
    <2> QED
      BY <2>1, <2>2, <2>4 DEF Turns
  <1>2. CASE UNCHANGED <<turn, nextQueue>>
    BY <1>2 DEF Turns
  <1>3. CASE RcDrop \/ UNCHANGED vars
    BY <1>2, <1>3 DEF RcDrop, vars, objectQueueVars
  <1>4. CASE DoService \/ DoRest \/ DoAllocate \/ DoRetain \/ DoResult \/ DoBacking \/ DoTake \/ DoGrow
    BY <1>2, <1>4
       DEF DoService, DoRest, DoAllocate, DoRetain, DoResult, DoBacking, DoTake, DoGrow, OnHeap,
           objectQueueVars
  <1>5. CASE DoRelease \/ DoReferences \/ DoAppend \/ DoReplace \/ DoField \/ DoLocal \/ DoChunk
    BY <1>2, <1>5
       DEF DoRelease, DoReferences, DoAppend, DoReplace, DoField, DoLocal, DoChunk, OnHeap,
           objectQueueVars
  <1>6. CASE DoHold \/ DoEnter \/ DoEnterStack \/ DoDropLocals
    BY <1>2, <1>6 DEF DoHold, DoEnter, DoEnterStack, DoDropLocals, objectQueueVars
  <1>7. CASE Program
    <2>1. ASSUME NEW name, NEW steps, Call(name, steps) PROVE UNCHANGED <<turn, nextQueue>>
      BY <2>1 DEF Call, objectQueueVars
    <2>2. CASE NewRecord \/ NewScalarRecord \/ RecordSet \/ RecordSetScalar
      BY <1>2, <2>1, <2>2 DEF NewRecord, NewScalarRecord, RecordSet, RecordSetScalar
    <2>3. CASE NewList \/ ListReferences \/ ListAdd \/ ListSet \/ ListAppended
      BY <1>2, <2>1, <2>3 DEF NewList, ListReferences, ListAdd, ListSet, ListAppended
    <2>4. CASE NewText \/ TextSlice \/ JoinTakeLeft
      BY <1>2, <2>1, <2>4 DEF NewText, TextSlice, JoinTakeLeft
    <2>5. CASE RetainResult \/ Keep \/ SetLocal \/ Enter \/ EnterStack
      BY <1>2, <2>1, <2>5 DEF RetainResult, Keep, SetLocal, Enter, EnterStack
    <2>6. CASE MoveLocal \/ Step \/ Leave \/ LeaveStack
      BY <1>2, <2>6 DEF MoveLocal, Step, Leave, LeaveStack, objectQueueVars
    <2> QED
      BY <1>7, <2>2, <2>3, <2>4, <2>5, <2>6 DEF Program
  <1> QED
    BY <1>1, <1>3, <1>4, <1>5, <1>6, <1>7 DEF Next, Machine, Resume

Metered == CountBound /\ Turns /\ Progressing /\ Paid /\ FramesPaid

LEMMA NextMetered ==
    ASSUME IInv, IInv', Metered, [Next]_vars
    PROVE  Metered'
  <1>1. CountBound' /\ Turns'
    BY CountsBounded, TurnsTaken DEF Metered
  <1>2. CASE Machine
    BY <1>1, <1>2, MachineProgressing, MachinePaid, MachineFramesPaid DEF Metered
  <1>3. CASE Program
    BY <1>1, <1>3, ProgramProgressing, ProgramPaid, ProgramFramesPaid DEF Metered
  <1>4. CASE UNCHANGED vars
    <2>1. UNCHANGED <<program, spent, work, todo, frame>>
      BY <1>4 DEF vars, callVars, frameVars
    <2>2. Budget' = Budget /\ Overdrawn' = Overdrawn
      BY <2>1, SameBudget
    <2>3. Progressing' /\ Paid' /\ FramesPaid'
      BY <2>1, <2>2 DEF Metered, Progressing, Paid, FramesPaid
    <2> QED
      BY <1>1, <2>3 DEF Metered
  <1> QED
    BY <1>2, <1>3, <1>4 DEF Next

LEMMA InitMetered ==
    ASSUME Init
    PROVE  Metered
  <1>1. IInv
    BY InitSound
  <1>2. Budget \in Nat
    BY <1>1, SetsSpared DEF Spared
  <1>3. CountBound
    <2>1. \A o \in Object : count[o] = 0
      BY DEF Init
    <2> QED
      BY <2>1, ConstantsAssumption DEF CountBound
  <1>4. Turns /\ Progressing
    BY <1>2 DEF Init, Turns, Progressing
  <1>5. Paid
    <2>1. PICK n : todo = <<Poll, Into("enter", None, n)>>
      BY DEF Init, EnterSteps
    <2>2. Without(Overdrawn, todo)
      BY <1>1, <2>1, SetsSpared, StepsSpared, WithoutTwo
    <2> QED
      BY <2>2 DEF Without, Paid
  <1>6. FramesPaid
    <2>1. \A f \in Frame : frame[f] = UnusedFrame
      BY DEF Init
    <2> QED
      BY <2>1, UnusedPaid DEF FramesPaid
  <1> QED
    BY <1>3, <1>4, <1>5, <1>6 DEF Metered

LEMMA TypesKept ==
    ASSUME IInv, Accounts, CacheCounted, Metered
    PROVE  TypeOK
  <1>1. Typed /\ CountBound /\ Turns /\ Progressing
    BY DEF IInv, Sound, Metered
  <1>2. count \in [Object -> 0..MaxCount]
    <2>1. count \in [Object -> Nat] /\ MaxCount \in Nat
      BY <1>1, ConstantsAssumption DEF Typed
    <2>2. \A o \in Object : count[o] \in 0..MaxCount
      BY <1>1, <2>1 DEF CountBound
    <2> QED
      BY <2>1, <2>2
  <1>3. pending \in Nat
    BY TasksWere
  <1>4. cachedBytes \in Nat
    BY FS_CardinalityType DEF CacheCounted, CacheExact
  <1> QED
    BY <1>1, <1>2, <1>3, <1>4 DEF TypeOK, Typed, Turns, Progressing

(* Everything alive can be reached from what the program, a call or        *)
(* pending cleanup holds, so releasing by counts alone leaks nothing: a    *)
(* program may store a value only where it cannot be reached from, which   *)
(* keeps live values free of cycles across the steps of every call.  A     *)
(* List that never held a mortal value, whose elements destruction skips,  *)
(* has none, and a view leads to a Text with bytes of its own.  Counts,    *)
(* budgets and every other variable stay in their types.                   *)
THEOREM NothingIsLeaked == Spec => []NothingLeaks
  <1>1. Init => IInv /\ HeapReady /\ Metered
    BY InitSound, InitReady, InitMetered
  <1>2. IInv /\ IInv' /\ HeapReady /\ Metered /\ [Next]_vars => HeapReady' /\ Metered'
    BY NextReady, NextMetered
  <1>3. IInv /\ Accounts /\ CacheCounted /\ HeapReady /\ Metered => NothingLeaks
    BY LiveAreReachable, ShortcutsAreSafe, TypesKept DEF NothingLeaks, HeapReady
  <1> QED
    BY <1>1, <1>2, <1>3, AccountsHold, CacheHolds, PTL DEF Spec
=============================================================================
