---------------------------- MODULE EagerRcProofs ----------------------------
(***************************************************************************)
(* The default profile keeps exact counts, ends every release and          *)
(* implements the ownership contract, for any values, registers, programs  *)
(* and bounds.                                                             *)
(*                                                                         *)
(* Every step does at most one thing to the references that slots hold: it *)
(* adds one, gives one up, moves one, or exchanges two.  The first part    *)
(* says what each of these does to the number of slots that hold a value.  *)
(* The second says for each action which of them it is and that the        *)
(* shapes of values, queue and calls are kept.  The third maps each to a   *)
(* step of the contract.                                                   *)
(***************************************************************************)
EXTENDS EagerRc, FiniteSetTheorems, SequenceTheorems, TLAPS

Value == Object \cup Literal \cup {None}
Frame == [locals : Seq(Value), temps : Seq(Value)]
AllKinds == {"FREE", "TEXT", "LIST", "REFERENCES", "RECORD", "SCALAR_RECORD"}
Stores == {"local", "keep", "append", "field"}

(* The variables' types. *)
Typed ==
    /\ program \in DOMAIN Programs
    /\ kind \in [Object -> AllKinds]
    /\ count \in [Object -> Nat]
    /\ fields \in [Object -> Seq(Value)]
    /\ frames \in Seq(Frame)
    /\ reg \in [Register -> Value]
    /\ hand \in Value /\ falling \in Value
    /\ pending \in Seq(Object)
    /\ visit \in [of : Object \cup {None}, next : Nat \ {0}]

(* What slots there are: nothing is held outside them. *)
WithinSlots ==
    /\ \A o \in Object : Len(fields[o]) <= Width
    /\ Top <= Depth
    /\ \A d \in 1..Top :
          Len(frames[d].locals) <= MaxLocals /\ Len(frames[d].temps) <= MaxTemps

(* What the kinds of values hold.  A view's root is a Text of its own. *)
Shapes ==
    /\ \A o \in Object : Free(o) => count[o] = 0 /\ fields[o] = <<>>
    /\ \A o \in Object : kind[o] \in {"LIST", "SCALAR_RECORD"} => fields[o] = <<>>
    /\ \A o \in Object : kind[o] = "TEXT" => Len(fields[o]) = 1

IsRoot(v) == v \in Object => kind[v] = "TEXT" /\ fields[v][1] = None

BacksNone(o) == \A p \in Object : kind[p] = "TEXT" => fields[p][1] # o

Views == \A o \in Object : kind[o] = "TEXT" => IsRoot(fields[o][1])

Queued ==
    /\ DeadQueuedOnce
    /\ \A o \in Object : Dead(o) => ~Leaf(o)
    /\ visit.of = None => visit.next = 1

(* What a call knows between its steps. *)
Calls ==
    /\ call.op \in Stores \cup {"none", "return", "view", "step", "leave"}
    /\ call.op \notin {"return", "step", "leave"} => Settled
    /\ call.op \notin Stores => hand = None
    /\ Doing("local") => Top > 0 /\ call.index \in 1..Len(frames[Top].locals)
    /\ Doing("keep") => Top > 0 /\ Len(frames[Top].temps) < Temporaries
    /\ Doing("append") => /\ call.of \in Object /\ count[call.of] > 0
                          /\ kind[call.of] = "REFERENCES" /\ Len(fields[call.of]) < Width
    /\ Doing("field") => /\ call.of \in Object /\ count[call.of] > 0
                         /\ call.index \in 1..Len(fields[call.of])
                         /\ kind[call.of] = "TEXT" =>
                               IsRoot(hand) /\ hand # call.of /\ BacksNone(call.of)
    /\ Doing("view") => /\ call.of \in Object /\ count[call.of] > 0 /\ kind[call.of] = "TEXT"
                        /\ call.root \in Object \cup Literal
                        /\ call.root \in Object => count[call.root] > 0
                        /\ IsRoot(call.root) /\ call.root # call.of /\ BacksNone(call.of)
    /\ Doing("step") => Top > 0
    /\ Doing("leave") =>
          /\ Top > 0 /\ call.next \in Nat \ {0} /\ call = [op |-> "leave", next |-> call.next]
          /\ \A i \in 1..Len(frames[Top].locals) : i < call.next => frames[Top].locals[i] = None

Sound == Typed /\ WithinSlots /\ Shapes /\ Views /\ Queued /\ Calls
IInv == Sound /\ CountExact
-----------------------------------------------------------------------------
(* What every slot holds. *)
held == [s \in Slot |-> Held(s)]

Holders(f, o) == {s \in Slot : f[s] = o}

InFrame(d, i) == IF d <= Top THEN At(frames[d].locals, i) ELSE None
TempIn(d, i) == IF d <= Top THEN At(frames[d].temps, i) ELSE None
Unvisited(o, i) == IF Visited(o, i) THEN None ELSE At(fields[o], i)

RegSlot(r) == <<"reg", r>>
HandSlot == <<"hand">>
FallingSlot == <<"falling">>
LocalSlot(d, i) == <<"local", d, i>>
TempSlot(d, i) == <<"temp", d, i>>
FieldSlot(o, i) == <<o, i>>

(* The slots, each in its form. *)
LEMMA SlotForms ==
    /\ \A r \in Register : RegSlot(r) \in RootSlot
    /\ HandSlot \in RootSlot /\ FallingSlot \in RootSlot
    /\ \A d \in 1..MaxFrames, i \in 1..MaxLocals : LocalSlot(d, i) \in RootSlot
    /\ \A d \in 1..MaxFrames, i \in 1..MaxTemps : TempSlot(d, i) \in RootSlot
    /\ \A o \in Object, i \in Index : FieldSlot(o, i) \in Slot /\ FieldSlot(o, i) \notin RootSlot
    /\ \A s \in Slot :
          \/ \E r \in Register : s = RegSlot(r)
          \/ s = HandSlot \/ s = FallingSlot
          \/ \E d \in 1..MaxFrames, i \in 1..MaxLocals : s = LocalSlot(d, i)
          \/ \E d \in 1..MaxFrames, i \in 1..MaxTemps : s = TempSlot(d, i)
          \/ \E o \in Object, i \in Index : s = FieldSlot(o, i)
  BY ContractAssumption
     DEF Contract!OwnershipAssumption, Slot, RootSlot, RegSlot, HandSlot, FallingSlot, LocalSlot, TempSlot, FieldSlot

(* held, written out for every form of slot. *)
HeldForms ==
    /\ \A r \in Register : held[RegSlot(r)] = reg[r]
    /\ held[HandSlot] = hand /\ held[FallingSlot] = falling
    /\ \A d \in 1..MaxFrames, i \in 1..MaxLocals : held[LocalSlot(d, i)] = InFrame(d, i)
    /\ \A d \in 1..MaxFrames, i \in 1..MaxTemps : held[TempSlot(d, i)] = TempIn(d, i)
    /\ \A o \in Object, i \in Index : held[FieldSlot(o, i)] = Unvisited(o, i)
    /\ DOMAIN held = Slot

LEMMA Forms == HeldForms
  <1>1. \A s \in RootSlot : s \in Slot
    BY DEF Slot
  <1>2. \A r \in Register : held[RegSlot(r)] = reg[r]
    BY <1>1, SlotForms DEF held, Held, RegSlot
  <1>3. held[HandSlot] = hand
    BY <1>1, SlotForms DEF held, Held, HandSlot
  <1>4. held[FallingSlot] = falling
    BY <1>1, SlotForms DEF held, Held, FallingSlot
  <1>5. \A d \in 1..MaxFrames, i \in 1..MaxLocals : held[LocalSlot(d, i)] = InFrame(d, i)
    BY <1>1, SlotForms DEF held, Held, LocalSlot, InFrame
  <1>6. \A d \in 1..MaxFrames, i \in 1..MaxTemps : held[TempSlot(d, i)] = TempIn(d, i)
    BY <1>1, SlotForms DEF held, Held, TempSlot, TempIn
  <1>7. \A o \in Object, i \in Index : held[FieldSlot(o, i)] = Unvisited(o, i)
    BY <1>1, SlotForms DEF held, Held, FieldSlot, Unvisited
  <1> QED
    BY <1>2, <1>3, <1>4, <1>5, <1>6, <1>7 DEF held, HeldForms

LEMMA FormsNext == HeldForms'
  BY Forms, PTL

(* Slots are as many as registers, locals, temporaries and fields can be.  *)
LEMMA ImageIsFinite ==
    ASSUME NEW S, IsFiniteSet(S), NEW f
    PROVE  IsFiniteSet({f[x] : x \in S})
  <1> DEFINE g == [x \in S |-> f[x]]
             T == {f[x] : x \in S}
  <1>1. g \in Surjection(S, T)
    BY DEF Surjection
  <1> QED
    BY <1>1, FS_Surjection

LEMMA SlotsAreFinite == IsFiniteSet(Slot)
  <1> DEFINE regs == [r \in Register |-> RegSlot(r)]
             Locals == (1..MaxFrames) \X (1..MaxLocals)
             Temps == (1..MaxFrames) \X (1..MaxTemps)
             locals == [p \in Locals |-> LocalSlot(p[1], p[2])]
             temps == [p \in Temps |-> TempSlot(p[1], p[2])]
  <1>1. IsFiniteSet({regs[r] : r \in Register})
    BY ImageIsFinite, EagerAssumption
  <1>2. IsFiniteSet(1..MaxFrames) /\ IsFiniteSet(1..MaxLocals)
        /\ IsFiniteSet(1..MaxTemps) /\ IsFiniteSet(Index)
    BY FS_Interval, EagerAssumption DEF Index
  <1>3. IsFiniteSet({locals[p] : p \in Locals})
    <2>1. IsFiniteSet(Locals)
      BY <1>2, FS_Product
    <2> HIDE DEF Locals, locals
    <2> QED
      BY <2>1, ImageIsFinite
  <1>4. IsFiniteSet({temps[p] : p \in Temps})
    <2>1. IsFiniteSet(Temps)
      BY <1>2, FS_Product
    <2> HIDE DEF Temps, temps
    <2> QED
      BY <2>1, ImageIsFinite
  <1>5. IsFiniteSet(Object \X Index)
    BY <1>2, FS_Product, EagerAssumption
  <1>6. IsFiniteSet({HandSlot, FallingSlot})
    <2>1. {HandSlot, FallingSlot} = {HandSlot} \cup {FallingSlot}
      OBVIOUS
    <2>2. IsFiniteSet({HandSlot})
      BY FS_Singleton
    <2> HIDE DEF regs, locals, temps
    <2>3. IsFiniteSet({HandSlot} \cup {FallingSlot})
      BY <2>2, FS_AddElement
    <2> QED
      BY <2>1, <2>3
  <1>7. RootSlot = {regs[r] : r \in Register} \cup {HandSlot, FallingSlot}
                   \cup {locals[p] : p \in Locals} \cup {temps[p] : p \in Temps}
    <2>1. {regs[r] : r \in Register} = {<<"reg", r>> : r \in Register}
      BY DEF RegSlot
    <2>2. {locals[p] : p \in Locals}
            = {<<"local", d, i>> : d \in 1..MaxFrames, i \in 1..MaxLocals}
      <3>1. \A d \in 1..MaxFrames, i \in 1..MaxLocals :
               <<d, i>> \in Locals /\ locals[<<d, i>>] = <<"local", d, i>>
        BY DEF LocalSlot
      <3>2. \A p \in Locals : locals[p] = <<"local", p[1], p[2]>>
                                /\ p[1] \in 1..MaxFrames /\ p[2] \in 1..MaxLocals
        BY DEF LocalSlot
      <3> HIDE DEF locals, Locals
      <3>3. \A p \in Locals : locals[p] \in {<<"local", d, i>> : d \in 1..MaxFrames, i \in 1..MaxLocals}
        BY <3>2
      <3>4. \A d \in 1..MaxFrames, i \in 1..MaxLocals :
               <<"local", d, i>> \in {locals[p] : p \in Locals}
        BY <3>1
      <3> QED
        BY <3>3, <3>4
    <2>3. {temps[p] : p \in Temps}
            = {<<"temp", d, i>> : d \in 1..MaxFrames, i \in 1..MaxTemps}
      <3>1. \A d \in 1..MaxFrames, i \in 1..MaxTemps :
               <<d, i>> \in Temps /\ temps[<<d, i>>] = <<"temp", d, i>>
        BY DEF TempSlot
      <3>2. \A p \in Temps : temps[p] = <<"temp", p[1], p[2]>>
                               /\ p[1] \in 1..MaxFrames /\ p[2] \in 1..MaxTemps
        BY DEF TempSlot
      <3> HIDE DEF temps, Temps
      <3>3. \A p \in Temps : temps[p] \in {<<"temp", d, i>> : d \in 1..MaxFrames, i \in 1..MaxTemps}
        BY <3>2
      <3>4. \A d \in 1..MaxFrames, i \in 1..MaxTemps :
               <<"temp", d, i>> \in {temps[p] : p \in Temps}
        BY <3>1
      <3> QED
        BY <3>3, <3>4
    <2> HIDE DEF regs, Locals, Temps, locals, temps
    <2> QED
      BY <2>1, <2>2, <2>3 DEF RootSlot, HandSlot, FallingSlot
  <1>8. IsFiniteSet(RootSlot)
    <2> HIDE DEF regs, Locals, Temps, locals, temps
    <2> QED
      BY <1>1, <1>3, <1>4, <1>6, <1>7, FS_Union
  <1> QED
    BY <1>5, <1>8, FS_Union DEF Slot

LEMMA HoldersCounted ==
    ASSUME NEW f, NEW o
    PROVE  IsFiniteSet(Holders(f, o)) /\ Cardinality(Holders(f, o)) \in Nat
  BY SlotsAreFinite, FS_Subset, FS_CardinalityType DEF Holders

(* One slot changes what it holds: the old value loses a holder and the    *)
(* new one gains one.                                                      *)
LEMMA OneChanged ==
    ASSUME NEW f, NEW g, NEW s \in Slot, \A t \in Slot \ {s} : g[t] = f[t], NEW o
    PROVE  Cardinality(Holders(g, o)) =
              Cardinality(Holders(f, o)) - (IF f[s] = o THEN 1 ELSE 0) + (IF g[s] = o THEN 1 ELSE 0)
  <1> DEFINE A == Holders(f, o)
             B == Holders(g, o)
  <1>1. IsFiniteSet(A) /\ Cardinality(A) \in Nat
    BY HoldersCounted
  <1>2. A \ {s} = B \ {s} /\ (s \in A <=> f[s] = o) /\ (s \in B <=> g[s] = o)
    BY DEF Holders
  <1>3. IsFiniteSet(A \ {s})
        /\ Cardinality(A \ {s}) = Cardinality(A) - (IF f[s] = o THEN 1 ELSE 0)
    BY <1>1, <1>2, FS_RemoveElement
  <1> HIDE DEF A, B
  <1>4. Cardinality(A \ {s}) \in Nat
    BY <1>3, FS_CardinalityType
  <1>5. Cardinality(B) = Cardinality(A \ {s}) + (IF g[s] = o THEN 1 ELSE 0)
    <2>1. CASE g[s] = o
      <3>1. B = (A \ {s}) \cup {s}
        BY <1>2, <2>1
      <3>2. Cardinality((A \ {s}) \cup {s}) = Cardinality(A \ {s}) + 1
        BY <1>3, FS_AddElement
      <3> QED
        BY <2>1, <3>1, <3>2
    <2>2. CASE g[s] # o
      <3>1. B = A \ {s}
        BY <1>2, <2>2
      <3> QED
        BY <1>4, <2>2, <3>1
    <2> QED
      BY <2>1, <2>2
  <1>6. Cardinality(B) = Cardinality(A) - (IF f[s] = o THEN 1 ELSE 0) + (IF g[s] = o THEN 1 ELSE 0)
    BY <1>1, <1>3, <1>5
  <1> QED
    BY <1>6 DEF A, B

(* A reference that moves has one holder before and after. *)
LEMMA MoveKeepsCounts ==
    ASSUME NEW f, NEW g, NEW s \in Slot, NEW t \in Slot, s # t, f[s] = None,
           g[s] = f[t], g[t] = None, \A r \in Slot \ {s, t} : g[r] = f[r],
           NEW o \in Object
    PROVE  Cardinality(Holders(g, o)) = Cardinality(Holders(f, o))
  <1> DEFINE h == [r \in Slot |-> IF r = s THEN f[t] ELSE f[r]]
  <1>1. /\ h[s] = f[t] /\ h[t] = f[t] /\ \A r \in Slot \ {s} : h[r] = f[r]
        /\ \A r \in Slot \ {t} : g[r] = h[r]
    OBVIOUS
  <1> HIDE DEF h
  <1>2. Cardinality(Holders(h, o)) =
              Cardinality(Holders(f, o)) - (IF f[s] = o THEN 1 ELSE 0) + (IF h[s] = o THEN 1 ELSE 0)
    <2>1. \A r \in Slot \ {s} : h[r] = f[r]
      BY <1>1
    <2> QED
      BY ONLY <2>1, s \in Slot, OneChanged
  <1>3. Cardinality(Holders(g, o)) =
              Cardinality(Holders(h, o)) - (IF h[t] = o THEN 1 ELSE 0) + (IF g[t] = o THEN 1 ELSE 0)
    <2>1. \A r \in Slot \ {t} : g[r] = h[r]
      BY <1>1
    <2> QED
      BY ONLY <2>1, t \in Slot, OneChanged
  <1>4. f[s] # o /\ g[t] # o
    BY EagerAssumption
  <1>5. Cardinality(Holders(f, o)) \in Nat
    BY HoldersCounted
  <1> QED
    BY <1>1, <1>2, <1>3, <1>4, <1>5

(* So have two that are exchanged. *)
LEMMA ExchangeKeepsCounts ==
    ASSUME NEW f, NEW g, NEW s \in Slot, NEW t \in Slot, NEW u \in Slot,
           s # t, s # u, t # u, f[u] = None, g[s] = f[t], g[t] = None, g[u] = f[s],
           \A r \in Slot \ {s, t, u} : g[r] = f[r], NEW o \in Object
    PROVE  Cardinality(Holders(g, o)) = Cardinality(Holders(f, o))
  <1> DEFINE h == [r \in Slot |-> IF r = u THEN f[s] ELSE IF r = s THEN None ELSE f[r]]
  <1>1. /\ h[u] = f[s] /\ h[s] = None /\ h[t] = f[t]
        /\ \A r \in Slot \ {u, s} : h[r] = f[r]
        /\ \A r \in Slot \ {s, t} : g[r] = h[r]
    OBVIOUS
  <1> HIDE DEF h
  <1>2. Cardinality(Holders(h, o)) = Cardinality(Holders(f, o))
    BY SMTT(60), <1>1, MoveKeepsCounts
  <1>3. Cardinality(Holders(g, o)) = Cardinality(Holders(h, o))
    BY <1>1, MoveKeepsCounts
  <1> QED
    BY <1>2, <1>3
-----------------------------------------------------------------------------
(* Slots of different forms differ. *)
SlotsDiffer ==
    /\ HandSlot # FallingSlot
    /\ \A r \in Register : RegSlot(r) # HandSlot /\ RegSlot(r) # FallingSlot
    /\ \A r, q \in Register : RegSlot(r) = RegSlot(q) => r = q
    /\ \A d, i : /\ LocalSlot(d, i) # HandSlot /\ LocalSlot(d, i) # FallingSlot
                 /\ TempSlot(d, i) # HandSlot /\ TempSlot(d, i) # FallingSlot
                 /\ \A r : LocalSlot(d, i) # RegSlot(r) /\ TempSlot(d, i) # RegSlot(r)
                 /\ \A e, j : /\ LocalSlot(d, i) # TempSlot(e, j)
                              /\ LocalSlot(d, i) = LocalSlot(e, j) => d = e /\ i = j
                              /\ TempSlot(d, i) = TempSlot(e, j) => d = e /\ i = j
    /\ \A o, p, i, j : FieldSlot(o, i) = FieldSlot(p, j) => o = p /\ i = j

LEMMA Differ == SlotsDiffer
  BY DEF SlotsDiffer, HandSlot, FallingSlot, RegSlot, LocalSlot, TempSlot, FieldSlot

(* A step changes what the slots in E hold, and no other slot. *)
LEMMA OthersKept ==
    ASSUME NEW E,
           \A r \in Register : RegSlot(r) \notin E => reg'[r] = reg[r],
           HandSlot \notin E => hand' = hand,
           FallingSlot \notin E => falling' = falling,
           \A d \in 1..MaxFrames, i \in 1..MaxLocals :
              LocalSlot(d, i) \notin E => InFrame(d, i)' = InFrame(d, i),
           \A d \in 1..MaxFrames, i \in 1..MaxTemps :
              TempSlot(d, i) \notin E => TempIn(d, i)' = TempIn(d, i),
           \A o \in Object, i \in Index :
              FieldSlot(o, i) \notin E => Unvisited(o, i)' = Unvisited(o, i)
    PROVE  \A s \in Slot \ E : held'[s] = held[s]
  BY Forms, FormsNext, SlotForms DEF HeldForms

(* Sequences without their last element, with one more, with one replaced. *)
LEMMA FrontFacts ==
    ASSUME NEW S, NEW s \in Seq(S), s # <<>>
    PROVE  /\ Front(s) \in Seq(S) /\ Len(Front(s)) = Len(s) - 1
           /\ \A i \in 1..(Len(s) - 1) : Front(s)[i] = s[i]
           /\ Len(s) \in Nat \ {0} /\ Last(s) = s[Len(s)] /\ Last(s) \in S
  <1>1. Len(s) \in Nat \ {0}
    BY EmptySeq
  <1>2. \A i \in 1..(Len(s) - 1) : s[i] \in S
    BY <1>1
  <1>3. Front(s) \in Seq(S) /\ Len(Front(s)) = Len(s) - 1
        /\ \A i \in 1..(Len(s) - 1) : Front(s)[i] = s[i]
    <2> DEFINE n == Len(s) - 1
    <2>1. n \in Int /\ \A i \in 1..n : s[i] \in S
      BY <1>1, <1>2
    <2> HIDE DEF n
    <2>2. /\ SubSeq(s, 1, n) \in Seq(S)
          /\ Len(SubSeq(s, 1, n)) = IF 1 <= n THEN n - 1 + 1 ELSE 0
          /\ \A i \in 1..(n - 1 + 1) : SubSeq(s, 1, n)[i] = s[1 + i - 1]
      BY <2>1, SubSeqProperties
    <2>3. n = Len(s) - 1 /\ n \in Nat /\ Front(s) = SubSeq(s, 1, n)
      BY <1>1 DEF Front, n
    <2>4. Len(SubSeq(s, 1, n)) = n
      BY <2>2, <2>3
    <2>5. \A i \in 1..n : SubSeq(s, 1, n)[i] = s[i]
      BY <2>2, <2>3
    <2> QED
      BY <2>2, <2>3, <2>4, <2>5
  <1> QED
    BY <1>1, <1>3 DEF Last

LEMMA AppendFacts ==
    ASSUME NEW S, NEW s \in Seq(S), NEW v \in S
    PROVE  /\ Append(s, v) \in Seq(S) /\ Len(Append(s, v)) = Len(s) + 1
           /\ \A i \in 1..Len(s) : Append(s, v)[i] = s[i]
           /\ Append(s, v)[Len(s) + 1] = v
  OBVIOUS

LEMMA ReplaceFacts ==
    ASSUME NEW S, NEW s \in Seq(S), NEW k \in 1..Len(s), NEW v \in S
    PROVE  /\ [s EXCEPT ![k] = v] \in Seq(S) /\ Len([s EXCEPT ![k] = v]) = Len(s)
           /\ \A i \in 1..Len(s) : [s EXCEPT ![k] = v][i] = IF i = k THEN v ELSE s[i]
  OBVIOUS

LEMMA SequenceAt ==
    ASSUME NEW S, NEW s \in Seq(S), NEW i
    PROVE  At(s, i) = IF i \in 1..Len(s) THEN s[i] ELSE None
  BY DEF At

(* The variables, one by one. *)
LEMMA VisitFacts ==
    ASSUME Sound
    PROVE  /\ visit = NoVisit <=> visit.of = None
           /\ visit = NoVisit => \A o \in Object : \A i : ~Visited(o, i)
           /\ visit # NoVisit => visit.of \in Object
  <1>1. visit = [of |-> visit.of, next |-> visit.next]
    BY DEF Sound, Typed
  <1>2. visit.of \in Object \cup {None} /\ (visit.of = None => visit.next = 1)
    BY DEF Sound, Typed, Queued
  <1> QED
    BY <1>1, <1>2, EagerAssumption DEF NoVisit, Visited

LEMMA QueueFacts ==
    ASSUME Sound
    PROVE  /\ \A i \in 1..Len(pending) : pending[i] \in Object
           /\ \A o \in Object :
                 Dead(o) <=> visit.of = o \/ \E i \in 1..Len(pending) : pending[i] = o
           /\ \A i, j \in 1..Len(pending) : pending[i] = pending[j] => i = j
           /\ \A i \in 1..Len(pending) : pending[i] # visit.of
           /\ Len(pending) \in Nat /\ visit.next \in Nat \ {0}
           /\ \A o \in Object : count[o] > 0 => ~Dead(o) /\ ~Free(o) /\ visit.of # o
           /\ \A o \in Object : Free(o) => visit.of # o
  <1>1. pending \in Seq(Object) /\ DOMAIN pending = 1..Len(pending) /\ Len(pending) \in Nat
    BY DEF Sound, Typed
  <1>2. \A i \in 1..Len(pending) : pending[i] \in Object
    BY <1>1
  <1>3. ToSet(pending) = {pending[i] : i \in 1..Len(pending)}
    BY <1>1 DEF ToSet
  <1>4. \A o \in Object :
           Dead(o) <=> visit.of = o \/ \E i \in 1..Len(pending) : pending[i] = o
    BY <1>3, EagerAssumption DEF Sound, Queued, DeadQueuedOnce
  <1>5. \A i, j \in 1..Len(pending) : pending[i] = pending[j] => i = j
    BY <1>1 DEF Sound, Queued, DeadQueuedOnce, IsInjective
  <1>6. \A i \in 1..Len(pending) : pending[i] # visit.of
    BY <1>3 DEF Sound, Queued, DeadQueuedOnce
  <1>7. \A o \in Object : count[o] > 0 => ~Dead(o) /\ ~Free(o)
    BY DEF Dead, Sound, Shapes
  <1>8. \A o \in Object : Free(o) => ~Dead(o)
    BY DEF Dead
  <1> QED
    BY <1>1, <1>2, <1>4, <1>5, <1>6, <1>7, <1>8 DEF Sound, Typed

LEMMA FrameFacts ==
    ASSUME Sound
    PROVE  /\ Top \in Nat /\ Depth \in Nat /\ Top <= Depth /\ Depth <= MaxFrames
           /\ Temporaries \in Nat /\ Temporaries <= MaxTemps
           /\ MaxFrames \in Nat /\ MaxLocals \in Nat /\ MaxTemps \in Nat /\ Width \in Nat \ {0}
           /\ \A d \in 1..Top :
                 /\ d \in 1..MaxFrames /\ frames[d] \in Frame
                 /\ frames[d].locals \in Seq(Value) /\ frames[d].temps \in Seq(Value)
                 /\ Len(frames[d].locals) <= MaxLocals /\ Len(frames[d].temps) <= MaxTemps
                 /\ Len(frames[d].locals) \in Nat /\ Len(frames[d].temps) \in Nat
  <1>1. Depth \in 0..MaxFrames /\ Temporaries \in 0..MaxTemps
    BY EagerAssumption DEF Sound, Typed, Depth, Temporaries
  <1>2. MaxFrames \in Nat /\ MaxLocals \in Nat /\ MaxTemps \in Nat /\ Width \in Nat \ {0}
    BY EagerAssumption
  <1>3. Top \in Nat /\ Top <= Depth
    BY DEF Sound, Typed, WithinSlots, Top
  <1>4. \A d \in 1..Top : frames[d] \in Frame
    BY <1>3 DEF Sound, Typed, Top
  <1>5. ASSUME NEW d \in 1..Top
        PROVE  /\ frames[d].locals \in Seq(Value) /\ frames[d].temps \in Seq(Value)
               /\ Len(frames[d].locals) <= MaxLocals /\ Len(frames[d].temps) <= MaxTemps
               /\ Len(frames[d].locals) \in Nat /\ Len(frames[d].temps) \in Nat
    BY <1>4 DEF Frame, Sound, WithinSlots
  <1> QED
    BY <1>1, <1>2, <1>3, <1>4, <1>5

LEMMA FieldFacts ==
    ASSUME Sound, NEW o \in Object
    PROVE  /\ fields[o] \in Seq(Value) /\ Len(fields[o]) \in Nat /\ Len(fields[o]) <= Width
           /\ DOMAIN fields[o] = 1..Len(fields[o])
           /\ \A i \in 1..Len(fields[o]) : i \in Index /\ fields[o][i] \in Value
  <1>1. fields[o] \in Seq(Value) /\ Len(fields[o]) <= Width /\ Width \in Nat
    BY EagerAssumption DEF Sound, Typed, WithinSlots
  <1> QED
    BY <1>1 DEF Index

LEMMA LocalReplaced ==
    ASSUME Sound, NEW d \in 1..Top, NEW k \in 1..Len(frames[d].locals), NEW v \in Value
    PROVE  LET g == [frames EXCEPT ![d].locals[k] = v]
           IN  /\ g \in Seq(Frame) /\ Len(g) = Top
               /\ \A e \in 1..Top : e # d => g[e] = frames[e]
               /\ g[d].temps = frames[d].temps
               /\ Len(g[d].locals) = Len(frames[d].locals)
               /\ \A i \in 1..Len(frames[d].locals) :
                     g[d].locals[i] = IF i = k THEN v ELSE frames[d].locals[i]
  <1> DEFINE l == [frames[d].locals EXCEPT ![k] = v]
             f == [frames[d] EXCEPT !.locals = l]
             g == [frames EXCEPT ![d] = f]
  <1>1. l \in Seq(Value) /\ Len(l) = Len(frames[d].locals)
        /\ \A i \in 1..Len(frames[d].locals) : l[i] = IF i = k THEN v ELSE frames[d].locals[i]
    BY FrameFacts, ReplaceFacts
  <1>2. f \in Frame /\ f.locals = l /\ f.temps = frames[d].temps
    <2> HIDE DEF l
    <2> QED
      BY <1>1, FrameFacts DEF Frame
  <1>3. g \in Seq(Frame) /\ Len(g) = Top /\ g[d] = f /\ \A e \in 1..Top : e # d => g[e] = frames[e]
    <2> HIDE DEF f
    <2> QED
      BY <1>2, ReplaceFacts DEF Sound, Typed, Top
  <1> QED
    BY <1>1, <1>2, <1>3

LEMMA TempsReplaced ==
    ASSUME Sound, NEW d \in 1..Top, NEW t \in Seq(Value)
    PROVE  LET g == [frames EXCEPT ![d].temps = t]
           IN  /\ g \in Seq(Frame) /\ Len(g) = Top
               /\ \A e \in 1..Top : e # d => g[e] = frames[e]
               /\ g[d].temps = t /\ g[d].locals = frames[d].locals
  <1> DEFINE f == [frames[d] EXCEPT !.temps = t]
             g == [frames EXCEPT ![d] = f]
  <1>1. f \in Frame /\ f.temps = t /\ f.locals = frames[d].locals
    BY FrameFacts DEF Frame
  <1>2. g \in Seq(Frame) /\ Len(g) = Top /\ g[d] = f /\ \A e \in 1..Top : e # d => g[e] = frames[e]
    <2> HIDE DEF f
    <2> QED
      BY <1>1, ReplaceFacts DEF Sound, Typed, Top
  <1> QED
    BY <1>1, <1>2

(* What changes of the slots when one of the stores does. *)
LEMMA LocalForms ==
    ASSUME Sound, NEW d \in 1..Top, NEW k \in 1..Len(frames[d].locals), NEW v \in Value,
           frames' = [frames EXCEPT ![d].locals[k] = v]
    PROVE  /\ LocalSlot(d, k) \in RootSlot /\ InFrame(d, k) = frames[d].locals[k]
           /\ InFrame(d, k)' = v
           /\ \A e \in 1..MaxFrames, i \in 1..MaxLocals :
                 LocalSlot(e, i) # LocalSlot(d, k) => InFrame(e, i)' = InFrame(e, i)
           /\ \A e \in 1..MaxFrames, i \in 1..MaxTemps : TempIn(e, i)' = TempIn(e, i)
  <1>1. d \in 1..MaxFrames /\ k \in 1..MaxLocals
    BY FrameFacts
  <1>2. /\ frames' \in Seq(Frame) /\ Len(frames') = Top
        /\ \A e \in 1..Top : e # d => frames'[e] = frames[e]
        /\ frames'[d].temps = frames[d].temps
        /\ Len(frames'[d].locals) = Len(frames[d].locals)
        /\ \A i \in 1..Len(frames[d].locals) :
              frames'[d].locals[i] = IF i = k THEN v ELSE frames[d].locals[i]
    BY SMTT(60), LocalReplaced
  <1>3. ASSUME NEW e \in 1..MaxFrames, NEW i \in 1..MaxLocals, e # d \/ i # k
        PROVE  InFrame(e, i)' = InFrame(e, i)
    <2>1. CASE e \in 1..Top
      <3>1. frames'[e].locals \in Seq(Value) /\ frames[e].locals \in Seq(Value)
        BY <1>2, <2>1, FrameFacts DEF Frame
      <3>2. At(frames'[e].locals, i) = At(frames[e].locals, i)
        <4>1. CASE e = d
          <5>1. Len(frames'[e].locals) = Len(frames[e].locals)
                /\ \A j \in 1..Len(frames[e].locals) :
                      j # k => frames'[e].locals[j] = frames[e].locals[j]
            BY <1>2, <4>1
          <5> QED
            BY SMTT(60), <3>1, <4>1, <5>1, <1>3, SequenceAt
        <4>2. CASE e # d
          BY <1>2, <2>1, <4>2
        <4> QED
          BY <4>1, <4>2
      <3> QED
        BY <2>1, <3>2, <1>2 DEF InFrame, Top
    <2>2. CASE e \notin 1..Top
      BY <2>2, <1>2, FrameFacts DEF InFrame, Top
    <2> QED
      BY <2>1, <2>2
  <1>4. \A e \in 1..MaxFrames, i \in 1..MaxTemps : TempIn(e, i)' = TempIn(e, i)
    BY <1>2, FrameFacts DEF TempIn, Top
  <1>5. InFrame(d, k) = frames[d].locals[k]
    BY <1>1, SequenceAt, FrameFacts DEF InFrame
  <1>6. InFrame(d, k)' = v
    <2>1. frames'[d].locals \in Seq(Value) /\ k \in 1..Len(frames'[d].locals) /\ frames'[d].locals[k] = v
      BY <1>2, FrameFacts DEF Frame
    <2>2. At(frames'[d].locals, k) = v
      BY <2>1, SequenceAt
    <2> QED
      BY <2>2, <1>2 DEF InFrame, Top
  <1> QED
    BY <1>1, <1>3, <1>4, <1>5, <1>6, SlotForms

LEMMA TempForms ==
    ASSUME Sound, NEW d \in 1..Top, NEW t \in Seq(Value),
           frames' = [frames EXCEPT ![d].temps = t]
    PROVE  /\ d \in 1..MaxFrames
           /\ \A e \in 1..MaxFrames, i \in 1..MaxLocals : InFrame(e, i)' = InFrame(e, i)
           /\ \A e \in 1..MaxFrames, i \in 1..MaxTemps :
                 TempIn(e, i)' = IF e = d THEN At(t, i) ELSE TempIn(e, i)
  <1>1. Len(frames') = Len(frames)
    BY TempsReplaced DEF Top
  <1> QED
    BY <1>1, TempsReplaced, FrameFacts DEF InFrame, TempIn, Top

LEMMA FieldForms ==
    ASSUME NEW o \in Object, visit' = visit,
           \A p \in Object \ {o} : fields'[p] = fields[p]
    PROVE  /\ \A p \in Object \ {o}, i \in Index : Unvisited(p, i)' = Unvisited(p, i)
           /\ \A i \in Index :
                 Unvisited(o, i)' = IF Visited(o, i) THEN None ELSE At(fields'[o], i)
  BY DEF Unvisited, Visited

LEMMA FramesUnchanged ==
    ASSUME frames' = frames
    PROVE  /\ \A d, i : InFrame(d, i)' = InFrame(d, i)
           /\ \A d, i : TempIn(d, i)' = TempIn(d, i)
  BY DEF InFrame, TempIn, Top

LEMMA FieldsUnchanged ==
    ASSUME fields' = fields, visit' = visit
    PROVE  \A o, i : Unvisited(o, i)' = Unvisited(o, i)
  BY DEF Unvisited, Visited

-----------------------------------------------------------------------------
(* The effect of each action on what slots hold. *)
LeafDies == Counted(falling) /\ LastOwner(falling) /\ Leaf(falling)

LEMMA RcDropHeld ==
    ASSUME Sound, RcDrop
    PROVE  /\ falling \in Object \cup Literal
           /\ ~LeafDies => /\ held'[FallingSlot] = None
                           /\ \A s \in Slot \ {FallingSlot} : held'[s] = held[s]
           /\ LeafDies => /\ held'[FallingSlot] = held[FieldSlot(falling, 1)]
                          /\ held'[FieldSlot(falling, 1)] = None
                          /\ \A s \in Slot \ {FallingSlot, FieldSlot(falling, 1)} :
                                held'[s] = held[s]
  <1>1. falling \in Object \cup Literal
    BY DEF RcDrop, Sound, Typed, Value
  <1>2. UNCHANGED <<reg, hand, frames, visit>>
    BY DEF RcDrop
  <1>3. ASSUME ~LeafDies
        PROVE  /\ held'[FallingSlot] = None
               /\ \A s \in Slot \ {FallingSlot} : held'[s] = held[s]
    <2>1. falling' = None /\ fields' = fields
      BY <1>3 DEF RcDrop, LeafDies, heapVars
    <2>2. \A s \in Slot \ {FallingSlot} : held'[s] = held[s]
      BY <1>2, <2>1, OthersKept, FramesUnchanged, FieldsUnchanged
    <2> QED
      BY <2>1, <2>2, FormsNext DEF HeldForms
  <1>4. ASSUME LeafDies
        PROVE  /\ held'[FallingSlot] = held[FieldSlot(falling, 1)]
               /\ held'[FieldSlot(falling, 1)] = None
               /\ \A s \in Slot \ {FallingSlot, FieldSlot(falling, 1)} : held'[s] = held[s]
    <2>1. falling \in Object /\ 1 \in Index /\ count[falling] > 0
      BY <1>4, EagerAssumption DEF LeafDies, Counted, Mortal, Index
    <2>2. fields' = [fields EXCEPT ![falling] = <<>>] /\ falling' = Backing(falling)
      BY <1>4 DEF RcDrop, LeafDies
    <2>3. \A i \in Index : ~Visited(falling, i)
      BY <2>1, QueueFacts DEF Visited
    <2>4. \A p \in Object, i \in Index :
             Unvisited(p, i)' = IF p # falling THEN Unvisited(p, i) ELSE None
      <3> SUFFICES ASSUME NEW o \in Object, o = falling, NEW p \in Object, NEW i \in Index
                   PROVE  Unvisited(p, i)' = IF p # o THEN Unvisited(p, i) ELSE None
        BY <2>1
      <3>1. At(<<>>, i) = None
        BY DEF At
      <3>2. visit' = visit /\ fields' = [fields EXCEPT ![o] = <<>>]
        BY <1>2, <2>2
      <3>3. fields'[o] = <<>> /\ (p # o => fields'[p] = fields[p])
        BY <3>2 DEF Sound, Typed
      <3> QED
        BY <3>1, <3>2, <3>3 DEF Unvisited, Visited
    <2>5. Len(fields[falling]) = IF kind[falling] = "TEXT" THEN 1 ELSE 0
      <3>1. CASE kind[falling] = "TEXT"
        BY <2>1, <3>1 DEF Sound, Shapes
      <3>2. CASE kind[falling] # "TEXT"
        <4>1. kind[falling] \in {"LIST", "SCALAR_RECORD"}
          BY <1>4, <3>2 DEF LeafDies, Leaf
        <4>2. fields[falling] = <<>>
          BY <2>1, <4>1 DEF Sound, Shapes
        <4> QED
          BY <4>2, <3>2
      <3> QED
        BY <3>1, <3>2
    <2>6. \A i \in Index : i # 1 => Unvisited(falling, i) = None
      BY <2>1, <2>3, <2>5, FieldFacts DEF Unvisited, At, Index
    <2>7. Backing(falling) = Unvisited(falling, 1)
      BY <2>1, <2>3, <2>5, FieldFacts DEF Unvisited, Backing, At, Index
    <2>8. \A p \in Object, i \in Index :
             FieldSlot(p, i) \notin {FallingSlot, FieldSlot(falling, 1)}
                => Unvisited(p, i)' = Unvisited(p, i)
      BY <2>4, <2>6
    <2>9. \A s \in Slot \ {FallingSlot, FieldSlot(falling, 1)} : held'[s] = held[s]
      BY <1>2, <2>8, OthersKept, FramesUnchanged
    <2>10. held'[FallingSlot] = held[FieldSlot(falling, 1)]
      BY <2>1, <2>2, <2>7, Forms, FormsNext DEF HeldForms
    <2>11. held'[FieldSlot(falling, 1)] = None
      BY <2>1, <2>4, FormsNext DEF HeldForms
    <2> QED
      BY <2>9, <2>10, <2>11
  <1> QED
    BY <1>1, <1>3, <1>4

LEMMA VisitFieldHeld ==
    ASSUME Sound, VisitField
    PROVE  LET f == FieldSlot(visit.of, visit.next)
           IN  /\ f \in Slot /\ f \notin RootSlot
               /\ held'[FallingSlot] = held[f] /\ held'[f] = None
               /\ \A s \in Slot \ {FallingSlot, f} : held'[s] = held[s]
  <1> DEFINE f == FieldSlot(visit.of, visit.next)
             E == {FallingSlot, f}
  <1>1. visit.of \in Object /\ visit.next \in Index /\ ~Visited(visit.of, visit.next)
        /\ visit.next \in DOMAIN fields[visit.of]
    <2>1. visit.of \in Object /\ visit.next \in Nat \ {0} /\ visit.next <= Len(fields[visit.of])
      BY VisitFacts DEF VisitField, Sound, Typed
    <2> QED
      BY <2>1, FieldFacts DEF Visited
  <1>2. \A o \in Object, i \in Index :
           Visited(o, i)' <=> Visited(o, i) \/ (o = visit.of /\ i = visit.next)
    BY <1>1 DEF VisitField, Visited, Advance, Sound, Typed, Index
  <1>3. UNCHANGED <<reg, hand, frames, fields>>
    BY DEF VisitField, heapVars
  <1>4. \A o \in Object, i \in Index :
           FieldSlot(o, i) \notin E => Unvisited(o, i)' = Unvisited(o, i)
    BY <1>1, <1>2, <1>3 DEF Unvisited
  <1>5. \A s \in Slot \ E : held'[s] = held[s]
    BY <1>3, <1>4, OthersKept, FramesUnchanged
  <1>6. held'[FallingSlot] = held[f]
    BY <1>1, Forms, FormsNext DEF VisitField, Unvisited, At, HeldForms
  <1>7. held'[f] = None
    BY <1>1, <1>2, FormsNext DEF Unvisited, HeldForms
  <1> QED
    BY <1>1, <1>5, <1>6, <1>7, SlotForms

LEMMA PopAndFreeHeld ==
    ASSUME Sound, PopPending \/ FreeVisited
    PROVE  \A s \in Slot : held'[s] = held[s]
  <1>1. UNCHANGED <<reg, hand, falling, frames>>
    BY DEF PopPending, FreeVisited, heapVars
  <1>2. \A o \in Object, i \in Index : Unvisited(o, i)' = Unvisited(o, i)
    <2>1. CASE PopPending
      BY <2>1, VisitFacts DEF PopPending, Unvisited, Visited, heapVars, Index
    <2>2. CASE FreeVisited
      <3>1. visit.of \in Object /\ visit' = NoVisit /\ visit.next \in Nat
            /\ visit.next > Len(fields[visit.of])
            /\ fields' = [fields EXCEPT ![visit.of] = <<>>]
        BY <2>2, VisitFacts DEF FreeVisited, Sound, Typed
      <3> SUFFICES ASSUME NEW o \in Object, NEW i \in Index
                   PROVE  Unvisited(o, i)' = Unvisited(o, i)
        OBVIOUS
      <3>2. ~Visited(o, i)'
        BY <3>1, EagerAssumption DEF Visited, NoVisit
      <3>3. CASE o = visit.of
        <4>1. Unvisited(o, i) = None
          BY <3>1, <3>3, FieldFacts DEF Unvisited, Visited, At, Index
        <4>2. fields'[o] = <<>>
          BY <3>1, <3>3 DEF Sound, Typed
        <4> QED
          BY <3>2, <4>1, <4>2 DEF Unvisited, At
      <3>4. CASE o # visit.of
        <4>1. fields'[o] = fields[o]
          BY <3>1, <3>4 DEF Sound, Typed
        <4> QED
          BY <3>2, <3>4, <4>1 DEF Unvisited, Visited
      <3> QED
        BY <3>3, <3>4
    <2> QED
      BY <2>1, <2>2
  <1> QED
    BY <1>1, <1>2, FramesUnchanged, OthersKept

LEMMA StoreLocalHeld ==
    ASSUME Sound, StoreLocal
    PROVE  LET l == LocalSlot(Top, call.index)
           IN  /\ l \in RootSlot /\ held[FallingSlot] = None
               /\ held'[l] = hand /\ held'[HandSlot] = None /\ held'[FallingSlot] = held[l]
               /\ \A s \in Slot \ {l, HandSlot, FallingSlot} : held'[s] = held[s]
  <1>1. Top > 0 /\ call.index \in 1..Len(frames[Top].locals)
    BY DEF Sound, Calls, StoreLocal
  <1>2. Top \in 1..Top
    BY <1>1, FrameFacts
  <1>3. PICK d \in 1..Top, k \in Nat :
           d = Top /\ k = call.index /\ k \in 1..Len(frames[d].locals)
    BY <1>1, <1>2
  <1>4. /\ hand \in Value /\ hand' = None /\ reg' = reg /\ fields' = fields /\ visit' = visit
        /\ frames' = [frames EXCEPT ![d].locals[k] = hand]
        /\ falling' = frames[d].locals[k] /\ falling = None
    BY <1>3 DEF StoreLocal, Stored, Settled, Sound, Typed
  <1>5. /\ LocalSlot(d, k) \in RootSlot /\ InFrame(d, k) = frames[d].locals[k]
        /\ InFrame(d, k)' = hand
        /\ \A e \in 1..MaxFrames, i \in 1..MaxLocals :
              LocalSlot(e, i) # LocalSlot(d, k) => InFrame(e, i)' = InFrame(e, i)
        /\ \A e \in 1..MaxFrames, i \in 1..MaxTemps : TempIn(e, i)' = TempIn(e, i)
    BY <1>3, <1>4, LocalForms
  <1>6. d \in 1..MaxFrames /\ k \in 1..MaxLocals
    BY <1>3, FrameFacts
  <1>7. \A s \in Slot \ {LocalSlot(d, k), HandSlot, FallingSlot} : held'[s] = held[s]
    BY <1>4, <1>5, OthersKept, FieldsUnchanged
  <1>8. /\ held'[LocalSlot(d, k)] = hand /\ held'[HandSlot] = None
        /\ held'[FallingSlot] = held[LocalSlot(d, k)] /\ held[FallingSlot] = None
    BY <1>4, <1>5, <1>6, Forms, FormsNext DEF HeldForms
  <1> QED
    BY <1>3, <1>5, <1>7, <1>8

LEMMA StoreTemporaryHeld ==
    ASSUME Sound, StoreTemporary
    PROVE  \E t \in RootSlot :
               /\ held[t] = None /\ held'[t] = hand /\ held'[HandSlot] = None
               /\ t # HandSlot /\ \A s \in Slot \ {t, HandSlot} : held'[s] = held[s]
  <1>1. Top > 0 /\ Len(frames[Top].temps) < Temporaries
    BY DEF Sound, Calls, StoreTemporary
  <1>2. PICK d \in 1..Top : d = Top
    BY <1>1, FrameFacts
  <1>3. /\ hand \in Value /\ hand' = None /\ reg' = reg /\ fields' = fields /\ visit' = visit
        /\ falling' = falling
        /\ frames' = [frames EXCEPT ![d].temps = Append(frames[d].temps, hand)]
    BY <1>2 DEF StoreTemporary, Stored, Sound, Typed
  <1> DEFINE k == Len(frames[d].temps) + 1
             x == Append(frames[d].temps, hand)
             t == TempSlot(d, k)
  <1>4. /\ frames[d].temps \in Seq(Value) /\ k \in 1..MaxTemps /\ d \in 1..MaxFrames
        /\ x \in Seq(Value) /\ Len(x) = k /\ x[k] = hand
        /\ \A i \in 1..Len(frames[d].temps) : x[i] = frames[d].temps[i]
    BY <1>1, <1>2, <1>3, FrameFacts, AppendFacts
  <1> HIDE DEF x
  <1>5. /\ \A e \in 1..MaxFrames, i \in 1..MaxLocals : InFrame(e, i)' = InFrame(e, i)
        /\ \A e \in 1..MaxFrames, i \in 1..MaxTemps :
              TempIn(e, i)' = IF e = d THEN At(x, i) ELSE TempIn(e, i)
    BY <1>3, <1>4, TempForms DEF x
  <1>6. /\ \A i : TempIn(d, i) = At(frames[d].temps, i)
        /\ \A i \in 1..MaxTemps : i # k => At(x, i) = At(frames[d].temps, i)
        /\ At(x, k) = hand /\ At(frames[d].temps, k) = None
    <2>1. \A i : TempIn(d, i) = At(frames[d].temps, i)
      BY FrameFacts DEF TempIn
    <2>2. /\ Len(frames[d].temps) \in Nat /\ k = Len(frames[d].temps) + 1 /\ Len(x) = k
          /\ x[k] = hand /\ \A i \in 1..Len(frames[d].temps) : x[i] = frames[d].temps[i]
      BY <1>4
    <2>3. At(x, k) = hand
      BY <2>2 DEF At
    <2>4. At(frames[d].temps, k) = None
      BY <2>2 DEF At
    <2>5. ASSUME NEW i \in 1..MaxTemps, i # k PROVE At(x, i) = At(frames[d].temps, i)
      <3>1. i \in 1..Len(x) <=> i \in 1..Len(frames[d].temps)
        BY <2>2, <2>5, EagerAssumption
      <3> QED
        BY <2>2, <3>1 DEF At
    <2> QED
      BY <2>1, <2>3, <2>4, <2>5
  <1>7. \A e \in 1..MaxFrames, i \in 1..MaxTemps :
           TempSlot(e, i) # t => TempIn(e, i)' = TempIn(e, i)
    BY <1>5, <1>6
  <1>8. \A s \in Slot \ {t, HandSlot} : held'[s] = held[s]
    BY <1>3, <1>5, <1>7, OthersKept, FieldsUnchanged
  <1>9. held[t] = None /\ held'[t] = hand /\ held'[HandSlot] = None
    BY <1>3, <1>4, <1>5, <1>6, Forms, FormsNext DEF HeldForms
  <1>10. t # HandSlot /\ t \in RootSlot
    BY <1>4, Differ, SlotForms DEF SlotsDiffer
  <1> QED
    BY <1>8, <1>9, <1>10

LEMMA StoreNewElementHeld ==
    ASSUME Sound, StoreNewElement
    PROVE  LET f == FieldSlot(call.of, Len(fields[call.of]) + 1)
           IN  /\ f \in Slot /\ f # HandSlot
               /\ held[f] = None /\ held'[f] = hand /\ held'[HandSlot] = None
               /\ \A s \in Slot \ {f, HandSlot} : held'[s] = held[s]
  <1>1. PICK o \in Object : o = call.of /\ Len(fields[o]) < Width /\ visit = NoVisit
    BY DEF Sound, Calls, StoreNewElement, Settled
  <1> DEFINE k == Len(fields[o]) + 1
             x == Append(fields[o], hand)
             f == FieldSlot(o, k)
  <1>2. /\ hand \in Value /\ hand' = None /\ reg' = reg /\ falling' = falling
        /\ frames' = frames /\ visit' = visit /\ fields'[o] = x
        /\ \A p \in Object \ {o} : fields'[p] = fields[p]
    BY <1>1 DEF StoreNewElement, Stored, Sound, Typed
  <1>3. /\ k \in Index /\ Len(x) = k /\ x[k] = hand /\ x \in Seq(Value)
        /\ fields[o] \in Seq(Value) /\ \A i \in 1..Len(fields[o]) : x[i] = fields[o][i]
    BY <1>1, <1>2, FieldFacts, AppendFacts, EagerAssumption DEF Index
  <1> HIDE DEF x
  <1>4. /\ \A p \in Object \ {o}, i \in Index : Unvisited(p, i)' = Unvisited(p, i)
        /\ \A i \in Index : Unvisited(o, i)' = IF Visited(o, i) THEN None ELSE At(x, i)
    BY <1>2, FieldForms
  <1>5. /\ \A i \in Index : Unvisited(o, i) = At(fields[o], i) /\ ~Visited(o, i)
        /\ \A i \in Index : i # k => At(x, i) = At(fields[o], i)
        /\ At(x, k) = hand /\ At(fields[o], k) = None
    BY SMTT(60), <1>1, <1>3, VisitFacts, SequenceAt, FieldFacts DEF Unvisited
  <1>6. \A p \in Object, i \in Index : FieldSlot(p, i) # f => Unvisited(p, i)' = Unvisited(p, i)
    BY <1>4, <1>5
  <1>7. \A s \in Slot \ {f, HandSlot} : held'[s] = held[s]
    BY <1>2, <1>6, OthersKept, FramesUnchanged
  <1>8. held[f] = None /\ held'[f] = hand /\ held'[HandSlot] = None
    BY <1>2, <1>3, <1>4, <1>5, Forms, FormsNext DEF HeldForms
  <1>9. f \in Slot /\ f # HandSlot
    BY <1>3, SlotForms
  <1> QED
    BY <1>1, <1>7, <1>8, <1>9

LEMMA StoreFieldHeld ==
    ASSUME Sound, StoreField
    PROVE  LET f == FieldSlot(call.of, call.index)
           IN  /\ f \in Slot /\ f \notin RootSlot /\ held[FallingSlot] = None
               /\ held'[f] = hand /\ held'[HandSlot] = None /\ held'[FallingSlot] = held[f]
               /\ \A s \in Slot \ {f, HandSlot, FallingSlot} : held'[s] = held[s]
  <1>1. PICK o \in Object, k \in Nat :
           k \in 1..Len(fields[o]) /\ o = call.of /\ k = call.index /\ visit = NoVisit /\ falling = None
    BY DEF Sound, Calls, StoreField, Settled
  <1> DEFINE x == [fields[o] EXCEPT ![k] = hand]
             f == FieldSlot(o, k)
  <1>2. /\ hand \in Value /\ hand' = None /\ reg' = reg /\ falling' = fields[o][k]
        /\ frames' = frames /\ visit' = visit /\ fields'[o] = x
        /\ \A p \in Object \ {o} : fields'[p] = fields[p]
    BY <1>1 DEF StoreField, Stored, Sound, Typed
  <1>3. /\ k \in Index /\ x \in Seq(Value) /\ Len(x) = Len(fields[o]) /\ fields[o] \in Seq(Value)
        /\ \A i \in 1..Len(fields[o]) : x[i] = IF i = k THEN hand ELSE fields[o][i]
    BY <1>1, <1>2, FieldFacts, ReplaceFacts
  <1> HIDE DEF x
  <1>4. /\ \A p \in Object \ {o}, i \in Index : Unvisited(p, i)' = Unvisited(p, i)
        /\ \A i \in Index : Unvisited(o, i)' = IF Visited(o, i) THEN None ELSE At(x, i)
    BY <1>2, FieldForms
  <1>5. /\ \A i \in Index : Unvisited(o, i) = At(fields[o], i) /\ ~Visited(o, i)
        /\ \A i \in Index : i # k => At(x, i) = At(fields[o], i)
        /\ At(x, k) = hand /\ At(fields[o], k) = fields[o][k]
    BY SMTT(60), <1>1, <1>3, VisitFacts, SequenceAt DEF Unvisited
  <1>6. \A p \in Object, i \in Index : FieldSlot(p, i) # f => Unvisited(p, i)' = Unvisited(p, i)
    BY <1>4, <1>5
  <1>7. \A s \in Slot \ {f, HandSlot, FallingSlot} : held'[s] = held[s]
    BY <1>2, <1>6, OthersKept, FramesUnchanged
  <1>8. held[FallingSlot] = None /\ held'[f] = hand /\ held'[HandSlot] = None
        /\ held'[FallingSlot] = held[f]
    BY <1>1, <1>2, <1>3, <1>4, <1>5, Forms, FormsNext DEF HeldForms
  <1> QED
    BY <1>1, <1>3, <1>7, <1>8, SlotForms

LEMMA ReleaseTemporaryHeld ==
    ASSUME Sound, ReleaseTemporary
    PROVE  \E t \in RootSlot :
               /\ t # FallingSlot /\ held[FallingSlot] = None
               /\ held'[FallingSlot] = held[t] /\ held'[t] = None
               /\ \A s \in Slot \ {t, FallingSlot} : held'[s] = held[s]
  <1>1. Top > 0 /\ frames[Top].temps # <<>>
    BY DEF Sound, Calls, ReleaseTemporary, Doing
  <1>2. PICK d \in 1..Top : d = Top
    BY <1>1, FrameFacts
  <1>3. /\ hand' = hand /\ reg' = reg /\ fields' = fields /\ visit' = visit /\ falling = None
        /\ falling' = Last(frames[d].temps)
        /\ frames' = [frames EXCEPT ![d].temps = Front(frames[d].temps)]
    BY <1>2 DEF ReleaseTemporary, Settled, heapVars
  <1> DEFINE k == Len(frames[d].temps)
             x == Front(frames[d].temps)
             t == TempSlot(d, k)
  <1>4. /\ frames[d].temps \in Seq(Value) /\ k \in 1..MaxTemps /\ d \in 1..MaxFrames
        /\ x \in Seq(Value) /\ Len(x) = k - 1 /\ falling' = frames[d].temps[k]
        /\ \A i \in 1..(k - 1) : x[i] = frames[d].temps[i]
    <2>1. /\ frames[d].temps \in Seq(Value) /\ frames[d].temps # <<>> /\ d \in 1..MaxFrames
          /\ k \in Nat /\ k <= MaxTemps
      BY <1>1, <1>2, FrameFacts
    <2>2. /\ Front(frames[d].temps) \in Seq(Value)
          /\ Len(Front(frames[d].temps)) = Len(frames[d].temps) - 1
          /\ \A i \in 1..(Len(frames[d].temps) - 1) : Front(frames[d].temps)[i] = frames[d].temps[i]
          /\ Len(frames[d].temps) \in Nat \ {0}
          /\ Last(frames[d].temps) = frames[d].temps[Len(frames[d].temps)]
      BY <2>1, FrontFacts
    <2> QED
      BY <1>3, <2>1, <2>2, FrameFacts
  <1> HIDE DEF x
  <1>5. /\ \A e \in 1..MaxFrames, i \in 1..MaxLocals : InFrame(e, i)' = InFrame(e, i)
        /\ \A e \in 1..MaxFrames, i \in 1..MaxTemps :
              TempIn(e, i)' = IF e = d THEN At(x, i) ELSE TempIn(e, i)
    BY <1>3, <1>4, TempForms DEF x
  <1>6. /\ \A i : TempIn(d, i) = At(frames[d].temps, i)
        /\ \A i \in 1..MaxTemps : i # k => At(x, i) = At(frames[d].temps, i)
        /\ At(x, k) = None /\ At(frames[d].temps, k) = frames[d].temps[k]
    <2>1. \A i : TempIn(d, i) = At(frames[d].temps, i)
      BY FrameFacts DEF TempIn
    <2>2. /\ k \in Nat /\ k = Len(frames[d].temps) /\ Len(x) = k - 1
          /\ \A i \in 1..(k - 1) : x[i] = frames[d].temps[i]
      BY <1>4
    <2>3. At(x, k) = None
      <3>1. PICK n : n = Len(x)
        OBVIOUS
      <3>2. k \notin 1..n
        BY <2>2, <3>1
      <3> QED
        BY <3>1, <3>2 DEF At
    <2>4. At(frames[d].temps, k) = frames[d].temps[k]
      BY <1>4, <2>2 DEF At
    <2>5. ASSUME NEW i \in 1..MaxTemps, i # k PROVE At(x, i) = At(frames[d].temps, i)
      <3>1. i \in 1..Len(x) <=> i \in 1..Len(frames[d].temps)
        BY <2>2, <2>5, EagerAssumption
      <3>2. i \in 1..Len(x) => x[i] = frames[d].temps[i]
        BY <2>2
      <3> QED
        BY <3>1, <3>2 DEF At
    <2> QED
      BY <2>1, <2>3, <2>4, <2>5
  <1>7. \A e \in 1..MaxFrames, i \in 1..MaxTemps :
           TempSlot(e, i) # t => TempIn(e, i)' = TempIn(e, i)
    BY <1>5, <1>6
  <1>8. \A s \in Slot \ {t, FallingSlot} : held'[s] = held[s]
    BY <1>3, <1>5, <1>7, OthersKept, FieldsUnchanged
  <1>9. held[FallingSlot] = None /\ held'[FallingSlot] = held[t] /\ held'[t] = None
    BY <1>3, <1>4, <1>5, <1>6, Forms, FormsNext DEF HeldForms
  <1>10. t # FallingSlot /\ t \in RootSlot
    BY <1>4, Differ, SlotForms DEF SlotsDiffer
  <1> QED
    BY <1>8, <1>9, <1>10

LEMMA ReleaseLocalHeld ==
    ASSUME Sound, ReleaseLocal
    PROVE  \E t \in RootSlot :
               /\ t # FallingSlot /\ held[FallingSlot] = None
               /\ held'[FallingSlot] = held[t] /\ held'[t] = None
               /\ \A s \in Slot \ {t, FallingSlot} : held'[s] = held[s]
  <1>1. PICK d \in 1..Top, k \in Nat :
           d = Top /\ k = call.next /\ k \in 1..Len(frames[d].locals)
    <2>1. Top > 0 /\ call.next \in Nat \ {0} /\ call.next <= Len(frames[Top].locals)
      BY DEF Sound, Calls, ReleaseLocal, LocalsLeft
    <2> QED
      BY SMTT(60), <2>1, FrameFacts
  <1>2. /\ hand' = hand /\ reg' = reg /\ fields' = fields /\ visit' = visit
        /\ frames' = [frames EXCEPT ![d].locals[k] = None]
        /\ falling' = frames[d].locals[k] /\ falling = None
    BY <1>1 DEF ReleaseLocal, Settled, heapVars
  <1>3. /\ LocalSlot(d, k) \in RootSlot /\ InFrame(d, k) = frames[d].locals[k]
        /\ InFrame(d, k)' = None
        /\ \A e \in 1..MaxFrames, i \in 1..MaxLocals :
              LocalSlot(e, i) # LocalSlot(d, k) => InFrame(e, i)' = InFrame(e, i)
        /\ \A e \in 1..MaxFrames, i \in 1..MaxTemps : TempIn(e, i)' = TempIn(e, i)
    <2>1. None \in Value
      BY DEF Value
    <2> QED
      BY <1>1, <1>2, <2>1, LocalForms
  <1>4. d \in 1..MaxFrames /\ k \in 1..MaxLocals
    BY <1>1, FrameFacts
  <1>5. \A s \in Slot \ {LocalSlot(d, k), FallingSlot} : held'[s] = held[s]
    BY <1>2, <1>3, OthersKept, FieldsUnchanged
  <1>6. /\ held'[LocalSlot(d, k)] = None
        /\ held'[FallingSlot] = held[LocalSlot(d, k)] /\ held[FallingSlot] = None
    BY <1>2, <1>3, <1>4, Forms, FormsNext DEF HeldForms
  <1>7. LocalSlot(d, k) # FallingSlot
    BY Differ DEF SlotsDiffer
  <1> QED
    BY <1>3, <1>5, <1>6, <1>7

LEMMA PopFrameHeld ==
    ASSUME Sound, PopFrame
    PROVE  \A s \in Slot : held'[s] = held[s]
  <1>1. PICK d \in 1..Top : d = Top
    BY FrameFacts DEF Sound, Calls, PopFrame
  <1>2. /\ frames[d].temps = <<>>
        /\ \A i \in 1..Len(frames[d].locals) : frames[d].locals[i] = None
    <2>1. call.next \in Nat \ {0} /\ ~(call.next <= Len(frames[d].locals))
      BY <1>1 DEF Sound, Calls, PopFrame, LocalsLeft
    <2> QED
      BY <1>1, <2>1, FrameFacts DEF Sound, Calls, PopFrame
  <1>3. /\ reg' = reg /\ hand' = hand /\ falling' = falling /\ visit' = visit /\ fields' = fields
        /\ Len(frames') = d - 1 /\ \A e \in 1..(d - 1) : frames'[e] = frames[e]
    <2>1. frames \in Seq(Frame) /\ Len(frames) = d
      BY <1>1 DEF Sound, Typed, Top
    <2>2. frames # <<>>
      BY <2>1
    <2> QED
      BY <2>1, <2>2, FrontFacts DEF PopFrame, heapVars
  <1>4. /\ \A e \in 1..MaxFrames, i \in 1..MaxLocals : InFrame(e, i)' = InFrame(e, i)
        /\ \A e \in 1..MaxFrames, i \in 1..MaxTemps : TempIn(e, i)' = TempIn(e, i)
    <2>1. \A i : At(frames[d].locals, i) = None /\ At(frames[d].temps, i) = None
      <3>1. frames[d].locals \in Seq(Value) /\ frames[d].temps \in Seq(Value)
        BY FrameFacts
      <3>2. \A i : At(frames[d].locals, i) = None
        BY <1>2, <3>1, SequenceAt
      <3>3. \A i : At(frames[d].temps, i) = None
        BY <1>2 DEF At
      <3> QED
        BY <3>2, <3>3
    <2>2. \A e \in 1..MaxFrames : (e <= Len(frames')) <=> (e <= Top /\ e # d)
      BY <1>1, <1>3, FrameFacts
    <2> QED
      BY <1>1, <1>3, <2>1, <2>2 DEF InFrame, TempIn, Top
  <1> QED
    BY <1>3, <1>4, OthersKept, FieldsUnchanged

(* Calls that end, and those that only begin another. *)
LEMMA QuietHeld ==
    ASSUME Sound, Return \/ StepOrLeave \/ ListReferences
    PROVE  \A s \in Slot : held'[s] = held[s]
  <1>1. UNCHANGED <<reg, hand, falling, frames, visit, fields>>
    BY DEF Return, StepOrLeave, ListReferences, heapVars
  <1> QED
    BY <1>1, FramesUnchanged, FieldsUnchanged, OthersKept

LEMMA EnterHeld ==
    ASSUME Sound, Enter
    PROVE  \A s \in Slot : held'[s] = held[s]
  <1>1. PICK n \in 0..MaxLocals : frames' = Append(frames, NewFrame(n))
    BY DEF Enter
  <1>2. UNCHANGED <<reg, hand, falling, visit, fields>>
    BY DEF Enter, heapVars
  <1>3. NewFrame(n) \in Frame /\ n \in Nat
        /\ NewFrame(n).locals = [i \in 1..n |-> None] /\ NewFrame(n).temps = <<>>
    BY FrameFacts DEF NewFrame, Frame, Value
  <1>4. /\ Len(frames') = Top + 1 /\ frames'[Top + 1] = NewFrame(n)
        /\ \A d \in 1..Top : frames'[d] = frames[d]
    BY <1>1, <1>3, AppendFacts DEF Sound, Typed, Top
  <1>5. \A i : At(NewFrame(n).locals, i) = None /\ At(NewFrame(n).temps, i) = None
    BY <1>3 DEF At
  <1>6. /\ \A e \in 1..MaxFrames, i \in 1..MaxLocals : InFrame(e, i)' = InFrame(e, i)
        /\ \A e \in 1..MaxFrames, i \in 1..MaxTemps : TempIn(e, i)' = TempIn(e, i)
    <2>1. \A e \in 1..MaxFrames : e <= Len(frames') <=> e <= Top \/ e = Top + 1
      BY <1>4, FrameFacts
    <2>2. \A e \in 1..MaxFrames : e <= Top => e \in 1..Top /\ e # Top + 1
      BY FrameFacts
    <2> QED
      BY <1>4, <1>5, <2>1, <2>2 DEF InFrame, TempIn, Top
  <1> QED
    BY <1>2, <1>6, FieldsUnchanged, OthersKept

(* A free cell is made a value that holds nothing. *)
LEMMA AllocateHeld ==
    ASSUME Sound, NEW r \in Register, NEW o \in Object, NEW k, NEW n \in Nat, NEW next,
           Allocate(r, o, k, n, next)
    PROVE  /\ held[RegSlot(r)] = None /\ held'[RegSlot(r)] = o
           /\ \A s \in Slot \ {RegSlot(r)} : held'[s] = held[s]
  <1>1. /\ UNCHANGED <<hand, falling, frames, visit>>
        /\ reg[r] = None /\ reg' = [reg EXCEPT ![r] = o] /\ reg \in [Register -> Value]
        /\ Free(o) /\ fields[o] = <<>> /\ fields' = [fields EXCEPT ![o] = [i \in 1..n |-> None]]
        /\ fields \in [Object -> Seq(Value)]
    BY DEF Allocate, Sound, Typed, Shapes
  <1>2. fields'[o] = [i \in 1..n |-> None] /\ \A p \in Object \ {o} : fields'[p] = fields[p]
    BY <1>1
  <1>3. \A i : At(fields'[o], i) = None /\ At(fields[o], i) = None
    BY <1>1, <1>2 DEF At
  <1>4. \A p \in Object, i \in Index : Unvisited(p, i)' = Unvisited(p, i)
    BY <1>1, <1>2, <1>3, FieldForms DEF Unvisited
  <1>5. \A s \in Slot \ {RegSlot(r)} : held'[s] = held[s]
    BY <1>1, <1>4, FramesUnchanged, OthersKept
  <1> QED
    BY <1>1, <1>5, Forms, FormsNext DEF HeldForms

LEMMA RetainResultHeld ==
    ASSUME Sound, NEW r \in Register, NEW v, reg[r] = None, reg' = [reg EXCEPT ![r] = v],
           UNCHANGED <<fields, frames, hand, falling, visit>>
    PROVE  /\ held[RegSlot(r)] = None /\ held'[RegSlot(r)] = v
           /\ \A s \in Slot \ {RegSlot(r)} : held'[s] = held[s]
  <1>1. \A s \in Slot \ {RegSlot(r)} : held'[s] = held[s]
    BY FramesUnchanged, FieldsUnchanged, OthersKept DEF Sound, Typed
  <1> QED
    BY <1>1, Forms, FormsNext DEF HeldForms, Sound, Typed

LEMMA HandHeld ==
    ASSUME Sound, hand = None, UNCHANGED <<fields, frames, reg, falling, visit>>
    PROVE  /\ held[HandSlot] = None /\ held'[HandSlot] = hand'
           /\ \A s \in Slot \ {HandSlot} : held'[s] = held[s]
  <1>1. \A s \in Slot \ {HandSlot} : held'[s] = held[s]
    BY FramesUnchanged, FieldsUnchanged, OthersKept
  <1> QED
    BY <1>1, Forms, FormsNext DEF HeldForms

LEMMA TakeHeld ==
    ASSUME Sound, NEW r \in Register, NEW next, Take(r, next)
    PROVE  /\ held[HandSlot] = None /\ held'[HandSlot] = held[RegSlot(r)]
           /\ held'[RegSlot(r)] = None
           /\ \A s \in Slot \ {HandSlot, RegSlot(r)} : held'[s] = held[s]
  <1>1. /\ hand = None /\ hand' = reg[r] /\ reg' = [reg EXCEPT ![r] = None]
        /\ UNCHANGED <<fields, frames, falling, visit>> /\ reg \in [Register -> Value]
    BY DEF Take, Idle, Sound, Calls, Stores, Typed, heapVars
  <1>2. \A s \in Slot \ {HandSlot, RegSlot(r)} : held'[s] = held[s]
    BY <1>1, FramesUnchanged, FieldsUnchanged, OthersKept
  <1> QED
    BY <1>1, <1>2, Forms, FormsNext DEF HeldForms

LEMMA ReleaseResultHeld ==
    ASSUME Sound, NEW r \in Register, falling = None, falling' = reg[r],
           reg' = [reg EXCEPT ![r] = None], UNCHANGED <<fields, frames, hand, visit>>
    PROVE  /\ held[FallingSlot] = None /\ held'[FallingSlot] = held[RegSlot(r)]
           /\ held'[RegSlot(r)] = None
           /\ \A s \in Slot \ {FallingSlot, RegSlot(r)} : held'[s] = held[s]
  <1>1. \A s \in Slot \ {FallingSlot, RegSlot(r)} : held'[s] = held[s]
    BY FramesUnchanged, FieldsUnchanged, OthersKept DEF Sound, Typed
  <1> QED
    BY <1>1, Forms, FormsNext DEF HeldForms, Sound, Typed

LEMMA LocalMoveHeld ==
    ASSUME Sound, LocalMove
    PROVE  \E r \in Register : \E l \in RootSlot :
               /\ l # RegSlot(r) /\ held[RegSlot(r)] = None
               /\ held'[RegSlot(r)] = held[l] /\ held'[l] = None
               /\ \A s \in Slot \ {l, RegSlot(r)} : held'[s] = held[s]
  <1>1. PICK r \in Register, k \in 1..MaxLocals :
           /\ reg[r] = None /\ Top > 0 /\ k <= Len(frames[Top].locals)
           /\ reg' = [reg EXCEPT ![r] = frames[Top].locals[k]]
           /\ frames' = [frames EXCEPT ![Top].locals[k] = None]
           /\ UNCHANGED <<heapVars, hand, falling, visit>>
    BY DEF LocalMove
  <1>2. PICK d \in 1..Top : d = Top /\ k \in 1..Len(frames[d].locals)
    BY <1>1, FrameFacts
  <1>3. /\ LocalSlot(d, k) \in RootSlot /\ InFrame(d, k) = frames[d].locals[k]
        /\ InFrame(d, k)' = None
        /\ \A e \in 1..MaxFrames, i \in 1..MaxLocals :
              LocalSlot(e, i) # LocalSlot(d, k) => InFrame(e, i)' = InFrame(e, i)
        /\ \A e \in 1..MaxFrames, i \in 1..MaxTemps : TempIn(e, i)' = TempIn(e, i)
    <2>1. None \in Value /\ frames' = [frames EXCEPT ![d].locals[k] = None]
      BY <1>1, <1>2 DEF Value
    <2> QED
      BY <1>2, <2>1, LocalForms
  <1>4. d \in 1..MaxFrames /\ k \in 1..MaxLocals
    BY <1>2, FrameFacts
  <1>5. /\ \A q \in Register \ {r} : reg'[q] = reg[q]
        /\ reg'[r] = frames[d].locals[k]
        /\ fields' = fields /\ hand' = hand /\ falling' = falling /\ visit' = visit
    BY <1>1, <1>2 DEF Sound, Typed, heapVars
  <1>6. \A s \in Slot \ {LocalSlot(d, k), RegSlot(r)} : held'[s] = held[s]
    BY <1>3, <1>5, OthersKept, FieldsUnchanged
  <1>7. held[RegSlot(r)] = None /\ held'[RegSlot(r)] = held[LocalSlot(d, k)]
        /\ held'[LocalSlot(d, k)] = None
    BY <1>1, <1>3, <1>4, <1>5, Forms, FormsNext DEF HeldForms
  <1>8. LocalSlot(d, k) # RegSlot(r)
    BY Differ DEF SlotsDiffer
  <1> QED
    BY <1>3, <1>6, <1>7, <1>8
-----------------------------------------------------------------------------
(***************************************************************************)
(* What a step does to the slots, the counts and the values' states, as    *)
(* one of a few forms.                                                     *)
(***************************************************************************)
Kept == \A s \in Slot : held'[s] = held[s]

Gained(s, v) ==
    /\ held[s] = None /\ held'[s] = v
    /\ \A r \in Slot \ {s} : held'[r] = held[r]

Lost(s) ==
    /\ held'[s] = None
    /\ \A r \in Slot \ {s} : held'[r] = held[r]

Moved(s, t) ==
    /\ s # t /\ held[s] = None /\ held'[s] = held[t] /\ held'[t] = None
    /\ \A r \in Slot \ {s, t} : held'[r] = held[r]

Exchanged(s, t, u) ==
    /\ s # t /\ s # u /\ t # u
    /\ held[u] = None /\ held'[s] = held[t] /\ held'[t] = None /\ held'[u] = held[s]
    /\ \A r \in Slot \ {s, t, u} : held'[r] = held[r]

(* A slot that can be written: outside of values, or in one that is live. *)
InLive(s) == s \in RootSlot \/ \E o \in Object, i \in Index : s = FieldSlot(o, i) /\ status[o] = "live"

GivesUp(o) == \A i \in Index : ~Mortal(held[FieldSlot(o, i)])

Becomes(o, st) == status' = [status EXCEPT ![o] = st]

CountBecomes(o, n) == count' = [count EXCEPT ![o] = n]

StepRearranges ==
    /\ count' = count /\ status' = status
    /\ \/ Kept
       \/ \E s, t \in Slot : InLive(s) /\ Moved(s, t)
       \/ \E s, t \in Slot, u \in RootSlot : InLive(s) /\ Exchanged(s, t, u)

StepAllocates ==
    \E s \in RootSlot, o \in Object :
        /\ Gained(s, o) /\ status[o] = "free" /\ Becomes(o, "live")
        /\ count[o] = 0 /\ CountBecomes(o, 1)

StepShares ==
    \E s \in RootSlot, v \in Object \cup Literal :
        /\ Gained(s, v) /\ status' = status
        /\ v \in Object => status[v] = "live" /\ CountBecomes(v, count[v] + 1)
        /\ v \notin Object => count' = count

StepDrops ==
    LET v == falling IN
    /\ v \in Object \cup Literal /\ Lost(FallingSlot)
    /\ v \notin Object => count' = count /\ status' = status
    /\ v \in Object =>
          /\ count[v] > 0 /\ CountBecomes(v, count[v] - 1)
          /\ count[v] > 1 => status' = status
          /\ count[v] = 1 => Becomes(v, "dying") \/ (GivesUp(v) /\ Becomes(v, "free"))

StepUnwraps ==
    LET v == falling IN
    /\ v \in Object /\ count[v] = 1 /\ CountBecomes(v, 0) /\ Becomes(v, "free")
    /\ held'[FallingSlot] = held[FieldSlot(v, 1)] /\ held'[FieldSlot(v, 1)] = None
    /\ \A r \in Slot \ {FallingSlot, FieldSlot(v, 1)} : held'[r] = held[r]
    /\ \A i \in Index \ {1} : held[FieldSlot(v, i)] = None

StepReclaims ==
    \E o \in Object :
        /\ Kept /\ count' = count
        /\ status[o] = "dying" /\ GivesUp(o) /\ Becomes(o, "free")

StepForms ==
    \/ StepRearranges \/ StepAllocates \/ StepShares
    \/ StepDrops \/ StepUnwraps \/ StepReclaims
-----------------------------------------------------------------------------
(* Counts are what they are exact about. *)
Exactly == CountExact <=> \A o \in Object : Cardinality(Holders(held, o)) = count[o]

LEMMA ExactlyHolders == Exactly
  <1>1. \A o : {s \in Slot : Held(s) = o} = Holders(held, o)
    BY DEF Holders, held
  <1> QED
    BY <1>1 DEF Exactly, CountExact

LEMMA ExactlyNext == Exactly'
  BY ExactlyHolders, PTL

(* What is held is live. *)
LEMMA HolderFacts ==
    ASSUME Sound, CountExact, NEW o \in Object
    PROVE  /\ \A s \in Slot : held[s] = o => count[o] > 0
           /\ \A s, t \in Slot : s # t /\ held[s] = o /\ held[t] = o => count[o] > 1
           /\ \A s \in Slot : held[s] = o /\ count[o] > 1 => \E t \in Slot \ {s} : held[t] = o
  <1> DEFINE H == Holders(held, o)
  <1>1. Cardinality(H) = count[o] /\ IsFiniteSet(H)
    BY ExactlyHolders, SlotsAreFinite, FS_Subset DEF Exactly, Holders
  <1>2. \A s \in Slot : s \in H <=> held[s] = o
    BY DEF Holders
  <1> HIDE DEF H
  <1>3. ASSUME NEW s \in Slot, held[s] = o
        PROVE  /\ Cardinality(H \ {s}) = count[o] - 1 /\ Cardinality(H \ {s}) \in Nat
               /\ Cardinality(H \ {s}) = 0 <=> H \ {s} = {}
    <2>1. s \in H
      BY <1>2, <1>3
    <2>2. IsFiniteSet(H \ {s}) /\ Cardinality(H \ {s}) = Cardinality(H) - 1
      BY <1>1, <2>1, FS_RemoveElement
    <2> QED
      BY <1>1, <2>2, FS_CardinalityType, FS_EmptySet
  <1>4. count[o] \in Nat
    BY DEF Sound, Typed
  <1>5. ASSUME NEW s \in Slot, held[s] = o PROVE count[o] > 0
    <2>1. Cardinality(H \ {s}) = count[o] - 1 /\ Cardinality(H \ {s}) \in Nat
      BY <1>3, <1>5
    <2> QED
      BY <1>4, <2>1
  <1>6. ASSUME NEW s \in Slot, NEW t \in Slot, s # t, held[s] = o, held[t] = o PROVE count[o] > 1
    <2>1. H \ {s} # {}
      BY <1>2, <1>6
    <2>2. /\ Cardinality(H \ {s}) = count[o] - 1 /\ Cardinality(H \ {s}) \in Nat
          /\ Cardinality(H \ {s}) # 0
      BY <1>3, <1>6, <2>1
    <2> QED
      BY <1>4, <2>2
  <1>7. ASSUME NEW s \in Slot, held[s] = o, count[o] > 1 PROVE \E t \in Slot \ {s} : held[t] = o
    <2>1. Cardinality(H \ {s}) = count[o] - 1 /\ (Cardinality(H \ {s}) = 0 <=> H \ {s} = {})
      BY <1>3, <1>7
    <2>2. H \ {s} # {}
      BY <1>4, <1>7, <2>1
    <2> QED
      BY <2>2 DEF H, Holders
  <1> QED
    BY <1>5, <1>6, <1>7

(* Each form keeps the counts exact. *)
LEMMA FormsKeepCounts ==
    ASSUME Sound, CountExact, StepForms
    PROVE  CountExact'
  <1> DEFINE N(f, o) == Cardinality(Holders(f, o))
  <1>1. \A o \in Object : N(held, o) = count[o] /\ count[o] \in Nat
    BY ExactlyHolders DEF Exactly, Sound, Typed
  <1>2. SUFFICES \A o \in Object : N(held', o) = count'[o]
    BY ExactlyNext DEF Exactly
  <1>3. count \in [Object -> Nat] /\ FallingSlot \in Slot /\ RootSlot \subseteq Slot
    BY SlotForms DEF Sound, Typed, Slot
  <1>4. Kept => \A o \in Object : Holders(held', o) = Holders(held, o)
    BY DEF Kept, Holders
  <1> HIDE DEF N
  <1>5. CASE StepRearranges
    <2>1. ASSUME NEW s \in Slot, NEW t \in Slot, Moved(s, t), NEW o \in Object
          PROVE  N(held', o) = N(held, o)
      BY <2>1, MoveKeepsCounts DEF Moved, N
    <2>2. ASSUME NEW s \in Slot, NEW t \in Slot, NEW u \in RootSlot, Exchanged(s, t, u),
                 NEW o \in Object
          PROVE  N(held', o) = N(held, o)
      BY <1>3, <2>2, ExchangeKeepsCounts DEF Exchanged, N
    <2>3. Kept => \A o \in Object : N(held', o) = N(held, o)
      BY <1>4 DEF N
    <2> QED
      BY <1>1, <1>5, <2>1, <2>2, <2>3 DEF StepRearranges
  <1>6. ASSUME NEW s \in Slot, NEW o \in Object, \A r \in Slot \ {s} : held'[r] = held[r]
        PROVE  N(held', o) = N(held, o) - (IF held[s] = o THEN 1 ELSE 0)
                                        + (IF held'[s] = o THEN 1 ELSE 0)
    BY <1>6, OneChanged DEF N
  <1>7. CASE StepAllocates
    <2>1. PICK s \in RootSlot, p \in Object : Gained(s, p) /\ count[p] = 0 /\ CountBecomes(p, 1)
      BY <1>7 DEF StepAllocates
    <2> QED
      BY <1>1, <1>3, <1>6, <2>1, EagerAssumption DEF Gained, CountBecomes
  <1>8. CASE StepShares
    <2>1. PICK s \in RootSlot, v \in Object \cup Literal :
             /\ Gained(s, v)
             /\ v \in Object => CountBecomes(v, count[v] + 1)
             /\ v \notin Object => count' = count
      BY <1>8 DEF StepShares
    <2> QED
      BY <1>1, <1>3, <1>6, <2>1, EagerAssumption DEF Gained, CountBecomes
  <1>9. held[FallingSlot] = falling
    BY Forms DEF HeldForms
  <1>10. CASE StepDrops
    <2>1. /\ Lost(FallingSlot)
          /\ falling \in Object => CountBecomes(falling, count[falling] - 1)
          /\ falling \notin Object => count' = count
      BY <1>10 DEF StepDrops
    <2> QED
      BY <1>1, <1>3, <1>6, <1>9, <2>1, EagerAssumption DEF Lost, CountBecomes
  <1>11. CASE StepUnwraps
    <2> DEFINE f == FieldSlot(falling, 1)
               h == [r \in Slot |-> IF r = FallingSlot THEN None ELSE held[r]]
    <2>1. /\ falling \in Object /\ count[falling] = 1 /\ CountBecomes(falling, 0)
          /\ held'[FallingSlot] = held[f] /\ held'[f] = None
          /\ \A r \in Slot \ {FallingSlot, f} : held'[r] = held[r]
      BY <1>11 DEF StepUnwraps
    <2>2. f \in Slot /\ f # FallingSlot
      BY <2>1, SlotForms, EagerAssumption DEF Index
    <2>3. /\ h[FallingSlot] = None /\ h[f] = held[f]
          /\ \A r \in Slot \ {FallingSlot} : h[r] = held[r]
          /\ \A r \in Slot \ {FallingSlot, f} : held'[r] = h[r]
      BY <1>3, <2>1, <2>2
    <2> HIDE DEF h
    <2>4. ASSUME NEW o \in Object PROVE N(held', o) = N(h, o)
      BY <1>3, <2>1, <2>2, <2>3, MoveKeepsCounts DEF N
    <2>5. ASSUME NEW o \in Object
          PROVE  N(h, o) = N(held, o) - (IF held[FallingSlot] = o THEN 1 ELSE 0)
                                      + (IF h[FallingSlot] = o THEN 1 ELSE 0)
      <3>1. \A r \in Slot \ {FallingSlot} : h[r] = held[r]
        BY <2>3
      <3>2. FallingSlot \in Slot
        BY <1>3
      <3>3. Cardinality(Holders(h, o)) =
               Cardinality(Holders(held, o)) - (IF held[FallingSlot] = o THEN 1 ELSE 0)
                                             + (IF h[FallingSlot] = o THEN 1 ELSE 0)
        BY ONLY <3>1, <3>2, OneChanged
      <3> QED
        BY <3>3 DEF N
    <2> QED
      BY <1>1, <1>3, <1>9, <2>1, <2>3, <2>4, <2>5, EagerAssumption DEF CountBecomes
  <1>12. CASE StepReclaims
    BY <1>1, <1>4, <1>12 DEF StepReclaims, N
  <1> QED
    BY <1>5, <1>7, <1>8, <1>10, <1>11, <1>12 DEF StepForms
-----------------------------------------------------------------------------
(* Values' states change with their kinds and counts. *)
LEMMA StatusFacts ==
    ASSUME Sound, NEW o \in Object
    PROVE  /\ status[o] = "free" <=> Free(o)
           /\ status[o] = "live" <=> count[o] > 0
           /\ status[o] = "dying" <=> Dead(o)
           /\ count[o] \in Nat
  BY DEF Sound, Typed, Shapes, status, Dead

LEMMA StatusKept ==
    ASSUME \A o \in Object : (Free(o)' <=> Free(o)) /\ (count'[o] = 0 <=> count[o] = 0)
    PROVE  status' = status
  BY DEF status, Dead

LEMMA StatusBecomes ==
    ASSUME NEW o \in Object,
           \A p \in Object \ {o} : (Free(p)' <=> Free(p)) /\ (count'[p] = 0 <=> count[p] = 0)
    PROVE  Becomes(o, IF Free(o)' THEN "free" ELSE IF count'[o] = 0 THEN "dying" ELSE "live")
  <1>1. \A p \in Object \ {o} : status'[p] = status[p]
    BY DEF status, Dead
  <1>2. status'[o] = IF Free(o)' THEN "free" ELSE IF count'[o] = 0 THEN "dying" ELSE "live"
    BY DEF status, Dead
  <1>3. DOMAIN status = Object /\ DOMAIN status' = Object
        /\ status' = [p \in Object |-> status'[p]] /\ status = [p \in Object |-> status[p]]
    BY DEF status
  <1> HIDE DEF status
  <1> QED
    BY <1>1, <1>2, <1>3 DEF Becomes

(* Generated code names values that are alive. *)
LEMMA OperandsAreHeld ==
    ASSUME Sound, Idle, NEW v \in Operand
    PROVE  v \in Literal \/ (v \in Object \cup Literal /\ \E s \in Slot : held[s] = v)
  <1>1. visit = NoVisit
    BY DEF Sound, Calls, Idle, Settled
  <1>2. ASSUME NEW u \in HeldByProgram
        PROVE  u \in Value /\ \E s \in Slot : held[s] = u
    <2>1. CASE \E r \in Register : u = reg[r]
      BY <2>1, Forms, SlotForms DEF HeldForms, Sound, Typed, Slot
    <2>2. ASSUME NEW d \in 1..Top, u \in Range(frames[d].locals) PROVE u \in Value /\ \E s \in Slot : held[s] = u
      <3>1. frames[d].locals \in Seq(Value) /\ d \in 1..MaxFrames /\ Len(frames[d].locals) <= MaxLocals
            /\ MaxLocals \in Nat /\ Len(frames[d].locals) \in Nat /\ d <= Top
        BY FrameFacts
      <3>2. PICK i \in 1..Len(frames[d].locals) : u = frames[d].locals[i]
        BY <2>2, <3>1 DEF Range
      <3>3. i \in 1..MaxLocals /\ InFrame(d, i) = u
        BY <3>1, <3>2 DEF InFrame, At
      <3>4. LocalSlot(d, i) \in Slot /\ held[LocalSlot(d, i)] = u
        BY <3>1, <3>3, Forms, SlotForms DEF HeldForms, Slot
      <3> QED
        BY <3>1, <3>2, <3>4
    <2>3. ASSUME NEW d \in 1..Top, u \in ToSet(frames[d].temps) PROVE u \in Value /\ \E s \in Slot : held[s] = u
      <3>1. frames[d].temps \in Seq(Value) /\ d \in 1..MaxFrames /\ Len(frames[d].temps) <= MaxTemps
            /\ MaxTemps \in Nat /\ Len(frames[d].temps) \in Nat /\ d <= Top
        BY FrameFacts
      <3>2. PICK i \in 1..Len(frames[d].temps) : u = frames[d].temps[i]
        BY <2>3, <3>1 DEF ToSet
      <3>3. i \in 1..MaxTemps /\ TempIn(d, i) = u
        BY <3>1, <3>2 DEF TempIn, At
      <3>4. TempSlot(d, i) \in Slot /\ held[TempSlot(d, i)] = u
        BY <3>1, <3>3, Forms, SlotForms DEF HeldForms, Slot
      <3> QED
        BY <3>1, <3>2, <3>4
    <2> QED
      BY <1>2, <2>1, <2>2, <2>3 DEF HeldByProgram
  <1>3. ASSUME NEW o \in HeldByProgram, NEW u \in Elements(o)
        PROVE  u \in Value /\ \E s \in Slot : held[s] = u
    <2>1. o \in Object /\ u \in ToSet(fields[o])
      BY <1>3 DEF Elements, Mortal
    <2>2. /\ DOMAIN fields[o] = 1..Len(fields[o])
          /\ \A i \in 1..Len(fields[o]) : i \in Index /\ fields[o][i] \in Value
      BY <2>1, FieldFacts
    <2>3. PICK i \in 1..Len(fields[o]) : u = fields[o][i]
      BY <2>1, <2>2 DEF ToSet
    <2>4. Unvisited(o, i) = u
      BY <1>1, <2>1, <2>2, <2>3, VisitFacts DEF Unvisited, At
    <2>5. FieldSlot(o, i) \in Slot /\ held[FieldSlot(o, i)] = u
      BY <2>1, <2>2, <2>4, Forms, SlotForms DEF HeldForms
    <2> QED
      BY <2>2, <2>3, <2>5
  <1> QED
    BY <1>2, <1>3, EagerAssumption DEF Operand, Value

LEMMA OperandsAreLive ==
    ASSUME Sound, CountExact, Idle, NEW v \in Operand
    PROVE  /\ v \in Object \cup Literal
           /\ v \in Object => count[v] > 0 /\ ~Free(v) /\ ~Dead(v) /\ visit = NoVisit
  <1>1. v \in Object \cup Literal /\ (v \in Object => count[v] > 0)
    BY OperandsAreHeld, HolderFacts, EagerAssumption
  <1>2. visit = NoVisit
    BY DEF Sound, Calls, Idle, Settled
  <1> QED
    BY <1>1, <1>2, QueueFacts
-----------------------------------------------------------------------------
(* Every action takes one of the forms. *)
LEMMA LeafHolds ==
    ASSUME Sound, NEW o \in Object, count[o] > 0, Leaf(o)
    PROVE  \A i \in Index \ {1} : held[FieldSlot(o, i)] = None
  <1>1. \A i : ~Visited(o, i)
    BY QueueFacts DEF Visited
  <1>2. Len(fields[o]) \in {0, 1}
    <2>1. CASE kind[o] = "TEXT"
      BY <2>1 DEF Sound, Shapes
    <2>2. CASE kind[o] # "TEXT"
      <3>1. kind[o] \in {"LIST", "SCALAR_RECORD"}
        BY <2>2 DEF Leaf
      <3>2. fields[o] = <<>>
        BY <3>1 DEF Sound, Shapes
      <3> QED
        BY <3>2, EmptySeq
    <2> QED
      BY <2>1, <2>2
  <1>3. \A i \in Index \ {1} : At(fields[o], i) = None
    BY <1>2, FieldFacts, SequenceAt DEF Index
  <1> QED
    BY <1>1, <1>3, Forms DEF HeldForms, Unvisited

LEMMA RcDropForm ==
    ASSUME Sound, CountExact, RcDrop
    PROVE  StepForms
  <1> DEFINE v == falling
  <1>1. v \in Object \cup Literal /\ count \in [Object -> Nat] /\ kind \in [Object -> AllKinds]
    BY RcDropHeld DEF Sound, Typed
  <1>2. v \in Object => count[v] > 0
    <2>1. FallingSlot \in Slot /\ held[FallingSlot] = falling
      BY Forms, SlotForms DEF HeldForms, Slot
    <2> QED
      BY <2>1, HolderFacts
  <1>3. ~LeafDies => Lost(FallingSlot)
    BY RcDropHeld DEF Lost
  <1>4. CASE v \notin Object
    <2>1. count' = count /\ kind' = kind /\ ~LeafDies
      BY <1>4 DEF RcDrop, Counted, Mortal, heapVars, LeafDies
    <2>2. status' = status
      BY <2>1, StatusKept DEF Free
    <2> QED
      BY <1>1, <1>3, <1>4, <2>1, <2>2 DEF StepForms, StepDrops
  <1>5. CASE v \in Object /\ count[v] > 1
    <2>1. count' = [count EXCEPT ![v] = @ - 1] /\ kind' = kind /\ ~LeafDies
      BY <1>1, <1>5 DEF RcDrop, Counted, Mortal, LastOwner, heapVars, LeafDies
    <2>2. CountBecomes(v, count[v] - 1)
      BY <2>1 DEF CountBecomes
    <2>3. status' = status
      BY <1>1, <1>5, <2>1, StatusKept DEF Free
    <2> QED
      BY <1>1, <1>3, <1>5, <2>1, <2>2, <2>3 DEF StepForms, StepDrops
  <1>6. CASE v \in Object /\ count[v] = 1 /\ Leaf(v)
    <2>1. LeafDies
      BY <1>6 DEF Counted, Mortal, LastOwner, LeafDies
    <2>2. kind' = [kind EXCEPT ![v] = "FREE"] /\ count' = [count EXCEPT ![v] = 0]
      BY <2>1, <1>6 DEF RcDrop, LeafDies
    <2>3. Becomes(v, "free")
      <3>1. \A p \in Object \ {v} : (Free(p)' <=> Free(p)) /\ (count'[p] = 0 <=> count[p] = 0)
        BY <1>1, <1>6, <2>2 DEF Free
      <3>2. kind'[v] = "FREE"
        BY <1>1, <1>6, <2>2
      <3>3. \A p \in Object : Free(p)' <=> kind'[p] = "FREE"
        BY DEF Free
      <3> SUFFICES ASSUME NEW o \in Object, o = v PROVE Becomes(o, "free")
        BY <1>6
      <3> QED
        BY <3>1, <3>2, <3>3, StatusBecomes
    <2>4. \A i \in Index \ {1} : held[FieldSlot(v, i)] = None
      BY <1>2, <1>6, LeafHolds
    <2>5. /\ held'[FallingSlot] = held[FieldSlot(v, 1)] /\ held'[FieldSlot(v, 1)] = None
          /\ \A r \in Slot \ {FallingSlot, FieldSlot(v, 1)} : held'[r] = held[r]
      BY <2>1, RcDropHeld
    <2> QED
      BY <1>6, <2>2, <2>3, <2>4, <2>5 DEF StepForms, StepUnwraps, CountBecomes
  <1>7. CASE v \in Object /\ count[v] = 1 /\ ~Leaf(v)
    <2>1. count' = [count EXCEPT ![v] = @ - 1] /\ kind' = kind /\ ~LeafDies
      BY <1>7 DEF RcDrop, Counted, Mortal, LastOwner, heapVars, LeafDies
    <2>2. CountBecomes(v, count[v] - 1) /\ count'[v] = 0
      BY <1>1, <1>7, <2>1 DEF CountBecomes
    <2>3. Becomes(v, "dying")
      <3>1. \A p \in Object \ {v} : (Free(p)' <=> Free(p)) /\ (count'[p] = 0 <=> count[p] = 0)
        BY <1>1, <1>7, <2>1 DEF Free
      <3>2. kind'[v] # "FREE"
        BY <1>7, <2>1 DEF Free, Sound, Shapes
      <3>3. \A p \in Object : Free(p)' <=> kind'[p] = "FREE"
        BY DEF Free
      <3> SUFFICES ASSUME NEW o \in Object, o = v PROVE Becomes(o, "dying")
        BY <1>7
      <3> QED
        BY <2>2, <3>1, <3>2, <3>3, StatusBecomes
    <2> QED
      BY <1>1, <1>3, <1>7, <2>1, <2>2, <2>3 DEF StepForms, StepDrops
  <1> QED
    BY <1>1, <1>2, <1>4, <1>5, <1>6, <1>7

LEMMA DestroyForm ==
    ASSUME Sound, CountExact, Destroy
    PROVE  StepForms
  <1>1. CASE PopPending
    <2>1. count' = count /\ kind' = kind
      BY <1>1 DEF PopPending, heapVars
    <2>2. status' = status
      BY <2>1, StatusKept DEF Free
    <2> QED
      BY <1>1, <2>1, <2>2, PopAndFreeHeld DEF StepForms, StepRearranges, Kept
  <1>2. CASE VisitField
    <2>1. count' = count /\ kind' = kind /\ falling = None
      BY <1>2 DEF VisitField, heapVars
    <2>2. status' = status
      BY <2>1, StatusKept DEF Free
    <2>3. PICK f \in Slot : /\ f \notin RootSlot
                            /\ held'[FallingSlot] = held[f] /\ held'[f] = None
                            /\ \A s \in Slot \ {FallingSlot, f} : held'[s] = held[s]
      BY <1>2, VisitFieldHeld
    <2>4. FallingSlot \in RootSlot /\ FallingSlot \in Slot /\ held[FallingSlot] = None
      BY <2>1, Forms, SlotForms DEF HeldForms, Slot
    <2>5. Moved(FallingSlot, f) /\ InLive(FallingSlot)
      BY <2>3, <2>4 DEF Moved, InLive
    <2> QED
      BY <2>1, <2>2, <2>4, <2>5 DEF StepForms, StepRearranges
  <1>3. CASE FreeVisited
    <2>1. PICK o \in Object : o = visit.of
      BY <1>3, VisitFacts DEF FreeVisited
    <2>2. count' = count /\ kind' = [kind EXCEPT ![o] = "FREE"] /\ visit.next > Len(fields[o])
      BY <1>3, <2>1 DEF FreeVisited
    <2>3. Dead(o) /\ status[o] = "dying"
      BY <2>1, QueueFacts, StatusFacts
    <2>4. Becomes(o, "free")
      <3>1. \A p \in Object \ {o} : kind'[p] = kind[p]
        BY <2>2 DEF Sound, Typed
      <3>2. kind'[o] = "FREE"
        BY <2>2 DEF Sound, Typed
      <3>3. \A p \in Object \ {o} : (Free(p)' <=> Free(p)) /\ (count'[p] = 0 <=> count[p] = 0)
        BY <2>2, <3>1 DEF Free
      <3>4. Free(o)'
        BY <3>2 DEF Free
      <3> QED
        BY <3>3, <3>4, StatusBecomes
    <2>5. GivesUp(o)
      <3>1. ASSUME NEW i \in Index PROVE Unvisited(o, i) = None
        BY <2>1, <2>2, FieldFacts, QueueFacts DEF Unvisited, Visited, At, Index
      <3> QED
        BY <2>1, <3>1, Forms, EagerAssumption DEF GivesUp, HeldForms, Mortal
    <2> QED
      BY <1>3, <2>2, <2>3, <2>4, <2>5, PopAndFreeHeld DEF StepForms, StepReclaims, Kept
  <1> QED
    BY <1>1, <1>2, <1>3, RcDropForm DEF Destroy

LEMMA MachineForm ==
    ASSUME Sound, CountExact, Machine
    PROVE  StepForms
  <1>1. /\ HandSlot \in RootSlot /\ FallingSlot \in RootSlot /\ RootSlot \subseteq Slot
        /\ held[HandSlot] = hand /\ held[FallingSlot] = falling /\ HandSlot # FallingSlot
    BY Forms, SlotForms, Differ DEF HeldForms, SlotsDiffer, Slot
  <1>2. kind' = kind /\ count' = count => status' = status
    BY StatusKept DEF Free
  <1>3. \A s \in RootSlot : InLive(s)
    BY DEF InLive
  <1>4. CASE StoreLocal
    <2>1. kind' = kind /\ count' = count
      BY <1>4 DEF StoreLocal, Stored
    <2>2. PICK l \in RootSlot :
             /\ l = LocalSlot(Top, call.index)
             /\ held[FallingSlot] = None /\ held'[l] = hand /\ held'[HandSlot] = None
             /\ held'[FallingSlot] = held[l]
             /\ \A s \in Slot \ {l, HandSlot, FallingSlot} : held'[s] = held[s]
      BY <1>4, StoreLocalHeld
    <2>3. l # HandSlot /\ l # FallingSlot
      BY <2>2, Differ DEF SlotsDiffer
    <2>4. Exchanged(l, HandSlot, FallingSlot)
      BY <1>1, <2>2, <2>3 DEF Exchanged
    <2> QED
      BY <1>1, <1>2, <1>3, <2>1, <2>4 DEF StepForms, StepRearranges
  <1>5. CASE StoreTemporary
    <2>1. kind' = kind /\ count' = count
      BY <1>5 DEF StoreTemporary, Stored
    <2>2. PICK t \in RootSlot : Moved(t, HandSlot)
      BY <1>1, <1>5, StoreTemporaryHeld DEF Moved
    <2> QED
      BY <1>1, <1>2, <1>3, <2>1, <2>2 DEF StepForms, StepRearranges
  <1>6. CASE StoreNewElement
    <2>1. kind' = kind /\ count' = count
      BY <1>6 DEF StoreNewElement, Stored
    <2>2. PICK o \in Object : o = call.of /\ count[o] > 0 /\ Len(fields[o]) < Width
      BY <1>6 DEF StoreNewElement, Sound, Calls
    <2>3. status[o] = "live" /\ Len(fields[o]) + 1 \in Index
      BY <2>2, StatusFacts, FieldFacts, EagerAssumption DEF Index
    <2>4. PICK f \in Slot : /\ f = FieldSlot(o, Len(fields[o]) + 1) /\ f # HandSlot
                            /\ held[f] = None /\ held'[f] = hand /\ held'[HandSlot] = None
                            /\ \A s \in Slot \ {f, HandSlot} : held'[s] = held[s]
      BY <1>6, <2>2, StoreNewElementHeld
    <2>5. Moved(f, HandSlot) /\ InLive(f)
      BY <1>1, <2>3, <2>4 DEF Moved, InLive
    <2> QED
      BY <1>1, <1>2, <2>1, <2>5 DEF StepForms, StepRearranges
  <1>7. CASE StoreField
    <2>1. kind' = kind /\ count' = count
      BY <1>7 DEF StoreField, Stored
    <2>2. PICK o \in Object : o = call.of /\ count[o] > 0 /\ call.index \in 1..Len(fields[o])
      BY <1>7 DEF StoreField, Sound, Calls
    <2>3. status[o] = "live" /\ call.index \in Index
      BY <2>2, StatusFacts, FieldFacts
    <2>4. PICK f \in Slot : /\ f = FieldSlot(o, call.index) /\ f \notin RootSlot
                            /\ held[FallingSlot] = None /\ held'[f] = hand
                            /\ held'[HandSlot] = None /\ held'[FallingSlot] = held[f]
                            /\ \A s \in Slot \ {f, HandSlot, FallingSlot} : held'[s] = held[s]
      BY <1>7, <2>2, StoreFieldHeld
    <2>5. Exchanged(f, HandSlot, FallingSlot) /\ InLive(f)
      BY <1>1, <2>3, <2>4 DEF Exchanged, InLive
    <2> QED
      BY <1>1, <1>2, <2>1, <2>5 DEF StepForms, StepRearranges
  <1>8. CASE RetainRoot
    <2>1. PICK v \in Object \cup Literal : v = call.root /\ (v \in Object => count[v] > 0)
      BY <1>8 DEF RetainRoot, Sound, Calls
    <2>2. /\ hand = None /\ hand' = v /\ kind' = kind
          /\ UNCHANGED <<fields, frames, reg, falling, visit>>
          /\ v \in Object => CountBecomes(v, count[v] + 1)
          /\ v \notin Object => count' = count
      BY <1>8, <2>1 DEF RetainRoot, Sound, Calls, Stores, Doing, Mortal, CountBecomes
    <2>3. Gained(HandSlot, v)
      BY <1>1, <2>2, HandHeld DEF Gained
    <2>4. v \in Object => status[v] = "live"
      BY <2>1, StatusFacts
    <2>5. status' = status
      BY <2>1, <2>2, StatusKept DEF Free, CountBecomes, Sound, Typed
    <2> QED
      BY <1>1, <2>2, <2>3, <2>4, <2>5 DEF StepForms, StepShares
  <1>9. CASE ReleaseTemporary
    <2>1. kind' = kind /\ count' = count
      BY <1>9 DEF ReleaseTemporary, heapVars
    <2>2. PICK t \in RootSlot : Moved(FallingSlot, t)
      BY <1>9, ReleaseTemporaryHeld DEF Moved
    <2> QED
      BY <1>1, <1>2, <1>3, <2>1, <2>2 DEF StepForms, StepRearranges
  <1>10. CASE ReleaseLocal
    <2>1. kind' = kind /\ count' = count
      BY <1>10 DEF ReleaseLocal, heapVars
    <2>2. PICK t \in RootSlot : Moved(FallingSlot, t)
      BY <1>10, ReleaseLocalHeld DEF Moved
    <2> QED
      BY <1>1, <1>2, <1>3, <2>1, <2>2 DEF StepForms, StepRearranges
  <1>11. CASE PopFrame \/ Return
    <2>1. kind' = kind /\ count' = count
      BY <1>11 DEF PopFrame, Return, heapVars
    <2> QED
      BY <1>2, <1>11, <2>1, PopFrameHeld, QuietHeld DEF StepForms, StepRearranges, Kept
  <1> QED
    BY <1>4, <1>5, <1>6, <1>7, <1>8, <1>9, <1>10, <1>11, DestroyForm DEF Machine

LEMMA AllocateForm ==
    ASSUME Sound, NEW r \in Register, NEW o \in Object, NEW k \in AllKinds \ {"FREE"},
           NEW n \in Nat, NEW next, Allocate(r, o, k, n, next)
    PROVE  StepForms
  <1>1. RegSlot(r) \in RootSlot /\ Gained(RegSlot(r), o)
    BY AllocateHeld, SlotForms DEF Gained
  <1>2. /\ Free(o) /\ kind' = [kind EXCEPT ![o] = k] /\ count' = [count EXCEPT ![o] = 1]
        /\ kind \in [Object -> AllKinds] /\ count \in [Object -> Nat]
    BY DEF Allocate, Sound, Typed
  <1>3. status[o] = "free" /\ count[o] = 0
    BY <1>2, StatusFacts DEF Sound, Shapes
  <1>4. Becomes(o, "live")
    <2>1. \A p \in Object \ {o} : (Free(p)' <=> Free(p)) /\ (count'[p] = 0 <=> count[p] = 0)
      BY <1>2 DEF Free
    <2>2. ~Free(o)' /\ count'[o] # 0
      BY <1>2 DEF Free
    <2> QED
      BY <2>1, <2>2, StatusBecomes
  <1> QED
    BY <1>1, <1>2, <1>3, <1>4 DEF StepForms, StepAllocates, CountBecomes

(* A second reference to a value that is alive. *)
LEMMA ShareForm ==
    ASSUME Sound, CountExact, Idle, NEW s \in RootSlot, NEW v \in Operand, Gained(s, v),
           kind' = kind,
           count' = IF Mortal(v) THEN [count EXCEPT ![v] = @ + 1] ELSE count
    PROVE  StepForms
  <1>1. v \in Object \cup Literal /\ (v \in Object => count[v] > 0 /\ status[v] = "live")
    BY OperandsAreLive, StatusFacts
  <1>2. /\ v \in Object => CountBecomes(v, count[v] + 1)
        /\ v \notin Object => count' = count
    BY DEF CountBecomes, Mortal
  <1>3. status' = status
    BY <1>1, <1>2, StatusKept DEF Free, CountBecomes, Sound, Typed
  <1> QED
    BY <1>1, <1>2, <1>3 DEF StepForms, StepShares

LEMMA AcquireOrTakeForm ==
    ASSUME Sound, CountExact, NEW v \in Operand, NEW next, AcquireOrTake(v, next)
    PROVE  StepForms
  <1>1. /\ HandSlot \in RootSlot /\ RootSlot \subseteq Slot
        /\ \A r \in Register : RegSlot(r) \in Slot /\ RegSlot(r) # HandSlot
    BY SlotForms, Differ DEF SlotsDiffer, Slot
  <1>2. CASE Acquire(v, next)
    <2>1. /\ hand = None /\ hand' = v /\ kind' = kind /\ Idle
          /\ UNCHANGED <<fields, frames, reg, falling, visit>>
          /\ count' = IF Mortal(v) THEN [count EXCEPT ![v] = @ + 1] ELSE count
      BY <1>2 DEF Acquire, Idle, Sound, Calls, Stores
    <2>2. Gained(HandSlot, v)
      BY <2>1, HandHeld DEF Gained
    <2> QED
      BY <1>1, <2>1, <2>2, ShareForm
  <1>3. ASSUME NEW r \in Register, Take(r, next) PROVE StepForms
    <2>1. count' = count /\ status' = status
      BY <1>3, StatusKept DEF Take, Free, heapVars
    <2>2. Moved(HandSlot, RegSlot(r)) /\ InLive(HandSlot)
      BY <1>1, <1>3, TakeHeld DEF Moved, InLive
    <2> QED
      BY <1>1, <2>1, <2>2 DEF StepForms, StepRearranges
  <1> QED
    BY <1>2, <1>3 DEF AcquireOrTake

LEMMA ProgramForm ==
    ASSUME Sound, CountExact, Program
    PROVE  StepForms
  <1>1. RootSlot \subseteq Slot /\ (\A s \in RootSlot : InLive(s))
        /\ \A r \in Register : RegSlot(r) \in RootSlot /\ RegSlot(r) # FallingSlot
    BY SlotForms, Differ DEF SlotsDiffer, Slot, InLive
  <1>2. kind' = kind /\ count' = count => status' = status
    BY StatusKept DEF Free
  <1>3. ASSUME New \/ Slice PROVE StepForms
    <2>1. PICK r \in Register, o \in Object, k \in AllKinds \ {"FREE"}, n \in Nat, next \in {call'} :
             Allocate(r, o, k, n, next)
      <3>1. CASE New
        <4>1. PICK r \in Register, o \in Object :
                 \/ \E k \in Kinds \cap {"LIST", "SCALAR_RECORD"} : Allocate(r, o, k, 0, Done)
                 \/ Allocate(r, o, "TEXT", 1, Done)
                 \/ \E n \in 0..Width : Allocate(r, o, "RECORD", n, Done)
          BY <3>1 DEF New
        <4>2. \A k, n, next : Allocate(r, o, k, n, next) => next = call'
          BY DEF Allocate
        <4>3. 0..Width \subseteq Nat /\ {"LIST", "SCALAR_RECORD", "TEXT", "RECORD"} \subseteq AllKinds \ {"FREE"}
          BY EagerAssumption DEF AllKinds
        <4> HIDE DEF Done
        <4> QED
          BY <4>1, <4>2, <4>3
      <3>2. CASE Slice
        <4>1. PICK r \in Register, o \in Object, t \in Operand :
                 Allocate(r, o, "TEXT", 1, [op |-> "view", of |-> o, root |-> TextRoot(t)])
          BY <3>2 DEF Slice
        <4>2. \A k, n, next : Allocate(r, o, k, n, next) => next = call'
          BY DEF Allocate
        <4>3. "TEXT" \in AllKinds \ {"FREE"}
          BY DEF AllKinds
        <4> QED
          BY <4>1, <4>2, <4>3
      <3> QED
        BY <1>3, <3>1, <3>2
    <2> QED
      BY <2>1, AllocateForm
  <1>4. CASE ListReferences
    <2>1. PICK l \in Operand :
             Idle /\ l \in Object /\ count' = count /\ kind' = [kind EXCEPT ![l] = "REFERENCES"]
      BY <1>4 DEF ListReferences, Mortal, ReferencesKind
    <2>2. ~Free(l) /\ kind \in [Object -> AllKinds]
      BY <2>1, OperandsAreLive DEF Sound, Typed
    <2>3. \A p \in Object : Free(p)' <=> Free(p)
      BY <2>1, <2>2 DEF Free
    <2>4. status' = status
      BY <2>1, <2>3, StatusKept
    <2> QED
      BY <1>4, <2>1, <2>4, QuietHeld DEF StepForms, StepRearranges, Kept
  <1>5. CASE RetainResult
    <2>1. PICK r \in Register, v \in Operand :
             /\ Idle /\ reg[r] = None /\ reg' = [reg EXCEPT ![r] = v] /\ kind' = kind
             /\ count' = IF Mortal(v) THEN [count EXCEPT ![v] = @ + 1] ELSE count
             /\ UNCHANGED <<fields, frames, hand, falling, visit>>
      BY <1>5 DEF RetainResult
    <2>2. Gained(RegSlot(r), v)
      BY <2>1, RetainResultHeld DEF Gained
    <2> QED
      BY <1>1, <2>1, <2>2, ShareForm
  <1>6. CASE Local \/ Keep \/ ListAdd \/ ListSet
    <2>1. PICK v \in Operand, next \in {call'} : AcquireOrTake(v, next)
      <3>1. \A v, next : AcquireOrTake(v, next) => next = call'
        BY DEF AcquireOrTake, Acquire, Take
      <3> QED
        BY <1>6, <3>1 DEF Local, Keep, ListAdd, ListSet
    <2> QED
      BY <2>1, AcquireOrTakeForm
  <1>7. CASE RecordSet
    <2>1. PICK v \in Operand, next \in {call'} : AcquireOrTake(v, next)
      <3>1. \A v, next : AcquireOrTake(v, next) => next = call'
        BY DEF AcquireOrTake, Acquire, Take
      <3> QED
        BY <1>7, <3>1 DEF RecordSet
    <2> QED
      BY <2>1, AcquireOrTakeForm
  <1>8. CASE LocalMove
    <2>1. PICK r \in Register, l \in RootSlot : Moved(RegSlot(r), l)
      BY <1>8, LocalMoveHeld DEF Moved
    <2>2. count' = count /\ kind' = kind
      BY <1>8 DEF LocalMove, heapVars
    <2> QED
      BY <1>1, <1>2, <2>1, <2>2 DEF StepForms, StepRearranges
  <1>9. CASE ReleaseResult
    <2>1. PICK r \in Register :
             /\ reg' = [reg EXCEPT ![r] = None] /\ falling' = reg[r] /\ Idle
             /\ UNCHANGED <<heapVars, frames, hand, visit>>
      BY <1>9 DEF ReleaseResult
    <2>2. falling = None /\ UNCHANGED <<fields, frames, hand, visit>> /\ count' = count /\ kind' = kind
      BY <2>1 DEF Idle, Sound, Calls, Settled, heapVars
    <2>3. Moved(FallingSlot, RegSlot(r)) /\ FallingSlot \in RootSlot
      BY <1>1, <2>1, <2>2, ReleaseResultHeld, SlotForms DEF Moved
    <2> QED
      BY <1>1, <1>2, <2>2, <2>3 DEF StepForms, StepRearranges
  <1>10. CASE Enter \/ StepOrLeave
    <2>1. count' = count /\ kind' = kind
      BY <1>10 DEF Enter, StepOrLeave, heapVars
    <2> QED
      BY <1>2, <1>10, <2>1, EnterHeld, QuietHeld DEF StepForms, StepRearranges, Kept
  <1> QED
    BY <1>3, <1>4, <1>5, <1>6, <1>7, <1>8, <1>9, <1>10 DEF Program
-----------------------------------------------------------------------------
(***************************************************************************)
(* The contract's edges are what slots hold of mortal values, and each     *)
(* form of a step is one of its actions, or changes nothing it sees.       *)
(***************************************************************************)
Edges ==
    /\ DOMAIN edge = Slot
    /\ \A s \in Slot : edge[s] = IF held[s] \in Object THEN held[s] ELSE None
    /\ edge = [s \in Slot |-> edge[s]]

LEMMA EdgeFacts == Edges
  BY DEF Edges, edge, held, Mortal

LEMMA EdgeNext == Edges'
  BY EdgeFacts, PTL

LEMMA WritableFacts ==
    ASSUME NEW s \in Slot, InLive(s)
    PROVE  Contract!Writable(s)
  <1>1. CASE s \in RootSlot
    BY <1>1, ContractAssumption DEF Contract!OwnershipAssumption, Contract!Writable, Contract!Field
  <1>2. CASE \E o \in Object, i \in Index : s = FieldSlot(o, i) /\ status[o] = "live"
    BY <1>2 DEF Contract!Writable, Contract!Field, FieldSlot
  <1> QED
    BY <1>1, <1>2 DEF InLive

LEMMA MovedMaps ==
    ASSUME NEW s \in Slot, NEW t \in Slot, InLive(s), Moved(s, t), status' = status
    PROVE  [Contract!Next]_(Contract!vars)
  <1>1. /\ s # t /\ edge[s] = None /\ edge'[s] = edge[t] /\ edge'[t] = None
        /\ \A r \in Slot \ {s, t} : edge'[r] = edge[r]
    BY EdgeFacts, EdgeNext, EagerAssumption DEF Edges, Moved
  <1>2. CASE edge[t] = None
    <2>1. edge' = edge
      BY <1>1, <1>2, EdgeFacts, EdgeNext DEF Edges
    <2> QED
      BY <2>1 DEF Contract!vars
  <1>3. CASE edge[t] # None
    <2>1. edge' = [edge EXCEPT ![s] = edge[t], ![t] = None]
      BY <1>1, EdgeFacts, EdgeNext DEF Edges
    <2>2. t \in Contract!Emptied /\ s \in Contract!Empty
      BY <1>1, <1>3 DEF Contract!Emptied, Contract!Empty, Contract!Full, Contract!Slot, Contract!Field, Slot
    <2>3. Contract!Move(s, t)
      BY <2>1, WritableFacts DEF Contract!Move
    <2> QED
      BY <2>2, <2>3 DEF Contract!Next
  <1> QED
    BY <1>2, <1>3

LEMMA ExchangedMaps ==
    ASSUME NEW s \in Slot, NEW t \in Slot, NEW u \in RootSlot, InLive(s),
           Exchanged(s, t, u), status' = status
    PROVE  [Contract!Next]_(Contract!vars)
  <1>1. u \in Slot /\ InLive(u)
    BY DEF Slot, InLive
  <1>2. /\ s # t /\ s # u /\ t # u
        /\ edge[u] = None /\ edge'[s] = edge[t] /\ edge'[t] = None /\ edge'[u] = edge[s]
        /\ \A r \in Slot \ {s, t, u} : edge'[r] = edge[r]
    BY <1>1, EdgeFacts, EdgeNext, EagerAssumption DEF Edges, Exchanged
  <1>3. \A r \in Slot : /\ edge[r] # None <=> r \in Contract!Full
                        /\ edge[r] = None <=> r \in Contract!Empty
                        /\ edge[r] # None /\ edge'[r] = None => r \in Contract!Emptied
    BY DEF Contract!Emptied, Contract!Empty, Contract!Full, Contract!Slot, Contract!Field, Slot
  <1>4. CASE edge[s] # None /\ edge[t] # None
    <2>1. edge' = [edge EXCEPT ![s] = edge[t], ![t] = None, ![u] = edge[s]]
      BY <1>1, <1>2, EdgeFacts, EdgeNext DEF Edges
    <2>2. t \in Contract!Emptied /\ s \in Contract!Full /\ u \in Contract!Empty
      BY <1>1, <1>2, <1>3, <1>4
    <2>3. Contract!Exchange(s, t, u)
      BY <1>2, <2>1, WritableFacts DEF Contract!Exchange
    <2> QED
      BY <2>2, <2>3 DEF Contract!Next
  <1>5. CASE edge[s] = None /\ edge[t] # None
    <2>1. edge' = [edge EXCEPT ![s] = edge[t], ![t] = None]
      BY <1>1, <1>2, <1>5, EdgeFacts, EdgeNext DEF Edges
    <2>2. t \in Contract!Emptied /\ s \in Contract!Empty
      BY <1>2, <1>3, <1>5
    <2>3. Contract!Move(s, t)
      BY <2>1, WritableFacts DEF Contract!Move
    <2> QED
      BY <2>2, <2>3 DEF Contract!Next
  <1>6. CASE edge[s] # None /\ edge[t] = None
    <2>1. edge' = [edge EXCEPT ![u] = edge[s], ![s] = None]
      BY <1>1, <1>2, <1>6, EdgeFacts, EdgeNext DEF Edges
    <2>2. s \in Contract!Emptied /\ u \in Contract!Empty
      BY <1>1, <1>2, <1>3, <1>6
    <2>3. Contract!Move(u, s)
      BY <1>1, <2>1, WritableFacts DEF Contract!Move
    <2> QED
      BY <2>2, <2>3 DEF Contract!Next
  <1>7. CASE edge[s] = None /\ edge[t] = None
    <2>1. edge' = edge
      BY <1>1, <1>2, <1>7, EdgeFacts, EdgeNext DEF Edges
    <2> QED
      BY <2>1 DEF Contract!vars
  <1> QED
    BY <1>4, <1>5, <1>6, <1>7

LEMMA StepMaps ==
    ASSUME Sound, CountExact, StepForms
    PROVE  [Contract!Next]_(Contract!vars)
  <1>1. RootSlot \subseteq Slot /\ FallingSlot \in Slot /\ held[FallingSlot] = falling
    BY Forms, SlotForms DEF HeldForms, Slot
  <1>2. Kept => edge' = edge
    BY EdgeFacts, EdgeNext DEF Edges, Kept
  <1>3. \A s \in Slot : s \in Contract!Full <=> edge[s] # None
    BY DEF Contract!Full, Contract!Slot, Contract!Field, Slot
  <1>4. \A s \in Slot : s \in Contract!Empty <=> edge[s] = None
    BY DEF Contract!Empty, Contract!Full, Contract!Slot, Contract!Field, Slot
  <1>5. CASE StepRearranges
    BY <1>1, <1>2, <1>5, MovedMaps, ExchangedMaps DEF StepRearranges, Contract!vars
  <1>6. CASE StepAllocates
    <2>1. PICK s \in RootSlot, o \in Object :
             Gained(s, o) /\ status[o] = "free" /\ Becomes(o, "live")
      BY <1>6 DEF StepAllocates
    <2>2. edge' = [edge EXCEPT ![s] = o] /\ edge[s] = None
      BY <1>1, <2>1, EdgeFacts, EdgeNext, EagerAssumption DEF Edges, Gained
    <2>3. Contract!Allocate(o, s)
      BY <2>1, <2>2 DEF Contract!Allocate, Becomes
    <2> QED
      BY <1>1, <1>4, <2>2, <2>3 DEF Contract!Next
  <1>7. CASE StepShares
    <2>1. PICK s \in RootSlot, v \in Object \cup Literal :
             Gained(s, v) /\ status' = status /\ (v \in Object => status[v] = "live")
      BY <1>7 DEF StepShares
    <2>2. CASE v \in Object
      <3>1. edge' = [edge EXCEPT ![s] = v] /\ edge[s] = None
        BY <1>1, <2>1, <2>2, EdgeFacts, EdgeNext, EagerAssumption DEF Edges, Gained
      <3>2. Contract!Share(s, v)
        BY <2>1, <2>2, <3>1 DEF Contract!Share
      <3> QED
        BY <1>1, <1>4, <2>2, <3>1, <3>2 DEF Contract!Next
    <2>3. CASE v \notin Object
      <3>1. edge' = edge
        BY <1>1, <2>1, <2>3, EdgeFacts, EdgeNext, EagerAssumption DEF Edges, Gained
      <3> QED
        BY <2>1, <3>1 DEF Contract!vars
    <2> QED
      BY <2>2, <2>3
  <1>8. CASE StepDrops
    <2>1. Lost(FallingSlot) /\ falling \in Object \cup Literal
      BY <1>8 DEF StepDrops
    <2>2. CASE falling \in Object
      <3>1. edge[FallingSlot] = falling /\ falling # None /\ edge'[FallingSlot] = None
            /\ edge' = [edge EXCEPT ![FallingSlot] = None]
        BY <1>1, <2>1, <2>2, EdgeFacts, EdgeNext, EagerAssumption DEF Edges, Lost
      <3>2. FallingSlot \in Contract!Emptied
        BY <1>1, <1>3, <3>1 DEF Contract!Emptied
      <3>3. Contract!Drop(FallingSlot)
        <4>1. CASE count[falling] > 1
          <5>1. PICK t \in Slot \ {FallingSlot} : held[t] = falling
            BY <1>1, <2>2, <4>1, HolderFacts
          <5>2. Contract!OwnedElsewhere(edge[FallingSlot], FallingSlot)
            BY <2>2, <3>1, <5>1, EdgeFacts DEF Contract!OwnedElsewhere, Contract!Slot, Contract!Field, Slot, Edges
          <5> QED
            BY <1>8, <2>2, <3>1, <4>1, <5>2 DEF StepDrops, Contract!Drop
        <4>2. CASE count[falling] = 1
          <5>1. ~Contract!OwnedElsewhere(edge[FallingSlot], FallingSlot)
            <6>1. \A t \in Slot \ {FallingSlot} : held[t] # falling
              BY <1>1, <2>2, <4>2, HolderFacts
            <6>2. \A t \in Slot \ {FallingSlot} : edge[t] # falling
              BY <3>1, <6>1, EdgeFacts DEF Edges
            <6> QED
              BY <3>1, <6>2 DEF Contract!OwnedElsewhere, Contract!Slot, Contract!Field, Slot
          <5>2. GivesUp(falling) => Contract!HoldsNothing(falling)
            <6>1. \A i \in Index : FieldSlot(falling, i) \in Slot
              BY <2>2, SlotForms
            <6> QED
              BY <6>1, EdgeFacts DEF GivesUp, Contract!HoldsNothing, FieldSlot, Edges, Mortal
          <5>3. \E fate \in {"free", "dying"} :
                   (fate = "free" => Contract!HoldsNothing(falling)) /\ Becomes(falling, fate)
            BY <1>8, <2>2, <4>2, <5>2 DEF StepDrops
          <5> QED
            BY <3>1, <5>1, <5>3 DEF Contract!Drop, Becomes
        <4> QED
          BY <1>8, <2>2, <4>1, <4>2 DEF StepDrops, Sound, Typed
      <3> QED
        BY <3>2, <3>3 DEF Contract!Next
    <2>3. CASE falling \notin Object
      <3>1. edge' = edge
        BY <1>1, <2>1, <2>3, EdgeFacts, EdgeNext, EagerAssumption DEF Edges, Lost
      <3> QED
        BY <1>8, <2>3, <3>1 DEF StepDrops, Contract!vars
    <2> QED
      BY <2>2, <2>3
  <1>9. CASE StepUnwraps
    <2>1. /\ falling \in Object /\ count[falling] = 1 /\ Becomes(falling, "free")
          /\ held'[FallingSlot] = held[FieldSlot(falling, 1)]
          /\ held'[FieldSlot(falling, 1)] = None
          /\ \A r \in Slot \ {FallingSlot, FieldSlot(falling, 1)} : held'[r] = held[r]
          /\ \A i \in Index \ {1} : held[FieldSlot(falling, i)] = None
      BY <1>9 DEF StepUnwraps
    <2>2. /\ 1 \in Index /\ FallingSlot # FieldSlot(falling, 1)
          /\ \A i \in Index : FieldSlot(falling, i) \in Slot
      BY <2>1, SlotForms, EagerAssumption DEF Index
    <2>3. /\ edge[FallingSlot] = falling /\ falling # None
          /\ edge' = [edge EXCEPT ![FallingSlot] = edge[FieldSlot(falling, 1)],
                                  ![FieldSlot(falling, 1)] = None]
      BY <1>1, <2>1, <2>2, EdgeFacts, EdgeNext, EagerAssumption DEF Edges
    <2>4. ~Contract!OwnedElsewhere(edge[FallingSlot], FallingSlot)
      <3>1. \A t \in Slot \ {FallingSlot} : held[t] # falling
        BY <1>1, <2>1, HolderFacts
      <3>2. \A t \in Slot \ {FallingSlot} : edge[t] # falling
        BY <2>3, <3>1, EdgeFacts DEF Edges
      <3> QED
        BY <2>3, <3>2 DEF Contract!OwnedElsewhere, Contract!Slot, Contract!Field, Slot
    <2>5. \A i \in Index \ {1} : edge[FieldSlot(falling, i)] = None
      BY <2>1, <2>2, EdgeFacts, EagerAssumption DEF Edges
    <2>6. Contract!Unwrap(FallingSlot, 1)
      BY <2>1, <2>2, <2>3, <2>4, <2>5 DEF Contract!Unwrap, FieldSlot, Becomes
    <2> QED
      BY <1>1, <1>3, <2>2, <2>3, <2>6 DEF Contract!Next
  <1>10. CASE StepReclaims
    <2>1. PICK o \in Object : Kept /\ status[o] = "dying" /\ GivesUp(o) /\ Becomes(o, "free")
      BY <1>10 DEF StepReclaims
    <2>2. Contract!HoldsNothing(o)
      <3>1. \A i \in Index : FieldSlot(o, i) \in Slot
        BY SlotForms
      <3> QED
        BY <2>1, <3>1, EdgeFacts DEF GivesUp, Contract!HoldsNothing, FieldSlot, Edges, Mortal
    <2>3. Contract!Reclaim(o)
      BY <1>2, <2>1, <2>2 DEF Contract!Reclaim, Becomes
    <2> QED
      BY <2>3 DEF Contract!Next
  <1> QED
    BY <1>5, <1>6, <1>7, <1>8, <1>9, <1>10 DEF StepForms
-----------------------------------------------------------------------------
(***************************************************************************)
(* What values, frames, queue and calls look like is kept.                 *)
(***************************************************************************)
HeapSound ==
    /\ kind \in [Object -> AllKinds]
    /\ count \in [Object -> Nat]
    /\ fields \in [Object -> Seq(Value)]
    /\ \A o \in Object : Len(fields[o]) <= Width
    /\ Shapes /\ Views

LEMMA HeapIsSound ==
    ASSUME Sound
    PROVE  HeapSound
  BY DEF HeapSound, Sound, Typed, WithinSlots

(* A view's root has a holder. *)
LEMMA RootFacts ==
    ASSUME Sound, CountExact, NEW t \in Object, kind[t] = "TEXT", fields[t][1] \in Object
    PROVE  /\ kind[fields[t][1]] = "TEXT" /\ fields[fields[t][1]][1] = None
           /\ count[fields[t][1]] > 0
           /\ falling = fields[t][1] => count[falling] > 1
  <1>1. PICK r \in Object : r = fields[t][1]
    OBVIOUS
  <1>2. kind[r] = "TEXT" /\ fields[r][1] = None
    BY <1>1 DEF Sound, Views, IsRoot
  <1>3. ~Visited(t, 1)
    <2>1. ~Dead(t)
      BY DEF Sound, Queued, Leaf
    <2> QED
      BY <2>1, QueueFacts DEF Visited
  <1>4. 1 \in Index /\ Len(fields[t]) = 1 /\ fields[t] \in Seq(Value)
    BY FieldFacts, EagerAssumption DEF Index, Sound, Shapes
  <1>5. Unvisited(t, 1) = r
    BY <1>1, <1>3, <1>4 DEF Unvisited, At
  <1>6. /\ FieldSlot(t, 1) \in Slot /\ held[FieldSlot(t, 1)] = r
        /\ FallingSlot \in Slot /\ held[FallingSlot] = falling /\ FallingSlot # FieldSlot(t, 1)
    BY <1>4, <1>5, Forms, SlotForms DEF HeldForms, Slot
  <1>7. count[r] > 0 /\ (falling = r => count[r] > 1)
    BY <1>6, HolderFacts
  <1> QED
    BY <1>1, <1>2, <1>7

LEMMA KindsKept ==
    ASSUME Sound, UNCHANGED <<kind, fields>>, count' \in [Object -> Nat],
           \A o \in Object : Free(o) => count'[o] = 0
    PROVE  HeapSound'
  BY HeapIsSound DEF HeapSound, Shapes, Views, IsRoot, Free

(* A value that no view is on is freed. *)
LEMMA FreedSound ==
    ASSUME Sound, NEW o \in Object, BacksNone(o),
           kind' = [kind EXCEPT ![o] = "FREE"],
           fields' = [fields EXCEPT ![o] = <<>>],
           count' \in [Object -> Nat], count'[o] = 0,
           \A p \in Object \ {o} : count'[p] = count[p]
    PROVE  HeapSound'
  <1>1. HeapSound
    BY HeapIsSound
  <1>2. /\ kind'[o] = "FREE" /\ fields'[o] = <<>>
        /\ \A p \in Object \ {o} : kind'[p] = kind[p] /\ fields'[p] = fields[p]
    BY <1>1 DEF HeapSound
  <1>3. kind' \in [Object -> AllKinds] /\ fields' \in [Object -> Seq(Value)]
    BY <1>1 DEF HeapSound, AllKinds
  <1>4. \A p \in Object : Len(fields'[p]) <= Width
    BY <1>1, <1>2, EmptySeq, EagerAssumption DEF HeapSound
  <1>5. Shapes'
    BY <1>1, <1>2 DEF HeapSound, Shapes, Free
  <1>6. Views'
    <2> SUFFICES ASSUME NEW t \in Object, kind'[t] = "TEXT", fields'[t][1] \in Object
                 PROVE  kind'[fields'[t][1]] = "TEXT" /\ fields'[fields'[t][1]][1] = None
      BY DEF Views, IsRoot
    <2>1. t # o /\ kind[t] = "TEXT" /\ fields'[t] = fields[t] /\ fields[t][1] # o
      BY <1>2 DEF BacksNone
    <2> QED
      BY <1>1, <1>2, <2>1 DEF HeapSound, Views, IsRoot
  <1> QED
    BY <1>3, <1>4, <1>5, <1>6 DEF HeapSound

(* The fields of one value are replaced, as a store does. *)
LEMMA StoredSound ==
    ASSUME Sound, NEW o \in Object, NEW f \in Seq(Value), Len(f) <= Width,
           UNCHANGED <<kind, count>>, fields' = [fields EXCEPT ![o] = f],
           kind[o] \in {"REFERENCES", "RECORD", "TEXT"},
           kind[o] = "TEXT" => /\ Len(f) = 1 /\ IsRoot(f[1]) /\ f[1] # o
                               /\ BacksNone(o)
    PROVE  HeapSound'
  <1>1. HeapSound
    BY HeapIsSound
  <1>2. fields'[o] = f /\ \A p \in Object \ {o} : fields'[p] = fields[p]
    BY <1>1 DEF HeapSound
  <1>3. fields' \in [Object -> Seq(Value)] /\ \A p \in Object : Len(fields'[p]) <= Width
    BY <1>1, <1>2 DEF HeapSound
  <1>4. Shapes'
    BY <1>1, <1>2 DEF HeapSound, Shapes, Free
  <1>5. Views'
    <2> SUFFICES ASSUME NEW t \in Object, kind[t] = "TEXT", fields'[t][1] \in Object
                 PROVE  kind[fields'[t][1]] = "TEXT" /\ fields'[fields'[t][1]][1] = None
      BY DEF Views, IsRoot
    <2>1. CASE t = o
      <3>1. fields'[t][1] = f[1] /\ f[1] # o /\ IsRoot(f[1])
        BY <1>2, <2>1
      <3> QED
        BY <1>2, <3>1 DEF IsRoot
    <2>2. CASE t # o
      <3>1. fields'[t] = fields[t] /\ kind[fields[t][1]] = "TEXT" /\ fields[fields[t][1]][1] = None
        BY <1>1, <1>2, <2>2 DEF HeapSound, Views, IsRoot
      <3>2. fields[t][1] # o
        BY <3>1 DEF BacksNone
      <3> QED
        BY <1>2, <3>1, <3>2
    <2> QED
      BY <2>1, <2>2
  <1> QED
    BY <1>1, <1>3, <1>4, <1>5 DEF HeapSound

LEMMA AllocateSound ==
    ASSUME Sound, CountExact, NEW r \in Register, NEW o \in Object, NEW k \in AllKinds \ {"FREE"},
           NEW n \in Nat, NEW next, Allocate(r, o, k, n, next), n <= Width,
           k \in {"LIST", "SCALAR_RECORD"} => n = 0, k = "TEXT" => n = 1
    PROVE  HeapSound'
  <1>1. HeapSound
    BY HeapIsSound
  <1> DEFINE f == [i \in 1..n |-> None]
  <1>2. /\ kind' = [kind EXCEPT ![o] = k] /\ count' = [count EXCEPT ![o] = 1]
        /\ fields' = [fields EXCEPT ![o] = f] /\ kind[o] = "FREE"
    BY DEF Allocate, Free
  <1>3. /\ f \in Seq(Value) /\ Len(f) = n /\ (n = 0 => f = <<>>)
        /\ \A i \in 1..n : f[i] = None
    BY DEF Value
  <1> HIDE DEF f
  <1>4. /\ kind'[o] = k /\ fields'[o] = f /\ count'[o] = 1
        /\ \A p \in Object \ {o} : kind'[p] = kind[p] /\ fields'[p] = fields[p] /\ count'[p] = count[p]
    BY <1>1, <1>2 DEF HeapSound
  <1>5. /\ kind' \in [Object -> AllKinds] /\ count' \in [Object -> Nat]
        /\ fields' \in [Object -> Seq(Value)]
    BY <1>1, <1>2, <1>3 DEF HeapSound
  <1>6. \A p \in Object : Len(fields'[p]) <= Width
    BY <1>1, <1>3, <1>4 DEF HeapSound
  <1>7. Shapes'
    BY <1>1, <1>3, <1>4 DEF HeapSound, Shapes, Free
  <1>8. Views'
    <2> SUFFICES ASSUME NEW t \in Object, kind'[t] = "TEXT", fields'[t][1] \in Object
                 PROVE  kind'[fields'[t][1]] = "TEXT" /\ fields'[fields'[t][1]][1] = None
      BY DEF Views, IsRoot
    <2>1. t # o
      BY <1>3, <1>4, EagerAssumption
    <2>2. /\ fields'[t] = fields[t] /\ fields[t][1] \in Object /\ fields[t][1] # o
          /\ kind[fields[t][1]] = "TEXT" /\ fields[fields[t][1]][1] = None
      BY <1>1, <1>2, <1>4, <2>1 DEF HeapSound, Views, IsRoot
    <2> QED
      BY <1>4, <2>2
  <1> QED
    BY <1>5, <1>6, <1>7, <1>8 DEF HeapSound

LEMMA DestroyHeap ==
    ASSUME Sound, CountExact, Destroy
    PROVE  HeapSound'
  <1>1. count \in [Object -> Nat] /\ \A o \in Object : Free(o) => count[o] = 0
    BY DEF Sound, Typed, Shapes
  <1>2. CASE PopPending \/ VisitField
    BY <1>1, <1>2, KindsKept DEF PopPending, VisitField, heapVars
  <1>3. CASE FreeVisited
    <2>1. PICK o \in Object : o = visit.of
      BY <1>3, VisitFacts DEF FreeVisited
    <2>2. count' = count /\ kind' = [kind EXCEPT ![o] = "FREE"] /\ fields' = [fields EXCEPT ![o] = <<>>]
      BY <1>3, <2>1 DEF FreeVisited
    <2>3. count[o] = 0
      BY <2>1, QueueFacts DEF Dead
    <2>4. BacksNone(o)
      BY <2>3, RootFacts DEF BacksNone
    <2> QED
      BY <1>1, <2>2, <2>3, <2>4, FreedSound
  <1>4. CASE RcDrop /\ ~LeafDies
    <2>1. fields' = fields /\ kind' = kind
      BY <1>4 DEF RcDrop, LeafDies, heapVars
    <2>2. count' = count \/ (falling \in Object /\ count[falling] > 0
                             /\ count' = [count EXCEPT ![falling] = @ - 1])
      BY <1>4 DEF RcDrop, LeafDies, heapVars, Counted, Mortal
    <2>3. count' \in [Object -> Nat] /\ \A o \in Object : Free(o) => count'[o] = 0
      BY <1>1, <2>2
    <2> QED
      BY <2>1, <2>3, KindsKept
  <1>5. CASE RcDrop /\ LeafDies
    <2>1. PICK o \in Object : o = falling /\ count[o] = 1
      BY <1>5 DEF LeafDies, Counted, Mortal, LastOwner
    <2>2. /\ kind' = [kind EXCEPT ![o] = "FREE"] /\ fields' = [fields EXCEPT ![o] = <<>>]
          /\ count' = [count EXCEPT ![o] = 0]
      BY <1>5, <2>1 DEF LeafDies, RcDrop
    <2>3. BacksNone(o)
      BY <2>1, RootFacts DEF BacksNone
    <2>4. count' \in [Object -> Nat] /\ count'[o] = 0 /\ \A p \in Object \ {o} : count'[p] = count[p]
      BY <1>1, <2>2
    <2> QED
      BY <2>2, <2>3, <2>4, FreedSound
  <1> QED
    BY <1>2, <1>3, <1>4, <1>5 DEF Destroy

LEMMA MachineHeap ==
    ASSUME Sound, CountExact, Machine
    PROVE  HeapSound'
  <1>1. count \in [Object -> Nat] /\ \A o \in Object : Free(o) => count[o] = 0
    BY DEF Sound, Typed, Shapes
  <1>2. CASE StoreLocal \/ StoreTemporary
    BY <1>1, <1>2, KindsKept DEF StoreLocal, StoreTemporary, Stored
  <1>3. CASE ReleaseTemporary \/ ReleaseLocal \/ PopFrame \/ Return
    BY <1>1, <1>3, KindsKept DEF ReleaseTemporary, ReleaseLocal, PopFrame, Return, heapVars
  <1>4. CASE RetainRoot
    <2>1. PICK v \in Object \cup Literal : v = call.root /\ (v \in Object => count[v] > 0)
      BY <1>4 DEF RetainRoot, Sound, Calls
    <2>2. UNCHANGED <<kind, fields>> /\ count' = IF v \in Object THEN [count EXCEPT ![v] = @ + 1] ELSE count
      BY <1>4, <2>1 DEF RetainRoot, Mortal
    <2>3. count' \in [Object -> Nat] /\ \A o \in Object : Free(o) => count'[o] = 0
      BY <1>1, <2>1, <2>2
    <2> QED
      BY <2>2, <2>3, KindsKept
  <1>5. CASE StoreNewElement
    <2>1. PICK o \in Object : o = call.of /\ kind[o] = "REFERENCES" /\ Len(fields[o]) < Width
      BY <1>5 DEF StoreNewElement, Sound, Calls
    <2> DEFINE f == Append(fields[o], hand)
    <2>2. UNCHANGED <<kind, count>> /\ fields' = [fields EXCEPT ![o] = f]
      BY <1>5, <2>1 DEF StoreNewElement, Stored
    <2>3. f \in Seq(Value) /\ Len(f) <= Width
      BY <2>1, FieldFacts, AppendFacts, EagerAssumption DEF Sound, Typed
    <2> HIDE DEF f
    <2> QED
      BY <2>1, <2>2, <2>3, StoredSound
  <1>6. CASE StoreField
    <2>1. PICK o \in Object, i \in Nat :
             /\ o = call.of /\ i = call.index /\ i \in 1..Len(fields[o]) /\ count[o] > 0
             /\ kind[o] = "TEXT" => IsRoot(hand) /\ hand # o /\ BacksNone(o)
      BY <1>6 DEF StoreField, Sound, Calls
    <2> DEFINE f == [fields[o] EXCEPT ![i] = hand]
    <2>2. UNCHANGED <<kind, count>> /\ fields' = [fields EXCEPT ![o] = f]
      BY <1>6, <2>1 DEF StoreField, Stored
    <2>3. /\ f \in Seq(Value) /\ Len(f) = Len(fields[o]) /\ Len(fields[o]) <= Width
          /\ \A j \in 1..Len(fields[o]) : f[j] = IF j = i THEN hand ELSE fields[o][j]
      BY <2>1, FieldFacts, ReplaceFacts DEF Sound, Typed
    <2>4. kind[o] \in {"REFERENCES", "RECORD", "TEXT"}
      <3>1. fields[o] # <<>>
        BY <2>1, EmptySeq
      <3>2. kind[o] \in AllKinds /\ kind[o] # "FREE"
        BY <2>1 DEF Sound, Typed, Shapes, Free
      <3>3. kind[o] \notin {"LIST", "SCALAR_RECORD"}
        BY <3>1 DEF Sound, Shapes
      <3> QED
        BY <3>2, <3>3 DEF AllKinds
    <2>5. kind[o] = "TEXT" => Len(f) = 1 /\ f[1] = hand
      BY <2>1, <2>3 DEF Sound, Shapes
    <2> HIDE DEF f
    <2> QED
      BY ZenonT(120), <2>1, <2>2, <2>3, <2>4, <2>5, StoredSound
  <1> QED
    BY <1>2, <1>3, <1>4, <1>5, <1>6, DestroyHeap DEF Machine

LEMMA ProgramHeap ==
    ASSUME Sound, CountExact, Program
    PROVE  HeapSound'
  <1>1. count \in [Object -> Nat] /\ \A o \in Object : Free(o) => count[o] = 0
    BY DEF Sound, Typed, Shapes
  <1>2. CASE New
    <2>1. PICK r \in Register, o \in Object :
             \/ \E k \in Kinds \cap {"LIST", "SCALAR_RECORD"} : Allocate(r, o, k, 0, Done)
             \/ Allocate(r, o, "TEXT", 1, Done)
             \/ \E n \in 0..Width : Allocate(r, o, "RECORD", n, Done)
      BY <1>2 DEF New
    <2>2. /\ {"LIST", "SCALAR_RECORD", "TEXT", "RECORD"} \subseteq AllKinds \ {"FREE"}
          /\ 0 <= Width /\ 1 <= Width /\ \A n \in 0..Width : n \in Nat /\ n <= Width
      BY EagerAssumption DEF AllKinds
    <2> HIDE DEF Done
    <2>3. CASE \E k \in Kinds \cap {"LIST", "SCALAR_RECORD"} : Allocate(r, o, k, 0, Done)
      BY <2>2, <2>3, AllocateSound
    <2>4. CASE Allocate(r, o, "TEXT", 1, Done)
      BY <2>2, <2>4, AllocateSound
    <2>5. CASE \E n \in 0..Width : Allocate(r, o, "RECORD", n, Done)
      BY <2>2, <2>5, AllocateSound
    <2> QED
      BY <2>1, <2>3, <2>4, <2>5
  <1>3. CASE Slice
    <2>1. PICK r \in Register, o \in Object, next \in {call'} : Allocate(r, o, "TEXT", 1, next)
      <3>1. \A r, o, k, n, next : Allocate(r, o, k, n, next) => next = call'
        BY DEF Allocate
      <3> QED
        BY <1>3, <3>1 DEF Slice
    <2>2. "TEXT" \in AllKinds \ {"FREE"} /\ 1 <= Width
      BY EagerAssumption DEF AllKinds
    <2> QED
      BY <2>1, <2>2, AllocateSound
  <1>4. CASE ListReferences
    <2>1. PICK l \in Object :
             /\ kind[l] = "LIST" /\ kind' = [kind EXCEPT ![l] = "REFERENCES"]
             /\ UNCHANGED <<count, fields>>
      BY <1>4 DEF ListReferences, Mortal, ReferencesKind
    <2>2. HeapSound
      BY HeapIsSound
    <2>3. kind'[l] = "REFERENCES" /\ \A p \in Object \ {l} : kind'[p] = kind[p]
      BY <2>1, <2>2 DEF HeapSound
    <2>4. kind' \in [Object -> AllKinds]
      BY <2>1, <2>2 DEF HeapSound, AllKinds
    <2>5. Shapes'
      BY <2>1, <2>2, <2>3 DEF HeapSound, Shapes, Free
    <2>6. Views'
      BY <2>1, <2>2, <2>3 DEF HeapSound, Views, IsRoot
    <2> QED
      BY <2>1, <2>2, <2>4, <2>5, <2>6 DEF HeapSound
  <1>5. ASSUME NEW v \in Operand, Idle, UNCHANGED <<kind, fields>>,
               count' = IF Mortal(v) THEN [count EXCEPT ![v] = @ + 1] ELSE count
        PROVE  HeapSound'
    <2>1. v \in Object => ~Free(v)
      BY <1>5, OperandsAreLive
    <2>2. count' \in [Object -> Nat] /\ \A o \in Object : Free(o) => count'[o] = 0
      BY <1>1, <1>5, <2>1 DEF Mortal
    <2> QED
      BY <1>5, <2>2, KindsKept
  <1>6. CASE RetainResult
    BY <1>5, <1>6 DEF RetainResult
  <1>7. CASE Local \/ Keep \/ ListAdd \/ ListSet \/ RecordSet
    <2>1. PICK v \in Operand, next \in {call'} : AcquireOrTake(v, next)
      <3>1. \A v, next : AcquireOrTake(v, next) => next = call'
        BY DEF AcquireOrTake, Acquire, Take
      <3>2. CASE RecordSet
        BY <3>1, <3>2 DEF RecordSet
      <3>3. CASE Local \/ Keep \/ ListAdd \/ ListSet
        BY <3>1, <3>3 DEF Local, Keep, ListAdd, ListSet
      <3> QED
        BY <1>7, <3>2, <3>3
    <2>2. CASE Acquire(v, next)
      BY <1>5, <2>2 DEF Acquire
    <2>3. CASE \E r \in Register : Take(r, next)
      BY <1>1, <2>3, KindsKept DEF Take, heapVars
    <2> QED
      BY <2>1, <2>2, <2>3 DEF AcquireOrTake
  <1>8. CASE LocalMove \/ ReleaseResult \/ Enter \/ StepOrLeave
    BY <1>1, <1>8, KindsKept DEF LocalMove, ReleaseResult, Enter, StepOrLeave, heapVars
  <1> QED
    BY <1>2, <1>3, <1>4, <1>6, <1>7, <1>8 DEF Program
-----------------------------------------------------------------------------
FramesSound ==
    /\ frames \in Seq(Frame) /\ Top <= Depth
    /\ \A d \in 1..Top :
          Len(frames[d].locals) <= MaxLocals /\ Len(frames[d].temps) <= MaxTemps

LEMMA FramesAreSound ==
    ASSUME Sound
    PROVE  FramesSound
  BY DEF FramesSound, Sound, Typed, WithinSlots

LEMMA LocalStoredSound ==
    ASSUME Sound, UNCHANGED program, NEW d \in 1..Top, NEW k \in 1..Len(frames[d].locals),
           NEW v \in Value, frames' = [frames EXCEPT ![d].locals[k] = v]
    PROVE  FramesSound'
  <1>1. /\ frames' \in Seq(Frame) /\ Len(frames') = Top
        /\ \A e \in 1..Top : e # d => frames'[e] = frames[e]
        /\ frames'[d].temps = frames[d].temps
        /\ Len(frames'[d].locals) = Len(frames[d].locals)
    BY LocalReplaced
  <1> QED
    BY <1>1, FramesAreSound DEF FramesSound, Top, Depth

LEMMA TempsStoredSound ==
    ASSUME Sound, UNCHANGED program, NEW d \in 1..Top, NEW t \in Seq(Value), Len(t) <= MaxTemps,
           frames' = [frames EXCEPT ![d].temps = t]
    PROVE  FramesSound'
  <1>1. /\ frames' \in Seq(Frame) /\ Len(frames') = Top
        /\ \A e \in 1..Top : e # d => frames'[e] = frames[e]
        /\ frames'[d].temps = t /\ frames'[d].locals = frames[d].locals
    BY TempsReplaced
  <1> QED
    BY <1>1, FramesAreSound DEF FramesSound, Top, Depth

LEMMA FramesNext ==
    ASSUME Sound, Next
    PROVE  FramesSound'
  <1>1. UNCHANGED program
    BY DEF Next
  <1>2. CASE UNCHANGED frames
    BY <1>1, <1>2, FramesAreSound DEF FramesSound, Top, Depth
  <1>3. CASE StoreLocal
    <2>1. PICK d \in 1..Top, k \in Nat :
             d = Top /\ k = call.index /\ k \in 1..Len(frames[d].locals)
      BY <1>3, FrameFacts DEF Sound, Calls, StoreLocal
    <2>2. frames' = [frames EXCEPT ![d].locals[k] = hand] /\ hand \in Value
      BY <1>3, <2>1 DEF StoreLocal, Sound, Typed
    <2> QED
      BY <1>1, <2>1, <2>2, LocalStoredSound
  <1>4. CASE ReleaseLocal
    <2>1. PICK d \in 1..Top, k \in Nat :
             d = Top /\ k = call.next /\ k \in 1..Len(frames[d].locals)
      <3>1. Top > 0 /\ call.next \in Nat \ {0} /\ call.next <= Len(frames[Top].locals)
        BY <1>4 DEF Sound, Calls, ReleaseLocal, LocalsLeft
      <3> QED
        BY SMTT(60), <3>1, FrameFacts
    <2>2. frames' = [frames EXCEPT ![d].locals[k] = None] /\ None \in Value
      BY <1>4, <2>1 DEF ReleaseLocal, Value
    <2> QED
      BY <1>1, <2>1, <2>2, LocalStoredSound
  <1>5. CASE LocalMove
    <2>1. PICK k \in 1..MaxLocals :
             /\ Top > 0 /\ k <= Len(frames[Top].locals)
             /\ frames' = [frames EXCEPT ![Top].locals[k] = None]
      BY <1>5 DEF LocalMove
    <2>2. PICK d \in 1..Top : d = Top /\ k \in 1..Len(frames[d].locals)
      BY <2>1, FrameFacts
    <2>3. frames' = [frames EXCEPT ![d].locals[k] = None] /\ None \in Value
      BY <2>1, <2>2 DEF Value
    <2> QED
      BY <1>1, <2>2, <2>3, LocalStoredSound
  <1>6. CASE StoreTemporary
    <2>1. PICK d \in 1..Top : d = Top /\ Len(frames[d].temps) < Temporaries
      BY <1>6, FrameFacts DEF Sound, Calls, StoreTemporary
    <2> DEFINE t == Append(frames[d].temps, hand)
    <2>2. frames' = [frames EXCEPT ![d].temps = t]
      BY <1>6, <2>1 DEF StoreTemporary
    <2>3. t \in Seq(Value) /\ Len(t) <= MaxTemps
      <3>1. hand \in Value /\ frames[d].temps \in Seq(Value)
        BY FrameFacts DEF Sound, Typed
      <3>2. t \in Seq(Value) /\ Len(t) = Len(frames[d].temps) + 1
        BY <3>1, AppendFacts
      <3> QED
        BY <2>1, <3>2, FrameFacts
    <2> HIDE DEF t
    <2> QED
      BY <1>1, <2>2, <2>3, TempsStoredSound
  <1>7. CASE ReleaseTemporary
    <2>1. PICK d \in 1..Top : d = Top /\ frames[d].temps # <<>>
      BY <1>7, FrameFacts DEF Sound, Calls, ReleaseTemporary, Doing
    <2> DEFINE t == Front(frames[d].temps)
    <2>2. frames' = [frames EXCEPT ![d].temps = t]
      BY <1>7, <2>1 DEF ReleaseTemporary
    <2>3. t \in Seq(Value) /\ Len(t) <= MaxTemps
      <3>1. frames[d].temps \in Seq(Value) /\ Len(frames[d].temps) <= MaxTemps
            /\ Len(frames[d].temps) \in Nat /\ MaxTemps \in Nat
        BY FrameFacts
      <3>2. t \in Seq(Value) /\ Len(t) = Len(frames[d].temps) - 1
        BY <2>1, <3>1, FrontFacts
      <3> QED
        BY <3>1, <3>2
    <2> HIDE DEF t
    <2> QED
      BY <1>1, <2>2, <2>3, TempsStoredSound
  <1>8. CASE PopFrame
    <2>1. frames \in Seq(Frame) /\ Len(frames) = Top /\ frames # <<>>
      <3>1. Top > 0 /\ Len(frames) = Top
        BY <1>8 DEF Sound, Calls, PopFrame, Top
      <3> QED
        BY <3>1, EmptySeq DEF Sound, Typed
    <2>2. /\ frames' \in Seq(Frame) /\ Len(frames') = Top - 1
          /\ \A d \in 1..(Top - 1) : frames'[d] = frames[d]
      BY <1>8, <2>1, FrontFacts DEF PopFrame
    <2> QED
      BY <1>1, <2>2, FramesAreSound, FrameFacts DEF FramesSound, Top, Depth
  <1>9. CASE Enter
    <2>1. PICK n \in 0..MaxLocals : frames' = Append(frames, NewFrame(n)) /\ Top < Depth
      BY <1>9 DEF Enter
    <2>2. NewFrame(n) \in Frame /\ n \in Nat /\ n <= MaxLocals
          /\ NewFrame(n).locals = [i \in 1..n |-> None] /\ NewFrame(n).temps = <<>>
      BY FrameFacts DEF NewFrame, Frame, Value
    <2>3. /\ frames' \in Seq(Frame) /\ Len(frames') = Top + 1 /\ frames'[Top + 1] = NewFrame(n)
          /\ \A d \in 1..Top : frames'[d] = frames[d]
      BY <2>1, <2>2, AppendFacts DEF Sound, Typed, Top
    <2>4. Len(NewFrame(n).locals) = n /\ Len(NewFrame(n).temps) = 0
      BY <2>2, EmptySeq
    <2>5. \A d \in 1..(Top + 1) : d \in 1..Top \/ d = Top + 1
      BY FrameFacts
    <2> QED
      BY <1>1, <2>1, <2>2, <2>3, <2>4, <2>5, FramesAreSound, FrameFacts DEF FramesSound, Top, Depth
  <1>10. UNCHANGED frames \/ StoreLocal \/ ReleaseLocal \/ LocalMove \/ StoreTemporary
         \/ ReleaseTemporary \/ PopFrame \/ Enter
    <2>1. CASE Machine
      BY <2>1 DEF Machine, Destroy, RcDrop, PopPending, VisitField, FreeVisited, StoreNewElement,
                  StoreField, RetainRoot, Return
    <2>2. CASE Program
      BY <2>2 DEF Program, New, ListReferences, Slice, Allocate, RetainResult, Local, Keep, ListAdd,
                  ListSet, RecordSet, AcquireOrTake, Acquire, Take, ReleaseResult, StepOrLeave
    <2> QED
      BY <2>1, <2>2 DEF Next
  <1> QED
    BY <1>2, <1>3, <1>4, <1>5, <1>6, <1>7, <1>8, <1>9, <1>10
-----------------------------------------------------------------------------
(* Slots hold values. *)
AllHeldAreValues == \A s \in Slot : held[s] \in Value

LEMMA HeldAreValues ==
    ASSUME Sound
    PROVE  AllHeldAreValues
  <1>1. None \in Value
    BY DEF Value
  <1>2. \A r \in Register : reg[r] \in Value
    BY DEF Sound, Typed
  <1>3. hand \in Value /\ falling \in Value
    BY DEF Sound, Typed
  <1>4. ASSUME NEW d \in 1..MaxFrames, NEW i
        PROVE  InFrame(d, i) \in Value /\ TempIn(d, i) \in Value
    <2>1. CASE d \in 1..Top
      <3>1. frames[d].locals \in Seq(Value) /\ frames[d].temps \in Seq(Value)
        BY <2>1, FrameFacts
      <3>2. At(frames[d].locals, i) \in Value
        BY <1>1, <3>1, SequenceAt
      <3>3. At(frames[d].temps, i) \in Value
        BY <1>1, <3>1, SequenceAt
      <3> QED
        BY <1>1, <3>2, <3>3 DEF InFrame, TempIn
    <2>2. CASE d \notin 1..Top
      BY <1>1, <2>2, FrameFacts DEF InFrame, TempIn
    <2> QED
      BY <2>1, <2>2
  <1>5. \A o \in Object, i \in Index : Unvisited(o, i) \in Value
    BY <1>1, FieldFacts, SequenceAt DEF Unvisited
  <1> QED
    BY <1>2, <1>3, <1>4, <1>5, Forms, SlotForms DEF HeldForms, AllHeldAreValues

LEMMA FormsKeepValues ==
    ASSUME Sound, StepForms
    PROVE  AllHeldAreValues'
  <1>1. \A s \in Slot : held[s] \in Value
    BY HeldAreValues DEF AllHeldAreValues
  <1>2. None \in Value /\ Object \subseteq Value /\ Literal \subseteq Value
    BY DEF Value
  <1>3. RootSlot \subseteq Slot /\ FallingSlot \in Slot
    BY SlotForms DEF Slot
  <1>4. CASE StepRearranges
    BY <1>1, <1>2, <1>3, <1>4 DEF StepRearranges, Kept, Moved, Exchanged, AllHeldAreValues
  <1>5. CASE StepAllocates
    BY <1>1, <1>2, <1>5 DEF StepAllocates, Gained, AllHeldAreValues
  <1>6. CASE StepShares
    BY <1>1, <1>2, <1>6 DEF StepShares, Gained, AllHeldAreValues
  <1>7. CASE StepDrops
    BY <1>1, <1>2, <1>7 DEF StepDrops, Lost, AllHeldAreValues
  <1>8. CASE StepUnwraps
    <2>1. FieldSlot(falling, 1) \in Slot
      BY <1>8, SlotForms, EagerAssumption DEF StepUnwraps, Index
    <2> QED
      BY <1>1, <1>2, <1>8, <2>1 DEF StepUnwraps, AllHeldAreValues
  <1>9. CASE StepReclaims
    BY <1>1, <1>9 DEF StepReclaims, Kept, AllHeldAreValues
  <1> QED
    BY <1>4, <1>5, <1>6, <1>7, <1>8, <1>9 DEF StepForms

LEMMA RegistersNext ==
    ASSUME Sound, StepForms, Next
    PROVE  reg' \in [Register -> Value] /\ hand' \in Value /\ falling' \in Value
  <1>1. /\ \A r \in Register : reg'[r] \in Value
        /\ hand' \in Value /\ falling' \in Value
    BY FormsKeepValues, FormsNext, SlotForms DEF AllHeldAreValues, HeldForms, Slot
  <1>2. UNCHANGED reg \/ \E r \in Register : \E v \in {reg'[r]} : reg' = [reg EXCEPT ![r] = v]
    <2>1. CASE Machine
      BY <2>1 DEF Machine, Destroy, RcDrop, PopPending, VisitField, FreeVisited, Stored, StoreLocal,
                  StoreTemporary, StoreNewElement, StoreField, RetainRoot, ReleaseTemporary,
                  ReleaseLocal, PopFrame, Return
    <2>2. reg \in [Register -> Value]
      BY DEF Sound, Typed
    <2>3. \A r \in Register : \A v : reg' = [reg EXCEPT ![r] = v] => reg'[r] = v
      BY <2>2
    <2>4. ASSUME New \/ Slice \/ RetainResult \/ LocalMove \/ ReleaseResult
          PROVE  \E r \in Register : \E v \in {reg'[r]} : reg' = [reg EXCEPT ![r] = v]
      BY <2>3, <2>4 DEF New, Slice, Allocate, RetainResult, LocalMove, ReleaseResult
    <2>5. ASSUME Local \/ Keep \/ ListAdd \/ ListSet \/ RecordSet
          PROVE  UNCHANGED reg \/ \E r \in Register : \E v \in {reg'[r]} : reg' = [reg EXCEPT ![r] = v]
      <3>1. \A v, next : AcquireOrTake(v, next)
               => UNCHANGED reg \/ \E r \in Register : reg' = [reg EXCEPT ![r] = None]
        BY DEF AcquireOrTake, Acquire, Take
      <3>2. UNCHANGED reg \/ \E r \in Register : reg' = [reg EXCEPT ![r] = None]
        BY <2>5, <3>1 DEF Local, Keep, ListAdd, ListSet, RecordSet
      <3> QED
        BY <2>3, <3>2
    <2>6. CASE ListReferences \/ Enter \/ StepOrLeave
      BY <2>6 DEF ListReferences, Enter, StepOrLeave
    <2> QED
      BY <2>1, <2>4, <2>5, <2>6 DEF Next, Program
  <1>3. reg \in [Register -> Value]
    BY DEF Sound, Typed
  <1> QED
    BY <1>1, <1>2, <1>3
-----------------------------------------------------------------------------
QueueSound ==
    /\ pending \in Seq(Object)
    /\ visit \in [of : Object \cup {None}, next : Nat \ {0}]
    /\ Queued

(* The queue's order, by positions. *)
QueueListed ==
    /\ pending \in Seq(Object)
    /\ visit \in [of : Object \cup {None}, next : Nat \ {0}]
    /\ visit.of = None => visit.next = 1
    /\ \A i, j \in 1..Len(pending) : pending[i] = pending[j] => i = j
    /\ \A o \in Object :
          Dead(o) <=> visit.of = o \/ \E i \in 1..Len(pending) : pending[i] = o
    /\ \A i \in 1..Len(pending) : pending[i] # visit.of
    /\ \A o \in Object : Dead(o) => ~Leaf(o)

QueueForms == QueueListed <=> QueueSound

LEMMA QueueFormsHold == QueueForms
  <1>1. ASSUME pending \in Seq(Object), visit \in [of : Object \cup {None}, next : Nat \ {0}]
        PROVE  QueueListed <=> QueueSound
    <2>1. /\ DOMAIN pending = 1..Len(pending)
          /\ \A i \in 1..Len(pending) : pending[i] \in Object
          /\ ToSet(pending) = {pending[i] : i \in 1..Len(pending)}
      BY <1>1 DEF ToSet
    <2>2. visit.of \in Object \cup {None} /\ None \notin Object
      BY <1>1, EagerAssumption
    <2>3. IsInjective(pending)
             <=> \A i, j \in 1..Len(pending) : pending[i] = pending[j] => i = j
      BY <2>1 DEF IsInjective
    <2>4. visit.of \notin ToSet(pending) <=> \A i \in 1..Len(pending) : pending[i] # visit.of
      BY <2>1
    <2>5. {o \in Object : Dead(o)} = ToSet(pending) \cup ({visit.of} \ {None})
             <=> \A o \in Object :
                    Dead(o) <=> visit.of = o \/ \E i \in 1..Len(pending) : pending[i] = o
      <3>1. \A o \in Object : o \in ToSet(pending) <=> \E i \in 1..Len(pending) : pending[i] = o
        BY <2>1
      <3>2. \A o \in Object : o \in {visit.of} \ {None} <=> visit.of = o
        BY <2>2
      <3>3. ToSet(pending) \cup ({visit.of} \ {None}) \subseteq Object
        BY <2>1, <2>2
      <3> QED
        BY <3>1, <3>2, <3>3
    <2> QED
      BY <1>1, <2>3, <2>4, <2>5 DEF QueueListed, QueueSound, Queued, DeadQueuedOnce
  <1> QED
    BY <1>1 DEF QueueForms, QueueListed, QueueSound

LEMMA QueueFormsNext == QueueForms'
  BY QueueFormsHold, PTL

LEMMA QueueIsListed ==
    ASSUME Sound
    PROVE  QueueListed
  BY QueueFormsHold DEF QueueForms, QueueSound, Sound, Typed

LEMMA QueueKept ==
    ASSUME Sound, UNCHANGED <<pending, visit>>,
           \A o \in Object : (Dead(o)' <=> Dead(o)) /\ (Dead(o) => kind'[o] = kind[o])
    PROVE  QueueSound'
  <1>1. \A o \in Object : Leaf(o)' <=> kind'[o] \in {"TEXT", "LIST", "SCALAR_RECORD"}
    BY DEF Leaf
  <1>2. \A o \in Object : Dead(o)' => ~Leaf(o)'
    BY <1>1, QueueIsListed DEF QueueListed, Leaf
  <1>3. QueueListed'
    BY <1>2, QueueIsListed DEF QueueListed
  <1> QED
    BY <1>3, QueueFormsNext DEF QueueForms

LEMMA DestroyQueue ==
    ASSUME Sound, CountExact, Destroy
    PROVE  QueueSound'
  <1>1. QueueListed
    BY QueueIsListed
  <1>2. SUFFICES QueueListed'
    BY QueueFormsNext DEF QueueForms
  <1>3. \A o \in Object : Dead(o)' <=> kind'[o] # "FREE" /\ count'[o] = 0
    BY DEF Dead, Free
  <1>4. \A o \in Object : Leaf(o)' <=> kind'[o] \in {"TEXT", "LIST", "SCALAR_RECORD"}
    BY DEF Leaf
  <1>5. kind \in [Object -> AllKinds] /\ count \in [Object -> Nat]
    BY DEF Sound, Typed
  <1>6. /\ Len(pending) \in Nat /\ pending \in Seq(Object)
        /\ visit = [of |-> visit.of, next |-> visit.next]
    BY <1>1 DEF QueueListed
  <1>7. CASE RcDrop
    <2>1. visit' = visit
      BY <1>7 DEF RcDrop
    <2>2. CASE LeafDies
      <3>1. PICK v \in Object : v = falling /\ count[v] = 1
        BY <2>2 DEF LeafDies, Counted, Mortal, LastOwner
      <3>2. /\ kind' = [kind EXCEPT ![v] = "FREE"] /\ count' = [count EXCEPT ![v] = 0]
            /\ pending' = pending
        BY <1>7, <2>2, <3>1 DEF RcDrop, LeafDies
      <3>3. ~Dead(v) /\ \A o \in Object : Dead(o)' <=> Dead(o)
        BY <1>3, <1>5, <3>1, <3>2 DEF Dead, Free
      <3>4. \A o \in Object : Dead(o)' => ~Leaf(o)'
        BY <1>1, <1>4, <1>5, <3>2, <3>3 DEF QueueListed, Leaf
      <3> QED
        BY <1>1, <2>1, <3>2, <3>3, <3>4 DEF QueueListed
    <2>3. CASE Counted(falling) /\ LastOwner(falling) /\ ~Leaf(falling)
      <3>1. PICK v \in Object : v = falling /\ count[v] = 1 /\ ~Leaf(v)
        BY <2>3 DEF Counted, Mortal, LastOwner
      <3>2. /\ kind' = kind /\ count' = [count EXCEPT ![v] = @ - 1]
            /\ pending' = Append(pending, v)
        BY <1>7, <2>3, <3>1 DEF RcDrop
      <3>3. /\ pending' \in Seq(Object) /\ Len(pending') = Len(pending) + 1
            /\ \A i \in 1..Len(pending) : pending'[i] = pending[i]
            /\ pending'[Len(pending) + 1] = v
        BY <1>6, <3>2, AppendFacts
      <3>4. ~Dead(v) /\ ~Free(v) /\ \A o \in Object : Dead(o)' <=> Dead(o) \/ o = v
        <4>1. ~Free(v)
          BY <3>1 DEF Sound, Shapes
        <4> QED
          BY <1>3, <1>5, <3>1, <3>2, <4>1 DEF Dead, Free
      <3>5. \A o \in Object : Dead(o)' => ~Leaf(o)'
        BY <1>1, <1>4, <3>1, <3>2, <3>4 DEF QueueListed, Leaf
      <3>6. visit.of # v /\ \A i \in 1..Len(pending) : pending[i] # v
        BY <1>1, <3>4 DEF QueueListed
      <3>7. \A i \in 1..Len(pending') : i \in 1..Len(pending) \/ i = Len(pending) + 1
        BY <1>6, <3>3
      <3>8. \A i, j \in 1..Len(pending') : pending'[i] = pending'[j] => i = j
        BY <1>1, <3>3, <3>6, <3>7 DEF QueueListed
      <3>9. \A o \in Object :
               (\E i \in 1..Len(pending') : pending'[i] = o)
                  <=> o = v \/ \E i \in 1..Len(pending) : pending[i] = o
        BY <1>6, <3>3, <3>7
      <3>10. \A i \in 1..Len(pending') : pending'[i] # visit.of
        BY <1>1, <3>3, <3>6, <3>7 DEF QueueListed
      <3> QED
        BY <1>1, <2>1, <3>3, <3>4, <3>5, <3>8, <3>9, <3>10 DEF QueueListed
    <2>4. CASE ~LeafDies /\ ~(Counted(falling) /\ LastOwner(falling) /\ ~Leaf(falling))
      <3>1. /\ kind' = kind /\ pending' = pending
            /\ count' = count \/ (falling \in Object /\ count[falling] > 1
                                  /\ count' = [count EXCEPT ![falling] = @ - 1])
        BY <1>5, <1>7, <2>4 DEF RcDrop, LeafDies, Counted, Mortal, LastOwner, heapVars
      <3>2. \A o \in Object : (Dead(o)' <=> Dead(o)) /\ kind'[o] = kind[o]
        BY <1>3, <1>5, <3>1 DEF Dead, Free
      <3> QED
        BY <1>1, <1>4, <2>1, <3>1, <3>2 DEF QueueListed, Leaf
    <2> QED
      BY <2>2, <2>3, <2>4 DEF LeafDies
  <1>8. CASE PopPending
    <2>1. /\ visit' = [of |-> Last(pending), next |-> 1] /\ pending' = Front(pending)
          /\ kind' = kind /\ count' = count /\ visit.of = None /\ pending # <<>>
      BY <1>8, VisitFacts DEF PopPending, heapVars
    <2>2. /\ pending' \in Seq(Object) /\ Len(pending') = Len(pending) - 1
          /\ \A i \in 1..(Len(pending) - 1) : pending'[i] = pending[i]
          /\ Len(pending) \in Nat \ {0} /\ Last(pending) = pending[Len(pending)]
          /\ Last(pending) \in Object
      BY <1>6, <2>1, FrontFacts
    <2>3. visit'.of = pending[Len(pending)] /\ visit'.of \in Object /\ visit'.next = 1
      BY <2>1, <2>2
    <2>4. \A o \in Object : (Dead(o)' <=> Dead(o)) /\ (Leaf(o)' <=> Leaf(o))
      BY <2>1 DEF Dead, Free, Leaf
    <2>5. \A i \in 1..Len(pending) : i \in 1..Len(pending') \/ i = Len(pending)
      BY <2>2
    <2>6. \A i \in 1..Len(pending') : i \in 1..Len(pending) /\ i # Len(pending)
      BY <2>2
    <2>7. \A i, j \in 1..Len(pending') : pending'[i] = pending'[j] => i = j
      BY <1>1, <2>2, <2>6 DEF QueueListed
    <2>8. \A i \in 1..Len(pending') : pending'[i] # visit'.of
      BY <1>1, <2>2, <2>3, <2>6 DEF QueueListed
    <2>9. \A o \in Object : Dead(o)' <=> visit'.of = o \/ \E i \in 1..Len(pending') : pending'[i] = o
      <3>1. \A o \in Object : Dead(o) <=> \E i \in 1..Len(pending) : pending[i] = o
        BY <1>1, <2>1, EagerAssumption DEF QueueListed
      <3> QED
        BY <2>2, <2>3, <2>4, <2>5, <2>6, <3>1
    <2>10. visit' \in [of : Object \cup {None}, next : Nat \ {0}] /\ visit'.of # None
      BY <2>1, <2>2, EagerAssumption
    <2> QED
      BY <1>1, <2>2, <2>4, <2>7, <2>8, <2>9, <2>10 DEF QueueListed
  <1>9. CASE VisitField
    <2>1. /\ pending' = pending /\ kind' = kind /\ count' = count /\ visit.of # None
          /\ visit' = [visit EXCEPT !.next = @ + 1]
      BY <1>9, VisitFacts DEF VisitField, heapVars, Advance
    <2>2. visit' \in [of : Object \cup {None}, next : Nat \ {0}] /\ visit'.of = visit.of
      BY <1>1, <2>1 DEF QueueListed
    <2>3. \A o \in Object : (Dead(o)' <=> Dead(o)) /\ (Leaf(o)' <=> Leaf(o))
      BY <2>1 DEF Dead, Free, Leaf
    <2> QED
      BY <1>1, <2>1, <2>2, <2>3 DEF QueueListed
  <1>10. CASE FreeVisited
    <2>1. PICK v \in Object : v = visit.of
      BY <1>10, VisitFacts DEF FreeVisited
    <2>2. /\ kind' = [kind EXCEPT ![v] = "FREE"] /\ count' = count /\ pending' = pending
          /\ visit'.of = None /\ visit'.next = 1
          /\ visit' \in [of : Object \cup {None}, next : Nat \ {0}]
      BY <1>10, <2>1 DEF FreeVisited, NoVisit
    <2>3. \A o \in Object : Dead(o)' <=> Dead(o) /\ o # v
      BY <1>3, <1>5, <2>2 DEF Dead, Free
    <2>4. \A o \in Object : Dead(o)' => ~Leaf(o)'
      BY <1>1, <1>4, <1>5, <2>2, <2>3 DEF QueueListed, Leaf
    <2>5. \A i \in 1..Len(pending) : pending[i] # v /\ pending[i] \in Object
      BY <1>1, <1>6, <2>1 DEF QueueListed
    <2> QED
      BY <1>1, <2>1, <2>2, <2>3, <2>4, <2>5, EagerAssumption DEF QueueListed
  <1> QED
    BY <1>7, <1>8, <1>9, <1>10 DEF Destroy

LEMMA QueueNext ==
    ASSUME Sound, CountExact, Next
    PROVE  QueueSound'
  <1>1. \A o \in Object : Dead(o)' <=> kind'[o] # "FREE" /\ count'[o] = 0
    BY DEF Dead, Free
  <1>2. kind \in [Object -> AllKinds] /\ count \in [Object -> Nat]
    BY DEF Sound, Typed
  <1>3. \A o \in Object : Dead(o) <=> kind[o] # "FREE" /\ count[o] = 0
    BY DEF Dead, Free
  <1>4. ASSUME UNCHANGED <<kind, count, pending, visit>> PROVE QueueSound'
    BY <1>1, <1>3, <1>4, QueueKept
  <1>5. ASSUME UNCHANGED <<kind, pending, visit>>, NEW v \in Object, count[v] > 0,
               count' = [count EXCEPT ![v] = @ + 1]
        PROVE  QueueSound'
    <2>1. \A o \in Object : count'[o] = 0 <=> count[o] = 0
      BY <1>2, <1>5
    <2> QED
      BY <1>1, <1>3, <1>5, <2>1, QueueKept
  <1>6. ASSUME NEW r \in Register, NEW o \in Object, NEW k, NEW n, NEW next,
               Allocate(r, o, k, n, next)
        PROVE  QueueSound'
    <2>1. /\ kind[o] = "FREE" /\ kind' = [kind EXCEPT ![o] = k] /\ count' = [count EXCEPT ![o] = 1]
          /\ UNCHANGED <<pending, visit>>
      BY <1>6 DEF Allocate, Free
    <2>2. \A p \in Object : (Dead(p)' <=> Dead(p)) /\ (Dead(p) => kind'[p] = kind[p])
      BY <1>1, <1>2, <1>3, <2>1
    <2> QED
      BY <2>1, <2>2, QueueKept
  <1>7. ASSUME NEW v \in Operand, NEW next, Acquire(v, next) PROVE QueueSound'
    <2>1. /\ UNCHANGED <<kind, pending, visit>> /\ Idle
          /\ count' = IF v \in Object THEN [count EXCEPT ![v] = @ + 1] ELSE count
      BY <1>7 DEF Acquire, Mortal
    <2>2. v \in Object => count[v] > 0
      BY <2>1, OperandsAreLive
    <2> QED
      BY <1>4, <1>5, <2>1, <2>2
  <1>8. CASE Destroy
    BY <1>8, DestroyQueue
  <1>9. CASE Machine /\ ~Destroy /\ ~RetainRoot
    BY <1>4, <1>9 DEF Machine, StoreLocal, StoreTemporary, StoreNewElement, StoreField, Stored,
                      ReleaseTemporary, ReleaseLocal, PopFrame, Return, heapVars
  <1>10. CASE RetainRoot
    <2>1. PICK v \in Object \cup Literal : v = call.root /\ (v \in Object => count[v] > 0)
      BY <1>10 DEF RetainRoot, Sound, Calls
    <2>2. /\ UNCHANGED <<kind, pending, visit>>
          /\ count' = IF v \in Object THEN [count EXCEPT ![v] = @ + 1] ELSE count
      BY <1>10, <2>1 DEF RetainRoot, Mortal
    <2> QED
      BY <1>4, <1>5, <2>1, <2>2
  <1>11. CASE New \/ Slice
    BY <1>6, <1>11 DEF New, Slice
  <1>12. CASE ListReferences
    <2>1. PICK l \in Operand : Idle /\ l \in Object /\ kind' = [kind EXCEPT ![l] = "REFERENCES"]
                               /\ UNCHANGED <<count, pending, visit>>
      BY <1>12 DEF ListReferences, Mortal, ReferencesKind
    <2>2. count[l] > 0
      BY <2>1, OperandsAreLive
    <2>3. \A p \in Object : (Dead(p)' <=> Dead(p)) /\ (Dead(p) => kind'[p] = kind[p])
      BY <1>1, <1>2, <1>3, <2>1, <2>2
    <2> QED
      BY <2>1, <2>3, QueueKept
  <1>13. CASE RetainResult
    <2>1. PICK v \in Operand :
             /\ UNCHANGED <<kind, pending, visit>> /\ Idle
             /\ count' = IF v \in Object THEN [count EXCEPT ![v] = @ + 1] ELSE count
      BY <1>13 DEF RetainResult, Mortal
    <2>2. v \in Object => count[v] > 0
      BY <2>1, OperandsAreLive
    <2> QED
      BY <1>4, <1>5, <2>1, <2>2
  <1>14. CASE Local \/ Keep \/ ListAdd \/ ListSet \/ RecordSet
    <2>1. PICK v \in Operand, next \in {call'} : AcquireOrTake(v, next)
      <3>1. \A v, next : AcquireOrTake(v, next) => next = call'
        BY DEF AcquireOrTake, Acquire, Take
      <3>2. CASE RecordSet
        BY <3>1, <3>2 DEF RecordSet
      <3>3. CASE Local \/ Keep \/ ListAdd \/ ListSet
        BY <3>1, <3>3 DEF Local, Keep, ListAdd, ListSet
      <3> QED
        BY <1>14, <3>2, <3>3
    <2>2. CASE \E r \in Register : Take(r, next)
      BY <1>4, <2>2 DEF Take, heapVars
    <2> QED
      BY <1>7, <2>1, <2>2 DEF AcquireOrTake
  <1>15. CASE LocalMove \/ ReleaseResult \/ Enter \/ StepOrLeave
    BY <1>4, <1>15 DEF LocalMove, ReleaseResult, Enter, StepOrLeave, heapVars
  <1> QED
    BY <1>8, <1>9, <1>10, <1>11, <1>12, <1>13, <1>14, <1>15 DEF Next, Program, Machine
-----------------------------------------------------------------------------
LEMMA CallsEnd ==
    ASSUME hand' = None, call'.op \in {"none", "return"}, call'.op = "none" => Settled'
    PROVE  Calls'
  BY DEF Calls, Doing, Stores

LEMMA DestroyCalls ==
    ASSUME Sound, Destroy
    PROVE  Calls'
  <1>1. /\ UNCHANGED <<call, hand, frames>> /\ ~Settled
    BY DEF Destroy, RcDrop, PopPending, VisitField, FreeVisited, Settled
  <1>2. call.op \in {"return", "step", "leave"} /\ hand = None
    BY <1>1 DEF Sound, Calls, Stores
  <1> QED
    BY <1>1, <1>2 DEF Sound, Calls, Doing, Stores, Top

(* The locals released so far are empty. *)
LEMMA ReleaseCalls ==
    ASSUME Sound, ReleaseTemporary \/ ReleaseLocal
    PROVE  Calls'
  <1>1. call.op \in {"step", "leave"} /\ Top > 0 /\ hand = None /\ hand' = hand
    BY DEF ReleaseTemporary, ReleaseLocal, Sound, Calls, Doing, Stores
  <1>2. PICK d \in 1..Top : d = Top
    BY <1>1, FrameFacts
  <1>3. CASE ReleaseTemporary
    <2>1. Front(frames[d].temps) \in Seq(Value)
      BY <1>2, <1>3, FrameFacts, FrontFacts DEF ReleaseTemporary
    <2>2. frames' = [frames EXCEPT ![d].temps = Front(frames[d].temps)] /\ call' = call
      BY <1>2, <1>3 DEF ReleaseTemporary
    <2>3. Top' = Top /\ frames'[d].locals = frames[d].locals
      BY <2>1, <2>2, TempsReplaced DEF Top
    <2> QED
      BY <1>1, <1>2, <2>2, <2>3 DEF Sound, Calls, Doing, Stores
  <1>4. CASE ReleaseLocal
    <2>1. PICK k \in Nat : k = call.next /\ k \in 1..Len(frames[d].locals)
      BY <1>2, <1>4, FrameFacts DEF ReleaseLocal, LocalsLeft, Sound, Calls
    <2>2. /\ frames' = [frames EXCEPT ![d].locals[k] = None] /\ call' = [call EXCEPT !.next = @ + 1]
          /\ call.op = "leave"
      BY <1>2, <1>4, <2>1 DEF ReleaseLocal, Doing
    <2>3. /\ Top' = Top /\ Len(frames'[d].locals) = Len(frames[d].locals)
          /\ \A i \in 1..Len(frames[d].locals) :
                frames'[d].locals[i] = IF i = k THEN None ELSE frames[d].locals[i]
      <3>1. None \in Value
        BY DEF Value
      <3> QED
        BY <2>1, <2>2, <3>1, LocalReplaced DEF Top
    <2>4. \A i \in 1..Len(frames[d].locals) : i < k => frames[d].locals[i] = None
      BY <1>2, <2>1, <2>2 DEF Sound, Calls, Doing
    <2>5. call' = [op |-> "leave", next |-> k + 1] /\ call'.op = "leave" /\ call'.next = k + 1
      <3>1. call = [op |-> "leave", next |-> k]
        BY <2>1, <2>2 DEF Sound, Calls, Doing
      <3> QED
        BY <2>2, <3>1
    <2>6. \A i \in 1..Len(frames'[d].locals) : i < k + 1 => frames'[d].locals[i] = None
      BY SMTT(60), <2>1, <2>3, <2>4
    <2> QED
      BY <1>1, <1>2, <2>3, <2>5, <2>6 DEF Calls, Doing, Stores
  <1> QED
    BY <1>3, <1>4

(* A value that a Text can be a view of. *)
LEMMA RootOfText ==
    ASSUME Sound, CountExact, Idle, NEW t \in Operand, Mortal(t) => kind[t] = "TEXT"
    PROVE  /\ TextRoot(t) \in Object \cup Literal
           /\ TextRoot(t) \in Object => count[TextRoot(t)] > 0
           /\ IsRoot(TextRoot(t))
  <1>1. t \in Object \cup Literal /\ (t \in Object => count[t] > 0)
    BY OperandsAreLive
  <1>2. CASE t \notin Object
    BY <1>1, <1>2 DEF TextRoot, Mortal, IsRoot
  <1>3. CASE t \in Object /\ fields[t][1] = None
    BY <1>1, <1>3 DEF TextRoot, Mortal, IsRoot
  <1>4. CASE t \in Object /\ fields[t][1] # None
    <2>1. PICK r \in Value : r = fields[t][1]
      <3>1. 1 \in 1..Len(fields[t])
        BY <1>4 DEF Mortal, Sound, Shapes
      <3> QED
        BY <1>4, <3>1, FieldFacts
    <2>2. TextRoot(t) = r /\ r \in Object \cup Literal
      BY <1>4, <2>1 DEF TextRoot, Mortal, Value
    <2>3. r \in Object => count[r] > 0 /\ kind[r] = "TEXT" /\ fields[r][1] = None
      BY <1>4, <2>1, RootFacts DEF Mortal
    <2> QED
      BY <2>2, <2>3 DEF IsRoot
  <1> QED
    BY <1>2, <1>3, <1>4

LEMMA SliceCalls ==
    ASSUME Sound, CountExact, Slice
    PROVE  Calls'
  <1>1. PICK r \in Register, o \in Object, t \in Operand :
           /\ Mortal(t) => kind[t] = "TEXT"
           /\ Allocate(r, o, "TEXT", 1, [op |-> "view", of |-> o, root |-> TextRoot(t)])
    BY DEF Slice
  <1>2. PICK v : v = TextRoot(t)
    OBVIOUS
  <1>3. /\ Idle /\ kind[o] = "FREE" /\ kind' = [kind EXCEPT ![o] = "TEXT"]
        /\ count' = [count EXCEPT ![o] = 1]
        /\ fields' = [fields EXCEPT ![o] = [i \in 1..1 |-> None]]
        /\ call' = [op |-> "view", of |-> o, root |-> v]
        /\ UNCHANGED <<hand, falling, pending, visit>>
    BY <1>1, <1>2 DEF Allocate, Free
  <1>4. hand = None /\ falling = None /\ visit = NoVisit /\ pending = <<>>
    BY <1>3 DEF Idle, Sound, Calls, Stores, Settled
  <1>5. v \in Object \cup Literal /\ (v \in Object => count[v] > 0) /\ IsRoot(v)
    BY <1>1, <1>2, <1>3, RootOfText
  <1>6. /\ kind'[o] = "TEXT" /\ count'[o] = 1 /\ fields'[o][1] = None
        /\ \A p \in Object \ {o} : kind'[p] = kind[p] /\ fields'[p] = fields[p] /\ count'[p] = count[p]
    BY <1>3 DEF Sound, Typed
  <1>7. v # o /\ o # None
    BY <1>3, <1>5, EagerAssumption DEF IsRoot
  <1>8. IsRoot(v)'
    BY <1>5, <1>6, <1>7 DEF IsRoot
  <1>9. ASSUME NEW p \in Object, kind'[p] = "TEXT" PROVE fields'[p][1] # o
    <2>1. CASE p = o
      BY <1>6, <1>7, <2>1
    <2>2. CASE p # o
      BY <1>3, <1>6, <1>9, <2>2 DEF Sound, Views, IsRoot
    <2> QED
      BY <2>1, <2>2
  <1>10. BacksNone(o)'
    BY <1>9 DEF BacksNone
  <1>11. v \in Object => count'[v] > 0
    BY <1>5, <1>6, <1>7
  <1>12. call'.op = "view" /\ call'.of = o /\ call'.root = v
    BY <1>3
  <1>13. Settled'
    BY <1>3, <1>4 DEF Settled
  <1>14. IsRoot(call.root)' /\ BacksNone(call.of)'
    BY <1>8, <1>9, <1>12 DEF IsRoot, BacksNone
  <1> QED
    BY <1>3, <1>4, <1>5, <1>6, <1>7, <1>11, <1>12, <1>13, <1>14 DEF Calls, Doing, Stores

LEMMA RetainRootCalls ==
    ASSUME Sound, RetainRoot
    PROVE  Calls'
  <1>1. PICK o \in Object, v \in Object \cup Literal :
           /\ o = call.of /\ count[o] > 0 /\ kind[o] = "TEXT"
           /\ v = call.root /\ IsRoot(v) /\ v # o /\ BacksNone(o)
    BY DEF RetainRoot, Sound, Calls
  <1>2. /\ hand' = v /\ call' = [op |-> "field", of |-> o, index |-> 1]
        /\ UNCHANGED <<kind, fields, falling, pending, visit>> /\ Settled
        /\ count' = IF v \in Object THEN [count EXCEPT ![v] = @ + 1] ELSE count
    BY <1>1 DEF RetainRoot, Mortal
  <1>3. count'[o] > 0 /\ Len(fields[o]) = 1
    BY <1>1, <1>2 DEF Sound, Typed, Shapes
  <1>4. call'.op = "field" /\ call'.of = o /\ call'.index = 1
    BY <1>2
  <1>5. IsRoot(hand)' /\ BacksNone(call.of)' /\ Settled'
    BY <1>1, <1>2, <1>4 DEF IsRoot, BacksNone, Settled
  <1> QED
    BY <1>1, <1>2, <1>3, <1>4, <1>5 DEF Calls, Doing, Stores

LEMMA AcquireOrTakeKeeps ==
    ASSUME Sound, NEW v \in Operand, NEW next, AcquireOrTake(v, next)
    PROVE  /\ Idle /\ Settled /\ Settled' /\ call' = next
           /\ UNCHANGED <<kind, fields, frames>>
           /\ \A o \in Object : count[o] > 0 => count'[o] > 0
  <1>1. Idle /\ call' = next /\ UNCHANGED <<kind, fields, frames, falling, pending, visit>>
    BY DEF AcquireOrTake, Acquire, Take, heapVars
  <1>2. Settled
    BY <1>1 DEF Idle, Sound, Calls
  <1>3. \A o \in Object : count[o] > 0 => count'[o] > 0
    BY DEF AcquireOrTake, Acquire, Take, heapVars, Sound, Typed
  <1> QED
    BY <1>1, <1>2, <1>3 DEF Settled

LEMMA StoringCalls ==
    ASSUME Sound, CountExact, Local \/ Keep \/ ListAdd \/ ListSet \/ RecordSet, UNCHANGED program
    PROVE  Calls'
  <1>1. CASE Local
    <2>1. PICK v \in Operand, i \in 1..MaxLocals :
             /\ Top > 0 /\ i <= Len(frames[Top].locals)
             /\ AcquireOrTake(v, [op |-> "local", index |-> i])
      BY <1>1 DEF Local
    <2>2. Settled' /\ call' = [op |-> "local", index |-> i] /\ frames' = frames
      BY <2>1, AcquireOrTakeKeeps
    <2>3. i \in 1..Len(frames[Top].locals)
      BY <2>1, FrameFacts
    <2> QED
      BY <2>1, <2>2, <2>3 DEF Calls, Doing, Stores, Top
  <1>2. CASE Keep
    <2>1. PICK v \in Operand : /\ Top > 0 /\ Len(frames[Top].temps) < Temporaries
                               /\ AcquireOrTake(v, [op |-> "keep"])
      BY <1>2 DEF Keep
    <2>2. Settled' /\ call' = [op |-> "keep"] /\ frames' = frames
      BY <2>1, AcquireOrTakeKeeps
    <2> QED
      BY <2>1, <2>2 DEF Calls, Doing, Stores, Top, Temporaries
  <1>3. CASE ListAdd
    <2>1. PICK l \in Operand, v \in Operand :
             /\ l \in Object /\ kind[l] = "REFERENCES" /\ Len(fields[l]) < Width
             /\ AcquireOrTake(v, [op |-> "append", of |-> l])
      BY <1>3 DEF ListAdd, Mortal
    <2>2. Settled' /\ call' = [op |-> "append", of |-> l] /\ UNCHANGED <<kind, fields, frames>> /\ Idle
          /\ (count[l] > 0 => count'[l] > 0)
      BY <2>1, AcquireOrTakeKeeps
    <2>3. count'[l] > 0
      BY <2>1, <2>2, OperandsAreLive
    <2> QED
      BY <2>1, <2>2, <2>3 DEF Calls, Doing, Stores
  <1>4. ASSUME NEW o \in Object, NEW v \in Operand, NEW i \in Index, kind[o] # "TEXT", count[o] > 0,
               i <= Len(fields[o]), AcquireOrTake(v, [op |-> "field", of |-> o, index |-> i])
        PROVE  Calls'
    <2>1. /\ Settled' /\ call' = [op |-> "field", of |-> o, index |-> i]
          /\ UNCHANGED <<kind, fields, frames>> /\ count'[o] > 0
      BY <1>4, AcquireOrTakeKeeps
    <2>2. call'.op = "field" /\ call'.of = o /\ call'.index = i
      BY <2>1
    <2>3. i \in 1..Len(fields[o])
      BY <1>4, FieldFacts DEF Index
    <2> QED
      BY <1>4, <2>1, <2>2, <2>3 DEF Calls, Doing, Stores
  <1>5. CASE ListSet
    <2>1. PICK l \in Operand, v \in Operand, i \in Index :
             /\ l \in Object /\ kind[l] = "REFERENCES" /\ i <= Len(fields[l])
             /\ AcquireOrTake(v, [op |-> "field", of |-> l, index |-> i])
      BY <1>5 DEF ListSet, Mortal
    <2>2. count[l] > 0
      BY <2>1, OperandsAreLive, AcquireOrTakeKeeps
    <2> QED
      BY <1>4, <2>1, <2>2
  <1>6. CASE RecordSet
    <2>1. PICK o \in Object, v \in Operand, i \in Index :
             /\ kind[o] = "RECORD" /\ count[o] = 1 /\ i <= Len(fields[o])
             /\ AcquireOrTake(v, [op |-> "field", of |-> o, index |-> i])
      BY <1>6 DEF RecordSet, Mortal
    <2> QED
      BY <1>4, <2>1
  <1> QED
    BY <1>1, <1>2, <1>3, <1>5, <1>6

LEMMA CallsNext ==
    ASSUME Sound, CountExact, Next
    PROVE  Calls'
  <1>1. Idle => hand = None /\ Settled
    BY DEF Idle, Sound, Calls, Stores
  <1>2. CASE Destroy
    BY <1>2, DestroyCalls
  <1>3. CASE StoreLocal \/ StoreTemporary \/ StoreNewElement \/ StoreField
    <2>1. hand' = None /\ call' = [op |-> "return"]
      BY <1>3 DEF StoreLocal, StoreTemporary, StoreNewElement, StoreField, Stored
    <2> QED
      BY <2>1, CallsEnd
  <1>4. CASE RetainRoot
    BY <1>4, RetainRootCalls
  <1>5. CASE ReleaseTemporary \/ ReleaseLocal
    BY <1>5, ReleaseCalls
  <1>6. CASE PopFrame \/ Return
    <2>1. /\ hand' = hand /\ hand = None /\ call' = [op |-> "none"]
          /\ UNCHANGED <<falling, visit, pending>> /\ Settled
      BY <1>6 DEF PopFrame, Return, Done, Doing, Sound, Calls, Stores
    <2> QED
      BY <2>1, CallsEnd DEF Settled
  <1>7. CASE New
    <2>1. /\ Idle /\ hand' = hand /\ call' = [op |-> "none"] /\ UNCHANGED <<falling, visit, pending>>
      BY <1>7 DEF New, Allocate, Done
    <2> QED
      BY <1>1, <2>1, CallsEnd DEF Settled
  <1>8. CASE Slice
    BY <1>8, SliceCalls
  <1>9. CASE ListReferences \/ RetainResult \/ LocalMove \/ Enter
    <2>1. Idle /\ UNCHANGED <<hand, call, falling, visit, pending>>
      BY <1>9 DEF ListReferences, RetainResult, LocalMove, Enter
    <2> QED
      BY <1>1, <2>1, CallsEnd DEF Idle, Settled
  <1>10. CASE ReleaseResult
    <2>1. Idle /\ hand' = hand /\ call' = [op |-> "return"]
      BY <1>10 DEF ReleaseResult
    <2> QED
      BY <1>1, <2>1, CallsEnd
  <1>11. CASE StepOrLeave
    <2>1. PICK op \in {"step", "leave"} :
             /\ Idle /\ Top > 0 /\ call' = [op |-> op, next |-> 1]
             /\ UNCHANGED <<frames, hand>>
      BY <1>11 DEF StepOrLeave
    <2>2. call'.op = op /\ call'.next = 1 /\ op \notin Stores /\ Top' = Top
      BY <2>1 DEF Stores, Top
    <2> QED
      BY <1>1, <2>1, <2>2 DEF Calls, Doing, Stores
  <1>12. CASE Local \/ Keep \/ ListAdd \/ ListSet \/ RecordSet
    BY <1>12, StoringCalls DEF Next
  <1> QED
    BY <1>2, <1>3, <1>4, <1>5, <1>6, <1>7, <1>8, <1>9, <1>10, <1>11, <1>12
       DEF Next, Program, Machine
-----------------------------------------------------------------------------
(***************************************************************************)
(* The invariant, and what follows from it.                                *)
(***************************************************************************)
LEMMA NextForms ==
    ASSUME IInv, Next
    PROVE  StepForms
  BY MachineForm, ProgramForm DEF IInv, Next

LEMMA InitIsSound == Init => IInv
  <1> SUFFICES ASSUME Init PROVE IInv
    OBVIOUS
  <1>1. /\ None \in Value /\ \A S : <<>> \in Seq(S)
        /\ Len(frames) = 0 /\ Len(pending) = 0 /\ \A o \in Object : Len(fields[o]) = 0
    BY EmptySeq DEF Value, Init
  <1>2. Typed
    BY <1>1, EagerAssumption DEF Init, Typed, AllKinds, NoVisit
  <1>3. WithinSlots
    BY <1>1, <1>2, EagerAssumption DEF Init, WithinSlots, Top, Typed, Depth
  <1>4. Shapes /\ Views
    BY DEF Init, Shapes, Views, Free
  <1>5. Queued
    <2>1. visit.of = None /\ visit.next = 1 /\ ToSet(pending) = {} /\ IsInjective(pending)
          /\ \A o \in Object : ~Dead(o)
      BY DEF Init, NoVisit, ToSet, IsInjective, Dead, Free
    <2> QED
      BY <2>1 DEF Queued, DeadQueuedOnce
  <1>6. Calls
    BY DEF Init, Calls, Doing, Done, Stores, Settled
  <1>7. Sound
    BY <1>2, <1>3, <1>4, <1>5, <1>6 DEF Sound
  <1>8. CountExact
    <2>1. \A s \in Slot : held[s] = None
      <3>1. \A r \in Register : reg[r] = None
        BY DEF Init
      <3>2. hand = None /\ falling = None
        BY DEF Init
      <3>3. \A d \in 1..MaxFrames : \A i : InFrame(d, i) = None /\ TempIn(d, i) = None
        BY <1>1 DEF InFrame, TempIn, Top
      <3>4. \A o \in Object, i \in Index : Unvisited(o, i) = None
        BY DEF Init, Unvisited, At
      <3> QED
        BY <3>1, <3>2, <3>3, <3>4, Forms, SlotForms DEF HeldForms
    <2>2. \A o \in Object : Holders(held, o) = {}
      BY <2>1, EagerAssumption DEF Holders
    <2> QED
      BY <2>2, ExactlyHolders, FS_EmptySet DEF Exactly, Init
  <1> QED
    BY <1>7, <1>8 DEF IInv

LEMMA StepIsSound == IInv /\ [Next]_vars => IInv'
  <1> SUFFICES ASSUME IInv, [Next]_vars PROVE IInv'
    OBVIOUS
  <1>1. Sound /\ CountExact
    BY DEF IInv
  <1>2. CASE Next
    <2>1. StepForms
      BY <1>2, NextForms
    <2>2. CountExact'
      BY <1>1, <2>1, FormsKeepCounts
    <2>3. HeapSound'
      BY <1>1, <1>2, MachineHeap, ProgramHeap DEF Next
    <2>4. FramesSound'
      BY <1>1, <1>2, FramesNext
    <2>5. QueueSound'
      BY <1>1, <1>2, QueueNext
    <2>6. Calls'
      BY <1>1, <1>2, CallsNext
    <2>7. reg' \in [Register -> Value] /\ hand' \in Value /\ falling' \in Value
      BY <1>1, <1>2, <2>1, RegistersNext
    <2>8. program' \in DOMAIN Programs
      BY <1>1, <1>2 DEF Next, Sound, Typed
    <2>9. Sound'
      BY <2>3, <2>4, <2>5, <2>6, <2>7, <2>8
         DEF Sound, Typed, WithinSlots, HeapSound, FramesSound, QueueSound
    <2> QED
      BY <2>2, <2>9 DEF IInv
  <1>3. CASE UNCHANGED vars
    <2>1. UNCHANGED <<program, kind, count, fields, frames, reg, hand, falling, pending, visit, call>>
      BY <1>3 DEF vars, heapVars
    <2>2. Typed' /\ WithinSlots'
      BY <1>1, <2>1 DEF Sound, Typed, WithinSlots, Top, Depth
    <2>3. Shapes' /\ Views'
      BY <1>1, <2>1 DEF Sound, Shapes, Views, IsRoot, Free
    <2>4. Queued'
      BY <1>1, <2>1 DEF Sound, Queued, DeadQueuedOnce, Dead, Free, Leaf
    <2>5. Calls'
      BY <1>1, <2>1 DEF Sound, Calls, Doing, Settled, Top, Temporaries, IsRoot, BacksNone
    <2>6. CountExact'
      BY <1>1, <2>1 DEF CountExact, Held, Visited, At, Top
    <2> QED
      BY <2>2, <2>3, <2>4, <2>5, <2>6 DEF IInv, Sound
  <1> QED
    BY <1>2, <1>3

(* The default profile's counts are exact at every step: a reference count *)
(* is the number of slots that own the value (minyar_rc_retain, rc_drop    *)
(* and minyar_rc_release).                                                 *)
THEOREM CountsAreExact == Spec => []CountExact
  <1>1. IInv => CountExact
    BY DEF IInv
  <1> QED
    BY <1>1, InitIsSound, StepIsSound, PTL DEF Spec

(* A value with a zero count is on the work list once, or is the one whose *)
(* fields are visited, so minyar_rc_release frees none twice; and the      *)
(* types of the default profile's variables are kept.                      *)
THEOREM DeadAreQueuedOnce == Spec => [](TypeOK /\ DeadQueuedOnce)
  <1>1. IInv => TypeOK /\ DeadQueuedOnce
    <2> SUFFICES ASSUME IInv PROVE TypeOK /\ DeadQueuedOnce
      OBVIOUS
    <2>1. ASSUME NEW o \in Object PROVE count[o] \in 0..Cardinality(Slot)
      <3>1. count[o] = Cardinality(Holders(held, o)) /\ count[o] \in Nat
        BY ExactlyHolders DEF Exactly, IInv, Sound, Typed
      <3>2. Holders(held, o) \subseteq Slot
        BY DEF Holders
      <3>3. Cardinality(Holders(held, o)) <= Cardinality(Slot) /\ Cardinality(Slot) \in Nat
        BY <3>2, SlotsAreFinite, FS_Subset, FS_CardinalityType
      <3> QED
        BY <3>1, <3>3
    <2>2. \A o \in Object : ToSet(fields[o]) \subseteq Object \cup Literal \cup {None}
      BY FieldFacts DEF IInv, ToSet, Value
    <2>3. TypeOK
      BY <2>1, <2>2 DEF IInv, Sound, Typed, WithinSlots, TypeOK, AllKinds, Value
    <2> QED
      BY <2>3 DEF IInv, Sound, Queued
  <1> QED
    BY <1>1, InitIsSound, StepIsSound, PTL DEF Spec

(* The default profile implements the ownership contract: no value is      *)
(* reclaimed while a slot owns it, and none that lost its last owner gets  *)
(* another.                                                                *)
THEOREM DefaultProfileImplementsOwnership == Spec => ImplementsOwnership
  <1>1. Init => Contract!Init
    <2> SUFFICES ASSUME Init PROVE Contract!Init
      OBVIOUS
    <2>1. \A s \in Slot : edge[s] = None
      <3>1. CountExact /\ Sound
        BY InitIsSound DEF IInv
      <3>2. \A o \in Object : count[o] = 0
        BY DEF Init
      <3>3. \A s \in Slot : held[s] \notin Object
        BY <3>1, <3>2, HolderFacts
      <3> QED
        BY <3>3, EdgeFacts DEF Edges
    <2>2. edge = [s \in Slot |-> None]
      BY <2>1, EdgeFacts DEF Edges
    <2>3. status = [o \in Object |-> "free"]
      BY DEF Init, status, Free
    <2> QED
      BY <2>2, <2>3 DEF Contract!Init, Contract!Slot, Contract!Field, Slot
  <1>2. IInv /\ [Next]_vars => [Contract!Next]_(Contract!vars)
    <2> SUFFICES ASSUME IInv, [Next]_vars PROVE [Contract!Next]_(Contract!vars)
      OBVIOUS
    <2>1. CASE Next
      BY <2>1, NextForms, StepMaps DEF IInv
    <2>2. CASE UNCHANGED vars
      <3>1. UNCHANGED <<kind, count, fields, frames, reg, hand, falling, visit>>
        BY <2>2 DEF vars, heapVars
      <3>2. edge' = edge /\ status' = status
        BY <3>1 DEF edge, Held, Visited, At, Top, status, Free, Dead
      <3> QED
        BY <3>2 DEF Contract!vars
    <2> QED
      BY <2>1, <2>2
  <1> QED
    BY <1>1, <1>2, InitIsSound, StepIsSound, PTL DEF Spec, ImplementsOwnership, Contract!Spec

(* rc_drop calls itself for the root of a view only, and a root has none:  *)
(* releasing a graph of any depth never recurses deeper.                   *)
THEOREM ViewsDropOnce == Spec => DropsRecurseOnce
  <1> DEFINE Once == \A o \in Object :
                (falling = o /\ falling' # None /\ kind'[o] = "FREE")
                   => falling' \in Literal \/ fields[falling'][1] = None
  <1>1. IInv /\ [Next]_vars => [Once]_vars
    <2> SUFFICES ASSUME IInv, Next, NEW o \in Object, falling = o, falling' # None, kind'[o] = "FREE"
                 PROVE  falling' \in Literal \/ fields[falling'][1] = None
      BY DEF Once
    <2>1. ~Settled /\ Sound
      BY EagerAssumption DEF Settled, IInv
    <2>2. RcDrop
      <3>1. ~Idle
        BY <2>1 DEF Idle, Sound, Calls
      <3>2. ~Program
        BY <3>1 DEF Program, New, ListReferences, Slice, Allocate, RetainResult, Local, Keep,
                    ListAdd, ListSet, RecordSet, AcquireOrTake, Acquire, Take, LocalMove,
                    ReleaseResult, Enter, StepOrLeave
      <3>3. Machine => Destroy
        BY <2>1 DEF Machine, StoreLocal, StoreTemporary, StoreNewElement, StoreField, RetainRoot,
                    ReleaseTemporary, ReleaseLocal, PopFrame, Return
      <3> QED
        BY <3>2, <3>3, EagerAssumption DEF Next, Destroy, PopPending, VisitField, FreeVisited
    <2>3. LeafDies
      BY <2>2, EagerAssumption DEF RcDrop, LeafDies
    <2>4. falling' = Backing(o) /\ kind[o] = "TEXT" /\ falling' = fields[o][1]
      BY <2>2, <2>3, EagerAssumption DEF RcDrop, LeafDies, Backing
    <2>5. falling' \in Value
      BY <2>1, <2>4, FieldFacts DEF Sound, Shapes
    <2> QED
      BY <2>1, <2>4, <2>5 DEF Sound, Views, IsRoot, Value
  <1> QED
    BY <1>1, InitIsSound, StepIsSound, PTL DEF Spec, DropsRecurseOnce

(* The contract's own proofs, over the slots of the default profile. *)
ContractProofs == INSTANCE OwnershipProofs WITH Root <- RootSlot

(* No slot of the default profile owns a value that has been or is being   *)
(* reclaimed, every value that is alive has an owner, and a reclaimed one  *)
(* owns nothing.                                                           *)
THEOREM DefaultProfileIsSafe == Spec => []Contract!Safety
  <1>1. ContractProofs!OwnershipAssumption
    BY ContractAssumption DEF Contract!OwnershipAssumption, ContractProofs!OwnershipAssumption
  <1>2. ContractProofs!Spec => []ContractProofs!Safety
    BY <1>1, ContractProofs!ContractIsSafe
  <1>3. ContractProofs!Init <=> Contract!Init
    BY DEF ContractProofs!Init, Contract!Init, ContractProofs!Slot, Contract!Slot,
           ContractProofs!Field, Contract!Field
  <1>4. [ContractProofs!Next]_ContractProofs!vars <=> [Contract!Next]_Contract!vars
    BY DEF ContractProofs!Next, Contract!Next, ContractProofs!Allocate, Contract!Allocate,
           ContractProofs!Share, Contract!Share, ContractProofs!Move, Contract!Move,
           ContractProofs!Exchange, Contract!Exchange, ContractProofs!Drop, Contract!Drop,
           ContractProofs!Unwrap, Contract!Unwrap, ContractProofs!Reclaim, Contract!Reclaim,
           ContractProofs!Writable, Contract!Writable, ContractProofs!OwnedElsewhere,
           Contract!OwnedElsewhere, ContractProofs!Full, Contract!Full, ContractProofs!Empty,
           Contract!Empty, ContractProofs!Emptied, Contract!Emptied, ContractProofs!HoldsNothing,
           Contract!HoldsNothing, ContractProofs!Slot, Contract!Slot, ContractProofs!Field,
           Contract!Field, ContractProofs!vars, Contract!vars
  <1>5. ContractProofs!Safety <=> Contract!Safety
    BY DEF ContractProofs!Safety, Contract!Safety, ContractProofs!NoDangling,
           Contract!NoDangling, ContractProofs!LiveIsOwned, Contract!LiveIsOwned,
           ContractProofs!FreeHoldsNothing, Contract!FreeHoldsNothing,
           ContractProofs!HoldsNothing, Contract!HoldsNothing, ContractProofs!Slot,
           Contract!Slot, ContractProofs!Field, Contract!Field
  <1>6. ContractProofs!Spec <=> Contract!Spec
    BY <1>3, <1>4, PTL DEF ContractProofs!Spec, Contract!Spec
  <1> QED
    BY <1>2, <1>5, <1>6, DefaultProfileImplementsOwnership, PTL DEF ImplementsOwnership
-----------------------------------------------------------------------------
(***************************************************************************)
(* minyar_rc_release returns: what it has still to do gets less.           *)
(***************************************************************************)
(* What Remaining counts is finite. *)
LEMMA WorkIsFinite ==
    /\ IsFiniteSet(Allocated) /\ Cardinality(Allocated) \in Nat
    /\ IsFiniteSet(FieldsLeft) /\ Cardinality(FieldsLeft) \in Nat
  <1>1. IsFiniteSet(Object) /\ Width \in Nat
    BY EagerAssumption
  <1>2. IsFiniteSet(Index)
    BY <1>1, FS_Interval DEF Index
  <1>3. IsFiniteSet(Object \X Index)
    BY <1>1, <1>2, FS_Product
  <1>4. Allocated \subseteq Object /\ FieldsLeft \subseteq Object \X Index
    BY DEF Allocated, FieldsLeft
  <1> QED
    BY <1>1, <1>3, <1>4, FS_Subset, FS_CardinalityType

LEMMA WorkStaysFinite ==
    /\ IsFiniteSet(Allocated') /\ Cardinality(Allocated') \in Nat
    /\ IsFiniteSet(FieldsLeft') /\ Cardinality(FieldsLeft') \in Nat
  <1>1. (/\ IsFiniteSet(Allocated) /\ Cardinality(Allocated) \in Nat
         /\ IsFiniteSet(FieldsLeft) /\ Cardinality(FieldsLeft) \in Nat)'
    BY WorkIsFinite, PTL
  <1> QED
    BY <1>1

(* The same work and less work, in sizes. *)
LEMMA SameOrLess ==
    ASSUME NEW S, NEW T, IsFiniteSet(S)
    PROVE  /\ T \subseteq S => Cardinality(T) <= Cardinality(S)
           /\ \A x \in S : T = S \ {x} => Cardinality(T) = Cardinality(S) - 1
  BY FS_Subset, FS_RemoveElement

(* A field is left if the value has it and the visit has not passed it. *)
LEMMA LeftFields ==
    ASSUME Sound
    PROVE  \A o \in Object, i \in Index :
              <<o, i>> \in FieldsLeft <=> i \in 1..Len(fields[o]) /\ ~Visited(o, i)
  <1>1. \A o \in Object : DOMAIN fields[o] = 1..Len(fields[o])
    BY DEF Sound, Typed
  <1> QED
    BY <1>1 DEF FieldsLeft

LEMMA LeftFieldsNext ==
    Sound' => \A o \in Object, i \in Index :
                 <<o, i>> \in FieldsLeft' <=> i \in 1..Len(fields'[o]) /\ ~Visited(o, i)'
  <1>1. Sound => \A o \in Object, i \in Index :
                 <<o, i>> \in FieldsLeft <=> i \in 1..Len(fields[o]) /\ ~Visited(o, i)
    BY LeftFields
  <1>2. Sound' => (\A o \in Object, i \in Index :
                 <<o, i>> \in FieldsLeft <=> i \in 1..Len(fields[o]) /\ ~Visited(o, i))'
    BY <1>1, PTL
  <1> QED
    BY <1>2

LEMMA LeftSubset ==
    ASSUME Sound, Sound',
           \A o \in Object, i \in Index :
              i \in 1..Len(fields'[o]) /\ ~Visited(o, i)' => i \in 1..Len(fields[o]) /\ ~Visited(o, i)
    PROVE  FieldsLeft' \subseteq FieldsLeft
  <1>1. ASSUME NEW s \in FieldsLeft' PROVE s \in FieldsLeft
    <2>1. s \in Object \X Index
      BY DEF FieldsLeft
    <2>2. PICK o \in Object, i \in Index : s = <<o, i>>
      BY <2>1
    <2> QED
      BY <1>1, <2>2, LeftFields, LeftFieldsNext
  <1> QED
    BY <1>1

(* The other two terms. *)
InHand == IF falling = None THEN 0 ELSE 2

LEMMA LessRemains ==
    ASSUME NEW a \in Nat, NEW b \in Nat, NEW c \in Nat, NEW d \in {0, 2},
           NEW x \in Nat, NEW y \in Nat, NEW z \in Nat, NEW w \in {0, 2},
           Cardinality(Allocated) = a, Cardinality(FieldsLeft) = b, Len(pending) = c, InHand = d,
           Cardinality(Allocated') = x, Cardinality(FieldsLeft') = y, Len(pending') = z,
           InHand' = w,
           x + 3 * y + z + w < a + 3 * b + c + d
    PROVE  Remaining' < Remaining
  <1>1. Remaining = a + 3 * b + c + d /\ Remaining' = x + 3 * y + z + w
    BY DEF Remaining, InHand
  <1> QED
    BY <1>1

(* rc_drop passes on less than it was given. *)
LEMMA DropShrinks ==
    ASSUME Sound, Sound', RcDrop
    PROVE  Remaining' < Remaining
  <1> PICK o : o = falling
    OBVIOUS
  <1>1. PICK a \in Nat, b \in Nat, x \in Nat, y \in Nat :
          /\ Cardinality(Allocated) = a /\ Cardinality(FieldsLeft) = b
          /\ Cardinality(Allocated') = x /\ Cardinality(FieldsLeft') = y
    BY WorkIsFinite, WorkStaysFinite
  <1>2. PICK c \in Nat, z \in Nat : Len(pending) = c /\ Len(pending') = z
    BY DEF Sound, Typed
  <1>3. InHand = 2 /\ falling # None /\ visit' = visit
    BY DEF InHand, RcDrop
  <1>4. CASE \/ ~Counted(o)
             \/ Counted(o) /\ ~LastOwner(o)
    <2>1. UNCHANGED <<kind, fields, pending, visit>> /\ falling' = None
      <3>1. CASE ~Counted(o)
        BY <1>3, <3>1 DEF RcDrop, heapVars
      <3>2. CASE Counted(o) /\ ~LastOwner(o)
        BY <1>3, <3>2 DEF RcDrop
      <3> QED
        BY <1>4, <3>1, <3>2
    <2>2. a = x /\ b = y /\ c = z /\ InHand' = 0
      BY <1>1, <1>2, <2>1 DEF Allocated, Free, FieldsLeft, Visited, InHand
    <2>3. x + 3 * y + z + 0 < a + 3 * b + c + 2
      BY <2>2
    <2> QED
      BY <1>1, <1>2, <1>3, <2>2, <2>3, LessRemains
  <1>5. CASE Counted(o) /\ LastOwner(o) /\ Leaf(o)
    <2>1. /\ kind' = [kind EXCEPT ![o] = "FREE"] /\ fields' = [fields EXCEPT ![o] = <<>>]
          /\ pending' = pending
      BY <1>5 DEF RcDrop, heapVars
    <2>2. o \in Object /\ kind[o] # "FREE" /\ Sound
      BY <1>5 DEF Counted, Mortal, Leaf
    <2>3. Allocated' = Allocated \ {o} /\ o \in Allocated
      BY <2>1, <2>2 DEF Allocated, Free, Sound, Typed
    <2>4. x = a - 1
      BY <1>1, <2>3, WorkIsFinite, SameOrLess
    <2>5. FieldsLeft' \subseteq FieldsLeft
      <3>1. \A p \in Object : fields'[p] = IF p = o THEN <<>> ELSE fields[p]
        BY <2>1, <2>2 DEF Sound, Typed
      <3>2. \A p \in Object, i \in Index : Visited(p, i)' <=> Visited(p, i)
        BY <1>3 DEF Visited
      <3>3. \A i : i \notin 1..Len(<<>>)
        OBVIOUS
      <3> QED
        BY <3>1, <3>2, <3>3, LeftSubset
    <2>6. y <= b
      BY <1>1, <2>5, WorkIsFinite, SameOrLess
    <2> PICK w \in {0, 2} : InHand' = w
      BY DEF InHand
    <2>7. c = z
      BY <1>2, <2>1
    <2>8. x + 3 * y + z + w < a + 3 * b + c + 2
      BY <2>4, <2>6, <2>7
    <2> QED
      BY <1>1, <1>2, <1>3, <2>8, LessRemains
  <1>6. CASE Counted(o) /\ LastOwner(o) /\ ~Leaf(o)
    <2>1. /\ UNCHANGED <<kind, fields, visit>> /\ falling' = None
          /\ pending' = Append(pending, o) /\ o \in Object
      BY <1>3, <1>6 DEF RcDrop, Counted, Mortal
    <2>2. z = c + 1
      BY <1>2, <2>1 DEF Sound, Typed
    <2>3. a = x /\ b = y /\ InHand' = 0
      BY <1>1, <2>1 DEF Allocated, Free, FieldsLeft, Visited, InHand
    <2>4. x + 3 * y + z + 0 < a + 3 * b + c + 2
      BY <2>2, <2>3
    <2> QED
      BY <1>1, <1>2, <1>3, <2>3, <2>4, LessRemains
  <1> QED
    BY <1>4, <1>5, <1>6

(* The loop of minyar_rc_release takes an entry off the work list ... *)
LEMMA PopShrinks ==
    ASSUME Sound, Sound', PopPending
    PROVE  Remaining' < Remaining
  <1>1. PICK a \in Nat, b \in Nat, x \in Nat, y \in Nat :
          /\ Cardinality(Allocated) = a /\ Cardinality(FieldsLeft) = b
          /\ Cardinality(Allocated') = x /\ Cardinality(FieldsLeft') = y
    BY WorkIsFinite, WorkStaysFinite
  <1>2. PICK c \in Nat, z \in Nat : Len(pending) = c /\ Len(pending') = z /\ z = c - 1
    <2>1. pending \in Seq(Object) /\ pending # <<>> /\ pending' = Front(pending)
      BY DEF PopPending, Sound, Typed
    <2> QED
      BY <2>1, FrontFacts
  <1>3. UNCHANGED <<kind, fields, falling>> /\ visit = NoVisit /\ visit'.next = 1 /\ falling = None
    BY DEF PopPending, heapVars
  <1>4. FieldsLeft' \subseteq FieldsLeft
    <2>1. \A p \in Object, i \in Index : ~Visited(p, i)
      BY <1>3, VisitFacts
    <2> QED
      BY <1>3, <2>1, LeftSubset
  <1>5. y <= b /\ x = a /\ InHand = 0 /\ InHand' = 0
    BY <1>1, <1>3, <1>4, WorkIsFinite, SameOrLess DEF Allocated, Free, InHand
  <1>6. x + 3 * y + z + 0 < a + 3 * b + c + 0
    BY <1>2, <1>5
  <1> QED
    BY <1>1, <1>2, <1>5, <1>6, LessRemains

(* ... drops one field after another ... *)
LEMMA VisitShrinks ==
    ASSUME Sound, Sound', VisitField
    PROVE  Remaining' < Remaining
  <1>1. PICK a \in Nat, b \in Nat, x \in Nat, y \in Nat :
          /\ Cardinality(Allocated) = a /\ Cardinality(FieldsLeft) = b
          /\ Cardinality(Allocated') = x /\ Cardinality(FieldsLeft') = y
    BY WorkIsFinite, WorkStaysFinite
  <1>2. PICK c \in Nat : Len(pending) = c /\ Len(pending') = c
    <2>1. Len(pending) \in Nat /\ pending' = pending
      BY DEF VisitField, Sound, Typed
    <2> QED
      BY <2>1
  <1> PICK o, n : o = visit.of /\ n = visit.next
    OBVIOUS
  <1>3. UNCHANGED <<kind, fields>> /\ visit # NoVisit /\ falling = None
    BY DEF VisitField, heapVars
  <1>4. o \in Object /\ n \in Nat \ {0} /\ visit'.of = o /\ visit'.next = n + 1
        /\ n <= Len(fields[o])
    <2>1. visit \in [of : Object \cup {None}, next : Nat \ {0}]
      BY DEF Sound, Typed
    <2>2. visit' = [visit EXCEPT !.next = Advance(@)] /\ n <= Len(fields[o])
      BY DEF VisitField
    <2> QED
      BY <1>3, <2>1, <2>2, VisitFacts DEF Advance
  <1>5. n \in Index /\ n \in 1..Len(fields[o])
    <2>1. Len(fields[o]) \in Nat /\ Len(fields[o]) <= Width /\ Width \in Nat
      BY <1>4, EagerAssumption DEF Sound, Typed, WithinSlots
    <2> QED
      BY <1>4, <2>1 DEF Index
  <1>6. \A p \in Object, i \in Index : Visited(p, i)' <=> Visited(p, i) \/ (p = o /\ i = n)
    BY <1>4 DEF Visited, Index
  <1>7. ~Visited(o, n)
    BY <1>4 DEF Visited
  <1>8. <<o, n>> \in FieldsLeft /\ <<o, n>> \notin FieldsLeft'
    BY <1>4, <1>5, <1>6, <1>7, LeftFields, LeftFieldsNext
  <1>9. FieldsLeft' \subseteq FieldsLeft
    BY <1>3, <1>6, LeftSubset
  <1>10. FieldsLeft' \subseteq FieldsLeft \ {<<o, n>>}
    BY <1>8, <1>9
  <1>11. y <= b - 1
    <2>1. IsFiniteSet(FieldsLeft \ {<<o, n>>}) /\ Cardinality(FieldsLeft \ {<<o, n>>}) = b - 1
      BY <1>1, <1>8, WorkIsFinite, FS_RemoveElement
    <2> QED
      BY <1>1, <1>10, <2>1, SameOrLess
  <1>12. x = a /\ InHand = 0
    BY <1>1, <1>3 DEF Allocated, Free, InHand
  <1> PICK w \in {0, 2} : InHand' = w
    BY DEF InHand
  <1>13. x + 3 * y + c + w < a + 3 * b + c + 0
    BY <1>11, <1>12
  <1> QED
    BY <1>1, <1>2, <1>12, <1>13, LessRemains

(* ... and frees the value when none is left. *)
LEMMA FreeShrinks ==
    ASSUME Sound, Sound', FreeVisited
    PROVE  Remaining' < Remaining
  <1>1. PICK a \in Nat, b \in Nat, x \in Nat, y \in Nat :
          /\ Cardinality(Allocated) = a /\ Cardinality(FieldsLeft) = b
          /\ Cardinality(Allocated') = x /\ Cardinality(FieldsLeft') = y
    BY WorkIsFinite, WorkStaysFinite
  <1>2. PICK c \in Nat : Len(pending) = c /\ Len(pending') = c
    BY DEF FreeVisited, Sound, Typed
  <1> PICK o : o = visit.of
    OBVIOUS
  <1>3. /\ kind' = [kind EXCEPT ![o] = "FREE"] /\ fields' = [fields EXCEPT ![o] = <<>>]
        /\ visit # NoVisit /\ visit' = NoVisit /\ falling = None /\ falling' = None
        /\ visit.next > Len(fields[o])
    BY DEF FreeVisited
  <1>4. o \in Object /\ ~Free(o)
    BY <1>3, VisitFacts, QueueFacts
  <1>5. Allocated' = Allocated \ {o} /\ o \in Allocated
    BY <1>3, <1>4 DEF Allocated, Free, Sound, Typed
  <1>6. x = a - 1
    BY <1>1, <1>5, WorkIsFinite, SameOrLess
  <1>7. FieldsLeft' \subseteq FieldsLeft
    <2>1. \A p \in Object : fields'[p] = IF p = o THEN <<>> ELSE fields[p]
      BY <1>3, <1>4 DEF Sound, Typed
    <2>2. \A p \in Object, i \in Index : p # o => ~Visited(p, i)
      BY DEF Visited
    <2>3. \A i : i \notin 1..Len(<<>>)
      OBVIOUS
    <2> QED
      BY <2>1, <2>2, <2>3, LeftSubset
  <1>8. y <= b /\ InHand = 0 /\ InHand' = 0
    BY <1>1, <1>3, <1>7, WorkIsFinite, SameOrLess DEF InHand
  <1>9. x + 3 * y + c + 0 < a + 3 * b + c + 0
    BY <1>6, <1>8
  <1> QED
    BY <1>1, <1>2, <1>8, <1>9, LessRemains

(* Every step of a release leaves less to do, and none recurses twice.     *)
THEOREM ReleasesComeToAnEnd == Spec => ReleasesEnd
  <1>1. IInv /\ IInv' => (Destroy => Remaining' < Remaining)
    BY DropShrinks, PopShrinks, VisitShrinks, FreeShrinks DEF IInv, Destroy
  <1>2. IInv /\ [Next]_vars => [Destroy => Remaining' < Remaining]_vars
    BY <1>1, StepIsSound
  <1> QED
    BY <1>2, InitIsSound, StepIsSound, ViewsDropOnce, PTL DEF Spec, ReleasesEnd
-----------------------------------------------------------------------------
(***************************************************************************)
(* Nothing is left behind: stores build no cycle, so what no root leads to *)
(* lost its last owner.                                                    *)
(***************************************************************************)
(* Every set of values has one that none of the set refers to. *)
Acyclic ==
    \A S \in SUBSET Object : S # {} => \E o \in S : \A p \in S : o \notin ToSet(fields[p])

(* The value about to be stored does not lead back to where it is stored. *)
StoreDue == Doing("append") \/ Doing("field")
StoresApart == StoreDue => MayStore(call.of, hand)

(* Fields that only lose references leave the heap acyclic. *)
LEMMA FewerReferences ==
    ASSUME Acyclic, \A o \in Object : ToSet(fields'[o]) \cap Object \subseteq ToSet(fields[o])
    PROVE  Acyclic'
  BY DEF Acyclic

(* A value that does not lead back to l may be stored in it: what it leads *)
(* to is a set that stays closed, and no cycle leaves that set.            *)
LEMMA StoredApart ==
    ASSUME Acyclic, NEW l \in Object, NEW v, MayStore(l, v),
           \A o \in Object : o # l => fields'[o] = fields[o],
           ToSet(fields'[l]) \cap Object \subseteq ToSet(fields[l]) \cup {v}
    PROVE  Acyclic'
  <1>1. PICK P \in SUBSET Object : Closed(P) /\ {v} \cap Object \subseteq P /\ l \notin P
    BY DEF MayStore
  <1> SUFFICES ASSUME NEW S \in SUBSET Object, S # {}
               PROVE  \E o \in S : \A p \in S : o \notin ToSet(fields'[p])
    BY DEF Acyclic
  <1>2. CASE S \subseteq P
    <2>1. PICK o \in S : \A p \in S : o \notin ToSet(fields[p])
      BY DEF Acyclic
    <2>2. \A p \in S : fields'[p] = fields[p]
      BY <1>1, <1>2
    <2> QED
      BY <2>1, <2>2
  <1>3. CASE ~(S \subseteq P)
    <2>1. PICK o \in S \ P : \A p \in S \ P : o \notin ToSet(fields[p])
      BY <1>3 DEF Acyclic
    <2>2. \A p \in P : o \notin ToSet(fields[p])
      BY <1>1, <2>1 DEF Closed
    <2>3. \A p \in S : o \notin ToSet(fields[p])
      BY <2>1, <2>2
    <2>4. o # v
      BY <1>1, <2>1
    <2> QED
      BY <2>1, <2>3, <2>4
  <1> QED
    BY <1>2, <1>3

(* A sequence after a store. *)
LEMMA ToSetReplaced ==
    ASSUME NEW S, NEW s \in Seq(S), NEW i \in 1..Len(s), NEW v \in S
    PROVE  ToSet([s EXCEPT ![i] = v]) \subseteq ToSet(s) \cup {v}
  BY DEF ToSet

LEMMA ToSetAppended ==
    ASSUME NEW S, NEW s \in Seq(S), NEW v \in S
    PROVE  ToSet(Append(s, v)) \subseteq ToSet(s) \cup {v}
  <1> PICK t : t = Append(s, v)
    OBVIOUS
  <1>1. /\ Len(s) \in Nat /\ DOMAIN s = 1..Len(s) /\ DOMAIN t = 1..(Len(s) + 1)
        /\ t[Len(s) + 1] = v /\ \A i \in 1..Len(s) : t[i] = s[i]
    OBVIOUS
  <1>2. ASSUME NEW i \in DOMAIN t PROVE t[i] \in ToSet(s) \cup {v}
    <2>1. i = Len(s) + 1 \/ i \in 1..Len(s)
      BY <1>1
    <2> QED
      BY <1>1, <2>1 DEF ToSet
  <1> QED
    BY <1>2 DEF ToSet

(* The stores of a call. *)
LEMMA StoresKeepAcyclic ==
    ASSUME Sound, Acyclic, StoresApart, StoreNewElement \/ StoreField
    PROVE  Acyclic'
  <1> PICK l : l = call.of
    OBVIOUS
  <1>1. l \in Object /\ MayStore(l, hand) /\ hand \in Value /\ fields[l] \in Seq(Value)
    BY DEF StoreNewElement, StoreField, Sound, Calls, Typed, StoresApart, StoreDue
  <1>2. \A o \in Object : o # l => fields'[o] = fields[o]
    BY DEF StoreNewElement, StoreField, Sound, Typed
  <1>3. CASE StoreNewElement
    <2>1. fields'[l] = Append(fields[l], hand)
      BY <1>1, <1>3 DEF StoreNewElement, Sound, Typed
    <2> QED
      BY <1>1, <1>2, <2>1, ToSetAppended, StoredApart
  <1>4. CASE StoreField
    <2>1. call.index \in 1..Len(fields[l])
      BY <1>4 DEF StoreField, Sound, Calls
    <2>2. fields'[l] = [fields[l] EXCEPT ![call.index] = hand]
      BY <1>1, <1>4 DEF StoreField, Sound, Typed
    <2>3. ToSet(fields'[l]) \subseteq ToSet(fields[l]) \cup {hand}
      BY <1>1, <2>1, <2>2, ToSetReplaced
    <2> QED
      BY <1>1, <1>2, <2>3, StoredApart
  <1> QED
    BY <1>3, <1>4

(* No other step adds a reference to a value. *)
LEMMA OthersKeepAcyclic ==
    ASSUME Sound, Acyclic, Next, ~(StoreNewElement \/ StoreField)
    PROVE  Acyclic'
  <1>1. ToSet(<<>>) = {}
    BY DEF ToSet
  <1>2. ASSUME UNCHANGED fields PROVE Acyclic'
    BY <1>2, FewerReferences
  <1>3. ASSUME NEW o \in Object, fields' = [fields EXCEPT ![o] = <<>>] PROVE Acyclic'
    <2>1. \A p \in Object : fields'[p] = IF p = o THEN <<>> ELSE fields[p]
      BY <1>3 DEF Sound, Typed
    <2> QED
      BY <1>1, <2>1, FewerReferences
  <1>4. ASSUME NEW r, NEW o \in Object, NEW k, NEW n, NEW c, Allocate(r, o, k, n, c) PROVE Acyclic'
    <2>1. \A p \in Object : fields'[p] = IF p = o THEN [i \in 1..n |-> None] ELSE fields[p]
      BY <1>4 DEF Allocate, Sound, Typed
    <2>2. ToSet([i \in 1..n |-> None]) \cap Object = {}
      BY EagerAssumption DEF ToSet
    <2> QED
      BY <2>1, <2>2, FewerReferences
  <1>5. CASE New \/ Slice
    BY <1>4, <1>5 DEF New, Slice
  <1>6. CASE Program /\ ~(New \/ Slice)
    BY <1>2, <1>6 DEF Program, ListReferences, RetainResult, Local, Keep, ListAdd, ListSet,
       RecordSet, AcquireOrTake, Acquire, Take, LocalMove, ReleaseResult, Enter, StepOrLeave, heapVars
  <1>7. CASE Destroy
    <2>1. CASE RcDrop /\ ~UNCHANGED fields
      BY <1>3, <2>1 DEF RcDrop, heapVars, Counted, Mortal
    <2>2. CASE FreeVisited
      BY <1>3, <2>2, VisitFacts DEF FreeVisited
    <2> QED
      BY <1>2, <1>7, <2>1, <2>2 DEF Destroy, PopPending, VisitField, heapVars
  <1>8. CASE Machine /\ ~Destroy
    BY <1>2, <1>8 DEF Machine, StoreLocal, StoreTemporary, RetainRoot, ReleaseTemporary,
       ReleaseLocal, PopFrame, Return, heapVars
  <1> QED
    BY <1>5, <1>6, <1>7, <1>8 DEF Next

(* A store is promised by the call that begins it. *)
LEMMA ClosedNext ==
    ASSUME UNCHANGED fields, NEW l, NEW v, MayStore(l, v), StoreDue' => call'.of = l /\ hand' = v
    PROVE  StoresApart'
  BY DEF StoresApart, MayStore, Closed

LEMMA PromiseKept ==
    ASSUME Sound, StoresApart, Next
    PROVE  StoresApart'
  <1>1. ASSUME call'.op \notin {"append", "field"} PROVE StoresApart'
    BY <1>1 DEF StoresApart, StoreDue, Doing
  <1>2. CASE Destroy
    <2>1. ~Settled /\ call' = call
      BY <1>2, EagerAssumption
         DEF Destroy, RcDrop, PopPending, VisitField, FreeVisited, Settled, NoVisit
    <2>2. call.op \in {"return", "step", "leave"}
      BY <2>1 DEF Sound, Calls
    <2> QED
      BY <1>1, <2>1, <2>2
  <1>3. CASE StoreLocal \/ StoreTemporary \/ StoreNewElement \/ StoreField
    BY <1>1, <1>3 DEF StoreLocal, StoreTemporary, StoreNewElement, StoreField, Stored
  <1>4. CASE RetainRoot
    <2> PICK o, v : o = call.of /\ v = call.root
      OBVIOUS
    <2>1. o \in Object /\ v \in Object \cup Literal /\ IsRoot(v) /\ v # o
      BY <1>4 DEF RetainRoot, Sound, Calls
    <2>2. Closed({v} \cap Object)
      <3> SUFFICES ASSUME v \in Object PROVE ToSet(fields[v]) \cap Object = {}
        BY DEF Closed
      <3>1. kind[v] = "TEXT" /\ fields[v][1] = None
        BY <2>1 DEF IsRoot
      <3>2. Len(fields[v]) = 1 /\ DOMAIN fields[v] = 1..1
        BY <3>1, FieldFacts DEF Sound, Shapes
      <3> QED
        BY <3>1, <3>2, EagerAssumption DEF ToSet
    <2>3. MayStore(o, v)
      BY <2>1, <2>2 DEF MayStore
    <2>4. UNCHANGED fields /\ hand' = v /\ call'.of = o
      BY <1>4 DEF RetainRoot
    <2> QED
      BY <2>3, <2>4, ClosedNext
  <1>5. CASE ReleaseTemporary \/ ReleaseLocal \/ PopFrame \/ Return
    <2>1. call'.op \in {"step", "leave", "none"}
      BY <1>5 DEF ReleaseTemporary, ReleaseLocal, PopFrame, Return, Done, Doing, Sound, Calls
    <2> QED
      BY <1>1, <2>1
  <1>6. CASE New \/ Slice \/ ReleaseResult \/ StepOrLeave
    <2>1. CASE New
      <3>1. call' = Done
        BY <2>1 DEF New, Allocate
      <3> QED
        BY <1>1, <3>1 DEF Done
    <2>2. CASE Slice
      <3> PICK o, t : call' = [op |-> "view", of |-> o, root |-> TextRoot(t)]
        BY <2>2 DEF Slice, Allocate
      <3>1. call'.op = "view"
        OBVIOUS
      <3> QED
        BY <1>1, <3>1
    <2>3. CASE ReleaseResult
      BY <1>1, <2>3 DEF ReleaseResult
    <2>4. CASE StepOrLeave
      <3>1. call'.op \in {"step", "leave"}
        BY <2>4 DEF StepOrLeave
      <3> QED
        BY <1>1, <3>1
    <2> QED
      BY <1>6, <2>1, <2>2, <2>3, <2>4
  <1>7. CASE ListReferences \/ RetainResult \/ LocalMove \/ Enter
    <2>1. call' = call /\ Idle
      BY <1>7 DEF ListReferences, RetainResult, LocalMove, Enter
    <2>2. call'.op \notin {"append", "field"}
      BY <2>1 DEF Idle
    <2> QED
      BY <1>1, <2>2
  <1>8. ASSUME NEW v, NEW next, AcquireOrTake(v, next)
        PROVE  UNCHANGED fields /\ hand' = v /\ call' = next
    BY <1>8 DEF AcquireOrTake, Acquire, Take, heapVars
  <1>9. CASE Local \/ Keep
    <2>1. call'.op \in {"local", "keep"}
      <3>1. CASE Local
        <4> PICK v \in Operand, i \in 1..MaxLocals : AcquireOrTake(v, [op |-> "local", index |-> i])
          BY <3>1 DEF Local
        <4>1. call' = [op |-> "local", index |-> i]
          BY <1>8
        <4> QED
          BY <4>1
      <3>2. CASE Keep
        <4> PICK v \in Operand : AcquireOrTake(v, [op |-> "keep"])
          BY <3>2 DEF Keep
        <4>1. call' = [op |-> "keep"]
          BY <1>8
        <4> QED
          BY <4>1
      <3> QED
        BY <1>9, <3>1, <3>2
    <2> QED
      BY <1>1, <2>1
  <1>10. CASE ListAdd \/ ListSet \/ RecordSet
    <2>1. PICK l, v : MayStore(l, v) /\ UNCHANGED fields /\ hand' = v /\ call'.of = l
      <3>1. CASE ListAdd
        BY <1>8, <3>1 DEF ListAdd
      <3>2. CASE ListSet
        BY <1>8, <3>2 DEF ListSet
      <3>3. CASE RecordSet
        BY <1>8, <3>3 DEF RecordSet
      <3> QED
        BY <1>10, <3>1, <3>2, <3>3
    <2> QED
      BY <2>1, ClosedNext
  <1> QED
    BY <1>2, <1>3, <1>4, <1>5, <1>6, <1>7, <1>9, <1>10 DEF Next, Program, Machine

(* Between calls, exact counts and the absence of cycles leave nothing     *)
(* unreachable: a set of values that no root leads to would have one       *)
(* without an owner.                                                       *)
LEMMA NothingIsLeft ==
    ASSUME IInv, Acyclic
    PROVE  DestructionComplete
  <1> SUFFICES ASSUME Idle, NEW o \in Object, ~Free(o), o \notin Reachable PROVE FALSE
    BY DEF DestructionComplete
  <1> PICK roots : roots = {Held(s) : s \in RootSlot} \cap Object
    OBVIOUS
  <1>1. PICK P \in SUBSET Object : Closed(P) /\ roots \subseteq P /\ o \notin P
    BY DEF Reachable
  <1> PICK S : S = {q \in Object : ~Free(q) /\ q \notin P}
    OBVIOUS
  <1>2. PICK q \in S : \A p \in S : q \notin ToSet(fields[p])
    BY <1>1 DEF Acyclic
  <1>3. Sound /\ CountExact /\ Settled
    BY DEF IInv, Sound, Calls, Idle
  <1>4. q \in Object /\ ~Free(q) /\ q \notin P
    BY <1>2
  <1>5. count[q] > 0
    <2>1. ~Dead(q)
      BY <1>3, <1>4, QueueFacts, EagerAssumption DEF Settled, NoVisit
    <2> QED
      BY <1>3, <1>4, <2>1 DEF Dead, Sound, Typed
  <1>6. PICK s \in Slot : Held(s) = q
    <2>1. Cardinality({s \in Slot : Held(s) = q}) = count[q]
      BY <1>3, <1>4 DEF CountExact
    <2>2. {s \in Slot : Held(s) = q} # {}
      BY <1>5, <2>1, FS_EmptySet
    <2> QED
      BY <2>2
  <1>7. s \notin RootSlot
    BY <1>1, <1>4, <1>6
  <1>8. PICK p \in Object, i \in Index : s = <<p, i>>
    BY <1>7 DEF Slot
  <1>9. q \in ToSet(fields[p])
    <2>1. q = At(fields[p], i) /\ q # None
      BY <1>4, <1>6, <1>7, <1>8, EagerAssumption DEF Held
    <2> QED
      BY <2>1 DEF At, ToSet
  <1>10. ~Free(p)
    <2>1. fields[p] # <<>>
      BY <1>9 DEF ToSet
    <2> QED
      BY <1>3, <2>1 DEF Sound, Shapes
  <1>11. p \notin P
    BY <1>1, <1>4, <1>9 DEF Closed
  <1> QED
    BY <1>2, <1>9, <1>10, <1>11

(* Every value that dies is destroyed once, by the release it died in, and *)
(* what is allocated between two calls can be reached.                     *)
THEOREM ValuesAreDestroyedOnce == Spec => []DestroyedOnce
  <1>1. Init => Acyclic /\ StoresApart
    <2>1. ASSUME Init PROVE Acyclic /\ StoresApart
      <3>1. \A o \in Object : ToSet(fields[o]) = {}
        BY <2>1 DEF Init, ToSet
      <3>2. ~StoreDue
        BY <2>1 DEF Init, Done, StoreDue, Doing
      <3> QED
        BY <3>1, <3>2 DEF Acyclic, StoresApart
    <2> QED
      BY <2>1
  <1>2. IInv /\ Acyclic /\ StoresApart /\ [Next]_vars => (Acyclic /\ StoresApart)'
    <2>1. ASSUME IInv, Acyclic, StoresApart, Next PROVE Acyclic' /\ StoresApart'
      BY <2>1, StoresKeepAcyclic, OthersKeepAcyclic, PromiseKept DEF IInv
    <2>2. ASSUME Acyclic, StoresApart, UNCHANGED vars PROVE Acyclic' /\ StoresApart'
      BY <2>2 DEF vars, heapVars, Acyclic, StoresApart, StoreDue, Doing, MayStore, Closed
    <2> QED
      BY <2>1, <2>2
  <1>3. IInv /\ Acyclic => DestructionComplete
    BY NothingIsLeft
  <1> QED
    BY <1>1, <1>2, <1>3, InitIsSound, StepIsSound, DeadAreQueuedOnce, PTL DEF Spec, DestroyedOnce
=============================================================================
