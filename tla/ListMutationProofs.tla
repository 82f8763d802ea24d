------------------------- MODULE ListMutationProofs -------------------------
(***************************************************************************)
(* The check of List mutations is exact and comes to an end, and programs  *)
(* that pass it have acyclic heaps, for any records, types and objects.    *)
(***************************************************************************)
EXTENDS ListMutation, FiniteSetTheorems, FunctionTheorems, TLAPS

(* A pending type that was dealt with: it does not unwrap to the type that *)
(* was asked about, and its record was expanded.                           *)
Dealt(t) ==
    /\ ~(t.of = asked.of /\ t.brackets >= asked.brackets)
    /\ t.of \in Records => t.of \in visited

(* The invariant of the search.  Nothing is pending that the elements do   *)
(* not lead to (so a rejection is justified), and everything that the      *)
(* elements lead to is pending or was dealt with (so is an acceptance).    *)
Search ==
    phase \in {"next", "look"} =>
        /\ asked \in ListTypes
        /\ Len(pending) > 0 /\ pending[1] = ListElementType(asked)
        /\ \A i \in 1..Len(pending) : Reaches(ListElementType(asked), pending[i])
        /\ \A r \in visited : \A i \in DOMAIN fieldTypes[r] :
              \E j \in 1..Len(pending) : pending[j] = fieldTypes[r][i]
        /\ \A j \in 1..index : (phase = "look" /\ j = index) \/ Dealt(pending[j])
        /\ phase = "look" =>
              /\ index > 0 /\ current \in Type
              /\ Reaches(ListElementType(asked), current)
              /\ current.of = pending[index].of
              /\ current.brackets <= pending[index].brackets
              /\ ~(asked.of = current.of /\ asked.brackets > current.brackets
                     /\ asked.brackets <= pending[index].brackets)

(* What was concluded. *)
Concluded ==
    /\ phase = "rejected" => Reaches(ListElementType(asked), asked)
    /\ \A t \in safe : ~Reaches(ListElementType(t), t)

(* What is not allocated holds nothing. *)
Blank == \A o \in Object : o \notin Live => Refs(o) = {}

HeapInv == WellTyped /\ Blank /\ NoCycle
-----------------------------------------------------------------------------
(* A declared record has a sequence of field types. *)
LEMMA FieldsAreSequences ==
    ASSUME NEW f \in Fields
    PROVE  f \in Seq(Type) /\ DOMAIN f = 1..Len(f)
  <1>1. PICK n \in 0..MaxFields : f \in [1..n -> Type]
    BY DEF Fields
  <1>2. n \in Nat
    BY <1>1, BoundAssumption
  <1> QED
    BY <1>1, <1>2

(* Replacing an element leaves a sequence. *)
LEMMA ReplaceInSequence ==
    ASSUME NEW X, NEW s \in Seq(X), NEW i, NEW v \in X
    PROVE  [s EXCEPT ![i] = v] \in Seq(X)
  <1>1. CASE i \in DOMAIN s
    BY <1>1
  <1>2. CASE i \notin DOMAIN s
    <2>1. [s EXCEPT ![i] = v] = s
      BY <1>2
    <2> QED BY <2>1
  <1> QED BY <1>1, <1>2

(* The mark of an object that is not allocated is no type. *)
LEMMA NoTypeIsNoType == NoType \notin Type
  <1>1. ASSUME NoType \in Type PROVE FALSE
    <2>1. NoType.brackets \in 0..MaxBrackets
      BY <1>1 DEF Type
    <2> QED BY <2>1, BoundAssumption DEF NoType
  <1> QED BY <1>1

(* An element of a List type is a type, one bracket less. *)
LEMMA ElementFacts ==
    ASSUME NEW t \in Type, IsListType(t)
    PROVE  /\ ListElementType(t) \in Type
           /\ ListElementType(t).of = t.of
           /\ ListElementType(t).brackets = t.brackets - 1
  BY BoundAssumption DEF Type, IsListType, ListElementType

(* Reaching goes on through parts. *)
LEMMA ReachesParts ==
    ASSUME NEW t, NEW u \in Type, NEW v, Reaches(t, u), v \in Parts(u)
    PROVE  Reaches(t, v)
  BY DEF Reaches, Closed
-----------------------------------------------------------------------------
(* Every step of the specification keeps the types of the variables. *)
LEMMA TypeStep == TypeOK /\ [Next]_vars => TypeOK'
  <1> SUFFICES ASSUME TypeOK, [Next]_vars PROVE TypeOK'
    OBVIOUS
  <1> USE NoTypeIsNoType
  <1>1. ASSUME NEW t \in ListTypes, CheckListMutation(t) PROVE TypeOK'
    <2>1. ListElementType(t) \in Type
      BY ElementFacts DEF ListTypes
    <2>2. <<ListElementType(t)>> \in Seq(Type) /\ Len(<<ListElementType(t)>>) = 1
      BY <2>1
    <2>3. pending' \in Seq(Type) /\ index' \in 0..Len(pending')
      BY <1>1, <2>2 DEF CheckListMutation
    <2>4. t # NoType
      BY DEF ListTypes
    <2>5. asked' = t /\ phase' = "next" /\ visited' = {}
      BY <1>1 DEF CheckListMutation
    <2>6. UNCHANGED <<fieldTypes, current, safe, heapVars>>
      BY <1>1 DEF CheckListMutation
    <2> QED BY <2>3, <2>4, <2>5, <2>6 DEF TypeOK, heapVars, Phases, Live
  <1>2. CASE NextPending
    <2>1. CASE index < Len(pending)
      BY <1>2, <2>1 DEF NextPending, TypeOK, heapVars, Phases, Live
    <2>2. CASE index = Len(pending)
      <3>1. <<>> \in Seq(Type) /\ Len(<<>>) = 0
        OBVIOUS
      <3>2. asked \in ListTypes
        BY <1>2 DEF TypeOK, NextPending
      <3>3. /\ pending' = <<>> /\ index' = 0 /\ visited' = {}
            /\ asked' = NoType /\ current' = NoType
            /\ phase' = "compile" /\ safe' = safe \cup {asked}
        BY <1>2, <2>2 DEF NextPending, TypeOK
      <3>4. pending' \in Seq(Type) /\ index' \in 0..Len(pending')
        BY <3>1, <3>3
      <3>5. UNCHANGED <<fieldTypes, heapVars>>
        BY <1>2 DEF NextPending
      <3> QED
        BY <3>2, <3>3, <3>4, <3>5 DEF TypeOK, heapVars, Phases, Live
    <2> QED BY <1>2, <2>1, <2>2 DEF NextPending
  <1>3. CASE Unwrap
    <2>1. current \in Type /\ IsListType(current)
      BY <1>3 DEF Unwrap, TypeOK
    <2>2. ListElementType(current) \in Type
      BY <2>1, ElementFacts
    <2> QED
      BY <1>3, <2>1, <2>2 DEF Unwrap, Unwrapped, TypeOK, heapVars, Phases, Live
  <1>4. CASE Expand
    <2>1. CASE IsRecordType(current) /\ current.of \notin visited
      <3>1. current.of \in Records /\ fieldTypes[current.of] \in Fields
        BY <2>1 DEF IsRecordType, TypeOK
      <3>2. fieldTypes[current.of] \in Seq(Type)
        BY <3>1, FieldsAreSequences
      <3>3. /\ pending \o fieldTypes[current.of] \in Seq(Type)
            /\ Len(pending) <= Len(pending \o fieldTypes[current.of])
        BY <3>2 DEF TypeOK
      <3>4. pending' = pending \o fieldTypes[current.of] /\ visited' = visited \cup {current.of}
        BY <1>4, <2>1 DEF Expand, Marked
      <3>5. index \in 0..Len(pending')
        BY <3>2, <3>3, <3>4 DEF TypeOK
      <3> QED
        BY <1>4, <3>1, <3>3, <3>4, <3>5 DEF Expand, TypeOK, heapVars, Phases, Live
    <2>2. CASE ~(IsRecordType(current) /\ current.of \notin visited)
      BY <1>4, <2>2 DEF Expand, TypeOK, heapVars, Phases, Live
    <2> QED BY <2>1, <2>2
  <1>5. CASE Run
    BY <1>5 DEF Run, TypeOK, checkVars, heapVars, Phases, Live
  <1>6. ASSUME RunStep,
               type' \in [Object -> Type \cup {NoType}],
               slots' \in [Object -> Slots],
               building' \subseteq Live'
        PROVE  TypeOK'
    BY <1>6 DEF RunStep, checkVars, TypeOK, Phases
  <1> USE DEF TypeOK, Slots
  <1>7. ASSUME NEW o \in Object, NEW t \in Type, Begin(o, t) PROVE TypeOK'
    <2>1. CASE IsListType(t)
      BY <1>6, <1>7, <2>1 DEF Begin, Live
    <2>2. CASE ~IsListType(t)
      <3>1. t.of \in Records
        BY <1>7, <2>2 DEF Begin, IsRecordType
      <3>2. DOMAIN fieldTypes[t.of] = 1..Len(fieldTypes[t.of]) /\ Len(fieldTypes[t.of]) \in Nat
        BY <3>1, FieldsAreSequences
      <3>3. [i \in DOMAIN fieldTypes[t.of] |-> Plain] \in Seq(Object \cup {Plain})
        BY <3>2
      <3> QED BY <1>6, <1>7, <2>2, <3>3 DEF Begin, Live
    <2> QED BY <2>1, <2>2
  <1>8. ASSUME NEW o \in Object, NEW i \in 1..MaxFields, NEW v \in Object \cup {Plain},
               SetField(o, i, v)
        PROVE  TypeOK'
    <2>1. [slots[o] EXCEPT ![i] = v] \in Seq(Object \cup {Plain})
      BY ReplaceInSequence
    <2> QED BY <1>6, <1>8, <2>1 DEF SetField, Live
  <1>9. ASSUME NEW o \in Object, NEW v \in Object \cup {Plain}, AddItem(o, v) PROVE TypeOK'
    BY <1>6, <1>9 DEF AddItem, Live
  <1>10. ASSUME NEW o \in Object, Finish(o) PROVE TypeOK'
    BY <1>6, <1>10 DEF Finish, Live
  <1>11. ASSUME NEW o \in Object, NEW v \in Object \cup {Plain}, Add(o, v) PROVE TypeOK'
    BY <1>6, <1>11 DEF Add, Live
  <1>12. ASSUME NEW o \in Object, NEW i \in 1..MaxLength, NEW v \in Object \cup {Plain},
                Assign(o, i, v)
         PROVE  TypeOK'
    <2>1. [slots[o] EXCEPT ![i] = v] \in Seq(Object \cup {Plain})
      BY <1>12 DEF Assign
    <2> QED BY <1>6, <1>12, <2>1 DEF Assign, Live
  <1>13. ASSUME NEW o \in Object, NEW l \in Object, NEW v \in Object \cup {Plain},
                Appended(o, l, v)
         PROVE  TypeOK'
    BY <1>6, <1>13 DEF Appended, Live
  <1>14. ASSUME NEW o \in Object, Destroy(o) PROVE TypeOK'
    <2>1. <<>> \in Seq(Object \cup {Plain})
      OBVIOUS
    <2> QED BY <1>6, <1>14, <2>1 DEF Destroy, Unowned, Live
  <1>15. CASE UNCHANGED vars
    BY <1>15 DEF vars, checkVars, heapVars, Phases, Live
  <1> QED
    BY <1>1, <1>2, <1>3, <1>4, <1>5, <1>7, <1>8, <1>9, <1>10, <1>11, <1>12, <1>13,
       <1>14, <1>15 DEF Next, Check
-----------------------------------------------------------------------------
(* When everything pending was dealt with, the types that pending types    *)
(* unwrap to are a closed set without the type that was asked about.       *)
LEMMA SafeWhenDone ==
    ASSUME TypeOK, Search, phase = "next", index = Len(pending)
    PROVE  ~Reaches(ListElementType(asked), asked)
  <1> DEFINE C == {t \in Type : \E j \in 1..Len(pending) :
                      t.of = pending[j].of /\ t.brackets <= pending[j].brackets}
  <1>1. /\ asked \in Type /\ IsListType(asked)
        /\ Len(pending) > 0 /\ pending[1] = ListElementType(asked)
        /\ \A j \in 1..Len(pending) : Dealt(pending[j]) /\ pending[j] \in Type
    BY DEF Search, ListTypes, TypeOK
  <1>2. ListElementType(asked) \in C
    <2>1. ListElementType(asked) \in Type
      BY <1>1, ElementFacts
    <2>2. ListElementType(asked).brackets \in Int
      BY <2>1 DEF Type
    <2>3. 1 \in 1..Len(pending)
      BY <1>1 DEF TypeOK
    <2> QED BY <1>1, <2>1, <2>2, <2>3
  <1>3. asked \notin C
    BY <1>1 DEF Dealt
  <1>4. ASSUME NEW t \in C, NEW u \in Parts(t) PROVE u \in C
    <2>1. PICK j \in 1..Len(pending) : t.of = pending[j].of /\ t.brackets <= pending[j].brackets
      OBVIOUS
    <2>2. pending[j] \in Type /\ Dealt(pending[j])
      BY <1>1
    <2>3. CASE IsListType(t)
      <3>1. u = ListElementType(t)
        BY <1>4, <2>3 DEF Parts
      <3>2. u \in Type /\ u.of = t.of /\ u.brackets = t.brackets - 1
        BY <2>3, <3>1, ElementFacts
      <3> QED BY <2>1, <2>2, <3>2 DEF Type
    <2>4. CASE ~IsListType(t)
      <3>1. t.of \in Records /\ u \in {fieldTypes[t.of][i] : i \in DOMAIN fieldTypes[t.of]}
        BY <1>4, <2>4 DEF Parts
      <3>2. PICK i \in DOMAIN fieldTypes[t.of] : u = fieldTypes[t.of][i]
        BY <3>1
      <3>3. t.of \in visited
        BY <2>1, <2>2, <3>1 DEF Dealt
      <3>4. PICK k \in 1..Len(pending) : pending[k] = u
        BY <3>2, <3>3 DEF Search
      <3>5. u \in Type /\ u.brackets \in Int
        BY <1>1, <3>4 DEF Type
      <3> QED BY <3>4, <3>5
    <2> QED BY <2>3, <2>4
  <1> QED
    BY <1>2, <1>3, <1>4 DEF Reaches, Closed

(* The declared records do not change, so neither do the ways between      *)
(* types.                                                                  *)
LEMMA DeclarationsStay ==
    ASSUME TypeOK, [Next]_vars
    PROVE  /\ fieldTypes' = fieldTypes
           /\ \A t, u : Reaches(t, u)' <=> Reaches(t, u)
  <1>1. fieldTypes' = fieldTypes
    BY DEF Next, Check, CheckListMutation, NextPending, Unwrap, Expand, Run, RunStep, Begin,
           SetField, AddItem, Add, Assign, Appended, Finish, Destroy, vars
  <1>2. ASSUME NEW t, NEW u PROVE Reaches(t, u)' <=> Reaches(t, u)
    BY <1>1 DEF Reaches, Closed, Parts
  <1> QED BY <1>1, <1>2

(* Every step of the search keeps its invariant and concludes rightly. *)
LEMMA SearchStep ==
    ASSUME TypeOK, TypeOK', Search, Concluded, [Next]_vars
    PROVE  Search' /\ Concluded'
  <1>1. fieldTypes' = fieldTypes /\ \A t, u : Reaches(t, u)' <=> Reaches(t, u)
    BY DeclarationsStay
  <1>2. ASSUME NEW t \in ListTypes, CheckListMutation(t) PROVE Search' /\ Concluded'
    <2>1. /\ asked' = t /\ pending' = <<ListElementType(t)>> /\ index' = 0 /\ visited' = {}
          /\ phase' = "next" /\ safe' = safe
      BY <1>2 DEF CheckListMutation
    <2>2. Len(pending') = 1 /\ pending'[1] = ListElementType(t)
      BY <2>1
    <2>3. Reaches(ListElementType(t), ListElementType(t))
      BY DEF Reaches
    <2>4. Search'
      BY <1>1, <2>1, <2>2, <2>3 DEF Search
    <2>5. Concluded'
      BY <1>1, <2>1 DEF Concluded
    <2> QED BY <2>4, <2>5
  <1>3. CASE NextPending
    <2>1. CASE index < Len(pending)
      <3>1. /\ current' = pending[index + 1] /\ index' = index + 1 /\ phase' = "look"
            /\ UNCHANGED <<asked, pending, visited, safe>> /\ phase = "next"
        BY <1>3, <2>1 DEF NextPending
      <3>2. index + 1 \in 1..Len(pending) /\ pending[index + 1] \in Type
        BY <2>1 DEF TypeOK
      <3>3. pending[index + 1].brackets \in Int
        BY <3>2 DEF Type
      <3>4. \A j \in 1..index' : (j = index') \/ Dealt(pending[j])'
        BY <3>1 DEF Search, Dealt, TypeOK
      <3>7. /\ asked \in ListTypes
            /\ Len(pending) > 0 /\ pending[1] = ListElementType(asked)
            /\ \A i \in 1..Len(pending) : Reaches(ListElementType(asked), pending[i])
            /\ \A q \in visited : \A i \in DOMAIN fieldTypes[q] :
                  \E j \in 1..Len(pending) : pending[j] = fieldTypes[q][i]
        BY <3>1 DEF Search
      <3>8. /\ index + 1 > 0 /\ current' \in Type
            /\ current' = pending[index']
            /\ current'.brackets \in Int
            /\ asked.brackets \in Int
        BY <3>1, <3>2, <3>3, <3>7 DEF TypeOK, ListTypes, Type
      <3>5. Search'
        BY <1>1, <3>1, <3>2, <3>4, <3>7, <3>8 DEF Search
      <3>6. Concluded'
        BY <1>1, <3>1 DEF Concluded
      <3> QED BY <3>5, <3>6
    <2>2. CASE index = Len(pending)
      <3>1. phase = "next" /\ phase' = "compile" /\ safe' = safe \cup {asked}
        BY <1>3, <2>2 DEF NextPending, TypeOK
      <3>2. ~Reaches(ListElementType(asked), asked)
        BY <2>2, <3>1, SafeWhenDone
      <3> QED BY <1>1, <3>1, <3>2 DEF Search, Concluded
    <2> QED BY <1>3, <2>1, <2>2 DEF NextPending
  <1>4. CASE Unwrap
    <2>1. /\ current \in Type /\ IsListType(current) /\ phase = "look"
          /\ UNCHANGED <<asked, pending, index, visited, safe>>
      BY <1>4 DEF Unwrap, Search
    <2>2. CASE current = asked
      <3>1. phase' = "rejected"
        BY <1>4, <2>2 DEF Unwrap, IsAsked
      <3>2. Reaches(ListElementType(asked), asked)
        BY <2>1, <2>2 DEF Search
      <3> QED BY <1>1, <2>1, <3>1, <3>2 DEF Search, Concluded
    <2>3. CASE current # asked
      <3>1. current' = ListElementType(current) /\ phase' = "look"
        BY <1>4, <2>1, <2>3 DEF Unwrap, IsAsked, Unwrapped
      <3>2. /\ current' \in Type /\ current'.of = current.of
            /\ current'.brackets = current.brackets - 1
        BY <2>1, <3>1, ElementFacts
      <3>3. Reaches(ListElementType(asked), current')
        BY <2>1, <3>1, ReachesParts DEF Search, Parts
      <3>4. asked \in Type /\ index \in 1..Len(pending) /\ pending[index] \in Type
        BY <2>1 DEF Search, ListTypes, TypeOK
      <3>5. asked.of = current.of => asked.brackets # current.brackets
        BY <2>1, <2>3, <3>4 DEF Type
      <3>6. /\ asked.brackets \in Int /\ current.brackets \in Int
            /\ pending[index].brackets \in Int
        BY <2>1, <3>4 DEF Type
      <3>7. /\ current'.brackets <= pending[index].brackets
            /\ ~(asked.of = current'.of /\ asked.brackets > current'.brackets
                   /\ asked.brackets <= pending[index].brackets)
        BY <2>1, <3>2, <3>5, <3>6 DEF Search
      <3>8. \A j \in 1..index' : (phase' = "look" /\ j = index') \/ Dealt(pending[j])'
        BY <2>1, <3>1 DEF Search, Dealt
      <3>9. Search'
        BY <1>1, <2>1, <3>1, <3>2, <3>3, <3>7, <3>8 DEF Search
      <3> QED BY <1>1, <2>1, <3>1, <3>9 DEF Concluded
    <2> QED BY <2>2, <2>3
  <1>5. CASE Expand
    <2>1. /\ current \in Type /\ ~IsListType(current) /\ phase = "look" /\ phase' = "next"
          /\ asked' = asked /\ index' = index /\ safe' = safe
          /\ index \in 1..Len(pending) /\ pending[index] \in Type /\ asked \in ListTypes
      BY <1>5 DEF Expand, Search, TypeOK
    <2>2. ~(pending[index].of = asked.of /\ pending[index].brackets >= asked.brackets)
      BY <2>1 DEF Search, IsListType, ListTypes, Type
    <2>3. Concluded'
      BY <1>1, <2>1 DEF Concluded
    <2>4. CASE IsRecordType(current) /\ current.of \notin visited
      <3> DEFINE f == fieldTypes[current.of]
      <3>1. visited' = visited \cup {current.of} /\ pending' = pending \o f
        BY <1>5, <2>4 DEF Expand, Marked
      <3>2. f \in Seq(Type) /\ DOMAIN f = 1..Len(f)
        BY <2>4, FieldsAreSequences DEF IsRecordType, TypeOK
      <3> HIDE DEF f
      <3>3. /\ Len(pending') = Len(pending) + Len(f)
            /\ \A i \in 1..Len(pending) : pending'[i] = pending[i]
            /\ \A i \in 1..Len(f) : pending'[Len(pending) + i] = f[i]
        BY <3>1, <3>2 DEF TypeOK
      <3>4. Len(pending) \in Nat /\ Len(f) \in Nat
        BY <3>2 DEF TypeOK
      <3>5. ASSUME NEW i \in 1..Len(pending')
            PROVE  Reaches(ListElementType(asked), pending'[i])
        <4>1. CASE i \in 1..Len(pending)
          BY <2>1, <3>3, <4>1 DEF Search
        <4>2. CASE i \notin 1..Len(pending)
          <5>1. i - Len(pending) \in 1..Len(f) /\ i = Len(pending) + (i - Len(pending))
            BY <3>3, <3>4, <4>2
          <5>2. pending'[i] = f[i - Len(pending)]
            BY <3>3, <5>1
          <5>3. pending'[i] \in Parts(current)
            BY <2>1, <2>4, <3>2, <5>1, <5>2 DEF Parts, IsRecordType, f
          <5> QED BY <2>1, <5>3, ReachesParts DEF Search
        <4> QED BY <4>1, <4>2
      <3>6. ASSUME NEW r \in visited', NEW i \in DOMAIN fieldTypes[r]
            PROVE  \E j \in 1..Len(pending') : pending'[j] = fieldTypes[r][i]
        <4>1. CASE r \in visited
          <5>1. PICK j \in 1..Len(pending) : pending[j] = fieldTypes[r][i]
            BY <2>1, <4>1 DEF Search
          <5> QED BY <3>3, <3>4, <5>1
        <4>2. CASE r = current.of
          <5>1. i \in 1..Len(f) /\ fieldTypes[r][i] = f[i]
            BY <3>2, <4>2 DEF f
          <5>2. Len(pending) + i \in 1..Len(pending')
            BY <3>3, <3>4, <5>1
          <5> QED BY <3>3, <5>1, <5>2
        <4> QED BY <3>1, <4>1, <4>2
      <3>7. ASSUME NEW j \in 1..index' PROVE Dealt(pending[j])'
        <4>1. j \in 1..Len(pending) /\ pending'[j] = pending[j]
          BY <2>1, <3>3, <3>4
        <4>2. CASE j = index
          <5>1. pending[j].of = current.of
            BY <2>1, <4>2 DEF Search
          <5> QED BY <2>1, <2>2, <3>1, <4>1, <4>2, <5>1 DEF Dealt
        <4>3. CASE j # index
          <5>1. Dealt(pending[j])
            BY <2>1, <4>3 DEF Search
          <5> QED BY <2>1, <3>1, <4>1, <5>1 DEF Dealt
        <4> QED BY <4>2, <4>3
      <3>8. Len(pending') > 0 /\ pending'[1] = ListElementType(asked)
        BY <2>1, <3>3, <3>4 DEF Search
      <3>9. Search'
        BY <1>1, <2>1, <3>5, <3>6, <3>7, <3>8 DEF Search
      <3> QED BY <2>3, <3>9
    <2>5. CASE ~(IsRecordType(current) /\ current.of \notin visited)
      <3>1. visited' = visited /\ pending' = pending
        BY <1>5, <2>5 DEF Expand
      <3>2. current.of \in Records => current.of \in visited
        BY <2>1, <2>5 DEF IsRecordType, IsListType, Type
      <3>3. ASSUME NEW j \in 1..index' PROVE Dealt(pending[j])'
        BY <2>1, <2>2, <3>1, <3>2 DEF Search, Dealt
      <3>4. Search'
        BY <1>1, <2>1, <3>1, <3>3 DEF Search
      <3> QED BY <2>3, <3>4
    <2> QED BY <2>4, <2>5
  <1>6. CASE Run
    BY <1>1, <1>6 DEF Run, Search, Concluded, checkVars
  <1>7. CASE RunStep
    BY <1>1, <1>7 DEF RunStep, Search, Concluded, checkVars
  <1>8. CASE UNCHANGED vars
    <2>1. UNCHANGED <<asked, pending, index, current, visited, safe, phase>>
      BY <1>8 DEF vars, checkVars
    <2> QED BY <1>1, <2>1 DEF Search, Concluded, Dealt
  <1> QED
    BY <1>2, <1>3, <1>4, <1>5, <1>6, <1>7, <1>8 DEF Next, Check, Begin, SetField, AddItem,
       Add, Assign, Appended, Finish, Destroy
-----------------------------------------------------------------------------
(* A store changes the references of one object, by at most the value      *)
(* stored.                                                                 *)
LEMMA StoreRefs ==
    ASSUME TypeOK, NEW o \in Object, NEW v \in Object \cup {Plain}, NEW s,
           \/ s = Append(slots[o], v)
           \/ \E i : s = [slots[o] EXCEPT ![i] = v],
           slots' = [slots EXCEPT ![o] = s]
    PROVE  /\ \A p \in Object : p # o => Refs(p)' = Refs(p)
           /\ Refs(o)' \subseteq Refs(o) \cup ({v} \ {Plain})
  <1>1. slots[o] \in Seq(Object \cup {Plain}) /\ slots'[o] = s
    BY DEF TypeOK, Slots
  <1>2. \A p \in Object : p # o => slots'[p] = slots[p]
    BY DEF TypeOK
  <1>3. \A j \in DOMAIN s : s[j] = v \/ (j \in DOMAIN slots[o] /\ s[j] = slots[o][j])
    BY <1>1
  <1> QED
    BY <1>1, <1>2, <1>3 DEF Refs

(* What the program can store is plain or a finished object of the type. *)
LEMMA ValueFacts ==
    ASSUME NEW t, NEW v \in Value(t)
    PROVE  v = Plain \/ (v \in Live \ building /\ type[v] = t)
  BY DEF Value

(* An object that nothing refers to closes no cycle. *)
LEMMA FreshKeepsAcyclic ==
    ASSUME NoCycle, NEW o \in Object,
           \A p \in Object : p # o => Refs(p)' = Refs(p),
           \A p \in Object : o \notin Refs(p)'
    PROVE  NoCycle'
  <1> SUFFICES ASSUME NEW S \in SUBSET Object, S # {},
                      \A p \in S : Refs(p)' \cap S # {}
               PROVE  FALSE
    BY DEF NoCycle
  <1> DEFINE T == S \ {o}
  <1>1. \A p \in T : Refs(p) \cap T # {}
    OBVIOUS
  <1>2. T = {}
    BY <1>1 DEF NoCycle
  <1>3. S = {o}
    BY <1>2
  <1> QED BY <1>3

(* The argument of the compiler's comment: a store l -> v closes a cycle   *)
(* only if v already leads to l, and then so do their types.               *)
LEMMA StoreKeepsAcyclic ==
    ASSUME TypeOK, WellTyped, Blank, NoCycle, NEW l \in Live, NEW v \in Live,
           ~Reaches(type[v], type[l]),
           \A p \in Object : p # l => Refs(p)' = Refs(p),
           Refs(l)' \subseteq Refs(l) \cup {v}
    PROVE  NoCycle'
  <1> SUFFICES ASSUME NEW S \in SUBSET Object, S # {},
                      \A p \in S : Refs(p)' \cap S # {}
               PROVE  FALSE
    BY DEF NoCycle
  <1>1. PICK C \in SUBSET Type : type[v] \in C /\ Closed(C) /\ type[l] \notin C
    BY DEF Reaches
  <1> DEFINE D == {p \in S : p \in Live /\ type[p] \in C}
  <1>2. ASSUME NEW p \in D PROVE Refs(p) \cap D # {}
    <2>1. p # l /\ Refs(p)' = Refs(p)
      BY <1>1
    <2>2. PICK w \in S : w \in Refs(p)
      BY <2>1
    <2>3. w \in Live /\ type[w] \in Parts(type[p])
      BY <2>2 DEF WellTyped
    <2>4. type[w] \in C
      BY <1>1, <2>3 DEF Closed
    <2> QED BY <2>2, <2>3, <2>4
  <1>3. D = {}
    BY <1>2 DEF NoCycle
  <1>4. v \notin S
    BY <1>1, <1>3
  <1>5. \A p \in S : Refs(p) \cap S # {}
    BY <1>4
  <1> QED BY <1>5 DEF NoCycle

(* Nested Lists of scalars cannot hold themselves. *)
LEMMA ScalarListsSafe ==
    ASSUME NEW t \in Type, IsListType(t), t.of \notin Records
    PROVE  ~Reaches(ListElementType(t), t)
  <1> DEFINE C == {u \in Type : u.of = t.of /\ u.brackets < t.brackets}
  <1>1. ListElementType(t) \in C
    BY ElementFacts, BoundAssumption DEF Type
  <1>2. t \notin C
    BY BoundAssumption DEF Type
  <1>3. ASSUME NEW u \in C, NEW w \in Parts(u) PROVE w \in C
    <2>1. IsListType(u) /\ w = ListElementType(u)
      BY <1>3 DEF Parts
    <2> QED BY <2>1, ElementFacts, BoundAssumption DEF Type
  <1> QED BY <1>1, <1>2, <1>3 DEF Reaches, Closed

(* A mutation that was accepted is a store that closes no cycle. *)
LEMMA AcceptedIsSafe ==
    ASSUME TypeOK, Concluded, NEW t \in Type, MayMutate(t)
    PROVE  ~Reaches(ListElementType(t), t)
  BY ScalarListsSafe DEF Concluded, MayMutate

(* A store of a value of the right type keeps every object well typed. *)
LEMMA StoreKeepsTyped ==
    ASSUME TypeOK, WellTyped, Blank, NEW o \in Live, NEW v,
           v = Plain \/ (v \in Live \ building /\ type[v] \in Parts(type[o])),
           UNCHANGED <<fieldTypes, type, building>>,
           \A p \in Object : p # o => Refs(p)' = Refs(p),
           Refs(o)' \subseteq Refs(o) \cup ({v} \ {Plain})
    PROVE  WellTyped' /\ Blank'
  <1>1. Live' = Live /\ o \in Object
    BY DEF Live
  <1>2. \A t : Parts(t)' = Parts(t)
    BY DEF Parts
  <1>3. ASSUME NEW p \in Live, NEW w \in Refs(p)'
        PROVE  w \in Live \ building /\ type[w] \in Parts(type[p])
    <2>1. CASE p = o /\ w \notin Refs(o)
      BY <1>3, <2>1
    <2>2. CASE w \in Refs(p)
      BY <2>2 DEF WellTyped
    <2> QED BY <1>3, <2>1, <2>2 DEF Live
  <1>4. WellTyped'
    BY <1>1, <1>2, <1>3 DEF WellTyped
  <1>5. Blank'
    BY <1>1 DEF Blank
  <1> QED BY <1>4, <1>5

(* Every step of a running program keeps its heap well typed and acyclic. *)
LEMMA HeapStep ==
    ASSUME TypeOK, TypeOK', Concluded, HeapInv, [Next]_vars
    PROVE  HeapInv'
  <1> USE DEF HeapInv
  <1>1. fieldTypes' = fieldTypes
    BY DeclarationsStay
  <1>2. \A t : Parts(t)' = Parts(t)
    BY <1>1 DEF Parts
  <1>3. \A p \in Object : \A w \in Refs(p) : w \in Live \ building
    BY DEF WellTyped, Blank
  <1>4. CASE UNCHANGED heapVars
    <2>1. Live' = Live /\ \A p : Refs(p)' = Refs(p)
      BY <1>4 DEF heapVars, Live, Refs
    <2> QED BY <1>2, <1>4, <2>1 DEF heapVars, WellTyped, Blank, NoCycle
  <1>5. ASSUME NEW o \in Object, NEW t \in Type, Begin(o, t) PROVE HeapInv'
    <2>1. \A p \in Object : p # o => Refs(p)' = Refs(p) /\ type'[p] = type[p]
      BY <1>5 DEF Begin, Refs, TypeOK
    <2>2. Refs(o)' = {}
      <3>1. slots'[o] = IF IsListType(t) THEN <<>> ELSE [i \in DOMAIN fieldTypes[t.of] |-> Plain]
        BY <1>5 DEF Begin, TypeOK
      <3>2. \A i \in DOMAIN slots'[o] : slots'[o][i] = Plain
        BY <3>1
      <3> QED BY <3>2 DEF Refs
    <2>3. o \notin Live /\ Live' = Live \cup {o} /\ building' = building \cup {o}
      BY <1>5, NoTypeIsNoType DEF Begin, Live, TypeOK
    <2>4. WellTyped'
      BY <1>2, <2>1, <2>2, <2>3 DEF WellTyped, Live
    <2>5. Blank'
      BY <2>1, <2>2, <2>3 DEF Blank
    <2>6. \A p \in Object : o \notin Refs(p)'
      BY <1>3, <2>1, <2>2, <2>3
    <2>7. NoCycle'
      BY <2>1, <2>6, FreshKeepsAcyclic
    <2> QED BY <2>4, <2>5, <2>7
  <1>6. ASSUME NEW o \in building, NEW v \in Object \cup {Plain}, NEW s,
               \/ s = Append(slots[o], v)
               \/ \E i : s = [slots[o] EXCEPT ![i] = v],
               slots' = [slots EXCEPT ![o] = s],
               NEW t \in Parts(type[o]), v \in Value(t),
               UNCHANGED <<type, building>>
        PROVE  HeapInv'
    <2>1. o \in Live /\ o \in Object
      BY <1>6 DEF TypeOK, Live
    <2>2. v = Plain \/ (v \in Live \ building /\ type[v] = t)
      BY <1>6, ValueFacts
    <2>3. /\ \A p \in Object : p # o => Refs(p)' = Refs(p)
          /\ Refs(o)' \subseteq Refs(o) \cup ({v} \ {Plain})
      BY <1>6, <2>1, StoreRefs
    <2>4. WellTyped' /\ Blank'
      BY <1>1, <1>6, <2>1, <2>2, <2>3, StoreKeepsTyped
    <2>5. \A p \in Object : o \notin Refs(p)'
      BY <1>3, <1>6, <2>2, <2>3
    <2>6. NoCycle'
      BY <2>1, <2>3, <2>5, FreshKeepsAcyclic
    <2> QED BY <2>4, <2>6
  <1>7. ASSUME NEW o \in Object, NEW i \in 1..MaxFields, NEW v \in Object \cup {Plain},
               SetField(o, i, v)
        PROVE  HeapInv'
    <2> DEFINE s == [slots[o] EXCEPT ![i] = v]
               t == fieldTypes[type[o].of][i]
    <2>1. o \in building /\ IsRecordType(type[o]) /\ type[o] \in Type
      BY <1>7, NoTypeIsNoType DEF SetField, TypeOK, Live
    <2>2. v \in Value(t) /\ slots' = [slots EXCEPT ![o] = s] /\ UNCHANGED <<type, building>>
      BY <1>7 DEF SetField
    <2>3. t \in Parts(type[o])
      BY <1>7, <2>1 DEF SetField, Parts, IsRecordType, IsListType
    <2>4. \E j : s = [slots[o] EXCEPT ![j] = v]
      OBVIOUS
    <2> HIDE DEF s, t
    <2> QED BY <1>6, <2>1, <2>2, <2>3, <2>4
  <1>8. ASSUME NEW o \in Object, NEW v \in Object \cup {Plain}, AddItem(o, v) PROVE HeapInv'
    <2> DEFINE s == Append(slots[o], v)
               t == ListElementType(type[o])
    <2>1. o \in building /\ t \in Parts(type[o])
      BY <1>8 DEF AddItem, Parts
    <2>2. v \in Value(t) /\ slots' = [slots EXCEPT ![o] = s] /\ UNCHANGED <<type, building>>
      BY <1>8 DEF AddItem
    <2>3. s = Append(slots[o], v)
      OBVIOUS
    <2> HIDE DEF s, t
    <2> QED BY <1>6, <2>1, <2>2, <2>3
  <1>9. ASSUME NEW o \in Object, Finish(o) PROVE HeapInv'
    <2>1. /\ building' \subseteq building /\ Live' = Live /\ type' = type
          /\ \A p : Refs(p)' = Refs(p)
      BY <1>9 DEF Finish, Live, Refs
    <2> QED BY <1>2, <2>1 DEF WellTyped, Blank, NoCycle
  <1>10. ASSUME NEW l \in Live \ building, NEW v \in Object \cup {Plain}, NEW s,
                MayMutate(type[l]), v \in Value(ListElementType(type[l])),
                \/ s = Append(slots[l], v)
                \/ \E i : s = [slots[l] EXCEPT ![i] = v],
                slots' = [slots EXCEPT ![l] = s],
                UNCHANGED <<type, building>>
         PROVE  HeapInv'
    <2>1. l \in Object /\ type[l] \in Type /\ IsListType(type[l])
      BY <1>10 DEF Live, TypeOK, MayMutate
    <2>2. ListElementType(type[l]) \in Parts(type[l])
      BY <2>1 DEF Parts
    <2>3. v = Plain \/ (v \in Live \ building /\ type[v] = ListElementType(type[l]))
      BY <1>10, ValueFacts
    <2>4. /\ \A p \in Object : p # l => Refs(p)' = Refs(p)
          /\ Refs(l)' \subseteq Refs(l) \cup ({v} \ {Plain})
      BY <1>10, <2>1, StoreRefs
    <2>5. WellTyped' /\ Blank'
      BY <1>1, <1>10, <2>2, <2>3, <2>4, StoreKeepsTyped
    <2>6. ~Reaches(ListElementType(type[l]), type[l])
      BY <1>10, <2>1, AcceptedIsSafe
    <2>7. CASE v = Plain
      <3>1. \A p \in Object : Refs(p)' \subseteq Refs(p)
        BY <2>4, <2>7
      <3>2. NoCycle'
        BY <3>1 DEF NoCycle
      <3> QED BY <2>5, <3>2
    <2>8. CASE v # Plain
      <3>1. v \in Live /\ ~Reaches(type[v], type[l])
        BY <2>3, <2>6, <2>8
      <3>2. Refs(l)' \subseteq Refs(l) \cup {v}
        BY <2>4
      <3>3. NoCycle'
        BY <2>4, <3>1, <3>2, StoreKeepsAcyclic
      <3> QED BY <2>5, <3>3
    <2> QED BY <2>7, <2>8
  <1>11. ASSUME NEW l \in Object, NEW v \in Object \cup {Plain}, Add(l, v) PROVE HeapInv'
    <2> DEFINE s == Append(slots[l], v)
    <2>1. /\ l \in Live \ building /\ MayMutate(type[l]) /\ v \in Value(ListElementType(type[l]))
          /\ slots' = [slots EXCEPT ![l] = s] /\ UNCHANGED <<type, building>>
      BY <1>11 DEF Add
    <2>2. s = Append(slots[l], v)
      OBVIOUS
    <2> HIDE DEF s
    <2> QED BY <1>10, <2>1, <2>2
  <1>12. ASSUME NEW l \in Object, NEW i \in 1..MaxLength, NEW v \in Object \cup {Plain},
                Assign(l, i, v)
         PROVE  HeapInv'
    <2> DEFINE s == [slots[l] EXCEPT ![i] = v]
    <2>1. /\ l \in Live \ building /\ MayMutate(type[l]) /\ v \in Value(ListElementType(type[l]))
          /\ slots' = [slots EXCEPT ![l] = s] /\ UNCHANGED <<type, building>>
      BY <1>12 DEF Assign
    <2>2. \E j : s = [slots[l] EXCEPT ![j] = v]
      OBVIOUS
    <2> HIDE DEF s
    <2> QED BY <1>10, <2>1, <2>2
  <1>13. ASSUME NEW o \in Object, NEW l \in Object, NEW v \in Object \cup {Plain},
                Appended(o, l, v)
         PROVE  HeapInv'
    <2>1. /\ o \notin Live /\ l \in Live \ building /\ l # o
          /\ type' = [type EXCEPT ![o] = type[l]] /\ building' = building
          /\ IsListType(type[l]) /\ type[l] \in Type
      BY <1>13 DEF Appended, Live, TypeOK
    <2>2. Live' = Live \cup {o} /\ type'[o] = type[l] /\ o \notin building
      BY <2>1, NoTypeIsNoType DEF Live, TypeOK
    <2>3. \A p \in Object : p # o => Refs(p)' = Refs(p) /\ type'[p] = type[p]
      BY <1>13, <2>1 DEF Appended, Refs, TypeOK
    <2>4. v = Plain \/ (v \in Live \ building /\ type[v] = ListElementType(type[l]))
      BY <1>13, ValueFacts DEF Appended
    <2>5. Refs(o)' \subseteq Refs(l) \cup ({v} \ {Plain})
      <3>1. slots'[o] = Append(slots[l], v) /\ slots[l] \in Seq(Object \cup {Plain})
        BY <1>13 DEF Appended, TypeOK, Slots
      <3>2. \A j \in DOMAIN slots'[o] :
               slots'[o][j] = v \/ (j \in DOMAIN slots[l] /\ slots'[o][j] = slots[l][j])
        BY <3>1
      <3> QED BY <3>2 DEF Refs
    <2>6. ListElementType(type[l]) \in Parts(type[l])
      BY <2>1 DEF Parts
    <2>7. ASSUME NEW w \in Refs(o)' PROVE w \in Live \ building /\ type[w] \in Parts(type[l])
      BY <2>1, <2>4, <2>5, <2>6 DEF WellTyped
    <2>8. WellTyped'
      BY <1>2, <2>1, <2>2, <2>3, <2>7 DEF WellTyped, Live
    <2>9. Blank'
      BY <2>2, <2>3 DEF Blank
    <2>10. \A p \in Object : o \notin Refs(p)'
      BY <1>3, <2>1, <2>3, <2>7
    <2>11. NoCycle'
      BY <2>3, <2>10, FreshKeepsAcyclic
    <2> QED BY <2>8, <2>9, <2>11
  <1>14. ASSUME NEW o \in Object, Destroy(o) PROVE HeapInv'
    <2>1. /\ o \in Live \ building /\ building' = building
          /\ \A p \in Live : o \notin Refs(p)
      BY <1>14 DEF Destroy, Unowned
    <2>2. \A p \in Object : p # o => Refs(p)' = Refs(p) /\ type'[p] = type[p]
      BY <1>14 DEF Destroy, Refs, TypeOK
    <2>3. Refs(o)' = {}
      BY <1>14 DEF Destroy, Refs, TypeOK
    <2>4. Live' = Live \ {o}
      BY <1>14 DEF Destroy, Live, TypeOK
    <2>5. \A p \in Object : o \notin Refs(p)'
      BY <2>1, <2>2, <2>3 DEF Blank
    <2>6. WellTyped'
      BY <1>2, <2>1, <2>2, <2>4, <2>5 DEF WellTyped, Live
    <2>7. Blank'
      BY <2>2, <2>3, <2>4 DEF Blank
    <2>8. NoCycle'
      BY <2>2, <2>5, FreshKeepsAcyclic
    <2> QED BY <2>6, <2>7, <2>8
  <1>15. CASE Check
    BY <1>4, <1>15 DEF Check, CheckListMutation, NextPending, Unwrap, Expand, Run
  <1>16. CASE UNCHANGED vars
    BY <1>4, <1>16 DEF vars
  <1> QED
    BY <1>5, <1>7, <1>8, <1>9, <1>11, <1>12, <1>13, <1>14, <1>15, <1>16 DEF Next
-----------------------------------------------------------------------------
(* Before anything is checked or allocated, everything holds. *)
LEMMA Initially == Init => TypeOK /\ Search /\ Concluded /\ HeapInv
  <1> SUFFICES ASSUME Init PROVE TypeOK /\ Search /\ Concluded /\ HeapInv
    OBVIOUS
  <1>1. <<>> \in Seq(Type) /\ Len(<<>>) = 0 /\ <<>> \in Slots
    BY DEF Slots
  <1>2. TypeOK
    BY <1>1 DEF Init, TypeOK, Phases, Live
  <1>3. Search /\ Concluded
    BY DEF Init, Search, Concluded
  <1>4. Live = {} /\ \A o \in Object : Refs(o) = {}
    BY DEF Init, Live, Refs
  <1>5. HeapInv
    BY <1>4 DEF HeapInv, WellTyped, Blank, NoCycle
  <1> QED BY <1>2, <1>3, <1>5

(* The inductive invariant of the check and of the program it lets run. *)
THEOREM InvariantHolds == Spec => [](TypeOK /\ Search /\ Concluded /\ HeapInv)
  <1>1. TypeOK /\ Search /\ Concluded /\ HeapInv /\ [Next]_vars
            => (TypeOK /\ Search /\ Concluded /\ HeapInv)'
    BY TypeStep, SearchStep, HeapStep
  <1> QED BY <1>1, Initially, PTL DEF Spec

(* checkListMutation accepts exactly the List types whose elements cannot  *)
(* lead back to them, for any declared records and any order of checks.    *)
THEOREM CheckIsExact == Spec => []VerdictExact
  <1>1. Concluded => VerdictExact
    BY DEF Concluded, VerdictExact
  <1> QED BY <1>1, InvariantHolds, PTL

(* A program that passes the check never makes a reference cycle, which is *)
(* what reference counting in rc_drop relies on to free everything.        *)
THEOREM HeapsAreAcyclic == Spec => []HeapsSound
  <1>1. HeapInv => HeapsSound
    BY DEF HeapInv, HeapsSound
  <1> QED BY <1>1, InvariantHolds, PTL
-----------------------------------------------------------------------------
(* The positions of a record are as many as its fields. *)
LEMMA PositionsCounted ==
    ASSUME NEW r, NEW n \in Nat
    PROVE  IsFiniteSet({<<r, i>> : i \in 1..n}) /\ Cardinality({<<r, i>> : i \in 1..n}) = n
  <1> DEFINE S == {<<r, i>> : i \in 1..n}
             f == [i \in 1..n |-> <<r, i>>]
  <1>1. IsFiniteSet(1..n) /\ Cardinality(1..n) = n
    <2>1. IsFiniteSet(1..n) /\ Cardinality(1..n) = IF 1 > n THEN 0 ELSE n - 1 + 1
      BY FS_Interval
    <2> QED BY <2>1
  <1>2. f \in Bijection(1..n, S)
    BY Fun_IsBij
  <1> HIDE DEF f, S
  <1>3. ExistsBijection(1..n, S)
    BY <1>2 DEF ExistsBijection
  <1> QED BY <1>1, <1>3, FS_Bijection DEF S

(* Finitely many fields of declared records are unvisited. *)
LEMMA UnvisitedCounted ==
    ASSUME TypeOK
    PROVE  IsFiniteSet(UnvisitedFields) /\ Unvisited \in Nat
  <1>1. IsFiniteSet(Records \ visited)
    BY BaseAssumption, FS_Subset
  <1>2. IsFiniteSet(1..MaxFields)
    BY BoundAssumption, FS_Interval
  <1>3. IsFiniteSet((Records \ visited) \X (1..MaxFields))
    BY <1>1, <1>2, FS_Product
  <1>4. UnvisitedFields \subseteq (Records \ visited) \X (1..MaxFields)
    BY DEF UnvisitedFields
  <1>5. IsFiniteSet(UnvisitedFields)
    BY <1>3, <1>4, FS_Subset
  <1> QED BY <1>5, FS_CardinalityType DEF Unvisited

(* What a record adds to the pending types was unvisited before. *)
LEMMA ExpansionMoves ==
    ASSUME TypeOK, TypeOK', NEW r \in Records \ visited, visited' = visited \cup {r},
           fieldTypes' = fieldTypes
    PROVE  Unvisited = Unvisited' + Len(fieldTypes[r]) /\ Unvisited' \in Nat
           /\ Len(fieldTypes[r]) \in Nat
  <1> DEFINE n == Len(fieldTypes[r])
             P == {<<r, i>> : i \in 1..n}
             U == UnvisitedFields
             V == UnvisitedFields'
  <1>1. PICK k \in 0..MaxFields : fieldTypes[r] \in [1..k -> Type]
    <2>1. fieldTypes[r] \in Fields
      BY DEF TypeOK
    <2> QED BY <2>1 DEF Fields
  <1>2. k \in Nat /\ n = k /\ DOMAIN fieldTypes[r] = 1..k
    BY <1>1, BoundAssumption, FieldsAreSequences DEF Fields
  <1>3. U = V \cup P /\ V \cap P = {}
    <2>1. \A i : i \in 1..k => i \in 1..MaxFields
      BY <1>1, BoundAssumption
    <2>2. V = {p \in (Records \ (visited \cup {r})) \X (1..MaxFields) : p[2] \in DOMAIN fieldTypes[p[1]]}
      BY DEF UnvisitedFields
    <2>3. U = {p \in (Records \ visited) \X (1..MaxFields) : p[2] \in DOMAIN fieldTypes[p[1]]}
      BY DEF UnvisitedFields
    <2> HIDE DEF U, V
    <2>4. \A x \in U : x \in V \cup P
      BY <1>2, <2>2, <2>3
    <2>5. \A x \in V : x \in U /\ x \notin P
      BY <2>2, <2>3
    <2>6. \A x \in P : x \in U
      BY <1>2, <2>1, <2>3
    <2> QED BY <2>4, <2>5, <2>6
  <1>4. IsFiniteSet(U) /\ Unvisited = Cardinality(U)
    BY UnvisitedCounted DEF Unvisited
  <1>5. IsFiniteSet(V) /\ Unvisited' = Cardinality(V)
    <2>1. IsFiniteSet(V)
      BY <1>3, <1>4, FS_Subset
    <2> QED BY <2>1 DEF Unvisited
  <1>6. IsFiniteSet(P) /\ Cardinality(P) = n
    BY <1>2, PositionsCounted
  <1> HIDE DEF n, P, U, V
  <1>8. Cardinality(V) \in Nat
    BY <1>5, FS_CardinalityType
  <1>9. Cardinality(P) \in Nat /\ n \in Nat
    BY <1>2, <1>6 DEF n
  <1>7. Cardinality(U) = Cardinality(V) + Cardinality(P)
    <2>1. Cardinality(V \cup P) = Cardinality(V) + Cardinality(P) - Cardinality(V \cap P)
      BY <1>5, <1>6, FS_Union
    <2>2. Cardinality(V \cap P) = 0
      BY <1>3, FS_EmptySet
    <2> QED BY <1>3, <1>8, <1>9, <2>1, <2>2
  <1> QED BY <1>2, <1>4, <1>5, <1>6, <1>7, <1>8 DEF n

(* Work is counted in natural numbers. *)
LEMMA WorkIsNatural == ASSUME NEW m \in Nat, NEW n \in Nat PROVE m * n \in Nat
  OBVIOUS

(* Looking at a pending type costs less than it was pending. *)
LEMMA LessLeft ==
    ASSUME NEW b \in Nat, NEW m \in Nat, m = b + 2, NEW n \in Nat, NEW k \in Nat, k = n + 1,
           NEW c \in 0..b, NEW w, NEW v, w = m * k + 0, v = m * n + (1 + c)
    PROVE  v < w /\ v >= 0
  <1>1. m * k = m * n + m
    OBVIOUS
  <1>2. PICK p \in Nat : p = m * n
    BY WorkIsNatural
  <1>3. m * k = p + m
    BY <1>1, <1>2
  <1> QED BY <1>2, <1>3

(* Every step of a search leaves less work. *)
LEMMA SearchStepShrinks ==
    ASSUME TypeOK, TypeOK', Search, [Next]_vars,
           phase \in {"next", "look"}, phase' \in {"next", "look"}, vars' # vars
    PROVE  WorkLeft' < WorkLeft /\ WorkLeft' >= 0
  <1> DEFINE M == MaxBrackets + 2
             left == Unvisited + Len(pending) - index
  <1>1. M \in Nat /\ M > 1 /\ MaxBrackets \in Nat /\ M = MaxBrackets + 2
    BY BoundAssumption
  <1>2. Unvisited \in Nat
    BY UnvisitedCounted
  <1>3. Len(pending) \in Nat /\ index \in Nat /\ index <= Len(pending)
    BY DEF TypeOK
  <1>4. left \in Nat
    BY <1>2, <1>3
  <1>5. CASE NextPending
    <2>1. /\ index < Len(pending) /\ index' = index + 1 /\ current' = pending[index + 1]
          /\ phase = "next" /\ phase' = "look" /\ UNCHANGED <<pending, visited, fieldTypes>>
      BY <1>5 DEF NextPending
    <2>2. current'.brackets \in 0..MaxBrackets
      <3>1. index + 1 \in 1..Len(pending)
        BY <1>3, <2>1
      <3>2. pending[index + 1] \in Type
        BY <3>1 DEF TypeOK
      <3> QED BY <2>1, <3>2 DEF Type
    <2>3. Unvisited' = Unvisited
      BY <2>1 DEF Unvisited, UnvisitedFields
    <2> DEFINE rest == Unvisited' + Len(pending') - index'
    <2>4. rest \in Nat /\ left = rest + 1
      BY <1>2, <1>3, <2>1, <2>3
    <2>5. WorkLeft = M * left + 0
      BY <2>1 DEF WorkLeft
    <2>6. WorkLeft' = M * rest + (1 + current'.brackets)
      BY <2>1 DEF WorkLeft
    <2> HIDE DEF M, left, rest
    <2> QED BY <1>1, <2>2, <2>4, <2>5, <2>6, LessLeft
  <1>6. CASE Unwrap
    <2>1. /\ current' = ListElementType(current) /\ IsListType(current)
          /\ phase = "look" /\ phase' = "look" /\ UNCHANGED <<pending, index, visited, fieldTypes>>
      BY <1>6 DEF Unwrap, Unwrapped
    <2>2. current \in Type
      BY <2>1 DEF TypeOK
    <2>3. current.brackets \in Nat /\ current.brackets > 0 /\ current'.brackets = current.brackets - 1
      BY <2>1, <2>2, ElementFacts, BoundAssumption DEF Type, IsListType
    <2>4. Unvisited' = Unvisited /\ left' = left
      BY <2>1 DEF Unvisited, UnvisitedFields
    <2>5. WorkLeft = M * left + (1 + current.brackets)
      BY <2>1 DEF WorkLeft
    <2>6. WorkLeft' = M * left + (1 + current'.brackets)
      BY <2>1, <2>4 DEF WorkLeft
    <2>7. PICK p \in Nat, c \in Nat : p = M * left /\ c = current'.brackets
      BY <1>1, <1>4, <2>3, WorkIsNatural
    <2>8. WorkLeft = p + (1 + (c + 1)) /\ WorkLeft' = p + (1 + c)
      BY <2>3, <2>5, <2>6, <2>7
    <2>9. p + (1 + c) < p + (1 + (c + 1)) /\ p + (1 + c) >= 0
      BY <2>7
    <2> QED BY ONLY <2>8, <2>9
  <1>7. CASE Expand
    <2>1. /\ phase = "look" /\ phase' = "next" /\ ~IsListType(current)
          /\ UNCHANGED <<index, fieldTypes>>
      BY <1>7 DEF Expand
    <2>2. current \in Type /\ current.brackets = 0
      <3>1. current \in Type
        BY <2>1 DEF TypeOK
      <3> QED BY <2>1, <3>1, BoundAssumption DEF Type, IsListType
    <2>3. Unvisited' + Len(pending') = Unvisited + Len(pending) /\ Len(pending') \in Nat /\ Unvisited' \in Nat
      <3>1. CASE IsRecordType(current) /\ current.of \notin visited
        <4>1. visited' = visited \cup {current.of} /\ pending' = pending \o fieldTypes[current.of]
          BY <1>7, <3>1 DEF Expand, Marked
        <4>2. current.of \in Records \ visited
          BY <3>1 DEF IsRecordType
        <4>3. /\ Unvisited = Unvisited' + Len(fieldTypes[current.of]) /\ Unvisited' \in Nat
              /\ Len(fieldTypes[current.of]) \in Nat
          BY <2>1, <4>1, <4>2, ExpansionMoves
        <4>4. fieldTypes[current.of] \in Seq(Type) /\ pending \in Seq(Type)
          BY <4>2, FieldsAreSequences DEF TypeOK
        <4>5. Len(pending') = Len(pending) + Len(fieldTypes[current.of])
          BY <4>1, <4>4
        <4>6. PICK a \in Nat, b \in Nat, n \in Nat :
                 a = Unvisited' /\ b = Len(pending) /\ n = Len(fieldTypes[current.of])
          BY <1>3, <4>3
        <4>7. Unvisited = a + n /\ Len(pending') = b + n
          BY <4>3, <4>5, <4>6
        <4>8. a + (b + n) = (a + n) + b /\ b + n \in Nat
          BY <4>6
        <4>9. Unvisited' + Len(pending') = a + (b + n) /\ Unvisited + Len(pending) = (a + n) + b
          BY <4>6, <4>7
        <4> QED BY <4>3, <4>7, <4>8, <4>9
      <3>2. CASE ~(IsRecordType(current) /\ current.of \notin visited)
        <4>1. visited' = visited /\ pending' = pending
          BY <1>7, <3>2 DEF Expand
        <4>2. Unvisited' = Unvisited
          BY <2>1, <4>1 DEF Unvisited, UnvisitedFields
        <4> QED BY <1>2, <1>3, <4>1, <4>2
      <3> QED BY <3>1, <3>2
    <2>4. Unvisited' + Len(pending') - index' = left
      BY <1>2, <1>3, <2>1, <2>3
    <2>5. WorkLeft = M * left + 1
      BY <2>1, <2>2 DEF WorkLeft
    <2>6. WorkLeft' = M * left + 0
      BY <2>1, <2>4 DEF WorkLeft
    <2>7. PICK p \in Nat : p = M * left
      BY <1>1, <1>4, WorkIsNatural
    <2> QED BY <2>5, <2>6, <2>7
  <1> QED
    BY <1>5, <1>6, <1>7 DEF Next, Check, CheckListMutation, Run, RunStep, Begin,
       SetField, AddItem, Add, Assign, Appended, Finish, Destroy

(* checkListMutation comes to a verdict for any declarations: every        *)
(* iteration of its loops leaves less work.                                *)
THEOREM SearchEnds == Spec => SearchShrinks
  <1>1. (TypeOK /\ Search) /\ (TypeOK /\ Search)' /\ [Next]_vars
           => [(phase \in {"next", "look"} /\ phase' \in {"next", "look"})
                 => WorkLeft' < WorkLeft /\ WorkLeft' >= 0]_vars
    BY SearchStepShrinks
  <1> QED BY <1>1, InvariantHolds, PTL DEF Spec, SearchShrinks
=============================================================================
