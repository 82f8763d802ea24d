---------------------------- MODULE ListMutation ----------------------------
(***************************************************************************)
(* Why a program in this language never makes a reference cycle, although  *)
(* Lists are shared and mutable.  For each List type that a program        *)
(* mutates, checkListMutation (compiler.min 924-978) searches the declared *)
(* types for a way back to that List type, and rejects the program if it   *)
(* finds one.  A program that compiles then runs: it constructs records    *)
(* and Lists, and mutates Lists of the types that were checked.            *)
(*                                                                         *)
(* A type is a number of List brackets around a record or another base     *)
(* type (the source codes it as one integer, 802-812).  One iteration of a *)
(* loop of the checker is one step.                                        *)
(***************************************************************************)
EXTENDS Integers, Sequences, FiniteSets

CONSTANTS Records, Scalars,   \* declared records, and types that own nothing
          MaxBrackets,        \* bound: how deep List types are nested
          MaxFields,          \* bound: fields of a record
          MaxLength,          \* bound: elements of a List
          Object,             \* heap objects
          Plain               \* a value that is no object

ASSUME BaseAssumption == Records \cap Scalars = {} /\ IsFiniteSet(Records)
ASSUME BoundAssumption ==
    MaxBrackets \in Nat /\ MaxFields \in Nat /\ MaxLength \in Nat
ASSUME PlainAssumption == Plain \notin Object

Type == [brackets : 0..MaxBrackets, of : Records \cup Scalars]
IsListType(t) == t.brackets > 0
IsRecordType(t) == t.brackets = 0 /\ t.of \in Records
ListElementType(t) == [t EXCEPT !.brackets = @ - 1]
ListTypes == {t \in Type : IsListType(t)}

Fields == UNION {[1..n -> Type] : n \in 0..MaxFields}
Slots == Seq(Object \cup {Plain})
NoType == [brackets |-> -1]

VARIABLES fieldTypes,   \* the declared records
          phase,
          asked,        \* the List type being checked
          pending, index, current, visited,
          safe,         \* the tail of returnTypes: List types proven safe
          type,         \* the type of each object, NoType when not allocated
          slots,        \* its elements or fields
          building      \* objects whose construction has not finished

checkVars == <<asked, pending, index, current, visited, safe>>
heapVars == <<type, slots, building>>
vars == <<fieldTypes, phase, checkVars, heapVars>>

Init ==
    /\ fieldTypes \in [Records -> Fields]
    /\ phase = "compile"
    /\ asked = NoType /\ pending = <<>> /\ index = 0 /\ current = NoType
    /\ visited = {} /\ safe = {}
    /\ type = [o \in Object |-> NoType]
    /\ slots = [o \in Object |-> <<>>]
    /\ building = {}
-----------------------------------------------------------------------------
(* checkListMutation is called for a mutation of a List of type t.  It     *)
(* returns at once for elements that are no records and for a type that    *)
(* was found safe before.                                                  *)
CheckListMutation(t) ==
    /\ phase = "compile"
    /\ t.of \in Records /\ t \notin safe
    /\ asked' = t
    /\ pending' = <<ListElementType(t)>> /\ index' = 0 /\ visited' = {}
    /\ phase' = "next"
    /\ UNCHANGED <<fieldTypes, current, safe, heapVars>>

(* The outer loop: the next pending type, or the type is safe and the      *)
(* local variables are gone.                                               *)
NextPending ==
    /\ phase = "next"
    /\ \/ /\ index < Len(pending)
          /\ current' = pending[index + 1] /\ index' = index + 1
          /\ phase' = "look"
          /\ UNCHANGED <<asked, pending, visited, safe>>
       \/ /\ index = Len(pending)
          /\ safe' = safe \cup {asked}
          /\ phase' = "compile"
          /\ asked' = NoType /\ pending' = <<>> /\ index' = 0
          /\ current' = NoType /\ visited' = {}
    /\ UNCHANGED <<fieldTypes, heapVars>>

(* Mutant: only the immediate element type is compared. *)
IsAskedFirst(t) == t = asked /\ index = 1

(* The type that is looked for. *)
IsAsked(t) == t = asked

Unwrapped(t) == ListElementType(t)

(* The inner loop: a List type is the one asked about, or is unwrapped. *)
Unwrap ==
    /\ phase = "look" /\ IsListType(current)
    /\ \/ IsAsked(current) /\ phase' = "rejected" /\ UNCHANGED current
       \/ ~IsAsked(current) /\ current' = Unwrapped(current) /\ UNCHANGED phase
    /\ UNCHANGED <<fieldTypes, asked, pending, index, visited, safe, heapVars>>

(* Mutant: the record that was reached is not marked. *)
MarkedNone(r) == visited

Marked(r) == visited \cup {r}

(* A record that was not visited adds the types of its fields. *)
Expand ==
    /\ phase = "look" /\ ~IsListType(current)
    /\ \/ /\ IsRecordType(current) /\ current.of \notin visited
          /\ visited' = Marked(current.of)
          /\ pending' = pending \o fieldTypes[current.of]
       \/ /\ IsRecordType(current) => current.of \in visited
          /\ UNCHANGED <<visited, pending>>
    /\ phase' = "next"
    /\ UNCHANGED <<fieldTypes, asked, index, current, safe, heapVars>>

(* Every mutation of the program was accepted, and it runs. *)
Run ==
    /\ phase = "compile"
    /\ phase' = "run"
    /\ UNCHANGED <<fieldTypes, checkVars, heapVars>>
-----------------------------------------------------------------------------
Live == {o \in Object : type[o] # NoType}
Refs(o) == {slots[o][i] : i \in DOMAIN slots[o]} \ {Plain}

(* What the program can name: finished objects. *)
Value(t) == IF t.brackets = 0 /\ t.of \in Scalars THEN {Plain}
            ELSE {o \in Live \ building : type[o] = t}

RunStep == phase = "run" /\ UNCHANGED <<fieldTypes, phase, checkVars>>

(* A record or List literal is allocated before its parts are evaluated:   *)
(* minyar_record_new and minyar_list_new.                                  *)
Begin(o, t) ==
    /\ RunStep
    /\ o \notin Live /\ (IsRecordType(t) \/ IsListType(t))
    /\ type' = [type EXCEPT ![o] = t]
    /\ slots' = [slots EXCEPT ![o] =
                    IF IsListType(t) THEN <<>> ELSE [i \in DOMAIN fieldTypes[t.of] |-> Plain]]
    /\ building' = building \cup {o}

(* A field of the record under construction, in the order of the source.   *)
(* The compiler sees that it is provided once.                             *)
SetField(o, i, v) ==
    /\ RunStep
    /\ o \in building /\ IsRecordType(type[o])
    /\ i \in DOMAIN fieldTypes[type[o].of] /\ slots[o][i] = Plain
    /\ v \in Value(fieldTypes[type[o].of][i])
    /\ slots' = [slots EXCEPT ![o] = [@ EXCEPT ![i] = v]]
    /\ UNCHANGED <<type, building>>

(* An element of the List literal under construction. *)
AddItem(o, v) ==
    /\ RunStep
    /\ o \in building /\ IsListType(type[o]) /\ Len(slots[o]) < MaxLength
    /\ v \in Value(ListElementType(type[o]))
    /\ slots' = [slots EXCEPT ![o] = Append(@, v)]
    /\ UNCHANGED <<type, building>>

(* Every field is provided. *)
Finish(o) ==
    /\ RunStep
    /\ o \in building
    /\ IsRecordType(type[o]) =>
           \A i \in DOMAIN slots[o] :
               slots[o][i] = Plain => Plain \in Value(fieldTypes[type[o].of][i])
    /\ building' = building \ {o}
    /\ UNCHANGED <<type, slots>>

(* Mutant: mutations are not checked. *)
MayMutateAny(t) == IsListType(t)

(* Mutations in the program, by add or by an indexed assignment, were      *)
(* accepted by checkListMutation.                                          *)
MayMutate(t) == IsListType(t) /\ (t.of \in Records => t \in safe)

(* list.add(value) *)
Add(l, v) ==
    /\ RunStep
    /\ l \in Live \ building /\ MayMutate(type[l]) /\ Len(slots[l]) < MaxLength
    /\ v \in Value(ListElementType(type[l]))
    /\ slots' = [slots EXCEPT ![l] = Append(@, v)]
    /\ UNCHANGED <<type, building>>

(* list[index] = value *)
Assign(l, i, v) ==
    /\ RunStep
    /\ l \in Live \ building /\ MayMutate(type[l]) /\ i \in DOMAIN slots[l]
    /\ v \in Value(ListElementType(type[l]))
    /\ slots' = [slots EXCEPT ![l] = [@ EXCEPT ![i] = v]]
    /\ UNCHANGED <<type, building>>

(* list.appended(value): a new List, for which there is no check. *)
Appended(o, l, v) ==
    /\ RunStep
    /\ o \notin Live /\ l \in Live \ building /\ IsListType(type[l])
    /\ Len(slots[l]) < MaxLength
    /\ v \in Value(ListElementType(type[l]))
    /\ type' = [type EXCEPT ![o] = type[l]]
    /\ slots' = [slots EXCEPT ![o] = Append(slots[l], v)]
    /\ UNCHANGED building

(* Nothing but a variable of the program owns the value. *)
Unowned(o) == o \in Live \ building /\ \A p \in Live : o \notin Refs(p)

(* A value that no other value refers to may be destroyed. *)
Destroy(o) ==
    /\ RunStep
    /\ Unowned(o)
    /\ type' = [type EXCEPT ![o] = NoType]
    /\ slots' = [slots EXCEPT ![o] = <<>>]
    /\ UNCHANGED building

Check ==
    \/ \E t \in ListTypes : CheckListMutation(t)
    \/ NextPending \/ Unwrap \/ Expand \/ Run

Next ==
    \/ Check
    \/ \E o \in Object :
          \/ \E t \in Type : Begin(o, t)
          \/ \E i \in 1..MaxFields, v \in Object \cup {Plain} : SetField(o, i, v)
          \/ \E v \in Object \cup {Plain} : AddItem(o, v) \/ Add(o, v)
          \/ \E i \in 1..MaxLength, v \in Object \cup {Plain} : Assign(o, i, v)
          \/ \E l \in Object, v \in Object \cup {Plain} : Appended(o, l, v)
          \/ Finish(o) \/ Destroy(o)

Spec == Init /\ [][Next]_vars
-----------------------------------------------------------------------------
Phases == {"compile", "next", "look", "rejected", "run"}

TypeOK ==
    /\ fieldTypes \in [Records -> Fields]
    /\ phase \in Phases
    /\ asked \in ListTypes \cup {NoType}
    /\ phase \in {"next", "look"} => asked # NoType
    /\ current \in Type \cup {NoType}
    /\ phase = "look" => current # NoType
    /\ pending \in Seq(Type) /\ index \in 0..Len(pending)
    /\ visited \subseteq Records /\ safe \subseteq ListTypes
    /\ type \in [Object -> Type \cup {NoType}]
    /\ slots \in [Object -> Slots]
    /\ building \subseteq Live

(* The types of the parts of a value. *)
Parts(t) ==
    IF IsListType(t) THEN {ListElementType(t)}
    ELSE IF t.of \in Records THEN {fieldTypes[t.of][i] : i \in DOMAIN fieldTypes[t.of]}
    ELSE {}

(* A set of types that holds the parts of its members. *)
Closed(C) == \A t \in C : Parts(t) \subseteq C

(* A value of type t may hold, directly or not, a value of type u. *)
Reaches(t, u) == \A C \in SUBSET Type : (t \in C /\ Closed(C)) => u \in C

(* checkListMutation accepts a List type if and only if its elements       *)
(* cannot lead back to it, whatever was asked before ("Reject exactly the  *)
(* mutations whose declared types permit that return path").               *)
VerdictExact ==
    /\ phase = "rejected" => Reaches(ListElementType(asked), asked)
    /\ phase = "compile" => \A t \in safe : ~Reaches(ListElementType(t), t)

(* No value can be followed back to itself: every set of objects has one   *)
(* that refers to none of the set.  Reference counting frees everything.   *)
NoCycle == \A S \in SUBSET Object : S # {} => \E o \in S : Refs(o) \cap S = {}

(* Parts have the types of their places, and nothing refers to an object   *)
(* that is not finished or not allocated.                                  *)
WellTyped ==
    \A o \in Live : \A v \in Refs(o) : v \in Live \ building /\ type[v] \in Parts(type[o])

(* A program that passed the check has a heap without cycles, of values    *)
(* with the types of their places.                                         *)
HeapsSound == WellTyped /\ NoCycle

(* Fields of the records that a search has not visited yet. *)
UnvisitedFields == {p \in (Records \ visited) \X (1..MaxFields) : p[2] \in DOMAIN fieldTypes[p[1]]}
Unvisited == Cardinality(UnvisitedFields)

(* What is left of a search: the types to look at, and the brackets of the *)
(* one being looked at.                                                    *)
WorkLeft ==
    (MaxBrackets + 2) * (Unvisited + Len(pending) - index)
        + (IF phase = "look" THEN 1 + current.brackets ELSE 0)

(* checkListMutation comes to a verdict, whatever cycles the declarations  *)
(* have: it expands no record twice, so every iteration of its two loops   *)
(* leaves less work, and there is work for finitely many.                  *)
SearchShrinks ==
    [][(phase \in {"next", "look"} /\ phase' \in {"next", "look"})
          => WorkLeft' < WorkLeft /\ WorkLeft' >= 0]_vars
=============================================================================
