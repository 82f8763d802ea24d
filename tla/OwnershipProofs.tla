--------------------------- MODULE OwnershipProofs ---------------------------
(***************************************************************************)
(* Proofs that the ownership contract is safe for any number of values,    *)
(* slots and fields, and what an implementation that counts references     *)
(* needs to keep its counts exact and to follow the contract.              *)
(***************************************************************************)
EXTENDS Ownership, Integers, FiniteSets, FiniteSetTheorems, TLAPS

(* A root is not a field, and a field's owner is a value. *)
LEMMA SlotFacts ==
  ASSUME OwnershipAssumption
  PROVE
    /\ \A o \in Object, i \in Index : <<o, i>> \in Slot /\ <<o, i>> \notin Root
    /\ \A s \in Slot : s \in Root \/ s \in Field
    /\ \A s \in Field : s[1] \in Object
BY DEF OwnershipAssumption, Slot, Field

(* The contract keeps its variables' types. *)
LEMMA TypeCorrect == ASSUME OwnershipAssumption PROVE Spec => []TypeOK
<1>1. Init => TypeOK
  BY DEF Init, TypeOK
<1>2. TypeOK /\ [Next]_vars => TypeOK'
  <2> SUFFICES ASSUME TypeOK, [Next]_vars PROVE TypeOK'
    OBVIOUS
  <2> USE SlotFacts DEF TypeOK, Full, Empty
  <2>1. ASSUME NEW o \in Object, NEW s \in Empty, Allocate(o, s) PROVE TypeOK'
    BY <2>1 DEF Allocate
  <2>2. ASSUME NEW o \in Object, NEW s \in Empty, Share(s, o) PROVE TypeOK'
    BY <2>2 DEF Share
  <2>3. ASSUME NEW s \in Full, NEW t \in Full, NEW u \in Empty, Exchange(s, t, u)
        PROVE TypeOK'
    BY <2>3 DEF Exchange
  <2>4. ASSUME NEW s \in Full, Drop(s) PROVE TypeOK'
    BY <2>4 DEF Drop
  <2>5. ASSUME NEW s \in Full, NEW i \in Index, Unwrap(s, i) PROVE TypeOK'
    BY <2>5 DEF Unwrap
  <2>6. ASSUME NEW o \in Object, Reclaim(o) PROVE TypeOK'
    BY <2>6 DEF Reclaim
  <2>7. ASSUME NEW s \in Empty, NEW t \in Full, Move(s, t) PROVE TypeOK'
    BY <2>7 DEF Move
  <2>8. CASE UNCHANGED vars
    BY <2>8 DEF vars
  <2>9. QED
    BY <2>1, <2>2, <2>3, <2>4, <2>5, <2>6, <2>7, <2>8 DEF Next, Emptied
<1>3. QED
  BY <1>1, <1>2, PTL DEF Spec

(* Safety is inductive: every step that takes a slot's reference away      *)
(* either leaves the value another owner or changes its status.            *)
THEOREM ContractIsSafe == ASSUME OwnershipAssumption PROVE Spec => []Safety
<1>1. Init => Safety
  BY SlotFacts
     DEF OwnershipAssumption, Init, Safety, NoDangling, LiveIsOwned, FreeHoldsNothing, HoldsNothing
<1>2. TypeOK /\ Safety /\ [Next]_vars => Safety'
  <2> SUFFICES ASSUME TypeOK, Safety, [Next]_vars PROVE Safety'
    OBVIOUS
  <2> USE SlotFacts
      DEF OwnershipAssumption, Full, Empty, TypeOK, Safety, NoDangling, LiveIsOwned, FreeHoldsNothing, HoldsNothing
  <2>1. ASSUME NEW o \in Object, NEW s \in Empty, Allocate(o, s) PROVE Safety'
    <3> USE <2>1 DEF Allocate
    <3>1. NoDangling'
      OBVIOUS
    <3>2. LiveIsOwned'
      OBVIOUS
    <3>3. FreeHoldsNothing'
      OBVIOUS
    <3>4. QED
      BY <3>1, <3>2, <3>3
  <2>2. ASSUME NEW o \in Object, NEW s \in Empty, Share(s, o) PROVE Safety'
    <3> USE <2>2 DEF Share
    <3>1. NoDangling'
      OBVIOUS
    <3>2. LiveIsOwned'
      OBVIOUS
    <3>3. FreeHoldsNothing'
      OBVIOUS
    <3>4. QED
      BY <3>1, <3>2, <3>3
  <2>3. ASSUME NEW s \in Full, NEW t \in Full, NEW u \in Empty, Exchange(s, t, u)
        PROVE Safety'
    <3> USE <2>3 DEF Exchange
    <3>1. NoDangling'
      OBVIOUS
    <3>2. LiveIsOwned'
      <4>1. \A r \in Slot \ {s, t, u} : edge'[r] = edge[r]
        OBVIOUS
      <4>2. edge'[s] = edge[t] /\ edge'[u] = edge[s]
        OBVIOUS
      <4>3. QED
        BY <4>1, <4>2
    <3>3. FreeHoldsNothing'
      BY DEF Writable
    <3>4. QED
      BY <3>1, <3>2, <3>3
  <2>4. ASSUME NEW s \in Full, Drop(s) PROVE Safety'
    <3> USE <2>4 DEF Drop
    <3>1. CASE OwnedElsewhere(edge[s], s)
      BY <3>1 DEF OwnedElsewhere
    <3>2. CASE ~ OwnedElsewhere(edge[s], s)
      <4> USE <3>2 DEF OwnedElsewhere
      <4>1. PICK fate \in {"free", "dying"} :
                /\ fate = "free" => HoldsNothing(edge[s])
                /\ status' = [status EXCEPT ![edge[s]] = fate]
        OBVIOUS
      <4>2. \A r \in Slot \ {s} : edge'[r] = edge[r] /\ edge[r] # edge[s]
        OBVIOUS
      <4>3. NoDangling'
        BY <4>1, <4>2
      <4>4. LiveIsOwned'
        BY <4>1, <4>2
      <4>5. FreeHoldsNothing'
        BY <4>1, <4>2
      <4>6. QED
        BY <4>3, <4>4, <4>5
    <3>3. QED
      BY <3>1, <3>2
  <2>5. ASSUME NEW s \in Full, NEW i \in Index, Unwrap(s, i) PROVE Safety'
    <3> DEFINE o == edge[s]
               f == <<edge[s], i>>
    <3> USE <2>5 DEF Unwrap, OwnedElsewhere
    <3>1. o \in Object /\ f \in Slot
      OBVIOUS
    <3>2. /\ \A r \in Slot \ {s, f} : edge'[r] = edge[r] /\ edge[r] # o
          /\ edge'[s] = edge[f]
          /\ edge'[f] = None
          /\ edge[f] # o
      BY <3>1
    <3>3. status'[o] = "free" /\ \A p \in Object \ {o} : status'[p] = status[p]
      BY <3>1
    <3>4. NoDangling'
      BY <3>1, <3>2, <3>3
    <3>5. LiveIsOwned'
      BY <3>1, <3>2, <3>3
    <3>6. FreeHoldsNothing'
      BY <3>1, <3>2, <3>3
    <3>7. QED
      BY <3>4, <3>5, <3>6
  <2>6. ASSUME NEW o \in Object, Reclaim(o) PROVE Safety'
    BY <2>6 DEF Reclaim
  <2>7. ASSUME NEW s \in Empty, NEW t \in Full, Move(s, t) PROVE Safety'
    <3> USE <2>7 DEF Move
    <3>1. NoDangling'
      OBVIOUS
    <3>2. LiveIsOwned'
      <4>1. /\ \A r \in Slot \ {s, t} : edge'[r] = edge[r]
            /\ edge'[s] = edge[t]
        OBVIOUS
      <4>2. QED
        BY <4>1
    <3>3. FreeHoldsNothing'
      BY DEF Writable
    <3>4. QED
      BY <3>1, <3>2, <3>3
  <2>8. CASE UNCHANGED vars
    BY <2>8 DEF vars
  <2>9. QED
    BY <2>1, <2>2, <2>3, <2>4, <2>5, <2>6, <2>7, <2>8 DEF Next, Emptied
<1>3. QED
  BY <1>1, <1>2, TypeCorrect, PTL DEF Spec
-----------------------------------------------------------------------------
(***************************************************************************)
(* Counting references.  An implementation's slots hold values, mortal or  *)
(* not: f says what they hold before a step and g after it, c and d how    *)
(* often each value is counted, and z is the slot of the reference that is *)
(* being dropped.                                                          *)
(***************************************************************************)
Holders(f, o) == {s \in Slot : f[s] = o}
Exact(f, c) == \A o \in Object : Cardinality(Holders(f, o)) = c[o]

(* The contract sees what slots hold of mortal values. *)
EdgeOf(f) == [s \in Slot |-> IF f[s] \in Object THEN f[s] ELSE None]

OnlyAt(f, g, s) == \A r \in Slot \ {s} : g[r] = f[r]

Kept(f, g) == \A s \in Slot : g[s] = f[s]

Gained(f, g, s, v) ==
    f[s] = None /\ g[s] = v /\ OnlyAt(f, g, s)

Lost(f, g, s) ==
    g[s] = None /\ OnlyAt(f, g, s)

Moved(f, g, s, t) ==
    /\ s # t /\ f[s] = None /\ g[s] = f[t] /\ g[t] = None
    /\ \A r \in Slot \ {s, t} : g[r] = f[r]

Exchanged(f, g, s, t, u) ==
    /\ s # t /\ s # u /\ t # u
    /\ f[u] = None /\ g[s] = f[t] /\ g[t] = None /\ g[u] = f[s]
    /\ \A r \in Slot \ {s, t, u} : g[r] = f[r]

(* A slot that can be written: outside of values, or in one that is live. *)
InLive(s) == s \in Root \/ \E o \in Object, i \in Index : s = <<o, i>> /\ status[o] = "live"

GivesUp(f, o) == \A i \in Index : f[<<o, i>>] \notin Object

Becomes(o, st) == status' = [status EXCEPT ![o] = st]

Counts(c, d, o, n) == d = [c EXCEPT ![o] = n]

(* References stay, one moves, or two are exchanged. *)
Rearranges(f, g, c, d) ==
    /\ d = c /\ status' = status
    /\ \/ Kept(f, g)
       \/ \E s, t \in Slot : InLive(s) /\ Moved(f, g, s, t)
       \/ \E s, t \in Slot, u \in Root : InLive(s) /\ Exchanged(f, g, s, t, u)

(* A constructor returns the first reference to a value. *)
Allocates(f, g, c, d) ==
    \E s \in Root, o \in Object :
        /\ Gained(f, g, s, o) /\ status[o] = "free" /\ Becomes(o, "live")
        /\ c[o] = 0 /\ Counts(c, d, o, 1)

(* A retain, of a live value or an immortal one. *)
Shares(f, g, c, d) ==
    \E s \in Root : \E v :
        /\ v # None /\ Gained(f, g, s, v) /\ status' = status
        /\ v \in Object => status[v] = "live" /\ Counts(c, d, v, c[v] + 1)
        /\ v \notin Object => d = c

(* A release: the last one queues the value, or frees one that owns nothing. *)
Drops(f, g, c, d, z) ==
    LET v == f[z] IN
    /\ v # None /\ Lost(f, g, z)
    /\ v \notin Object => d = c /\ status' = status
    /\ v \in Object =>
          /\ c[v] > 0 /\ Counts(c, d, v, c[v] - 1)
          /\ c[v] > 1 => status' = status
          /\ c[v] = 1 => Becomes(v, "dying") \/ (GivesUp(f, v) /\ Becomes(v, "free"))

(* The last release of a value with one field, which falls next. *)
Unwraps(f, g, c, d, z) ==
    LET v == f[z] IN
    /\ v \in Object /\ 1 \in Index
    /\ c[v] = 1 /\ Counts(c, d, v, 0) /\ Becomes(v, "free")
    /\ g[z] = f[<<v, 1>>] /\ g[<<v, 1>>] = None
    /\ \A r \in Slot \ {z, <<v, 1>>} : g[r] = f[r]
    /\ \A i \in Index \ {1} : f[<<v, i>>] \notin Object

(* A value that waited and owns nothing any more is freed. *)
Reclaims(f, g, c, d) ==
    \E o \in Object :
        /\ Kept(f, g) /\ d = c
        /\ status[o] = "dying" /\ GivesUp(f, o) /\ Becomes(o, "free")

StepForms(f, g, c, d, z) ==
    \/ Rearranges(f, g, c, d) \/ Allocates(f, g, c, d) \/ Shares(f, g, c, d)
    \/ Drops(f, g, c, d, z) \/ Unwraps(f, g, c, d, z) \/ Reclaims(f, g, c, d)

CountingAssumption == OwnershipAssumption /\ IsFiniteSet(Slot)

LEMMA HoldersCounted ==
    ASSUME IsFiniteSet(Slot), NEW f, NEW o
    PROVE  IsFiniteSet(Holders(f, o)) /\ Cardinality(Holders(f, o)) \in Nat
  BY FS_Subset, FS_CardinalityType DEF Holders

(* One slot changes what it holds: the old value loses a holder and the    *)
(* new one gains one.                                                      *)
LEMMA OneChanged ==
    ASSUME IsFiniteSet(Slot), NEW f, NEW g, NEW s \in Slot, OnlyAt(f, g, s), NEW o
    PROVE  Cardinality(Holders(g, o)) =
              Cardinality(Holders(f, o)) - (IF f[s] = o THEN 1 ELSE 0) + (IF g[s] = o THEN 1 ELSE 0)
  <1> DEFINE A == Holders(f, o)
             B == Holders(g, o)
  <1>1. IsFiniteSet(A) /\ Cardinality(A) \in Nat
    BY HoldersCounted
  <1>2. A \ {s} = B \ {s} /\ (s \in A <=> f[s] = o) /\ (s \in B <=> g[s] = o)
    BY DEF Holders, OnlyAt
  <1>3. IsFiniteSet(A \ {s})
        /\ Cardinality(A \ {s}) = Cardinality(A) - (IF f[s] = o THEN 1 ELSE 0)
    BY <1>1, <1>2, FS_RemoveElement
  <1> HIDE DEF A, B
  <1>4. Cardinality(A \ {s}) \in Nat
    BY <1>3, FS_CardinalityType
  <1>5. Cardinality(B) = Cardinality(A \ {s}) + (IF g[s] = o THEN 1 ELSE 0)
    <2>1. CASE g[s] = o
      <3>1. B = (A \ {s}) \cup {s}
        BY <1>2, <2>1
      <3>2. Cardinality((A \ {s}) \cup {s}) = Cardinality(A \ {s}) + 1
        BY <1>3, FS_AddElement
      <3> QED
        BY <2>1, <3>1, <3>2
    <2>2. CASE g[s] # o
      <3>1. B = A \ {s}
        BY <1>2, <2>2
      <3> QED
        BY <1>4, <2>2, <3>1
    <2> QED
      BY <2>1, <2>2
  <1>6. Cardinality(B) = Cardinality(A) - (IF f[s] = o THEN 1 ELSE 0) + (IF g[s] = o THEN 1 ELSE 0)
    BY <1>1, <1>3, <1>5
  <1> QED
    BY <1>6 DEF A, B

(* A reference that moves has one holder before and after. *)
LEMMA MoveKeepsCounts ==
    ASSUME OwnershipAssumption, IsFiniteSet(Slot), NEW f, NEW g,
           NEW s \in Slot, NEW t \in Slot, Moved(f, g, s, t), NEW o \in Object
    PROVE  Cardinality(Holders(g, o)) = Cardinality(Holders(f, o))
  <1> DEFINE h == [r \in Slot |-> IF r = s THEN f[t] ELSE f[r]]
  <1>1. s # t /\ f[s] = None /\ g[s] = f[t] /\ g[t] = None /\ \A r \in Slot \ {s, t} : g[r] = f[r]
    BY DEF Moved
  <1>2. h[s] = f[t] /\ h[t] = f[t] /\ OnlyAt(f, h, s) /\ OnlyAt(h, g, t)
    BY <1>1 DEF OnlyAt
  <1> HIDE DEF h
  <1>3. Cardinality(Holders(h, o)) =
              Cardinality(Holders(f, o)) - (IF f[s] = o THEN 1 ELSE 0) + (IF h[s] = o THEN 1 ELSE 0)
    BY ONLY <1>2, s \in Slot, IsFiniteSet(Slot), OneChanged
  <1>4. Cardinality(Holders(g, o)) =
              Cardinality(Holders(h, o)) - (IF h[t] = o THEN 1 ELSE 0) + (IF g[t] = o THEN 1 ELSE 0)
    BY ONLY <1>2, t \in Slot, IsFiniteSet(Slot), OneChanged
  <1>5. f[s] # o /\ g[t] # o
    BY <1>1 DEF OwnershipAssumption
  <1>6. Cardinality(Holders(f, o)) \in Nat
    BY HoldersCounted
  <1> QED
    BY <1>2, <1>3, <1>4, <1>5, <1>6

(* So have two that are exchanged. *)
LEMMA ExchangeKeepsCounts ==
    ASSUME OwnershipAssumption, IsFiniteSet(Slot), NEW f, NEW g,
           NEW s \in Slot, NEW t \in Slot, NEW u \in Slot, Exchanged(f, g, s, t, u),
           NEW o \in Object
    PROVE  Cardinality(Holders(g, o)) = Cardinality(Holders(f, o))
  <1> DEFINE h == [r \in Slot |-> IF r = u THEN f[s] ELSE IF r = s THEN None ELSE f[r]]
  <1>1. Moved(f, h, u, s) /\ Moved(h, g, s, t)
    BY DEF Exchanged, Moved
  <1> HIDE DEF h
  <1>2. Cardinality(Holders(h, o)) = Cardinality(Holders(f, o))
    BY <1>1, MoveKeepsCounts
  <1>3. Cardinality(Holders(g, o)) = Cardinality(Holders(h, o))
    BY <1>1, MoveKeepsCounts
  <1> QED
    BY <1>2, <1>3

(* What is held is counted. *)
LEMMA HolderFacts ==
    ASSUME IsFiniteSet(Slot), NEW f, NEW c, Exact(f, c), NEW o \in Object
    PROVE  /\ c[o] \in Nat
           /\ \A s \in Slot : f[s] = o => c[o] > 0
           /\ \A s, t \in Slot : s # t /\ f[s] = o /\ f[t] = o => c[o] > 1
           /\ \A s \in Slot : f[s] = o /\ c[o] > 1 => \E t \in Slot \ {s} : f[t] = o
           /\ c[o] > 0 => \E s \in Slot : f[s] = o
  <1> DEFINE H == Holders(f, o)
  <1>1. Cardinality(H) = c[o] /\ IsFiniteSet(H) /\ c[o] \in Nat
    BY HoldersCounted DEF Exact
  <1>2. \A s \in Slot : s \in H <=> f[s] = o
    BY DEF Holders
  <1>3. c[o] > 0 => \E s \in Slot : f[s] = o
    <2>1. H # {} => \E s \in Slot : f[s] = o
      BY DEF Holders
    <2> HIDE DEF H
    <2> QED
      BY <1>1, <2>1, FS_EmptySet
  <1> HIDE DEF H
  <1>4. ASSUME NEW s \in Slot, f[s] = o
        PROVE  /\ Cardinality(H \ {s}) = c[o] - 1 /\ Cardinality(H \ {s}) \in Nat
               /\ Cardinality(H \ {s}) = 0 <=> H \ {s} = {}
    <2>1. s \in H
      BY <1>2, <1>4
    <2>2. IsFiniteSet(H \ {s}) /\ Cardinality(H \ {s}) = Cardinality(H) - 1
      BY <1>1, <2>1, FS_RemoveElement
    <2> QED
      BY <1>1, <2>2, FS_CardinalityType, FS_EmptySet
  <1>5. ASSUME NEW s \in Slot, f[s] = o PROVE c[o] > 0
    <2>1. Cardinality(H \ {s}) = c[o] - 1 /\ Cardinality(H \ {s}) \in Nat
      BY <1>4, <1>5
    <2> QED
      BY <1>1, <2>1
  <1>6. ASSUME NEW s \in Slot, NEW t \in Slot, s # t, f[s] = o, f[t] = o PROVE c[o] > 1
    <2>1. H \ {s} # {}
      BY <1>2, <1>6
    <2>2. /\ Cardinality(H \ {s}) = c[o] - 1 /\ Cardinality(H \ {s}) \in Nat
          /\ Cardinality(H \ {s}) # 0
      BY <1>4, <1>6, <2>1
    <2> QED
      BY <1>1, <2>2
  <1>7. ASSUME NEW s \in Slot, f[s] = o, c[o] > 1 PROVE \E t \in Slot \ {s} : f[t] = o
    <2>1. Cardinality(H \ {s}) = c[o] - 1 /\ (Cardinality(H \ {s}) = 0 <=> H \ {s} = {})
      BY <1>4, <1>7
    <2>2. H \ {s} # {}
      BY <1>1, <1>7, <2>1
    <2>3. H \subseteq Slot
      BY DEF H, Holders
    <2> QED
      BY <1>2, <2>2, <2>3
  <1> QED
    BY <1>1, <1>3, <1>5, <1>6, <1>7

(* Each form keeps the counts exact. *)
LEMMA FormsKeepCounts ==
    ASSUME CountingAssumption, NEW f, NEW g, NEW c \in [Object -> Nat], NEW d, NEW z \in Root,
           Exact(f, c), StepForms(f, g, c, d, z)
    PROVE  Exact(g, d)
  <1> DEFINE N(h, o) == Cardinality(Holders(h, o))
  <1>1. \A o \in Object : N(f, o) = c[o] /\ c[o] \in Nat
    BY DEF Exact
  <1>2. SUFFICES \A o \in Object : N(g, o) = d[o]
    BY DEF Exact
  <1>3. /\ Root \subseteq Slot /\ None \notin Object /\ IsFiniteSet(Slot)
        /\ OwnershipAssumption
        /\ \A o \in Object, i \in Index : <<o, i>> \in Slot /\ <<o, i>> \notin Root
    BY SlotFacts DEF CountingAssumption, OwnershipAssumption, Slot
  <1>4. Kept(f, g) => \A o \in Object : Holders(g, o) = Holders(f, o)
    BY DEF Kept, Holders
  <1> HIDE DEF N
  <1>5. CASE Rearranges(f, g, c, d)
    <2>1. ASSUME NEW s \in Slot, NEW t \in Slot, Moved(f, g, s, t), NEW o \in Object
          PROVE  N(g, o) = N(f, o)
      BY <1>3, <2>1, MoveKeepsCounts DEF N
    <2>2. ASSUME NEW s \in Slot, NEW t \in Slot, NEW u \in Slot, Exchanged(f, g, s, t, u),
                 NEW o \in Object
          PROVE  N(g, o) = N(f, o)
      BY <1>3, <2>2, ExchangeKeepsCounts DEF N
    <2>3. Kept(f, g) => \A o \in Object : N(g, o) = N(f, o)
      BY <1>4 DEF N
    <2> QED
      BY <1>1, <1>3, <1>5, <2>1, <2>2, <2>3 DEF Rearranges
  <1>6. ASSUME NEW s \in Slot, NEW o \in Object, OnlyAt(f, g, s)
        PROVE  N(g, o) = N(f, o) - (IF f[s] = o THEN 1 ELSE 0) + (IF g[s] = o THEN 1 ELSE 0)
    <2>1. s \in Slot /\ OnlyAt(f, g, s)
      BY <1>6
    <2>2. IsFiniteSet(Slot)
      BY <1>3
    <2>3. Cardinality(Holders(g, o)) =
             Cardinality(Holders(f, o)) - (IF f[s] = o THEN 1 ELSE 0) + (IF g[s] = o THEN 1 ELSE 0)
      BY ONLY <2>1, <2>2, OneChanged
    <2> QED
      BY <2>3 DEF N
  <1>7. ASSUME NEW s \in Root, NEW p \in Object, NEW n, Gained(f, g, s, p), n = c[p] + 1,
                Counts(c, d, p, n)
         PROVE  \A o \in Object : N(g, o) = d[o]
    <2> SUFFICES ASSUME NEW o \in Object PROVE N(g, o) = d[o]
      OBVIOUS
    <2>1. s \in Slot /\ f[s] # o /\ (g[s] = o <=> o = p) /\ OnlyAt(f, g, s)
      BY <1>3, <1>7 DEF Gained
    <2>2. N(g, o) = N(f, o) - (IF f[s] = o THEN 1 ELSE 0) + (IF g[s] = o THEN 1 ELSE 0)
      BY <1>6, <2>1
    <2>3. N(f, o) = c[o] /\ c[o] \in Nat
      BY <1>1
    <2>4. d[o] = IF o = p THEN c[o] + 1 ELSE c[o]
      BY <1>7 DEF Counts
    <2> QED
      BY <2>1, <2>2, <2>3, <2>4
  <1>8. ASSUME NEW s \in Root, f[s] \notin Object, g[s] \notin Object,
                OnlyAt(f, g, s), d = c
         PROVE  \A o \in Object : N(g, o) = d[o]
    <2> SUFFICES ASSUME NEW o \in Object PROVE N(g, o) = d[o]
      OBVIOUS
    <2>1. Holders(g, o) = Holders(f, o)
      BY <1>8 DEF Holders, OnlyAt
    <2> QED
      BY <1>1, <1>8, <2>1 DEF N
  <1>9. CASE Allocates(f, g, c, d)
    <2>1. PICK s \in Root, p \in Object : Gained(f, g, s, p) /\ c[p] = 0 /\ Counts(c, d, p, 1)
      BY <1>9 DEF Allocates
    <2> QED
      BY <1>7, <2>1
  <1>10. CASE Shares(f, g, c, d)
    <2>1. PICK s \in Root : \E v :
             /\ Gained(f, g, s, v)
             /\ v \in Object => Counts(c, d, v, c[v] + 1)
             /\ v \notin Object => d = c
      BY <1>10 DEF Shares
    <2>2. PICK v :
             /\ Gained(f, g, s, v)
             /\ v \in Object => Counts(c, d, v, c[v] + 1)
             /\ v \notin Object => d = c
      BY <2>1
    <2>3. CASE v \in Object
      BY <1>7, <2>2, <2>3
    <2>4. CASE v \notin Object
      BY <1>3, <1>8, <2>2, <2>4 DEF Gained
    <2> QED
      BY <2>3, <2>4
  <1>11. CASE Drops(f, g, c, d, z)
    <2>1. /\ Lost(f, g, z)
          /\ f[z] \in Object => Counts(c, d, f[z], c[f[z]] - 1)
          /\ f[z] \notin Object => d = c
      BY <1>11 DEF Drops
    <2>2. CASE f[z] \in Object
      <3> SUFFICES ASSUME NEW o \in Object PROVE N(g, o) = d[o]
        OBVIOUS
      <3>1. g[z] # o /\ N(g, o) = N(f, o) - (IF f[z] = o THEN 1 ELSE 0) + (IF g[z] = o THEN 1 ELSE 0)
        BY <1>3, <1>6, <2>1 DEF Lost
      <3>2. N(f, o) = c[o] /\ c[o] \in Nat
        BY <1>1
      <3>3. d[o] = IF o = f[z] THEN c[o] - 1 ELSE c[o]
        BY <2>1, <2>2 DEF Counts
      <3> QED
        BY <3>1, <3>2, <3>3
    <2>3. CASE f[z] \notin Object
      BY <1>3, <1>8, <2>1, <2>3 DEF Lost
    <2> QED
      BY <2>2, <2>3
  <1>12. CASE Unwraps(f, g, c, d, z)
    <2> DEFINE x == <<f[z], 1>>
               h == [r \in Slot |-> IF r = z THEN None ELSE f[r]]
    <2>1. /\ f[z] \in Object /\ 1 \in Index /\ c[f[z]] = 1 /\ Counts(c, d, f[z], 0)
          /\ g[z] = f[x] /\ g[x] = None
          /\ \A r \in Slot \ {z, x} : g[r] = f[r]
      BY <1>12 DEF Unwraps
    <2>2. x \in Slot /\ x # z
      BY <1>3, <2>1
    <2>3. h[z] = None /\ OnlyAt(f, h, z) /\ Moved(h, g, z, x)
      BY <1>3, <2>1, <2>2 DEF OnlyAt, Moved
    <2> HIDE DEF h, x
    <2> SUFFICES ASSUME NEW o \in Object PROVE N(g, o) = d[o]
      OBVIOUS
    <2>4. N(g, o) = N(h, o)
      BY <1>3, <2>2, <2>3, MoveKeepsCounts DEF N
    <2>5. N(h, o) = N(f, o) - (IF f[z] = o THEN 1 ELSE 0) + (IF h[z] = o THEN 1 ELSE 0)
      <3>1. z \in Slot /\ IsFiniteSet(Slot)
        BY <1>3
      <3>2. Cardinality(Holders(h, o)) =
               Cardinality(Holders(f, o)) - (IF f[z] = o THEN 1 ELSE 0)
                                          + (IF h[z] = o THEN 1 ELSE 0)
        BY ONLY <2>3, <3>1, OneChanged
      <3> QED
        BY <3>2 DEF N
    <2>6. d[o] = IF o = f[z] THEN c[o] - 1 ELSE c[o]
      BY <2>1 DEF Counts
    <2> QED
      BY <1>1, <1>3, <2>3, <2>4, <2>5, <2>6
  <1>13. CASE Reclaims(f, g, c, d)
    BY <1>1, <1>4, <1>13 DEF Reclaims, N
  <1> QED
    BY <1>5, <1>9, <1>10, <1>11, <1>12, <1>13 DEF StepForms

(* What a form writes is writable in the contract. *)
LEMMA LiveIsWritable ==
    ASSUME OwnershipAssumption, NEW s \in Slot, InLive(s)
    PROVE  Writable(s)
  <1>1. CASE s \in Root
    BY <1>1 DEF OwnershipAssumption, Writable, Field
  <1>2. CASE \E o \in Object, i \in Index : s = <<o, i>> /\ status[o] = "live"
    BY <1>2 DEF Writable, Field
  <1> QED
    BY <1>1, <1>2 DEF InLive

(* In the contract a reference moves, unless the slot it leaves held       *)
(* nothing.                                                                *)
LEMMA MovedMaps ==
    ASSUME OwnershipAssumption, NEW f, NEW g, edge = EdgeOf(f), edge' = EdgeOf(g),
           NEW s \in Slot, NEW t \in Slot, InLive(s), Moved(f, g, s, t), status' = status
    PROVE  [Next]_vars
  <1>1. /\ s # t /\ edge[s] = None /\ edge'[s] = edge[t] /\ edge'[t] = None
        /\ \A r \in Slot \ {s, t} : edge'[r] = edge[r]
    BY DEF OwnershipAssumption, EdgeOf, Moved
  <1>2. DOMAIN edge = Slot /\ edge = [r \in Slot |-> edge[r]] /\ edge' = [r \in Slot |-> edge'[r]]
    BY DEF EdgeOf
  <1>3. CASE edge[t] = None
    <2>1. edge' = edge
      BY <1>1, <1>2, <1>3
    <2> QED
      BY <2>1 DEF vars
  <1>4. CASE edge[t] # None
    <2>1. edge' = [edge EXCEPT ![s] = edge[t], ![t] = None]
      BY <1>1, <1>2
    <2>2. t \in Emptied /\ s \in Empty
      BY <1>1, <1>4 DEF Emptied, Empty, Full
    <2>3. Move(s, t)
      BY <2>1, LiveIsWritable DEF Move
    <2> QED
      BY <2>2, <2>3 DEF Next
  <1> QED
    BY <1>3, <1>4

LEMMA ExchangedMaps ==
    ASSUME OwnershipAssumption, NEW f, NEW g, edge = EdgeOf(f), edge' = EdgeOf(g),
           NEW s \in Slot, NEW t \in Slot, NEW u \in Root, InLive(s),
           Exchanged(f, g, s, t, u), status' = status
    PROVE  [Next]_vars
  <1>1. u \in Slot /\ InLive(u)
    BY DEF Slot, InLive
  <1>2. /\ s # t /\ s # u /\ t # u
        /\ edge[u] = None /\ edge'[s] = edge[t] /\ edge'[t] = None /\ edge'[u] = edge[s]
        /\ \A r \in Slot \ {s, t, u} : edge'[r] = edge[r]
    BY <1>1 DEF OwnershipAssumption, EdgeOf, Exchanged
  <1>3. DOMAIN edge = Slot /\ edge = [r \in Slot |-> edge[r]] /\ edge' = [r \in Slot |-> edge'[r]]
    BY DEF EdgeOf
  <1>4. \A r \in Slot : /\ edge[r] # None <=> r \in Full
                        /\ edge[r] = None <=> r \in Empty
                        /\ edge[r] # None /\ edge'[r] = None => r \in Emptied
    BY DEF Emptied, Empty, Full
  <1>5. CASE edge[s] # None /\ edge[t] # None
    <2>1. edge' = [edge EXCEPT ![s] = edge[t], ![t] = None, ![u] = edge[s]]
      BY <1>1, <1>2, <1>3
    <2>2. t \in Emptied /\ s \in Full /\ u \in Empty
      BY <1>1, <1>2, <1>4, <1>5
    <2>3. Exchange(s, t, u)
      BY <1>2, <2>1, LiveIsWritable DEF Exchange
    <2> QED
      BY <2>2, <2>3 DEF Next
  <1>6. CASE edge[s] = None /\ edge[t] # None
    <2>1. edge' = [edge EXCEPT ![s] = edge[t], ![t] = None]
      BY <1>1, <1>2, <1>3, <1>6
    <2>2. t \in Emptied /\ s \in Empty
      BY <1>2, <1>4, <1>6
    <2>3. Move(s, t)
      BY <2>1, LiveIsWritable DEF Move
    <2> QED
      BY <2>2, <2>3 DEF Next
  <1>7. CASE edge[s] # None /\ edge[t] = None
    <2>1. edge' = [edge EXCEPT ![u] = edge[s], ![s] = None]
      BY <1>1, <1>2, <1>3, <1>7
    <2>2. s \in Emptied /\ u \in Empty
      BY <1>1, <1>2, <1>4, <1>7
    <2>3. Move(u, s)
      BY <1>1, <2>1, LiveIsWritable DEF Move
    <2> QED
      BY <2>2, <2>3 DEF Next
  <1>8. CASE edge[s] = None /\ edge[t] = None
    <2>1. edge' = edge
      BY <1>1, <1>2, <1>3, <1>8
    <2> QED
      BY <2>1 DEF vars
  <1> QED
    BY <1>5, <1>6, <1>7, <1>8

(* Each form is a step of the contract. *)
LEMMA FormsFollowContract ==
    ASSUME CountingAssumption, NEW f, NEW g, NEW c \in [Object -> Nat], NEW d, NEW z \in Root,
           Exact(f, c), edge = EdgeOf(f), edge' = EdgeOf(g), StepForms(f, g, c, d, z)
    PROVE  [Next]_vars
  <1>1. /\ Root \subseteq Slot /\ z \in Slot /\ None \notin Object /\ IsFiniteSet(Slot)
        /\ OwnershipAssumption
        /\ \A o \in Object, i \in Index : <<o, i>> \in Slot /\ <<o, i>> \notin Root
    BY SlotFacts DEF CountingAssumption, OwnershipAssumption, Slot
  <1>2. DOMAIN edge = Slot /\ edge = [r \in Slot |-> edge[r]] /\ edge' = [r \in Slot |-> edge'[r]]
    BY DEF EdgeOf
  <1>3. \A r \in Slot : /\ edge[r] = IF f[r] \in Object THEN f[r] ELSE None
                        /\ edge'[r] = IF g[r] \in Object THEN g[r] ELSE None
    BY DEF EdgeOf
  <1>4. Kept(f, g) => edge' = edge
    BY <1>2, <1>3 DEF Kept
  <1>5. \A s \in Slot : (s \in Full <=> edge[s] # None) /\ (s \in Empty <=> edge[s] = None)
    BY DEF Empty, Full
  <1>6. \A o \in Object : GivesUp(f, o) => HoldsNothing(o)
    BY <1>1, <1>3 DEF GivesUp, HoldsNothing
  <1>7. ASSUME NEW s \in Root, NEW v \in Object, Gained(f, g, s, v)
        PROVE  edge' = [edge EXCEPT ![s] = v] /\ s \in Empty
    <2>1. s \in Slot /\ f[s] = None /\ g[s] = v /\ \A r \in Slot \ {s} : g[r] = f[r]
      BY <1>1, <1>7 DEF Gained, OnlyAt
    <2>2. edge[s] = None /\ edge'[s] = v /\ \A r \in Slot \ {s} : edge'[r] = edge[r]
      BY <1>1, <1>3, <2>1
    <2> QED
      BY <1>2, <1>5, <2>1, <2>2
  <1>8. CASE Rearranges(f, g, c, d)
    BY <1>1, <1>4, <1>8, MovedMaps, ExchangedMaps DEF Rearranges, vars
  <1>9. CASE Allocates(f, g, c, d)
    <2>1. PICK s \in Root, o \in Object :
             Gained(f, g, s, o) /\ status[o] = "free" /\ Becomes(o, "live")
      BY <1>9 DEF Allocates
    <2>2. Allocate(o, s) /\ s \in Empty
      BY <1>7, <2>1 DEF Allocate, Becomes
    <2> QED
      BY <2>2 DEF Next
  <1>10. CASE Shares(f, g, c, d)
    <2>1. PICK s \in Root : \E v :
             Gained(f, g, s, v) /\ status' = status /\ (v \in Object => status[v] = "live")
      BY <1>10 DEF Shares
    <2>2. PICK v : Gained(f, g, s, v) /\ status' = status /\ (v \in Object => status[v] = "live")
      BY <2>1
    <2>3. CASE v \in Object
      <3>1. Share(s, v) /\ s \in Empty
        BY <1>7, <2>2, <2>3 DEF Share
      <3> QED
        BY <2>3, <3>1 DEF Next
    <2>4. CASE v \notin Object
      <3>1. s \in Slot /\ f[s] = None /\ g[s] = v /\ \A r \in Slot \ {s} : g[r] = f[r]
        BY <1>1, <2>2 DEF Gained, OnlyAt
      <3>2. edge' = edge
        BY <1>1, <1>2, <1>3, <2>4, <3>1
      <3> QED
        BY <2>2, <3>2 DEF vars
    <2> QED
      BY <2>3, <2>4
  <1>11. ASSUME f[z] \in Object, c[f[z]] = 1 PROVE ~ OwnedElsewhere(edge[z], z)
    <2>1. \A t \in Slot \ {z} : f[t] # f[z]
      BY <1>1, <1>11, HolderFacts
    <2> QED
      BY <1>1, <1>3, <1>11, <2>1 DEF OwnedElsewhere
  <1>12. CASE Drops(f, g, c, d, z)
    <2>1. g[z] = None /\ \A r \in Slot \ {z} : g[r] = f[r]
      BY <1>12 DEF Drops, Lost, OnlyAt
    <2>2. CASE f[z] \in Object
      <3> DEFINE v == f[z]
      <3>1. /\ edge[z] = v /\ v # None /\ edge' = [edge EXCEPT ![z] = None]
            /\ edge'[z] = None
        BY <1>1, <1>2, <1>3, <2>1, <2>2
      <3>2. z \in Emptied
        BY <1>1, <1>5, <3>1 DEF Emptied
      <3>3. /\ c[v] > 1 => status' = status
            /\ c[v] = 1 => Becomes(v, "dying") \/ (GivesUp(f, v) /\ Becomes(v, "free"))
            /\ c[v] > 0 /\ c[v] \in Nat
        BY <1>12, <2>2 DEF Drops
      <3> HIDE DEF v
      <3>4. CASE c[v] > 1
        <4>1. PICK t \in Slot \ {z} : f[t] = v
          BY <1>1, <2>2, <3>4, HolderFacts DEF v
        <4>2. OwnedElsewhere(edge[z], z)
          BY <1>3, <2>2, <3>1, <4>1 DEF OwnedElsewhere, v
        <4> QED
          BY <3>1, <3>2, <3>3, <3>4, <4>2 DEF Drop, Next
      <3>5. CASE c[v] = 1
        <4>1. ~ OwnedElsewhere(edge[z], z)
          BY <1>11, <2>2, <3>5 DEF v
        <4>2. \E fate \in {"free", "dying"} :
                 /\ fate = "free" => HoldsNothing(v)
                 /\ status' = [status EXCEPT ![v] = fate]
          BY <1>6, <2>2, <3>3, <3>5 DEF Becomes, v
        <4>3. Drop(z)
          BY <3>1, <4>1, <4>2 DEF Drop
        <4> QED
          BY <3>2, <4>3 DEF Next
      <3> QED
        BY <3>3, <3>4, <3>5
    <2>3. CASE f[z] \notin Object
      <3>1. edge' = edge
        BY <1>1, <1>2, <1>3, <2>1, <2>3
      <3> QED
        BY <1>12, <2>3, <3>1 DEF Drops, vars
    <2> QED
      BY <2>2, <2>3
  <1>13. CASE Unwraps(f, g, c, d, z)
    <2> DEFINE v == f[z]
    <2>1. /\ v \in Object /\ c[v] = 1 /\ Becomes(v, "free") /\ 1 \in Index
          /\ g[z] = f[<<v, 1>>] /\ g[<<v, 1>>] = None
          /\ \A r \in Slot \ {z, <<v, 1>>} : g[r] = f[r]
          /\ \A i \in Index \ {1} : f[<<v, i>>] \notin Object
      BY <1>13 DEF Unwraps
    <2>2. ~ OwnedElsewhere(edge[z], z)
      BY <1>11, <2>1
    <2> HIDE DEF v
    <2>3. <<v, 1>> \in Slot /\ z # <<v, 1>>
      BY <1>1, <2>1
    <2>4. edge[z] = v /\ v # None
      BY <1>1, <1>3, <2>1 DEF v
    <2>5. /\ edge'[z] = edge[<<v, 1>>] /\ edge'[<<v, 1>>] = None
          /\ \A r \in Slot \ {z, <<v, 1>>} : edge'[r] = edge[r]
      BY <1>1, <1>3, <2>1, <2>3
    <2>6. edge' = [edge EXCEPT ![z] = edge[<<v, 1>>], ![<<v, 1>>] = None]
      BY <1>1, <1>2, <2>3, <2>5
    <2>7. \A i \in Index \ {1} : edge[<<v, i>>] = None
      BY <1>1, <1>3, <2>1
    <2>8. Unwrap(z, 1)
      BY <2>1, <2>2, <2>3, <2>4, <2>6, <2>7 DEF Unwrap, Becomes
    <2> QED
      BY <1>1, <1>5, <2>1, <2>4, <2>8 DEF Next
  <1>14. CASE Reclaims(f, g, c, d)
    <2>1. PICK o \in Object : Kept(f, g) /\ status[o] = "dying" /\ GivesUp(f, o) /\ Becomes(o, "free")
      BY <1>14 DEF Reclaims
    <2>2. Reclaim(o)
      BY <1>4, <1>6, <2>1 DEF Reclaim, Becomes
    <2> QED
      BY <2>2 DEF Next
  <1> QED
    BY <1>8, <1>9, <1>10, <1>12, <1>13, <1>14 DEF StepForms
=============================================================================
