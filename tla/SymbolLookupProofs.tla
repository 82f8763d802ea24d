------------------------- MODULE SymbolLookupProofs --------------------------
(***************************************************************************)
(* Proofs about the front end.  Of the table of declarations, for any      *)
(* names and kinds and tables of any size: sorting keeps every symbol and  *)
(* sorts, and the binary search finds what a linear search finds.  Of the  *)
(* paths of modules: each is the one normal name of the file meant.  Of    *)
(* the loader, for any files and imports: every file is read once, cycles  *)
(* are found, and names mean what their readers see.                       *)
(***************************************************************************)
EXTENDS MCFrontEnd, FiniteSetTheorems, FunctionTheorems, SequenceTheorems,
        WellFoundedInduction, TLAPS

-----------------------------------------------------------------------------
(***************************************************************************)
(* The order of symbols.                                                   *)
(***************************************************************************)
(* A set of numbers that is not empty has a least one. *)
LEMMA LeastOne ==
    ASSUME NEW S \in SUBSET Nat, S # {}
    PROVE  Min(S) \in S /\ \A y \in S : Min(S) <= y
<1>1. PICK x \in S : \A y \in S : ~ (<<y, x>> \in OpToRel(<, Nat))
  BY NatLessThanWellFounded, WFMin
<1>2. \A y \in S : x <= y
  <2> SUFFICES ASSUME NEW y \in S PROVE x <= y
    OBVIOUS
  <2>1. ~ (<<y, x>> \in OpToRel(<, Nat))
    BY <1>1
  <2>2. x \in Nat /\ y \in Nat /\ ~ (y < x)
    BY <2>1 DEF OpToRel
  <2>3. QED
    BY <2>2
<1>3. QED
  BY <1>1, <1>2 DEF Min

(* compareText finds the first difference: left is a proper beginning of   *)
(* right, or has a smaller code there.                                     *)
Precedes(l, r, k) ==
    /\ k \in 1..(Len(l) + 1) /\ k <= Len(r)
    /\ \A i \in 1..(k - 1) : l[i] = r[i]
    /\ k <= Len(l) => l[k] < r[k]

LEMMA CompareTextIs ==
    ASSUME NEW l \in Seq(Nat), NEW r \in Seq(Nat)
    PROVE  /\ CompareText(l, r) < 0 <=> \E k \in Nat : Precedes(l, r, k)
           /\ CompareText(l, r) = 0 <=> l = r
<1> DEFINE shared == Min({Len(l), Len(r)})
           differ == {i \in 1..shared : l[i] # r[i]}
           sign(a, b) == IF a < b THEN -1 ELSE IF a > b THEN 1 ELSE 0
<1>1. CompareText(l, r) = IF differ = {} THEN sign(Len(l), Len(r))
                          ELSE sign(l[Min(differ)], r[Min(differ)])
  BY DEF CompareText
<1>2. Len(l) \in Nat /\ Len(r) \in Nat
  OBVIOUS
<1>3. shared = IF Len(l) <= Len(r) THEN Len(l) ELSE Len(r)
  <2>1. shared \in {Len(l), Len(r)} /\ \A y \in {Len(l), Len(r)} : shared <= y
    BY <1>2, LeastOne
  <2>2. QED
    BY <1>2, <2>1
<1>4. \A i \in 1..Len(l) : l[i] \in Nat
  OBVIOUS
<1>5. \A i \in 1..Len(r) : r[i] \in Nat
  OBVIOUS
<1> HIDE DEF shared
<1>6. CASE differ = {}
  <2>1. \A i \in 1..shared : l[i] = r[i]
    BY <1>6
  <2>2. CompareText(l, r) = sign(Len(l), Len(r))
    BY <1>1, <1>6
  <2>3. CompareText(l, r) < 0 <=> Len(l) < Len(r)
    BY <1>2, <2>2
  <2>4. Len(l) < Len(r) => Precedes(l, r, Len(l) + 1)
    BY <1>2, <1>3, <2>1 DEF Precedes
  <2>5. ASSUME NEW k \in Nat, Precedes(l, r, k) PROVE Len(l) < Len(r)
    <3>1. k \in 1..(Len(l) + 1) /\ k <= Len(r) /\ (k <= Len(l) => l[k] < r[k])
      BY <2>5 DEF Precedes
    <3>2. CASE k <= Len(l)
      <4>1. k \in 1..shared
        BY <1>2, <1>3, <3>1, <3>2
      <4>2. l[k] = r[k] /\ l[k] < r[k] /\ l[k] \in Nat
        BY <1>2, <1>4, <2>1, <3>1, <3>2, <4>1
      <4>3. QED
        BY <4>2
    <3>3. CASE ~ (k <= Len(l))
      BY <1>2, <3>1, <3>3
    <3>4. QED
      BY <3>2, <3>3
  <2>6. CompareText(l, r) = 0 <=> Len(l) = Len(r)
    BY <1>2, <2>2
  <2>7. Len(l) = Len(r) => l = r
    <3> SUFFICES ASSUME Len(l) = Len(r) PROVE l = r
      OBVIOUS
    <3>1. \A i \in 1..Len(l) : l[i] = r[i]
      BY <1>2, <1>3, <2>1
    <3>2. QED
      BY <3>1
  <2>8. QED
    BY <1>2, <2>3, <2>4, <2>5, <2>6, <2>7
<1>7. CASE differ # {}
  <2> DEFINE m == Min(differ)
  <2>1. differ \in SUBSET Nat
    BY <1>2, <1>3
  <2>2. m \in differ /\ \A y \in differ : m <= y
    BY <1>7, <2>1, LeastOne
  <2>3. m \in 1..shared /\ l[m] # r[m] /\ m \in Nat
    BY <1>2, <1>3, <2>2
  <2>4. \A i \in 1..(m - 1) : l[i] = r[i]
    <3> SUFFICES ASSUME NEW i \in 1..(m - 1), l[i] # r[i] PROVE FALSE
      OBVIOUS
    <3>1. i \in differ /\ i \in Nat /\ i < m
      <4> HIDE DEF m, differ
      <4>a. m \in Nat /\ m \in 1..shared /\ shared \in Nat
        BY <1>2, <1>3, <2>3
      <4> HIDE DEF shared
      <4>1. i \in Nat /\ i < m /\ i \in 1..shared
        BY <4>a
      <4> USE DEF differ
      <4>2. QED
        BY <4>1
    <3>2. m <= i
      BY <2>2, <3>1
    <3> HIDE DEF m, differ
    <3>3. QED
      BY <2>3, <3>1, <3>2
  <2>5. CompareText(l, r) = sign(l[m], r[m])
    BY <1>1, <1>7
  <2> HIDE DEF m, differ
  <2>6. m \in 1..Len(l) /\ m \in 1..Len(r)
    BY <1>2, <1>3, <2>3
  <2>7. l[m] \in Nat /\ r[m] \in Nat
    BY <1>4, <1>5, <2>6
  <2>8. CompareText(l, r) < 0 <=> l[m] < r[m]
    BY <2>5, <2>7
  <2>9. l[m] < r[m] => Precedes(l, r, m)
    BY <1>2, <2>4, <2>6 DEF Precedes
  <2>10. ASSUME NEW k \in Nat, Precedes(l, r, k) PROVE l[m] < r[m]
    <3>1. /\ k \in 1..(Len(l) + 1) /\ k <= Len(r)
          /\ \A i \in 1..(k - 1) : l[i] = r[i]
          /\ k <= Len(l) => l[k] < r[k]
      BY <2>10 DEF Precedes
    <3>2. ~ (m < k)
      BY <2>3, <3>1
    <3>3. k <= Len(l)
      BY <1>2, <2>6, <3>1, <3>2
    <3>4. ~ (k < m)
      <4>1. ASSUME k < m PROVE FALSE
        <5>1. l[k] = r[k] /\ l[k] \in Nat
          BY <1>2, <1>4, <2>3, <2>4, <3>1, <3>3, <4>1
        <5>2. QED
          BY <3>1, <3>3, <5>1
      <4>2. QED
        BY <4>1
    <3>5. k = m
      BY <2>3, <3>2, <3>4
    <3>6. QED
      BY <3>1, <3>3, <3>5
  <2>11. CompareText(l, r) # 0
    BY <2>3, <2>5, <2>7
  <2>12. l # r
    BY <2>3
  <2>13. QED
    BY <2>3, <2>8, <2>9, <2>10, <2>11, <2>12
<1>8. QED
  BY <1>6, <1>7

(* The first difference decides, so that the order is total, ...           *)
LEMMA TextsCompare ==
    ASSUME NEW l \in Seq(Nat), NEW r \in Seq(Nat)
    PROVE  /\ CompareText(l, r) < 0 \/ CompareText(r, l) < 0 \/ l = r
           /\ ~ (CompareText(l, r) < 0 /\ CompareText(r, l) < 0)
           /\ ~ (CompareText(l, r) < 0 /\ l = r)
<1>1. Len(l) \in Nat /\ Len(r) \in Nat
  OBVIOUS
<1>2. \A i \in 1..Len(l) : l[i] \in Nat
  OBVIOUS
<1>3. \A i \in 1..Len(r) : r[i] \in Nat
  OBVIOUS
<1>4. ASSUME l # r PROVE CompareText(l, r) < 0 \/ CompareText(r, l) < 0
  <2> DEFINE S == {k \in Nat \ {0} : k <= Len(l) + 1 /\ k <= Len(r) + 1
                                      /\ (k \in 1..Len(l) /\ k \in 1..Len(r) => l[k] # r[k])}
  <2>1. S # {}
    <3>1. CASE \E k \in 1..Len(l) : k \in 1..Len(r) /\ l[k] # r[k]
      <4>1. PICK k \in 1..Len(l) : k \in 1..Len(r) /\ l[k] # r[k]
        BY <3>1
      <4>2. k \in S
        BY <1>1, <4>1
      <4>3. QED
        BY <4>2
    <3>2. CASE ~ \E k \in 1..Len(l) : k \in 1..Len(r) /\ l[k] # r[k]
      <4>1. Len(l) # Len(r)
        BY <1>4, <3>2
      <4>2. CASE Len(l) < Len(r)
        <5>1. Len(l) + 1 \in S
          BY <1>1, <4>2
        <5>2. QED
          BY <5>1
      <4>3. CASE Len(r) < Len(l)
        <5>1. Len(r) + 1 \in S
          BY <1>1, <4>3
        <5>2. QED
          BY <5>1
      <4>4. QED
        BY <1>1, <4>1, <4>2, <4>3
    <3>3. QED
      BY <3>1, <3>2
  <2>2. Min(S) \in S /\ \A y \in S : Min(S) <= y
    BY <2>1, LeastOne
  <2>3. PICK m \in S : \A y \in S : m <= y
    BY <2>2
  <2>4. /\ m \in Nat \ {0} /\ m <= Len(l) + 1 /\ m <= Len(r) + 1
        /\ m \in 1..Len(l) /\ m \in 1..Len(r) => l[m] # r[m]
    BY <2>3
  <2>5. \A i \in 1..(m - 1) : l[i] = r[i]
    <3> SUFFICES ASSUME NEW i \in 1..(m - 1), l[i] # r[i] PROVE FALSE
      OBVIOUS
    <3>1. i \in S
      BY <1>1, <2>4
    <3>2. QED
      BY <2>3, <2>4, <3>1
  <2>6. ~ (m > Len(l) /\ m > Len(r))
    <3>1. ASSUME m > Len(l), m > Len(r) PROVE FALSE
      <4>1. m = Len(l) + 1 /\ m = Len(r) + 1
        BY <1>1, <2>4, <3>1
      <4>2. Len(l) = Len(r) /\ \A i \in 1..Len(l) : l[i] = r[i]
        BY <1>1, <2>5, <4>1
      <4>3. l = r
        BY ONLY <4>2, l \in Seq(Nat), r \in Seq(Nat), SeqEqual
      <4>4. QED
        BY <1>4, <4>3
    <3>2. QED
      BY <3>1
  <2> HIDE DEF S
  <2>7. CASE m > Len(l)
    <3>1. Precedes(l, r, m)
      BY <1>1, <2>4, <2>5, <2>6, <2>7 DEF Precedes
    <3>2. QED
      BY <2>4, <3>1, CompareTextIs
  <2>8. CASE m > Len(r)
    <3>1. Precedes(r, l, m)
      BY <1>1, <2>4, <2>5, <2>6, <2>8 DEF Precedes
    <3>2. QED
      BY <2>4, <3>1, CompareTextIs
  <2>9. CASE m <= Len(l) /\ m <= Len(r)
    <3>1. l[m] # r[m] /\ l[m] \in Nat /\ r[m] \in Nat
      BY <1>1, <1>2, <1>3, <2>4, <2>9
    <3>2. CASE l[m] < r[m]
      <4>1. Precedes(l, r, m)
        BY <1>1, <2>4, <2>5, <2>9, <3>2 DEF Precedes
      <4>2. QED
        BY <2>4, <4>1, CompareTextIs
    <3>3. CASE r[m] < l[m]
      <4>1. Precedes(r, l, m)
        BY <1>1, <2>4, <2>5, <2>9, <3>3 DEF Precedes
      <4>2. QED
        BY <2>4, <4>1, CompareTextIs
    <3>4. QED
      BY <3>1, <3>2, <3>3
  <2>10. QED
    BY <1>1, <2>4, <2>7, <2>8, <2>9
<1>5. ASSUME CompareText(l, r) < 0, CompareText(r, l) < 0 PROVE FALSE
  <2>1. PICK j \in Nat : Precedes(l, r, j)
    BY <1>5, CompareTextIs
  <2>2. PICK k \in Nat : Precedes(r, l, k)
    BY <1>5, CompareTextIs
  <2>3. /\ j \in 1..(Len(l) + 1) /\ j <= Len(r)
        /\ \A i \in 1..(j - 1) : l[i] = r[i]
        /\ j <= Len(l) => l[j] < r[j]
    BY <2>1 DEF Precedes
  <2>4. /\ k \in 1..(Len(r) + 1) /\ k <= Len(l)
        /\ \A i \in 1..(k - 1) : r[i] = l[i]
        /\ k <= Len(r) => r[k] < l[k]
    BY <2>2 DEF Precedes
  <2>5. CASE j < k
    <3>1. r[j] = l[j] /\ l[j] \in Nat /\ j <= Len(l)
      BY <1>1, <1>2, <2>3, <2>4, <2>5
    <3>2. QED
      BY <2>3, <3>1
  <2>6. CASE k < j
    <3>1. l[k] = r[k] /\ l[k] \in Nat /\ k <= Len(r)
      BY <1>1, <1>2, <2>3, <2>4, <2>6
    <3>2. QED
      BY <2>4, <3>1
  <2>7. CASE j = k
    <3>1. j \in 1..Len(l) /\ j \in 1..Len(r)
      BY <1>1, <2>3, <2>4, <2>7
    <3>2. l[j] < r[j] /\ r[j] < l[j] /\ l[j] \in Nat /\ r[j] \in Nat
      BY <1>1, <1>2, <1>3, <2>3, <2>4, <2>7, <3>1
    <3>3. QED
      BY <3>2
  <2>8. QED
    BY <1>1, <2>3, <2>4, <2>5, <2>6, <2>7
<1>6. ~ (CompareText(l, r) < 0 /\ l = r)
  <2>1. l = r => CompareText(l, r) = 0
    BY CompareTextIs
  <2>2. QED
    BY <2>1
<1>7. QED
  BY <1>4, <1>5, <1>6

(* ... and transitive. *)
LEMMA TextsAreTransitive ==
    ASSUME NEW a \in Seq(Nat), NEW b \in Seq(Nat), NEW c \in Seq(Nat),
           CompareText(a, b) < 0, CompareText(b, c) < 0
    PROVE  CompareText(a, c) < 0
<1>1. Len(a) \in Nat /\ Len(b) \in Nat /\ Len(c) \in Nat
  OBVIOUS
<1>2. \A i \in 1..Len(a) : a[i] \in Nat
  OBVIOUS
<1>3. \A i \in 1..Len(b) : b[i] \in Nat
  OBVIOUS
<1>4. \A i \in 1..Len(c) : c[i] \in Nat
  OBVIOUS
<1>5. PICK j \in Nat : Precedes(a, b, j)
  BY CompareTextIs
<1>6. PICK k \in Nat : Precedes(b, c, k)
  BY CompareTextIs
<1>7. /\ j \in 1..(Len(a) + 1) /\ j <= Len(b)
      /\ \A i \in 1..(j - 1) : a[i] = b[i]
      /\ j <= Len(a) => a[j] < b[j]
  BY <1>5 DEF Precedes
<1>8. /\ k \in 1..(Len(b) + 1) /\ k <= Len(c)
      /\ \A i \in 1..(k - 1) : b[i] = c[i]
      /\ k <= Len(b) => b[k] < c[k]
  BY <1>6 DEF Precedes
<1>9. CASE j < k
  <2>1. b[j] = c[j] /\ j <= Len(c)
    BY <1>1, <1>7, <1>8, <1>9
  <2>2. \A i \in 1..(j - 1) : a[i] = c[i]
    BY <1>1, <1>7, <1>8, <1>9
  <2>3. Precedes(a, c, j)
    BY <1>1, <1>7, <2>1, <2>2 DEF Precedes
  <2>4. QED
    BY <2>3, CompareTextIs
<1>10. CASE k < j
  <2>1. a[k] = b[k] /\ k <= Len(a) /\ k <= Len(b)
    BY SMTT(60), <1>1, <1>7, <1>8, <1>10
  <2>2. \A i \in 1..(k - 1) : a[i] = c[i]
    BY <1>1, <1>7, <1>8, <1>10
  <2>3. Precedes(a, c, k)
    BY <1>1, <1>8, <2>1, <2>2 DEF Precedes
  <2>4. QED
    BY <2>3, CompareTextIs
<1>11. CASE j = k
  <2>1. \A i \in 1..(j - 1) : a[i] = c[i]
    BY <1>1, <1>7, <1>8, <1>11
  <2>2. ASSUME j <= Len(a) PROVE a[j] < c[j]
    <3>1. a[j] < b[j] /\ b[j] < c[j]
      BY <1>7, <1>8, <1>11, <2>2
    <3>2. j \in 1..Len(a) /\ j \in 1..Len(b) /\ j \in 1..Len(c)
      BY <1>1, <1>7, <1>8, <1>11, <2>2
    <3>3. a[j] \in Nat /\ b[j] \in Nat /\ c[j] \in Nat
      BY <1>2, <1>3, <1>4, <3>2
    <3>4. QED
      BY <3>1, <3>3
  <2>3. Precedes(a, c, j)
    BY <1>1, <1>7, <1>8, <1>11, <2>1, <2>2 DEF Precedes
  <2>4. QED
    BY <2>3, CompareTextIs
<1>12. QED
  BY <1>1, <1>7, <1>8, <1>9, <1>10, <1>11

(* compareSymbol orders the symbols totally. *)
LEMMA SymbolsAreOrdered ==
    /\ \A a, b \in Symbol : Before(a, b) \/ Before(b, a) \/ a = b
    /\ \A a, b \in Symbol : ~ (Before(a, b) /\ Before(b, a))
    /\ \A a, b, c \in Symbol : Before(a, b) /\ Before(b, c) => Before(a, c)
<1>1. \A a \in Symbol : a.name \in Seq(Nat) /\ a.kind \in Int
  BY SymbolAssumption DEF Symbol
<1>2. \A a, b \in Symbol : a.name = b.name /\ a.kind = b.kind => a = b
  BY DEF Symbol
<1>3. \A a, b \in Symbol :
          Before(a, b) <=> \/ CompareText(a.name, b.name) < 0
                           \/ a.name = b.name /\ a.kind < b.kind
  BY <1>1, CompareTextIs DEF Before
<1>4. ASSUME NEW a \in Symbol, NEW b \in Symbol
      PROVE  /\ Before(a, b) \/ Before(b, a) \/ a = b
             /\ ~ (Before(a, b) /\ Before(b, a))
  <2>1. /\ CompareText(a.name, b.name) < 0 \/ CompareText(b.name, a.name) < 0
              \/ a.name = b.name
        /\ ~ (CompareText(a.name, b.name) < 0 /\ CompareText(b.name, a.name) < 0)
        /\ ~ (CompareText(a.name, b.name) < 0 /\ a.name = b.name)
        /\ ~ (CompareText(b.name, a.name) < 0 /\ a.name = b.name)
    BY <1>1, TextsCompare
  <2>2. a.kind \in Int /\ b.kind \in Int
    BY <1>1
  <2>3. QED
    BY <1>2, <1>3, <2>1, <2>2
<1>5. ASSUME NEW a \in Symbol, NEW b \in Symbol, NEW c \in Symbol,
             Before(a, b), Before(b, c)
      PROVE  Before(a, c)
  <2>1. CompareText(a.name, b.name) < 0 /\ CompareText(b.name, c.name) < 0
            => CompareText(a.name, c.name) < 0
    BY <1>1, TextsAreTransitive
  <2>2. a.kind \in Int /\ b.kind \in Int /\ c.kind \in Int
    BY <1>1
  <2>3. QED
    BY <1>3, <1>5, <2>1, <2>2
<1>6. QED
  BY <1>4, <1>5

(* Not being before is transitive too. *)
LEMMA Descends ==
    /\ \A a \in Symbol : ~ Before(a, a)
    /\ \A a, b, c \in Symbol : ~ Before(a, b) /\ ~ Before(b, c) => ~ Before(a, c)
BY SymbolsAreOrdered
-----------------------------------------------------------------------------
(***************************************************************************)
(* Sorting and searching.                                                  *)
(***************************************************************************)
Places == 0..(Size - 1)

Sorted == \A i, j \in Places : j < i => ~ Before(At(i), At(j))

(* The table is a permutation of the positions. *)
Permuted ==
    /\ Size \in Nat /\ DOMAIN symbols = Places
    /\ TypeOK /\ IsInjective(lookup) /\ AllPositionsKept

(* What the loops of buildSymbolLookup have reached; what is known once    *)
(* they are through; and that a search has the place between low and high. *)
Reached ==
    /\ phase \in {"heapify", "sift"} => end = Size
    /\ phase \in {"extract", "sink"} => start = 0
    /\ phase \in {"unique", "ready", "search", "found"} => Sorted
    /\ phase \in {"ready", "search", "found"} =>
          Twins = {} /\ \A i \in Places : returns[Size + i] = lookup[i]
    /\ phase = "search" =>
          /\ low <= high
          /\ \A i \in Places : /\ i < low => Before(At(i), wanted)
                               /\ i >= high => ~ Before(At(i), wanted)

(* Inductive form of LookupSound. *)
LookupInv ==
    Permuted /\ HeapOrdered /\ Reached /\ DuplicateTrue /\ FindsLikeLinearSearch

LEMMA PermutedFacts ==
    ASSUME Permuted
    PROVE  /\ Size \in Nat /\ Places = 0..(Size - 1)
           /\ DOMAIN symbols = Places
           /\ symbols \in [Places -> Symbol] /\ lookup \in [Places -> Places]
           /\ \A i, j \in Places : lookup[i] = lookup[j] => i = j
           /\ \A p \in Places : \E i \in Places : lookup[i] = p
           /\ \A i \in Places : At(i) \in Symbol
           /\ start \in 0..Size /\ end \in 0..Size /\ root \in 0..Size
           /\ low \in 0..Size /\ high \in 0..Size
           /\ wanted \in Symbol /\ compiled \in BOOLEAN
           /\ found \in {Missing} \cup Places
<1>1. Size \in Nat /\ DOMAIN symbols = Places
  BY DEF Permuted
<1>2. /\ symbols \in [Places -> Symbol] /\ lookup \in [Places -> Places]
      /\ start \in 0..Size /\ end \in 0..Size /\ root \in 0..Size
      /\ low \in 0..Size /\ high \in 0..Size
      /\ wanted \in Symbol /\ compiled \in BOOLEAN
      /\ found \in {Missing} \cup Places
  BY <1>1 DEF Permuted, TypeOK
<1>3. \A i \in Places : lookup[i] \in Places
  BY <1>2
<1>4. \A i \in Places : At(i) \in Symbol
  BY <1>2, <1>3 DEF At
<1>5. \A i, j \in Places : lookup[i] = lookup[j] => i = j
  BY <1>2 DEF Permuted, IsInjective
<1>6. \A p \in Places : \E i \in Places : lookup[i] = p
  BY <1>1, <1>2 DEF Permuted, AllPositionsKept
<1>7. QED
  BY <1>1, <1>2, <1>4, <1>5, <1>6 DEF Places

(* An exchange is a permutation, and exchanges two entries. *)
LEMMA Exchange ==
    ASSUME Permuted, NEW a \in Places, NEW b \in Places, a # b,
           lookup' = Swap(a, b), symbols' = symbols
    PROVE  /\ lookup' \in [Places -> Places]
           /\ IsInjective(lookup')
           /\ AllPositionsKept'
           /\ \A i \in Places : At(i)' = IF i = a THEN At(b) ELSE IF i = b THEN At(a) ELSE At(i)
<1>1. /\ DOMAIN symbols = Places
      /\ lookup \in [Places -> Places]
      /\ \A i, j \in Places : lookup[i] = lookup[j] => i = j
      /\ \A p \in Places : \E i \in Places : lookup[i] = p
  BY PermutedFacts
<1>2. \A i \in Places : lookup'[i] = IF i = a THEN lookup[b]
                                     ELSE IF i = b THEN lookup[a] ELSE lookup[i]
  BY <1>1 DEF Swap
<1>3. lookup' \in [Places -> Places]
  BY <1>1 DEF Swap
<1>4. IsInjective(lookup')
  BY <1>1, <1>2, <1>3 DEF IsInjective
<1>5. AllPositionsKept'
  <2>1. ASSUME NEW p \in Places PROVE \E i \in Places : lookup'[i] = p
    <3>1. PICK i \in Places : lookup[i] = p
      BY <1>1
    <3>2. lookup'[IF i = a THEN b ELSE IF i = b THEN a ELSE i] = p
      BY <1>2, <3>1
    <3>3. QED
      BY <3>2
  <2>2. DOMAIN lookup' = Places /\ \A i \in Places : lookup'[i] \in Places
    BY <1>3
  <2>3. {lookup'[i] : i \in DOMAIN lookup'} = Places
    BY <2>1, <2>2
  <2>4. QED
    BY <1>1, <2>3 DEF AllPositionsKept
<1>6. \A i \in Places : At(i)' = symbols[lookup'[i]]
  BY DEF At
<1>7. \A i \in Places : At(i)' = IF i = a THEN At(b) ELSE IF i = b THEN At(a) ELSE At(i)
  BY <1>2, <1>6 DEF At
<1>8. QED
  BY <1>3, <1>4, <1>5, <1>7

(* The root of a heap is before none of its entries. *)
LEMMA HeapTop ==
    ASSUME Permuted, end > 0,
           \A i \in 1..(end - 1) : ~ Before(At(Parent(i)), At(i))
    PROVE  \A j \in 0..(end - 1) : ~ Before(At(0), At(j))
<1> DEFINE S == {j \in 0..(end - 1) : Before(At(0), At(j))}
<1>1. end \in 0..Size /\ Size \in Nat /\ \A i \in 0..(Size - 1) : At(i) \in Symbol
  BY PermutedFacts DEF Places
<1> SUFFICES ASSUME S # {} PROVE FALSE
  OBVIOUS
<1>2. S \in SUBSET Nat
  BY <1>1
<1>3. PICK m \in S : \A y \in S : m <= y
  BY <1>2, LeastOne
<1>4. m \in 0..(end - 1) /\ Before(At(0), At(m))
  BY <1>3
<1>5. m # 0
  BY <1>1, <1>4, Descends
<1>6. Parent(m) \in 0..(m - 1)
  BY <1>1, <1>4, <1>5 DEF Parent
<1>7. Parent(m) \notin S
  <2>1. m \in Int /\ Parent(m) \in Int /\ Parent(m) < m
    BY <1>1, <1>4, <1>6
  <2> HIDE DEF S
  <2>2. QED
    BY <1>3, <2>1
<1>8. ~ Before(At(0), At(Parent(m)))
  BY <1>1, <1>4, <1>6, <1>7
<1>9. ~ Before(At(Parent(m)), At(m))
  BY <1>1, <1>4, <1>5
<1>10. At(0) \in Symbol /\ At(m) \in Symbol /\ At(Parent(m)) \in Symbol
  BY <1>1, <1>4, <1>6
<1>11. QED
  BY <1>4, <1>8, <1>9, <1>10, Descends

(* Steps that leave symbols and positions alone. *)
LEMMA StillPermuted ==
    ASSUME Permuted, symbols' = symbols, lookup' = lookup, TypeOK'
    PROVE  Permuted' /\ Places' = Places /\ Size' = Size /\ \A i \in Places : At(i)' = At(i)
BY DEF Permuted, Places, Size, At, AllPositionsKept

LEMMA SwapPermutes ==
    ASSUME Permuted, NEW a \in Places, NEW b \in Places, a # b,
           lookup' = Swap(a, b), symbols' = symbols,
           phase' \in Phases, start' \in 0..Size, end' \in 0..Size, root' \in 0..Size,
           UNCHANGED searchVars
    PROVE  /\ Permuted' /\ Places' = Places /\ Size' = Size
           /\ \A i \in Places : At(i)' = IF i = a THEN At(b) ELSE IF i = b THEN At(a) ELSE At(i)
<1>1. Places' = Places /\ Size' = Size
  BY DEF Places, Size
<1>2. /\ lookup' \in [Places -> Places] /\ IsInjective(lookup') /\ AllPositionsKept'
      /\ \A i \in Places : At(i)' = IF i = a THEN At(b) ELSE IF i = b THEN At(a) ELSE At(i)
  BY Exchange
<1>3. DOMAIN symbols = Places
  BY DEF Permuted
<1>4. TypeOK'
  BY <1>1, <1>2, <1>3 DEF Permuted, TypeOK, searchVars
<1>5. QED
  BY <1>1, <1>2, <1>4 DEF Permuted

(* At first the positions are in order and nothing is in the heap. *)
LEMMA LookupStarts == Init => LookupInv
<1> SUFFICES ASSUME Init PROVE LookupInv
  OBVIOUS
<1>1. PICK n \in 0..MaxSymbols : symbols \in [0..(n - 1) -> Symbol]
  BY DEF Init
<1>2. n \in Nat
  BY <1>1, BoundAssumption
<1>3. DOMAIN symbols = 0..(n - 1) /\ Size = n
  BY <1>1, <1>2, FS_Interval DEF Size
<1>4. Places = 0..(n - 1)
  BY <1>3 DEF Places
<1>5. lookup = [i \in Places |-> i]
  BY <1>3, <1>4 DEF Init
<1>6. (CHOOSE s \in Symbol : TRUE) \in Symbol
  <2>1. \E s : s \in Symbol
    <3>1. PICK n2 \in Names, k \in Kinds : TRUE
      BY SymbolAssumption
    <3>2. [name |-> n2, kind |-> k] \in Symbol
      BY DEF Symbol
    <3>3. QED
      BY <3>2
  <2>2. QED
    BY <2>1
<1>7. TypeOK
  <2>1. /\ phase \in Phases /\ start \in 0..Size /\ end \in 0..Size /\ root \in 0..Size
        /\ compiled \in BOOLEAN /\ low \in 0..Size /\ high \in 0..Size
        /\ found \in {Missing} \cup DOMAIN symbols
    <3>1. phase \in Phases /\ compiled \in BOOLEAN /\ found = Missing
      BY DEF Init, Phases
    <3>2. start = Size \div 2 /\ end = Size /\ root = 0 /\ low = 0 /\ high = 0
      BY DEF Init
    <3>3. start \in 0..Size /\ end \in 0..Size /\ root \in 0..Size
          /\ low \in 0..Size /\ high \in 0..Size
      BY <1>2, <1>3, <3>2
    <3>4. QED
      BY <3>1, <3>3
  <2>2. symbols \in [DOMAIN symbols -> Symbol] /\ lookup \in [DOMAIN symbols -> DOMAIN symbols]
    BY <1>1, <1>3, <1>4, <1>5
  <2>3. wanted \in Symbol
    BY <1>6 DEF Init
  <2>4. QED
    BY <2>1, <2>2, <2>3 DEF TypeOK
<1>8. Permuted
  BY <1>2, <1>3, <1>4, <1>5, <1>7 DEF Permuted, IsInjective, AllPositionsKept
<1>9. HeapOrdered
  <2>1. phase = "heapify" /\ start = Size \div 2 /\ end = Size
    BY DEF Init
  <2>2. \A i \in start..(end - 1) : i > 0 => ~ (Parent(i) >= start)
    BY <1>2, <1>3, <2>1 DEF Parent
  <2>3. \A i \in end..(Size - 1) : FALSE
    BY <1>2, <1>3, <2>1
  <2>4. phase \notin {"sift", "sink"}
    BY <2>1
  <2> HIDE DEF Size
  <2>5. QED
    BY <2>2, <2>3, <2>4 DEF HeapOrdered
<1>10. Reached /\ DuplicateTrue /\ FindsLikeLinearSearch
  BY DEF Init, Reached, DuplicateTrue, FindsLikeLinearSearch
<1>11. QED
  BY <1>8, <1>9, <1>10 DEF LookupInv

(* The entries from start on are a heap below the root that sinks. *)
LEMMA HeapifyKeeps ==
    ASSUME LookupInv, Heapify
    PROVE  LookupInv'
<1>1. /\ Permuted /\ HeapOrdered /\ phase = "heapify" /\ end = Size
      /\ symbols' = symbols /\ lookup' = lookup /\ end' = end
      /\ UNCHANGED searchVars
  BY DEF LookupInv, Heapify, Reached
<1>2. Size \in Nat /\ start \in 0..Size /\ root \in 0..Size /\ end \in 0..Size
  BY <1>1, PermutedFacts
<1>3. Size' = Size
  BY <1>1 DEF Size
<1>4. start' \in 0..Size /\ root' \in 0..Size /\ phase' \in Phases
  BY <1>2 DEF Heapify, Phases
<1>5. TypeOK'
  BY <1>1, <1>2, <1>3, <1>4 DEF Permuted, TypeOK, searchVars
<1>6. Permuted' /\ Places' = Places /\ \A i \in Places : At(i)' = At(i)
  BY <1>1, <1>5, StillPermuted
<1>7. \A i \in start..(end - 1) :
          i > 0 /\ Parent(i) >= start => ~ Before(At(Parent(i)), At(i))
  BY <1>1 DEF HeapOrdered
<1>8. \A i \in start..(end - 1) :
          i > 0 /\ Parent(i) >= start => ~ Before(At(Parent(i))', At(i)')
  <2> SUFFICES ASSUME NEW i \in start..(end - 1), i > 0, Parent(i) >= start
               PROVE  ~ Before(At(Parent(i))', At(i)')
    OBVIOUS
  <2>1. i \in Places /\ Parent(i) \in Places
    BY <1>2 DEF Places, Parent
  <2>2. ~ Before(At(Parent(i)), At(i))
    BY <1>7
  <2>3. QED
    BY <1>6, <2>1, <2>2
<1>9. HeapOrdered'
  <2>1. \A i \in end..(Size - 1) : FALSE
    BY <1>1, <1>2
  <2>2. CASE start > 0
    <3>1. start' = start - 1 /\ root' = start - 1 /\ phase' = "sift"
      BY <1>2, <2>2 DEF Heapify
    <3>2. \A i \in start'..(end - 1) :
              i > 0 /\ Parent(i) >= start' =>
                 Parent(i) = root' \/ ~ Before(At(Parent(i))', At(i)')
      <4> SUFFICES ASSUME NEW i \in start'..(end - 1), i > 0, Parent(i) >= start',
                          Parent(i) # root'
                   PROVE  ~ Before(At(Parent(i))', At(i)')
        OBVIOUS
      <4>1. i \in start..(end - 1) /\ Parent(i) >= start
        BY <1>2, <3>1 DEF Parent
      <4>2. QED
        BY <1>8, <4>1
    <3>3. ~ (Parent(root') >= start' /\ root' > 0)
      BY <1>2, <3>1 DEF Parent
    <3>4. QED
      BY <1>1, <1>3, <2>1, <3>1, <3>2, <3>3 DEF HeapOrdered, Parent
  <2>3. CASE ~ (start > 0)
    <3>1. start' = start /\ phase' = "extract"
      BY <1>2, <2>3 DEF Heapify
    <3>2. QED
      BY <1>1, <1>3, <1>8, <2>1, <3>1 DEF HeapOrdered, Parent
  <2>4. QED
    BY <2>2, <2>3
<1>10. Reached' /\ DuplicateTrue' /\ FindsLikeLinearSearch'
  BY <1>1, <1>2, <1>3 DEF Heapify, Reached, DuplicateTrue, FindsLikeLinearSearch
<1>11. QED
  BY <1>6, <1>9, <1>10 DEF LookupInv

(* The root of the heap, which is before none of it, becomes the first of  *)
(* the sorted entries.                                                     *)
LEMMA ExtractKeeps ==
    ASSUME LookupInv, Extract
    PROVE  LookupInv'
<1>1. /\ Permuted /\ HeapOrdered /\ phase = "extract" /\ start = 0
      /\ symbols' = symbols /\ start' = start /\ UNCHANGED searchVars
      /\ UNCHANGED returns
  BY DEF LookupInv, Extract, Reached
<1>2. Size \in Nat /\ root \in 0..Size /\ end \in 0..Size /\ Places = 0..(Size - 1)
      /\ \A i \in Places : At(i) \in Symbol
  BY <1>1, PermutedFacts
<1>3. \A i \in 1..(end - 1) : ~ Before(At(Parent(i)), At(i))
  BY <1>1, <1>2 DEF HeapOrdered, Parent
<1>4. \A i \in end..(Size - 1) : \A j \in 0..(i - 1) : ~ Before(At(i), At(j))
  BY <1>1 DEF HeapOrdered
<1>5. CASE end > 1
  <2>1. /\ end' = end - 1 /\ root' = 0 /\ lookup' = Swap(0, end - 1) /\ phase' = "sink"
    BY <1>2, <1>5 DEF Extract
  <2>2. \A j \in 0..(end - 1) : ~ Before(At(0), At(j))
    BY <1>1, <1>2, <1>3, <1>5, HeapTop
  <2>3. 0 \in Places /\ end - 1 \in Places /\ 0 # end - 1
    BY <1>2, <1>5
  <2>4. phase' \in Phases /\ end' \in 0..Size /\ root' \in 0..Size /\ start' \in 0..Size
    BY <1>1, <1>2, <1>5, <2>1 DEF Phases
  <2>5. /\ Permuted' /\ Places' = Places /\ Size' = Size
        /\ \A i \in Places : At(i)' = IF i = 0 THEN At(end - 1)
                                      ELSE IF i = end - 1 THEN At(0) ELSE At(i)
    BY <1>1, <2>1, <2>3, <2>4, SwapPermutes
  <2>6. \A i \in 1..(end' - 1) : Parent(i) # 0 => ~ Before(At(Parent(i))', At(i)')
    <3> SUFFICES ASSUME NEW i \in 1..(end' - 1), Parent(i) # 0
                 PROVE  ~ Before(At(Parent(i))', At(i)')
      OBVIOUS
    <3>1. /\ i \in Places /\ i # 0 /\ i # end - 1 /\ i \in 1..(end - 1)
          /\ Parent(i) \in Places /\ Parent(i) # end - 1
      BY <1>2, <2>1 DEF Parent
    <3>2. At(i)' = At(i) /\ At(Parent(i))' = At(Parent(i))
      BY <2>5, <3>1
    <3>3. QED
      BY <1>3, <3>1, <3>2
  <2>7. \A i \in end'..(Size - 1) : \A j \in 0..(i - 1) : ~ Before(At(i)', At(j)')
    <3> SUFFICES ASSUME NEW i \in end'..(Size - 1), NEW j \in 0..(i - 1)
                 PROVE  ~ Before(At(i)', At(j)')
      OBVIOUS
    <3>1. i \in Places /\ j \in Places /\ i # 0 /\ j < i /\ i >= end - 1
      BY <1>2, <1>5, <2>1
    <3>2. CASE i = end - 1
      <4>1. At(i)' = At(0)
        BY <2>5, <3>1, <3>2
      <4>2. At(j)' = IF j = 0 THEN At(end - 1) ELSE At(j)
        BY <2>5, <3>1, <3>2
      <4>3. j \in 0..(end - 1) /\ end - 1 \in 0..(end - 1)
        BY <1>2, <1>5, <3>1, <3>2
      <4>4. QED
        BY <2>2, <4>1, <4>2, <4>3
    <3>3. CASE i # end - 1
      <4>1. At(i)' = At(i) /\ i \in end..(Size - 1)
        BY <1>2, <2>5, <3>1, <3>3
      <4>2. At(j)' = IF j = 0 THEN At(end - 1) ELSE IF j = end - 1 THEN At(0) ELSE At(j)
        BY <2>5, <3>1
      <4>3. j \in 0..(i - 1) /\ 0 \in 0..(i - 1) /\ end - 1 \in 0..(i - 1)
        BY <1>2, <1>5, <3>1, <3>3, <4>1
      <4>4. QED
        BY <1>4, <4>1, <4>2, <4>3
    <3>4. QED
      BY <3>2, <3>3
  <2>8. HeapOrdered'
    <3>1. start' = 0 /\ root' = 0 /\ Size' = Size
      BY <1>1, <2>1, <2>5
    <3> HIDE DEF Size, At
    <3>2. QED
      BY <2>1, <2>6, <2>7, <3>1 DEF HeapOrdered, Parent
  <2>9. Reached' /\ DuplicateTrue' /\ FindsLikeLinearSearch'
    BY <1>1, <2>1 DEF Reached, DuplicateTrue, FindsLikeLinearSearch
  <2>10. QED
    BY <2>5, <2>8, <2>9 DEF LookupInv
<1>6. CASE ~ (end > 1)
  <2>1. phase' = "unique" /\ UNCHANGED <<lookup, end, root>>
    BY <1>2, <1>6 DEF Extract
  <2>2. TypeOK'
    BY <1>1, <2>1 DEF Permuted, TypeOK, searchVars, Phases, Size
  <2>3. Permuted' /\ Places' = Places /\ Size' = Size /\ \A i \in Places : At(i)' = At(i)
    BY <1>1, <2>1, <2>2, StillPermuted
  <2>4. Sorted
    <3> SUFFICES ASSUME NEW i \in Places, NEW j \in Places, j < i
                 PROVE  ~ Before(At(i), At(j))
      BY DEF Sorted
    <3>1. i \in end..(Size - 1) /\ j \in 0..(i - 1)
      BY <1>2, <1>6
    <3>2. QED
      BY <1>4, <3>1
  <2>5. Sorted'
    BY <2>3, <2>4 DEF Sorted
  <2>6. HeapOrdered' /\ Reached' /\ DuplicateTrue' /\ FindsLikeLinearSearch'
    BY <2>1, <2>5 DEF HeapOrdered, Reached, DuplicateTrue, FindsLikeLinearSearch
  <2>7. QED
    BY <2>3, <2>6 DEF LookupInv
<1>7. QED
  BY <1>5, <1>6

(* The larger child, which no child is after. *)
LEMMA LargerChild ==
    ASSUME Permuted, NEW r \in Places, r * 2 + 1 < end
    PROVE  /\ Selected(r) \in Places /\ Selected(r) < end /\ Parent(Selected(r)) = r
           /\ Selected(r) > r
           /\ \A i \in Places : i > 0 /\ i < end /\ Parent(i) = r =>
                 ~ Before(At(Selected(r)), At(i))
<1>1. /\ Size \in Nat /\ Places = 0..(Size - 1) /\ end \in 0..Size
      /\ \A i \in Places : At(i) \in Symbol
  BY PermutedFacts
<1> DEFINE child == r * 2 + 1
<1>2. child \in Places /\ child \in Int /\ child > r /\ Parent(child) = r /\ Parent(child + 1) = r
  BY <1>1 DEF Parent
<1>3. \A i \in Places : i > 0 /\ i < end /\ Parent(i) = r =>
          i = child \/ (i = child + 1 /\ child + 1 < end)
  BY <1>1 DEF Parent
<1>4. Selected(r) = IF child + 1 < end /\ Before(At(child), At(child + 1))
                    THEN child + 1 ELSE child
  BY DEF Selected
<1> HIDE DEF child
<1>5. CASE child + 1 < end /\ Before(At(child), At(child + 1))
  <2>1. child + 1 \in Places
    BY <1>1, <1>2, <1>5
  <2>2. /\ At(child) \in Symbol /\ At(child + 1) \in Symbol
        /\ ~ Before(At(child + 1), At(child)) /\ ~ Before(At(child + 1), At(child + 1))
    BY <1>1, <1>2, <1>5, <2>1, SymbolsAreOrdered
  <2>3. Selected(r) = child + 1
    BY <1>4, <1>5
  <2>4. \A i \in Places : i > 0 /\ i < end /\ Parent(i) = r =>
            ~ Before(At(Selected(r)), At(i))
    BY <1>3, <2>2, <2>3
  <2>5. QED
    BY <1>1, <1>2, <1>5, <2>1, <2>3, <2>4
<1>6. CASE ~ (child + 1 < end /\ Before(At(child), At(child + 1)))
  <2>1. Selected(r) = child
    BY <1>4, <1>6
  <2>2. ~ Before(At(child), At(child))
    BY <1>1, <1>2, Descends
  <2>3. \A i \in Places : i > 0 /\ i < end /\ Parent(i) = r =>
            ~ Before(At(Selected(r)), At(i))
    BY <1>3, <1>6, <2>1, <2>2
  <2>4. QED
    BY <1>2, <2>1, <2>3 DEF child
<1>7. QED
  BY <1>5, <1>6

(* An iteration of siftSymbolLookup moves the disorder one level down, or  *)
(* ends it.                                                                *)
LEMMA SiftKeeps ==
    ASSUME LookupInv, Sift
    PROVE  LookupInv'
<1>1. /\ Permuted /\ HeapOrdered /\ phase \in {"sift", "sink"}
      /\ symbols' = symbols /\ start' = start /\ end' = end /\ UNCHANGED searchVars
      /\ UNCHANGED returns
  BY DEF LookupInv, Sift
<1>2. /\ Size \in Nat /\ start \in 0..Size /\ root \in 0..Size /\ end \in 0..Size
      /\ Places = 0..(Size - 1)
      /\ \A i \in Places : At(i) \in Symbol
  BY <1>1, PermutedFacts
<1>3. \A i \in start..(end - 1) : i > 0 /\ Parent(i) >= start /\ Parent(i) # root =>
          ~ Before(At(Parent(i)), At(i))
  BY <1>1 DEF HeapOrdered
<1>4. \A i \in start..(end - 1) :
          i > 0 /\ Parent(i) >= start /\ Parent(i) = root /\ root > 0 /\ Parent(root) >= start =>
             ~ Before(At(Parent(root)), At(i))
  BY <1>1 DEF HeapOrdered
<1>5. \A i \in end..(Size - 1) : \A j \in 0..(i - 1) : ~ Before(At(i), At(j))
  BY <1>1 DEF HeapOrdered
<1>6. Size' = Size
  BY <1>1 DEF Size
<1>7. CASE root * 2 + 1 < end /\ Before(At(root), At(Selected(root)))
  <2> PICK top, child : top = root /\ child = Selected(root)
    OBVIOUS
  <2>1. lookup' = Swap(top, child) /\ root' = child /\ phase' = phase
    BY <1>7 DEF Sift
  <2>2. top \in Places /\ Before(At(top), At(child))
    BY <1>2, <1>7
  <2>3. /\ child \in Places /\ child < end /\ Parent(child) = top /\ child > top
        /\ \A i \in Places : i > 0 /\ i < end /\ Parent(i) = top =>
              ~ Before(At(child), At(i))
    BY <1>1, <1>7, <2>2, LargerChild
  <2>4. child \in Int /\ top \in Int /\ top # child /\ child \in 0..Size
    BY <1>2, <2>2, <2>3
  <2>5. start' \in 0..Size /\ end' \in 0..Size /\ root' \in 0..Size /\ phase' \in Phases
    BY <1>1, <1>2, <2>1, <2>4 DEF Phases
  <2>6. /\ Permuted' /\ Places' = Places
        /\ \A i \in Places : At(i)' = IF i = top THEN At(child)
                                      ELSE IF i = child THEN At(top) ELSE At(i)
    BY <1>1, <2>1, <2>2, <2>3, <2>4, <2>5, SwapPermutes
  <2>7. \A i \in start..(end - 1) : i > 0 /\ Parent(i) >= start /\ Parent(i) # child =>
            ~ Before(At(Parent(i))', At(i)')
    <3> SUFFICES ASSUME NEW i \in start..(end - 1), i > 0, Parent(i) >= start,
                        Parent(i) # child
                 PROVE  ~ Before(At(Parent(i))', At(i)')
      OBVIOUS
    <3>1. i \in Places /\ i \in Int /\ Parent(i) \in Places /\ Parent(i) < i /\ i < end
      BY <1>2 DEF Parent
    <3>2. CASE Parent(i) = top
      <4>1. At(Parent(i))' = At(child)
        BY <2>6, <3>1, <3>2
      <4>2. i # top
        BY <3>1, <3>2
      <4>3. CASE i = child
        <5>1. At(i)' = At(top)
          BY <2>6, <3>1, <4>2, <4>3
        <5>2. ~ Before(At(child), At(top))
          BY <1>2, <2>2, <2>3, SymbolsAreOrdered
        <5>3. QED
          BY <4>1, <5>1, <5>2
      <4>4. CASE i # child
        <5>1. At(i)' = At(i)
          BY <2>6, <3>1, <4>2, <4>4
        <5>2. ~ Before(At(child), At(i))
          BY <2>3, <3>1, <3>2
        <5>3. QED
          BY <4>1, <5>1, <5>2
      <4>5. QED
        BY <4>3, <4>4
    <3>3. CASE Parent(i) # top
      <4>1. At(Parent(i))' = At(Parent(i))
        BY <2>6, <3>1, <3>3
      <4>2. i # child
        BY <2>3, <3>3
      <4>3. CASE i = top
        <5>1. At(i)' = At(child) /\ top > 0 /\ Parent(top) >= start
          BY <2>6, <3>1, <4>3
        <5>2. child \in start..(end - 1) /\ child > 0 /\ Parent(child) >= start
          BY <1>2, <2>3, <2>4, <3>1, <4>3
        <5>3. ~ Before(At(Parent(top)), At(child))
          BY <1>4, <2>3, <5>1, <5>2
        <5>4. QED
          BY <4>1, <4>3, <5>1, <5>3
      <4>4. CASE i # top
        <5>1. At(i)' = At(i)
          BY <2>6, <3>1, <4>2, <4>4
        <5>2. QED
          BY <1>3, <3>3, <4>1, <5>1
      <4>5. QED
        BY <4>3, <4>4
    <3>4. QED
      BY <3>2, <3>3
  <2>8. \A i \in start..(end - 1) :
            i > 0 /\ Parent(i) = child /\ top >= start =>
               ~ Before(At(top)', At(i)')
    <3> SUFFICES ASSUME NEW i \in start..(end - 1), i > 0, Parent(i) = child, top >= start
                 PROVE  ~ Before(At(top)', At(i)')
      OBVIOUS
    <3>1. i \in Places /\ i \in Int /\ i > child /\ i # top
      BY SMTT(60), <1>2, <2>3, <2>4 DEF Parent
    <3>2. At(top)' = At(child) /\ At(i)' = At(i)
      BY <2>2, <2>4, <2>6, <3>1
    <3>3. Parent(i) >= start /\ Parent(i) # top
      BY <1>2, <2>3, <2>4
    <3>4. QED
      BY <1>3, <3>2, <3>3
  <2>9. \A i \in end..(Size - 1) : \A j \in 0..(i - 1) : ~ Before(At(i)', At(j)')
    <3> SUFFICES ASSUME NEW i \in end..(Size - 1), NEW j \in 0..(i - 1)
                 PROVE  ~ Before(At(i)', At(j)')
      OBVIOUS
    <3>1. i \in Places /\ j \in Places /\ i \in Int /\ i # top /\ i # child
      BY <1>2, <2>3, <2>4
    <3>2. top \in 0..(i - 1) /\ child \in 0..(i - 1)
      BY <1>2, <2>3, <2>4
    <3>3. At(i)' = At(i)
      BY <2>6, <3>1
    <3>4. At(j)' = IF j = top THEN At(child) ELSE IF j = child THEN At(top) ELSE At(j)
      BY <2>6, <3>1
    <3>5. QED
      BY <1>5, <3>2, <3>3, <3>4
  <2>10. HeapOrdered'
    <3>1. ASSUME NEW i \in start..(end - 1), i > 0, Parent(i) = child, Parent(child) >= start
          PROVE  ~ Before(At(Parent(child))', At(i)')
      BY <2>3, <2>8, <3>1
    <3>2. /\ start' = start /\ end' = end /\ root' = child /\ Size' = Size
      BY <1>1, <1>6, <2>1
    <3> HIDE DEF Size, At
    <3>3. /\ \A i \in start'..(end' - 1) : i > 0 /\ Parent(i) >= start' =>
                Parent(i) = root' \/ ~ Before(At(Parent(i))', At(i)')
          /\ \A i \in end'..(Size' - 1) : \A j \in 0..(i - 1) : ~ Before(At(i)', At(j)')
      BY <2>7, <2>9, <3>2
    <3>4. At(Parent(root))' = At(Parent(child))'
      BY <3>2 DEF At, Parent
    <3>5. Parent(root)' = Parent(child)
      BY <3>2 DEF Parent
    <3>6. \A i \in start'..(end' - 1) :
              i > 0 /\ Parent(i) = root' /\ root' > 0 /\ Parent(root)' >= start' =>
                 ~ Before(At(Parent(root))', At(i)')
      BY <3>1, <3>2, <3>4, <3>5
    <3>7. phase' \in {"sift", "sink"}
      BY <1>1, <2>1
    <3>8. QED
      BY <3>3, <3>6, <3>7 DEF HeapOrdered
  <2>11. Reached' /\ DuplicateTrue' /\ FindsLikeLinearSearch'
    BY <1>1, <1>6, <2>1 DEF LookupInv, Reached, DuplicateTrue, FindsLikeLinearSearch
  <2>12. QED
    BY <2>6, <2>10, <2>11 DEF LookupInv
<1> DEFINE child == Selected(root)
<1>8. CASE ~ (root * 2 + 1 < end /\ Before(At(root), At(child)))
  <2>1. /\ lookup' = lookup /\ root' = root
        /\ phase' = IF phase = "sift" THEN "heapify" ELSE "extract"
    BY <1>8 DEF Sift
  <2>2. TypeOK'
    BY <1>1, <1>6, <2>1 DEF Permuted, TypeOK, searchVars, Phases
  <2>3. Permuted' /\ Places' = Places /\ \A i \in Places : At(i)' = At(i)
    BY <1>1, <2>1, <2>2, StillPermuted
  <2>4. ASSUME NEW i \in start..(end - 1), i > 0, Parent(i) >= start
        PROVE  ~ Before(At(Parent(i)), At(i))
    <3>1. CASE Parent(i) # root
      BY <1>3, <2>4, <3>1
    <3>2. CASE Parent(i) = root
      <4>1. i \in Places /\ i < end /\ root \in Places /\ root * 2 + 1 < end
        BY <1>2, <2>4, <3>2 DEF Parent
      <4>2. child \in Places /\ ~ Before(At(child), At(i))
        BY <1>1, <2>4, <3>2, <4>1, LargerChild
      <4>3. ~ Before(At(root), At(child))
        BY <1>8, <4>1
      <4>4. At(root) \in Symbol /\ At(child) \in Symbol /\ At(i) \in Symbol
        BY <1>2, <4>1, <4>2
      <4> HIDE DEF child
      <4>5. QED
        BY <3>2, <4>2, <4>3, <4>4, Descends
    <3>3. QED
      BY <3>1, <3>2
  <2>5. HeapOrdered'
    <3>1. \A i \in start..(end - 1) : i > 0 /\ Parent(i) >= start =>
              ~ Before(At(Parent(i))', At(i)')
      <4> SUFFICES ASSUME NEW i \in start..(end - 1), i > 0, Parent(i) >= start
                   PROVE  ~ Before(At(Parent(i))', At(i)')
        OBVIOUS
      <4>1. i \in Places /\ Parent(i) \in Places
        BY <1>2 DEF Parent
      <4>2. QED
        BY <2>3, <2>4, <4>1
    <3>2. \A i \in end..(Size - 1) : \A j \in 0..(i - 1) : ~ Before(At(i)', At(j)')
      <4> SUFFICES ASSUME NEW i \in end..(Size - 1), NEW j \in 0..(i - 1)
                   PROVE  ~ Before(At(i)', At(j)')
        OBVIOUS
      <4>1. i \in Places /\ j \in Places
        BY <1>2
      <4>2. QED
        BY <1>5, <2>3, <4>1
    <3>3. phase' \notin {"sift", "sink"}
      BY <2>1
    <3> HIDE DEF Size, At
    <3>4. QED
      BY <1>1, <1>6, <3>1, <3>2, <3>3 DEF HeapOrdered, Parent
  <2>6. Reached' /\ DuplicateTrue' /\ FindsLikeLinearSearch'
    BY <1>1, <1>6, <2>1 DEF LookupInv, Reached, DuplicateTrue, FindsLikeLinearSearch
  <2>7. QED
    BY <2>3, <2>5, <2>6 DEF LookupInv
<1>9. QED
  BY <1>7, <1>8

(* After the sort, equal symbols are neighbours; without such neighbours   *)
(* all symbols differ and are in order.                                    *)
LEMMA NoTwins ==
    ASSUME Permuted, Sorted, Twins = {}
    PROVE  \A i, j \in Places : i < j => Before(At(i), At(j))
<1>1. Size \in Nat /\ Places = 0..(Size - 1) /\ \A i \in Places : At(i) \in Symbol
  BY PermutedFacts
<1> SUFFICES ASSUME NEW i \in Places, NEW j \in Places, i < j PROVE Before(At(i), At(j))
  OBVIOUS
<1>2. i + 1 \in Places /\ i \in Int /\ j \in Int
  BY <1>1
<1>3. At(i) # At(i + 1)
  <2>1. i + 1 \in 1..(Size - 1) /\ (i + 1) - 1 = i
    BY <1>1, <1>2
  <2>2. At((i + 1) - 1) # At(i + 1)
    BY <2>1 DEF Twins
  <2>3. QED
    BY <2>1, <2>2
<1>4. ~ Before(At(i + 1), At(i))
  BY <1>2 DEF Sorted
<1>5. Before(At(i), At(i + 1))
  BY <1>1, <1>2, <1>3, <1>4, SymbolsAreOrdered
<1>6. CASE j = i + 1
  BY <1>5, <1>6
<1>7. CASE j # i + 1
  <2>1. ~ Before(At(j), At(i + 1))
    BY <1>2, <1>7 DEF Sorted
  <2>2. At(i) \in Symbol /\ At(i + 1) \in Symbol /\ At(j) \in Symbol
    BY <1>1, <1>2
  <2>3. At(j) = At(i + 1) \/ Before(At(i + 1), At(j))
    BY <2>1, <2>2, SymbolsAreOrdered
  <2>4. QED
    BY <1>5, <2>2, <2>3, SymbolsAreOrdered
<1>8. QED
  BY <1>6, <1>7

(* requireUniqueSymbols reports the later of two equal declarations, or    *)
(* hands the sorted positions over.                                        *)
LEMMA RequireUniqueKeeps ==
    ASSUME LookupInv, RequireUnique
    PROVE  LookupInv'
<1>1. /\ Permuted /\ phase = "unique" /\ Sorted
      /\ symbols' = symbols /\ lookup' = lookup
      /\ UNCHANGED <<start, end, root, compiled, wanted, low, high>>
  BY DEF LookupInv, RequireUnique, Reached
<1>2. /\ Size \in Nat /\ Places = 0..(Size - 1) /\ DOMAIN symbols = Places
      /\ symbols \in [Places -> Symbol] /\ lookup \in [Places -> Places]
      /\ \A i, j \in Places : lookup[i] = lookup[j] => i = j
      /\ found \in {Missing} \cup Places
  BY <1>1, PermutedFacts
<1>3. CASE Twins = {}
  <2>1. /\ phase' = "ready" /\ found' = found
        /\ returns' = [i \in 0..(2 * Size - 1) |->
                          IF i < Size THEN returns[i] ELSE lookup[i - Size]]
    BY <1>3 DEF RequireUnique
  <2>2. TypeOK'
    BY <1>1, <2>1 DEF Permuted, TypeOK, Size, Phases
  <2>3. Permuted' /\ Places' = Places /\ Size' = Size /\ \A i \in Places : At(i)' = At(i)
    BY <1>1, <2>2, StillPermuted
  <2>4. Sorted' /\ Twins' = {}
    <3>1. Sorted'
      BY <1>1, <2>3 DEF Sorted
    <3>2. \A p \in 1..(Size - 1) : At(p - 1)' = At(p - 1) /\ At(p)' = At(p)
      BY <1>2, <2>3
    <3>3. QED
      BY <1>3, <2>3, <3>1, <3>2 DEF Twins
  <2>5. \A i \in Places : returns'[Size + i] = lookup[i]
    <3> SUFFICES ASSUME NEW i \in Places PROVE returns'[Size + i] = lookup[i]
      OBVIOUS
    <3>1. Size + i \in 0..(2 * Size - 1) /\ ~ (Size + i < Size) /\ (Size + i) - Size = i
      BY <1>2
    <3>2. QED
      BY <2>1, <3>1
  <2>6. Reached'
    BY <1>1, <2>1, <2>3, <2>4, <2>5 DEF Reached
  <2>7. HeapOrdered' /\ DuplicateTrue' /\ FindsLikeLinearSearch'
    BY <2>1 DEF HeapOrdered, DuplicateTrue, FindsLikeLinearSearch
  <2>8. QED
    BY <2>3, <2>6, <2>7 DEF LookupInv
<1>4. CASE Twins # {}
  <2>1. phase' = "duplicate" /\ found' = Reported(Min(Twins)) /\ returns' = returns
    BY <1>4 DEF RequireUnique
  <2>2. Twins \in SUBSET Nat
    BY <1>2 DEF Twins
  <2>3. PICK p \in Twins : p = Min(Twins)
    BY <1>4, <2>2, LeastOne
  <2>4. p \in Places /\ p - 1 \in Places /\ At(p - 1) = At(p)
    <3>1. p \in 1..(Size - 1) /\ At(p - 1) = At(p)
      BY <2>3 DEF Twins
    <3>2. p \in 0..(Size - 1) /\ p - 1 \in 0..(Size - 1)
      <4> HIDE DEF Size
      <4>1. QED
        BY <1>2, <3>1
    <3>3. QED
      BY <1>2, <3>1, <3>2
  <2>5. PICK a, b : a = lookup[p - 1] /\ b = lookup[p]
    OBVIOUS
  <2>6. a \in Places /\ b \in Places /\ a # b /\ symbols[a] = symbols[b]
    <3>1. a # b
      BY <1>2, <2>4, <2>5
    <3>2. QED
      BY <1>2, <2>4, <2>5, <3>1 DEF At
  <2>7. found' = IF a < b THEN b ELSE a
    <3>1. found' = Max({a, b})
      BY <2>1, <2>3, <2>5 DEF Reported
    <3>2. a \in Int /\ b \in Int
      BY <1>2, <2>6
    <3>3. \E x \in {a, b} : \A y \in {a, b} : x >= y
      BY <3>2
    <3>4. Max({a, b}) \in {a, b} /\ \A y \in {a, b} : Max({a, b}) >= y
      BY <3>3 DEF Max
    <3>5. QED
      BY <2>6, <3>1, <3>2, <3>4
  <2>8. found' \in Places /\ \E i \in Places : i < found' /\ symbols[i] = symbols[found']
    <3>1. a \in Int /\ b \in Int
      BY <1>2, <2>6
    <3>2. CASE a < b
      BY <2>6, <2>7, <3>2
    <3>3. CASE b < a
      BY <2>6, <2>7, <3>1, <3>3
    <3>4. QED
      BY <2>6, <3>1, <3>2, <3>3
  <2>9. TypeOK'
    BY <1>1, <1>2, <2>1, <2>8 DEF Permuted, TypeOK, Size, Phases
  <2>10. Permuted'
    BY <1>1, <2>9, StillPermuted
  <2>11. DuplicateTrue'
    BY <1>1, <1>2, <2>8 DEF DuplicateTrue
  <2>12. HeapOrdered' /\ Reached' /\ FindsLikeLinearSearch'
    BY <2>1 DEF HeapOrdered, Reached, FindsLikeLinearSearch
  <2>13. QED
    BY <2>10, <2>11, <2>12 DEF LookupInv
<1>5. QED
  BY <1>3, <1>4

(* Both tables that are searched have the sorted positions. *)
LEMMA EntryIs ==
    ASSUME Permuted, \A i \in Places : returns[Size + i] = lookup[i], NEW i \in Places
    PROVE  symbols[Entry(i)] = At(i) /\ Entry(i) = lookup[i]
BY DEF Entry, At

LEMMA FindKeeps ==
    ASSUME LookupInv, NEW s \in Symbol, Find(s)
    PROVE  LookupInv'
<1>1. /\ Permuted /\ phase = "ready" /\ Sorted /\ Twins = {} /\ UNCHANGED sortVars
      /\ \A i \in Places : returns[Size + i] = lookup[i]
      /\ phase' = "search" /\ wanted' = s /\ low' = 0 /\ high' = Size
      /\ compiled' \in BOOLEAN /\ found' = found
  BY DEF LookupInv, Find, Reached, SearchEnd
<1>2. Size \in Nat /\ Places = 0..(Size - 1)
  BY <1>1, PermutedFacts
<1>3. TypeOK'
  <2>1. Size' = Size /\ low' \in 0..Size /\ high' \in 0..Size
    BY <1>1, <1>2 DEF sortVars, Size
  <2> HIDE DEF Size
  <2>2. QED
    BY <1>1, <2>1 DEF Permuted, TypeOK, sortVars, Phases
<1>4. Permuted' /\ Places' = Places /\ Size' = Size /\ \A i \in Places : At(i)' = At(i)
  BY <1>1, <1>3, StillPermuted DEF sortVars
<1>5. Sorted' /\ Twins' = {}
  BY <1>1 DEF sortVars, Sorted, Twins, Places, Size, At
<1>6. \A i \in Places : /\ i < low' => Before(At(i)', wanted')
                        /\ i >= high' => ~ Before(At(i)', wanted')
  BY <1>1, <1>2
<1>7. low' <= high' /\ (\A i \in Places' : returns'[Size' + i] = lookup'[i])
  BY <1>1, <1>2, <1>4 DEF sortVars
<1>8. Reached'
  BY <1>1, <1>4, <1>5, <1>6, <1>7 DEF Reached
<1>9. HeapOrdered' /\ DuplicateTrue' /\ FindsLikeLinearSearch'
  BY <1>1 DEF HeapOrdered, DuplicateTrue, FindsLikeLinearSearch
<1>10. QED
  BY <1>4, <1>8, <1>9 DEF LookupInv

(* A search halves the range in which the wanted symbol must be.           *)
LEMMA SearchKeeps ==
    ASSUME LookupInv, Search
    PROVE  LookupInv'
<1>1. /\ Permuted /\ phase = "search" /\ Sorted /\ Twins = {}
      /\ \A i \in Places : returns[Size + i] = lookup[i]
      /\ low <= high
      /\ \A i \in Places : /\ i < low => Before(At(i), wanted)
                           /\ i >= high => ~ Before(At(i), wanted)
      /\ UNCHANGED <<sortVars, compiled, wanted>>
  BY DEF LookupInv, Search, Reached
<1>2. /\ Size \in Nat /\ Places = 0..(Size - 1) /\ DOMAIN symbols = Places
      /\ low \in 0..Size /\ high \in 0..Size /\ wanted \in Symbol
      /\ \A i \in Places : At(i) \in Symbol
      /\ symbols \in [Places -> Symbol] /\ lookup \in [Places -> Places]
      /\ \A p \in Places : \E i \in Places : lookup[i] = p
      /\ found \in {Missing} \cup Places
  BY <1>1, PermutedFacts
<1>3. \A i, j \in Places : i < j => Before(At(i), At(j))
  BY <1>1, NoTwins
<1>4. Size' = Size /\ Places' = Places /\ Sorted' /\ Twins' = {}
      /\ \A i \in Places : At(i)' = At(i)
  BY <1>1 DEF sortVars, Sorted, Twins, Places, Size, At
<1>5. HeapOrdered' /\ DuplicateTrue'
  BY <1>1 DEF Search, HeapOrdered, DuplicateTrue
<1>6. ASSUME low' \in 0..Size, high' \in 0..Size, found' \in {Missing} \cup Places,
             phase' \in Phases
      PROVE  Permuted'
  <2>1. TypeOK'
    BY <1>1, <1>2, <1>4, <1>6 DEF Permuted, TypeOK, sortVars
  <2>2. QED
    BY <1>1, <2>1, StillPermuted DEF sortVars
<1>7. ASSUME phase' = "search", found' = found, low' \in 0..Size, high' \in 0..Size,
             low' <= high',
             \A i \in Places : /\ i < low' => Before(At(i), wanted)
                               /\ i >= high' => ~ Before(At(i), wanted)
      PROVE  LookupInv'
  <2>1. Permuted'
    BY <1>2, <1>6, <1>7 DEF Phases
  <2>2. Reached'
    BY <1>1, <1>4, <1>7 DEF Reached, sortVars
  <2>3. FindsLikeLinearSearch'
    BY <1>7 DEF FindsLikeLinearSearch
  <2>4. QED
    BY <1>5, <2>1, <2>2, <2>3 DEF LookupInv
<1>8. CASE low < high
  <2>1. PICK middle : middle = Middle
    OBVIOUS
  <2>2. middle \in Places /\ middle \in Nat /\ low <= middle /\ middle < high
    BY <1>2, <1>8, <2>1 DEF Middle
  <2>3. symbols[Entry(middle)] = At(middle)
    BY <1>1, <2>2, EntryIs
  <2>4. CASE Before(At(middle), wanted)
    <3>1. low' = middle + 1 /\ high' = high /\ phase' = phase /\ found' = found
      BY <1>2, <1>8, <2>1, <2>3, <2>4 DEF Search, Lower, AfterMiddle
    <3>2. \A i \in Places : i < low' => Before(At(i), wanted)
      <4> SUFFICES ASSUME NEW i \in Places, i < low' PROVE Before(At(i), wanted)
        OBVIOUS
      <4>1. i = middle \/ i < middle
        BY <1>2, <2>2, <3>1
      <4>2. i < middle => Before(At(i), At(middle))
        BY <1>3, <2>2
      <4>3. At(i) \in Symbol /\ At(middle) \in Symbol
        BY <1>2, <2>2
      <4>4. QED
        BY <1>2, <2>4, <4>1, <4>2, <4>3, SymbolsAreOrdered
    <3>3. low' \in 0..Size /\ high' \in 0..Size /\ low' <= high'
      BY <1>2, <2>2, <3>1
    <3>4. QED
      BY <1>1, <1>7, <3>1, <3>2, <3>3
  <2>5. CASE ~ Before(At(middle), wanted)
    <3>1. high' = middle /\ low' = low /\ phase' = phase /\ found' = found
      BY <1>2, <1>8, <2>1, <2>3, <2>5 DEF Search, Lower
    <3>2. \A i \in Places : i >= high' => ~ Before(At(i), wanted)
      <4> SUFFICES ASSUME NEW i \in Places, i >= high', Before(At(i), wanted) PROVE FALSE
        OBVIOUS
      <4>1. i = middle \/ middle < i
        BY <1>2, <2>2, <3>1
      <4>2. middle < i => Before(At(middle), At(i))
        BY <1>3, <2>2
      <4>3. At(i) \in Symbol /\ At(middle) \in Symbol
        BY <1>2, <2>2
      <4>4. QED
        BY <1>2, <2>5, <4>1, <4>2, <4>3, SymbolsAreOrdered
    <3>3. low' \in 0..Size /\ high' \in 0..Size /\ low' <= high'
      BY <1>2, <2>2, <3>1
    <3>4. QED
      BY <1>1, <1>7, <3>1, <3>2, <3>3
  <2>6. QED
    BY <2>4, <2>5
<1>9. CASE ~ (low < high)
  <2>1. PICK l : l = low
    OBVIOUS
  <2>2. /\ low' = low /\ high' = high /\ phase' = "found"
        /\ found' = IF l < Size THEN IF symbols[Entry(l)] = wanted THEN Entry(l) ELSE Missing
                    ELSE Missing
    BY <1>2, <1>9, <2>1 DEF Search
  <2>3. l = high /\ l \in 0..Size /\ \A i \in Places : i >= l => ~ Before(At(i), wanted)
    BY <1>1, <1>2, <1>9, <2>1
  <2> DEFINE hits == {i \in DOMAIN symbols : symbols[i] = wanted}
  <2>4. \A i \in Places : At(i) = wanted => i = l
    <3> SUFFICES ASSUME NEW i \in Places, At(i) = wanted, i # l PROVE FALSE
      OBVIOUS
    <3>1. ~ (i < l)
      BY <1>1, <1>2, <2>1, Descends
    <3>2. l < i /\ l \in Places
      BY <1>2, <2>3, <3>1
    <3>3. Before(At(l), wanted)
      BY <1>3, <3>2
    <3>4. QED
      BY <1>2, <2>3, <3>2, <3>3
  <2>5. \A p \in hits : l \in Places /\ p = lookup[l] /\ At(l) = wanted
    <3> SUFFICES ASSUME NEW p \in Places, symbols[p] = wanted
                 PROVE  l \in Places /\ p = lookup[l] /\ At(l) = wanted
      BY <1>2
    <3>1. PICK i \in Places : lookup[i] = p
      BY <1>2
    <3>2. At(i) = wanted
      BY <3>1 DEF At
    <3>3. QED
      BY <2>4, <3>1, <3>2
  <2>6. found' = IF hits = {} THEN Missing ELSE Min(hits)
    <3>1. CASE l \in Places /\ At(l) = wanted
      <4>1. l < Size /\ symbols[Entry(l)] = At(l) /\ Entry(l) = lookup[l]
        BY <1>1, <1>2, <3>1, EntryIs
      <4>2. found' = lookup[l] /\ lookup[l] \in Places
        BY <1>2, <2>2, <3>1, <4>1
      <4>3. hits = {lookup[l]}
        <5>1. lookup[l] \in hits
          BY <1>2, <3>1, <4>2 DEF At
        <5>2. QED
          BY <2>5, <5>1
      <4>4. hits \in SUBSET Nat
        BY <1>2
      <4> HIDE DEF hits
      <4>5. Min(hits) \in hits
        BY <4>3, <4>4, LeastOne
      <4>6. QED
        BY <4>2, <4>3, <4>5
    <3>2. CASE ~ (l \in Places /\ At(l) = wanted)
      <4>1. hits = {}
        BY <2>5, <3>2
      <4>2. l < Size => symbols[Entry(l)] = At(l) /\ l \in Places
        BY <1>1, <1>2, <2>3, EntryIs
      <4>3. found' = Missing
        BY <2>2, <3>2, <4>2
      <4>4. QED
        BY <4>1, <4>3
    <3>3. QED
      BY <3>1, <3>2
  <2>7. found' \in {Missing} \cup Places
    <3>1. hits \in SUBSET Nat /\ hits \subseteq Places
      BY <1>2
    <3>2. hits # {} => Min(hits) \in hits
      BY <3>1, LeastOne
    <3> HIDE DEF hits
    <3>3. QED
      BY <2>6, <3>1, <3>2
  <2>8. FindSymbol(wanted)' = IF hits = {} THEN Missing ELSE Min(hits)
    BY <1>1 DEF FindSymbol, sortVars
  <2> HIDE DEF hits
  <2>9. FindsLikeLinearSearch'
    BY <2>6, <2>8 DEF FindsLikeLinearSearch
  <2>10. Permuted'
    BY <1>2, <1>6, <2>2, <2>7 DEF Phases
  <2>11. Reached'
    BY <1>1, <1>4, <2>2 DEF Reached, sortVars
  <2>12. QED
    BY <1>5, <2>9, <2>10, <2>11 DEF LookupInv
<1>10. QED
  BY <1>8, <1>9

LEMMA ReturnKeeps ==
    ASSUME LookupInv, Return
    PROVE  LookupInv'
<1>1. /\ Permuted /\ phase = "found" /\ Sorted /\ Twins = {}
      /\ \A i \in Places : returns[Size + i] = lookup[i]
      /\ UNCHANGED <<sortVars, compiled, wanted, low, high>>
      /\ phase' = "ready" /\ found' = Missing
  BY DEF LookupInv, Return, Reached
<1>2. TypeOK'
  BY <1>1 DEF Permuted, TypeOK, sortVars, Size, Phases
<1>3. Permuted'
  BY <1>1, <1>2, StillPermuted DEF sortVars
<1>4. Sorted' /\ Twins' = {} /\ \A i \in Places' : returns'[Size' + i] = lookup'[i]
  BY <1>1 DEF sortVars, Sorted, Twins, Places, Size, At
<1>5. HeapOrdered' /\ Reached' /\ DuplicateTrue' /\ FindsLikeLinearSearch'
  BY <1>1, <1>4 DEF HeapOrdered, Reached, DuplicateTrue, FindsLikeLinearSearch
<1>6. QED
  BY <1>3, <1>5 DEF LookupInv

LEMMA LookupKept == LookupInv /\ [Next]_vars => LookupInv'
<1>1. ASSUME LookupInv, UNCHANGED vars PROVE LookupInv'
  <2>1. /\ symbols' = symbols /\ lookup' = lookup /\ phase' = phase /\ start' = start
        /\ end' = end /\ root' = root /\ returns' = returns /\ compiled' = compiled
        /\ wanted' = wanted /\ low' = low /\ high' = high /\ found' = found
    BY <1>1 DEF vars, sortVars, searchVars
  <2>2. Size' = Size /\ Places' = Places
    BY <2>1 DEF Size, Places
  <2>3. Permuted'
    BY <1>1, <2>1, <2>2 DEF LookupInv, Permuted, TypeOK, AllPositionsKept, Phases, Places
  <2>4. HeapOrdered'
    BY <1>1, <2>1, <2>2 DEF LookupInv, HeapOrdered, At, Parent, Before
  <2>5. (Sorted <=> Sorted') /\ Twins' = Twins
    BY <2>1, <2>2 DEF Sorted, Twins, At, Before
  <2>6. Reached'
    BY <1>1, <2>1, <2>2, <2>5 DEF LookupInv, Reached, Entry, At, Before
  <2>7. DuplicateTrue' /\ FindsLikeLinearSearch'
    BY <1>1, <2>1 DEF LookupInv, DuplicateTrue, FindsLikeLinearSearch, FindSymbol
  <2>8. QED
    BY <2>3, <2>4, <2>6, <2>7 DEF LookupInv
<1>2. QED
  BY <1>1, HeapifyKeeps, ExtractKeeps, SiftKeeps, RequireUniqueKeeps, FindKeeps,
     SearchKeeps, ReturnKeeps DEF Next

LEMMA LookupIsSound == LookupInv => LookupSound
<1> SUFFICES ASSUME LookupInv PROVE SearchedWhenSorted
  BY DEF LookupInv, LookupSound, Permuted
<1> SUFFICES ASSUME phase \in {"ready", "search", "found"}
             PROVE  /\ \A i, j \in DOMAIN lookup : i < j => Before(At(i), At(j))
                    /\ IsInjective(symbols)
  BY DEF SearchedWhenSorted
<1>1. Permuted /\ Sorted /\ Twins = {}
  BY DEF LookupInv, Reached
<1>2. /\ DOMAIN symbols = Places /\ lookup \in [Places -> Places] /\ Places = 0..(Size - 1)
      /\ Size \in Nat
      /\ \A p \in Places : \E i \in Places : lookup[i] = p
      /\ \A i \in Places : At(i) \in Symbol
  BY <1>1, PermutedFacts
<1>3. \A i, j \in Places : i < j => Before(At(i), At(j))
  BY <1>1, NoTwins
<1>4. ASSUME NEW a \in Places, NEW b \in Places, symbols[a] = symbols[b] PROVE a = b
  <2>1. PICK i \in Places : lookup[i] = a
    BY <1>2
  <2>2. PICK j \in Places : lookup[j] = b
    BY <1>2
  <2>3. At(i) = At(j)
    BY <1>4, <2>1, <2>2 DEF At
  <2>4. ~ (i < j) /\ ~ (j < i)
    BY <1>2, <1>3, <2>3, Descends
  <2>5. i = j
    BY <1>2, <2>4
  <2>6. QED
    BY <2>1, <2>2, <2>5
<1>5. QED
  BY <1>2, <1>3, <1>4 DEF IsInjective

(* For any names, kinds and numbers of declarations buildSymbolLookup      *)
(* loses no symbol and sorts them, requireUniqueSymbols lets no duplicate  *)
(* through and reports a real one, and findIndexedSymbol and               *)
(* findCompiledSymbol find what the linear findSymbol finds.               *)
THEOREM LookupIsLinearSearch == Spec => []LookupSound
BY LookupStarts, LookupKept, LookupIsSound, PTL DEF Spec

-----------------------------------------------------------------------------
(***************************************************************************)
(* The names of module files.                                              *)
(***************************************************************************)
(* A part leads from a directory to another. *)
Go(dir, x) ==
    IF x \in {Here, Blank} THEN dir
    ELSE IF x = Up THEN IF dir = <<>> THEN <<>> ELSE Paths!Front(dir)
    ELSE Append(dir, x)

(* The first k parts of items lead from one directory to the next in g. *)
LeadsUpTo(g, from, items, k) ==
    g = [i \in 0..k |-> IF i = 0 THEN from ELSE Go(g[i - 1], items[i])]

Leads(g, from, items) == LeadsUpTo(g, from, items, Len(items))

(* The parts of a path do lead somewhere: the recursion of Walk has a      *)
(* value.                                                                  *)
LEMMA PartsLead ==
    ASSUME NEW from, NEW items, Len(items) \in Nat
    PROVE  \E g : Leads(g, from, items)
<1> DEFINE Lost == {k \in Nat : ~ \E g : LeadsUpTo(g, from, items, k)}
<1>1. CASE Lost = {}
  BY <1>1 DEF Leads
<1>2. CASE Lost # {}
  <2>1. PICK k \in Lost : \A y \in Lost : k <= y
    BY <1>2, LeastOne, Lost \in SUBSET Nat
  <2>2. CASE k = 0
    <3>1. LeadsUpTo([i \in 0..0 |-> from], from, items, 0)
      BY DEF LeadsUpTo
    <3> QED BY <2>1, <2>2, <3>1
  <2>3. CASE k # 0
    <3>1. k \in Nat /\ k - 1 \in Nat /\ ~(k <= k - 1)
      BY <2>1, <2>3
    <3>2. k - 1 \notin Lost
      BY <2>1, <3>1
    <3>3. PICK g : LeadsUpTo(g, from, items, k - 1)
      BY <3>1, <3>2
    <3> DEFINE h == [i \in 0..k |-> IF i = k THEN Go(g[k - 1], items[k]) ELSE g[i]]
    <3>4. ASSUME NEW i \in 0..k PROVE h[i] = IF i = 0 THEN from ELSE Go(h[i - 1], items[i])
      <4>1. CASE i = k
        BY <2>3, <3>1, <4>1
      <4>2. CASE i # k
        <5>1. i \in 0..(k - 1) /\ h[i] = g[i] /\ (i # 0 => h[i - 1] = g[i - 1])
          BY <3>1, <4>2
        <5>2. g[i] = IF i = 0 THEN from ELSE Go(g[i - 1], items[i])
          BY <3>3, <5>1 DEF LeadsUpTo
        <5> HIDE DEF h
        <5> QED BY <5>1, <5>2
      <4> QED BY <4>1, <4>2
    <3>5. LeadsUpTo(h, from, items, k)
      <4>1. h = [i \in 0..k |-> h[i]]
        OBVIOUS
      <4> HIDE DEF h
      <4>2. [i \in 0..k |-> h[i]]
               = [i \in 0..k |-> IF i = 0 THEN from ELSE Go(h[i - 1], items[i])]
        BY <3>4
      <4> QED BY <4>1, <4>2 DEF LeadsUpTo
    <3> QED BY <2>1, <3>5
  <2> QED BY <2>2, <2>3
<1> QED BY <1>1, <1>2

(* Walk is where they lead in the end. *)
LEMMA WalkEnds ==
    ASSUME NEW from, NEW items, Len(items) \in Nat
    PROVE  \E g : Leads(g, from, items) /\ Paths!Walk(from, items) = g[Len(items)]
<1> DEFINE c == CHOOSE g : Leads(g, from, items)
<1>1. Leads(c, from, items)
  BY PartsLead
<1>2. Paths!Walk(from, items) = c[Len(items)]
  BY DEF Paths!Walk, Leads, LeadsUpTo, Go
<1> HIDE DEF c
<1> QED BY <1>1, <1>2

(* One step of the way. *)
LEMMA LeadsStep ==
    ASSUME NEW from, NEW items, NEW g, Len(items) \in Nat, Leads(g, from, items)
    PROVE  /\ g[0] = from
           /\ \A i \in 1..Len(items) : g[i] = Go(g[i - 1], items[i])
BY DEF Leads, LeadsUpTo

(* From the part a of one path on, n parts are those of another path. *)
GoTogether(g, s, a, h, t, n) ==
    /\ g[a] = h[0]
    /\ \A i \in 1..n : /\ g[a + i] = Go(g[a + i - 1], s[a + i])
                        /\ h[i] = Go(h[i - 1], t[i]) /\ s[a + i] = t[i]

(* There they lead to the same directories. *)
LEMMA WaysAgree ==
    ASSUME NEW g, NEW h, NEW s, NEW t, NEW n \in Nat, NEW a \in Nat, GoTogether(g, s, a, h, t, n)
    PROVE  g[a + n] = h[n]
<1>0. /\ g[a] = h[0]
      /\ \A i \in 1..n : /\ g[a + i] = Go(g[a + i - 1], s[a + i])
                          /\ h[i] = Go(h[i - 1], t[i]) /\ s[a + i] = t[i]
  BY DEF GoTogether
<1> DEFINE Lost == {k \in 0..n : g[a + k] # h[k]}
<1>1. CASE Lost # {}
  <2>1. PICK k \in Lost : \A y \in Lost : k <= y
    BY <1>1, LeastOne, Lost \in SUBSET Nat
  <2>2. k \in Nat /\ k # 0 /\ a + 0 = a
    BY <1>0, <2>1
  <2>3. k - 1 \in 0..n /\ k \in 1..n /\ ~(k <= k - 1) /\ a + (k - 1) = a + k - 1
    BY <2>1, <2>2
  <2>4. g[a + k - 1] = h[k - 1]
    BY <2>1, <2>3
  <2>5. g[a + k] = h[k]
    BY <1>0, <2>3, <2>4
  <2> QED BY <2>1, <2>5
<1> QED BY <1>1

LEMMA WalkEmpty ==
    ASSUME NEW from
    PROVE  Paths!Walk(from, <<>>) = from
<1>1. PICK g : Leads(g, from, <<>>) /\ Paths!Walk(from, <<>>) = g[Len(<<>>)]
  BY WalkEnds
<1> QED BY <1>1, LeadsStep

(* Behind a path the next one begins. *)
LEMMA WalkOn ==
    ASSUME NEW D, NEW s \in Seq(D), NEW t \in Seq(D), NEW from
    PROVE  Paths!Walk(from, s \o t) = Paths!Walk(Paths!Walk(from, s), t)
<1> DEFINE st == s \o t
<1>0. Len(s) \in Nat /\ Len(t) \in Nat
  OBVIOUS
<1>1. /\ st \in Seq(D) /\ Len(st) = Len(s) + Len(t)
      /\ \A i \in 1..Len(s) : st[i] = s[i]
      /\ \A i \in 1..Len(t) : st[Len(s) + i] = t[i]
  BY ConcatProperties
<1> HIDE DEF st
<1>n. Len(st) \in Nat
  BY ONLY <1>0, <1>1
<1>2. PICK g : Leads(g, from, s) /\ Paths!Walk(from, s) = g[Len(s)]
  BY <1>0, <1>n, WalkEnds
<1>3. PICK h : Leads(h, from, st) /\ Paths!Walk(from, st) = h[Len(st)]
  BY <1>0, <1>n, WalkEnds
<1>4. PICK f : Leads(f, g[Len(s)], t) /\ Paths!Walk(g[Len(s)], t) = f[Len(t)]
  BY <1>0, <1>n, WalkEnds
<1>g. g[0] = from /\ \A i \in 1..Len(s) : g[i] = Go(g[i - 1], s[i])
  BY ONLY <1>0, <1>2, LeadsStep
<1>h. h[0] = from /\ \A i \in 1..Len(st) : h[i] = Go(h[i - 1], st[i])
  BY ONLY <1>n, <1>3, LeadsStep
<1>f. f[0] = g[Len(s)] /\ \A i \in 1..Len(t) : f[i] = Go(f[i - 1], t[i])
  BY ONLY <1>0, <1>4, LeadsStep
<1>5. h[Len(s)] = g[Len(s)]
  <2>1. ASSUME NEW i \in 1..Len(s)
        PROVE  h[0 + i] = Go(h[0 + i - 1], st[0 + i]) /\ g[i] = Go(g[i - 1], s[i])
               /\ st[0 + i] = s[i]
    <3>1. 0 + i = i /\ i \in 1..Len(st) /\ 0 + i - 1 = i - 1
      BY ONLY <1>0, <1>1
    <3> QED BY <1>1, <1>g, <1>h, <3>1
  <2>2. GoTogether(h, st, 0, g, s, Len(s))
    BY <1>g, <1>h, <2>1 DEF GoTogether
  <2>3. h[0 + Len(s)] = g[Len(s)]
    BY <1>0, <2>2, WaysAgree
  <2> QED BY <1>1, <2>3
<1>6. h[Len(s) + Len(t)] = f[Len(t)]
  <2>1. ASSUME NEW i \in 1..Len(t)
        PROVE  /\ h[Len(s) + i] = Go(h[Len(s) + i - 1], st[Len(s) + i])
               /\ f[i] = Go(f[i - 1], t[i]) /\ st[Len(s) + i] = t[i]
    <3>1. Len(s) + i \in 1..Len(st)
      BY ONLY <1>0, <1>1
    <3>2. h[Len(s) + i] = Go(h[Len(s) + i - 1], st[Len(s) + i])
      BY <1>h, <3>1
    <3> QED BY <1>1, <1>f, <3>2
  <2>2. GoTogether(h, st, Len(s), f, t, Len(t))
    BY <1>5, <1>f, <2>1 DEF GoTogether
  <2> QED BY <1>0, <2>2, WaysAgree
<1> QED BY <1>1, <1>2, <1>3, <1>4, <1>6 DEF st

LEMMA WalkOne ==
    ASSUME NEW from, NEW x
    PROVE  Paths!Walk(from, <<x>>) = Go(from, x)
<1>1. Len(<<x>>) = 1 /\ <<x>>[1] = x
  OBVIOUS
<1>2. PICK g : Leads(g, from, <<x>>) /\ Paths!Walk(from, <<x>>) = g[1]
  BY <1>1, WalkEnds
<1>3. g[0] = from /\ g[1] = Go(g[1 - 1], <<x>>[1])
  BY <1>1, <1>2, LeadsStep
<1> QED BY <1>1, <1>2, <1>3

LEMMA WalkAppend ==
    ASSUME NEW D, NEW s \in Seq(D), NEW x \in D, NEW from
    PROVE  Paths!Walk(from, Append(s, x)) = Go(Paths!Walk(from, s), x)
<1>1. Append(s, x) = s \o <<x>> /\ <<x>> \in Seq(D)
  BY AppendIsConcat
<1>2. Paths!Walk(from, s \o <<x>>) = Paths!Walk(Paths!Walk(from, s), <<x>>)
  BY <1>1, WalkOn
<1> QED BY <1>1, <1>2, WalkOne

(* A walk goes from directory to directory. *)
LEMMA WalkTyped ==
    ASSUME NEW S, NEW D, D \subseteq S, NEW s \in Seq(D), NEW from \in Seq(S)
    PROVE  Paths!Walk(from, s) \in Seq(S)
<1>1. PICK g : Leads(g, from, s) /\ Paths!Walk(from, s) = g[Len(s)]
  BY WalkEnds, LenProperties
<1>2. Len(s) \in Nat /\ \A i \in 1..Len(s) : s[i] \in S
  BY ElementOfSeq
<1>3. g[0] = from /\ \A i \in 1..Len(s) : g[i] = Go(g[i - 1], s[i])
  BY <1>1, <1>2, LeadsStep
<1>4. ASSUME NEW d \in Seq(S), NEW x \in S PROVE Go(d, x) \in Seq(S)
  <2>1. Append(d, x) \in Seq(S) /\ <<>> \in Seq(S)
    BY AppendProperties, EmptySeq
  <2>2. d # <<>> => Paths!Front(d) \in Seq(S)
    BY EmptySeq, SubSeqProperties, LenProperties DEF Paths!Front
  <2> QED BY <2>1, <2>2 DEF Go
<1> DEFINE Lost == {k \in 0..Len(s) : g[k] \notin Seq(S)}
<1>5. CASE Lost # {}
  <2>1. PICK k \in Lost : \A y \in Lost : k <= y
    BY <1>2, <1>5, LeastOne, Lost \in SUBSET Nat
  <2>2. k \in Nat /\ k # 0
    BY <1>3, <2>1
  <2>3. k - 1 \in 0..Len(s) /\ k \in 1..Len(s) /\ ~(k <= k - 1)
    BY <1>2, <2>1, <2>2
  <2>4. g[k - 1] \in Seq(S)
    BY <2>1, <2>3
  <2>5. g[k] \in Seq(S)
    BY <1>2, <1>3, <1>4, <2>3, <2>4
  <2> QED BY <2>1, <2>5
<1> QED BY <1>1, <1>2, <1>5

(* What a sequence begins with, one element longer. *)
LEMMA BeginsWith ==
    ASSUME NEW D, NEW s \in Seq(D), NEW n \in Nat, n < Len(s)
    PROVE  /\ SubSeq(s, 1, n) \in Seq(D) /\ s[n + 1] \in D
           /\ SubSeq(s, 1, n + 1) = Append(SubSeq(s, 1, n), s[n + 1])
<1>1. SubSeq(s, 1, n) \in Seq(D) /\ s[n + 1] \in D
  <2>1. \A i \in 1..n : s[i] \in D
    OBVIOUS
  <2> QED BY <2>1, SubSeqProperties
<1>2. SubSeq(s, 1, n + 1) = SubSeq(s, 1, n) \o <<s[n + 1]>>
  <2>1. 1 \in 1..Len(s) /\ n + 1 \in 1..Len(s) /\ (n + 1) - 1 = n
    OBVIOUS
  <2> QED BY <2>1, SubSeqRecursiveSecond
<1> QED BY <1>1, <1>2, AppendIsConcat

(* The directories that a path is followed from, and the names in them. *)
PathNames == Paths!Part \cup {"work", "home", "user"}

Used == SubSeq(parts, 1, active)
Read == SubSeq(path.items, 1, position - 1)

PathsTyped ==
    /\ importer \in Paths!Path /\ path \in Paths!Path /\ result \in Paths!Path
    /\ specifier \in Seq(Paths!Part)
    /\ stage \in {"importer", "module", "done", "failed"}
    /\ parts \in Seq(PartNames \cup {Up}) /\ active \in Nat /\ active <= Len(parts)
    /\ position \in Nat /\ 1 <= position /\ position <= Len(path.items) + 1

(* Paths and the specifier end in a name, and that name is kept. *)
EndInNames ==
    /\ specifier # <<>> /\ specifier[Len(specifier)] \in PartNames
    /\ path.items # <<>> /\ path.items[Len(path.items)] \in PartNames
    /\ position > 1 /\ path.items[position - 1] \in PartNames =>
          active > 0 /\ parts[active] = path.items[position - 1]

(* ".." is in use only in front, and only in a relative path. *)
UpComesFirst ==
    \A i \in 1..active :
        parts[i] = Up => ~path.absolute /\ \A j \in 1..i : parts[j] = Up

(* What was read leads where what is in use leads. *)
PrefixLeads ==
    stage # "failed" =>
        \A d \in Paths!Directories :
            Paths!Walk(Paths!From(path, d), Used) = Paths!Walk(Paths!From(path, d), Read)

(* The joined path leads to the file that is meant. *)
JoinLeads ==
    stage \in {"module", "done"} =>
        /\ path.drive => path.absolute
        /\ (importer.drive => importer.absolute) =>
              /\ path.absolute = importer.absolute
              /\ \A d \in Paths!Directories :
                    Paths!Walk(Paths!From(path, d), path.items)
                        = Paths!Walk(Paths!Front(Paths!Walk(Paths!From(importer, d),
                                                            importer.items)), specifier)

PathsInv ==
    /\ PathsTyped /\ EndInNames /\ UpComesFirst /\ PrefixLeads /\ JoinLeads
    /\ stage = "importer" => path = importer
    /\ stage = "done" => position = Len(path.items) + 1 /\ result = Paths!Written

LEMMA PathsStart == Paths!PartsAssumption /\ Paths!Init => PathsInv
<1> SUFFICES ASSUME Paths!PartsAssumption, Paths!Init PROVE PathsInv
  OBVIOUS
<1>1. ASSUME NEW n, NEW s \in Paths!FileParts(n)
      PROVE  s \in Seq(Paths!Part) /\ s # <<>> /\ s[Len(s)] \in PartNames
  <2>1. PICK k \in 1..n : s \in [1..k -> Paths!Part]
    BY DEF Paths!FileParts
  <2>2. k \in Nat /\ k >= 1 /\ s \in Seq(Paths!Part) /\ Len(s) = k
    BY <2>1
  <2>3. s[Len(s)] \in PartNames
    BY DEF Paths!FileParts, Paths!Last
  <2>4. s # <<>>
    BY <2>2
  <2> QED BY <2>2, <2>3, <2>4
<1>2. /\ importer \in [drive : BOOLEAN, absolute : BOOLEAN, items : Paths!FileParts(MaxImporter)]
      /\ specifier \in Paths!FileParts(MaxSpecifier)
      /\ path = importer /\ stage = "importer"
      /\ parts = <<>> /\ active = 0 /\ position = 1 /\ result = Paths!NoPath
  BY DEF Paths!Init
<1>3. /\ importer \in Paths!Path /\ path.items # <<>> /\ path.items[Len(path.items)] \in PartNames
      /\ path.items \in Seq(Paths!Part)
  BY <1>1, <1>2 DEF Paths!Path
<1>4. specifier \in Seq(Paths!Part) /\ specifier # <<>> /\ specifier[Len(specifier)] \in PartNames
  BY <1>1, <1>2
<1>5. Paths!NoPath \in Paths!Path
  BY DEF Paths!NoPath, Paths!Path
<1>6. PathsTyped
  BY <1>2, <1>3, <1>4, <1>5 DEF PathsTyped
<1>7. EndInNames
  BY <1>2, <1>3, <1>4 DEF EndInNames
<1>8. UpComesFirst /\ JoinLeads
  BY <1>2 DEF UpComesFirst, JoinLeads
<1>9. Used = <<>> /\ Read = <<>>
  BY <1>2, SubSeqEmpty DEF Used, Read
<1> QED BY <1>2, <1>6, <1>7, <1>8, <1>9 DEF PathsInv, PrefixLeads

(* Directories are sequences of names. *)
LEMMA FromTyped ==
    ASSUME NEW p, NEW d \in Paths!Directories
    PROVE  Paths!From(p, d) \in Seq(PathNames)
<1>1. PICK S : S = PathNames
  OBVIOUS
<1>2. "work" \in S /\ "home" \in S /\ "user" \in S
  BY <1>1 DEF PathNames
<1>3. <<>> \in Seq(S) /\ <<"work">> \in Seq(S) /\ <<"home", "work">> \in Seq(S)
      /\ <<"home", "user", "work">> \in Seq(S)
  BY <1>2
<1>4. d \in Seq(S)
  BY <1>3 DEF Paths!Directories
<1> QED BY <1>1, <1>3, <1>4 DEF Paths!From

(* A ".." behind a name leads back. *)
LEMMA UpLeadsBack ==
    ASSUME NEW w \in Seq(PathNames), NEW n \in PartNames, Paths!PartsAssumption
    PROVE  Go(w, n) = Append(w, n) /\ Go(Append(w, n), Up) = w
<1>1. n \notin {Up, Here, Blank} /\ Up \notin {Here, Blank}
  BY DEF Paths!PartsAssumption
<1>2. Go(w, n) = Append(w, n)
  BY <1>1 DEF Go
<1>3. Append(w, n) # <<>> /\ Paths!Front(Append(w, n)) = w
  <2>1. n \in PathNames
    BY DEF PathNames, Paths!Part
  <2>2. Append(w, n) \in Seq(PathNames) /\ Append(w, n) # <<>> /\ Len(Append(w, n)) = Len(w) + 1
        /\ \A i \in 1..Len(w) : Append(w, n)[i] = w[i]
    BY <2>1, AppendProperties
  <2>3. Paths!Front(Append(w, n)) = SubSeq(Append(w, n), 1, Len(w))
    BY <2>2 DEF Paths!Front
  <2>4. SubSeq(Append(w, n), 1, Len(w)) = w
    OBVIOUS
  <2> QED BY <2>2, <2>3, <2>4
<1>4. Go(Append(w, n), Up) = w
  BY <1>1, <1>3 DEF Go
<1> QED BY <1>2, <1>4

(* What Kept keeps. *)
LEMMA KeptPart ==
    ASSUME PathsTyped, NEW part \in PartNames \cup {Up}
    PROVE  /\ Paths!Kept(part) \in Seq(PartNames \cup {Up})
           /\ active + 1 <= Len(Paths!Kept(part))
           /\ Paths!Kept(part)[active + 1] = part
           /\ \A i \in 1..active : Paths!Kept(part)[i] = parts[i]
           /\ Used \in Seq(PartNames \cup {Up})
           /\ SubSeq(Paths!Kept(part), 1, active + 1) = Append(Used, part)
<1> DEFINE kept == Paths!Kept(part)
<1>0. PICK D : D = PartNames \cup {Up}
  OBVIOUS
<1>1. part \in D /\ parts \in Seq(D) /\ active \in Nat /\ active <= Len(parts) /\ Len(parts) \in Nat
  BY <1>0 DEF PathsTyped
<1>2. /\ kept \in Seq(D) /\ active + 1 <= Len(kept) /\ kept[active + 1] = part
      /\ \A i \in 1..active : kept[i] = parts[i]
  <2>1. CASE active < Len(parts)
    <3>1. active + 1 \in 1..Len(parts) /\ kept = [parts EXCEPT ![active + 1] = part]
      BY <1>1, <2>1 DEF Paths!Kept
    <3> HIDE DEF kept
    <3>2. [parts EXCEPT ![active + 1] = part] \in Seq(D)
          /\ Len([parts EXCEPT ![active + 1] = part]) = Len(parts)
          /\ \A j \in 1..Len(parts) :
                [parts EXCEPT ![active + 1] = part][j] = IF j = active + 1 THEN part ELSE parts[j]
      BY <1>1, <3>1, ExceptSeq
    <3> QED BY ONLY <1>1, <2>1, <3>1, <3>2
  <2>2. CASE ~(active < Len(parts))
    <3>1. active = Len(parts) /\ kept = Append(parts, part)
      BY <1>1, <2>2 DEF Paths!Kept
    <3> HIDE DEF kept
    <3>2. Append(parts, part) \in Seq(D) /\ Len(Append(parts, part)) = Len(parts) + 1
          /\ \A i \in 1..Len(parts) : Append(parts, part)[i] = parts[i]
          /\ Append(parts, part)[Len(parts) + 1] = part
      BY ONLY <1>1, AppendProperties
    <3> QED BY ONLY <1>1, <3>1, <3>2
  <2> QED BY <2>1, <2>2
<1> HIDE DEF kept
<1>3. Len(kept) \in Nat
  BY <1>2
<1>4. /\ SubSeq(kept, 1, active + 1) = Append(SubSeq(kept, 1, active), kept[active + 1])
      /\ SubSeq(kept, 1, active) \in Seq(D)
  BY <1>1, <1>2, <1>3, BeginsWith
<1>5. SubSeq(kept, 1, active) = Used
  <2>1. /\ SubSeq(parts, 1, active) \in Seq(D) /\ Len(SubSeq(parts, 1, active)) = active
        /\ \A i \in 1..active : SubSeq(parts, 1, active)[i] = parts[i]
    BY <1>1
  <2>2. /\ Len(SubSeq(kept, 1, active)) = active
        /\ \A i \in 1..active : SubSeq(kept, 1, active)[i] = kept[i]
    BY <1>1, <1>2, <1>3
  <2> QED BY <1>2, <1>4, <2>1, <2>2, SeqEqual DEF Used
<1> QED BY <1>0, <1>2, <1>4, <1>5 DEF kept

(* The next part of the path leads on. *)
LEMMA ReadOn ==
    ASSUME PathsTyped, position <= Len(path.items)
    PROVE  /\ path.items[position] \in Paths!Part
           /\ Read \in Seq(Paths!Part)
           /\ SubSeq(path.items, 1, position) = Append(Read, path.items[position])
<1>1. PICK D : D = Paths!Part
  OBVIOUS
<1>2. path.items \in Seq(D) /\ position - 1 \in Nat /\ position - 1 < Len(path.items)
      /\ (position - 1) + 1 = position
  BY <1>1 DEF PathsTyped, Paths!Path
<1>3. /\ SubSeq(path.items, 1, position - 1) \in Seq(D) /\ path.items[(position - 1) + 1] \in D
      /\ SubSeq(path.items, 1, (position - 1) + 1)
            = Append(SubSeq(path.items, 1, position - 1), path.items[(position - 1) + 1])
  BY <1>2, BeginsWith
<1> QED BY <1>1, <1>2, <1>3 DEF Read

LEMMA UsedTyped ==
    ASSUME PathsTyped
    PROVE  Used \in Seq(PartNames \cup {Up})
<1>1. PICK D : D = PartNames \cup {Up}
  OBVIOUS
<1>2. parts \in Seq(D) /\ active \in Nat /\ active <= Len(parts)
  BY <1>1 DEF PathsTyped
<1>3. \A i \in 1..active : parts[i] \in D
  BY <1>2
<1>4. SubSeq(parts, 1, active) \in Seq(D)
  BY <1>2, <1>3, SubSeqProperties
<1> QED BY <1>1, <1>4 DEF Used

LEMMA UsedLeads ==
    ASSUME PathsTyped, NEW d \in Paths!Directories
    PROVE  Paths!Walk(Paths!From(path, d), Used) \in Seq(PathNames)
<1>1. PartNames \cup {Up} \subseteq PathNames
  BY DEF PathNames, Paths!Part
<1> QED BY <1>1, UsedTyped, FromTyped, WalkTyped

(* An iteration of normalizePath keeps where the path leads. *)
LEMMA NormalizeLeads ==
    ASSUME PathsInv, Paths!PartsAssumption, Paths!NormalizePart, NEW d \in Paths!Directories
    PROVE  Paths!Walk(Paths!From(path, d), SubSeq(parts', 1, active'))
              = Paths!Walk(Paths!From(path, d), SubSeq(path.items, 1, position))
<1> DEFINE part == path.items[position]
           from == Paths!From(path, d)
<1>1. PathsTyped /\ UpComesFirst /\ PrefixLeads /\ position <= Len(path.items) /\ stage # "failed"
  BY DEF PathsInv, Paths!NormalizePart
<1>2. part \in Paths!Part /\ Read \in Seq(Paths!Part)
      /\ SubSeq(path.items, 1, position) = Append(Read, part)
  BY <1>1, ReadOn
<1>3. Paths!Walk(from, Used) = Paths!Walk(from, Read)
  BY <1>1 DEF PrefixLeads
<1> HIDE DEF part, from
<1>4. Paths!Walk(from, Append(Read, part)) = Go(Paths!Walk(from, Used), part)
  BY <1>2, <1>3, WalkAppend
<1>5. Used \in Seq(PartNames \cup {Up}) /\ Paths!Walk(from, Used) \in Seq(PathNames)
  BY <1>1, UsedTyped, UsedLeads DEF from
<1>6. active \in Nat /\ active <= Len(parts) /\ parts \in Seq(PartNames \cup {Up})
  BY <1>1 DEF PathsTyped
<1>7. CASE part = Up /\ Paths!TakesBack /\ active' = active - 1 /\ UNCHANGED parts
  <2>1. PICK k \in Nat : active = k + 1 /\ k < Len(parts) /\ parts[k + 1] # Up
    BY <1>6, <1>7, active - 1 \in Nat DEF Paths!TakesBack
  <2>2. PICK D : D = PartNames \cup {Up}
    OBVIOUS
  <2>3. /\ SubSeq(parts, 1, k) \in Seq(D) /\ parts[k + 1] \in D
        /\ SubSeq(parts, 1, k + 1) = Append(SubSeq(parts, 1, k), parts[k + 1])
    BY <1>6, <2>1, <2>2, BeginsWith
  <2>4. parts[k + 1] \in PartNames /\ Used = Append(SubSeq(parts, 1, k), parts[k + 1])
    BY <2>1, <2>2, <2>3 DEF Used
  <2>5. Paths!Walk(from, SubSeq(parts, 1, k)) \in Seq(PathNames)
    <3>1. D \subseteq PathNames /\ from \in Seq(PathNames)
      BY <2>2, FromTyped DEF PathNames, Paths!Part, from
    <3> QED BY <2>3, <3>1, WalkTyped
  <2>6. Paths!Walk(from, Used) = Go(Paths!Walk(from, SubSeq(parts, 1, k)), parts[k + 1])
    BY <2>3, <2>4, WalkAppend
  <2>7. Go(Paths!Walk(from, Used), Up) = Paths!Walk(from, SubSeq(parts, 1, k))
    <3>1. PICK w \in Seq(PathNames) : w = Paths!Walk(from, SubSeq(parts, 1, k))
      BY <2>5
    <3>2. Go(w, parts[k + 1]) = Append(w, parts[k + 1]) /\ Go(Append(w, parts[k + 1]), Up) = w
      BY <2>4, UpLeadsBack
    <3> QED BY ONLY <2>6, <3>1, <3>2
  <2>8. parts' = parts /\ active' = k
    BY <1>7, <2>1
  <2> QED BY <1>2, <1>4, <1>7, <2>7, <2>8 DEF from
<1>8. CASE /\ (part = Up /\ ~Paths!TakesBack /\ Paths!KeepsUp) \/ part \in PartNames
           /\ parts' = Paths!Kept(part) /\ active' = active + 1
  <2>1. part \in PartNames \cup {Up}
    BY <1>8
  <2>2. SubSeq(Paths!Kept(part), 1, active + 1) = Append(Used, part)
    BY <1>1, <2>1, KeptPart
  <2>3. Paths!Walk(from, Append(Used, part)) = Go(Paths!Walk(from, Used), part)
    BY <1>5, <2>1, WalkAppend
  <2> QED BY <1>2, <1>4, <1>8, <2>2, <2>3 DEF from
<1>9. CASE /\ (part = Up /\ ~Paths!TakesBack /\ ~Paths!KeepsUp) \/ part \in {Here, Blank}
           /\ UNCHANGED <<parts, active>>
  <2>1. CASE part \in {Here, Blank}
    <3>1. Go(Paths!Walk(from, Used), part) = Paths!Walk(from, Used)
      BY <2>1 DEF Go
    <3> QED BY <1>2, <1>4, <1>9, <3>1 DEF from, Used
  <2>2. CASE part = Up /\ ~Paths!TakesBack /\ ~Paths!KeepsUp
    <3>1. path.absolute /\ active = 0
      <4>1. path.absolute /\ (active = 0 \/ parts[active] = Up)
        BY <1>6, <2>2 DEF Paths!TakesBack, Paths!KeepsUp
      <4>2. active # 0 => active \in 1..active
        BY <1>6
      <4> QED BY <1>1, <4>1, <4>2 DEF UpComesFirst
    <3>2. from = <<>> /\ Used = <<>>
      BY <3>1, SubSeqEmpty DEF from, Paths!From, Used
    <3>3. Paths!Walk(from, Used) = <<>>
      BY <3>2, WalkEmpty
    <3>4. Go(<<>>, Up) = <<>>
      BY DEF Go
    <3> QED BY <1>2, <1>4, <1>9, <2>2, <3>3, <3>4 DEF from, Used
  <2> QED BY <1>9, <2>1, <2>2
<1> QED BY <1>7, <1>8, <1>9 DEF Paths!NormalizePart, part

LEMMA NormalizeKeeps ==
    ASSUME PathsInv, Paths!PartsAssumption, Paths!NormalizePart
    PROVE  PathsInv'
<1> DEFINE part == path.items[position]
<1>1. /\ PathsTyped /\ EndInNames /\ UpComesFirst /\ JoinLeads
      /\ stage \in {"importer", "module"} /\ position <= Len(path.items) /\ position' = position + 1
      /\ UNCHANGED <<importer, specifier, stage, path, result>>
  BY DEF PathsInv, Paths!NormalizePart
<1>2. part \in Paths!Part
  BY <1>1, ReadOn
<1>3. active \in Nat /\ active <= Len(parts) /\ parts \in Seq(PartNames \cup {Up})
      /\ position \in Nat /\ 1 <= position
  BY <1>1 DEF PathsTyped
<1>4. Up \notin PartNames /\ Here \notin PartNames /\ Blank \notin PartNames
  BY DEF Paths!PartsAssumption
<1> HIDE DEF part
<1>5. /\ parts' \in Seq(PartNames \cup {Up}) /\ active' \in Nat /\ active' <= Len(parts')
      /\ part \in PartNames => active' > 0 /\ parts'[active'] = part
      /\ \A i \in 1..active' :
            parts'[i] = Up => ~path.absolute /\ \A j \in 1..i : parts'[j] = Up
  <2>1. CASE part = Up /\ Paths!TakesBack /\ active' = active - 1 /\ UNCHANGED parts
    <3>1. active > 0 /\ parts' = parts
      BY <2>1 DEF Paths!TakesBack
    <3>2. \A i \in 1..active' : i \in 1..active
      BY <1>3, <2>1
    <3> QED BY <1>1, <1>3, <1>4, <2>1, <3>1, <3>2 DEF UpComesFirst
  <2>2. CASE /\ (part = Up /\ ~Paths!TakesBack /\ Paths!KeepsUp) \/ part \in PartNames
             /\ parts' = Paths!Kept(part) /\ active' = active + 1
    <3>1. part \in PartNames \cup {Up}
      BY <2>2
    <3>2. /\ parts' \in Seq(PartNames \cup {Up}) /\ active' <= Len(parts')
          /\ parts'[active + 1] = part /\ \A i \in 1..active : parts'[i] = parts[i]
      BY <1>1, <2>2, <3>1, KeptPart
    <3>3. ASSUME NEW i \in 1..active', parts'[i] = Up
          PROVE  ~path.absolute /\ \A j \in 1..i : parts'[j] = Up
      <4>1. CASE i \in 1..active
        <5>1. \A j \in 1..i : j \in 1..active
          BY <1>3, <4>1
        <5> QED BY <1>1, <3>2, <3>3, <4>1, <5>1 DEF UpComesFirst
      <4>2. CASE i \notin 1..active
        <5>1. i = active + 1 /\ part = Up
          BY <1>3, <2>2, <3>2, <3>3, <4>2
        <5>2. ~path.absolute /\ (active = 0 \/ parts[active] = Up)
          BY <1>3, <1>4, <2>2, <5>1 DEF Paths!TakesBack, Paths!KeepsUp
        <5>3. \A j \in 1..active : parts[j] = Up
          <6>1. active # 0 => active \in 1..active
            BY <1>3
          <6> QED BY <1>1, <1>3, <5>2, <6>1 DEF UpComesFirst
        <5>4. \A j \in 1..i : j \in 1..active \/ j = active + 1
          BY <1>3, <5>1
        <5> QED BY <3>2, <5>1, <5>2, <5>3, <5>4
      <4> QED BY <4>1, <4>2
    <3> QED BY <1>3, <2>2, <3>2, <3>3
  <2>3. CASE /\ (part = Up /\ ~Paths!TakesBack /\ ~Paths!KeepsUp) \/ part \in {Here, Blank}
             /\ UNCHANGED <<parts, active>>
    <3>1. part \notin PartNames
      BY <1>4, <2>3
    <3>2. parts' = parts /\ active' = active
      BY <2>3
    <3> QED BY <1>1, <1>3, <3>1, <3>2 DEF UpComesFirst
  <2> QED BY <2>1, <2>2, <2>3 DEF Paths!NormalizePart, part
<1>6. PathsTyped'
  BY <1>1, <1>3, <1>5 DEF PathsTyped, Paths!Path
<1>7. EndInNames'
  <2>1. position' - 1 = position
    BY <1>1, <1>3
  <2> QED BY <1>1, <1>5, <2>1 DEF EndInNames, part
<1>8. UpComesFirst'
  BY <1>1, <1>5 DEF UpComesFirst
<1>9. PrefixLeads'
  <2>1. position' - 1 = position
    BY <1>1, <1>3
  <2>2. \A d \in Paths!Directories :
            Paths!Walk(Paths!From(path, d), SubSeq(parts', 1, active'))
               = Paths!Walk(Paths!From(path, d), SubSeq(path.items, 1, position))
    BY NormalizeLeads
  <2> QED BY <1>1, <2>1, <2>2 DEF PrefixLeads, Used, Read, Paths!From
<1>10. JoinLeads'
  BY <1>1 DEF JoinLeads, Paths!From
<1> QED BY <1>1, <1>6, <1>7, <1>8, <1>9, <1>10 DEF PathsInv

LEMMA FinishKeeps ==
    ASSUME PathsInv, Paths!Finish
    PROVE  PathsInv'
<1>1. /\ PathsTyped /\ EndInNames /\ UpComesFirst /\ PrefixLeads /\ JoinLeads
      /\ stage = "module" /\ position > Len(path.items)
      /\ result' = Paths!Written /\ stage' = "done"
      /\ UNCHANGED <<importer, specifier, path, parts, active, position>>
  BY DEF PathsInv, Paths!Finish
<1>2. Paths!Written \in Paths!Path
  <2>1. path.drive \in BOOLEAN /\ path.absolute \in BOOLEAN
    BY <1>1 DEF PathsTyped, Paths!Path
  <2>2. SubSeq(parts, 1, active) \in Seq(Paths!Part)
    <3>1. PICK D : D = Paths!Part
      OBVIOUS
    <3>2. active \in Nat /\ \A i \in 1..active : parts[i] \in D
      BY <1>1, <3>1 DEF PathsTyped, Paths!Part
    <3> QED BY <3>1, <3>2, SubSeqProperties
  <2> QED BY <2>1, <2>2 DEF Paths!Written, Paths!Path
<1>3. PathsTyped'
  BY <1>1, <1>2 DEF PathsTyped
<1>4. position = Len(path.items) + 1
  <2>1. Len(path.items) \in Nat
    BY <1>1 DEF PathsTyped, Paths!Path
  <2> QED BY <1>1, <2>1 DEF PathsTyped
<1>5. Paths!Written' = Paths!Written
  BY <1>1 DEF Paths!Written
<1>6. EndInNames' /\ UpComesFirst'
  BY <1>1 DEF EndInNames, UpComesFirst
<1>7. PrefixLeads'
  BY <1>1 DEF PrefixLeads, Used, Read, Paths!From
<1>8. JoinLeads'
  BY <1>1 DEF JoinLeads, Paths!From
<1> QED BY <1>1, <1>3, <1>4, <1>5, <1>6, <1>7, <1>8 DEF PathsInv

(* The importer when it is normalised: it ends in a name, in a directory   *)
(* that is U.                                                              *)
LEMMA ImporterRead ==
    ASSUME PathsInv, Paths!PartsAssumption, stage = "importer", position > Len(path.items)
    PROVE  \E U \in Seq(PartNames \cup {Up}), n \in PartNames :
              /\ Used = Append(U, n) /\ active = Len(U) + 1
              /\ \A d \in Paths!Directories :
                    Paths!Front(Paths!Walk(Paths!From(importer, d), importer.items))
                       = Paths!Walk(Paths!From(importer, d), U)
<1>1. PathsTyped /\ EndInNames /\ PrefixLeads /\ path = importer
  BY DEF PathsInv
<1>2. /\ path.items \in Seq(Paths!Part) /\ Len(path.items) \in Nat /\ path.items # <<>>
      /\ position = Len(path.items) + 1
  <2>1. path.items \in Seq(Paths!Part) /\ path.items # <<>>
    BY <1>1 DEF PathsTyped, Paths!Path, EndInNames
  <2>2. Len(path.items) \in Nat
    BY <2>1, LenProperties
  <2>3. position \in Nat /\ position <= Len(path.items) + 1
    BY <1>1 DEF PathsTyped
  <2> QED BY <2>1, <2>2, <2>3
<1>3. Len(path.items) > 0
  BY <1>2, EmptySeq
<1>4. active > 0 /\ parts[active] \in PartNames
  <2>1. position > 1 /\ position - 1 = Len(path.items)
    BY <1>2, <1>3
  <2> QED BY <1>1, <2>1 DEF EndInNames
<1>5. Read = path.items
  <2>1. position - 1 = Len(path.items)
    BY <1>2
  <2> QED BY <1>2, <2>1, SubSeqFull DEF Read
<1>6. PICK k \in Nat : active = k + 1 /\ k < Len(parts)
  <2>1. active \in Nat /\ active <= Len(parts) /\ Len(parts) \in Nat
    BY <1>1 DEF PathsTyped
  <2>2. active - 1 \in Nat /\ active = (active - 1) + 1 /\ active - 1 < Len(parts)
    BY <1>4, <2>1
  <2> QED BY <2>2
<1>7. PICK D : D = PartNames \cup {Up}
  OBVIOUS
<1> DEFINE U == SubSeq(parts, 1, k)
           n == parts[k + 1]
<1>8. U \in Seq(D) /\ SubSeq(parts, 1, k + 1) = Append(U, n)
  <2>1. parts \in Seq(D)
    BY <1>1, <1>7 DEF PathsTyped
  <2> QED BY <1>6, <2>1, BeginsWith
<1>9. Len(U) = k
  <2>1. \A i \in 1..k : parts[i] \in D
    <3>1. parts \in Seq(D)
      BY <1>1, <1>7 DEF PathsTyped
    <3> QED BY <1>6, <3>1
  <2> QED BY <1>6, <2>1, SubSeqProperties
<1>10. n \in PartNames /\ Used = Append(U, n)
  BY <1>4, <1>6, <1>8 DEF Used
<1> HIDE DEF U, n
<1>11. ASSUME NEW d \in Paths!Directories
       PROVE  Paths!Front(Paths!Walk(Paths!From(importer, d), importer.items))
                 = Paths!Walk(Paths!From(importer, d), U)
  <2> DEFINE from == Paths!From(importer, d)
  <2>1. Paths!Walk(from, importer.items) = Paths!Walk(from, Append(U, n))
    BY <1>1, <1>5, <1>10, stage = "importer" DEF PrefixLeads
  <2>2. D \subseteq PathNames /\ from \in Seq(PathNames) /\ n \in D
    BY <1>7, <1>10, FromTyped DEF PathNames, Paths!Part
  <2> HIDE DEF from
  <2>3. PICK w \in Seq(PathNames) : w = Paths!Walk(from, U)
    BY <1>8, <2>2, WalkTyped
  <2>4. Paths!Walk(from, Append(U, n)) = Go(w, n)
    BY <1>8, <2>2, <2>3, WalkAppend
  <2>5. Go(w, n) = Append(w, n) /\ Go(Append(w, n), Up) = w
    BY <1>10, UpLeadsBack
  <2>6. Go(Append(w, n), Up) = Paths!Front(Append(w, n))
    <3>1. Append(w, n) # <<>> /\ Up \notin {Here, Blank}
      <4>1. n \in PathNames
        BY <2>2
      <4> QED BY <4>1, AppendProperties DEF Paths!PartsAssumption
    <3> QED BY <3>1 DEF Go
  <2>7. Paths!Front(Paths!Walk(from, importer.items)) = Paths!Walk(from, U)
    BY ONLY <2>1, <2>3, <2>4, <2>5, <2>6
  <2> QED BY <2>7 DEF from
<1> QED BY <1>6, <1>7, <1>8, <1>9, <1>10, <1>11

(* The joined path leads where the specifier leads from the directory U.   *)
LEMMA JoinedLeads ==
    ASSUME Paths!PartsAssumption, NEW U \in Seq(PartNames \cup {Up}), NEW n \in PartNames,
           NEW p \in Paths!Path, p.items = Append(U, n), NEW s \in Seq(Paths!Part), s # <<>>,
           s = specifier
    PROVE  /\ Paths!Joined(p) \in Paths!Path
           /\ Paths!Joined(p).drive = p.drive /\ Paths!Joined(p).absolute = p.absolute
           /\ Paths!Joined(p).items # <<>>
           /\ Paths!Joined(p).items[Len(Paths!Joined(p).items)] = s[Len(s)]
           /\ \A from : Paths!Walk(from, Paths!Joined(p).items)
                           = Paths!Walk(Paths!Walk(from, U), s)
<1>1. PICK D : D = Paths!Part
  OBVIOUS
<1>2. PICK base :
         base = IF p.absolute /\ ~p.drive /\ Len(p.items) = 1 THEN <<Blank>>
                ELSE Paths!Front(p.items)
  OBVIOUS
<1>3. U \in Seq(D) /\ n \in D /\ s \in Seq(D)
  <2>1. PICK E : E = PartNames \cup {Up}
    OBVIOUS
  <2>2. E \subseteq D /\ U \in Seq(E)
    BY <1>1, <2>1 DEF Paths!Part
  <2>3. U \in Seq(D)
    BY ONLY <2>2, SeqMonotonic
  <2> QED BY <1>1, <2>3 DEF Paths!Part
<1>4. Paths!Front(p.items) = U /\ Len(p.items) = Len(U) + 1
  <2>1. Append(U, n) \in Seq(D) /\ Len(Append(U, n)) = Len(U) + 1
        /\ \A i \in 1..Len(U) : Append(U, n)[i] = U[i]
    BY <1>3, AppendProperties
  <2>2. SubSeq(Append(U, n), 1, Len(U)) = U
    BY <1>3
  <2>3. Paths!Front(Append(U, n)) = SubSeq(Append(U, n), 1, Len(U))
    BY <1>3, <2>1 DEF Paths!Front
  <2> QED BY <2>1, <2>2, <2>3
<1>5. base \in Seq(D)
  <2>1. <<Blank>> \in Seq(D)
    BY <1>1 DEF Paths!Part
  <2> QED BY <1>2, <1>3, <1>4, <2>1
<1>6. ASSUME NEW from PROVE Paths!Walk(from, base) = Paths!Walk(from, U)
  <2>1. CASE base = U
    BY <2>1
  <2>2. CASE base # U
    <3>1. base = <<Blank>> /\ Len(U) + 1 = 1
      BY <1>2, <1>4, <2>2
    <3>2. U = <<>>
      BY <1>3, <3>1, EmptySeq, LenProperties
    <3>3. Go(from, Blank) = from
      BY DEF Go
    <3> QED BY <3>1, <3>2, <3>3, WalkEmpty, WalkOne
  <2> QED BY <2>1, <2>2
<1>7. Paths!Joined(p) = [p EXCEPT !.items = base \o s]
  BY <1>2 DEF Paths!Joined
<1>8. /\ base \o s \in Seq(D) /\ Len(base \o s) = Len(base) + Len(s)
      /\ \A i \in 1..Len(s) : (base \o s)[Len(base) + i] = s[i]
  BY <1>3, <1>5, ConcatProperties
<1>9. Len(base) \in Nat /\ Len(s) \in Nat /\ Len(s) > 0
  <2>1. Len(s) \in Nat \ {0}
    BY ONLY <1>3, s # <<>>, EmptySeq
  <2> QED BY <1>5, <2>1, LenProperties
<1>10. /\ p.drive \in BOOLEAN /\ p.absolute \in BOOLEAN
       /\ Paths!Joined(p) = [drive |-> p.drive, absolute |-> p.absolute, items |-> base \o s]
  BY <1>7 DEF Paths!Path
<1>11. Paths!Joined(p) \in Paths!Path
  BY <1>1, <1>8, <1>10 DEF Paths!Path
<1>12. (base \o s)[Len(base \o s)] = s[Len(s)] /\ base \o s # <<>>
  <2>1. Len(s) \in 1..Len(s) /\ Len(base \o s) > 0
    BY <1>8, <1>9
  <2> QED BY <1>8, <2>1, EmptySeq
<1>13. \A from : Paths!Walk(from, base \o s) = Paths!Walk(Paths!Walk(from, U), s)
  BY <1>3, <1>5, <1>6, WalkOn
<1> QED BY <1>10, <1>11, <1>12, <1>13

LEMMA ResolveKeeps ==
    ASSUME PathsInv, Paths!PartsAssumption, Paths!Resolve
    PROVE  PathsInv'
<1>1. /\ PathsTyped /\ EndInNames /\ stage = "importer" /\ path = importer
      /\ position > Len(path.items)
      /\ parts' = <<>> /\ active' = 0 /\ position' = 1
      /\ UNCHANGED <<importer, specifier, result>>
  BY DEF PathsInv, Paths!Resolve
<1>2. Used' = <<>> /\ Read' = <<>> /\ UpComesFirst'
  BY <1>1, SubSeqEmpty DEF Used, Read, UpComesFirst
<1>3. PrefixLeads'
  BY <1>2 DEF PrefixLeads
<1>4. CASE stage' = "failed" /\ path' = path
  <2>1. Len(path.items) \in Nat
    BY <1>1 DEF PathsTyped, Paths!Path
  <2>2. PathsTyped'
    BY <1>1, <1>4, <2>1 DEF PathsTyped, Paths!Path
  <2>3. EndInNames' /\ JoinLeads'
    BY <1>1, <1>4 DEF EndInNames, JoinLeads
  <2> QED BY <1>2, <1>3, <1>4, <2>2, <2>3 DEF PathsInv
<1>5. CASE path' = Paths!Joined(Paths!Written) /\ stage' = "module"
  <2>1. PICK U \in Seq(PartNames \cup {Up}), n \in PartNames :
            /\ Used = Append(U, n) /\ active = Len(U) + 1
            /\ \A d \in Paths!Directories :
                  Paths!Front(Paths!Walk(Paths!From(importer, d), importer.items))
                     = Paths!Walk(Paths!From(importer, d), U)
    BY <1>1, ImporterRead
  <2>2. PICK p : p = Paths!Written
    OBVIOUS
  <2>3. /\ p = [drive |-> importer.drive,
                absolute |-> importer.absolute \/ (importer.drive /\ active > 0),
                items |-> Used]
        /\ importer.drive \in BOOLEAN /\ importer.absolute \in BOOLEAN
    BY <1>1, <2>2 DEF Paths!Written, Used, PathsTyped, Paths!Path
  <2>4. active > 0
    BY <2>1, LenProperties
  <2>5. p \in Paths!Path
    <3>1. Used \in Seq(Paths!Part)
      <4>1. PICK E : E = PartNames \cup {Up}
        OBVIOUS
      <4>2. PICK D : D = Paths!Part
        OBVIOUS
      <4>3. Used \in Seq(E) /\ E \subseteq D
        BY <1>1, <4>1, <4>2, UsedTyped DEF Paths!Part
      <4> QED BY ONLY <4>2, <4>3, SeqMonotonic
    <3> QED BY <2>3, <3>1 DEF Paths!Path
  <2>6. /\ specifier \in Seq(Paths!Part) /\ specifier # <<>>
        /\ specifier[Len(specifier)] \in PartNames
    BY <1>1 DEF PathsTyped, EndInNames
  <2>7. /\ Paths!Joined(p) \in Paths!Path
        /\ Paths!Joined(p).drive = p.drive /\ Paths!Joined(p).absolute = p.absolute
        /\ Paths!Joined(p).items # <<>>
        /\ Paths!Joined(p).items[Len(Paths!Joined(p).items)] = specifier[Len(specifier)]
        /\ \A from : Paths!Walk(from, Paths!Joined(p).items)
                        = Paths!Walk(Paths!Walk(from, U), specifier)
    <3>1. p.items = Append(U, n)
      BY <2>1, <2>3
    <3> QED BY <2>5, <2>6, <3>1, JoinedLeads
  <2>8. path' = Paths!Joined(p)
    BY <1>5, <2>2
  <2>9. PathsTyped'
    <3>1. Len(Paths!Joined(p).items) \in Nat
      BY <2>7 DEF Paths!Path
    <3> QED BY <1>1, <1>5, <2>7, <2>8, <3>1 DEF PathsTyped
  <2>10. EndInNames'
    BY <1>1, <2>6, <2>7, <2>8 DEF EndInNames
  <2>11. JoinLeads'
    <3>1. path'.drive = importer.drive /\ path'.absolute = (importer.absolute \/ importer.drive)
      BY <2>3, <2>4, <2>7, <2>8
    <3>2. ASSUME importer.drive => importer.absolute
          PROVE  /\ path'.absolute = importer.absolute
                 /\ \A d \in Paths!Directories :
                       Paths!Walk(Paths!From(path', d), path'.items)
                           = Paths!Walk(Paths!Front(Paths!Walk(Paths!From(importer, d),
                                                               importer.items)), specifier)
      <4>1. path'.absolute = importer.absolute
        BY <2>3, <3>1, <3>2
      <4>2. \A d \in Paths!Directories : Paths!From(path', d) = Paths!From(importer, d)
        BY <4>1 DEF Paths!From
      <4> QED BY <2>1, <2>7, <2>8, <4>1, <4>2
    <3>3. path'.drive => path'.absolute
      BY <2>3, <3>1
    <3> QED BY <1>1, <3>2, <3>3 DEF JoinLeads, Paths!From
  <2> QED BY <1>2, <1>3, <1>5, <2>9, <2>10, <2>11 DEF PathsInv
<1> QED BY <1>4, <1>5 DEF Paths!Resolve

LEMMA PathsKept ==
    ASSUME PathsInv, Paths!PartsAssumption, Paths!Next \/ UNCHANGED pathVars
    PROVE  PathsInv'
<1>1. CASE UNCHANGED pathVars
  <2>1. UNCHANGED <<importer, specifier, stage, path, parts, active, position, result>>
    BY <1>1 DEF pathVars
  <2>2. PathsTyped' /\ EndInNames' /\ UpComesFirst'
    BY <2>1 DEF PathsInv, PathsTyped, EndInNames, UpComesFirst
  <2>3. PrefixLeads' /\ JoinLeads'
    BY <2>1 DEF PathsInv, PrefixLeads, JoinLeads, Used, Read, Paths!From
  <2>4. Paths!Written' = Paths!Written
    BY <2>1 DEF Paths!Written
  <2> QED BY <2>1, <2>2, <2>3, <2>4 DEF PathsInv
<1> QED BY <1>1, NormalizeKeeps, ResolveKeeps, FinishKeeps DEF Paths!Next

LEMMA PathsAreSound == Paths!PartsAssumption /\ PathsInv => PathsSound
<1> SUFFICES ASSUME Paths!PartsAssumption, PathsInv PROVE PathsSound
  OBVIOUS
<1>1. /\ PathsTyped /\ EndInNames /\ UpComesFirst /\ PrefixLeads /\ JoinLeads
      /\ stage = "done" => position = Len(path.items) + 1 /\ result = Paths!Written
  BY DEF PathsInv
<1>2. Paths!TypeOK
  <2>1. Len(path.items) \in Nat /\ Len(parts) \in Nat
    BY <1>1 DEF PathsTyped, Paths!Path
  <2> QED BY <1>1, <2>1 DEF PathsTyped, Paths!TypeOK
<1>3. Paths!PrefixExact
  BY <1>1 DEF Paths!PrefixExact, PrefixLeads, Used, Read
<1>4. ASSUME stage = "done"
      PROVE  /\ result.items = Used /\ result.absolute = path.absolute
             /\ Read = path.items
  <2>1. result = Paths!Written /\ path.drive \in BOOLEAN /\ path.absolute \in BOOLEAN
    BY <1>1, <1>4 DEF PathsTyped, Paths!Path
  <2>2. path.drive => path.absolute
    BY <1>1, <1>4 DEF JoinLeads
  <2>3. path.items \in Seq(Paths!Part) /\ position - 1 = Len(path.items)
    <3>1. path.items \in Seq(Paths!Part)
      BY <1>1 DEF PathsTyped, Paths!Path
    <3>2. Len(path.items) \in Nat
      BY <3>1, LenProperties
    <3> QED BY <1>1, <1>4, <3>1, <3>2
  <2>4. Read = path.items
    BY <2>3, SubSeqFull DEF Read
  <2> QED BY <2>1, <2>2, <2>4 DEF Paths!Written, Used
<1>5. Paths!ResolvesFromImporter
  <2> SUFFICES ASSUME stage = "done", importer.drive => importer.absolute,
                      NEW d \in Paths!Directories
               PROVE  Paths!Walk(Paths!From(result, d), result.items)
                        = Paths!Walk(Paths!Front(Paths!Walk(Paths!From(importer, d),
                                                            importer.items)), specifier)
    BY DEF Paths!ResolvesFromImporter
  <2>1. Paths!From(result, d) = Paths!From(path, d)
    BY <1>4 DEF Paths!From
  <2>2. Paths!Walk(Paths!From(path, d), Used) = Paths!Walk(Paths!From(path, d), path.items)
    BY <1>1, <1>4 DEF PrefixLeads
  <2> QED BY <1>1, <1>4, <2>1, <2>2 DEF JoinLeads
<1>6. Paths!NormalForm
  <2> SUFFICES ASSUME stage = "done", NEW i \in 1..Len(result.items)
               PROVE  /\ result.items[i] \in PartNames \cup {Up}
                      /\ result.items[i] = Up =>
                            ~result.absolute /\ \A j \in 1..i : result.items[j] = Up
    BY DEF Paths!NormalForm
  <2>1. PICK D : D = PartNames \cup {Up}
    OBVIOUS
  <2>2. active \in Nat /\ \A k \in 1..active : parts[k] \in D
    BY <1>1, <2>1 DEF PathsTyped
  <2>3. Len(Used) = active /\ \A k \in 1..active : Used[k] = parts[k]
    <3>1. /\ Len(SubSeq(parts, 1, active)) = IF 1 <= active THEN active - 1 + 1 ELSE 0
          /\ \A k \in 1..(active - 1 + 1) : SubSeq(parts, 1, active)[k] = parts[1 + k - 1]
      BY <2>2, SubSeqProperties
    <3>2. Len(SubSeq(parts, 1, active)) = active
      BY ONLY <2>2, <3>1
    <3>3. \A k \in 1..active : k \in 1..(active - 1 + 1) /\ 1 + k - 1 = k
      BY ONLY <2>2
    <3> QED BY <3>1, <3>2, <3>3 DEF Used
  <2>4. i \in 1..active /\ \A j \in 1..i : j \in 1..active
    BY <1>4, <2>2, <2>3
  <2> QED BY <1>1, <1>4, <2>1, <2>2, <2>3, <2>4 DEF UpComesFirst
<1> QED BY <1>2, <1>3, <1>5, <1>6 DEF PathsSound, Paths!PathsSound

(* normalizePath and resolveModulePath give a module one name, and that    *)
(* names the file that its importer means, from every directory and for    *)
(* paths of any length.                                                    *)
THEOREM PathsNameTheirFiles == FrontSpec => []PathsSound
<1>1. FrontInit => PathsInv
  BY PathsStart, PathsAssumption DEF FrontInit
<1>2. PathsInv /\ [FrontNext]_frontVars => PathsInv'
  <2>1. [FrontNext]_frontVars => Paths!Next \/ UNCHANGED pathVars
    BY DEF FrontNext, SymbolsPass, PathsPass, ModulesPass, frontVars
  <2> QED BY <2>1, PathsKept, PathsAssumption
<1>3. PathsInv => PathsSound
  BY PathsAreSound, PathsAssumption
<1> QED BY <1>1, <1>2, <1>3, PTL DEF FrontSpec

-----------------------------------------------------------------------------
(***************************************************************************)
(* Loading modules.                                                        *)
(***************************************************************************)
Mod == 1..Len(modulePaths)
CallType == [module : Nat, alias : Aliases \cup {Loader!NoAlias}]
ImportType == [owner : Nat, alias : Aliases, target : Nat]

LoaderTyped ==
    /\ loading \in {"load", "single", "collect", "ready", "failed"}
    /\ modulePaths \in Seq(Files \ Absent)
    /\ moduleStates \in Seq({1, 2}) /\ Len(moduleStates) = Len(modulePaths)
    /\ contents \in Seq(Seq(Loader!Item)) /\ Len(contents) = Len(modulePaths)
    /\ stack \in Seq(CallType) /\ \A i \in DOMAIN stack : stack[i].module \in Mod
    /\ imports \in Seq(ImportType)
    /\ \A i \in DOMAIN imports : imports[i].owner \in Mod /\ imports[i].target \in Mod
    /\ cycle \in Seq(Files)

OnePathEach == \A m, n \in Mod : modulePaths[m] = modulePaths[n] => m = n

(* The import that call i of loadModule is for. *)
UseOf(i) == [use |-> modulePaths[stack[i].module], alias |-> stack[i].alias]

(* The modules that are marked 1 are those of the calls in progress, and   *)
(* each call is for an import that the call around it has read.            *)
CallsNested ==
    /\ stack # <<>>
    /\ \A i, j \in DOMAIN stack : i < j => stack[i].module < stack[j].module
    /\ \A m \in Mod : moduleStates[m] = 1 <=> \E i \in DOMAIN stack : stack[i].module = m
    /\ \A i \in DOMAIN stack : i > 1 => UseOf(i) \in Loader!Uses(stack[i - 1].module)
    /\ reference = Loader!None

(* The rows of the table are imports of modules that are read completely,  *)
(* and every import has its row, or waits for the call it made.            *)
HasRow(m, u) ==
    \E i \in DOMAIN imports :
        imports[i].owner = m /\ imports[i].alias = u.alias
        /\ modulePaths[imports[i].target] = u.use
Waits(m, u) ==
    loading = "load" /\ \E i \in DOMAIN stack : i > 1 /\ stack[i - 1].module = m /\ u = UseOf(i)

TableTrue ==
    /\ \A i \in DOMAIN imports :
          /\ [use |-> modulePaths[imports[i].target], alias |-> imports[i].alias]
                \in Loader!Uses(imports[i].owner)
          /\ moduleStates[imports[i].target] = 2
    /\ \A m \in Mod : \A u \in Loader!Uses(m) : HasRow(m, u) \/ Waits(m, u)

(* In every set of modules read completely one has no row to another. *)
ClosedAcyclic ==
    \A S \in SUBSET Mod :
        (S # {} /\ \A m \in S : moduleStates[m] = 2)
            => \E f \in S : \A i \in DOMAIN imports :
                  ~(imports[i].owner = f /\ imports[i].target \in S)

AliasesDiffer ==
    \A m \in Mod : \A i, j \in DOMAIN contents[m] :
        (i # j /\ contents[m][i] \in Loader!Use /\ contents[m][j] \in Loader!Use)
            => contents[m][i].alias # contents[m][j].alias

OnlyEntryExecutes ==
    \A m \in Mod : m # 1 => \A i \in DOMAIN contents[m] : contents[m][i] \notin Loader!Statement

DeclaredOnce ==
    \A m \in Mod : \A i, j \in DOMAIN contents[m] :
        (i # j /\ contents[m][i] \in Loader!Declaration /\ contents[m][j] \in Loader!Declaration)
            => \/ contents[m][i].name # contents[m][j].name
               \/ contents[m][i].kind # contents[m][j].kind

(* What holds until the compiler stops. *)
Accepted ==
    /\ loading = "load" => CallsNested
    /\ TableTrue /\ ClosedAcyclic /\ AliasesDiffer /\ OnlyEntryExecutes
    /\ failure = "none"
    /\ loading # "load" => \A m \in Mod : moduleStates[m] = 2
    /\ loading = "ready" => DeclaredOnce

(* The inductive invariant. *)
LoaderSound ==
    /\ LoaderTyped /\ OnePathEach
    /\ loading # "failed" => Accepted
    /\ Loader!CycleIsReal /\ Loader!DuplicateIsReal /\ Loader!ReferencesRight

(* What is read is of one kind. *)
LEMMA ItemKinds ==
    ASSUME NEW item
    PROVE  /\ item \in Loader!Declaration => item \notin Loader!Use /\ item \notin Loader!Statement
           /\ item \in Loader!Statement => item \notin Loader!Use
<1>1. item \in Loader!Declaration => DOMAIN item = {"name", "kind", "public"}
  BY DEF Loader!Declaration
<1>2. item \in Loader!Statement => DOMAIN item = {"statement"}
  BY DEF Loader!Statement
<1>3. item \in Loader!Use => DOMAIN item = {"use", "alias"}
  BY DEF Loader!Use
<1> QED BY <1>1, <1>2, <1>3

(* An item is read from the file top. *)
ItemRead(top, item) ==
    /\ top \in Mod /\ contents[top] \in Seq(Loader!Item)
    /\ contents'[top] = Append(contents[top], item)
    /\ \A m \in Mod : m # top => contents'[m] = contents[m]

(* The file is that of the innermost call. *)
LEMMA ReadAdds ==
    ASSUME LoaderTyped, stack # <<>>, NEW item \in Loader!Item,
           NEW read, read = [contents EXCEPT ![Loader!Top] = Append(@, item)]
    PROVE  /\ Loader!Top = stack[Len(stack)].module /\ Loader!Top \in Mod
           /\ Len(stack) \in DOMAIN stack
           /\ read \in Seq(Seq(Loader!Item)) /\ Len(read) = Len(modulePaths)
           /\ contents[Loader!Top] \in Seq(Loader!Item)
           /\ read[Loader!Top] = Append(contents[Loader!Top], item)
           /\ \A m \in Mod : m # Loader!Top => read[m] = contents[m]
<1> DEFINE top == Loader!Top
<1>1. Len(stack) \in DOMAIN stack /\ Len(modulePaths) \in Nat
  BY DEF LoaderTyped
<1>2. top = stack[Len(stack)].module /\ top \in Mod
  BY <1>1 DEF LoaderTyped, Loader!Top, Loader!Last
<1> HIDE DEF top
<1>3. top \in 1..Len(contents) /\ contents \in Seq(Seq(Loader!Item)) /\ Len(contents) = Len(modulePaths)
  BY <1>2 DEF LoaderTyped, Mod
<1>4. contents[top] \in Seq(Loader!Item)
  BY <1>3, ElementOfSeq
<1>5. PICK new : new = Append(contents[top], item)
  OBVIOUS
<1>6. new \in Seq(Loader!Item)
  BY <1>4, <1>5, AppendProperties
<1>7. read = [contents EXCEPT ![top] = new]
  BY <1>5 DEF top
<1>8. read \in Seq(Seq(Loader!Item)) /\ Len(read) = Len(contents)
  <2>1. PICK T : T = Seq(Loader!Item)
    OBVIOUS
  <2>2. contents \in Seq(T) /\ top \in 1..Len(contents) /\ new \in T
    BY <1>3, <1>6, <2>1
  <2>3. read \in Seq(T) /\ Len(read) = Len(contents)
    BY ONLY <1>7, <2>2, ExceptSeq
  <2> QED BY <2>1, <2>3
<1>9. read[top] = new /\ \A m \in Mod : m # top => read[m] = contents[m]
  BY <1>3, <1>7 DEF Mod
<1> QED BY <1>1, <1>2, <1>3, <1>4, <1>5, <1>8, <1>9 DEF top

(* Its imports are then those read before and the item, if it is one. *)
LEMMA UsesGrow ==
    ASSUME NEW top, NEW item, ItemRead(top, item)
    PROVE  /\ \A m \in Mod : m # top => Loader!Uses(m)' = Loader!Uses(m)
           /\ item \in Loader!Use => Loader!Uses(top)' = Loader!Uses(top) \cup {item}
           /\ item \notin Loader!Use => Loader!Uses(top)' = Loader!Uses(top)
<1>1. ASSUME NEW m \in Mod, m # top PROVE Loader!Uses(m)' = Loader!Uses(m)
  BY <1>1 DEF Loader!Uses, ItemRead
<1>2. Loader!Range(contents'[top]) = Loader!Range(contents[top]) \cup {item}
  <2>1. PICK s : s = contents[top]
    OBVIOUS
  <2>2. s \in Seq(Loader!Item)
    BY <2>1 DEF ItemRead
  <2>3. DOMAIN Append(s, item) = 1..(Len(s) + 1) /\ DOMAIN s = 1..Len(s)
        /\ Append(s, item)[Len(s) + 1] = item
        /\ \A i \in 1..Len(s) : Append(s, item)[i] = s[i]
    BY <2>2
  <2>4. Loader!Range(Append(s, item)) = Loader!Range(s) \cup {item}
    BY <2>2, <2>3 DEF Loader!Range
  <2> QED BY <2>1, <2>4 DEF ItemRead
<1> QED BY <1>1, <1>2 DEF Loader!Uses

(* What is read stays legal if the item is. *)
LEMMA StaysLegal ==
    ASSUME AliasesDiffer, OnlyEntryExecutes, NEW top, NEW item, ItemRead(top, item),
           item \in Loader!Use => \A u \in Loader!Uses(top) : u.alias # item.alias,
           item \in Loader!Statement => top = 1
    PROVE  \A m \in Mod :
              /\ \A i, j \in DOMAIN contents'[m] :
                    (i # j /\ contents'[m][i] \in Loader!Use /\ contents'[m][j] \in Loader!Use)
                        => contents'[m][i].alias # contents'[m][j].alias
              /\ m # 1 => \A i \in DOMAIN contents'[m] : contents'[m][i] \notin Loader!Statement
<1> SUFFICES ASSUME NEW m \in Mod
             PROVE  /\ \A i, j \in DOMAIN contents'[m] :
                          (i # j /\ contents'[m][i] \in Loader!Use /\ contents'[m][j] \in Loader!Use)
                             => contents'[m][i].alias # contents'[m][j].alias
                    /\ m # 1 => \A i \in DOMAIN contents'[m] : contents'[m][i] \notin Loader!Statement
  OBVIOUS
<1>1. CASE m # top
  BY <1>1 DEF ItemRead, AliasesDiffer, OnlyEntryExecutes
<1>2. CASE m = top
  <2>1. PICK s, t : s = contents[m] /\ t = contents'[m]
    OBVIOUS
  <2>2. s \in Seq(Loader!Item) /\ t = Append(s, item)
    BY <1>2, <2>1 DEF ItemRead
  <2>3. DOMAIN t = 1..(Len(s) + 1) /\ DOMAIN s = 1..Len(s) /\ Len(s) \in Nat
        /\ t[Len(s) + 1] = item
        /\ \A i \in 1..Len(s) : t[i] = s[i]
    BY <2>2
  <2>4. \A i \in DOMAIN s : s[i] \in Loader!Use => s[i] \in Loader!Uses(top)
    BY <1>2, <2>1 DEF Loader!Uses, Loader!Range
  <2>5. ASSUME NEW i \in DOMAIN t, NEW j \in DOMAIN t, i # j, t[i] \in Loader!Use, t[j] \in Loader!Use
        PROVE  t[i].alias # t[j].alias
    <3>1. CASE i \in DOMAIN s /\ j \in DOMAIN s
      BY <2>1, <2>3, <2>5, <3>1 DEF AliasesDiffer
    <3>2. CASE i \notin DOMAIN s /\ j \in DOMAIN s
      <4>1. t[i] = item /\ t[j] = s[j]
        BY <2>3, <3>2
      <4> QED BY <4>1, <2>4, <2>5, <3>2
    <3>3. CASE i \in DOMAIN s /\ j \notin DOMAIN s
      <4>1. t[j] = item /\ t[i] = s[i]
        BY <2>3, <3>3
      <4> QED BY <4>1, <2>4, <2>5, <3>3
    <3>4. CASE i \notin DOMAIN s /\ j \notin DOMAIN s
      BY <2>3, <2>5, <3>4
    <3> QED BY <3>1, <3>2, <3>3, <3>4
  <2>6. ASSUME m # 1, NEW i \in DOMAIN t PROVE t[i] \notin Loader!Statement
    BY <1>2, <2>1, <2>3, <2>6 DEF OnlyEntryExecutes
  <2> QED BY <2>1, <2>5, <2>6
<1> QED BY <1>1, <1>2

(* A declaration, or a statement of the entry file. *)
LEMMA PlainRead ==
    ASSUME LoaderSound, loading = "load", NEW item \in Loader!Item, item \notin Loader!Use,
           item \in Loader!Statement => Loader!Top = 1, Loader!Read(item),
           UNCHANGED <<loading, modulePaths, moduleStates, stack, imports, failure, cycle, reference>>
    PROVE  LoaderSound'
<1>1. LoaderTyped /\ Accepted /\ CallsNested
  BY DEF LoaderSound, Accepted
<1>2. ItemRead(Loader!Top, item) /\ contents' \in Seq(Seq(Loader!Item))
      /\ Len(contents') = Len(modulePaths)
  BY <1>1, ReadAdds DEF ItemRead, Loader!Read, CallsNested
<1>3. \A m \in Mod : Loader!Uses(m)' = Loader!Uses(m)
  BY <1>2, UsesGrow
<1>4. Mod' = Mod
  BY DEF Mod
<1>5. LoaderTyped'
  BY <1>1, <1>2, <1>4 DEF LoaderTyped
<1>6. OnePathEach'
  BY <1>4 DEF LoaderSound, OnePathEach
<1>7. CallsNested'
  <2>1. \A i \in DOMAIN stack : i > 1 => i - 1 \in DOMAIN stack
    BY <1>1 DEF LoaderTyped
  <2>2. \A i \in DOMAIN stack : i > 1 => stack[i - 1].module \in Mod
    BY <1>1, <2>1 DEF LoaderTyped
  <2>3. \A i \in DOMAIN stack : UseOf(i)' = UseOf(i)
    BY DEF UseOf
  <2> QED BY <1>1, <1>3, <1>4, <2>2, <2>3 DEF CallsNested
<1>8. TableTrue'
  <2>1. TableTrue /\ \A i \in DOMAIN imports : imports[i].owner \in Mod
    BY <1>1 DEF Accepted, LoaderTyped
  <2>2. UNCHANGED <<loading, modulePaths, moduleStates, stack, imports>>
    OBVIOUS
  <2> QED BY ONLY <1>3, <1>4, <2>1, <2>2 DEF TableTrue, HasRow, Waits, UseOf
<1>9. ClosedAcyclic'
  <2>1. ClosedAcyclic /\ imports' = imports /\ moduleStates' = moduleStates
    BY <1>1 DEF Accepted
  <2> QED BY ONLY <1>4, <2>1 DEF ClosedAcyclic
<1>10. AliasesDiffer' /\ OnlyEntryExecutes'
  BY <1>1, <1>2, <1>4, StaysLegal DEF AliasesDiffer, OnlyEntryExecutes, Accepted
<1>11. Accepted'
  BY <1>1, <1>7, <1>8, <1>9, <1>10 DEF Accepted
<1>12. Loader!CycleIsReal' /\ Loader!DuplicateIsReal' /\ Loader!ReferencesRight'
  BY <1>1 DEF Loader!CycleIsReal, Loader!DuplicateIsReal, Loader!ReferencesRight, Accepted, CallsNested
<1> QED BY <1>5, <1>6, <1>11, <1>12 DEF LoaderSound

(* The item that stops the compiler. *)
LEMMA FailedRead ==
    ASSUME LoaderSound, loading = "load", NEW item \in Loader!Item, Loader!Read(item),
           NEW why, Loader!Fail(why), why # "duplicate", cycle' \in Seq(Files),
           why = "cycle" => Loader!CycleIsReal'
    PROVE  LoaderSound'
<1>1. LoaderTyped /\ CallsNested
  BY DEF LoaderSound, Accepted
<1>2. contents' \in Seq(Seq(Loader!Item)) /\ Len(contents') = Len(modulePaths)
  BY <1>1, ReadAdds DEF Loader!Read, CallsNested
<1>3. loading' = "failed" /\ failure' = why
      /\ UNCHANGED <<modulePaths, moduleStates, stack, imports, reference>>
  BY DEF Loader!Fail
<1>4. LoaderTyped'
  BY <1>1, <1>2, <1>3 DEF LoaderTyped, Mod
<1>5. OnePathEach'
  BY <1>3 DEF LoaderSound, OnePathEach, Mod
<1>6. Loader!CycleIsReal' /\ Loader!DuplicateIsReal' /\ Loader!ReferencesRight'
  BY <1>1, <1>3 DEF Loader!CycleIsReal, Loader!DuplicateIsReal, Loader!ReferencesRight, CallsNested
<1> QED BY <1>3, <1>4, <1>5, <1>6 DEF LoaderSound

(* An alias without a row in the table has no import in the file. *)
LEMMA FreshAlias ==
    ASSUME LoaderTyped, Accepted, loading = "load", NEW alias,
           Loader!FindModuleImport(Loader!Top, alias) = {}
    PROVE  \A u \in Loader!Uses(Loader!Top) : u.alias # alias
<1> SUFFICES ASSUME NEW u \in Loader!Uses(Loader!Top), u.alias = alias PROVE FALSE
  OBVIOUS
<1>1. CallsNested /\ TableTrue
  BY DEF Accepted
<1>2. Len(stack) \in DOMAIN stack /\ Loader!Top = stack[Len(stack)].module
  BY <1>1 DEF CallsNested, LoaderTyped, Loader!Top, Loader!Last
<1>3. Loader!Top \in Mod
  BY <1>2 DEF LoaderTyped
<1>4. HasRow(Loader!Top, u) \/ Waits(Loader!Top, u)
  BY <1>1, <1>3 DEF TableTrue
<1>5. CASE HasRow(Loader!Top, u)
  BY <1>5 DEF HasRow, Loader!FindModuleImport
<1>6. CASE Waits(Loader!Top, u)
  <2>1. PICK i \in DOMAIN stack : i > 1 /\ stack[i - 1].module = Loader!Top
    BY <1>6 DEF Waits
  <2>2. i - 1 \in DOMAIN stack /\ i - 1 < Len(stack) /\ DOMAIN stack = 1..Len(stack)
    BY <2>1 DEF LoaderTyped
  <2>3. stack[i - 1].module < stack[Len(stack)].module
    BY <1>1, <1>2, <2>2 DEF CallsNested
  <2>4. stack[i - 1].module \in Nat
    BY <2>2 DEF LoaderTyped, Mod
  <2> QED BY <1>2, <2>1, <2>3, <2>4
<1> QED BY <1>4, <1>5, <1>6

(* An import of a module that was read before. *)
LEMMA UseLoaded ==
    ASSUME LoaderSound, loading = "load", NEW file \in Files, NEW alias \in Aliases,
           Loader!Read([use |-> file, alias |-> alias]),
           Loader!FindModuleImport(Loader!Top, alias) = {},
           Loader!Loaded(file), ~Loader!Open(Loader!IndexOf(file)),
           imports' = Append(imports, [owner |-> Loader!Top, alias |-> alias,
                                       target |-> Loader!IndexOf(file)]),
           UNCHANGED <<loading, modulePaths, moduleStates, stack, failure, cycle, reference>>
    PROVE  LoaderSound'
<1> DEFINE item == [use |-> file, alias |-> alias]
           top == Loader!Top
           target == Loader!IndexOf(file)
           row == [owner |-> top, alias |-> alias, target |-> target]
<1>1. LoaderTyped /\ Accepted /\ CallsNested
  BY DEF LoaderSound, Accepted
<1>2. item \in Loader!Use /\ item \in Loader!Item /\ item.alias = alias
  BY DEF Loader!Use, Loader!Item
<1>3. item \notin Loader!Statement
  BY <1>2, ItemKinds
<1>4. ItemRead(top, item) /\ contents' \in Seq(Seq(Loader!Item))
      /\ Len(contents') = Len(modulePaths)
  BY <1>1, <1>2, ReadAdds DEF ItemRead, Loader!Read, CallsNested
<1>5. \A m \in Mod : Loader!Uses(m)' = IF m = top THEN Loader!Uses(m) \cup {item} ELSE Loader!Uses(m)
  BY <1>2, <1>4, UsesGrow
<1>6. top \in Mod /\ Len(stack) \in DOMAIN stack /\ top = stack[Len(stack)].module
  BY <1>1, <1>2, ReadAdds DEF CallsNested
<1>7. target \in Mod /\ modulePaths[target] = file
  <2>1. \E m \in Mod : modulePaths[m] = file
    BY <1>1 DEF Loader!Loaded, Loader!Range, LoaderTyped, Mod
  <2> QED BY <2>1 DEF Loader!IndexOf, Loader!Module, Mod
<1>8. moduleStates[target] = 2 /\ moduleStates[top] = 1
  <2>1. moduleStates[target] \in {1, 2}
    BY <1>1, <1>7 DEF LoaderTyped, Mod
  <2> QED BY <1>1, <1>6, <2>1 DEF CallsNested, Loader!Open
<1>9. row \in ImportType /\ row.owner = top /\ row.alias = alias /\ row.target = target
  BY <1>6, <1>7 DEF ImportType, Mod
<1>10. Mod' = Mod
  BY DEF Mod
<1> HIDE DEF item, top, target
<1> HIDE DEF row
<1>11. /\ imports' = Append(imports, row) /\ imports' \in Seq(ImportType)
       /\ DOMAIN imports' = 1..(Len(imports) + 1) /\ DOMAIN imports = 1..Len(imports)
       /\ Len(imports) \in Nat
       /\ imports'[Len(imports) + 1] = row
       /\ \A i \in DOMAIN imports : imports'[i] = imports[i]
  BY <1>1, <1>9 DEF LoaderTyped, row, top, target
<1>12. \A i \in DOMAIN imports' : i \in DOMAIN imports \/ imports'[i] = row
  BY <1>11
<1>13. DOMAIN imports \subseteq DOMAIN imports' /\ Len(imports) + 1 \in DOMAIN imports'
  BY <1>11
<1>14. \A i \in DOMAIN imports : imports[i].owner \in Mod /\ imports[i].target \in Mod
  BY <1>1 DEF LoaderTyped
<1>20. LoaderTyped'
  <2>1. \A i \in DOMAIN imports' : imports'[i].owner \in Mod /\ imports'[i].target \in Mod
    BY <1>6, <1>7, <1>9, <1>11, <1>12, <1>14
  <2> QED BY <1>1, <1>4, <1>10, <1>11, <2>1 DEF LoaderTyped
<1>21. OnePathEach'
  BY <1>10 DEF LoaderSound, OnePathEach
<1>22. CallsNested'
  <2>1. \A i \in DOMAIN stack : i > 1 => i - 1 \in DOMAIN stack
    BY <1>1 DEF LoaderTyped
  <2>2. \A i \in DOMAIN stack : i > 1 => stack[i - 1].module \in Mod
    BY <1>1, <2>1 DEF LoaderTyped
  <2>3. \A i \in DOMAIN stack : UseOf(i)' = UseOf(i)
    BY DEF UseOf
  <2> QED BY <1>1, <1>5, <1>10, <2>2, <2>3 DEF CallsNested
<1>23. TableTrue'
  <2>1. TableTrue
    BY <1>1 DEF Accepted
  <2>2. UNCHANGED <<loading, modulePaths, moduleStates, stack>>
    OBVIOUS
  <2>3. [use |-> modulePaths[target], alias |-> alias] = item
    BY <1>7 DEF item
  <2>4. ASSUME NEW i \in DOMAIN imports', NEW m, m = imports'[i].owner
        PROVE  /\ [use |-> modulePaths'[imports'[i].target], alias |-> imports'[i].alias]
                     \in Loader!Uses(m)'
               /\ moduleStates'[imports'[i].target] = 2
    <3>1. CASE i \in DOMAIN imports
      <4>1. [use |-> modulePaths[imports[i].target], alias |-> imports[i].alias]
               \in Loader!Uses(imports[i].owner)
            /\ moduleStates[imports[i].target] = 2 /\ imports[i].owner \in Mod
        BY <2>1, <3>1, <1>14 DEF TableTrue
      <4>2. imports'[i] = imports[i]
        BY <1>11, <3>1
      <4>3. m = imports[i].owner
        BY <2>4, <4>2
      <4>4. Loader!Uses(m) \subseteq Loader!Uses(m)'
        BY <1>5, <4>1, <4>3
      <4> QED BY <2>2, <4>1, <4>2, <4>3, <4>4
    <3>2. CASE i \notin DOMAIN imports
      <4>1. imports'[i] = row
        BY <1>12, <3>2
      <4>2. m = top
        BY <1>9, <2>4, <4>1
      <4>3. item \in Loader!Uses(m)'
        BY <1>5, <1>6, <4>2
      <4> QED BY <1>8, <1>9, <2>2, <2>3, <4>1, <4>3
    <3> QED BY <3>1, <3>2
  <2>5. ASSUME NEW m \in Mod, NEW u \in Loader!Uses(m)'
        PROVE  HasRow(m, u)' \/ Waits(m, u)'
    <3>1. CASE u \in Loader!Uses(m)
      <4>1. HasRow(m, u) \/ Waits(m, u)
        BY <2>1, <3>1 DEF TableTrue
      <4>2. Waits(m, u) => Waits(m, u)'
        BY <2>2 DEF Waits, UseOf
      <4>3. HasRow(m, u) => HasRow(m, u)'
        BY <2>2, <1>11, <1>13 DEF HasRow
      <4> QED BY <4>1, <4>2, <4>3
    <3>2. CASE u \notin Loader!Uses(m)
      <4>1. m = top /\ u = item
        BY <1>5, <3>2
      <4>2. u.use = file /\ u.alias = alias
        BY <4>1 DEF item
      <4> QED BY <1>7, <1>9, <1>11, <1>13, <2>2, <4>1, <4>2 DEF HasRow
    <3> QED BY <3>1, <3>2
  <2> QED BY <1>10, <2>4, <2>5 DEF TableTrue
<1>24. ClosedAcyclic'
  <2> SUFFICES ASSUME NEW S \in SUBSET Mod, S # {}, \A m \in S : moduleStates[m] = 2
               PROVE  \E f \in S : \A i \in DOMAIN imports' :
                         ~(imports'[i].owner = f /\ imports'[i].target \in S)
    BY <1>10 DEF ClosedAcyclic
  <2>1. PICK f \in S : \A i \in DOMAIN imports : ~(imports[i].owner = f /\ imports[i].target \in S)
    BY <1>1 DEF Accepted, ClosedAcyclic
  <2>2. f # top
    BY <1>8
  <2> QED BY <1>9, <1>11, <1>12, <2>1, <2>2
<1>25. AliasesDiffer' /\ OnlyEntryExecutes'
  <2>1. \A u \in Loader!Uses(top) : u.alias # alias
    BY <1>1, FreshAlias DEF top
  <2> QED BY <1>1, <1>2, <1>3, <1>4, <1>10, <2>1, StaysLegal DEF AliasesDiffer, OnlyEntryExecutes, Accepted
<1>26. Accepted'
  BY <1>1, <1>22, <1>23, <1>24, <1>25 DEF Accepted
<1>27. Loader!CycleIsReal' /\ Loader!DuplicateIsReal' /\ Loader!ReferencesRight'
  BY <1>1 DEF Loader!CycleIsReal, Loader!DuplicateIsReal, Loader!ReferencesRight, Accepted, CallsNested
<1> QED BY <1>20, <1>21, <1>26, <1>27 DEF LoaderSound

(* An import of a file that was not read before: its call starts. *)
LEMMA UseNew ==
    ASSUME LoaderSound, NEW file \in Files, NEW alias \in Aliases,
           Loader!UseNewModule(file, alias)
    PROVE  LoaderSound'
<1> DEFINE item == [use |-> file, alias |-> alias]
           top == Loader!Top
           new == Len(modulePaths) + 1
           call == [module |-> new, alias |-> alias]
           read == [contents EXCEPT ![Loader!Top] = Append(@, item)]
<1>1. LoaderTyped /\ Accepted /\ CallsNested /\ loading = "load"
  BY DEF LoaderSound, Accepted, Loader!UseNewModule, Loader!Reading
<1>2. item \in Loader!Use /\ item \in Loader!Item /\ item.alias = alias /\ item.use = file
  BY DEF Loader!Use, Loader!Item
<1>3. item \notin Loader!Statement
  BY <1>2, ItemKinds
<1>4. /\ modulePaths' = Append(modulePaths, file) /\ moduleStates' = Append(moduleStates, 1)
      /\ stack' = Append(stack, call) /\ contents' = Append(read, <<>>)
      /\ UNCHANGED <<loading, imports, failure, cycle, reference>>
      /\ file \notin Absent /\ ~Loader!Loaded(file)
      /\ Loader!FindModuleImport(top, alias) = {}
  BY DEF Loader!UseNewModule, Loader!Readable
<1>5. /\ top = stack[Len(stack)].module /\ top \in Mod /\ Len(stack) \in DOMAIN stack
      /\ read \in Seq(Seq(Loader!Item)) /\ Len(read) = Len(modulePaths)
      /\ contents[top] \in Seq(Loader!Item)
      /\ read[top] = Append(contents[top], item)
      /\ \A m \in Mod : m # top => read[m] = contents[m]
  BY <1>1, <1>2, ReadAdds DEF CallsNested
<1> HIDE DEF item, top, read
<1>6. call \in CallType /\ call.module = new /\ call.alias = alias
  BY <1>1 DEF CallType, LoaderTyped
<1> HIDE DEF call
<1>7. /\ new \in Nat /\ new \notin Mod /\ \A m \in Mod : m < new /\ m \in Nat
      /\ Mod' = Mod \cup {new} /\ Len(modulePaths') = new
  BY <1>1, <1>4 DEF Mod, LoaderTyped
<1>8. /\ modulePaths' \in Seq(Files \ Absent) /\ modulePaths'[new] = file
      /\ \A m \in Mod : modulePaths'[m] = modulePaths[m]
  BY <1>1, <1>4 DEF Mod, LoaderTyped
<1>9. /\ moduleStates' \in Seq({1, 2}) /\ Len(moduleStates') = new
      /\ moduleStates'[new] = 1 /\ \A m \in Mod : moduleStates'[m] = moduleStates[m]
  BY <1>1, <1>4 DEF Mod, LoaderTyped
<1>10. /\ contents' \in Seq(Seq(Loader!Item)) /\ Len(contents') = new
       /\ contents'[new] = <<>> /\ \A m \in Mod : contents'[m] = read[m]
  <2>1. PICK T : T = Seq(Loader!Item)
    OBVIOUS
  <2>2. <<>> \in T /\ read \in Seq(T) /\ Len(read) = Len(modulePaths)
    BY <1>5, <2>1, EmptySeq
  <2>3. /\ contents' \in Seq(T) /\ Len(contents') = Len(read) + 1
        /\ contents'[Len(read) + 1] = <<>>
        /\ \A m \in 1..Len(read) : contents'[m] = read[m]
    BY ONLY <1>4, <2>2, AppendProperties
  <2> QED BY <2>1, <2>2, <2>3 DEF Mod
<1>11. /\ stack' \in Seq(CallType) /\ Len(stack) \in Nat /\ DOMAIN stack = 1..Len(stack)
       /\ DOMAIN stack' = 1..(Len(stack) + 1) /\ stack'[Len(stack) + 1] = call
       /\ \A i \in DOMAIN stack : stack'[i] = stack[i]
  BY <1>1, <1>4, <1>6 DEF LoaderTyped
<1> HIDE DEF new
<1>12. \A i \in DOMAIN stack : stack[i].module \in Mod
  BY <1>1 DEF LoaderTyped
<1>13. \A i \in DOMAIN imports : imports[i].owner \in Mod /\ imports[i].target \in Mod
  BY <1>1 DEF LoaderTyped
<1>14. ItemRead(top, item)
  BY <1>5, <1>10 DEF ItemRead
<1>15. \A m \in Mod : Loader!Uses(m)' = IF m = top THEN Loader!Uses(m) \cup {item} ELSE Loader!Uses(m)
  BY <1>2, <1>14, UsesGrow
<1>16. PICK k : k = new
  OBVIOUS
<1>17. Loader!Uses(k)' = {}
  BY <1>10, <1>16 DEF Loader!Uses, Loader!Range
<1>20. LoaderTyped'
  <2>1. \A i \in DOMAIN stack' : stack'[i].module \in Mod'
    BY <1>6, <1>7, <1>11, <1>12
  <2>2. \A i \in DOMAIN imports' : imports'[i].owner \in Mod' /\ imports'[i].target \in Mod'
    BY <1>4, <1>7, <1>13
  <2>3. loading' \in {"load"} /\ imports' \in Seq(ImportType) /\ cycle' \in Seq(Files)
    BY <1>1, <1>4 DEF LoaderTyped
  <2> QED BY <1>7, <1>8, <1>9, <1>10, <1>11, <2>1, <2>2, <2>3 DEF LoaderTyped
<1>21. OnePathEach'
  <2>1. \A m \in Mod : modulePaths[m] # file
    <3>1. DOMAIN modulePaths = Mod
      BY <1>1 DEF LoaderTyped, Mod
    <3> QED BY <1>4, <3>1 DEF Loader!Loaded, Loader!Range
  <2> QED BY <1>7, <1>8, <2>1 DEF LoaderSound, OnePathEach
<1>22. CallsNested'
  <2>1. stack' # <<>>
    BY <1>11
  <2>2. \A i, j \in DOMAIN stack' : i < j => stack'[i].module < stack'[j].module
    <3> SUFFICES ASSUME NEW i \in DOMAIN stack', NEW j \in DOMAIN stack', i < j
                 PROVE  stack'[i].module < stack'[j].module
      OBVIOUS
    <3>1. i \in DOMAIN stack
      BY <1>11
    <3>2. CASE j \in DOMAIN stack
      BY <1>1, <1>11, <3>1, <3>2 DEF CallsNested
    <3>3. CASE j \notin DOMAIN stack
      <4>1. stack'[j] = call
        BY <1>11, <3>3
      <4> QED BY <1>6, <1>7, <1>11, <1>12, <3>1, <4>1
    <3> QED BY <3>2, <3>3
  <2>3. \A m \in Mod' : moduleStates'[m] = 1 <=> \E i \in DOMAIN stack' : stack'[i].module = m
    <3>1. \A i \in DOMAIN stack' : i \in DOMAIN stack \/ i = Len(stack) + 1
      BY <1>11
    <3>2. DOMAIN stack \subseteq DOMAIN stack' /\ Len(stack) + 1 \in DOMAIN stack'
      BY <1>11
    <3>3. ASSUME NEW m \in Mod
          PROVE  moduleStates'[m] = 1 <=> \E i \in DOMAIN stack' : stack'[i].module = m
      <4>1. moduleStates'[m] = 1 <=> \E i \in DOMAIN stack : stack[i].module = m
        BY <1>1, <1>9 DEF CallsNested
      <4>2. m # new
        BY <1>7
      <4> QED BY <4>1, <4>2, <3>1, <3>2, <1>6, <1>11
    <3>4. moduleStates'[new] = 1 /\ stack'[Len(stack) + 1].module = new
      BY <1>6, <1>9, <1>11
    <3> QED BY <1>7, <3>2, <3>3, <3>4
  <2>4. ASSUME NEW i \in DOMAIN stack', i > 1, NEW m, m = stack'[i - 1].module
        PROVE  UseOf(i)' \in Loader!Uses(m)'
    <3>1. i - 1 \in DOMAIN stack
      BY <1>11, <2>4
    <3>2. m = stack[i - 1].module /\ m \in Mod
      BY <1>11, <1>12, <2>4, <3>1
    <3>3. CASE i \in DOMAIN stack
      <4>1. UseOf(i)' = UseOf(i)
        BY <1>8, <1>11, <1>12, <3>3 DEF UseOf
      <4>2. UseOf(i) \in Loader!Uses(m)
        BY <1>1, <2>4, <3>2, <3>3 DEF CallsNested
      <4> QED BY <1>15, <3>2, <4>1, <4>2
    <3>4. CASE i \notin DOMAIN stack
      <4>1. i = Len(stack) + 1
        BY <1>11, <3>4
      <4>2. UseOf(i)' = item
        BY <1>6, <1>8, <1>11, <4>1 DEF UseOf, item
      <4>3. m = top
        BY <1>5, <1>11, <3>2, <4>1
      <4> QED BY <1>15, <3>2, <4>2, <4>3
    <3> QED BY <3>3, <3>4
  <2> QED BY <1>1, <1>4, <2>1, <2>2, <2>3, <2>4 DEF CallsNested
<1>23. TableTrue'
  <2>1. TableTrue /\ imports' = imports /\ loading' = loading
    BY <1>1, <1>4 DEF Accepted
  <2>2. ASSUME NEW i \in DOMAIN imports', NEW m, m = imports'[i].owner
        PROVE  /\ [use |-> modulePaths'[imports'[i].target], alias |-> imports'[i].alias]
                     \in Loader!Uses(m)'
               /\ moduleStates'[imports'[i].target] = 2
    <3>1. imports[i].target \in Mod /\ m = imports[i].owner /\ m \in Mod
      BY <1>13, <2>1, <2>2
    <3>2. [use |-> modulePaths[imports[i].target], alias |-> imports[i].alias] \in Loader!Uses(m)
          /\ moduleStates[imports[i].target] = 2
      BY <2>1, <2>2, <3>1 DEF TableTrue
    <3>3. Loader!Uses(m) \subseteq Loader!Uses(m)'
      BY <1>15, <3>1
    <3>4. modulePaths'[imports[i].target] = modulePaths[imports[i].target]
          /\ moduleStates'[imports[i].target] = moduleStates[imports[i].target]
      BY <1>8, <1>9, <3>1
    <3> QED BY <2>1, <3>2, <3>3, <3>4
  <2>3. ASSUME NEW m \in Mod', NEW u \in Loader!Uses(m)'
        PROVE  HasRow(m, u)' \/ Waits(m, u)'
    <3>1. m \in Mod
      BY <1>7, <1>16, <1>17
    <3>2. CASE u \in Loader!Uses(m)
      <4>1. HasRow(m, u) \/ Waits(m, u)
        BY <2>1, <3>1, <3>2 DEF TableTrue
      <4>2. ASSUME Waits(m, u) PROVE Waits(m, u)'
        <5>1. PICK i \in DOMAIN stack : i > 1 /\ stack[i - 1].module = m /\ u = UseOf(i)
          BY <4>2 DEF Waits
        <5>2. i - 1 \in DOMAIN stack /\ i \in DOMAIN stack'
          BY <1>11, <5>1
        <5>3. UseOf(i)' = UseOf(i)
          BY <1>8, <1>11, <1>12, <5>1 DEF UseOf
        <5> QED BY <1>1, <1>11, <2>1, <5>1, <5>2, <5>3 DEF Waits
      <4>3. ASSUME HasRow(m, u) PROVE HasRow(m, u)'
        BY <2>1, <4>3, <1>8, <1>13 DEF HasRow
      <4> QED BY <4>1, <4>2, <4>3
    <3>3. CASE u \notin Loader!Uses(m)
      <4>1. m = top /\ u = item
        BY <1>15, <3>1, <3>3
      <4>2. PICK i : i = Len(stack) + 1
        OBVIOUS
      <4>3. UseOf(i)' = item
        BY <1>6, <1>8, <1>11, <4>2 DEF UseOf, item
      <4>4. i \in DOMAIN stack' /\ i > 1 /\ stack'[i - 1].module = m
        BY <1>5, <1>11, <4>1, <4>2
      <4> QED BY <1>1, <2>1, <4>1, <4>3, <4>4 DEF Waits
    <3> QED BY <3>2, <3>3
  <2> QED BY <2>2, <2>3 DEF TableTrue
<1>24. ClosedAcyclic'
  <2> SUFFICES ASSUME NEW S \in SUBSET Mod', S # {}, \A m \in S : moduleStates'[m] = 2
               PROVE  \E f \in S : \A i \in DOMAIN imports' :
                         ~(imports'[i].owner = f /\ imports'[i].target \in S)
    BY DEF ClosedAcyclic
  <2>1. S \in SUBSET Mod /\ \A m \in S : moduleStates[m] = 2
    BY <1>7, <1>9
  <2> QED BY <1>1, <1>4, <2>1 DEF Accepted, ClosedAcyclic
<1>25. AliasesDiffer' /\ OnlyEntryExecutes'
  <2>1. \A u \in Loader!Uses(top) : u.alias # alias
    BY <1>1, <1>4, FreshAlias DEF top
  <2>2. AliasesDiffer /\ OnlyEntryExecutes
    BY <1>1 DEF Accepted
  <2>3. \A m \in Mod :
              /\ \A i, j \in DOMAIN contents'[m] :
                    (i # j /\ contents'[m][i] \in Loader!Use /\ contents'[m][j] \in Loader!Use)
                        => contents'[m][i].alias # contents'[m][j].alias
              /\ m # 1 => \A i \in DOMAIN contents'[m] : contents'[m][i] \notin Loader!Statement
    BY <1>2, <1>3, <1>14, <2>1, <2>2, StaysLegal
  <2>4. DOMAIN contents'[new] = {}
    BY <1>10
  <2> QED BY <1>7, <2>3, <2>4 DEF AliasesDiffer, OnlyEntryExecutes
<1>26. Accepted'
  BY <1>1, <1>4, <1>22, <1>23, <1>24, <1>25 DEF Accepted
<1>27. Loader!CycleIsReal' /\ Loader!DuplicateIsReal' /\ Loader!ReferencesRight'
  BY <1>1, <1>4 DEF Loader!CycleIsReal, Loader!DuplicateIsReal, Loader!ReferencesRight, Accepted, CallsNested
<1> QED BY <1>20, <1>21, <1>26, <1>27 DEF LoaderSound

LEMMA SameCount ==
    ASSUME NEW S
    PROVE  Loader!Cardinality(S) = Cardinality(S)
BY DEF Cardinality, Loader!Cardinality

(* The first k of an increasing row of numbers are k numbers. *)
LEMMA FirstOfIncreasing ==
    ASSUME NEW n \in Nat, NEW f, \A i \in 1..n : f[i] \in Nat,
           \A i, j \in 1..n : i < j => f[i] < f[j], NEW k \in 0..n
    PROVE  Cardinality({f[i] : i \in 1..k}) = k
<1> DEFINE T == {f[i] : i \in 1..k}
           g == [i \in 1..k |-> f[i]]
<1>1. \A i \in 1..k : i \in 1..n
  OBVIOUS
<1>2. g \in [1..k -> T] /\ \A t \in T : \E i \in 1..k : g[i] = t
  OBVIOUS
<1>3. \A i, j \in 1..k : g[i] = g[j] => i = j
  <2> SUFFICES ASSUME NEW i \in 1..k, NEW j \in 1..k, f[i] = f[j] PROVE i = j
    OBVIOUS
  <2>1. ~(i < j) /\ ~(j < i)
    BY <1>1
  <2> QED BY <2>1
<1>4. g \in Bijection(1..k, T)
  BY <1>2, <1>3, Fun_IsBij
<1>5. ExistsBijection(1..k, T)
  BY <1>4 DEF ExistsBijection
<1>6. IsFiniteSet(1..k) /\ Cardinality(1..k) = k
  BY FS_Interval
<1> HIDE DEF T, g
<1>7. Cardinality(T) = k
  BY <1>5, <1>6, FS_Bijection
<1> QED BY <1>7 DEF T

(* A report begins with the files of the calls, outermost first. *)
LEMMA OpenPathsAreCalls ==
    ASSUME LoaderTyped, CallsNested
    PROVE  Loader!OpenPaths = [i \in 1..Len(stack) |-> modulePaths[stack[i].module]]
<1> DEFINE open == {m \in Loader!Module : Loader!Open(m)}
           n == Len(stack)
           f == [i \in 1..n |-> stack[i].module]
           Ith(i) == CHOOSE m \in open : Loader!Cardinality(open \cap 1..m) = i
<1>0. Loader!OpenPaths = [i \in 1..Loader!Cardinality(open) |-> modulePaths[Ith(i)]]
  BY Zenon DEF Loader!OpenPaths
<1>1. n \in Nat /\ DOMAIN stack = 1..n
  BY DEF LoaderTyped
<1>2. \A i \in 1..n : f[i] = stack[i].module /\ f[i] \in Mod /\ f[i] \in Nat
  BY <1>1 DEF LoaderTyped, Mod
<1>3. \A i, j \in 1..n : i < j => f[i] < f[j]
  BY <1>1 DEF CallsNested
<1> HIDE DEF f, n
<1>4. open = {f[i] : i \in 1..n}
  <2>1. \A m \in Mod : Loader!Open(m) <=> \E i \in 1..n : f[i] = m
    BY <1>1, <1>2 DEF CallsNested, Loader!Open
  <2> QED BY <1>2, <2>1 DEF Loader!Module, Mod
<1> HIDE DEF open
<1>5. ASSUME NEW i \in 1..n PROVE open \cap 1..f[i] = {f[j] : j \in 1..i}
  <2>1. ASSUME NEW j \in 1..n PROVE f[j] \in 1..f[i] <=> j \in 1..i
    <3>1. f[i] \in Nat /\ f[j] \in Nat /\ f[j] >= 1
      BY <1>2 DEF Mod
    <3>2. (i < j => f[i] < f[j]) /\ (j < i => f[j] < f[i])
      BY <1>3
    <3>3. CASE i < j
      BY <1>1, <3>1, <3>2, <3>3
    <3>4. CASE j < i
      BY <1>1, <3>1, <3>2, <3>4
    <3>5. CASE i = j
      BY <1>1, <3>1, <3>5
    <3> QED BY <1>1, <3>3, <3>4, <3>5
  <2>2. \A j \in 1..i : j \in 1..n
    BY <1>1
  <2> QED BY <1>4, <2>1, <2>2
<1>6. ASSUME NEW i \in 1..n PROVE Loader!Cardinality(open \cap 1..f[i]) = i
  <2>1. i \in 0..n
    BY <1>1
  <2>2. Cardinality({f[j] : j \in 1..i}) = i
    BY <1>1, <1>2, <1>3, <2>1, FirstOfIncreasing
  <2> QED BY <1>5, <2>2, SameCount
<1>7. Loader!Cardinality(open) = n
  <2>1. n \in 0..n
    BY <1>1
  <2>2. Cardinality({f[j] : j \in 1..n}) = n
    BY <1>1, <1>2, <1>3, <2>1, FirstOfIncreasing
  <2> QED BY <1>4, <2>2, SameCount
<1>8. ASSUME NEW i \in 1..n PROVE Ith(i) = f[i]
  <2>1. f[i] \in open
    BY <1>4
  <2>2. \A m \in open : Loader!Cardinality(open \cap 1..m) = i => m = f[i]
    <3> SUFFICES ASSUME NEW m \in open, Loader!Cardinality(open \cap 1..m) = i PROVE m = f[i]
      OBVIOUS
    <3>1. PICK j \in 1..n : m = f[j]
      BY <1>4
    <3>2. j = i
      BY <1>6, <3>1
    <3> QED BY <3>1, <3>2
  <2> QED BY <1>6, <2>1, <2>2
<1> HIDE DEF Ith
<1> QED BY <1>0, <1>2, <1>7, <1>8 DEF n

(* The import that closes a cycle. *)
LEMMA CycleReported ==
    ASSUME LoaderSound, loading = "load", NEW file \in Files, NEW alias \in Aliases,
           Loader!Read([use |-> file, alias |-> alias]),
           Loader!Loaded(file), Loader!Open(Loader!IndexOf(file)), Loader!Fail("cycle"),
           cycle' = Append(Loader!OpenPaths, file)
    PROVE  LoaderSound'
<1> DEFINE item == [use |-> file, alias |-> alias]
           top == Loader!Top
           open == Loader!OpenPaths
           n == Len(stack)
<1>1. LoaderTyped /\ CallsNested
  BY DEF LoaderSound, Accepted
<1>2. item \in Loader!Use /\ item \in Loader!Item /\ item.use = file
  BY DEF Loader!Use, Loader!Item
<1>3. ItemRead(top, item) /\ top = stack[n].module /\ n \in DOMAIN stack
  BY <1>1, <1>2, ReadAdds DEF ItemRead, Loader!Read, CallsNested
<1>4. \A m \in Mod : Loader!Uses(m)' = IF m = top THEN Loader!Uses(m) \cup {item} ELSE Loader!Uses(m)
  BY <1>2, <1>3, UsesGrow
<1>5. open = [i \in 1..n |-> modulePaths[stack[i].module]]
  BY <1>1, OpenPathsAreCalls
<1>6. n \in Nat /\ n >= 1 /\ DOMAIN stack = 1..n
  BY <1>1, <1>3 DEF LoaderTyped
<1>7. \A i \in 1..n : stack[i].module \in Mod
  BY <1>1, <1>6 DEF LoaderTyped
<1>8. \A m \in Mod : modulePaths[m] \in Files
  BY <1>1 DEF LoaderTyped, Mod
<1>9. modulePaths' = modulePaths
  BY DEF Loader!Fail
<1> HIDE DEF n
<1>10. open \in Seq(Files) /\ Len(open) = n /\ \A i \in 1..n : open[i] = modulePaths[stack[i].module]
  BY <1>5, <1>6, <1>7, <1>8
<1> HIDE DEF item, top, open
<1>11. /\ cycle' \in Seq(Files) /\ Len(cycle') = n + 1 /\ cycle'[n + 1] = file
       /\ \A i \in 1..n : cycle'[i] = modulePaths[stack[i].module]
  BY <1>10 DEF open
<1>12. ASSUME NEW i \in 1..n PROVE \E m \in Mod : modulePaths[m] = cycle'[i]
                                      /\ \E u \in Loader!Uses(m)' : u.use = cycle'[i + 1]
  <2>1. PICK m \in Mod : m = stack[i].module
    BY <1>7
  <2>2. modulePaths[m] = cycle'[i]
    BY <1>11, <2>1
  <2>3. CASE i = n
    <3>1. item \in Loader!Uses(m)'
      BY <1>3, <1>4, <2>1, <2>3
    <3> QED BY <1>2, <1>11, <2>2, <2>3, <3>1
  <2>4. CASE i # n
    <3>1. i + 1 \in 1..n /\ i + 1 > 1 /\ (i + 1) - 1 = i
      BY <1>6, <2>4
    <3>2. UseOf(i + 1) \in Loader!Uses(m)
      BY <1>1, <1>6, <2>1, <3>1 DEF CallsNested
    <3>3. UseOf(i + 1) \in Loader!Uses(m)'
      BY <1>4, <3>2
    <3>4. UseOf(i + 1).use = cycle'[i + 1]
      BY <1>11, <3>1 DEF UseOf
    <3> QED BY <2>2, <3>3, <3>4
  <2> QED BY <2>3, <2>4
<1>13. \E j \in 1..n : cycle'[j] = file
  <2>1. \E m \in Mod : modulePaths[m] = file
    <3>1. DOMAIN modulePaths = Mod
      BY <1>1 DEF LoaderTyped, Mod
    <3> QED BY <3>1 DEF Loader!Loaded, Loader!Range
  <2>2. Loader!IndexOf(file) \in Mod /\ modulePaths[Loader!IndexOf(file)] = file
    BY <2>1 DEF Loader!IndexOf, Loader!Module, Mod
  <2>3. PICK j \in 1..n : stack[j].module = Loader!IndexOf(file)
    BY <1>1, <1>6, <2>2 DEF CallsNested, Loader!Open
  <2> QED BY <1>11, <2>2, <2>3
<1>14. Loader!CycleIsReal'
  <2>1. PICK c : c = cycle'
    OBVIOUS
  <2>2. \A i \in 1..(Len(c) - 1) : \E m \in Mod : modulePaths[m] = c[i]
                                      /\ \E u \in Loader!Uses(m)' : u.use = c[i + 1]
    <3>1. Len(c) - 1 = n
      BY <1>6, <1>11, <2>1
    <3>2. \A i \in 1..n : \E m \in Mod : modulePaths[m] = cycle'[i]
                                      /\ \E u \in Loader!Uses(m)' : u.use = cycle'[i + 1]
      BY <1>12
    <3> QED BY ONLY <2>1, <3>1, <3>2
  <2>3. Loader!Last(c) \in Loader!Range(Loader!Front(c))
    <3>1. Loader!Last(c) = file /\ Loader!Front(c) = [i \in 1..n |-> c[i]]
      <4>1. Loader!Front(c) = SubSeq(c, 1, Len(c) - 1) /\ Loader!Last(c) = c[Len(c)]
        BY DEF Loader!Front, Loader!Last
      <4>2. Len(c) - 1 = n /\ c \in Seq(Files)
        BY <1>6, <1>11, <2>1
      <4>3. SubSeq(c, 1, n) = [i \in 1..n |-> c[i]]
        BY <1>6, <4>2
      <4> QED BY <1>11, <2>1, <4>1, <4>2, <4>3
    <3> QED BY <1>13, <2>1, <3>1 DEF Loader!Range
  <2>4. Mod' = Mod
    BY <1>9 DEF Mod
  <2> QED BY <1>9, <2>1, <2>2, <2>3, <2>4 DEF Loader!CycleIsReal, Loader!Imports, Loader!Module, Mod
<1> QED BY <1>2, <1>11, <1>14, FailedRead DEF item

(* Marking the innermost call's module as read. *)
LEMMA ModuleCloses ==
    ASSUME LoaderTyped, Accepted, loading = "load",
           moduleStates' = [moduleStates EXCEPT ![Loader!Top] = 2]
    PROVE  /\ Loader!Top = stack[Len(stack)].module /\ Loader!Top \in Mod
           /\ Len(stack) \in DOMAIN stack /\ moduleStates[Loader!Top] = 1
           /\ moduleStates' \in Seq({1, 2}) /\ Len(moduleStates') = Len(modulePaths)
           /\ \A m \in Mod : moduleStates'[m] = IF m = Loader!Top THEN 2 ELSE moduleStates[m]
           /\ \A i \in DOMAIN imports : imports[i].target # Loader!Top
           /\ \A S \in SUBSET Mod :
                 (S # {} /\ \A m \in S : moduleStates'[m] = 2)
                     => \E f \in S : \A i \in DOMAIN imports :
                           ~(imports[i].owner = f /\ imports[i].target \in S)
<1> DEFINE top == Loader!Top
<1>1. CallsNested /\ TableTrue /\ ClosedAcyclic
  BY DEF Accepted
<1>2. Len(stack) \in DOMAIN stack
  BY <1>1 DEF CallsNested, LoaderTyped
<1>3. top = stack[Len(stack)].module /\ top \in Mod
  BY <1>2 DEF LoaderTyped, Loader!Top, Loader!Last
<1>4. moduleStates[top] = 1
  BY <1>1, <1>2, <1>3 DEF CallsNested
<1> HIDE DEF top
<1>5. moduleStates' = [moduleStates EXCEPT ![top] = 2]
  BY DEF top
<1>6. /\ moduleStates' \in Seq({1, 2}) /\ Len(moduleStates') = Len(modulePaths)
      /\ \A m \in Mod : moduleStates'[m] = IF m = top THEN 2 ELSE moduleStates[m]
  <2>1. PICK T : T = {1, 2}
    OBVIOUS
  <2>2. moduleStates \in Seq(T) /\ Len(moduleStates) = Len(modulePaths)
        /\ top \in 1..Len(moduleStates) /\ 2 \in T
    BY <1>3, <2>1 DEF LoaderTyped, Mod
  <2>3. /\ moduleStates' \in Seq(T) /\ Len(moduleStates') = Len(moduleStates)
        /\ \A m \in 1..Len(moduleStates) :
              moduleStates'[m] = IF m = top THEN 2 ELSE moduleStates[m]
    BY ONLY <1>5, <2>2, ExceptSeq
  <2> QED BY <2>1, <2>2, <2>3 DEF Mod
<1>7. \A i \in DOMAIN imports : imports[i].target # top
  <2>1. \A i \in DOMAIN imports : moduleStates[imports[i].target] = 2
    BY <1>1 DEF TableTrue
  <2> QED BY ONLY <1>4, <2>1
<1>8. ASSUME NEW S \in SUBSET Mod, S # {}, \A m \in S : moduleStates'[m] = 2
      PROVE  \E f \in S : \A i \in DOMAIN imports :
                ~(imports[i].owner = f /\ imports[i].target \in S)
  <2>1. CASE S = {top}
    BY <1>7, <2>1
  <2>2. CASE S # {top}
    <3>1. PICK R : R = S \ {top}
      OBVIOUS
    <3>2. R \in SUBSET Mod /\ R # {} /\ \A m \in R : moduleStates[m] = 2
      BY <1>6, <1>8, <2>2, <3>1
    <3>3. PICK f \in R : \A i \in DOMAIN imports : ~(imports[i].owner = f /\ imports[i].target \in R)
      BY <1>1, <3>2 DEF ClosedAcyclic
    <3> QED BY <1>7, <3>1, <3>3
  <2> QED BY <2>1, <2>2
<1> QED BY <1>2, <1>3, <1>4, <1>6, <1>7, <1>8 DEF top

(* The end of an imported file: the table gets the row of its import. *)
LEMMA ImportReturns ==
    ASSUME LoaderSound, loading = "load", Len(stack) > 1,
           moduleStates' = [moduleStates EXCEPT ![Loader!Top] = 2],
           stack' = Loader!Front(stack),
           imports' = Append(imports, Loader!Returned(Loader!Top)),
           UNCHANGED <<loading, modulePaths, contents, failure, cycle, reference>>
    PROVE  LoaderSound'
<1> DEFINE top == Loader!Top
           row == Loader!Returned(Loader!Top)
           n == Len(stack)
           caller == stack[Len(stack) - 1].module
           alias == stack[Len(stack)].alias
<1>1. LoaderTyped /\ Accepted /\ CallsNested /\ TableTrue
  BY DEF LoaderSound, Accepted
<1>2. n \in Nat /\ n > 1 /\ DOMAIN stack = 1..n /\ n \in DOMAIN stack /\ n - 1 \in DOMAIN stack
  BY <1>1 DEF LoaderTyped
<1>3. /\ top = stack[n].module /\ top \in Mod /\ moduleStates[top] = 1
      /\ moduleStates' \in Seq({1, 2}) /\ Len(moduleStates') = Len(modulePaths)
      /\ \A m \in Mod : moduleStates'[m] = IF m = top THEN 2 ELSE moduleStates[m]
  BY <1>1, ModuleCloses
<1>4. /\ \A i \in DOMAIN imports : imports[i].target # top
      /\ \A S \in SUBSET Mod :
            (S # {} /\ \A m \in S : moduleStates'[m] = 2)
                => \E f \in S : \A i \in DOMAIN imports :
                      ~(imports[i].owner = f /\ imports[i].target \in S)
  BY <1>1, ModuleCloses
<1>5. \A i \in DOMAIN stack : stack[i].module \in Mod /\ stack[i].module \in Nat
  BY <1>1 DEF LoaderTyped, Mod
<1>6. caller \in Mod /\ caller # top /\ moduleStates[caller] = 1
  <2>1. caller < top
    BY <1>1, <1>2, <1>3 DEF CallsNested
  <2>2. caller \in Mod /\ moduleStates[caller] = 1
    BY <1>1, <1>2, <1>5 DEF CallsNested
  <2> QED BY <1>2, <1>3, <1>5, <2>1, <2>2
<1>7. UseOf(n) \in Loader!Uses(caller) /\ UseOf(n) = [use |-> modulePaths[top], alias |-> alias]
  BY <1>1, <1>2, <1>3 DEF CallsNested, UseOf
<1>8. alias \in Aliases
  BY <1>7 DEF Loader!Uses, Loader!Use
<1>9. row \in ImportType /\ row.owner = caller /\ row.alias = alias /\ row.target = top
  BY <1>3, <1>6, <1>8 DEF ImportType, Loader!Returned, Loader!Last, Mod
<1>10. /\ stack' \in Seq(CallType) /\ DOMAIN stack' = 1..(n - 1)
       /\ \A i \in 1..(n - 1) : stack'[i] = stack[i]
  <2>1. stack' = SubSeq(stack, 1, n - 1)
    BY DEF Loader!Front
  <2>2. stack \in Seq(CallType)
    BY <1>1 DEF LoaderTyped
  <2> QED BY <1>2, <2>1, <2>2
<1> HIDE DEF top, row, n, caller, alias
<1>11. /\ imports' = Append(imports, row) /\ imports' \in Seq(ImportType)
       /\ DOMAIN imports' = 1..(Len(imports) + 1) /\ DOMAIN imports = 1..Len(imports)
       /\ Len(imports) \in Nat
       /\ imports'[Len(imports) + 1] = row
       /\ \A i \in DOMAIN imports : imports'[i] = imports[i]
  BY <1>1, <1>9 DEF LoaderTyped, row
<1>12. \A i \in DOMAIN imports' : i \in DOMAIN imports \/ imports'[i] = row
  BY <1>11
<1>13. DOMAIN imports \subseteq DOMAIN imports' /\ Len(imports) + 1 \in DOMAIN imports'
  BY <1>11
<1>14. \A i \in DOMAIN imports : imports[i].owner \in Mod /\ imports[i].target \in Mod
  BY <1>1 DEF LoaderTyped
<1>15. \A i \in 1..(n - 1) : i \in DOMAIN stack /\ i < n
  BY <1>2
<1>16. Mod' = Mod
  BY DEF Mod
<1>17. \A m \in Mod : Loader!Uses(m)' = Loader!Uses(m)
  BY DEF Loader!Uses
<1>18. \A i \in 1..(n - 1) : UseOf(i)' = UseOf(i)
  BY <1>10 DEF UseOf
<1>20. LoaderTyped'
  <2>1. \A i \in DOMAIN imports' : imports'[i].owner \in Mod /\ imports'[i].target \in Mod
    BY <1>3, <1>6, <1>9, <1>11, <1>12, <1>14
  <2>2. \A i \in DOMAIN stack' : stack'[i].module \in Mod
    BY <1>5, <1>10, <1>15
  <2> QED BY <1>1, <1>3, <1>10, <1>11, <1>16, <2>1, <2>2 DEF LoaderTyped
<1>21. OnePathEach'
  BY <1>16 DEF LoaderSound, OnePathEach
<1>22. CallsNested'
  <2>1. stack' # <<>>
    BY <1>2, <1>10
  <2>2. \A i, j \in DOMAIN stack' : i < j => stack'[i].module < stack'[j].module
    BY <1>1, <1>10, <1>15 DEF CallsNested
  <2>3. ASSUME NEW m \in Mod
        PROVE  moduleStates'[m] = 1 <=> \E i \in DOMAIN stack' : stack'[i].module = m
    <3>1. moduleStates[m] = 1 <=> \E i \in DOMAIN stack : stack[i].module = m
      BY <1>1 DEF CallsNested
    <3>2. CASE m = top
      <4>1. \A i \in 1..(n - 1) : stack[i].module < stack[n].module
        BY <1>1, <1>2, <1>15 DEF CallsNested
      <4>2. \A i \in 1..(n - 1) : stack[i].module # stack[n].module
        BY <1>2, <1>5, <1>15, <4>1
      <4> QED BY <1>3, <1>10, <3>2, <4>2
    <3>3. CASE m # top
      <4>1. \A i \in DOMAIN stack : i # n => i \in 1..(n - 1)
        BY <1>2
      <4> QED BY <1>3, <1>10, <1>15, <3>1, <3>3, <4>1
    <3> QED BY <3>2, <3>3
  <2>4. ASSUME NEW i \in DOMAIN stack', i > 1, NEW m, m = stack'[i - 1].module
        PROVE  UseOf(i)' \in Loader!Uses(m)'
    <3>1. i \in 1..(n - 1) /\ i - 1 \in 1..(n - 1)
      BY <1>2, <1>10, <2>4
    <3>2. m = stack[i - 1].module /\ m \in Mod
      BY <1>5, <1>10, <1>15, <2>4, <3>1
    <3>3. UseOf(i) \in Loader!Uses(m)
      BY <1>1, <1>15, <2>4, <3>1, <3>2 DEF CallsNested
    <3> QED BY <1>17, <1>18, <3>1, <3>2, <3>3
  <2> QED BY <1>1, <1>16, <2>1, <2>2, <2>3, <2>4 DEF CallsNested
<1>23. TableTrue'
  <2>1. ASSUME NEW i \in DOMAIN imports', NEW m, m = imports'[i].owner
        PROVE  /\ [use |-> modulePaths'[imports'[i].target], alias |-> imports'[i].alias]
                     \in Loader!Uses(m)'
               /\ moduleStates'[imports'[i].target] = 2
    <3>1. CASE i \in DOMAIN imports
      <4>1. imports'[i] = imports[i] /\ m = imports[i].owner /\ m \in Mod /\ imports[i].target \in Mod
        BY <1>11, <1>14, <2>1, <3>1
      <4>2. [use |-> modulePaths[imports[i].target], alias |-> imports[i].alias] \in Loader!Uses(m)
            /\ moduleStates[imports[i].target] = 2
        BY <1>1, <3>1, <4>1 DEF TableTrue
      <4>3. moduleStates'[imports[i].target] = 2
        BY <1>3, <4>1, <4>2
      <4> QED BY <1>17, <4>1, <4>2, <4>3
    <3>2. CASE i \notin DOMAIN imports
      <4>1. imports'[i] = row
        BY <1>12, <3>2
      <4>2. m = caller /\ imports'[i].target = top /\ imports'[i].alias = alias
        BY <1>9, <2>1, <4>1
      <4> QED BY <1>3, <1>6, <1>7, <1>17, <4>2
    <3> QED BY <3>1, <3>2
  <2>2. ASSUME NEW m \in Mod, NEW u \in Loader!Uses(m)
        PROVE  HasRow(m, u)' \/ Waits(m, u)'
    <3>1. HasRow(m, u) \/ Waits(m, u)
      BY <1>1 DEF TableTrue
    <3>2. HasRow(m, u) => HasRow(m, u)'
      BY <1>11, <1>13 DEF HasRow
    <3>3. ASSUME Waits(m, u) PROVE HasRow(m, u)' \/ Waits(m, u)'
      <4>1. PICK i \in DOMAIN stack : i > 1 /\ stack[i - 1].module = m /\ u = UseOf(i)
        BY <3>3 DEF Waits
      <4>2. CASE i = n
        <5>1. m = caller /\ u.use = modulePaths[top] /\ u.alias = alias
          BY <1>7, <4>1, <4>2 DEF caller, n
        <5> QED BY <1>9, <1>11, <1>13, <5>1 DEF HasRow
      <4>3. CASE i # n
        <5>1. i \in 1..(n - 1) /\ i - 1 \in 1..(n - 1)
          BY <1>2, <4>1, <4>3
        <5>2. stack'[i - 1].module = m /\ u = UseOf(i)'
          BY <1>10, <1>18, <4>1, <5>1
        <5> QED BY <1>10, <4>1, <5>1, <5>2 DEF Waits
      <4> QED BY <4>2, <4>3
    <3> QED BY <3>1, <3>2, <3>3
  <2> QED BY <1>16, <1>17, <2>1, <2>2 DEF TableTrue
<1>24. ClosedAcyclic'
  <2> SUFFICES ASSUME NEW S \in SUBSET Mod, S # {}, \A m \in S : moduleStates'[m] = 2
               PROVE  \E f \in S : \A i \in DOMAIN imports' :
                         ~(imports'[i].owner = f /\ imports'[i].target \in S)
    BY <1>16 DEF ClosedAcyclic
  <2>1. PICK f \in S : \A i \in DOMAIN imports : ~(imports[i].owner = f /\ imports[i].target \in S)
    BY <1>4
  <2>2. f # caller
    BY <1>3, <1>6
  <2> QED BY <1>9, <1>11, <1>12, <2>1, <2>2
<1>25. AliasesDiffer' /\ OnlyEntryExecutes'
  BY <1>1, <1>16 DEF AliasesDiffer, OnlyEntryExecutes, Accepted
<1>26. Accepted'
  BY <1>1, <1>22, <1>23, <1>24, <1>25 DEF Accepted
<1>27. Loader!CycleIsReal' /\ Loader!DuplicateIsReal' /\ Loader!ReferencesRight'
  BY <1>1 DEF Loader!CycleIsReal, Loader!DuplicateIsReal, Loader!ReferencesRight, Accepted, CallsNested
<1> QED BY <1>20, <1>21, <1>26, <1>27 DEF LoaderSound

(* The end of the entry file: everything is read. *)
LEMMA EntryReturns ==
    ASSUME LoaderSound, loading = "load", Len(stack) = 1,
           moduleStates' = [moduleStates EXCEPT ![Loader!Top] = 2],
           stack' = Loader!Front(stack), loading' \in {"single", "collect"},
           UNCHANGED <<imports, modulePaths, contents, failure, cycle, reference>>
    PROVE  LoaderSound'
<1> DEFINE top == Loader!Top
<1>1. LoaderTyped /\ Accepted /\ CallsNested /\ TableTrue
  BY DEF LoaderSound, Accepted
<1>2. /\ top = stack[Len(stack)].module /\ top \in Mod
      /\ moduleStates' \in Seq({1, 2}) /\ Len(moduleStates') = Len(modulePaths)
      /\ \A m \in Mod : moduleStates'[m] = IF m = top THEN 2 ELSE moduleStates[m]
  BY <1>1, ModuleCloses
<1>3. \A S \in SUBSET Mod :
          (S # {} /\ \A m \in S : moduleStates'[m] = 2)
              => \E f \in S : \A i \in DOMAIN imports :
                    ~(imports[i].owner = f /\ imports[i].target \in S)
  BY <1>1, ModuleCloses
<1>4. Mod' = Mod
  BY DEF Mod
<1> HIDE DEF top
<1>5. DOMAIN stack = {1}
  BY <1>1 DEF LoaderTyped
<1>6. stack' = <<>>
  <2>1. stack' = SubSeq(stack, 1, 0)
    BY DEF Loader!Front
  <2> QED BY <1>1, <2>1 DEF LoaderTyped
<1>7. \A m \in Mod : moduleStates'[m] = 2
  <2> SUFFICES ASSUME NEW m \in Mod, m # top PROVE moduleStates[m] = 2
    BY <1>2
  <2>1. moduleStates[m] # 1
    BY <1>1, <1>2, <1>5 DEF CallsNested
  <2>2. moduleStates[m] \in {1, 2}
    BY <1>1 DEF LoaderTyped, Mod
  <2> QED BY <2>1, <2>2
<1>8. LoaderTyped'
  <2>1. stack' \in Seq(CallType) /\ DOMAIN stack' = {}
    BY <1>6
  <2>2. loading' \in {"load", "single", "collect", "ready", "failed"}
    OBVIOUS
  <2> QED BY <1>1, <1>2, <1>4, <2>1, <2>2 DEF LoaderTyped
<1>9. OnePathEach'
  BY <1>4 DEF LoaderSound, OnePathEach
<1>10. TableTrue'
  <2>1. \A m \in Mod : Loader!Uses(m)' = Loader!Uses(m)
    BY DEF Loader!Uses
  <2>2. \A m \in Mod : \A u \in Loader!Uses(m) : HasRow(m, u)
    <3>1. \A m \in Mod : \A u \in Loader!Uses(m) : ~Waits(m, u)
      BY <1>5 DEF Waits
    <3> QED BY <1>1, <3>1 DEF TableTrue
  <2>3. \A m \in Mod : \A u \in Loader!Uses(m) : HasRow(m, u)'
    BY <2>2 DEF HasRow
  <2>4. \A i \in DOMAIN imports : imports[i].owner \in Mod /\ imports[i].target \in Mod
    BY <1>1 DEF LoaderTyped
  <2>5. UNCHANGED <<imports, modulePaths>>
    OBVIOUS
  <2> QED BY ONLY <1>1, <1>4, <1>7, <2>1, <2>3, <2>4, <2>5 DEF TableTrue
<1>11. ClosedAcyclic'
  BY <1>3, <1>4 DEF ClosedAcyclic
<1>12. AliasesDiffer' /\ OnlyEntryExecutes'
  BY <1>1, <1>4 DEF AliasesDiffer, OnlyEntryExecutes, Accepted
<1>13. Accepted'
  BY <1>1, <1>4, <1>7, <1>10, <1>11, <1>12 DEF Accepted
<1>14. Loader!CycleIsReal' /\ Loader!DuplicateIsReal' /\ Loader!ReferencesRight'
  BY <1>1 DEF Loader!CycleIsReal, Loader!DuplicateIsReal, Loader!ReferencesRight, Accepted, CallsNested
<1> QED BY <1>8, <1>9, <1>13, <1>14 DEF LoaderSound

(* Names of different modules, and different names of one, do not meet. *)
LEMMA QualifiedNamesDiffer ==
    ASSUME NEW m, NEW n, NEW a, NEW b,
           Loader!QualifiedDeclarationName(m, a) = Loader!QualifiedDeclarationName(n, b)
    PROVE  m = n /\ a = b
<1>1. CASE m = 1 /\ a = Main
  <2>1. <<Main>> = Loader!QualifiedDeclarationName(n, b)
    BY <1>1 DEF Loader!QualifiedDeclarationName
  <2>2. n = 1 /\ b = Main
    <3>1. SUFFICES ASSUME ~(n = 1 /\ b = Main) PROVE FALSE
      OBVIOUS
    <3>2. <<Main>> = <<n, b>>
      BY <2>1, <3>1 DEF Loader!QualifiedDeclarationName
    <3>3. Len(<<Main>>) = 1 /\ Len(<<n, b>>) = 2
      OBVIOUS
    <3> QED BY <3>2, <3>3
  <2> QED BY <1>1, <2>2
<1>2. CASE ~(m = 1 /\ a = Main)
  <2>1. <<m, a>> = Loader!QualifiedDeclarationName(n, b)
    BY <1>2 DEF Loader!QualifiedDeclarationName
  <2>2. CASE n = 1 /\ b = Main
    <3>1. <<m, a>> = <<Main>>
      BY <2>1, <2>2 DEF Loader!QualifiedDeclarationName
    <3>2. Len(<<Main>>) = 1 /\ Len(<<m, a>>) = 2
      OBVIOUS
    <3> QED BY <3>1, <3>2
  <2>3. CASE ~(n = 1 /\ b = Main)
    BY <2>1, <2>3 DEF Loader!QualifiedDeclarationName
  <2> QED BY <2>2, <2>3
<1> QED BY <1>1, <1>2

(* A row stands for a declaration of a module. *)
LEMMA RowsAreDeclarations ==
    /\ \A row \in Loader!Rows : \E m \in Mod : \E i \in DOMAIN contents[m] :
          contents[m][i] \in Loader!Declaration /\ row = Loader!Row(m, i)
    /\ \A m \in Mod : \A i \in DOMAIN contents[m] :
          contents[m][i] \in Loader!Declaration => Loader!Row(m, i) \in Loader!Rows
BY DEF Loader!Rows, Loader!Module, Mod

LEMMA RowIs ==
    ASSUME NEW m, NEW i
    PROVE  /\ Loader!Row(m, i).owner = m /\ Loader!Row(m, i).item = i
           /\ Loader!Row(m, i).name = Loader!QualifiedDeclarationName(m, contents[m][i].name)
           /\ Loader!Row(m, i).kind = contents[m][i].kind
           /\ Loader!Row(m, i).public = contents[m][i].public
BY DEF Loader!Row

(* The rows are unique, and then each module declares a name once, or the  *)
(* compiler stops for a name that one module declares twice.               *)
LEMMA CollectKeeps ==
    ASSUME LoaderSound, Loader!Collect
    PROVE  LoaderSound'
<1>1. LoaderTyped /\ Accepted /\ loading = "collect"
  BY DEF LoaderSound, Accepted, Loader!Collect
<1>2. UNCHANGED <<modulePaths, moduleStates, contents, stack, imports, cycle, reference>>
  BY DEF Loader!Collect, Loader!tables
<1>3. loading' \in {"ready", "failed"}
  BY DEF Loader!Collect
<1>4. Mod' = Mod
  BY <1>2 DEF Mod
<1>5. LoaderTyped' /\ OnePathEach'
  BY <1>1, <1>2, <1>3, <1>4 DEF LoaderTyped, OnePathEach, LoaderSound
<1>6. Loader!ReferencesRight'
  BY <1>2 DEF LoaderSound, Loader!ReferencesRight, Loader!Declared, Loader!Uses, Loader!Module
<1>7. CASE failure' = "duplicate" /\ loading' = "failed"
           /\ \E row \in Loader!Rows : Loader!Lookup(row.name, row.kind) # {row}
  <2>1. Loader!CycleIsReal'
    BY <1>7 DEF Loader!CycleIsReal
  <2>2. PICK row \in Loader!Rows : Loader!Lookup(row.name, row.kind) # {row}
    BY <1>7
  <2>3. PICK other \in Loader!Rows : other # row /\ other.name = row.name /\ other.kind = row.kind
    BY <2>2 DEF Loader!Lookup
  <2>4. PICK m \in Mod : \E i \in DOMAIN contents[m] :
           contents[m][i] \in Loader!Declaration /\ row = Loader!Row(m, i)
    BY RowsAreDeclarations
  <2>5. PICK i \in DOMAIN contents[m] :
           contents[m][i] \in Loader!Declaration /\ row = Loader!Row(m, i)
    BY <2>4
  <2>6. PICK n \in Mod : \E j \in DOMAIN contents[n] :
           contents[n][j] \in Loader!Declaration /\ other = Loader!Row(n, j)
    BY RowsAreDeclarations
  <2>7. PICK j \in DOMAIN contents[n] :
           contents[n][j] \in Loader!Declaration /\ other = Loader!Row(n, j)
    BY <2>6
  <2>8. m = n /\ contents[m][i].name = contents[n][j].name /\ contents[m][i].kind = contents[n][j].kind
    BY <2>3, <2>5, <2>7, RowIs, QualifiedNamesDiffer
  <2>9. i # j
    BY <2>3, <2>5, <2>7, <2>8
  <2>10. Loader!DuplicateIsReal'
    BY <1>2, <2>5, <2>7, <2>8, <2>9 DEF Loader!DuplicateIsReal, Loader!Module, Mod
  <2> QED BY <1>5, <1>6, <1>7, <2>1, <2>10 DEF LoaderSound
<1>8. CASE failure' = failure /\ loading' = "ready"
           /\ \A row \in Loader!Rows : Loader!Lookup(row.name, row.kind) = {row}
  <2>1. DeclaredOnce
    <3> SUFFICES ASSUME NEW m \in Mod, NEW i \in DOMAIN contents[m], NEW j \in DOMAIN contents[m],
                        contents[m][i] \in Loader!Declaration, contents[m][j] \in Loader!Declaration,
                        contents[m][i].name = contents[m][j].name,
                        contents[m][i].kind = contents[m][j].kind
                 PROVE  i = j
      BY DEF DeclaredOnce
    <3>1. PICK r, s : r = Loader!Row(m, i) /\ s = Loader!Row(m, j)
      OBVIOUS
    <3>2. r \in Loader!Rows /\ s \in Loader!Rows
      BY <3>1, RowsAreDeclarations
    <3>3. r.name = s.name /\ r.kind = s.kind /\ r.item = i /\ s.item = j
      BY <3>1, RowIs
    <3>4. s \in Loader!Lookup(r.name, r.kind) /\ Loader!Lookup(r.name, r.kind) = {r}
      BY <1>8, <3>2, <3>3 DEF Loader!Lookup
    <3> QED BY <3>3, <3>4
  <2>2. DeclaredOnce'
    BY <1>2, <1>4, <2>1 DEF DeclaredOnce
  <2>3. TableTrue'
    <3>1. TableTrue /\ \A i \in DOMAIN imports : imports[i].owner \in Mod
      BY <1>1 DEF Accepted, LoaderTyped
    <3>2. \A m \in Mod : Loader!Uses(m)' = Loader!Uses(m)
      BY <1>2 DEF Loader!Uses
    <3>3. loading # "load"
      BY <1>1
    <3> QED BY ONLY <1>2, <1>4, <3>1, <3>2, <3>3 DEF TableTrue, HasRow, Waits, UseOf
  <2>4. ClosedAcyclic'
    <3>1. ClosedAcyclic
      BY <1>1 DEF Accepted
    <3> QED BY ONLY <1>2, <1>4, <3>1 DEF ClosedAcyclic
  <2>5. Accepted'
    BY <1>1, <1>2, <1>4, <1>8, <2>2, <2>3, <2>4 DEF Accepted, AliasesDiffer, OnlyEntryExecutes
  <2>6. Loader!CycleIsReal' /\ Loader!DuplicateIsReal'
    BY <1>1, <1>8 DEF Accepted, Loader!CycleIsReal, Loader!DuplicateIsReal
  <2> QED BY <1>5, <1>6, <2>5, <2>6 DEF LoaderSound
<1> QED BY <1>7, <1>8 DEF Loader!Collect

(* References change nothing but the reference, or stop the compiler. *)
LEMMA ReadyKeeps ==
    ASSUME LoaderSound, loading = "ready",
           UNCHANGED <<modulePaths, moduleStates, contents, stack, imports, cycle>>,
           Loader!ReferencesRight',
           \/ UNCHANGED <<loading, failure>>
           \/ loading' = "failed" /\ failure' \in {"unknown", "private"}
    PROVE  LoaderSound'
<1>1. LoaderTyped /\ Accepted
  BY DEF LoaderSound, Accepted
<1>2. UNCHANGED <<modulePaths, moduleStates, contents, stack, imports, cycle>>
  OBVIOUS
<1>3. Mod' = Mod
  BY DEF Mod
<1>4. LoaderTyped' /\ OnePathEach'
  BY <1>1, <1>3 DEF LoaderTyped, OnePathEach, LoaderSound
<1>5. Loader!CycleIsReal' /\ Loader!DuplicateIsReal'
  BY <1>1 DEF Accepted, Loader!CycleIsReal, Loader!DuplicateIsReal
<1>6. CASE loading' = "failed"
  BY <1>4, <1>5, <1>6 DEF LoaderSound
<1>7. CASE UNCHANGED <<loading, failure>>
  <2>1. TableTrue'
    <3>1. TableTrue /\ \A i \in DOMAIN imports : imports[i].owner \in Mod
      BY <1>1 DEF Accepted, LoaderTyped
    <3>2. \A m \in Mod : Loader!Uses(m)' = Loader!Uses(m)
      BY <1>2 DEF Loader!Uses
    <3>3. loading' = loading
      BY <1>7
    <3> QED BY ONLY <1>2, <1>3, <3>1, <3>2, <3>3 DEF TableTrue, HasRow, Waits, UseOf
  <2>2. ClosedAcyclic'
    <3>1. ClosedAcyclic
      BY <1>1 DEF Accepted
    <3> QED BY ONLY <1>2, <1>3, <3>1 DEF ClosedAcyclic
  <2>3. Accepted'
    BY <1>1, <1>2, <1>3, <1>7, <2>1, <2>2 DEF Accepted, AliasesDiffer, OnlyEntryExecutes, DeclaredOnce
  <2> QED BY <1>4, <1>5, <2>3 DEF LoaderSound
<1> QED BY <1>6, <1>7

(* The last reference is right as long as nothing that it names changes. *)
LEMMA ReferenceStays ==
    ASSUME Loader!ReferencesRight, UNCHANGED <<modulePaths, contents, reference>>
    PROVE  Loader!ReferencesRight'
BY DEF Loader!ReferencesRight, Loader!Declared, Loader!Uses, Loader!Module

LEMMA ReferOwnKeeps ==
    ASSUME LoaderSound, NEW m \in Mod, NEW name, NEW kind, Loader!ReferOwn(m, name, kind)
    PROVE  LoaderSound'
<1>1. loading = "ready"
      /\ UNCHANGED <<loading, modulePaths, moduleStates, contents, stack, imports, cycle, failure>>
  BY DEF Loader!ReferOwn, Loader!tables
<1>2. PICK row \in Loader!Lookup(Loader!QualifiedDeclarationName(m, name), kind) :
         reference' = [from |-> m, alias |-> Loader!NoAlias, name |-> name, kind |-> kind, to |-> row]
  BY DEF Loader!ReferOwn
<1>3. /\ reference'.to = row /\ reference'.name = name /\ reference'.kind = kind
      /\ reference'.from = m /\ reference'.alias = Loader!NoAlias
  BY <1>2
<1>4. row \in Loader!Rows /\ row.name = Loader!QualifiedDeclarationName(m, name) /\ row.kind = kind
  BY <1>2 DEF Loader!Lookup
<1>5. PICK n \in Mod : \E i \in DOMAIN contents[n] :
         contents[n][i] \in Loader!Declaration /\ row = Loader!Row(n, i)
  BY <1>4, RowsAreDeclarations
<1>6. PICK i \in DOMAIN contents[n] : contents[n][i] \in Loader!Declaration /\ row = Loader!Row(n, i)
  BY <1>5
<1>7. row.owner = n /\ n = m /\ contents[n][i].name = name /\ contents[n][i].kind = kind
  BY <1>4, <1>6, RowIs, QualifiedNamesDiffer
<1>8. contents[n][i] \in Loader!Declared(n)'
  BY <1>1, <1>6 DEF Loader!Declared, Loader!Range
<1>9. n \in Loader!Module'
  BY <1>1 DEF Loader!Module, Mod
<1>10. Loader!ReferencesRight'
  BY <1>3, <1>7, <1>8, <1>9 DEF Loader!ReferencesRight
<1> QED BY <1>1, <1>10, ReadyKeeps

LEMMA ReferImportedKeeps ==
    ASSUME LoaderSound, NEW m \in Mod, NEW alias, NEW name, NEW kind,
           Loader!ReferImported(m, alias, name, kind)
    PROVE  LoaderSound'
<1> DEFINE rows == Loader!FindModuleImport(m, alias)
           first == Loader!Min(rows)
           target == imports[first].target
           hits == Loader!Lookup(Loader!QualifiedDeclarationName(target, name), kind)
<1>1. loading = "ready" /\ rows # {}
      /\ UNCHANGED <<modulePaths, moduleStates, contents, stack, imports, cycle>>
  BY DEF Loader!ReferImported, Loader!tables
<1>2. first \in rows
  <2>1. rows \in SUBSET Nat
    BY DEF Loader!FindModuleImport, LoaderSound, LoaderTyped
  <2>2. \E x \in rows : \A y \in rows : x <= y
    BY <1>1, <2>1, LeastOne
  <2> QED BY <2>2 DEF Loader!Min
<1>3. first \in DOMAIN imports /\ imports[first].owner = m /\ imports[first].alias = alias
  BY <1>2 DEF Loader!FindModuleImport
<1>4. target \in Mod /\ [use |-> modulePaths[target], alias |-> alias] \in Loader!Uses(m)
  BY <1>1, <1>3 DEF LoaderSound, LoaderTyped, Accepted, TableTrue
<1>5. Loader!ReferencesRight
  BY DEF LoaderSound
<1>6. CASE /\ \E row \in hits :
                 /\ Loader!Visible(row)
                 /\ reference' = [from |-> m, alias |-> alias, name |-> name, kind |-> kind, to |-> row]
           /\ UNCHANGED <<loading, failure>>
  <2>1. PICK row \in hits :
           /\ Loader!Visible(row)
           /\ reference' = [from |-> m, alias |-> alias, name |-> name, kind |-> kind, to |-> row]
    BY <1>6
  <2>2. /\ reference'.to = row /\ reference'.name = name /\ reference'.kind = kind
        /\ reference'.from = m /\ reference'.alias = alias /\ row.public
    BY <2>1 DEF Loader!Visible
  <2> HIDE DEF target
  <2>3. row \in Loader!Rows /\ row.name = Loader!QualifiedDeclarationName(target, name) /\ row.kind = kind
    BY <2>1 DEF Loader!Lookup
  <2>4. PICK n \in Mod : \E i \in DOMAIN contents[n] :
           contents[n][i] \in Loader!Declaration /\ row = Loader!Row(n, i)
    BY <2>3, RowsAreDeclarations
  <2>5. PICK i \in DOMAIN contents[n] : contents[n][i] \in Loader!Declaration /\ row = Loader!Row(n, i)
    BY <2>4
  <2>6. row.owner = n /\ n = target /\ contents[n][i].name = name /\ contents[n][i].kind = kind
    BY <2>3, <2>5, RowIs, QualifiedNamesDiffer
  <2>7. contents[n][i].public
    BY <2>2, <2>5, RowIs
  <2>8. contents[n][i] \in Loader!Declared(n)' /\ n \in Loader!Module'
    BY <1>1, <2>5 DEF Loader!Declared, Loader!Range, Loader!Module, Mod
  <2>9. [use |-> modulePaths'[n], alias |-> alias] \in Loader!Uses(m)'
    BY <1>1, <1>4, <2>6 DEF Loader!Uses
  <2>10. Loader!ReferencesRight'
    BY <2>2, <2>6, <2>7, <2>8, <2>9 DEF Loader!ReferencesRight
  <2> QED BY <1>1, <1>6, <2>10, ReadyKeeps
<1>7. CASE loading' = "failed" /\ failure' \in {"unknown", "private"} /\ UNCHANGED reference
  <2>1. Loader!ReferencesRight'
    BY <1>1, <1>5, <1>7, ReferenceStays
  <2> QED BY <1>1, <1>7, <2>1, ReadyKeeps
<1> QED BY <1>6, <1>7 DEF Loader!ReferImported

(* Nothing is read of the entry file, which is there, at the start. *)
LEMMA LoaderStarts ==
    ASSUME Loader!FilesAssumption, Loader!Init
    PROVE  LoaderSound
<1>1. /\ loading = "load" /\ modulePaths = <<EntryFile>> /\ moduleStates = <<1>>
      /\ contents = <<(<<>>)>> /\ stack = <<[module |-> 1, alias |-> Loader!NoAlias]>>
      /\ imports = <<>> /\ failure = "none" /\ cycle = <<>> /\ reference = Loader!None
  BY DEF Loader!Init
<1>2. EntryFile \in Files \ Absent
  BY DEF Loader!FilesAssumption
<1>3. Mod = {1}
  BY <1>1 DEF Mod
<1>4. LoaderTyped
  <2>1. PICK T : T = Seq(Loader!Item)
    OBVIOUS
  <2>2. <<>> \in T
    BY <2>1, EmptySeq
  <2>3. contents \in Seq(T) /\ Len(contents) = 1
    BY <1>1, <2>2
  <2>4. [module |-> 1, alias |-> Loader!NoAlias] \in CallType
    BY DEF CallType
  <2>5. PICK call : call = [module |-> 1, alias |-> Loader!NoAlias]
    OBVIOUS
  <2>6. stack = <<call>> /\ call \in CallType /\ call.module = 1
    BY <1>1, <2>4, <2>5
  <2>7. stack \in Seq(CallType) /\ \A i \in DOMAIN stack : stack[i].module \in Mod
    BY <1>3, <2>6
  <2>8. modulePaths \in Seq(Files \ Absent) /\ Len(modulePaths) = 1
    BY <1>1, <1>2
  <2>9. moduleStates \in Seq({1, 2}) /\ Len(moduleStates) = 1
    BY <1>1
  <2>10. imports \in Seq(ImportType) /\ DOMAIN imports = {} /\ cycle \in Seq(Files)
    BY <1>1
  <2> QED BY <1>1, <2>1, <2>3, <2>7, <2>8, <2>9, <2>10 DEF LoaderTyped
<1>5. OnePathEach
  BY <1>3 DEF OnePathEach
<1>6. DOMAIN stack = {1} /\ stack[1].module = 1 /\ stack # <<>> /\ DOMAIN imports = {}
      /\ moduleStates[1] = 1 /\ DOMAIN contents[1] = {} /\ Loader!Uses(1) = {}
  BY <1>1 DEF Loader!Uses, Loader!Range
<1>7. CallsNested
  BY <1>1, <1>3, <1>6 DEF CallsNested
<1>8. TableTrue /\ AliasesDiffer /\ OnlyEntryExecutes
  BY <1>3, <1>6 DEF TableTrue, AliasesDiffer, OnlyEntryExecutes
<1>9. ClosedAcyclic
  BY <1>3, <1>6 DEF ClosedAcyclic
<1>10. Accepted
  BY <1>1, <1>7, <1>8, <1>9 DEF Accepted
<1> QED
  BY <1>1, <1>4, <1>5, <1>10
     DEF LoaderSound, Loader!CycleIsReal, Loader!DuplicateIsReal, Loader!ReferencesRight

LEMMA UseModuleKeeps ==
    ASSUME LoaderSound, NEW file \in Files, NEW alias \in Aliases, Loader!UseModule(file, alias)
    PROVE  LoaderSound'
<1> DEFINE item == [use |-> file, alias |-> alias]
<1>1. loading = "load" /\ Loader!Read(item)
  BY DEF Loader!UseModule, Loader!Reading
<1>2. item \in Loader!Item
  BY DEF Loader!Item, Loader!Use
<1>3. cycle \in Seq(Files)
  BY DEF LoaderSound, LoaderTyped
<1>4. CASE Loader!Fail("alias") /\ UNCHANGED cycle
  BY <1>1, <1>2, <1>3, <1>4, FailedRead
<1>5. CASE Loader!Fail("absent") /\ UNCHANGED cycle
  BY <1>1, <1>2, <1>3, <1>5, FailedRead
<1>6. CASE /\ Loader!Loaded(file) /\ Loader!Open(Loader!IndexOf(file))
           /\ Loader!Fail("cycle") /\ cycle' = Append(Loader!OpenPaths, file)
  BY <1>1, <1>6, CycleReported
<1>7. CASE /\ Loader!FindModuleImport(Loader!Top, alias) = {}
           /\ Loader!Loaded(file) /\ ~Loader!Open(Loader!IndexOf(file))
           /\ imports' = Append(imports, [owner |-> Loader!Top, alias |-> alias,
                                          target |-> Loader!IndexOf(file)])
           /\ UNCHANGED <<loading, modulePaths, moduleStates, stack, failure, cycle, reference>>
  BY <1>1, <1>7, UseLoaded
<1> QED BY <1>4, <1>5, <1>6, <1>7 DEF Loader!UseModule

LEMMA DeclareKeeps ==
    ASSUME LoaderSound, NEW d \in Loader!Declaration, Loader!Declare(d)
    PROVE  LoaderSound'
<1>1. d \in Loader!Item /\ d \notin Loader!Use /\ d \notin Loader!Statement
  BY ItemKinds DEF Loader!Item
<1> QED BY <1>1, PlainRead DEF Loader!Declare, Loader!Reading

LEMMA ExecuteKeeps ==
    ASSUME LoaderSound, NEW public \in BOOLEAN, Loader!Execute(public)
    PROVE  LoaderSound'
<1> DEFINE item == [statement |-> TRUE]
<1>1. item \in Loader!Item /\ item \notin Loader!Use
  <2>1. item \in Loader!Statement
    BY DEF Loader!Statement
  <2> QED BY <2>1, ItemKinds DEF Loader!Item
<1>2. loading = "load" /\ Loader!Read(item) /\ cycle' = cycle
  BY DEF Loader!Execute, Loader!Reading
<1>3. cycle \in Seq(Files)
  BY DEF LoaderSound, LoaderTyped
<1>4. CASE Loader!Fail("public")
  BY <1>1, <1>2, <1>3, <1>4, FailedRead
<1>5. CASE Loader!Fail("statement")
  BY <1>1, <1>2, <1>3, <1>5, FailedRead
<1>6. CASE Loader!MayExecute(Loader!Top)
           /\ UNCHANGED <<loading, modulePaths, moduleStates, stack, imports, failure, reference>>
  BY <1>1, <1>2, <1>6, PlainRead DEF Loader!MayExecute
<1> QED BY <1>4, <1>5, <1>6 DEF Loader!Execute

LEMMA EndOfFileKeeps ==
    ASSUME LoaderSound, Loader!EndOfFile
    PROVE  LoaderSound'
<1>1. /\ loading = "load" /\ moduleStates' = [moduleStates EXCEPT ![Loader!Top] = 2]
      /\ stack' = Loader!Front(stack)
      /\ UNCHANGED <<modulePaths, contents, failure, cycle, reference>>
  BY DEF Loader!EndOfFile
<1>2. CASE Len(stack) > 1 /\ imports' = Append(imports, Loader!Returned(Loader!Top))
           /\ UNCHANGED loading
  BY <1>1, <1>2, ImportReturns
<1>3. CASE Len(stack) = 1 /\ loading' \in {"single", "collect"} /\ UNCHANGED imports
  BY <1>1, <1>3, EntryReturns
<1> QED BY <1>2, <1>3 DEF Loader!EndOfFile

LEMMA LoaderKept == LoaderSound /\ [Loader!Next]_(Loader!vars) => LoaderSound'
<1> SUFFICES ASSUME LoaderSound, [Loader!Next]_(Loader!vars) PROVE LoaderSound'
  OBVIOUS
<1>1. ASSUME NEW f \in Files, NEW a \in Aliases, Loader!UseModule(f, a) PROVE LoaderSound'
  BY <1>1, UseModuleKeeps
<1>2. ASSUME NEW f \in Files, NEW a \in Aliases, Loader!UseNewModule(f, a) PROVE LoaderSound'
  BY <1>2, UseNew
<1>3. ASSUME NEW d \in Loader!Declaration, Loader!Declare(d) PROVE LoaderSound'
  BY <1>3, DeclareKeeps
<1>4. ASSUME NEW public \in BOOLEAN, Loader!Execute(public) PROVE LoaderSound'
  BY <1>4, ExecuteKeeps
<1>5. CASE Loader!EndOfFile
  BY <1>5, EndOfFileKeeps
<1>6. CASE Loader!Collect
  BY <1>6, CollectKeeps
<1>7. ASSUME NEW m \in Loader!Module, NEW n \in Declarations, NEW k \in Loader!DeclarationKinds,
             Loader!ReferOwn(m, n, k)
      PROVE  LoaderSound'
  BY <1>7, ReferOwnKeeps DEF Loader!Module, Mod
<1>8. ASSUME NEW m \in Loader!Module, NEW n \in Declarations, NEW k \in Loader!DeclarationKinds,
             NEW a \in Aliases, Loader!ReferImported(m, a, n, k)
      PROVE  LoaderSound'
  BY <1>8, ReferImportedKeeps DEF Loader!Module, Mod
<1>9. CASE UNCHANGED Loader!vars
  <2>1. UNCHANGED <<loading, modulePaths, moduleStates, contents, stack, imports, failure,
                    cycle, reference>>
    BY <1>9 DEF Loader!vars, Loader!tables
  <2>2. Mod' = Mod /\ \A m \in Mod : Loader!Uses(m)' = Loader!Uses(m)
    BY <2>1 DEF Mod, Loader!Uses
  <2>3. LoaderTyped' /\ OnePathEach'
    BY <2>1, <2>2 DEF LoaderSound, LoaderTyped, OnePathEach
  <2>4. Loader!CycleIsReal' /\ Loader!DuplicateIsReal' /\ Loader!ReferencesRight'
    <3>1. Loader!CycleIsReal /\ Loader!DuplicateIsReal /\ Loader!ReferencesRight
      BY DEF LoaderSound
    <3>2. UNCHANGED <<modulePaths, contents, failure, cycle, reference>>
      BY <2>1
    <3>3. Loader!CycleIsReal'
      BY ONLY <3>1, <3>2 DEF Loader!CycleIsReal, Loader!Imports, Loader!Uses, Loader!Module
    <3>4. Loader!DuplicateIsReal'
      BY ONLY <3>1, <3>2 DEF Loader!DuplicateIsReal, Loader!Module
    <3>5. Loader!ReferencesRight'
      BY ONLY <3>1, <3>2 DEF Loader!ReferencesRight, Loader!Imports, Loader!Uses,
                             Loader!Declared, Loader!Module
    <3> QED BY <3>3, <3>4, <3>5
  <2>5. ASSUME Accepted PROVE Accepted'
    <3>1. CallsNested => CallsNested'
      <4>1. ASSUME CallsNested PROVE \A i \in DOMAIN stack : i > 1 => stack[i - 1].module \in Mod
        <5>1. \A i \in DOMAIN stack : i > 1 => i - 1 \in DOMAIN stack
          BY DEF LoaderSound, LoaderTyped
        <5> QED BY <5>1 DEF LoaderSound, LoaderTyped
      <4>2. \A i \in DOMAIN stack : UseOf(i)' = UseOf(i)
        BY <2>1 DEF UseOf
      <4> QED BY <2>1, <2>2, <4>1, <4>2 DEF CallsNested
    <3>2. TableTrue'
      <4>1. TableTrue /\ \A i \in DOMAIN imports : imports[i].owner \in Mod
        BY <2>5 DEF Accepted, LoaderTyped, LoaderSound
      <4> QED BY ONLY <2>1, <2>2, <4>1 DEF TableTrue, HasRow, Waits, UseOf
    <3>3. ClosedAcyclic'
      <4>1. ClosedAcyclic
        BY <2>5 DEF Accepted
      <4> QED BY ONLY <2>1, <2>2, <4>1 DEF ClosedAcyclic
    <3>4. AliasesDiffer' /\ OnlyEntryExecutes' /\ (DeclaredOnce => DeclaredOnce')
      BY <2>1, <2>2, <2>5 DEF Accepted, AliasesDiffer, OnlyEntryExecutes, DeclaredOnce
    <3> QED BY <2>1, <2>2, <2>5, <3>1, <3>2, <3>3, <3>4 DEF Accepted
  <2> QED BY <2>1, <2>3, <2>4, <2>5 DEF LoaderSound
<1> QED BY <1>1, <1>2, <1>3, <1>4, <1>5, <1>6, <1>7, <1>8, <1>9 DEF Loader!Next

(* A set of files that all import another of the set would be a set of     *)
(* modules that each have a row to another.                                *)
LEMMA LoadedSound ==
    ASSUME LoaderTyped, OnePathEach, Accepted, loading \in Loader!Finished
    PROVE  Loader!LoadedIsAcyclic /\ Loader!ImportsComplete
<1>1. /\ TableTrue /\ ClosedAcyclic /\ \A m \in Mod : moduleStates[m] = 2
      /\ loading # "load"
  BY DEF Accepted, Loader!Finished
<1>2. DOMAIN modulePaths = Mod
  BY DEF LoaderTyped, Mod
<1>3. \A i \in DOMAIN imports : imports[i].owner \in Mod /\ imports[i].target \in Mod
  BY DEF LoaderTyped
<1>4. \A m \in Mod : \A u \in Loader!Uses(m) : HasRow(m, u)
  BY <1>1 DEF TableTrue, Waits
<1>5. Loader!LoadedIsAcyclic
  <2> SUFFICES ASSUME NEW S \in SUBSET Loader!Range(modulePaths), S # {}
               PROVE  \E f \in S : \A g \in S : ~Loader!Imports(f, g)
    BY DEF Loader!LoadedIsAcyclic
  <2>1. PICK T : T = {m \in Mod : modulePaths[m] \in S}
    OBVIOUS
  <2>2. T \in SUBSET Mod /\ T # {}
    BY <1>2, <2>1 DEF Loader!Range
  <2>3. PICK f \in T : \A i \in DOMAIN imports : ~(imports[i].owner = f /\ imports[i].target \in T)
    BY <1>1, <2>2 DEF ClosedAcyclic
  <2>4. f \in Mod /\ modulePaths[f] \in S
    BY <2>1, <2>3
  <2>5. ASSUME NEW g \in S, Loader!Imports(modulePaths[f], g) PROVE FALSE
    <3>1. PICK m \in Mod : modulePaths[m] = modulePaths[f] /\ \E u \in Loader!Uses(m) : u.use = g
      BY <2>5 DEF Loader!Imports, Loader!Module, Mod
    <3>2. m = f
      BY <2>4, <3>1 DEF OnePathEach
    <3>3. PICK u \in Loader!Uses(f) : u.use = g
      BY <3>1, <3>2
    <3>4. PICK i \in DOMAIN imports : imports[i].owner = f /\ modulePaths[imports[i].target] = g
      BY <1>4, <2>4, <3>3 DEF HasRow
    <3>5. imports[i].target \in T
      BY <1>3, <2>1, <2>5, <3>4
    <3> QED BY <2>3, <3>4, <3>5
  <2> QED BY <2>4, <2>5
<1>6. Loader!ImportsComplete
  <2> DEFINE Told == {<<imports[i].owner, imports[i].alias, modulePaths[imports[i].target]>> :
                         i \in DOMAIN imports}
             Said == UNION {{<<m, u.alias, u.use>> : u \in Loader!Uses(m)} : m \in Mod}
  <2>1. ASSUME NEW i \in DOMAIN imports
        PROVE  <<imports[i].owner, imports[i].alias, modulePaths[imports[i].target]>> \in Said
    <3>1. PICK u : u = [use |-> modulePaths[imports[i].target], alias |-> imports[i].alias]
      OBVIOUS
    <3>2. u \in Loader!Uses(imports[i].owner) /\ imports[i].owner \in Mod
      BY <1>1, <1>3, <3>1 DEF TableTrue
    <3>3. u.use = modulePaths[imports[i].target] /\ u.alias = imports[i].alias
      BY <3>1
    <3> QED BY <3>2, <3>3
  <2>2. ASSUME NEW m \in Mod, NEW u \in Loader!Uses(m) PROVE <<m, u.alias, u.use>> \in Told
    <3>1. PICK i \in DOMAIN imports : /\ imports[i].owner = m /\ imports[i].alias = u.alias
                                      /\ modulePaths[imports[i].target] = u.use
      BY <1>4 DEF HasRow
    <3> QED BY <3>1
  <2>3. Told \subseteq Said
    BY <2>1
  <2>4. Said \subseteq Told
    BY <2>2
  <2>5. Told = Said
    BY <2>3, <2>4
  <2> QED BY <2>5 DEF Loader!ImportsComplete, Loader!Module, Mod
<1> QED BY <1>5, <1>6

LEMMA AcceptedSound ==
    ASSUME LoaderTyped, Accepted, loading \in Loader!Finished
    PROVE  Loader!AcceptedIsLegal
<1>1. AliasesDiffer /\ OnlyEntryExecutes /\ (loading = "ready" => DeclaredOnce)
  BY DEF Accepted
<1>2. \A m \in Mod : \A item \in Loader!Range(contents[m]) :
          \E i \in DOMAIN contents[m] : item = contents[m][i]
  BY DEF Loader!Range
<1> QED BY <1>1, <1>2 DEF Loader!AcceptedIsLegal, AliasesDiffer, OnlyEntryExecutes, DeclaredOnce,
                          Loader!Module, Mod

(* The parts of the invariant are the property. *)
LEMMA LoaderIsSound == LoaderSound => Loader!ModulesSound
<1> SUFFICES ASSUME LoaderSound PROVE Loader!ModulesSound
  OBVIOUS
<1>1. LoaderTyped /\ OnePathEach /\ (loading # "failed" => Accepted)
      /\ Loader!CycleIsReal /\ Loader!DuplicateIsReal /\ Loader!ReferencesRight
  BY DEF LoaderSound
<1>2. Loader!TypeOK
  <2>1. DOMAIN moduleStates = Loader!Module /\ \A m \in Loader!Module : moduleStates[m] \in {1, 2}
    BY <1>1 DEF LoaderTyped, Loader!Module
  <2>2. moduleStates \in [Loader!Module -> {1, 2}]
    BY <1>1, <2>1 DEF LoaderTyped
  <2>3. contents \in [Loader!Module -> Seq(Loader!Item)]
    <3>1. PICK T : T = Seq(Loader!Item)
      OBVIOUS
    <3>2. contents \in Seq(T) /\ Len(contents) = Len(modulePaths)
      BY <1>1, <3>1 DEF LoaderTyped
    <3>3. contents \in [1..Len(contents) -> T]
      BY ONLY <3>2
    <3> QED BY <3>1, <3>2, <3>3 DEF Loader!Module
  <2> QED BY <1>1, <2>2, <2>3 DEF LoaderTyped, Loader!TypeOK, Loader!Module, Mod
<1>3. Loader!LoadedOnce
  <2>1. DOMAIN modulePaths = Mod
    BY <1>1 DEF LoaderTyped, Mod
  <2>2. Loader!IsInjective(modulePaths)
    BY <1>1, <2>1 DEF Loader!IsInjective, OnePathEach
  <2>3. ASSUME loading = "load"
        PROVE  /\ {stack[i].module : i \in DOMAIN stack} = {m \in Mod : moduleStates[m] = 1}
               /\ \A i, j \in DOMAIN stack : i < j => stack[i].module < stack[j].module
    <3>1. CallsNested /\ \A i \in DOMAIN stack : stack[i].module \in Mod
      BY <1>1, <2>3 DEF Accepted, LoaderTyped
    <3>2. \A m \in Mod : moduleStates[m] = 1 <=> \E i \in DOMAIN stack : stack[i].module = m
      BY <3>1 DEF CallsNested
    <3> QED BY <3>1, <3>2 DEF CallsNested
  <2> QED BY <2>2, <2>3 DEF Loader!LoadedOnce, Loader!Module, Mod
<1>4. Loader!LoadedIsAcyclic /\ Loader!ImportsComplete /\ Loader!AcceptedIsLegal
  <2>1. CASE loading \in Loader!Finished
    <3>1. Accepted
      BY <1>1, <2>1 DEF Loader!Finished
    <3> QED BY <1>1, <2>1, <3>1, LoadedSound, AcceptedSound
  <2>2. CASE loading \notin Loader!Finished
    BY <2>2 DEF Loader!LoadedIsAcyclic, Loader!ImportsComplete, Loader!AcceptedIsLegal, Loader!Finished
  <2> QED BY <2>1, <2>2
<1> QED BY <1>1, <1>2, <1>3, <1>4 DEF Loader!ModulesSound

(* However files import each other, loadModule reads each once and finds   *)
(* exactly the cycles, the table of imports says what the files say, and a *)
(* rewritten name means what its reader sees.                              *)
THEOREM ModulesLoadRight == FrontSpec => []ModulesSound
<1>1. FrontInit => LoaderSound
  BY LoaderStarts, LoaderAssumption DEF FrontInit
<1>2. LoaderSound /\ [FrontNext]_frontVars => LoaderSound'
  <2>1. UNCHANGED loaderVars => UNCHANGED Loader!vars
    <3>1. UNCHANGED loaderVars => UNCHANGED <<loading, failure, cycle, reference>> /\ UNCHANGED Loader!tables
      BY DEF loaderVars, Loader!tables
    <3> QED BY <3>1 DEF Loader!vars
  <2>2. [FrontNext]_frontVars => Loader!Next \/ UNCHANGED loaderVars
    BY DEF FrontNext, SymbolsPass, PathsPass, ModulesPass, frontVars
  <2> QED BY <2>1, <2>2, LoaderKept, LoaderAssumption
<1>3. LoaderSound => ModulesSound
  BY LoaderIsSound DEF ModulesSound
<1> QED BY <1>1, <1>2, <1>3, PTL DEF FrontSpec
=============================================================================
