---------------------------- MODULE SymbolLookup ----------------------------
(***************************************************************************)
(* The compiler's table of declarations (compiler.min 351-523).  Symbols   *)
(* have a name and a kind.  buildSymbolLookup sorts their positions with a *)
(* heap sort, requireUniqueSymbols looks for equal neighbours, and         *)
(* findIndexedSymbol finds a symbol by binary search.  compileTokens       *)
(* appends the sorted positions to the return types, where                 *)
(* findCompiledSymbol searches them.                                       *)
(*                                                                         *)
(* One iteration of a loop is one step.  Positions start at 0, as in the   *)
(* source.                                                                 *)
(***************************************************************************)
EXTENDS Integers, FiniteSetsExt, SequencesExt

CONSTANTS Names,       \* names, as sequences of character codes
          Kinds,       \* 1 for functions, 2 for records
          MaxSymbols   \* bound: symbols in the table

Symbol == [name : Names, kind : Kinds]

(* compareText: the first difference decides, then the length. *)
CompareText(left, right) ==
    LET shared == Min({Len(left), Len(right)})
        differ == {i \in 1..shared : left[i] # right[i]}
        sign(a, b) == IF a < b THEN -1 ELSE IF a > b THEN 1 ELSE 0
    IN  IF differ = {} THEN sign(Len(left), Len(right))
        ELSE sign(left[Min(differ)], right[Min(differ)])

(* compareSymbol is negative. *)
Before(a, b) ==
    \/ CompareText(a.name, b.name) < 0
    \/ CompareText(a.name, b.name) = 0 /\ a.kind < b.kind

ASSUME SymbolAssumption ==
    /\ Names # {} /\ Names \subseteq Seq(Nat)
    /\ Kinds # {} /\ Kinds \subseteq Int
ASSUME BoundAssumption == MaxSymbols \in Nat

VARIABLES symbols,   \* symbolNames and symbolKinds
          lookup,    \* the positions, being sorted
          phase,
          start,     \* heap roots are made from here on
          end,       \* from here on lookup is sorted
          root,      \* the entry that sinks
          returns,   \* symbolReturnTypes
          compiled,  \* findCompiledSymbol searches
          wanted,    \* the symbol searched for
          low, high,
          found      \* the result of a search, or the reported duplicate

sortVars == <<symbols, lookup, start, end, root, returns>>
searchVars == <<compiled, wanted, low, high, found>>
vars == <<sortVars, searchVars, phase>>

Missing == -1
ReturnType == -2   \* any return type
Size == Cardinality(DOMAIN symbols)
At(i) == symbols[lookup[i]]

(* Two entries are exchanged. *)
Swap(i, j) == [lookup EXCEPT ![i] = lookup[j], ![j] = lookup[i]]

Init ==
    /\ \E n \in 0..MaxSymbols : symbols \in [0..(n - 1) -> Symbol]
    /\ lookup = [i \in DOMAIN symbols |-> i]
    /\ phase = "heapify"
    /\ start = Size \div 2 /\ end = Size /\ root = 0
    /\ returns = [i \in DOMAIN symbols |-> ReturnType]
    /\ compiled = FALSE
    /\ wanted = (CHOOSE s \in Symbol : TRUE) /\ low = 0 /\ high = 0
    /\ found = Missing
-----------------------------------------------------------------------------
(* The two loops of buildSymbolLookup. *)
Heapify ==
    /\ phase = "heapify"
    /\ \/ /\ start > 0
          /\ start' = start - 1 /\ root' = start - 1
          /\ phase' = "sift"
       \/ /\ start = 0
          /\ phase' = "extract"
          /\ UNCHANGED <<start, root>>
    /\ UNCHANGED <<symbols, lookup, end, returns, searchVars>>

Extract ==
    /\ phase = "extract"
    /\ \/ /\ end > 1
          /\ end' = end - 1 /\ root' = 0
          /\ lookup' = Swap(0, end - 1)
          /\ phase' = "sink"
       \/ /\ end <= 1
          /\ phase' = "unique"
          /\ UNCHANGED <<lookup, end, root>>
    /\ UNCHANGED <<symbols, start, returns, searchVars>>

(* The larger child. *)
Selected(r) ==
    LET child == r * 2 + 1 IN
    IF child + 1 < end /\ Before(At(child), At(child + 1)) THEN child + 1 ELSE child

(* An iteration of siftSymbolLookup, for either loop. *)
Sift ==
    /\ phase \in {"sift", "sink"}
    /\ \/ /\ root * 2 + 1 < end /\ Before(At(root), At(Selected(root)))
          /\ lookup' = Swap(root, Selected(root))
          /\ root' = Selected(root)
          /\ UNCHANGED phase
       \/ /\ ~(root * 2 + 1 < end /\ Before(At(root), At(Selected(root))))
          /\ phase' = IF phase = "sift" THEN "heapify" ELSE "extract"
          /\ UNCHANGED <<lookup, root>>
    /\ UNCHANGED <<symbols, start, end, returns, searchVars>>

(* The places where equal symbols are neighbours. *)
Twins == {p \in 1..(Size - 1) : At(p - 1) = At(p)}

(* Of two equal neighbours the one declared later. *)
Reported(p) == Max({lookup[p - 1], lookup[p]})

(* requireUniqueSymbols fails at the first pair it meets; otherwise the    *)
(* positions are appended to the return types.                             *)
RequireUnique ==
    /\ phase = "unique"
    /\ \/ /\ Twins = {}
          /\ phase' = "ready"
          /\ returns' = [i \in 0..(2 * Size - 1) |->
                            IF i < Size THEN returns[i] ELSE lookup[i - Size]]
          /\ UNCHANGED found
       \/ /\ Twins # {}
          /\ phase' = "duplicate"
          /\ found' = Reported(Min(Twins))
          /\ UNCHANGED returns
    /\ UNCHANGED <<symbols, lookup, start, end, root, compiled, wanted, low, high>>

SearchEnd == Size

(* A call of findIndexedSymbol or findCompiledSymbol. *)
Find(s) ==
    /\ phase = "ready"
    /\ compiled' \in BOOLEAN
    /\ wanted' = s /\ low' = 0 /\ high' = SearchEnd
    /\ phase' = "search"
    /\ UNCHANGED <<sortVars, found>>

(* The position read from the table that is searched. *)
Entry(i) == IF compiled THEN returns[Size + i] ELSE lookup[i]

Middle == low + (high - low) \div 2

(* Mutant: the middle stays in the range. *)
AfterMiddleKept == Middle

AfterMiddle == Middle + 1

(* Mutant: an entry equal to the one wanted is passed. *)
LowerEqual(s) == Before(s, wanted) \/ s = wanted

Lower(s) == Before(s, wanted)

Search ==
    /\ phase = "search"
    /\ \/ /\ low < high /\ Lower(symbols[Entry(Middle)])
          /\ low' = AfterMiddle
          /\ UNCHANGED <<high, phase, found>>
       \/ /\ low < high /\ ~Lower(symbols[Entry(Middle)])
          /\ high' = Middle
          /\ UNCHANGED <<low, phase, found>>
       \/ /\ low >= high
          /\ found' = IF low < Size THEN IF symbols[Entry(low)] = wanted THEN Entry(low) ELSE Missing
                      ELSE Missing
          /\ phase' = "found"
          /\ UNCHANGED <<low, high>>
    /\ UNCHANGED <<sortVars, compiled, wanted>>

Return ==
    /\ phase = "found"
    /\ phase' = "ready" /\ found' = Missing
    /\ UNCHANGED <<sortVars, compiled, wanted, low, high>>

Next ==
    \/ Heapify \/ Extract \/ Sift \/ RequireUnique
    \/ \E s \in Symbol : Find(s)
    \/ Search \/ Return

Spec == Init /\ [][Next]_vars
-----------------------------------------------------------------------------
Phases == {"heapify", "sift", "extract", "sink", "unique", "duplicate",
           "ready", "search", "found"}

TypeOK ==
    /\ symbols \in [DOMAIN symbols -> Symbol]
    /\ lookup \in [DOMAIN symbols -> DOMAIN symbols]
    /\ phase \in Phases
    /\ start \in 0..Size /\ end \in 0..Size /\ root \in 0..Size
    /\ compiled \in BOOLEAN /\ wanted \in Symbol /\ low \in 0..Size /\ high \in 0..Size
    /\ found \in {Missing} \cup DOMAIN symbols

(* No symbol is lost or doubled by the exchanges of siftSymbolLookup. *)
AllPositionsKept == {lookup[i] : i \in DOMAIN lookup} = DOMAIN symbols

Parent(i) == (i - 1) \div 2

(* The heap sort of buildSymbolLookup: from start to end parents are not   *)
(* before their children, except for the entry that is sinking, whose      *)
(* parent is not before its children either; from end on everything is     *)
(* sorted and not before any entry of the heap.                            *)
HeapOrdered ==
    LET sinking == phase \in {"sift", "sink"}
        inHeap == {i \in start..(end - 1) : i > 0 /\ Parent(i) >= start}
    IN  phase \in {"heapify", "sift", "extract", "sink"} =>
        /\ \A i \in inHeap :
              (sinking /\ Parent(i) = root) \/ ~Before(At(Parent(i)), At(i))
        /\ sinking => \A i \in inHeap :
              (Parent(i) = root /\ root > 0 /\ Parent(root) >= start)
                  => ~Before(At(Parent(root)), At(i))
        /\ \A i \in end..(Size - 1) : \A j \in 0..(i - 1) : ~Before(At(i), At(j))

(* The table is searched only when it is sorted and without duplicates. *)
SearchedWhenSorted ==
    phase \in {"ready", "search", "found"} =>
        /\ \A i, j \in DOMAIN lookup : i < j => Before(At(i), At(j))
        /\ IsInjective(symbols)

(* A reported duplicate was really declared before. *)
DuplicateTrue ==
    phase = "duplicate" => \E i \in DOMAIN symbols : i < found /\ symbols[i] = symbols[found]

(* findSymbol: the linear search the index replaces. *)
FindSymbol(s) ==
    LET hits == {i \in DOMAIN symbols : symbols[i] = s} IN
    IF hits = {} THEN Missing ELSE Min(hits)

(* The binary search finds what a linear search finds. *)
FindsLikeLinearSearch == phase = "found" => found = FindSymbol(wanted)

Loops == {"heapify", "sift", "extract", "sink", "search"}

(* What is left to do: heap roots to make or entries to extract, each with *)
(* at most Size levels to sink through; or places to search.               *)
Remaining ==
    LET sift == 2 * (Size + 2)
        level == IF phase \in {"sift", "sink"} THEN Size + 2 - root ELSE 0
    IN  IF phase \in {"heapify", "sift"} THEN (Size + 1 + start) * sift + level + 1
        ELSE IF phase \in {"extract", "sink"} THEN end * sift + level + 1
        ELSE IF phase = "search" THEN high - low + 1
        ELSE 0

(* Sorting and every search come to an end: no loop can go on for ever on  *)
(* equal entries, an empty range or the last level of the heap.  Every     *)
(* iteration changes something, and leaves less to do.                     *)
LoopsShrink ==
    /\ [](phase \in Loops => ENABLED <<Next>>_vars)
    /\ [][phase \notin Loops \/ (Remaining' < Remaining /\ Remaining' >= 0)]_vars

(* The sort keeps every symbol, and the table is searched only when it is  *)
(* sorted and unique; then findSymbolCompiled and its kin find what a      *)
(* linear search finds.                                                    *)
LookupSound ==
    TypeOK /\ AllPositionsKept /\ HeapOrdered /\ SearchedWhenSorted /\ DuplicateTrue
           /\ FindsLikeLinearSearch
=============================================================================
