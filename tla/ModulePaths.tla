----------------------------- MODULE ModulePaths -----------------------------
(***************************************************************************)
(* How the compiler names a module file: normalizePath, directoryOfPath    *)
(* and resolveModulePath (compiler.min 3059-3174).  Modules are identified *)
(* by the normalised path, so two spellings of one file must give one      *)
(* result, and the result must still be that file.                         *)
(*                                                                         *)
(* A path is a drive or none, a leading separator or none, and the parts   *)
(* between separators.  One part is one step.                              *)
(***************************************************************************)
EXTENDS Integers, SequencesExt

CONSTANTS Names,          \* ordinary parts
          Up, Here,       \* the parts ".." and "."
          Blank,          \* the part between two separators
          MaxImporter,    \* bound: parts of the importer's path
          MaxSpecifier    \* bound: parts of the text after use

PartsAssumption ==
    Up # Here /\ Up # Blank /\ Here # Blank /\ Names \cap {Up, Here, Blank} = {}

Part == Names \cup {Up, Here, Blank}
Path == [drive : BOOLEAN, absolute : BOOLEAN, items : Seq(Part)]

VARIABLES importer, specifier,
          stage,           \* "importer": the importer is normalised; "module": the join
          path,            \* the path that is normalised
          parts,           \* parts that were kept, active of them in use
          active,
          position,
          result

vars == <<importer, specifier, stage, path, parts, active, position, result>>

NoPath == [drive |-> FALSE, absolute |-> FALSE, items |-> <<>>]

(* The path of a file ends in a name. *)
FileParts(n) == {s \in UNION {[1..k -> Part] : k \in 1..n} : Last(s) \in Names}

Init ==
    /\ importer \in [drive : BOOLEAN, absolute : BOOLEAN, items : FileParts(MaxImporter)]
    /\ ~importer.absolute => importer.items[1] # Blank
    /\ specifier \in FileParts(MaxSpecifier)
    /\ path = importer /\ stage = "importer"
    /\ parts = <<>> /\ active = 0 /\ position = 1
    /\ result = NoPath
-----------------------------------------------------------------------------
(* The next part is put where the last one in use ends. *)
Kept(part) ==
    IF active < Len(parts) THEN [parts EXCEPT ![active + 1] = part]
    ELSE Append(parts, part)

(* ".." takes back the part before it, unless that is a "..". *)
TakesBack == active > 0 /\ parts[active] # Up

(* Mutant: ".." is kept in an absolute path. *)
KeepsUpAlways == TRUE

KeepsUp == ~path.absolute

(* An iteration of the loop of normalizePath. *)
NormalizePart ==
    LET part == path.items[position] IN
    /\ stage \in {"importer", "module"} /\ position <= Len(path.items)
    /\ position' = position + 1
    /\ \/ /\ part = Up /\ TakesBack
          /\ active' = active - 1 /\ UNCHANGED parts
       \/ /\ \/ part = Up /\ ~TakesBack /\ KeepsUp
             \/ part \in Names
          /\ parts' = Kept(part) /\ active' = active + 1
       \/ /\ \/ part = Up /\ ~TakesBack /\ ~KeepsUp
             \/ part \in {Here, Blank}
          /\ UNCHANGED <<parts, active>>
    /\ UNCHANGED <<importer, specifier, stage, path, result>>

(* The text that is put together: behind a drive there is a separator, so  *)
(* the result reads as absolute.                                           *)
Written ==
    [drive |-> path.drive,
     absolute |-> path.absolute \/ (path.drive /\ active > 0),
     items |-> SubSeq(parts, 1, active)]

(* directory + "/" + specifier.  The root directory is written as "/",     *)
(* which makes one separator more.                                         *)
Joined(p) ==
    LET root == p.absolute /\ ~p.drive /\ Len(p.items) = 1
    IN  [p EXCEPT !.items = (IF root THEN <<Blank>> ELSE Front(@)) \o specifier]

(* resolveModulePath accepts what starts with "./" or "../", and           *)
(* normalises the joined path; without a directory the specifier alone.    *)
Resolve ==
    /\ stage = "importer" /\ position > Len(path.items)
    /\ \/ /\ specifier[1] \in {Here, Up} /\ Len(specifier) > 1
          /\ path' = Joined(Written)
          /\ stage' = "module"
       \/ /\ ~(specifier[1] \in {Here, Up} /\ Len(specifier) > 1)
          /\ stage' = "failed" /\ path' = path
    /\ parts' = <<>> /\ active' = 0 /\ position' = 1
    /\ UNCHANGED <<importer, specifier, result>>

Finish ==
    /\ stage = "module" /\ position > Len(path.items)
    /\ result' = Written
    /\ stage' = "done"
    /\ UNCHANGED <<importer, specifier, path, parts, active, position>>

Next == NormalizePart \/ Resolve \/ Finish

Spec == Init /\ [][Next]_vars
-----------------------------------------------------------------------------
TypeOK ==
    /\ importer \in Path /\ path \in Path /\ result \in Path
    /\ specifier \in Seq(Part)
    /\ stage \in {"importer", "module", "done", "failed"}
    /\ parts \in Seq(Names \cup {Up}) /\ active \in 0..Len(parts)
    /\ position \in 1..(Len(path.items) + 1)

(* The directory or file that parts lead to, from a directory. *)
Walk(from, items) ==
    LET go[i \in 0..Len(items)] ==
            IF i = 0 THEN from
            ELSE IF items[i] \in {Here, Blank} THEN go[i - 1]
            ELSE IF items[i] = Up THEN IF go[i - 1] = <<>> THEN <<>> ELSE Front(go[i - 1])
            ELSE Append(go[i - 1], items[i])
    IN  go[Len(items)]

(* Where the compiler was started, or the root directory. *)
From(p, directory) == IF p.absolute THEN <<>> ELSE directory
Directories == {<<>>, <<"work">>, <<"home", "work">>, <<"home", "user", "work">>}

(* The module is the file that the specifier names from the directory of   *)
(* the importer, never from where the compiler was started (modules.md     *)
(* 31-32).  A path relative to the current directory of a drive is left    *)
(* out: normalizePath makes it absolute.                                   *)
ResolvesFromImporter ==
    stage = "done" /\ (importer.drive => importer.absolute) =>
        \A d \in Directories :
            Walk(From(result, d), result.items)
                = Walk(Front(Walk(From(importer, d), importer.items)), specifier)

(* While parts are read, what is in use leads where the path has led. *)
PrefixExact ==
    stage \in {"importer", "module"} =>
        \A d \in Directories :
            Walk(From(path, d), SubSeq(parts, 1, active))
                = Walk(From(path, d), SubSeq(path.items, 1, position - 1))

(* One file has one name: in a result ".." comes first, and only in a      *)
(* relative path.                                                          *)
NormalForm ==
    stage = "done" =>
        \A i \in 1..Len(result.items) :
            /\ result.items[i] \in Names \cup {Up}
            /\ result.items[i] = Up =>
                  ~result.absolute /\ \A j \in 1..i : result.items[j] = Up

(* A module has one name, and that names the file the importer meant. *)
PathsSound == TypeOK /\ PrefixExact /\ ResolvesFromImporter /\ NormalForm
=============================================================================
