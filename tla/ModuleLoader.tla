---------------------------- MODULE ModuleLoader ----------------------------
(***************************************************************************)
(* Loading a program of several files: loadModule, the collection of       *)
(* declarations and the rewriting of names that refer to other modules     *)
(* (compiler.min 3176-3558).                                               *)
(*                                                                         *)
(* loadModule calls itself for each import that it meets; the calls are a  *)
(* stack.  A file is a list of items: an import, a declaration or a        *)
(* statement.  What a file holds is chosen item by item as it is read.     *)
(* Imports name files by their normal path (module ModulePaths).           *)
(***************************************************************************)
EXTENDS Integers, SequencesExt

CONSTANTS Files, Absent,   \* paths, and those without a file
          EntryFile,           \* the file given to the compiler
          Aliases, Names,
          Main,            \* the name "main"
          MaxItems         \* bound: items of all files together

FilesAssumption == EntryFile \in Files /\ Absent \subseteq Files \ {EntryFile}
NamesAssumption == Main \in Names /\ MaxItems \in Nat

DeclarationKinds == {1, 2}   \* functions and records
Use == [use : Files, alias : Aliases]
Declaration == [name : Names, kind : DeclarationKinds, public : BOOLEAN]
Statement == [statement : {TRUE}]
Item == Use \cup Declaration \cup Statement

VARIABLES phase,
          modulePaths, moduleStates,   \* 1 while a module is being read, then 2
          contents,                    \* items read from each module
          stack,                       \* calls of loadModule, and the alias each is for
          imports,                     \* importOwners, importAliases, importTargets
          failure,
          cycle,                       \* the reported chain of paths
          reference                    \* the last reference that was rewritten

tables == <<modulePaths, moduleStates, contents, stack, imports>>
vars == <<phase, tables, failure, cycle, reference>>

None == [none |-> TRUE]
NoAlias == "entry"
Module == 1..Len(modulePaths)
Top == Last(stack).module
Uses(m) == {i \in Range(contents[m]) : i \in Use}
Declared(m) == {i \in Range(contents[m]) : i \in Declaration}
ItemsRead == FoldLeft(LAMBDA sum, c : sum + Len(c), 0, contents)

Init ==
    /\ phase = "load"
    /\ modulePaths = <<EntryFile>> /\ moduleStates = <<1>> /\ contents = <<<<>>>>
    /\ stack = <<[module |-> 1, alias |-> NoAlias]>>
    /\ imports = <<>>
    /\ failure = "none" /\ cycle = <<>> /\ reference = None
-----------------------------------------------------------------------------
Reading == phase = "load" /\ ItemsRead < MaxItems
Read(item) == contents' = [contents EXCEPT ![Top] = Append(@, item)]

Fail(why) ==
    /\ phase' = "failed" /\ failure' = why
    /\ UNCHANGED <<modulePaths, moduleStates, stack, imports, reference>>

(* findText *)
Loaded(file) == file \in Range(modulePaths)

(* readTextFile stops the compiler when there is no file. *)
Readable(file) == file \notin Absent

IndexOf(file) == CHOOSE m \in Module : modulePaths[m] = file

(* findModuleImport *)
FindModuleImport(m, alias) ==
    {i \in DOMAIN imports : imports[i].owner = m /\ imports[i].alias = alias}

(* The module is being read by a call that has not returned. *)
Open(m) == moduleStates[m] = 1

(* The chain of a report: the modules in state 1, in order of their        *)
(* positions.                                                              *)
OpenPaths ==
    LET open == {m \in Module : Open(m)}
        Ith(i) == CHOOSE m \in open : Cardinality(open \cap 1..m) = i
    IN  [i \in 1..Cardinality(open) |-> modulePaths[Ith(i)]]

(* use "..." as alias, up to the recursive call. *)
UseModule(file, alias) ==
    LET used == FindModuleImport(Top, alias) # {} IN
    /\ Reading /\ Read([use |-> file, alias |-> alias])
    /\ \/ used /\ Fail("alias") /\ UNCHANGED cycle
       \/ /\ ~used /\ Loaded(file)
          /\ \/ /\ Open(IndexOf(file))
                /\ Fail("cycle")
                /\ cycle' = Append(OpenPaths, file)
             \/ /\ ~Open(IndexOf(file))
                /\ imports' = Append(imports, [owner |-> Top, alias |-> alias,
                                               target |-> IndexOf(file)])
                /\ UNCHANGED <<phase, modulePaths, moduleStates, stack, failure, cycle, reference>>
       \/ ~used /\ ~Loaded(file) /\ ~Readable(file) /\ Fail("absent") /\ UNCHANGED cycle

(* The same for a file that is read for the first time: the call starts. *)
UseNewModule(file, alias) ==
    /\ Reading /\ FindModuleImport(Top, alias) = {}
    /\ ~Loaded(file) /\ Readable(file)
    /\ contents' = Append([contents EXCEPT ![Top] = Append(@, [use |-> file, alias |-> alias])], <<>>)
    /\ modulePaths' = Append(modulePaths, file)
    /\ moduleStates' = Append(moduleStates, 1)
    /\ stack' = Append(stack, [module |-> Len(modulePaths) + 1, alias |-> alias])
    /\ UNCHANGED <<phase, imports, failure, cycle, reference>>

(* public or not, a function or record. *)
Declare(d) ==
    /\ Reading /\ Read(d)
    /\ UNCHANGED <<phase, modulePaths, moduleStates, stack, imports, failure, cycle, reference>>

(* isEntry *)
MayExecute(m) == m = 1

(* An executable statement; with public in front of it always an error. *)
Execute(public) ==
    /\ Reading /\ Read([statement |-> TRUE]) /\ UNCHANGED cycle
    /\ \/ public /\ Fail("public")
       \/ ~public /\ ~MayExecute(Top) /\ Fail("statement")
       \/ /\ ~public /\ MayExecute(Top)
          /\ UNCHANGED <<phase, modulePaths, moduleStates, stack, imports, failure, reference>>

HasPublic(m) == \E d \in Declared(m) : d.public

(* The row that the importing call adds. *)
Returned(m) ==
    [owner |-> stack[Len(stack) - 1].module, alias |-> Last(stack).alias, target |-> m]

(* The end of the file: the call returns to the import that made it.  When *)
(* the first call returns, a lone file that exports nothing is compiled as *)
(* it is.                                                                  *)
EndOfFile ==
    /\ phase = "load"
    /\ moduleStates' = [moduleStates EXCEPT ![Top] = 2]
    /\ stack' = Front(stack)
    /\ \/ /\ Len(stack) > 1
          /\ imports' = Append(imports, Returned(Top))
          /\ UNCHANGED phase
       \/ /\ Len(stack) = 1
          /\ phase' = IF Len(modulePaths) = 1 /\ ~HasPublic(1) THEN "single" ELSE "collect"
          /\ UNCHANGED imports
    /\ UNCHANGED <<modulePaths, contents, failure, cycle, reference>>
-----------------------------------------------------------------------------
(* qualifiedDeclarationName *)
QualifiedDeclarationName(m, name) == IF m = 1 /\ name = Main THEN <<Main>> ELSE <<m, name>>

(* A row of collectModuleDeclarations, for an item that is a declaration. *)
Row(m, i) ==
    [owner |-> m, item |-> i, name |-> QualifiedDeclarationName(m, contents[m][i].name),
     kind |-> contents[m][i].kind, public |-> contents[m][i].public]

Rows == UNION {{Row(m, i) : i \in {j \in DOMAIN contents[m] : contents[m][j] \in Declaration}} :
                  m \in Module}

Lookup(name, kind) == {row \in Rows : row.name = name /\ row.kind = kind}

(* requireUniqueModuleDeclarations *)
Collect ==
    /\ phase = "collect"
    /\ UNCHANGED <<tables, cycle, reference>>
    /\ \/ /\ \A row \in Rows : Lookup(row.name, row.kind) = {row}
          /\ phase' = "ready" /\ UNCHANGED failure
       \/ /\ \E row \in Rows : Lookup(row.name, row.kind) # {row}
          /\ phase' = "failed" /\ failure' = "duplicate"

(* Mutant: private declarations are found. *)
VisibleAll(row) == TRUE

Visible(row) == row.public

(* importedDeclarationName, for alias.name in the tokens of a module. *)
ReferImported(m, alias, name, kind) ==
    LET target == imports[Min(FindModuleImport(m, alias))].target
        hits == Lookup(QualifiedDeclarationName(target, name), kind)
    IN  /\ phase = "ready" /\ FindModuleImport(m, alias) # {}
        /\ UNCHANGED <<tables, cycle>>
        /\ \/ /\ \E row \in hits :
                     /\ Visible(row)
                     /\ reference' = [from |-> m, alias |-> alias, name |-> name, kind |-> kind,
                                      to |-> row]
              /\ UNCHANGED <<phase, failure>>
           \/ /\ hits = {}
              /\ phase' = "failed" /\ failure' = "unknown" /\ UNCHANGED reference
           \/ /\ \E row \in hits : ~Visible(row)
              /\ phase' = "failed" /\ failure' = "private" /\ UNCHANGED reference

(* A name of the module itself; any other name stays as it is. *)
ReferOwn(m, name, kind) ==
    /\ phase = "ready"
    /\ \E row \in Lookup(QualifiedDeclarationName(m, name), kind) :
          reference' = [from |-> m, alias |-> NoAlias, name |-> name, kind |-> kind, to |-> row]
    /\ UNCHANGED <<phase, tables, failure, cycle>>

Next ==
    \/ \E f \in Files, a \in Aliases : UseModule(f, a) \/ UseNewModule(f, a)
    \/ \E d \in Declaration : Declare(d)
    \/ \E public \in BOOLEAN : Execute(public)
    \/ EndOfFile \/ Collect
    \/ \E m \in Module, n \in Names, k \in DeclarationKinds :
          ReferOwn(m, n, k) \/ \E a \in Aliases : ReferImported(m, a, n, k)

Spec == Init /\ [][Next]_vars
-----------------------------------------------------------------------------
TypeOK ==
    /\ phase \in {"load", "single", "collect", "ready", "failed"}
    /\ modulePaths \in Seq(Files \ Absent)
    /\ moduleStates \in [Module -> {1, 2}]
    /\ contents \in [Module -> Seq(Item)]
    /\ \A i \in DOMAIN imports : imports[i].owner \in Module /\ imports[i].target \in Module
    /\ \A i \in DOMAIN stack : stack[i].module \in Module
    /\ cycle \in Seq(Files)

Finished == {"single", "collect", "ready"}

(* A file is read once, however many modules import it, and the modules    *)
(* that are marked 1 are the calls in progress, outermost first: the order *)
(* in which loadModule reports a cycle.                                    *)
LoadedOnce ==
    /\ IsInjective(modulePaths)
    /\ phase = "load" =>
           /\ {stack[i].module : i \in DOMAIN stack} = {m \in Module : moduleStates[m] = 1}
           /\ \A i, j \in DOMAIN stack : i < j => stack[i].module < stack[j].module

Imports(f, g) ==
    \E m \in Module : modulePaths[m] = f /\ \E u \in Uses(m) : u.use = g

(* A reported cycle is one: each path imports the next, and the last came  *)
(* before.                                                                 *)
CycleIsReal ==
    failure = "cycle" =>
        /\ \A i \in 1..(Len(cycle) - 1) : Imports(cycle[i], cycle[i + 1])
        /\ Last(cycle) \in Range(Front(cycle))

(* No cycle gets through: in every set of modules one imports none of the  *)
(* set.                                                                    *)
LoadedIsAcyclic ==
    phase \in Finished =>
        \A S \in SUBSET Range(modulePaths) :
            S # {} => \E f \in S : \A g \in S : ~Imports(f, g)

(* The table of imports says what the files say, and every import of a     *)
(* file that loadModule read was followed.                                 *)
ImportsComplete ==
    phase \in Finished =>
        {<<imports[i].owner, imports[i].alias, modulePaths[imports[i].target]>> :
            i \in DOMAIN imports}
          = UNION {{<<m, u.alias, u.use>> : u \in Uses(m)} : m \in Module}

(* What is accepted obeys the rules of modules.md: an alias means one      *)
(* module, imported modules execute nothing, and a module declares a name  *)
(* once per kind.  Names of different modules do not meet.                 *)
AcceptedIsLegal ==
    /\ phase \in Finished =>
          \A m \in Module :
              /\ \A i, j \in DOMAIN contents[m] :
                    (i # j /\ contents[m][i] \in Use /\ contents[m][j] \in Use)
                        => contents[m][i].alias # contents[m][j].alias
              /\ m # 1 => \A i \in Range(contents[m]) : i \notin Statement
    /\ phase = "ready" =>
          \A m \in Module : \A i, j \in DOMAIN contents[m] :
              (i # j /\ contents[m][i] \in Declaration /\ contents[m][j] \in Declaration)
                  => \/ contents[m][i].name # contents[m][j].name
                     \/ contents[m][i].kind # contents[m][j].kind

(* Two modules may declare the same name: a program is rejected for a      *)
(* duplicate only when one module declares it twice.                       *)
DuplicateIsReal ==
    failure = "duplicate" =>
        \E m \in Module : \E i, j \in DOMAIN contents[m] :
            /\ i # j /\ contents[m][i] \in Declaration /\ contents[m][j] \in Declaration
            /\ contents[m][i].name = contents[m][j].name
            /\ contents[m][i].kind = contents[m][j].kind

(* A rewritten reference is the declaration that the reader sees: public,  *)
(* in the file that the alias names in this module, or of the module       *)
(* itself.                                                                 *)
ReferencesRight ==
    reference # None =>
        \E m \in Module : \E d \in Declared(m) :
            /\ reference.to.owner = m
            /\ d.name = reference.name /\ d.kind = reference.kind
            /\ \/ reference.alias = NoAlias /\ m = reference.from
               \/ /\ d.public
                  /\ [use |-> modulePaths[m], alias |-> reference.alias] \in Uses(reference.from)

(* Every file is read once, a cycle of imports is reported exactly when    *)
(* there is one, and the tables name what the files say.                   *)
ModulesSound ==
    TypeOK /\ LoadedOnce /\ CycleIsReal /\ LoadedIsAcyclic /\ ImportsComplete
           /\ AcceptedIsLegal /\ DuplicateIsReal /\ ReferencesRight
=============================================================================
