----------------------------- MODULE MCFrontEnd ------------------------------
(***************************************************************************)
(* Three parts of the compiler's front end: the table of declarations      *)
(* (SymbolLookup), the naming of module files (ModulePaths) and the        *)
(* loading of modules (ModuleLoader).  The compiler runs them one after    *)
(* the other and none reads what another has left half done, so a          *)
(* behaviour here runs one of them, and the others stay at a first state.  *)
(***************************************************************************)
EXTENDS SymbolLookup

CONSTANTS
    PartNames, Up, Here, Blank, MaxImporter, MaxSpecifier,         \* of ModulePaths
    Files, Absent, EntryFile, Aliases, Declarations, Main, MaxItems   \* of ModuleLoader

VARIABLES
    pass,   \* the part that runs
    importer, specifier, stage, path, parts, active, position, result,
    loading, modulePaths, moduleStates, contents, stack, imports, failure, cycle, reference

Paths == INSTANCE ModulePaths WITH Names <- PartNames

Loader == INSTANCE ModuleLoader WITH Names <- Declarations, phase <- loading

ASSUME PathsAssumption == Paths!PartsAssumption
ASSUME LoaderAssumption == Loader!FilesAssumption /\ Loader!NamesAssumption

pathVars == <<importer, specifier, stage, path, parts, active, position, result>>
loaderVars == <<loading, modulePaths, moduleStates, contents, stack, imports,
                failure, cycle, reference>>
frontVars == <<vars, pathVars, loaderVars, pass>>

(* Names of which one is a prefix of another. *)
MCNames == {<<1>>, <<1, 1>>, <<2>>}

Symmetries == Permutations(Aliases)

SomeName == CHOOSE n \in PartNames : TRUE

FrontInit ==
    /\ pass \in {"symbols", "paths", "modules"}
    /\ pass # "symbols" => symbols = <<>>
    /\ pass # "paths" =>
          /\ importer = [drive |-> FALSE, absolute |-> FALSE, items |-> <<SomeName>>]
          /\ specifier = <<SomeName>>
    /\ Init /\ Paths!Init /\ Loader!Init

SymbolsPass == pass = "symbols" /\ Next /\ UNCHANGED <<pathVars, loaderVars, pass>>
PathsPass == pass = "paths" /\ Paths!Next /\ UNCHANGED <<vars, loaderVars, pass>>
ModulesPass == pass = "modules" /\ Loader!Next /\ UNCHANGED <<vars, pathVars, pass>>

FrontNext == SymbolsPass \/ PathsPass \/ ModulesPass

FrontSpec == FrontInit /\ [][FrontNext]_frontVars
-----------------------------------------------------------------------------
(* One file has one name, and a module is the file that the specifier      *)
(* names from the directory of its importer (modules.md 31-32).            *)
PathsSound == Paths!PathsSound

(* loadModule reads a file once, reports exactly the cycles of imports,    *)
(* and a name means the declaration that modules.md says.                  *)
ModulesSound == Loader!ModulesSound
=============================================================================
