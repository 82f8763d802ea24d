# A TLA+ development of the Minyar runtime and build system

Minyar is a small statically typed language. Its compiler is written in Minyar
(`src/src/compiler.min`), emits LLVM, and links a C runtime (`src/runtime`) that
manages memory by reference counting. A second, smaller compiler in C
(`src/bootstrap/stage0.c`) builds the first. This directory holds a model of the
parts in which many steps, actors or histories meet: both reference-counting
profiles of the runtime, the stores below them, Texts and their index, the
compiler's rule against reference cycles, its symbol table and module loader, the
incremental build, and the bootstrap compiler from source to the run of its code.

## Inventory

| Component | Source | State | Operations | Correct when |
|---|---|---|---|---|
| Bounded reference counting | `runtime/minyar_bounded_rc.h`, `minyar_rc.h` | an ownership word per value (count and kind, or a queue link once dead), the recent stack, the captured batch, the active value and its cursor, frame and chunk queues, pending count | retain, release, poll, service points in allocation, entry, return, step | counts are exact at every moment, nothing used is reclaimed, all garbage is reclaimed in time |
| Ownership frames, temporaries | `minyar_rc.h`, `minyar_stack_frames.h` | frame stack, locals with their written index, temporary chunks, frame cache | enter, leave, local take and move, keep, step, stack frames | each local is dropped once; cache and index within their storage |
| Lists, records, Texts | `minyar_runtime.c` | fields, kinds, capacity; views and their backing | construct, add, set, appended, slice, join | stores keep counts exact; kinds never hide a counted element |
| Buddy pool | `minyar_pool.h` | state map, free lists, order mask, accounting | allocate, free, resize, resize without contents | blocks tile the pool; lists, map and mask agree |
| Eager reference counting | `minyar_rc.h` | work list | release | same contract as the bounded profile |
| Compiler arena, slice cache | `minyar_runtime.c` | bump arenas, caches | allocate, extend in place | extension only of the newest block |
| Stack depth guard | `minyar_runtime.c` | bounds of the stack, a call counter | enter, leave | recursion ends in a report, not in a fault |
| Integer checks, I/O | `minyar_runtime.c` | nothing | check, convert, read, write | traps before overflow |
| Text index | `minyar_runtime.c` | character count, offset of every n-th Character, a cursor | count, index, slice, join | a position means the same Character however it is found |
| Symbol table | `src/compiler.min` | names, kinds, sorted positions | sort, require unique, find | finds what a linear search finds |
| Module loader | `src/compiler.min` | module paths and states, imports, declarations | resolve a path, load, collect, refer | each file once, no cycle, right and public names |
| Cycle rule | `src/compiler.min` | declared types, List types found safe | check a mutation | no reference cycle can be built |
| Rest of the compiler | `src/compiler.min` | token, symbol and type tables | tokenize, parse, check, generate | ownership tokens balance |
| Module front end | `src/module-compiler.min` | prior state, summaries, tables, rows | load, reuse, compile, base and delta | equals a clean build |
| Build driver | `tools/module-build.c` | compiler images, base and delta files, invocation directory | snapshot, open, validate, run, publish | concurrent, interrupted and repeated builds stay correct |
| Stage 0 compiler | `bootstrap/stage0.c` | cursor of the lexer, current token, locals, counters of the emitter | tokens, parse, check, emit | the code runs as the source reads |
| Launcher, vendored code, tests | `minyar`, `vendor`, `tests` | - | - | not part of the core |

How they meet. Generated code calls the runtime and holds operands in registers
and locals while a call runs. Nearly every runtime call may poll: the poll pops
units of work from three queues, and each unit may drop a reference, which may
queue another dead value. The runtime takes its memory from the pool (or the
system heap) and stops the program when there is none. The program is single
threaded; what makes the runtime hard is that cleanup is cut into units and
interleaved with the program at every service point, so each data structure is
seen half destroyed. The build driver is the concurrent part: several processes
share a cache directory without locks, and may be killed. The bootstrap compiler
meets the rest only through the runtime functions its code calls.

The hazards of the code, each at its line with the properties that watch it, are
listed in `PROJECT.json`.

## Modules

| Module | Models |
|---|---|
| `Ownership` | the contract: slots own values, a value without owner is dying, a dying value gives up its fields before its memory is reclaimed |
| `OwnershipProofs` | its type correctness and safety, proved; lemmas on counting the slots that hold a value |
| `BoundedRc` | the bounded profile of the runtime and the generated code that calls it; implements `Ownership` |
| `BoundedRcSteps` | its inductive invariant, and that every micro-step, unit of cleanup and released reference keeps it, proved |
| `BoundedRcProofs` | the same for calls, and what follows: counts, queues and indices are exact, operands are safe, and `BoundedRc` implements `Ownership`, proved |
| `PollBatching` | the batched path of a poll, and the cursor in the bytes of a dead record |
| `Pool` | the buddy allocator |
| `ModuleBuild` | build drivers, module front end and their shared files |
| `ModuleBuildProofs` | incremental builds are clean builds, caches are honest, images are immutable, proved |
| `EagerRc` | the default profile of the runtime, which destroys at once; implements `Ownership` |
| `EagerRcProofs` | counts are exact, releases end and leave nothing behind, and `EagerRc` implements `Ownership`, proved |
| `Utf8`, `Utf8Codec` | decoding and encoding of Characters, and a program that does both |
| `TextIndex` | positions in Texts: index, cursor, slices, in-place joins |
| `Arena` | operators: bump allocation and extension in place |
| `ArenaTexts` | the compiler's Texts in an arena, with the slice cache |
| `ListValues`, `ArenaLists` | Lists as values, and the compiler's Lists in two arenas, which implement them |
| `ListMutation` | `checkListMutation`, and the programs it lets run |
| `ListMutationProofs` | the check is exact and ends, and heaps are acyclic, proved |
| `SymbolLookup` | heap sort, duplicate check and binary search of declarations |
| `SymbolLookupProofs` | the table of declarations is sorted and unique and the search exact, `ModulePaths` gives a file one normal name, and `ModuleLoader` loads every program right, proved |
| `ModulePaths`, `ModuleLoader` | normal paths; loading, cycles, qualified names |
| `StackGuard` | the guard of recursion over a stack with a guard page |
| `RuntimeProofs` | storages of `ArenaLists` never overlap, it implements `ListValues`, Texts of `ArenaTexts` keep their bytes, recursion ends in a report, and the codec is exact, proved |
| `Stage0Lexer` | tokens of the bootstrap compiler |
| `Stage0Parser`, `Stage0Checker`, `Stage0Emitter` | operators: its passes |
| `Stage0` | the passes composed, and the run of the code they make |
| `MCBoundedRc`, `MCEagerRc`, `MCModuleBuild`, `MCListMutation` | instances for TLC |
| `MCRuntime`, `MCFrontEnd`, `MCStage0` | instances that hold several modules side by side: `ArenaLists`, `ArenaTexts`, `Pool`, `PollBatching` and `StackGuard` (`MemorySpec`), `TextIndex` and `Utf8Codec` (`TextsSpec`); `SymbolLookup`, `ModulePaths` and `ModuleLoader` (`FrontSpec`); `Stage0` and `Stage0Lexer` |

The modules that an instance holds side by side share no state in the code either.
Each behaviour of such an instance takes the steps of one of them from that one's own
initial states, while the others keep theirs; so it has every behaviour of each and
no interleavings that would mean nothing.

Operators whose comment starts with "Mutant:" are not part of any specification.
Each is a plausible mistake in the definition that follows it, used to confirm
that a property notices.

### BoundedRc

A call of the runtime is a sequence of small steps, because cleanup can happen
between them. An action of `Program` stands for generated code calling the
runtime; it only writes the remaining steps into `todo` (service, allocate,
retain, take, append, release ...). `Machine` executes them: `Resume` does the
first step, `PollUnit` one unit of the poll it asked for, `RcDrop` one drop.
`hand` is an owned reference in transit inside a call, `falling` the one being
dropped, `work` the units the poll has left, `spent` what `rc_drop` freed at once.

The queues are as in the code: `recent` is a stack, `old` the captured batch,
`active` the value being visited with its cursor outside the value; a dead
value's saved cursor is `cursor`. `Held` and `edge` say which slots own what,
including the unvisited fields of a dead value and the unvisited locals of a
detached frame. Everything the properties say about counts is said against that.

What a program may do is `Programs`: a record of the calls it makes and of the
bounds on its objects, locals, results, frames, depth, width and the poll's budget.
A run picks one of several such programs at the start. Each
concentrates on the calls of one part of the runtime; together they make all of them.

Operands of a call are values that registers, locals, temporaries or a field one
level below hold, which is what generated code can name. Stores obey the
compiler's rule against cycles (`MayStore`). Scalars are `None`. A slice first indexes its
Text, and the index is an allocation that polls (`Indexing`). List capacity is
abstracted to the lengths at which a List grows (`GrowAt`). A frame in the cache
keeps its storage but the model forgets the references left in it, which are
cleared before use. A poll is the general scheduler, and a saved cursor a number;
`PollBatching` shows that the batched path leaves the same state behind.

### PollBatching

The whole state of the bounded profile, without frames and chunks, is one record, and
each unit a function of it. `Scheduled` performs a budget of units as the general
scheduler does; `Batched` follows lines 240-335: chains of unary records, runs along
the slots of a List, and single units. `PollBatched` compares the two for every budget
in every state that releases and earlier polls lead to, the order of frees included.
A saved cursor is spread over the map bytes of its record, one bit to a byte here and
seven in the code, and `VisitedOnce` says that no owner is dropped twice or forgotten.
Objects hold what they were made with: between two polls the program only gives up
references.

### Pool

One step per list operation, so every intermediate state of the map and the
lists is visible. `op` is what the current call has still to do; `old` an
allocation a moving resize will release. Offsets and sizes are in granules of 32
bytes. `steps` counts what `POOL_STEP` counts. The old block's link stays in memory
in the code and is reset in the model: nobody reads it.

### ModuleBuild

A driver reads the compiler's bytes, publishes or finds an image of them, opens
base and delta, reads the sources one by one, compiles, publishes the output and
then the new state. Each is an action, and between any two of them other drivers
run, files are edited (`Edit`), the compiler is replaced (`Upgrade`), the driver
dies (`Die`) or the power fails (`PowerLoss`). Since published files are replaced
and never rewritten, a descriptor is modelled by the contents it was opened on.

A source text is a record of what the front end tells apart: bodies, function
headers, record layouts, the modules its headers mention, its imports, and the
headers it type checks against. Code is modelled by what it was generated from
(compiler, policy, text, context), so two codes are equal only when they must be.
`Context` follows `moduleInterfaceContext`: own declarations, direct imports, and
the record layouts reachable through them. The signature is a function from
modules to summaries; the import order is part of the summaries.

Files are read in any order in which imports are discovered, not only depth
first. XXH64 is assumed injective on cache payloads; image names may collide.
A state larger than the artifact limit is not saved, which is `Die` before saving.

### EagerRc

A call acquires the reference it stores (`hand`), stores it, and releases what it
displaced (`falling`). `minyar_rc_release` is a loop over the work list `rc_pending`:
every drop, pop and visited field is a step, so the half-destroyed values in
between are states. `minyar_list_appended` and joins are compositions of the same
steps and appear in `BoundedRc` only; the storage cache of frames is left out.

### Utf8, TextIndex

`Utf8` follows the decoder byte range by byte range. `TextIndex` takes a runtime
call as one step, since nothing runs during it. The index is built on the first
question about positions, in 32-bit or wide entries (`NarrowMax`), with a
breadcrumb every `Stride` Characters (64 in the code, 2 here) and a cursor of the last
access. The Characters a scan passes are counted, so that the cost of reading forwards is a
property. `MixedJoins` is explained under the runs.

### Arenas

The compiler frees nothing. `Arena` has the allocation arithmetic; `ArenaTexts` and
`ArenaLists` the two users with different sharing: Texts share bytes on purpose, and
element storages must never meet. Memory outside any live storage is not cleared.
`ListReserve` is the growth of the empty result of `minyar_list_appended` before its
elements are added.

### ListMutation

First the compiler: for a List type that a program mutates, `checkListMutation`
searches the declared types, one loop iteration per step; types found safe are
remembered in the tail of `returnTypes`. Then any program that compiled: literals and
records are allocated before their parts are evaluated (`building`), finished
objects are stored, appended, replaced and dropped. Initialisers are evaluated
inside out in the code; the model allows any order among unfinished objects. This
module justifies what `MayStore` takes for granted in `BoundedRc` and `EagerRc`.

### StackGuard

Frames of generated functions have several sizes; a function has its frame before it
asks the guard. The bounds of the stack may be known or not. The assumption
is that a frame and a report fit in `MINYAR_STACK_RESERVE_BYTES` together, and that
the stack is larger than that. The outcome
`fault` is a frame that reaches the guard page.

### Stage 0

A program is a tree, `Compile` is what the compiler makes of it: the tree is written
as tokens, with the brackets that operators need and in one of three layouts of line ends
and semicolons, parsed by recursive descent, checked, and emitted as LLVM instructions. The
three passes are recursive operators that follow the functions of the source:
tokens left stand for the parser's lexer, `locals` for the checker's table with its
`active` marks, and an emitter is its code, its counters and its current block.
`fail_at` is the tree or type `"Wrong"`. The run of the code is a machine: one
instruction per step, with registers, stack slots, the block and the block it came
from. What the function calls answers is chosen freely; the calls and answers are the
trace.

`Meaning` is the reference. It says what a tree does, by evaluating it in the order it
is written, with overflow, division and index checks, and has its own tables of the
runtime functions behind the language's. `RunsAsWritten` compares the
trace and the outcome of each run with it. `CodeSound` says that the tree read is the
one written, and what LLVM demands of code: blocks end once, targets exist, a phi names exactly
the predecessors of its block, and on every path that answers can select, slots and
registers are set before they are read, with the type they are read with.

`Stage0Lexer` is separate. `next_token` is an action, and each character class has a
few members; most letters and digits are left out. `TokensExact`
restates a lexer backwards: the pieces between tokens are blanks and comments, each
token's piece spells it and no longer piece would, and only where no token can stand
is a source refused.

Inputs left out: `Text(list)` and `print(list)`, which the checker accepts and for
which the emitter calls a function of another type (`minyar_boolean_text`,
`minyar_print_text`); a `main` that returns anything but an Integer; parameters of type
Nothing. One function is compiled at a time. The others are signatures, so the
two passes over all functions and recursion do not appear.
Words have 4 bits and Characters 3, so that overflow happens.

### SymbolLookup, ModulePaths, ModuleLoader

Loops are stepped one iteration at a time. `findCompiledSymbol` reads the positions
that `compileTokens` appends behind the return types. A path is its parts; links in
the file system are not considered, as in the code. `normalizePath` reads `C:x`, a
path relative to the current directory of a drive, as `C:/x`; the property leaves
such importers out. The loader chooses the items of a file as it reads them.

## Runs

| Run | Instance | Checks |
|---|---|---|
| `rc_values` | 3 objects, 2 registers, a literal; programs over records, Lists, `minyar_list_appended` and Texts; budget 1 or 2, width 2 | `CountExact`, `QueuesExact` (each dead value waits once, in one queue), `OperandsSafe` (what a call took in hand and all that the program can name survive its polls, the operands a join or a slice only borrows among them; only unshared Texts grow), `NothingLeaks` (all unreachable values wait or are destroyed; immortal-only Lists hold nothing counted; views are flat) |
| `rc_frames` | 3 frames, 2 chunks of 2 slots, 2 locals, depth 2, cache of 7 bytes | `CountExact`, `FramesExact` (written index, cache accounting, pending count) |
| `rc_promises` | 2 objects, a program with every kind of value and one that makes frames and temporaries; `FairSpec` | `ImplementsOwnership`, `CleanupProgresses` (whatever is queued is eventually done) |
| `eager` | 3 objects, 4 programs, 2 frames | `CountExact`, `DestroyedOnce`, `ReleasesEnd`, `ImplementsOwnership` |
| `memory` | Lists of up to 6 elements in blocks of 6 and 12; 2 literals and 3 more Texts of up to 4 bytes in blocks of 6, 2 cache slots; a pool of 8 granules; all graphs of 3 objects and chains of 4, budgets up to 6; a stack of 16 | `StoragesApart`, `ImplementsLists`; `ResultsTrue`, `TextsKeepBytes`; `PoolExact`; `PollBatched`; `StackGuarded` |
| `build_history` | 3 modules, 4 builds, 4 edits, one driver | `OutputSound` (incremental equals clean), `CacheNeverFails` (no failure a clean build would not have), `BodyEditsStayLocal` |
| `build_race` | 2 drivers, 2 colliding compilers, 3 builds, 2 edits, 1 power failure | `OutputSound`, `CacheHonest` (generations are never combined), `RunsWhatItNames` (the executed compiler is the named one) |
| `texts` | 3 Texts of up to 4 bytes, 2 handles; boundary bytes in sequences of up to 4 | `IndexSound`, `AnswersTrue` (and stops are justified), `ReadsAreCheap`, `TextsImmutable`; `CodecExact` |
| `text_join_indexed` | the same with mixed joins | `AnswersTrue`, violated: see below |
| `cycle` | every 2 records of up to 2 fields, Lists nested twice; programs run with records of one field and 3 objects | `VerdictExact`, `SearchShrinks`; `HeapsSound` (well typed and acyclic) |
| `front_end` | every table of up to 5 symbols; importers and specifiers of 3 parts; 3 files with 4 items, and a missing file | `LookupSound`, `LoopsShrink`; `PathsSound`; `ModulesSound` (loaded once, cycles found and truly reported, tables complete, names right) |
| `stage0` | logical operations nested twice, branches, loops and returns in each other, every operation on every type, operators of all strengths, in 3 layouts; sources of 3 of 19 characters, 5 of those that make comments and literals, 4 of those that make numbers | `CodeSound`, `RunsAsWritten`; `TokensExact` |

All runs but one pass. The step bound of `docs/bounded-runtime-contract.md`, the
statements of `docs/incremental-builds.md` on generations, concurrent builds and
invalid state, of `docs/modules.md` on paths and cycles, and the acyclicity argument
of `docs/runtime-memory.md` hold.

`text_join_indexed` shows a disagreement. `minyar_join_text_take_left`
(`minyar_runtime.c` 757-761) adds the known lengths of both operands and sets
`character_offsets` to null. A known length without offsets means ASCII everywhere
else. When one operand has a longer Character, positions in the result count bytes,
against `docs/language.md` 39-40 and 51. It takes a length or index question to both
operands, an in-place join, and a question to the result. The passing run
`texts` has `MixedJoins = FALSE`: it leaves out exactly those joins (both counted,
one not ASCII), so that everything else about the index can still be checked.

Bounds. Three values are enough for a parent, a child that dies while the parent
is being visited, and a bystander that shares a child; two fields for a value that
is captured half visited; two locals for an index in another order than the
locals; two slots per chunk for a partly filled last chunk. A budget of six carries two
children of a chain and leaves an odd unit; three objects make a shared child, a
parent of two and a List of nodes. A budget of one unit
gives the most interleavings; larger budgets appear where a poll must finish
several things. Counts are bounded by `MaxCount`: a call that would pass it is not
made. Eight granules give four orders, so that merges and splits cascade. Three
modules are what a delta needs (one change of three is saved as a delta, two as a
base) and what indirect invalidation needs (entry, import, record two imports
away). Two Characters per breadcrumb give an index with several entries in five
bytes. Large Lists begin at five elements, so that a List of each arena exists. Two
records give mutual recursion, two brackets the `List<List<Node>>` of
`docs/runtime-memory.md`. Five symbols make a heap of three levels. Four items reach a
cycle of three files behind a file already read. A logical operation within an operand
of a logical operation is the least in which both operands end in other blocks than
they began in. Three characters hold every pair and what follows it; five, a comment
or literal with something inside and something behind.

Symmetry is used for objects and registers, Texts and handles, drivers and compilers,
records and heap objects, and aliases. Where it is used together with a PROPERTY
(`eager`, `texts`, `cycle`, `front_end`), that property speaks of single steps. The run with
a liveness property has none. Deadlock is checked in `rc_values`,
`rc_frames`, `rc_promises`, `eager`, `texts` and `text_join_indexed`, where the
program may always do something or has stopped. The others end: arenas and builds at
their bounds, searches and compilations because they are done.

Fairness. `FairSpec` in `rc_promises` assumes weak fairness of `Machine`, because a
runtime call runs to its end, and strong fairness of `Step`, because compiled loops
call `minyar_rc_step` on each back edge (`compiler.min` 2556-2564): a program
that runs for ever passes service points for ever. Nothing is assumed about
which queue a poll serves; that is what the property is about. That loops end is
stated without fairness, as a number that every iteration makes smaller: the work of
a release (`ReleasesEnd`), of a search for cycles (`SearchShrinks`), of sorting and
searching symbols (`LoopsShrink`, which also says that an iteration changes something).

## Proofs

`OwnershipProofs` proves for all sets of values, roots and field indices:

* `TypeCorrect`: `Spec => []TypeOK`.
* `ContractIsSafe`: `Spec => []Safety`. `Safety` says that references never point
  at reclaimed or dying values (`NoDangling`), that live values have an owner, and
  that free cells hold nothing. With `TypeOK` it is inductive: a step that removes a
  reference either finds another owner or changes the value's status, and a dying
  value is reclaimed only when it holds nothing, so that its fields, which may be
  the only owners of other values, are given up first.

`BoundedRcSteps` and `BoundedRcProofs` prove for any values, literals, registers, frames, chunks, programs and
bounds that satisfy `ConstantsAssumption`, `SlotAssumption` (the names of slots of
different sorts differ) and `ContractAssumption`:

* `CountsStayExact`: `Spec => []CountExact`.
* `PollsSpareOperands`: `Spec => []OperandsSafe`.
* `QueuesStayExact`: `Spec => []QueuesExact`: every dead value waits once
  (`DeadAreQueuedOnce`), and `pending` is the number of tasks in the queues.
* `FramesStayExact`: `Spec => []FramesExact`.
* `NothingIsLeaked`: `Spec => []NothingLeaks`: what lives is reachable (`NoLeak`), and the two
  shortcuts of destruction are safe (`ImmortalLists`, `FlatViews`).
* `BoundedProfileImplementsOwnership`: `Spec => ImplementsOwnership`, and with
  `ContractIsSafe` of `OwnershipProofs`, `BoundedProfileIsSafe`: `Spec => []Contract!Safety`.

All but three of them follow from one inductive invariant, `IInv`, which is `CountExact` and `Sound`:

* `HeapSound`: what values of each kind hold, and how far the cleanup of dead ones has come.
* `QueueSound`: a value is dead exactly if it stands in the recent queue, in the old
  queue or in the active cell, in one of them, and once.
* `FrameSound`, `ChunkSound`: a frame is open, detached, cached or unused, and owns
  accordingly: the written index of an open one lists the locals that hold a value,
  one that is neither open nor detached holds nothing. A chunk belongs to one open
  frame, waits in the queue, or is empty.
* `StepsSound`: what the rest of a call relies on. `StepsFormed` is the form of the
  micro-steps that calls leave, whichever unit of work they are interrupted at;
  `StepReady` says for each remaining step that the register it fills is empty, that
  the value it writes into has the right kind and room, and that its frame, local or
  chunk is there. `OperandsHeld` says that every value the remaining steps name belongs to
  a set whose members are held by a register, the hand, an open frame or its chunks, or by
  another member. Polls visit only dead values, detached frames and retired chunks; so
  they take no reference from such a set, and its members stay alive. This is why
  an operand that was read before a service point is valid after it. It is not enough
  that operands are alive now: a value held only by a dying one is alive, too, until the
  next unit of the poll.

The steps of a poll and of a call are each shown to be one of a few forms (`StepForm`): a
reference is gained, lost, moved or exchanged, a value is allocated, unwrapped or
reclaimed, or nothing changes. The lemmas in `OwnershipProofs` say what each form does to
the number of holders of a value and that it is a step of the contract. What remains is
that every action keeps `Sound`: one lemma for each unit of a poll (`ObjectUnit`,
`FrameUnit`, `ChunkUnit`), for each micro-step, and for each call that begins
(`CalledSound`). `BoundedRc` writes the copy of a List (`CopySteps`) as a
function of the position, because that leaves its length and its members to arithmetic.

`AccountsHold` (`Spec => [](IInv /\ Accounts)`) is a second invariant on top of the first, for
what the runtime counts without looking. Retiring temporaries and leaving a frame add to
`pending` the number of chunks that a frame gives up, which the code finds by dividing its
temporaries by the slots of a chunk. This is right only if every chunk of an open frame but
the last one is full, and the last one not empty (`TempsFull`). A chunk is empty for a
moment, between the micro-steps of `minyar_rc_keep` that add it and that fill it: `ChunksNeeded` says
that a call in progress adds one only to full chunks, and `TempsFull` excuses the last one
while the top frame's call is about to hold a value. `IndexFitting` says that an open frame
has room for its locals. From it and the distinctness of the written index follows
that the index never leaves its storage. What the cache of frames is charged
(`cachedBytes`) is the size of a set, the bytes of the frames it holds: that no frame is
cached twice and a cached one is not written, both part of `IInv`, is what makes
adding and subtracting keep it.

`NothingIsLeaked` needs two more. `HeapReady` is `HeapFit` and `StoresReady`. `HeapFit` says that
every non-empty set of live values has a member that no member refers to (`LiveAcyclic`), that a
List of references holds no null, and that a view's Text has bytes of its own
(`FieldsFit`). Exact counts give every live value an owner; were a set of live values owned
only by its members, one of them would be referred to by none. So some owner is
a slot of the program, of a call or of pending cleanup. A call stores in several steps with polls in
between, and each field it has yet to write must still close no cycle when its turn comes:
`StoresReady` asks for a set of values that holds the stored one and not the target and that
nothing alive leads out of (`Apart`). Polls change no live value's fields, hence leave such a
set as it is, and a call stores into one target only. The rule of the checker for
stores (`MayStore`) is where the set comes from; that rule itself is the subject of
`ListMutationProofs`.

`Metered` is about the numbers with a limit. A count that would pass `MaxCount` stops the
program before it is written. What a service point asks for lies within 0 and `Budget`: leaving
a frame on the C stack drops its written locals first and asks for the rest of the budget; they
are no more than the frame's locals, and `FitsStack` gives a function with `Budget` locals or
more no frame on the C stack.

`EagerRcProofs` proves for any values, registers, programs and bounds that satisfy
`EagerAssumption` and the contract's own `ContractAssumption`:

* `CountsAreExact`: `Spec => []CountExact`.
* `ValuesAreDestroyedOnce`: `Spec => []DestroyedOnce`. A value that has lost its last
  owner is on the work list once, or is the one being visited (`DeadAreQueuedOnce`); and
  when a call has returned, what is allocated can be reached from a root.
* `ReleasesComeToAnEnd`: `Spec => ReleasesEnd`. A drop that recurses from a view reaches a
  Text that backs no other view, so that no release recurses twice (`ViewsDropOnce`).
  What a release has still to do (`Remaining`) is a sum of sizes of sets: values allocated,
  fields not visited, entries on the work list. Each kind of step takes an element from
  one of them and, if it gives another anything, gives one that weighs less.
* `DefaultProfileImplementsOwnership`: `Spec => ImplementsOwnership`, and with
  `ContractIsSafe` of `OwnershipProofs`, `DefaultProfileIsSafe`: `Spec => []Contract!Safety`.

`CountExact` alone is not inductive. `IInv` adds `Sound`: the types; that nothing is held
outside the slots the bounds name (`WithinSlots`); what each kind of value holds
(`Shapes`), a view its root Text and never another view (`Views`); the work list
(`Queued`); and what a call in progress knows (`Calls`): the element about to be written
lies inside its List, the value just made by a slice backs nothing yet, what waits in
`hand` or `falling` is a value. The argument has three parts. A step adds a holder of one
value, gives one up, moves a reference, exchanges two, replaces a view by its root, or
frees a value that holds nothing: every action is shown to be one of these six forms.
Lemmas about finite sets say what each form does to the number of slots that hold a
value, which gives the counts; and each form is a step of the contract, which gives the
refinement. That leaves `Sound`, action by action.

That nothing is left behind needs one more invariant, `Acyclic`: every non-empty set of
values has a member that no member refers to. Only the stores could break it. The compiler
accepts a store when the value does not lead back to the List or Record, that is when
some set of values closed under references holds the value and not the target
(`MayStore`); the fields do not change between the call and its store (`StoresApart`), and
no cycle through the new reference can leave the closed set. Then a set of values no root
leads to would have a member without an owner, whose count would be 0 and which would be
waiting on the work list.

`ModuleBuildProofs` proves for all sets of drivers, modules, texts and compilers,
any number of slots and any image hash:

* `ImagesAreImmutable`: `Spec => []RunsWhatItNames`. The inductive invariant
  `ImagesKept` adds what drivers still looking for an image know. It is kept
  because images are published only under absent names and because a power failure
  stops every driver that held one.
* `DeltaRoundTrip`: laying a delta over its base gives back the saved state. It
  assumes `WholeState` of both, which `CacheHonest` says of every saved file.
* `IncrementalIsClean` (`Spec => []OutputSound`), `GenerationsNeverMix`
  (`Spec => []CacheHonest`), `CachesNeverFail` (`Spec => []CacheNeverFails`) and
  `BodyEditsAreLocal` (`Spec => []BodyEditsStayLocal`).

The last four follow from one inductive invariant, `BuildsHonest`. It says that every
whole base on disk or in a driver's hands is what a build from nothing of its own texts
would save, and that those texts were accepted (`Honest`); that every delta makes such a
state of the one base it names (`HonestDelta`), so that it does not matter which base lies
beside it; and that a driver that has compiled holds the clean code of the texts it read.
Two lemmas carry it: over an honest prior state, summaries, table, contexts and
code are those of a build from nothing (`ReuseIsClean`), and what is not checked again was
accepted in the same context (`ReuseHidesNoError`). `ImagesKept` is needed because the
compiler that runs must be the one the files are stamped with.

`RuntimeProofs` proves for any inputs and Characters that encoding is read back and that
decoding accepts exactly the well-formed sequences (`CodecIsExact`: `TextsSpec =>
[]CodecExact`), by cases on the width. Its theorems on Texts and on the stack are stated of
the composed `MemorySpec`, whose parts behave as they do on their own (`PartsOfMemory`).

It proves `StoragesNeverOverlap` (`Spec => []StoragesApart`) for any sizes.
`StoragesApart` is not inductive: a List extends its storage in the arena that its
capacity selects. The invariant `Laid` adds that a storage lies in that arena, below
the place where the next allocation begins, and that only the newest can end there.

`ListsAreValues` (`Spec => ImplementsLists`) shows the same module to implement
`ListValues`. The initial state has no Lists. A step extends, moves, writes or copies one
storage, and what has to be shown is that what all other Lists read is untouched. It adds to
`Laid` that every storage and every allocation lies inside the memory it was cut from
(`Placed`). That storages do not overlap then says that the cells a step writes
belong to no other List, and each step has one lemma that says what every List reads after
it.

For Texts, which share bytes on purpose, two theorems hold for any literals and any
blocks, Texts and slice cache that satisfy `ArenaTextsAssumption`: `TextsKeepTheirBytes`
(`MemorySpec => TextsKeepBytes`) and `TextsAreTrue` (`MemorySpec => []ResultsTrue`). The invariant `TextsSound` says that every Text and its terminator lie in a
block, in the newest one below the top; then what a join writes in place begins at the
terminator of the newest Text, behind the bytes of all others, sharing or not (`TextMade`).
It also says that the result of the last join ends at the top, which is why joining to it
copies nothing. Of the cache it says nothing: what a slot holds is compared byte by byte
before it is returned.

It also proves `RecursionEndsInAReport` (`MemorySpec => []StackGuarded`) for any sizes
under `StackAssumption`. The inductive invariant adds `ReserveKept`: every function that
was let in left the reserve untouched, so that the next frame and a report fit in it.

`SymbolLookupProofs` proves `LookupIsLinearSearch` (`Spec => []LookupSound`) for any names,
kinds and numbers of declarations. The invariant `LookupInv` has `Permuted`, that `lookup`
is a permutation of the positions, which every exchange keeps; `HeapOrdered`, where the
parent of the sinking entry is not before that entry's children either, so that an
exchange leaves only the next level to repair; and `Reached`: what is sorted once the loops
are through, and that in a search everything below `low` is before the symbol wanted and
nothing from `high` on is. That the root of a heap is not before any of its entries needs an
induction over the levels, done by taking a least counterexample. That
`compareSymbol` is a total order is not assumed: `SymbolsAreOrdered` derives it from the
first difference that `compareText` looks for. `LoopsShrink` speaks of `ENABLED` and stays with TLC.

It also proves `PathsNameTheirFiles` (`FrontSpec => []PathsSound`) for importers and
specifiers of any length, under `PartsAssumption`. `Walk` is a recursive function, so first
it is shown to have a value for every sequence of parts: if not, there is a
least number of parts that lead nowhere, and the parts before them do lead somewhere
(`PartsLead`). From then on paths are handled by two laws, that walking one part more is one
step (`WalkOn`) and that a path may be walked in pieces (`WalkAppend`). The invariant
`PathsInv` adds to `PathsSound` that ".." is in use only in front of a relative path
(`UpComesFirst`), so that dropping a name is always going up from it; that every path ends
in a name which is still in use when it has been read (`EndInNames`), so that the
importer's last part, the file, is what is dropped when the specifier is joined; and what the
joined path leads to (`JoinLeads`).

It also proves `ModulesLoadRight` (`FrontSpec => []ModulesSound`) for any files
and imports, given that the entry file is there (`FilesAssumption`). The invariant
`LoaderSound` says while files are read that the calls of `loadModule` are the modules in
state 1, each for an import the one around it has read (`CallsNested`): that makes the
reported chain real. Every import has its row or waits for the call it made, and rows
lead only to modules read completely (`TableTrue`); so a module that is
completed closes no cycle (`ClosedAcyclic`), since no row leads to it yet. An alias without a
row was not used in the file before (`FreshAlias`), although the row of an import that is
being followed is still to come: the file that reads is the innermost.

`ListMutationProofs` proves for any records, types, nesting and objects:

* `CheckIsExact`: `Spec => []VerdictExact`. Reaching is defined by closed sets of types
  (a type is reached if every closed set with the first has it), which needs no
  induction. The loop invariant `Search` says that everything pending is reached, that
  visited records have their fields pending, and what is known of pending types
  already dealt with; at the end what they unwrap to is a closed set without the
  type asked about.
* `HeapsAreAcyclic`: `Spec => []HeapsSound`, that is `WellTyped` and `NoCycle`. `NoCycle` says that every set of
  objects has one that refers to none of the set. A store from a List of type L to a
  value whose type lies in a closed set without L cannot complete such a set: its
  members with types in the closed set already were one before the store. New
  objects are referred to by nothing until they are finished, which `WellTyped` says.
* `SearchEnds`: `Spec => SearchShrinks`, given that the declared records are finitely many
  (`BaseAssumption`). What is left to visit is the number of fields of records not visited
  (`Unvisited`, the size of a set) and of types pending. Expanding a record moves its fields
  from the first number to the second; that it was not visited before is what makes
  them move once.

The assumptions are those named in the modules. Only model checked: liveness and `LoopsShrink`, which are out of the prover's reach; `PoolExact` and
`PollBatched`; what `TextIndex` states; and the Stage 0 modules, whose passes are recursive
operators.

## Plan

In this order; each item ends with its runs, mutants and map entries.

1. `TokenRewrite`: the modes of `appendModuleTokens` (types, headers, selectors) over
   token classes, against the references a reader sees.
2. Integer conversions over a small
   width, the field codec of module states, ownership tokens of the code generator of
   `compiler.min` (`takeResult`, `takeOwner`, `rootLocal`).
3. Stage 0 with several functions, so that recursion and the guard are run together.
4. Proofs: `Pool` accounting, the index and cursor of `TextIndex`.

## Not modelled

The tokenizer, parser, and the rest of the checker and code generator of
`compiler.min` (sequential passes; their ownership rules are the environment of
`BoundedRc` and `EagerRc`); integer checks and conversions of the runtime; printing, file contents and
the escaping of literals; the byte formats of bases, deltas and envelopes; the
launcher; vendored containers; tests, scripts and experiments; sanitizer
instrumentation; timing.
