----------------------------- MODULE ModuleBuild -----------------------------
(***************************************************************************)
(* Incremental builds: the driver (tools/module-build.c) and the module    *)
(* front end it runs (src/module-compiler.min).  Several drivers may build *)
(* the same entry file at once, each may die between any two steps, and    *)
(* the sources and the installed compiler may change under them.           *)
(*                                                                         *)
(* A file published by rename or link is never written again, so an open   *)
(* descriptor is the value the file had when it was opened.  XXH64 is      *)
(* taken to be injective on the payloads of one cache: the identity of a   *)
(* base is its payload.  The hash that names a compiler image may collide. *)
(***************************************************************************)
EXTENDS Integers, FiniteSets, Functions

CONSTANTS Builders,   \* driver processes
          Modules,    \* canonical source paths
          Entry,      \* the entry file
          Texts,      \* Texts[m]: the contents file m may be given
          Compilers,  \* compiler binaries
          ImageHash,  \* the hash that names the image of a binary
          Policies,   \* effective stack-owner limits
          Slots,      \* image names tried for one hash (16 in the code)
          MaxEdits,   \* bound on source edits and compiler upgrades
          MaxBuilds,  \* bound on builds started
          MaxLosses,  \* bound on power failures
          None, Corrupt

(* What the front end tells apart in a source file.                        *)
Text == [body : Nat,                 \* statements of its functions
         functions : Nat,            \* its function headers
         layout : Nat,               \* its record declarations
         mentions : SUBSET Modules,  \* modules whose records its headers name
         imports : SUBSET Modules,
         calls : SUBSET Nat]         \* headers of its imports it type checks with

ASSUME BuildAssumption ==
    /\ Entry \in Modules /\ IsFiniteSet(Modules)
    /\ \A m \in Modules : Texts[m] \subseteq Text
    /\ DOMAIN ImageHash = Compilers
    /\ Slots \in Nat \ {0}
    /\ MaxEdits \in Nat /\ MaxBuilds \in Nat /\ MaxLosses \in Nat
    /\ None # Corrupt /\ {None, Corrupt} \cap Compilers = {}

VARIABLES source,     \* the text of every file
          installed,  \* the compiler the next build starts with
          images,     \* compiler-images: contents of every name
          base,       \* KEY.cache, per policy
          delta,      \* KEY.cache.delta, per policy
          build,      \* the driver processes
          output,     \* the LLVM file each driver was asked for
          edits, builds, losses

files == <<images, base, delta>>
environment == <<source, installed>>
bounds == <<edits, builds, losses>>
vars == <<environment, files, build, output, bounds>>

ImageNames == Range(ImageHash) \X (1..Slots)

Idle == [pc |-> "idle"]
NoRows == [signature |-> <<>>, table |-> <<>>, rows |-> <<>>]
NoDelta == [of |-> NoRows]
-----------------------------------------------------------------------------
(***************************************************************************)
(* The front end.                                                          *)
(***************************************************************************)
(* The interface summary of a module: everything but function bodies. *)
Summary(text) ==
    [functions |-> text.functions, layout |-> text.layout,
     mentions |-> text.mentions, imports |-> text.imports]

(* The least set that contains S and the successors of its members. *)
Closure(S, next) ==
    LET grown[n \in 0..Cardinality(DOMAIN next)] ==
            IF n = 0 THEN S
            ELSE grown[n - 1] \cup UNION {next[m] : m \in grown[n - 1] \cap DOMAIN next}
    IN grown[Cardinality(DOMAIN next)]

(* moduleInterfaceContext: a module's own declarations, those of its       *)
(* direct imports, and the layouts of all records reachable from them.     *)
Context(m, table) ==
    LET direct == {m} \cup table[m].imports
        mentioned == Closure(direct, [n \in DOMAIN table |-> table[n].mentions])
    IN [n \in mentioned \cap DOMAIN table |->
           [functions |-> IF n \in direct THEN table[n].functions ELSE None,
            layout |-> table[n].layout, mentions |-> table[n].mentions]]

(* The checker's verdict on a body. *)
Accepts(text, context) ==
    \A n \in text.imports : context[n].functions \in text.calls

(* The code of one module, by everything it is generated from. *)
Code(identity, m, text, context) ==
    [identity |-> identity, module |-> m, text |-> text, context |-> context]

Cyclic(texts) ==
    LET imports == [m \in DOMAIN texts |-> texts[m].imports]
    IN \E m \in DOMAIN texts : m \in Closure(imports[m], imports)

(* priorModule finds the row of m. *)
Saved(prior, m) == m \in DOMAIN prior.rows

SavedText(prior, m, text) == Saved(prior, m) /\ prior.rows[m].text = text

(* An unchanged source brings its saved summary. *)
Summaries(texts, prior) ==
    [m \in DOMAIN texts |-> IF SavedText(prior, m, texts[m]) THEN prior.rows[m].summary
                            ELSE Summary(texts[m])]

TableReused(texts, prior) == prior.signature = Summaries(texts, prior)

Table(texts, prior) ==
    IF TableReused(texts, prior) THEN prior.table ELSE Summaries(texts, prior)

ContextNow(m, texts, prior) ==
    IF TableReused(texts, prior) /\ Saved(prior, m) THEN prior.rows[m].context
    ELSE Context(m, Table(texts, prior))

(* Mutant: an unchanged source is enough. *)
UnchangedSource(m, texts, prior) == SavedText(prior, m, texts[m])

(* Mutant: one edited module recompiles all of them. *)
AllUnchanged(m, texts, prior) == \A n \in DOMAIN texts : SavedText(prior, n, texts[n])

Reused(m, texts, prior) ==
    /\ SavedText(prior, m, texts[m])
    /\ prior.rows[m].context = ContextNow(m, texts, prior)

Compiled(texts, prior) == {m \in DOMAIN texts : ~ Reused(m, texts, prior)}

Checked(texts, prior) ==
    \A m \in Compiled(texts, prior) : Accepts(texts[m], Context(m, Table(texts, prior)))

CodeNow(identity, m, texts, prior) ==
    IF Reused(m, texts, prior) THEN prior.rows[m].code
    ELSE Code(identity, m, texts[m], Context(m, Table(texts, prior)))

Row(identity, m, texts, prior) ==
    [text |-> texts[m], summary |-> Summaries(texts, prior)[m],
     context |-> ContextNow(m, texts, prior), code |-> CodeNow(identity, m, texts, prior)]

(* nextFields: the complete state a successful compilation saves. *)
NextState(identity, texts, prior) ==
    [signature |-> Summaries(texts, prior), table |-> Table(texts, prior),
     rows |-> [m \in DOMAIN texts |-> Row(identity, m, texts, prior)]]

Dirty(texts, prior) ==
    \/ ~ TableReused(texts, prior)
    \/ DOMAIN prior.rows # DOMAIN texts
    \/ Compiled(texts, prior) # {}
-----------------------------------------------------------------------------
(***************************************************************************)
(* Bases and deltas.                                                       *)
(***************************************************************************)
ChangedRows(next, old) ==
    {m \in DOMAIN next.rows : ~ Saved(old, m) \/ old.rows[m] # next.rows[m]}

(* writeModuleUpdate: a delta describes every difference from the base;    *)
(* when more than half of the modules differ it is a new base.             *)
Update(next, old) ==
    LET changed == ChangedRows(next, old)
    IN IF old = NoRows \/ 2 * Cardinality(changed) > Cardinality(DOMAIN next.rows)
       THEN [kind |-> "base", content |-> next]
       ELSE [kind |-> "delta",
             content |-> [of |-> old, signature |-> next.signature,
                          table |-> IF next.signature = old.signature THEN <<>>
                                    ELSE next.table,
                          rows |-> Restrict(next.rows, changed)]]

(* Mutant: a delta applies to whatever base is there. *)
AnyGeneration(old, saved) == saved # NoDelta

Generation(old, saved) == saved.of = old

(* overlayModuleFields stops on a delta that does not fit its base. *)
OverlayFails(old, saved) ==
    /\ old # NoRows
    /\ Generation(old, saved)
    /\ \/ saved.table = <<>> /\ saved.signature # old.signature
       \/ ~ DOMAIN saved.signature \subseteq DOMAIN saved.rows \cup DOMAIN old.rows

Overlay(old, saved) ==
    IF old = NoRows \/ ~ Generation(old, saved) THEN old
    ELSE [signature |-> saved.signature,
          table |-> IF saved.table = <<>> THEN old.table ELSE saved.table,
          rows |-> [m \in DOMAIN saved.signature |->
                       IF Saved(saved, m) THEN saved.rows[m] ELSE old.rows[m]]]

(* Mutant: the compiler that wrote a file is not compared. *)
AnyCompiler(file, identity) == file \notin {None, Corrupt}

(* A file written for this compiler and policy, whole. *)
Valid(file, identity) == file \notin {None, Corrupt} /\ file.identity = identity

Prior(p) == Overlay(build[p].base, build[p].delta)
-----------------------------------------------------------------------------
(***************************************************************************)
(* The driver.                                                             *)
(***************************************************************************)
Identity(c, policy) == [compiler |-> c, policy |-> policy]

Become(p, state) == build' = [build EXCEPT ![p] = state]

(* The compiler's bytes are read once; they name it from here on. *)
Start(p, policy) ==
    /\ build[p] = Idle
    /\ builds < MaxBuilds
    /\ builds' = builds + 1
    /\ Become(p, [pc |-> "look", compiler |-> installed, policy |-> policy, slot |-> 1])
    /\ UNCHANGED <<environment, files, output, edits, losses>>

ImageOf(p, slot) == <<ImageHash[build[p].compiler], slot>>

(* The compiler that will run is the image, not the file it was read from. *)
Snapshot(p) == [pc |-> "open", compiler |-> build[p].compiler, policy |-> build[p].policy,
                image |-> ImageOf(p, build[p].slot)]

(* Another name is tried, or the build stops: too many conflicting images. *)
NextSlot(p) ==
    IF build[p].slot < Slots THEN [build[p] EXCEPT !.pc = "look", !.slot = @ + 1] ELSE Idle

Look(p) ==
    /\ build[p].pc = "look"
    /\ LET image == images[ImageOf(p, build[p].slot)]
       IN Become(p, CASE image = build[p].compiler -> Snapshot(p)
                      [] image = None -> [build[p] EXCEPT !.pc = "link"]
                      [] OTHER -> NextSlot(p))
    /\ UNCHANGED <<environment, files, output, bounds>>

(* Mutant: publication replaces what another driver published. *)
Replaceable(image) == TRUE

(* link fails when the name exists. *)
Absent(image) == image = None

PublishImage(p) ==
    /\ build[p].pc = "link"
    /\ LET name == ImageOf(p, build[p].slot)
       IN IF Absent(images[name])
          THEN /\ images' = [images EXCEPT ![name] = build[p].compiler]
               /\ Become(p, Snapshot(p))
          ELSE /\ Become(p, IF images[name] = build[p].compiler THEN Snapshot(p)
                            ELSE NextSlot(p))
               /\ UNCHANGED images
    /\ UNCHANGED <<environment, base, delta, output, bounds>>

Running(p) == Identity(build[p].compiler, build[p].policy)

Loading(p, old, saved) ==
    [pc |-> "load", compiler |-> build[p].compiler, policy |-> build[p].policy,
     image |-> build[p].image, base |-> old, delta |-> saved, read |-> <<>>]

OpenBase(p) ==
    /\ build[p].pc = "open"
    /\ LET file == base[build[p].policy]
       IN Become(p, IF Valid(file, Running(p))
                    THEN [Loading(p, file.content, NoDelta) EXCEPT !.pc = "openDelta"]
                    ELSE Loading(p, NoRows, NoDelta))
    /\ UNCHANGED <<environment, files, output, bounds>>

OpenDelta(p) ==
    /\ build[p].pc = "openDelta"
    /\ LET file == delta[build[p].policy]
       IN Become(p, Loading(p, build[p].base,
                            IF Valid(file, Running(p)) THEN file.content ELSE NoDelta))
    /\ UNCHANGED <<environment, files, output, bounds>>

(* The modules named by an import and not read yet. *)
Pending(p) ==
    ({Entry} \cup UNION {build[p].read[m].imports : m \in DOMAIN build[p].read})
        \ DOMAIN build[p].read

(* loadInterfaceModule reads every file once. *)
Load(p, m) ==
    /\ build[p].pc = "load"
    /\ m \in Pending(p)
    /\ ~ Cyclic(build[p].read)
    /\ Become(p, [build[p] EXCEPT !.read = [n \in DOMAIN @ \cup {m} |->
                                               IF n = m THEN source[m] ELSE @[n]]])
    /\ UNCHANGED <<environment, files, output, bounds>>

Loaded(p) == build[p].pc = "load" /\ (Pending(p) = {} \/ Cyclic(build[p].read))

Fails(p) ==
    \/ OverlayFails(build[p].base, build[p].delta)
    \/ Cyclic(build[p].read)
    \/ ~ Checked(build[p].read, Prior(p))

(* What runs is the image. *)
Executed(p) == Identity(images[build[p].image], build[p].policy)

Compile(p) ==
    /\ Loaded(p)
    /\ ~ Fails(p)
    /\ LET texts == build[p].read
           prior == Prior(p)
           next == NextState(Executed(p), texts, prior)
       IN Become(p, [pc |-> "publish", compiler |-> build[p].compiler,
                     policy |-> build[p].policy, texts |-> texts, prior |-> prior,
                     code |-> [m \in DOMAIN texts |-> next.rows[m].code],
                     compiled |-> Compiled(texts, prior),
                     update |-> IF Dirty(texts, prior) THEN Update(next, build[p].base)
                                ELSE None])
    /\ UNCHANGED <<environment, files, output, bounds>>

(* A failure with a cache is tried again without one. *)
CompileFails(p) ==
    /\ Loaded(p)
    /\ Fails(p)
    /\ Become(p, IF build[p].base = NoRows THEN Idle ELSE Loading(p, NoRows, NoDelta))
    /\ UNCHANGED <<environment, files, output, bounds>>

PublishOutput(p) ==
    /\ build[p].pc = "publish"
    /\ output' = [output EXCEPT ![p] = [identity |-> Running(p), texts |-> build[p].texts,
                                        code |-> build[p].code]]
    /\ Become(p, [build[p] EXCEPT !.pc = "save"])
    /\ UNCHANGED <<environment, files, bounds>>

Envelope(p) == [identity |-> Running(p), content |-> build[p].update.content]

(* publish_cache replaces the whole file; nothing is saved when nothing    *)
(* changed.                                                                *)
SaveState(p) ==
    /\ build[p].pc = "save"
    /\ LET update == build[p].update
           policy == build[p].policy
       IN /\ base' = IF update # None /\ update.kind = "base"
                     THEN [base EXCEPT ![policy] = Envelope(p)] ELSE base
          /\ delta' = IF update # None /\ update.kind = "delta"
                      THEN [delta EXCEPT ![policy] = Envelope(p)] ELSE delta
    /\ Become(p, Idle)
    /\ UNCHANGED <<environment, images, output, bounds>>

(* A state beyond the artifact limit is not persisted; and a driver may    *)
(* stop with an error or be killed anywhere.                               *)
Die(p) ==
    /\ build[p] # Idle
    /\ Become(p, Idle)
    /\ UNCHANGED <<environment, files, output, bounds>>

(* Nothing is synchronised to the disk: a power failure may leave any file *)
(* that was published incomplete.                                          *)
Damaged(file) == IF file = None THEN None ELSE Corrupt

PowerLoss ==
    /\ losses < MaxLosses
    /\ losses' = losses + 1
    /\ \E torn \in SUBSET {"images", "base", "delta"} :
          /\ images' = IF "images" \in torn
                       THEN [name \in DOMAIN images |-> Damaged(images[name])] ELSE images
          /\ base' = IF "base" \in torn THEN [k \in Policies |-> Damaged(base[k])] ELSE base
          /\ delta' = IF "delta" \in torn THEN [k \in Policies |-> Damaged(delta[k])] ELSE delta
    /\ build' = [p \in Builders |-> Idle]
    /\ UNCHANGED <<environment, output, edits, builds>>

Edit(m, text) ==
    /\ edits < MaxEdits
    /\ source[m] # text
    /\ edits' = edits + 1
    /\ source' = [source EXCEPT ![m] = text]
    /\ UNCHANGED <<installed, files, build, output, builds, losses>>

Upgrade(c) ==
    /\ edits < MaxEdits
    /\ installed # c
    /\ edits' = edits + 1
    /\ installed' = c
    /\ UNCHANGED <<source, files, build, output, builds, losses>>

Drive(p) ==
    \/ \E policy \in Policies : Start(p, policy)
    \/ Look(p) \/ PublishImage(p)
    \/ OpenBase(p) \/ OpenDelta(p)
    \/ \E m \in Modules : Load(p, m)
    \/ Compile(p) \/ CompileFails(p)
    \/ PublishOutput(p) \/ SaveState(p)

Next ==
    \/ \E p \in Builders : Drive(p) \/ Die(p)
    \/ \E m \in Modules : \E text \in Texts[m] : Edit(m, text)
    \/ \E c \in Compilers : Upgrade(c)
    \/ PowerLoss

Init ==
    /\ source \in {s \in [Modules -> UNION {Texts[m] : m \in Modules}] :
                      \A m \in Modules : s[m] \in Texts[m] /\ s[m].body = 0}
    /\ installed \in Compilers
    /\ images = [name \in ImageNames |-> None]
    /\ base = [k \in Policies |-> None]
    /\ delta = [k \in Policies |-> None]
    /\ build = [p \in Builders |-> Idle]
    /\ output = [p \in Builders |-> None]
    /\ edits = 0 /\ builds = 0 /\ losses = 0

Spec == Init /\ [][Next]_vars
-----------------------------------------------------------------------------
(***************************************************************************)
(* Properties.                                                             *)
(***************************************************************************)
(* A build from nothing. *)
CleanAccepts(texts) ==
    LET summaries == [m \in DOMAIN texts |-> Summary(texts[m])]
    IN /\ ~ Cyclic(texts)
       /\ \A m \in DOMAIN texts : Accepts(texts[m], Context(m, summaries))

CleanCode(identity, texts) ==
    LET summaries == [m \in DOMAIN texts |-> Summary(texts[m])]
    IN [m \in DOMAIN texts |-> Code(identity, m, texts[m], Context(m, summaries))]

(* The state a build from nothing saves. *)
CleanState(identity, texts) == NextState(identity, texts, NoRows)

(* The shape of every state a compilation saves. *)
WholeState(state) ==
    /\ state = [signature |-> state.signature, table |-> state.table, rows |-> state.rows]
    /\ state.rows = [m \in DOMAIN state.signature |-> state.rows[m]]
    /\ state.table = state.signature
    /\ state.table # <<>>

IsClean(identity, state) ==
    /\ WholeState(state)
    /\ state = CleanState(identity, [m \in DOMAIN state.rows |-> state.rows[m].text])

(* What an incremental build publishes is what a build from nothing of the *)
(* texts it read, by the compiler it was started with, would publish:      *)
(* whatever was reused, and whichever builds, edits, upgrades and crashes  *)
(* came between.  Nor does reuse hide an error: it would be accepted then. *)
OutputSound ==
    \A p \in Builders :
        /\ output[p] # None => output[p].code = CleanCode(output[p].identity, output[p].texts)
        /\ build[p].pc = "publish" => CleanAccepts(build[p].texts)

(* A whole base, and a delta of that very base laid over it, are what some *)
(* single compilation saved: generations are never combined.               *)
CacheHonest ==
    \A k \in Policies : base[k] \notin {None, Corrupt} =>
        LET identity == base[k].identity
            old == base[k].content
        IN /\ IsClean(identity, old)
           /\ Valid(delta[k], identity) =>
                 /\ ~ OverlayFails(old, delta[k].content)
                 /\ IsClean(identity, Overlay(old, delta[k].content))

(* A validated cache never makes the compilation of good sources fail: the *)
(* second, uncached run is only ever for sources that are wrong.           *)
CacheNeverFails ==
    \A p \in Builders :
        Loaded(p) /\ build[p].base # NoRows /\ CleanAccepts(build[p].read) => ~ Fails(p)

(* Edits that leave all interfaces alone recompile the edited modules and  *)
(* no others.                                                              *)
BodyEditsStayLocal ==
    \A p \in Builders : build[p].pc = "publish" =>
        LET texts == build[p].texts
            rows == build[p].prior.rows
        IN (/\ DOMAIN rows = DOMAIN texts
            /\ \A m \in DOMAIN texts : Summary(texts[m]) = Summary(rows[m].text))
           => build[p].compiled = {m \in DOMAIN texts : rows[m].text # texts[m]}

(* A driver that has an image refers to a name that holds its compiler,    *)
(* and one still looking for it knows the compiler and a slot to try.      *)
Kept(r, stored) ==
    \/ r = Idle
    \/ r \in [pc : {"look", "link"}, compiler : Compilers, policy : Policies, slot : 1..Slots]
    \/ /\ r.pc \in {"open", "openDelta", "load"}
       /\ {"pc", "compiler", "policy", "image"} \subseteq DOMAIN r
       /\ r.compiler \in Compilers /\ r.policy \in Policies
       /\ r.image \in ImageNames
       /\ stored[r.image] = r.compiler
    \/ r.pc \in {"publish", "save"} /\ "pc" \in DOMAIN r

(* Inductive form of RunsWhatItNames. *)
ImagesKept ==
    /\ installed \in Compilers
    /\ images \in [ImageNames -> Compilers \cup {None, Corrupt}]
    /\ DOMAIN build = Builders
    /\ \A p \in Builders : Kept(build[p], images)

(* The binary a build executes is the one whose bytes stamp its artifacts, *)
(* even when another driver publishes under the same name.                 *)
RunsWhatItNames ==
    \A p \in Builders :
        build[p].pc \in {"open", "openDelta", "load"} =>
            images[build[p].image] = build[p].compiler
=============================================================================
