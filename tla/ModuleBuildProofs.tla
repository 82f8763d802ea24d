-------------------------- MODULE ModuleBuildProofs --------------------------
(***************************************************************************)
(* Proofs about incremental builds, for any number of drivers, modules,    *)
(* compilers, image names and texts.                                       *)
(***************************************************************************)
EXTENDS ModuleBuild, TLAPS

(* The name a driver tries exists. *)
LEMMA NamesAreNames ==
    \A c \in Compilers, k \in 1..Slots : <<ImageHash[c], k>> \in ImageNames
BY BuildAssumption DEF ImageNames, Range

(* A driver that looks for its image finds it, or has another name to try. *)
LEMMA LookingAround ==
    ASSUME NEW p \in Builders, ImagesKept, build[p].pc \in {"look", "link"}, NEW f
    PROVE  /\ ImageOf(p, build[p].slot) \in ImageNames
           /\ build[p].compiler \in Compilers
           /\ f[ImageOf(p, build[p].slot)] = build[p].compiler => Kept(Snapshot(p), f)
           /\ Kept(NextSlot(p), f)
           /\ Kept([build[p] EXCEPT !.pc = "link"], f)
<1>1. build[p] \in [pc : {"look", "link"}, compiler : Compilers,
                     policy : Policies, slot : 1..Slots]
  BY DEF ImagesKept, Kept, Idle
<1>2. ImageOf(p, build[p].slot) \in ImageNames
  BY <1>1, NamesAreNames DEF ImageOf
<1>3. f[ImageOf(p, build[p].slot)] = build[p].compiler => Kept(Snapshot(p), f)
  BY <1>1, <1>2 DEF Snapshot, Kept
<1>4. Kept(NextSlot(p), f)
  <2>1. CASE build[p].slot < Slots
    <3>1. build[p].slot + 1 \in 1..Slots
      BY <1>1, <2>1, BuildAssumption
    <3>2. NextSlot(p) = [build[p] EXCEPT !.pc = "look", !.slot = build[p].slot + 1]
      BY <2>1 DEF NextSlot
    <3>3. QED
      BY <1>1, <3>1, <3>2 DEF Kept
  <2>2. CASE ~ (build[p].slot < Slots)
    BY <2>2 DEF NextSlot, Kept
  <2>3. QED
    BY <2>1, <2>2
<1>5. Kept([build[p] EXCEPT !.pc = "link"], f)
  BY <1>1 DEF Kept
<1>6. QED
  BY <1>1, <1>2, <1>3, <1>4, <1>5

(* No step takes a compiler image away from a driver that will execute it: *)
(* images are published only under absent names, and a power failure stops *)
(* every driver.                                                           *)
LEMMA ImagesStayKept == ImagesKept /\ [Next]_vars => ImagesKept'
<1> SUFFICES ASSUME ImagesKept, [Next]_vars PROVE ImagesKept'
  OBVIOUS
<1> USE BuildAssumption, NamesAreNames DEF ImagesKept, Kept
<1>1. ASSUME NEW p \in Builders, NEW policy \in Policies, Start(p, policy)
      PROVE ImagesKept'
  BY <1>1 DEF Start, Become, environment, files, Idle
<1>2. ASSUME NEW p \in Builders, Look(p) PROVE ImagesKept'
  <2>1. Kept(build'[p], images)
    BY <1>2, LookingAround DEF Look, Become
  <2>2. \A q \in Builders \ {p} : build'[q] = build[q]
    BY <1>2 DEF Look, Become
  <2>3. installed' = installed /\ images' = images /\ DOMAIN build' = Builders
    BY <1>2 DEF Look, Become, environment, files
  <2>4. QED
    BY <2>1, <2>2, <2>3 DEF Kept
<1>3. ASSUME NEW p \in Builders, PublishImage(p) PROVE ImagesKept'
  <2> DEFINE name == ImageOf(p, build[p].slot)
  <2>1. build[p].pc = "link" /\ installed' = installed /\ DOMAIN build' = Builders
    BY <1>3 DEF PublishImage, Become, environment
  <2>2. name \in ImageNames /\ build[p].compiler \in Compilers
    BY <2>1, LookingAround
  <2>3. \A n \in ImageNames : images[n] \in Compilers => images'[n] = images[n]
    BY <1>3, <2>2 DEF PublishImage, Absent
  <2>4. images' \in [ImageNames -> Compilers \cup {None, Corrupt}]
    BY <1>3, <2>2 DEF PublishImage
  <2>5. Kept(build'[p], images')
    <3>1. CASE Absent(images[name])
      <4>1. images'[name] = build[p].compiler /\ build'[p] = Snapshot(p)
        BY <1>3, <2>2, <3>1 DEF PublishImage, Become
      <4>2. images'[name] = build[p].compiler => Kept(Snapshot(p), images')
        BY <2>1, LookingAround
      <4> HIDE DEF Kept
      <4>3. QED
        BY <4>1, <4>2
    <3>2. CASE ~ Absent(images[name])
      <4>1. images' = images
        BY <1>3, <3>2 DEF PublishImage
      <4>2. build'[p] = IF images[name] = build[p].compiler THEN Snapshot(p) ELSE NextSlot(p)
        BY <1>3, <3>2 DEF PublishImage, Become
      <4>3. /\ images'[name] = build[p].compiler => Kept(Snapshot(p), images')
            /\ Kept(NextSlot(p), images')
        BY <2>1, LookingAround
      <4> HIDE DEF Kept
      <4>4. QED
        BY <4>1, <4>2, <4>3
    <3>3. QED
      BY <3>1, <3>2
  <2>6. \A q \in Builders \ {p} : build'[q] = build[q]
    BY <1>3 DEF PublishImage, Become
  <2>7. \A q \in Builders \ {p} : Kept(build[q], images')
    BY <2>3 DEF Kept
  <2>8. QED
    BY <2>1, <2>4, <2>5, <2>6, <2>7 DEF Kept
<1>4. ASSUME NEW p \in Builders, OpenBase(p) PROVE ImagesKept'
  BY <1>4 DEF OpenBase, Become, environment, files, Idle, Loading
<1>5. ASSUME NEW p \in Builders, OpenDelta(p) PROVE ImagesKept'
  BY <1>5 DEF OpenDelta, Become, environment, files, Idle, Loading
<1>6. ASSUME NEW p \in Builders, NEW m \in Modules, Load(p, m) PROVE ImagesKept'
  BY <1>6 DEF Load, Become, environment, files, Idle
<1>7. ASSUME NEW p \in Builders, Compile(p) PROVE ImagesKept'
  BY <1>7 DEF Compile, Become, environment, files, Idle
<1>8. ASSUME NEW p \in Builders, CompileFails(p) PROVE ImagesKept'
  BY <1>8 DEF CompileFails, Loaded, Become, environment, files, Idle, Loading
<1>9. ASSUME NEW p \in Builders, PublishOutput(p) PROVE ImagesKept'
  BY <1>9 DEF PublishOutput, Become, environment, files, Idle
<1>10. ASSUME NEW p \in Builders, SaveState(p) PROVE ImagesKept'
  BY <1>10 DEF SaveState, Become, environment, Idle
<1>11. ASSUME NEW p \in Builders, Die(p) PROVE ImagesKept'
  BY <1>11 DEF Die, Become, environment, files, Idle
<1>12. ASSUME PowerLoss PROVE ImagesKept'
  BY <1>12 DEF PowerLoss, environment, Damaged
<1>13. ASSUME NEW m \in Modules, NEW text \in Texts[m], Edit(m, text) PROVE ImagesKept'
  BY <1>13 DEF Edit, files
<1>14. ASSUME NEW c \in Compilers, Upgrade(c) PROVE ImagesKept'
  BY <1>14 DEF Upgrade, files
<1>15. CASE UNCHANGED vars
  BY <1>15 DEF vars, environment, files
<1>16. QED
  BY <1>1, <1>2, <1>3, <1>4, <1>5, <1>6, <1>7, <1>8, <1>9, <1>10, <1>11, <1>12,
     <1>13, <1>14, <1>15 DEF Next, Drive

(* The binary a build executes is the one whose bytes stamp its artifacts. *)
THEOREM ImagesAreImmutable == Spec => []RunsWhatItNames
<1>1. Init => ImagesKept
  BY DEF Init, ImagesKept, Kept
<1>2. ImagesKept => RunsWhatItNames
  BY DEF ImagesKept, Kept, RunsWhatItNames, Idle
<1>3. QED
  BY <1>1, <1>2, ImagesStayKept, PTL DEF Spec

(* What writeModuleUpdate saves as a delta, overlayModuleFields turns back *)
(* into the complete state it was made from, whatever rows were added,     *)
(* changed or dropped since the base: a delta stands for one compilation   *)
(* and needs no chain.                                                     *)
THEOREM DeltaRoundTrip ==
    ASSUME NEW next, NEW old, WholeState(next), WholeState(old),
           Update(next, old).kind = "delta"
    PROVE  LET saved == Update(next, old).content
           IN ~ OverlayFails(old, saved) /\ Overlay(old, saved) = next
<1> DEFINE changed == ChangedRows(next, old)
           saved == Update(next, old).content
<1>1. saved = [of |-> old, signature |-> next.signature,
               table |-> IF next.signature = old.signature THEN <<>> ELSE next.table,
               rows |-> Restrict(next.rows, changed)]
  BY DEF Update
<1>2. Generation(old, saved)
  BY <1>1 DEF Generation, WholeState
<1>3. \A m \in DOMAIN next.rows :
          IF m \in changed THEN saved.rows[m] = next.rows[m]
          ELSE m \in DOMAIN old.rows /\ old.rows[m] = next.rows[m]
  BY <1>1 DEF ChangedRows, Saved, Restrict
<1>4. DOMAIN saved.rows = changed
  BY <1>1 DEF Restrict
<1>5. ~ OverlayFails(old, saved)
  BY <1>1, <1>3, <1>4 DEF OverlayFails, WholeState
<1>6. Overlay(old, saved) = next
  <2>1. [m \in DOMAIN saved.signature |->
            IF Saved(saved, m) THEN saved.rows[m] ELSE old.rows[m]] = next.rows
    <3>1. next.rows = [m \in DOMAIN next.signature |-> next.rows[m]]
      BY DEF WholeState
    <3>2. saved.signature = next.signature /\ DOMAIN next.rows = DOMAIN next.signature
      BY <1>1, <3>1
    <3>3. \A m \in DOMAIN next.signature :
              (IF Saved(saved, m) THEN saved.rows[m] ELSE old.rows[m]) = next.rows[m]
      BY <1>3, <1>4, <3>2 DEF Saved
    <3> HIDE DEF saved, changed
    <3>4. QED
      BY <3>1, <3>2, <3>3
  <2>2. (IF saved.table = <<>> THEN old.table ELSE saved.table) = next.table
    BY <1>1 DEF WholeState
  <2>3. saved.signature = next.signature
    BY <1>1
  <2>4. next = [signature |-> next.signature, table |-> next.table, rows |-> next.rows]
    BY DEF WholeState
  <2>5. old # NoRows
    BY DEF WholeState, NoRows
  <2> HIDE DEF saved
  <2>6. Overlay(old, saved) = [signature |-> saved.signature,
                               table |-> IF saved.table = <<>> THEN old.table
                                         ELSE saved.table,
                               rows |-> [m \in DOMAIN saved.signature |->
                                            IF Saved(saved, m) THEN saved.rows[m]
                                            ELSE old.rows[m]]]
    BY <1>2, <2>5 DEF Overlay
  <2>7. QED
    BY <2>1, <2>2, <2>3, <2>4, <2>6
<1>7. QED
  BY <1>5, <1>6
-----------------------------------------------------------------------------
(***************************************************************************)
(* An incremental build publishes what a clean build would.                *)
(***************************************************************************)
CleanSummaries(texts) == [m \in DOMAIN texts |-> Summary(texts[m])]

CleanContext(m, texts) == Context(m, CleanSummaries(texts))

CleanRow(identity, m, texts) ==
    [text |-> texts[m], summary |-> Summary(texts[m]), context |-> CleanContext(m, texts),
     code |-> Code(identity, m, texts[m], CleanContext(m, texts))]

(* What a build from nothing saves, written out. *)
Clean(identity, texts) ==
    [signature |-> CleanSummaries(texts), table |-> CleanSummaries(texts),
     rows |-> [m \in DOMAIN texts |-> CleanRow(identity, m, texts)]]

TextsOf(state) == [m \in DOMAIN state.rows |-> state.rows[m].text]

(* The contents of the files one compiler run has read. *)
ReadTexts(texts) == texts = [m \in DOMAIN texts |-> texts[m]]

(* A state some compilation of accepted sources saved for this compiler    *)
(* and policy.                                                             *)
Honest(identity, state) ==
    /\ IsClean(identity, state)
    /\ \A m \in DOMAIN state.rows : Accepts(state.rows[m].text, state.rows[m].context)

HonestPrior(identity, state) == state = NoRows \/ Honest(identity, state)

(* A delta that makes such a state of the one base it names. *)
HonestDelta(identity, saved) ==
    /\ WholeState(saved.of)
    /\ ~ OverlayFails(saved.of, saved)
    /\ Honest(identity, Overlay(saved.of, saved))

HonestUpdate(identity, update) ==
    /\ update.kind = "base" => Honest(identity, update.content)
    /\ update.kind = "delta" => HonestDelta(identity, update.content)

(* The state of one driver process. *)
Upright(r) ==
    LET identity == Identity(r.compiler, r.policy)
    IN \/ r = Idle
       \/ r.pc \in {"look", "link"}
       \/ r.pc = "open"
       \/ /\ r.pc \in {"openDelta", "load"}
          /\ r = [pc |-> r.pc, compiler |-> r.compiler, policy |-> r.policy,
                  image |-> r.image, base |-> r.base, delta |-> r.delta, read |-> r.read]
          /\ HonestPrior(identity, r.base)
          /\ r.delta = NoDelta \/ HonestDelta(identity, r.delta)
          /\ ReadTexts(r.read)
       \/ /\ r.pc \in {"publish", "save"}
          /\ r = [pc |-> r.pc, compiler |-> r.compiler, policy |-> r.policy,
                  texts |-> r.texts, prior |-> r.prior, code |-> r.code,
                  compiled |-> r.compiled, update |-> r.update]
          /\ ReadTexts(r.texts) /\ DOMAIN r.texts # {}
          /\ HonestPrior(identity, r.prior)
          /\ CleanAccepts(r.texts)
          /\ r.code = CleanCode(identity, r.texts)
          /\ r.compiled = Compiled(r.texts, r.prior)
          /\ r.update # None => HonestUpdate(identity, r.update)

(* Inductive form of OutputSound, CacheHonest, CacheNeverFails and         *)
(* BodyEditsStayLocal.                                                     *)
FilesHonest ==
    /\ DOMAIN base = Policies /\ DOMAIN delta = Policies
    /\ \A k \in Policies :
          /\ base[k] \notin {None, Corrupt} => Honest(base[k].identity, base[k].content)
          /\ delta[k] \notin {None, Corrupt} =>
                HonestDelta(delta[k].identity, delta[k].content)

OutputsHonest ==
    /\ DOMAIN output = Builders
    /\ \A p \in Builders :
          output[p] # None => output[p].code = CleanCode(output[p].identity, output[p].texts)

BuildsHonest ==
    /\ ImagesKept
    /\ FilesHonest
    /\ OutputsHonest
    /\ \A p \in Builders : Upright(build[p])
LEMMA NothingRead == ReadTexts(<<>>)
BY DEF ReadTexts

LEMMA CleanTextsRead ==
    ASSUME NEW identity, NEW texts, ReadTexts(texts)
    PROVE  TextsOf(Clean(identity, texts)) = texts
BY Zenon DEF ReadTexts, TextsOf, Clean, CleanRow

(* A build from nothing reuses nothing. *)
LEMMA CleanStateIsClean ==
    ASSUME NEW identity, NEW texts
    PROVE  CleanState(identity, texts) = Clean(identity, texts)
<1>1. \A m : ~ Saved(NoRows, m)
  BY DEF Saved, NoRows
<1>2. Summaries(texts, NoRows) = CleanSummaries(texts)
  BY <1>1 DEF Summaries, SavedText, CleanSummaries
<1>3. Table(texts, NoRows) = CleanSummaries(texts)
  BY <1>2 DEF Table, TableReused, NoRows
<1>4. \A m : ContextNow(m, texts, NoRows) = CleanContext(m, texts)
  BY <1>1, <1>3 DEF ContextNow, CleanContext
<1>5. \A m : CodeNow(identity, m, texts, NoRows)
                 = Code(identity, m, texts[m], CleanContext(m, texts))
  BY <1>1, <1>3 DEF CodeNow, Reused, SavedText, CleanContext
<1>6. \A m \in DOMAIN texts :
          Row(identity, m, texts, NoRows) = CleanRow(identity, m, texts)
  BY <1>2, <1>4, <1>5 DEF Row, CleanRow, CleanSummaries
<1>7. [m \in DOMAIN texts |-> Row(identity, m, texts, NoRows)]
          = [m \in DOMAIN texts |-> CleanRow(identity, m, texts)]
  BY <1>6
<1>8. QED
  BY <1>2, <1>3, <1>7, Zenon DEF CleanState, NextState, Clean

(* Every honest state is what a build from nothing of its texts saves. *)
LEMMA HonestIsClean ==
    ASSUME NEW identity, NEW state, Honest(identity, state)
    PROVE  /\ state = Clean(identity, TextsOf(state))
           /\ state.signature = CleanSummaries(TextsOf(state))
           /\ state.table = CleanSummaries(TextsOf(state))
           /\ \A m \in DOMAIN state.rows :
                 state.rows[m] = CleanRow(identity, m, TextsOf(state))
<1>1. state = Clean(identity, TextsOf(state))
  BY CleanStateIsClean DEF Honest, IsClean, TextsOf
<1>2. DOMAIN TextsOf(state) = DOMAIN state.rows
  BY DEF TextsOf
<1>3. \A texts : /\ Clean(identity, texts).signature = CleanSummaries(texts)
                 /\ Clean(identity, texts).table = CleanSummaries(texts)
                 /\ \A m \in DOMAIN texts :
                       Clean(identity, texts).rows[m] = CleanRow(identity, m, texts)
  BY DEF Clean
<1>4. QED
  BY <1>1, <1>2, <1>3

(* Reuse changes nothing: summaries, the table, contexts and code are what *)
(* they would be without a cache, and so is the state saved.               *)
LEMMA ReuseIsClean ==
    ASSUME NEW identity, NEW prior, HonestPrior(identity, prior), NEW texts
    PROVE  /\ Summaries(texts, prior) = CleanSummaries(texts)
           /\ Table(texts, prior) = CleanSummaries(texts)
           /\ \A m \in DOMAIN texts : ContextNow(m, texts, prior) = CleanContext(m, texts)
           /\ NextState(identity, texts, prior) = Clean(identity, texts)
<1>1. CASE prior = NoRows
  <2>1. \A m : ~ Saved(prior, m)
    BY <1>1 DEF Saved, NoRows
  <2>2. Summaries(texts, prior) = CleanSummaries(texts)
    BY <2>1 DEF Summaries, SavedText, CleanSummaries
  <2>3. Table(texts, prior) = CleanSummaries(texts)
    BY <1>1, <2>2 DEF Table, TableReused, NoRows
  <2>4. \A m : ContextNow(m, texts, prior) = CleanContext(m, texts)
    BY <2>1, <2>3 DEF ContextNow, CleanContext
  <2>5. NextState(identity, texts, prior) = Clean(identity, texts)
    BY <1>1, CleanStateIsClean DEF CleanState
  <2>6. QED
    BY <2>2, <2>3, <2>4, <2>5
<1>2. CASE Honest(identity, prior)
  <2> DEFINE old == TextsOf(prior)
  <2>1. /\ prior.signature = CleanSummaries(old)
        /\ prior.table = CleanSummaries(old)
        /\ \A m \in DOMAIN prior.rows : prior.rows[m] = CleanRow(identity, m, old)
    BY <1>2, HonestIsClean
  <2>2. DOMAIN old = DOMAIN prior.rows
    BY DEF TextsOf
  <2>3. \A m \in DOMAIN prior.rows :
            /\ prior.rows[m].text = old[m]
            /\ prior.rows[m].summary = Summary(old[m])
            /\ prior.rows[m].context = CleanContext(m, old)
            /\ prior.rows[m].code = Code(identity, m, old[m], CleanContext(m, old))
    <3> SUFFICES ASSUME NEW m \in DOMAIN prior.rows
                 PROVE  /\ prior.rows[m].text = old[m]
                        /\ prior.rows[m].summary = Summary(old[m])
                        /\ prior.rows[m].context = CleanContext(m, old)
                        /\ prior.rows[m].code
                               = Code(identity, m, old[m], CleanContext(m, old))
      BY Zenon
    <3>1. prior.rows[m] = CleanRow(identity, m, old)
      BY <2>1
    <3> HIDE DEF old
    <3>2. QED
      BY <3>1 DEF CleanRow
  <2> HIDE DEF old
  <2>4. Summaries(texts, prior) = CleanSummaries(texts)
    <3>1. \A m \in DOMAIN texts :
              SavedText(prior, m, texts[m]) => prior.rows[m].summary = Summary(texts[m])
      BY <2>3 DEF SavedText, Saved
    <3>2. QED
      BY <3>1 DEF Summaries, CleanSummaries
  <2>5. Table(texts, prior) = CleanSummaries(texts)
    BY <2>1, <2>4 DEF Table, TableReused
  <2>6. ASSUME NEW m \in DOMAIN texts
        PROVE  ContextNow(m, texts, prior) = CleanContext(m, texts)
    <3>1. CASE TableReused(texts, prior) /\ Saved(prior, m)
      <4>1. CleanSummaries(old) = CleanSummaries(texts)
        BY <2>1, <2>4, <3>1 DEF TableReused
      <4>2. prior.rows[m].context = CleanContext(m, old)
        BY <2>3, <3>1 DEF Saved
      <4>3. QED
        BY <3>1, <4>1, <4>2 DEF ContextNow, CleanContext
    <3>2. CASE ~ (TableReused(texts, prior) /\ Saved(prior, m))
      BY <2>5, <3>2, Zenon DEF ContextNow, CleanContext
    <3>3. QED
      BY <3>1, <3>2
  <2>7. ASSUME NEW m \in DOMAIN texts
        PROVE  CodeNow(identity, m, texts, prior)
                   = Code(identity, m, texts[m], CleanContext(m, texts))
    <3>1. CASE Reused(m, texts, prior)
      <4>1. m \in DOMAIN prior.rows /\ prior.rows[m].text = texts[m]
        BY <3>1 DEF Reused, SavedText, Saved
      <4>2. prior.rows[m].context = CleanContext(m, texts)
        BY <2>6, <3>1 DEF Reused
      <4>3. /\ old[m] = texts[m]
            /\ CleanContext(m, old) = CleanContext(m, texts)
            /\ prior.rows[m].code = Code(identity, m, old[m], CleanContext(m, old))
        BY <2>3, <4>1, <4>2
      <4>4. QED
        BY <3>1, <4>3 DEF CodeNow
    <3>2. CASE ~ Reused(m, texts, prior)
      BY <2>5, <3>2, Zenon DEF CodeNow, CleanContext
    <3>3. QED
      BY <3>1, <3>2
  <2>8. \A m \in DOMAIN texts :
            Row(identity, m, texts, prior) = CleanRow(identity, m, texts)
    BY <2>4, <2>6, <2>7 DEF Row, CleanRow, CleanSummaries
  <2>9. [m \in DOMAIN texts |-> Row(identity, m, texts, prior)]
            = [m \in DOMAIN texts |-> CleanRow(identity, m, texts)]
    BY <2>8
  <2>10. NextState(identity, texts, prior) = Clean(identity, texts)
    BY <2>4, <2>5, <2>9, Zenon DEF NextState, Clean
  <2>11. QED
    BY <2>4, <2>5, <2>6, <2>10
<1>3. QED
  BY <1>1, <1>2 DEF HonestPrior

(* Reuse hides no error: what is not checked again was accepted when it    *)
(* was saved, in the same context.                                         *)
LEMMA ReuseHidesNoError ==
    ASSUME NEW identity, NEW prior, HonestPrior(identity, prior), NEW texts
    PROVE  Checked(texts, prior)
               <=> \A m \in DOMAIN texts : Accepts(texts[m], CleanContext(m, texts))
<1>1. Table(texts, prior) = CleanSummaries(texts)
  BY ReuseIsClean
<1>2. ASSUME NEW m \in DOMAIN texts, Reused(m, texts, prior)
      PROVE  Accepts(texts[m], CleanContext(m, texts))
  <2>1. m \in DOMAIN prior.rows /\ prior.rows[m].text = texts[m]
    BY <1>2 DEF Reused, SavedText, Saved
  <2>2. prior.rows[m].context = CleanContext(m, texts)
    BY <1>2, ReuseIsClean DEF Reused
  <2>3. DOMAIN NoRows.rows = {}
    BY DEF NoRows
  <2>4. Accepts(prior.rows[m].text, prior.rows[m].context)
    BY <2>1, <2>3 DEF HonestPrior, Honest
  <2>5. QED
    BY <2>1, <2>2, <2>4
<1>3. QED
  BY <1>1, <1>2 DEF Checked, Compiled, CleanContext

(* A base and the delta that was found beside it fit, and give a state     *)
(* some compilation saved.                                                 *)
LEMMA PriorIsHonest ==
    ASSUME NEW identity, NEW old, HonestPrior(identity, old),
           NEW saved, saved = NoDelta \/ HonestDelta(identity, saved)
    PROVE  ~ OverlayFails(old, saved) /\ HonestPrior(identity, Overlay(old, saved))
<1>1. CASE old = NoRows \/ ~ Generation(old, saved)
  BY <1>1 DEF OverlayFails, Overlay
<1>2. CASE ~ (old = NoRows \/ ~ Generation(old, saved))
  <2>1. saved.of = old /\ old # NoRows
    BY <1>2 DEF Generation
  <2>2. NoDelta.of = NoRows
    BY DEF NoDelta
  <2>3. HonestDelta(identity, saved)
    BY <2>1, <2>2
  <2>4. QED
    BY <2>1, <2>3 DEF HonestDelta, HonestPrior
<1>3. QED
  BY <1>1, <1>2

(* What a compilation of accepted sources saves is honest. *)
LEMMA CompiledIsHonest ==
    ASSUME NEW identity, NEW texts, ReadTexts(texts), DOMAIN texts # {},
           \A m \in DOMAIN texts : Accepts(texts[m], CleanContext(m, texts))
    PROVE  Honest(identity, Clean(identity, texts))
<1> DEFINE state == Clean(identity, texts)
<1>1. state.signature = CleanSummaries(texts) /\ state.table = CleanSummaries(texts)
  BY DEF Clean
<1>2. state.rows = [m \in DOMAIN texts |-> CleanRow(identity, m, texts)]
  BY DEF Clean
<1>3. state = [signature |-> state.signature, table |-> state.table, rows |-> state.rows]
  BY DEF Clean
<1>4. DOMAIN CleanSummaries(texts) = DOMAIN texts
  BY DEF CleanSummaries
<1>5. CleanSummaries(texts) # <<>>
  <2>1. PICK m \in DOMAIN texts : TRUE
    OBVIOUS
  <2>2. m \notin DOMAIN <<>> => CleanSummaries(texts) # <<>>
    BY <1>4
  <2>3. DOMAIN <<>> = {}
    OBVIOUS
  <2>4. QED
    BY <2>2, <2>3
<1>6. CleanState(identity, [m \in DOMAIN state.rows |-> state.rows[m].text]) = state
  BY CleanTextsRead, CleanStateIsClean DEF TextsOf
<1>7. \A m \in DOMAIN texts : CleanRow(identity, m, texts).text = texts[m]
                              /\ CleanRow(identity, m, texts).context = CleanContext(m, texts)
  BY DEF CleanRow
<1> HIDE DEF state
<1>8. DOMAIN state.signature = DOMAIN texts
  BY <1>1, <1>4
<1>9. state.rows = [m \in DOMAIN state.signature |-> state.rows[m]]
  BY <1>2, <1>8
<1>10. WholeState(state)
  BY <1>1, <1>3, <1>5, <1>9 DEF WholeState
<1>11. \A m \in DOMAIN state.rows : Accepts(state.rows[m].text, state.rows[m].context)
  BY <1>2, <1>7
<1>12. Honest(identity, state)
  BY <1>6, <1>10, <1>11 DEF Honest, IsClean
<1>13. QED
  BY <1>12 DEF state

(* Both forms in which a state is published keep it honest. *)
LEMMA UpdateIsHonest ==
    ASSUME NEW identity, NEW next, Honest(identity, next),
           NEW old, HonestPrior(identity, old)
    PROVE  HonestUpdate(identity, Update(next, old))
<1>1. Update(next, old).kind = "base" => Update(next, old).content = next
  BY DEF Update
<1>2. ASSUME Update(next, old).kind = "delta"
      PROVE  HonestDelta(identity, Update(next, old).content)
  <2>1. old # NoRows
    BY <1>2 DEF Update
  <2>2. WholeState(old) /\ WholeState(next)
    BY <2>1 DEF HonestPrior, Honest, IsClean
  <2>3. Update(next, old).content.of = old
    BY <1>2 DEF Update
  <2>4. /\ ~ OverlayFails(old, Update(next, old).content)
        /\ Overlay(old, Update(next, old).content) = next
    BY <1>2, <2>2, DeltaRoundTrip
  <2>5. QED
    BY <2>2, <2>3, <2>4 DEF HonestDelta
<1>3. QED
  BY <1>1, <1>2 DEF HonestUpdate

LEMMA CodeIsClean ==
    ASSUME NEW identity, NEW texts
    PROVE  [m \in DOMAIN texts |-> Clean(identity, texts).rows[m].code]
               = CleanCode(identity, texts)
<1>1. \A m \in DOMAIN texts : Clean(identity, texts).rows[m].code
                              = Code(identity, m, texts[m], CleanContext(m, texts))
  <2> SUFFICES ASSUME NEW m \in DOMAIN texts
               PROVE  Clean(identity, texts).rows[m].code
                          = Code(identity, m, texts[m], CleanContext(m, texts))
    OBVIOUS
  <2>1. Clean(identity, texts).rows[m] = CleanRow(identity, m, texts)
    BY DEF Clean
  <2>2. QED
    BY <2>1 DEF CleanRow
<1>2. CleanCode(identity, texts)
          = [m \in DOMAIN texts |-> Code(identity, m, texts[m], CleanContext(m, texts))]
  BY DEF CleanCode, CleanContext, CleanSummaries
<1>3. QED
  BY <1>1, <1>2

(* The identity a build compiles under is the one it was started with. *)
LEMMA ExecutedIsRunning ==
    ASSUME ImagesKept, NEW p \in Builders, build[p].pc = "load"
    PROVE  Executed(p) = Running(p)
<1>1. images[build[p].image] = build[p].compiler
  BY DEF ImagesKept, Kept, Idle
<1>2. QED
  BY <1>1 DEF Executed, Running

LEMMA UprightDrivers ==
    ASSUME BuildsHonest, NEW p \in Builders
    PROVE  /\ build[p].pc \in {"openDelta", "load"} =>
                 /\ build[p] = [pc |-> build[p].pc, compiler |-> build[p].compiler,
                                policy |-> build[p].policy, image |-> build[p].image,
                                base |-> build[p].base, delta |-> build[p].delta,
                                read |-> build[p].read]
                 /\ HonestPrior(Running(p), build[p].base)
                 /\ build[p].delta = NoDelta \/ HonestDelta(Running(p), build[p].delta)
                 /\ ReadTexts(build[p].read)
           /\ build[p].pc \in {"publish", "save"} =>
                 /\ build[p] = [pc |-> build[p].pc, compiler |-> build[p].compiler,
                                policy |-> build[p].policy, texts |-> build[p].texts,
                                prior |-> build[p].prior, code |-> build[p].code,
                                compiled |-> build[p].compiled, update |-> build[p].update]
                 /\ ReadTexts(build[p].texts) /\ DOMAIN build[p].texts # {}
                 /\ HonestPrior(Running(p), build[p].prior)
                 /\ CleanAccepts(build[p].texts)
                 /\ build[p].code = CleanCode(Running(p), build[p].texts)
                 /\ build[p].compiled = Compiled(build[p].texts, build[p].prior)
                 /\ build[p].update # None => HonestUpdate(Running(p), build[p].update)
<1>1. Upright(build[p])
  BY DEF BuildsHonest
<1>2. Identity(build[p].compiler, build[p].policy) = Running(p)
  BY DEF Running
<1>3. build[p] = Idle => build[p].pc = "idle"
  BY DEF Idle
<1>4. CASE build[p].pc \in {"openDelta", "load"}
  <2>1. build[p].pc \notin {"idle", "look", "link", "open", "publish", "save"}
    BY <1>4
  <2>2. QED
    BY <1>1, <1>2, <1>3, <1>4, <2>1, Zenon DEF Upright
<1>5. CASE build[p].pc \in {"publish", "save"}
  <2>1. build[p].pc \notin {"idle", "look", "link", "open", "openDelta", "load"}
    BY <1>5
  <2>2. QED
    BY <1>1, <1>2, <1>3, <1>5, <2>1, Zenon DEF Upright
<1>6. QED
  BY <1>4, <1>5, Zenon

(* A driver that reads files and changes only its own state. *)
LEMMA DriverStep ==
    ASSUME BuildsHonest, ImagesKept', NEW p \in Builders, NEW r, Become(p, r),
           base' = base, delta' = delta, output' = output, Upright(r)
    PROVE  BuildsHonest'
<1>1. DOMAIN build = Builders
  BY DEF BuildsHonest, ImagesKept
<1>2. \A q \in Builders : build'[q] = IF q = p THEN r ELSE build[q]
  BY <1>1 DEF Become
<1>3. \A q \in Builders : Upright(build'[q])
  BY <1>2 DEF BuildsHonest
<1>4. FilesHonest' /\ OutputsHonest'
  BY DEF BuildsHonest, FilesHonest, OutputsHonest
<1>5. QED
  BY <1>3, <1>4 DEF BuildsHonest

LEMMA LoadingIsUpright ==
    ASSUME NEW p \in Builders, NEW old, HonestPrior(Running(p), old),
           NEW saved, saved = NoDelta \/ HonestDelta(Running(p), saved)
    PROVE  /\ Upright(Loading(p, old, saved))
           /\ Upright([Loading(p, old, saved) EXCEPT !.pc = "openDelta"])
<1> DEFINE r == Loading(p, old, saved)
           s == [r EXCEPT !.pc = "openDelta"]
<1>1. r = [pc |-> "load", compiler |-> build[p].compiler, policy |-> build[p].policy,
           image |-> build[p].image, base |-> old, delta |-> saved, read |-> <<>>]
  BY DEF Loading
<1>2. s = [pc |-> "openDelta", compiler |-> build[p].compiler, policy |-> build[p].policy,
           image |-> build[p].image, base |-> old, delta |-> saved, read |-> <<>>]
  BY <1>1
<1>3. ASSUME NEW t, NEW step \in {"openDelta", "load"},
             t = [pc |-> step, compiler |-> build[p].compiler, policy |-> build[p].policy,
                  image |-> build[p].image, base |-> old, delta |-> saved, read |-> <<>>]
      PROVE  Upright(t)
  <2>1. /\ t.pc = step /\ t.base = old /\ t.delta = saved /\ t.read = <<>>
        /\ t.image = build[p].image
        /\ t.compiler = build[p].compiler /\ t.policy = build[p].policy
    BY <1>3
  <2>2. Identity(t.compiler, t.policy) = Running(p)
    BY <2>1 DEF Running
  <2>3. t = [pc |-> t.pc, compiler |-> t.compiler, policy |-> t.policy,
             image |-> t.image, base |-> t.base, delta |-> t.delta, read |-> t.read]
    BY <1>3, <2>1
  <2>4. QED
    BY <2>1, <2>2, <2>3, NothingRead, Zenon DEF Upright
<1> HIDE DEF r, s
<1>4. Upright(r) /\ Upright(s)
  BY <1>1, <1>2, <1>3
<1>5. QED
  BY <1>4 DEF r, s

(* A compilation of what was read, with whatever it reused, hands over     *)
(* clean code and an honest state.                                         *)
LEMMA CompilesCleanly ==
    ASSUME BuildsHonest, ImagesKept', NEW p \in Builders, Compile(p)
    PROVE  BuildsHonest'
<1> DEFINE texts == build[p].read
           prior == Prior(p)
           next == NextState(Executed(p), texts, prior)
           code == [m \in DOMAIN texts |-> next.rows[m].code]
           update == IF Dirty(texts, prior) THEN Update(next, build[p].base) ELSE None
           r == [pc |-> "publish", compiler |-> build[p].compiler,
                 policy |-> build[p].policy, texts |-> texts, prior |-> prior,
                 code |-> code, compiled |-> Compiled(texts, prior), update |-> update]
<1>1. build[p].pc = "load" /\ (Pending(p) = {} \/ Cyclic(texts)) /\ ~ Fails(p)
  BY DEF Compile, Loaded
<1>2. ~ Cyclic(texts) /\ Checked(texts, prior)
  BY <1>1 DEF Fails
<1>3. Become(p, r) /\ base' = base /\ delta' = delta /\ output' = output
  BY DEF Compile, files
<1>4. /\ HonestPrior(Running(p), build[p].base)
      /\ build[p].delta = NoDelta \/ HonestDelta(Running(p), build[p].delta)
      /\ ReadTexts(texts)
  BY <1>1, UprightDrivers
<1>5. HonestPrior(Running(p), prior)
  BY <1>4, PriorIsHonest DEF Prior
<1>6. Executed(p) = Running(p)
  BY <1>1, ExecutedIsRunning DEF BuildsHonest
<1>7. DOMAIN texts # {}
  BY <1>1, <1>2 DEF Pending
<1> HIDE DEF texts, prior
<1>8. next = Clean(Running(p), texts)
  BY <1>5, <1>6, ReuseIsClean
<1>9. \A m \in DOMAIN texts : Accepts(texts[m], CleanContext(m, texts))
  BY <1>2, <1>5, ReuseHidesNoError
<1>10. CleanAccepts(texts)
  BY <1>2, <1>9, Zenon DEF CleanAccepts, CleanContext, CleanSummaries
<1>11. Honest(Running(p), next)
  BY <1>4, <1>7, <1>8, <1>9, CompiledIsHonest
<1>12. code = CleanCode(Running(p), texts)
  BY <1>8, CodeIsClean
<1> HIDE DEF next, code
<1>13. update # None => HonestUpdate(Running(p), update)
  BY <1>4, <1>11, UpdateIsHonest
<1> HIDE DEF update
<1>14. Upright(r)
  <2>1. /\ r.pc = "publish" /\ r.texts = texts /\ r.prior = prior /\ r.code = code
        /\ r.compiled = Compiled(texts, prior) /\ r.update = update
        /\ r.compiler = build[p].compiler /\ r.policy = build[p].policy
    OBVIOUS
  <2>2. Identity(r.compiler, r.policy) = Running(p)
    BY <2>1 DEF Running
  <2>3. r = [pc |-> r.pc, compiler |-> r.compiler, policy |-> r.policy,
             texts |-> r.texts, prior |-> r.prior, code |-> r.code,
             compiled |-> r.compiled, update |-> r.update]
    BY <2>1
  <2> HIDE DEF r
  <2>4. QED
    BY <1>4, <1>5, <1>7, <1>10, <1>12, <1>13, <2>1, <2>2, <2>3, Zenon DEF Upright
<1> HIDE DEF r
<1>15. QED
  BY <1>3, <1>14, DriverStep

LEMMA BuildsStayHonest == BuildsHonest /\ [Next]_vars => BuildsHonest'
<1> SUFFICES ASSUME BuildsHonest, [Next]_vars PROVE BuildsHonest'
  OBVIOUS
<1>0. ImagesKept'
  BY ImagesStayKept DEF BuildsHonest
<1>1. ASSUME NEW p \in Builders, NEW policy \in Policies, Start(p, policy)
      PROVE BuildsHonest'
  <2> DEFINE r == [pc |-> "look", compiler |-> installed, policy |-> policy, slot |-> 1]
  <2>1. Become(p, r) /\ base' = base /\ delta' = delta /\ output' = output
    BY <1>1 DEF Start, files
  <2>2. Upright(r)
    BY DEF Upright
  <2> HIDE DEF r
  <2>3. QED
    BY <1>0, <2>1, <2>2, DriverStep
<1>2. ASSUME NEW p \in Builders, NEW r, Become(p, r), base' = base, delta' = delta,
             output' = output, r = Snapshot(p) \/ r = NextSlot(p)
                               \/ r = [build[p] EXCEPT !.pc = "link"],
             build[p].pc \in {"look", "link"}
      PROVE BuildsHonest'
  <2>1. build[p] \in [pc : {"look", "link"}, compiler : Compilers,
                      policy : Policies, slot : 1..Slots]
    BY <1>2 DEF BuildsHonest, ImagesKept, Kept, Idle
  <2>2. Upright(Snapshot(p))
    BY DEF Snapshot, Upright
  <2>3. Upright(NextSlot(p))
    BY <2>1 DEF NextSlot, Upright
  <2>4. Upright([build[p] EXCEPT !.pc = "link"])
    BY <2>1 DEF Upright
  <2>5. Upright(r)
    BY <1>2, <2>2, <2>3, <2>4
  <2>6. QED
    BY <1>0, <1>2, <2>5, DriverStep
<1>3. ASSUME NEW p \in Builders, Look(p) PROVE BuildsHonest'
  <2>1. build[p].pc = "look" /\ base' = base /\ delta' = delta /\ output' = output
    BY <1>3 DEF Look, files
  <2>2. \E r : Become(p, r) /\ (r = Snapshot(p) \/ r = NextSlot(p)
                                \/ r = [build[p] EXCEPT !.pc = "link"])
    <3> DEFINE image == images[ImageOf(p, build[p].slot)]
    <3>1. \/ Become(p, Snapshot(p))
          \/ Become(p, NextSlot(p))
          \/ Become(p, [build[p] EXCEPT !.pc = "link"])
      BY <1>3 DEF Look
    <3>2. QED
      BY <3>1, Zenon
  <2>3. QED
    BY <1>2, <2>1, <2>2
<1>4. ASSUME NEW p \in Builders, PublishImage(p) PROVE BuildsHonest'
  <2>1. build[p].pc = "link" /\ base' = base /\ delta' = delta /\ output' = output
    BY <1>4 DEF PublishImage
  <2>2. \E r : Become(p, r) /\ (r = Snapshot(p) \/ r = NextSlot(p))
    <3>1. Become(p, Snapshot(p)) \/ Become(p, NextSlot(p))
      BY <1>4 DEF PublishImage
    <3>2. QED
      BY <3>1, Zenon
  <2>3. QED
    BY <1>2, <2>1, <2>2
<1>5. ASSUME NEW p \in Builders, OpenBase(p) PROVE BuildsHonest'
  <2> DEFINE file == base[build[p].policy]
  <2>1. base' = base /\ delta' = delta /\ output' = output
    BY <1>5 DEF OpenBase, files
  <2>2. CASE Valid(file, Running(p))
    <3>1. Honest(Running(p), file.content)
      <4>1. build[p].policy \in Policies
        BY <1>5, <1>0 DEF OpenBase, BuildsHonest, ImagesKept, Kept, Idle
      <4>2. QED
        BY <2>2, <4>1 DEF Valid, BuildsHonest, FilesHonest
    <3>2. Become(p, [Loading(p, file.content, NoDelta) EXCEPT !.pc = "openDelta"])
      BY <1>5, <2>2 DEF OpenBase
    <3>3. Upright([Loading(p, file.content, NoDelta) EXCEPT !.pc = "openDelta"])
      BY <3>1, LoadingIsUpright DEF HonestPrior
    <3>4. QED
      BY <1>0, <2>1, <3>2, <3>3, DriverStep
  <2>3. CASE ~ Valid(file, Running(p))
    <3>1. Become(p, Loading(p, NoRows, NoDelta))
      BY <1>5, <2>3 DEF OpenBase
    <3>2. Upright(Loading(p, NoRows, NoDelta))
      BY LoadingIsUpright DEF HonestPrior
    <3>3. QED
      BY <1>0, <2>1, <3>1, <3>2, DriverStep
  <2>4. QED
    BY <2>2, <2>3
<1>6. ASSUME NEW p \in Builders, OpenDelta(p) PROVE BuildsHonest'
  <2> DEFINE file == delta[build[p].policy]
             saved == IF Valid(file, Running(p)) THEN file.content ELSE NoDelta
  <2>1. build[p].pc = "openDelta" /\ base' = base /\ delta' = delta /\ output' = output
    BY <1>6 DEF OpenDelta, files
  <2>2. Become(p, Loading(p, build[p].base, saved))
    BY <1>6 DEF OpenDelta
  <2>3. HonestPrior(Running(p), build[p].base)
    BY <2>1, UprightDrivers
  <2>4. Valid(file, Running(p)) => HonestDelta(Running(p), file.content)
    <3>1. build[p].policy \in Policies
      BY <2>1 DEF BuildsHonest, ImagesKept, Kept, Idle
    <3>2. QED
      BY <3>1 DEF Valid, BuildsHonest, FilesHonest
  <2>5. saved = NoDelta \/ HonestDelta(Running(p), saved)
    BY <2>4
  <2> HIDE DEF saved
  <2>6. Upright(Loading(p, build[p].base, saved))
    BY <2>3, <2>5, LoadingIsUpright
  <2>7. QED
    BY <1>0, <2>1, <2>2, <2>6, DriverStep
<1>7. ASSUME NEW p \in Builders, NEW m \in Modules, Load(p, m) PROVE BuildsHonest'
  <2> DEFINE texts == [n \in DOMAIN build[p].read \cup {m} |->
                          IF n = m THEN source[m] ELSE build[p].read[n]]
             r == [build[p] EXCEPT !.read = texts]
  <2>1. build[p].pc = "load" /\ base' = base /\ delta' = delta /\ output' = output
    BY <1>7 DEF Load, files
  <2>2. Become(p, r)
    BY <1>7 DEF Load
  <2>3. /\ build[p] = [pc |-> build[p].pc, compiler |-> build[p].compiler,
                       policy |-> build[p].policy, image |-> build[p].image,
                       base |-> build[p].base, delta |-> build[p].delta,
                       read |-> build[p].read]
        /\ HonestPrior(Running(p), build[p].base)
        /\ build[p].delta = NoDelta \/ HonestDelta(Running(p), build[p].delta)
    BY <2>1, UprightDrivers
  <2>4. ReadTexts(texts)
    BY DEF ReadTexts
  <2> HIDE DEF texts
  <2>5. /\ r.pc = "load" /\ r.compiler = build[p].compiler /\ r.policy = build[p].policy
        /\ r.image = build[p].image
        /\ r.base = build[p].base /\ r.delta = build[p].delta /\ r.read = texts
        /\ r = [pc |-> "load", compiler |-> build[p].compiler,
                policy |-> build[p].policy, image |-> build[p].image,
                base |-> build[p].base, delta |-> build[p].delta, read |-> texts]
    BY <2>1, <2>3
  <2>6. Identity(r.compiler, r.policy) = Running(p)
    BY <2>5 DEF Running
  <2>7. r = [pc |-> r.pc, compiler |-> r.compiler, policy |-> r.policy,
             image |-> r.image, base |-> r.base, delta |-> r.delta, read |-> r.read]
    BY <2>5
  <2> HIDE DEF r
  <2>8. Upright(r)
    BY <2>3, <2>4, <2>5, <2>6, <2>7, Zenon DEF Upright
  <2>9. QED
    BY <1>0, <2>1, <2>2, <2>8, DriverStep
<1>8. ASSUME NEW p \in Builders, Compile(p) PROVE BuildsHonest'
  BY <1>0, <1>8, CompilesCleanly
<1>9. ASSUME NEW p \in Builders, CompileFails(p) PROVE BuildsHonest'
  <2> DEFINE r == IF build[p].base = NoRows THEN Idle ELSE Loading(p, NoRows, NoDelta)
  <2>1. Become(p, r) /\ base' = base /\ delta' = delta /\ output' = output
    BY <1>9 DEF CompileFails, files
  <2>2. Upright(Idle) /\ Upright(Loading(p, NoRows, NoDelta))
    BY LoadingIsUpright DEF HonestPrior, Upright
  <2>3. Upright(r)
    BY <2>2
  <2> HIDE DEF r
  <2>4. QED
    BY <1>0, <2>1, <2>3, DriverStep
<1>10. ASSUME NEW p \in Builders, PublishOutput(p) PROVE BuildsHonest'
  <2> DEFINE published == [identity |-> Running(p), texts |-> build[p].texts,
                           code |-> build[p].code]
             r == [build[p] EXCEPT !.pc = "save"]
  <2>1. /\ build[p].pc = "publish" /\ base' = base /\ delta' = delta
        /\ output' = [output EXCEPT ![p] = published]
        /\ build' = [build EXCEPT ![p] = r]
    BY <1>10 DEF PublishOutput, files, Become
  <2>2. /\ build[p] = [pc |-> build[p].pc, compiler |-> build[p].compiler,
                       policy |-> build[p].policy, texts |-> build[p].texts,
                       prior |-> build[p].prior, code |-> build[p].code,
                       compiled |-> build[p].compiled, update |-> build[p].update]
        /\ ReadTexts(build[p].texts) /\ DOMAIN build[p].texts # {}
        /\ HonestPrior(Running(p), build[p].prior)
        /\ CleanAccepts(build[p].texts)
        /\ build[p].code = CleanCode(Running(p), build[p].texts)
        /\ build[p].compiled = Compiled(build[p].texts, build[p].prior)
        /\ build[p].update # None => HonestUpdate(Running(p), build[p].update)
    BY <2>1, UprightDrivers
  <2>3. published.code = CleanCode(published.identity, published.texts)
    BY <2>2
  <2> HIDE DEF published
  <2>4. OutputsHonest'
    BY <2>1, <2>3 DEF BuildsHonest, OutputsHonest
  <2>5. /\ r.pc = "save" /\ r.compiler = build[p].compiler /\ r.policy = build[p].policy
        /\ r.texts = build[p].texts /\ r.prior = build[p].prior /\ r.code = build[p].code
        /\ r.compiled = build[p].compiled /\ r.update = build[p].update
        /\ r = [pc |-> "save", compiler |-> build[p].compiler,
                policy |-> build[p].policy, texts |-> build[p].texts,
                prior |-> build[p].prior, code |-> build[p].code,
                compiled |-> build[p].compiled, update |-> build[p].update]
    BY <2>2
  <2>6. Identity(r.compiler, r.policy) = Running(p)
    BY <2>5 DEF Running
  <2>7. r = [pc |-> r.pc, compiler |-> r.compiler, policy |-> r.policy,
             texts |-> r.texts, prior |-> r.prior, code |-> r.code,
             compiled |-> r.compiled, update |-> r.update]
    BY <2>5
  <2> HIDE DEF r
  <2>8. Upright(r)
    BY <2>2, <2>5, <2>6, <2>7, Zenon DEF Upright
  <2>9. \A q \in Builders : Upright(build'[q])
    BY <2>1, <2>8 DEF BuildsHonest, ImagesKept
  <2>10. FilesHonest'
    BY <2>1 DEF BuildsHonest, FilesHonest
  <2>11. QED
    BY <1>0, <2>4, <2>9, <2>10 DEF BuildsHonest
<1>11. ASSUME NEW p \in Builders, SaveState(p) PROVE BuildsHonest'
  <2> DEFINE update == build[p].update
             policy == build[p].policy
             file == Envelope(p)
  <2>1. /\ build[p].pc = "save" /\ output' = output
        /\ base' = IF update # None /\ update.kind = "base"
                   THEN [base EXCEPT ![policy] = file] ELSE base
        /\ delta' = IF update # None /\ update.kind = "delta"
                    THEN [delta EXCEPT ![policy] = file] ELSE delta
        /\ build' = [build EXCEPT ![p] = Idle]
    BY <1>11 DEF SaveState, Become
  <2>2. update # None => HonestUpdate(Running(p), update)
    BY <2>1, UprightDrivers
  <2>3. file.identity = Running(p) /\ file.content = update.content
    BY DEF Envelope
  <2> HIDE DEF file, update, policy
  <2>4. update # None /\ update.kind = "base" => Honest(file.identity, file.content)
    BY <2>2, <2>3 DEF HonestUpdate
  <2>5. update # None /\ update.kind = "delta" => HonestDelta(file.identity, file.content)
    BY <2>2, <2>3 DEF HonestUpdate
  <2>6. FilesHonest'
    <3>1. DOMAIN base' = Policies /\ DOMAIN delta' = Policies
      BY <2>1 DEF BuildsHonest, FilesHonest
    <3>2. ASSUME NEW k \in Policies, base'[k] \notin {None, Corrupt}
          PROVE  Honest(base'[k].identity, base'[k].content)
      BY <2>1, <2>4, <3>2 DEF BuildsHonest, FilesHonest
    <3>3. ASSUME NEW k \in Policies, delta'[k] \notin {None, Corrupt}
          PROVE  HonestDelta(delta'[k].identity, delta'[k].content)
      BY <2>1, <2>5, <3>3 DEF BuildsHonest, FilesHonest
    <3>4. QED
      BY <3>1, <3>2, <3>3 DEF FilesHonest
  <2>7. \A q \in Builders : Upright(build'[q])
    BY <2>1 DEF BuildsHonest, ImagesKept, Upright
  <2>8. OutputsHonest'
    BY <2>1 DEF BuildsHonest, OutputsHonest
  <2>9. QED
    BY <1>0, <2>6, <2>7, <2>8 DEF BuildsHonest
<1>12. ASSUME NEW p \in Builders, Die(p) PROVE BuildsHonest'
  <2>1. Become(p, Idle) /\ base' = base /\ delta' = delta /\ output' = output
    BY <1>12 DEF Die, files
  <2>2. Upright(Idle)
    BY DEF Upright
  <2>3. QED
    BY <1>0, <2>1, <2>2, DriverStep
<1>13. ASSUME PowerLoss PROVE BuildsHonest'
  <2>1. /\ output' = output
        /\ base' = base \/ base' = [k \in Policies |-> Damaged(base[k])]
        /\ delta' = delta \/ delta' = [k \in Policies |-> Damaged(delta[k])]
        /\ build' = [p \in Builders |-> Idle]
    BY <1>13, Zenon DEF PowerLoss
  <2>2. \A k \in Policies : /\ base'[k] \notin {None, Corrupt} => base'[k] = base[k]
                            /\ delta'[k] \notin {None, Corrupt} => delta'[k] = delta[k]
    BY <2>1 DEF Damaged
  <2>3. FilesHonest'
    BY <2>1, <2>2 DEF BuildsHonest, FilesHonest
  <2>4. OutputsHonest'
    BY <2>1 DEF BuildsHonest, OutputsHonest
  <2>5. \A q \in Builders : Upright(build'[q])
    BY <2>1 DEF Upright
  <2>6. QED
    BY <1>0, <2>3, <2>4, <2>5 DEF BuildsHonest
<1>14. ASSUME UNCHANGED <<base, delta, build, output>> PROVE BuildsHonest'
  BY <1>0, <1>14 DEF BuildsHonest, FilesHonest, OutputsHonest
<1>15. ASSUME NEW m \in Modules, NEW text \in Texts[m], Edit(m, text) PROVE BuildsHonest'
  BY <1>14, <1>15 DEF Edit, files
<1>16. ASSUME NEW c \in Compilers, Upgrade(c) PROVE BuildsHonest'
  BY <1>14, <1>16 DEF Upgrade, files
<1>17. CASE UNCHANGED vars
  BY <1>14, <1>17 DEF vars, files
<1>18. QED
  BY <1>1, <1>3, <1>4, <1>5, <1>6, <1>7, <1>8, <1>9, <1>10, <1>11, <1>12, <1>13,
     <1>15, <1>16, <1>17 DEF Next, Drive

LEMMA BuildsStartHonest == Init => BuildsHonest
<1> SUFFICES ASSUME Init PROVE BuildsHonest
  OBVIOUS
<1>1. ImagesKept
  BY DEF Init, ImagesKept, Kept
<1>2. FilesHonest /\ OutputsHonest
  BY DEF Init, FilesHonest, OutputsHonest
<1>3. \A p \in Builders : Upright(build[p])
  BY DEF Init, Upright
<1>4. QED
  BY <1>1, <1>2, <1>3 DEF BuildsHonest

LEMMA BuildsAreHonest == Spec => []BuildsHonest
BY BuildsStartHonest, BuildsStayHonest, PTL DEF Spec

(* Whatever was reused and whichever builds, edits, upgrades, crashes and  *)
(* power failures came before, a driver publishes the code a build from    *)
(* nothing of the texts it read would publish, and no text that such a     *)
(* build would reject.                                                     *)
THEOREM IncrementalIsClean == Spec => []OutputSound
<1>1. BuildsHonest => OutputSound
  <2> SUFFICES ASSUME BuildsHonest, NEW p \in Builders
               PROVE  /\ output[p] # None =>
                            output[p].code = CleanCode(output[p].identity, output[p].texts)
                      /\ build[p].pc = "publish" => CleanAccepts(build[p].texts)
    BY DEF OutputSound
  <2>1. build[p].pc = "publish" => CleanAccepts(build[p].texts)
    BY UprightDrivers
  <2>2. QED
    BY <2>1 DEF BuildsHonest, OutputsHonest
<1>2. QED
  BY <1>1, BuildsAreHonest, PTL

(* Every whole base, and every delta that fits it, is what one compilation *)
(* saved: drivers that publish over each other never mix generations.      *)
THEOREM GenerationsNeverMix == Spec => []CacheHonest
<1>1. BuildsHonest => CacheHonest
  <2> SUFFICES ASSUME BuildsHonest, NEW k \in Policies, base[k] \notin {None, Corrupt}
               PROVE  /\ IsClean(base[k].identity, base[k].content)
                      /\ Valid(delta[k], base[k].identity) =>
                            /\ ~ OverlayFails(base[k].content, delta[k].content)
                            /\ IsClean(base[k].identity,
                                       Overlay(base[k].content, delta[k].content))
    BY Zenon DEF CacheHonest
  <2> DEFINE identity == base[k].identity
             old == base[k].content
             saved == delta[k].content
  <2>1. Honest(identity, old)
    BY DEF BuildsHonest, FilesHonest
  <2>2. ASSUME Valid(delta[k], identity)
        PROVE  ~ OverlayFails(old, saved) /\ IsClean(identity, Overlay(old, saved))
    <3>1. HonestDelta(identity, saved)
      BY <2>2 DEF Valid, BuildsHonest, FilesHonest
    <3>2. old # NoRows
      BY SMTT(60), <2>1 DEF Honest, IsClean, WholeState, NoRows
    <3> HIDE DEF identity, old, saved
    <3>3. CASE Generation(old, saved)
      BY <3>1, <3>3 DEF Generation, HonestDelta, Honest
    <3>4. CASE ~ Generation(old, saved)
      BY <2>1, <3>4 DEF OverlayFails, Overlay, Honest
    <3>5. QED
      BY <3>3, <3>4
  <2>3. QED
    BY <2>1, <2>2 DEF Honest
<1>2. QED
  BY <1>1, BuildsAreHonest, PTL

(* With a cache that passed validation, the first compiler run fails only  *)
(* on sources a build from nothing would reject.                           *)
THEOREM CachesNeverFail == Spec => []CacheNeverFails
<1>1. BuildsHonest => CacheNeverFails
  <2> SUFFICES ASSUME BuildsHonest, NEW p \in Builders, Loaded(p),
                      CleanAccepts(build[p].read)
               PROVE  ~ Fails(p)
    BY DEF CacheNeverFails
  <2>1. /\ HonestPrior(Running(p), build[p].base)
        /\ build[p].delta = NoDelta \/ HonestDelta(Running(p), build[p].delta)
    BY UprightDrivers DEF Loaded
  <2>2. /\ ~ OverlayFails(build[p].base, build[p].delta)
        /\ HonestPrior(Running(p), Prior(p))
    BY <2>1, PriorIsHonest DEF Prior
  <2>3. /\ ~ Cyclic(build[p].read)
        /\ \A m \in DOMAIN build[p].read :
              Accepts(build[p].read[m], CleanContext(m, build[p].read))
    BY Zenon DEF CleanAccepts, CleanContext, CleanSummaries
  <2>4. Checked(build[p].read, Prior(p))
    BY <2>2, <2>3, ReuseHidesNoError
  <2>5. QED
    BY <2>2, <2>3, <2>4 DEF Fails
<1>2. QED
  BY <1>1, BuildsAreHonest, PTL

(* Edits that leave every interface alone recompile the edited modules and *)
(* nothing else.                                                           *)
THEOREM BodyEditsAreLocal == Spec => []BodyEditsStayLocal
<1>1. BuildsHonest => BodyEditsStayLocal
  <2> SUFFICES ASSUME BuildsHonest, NEW p \in Builders, build[p].pc = "publish",
                      DOMAIN build[p].prior.rows = DOMAIN build[p].texts,
                      \A m \in DOMAIN build[p].texts :
                         Summary(build[p].texts[m]) = Summary(build[p].prior.rows[m].text)
               PROVE  build[p].compiled
                          = {m \in DOMAIN build[p].texts :
                                build[p].prior.rows[m].text # build[p].texts[m]}
    BY DEF BodyEditsStayLocal
  <2> DEFINE texts == build[p].texts
             prior == build[p].prior
  <2>1. /\ HonestPrior(Running(p), prior) /\ DOMAIN texts # {}
        /\ build[p].compiled = Compiled(texts, prior)
    BY UprightDrivers
  <2> HIDE DEF texts, prior
  <2>2. /\ DOMAIN prior.rows = DOMAIN texts
        /\ \A m \in DOMAIN texts : Summary(texts[m]) = Summary(prior.rows[m].text)
    BY DEF texts, prior
  <2>3. Honest(Running(p), prior)
    <3>1. DOMAIN NoRows.rows = {}
      BY DEF NoRows
    <3>2. QED
      BY <2>1, <2>2, <3>1 DEF HonestPrior
  <2>4. CleanSummaries(TextsOf(prior)) = CleanSummaries(texts)
    BY <2>2 DEF CleanSummaries, TextsOf
  <2>5. \A m \in DOMAIN texts : prior.rows[m].context = CleanContext(m, texts)
    <3>1. \A m \in DOMAIN prior.rows :
              prior.rows[m] = CleanRow(Running(p), m, TextsOf(prior))
      BY <2>3, HonestIsClean
    <3>2. \A m : CleanRow(Running(p), m, TextsOf(prior)).context
                     = CleanContext(m, TextsOf(prior))
      BY DEF CleanRow
    <3>3. \A m : CleanContext(m, TextsOf(prior)) = CleanContext(m, texts)
      BY <2>4 DEF CleanContext
    <3>4. QED
      BY <2>2, <3>1, <3>2, <3>3
  <2>6. \A m \in DOMAIN texts : ContextNow(m, texts, prior) = CleanContext(m, texts)
    BY <2>1, ReuseIsClean
  <2>7. \A m \in DOMAIN texts : Reused(m, texts, prior) <=> prior.rows[m].text = texts[m]
    BY <2>2, <2>5, <2>6 DEF Reused, SavedText, Saved
  <2>8. Compiled(texts, prior) = {m \in DOMAIN texts : prior.rows[m].text # texts[m]}
    BY <2>7 DEF Compiled
  <2>9. QED
    BY <2>1, <2>8 DEF texts, prior
<1>2. QED
  BY <1>1, BuildsAreHonest, PTL
=============================================================================
