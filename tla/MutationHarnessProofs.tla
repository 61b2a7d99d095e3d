----------------------- MODULE MutationHarnessProofs -----------------------
(***************************************************************************)
(* Proofs about MutationHarness: whatever is interrupted or killed, in     *)
(* this run or before it, a recorded verdict is about the mutant it is     *)
(* recorded for.                                                           *)
(***************************************************************************)
EXTENDS MutationHarness, TLAPS

(* The sources as run.py found them, with the mutant it has applied. *)
Patched ==
  IF cur \in Mutants THEN [found EXCEPT ![FileOf[cur]] = @ \union {cur}] ELSE found

SourcesKnown ==
  /\ stage # "idle" \/ exit # "died" => src = Patched
  /\ \A m \in Mutants : m \in todo \/ m = cur => FileOf[m] \in files

(* An object that make would not rebuild holds at least its sources. *)
UpToDate == \A o \in Objects \ stale : Compiled(o) \subseteq obj[o]

(* What the gate would see in it after a green baseline is in its sources  *)
(* too, or is a leftover of the opcode table in the assembler.             *)
Explained ==
  based /\ stage \in {"loop", "applied", "built", "scored"} =>
    /\ \A f \in Sources : found[f] \cap Visible = {}
    /\ \A o \in Objects \ stale : \A x \in obj[o] \cap Visible :
         x \in Compiled(o) \/ (o = Assembler /\ FileOf[x] = Header)

(* A verdict not yet recorded is worth what a recorded one is. *)
VerdictEarned ==
  /\ stage \in {"fresh", "baseline"} => results = [m \in Mutants |-> "none"]
  /\ stage = "scored" /\ verdict = "survived" => cur \notin Visible
  /\ stage = "scored" /\ verdict = "killed" /\ based =>
       cur \in Visible \/ cur \in suspect

(* The inductive invariant. *)
IInv ==
  /\ TypeOK
  /\ SourcesKnown
  /\ UpToDate
  /\ Explained
  /\ VerdictEarned
  /\ SurvivorIsAHole
  /\ KillIsEarned

----------------------------------------------------------------------------
(* Every source is compiled into the object make must mention for it. *)
LEMMA MarkIncludes ==
  ASSUME NEW f \in Sources
  PROVE  Mark(f) \in Objects /\ f \in Includes(Mark(f))
BY DEF Mark, Includes, Sources, Objects, Header, Assembler

(* What apply touches makes every object out of date that compiles the     *)
(* file it patches.                                                        *)
LEMMA ApplyOutdates ==
  ASSUME NEW o \in Objects, NEW f \in Includes(o)
  PROVE  o \in OutOfDate({f} \union AlsoTouch(f))
<1>1. f \in Edges(o) \/ (f = Header /\ o = Assembler)
  BY DEF Edges
<1>2. "gas/config/tc-i51.c" \in Edges(Assembler)
  BY DEF Edges, Includes, Mark, Sources, Header, Assembler
<1> QED BY <1>1, <1>2 DEF OutOfDate, AlsoTouch

(* What restore touches makes all of them out of date but one. *)
LEMMA RestoreOutdates ==
  ASSUME NEW o \in Objects, NEW fs, NEW f \in Includes(o), f \in fs,
         o \notin RestoredIsNewer(fs)
  PROVE  o = Assembler /\ f = Header
BY DEF RestoredIsNewer, OutOfDate, Edges

LEMMA CompiledMember ==
  ASSUME NEW o, NEW x
  PROVE  x \in Compiled(o) <=> \E f \in Includes(o) : x \in src[f]
BY DEF Compiled

LEMMA CompiledMemberNext ==
  ASSUME NEW o, NEW x
  PROVE  x \in Compiled(o)' <=> \E f \in Includes(o) : x \in src'[f]
BY DEF Compiled, Includes

LEMMA IncludesSources == ASSUME NEW o PROVE Includes(o) \subseteq Sources
BY DEF Includes, Sources, Header

LEMMA ObjectsAfterType ==
  ASSUME TypeOK, NEW built
  PROVE  ObjectsAfter(built) \in [Objects -> SUBSET Mutants]
<1>0. src \in [Sources -> SUBSET Mutants] /\ obj \in [Objects -> SUBSET Mutants]
  BY DEF TypeOK
<1>1. \A o \in Objects : Compiled(o) \in SUBSET Mutants
  BY <1>0, IncludesSources, CompiledMember
<1> QED BY <1>0, <1>1 DEF ObjectsAfter

LEMMA RestoredType ==
  ASSUME TypeOK, NEW fs
  PROVE  Restored(fs) \in [Sources -> SUBSET Mutants]
BY DEF Restored, TypeOK

LEMMA RestoredAreOutdated == ASSUME NEW fs PROVE RestoredIsNewer(fs) = OutOfDate(fs)
BY DEF RestoredIsNewer

LEMMA OutdatedType == ASSUME NEW fs PROVE OutOfDate(fs) \subseteq Objects
BY DEF OutOfDate

LEMMA MutantFile == ASSUME NEW m \in Mutants PROVE FileOf[m] \in Sources
BY MutantsAssumption DEF MutantsAssumption

----------------------------------------------------------------------------
LEMMA TypeInductive == TypeOK /\ [Next]_vars => TypeOK'
<1> SUFFICES ASSUME TypeOK, [Next]_vars PROVE TypeOK'
  OBVIOUS
<1> USE DEF TypeOK, Stages, Statuses
<1>0. NoMutant \notin Mutants /\ MaxRuns \in Nat
  BY MutantsAssumption DEF MutantsAssumption
<1>1. ASSUME NEW selected \in SUBSET Mutants, NEW skip \in BOOLEAN, Start(selected, skip)
      PROVE  TypeOK'
  <2>1. files' \in SUBSET Sources
    <3>1. files' = {FileOf[m] : m \in selected} BY <1>1 DEF Start
    <3> HIDE DEF TypeOK
    <3> QED BY <3>1, MutantFile
  <2>2. stale' \in SUBSET Objects
    <3>1. stale' = stale \union OutOfDate(files')
      BY <1>1, RestoredAreOutdated DEF Start
    <3>2. OutOfDate(files') \subseteq Objects BY OutdatedType
    <3> QED BY <3>1, <3>2
  <2>3. runs' \in 0..MaxRuns
    <3>1. runs < MaxRuns /\ runs' = runs + 1 /\ runs \in 0..MaxRuns /\ MaxRuns \in Nat
      BY <1>0, <1>1 DEF Start
    <3> HIDE DEF TypeOK
    <3> QED BY <3>1
  <2>4. results' \in [Mutants -> Statuses] BY <1>1 DEF Start
  <2> QED BY <1>1, <2>1, <2>2, <2>3, <2>4 DEF Start
<1>2. CASE BaselineRebuild
  <2>1. PICK built \in SUBSET Buildable :
          /\ obj' = ObjectsAfter(built)
          /\ stale' = stale \ built
          /\ IF MakeSucceeds(built) THEN Going("baseline") ELSE End("setup")
    BY <1>2 DEF BaselineRebuild
  <2>2. obj' \in [Objects -> SUBSET Mutants] BY <2>1, ObjectsAfterType
  <2>3. stage' = "baseline" => stale' = {} BY <2>1 DEF MakeSucceeds, Going, End
  <2> QED BY <1>0, <1>2, <2>1, <2>2, <2>3 DEF BaselineRebuild, Going, End
<1>3. CASE BaselineGate
  BY <1>0, <1>3 DEF BaselineGate, Going, End
<1>4. ASSUME NEW m \in Mutants, SkipStale(m) PROVE TypeOK'
  BY <1>4 DEF SkipStale
<1>5. ASSUME NEW m \in Mutants, Apply(m) PROVE TypeOK'
  <2>1. stale' \in SUBSET Objects BY <1>5, OutdatedType DEF Apply
  <2>2. src' \in [Sources -> SUBSET Mutants] BY <1>5, MutantFile DEF Apply
  <2> QED BY <1>5, <2>1, <2>2 DEF Apply
<1>6. CASE Rebuild
  <2>1. PICK built \in SUBSET Buildable :
          /\ obj' = ObjectsAfter(built)
          /\ stale' = stale \ built
          /\ verdict' = BuildVerdict(built)
    BY <1>6 DEF Rebuild
  <2>2. obj' \in [Objects -> SUBSET Mutants] BY <2>1, ObjectsAfterType
  <2>3. stage' = "built" => stale' = {}
    BY <1>6, <2>1 DEF Rebuild, BuildVerdict, MakeSucceeds
  <2>4. verdict' \in Statuses BY <2>1 DEF BuildVerdict
  <2>5. stage' \in {"built", "scored"} BY <1>6 DEF Rebuild
  <2> QED BY <1>6, <2>1, <2>2, <2>3, <2>4, <2>5 DEF Rebuild
<1>7. CASE Gate
  <2>1. verdict' \in Statuses BY <1>7 DEF Gate
  <2>2. suspect' \in SUBSET Mutants BY <1>7 DEF Gate
  <2> QED BY <1>7, <2>1, <2>2 DEF Gate
<1>8. CASE Restore
  <2>1. src' \in [Sources -> SUBSET Mutants] BY <1>8, RestoredType DEF Restore
  <2>2. stale' \in SUBSET Objects BY <1>8, OutdatedType DEF Restore, RestoredIsNewer
  <2>3. results' \in [Mutants -> Statuses] BY <1>8 DEF Restore
  <2> QED BY <1>0, <1>8, <2>1, <2>2, <2>3 DEF Restore
<1>9. CASE FinalRestore
  <2>1. src' \in [Sources -> SUBSET Mutants] BY <1>9, RestoredType DEF FinalRestore
  <2>2. stale' \in SUBSET Objects BY <1>9, OutdatedType DEF FinalRestore, RestoredIsNewer
  <2> QED BY <1>9, <2>1, <2>2 DEF FinalRestore
<1>10. CASE FinalRebuild
  <2>1. PICK built \in SUBSET Buildable :
          /\ obj' = ObjectsAfter(built)
          /\ stale' = stale \ built
          /\ IF MakeSucceeds(built) THEN Going("ended") ELSE End("not rebuilt")
    BY <1>10 DEF FinalRebuild
  <2>2. obj' \in [Objects -> SUBSET Mutants] BY <2>1, ObjectsAfterType
  <2>3. stage' = "ended" => stale' = {} BY <2>1 DEF MakeSucceeds, Going, End
  <2> QED BY <1>0, <1>10, <2>1, <2>2, <2>3 DEF FinalRebuild, Going, End
<1>11. CASE FinalGate
  BY <1>0, <1>11 DEF FinalGate, End
<1>12. CASE Interrupt
  <2>1. PICK built \in SUBSET InFlight : \E late \in SUBSET built :
          /\ obj' = ObjectsAfter(built)
          /\ stale' = ((stale \ built) \union RestoredIsNewer(RestoredAtBail)) \ late
    BY <1>12 DEF Interrupt
  <2>2. obj' \in [Objects -> SUBSET Mutants] BY <2>1, ObjectsAfterType
  <2>3. stale' \in SUBSET Objects BY <2>1, OutdatedType DEF RestoredIsNewer
  <2>4. src' \in [Sources -> SUBSET Mutants] BY <1>12, RestoredType DEF Interrupt
  <2> QED BY <1>0, <1>12, <2>2, <2>3, <2>4 DEF Interrupt, End
<1>13. CASE Die
  <2>1. PICK built \in SUBSET InFlight :
          /\ obj' = ObjectsAfter(built)
          /\ stale' = stale \ built
    BY <1>13 DEF Die
  <2>2. obj' \in [Objects -> SUBSET Mutants] BY <2>1, ObjectsAfterType
  <2> QED BY <1>0, <1>13, <2>1, <2>2 DEF Die, End
<1>14. CASE UNCHANGED vars
  BY <1>14 DEF vars
<1> QED
  BY <1>1, <1>2, <1>3, <1>4, <1>5, <1>6, <1>7, <1>8, <1>9, <1>10, <1>11,
     <1>12, <1>13, <1>14 DEF Next

----------------------------------------------------------------------------
(* What restoring leaves, once every file that may differ is restored. *)
LEMMA RestoresFound ==
  ASSUME TypeOK, SourcesKnown, stage # "idle", NEW fs,
         cur \in Mutants => FileOf[cur] \in fs
  PROVE  Restored(fs) = found
<1>1. src = Patched BY DEF SourcesKnown
<1>2. src \in [Sources -> SUBSET Mutants] /\ found \in [Sources -> SUBSET Mutants]
  BY DEF TypeOK
<1>3. ASSUME NEW f \in Sources, f \notin fs PROVE src[f] = found[f]
  BY <1>1, <1>2, <1>3 DEF Patched
<1> QED BY <1>2, <1>3 DEF Restored

LEMMA Quiet ==
  ASSUME SourcesKnown, src' = src, found' = found, files' = files,
         stage # "idle", cur \notin Mutants, cur' \notin Mutants,
         todo' \subseteq todo
  PROVE  SourcesKnown'
BY DEF SourcesKnown, Patched

LEMMA BackToFound ==
  ASSUME SourcesKnown, src' = found, found' = found, files' = files,
         cur' \notin Mutants, todo' \subseteq todo
  PROVE  SourcesKnown'
BY DEF SourcesKnown, Patched

LEMMA Measuring ==
  ASSUME TypeOK
  PROVE  cur \in Mutants <=> stage \in {"applied", "built", "scored"}
BY DEF TypeOK

LEMMA SourcesInductive == TypeOK /\ SourcesKnown /\ [Next]_vars => SourcesKnown'
<1> SUFFICES ASSUME TypeOK, SourcesKnown, [Next]_vars PROVE SourcesKnown'
  OBVIOUS
<1>0. NoMutant \notin Mutants
  BY MutantsAssumption DEF MutantsAssumption
<1>1. ASSUME NEW selected \in SUBSET Mutants, NEW skip \in BOOLEAN, Start(selected, skip)
      PROVE  SourcesKnown'
  <2>1. cur' = cur /\ cur \notin Mutants BY <1>1, Measuring DEF Start
  <2>2. src' = Patched' BY <1>1, <2>1 DEF Start, Patched
  <2>3. todo' = selected /\ files' = {FileOf[m] : m \in selected}
    BY <1>1 DEF Start
  <2> QED BY <2>1, <2>2, <2>3 DEF SourcesKnown
<1>2. CASE BaselineRebuild
  BY <1>0, <1>2, Measuring, Quiet DEF BaselineRebuild, Going, End
<1>3. CASE BaselineGate
  BY <1>0, <1>3, Measuring, Quiet DEF BaselineGate, Going, End
<1>4. ASSUME NEW m \in Mutants, SkipStale(m) PROVE SourcesKnown'
  BY <1>4, Measuring, Quiet DEF SkipStale
<1>5. ASSUME NEW m \in Mutants, Apply(m) PROVE SourcesKnown'
  <2>1. stage = "loop" /\ cur \notin Mutants BY <1>5, Measuring DEF Apply
  <2>2. src = found BY <2>1 DEF SourcesKnown, Patched
  <2>3. src' = Patched' BY <1>5, <2>2 DEF Apply, Patched
  <2>4. m \in todo /\ todo' = todo \ {m} /\ cur' = m /\ files' = files
    BY <1>5 DEF Apply
  <2> QED BY <2>3, <2>4 DEF SourcesKnown
<1>6. CASE Rebuild
  BY <1>6 DEF Rebuild, SourcesKnown, Patched
<1>7. CASE Gate
  BY <1>7 DEF Gate, SourcesKnown, Patched
<1>8. CASE Restore
  <2>1. src' = found BY <1>8, RestoresFound DEF Restore
  <2> QED BY <1>0, <1>8, <2>1, BackToFound DEF Restore
<1>9. CASE FinalRestore
  <2>1. cur \notin Mutants BY <1>9, Measuring DEF FinalRestore
  <2>2. src' = found BY <1>9, <2>1, RestoresFound DEF FinalRestore
  <2> QED BY <1>9, <2>1, <2>2, BackToFound DEF FinalRestore
<1>10. CASE FinalRebuild
  BY <1>0, <1>10, Measuring, Quiet DEF FinalRebuild, Going, End
<1>11. CASE FinalGate
  BY <1>0, <1>11, Measuring, Quiet DEF FinalGate, End
<1>12. CASE Interrupt
  <2>1. cur \in Mutants => FileOf[cur] \in files BY DEF SourcesKnown
  <2>2. src' = found BY <1>12, <2>1, RestoresFound DEF Interrupt, RestoredAtBail
  <2> QED BY <1>0, <1>12, <2>2, BackToFound DEF Interrupt, End
<1>13. CASE Die
  <2>1. stage' = "idle" /\ exit' = "died" /\ todo' = {} /\ cur' = NoMutant
    BY <1>13 DEF Die, End
  <2> QED BY <1>0, <2>1 DEF SourcesKnown
<1>14. CASE UNCHANGED vars
  BY <1>14 DEF vars, SourcesKnown, Patched
<1> QED
  BY <1>1, <1>2, <1>3, <1>4, <1>5, <1>6, <1>7, <1>8, <1>9, <1>10, <1>11,
     <1>12, <1>13, <1>14 DEF Next

(* Restoring never adds a mutant to a source. *)
LEMMA FoundIsLess ==
  ASSUME TypeOK, SourcesKnown, stage # "idle", NEW f \in Sources
  PROVE  found[f] \subseteq src[f]
<1>1. src = Patched BY DEF SourcesKnown
<1>2. found \in [Sources -> SUBSET Mutants] BY DEF TypeOK
<1> QED BY <1>1, <1>2 DEF Patched

----------------------------------------------------------------------------
(* Sources that only lose mutants and objects that are only built leave    *)
(* everything that is not stale up to date.                                *)
LEMMA StaysUpToDate ==
  ASSUME TypeOK, UpToDate, NEW built, obj' = ObjectsAfter(built),
         \A f \in Sources : src'[f] \subseteq src[f],
         \A o \in Objects \ stale' : o \in built \/ o \notin stale
  PROVE  UpToDate'
<1>1. ASSUME NEW o \in Objects, o \notin stale', NEW x, x \in Compiled(o)'
      PROVE  x \in obj'[o]
  <2>1. x \in Compiled(o)
    BY <1>1, IncludesSources, CompiledMember, CompiledMemberNext
  <2>2. obj'[o] = IF o \in built THEN Compiled(o) ELSE obj[o]
    BY <1>1 DEF ObjectsAfter
  <2> QED BY <1>1, <2>1, <2>2 DEF UpToDate
<1> QED BY <1>1 DEF UpToDate

LEMMA NothingBuilt == ASSUME TypeOK PROVE ObjectsAfter({}) = obj
<1>1. obj \in [Objects -> SUBSET Mutants] BY DEF TypeOK
<1> QED BY <1>1 DEF ObjectsAfter

LEMMA UpToDateInductive ==
  TypeOK /\ SourcesKnown /\ UpToDate /\ [Next]_vars => UpToDate'
<1> SUFFICES ASSUME TypeOK, SourcesKnown, UpToDate, [Next]_vars PROVE UpToDate'
  OBVIOUS
<1>0. ASSUME UNCHANGED <<src, obj>>, stale \subseteq stale' PROVE UpToDate'
  <2>1. obj' = ObjectsAfter({}) BY <1>0, NothingBuilt
  <2> QED BY <1>0, <2>1, StaysUpToDate
<1>a. ASSUME src' = src, NEW built, obj' = ObjectsAfter(built), stale' = stale \ built
      PROVE  UpToDate'
  BY <1>a, StaysUpToDate
<1>1. ASSUME NEW selected \in SUBSET Mutants, NEW skip \in BOOLEAN, Start(selected, skip)
      PROVE  UpToDate'
  BY <1>0, <1>1 DEF Start
<1>2. CASE BaselineRebuild
  BY <1>a, <1>2 DEF BaselineRebuild
<1>3. CASE BaselineGate
  BY <1>0, <1>3 DEF BaselineGate
<1>4. ASSUME NEW m \in Mutants, SkipStale(m) PROVE UpToDate'
  BY <1>0, <1>4 DEF SkipStale
<1>5. ASSUME NEW m \in Mutants, Apply(m) PROVE UpToDate'
  <2> DEFINE f == FileOf[m]
  <2>1. src \in [Sources -> SUBSET Mutants] BY DEF TypeOK
  <2>2. \A g \in Sources : g # f => src'[g] = src[g] BY <1>5, <2>1 DEF Apply
  <2>3. ASSUME NEW o \in Objects \ stale', NEW x, x \in Compiled(o)' PROVE x \in obj'[o]
    <3>1. o \notin stale /\ o \notin OutOfDate({f} \union AlsoTouch(f)) /\ obj' = obj
      BY <1>5, <2>3 DEF Apply
    <3>2. f \notin Includes(o) BY <2>3, <3>1, ApplyOutdates
    <3>3. x \in Compiled(o)
      BY <2>2, <2>3, <3>2, IncludesSources, CompiledMember, CompiledMemberNext
    <3> QED BY <2>3, <3>1, <3>3 DEF UpToDate
  <2> QED BY <2>3 DEF UpToDate
<1>6. CASE Rebuild
  BY <1>a, <1>6 DEF Rebuild
<1>7. CASE Gate
  BY <1>0, <1>7 DEF Gate
<1>8. CASE Restore
  <2>1. stage # "idle" /\ (cur \in Mutants => FileOf[cur] \in {FileOf[cur]})
    BY <1>8 DEF Restore
  <2>2. src' = found BY <1>8, <2>1, RestoresFound DEF Restore
  <2>3. \A f \in Sources : src'[f] \subseteq src[f] BY <2>1, <2>2, FoundIsLess
  <2>4. obj' = ObjectsAfter({}) /\ stale \subseteq stale'
    BY <1>8, NothingBuilt DEF Restore
  <2> QED BY <2>3, <2>4, StaysUpToDate
<1>9. CASE FinalRestore
  <2>1. stage # "idle" /\ cur \notin Mutants BY <1>9, Measuring DEF FinalRestore
  <2>2. src' = found BY <1>9, <2>1, RestoresFound DEF FinalRestore
  <2>3. \A f \in Sources : src'[f] \subseteq src[f] BY <2>1, <2>2, FoundIsLess
  <2>4. obj' = ObjectsAfter({}) /\ stale \subseteq stale'
    BY <1>9, NothingBuilt DEF FinalRestore
  <2> QED BY <2>3, <2>4, StaysUpToDate
<1>10. CASE FinalRebuild
  BY <1>a, <1>10 DEF FinalRebuild
<1>11. CASE FinalGate
  BY <1>0, <1>11 DEF FinalGate
<1>12. CASE Interrupt
  <2>1. stage # "idle" /\ (cur \in Mutants => FileOf[cur] \in files)
    BY <1>12 DEF Interrupt, SourcesKnown
  <2>2. src' = found BY <1>12, <2>1, RestoresFound DEF Interrupt, RestoredAtBail
  <2>3. \A f \in Sources : src'[f] \subseteq src[f] BY <2>1, <2>2, FoundIsLess
  <2>4. PICK built \in SUBSET InFlight : \E late \in SUBSET built :
          /\ obj' = ObjectsAfter(built)
          /\ stale' = ((stale \ built) \union RestoredIsNewer(RestoredAtBail)) \ late
    BY <1>12 DEF Interrupt
  <2>5. \A o \in Objects \ stale' : o \in built \/ o \notin stale BY <2>4
  <2> QED BY <2>3, <2>4, <2>5, StaysUpToDate
<1>13. CASE Die
  BY <1>a, <1>13 DEF Die
<1>14. CASE UNCHANGED vars
  BY <1>0, <1>14 DEF vars
<1> QED
  BY <1>1, <1>2, <1>3, <1>4, <1>5, <1>6, <1>7, <1>8, <1>9, <1>10, <1>11,
     <1>12, <1>13, <1>14 DEF Next

----------------------------------------------------------------------------
(* A green gate on a tree where nothing is stale: no source the run has    *)
(* found holds a fault the gate sees.                                      *)
LEMMA GreenMeansClean ==
  ASSUME TypeOK, SourcesKnown, UpToDate, stage = "baseline", ~GateIsRed,
         NEW f \in Sources
  PROVE  found[f] \cap Visible = {}
<1>1. stale = {} BY DEF TypeOK
<1>2. Mark(f) \in Objects /\ f \in Includes(Mark(f)) BY MarkIncludes
<1>3. src[f] \subseteq obj[Mark(f)] BY <1>1, <1>2, CompiledMember DEF UpToDate
<1>4. found[f] \subseteq src[f] BY FoundIsLess
<1> QED BY <1>2, <1>3, <1>4 DEF GateIsRed

(* Restoring the patched file: what the gate would see in an object that   *)
(* make does not rebuild is still in its sources, or is of the opcode      *)
(* table.                                                                  *)
LEMMA RestoreExplained ==
  ASSUME TypeOK, SourcesKnown, Explained, Restore, based
  PROVE  Explained'
<1> DEFINE f == FileOf[cur]
<1>1. /\ stage = "scored" /\ cur \in Mutants
      /\ found' = found /\ obj' = obj /\ stale' = stale \union RestoredIsNewer({f})
  BY Measuring DEF Restore
<1>2. src' = found BY <1>1, RestoresFound DEF Restore
<1>3. src = Patched /\ found \in [Sources -> SUBSET Mutants]
  BY <1>1 DEF SourcesKnown, TypeOK
<1>4. \A g \in Sources : \A x : x \in src[g] /\ x \notin src'[g] => g = f /\ x = cur
  BY <1>1, <1>2, <1>3 DEF Patched
<1>5. ASSUME NEW o \in Objects \ stale', NEW x \in obj'[o] \cap Visible,
             x \notin Compiled(o)'
      PROVE  o = Assembler /\ FileOf[x] = Header
  <2>1. x \in Compiled(o) \/ (o = Assembler /\ FileOf[x] = Header)
    BY <1>1, <1>5 DEF Explained
  <2>2. ASSUME x \in Compiled(o) PROVE o = Assembler /\ FileOf[x] = Header
    <3>1. f \in Includes(o) /\ x = cur
      BY <1>4, <1>5, <2>2, IncludesSources, CompiledMember, CompiledMemberNext
    <3> QED BY <1>1, <1>5, <3>1, RestoreOutdates
  <2> QED BY <2>1, <2>2
<1> QED BY <1>1, <1>5 DEF Explained

LEMMA ExplainedInductive ==
  TypeOK /\ SourcesKnown /\ UpToDate /\ Explained /\ [Next]_vars => Explained'
<1> SUFFICES ASSUME TypeOK, SourcesKnown, UpToDate, Explained, [Next]_vars
             PROVE  Explained'
  OBVIOUS
<1>a. ASSUME stage' \notin {"loop", "applied", "built", "scored"} \/ ~based'
      PROVE  Explained'
  BY <1>a DEF Explained
<1>b. ASSUME UNCHANGED <<src, obj, stale, found, based>>,
             stage \in {"loop", "applied", "built", "scored"}
      PROVE  Explained'
  <2>1. \A o, x : x \in Compiled(o)' <=> x \in Compiled(o)
    BY <1>b, CompiledMember, CompiledMemberNext
  <2> QED BY <1>b, <2>1 DEF Explained
<1>1. ASSUME NEW selected \in SUBSET Mutants, NEW skip \in BOOLEAN, Start(selected, skip)
      PROVE  Explained'
  BY <1>a, <1>1 DEF Start
<1>2. CASE BaselineRebuild
  BY <1>a, <1>2 DEF BaselineRebuild, Going, End
<1>3. CASE BaselineGate
  <2>1. CASE GateIsRed BY <1>a, <1>3, <2>1 DEF BaselineGate
  <2>2. CASE ~GateIsRed
    <3>1. /\ stage = "baseline" /\ found' = found /\ obj' = obj
      BY <1>3 DEF BaselineGate
    <3>2. \A f \in Sources : found'[f] \cap Visible = {}
      BY <2>2, <3>1, GreenMeansClean
    <3>3. \A o \in Objects : obj'[o] \cap Visible = {} BY <2>2, <3>1 DEF GateIsRed
    <3> QED BY <3>2, <3>3 DEF Explained
  <2> QED BY <2>1, <2>2
<1>4. ASSUME NEW m \in Mutants, SkipStale(m) PROVE Explained'
  BY <1>b, <1>4 DEF SkipStale
<1>5. ASSUME NEW m \in Mutants, Apply(m) PROVE Explained'
  <2>1. src \in [Sources -> SUBSET Mutants] BY DEF TypeOK
  <2>2. \A g \in Sources : src[g] \subseteq src'[g] BY <1>5, <2>1 DEF Apply
  <2>3. \A o, x : x \in Compiled(o) => x \in Compiled(o)'
    BY <2>2, IncludesSources, CompiledMember, CompiledMemberNext
  <2>4. /\ stage = "loop" /\ stale \subseteq stale'
        /\ UNCHANGED <<obj, found, based>>
    BY <1>5 DEF Apply
  <2> QED BY <2>3, <2>4 DEF Explained
<1>6. CASE Rebuild
  <2>1. PICK built \in SUBSET Buildable :
          /\ obj' = ObjectsAfter(built)
          /\ stale' = stale \ built
    BY <1>6 DEF Rebuild
  <2>2. /\ stage = "applied" /\ UNCHANGED <<src, found, based>>
    BY <1>6 DEF Rebuild
  <2>3. \A o, x : x \in Compiled(o)' <=> x \in Compiled(o)
    BY <2>2, CompiledMember, CompiledMemberNext
  <2>4. \A o \in Objects : obj'[o] = IF o \in built THEN Compiled(o) ELSE obj[o]
    BY <2>1 DEF ObjectsAfter
  <2> QED BY <2>1, <2>2, <2>3, <2>4 DEF Explained
<1>7. CASE Gate
  BY <1>b, <1>7 DEF Gate
<1>8. CASE Restore
  <2>1. CASE based BY <1>8, <2>1, RestoreExplained
  <2>2. CASE ~based BY <1>a, <1>8, <2>2 DEF Restore
  <2> QED BY <2>1, <2>2
<1>9. CASE FinalRestore
  BY <1>a, <1>9 DEF FinalRestore
<1>10. CASE FinalRebuild
  BY <1>a, <1>10 DEF FinalRebuild, Going, End
<1>11. CASE FinalGate
  BY <1>a, <1>11 DEF FinalGate, End
<1>12. CASE Interrupt
  BY <1>a, <1>12 DEF Interrupt, End
<1>13. CASE Die
  BY <1>a, <1>13 DEF Die, End
<1>14. CASE UNCHANGED vars
  <2>1. \A o, x : x \in Compiled(o)' <=> x \in Compiled(o)
    BY <1>14, CompiledMember, CompiledMemberNext DEF vars
  <2> QED BY <1>14, <2>1 DEF vars, Explained
<1> QED
  BY <1>1, <1>2, <1>3, <1>4, <1>5, <1>6, <1>7, <1>8, <1>9, <1>10, <1>11,
     <1>12, <1>13, <1>14 DEF Next

----------------------------------------------------------------------------
(* The gate's verdict is about the mutant applied. *)
LEMMA GateVerdict ==
  ASSUME TypeOK, SourcesKnown, UpToDate, Explained, Gate
  PROVE  /\ verdict' = "survived" => cur \notin Visible
         /\ verdict' = "killed" /\ based => cur \in Visible \/ cur \in suspect'
<1>1. stage = "built" /\ stale = {} /\ cur \in Mutants
  BY Measuring DEF Gate, TypeOK
<1>2. src = Patched /\ found \in [Sources -> SUBSET Mutants]
  BY <1>1 DEF SourcesKnown, TypeOK
<1>3. FileOf[cur] \in Sources BY <1>1, MutantFile
<1>4. ASSUME verdict' = "survived" PROVE cur \notin Visible
  <2>1. ~GateIsRed BY <1>4 DEF Gate
  <2>2. cur \in src[FileOf[cur]] BY <1>1, <1>2, <1>3 DEF Patched
  <2>3. cur \in obj[Mark(FileOf[cur])] /\ Mark(FileOf[cur]) \in Objects
    BY <1>1, <1>3, <2>2, MarkIncludes, CompiledMember DEF UpToDate
  <2> QED BY <2>1, <2>3 DEF GateIsRed
<1>5. ASSUME verdict' = "killed", based, cur \notin Visible PROVE cur \in suspect'
  <2>1. PICK o \in Objects, x \in Visible : x \in obj[o]
    BY <1>5 DEF Gate, GateIsRed
  <2>2. \A g \in Sources : x \notin src[g]
    BY <1>1, <1>2, <1>5 DEF Explained, Patched
  <2>3. x \notin Compiled(o) BY <2>2, IncludesSources, CompiledMember
  <2>4. o = Assembler /\ FileOf[x] = Header BY <1>1, <1>5, <2>1, <2>3 DEF Explained
  <2>5. Leftover BY <2>1, <2>2, <2>4 DEF Leftover, Sources
  <2> QED BY <2>5 DEF Gate
<1> QED BY <1>4, <1>5

Recorded == VerdictEarned /\ SurvivorIsAHole /\ KillIsEarned

LEMMA RecordedInductive == IInv /\ [Next]_vars => Recorded'
<1> SUFFICES ASSUME IInv, [Next]_vars PROVE Recorded'
  OBVIOUS
<1> USE DEF Recorded, VerdictEarned, SurvivorIsAHole, KillIsEarned
<1>0. VerdictEarned /\ SurvivorIsAHole /\ KillIsEarned BY DEF IInv
<1>a. ASSUME UNCHANGED <<results, based, suspect>>,
             stage' \notin {"fresh", "baseline", "scored"}
      PROVE  Recorded'
  BY <1>0, <1>a
<1>1. ASSUME NEW selected \in SUBSET Mutants, NEW skip \in BOOLEAN, Start(selected, skip)
      PROVE  Recorded'
  BY <1>1 DEF Start
<1>2. CASE BaselineRebuild
  BY <1>0, <1>2 DEF BaselineRebuild, Going, End
<1>3. CASE BaselineGate
  <2>1. results' = [m \in Mutants |-> "none"] /\ stage' \in {"loop", "idle"}
    BY <1>0, <1>3 DEF BaselineGate, Going, End
  <2> QED BY <2>1
<1>4. ASSUME NEW m \in Mutants, SkipStale(m) PROVE Recorded'
  <2>1. results \in [Mutants -> Statuses] BY DEF IInv, TypeOK
  <2>2. \A x \in Mutants : results'[x] = IF x = m THEN "stale" ELSE results[x]
    BY <1>4, <2>1 DEF SkipStale
  <2>3. stage' = "loop" /\ UNCHANGED <<based, suspect>> BY <1>4 DEF SkipStale
  <2> QED BY <1>0, <2>2, <2>3
<1>5. ASSUME NEW m \in Mutants, Apply(m) PROVE Recorded'
  BY <1>a, <1>5 DEF Apply
<1>6. CASE Rebuild
  <2>1. verdict' \in {"nobuild", "norebuild", "none"} BY <1>6 DEF Rebuild, BuildVerdict
  <2>2. stage' \in {"built", "scored"} /\ UNCHANGED <<results, based, suspect>>
    BY <1>6 DEF Rebuild
  <2> QED BY <1>0, <2>1, <2>2
<1>7. CASE Gate
  <2>1. /\ verdict' = "survived" => cur \notin Visible
        /\ verdict' = "killed" /\ based => cur \in Visible \/ cur \in suspect'
    BY <1>7, GateVerdict DEF IInv
  <2>2. /\ stage' = "scored" /\ suspect \subseteq suspect'
        /\ UNCHANGED <<results, based, cur>>
    BY <1>7 DEF Gate
  <2> QED BY <1>0, <2>1, <2>2
<1>8. CASE Restore
  <2>1. results \in [Mutants -> Statuses] BY DEF IInv, TypeOK
  <2>2. \A x \in Mutants : results'[x] = IF x = cur THEN verdict ELSE results[x]
    BY <1>8, <2>1 DEF Restore
  <2>3. stage = "scored" /\ stage' = "loop" /\ UNCHANGED <<based, suspect>>
    BY <1>8 DEF Restore
  <2> QED BY <1>0, <2>2, <2>3
<1>9. CASE FinalRestore
  BY <1>a, <1>9 DEF FinalRestore
<1>10. CASE FinalRebuild
  BY <1>a, <1>10 DEF FinalRebuild, Going, End
<1>11. CASE FinalGate
  BY <1>a, <1>11 DEF FinalGate, End
<1>12. CASE Interrupt
  BY <1>a, <1>12 DEF Interrupt, End
<1>13. CASE Die
  BY <1>a, <1>13 DEF Die, End
<1>14. CASE UNCHANGED vars
  BY <1>0, <1>14 DEF vars
<1> QED
  BY <1>1, <1>2, <1>3, <1>4, <1>5, <1>6, <1>7, <1>8, <1>9, <1>10, <1>11,
     <1>12, <1>13, <1>14 DEF Next

----------------------------------------------------------------------------
LEMMA InitIInv == Init => IInv
<1> SUFFICES ASSUME Init PROVE IInv
  OBVIOUS
<1>0. NoMutant \notin Mutants /\ MaxRuns \in Nat
  BY MutantsAssumption DEF MutantsAssumption
<1>1. TypeOK
  <2>1. /\ src \in [Sources -> SUBSET Mutants] /\ found \in [Sources -> SUBSET Mutants]
        /\ obj \in [Objects -> SUBSET Mutants]
    BY DEF Init
  <2>2. results \in [Mutants -> Statuses] BY DEF Init, Statuses
  <2>3. cur = NoMutant /\ stage = "idle" /\ runs = 0 BY DEF Init
  <2>4. runs \in 0..MaxRuns BY <1>0, <2>3
  <2>5. /\ stale = {} /\ todo = {} /\ verdict = "none" /\ files = {} /\ based = FALSE
        /\ exit = "none" /\ suspect = {}
    BY DEF Init
  <2> QED BY <1>0, <2>1, <2>2, <2>3, <2>4, <2>5 DEF TypeOK, Stages, Statuses
<1>2. SourcesKnown BY <1>0 DEF Init, SourcesKnown, Patched
<1>3. ASSUME NEW o, NEW x PROVE x \notin Compiled(o)
  BY IncludesSources, CompiledMember DEF Init
<1>4. UpToDate BY <1>3 DEF UpToDate
<1>5. Explained BY DEF Init, Explained
<1>6. VerdictEarned /\ SurvivorIsAHole /\ KillIsEarned
  BY DEF Init, VerdictEarned, SurvivorIsAHole, KillIsEarned
<1> QED BY <1>1, <1>2, <1>4, <1>5, <1>6 DEF IInv

(* The inductive invariant holds in every reachable state. *)
THEOREM IInvCorrect == Spec => []IInv
<1>1. Init => IInv BY InitIInv
<1>2. IInv /\ [Next]_vars => IInv'
  BY TypeInductive, SourcesInductive, UpToDateInductive, ExplainedInductive,
     RecordedInductive DEF IInv, Recorded
<1> QED BY <1>1, <1>2, PTL DEF Spec

(* Every variable keeps its type, and nothing is measured while an object  *)
(* is out of date.                                                         *)
THEOREM TypeCorrect == Spec => []TypeOK
<1>1. IInv => TypeOK BY DEF IInv
<1> QED BY <1>1, IInvCorrect, PTL

(* A mutant recorded as a survivor is one no stage of the gate can see     *)
(* (tb/mutation/run.py, main), whatever happened to this run's builds and  *)
(* to earlier runs.                                                        *)
THEOREM SurvivorAlwaysAHole == Spec => []SurvivorIsAHole
<1>1. IInv => SurvivorIsAHole BY DEF IInv
<1> QED BY <1>1, IInvCorrect, PTL

(* A kill recorded after a green baseline is earned by its mutant, unless  *)
(* the assembler held a leftover of the opcode table.                      *)
THEOREM KillAlwaysEarned == Spec => []KillIsEarned
<1>1. IInv => KillIsEarned BY DEF IInv
<1> QED BY <1>1, IInvCorrect, PTL

(* A run that is not killed leaves the sources as it found them, and never *)
(* holds more than the mutant it measures in them (restore, bail).         *)
THEOREM SourcesAlwaysAsFound == Spec => []SourcesAsFound
<1>1. IInv => SourcesAsFound
  <2> SUFFICES ASSUME IInv PROVE SourcesAsFound
    OBVIOUS
  <2>1. /\ stage # "idle" \/ exit # "died" => src = Patched
        /\ found \in [Sources -> SUBSET Mutants]
        /\ TypeOK
    BY DEF IInv, SourcesKnown, TypeOK
  <2>2. stage = "idle" => cur \notin Mutants BY <2>1, Measuring
  <2>3. ASSUME src = Patched, NEW f \in Sources PROVE src[f] \ found[f] \subseteq {cur}
    BY <2>1, <2>3 DEF Patched
  <2> QED BY <2>1, <2>2, <2>3 DEF SourcesAsFound, Patched
<1> QED BY <1>1, IInvCorrect, PTL
============================================================================
