-------------------------- MODULE MutationHarness --------------------------
(***************************************************************************)
(* tb/mutation/run.py: for each mutant, patch one line of the built tree,  *)
(* rebuild incrementally, run the gate, put the line back.  What a verdict *)
(* is worth depends on what make rebuilds, and that on times of files, on  *)
(* the dependencies make knows of, and on whatever an earlier run left.    *)
(*                                                                         *)
(* A source or an object is here the set of mutants it contains.  Times    *)
(* are reduced to the one thing make asks of them: which objects are older *)
(* than a source they are known to depend on.  The gate is red when a      *)
(* binary contains a mutant some stage can see; stages are assumed to end  *)
(* in time, and faults not to hide each other.                             *)
(*                                                                         *)
(* An operator marked "defective" is a slip the code could have made in    *)
(* the definition after it; it is there to test the properties with.       *)
(***************************************************************************)
EXTENDS Naturals

CONSTANTS
  Mutants,   \* the mutants gen.py wrote
  NoMutant,
  FileOf,    \* the source file a mutant patches
  LineOf,    \* and its line
  Visible,   \* mutants some gate stage goes red for
  NoBuild,   \* mutants that do not compile
  MaxRuns    \* bound on the number of runs on one tree

Header == "include/opcode/i51.h"
Assembler == "tc-i51"

Sources == {"gas/config/tc-i51.c", "bfd/elf32-i51.c", "opcodes/i51-dis.c",
            Header, "ld/scripttempl/elf32i51.sc"}

Objects == {Assembler, "elf32-i51", "i51-dis", "eelf32i51"}

ASSUME MutantsAssumption ==
  /\ NoMutant \notin Mutants
  /\ FileOf \in [Mutants -> Sources]
  /\ LineOf \in [Mutants -> Nat]
  /\ Visible \subseteq Mutants /\ NoBuild \subseteq Mutants
  /\ MaxRuns \in Nat

(* The object make must mention once a file was mutated: REBUILD_MARK. *)
Mark(f) ==
  CASE f = "gas/config/tc-i51.c"        -> Assembler
    [] f = "bfd/elf32-i51.c"            -> "elf32-i51"
    [] f = "opcodes/i51-dis.c"          -> "i51-dis"
    [] f = Header                       -> Assembler
    [] f = "ld/scripttempl/elf32i51.sc" -> "eelf32i51"

(* The sources an object is compiled from, and those make knows of: its    *)
(* gas knows of no dependency on the opcode table.                         *)
Includes(o) ==
  {f \in Sources : Mark(f) = o} \union (IF o = "i51-dis" THEN {Header} ELSE {})

Edges(o) == IF o = Assembler THEN Includes(o) \ {Header} ELSE Includes(o)

(* What apply touches besides the file it patches: ALSO_TOUCH. *)
AlsoTouch(f) == IF f = Header THEN {"gas/config/tc-i51.c"} ELSE {}

Statuses == {"none", "stale", "nobuild", "norebuild", "killed", "survived"}
Stages == {"idle", "fresh", "baseline", "loop", "applied", "built", "scored",
           "ending", "ended"}

VARIABLES
  src,      \* mutants in each source
  obj,      \* mutants in each object
  stale,    \* objects older than a source make knows they depend on
  stage,    \* where run.py is; "idle" between runs
  todo,     \* selected mutants still to be measured
  cur,      \* the mutant applied
  verdict,  \* its status, until it is recorded
  results,  \* the status recorded for each mutant of this run
  files,    \* files this run saved
  found,    \* the sources as it saved them
  based,    \* the gate was green before the first mutant
  exit,     \* how the last run ended
  runs,
  suspect   \* history: mutants measured with a leftover opcode table

vars == <<src, obj, stale, stage, todo, cur, verdict, results, files, found,
          based, exit, runs, suspect>>

Init ==
  /\ src = [f \in Sources |-> {}]
  /\ obj = [o \in Objects |-> {}]
  /\ stale = {}
  /\ stage = "idle"
  /\ todo = {}
  /\ cur = NoMutant
  /\ verdict = "none"
  /\ results = [m \in Mutants |-> "none"]
  /\ files = {}
  /\ found = src
  /\ based = FALSE
  /\ exit = "none"
  /\ runs = 0
  /\ suspect = {}

----------------------------------------------------------------------------
(* Objects that fall out of date when files are written. *)
OutOfDate(fs) == {o \in Objects : Edges(o) \cap fs # {}}

Restored(fs) == [f \in Sources |-> IF f \in fs THEN found[f] ELSE src[f]]

(* Defective: the file comes back with the time it was saved with. *)
KeepsItsTime(fs) == {}

(* A restored file looks newer than what was built from the mutant. *)
RestoredIsNewer(fs) == OutOfDate(fs)

(* make: some of the objects that are out of date and compile get built.   *)
Compiled(o) == UNION {src[f] : f \in Includes(o)}
Buildable == {o \in stale : Compiled(o) \cap NoBuild = {}}
ObjectsAfter(built) == [o \in Objects |-> IF o \in built THEN Compiled(o) ELSE obj[o]]

(* It succeeds when it gets to the end; it may also run out of time. *)
MakeSucceeds(built) == built = stale

(* Defective: neither the exit status nor the output of make is looked at. *)
Unchecked(built) == "none"

(* What the rebuild alone says of the mutant applied: it does not compile, *)
(* or make did not mention the object it is in.                            *)
BuildVerdict(built) ==
  IF ~MakeSucceeds(built) THEN "nobuild"
  ELSE IF Mark(FileOf[cur]) \notin built THEN "norebuild" ELSE "none"

GateIsRed == \E o \in Objects : obj[o] \cap Visible # {}

----------------------------------------------------------------------------
(* A run starts: the mutated files are saved, and restored at once so that *)
(* anything stale in them is rebuilt.                                      *)
Start(selected, skipBaseline) ==
  /\ stage = "idle"
  /\ runs < MaxRuns
  /\ runs' = runs + 1
  /\ selected # {}
  /\ todo' = selected
  /\ files' = {FileOf[m] : m \in selected}
  /\ found' = src
  /\ stale' = stale \union RestoredIsNewer(files')
  /\ stage' = IF skipBaseline THEN "loop" ELSE "fresh"
  /\ results' = [m \in Mutants |-> "none"]
  /\ based' = FALSE
  /\ exit' = "none"
  /\ suspect' = {}
  /\ UNCHANGED <<src, obj, cur, verdict>>

End(how) == /\ stage' = "idle"
            /\ exit' = how
            /\ todo' = {}
            /\ cur' = NoMutant
            /\ verdict' = "none"

Going(next) == /\ stage' = next
               /\ UNCHANGED <<exit, todo, cur, verdict>>

(* The clean tree must build and pass the gate. *)
BaselineRebuild ==
  /\ stage = "fresh"
  /\ \E built \in SUBSET Buildable :
       /\ obj' = ObjectsAfter(built)
       /\ stale' = stale \ built
       /\ IF MakeSucceeds(built) THEN Going("baseline") ELSE End("setup")
  /\ UNCHANGED <<src, results, files, found, based, runs, suspect>>

BaselineGate ==
  /\ stage = "baseline"
  /\ based' = ~GateIsRed
  /\ IF GateIsRed THEN End("red") ELSE Going("loop")
  /\ UNCHANGED <<src, obj, stale, results, files, found, runs, suspect>>

(* The line is no longer what gen.py saw: some mutant is on it already. *)
SourceMoved(m) == \E x \in src[FileOf[m]] : LineOf[x] = LineOf[m]

SkipStale(m) ==
  /\ stage = "loop"
  /\ m \in todo
  /\ SourceMoved(m)
  /\ todo' = todo \ {m}
  /\ results' = [results EXCEPT ![m] = "stale"]
  /\ UNCHANGED <<src, obj, stale, stage, cur, verdict, files, found, based,
                 exit, runs, suspect>>

Apply(m) ==
  /\ stage = "loop"
  /\ m \in todo
  /\ ~SourceMoved(m)
  /\ todo' = todo \ {m}
  /\ cur' = m
  /\ src' = [src EXCEPT ![FileOf[m]] = @ \union {m}]
  /\ stale' = stale \union OutOfDate({FileOf[m]} \union AlsoTouch(FileOf[m]))
  /\ stage' = "applied"
  /\ UNCHANGED <<obj, verdict, results, files, found, based, exit, runs, suspect>>

Rebuild ==
  /\ stage = "applied"
  /\ \E built \in SUBSET Buildable :
       /\ obj' = ObjectsAfter(built)
       /\ stale' = stale \ built
       /\ verdict' = BuildVerdict(built)
  /\ stage' = IF verdict' = "none" THEN "built" ELSE "scored"
  /\ UNCHANGED <<src, todo, cur, results, files, found, based, exit, runs, suspect>>

(* The assembler holds an opcode table that has been put back since. *)
Leftover == \E x \in obj[Assembler] : FileOf[x] = Header /\ x \notin src[Header]

Gate ==
  /\ stage = "built"
  /\ verdict' = IF GateIsRed THEN "killed" ELSE "survived"
  /\ stage' = "scored"
  /\ suspect' = IF Leftover THEN suspect \union {cur} ELSE suspect
  /\ UNCHANGED <<src, obj, stale, todo, cur, results, files, found, based, exit, runs>>

(* The patched file, and it alone, is put back. *)
Restore ==
  /\ stage = "scored"
  /\ src' = Restored({FileOf[cur]})
  /\ stale' = stale \union RestoredIsNewer({FileOf[cur]})
  /\ results' = [results EXCEPT ![cur] = verdict]
  /\ cur' = NoMutant
  /\ verdict' = "none"
  /\ stage' = "loop"
  /\ UNCHANGED <<obj, todo, files, found, based, exit, runs, suspect>>

(* Every mutant is measured: the tree is left as it was found, and proved  *)
(* to be.                                                                  *)
FinalRestore ==
  /\ stage = "loop"
  /\ todo = {}
  /\ src' = Restored(files)
  /\ stale' = stale \union RestoredIsNewer(files)
  /\ stage' = "ending"
  /\ UNCHANGED <<obj, todo, cur, verdict, results, files, found, based, exit,
                 runs, suspect>>

FinalRebuild ==
  /\ stage = "ending"
  /\ \E built \in SUBSET Buildable :
       /\ obj' = ObjectsAfter(built)
       /\ stale' = stale \ built
       /\ IF MakeSucceeds(built) THEN Going("ended") ELSE End("not rebuilt")
  /\ UNCHANGED <<src, results, files, found, based, runs, suspect>>

FinalGate ==
  /\ stage = "ended"
  /\ End(IF GateIsRed THEN "not clean" ELSE "ok")
  /\ UNCHANGED <<src, obj, stale, results, files, found, based, runs, suspect>>

----------------------------------------------------------------------------
MakeIsRunning == stage \in {"fresh", "applied", "ending"}
InFlight == IF MakeIsRunning THEN Buildable ELSE {}

(* Defective: the handler only exits. *)
NothingAtBail == {}

(* SIGINT or SIGTERM: the handler restores every saved file and exits.     *)
(* Objects make had built are older than the restored files, but a         *)
(* compiler it left behind may finish afterwards, from the mutant.         *)
RestoredAtBail == files

Interrupt ==
  /\ stage # "idle"
  /\ \E built \in SUBSET InFlight : \E late \in SUBSET built :
       /\ obj' = ObjectsAfter(built)
       /\ stale' = ((stale \ built) \union RestoredIsNewer(RestoredAtBail)) \ late
  /\ src' = Restored(RestoredAtBail)
  /\ End("interrupted")
  /\ UNCHANGED <<results, files, found, based, runs, suspect>>

(* The run is killed or the machine goes down; make may get further. *)
Die ==
  /\ stage # "idle"
  /\ \E built \in SUBSET InFlight :
       /\ obj' = ObjectsAfter(built)
       /\ stale' = stale \ built
  /\ End("died")
  /\ UNCHANGED <<src, results, files, found, based, runs, suspect>>

Next ==
  \/ \E selected \in SUBSET Mutants, skip \in BOOLEAN : Start(selected, skip)
  \/ BaselineRebuild
  \/ BaselineGate
  \/ \E m \in Mutants : SkipStale(m) \/ Apply(m)
  \/ Rebuild
  \/ Gate
  \/ Restore
  \/ FinalRestore
  \/ FinalRebuild
  \/ FinalGate
  \/ Interrupt
  \/ Die

Spec == Init /\ [][Next]_vars

----------------------------------------------------------------------------
(* Types of every variable; a mutant is applied exactly in the stages of   *)
(* its measurement, and nothing is measured that is out of date.           *)
TypeOK ==
  /\ src \in [Sources -> SUBSET Mutants]
  /\ obj \in [Objects -> SUBSET Mutants]
  /\ stale \in SUBSET Objects
  /\ stage \in Stages
  /\ todo \in SUBSET Mutants
  /\ cur \in Mutants \union {NoMutant}
  /\ cur \in Mutants <=> stage \in {"applied", "built", "scored"}
  /\ verdict \in Statuses
  /\ results \in [Mutants -> Statuses]
  /\ files \in SUBSET Sources
  /\ found \in [Sources -> SUBSET Mutants]
  /\ based \in BOOLEAN
  /\ exit \in {"none", "ok", "interrupted", "setup", "red", "not rebuilt",
               "not clean", "died"}
  /\ runs \in 0..MaxRuns
  /\ suspect \in SUBSET Mutants
  /\ stage \in {"baseline", "built", "ended"} => stale = {}

(* A survivor is a hole in the suite: no stage can see the mutant, and it  *)
(* was in the binaries that were measured - whatever was interrupted,      *)
(* killed or left behind in this run or an earlier one.                    *)
SurvivorIsAHole == \A m \in Mutants : results[m] = "survived" => m \notin Visible

(* A kill is earned by the mutant it is recorded for, when the run began   *)
(* with a green gate: nothing left from an earlier mutant or an earlier    *)
(* run is what the stages saw.  Except for a mutant measured while the     *)
(* assembler still held the opcode table of an earlier one.                *)
KillIsEarned ==
  based => \A m \in Mutants :
             results[m] = "killed" /\ m \notin suspect => m \in Visible

(* The tree never holds more than one fault the run put there, and none    *)
(* once the run is over, however it ended, unless it was killed.           *)
SourcesAsFound ==
  /\ stage = "idle" /\ exit # "died" => src = found
  /\ stage # "idle" =>
       \A f \in Sources : src[f] \ found[f] \subseteq {cur}

(* tb/Makefile on the mutants target: single faults, injected one at a     *)
(* time, each rebuilt and put through the gate.  On a tree nobody else has *)
(* touched, with every build so far a success, the binaries hold the       *)
(* mutant that is measured and no other.                                   *)
OneFaultAtATime ==
  runs = 1 /\ stage = "built" /\ (\A m \in Mutants : results[m] # "nobuild") =>
    \A o \in Objects : obj[o] \subseteq {cur}
============================================================================
