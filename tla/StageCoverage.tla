--------------------------- MODULE StageCoverage ---------------------------
(***************************************************************************)
(* The stages of a gate (Harness.gate in run.py) on one mutant, and what   *)
(* report.py and coverage.py make of the rows of whole runs.  A run stops  *)
(* at the first red stage, or runs every stage; a list of stages is in the *)
(* order of STAGES, and a stage answers the same in every run.             *)
(***************************************************************************)
EXTENDS Naturals, Sequences, FiniteSets

Statuses == {"nobuild", "norebuild", "stale"}
NoStage == "none"

FirstRed(list, rcs) ==
  IF \E k \in DOMAIN list : rcs[list[k]] # 0
  THEN list[CHOOSE k \in DOMAIN list : rcs[list[k]] # 0 /\ \A j \in 1 .. k - 1 : rcs[list[j]] = 0]
  ELSE NoStage

(* Harness.gate on one mutant, as a row of the results: the stages run are *)
(* those up to the first red, or every one.                                *)
Gate(id, list, rcs, every) ==
  LET ran == {list[k] : k \in {k \in DOMAIN list :
                                 every \/ \A j \in 1 .. k - 1 : rcs[list[j]] = 0}}
  IN [id |-> id,
      status |-> IF FirstRed(list, rcs) = NoStage THEN "survived" ELSE "killed",
      killer |-> FirstRed(list, rcs),
      stages |-> [s \in ran |-> rcs[s]]]

(* A mutant that no stage gets to see. *)
NotGated(id, status) == [id |-> id, status |-> status, killer |-> NoStage, stages |-> <<>>]

(* The rows of a run of the list over mutants of which each is gated, with *)
(* what the stages end with, or is not.                                    *)
Run(mutants, list, every) ==
  [k \in DOMAIN mutants |->
     IF mutants[k].status \in Statuses
     THEN NotGated(k, mutants[k].status)
     ELSE Gate(k, list, mutants[k].rcs, every)]

AllButLast(list) == SubSeq(list, 1, Len(list) - 1)

(* The run that stops at the first red, the run of every stage, and the    *)
(* run of every stage of a list that lacks the last.                       *)
Runs(mutants, list) ==
  [plain   |-> Run(mutants, list, FALSE),
   full    |-> Run(mutants, list, TRUE),
   shorter |-> Run(mutants, AllButLast(list), TRUE)]
-----------------------------------------------------------------------------
(* coverage.py, on the rows of a run over a list of stages. *)

Rows(results) == {results[k] : k \in DOMAIN results}

Scored(results, list) ==
  {r \in Rows(results) : /\ r.status \in {"killed", "survived"}
                         /\ \A k \in DOMAIN list : list[k] \in DOMAIN r.stages}

Red(r, list) == {list[k] : k \in {k \in DOMAIN list : r.stages[list[k]] # 0}}

Killed(results, list) == {r \in Scored(results, list) : Red(r, list) # {}}

Kills(results, list, s) == {r.id : r \in {r \in Scored(results, list) : s \in Red(r, list)}}

(* Defective: unique if some other stage missed it. *)
UniqIfMissed(results, list, s) ==
  {r.id : r \in {r \in Scored(results, list) :
                   s \in Red(r, list) /\ Cardinality(Red(r, list)) < Len(list)}}

Uniq(results, list, s) ==
  {r.id : r \in {r \in Scored(results, list) : Red(r, list) = {s}}}

(* Defective: the last red in list order. *)
FirstInReverse(results, list, s) ==
  {r.id : r \in {r \in Scored(results, list) :
     \E k \in DOMAIN list : /\ list[k] = s /\ s \in Red(r, list)
                            /\ \A j \in k + 1 .. Len(list) : list[j] \notin Red(r, list)}}

First(results, list, s) ==
  {r.id : r \in {r \in Scored(results, list) :
     \E k \in DOMAIN list : /\ list[k] = s /\ s \in Red(r, list)
                            /\ \A j \in 1 .. k - 1 : list[j] \notin Red(r, list)}}

(* The mutants caught by n stages.                                         *)
Caught(results, list, n) ==
  {r.id : r \in {r \in Killed(results, list) : Cardinality(Red(r, list)) = n}}

(* report.py: the mutants a stage is first to kill, and those that moved   *)
(* between two runs.                                                       *)
FirstToKill(results, s) ==
  {r.id : r \in {r \in Rows(results) : r.status = "killed" /\ r.killer = s}}

Moved(before, after, from, to) ==
  {r.id : r \in {r \in Rows(after) :
                   r.status = to /\ \E q \in Rows(before) : q.id = r.id /\ q.status = from}}
=============================================================================
