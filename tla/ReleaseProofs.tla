---------------------------- MODULE ReleaseProofs ----------------------------
(***************************************************************************)
(* Proofs about Release: for any number of runs, commits, hosts and builds *)
(* and any number of attempts.                                             *)
(***************************************************************************)
EXTENDS Release, TLAPS, FiniteSetTheorems

Names == Hosts \union Patches \union {"SHA256SUMS"}
Assets == [name : Names, commit : Commits]
Starts == [commit : Commits, ref : Refs]
Releases ==
  [draft : BOOLEAN, assets : SUBSET Assets, commit : Commits, gate : {None, Fifteen, Fewer}]
Archives == [commit : Commits, host : Hosts, flaw : Flaws \union {None}]
Pcs == {"idle", "jobs", "check", "failed", "done"} \union Past

TypeOK ==
  /\ pc \in [Runs -> Pcs]
  /\ start \in [Runs -> Starts \union {None}]
  /\ gate \in [Runs -> {None, Fifteen, Fewer}]
  /\ built \in [Runs -> SUBSET Archives]
  /\ out \in [Runs -> SUBSET Assets]
  /\ release \in [Makers -> Releases \union {None}]
  /\ tag \in Commits \union {None}
  /\ attempt \in [Runs -> 1..MaxAttempts]
  /\ raced \in BOOLEAN /\ moved \in BOOLEAN /\ overlooked \in BOOLEAN /\ mistaken \in BOOLEAN
  /\ \A r \in Runs : /\ pc[r] # "idle" => start[r] \in Starts
                     /\ pc[r] = "upload" => release[Own(r)] \in Releases

(* Without a race one run at a time is past the check of the tag. *)
OneIsPast ==
  \A q, r \in Runs : pc[q] \in Past /\ pc[r] \in Past => q = r

(* What a run past the check can rely on: that no release but its own is   *)
(* there, and what its steps so far made sure of.                          *)
RunIsSure(r) ==
  pc[r] \in Past =>
    /\ \A m \in Makers \ {Own(r)} : release[m] = None
    /\ pc[r] \in {"facts", "assemble", "create"} => release[Own(r)] = None
    /\ pc[r] # "facts" => gate[r] = Fifteen
    /\ pc[r] \notin {"facts", "assemble"} => out[r] = Everything(start[r].commit)
    /\ pc[r] \in {"upload", "count", "publish"} =>
         /\ release[Own(r)] \in Releases
         /\ release[Own(r)].draft /\ release[Own(r)].commit = start[r].commit
         /\ release[Own(r)].gate = Fifteen
    /\ pc[r] = "count" => release[Own(r)].assets \subseteq out[r]
    /\ pc[r] = "publish" => release[Own(r)].assets = out[r]
    /\ ~moved /\ ~mistaken => tag \in {None, start[r].commit}

(* A public release is what its run made it; and its tag is there, so      *)
(* nobody pushes another.                                                  *)
PublicIsSure(m) ==
  m \in Public =>
    /\ release[m].gate = Fifteen
    /\ release[m].assets = Everything(release[m].commit)
    /\ ~moved /\ ~mistaken => tag = release[m].commit

(* The inductive invariant. *)
Sure ==
  ~raced => /\ OneIsPast
            /\ ~overlooked => /\ \A r \in Runs : RunIsSure(r)
                              /\ \A m \in Makers : PublicIsSure(m)

IInv == TypeOK /\ Sure
-----------------------------------------------------------------------------
(* Operators. *)

(* What a release should hold is finite: its count says something. *)
LEMMA EverythingIsFinite == ASSUME NEW c PROVE IsFiniteSet(Everything(c))
<1> DEFINE f == [n \in Names |-> Asset(n, c)]
<1>1. IsFiniteSet(Hosts \union Patches)
  BY ReleaseAssumption, FS_Union
<1>2. IsFiniteSet(Names)
  BY <1>1, FS_Union, FS_Singleton DEF Names
<1>3. f \in Surjection(Names, Everything(c))
  BY DEF Surjection, Everything, Names
<1> QED
  BY <1>2, <1>3, FS_Surjection

(* A draft that holds as many of the assets as were assembled holds them   *)
(* all: the count stands for the comparison.                               *)
LEMMA CountIsEnough ==
  ASSUME NEW c, NEW have \in SUBSET Everything(c), CountAgrees(have, Everything(c))
  PROVE  have = Everything(c)
BY EverythingIsFinite, FS_Subset DEF CountAgrees

(* release_manifest.py makes everything of the one commit, or nothing. *)
LEMMA ManifestIsEverything ==
  ASSUME NEW archives \in SUBSET Archives, NEW c, Manifest(archives, c) # None
  PROVE  Manifest(archives, c) = Everything(c)
<1>1. \A h \in Hosts :
        /\ Cardinality(Named(archives, h)) = 1
        /\ \A a \in Named(archives, h) : ArchiveIsRight(a, c)
  BY DEF Manifest
<1>2. \A h \in Hosts : \E a \in archives : a.host = h
  BY <1>1, FS_EmptySet DEF Named
<1>3. \A a \in archives : a.host \in Hosts /\ a.commit = c
  BY <1>1 DEF Archives, Named, ArchiveIsRight
<1>4. {Asset(a.host, a.commit) : a \in archives} = {Asset(h, c) : h \in Hosts}
  BY <1>2, <1>3
<1>5. Everything(c) = {Asset(h, c) : h \in Hosts}
                        \union {Asset(n, c) : n \in Patches \union {"SHA256SUMS"}}
  BY DEF Everything
<1> QED
  BY <1>1, <1>4, <1>5 DEF Manifest

LEMMA EverythingIsAssets ==
  ASSUME NEW c \in Commits PROVE Everything(c) \in SUBSET Assets
BY DEF Everything, Asset, Assets, Names
-----------------------------------------------------------------------------
(* Steps. *)

(* A run that goes on leaves the others where they are; without a race,    *)
(* none of them is past the check if this one is.                          *)
LEMMA GoesKeepsOne ==
  ASSUME IInv, NEW r \in Runs, NEW to \in Pcs, Goes(r, to)
  PROVE  /\ pc' = [pc EXCEPT ![r] = to] /\ pc' \in [Runs -> Pcs]
         /\ raced' \in BOOLEAN
         /\ ~raced' => /\ ~raced /\ OneIsPast'
                       /\ to \in Past => \A q \in Runs \ {r} : pc[q] \notin Past
<1>1. pc \in [Runs -> Pcs] /\ raced \in BOOLEAN
  BY DEF IInv, TypeOK
<1>2. pc' = [pc EXCEPT ![r] = to] /\ pc' \in [Runs -> Pcs] /\ raced' \in BOOLEAN
  BY <1>1 DEF Goes
<1>3. ASSUME ~raced' PROVE ~raced /\ (to \in Past => \A q \in Runs \ {r} : pc[q] \notin Past)
  BY <1>3 DEF Goes
<1>4. ASSUME ~raced' PROVE OneIsPast'
  <2>1. OneIsPast
    BY <1>3, <1>4 DEF IInv, Sure
  <2> QED
    BY <1>1, <1>2, <1>3, <1>4, <2>1 DEF OneIsPast
<1> QED
  BY <1>2, <1>3, <1>4

LEMMA OwnIsMaker ==
  ASSUME IInv, NEW r \in Runs
  PROVE  /\ Own(r) \in Makers
         /\ attempt'[r] = attempt[r] => Own(r)' = Own(r)
         /\ \A q \in Runs : Own(q) = Own(r) => q = r
BY DEF IInv, TypeOK, Own, Makers

(* A release that is left alone stays as sure as it was.                   *)
LEMMA PublicStaysSure ==
  ASSUME NEW m \in Makers, PublicIsSure(m), release'[m] = release[m],
         tag' = tag, moved => moved', mistaken => mistaken'
  PROVE  PublicIsSure(m)'
BY DEF PublicIsSure, Public, Everything, Asset

(* So does a run, as long as no other makes a release.                     *)
LEMMA RunStaysSure ==
  ASSUME IInv, NEW q \in Runs, RunIsSure(q),
         pc'[q] = pc[q], start'[q] = start[q], gate'[q] = gate[q], out'[q] = out[q],
         attempt'[q] = attempt[q], tag' = tag, moved => moved', mistaken => mistaken',
         pc[q] \in Past => /\ release'[Own(q)] = release[Own(q)]
                          /\ \A m \in Makers : release'[m] = release[m] \/ release'[m] = None
  PROVE  RunIsSure(q)'
<1>1. Own(q)' = Own(q)
  BY OwnIsMaker
<1> QED
  BY <1>1 DEF RunIsSure, Everything, Asset

(* A step of a run that leaves the tag alone, and all releases but perhaps *)
(* a draft of its own: it is enough to show what it makes sure of for      *)
(* itself, knowing that no other run is past the check.                    *)
LEMMA StepKeeps ==
  ASSUME IInv, NEW r \in Runs, NEW to \in Pcs, Goes(r, to), TypeOK',
         \A q \in Runs \ {r} : /\ start'[q] = start[q] /\ gate'[q] = gate[q]
                               /\ out'[q] = out[q] /\ attempt'[q] = attempt[q],
         \A m \in Makers : \/ release'[m] = release[m]
                           \/ /\ pc[r] \in Past
                              /\ ~raced /\ ~overlooked => release'[m].draft,
         tag' = tag, moved' = moved, overlooked => overlooked', mistaken => mistaken',
         ~raced /\ ~overlooked' /\ RunIsSure(r) => RunIsSure(r)'
  PROVE  IInv'
<1>1. ~raced' => OneIsPast'
  BY GoesKeepsOne
<1>2. ASSUME ~raced', ~overlooked'
      PROVE  (\A q \in Runs : RunIsSure(q)') /\ (\A m \in Makers : PublicIsSure(m)')
  <2>1. /\ pc' = [pc EXCEPT ![r] = to] /\ pc \in [Runs -> Pcs]
        /\ ~raced /\ OneIsPast'
    BY <1>2, GoesKeepsOne DEF IInv, TypeOK
  <2>2. /\ OneIsPast /\ \A q \in Runs : RunIsSure(q)
        /\ \A m \in Makers : PublicIsSure(m)
    BY <1>2, <2>1 DEF IInv, Sure
  <2>3. ASSUME NEW q \in Runs \ {r} PROVE RunIsSure(q)'
    <3>1. pc'[q] = pc[q]
      BY <2>1, <2>3
    <3>2. ASSUME pc[q] \in Past PROVE \A m \in Makers : release'[m] = release[m]
      BY <2>2, <2>3, <3>2 DEF OneIsPast
    <3>3. Own(q) \in Makers
      BY OwnIsMaker
    <3> QED
      BY <2>2, <2>3, <3>1, <3>2, <3>3, RunStaysSure
  <2>4. RunIsSure(r)'
    BY <1>2, <2>1, <2>2
  <2>5. ASSUME NEW m \in Makers PROVE PublicIsSure(m)'
    <3>1. CASE release'[m] = release[m]
      BY <2>2, <3>1, PublicStaysSure
    <3>2. CASE release'[m].draft
      BY <3>2 DEF PublicIsSure, Public
    <3> QED
      BY <1>2, <2>1, <3>1, <3>2
  <2> QED
    BY <2>3, <2>4, <2>5
<1> QED
  BY <1>1, <1>2 DEF IInv, Sure
-----------------------------------------------------------------------------
(* One lemma for each action. *)

LEMMA PushTagKeeps ==
  ASSUME IInv, NEW r \in Runs, NEW commit \in Commits, PushTag(r, commit) PROVE IInv'
<1>1. /\ Goes(r, "jobs") /\ pc[r] = "idle"
      /\ tag = None /\ tag' = commit
      /\ UNCHANGED <<gate, built, out, release, attempt, overlooked, mistaken>>
      /\ start' = [start EXCEPT ![r] = [commit |-> commit, ref |-> "tag"]]
      /\ moved' = (moved \/ \E q \in Runs : pc[q] \in Past)
  BY DEF PushTag
<1>2. "jobs" \in Pcs /\ "jobs" \notin Past
  BY DEF Pcs, Past
<1>3. /\ pc' = [pc EXCEPT ![r] = "jobs"] /\ pc' \in [Runs -> Pcs] /\ pc \in [Runs -> Pcs]
      /\ raced' \in BOOLEAN /\ (~raced' => ~raced /\ OneIsPast')
  BY <1>1, <1>2, GoesKeepsOne DEF IInv, TypeOK
<1>4. TypeOK'
  BY <1>1, <1>3 DEF IInv, TypeOK, Starts, Refs, Own
<1>5. ASSUME ~raced', ~overlooked, NEW q \in Runs PROVE RunIsSure(q)'
  <2>1. RunIsSure(q)
    BY <1>3, <1>5 DEF IInv, Sure
  <2>2. pc'[q] = IF q = r THEN "jobs" ELSE pc[q]
    BY <1>3
  <2>3. q # r => start'[q] = start[q]
    BY <1>1 DEF IInv, TypeOK
  <2>4. Own(q)' = Own(q)
    BY <1>1 DEF Own
  <2> QED
    BY <1>1, <1>2, <2>1, <2>2, <2>3, <2>4 DEF RunIsSure, Everything, Asset
<1>6. ASSUME ~raced', ~overlooked, NEW m \in Makers PROVE PublicIsSure(m)'
  <2>1. PublicIsSure(m)
    BY <1>3, <1>6 DEF IInv, Sure
  <2>2. ASSUME m \in Public PROVE moved \/ mistaken
    <3>1. release[m] \in Releases
      BY <2>2 DEF Public, IInv, TypeOK
    <3>2. release[m].commit # None
      BY <3>1, ReleaseAssumption DEF Releases
    <3> QED
      BY <1>1, <2>1, <2>2, <3>2 DEF PublicIsSure
  <2> QED
    BY <1>1, <2>1, <2>2 DEF PublicIsSure, Public, Everything, Asset
<1> QED
  BY <1>1, <1>3, <1>4, <1>5, <1>6 DEF IInv, Sure

LEMMA DispatchKeeps ==
  ASSUME IInv, NEW r \in Runs, NEW commit \in Commits, Dispatch(r, commit) PROVE IInv'
<1>1. /\ Goes(r, "jobs") /\ "jobs" \in Pcs /\ pc[r] = "idle"
      /\ UNCHANGED <<gate, built, out, release, tag, attempt, moved, overlooked, mistaken>>
      /\ start' = [start EXCEPT ![r] = [commit |-> commit, ref |-> "branch"]]
  BY DEF Dispatch, seen, Pcs
<1>2. /\ pc' = [pc EXCEPT ![r] = "jobs"] /\ pc' \in [Runs -> Pcs] /\ raced' \in BOOLEAN
      /\ pc \in [Runs -> Pcs] /\ start \in [Runs -> Starts \union {None}]
  BY <1>1, GoesKeepsOne DEF IInv, TypeOK
<1>3. TypeOK'
  BY <1>1, <1>2 DEF IInv, TypeOK, Starts, Refs, Own
<1>4. ASSUME RunIsSure(r) PROVE RunIsSure(r)'
  BY <1>1, <1>2, <1>4 DEF RunIsSure, Past
<1> QED
  BY <1>1, <1>2, <1>3, <1>4, StepKeeps

LEMMA JobsPassKeeps ==
  ASSUME IInv, NEW r \in Runs, NEW archives \in Builds, JobsPass(r, archives) PROVE IInv'
<1>1. /\ Goes(r, "check") /\ "check" \in Pcs /\ pc[r] = "jobs"
      /\ UNCHANGED <<start, out, release, tag, attempt, moved, overlooked, mistaken>>
      /\ gate' = [gate EXCEPT ![r] = GateList(start[r].commit)]
      /\ built' = [built EXCEPT ![r] = archives]
  BY DEF JobsPass, seen, Pcs
<1>2. /\ pc' = [pc EXCEPT ![r] = "check"] /\ pc' \in [Runs -> Pcs] /\ raced' \in BOOLEAN
      /\ pc \in [Runs -> Pcs]
  BY <1>1, GoesKeepsOne DEF IInv, TypeOK
<1>3. archives \in SUBSET Archives
  BY ReleaseAssumption DEF Archives
<1>4. TypeOK'
  BY <1>1, <1>2, <1>3 DEF IInv, TypeOK, GateList, Own
<1>5. ASSUME RunIsSure(r) PROVE RunIsSure(r)'
  BY <1>1, <1>2, <1>5 DEF RunIsSure, Past
<1>6. \A q \in Runs \ {r} : gate'[q] = gate[q]
  BY <1>1 DEF IInv, TypeOK
<1> QED
  BY <1>1, <1>2, <1>4, <1>5, <1>6, StepKeeps

LEMMA JobsFailKeeps == ASSUME IInv, NEW r \in Runs, JobsFail(r) PROVE IInv'
<1>1. /\ Goes(r, "failed") /\ "failed" \in Pcs /\ pc[r] = "jobs"
      /\ UNCHANGED <<start, built, out, release, tag, attempt, moved, overlooked, mistaken>>
      /\ gate' = [gate EXCEPT ![r] = None]
  BY DEF JobsFail, seen, Pcs
<1>2. /\ pc' = [pc EXCEPT ![r] = "failed"] /\ pc' \in [Runs -> Pcs] /\ raced' \in BOOLEAN
      /\ pc \in [Runs -> Pcs]
  BY <1>1, GoesKeepsOne DEF IInv, TypeOK
<1>3. TypeOK'
  BY <1>1, <1>2 DEF IInv, TypeOK, Own
<1>4. ASSUME RunIsSure(r) PROVE RunIsSure(r)'
  BY <1>1, <1>2, <1>4 DEF RunIsSure, Past
<1>5. \A q \in Runs \ {r} : gate'[q] = gate[q]
  BY <1>1 DEF IInv, TypeOK
<1> QED
  BY <1>1, <1>2, <1>3, <1>4, <1>5, StepKeeps

LEMMA RerunKeeps ==
  ASSUME IInv, NEW r \in Runs, NEW from \in {"jobs", "check"}, Rerun(r, from) PROVE IInv'
<1>1. /\ Goes(r, from) /\ from \in Pcs /\ from \notin Past /\ pc[r] = "failed"
      /\ UNCHANGED <<start, gate, built, release, tag, moved, overlooked, mistaken>>
      /\ attempt[r] < MaxAttempts /\ attempt' = [attempt EXCEPT ![r] = @ + 1]
      /\ out' = [out EXCEPT ![r] = {}]
  BY DEF Rerun, seen, Pcs, Past
<1>2. /\ pc' = [pc EXCEPT ![r] = from] /\ pc' \in [Runs -> Pcs] /\ raced' \in BOOLEAN
      /\ pc \in [Runs -> Pcs] /\ attempt \in [Runs -> 1..MaxAttempts]
  BY <1>1, GoesKeepsOne DEF IInv, TypeOK
<1>3. attempt' \in [Runs -> 1..MaxAttempts] /\ \A q \in Runs \ {r} : attempt'[q] = attempt[q]
  BY <1>1, <1>2, ReleaseAssumption
<1>4. /\ \A q \in Runs : pc'[q] # "idle" => start'[q] \in Starts
      /\ \A q \in Runs : pc'[q] = "upload" => release'[Own(q)'] \in Releases
  <2>1. ASSUME NEW q \in Runs, pc'[q] = "upload" PROVE pc[q] = "upload" /\ Own(q)' = Own(q)
    BY <1>1, <1>2, <1>3, <2>1 DEF Own, Past
  <2> QED
    BY <1>1, <1>2, <2>1 DEF IInv, TypeOK
<1>5. TypeOK'
  BY <1>1, <1>2, <1>3, <1>4 DEF IInv, TypeOK, Own
<1>6. RunIsSure(r)'
  BY <1>1, <1>2 DEF RunIsSure
<1>7. \A q \in Runs \ {r} : out'[q] = out[q]
  BY <1>1 DEF IInv, TypeOK
<1> QED
  BY <1>1, <1>2, <1>3, <1>5, <1>6, <1>7, StepKeeps

LEMMA CancelKeeps == ASSUME IInv, NEW r \in Runs, Cancel(r) PROVE IInv'
<1>1. /\ Goes(r, "failed") /\ "failed" \in Pcs /\ pc[r] \notin {"idle", "failed", "done"}
      /\ UNCHANGED <<start, gate, built, out, release, tag, attempt, moved, overlooked, mistaken>>
  BY DEF Cancel, seen, Pcs, Ended
<1>2. /\ pc' = [pc EXCEPT ![r] = "failed"] /\ pc' \in [Runs -> Pcs] /\ raced' \in BOOLEAN
      /\ pc \in [Runs -> Pcs]
  BY <1>1, GoesKeepsOne DEF IInv, TypeOK
<1>3. TypeOK'
  BY <1>1, <1>2 DEF IInv, TypeOK, Own
<1>4. ASSUME RunIsSure(r) PROVE RunIsSure(r)'
  BY <1>1, <1>2, <1>4 DEF RunIsSure, Past
<1> QED
  BY <1>1, <1>2, <1>3, <1>4, StepKeeps

(* No release is found by the tag: there is none. *)
LEMMA NothingFound ==
  ASSUME FoundByTag = {} PROVE \A m \in Makers : release[m] = None
BY DEF FoundByTag

LEMMA CheckTagKeeps ==
  ASSUME IInv, NEW r \in Runs, NEW viewed \in BOOLEAN, NEW looked \in BOOLEAN,
         CheckTag(r, viewed, looked)
  PROVE  IInv'
<1> DEFINE passes == TagIsFree(start[r].commit, viewed, looked)
           to == IF passes THEN "facts" ELSE "failed"
<1>1. /\ Goes(r, to) /\ to \in Pcs /\ pc[r] = "check"
      /\ UNCHANGED <<start, gate, built, out, release, tag, attempt, moved>>
      /\ overlooked' = (overlooked \/ (passes /\ ~viewed /\ FoundByTag # {}))
      /\ mistaken' = (mistaken \/ (passes /\ ~looked /\ tag \notin {None, start[r].commit}))
  BY DEF CheckTag, Pcs, Past
<1>2. /\ pc' = [pc EXCEPT ![r] = to] /\ pc' \in [Runs -> Pcs] /\ raced' \in BOOLEAN
      /\ pc \in [Runs -> Pcs] /\ overlooked' \in BOOLEAN /\ mistaken' \in BOOLEAN
      /\ Own(r) \in Makers /\ Own(r)' = Own(r)
  BY <1>1, GoesKeepsOne, OwnIsMaker DEF IInv, TypeOK
<1>3. TypeOK'
  BY <1>1, <1>2 DEF IInv, TypeOK, Own
<1>4. ASSUME ~overlooked' PROVE RunIsSure(r)'
  <2>1. CASE passes
    <3>1. FoundByTag = {}
      BY <1>1, <1>4, <2>1 DEF TagIsFree
    <3>2. \A m \in Makers : release[m] = None
      BY <3>1, NothingFound
    <3>3. ~mistaken' => tag \in {None, start[r].commit}
      BY <1>1, <2>1 DEF TagIsFree
    <3>4. pc'[r] = "facts"
      BY <1>2, <2>1
    <3> QED
      BY <1>1, <1>2, <3>2, <3>3, <3>4 DEF RunIsSure
  <2>2. CASE ~passes
    <3>1. pc'[r] = "failed"
      BY <1>2, <2>2
    <3> QED
      BY <3>1 DEF RunIsSure, Past
  <2> QED
    BY <2>1, <2>2
<1> HIDE DEF to, passes
<1>5. (overlooked => overlooked') /\ (mistaken => mistaken')
  BY <1>1
<1> QED
  BY <1>1, <1>2, <1>3, <1>4, <1>5, StepKeeps

LEMMA CheckFactsKeeps == ASSUME IInv, NEW r \in Runs, CheckFacts(r) PROVE IInv'
<1> DEFINE to == IF FactsHold(r) THEN "assemble" ELSE "failed"
<1>1. /\ Goes(r, to) /\ to \in Pcs /\ pc[r] = "facts"
      /\ UNCHANGED <<start, gate, built, out, release, tag, attempt, moved, overlooked, mistaken>>
  BY DEF CheckFacts, seen, Pcs, Past
<1>2. /\ pc' = [pc EXCEPT ![r] = to] /\ pc' \in [Runs -> Pcs] /\ raced' \in BOOLEAN
      /\ pc \in [Runs -> Pcs]
  BY <1>1, GoesKeepsOne DEF IInv, TypeOK
<1>3. TypeOK'
  BY <1>1, <1>2 DEF IInv, TypeOK, Own
<1>4. ASSUME RunIsSure(r) PROVE RunIsSure(r)'
  BY <1>1, <1>2, <1>4 DEF RunIsSure, Own, Past, FactsHold
<1> QED
  BY <1>1, <1>2, <1>3, <1>4, StepKeeps

LEMMA AssembleKeeps == ASSUME IInv, NEW r \in Runs, Assemble(r) PROVE IInv'
<1> DEFINE assets == Manifest(built[r], start[r].commit)
           to == IF assets = None THEN "failed" ELSE "create"
<1>1. /\ Goes(r, to) /\ to \in Pcs /\ pc[r] = "assemble"
      /\ UNCHANGED <<start, gate, built, release, tag, attempt, moved, overlooked, mistaken>>
      /\ out' = [out EXCEPT ![r] = IF assets = None THEN {} ELSE assets]
  BY DEF Assemble, seen, Pcs, Past
<1>2. /\ pc' = [pc EXCEPT ![r] = to] /\ pc' \in [Runs -> Pcs] /\ raced' \in BOOLEAN
      /\ pc \in [Runs -> Pcs] /\ out \in [Runs -> SUBSET Assets]
  BY <1>1, GoesKeepsOne DEF IInv, TypeOK
<1>3. built[r] \in SUBSET Archives /\ start[r].commit \in Commits
  BY <1>1 DEF IInv, TypeOK, Starts
<1>4. assets # None => assets = Everything(start[r].commit) /\ assets \in SUBSET Assets
  BY <1>3, ManifestIsEverything, EverythingIsAssets
<1> HIDE DEF assets
<1>5. TypeOK'
  BY <1>1, <1>2, <1>4 DEF IInv, TypeOK, Own
<1>6. ASSUME RunIsSure(r) PROVE RunIsSure(r)'
  BY <1>1, <1>2, <1>4, <1>6 DEF RunIsSure, Own, Past, Everything, Asset
<1>7. \A q \in Runs \ {r} : out'[q] = out[q]
  BY <1>1, <1>2
<1> QED
  BY <1>1, <1>2, <1>5, <1>6, <1>7, StepKeeps

LEMMA CreateDraftKeeps == ASSUME IInv, NEW r \in Runs, CreateDraft(r) PROVE IInv'
<1> DEFINE draft == [draft |-> TRUE, assets |-> {}, commit |-> start[r].commit, gate |-> gate[r]]
<1>1. /\ Goes(r, "upload") /\ "upload" \in Pcs /\ pc[r] = "create" /\ pc[r] \in Past
      /\ UNCHANGED <<start, gate, built, out, tag, attempt, moved, overlooked, mistaken>>
      /\ release' = [release EXCEPT ![Own(r)] = draft]
  BY DEF CreateDraft, seen, Pcs, Past
<1>2. /\ pc' = [pc EXCEPT ![r] = "upload"] /\ pc' \in [Runs -> Pcs] /\ raced' \in BOOLEAN
      /\ pc \in [Runs -> Pcs] /\ release \in [Makers -> Releases \union {None}]
      /\ Own(r) \in Makers
  BY <1>1, GoesKeepsOne, OwnIsMaker DEF IInv, TypeOK
<1>3. draft \in Releases
  BY <1>1 DEF IInv, TypeOK, Starts, Releases
<1>4. /\ release'[Own(r)] = draft
      /\ \A m \in Makers \ {Own(r)} : release'[m] = release[m]
  BY <1>1, <1>2
<1>5. \A q \in Runs : Own(q)' = Own(q)
  BY <1>1 DEF Own
<1>6. /\ \A q \in Runs : pc'[q] # "idle" => start'[q] \in Starts
      /\ \A q \in Runs : pc'[q] = "upload" => release'[Own(q)'] \in Releases
  BY <1>1, <1>2, <1>3, <1>4, <1>5, OwnIsMaker DEF IInv, TypeOK
<1>7. TypeOK'
  BY <1>1, <1>2, <1>3, <1>6 DEF IInv, TypeOK
<1>8. ASSUME RunIsSure(r) PROVE RunIsSure(r)'
  <2>1. /\ gate[r] = Fifteen /\ out[r] = Everything(start[r].commit)
        /\ \A m \in Makers \ {Own(r)} : release[m] = None
        /\ ~moved /\ ~mistaken => tag \in {None, start[r].commit}
    BY <1>1, <1>8 DEF RunIsSure
  <2>2. pc'[r] = "upload"
    BY <1>2
  <2> QED
    BY <1>1, <1>3, <1>4, <1>5, <2>1, <2>2 DEF RunIsSure, Everything, Asset
<1> QED
  BY <1>1, <1>2, <1>3, <1>4, <1>7, <1>8, StepKeeps

LEMMA UploadKeeps ==
  ASSUME IInv, NEW r \in Runs, NEW arrived \in SUBSET out[r], NEW to \in {"count", "failed"},
         Upload(r, arrived, to)
  PROVE  IInv'
<1>1. /\ Goes(r, to) /\ to \in Pcs /\ pc[r] = "upload" /\ pc[r] \in Past
      /\ UNCHANGED <<start, gate, built, out, tag, attempt, moved, overlooked, mistaken>>
      /\ release' = [release EXCEPT ![Own(r)].assets = arrived]
  BY DEF Upload, seen, Pcs, Past
<1>2. /\ pc' = [pc EXCEPT ![r] = to] /\ pc' \in [Runs -> Pcs] /\ raced' \in BOOLEAN
      /\ pc \in [Runs -> Pcs] /\ release \in [Makers -> Releases \union {None}]
      /\ out[r] \in SUBSET Assets /\ Own(r) \in Makers /\ release[Own(r)] \in Releases
  BY <1>1, GoesKeepsOne, OwnIsMaker DEF IInv, TypeOK
<1>3. /\ release'[Own(r)] = [release[Own(r)] EXCEPT !.assets = arrived]
      /\ \A m \in Makers \ {Own(r)} : release'[m] = release[m]
  BY <1>1, <1>2
<1>4. /\ release'[Own(r)] \in Releases
      /\ release'[Own(r)].assets = arrived
      /\ release'[Own(r)].draft = release[Own(r)].draft
      /\ release'[Own(r)].commit = release[Own(r)].commit
      /\ release'[Own(r)].gate = release[Own(r)].gate
  BY <1>2, <1>3 DEF Releases
<1>5. \A q \in Runs : Own(q)' = Own(q)
  BY <1>1 DEF Own
<1>6. /\ \A q \in Runs : pc'[q] # "idle" => start'[q] \in Starts
      /\ \A q \in Runs : pc'[q] = "upload" => release'[Own(q)'] \in Releases
  BY <1>1, <1>2, <1>3, <1>4, <1>5, OwnIsMaker DEF IInv, TypeOK
<1>7. TypeOK'
  BY <1>1, <1>2, <1>3, <1>4, <1>6 DEF IInv, TypeOK
<1>8. ASSUME RunIsSure(r) PROVE RunIsSure(r)'
  BY <1>1, <1>2, <1>3, <1>4, <1>5, <1>8 DEF RunIsSure, Past, Everything, Asset
<1>9. ASSUME ~raced, ~overlooked PROVE release[Own(r)].draft
  BY <1>1, <1>9 DEF RunIsSure, IInv, Sure
<1> QED
  BY <1>1, <1>2, <1>3, <1>4, <1>7, <1>8, <1>9, StepKeeps

(* What the tag finds, while a run is past the check: its own draft. *)
LEMMA FindsItsOwn ==
  ASSUME IInv, ~raced, ~overlooked, NEW r \in Runs, pc[r] \in Past, NEW found \in FoundByTag
  PROVE  found = Own(r)
<1>1. found \in Makers /\ release[found] # None
  BY DEF FoundByTag
<1>2. RunIsSure(r)
  BY DEF IInv, Sure
<1> QED
  BY <1>1, <1>2 DEF RunIsSure

LEMMA CountAssetsKeeps ==
  ASSUME IInv, NEW r \in Runs, NEW found \in Makers, CountAssets(r, found) PROVE IInv'
<1> DEFINE to == IF CountAgrees(release[found].assets, out[r]) THEN "publish" ELSE "failed"
<1>1. /\ Goes(r, to) /\ to \in Pcs /\ pc[r] = "count" /\ pc[r] \in Past /\ found \in FoundByTag
      /\ UNCHANGED <<start, gate, built, out, release, tag, attempt, moved, overlooked, mistaken>>
  BY DEF CountAssets, seen, Pcs, Past
<1>2. /\ pc' = [pc EXCEPT ![r] = to] /\ pc' \in [Runs -> Pcs] /\ raced' \in BOOLEAN
      /\ pc \in [Runs -> Pcs]
  BY <1>1, GoesKeepsOne DEF IInv, TypeOK
<1>3. TypeOK'
  BY <1>1, <1>2 DEF IInv, TypeOK, Own
<1>4. ASSUME ~raced, ~overlooked', RunIsSure(r) PROVE RunIsSure(r)'
  <2>1. found = Own(r)
    BY <1>1, <1>4, FindsItsOwn
  <2>2. /\ out[r] = Everything(start[r].commit) /\ release[Own(r)].assets \subseteq out[r]
    BY <1>1, <1>4 DEF RunIsSure
  <2>3. CountAgrees(release[Own(r)].assets, out[r]) => release[Own(r)].assets = out[r]
    BY <2>2, CountIsEnough
  <2> HIDE DEF to
  <2>4. (to = "publish" /\ release[Own(r)].assets = out[r]) \/ to = "failed"
    BY <2>1, <2>3 DEF to
  <2>5. Own(r)' = Own(r)
    BY <1>1 DEF Own
  <2> QED
    BY <1>1, <1>2, <1>4, <2>4, <2>5 DEF RunIsSure, Past, Everything, Asset
<1> HIDE DEF to
<1> QED
  BY <1>1, <1>2, <1>3, <1>4, StepKeeps

LEMMA PublishDraftKeeps ==
  ASSUME IInv, NEW r \in Runs, NEW found \in Makers, NEW to \in {"done", "failed"},
         PublishDraft(r, found, to)
  PROVE  IInv'
<1>1. /\ Goes(r, to) /\ to \in Pcs /\ to \notin Past
      /\ pc[r] = "publish" /\ pc[r] \in Past /\ found \in FoundByTag
      /\ UNCHANGED <<start, gate, built, out, attempt, moved, overlooked, mistaken>>
      /\ release' = [release EXCEPT ![found].draft = FALSE]
      /\ tag' = IF tag = None THEN release[found].commit ELSE tag
  BY DEF PublishDraft, seen, Pcs, Past
<1>2. /\ pc' = [pc EXCEPT ![r] = to] /\ pc' \in [Runs -> Pcs] /\ raced' \in BOOLEAN
      /\ pc \in [Runs -> Pcs] /\ release \in [Makers -> Releases \union {None}]
      /\ (~raced' => ~raced /\ OneIsPast')
  BY <1>1, GoesKeepsOne DEF IInv, TypeOK
<1>3. release[found] \in Releases
  BY <1>1, <1>2 DEF FoundByTag
<1>4. /\ release'[found] = [release[found] EXCEPT !.draft = FALSE]
      /\ \A m \in Makers \ {found} : release'[m] = release[m]
  BY <1>1, <1>2
<1>5. /\ release'[found] \in Releases /\ release'[found].assets = release[found].assets
      /\ release'[found].gate = release[found].gate
      /\ release'[found].commit = release[found].commit /\ release[found].commit \in Commits
  BY <1>3, <1>4 DEF Releases
<1>6. /\ \A q \in Runs : pc'[q] # "idle" => start'[q] \in Starts
      /\ \A q \in Runs : pc'[q] = "upload" => release'[Own(q)'] \in Releases
  <2>1. ASSUME NEW q \in Runs, pc'[q] = "upload" PROVE pc[q] = "upload" /\ Own(q)' = Own(q)
    BY <1>1, <1>2, <2>1 DEF Own, Past
  <2> QED
    BY <1>1, <1>2, <1>4, <1>5, <2>1, OwnIsMaker DEF IInv, TypeOK
<1>7. TypeOK'
  BY <1>1, <1>2, <1>4, <1>5, <1>6 DEF IInv, TypeOK
<1>8. ASSUME ~raced', ~overlooked, NEW q \in Runs PROVE RunIsSure(q)'
  <2>1. pc'[q] \notin Past
    BY <1>1, <1>2, <1>8 DEF OneIsPast, IInv, Sure
  <2> QED
    BY <2>1 DEF RunIsSure
<1>9. ASSUME ~raced', ~overlooked, NEW m \in Makers PROVE PublicIsSure(m)'
  <2>1. RunIsSure(r)
    BY <1>2, <1>9 DEF IInv, Sure
  <2>2. found = Own(r)
    BY <1>1, <1>2, <1>9, FindsItsOwn
  <2>3. m # found => release'[m] = None
    BY <1>1, <1>4, <2>1, <2>2 DEF RunIsSure
  <2>4. /\ release[found].gate = Fifteen
        /\ release[found].assets = Everything(release[found].commit)
        /\ ~moved /\ ~mistaken => tag \in {None, release[found].commit}
    BY <1>1, <2>1, <2>2 DEF RunIsSure
  <2>5. PublicIsSure(found)'
    BY <1>1, <1>5, <2>4 DEF PublicIsSure, Everything, Asset
  <2>6. m # found => m \notin Public'
    BY <2>3 DEF Public
  <2> QED
    BY <2>5, <2>6 DEF PublicIsSure
<1> QED
  BY <1>1, <1>2, <1>7, <1>8, <1>9 DEF IInv, Sure

LEMMA DeleteDraftKeeps == ASSUME IInv, NEW m \in Makers, DeleteDraft(m) PROVE IInv'
<1>1. /\ \A r \in Runs : m = Own(r) => pc[r] \notin Past
      /\ UNCHANGED <<pc, start, gate, built, out, tag, attempt, raced, moved, overlooked, mistaken>>
      /\ release' = [release EXCEPT ![m] = None]
  BY DEF DeleteDraft, seen
<1>2. release'[m] = None /\ \A n \in Makers \ {m} : release'[n] = release[n]
  BY <1>1 DEF IInv, TypeOK
<1>3. \A q \in Runs : pc'[q] = "upload" => release'[Own(q)'] \in Releases
  BY <1>1, <1>2, OwnIsMaker DEF IInv, TypeOK, Past
<1>4. TypeOK'
  BY <1>1, <1>2, <1>3 DEF IInv, TypeOK
<1>5. ASSUME ~raced, ~overlooked, NEW q \in Runs PROVE RunIsSure(q)'
  <2>1. RunIsSure(q)
    BY <1>5 DEF IInv, Sure
  <2>2. pc[q] \in Past => release'[Own(q)] = release[Own(q)]
    BY <1>1, <1>2, OwnIsMaker
  <2> QED
    BY <1>1, <1>2, <2>1, <2>2, RunStaysSure
<1>6. ASSUME ~raced, ~overlooked, NEW n \in Makers PROVE PublicIsSure(n)'
  <2>1. PublicIsSure(n)
    BY <1>6 DEF IInv, Sure
  <2>2. CASE n = m
    BY <1>2, <2>2 DEF PublicIsSure, Public
  <2>3. CASE n # m
    BY <1>1, <1>2, <2>1, <2>3, PublicStaysSure
  <2> QED
    BY <2>2, <2>3
<1>7. OneIsPast' <=> OneIsPast
  BY <1>1 DEF OneIsPast
<1> QED
  BY <1>1, <1>4, <1>5, <1>6, <1>7 DEF IInv, Sure
-----------------------------------------------------------------------------
LEMMA InitIInv == Init => IInv
<1> SUFFICES ASSUME Init PROVE IInv
  OBVIOUS
<1>1. TypeOK
  <2>1. 1 \in 1..MaxAttempts
    BY ReleaseAssumption
  <2> QED
    BY <2>1 DEF Init, TypeOK, Pcs, Past
<1>2. OneIsPast
  BY DEF Init, OneIsPast, Past
<1>3. ASSUME NEW r \in Runs PROVE RunIsSure(r)
  BY <1>3 DEF Init, RunIsSure, Past
<1>4. ASSUME NEW m \in Makers PROVE PublicIsSure(m)
  BY <1>4 DEF Init, PublicIsSure, Public
<1> QED
  BY <1>1, <1>2, <1>3, <1>4 DEF IInv, Sure

LEMMA NextKeeps == ASSUME IInv, [Next]_vars PROVE IInv'
<1>1. ASSUME NEW r \in Runs, NEW c \in Commits, PushTag(r, c) \/ Dispatch(r, c) PROVE IInv'
  BY <1>1, PushTagKeeps, DispatchKeeps
<1>2. ASSUME NEW r \in Runs, NEW archives \in Builds, JobsPass(r, archives) PROVE IInv'
  BY <1>2, JobsPassKeeps
<1>3. ASSUME NEW r \in Runs, NEW from \in {"jobs", "check"}, Rerun(r, from) PROVE IInv'
  BY <1>3, RerunKeeps
<1>4. ASSUME NEW r \in Runs, NEW viewed \in BOOLEAN, NEW looked \in BOOLEAN,
             CheckTag(r, viewed, looked)
      PROVE  IInv'
  BY <1>4, CheckTagKeeps
<1>5. ASSUME NEW r \in Runs,
             JobsFail(r) \/ Cancel(r) \/ CheckFacts(r) \/ Assemble(r) \/ CreateDraft(r)
      PROVE  IInv'
  BY <1>5, JobsFailKeeps, CancelKeeps, CheckFactsKeeps, AssembleKeeps, CreateDraftKeeps
<1>6. ASSUME NEW r \in Runs, NEW arrived \in SUBSET out[r], NEW to \in {"count", "failed"},
             Upload(r, arrived, to)
      PROVE  IInv'
  BY <1>6, UploadKeeps
<1>7. ASSUME NEW r \in Runs, NEW found \in Makers, CountAssets(r, found) PROVE IInv'
  BY <1>7, CountAssetsKeeps
<1>8. ASSUME NEW r \in Runs, NEW found \in Makers, NEW to \in {"done", "failed"},
             PublishDraft(r, found, to)
      PROVE  IInv'
  BY <1>8, PublishDraftKeeps
<1>9. ASSUME NEW m \in Makers, DeleteDraft(m) PROVE IInv'
  BY <1>9, DeleteDraftKeeps
<1>10. CASE UNCHANGED vars
  <2>1. UNCHANGED <<pc, start, gate, built, out, release, tag, attempt, raced, moved,
                    overlooked, mistaken>>
    BY <1>10 DEF vars, seen
  <2>2. TypeOK'
    BY <2>1 DEF IInv, TypeOK, Own
  <2>3. OneIsPast' <=> OneIsPast
    BY <2>1 DEF OneIsPast
  <2>4. ASSUME ~raced, ~overlooked, NEW q \in Runs PROVE RunIsSure(q)'
    BY <2>1, <2>4, RunStaysSure, OwnIsMaker DEF IInv, Sure
  <2>5. ASSUME ~raced, ~overlooked, NEW m \in Makers PROVE PublicIsSure(m)'
    BY <2>1, <2>5, PublicStaysSure DEF IInv, Sure
  <2> QED
    BY <2>1, <2>2, <2>3, <2>4, <2>5 DEF IInv, Sure
<1> QED
  BY <1>1, <1>2, <1>3, <1>4, <1>5, <1>6, <1>7, <1>8, <1>9, <1>10 DEF Next

(* The inductive invariant: what a run past the check of the tag is sure   *)
(* of while no other is and no release was overlooked, and what that       *)
(* leaves true of a public release.                                        *)
THEOREM IInvCorrect == Spec => []IInv
<1>1. Init => IInv
  BY InitIInv
<1>2. IInv /\ [Next]_vars => IInv'
  BY NextKeeps
<1> QED
  BY <1>1, <1>2, PTL DEF Spec

(* A public release holds an archive of every host, the patches and the    *)
(* sums, all of the commit its note names, and that commit passed the      *)
(* fifteen stages (release.yml's publish job and release_manifest.py),     *)
(* unless two runs were past the check of the tag at once, or a call that  *)
(* failed hid a release from that check (release.yml:149).  A lookup of    *)
(* the tag that fails is no exception.                                     *)
THEOREM PublicAlwaysWholeAndGated == Spec => []PublicIsWholeAndGated
<1>1. IInv => PublicIsWholeAndGated
  <2> SUFFICES ASSUME IInv, ~raced, ~overlooked, NEW m \in Public
               PROVE  /\ release[m].assets = Everything(release[m].commit)
                      /\ release[m].gate = Fifteen
    BY DEF PublicIsWholeAndGated
  <2>1. m \in Makers
    BY DEF Public
  <2> QED
    BY <2>1 DEF IInv, Sure, PublicIsSure
<1> QED
  BY <1>1, IInvCorrect, PTL

(* The tag of a public release is the commit its note names, unless the    *)
(* tag was pushed behind a run's check of it, two runs raced, or a call    *)
(* that failed hid the tag or a release from the check                     *)
(* (release.yml:149 and 154).                                              *)
THEOREM NoteAlwaysNamesTheTag == Spec => []NoteNamesTheTag
<1>1. IInv => NoteNamesTheTag
  <2> SUFFICES ASSUME IInv, ~raced, ~overlooked, ~moved, ~mistaken, NEW m \in Public
               PROVE  release[m].commit = tag
    BY DEF NoteNamesTheTag
  <2>1. m \in Makers
    BY DEF Public
  <2> QED
    BY <2>1 DEF IInv, Sure, PublicIsSure
<1> QED
  BY <1>1, IInvCorrect, PTL
=============================================================================
