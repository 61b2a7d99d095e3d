------------------------------ MODULE Release ------------------------------
(* .github/workflows/release.yml with tb/release_manifest.py: the runs that *)
(* publish at one tag.  A run is [commit, ref]: started by a push of the    *)
(* tag, or dispatched from a branch; of one ref one run at a time.  The jobs *)
(* and the steps of a run may fail, its upload may lose assets, it may be    *)
(* cancelled at any step and its jobs run again; people push the tag and     *)
(* clear away drafts.                                                        *)
(* GitHub is external: a tag name finds the public release if there is one   *)
(* and any draft if not, and publishing a draft creates the tag.  It may     *)
(* also leave any call without an answer.                                    *)
EXTENDS Integers, FiniteSets

CONSTANTS
  Runs,         \* the workflow runs
  Commits,      \* the commits they are of
  Hosts,        \* the hosts of build.yml's matrix
  Patches,      \* the two patches
  Flaws,        \* what check_archive can find wrong in an archive
  Builds,       \* the sets of archives that build jobs can leave
  CheapGates,   \* commits whose tb/Makefile lists fewer than the fifteen stages
  MaxAttempts,  \* bound: attempts of one run
  None

ASSUME ReleaseAssumption ==
  /\ IsFiniteSet(Hosts) /\ IsFiniteSet(Patches)
  /\ CheapGates \subseteq Commits
  /\ Builds \subseteq SUBSET [commit : Commits, host : Hosts, flaw : Flaws \union {None}]
  /\ None \notin Commits
  /\ MaxAttempts \in Nat \ {0}
  /\ "SHA256SUMS" \notin Hosts \union Patches

VARIABLES
  pc,        \* where each run is
  start,     \* what started it, [commit, ref]
  gate,      \* what its gate job reported: the stages, or nothing
  built,     \* the archives its build jobs uploaded, per host
  out,       \* the assets it assembled
  release,   \* the releases by who made them: None or [draft, assets, commit, gate]
  tag,       \* the commit the tag points at, None if there is no tag
  attempt,   \* which attempt each run is at
  raced,     \* history: two runs were past the check of the tag at once
  moved,     \* history: the tag was pushed while a run was past that check
  overlooked,  \* history: a run passed the check without seeing a release
  mistaken     \* history: a run passed the check without seeing the tag elsewhere

seen == <<moved, overlooked, mistaken>>
vars == <<pc, start, gate, built, out, release, tag, attempt, raced, seen>>

Refs == {"tag", "branch"}
Past == {"facts", "assemble", "create", "upload", "count", "publish"}
Ended == {"idle", "failed", "done"}

(* What a release is known by: the run that made it, and which attempt. *)
Makers == Runs \X (1..MaxAttempts)
Own(r) == <<r, attempt[r]>>

Fifteen == "isa .. check-canary"
Fewer == "isa"

GateList(commit) == IF commit \in CheapGates THEN Fewer ELSE Fifteen

Asset(name, commit) == [name |-> name, commit |-> commit]

Everything(commit) ==
  {Asset(n, commit) : n \in Hosts \union Patches \union {"SHA256SUMS"}}

Init ==
  /\ pc = [r \in Runs |-> "idle"]
  /\ start = [r \in Runs |-> None]
  /\ gate = [r \in Runs |-> None]
  /\ built = [r \in Runs |-> {}]
  /\ out = [r \in Runs |-> {}]
  /\ release = [m \in Makers |-> None]
  /\ tag = None
  /\ attempt = [r \in Runs |-> 1]
  /\ raced = FALSE /\ moved = FALSE /\ overlooked = FALSE /\ mistaken = FALSE

Goes(r, to) ==
  /\ pc' = [pc EXCEPT ![r] = to]
  /\ raced' = (raced \/ (to \in Past /\ \E q \in Runs \ {r} : pc[q] \in Past))
-----------------------------------------------------------------------------
(* Runs. *)

(* concurrency: release-<ref>, cancel-in-progress false. *)
RefIsFree(r, ref) ==
  \A q \in Runs \ {r} : pc[q] \notin Ended => start[q].ref # ref

(* A push of the tag, which also starts a run; or a dispatch. *)
PushTag(r, commit) ==
  /\ pc[r] = "idle" /\ RefIsFree(r, "tag")
  /\ tag = None
  /\ tag' = commit
  /\ moved' = (moved \/ \E q \in Runs : pc[q] \in Past)
  /\ start' = [start EXCEPT ![r] = [commit |-> commit, ref |-> "tag"]]
  /\ Goes(r, "jobs")
  /\ UNCHANGED <<gate, built, out, release, attempt, overlooked, mistaken>>

Dispatch(r, commit) ==
  /\ pc[r] = "idle" /\ RefIsFree(r, "branch")
  /\ start' = [start EXCEPT ![r] = [commit |-> commit, ref |-> "branch"]]
  /\ Goes(r, "jobs")
  /\ UNCHANGED <<gate, built, out, release, tag, attempt, seen>>

(* The gate job and the build jobs: a red one skips the publish job. *)
JobsPass(r, archives) ==
  /\ pc[r] = "jobs"
  /\ gate' = [gate EXCEPT ![r] = GateList(start[r].commit)]
  /\ built' = [built EXCEPT ![r] = archives]
  /\ Goes(r, "check")
  /\ UNCHANGED <<start, out, release, tag, attempt, seen>>

JobsFail(r) ==
  /\ pc[r] = "jobs"
  /\ gate' = [gate EXCEPT ![r] = None]
  /\ Goes(r, "failed")
  /\ UNCHANGED <<start, built, out, release, tag, attempt, seen>>

(* "Re-run failed jobs": the publish job alone, if the others were green;  *)
(* or all of the run.                                                      *)
Rerun(r, from) ==
  /\ pc[r] = "failed" /\ RefIsFree(r, start[r].ref)
  /\ attempt[r] < MaxAttempts
  /\ from = "check" => gate[r] # None
  /\ attempt' = [attempt EXCEPT ![r] = @ + 1]
  /\ out' = [out EXCEPT ![r] = {}]
  /\ Goes(r, from)
  /\ UNCHANGED <<start, gate, built, release, tag, seen>>

(* A cancelled run, a lost runner, or a step that cannot reach GitHub and  *)
(* notices: any but the two questions that CheckTag asks.                  *)
Cancel(r) ==
  /\ pc[r] \notin Ended \union {"jobs"}
  /\ Goes(r, "failed")
  /\ UNCHANGED <<start, gate, built, out, release, tag, attempt, seen>>
-----------------------------------------------------------------------------
(* The publish job. *)

(* `gh release view': what the name of the tag finds. *)
FoundByTag ==
  LET public == {m \in Makers : release[m] # None /\ ~release[m].draft}
  IN IF public # {} THEN public ELSE {m \in Makers : release[m] # None}

(* Defective: where the tag points is not asked. *)
TagIsFreeOfReleases(commit, viewed, looked) == viewed => FoundByTag = {}

(* Defective: a draft is not a release. *)
TagIsUnpublished(commit, viewed, looked) ==
  /\ viewed => ~\E m \in FoundByTag : ~release[m].draft
  /\ looked => tag \in {None, commit}

(* As far as GitHub answered: a `gh release view' that fails is taken for  *)
(* "no release", a `gh api' that fails for "no tag".                       *)
TagIsFree(commit, viewed, looked) ==
  /\ viewed => FoundByTag = {}
  /\ looked => tag \in {None, commit}

CheckTag(r, viewed, looked) ==
  LET passes == TagIsFree(start[r].commit, viewed, looked)
  IN /\ pc[r] = "check"
     /\ Goes(r, IF passes THEN "facts" ELSE "failed")
     /\ overlooked' = (overlooked \/ (passes /\ ~viewed /\ FoundByTag # {}))
     /\ mistaken' = (mistaken \/ (passes /\ ~looked /\ tag \notin {None, start[r].commit}))
     /\ UNCHANGED <<start, gate, built, out, release, tag, attempt, moved>>

(* The gate list of tb/Makefile and what the gate job reported. *)
FactsHold(r) == GateList(start[r].commit) = Fifteen /\ gate[r] = Fifteen

CheckFacts(r) ==
  /\ pc[r] = "facts"
  /\ Goes(r, IF FactsHold(r) THEN "assemble" ELSE "failed")
  /\ UNCHANGED <<start, gate, built, out, release, tag, attempt, seen>>

(* find_named, archive_members and check_archive. *)
Named(archives, host) == {a \in archives : a.host = host}

ArchiveIsRight(a, commit) == a.flaw = None /\ a.commit = commit

(* Defective: one archive too many is no matter. *)
ManifestWithAnyHit(archives, commit) ==
  IF \A h \in Hosts : \E a \in Named(archives, h) : ArchiveIsRight(a, commit)
  THEN {Asset(a.host, a.commit) : a \in archives}
         \union {Asset(n, commit) : n \in Patches \union {"SHA256SUMS"}}
  ELSE None

(* release_manifest.py: the assets, or None. *)
Manifest(archives, commit) ==
  IF \A h \in Hosts :
       /\ Cardinality(Named(archives, h)) = 1
       /\ \A a \in Named(archives, h) : ArchiveIsRight(a, commit)
  THEN {Asset(a.host, a.commit) : a \in archives}
         \union {Asset(n, commit) : n \in Patches \union {"SHA256SUMS"}}
  ELSE None

Assemble(r) ==
  LET assets == Manifest(built[r], start[r].commit)
  IN /\ pc[r] = "assemble"
     /\ out' = [out EXCEPT ![r] = IF assets = None THEN {} ELSE assets]
     /\ Goes(r, IF assets = None THEN "failed" ELSE "create")
     /\ UNCHANGED <<start, gate, built, release, tag, attempt, seen>>

(* `gh release create --draft': the draft, then the assets, some of which  *)
(* may not reach it, with or without an error.                             *)
CreateDraft(r) ==
  /\ pc[r] = "create"
  /\ release' = [release EXCEPT ![Own(r)] =
                   [draft |-> TRUE, assets |-> {}, commit |-> start[r].commit, gate |-> gate[r]]]
  /\ Goes(r, "upload")
  /\ UNCHANGED <<start, gate, built, out, tag, attempt, seen>>

Upload(r, arrived, to) ==
  /\ pc[r] = "upload"
  /\ release' = [release EXCEPT ![Own(r)].assets = arrived]
  /\ Goes(r, to)
  /\ UNCHANGED <<start, gate, built, out, tag, attempt, seen>>

(* Defective: what gh answered is taken for success. *)
AnyCount(have, want) == TRUE

CountAgrees(have, want) == Cardinality(have) = Cardinality(want)

CountAssets(r, found) ==
  /\ pc[r] = "count" /\ found \in FoundByTag
  /\ Goes(r, IF CountAgrees(release[found].assets, out[r]) THEN "publish" ELSE "failed")
  /\ UNCHANGED <<start, gate, built, out, release, tag, attempt, seen>>

(* The edit, whose answer may be lost, and a last look at the release,     *)
(* which may fail: the run is red then, and its release public.            *)
PublishDraft(r, found, to) ==
  /\ pc[r] = "publish" /\ found \in FoundByTag
  /\ release' = [release EXCEPT ![found].draft = FALSE]
  /\ tag' = IF tag = None THEN release[found].commit ELSE tag
  /\ Goes(r, to)
  /\ UNCHANGED <<start, gate, built, out, attempt, seen>>

(* People clear a draft that no run is working on. *)
DeleteDraft(m) ==
  /\ release[m] # None /\ release[m].draft
  /\ ~\E r \in Runs : m = Own(r) /\ pc[r] \in Past
  /\ release' = [release EXCEPT ![m] = None]
  /\ UNCHANGED <<pc, start, gate, built, out, tag, attempt, raced, seen>>
-----------------------------------------------------------------------------
Next ==
  \/ \E r \in Runs :
       \/ \E c \in Commits : PushTag(r, c) \/ Dispatch(r, c)
       \/ \E archives \in Builds : JobsPass(r, archives)
       \/ JobsFail(r)
       \/ \E from \in {"jobs", "check"} : Rerun(r, from)
       \/ Cancel(r)
       \/ \E viewed, looked \in BOOLEAN : CheckTag(r, viewed, looked)
       \/ CheckFacts(r) \/ Assemble(r) \/ CreateDraft(r)
       \/ \E arrived \in SUBSET out[r], to \in {"count", "failed"} : Upload(r, arrived, to)
       \/ \E found \in Makers : CountAssets(r, found)
       \/ \E found \in Makers, to \in {"done", "failed"} : PublishDraft(r, found, to)
  \/ \E m \in Makers : DeleteDraft(m)

Spec == Init /\ [][Next]_vars
-----------------------------------------------------------------------------
Public == {m \in Makers : release[m] # None /\ ~release[m].draft}

(* What release.yml promises of a public release, whatever failed on the   *)
(* way to it and however often a run was repeated: one archive per host,   *)
(* the patches and the sums, all of the one commit its note names, and     *)
(* that commit passed the fifteen stages in the run that made it.          *)
(* Two runs that overlap find one another's drafts by the tag's name, and  *)
(* so does a run whose question for a release was not answered while there *)
(* was one: both are outside this promise.                                 *)
PublicIsWholeAndGated ==
  ~raced /\ ~overlooked =>
    \A m \in Public : /\ release[m].assets = Everything(release[m].commit)
                      /\ release[m].gate = Fifteen

(* The tag of a public release is the commit its note and its binaries     *)
(* name, also where the tag was there before, or the release is the second *)
(* try of another run; unless it was pushed between the check of the tag   *)
(* and the publication, or the check was not told where it points.         *)
NoteNamesTheTag ==
  ~raced /\ ~overlooked /\ ~moved /\ ~mistaken =>
    \A m \in Public : release[m].commit = tag
=============================================================================
