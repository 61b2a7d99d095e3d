--------------------------- MODULE UpstreamWatch ---------------------------
(***************************************************************************)
(* tb/upstream_watch.py and the job that runs it every night: list the     *)
(* directory binutils is released in, and when it carries a signed release *)
(* newer than the pinned one, apply the two patches to it and keep one     *)
(* issue that says how they fared.  The network loses and cuts answers,    *)
(* runs are killed, GitHub stops the schedule of a quiet repository, and   *)
(* people release, sign, bump the pin, refresh the patches, close the      *)
(* issue and start runs by hand while one is under way.                    *)
(*                                                                         *)
(* A version is a number, its place in the order of vtuple.                *)
(***************************************************************************)
EXTENDS Naturals, Sequences, FiniteSets

CONSTANTS
  LastRelease,    \* the newest version there will ever be
  FirstReleases,  \* 1..FirstReleases are out, signed, and the last is pinned
  MinReleases,    \* MIN_RELEASES: a listing of fewer is not the listing
  Tries,          \* attempts of http_get and http_download
  Fates,          \* how the two patches may fare on a release
  Pretends,       \* baselines people give to a run they start
  MaxActs         \* bounds what people do, in all

Verdicts == {"clean", "offsets", "rejected"}
Patches == 1 .. 2
Releases == 1 .. LastRelease
NoRelease == 0

ASSUME SizesAssumption ==
  /\ LastRelease \in Nat /\ FirstReleases \in 1 .. LastRelease
  /\ MinReleases \in 1 .. FirstReleases
  /\ Tries \in Nat \ {0} /\ MaxActs \in Nat
ASSUME FatesAssumption ==
  Fates \subseteq [Patches -> Verdicts] /\ Pretends \subseteq Releases

VARIABLES
  listed,     \* tarballs in the directory
  signed,     \* those with a .sig beside them
  pin,        \* PORT_VERSION of tb/Makefile
  pinUsable,  \* print-port answers and PORT_URL is in the listed directory
  fate,       \* how the patches of the repository fare on each release
  armed,      \* the schedule is enabled
  issues,     \* labelled upstream-watch, oldest first
  run,        \* the run under way
  last,       \* how the last run ended, and what it rested on
  alarms,     \* issues whose headline was worked on by a run that went red
  acts        \* what people have done so far, counted

vars == <<listed, signed, pin, pinUsable, fate, armed, issues, run, last, alarms, acts>>
world == <<listed, signed, pin, pinUsable, fate, armed, acts>>

NoTitle == <<NoRelease, "clean">>

(* The state of a run: its inputs, what it checked out, and its locals;    *)
(* `there' is what was signed when the listing answered.                   *)
Idle == [pc |-> "idle", asked |-> FALSE, pretend |-> NoRelease, pin |-> NoRelease,
         fate |-> <<>>, tries |-> 1, there |-> {}, newest |-> NoRelease,
         results |-> <<>>, action |-> "", number |-> 0, old |-> NoTitle]

Init ==
  /\ listed = 1 .. FirstReleases
  /\ signed = listed
  /\ pin = FirstReleases
  /\ pinUsable = TRUE
  /\ fate = [r \in Releases |-> [p \in Patches |-> "clean"]]
  /\ armed = TRUE
  /\ issues = <<>>
  /\ run = Idle
  /\ last = Idle
  /\ alarms = {}
  /\ acts = 0
-----------------------------------------------------------------------------
(* What the run makes of its inputs. *)

(* Defective: a pretended baseline files an issue. *)
DryRunAsAskedOnly(asked, pretend) == asked

(* UPSTREAM_WATCH_DRY_RUN, or a pretended baseline. *)
DryRun(asked, pretend) == asked \/ pretend # NoRelease
dry_run == DryRun(run.asked, run.pretend)

Baseline == IF run.pretend # NoRelease THEN run.pretend ELSE run.pin

(* Defective: a page of almost nothing is a listing. *)
BelievableIfPinned(page) == run.pin \in page

(* parse_index: the releases a page shows are believed if there are enough *)
(* of them and the pinned one is among them.                               *)
Believable(page) == Cardinality(page) >= MinReleases /\ run.pin \in page

(* What may be answered for the directory: its signed tarballs, or a page  *)
(* that is not the listing, told by what it lacks.  A listing cut short is *)
(* an exception in http_get, which reads to the announced end.  Assumed of *)
(* the server: it does not answer with an older listing that carries the   *)
(* pin and enough releases (a cache, a mirror), which parse_index would    *)
(* believe.                                                                *)
Pages == {signed} \union
         {page \in SUBSET Releases : Cardinality(page) < MinReleases \/ run.pin \notin page}

NewestOf(page) == CHOOSE r \in page : \A q \in page : q <= r

(* What patch(1) may say under --force: its exit status, what the log      *)
(* mentions, and what of it the parser of the log recognises.              *)
PatchOutputs(truth) ==
  {out \in [rc : {0, 1}, saysOffset : BOOLEAN, sawOffset : BOOLEAN,
            saysFailed : BOOLEAN, sawFailed : BOOLEAN, saysReversed : BOOLEAN] :
     /\ out.sawOffset => out.saysOffset
     /\ out.sawFailed => out.saysFailed
     /\ (out.rc = 1) = (truth = "rejected")
     /\ out.saysFailed = (truth = "rejected")
     /\ out.saysReversed => truth = "rejected"
     /\ truth = "offsets" => out.saysOffset
     /\ truth = "clean" => ~out.saysOffset}

(* Defective: an offset the parser does not recognise is no offset. *)
DistrustedWithoutOffset(out) ==
  \/ out.saysFailed /\ ~out.sawFailed /\ out.rc = 0
  \/ out.saysReversed /\ out.rc = 0

(* apply_patch: the log and the parse of it must agree, or it is not read. *)
Distrusted(out) ==
  \/ out.saysOffset /\ ~out.sawOffset
  \/ out.saysFailed /\ ~out.sawFailed /\ out.rc = 0
  \/ out.saysReversed /\ out.rc = 0

VerdictOf(out) ==
  IF out.rc = 1 THEN "rejected" ELSE IF out.sawOffset THEN "offsets" ELSE "clean"

(* build_report: the worst of the two verdicts, by the order of WORST. *)
WorstOf(results) ==
  CHOOSE v \in Verdicts :
    /\ \E p \in Patches : results[p] = v
    /\ v = "clean" => \A p \in Patches : results[p] = "clean"
    /\ v = "offsets" => \A p \in Patches : results[p] # "rejected"

Title == <<run.newest, WorstOf(run.results)>>

OpenIssues == {i \in 1 .. Len(issues) : issues[i].open}

(* Defective: the issue is looked up by its headline. *)
IssueOfThisTitle ==
  LET same == {i \in OpenIssues : issues[i].title = Title}
  IN IF same = {} THEN 0 ELSE NewestOf(same)

(* Defective: closed issues are listed as well. *)
IssueOpenOrClosed == Len(issues)

(* `gh issue list --state open --label': the newest open one, 0 if none. *)
IssueInUse == IF OpenIssues = {} THEN 0 ELSE NewestOf(OpenIssues)
-----------------------------------------------------------------------------
(* People, and upstream. *)

Act == acts < MaxActs /\ acts' = acts + 1

Publish(r, f) ==
  /\ r \notin listed
  /\ listed' = listed \union {r}
  /\ fate' = [fate EXCEPT ![r] = f]
  /\ UNCHANGED <<signed, pin, pinUsable, armed, issues, run, last, alarms, acts>>

Sign(r) ==
  /\ r \in listed \ signed
  /\ signed' = signed \union {r}
  /\ UNCHANGED <<listed, pin, pinUsable, fate, armed, issues, run, last, alarms, acts>>

(* A human moves the port to a release, with patches that apply to it. *)
Bump(r) ==
  /\ Act
  /\ r \in signed /\ r > pin
  /\ pin' = r
  /\ fate' = [fate EXCEPT ![r] = [p \in Patches |-> "clean"]]
  /\ UNCHANGED <<listed, signed, pinUsable, armed, issues, run, last, alarms>>

Repatch(r, f) ==
  /\ Act
  /\ r \in listed /\ r > pin
  /\ fate' = [fate EXCEPT ![r] = f]
  /\ UNCHANGED <<listed, signed, pin, pinUsable, armed, issues, run, last, alarms>>

Repoint ==
  /\ Act
  /\ pinUsable' = ~pinUsable
  /\ UNCHANGED <<listed, signed, pin, fate, armed, issues, run, last, alarms>>

CloseIssue(i) ==
  /\ Act
  /\ issues[i].open
  /\ issues' = [issues EXCEPT ![i].open = FALSE]
  /\ UNCHANGED <<listed, signed, pin, pinUsable, fate, armed, run, last, alarms>>
(* GitHub stops the schedule after 60 days without activity in the         *)
(* repository, and tells nobody in it.  A run under way goes on; what asks *)
(* for the schedule is the next start, so it is enough to stop it between  *)
(* two runs.                                                               *)
Disable ==
  /\ armed /\ run.pc = "idle"
  /\ armed' = FALSE
  /\ UNCHANGED <<listed, signed, pin, pinUsable, fate, issues, run, last, alarms, acts>>
-----------------------------------------------------------------------------
(* A run.  At most one at a time: the concurrency group. *)

Start(asked, pretend) ==
  /\ run.pc = "idle"
  /\ run' = [Idle EXCEPT !.pc = "pin", !.asked = asked, !.pretend = pretend,
                         !.pin = pin, !.fate = fate]
  /\ last' = Idle
  /\ UNCHANGED <<listed, signed, pin, pinUsable, fate, issues, alarms>>

Schedule == armed /\ Start(FALSE, NoRelease) /\ UNCHANGED <<armed, acts>>

(* A run started by hand, which enables the schedule again; one that is    *)
(* needed for that is not counted.                                         *)
Dispatch(asked, pretend) ==
  /\ Start(asked, pretend)
  /\ Act \/ (~armed /\ UNCHANGED acts)
  /\ armed' = TRUE

(* Malfunction, a step of the job that fails, or the job killed: red. *)
Red ==
  /\ run' = Idle
  /\ last' = [Idle EXCEPT !.pc = "red"]
  /\ alarms' = IF run.number = 0 THEN alarms ELSE alarms \union {run.number}

(* What is kept of a green run: all of it. *)
Green == run' = Idle /\ last' = [run EXCEPT !.pc = "green"]

(* read_pin and check_pin_against_index. *)
ReadPin ==
  /\ run.pc = "pin"
  /\ IF pinUsable
     THEN run' = [run EXCEPT !.pc = "list"] /\ UNCHANGED <<last, alarms>>
     ELSE Red
  /\ UNCHANGED <<issues, world>>

(* An attempt that brings no answer. *)
FetchFails ==
  /\ run.pc \in {"list", "sig", "tarball"}
  /\ IF run.tries < Tries
     THEN run' = [run EXCEPT !.tries = @ + 1] /\ UNCHANGED <<last, alarms>>
     ELSE Red
  /\ UNCHANGED <<issues, world>>

List(page) ==
  /\ run.pc = "list"
  /\ page \in Pages
  /\ IF ~Believable(page)
     THEN Red
     ELSE LET newest == NewestOf(page)
              now == [run EXCEPT !.tries = 1, !.newest = newest, !.there = signed]
          IN /\ run' = IF newest <= Baseline
                       THEN [now EXCEPT !.pc = "decide", !.action = "none"]
                       ELSE [now EXCEPT !.pc = "sig"]
             /\ UNCHANGED <<last, alarms>>
  /\ UNCHANGED <<issues, world>>

(* A download that is cut is returned as if it were whole (its pieces are  *)
(* read until one is empty); the size, the markup and tar tell.            *)
Download(whole) ==
  /\ run.pc \in {"sig", "tarball"}
  /\ IF ~whole
     THEN Red
     ELSE /\ run' = [run EXCEPT !.tries = 1,
                                !.pc = IF run.pc = "sig" THEN "tarball" ELSE "apply"]
          /\ UNCHANGED <<last, alarms>>
  /\ UNCHANGED <<issues, world>>

(* Both patches are attempted, whatever becomes of the first; an exit      *)
(* status of 2, no patch(1) and a patch that does not end are `Trouble'.   *)
Apply(out) ==
  /\ run.pc = "apply"
  /\ out \in PatchOutputs(run.fate[run.newest][Len(run.results) + 1])
  /\ IF Distrusted(out)
     THEN Red
     ELSE LET now == [run EXCEPT !.results = Append(@, VerdictOf(out))]
          IN /\ run' = IF Len(now.results) < 2
                       THEN now
                       ELSE [now EXCEPT !.pc = "decide", !.action = "report"]
             /\ UNCHANGED <<last, alarms>>
  /\ UNCHANGED <<issues, world>>

Trouble ==
  /\ run.pc = "apply"
  /\ Red
  /\ UNCHANGED <<issues, world>>

(* gha_output writes nothing when the runner gives it no file. *)
LoseOutputs ==
  /\ run.pc = "decide" /\ run.action # ""
  /\ run' = [run EXCEPT !.action = ""]
  /\ UNCHANGED <<issues, last, alarms, world>>

(* "The watcher has to have decided something", and the condition of the   *)
(* step that follows.                                                      *)
Decide ==
  /\ run.pc = "decide"
  /\ \/ run.action = "" /\ Red
     \/ /\ run.action = "none" \/ (run.action = "report" /\ dry_run)
        /\ Green
        /\ UNCHANGED alarms
     \/ /\ run.action = "report" /\ ~dry_run
        /\ run' = [run EXCEPT !.pc = "issues"]
        /\ UNCHANGED <<last, alarms>>
  /\ UNCHANGED <<issues, world>>

ListIssues ==
  /\ run.pc = "issues"
  /\ LET number == IssueInUse
     IN run' = IF number = 0
               THEN [run EXCEPT !.pc = "create"]
               ELSE [run EXCEPT !.pc = "edit", !.number = number,
                                !.old = issues[number].title]
  /\ UNCHANGED <<issues, last, alarms, world>>

(* The three calls that change an issue.  Each may take effect and still   *)
(* fail the step, when its answer is lost.                                 *)
Create(answered) ==
  /\ run.pc = "create"
  /\ issues' = Append(issues, [open |-> TRUE, title |-> Title, told |-> Title])
  /\ IF answered THEN Green /\ UNCHANGED alarms ELSE Red
  /\ UNCHANGED world

Edit(answered) ==
  /\ run.pc = "edit"
  /\ issues' = [issues EXCEPT ![run.number].title = Title]
  /\ IF ~answered
     THEN Red
     ELSE IF run.old = Title
     THEN Green /\ UNCHANGED alarms
     ELSE run' = [run EXCEPT !.pc = "comment"] /\ UNCHANGED <<last, alarms>>
  /\ UNCHANGED world

Comment(answered) ==
  /\ run.pc = "comment"
  /\ issues' = [issues EXCEPT ![run.number].told = Title]
  /\ IF answered
     THEN Green /\ alarms' = alarms \ {run.number}
     ELSE Red
  /\ UNCHANGED world

(* Defective: `gh issue comment ... || true'. *)
GhFailsQuietlyOnComment ==
  /\ run.pc \in {"issues", "create", "edit", "comment"}
  /\ IF run.pc = "comment" THEN Green /\ UNCHANGED alarms ELSE Red
  /\ UNCHANGED <<issues, world>>

(* A call that fails without effect: set -e ends the step. *)
GhFails ==
  /\ run.pc \in {"issues", "create", "edit", "comment"}
  /\ Red
  /\ UNCHANGED <<issues, world>>

(* The 30 minutes of the job are over, or its machine is gone. *)
Kill ==
  /\ run.pc # "idle"
  /\ Red
  /\ UNCHANGED <<issues, world>>
-----------------------------------------------------------------------------
People ==
  \/ \E r \in Releases, f \in Fates : Publish(r, f) \/ Repatch(r, f)
  \/ \E r \in Releases : Sign(r) \/ Bump(r)
  \/ \E i \in 1 .. Len(issues) : CloseIssue(i)
  \/ Repoint

Watch ==
  \/ ReadPin \/ FetchFails \/ Trouble \/ LoseOutputs \/ Decide
  \/ \E page \in SUBSET Releases : List(page)
  \/ \E whole \in BOOLEAN : Download(whole)
  \/ \E v \in Verdicts : \E out \in PatchOutputs(v) : Apply(out)

Report ==
  \/ ListIssues \/ GhFails
  \/ \E answered \in BOOLEAN : Create(answered) \/ Edit(answered) \/ Comment(answered)

Next ==
  \/ People
  \/ Disable
  \/ Schedule
  \/ \E asked \in BOOLEAN, pretend \in Pretends \union {NoRelease} : Dispatch(asked, pretend)
  \/ Watch
  \/ Report
  \/ Kill

Safety == Init /\ [][Next]_vars

(* The schedule fires every night while it is enabled; a run that is not   *)
(* killed goes on; and what may fail does not fail for ever: of the        *)
(* attempts made night after night some bring the listing, whole files, a  *)
(* log that is understood and answers from GitHub.  Nothing is assumed of  *)
(* people, and nothing keeps the schedule enabled.                         *)
Understood(out) == ~Distrusted(out)

Fairness ==
  /\ WF_vars(Schedule)
  /\ WF_vars(Watch \/ Report)
  /\ SF_vars(ReadPin)
  /\ SF_vars(List(signed))
  /\ SF_vars(run.pc = "sig" /\ Download(TRUE))
  /\ SF_vars(run.pc = "tarball" /\ Download(TRUE))
  /\ \A p \in Patches :
       SF_vars(Len(run.results) + 1 = p
                 /\ \E v \in Verdicts : \E out \in PatchOutputs(v) : Understood(out) /\ Apply(out))
  /\ SF_vars(run.action # "" /\ Decide)
  /\ SF_vars(ListIssues)
  /\ SF_vars(Create(TRUE) \/ Edit(TRUE))

Spec == Safety /\ Fairness
-----------------------------------------------------------------------------
TypeOK ==
  /\ listed \subseteq Releases /\ signed \subseteq listed
  /\ pin \in signed /\ pinUsable \in BOOLEAN /\ armed \in BOOLEAN
  /\ fate \in [Releases -> [Patches -> Verdicts]]
  /\ issues \in Seq([open : BOOLEAN, title : Releases \X Verdicts, told : Releases \X Verdicts])
  /\ alarms \subseteq 1 .. Len(issues)
  /\ acts \in 0 .. MaxActs
  /\ run.tries \in 1 .. Tries

(* A green run that says there is nothing new read the listing, and no     *)
(* release signed by then was newer than the pin it checked out (or the    *)
(* baseline it was given): no failure looks like "nothing new".            *)
NothingNewIsTrue ==
  last.pc = "green" /\ last.action # "report" =>
    \A r \in last.there : r <= last.pin \/ r <= last.pretend

(* A green run that was to file a report has: the issue it used names the  *)
(* newest release of the listing and the worse of the two ways in which    *)
(* the patches it checked out fare on it.                                  *)
ReportIsOnFile ==
  last.pc = "green" /\ last.action = "report" /\ ~last.asked /\ last.pretend = NoRelease =>
      LET number == IF last.number = 0 THEN Len(issues) ELSE last.number
      IN /\ number \in 1 .. Len(issues)
         /\ issues[number].title[1] = NewestOf(last.there)
         /\ issues[number].title[2] = WorstOf(last.fate[NewestOf(last.there)])

(* There is one issue, reused: never two open at once, whatever was lost,  *)
(* killed or closed before.                                                *)
OneOpenIssue ==
  \A i, j \in 1 .. Len(issues) : issues[i].open /\ issues[j].open => i = j

(* A headline that changed is announced by a comment, by the issue being   *)
(* new, or else a run went red over it.                                    *)
LostNoticeIsLoud ==
  \A i \in 1 .. Len(issues) :
    issues[i].title # issues[i].told =>
      i \in alarms \/ (run.pc = "comment" /\ run.number = i)

(* A dry run, asked for or forced by a pretended baseline, files nothing.  *)
DryRunFilesNothing ==
  [][run.asked \/ run.pretend # NoRelease =>
       /\ Len(issues') = Len(issues)
       /\ \A i \in 1 .. Len(issues) : /\ issues'[i].title = issues[i].title
                                      /\ issues'[i].told = issues[i].told]_vars

(* While the newest signed release is newer than the pin, an open issue    *)
(* comes to name it (or one newer still), whoever closed what before,      *)
(* unless the port moves on, the pin cannot be used, or the schedule is or *)
(* gets disabled; from when a run by hand enables it, the promise holds    *)
(* again.                                                                  *)
NewReleaseIsFiled ==
  NewestOf(signed) > pin ~>
    \/ \E i \in OpenIssues : issues[i].title[1] >= NewestOf(signed)
    \/ pin = NewestOf(signed)
    \/ ~pinUsable
    \/ ~armed
=============================================================================
