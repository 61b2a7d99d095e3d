------------------------- MODULE UpstreamWatchProofs -------------------------
(***************************************************************************)
(* Proofs about UpstreamWatch: whatever the network loses, whoever kills a *)
(* run or closes an issue, for any number of releases, attempts and nights.*)
(***************************************************************************)
EXTENDS UpstreamWatch, TLAPS, FiniteSetTheorems, SequenceTheorems, WellFoundedInduction

Filing == {"issues", "create", "edit", "comment"}
Pcs == {"idle", "pin", "list", "sig", "tarball", "apply", "decide"} \union Filing
Titles == Releases \X Verdicts
Issue == [open : BOOLEAN, title : Titles, told : Titles]
FateFunctions == [Releases -> [Patches -> Verdicts]]
RunsAt(pcs) ==
  [pc : pcs, asked : BOOLEAN, pretend : Releases \union {NoRelease}, pin : Nat,
   fate : FateFunctions \union {<<>>}, tries : 1 .. Tries, there : SUBSET Releases,
   newest : Nat, results : Seq(Verdicts), action : {"", "none", "report"},
   number : Nat, old : Nat \X Verdicts]

WorldOK ==
  /\ listed \subseteq Releases /\ signed \subseteq listed
  /\ pin \in signed /\ pinUsable \in BOOLEAN /\ armed \in BOOLEAN
  /\ fate \in FateFunctions
  /\ acts \in 0 .. MaxActs

IssuesOK ==
  /\ issues \in Seq(Issue)
  /\ alarms \subseteq 1 .. Len(issues)

RunOK == run \in RunsAt(Pcs) /\ last \in RunsAt({"idle", "red", "green"})

(* What a run has found out by the time it stands where it stands. *)
NewestKnown(r) ==
  /\ r.newest \in Releases /\ r.newest = NewestOf(r.there)
  /\ r.fate \in FateFunctions

ResultsTrue(r) ==
  /\ Len(r.results) <= 2
  /\ \A p \in 1 .. Len(r.results) : r.results[p] = r.fate[r.newest][p]

Knows ==
  /\ run.pc \in {"pin", "list", "sig", "tarball"} => run.action = "" /\ run.results = <<>>
  /\ run.pc \in {"pin", "list", "sig", "tarball", "apply", "decide"} =>
       run.fate \in FateFunctions /\ run.pin \in Releases
  /\ run.pc \in {"sig", "tarball", "apply"} => NewestKnown(run)
  /\ run.pc = "apply" => run.action = "" /\ Len(run.results) < 2 /\ ResultsTrue(run)
  /\ run.action = "report" => NewestKnown(run) /\ ResultsTrue(run) /\ Len(run.results) = 2
  /\ run.action = "none" => \A r \in run.there : r <= run.pin \/ r <= run.pretend
  /\ run.pc \in Filing => run.action = "report" /\ ~dry_run
  /\ run.pc \notin {"edit", "comment"} => run.number = 0
  /\ run.pc = "idle" <=> run = Idle
  /\ last.pc = "green" => run = Idle

(* What a run that is at work on the issues knows of them. *)
KnowsIssues ==
  /\ run.pc = "create" => OpenIssues = {}
  /\ run.pc \in {"edit", "comment"} => run.number \in 1 .. Len(issues)
  /\ run.pc = "edit" => run.old = issues[run.number].title
  /\ run.pc = "comment" => issues[run.number].title = Title

(* The inductive invariant. *)
IInv ==
  /\ WorldOK /\ IssuesOK /\ RunOK
  /\ Knows /\ KnowsIssues
  /\ NothingNewIsTrue
  /\ ReportIsOnFile
  /\ OneOpenIssue
  /\ LostNoticeIsLoud

----------------------------------------------------------------------------
(* NewestOf is the greatest element, and there is one. *)
LEMMA NewestIsGreatest ==
  ASSUME NEW n \in Nat, NEW S \in SUBSET (0 .. n), S # {}
  PROVE  NewestOf(S) \in S /\ \A q \in S : q <= NewestOf(S)
<1> DEFINE Below == {n - r : r \in S}
<1>1. \A r \in S : r \in Nat /\ r <= n /\ n - r \in Nat
  OBVIOUS
<1>2. Below \subseteq Nat /\ Below # {}
  BY <1>1, Zenon
<1>3. PICK d \in Below : \A e \in Below : ~(<<e, d>> \in OpToRel(<, Nat))
  <2> HIDE DEF Below
  <2> DEFINE Less == OpToRel(<, Nat)
  <2>1. IsWellFoundedOn(Less, Nat)
    BY NatLessThanWellFounded
  <2> HIDE DEF Less
  <2>2. \E d \in Below : \A e \in Below : ~(<<e, d>> \in Less)
    BY <1>2, <2>1, WFMin, Zenon
  <2> QED
    BY <2>2, Zenon DEF Less
<1>4. \A e \in Below : d <= e
  <2> SUFFICES ASSUME NEW e \in Below, ~(d <= e) PROVE FALSE
    OBVIOUS
  <2>1. e \in Nat /\ d \in Nat
    BY <1>2, Zenon
  <2> HIDE DEF Below
  <2>2. <<e, d>> \in OpToRel(<, Nat)
    BY <2>1 DEF OpToRel
  <2> QED
    BY <2>2, <1>3, Zenon
<1>5. PICK r \in S : d = n - r
  BY <1>3, Zenon
<1>6. ASSUME NEW q \in S PROVE q <= r
  <2>1. n - q \in Below
    BY Zenon
  <2> HIDE DEF Below
  <2>2. n - r <= n - q
    BY <2>1, <1>4, <1>5
  <2> QED
    BY <1>1, <2>2
<1> QED
  <2>1. \E x \in S : \A q \in S : q <= x
    BY <1>6, Zenon
  <2> QED
    BY <2>1, Zenon DEF NewestOf

LEMMA NewestOfReleases ==
  ASSUME NEW S \in SUBSET Releases, S # {}
  PROVE  NewestOf(S) \in S /\ \A q \in S : q <= NewestOf(S)
<1> LastRelease \in Nat /\ S \subseteq 0 .. LastRelease
  BY SizesAssumption DEF Releases
<1> QED
  BY NewestIsGreatest

(* The worst of the verdicts on the two patches is a verdict. *)
LEMMA WorstIsAVerdict ==
  ASSUME NEW f, f[1] \in Verdicts, f[2] \in Verdicts
  PROVE  WorstOf(f) \in Verdicts
<1> DEFINE W(v) == /\ \E p \in Patches : f[p] = v
                   /\ v = "clean" => \A p \in Patches : f[p] = "clean"
                   /\ v = "offsets" => \A p \in Patches : f[p] # "rejected"
<1>1. Patches = {1, 2}
  BY DEF Patches
<1>2. CASE f[1] = "rejected" \/ f[2] = "rejected"
  <2> W("rejected") /\ "rejected" \in Verdicts
    BY <1>1, <1>2 DEF Verdicts
  <2> QED
    BY DEF WorstOf
<1>3. CASE f[1] # "rejected" /\ f[2] # "rejected" /\ (f[1] = "offsets" \/ f[2] = "offsets")
  <2> W("offsets") /\ "offsets" \in Verdicts
    BY <1>1, <1>3 DEF Verdicts
  <2> QED
    BY DEF WorstOf
<1>4. CASE f[1] = "clean" /\ f[2] = "clean"
  <2> W("clean") /\ "clean" \in Verdicts
    BY <1>1, <1>4 DEF Verdicts
  <2> QED
    BY DEF WorstOf
<1> QED
  BY <1>2, <1>3, <1>4 DEF Verdicts

(* A log that is read says how the patch fared. *)
LEMMA ReadLogIsTrue ==
  ASSUME NEW truth \in Verdicts, NEW out \in PatchOutputs(truth), ~Distrusted(out)
  PROVE  VerdictOf(out) = truth
BY DEF PatchOutputs, Distrusted, VerdictOf, Verdicts

(* Another true result. *)
LEMMA AppendTrueResult ==
  ASSUME NEW r \in Seq(Verdicts), Len(r) < 2, NEW f \in [Patches -> Verdicts],
         \A p \in 1 .. Len(r) : r[p] = f[p]
  PROVE  /\ f[Len(r) + 1] \in Verdicts
         /\ Append(r, f[Len(r) + 1]) \in Seq(Verdicts)
         /\ Len(Append(r, f[Len(r) + 1])) \in {1, 2}
         /\ \A p \in 1 .. Len(Append(r, f[Len(r) + 1])) : Append(r, f[Len(r) + 1])[p] = f[p]
<1>1. PICK k \in {0, 1} : k = Len(r)
  <2>1. Len(r) \in Nat
    BY LenProperties
  <2>2. \A n \in Nat : n < 2 => n \in {0, 1}
    OBVIOUS
  <2> QED
    BY <2>1, <2>2, Zenon
<1>2. k + 1 \in Patches /\ k + 1 \in {1, 2}
  BY DEF Patches
<1>3. f[k + 1] \in Verdicts
  BY <1>2
<1> DEFINE m == Append(r, f[k + 1])
<1>4. m \in Seq(Verdicts) /\ Len(m) = k + 1 /\ (\A p \in 1 .. k : m[p] = r[p]) /\ m[k + 1] = f[k + 1]
  BY <1>1, <1>3, AppendProperties
<1>5. \A p \in 1 .. k : r[p] = f[p]
  BY <1>1
<1> HIDE DEF m
<1>6. \A p \in 1 .. k + 1 : m[p] = f[p]
  BY <1>4, <1>5
<1>7. Len(m) \in {1, 2} /\ \A p \in 1 .. Len(m) : m[p] = f[p]
  BY <1>2, <1>4, <1>6
<1> QED
  BY <1>1, <1>3, <1>4, <1>7 DEF m

(* Results as true as they are many are the fate of the release. *)
LEMMA ResultsAreTheFate ==
  ASSUME NEW r \in RunsAt(Pcs \union {"green"}), NewestKnown(r), ResultsTrue(r), Len(r.results) = 2
  PROVE  r.results = r.fate[r.newest]
<1>1. r.results \in [1 .. 2 -> Verdicts]
  BY LenProperties DEF RunsAt
<1>2. r.fate[r.newest] \in [1 .. 2 -> Verdicts]
  BY DEF NewestKnown, FateFunctions, Patches
<1> QED
  BY <1>1, <1>2 DEF ResultsTrue

(* A headline of a report. *)
LEMMA TitleIsATitle ==
  ASSUME RunOK, Knows, run.action = "report"
  PROVE  Title \in Titles
<1>1. run.results[1] \in Verdicts /\ run.results[2] \in Verdicts
  <2>1. run.results \in Seq(Verdicts) /\ Len(run.results) = 2
    BY DEF Knows, RunOK, RunsAt
  <2>2. 1 \in 1 .. Len(run.results) /\ 2 \in 1 .. Len(run.results)
    BY <2>1
  <2> QED
    BY <2>1, <2>2, ElementOfSeq, Zenon
<1> QED
  BY <1>1, WorstIsAVerdict DEF Knows, NewestKnown, Title, Titles

(* No run is a run. *)
LEMMA IdleIsARun ==
  /\ Idle \in RunsAt(Pcs) /\ Idle \in RunsAt({"idle", "red", "green"})
  /\ [Idle EXCEPT !.pc = "red"] \in RunsAt({"idle", "red", "green"})
  /\ Idle.pc = "idle"
<1>1. <<>> \in Seq(Verdicts) /\ NoTitle \in Nat \X Verdicts /\ 1 \in 1 .. Tries
  BY SizesAssumption DEF NoTitle, NoRelease, Verdicts
<1> QED
  BY <1>1 DEF Idle, RunsAt, Pcs, NoRelease
-----------------------------------------------------------------------------
(* What people and upstream do disturbs nothing a run knows. *)
LEMMA WorldKeeps ==
  ASSUME IInv, WorldOK', UNCHANGED <<issues, run, last, alarms>>
  PROVE  IInv'
<1>1. IssuesOK' /\ RunOK' /\ Knows'
  BY DEF IInv, IssuesOK, RunOK, Knows, NewestKnown, ResultsTrue, dry_run
<1>2. KnowsIssues'
  BY DEF IInv, KnowsIssues, OpenIssues, Title
<1>3. NothingNewIsTrue' /\ ReportIsOnFile' /\ OneOpenIssue' /\ LostNoticeIsLoud'
  BY DEF IInv, NothingNewIsTrue, ReportIsOnFile, OneOpenIssue, LostNoticeIsLoud
<1> QED
  BY <1>1, <1>2, <1>3 DEF IInv

(* A run that goes on, away from the issues. *)
LEMMA RunKeeps ==
  ASSUME IInv, UNCHANGED <<issues, last, alarms, world>>,
         run' \in RunsAt(Pcs), Knows', KnowsIssues', run.pc \notin {"idle", "comment"}
  PROVE  IInv'
<1>1. WorldOK' /\ IssuesOK' /\ RunOK'
  BY DEF IInv, WorldOK, IssuesOK, RunOK, world
<1>2. last.pc # "green"
  BY DEF IInv, Knows
<1>3. NothingNewIsTrue' /\ ReportIsOnFile'
  BY <1>2 DEF NothingNewIsTrue, ReportIsOnFile
<1>4. OneOpenIssue' /\ LostNoticeIsLoud'
  BY DEF IInv, OneOpenIssue, LostNoticeIsLoud
<1> QED
  BY <1>1, <1>3, <1>4 DEF IInv

(* A run that goes red, with what it may have done to the issues. *)
LEMMA RedKeeps ==
  ASSUME IInv, Red, UNCHANGED world, IssuesOK', OneOpenIssue',
         \A i \in 1 .. Len(issues') :
           issues'[i].title # issues'[i].told => i \in alarms \/ i = run.number
  PROVE  IInv'
<1> USE DEF NoRelease
<1>1. WorldOK'
  BY DEF IInv, WorldOK, world
<1>2. RunOK'
  BY IdleIsARun DEF Red, RunOK
<1>3. run' = Idle /\ run'.pc = "idle" /\ run'.number = 0 /\ run'.action = ""
  BY DEF Red, Idle
<1>4. last'.pc = "red"
  BY DEF Red, Idle
<1>5. Knows' /\ KnowsIssues'
  BY <1>3, <1>4 DEF Knows, KnowsIssues, Filing
<1>6. NothingNewIsTrue' /\ ReportIsOnFile'
  BY <1>4 DEF NothingNewIsTrue, ReportIsOnFile
<1>7. LostNoticeIsLoud'
  <2> SUFFICES ASSUME NEW i \in 1 .. Len(issues'), issues'[i].title # issues'[i].told
               PROVE  i \in alarms'
    BY DEF LostNoticeIsLoud
  <2>1. i # 0
    OBVIOUS
  <2> QED
    BY <2>1 DEF Red
<1> QED
  BY <1>1, <1>2, <1>5, <1>6, <1>7 DEF IInv

(* One that goes red and has touched nothing. *)
LEMMA RedUntouchedKeeps ==
  ASSUME IInv, Red, UNCHANGED <<issues, world>>
  PROVE  IInv'
<1>1. UNCHANGED issues /\ UNCHANGED world
  OBVIOUS
<1>2. run.number = 0 \/ run.number \in 1 .. Len(issues)
  BY DEF IInv, Knows, KnowsIssues
<1>3. IssuesOK'
  BY <1>1, <1>2 DEF IInv, IssuesOK, Red
<1>4. OneOpenIssue'
  BY <1>1 DEF IInv, OneOpenIssue
<1>5. \A i \in 1 .. Len(issues') :
        issues'[i].title # issues'[i].told => i \in alarms \/ i = run.number
  BY <1>1 DEF IInv, LostNoticeIsLoud
<1> QED
  BY <1>1, <1>3, <1>4, <1>5, RedKeeps

(* One that ends green: it leaves what it knows of the listing and of the  *)
(* issue it used.                                                          *)
LEMMA GreenKeeps ==
  ASSUME IInv, Green, UNCHANGED world, run.pc # "idle", IssuesOK', OneOpenIssue', LostNoticeIsLoud',
         run.action \in {"none", "report"},
         run.action = "report" /\ ~dry_run =>
           LET n == IF run.number = 0 THEN Len(issues') ELSE run.number
           IN n \in 1 .. Len(issues') /\ issues'[n].title = Title
  PROVE  IInv'
<1>1. WorldOK'
  BY DEF IInv, WorldOK, world
<1>2. RunOK' /\ last' = [run EXCEPT !.pc = "green"]
  BY IdleIsARun DEF IInv, Green, RunOK, RunsAt
<1>3. run' = Idle /\ run'.pc = "idle" /\ run'.number = 0 /\ run'.action = ""
  BY DEF Green, Idle
<1>4. Knows' /\ KnowsIssues'
  BY <1>3 DEF Knows, KnowsIssues, Filing
<1>5. /\ last'.action = run.action /\ last'.there = run.there /\ last'.pin = run.pin
      /\ last'.pretend = run.pretend /\ last'.asked = run.asked /\ last'.number = run.number
      /\ last'.fate = run.fate
  BY <1>2 DEF IInv, RunOK, RunsAt
<1>6. NothingNewIsTrue'
  BY <1>5 DEF IInv, Knows, NothingNewIsTrue
<1>7. ReportIsOnFile'
  <2> SUFFICES ASSUME run.action = "report", ~run.asked, run.pretend = NoRelease
               PROVE  LET number == IF last'.number = 0 THEN Len(issues') ELSE last'.number
                      IN /\ number \in 1 .. Len(issues')
                         /\ issues'[number].title[1] = NewestOf(last'.there)
                         /\ issues'[number].title[2] = WorstOf(last'.fate[NewestOf(last'.there)])
    BY <1>5 DEF ReportIsOnFile
  <2>1. NewestKnown(run) /\ ResultsTrue(run) /\ Len(run.results) = 2 /\ ~dry_run
    BY DEF IInv, Knows, dry_run, DryRun
  <2>2. run.results = run.fate[run.newest]
    <3> run \in RunsAt(Pcs \union {"green"})
      BY DEF IInv, RunOK, RunsAt
    <3> QED
      BY <2>1, ResultsAreTheFate
  <2>3. Title = <<NewestOf(run.there), WorstOf(run.fate[NewestOf(run.there)])>>
    BY <2>1, <2>2 DEF Title, NewestKnown
  <2> QED
    BY <1>5, <2>1, <2>3
<1> QED
  BY <1>1, <1>2, <1>4, <1>6, <1>7 DEF IInv
-----------------------------------------------------------------------------
LEMMA PeopleKeep == ASSUME IInv, People PROVE IInv'
<1>1. WorldOK
  BY DEF IInv
<1>2. ASSUME NEW r \in Releases, NEW f \in Fates, Publish(r, f) PROVE IInv'
  <2>1. f \in [Patches -> Verdicts]
    BY FatesAssumption
  <2>2. WorldOK'
    BY <1>1, <1>2, <2>1 DEF WorldOK, Publish, FateFunctions
  <2> QED
    BY <1>2, <2>2, WorldKeeps DEF Publish
<1>3. ASSUME NEW r \in Releases, NEW f \in Fates, Repatch(r, f) PROVE IInv'
  <2>1. f \in [Patches -> Verdicts]
    BY FatesAssumption
  <2>2. WorldOK'
    BY <1>1, <1>3, <2>1, SizesAssumption DEF WorldOK, Repatch, Act, FateFunctions
  <2> QED
    BY <1>3, <2>2, WorldKeeps DEF Repatch
<1>4. ASSUME NEW r \in Releases, Sign(r) PROVE IInv'
  <2>1. WorldOK'
    BY <1>1, <1>4 DEF WorldOK, Sign
  <2> QED
    BY <1>4, <2>1, WorldKeeps DEF Sign
<1>5. ASSUME NEW r \in Releases, Bump(r) PROVE IInv'
  <2>1. [p \in Patches |-> "clean"] \in [Patches -> Verdicts]
    BY DEF Verdicts
  <2>2. WorldOK'
    BY <1>1, <1>5, <2>1, SizesAssumption DEF WorldOK, Bump, Act, FateFunctions
  <2> QED
    BY <1>5, <2>2, WorldKeeps DEF Bump
<1>6. ASSUME Repoint PROVE IInv'
  <2>1. WorldOK'
    BY <1>1, <1>6, SizesAssumption DEF WorldOK, Repoint, Act
  <2> QED
    BY <1>6, <2>1, WorldKeeps DEF Repoint
<1>7. ASSUME NEW i \in 1 .. Len(issues), CloseIssue(i) PROVE IInv'
  <2>1. issues \in Seq(Issue) /\ issues[i] \in Issue
    BY ElementOfSeq DEF IInv, IssuesOK
  <2>2. DEFINE closed == [issues[i] EXCEPT !.open = FALSE]
  <2>3. closed \in Issue /\ closed.title = issues[i].title /\ closed.told = issues[i].told
    BY <2>1 DEF Issue
  <2>4. closed.open = FALSE
    BY <2>1 DEF Issue
  <2>5. issues' = [issues EXCEPT ![i] = closed]
    BY <1>7 DEF CloseIssue
  <2> HIDE DEF closed
  <2>6. /\ issues' \in Seq(Issue) /\ Len(issues') = Len(issues)
        /\ \A j \in 1 .. Len(issues) : issues'[j] = IF j = i THEN closed ELSE issues[j]
    BY <2>1, <2>3, <2>5, ExceptSeq
  <2>7. \A j \in 1 .. Len(issues) : /\ issues'[j].title = issues[j].title
                                    /\ issues'[j].told = issues[j].told
                                    /\ issues'[j].open => issues[j].open
    BY <2>3, <2>4, <2>6
  <2>8. UNCHANGED <<listed, signed, pin, pinUsable, fate, armed, run, last, alarms>> /\ WorldOK'
    BY <1>1, <1>7, SizesAssumption DEF WorldOK, CloseIssue, Act
  <2>9. IssuesOK' /\ RunOK' /\ Knows'
    BY <2>6, <2>8 DEF IInv, IssuesOK, RunOK, Knows, NewestKnown, ResultsTrue, dry_run
  <2>10. KnowsIssues'
    <3>1. OpenIssues' \subseteq OpenIssues
      BY <2>6, <2>7 DEF OpenIssues
    <3>2. Title' = Title
      BY <2>8 DEF Title
    <3> QED
      BY <3>1, <3>2, <2>6, <2>7, <2>8 DEF IInv, KnowsIssues
  <2>11. NothingNewIsTrue' /\ OneOpenIssue' /\ LostNoticeIsLoud'
    BY <2>6, <2>7, <2>8 DEF IInv, NothingNewIsTrue, OneOpenIssue, LostNoticeIsLoud
  <2>12. ReportIsOnFile'
    BY <2>6, <2>7, <2>8 DEF IInv, ReportIsOnFile
  <2> QED
    BY <2>8, <2>9, <2>10, <2>11, <2>12 DEF IInv
<1> QED
  BY <1>2, <1>3, <1>4, <1>5, <1>6, <1>7 DEF People

LEMMA StartKeeps ==
  ASSUME IInv, NEW asked \in BOOLEAN, NEW pretend \in Releases \union {NoRelease},
         Start(asked, pretend), acts' \in 0 .. MaxActs, armed' \in BOOLEAN
  PROVE  IInv'
<1>1. UNCHANGED <<listed, signed, pin, pinUsable, fate, issues, alarms>> /\ last' = Idle
  BY DEF Start
<1>2. WorldOK' /\ IssuesOK'
  BY <1>1 DEF IInv, WorldOK, IssuesOK
<1>3. pin \in Releases /\ pin \in Nat /\ fate \in FateFunctions
  BY DEF IInv, WorldOK, Releases
<1>4. run' = [Idle EXCEPT !.pc = "pin", !.asked = asked, !.pretend = pretend,
                          !.pin = pin, !.fate = fate]
  BY DEF Start
<1>5. RunOK'
  BY <1>1, <1>3, <1>4, IdleIsARun DEF RunOK, RunsAt, Pcs
<1>6. /\ run'.pc = "pin" /\ run'.action = "" /\ run'.results = <<>> /\ run'.number = 0
      /\ run'.fate = fate /\ run'.pin = pin
  BY <1>4 DEF Idle
<1>7. last'.pc = "idle"
  BY <1>1 DEF Idle
<1>8. run' # Idle
  BY <1>6, IdleIsARun
<1>9. Knows' /\ KnowsIssues'
  BY <1>3, <1>6, <1>7, <1>8 DEF Knows, KnowsIssues, Filing
<1>10. NothingNewIsTrue' /\ ReportIsOnFile' /\ OneOpenIssue'
  BY <1>1, <1>7 DEF IInv, NothingNewIsTrue, ReportIsOnFile, OneOpenIssue
<1>11. LostNoticeIsLoud'
  BY <1>1, IdleIsARun DEF IInv, LostNoticeIsLoud, Start
<1> QED
  BY <1>2, <1>5, <1>9, <1>10, <1>11 DEF IInv
-----------------------------------------------------------------------------
LEMMA ReadPinKeeps == ASSUME IInv, ReadPin PROVE IInv'
<1>1. CASE pinUsable
  <2>1. run' = [run EXCEPT !.pc = "list"] /\ UNCHANGED <<issues, last, alarms, world>> /\ run.pc = "pin"
    BY <1>1 DEF ReadPin
  <2>2. run \in RunsAt(Pcs)
    BY DEF IInv, RunOK
  <2>3. run' \in RunsAt(Pcs) /\ run'.pc = "list"
    BY <2>1, <2>2 DEF RunsAt, Pcs
  <2>4. /\ run'.action = run.action /\ run'.results = run.results /\ run'.fate = run.fate
        /\ run'.pin = run.pin /\ run'.number = run.number /\ run # Idle /\ run' # Idle
    BY <2>1, <2>2, <2>3, IdleIsARun DEF RunsAt
  <2>5. Knows' /\ KnowsIssues'
    BY <2>1, <2>3, <2>4 DEF IInv, Knows, KnowsIssues, Filing
  <2> QED
    BY <2>1, <2>3, <2>5, RunKeeps
<1>2. CASE ~pinUsable
  BY <1>2, RedUntouchedKeeps DEF ReadPin
<1> QED
  BY <1>1, <1>2

LEMMA FetchFailsKeeps == ASSUME IInv, FetchFails PROVE IInv'
<1>1. CASE run.tries < Tries
  <2>1. /\ run' = [run EXCEPT !.tries = @ + 1] /\ UNCHANGED <<issues, last, alarms, world>>
        /\ run.pc \in {"list", "sig", "tarball"}
    BY <1>1 DEF FetchFails
  <2>2. run \in RunsAt(Pcs)
    BY DEF IInv, RunOK
  <2>3. run.tries + 1 \in 1 .. Tries
    <3>1. run.tries \in 1 .. Tries /\ Tries \in Nat
      BY <2>2, SizesAssumption DEF RunsAt
    <3> QED
      BY <1>1, <3>1
  <2>4. run' \in RunsAt(Pcs)
    BY <2>1, <2>2, <2>3 DEF RunsAt
  <2>5. /\ run'.pc = run.pc /\ run'.action = run.action /\ run'.results = run.results
        /\ run'.fate = run.fate /\ run'.pin = run.pin /\ run'.number = run.number
        /\ run'.newest = run.newest /\ run'.there = run.there
    BY <2>1, <2>2 DEF RunsAt
  <2>6. run # Idle /\ run' # Idle
    BY <2>1, <2>5, IdleIsARun
  <2>7. Knows' /\ KnowsIssues'
    BY <2>1, <2>5, <2>6 DEF IInv, Knows, KnowsIssues, Filing, NewestKnown
  <2> QED
    BY <2>1, <2>4, <2>7, RunKeeps
<1>2. CASE ~(run.tries < Tries)
  BY <1>2, RedUntouchedKeeps DEF FetchFails
<1> QED
  BY <1>1, <1>2

(* The page that is believed is the listing: it shows the pinned release,  *)
(* and is no other page.                                                   *)
LEMMA ListKeeps == ASSUME IInv, NEW page \in SUBSET Releases, List(page) PROVE IInv'
<1>1. CASE Believable(page)
  <2> DEFINE newest == NewestOf(page)
             now == [run EXCEPT !.tries = 1, !.newest = newest, !.there = signed]
  <2>1. /\ run' = IF newest <= Baseline
                  THEN [now EXCEPT !.pc = "decide", !.action = "none"]
                  ELSE [now EXCEPT !.pc = "sig"]
        /\ UNCHANGED <<issues, last, alarms, world>> /\ run.pc = "list" /\ page \in Pages
    BY <1>1 DEF List
  <2>2. run \in RunsAt(Pcs) /\ run.pin \in Releases /\ run.fate \in FateFunctions
        /\ run.action = "" /\ run.results = <<>> /\ run.number = 0
    BY <2>1 DEF IInv, RunOK, Knows
  <2>3. page = signed /\ run.pin \in page
    <3>1. Cardinality(page) \in Nat /\ MinReleases \in Nat
      <4>1. IsFiniteSet(Releases)
        BY SizesAssumption, FS_Interval DEF Releases
      <4>2. IsFiniteSet(page)
        BY <4>1, FS_Subset
      <4> QED
        BY <4>2, FS_CardinalityType, SizesAssumption
    <3>2. ~(Cardinality(page) < MinReleases) /\ run.pin \in page
      BY <1>1, <3>1 DEF Believable
    <3> QED
      BY <2>1, <3>2 DEF Pages
  <2>4. newest \in page /\ \A q \in page : q <= newest
    BY <2>3, NewestOfReleases
  <2> HIDE DEF newest
  <2>5. newest \in Releases /\ newest \in Nat /\ 1 \in 1 .. Tries
    <3>1. newest \in Releases
      BY <2>4
    <3> QED
      BY <3>1, SizesAssumption DEF Releases
  <2>6. run' \in RunsAt(Pcs)
    BY <2>1, <2>2, <2>3, <2>5 DEF RunsAt, Pcs
  <2>7. /\ run'.results = <<>> /\ run'.number = 0 /\ run'.fate = run.fate
        /\ run'.pin = run.pin /\ run'.pretend = run.pretend /\ run'.newest = newest
        /\ run'.there = page /\ run.pc # "idle"
    BY <2>1, <2>2, <2>3 DEF RunsAt
  <2>8. \/ run'.pc = "sig" /\ run'.action = ""
        \/ run'.pc = "decide" /\ run'.action = "none" /\ newest <= Baseline
    BY <2>1, <2>2 DEF RunsAt
  <2>9. run # Idle /\ run' # Idle
    BY <2>1, <2>8, IdleIsARun
  <2>10. newest <= Baseline => \A r \in page : r <= run.pin \/ r <= run.pretend
    <3> SUFFICES ASSUME newest <= Baseline, NEW r \in page
                 PROVE  r <= run.pin \/ r <= run.pretend
      OBVIOUS
    <3>1. r \in Nat /\ r <= newest
      <4>1. r \in Releases
        OBVIOUS
      <4>2. r \in Nat
        BY <4>1, SizesAssumption DEF Releases
      <4> QED
        BY <2>4, <4>2
    <3>2. run.pin \in Nat
      <4>1. run.pin \in Releases
        BY <2>2
      <4> QED
        BY <4>1, SizesAssumption DEF Releases
    <3>3. run.pretend \in Nat
      <4>1. run.pretend \in Releases \union {0}
        BY <2>2 DEF RunsAt, NoRelease
      <4> QED
        BY <4>1, SizesAssumption DEF Releases
    <3>4. newest <= run.pin \/ newest <= run.pretend
      BY DEF Baseline
    <3> QED
      BY <2>5, <3>1, <3>2, <3>3, <3>4
  <2>11. Knows'
    <3>1. NewestKnown(run')
      BY <2>2, <2>5, <2>7 DEF NewestKnown, newest
    <3>2. last'.pc # "green"
      BY <2>1, <2>9 DEF IInv, Knows
    <3>3. CASE run'.pc = "sig" /\ run'.action = ""
      BY <2>2, <2>7, <2>9, <3>1, <3>2, <3>3 DEF Knows, Filing
    <3>4. CASE run'.pc = "decide" /\ run'.action = "none" /\ newest <= Baseline
      BY <2>2, <2>7, <2>9, <2>10, <3>1, <3>2, <3>4 DEF Knows, Filing
    <3> QED
      BY <2>8, <3>3, <3>4
  <2>12. KnowsIssues'
    BY <2>8 DEF KnowsIssues
  <2> QED
    BY <2>1, <2>6, <2>11, <2>12, RunKeeps
<1>2. CASE ~Believable(page)
  BY <1>2, RedUntouchedKeeps DEF List
<1> QED
  BY <1>1, <1>2

LEMMA DownloadKeeps == ASSUME IInv, NEW whole \in BOOLEAN, Download(whole) PROVE IInv'
<1>1. CASE whole
  <2>1. /\ run' = [run EXCEPT !.tries = 1, !.pc = IF run.pc = "sig" THEN "tarball" ELSE "apply"]
        /\ UNCHANGED <<issues, last, alarms, world>> /\ run.pc \in {"sig", "tarball"}
    BY <1>1 DEF Download
  <2>2. run \in RunsAt(Pcs) /\ run.action = "" /\ run.results = <<>> /\ run.number = 0 /\ NewestKnown(run)
    BY <2>1 DEF IInv, RunOK, Knows
  <2>3. 1 \in 1 .. Tries
    BY SizesAssumption
  <2>4. run' \in RunsAt(Pcs) /\ run'.pc \in {"tarball", "apply"}
    BY <2>1, <2>2, <2>3 DEF RunsAt, Pcs
  <2>5. /\ run'.action = "" /\ run'.results = <<>> /\ run'.fate = run.fate /\ run'.pin = run.pin
        /\ run'.number = 0 /\ run'.newest = run.newest /\ run'.there = run.there
    BY <2>1, <2>2 DEF RunsAt
  <2>6. run # Idle /\ run' # Idle
    BY <2>1, <2>4, IdleIsARun
  <2>7. Len(run'.results) = 0
    BY <2>5, EmptySeq
  <2>8. ResultsTrue(run') /\ Len(run'.results) < 2
    <3>1. 0 <= 2 /\ 0 < 2 /\ 1 .. 0 = {}
      OBVIOUS
    <3> QED
      BY <2>7, <3>1, Zenon DEF ResultsTrue
  <2>9. NewestKnown(run') /\ run'.fate \in FateFunctions /\ run'.pin \in Releases
    BY <2>1, <2>2, <2>5 DEF IInv, Knows, NewestKnown
  <2>10. Knows' /\ KnowsIssues'
    <3>1. last'.pc # "green"
      BY <2>1, <2>6 DEF IInv, Knows
    <3> QED
      BY <2>4, <2>5, <2>6, <2>8, <2>9, <3>1 DEF Knows, KnowsIssues, Filing
  <2> QED
    BY <2>1, <2>4, <2>10, RunKeeps
<1>2. CASE ~whole
  BY <1>2, RedUntouchedKeeps DEF Download
<1> QED
  BY <1>1, <1>2

LEMMA ApplyKeeps ==
  ASSUME IInv, NEW v \in Verdicts, NEW out \in PatchOutputs(v), Apply(out)
  PROVE  IInv'
<1>1. CASE ~Distrusted(out)
  <2> DEFINE truth == run.fate[run.newest][Len(run.results) + 1]
             verdict == VerdictOf(out)
             more == Append(run.results, verdict)
             now == [run EXCEPT !.results = more]
  <2>1. /\ run' = IF Len(more) < 2 THEN now ELSE [now EXCEPT !.pc = "decide", !.action = "report"]
        /\ UNCHANGED <<issues, last, alarms, world>> /\ run.pc = "apply" /\ out \in PatchOutputs(truth)
    <3>1. run \in RunsAt(Pcs)
      BY DEF IInv, RunOK
    <3>2. now.results = more
      BY <3>1 DEF RunsAt
    <3> QED
      BY <1>1, <3>2 DEF Apply
  <2>2. run \in RunsAt(Pcs) /\ run.action = "" /\ Len(run.results) < 2 /\ run.number = 0
        /\ NewestKnown(run) /\ ResultsTrue(run) /\ run.pin \in Releases
    BY <2>1 DEF IInv, RunOK, Knows
  <2>3. run.results \in Seq(Verdicts) /\ run.fate[run.newest] \in [Patches -> Verdicts]
    BY <2>2 DEF RunsAt, NewestKnown, FateFunctions
  <2>4. truth \in Verdicts
    BY <2>2, <2>3, AppendTrueResult DEF ResultsTrue
  <2>5. verdict = truth
    BY <1>1, <2>1, <2>4, ReadLogIsTrue
  <2>6. more \in Seq(Verdicts) /\ Len(more) \in {1, 2}
    BY <2>2, <2>3, <2>5, AppendTrueResult DEF ResultsTrue
  <2>7. \A p \in 1 .. Len(more) : more[p] = run.fate[run.newest][p]
    <3>1. /\ Len(run.results) < 2
          /\ \A p \in 1 .. Len(run.results) : run.results[p] = run.fate[run.newest][p]
      BY <2>2 DEF ResultsTrue
    <3>2. more = Append(run.results, run.fate[run.newest][Len(run.results) + 1])
      BY <2>5
    <3> SUFFICES ASSUME NEW p \in 1 .. Len(more) PROVE more[p] = run.fate[run.newest][p]
      OBVIOUS
    <3> QED
      BY <2>3, <3>1, <3>2, AppendTrueResult
  <2>8. Len(more) <= 2
    <3>1. \A n \in {1, 2} : n <= 2
      OBVIOUS
    <3> QED
      BY <2>6, <3>1, Zenon
  <2> HIDE DEF more, truth, verdict
  <2>9. run' \in RunsAt(Pcs)
    BY <2>1, <2>2, <2>6 DEF RunsAt, Pcs
  <2>10. /\ run'.fate = run.fate /\ run'.pin = run.pin /\ run'.number = 0
         /\ run'.newest = run.newest /\ run'.there = run.there /\ run'.results = more
    BY <2>1, <2>2 DEF RunsAt
  <2>11. \/ run'.pc = "apply" /\ run'.action = "" /\ Len(more) < 2
         \/ run'.pc = "decide" /\ run'.action = "report" /\ Len(more) = 2
    <3>1. Len(more) = 2 => ~(Len(more) < 2)
      OBVIOUS
    <3>2. Len(more) = 1 => Len(more) < 2
      OBVIOUS
    <3> QED
      BY <2>1, <2>2, <2>6, <3>1, <3>2 DEF RunsAt
  <2>12. run # Idle /\ run' # Idle
    BY <2>1, <2>11, IdleIsARun
  <2>13. NewestKnown(run') /\ ResultsTrue(run') /\ run'.fate \in FateFunctions /\ run'.pin \in Releases
    BY <2>2, <2>7, <2>8, <2>10 DEF NewestKnown, ResultsTrue
  <2>14. Knows'
    <3>1. last'.pc # "green"
      BY <2>1, <2>12 DEF IInv, Knows
    <3> QED
      BY <2>10, <2>11, <2>12, <2>13, <3>1 DEF Knows, Filing
  <2>15. KnowsIssues'
    BY <2>11 DEF KnowsIssues
  <2> QED
    BY <2>1, <2>9, <2>14, <2>15, RunKeeps
<1>2. CASE Distrusted(out)
  BY <1>2, RedUntouchedKeeps DEF Apply
<1> QED
  BY <1>1, <1>2

LEMMA LoseOutputsKeeps == ASSUME IInv, LoseOutputs PROVE IInv'
<1>1. /\ run' = [run EXCEPT !.action = ""] /\ UNCHANGED <<issues, last, alarms, world>>
      /\ run.pc = "decide"
  BY DEF LoseOutputs
<1>2. run \in RunsAt(Pcs)
  BY DEF IInv, RunOK
<1>3. run' \in RunsAt(Pcs)
  BY <1>1, <1>2 DEF RunsAt
<1>4. /\ run'.pc = "decide" /\ run'.action = "" /\ run'.fate = run.fate /\ run'.pin = run.pin
      /\ run'.number = run.number
  BY <1>1, <1>2 DEF RunsAt
<1>5. run # Idle /\ run' # Idle
  BY <1>1, <1>4, IdleIsARun
<1>6. Knows' /\ KnowsIssues'
  BY <1>1, <1>4, <1>5 DEF IInv, Knows, KnowsIssues, Filing
<1> QED
  BY <1>1, <1>3, <1>6, RunKeeps

LEMMA DecideKeeps == ASSUME IInv, Decide PROVE IInv'
<1>1. run.pc = "decide" /\ UNCHANGED <<issues, world>> /\ run \in RunsAt(Pcs) /\ run.number = 0
  BY DEF Decide, IInv, RunOK, Knows
<1>2. CASE run.action = "" /\ Red
  BY <1>1, <1>2, RedUntouchedKeeps
<1>3. CASE (run.action = "none" \/ (run.action = "report" /\ dry_run)) /\ Green /\ UNCHANGED alarms
  <2>1. IssuesOK' /\ OneOpenIssue'
    BY <1>1, <1>3 DEF IInv, IssuesOK, OneOpenIssue
  <2>2. LostNoticeIsLoud'
    BY <1>1, <1>3 DEF IInv, LostNoticeIsLoud
  <2> QED
    BY <1>1, <1>3, <2>1, <2>2, GreenKeeps
<1>4. CASE /\ run.action = "report" /\ ~dry_run
           /\ run' = [run EXCEPT !.pc = "issues"]
           /\ UNCHANGED <<last, alarms>>
  <2>1. run' \in RunsAt(Pcs) /\ run'.pc = "issues"
    BY <1>1, <1>4 DEF RunsAt, Pcs, Filing
  <2>2. /\ run'.action = "report" /\ run'.fate = run.fate /\ run'.pin = run.pin /\ run'.number = 0
        /\ run'.newest = run.newest /\ run'.there = run.there /\ run'.results = run.results
        /\ run'.asked = run.asked /\ run'.pretend = run.pretend
    BY <1>1, <1>4 DEF RunsAt
  <2>3. run # Idle /\ run' # Idle
    BY <1>1, <2>1, IdleIsARun
  <2>4. Knows' /\ KnowsIssues'
    BY <1>1, <1>4, <2>1, <2>2, <2>3 DEF IInv, Knows, KnowsIssues, Filing, NewestKnown, ResultsTrue, dry_run
  <2> QED
    BY <1>1, <1>4, <2>1, <2>4, RunKeeps
<1> QED
  BY <1>2, <1>3, <1>4 DEF Decide
-----------------------------------------------------------------------------
(* The issue that is found is an open one, and none is found only if there *)
(* is none.                                                                *)
LEMMA IssueInUseIsOpen ==
  ASSUME IssuesOK
  PROVE  IF OpenIssues = {} THEN IssueInUse = 0 ELSE IssueInUse \in OpenIssues
<1>1. Len(issues) \in Nat /\ OpenIssues \in SUBSET (0 .. Len(issues))
  BY LenProperties DEF IssuesOK, OpenIssues
<1>2. CASE OpenIssues # {}
  <2>1. NewestOf(OpenIssues) \in OpenIssues
    BY <1>1, <1>2, NewestIsGreatest
  <2> QED
    BY <1>2, <2>1 DEF IssueInUse
<1> QED
  BY <1>2 DEF IssueInUse

LEMMA ListIssuesKeeps == ASSUME IInv, ListIssues PROVE IInv'
<1> DEFINE n == IssueInUse
<1>1. /\ run' = IF n = 0 THEN [run EXCEPT !.pc = "create"]
                ELSE [run EXCEPT !.pc = "edit", !.number = n, !.old = issues[n].title]
      /\ UNCHANGED <<issues, last, alarms, world>> /\ run.pc = "issues"
  BY DEF ListIssues
<1>2. run \in RunsAt(Pcs) /\ issues \in Seq(Issue) /\ IssuesOK
  BY DEF IInv, RunOK, IssuesOK
<1>3. IF OpenIssues = {} THEN n = 0 ELSE n \in OpenIssues
  BY <1>2, IssueInUseIsOpen
<1> HIDE DEF n
<1>4. n # 0 => n \in 1 .. Len(issues)
  BY <1>3 DEF OpenIssues
<1>5. n # 0 => issues[n].title \in Nat \X Verdicts /\ n \in Nat
  <2> SUFFICES ASSUME n # 0 PROVE issues[n].title \in Nat \X Verdicts /\ n \in Nat
    OBVIOUS
  <2>1. issues[n].title \in Releases \X Verdicts
    <3>1. issues[n] \in Issue
      BY <1>2, <1>4, ElementOfSeq, Zenon
    <3> QED
      BY <3>1 DEF Issue, Titles
  <2>2. Releases \subseteq Nat
    BY SizesAssumption DEF Releases
  <2>3. n \in Nat
    BY <1>2, <1>4, LenProperties
  <2> QED
    BY <2>1, <2>2, <2>3
<1>6. run' \in RunsAt(Pcs)
  BY <1>1, <1>2, <1>5 DEF RunsAt, Pcs, Filing
<1>7. /\ run'.action = run.action /\ run'.fate = run.fate /\ run'.pin = run.pin
      /\ run'.newest = run.newest /\ run'.there = run.there /\ run'.results = run.results
      /\ run'.asked = run.asked /\ run'.pretend = run.pretend
  BY <1>1, <1>2 DEF RunsAt
<1>8. \/ run'.pc = "create" /\ run'.number = run.number /\ n = 0
      \/ run'.pc = "edit" /\ run'.number = n /\ n # 0 /\ run'.old = issues[n].title
  BY <1>1, <1>2 DEF RunsAt
<1>9. run # Idle /\ run' # Idle
  BY <1>1, <1>8, IdleIsARun
<1>10. Knows'
  BY <1>1, <1>7, <1>8, <1>9 DEF IInv, Knows, Filing, NewestKnown, ResultsTrue, dry_run
<1>11. KnowsIssues'
  <2>1. OpenIssues' = OpenIssues
    BY <1>1 DEF OpenIssues
  <2> QED
    BY <1>1, <1>3, <1>4, <1>8, <2>1 DEF KnowsIssues, OpenIssues
<1> QED
  BY <1>1, <1>6, <1>10, <1>11, RunKeeps

LEMMA CreateKeeps == ASSUME IInv, NEW answered \in BOOLEAN, Create(answered) PROVE IInv'
<1> DEFINE issue == [open |-> TRUE, title |-> Title, told |-> Title]
<1>1. run.pc = "create" /\ issues' = Append(issues, issue) /\ UNCHANGED world
  BY DEF Create
<1>2. /\ run.action = "report" /\ ~dry_run /\ run.number = 0 /\ OpenIssues = {}
      /\ issues \in Seq(Issue) /\ alarms \subseteq 1 .. Len(issues)
  BY <1>1 DEF IInv, Knows, KnowsIssues, IssuesOK, Filing
<1>3. Title \in Titles
  BY <1>2, TitleIsATitle DEF IInv
<1>4. issue \in Issue
  BY <1>3 DEF Issue
<1>5. issue.title = Title /\ issue.told = Title /\ Len(issues) \in Nat
  BY <1>2, LenProperties
<1> HIDE DEF issue
<1>6. /\ issues' \in Seq(Issue) /\ Len(issues') = Len(issues) + 1
      /\ \A i \in 1 .. Len(issues) : issues'[i] = issues[i]
      /\ issues'[Len(issues) + 1] = issue
  BY <1>1, <1>2, <1>4, AppendProperties
<1>7. \A i \in 1 .. Len(issues') : i \in 1 .. Len(issues) \/ i = Len(issues')
  BY <1>5, <1>6
<1>8. Len(issues') \in 1 .. Len(issues') /\ issues'[Len(issues')].title = Title
      /\ issues'[Len(issues')].told = Title
  BY <1>5, <1>6
<1>9. alarms \subseteq 1 .. Len(issues')
  BY <1>2, <1>5, <1>6
<1>10. OneOpenIssue'
  BY <1>2, <1>6, <1>7 DEF OneOpenIssue, OpenIssues
<1>11. \A i \in 1 .. Len(issues') :
         issues'[i].title # issues'[i].told => i \in alarms
  BY <1>1, <1>6, <1>7, <1>8 DEF IInv, LostNoticeIsLoud
<1>12. CASE answered
  <2>1. Green /\ UNCHANGED alarms
    BY <1>12 DEF Create
  <2>2. LostNoticeIsLoud' /\ IssuesOK'
    BY <2>1, <1>6, <1>9, <1>11 DEF LostNoticeIsLoud, IssuesOK
  <2> QED
    BY <1>1, <1>2, <1>8, <1>10, <2>1, <2>2, GreenKeeps
<1>13. CASE ~answered
  <2>1. Red
    BY <1>13 DEF Create
  <2>2. IssuesOK'
    BY <2>1, <1>2, <1>6, <1>9 DEF IssuesOK, Red
  <2> QED
    BY <1>1, <1>10, <1>11, <2>1, <2>2, RedKeeps
<1> QED
  BY <1>12, <1>13

(* The issue in use after one of its fields was set. *)
LEMMA SetField ==
  ASSUME IInv, run.pc \in {"edit", "comment"}, NEW issue \in Issue,
         issue.open = issues[run.number].open,
         issues' = [issues EXCEPT ![run.number] = issue]
  PROVE  /\ run.number \in 1 .. Len(issues) /\ run.number # 0
         /\ issues' \in Seq(Issue) /\ Len(issues') = Len(issues)
         /\ \A i \in 1 .. Len(issues) : issues'[i] = IF i = run.number THEN issue ELSE issues[i]
         /\ alarms \subseteq 1 .. Len(issues')
         /\ OneOpenIssue'
<1>1. run.number \in 1 .. Len(issues) /\ issues \in Seq(Issue) /\ alarms \subseteq 1 .. Len(issues)
  BY DEF IInv, KnowsIssues, IssuesOK
<1>2. /\ issues' \in Seq(Issue) /\ Len(issues') = Len(issues)
      /\ \A i \in 1 .. Len(issues) : issues'[i] = IF i = run.number THEN issue ELSE issues[i]
  BY <1>1, ExceptSeq
<1>3. \A i \in 1 .. Len(issues) : issues'[i].open = issues[i].open
  BY <1>2
<1>4. OneOpenIssue'
  BY <1>2, <1>3 DEF IInv, OneOpenIssue
<1>5. run.number # 0
  BY <1>1
<1> QED
  BY <1>1, <1>2, <1>4, <1>5

LEMMA EditKeeps == ASSUME IInv, NEW answered \in BOOLEAN, Edit(answered) PROVE IInv'
<1> DEFINE n == run.number
           issue == [issues[n] EXCEPT !.title = Title]
<1>1. run.pc = "edit" /\ issues' = [issues EXCEPT ![n] = issue] /\ UNCHANGED world
  BY DEF Edit
<1>2. /\ run.action = "report" /\ ~dry_run /\ n \in 1 .. Len(issues) /\ run.old = issues[n].title
      /\ issues \in Seq(Issue) /\ run \in RunsAt(Pcs)
  BY <1>1 DEF IInv, Knows, KnowsIssues, IssuesOK, Filing, RunOK
<1>3. issues[n] \in Issue
  BY <1>2, ElementOfSeq
<1>4. Title \in Titles
  BY <1>2, TitleIsATitle DEF IInv
<1>5. /\ issue \in Issue /\ issue.open = issues[n].open
      /\ issue.title = Title /\ issue.told = issues[n].told
  BY <1>3, <1>4 DEF Issue
<1> HIDE DEF issue
<1>6. /\ n # 0 /\ issues' \in Seq(Issue) /\ Len(issues') = Len(issues)
      /\ \A i \in 1 .. Len(issues) : issues'[i] = IF i = n THEN issue ELSE issues[i]
      /\ alarms \subseteq 1 .. Len(issues') /\ OneOpenIssue'
  BY <1>1, <1>5, SetField
<1>7. \A i \in 1 .. Len(issues') :
        issues'[i].title # issues'[i].told => i \in alarms \/ i = n
  BY <1>1, <1>6 DEF IInv, LostNoticeIsLoud
<1>8. CASE ~answered
  <2>1. Red
    BY <1>8 DEF Edit
  <2>2. IssuesOK'
    BY <2>1, <1>2, <1>6 DEF IssuesOK, Red
  <2> QED
    BY <1>1, <1>6, <1>7, <2>1, <2>2, RedKeeps
<1>9. CASE answered /\ run.old = Title
  <2>1. Green /\ UNCHANGED alarms
    BY <1>9 DEF Edit
  <2>2. issues[n].title = Title
    BY <1>2, <1>9
  <2>3. \A i \in 1 .. Len(issues) : issues'[i].title = issues[i].title /\ issues'[i].told = issues[i].told
    BY <1>5, <1>6, <2>2
  <2>4. LostNoticeIsLoud' /\ IssuesOK'
    BY <1>1, <1>6, <2>1, <2>3 DEF IInv, LostNoticeIsLoud, IssuesOK
  <2>5. n \in 1 .. Len(issues') /\ issues'[n].title = Title
    BY <1>2, <1>5, <1>6
  <2> QED
    BY <1>1, <1>2, <1>6, <2>1, <2>4, <2>5, GreenKeeps
<1>10. CASE answered /\ run.old # Title
  <2>1. run' = [run EXCEPT !.pc = "comment"] /\ UNCHANGED <<last, alarms>>
    BY <1>10 DEF Edit
  <2>2. run' \in RunsAt(Pcs) /\ run'.pc = "comment" /\ last'.pc # "green"
    <3>1. last.pc # "green"
      BY <1>1, IdleIsARun DEF IInv, Knows
    <3> QED
      BY <1>2, <2>1, <3>1 DEF RunsAt, Pcs, Filing
  <2>3. /\ run'.action = run.action /\ run'.fate = run.fate /\ run'.pin = run.pin /\ run'.number = n
        /\ run'.newest = run.newest /\ run'.there = run.there /\ run'.results = run.results
        /\ run'.asked = run.asked /\ run'.pretend = run.pretend
    BY <1>2, <2>1 DEF RunsAt
  <2>4. run # Idle /\ run' # Idle
    BY <1>1, <2>2, IdleIsARun
  <2>5. Knows'
    BY <1>1, <1>2, <2>2, <2>3, <2>4 DEF IInv, Knows, Filing, NewestKnown, ResultsTrue, dry_run
  <2>6. KnowsIssues'
    <3>1. Title' = Title
      BY <2>3 DEF Title
    <3>2. issues'[n].title = Title /\ n \in 1 .. Len(issues')
      BY <1>2, <1>5, <1>6
    <3> QED
      BY <2>2, <2>3, <3>1, <3>2 DEF KnowsIssues
  <2>7. WorldOK' /\ IssuesOK' /\ RunOK'
    BY <1>1, <1>6, <2>1, <2>2 DEF IInv, WorldOK, IssuesOK, RunOK, world
  <2>8. NothingNewIsTrue' /\ ReportIsOnFile'
    BY <2>2 DEF NothingNewIsTrue, ReportIsOnFile
  <2>9. LostNoticeIsLoud'
    BY <1>7, <2>1, <2>2, <2>3 DEF LostNoticeIsLoud
  <2> QED
    BY <1>6, <2>5, <2>6, <2>7, <2>8, <2>9 DEF IInv
<1> QED
  BY <1>8, <1>9, <1>10

LEMMA CommentKeeps == ASSUME IInv, NEW answered \in BOOLEAN, Comment(answered) PROVE IInv'
<1> DEFINE n == run.number
           issue == [issues[n] EXCEPT !.told = Title]
<1>1. run.pc = "comment" /\ issues' = [issues EXCEPT ![n] = issue] /\ UNCHANGED world
  BY DEF Comment
<1>2. /\ run.action = "report" /\ ~dry_run /\ n \in 1 .. Len(issues) /\ issues[n].title = Title
      /\ issues \in Seq(Issue)
  BY <1>1 DEF IInv, Knows, KnowsIssues, IssuesOK, Filing
<1>3. issues[n] \in Issue
  BY <1>2, ElementOfSeq
<1>4. Title \in Titles
  BY <1>2, TitleIsATitle DEF IInv
<1>5. /\ issue \in Issue /\ issue.open = issues[n].open
      /\ issue.title = Title /\ issue.told = Title
  BY <1>2, <1>3, <1>4 DEF Issue
<1> HIDE DEF issue
<1>6. /\ n # 0 /\ issues' \in Seq(Issue) /\ Len(issues') = Len(issues)
      /\ \A i \in 1 .. Len(issues) : issues'[i] = IF i = n THEN issue ELSE issues[i]
      /\ alarms \subseteq 1 .. Len(issues') /\ OneOpenIssue'
  BY <1>1, <1>5, SetField
<1>7. \A i \in 1 .. Len(issues') :
        issues'[i].title # issues'[i].told => i \in alarms /\ i # n
  BY <1>1, <1>5, <1>6 DEF IInv, LostNoticeIsLoud
<1>8. CASE answered
  <2>1. Green /\ alarms' = alarms \ {n}
    BY <1>8 DEF Comment
  <2>2. LostNoticeIsLoud' /\ IssuesOK'
    BY <1>6, <1>7, <2>1 DEF LostNoticeIsLoud, IssuesOK
  <2>3. n \in 1 .. Len(issues') /\ issues'[n].title = Title
    BY <1>2, <1>5, <1>6
  <2> QED
    BY <1>1, <1>2, <1>6, <2>1, <2>2, <2>3, GreenKeeps
<1>9. CASE ~answered
  <2>1. Red
    BY <1>9 DEF Comment
  <2>2. IssuesOK'
    BY <2>1, <1>2, <1>6 DEF IssuesOK, Red
  <2> QED
    BY <1>1, <1>6, <1>7, <2>1, <2>2, RedKeeps
<1> QED
  BY <1>8, <1>9
-----------------------------------------------------------------------------
LEMMA InitIInv == Init => IInv
<1> SUFFICES ASSUME Init PROVE IInv
  OBVIOUS
<1>1. /\ listed = 1 .. FirstReleases /\ signed = listed /\ pin = FirstReleases /\ pinUsable = TRUE /\ armed = TRUE
      /\ fate = [r \in Releases |-> [p \in Patches |-> "clean"]]
      /\ issues = <<>> /\ run = Idle /\ last = Idle /\ alarms = {} /\ acts = 0
  BY DEF Init
<1>2. WorldOK
  BY <1>1, SizesAssumption DEF WorldOK, FateFunctions, Releases, Verdicts
<1>3. issues \in Seq(Issue) /\ Len(issues) = 0
  BY <1>1
<1>4. 1 .. Len(issues) = {}
  BY <1>3
<1>5. IssuesOK
  BY <1>1, <1>3 DEF IssuesOK
<1>6. RunOK
  BY <1>1, IdleIsARun DEF RunOK
<1>7. /\ run.pc = "idle" /\ run.action = "" /\ run.number = 0 /\ last.pc = "idle"
  BY <1>1 DEF Idle
<1>8. Knows /\ KnowsIssues
  BY <1>1, <1>7 DEF Knows, KnowsIssues, Filing
<1>9. NothingNewIsTrue /\ ReportIsOnFile
  BY <1>7 DEF NothingNewIsTrue, ReportIsOnFile
<1>10. OneOpenIssue /\ LostNoticeIsLoud
  BY <1>4 DEF OneOpenIssue, LostNoticeIsLoud
<1> QED
  BY <1>2, <1>5, <1>6, <1>8, <1>9, <1>10 DEF IInv

LEMMA WatchKeeps == ASSUME IInv, Watch PROVE IInv'
<1>1. CASE ReadPin
  BY <1>1, ReadPinKeeps
<1>2. CASE FetchFails
  BY <1>2, FetchFailsKeeps
<1>3. CASE Trouble
  BY <1>3, RedUntouchedKeeps DEF Trouble
<1>4. CASE LoseOutputs
  BY <1>4, LoseOutputsKeeps
<1>5. CASE Decide
  BY <1>5, DecideKeeps
<1>6. CASE \E page \in SUBSET Releases : List(page)
  BY <1>6, ListKeeps
<1>7. CASE \E whole \in BOOLEAN : Download(whole)
  BY <1>7, DownloadKeeps
<1>8. CASE \E v \in Verdicts : \E out \in PatchOutputs(v) : Apply(out)
  BY <1>8, ApplyKeeps
<1> QED
  BY <1>1, <1>2, <1>3, <1>4, <1>5, <1>6, <1>7, <1>8 DEF Watch

LEMMA ReportKeeps == ASSUME IInv, Report PROVE IInv'
<1>1. CASE ListIssues
  BY <1>1, ListIssuesKeeps
<1>2. CASE GhFails
  BY <1>2, RedUntouchedKeeps DEF GhFails
<1>3. CASE \E answered \in BOOLEAN : Create(answered)
  BY <1>3, CreateKeeps
<1>4. CASE \E answered \in BOOLEAN : Edit(answered)
  BY <1>4, EditKeeps
<1>5. CASE \E answered \in BOOLEAN : Comment(answered)
  BY <1>5, CommentKeeps
<1> QED
  BY <1>1, <1>2, <1>3, <1>4, <1>5 DEF Report

LEMMA NextKeeps == ASSUME IInv, [Next]_vars PROVE IInv'
<1>1. acts \in 0 .. MaxActs /\ MaxActs \in Nat
  BY SizesAssumption DEF IInv, WorldOK
<1>2. CASE Schedule
  <2>1. acts' \in 0 .. MaxActs
    BY <1>1, <1>2 DEF Schedule
  <2>2. Start(FALSE, NoRelease) /\ armed' \in BOOLEAN
    BY <1>2 DEF Schedule, IInv, WorldOK
  <2> QED
    BY <2>1, <2>2, StartKeeps
<1>3. ASSUME NEW asked \in BOOLEAN, NEW pretend \in Pretends \union {NoRelease},
             Dispatch(asked, pretend)
      PROVE  IInv'
  <2>1. acts' \in 0 .. MaxActs
    BY <1>1, <1>3 DEF Dispatch, Act
  <2>2. /\ pretend \in Releases \union {NoRelease}
        /\ Start(asked, pretend) /\ armed' \in BOOLEAN
    BY <1>3, FatesAssumption DEF Dispatch
  <2> QED
    BY <2>1, <2>2, StartKeeps
<1>4. CASE People
  BY <1>4, PeopleKeep
<1>5. CASE Watch
  BY <1>5, WatchKeeps
<1>6. CASE Report
  BY <1>6, ReportKeeps
<1>7. CASE Kill
  BY <1>7, RedUntouchedKeeps DEF Kill
<1>8. CASE UNCHANGED vars
  <2>1. UNCHANGED <<listed, signed, pin, pinUsable, fate, armed, acts, issues, run, last, alarms>>
    BY <1>8 DEF vars
  <2>2. WorldOK'
    BY <2>1 DEF IInv, WorldOK
  <2> QED
    BY <2>1, <2>2, WorldKeeps
<1>9. CASE Disable
  <2>1. WorldOK'
    BY <1>9 DEF Disable, IInv, WorldOK
  <2> QED
    BY <1>9, <2>1, WorldKeeps DEF Disable
<1> QED
  BY <1>2, <1>3, <1>4, <1>5, <1>6, <1>7, <1>8, <1>9 DEF Next

(* The inductive invariant: what a run knows where it stands, what the     *)
(* issues are, and the four properties.                                    *)
THEOREM IInvCorrect == Spec => []IInv
<1>1. Init => IInv
  BY InitIInv
<1>2. IInv /\ [Next]_vars => IInv'
  BY NextKeeps
<1> QED
  BY <1>1, <1>2, PTL DEF Spec, Safety

(* Every variable keeps its type; an attempt is never counted past the     *)
(* last one (http_get, http_download).                                     *)
THEOREM TypeCorrect == Spec => []TypeOK
<1>1. IInv => TypeOK
  <2> SUFFICES ASSUME IInv PROVE TypeOK
    OBVIOUS
  <2>1. run.tries \in 1 .. Tries
    BY DEF IInv, RunOK, RunsAt
  <2> QED
    BY <2>1 DEF IInv, WorldOK, IssuesOK, FateFunctions, Issue, Titles, TypeOK
<1> QED
  BY <1>1, IInvCorrect, PTL

(* A green run that says there is nothing new says so of what was signed   *)
(* when the listing answered (parse_index, decide): no answer that is cut, *)
(* lost or of something else passes for "nothing new".                     *)
THEOREM NothingNewAlwaysTrue == Spec => []NothingNewIsTrue
<1>1. IInv => NothingNewIsTrue
  BY DEF IInv
<1> QED
  BY <1>1, IInvCorrect, PTL

(* A green run that was to file has filed what the patches it checked out  *)
(* do on the newest release it was shown (apply_patch, build_report, the   *)
(* "One issue, reused" step).                                              *)
THEOREM ReportAlwaysOnFile == Spec => []ReportIsOnFile
<1>1. IInv => ReportIsOnFile
  BY DEF IInv
<1> QED
  BY <1>1, IInvCorrect, PTL

(* There are never two open issues, whatever answer of GitHub was lost and *)
(* whoever closed one meanwhile.                                           *)
THEOREM AlwaysOneOpenIssue == Spec => []OneOpenIssue
<1>1. IInv => OneOpenIssue
  BY DEF IInv
<1> QED
  BY <1>1, IInvCorrect, PTL

(* A headline that changed without a comment was changed by a run that     *)
(* went red.                                                               *)
THEOREM LostNoticeAlwaysLoud == Spec => []LostNoticeIsLoud
<1>1. IInv => LostNoticeIsLoud
  BY DEF IInv
<1> QED
  BY <1>1, IInvCorrect, PTL

(* A dry run, asked for or forced by a pretended baseline, changes no      *)
(* issue: it never gets past the decision.                                 *)
THEOREM DryRunAlwaysFilesNothing == Spec => DryRunFilesNothing
<1> DEFINE Dry == run.asked \/ run.pretend # NoRelease
           Same == /\ Len(issues') = Len(issues)
                   /\ \A i \in 1 .. Len(issues) : /\ issues'[i].title = issues[i].title
                                                  /\ issues'[i].told = issues[i].told
<1>1. ASSUME IInv, [Next]_vars, Dry PROVE Same
  <2>1. dry_run
    BY <1>1 DEF dry_run, DryRun
  <2>2. run.pc \notin Filing
    BY <1>1, <2>1 DEF IInv, Knows
  <2>3. CASE UNCHANGED issues
    BY <2>3
  <2>4. ASSUME NEW i \in 1 .. Len(issues), CloseIssue(i) PROVE Same
    <3>1. issues \in Seq(Issue) /\ issues' = [issues EXCEPT ![i].open = FALSE]
      BY <1>1, <2>4 DEF IInv, IssuesOK, CloseIssue
    <3>2. \A j \in 1 .. Len(issues) : issues[j] \in Issue
      BY <3>1, ElementOfSeq, Zenon
    <3>3. DOMAIN issues = 1 .. Len(issues) /\ Len(issues) \in Nat
      BY <3>1, LenProperties
    <3>4. issues' = [j \in 1 .. Len(issues) |->
                       IF j = i THEN [issues[i] EXCEPT !.open = FALSE] ELSE issues[j]]
      BY <3>1, <3>3
    <3>5. Len(issues') = Len(issues)
      BY <3>3, <3>4
    <3>6. ASSUME NEW j \in 1 .. Len(issues)
          PROVE  issues'[j].title = issues[j].title /\ issues'[j].told = issues[j].told
      BY <3>2, <3>4, <3>6 DEF Issue
    <3> QED
      BY <3>5, <3>6
  <2>5. CASE People
    BY <2>3, <2>4, <2>5 DEF People, Publish, Repatch, Sign, Bump, Repoint
  <2>6. CASE Watch
    BY <2>3, <2>6 DEF Watch, ReadPin, FetchFails, Trouble, LoseOutputs, Decide, List, Download, Apply
  <2>7. CASE Report
    BY <2>2, <2>7 DEF Report, ListIssues, GhFails, Create, Edit, Comment, Filing
  <2>8. CASE Schedule
    BY <2>3, <2>8 DEF Schedule, Start
  <2>9. ASSUME NEW asked, NEW pretend, Dispatch(asked, pretend) PROVE Same
    BY <2>3, <2>9 DEF Dispatch, Start
  <2>10. CASE Kill
    BY <2>3, <2>10 DEF Kill
  <2>11. CASE UNCHANGED vars
    BY <2>3, <2>11 DEF vars
  <2>12. CASE Disable
    BY <2>3, <2>12 DEF Disable
  <2> QED
    BY <1>1, <2>5, <2>6, <2>7, <2>8, <2>9, <2>10, <2>11, <2>12 DEF Next
<1>2. IInv /\ [Next]_vars => [Dry => Same]_vars
  BY <1>1
<1> QED
  BY <1>2, IInvCorrect, PTL DEF Spec, Safety, DryRunFilesNothing
=============================================================================
