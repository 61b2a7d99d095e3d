----------------------------- MODULE PatchHunks -----------------------------
(* tb/fixhunks.py: the hunk headers and blob hashes of a patch that only   *)
(* adds files, reported or rewritten.  A patch is a sequence of lines:     *)
(*   [kind |-> "hunk", count |-> N]    @@ -0,0 +1,N @@, N = None otherwise *)
(*   [kind |-> "index", hash |-> h]    index 0000000..h                    *)
(*   [kind |-> "path", text |-> t]     +++ b/t, which begins with a + too  *)
(*   [kind |-> "add", text |-> t]      +t                                  *)
(*   [kind |-> "nonl"]                 \ No newline at end of file         *)
(*   [kind |-> "other", text |-> t]    anything else                       *)
(* A hash is the file it is the hash of, whose lines are all ended.        *)
EXTENDS ToolBase

(* blob_hash: what joins and ends the lines makes one of none. *)
BlobHash(body) == IF body = <<>> THEN <<"">> ELSE body

Begins(line) == line.kind \in {"add", "path"}

InBody(line) == Begins(line) \/ line.kind = "nonl"

Hunks(lines) == {i \in DOMAIN lines : lines[i].kind = "hunk"}

(* walk stops at the first hunk that does not create a file from nothing.  *)
NotAllAdditions(lines) == \E i \in Hunks(lines) : lines[i].count = None

(* Defective: the body of the last hunk is not ended by the end of the     *)
(* patch.                                                                  *)
EndOfBodyShort(lines, i) ==
  CHOOSE j \in i + 1 .. Len(lines) + 1 :
    /\ \A k \in i + 1 .. j - 1 : InBody(lines[k])
    /\ j >= Len(lines) \/ ~InBody(lines[j])

(* One past the last line of the body of the hunk at i. *)
EndOfBody(lines, i) ==
  CHOOSE j \in i + 1 .. Len(lines) + 1 :
    /\ \A k \in i + 1 .. j - 1 : InBody(lines[k])
    /\ j > Len(lines) \/ ~InBody(lines[j])

Added(lines, from, to) == {k \in from .. to : Begins(lines[k])}

(* The texts of the lines at these places, in their order. *)
Nth(places, n) == CHOOSE k \in places : Cardinality({j \in places : j < k}) = n - 1

TextsAt(lines, places) == [n \in 1 .. Cardinality(places) |-> lines[Nth(places, n)].text]

HunkBody(lines, i) == TextsAt(lines, Added(lines, i + 1, EndOfBody(lines, i) - 1))

(* added_files: None is the exception. *)
AddedFiles(lines) ==
  IF \/ NotAllAdditions(lines)
     \/ \E i \in Hunks(lines) : i = 1 \/ lines[i - 1].kind # "path"
  THEN None
  ELSE LET names == {lines[i - 1].text : i \in Hunks(lines)}
           last == [n \in names |->
                      CHOOSE i \in Hunks(lines) :
                        /\ lines[i - 1].text = n
                        /\ \A k \in Hunks(lines) : lines[k - 1].text = n => k <= i]
       IN [n \in names |-> HunkBody(lines, last[n])]

(* What process makes of the lines: every hunk header, and the index line  *)
(* three above it when there is one.                                       *)
Corrected(lines) ==
  LET Right(i) == [kind |-> "hunk", count |-> Len(HunkBody(lines, i))]
      Indexed(k) == lines[k].kind = "index" /\ k + 3 \in Hunks(lines)
      Index(k) == [kind |-> "index", hash |-> BlobHash(HunkBody(lines, k + 3))]
  IN [i \in DOMAIN lines |-> IF i \in Hunks(lines) THEN Right(i)
                             ELSE IF Indexed(i) THEN Index(i) ELSE lines[i]]

Stale(lines) == {i \in DOMAIN lines : Corrected(lines)[i] # lines[i]}

(* main, one patch: what it exits with, and the file afterwards. *)
CheckVerdict(lines) ==
  IF NotAllAdditions(lines) THEN "stopped" ELSE Judge(Cardinality(Stale(lines)))

Rewritten(lines) == IF NotAllAdditions(lines) THEN lines ELSE Corrected(lines)
-----------------------------------------------------------------------------
(* patch(1) applies the hunk at i up to the line e: what it takes is N     *)
(* lines, all of them added, and the first line it leaves is not.          *)
Taken(lines, i, e) == {k \in i + 1 .. e : lines[k].kind # "nonl"}

AppliesUpTo(lines, i, e) ==
  /\ Cardinality(Taken(lines, i, e)) = lines[i].count
  /\ \A k \in Taken(lines, i, e) : Begins(lines[k])
  /\ \A k \in e + 1 .. Len(lines) :
       Begins(lines[k]) => \E j \in e + 1 .. k : ~InBody(lines[j])

Ends(lines, i) == {e \in i .. Len(lines) : AppliesUpTo(lines, i, e)}

(* A green check claims that every hunk applies, and builds the file that  *)
(* its index line names.  A file that is empty, or whose last line is not  *)
(* ended, is outside that claim: blob_hash ends every line, and one.       *)
Unended(lines, i) ==
  \E k \in i + 1 .. Len(lines) :
    lines[k].kind = "nonl" /\ \A j \in i + 1 .. k : InBody(lines[j])

HunksRight(lines) ==
  \A i \in Hunks(lines) :
    /\ Ends(lines, i) # {}
    /\ \A e \in Ends(lines, i) :
         LET built == TextsAt(lines, Taken(lines, i, e))
         IN i > 3 /\ lines[i - 3].kind = "index" /\ built # <<>> /\ ~Unended(lines, i) =>
              lines[i - 3].hash = built

(* A rewrite leaves a patch that the check passes and patch(1) applies,    *)
(* with nothing but headers and index lines changed, or the patch as it    *)
(* was if it is not all additions.                                         *)
RewriteRight(before, after) ==
  IF NotAllAdditions(before) THEN after = before
  ELSE /\ CheckVerdict(after) = "PASS"
       /\ \A i \in Hunks(after) : Ends(after, i) # {}
       /\ Len(after) = Len(before)
       /\ \A i \in DOMAIN after : before[i].kind \notin {"hunk", "index"} => after[i] = before[i]
=============================================================================
