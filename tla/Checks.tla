------------------------------- MODULE Checks -------------------------------
(* The programs of tb/ that judge, rewrite or draw up a file, one run of   *)
(* one of them on one input.                                               *)
EXTENDS IsaCheck, RomCompare, DocTruth, ObjectConverters, CaseBenches

CONSTANTS Inputs   \* the inputs of each program

Gen == INSTANCE MutantGen
Cov == INSTANCE StageCoverage

VARIABLES
  tool,     \* the program
  input,    \* what it is given
  verdict,  \* how it ended
  output    \* the file it wrote

vars == <<tool, input, verdict, output>>

ASSUME ChecksAssumption ==
  DOMAIN Inputs \subseteq {"isa_check", "hexoracle", "romdiff", "fixhunks", "doctruth", "le2be",
                           "sym_uc", "ar", "branch", "bits", "reloc", "guard", "script",
                           "gen", "coverage"}

Given(program) == IF program \in DOMAIN Inputs THEN Inputs[program] ELSE {}

(* The benches read their cases from lists of well-formed ones.            *)
ASSUME BenchAssumption ==
  /\ \A w \in Given("branch") :
       IsList(w.branch) /\ \A k \in DOMAIN w.branch : BranchCase(w.branch[k])
  /\ \A w \in Given("bits") : IsList(w.asm) /\ IsList(w.bitlink)
  /\ \A w \in Given("reloc") :
       /\ IsList(w.reloc) /\ \A k \in DOMAIN w.reloc : RelocCase(w.reloc[k])
       /\ IdentityCase(w.identity)
  /\ \A w \in Given("guard") :
       IsList(w.guard) /\ \A k \in DOMAIN w.guard : GuardCase(w.guard[k])
  /\ \A w \in Given("script") : ScriptCase(w.script) /\ IsFiniteSet(w.zero.regions)

(* Damage to a record of the corpus shows in its sum.                      *)
ASSUME IsaAssumption == \A w \in Given("isa_check") : IsaCase(w)

(* hexoracle reads images of bytes, and EXPECT is a table of numbers, the  *)
(* counts of which were taken of a ROM beside the image of 2001.           *)
ASSUME OracleAssumption == \A w \in Given("hexoracle") : OracleCase(w)

(* romdiff reads images of bytes, and lines of columns.                    *)
ASSUME RomDiffAssumption == \A w \in Given("romdiff") : RomDiffCase(w)

(* fixhunks reads lines, and a count is a number or is not there.          *)
ASSUME PatchAssumption == None \notin Nat /\ \A lines \in Given("fixhunks") : IsList(lines)

(* doctruth reads a patch and a manual, line by line.                      *)
ASSUME DocAssumption == \A d \in Given("doctruth") : IsList(d.patch) /\ IsList(d.texi)

(* The converters read objects, and archives of them.                      *)
ASSUME ObjectAssumption ==
  /\ \A o \in Given("le2be") \union Given("sym_uc") : ObjectCase(o)
  /\ \A members \in Given("ar") :
       IsList(members) /\ \A k \in DOMAIN members : MemberCase(members[k])

(* STAGES of run.py is a tuple of different names, and not empty. *)
ASSUME CoverageAssumption ==
  \A w \in Given("coverage") :
    /\ w.stages \in Seq(STRING \ {Cov!NoStage}) \ {<<>>}
    /\ \A i, j \in DOMAIN w.stages : w.stages[i] = w.stages[j] => i = j

(* A source is a sequence of lines of characters, and --cap a number.      *)
ASSUME GenAssumption ==
  \A w \in Given("gen") : w.lines \in Seq(Seq(STRING)) /\ w.cap \in Nat

Init ==
  /\ tool \in DOMAIN Inputs
  /\ input \in Inputs[tool]
  /\ verdict = "none" /\ output = None

Judged(program, how) ==
  /\ tool = program /\ verdict = "none"
  /\ verdict' = how
  /\ UNCHANGED <<tool, input, output>>

Wrote(program, file) ==
  /\ tool = program /\ verdict = "none"
  /\ verdict' = IF file = None THEN "stopped" ELSE "PASS"
  /\ output' = file
  /\ UNCHANGED <<tool, input>>

RunIsaCheck == Judged("isa_check", IsaVerdict(input))
RunOracle == Judged("hexoracle", OracleVerdict(input))
RunRomDiff == Judged("romdiff", RomDiffVerdict(input))
RunDocTruth == Judged("doctruth", DocTruthVerdict(input))
RunBranch == Judged("branch", BranchVerdict(input))
RunBits == Judged("bits", BitsVerdict(input))
RunReloc == Judged("reloc", RelocVerdict(input))
RunGuard == Judged("guard", GuardVerdict(input))
RunScript == Judged("script", ScriptVerdict(input))

CheckHeaders == Judged("fixhunks", CheckVerdict(input))
RewriteHeaders == Wrote("fixhunks", Rewritten(input))

ConvertObject == Wrote("le2be", ConvertElf(input))
UppercaseObject == Wrote("sym_uc", UppercaseSymbols(input))
ConvertLibrary == Wrote("ar", ConvertArchive(input))

MutateSource == Wrote("gen", Gen!Generate(input.lines, input.cap))
GateMutants == Wrote("coverage", Cov!Runs(input.mutants, input.stages))

Next ==
  \/ RunIsaCheck \/ RunOracle \/ RunRomDiff \/ RunDocTruth
  \/ RunBranch \/ RunBits \/ RunReloc \/ RunGuard \/ RunScript
  \/ CheckHeaders \/ RewriteHeaders
  \/ ConvertObject \/ UppercaseObject \/ ConvertLibrary
  \/ MutateSource \/ GateMutants

Spec == Init /\ [][Next]_vars
-----------------------------------------------------------------------------
(* What a program that judges claims of its input when it is green.        *)
Claim ==
  CASE tool = "isa_check" -> IsaRight(input)
    [] tool = "hexoracle" -> OracleRight(input)
    [] tool = "romdiff"   -> RomDiffRight(input)
    [] tool = "fixhunks"  -> HunksRight(input)
    [] tool = "doctruth"  -> DocRight(input)
    [] tool = "branch"    -> BranchRight(input)
    [] tool = "bits"      -> BitsRight(input)
    [] tool = "reloc"     -> RelocRight(input)
    [] tool = "guard"     -> GuardRight(input)
    [] tool = "script"    -> ScriptRight(input)

(* A check that ends with PASS was given nothing wrong: no damaged corpus  *)
(* or missing file shrinks what it compares, no failure of one stage or    *)
(* case is hidden by another, and an input that says nothing is no input.  *)
GreenIsRight == verdict = "PASS" /\ output = None => Claim

(* A check that ends with FAIL has found something: its claim is false.    *)
(* Excepted are doctruth and fixhunks, which also fail a manual or a patch *)
(* for its form, and the oracle, whose claim is about sizes.               *)
RedHasACause ==
  verdict = "FAIL" /\ tool \notin {"doctruth", "fixhunks", "hexoracle"} => ~Claim

(* What the comment above EXPECT in hexoracle.py promises: a ROM with one  *)
(* address of its code written little-endian does not pass for the one the *)
(* counts were recorded from.  It holds where neither the low byte of the  *)
(* address nor the byte after it is zero: a zero makes another addr16, or  *)
(* another zero8, of the swapped pair.                                     *)
EndianSlipIsSeen ==
  tool = "hexoracle" /\ verdict = "PASS" =>
    \A p \in input.projects :
      input.expect[p].counts # None =>
        ~OneSlip(ReadIhex(input.hex[p]), input.recorded[p], input.rom[p])

(* After fixhunks has rewritten a patch, fixhunks --check and patch(1) are *)
(* both content with it, and nothing but its headers has changed.          *)
RewriteIsStable == tool = "fixhunks" /\ output # None => RewriteRight(input, output)

(* A converted object reads as the original did, but for its machine and   *)
(* the case of its symbols' names, and a converted library resolves every  *)
(* name that its armap lists, whenever the original was built.             *)
ConvertedReadsTheSame ==
  /\ tool = "le2be" /\ output # None /\ UppercaseSymbols(output) # None =>
       ObjectRight(input, UppercaseSymbols(output))
  /\ tool = "sym_uc" /\ output # None =>
       /\ output.header = input.header /\ output.data = input.data
       /\ UppercaseSymbols(output) = output
  /\ tool = "ar" => ArchiveRight(input, output)
-----------------------------------------------------------------------------
(* Every comment of a C source is blanked and nothing else is: no mutant   *)
(* is made of prose, and none is lost to a literal that looks like a       *)
(* comment.  A comment that begins with /*/ is excepted: mask_comments     *)
(* finds its end in its beginning, and what follows on the line is mutated.*)
MaskAgreesWithC ==
  tool = "gen" /\ output # None =>
    LET lines == input.lines
        masked == Gen!MaskComments(lines)
    IN Gen!IsC(lines) /\ (\A n \in DOMAIN lines : ~Gen!OpensAndCloses(lines, n)) =>
         \A n \in DOMAIN lines : \A i \in DOMAIN lines[n] :
           masked[n][i] = IF Gen!CommentAt(lines, n, i) THEN Gen!Blank ELSE lines[n][i]

(* An id names one match: no two mutants share one, and under another cap  *)
(* it is not the name of another match.                                    *)
IdsNameOneMatch ==
  tool = "gen" /\ output # None =>
    \A other \in {Gen!Generate(input.lines, c) : c \in {0, 1, 2, input.cap}} :
      \A j, k \in DOMAIN output :
        /\ output[j].id = output[k].id => j = k
        /\ k \in DOMAIN other /\ output[j].id = other[k].id =>
             output[j].line = other[k].line /\ output[j].col = other[k].col

(* A capped sample has as many mutants as the cap allows, and between two  *)
(* that follow each other it leaves out as many matches everywhere, give   *)
(* or take one, the end of the list included.                              *)
SampleIsEven ==
  tool = "gen" /\ output \notin {None, <<>>} =>
    LET all == Gen!Ranked(input.lines)
        Place(m) == CHOOSE k \in DOMAIN all : all[k].line = m.line /\ all[k].col = m.col
        at == [k \in 1 .. Len(output) + 1 |->
                 IF k \in DOMAIN output THEN Place(output[k]) ELSE Len(all) + 1]
        gaps == {at[k + 1] - at[k] : k \in DOMAIN output}
    IN /\ Len(output) = IF input.cap = 0 \/ input.cap > Len(all) THEN Len(all) ELSE input.cap
       /\ at[1] = 1
       /\ \A g, h \in gaps : g - h <= 1

(* The `fail-first' column of the full matrix is what the run that stops   *)
(* at the first red records, stage by stage, and its total is the number   *)
(* of mutants killed by any stage.                                         *)
FailFirstIsThePlainRun ==
  tool = "coverage" /\ output # None =>
    LET stages == input.stages
        killed == {r.id : r \in Cov!Killed(output.full, stages)}
    IN /\ \A s \in Elements(stages) :
            Cov!First(output.full, stages, s) = Cov!FirstToKill(output.plain, s)
       /\ UNION {Cov!First(output.full, stages, s) : s \in Elements(stages)} = killed
       /\ UNION {Cov!Caught(output.full, stages, n) : n \in DOMAIN stages} = killed

(* Against a longer list a stage's unique count can only fall, its kills   *)
(* stay, and what the longer list alone kills is unique to the new stage.  *)
UniqueOnlyFalls ==
  tool = "coverage" /\ output # None =>
    LET old == Cov!AllButLast(input.stages)
        new == input.stages[Len(input.stages)]
    IN /\ \A s \in Elements(old) :
            /\ Cov!Uniq(output.full, input.stages, s) \subseteq Cov!Uniq(output.shorter, old, s)
            /\ Cov!Kills(output.full, input.stages, s) = Cov!Kills(output.shorter, old, s)
       /\ Cov!Moved(output.shorter, output.full, "survived", "killed") =
            Cov!Uniq(output.full, input.stages, new)
       /\ Cov!Moved(output.shorter, output.full, "killed", "survived") = {}
=============================================================================
