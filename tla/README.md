# A model of the MCS-51 port of binutils

`src/mcs51/additions.patch` adds an assembler back end, an ELF back end with its
relocations, a linker script and a disassembler for the Intel MCS-51 to GNU
binutils; `src/mcs51/modifications.patch` registers them; `src/tb/` tests the
result, watches upstream for the next release and releases this one.

The modules model three things: what a program *means* after several tools have
handled it (which instruction a line becomes, which memory space a common symbol
gets, which byte of the one internal RAM an object gets, what value an operand ends
with); the processes that run unattended and meet failures (the mutation harness,
the nightly upstream watch, the release workflow); and the checking tools, whose
green is all anyone sees of them. Line numbers below are lines of
`src/mcs51/additions.patch` unless another file is named; the `map` of
`PROJECT.json` gives them per definition.

## The system

The 8051 has several memory spaces that share nothing but the toolchain. A source
is assembled line by line and file by file; each object carries sections, symbols
and relocations; `ld -r` may combine objects any number of times before the final
`ld`. Inside the tools nothing runs concurrently and nothing is retried. What is
hard there is of another kind: one decision is spread over several programs, made
again at each stage with another part of the information, in code that has to
agree. The failures, the concurrency and the retries are in the programs around
them: builds that stop half way, signals, killed runs and the tree they leave to
the next one; answers of the network that are lost or cut; GitHub calls that take
effect and still fail; two workflow runs at one tag.

| component | source | state | operations | what makes it correct | here |
|---|---|---|---|---|---|
| memory-space commons in the linker | `bfd/elf32-i51.c` 720-825, 989-1179 | link hash table, sections of each file | section header in, add-symbol hook, collecting section, conflict check, output-symbol hook | one name, one space, whatever the order and the number of `ld -r` passes; no real data taken for a common | `LinkCommons`, `OneSpace`, `LinkCommonsSpaces` |
| default linker script | `ld/scripttempl/elf32i51.sc` 5416-5602 | section sizes, addresses | place in order, assert the limits | internal RAM is given out once though counted in bytes and in bits; refusal only when full | `LinkLayout` |
| register banks | `gas/config/tc-i51.c` 3300-3351 | `regbank`, `regused` | `.using`, end of file | every bank used is reserved | `LinkLayout` |
| operand values | `tc-i51.c` 2001-2177, 2368-2398, 2790-3185, 4081-4120; `elf32-i51.c` 407-660 | the field, its fixup, its relocation | literal, fixup, relocation, `ld -r`, final link | whoever finishes an operand stores the same meaning; what is refused has no encoding | `Fixups` |
| operand parser, opcode table | `tc-i51.c` 1865-2895, `include/opcode/i51.h` | the row, `op1hlmode`, `op2hlmode`, `b2b_offset`, names taken by `.local`, the bank | `md_assemble`, one line | the row chosen is one the line fits; no line changes the next | `GasInsn` |
| disassembler | `opcodes/i51-dis.c` 5639-6039 | none | one instruction | inverse of the assembler | `GasInsn` |
| `.xcomm`, `.local`, space sections | `tc-i51.c` 3353-3760 | symbol values and segments | `i51_local`, `i51_common`, section switches | one declaration per name and file | `.local` in `GasInsn` |
| data directives | `tc-i51.c` | none | `cons`, `.bit`, `.float` | bytes in the right order | not modelled: formatting |
| `.pcode` | `tc-i51.c` 3900-4120 | none | one line to words | flags and address do not overlap | address only, in `Fixups` |
| mutation harness | `tb/mutation/run.py` | tree, build, saved copies | save, apply, rebuild, gate, restore | a verdict is about the mutant it is recorded for | `MutationHarness` |
| mutants and their statistics | `tb/mutation/gen.py`, `report.py`, `coverage.py` | lines, matches, result rows | mask, sample, name; count per stage | a mutant is of code, its id names one change; no stage is called redundant that is not | `MutantGen`, `StageCoverage` |
| upstream watch | `tb/upstream_watch.py`, `upstream.yml` | the listing, the pin, the issue | list, download, apply, decide, file | a failure never looks like "nothing new"; one issue, and it is right | `UpstreamWatch` |
| release | `release.yml`, `tb/release_manifest.py` | drafts, the tag, archives | gate, build, assemble, draft, upload, count, publish | a public release is whole, of one commit, and that commit passed the gate | `Release` |
| instruction and ROM checks | `tb/isa_check.py`, `tb/hexoracle.py`, `tb/romdiff.py` | corpora, images | compare | green only if right, red only with a cause | `IsaCheck`, `RomCompare` |
| benches | `tb/sim/run-*.py` | written cases, answers of the tools | compare | as above | `CaseBenches` (five of them) |
| doc and patch checks | `tb/doctruth.py`, `tb/fixhunks.py` | manual, sources, patch | compare, rewrite | as above; a rewrite changes only headers | `DocTruth`, `PatchHunks` |
| converters for the objects of 2001 | `tb/i51elf_*.py` | an object, an archive | byte order, case, armap | the converted object reads as the original did | `ObjectConverters` |
| other workflows, integration patch | `.github/workflows/*`, `modifications.patch` | none kept | run make targets, register names | - | not modelled |

The parts meet in files: an object between assembler and linker (`Fixups` and
`LinkCommons` follow one operand and one symbol through both), bytes between
assembler and disassembler (`GasInsn` composes the two), a source tree and a build
tree between two runs of the harness, results between `gen.py`, `run.py` and
`coverage.py`, and GitHub's issues, tag and drafts between two workflow runs.

## How the modules correspond to the code

In every module an operator commented *Defective* is a slip the code could have
made in the definition after it. No specification uses one; the properties are
tested by putting it in that definition's place (`mutants` in `PROJECT.json`).

**LinkCommons.** One link as ld performs it. `OpenObject` reads the next file
of the command line, in any order, and makes its sections (`SectionFromShdr`).
`AddObjectSymbol` adds one global symbol: `RefuseCommon`, `AddSpaceCommon` and
`AddPlainSymbol` are the three ways out of `elf32_i51_add_symbol_hook`,
together with the generic rows of the link hash table that follow it. Those rows
(`AddCommon`, `AddOther`) are bfd's, not in this repository; they are modelled as
the port's comments describe and rely on them (a larger common replaces a
smaller one, the first stays on a tie, a definition is never displaced).
`WriteRelocatable` ends a first, relocatable pass: every entry goes through
`LinkOutputSymbolHook` into the file `RelOut`, which leads the second pass with
an empty table. `FinishLink` is the final link. A multiple definition is reported
and nothing is written (`errors`). `before` and `seen` are history variables.

**OneSpace** is the promise without files, sizes, sections or passes: a name gets
one space, keeps it, and a second one refuses the link and nothing else does.
**LinkCommonsSpaces** holds the refinement mapping: the space of a name is the
one its hash entry is collected in, or, between the two passes, the one it will
get back from `RelOut`.

**LinkLayout.** `Using` and `EndOfFile` are `i51_using` and `i51_cleanup` (the
banks' common `__RB__` is the largest of those the files emit). `Read` adds an
object's sections to the output sections. `Place` gives the next section of the
script the address its expression names (`StartOf`), `Finish` evaluates the
ASSERTs and the rom limit and defines `STACK`. All space sections are INFO
sections, so ld's own overlap check never looks at them; the model has no such
check either.

**Fixups.** One operand of one instruction. From the parser: its kind, its
HIGH/LOW/B2B prefix, its value as a number or a label with an addend.
`WriteLiteral` is `fixup8`/`fixup16`/`i51_pcode` on a number, `MakeFixup` the
rest of them; `ApplyFinalFix` is `md_apply_fix` when it finishes the value,
`EmitReloc` when `tc_gen_reloc` passes it on (with `i51_check_direct`);
`LinkRelocatable` and `LinkFinal` are `relocate_section` and
`i51_final_link_relocate`. gas's generic part (which labels are folded into their
section, where the displacement is subtracted) is modelled as the comments in
`md_pcrel_from_section` and `md_apply_fix` describe it. An `acall`/`ajmp` field
keeps its eleven address bits only; the opcode bits beside them are not modelled.
Writes are truncated to the field, sums are not wrapped.

**MutationHarness.** `tb/mutation/run.py` on one build tree. A source or an object
is the set of mutants it contains; `stale` is the set of objects older than a
source make knows they depend on (`Edges`), which for the assembler lacks the
opcode table it includes (`Includes`). `Start` saves the selected files and
touches them; `BaselineRebuild` and `BaselineGate` are the clean tree; per mutant
`Apply` (or `SkipStale` when the line has moved), `Rebuild`, `Gate`, `Restore`;
then `FinalRestore`, `FinalRebuild`, `FinalGate`. `Rebuild` may build any part of
what is stale and then succeed, fail or run out of time. `Interrupt` is the signal
handler, with compilers that make left behind finishing before or after it; `Die`
is a run that is killed, after which `Start` finds the tree as it is. Faults
neither hide nor compensate each other, the gate's stages end in time, and
compilers left behind have ended when the next run starts.

**GasInsn.** One line at a time. `Opcodes` is the table of `i51.h`, row by row.
`Assemble` is `md_assemble`: the scan for the first row whose operand letters the
parsed operands ask for, forward only, `i51_parse_operand1` and `2` with their
retries and their escape at the last row of a name, and `i51_build_ins` over the
`mreloc` letters. `Disassemble` is `print_insn_i51`. What survives a line is in
variables: the prefixes and the offset of B2B (as in the globals `op1hlmode`,
`op2hlmode`, `b2b_offset`), what `.using` chose and what `.local` took from the
operand table. `Meant` is the reference the properties use: what an operand is if
a row has it as such a letter, written without the scan; a name of a bank's register
means nothing as a bit, an address or a distance while no bank is chosen, and a bit
written with a dot takes no prefix. Two names stand for the
special function registers and two for their bits; values are literals, because
symbols are `Fixups`' subject. `OperandsAssumption` says how a line may be written: a
dot is followed by a digit from 0 to 7 (`i51_fold_bit_suffix` leaves any other alone),
an offset of B2B is not negative (any other is refused where it is read), and the
target of `cjne` is a number.

**MutantGen and StageCoverage.** `gen.py`'s `mask_comments` character by character
over lines, the matches of one operator (a lone `<`), the ranking, `spread` and the
ids; `run.py`'s gate over the list of stages, with and without `--all-stages`, and
the columns `report.py` and `coverage.py` make of the rows. Neither has state
between runs, so they are operators, run by `Checks`. Their loops are recursive
functions over a finite domain (`PastLiteral`, `Scan`, `InBlock`), as `classify`'s is in
`RomCompare` (`Walks`); beside them `Modes` and `Starts` say what C makes of the same
characters, for comparison.

**UpstreamWatch.** A version is its place in the order of `vtuple`. A run holds
what it checked out (`pin`, `fate`) and its locals; `Watch` are the steps of
`upstream_watch.py`, `Report` those of the "One issue, reused" step of
`upstream.yml`, `People` is everything that happens meanwhile. `Red` is every way to
end without an answer (`Malfunction`, a failed step, a kill). A listing cut short is
an exception (`http_get` reads to the announced length), while a cut download comes
back as if it were whole (`http_download` reads until a piece is empty) and has to be
told by what is in it: `List` and `Download` differ accordingly. `PatchOutputs` is
what `patch(1)` may print for a true outcome, including wordings the parser does not
know. Each GitHub call may have no effect, take effect and answer, or take effect
and lose its answer. `Disable` is GitHub stopping the schedule of a repository without
activity (`upstream.yml` 34-38), between any two runs; a run by hand arms it again. `alarms` and
the fields kept in `last` are history. One assumption is made of the server
(`Pages`): it does not answer with an older listing. Such a page, a cache's or a
mirror's, carries the pin and enough releases, `parse_index` believes it (225-236), and
the watch reports "nothing new" for as long as it is served.

**Release.** The runs of `release.yml` at one tag, several at once: `RefIsFree` is
the concurrency group (the ref, so a push of the tag and a dispatch from a branch do
not exclude one another). `JobsPass` leaves any of `Builds`; the publish job's steps
are actions, each may be cancelled, and `Rerun` starts the publish job or everything
again; each attempt may leave a release of its own (`Makers`). GitHub is modelled as
the workflow uses it: a tag's name finds the public release, or else any draft. Any
call may go without an answer. Most of them end the step (`Cancel`), and so does one
that took effect (`PublishDraft` may leave a red run and a public release); but the two
questions of `CheckTag` fail open, and `viewed` and `looked` say whether they were
answered: a `gh release view` that fails is "no release" (149), a `gh api` that fails is
"no tag" (153-154). `Manifest` is `release_manifest.py`. `raced` and `moved` record two
overlaps the workflow does not exclude, `overlooked` and `mistaken` the two answers it
did not get when they mattered; the properties say which of them they except.

**Checks** runs one program of `tb/` on one input and composes `ToolBase` (verdicts
and exits), `IsaCheck`, `RomCompare`, `DocTruth` with `PatchHunks`,
`ObjectConverters`, `CaseBenches`, `MutantGen` and `StageCoverage`. Each module
translates its programs as functions from input to verdict or file, with the early
exits, and states beside them what a correct input is (`...Right`), without
reference to how the program looks for it. Text is abstracted to kinds of lines and
to small tokens; a tool under test is its answer, so "the assembler is wrong here" is
an input.

## Runs

| run | question | bounds and why they are enough |
|---|---|---|
| `commons` | the safety of one name | three objects, because a conflict, what hides it and a tie need three declarations; two sizes (smaller, larger), two spaces and the plain common; objects are symmetric |
| `commons_spaces` | sections, and the refinement to `OneSpace` | two names, so that a file needs one collecting section twice; a real `.xbss` with every combination of contents and space flag; three spaces |
| `layout` | the layout and its limits | nine objects, any subset of them; sizes that reach each limit exactly and one past it; banks 0, 2, 3 over several files |
| `fixups` | all operands | every kind x prefix x route, numbers and labels on both sides of every limit, up to two `ld -r` passes (the second repeats the first, which is what could go wrong), bases at 0, before and after 0x80, and at the end of a 2K page |
| `fixups_offset_doc` | the manual on B2B offsets (violated) | as `fixups` |
| `lines` | assembling and reading back | the whole opcode table; every name with no, one or two operands out of one of every kind, on both sides of the limits, three where a name has rows of three; four names again as the second and third statement after `.using`, `.local` and five lines that leave a prefix or an offset behind - a third statement is enough, since a line sets what it leaves |
| `lines_doc` | the operand letters of the manual (violated) | as `lines` |
| `harness` | verdicts and sources over interrupted, killed and repeated runs | four mutants: one per way a verdict comes about (seen, not seen, does not compile) and one of the opcode table; two runs, the second on what the first left (the proofs cover any number); any selection of mutants in any order, with and without the baseline |
| `harness_doc` | the Makefile on single faults (violated) | as `harness` |
| `upstream` | the watch, its issue, and that a release comes to be filed | three releases of which one is to come, so that "newest" can move under a run; two attempts, so that one is retried and one is the last; three fates that give each verdict with agreeing and differing patches; two acts of people, enough to close an issue and dispatch, repatch or bump after it (the proofs cover any number of all of these) |
| `checks` | every checking and rewriting tool | right inputs and every edit of them (a line lost, doubled, swapped; a byte, a field, a file wrong), one or two at a time; `MCChecks` lists them per tool |
| `release` | public releases and their tag | two runs, the fewest that can meet; two commits, one with a cheap gate; two hosts; archives right, missing, of another build in its place or beside it, damaged; two attempts; runs are symmetric. Both properties except what follows a race or an overlooked release, so states after one are not explored (`MCClaimed`) |

Deadlock is checked in `upstream` only: assembling, linking, checking one input, a
bounded number of harness runs and of release attempts end.

Fairness is assumed in `UpstreamWatch` only. The rest are sequential programs over
finite input, where nothing has to be scheduled, or workflows that may legitimately
end red and stay so. The watch is different: it is started every night while its
schedule is enabled (weak fairness of `Schedule`), a run that is not killed takes its
next step (weak fairness of `Watch \/ Report`), and what may fail does not fail for
ever (strong fairness of each step's success: a listing that arrives, whole files, a
log that is understood, an issue created or edited with its answer). Kills may come infinitely often and
nothing is assumed of people. Nor is it assumed that the schedule stays enabled: GitHub
stops it after 60 days without activity in the repository, and nothing inside can notice
(`upstream.yml` 34-38). Under this `NewReleaseIsFiled` says that a signed release newer
than the pin comes to be named by an open issue, or the port moves on, or its pin
becomes unusable (loud), or the schedule is or gets disabled (not loud, and the
one way in which a release can go unreported).
`issue list --state open` is what makes it true: looking closed issues up as well
(the mutant) lets a closed issue swallow the report for good.

What the three violated runs show:

1. `fixups_offset_doc`: the bit offset waits in a one-byte field, so 259 is taken
   for 3 by a fixup and by the linker, though refused on a literal.
2. `lines_doc`: the search through the rows of a name ends at the last row and takes
   it whether the operand fits or not; then `jmp 5` is `jmp @A+DPTR` and `add 5,5`
   is `add A,#5`, without a word.
3. `harness_doc`: an opcode-table mutant is applied with a touch of `tc-i51.c`, to
   have the assembler rebuilt, and restored without it. The assembler keeps the
   mutated table, and the mutants that follow are measured with both faults until
   one of them touches `tc-i51.c`. `KillIsEarned` names the mutants measured so
   (`suspect`) and is what holds for all others.

### Known differences

Cases the models contain, that a property leaves out and says so in its comment,
because the code differs from a reader's expectation and no run is spent on them:

* `SpacesAgree`: a plain `.comm` larger than the first space common, or a definition,
  read between two space commons hides the first from the check (manual 4685-4689).
* `RefusedOnlyWhenFull`: nothing keeps `.data` and `.bss` below 0x80, where a direct
  address names a special function register.
* `NoteNamesTheTag`: the lookup of the tag ends in `2> /dev/null || true` (`release.yml`
  153-154), so a call that fails reads as a tag that does not exist yet (167), and the
  release of one commit is published at a tag of another: no race, no push, one lost
  answer. The comment at 140-142 says a tag that exists "has to be the commit this run
  gated and built". `mistaken` is the history of such a lookup.
* `PublicIsWholeAndGated`: `gh release view` (149) takes every failure for "no release",
  so a run repeated after it left a draft makes a second one of the same tag, and the
  count and the publication then find either. The comment at 276-278 says the check
  "will refuse to build a second release on top of" such a draft. `overlooked` is the
  history of such a call; the property holds when it did not happen, also when the
  lookup of the tag failed.
* `OperandNamesTarget`: the linker skips the B2B fold at address 0 (474); HIGH on a
  bit operand is honoured on a literal and dropped on a fixup (3106); a byte or a
  `.pcode` address equated further down has a wider range than a literal (2098, 2168);
  a branch to a plain number is measured in the assembler from the start of its
  section (2008).
* `DisassemblesAsWritten`: B2B is accepted on a direct operand (manual 4547-4548, "only
  where a bit address is expected"), and a dotted bit suffix is folded on a direct
  or immediate operand; such lines have no form in `Meant`, and only their length
  and name are checked.
* `EndianSlipIsSeen`: a swapped address whose low byte is zero, or which is followed
  by a zero byte, passes (against the comment at `tb/hexoracle.py` 73-77).
* `MaskAgreesWithC`: a comment that opens as `/*/` is closed at once by
  `tb/mutation/gen.py` and not by C.
* `GreenIsRight`: `run-reloc.py` and `run-bits.py` take the message for the refusal.
* `ConvertedReadsTheSame`: `i51elf_le2be.py` converts an object that is in the target's
  order already, after a warning.
* `PublicIsWholeAndGated`, `NoteNamesTheTag`: two release runs of different refs are not
  excluded from one another, and find one another's drafts by the tag. A tag pushed
  between a run's check and its publication is not looked at again.
* Not in a model: the warning of a second `.xcomm`, "Not changed to %d" (3435), is
  followed by the change; text after a third operand is ignored.

## Proofs

All theorems are about `Spec` for every value of the constants that satisfies the
named assumptions next to them (what an object may declare, what a parser lets
through, sizes and offsets that are natural numbers).

* **LinkCommonsProofs.** None of the invariants is inductive alone: they speak of
  `seen`, while a step looks only at `entry`. `IInv` relates the two through
  `Held` (an entry, or what `RelOut` will give back). `Explained`: what is held
  is explained by a declaration of that space and size; `Covered`: it is as
  large as every declaration, and holds the space of every space common seen as
  long as only space commons were seen; `Restoring`: every symbol of `RelOut`
  still to be read is exactly what the output hook made of the entry before. From
  it follow `TypeOK`, `SpacesAgree`, `RelinkIsTransparent` and `KeptIsLargest`.
  `SpacesOnlyImplementsOneSpace` is the refinement: if the declarations are
  references and space commons (assumption `SpacesOnly`), every step is
  a `Declare`, a `Refuse` or a stutter of `OneSpace`. The properties of the sections,
  `DataIsNeverACommon` and `OneCollectorPerSpace`, are inductive together
  (`WellCollected`): `CollectingKeeps` is the step that could break them.
* **LinkLayoutProofs.** `IInv` is the chain: every section already placed starts
  where the script says with respect to those before it (`Chain`), sections not
  placed have no address, `.regbank` covers every bank selected (`Reserved`), and
  a finished layout is `linked` exactly when the limits hold (`Outcome`).
  Disjointness follows by comparing ends with starts along the chain, and across
  the two units by the arithmetic of bits and bytes.
* **FixupsProofs.** `IInv` says for each stage what relocation, addend and field
  together still determine: the parser's value before the fixup (`Early`), the
  label's moving offset under `ld -r` (`Pending`), and a field that is final
  (`Finished`). Each property is one further conjunct, proved per action and per
  kind of operand.

* **MutationHarnessProofs.** A verdict is recorded long after what it rests on
  happened, so `IInv` carries that along: the sources are those found plus the
  mutant applied (`SourcesKnown`); an object that is not stale holds at least what
  its sources hold (`UpToDate`), which makes a survivor a real one; after a green
  baseline what the gate would see in such an object is in its sources too, or is a
  leftover of the opcode table (`Explained`), which makes a kill a real one; and a
  verdict not yet recorded is as good as a recorded one (`VerdictEarned`).
  `ApplyOutdates` and `RestoreOutdates` are the two facts about `ALSO_TOUCH`, and
  the exception in the second is what `harness_doc` shows.

* **UpstreamWatchProofs.** The properties compare how a run ended with the listing and
  the patches it started from, and by then the world has moved on; so `IInv` says,
  for each place a run can stand at, what it knows (`Knows`: the newest release is the
  newest of what was listed, every result so far is the fate of that release in the
  checkout, an action of "none" means nothing was newer, whoever files is no dry run)
  and what it knows of the issues (`KnowsIssues`: about to create, none is open; about
  to comment, the headline is the run's own). `RedKeeps` and `GreenKeeps` are the two
  ways to end; every step is one of them or leaves the issues alone. People may close an
  issue at any step and open none, which is why `KnowsIssues` survives them.
  `NewestIsGreatest` (a bounded non-empty set of versions has a greatest) is the one
  lemma of the module that needs induction, by way of the library's theorem that `<` on
  the naturals is well founded. `DryRunFilesNothing` is an action property and follows from the
  invariant's part on `Filing`.
* **ReleaseProofs.** A release is made over five steps of a run, and the count that
  stands for a comparison is right only because of what the steps before it made
  sure of; so `IInv` says what a run past the check of the tag is `RunIsSure` of (no
  release but its own draft, everything assembled, the gate report) and what is so of a
  public release (`PublicIsSure`). All of it is under "no race and no release
  overlooked": while one run at a time is past the check, and saw that nothing was there,
  the tag finds that run's own draft (`FindsItsOwn`). What both say of the tag is, on
  top, under "not pushed meanwhile and not mistaken". `CountIsEnough`
  and `ManifestIsEverything` are the facts about finite sets: assets that are some of
  those assembled and as many are all of them. `StepKeeps` does the other runs once and
  for all, so each action's lemma shows only what its own run learns. A run may fail
  after it made its release public and be repeated, so a release carries the report of
  the gate it was made after; what a later attempt does cannot change it, because that
  attempt finds the release and stops, or has overlooked it.

* **ChecksProofs.** A program here is one step from an input to a verdict or a file, so
  the invariant is small (`Ended`: whoever has ended, ended as the function of its
  module says) and the work is in the functions. Per tool there is a lemma that its
  loop over records, lines, stages or cases finds what the reference beside it means.
  `GreenAlwaysRight` and `RedAlwaysHasACause` are one equivalence read both ways
  (`IsaExact`, `RomDiffExact`, one lemma per bench), with a direction missing where
  a tool does more than its claim: `fixhunks` also refuses forms, `hexoracle` counts.
  The patch lemmas show that a hunk ends in one place only (`Ends`, by counting lines),
  that `fixhunks` looks there, and that headers are all it rewrites; those for the
  converters follow each field through both byte orders, section by section and member
  by member. For `gen.py`: `spread`'s places `k * all \div cap` are strictly
  increasing, and two neighbours are `all \div cap` or one more apart
  (`SampleAlwaysEven`); an id is made of line, operator and occurrence, and the
  occurrence counts the columns before (`IdsAlwaysNameOneMatch`). For the matrix: the
  first stage that is red in a row is where the plain run stops.

  Two results go through recursive functions over a line, a text or an image.
  `Recursion` (a function that looks only at lower places has a value), `AllReached`
  and `AllFollow` (induction) are stated of sets and functions, so that they may be
  cited like any other fact; `LeastOf` carries them. For `MaskAlwaysAgreesWithC` the two
  readers of a line are compared from each place on: where C reads code,
  `mask_comments` is at that place and in no block, where C reads a literal it has
  found the end that C will find (`LiteralMeans`), and after the line both say alike
  whether a block is open (`LineMasked`); lines follow one another in
  `BlocksAreKnown`. For `EndianSlipAlwaysSeen`, two walks that differ in one address are
  compared from behind: past it they are one walk; at it the byte agrees, and the next
  is no `addr16`; and a place before it may become a pair that takes its first byte
  along, but no `addr16` (the two bytes that must not be zero are used here, and only
  here). So the count of `addr16` ends one lower, from wherever the walk comes
  (`OneLess`).

  Of `doctruth`, `DocAlwaysNamesWhatIsThere` proves the part of the claim that is of
  names and numbers. A node is a part of the manual (`NodeIs`), and so is a table's body
  and an item's lines, so what is found in them is in the manual under that node
  (`BodyIsThere`, `ItemIsThere`): nothing the sources have is missing. For the other
  direction, that no directive is described which is not there, nesting has to be
  followed (`DepthSteps`, `ItemInBody`); it holds if the node has one table that is in no
  other (`OneTable`), as `table_body` reads the first, and if there is one node of the
  name (`OneNode`), as `nodes` keeps the last. `ValuesAsSaid` needs `OneNode` too.

  The assumptions per tool (`BenchAssumption` to `GenAssumption`) say what the program
  itself reads before the part that is modelled, or keeps in its own text: images are of
  bytes, a record's fields are of the widths its digits give it, a bench's cases are of
  its own stages, the counts of `EXPECT` were taken of a ROM beside the image of 2001
  that is there (`CountedFrom`), `STAGES` names no stage twice. A record is either intact
  or damaged so that its sum shows it (`IsaCase`): two faults that cancel in a sum are
  beyond what a sum can claim.
* **GasInsnProofs.** `LinesAreIndependent` compares two runs of one line, after what came
  before and after nothing. They differ in three globals of the parser, and these stay
  different for a while: each operand overwrites one prefix and leaves the other, and
  the offset is whatever the last B2B left. So the lemmas relate the two parses by what
  may still differ after no operand (`Alike`), one (`Alike1`) and two (`Alike2`), for
  every way through the retries and the scan. At the end, what differs is not looked at
  by the row that was chosen: `RowsOfFewOperands` says so for each of the 111 rows (a row
  with no second operand has no field of it), and `EmitSame` that equal fields give
  equal bytes.

  The other two theorems start from there: the invariant (`IInv`) says that the last line
  is what it would be alone, and that its name, operands and bank are ones the parser may
  meet. It is needed because `last.bytes` was assembled from globals that are gone.
  `FormAlwaysFound` follows the parse towards the row of a form. What has to be shown is
  that the scan does not overshoot, and that is a fact about the order of the table: of
  the rows of a name, those that one search takes as equal stand together
  (`LettersTogether`), and no two of them ask for the same letters (`RowsDiffer`).
  `ScanFinds` turns this into where a search ends, `FormParses` follows it over one, two
  and three operands with the numbers these give, and `FormBuilds` shows that no field
  is refused. `DisassemblesAlwaysAsWritten` goes the other way. Whatever was assembled,
  form or not, its register is in range, so its first byte is of its row's codes
  (`CodeFits`); the codes of two rows are apart (`CodesApart`), so `Decoded` finds the
  row, name and length (`BuildDecodes`). For a form, each operand is then read from where
  it was written, letter by letter: bytes (`SaidIs`), distances, the page of `acall` and
  `ajmp`, words (`FormPrinted`). Facts about the table are proved of the literal table in
  leaves of one implication each; all else uses the lemmas and not the table.

Only model-checked, and why:

* `GreenIsRight` for `doctruth` as a whole: that a quoted message exists
  (`MessagesExist`) depends on the form of the manual (a block under another marker than
  `diagnostic` is not compared, of one with `@r` spans the spans are) and on what the
  tools print being what `c_strings` finds, and both are properties of the input. The
  rest is proved, for manuals of one node and one table of a name.
* `NewReleaseIsFiled`, which is liveness, and the three refutations.

`ImplementsOneSpace` is proved under `SpacesOnly` and checked under the same
restriction.

## Not modelled

* Linker and objects: the alignment of a memory-space common (the code documents that
  it is lost), weak and undefined symbols, archives, `--defsym STACK`, scripts other
  than the default one, alignment of input sections, `.byte` data relocations,
  relocation offsets out of range, SHL8/SWAP words, section flags on the way out and
  `e_machine` (switch tables).
* Assembler: `i51_common` and the section directives, the data directives, the flags
  and operand bytes of `.pcode`, expression syntax.
* Disassembler: comments, styles, symbol hooks, a read past the end of a section, and
  a byte that no row decodes.
* Mutation harness: operators other than `relop`, a source file torn by a kill inside
  `apply`, and a gate stage that runs out of time.
* Tools: `run-disasm.py`, `run-commons.sh`, `dialect.py` and `dist_check.sh`, which compare
  listings, rewrite text by regular expressions or run each tool once.
* `modifications.patch` and the workflows that only run make targets: no behaviour of
  their own.

## Plan

Done: (1) commons and their abstract specification, (2) the layout, (3) operand values,
(4) the mutation harness, (5) the upstream watch, (6) the release workflow, each with
its proofs; (7) instruction lines, assembled and read back, (8) the checking tools, the
mutant generator and the coverage matrix.

Next, most important first:

9. `i51_common` and `.local` on one name repeated within a file, composed with
   `LinkCommons`: what a source declares is what the link compares.
10. Symbols in `GasInsn`: its operands as the source of `Fixups` operands, so that a
    relocatable line is followed from text to image.
11. Section flags and symbol indices on the way out and in (`i51_elf_fake_sections`,
    `i51_elf_symbol_processing`) composed with `LinkCommons`.
12. `run-disasm.py` and the remaining operators of `gen.py`.
