----------------------------- MODULE RomCompare -----------------------------
(* tb/hexoracle.py, the produced ROMs against the images of 2001, and      *)
(* tb/romdiff.py, the ROMs of the frozen toolchain against the reference.  *)
(* An image is a sequence of bytes.                                        *)
EXTENDS ToolBase

CLASSES == {"addr16", "acall11", "word16", "pcode13", "zero8", "residual"}

-----------------------------------------------------------------------------
(* read_ihex.  A record is [type, addr, data, sum]; lines that are no      *)
(* record are not in the sequence.  None is the exception for a file that  *)
(* cannot be read.                                                         *)
RecordSum(r) ==
  Len(r.data) + (r.addr \div 256) + r.addr + r.type + SumOf(r.data) + r.sum

ReadIhex(file) ==
  LET Ends == {k \in DOMAIN file : file[k].type = 1}
      Read == IF Ends = {} THEN DOMAIN file ELSE 1 .. Min(Ends)
      Data == {k \in Read : file[k].type = 0}
      Covers(k, a) == a \in file[k].addr .. file[k].addr + Len(file[k].data) - 1
      Mem == UNION {file[k].addr .. file[k].addr + Len(file[k].data) - 1 : k \in Data}
      Byte(a) == IF a \in Mem
                 THEN LET k == Max({k \in Data : Covers(k, a)})
                      IN file[k].data[a - file[k].addr + 1]
                 ELSE 255
  IN IF (\E k \in Read : RecordSum(file[k]) % 256 # 0) \/ Mem = {} THEN None
     ELSE [i \in 1 .. Max(Mem) + 1 |-> Byte(i - 1)]

(* classify: the steps of one walk over both images, from each place in    *)
(* them, a step with the class of the byte, or pair of bytes, it consumes. *)
TopThree(b) == b - (b % 32)
LowFive(b) == b % 32

ClassOf(oracle, produced, i) ==
  LET second == oracle[i + 1]
      pair == /\ i < Min({Len(oracle), Len(produced)})
              /\ oracle[i] = produced[i + 1]
              /\ second \in {0, produced[i], TopThree(produced[i]), LowFive(produced[i])}
  IN IF ~pair THEN IF oracle[i] = 0 THEN "zero8" ELSE "residual"
     ELSE IF second = 0 THEN "addr16"
     ELSE IF second = produced[i] THEN "word16"
     ELSE IF second = TopThree(produced[i]) THEN "acall11"
     ELSE "pcode13"

Width(class) == IF class \in {"zero8", "residual"} THEN 1 ELSE 2

Walks(oracle, produced) ==
  LET n == Min({Len(oracle), Len(produced)})
      walk[i \in 1 .. n + 2] ==
        IF i > n THEN <<>>
        ELSE IF oracle[i] = produced[i] THEN walk[i + 1]
        ELSE LET class == ClassOf(oracle, produced, i)
             IN <<[at |-> i, class |-> class]>> \o walk[i + Width(class)]
  IN walk

Classify(oracle, produced) == Walks(oracle, produced)[1]

Counts(steps) == [c \in CLASSES |-> Cardinality({k \in DOMAIN steps : steps[k].class = c})]

(* Defective: only what is of no class is compared, as it once was. *)
AgreesOnResidual(hex, rom, expect) ==
  /\ hex # None
  /\ rom # None
  /\ \A oracle \in {ReadIhex(hex)} :
       /\ Len(oracle) = expect.oracle
       /\ Len(rom) - Len(oracle) = expect.delta
       /\ expect.counts # None =>
            Counts(Classify(oracle, rom))["residual"] = expect.counts["residual"]

(* One project of hexoracle's loop: TRUE when nothing failed.  The row of  *)
(* EXPECT is [oracle, delta, counts], the counts None for a project whose  *)
(* bytes are not compared.                                                 *)
AgreesWithOracle(hex, rom, expect) ==
  /\ hex # None
  /\ rom # None
  /\ \A oracle \in {ReadIhex(hex)} :
       /\ Len(oracle) = expect.oracle
       /\ Len(rom) - Len(oracle) = expect.delta
       /\ expect.counts # None => Counts(Classify(oracle, rom)) = expect.counts

OracleVerdict(w) ==
  IF w.projects = {} THEN "stopped"
  ELSE IF \E p \in w.projects : w.hex[p] # None /\ w.rom[p] # None /\ ReadIhex(w.hex[p]) = None
  THEN "stopped"
  ELSE Judge(Cardinality({p \in w.projects :
                            ~AgreesWithOracle(w.hex[p], w.rom[p], w.expect[p])}))
-----------------------------------------------------------------------------
(* romdiff's main: how far each compared ROM is from its reference.        *)
Apart(m, n) == IF m > n THEN m - n ELSE n - m

Outcome(reference, produced) ==
  LET shared == 1 .. Min({Len(reference), Len(produced)})
  IN IF reference = None THEN <<"no-reference", 0, 0>>
     ELSE IF produced = None THEN <<"not-produced", 0, 0>>
     ELSE IF reference = produced THEN <<"identical", 0, Len(produced)>>
     ELSE <<"differ",
            Cardinality({i \in shared : reference[i] # produced[i]})
              + Apart(Len(reference), Len(produced)),
            Len(produced)>>

(* Defective: what is recorded and not compared is nobody's loss. *)
MovedIfCompared(outcome, expect) ==
  {p \in DOMAIN outcome : p \notin DOMAIN expect \/ outcome[p] # expect[p]}

Moved(outcome, expect) ==
  {p \in DOMAIN outcome \union DOMAIN expect :
     ~(p \in DOMAIN outcome /\ p \in DOMAIN expect /\ outcome[p] = expect[p])}

(* gate: the file of expectations is a sequence of [project, columns], the *)
(* first three of the columns are read, and of two lines for one project   *)
(* the last is the one that counts.                                        *)
Recorded(columns) == <<columns[1], columns[2], columns[3]>>

RomDiffVerdict(w) ==
  LET outcome == [p \in w.projects |-> Outcome(w.reference[p], w.produced[p])]
      named == {w.file[k].project : k \in DOMAIN w.file}
      line == [p \in named |-> Max({k \in DOMAIN w.file : w.file[k].project = p})]
      expect == [p \in named |-> Recorded(w.file[line[p]].columns)]
  IN IF w.projects = {} THEN "stopped"
     ELSE IF w.file = None THEN "PASS"
     ELSE IF \E k \in DOMAIN w.file : Len(w.file[k].columns) < 3 THEN "FAIL"
     ELSE Judge(Cardinality(Moved(outcome, expect)))
-----------------------------------------------------------------------------
(* What a green check claims: every project is there, of the sizes on      *)
(* record; and every ROM of the frozen toolchain is as far from its        *)
(* reference, byte by byte, as the line that counts for it says.           *)
OracleRight(w) ==
  /\ w.projects # {}
  /\ \A p \in w.projects :
       /\ w.hex[p] # None /\ w.rom[p] # None
       /\ Len(w.rom[p]) = w.expect[p].oracle + w.expect[p].delta

(* One address of the code the wrong way round, where swapping its bytes   *)
(* makes no other addr16 or zero8 of them.                                 *)
OneSlip(oracle, right, rom) ==
  \E step \in Elements(Classify(oracle, right)) :
    /\ step.class = "addr16"
    /\ right[step.at] # right[step.at + 1]
    /\ right[step.at + 1] # 0
    /\ step.at + 2 <= Len(right) => right[step.at + 2] # 0
    /\ rom = [right EXCEPT ![step.at] = right[step.at + 1],
                           ![step.at + 1] = right[step.at]]

Distance(m, n) ==
  Cardinality({i \in DOMAIN m \union DOMAIN n :
                 ~(i \in DOMAIN m /\ i \in DOMAIN n /\ m[i] = n[i])})

AsRecorded(reference, produced, said) ==
  IF reference = None THEN said = <<"no-reference", 0, 0>>
  ELSE IF produced = None THEN said = <<"not-produced", 0, 0>>
  ELSE /\ said[1] = IF said[2] = 0 THEN "identical" ELSE "differ"
       /\ said[2] = Distance(reference, produced)
       /\ said[3] = Len(produced)

RomDiffRight(w) ==
  /\ w.projects # {}
  /\ w.file # None =>
       /\ w.projects = {w.file[k].project : k \in DOMAIN w.file}
       /\ \A k \in DOMAIN w.file :
            LET p == w.file[k].project
            IN /\ Len(w.file[k].columns) >= 3
               /\ (\A j \in k + 1 .. Len(w.file) : w.file[j].project # p) =>
                    AsRecorded(w.reference[p], w.produced[p], Recorded(w.file[k].columns))

(* What the two programs are given: images of bytes, counts that were      *)
(* recorded from one, and lines of columns.                                *)
ImageOrNone(image) == image # None => image \in Seq(Nat)

CountedFrom(hex, recorded, counts) ==
  /\ recorded \in Seq(Nat)
  /\ hex # None => \A oracle \in {ReadIhex(hex)} \ {None} :
                     counts = Counts(Classify(oracle, recorded))

OracleCase(w) ==
  /\ IsFiniteSet(w.projects)
  /\ \A p \in w.projects :
       /\ ImageOrNone(w.rom[p]) /\ w.expect[p].oracle \in Nat /\ w.expect[p].delta \in Int
       /\ w.expect[p].counts # None => CountedFrom(w.hex[p], w.recorded[p], w.expect[p].counts)

RomDiffCase(w) ==
  /\ IsFiniteSet(w.projects)
  /\ \A p \in w.projects : ImageOrNone(w.reference[p]) /\ ImageOrNone(w.produced[p])
  /\ w.file # None => IsList(w.file) /\ \A k \in DOMAIN w.file : IsList(w.file[k].columns)
=============================================================================
