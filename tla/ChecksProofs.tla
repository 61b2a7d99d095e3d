---------------------------- MODULE ChecksProofs ----------------------------
(***************************************************************************)
(* What is proved of the programs of tb/.  A program runs once, so that    *)
(* its inductive invariant says no more than how it ended: Ended.  The     *)
(* work is in the lemmas before it, on what each program computes.         *)
(***************************************************************************)
EXTENDS Checks, FiniteSetTheorems, SequenceTheorems, WellFoundedInduction, TLAPS

(* A program that judges has judged what it was given. *)
JudgedAs(program, how) ==
  tool = program => output = None /\ verdict \in {"none", how}

(* A program that writes has written what it makes of what it was given. *)
WroteAs(program, file) ==
  tool = program =>
    \/ verdict = "none" /\ output = None
    \/ verdict = (IF file = None THEN "stopped" ELSE "PASS") /\ output = file

(* How each program ended, if it has: the inductive invariant. *)
Ended ==
  /\ tool \in DOMAIN Inputs /\ input \in Inputs[tool]
  /\ JudgedAs("isa_check", IsaVerdict(input))
  /\ JudgedAs("hexoracle", OracleVerdict(input))
  /\ JudgedAs("romdiff", RomDiffVerdict(input))
  /\ JudgedAs("doctruth", DocTruthVerdict(input))
  /\ JudgedAs("branch", BranchVerdict(input))
  /\ JudgedAs("bits", BitsVerdict(input))
  /\ JudgedAs("reloc", RelocVerdict(input))
  /\ JudgedAs("guard", GuardVerdict(input))
  /\ JudgedAs("script", ScriptVerdict(input))
  /\ JudgedAs("fixhunks", CheckVerdict(input)) \/ WroteAs("fixhunks", Rewritten(input))
  /\ WroteAs("le2be", ConvertElf(input))
  /\ WroteAs("sym_uc", UppercaseSymbols(input))
  /\ WroteAs("ar", ConvertArchive(input))
  /\ WroteAs("gen", Gen!Generate(input.lines, input.cap))
  /\ WroteAs("coverage", Cov!Runs(input.mutants, input.stages))

LEMMA InitEnded == Init => Ended
  BY DEF Init, Ended, JudgedAs, WroteAs

LEMMA NextEnded == Ended /\ [Next]_vars => Ended'
<1> SUFFICES ASSUME Ended, [Next]_vars PROVE Ended'
  OBVIOUS
<1> USE DEF Ended, JudgedAs, WroteAs, Judged, Wrote
<1>1. CASE RunIsaCheck BY <1>1 DEF RunIsaCheck
<1>2. CASE RunOracle BY <1>2 DEF RunOracle
<1>3. CASE RunRomDiff BY <1>3 DEF RunRomDiff
<1>4. CASE RunDocTruth BY <1>4 DEF RunDocTruth
<1>5. CASE RunBranch BY <1>5 DEF RunBranch
<1>6. CASE RunBits BY <1>6 DEF RunBits
<1>7. CASE RunReloc BY <1>7 DEF RunReloc
<1>8. CASE RunGuard BY <1>8 DEF RunGuard
<1>9. CASE RunScript BY <1>9 DEF RunScript
<1>10. CASE CheckHeaders BY <1>10 DEF CheckHeaders
<1>11. CASE RewriteHeaders BY <1>11 DEF RewriteHeaders
<1>12. CASE ConvertObject BY <1>12 DEF ConvertObject
<1>13. CASE UppercaseObject BY <1>13 DEF UppercaseObject
<1>14. CASE ConvertLibrary BY <1>14 DEF ConvertLibrary
<1>15. CASE MutateSource BY <1>15 DEF MutateSource
<1>16. CASE GateMutants BY <1>16 DEF GateMutants
<1>17. CASE UNCHANGED vars BY <1>17 DEF vars
<1> QED
  BY <1>1, <1>2, <1>3, <1>4, <1>5, <1>6, <1>7, <1>8, <1>9, <1>10, <1>11, <1>12, <1>13,
     <1>14, <1>15, <1>16, <1>17 DEF Next

(* In every reachable state each program has ended as its verdict on its   *)
(* input, or the file it makes of it, says.                                *)
THEOREM EndedCorrect == Spec => []Ended
  BY InitEnded, NextEnded, PTL DEF Spec
-----------------------------------------------------------------------------
(* Numbers: a set of naturals that is not empty has a least member.        *)
LEMMA LeastOf ==
  ASSUME NEW S \in SUBSET Nat, S # {}
  PROVE  \E m \in S : \A n \in S : m <= n
<1> DEFINE Less == OpToRel(<, Nat)
<1>1. IsWellFoundedOn(Less, Nat)
  BY NatLessThanWellFounded
<1>2. \A m \in S : \A n \in S : ~(<<n, m>> \in Less) => m <= n
  BY DEF OpToRel
<1> HIDE DEF Less
<1>3. \E m \in S : \A n \in S : ~(<<n, m>> \in Less)
  BY <1>1, WFMin, Zenon
<1> QED
  BY <1>2, <1>3, Zenon

(* Induction over a set of numbers, which may be cited for any set.        *)
LEMMA AllReached ==
  ASSUME NEW S, NEW N \in Nat, 0 \in S, \A n \in Nat : n < N /\ n \in S => n + 1 \in S
  PROVE  \A n \in 0 .. N : n \in S
<1> DEFINE Left == {n \in 0 .. N : n \notin S}
<1> SUFFICES ASSUME Left # {} PROVE FALSE
  OBVIOUS
<1>1. PICK m \in Left : \A n \in Left : m <= n
  <2>1. Left \in SUBSET Nat
    OBVIOUS
  <2> HIDE DEF Left
  <2> QED
    BY <2>1, LeastOf
<1>2. m \in 0 .. N /\ m # 0 /\ m - 1 \in Nat /\ m - 1 < N /\ m - 1 \notin Left
  BY <1>1
<1>3. m - 1 \in S
  BY <1>1, <1>2
<1> QED
  BY <1>2, <1>3

LEMMA AllFollow ==
  ASSUME NEW S, NEW N \in Nat, \A n \in 0 .. N : (\A k \in 0 .. n - 1 : k \in S) => n \in S
  PROVE  \A n \in 0 .. N : n \in S
<1> DEFINE Left == {n \in 0 .. N : n \notin S}
<1> SUFFICES ASSUME Left # {} PROVE FALSE
  OBVIOUS
<1>1. PICK m \in Left : \A n \in Left : m <= n
  <2>1. Left \in SUBSET Nat
    OBVIOUS
  <2> HIDE DEF Left
  <2> QED
    BY <2>1, LeastOf
<1>2. m \in 0 .. N
  OBVIOUS
<1>3. \A k \in 0 .. m - 1 : k \in S
  <2> TAKE k \in 0 .. m - 1
  <2>1. k \in 0 .. N /\ ~(m <= k)
    BY <1>2
  <2> QED
    BY <1>1, <2>1
<1> QED
  BY <1>2, <1>3

(* A recursive definition has a value: whatever F makes of a function, if  *)
(* its value at a place depends on the values at lower places only, some   *)
(* function is what F makes of it.                                         *)
LooksLower(F, D, V, m, N) ==
  /\ N \in Nat /\ m \in [D -> 0 .. N] /\ [D -> V] # {}
  /\ F \in [[D -> V] -> [D -> V]]
  /\ \A f, g \in [D -> V] : \A d \in D :
       (\A e \in D : m[e] < m[d] => f[e] = g[e]) => F[f][d] = F[g][d]

LEMMA Recursion ==
  ASSUME NEW D, NEW V, NEW F, NEW N, NEW m, LooksLower(F, D, V, m, N)
  PROVE  \E f \in [D -> V] : F[f] = f
<1> USE DEF LooksLower
<1> DEFINE Upto(n, f) == \A d \in D : m[d] < n => F[f][d] = f[d]
           Reached == {n \in 0 .. N + 1 : \E f \in [D -> V] : Upto(n, f)}
<1>1. 0 \in Reached
  OBVIOUS
<1>2. ASSUME NEW n \in 0 .. N, n \in Reached PROVE n + 1 \in Reached
  <2>1. PICK f \in [D -> V] : Upto(n, f)
    BY <1>2
  <2>2. F[f] \in [D -> V]
    OBVIOUS
  <2>3. ASSUME NEW d \in D, m[d] < n + 1 PROVE F[F[f]][d] = F[f][d]
    <3>1. \A e \in D : m[e] < m[d] => F[f][e] = f[e]
      BY <2>1, <2>3
    <3> QED
      BY <2>2, <3>1
  <2> QED
    BY <2>2, <2>3
<1>3. N + 1 \in Reached
  <2>1. \A n \in Nat : n < N + 1 /\ n \in Reached => n + 1 \in Reached
    <3> TAKE n \in Nat
    <3>1. n < N + 1 => n \in 0 .. N
      OBVIOUS
    <3> HIDE DEF Reached
    <3> QED
      BY <1>2, <3>1
  <2> HIDE DEF Reached
  <2>2. N + 1 \in Nat /\ N + 1 \in 0 .. N + 1
    OBVIOUS
  <2> QED
    BY <1>1, <2>1, <2>2, AllReached, Zenon
<1>4. PICK f \in [D -> V] : Upto(N + 1, f)
  BY <1>3
<1>5. \A d \in D : F[f][d] = f[d]
  BY <1>4
<1> QED
  BY <1>5

(* The instances count as this module does.                                *)
LEMMA CountingIsShared ==
  ASSUME NEW S
  PROVE  Cov!Cardinality(S) = Cardinality(S) /\ Gen!Cardinality(S) = Cardinality(S)
<1>1. Cov!Cardinality(S) = Cardinality(S)
  BY Zenon DEF Cov!Cardinality, Cardinality, IsFiniteSet, Cov!IsFiniteSet
<1>2. Gen!Cardinality(S) = Cardinality(S)
  BY Zenon DEF Gen!Cardinality, Cardinality, IsFiniteSet, Gen!IsFiniteSet
<1> QED
  BY <1>1, <1>2

(* Division, of which the provers know too little.                         *)
LEMMA Product ==
  ASSUME NEW c \in Nat, NEW p \in Int, NEW q \in Int, p <= q
  PROVE  c * p <= c * q
<1>1. q - p \in Nat /\ q = p + (q - p)
  OBVIOUS
<1>2. c * (q - p) \in Nat
  BY <1>1
<1>3. c * q = c * p + c * (q - p)
  OBVIOUS
<1> QED
  BY <1>2, <1>3

LEMMA Quotient ==
  ASSUME NEW a \in Nat, NEW c \in Nat \ {0}
  PROVE  /\ a \div c \in Nat
         /\ c * (a \div c) <= a /\ a < c * (a \div c) + c
  OBVIOUS

(* How a quotient grows with what is divided.                              *)
LEMMA QuotientStep ==
  ASSUME NEW a \in Nat, NEW n \in Nat, NEW c \in Nat \ {0}
  PROVE  LET step == ((a + n) \div c) - (a \div c)
         IN  /\ step \in {n \div c, n \div c + 1}
             /\ n >= c => step >= 1
<1> DEFINE q == a \div c
           p == (a + n) \div c
           d == n \div c
<1>1. /\ q \in Nat /\ p \in Nat /\ d \in Nat
      /\ c * q <= a /\ a < c * q + c
      /\ c * p <= a + n /\ a + n < c * p + c
      /\ c * d <= n /\ n < c * d + c
  BY Quotient
<1> HIDE DEF q, p, d
<1>2. p < q + d + 2
  <2> SUFFICES ASSUME q + d + 2 <= p PROVE FALSE
    BY <1>1
  <2>1. c * (q + d + 2) <= c * p
    BY <1>1, Product
  <2>2. c * (q + d + 2) = c * q + c * d + c + c
    BY <1>1
  <2>3. c * q \in Nat /\ c * d \in Nat /\ c * p \in Nat
    BY <1>1
  <2> QED
    BY <1>1, <2>1, <2>2, <2>3
<1>3. q + d <= p
  <2> SUFFICES ASSUME p + 1 <= q + d PROVE FALSE
    BY <1>1
  <2>1. c * (p + 1) <= c * (q + d)
    BY <1>1, Product
  <2>2. c * (p + 1) = c * p + c /\ c * (q + d) = c * q + c * d
    BY <1>1
  <2>3. c * q \in Nat /\ c * d \in Nat /\ c * p \in Nat
    BY <1>1
  <2> QED
    BY <1>1, <2>1, <2>2, <2>3
<1>4. n >= c => d >= 1
  <2> SUFFICES ASSUME n >= c, d = 0 PROVE FALSE
    BY <1>1
  <2>1. c * d = 0
    BY <1>1
  <2> QED
    BY <1>1, <2>1
<1>5. p - q \in {d, d + 1} /\ (n >= c => p - q >= 1)
  BY <1>1, <1>2, <1>3, <1>4
<1> QED
  BY <1>5 DEF p, q, d

LEMMA QuotientMonotone ==
  ASSUME NEW a \in Nat, NEW b \in Nat, a <= b, NEW c \in Nat \ {0}
  PROVE  a \div c <= b \div c
<1>1. b - a \in Nat /\ a + (b - a) = b
  OBVIOUS
<1>2. (b - a) \div c \in Nat
  BY <1>1, Quotient
<1>3. (b \div c) - (a \div c) \in {(b - a) \div c, ((b - a) \div c) + 1}
  BY <1>1, QuotientStep
<1>4. a \div c \in Nat /\ b \div c \in Nat
  BY Quotient
<1> QED
  BY <1>2, <1>3, <1>4

LEMMA QuotientExact ==
  ASSUME NEW n \in Nat, NEW c \in Nat \ {0}
  PROVE  (c * n) \div c = n
<1> DEFINE q == (c * n) \div c
<1>1. c * n \in Nat
  OBVIOUS
<1>2. q \in Nat /\ c * q <= c * n /\ c * n < c * q + c
  BY <1>1, Quotient
<1> HIDE DEF q
<1>3. c * q \in Nat /\ c * (q + 1) = c * q + c
  BY <1>2
<1>4. ~(n + 1 <= q)
  <2> SUFFICES ASSUME n + 1 <= q PROVE FALSE
    OBVIOUS
  <2>1. c * (n + 1) <= c * q
    BY <1>2, Product
  <2>2. c * (n + 1) = c * n + c
    OBVIOUS
  <2> QED
    BY <1>1, <1>2, <1>3, <2>1, <2>2
<1>5. ~(q + 1 <= n)
  <2> SUFFICES ASSUME q + 1 <= n PROVE FALSE
    OBVIOUS
  <2>1. c * (q + 1) <= c * n
    BY <1>2, Product
  <2> QED
    BY <1>1, <1>2, <1>3, <2>1
<1> QED
  BY <1>2, <1>4, <1>5 DEF q

(* A function on 1 .. n is a sequence of length n.                         *)
LEMMA IsSequence ==
  ASSUME NEW S, NEW n \in Nat, NEW f \in [1 .. n -> S]
  PROVE  f \in Seq(S) /\ Len(f) = n
<1>1. f \in Seq(S)
  BY SeqDef, Zenon
<1>2. Len(f) \in Nat /\ DOMAIN f = 1 .. Len(f)
  BY <1>1, LenProperties
<1>3. 1 .. n = 1 .. Len(f)
  BY <1>2
<1>4. Len(f) = n
  BY <1>2, <1>3
<1> QED
  BY <1>1, <1>4

LEMMA LenIs ==
  ASSUME NEW n \in Nat, NEW f, f = [k \in 1 .. n |-> f[k]]
  PROVE  Len(f) = n /\ (n = 0 => f = <<>>)
<1> DEFINE S == {f[k] : k \in 1 .. n}
<1>1. f \in [1 .. n -> S]
  OBVIOUS
<1> HIDE DEF S
<1>2. f \in Seq(S) /\ Len(f) = n
  BY <1>1, IsSequence
<1>3. n = 0 => f = <<>>
  BY <1>2, EmptySeq
<1> QED
  BY <1>2, <1>3
-----------------------------------------------------------------------------
(* coverage.py and report.py, on the rows of whole runs.                   *)

(* The mutants that are gated at all, and what every stage says of one.    *)
Gated(mutants) == {k \in DOMAIN mutants : mutants[k].status \notin Cov!Statuses}

RedOf(list, rcs) == {list[j] : j \in {j \in DOMAIN list : rcs[list[j]] # 0}}

(* The two runs, and a row of each.                                        *)
FullRun(mutants, list) == Cov!Run(mutants, list, TRUE)
PlainRun(mutants, list) == Cov!Run(mutants, list, FALSE)
FullRow(k, list, rcs) == Cov!Gate(k, list, rcs, TRUE)
PlainRow(k, list, rcs) == Cov!Gate(k, list, rcs, FALSE)

(* The rows of a run of every stage that coverage.py scores are those of   *)
(* the gated mutants, and a row's red stages are those that are red.       *)
LEMMA ScoredRows ==
  ASSUME NEW mutants, NEW list
  PROVE  Cov!Scored(FullRun(mutants, list), list)
           = {FullRow(k, list, mutants[k].rcs) : k \in Gated(mutants)}
<1> DEFINE full == FullRun(mutants, list)
           row(k) == FullRow(k, list, mutants[k].rcs)
<1>1. \A k \in DOMAIN mutants :
        full[k] = IF k \in Gated(mutants) THEN row(k)
                  ELSE Cov!NotGated(k, mutants[k].status)
  BY DEF FullRun, FullRow, Cov!Run, Gated
<1>2. DOMAIN full = DOMAIN mutants
  BY DEF FullRun, Cov!Run
<1>3. \A k \in Gated(mutants) :
        /\ row(k).status \in {"killed", "survived"}
        /\ \A j \in DOMAIN list : list[j] \in DOMAIN row(k).stages
  BY DEF FullRow, Cov!Gate
<1>4. \A k \in DOMAIN mutants \ Gated(mutants) :
        Cov!NotGated(k, mutants[k].status).status \notin {"killed", "survived"}
  BY DEF Cov!NotGated, Gated, Cov!Statuses
<1>5. Gated(mutants) \subseteq DOMAIN mutants
  BY DEF Gated
<1> HIDE DEF full, row
<1>6. Cov!Scored(full, list) = {row(k) : k \in Gated(mutants)}
  BY <1>1, <1>2, <1>3, <1>4, <1>5 DEF Cov!Scored, Cov!Rows
<1> QED
  BY <1>6 DEF full, row

LEMMA RedOfRow ==
  ASSUME NEW k, NEW list, NEW rcs
  PROVE  Cov!Red(FullRow(k, list, rcs), list) = RedOf(list, rcs)
<1> DEFINE row == FullRow(k, list, rcs)
<1>1. \A j \in DOMAIN list : row.stages[list[j]] = rcs[list[j]]
  BY DEF FullRow, Cov!Gate
<1> HIDE DEF row
<1>2. Cov!Red(row, list) = RedOf(list, rcs)
  BY <1>1 DEF Cov!Red, RedOf
<1> QED
  BY <1>2 DEF row

(* What coverage.py counts, in terms of what the stages say: the mutants   *)
(* that any stage is red on, that s is, that s alone is, that n stages are *)
(* and that s is the first to be.                                          *)
AnyRed(mutants, list) == {k \in Gated(mutants) : RedOf(list, mutants[k].rcs) # {}}
RedAt(mutants, list, s) == {k \in Gated(mutants) : s \in RedOf(list, mutants[k].rcs)}
OnlyRedAt(mutants, list, s) == {k \in Gated(mutants) : RedOf(list, mutants[k].rcs) = {s}}
RedTimes(mutants, list, n) ==
  {k \in AnyRed(mutants, list) : Cardinality(RedOf(list, mutants[k].rcs)) = n}
FirstRedAt(mutants, list, s) ==
  {k \in Gated(mutants) :
     \E i \in DOMAIN list : /\ list[i] = s /\ s \in RedOf(list, mutants[k].rcs)
                            /\ \A j \in 1 .. i - 1 : list[j] \notin RedOf(list, mutants[k].rcs)}

LEMMA CountsOfFull ==
  ASSUME NEW mutants, NEW list,
         NEW full, full = FullRun(mutants, list)
  PROVE  /\ {r.id : r \in Cov!Killed(full, list)} = AnyRed(mutants, list)
         /\ \A s : /\ Cov!Kills(full, list, s) = RedAt(mutants, list, s)
                  /\ Cov!Uniq(full, list, s) = OnlyRedAt(mutants, list, s)
                  /\ Cov!First(full, list, s) = FirstRedAt(mutants, list, s)
         /\ \A n : Cov!Caught(full, list, n) = RedTimes(mutants, list, n)
<1> DEFINE G == Gated(mutants)
           row == [k \in G |-> FullRow(k, list, mutants[k].rcs)]
           red == [k \in G |-> RedOf(list, mutants[k].rcs)]
<1>1. Cov!Scored(full, list) = {row[k] : k \in G}
  BY ScoredRows
<1>2. \A k \in G : row[k].id = k
  BY DEF FullRow, Cov!Gate
<1>3. \A k \in G : Cov!Red(row[k], list) = red[k]
  BY RedOfRow
<1> HIDE DEF G, row, red
<1>4. {r.id : r \in Cov!Killed(full, list)} = {k \in G : red[k] # {}}
  BY <1>1, <1>2, <1>3 DEF Cov!Killed
<1>5. ASSUME NEW s PROVE Cov!Kills(full, list, s) = {k \in G : s \in red[k]}
  BY <1>1, <1>2, <1>3 DEF Cov!Kills
<1>6. ASSUME NEW s PROVE Cov!Uniq(full, list, s) = {k \in G : red[k] = {s}}
  BY <1>1, <1>2, <1>3 DEF Cov!Uniq
<1>7. ASSUME NEW n
      PROVE  Cov!Caught(full, list, n) = {k \in G : red[k] # {} /\ Cardinality(red[k]) = n}
  <2>1. \A r : r \in Cov!Killed(full, list) <=> \E k \in G : r = row[k] /\ red[k] # {}
    BY <1>1, <1>3 DEF Cov!Killed
  <2>2. Cov!Caught(full, list, n)
          = {r.id : r \in {r \in Cov!Killed(full, list) : Cardinality(Cov!Red(r, list)) = n}}
    BY CountingIsShared DEF Cov!Caught
  <2> QED
    BY <1>2, <1>3, <2>1, <2>2
<1>8. ASSUME NEW s
      PROVE  Cov!First(full, list, s)
               = {k \in G :
                    \E i \in DOMAIN list : /\ list[i] = s /\ s \in red[k]
                                           /\ \A j \in 1 .. i - 1 : list[j] \notin red[k]}
  BY <1>1, <1>2, <1>3 DEF Cov!First
<1>9. G = Gated(mutants) /\ \A k \in Gated(mutants) : red[k] = RedOf(list, mutants[k].rcs)
  BY DEF G, red
<1>10. {r.id : r \in Cov!Killed(full, list)} = AnyRed(mutants, list)
  BY <1>4, <1>9 DEF AnyRed
<1>11. \A s : Cov!Kills(full, list, s) = RedAt(mutants, list, s)
  BY <1>5, <1>9 DEF RedAt
<1>12. \A s : Cov!Uniq(full, list, s) = OnlyRedAt(mutants, list, s)
  BY <1>6, <1>9 DEF OnlyRedAt
<1>13. \A n : Cov!Caught(full, list, n) = RedTimes(mutants, list, n)
  BY <1>7, <1>9 DEF RedTimes, AnyRed
<1>14. \A s : Cov!First(full, list, s) = FirstRedAt(mutants, list, s)
  BY <1>8, <1>9 DEF FirstRedAt
<1> QED
  BY <1>10, <1>11, <1>12, <1>13, <1>14, Zenon

(* The first red stage is the one that no red one stands before.           *)
LEMMA FirstRedIs ==
  ASSUME NEW list \in Seq(STRING \ {Cov!NoStage}), NEW rcs
  PROVE  /\ Cov!FirstRed(list, rcs) = Cov!NoStage <=> RedOf(list, rcs) = {}
         /\ \A s : s # Cov!NoStage =>
              (Cov!FirstRed(list, rcs) = s <=>
                 \E i \in DOMAIN list : /\ list[i] = s /\ s \in RedOf(list, rcs)
                                        /\ \A j \in 1 .. i - 1 : list[j] \notin RedOf(list, rcs))
<1> DEFINE reds == {i \in DOMAIN list : rcs[list[i]] # 0}
           least(i) == rcs[list[i]] # 0 /\ \A j \in 1 .. i - 1 : rcs[list[j]] = 0
<1>1. DOMAIN list = 1 .. Len(list) /\ Len(list) \in Nat
  OBVIOUS
<1>2. \A i \in DOMAIN list : list[i] # Cov!NoStage
  OBVIOUS
<1>3. \A i \in DOMAIN list : list[i] \in RedOf(list, rcs) <=> rcs[list[i]] # 0
  BY DEF RedOf
<1>4. RedOf(list, rcs) = {} <=> reds = {}
  BY DEF RedOf
<1>5. reds # {} => \E i \in DOMAIN list : least(i)
  <2> SUFFICES ASSUME reds # {} PROVE \E i \in DOMAIN list : least(i)
    OBVIOUS
  <2>1. reds \in SUBSET Nat
    BY <1>1
  <2>2. PICK m \in reds : \A n \in reds : m <= n
    BY <2>1, LeastOf
  <2> QED
    BY <1>1, <2>2
<1>6. \A i, j \in DOMAIN list : least(i) /\ least(j) => i = j
  BY <1>1
<1>7. reds = {} => Cov!FirstRed(list, rcs) = Cov!NoStage
  BY DEF Cov!FirstRed
<1>8. reds # {} => \E i \in DOMAIN list : least(i) /\ Cov!FirstRed(list, rcs) = list[i]
  <2> SUFFICES ASSUME reds # {}
               PROVE  \E i \in DOMAIN list : least(i) /\ Cov!FirstRed(list, rcs) = list[i]
    OBVIOUS
  <2>1. Cov!FirstRed(list, rcs) = list[CHOOSE i \in DOMAIN list : least(i)]
    BY DEF Cov!FirstRed
  <2> QED
    BY <1>5, <2>1
<1>9. \A i \in DOMAIN list :
        least(i) <=> /\ list[i] \in RedOf(list, rcs)
                     /\ \A j \in 1 .. i - 1 : list[j] \notin RedOf(list, rcs)
  BY <1>1, <1>3
<1>10. \A i \in DOMAIN list : least(i) => Cov!FirstRed(list, rcs) = list[i]
  BY <1>6, <1>8
<1> HIDE DEF least
<1>11. ASSUME NEW s, s # Cov!NoStage
       PROVE  Cov!FirstRed(list, rcs) = s <=>
                \E i \in DOMAIN list : /\ list[i] = s /\ s \in RedOf(list, rcs)
                                       /\ \A j \in 1 .. i - 1 : list[j] \notin RedOf(list, rcs)
  BY <1>7, <1>8, <1>9, <1>10, <1>11
<1> QED
  BY <1>2, <1>4, <1>7, <1>8, <1>11

(* report.py on the rows of the run that stops at the first red.           *)
LEMMA CountsOfPlain ==
  ASSUME NEW mutants, NEW list \in Seq(STRING \ {Cov!NoStage}), NEW s, s # Cov!NoStage
  PROVE  Cov!FirstToKill(PlainRun(mutants, list), s)
           = {k \in Gated(mutants) : Cov!FirstRed(list, mutants[k].rcs) = s}
<1> DEFINE plain == PlainRun(mutants, list)
           row(k) == PlainRow(k, list, mutants[k].rcs)
<1>1. \A k \in DOMAIN mutants :
        plain[k] = IF k \in Gated(mutants) THEN row(k)
                   ELSE Cov!NotGated(k, mutants[k].status)
  BY DEF PlainRun, PlainRow, Cov!Run, Gated
<1>2. DOMAIN plain = DOMAIN mutants
  BY DEF PlainRun, Cov!Run
<1>3. \A k : /\ row(k).id = k
             /\ row(k).status = "killed" /\ row(k).killer = s
                  <=> Cov!FirstRed(list, mutants[k].rcs) = s
  BY DEF PlainRow, Cov!Gate
<1>4. \A k \in DOMAIN mutants \ Gated(mutants) :
        Cov!NotGated(k, mutants[k].status).status # "killed"
  BY DEF Cov!NotGated, Gated, Cov!Statuses
<1>5. Gated(mutants) \subseteq DOMAIN mutants
  BY DEF Gated
<1> HIDE DEF plain, row
<1>6. Cov!FirstToKill(plain, s) = {k \in Gated(mutants) : Cov!FirstRed(list, mutants[k].rcs) = s}
  BY <1>1, <1>2, <1>3, <1>4, <1>5 DEF Cov!FirstToKill, Cov!Rows
<1> QED
  BY <1>6 DEF plain

(* A mutant is caught by no more stages than there are.                    *)
LEMMA RedsCounted ==
  ASSUME NEW list \in Seq(STRING), NEW rcs, RedOf(list, rcs) # {}
  PROVE  Cardinality(RedOf(list, rcs)) \in DOMAIN list
<1> DEFINE reds == {j \in DOMAIN list : rcs[list[j]] # 0}
           f == [j \in reds |-> list[j]]
<1>1. IsFiniteSet(DOMAIN list) /\ Cardinality(DOMAIN list) = Len(list) /\ Len(list) \in Nat
  <2>1. DOMAIN list = 1 .. Len(list) /\ Len(list) \in Nat
    OBVIOUS
  <2>2. IsFiniteSet(1 .. Len(list)) /\ Cardinality(1 .. Len(list)) = Len(list)
    BY <2>1, FS_Interval
  <2> QED
    BY <2>1, <2>2
<1>2. IsFiniteSet(reds) /\ Cardinality(reds) <= Len(list)
  BY <1>1, FS_Subset
<1>3. f \in Surjection(reds, RedOf(list, rcs))
  BY DEF Surjection, RedOf
<1> HIDE DEF f
<1>4. /\ IsFiniteSet(RedOf(list, rcs))
      /\ Cardinality(RedOf(list, rcs)) <= Cardinality(reds)
  BY <1>2, <1>3, FS_Surjection
<1>5. /\ Cardinality(reds) \in Nat
      /\ Cardinality(RedOf(list, rcs)) \in Nat
      /\ Cardinality(RedOf(list, rcs)) # 0
  BY <1>2, <1>4, FS_CardinalityType, FS_EmptySet
<1> QED
  BY <1>1, <1>2, <1>4, <1>5

(* The three runs of an input of the gate, once it is done.                *)
LEMMA RunsAre ==
  ASSUME Ended, tool = "coverage", output # None
  PROVE  /\ input \in Inputs["coverage"]
         /\ output.full = FullRun(input.mutants, input.stages)
         /\ output.plain = PlainRun(input.mutants, input.stages)
         /\ output.shorter = FullRun(input.mutants, Cov!AllButLast(input.stages))
<1>1. output = Cov!Runs(input.mutants, input.stages)
  BY DEF Ended, WroteAs
<1>2. input \in Inputs["coverage"]
  BY DEF Ended
<1> QED
  BY <1>1, <1>2 DEF Cov!Runs, FullRun, PlainRun

LEMMA EndedFailFirst == Ended => FailFirstIsThePlainRun
<1> SUFFICES ASSUME Ended, tool = "coverage", output # None
             PROVE  FailFirstIsThePlainRun
  BY DEF FailFirstIsThePlainRun
<1> DEFINE list == input.stages
           mutants == input.mutants
           full == output.full
           G == Gated(mutants)
           red(k) == RedOf(list, mutants[k].rcs)
           first(k) == Cov!FirstRed(list, mutants[k].rcs)
<1>1. /\ list \in Seq(STRING \ {Cov!NoStage}) /\ list \in Seq(STRING)
      /\ full = FullRun(mutants, list)
      /\ output.plain = PlainRun(mutants, list)
  <2>1. input \in Inputs["coverage"] /\ "coverage" \in DOMAIN Inputs
    BY RunsAre DEF Ended
  <2>2. list \in Seq(STRING \ {Cov!NoStage})
    BY <2>1, CoverageAssumption DEF Given
  <2>3. list \in Seq(STRING)
    BY <2>2
  <2> QED
    BY <2>2, <2>3, RunsAre
<1> HIDE DEF list, mutants, full
<1>2. /\ {r.id : r \in Cov!Killed(full, list)} = AnyRed(mutants, list)
      /\ \A s : Cov!First(full, list, s) = FirstRedAt(mutants, list, s)
      /\ \A n : Cov!Caught(full, list, n) = RedTimes(mutants, list, n)
  BY <1>1, CountsOfFull
<1>3. ASSUME NEW s \in Elements(list)
      PROVE  /\ FirstRedAt(mutants, list, s) = Cov!FirstToKill(output.plain, s)
             /\ FirstRedAt(mutants, list, s) = {k \in G : first(k) = s}
  <2>1. s # Cov!NoStage
    BY <1>1 DEF Elements
  <2>2. Cov!FirstToKill(output.plain, s) = {k \in G : first(k) = s}
    BY <1>1, <2>1, CountsOfPlain
  <2>3. \A k : first(k) = s
                 <=> \E i \in DOMAIN list :
                       /\ list[i] = s /\ s \in red(k)
                       /\ \A j \in 1 .. i - 1 : list[j] \notin red(k)
    BY <1>1, <2>1, FirstRedIs
  <2> QED
    BY <2>2, <2>3 DEF FirstRedAt
<1>4. UNION {FirstRedAt(mutants, list, s) : s \in Elements(list)} = AnyRed(mutants, list)
  <2>1. ASSUME NEW k \in G
        PROVE  red(k) # {} <=> \E s \in Elements(list) : first(k) = s
    <3>1. red(k) = {} <=> first(k) = Cov!NoStage
      BY <1>1, FirstRedIs
    <3>2. \A s \in Elements(list) : s # Cov!NoStage
      BY <1>1 DEF Elements
    <3>3. first(k) # Cov!NoStage => first(k) \in Elements(list)
      BY <1>1, FirstRedIs DEF Elements
    <3> QED
      BY <3>1, <3>2, <3>3
  <2>2. AnyRed(mutants, list) = {k \in G : red(k) # {}}
    BY DEF AnyRed
  <2> HIDE DEF red, first
  <2> QED
    BY <1>3, <2>1, <2>2
<1>5. UNION {RedTimes(mutants, list, n) : n \in DOMAIN list} = AnyRed(mutants, list)
  <2>1. \A k \in AnyRed(mutants, list) : Cardinality(red(k)) \in DOMAIN list
    BY <1>1, RedsCounted DEF AnyRed
  <2> QED
    BY <2>1 DEF RedTimes
<1>6. \A s \in Elements(list) : Cov!First(full, list, s) = Cov!FirstToKill(output.plain, s)
  BY <1>2, <1>3
<1>7. UNION {Cov!First(full, list, s) : s \in Elements(list)} = AnyRed(mutants, list)
  <2>1. {Cov!First(full, list, s) : s \in Elements(list)}
          = {FirstRedAt(mutants, list, s) : s \in Elements(list)}
    BY <1>2
  <2> QED
    BY <1>4, <2>1
<1>8. UNION {Cov!Caught(full, list, n) : n \in DOMAIN list} = AnyRed(mutants, list)
  <2>1. {Cov!Caught(full, list, n) : n \in DOMAIN list}
          = {RedTimes(mutants, list, n) : n \in DOMAIN list}
    BY <1>2
  <2> QED
    BY <1>5, <2>1
<1>9. {r.id : r \in Cov!Killed(full, list)} = AnyRed(mutants, list)
  BY <1>2
<1> QED
  BY <1>6, <1>7, <1>8, <1>9 DEF FailFirstIsThePlainRun, list, full

(* What `shorter' lacks: the last stage, and nothing else.                 *)
LEMMA ShorterList ==
  ASSUME NEW list \in Seq(STRING), list # <<>>, NEW rcs,
         \A i, j \in DOMAIN list : list[i] = list[j] => i = j
  PROVE  LET old == Cov!AllButLast(list)
             new == list[Len(list)]
         IN /\ RedOf(old, rcs) = RedOf(list, rcs) \ {new}
            /\ new \in RedOf(list, rcs) <=> rcs[new] # 0
            /\ new \notin Elements(old)
            /\ \A s \in Elements(old) : s \in RedOf(list, rcs) <=> s \in RedOf(old, rcs)
<1> DEFINE old == Cov!AllButLast(list)
           new == list[Len(list)]
<1>1. Len(list) \in Nat \ {0} /\ DOMAIN list = 1 .. Len(list)
  OBVIOUS
<1>2. DOMAIN old = 1 .. Len(list) - 1 /\ \A i \in 1 .. Len(list) - 1 : old[i] = list[i]
  BY <1>1 DEF Cov!AllButLast
<1> HIDE DEF old
<1>3. new \notin Elements(old)
  BY <1>1, <1>2 DEF Elements
<1>4. \A s : s \in RedOf(list, rcs) <=> \E i \in 1 .. Len(list) : list[i] = s /\ rcs[s] # 0
  BY <1>1 DEF RedOf
<1>5. \A s : s \in RedOf(old, rcs) <=> \E i \in 1 .. Len(list) - 1 : list[i] = s /\ rcs[s] # 0
  BY <1>2 DEF RedOf
<1>6. \A i \in 1 .. Len(list) - 1 : i \in 1 .. Len(list) /\ list[i] # new
  BY <1>1
<1>7. \A n \in Nat : \A i \in 1 .. n : i \in 1 .. n - 1 \/ i = n
  OBVIOUS
<1>8. ASSUME NEW s
      PROVE  s \in RedOf(old, rcs) <=> s \in RedOf(list, rcs) /\ s # new
  <2>1. \A i \in 1 .. Len(list) : i \in 1 .. Len(list) - 1 \/ i = Len(list)
    BY <1>1, <1>7
  <2> QED
    BY <1>4, <1>5, <1>6, <2>1
<1>9. new \in RedOf(list, rcs) <=> rcs[new] # 0
  BY <1>1, <1>4
<1>10. \A s \in Elements(old) : s \in RedOf(list, rcs) <=> s \in RedOf(old, rcs)
  <2>1. \A s \in Elements(old) : s # new
    BY <1>3
  <2> QED
    BY <1>8, <2>1
<1>11. RedOf(old, rcs) = RedOf(list, rcs) \ {new}
  BY <1>8
<1> QED
  BY <1>3, <1>9, <1>10, <1>11 DEF old

(* What moved between two runs of every stage.                             *)
HowEnds(list, rcs) == IF RedOf(list, rcs) = {} THEN "survived" ELSE "killed"

LEMMA MovedBetween ==
  ASSUME NEW mutants,
         NEW old \in Seq(STRING \ {Cov!NoStage}), NEW list \in Seq(STRING \ {Cov!NoStage}),
         NEW before, before = FullRun(mutants, old),
         NEW after, after = FullRun(mutants, list),
         NEW from \in {"killed", "survived"}, NEW to \in {"killed", "survived"}
  PROVE  Cov!Moved(before, after, from, to)
           = {k \in Gated(mutants) : /\ HowEnds(list, mutants[k].rcs) = to
                                     /\ HowEnds(old, mutants[k].rcs) = from}
<1> DEFINE G == Gated(mutants)
           was == [k \in G |-> HowEnds(old, mutants[k].rcs)]
           is == [k \in G |-> HowEnds(list, mutants[k].rcs)]
<1>1. DOMAIN before = DOMAIN mutants /\ DOMAIN after = DOMAIN mutants
  BY DEF FullRun, Cov!Run
<1>2. \A k \in DOMAIN mutants : before[k].id = k /\ after[k].id = k
  BY DEF FullRun, Cov!Run, Cov!Gate, Cov!NotGated
<1>3. \A k \in DOMAIN mutants \ G :
        before[k].status \notin {"killed", "survived"} /\ after[k].status \notin {"killed", "survived"}
  BY DEF FullRun, Cov!Run, Cov!NotGated, Cov!Statuses, Gated
<1>4. G \subseteq DOMAIN mutants
  BY DEF Gated
<1>5. \A k \in G : before[k].status = was[k]
  <2>1. \A k \in G : before[k].status
          = IF Cov!FirstRed(old, mutants[k].rcs) = Cov!NoStage THEN "survived" ELSE "killed"
    BY DEF FullRun, Cov!Run, Cov!Gate, Gated
  <2>2. \A rcs : Cov!FirstRed(old, rcs) = Cov!NoStage <=> RedOf(old, rcs) = {}
    BY FirstRedIs
  <2> QED
    BY <2>1, <2>2 DEF HowEnds
<1>6. \A k \in G : after[k].status = is[k]
  <2>1. \A k \in G : after[k].status
          = IF Cov!FirstRed(list, mutants[k].rcs) = Cov!NoStage THEN "survived" ELSE "killed"
    BY DEF FullRun, Cov!Run, Cov!Gate, Gated
  <2>2. \A rcs : Cov!FirstRed(list, rcs) = Cov!NoStage <=> RedOf(list, rcs) = {}
    BY FirstRedIs
  <2> QED
    BY <2>1, <2>2 DEF HowEnds
<1> HIDE DEF G, was, is
<1>7. ASSUME NEW k
      PROVE  k \in Cov!Moved(before, after, from, to) <=> k \in G /\ is[k] = to /\ was[k] = from
  <2>1. k \in Cov!Moved(before, after, from, to)
          <=> k \in DOMAIN mutants /\ after[k].status = to /\ before[k].status = from
    BY <1>1, <1>2 DEF Cov!Moved, Cov!Rows
  <2> QED
    BY <2>1, <1>3, <1>4, <1>5, <1>6
<1> QED
  BY <1>7 DEF G, was, is

LEMMA EndedUniqueOnlyFalls == Ended => UniqueOnlyFalls
<1> SUFFICES ASSUME Ended, tool = "coverage", output # None
             PROVE  UniqueOnlyFalls
  BY DEF UniqueOnlyFalls
<1> DEFINE list == input.stages
           mutants == input.mutants
           full == output.full
           shorter == output.shorter
           old == Cov!AllButLast(list)
           new == list[Len(list)]
           G == Gated(mutants)
           red(k) == RedOf(list, mutants[k].rcs)
           less(k) == RedOf(old, mutants[k].rcs)
<1>1. /\ list \in Seq(STRING \ {Cov!NoStage}) /\ list \in Seq(STRING) /\ list # <<>>
      /\ \A i, j \in DOMAIN list : list[i] = list[j] => i = j
      /\ full = FullRun(mutants, list)
      /\ shorter = FullRun(mutants, old)
  <2>1. input \in Inputs["coverage"] /\ "coverage" \in DOMAIN Inputs
    BY RunsAre DEF Ended
  <2>2. /\ list \in Seq(STRING \ {Cov!NoStage}) /\ list # <<>>
        /\ \A i, j \in DOMAIN list : list[i] = list[j] => i = j
    BY <2>1, CoverageAssumption DEF Given
  <2>3. list \in Seq(STRING)
    BY <2>2
  <2> QED
    BY <2>2, <2>3, RunsAre
<1> HIDE DEF list, mutants, full, shorter
<1>2. old \in Seq(STRING \ {Cov!NoStage})
  BY <1>1 DEF Cov!AllButLast
<1>3. ASSUME NEW k
      PROVE  /\ less(k) = red(k) \ {new}
             /\ new \notin Elements(old)
             /\ \A s \in Elements(old) : s \in red(k) <=> s \in less(k)
  BY <1>1, ShorterList
<1>4. ASSUME NEW s \in Elements(old)
      PROVE  /\ OnlyRedAt(mutants, list, s) \subseteq OnlyRedAt(mutants, old, s)
             /\ RedAt(mutants, list, s) = RedAt(mutants, old, s)
  <2>1. \A k : red(k) = {s} => less(k) = {s}
    BY <1>3
  <2>2. \A k : s \in red(k) <=> s \in less(k)
    BY <1>3
  <2> QED
    BY <2>1, <2>2 DEF OnlyRedAt, RedAt
<1>5. \A s : /\ Cov!Uniq(full, list, s) = OnlyRedAt(mutants, list, s)
             /\ Cov!Kills(full, list, s) = RedAt(mutants, list, s)
  BY <1>1, CountsOfFull
<1>6. \A s : /\ Cov!Uniq(shorter, old, s) = OnlyRedAt(mutants, old, s)
             /\ Cov!Kills(shorter, old, s) = RedAt(mutants, old, s)
  BY <1>1, CountsOfFull
<1>7. Cov!Moved(shorter, full, "survived", "killed") = OnlyRedAt(mutants, list, new)
  <2>1. Cov!Moved(shorter, full, "survived", "killed")
          = {k \in G : /\ HowEnds(list, mutants[k].rcs) = "killed"
                       /\ HowEnds(old, mutants[k].rcs) = "survived"}
    BY <1>1, <1>2, MovedBetween
  <2>2. \A k : red(k) = {new} <=> red(k) # {} /\ less(k) = {}
    BY <1>3
  <2> QED
    BY <2>1, <2>2 DEF OnlyRedAt, HowEnds
<1>8. Cov!Moved(shorter, full, "killed", "survived") = {}
  <2>1. Cov!Moved(shorter, full, "killed", "survived")
          = {k \in G : /\ HowEnds(list, mutants[k].rcs) = "survived"
                       /\ HowEnds(old, mutants[k].rcs) = "killed"}
    BY <1>1, <1>2, MovedBetween
  <2>2. \A k : ~(red(k) = {} /\ less(k) # {})
    BY <1>3
  <2> QED
    BY <2>1, <2>2 DEF HowEnds
<1> QED
  BY <1>4, <1>5, <1>6, <1>7, <1>8 DEF UniqueOnlyFalls, list, full, shorter

(* The `fail-first' column is what the plain run records, stage by stage,  *)
(* whatever mutants there are, whatever the stages say of them and however *)
(* many stages there are.                                                  *)
THEOREM FailFirstAlwaysThePlainRun == Spec => []FailFirstIsThePlainRun
  BY EndedCorrect, EndedFailFirst, PTL

(* A new last stage takes unique kills from the others and gives none.     *)
THEOREM UniqueAlwaysOnlyFalls == Spec => []UniqueOnlyFalls
  BY EndedCorrect, EndedUniqueOnlyFalls, PTL
-----------------------------------------------------------------------------
(* gen.py: the matches of a source in their order.                         *)

(* A source's matches are finitely many pairs of a line and a column,      *)
(* whatever the scanner blanks.                                            *)
LEMMA MatchesAreFinite ==
  ASSUME NEW lines \in Seq(Seq(STRING))
  PROVE  LET found == Gen!MatchesOf(Gen!MaskComments(lines))
         IN  IsFiniteSet(found) /\ found \in SUBSET (Nat \X Nat)
<1> DEFINE code == Gen!MaskComments(lines)
           on == [n \in 1 .. Len(lines) |-> {<<n, i>> : i \in Gen!Matches(code[n])}]
           found == Gen!MatchesOf(code)
<1>1. Len(lines) \in Nat /\ \A n \in 1 .. Len(lines) : lines[n] \in Seq(STRING)
  OBVIOUS
<1>2. /\ DOMAIN code = 1 .. Len(lines)
      /\ \A n \in 1 .. Len(lines) : code[n] \in [1 .. Len(lines[n]) -> STRING \union {Gen!Blank}]
  BY <1>1 DEF Gen!MaskComments
<1> HIDE DEF code
<1>3. \A n \in 1 .. Len(lines) : code[n] \in Seq(STRING \union {Gen!Blank})
  <2> SUFFICES ASSUME NEW n \in 1 .. Len(lines)
               PROVE  code[n] \in Seq(STRING \union {Gen!Blank})
    OBVIOUS
  <2>1. lines[n] \in Seq(STRING)
    BY <1>1
  <2>2. Len(lines[n]) \in Nat
    BY <2>1
  <2>3. code[n] \in [1 .. Len(lines[n]) -> STRING \union {Gen!Blank}]
    BY <1>2
  <2> QED
    BY <2>2, <2>3, IsSequence
<1>4. \A n \in 1 .. Len(lines) : /\ Len(code[n]) \in Nat
                                 /\ Gen!Matches(code[n]) \subseteq 1 .. Len(code[n])
  BY <1>3 DEF Gen!Matches
<1>5. ASSUME NEW n \in 1 .. Len(lines)
      PROVE  on[n] \subseteq Nat \X Nat /\ IsFiniteSet(on[n])
  <2>1. on[n] \in SUBSET ({n} \X (1 .. Len(code[n])))
    BY <1>4
  <2>2. IsFiniteSet({n}) /\ IsFiniteSet(1 .. Len(code[n]))
    <3>1. Len(code[n]) \in Int /\ 1 \in Int
      BY <1>4
    <3>2. IsFiniteSet(1 .. Len(code[n]))
      BY <3>1, FS_Interval
    <3> QED
      BY <3>2, FS_Singleton
  <2>3. IsFiniteSet({n} \X (1 .. Len(code[n])))
    BY <2>2, FS_Product
  <2>4. IsFiniteSet(on[n])
    BY <2>1, <2>3, FS_Subset
  <2>5. on[n] \subseteq Nat \X Nat
    <3>1. n \in Nat /\ 1 .. Len(code[n]) \subseteq Nat
      BY <1>1, <1>4
    <3>2. Gen!Matches(code[n]) \subseteq 1 .. Len(code[n])
      BY <1>4
    <3> QED
      BY <3>1, <3>2
  <2> QED
    BY <2>4, <2>5
<1>6. found = UNION {on[n] : n \in 1 .. Len(lines)}
  BY <1>2 DEF Gen!MatchesOf
<1> HIDE DEF on, found
<1>7. IsFiniteSet({on[n] : n \in 1 .. Len(lines)})
  <2> DEFINE f == [n \in 1 .. Len(lines) |-> on[n]]
  <2>1. f \in Surjection(1 .. Len(lines), {on[n] : n \in 1 .. Len(lines)})
    BY DEF Surjection
  <2>2. IsFiniteSet(1 .. Len(lines))
    BY <1>1, FS_Interval
  <2> HIDE DEF f
  <2> QED
    BY <2>1, <2>2, FS_Surjection
<1>8. IsFiniteSet(found)
  BY <1>5, <1>6, <1>7, FS_UNION
<1>9. found \in SUBSET (Nat \X Nat)
  BY <1>5, <1>6
<1> QED
  BY <1>8, <1>9 DEF found, code

(* The place of a match: how many come before it, and the match at a place.*)
Rank(found, q) == Cardinality(Gen!Before(found, q))

AtPlace(found, k) == CHOOSE q \in found : Gen!Cardinality(Gen!Before(found, q)) = k - 1

NthOf(found, q) == 1 + Gen!Cardinality({p \in Gen!Before(found, q) : p[1] = q[1]})

(* Of two matches one comes before the other, and has fewer before it, on  *)
(* its line too when they are on one.                                      *)
LEMMA RanksDiffer ==
  ASSUME NEW found \in SUBSET (Nat \X Nat), IsFiniteSet(found),
         NEW p \in found, NEW q \in found, p # q
  PROVE  /\ Rank(found, p) # Rank(found, q)
         /\ p[1] = q[1] => NthOf(found, p) # NthOf(found, q)
<1> DEFINE ahead(r) == Gen!Before(found, r)
           level(r) == {s \in ahead(r) : s[1] = r[1]}
<1>1. \A r \in found : r[1] \in Nat /\ r[2] \in Nat /\ r = <<r[1], r[2]>>
  OBVIOUS
<1>2. \A r, s : s \in ahead(r) <=> s \in found /\ (s[1] < r[1] \/ (s[1] = r[1] /\ s[2] < r[2]))
  BY DEF Gen!Before
<1> HIDE DEF ahead
<1>3. ASSUME NEW a \in found, NEW b \in found, a \in ahead(b)
      PROVE  /\ Rank(found, a) # Rank(found, b)
             /\ a[1] = b[1] => NthOf(found, a) # NthOf(found, b)
  <2>1. ahead(a) \subseteq ahead(b) /\ a \notin ahead(a)
    <3>1. a \notin ahead(a)
      BY <1>1, <1>2
    <3>2. ASSUME NEW c \in ahead(a) PROVE c \in ahead(b)
      <4>1. c \in found /\ (c[1] < a[1] \/ (c[1] = a[1] /\ c[2] < a[2]))
        BY <1>2
      <4>2. a[1] < b[1] \/ (a[1] = b[1] /\ a[2] < b[2])
        BY <1>2, <1>3
      <4>3. c[1] < b[1] \/ (c[1] = b[1] /\ c[2] < b[2])
        BY <1>1, <4>1, <4>2
      <4> QED
        BY <1>2, <4>1, <4>3
    <3> QED
      BY <3>1, <3>2
  <2>2. IsFiniteSet(ahead(b)) /\ ahead(b) \subseteq found
    <3>1. ahead(b) \in SUBSET found
      BY <1>2
    <3> QED
      BY <3>1, FS_Subset
  <2>3. Cardinality(ahead(a)) # Cardinality(ahead(b))
    BY <1>3, <2>1, <2>2, FS_Subset
  <2>4. a[1] = b[1] => Cardinality(level(a)) # Cardinality(level(b))
    <3> SUFFICES ASSUME a[1] = b[1] PROVE Cardinality(level(a)) # Cardinality(level(b))
      OBVIOUS
    <3>1. level(b) \in SUBSET ahead(b) /\ level(a) \in SUBSET level(b)
      BY <2>1
    <3>2. IsFiniteSet(level(b))
      BY <2>2, <3>1, FS_Subset
    <3>3. a \in level(b) /\ a \notin level(a)
      BY <1>3, <2>1
    <3>4. level(a) # level(b)
      BY <3>3
    <3> HIDE DEF level
    <3> QED
      BY <3>1, <3>2, <3>4, FS_Subset
  <2>5. IsFiniteSet(level(a)) /\ IsFiniteSet(level(b))
    <3>1. level(b) \in SUBSET ahead(b) /\ level(a) \in SUBSET ahead(b)
      BY <2>1
    <3> QED
      BY <2>2, <3>1, FS_Subset
  <2>6. Cardinality(level(a)) \in Nat /\ Cardinality(level(b)) \in Nat
    BY <2>5, FS_CardinalityType
  <2>7. NthOf(found, a) = 1 + Cardinality(level(a)) /\ NthOf(found, b) = 1 + Cardinality(level(b))
    BY CountingIsShared DEF NthOf, ahead
  <2>8. Rank(found, a) = Cardinality(ahead(a)) /\ Rank(found, b) = Cardinality(ahead(b))
    BY DEF Rank, ahead
  <2> HIDE DEF level
  <2> QED
    BY <2>3, <2>4, <2>6, <2>7, <2>8
<1>4. p \in ahead(q) \/ q \in ahead(p)
  <2>1. p[1] # q[1] \/ p[2] # q[2]
    BY <1>1
  <2> QED
    BY <1>1, <1>2, <2>1
<1> QED
  BY <1>3, <1>4

(* The places are 1 .. n, one match at each.                               *)
LEMMA PlacesAreTaken ==
  ASSUME NEW found \in SUBSET (Nat \X Nat), IsFiniteSet(found),
         NEW n, n = Cardinality(found)
  PROVE  /\ n \in Nat
         /\ \A k \in 1 .. n : AtPlace(found, k) \in found /\ Rank(found, AtPlace(found, k)) = k - 1
         /\ \A j, k \in 1 .. n : AtPlace(found, j) = AtPlace(found, k) => j = k
<1> DEFINE f == [q \in found |-> Rank(found, q)]
<1>1. n \in Nat
  BY FS_CardinalityType
<1>2. ASSUME NEW q \in found
      PROVE  Rank(found, q) \in 0 .. n - 1
  <2>1. Gen!Before(found, q) \in SUBSET found /\ q \notin Gen!Before(found, q)
    BY DEF Gen!Before
  <2>2. IsFiniteSet(Gen!Before(found, q)) /\ Cardinality(Gen!Before(found, q)) <= n
    BY <2>1, FS_Subset
  <2>3. Cardinality(Gen!Before(found, q)) # n
    BY <2>1, FS_Subset
  <2>4. Cardinality(Gen!Before(found, q)) \in Nat
    BY <2>2, FS_CardinalityType
  <2> QED
    BY <1>1, <2>2, <2>3, <2>4 DEF Rank
<1>3. f \in Injection(found, 0 .. n - 1)
  BY <1>2, RanksDiffer DEF Injection, IsInjective
<1>4. IsFiniteSet(0 .. n - 1) /\ Cardinality(0 .. n - 1) = n
  <2>1. 0 \in Int /\ n - 1 \in Int
    BY <1>1
  <2>2. /\ IsFiniteSet(0 .. n - 1)
        /\ Cardinality(0 .. n - 1) = IF 0 > n - 1 THEN 0 ELSE n - 1 - 0 + 1
    BY <2>1, FS_Interval
  <2> QED
    BY <1>1, <2>2
<1>5. f \in Surjection(found, 0 .. n - 1)
  BY <1>3, <1>4, FS_Injection
<1>6. ASSUME NEW k \in 1 .. n
      PROVE  AtPlace(found, k) \in found /\ Rank(found, AtPlace(found, k)) = k - 1
  <2>1. k - 1 \in 0 .. n - 1
    BY <1>1
  <2>2. \E q \in found : Rank(found, q) = k - 1
    BY <1>5, <2>1 DEF Surjection
  <2>3. \A q : Gen!Cardinality(Gen!Before(found, q)) = Rank(found, q)
    BY CountingIsShared DEF Rank
  <2> QED
    BY <2>2, <2>3 DEF AtPlace
<1>7. \A j, k \in 1 .. n : AtPlace(found, j) = AtPlace(found, k) => j = k
  BY <1>1, <1>6
<1> QED
  BY <1>1, <1>6, <1>7

(* What is used of the list of matches: it is a list, and two entries of   *)
(* one line differ in their column and in their ordinal.                   *)
IsRanking(all) ==
  /\ Len(all) \in Nat /\ DOMAIN all = 1 .. Len(all)
  /\ \A k \in DOMAIN all : all[k].nth \in Nat \ {0}
  /\ \A j, k \in DOMAIN all :
       j # k /\ all[j].line = all[k].line =>
         all[j].col # all[k].col /\ all[j].nth # all[k].nth

LEMMA RankedIsRanking ==
  ASSUME NEW lines \in Seq(Seq(STRING))
  PROVE  IsRanking(Gen!Ranked(lines))
<1> DEFINE found == Gen!MatchesOf(Gen!MaskComments(lines))
           n == Cardinality(found)
           all == Gen!Ranked(lines)
<1>1. IsFiniteSet(found) /\ found \in SUBSET (Nat \X Nat)
  BY MatchesAreFinite
<1>2. all = [k \in 1 .. n |-> Gen!Entry(found, AtPlace(found, k))]
  BY CountingIsShared DEF Gen!Ranked, Gen!InOrder, AtPlace
<1> HIDE DEF found, all
<1>3. /\ n \in Nat
      /\ \A k \in 1 .. n : AtPlace(found, k) \in found
      /\ \A j, k \in 1 .. n : AtPlace(found, j) = AtPlace(found, k) => j = k
  BY <1>1, PlacesAreTaken
<1> HIDE DEF n
<1>4. DOMAIN all = 1 .. n
  BY <1>2
<1>5. Len(all) = n
  <2>1. all = [k \in 1 .. n |-> all[k]]
    BY <1>2
  <2> QED
    BY <1>3, <2>1, LenIs
<1>6. \A k \in 1 .. n : /\ all[k].line = AtPlace(found, k)[1]
                        /\ all[k].col = AtPlace(found, k)[2]
                        /\ all[k].nth = NthOf(found, AtPlace(found, k))
  BY <1>2 DEF Gen!Entry, NthOf
<1>7. \A q \in found : NthOf(found, q) \in Nat \ {0}
  <2> SUFFICES ASSUME NEW q \in found PROVE NthOf(found, q) \in Nat \ {0}
    OBVIOUS
  <2> DEFINE level == {p \in Gen!Before(found, q) : p[1] = q[1]}
  <2>1. level \in SUBSET found
    BY DEF Gen!Before
  <2>2. NthOf(found, q) = 1 + Cardinality(level)
    BY CountingIsShared DEF NthOf
  <2> HIDE DEF level
  <2>3. IsFiniteSet(level)
    BY <1>1, <2>1, FS_Subset
  <2>4. Cardinality(level) \in Nat
    BY <2>3, FS_CardinalityType
  <2> QED
    BY <2>2, <2>4
<1>8. ASSUME NEW j \in 1 .. n, NEW k \in 1 .. n, j # k, all[j].line = all[k].line
      PROVE  all[j].col # all[k].col /\ all[j].nth # all[k].nth
  <2> DEFINE p == AtPlace(found, j)
             q == AtPlace(found, k)
  <2>1. p \in found /\ q \in found /\ p # q /\ p[1] = q[1]
    BY <1>3, <1>6, <1>8
  <2>2. all[j].col = p[2] /\ all[k].col = q[2]
    BY <1>6
  <2>3. all[j].nth = NthOf(found, p) /\ all[k].nth = NthOf(found, q)
    BY <1>6
  <2> HIDE DEF p, q
  <2>4. p \in Nat \X Nat /\ q \in Nat \X Nat
    BY <1>1, <2>1
  <2>5. p[2] # q[2]
    BY <2>1, <2>4
  <2>6. NthOf(found, p) # NthOf(found, q)
    BY <1>1, <2>1, RanksDiffer
  <2> QED
    BY <2>2, <2>3, <2>5, <2>6
<1>9. IsRanking(all)
  BY <1>3, <1>4, <1>5, <1>6, <1>7, <1>8 DEF IsRanking
<1> QED
  BY <1>9 DEF all

(* Ids are taken from the whole list: two entries have two.                *)
LEMMA IdsDiffer ==
  ASSUME NEW all, IsRanking(all), NEW j \in DOMAIN all, NEW k \in DOMAIN all,
         Gen!Id(all, all[j]) = Gen!Id(all, all[k])
  PROVE  j = k
<1> DEFINE many(m) == \E i \in DOMAIN all : all[i].line = m.line /\ all[i].nth > 1
<1>1. \A m : Gen!Id(all, m) = IF many(m) THEN <<m.line, m.nth>> ELSE <<m.line, 0>>
  BY DEF Gen!Id
<1>2. all[j].line = all[k].line
  BY <1>1
<1>3. many(all[j]) <=> many(all[k])
  BY <1>2
<1>4. CASE many(all[j])
  <2>1. all[j].nth = all[k].nth
    BY <1>1, <1>3, <1>4
  <2> QED
    BY <1>2, <2>1 DEF IsRanking
<1>5. CASE ~many(all[j])
  <2>1. /\ ~(all[j].nth > 1) /\ ~(all[k].nth > 1)
        /\ all[j].nth \in Nat \ {0} /\ all[k].nth \in Nat \ {0}
    BY <1>2, <1>5 DEF IsRanking
  <2>2. all[j].nth = all[k].nth
    BY <2>1
  <2> QED
    BY <1>2, <2>2 DEF IsRanking
<1> QED
  BY <1>4, <1>5

(* The places a capped sample of n takes.                                  *)
Uncapped(n, cap) == cap = 0 \/ n <= cap
SizeOf(n, cap) == IF Uncapped(n, cap) THEN n ELSE cap
PlaceOf(n, cap, k) == IF Uncapped(n, cap) THEN k ELSE ((k - 1) * n) \div cap + 1

LEMMA PlacesAreEven ==
  ASSUME NEW n \in Nat, NEW cap \in Nat
  PROVE  LET size == SizeOf(n, cap)
         IN  /\ size \in Nat
             /\ PlaceOf(n, cap, 1) = 1
             /\ PlaceOf(n, cap, size + 1) = n + 1
             /\ \A k \in 1 .. size + 1 : PlaceOf(n, cap, k) \in Nat
             /\ \A k \in 1 .. size : PlaceOf(n, cap, k) \in 1 .. n
             /\ \A j, k \in 1 .. size : j < k => PlaceOf(n, cap, j) < PlaceOf(n, cap, k)
             /\ \A j, k \in 1 .. size :
                  (PlaceOf(n, cap, j + 1) - PlaceOf(n, cap, j))
                    - (PlaceOf(n, cap, k + 1) - PlaceOf(n, cap, k)) <= 1
<1>1. CASE Uncapped(n, cap)
  BY <1>1 DEF SizeOf, PlaceOf
<1>2. CASE ~Uncapped(n, cap)
  <2> DEFINE past(k) == (k * n) \div cap
             d == n \div cap
  <2>1. cap \in Nat \ {0} /\ n > cap
    BY <1>2 DEF Uncapped
  <2>2. SizeOf(n, cap) = cap /\ \A k : PlaceOf(n, cap, k) = past(k - 1) + 1
    BY <1>2 DEF SizeOf, PlaceOf
  <2>3. \A k \in Nat : k * n \in Nat /\ (k + 1) * n = k * n + n
    OBVIOUS
  <2>4. ASSUME NEW k \in Nat
        PROVE  past(k) \in Nat
    <3>1. k * n \in Nat
      BY <2>3
    <3> QED
      BY <2>1, <3>1, Quotient
  <2>5. ASSUME NEW k \in Nat
        PROVE  /\ past(k + 1) - past(k) \in {d, d + 1}
               /\ past(k + 1) - past(k) >= 1
    <3>1. k * n \in Nat /\ (k + 1) * n = k * n + n
      BY <2>3
    <3>2. /\ (k * n + n) \div cap - (k * n) \div cap \in {d, d + 1}
          /\ (k * n + n) \div cap - (k * n) \div cap >= 1
      BY <2>1, <3>1, QuotientStep
    <3> QED
      BY <3>1, <3>2
  <2>6. ASSUME NEW j \in Nat, NEW k \in Nat, j < k
        PROVE  past(j) < past(k)
    <3>1. j + 1 <= k /\ j + 1 \in Nat
      BY <2>6
    <3>2. n * (j + 1) <= n * k
      BY <3>1, Product
    <3>3. (j + 1) * n \in Nat /\ k * n \in Nat /\ (j + 1) * n <= k * n
      BY <3>1, <3>2
    <3>4. past(j + 1) <= past(k)
      BY <2>1, <3>3, QuotientMonotone
    <3>5. past(j) \in Nat /\ past(j + 1) \in Nat /\ past(k) \in Nat
      BY <2>4, <3>1
    <3>6. past(j + 1) - past(j) >= 1
      BY <2>5
    <3> HIDE DEF past
    <3> QED
      BY <3>4, <3>5, <3>6
  <2>7. past(0) = 0
    <3>1. 0 * n = 0
      OBVIOUS
    <3>2. 0 \div cap \in Nat /\ cap * (0 \div cap) <= 0
      BY <2>1, Quotient
    <3>3. 0 \div cap = 0
      <4> DEFINE z == 0 \div cap
      <4>1. z \in Nat /\ cap * z <= 0
        BY <3>2
      <4> HIDE DEF z
      <4>2. z >= 1 => cap * 1 <= cap * z
        BY <2>1, <4>1, Product
      <4>3. z = 0
        BY <2>1, <4>1, <4>2
      <4> QED
        BY <4>3 DEF z
    <3> QED
      BY <3>1, <3>3
  <2>8. past(cap) = n
    BY <2>1, QuotientExact
  <2>9. d \in Nat
    BY <2>1, Quotient
  <2> HIDE DEF past, d
  <2>10. \A k \in 1 .. cap : k - 1 \in Nat /\ k - 1 < cap /\ (k - 1) + 1 = k
    BY <2>1
  <2>11. \A k \in 1 .. cap : past(k - 1) < n
    BY <2>1, <2>6, <2>8, <2>10
  <2>12. \A k \in 1 .. cap : past(k) - past(k - 1) \in {d, d + 1}
    <3> SUFFICES ASSUME NEW k \in 1 .. cap PROVE past(k) - past(k - 1) \in {d, d + 1}
      OBVIOUS
    <3>1. k - 1 \in Nat /\ (k - 1) + 1 = k
      BY <2>10
    <3> QED
      BY <2>5, <3>1
  <2>13. ASSUME NEW j \in 1 .. cap, NEW k \in 1 .. cap
         PROVE  ((past(j) + 1) - (past(j - 1) + 1)) - ((past(k) + 1) - (past(k - 1) + 1)) <= 1
    <3>1. /\ past(j) \in Nat /\ past(j - 1) \in Nat
          /\ past(k) \in Nat /\ past(k - 1) \in Nat
      BY <2>4, <2>10
    <3>2. past(j) - past(j - 1) \in {d, d + 1} /\ past(k) - past(k - 1) \in {d, d + 1}
      BY <2>12
    <3> QED
      BY <2>9, <3>1, <3>2
  <2>14. \A k \in 1 .. cap + 1 : PlaceOf(n, cap, k) \in Nat
    BY <2>1, <2>2, <2>4
  <2>15. \A k \in 1 .. cap : PlaceOf(n, cap, k) \in 1 .. n
    BY <2>1, <2>2, <2>4, <2>10, <2>11
  <2>16. \A j, k \in 1 .. cap : j < k => PlaceOf(n, cap, j) < PlaceOf(n, cap, k)
    <3> SUFFICES ASSUME NEW j \in 1 .. cap, NEW k \in 1 .. cap, j < k
                 PROVE  past(j - 1) + 1 < past(k - 1) + 1
      BY <2>2
    <3>1. j - 1 \in Nat /\ k - 1 \in Nat /\ j - 1 < k - 1
      OBVIOUS
    <3>2. past(j - 1) < past(k - 1) /\ past(j - 1) \in Nat /\ past(k - 1) \in Nat
      BY <2>4, <2>6, <3>1
    <3> QED
      BY <3>2
  <2>17. \A j, k \in 1 .. cap :
           (PlaceOf(n, cap, j + 1) - PlaceOf(n, cap, j))
             - (PlaceOf(n, cap, k + 1) - PlaceOf(n, cap, k)) <= 1
    <3>1. \A k \in 1 .. cap : PlaceOf(n, cap, k + 1) = past(k) + 1
      <4>1. \A k \in 1 .. cap : (k + 1) - 1 = k
        OBVIOUS
      <4> QED
        BY <2>2, <4>1
    <3> QED
      BY <2>2, <2>13, <3>1
  <2>18. PlaceOf(n, cap, 1) = 1 /\ PlaceOf(n, cap, cap + 1) = n + 1
    <3>1. 1 - 1 = 0 /\ (cap + 1) - 1 = cap
      BY <2>1
    <3> QED
      BY <2>2, <2>7, <2>8, <3>1
  <2> QED
    BY <2>1, <2>2, <2>14, <2>15, <2>16, <2>17, <2>18
<1> QED
  BY <1>1, <1>2

(* What is generated: the entries at those places, under their ids.        *)
IsSampleOf(made, all, cap) ==
  LET n == Len(all)
      size == SizeOf(n, cap)
  IN  /\ DOMAIN made = 1 .. size /\ Len(made) = size /\ (size = 0 => made = <<>>)
      /\ \A k \in 1 .. size :
           /\ PlaceOf(n, cap, k) \in DOMAIN all
           /\ made[k].id = Gen!Id(all, all[PlaceOf(n, cap, k)])
           /\ made[k].line = all[PlaceOf(n, cap, k)].line
           /\ made[k].col = all[PlaceOf(n, cap, k)].col

LEMMA GeneratedIs ==
  ASSUME NEW lines \in Seq(Seq(STRING)), NEW cap \in Nat,
         NEW all, all = Gen!Ranked(lines),
         NEW made, made = Gen!Generate(lines, cap)
  PROVE  IsSampleOf(made, all, cap)
<1> DEFINE n == Len(all)
           size == SizeOf(n, cap)
           sample == Gen!Spread(all, cap)
<1>1. IsRanking(all)
  BY RankedIsRanking
<1>2. n \in Nat /\ DOMAIN all = 1 .. n
  BY <1>1 DEF IsRanking
<1>3. size \in Nat /\ \A k \in 1 .. size : PlaceOf(n, cap, k) \in 1 .. n
  BY <1>2, PlacesAreEven
<1>4. DOMAIN sample = 1 .. size /\ \A k \in 1 .. size : sample[k] = all[PlaceOf(n, cap, k)]
  <2>1. CASE Uncapped(n, cap)
    BY <1>2, <2>1 DEF Gen!Spread, Uncapped, SizeOf, PlaceOf
  <2>2. CASE ~Uncapped(n, cap)
    BY <1>2, <2>2 DEF Gen!Spread, Uncapped, SizeOf, PlaceOf
  <2> QED
    BY <2>1, <2>2
<1>5. made = Gen!Named(all, sample)
  BY DEF Gen!Generate, Gen!SampledAndNamed
<1> HIDE DEF sample, size
<1>6. made = [k \in 1 .. size |->
                [id |-> Gen!Id(all, sample[k]), line |-> sample[k].line, col |-> sample[k].col]]
  BY <1>4, <1>5 DEF Gen!Named
<1>7. Len(made) = size /\ (size = 0 => made = <<>>)
  <2>1. made = [k \in 1 .. size |-> made[k]]
    BY <1>6
  <2> QED
    BY <1>3, <2>1, LenIs
<1>8. DOMAIN made = 1 .. size
  BY <1>6
<1>9. ASSUME NEW k \in 1 .. size
      PROVE  /\ PlaceOf(n, cap, k) \in DOMAIN all
             /\ made[k].id = Gen!Id(all, all[PlaceOf(n, cap, k)])
             /\ made[k].line = all[PlaceOf(n, cap, k)].line
             /\ made[k].col = all[PlaceOf(n, cap, k)].col
  BY <1>2, <1>3, <1>4, <1>6
<1> QED
  BY <1>7, <1>8, <1>9 DEF size, IsSampleOf

(* The source of a run of gen.py, and what it made of it.                  *)
LEMMA GeneratedFrom ==
  ASSUME Ended, tool = "gen", output # None
  PROVE  /\ input.lines \in Seq(Seq(STRING)) /\ input.cap \in Nat
         /\ output = Gen!Generate(input.lines, input.cap)
<1>1. input \in Inputs["gen"] /\ "gen" \in DOMAIN Inputs
  BY DEF Ended
<1>2. input.lines \in Seq(Seq(STRING)) /\ input.cap \in Nat
  BY <1>1, GenAssumption DEF Given
<1> QED
  BY <1>2 DEF Ended, WroteAs

LEMMA EndedIds == Ended => IdsNameOneMatch
<1> SUFFICES ASSUME Ended, tool = "gen", output # None,
                    NEW c \in {0, 1, 2, input.cap},
                    NEW other, other = Gen!Generate(input.lines, c),
                    NEW j \in DOMAIN output
             PROVE  \A k \in DOMAIN output :
                      /\ output[j].id = output[k].id => j = k
                      /\ k \in DOMAIN other /\ output[j].id = other[k].id =>
                           output[j].line = other[k].line /\ output[j].col = other[k].col
  BY DEF IdsNameOneMatch
<1> DEFINE lines == input.lines
           cap == input.cap
           all == Gen!Ranked(lines)
           n == Len(all)
           size == SizeOf(n, cap)
           place(k) == PlaceOf(n, cap, k)
<1>1. lines \in Seq(Seq(STRING)) /\ cap \in Nat /\ output = Gen!Generate(lines, cap)
  BY GeneratedFrom
<1>2. c \in Nat /\ other = Gen!Generate(lines, c)
  BY <1>1
<1> HIDE DEF lines, cap, all
<1>3. IsRanking(all)
  BY <1>1, RankedIsRanking DEF all
<1>4. /\ DOMAIN output = 1 .. size
      /\ \A k \in 1 .. size :
           /\ place(k) \in DOMAIN all
           /\ output[k].id = Gen!Id(all, all[place(k)])
           /\ output[k].line = all[place(k)].line /\ output[k].col = all[place(k)].col
  <2>1. IsSampleOf(output, all, cap)
    BY <1>1, GeneratedIs DEF all
  <2> QED
    BY <2>1 DEF IsSampleOf
<1>5. /\ DOMAIN other = 1 .. SizeOf(n, c)
      /\ \A k \in 1 .. SizeOf(n, c) :
           /\ PlaceOf(n, c, k) \in DOMAIN all
           /\ other[k].id = Gen!Id(all, all[PlaceOf(n, c, k)])
           /\ other[k].line = all[PlaceOf(n, c, k)].line
           /\ other[k].col = all[PlaceOf(n, c, k)].col
  <2>1. IsSampleOf(other, all, c)
    BY <1>1, <1>2, GeneratedIs DEF all
  <2> QED
    BY <2>1 DEF IsSampleOf
<1>6. /\ size \in Nat
      /\ \A i, k \in 1 .. size : i < k => place(i) < place(k)
      /\ \A k \in 1 .. size : place(k) \in Nat
  <2>1. n \in Nat
    BY <1>3 DEF IsRanking
  <2>2. /\ size \in Nat
        /\ \A k \in 1 .. size : place(k) \in 1 .. n
        /\ \A i, k \in 1 .. size : i < k => place(i) < place(k)
    BY <1>1, <2>1, PlacesAreEven
  <2> QED
    BY <2>1, <2>2
<1> HIDE DEF size, place, n
<1>7. ASSUME NEW k \in DOMAIN output, output[j].id = output[k].id
      PROVE  j = k
  <2>1. place(j) = place(k)
    BY <1>3, <1>4, <1>7, IdsDiffer
  <2>2. j \in 1 .. size /\ k \in 1 .. size /\ ~(j < k) /\ ~(k < j)
    BY <1>4, <1>6, <2>1
  <2> QED
    BY <1>6, <2>2
<1>8. ASSUME NEW k \in DOMAIN other, output[j].id = other[k].id
      PROVE  output[j].line = other[k].line /\ output[j].col = other[k].col
  <2>1. place(j) = PlaceOf(n, c, k)
    BY <1>3, <1>4, <1>5, <1>8, IdsDiffer
  <2> QED
    BY <1>4, <1>5, <2>1
<1> QED
  BY <1>7, <1>8

LEMMA EndedSample == Ended => SampleIsEven
<1> SUFFICES ASSUME Ended, tool = "gen", output # None, output # <<>>
             PROVE  SampleIsEven
  BY DEF SampleIsEven
<1> DEFINE lines == input.lines
           cap == input.cap
           all == Gen!Ranked(lines)
           n == Len(all)
           size == SizeOf(n, cap)
           place(k) == PlaceOf(n, cap, k)
           Place(m) == CHOOSE k \in DOMAIN all : all[k].line = m.line /\ all[k].col = m.col
           at == [k \in 1 .. Len(output) + 1 |->
                    IF k \in DOMAIN output THEN Place(output[k]) ELSE n + 1]
<1>1. lines \in Seq(Seq(STRING)) /\ cap \in Nat /\ output = Gen!Generate(lines, cap)
  BY GeneratedFrom
<1> HIDE DEF lines, cap, all
<1>2. IsRanking(all) /\ n \in Nat
  <2>1. IsRanking(all)
    BY <1>1, RankedIsRanking DEF all
  <2> QED
    BY <2>1 DEF IsRanking
<1>3. /\ DOMAIN output = 1 .. size /\ Len(output) = size /\ size # 0
      /\ \A k \in 1 .. size :
           /\ place(k) \in DOMAIN all
           /\ output[k].line = all[place(k)].line /\ output[k].col = all[place(k)].col
  <2>1. IsSampleOf(output, all, cap)
    BY <1>1, GeneratedIs DEF all
  <2>2. size # 0
    BY <2>1 DEF IsSampleOf
  <2> QED
    BY <2>1, <2>2 DEF IsSampleOf
<1>4. /\ size \in Nat
      /\ place(1) = 1 /\ place(size + 1) = n + 1
      /\ \A j, k \in 1 .. size : (place(j + 1) - place(j)) - (place(k + 1) - place(k)) <= 1
  BY <1>1, <1>2, PlacesAreEven
<1>5. size = IF cap = 0 \/ cap > n THEN n ELSE cap
  BY <1>1, <1>2 DEF SizeOf, Uncapped
<1> HIDE DEF size, place, n
<1>6. ASSUME NEW k \in 1 .. size
      PROVE  Place(output[k]) = place(k)
  <2>1. \A i \in DOMAIN all : all[i].line = output[k].line /\ all[i].col = output[k].col => i = place(k)
    BY <1>2, <1>3 DEF IsRanking
  <2>2. place(k) \in DOMAIN all /\ all[place(k)].line = output[k].line /\ all[place(k)].col = output[k].col
    BY <1>3
  <2> QED
    BY <2>1, <2>2
<1>7. /\ DOMAIN at = 1 .. size + 1
      /\ \A k \in 1 .. size + 1 : at[k] = place(k)
  <2>1. \A k \in 1 .. size + 1 : k \in 1 .. size \/ k = size + 1
    BY <1>4
  <2>2. size + 1 \notin 1 .. size
    BY <1>4
  <2> HIDE DEF Place
  <2> QED
    BY <1>3, <1>4, <1>6, <2>1, <2>2
<1> HIDE DEF at
<1>8. at[1] = 1
  BY <1>3, <1>4, <1>7
<1>9. ASSUME NEW j \in DOMAIN output, NEW k \in DOMAIN output
      PROVE  (at[j + 1] - at[j]) - (at[k + 1] - at[k]) <= 1
  <2>1. /\ j \in 1 .. size /\ j \in 1 .. size + 1 /\ j + 1 \in 1 .. size + 1
        /\ k \in 1 .. size /\ k \in 1 .. size + 1 /\ k + 1 \in 1 .. size + 1
    BY <1>3, <1>4
  <2> QED
    BY <1>4, <1>7, <2>1
<1>10. \A g, h \in {at[k + 1] - at[k] : k \in DOMAIN output} : g - h <= 1
  BY <1>9
<1> QED
  BY <1>3, <1>5, <1>8, <1>10 DEF SampleIsEven, at, n, all, lines, cap

-----------------------------------------------------------------------------
(* mask_comments against C: its recursive definitions, and line by line.   *)
ModesOfC == {"code", "opening", "block", "closing", "line", "literal", "escaped"}

LEMMA StepIs ==
  ASSUME NEW mode \in ModesOfC, NEW s, NEW i
  PROVE  /\ Gen!Step(mode, s, i) \in ModesOfC
         /\ mode = "code" =>
              Gen!Step(mode, s, i) = IF Gen!At(s, i, <<"/", "*">>) THEN "opening"
                                     ELSE IF Gen!At(s, i, <<"/", "/">>) THEN "line"
                                     ELSE IF s[i] = Gen!Quote THEN "literal" ELSE "code"
         /\ mode = "opening" => Gen!Step(mode, s, i) = "block"
         /\ mode = "block" =>
              Gen!Step(mode, s, i) = IF Gen!At(s, i, <<"*", "/">>) THEN "closing" ELSE "block"
         /\ mode = "closing" => Gen!Step(mode, s, i) = "code"
         /\ mode = "line" => Gen!Step(mode, s, i) = "line"
         /\ mode = "literal" =>
              Gen!Step(mode, s, i) = IF s[i] = Gen!Escape THEN "escaped"
                                     ELSE IF s[i] = Gen!Quote THEN "code" ELSE "literal"
         /\ mode = "escaped" => Gen!Step(mode, s, i) = "literal"
<1> DEFINE opens == Gen!At(s, i, <<"/", "*">>)
           comments == Gen!At(s, i, <<"/", "/">>)
           closes == Gen!At(s, i, <<"*", "/">>)
<1>1. /\ mode = "code" => Gen!Step(mode, s, i) = IF opens THEN "opening" ELSE IF comments THEN "line"
                                                 ELSE IF s[i] = Gen!Quote THEN "literal" ELSE "code"
      /\ mode = "block" => Gen!Step(mode, s, i) = IF closes THEN "closing" ELSE "block"
  BY DEF Gen!Step
<1>2. /\ mode = "opening" => Gen!Step(mode, s, i) = "block"
      /\ mode = "closing" => Gen!Step(mode, s, i) = "code"
      /\ mode = "line" => Gen!Step(mode, s, i) = "line"
      /\ mode = "escaped" => Gen!Step(mode, s, i) = "literal"
  BY DEF Gen!Step
<1>3. mode = "literal" => Gen!Step(mode, s, i) = IF s[i] = Gen!Escape THEN "escaped"
                                                 ELSE IF s[i] = Gen!Quote THEN "code" ELSE "literal"
  BY DEF Gen!Step
<1> HIDE DEF opens, comments, closes
<1>4. Gen!Step(mode, s, i) \in ModesOfC
  BY <1>1, <1>2, <1>3 DEF ModesOfC
<1> QED
  BY <1>1, <1>2, <1>3, <1>4 DEF opens, comments, closes

LEMMA ModesAre ==
  ASSUME NEW s, Len(s) \in Nat, NEW start \in ModesOfC
  PROVE  /\ Gen!Modes(s, start) \in [1 .. Len(s) + 1 -> ModesOfC]
         /\ Gen!Modes(s, start)[1] = start
         /\ \A i \in 1 .. Len(s) :
              Gen!Modes(s, start)[i + 1] = Gen!Step(Gen!Modes(s, start)[i], s, i)
<1> DEFINE D == 1 .. Len(s) + 1
           Next1(f, i) == IF i = 1 THEN start ELSE Gen!Step(f[i - 1], s, i - 1)
           F == [f \in [D -> ModesOfC] |-> [i \in D |-> Next1(f, i)]]
           m == [i \in D |-> i]
           some == [i \in D |-> start]
           mode == Gen!Modes(s, start)
<1>1. ASSUME NEW f \in [D -> ModesOfC], NEW i \in D PROVE Next1(f, i) \in ModesOfC
  <2>1. i # 1 => i - 1 \in D
    OBVIOUS
  <2>2. i # 1 => f[i - 1] \in ModesOfC
    BY <2>1
  <2> QED
    BY <2>2, StepIs
<1>2. F \in [[D -> ModesOfC] -> [D -> ModesOfC]]
  BY <1>1
<1>3. ASSUME NEW f \in [D -> ModesOfC], NEW g \in [D -> ModesOfC], NEW d \in D,
             \A e \in D : m[e] < m[d] => f[e] = g[e]
      PROVE  F[f][d] = F[g][d]
  <2>1. d # 1 => d - 1 \in D /\ m[d - 1] < m[d]
    OBVIOUS
  <2>2. d # 1 => f[d - 1] = g[d - 1]
    BY <1>3, <2>1
  <2> QED
    BY <2>2
<1>4. m \in [D -> 0 .. Len(s) + 1] /\ some \in [D -> ModesOfC] /\ Len(s) + 1 \in Nat
  OBVIOUS
<1>5. LooksLower(F, D, ModesOfC, m, Len(s) + 1)
  <2> HIDE DEF F, m, D
  <2> QED
    BY <1>2, <1>3, <1>4 DEF LooksLower
<1>6. \E f \in [D -> ModesOfC] : F[f] = f
  <2> HIDE DEF D, F, m
  <2> QED
    BY <1>5, Recursion
<1>7. PICK f \in [D -> ModesOfC] : f = [i \in D |-> Next1(f, i)]
  BY <1>6
<1>8. mode = [i \in D |-> Next1(mode, i)]
  BY <1>7 DEF Gen!Modes
<1> HIDE DEF mode
<1>9. mode[1] = start /\ DOMAIN mode = D
  BY <1>8
<1>10. \A i \in 1 .. Len(s) : mode[i + 1] = Gen!Step(mode[i], s, i)
  <2> TAKE i \in 1 .. Len(s)
  <2>1. i + 1 \in D /\ i + 1 # 1 /\ (i + 1) - 1 = i
    OBVIOUS
  <2>2. mode[i + 1] = Next1(mode, i + 1)
    BY <1>8, <2>1
  <2> QED
    BY <2>1, <2>2
<1>11. \A i \in D : mode[i] \in ModesOfC
  <2> DEFINE S == {n \in 0 .. Len(s) : mode[n + 1] \in ModesOfC}
  <2>1. 0 \in S
    BY <1>9
  <2>2. ASSUME NEW n \in Nat, n < Len(s), n \in S PROVE n + 1 \in S
    <3>1. n + 1 \in 1 .. Len(s) /\ mode[n + 1] \in ModesOfC
      BY <2>2
    <3>2. mode[(n + 1) + 1] \in ModesOfC
      <4>1. Gen!Step(mode[n + 1], s, n + 1) \in ModesOfC
        BY <3>1, StepIs
      <4> QED
        BY <1>10, <3>1, <4>1, Zenon
    <3> QED
      BY <3>1, <3>2
  <2>3. \A n \in 0 .. Len(s) : n \in S
    <3> HIDE DEF S
    <3> QED
      BY <2>1, <2>2, AllReached
  <2> TAKE i \in D
  <2>4. i - 1 \in 0 .. Len(s) /\ (i - 1) + 1 = i
    OBVIOUS
  <2> QED
    BY <2>3, <2>4
<1> QED
  <2>1. mode \in [1 .. Len(s) + 1 -> ModesOfC]
    BY <1>8, <1>9, <1>11
  <2> QED
    BY <1>9, <1>10, <2>1 DEF mode

(* The end of a literal, from a place in it.                               *)
LEMMA LiteralIs ==
  ASSUME NEW s, Len(s) \in Nat, NEW i \in 1 .. Len(s)
  PROVE  \A j \in i + 1 .. Len(s) + 2 :
           Gen!PastLiteral(s, i)[j] =
             IF j > Len(s) THEN i
             ELSE IF s[j] = Gen!Escape THEN Gen!PastLiteral(s, i)[j + 2]
             ELSE IF s[j] = s[i] THEN j + 1
             ELSE Gen!PastLiteral(s, i)[j + 1]
<1> DEFINE D == i + 1 .. Len(s) + 2
           V == 0 .. Len(s) + 2
           Next1(f, j) == IF j > Len(s) THEN i
                          ELSE IF s[j] = Gen!Escape THEN f[j + 2]
                          ELSE IF s[j] = s[i] THEN j + 1
                          ELSE f[j + 1]
           F == [f \in [D -> V] |-> [j \in D |-> Next1(f, j)]]
           m == [j \in D |-> Len(s) + 2 - j]
           some == [j \in D |-> 0]
           past == Gen!PastLiteral(s, i)
<1>1. ASSUME NEW f \in [D -> V], NEW j \in D PROVE Next1(f, j) \in V
  <2>1. j <= Len(s) => j + 1 \in D /\ j + 2 \in D /\ j + 1 \in V
    OBVIOUS
  <2>2. i \in V
    OBVIOUS
  <2>3. j <= Len(s) => f[j + 1] \in V /\ f[j + 2] \in V
    BY <2>1
  <2>4. j > Len(s) \/ j <= Len(s)
    OBVIOUS
  <2> HIDE DEF V, D
  <2> QED
    BY <2>1, <2>2, <2>3, <2>4
<1>2. F \in [[D -> V] -> [D -> V]]
  BY <1>1
<1>3. ASSUME NEW f \in [D -> V], NEW g \in [D -> V], NEW d \in D,
             \A e \in D : m[e] < m[d] => f[e] = g[e]
      PROVE  F[f][d] = F[g][d]
  <2>1. d <= Len(s) => d + 1 \in D /\ d + 2 \in D /\ m[d + 1] < m[d] /\ m[d + 2] < m[d]
    OBVIOUS
  <2>2. d <= Len(s) => f[d + 1] = g[d + 1] /\ f[d + 2] = g[d + 2]
    BY <1>3, <2>1
  <2>3. d > Len(s) \/ d <= Len(s)
    OBVIOUS
  <2> QED
    BY <2>2, <2>3
<1>4. m \in [D -> 0 .. Len(s) + 2] /\ some \in [D -> V] /\ Len(s) + 2 \in Nat
  OBVIOUS
<1>5. LooksLower(F, D, V, m, Len(s) + 2)
  <2> HIDE DEF F, m, D, V
  <2> QED
    BY <1>2, <1>3, <1>4 DEF LooksLower
<1>6. \E f \in [D -> V] : F[f] = f
  <2> HIDE DEF D, F, m, V
  <2> QED
    BY <1>5, Recursion
<1>7. PICK f \in [D -> V] : f = [j \in D |-> Next1(f, j)]
  BY <1>6
<1>8. past = [j \in D |-> Next1(past, j)]
  BY <1>7 DEF Gen!PastLiteral
<1> HIDE DEF past
<1>9. \A j \in D : past[j] = Next1(past, j)
  BY <1>8
<1> QED
  BY <1>9 DEF past

LEMMA LiteralEnds ==
  ASSUME NEW s, Len(s) \in Nat, NEW i \in 1 .. Len(s), NEW j \in i + 1 .. Len(s) + 2
  PROVE  Gen!PastLiteral(s, i)[j] \in {i} \union (j + 1 .. Len(s) + 1)
<1> DEFINE past == Gen!PastLiteral(s, i)
           L == Len(s)
           Ok(k) == past[k] \in {i} \union (k + 1 .. L + 1)
           S == {n \in 0 .. L + 1 - i : Ok(L + 2 - n)}
<1>1. ASSUME NEW n \in 0 .. L + 1 - i, \A k \in 0 .. n - 1 : k \in S PROVE n \in S
  <2> DEFINE h == L + 2 - n
  <2>1. h \in i + 1 .. L + 2
    OBVIOUS
  <2>2. past[h] = IF h > L THEN i
                  ELSE IF s[h] = Gen!Escape THEN past[h + 2]
                  ELSE IF s[h] = s[i] THEN h + 1
                  ELSE past[h + 1]
    BY <2>1, LiteralIs
  <2>3. h <= L => Ok(h + 1) /\ Ok(h + 2)
    <3> SUFFICES ASSUME h <= L PROVE Ok(h + 1) /\ Ok(h + 2)
      OBVIOUS
    <3>1. n - 1 \in 0 .. n - 1 /\ n - 2 \in 0 .. n - 1 /\ L + 2 - (n - 1) = h + 1 /\ L + 2 - (n - 2) = h + 2
      OBVIOUS
    <3>2. Ok(L + 2 - (n - 1)) /\ Ok(L + 2 - (n - 2))
      BY <1>1, <3>1
    <3> HIDE DEF Ok
    <3> QED
      BY <3>1, <3>2
  <2>4. h \in Int /\ L \in Int
    OBVIOUS
  <2> HIDE DEF past, h
  <2>5. Ok(h)
    BY <2>1, <2>2, <2>3
  <2> QED
    BY <2>5 DEF h
<1>2. \A n \in 0 .. L + 1 - i : n \in S
  <2>1. L + 1 - i \in Nat
    OBVIOUS
  <2> HIDE DEF S
  <2> QED
    BY <1>1, <2>1, AllFollow
<1>3. L + 2 - j \in 0 .. L + 1 - i /\ L + 2 - (L + 2 - j) = j
  OBVIOUS
<1>4. L + 2 - j \in S
  BY <1>2, <1>3
<1> HIDE DEF past
<1> QED
  BY <1>3, <1>4 DEF past

(* Where the modes of C say that a literal goes on, mask_comments looks    *)
(* for its end there, and the end it finds is that of C.                   *)
LEMMA LiteralMeans ==
  ASSUME NEW s, Len(s) \in Nat, NEW start \in ModesOfC, NEW i \in 1 .. Len(s), s[i] = Gen!Quote,
         NEW mode, mode = Gen!Modes(s, start),
         NEW j \in i + 1 .. Len(s) + 1, mode[j] = "literal",
         NEW to, to = Gen!PastLiteral(s, i)[j]
  PROVE  /\ to = i => mode[Len(s) + 1] \in {"literal", "escaped"}
         /\ to # i => /\ mode[to] = "code"
                      /\ \A k \in j .. to - 1 : mode[k] \in {"literal", "escaped"}
<1> DEFINE past == Gen!PastLiteral(s, i)
           L == Len(s)
           Ok(h) == mode[h] = "literal" =>
                      /\ past[h] = i => mode[L + 1] \in {"literal", "escaped"}
                      /\ past[h] # i => /\ mode[past[h]] = "code"
                                        /\ \A k \in h .. past[h] - 1 : mode[k] \in {"literal", "escaped"}
           S == {n \in 0 .. L - i : Ok(L + 1 - n)}
<1>0. /\ mode \in [1 .. L + 1 -> ModesOfC]
      /\ \A k \in 1 .. L : mode[k + 1] = Gen!Step(mode[k], s, k)
  BY ModesAre
<1>1. ASSUME NEW n \in 0 .. L - i, \A k \in 0 .. n - 1 : k \in S PROVE n \in S
  <2> DEFINE h == L + 1 - n
  <2> SUFFICES ASSUME mode[h] = "literal" PROVE Ok(h)
    OBVIOUS
  <2>1. h \in i + 1 .. L + 2 /\ h \in Int /\ h \in 1 .. L + 1 /\ h > i /\ (h <= L => h \in 1 .. L)
    OBVIOUS
  <2>2. /\ past[h] = IF h > L THEN i
                     ELSE IF s[h] = Gen!Escape THEN past[h + 2]
                     ELSE IF s[h] = s[i] THEN h + 1
                     ELSE past[h + 1]
        /\ past[L + 2] = i
    <3>1. L + 2 \in i + 1 .. L + 2 /\ L + 2 > L
      OBVIOUS
    <3>2. past[h] = IF h > L THEN i
                    ELSE IF s[h] = Gen!Escape THEN past[h + 2]
                    ELSE IF s[h] = s[i] THEN h + 1
                    ELSE past[h + 1]
      BY <2>1, LiteralIs
    <3>3. past[L + 2] = i
      BY <3>1, LiteralIs
    <3> QED
      BY <3>2, <3>3
  <2>3. h <= L => Ok(h + 1) /\ (h < L => Ok(h + 2))
    <3> SUFFICES ASSUME h <= L PROVE Ok(h + 1) /\ (h < L => Ok(h + 2))
      OBVIOUS
    <3>1. n - 1 \in 0 .. n - 1 /\ L + 1 - (n - 1) = h + 1
      OBVIOUS
    <3>2. h < L => n - 2 \in 0 .. n - 1 /\ L + 1 - (n - 2) = h + 2
      OBVIOUS
    <3>3. Ok(L + 1 - (n - 1)) /\ (h < L => Ok(L + 1 - (n - 2)))
      BY <1>1, <3>1, <3>2
    <3> HIDE DEF Ok
    <3> QED
      BY <3>1, <3>2, <3>3
  <2>4. h <= L => mode[h + 1] = IF s[h] = Gen!Escape THEN "escaped"
                                ELSE IF s[h] = Gen!Quote THEN "code" ELSE "literal"
    <3> SUFFICES ASSUME h <= L
                 PROVE  mode[h + 1] = IF s[h] = Gen!Escape THEN "escaped"
                                      ELSE IF s[h] = Gen!Quote THEN "code" ELSE "literal"
      OBVIOUS
    <3>1. mode[h + 1] = Gen!Step(mode[h], s, h)
      BY <1>0, <2>1
    <3>2. "literal" \in ModesOfC
      BY DEF ModesOfC
    <3>3. Gen!Step("literal", s, h) = IF s[h] = Gen!Escape THEN "escaped"
                                      ELSE IF s[h] = Gen!Quote THEN "code" ELSE "literal"
      BY DEF Gen!Step
    <3> QED
      BY <3>1, <3>3
  <2>5. h < L /\ mode[h + 1] = "escaped" => mode[h + 2] = "literal"
    <3> SUFFICES ASSUME h < L, mode[h + 1] = "escaped" PROVE mode[h + 2] = "literal"
      OBVIOUS
    <3>1. h + 1 \in 1 .. L /\ (h + 1) + 1 = h + 2 /\ "escaped" \in ModesOfC
      BY <2>1 DEF ModesOfC
    <3>2. Gen!Step("escaped", s, h + 1) = "literal"
      BY <3>1, StepIs
    <3>3. mode[(h + 1) + 1] = Gen!Step(mode[h + 1], s, h + 1)
      BY <1>0, <3>1
    <3> QED
      BY <3>1, <3>2, <3>3
  <2>6. past[h] \in {i} \union (h + 1 .. L + 1)
    BY <2>1, LiteralEnds
  <2>7. Gen!Escape # Gen!Quote
    BY DEF Gen!Escape, Gen!Quote
  <2> HIDE DEF past, h
  <2>8. CASE h > L
    <3>1. h = L + 1
      BY <2>1, <2>8
    <3> QED
      BY <2>2, <2>8, <3>1
  <2>9. CASE h <= L /\ s[h] = Gen!Escape
    <3>1. mode[h + 1] = "escaped" /\ past[h] = past[h + 2]
      BY <2>2, <2>4, <2>9, <2>1
    <3>2. CASE h = L
      BY <2>2, <3>1, <3>2
    <3>3. CASE h < L
      <4>1. Ok(h + 2) /\ mode[h + 2] = "literal"
        BY <2>3, <2>5, <2>9, <3>1, <3>3
      <4>2. \A k \in h .. past[h] - 1 : k = h \/ k = h + 1 \/ k \in h + 2 .. past[h] - 1
        BY <2>1, <2>6
      <4> QED
        BY <3>1, <4>1, <4>2
    <3> QED
      BY <2>1, <2>9, <3>2, <3>3
  <2>10. CASE h <= L /\ s[h] # Gen!Escape /\ s[h] = Gen!Quote
    <3>1. past[h] = h + 1 /\ mode[h + 1] = "code"
      BY <2>1, <2>2, <2>4, <2>10
    <3>2. \A k \in h .. h + 1 - 1 : k = h
      BY <2>1
    <3> QED
      BY <2>1, <3>1, <3>2
  <2>11. CASE h <= L /\ s[h] # Gen!Escape /\ s[h] # Gen!Quote
    <3>1. past[h] = past[h + 1] /\ mode[h + 1] = "literal" /\ Ok(h + 1)
      BY <2>1, <2>2, <2>3, <2>4, <2>11
    <3>2. \A k \in h .. past[h] - 1 : k = h \/ k \in h + 1 .. past[h] - 1
      BY <2>1, <2>6
    <3> QED
      BY <3>1, <3>2
  <2>12. h > L \/ h <= L
    BY <2>1
  <2> QED
    BY <2>8, <2>9, <2>10, <2>11, <2>12
<1>2. \A n \in 0 .. L - i : n \in S
  <2>1. L - i \in Nat
    OBVIOUS
  <2> HIDE DEF S
  <2> QED
    BY <1>1, <2>1, AllFollow
<1>3. L + 1 - j \in 0 .. L - i /\ L + 1 - (L + 1 - j) = j
  OBVIOUS
<1>4. L + 1 - j \in S
  BY <1>2, <1>3
<1> HIDE DEF past
<1>5. Ok(j)
  BY <1>3, <1>4
<1> QED
  BY <1>5 DEF past

(* What is left of a line, from each place in it.                          *)
ScanOf(s, f, i, inblock) ==
  IF i > Len(s) THEN [blanked |-> {}, open |-> inblock]
  ELSE IF inblock
  THEN IF Gen!At(s, i, <<"*", "/">>) THEN Gen!Also(f[<<i + 2, FALSE>>], {i, i + 1})
       ELSE Gen!Also(f[<<i + 1, TRUE>>], {i})
  ELSE IF Gen!At(s, i, <<"/", "*">>) THEN f[<<i, TRUE>>]
  ELSE IF Gen!At(s, i, <<"/", "/">>) THEN [blanked |-> i .. Len(s), open |-> FALSE]
  ELSE IF s[i] = Gen!Quote /\ Gen!LiteralEnd(s, i) > i THEN f[<<Gen!LiteralEnd(s, i), FALSE>>]
  ELSE f[<<i + 1, FALSE>>]

LEMMA ScanIs ==
  ASSUME NEW s, Len(s) \in Nat
  PROVE  \A i \in 1 .. Len(s) + 2, b \in BOOLEAN :
           Gen!Scan(s)[<<i, b>>] = ScanOf(s, Gen!Scan(s), i, b)
<1> DEFINE L == Len(s)
           D == (1 .. L + 2) \X BOOLEAN
           V == [blanked : SUBSET Int, open : BOOLEAN]
           F == [f \in [D -> V] |-> [at \in D |-> ScanOf(s, f, at[1], at[2])]]
           m == [at \in D |-> 2 * (L + 2 - at[1]) + (IF at[2] THEN 0 ELSE 1)]
           some == [at \in D |-> [blanked |-> {}, open |-> FALSE]]
           scan == Gen!Scan(s)
           to(i) == Gen!LiteralEnd(s, i)
<1>1. /\ \A at \in D : at[1] \in 1 .. L + 2 /\ at[2] \in BOOLEAN /\ at = <<at[1], at[2]>>
      /\ \A i \in 1 .. L + 2, b \in BOOLEAN : <<i, b>> \in D
  OBVIOUS
<1>2. \A i \in 1 .. L : to(i) > i => to(i) \in i + 1 .. L + 2 /\ to(i) \in 1 .. L + 2
  <2> TAKE i \in 1 .. L
  <2>1. i + 1 \in i + 1 .. L + 2
    OBVIOUS
  <2>2. to(i) \in {i} \union ((i + 1) + 1 .. L + 1)
    BY <2>1, LiteralEnds DEF Gen!LiteralEnd
  <2> HIDE DEF to
  <2> QED
    BY <2>2
<1>3. \A r \in V : \A p \in SUBSET Int : Gen!Also(r, p) \in V
  BY DEF Gen!Also
<1> HIDE DEF to
<1>4. ASSUME NEW f \in [D -> V], NEW i \in 1 .. L + 2, NEW b \in BOOLEAN PROVE ScanOf(s, f, i, b) \in V
  <2>1. i <= L => f[<<i + 1, TRUE>>] \in V /\ f[<<i + 1, FALSE>>] \in V /\ f[<<i + 2, FALSE>>] \in V
    <3>1. i <= L => i + 1 \in 1 .. L + 2 /\ i + 2 \in 1 .. L + 2
      OBVIOUS
    <3> HIDE DEF V, D
    <3> QED
      BY <1>1, <3>1
  <2>2. f[<<i, TRUE>>] \in V
    BY <1>1
  <2>3. i <= L /\ to(i) > i => f[<<to(i), FALSE>>] \in V
    <3>1. i <= L => i \in 1 .. L
      OBVIOUS
    <3> HIDE DEF V, D
    <3> QED
      BY <1>1, <1>2, <3>1
  <2>4. [blanked |-> {}, open |-> b] \in V /\ [blanked |-> i .. L, open |-> FALSE] \in V
    OBVIOUS
  <2>5. {i, i + 1} \in SUBSET Int /\ {i} \in SUBSET Int /\ (i > L \/ i <= L)
    OBVIOUS
  <2> HIDE DEF V, D
  <2> QED
    BY <1>3, <2>1, <2>2, <2>3, <2>4, <2>5 DEF ScanOf, to
<1>5. F \in [[D -> V] -> [D -> V]]
  <2> HIDE DEF V, D
  <2> QED
    BY <1>1, <1>4
<1>6. ASSUME NEW f \in [D -> V], NEW g \in [D -> V], NEW d \in D,
             \A e \in D : m[e] < m[d] => f[e] = g[e]
      PROVE  F[f][d] = F[g][d]
  <2> DEFINE i == d[1]
  <2>1. i \in 1 .. L + 2 /\ d[2] \in BOOLEAN /\ (i > L \/ i <= L)
    OBVIOUS
  <2>2. ASSUME NEW j \in 1 .. L + 2, NEW b \in BOOLEAN, j > i \/ (j = i /\ b /\ ~d[2])
        PROVE  f[<<j, b>>] = g[<<j, b>>]
    <3>1. <<j, b>> \in D /\ m[<<j, b>>] = 2 * (L + 2 - j) + (IF b THEN 0 ELSE 1)
      OBVIOUS
    <3>2. m[d] = 2 * (L + 2 - i) + (IF d[2] THEN 0 ELSE 1)
      OBVIOUS
    <3> HIDE DEF m, D
    <3>3. m[<<j, b>>] < m[d]
      BY <2>1, <2>2, <3>1, <3>2
    <3> QED
      BY <1>6, <3>1, <3>3
  <2>3. i <= L => /\ f[<<i + 1, TRUE>>] = g[<<i + 1, TRUE>>] /\ f[<<i + 1, FALSE>>] = g[<<i + 1, FALSE>>]
                  /\ f[<<i + 2, FALSE>>] = g[<<i + 2, FALSE>>]
                  /\ to(i) > i => f[<<to(i), FALSE>>] = g[<<to(i), FALSE>>]
    <3> HIDE DEF i
    <3> SUFFICES ASSUME i <= L
                 PROVE /\ f[<<i + 1, TRUE>>] = g[<<i + 1, TRUE>>] /\ f[<<i + 1, FALSE>>] = g[<<i + 1, FALSE>>]
                       /\ f[<<i + 2, FALSE>>] = g[<<i + 2, FALSE>>]
                       /\ to(i) > i => f[<<to(i), FALSE>>] = g[<<to(i), FALSE>>]
      OBVIOUS
    <3>1. i + 1 \in 1 .. L + 2 /\ i + 2 \in 1 .. L + 2 /\ i + 1 > i /\ i + 2 > i /\ i \in 1 .. L
      BY <2>1
    <3>2. to(i) > i => to(i) \in 1 .. L + 2
      BY <1>2, <3>1
    <3> HIDE DEF D, V, m
    <3> QED
      BY <2>2, <3>1, <3>2
  <2>4. ~d[2] => f[<<i, TRUE>>] = g[<<i, TRUE>>]
    BY <2>1, <2>2
  <2>5. F[f][d] = ScanOf(s, f, i, d[2]) /\ F[g][d] = ScanOf(s, g, i, d[2])
    OBVIOUS
  <2> HIDE DEF F, i
  <2>6. ScanOf(s, f, i, d[2]) = ScanOf(s, g, i, d[2])
    BY <2>1, <2>3, <2>4 DEF ScanOf, to
  <2> QED
    BY <2>5, <2>6
<1>7. m \in [D -> 0 .. 2 * (L + 2)] /\ some \in [D -> V] /\ 2 * (L + 2) \in Nat
  OBVIOUS
<1>8. LooksLower(F, D, V, m, 2 * (L + 2))
  <2> HIDE DEF F, m, D, V
  <2> QED
    BY <1>5, <1>6, <1>7 DEF LooksLower
<1>9. \E f \in [D -> V] : F[f] = f
  <2> HIDE DEF D, F, m, V
  <2> QED
    BY <1>8, Recursion
<1>10. PICK f \in [D -> V] : f = [at \in D |-> ScanOf(s, f, at[1], at[2])]
  BY <1>9
<1>11. scan = [at \in D |-> ScanOf(s, scan, at[1], at[2])]
  BY <1>10 DEF Gen!Scan, ScanOf
<1> HIDE DEF scan
<1>12. ASSUME NEW i \in 1 .. L + 2, NEW b \in BOOLEAN PROVE scan[<<i, b>>] = ScanOf(s, scan, i, b)
  <2>1. <<i, b>> \in D /\ <<i, b>>[1] = i /\ <<i, b>>[2] = b
    OBVIOUS
  <2> HIDE DEF D
  <2> QED
    BY <1>11, <2>1
<1> QED
  BY <1>12 DEF scan

InComment(mode, j) == mode[j] \in {"opening", "block", "closing", "line"} \/ mode[j + 1] \in {"opening", "line"}

(* After `//' the rest of a line is comment.                               *)
LEMMA LineGoesOn ==
  ASSUME NEW s, Len(s) \in Nat, NEW start \in ModesOfC, NEW mode, mode = Gen!Modes(s, start),
         NEW i \in 1 .. Len(s) + 1, mode[i] = "line"
  PROVE  \A j \in i .. Len(s) + 1 : mode[j] = "line"
<1> DEFINE S == {n \in 0 .. Len(s) + 1 - i : mode[i + n] = "line"}
<1>1. 0 \in S
  OBVIOUS
<1>2. ASSUME NEW n \in Nat, n < Len(s) + 1 - i, n \in S PROVE n + 1 \in S
  <2>1. i + n \in 1 .. Len(s) /\ mode[i + n] = "line" /\ (i + n) + 1 = i + (n + 1)
    BY <1>2
  <2>2. mode[(i + n) + 1] = Gen!Step(mode[i + n], s, i + n)
    BY <2>1, ModesAre
  <2>3. Gen!Step("line", s, i + n) = "line"
    BY DEF Gen!Step
  <2> QED
    BY <1>2, <2>1, <2>2, <2>3
<1>3. \A n \in 0 .. Len(s) + 1 - i : n \in S
  <2>1. Len(s) + 1 - i \in Nat
    OBVIOUS
  <2> HIDE DEF S
  <2> QED
    BY <1>1, <1>2, <2>1, AllReached
<1> TAKE j \in i .. Len(s) + 1
<1>4. j - i \in 0 .. Len(s) + 1 - i /\ i + (j - i) = j
  OBVIOUS
<1> QED
  BY <1>3, <1>4

(* One line: where C has it begin in a comment or not, mask_comments blanks *)
(* what C calls comment, and knows how the line ends.                      *)
LEMMA LineMasked ==
  ASSUME NEW s, Len(s) \in Nat, NEW start \in {"code", "block"},
         NEW mode, mode = Gen!Modes(s, start),
         mode[Len(s) + 1] \notin {"literal", "escaped"},
         \A i \in 1 .. Len(s) - 2 : ~(mode[i + 1] = "opening" /\ s[i + 2] = "/"),
         NEW line, line = Gen!ScanLine(s, start = "block")
  PROVE  /\ line.open = (Gen!NextStart(mode[Len(s) + 1]) = "block")
         /\ \A j \in 1 .. Len(s) : j \in line.blanked <=> InComment(mode, j)
<1> DEFINE L == Len(s)
           V == [blanked : SUBSET Int, open : BOOLEAN]
           scan == Gen!Scan(s)
           ends == Gen!NextStart(mode[L + 1]) = "block"
           To(i) == Gen!LiteralEnd(s, i)
           Opens(i) == Gen!At(s, i, <<"/", "*">>)
           Comments(i) == Gen!At(s, i, <<"/", "/">>)
           Shuts(i) == Gen!At(s, i, <<"*", "/">>)
           InC(j) == InComment(mode, j)
           Means(r, i) == /\ r \in V /\ (r.open <=> ends)
                          /\ \A j \in Int : j \in r.blanked <=> j \in i .. L /\ InC(j)
           Inside(i) == mode[i] \in {"block", "opening"} \/ (mode[i] = "code" /\ Opens(i))
           Ok(i) == /\ Inside(i) => Means(scan[<<i, TRUE>>], i)
                    /\ mode[i] = "code" => Means(scan[<<i, FALSE>>], i)
           S == {n \in 0 .. L : Ok(L + 1 - n)}
<1>1. start \in ModesOfC
  BY DEF ModesOfC
<1>2. /\ mode \in [1 .. L + 1 -> ModesOfC] /\ mode[1] = start
      /\ \A i \in 1 .. L : mode[i + 1] = Gen!Step(mode[i], s, i)
  BY <1>1, ModesAre
<1>3. ASSUME NEW i \in 1 .. L
      PROVE  /\ Opens(i) => i < L /\ s[i] = "/" /\ s[i + 1] = "*"
             /\ Shuts(i) => i < L /\ s[i] = "*" /\ s[i + 1] = "/"
             /\ Comments(i) => i < L /\ s[i] = "/" /\ s[i + 1] = "/"
  BY DEF Gen!At
<1>4. ASSUME NEW i \in 1 .. L
      PROVE  /\ mode[i] = "code" => mode[i + 1] = IF Opens(i) THEN "opening"
                                                  ELSE IF Comments(i) THEN "line"
                                                  ELSE IF s[i] = Gen!Quote THEN "literal" ELSE "code"
             /\ mode[i] = "opening" => mode[i + 1] = "block"
             /\ mode[i] = "block" => mode[i + 1] = IF Shuts(i) THEN "closing" ELSE "block"
             /\ mode[i] = "closing" => mode[i + 1] = "code"
  <2>1. mode[i + 1] = Gen!Step(mode[i], s, i)
    BY <1>2
  <2>2. Gen!Step("code", s, i) = IF Opens(i) THEN "opening" ELSE IF Comments(i) THEN "line"
                                 ELSE IF s[i] = Gen!Quote THEN "literal" ELSE "code"
    BY DEF Gen!Step
  <2>3. Gen!Step("block", s, i) = IF Shuts(i) THEN "closing" ELSE "block"
    BY DEF Gen!Step
  <2>4. Gen!Step("opening", s, i) = "block" /\ Gen!Step("closing", s, i) = "code"
    BY DEF Gen!Step
  <2> HIDE DEF Opens, Comments, Shuts
  <2> QED
    BY <2>1, <2>2, <2>3, <2>4
<1>5. ASSUME NEW i \in 1 .. L, mode[i] = "opening" PROVE ~Shuts(i)
  <2> SUFFICES ASSUME Shuts(i) PROVE FALSE
    OBVIOUS
  <2>1. i # 1
    BY <1>2, <1>5
  <2>2. i < L /\ s[i + 1] = "/"
    BY <1>3
  <2>3. i - 1 \in 1 .. L - 2 /\ (i - 1) + 1 = i /\ (i - 1) + 2 = i + 1
    BY <2>1, <2>2
  <2>4. ~(mode[(i - 1) + 1] = "opening" /\ s[(i - 1) + 2] = "/")
    BY <2>3
  <2> QED
    BY <1>5, <2>2, <2>3, <2>4
<1>6. /\ \A i \in 1 .. L + 1 : scan[<<i, TRUE>>] = ScanOf(s, scan, i, TRUE)
      /\ \A i \in 1 .. L + 1 : scan[<<i, FALSE>>] = ScanOf(s, scan, i, FALSE)
  <2>1. \A i \in 1 .. L + 1 : i \in 1 .. L + 2
    OBVIOUS
  <2> QED
    BY <2>1, ScanIs, Zenon
<1>7. ASSUME NEW r, NEW i \in 1 .. L, Means(r, i + 1), InC(i) PROVE Means(Gen!Also(r, {i}), i)
  <2> DEFINE q == Gen!Also(r, {i})
  <2>1. q \in V /\ q.open = r.open /\ q.blanked = r.blanked \union {i}
    BY <1>7 DEF Gen!Also
  <2>2. \A j \in Int : j \in i .. L <=> j = i \/ j \in i + 1 .. L
    OBVIOUS
  <2> HIDE DEF q, V, InC, ends
  <2>3. q.open <=> ends
    BY <1>7, <2>1
  <2>4. \A j \in Int : j \in q.blanked <=> j \in i .. L /\ InC(j)
    <3> TAKE j \in Int
    <3>1. j \in q.blanked <=> j \in r.blanked \/ j = i
      BY <2>1
    <3>2. j \in r.blanked <=> j \in i + 1 .. L /\ InC(j)
      BY <1>7
    <3> QED
      BY <1>7, <2>2, <3>1, <3>2
  <2>5. Means(q, i)
    BY <2>1, <2>3, <2>4
  <2> HIDE DEF Means
  <2> QED
    BY <2>5 DEF q
<1>8. ASSUME NEW r, NEW i \in 1 .. L, i < L, Means(r, i + 2), InC(i), InC(i + 1)
      PROVE  Means(Gen!Also(r, {i, i + 1}), i)
  <2> DEFINE q == Gen!Also(r, {i, i + 1})
  <2>1. q \in V /\ q.open = r.open /\ q.blanked = r.blanked \union {i, i + 1}
    BY <1>8 DEF Gen!Also
  <2>2. \A j \in Int : j \in i .. L <=> j = i \/ j = i + 1 \/ j \in i + 2 .. L
    BY <1>8
  <2> HIDE DEF q, V, InC, ends
  <2>3. q.open <=> ends
    BY <1>8, <2>1
  <2>4. \A j \in Int : j \in q.blanked <=> j \in i .. L /\ InC(j)
    <3> TAKE j \in Int
    <3>1. j \in q.blanked <=> j \in r.blanked \/ j = i \/ j = i + 1
      BY <2>1
    <3>2. j \in r.blanked <=> j \in i + 2 .. L /\ InC(j)
      BY <1>8
    <3> QED
      BY <1>8, <2>2, <3>1, <3>2
  <2>5. Means(q, i)
    BY <2>1, <2>3, <2>4
  <2> HIDE DEF Means
  <2> QED
    BY <2>5 DEF q
<1>9. ASSUME NEW n \in 0 .. L, \A k \in 0 .. n - 1 : k \in S PROVE n \in S
  <2> DEFINE i == L + 1 - n
  <2>1. i \in 1 .. L + 1 /\ i \in Int /\ (i <= L => i \in 1 .. L) /\ (i > L => i = L + 1)
    OBVIOUS
  <2>2. /\ i <= L => Ok(i + 1)
        /\ i < L => Ok(i + 2)
        /\ \A j \in i + 1 .. L + 1 : Ok(j)
    <3>1. ASSUME NEW j \in i + 1 .. L + 1 PROVE Ok(j)
      <4>1. L + 1 - j \in 0 .. n - 1 /\ L + 1 - (L + 1 - j) = j
        OBVIOUS
      <4>2. Ok(L + 1 - (L + 1 - j))
        BY <1>9, <4>1
      <4> HIDE DEF Ok
      <4> QED
        BY <4>1, <4>2
    <3>2. (i <= L => i + 1 \in i + 1 .. L + 1) /\ (i < L => i + 2 \in i + 1 .. L + 1)
      OBVIOUS
    <3> HIDE DEF Ok, i
    <3> QED
      BY <3>1, <3>2
  <2>3. scan[<<i, TRUE>>] = ScanOf(s, scan, i, TRUE) /\ scan[<<i, FALSE>>] = ScanOf(s, scan, i, FALSE)
    BY <1>6, <2>1
  <2> HIDE DEF i, scan
  <2>4. ASSUME Inside(i) PROVE Means(scan[<<i, TRUE>>], i)
    <3>1. CASE i = L + 1
      <4>1. mode[L + 1] \in {"block", "opening"}
        BY <2>4, <3>1 DEF Gen!At
      <4>2. ends
        BY <4>1 DEF Gen!NextStart
      <4>3. scan[<<i, TRUE>>] = [blanked |-> {}, open |-> TRUE]
        BY <2>3, <3>1 DEF ScanOf
      <4> HIDE DEF ends
      <4>4. \A j \in Int : j \notin i .. L
        BY <3>1
      <4> QED
        BY <4>2, <4>3, <4>4
    <3>2. CASE i \in 1 .. L /\ Shuts(i)
      <4>1. mode[i] = "block" /\ i < L
        BY <1>3, <1>5, <2>4, <3>2
      <4>2. mode[i + 1] = "closing" /\ i + 1 \in 1 .. L /\ (i + 1) + 1 = i + 2
        BY <1>4, <3>2, <4>1
      <4>3. mode[i + 2] = "code"
        BY <1>4, <4>2
      <4>4. Means(scan[<<i + 2, FALSE>>], i + 2)
        BY <2>2, <4>1, <4>3
      <4>5. InC(i) /\ InC(i + 1)
        BY <4>1, <4>2 DEF InComment
      <4>6. scan[<<i, TRUE>>] = Gen!Also(scan[<<i + 2, FALSE>>], {i, i + 1})
        BY <2>3, <3>2 DEF ScanOf
      <4> HIDE DEF Means, InC
      <4> QED
        BY <1>8, <3>2, <4>1, <4>4, <4>5, <4>6
    <3>3. CASE i \in 1 .. L /\ ~Shuts(i)
      <4>1. Inside(i + 1) /\ InC(i)
        <5>1. CASE mode[i] = "block"
          BY <1>4, <3>3, <5>1 DEF InComment
        <5>2. CASE mode[i] = "opening"
          BY <1>4, <3>3, <5>2 DEF InComment
        <5>3. CASE mode[i] = "code" /\ Opens(i)
          BY <1>4, <3>3, <5>3 DEF InComment
        <5> QED
          BY <2>4, <5>1, <5>2, <5>3
      <4>2. scan[<<i, TRUE>>] = Gen!Also(scan[<<i + 1, TRUE>>], {i})
        BY <2>3, <3>3 DEF ScanOf
      <4>3. i <= L
        BY <3>3
      <4> HIDE DEF Means, InC, Inside
      <4>4. Means(scan[<<i + 1, TRUE>>], i + 1)
        BY <2>2, <4>1, <4>3
      <4> QED
        BY <1>7, <3>3, <4>1, <4>2, <4>4
    <3>4. i = L + 1 \/ i \in 1 .. L
      BY <2>1
    <3> HIDE DEF Means, Shuts
    <3> QED
      BY <3>1, <3>2, <3>3, <3>4
  <2>5. ASSUME mode[i] = "code" PROVE Means(scan[<<i, FALSE>>], i)
    <3>1. CASE i = L + 1
      <4>1. ~ends
        BY <2>5, <3>1 DEF Gen!NextStart
      <4>2. scan[<<i, FALSE>>] = [blanked |-> {}, open |-> FALSE]
        BY <2>3, <3>1 DEF ScanOf
      <4> HIDE DEF ends
      <4>3. \A j \in Int : j \notin i .. L
        BY <3>1
      <4> QED
        BY <4>1, <4>2, <4>3
    <3>2. CASE i \in 1 .. L /\ Opens(i)
      <4>1. scan[<<i, FALSE>>] = scan[<<i, TRUE>>]
        BY <2>3, <3>2 DEF ScanOf
      <4> HIDE DEF Means
      <4> QED
        BY <2>4, <2>5, <3>2, <4>1
    <3>3. CASE i \in 1 .. L /\ ~Opens(i) /\ Comments(i)
      <4>1. mode[i + 1] = "line" /\ i + 1 \in 1 .. L + 1
        BY <1>4, <2>5, <3>3
      <4>2. \A j \in i + 1 .. L + 1 : mode[j] = "line"
        BY <1>1, <4>1, LineGoesOn
      <4>3. ~ends
        BY <4>1, <4>2 DEF Gen!NextStart
      <4>4. \A j \in i .. L : InC(j)
        <5> TAKE j \in i .. L
        <5>1. j + 1 \in i + 1 .. L + 1
          BY <3>3
        <5> QED
          BY <4>2, <5>1 DEF InComment
      <4>5. scan[<<i, FALSE>>] = [blanked |-> i .. L, open |-> FALSE]
        BY <2>3, <3>3 DEF ScanOf
      <4> HIDE DEF ends, InC
      <4> QED
        BY <4>3, <4>4, <4>5
    <3>4. CASE i \in 1 .. L /\ ~Opens(i) /\ ~Comments(i) /\ s[i] = Gen!Quote
      <4>1. mode[i + 1] = "literal" /\ i + 1 \in i + 1 .. L + 1
        BY <1>4, <2>5, <3>4
      <4> DEFINE to == Gen!PastLiteral(s, i)[i + 1]
      <4>2. /\ to = i => mode[L + 1] \in {"literal", "escaped"}
            /\ to # i => /\ mode[to] = "code"
                         /\ \A k \in i + 1 .. to - 1 : mode[k] \in {"literal", "escaped"}
        BY <1>1, <3>4, <4>1, LiteralMeans
      <4>3. to \in {i} \union ((i + 1) + 1 .. L + 1)
        <5>1. i + 1 \in i + 1 .. L + 2
          BY <3>4
        <5> QED
          BY <3>4, <5>1, LiteralEnds
      <4> HIDE DEF to
      <4>4. to \in i + 2 .. L + 1 /\ to > i /\ to \in i + 1 .. L + 1
        BY <3>4, <4>2, <4>3
      <4>5. scan[<<i, FALSE>>] = scan[<<to, FALSE>>]
        BY <2>3, <3>4, <4>4 DEF ScanOf, to, Gen!LiteralEnd
      <4>6. Means(scan[<<to, FALSE>>], to)
        BY <2>2, <4>2, <4>4
      <4>7. \A j \in Int : j \in i .. L /\ j \notin to .. L => ~InC(j)
        <5> SUFFICES ASSUME NEW j \in Int, j \in i .. L, j \notin to .. L PROVE ~InC(j)
          OBVIOUS
        <5>1. j = i \/ j \in i + 1 .. to - 1
          BY <3>4, <4>4
        <5>2. j + 1 = to \/ j + 1 \in i + 1 .. to - 1
          BY <3>4, <4>4
        <5>3. mode[j] \in {"code", "literal", "escaped"}
          BY <2>5, <4>2, <4>4, <5>1
        <5>4. mode[j + 1] \in {"code", "literal", "escaped"}
          BY <4>2, <4>4, <5>2
        <5> QED
          BY <5>3, <5>4 DEF InComment
      <4>8. \A j \in Int : j \in to .. L => j \in i .. L
        BY <3>4, <4>4
      <4> HIDE DEF ends, InC, V
      <4> QED
        BY <4>5, <4>6, <4>7, <4>8
    <3>5. CASE i \in 1 .. L /\ ~Opens(i) /\ ~Comments(i) /\ s[i] # Gen!Quote
      <4>1. mode[i + 1] = "code"
        BY <1>4, <2>5, <3>5
      <4>2. i <= L
        BY <3>5
      <4>3. Means(scan[<<i + 1, FALSE>>], i + 1)
        <5> HIDE DEF Means, Inside
        <5> QED
          BY <2>2, <4>1, <4>2
      <4>4. scan[<<i, FALSE>>] = scan[<<i + 1, FALSE>>]
        BY <2>3, <3>5 DEF ScanOf
      <4>5. ~InC(i)
        BY <2>5, <4>1 DEF InComment
      <4>6. \A j \in Int : j \in i .. L <=> j = i \/ j \in i + 1 .. L
        BY <3>5
      <4> DEFINE r == scan[<<i + 1, FALSE>>]
      <4> HIDE DEF ends, InC, V, r
      <4>7. /\ r \in V /\ (r.open <=> ends)
            /\ \A j \in Int : j \in r.blanked <=> j \in i + 1 .. L /\ InC(j)
        BY <4>3 DEF r
      <4>8. \A j \in Int : j \in r.blanked <=> j \in i .. L /\ InC(j)
        BY <4>5, <4>6, <4>7
      <4> QED
        BY <4>4, <4>7, <4>8 DEF r
    <3>6. i = L + 1 \/ i \in 1 .. L
      BY <2>1
    <3> HIDE DEF Means, Opens, Comments
    <3> QED
      BY <3>1, <3>2, <3>3, <3>4, <3>5, <3>6
  <2>6. Ok(i)
    <3> HIDE DEF Means, Inside
    <3> QED
      BY <2>4, <2>5
  <2> HIDE DEF Ok
  <2> QED
    BY <2>6 DEF i
<1>10. \A n \in 0 .. L : n \in S
  <2> HIDE DEF S
  <2> QED
    BY <1>9, AllFollow
<1>11. Ok(1)
  <2>1. L \in 0 .. L /\ L + 1 - L = 1
    OBVIOUS
  <2>2. Ok(L + 1 - L)
    BY <1>10, <2>1
  <2> HIDE DEF Ok
  <2> QED
    BY <2>1, <2>2
<1>12. Means(line, 1)
  <2>1. line = scan[<<1, start = "block">>]
    BY DEF Gen!ScanLine
  <2> HIDE DEF Means, scan
  <2>2. CASE start = "block"
    <3>1. line = scan[<<1, TRUE>>]
      BY <2>1, <2>2
    <3> QED
      BY <1>2, <1>11, <2>2, <3>1
  <2>3. CASE start = "code"
    <3>1. line = scan[<<1, FALSE>>]
      BY <2>1, <2>3
    <3> QED
      BY <1>2, <1>11, <2>3, <3>1
  <2> QED
    BY <2>2, <2>3
<1> QED
  BY <1>12

(* Each line of a text begins in code or in a block comment. *)
LEMMA StartsAre ==
  ASSUME NEW lines, Len(lines) \in Nat \ {0}, DOMAIN lines = 1 .. Len(lines)
  PROVE  /\ Gen!Starts(lines) \in [1 .. Len(lines) -> {"code", "block"}]
         /\ Gen!Starts(lines)[1] = "code"
         /\ \A n \in 1 .. Len(lines) - 1 :
              Gen!Starts(lines)[n + 1] =
                Gen!NextStart(Gen!Modes(lines[n], Gen!Starts(lines)[n])[Len(lines[n]) + 1])
<1> DEFINE D == DOMAIN lines
           V == {"code", "block"}
           Next1(f, n) == IF n = 1 THEN "code"
                          ELSE Gen!NextStart(Gen!Modes(lines[n - 1], f[n - 1])[Len(lines[n - 1]) + 1])
           F == [f \in [D -> V] |-> [n \in D |-> Next1(f, n)]]
           m == [n \in D |-> n]
           some == [n \in D |-> "code"]
           start == Gen!Starts(lines)
<1>0. Len(lines) \in Nat /\ D = 1 .. Len(lines) /\ 1 \in D
  OBVIOUS
<1>1. \A x : Gen!NextStart(x) \in V
  BY DEF Gen!NextStart
<1>2. F \in [[D -> V] -> [D -> V]]
  BY <1>1
<1>3. ASSUME NEW f \in [D -> V], NEW g \in [D -> V], NEW d \in D,
             \A e \in D : m[e] < m[d] => f[e] = g[e]
      PROVE  F[f][d] = F[g][d]
  <2>1. d # 1 => d - 1 \in D /\ m[d - 1] < m[d]
    BY <1>0
  <2>2. d # 1 => f[d - 1] = g[d - 1]
    BY <1>3, <2>1
  <2> QED
    BY <2>2
<1>4. m \in [D -> 0 .. Len(lines)] /\ some \in [D -> V]
  BY <1>0
<1>5. LooksLower(F, D, V, m, Len(lines))
  <2> HIDE DEF F, m, D, V
  <2> QED
    BY <1>0, <1>2, <1>3, <1>4 DEF LooksLower
<1>6. \E f \in [D -> V] : F[f] = f
  <2> HIDE DEF D, F, m, V
  <2> QED
    BY <1>5, Recursion
<1>7. PICK f \in [D -> V] : f = [n \in D |-> Next1(f, n)]
  BY <1>6
<1>8. start = [n \in D |-> Next1(start, n)]
  BY <1>7 DEF Gen!Starts
<1> HIDE DEF start, V
<1>9. \A n \in D : start[n] \in V
  <2> TAKE n \in D
  <2>1. "code" \in V
    BY DEF V
  <2> QED
    BY <1>1, <1>8, <2>1
<1>10. \A n \in 1 .. Len(lines) - 1 :
         start[n + 1] = Gen!NextStart(Gen!Modes(lines[n], start[n])[Len(lines[n]) + 1])
  <2> TAKE n \in 1 .. Len(lines) - 1
  <2>1. n + 1 \in D /\ n + 1 # 1 /\ (n + 1) - 1 = n
    BY <1>0
  <2>2. start[n + 1] = Next1(start, n + 1)
    BY <1>8, <2>1
  <2> QED
    BY <2>1, <2>2
<1>11. start \in [1 .. Len(lines) -> V] /\ start[1] = "code"
  BY <1>0, <1>8, <1>9
<1> QED
  BY <1>10, <1>11 DEF start, V

(* A text that is C and has no comment that begins with /*/. *)
Tame(lines) == Gen!IsC(lines) /\ \A n \in DOMAIN lines : ~Gen!OpensAndCloses(lines, n)

(* On such a text, a line as C has it. *)
LEMMA TameLine ==
  ASSUME NEW lines \in Seq(Seq(STRING)), Tame(lines), NEW n \in DOMAIN lines,
         NEW start, start = Gen!Starts(lines)[n], NEW mode, mode = Gen!Modes(lines[n], start),
         NEW line, line = Gen!ScanLine(lines[n], start = "block")
  PROVE  /\ line.open = (Gen!NextStart(mode[Len(lines[n]) + 1]) = "block")
         /\ \A j \in 1 .. Len(lines[n]) : j \in line.blanked <=> Gen!CommentAt(lines, n, j)
<1> DEFINE s == lines[n]
<1>1. /\ Len(lines) \in Nat \ {0} /\ DOMAIN lines = 1 .. Len(lines) /\ n \in 1 .. Len(lines)
      /\ Len(s) \in Nat
  OBVIOUS
<1>2. start \in {"code", "block"}
  BY <1>1, StartsAre
<1>3. mode[Len(s) + 1] \notin {"literal", "escaped"}
  BY DEF Tame, Gen!IsC
<1>4. \A i \in 1 .. Len(s) - 2 : ~(mode[i + 1] = "opening" /\ s[i + 2] = "/")
  BY DEF Tame, Gen!OpensAndCloses
<1>5. \A j \in 1 .. Len(s) : Gen!CommentAt(lines, n, j) <=> InComment(mode, j)
  BY DEF Gen!CommentAt, InComment
<1> HIDE DEF s
<1>6. mode = Gen!Modes(s, start) /\ line = Gen!ScanLine(s, start = "block") /\ Len(s) \in Nat
  BY <1>1 DEF s
<1>7. /\ line.open = (Gen!NextStart(mode[Len(s) + 1]) = "block")
      /\ \A j \in 1 .. Len(s) : j \in line.blanked <=> InComment(mode, j)
  BY <1>2, <1>3, <1>4, <1>6, LineMasked
<1> QED
  BY <1>5, <1>7 DEF s

(* On such a text mask_comments knows of each line how it begins. *)
LEMMA BlocksAreKnown ==
  ASSUME NEW lines \in Seq(Seq(STRING)), Tame(lines)
  PROVE  \A n \in DOMAIN lines : Gen!InBlock(lines)[n] = (Gen!Starts(lines)[n] = "block")
<1> SUFFICES ASSUME lines # <<>>
             PROVE  \A n \in DOMAIN lines : Gen!InBlock(lines)[n] = (Gen!Starts(lines)[n] = "block")
  OBVIOUS
<1> DEFINE D == DOMAIN lines
           start == Gen!Starts(lines)
           open == Gen!InBlock(lines)
           Next1(f, n) == IF n = 1 THEN FALSE ELSE Gen!ScanLine(lines[n - 1], f[n - 1]).open
           g == [n \in D |-> start[n] = "block"]
<1>1. Len(lines) \in Nat /\ D = 1 .. Len(lines) /\ 1 \in D
  OBVIOUS
<1>2. /\ start[1] = "code"
      /\ \A n \in 1 .. Len(lines) - 1 :
           start[n + 1] = Gen!NextStart(Gen!Modes(lines[n], start[n])[Len(lines[n]) + 1])
  <2>1. Len(lines) \in Nat \ {0}
    OBVIOUS
  <2> QED
    BY <1>1, <2>1, StartsAre
<1>3. ASSUME NEW n \in 1 .. Len(lines) - 1
      PROVE  Gen!ScanLine(lines[n], start[n] = "block").open = (start[n + 1] = "block")
  <2>1. n \in DOMAIN lines
    BY <1>1
  <2> DEFINE from == start[n]
             mode == Gen!Modes(lines[n], from)
             line == Gen!ScanLine(lines[n], from = "block")
  <2>2. from = Gen!Starts(lines)[n]
    OBVIOUS
  <2> HIDE DEF from
  <2>3. mode = Gen!Modes(lines[n], from) /\ line = Gen!ScanLine(lines[n], from = "block")
    OBVIOUS
  <2> HIDE DEF mode, line
  <2>4. line.open = (Gen!NextStart(mode[Len(lines[n]) + 1]) = "block")
    BY <2>1, <2>2, <2>3, TameLine
  <2> QED
    BY <1>2, <2>4 DEF from, mode, line
<1> HIDE DEF start
<1>4. g = [n \in D |-> Next1(g, n)]
  <2>1. ASSUME NEW n \in D PROVE (start[n] = "block") = Next1(g, n)
    <3>1. CASE n = 1
      BY <1>2, <3>1
    <3>2. CASE n # 1
      <4>1. n - 1 \in 1 .. Len(lines) - 1 /\ (n - 1) + 1 = n /\ n - 1 \in D
        BY <1>1, <3>2
      <4>2. Gen!ScanLine(lines[n - 1], start[n - 1] = "block").open = (start[n] = "block")
        BY <1>3, <4>1
      <4> QED
        BY <3>2, <4>1, <4>2
    <3> QED
      BY <3>1, <3>2
  <2> QED
    BY <2>1
<1>5. open = [n \in D |-> Next1(open, n)]
  <2> HIDE DEF g
  <2> QED
    BY <1>4 DEF Gen!InBlock
<1> HIDE DEF open
<1>6. ASSUME NEW n \in D PROVE open[n] = Next1(open, n)
  BY <1>5
<1> DEFINE S == {n \in 0 .. Len(lines) - 1 : open[n + 1] = (start[n + 1] = "block")}
<1>7. 0 \in S
  <2>1. 0 \in 0 .. Len(lines) - 1 /\ 0 + 1 = 1
    BY <1>1
  <2>2. open[1] = FALSE /\ start[1] # "block"
    BY <1>1, <1>2, <1>6
  <2> QED
    BY <2>1, <2>2
<1>8. ASSUME NEW n \in Nat, n < Len(lines) - 1, n \in S PROVE n + 1 \in S
  <2>1. n + 1 \in 1 .. Len(lines) - 1 /\ (n + 1) + 1 \in D /\ (n + 1) + 1 # 1 /\ ((n + 1) + 1) - 1 = n + 1
    BY <1>1, <1>8
  <2>2. open[(n + 1) + 1] = Gen!ScanLine(lines[n + 1], open[n + 1]).open
    BY <1>6, <2>1
  <2>3. Gen!ScanLine(lines[n + 1], start[n + 1] = "block").open = (start[(n + 1) + 1] = "block")
    BY <1>3, <2>1
  <2>4. open[(n + 1) + 1] = (start[(n + 1) + 1] = "block")
    BY <1>8, <2>2, <2>3
  <2> QED
    BY <2>1, <2>4
<1>9. \A n \in 0 .. Len(lines) - 1 : n \in S
  <2>1. Len(lines) - 1 \in Nat
    BY <1>1
  <2> HIDE DEF S
  <2> QED
    BY <1>7, <1>8, <2>1, AllReached
<1>10. ASSUME NEW n \in D PROVE open[n] = (start[n] = "block")
  <2>1. n - 1 \in 0 .. Len(lines) - 1 /\ (n - 1) + 1 = n
    BY <1>1
  <2>2. n - 1 \in S
    BY <1>9, <2>1
  <2> QED
    BY <2>1, <2>2
<1> QED
  BY <1>10 DEF open, start

LEMMA TameIsMasked ==
  ASSUME NEW lines \in Seq(Seq(STRING)), Tame(lines), NEW n \in DOMAIN lines, NEW i \in DOMAIN lines[n]
  PROVE  Gen!MaskComments(lines)[n][i] = IF Gen!CommentAt(lines, n, i) THEN Gen!Blank ELSE lines[n][i]
<1>1. n \in 1 .. Len(lines) /\ i \in 1 .. Len(lines[n])
  OBVIOUS
<1> DEFINE line == Gen!ScanLine(lines[n], Gen!InBlock(lines)[n])
<1>2. line = Gen!ScanLine(lines[n], Gen!Starts(lines)[n] = "block")
  BY BlocksAreKnown
<1> HIDE DEF line
<1>3. i \in line.blanked <=> Gen!CommentAt(lines, n, i)
  BY <1>1, <1>2, TameLine
<1>4. Gen!MaskComments(lines)[n][i] = IF i \in line.blanked THEN Gen!Blank ELSE lines[n][i]
  BY <1>1 DEF Gen!MaskComments, line
<1> QED
  BY <1>3, <1>4

LEMMA EndedMask == Ended => MaskAgreesWithC
<1> SUFFICES ASSUME Ended, tool = "gen", output # None, Tame(input.lines),
                    NEW n \in DOMAIN input.lines, NEW i \in DOMAIN input.lines[n]
             PROVE  Gen!MaskComments(input.lines)[n][i] =
                      IF Gen!CommentAt(input.lines, n, i) THEN Gen!Blank ELSE input.lines[n][i]
  BY DEF MaskAgreesWithC, Tame
<1>1. input.lines \in Seq(Seq(STRING))
  BY GeneratedFrom
<1> QED
  BY <1>1, TameIsMasked

(* Of any C source, however long, what gen.py blanks is what C calls a     *)
(* comment.                                                                *)
THEOREM MaskAlwaysAgreesWithC == Spec => []MaskAgreesWithC
  BY EndedCorrect, EndedMask, PTL

(* An id is the name of one match, under any cap and in any source.        *)
THEOREM IdsAlwaysNameOneMatch == Spec => []IdsNameOneMatch
  BY EndedCorrect, EndedIds, PTL

(* A capped sample is spread evenly, of any number of matches.             *)
THEOREM SampleAlwaysEven == Spec => []SampleIsEven
  BY EndedCorrect, EndedSample, PTL
-----------------------------------------------------------------------------
(* Verdicts.  A program that counts what is wrong passes if nothing is.    *)
LEMMA CountOf ==
  ASSUME NEW S, IsFiniteSet(S)
  PROVE  Cardinality(S) \in Nat /\ (Cardinality(S) = 0 <=> S = {})
  BY FS_CardinalityType, FS_EmptySet

LEMMA JudgeOf ==
  ASSUME NEW S, IsFiniteSet(S)
  PROVE  /\ Judge(Cardinality(S)) = "PASS" => S = {}
         /\ Judge(Cardinality(S)) = "FAIL" => S # {}
  BY CountOf DEF Judge

LEMMA ListIsFinite ==
  ASSUME NEW s, IsList(s), NEW T \in SUBSET DOMAIN s
  PROVE  IsFiniteSet(T)
<1>1. 1 \in Int /\ Len(s) \in Int
  BY DEF IsList
<1>2. IsFiniteSet(1 .. Len(s))
  BY <1>1, FS_Interval
<1> QED
  BY <1>2, FS_Subset DEF IsList

LEMMA BranchExact ==
  ASSUME NEW w \in Given("branch")
  PROVE  /\ BranchVerdict(w) = "PASS" => BranchRight(w)
         /\ BranchVerdict(w) = "FAIL" => ~BranchRight(w)
<1> DEFINE Bad == {k \in DOMAIN w.branch : BranchFails(w.branch[k])}
<1>1. IsList(w.branch) /\ \A k \in DOMAIN w.branch : BranchCase(w.branch[k])
  BY BenchAssumption
<1>2. /\ BranchVerdict(w) = "PASS" => Bad = {}
      /\ BranchVerdict(w) = "FAIL" => Bad # {}
  BY <1>1, ListIsFinite, JudgeOf DEF BranchVerdict, Count
<1>3. BranchRight(w) <=> \A k \in DOMAIN w.branch : ~BranchFails(w.branch[k])
  <2> SUFFICES ASSUME NEW c, BranchCase(c)
               PROVE  LET text == c.answer.out.text
                      IN ~BranchFails(c) <=>
                           /\ c.want = None <=> c.answer.out = None
                           /\ c.want # None =>
                                /\ Len(text) = c.pad + Len(c.want)
                                /\ \A i \in DOMAIN text :
                                     text[i] = IF i <= c.pad THEN 0 ELSE c.want[i - c.pad]
    BY <1>1 DEF BranchRight
  <2>1. CASE c.want = None
    BY <2>1 DEF BranchFails
  <2>2. CASE c.answer.out = None
    BY <2>2 DEF BranchFails
  <2>3. CASE c.want # None /\ c.answer.out # None
    <3> DEFINE text == c.answer.out.text
               pad == [k \in 1 .. c.pad |-> 0]
    <3>1. c.pad \in Nat /\ c.want \in Seq(Nat) /\ text \in Seq(Nat)
      BY <2>3 DEF BranchCase
    <3>0. pad \in Seq(Nat) /\ Len(pad) = c.pad
      <4>1. pad \in [1 .. c.pad -> Nat]
        OBVIOUS
      <4> QED
        BY <3>1, <4>1, IsSequence
    <3>2. ~BranchFails(c) <=> text = pad \o c.want
      BY <2>3 DEF BranchFails
    <3> HIDE DEF text
    <3>3. text = pad \o c.want <=>
            /\ Len(text) = c.pad + Len(c.want)
            /\ \A i \in DOMAIN text :
                 text[i] = IF i <= c.pad THEN 0 ELSE c.want[i - c.pad]
      <4> DEFINE all == pad \o c.want
      <4>1. /\ all \in Seq(Nat) /\ Len(all) = c.pad + Len(c.want)
            /\ \A i \in 1 .. Len(all) : all[i] = IF i <= c.pad THEN pad[i] ELSE c.want[i - c.pad]
        BY <3>1, <3>0, ConcatProperties
      <4>2. \A i \in 1 .. c.pad : pad[i] = 0
        OBVIOUS
      <4> HIDE DEF all, pad
      <4>3. \A i \in 1 .. Len(all) : all[i] = IF i <= c.pad THEN 0 ELSE c.want[i - c.pad]
        <5> SUFFICES ASSUME NEW i \in 1 .. Len(all)
                     PROVE  all[i] = IF i <= c.pad THEN 0 ELSE c.want[i - c.pad]
          OBVIOUS
        <5>1. all[i] = IF i <= c.pad THEN pad[i] ELSE c.want[i - c.pad]
          BY <4>1
        <5>2. Len(all) \in Nat
          BY <4>1, LenProperties
        <5>3. i <= c.pad => pad[i] = 0
          BY <3>1, <4>2, <5>2
        <5> QED
          BY <5>1, <5>3
      <4>4. ASSUME Len(text) = Len(all), \A i \in 1 .. Len(text) : text[i] = all[i]
            PROVE  text = all
        BY <3>1, <4>1, <4>4, SeqEqual
      <4>5. DOMAIN text = 1 .. Len(text)
        BY <3>1, LenProperties
      <4>6. text = all => /\ Len(text) = c.pad + Len(c.want)
                          /\ \A i \in DOMAIN text :
                               text[i] = IF i <= c.pad THEN 0 ELSE c.want[i - c.pad]
        BY <4>1, <4>3, <4>5
      <4>7. ASSUME Len(text) = c.pad + Len(c.want),
                   \A i \in DOMAIN text :
                     text[i] = IF i <= c.pad THEN 0 ELSE c.want[i - c.pad]
            PROVE  text = all
        <5>1. \A i \in 1 .. Len(text) : text[i] = all[i]
          BY <4>1, <4>3, <4>5, <4>7
        <5> QED
          BY <4>1, <4>4, <4>7, <5>1
      <4> QED
        BY <4>6, <4>7 DEF all
    <3> QED
      BY <2>3, <3>2, <3>3 DEF text
  <2> QED
    BY <2>1, <2>2, <2>3
<1> QED
  BY <1>2, <1>3

LEMMA AsmExact ==
  ASSUME NEW c
  PROVE  ~AsmFails(c) <=> AsmRight(c)
  BY DEF AsmFails, AsmRight, Text

LEMMA BitsExact ==
  ASSUME NEW w \in Given("bits")
  PROVE  /\ BitsVerdict(w) = "PASS" => BitsRight(w)
         /\ BitsVerdict(w) = "FAIL" => ~BitsRight(w)
<1> DEFINE Bad == {k \in DOMAIN w.asm : AsmFails(w.asm[k])}
           BadLinks == {k \in DOMAIN w.bitlink : BitLinkFails(w.bitlink[k])}
<1>1. IsFiniteSet(Bad) /\ IsFiniteSet(BadLinks)
  BY BenchAssumption, ListIsFinite
<1>2. BitsVerdict(w) = Judge(Cardinality(Bad) + Cardinality(BadLinks))
  BY DEF BitsVerdict, Count
<1>3. BitsRight(w) <=> Bad = {} /\ BadLinks = {}
  BY AsmExact DEF BitsRight, BitLinkFails
<1> HIDE DEF Bad, BadLinks
<1> QED
  BY <1>1, <1>2, <1>3, CountOf DEF Judge

(* What RelocRight says of one case.                                       *)
RelocCaseRight(c) ==
  CASE c.stage = "emit"  -> c.got = c.want
    [] c.stage = "range" -> /\ c.ok <=> c.answer.image # None
                            /\ ~c.ok => "truncated to fit" \in c.answer.said
    [] c.stage = "fold"  -> AsmRight(c)
    [] OTHER             -> /\ Wants(c, c.answer.image)
                            /\ c.stage = "resolve" => c.answer.image = c.want
                            /\ c.want = None => c.msg \in c.answer.said
                            /\ c.want = None /\ c.stage = "kinds" => c.answer.image = None

(* A sequence is the prefix of its own length.                             *)
LEMMA WholePrefix ==
  ASSUME NEW s \in Seq(Nat)
  PROVE  Prefix(s, Len(s)) = s
<1>1. Len(s) \in Nat
  BY LenProperties
<1>2. Min({Len(s), Len(s)}) = Len(s)
  BY <1>1 DEF Min
<1>3. SubSeq(s, 1, Len(s)) = s
  BY <1>1
<1> QED
  BY <1>2, <1>3 DEF Prefix

LEMMA RelocCaseExact ==
  ASSUME NEW c, RelocCase(c)
  PROVE  ~RelocFails(c) <=> RelocCaseRight(c)
<1>1. CASE c.stage = "emit"
  BY <1>1 DEF RelocFails, RelocCaseRight, EmitFails
<1>2. CASE c.stage = "range"
  BY <1>2 DEF RelocFails, RelocCaseRight, RangeFails
<1>3. CASE c.stage = "fold"
  BY <1>3, AsmExact DEF RelocFails, RelocCaseRight
<1>4. CASE c.stage = "resolve"
  <2>1. c.want # None /\ c.want \in Seq(Nat) /\ Prefix(c.want, Len(c.want)) = c.want
    BY <1>4, WholePrefix DEF RelocCase
  <2> QED
    BY <1>4, <2>1 DEF RelocFails, RelocCaseRight, ResolveFails, Wants
<1>5. CASE c.stage = "kinds"
  BY <1>5 DEF RelocCase, RelocFails, RelocCaseRight, KindFails, Wants
<1>6. CASE c.stage = "pcode"
  BY <1>6 DEF RelocCase, RelocFails, RelocCaseRight, PcodeFails, Wants
<1> QED
  BY <1>1, <1>2, <1>3, <1>4, <1>5, <1>6 DEF RelocCase

LEMMA RelocExact ==
  ASSUME NEW w \in Given("reloc")
  PROVE  /\ RelocVerdict(w) = "PASS" => RelocRight(w)
         /\ RelocVerdict(w) = "FAIL" => ~RelocRight(w)
<1> DEFINE Bad == {k \in DOMAIN w.reloc : RelocFails(w.reloc[k])}
           i == w.identity
           Lost == {s \in {"relink", "archive"} :
                      IF s = "relink" THEN RelinkFails(i) ELSE ArchiveFails(i)}
           Agreed == i.straight # None /\ i.relinked = i.straight /\ i.fromar = i.straight
<1>1. /\ IsFiniteSet(Bad) /\ \A k \in DOMAIN w.reloc : RelocCase(w.reloc[k])
      /\ IdentityCase(i)
  BY BenchAssumption, ListIsFinite
<1>2. IsFiniteSet(Lost)
  <2>1. IsFiniteSet({"relink", "archive"})
    <3>1. IsFiniteSet({}) /\ IsFiniteSet({} \union {"relink"})
      BY FS_EmptySet, FS_AddElement
    <3>2. IsFiniteSet(({} \union {"relink"}) \union {"archive"})
      BY <3>1, FS_AddElement
    <3>3. ({} \union {"relink"}) \union {"archive"} = {"relink", "archive"}
      OBVIOUS
    <3> QED
      BY <3>2, <3>3
  <2> QED
    BY <2>1, FS_Subset
<1>3. Identity(i) \in Nat /\ (Identity(i) = 0 <=> i.straight # None /\ Lost = {})
  BY <1>2, CountOf DEF Identity
<1>4. Identity(i) = 0 <=> Agreed
  <2>1. Lost = {} <=> ~RelinkFails(i) /\ ~ArchiveFails(i)
    OBVIOUS
  <2> QED
    BY <1>1, <1>3, <2>1 DEF RelinkFails, ArchiveFails, IdentityCase
<1>5. RelocRight(w) <=> Bad = {} /\ Agreed
  <2>1. RelocRight(w) <=> (\A k \in DOMAIN w.reloc : RelocCaseRight(w.reloc[k])) /\ Agreed
    BY DEF RelocRight, RelocCaseRight
  <2> QED
    BY <1>1, <2>1, RelocCaseExact
<1>6. RelocVerdict(w) \in {"stopped", Judge(Cardinality(Bad) + Identity(i))}
  BY DEF RelocVerdict, Count
<1> HIDE DEF Bad, Agreed, i
<1> QED
  BY <1>1, <1>3, <1>4, <1>5, <1>6, CountOf DEF Judge

LEMMA GuardExact ==
  ASSUME NEW w \in Given("guard")
  PROVE  /\ GuardVerdict(w) = "PASS" => GuardRight(w)
         /\ GuardVerdict(w) = "FAIL" => ~GuardRight(w)
<1> DEFINE Bad == {k \in DOMAIN w.guard : GuardFails(w.guard[k])}
<1>1. IsFiniteSet(Bad) /\ \A k \in DOMAIN w.guard : GuardCase(w.guard[k])
  BY BenchAssumption, ListIsFinite
<1>2. GuardVerdict(w) = Judge(Cardinality(Bad))
  BY DEF GuardVerdict, Count
<1>3. GuardRight(w) <=> \A k \in DOMAIN w.guard : ~GuardFails(w.guard[k])
  <2> SUFFICES ASSUME NEW p, GuardCase(p)
               PROVE  ~GuardFails(p) <=>
                        /\ p.emitted = <<p.rtype>> /\ ~p.base.fails /\ Diag \notin p.base.said
                        /\ p.rtype = 9 => Diag \in p.answers[WildOffset].said
                        /\ \A at \in DOMAIN p.answers :
                             at \in p.ends - p.size .. p.ends =>
                               (Diag \in p.answers[at].said <=> at + p.size > p.ends)
    BY <1>1 DEF GuardRight
  <2> DEFINE Said(at) == Diag \in p.answers[at].said
  <2>1. /\ p.size \in {1, 2} /\ p.ends \in Nat
        /\ p.ends - p.size .. p.ends \subseteq DOMAIN p.answers
    BY DEF GuardCase
  <2>2. (\E c \in GuardCases(p) : ~(Said(c[1]) <=> c[2])) <=>
          \/ Said(p.ends - p.size) \/ ~Said(p.ends)
          \/ p.size # 1 /\ ~Said(p.ends - p.size + 1)
          \/ p.rtype = 9 /\ ~Said(WildOffset)
    <3> DEFINE Wrong(c) == ~(Said(c[1]) <=> c[2])
    <3>1. \A at : /\ Wrong(<<at, TRUE>>) <=> ~Said(at)
                  /\ Wrong(<<at, FALSE>>) <=> Said(at)
      OBVIOUS
    <3> HIDE DEF Wrong, Said
    <3>2. (\E c \in GuardCases(p) : Wrong(c)) <=>
            \/ Wrong(<<p.ends - p.size, FALSE>>) \/ Wrong(<<p.ends, TRUE>>)
            \/ p.size # 1 /\ Wrong(<<p.ends - p.size + 1, TRUE>>)
            \/ p.rtype = 9 /\ Wrong(<<WildOffset, TRUE>>)
      BY DEF GuardCases
    <3> QED
      BY <3>1, <3>2 DEF Wrong
  <2>3. (\A at \in DOMAIN p.answers :
           at \in p.ends - p.size .. p.ends => (Said(at) <=> at + p.size > p.ends))
        <=> /\ ~Said(p.ends - p.size) /\ Said(p.ends)
            /\ p.size # 1 => Said(p.ends - p.size + 1)
    BY <2>1
  <2> HIDE DEF Said
  <2> QED
    BY <2>2, <2>3 DEF GuardFails, Said
<1> QED
  BY <1>1, <1>2, <1>3, JudgeOf

(* The sections and symbols of a script that are wrong, as CheckScript and *)
(* ZeroFails count them.                                                   *)
WrongSections(s) ==
  {n \in DOMAIN s.wanted : n \notin DOMAIN s.sections \/ s.sections[n] # s.wanted[n]}

AstraySymbols(s) ==
  {a \in DOMAIN s.landing : a \notin DOMAIN s.symbols \/ s.symbols[a] # s.landing[a]}

WrongDebug(s) ==
  {d \in DOMAIN s.debug : d \notin DOMAIN s.sections \/ s.sections[d] # 0
                          \/ s.contents[d] # s.debug[d]}

Strays(s) == DOMAIN s.sections \ (DOMAIN s.wanted \union DOMAIN s.debug \union Bookkeeping)

Kept(s) == s.discard \intersect DOMAIN s.sections

LEMMA ScriptCounts ==
  ASSUME NEW s, ScriptCase(s)
  PROVE  /\ CheckScript(s) \in Nat
         /\ CheckScript(s) = 0 <=>
              /\ s.linked /\ s.image = s.rom
              /\ WrongSections(s) = {} /\ AstraySymbols(s) = {} /\ WrongDebug(s) = {}
              /\ Kept(s) = {} /\ Strays(s) = {}
<1>1. /\ IsFiniteSet(WrongSections(s)) /\ IsFiniteSet(AstraySymbols(s))
      /\ IsFiniteSet(WrongDebug(s)) /\ IsFiniteSet(Kept(s))
  <2>1. /\ IsFiniteSet(DOMAIN s.wanted) /\ IsFiniteSet(DOMAIN s.landing)
        /\ IsFiniteSet(DOMAIN s.debug) /\ IsFiniteSet(DOMAIN s.sections)
    BY DEF ScriptCase
  <2> QED
    BY <2>1, FS_Subset DEF WrongSections, AstraySymbols, WrongDebug, Kept
<1>2. CheckScript(s) =
        IF ~s.linked THEN 1
        ELSE Cardinality(WrongSections(s)) + Cardinality(AstraySymbols(s))
             + Cardinality(WrongDebug(s)) + Cardinality(Kept(s))
             + (IF s.image # s.rom THEN 1 ELSE 0) + (IF Strays(s) # {} THEN 1 ELSE 0)
  BY DEF CheckScript, WrongSections, AstraySymbols, WrongDebug, Kept, Strays
<1> DEFINE a == Cardinality(WrongSections(s))
           b == Cardinality(AstraySymbols(s))
           c == Cardinality(WrongDebug(s))
           d == Cardinality(Kept(s))
           e == IF s.image # s.rom THEN 1 ELSE 0
           f == IF Strays(s) # {} THEN 1 ELSE 0
<1>3. /\ a \in Nat /\ (a = 0 <=> WrongSections(s) = {})
      /\ b \in Nat /\ (b = 0 <=> AstraySymbols(s) = {})
      /\ c \in Nat /\ (c = 0 <=> WrongDebug(s) = {})
      /\ d \in Nat /\ (d = 0 <=> Kept(s) = {})
  BY <1>1, CountOf
<1>4. /\ e \in Nat /\ (e = 0 <=> s.image = s.rom)
      /\ f \in Nat /\ (f = 0 <=> Strays(s) = {})
  OBVIOUS
<1>5. CheckScript(s) = IF ~s.linked THEN 1 ELSE a + b + c + d + e + f
  BY <1>2
<1> HIDE DEF a, b, c, d, e, f
<1>6. CASE ~s.linked
  BY <1>5, <1>6
<1>7. CASE s.linked
  <2>1. CheckScript(s) = a + b + c + d + e + f
    BY <1>5, <1>7
  <2> QED
    BY <1>3, <1>4, <1>7, <2>1
<1> QED
  BY <1>6, <1>7

LEMMA ScriptExact ==
  ASSUME NEW w \in Given("script")
  PROVE  /\ ScriptVerdict(w) = "PASS" => ScriptRight(w)
         /\ ScriptVerdict(w) = "FAIL" => ~ScriptRight(w)
<1> DEFINE s == w.script
           z == w.zero
           Silent == z.regions \ z.said
<1>1. ScriptCase(s) /\ IsFiniteSet(z.regions)
  BY BenchAssumption
<1>2. /\ Cardinality(Unaudited(s)) \in Nat
      /\ Cardinality(Unaudited(s)) = 0 <=> s.arms \subseteq s.fed \union s.unfeedable
  <2>1. IsFiniteSet(Unaudited(s))
    BY <1>1, FS_Subset DEF ScriptCase, Unaudited
  <2>2. Unaudited(s) = {} <=> s.arms \subseteq s.fed \union s.unfeedable
    BY DEF Unaudited
  <2> QED
    BY <2>1, <2>2, CountOf
<1>3. /\ ZeroFails(z) \in Nat
      /\ ZeroFails(z) = 0 <=> ~z.linked /\ z.regions \subseteq z.said
  <2>1. Cardinality(Silent) \in Nat /\ (Cardinality(Silent) = 0 <=> Silent = {})
    BY <1>1, FS_Subset, CountOf
  <2>2. Silent = {} <=> z.regions \subseteq z.said
    OBVIOUS
  <2>3. ZeroFails(z) = (IF z.linked THEN 1 ELSE 0) + Cardinality(Silent)
    BY DEF ZeroFails
  <2> HIDE DEF Silent, z
  <2> QED
    BY <2>1, <2>2, <2>3
<1>4. ScriptRight(w) <=>
        /\ s.arms \subseteq s.fed \union s.unfeedable
        /\ s.linked /\ s.image = s.rom
        /\ WrongSections(s) = {} /\ AstraySymbols(s) = {} /\ WrongDebug(s) = {}
        /\ Kept(s) = {} /\ Strays(s) = {}
        /\ ~z.linked /\ z.regions \subseteq z.said
  <2>1. ScriptRight(w) <=>
          /\ s.arms \subseteq s.fed \union s.unfeedable
          /\ s.linked /\ s.image = s.rom
          /\ DOMAIN s.sections \ Bookkeeping = DOMAIN s.wanted \union DOMAIN s.debug
          /\ \A n \in DOMAIN s.wanted : s.sections[n] = s.wanted[n]
          /\ AstraySymbols(s) = {}
          /\ \A d \in DOMAIN s.debug : s.sections[d] = 0 /\ s.contents[d] = s.debug[d]
          /\ ~z.linked /\ z.regions \subseteq z.said
    BY DEF ScriptRight, AstraySymbols
  <2>2. /\ (DOMAIN s.wanted \union DOMAIN s.debug) \intersect (Bookkeeping \union s.discard) = {}
        /\ s.discard \intersect Bookkeeping = {}
    BY <1>1 DEF ScriptCase
  <2> HIDE DEF s, z
  <2>3. /\ DOMAIN s.sections \ Bookkeeping = DOMAIN s.wanted \union DOMAIN s.debug
        /\ \A n \in DOMAIN s.wanted : s.sections[n] = s.wanted[n]
        /\ \A d \in DOMAIN s.debug : s.sections[d] = 0 /\ s.contents[d] = s.debug[d]
        <=> /\ WrongSections(s) = {} /\ WrongDebug(s) = {}
            /\ Kept(s) = {} /\ Strays(s) = {}
    BY <2>2 DEF WrongSections, WrongDebug, Kept, Strays
  <2> QED
    BY <2>1, <2>3
<1>5. ScriptVerdict(w) \in
        {"stopped", Judge(Cardinality(Unaudited(s)) + CheckScript(s) + ZeroFails(z))}
  BY DEF ScriptVerdict
<1> DEFINE bad == Cardinality(Unaudited(s)) + CheckScript(s) + ZeroFails(z)
<1> HIDE DEF s, z
<1>6. bad = 0 <=> ScriptRight(w)
  <2>1. /\ CheckScript(s) \in Nat
        /\ CheckScript(s) = 0 <=>
             /\ s.linked /\ s.image = s.rom
             /\ WrongSections(s) = {} /\ AstraySymbols(s) = {} /\ WrongDebug(s) = {}
             /\ Kept(s) = {} /\ Strays(s) = {}
    BY <1>1, ScriptCounts
  <2>2. bad = 0 <=> Cardinality(Unaudited(s)) = 0 /\ CheckScript(s) = 0 /\ ZeroFails(z) = 0
    <3>1. \A p, q, r \in Nat : p + q + r = 0 <=> p = 0 /\ q = 0 /\ r = 0
      OBVIOUS
    <3>2. /\ Cardinality(Unaudited(s)) \in Nat /\ CheckScript(s) \in Nat
          /\ ZeroFails(z) \in Nat
      BY <1>2, <1>3, <2>1
    <3> QED
      BY <3>1, <3>2
  <2> QED
    BY <1>2, <1>3, <1>4, <2>1, <2>2
<1> HIDE DEF bad
<1>7. ScriptVerdict(w) \in {"stopped", Judge(bad)}
  BY <1>5 DEF bad
<1> QED
  BY <1>6, <1>7 DEF Judge
-----------------------------------------------------------------------------
(* romdiff.py.                                                             *)
LEMMA MinOfTwo ==
  ASSUME NEW a \in Nat, NEW b \in Nat
  PROVE  Min({a, b}) = IF a <= b THEN a ELSE b
  BY DEF Min

LEMMA GreatestOf ==
  ASSUME NEW n \in Nat, NEW S \in SUBSET (1 .. n), S # {}
  PROVE  Max(S) \in S /\ \A k \in S : k <= Max(S)
<1> DEFINE Left == {n - k : k \in S}
<1>0. \A k \in S : k \in Nat /\ k <= n /\ n - k \in Nat
  OBVIOUS
<1>1. Left \in SUBSET Nat /\ Left # {}
  BY <1>0
<1>2. PICK m \in Left : \A l \in Left : m <= l
  BY <1>1, LeastOf
<1>3. PICK top \in S : m = n - top
  BY <1>2
<1>4. \A k \in S : k <= top
  <2> SUFFICES ASSUME NEW k \in S PROVE k <= top
    OBVIOUS
  <2>1. n - k \in Left
    OBVIOUS
  <2> HIDE DEF Left
  <2>2. n - top <= n - k
    BY <1>2, <1>3, <2>1
  <2> QED
    BY <1>0, <1>3, <2>2
<1>5. \E x \in S : \A y \in S : x >= y
  BY <1>0, <1>4
<1>6. Max(S) \in S /\ \A y \in S : Max(S) >= y
  BY <1>5 DEF Max
<1> QED
  BY <1>0, <1>6

LEMMA SameInterval ==
  ASSUME NEW a \in Nat, NEW b \in Nat, 1 .. a = 1 .. b
  PROVE  a = b
<1>1. \A k \in Nat : 1 <= k /\ k <= a <=> 1 <= k /\ k <= b
  OBVIOUS
<1> QED
  BY <1>1

(* How far an image is from another of at least its length.                *)
LEMMA DistanceToLonger ==
  ASSUME NEW r \in Seq(Nat), NEW m \in Seq(Nat), NEW shared, shared = 1 .. Len(r),
         Len(r) <= Len(m)
  PROVE  LET near == {i \in shared : r[i] # m[i]}
             far  == {i \in 1 .. Len(m) : ~(i \in shared /\ r[i] = m[i])}
         IN /\ Cardinality(near) \in Nat
            /\ Cardinality(far) = Cardinality(near) + (Len(m) - Len(r))
<1> DEFINE near == {i \in shared : r[i] # m[i]}
           beyond == Len(r) + 1 .. Len(m)
           far  == {i \in 1 .. Len(m) : ~(i \in shared /\ r[i] = m[i])}
<1>1. Len(r) \in Nat /\ Len(m) \in Nat
  BY LenProperties
<1>2. IsFiniteSet(near)
  <2>1. 1 \in Int /\ Len(r) \in Int
    BY <1>1
  <2>2. IsFiniteSet(shared)
    BY <2>1, FS_Interval
  <2> QED
    BY <2>2, FS_Subset
<1>3. IsFiniteSet(beyond) /\ Cardinality(beyond) = Len(m) - Len(r)
  <2>1. Len(r) + 1 \in Int /\ Len(m) \in Int
    BY <1>1
  <2>2. /\ IsFiniteSet(beyond)
        /\ Cardinality(beyond) = IF Len(r) + 1 > Len(m) THEN 0 ELSE Len(m) - (Len(r) + 1) + 1
    BY <2>1, FS_Interval
  <2> QED
    BY <1>1, <2>2
<1>4. near \intersect beyond = {}
  BY <1>1
<1>5. far = near \union beyond
  BY <1>1
<1>6. Cardinality({}) = 0
  BY FS_EmptySet
<1> HIDE DEF near, beyond, far
<1>7. /\ Cardinality(near) \in Nat /\ Cardinality(beyond) \in Nat
      /\ Cardinality(far) = Cardinality(near) + Cardinality(beyond)
                            - Cardinality(near \intersect beyond)
  BY <1>2, <1>3, <1>5, FS_Union, FS_CardinalityType
<1>8. /\ Cardinality(near) \in Nat
      /\ Cardinality(far) = Cardinality(near) + (Len(m) - Len(r))
  <2>1. Cardinality(near \intersect beyond) = 0
    BY <1>4, <1>6
  <2> QED
    BY <1>1, <1>3, <1>7, <2>1
<1> QED
  BY <1>8 DEF near, far

(* Differing bytes and surplus add up to the distance, whichever is longer.*)
LEMMA DistanceIs ==
  ASSUME NEW r \in Seq(Nat), NEW m \in Seq(Nat)
  PROVE  LET shared == 1 .. Min({Len(r), Len(m)})
         IN Cardinality({i \in shared : r[i] # m[i]}) + Apart(Len(r), Len(m)) = Distance(r, m)
<1> DEFINE shared == 1 .. Min({Len(r), Len(m)})
           near == {i \in shared : r[i] # m[i]}
<1>1. /\ Len(r) \in Nat /\ Len(m) \in Nat
      /\ DOMAIN r = 1 .. Len(r) /\ DOMAIN m = 1 .. Len(m)
  BY LenProperties
<1>2. CASE Len(r) <= Len(m)
  <2>1. shared = 1 .. Len(r)
    BY <1>1, <1>2, MinOfTwo
  <2> DEFINE far == {i \in 1 .. Len(m) : ~(i \in shared /\ r[i] = m[i])}
  <2>2. Cardinality(near) \in Nat /\ Cardinality(far) = Cardinality(near) + (Len(m) - Len(r))
    BY <1>2, <2>1, DistanceToLonger
  <2>3. far = {i \in DOMAIN r \union DOMAIN m : ~(i \in DOMAIN r /\ i \in DOMAIN m /\ r[i] = m[i])}
    <3>1. DOMAIN r \union DOMAIN m = 1 .. Len(m) /\ DOMAIN m = 1 .. Len(m)
      BY <1>1, <1>2
    <3>2. \A i \in 1 .. Len(m) : i \in shared <=> i \in DOMAIN r
      BY <1>1, <2>1
    <3> HIDE DEF shared
    <3> QED
      BY <3>1, <3>2
  <2>4. Apart(Len(r), Len(m)) = Len(m) - Len(r)
    BY <1>1, <1>2 DEF Apart
  <2> HIDE DEF far, near
  <2>5. Cardinality(far) = Distance(r, m)
    BY <2>3 DEF Distance
  <2> QED
    BY <2>2, <2>4, <2>5 DEF near
<1>3. CASE Len(m) < Len(r)
  <2>1. shared = 1 .. Len(m)
    <3>1. Min({Len(r), Len(m)}) = IF Len(r) <= Len(m) THEN Len(r) ELSE Len(m)
      BY <1>1, MinOfTwo
    <3>2. Min({Len(r), Len(m)}) = Len(m)
      BY <1>1, <1>3, <3>1
    <3> QED
      BY <3>2
  <2> DEFINE far == {i \in 1 .. Len(r) : ~(i \in shared /\ m[i] = r[i])}
             back == {i \in shared : m[i] # r[i]}
  <2>2. Cardinality(back) \in Nat /\ Cardinality(far) = Cardinality(back) + (Len(r) - Len(m))
    <3>1. Len(m) <= Len(r)
      BY <1>1, <1>3
    <3> HIDE DEF shared
    <3> QED
      BY <2>1, <3>1, DistanceToLonger
  <2>3. far = {i \in DOMAIN r \union DOMAIN m : ~(i \in DOMAIN r /\ i \in DOMAIN m /\ r[i] = m[i])}
    <3>1. DOMAIN r \union DOMAIN m = 1 .. Len(r) /\ DOMAIN r = 1 .. Len(r)
      BY <1>1, <1>3
    <3>2. \A i \in 1 .. Len(r) : i \in shared <=> i \in DOMAIN m
      BY <1>1, <2>1
    <3> HIDE DEF shared
    <3> QED
      BY <3>1, <3>2
  <2>4. Apart(Len(r), Len(m)) = Len(r) - Len(m)
    BY <1>1, <1>3 DEF Apart
  <2>5. back = near
    OBVIOUS
  <2> HIDE DEF far, near, back
  <2>6. Cardinality(far) = Distance(r, m)
    BY <2>3 DEF Distance
  <2> QED
    BY <2>2, <2>4, <2>5, <2>6 DEF near
<1> QED
  BY <1>1, <1>2, <1>3

(* Images are as far apart as no byte exactly when they are the same.      *)
LEMMA DistanceOfSame ==
  ASSUME NEW r \in Seq(Nat), NEW m \in Seq(Nat)
  PROVE  Distance(r, m) = 0 <=> r = m
<1> DEFINE far == {i \in DOMAIN r \union DOMAIN m :
                     ~(i \in DOMAIN r /\ i \in DOMAIN m /\ r[i] = m[i])}
<1>1. /\ Len(r) \in Nat /\ Len(m) \in Nat
      /\ DOMAIN r = 1 .. Len(r) /\ DOMAIN m = 1 .. Len(m)
  BY LenProperties
<1>2. IsFiniteSet(far)
  <2>1. 1 \in Int /\ Len(r) \in Int /\ Len(m) \in Int
    BY <1>1
  <2>2. IsFiniteSet(DOMAIN r) /\ IsFiniteSet(DOMAIN m)
    BY <1>1, <2>1, FS_Interval
  <2>3. IsFiniteSet(DOMAIN r \union DOMAIN m)
    BY <2>2, FS_Union
  <2> QED
    BY <2>3, FS_Subset
<1>3. far = {} <=> r = m
  <2>1. r = m => far = {}
    OBVIOUS
  <2>2. ASSUME far = {} PROVE r = m
    <3>1. DOMAIN r = DOMAIN m /\ \A i \in DOMAIN r : r[i] = m[i]
      BY <2>2
    <3>2. Len(r) = Len(m)
      <4>1. 1 .. Len(r) = 1 .. Len(m)
        BY <1>1, <3>1
      <4> QED
        BY <1>1, <4>1, SameInterval
    <3> QED
      BY <1>1, <3>1, <3>2, SeqEqual
  <2> QED
    BY <2>1, <2>2
<1>4. Distance(r, m) = Cardinality(far)
  BY DEF Distance
<1> HIDE DEF far
<1> QED
  BY <1>2, <1>3, <1>4, CountOf

(* What is on record of a project is its outcome exactly when the claim of *)
(* a green check holds of it.                                              *)
LEMMA OutcomeIs ==
  ASSUME NEW r, NEW m, ImageOrNone(r), ImageOrNone(m), NEW columns
  PROVE  Outcome(r, m) = Recorded(columns) <=> AsRecorded(r, m, Recorded(columns))
<1> DEFINE said == Recorded(columns)
<1>1. CASE r = None
  BY <1>1 DEF Outcome, AsRecorded
<1>3. CASE r # None /\ m = None
  BY <1>3 DEF Outcome, AsRecorded
<1>2. CASE r # None /\ m # None
  <2>1. r \in Seq(Nat) /\ m \in Seq(Nat)
    BY <1>2 DEF ImageOrNone
  <2>2. Outcome(r, m) =
          IF r = m THEN <<"identical", 0, Len(m)>> ELSE <<"differ", Distance(r, m), Len(m)>>
    BY <1>2, <2>1, DistanceIs DEF Outcome
  <2>3. Distance(r, m) = 0 <=> r = m
    BY <2>1, DistanceOfSame
  <2>4. Outcome(r, m) = <<IF Distance(r, m) = 0 THEN "identical" ELSE "differ",
                          Distance(r, m), Len(m)>>
    BY <2>2, <2>3
  <2>5. AsRecorded(r, m, said) <=>
          /\ said[1] = IF said[2] = 0 THEN "identical" ELSE "differ"
          /\ said[2] = Distance(r, m)
          /\ said[3] = Len(m)
    BY <1>2 DEF AsRecorded
  <2>6. said = <<said[1], said[2], said[3]>>
    BY DEF Recorded
  <2> HIDE DEF said
  <2> QED
    BY <2>4, <2>5, <2>6 DEF said
<1> QED
  BY <1>1, <1>2, <1>3

LEMMA RomDiffExact ==
  ASSUME NEW w \in Given("romdiff")
  PROVE  /\ RomDiffVerdict(w) = "PASS" => RomDiffRight(w)
         /\ RomDiffVerdict(w) = "FAIL" => ~RomDiffRight(w)
<1> DEFINE file == w.file
           outcome == [p \in w.projects |-> Outcome(w.reference[p], w.produced[p])]
           named == {file[k].project : k \in DOMAIN file}
           Lines(p) == {k \in DOMAIN file : file[k].project = p}
           line == [p \in named |-> Max(Lines(p))]
           expect == [p \in named |-> Recorded(file[line[p]].columns)]
           Short == \E k \in DOMAIN file : Len(file[k].columns) < 3
           Stated(k) == AsRecorded(w.reference[file[k].project], w.produced[file[k].project],
                                   Recorded(file[k].columns))
<1>0. RomDiffCase(w)
  BY RomDiffAssumption
<1>1. CASE w.projects = {}
  BY <1>1 DEF RomDiffVerdict
<1>2. CASE w.projects # {} /\ file = None
  BY <1>2 DEF RomDiffVerdict, RomDiffRight
<1>3. CASE w.projects # {} /\ file # None
  <2>1. IsList(file) /\ \A k \in DOMAIN file : IsList(file[k].columns)
    BY <1>0, <1>3 DEF RomDiffCase
  <2>2. RomDiffRight(w) <=>
          /\ w.projects = named
          /\ ~Short
          /\ \A k \in DOMAIN file :
               (\A j \in k + 1 .. Len(file) : file[j].project # file[k].project) => Stated(k)
    BY <1>3, <2>1 DEF RomDiffRight, IsList
  <2>3. CASE Short
    BY <1>3, <2>2, <2>3 DEF RomDiffVerdict
  <2>4. CASE ~Short
    <3>1. RomDiffVerdict(w) = Judge(Cardinality(Moved(outcome, expect)))
      BY <1>3, <2>4 DEF RomDiffVerdict
    <3>2. IsFiniteSet(Moved(outcome, expect))
      <4>1. IsFiniteSet(DOMAIN file) /\ IsFiniteSet(w.projects)
        BY <1>0, <2>1, ListIsFinite DEF RomDiffCase
      <4>2. IsFiniteSet(named)
        <5> DEFINE of == [k \in DOMAIN file |-> file[k].project]
        <5>1. of \in Surjection(DOMAIN file, named)
          BY DEF Surjection
        <5> QED
          BY <4>1, <5>1, FS_Surjection
      <4>3. IsFiniteSet(w.projects \union named)
        BY <4>1, <4>2, FS_Union
      <4>4. Moved(outcome, expect) \subseteq w.projects \union named
        BY DEF Moved
      <4> QED
        BY <4>3, <4>4, FS_Subset
    <3>3. ASSUME NEW p \in named
          PROVE  /\ line[p] \in DOMAIN file /\ file[line[p]].project = p
                 /\ \A k \in DOMAIN file : file[k].project = p => k <= line[p]
      <4>1. Lines(p) \in SUBSET (1 .. Len(file)) /\ Lines(p) # {} /\ Len(file) \in Nat
        BY <2>1 DEF IsList
      <4>2. Max(Lines(p)) \in Lines(p) /\ \A k \in Lines(p) : k <= Max(Lines(p))
        BY <4>1, GreatestOf
      <4> QED
        BY <4>2
    <3> HIDE DEF line
    <3>4. ASSUME NEW k \in DOMAIN file
          PROVE  (\A j \in k + 1 .. Len(file) : file[j].project # file[k].project)
                 <=> k = line[file[k].project]
      <4> DEFINE p == file[k].project
      <4>1. p \in named
        OBVIOUS
      <4>2. /\ line[p] \in 1 .. Len(file) /\ file[line[p]].project = p
            /\ \A j \in 1 .. Len(file) : file[j].project = p => j <= line[p]
            /\ k \in 1 .. Len(file) /\ Len(file) \in Nat
        BY <2>1, <3>3, <4>1 DEF IsList
      <4> QED
        BY <4>2
    <3>5. (\A k \in DOMAIN file :
             (\A j \in k + 1 .. Len(file) : file[j].project # file[k].project) => Stated(k))
          <=> \A p \in named : Stated(line[p])
      BY <3>3, <3>4
    <3>6. Moved(outcome, expect) = {} <=>
            /\ w.projects = named
            /\ \A p \in named : outcome[p] = expect[p]
      BY DEF Moved
    <3>7. w.projects = named =>
            \A p \in named : outcome[p] = expect[p] <=> Stated(line[p])
      <4> SUFFICES ASSUME w.projects = named, NEW p \in named
                   PROVE  outcome[p] = expect[p] <=> Stated(line[p])
        OBVIOUS
      <4>1. ImageOrNone(w.reference[p]) /\ ImageOrNone(w.produced[p])
        BY <1>0 DEF RomDiffCase
      <4>2. file[line[p]].project = p
        BY <3>3
      <4> QED
        BY <4>1, <4>2, OutcomeIs
    <3>8. RomDiffRight(w) <=> Moved(outcome, expect) = {}
      <4> HIDE DEF named, outcome, expect, Short, Stated
      <4> QED
        BY <2>2, <2>4, <3>5, <3>6, <3>7
    <3> QED
      BY <3>1, <3>2, <3>8, JudgeOf
  <2> QED
    BY <2>3, <2>4
<1> QED
  BY <1>1, <1>2, <1>3

(* hexoracle.py.  When it passes, no project disagrees.                    *)
LEMMA OracleAgrees ==
  ASSUME NEW w \in Given("hexoracle"), OracleVerdict(w) = "PASS"
  PROVE  /\ w.projects # {}
         /\ \A p \in w.projects : /\ AgreesWithOracle(w.hex[p], w.rom[p], w.expect[p])
                                  /\ ReadIhex(w.hex[p]) # None
<1> DEFINE Bad == {p \in w.projects : ~AgreesWithOracle(w.hex[p], w.rom[p], w.expect[p])}
<1>1. OracleCase(w)
  BY OracleAssumption
<1>2. /\ w.projects # {} /\ Judge(Cardinality(Bad)) = "PASS"
      /\ ~\E p \in w.projects : w.hex[p] # None /\ w.rom[p] # None /\ ReadIhex(w.hex[p]) = None
  BY DEF OracleVerdict
<1>3. IsFiniteSet(Bad)
  BY <1>1, FS_Subset DEF OracleCase
<1> HIDE DEF Bad
<1>4. Bad = {}
  BY <1>2, <1>3, JudgeOf
<1>5. \A p \in w.projects : AgreesWithOracle(w.hex[p], w.rom[p], w.expect[p])
  BY <1>4 DEF Bad
<1> QED
  BY <1>2, <1>5 DEF AgreesWithOracle

(* Then each ROM is of the size that EXPECT gives it, and its bytes are    *)
(* counted as those of the ROM that the counts were recorded from.         *)
LEMMA OracleExact ==
  ASSUME NEW w \in Given("hexoracle"), OracleVerdict(w) = "PASS"
  PROVE  OracleRight(w)
<1>1. OracleCase(w)
  BY OracleAssumption
<1>2. w.projects # {}
  BY OracleAgrees
<1> SUFFICES ASSUME NEW p \in w.projects
             PROVE  /\ w.hex[p] # None /\ w.rom[p] # None
                    /\ Len(w.rom[p]) = w.expect[p].oracle + w.expect[p].delta
  BY <1>2 DEF OracleRight
<1>5. AgreesWithOracle(w.hex[p], w.rom[p], w.expect[p])
  BY OracleAgrees
<1>6. /\ w.hex[p] # None /\ w.rom[p] # None
      /\ Len(ReadIhex(w.hex[p])) = w.expect[p].oracle
      /\ Len(w.rom[p]) - Len(ReadIhex(w.hex[p])) = w.expect[p].delta
  BY <1>5 DEF AgreesWithOracle
<1>7. w.rom[p] \in Seq(Nat) /\ w.expect[p].oracle \in Nat /\ w.expect[p].delta \in Int
  BY <1>1, <1>6 DEF OracleCase, ImageOrNone
<1>8. Len(w.rom[p]) \in Nat
  BY <1>7, LenProperties
<1> QED
  BY <1>6, <1>7, <1>8

(* The walk of classify, from each place in the two images.                *)
Steps(n) == [at : 1 .. n, class : CLASSES]

(* How many steps of a walk are addr16.                                    *)
Addr16s(steps) == Cardinality({k \in DOMAIN steps : steps[k].class = "addr16"})

LEMMA ClassIs ==
  ASSUME NEW oracle, NEW produced, NEW i
  PROVE  /\ ClassOf(oracle, produced, i) \in CLASSES
         /\ Width(ClassOf(oracle, produced, i)) \in {1, 2}
         /\ Width(ClassOf(oracle, produced, i)) = 2 => i < Min({Len(oracle), Len(produced)})
<1>1. ClassOf(oracle, produced, i) \in CLASSES
  BY DEF ClassOf, CLASSES
<1>2. Width(ClassOf(oracle, produced, i)) \in {1, 2}
  BY DEF Width
<1>3. ~(i < Min({Len(oracle), Len(produced)})) => ClassOf(oracle, produced, i) \in {"zero8", "residual"}
  BY DEF ClassOf
<1> QED
  BY <1>1, <1>2, <1>3 DEF Width

(* The walks from each place, of whatever images.                          *)
IsWalk(oracle, produced, n, walk) ==
  /\ walk \in [1 .. n + 2 -> Seq(Steps(n))]
  /\ \A i \in 1 .. n + 2 : i > n => walk[i] = <<>>
  /\ \A i \in 1 .. n : oracle[i] = produced[i] => walk[i] = walk[i + 1]
  /\ \A i \in 1 .. n : oracle[i] # produced[i] =>
       walk[i] = <<[at |-> i, class |-> ClassOf(oracle, produced, i)]>>
                   \o walk[i + Width(ClassOf(oracle, produced, i))]

LEMMA WalksAre ==
  ASSUME NEW oracle, NEW produced, NEW n \in Nat, n = Min({Len(oracle), Len(produced)})
  PROVE  IsWalk(oracle, produced, n, Walks(oracle, produced))
<1> DEFINE D == 1 .. n + 2
           V == Seq(Steps(n))
           Class(i) == ClassOf(oracle, produced, i)
           Wide(i) == Width(Class(i))
           First(i) == [at |-> i, class |-> Class(i)]
           Alike(i) == oracle[i] = produced[i]
           Next1(f, i) == IF i > n THEN <<>>
                          ELSE IF Alike(i) THEN f[i + 1]
                          ELSE <<First(i)>> \o f[i + Wide(i)]
           F == [f \in [D -> V] |-> [i \in D |-> Next1(f, i)]]
           m == [i \in D |-> n + 2 - i]
           some == [i \in D |-> <<>>]
           walk == Walks(oracle, produced)
<1>1. \A i \in 1 .. n : First(i) \in Steps(n)
  BY ClassIs DEF Steps
<1>2. \A i \in 1 .. n : i + 1 \in D /\ i + Wide(i) \in D /\ i + Wide(i) > i
  <2> TAKE i \in 1 .. n
  <2>1. Wide(i) = 1 \/ Wide(i) = 2
    BY ClassIs
  <2> HIDE DEF Wide
  <2> QED
    BY <2>1
<1>3. \A i \in D : i > n \/ i \in 1 .. n
  OBVIOUS
<1>4. \A i \in 1 .. n : ~(i > n)
  OBVIOUS
<1> HIDE DEF First, Wide, Alike
<1>5. ASSUME NEW f, NEW i \in D, \A j \in D : j > i => f[j] \in V PROVE Next1(f, i) \in V
  <2>1. CASE i > n
    BY <2>1
  <2>2. CASE i \in 1 .. n
    <3>0. i + 1 > i
      OBVIOUS
    <3> HIDE DEF D
    <3>1. i + 1 \in D /\ i + 1 > i /\ i + Wide(i) \in D /\ i + Wide(i) > i /\ First(i) \in Steps(n)
      BY <1>1, <1>2, <2>2, <3>0
    <3>2. f[i + 1] \in Seq(Steps(n)) /\ f[i + Wide(i)] \in Seq(Steps(n))
      BY <1>5, <3>1
    <3>3. <<First(i)>> \in Seq(Steps(n))
      BY <3>1
    <3>4. <<First(i)>> \o f[i + Wide(i)] \in Seq(Steps(n))
      BY <3>2, <3>3, ConcatProperties
    <3> QED
      BY <1>4, <2>2, <3>2, <3>4
  <2> QED
    BY <1>3, <2>1, <2>2
<1>6. F \in [[D -> V] -> [D -> V]]
  <2>1. ASSUME NEW f \in [D -> V], NEW i \in D PROVE Next1(f, i) \in V
    <3>1. \A j \in D : j > i => f[j] \in V
      OBVIOUS
    <3> HIDE DEF V, D, Next1
    <3> QED
      BY <1>5, <3>1
  <2> HIDE DEF V, D, Next1
  <2> QED
    BY <2>1
<1>7. ASSUME NEW f \in [D -> V], NEW g \in [D -> V], NEW d \in D,
             \A e \in D : m[e] < m[d] => f[e] = g[e]
      PROVE  F[f][d] = F[g][d]
  <2>1. ASSUME d \in 1 .. n PROVE f[d + 1] = g[d + 1] /\ f[d + Wide(d)] = g[d + Wide(d)]
    <3>1. d + 1 \in D /\ d + Wide(d) \in D /\ d + Wide(d) > d
      BY <1>2, <2>1
    <3>2. \A e \in D : e > d => m[e] < m[d]
      OBVIOUS
    <3>3. d + 1 > d
      OBVIOUS
    <3> HIDE DEF m, D, V
    <3> QED
      BY <1>7, <3>1, <3>2, <3>3
  <2>2. Next1(f, d) = Next1(g, d)
    BY <1>3, <2>1
  <2>3. F[f][d] = Next1(f, d) /\ F[g][d] = Next1(g, d)
    BY DEF F
  <2> QED
    BY <2>2, <2>3
<1>8. m \in [D -> 0 .. n + 2] /\ some \in [D -> V] /\ n + 2 \in Nat
  OBVIOUS
<1>9. LooksLower(F, D, V, m, n + 2)
  <2> HIDE DEF F, m, D, V
  <2> QED
    BY <1>6, <1>7, <1>8 DEF LooksLower
<1>10. \E f \in [D -> V] : F[f] = f
  <2> HIDE DEF D, F, m, V
  <2> QED
    BY <1>9, Recursion
<1>11. PICK f \in [D -> V] : f = [i \in D |-> Next1(f, i)]
  BY <1>10
<1>12. walk = [i \in D |-> Next1(walk, i)]
  BY <1>11 DEF Walks, Alike, First, Wide
<1> HIDE DEF walk
<1>13. \A i \in D : walk[i] = Next1(walk, i)
  BY <1>12
<1>14. \A i \in D : walk[i] \in V
  <2> DEFINE S == {h \in 0 .. n + 1 : walk[n + 2 - h] \in V}
  <2>1. ASSUME NEW h \in 0 .. n + 1, \A k \in 0 .. h - 1 : k \in S PROVE h \in S
    <3> DEFINE i == n + 2 - h
    <3>1. i \in D
      OBVIOUS
    <3>2. \A j \in D : j > i => walk[j] \in V
      <4> SUFFICES ASSUME NEW j \in D, j > i PROVE walk[j] \in V
        OBVIOUS
      <4>1. n + 2 - j \in 0 .. h - 1 /\ n + 2 - (n + 2 - j) = j
        OBVIOUS
      <4>2. walk[n + 2 - (n + 2 - j)] \in V
        BY <2>1, <4>1
      <4> HIDE DEF V
      <4> QED
        BY <4>1, <4>2
    <3>3. Next1(walk, i) \in V
      <4> HIDE DEF V, D, Next1, i
      <4> QED
        BY <1>5, <3>1, <3>2
    <3> HIDE DEF Next1, V
    <3> QED
      BY <1>13, <3>1, <3>3
  <2>2. \A h \in 0 .. n + 1 : h \in S
    <3>1. n + 1 \in Nat
      OBVIOUS
    <3> HIDE DEF S
    <3> QED
      BY <2>1, <3>1, AllFollow
  <2> TAKE i \in D
  <2>3. n + 2 - i \in 0 .. n + 1 /\ n + 2 - (n + 2 - i) = i
    OBVIOUS
  <2>4. n + 2 - i \in S
    BY <2>2, <2>3
  <2> HIDE DEF V
  <2> QED
    BY <2>3, <2>4
<1>15. walk \in [D -> V]
  <2> HIDE DEF V, D, Next1
  <2> QED
    BY <1>12, <1>14
<1>16. \A i \in 1 .. n + 2 : i > n => walk[i] = <<>>
  BY <1>13
<1>17. \A i \in 1 .. n : /\ Alike(i) => walk[i] = walk[i + 1]
                         /\ ~Alike(i) => walk[i] = <<First(i)>> \o walk[i + Wide(i)]
  <2> TAKE i \in 1 .. n
  <2>1. i \in D
    OBVIOUS
  <2> HIDE DEF D
  <2> QED
    BY <1>4, <1>13, <2>1
<1>18. \A i \in 1 .. n :
         /\ oracle[i] = produced[i] => walk[i] = walk[i + 1]
         /\ oracle[i] # produced[i] =>
              walk[i] = <<[at |-> i, class |-> Class(i)]>> \o walk[i + Wide(i)]
  BY <1>17, Zenon DEF Alike, First
<1> QED
  BY <1>15, <1>16, <1>18 DEF Wide, IsWalk, walk

LEMMA Addr16sGrow ==
  ASSUME NEW n \in Nat, NEW e \in Steps(n), NEW s \in Seq(Steps(n))
  PROVE  /\ Addr16s(s) \in Nat
         /\ Addr16s(<<e>> \o s) = Addr16s(s) + (IF e.class = "addr16" THEN 1 ELSE 0)
<1> DEFINE t == <<e>> \o s
           A == {k \in DOMAIN s : s[k].class = "addr16"}
           B == {k \in DOMAIN t : t[k].class = "addr16"}
           C == {k + 1 : k \in A}
<1>1. /\ Len(s) \in Nat /\ DOMAIN s = 1 .. Len(s) /\ DOMAIN t = 1 .. Len(s) + 1
      /\ t[1] = e /\ \A k \in DOMAIN s : t[k + 1] = s[k]
  OBVIOUS
<1>2. IsFiniteSet(A)
  <2>1. A \in SUBSET (1 .. Len(s)) /\ IsFiniteSet(1 .. Len(s))
    BY <1>1, FS_Interval
  <2> HIDE DEF A
  <2> QED
    BY <2>1, FS_Subset
<1>3. B = (IF e.class = "addr16" THEN {1} ELSE {}) \union C
  <2> HIDE DEF t
  <2>1. ASSUME NEW k \in B PROVE k \in (IF e.class = "addr16" THEN {1} ELSE {}) \union C
    <3>1. CASE k = 1
      BY <1>1, <2>1, <3>1
    <3>2. CASE k # 1
      <4>1. k - 1 \in DOMAIN s /\ (k - 1) + 1 = k
        BY <1>1, <2>1, <3>2
      <4>2. k - 1 \in A
        BY <1>1, <2>1, <4>1
      <4> QED
        BY <4>1, <4>2
    <3> QED
      BY <3>1, <3>2
  <2>2. ASSUME NEW k \in C PROVE k \in B
    <3>1. PICK j \in A : k = j + 1
      OBVIOUS
    <3>2. j + 1 \in DOMAIN t
      BY <1>1
    <3> QED
      BY <1>1, <3>1, <3>2
  <2>3. e.class = "addr16" => 1 \in B
    BY <1>1
  <2> QED
    BY <2>1, <2>2, <2>3
<1>4. IsFiniteSet(C) /\ Cardinality(C) = Cardinality(A)
  <2> DEFINE f == [k \in A |-> k + 1]
  <2>1. f \in Bijection(A, C)
    <3>1. \A k \in A : k \in Nat
      BY <1>1
    <3> HIDE DEF A
    <3> QED
      BY <3>1 DEF Bijection, Injection, Surjection, IsInjective
  <2> HIDE DEF A, C, f
  <2> QED
    BY <1>2, <2>1, FS_Bijection DEF ExistsBijection
<1>5. 1 \notin C
  BY <1>1
<1>6. Cardinality(A) \in Nat
  BY <1>2, FS_CardinalityType
<1> HIDE DEF A, B, C, t
<1>7. Cardinality(B) = Cardinality(A) + (IF e.class = "addr16" THEN 1 ELSE 0)
  <2>1. CASE e.class = "addr16"
    <3>1. B = C \union {1}
      BY <1>3, <2>1
    <3>2. Cardinality(C \union {1}) = Cardinality(C) + 1
      BY <1>4, <1>5, FS_AddElement
    <3> QED
      BY <1>4, <2>1, <3>1, <3>2
  <2>2. CASE e.class # "addr16"
    BY <1>3, <1>4, <1>6, <2>2
  <2> QED
    BY <2>1, <2>2
<1> QED
  BY <1>6, <1>7 DEF Addr16s, A, B, t

(* A step of a walk is at a place where the images differ, not before the  *)
(* walk began, and is of the class of that place.                          *)
StepMeans(oracle, produced, n, j, step) ==
  /\ step.at \in j .. n /\ step.class = ClassOf(oracle, produced, step.at)
  /\ oracle[step.at] # produced[step.at]

LEMMA StepsMean ==
  ASSUME NEW oracle, NEW produced, NEW n \in Nat, n = Min({Len(oracle), Len(produced)}),
         NEW walk, IsWalk(oracle, produced, n, walk)
  PROVE  \A j \in 1 .. n + 2 : \A step \in Elements(walk[j]) : StepMeans(oracle, produced, n, j, step)
<1> DEFINE Mean(j, step) == StepMeans(oracle, produced, n, j, step)
           Ok(j) == \A step \in Elements(walk[j]) : Mean(j, step)
           S == {h \in 0 .. n + 1 : Ok(n + 2 - h)}
<1>0. /\ walk \in [1 .. n + 2 -> Seq(Steps(n))]
      /\ \A i \in 1 .. n + 2 : i > n => walk[i] = <<>>
      /\ \A i \in 1 .. n : oracle[i] = produced[i] => walk[i] = walk[i + 1]
      /\ \A i \in 1 .. n : oracle[i] # produced[i] =>
           walk[i] = <<[at |-> i, class |-> ClassOf(oracle, produced, i)]>>
                       \o walk[i + Width(ClassOf(oracle, produced, i))]
  BY DEF IsWalk
<1>1. ASSUME NEW h \in 0 .. n + 1, \A k \in 0 .. h - 1 : k \in S PROVE h \in S
  <2> DEFINE i == n + 2 - h
  <2>1. i \in 1 .. n + 2 /\ (i > n \/ i \in 1 .. n)
    OBVIOUS
  <2>2. ASSUME NEW j \in i + 1 .. n + 2 PROVE Ok(j)
    <3>1. n + 2 - j \in 0 .. h - 1 /\ n + 2 - (n + 2 - j) = j
      OBVIOUS
    <3>2. Ok(n + 2 - (n + 2 - j))
      BY <1>1, <3>1
    <3> HIDE DEF Ok
    <3> QED
      BY <3>1, <3>2
  <2>3. ASSUME NEW j \in i + 1 .. n + 2, NEW step \in Elements(walk[j]) PROVE Mean(i, step)
    <3>1. Mean(j, step)
      BY <2>2, <2>3
    <3> QED
      BY <2>1, <3>1 DEF StepMeans
  <2> HIDE DEF i
  <2>4. CASE i > n
    <3>0. walk[i] = <<>>
      BY <1>0, <2>1, <2>4
    <3>1. Elements(walk[i]) = {}
      BY <3>0 DEF Elements
    <3>2. Ok(i)
      BY <3>1
    <3> HIDE DEF Ok
    <3> QED
      BY <3>2 DEF i
  <2>5. CASE i \in 1 .. n /\ oracle[i] = produced[i]
    <3>0. i + 1 \in i + 1 .. n + 2
      BY <2>5
    <3>1. walk[i] = walk[i + 1] /\ i + 1 \in i + 1 .. n + 2
      BY <1>0, <2>5, <3>0
    <3> HIDE DEF Mean
    <3>2. Ok(i)
      BY <2>3, <3>1
    <3> HIDE DEF Ok
    <3> QED
      BY <3>2 DEF i
  <2>6. CASE i \in 1 .. n /\ oracle[i] # produced[i]
    <3> DEFINE class == ClassOf(oracle, produced, i)
               to == i + Width(class)
               first == [at |-> i, class |-> class]
    <3>1. walk[i] = <<first>> \o walk[to]
      BY <1>0, <2>6
    <3>2. to \in i + 1 .. n + 2
      BY <2>6, ClassIs
    <3>3. walk[to] \in Seq(Steps(n))
      <4>1. to \in 1 .. n + 2
        BY <2>6, <3>2
      <4> HIDE DEF to
      <4> QED
        BY <1>0, <4>1
    <3>4. Mean(i, first)
      BY <2>6 DEF StepMeans
    <3> HIDE DEF to, first
    <3>5. \A step \in Elements(walk[i]) : step = first \/ step \in Elements(walk[to])
      BY <3>1, <3>3 DEF Elements
    <3> HIDE DEF Mean
    <3>6. Ok(i)
      BY <2>3, <3>2, <3>4, <3>5
    <3> HIDE DEF Ok
    <3> QED
      BY <3>6 DEF i
  <2> QED
    BY <2>1, <2>4, <2>5, <2>6
<1>2. \A h \in 0 .. n + 1 : h \in S
  <2>1. n + 1 \in Nat
    OBVIOUS
  <2> HIDE DEF S
  <2> QED
    BY <1>1, <2>1, AllFollow
<1>3. ASSUME NEW j \in 1 .. n + 2 PROVE Ok(j)
  <2>1. n + 2 - j \in 0 .. n + 1 /\ n + 2 - (n + 2 - j) = j
    OBVIOUS
  <2>2. Ok(n + 2 - (n + 2 - j))
    BY <1>2, <2>1
  <2> HIDE DEF Ok
  <2> QED
    BY <2>1, <2>2
<1> QED
  BY <1>3

(* How many addr16 are in the walk from each place.                        *)
IsCount(oracle, produced, n, count) ==
  /\ count \in [1 .. n + 2 -> Nat]
  /\ \A i \in 1 .. n + 2 : i > n => count[i] = 0
  /\ \A i \in 1 .. n : oracle[i] = produced[i] => count[i] = count[i + 1]
  /\ \A i \in 1 .. n : oracle[i] # produced[i] =>
       count[i] = count[i + Width(ClassOf(oracle, produced, i))]
                    + (IF ClassOf(oracle, produced, i) = "addr16" THEN 1 ELSE 0)

LEMMA Addr16sOfWalk ==
  ASSUME NEW oracle, NEW produced, NEW n \in Nat, n = Min({Len(oracle), Len(produced)})
  PROVE  IsCount(oracle, produced, n, [i \in 1 .. n + 2 |-> Addr16s(Walks(oracle, produced)[i])])
<1> DEFINE walk == Walks(oracle, produced)
           Class(i) == ClassOf(oracle, produced, i)
           count == [i \in 1 .. n + 2 |-> Addr16s(Walks(oracle, produced)[i])]
<1>0. /\ walk \in [1 .. n + 2 -> Seq(Steps(n))]
      /\ \A i \in 1 .. n + 2 : i > n => walk[i] = <<>>
      /\ \A i \in 1 .. n : oracle[i] = produced[i] => walk[i] = walk[i + 1]
      /\ \A i \in 1 .. n : oracle[i] # produced[i] =>
           walk[i] = <<[at |-> i, class |-> Class(i)]>> \o walk[i + Width(Class(i))]
  <2>1. IsWalk(oracle, produced, n, walk)
    BY WalksAre
  <2> HIDE DEF walk
  <2> QED
    BY <2>1 DEF IsWalk
<1> HIDE DEF walk
<1>1. \A i \in 1 .. n + 2 : count[i] = Addr16s(walk[i])
  BY DEF walk
<1>2. ASSUME NEW i \in 1 .. n + 2 PROVE Addr16s(walk[i]) \in Nat
  <2>1. walk[i] \in Seq(Steps(n))
    BY <1>0
  <2>2. IsFiniteSet({k \in DOMAIN walk[i] : walk[i][k].class = "addr16"})
    <3>1. Len(walk[i]) \in Nat /\ DOMAIN walk[i] = 1 .. Len(walk[i])
      BY <2>1
    <3> DEFINE L == Len(walk[i])
    <3>2. L \in Int
      BY <3>1
    <3> HIDE DEF L
    <3>3. IsFiniteSet(1 .. L)
      BY <3>2, FS_Interval
    <3> QED
      BY <3>1, <3>3, FS_Subset DEF L
  <2> QED
    BY <2>2, FS_CardinalityType DEF Addr16s
<1>3. ASSUME NEW i \in 1 .. n + 2, i > n PROVE count[i] = 0
  <2>1. walk[i] = <<>>
    BY <1>0, <1>3
  <2>2. {k \in DOMAIN walk[i] : walk[i][k].class = "addr16"} = {}
    BY <2>1
  <2>3. Cardinality({}) = 0
    BY FS_EmptySet
  <2> QED
    BY <1>1, <2>2, <2>3 DEF Addr16s
<1>4. ASSUME NEW i \in 1 .. n, oracle[i] = produced[i] PROVE count[i] = count[i + 1]
  <2>1. i \in 1 .. n + 2 /\ i + 1 \in 1 .. n + 2
    OBVIOUS
  <2> QED
    BY <1>0, <1>1, <1>4, <2>1
<1>5. ASSUME NEW i \in 1 .. n, oracle[i] # produced[i]
      PROVE  count[i] = count[i + Width(Class(i))] + (IF Class(i) = "addr16" THEN 1 ELSE 0)
  <2> DEFINE to == i + Width(Class(i))
             first == [at |-> i, class |-> Class(i)]
  <2>1. to \in 1 .. n + 2 /\ i \in 1 .. n + 2
    <3>1. Width(Class(i)) = 1 \/ Width(Class(i)) = 2
      BY ClassIs
    <3> HIDE DEF Class
    <3> QED
      BY <3>1
  <2>2. first \in Steps(n) /\ first.class = Class(i)
    BY ClassIs DEF Steps
  <2>3. walk[i] = <<first>> \o walk[to] /\ walk[to] \in Seq(Steps(n))
    BY <1>0, <1>5, <2>1
  <2> HIDE DEF first, to
  <2>4. Addr16s(walk[i]) = Addr16s(walk[to]) + (IF first.class = "addr16" THEN 1 ELSE 0)
    BY <2>2, <2>3, Addr16sGrow
  <2> HIDE DEF Class
  <2>5. count[i] = count[to] + (IF Class(i) = "addr16" THEN 1 ELSE 0)
    BY <1>1, <2>1, <2>2, <2>4
  <2> QED
    BY <2>5 DEF to
<1>6. count \in [1 .. n + 2 -> Nat]
  BY <1>2 DEF walk
<1> HIDE DEF count
<1>7. IsCount(oracle, produced, n, count)
  BY <1>3, <1>4, <1>5, <1>6 DEF IsCount
<1> QED
  BY <1>7 DEF count

(* Two images of n bytes and more, of which rom has the address at k the   *)
(* other way round, as the walks over them see it.                         *)
Slipped(oracle, right, rom, n, k) ==
  /\ n \in Nat /\ n = Min({Len(oracle), Len(right)}) /\ n = Min({Len(oracle), Len(rom)})
  /\ k \in Nat /\ 1 <= k /\ k < n
  /\ oracle[k] # right[k] /\ ClassOf(oracle, right, k) = "addr16"
  /\ oracle[k] = right[k + 1] /\ oracle[k + 1] = 0
  /\ rom[k] = oracle[k] /\ rom[k + 1] = right[k] /\ right[k + 1] # 0
  /\ k + 2 <= n => rom[k + 2] # 0
  /\ \A i \in 1 .. n : i # k /\ i # k + 1 => rom[i] = right[i]

(* From wherever the walk of one comes to the address, it has one addr16   *)
(* more than the walk of the other.                                        *)
LEMMA OneLess ==
  ASSUME NEW oracle, NEW right, NEW rom, NEW n, NEW k, Slipped(oracle, right, rom, n, k),
         NEW R, IsWalk(oracle, right, n, R), NEW step \in Elements(R[1]), step.at = k,
         NEW right16, IsCount(oracle, right, n, right16),
         NEW rom16, IsCount(oracle, rom, n, rom16)
  PROVE  right16[1] = rom16[1] + 1
<1> DEFINE InRight(i) == ClassOf(oracle, right, i)
           InRom(i) == ClassOf(oracle, rom, i)
<1>2. n \in Nat /\ n = Min({Len(oracle), Len(right)}) /\ n = Min({Len(oracle), Len(rom)})
  BY DEF Slipped
<1>4. /\ k \in 1 .. n /\ k \in Int /\ k < n /\ oracle[k] # right[k]
      /\ InRight(k) = "addr16" /\ oracle[k] = right[k + 1] /\ oracle[k + 1] = 0
  BY DEF Slipped
<1>5. /\ rom[k] = oracle[k] /\ rom[k + 1] = right[k]
      /\ right[k + 1] # 0 /\ (k + 2 <= n => rom[k + 2] # 0)
      /\ \A i \in 1 .. n : i # k /\ i # k + 1 => rom[i] = right[i]
  BY DEF Slipped
<1>6. IsCount(oracle, right, n, right16) /\ IsCount(oracle, rom, n, rom16)
  OBVIOUS
<1>7. \A i \in 1 .. n + 1 : right16[i] \in Nat /\ rom16[i] \in Nat
  <2> TAKE i \in 1 .. n + 1
  <2>1. i \in 1 .. n + 2
    BY <1>2
  <2> QED
    BY <1>6, <2>1 DEF IsCount
<1>8. rom16[k] = rom16[k + 2]
  <2>1. rom16[k] = rom16[k + 1]
    BY <1>4, <1>5, <1>6 DEF IsCount
  <2>2. k + 1 \in 1 .. n /\ (k + 1) + 1 = k + 2
    BY <1>2, <1>4
  <2>3. CASE oracle[k + 1] = rom[k + 1]
    <3>1. rom16[k + 1] = rom16[(k + 1) + 1]
      BY <1>6, <2>2, <2>3 DEF IsCount
    <3> QED
      BY <2>1, <2>2, <3>1
  <2>4. CASE oracle[k + 1] # rom[k + 1]
    <3>1. ~(k + 1 < n /\ oracle[k + 1] = rom[(k + 1) + 1])
      <4>1. k + 1 < n => rom[(k + 1) + 1] # 0
        BY <1>2, <1>5, <2>2
      <4> QED
        BY <1>4, <4>1
    <3>2. InRom(k + 1) = "zero8"
      BY <1>2, <1>4, <3>1 DEF ClassOf, InRom
    <3>3. Width(InRom(k + 1)) = 1
      BY <3>2 DEF Width
    <3>4. rom16[k + 1] = rom16[(k + 1) + Width(InRom(k + 1))] + (IF InRom(k + 1) = "addr16" THEN 1 ELSE 0)
      BY <1>6, <2>2, <2>4 DEF IsCount, InRom
    <3>5. rom16[k + 1] = rom16[(k + 1) + 1] + 0
      BY <3>2, <3>3, <3>4
    <3>6. k + 2 \in 1 .. n + 1
      BY <1>2, <1>4
    <3> QED
      BY <1>7, <2>1, <2>2, <3>5, <3>6
  <2> QED
    BY <2>3, <2>4
<1>9. ASSUME NEW i \in 1 .. n, i + 1 < k \/ i > k + 1 PROVE InRom(i) = InRight(i) /\ rom[i] = right[i]
  <2>1. rom[i] = right[i] /\ (i < n => rom[i + 1] = right[i + 1])
    <3>1. i # k /\ i # k + 1 /\ i + 1 # k /\ i + 1 # k + 1
      BY <1>4, <1>9
    <3>2. i < n => i + 1 \in 1 .. n
      BY <1>2
    <3> QED
      BY <1>5, <3>1, <3>2
  <2> QED
    BY <1>2, <2>1 DEF ClassOf, InRight, InRom
<1> HIDE DEF InRight, InRom
<1>10. ASSUME NEW i \in 1 .. n, oracle[i] # right[i]
       PROVE  right16[i] = right16[i + Width(InRight(i))] + (IF InRight(i) = "addr16" THEN 1 ELSE 0)
  BY <1>6, <1>10 DEF IsCount, InRight
<1>11. ASSUME NEW i \in 1 .. n, oracle[i] # rom[i]
       PROVE  rom16[i] = rom16[i + Width(InRom(i))] + (IF InRom(i) = "addr16" THEN 1 ELSE 0)
  BY <1>6, <1>11 DEF IsCount, InRom
<1>12. ASSUME NEW i \in 1 .. n
       PROVE  /\ oracle[i] = right[i] => right16[i] = right16[i + 1]
              /\ oracle[i] = rom[i] => rom16[i] = rom16[i + 1]
  BY <1>6, <1>12 DEF IsCount
<1>13. ASSUME NEW i \in 1 .. n PROVE Width(InRight(i)) \in {1, 2} /\ Width(InRom(i)) \in {1, 2}
  BY ClassIs DEF InRight, InRom
<1>14. right16[k + 2] = rom16[k + 2]
  <2> DEFINE S == {h \in 0 .. n - k : right16[n + 2 - h] = rom16[n + 2 - h]}
  <2>1. ASSUME NEW h \in 0 .. n - k, \A g \in 0 .. h - 1 : g \in S PROVE h \in S
    <3> DEFINE i == n + 2 - h
    <3>1. i \in 1 .. n + 2 /\ i > k + 1 /\ (i > n \/ i \in 1 .. n)
      BY <1>2, <1>4
    <3>2. ASSUME NEW j \in i + 1 .. n + 2 PROVE right16[j] = rom16[j]
      <4>1. n + 2 - j \in 0 .. h - 1 /\ n + 2 - (n + 2 - j) = j
        BY <1>2
      <4> QED
        BY <2>1, <4>1
    <3> HIDE DEF i
    <3>3. CASE i > n
      BY <1>6, <3>1, <3>3 DEF i, IsCount
    <3>4. CASE i \in 1 .. n
      <4>1. InRom(i) = InRight(i) /\ rom[i] = right[i]
        BY <1>9, <3>1, <3>4
      <4>2. i + 1 \in i + 1 .. n + 2 /\ i + Width(InRight(i)) \in i + 1 .. n + 2
        <5>1. Width(InRight(i)) = 1 \/ Width(InRight(i)) = 2
          BY <1>13, <3>4
        <5> QED
          BY <1>2, <3>4, <5>1
      <4>3. right16[i] = rom16[i]
        <5>1. CASE oracle[i] = right[i]
          BY <1>12, <3>2, <3>4, <4>1, <4>2, <5>1
        <5>2. CASE oracle[i] # right[i]
          BY <1>10, <1>11, <3>2, <3>4, <4>1, <4>2, <5>2
        <5> QED
          BY <5>1, <5>2
      <4> QED
        BY <4>3 DEF i
    <3> QED
      BY <3>1, <3>3, <3>4
  <2>2. \A h \in 0 .. n - k : h \in S
    <3>1. n - k \in Nat
      BY <1>2, <1>4
    <3> HIDE DEF S
    <3> QED
      BY <2>1, <3>1, AllFollow
  <2>3. n - k \in 0 .. n - k /\ n + 2 - (n - k) = k + 2
    BY <1>2, <1>4
  <2> QED
    BY <2>2, <2>3
<1>15. right16[k] = rom16[k] + 1
  <2>1. Width(InRight(k)) = 2
    BY <1>4 DEF Width, InRight
  <2> QED
    BY <1>4, <1>8, <1>10, <1>14, <2>1 DEF InRight
<1>16. ASSUME NEW j \in 1 .. n, oracle[j] # right[j], j # k, step \in Elements(R[j])
       PROVE  step \in Elements(R[j + Width(InRight(j))])
  <2> DEFINE to == j + Width(InRight(j))
             first == [at |-> j, class |-> InRight(j)]
  <2>1. R[j] = <<first>> \o R[to]
    BY <1>16 DEF IsWalk, InRight
  <2>2. to \in 1 .. n + 2
    <3>1. Width(InRight(j)) = 1 \/ Width(InRight(j)) = 2
      BY <1>13
    <3> QED
      BY <1>2, <3>1
  <2> HIDE DEF to
  <2>3. R[to] \in Seq(Steps(n))
    BY <2>2 DEF IsWalk
  <2>4. step # first
    BY <1>16
  <2> HIDE DEF first
  <2>5. step \in Elements(R[to])
    BY <1>16, <2>1, <2>3, <2>4 DEF Elements
  <2> QED
    BY <2>5 DEF to
<1>17. step \notin Elements(R[k + 1])
  <2>1. k + 1 \in 1 .. n + 2 /\ ~(step.at \in k + 1 .. n)
    BY <1>2, <1>4
  <2> QED
    BY <1>2, <2>1, StepsMean DEF StepMeans
<1> DEFINE Less(j) == step \in Elements(R[j]) => right16[j] = rom16[j] + 1
<1>18. ASSUME NEW h \in 0 .. k - 1, \A g \in 0 .. h - 1 : Less(k - g) PROVE Less(k - h)
  <2> DEFINE j == k - h
  <2> SUFFICES ASSUME step \in Elements(R[j]) PROVE right16[j] = rom16[j] + 1
    OBVIOUS
  <2>1. j \in 1 .. n /\ j <= k /\ j \in Int
    BY <1>2, <1>4
  <2>2. ASSUME NEW i \in j + 1 .. k PROVE Less(i)
    <3>1. k - i \in 0 .. h - 1 /\ k - (k - i) = i
      BY <1>4
    <3>2. Less(k - (k - i))
      BY <1>18, <3>1
    <3> HIDE DEF Less
    <3> QED
      BY <3>1, <3>2
  <2> HIDE DEF j
  <2>3. j = k \/ j = k - 1 \/ j + 1 < k
    BY <1>4, <2>1
  <2>4. CASE j = k
    BY <1>15, <2>4
  <2>5. CASE j < k /\ oracle[j] = right[j]
    <3>1. rom[j] = right[j]
      BY <1>5, <1>4, <2>1, <2>5
    <3>2. R[j] = R[j + 1]
      BY <2>1, <2>5 DEF IsWalk
    <3>3. right16[j] = right16[j + 1] /\ rom16[j] = rom16[j + 1]
      BY <1>12, <2>1, <2>5, <3>1
    <3>4. j + 1 \in j + 1 .. k
      BY <1>4, <2>1, <2>5
    <3> QED
      BY <2>2, <3>2, <3>3, <3>4
  <2>6. CASE j + 1 < k /\ oracle[j] # right[j]
    <3>1. InRom(j) = InRight(j) /\ rom[j] = right[j]
      BY <1>9, <2>1, <2>6
    <3> DEFINE to == j + Width(InRight(j))
    <3>2. to \in j + 1 .. k /\ to \in 1 .. n + 1
      <4>1. Width(InRight(j)) = 1 \/ Width(InRight(j)) = 2
        BY <1>13, <2>1
      <4> QED
        BY <1>2, <1>4, <2>1, <2>6, <4>1
    <3>3. step \in Elements(R[to])
      BY <1>4, <1>16, <2>1, <2>6
    <3>4. /\ right16[j] = right16[to] + (IF InRight(j) = "addr16" THEN 1 ELSE 0)
          /\ rom16[j] = rom16[to] + (IF InRight(j) = "addr16" THEN 1 ELSE 0)
      BY <1>10, <1>11, <2>1, <2>6, <3>1
    <3> HIDE DEF to
    <3>5. right16[to] = rom16[to] + 1 /\ rom16[to] \in Nat
      BY <1>7, <2>2, <3>2, <3>3
    <3> QED
      BY <3>4, <3>5
  <2>7. CASE j = k - 1 /\ oracle[j] # right[j]
    <3>0. j + 1 = k /\ j + 2 = k + 1 /\ j < n /\ j # k /\ j # k + 1 /\ k \in 1 .. n + 1 /\ k + 1 \in 1 .. n + 1
      BY <1>2, <1>4, <2>1, <2>7
    <3>1. rom[j] = right[j] /\ j + 1 = k /\ j + 2 = k + 1 /\ j < n
      BY <1>5, <2>1, <3>0
    <3>2. Width(InRight(j)) = 1
      <4>1. Width(InRight(j)) # 2
        BY <1>4, <1>16, <1>17, <2>1, <2>7, <3>1
      <4> QED
        BY <1>13, <2>1, <4>1
    <3>3. InRight(j) # "addr16"
      BY <3>2 DEF Width
    <3>4. right16[j] = right16[k]
      <4>1. right16[j] = right16[j + 1] + 0
        BY <1>10, <2>1, <2>7, <3>2, <3>3
      <4> QED
        BY <1>7, <3>0, <4>1
    <3>5. InRom(j) # "addr16"
      BY <1>4, <1>5, <3>1 DEF ClassOf, InRom
    <3>6. rom16[j] = rom16[k] \/ rom16[j] = rom16[k + 1]
      <4>1. Width(InRom(j)) = 1 \/ Width(InRom(j)) = 2
        BY <1>13, <2>1
      <4>2. rom16[j] = rom16[j + Width(InRom(j))] + 0
        BY <1>11, <2>1, <2>7, <3>1, <3>5
      <4>3. rom16[k] \in Nat /\ rom16[k + 1] \in Nat
        BY <1>7, <3>0
      <4> QED
        BY <3>1, <4>1, <4>2, <4>3
    <3>7. rom16[k] = rom16[k + 1]
      BY <1>4, <1>5, <1>12
    <3> QED
      BY <1>15, <3>4, <3>6, <3>7
  <2>8. j < k \/ j = k
    BY <1>4, <2>1
  <2> QED
    BY <1>4, <2>1, <2>3, <2>4, <2>5, <2>6, <2>7, <2>8
<1>19. Less(1)
  <2> DEFINE S == {h \in 0 .. k - 1 : Less(k - h)}
  <2>1. ASSUME NEW h \in 0 .. k - 1, \A g \in 0 .. h - 1 : g \in S PROVE h \in S
    <3>1. \A g \in 0 .. h - 1 : Less(k - g)
      BY <2>1
    <3> HIDE DEF Less
    <3> QED
      BY <1>18, <3>1
  <2>2. \A h \in 0 .. k - 1 : h \in S
    <3>1. k - 1 \in Nat
      BY <1>4
    <3> HIDE DEF S
    <3> QED
      BY <2>1, <3>1, AllFollow
  <2>3. k - 1 \in 0 .. k - 1 /\ k - (k - 1) = 1
    BY <1>4
  <2>4. Less(k - (k - 1))
    BY <2>2, <2>3
  <2> HIDE DEF Less
  <2> QED
    BY <2>3, <2>4
<1> QED
  BY <1>19

LEMMA SlipIsSlipped ==
  ASSUME NEW oracle, Len(oracle) \in Nat, NEW right, NEW rom,
         Len(right) \in Nat, DOMAIN right = 1 .. Len(right), Len(rom) = Len(right),
         NEW n, n = Min({Len(oracle), Len(right)}),
         NEW R, IsWalk(oracle, right, n, R),
         NEW step \in Elements(R[1]), step.class = "addr16", NEW k, k = step.at,
         right[k + 1] # 0, k + 2 <= Len(right) => right[k + 2] # 0,
         \A i \in DOMAIN right : i # k /\ i # k + 1 => rom[i] = right[i],
         k \in DOMAIN right /\ k + 1 \in DOMAIN right /\ k + 1 # k =>
           rom[k] = right[k + 1] /\ rom[k + 1] = right[k]
  PROVE  Slipped(oracle, right, rom, n, k)
<1>1. n \in Nat /\ n <= Len(right) /\ n = Min({Len(oracle), Len(rom)})
  <2>1. n = IF Len(oracle) <= Len(right) THEN Len(oracle) ELSE Len(right)
    BY MinOfTwo
  <2> QED
    BY <2>1
<1>2. k \in 1 .. n /\ ClassOf(oracle, right, k) = "addr16" /\ oracle[k] # right[k]
  <2>1. 1 \in 1 .. n + 2
    BY <1>1
  <2>2. n = Min({Len(oracle), Len(right)}) /\ IsWalk(oracle, right, n, R)
    OBVIOUS
  <2>3. \A j \in 1 .. n + 2 : \A s \in Elements(R[j]) : StepMeans(oracle, right, n, j, s)
    BY <1>1, <2>2, StepsMean
  <2> QED
    BY <2>1, <2>3 DEF StepMeans
<1>3. k < n /\ oracle[k] = right[k + 1] /\ oracle[k + 1] = 0
  BY <1>2 DEF ClassOf
<1>4. k \in DOMAIN right /\ k + 1 \in DOMAIN right /\ k + 1 # k /\ k \in Nat /\ 1 <= k
  BY <1>1, <1>2, <1>3
<1>5. k + 2 <= n => k + 2 \in DOMAIN right /\ k + 2 <= Len(right) /\ k + 2 # k /\ k + 2 # k + 1
  BY <1>1, <1>4
<1>6. 1 .. n \subseteq DOMAIN right
  BY <1>1
<1> QED
  BY <1>1, <1>2, <1>3, <1>4, <1>5, <1>6 DEF Slipped

(* An image with one address of its code the wrong way round has one       *)
(* addr16 less, and so other counts.                                       *)
LEMMA SlipShows ==
  ASSUME NEW oracle, Len(oracle) \in Nat, NEW right \in Seq(Nat),
         NEW step \in Elements(Classify(oracle, right)), step.class = "addr16",
         right[step.at + 1] # 0, step.at + 2 <= Len(right) => right[step.at + 2] # 0,
         NEW rom, rom = [right EXCEPT ![step.at] = right[step.at + 1],
                                      ![step.at + 1] = right[step.at]]
  PROVE  Counts(Classify(oracle, rom)) # Counts(Classify(oracle, right))
<1> DEFINE n == Min({Len(oracle), Len(right)})
           k == step.at
           R == Walks(oracle, right)
           M == Walks(oracle, rom)
           right16 == [i \in 1 .. n + 2 |-> Addr16s(R[i])]
           rom16 == [i \in 1 .. n + 2 |-> Addr16s(M[i])]
<1>1. /\ Len(right) \in Nat /\ DOMAIN right = 1 .. Len(right) /\ Len(rom) = Len(right)
      /\ \A i \in DOMAIN right : i # k /\ i # k + 1 => rom[i] = right[i]
      /\ k \in DOMAIN right /\ k + 1 \in DOMAIN right /\ k + 1 # k =>
           rom[k] = right[k + 1] /\ rom[k + 1] = right[k]
  OBVIOUS
<1>2. right[k + 1] # 0 /\ (k + 2 <= Len(right) => right[k + 2] # 0)
  OBVIOUS
<1>3. n \in Nat /\ n = Min({Len(oracle), Len(right)}) /\ n = Min({Len(oracle), Len(rom)})
  BY <1>1, MinOfTwo
<1>4. k = step.at /\ step \in Elements(R[1])
  BY DEF Classify
<1> HIDE DEF n, k
<1>5. IsWalk(oracle, right, n, R)
  BY <1>3, WalksAre
<1>6. IsCount(oracle, right, n, right16) /\ IsCount(oracle, rom, n, rom16)
  BY <1>3, Addr16sOfWalk
<1>7. 1 \in 1 .. n + 2
  BY <1>3
<1>8. right16[1] = Addr16s(Classify(oracle, right)) /\ rom16[1] = Addr16s(Classify(oracle, rom))
  BY <1>7 DEF Classify
<1>9. rom16[1] \in Nat
  BY <1>6, <1>7 DEF IsCount
<1> HIDE DEF R, M, right16, rom16
<1>10. Slipped(oracle, right, rom, n, k)
  BY <1>1, <1>2, <1>3, <1>4, <1>5, SlipIsSlipped
<1>11. right16[1] = rom16[1] + 1
  BY <1>4, <1>5, <1>6, <1>10, OneLess
<1>12. \A steps : Counts(steps)["addr16"] = Addr16s(steps)
  BY DEF Counts, CLASSES, Addr16s
<1> SUFFICES ASSUME Counts(Classify(oracle, rom)) = Counts(Classify(oracle, right)) PROVE FALSE
  OBVIOUS
<1>13. rom16[1] = right16[1]
  BY <1>8, <1>12
<1> QED
  BY <1>9, <1>11, <1>13

LEMMA OneSlipShows ==
  ASSUME NEW oracle, Len(oracle) \in Nat, NEW right \in Seq(Nat), NEW rom, OneSlip(oracle, right, rom)
  PROVE  Counts(Classify(oracle, rom)) # Counts(Classify(oracle, right))
<1>1. PICK step \in Elements(Classify(oracle, right)) :
        /\ step.class = "addr16" /\ right[step.at + 1] # 0
        /\ step.at + 2 <= Len(right) => right[step.at + 2] # 0
        /\ rom = [right EXCEPT ![step.at] = right[step.at + 1], ![step.at + 1] = right[step.at]]
  BY Zenon DEF OneSlip
<1> QED
  BY <1>1, SlipShows

LEMMA EndedEndian == Ended => EndianSlipIsSeen
<1> SUFFICES ASSUME Ended, tool = "hexoracle", verdict = "PASS",
                    NEW p \in input.projects, input.expect[p].counts # None,
                    OneSlip(ReadIhex(input.hex[p]), input.recorded[p], input.rom[p])
             PROVE  FALSE
  BY DEF EndianSlipIsSeen
<1> DEFINE oracle == ReadIhex(input.hex[p])
           right == input.recorded[p]
           rom == input.rom[p]
<1>1. input \in Given("hexoracle") /\ OracleVerdict(input) = "PASS"
  BY DEF Ended, JudgedAs, Given
<1>2. AgreesWithOracle(input.hex[p], rom, input.expect[p]) /\ oracle # None
  BY <1>1, OracleAgrees
<1>3. /\ input.hex[p] # None /\ Len(oracle) = input.expect[p].oracle
      /\ Counts(Classify(oracle, rom)) = input.expect[p].counts
  BY <1>2 DEF AgreesWithOracle
<1>4. /\ input.expect[p].oracle \in Nat
      /\ CountedFrom(input.hex[p], right, input.expect[p].counts)
  BY <1>1, OracleAssumption DEF OracleCase
<1>5. right \in Seq(Nat) /\ input.expect[p].counts = Counts(Classify(oracle, right))
  BY <1>2, <1>3, <1>4 DEF CountedFrom
<1>6. Len(oracle) \in Nat
  BY <1>3, <1>4
<1>7. Counts(Classify(oracle, rom)) # Counts(Classify(oracle, right))
  <2>1. OneSlip(oracle, right, rom)
    OBVIOUS
  <2> HIDE DEF oracle, right, rom
  <2> QED
    BY <1>5, <1>6, <2>1, OneSlipShows
<1> QED
  BY <1>3, <1>5, <1>7

(* No ROM with an address of its code the wrong way round passes for the   *)
(* one that the counts were recorded from, whatever the images.            *)
THEOREM EndianSlipAlwaysSeen == Spec => []EndianSlipIsSeen
  BY EndedCorrect, EndedEndian, PTL
-----------------------------------------------------------------------------
(* isa_check.py.  One entry, and what the check counts of it.              *)
EntryFails(stages, answer, want) ==
  \/ "assemble" \in stages /\ answer.asm # want
  \/ "decode" \in stages /\ ~Decodes(answer, want)
  \/ "roundtrip" \in stages /\ IF Decodes(answer, want) THEN ~Closes(answer, want)
                               ELSE "decode" \notin stages

LEMMA EntryExact ==
  ASSUME NEW stages, NEW answer, NEW want,
         answer.dump # None =>
           LET dump == answer.dump
           IN IsList(dump) /\ \A k \in DOMAIN dump : dump[k].shown # None
  PROVE  ~EntryFails(stages, answer, want) <=> AnsweredRight(stages, answer, want)
<1> DEFINE first == answer.dump[1]
<1>1. Decodes(answer, want) => first.shown # None
  BY DEF Decodes, IsList
<1>2. Decodes(answer, want) <=> /\ answer.dump # None /\ Len(answer.dump) = 1
                                /\ first.raw = want /\ first.named
  BY DEF Decodes
<1>3. Decodes(answer, want) =>
        (Closes(answer, want) <=> /\ answer.back = want
                                  /\ first.branch => first.shown = first.target)
  BY <1>1 DEF Closes, Mismatch, TakenBack
<1>4. AnsweredRight(stages, answer, want) <=>
        /\ "assemble" \in stages => answer.asm = want
        /\ "decode" \in stages \/ "roundtrip" \in stages => Decodes(answer, want)
        /\ "roundtrip" \in stages => /\ answer.back = want
                                     /\ first.branch => first.shown = first.target
  <2>1. stages \intersect {"decode", "roundtrip"} # {} <=>
          "decode" \in stages \/ "roundtrip" \in stages
    OBVIOUS
  <2> QED
    BY <1>2, <2>1 DEF AnsweredRight
<1> HIDE DEF first
<1> QED
  BY <1>3, <1>4 DEF EntryFails

LEMMA RunTableExact ==
  ASSUME NEW w \in Given("isa_check"), ~TableIsDamaged(w.lines)
  PROVE  /\ RunTable(w) \in Nat
         /\ RunTable(w) = 0 <=>
              /\ Written(w.lines) # {}
              /\ \A n \in Written(w.lines) :
                   AnsweredRight(w.stages, w.answers[n], w.lines[n].record.data)
<1> DEFINE G == Written(w.lines)
           entries == ReadTable(w.lines)
           A == BadAssemble(entries, w.answers)
           D == BadDecode(entries, w.answers)
           R == BadRoundtrip(entries, w.answers, w.stages)
           a == IF "assemble" \in w.stages THEN Cardinality(A) ELSE 0
           d == IF "decode" \in w.stages THEN Cardinality(D) ELSE 0
           r == IF "roundtrip" \in w.stages THEN Cardinality(R) ELSE 0
           Fails(n) == EntryFails(w.stages, w.answers[n], w.lines[n].record.data)
<1>1. IsaCase(w)
  BY IsaAssumption
<1>2. DOMAIN entries = G /\ \A n \in G : entries[n] = w.lines[n].record.data
  BY DEF ReadTable, TableIsDamaged, HexPayload
<1>3. IsFiniteSet(G)
  BY <1>1, ListIsFinite DEF IsaCase, Written
<1> HIDE DEF entries
<1>4. IsFiniteSet(A) /\ IsFiniteSet(D) /\ IsFiniteSet(R)
  BY <1>2, <1>3, FS_Subset DEF BadAssemble, BadDecode, BadRoundtrip
<1>5. /\ a \in Nat /\ (a = 0 <=> ("assemble" \in w.stages => A = {}))
      /\ d \in Nat /\ (d = 0 <=> ("decode" \in w.stages => D = {}))
      /\ r \in Nat /\ (r = 0 <=> ("roundtrip" \in w.stages => R = {}))
  BY <1>4, CountOf
<1>6. RunTable(w) = IF G = {} THEN 1 ELSE a + d + r
  BY <1>2 DEF RunTable, entries
<1>7. a = 0 /\ d = 0 /\ r = 0 <=> \A n \in G : ~Fails(n)
  <2> DEFINE want(n) == w.lines[n].record.data
             Pa(n) == "assemble" \in w.stages => w.answers[n].asm = want(n)
             Pd(n) == "decode" \in w.stages => Decodes(w.answers[n], want(n))
             Pr(n) == "roundtrip" \in w.stages =>
                        IF Decodes(w.answers[n], want(n)) THEN Closes(w.answers[n], want(n))
                        ELSE "decode" \in w.stages
  <2>1. a = 0 <=> \A n \in G : Pa(n)
    <3>1. ("assemble" \in w.stages => A = {}) <=> \A n \in G : Pa(n)
      BY <1>2 DEF BadAssemble
    <3> HIDE DEF a, d, r, A, D, R, Pa, Pd, Pr
    <3> QED
      BY <1>5, <3>1
  <2>2. d = 0 <=> \A n \in G : Pd(n)
    <3>1. ("decode" \in w.stages => D = {}) <=> \A n \in G : Pd(n)
      BY <1>2 DEF BadDecode
    <3> HIDE DEF a, d, r, A, D, R, Pa, Pd, Pr
    <3> QED
      BY <1>5, <3>1
  <2>3. r = 0 <=> \A n \in G : Pr(n)
    <3>1. ("roundtrip" \in w.stages => R = {}) <=> \A n \in G : Pr(n)
      BY <1>2 DEF BadRoundtrip
    <3> HIDE DEF a, d, r, A, D, R, Pa, Pd, Pr
    <3> QED
      BY <1>5, <3>1
  <2>4. \A n : ~Fails(n) <=> Pa(n) /\ Pd(n) /\ Pr(n)
    BY DEF EntryFails
  <2> HIDE DEF a, d, r, A, D, R, G, Fails, Pa, Pd, Pr
  <2> QED
    BY <2>1, <2>2, <2>3, <2>4
<1>8. \A n \in G : ~Fails(n) <=> AnsweredRight(w.stages, w.answers[n], w.lines[n].record.data)
  BY <1>1, EntryExact DEF IsaCase
<1> HIDE DEF a, d, r, G, Fails
<1>9. a + d + r = 0 <=> a = 0 /\ d = 0 /\ r = 0
  BY <1>5
<1>10. RunTable(w) \in Nat /\ (RunTable(w) = 0 <=> G # {} /\ \A n \in G : ~Fails(n))
  BY <1>5, <1>6, <1>7, <1>9
<1> QED
  BY <1>8, <1>10 DEF G

LEMMA IsaExact ==
  ASSUME NEW w \in Given("isa_check")
  PROVE  /\ IsaVerdict(w) = "PASS" => IsaRight(w)
         /\ IsaVerdict(w) = "FAIL" => ~IsaRight(w)
<1> DEFINE G == Written(w.lines)
           bad == (IF w.table THEN RunTable(w) ELSE 0) + (IF w.program = "refused" THEN 1 ELSE 0)
           Stopped == \/ w.stages \ STAGES # {}
                      \/ ~w.table /\ w.program = "none"
                      \/ w.table /\ w.stages = {}
                      \/ ~w.built
                      \/ w.table /\ TableIsDamaged(w.lines)
<1>1. IsaCase(w)
  BY IsaAssumption
<1>2. IsaVerdict(w) = IF Stopped THEN "stopped" ELSE Judge(bad)
  BY DEF IsaVerdict
<1>3. ASSUME ~Stopped PROVE bad = 0 <=> IsaRight(w)
  <2>1. CASE ~w.table
    BY <1>1, <1>3, <2>1 DEF IsaRight, IsaCase
  <2>2. CASE w.table
    <3>1. ~TableIsDamaged(w.lines) /\ w.stages # {} /\ w.stages \subseteq STAGES
      BY <1>3, <2>2
    <3>2. /\ RunTable(w) \in Nat
          /\ RunTable(w) = 0 <=>
               /\ G # {}
               /\ \A n \in G : AnsweredRight(w.stages, w.answers[n], w.lines[n].record.data)
      BY <3>1, RunTableExact
    <3>3. \A n \in G : w.lines[n].kind = "entry" /\ w.lines[n].record = w.golden[n]
      BY <1>1, <3>1 DEF IsaCase, TableIsDamaged, HexPayload
    <3>4. IsaRight(w) <=>
            /\ w.program # "refused" /\ G # {}
            /\ \A n \in G : AnsweredRight(w.stages, w.answers[n], w.lines[n].record.data)
      BY <1>1, <2>2, <3>1, <3>3 DEF IsaRight, IsaCase
    <3>5. bad = 0 <=> RunTable(w) = 0 /\ w.program # "refused"
      BY <2>2, <3>2
    <3> HIDE DEF bad, G
    <3> QED
      BY <3>2, <3>4, <3>5
  <2> QED
    BY <2>1, <2>2
<1> HIDE DEF bad, Stopped
<1> QED
  BY <1>2, <1>3 DEF Judge
-----------------------------------------------------------------------------
(* fixhunks.py.  Every place of a finite set of numbers is taken.          *)
LEMMA NthIsThere ==
  ASSUME NEW S \in SUBSET Nat, IsFiniteSet(S), NEW n \in 1 .. Cardinality(S)
  PROVE  Nth(S, n) \in S
<1> DEFINE below(k) == {j \in S : j < k}
           c == Cardinality(S)
           f == [k \in S |-> Cardinality(below(k))]
<1>1. c \in Nat
  BY FS_CardinalityType
<1>2. ASSUME NEW k \in S PROVE IsFiniteSet(below(k)) /\ Cardinality(below(k)) \in 0 .. c - 1
  <2>1. below(k) \in SUBSET S /\ k \notin below(k)
    OBVIOUS
  <2> HIDE DEF below
  <2>2. IsFiniteSet(below(k)) /\ Cardinality(below(k)) <= c /\ Cardinality(below(k)) # c
    BY <2>1, FS_Subset
  <2>3. Cardinality(below(k)) \in Nat
    BY <2>2, FS_CardinalityType
  <2> QED
    BY <1>1, <2>2, <2>3
<1>3. ASSUME NEW j \in S, NEW k \in S, j < k PROVE f[j] # f[k]
  <2>1. below(j) \in SUBSET below(k) /\ j \in below(k) /\ j \notin below(j)
    <3>1. j \in Nat /\ k \in Nat /\ \A h \in S : h \in Nat
      OBVIOUS
    <3>2. \A h \in S : h < j => h < k
      BY <1>3, <3>1
    <3>3. \A h : h \in below(j) => h \in below(k)
      BY <3>2
    <3>4. j \in below(k) /\ j \notin below(j)
      BY <1>3, <3>1
    <3> HIDE DEF below
    <3> QED
      BY <3>3, <3>4
  <2>2. IsFiniteSet(below(k))
    BY <1>2
  <2> HIDE DEF below
  <2>3. Cardinality(below(j)) # Cardinality(below(k))
    BY <2>1, <2>2, FS_Subset
  <2> QED
    BY <2>3
<1>4. f \in Injection(S, 0 .. c - 1)
  <2>1. \A j, k \in S : f[j] = f[k] => j = k
    <3> HIDE DEF f
    <3> QED
      BY <1>3
  <2>2. f \in [S -> 0 .. c - 1]
    BY <1>2
  <2> HIDE DEF f
  <2> QED
    BY <2>1, <2>2 DEF Injection, IsInjective
<1>5. IsFiniteSet(0 .. c - 1) /\ Cardinality(0 .. c - 1) = c
  <2>1. 0 \in Int /\ c - 1 \in Int
    BY <1>1
  <2>2. /\ IsFiniteSet(0 .. c - 1)
        /\ Cardinality(0 .. c - 1) = IF 0 > c - 1 THEN 0 ELSE c - 1 - 0 + 1
    BY <2>1, FS_Interval
  <2> QED
    BY <1>1, <2>2
<1>6. f \in Surjection(S, 0 .. c - 1)
  BY <1>4, <1>5, FS_Injection
<1>7. n - 1 \in 0 .. c - 1
  BY <1>1
<1>8. \E k \in S : Cardinality(below(k)) = n - 1
  BY <1>6, <1>7 DEF Surjection
<1> QED
  BY <1>8 DEF Nth

(* The body of a hunk ends at the first line that cannot belong to it.     *)
LEMMA BodyEnds ==
  ASSUME NEW lines, IsList(lines), NEW i \in DOMAIN lines
  PROVE  LET j == EndOfBody(lines, i)
         IN /\ j \in i + 1 .. Len(lines) + 1
            /\ \A k \in i + 1 .. j - 1 : InBody(lines[k])
            /\ j > Len(lines) \/ ~InBody(lines[j])
<1> DEFINE L == Len(lines)
           Out == {j \in i + 1 .. L + 1 : j > L \/ ~InBody(lines[j])}
<1>1. L \in Nat /\ i \in 1 .. L
  BY DEF IsList
<1>2. Out \in SUBSET Nat /\ L + 1 \in Out
  BY <1>1
<1>3. PICK m \in Out : \A j \in Out : m <= j
  BY <1>2, LeastOf
<1>4. \A k \in i + 1 .. m - 1 : InBody(lines[k])
  BY <1>1, <1>3
<1>5. \E j \in i + 1 .. L + 1 : /\ \A k \in i + 1 .. j - 1 : InBody(lines[k])
                                /\ j > L \/ ~InBody(lines[j])
  BY <1>3, <1>4
<1> QED
  BY <1>5 DEF EndOfBody

(* The places of the body of a hunk, and what its header counts.           *)
BodyPlaces(lines, i) == Added(lines, i + 1, EndOfBody(lines, i) - 1)

LEMMA BodyCounts ==
  ASSUME NEW lines, IsList(lines), NEW i \in DOMAIN lines
  PROVE  /\ BodyPlaces(lines, i) \in SUBSET (DOMAIN lines) /\ IsFiniteSet(BodyPlaces(lines, i))
         /\ Cardinality(BodyPlaces(lines, i)) \in Nat
         /\ HunkBody(lines, i) = TextsAt(lines, BodyPlaces(lines, i))
         /\ Len(HunkBody(lines, i)) = Cardinality(BodyPlaces(lines, i))
<1> DEFINE B == BodyPlaces(lines, i)
<1>1. EndOfBody(lines, i) \in i + 1 .. Len(lines) + 1
  BY BodyEnds
<1>2. B \in SUBSET (DOMAIN lines)
  BY <1>1 DEF BodyPlaces, Added, IsList
<1>3. IsFiniteSet(B)
  BY <1>2, ListIsFinite
<1>4. HunkBody(lines, i) = TextsAt(lines, B)
  BY DEF HunkBody, BodyPlaces
<1> HIDE DEF B
<1>5. Cardinality(B) \in Nat
  BY <1>3, FS_CardinalityType
<1>6. Len(TextsAt(lines, B)) = Cardinality(B)
  <2> DEFINE t == TextsAt(lines, B)
  <2>1. t = [n \in 1 .. Cardinality(B) |-> t[n]]
    BY DEF TextsAt
  <2> QED
    BY <1>5, <2>1, LenIs
<1> QED
  BY <1>2, <1>3, <1>4, <1>5, <1>6 DEF B

(* A hunk whose header counts its body applies, to its whole body only.    *)
LEMMA CountedApplies ==
  ASSUME NEW lines, IsList(lines), NEW i \in DOMAIN lines,
         lines[i].count = Len(HunkBody(lines, i))
  PROVE  /\ Ends(lines, i) # {}
         /\ \A e \in Ends(lines, i) : Taken(lines, i, e) = BodyPlaces(lines, i)
<1> DEFINE L == Len(lines)
           j == EndOfBody(lines, i)
           B == BodyPlaces(lines, i)
<1>1. L \in Nat /\ i \in 1 .. L
  BY DEF IsList
<1>2. /\ j \in i + 1 .. L + 1
      /\ \A k \in i + 1 .. j - 1 : InBody(lines[k])
      /\ j > L \/ ~InBody(lines[j])
  BY BodyEnds
<1>3. \A k : k \in B <=> k \in i + 1 .. j - 1 /\ Begins(lines[k])
  BY DEF BodyPlaces, Added
<1> HIDE DEF j, L
<1>4. \A e : \A k : k \in Taken(lines, i, e) <=> k \in i + 1 .. e /\ lines[k].kind # "nonl"
  BY DEF Taken
<1>5. \A k : Begins(lines[k]) => lines[k].kind # "nonl" /\ InBody(lines[k])
  BY DEF Begins, InBody
<1>6. \A k : InBody(lines[k]) /\ lines[k].kind # "nonl" => Begins(lines[k])
  BY DEF InBody
<1>7. Cardinality(B) = lines[i].count
  BY BodyCounts
<1>8. j - 1 \in Ends(lines, i)
  <2>1. j - 1 \in i .. L
    BY <1>1, <1>2
  <2>2. Taken(lines, i, j - 1) = B
    BY <1>2, <1>3, <1>4, <1>5, <1>6
  <2>3. \A k \in Taken(lines, i, j - 1) : Begins(lines[k])
    BY <1>3, <2>2
  <2>4. ASSUME NEW k \in j - 1 + 1 .. L
        PROVE  \E h \in j - 1 + 1 .. k : ~InBody(lines[h])
    <3>1. j \in j - 1 + 1 .. k /\ ~(j > L)
      BY <1>1, <1>2
    <3> QED
      BY <1>2, <3>1
  <2> QED
    BY <1>7, <2>1, <2>2, <2>3, <2>4 DEF Ends, AppliesUpTo, L
<1>9. ASSUME NEW e \in Ends(lines, i) PROVE Taken(lines, i, e) = B
  <2>1. /\ e \in i .. L
        /\ \A k \in Taken(lines, i, e) : Begins(lines[k])
        /\ \A k \in e + 1 .. L : Begins(lines[k]) => \E h \in e + 1 .. k : ~InBody(lines[h])
    BY DEF Ends, AppliesUpTo, L
  <2>2. e <= j - 1
    <3> SUFFICES ASSUME j <= e PROVE FALSE
      BY <1>1, <1>2, <2>1
    <3>1. ~InBody(lines[j])
      BY <1>1, <1>2, <2>1
    <3>2. lines[j].kind # "nonl"
      BY <3>1 DEF InBody
    <3>3. j \in Taken(lines, i, e)
      BY <1>1, <1>2, <1>4, <2>1, <3>2
    <3> QED
      BY <1>5, <2>1, <3>1, <3>3
  <2>3. ASSUME NEW k \in Taken(lines, i, e) PROVE k \in B
    BY <1>1, <1>2, <1>3, <1>4, <2>1, <2>2
  <2>4. ASSUME NEW k \in B PROVE k \in Taken(lines, i, e)
    <3>1. k \in i + 1 .. j - 1 /\ Begins(lines[k])
      BY <1>3
    <3>2. k <= e
      <4> SUFFICES ASSUME e < k PROVE FALSE
        BY <1>1, <1>2, <2>1, <3>1
      <4>1. k \in e + 1 .. L
        BY <1>1, <1>2, <2>1, <3>1
      <4>2. PICK h \in e + 1 .. k : ~InBody(lines[h])
        BY <2>1, <3>1, <4>1
      <4>3. h \in i + 1 .. j - 1
        BY <1>1, <1>2, <2>1, <3>1
      <4> QED
        BY <1>2, <4>2, <4>3
    <3> QED
      BY <1>1, <1>2, <1>4, <1>5, <2>1, <3>1, <3>2
  <2> QED
    BY <2>3, <2>4
<1> QED
  BY <1>8, <1>9

(* What the check looks at, line by line.                                  *)
IndexOf(lines, k) == lines[k].kind = "index" /\ k + 3 \in Hunks(lines)

CorrectedShape(lines, after) ==
  /\ DOMAIN after = DOMAIN lines /\ Len(after) = Len(lines) /\ IsList(after)
  /\ \A i \in Hunks(lines) : after[i] = [kind |-> "hunk", count |-> Len(HunkBody(lines, i))]
  /\ \A k \in DOMAIN lines : k \notin Hunks(lines) /\ IndexOf(lines, k) =>
       after[k] = [kind |-> "index", hash |-> BlobHash(HunkBody(lines, k + 3))]
  /\ \A k \in DOMAIN lines : k \notin Hunks(lines) /\ ~IndexOf(lines, k) =>
       after[k] = lines[k]

LEMMA CorrectedIs ==
  ASSUME NEW lines, IsList(lines)
  PROVE  CorrectedShape(lines, Corrected(lines))
<1> DEFINE after == Corrected(lines)
           L == Len(lines)
<1>1. L \in Nat /\ DOMAIN lines = 1 .. L
  BY DEF IsList
<1>2. /\ DOMAIN after = DOMAIN lines
      /\ \A i \in Hunks(lines) :
           after[i] = [kind |-> "hunk", count |-> Len(HunkBody(lines, i))]
      /\ \A k \in DOMAIN lines : k \notin Hunks(lines) /\ IndexOf(lines, k) =>
           after[k] = [kind |-> "index", hash |-> BlobHash(HunkBody(lines, k + 3))]
      /\ \A k \in DOMAIN lines : k \notin Hunks(lines) /\ ~IndexOf(lines, k) =>
           after[k] = lines[k]
  BY DEF Corrected, IndexOf, Hunks
<1>3. after = [k \in 1 .. L |-> after[k]]
  BY <1>1 DEF Corrected
<1> HIDE DEF after
<1>4. Len(after) = L
  BY <1>1, <1>3, LenIs
<1>5. IsList(after)
  BY <1>1, <1>2, <1>4 DEF IsList
<1>6. CorrectedShape(lines, after)
  BY <1>2, <1>4, <1>5 DEF CorrectedShape
<1> QED
  BY <1>6 DEF after

(* The fields of the lines it wrote, and of those it kept.                 *)
LEMMA CorrectedFields ==
  ASSUME NEW lines, NEW after, CorrectedShape(lines, after)
  PROVE  /\ \A i \in Hunks(lines) : after[i].kind = "hunk"
         /\ \A i \in Hunks(lines) : after[i].count = Len(HunkBody(lines, i))
         /\ \A k \in DOMAIN lines : k \notin Hunks(lines) /\ IndexOf(lines, k) =>
              /\ after[k].kind = "index"
              /\ after[k].hash = BlobHash(HunkBody(lines, k + 3))
<1>1. ASSUME NEW i \in Hunks(lines)
      PROVE  after[i].kind = "hunk" /\ after[i].count = Len(HunkBody(lines, i))
  <2>1. after[i] = [kind |-> "hunk", count |-> Len(HunkBody(lines, i))]
    BY DEF CorrectedShape
  <2> QED
    BY <2>1
<1>2. ASSUME NEW k \in DOMAIN lines, k \notin Hunks(lines), IndexOf(lines, k)
      PROVE  after[k].kind = "index" /\ after[k].hash = BlobHash(HunkBody(lines, k + 3))
  <2>1. after[k] = [kind |-> "index", hash |-> BlobHash(HunkBody(lines, k + 3))]
    BY <1>2 DEF CorrectedShape
  <2> QED
    BY <2>1
<1> QED
  BY <1>1, <1>2

(* A check that passes read a patch that is already as it should be.       *)
LEMMA PassedIsCorrected ==
  ASSUME NEW lines, IsList(lines), CheckVerdict(lines) = "PASS"
  PROVE  \A k \in DOMAIN lines : Corrected(lines)[k] = lines[k]
<1>1. Stale(lines) \in SUBSET (DOMAIN lines)
  BY DEF Stale
<1>2. IsFiniteSet(Stale(lines))
  BY <1>1, ListIsFinite
<1>3. Stale(lines) = {}
  BY <1>2, JudgeOf DEF CheckVerdict
<1> QED
  BY <1>3 DEF Stale

(* What patch(1) builds of a hunk that is correct is what its index names. *)
LEMMA HunksExact ==
  ASSUME NEW lines \in Given("fixhunks"), CheckVerdict(lines) = "PASS"
  PROVE  HunksRight(lines)
<1>1. IsList(lines)
  BY PatchAssumption
<1>2. \A k \in DOMAIN lines : Corrected(lines)[k] = lines[k]
  BY <1>1, PassedIsCorrected
<1> SUFFICES ASSUME NEW i \in Hunks(lines)
             PROVE  /\ Ends(lines, i) # {}
                    /\ \A e \in Ends(lines, i) :
                         LET built == TextsAt(lines, Taken(lines, i, e))
                         IN i > 3 /\ lines[i - 3].kind = "index" /\ built # <<>>
                            /\ ~Unended(lines, i) =>
                              lines[i - 3].hash = built
  BY DEF HunksRight
<1>3. i \in DOMAIN lines /\ lines[i].count = Len(HunkBody(lines, i))
  <2>1. i \in DOMAIN lines
    BY DEF Hunks
  <2>2. CorrectedShape(lines, Corrected(lines))
    BY <1>1, CorrectedIs
  <2>3. Corrected(lines)[i].count = Len(HunkBody(lines, i))
    BY <2>2, CorrectedFields
  <2> QED
    BY <1>2, <2>1, <2>3
<1>4. /\ Ends(lines, i) # {}
      /\ \A e \in Ends(lines, i) : Taken(lines, i, e) = BodyPlaces(lines, i)
  BY <1>1, <1>3, CountedApplies
<1>5. HunkBody(lines, i) = TextsAt(lines, BodyPlaces(lines, i))
  BY <1>1, <1>3, BodyCounts
<1>6. ASSUME i > 3, lines[i - 3].kind = "index", HunkBody(lines, i) # <<>>
      PROVE  lines[i - 3].hash = HunkBody(lines, i)
  <2>1. i - 3 \in DOMAIN lines /\ i - 3 + 3 = i
    BY <1>1, <1>3, <1>6 DEF IsList
  <2>2. i - 3 \notin Hunks(lines) /\ IndexOf(lines, i - 3)
    BY <1>6, <2>1 DEF Hunks, IndexOf
  <2>3. lines[i - 3].hash = BlobHash(HunkBody(lines, i))
    <3>1. CorrectedShape(lines, Corrected(lines))
      BY <1>1, CorrectedIs
    <3>2. Corrected(lines)[i - 3].hash = BlobHash(HunkBody(lines, i - 3 + 3))
      BY <2>1, <2>2, <3>1, CorrectedFields
    <3> QED
      BY <1>2, <2>1, <3>2
  <2>4. BlobHash(HunkBody(lines, i)) = HunkBody(lines, i)
    BY <1>6 DEF BlobHash
  <2> QED
    BY <2>3, <2>4
<1> QED
  BY <1>4, <1>5, <1>6

(* The rewrite changes no line of a body, and no kind of a line.           *)
LEMMA CorrectedKeeps ==
  ASSUME NEW lines, IsList(lines), NEW after, CorrectedShape(lines, after)
  PROVE  /\ \A k \in DOMAIN lines : after[k].kind = lines[k].kind
         /\ \A k \in DOMAIN lines : Begins(lines[k]) => after[k] = lines[k]
         /\ Hunks(after) = Hunks(lines)
         /\ \A i \in DOMAIN lines : HunkBody(after, i) = HunkBody(lines, i)
<1>1. /\ DOMAIN after = DOMAIN lines /\ Len(after) = Len(lines) /\ IsList(after)
      /\ \A i \in Hunks(lines) : after[i].kind = "hunk"
      /\ \A k \in DOMAIN lines : k \notin Hunks(lines) /\ IndexOf(lines, k) =>
           after[k].kind = "index"
      /\ \A k \in DOMAIN lines : k \notin Hunks(lines) /\ ~IndexOf(lines, k) =>
           after[k] = lines[k]
  BY CorrectedFields, SMTT(30) DEF CorrectedShape
<1>2. \A k \in DOMAIN lines : after[k].kind = lines[k].kind
  BY <1>1 DEF Hunks, IndexOf
<1>3. \A k \in DOMAIN lines : Begins(lines[k]) => after[k] = lines[k]
  BY <1>1 DEF Hunks, IndexOf, Begins
<1>4. Hunks(after) = Hunks(lines)
  BY <1>1, <1>2 DEF Hunks
<1>5. \A k \in DOMAIN lines : /\ InBody(after[k]) <=> InBody(lines[k])
                              /\ Begins(after[k]) <=> Begins(lines[k])
  BY <1>2 DEF InBody, Begins
<1>6. ASSUME NEW i \in DOMAIN lines
      PROVE  HunkBody(after, i) = HunkBody(lines, i)
  <2> DEFINE L == Len(lines)
             a == EndOfBody(after, i)
             b == EndOfBody(lines, i)
  <2>1. L \in Nat /\ DOMAIN lines = 1 .. L
    BY DEF IsList
  <2>2. /\ b \in i + 1 .. L + 1
        /\ \A k \in i + 1 .. b - 1 : InBody(lines[k])
        /\ b > L \/ ~InBody(lines[b])
    BY BodyEnds
  <2>3. /\ a \in i + 1 .. L + 1
        /\ \A k \in i + 1 .. a - 1 : InBody(after[k])
        /\ a > L \/ ~InBody(after[a])
    BY <1>1, BodyEnds
  <2> HIDE DEF a, b, L
  <2>4. a = b
    <3>1. ~(a < b)
      BY <1>5, <2>1, <2>2, <2>3
    <3>2. ~(b < a)
      BY <1>5, <2>1, <2>2, <2>3
    <3> QED
      BY <2>1, <2>2, <2>3, <3>1, <3>2
  <2>5. BodyPlaces(after, i) = BodyPlaces(lines, i)
    BY <1>5, <2>1, <2>2, <2>4 DEF BodyPlaces, Added, a, b
  <2> DEFINE B == BodyPlaces(lines, i)
  <2>6. /\ B \in SUBSET (DOMAIN lines) /\ IsFiniteSet(B)
        /\ HunkBody(lines, i) = TextsAt(lines, B)
        /\ HunkBody(after, i) = TextsAt(after, B)
        /\ \A k \in B : Begins(lines[k])
    <3>1. B \in SUBSET (DOMAIN lines) /\ IsFiniteSet(B)
      BY BodyCounts
    <3>2. HunkBody(lines, i) = TextsAt(lines, B)
      BY DEF HunkBody, BodyPlaces
    <3>3. HunkBody(after, i) = TextsAt(after, B)
      BY <2>5 DEF HunkBody, BodyPlaces
    <3>4. \A k \in B : Begins(lines[k])
      BY DEF BodyPlaces, Added
    <3> QED
      BY <3>1, <3>2, <3>3, <3>4
  <2> HIDE DEF B
  <2>7. B \in SUBSET Nat
    BY <2>1, <2>6
  <2>8. \A n \in 1 .. Cardinality(B) : after[Nth(B, n)] = lines[Nth(B, n)]
    BY <1>3, <2>6, <2>7, NthIsThere
  <2>9. TextsAt(after, B) = TextsAt(lines, B)
    BY <2>8 DEF TextsAt
  <2> QED
    BY <2>6, <2>9
<1> QED
  BY <1>2, <1>3, <1>4, <1>6

(* The rewritten patch passes, applies, and keeps all but its headers.     *)
LEMMA RewriteExact ==
  ASSUME NEW lines \in Given("fixhunks")
  PROVE  RewriteRight(lines, Rewritten(lines))
<1>1. IsList(lines)
  BY PatchAssumption
<1>2. CASE NotAllAdditions(lines)
  BY <1>2 DEF Rewritten, RewriteRight
<1>3. CASE ~NotAllAdditions(lines)
  <2> DEFINE after == Corrected(lines)
  <2>1. Rewritten(lines) = after
    BY <1>3 DEF Rewritten
  <2>2. CorrectedShape(lines, after)
    BY <1>1, CorrectedIs
  <2> HIDE DEF after
  <2>3. /\ \A k \in DOMAIN lines : after[k].kind = lines[k].kind
        /\ Hunks(after) = Hunks(lines)
        /\ \A i \in DOMAIN lines : HunkBody(after, i) = HunkBody(lines, i)
    BY <1>1, <2>2, CorrectedKeeps
  <2>4. /\ DOMAIN after = DOMAIN lines /\ Len(after) = Len(lines) /\ IsList(after)
        /\ \A i \in Hunks(lines) : after[i].count = Len(HunkBody(lines, i))
    BY <2>2, CorrectedFields DEF CorrectedShape
  <2>5. ~NotAllAdditions(after)
    <3> SUFFICES ASSUME NEW i \in Hunks(lines), after[i].count = None PROVE FALSE
      BY <2>3 DEF NotAllAdditions
    <3>1. i \in DOMAIN lines
      BY DEF Hunks
    <3>2. Len(HunkBody(lines, i)) \in Nat
      BY <1>1, <3>1, BodyCounts
    <3> QED
      BY <2>4, <3>2, PatchAssumption
  <2>6. \A i \in Hunks(after) : Ends(after, i) # {}
    <3> SUFFICES ASSUME NEW i \in Hunks(after) PROVE Ends(after, i) # {}
      OBVIOUS
    <3>1. i \in Hunks(lines) /\ i \in DOMAIN lines /\ i \in DOMAIN after
      BY <2>3, <2>4 DEF Hunks
    <3>2. after[i].count = Len(HunkBody(after, i))
      BY <2>3, <2>4, <3>1
    <3> QED
      BY <2>4, <3>1, <3>2, CountedApplies
  <2>7. \A k \in DOMAIN after : Corrected(after)[k] = after[k]
    <3> SUFFICES ASSUME NEW k \in DOMAIN after PROVE Corrected(after)[k] = after[k]
      OBVIOUS
    <3>1. k \in DOMAIN lines /\ (IndexOf(after, k) <=> IndexOf(lines, k))
      BY <2>3, <2>4 DEF IndexOf
    <3>2. CorrectedShape(after, Corrected(after))
      BY <2>4, CorrectedIs
    <3>3. CASE k \in Hunks(after)
      <4>1. Corrected(after)[k] = [kind |-> "hunk", count |-> Len(HunkBody(after, k))]
        BY <3>2, <3>3 DEF CorrectedShape
      <4>2. after[k] = [kind |-> "hunk", count |-> Len(HunkBody(lines, k))]
        BY <2>2, <2>3, <3>3 DEF CorrectedShape
      <4> QED
        BY <2>3, <3>1, <4>1, <4>2
    <3>4. CASE k \notin Hunks(after) /\ IndexOf(after, k)
      <4>1. k + 3 \in DOMAIN lines
        BY <2>3, <3>4 DEF IndexOf, Hunks
      <4>2. Corrected(after)[k] = [kind |-> "index", hash |-> BlobHash(HunkBody(after, k + 3))]
        BY <3>2, <3>4 DEF CorrectedShape
      <4>3. after[k] = [kind |-> "index", hash |-> BlobHash(HunkBody(lines, k + 3))]
        BY <2>2, <2>3, <3>1, <3>4 DEF CorrectedShape
      <4> QED
        BY <2>3, <4>1, <4>2, <4>3
    <3>5. CASE k \notin Hunks(after) /\ ~IndexOf(after, k)
      BY <3>2, <3>5 DEF CorrectedShape
    <3> QED
      BY <3>3, <3>4, <3>5
  <2>8. CheckVerdict(after) = "PASS"
    <3>1. Stale(after) = {}
      BY <2>7 DEF Stale
    <3>2. Cardinality(Stale(after)) = 0
      BY <3>1, FS_EmptySet
    <3> QED
      BY <2>5, <3>2 DEF CheckVerdict, Judge
  <2>9. \A k \in DOMAIN after : lines[k].kind \notin {"hunk", "index"} => after[k] = lines[k]
    BY <2>2 DEF CorrectedShape, IndexOf, Hunks
  <2> QED
    BY <1>3, <2>1, <2>4, <2>6, <2>8, <2>9 DEF RewriteRight
<1> QED
  BY <1>2, <1>3
-----------------------------------------------------------------------------
(* What a green check claims, in every state but doctruth's.               *)
GreenOfAProgram == tool # "doctruth" => GreenIsRight

LEMMA GivenIsInput ==
  ASSUME tool \in DOMAIN Inputs, input \in Inputs[tool]
  PROVE  input \in Given(tool)
  BY DEF Given

LEMMA EndedGreen == Ended => GreenOfAProgram
<1> SUFFICES ASSUME Ended, tool # "doctruth", verdict = "PASS", output = None
             PROVE  Claim
  BY DEF GreenOfAProgram, GreenIsRight
<1>1. input \in Given(tool)
  BY GivenIsInput DEF Ended
<1>2. tool \in {"isa_check", "hexoracle", "romdiff", "fixhunks", "le2be", "sym_uc", "ar",
                "branch", "bits", "reloc", "guard", "script", "gen", "coverage"}
  BY ChecksAssumption DEF Ended
<1>3. CASE tool = "isa_check"
  <2>1. IsaVerdict(input) = "PASS"
    BY <1>3 DEF Ended, JudgedAs
  <2> QED
    BY <1>1, <1>3, <2>1, IsaExact DEF Claim
<1>4. CASE tool = "hexoracle"
  <2>1. OracleVerdict(input) = "PASS"
    BY <1>4 DEF Ended, JudgedAs
  <2> QED
    BY <1>1, <1>4, <2>1, OracleExact DEF Claim
<1>5. CASE tool = "romdiff"
  <2>1. RomDiffVerdict(input) = "PASS"
    BY <1>5 DEF Ended, JudgedAs
  <2> QED
    BY <1>1, <1>5, <2>1, RomDiffExact DEF Claim
<1>6. CASE tool = "fixhunks"
  <2>1. CheckVerdict(input) = "PASS"
    BY <1>6 DEF Ended, JudgedAs, WroteAs
  <2> QED
    BY <1>1, <1>6, <2>1, HunksExact DEF Claim
<1>7. CASE tool = "branch"
  <2>1. BranchVerdict(input) = "PASS"
    BY <1>7 DEF Ended, JudgedAs
  <2> QED
    BY <1>1, <1>7, <2>1, BranchExact DEF Claim
<1>8. CASE tool = "bits"
  <2>1. BitsVerdict(input) = "PASS"
    BY <1>8 DEF Ended, JudgedAs
  <2> QED
    BY <1>1, <1>8, <2>1, BitsExact DEF Claim
<1>9. CASE tool = "reloc"
  <2>1. RelocVerdict(input) = "PASS"
    BY <1>9 DEF Ended, JudgedAs
  <2> QED
    BY <1>1, <1>9, <2>1, RelocExact DEF Claim
<1>10. CASE tool = "guard"
  <2>1. GuardVerdict(input) = "PASS"
    BY <1>10 DEF Ended, JudgedAs
  <2> QED
    BY <1>1, <1>10, <2>1, GuardExact DEF Claim
<1>11. CASE tool = "script"
  <2>1. ScriptVerdict(input) = "PASS"
    BY <1>11 DEF Ended, JudgedAs
  <2> QED
    BY <1>1, <1>11, <2>1, ScriptExact DEF Claim
<1>12. CASE tool \in {"le2be", "sym_uc", "ar", "gen", "coverage"}
  BY <1>12 DEF Ended, WroteAs
<1> QED
  BY <1>2, <1>3, <1>4, <1>5, <1>6, <1>7, <1>8, <1>9, <1>10, <1>11, <1>12

LEMMA EndedRed == Ended => RedHasACause
<1> SUFFICES ASSUME Ended, verdict = "FAIL", tool \notin {"doctruth", "fixhunks", "hexoracle"}
             PROVE  ~Claim
  BY DEF RedHasACause
<1>1. input \in Given(tool)
  BY GivenIsInput DEF Ended
<1>2. tool \in {"isa_check", "romdiff", "le2be", "sym_uc", "ar",
                "branch", "bits", "reloc", "guard", "script", "gen", "coverage"}
  BY ChecksAssumption DEF Ended
<1>3. CASE tool = "isa_check"
  <2>1. IsaVerdict(input) = "FAIL"
    BY <1>3 DEF Ended, JudgedAs
  <2> QED
    BY <1>1, <1>3, <2>1, IsaExact DEF Claim
<1>4. CASE tool = "romdiff"
  <2>1. RomDiffVerdict(input) = "FAIL"
    BY <1>4 DEF Ended, JudgedAs
  <2> QED
    BY <1>1, <1>4, <2>1, RomDiffExact DEF Claim
<1>5. CASE tool = "branch"
  <2>1. BranchVerdict(input) = "FAIL"
    BY <1>5 DEF Ended, JudgedAs
  <2> QED
    BY <1>1, <1>5, <2>1, BranchExact DEF Claim
<1>6. CASE tool = "bits"
  <2>1. BitsVerdict(input) = "FAIL"
    BY <1>6 DEF Ended, JudgedAs
  <2> QED
    BY <1>1, <1>6, <2>1, BitsExact DEF Claim
<1>7. CASE tool = "reloc"
  <2>1. RelocVerdict(input) = "FAIL"
    BY <1>7 DEF Ended, JudgedAs
  <2> QED
    BY <1>1, <1>7, <2>1, RelocExact DEF Claim
<1>8. CASE tool = "guard"
  <2>1. GuardVerdict(input) = "FAIL"
    BY <1>8 DEF Ended, JudgedAs
  <2> QED
    BY <1>1, <1>8, <2>1, GuardExact DEF Claim
<1>9. CASE tool = "script"
  <2>1. ScriptVerdict(input) = "FAIL"
    BY <1>9 DEF Ended, JudgedAs
  <2> QED
    BY <1>1, <1>9, <2>1, ScriptExact DEF Claim
<1>10. CASE tool \in {"le2be", "sym_uc", "ar", "gen", "coverage"}
  BY <1>10 DEF Ended, WroteAs
<1> QED
  BY <1>2, <1>3, <1>4, <1>5, <1>6, <1>7, <1>8, <1>9, <1>10

LEMMA EndedRewrite == Ended => RewriteIsStable
<1> SUFFICES ASSUME Ended, tool = "fixhunks", output # None
             PROVE  RewriteRight(input, output)
  BY DEF RewriteIsStable
<1>1. input \in Given("fixhunks")
  BY GivenIsInput DEF Ended
<1>2. output = Rewritten(input)
  BY DEF Ended, JudgedAs, WroteAs
<1> QED
  BY <1>1, <1>2, RewriteExact

(* No check but doctruth is green of an input that its claim is false of:  *)
(* whatever the cases, records, images, lines or projects, and however     *)
(* many.                                                                   *)
THEOREM GreenAlwaysRight == Spec => [](tool # "doctruth" => GreenIsRight)
<1>1. Ended => (tool # "doctruth" => GreenIsRight)
  BY EndedGreen DEF GreenOfAProgram
<1> QED
  BY <1>1, EndedCorrect, PTL

(* No check but the three is red of an input that its claim is true of.    *)
THEOREM RedAlwaysHasACause == Spec => []RedHasACause
  BY EndedCorrect, EndedRed, PTL

(* Of any patch, fixhunks writes one that fixhunks --check passes, that    *)
(* patch(1) applies, and in which only headers and index lines differ.     *)
THEOREM RewriteAlwaysStable == Spec => []RewriteIsStable
  BY EndedCorrect, EndedRewrite, PTL
-----------------------------------------------------------------------------
(* The manual.  A part of a list of lines.                                 *)
LEMMA SmallestOf ==
  ASSUME NEW S \in SUBSET Nat, S # {}
  PROVE  Min(S) \in S /\ \A k \in S : Min(S) <= k
<1>1. PICK m \in S : \A k \in S : m <= k
  BY LeastOf
<1> QED
  BY <1>1 DEF Min

LEMMA PartOf ==
  ASSUME NEW s, IsList(s), NEW m \in Nat \ {0}, NEW n \in Nat, m <= n + 1, n <= Len(s)
  PROVE  /\ IsList(SubSeq(s, m, n))
         /\ Len(SubSeq(s, m, n)) = n - m + 1
         /\ \A k \in 1 .. n - m + 1 : m + k - 1 \in DOMAIN s /\ SubSeq(s, m, n)[k] = s[m + k - 1]
         /\ Elements(SubSeq(s, m, n)) \subseteq Elements(s)
<1> DEFINE p == SubSeq(s, m, n)
<1>1. DOMAIN s = 1 .. Len(s) /\ Len(s) \in Nat
  BY DEF IsList
<1>2. \A k \in m .. n : k \in DOMAIN s /\ s[k] \in Elements(s)
  BY <1>1 DEF Elements
<1>3. /\ p \in Seq(Elements(s))
      /\ Len(p) = IF m <= n THEN n - m + 1 ELSE 0
      /\ \A k \in 1 .. n - m + 1 : p[k] = s[m + k - 1]
  <2> DEFINE lines == Elements(s)
  <2>1. m \in Int /\ n \in Int /\ \A k \in m .. n : s[k] \in lines
    BY <1>2
  <2> HIDE DEF lines
  <2>2. /\ p \in Seq(lines)
        /\ Len(p) = IF m <= n THEN n - m + 1 ELSE 0
        /\ \A k \in 1 .. n - m + 1 : p[k] = s[m + k - 1]
    BY <2>1, SubSeqProperties
  <2> QED
    BY <2>2 DEF lines
<1>4. DOMAIN p = 1 .. Len(p) /\ Len(p) \in Nat /\ \A k \in DOMAIN p : p[k] \in Elements(s)
  BY <1>3
<1> HIDE DEF p
<1>5. Len(p) = n - m + 1
  BY <1>3
<1>6. \A k \in 1 .. n - m + 1 : m + k - 1 \in m .. n
  OBVIOUS
<1>7. IsList(p) /\ Elements(p) \subseteq Elements(s)
  BY <1>4 DEF IsList, Elements
<1>8. \A k \in 1 .. n - m + 1 : m + k - 1 \in DOMAIN s /\ p[k] = s[m + k - 1]
  BY <1>2, <1>3, <1>6
<1> QED
  BY <1>5, <1>7, <1>8 DEF p

(* The lines of a node are those after the last @node of its name, up to   *)
(* the next @node.                                                         *)
IsNode(lines, name, node, from, to) ==
  /\ from \in DOMAIN lines /\ to \in from .. Len(lines)
  /\ lines[from].kind = "node" /\ lines[from].name = name
  /\ \A j \in from + 1 .. to : lines[j].kind # "node"
  /\ to = Len(lines) \/ (to + 1 \in DOMAIN lines /\ lines[to + 1].kind = "node")
  /\ IsList(node) /\ Len(node) = to - from
  /\ \A k \in 1 .. to - from : node[k] = lines[from + k]

LEMMA NodeIs ==
  ASSUME NEW lines, IsList(lines), NEW name, Node(lines, name) # None
  PROVE  \E from, to : IsNode(lines, name, Node(lines, name), from, to)
<1> DEFINE starts == {i \in DOMAIN lines : lines[i].kind = "node"}
           named == {i \in starts : lines[i].name = name}
           from == Max(named)
           next == {k \in starts : k > from}
           to == IF next = {} THEN Len(lines) ELSE Min(next) - 1
<1>1. DOMAIN lines = 1 .. Len(lines) /\ Len(lines) \in Nat
  BY DEF IsList
<1>2. named # {} /\ Node(lines, name) = SubSeq(lines, from + 1, to)
  BY DEF Node
<1>3. named \in SUBSET (1 .. Len(lines))
  BY <1>1
<1>4. from \in named
  BY <1>1, <1>2, <1>3, GreatestOf
<1>5. next # {} => Min(next) \in next /\ \A k \in next : Min(next) <= k
  <2>1. next \in SUBSET Nat
    BY <1>1
  <2> QED
    BY <2>1, SmallestOf
<1>0. /\ next = {} => to = Len(lines)
      /\ next # {} => to = Min(next) - 1 /\ Min(next) \in starts /\ Min(next) \in Nat
  <2>1. next # {} => Min(next) \in starts
    BY <1>5
  <2>2. \A k \in starts : k \in Nat
    BY <1>1
  <2> QED
    BY <2>1, <2>2
<1>6. from \in starts /\ from \in 1 .. Len(lines) /\ lines[from].name = name
  BY <1>1, <1>4
<1>7. to \in from .. Len(lines)
  <2>1. CASE next = {} BY <2>1, <1>1, <1>6
  <2>2. CASE next # {}
    <3>1. Min(next) \in 1 .. Len(lines) /\ Min(next) > from
      BY <2>2, <1>1, <1>5
    <3> HIDE DEF next, from
    <3> QED BY <2>2, <3>1, <1>1, <1>6
  <2> QED BY <2>1, <2>2
<1>8. \A j \in from + 1 .. to : lines[j].kind # "node"
  <2> SUFFICES ASSUME NEW j \in from + 1 .. to, lines[j].kind = "node" PROVE FALSE
    OBVIOUS
  <2>1. j \in next
    BY <1>1, <1>6, <1>7
  <2>2. Min(next) <= j /\ to = Min(next) - 1 /\ Min(next) \in Int
    BY <1>0, <1>5, <2>1
  <2> HIDE DEF next, from, to
  <2> QED
    BY <1>6, <1>7, <2>2
<1>9. to = Len(lines) \/ (to + 1 \in DOMAIN lines /\ lines[to + 1].kind = "node")
  <2>1. CASE next = {} BY <2>1
  <2>2. CASE next # {}
    <3>1. Min(next) \in starts /\ to = Min(next) - 1 /\ Min(next) \in Nat
      BY <2>2, <1>0
    <3> HIDE DEF next, from, to
    <3>2. to + 1 = Min(next)
      BY <3>1
    <3> QED BY <3>1, <3>2
  <2> QED BY <2>1, <2>2
<1> HIDE DEF from, to
<1>10. /\ IsList(SubSeq(lines, from + 1, to))
       /\ Len(SubSeq(lines, from + 1, to)) = to - from
       /\ \A k \in 1 .. to - from : SubSeq(lines, from + 1, to)[k] = lines[from + k]
  <2>1. /\ from + 1 \in Nat \ {0} /\ to \in Nat /\ from + 1 <= to + 1 /\ to <= Len(lines)
        /\ to - (from + 1) + 1 = to - from
        /\ \A k \in 1 .. to - from : (from + 1) + k - 1 = from + k
    BY <1>1, <1>6, <1>7
  <2> QED
    BY <2>1, PartOf
<1>11. IsNode(lines, name, Node(lines, name), from, to)
  BY <1>1, <1>2, <1>6, <1>7, <1>8, <1>9, <1>10 DEF IsNode
<1> QED
  BY <1>11

LEMMA NodeIsThere ==
  ASSUME NEW lines, IsList(lines), NEW name, NEW node, NEW from, NEW to,
         IsNode(lines, name, node, from, to)
  PROVE  Elements(node) \subseteq LinesIn(lines, name)
<1>1. /\ DOMAIN lines = 1 .. Len(lines) /\ Len(lines) \in Nat
      /\ from \in 1 .. Len(lines) /\ to \in from .. Len(lines)
      /\ DOMAIN node = 1 .. to - from
  BY DEF IsList, IsNode
<1>2. ASSUME NEW k \in DOMAIN node PROVE node[k] \in LinesIn(lines, name)
  <2>0. k \in 1 .. to - from
    BY <1>1
  <2>1. node[k] = lines[from + k] /\ from + k \in DOMAIN lines /\ from \in 1 .. from + k
    <3>1. node[k] = lines[from + k]
      BY <2>0 DEF IsNode
    <3>2. from + k \in 1 .. Len(lines) /\ from \in 1 .. from + k
      BY <1>1, <2>0
    <3> QED
      BY <1>1, <3>1, <3>2
  <2>2. \A j \in from + 1 .. from + k : j \in from + 1 .. to
    BY <1>1
  <2>3. InNode(lines, from + k, name)
    BY <2>1, <2>2 DEF InNode, IsNode
  <2> QED
    BY <2>1, <2>3 DEF LinesIn
<1> QED
  BY <1>2 DEF Elements

(* Of one name there is one node, as makeinfo asks. *)
OneNode(lines, name) ==
  \A i, j \in DOMAIN lines :
    /\ lines[i].kind = "node" /\ lines[i].name = name
    /\ lines[j].kind = "node" /\ lines[j].name = name
    => i = j

LEMMA PlaceInNode ==
  ASSUME NEW lines, IsList(lines), NEW name, NEW node, NEW from, NEW to,
         IsNode(lines, name, node, from, to), OneNode(lines, name),
         NEW i \in DOMAIN lines, InNode(lines, i, name), lines[i].kind # "node"
  PROVE  i - from \in 1 .. to - from
<1>1. DOMAIN lines = 1 .. Len(lines) /\ Len(lines) \in Nat /\ i \in 1 .. Len(lines)
  BY DEF IsList
<1>2. from \in 1 .. Len(lines) /\ to \in from .. Len(lines)
  BY <1>1 DEF IsNode
<1>3. from \in 1 .. i /\ \A j \in from + 1 .. i : lines[j].kind # "node"
  <2>1. PICK k \in 1 .. i : /\ lines[k].kind = "node" /\ lines[k].name = name
                            /\ \A j \in k + 1 .. i : lines[j].kind # "node"
    BY DEF InNode
  <2>2. k \in DOMAIN lines
    BY <1>1, <2>1
  <2>3. k = from
    BY <2>1, <2>2 DEF OneNode, IsNode
  <2> QED
    BY <2>1, <2>3
<1>4. i # from
  BY DEF IsNode
<1>5. \/ to = Len(lines)
      \/ to + 1 \in DOMAIN lines /\ lines[to + 1].kind = "node"
  BY DEF IsNode
<1>6. CASE to = Len(lines)
  BY <1>1, <1>2, <1>3, <1>4, <1>6
<1>7. CASE lines[to + 1].kind = "node"
  <2>1. to + 1 \notin from + 1 .. i
    BY <1>3, <1>7
  <2> QED
    BY <1>1, <1>2, <1>3, <1>4, <2>1
<1> QED
  BY <1>5, <1>6, <1>7

(* A table and the lines of an item are lines of the text they are in.     *)
LEMMA BodyIsThere ==
  ASSUME NEW lines, IsList(lines), TableBody(lines) # None
  PROVE  IsList(TableBody(lines)) /\ Elements(TableBody(lines)) \subseteq Elements(lines)
<1> DEFINE opens == {i \in DOMAIN lines : lines[i].kind = "table" /\ Depth(lines, i) = 1}
           i == Min(opens)
           ends == {k \in DOMAIN lines : k > i /\ lines[k].kind = "endtable" /\ Depth(lines, k) = 0}
           to == IF ends = {} THEN Len(lines) ELSE Min(ends) - 1
<1>1. DOMAIN lines = 1 .. Len(lines) /\ Len(lines) \in Nat
  BY DEF IsList
<1>2. opens # {} /\ TableBody(lines) = SubSeq(lines, i + 1, to)
  BY DEF TableBody
<1>3. i \in 1 .. Len(lines)
  <2>1. opens \in SUBSET Nat /\ opens \in SUBSET (1 .. Len(lines))
    BY <1>1
  <2> HIDE DEF opens
  <2> QED
    BY <1>2, <2>1, SmallestOf
<1>4. to \in i .. Len(lines)
  <2>1. ends \in SUBSET Nat /\ \A k \in ends : k \in 1 .. Len(lines) /\ k > i
    BY <1>1
  <2> HIDE DEF i, ends
  <2>2. ends # {} => Min(ends) \in 1 .. Len(lines) /\ Min(ends) > i
    BY <2>1, SmallestOf
  <2>3. CASE ends = {}
    BY <1>1, <1>3, <2>3
  <2>4. CASE ends # {}
    <3> DEFINE end == Min(ends)
    <3> HIDE DEF end
    <3>1. end \in 1 .. Len(lines) /\ end > i
      BY <2>2, <2>4 DEF end
    <3>2. end - 1 \in i .. Len(lines)
      BY <1>1, <1>3, <3>1
    <3> QED
      BY <2>4, <3>2 DEF end
  <2> QED
    BY <2>3, <2>4
<1> HIDE DEF i, to
<1>5. i + 1 \in Nat \ {0} /\ to \in Nat /\ i + 1 <= to + 1 /\ to <= Len(lines)
  BY <1>1, <1>3, <1>4
<1> QED
  BY <1>2, <1>5, PartOf

LEMMA ItemIsThere ==
  ASSUME NEW body, IsList(body), NEW i \in DOMAIN body
  PROVE  Elements(ItemLines(body, i)) \subseteq Elements(body)
<1> DEFINE next == {k \in Items(body) : k > i}
           to == IF next = {} THEN Len(body) ELSE Min(next) - 1
<1>1. DOMAIN body = 1 .. Len(body) /\ Len(body) \in Nat /\ i \in 1 .. Len(body)
  BY DEF IsList
<1>2. ItemLines(body, i) = SubSeq(body, i + 1, to)
  BY DEF ItemLines
<1>4. to \in i .. Len(body)
  <2>1. next \in SUBSET Nat /\ \A k \in next : k \in 1 .. Len(body) /\ k > i
    BY <1>1 DEF Items
  <2> HIDE DEF next
  <2>2. next # {} => Min(next) \in 1 .. Len(body) /\ Min(next) > i
    BY <2>1, SmallestOf
  <2>3. CASE next = {}
    BY <1>1, <2>3
  <2>4. CASE next # {}
    <3> DEFINE end == Min(next)
    <3> HIDE DEF end
    <3>1. end \in 1 .. Len(body) /\ end > i
      BY <2>2, <2>4 DEF end
    <3>2. end - 1 \in i .. Len(body)
      BY <1>1, <3>1
    <3> QED
      BY <2>4, <3>2 DEF end
  <2> QED
    BY <2>3, <2>4
<1> HIDE DEF to
<1>5. i + 1 \in Nat \ {0} /\ to \in Nat /\ i + 1 <= to + 1 /\ to <= Len(body)
  BY <1>1, <1>4
<1> QED
  BY <1>2, <1>5, PartOf

(* The names in code are names that the lines give. *)
LEMMA CodeIsNamed ==
  ASSUME NEW lines, NEW name \in CodeNames(lines)
  PROVE  \E l \in Elements(lines) : name \in NamesOn(l)
<1>1. CASE \E l \in Elements(lines) : l.kind = "code" /\ name = l.name
  BY <1>1 DEF NamesOn
<1>2. CASE \E l \in Elements(lines) : l.kind = "range" /\ name \in Expand(l.from, l.to)
  <2>1. PICK l \in Elements(lines) : l.kind = "range" /\ name \in Expand(l.from, l.to)
    BY <1>2
  <2>2. NamesOn(l) = Expand(l.from, l.to)
    BY <2>1 DEF NamesOn
  <2> QED
    BY <2>1, <2>2
<1> QED
  BY <1>1, <1>2 DEF CodeNames, RangesOf

LEMMA SameMeans ==
  ASSUME NEW manual, NEW source
  PROVE  Same(manual, source) \in Nat /\ (Same(manual, source) = 0 => source = manual)
  BY DEF Same, Against

LEMMA AgainstMeans ==
  ASSUME NEW holds
  PROVE  Against(holds) \in Nat /\ (Against(holds) = 0 => holds)
  BY DEF Against

(* How deep in tables a line is, step by step. *)
LEMMA DepthSteps ==
  ASSUME NEW lines, NEW k \in Nat
  PROVE  /\ Depth(lines, 0) = 0
         /\ Depth(lines, k) \in Int
         /\ Depth(lines, k + 1) = IF lines[k + 1].kind = "table" THEN Depth(lines, k) + 1
                                 ELSE IF lines[k + 1].kind = "endtable" THEN Depth(lines, k) - 1
                                 ELSE Depth(lines, k)
<1> DEFINE of(word, n) == {j \in 1 .. n : lines[j].kind = word}
<1>1. ASSUME NEW word, NEW n \in Nat
      PROVE  IsFiniteSet(of(word, n)) /\ Cardinality(of(word, n)) \in Nat
  <2>1. 1 \in Int /\ n \in Int
    OBVIOUS
  <2>2. IsFiniteSet(1 .. n)
    BY <2>1, FS_Interval
  <2>3. IsFiniteSet(of(word, n))
    BY <2>2, FS_Subset
  <2> QED
    BY <2>3, CountOf
<1>2. ASSUME NEW word
      PROVE  Cardinality(of(word, k + 1)) = IF lines[k + 1].kind = word
                                            THEN Cardinality(of(word, k)) + 1
                                            ELSE Cardinality(of(word, k))
  <2>1. CASE lines[k + 1].kind = word
    <3>1. of(word, k + 1) = of(word, k) \union {k + 1} /\ k + 1 \notin of(word, k)
      BY <2>1
    <3>2. IsFiniteSet(of(word, k))
      BY <1>1
    <3> HIDE DEF of
    <3> QED
      BY <2>1, <3>1, <3>2, FS_AddElement
  <2>2. CASE lines[k + 1].kind # word
    <3>1. of(word, k + 1) = of(word, k)
      BY <2>2
    <3> QED
      BY <2>2, <3>1
  <2> QED
    BY <2>1, <2>2
<1>3. \A n : Depth(lines, n) = Cardinality(of("table", n)) - Cardinality(of("endtable", n))
  BY DEF Depth
<1>4. of("table", 0) = {} /\ of("endtable", 0) = {}
  OBVIOUS
<1>5. Cardinality({}) = 0
  BY FS_EmptySet
<1> HIDE DEF of
<1>6. Cardinality(of("table", k)) \in Nat /\ Cardinality(of("endtable", k)) \in Nat
  BY <1>1
<1>7. Depth(lines, 0) = 0
  BY <1>3, <1>4, <1>5
<1>8. Depth(lines, k) \in Int
  BY <1>3, <1>6
<1>9. Depth(lines, k + 1) = IF lines[k + 1].kind = "table" THEN Depth(lines, k) + 1
                            ELSE IF lines[k + 1].kind = "endtable" THEN Depth(lines, k) - 1
                            ELSE Depth(lines, k)
  <2>1. \A p, q \in Nat : (p + 1) - q = (p - q) + 1 /\ p - (q + 1) = (p - q) - 1
    OBVIOUS
  <2> QED
    BY <1>2, <1>3, <1>6, <2>1
<1> QED
  BY <1>7, <1>8, <1>9

LEMMA DepthInNode ==
  ASSUME NEW lines, NEW name, NEW node, NEW from \in Nat, NEW to \in Nat,
         IsNode(lines, name, node, from, to), NEW k \in 0 .. to - from
  PROVE  Depth(node, k) = Depth(lines, from + k) - Depth(lines, from)
<1> DEFINE same(n) == Depth(node, n) = Depth(lines, from + n) - Depth(lines, from)
           wrong == {n \in 0 .. to - from : ~same(n)}
<1> SUFFICES ASSUME wrong # {} PROVE FALSE
  OBVIOUS
<1>1. wrong \in SUBSET Nat
  OBVIOUS
<1>2. PICK n \in wrong : \A m \in wrong : n <= m
  <2> HIDE DEF wrong
  <2> QED
    BY <1>1, LeastOf
<1>3. Depth(lines, from) \in Int /\ Depth(node, 0) = 0 /\ from + 0 = from
  BY DepthSteps
<1>4. n # 0
  BY <1>3
<1>5. n - 1 \in 0 .. to - from /\ n - 1 \in Nat /\ (n - 1) + 1 = n /\ n - 1 \notin wrong
      /\ n \in 1 .. to - from /\ from + (n - 1) \in Nat /\ (from + (n - 1)) + 1 = from + n
  BY <1>2, <1>4
<1>6. same(n - 1)
  BY <1>5
<1>7. node[n] = lines[from + n]
  BY <1>5 DEF IsNode
<1>8. /\ Depth(node, n - 1) \in Int
      /\ Depth(node, n) = IF node[n].kind = "table" THEN Depth(node, n - 1) + 1
                          ELSE IF node[n].kind = "endtable" THEN Depth(node, n - 1) - 1
                          ELSE Depth(node, n - 1)
  BY <1>5, DepthSteps
<1>9. /\ Depth(lines, from + (n - 1)) \in Int
      /\ Depth(lines, from + n) =
           IF lines[from + n].kind = "table" THEN Depth(lines, from + (n - 1)) + 1
           ELSE IF lines[from + n].kind = "endtable" THEN Depth(lines, from + (n - 1)) - 1
           ELSE Depth(lines, from + (n - 1))
  BY <1>5, DepthSteps
<1>10. same(n)
  <2> DEFINE a == Depth(node, n - 1)
             b == Depth(lines, from + (n - 1))
             c == Depth(lines, from)
  <2>1. a \in Int /\ b \in Int /\ c \in Int /\ a = b - c
    BY <1>3, <1>6, <1>8, <1>9
  <2>2. a + 1 = (b + 1) - c /\ a - 1 = (b - 1) - c
    BY <2>1
  <2> HIDE DEF a, b, c
  <2> QED
    BY <1>7, <1>8, <1>9, <2>1, <2>2 DEF a, b, c
<1> QED
  BY <1>10

(* An item in a table of a text that has one table, inside which others    *)
(* may be, is in the body of that table.                                   *)
LEMMA ItemInBody ==
  ASSUME NEW node, IsList(node), NEW at \in DOMAIN node,
         node[at].kind = "item", Depth(node, at) > 0,
         \A i, j \in DOMAIN node :
           /\ node[i].kind = "table" /\ Depth(node, i) = 1
           /\ node[j].kind = "table" /\ Depth(node, j) = 1
           => i = j
  PROVE  node[at] \in Elements(TableBody(node))
<1> DEFINE D(k) == Depth(node, k)
           inside == {k \in 1 .. at : \A j \in k .. at : D(j) > 0}
<1>1. DOMAIN node = 1 .. Len(node) /\ Len(node) \in Nat /\ at \in 1 .. Len(node)
  BY DEF IsList
<1>2. at \in inside /\ inside \in SUBSET Nat
  BY <1>1
<1>3. PICK k \in inside : \A m \in inside : k <= m
  <2> HIDE DEF inside
  <2> QED
    BY <1>2, LeastOf
<1>4. k \in 1 .. at /\ \A j \in k .. at : D(j) > 0
  BY <1>3
<1>5. ~(D(k - 1) > 0)
  <2>1. CASE k = 1
    <3>1. k - 1 = 0 /\ D(0) = 0
      BY <2>1, DepthSteps
    <3> QED
      BY <3>1
  <2>2. CASE k # 1
    <3> SUFFICES ASSUME D(k - 1) > 0 PROVE FALSE
      OBVIOUS
    <3>1. k - 1 \in 1 .. at /\ \A j \in k - 1 .. at : j = k - 1 \/ j \in k .. at
      BY <1>1, <1>4, <2>2
    <3>2. k - 1 \in inside
      BY <1>4, <3>1
    <3> QED
      BY <1>3, <1>4, <3>2, <1>1
  <2> QED
    BY <2>1, <2>2
<1>6. node[k].kind = "table" /\ D(k) = 1
  <2>1. k - 1 \in Nat /\ (k - 1) + 1 = k
    BY <1>1, <1>4
  <2>2. /\ D(k - 1) \in Int
        /\ D(k) = IF node[k].kind = "table" THEN D(k - 1) + 1
                  ELSE IF node[k].kind = "endtable" THEN D(k - 1) - 1
                  ELSE D(k - 1)
    BY <2>1, DepthSteps
  <2>3. D(k) > 0
    BY <1>1, <1>4
  <2> HIDE DEF D
  <2> QED
    BY <1>5, <2>2, <2>3
<1> DEFINE opens == {i \in DOMAIN node : node[i].kind = "table" /\ D(i) = 1}
           ends == {m \in DOMAIN node : m > k /\ node[m].kind = "endtable" /\ D(m) = 0}
           to == IF ends = {} THEN Len(node) ELSE Min(ends) - 1
<1>7. k \in DOMAIN node /\ k < at
  <2>1. k # at
    BY <1>6
  <2> QED
    BY <1>1, <1>4, <2>1
<1>8. opens = {k}
  BY <1>6, <1>7
<1>9. Min(opens) = k
  <2>1. opens \in SUBSET Nat /\ opens # {}
    BY <1>1, <1>8
  <2> HIDE DEF opens
  <2> QED
    BY <1>8, <2>1, SmallestOf
<1>10. TableBody(node) = SubSeq(node, k + 1, to)
  <2>1. TableBody(node) =
          IF opens = {} THEN None
          ELSE LET i == Min(opens)
                   last == {m \in DOMAIN node : m > i /\ node[m].kind = "endtable" /\ D(m) = 0}
               IN SubSeq(node, i + 1, IF last = {} THEN Len(node) ELSE Min(last) - 1)
    BY DEF TableBody
  <2> HIDE DEF opens
  <2> QED
    BY <1>8, <1>9, <2>1
<1>11. to \in at .. Len(node)
  <2>1. ends \in SUBSET Nat /\ \A m \in ends : m \in 1 .. Len(node) /\ m > at
    <3> SUFFICES ASSUME NEW m \in ends PROVE m \in 1 .. Len(node) /\ m > at
      BY <1>1
    <3>1. m \notin k .. at
      BY <1>4
    <3> QED
      BY <1>1, <1>4, <3>1
  <2> HIDE DEF ends
  <2>2. CASE ends = {}
    BY <1>1, <2>2
  <2>3. CASE ends # {}
    <3> DEFINE end == Min(ends)
    <3> HIDE DEF end
    <3>1. end \in 1 .. Len(node) /\ end > at
      BY <2>1, <2>3, SmallestOf DEF end
    <3>2. end - 1 \in at .. Len(node)
      BY <1>1, <3>1
    <3> QED
      BY <2>3, <3>2 DEF end
  <2> QED
    BY <2>2, <2>3
<1> HIDE DEF to
<1>12. /\ k + 1 \in Nat \ {0} /\ to \in Nat /\ k + 1 <= to + 1 /\ to <= Len(node)
       /\ at - k \in 1 .. to - (k + 1) + 1 /\ (k + 1) + (at - k) - 1 = at
       /\ to - (k + 1) + 1 = to - k
  BY <1>1, <1>4, <1>7, <1>11
<1> DEFINE body == SubSeq(node, k + 1, to)
<1>13. /\ IsList(body) /\ Len(body) = to - (k + 1) + 1
       /\ body[at - k] = node[at]
  BY <1>12, PartOf
<1> HIDE DEF body
<1>14. at - k \in DOMAIN body
  BY <1>12, <1>13 DEF IsList
<1> QED
  BY <1>10, <1>13, <1>14 DEF Elements, body

(* A node begins outside of tables, and of those in it one is in no other. *)
OneTable(lines, name) ==
  /\ \A i \in DOMAIN lines :
       lines[i].kind = "node" /\ lines[i].name = name => Depth(lines, i) = 0
  /\ \A i, j \in DOMAIN lines :
       /\ InNode(lines, i, name) /\ lines[i].kind = "table" /\ Depth(lines, i) = 1
       /\ InNode(lines, j, name) /\ lines[j].kind = "table" /\ Depth(lines, j) = 1
       => i = j

LEMMA ItemInTable ==
  ASSUME NEW lines, IsList(lines), NEW name, Node(lines, name) # None,
         OneNode(lines, name), OneTable(lines, name), Nested(lines),
         NEW i \in DOMAIN lines, InNode(lines, i, name), lines[i].kind = "item"
  PROVE  lines[i] \in Elements(TableBody(Node(lines, name)))
<1> DEFINE node == Node(lines, name)
<1>1. PICK from, to : IsNode(lines, name, node, from, to)
  BY NodeIs
<1> HIDE DEF node
<1>2. /\ DOMAIN lines = 1 .. Len(lines) /\ Len(lines) \in Nat
      /\ from \in 1 .. Len(lines) /\ to \in from .. Len(lines)
      /\ IsList(node) /\ DOMAIN node = 1 .. to - from
  BY <1>1 DEF IsList, IsNode
<1>3. i - from \in 1 .. to - from
  BY <1>1, PlaceInNode
<1>4. Depth(lines, from) = 0
  BY <1>1 DEF OneTable, IsNode
<1>5. ASSUME NEW k \in 1 .. to - from
      PROVE  /\ from + k \in DOMAIN lines /\ node[k] = lines[from + k]
             /\ Depth(node, k) = Depth(lines, from + k)
             /\ InNode(lines, from + k, name)
  <2>1. from \in Nat /\ to \in Nat /\ k \in 0 .. to - from /\ from + k \in Nat
        /\ from + k \in DOMAIN lines
    BY <1>2
  <2>2. Depth(node, k) = Depth(lines, from + k) - 0
    BY <1>1, <1>4, <2>1, DepthInNode
  <2>3. Depth(lines, from + k) \in Int
    BY <2>1, DepthSteps
  <2>4. node[k] = lines[from + k]
    BY <1>1 DEF IsNode
  <2>5. InNode(lines, from + k, name)
    <3>1. from \in 1 .. from + k /\ \A j \in from + 1 .. from + k : j \in from + 1 .. to
      BY <1>2
    <3> QED
      BY <1>1, <3>1 DEF InNode, IsNode
  <2> QED
    BY <2>1, <2>2, <2>3, <2>4, <2>5
<1> DEFINE at == i - from
<1>6. from + at = i /\ at \in DOMAIN node
  BY <1>2, <1>3
<1>7. node[at] = lines[i] /\ Depth(node, at) = Depth(lines, i)
  BY <1>2, <1>5, <1>6
<1> HIDE DEF at
<1>8. Depth(node, at) > 0
  BY <1>7 DEF Nested
<1>9. \A p, q \in DOMAIN node :
        /\ node[p].kind = "table" /\ Depth(node, p) = 1
        /\ node[q].kind = "table" /\ Depth(node, q) = 1
        => p = q
  <2> SUFFICES ASSUME NEW p \in DOMAIN node, node[p].kind = "table", Depth(node, p) = 1,
                      NEW q \in DOMAIN node, node[q].kind = "table", Depth(node, q) = 1
               PROVE  p = q
    OBVIOUS
  <2>1. from + p = from + q
    BY <1>2, <1>5 DEF OneTable
  <2> QED
    BY <1>2, <2>1
<1>10. node[at].kind = "item"
  BY <1>7
<1>11. node[at] \in Elements(TableBody(node))
  BY <1>2, <1>6, <1>8, <1>9, <1>10, ItemInBody
<1> QED
  BY <1>7, <1>11 DEF node

LEMMA DirectivesFound ==
  ASSUME NEW d, IsList(d.texi)
  PROVE  /\ CheckDirectives(d) \in Nat
         /\ CheckDirectives(d) = 0 => DirectivesNamed(d)
         /\ CheckDirectives(d) = 0 /\ OneNode(d.texi, "Directives") /\ OneTable(d.texi, "Directives")
              => DirectivesExist(d)
<1> DEFINE node == Node(d.texi, "Directives")
           body == TableBody(node)
           documented == IF body = None THEN {}
                         ELSE {l.head : l \in {l \in Elements(body) : /\ l.kind \in {"item", "itemx"}
                                                                      /\ l.head[1] = Dot}}
           named == documented \union {l.name : l \in {l \in Elements(node) : /\ l.kind = "code"
                                                                              /\ l.name[1] = Dot}}
           all == Against(documented # {}) + Against(d.directives \subseteq named)
                    + Against(documented \subseteq d.directives)
<1>1. CheckDirectives(d) = IF d.directives = None THEN 1
                           ELSE Against(d.directives # {}) + IF node = None THEN 1 ELSE all
  BY Zenon DEF CheckDirectives
<1>2. /\ all \in Nat
      /\ all = 0 => /\ documented # {} /\ d.directives \subseteq named
                    /\ documented \subseteq d.directives
  <2> HIDE DEF documented, named
  <2>1. /\ Against(documented # {}) \in Nat /\ Against(documented \subseteq d.directives) \in Nat
        /\ Against(documented # {}) = 0 => documented # {}
        /\ Against(documented \subseteq d.directives) = 0 => documented \subseteq d.directives
    BY AgainstMeans
  <2>2. /\ Against(d.directives \subseteq named) \in Nat
        /\ Against(d.directives \subseteq named) = 0 => d.directives \subseteq named
    BY AgainstMeans
  <2> QED
    BY <2>1, <2>2
<1>3. ASSUME node # None PROVE named \subseteq NamesIn(d.texi, "Directives")
  <2>1. PICK from, to : IsNode(d.texi, "Directives", node, from, to)
    BY <1>3, NodeIs
  <2>2. IsList(node) /\ Elements(node) \subseteq LinesIn(d.texi, "Directives")
    <3>1. IsList(node)
      BY <2>1 DEF IsNode
    <3> HIDE DEF node
    <3> QED
      BY <2>1, <3>1, NodeIsThere, Zenon
  <2> HIDE DEF node
  <2>3. body # None => Elements(body) \subseteq Elements(node)
    BY <2>2, BodyIsThere
  <2> HIDE DEF body
  <2>4. \A l : l.kind = "code" => NamesOn(l) = {l.name}
    BY DEF NamesOn
  <2>5. \A l : l.kind \in {"item", "itemx"} => NamesOn(l) = {l.head}
    BY DEF NamesOn
  <2>6. ASSUME NEW n \in named PROVE \E l \in LinesIn(d.texi, "Directives") : n \in NamesOn(l)
    <3>1. CASE n \in documented
      BY <3>1, <2>2, <2>3, <2>5
    <3>2. CASE \E l \in Elements(node) : l.kind = "code" /\ n = l.name
      BY <3>2, <2>2, <2>4
    <3> QED
      BY <2>6, <3>1, <3>2
  <2> QED
    BY <2>6 DEF NamesIn
<1>7. ASSUME node # None, documented # {}, documented \subseteq d.directives,
             OneNode(d.texi, "Directives"), OneTable(d.texi, "Directives")
      PROVE  DirectivesExist(d)
  <2>1. body # None
    BY <1>7
  <2> SUFFICES ASSUME NEW i \in DOMAIN d.texi, Nested(d.texi), InNode(d.texi, i, "Directives"),
                      d.texi[i].kind = "item", d.texi[i].head[1] = Dot
               PROVE  d.texi[i].head \in documented
    BY <1>7 DEF DirectivesExist
  <2>2. d.texi[i] \in Elements(body)
    BY <1>7, ItemInTable
  <2> HIDE DEF body
  <2> QED
    BY <2>1, <2>2
<1> HIDE DEF node, all
<1>4. Against(d.directives # {}) \in Nat
  BY AgainstMeans
<1>5. CheckDirectives(d) \in Nat
  BY <1>1, <1>2, <1>4
<1>6. ASSUME CheckDirectives(d) = 0
      PROVE d.directives # None /\ node # None /\ all = 0
  <2>1. d.directives # None
    BY <1>1, <1>6
  <2>2. CheckDirectives(d) = Against(d.directives # {}) + IF node = None THEN 1 ELSE all
    BY <1>1, <2>1
  <2>3. node # None
    BY <1>4, <1>6, <2>2
  <2>4. CheckDirectives(d) = Against(d.directives # {}) + all
    BY <2>2, <2>3
  <2> QED
    BY <1>2, <1>4, <1>6, <2>1, <2>3, <2>4
<1> HIDE DEF named, documented
<1> QED
  BY <1>2, <1>3, <1>5, <1>6, <1>7 DEF DirectivesNamed

LEMMA OperandsFound ==
  ASSUME NEW d, IsList(d.texi), d.operands # None
  PROVE  /\ CheckOperands(d) \in Nat
         /\ CheckOperands(d) = 0 => OperandsNamed(d) /\ Node(d.texi, "Regs") # None
<1> DEFINE node == Node(d.texi, "Regs")
           body == TableBody(node)
           heads == {body[i].head : i \in Items(body)}
           Under(h) == ItemLines(body, Max({i \in Items(body) : body[i].head = h}))
           listed == UNION {CodeNames(Under(h)) : h \in heads}
           names == {o.name : o \in d.operands}
           InGroup(g) == {o.name : o \in {o \in d.operands : GroupOf(o) = g}}
           broken == {i \in Items(body) : BrokenRanges(ItemLines(body, i)) # {}}
           missed == {g \in {Registers, Bits} : g \notin heads \/ ~(InGroup(g) \subseteq CodeNames(Under(g)))}
           all == Cardinality(broken) + Same(listed, names) + Cardinality(missed)
<1>1. CheckOperands(d) = IF node = None THEN 1 ELSE IF body = None THEN 1 ELSE all
  BY Zenon DEF CheckOperands
<1>2. ASSUME node # None, body # None
      PROVE  IsList(body) /\ Elements(body) \subseteq LinesIn(d.texi, "Regs")
  <2>1. PICK from, to : IsNode(d.texi, "Regs", node, from, to)
    BY <1>2, NodeIs
  <2>2. IsList(node)
    BY <2>1 DEF IsNode
  <2> HIDE DEF node
  <2>3. Elements(node) \subseteq LinesIn(d.texi, "Regs")
    BY <2>1, <2>2, NodeIsThere, Zenon
  <2>4. IsList(body) /\ Elements(body) \subseteq Elements(node)
    BY <1>2, <2>2, BodyIsThere
  <2> QED
    BY <2>3, <2>4
<1> HIDE DEF node, body
<1>3. ASSUME node # None, body # None
      PROVE  listed \subseteq NamesIn(d.texi, "Regs")
  <2> SUFFICES ASSUME NEW h \in heads, NEW n \in CodeNames(Under(h))
               PROVE  n \in NamesIn(d.texi, "Regs")
    OBVIOUS
  <2> DEFINE of == {i \in Items(body) : body[i].head = h}
  <2>1. DOMAIN body = 1 .. Len(body) /\ Len(body) \in Nat
    BY <1>2, <1>3 DEF IsList
  <2>2. of \in SUBSET (1 .. Len(body)) /\ of # {}
    BY <2>1 DEF Items
  <2> HIDE DEF of
  <2>3. Max(of) \in DOMAIN body
    BY <2>1, <2>2, GreatestOf
  <2>4. Elements(ItemLines(body, Max(of))) \subseteq Elements(body)
    BY <1>2, <1>3, <2>3, ItemIsThere
  <2>5. Under(h) = ItemLines(body, Max(of))
    BY DEF of
  <2>6. PICK l \in Elements(ItemLines(body, Max(of))) : n \in NamesOn(l)
    BY <2>5, CodeIsNamed
  <2> QED
    BY <1>2, <1>3, <2>4, <2>6 DEF NamesIn
<1>4. ASSUME node # None, body # None
      PROVE  Cardinality(broken) \in Nat /\ Cardinality(missed) \in Nat
  <2>1. IsFiniteSet(broken)
    <3>1. broken \in SUBSET DOMAIN body
      BY DEF Items
    <3> QED
      BY <1>2, <1>4, <3>1, ListIsFinite
  <2>2. IsFiniteSet(missed)
    <3>1. IsFiniteSet({Registers, Bits})
      <4>1. IsFiniteSet({Registers})
        BY FS_Singleton
      <4>2. {Registers, Bits} = {Registers} \union {Bits}
        OBVIOUS
      <4> QED
        BY <4>1, <4>2, FS_AddElement
    <3>2. missed \in SUBSET {Registers, Bits}
      OBVIOUS
    <3> HIDE DEF missed
    <3> QED
      BY <3>1, <3>2, FS_Subset
  <2> HIDE DEF broken, missed
  <2> QED
    BY <2>1, <2>2, CountOf
<1> HIDE DEF listed, broken, missed
<1>5. Same(listed, names) \in Nat /\ (Same(listed, names) = 0 => names = listed)
  BY SameMeans
<1>6. CASE node = None \/ body = None
  BY <1>1, <1>6
<1>7. CASE node # None /\ body # None
  <2>1. CheckOperands(d) = all
    BY <1>1, <1>7
  <2>2. CheckOperands(d) \in Nat /\ (CheckOperands(d) = 0 => Same(listed, names) = 0)
    BY <1>4, <1>5, <1>7, <2>1
  <2>3. CheckOperands(d) = 0 => OperandsNamed(d)
    BY <1>3, <1>5, <1>7, <2>2 DEF OperandsNamed
  <2> QED
    BY <1>7, <2>2, <2>3 DEF node
<1> QED
  BY <1>6, <1>7

LEMMA ValuesFound ==
  ASSUME NEW d, IsList(d.texi)
  PROVE  /\ CheckValues(d) \in Nat
         /\ CheckValues(d) = 0 /\ Node(d.texi, "Regs") # None /\ OneNode(d.texi, "Regs") => ValuesAsSaid(d)
<1> DEFINE node == Node(d.texi, "Regs")
           says == {i \in DOMAIN node : node[i].kind = "byte"}
           After(i) == {k \in DOMAIN node : k > i /\ node[k].kind = "hex"}
           Wrong(i) == ~\E o \in d.operands : o.name = node[i].name
                                              /\ o.value = node[Min(After(i))].value
           bad == {i \in says : After(i) = {} \/ Wrong(i)}
           none == Against(\E i \in says : After(i) # {})
<1>1. CheckValues(d) = IF node = None THEN 0 ELSE Cardinality(bad) + none
  BY Zenon DEF CheckValues
<1>2. CASE node = None
  BY <1>1, <1>2
<1>3. CASE node # None
  <2>1. PICK from, to : IsNode(d.texi, "Regs", node, from, to)
    BY <1>3, NodeIs
  <2>2. IsList(node)
    BY <2>1 DEF IsNode
  <2> HIDE DEF node
  <2>3. IsFiniteSet(bad)
    <3>1. bad \in SUBSET DOMAIN node
      OBVIOUS
    <3> QED
      BY <2>2, <3>1, ListIsFinite
  <2>4. none \in Nat
    BY AgainstMeans
  <2> HIDE DEF none
  <2>5. Cardinality(bad) \in Nat /\ (Cardinality(bad) = 0 => bad = {})
    <3> HIDE DEF bad
    <3> QED
      BY <2>3, CountOf
  <2>6. CheckValues(d) \in Nat /\ (CheckValues(d) = 0 => bad = {})
    <3> HIDE DEF bad
    <3> QED
      BY <1>1, <1>3, <2>4, <2>5
  <2>7. ASSUME bad = {}, OneNode(d.texi, "Regs"),
               NEW i \in DOMAIN d.texi, InNode(d.texi, i, "Regs"), d.texi[i].kind = "byte",
               i < Len(d.texi), d.texi[i + 1].kind = "hex"
        PROVE  \E o \in d.operands : o.name = d.texi[i].name /\ o.value = d.texi[i + 1].value
    <3> DEFINE lines == d.texi
               at == i - from
    <3>1. DOMAIN lines = 1 .. Len(lines) /\ Len(lines) \in Nat /\ i \in 1 .. Len(lines)
      BY DEF IsList
    <3>2. from \in 1 .. Len(lines) /\ to \in from .. Len(lines) /\ DOMAIN node = 1 .. to - from
      BY <2>1, <3>1 DEF IsNode, IsList
    <3>0. \A x \in DOMAIN d.texi :
            InNode(d.texi, x, "Regs") /\ d.texi[x].kind # "node" => x - from \in 1 .. to - from
      BY <2>1, <2>7, PlaceInNode
    <3>3. i - from \in 1 .. to - from
      BY <2>7, <3>0
    <3>4. (i + 1) - from \in 1 .. to - from
      <4>1. i + 1 \in DOMAIN lines
        BY <2>7, <3>1
      <4>2. InNode(lines, i + 1, "Regs")
        <5>1. PICK k \in 1 .. i : /\ lines[k].kind = "node" /\ lines[k].name = "Regs"
                                  /\ \A j \in k + 1 .. i : lines[j].kind # "node"
          BY <2>7 DEF InNode
        <5>2. k \in 1 .. i + 1 /\ \A j \in k + 1 .. i + 1 : j \in k + 1 .. i \/ j = i + 1
          BY <3>1
        <5> QED
          BY <2>7, <5>1, <5>2 DEF InNode
      <4>3. d.texi[i + 1].kind # "node"
        BY <2>7
      <4> QED
        BY <3>0, <4>1, <4>2, <4>3
    <3>6. /\ at \in 1 .. to - from /\ at + 1 \in 1 .. to - from
          /\ from + at = i /\ from + (at + 1) = i + 1
      BY <3>1, <3>2, <3>3, <3>4
    <3> HIDE DEF at
    <3>7. node[at] = lines[i] /\ node[at + 1] = lines[i + 1]
      BY <2>1, <3>6 DEF IsNode
    <3>8. at \in says /\ at + 1 \in After(at) /\ After(at) \in SUBSET Nat
          /\ \A k \in After(at) : k >= at + 1
      BY <2>7, <3>2, <3>6, <3>7
    <3>9. Min(After(at)) = at + 1
      <4> HIDE DEF After
      <4>1. After(at) # {}
        BY <3>8
      <4>2. Min(After(at)) \in After(at) /\ \A k \in After(at) : Min(After(at)) <= k
        BY <3>8, <4>1, SmallestOf
      <4>3. Min(After(at)) \in Nat /\ at + 1 \in Nat /\ Min(After(at)) <= at + 1
            /\ Min(After(at)) >= at + 1
        BY <3>6, <3>8, <4>2
      <4> QED
        BY <4>3
    <3>10. ~Wrong(at)
      BY <2>7, <3>8
    <3> QED
      BY <3>7, <3>9, <3>10
  <2>8. bad = {} /\ OneNode(d.texi, "Regs") => ValuesAsSaid(d)
    <3> HIDE DEF bad
    <3> QED
      BY <2>7 DEF ValuesAsSaid
  <2> QED
    BY <2>6, <2>8
<1> QED
  BY <1>2, <1>3 DEF node

LEMMA RelocationsFound ==
  ASSUME NEW d
  PROVE  /\ CheckRelocations(d) \in Nat
         /\ CheckRelocations(d) = 0 => RelocationsNamed(d)
<1> DEFINE said == {l.name : l \in {l \in Elements(d.texi) : l.kind = "reloc"}}
<1>1. CheckRelocations(d) = Against(d.relocs # {}) + Same(said, d.relocs)
  BY DEF CheckRelocations
<1>2. RelocationsNamed(d) <=> said = d.relocs
  BY DEF RelocationsNamed
<1> HIDE DEF said
<1>3. Same(said, d.relocs) \in Nat /\ (Same(said, d.relocs) = 0 => d.relocs = said)
  BY SameMeans
<1>4. Against(d.relocs # {}) \in Nat
  BY AgainstMeans
<1>5. CheckRelocations(d) = 0 => Same(said, d.relocs) = 0
  BY <1>1, <1>3, <1>4
<1> QED
  BY <1>1, <1>2, <1>3, <1>4, <1>5

LEMMA BlocksCounted ==
  ASSUME NEW lines, IsList(lines), NEW some, some \subseteq Blocks(lines)
  PROVE  Cardinality(some) \in Nat
<1>1. some \in SUBSET DOMAIN lines
  BY DEF Blocks
<1> QED
  BY <1>1, ListIsFinite, CountOf

LEMMA MnemonicsCounted ==
  ASSUME NEW d
  PROVE  CheckMnemonics(d) \in Nat
<1> DEFINE lists == {i \in Blocks(d.texi) : Marked(d.texi, i) = "mnemonics"}
           said == Elements(TextOf(BlockBody(d.texi, Max(lists))))
<1>1. CheckMnemonics(d) = Against(d.mnemonics # {})
                          + IF Cardinality(lists) # 1 THEN 1 ELSE Same(said, d.mnemonics)
  BY Zenon DEF CheckMnemonics
<1> HIDE DEF lists, said
<1>2. Against(d.mnemonics # {}) \in Nat
  BY AgainstMeans
<1>3. Same(said, d.mnemonics) \in Nat
  BY SameMeans
<1> QED
  BY <1>1, <1>2, <1>3

LEMMA DiagnosticsCounted ==
  ASSUME NEW d, IsList(d.texi)
  PROVE  CheckDiagnostics(d) \in Nat
<1> DEFINE kind(i) == Marked(d.texi, i)
           body(i) == BlockBody(d.texi, i)
           diagnostics == {i \in Blocks(d.texi) : kind(i) = "diagnostic"}
           loose == {i \in Blocks(d.texi) : kind(i) = None /\ \E l \in Elements(body(i)) : l.error}
           unsaid == {i \in diagnostics :
                        ~\E f \in CStrings(d.gas) : CanPrint(f, Quoted(body(i)))}
<1>1. CheckDiagnostics(d) = Cardinality(loose) + Cardinality(unsaid) + Against(diagnostics # {})
  BY Zenon DEF CheckDiagnostics
<1>2. loose \subseteq Blocks(d.texi) /\ unsaid \subseteq Blocks(d.texi)
  OBVIOUS
<1> HIDE DEF loose, unsaid
<1>3. Cardinality(loose) \in Nat /\ Cardinality(unsaid) \in Nat
  BY <1>2, BlocksCounted
<1>4. Against(diagnostics # {}) \in Nat
  BY AgainstMeans
<1> HIDE DEF diagnostics
<1> QED
  BY <1>1, <1>3, <1>4

LEMMA FilesFound ==
  ASSUME NEW d, IsList(d.patch), AddedFiles(d.patch) # None, Needed \subseteq DOMAIN AddedFiles(d.patch)
  PROVE  FilesAdded(d)
<1> DEFINE lines == d.patch
           names == {lines[i - 1].text : i \in Hunks(lines)}
<1>1. /\ \A i \in Hunks(lines) : i # 1 /\ lines[i - 1].kind = "path"
      /\ DOMAIN AddedFiles(lines) = names
  BY DEF AddedFiles
<1> SUFFICES ASSUME NEW f \in Needed
             PROVE  \E k \in DOMAIN lines : lines[k].kind = "path" /\ lines[k].text = f
  BY DEF FilesAdded
<1>2. PICK i \in Hunks(lines) : f = lines[i - 1].text
  BY <1>1
<1>3. i - 1 \in DOMAIN lines
  BY <1>1 DEF Hunks, IsList
<1> QED
  BY <1>1, <1>2, <1>3

(* What the manual says is so, as far as names and numbers go. *)
NamesAndNumbersRight(d) ==
  /\ FilesAdded(d)
  /\ DirectivesNamed(d)
  /\ OneNode(d.texi, "Directives") /\ OneTable(d.texi, "Directives") => DirectivesExist(d)
  /\ OperandsNamed(d)
  /\ RelocationsNamed(d)
  /\ OneNode(d.texi, "Regs") => ValuesAsSaid(d)

LEMMA DocNamesAndNumbers ==
  ASSUME NEW d \in Given("doctruth"), DocTruthVerdict(d) = "PASS"
  PROVE  NamesAndNumbersRight(d)
<1> DEFINE operands == IF d.operands = None THEN 1 ELSE CheckOperands(d) + CheckValues(d)
           bad == CheckDirectives(d) + operands
                  + CheckRelocations(d) + CheckMnemonics(d) + CheckDiagnostics(d)
<1>1. IsList(d.patch) /\ IsList(d.texi)
  BY DocAssumption
<1>2. /\ AddedFiles(d.patch) # None /\ Needed \subseteq DOMAIN AddedFiles(d.patch)
      /\ Judge(bad) = "PASS"
  BY DEF DocTruthVerdict
<1>3. bad = 0
  BY <1>2 DEF Judge
<1>4. /\ CheckDirectives(d) \in Nat /\ CheckRelocations(d) \in Nat
      /\ CheckMnemonics(d) \in Nat /\ CheckDiagnostics(d) \in Nat
  BY <1>1, DirectivesFound, RelocationsFound, MnemonicsCounted, DiagnosticsCounted
<1>5. d.operands # None => CheckOperands(d) \in Nat /\ CheckValues(d) \in Nat
  BY <1>1, OperandsFound, ValuesFound
<1>6. operands \in Nat
  BY <1>5
<1>7. CheckDirectives(d) = 0 /\ operands = 0 /\ CheckRelocations(d) = 0
  <2> HIDE DEF operands
  <2>1. \A p, q, r, s, t \in Nat : p + q + r + s + t = 0 => p = 0 /\ q = 0 /\ r = 0
    OBVIOUS
  <2> QED
    BY <1>3, <1>4, <1>6, <2>1
<1>8. d.operands # None /\ CheckOperands(d) = 0 /\ CheckValues(d) = 0
  BY <1>5, <1>7
<1>9. OperandsNamed(d) /\ Node(d.texi, "Regs") # None
  BY <1>1, <1>8, OperandsFound
<1>10. OneNode(d.texi, "Regs") => ValuesAsSaid(d)
  BY <1>1, <1>8, <1>9, ValuesFound
<1> QED
  BY <1>1, <1>2, <1>7, <1>9, <1>10, FilesFound, DirectivesFound, RelocationsFound
     DEF NamesAndNumbersRight

LEMMA EndedDoc == Ended => (tool = "doctruth" /\ verdict = "PASS" => NamesAndNumbersRight(input))
<1> SUFFICES ASSUME Ended, tool = "doctruth", verdict = "PASS"
             PROVE  NamesAndNumbersRight(input)
  OBVIOUS
<1>1. input \in Given("doctruth")
  BY GivenIsInput DEF Ended
<1>2. DocTruthVerdict(input) = "PASS"
  BY DEF Ended, JudgedAs
<1> QED
  BY <1>1, <1>2, DocNamesAndNumbers

(* Of any manual that doctruth passes, the files it is checked against are *)
(* there, and the directives, the operands and the relocations of the port *)
(* are those it names, none missing.  The directives it describes exist if *)
(* it describes them in one table, and what it says a name assembles to is *)
(* so if it has one node for it.                                           *)
THEOREM DocAlwaysNamesWhatIsThere ==
  Spec => [](tool = "doctruth" /\ verdict = "PASS" => NamesAndNumbersRight(input))
  BY EndedCorrect, EndedDoc, PTL
-----------------------------------------------------------------------------
(* The converters.  What a field reads as, in either order.                *)
LEMMA FieldReads ==
  ASSUME NEW field, IsField(field)
  PROVE  /\ Big(field) \in Nat
         /\ \A data : Read(field, data) \in Nat
         /\ Read(Little(Big(field)), Lsb) = Big(field)
<1>1. field[1] \in 0 .. 255 /\ field[2] \in 0 .. 255
  BY DEF IsField
<1>2. \A p, q \in 0 .. 255 : 256 * p + q \in Nat /\ p + 256 * q \in Nat
  OBVIOUS
<1>3. ASSUME NEW data PROVE Read(field, data) \in Nat
  <2>1. 256 * field[1] + field[2] \in Nat
    BY <1>1, <1>2, Zenon
  <2>2. field[1] + 256 * field[2] \in Nat
    BY <1>1, <1>2, Zenon
  <2>3. \/ Read(field, data) = 256 * field[1] + field[2]
        \/ Read(field, data) = field[1] + 256 * field[2]
    BY Zenon DEF Read
  <2> QED
    BY <2>1, <2>2, <2>3, Zenon
<1>4. Big(field) \in Nat
  BY <1>3 DEF Big
<1>5. ASSUME NEW v \in Nat PROVE Read(Little(v), Lsb) = v
  BY DEF Read, Little, Lsb, Msb
<1> QED
  BY <1>3, <1>4, <1>5

ValuesOf(fields, data) == [f \in DOMAIN fields |-> Read(fields[f], data)]

LEMMA TurnedReads ==
  ASSUME NEW fields, AllFields(fields)
  PROVE  /\ DOMAIN Turned(fields) = DOMAIN fields
         /\ \A f \in DOMAIN fields : Read(Turned(fields)[f], Lsb) = Big(fields[f])
         /\ ValuesOf(Turned(fields), Lsb) = ValuesOf(fields, Msb)
<1>1. DOMAIN Turned(fields) = DOMAIN fields
  BY DEF Turned
<1>2. \A f \in DOMAIN fields : Read(Turned(fields)[f], Lsb) = Big(fields[f])
  <2> SUFFICES ASSUME NEW f \in DOMAIN fields
               PROVE  Read(Turned(fields)[f], Lsb) = Big(fields[f])
    OBVIOUS
  <2>1. Turned(fields)[f] = Little(Big(fields[f]))
    BY DEF Turned
  <2> QED
    BY <2>1, FieldReads DEF AllFields
<1>3. ValuesOf(Turned(fields), Lsb) = ValuesOf(fields, Msb)
  BY <1>1, <1>2 DEF ValuesOf, Big
<1> QED
  BY <1>1, <1>2, <1>3

(* What a reader sees of one section.                                      *)
SeenSection(s, data) ==
  [header  |-> ValuesOf(s.header, data),
   entries |-> IF Read(s.header.type, data) \in {SHT_SYMTAB, SHT_RELA}
               THEN [k \in DOMAIN s.entries |-> ValuesOf(s.entries[k], data)] ELSE s.entries]

LEMMA ConvertedFields ==
  ASSUME NEW s, SectionCase(s, Msb)
  PROVE  /\ ConvertSection(s).header = Turned(s.header)
         /\ ConvertSection(s).entries =
              IF Big(s.header.type) \in {SHT_SYMTAB, SHT_RELA}
              THEN TurnedEntries(s.entries, EntryCount(s.header)) ELSE s.entries
  BY DEF ConvertSection, SectionCase

(* Every entry of a whole table is converted.                              *)
LEMMA AllEntriesTurn ==
  ASSUME NEW s, SectionCase(s, Msb),
         Big(s.header.size) = Big(s.header.entsize) * Len(s.entries)
  PROVE  \A k \in DOMAIN s.entries : k <= EntryCount(s.header)
<1> DEFINE L == Len(s.entries)
           z == Big(s.header.entsize)
<1>1. L \in Nat /\ DOMAIN s.entries = 1 .. L
  BY DEF SectionCase, IsList
<1>2. z \in Nat
  BY FieldReads DEF SectionCase, AllFields
<1>3. Big(s.header.size) = z * L
  OBVIOUS
<1>4. Big(s.header.size) = 0 => s.entries = <<>>
  BY DEF SectionCase
<1>5. EntryCount(s.header) = IF z = 0 THEN 0 ELSE Big(s.header.size) \div z
  BY DEF EntryCount
<1> HIDE DEF z, L
<1>6. CASE z = 0
  <2>1. Big(s.header.size) = 0
    BY <1>1, <1>3, <1>6
  <2> QED
    BY <1>4, <2>1
<1>7. CASE z # 0
  <2>1. (z * L) \div z = L
    BY <1>1, <1>2, <1>7, QuotientExact
  <2> QED
    BY <1>1, <1>3, <1>5, <1>7, <2>1
<1> QED
  BY <1>6, <1>7

LEMMA SectionReadsTheSame ==
  ASSUME NEW s, SectionCase(s, Msb),
         Big(s.header.type) \in {SHT_SYMTAB, SHT_RELA} =>
           Big(s.header.size) = Big(s.header.entsize) * Len(s.entries)
  PROVE  SeenSection(ConvertSection(s), Lsb) = SeenSection(s, Msb)
<1> DEFINE c == ConvertSection(s)
           Table == Big(s.header.type) \in {SHT_SYMTAB, SHT_RELA}
<1>1. /\ c.header = Turned(s.header)
      /\ c.entries = IF Table THEN TurnedEntries(s.entries, EntryCount(s.header)) ELSE s.entries
  BY ConvertedFields
<1>2. AllFields(s.header) /\ "type" \in DOMAIN s.header
  BY DEF SectionCase
<1>3. ValuesOf(c.header, Lsb) = ValuesOf(s.header, Msb)
  BY <1>1, <1>2, TurnedReads
<1>4. Read(c.header.type, Lsb) = Big(s.header.type) /\ Read(s.header.type, Msb) = Big(s.header.type)
  BY <1>1, <1>2, TurnedReads DEF Big
<1>5. ASSUME Table
      PROVE  /\ DOMAIN c.entries = DOMAIN s.entries
             /\ \A k \in DOMAIN s.entries : ValuesOf(c.entries[k], Lsb) = ValuesOf(s.entries[k], Msb)
  <2>1. \A k \in DOMAIN s.entries : k <= EntryCount(s.header)
    BY <1>5, AllEntriesTurn
  <2>2. c.entries = TurnedEntries(s.entries, EntryCount(s.header))
    BY <1>1, <1>5
  <2>3. /\ DOMAIN c.entries = DOMAIN s.entries
        /\ \A k \in DOMAIN s.entries : c.entries[k] = Turned(s.entries[k])
    BY <2>1, <2>2 DEF TurnedEntries
  <2>4. \A k \in DOMAIN s.entries : AllFields(s.entries[k])
    BY <1>4, <1>5 DEF SectionCase
  <2> QED
    BY <2>3, <2>4, TurnedReads
<1> HIDE DEF c
<1>6. CASE Table
  <2>1. [k \in DOMAIN c.entries |-> ValuesOf(c.entries[k], Lsb)]
          = [k \in DOMAIN s.entries |-> ValuesOf(s.entries[k], Msb)]
    BY <1>5, <1>6
  <2> QED
    BY <1>3, <1>4, <1>6, <2>1 DEF SeenSection, c
<1>7. CASE ~Table
  BY <1>1, <1>3, <1>4, <1>7 DEF SeenSection, c
<1> QED
  BY <1>6, <1>7

(* What le2be makes of an object that it does not refuse.                  *)
LEMMA ConvertedIs ==
  ASSUME NEW o, ObjectCase(o), ConvertElf(o) # None
  PROVE  LET mid == ConvertElf(o)
         IN /\ o.elf /\ o.class = 1
            /\ DOMAIN mid = DOMAIN o
            /\ mid.elf = o.elf /\ mid.class = o.class /\ mid.at = o.at /\ mid.data = Lsb
            /\ mid.header = [Turned(o.header) EXCEPT !.machine = Little(EM_8051)]
            /\ mid.sections = [k \in DOMAIN o.sections |->
                                 IF k \in Found(o, Msb) THEN ConvertSection(o.sections[k])
                                 ELSE o.sections[k]]
  BY DEF ConvertElf, ObjectCase

LEMMA ConvertedHeader ==
  ASSUME NEW o, ObjectCase(o), NEW h, h = [Turned(o.header) EXCEPT !.machine = Little(EM_8051)]
  PROVE  /\ ValuesOf(h, Lsb) = [ValuesOf(o.header, Msb) EXCEPT !.machine = EM_8051]
         /\ Read(h.shoff, Lsb) = Big(o.header.shoff)
         /\ Read(h.shnum, Lsb) = Big(o.header.shnum)
<1> DEFINE t == Turned(o.header)
<1>1. /\ DOMAIN t = DOMAIN o.header
      /\ \A f \in DOMAIN o.header : Read(t[f], Lsb) = Big(o.header[f])
  BY TurnedReads DEF ObjectCase
<1>2. Read(Little(EM_8051), Lsb) = EM_8051
  BY DEF Read, Little, Lsb, Msb, EM_8051
<1>3. "shoff" \in DOMAIN o.header /\ "shnum" \in DOMAIN o.header
  BY DEF ObjectCase
<1> HIDE DEF t
<1>4. /\ DOMAIN h = DOMAIN o.header
      /\ \A f \in DOMAIN o.header : Read(h[f], Lsb) = IF f = "machine" THEN EM_8051
                                                      ELSE Big(o.header[f])
  BY <1>1, <1>2 DEF t
<1>5. ValuesOf(h, Lsb) = [ValuesOf(o.header, Msb) EXCEPT !.machine = EM_8051]
  BY <1>4 DEF ValuesOf, Big
<1> QED
  BY <1>3, <1>4, <1>5

(* What sym_uc makes of an object that it does not refuse.                 *)
NamesKept(o, after) ==
  /\ after.elf = o.elf /\ after.class = o.class /\ after.data = o.data
  /\ after.header = o.header /\ after.at = o.at
  /\ DOMAIN after.sections = DOMAIN o.sections /\ Len(after.sections) = Len(o.sections)
  /\ \A k \in DOMAIN o.sections :
       /\ after.sections[k].header = o.sections[k].header
       /\ k - 1 \in NameTables(o) => after.sections[k].entries = Uppercase(o.sections[k].entries)
       /\ k - 1 \notin NameTables(o) => after.sections[k] = o.sections[k]

LEMMA UppercasedIs ==
  ASSUME NEW o, DOMAIN o = {"elf", "class", "data", "header", "at", "sections"},
         IsList(o.sections),
         \A k \in DOMAIN o.sections : DOMAIN o.sections[k] = {"header", "entries"},
         UppercaseSymbols(o) # None
  PROVE  NamesKept(o, UppercaseSymbols(o))
<1> DEFINE after == UppercaseSymbols(o)
           upper(k) == [o.sections[k] EXCEPT !.entries = Uppercase(@)]
           sections == [k \in DOMAIN o.sections |->
                          IF k - 1 \in NameTables(o) THEN upper(k) ELSE o.sections[k]]
<1>1. after = [o EXCEPT !.sections = sections]
  BY DEF UppercaseSymbols
<1> HIDE DEF after
<1>2. \A k \in DOMAIN o.sections :
        upper(k).header = o.sections[k].header /\ upper(k).entries = Uppercase(o.sections[k].entries)
  OBVIOUS
<1> HIDE DEF upper
<1>3. Len(o.sections) \in Nat /\ DOMAIN o.sections = 1 .. Len(o.sections)
  BY DEF IsList
<1>4. Len(sections) = Len(o.sections)
  <2>1. sections = [k \in 1 .. Len(o.sections) |-> sections[k]]
    BY <1>3
  <2> HIDE DEF sections
  <2> QED
    BY <1>3, <2>1, LenIs
<1>5. /\ DOMAIN sections = DOMAIN o.sections
      /\ \A k \in DOMAIN o.sections :
           /\ sections[k].header = o.sections[k].header
           /\ k - 1 \in NameTables(o) => sections[k].entries = Uppercase(o.sections[k].entries)
           /\ k - 1 \notin NameTables(o) => sections[k] = o.sections[k]
  BY <1>2
<1> HIDE DEF sections
<1>6. /\ after.elf = o.elf /\ after.class = o.class /\ after.data = o.data
      /\ after.header = o.header /\ after.at = o.at /\ after.sections = sections
  BY <1>1
<1>7. NamesKept(o, after)
  BY <1>4, <1>5, <1>6 DEF NamesKept
<1> QED
  BY <1>7 DEF after

(* Upper-casing an object twice is upper-casing it once.                   *)
LEMMA UppercaseTwice ==
  ASSUME NEW names
  PROVE  Uppercase(Uppercase(names)) = Uppercase(names)
<1>1. \A name : Upper(Upper(name)) = Upper(name)
  BY DEF Upper
<1>2. /\ DOMAIN Uppercase(names) = DOMAIN names
      /\ \A k \in DOMAIN names : Uppercase(names)[k] = Upper(names[k])
  BY DEF Uppercase
<1>3. \A k \in DOMAIN names : Upper(Uppercase(names)[k]) = Uppercase(names)[k]
  BY <1>1, <1>2
<1>4. Uppercase(names) = [k \in DOMAIN names |-> Uppercase(names)[k]]
  BY DEF Uppercase
<1>5. Uppercase(Uppercase(names)) = [k \in DOMAIN names |-> Uppercase(names)[k]]
  BY <1>2, <1>3 DEF Uppercase
<1> QED
  BY <1>4, <1>5

(* A reader finds no section headers but those that are there.             *)
LEMMA FoundIsThere ==
  ASSUME NEW o, NEW data, IsList(o.sections), Read(o.header.shnum, data) \in Nat
  PROVE  /\ Found(o, data) \in SUBSET (DOMAIN o.sections)
         /\ /\ Read(o.header.shoff, data) = o.at
            /\ Read(o.header.shnum, data) <= Len(o.sections)
            => Found(o, data) = 1 .. Read(o.header.shnum, data)
<1> DEFINE n == Read(o.header.shnum, data)
           L == Len(o.sections)
<1>1. L \in Nat /\ DOMAIN o.sections = 1 .. L
  BY DEF IsList
<1>2. Min({n, L}) = IF n <= L THEN n ELSE L
  BY <1>1, MinOfTwo
<1>3. Found(o, data) = IF Read(o.header.shoff, data) = o.at THEN 1 .. Min({n, L}) ELSE {}
  BY DEF Found
<1> HIDE DEF n, L
<1>4. 1 .. Min({n, L}) \in SUBSET (1 .. L)
  BY <1>1, <1>2 DEF n
<1>5. n <= L => Min({n, L}) = n
  BY <1>2
<1> QED
  BY <1>1, <1>3, <1>4, <1>5 DEF n, L

(* What is read of the headers is the same after it.                       *)
LEMMA HeadersKept ==
  ASSUME NEW o, NEW after, NamesKept(o, after), IsList(o.sections),
         Read(o.header.shnum, o.data) \in Nat
  PROVE  /\ NotAnObject(after) <=> NotAnObject(o)
         /\ Found(after, after.data) = Found(o, o.data)
         /\ \A type : OfType(after, type) = OfType(o, type)
         /\ NameTables(after) = NameTables(o)
<1>1. NotAnObject(after) <=> NotAnObject(o)
  BY DEF NamesKept, NotAnObject
<1>2. Found(after, after.data) = Found(o, o.data)
  BY DEF NamesKept, Found
<1>3. after.data = o.data /\ \A k \in DOMAIN o.sections :
                               after.sections[k].header = o.sections[k].header
  BY DEF NamesKept
<1>4. Found(o, o.data) \in SUBSET (DOMAIN o.sections)
  BY FoundIsThere
<1>5. \A type : OfType(after, type) = OfType(o, type)
  BY <1>2, <1>3, <1>4 DEF OfType
<1>6. OfType(o, SHT_SYMTAB) \in SUBSET (DOMAIN o.sections)
  BY <1>4 DEF OfType
<1>7. NameTables(after) = NameTables(o)
  BY <1>3, <1>5, <1>6 DEF NameTables, LinkOf
<1> QED
  BY <1>1, <1>2, <1>5, <1>7

WithUpper(o, T) ==
  [o EXCEPT !.sections =
     [k \in DOMAIN o.sections |->
        IF k - 1 \in T THEN [o.sections[k] EXCEPT !.entries = Uppercase(@)] ELSE o.sections[k]]]

LEMMA UppercasesTables ==
  ASSUME NEW o, ~NotAnObject(o),
         ~\E t \in NameTables(o) : t + 1 \notin OfType(o, SHT_STRTAB)
  PROVE  UppercaseSymbols(o) = WithUpper(o, NameTables(o))
  BY Zenon DEF UppercaseSymbols, WithUpper

LEMMA UppercasesOnce ==
  ASSUME NEW o, ObjectCase(o), NEW after, after = UppercaseSymbols(o), after # None
  PROVE  /\ after.header = o.header /\ after.data = o.data
         /\ UppercaseSymbols(after) = after
<1>1. /\ DOMAIN o = {"elf", "class", "data", "header", "at", "sections"}
      /\ IsList(o.sections)
      /\ \A k \in DOMAIN o.sections : DOMAIN o.sections[k] = {"header", "entries"}
      /\ Read(o.header.shnum, o.data) \in Nat
  BY FieldReads DEF ObjectCase, SectionCase, AllFields
<1>2. NamesKept(o, after)
  BY <1>1, UppercasedIs
<1>3. /\ NotAnObject(after) <=> NotAnObject(o)
      /\ \A type : OfType(after, type) = OfType(o, type)
      /\ NameTables(after) = NameTables(o)
  BY <1>1, <1>2, HeadersKept
<1>4. ~NotAnObject(o) /\ ~\E t \in NameTables(o) : t + 1 \notin OfType(o, SHT_STRTAB)
  BY DEF UppercaseSymbols
<1> DEFINE T == NameTables(o)
           sections == [k \in DOMAIN o.sections |->
                          IF k - 1 \in T
                          THEN [o.sections[k] EXCEPT !.entries = Uppercase(@)] ELSE o.sections[k]]
           again == [k \in DOMAIN after.sections |->
                       IF k - 1 \in T
                       THEN [after.sections[k] EXCEPT !.entries = Uppercase(@)]
                       ELSE after.sections[k]]
<1>5. UppercaseSymbols(after) = [after EXCEPT !.sections = again]
  <2>1. UppercaseSymbols(after) = WithUpper(after, NameTables(after))
    BY <1>3, <1>4, UppercasesTables
  <2>2. UppercaseSymbols(after) = WithUpper(after, T)
    BY <1>3, <2>1
  <2> QED
    BY <2>2, Zenon DEF WithUpper
<1>6. after = [o EXCEPT !.sections = sections]
  <2>1. after = WithUpper(o, T)
    BY <1>4, UppercasesTables
  <2> QED
    BY <2>1, Zenon DEF WithUpper
<1>7. DOMAIN after = DOMAIN o /\ after.sections = sections
  BY <1>1, <1>6
<1>8. again = sections
  <2>1. DOMAIN sections = DOMAIN o.sections /\ DOMAIN again = DOMAIN o.sections
    BY <1>7
  <2>2. ASSUME NEW k \in DOMAIN o.sections, k - 1 \in T PROVE again[k] = sections[k]
    <3> DEFINE s == o.sections[k]
               u == [s EXCEPT !.entries = Uppercase(@)]
    <3>1. DOMAIN s = {"header", "entries"}
      BY <1>1
    <3>2. sections[k] = u /\ again[k] = [u EXCEPT !.entries = Uppercase(@)]
      BY <1>7, <2>2
    <3> HIDE DEF s
    <3>3. u.entries = Uppercase(s.entries)
      BY <3>1
    <3>4. Uppercase(u.entries) = u.entries
      BY <3>3, UppercaseTwice
    <3> QED
      BY <3>2, <3>4
  <2>3. ASSUME NEW k \in DOMAIN o.sections, k - 1 \notin T PROVE again[k] = sections[k]
    BY <1>7, <2>3
  <2> QED
    BY <2>1, <2>2, <2>3
<1> HIDE DEF again, sections
<1>9. UppercaseSymbols(after) = after
  BY <1>5, <1>6, <1>7, <1>8
<1> QED
  BY <1>2, <1>9 DEF NamesKept

(* An object of 2001 through both programs.                                *)
Converted(o, mid, fin) ==
  /\ ObjectCase(o) /\ o.data = Msb
  /\ mid = ConvertElf(o) /\ mid # None
  /\ fin = UppercaseSymbols(mid) /\ fin # None

LEMMA MidSections ==
  ASSUME NEW o, NEW mid, ObjectCase(o), mid = ConvertElf(o), mid # None
  PROVE  /\ DOMAIN mid = {"elf", "class", "data", "header", "at", "sections"}
         /\ mid.elf = o.elf /\ mid.at = o.at /\ mid.data = Lsb
         /\ mid.header = [Turned(o.header) EXCEPT !.machine = Little(EM_8051)]
         /\ IsList(mid.sections) /\ Len(mid.sections) = Len(o.sections)
         /\ DOMAIN mid.sections = DOMAIN o.sections
         /\ \A k \in DOMAIN o.sections :
              mid.sections[k] = IF k \in Found(o, Msb) THEN ConvertSection(o.sections[k])
                                ELSE o.sections[k]
         /\ \A k \in DOMAIN o.sections : DOMAIN mid.sections[k] = {"header", "entries"}
<1>1. DOMAIN o = {"elf", "class", "data", "header", "at", "sections"} /\ IsList(o.sections)
  BY DEF ObjectCase
<1>2. /\ DOMAIN mid = DOMAIN o
      /\ mid.elf = o.elf /\ mid.at = o.at /\ mid.data = Lsb
      /\ mid.header = [Turned(o.header) EXCEPT !.machine = Little(EM_8051)]
      /\ mid.sections = [k \in DOMAIN o.sections |->
                           IF k \in Found(o, Msb) THEN ConvertSection(o.sections[k])
                           ELSE o.sections[k]]
  BY ConvertedIs
<1>3. Len(o.sections) \in Nat /\ DOMAIN o.sections = 1 .. Len(o.sections)
  BY <1>1 DEF IsList
<1>4. mid.sections = [k \in 1 .. Len(o.sections) |-> mid.sections[k]]
  BY <1>2, <1>3
<1>5. Len(mid.sections) = Len(o.sections)
  BY <1>3, <1>4, LenIs
<1>6. IsList(mid.sections)
  BY <1>2, <1>3, <1>5 DEF IsList
<1>7. \A k \in DOMAIN o.sections : DOMAIN mid.sections[k] = {"header", "entries"}
  BY <1>2 DEF ConvertSection, ObjectCase, SectionCase
<1> QED
  BY <1>1, <1>2, <1>5, <1>6, <1>7

LEMMA MemberConverted ==
  ASSUME NEW o, NEW mid, NEW fin, Converted(o, mid, fin)
  PROVE  /\ NamesKept(mid, fin)
         /\ Found(o, Msb) = 1 .. Big(o.header.shnum)
         /\ Found(mid, Lsb) = 1 .. Big(o.header.shnum)
         /\ Found(o, Msb) \in SUBSET (DOMAIN o.sections)
         /\ \A type : OfType(mid, type) = OfType(o, type)
         /\ NameTables(mid) = NameTables(o)
         /\ \A t \in NameTables(o) : t + 1 \in OfType(o, SHT_STRTAB)
<1> DEFINE N == Big(o.header.shnum)
<1>1. ObjectCase(o) /\ o.data = Msb /\ mid = ConvertElf(o) /\ mid # None
  BY DEF Converted
<1>2. fin = UppercaseSymbols(mid) /\ fin # None
  BY DEF Converted
<1>3. /\ DOMAIN mid = {"elf", "class", "data", "header", "at", "sections"}
      /\ mid.at = o.at /\ mid.data = Lsb
      /\ mid.header = [Turned(o.header) EXCEPT !.machine = Little(EM_8051)]
      /\ IsList(mid.sections) /\ Len(mid.sections) = Len(o.sections)
      /\ DOMAIN mid.sections = DOMAIN o.sections
      /\ \A k \in DOMAIN o.sections :
           mid.sections[k] = IF k \in Found(o, Msb) THEN ConvertSection(o.sections[k])
                             ELSE o.sections[k]
      /\ \A k \in DOMAIN o.sections : DOMAIN mid.sections[k] = {"header", "entries"}
  BY <1>1, MidSections
<1>4. Read(mid.header.shoff, Lsb) = Big(o.header.shoff) /\ Read(mid.header.shnum, Lsb) = N
  BY <1>1, <1>3, ConvertedHeader
<1>5. N \in Nat /\ IsList(o.sections)
  BY <1>1, FieldReads DEF ObjectCase, AllFields
<1>6. ~NotAnObject(mid) /\ ~\E t \in NameTables(mid) : t + 1 \notin OfType(mid, SHT_STRTAB)
  BY <1>2 DEF UppercaseSymbols
<1>7. Big(o.header.shoff) = o.at /\ ~(N > Len(o.sections))
  BY <1>3, <1>4, <1>6 DEF NotAnObject
<1>8. Read(o.header.shoff, Msb) = Big(o.header.shoff) /\ Read(o.header.shnum, Msb) = N
  BY DEF Big
<1> HIDE DEF N
<1>9. Len(o.sections) \in Nat /\ N <= Len(o.sections)
  BY <1>5, <1>7 DEF IsList
<1>10. Found(o, Msb) = 1 .. N /\ Found(o, Msb) \in SUBSET (DOMAIN o.sections)
  BY <1>5, <1>7, <1>8, <1>9, FoundIsThere
<1>11. Found(mid, Lsb) = 1 .. N
  BY <1>3, <1>4, <1>5, <1>7, <1>9, FoundIsThere
<1>12. NamesKept(mid, fin)
  BY <1>2, <1>3, UppercasedIs
<1>13. ASSUME NEW k \in 1 .. N
       PROVE  /\ Read(mid.sections[k].header.type, Lsb) = Read(o.sections[k].header.type, Msb)
              /\ Read(mid.sections[k].header.link, Lsb) = Read(o.sections[k].header.link, Msb)
  <2> DEFINE s == o.sections[k]
  <2>1. SectionCase(s, Msb) /\ mid.sections[k] = ConvertSection(s)
    BY <1>1, <1>3, <1>10 DEF ObjectCase
  <2> HIDE DEF s
  <2>2. mid.sections[k].header = Turned(s.header)
    BY <2>1, ConvertedFields
  <2>3. AllFields(s.header) /\ "type" \in DOMAIN s.header /\ "link" \in DOMAIN s.header
    BY <2>1 DEF SectionCase
  <2>4. /\ Read(mid.sections[k].header.type, Lsb) = Read(s.header.type, Msb)
        /\ Read(mid.sections[k].header.link, Lsb) = Read(s.header.link, Msb)
    BY <2>2, <2>3, TurnedReads DEF Big
  <2> QED
    BY <2>4 DEF s
<1>14. \A type : OfType(mid, type) = OfType(o, type)
  BY <1>1, <1>3, <1>10, <1>11, <1>13 DEF OfType
<1>15. NameTables(mid) = NameTables(o)
  <2>1. OfType(o, SHT_SYMTAB) \in SUBSET (1 .. N)
    BY <1>1, <1>10 DEF OfType
  <2> QED
    BY <1>1, <1>3, <1>13, <1>14, <2>1 DEF NameTables, LinkOf
<1>16. \A t \in NameTables(o) : t + 1 \in OfType(o, SHT_STRTAB)
  BY <1>6, <1>14, <1>15
<1> QED
  BY <1>10, <1>11, <1>12, <1>14, <1>15, <1>16 DEF N

LEMMA SeenIs ==
  ASSUME NEW o
  PROVE  /\ Seen(o).header = ValuesOf(o.header, o.data)
         /\ DOMAIN Seen(o).sections = DOMAIN o.sections
         /\ \A k \in DOMAIN o.sections :
              Seen(o).sections[k] = SeenSection(o.sections[k], o.data)
  BY DEF Seen, SeenSection, ValuesOf

LEMMA MemberIsRight ==
  ASSUME NEW o, ObjectCase(o), NEW mid, mid = ConvertElf(o), mid # None,
         NEW fin, fin = UppercaseSymbols(mid), fin # None
  PROVE  ObjectRight(o, fin)
<1> DEFINE was == Seen(o)
           is == Seen(fin)
           named == {was.sections[k].header.link + 1 :
                       k \in {k \in DOMAIN was.sections :
                                was.sections[k].header.type = SHT_SYMTAB}}
<1> SUFFICES ASSUME o.data = Msb, Whole(o)
             PROVE  /\ fin.data = Lsb
                    /\ is.header = [was.header EXCEPT !.machine = EM_8051]
                    /\ \A k \in DOMAIN was.sections :
                         is.sections[k] = IF k \in named
                                          THEN [was.sections[k] EXCEPT !.entries = Uppercase(@)]
                                          ELSE was.sections[k]
  BY Zenon DEF ObjectRight
<1>1. Converted(o, mid, fin)
  BY DEF Converted
<1>2. /\ NamesKept(mid, fin)
      /\ Found(o, Msb) = 1 .. Big(o.header.shnum)
      /\ \A type : OfType(mid, type) = OfType(o, type)
      /\ NameTables(mid) = NameTables(o)
      /\ \A t \in NameTables(o) : t + 1 \in OfType(o, SHT_STRTAB)
  BY <1>1, MemberConverted
<1>3. /\ mid.data = Lsb
      /\ mid.header = [Turned(o.header) EXCEPT !.machine = Little(EM_8051)]
      /\ DOMAIN mid.sections = DOMAIN o.sections
      /\ \A k \in DOMAIN o.sections :
           mid.sections[k] = IF k \in Found(o, Msb) THEN ConvertSection(o.sections[k])
                             ELSE o.sections[k]
  BY MidSections
<1>4. /\ Found(o, Msb) = DOMAIN o.sections
      /\ \A k \in DOMAIN o.sections : SectionCase(o.sections[k], Msb)
      /\ \A k \in DOMAIN o.sections :
           Big(o.sections[k].header.type) \in {SHT_SYMTAB, SHT_RELA} =>
             Big(o.sections[k].header.size)
               = Big(o.sections[k].header.entsize) * Len(o.sections[k].entries)
  <2>1. DOMAIN o.sections = 1 .. Len(o.sections) /\ Big(o.header.shnum) = Len(o.sections)
    BY DEF ObjectCase, IsList, Whole, Big
  <2> QED
    BY <1>2, <2>1 DEF ObjectCase, Whole, Big
<1>5. fin.data = Lsb /\ fin.header = mid.header /\ DOMAIN fin.sections = DOMAIN o.sections
  BY <1>2, <1>3 DEF NamesKept
<1>6. /\ was.header = ValuesOf(o.header, Msb)
      /\ DOMAIN was.sections = DOMAIN o.sections
      /\ \A k \in DOMAIN o.sections : was.sections[k] = SeenSection(o.sections[k], Msb)
  BY SeenIs
<1>7. /\ is.header = ValuesOf(mid.header, Lsb)
      /\ \A k \in DOMAIN o.sections : is.sections[k] = SeenSection(fin.sections[k], Lsb)
  BY <1>5, SeenIs
<1> HIDE DEF was, is
<1>8. is.header = [was.header EXCEPT !.machine = EM_8051]
  BY <1>3, <1>6, <1>7, ConvertedHeader
<1>9. \A k \in DOMAIN o.sections :
        SeenSection(mid.sections[k], Lsb) = SeenSection(o.sections[k], Msb)
  BY <1>3, <1>4, SectionReadsTheSame
<1>10. \A k \in DOMAIN o.sections : k \in named <=> k - 1 \in NameTables(o)
  <2>1. \A k \in DOMAIN o.sections :
          /\ was.sections[k].header.link = Read(o.sections[k].header.link, Msb)
          /\ was.sections[k].header.type = Read(o.sections[k].header.type, Msb)
    <3> SUFFICES ASSUME NEW k \in DOMAIN o.sections
                 PROVE  /\ was.sections[k].header.link = Read(o.sections[k].header.link, Msb)
                        /\ was.sections[k].header.type = Read(o.sections[k].header.type, Msb)
      OBVIOUS
    <3>1. was.sections[k].header = ValuesOf(o.sections[k].header, Msb)
      <4>1. was.sections[k] = SeenSection(o.sections[k], Msb)
        BY <1>6
      <4>2. \A s : SeenSection(s, Msb).header = ValuesOf(s.header, Msb)
        BY DEF SeenSection
      <4> QED
        BY <4>1, <4>2
    <3>2. "type" \in DOMAIN o.sections[k].header /\ "link" \in DOMAIN o.sections[k].header
      BY <1>4 DEF SectionCase
    <3> DEFINE h == o.sections[k].header
               v == ValuesOf(h, Msb)
    <3>3. v.type = Read(h.type, Msb) /\ v.link = Read(h.link, Msb)
      BY <3>2 DEF ValuesOf
    <3> HIDE DEF v
    <3> QED
      BY <3>1, <3>3 DEF v
  <2>2. OfType(o, SHT_SYMTAB)
          = {k \in DOMAIN o.sections : Read(o.sections[k].header.type, Msb) = SHT_SYMTAB}
    BY <1>4 DEF OfType
  <2>3. \A k \in DOMAIN o.sections : k \in Int /\ Read(o.sections[k].header.link, Msb) \in Nat
    BY <1>4, FieldReads DEF SectionCase, AllFields, ObjectCase, IsList
  <2>4. named = {Read(o.sections[k].header.link, Msb) + 1 : k \in OfType(o, SHT_SYMTAB)}
    BY <1>6, <2>1, <2>2
  <2>5. NameTables(o) = {Read(o.sections[k].header.link, Msb) : k \in OfType(o, SHT_SYMTAB)}
    BY DEF NameTables, LinkOf
  <2> HIDE DEF named
  <2>6. OfType(o, SHT_SYMTAB) \in SUBSET (DOMAIN o.sections)
    BY <2>2
  <2> QED
    BY <2>3, <2>4, <2>5, <2>6
<1> HIDE DEF named
<1>11. ASSUME NEW k \in DOMAIN o.sections, k - 1 \notin NameTables(o)
       PROVE  is.sections[k] = was.sections[k]
  <2>1. fin.sections[k] = mid.sections[k]
    BY <1>2, <1>3, <1>11 DEF NamesKept
  <2> QED
    BY <1>6, <1>7, <1>9, <2>1
<1>12. ASSUME NEW k \in DOMAIN o.sections, k - 1 \in NameTables(o)
       PROVE  is.sections[k] = [was.sections[k] EXCEPT !.entries = Uppercase(@)]
  <2> DEFINE s == o.sections[k]
             c == ConvertSection(s)
             u == fin.sections[k]
  <2>1. k \in Int
    BY DEF ObjectCase, IsList
  <2>2. k \in OfType(o, SHT_STRTAB)
    <3>1. k - 1 + 1 = k
      BY <2>1
    <3> QED
      BY <1>2, <1>12, <3>1
  <2>3. Big(s.header.type) = SHT_STRTAB
    BY <2>2 DEF OfType, Big
  <2>4. c = mid.sections[k] /\ SectionCase(s, Msb)
    BY <1>3, <1>4
  <2>5. u.header = c.header /\ u.entries = Uppercase(c.entries)
    BY <1>2, <1>3, <1>12, <2>4 DEF NamesKept
  <2>6. SHT_STRTAB \notin {SHT_SYMTAB, SHT_RELA}
    BY DEF SHT_STRTAB, SHT_SYMTAB, SHT_RELA
  <2>7. c.header = Turned(s.header) /\ c.entries = s.entries
    BY <2>3, <2>4, <2>6, ConvertedFields
  <2>8. AllFields(s.header) /\ "type" \in DOMAIN s.header
    BY <2>4 DEF SectionCase
  <2> HIDE DEF s, c, u
  <2>9. Read(u.header.type, Lsb) = SHT_STRTAB /\ Read(s.header.type, Msb) = SHT_STRTAB
    BY <2>3, <2>5, <2>7, <2>8, TurnedReads DEF Big
  <2>10. ValuesOf(u.header, Lsb) = ValuesOf(s.header, Msb)
    BY <2>5, <2>7, <2>8, TurnedReads
  <2>11. SeenSection(u, Lsb) = [header |-> ValuesOf(s.header, Msb), entries |-> Uppercase(s.entries)]
    BY <2>5, <2>6, <2>7, <2>9, <2>10 DEF SeenSection
  <2>12. SeenSection(s, Msb) = [header |-> ValuesOf(s.header, Msb), entries |-> s.entries]
    BY <2>6, <2>9 DEF SeenSection
  <2>13. is.sections[k] = SeenSection(u, Lsb) /\ was.sections[k] = SeenSection(s, Msb)
    BY <1>6, <1>7 DEF s, u
  <2> QED
    BY <2>11, <2>12, <2>13
<1> QED
  BY <1>5, <1>6, <1>8, <1>10, <1>11, <1>12

(* An archive, member by member.                                           *)
ArchiveMember(m) ==
  CASE m.name = "/"  -> ConvertMap(m)
    [] m.name = "//" -> ConvertNames(m)
    [] OTHER         -> ConvertBody(m)

IsObject(m) == m.name \notin {"/", "//"} /\ m.body # None /\ m.body.elf

LEMMA MemberIs ==
  ASSUME NEW m, MemberCase(m), ~Failed(m)
  PROVE  LET c == ArchiveMember(m)
         IN /\ c.name = m.name /\ c.stamp = 0
            /\ m.name = "/" => c.body = Uppercase(m.body)
            /\ IsObject(m) => c.body = ConvertMember(m.body)
            /\ m.name \notin {"/", "//"} /\ ~IsObject(m) => c.body = m.body
<1>1. DOMAIN m = {"name", "stamp", "mode", "body"}
  BY DEF MemberCase
<1>2. CASE m.name = "/"
  <2>1. ArchiveMember(m) = ConvertMap(m)
    BY <1>2 DEF ArchiveMember
  <2> QED
    BY <1>1, <1>2, <2>1 DEF ConvertMap, IsObject
<1>3. CASE m.name = "//"
  <2>1. ArchiveMember(m) = ConvertNames(m)
    BY <1>3 DEF ArchiveMember
  <2> QED
    BY <1>1, <1>3, <2>1 DEF ConvertNames, IsObject
<1>4. CASE m.name \notin {"/", "//"}
  <2>1. ArchiveMember(m) = ConvertBody(m)
    BY <1>4 DEF ArchiveMember
  <2> QED
    BY <1>1, <1>4, <2>1 DEF ConvertBody, IsObject
<1> QED
  BY <1>2, <1>3, <1>4

(* The names of an object that is converted are its names, in upper case.  *)
NamesOf(o) == UNION {Elements(o.sections[t + 1].entries) : t \in NameTables(o)}

LEMMA MemberNames ==
  ASSUME NEW o, NEW mid, NEW fin, Converted(o, mid, fin), NEW x \in NamesOf(o)
  PROVE  Upper(x) \in NamesOf(fin)
<1>1. PICK t \in NameTables(o) : x \in Elements(o.sections[t + 1].entries)
  BY DEF NamesOf
<1>2. /\ NamesKept(mid, fin)
      /\ Found(o, Msb) \in SUBSET (DOMAIN o.sections)
      /\ NameTables(mid) = NameTables(o)
      /\ \A s \in NameTables(o) : s + 1 \in OfType(o, SHT_STRTAB)
  BY MemberConverted
<1>3. ObjectCase(o) /\ o.data = Msb /\ mid = ConvertElf(o) /\ mid # None
  BY DEF Converted
<1>4. /\ mid.data = Lsb
      /\ mid.header = [Turned(o.header) EXCEPT !.machine = Little(EM_8051)]
      /\ IsList(mid.sections)
      /\ \A k \in DOMAIN o.sections :
           mid.sections[k] = IF k \in Found(o, Msb) THEN ConvertSection(o.sections[k])
                             ELSE o.sections[k]
      /\ DOMAIN mid.sections = DOMAIN o.sections
  BY <1>3, MidSections
<1> DEFINE k == t + 1
           s == o.sections[k]
<1>5. k \in Found(o, Msb) /\ Big(s.header.type) = SHT_STRTAB
  BY <1>1, <1>2, <1>3 DEF OfType, Big
<1>6. k \in DOMAIN o.sections /\ SectionCase(s, Msb) /\ mid.sections[k] = ConvertSection(s)
  BY <1>2, <1>3, <1>4, <1>5 DEF ObjectCase
<1>7. mid.sections[k].entries = s.entries
  BY <1>5, <1>6, ConvertedFields DEF SHT_STRTAB, SHT_SYMTAB, SHT_RELA
<1>8. t \in Nat
  <2>1. PICK j \in OfType(o, SHT_SYMTAB) : t = LinkOf(o, j)
    BY <1>1 DEF NameTables
  <2>2. j \in DOMAIN o.sections
    BY <1>2, <1>3, <2>1 DEF OfType
  <2>3. IsField(o.sections[j].header.link)
    BY <1>3, <2>2 DEF ObjectCase, SectionCase, AllFields
  <2> QED
    BY <2>1, <2>3, FieldReads DEF LinkOf
<1>9. k - 1 = t
  BY <1>8
<1> HIDE DEF k, s
<1>10. fin.sections[k].entries = Uppercase(s.entries)
  BY <1>1, <1>2, <1>4, <1>6, <1>7, <1>9 DEF NamesKept
<1>11. Upper(x) \in Elements(fin.sections[k].entries)
  <2>1. PICK n \in DOMAIN s.entries : x = s.entries[n]
    BY <1>1 DEF Elements, k, s
  <2>2. n \in DOMAIN Uppercase(s.entries) /\ Uppercase(s.entries)[n] = Upper(x)
    BY <2>1 DEF Uppercase
  <2> QED
    BY <1>10, <2>2 DEF Elements
<1>12. NameTables(fin) = NameTables(o)
  <2>1. Read(mid.header.shnum, mid.data) \in Nat
    <3>1. Read(mid.header.shnum, Lsb) = Big(o.header.shnum)
      BY <1>3, <1>4, ConvertedHeader
    <3>2. IsField(o.header.shnum)
      BY <1>3 DEF ObjectCase, AllFields
    <3> QED
      BY <1>4, <3>1, <3>2, FieldReads
  <2> QED
    BY <1>2, <1>4, <2>1, HeadersKept
<1> QED
  BY <1>1, <1>11, <1>12 DEF NamesOf, k

LEMMA ArchiveIsRight ==
  ASSUME NEW members \in Given("ar"), NEW after, after = ConvertArchive(members)
  PROVE  ArchiveRight(members, after)
<1> SUFFICES ASSUME after # None PROVE ArchiveRight(members, after)
  BY DEF ArchiveRight
<1>1. IsList(members) /\ \A k \in DOMAIN members : MemberCase(members[k])
  BY ObjectAssumption
<1>2. /\ \A k \in DOMAIN members : ~Failed(members[k])
      /\ after = [k \in DOMAIN members |-> ArchiveMember(members[k])]
  BY DEF ConvertArchive, ArchiveMember
<1>3. DOMAIN after = DOMAIN members /\ Len(after) = Len(members)
  <2>1. Len(members) \in Nat /\ DOMAIN members = 1 .. Len(members)
    BY <1>1 DEF IsList
  <2>2. after = [k \in 1 .. Len(members) |-> after[k]]
    BY <1>2, <2>1
  <2> QED
    BY <1>2, <2>1, <2>2, LenIs
<1>4. \A k \in DOMAIN members :
        /\ after[k].name = members[k].name /\ after[k].stamp = 0
        /\ members[k].name = "/" => after[k].body = Uppercase(members[k].body)
        /\ IsObject(members[k]) => after[k].body = ConvertMember(members[k].body)
        /\ members[k].name \notin {"/", "//"} /\ ~IsObject(members[k]) =>
             after[k].body = members[k].body
  <2> SUFFICES ASSUME NEW k \in DOMAIN members
               PROVE  /\ after[k].name = members[k].name /\ after[k].stamp = 0
                      /\ members[k].name = "/" => after[k].body = Uppercase(members[k].body)
                      /\ IsObject(members[k]) => after[k].body = ConvertMember(members[k].body)
                      /\ members[k].name \notin {"/", "//"} /\ ~IsObject(members[k]) =>
                           after[k].body = members[k].body
    OBVIOUS
  <2>1. after[k] = ArchiveMember(members[k])
    BY <1>2
  <2> QED
    BY <1>1, <1>2, <2>1, MemberIs
<1>5. ASSUME NEW k \in DOMAIN members, IsObject(members[k])
      PROVE  LET o == members[k].body
                 mid == ConvertElf(o)
             IN /\ Converted(o, mid, after[k].body)
                /\ ObjectRight(o, after[k].body)
  <2> DEFINE o == members[k].body
             mid == ConvertElf(o)
             fin == after[k].body
  <2>1. ObjectCase(o) /\ (Read(o.header.shoff, Msb) = o.at => o.data = Msb)
    BY <1>1, <1>5 DEF MemberCase, IsObject
  <2>2. fin = ConvertMember(o) /\ ConvertMember(o) # None
    BY <1>2, <1>4, <1>5 DEF Failed, IsObject
  <2> HIDE DEF o
  <2>3. mid # None /\ fin = UppercaseSymbols(mid) /\ fin # None
    BY <2>2 DEF ConvertMember
  <2> HIDE DEF fin
  <2>4. ~NotAnObject(mid)
    BY <2>3 DEF UppercaseSymbols
  <2>5. mid.at = o.at /\ mid.data = Lsb /\ Read(mid.header.shoff, Lsb) = Big(o.header.shoff)
    BY <2>1, <2>3, MidSections, ConvertedHeader
  <2>6. Big(o.header.shoff) = o.at
    BY <2>4, <2>5 DEF NotAnObject
  <2>7. o.data = Msb
    BY <2>1, <2>6 DEF Big
  <2>8. Converted(o, mid, fin)
    BY <2>1, <2>3, <2>7 DEF Converted
  <2>9. ObjectRight(o, fin)
    BY <2>1, <2>3, MemberIsRight
  <2> QED
    BY <2>8, <2>9 DEF o, fin
<1>6. \A x \in Mapped(after) : \E y \in Mapped(members) : x = Upper(y)
  <2> SUFFICES ASSUME NEW x \in Mapped(after)
               PROVE  \E y \in Mapped(members) : x = Upper(y)
    OBVIOUS
  <2>1. PICK k \in DOMAIN members : members[k].name = "/" /\ x \in Elements(after[k].body)
    BY <1>3, <1>4 DEF Mapped
  <2>2. PICK n \in DOMAIN members[k].body : x = Upper(members[k].body[n])
    BY <1>4, <2>1 DEF Elements, Uppercase
  <2>3. members[k].body[n] \in Mapped(members)
    BY <2>1 DEF Mapped, Elements
  <2> QED
    BY <2>2, <2>3
<1>7. \A y \in Defined(members) : Upper(y) \in Defined(after)
  <2> SUFFICES ASSUME NEW y \in Defined(members) PROVE Upper(y) \in Defined(after)
    OBVIOUS
  <2>1. PICK k \in DOMAIN members : IsObject(members[k]) /\ y \in NamesOf(members[k].body)
    BY DEF Defined, NamesOf, IsObject
  <2> DEFINE o == members[k].body
             mid == ConvertElf(o)
             fin == after[k].body
  <2>2. Converted(o, mid, fin)
    BY <1>5, <2>1
  <2>3. Upper(y) \in NamesOf(fin)
    BY <2>1, <2>2, MemberNames
  <2>4. fin.elf = o.elf /\ fin # None
    <3>1. ObjectCase(o) /\ mid # None /\ fin # None
      BY <2>2 DEF Converted
    <3>2. mid.elf = o.elf
      BY <3>1, MidSections
    <3>3. NamesKept(mid, fin)
      BY <2>2, MemberConverted
    <3> HIDE DEF o, mid, fin
    <3> QED
      BY <3>1, <3>2, <3>3 DEF NamesKept
  <2>5. IsObject(after[k]) /\ k \in DOMAIN after
    BY <1>3, <1>4, <2>1, <2>4 DEF IsObject
  <2> HIDE DEF fin
  <2>6. Upper(y) \in NamesOf(after[k].body)
    BY <2>3 DEF fin
  <2> QED
    BY <2>5, <2>6 DEF Defined, NamesOf, IsObject
<1>8. Mapped(members) \subseteq Defined(members) => Mapped(after) \subseteq Defined(after)
  BY <1>6, <1>7
<1>9. ASSUME NEW k \in DOMAIN members, members[k].name \notin {"/", "//"}
      PROVE  LET was == members[k].body
             IN IF was = None \/ ~was.elf THEN after[k].body = was
                ELSE ObjectRight(was, after[k].body)
  <2>1. CASE IsObject(members[k])
    BY <1>5, <1>9, <2>1 DEF IsObject
  <2>2. CASE ~IsObject(members[k])
    BY <1>4, <1>9, <2>2 DEF IsObject
  <2> QED
    BY <2>1, <2>2
<1> QED
  BY <1>3, <1>4, <1>8, <1>9 DEF ArchiveRight

LEMMA EndedConverted == Ended => ConvertedReadsTheSame
<1> SUFFICES ASSUME Ended PROVE ConvertedReadsTheSame
  OBVIOUS
<1>1. input \in Given(tool)
  BY GivenIsInput DEF Ended
<1>2. ASSUME tool = "le2be", output # None, UppercaseSymbols(output) # None
      PROVE  ObjectRight(input, UppercaseSymbols(output))
  <2>1. output = ConvertElf(input)
    BY <1>2 DEF Ended, WroteAs
  <2>2. ObjectCase(input)
    BY <1>1, <1>2, ObjectAssumption
  <2> QED
    BY <1>2, <2>1, <2>2, MemberIsRight
<1>3. ASSUME tool = "sym_uc", output # None
      PROVE  /\ output.header = input.header /\ output.data = input.data
             /\ UppercaseSymbols(output) = output
  <2>1. output = UppercaseSymbols(input)
    BY <1>3 DEF Ended, WroteAs
  <2>2. ObjectCase(input)
    BY <1>1, <1>3, ObjectAssumption
  <2> QED
    BY <1>3, <2>1, <2>2, UppercasesOnce
<1>4. ASSUME tool = "ar" PROVE ArchiveRight(input, output)
  <2>1. output = None \/ output = ConvertArchive(input)
    BY <1>4 DEF Ended, WroteAs
  <2>2. output = None => ArchiveRight(input, output)
    BY DEF ArchiveRight
  <2> QED
    BY <1>1, <1>4, <2>1, <2>2, ArchiveIsRight
<1> QED
  BY <1>2, <1>3, <1>4 DEF ConvertedReadsTheSame

(* Of any object and any archive, what the converters write reads as what  *)
(* they read, or they write nothing.                                       *)
THEOREM ConvertedAlwaysReadsTheSame == Spec => []ConvertedReadsTheSame
  BY EndedCorrect, EndedConverted, PTL
=============================================================================
