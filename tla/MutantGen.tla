----------------------------- MODULE MutantGen -----------------------------
(***************************************************************************)
(* tb/mutation/gen.py: which places of a source become mutants, and under  *)
(* which names.  A source is a sequence of lines, a line a sequence of     *)
(* characters; the operator modelled is relop, a lone `<'.                 *)
(***************************************************************************)
EXTENDS Naturals, Sequences, FiniteSets

Blank == " "
Quote == "'"
Escape == "\\"

(* Defective: a literal is ordinary text. *)
NoLiteral(s, i) == i

(* _literal_end: just past the literal that opens at i, or i if the line   *)
(* ends inside it.                                                         *)
PastLiteral(s, i) ==
  LET past[j \in i + 1 .. Len(s) + 2] ==
        IF j > Len(s) THEN i
        ELSE IF s[j] = Escape THEN past[j + 2]
        ELSE IF s[j] = s[i] THEN j + 1
        ELSE past[j + 1]
  IN past

LiteralEnd(s, i) == PastLiteral(s, i)[i + 1]

At(s, i, two) == i < Len(s) /\ s[i] = two[1] /\ s[i + 1] = two[2]

(* mask_comments on the rest of a line, from a place in it and in a block  *)
(* comment or not: the positions blanked, and whether a block comment is   *)
(* open at its end.                                                        *)
Also(rest, places) == [rest EXCEPT !.blanked = @ \union places]

Scan(s) ==
  LET scan[at \in (1 .. Len(s) + 2) \X BOOLEAN] ==
        LET i == at[1]
            inblock == at[2]
        IN IF i > Len(s) THEN [blanked |-> {}, open |-> inblock]
           ELSE IF inblock
           THEN IF At(s, i, <<"*", "/">>) THEN Also(scan[<<i + 2, FALSE>>], {i, i + 1})
                ELSE Also(scan[<<i + 1, TRUE>>], {i})
           ELSE IF At(s, i, <<"/", "*">>) THEN scan[<<i, TRUE>>]
           ELSE IF At(s, i, <<"/", "/">>) THEN [blanked |-> i .. Len(s), open |-> FALSE]
           ELSE IF s[i] = Quote /\ LiteralEnd(s, i) > i THEN scan[<<LiteralEnd(s, i), FALSE>>]
           ELSE scan[<<i + 1, FALSE>>]
  IN scan

ScanLine(s, inblock) == Scan(s)[<<1, inblock>>]

(* Whether each line begins inside a block comment. *)
InBlock(lines) ==
  LET open[n \in DOMAIN lines] == IF n = 1 THEN FALSE ELSE ScanLine(lines[n - 1], open[n - 1]).open
  IN open

MaskComments(lines) ==
  [n \in 1 .. Len(lines) |->
     LET blanked == ScanLine(lines[n], InBlock(lines)[n]).blanked
     IN [i \in 1 .. Len(lines[n]) |-> IF i \in blanked THEN Blank ELSE lines[n][i]]]
-----------------------------------------------------------------------------
(* op_relop: `<' with no operator character on either side of it. *)
Matches(s) ==
  {i \in 1 .. Len(s) : /\ s[i] = "<"
                       /\ i > 1 => s[i - 1] # "<"
                       /\ i < Len(s) => s[i + 1] # "<"}

MatchesOf(code) == UNION {{<<n, i>> : i \in Matches(code[n])} : n \in DOMAIN code}

Before(found, m) == {q \in found : q[1] < m[1] \/ (q[1] = m[1] /\ q[2] < m[2])}

Entry(found, m) ==
  [line |-> m[1], col |-> m[2],
   nth |-> 1 + Cardinality({q \in Before(found, m) : q[1] = m[1]})]

InOrder(found) ==
  [k \in 1 .. Cardinality(found) |->
     Entry(found, CHOOSE q \in found : Cardinality(Before(found, q)) = k - 1)]

(* Every match, in order, with its ordinal within its line. *)
Ranked(lines) == InOrder(MatchesOf(MaskComments(lines)))

(* Defective: the first CAP matches. *)
SpreadFirst(items, cap) == IF cap = 0 \/ Len(items) <= cap THEN items ELSE SubSeq(items, 1, cap)

(* At most CAP items, evenly spaced; a cap of 0 is no cap. *)
Spread(items, cap) ==
  IF cap = 0 \/ Len(items) <= cap
  THEN items
  ELSE [k \in 1 .. cap |-> items[((k - 1) * Len(items)) \div cap + 1]]

(* Defective: the ordinal is left out. *)
IdByLine(ranked, m) == <<m.line, 0>>

(* The line, and the ordinal only if the line matched more than once. *)
Id(ranked, m) ==
  IF \E k \in DOMAIN ranked : ranked[k].line = m.line /\ ranked[k].nth > 1
  THEN <<m.line, m.nth>>
  ELSE <<m.line, 0>>

Named(ranked, sample) ==
  [k \in DOMAIN sample |->
     [id |-> Id(ranked, sample[k]), line |-> sample[k].line, col |-> sample[k].col]]

(* Defective: the matches are numbered after the cap has sampled them. *)
GenerateSampled(lines, cap) ==
  LET sample == Spread(Ranked(lines), cap)
      Nth(k) == Cardinality({j \in 1 .. k : sample[j].line = sample[k].line})
      ranked == [k \in DOMAIN sample |-> [sample[k] EXCEPT !.nth = Nth(k)]]
  IN Named(ranked, ranked)

SampledAndNamed(ranked, cap) == Named(ranked, Spread(ranked, cap))

(* main: the mutants of a source under a cap. *)
Generate(lines, cap) == SampledAndNamed(Ranked(lines), cap)
-----------------------------------------------------------------------------
(* What C says of a text, character by character, for comparison. *)
Step(mode, s, i) ==
  CASE mode = "code" ->
         IF At(s, i, <<"/", "*">>) THEN "opening"
         ELSE IF At(s, i, <<"/", "/">>) THEN "line"
         ELSE IF s[i] = Quote THEN "literal"
         ELSE "code"
    [] mode = "opening" -> "block"
    [] mode = "block"   -> IF At(s, i, <<"*", "/">>) THEN "closing" ELSE "block"
    [] mode = "closing" -> "code"
    [] mode = "literal" -> IF s[i] = Escape THEN "escaped" ELSE IF s[i] = Quote THEN "code" ELSE "literal"
    [] mode = "escaped" -> "literal"
    [] OTHER            -> "line"

(* The mode before each character of a line, and after the last. *)
Modes(s, start) ==
  LET mode[i \in 1 .. Len(s) + 1] == IF i = 1 THEN start ELSE Step(mode[i - 1], s, i - 1)
  IN mode

NextStart(mode) == IF mode \in {"block", "opening"} THEN "block" ELSE "code"

(* The mode in which each line begins. *)
Starts(lines) ==
  LET start[n \in DOMAIN lines] ==
        IF n = 1 THEN "code"
        ELSE NextStart(Modes(lines[n - 1], start[n - 1])[Len(lines[n - 1]) + 1])
  IN start

(* C text: no literal is left open at the end of a line. *)
IsC(lines) ==
  \A n \in DOMAIN lines :
    Modes(lines[n], Starts(lines)[n])[Len(lines[n]) + 1] \notin {"literal", "escaped"}

CommentAt(lines, n, i) ==
  LET s == lines[n]
      mode == Modes(s, Starts(lines)[n])
  IN mode[i] \in {"opening", "block", "closing", "line"} \/ mode[i + 1] \in {"opening", "line"}

(* A comment that begins with /*/ on line n. *)
OpensAndCloses(lines, n) ==
  LET s == lines[n]
      mode == Modes(s, Starts(lines)[n])
  IN \E i \in 1 .. Len(s) - 2 : mode[i + 1] = "opening" /\ s[i + 2] = "/"
=============================================================================
