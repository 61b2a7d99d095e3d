--------------------------- MODULE GasInsnProofs ---------------------------
(***************************************************************************)
(* What is proved of the lines of assembler, for every sequence of them,   *)
(* every operand and every place in the section.                           *)
(*                                                                         *)
(* A line means the same wherever it stands.  The parse of a line begins   *)
(* with what an earlier one left in op1hlmode, op2hlmode and b2b_offset.   *)
(* Two parses of one line that begin with different values are followed    *)
(* operand by operand: they stay alike in all but these, and in these too  *)
(* as far as i51_build_ins will look at them, which for the lines of less  *)
(* than two operands is a fact about the opcode table.                     *)
(*                                                                         *)
(* A line with a form in the table is assembled, from the row of the form. *)
(* The search for it never goes back.  That it does not pass the row is a  *)
(* fact about the order of the rows of a name: those that the search for   *)
(* a letter takes as one stand together.  The parse is then followed to    *)
(* that row, with the numbers that the operands give.                      *)
(*                                                                         *)
(* What is assembled is read back.  Form or not, the row is one of the     *)
(* name's, its register is in range, and so its code is of this row alone, *)
(* as the codes of two rows are never the same.  Then, for a form, each    *)
(* operand is read from where it was written.                              *)
(***************************************************************************)
EXTENDS GasInsn, SequenceTheorems, WellFoundedInduction, TLAPS

(* Numbers: a set of naturals that is not empty has a least member.        *)
LEMMA LeastOf ==
  ASSUME NEW S \in SUBSET Nat, S # {}
  PROVE  \E m \in S : \A n \in S : m <= n
<1> DEFINE Less == OpToRel(<, Nat)
<1>1. IsWellFoundedOn(Less, Nat)
  BY NatLessThanWellFounded
<1>2. \A m \in S : \A n \in S : ~(<<n, m>> \in Less) => m <= n
  BY DEF OpToRel
<1> HIDE DEF Less
<1>3. \E m \in S : \A n \in S : ~(<<n, m>> \in Less)
  BY <1>1, WFMin, Zenon
<1> QED
  BY <1>2, <1>3, Zenon
-----------------------------------------------------------------------------
(* The opcode table.                                                       *)
Rows == 1 .. 111

LEMMA TableIs ==
  /\ DOMAIN Opcodes = Rows /\ Len(Opcodes) = 111
  /\ \A k \in Rows : Opcodes[k] = Row(Table[k])
<1>1. DOMAIN Table = 1 .. 111
  BY DEF Table
<1>2. DOMAIN Opcodes = Rows /\ \A k \in Rows : Opcodes[k] = Row(Table[k])
  BY <1>1 DEF Opcodes, Rows
<1>3. Len(Opcodes) = 111
  <2> DEFINE S == {Opcodes[k] : k \in Rows}
  <2>1. Opcodes \in [1 .. 111 -> S]
    BY <1>1, <1>2 DEF Opcodes, Rows
  <2> HIDE DEF S
  <2>2. Opcodes \in Seq(S)
    <3>1. 111 \in Nat
      OBVIOUS
    <3> QED
      BY <2>1, <3>1, SeqDef, ZenonT(60)
  <2>3. Len(Opcodes) \in Nat /\ DOMAIN Opcodes = 1 .. Len(Opcodes)
    BY <2>2, LenProperties
  <2>4. 1 .. 111 = 1 .. Len(Opcodes)
    BY <1>2, <2>3 DEF Rows
  <2> QED
    BY <2>3, <2>4
<1> QED
  BY <1>2, <1>3

LEMMA RowIs ==
  ASSUME NEW k \in Rows
  PROVE  /\ Opcodes[k].size = Table[k][5] /\ Opcodes[k].mreloc = Table[k][6]
         /\ Arg(k, 1) = Table[k][2] /\ Arg(k, 2) = Table[k][3] /\ Arg(k, 3) = Table[k][4]
<1> DEFINE t == Table[k]
<1>1. Opcodes[k] = Row(t)
  BY TableIs
<1> HIDE DEF t
<1>2. Row(t).size = t[5] /\ Row(t).mreloc = t[6] /\ Row(t).args = <<t[2], t[3], t[4]>>
  BY DEF Row
<1>3. Arg(k, 1) = t[2] /\ Arg(k, 2) = t[3] /\ Arg(k, 3) = t[4]
  BY <1>1, <1>2 DEF Arg
<1> QED
  BY <1>1, <1>2, <1>3 DEF t

(* A row without operands has no bytes after its code, and a row with less *)
(* than two has no second byte and is no branch after an operand.          *)
LEMMA RowsOfFewOperands ==
  \A k \in Rows :
    /\ Arg(k, 1) = "N" => Opcodes[k].mreloc = "N" /\ Arg(k, 2) = "N"
    /\ Arg(k, 2) = "N" => Opcodes[k].mreloc \in {"N", "D", "R", "I", "B", "7", "W", "1", "6"}
    /\ Opcodes[k].mreloc \in {"N", "D", "R", "I", "B", "7", "W", "1", "6", "i", "r", "a", "d",
                              "J", "X", "Y", "Z"}
<1>1. \A k \in Rows : Table[k][2] = "N" => Table[k][6] = "N" /\ Table[k][3] = "N"
  BY SMTT(60) DEF Table, Rows
<1>2. \A k \in Rows :
        Table[k][3] = "N" => Table[k][6] \in {"N", "D", "R", "I", "B", "7", "W", "1", "6"}
  BY SMTT(60) DEF Table, Rows
<1>3. \A k \in Rows :
        Table[k][6] \in {"N", "D", "R", "I", "B", "7", "W", "1", "6", "i", "r", "a", "d",
                         "J", "X", "Y", "Z"}
  BY SMTT(60) DEF Table, Rows
<1> QED
  BY <1>1, <1>2, <1>3, RowIs

(* The search through the rows ends at a row: the last one is marked.      *)
LEMMA ScanThere ==
  ASSUME NEW k \in Rows, NEW n, NEW modes
  PROVE  Scan(k, n, modes) \in Rows
<1> DEFINE Stops(j) == Arg(j, n) \in modes \/ IsLast(j)
           Ends == {j \in k .. 111 : Stops(j)}
<1>1. IsLast(111)
  <2>1. Table[111][5] = \h83
    BY DEF Table
  <2>2. Opcodes[111].size = 131
    BY <2>1, RowIs DEF Rows
  <2> QED
    BY <2>2 DEF IsLast
<1>2. Ends \in SUBSET Nat /\ 111 \in Ends
  BY <1>1 DEF Rows
<1> HIDE DEF Stops
<1>3. PICK m \in Ends : \A j \in Ends : m <= j
  BY <1>2, LeastOf
<1>4. \E j \in k .. 111 : Stops(j) /\ \A i \in k .. j - 1 : ~Stops(i)
  BY <1>3 DEF Rows
<1>5. Scan(k, n, modes) = CHOOSE j \in k .. 111 : Stops(j) /\ \A i \in k .. j - 1 : ~Stops(i)
  BY TableIs DEF Scan, Stops
<1>6. Scan(k, n, modes) \in k .. 111
  BY <1>4, <1>5
<1> QED
  BY <1>6 DEF Rows

LEMMA FirstRowThere ==
  ASSUME NEW name \in DOMAIN FirstRow
  PROVE  FirstRow[name] \in Rows
<1> DEFINE Named == {k \in Rows : Opcodes[k].name = name}
<1>1. DOMAIN Opcodes = Rows
  BY TableIs
<1>2. Named \in SUBSET Nat /\ Named # {}
  BY <1>1 DEF FirstRow, Rows
<1>3. PICK m \in Named : \A k \in Named : m <= k
  BY <1>2, LeastOf
<1>4. m = 1 \/ Opcodes[m - 1].name # name
  BY <1>3, SMTT(30) DEF Rows
<1>5. FirstRow[name] = CHOOSE k \in Rows : Opcodes[k].name = name
                                          /\ (k = 1 \/ Opcodes[k - 1].name # name)
  BY <1>1 DEF FirstRow
<1> QED
  BY <1>3, <1>4, <1>5
-----------------------------------------------------------------------------
(* Two parses of one line, as far as they have come.                       *)
IsParse(p) ==
  DOMAIN p = {"row", "m1", "m2", "reg", "e1", "e2", "hl1", "hl2", "b2b", "bad"} /\ p.row \in Rows

Alike(p, q) ==
  /\ IsParse(p) /\ IsParse(q)
  /\ p.row = q.row /\ p.m1 = q.m1 /\ p.m2 = q.m2 /\ p.reg = q.reg
  /\ p.e1 = q.e1 /\ p.e2 = q.e2 /\ (p.bad <=> q.bad)

Prefixed == {"none", "HIGH", "LOW", "B2B"}

(* The same prefix of the first operand, of the second, and the same bit   *)
(* number where that matters.                                              *)
Alike1(p, q) ==
  /\ Alike(p, q)
  /\ p.hl1 = q.hl1 /\ p.hl1 \in Prefixed /\ (p.hl1 = "B2B" => p.b2b = q.b2b)

Alike2(p, q) ==
  /\ Alike1(p, q)
  /\ p.hl2 = q.hl2 /\ p.hl2 \in Prefixed /\ (p.hl2 = "B2B" => p.b2b = q.b2b)

LEMMA StartAlike ==
  ASSUME NEW name \in DOMAIN FirstRow, NEW g, NEW h
  PROVE  Alike(Start(name, g), Start(name, h))
  BY FirstRowThere DEF Start, Alike, IsParse

LEMMA PrefixIs ==
  ASSUME NEW o, NEW b2bToo
  PROVE  Recognised(o, b2bToo) \in Prefixed
<1>1. Prefixes(o, b2bToo) \subseteq Prefixed
  <2>1. \/ Prefixes(o, b2bToo) = {"none", "HIGH", "LOW"}
        \/ Prefixes(o, b2bToo) = {"none"}
        \/ Prefixes(o, b2bToo) = {"none", "HIGH", "LOW"} \union (IF b2bToo THEN {"B2B"} ELSE {})
    BY Zenon DEF Prefixes
  <2> QED
    BY <2>1 DEF Prefixed
<1> QED
  BY <1>1 DEF Recognised, Prefixed

(* The first operand.                                                      *)
LEMMA Named1Alike ==
  ASSUME NEW ctx, NEW o, NEW p, NEW q, Alike(p, q)
  PROVE  Alike1(ParseNamed1(ctx, p, o), ParseNamed1(ctx, q, o))
<1> DEFINE k == Scan(p.row, 1, {Mode(o.name)})
           x == ParseNamed1(ctx, p, o)
           y == ParseNamed1(ctx, q, o)
           fails == Arg(k, 1) # Mode(o.name) \/ NameFails(ctx, o.name)
           v == NameValue(ctx, o.name)
           m == Mode(o.name)
<1>1. k \in Rows /\ Scan(q.row, 1, {Mode(o.name)}) = k
  BY ScanThere DEF Alike, IsParse
<1>2. /\ DOMAIN x = DOMAIN p /\ x.row = k /\ x.m1 = m /\ x.m2 = p.m2 /\ x.hl1 = "none"
      /\ x.reg = (IF m \in {"R", "I"} THEN v ELSE p.reg)
      /\ x.e1 = (IF m \in {"D", "B"} /\ ~fails THEN v ELSE p.e1)
      /\ x.e2 = p.e2 /\ (x.bad <=> p.bad \/ fails)
  BY DEF ParseNamed1, Alike, IsParse
<1>3. /\ DOMAIN y = DOMAIN q /\ y.row = k /\ y.m1 = m /\ y.m2 = q.m2 /\ y.hl1 = "none"
      /\ y.reg = (IF m \in {"R", "I"} THEN v ELSE q.reg)
      /\ y.e1 = (IF m \in {"D", "B"} /\ ~fails THEN v ELSE q.e1)
      /\ y.e2 = q.e2 /\ (y.bad <=> q.bad \/ fails)
  BY <1>1 DEF ParseNamed1, Alike, IsParse
<1> HIDE DEF k, x, y, fails, v, m
<1>4. Alike1(x, y)
  BY <1>1, <1>2, <1>3 DEF Alike1, Alike, IsParse, Prefixed
<1> QED
  BY <1>4 DEF x, y

LEMMA Plain1Alike ==
  ASSUME NEW ctx, NEW o, NEW p, NEW q, Alike(p, q)
  PROVE  Alike1(ParsePlain1(ctx, p, o), ParsePlain1(ctx, q, o))
<1> DEFINE k == Scan(p.row, 1, PlainModes1)
           x == ParsePlain1(ctx, p, o)
           y == ParsePlain1(ctx, q, o)
           prefix == Recognised(o, TRUE)
           m == IF IsLast(k) \/ Arg(k, 1) \notin {"B", "D"} THEN Arg(k, 1) ELSE " "
           fails == ExprFails(ctx, o, TRUE)
           v == Folded(ctx, o)
<1>1. k \in Rows /\ Scan(q.row, 1, PlainModes1) = k
  BY ScanThere DEF Alike, IsParse
<1>2. prefix \in Prefixed
  BY PrefixIs
<1>3. /\ DOMAIN x = DOMAIN p /\ x.row = k /\ x.m1 = m /\ x.m2 = p.m2 /\ x.hl1 = prefix
      /\ x.reg = p.reg /\ x.e1 = v /\ x.e2 = p.e2 /\ (x.bad <=> p.bad \/ fails)
      /\ (prefix = "B2B" => x.b2b = o.bit)
  BY DEF ParsePlain1, Alike, IsParse
<1>4. /\ DOMAIN y = DOMAIN q /\ y.row = k /\ y.m1 = m /\ y.m2 = q.m2 /\ y.hl1 = prefix
      /\ y.reg = q.reg /\ y.e1 = v /\ y.e2 = q.e2 /\ (y.bad <=> q.bad \/ fails)
      /\ (prefix = "B2B" => y.b2b = o.bit)
  BY <1>1 DEF ParsePlain1, Alike, IsParse
<1> HIDE DEF k, x, y, prefix, m, fails, v
<1>5. Alike1(x, y)
  BY <1>1, <1>2, <1>3, <1>4 DEF Alike1, Alike, IsParse
<1> QED
  BY <1>5 DEF x, y

LEMMA First ==
  ASSUME NEW ctx, NEW o, NEW p, NEW q, Alike(p, q)
  PROVE  Alike1(Parse1(ctx, p, o), Parse1(ctx, q, o))
<1>1. CASE IsNamed(ctx, o)
  BY <1>1, Named1Alike DEF Parse1
<1>2. CASE ~IsNamed(ctx, o) /\ o.form \in {"name", "plain"}
  BY <1>2, Plain1Alike DEF Parse1
<1>3. CASE ~IsNamed(ctx, o) /\ o.form \notin {"name", "plain"}
  <2> DEFINE k == Scan(p.row, 1, {"#"})
             x == Parse1(ctx, p, o)
             y == Parse1(ctx, q, o)
             prefix == Recognised(o, FALSE)
             h == IF o.form = "hash" THEN prefix ELSE "none"
  <2>1. k \in Rows /\ Scan(q.row, 1, {"#"}) = k
    BY ScanThere DEF Alike, IsParse
  <2>2. prefix \in {"none", "HIGH", "LOW"} \/ o.form # "hash"
    <3>1. o.form = "hash" => Prefixes(o, FALSE) = {"none", "HIGH", "LOW"}
      BY Zenon DEF Prefixes
    <3> QED
      BY <3>1 DEF Recognised
  <2>3. x = [p EXCEPT !.row = k, !.bad = TRUE, !.hl1 = h]
    BY <1>3 DEF Parse1
  <2>4. y = [q EXCEPT !.row = k, !.bad = TRUE, !.hl1 = h]
    BY <1>3, <2>1 DEF Parse1
  <2> HIDE DEF k, x, y, prefix
  <2>5. h \in Prefixed /\ h # "B2B"
    BY <2>2 DEF Prefixed
  <2> HIDE DEF h
  <2>6. /\ DOMAIN x = DOMAIN p /\ x.row = k /\ x.m1 = p.m1 /\ x.m2 = p.m2 /\ x.hl1 = h
        /\ x.reg = p.reg /\ x.e1 = p.e1 /\ x.e2 = p.e2 /\ x.bad
    BY <2>3 DEF Alike, IsParse
  <2>7. /\ DOMAIN y = DOMAIN q /\ y.row = k /\ y.m1 = q.m1 /\ y.m2 = q.m2 /\ y.hl1 = h
        /\ y.reg = q.reg /\ y.e1 = q.e1 /\ y.e2 = q.e2 /\ y.bad
    BY <2>4 DEF Alike, IsParse
  <2>8. Alike1(x, y)
    BY <2>1, <2>5, <2>6, <2>7 DEF Alike1, Alike, IsParse
  <2> QED
    BY <2>8 DEF x, y
<1> QED
  BY <1>1, <1>2, <1>3

(* The second operand.                                                     *)
LEMMA GiveAlike ==
  ASSUME NEW p, NEW q, Alike2(p, q), NEW v
  PROVE  Alike2(Give(p, v), Give(q, v))
<1>1. CASE p.e1 = Unset
  <2> DEFINE x == [p EXCEPT !.e1 = v]
             y == [q EXCEPT !.e1 = v]
  <2>1. Give(p, v) = x /\ Give(q, v) = y
    BY <1>1 DEF Give, Alike2, Alike1, Alike
  <2>2. /\ DOMAIN x = DOMAIN p /\ x.row = p.row /\ x.m1 = p.m1 /\ x.m2 = p.m2 /\ x.reg = p.reg
        /\ x.e1 = v /\ x.e2 = p.e2 /\ x.bad = p.bad /\ x.hl1 = p.hl1 /\ x.hl2 = p.hl2 /\ x.b2b = p.b2b
    BY DEF Alike2, Alike1, Alike, IsParse
  <2>3. /\ DOMAIN y = DOMAIN q /\ y.row = q.row /\ y.m1 = q.m1 /\ y.m2 = q.m2 /\ y.reg = q.reg
        /\ y.e1 = v /\ y.e2 = q.e2 /\ y.bad = q.bad /\ y.hl1 = q.hl1 /\ y.hl2 = q.hl2 /\ y.b2b = q.b2b
    BY DEF Alike2, Alike1, Alike, IsParse
  <2> HIDE DEF x, y
  <2> QED
    BY <2>1, <2>2, <2>3 DEF Alike2, Alike1, Alike, IsParse
<1>2. CASE p.e1 # Unset
  <2> DEFINE x == [p EXCEPT !.e2 = v]
             y == [q EXCEPT !.e2 = v]
  <2>1. Give(p, v) = x /\ Give(q, v) = y
    BY <1>2 DEF Give, Alike2, Alike1, Alike
  <2>2. /\ DOMAIN x = DOMAIN p /\ x.row = p.row /\ x.m1 = p.m1 /\ x.m2 = p.m2 /\ x.reg = p.reg
        /\ x.e1 = p.e1 /\ x.e2 = v /\ x.bad = p.bad /\ x.hl1 = p.hl1 /\ x.hl2 = p.hl2 /\ x.b2b = p.b2b
    BY DEF Alike2, Alike1, Alike, IsParse
  <2>3. /\ DOMAIN y = DOMAIN q /\ y.row = q.row /\ y.m1 = q.m1 /\ y.m2 = q.m2 /\ y.reg = q.reg
        /\ y.e1 = q.e1 /\ y.e2 = v /\ y.bad = q.bad /\ y.hl1 = q.hl1 /\ y.hl2 = q.hl2 /\ y.b2b = q.b2b
    BY DEF Alike2, Alike1, Alike, IsParse
  <2> HIDE DEF x, y
  <2> QED
    BY <2>1, <2>2, <2>3 DEF Alike2, Alike1, Alike, IsParse
<1> QED
  BY <1>1, <1>2

LEMMA Named2Alike ==
  ASSUME NEW ctx, NEW o, NEW p, NEW q, Alike1(p, q)
  PROVE  Alike2(ParseNamed2(ctx, p, o), ParseNamed2(ctx, q, o))
<1> DEFINE m == Mode(o.name)
           k == Scan(p.row, 2, {m})
           v == NameValue(ctx, o.name)
           first(r) == \/ Arg(k, 1) = r.m1
                       \/ r.m1 = " " /\ Arg(k, 1) \in {"B", "D"}
           wrong == Arg(k, 2) # m
           fails == NameFails(ctx, o.name)
           Next2(r) == [r EXCEPT !.row = k, !.m2 = m, !.hl2 = "none",
                                 !.m1 = IF @ = " " THEN Arg(k, 1) ELSE @,
                                 !.bad = @ \/ wrong \/ ~first(r) \/ fails,
                                 !.reg = IF m \in {"R", "I"} THEN v ELSE @]
           x == Next2(p)
           y == Next2(q)
<1>1. k \in Rows /\ Scan(q.row, 2, {m}) = k
  BY ScanThere DEF Alike1, Alike, IsParse
<1>2. /\ ParseNamed2(ctx, p, o) = (IF m \in {"D", "B", "/"} THEN Give(x, v) ELSE x)
      /\ ParseNamed2(ctx, q, o) = (IF m \in {"D", "B", "/"} THEN Give(y, v) ELSE y)
  BY <1>1 DEF ParseNamed2
<1>3. first(p) <=> first(q)
  BY DEF Alike1, Alike
<1> HIDE DEF k, v, m, wrong, fails, first
<1>4. /\ DOMAIN x = DOMAIN p /\ x.row = k /\ x.m2 = m /\ x.hl2 = "none"
      /\ x.m1 = (IF p.m1 = " " THEN Arg(k, 1) ELSE p.m1)
      /\ (x.bad <=> p.bad \/ wrong \/ ~first(p) \/ fails)
      /\ x.reg = (IF m \in {"R", "I"} THEN v ELSE p.reg)
      /\ x.e1 = p.e1 /\ x.e2 = p.e2 /\ x.hl1 = p.hl1 /\ x.b2b = p.b2b
  BY DEF Alike1, Alike, IsParse
<1>5. /\ DOMAIN y = DOMAIN q /\ y.row = k /\ y.m2 = m /\ y.hl2 = "none"
      /\ y.m1 = (IF q.m1 = " " THEN Arg(k, 1) ELSE q.m1)
      /\ (y.bad <=> q.bad \/ wrong \/ ~first(q) \/ fails)
      /\ y.reg = (IF m \in {"R", "I"} THEN v ELSE q.reg)
      /\ y.e1 = q.e1 /\ y.e2 = q.e2 /\ y.hl1 = q.hl1 /\ y.b2b = q.b2b
  BY DEF Alike1, Alike, IsParse
<1> HIDE DEF x, y
<1>6. Alike2(x, y)
  <2>1. /\ x.m1 = y.m1 /\ x.m2 = y.m2 /\ x.row = y.row /\ x.reg = y.reg
        /\ (x.bad <=> y.bad)
    BY <1>3, <1>4, <1>5 DEF Alike1, Alike
  <2> QED
    <3>1. Alike(p, q) /\ IsParse(p) /\ p.hl1 = q.hl1 /\ p.hl1 \in Prefixed /\ p.e1 = q.e1 /\ p.e2 = q.e2
          /\ (p.hl1 = "B2B" => p.b2b = q.b2b)
      BY DEF Alike1, Alike
    <3>2. DOMAIN p = DOMAIN q /\ x.row \in Rows
      BY <1>1, <1>4 DEF Alike1, Alike, IsParse
    <3>3. IsParse(x) /\ IsParse(y)
      BY <2>1, <3>1, <3>2, <1>4, <1>5 DEF IsParse
    <3>4. Alike(x, y)
      BY <2>1, <3>1, <3>3, <1>4, <1>5 DEF Alike
    <3>5. x.hl1 = y.hl1 /\ x.hl1 \in Prefixed /\ (x.hl1 = "B2B" => x.b2b = y.b2b)
      BY <3>1, <1>4, <1>5
    <3>6. x.hl2 = "none" /\ y.hl2 = "none"
      BY <1>4, <1>5
    <3> QED
      BY <3>4, <3>5, <3>6 DEF Alike2, Alike1, Prefixed
<1> QED
  BY <1>2, <1>6, GiveAlike

LEMMA Expr2Alike ==
  ASSUME NEW ctx, NEW o, NEW p, NEW q, Alike1(p, q)
  PROVE  Alike2(ParseExpr2(ctx, p, o), ParseExpr2(ctx, q, o))
<1> DEFINE free == p.e1 = Unset
           modes == CASE o.form = "hash" -> {"#"} [] o.form = "slash" -> {"/"}
                      [] OTHER -> PlainModes2
           marked == CASE o.form = "hash" -> "D" [] o.form = "slash" -> "B" [] OTHER -> " "
           k == Scan(p.row, 2, modes)
           none == o.form \in {"hash", "slash"} /\ Arg(k, 2) \notin modes
           prefix == Recognised(o, free)
           wrong == ExprFails(ctx, o, free)
           v == Folded(ctx, o)
           Next2(r) == [r EXCEPT !.row = k, !.hl2 = prefix, !.m2 = Arg(k, 2),
                                 !.hl1 = IF free /\ ~none THEN prefix ELSE @,
                                 !.b2b = IF prefix = "B2B" THEN o.bit ELSE @,
                                 !.m1 = IF @ # " " THEN @
                                        ELSE IF marked = " " THEN Arg(k, 1) ELSE marked,
                                 !.bad = @ \/ none \/ wrong]
           x == Next2(p)
           y == Next2(q)
<1>1. k \in Rows /\ Scan(q.row, 2, modes) = k /\ (q.e1 = Unset <=> free)
  BY ScanThere DEF Alike1, Alike, IsParse
<1>2. prefix \in Prefixed
  BY PrefixIs
<1>3. ParseExpr2(ctx, p, o) = Give(x, v)
  BY Zenon DEF ParseExpr2
<1>4. ParseExpr2(ctx, q, o) = Give(y, v)
  <2>1. p.e1 = q.e1 /\ p.row = q.row
    BY DEF Alike1, Alike
  <2> QED
    BY <2>1, Zenon DEF ParseExpr2
<1> HIDE DEF free, modes, marked, k, none, prefix, wrong, v
<1>5. /\ DOMAIN x = DOMAIN p /\ x.row = k /\ x.m2 = Arg(k, 2) /\ x.hl2 = prefix
      /\ x.hl1 = (IF free /\ ~none THEN prefix ELSE p.hl1)
      /\ x.b2b = (IF prefix = "B2B" THEN o.bit ELSE p.b2b)
      /\ x.m1 = (IF p.m1 # " " THEN p.m1 ELSE IF marked = " " THEN Arg(k, 1) ELSE marked)
      /\ (x.bad <=> p.bad \/ none \/ wrong)
      /\ x.e1 = p.e1 /\ x.e2 = p.e2 /\ x.reg = p.reg
  BY DEF Alike1, Alike, IsParse
<1>6. /\ DOMAIN y = DOMAIN q /\ y.row = k /\ y.m2 = Arg(k, 2) /\ y.hl2 = prefix
      /\ y.hl1 = (IF free /\ ~none THEN prefix ELSE q.hl1)
      /\ y.b2b = (IF prefix = "B2B" THEN o.bit ELSE q.b2b)
      /\ y.m1 = (IF q.m1 # " " THEN q.m1 ELSE IF marked = " " THEN Arg(k, 1) ELSE marked)
      /\ (y.bad <=> q.bad \/ none \/ wrong)
      /\ y.e1 = q.e1 /\ y.e2 = q.e2 /\ y.reg = q.reg
  BY DEF Alike1, Alike, IsParse
<1> HIDE DEF x, y
<1>7. Alike2(x, y)
  BY <1>1, <1>2, <1>5, <1>6 DEF Alike2, Alike1, Alike, IsParse
<1> QED
  BY <1>3, <1>4, <1>7, GiveAlike

LEMMA Second ==
  ASSUME NEW ctx, NEW o, NEW p, NEW q, Alike1(p, q)
  PROVE  Alike2(Parse2(ctx, p, o), Parse2(ctx, q, o))
<1>1. CASE IsNamed(ctx, o)
  BY <1>1, Named2Alike DEF Parse2
<1>2. CASE ~IsNamed(ctx, o) /\ o.form = "junk"
  <2> DEFINE x == [p EXCEPT !.bad = TRUE, !.hl2 = "none"]
             y == [q EXCEPT !.bad = TRUE, !.hl2 = "none"]
  <2>1. Parse2(ctx, p, o) = x /\ Parse2(ctx, q, o) = y
    BY <1>2 DEF Parse2
  <2>2. /\ DOMAIN x = DOMAIN p /\ x.row = p.row /\ x.m1 = p.m1 /\ x.m2 = p.m2 /\ x.reg = p.reg
        /\ x.e1 = p.e1 /\ x.e2 = p.e2 /\ x.bad /\ x.hl1 = p.hl1 /\ x.hl2 = "none" /\ x.b2b = p.b2b
    BY DEF Alike1, Alike, IsParse
  <2>3. /\ DOMAIN y = DOMAIN q /\ y.row = q.row /\ y.m1 = q.m1 /\ y.m2 = q.m2 /\ y.reg = q.reg
        /\ y.e1 = q.e1 /\ y.e2 = q.e2 /\ y.bad /\ y.hl1 = q.hl1 /\ y.hl2 = "none" /\ y.b2b = q.b2b
    BY DEF Alike1, Alike, IsParse
  <2> HIDE DEF x, y
  <2> QED
    BY <2>1, <2>2, <2>3 DEF Alike2, Alike1, Alike, IsParse, Prefixed
<1>3. CASE ~IsNamed(ctx, o) /\ o.form # "junk"
  BY <1>3, Expr2Alike DEF Parse2
<1> QED
  BY <1>1, <1>2, <1>3
-----------------------------------------------------------------------------
(* i51_build_ins.  A byte is what its expression and its prefix make of    *)
(* it, and the bit number only under B2B.                                  *)
LEMMA ByteSame ==
  ASSUME NEW v, NEW prefix \in Prefixed, NEW b, NEW c, prefix = "B2B" => b = c
  PROVE  /\ ByteFits(v, prefix, b) <=> ByteFits(v, prefix, c)
         /\ ByteOf(v, prefix, b) = ByteOf(v, prefix, c)
<1>1. CASE prefix = "B2B"
  BY <1>1
<1>2. CASE prefix = "none"
  BY <1>2 DEF ByteFits, ByteOf
<1>3. CASE prefix = "HIGH"
  BY <1>3 DEF ByteFits, ByteOf
<1>4. CASE prefix = "LOW"
  BY <1>4 DEF ByteFits, ByteOf
<1> QED
  BY <1>1, <1>2, <1>3, <1>4 DEF Prefixed

Fields == {"byte1", "byte2", "rel1", "rel2", "page1", "word1"}

SameField(p, q, field) == (Takes(p, field) <=> Takes(q, field)) /\ Written(p, field) = Written(q, field)

LEMMA FieldsOfFirst ==
  ASSUME NEW p, NEW q, Alike1(p, q), NEW field \in Fields \ {"byte2"}
  PROVE  SameField(p, q, field)
<1>1. p.row = q.row /\ p.e1 = q.e1 /\ p.e2 = q.e2 /\ p.hl1 = q.hl1
  BY DEF Alike1, Alike
<1>2. CASE field = "byte1"
  <2>1. /\ ByteFits(p.e1, p.hl1, p.b2b) <=> ByteFits(q.e1, q.hl1, q.b2b)
        /\ ByteOf(p.e1, p.hl1, p.b2b) = ByteOf(q.e1, q.hl1, q.b2b)
    BY <1>1, ByteSame DEF Alike1
  <2> QED
    BY <1>2, <2>1 DEF SameField, Takes, Written
<1>3. CASE field = "rel1"
  BY <1>1, <1>3 DEF SameField, Takes, Written
<1>4. CASE field = "rel2"
  BY <1>1, <1>4 DEF SameField, Takes, Written
<1>5. CASE field = "page1"
  BY <1>1, <1>5 DEF SameField, Takes, Written
<1>6. CASE field = "word1"
  BY <1>1, <1>6 DEF SameField, Takes, Written
<1> QED
  BY <1>2, <1>3, <1>4, <1>5, <1>6 DEF Fields

LEMMA FieldsOfBoth ==
  ASSUME NEW p, NEW q, Alike2(p, q), NEW field \in Fields
  PROVE  SameField(p, q, field)
<1>1. CASE field = "byte2"
  <2>1. p.e2 = q.e2 /\ p.hl2 = q.hl2 /\ p.hl2 \in Prefixed /\ (p.hl2 = "B2B" => p.b2b = q.b2b)
    BY DEF Alike2, Alike1, Alike
  <2>2. /\ ByteFits(p.e2, p.hl2, p.b2b) <=> ByteFits(q.e2, q.hl2, q.b2b)
        /\ ByteOf(p.e2, p.hl2, p.b2b) = ByteOf(q.e2, q.hl2, q.b2b)
    BY <2>1, ByteSame
  <2> QED
    BY <1>1, <2>2 DEF SameField, Takes, Written
<1>2. CASE field # "byte2"
  BY <1>2, FieldsOfFirst DEF Alike2
<1> QED
  BY <1>1, <1>2

LEMMA LayoutIs ==
  /\ Layout("N") = <<>>
  /\ \A m \in {"N", "D", "R", "I", "B", "7", "W", "1", "6"} :
       \A n \in DOMAIN Layout(m) : Layout(m)[n] \in Fields \ {"byte2"}
  /\ \A m \in {"N", "D", "R", "I", "B", "7", "W", "1", "6", "i", "r", "a", "d", "J", "X", "Y", "Z"} :
       \A n \in DOMAIN Layout(m) : Layout(m)[n] \in Fields
<1>1. /\ Layout("N") = <<>> /\ Layout("I") = <<>> /\ Layout("R") = <<>>
      /\ Layout("D") = <<"byte1">> /\ Layout("i") = <<"byte1">>
      /\ Layout("r") = <<"byte1">> /\ Layout("B") = <<"byte1">>
      /\ Layout("7") = <<"rel1">> /\ Layout("W") = <<"rel1">>
      /\ Layout("1") = <<"page1">> /\ Layout("6") = <<"word1">>
      /\ Layout("a") = <<"byte1", "byte2">> /\ Layout("d") = <<"byte2", "byte1">>
      /\ Layout("J") = <<"byte1", "rel2">> /\ Layout("X") = <<"byte1", "rel2">>
      /\ Layout("Y") = <<"byte1", "rel2">> /\ Layout("Z") = <<"byte1", "rel2">>
  BY DEF Layout
<1>2. /\ \A n \in DOMAIN <<>> : FALSE
      /\ \A a \in Fields : \A n \in DOMAIN <<a>> : <<a>>[n] = a
      /\ \A a, b \in Fields : \A n \in DOMAIN <<a, b>> : <<a, b>>[n] \in {a, b}
  OBVIOUS
<1>3. \A m \in {"N", "I", "R"} : \A n \in DOMAIN Layout(m) : FALSE
  BY <1>1, <1>2
<1>4. \A m \in {"D", "i", "r", "B", "7", "W", "1", "6"} :
        \A n \in DOMAIN Layout(m) : Layout(m)[n] \in Fields \ {"byte2"}
  BY <1>1, <1>2 DEF Fields
<1>5. \A m \in {"a", "d", "J", "X", "Y", "Z"} : \A n \in DOMAIN Layout(m) : Layout(m)[n] \in Fields
  <2>1. \A a, b \in Fields : \A n \in DOMAIN <<a, b>> : <<a, b>>[n] \in Fields
    BY <1>2
  <2>2. {"byte1", "byte2", "rel2"} \subseteq Fields
    BY DEF Fields
  <2>3. \A m \in {"a", "d", "J", "X", "Y", "Z"} : \E a, b \in Fields : Layout(m) = <<a, b>>
    BY <1>1, <2>2
  <2> QED
    BY <2>1, <2>3
<1> QED
  BY <1>1, <1>3, <1>4, <1>5

LEMMA EmitSame ==
  ASSUME NEW p, NEW q, Alike(p, q),
         Arg(p.row, 2) = "J" => p.hl2 = q.hl2,
         LET fields == Layout(Opcodes[p.row].mreloc)
         IN \A n \in DOMAIN fields : SameField(p, q, fields[n])
  PROVE  Emit(p) = Emit(q)
<1> DEFINE fields == Layout(Opcodes[p.row].mreloc)
<1>1. p.row = q.row /\ p.reg = q.reg /\ p.e1 = q.e1 /\ p.m1 = q.m1 /\ p.m2 = q.m2 /\ (p.bad <=> q.bad)
  BY DEF Alike
<1>2. \A n \in DOMAIN fields : /\ Takes(p, fields[n]) <=> Takes(q, fields[n])
                               /\ Written(p, fields[n]) = Written(q, fields[n])
  BY DEF SameField
<1>3. Layout(Opcodes[q.row].mreloc) = fields
  BY <1>1
<1>4. OperationCode(p) = OperationCode(q)
  BY <1>1, Zenon DEF OperationCode
<1> HIDE DEF fields
<1>5. Builds(p) <=> Builds(q)
  BY <1>1, <1>2, <1>3 DEF Builds, fields
<1>6. [n \in DOMAIN fields |-> Written(p, fields[n])] = [n \in DOMAIN fields |-> Written(q, fields[n])]
  BY <1>2
<1>7. Build(p) = Build(q)
  <2> DEFINE Shape(code, e1, fs, written) ==
               <<code + (IF fs = <<"page1">> THEN 32 * ((e1 % 2048) \div 256) ELSE 0)>>
                 \o Lists!FlattenSeq(written)
             writtenP == [n \in DOMAIN fields |-> Written(p, fields[n])]
             fieldsQ == Layout(Opcodes[q.row].mreloc)
             writtenQ == [n \in DOMAIN fieldsQ |-> Written(q, fieldsQ[n])]
  <2>1. Build(p) = Shape(OperationCode(p), p.e1, fields, writtenP)
    BY Zenon DEF Build, fields
  <2>2. Build(q) = Shape(OperationCode(q), q.e1, fieldsQ, writtenQ)
    BY Zenon DEF Build
  <2>3. fieldsQ = fields
    BY <1>3
  <2> HIDE DEF fieldsQ
  <2>4. writtenP = writtenQ
    BY <1>6, <2>3
  <2> HIDE DEF Shape, writtenP, writtenQ
  <2> QED
    BY <1>1, <1>4, <2>1, <2>2, <2>3, <2>4
<1> QED
  BY <1>1, <1>5, <1>7 DEF Emit

LEMMA RefuseIs ==
  ASSUME NEW p, IsParse(p)
  PROVE  Emit(Refuse(p)) = Refused
<1>1. Refuse(p).bad
  BY DEF Refuse, IsParse
<1> QED
  BY <1>1 DEF Emit

(* The whole line.                                                         *)
LEMMA ThirdSame ==
  ASSUME NEW ops, NEW p, NEW q, Alike2(p, q)
  PROVE  Emit(ParseThird(p, ops)) = Emit(ParseThird(q, ops))
<1>1. p.row = q.row /\ IsParse(p) /\ IsParse(q)
  BY DEF Alike2, Alike1, Alike
<1>2. CASE (Arg(p.row, 3) = "J") # (Len(ops) = 3)
  <2>1. ParseThird(p, ops) = Refuse(p) /\ ParseThird(q, ops) = Refuse(q)
    BY <1>1, <1>2 DEF ParseThird
  <2> QED
    BY <1>1, <2>1, RefuseIs
<1>3. CASE ~((Arg(p.row, 3) = "J") # (Len(ops) = 3))
  <2> DEFINE x == IF Len(ops) = 3 THEN [p EXCEPT !.e2 = ops[3].num] ELSE p
             y == IF Len(ops) = 3 THEN [q EXCEPT !.e2 = ops[3].num] ELSE q
  <2>1. ParseThird(p, ops) = x /\ ParseThird(q, ops) = y
    BY <1>1, <1>3 DEF ParseThird
  <2>2. /\ DOMAIN x = DOMAIN p /\ x.row = p.row /\ x.m1 = p.m1 /\ x.m2 = p.m2 /\ x.reg = p.reg
        /\ x.e1 = p.e1 /\ x.e2 = (IF Len(ops) = 3 THEN ops[3].num ELSE p.e2)
        /\ x.bad = p.bad /\ x.hl1 = p.hl1 /\ x.hl2 = p.hl2 /\ x.b2b = p.b2b
    BY DEF Alike2, Alike1, Alike, IsParse
  <2>3. /\ DOMAIN y = DOMAIN q /\ y.row = q.row /\ y.m1 = q.m1 /\ y.m2 = q.m2 /\ y.reg = q.reg
        /\ y.e1 = q.e1 /\ y.e2 = (IF Len(ops) = 3 THEN ops[3].num ELSE q.e2)
        /\ y.bad = q.bad /\ y.hl1 = q.hl1 /\ y.hl2 = q.hl2 /\ y.b2b = q.b2b
    BY DEF Alike2, Alike1, Alike, IsParse
  <2> HIDE DEF x, y
  <2>4. Alike2(x, y)
    BY <2>2, <2>3 DEF Alike2, Alike1, Alike, IsParse
  <2>5. Emit(x) = Emit(y)
    <3>1. Alike(x, y) /\ x.hl2 = y.hl2 /\ x.row \in Rows
      BY <2>4 DEF Alike2, Alike1, Alike, IsParse
    <3>2. \A n \in DOMAIN Layout(Opcodes[x.row].mreloc) :
            SameField(x, y, Layout(Opcodes[x.row].mreloc)[n])
      BY <2>4, <3>1, FieldsOfBoth, LayoutIs, RowsOfFewOperands
    <3> QED
      BY <3>1, <3>2, EmitSame
  <2> QED
    BY <2>1, <2>5
<1> QED
  BY <1>2, <1>3

LEMMA SecondSame ==
  ASSUME NEW ctx, NEW ops, NEW p, NEW q, Alike1(p, q)
  PROVE  Emit(ParseSecond(ctx, p, ops)) = Emit(ParseSecond(ctx, q, ops))
<1>1. p.row = q.row /\ p.row \in Rows /\ IsParse(p) /\ IsParse(q) /\ Alike(p, q)
  BY DEF Alike1, Alike, IsParse
<1>2. CASE (Arg(p.row, 2) = "N") # (Len(ops) = 1)
  <2>1. ParseSecond(ctx, p, ops) = Refuse(p) /\ ParseSecond(ctx, q, ops) = Refuse(q)
    BY <1>1, <1>2 DEF ParseSecond
  <2> QED
    BY <1>1, <2>1, RefuseIs
<1>3. CASE ~((Arg(p.row, 2) = "N") # (Len(ops) = 1)) /\ Len(ops) = 1
  <2>1. ParseSecond(ctx, p, ops) = p /\ ParseSecond(ctx, q, ops) = q
    BY <1>1, <1>3 DEF ParseSecond
  <2>2. Arg(p.row, 2) = "N"
    BY <1>3
  <2>3. \A n \in DOMAIN Layout(Opcodes[p.row].mreloc) :
          SameField(p, q, Layout(Opcodes[p.row].mreloc)[n])
    BY <1>1, <2>2, FieldsOfFirst, LayoutIs, RowsOfFewOperands
  <2> QED
    BY <1>1, <2>1, <2>2, <2>3, EmitSame
<1>4. CASE ~((Arg(p.row, 2) = "N") # (Len(ops) = 1)) /\ Len(ops) # 1
  <2>1. /\ ParseSecond(ctx, p, ops) = ParseThird(Parse2(ctx, p, ops[2]), ops)
        /\ ParseSecond(ctx, q, ops) = ParseThird(Parse2(ctx, q, ops[2]), ops)
    BY <1>1, <1>4 DEF ParseSecond
  <2>2. Alike2(Parse2(ctx, p, ops[2]), Parse2(ctx, q, ops[2]))
    BY Second
  <2> QED
    BY <2>1, <2>2, ThirdSame
<1> QED
  BY <1>2, <1>3, <1>4

LEMMA OperandsSame ==
  ASSUME NEW ctx, NEW ops, NEW p, NEW q, Alike(p, q)
  PROVE  Emit(ParseOperands(ctx, p, ops)) = Emit(ParseOperands(ctx, q, ops))
<1>1. p.row = q.row /\ p.row \in Rows /\ IsParse(p) /\ IsParse(q)
  BY DEF Alike, IsParse
<1>2. CASE (Arg(p.row, 1) = "N") # (Len(ops) = 0)
  <2>1. ParseOperands(ctx, p, ops) = Refuse(p) /\ ParseOperands(ctx, q, ops) = Refuse(q)
    BY <1>1, <1>2 DEF ParseOperands
  <2> QED
    BY <1>1, <2>1, RefuseIs
<1>3. CASE ~((Arg(p.row, 1) = "N") # (Len(ops) = 0)) /\ Len(ops) = 0
  <2>1. ParseOperands(ctx, p, ops) = p /\ ParseOperands(ctx, q, ops) = q
    BY <1>1, <1>3 DEF ParseOperands
  <2>2. Opcodes[p.row].mreloc = "N" /\ Arg(p.row, 2) = "N"
    BY <1>1, <1>3, RowsOfFewOperands
  <2>3. \A n \in DOMAIN Layout(Opcodes[p.row].mreloc) :
          SameField(p, q, Layout(Opcodes[p.row].mreloc)[n])
    BY <2>2, LayoutIs
  <2> QED
    BY <1>1, <2>1, <2>2, <2>3, EmitSame
<1>4. CASE ~((Arg(p.row, 1) = "N") # (Len(ops) = 0)) /\ Len(ops) # 0
  <2>1. /\ ParseOperands(ctx, p, ops) = ParseSecond(ctx, Parse1(ctx, p, ops[1]), ops)
        /\ ParseOperands(ctx, q, ops) = ParseSecond(ctx, Parse1(ctx, q, ops[1]), ops)
    BY <1>1, <1>4 DEF ParseOperands
  <2>2. Alike1(Parse1(ctx, p, ops[1]), Parse1(ctx, q, ops[1]))
    BY First
  <2> QED
    BY <2>1, <2>2, SecondSame
<1> QED
  BY <1>2, <1>3, <1>4

LEMMA LineSame ==
  ASSUME NEW name \in DOMAIN FirstRow, NEW ctx, NEW ops, NEW g, NEW h
  PROVE  Emit(ParseLine(ctx, g, name, ops)) = Emit(ParseLine(ctx, h, name, ops))
  BY StartAlike, OperandsSame DEF ParseLine
-----------------------------------------------------------------------------
(* The search through the rows of a name.  They stand together, by their   *)
(* first letter, and those that are searched for as one, the letters of an *)
(* expression, stand together too (but for cjne, whose rows with A are the *)
(* first and the last); so a search for one letter and then for another    *)
(* does not pass the row that has both.                                    *)
Like(a, b) == a = b \/ (a \in PlainModes1 /\ b \in PlainModes1)

SameName(j, k) == Opcodes[j].name = Opcodes[k].name

LEMMA NameIs == \A k \in Rows : Opcodes[k].name = Table[k][1]
<1>1. ASSUME NEW t PROVE Row(t).name = t[1]
  BY DEF Row
<1> QED
  BY <1>1, TableIs

LEMMA NamesTogether ==
  \A j, k \in Rows : j < k /\ SameName(j, k) => SameName(k - 1, k) /\ ~IsLast(j) /\ k - 1 \in Rows
<1>1. \A j, k \in Rows : j < k /\ Table[j][1] = Table[k][1] =>
        Table[k - 1][1] = Table[k][1] /\ Table[j][5] < 128
  <2>1. \A j, k \in Rows : j < k /\ Table[j][1] = Table[k][1] => Table[k - 1][1] = Table[k][1]
    BY SMTT(60) DEF Table, Rows
  <2>2. \A j, k \in Rows : j < k /\ Table[j][1] = Table[k][1] => Table[j][5] < 128
    BY SMTT(60) DEF Table, Rows
  <2> QED
    BY <2>1, <2>2
<1>2. \A k \in Rows : Table[k][5] \in Int
  BY SMTT(60) DEF Table, Rows
<1>3. \A j, k \in Rows : j < k => k - 1 \in Rows
  BY DEF Rows
<1>4. \A j \in Rows : IsLast(j) <=> Table[j][5] >= 128
  BY RowIs DEF IsLast
<1>5. \A j, k \in Rows : SameName(j, k) <=> Table[j][1] = Table[k][1]
  BY NameIs DEF SameName
<1> QED
  BY <1>1, <1>2, <1>3, <1>4, <1>5

(* No two rows of a name ask for the same letters.                         *)
LEMMA RowsDiffer ==
  \A j, k \in Rows :
    SameName(j, k) /\ Like(Arg(j, 1), Arg(k, 1)) /\ Like(Arg(j, 2), Arg(k, 2)) => j = k
<1>1. \A j, k \in Rows :
        j < k /\ Table[j][1] = Table[k][1] /\ Like(Table[j][2], Table[k][2]) =>
          ~Like(Table[j][3], Table[k][3])
  <2> DEFINE Same(j, k) == j < k /\ Table[j][1] = Table[k][1]
             Plain(a) == a \in {"B", "D", "J", "1", "6"}
  <2>1. \A j, k \in Rows : Same(j, k) /\ Table[j][2] = Table[k][2] => Table[j][3] # Table[k][3]
    BY SMTT(60) DEF Table, Rows
  <2>2. \A j, k \in Rows :
          Same(j, k) /\ Table[j][2] = Table[k][2] /\ Plain(Table[j][3]) => ~Plain(Table[k][3])
    BY SMTT(60) DEF Table, Rows
  <2>3. \A j, k \in Rows :
          Same(j, k) /\ Plain(Table[j][2]) /\ Plain(Table[k][2]) => Table[j][3] # Table[k][3]
    BY SMTT(60) DEF Table, Rows
  <2>4. \A j, k \in Rows :
          Same(j, k) /\ Plain(Table[j][2]) /\ Plain(Table[k][2]) /\ Plain(Table[j][3]) =>
            ~Plain(Table[k][3])
    BY SMTT(60) DEF Table, Rows
  <2>5. \A a, b : Like(a, b) <=> a = b \/ (Plain(a) /\ Plain(b))
    BY DEF Like, PlainModes1
  <2> HIDE DEF Plain
  <2> QED
    BY <2>1, <2>2, <2>3, <2>4, <2>5
<1>2. \A a, b : Like(a, b) => Like(b, a)
  BY DEF Like
<1>3. \A j, k \in Rows : j < k /\ SameName(j, k) /\ Like(Arg(j, 1), Arg(k, 1)) =>
        ~Like(Arg(j, 2), Arg(k, 2))
  BY <1>1, NameIs, RowIs DEF SameName
<1>4. \A j, k \in Rows : j # k => j < k \/ k < j
  BY DEF Rows
<1> QED
  BY <1>2, <1>3, <1>4 DEF SameName

(* The rows of a name have as many operands.                               *)
LEMMA AsManyOperands ==
  \A j, k \in Rows :
    SameName(j, k) => /\ Arg(j, 1) = "N" <=> Arg(k, 1) = "N"
                      /\ Arg(j, 2) = "N" <=> Arg(k, 2) = "N"
<1>1. \A j, k \in Rows :
        Table[j][1] = Table[k][1] => /\ Table[j][2] = "N" <=> Table[k][2] = "N"
                                     /\ Table[j][3] = "N" <=> Table[k][3] = "N"
  BY SMTT(60) DEF Table, Rows
<1> QED
  BY <1>1, NameIs, RowIs DEF SameName

LEMMA LettersTogether ==
  ASSUME NEW i \in Rows, NEW j \in Rows, NEW k \in Rows, i <= j, j <= k,
         SameName(i, k), SameName(j, k),
         Like(Arg(i, 1), Arg(k, 1)), Like(Arg(j, 2), Arg(k, 2))
  PROVE  Like(Arg(j, 1), Arg(k, 1))
<1> DEFINE a(n) == Table[n][2]
           Before(m, n) == m < n /\ Table[m][1] = Table[n][1]
<1>1. \A m, n \in Rows :
        Before(m, n) /\ a(n) = "A" /\ a(m) # "A" =>
          Table[m][3] = "#" /\ Table[n][3] = "D" /\ Table[n][5] >= 128
  <2>1. \A m, n \in Rows : Before(m, n) /\ a(n) = "A" => a(m) = "A" \/ Table[m][3] = "#"
    BY SMTT(60) DEF Table, Rows
  <2>2. \A m, n \in Rows : Before(m, n) /\ a(n) = "A" => a(m) = "A" \/ Table[n][3] = "D"
    BY SMTT(60) DEF Table, Rows
  <2>3. \A m, n \in Rows : Before(m, n) /\ a(n) = "A" => a(m) = "A" \/ Table[n][5] >= 128
    BY SMTT(60) DEF Table, Rows
  <2> HIDE DEF a, Before
  <2> QED
    BY <2>1, <2>2, <2>3
<1>2. \A m, n \in Rows : Before(m, n) /\ a(n) = "R" => a(m) \in {"A", "R"}
  BY SMTT(60) DEF Table, Rows
<1>3. \A m, n \in Rows : Before(m, n) /\ a(n) = "I" => a(m) \in {"A", "R", "I"}
  BY SMTT(60) DEF Table, Rows
<1>4. \A m, n \in Rows : Before(m, n) /\ a(n) = "r" => a(m) \in {"A", "R", "I", "r"}
  BY SMTT(60) DEF Table, Rows
<1>5. \A m, n \in Rows : Before(m, n) => a(n) \in {"A", "R", "I", "r", "P", "T"} \union PlainModes1
  BY SMTT(60) DEF Table, Rows, PlainModes1
<1>6. \A m, n \in Rows :
        Before(m, n) /\ a(n) \in {"P", "T"} => a(m) \notin {"P", "T"} \union PlainModes1
  BY SMTT(60) DEF Table, Rows, PlainModes1
<1>7. \A m, n \in Rows : Before(m, n) /\ a(m) \in PlainModes1 => a(n) \in PlainModes1
  BY SMTT(60) DEF Table, Rows, PlainModes1
<1>8. a(i) = Arg(i, 1) /\ a(j) = Arg(j, 1) /\ a(k) = Arg(k, 1) /\ Arg(j, 2) = Table[j][3]
      /\ Arg(k, 2) = Table[k][3]
  BY RowIs
<1>9. i < j /\ j < k => Before(i, j) /\ Before(j, k) /\ Before(i, k)
  <2>1. Table[i][1] = Table[k][1] /\ Table[j][1] = Table[k][1]
    BY NameIs DEF SameName
  <2> QED
    BY <2>1 DEF Rows
<1>10. i = j \/ j = k \/ (i < j /\ j < k)
  BY DEF Rows
<1> HIDE DEF a, Before
<1>11. CASE i = j \/ j = k
  BY <1>11 DEF Like
<1>12. CASE i < j /\ j < k
  <2>1. Before(i, j) /\ Before(j, k) /\ Before(i, k)
    BY <1>9, <1>12
  <2>2. CASE a(k) = "A"
    <3>1. Arg(k, 1) = "A" /\ Arg(j, 1) = a(j)
      BY <1>8, <2>2
    <3>2. a(j) # "A" => Arg(j, 2) = "#" /\ Arg(k, 2) = "D"
      BY <1>1, <1>8, <2>1, <2>2
    <3>3. ~Like("#", "D")
      BY DEF Like, PlainModes1
    <3> QED
      BY <3>1, <3>2, <3>3 DEF Like
  <2>3. CASE a(k) \in {"R", "I", "r", "P", "T"}
    <3>1. a(i) = a(k)
      BY <1>8, <2>3 DEF Like, PlainModes1
    <3>2. ~(Table[j][5] >= 128)
      <4>1. ~IsLast(j)
        BY <1>12, NamesTogether
      <4> QED
        BY <4>1, RowIs DEF IsLast
    <3>3. a(j) # "A"
      BY <1>1, <2>1, <2>3, <3>1, <3>2
    <3>4. a(j) \in {"R", "I", "r", "P", "T"}
      BY <1>5, <1>7, <2>1, <2>3, <3>3 DEF PlainModes1
    <3>5. a(j) = a(k)
      BY <1>2, <1>3, <1>4, <1>6, <2>1, <2>3, <3>1, <3>3, <3>4
    <3> QED
      BY <1>8, <3>5 DEF Like
  <2>4. CASE a(k) \in PlainModes1
    BY <1>7, <1>8, <2>1, <2>4 DEF Like
  <2> QED
    BY <1>5, <2>1, <2>2, <2>3, <2>4
<1> QED
  BY <1>10, <1>11, <1>12

LEMMA FirstIs ==
  ASSUME NEW k \in Rows, NEW f, f = FirstRow[Opcodes[k].name], Opcodes[k].name \in DOMAIN FirstRow
  PROVE  f \in Rows /\ f <= k /\ SameName(f, k)
<1> DEFINE name == Opcodes[k].name
           Named == {j \in Rows : Opcodes[j].name = name}
           IsFirst(j) == Opcodes[j].name = name /\ (j = 1 \/ Opcodes[j - 1].name # name)
<1>1. Named \in SUBSET Nat /\ k \in Named
  BY DEF Rows
<1>2. PICK m \in Named : \A j \in Named : m <= j
  BY <1>1, LeastOf
<1>3. m = 1 \/ Opcodes[m - 1].name # name
  <2> SUFFICES ASSUME m # 1, Opcodes[m - 1].name = name PROVE FALSE
    OBVIOUS
  <2>1. m - 1 \in Rows
    BY <1>2 DEF Rows
  <2>2. m - 1 \in Named
    BY <2>1
  <2> QED
    BY <1>1, <1>2, <2>2
<1>4. f = CHOOSE j \in Rows : IsFirst(j)
  BY TableIs, ZenonT(30) DEF FirstRow
<1>5. f \in Rows /\ IsFirst(f)
  BY <1>2, <1>3, <1>4
<1>6. k < f => SameName(f - 1, f) /\ f - 1 \in Rows
  BY <1>5, NamesTogether DEF SameName
<1>7. ~(k < f)
  <2> SUFFICES ASSUME k < f PROVE FALSE
    OBVIOUS
  <2>1. Opcodes[f - 1].name = name /\ f # 1
    BY <1>5, <1>6 DEF SameName, Rows
  <2> QED
    BY <1>5, <2>1
<1> QED
  BY <1>5, <1>7 DEF SameName, Rows

LEMMA AllBetween ==
  ASSUME NEW i \in Rows, NEW j \in Rows, NEW k \in Rows, i <= j, j <= k, SameName(i, k)
  PROVE  SameName(j, k)
<1> DEFINE From == {m \in i .. k : \A n \in m .. k : SameName(n, k)}
<1>1. From \in SUBSET Nat /\ k \in From
  BY DEF Rows, SameName
<1>2. PICK m \in From : \A n \in From : m <= n
  BY <1>1, LeastOf
<1>3. m \in Rows /\ i <= m /\ m <= k
  BY <1>2 DEF Rows
<1>4. CASE i < m
  <2>1. SameName(i, m)
    BY <1>2, <1>3 DEF SameName, Rows
  <2>2. SameName(m - 1, m) /\ m - 1 \in Rows
    BY <1>3, <1>4, <2>1, NamesTogether
  <2>3. SameName(m - 1, k)
    BY <1>2, <1>3, <2>2 DEF SameName, Rows
  <2>4. \A n \in m - 1 .. k : n = m - 1 \/ n \in m .. k
    BY <1>3 DEF Rows
  <2>5. m - 1 \in From
    BY <1>2, <1>3, <1>4, <2>3, <2>4 DEF Rows
  <2> QED
    BY <1>2, <1>3, <2>5 DEF Rows
<1>5. CASE m = i
  <2>1. j \in m .. k
    BY <1>5 DEF Rows
  <2> QED
    BY <1>2, <2>1
<1> QED
  BY <1>3, <1>4, <1>5 DEF Rows

(* The search does not pass a row of the name that it would stop at.       *)
LEMMA ScanFinds ==
  ASSUME NEW i \in Rows, NEW k \in Rows, i <= k, SameName(i, k),
         NEW n, NEW modes, Arg(k, n) \in modes, NEW s, s = Scan(i, n, modes)
  PROVE  s \in Rows /\ i <= s /\ s <= k /\ SameName(s, k) /\ Arg(s, n) \in modes
<1> DEFINE Stops(j) == Arg(j, n) \in modes \/ IsLast(j)
           Ends == {j \in i .. 111 : Stops(j)}
<1>1. Stops(k)
  OBVIOUS
<1>2. Ends \in SUBSET Nat /\ k \in Ends
  BY DEF Rows
<1> HIDE DEF Stops
<1>3. PICK m \in Ends : \A j \in Ends : m <= j
  BY <1>2, LeastOf
<1>4. \E j \in i .. 111 : Stops(j) /\ \A h \in i .. j - 1 : ~Stops(h)
  BY <1>3 DEF Rows
<1>5. s = CHOOSE j \in i .. 111 : Stops(j) /\ \A h \in i .. j - 1 : ~Stops(h)
  BY TableIs DEF Scan, Stops
<1>6. s \in i .. 111 /\ Stops(s) /\ \A h \in i .. s - 1 : ~Stops(h)
  BY <1>4, <1>5
<1>7. s \in Rows /\ i <= s /\ s <= k
  BY <1>1, <1>6 DEF Rows
<1>8. SameName(s, k)
  BY <1>7, AllBetween
<1>9. s < k => ~IsLast(s)
  BY <1>7, <1>8, NamesTogether
<1>10. Arg(s, n) \in modes
  <2>1. CASE s < k
    BY <1>6, <1>9, <2>1 DEF Stops
  <2>2. CASE s = k
    BY <2>2
  <2> QED
    BY <1>7, <2>1, <2>2 DEF Rows
<1> QED
  BY <1>7, <1>8, <1>10
-----------------------------------------------------------------------------
(* The names.                                                              *)
IsReference(r) ==
  \/ r[1] = "R" /\ r[2] \in 0 .. 7
  \/ r[1] = "I" /\ r[2] \in 0 .. 1
  \/ r[1] = "U" /\ r[2] \in 0 .. 7
  \/ r[1] \in {"A", "C", "r", "P", "@", "X", "T"} /\ r[2] = 0
  \/ r[1] = "/" /\ r[2] = 215
  \/ r[1] = "D" /\ r[2] \in {128, 224}
  \/ r[1] = "B" /\ r[2] \in {145, 215}

LEMMA PlaceIs ==
  ASSUME NEW name
  PROVE  /\ Within(RegisterNames, name) => Place(RegisterNames, name) \in 0 .. 7
         /\ Within(BankedNames, name) => Place(BankedNames, name) \in 0 .. 7
         /\ Within(IndirectNames, name) => Place(IndirectNames, name) \in 0 .. 1
<1>1. /\ DOMAIN RegisterNames = 1 .. 8 /\ DOMAIN BankedNames = 1 .. 8
      /\ DOMAIN IndirectNames = 1 .. 2
  BY DEF RegisterNames, BankedNames, IndirectNames
<1>2. ASSUME NEW names, Within(names, name), NEW n \in Nat, DOMAIN names = 1 .. n
      PROVE  Place(names, name) \in 0 .. n - 1
  <2> DEFINE at == CHOOSE k \in DOMAIN names : names[k] = name
  <2>1. at \in 1 .. n
    BY <1>2 DEF Within
  <2>2. Place(names, name) = at - 1
    BY DEF Place
  <2> HIDE DEF at
  <2> QED
    BY <2>1, <2>2
<1>3. Within(RegisterNames, name) => Place(RegisterNames, name) \in 0 .. 8 - 1
  BY <1>1, <1>2
<1>4. Within(BankedNames, name) => Place(BankedNames, name) \in 0 .. 8 - 1
  BY <1>1, <1>2
<1>5. Within(IndirectNames, name) => Place(IndirectNames, name) \in 0 .. 2 - 1
  BY <1>1, <1>2
<1> QED
  BY <1>3, <1>4, <1>5

LEMMA ReferenceIs ==
  ASSUME NEW name, Known(name)
  PROVE  IsReference(Ref(name))
<1> DEFINE u == <<"R", Place(RegisterNames, name)>>
           v == <<"I", Place(IndirectNames, name)>>
           w == <<"U", Place(BankedNames, name)>>
           x == Directop[name]
           a == Within(RegisterNames, name)
           b == Within(IndirectNames, name)
           c == Within(BankedNames, name)
           d == name \in DOMAIN Directop
           r == Ref(name)
<1>1. r = CASE a -> u [] b -> v [] c -> w [] d -> x
  BY Zenon DEF Ref
<1>2. a \/ b \/ c \/ d
  BY DEF Known
<1>3. a => IsReference(u)
  BY PlaceIs DEF IsReference
<1>4. b => IsReference(v)
  BY PlaceIs DEF IsReference
<1>5. c => IsReference(w)
  BY PlaceIs DEF IsReference
<1>6. d => IsReference(x)
  <2>1. d => x \in {<<"A", 0>>, <<"C", 0>>, <<"r", 0>>, <<"P", 0>>, <<"@", 0>>, <<"X", 0>>,
                    <<"T", 0>>, <<"/", \hD7>>, <<"D", \h80>>, <<"D", \hE0>>, <<"B", \h91>>,
                    <<"B", \hD7>>}
    BY DEF Directop
  <2> HIDE DEF x
  <2> QED
    BY <2>1 DEF IsReference
<1> HIDE DEF a, b, c, d, u, v, w, x, r
<1>7. (a /\ r = u) \/ (b /\ r = v) \/ (c /\ r = w) \/ (d /\ r = x)
  BY <1>1, <1>2, SMT
<1>8. IsReference(r)
  BY <1>3, <1>4, <1>5, <1>6, <1>7
<1> QED
  BY <1>8 DEF r

(* The value of a name is a number; of one that is used as a direct byte   *)
(* or a bit, a byte.                                                       *)
IsContext(ctx) == ctx.bank \in {NoBank, 0, 8, 16, 24}

LEMMA ValueIs ==
  ASSUME NEW ctx, IsContext(ctx), NEW name, Known(name)
  PROVE  /\ NameValue(ctx, name) \in Int
         /\ name \notin ctx.hidden /\ ~NameFails(ctx, name) =>
              IF Mode(name) = "R" THEN NameValue(ctx, name) \in 0 .. 7
              ELSE IF Mode(name) = "I" THEN NameValue(ctx, name) \in 0 .. 1
              ELSE NameValue(ctx, name) \in 0 .. 255
         /\ Mode(name) \in {"A", "C", "r", "P", "@", "X", "T", "R", "I", "/", "D", "B"}
<1> DEFINE r == Ref(name)
<1>1. IsReference(r)
  BY ReferenceIs
<1>2. ctx.bank \in {255, 0, 8, 16, 24}
  BY DEF IsContext, NoBank
<1>3. NameValue(ctx, name) = IF name \in ctx.hidden THEN UserValue
                             ELSE IF r[1] = "U" THEN ctx.bank + r[2] ELSE r[2]
  BY DEF NameValue
<1>4. NameFails(ctx, name) <=> name \notin ctx.hidden /\ r[1] = "U" /\ ctx.bank = 255
  BY DEF NameFails, NoBank
<1>5. Mode(name) = IF r[1] = "U" THEN "D" ELSE r[1]
  BY DEF Mode
<1> HIDE DEF r
<1>6. r[2] \in Int /\ r[1] \in {"A", "C", "r", "P", "@", "X", "T", "R", "I", "U", "/", "D", "B"}
  BY <1>1 DEF IsReference
<1>7. NameValue(ctx, name) \in Int
  BY <1>2, <1>3, <1>6, GasAssumption
<1>8. Mode(name) \in {"A", "C", "r", "P", "@", "X", "T", "R", "I", "/", "D", "B"}
  BY <1>5, <1>6
<1>9. ASSUME name \notin ctx.hidden, ~NameFails(ctx, name)
      PROVE  IF Mode(name) = "R" THEN NameValue(ctx, name) \in 0 .. 7
             ELSE IF Mode(name) = "I" THEN NameValue(ctx, name) \in 0 .. 1
             ELSE NameValue(ctx, name) \in 0 .. 255
  <2>1. r[1] = "U" => ctx.bank \in {0, 8, 16, 24} /\ r[2] \in 0 .. 7
    BY <1>1, <1>2, <1>4, <1>9 DEF IsReference
  <2>2. r[1] # "U" => NameValue(ctx, name) = r[2]
    BY <1>3, <1>9
  <2>3. r[1] = "U" => NameValue(ctx, name) \in 0 .. 255 /\ Mode(name) = "D"
    BY <1>3, <1>5, <1>9, <2>1
  <2>4. r[1] = "R" => r[2] \in 0 .. 7
    BY <1>1 DEF IsReference
  <2>5. r[1] = "I" => r[2] \in 0 .. 1
    BY <1>1 DEF IsReference
  <2>6. r[2] \in 0 .. 255
    BY <1>1 DEF IsReference
  <2> QED
    BY <1>5, <2>2, <2>3, <2>4, <2>5, <2>6
<1> QED
  BY <1>7, <1>8, <1>9
-----------------------------------------------------------------------------
(* An operand that fits a letter of a row.                                 *)
Holds(ctx, o, k, n) ==
  LET v == Folded(ctx, o)
      arg == Arg(k, n)
  IN /\ arg \in {"D", "B", "/"} \/ (arg = "#" /\ Arg(k, 1) # "P") => ByteFits(v, o.prefix, o.bit)
     /\ arg = "J" => o.prefix = "none" /\ Reaches(v, Size(k))
     /\ arg = "6" \/ (arg = "#" /\ Arg(k, 1) = "P") => o.prefix = "none" /\ Between(v, -65536, 65535)
     /\ arg = "1" => o.prefix = "none" /\ InPage(v)

AsExpression(ctx, o, arg) ==
  /\ ~NumberFails(ctx, o) /\ ~FoldFails(ctx, o)
  /\ \/ o.form \in {"name", "plain"} /\ arg \in PlainModes1
     \/ o.form = "slash" /\ arg = "/" /\ o.prefix = "none"
     \/ o.form = "hash" /\ arg = "#" /\ o.prefix # "B2B"

AsName(ctx, o, arg) == arg = Mode(o.name) /\ ~NameFails(ctx, o.name) /\ o.prefix = "none"

LEMMA WidthIs ==
  ASSUME NEW k, NEW n, Arg(k, n) = "#"
  PROVE  Width(k, n) = IF Arg(k, 1) = "P" THEN 2 ELSE 1
<1> DEFINE a == Arg(k, n)
           w == IF Arg(k, 1) = "P" THEN 2 ELSE 1
<1>1. Width(k, n) = CASE a \in {"D", "B", "/", "J", "1"} -> 1
                      [] a = "6" -> 2 [] a = "#" -> w [] OTHER -> 0
  BY Zenon DEF Width
<1> HIDE DEF w
<1>2. Width(k, n) = w
  BY <1>1
<1> QED
  BY <1>2 DEF w

LEMMA MeantIs ==
  ASSUME NEW ctx, NEW o, NEW k, NEW n, Meant(ctx, o, k, n) # {}
  PROVE  LET arg == Arg(k, n)
             m == Meant(ctx, o, k, n)
             plain == o.form \in {"name", "plain"} /\ ~IsNamed(ctx, o)
         IN \/ IsNamed(ctx, o) /\ m = NameMeant(ctx, o, arg)
            \/ plain /\ arg = "D" /\ o.prefix # "B2B" /\ ~Dotted(o) /\ m = ByteMeant("mem", ctx, o)
            \/ plain /\ arg = "B" /\ m = BitMeant("mem", ctx, o)
            \/ plain /\ arg = "J" /\ m = TargetMeant(ctx, o, k)
            \/ plain /\ arg = "1" /\ InPage(Number(ctx, o)) /\ m = WordMeant("code", ctx, o)
            \/ plain /\ arg = "6" /\ m = WordMeant("code", ctx, o)
            \/ o.form = "slash" /\ arg = "/" /\ o.prefix = "none" /\ m = BitMeant("/", ctx, o)
            \/ o.form = "hash" /\ arg = "#" /\ o.prefix # "B2B" /\ ~Dotted(o)
               /\ m = (IF Arg(k, 1) = "P" THEN WordMeant("#", ctx, o) ELSE ByteMeant("#", ctx, o))
<1> DEFINE arg == Arg(k, n)
           m == Meant(ctx, o, k, n)
           form == o.form \in {"name", "plain"}
           named == IsNamed(ctx, o)
           hash == IF Width(k, n) = 2 THEN WordMeant("#", ctx, o) ELSE ByteMeant("#", ctx, o)
           g1 == named
           g2 == ~named /\ form /\ arg = "D" /\ o.prefix # "B2B" /\ ~Dotted(o)
           g3 == ~named /\ form /\ arg = "B"
           g4 == ~named /\ form /\ arg = "J"
           g5 == ~named /\ form /\ arg = "1" /\ o.prefix = "none" /\ InPage(Number(ctx, o))
           g6 == ~named /\ form /\ arg = "6"
           g7 == o.form = "slash" /\ arg = "/" /\ o.prefix = "none"
           g8 == o.form = "hash" /\ arg = "#" /\ o.prefix # "B2B" /\ ~Dotted(o)
           v1 == NameMeant(ctx, o, arg)
           v2 == ByteMeant("mem", ctx, o)
           v3 == BitMeant("mem", ctx, o)
           v4 == TargetMeant(ctx, o, k)
           v5 == WordMeant("code", ctx, o)
           v7 == BitMeant("/", ctx, o)
<1>1. m = CASE g1 -> v1 [] g2 -> v2 [] g3 -> v3 [] g4 -> v4 [] g5 -> v5 [] g6 -> v5 [] g7 -> v7
            [] g8 -> hash [] OTHER -> {}
  BY Zenon DEF Meant
<1>2. arg = "#" => hash = (IF Arg(k, 1) = "P" THEN WordMeant("#", ctx, o) ELSE ByteMeant("#", ctx, o))
  BY WidthIs
<1> DEFINE w8 == IF Arg(k, 1) = "P" THEN WordMeant("#", ctx, o) ELSE ByteMeant("#", ctx, o)
<1>3. g8 => hash = w8
  BY <1>2
<1>4. m # {}
  OBVIOUS
<1> HIDE DEF m, g1, g2, g3, g4, g5, g6, g7, g8, v1, v2, v3, v4, v5, v7, hash, w8
<1>5. \/ g1 /\ m = v1
      \/ g2 /\ m = v2
      \/ g3 /\ m = v3
      \/ g4 /\ m = v4
      \/ g5 /\ m = v5
      \/ g6 /\ m = v5
      \/ g7 /\ m = v7
      \/ g8 /\ m = w8
  BY <1>1, <1>3, <1>4, SMT
<1> QED
  BY <1>5, Zenon DEF m, g1, g2, g3, g4, g5, g6, g7, g8, v1, v2, v3, v4, v5, v7, w8

LEMMA NumberIs ==
  ASSUME NEW ctx, IsContext(ctx), NEW o, IsOperand(o)
  PROVE  /\ Number(ctx, o) \in Int /\ Folded(ctx, o) \in Int
         /\ o.bit \in Int
         /\ Dotted(o) => o.bit \in 0 .. 7 /\ o.bit # NoBit
         /\ ~Dotted(o) => Folded(ctx, o) = Number(ctx, o) /\ ~FoldFails(ctx, o)
         /\ o.bit = NoBit => ~Dotted(o)
         /\ o.form = "name" => Known(o.name) /\ o.name # "" /\ o.prefix = "none" /\ o.bit = NoBit
<1>1. o.name = "" \/ Known(o.name)
  BY DEF IsOperand
<1>2. Number(ctx, o) \in Int
  BY <1>1, ValueIs DEF Number, IsOperand
<1>3. o.bit \in Int
  <2>1. o.bit \in Nat \/ o.bit \in {NoBit} \union 0 .. 7
    BY DEF IsOperand
  <2> QED
    BY <2>1 DEF NoBit
<1>4. Folded(ctx, o) \in Int
  BY <1>2, <1>3 DEF Folded, BitOf
<1>5. Dotted(o) => o.bit \in 0 .. 7 /\ o.bit # NoBit
  BY DEF IsOperand, Dotted
<1>6. ~Dotted(o) => Folded(ctx, o) = Number(ctx, o) /\ ~FoldFails(ctx, o)
  BY DEF Folded, FoldFails
<1>7. o.form = "name" => Known(o.name) /\ o.name # "" /\ o.prefix = "none" /\ o.bit = NoBit
  BY DEF IsOperand
<1> QED
  BY <1>2, <1>3, <1>4, <1>5, <1>6, <1>7 DEF Dotted

(* A number that a dot folds into a bit address gives a byte.              *)
LEMMA DottedBit ==
  ASSUME NEW v \in Int, BitAddressable(v), NEW b \in 0 .. 7
  PROVE  BitOf(v, b) \in 0 .. 255
  BY DEF BitAddressable, Between, BitOf

LEMMA PlainFits ==
  ASSUME NEW v \in Int, NEW bit, v \in -128 .. 255
  PROVE  ByteFits(v, "none", bit)
  BY DEF ByteFits, Between

LEMMA BitHolds ==
  ASSUME NEW ctx, IsContext(ctx), NEW o, IsOperand(o), NEW kind, BitMeant(kind, ctx, o) # {}
  PROVE  /\ ~NumberFails(ctx, o) /\ ~FoldFails(ctx, o)
         /\ ByteFits(Folded(ctx, o), o.prefix, o.bit)
<1>1. CASE ~Dotted(o)
  BY <1>1, NumberIs DEF BitMeant, ByteMeant
<1>2. CASE Dotted(o)
  <2>1. o.prefix = "none" /\ ~FoldFails(ctx, o) /\ ~NumberFails(ctx, o)
    BY <1>2 DEF BitMeant
  <2>2. Folded(ctx, o) = BitOf(Number(ctx, o), o.bit) /\ BitAddressable(Number(ctx, o))
    BY <1>2, <2>1 DEF Folded, FoldFails
  <2>3. Folded(ctx, o) \in 0 .. 255
    <3>1. Number(ctx, o) \in Int /\ o.bit \in 0 .. 7
      BY <1>2, NumberIs
    <3> QED
      BY <2>2, <3>1, DottedBit
  <2>4. ByteFits(Folded(ctx, o), "none", o.bit)
    BY <2>3, PlainFits
  <2> QED
    BY <2>1, <2>4
<1> QED
  BY <1>1, <1>2

LEMMA WordHolds ==
  ASSUME NEW ctx, IsContext(ctx), NEW o, IsOperand(o), NEW kind, WordMeant(kind, ctx, o) # {}
  PROVE  /\ o.prefix = "none" /\ ~NumberFails(ctx, o) /\ ~FoldFails(ctx, o)
         /\ Folded(ctx, o) = Number(ctx, o) /\ Between(Number(ctx, o), -65536, 65535)
<1>1. o.prefix = "none" /\ o.bit = NoBit /\ ~NumberFails(ctx, o) /\ Between(Number(ctx, o), -65536, 65535)
  BY DEF WordMeant
<1>2. ~Dotted(o)
  BY <1>1 DEF Dotted
<1>3. Folded(ctx, o) = Number(ctx, o) /\ ~FoldFails(ctx, o)
  BY <1>2 DEF Folded, FoldFails
<1> QED
  BY <1>1, <1>3

LEMMA FitIs ==
  ASSUME NEW ctx, IsContext(ctx), NEW o, IsOperand(o), NEW k, NEW n, Meant(ctx, o, k, n) # {}
  PROVE  /\ IF IsNamed(ctx, o) THEN AsName(ctx, o, Arg(k, n)) ELSE AsExpression(ctx, o, Arg(k, n))
         /\ o.prefix = "B2B" => Arg(k, n) = "B"
         /\ Holds(ctx, o, k, n)
<1> DEFINE arg == Arg(k, n)
           v == Number(ctx, o)
           m == Meant(ctx, o, k, n)
           plain == o.form \in {"name", "plain"} /\ ~IsNamed(ctx, o)
           named == IsNamed(ctx, o) /\ m = NameMeant(ctx, o, arg)
           direct == plain /\ arg = "D" /\ o.prefix # "B2B" /\ ~Dotted(o) /\ m = ByteMeant("mem", ctx, o)
           bit == plain /\ arg = "B" /\ m = BitMeant("mem", ctx, o)
           target == plain /\ arg = "J" /\ m = TargetMeant(ctx, o, k)
           page == plain /\ arg = "1" /\ InPage(v) /\ m = WordMeant("code", ctx, o)
           address == plain /\ arg = "6" /\ m = WordMeant("code", ctx, o)
           inverted == o.form = "slash" /\ arg = "/" /\ o.prefix = "none" /\ m = BitMeant("/", ctx, o)
           immediate == o.form = "hash" /\ arg = "#" /\ o.prefix # "B2B" /\ ~Dotted(o)
                          /\ m = (IF Arg(k, 1) = "P" THEN WordMeant("#", ctx, o) ELSE ByteMeant("#", ctx, o))
<1>1. CASE named
  <2>1. arg = Mode(o.name) /\ ~NameFails(ctx, o.name)
    BY <1>1 DEF NameMeant
  <2>2. o.form = "name" /\ o.name \notin ctx.hidden
    BY <1>1 DEF IsNamed
  <2>3. Known(o.name) /\ o.name # "" /\ o.prefix = "none" /\ o.bit = NoBit
    BY <2>2, NumberIs
  <2>4. Folded(ctx, o) = NameValue(ctx, o.name)
    BY <2>3, NumberIs DEF Number
  <2>5. NameValue(ctx, o.name) \in Int /\ NameValue(ctx, o.name) \in -128 .. 255
    <3> DEFINE w == NameValue(ctx, o.name)
    <3>1. w \in 0 .. 7 \/ w \in 0 .. 1 \/ w \in 0 .. 255
      BY <2>1, <2>2, <2>3, ValueIs, ZenonT(30)
    <3> HIDE DEF w
    <3>2. w \in Int /\ w \in -128 .. 255
      BY <3>1
    <3> QED
      BY <3>2 DEF w
  <2>6. ByteFits(Folded(ctx, o), o.prefix, o.bit)
    <3>1. ByteFits(NameValue(ctx, o.name), "none", o.bit)
      BY <2>5, PlainFits
    <3> QED
      BY <2>3, <2>4, <3>1
  <2>7. arg \notin {"#", "J", "1", "6"}
    BY <2>1, <2>3, ValueIs
  <2>8. AsName(ctx, o, arg)
    BY <2>1, <2>3 DEF AsName
  <2>9. Holds(ctx, o, k, n)
    BY <2>6, <2>7 DEF Holds
  <2> QED
    BY <1>1, <2>3, <2>8, <2>9
<1>2. CASE direct
  <2>1. ~NumberFails(ctx, o) /\ ~FoldFails(ctx, o) /\ ByteFits(Folded(ctx, o), o.prefix, o.bit)
    BY <1>2, NumberIs DEF ByteMeant
  <2> QED
    BY <1>2, <2>1 DEF AsExpression, Holds, PlainModes1
<1>3. CASE bit
  <2>1. ~NumberFails(ctx, o) /\ ~FoldFails(ctx, o) /\ ByteFits(Folded(ctx, o), o.prefix, o.bit)
    BY <1>3, BitHolds
  <2> QED
    BY <1>3, <2>1 DEF AsExpression, Holds, PlainModes1
<1>4. CASE target
  <2>1. o.prefix = "none" /\ o.bit = NoBit /\ ~NumberFails(ctx, o) /\ Reaches(v, Size(k))
    BY <1>4 DEF TargetMeant
  <2>2. Folded(ctx, o) = v /\ ~FoldFails(ctx, o)
    BY <2>1, NumberIs
  <2> QED
    BY <1>4, <2>1, <2>2 DEF AsExpression, Holds, PlainModes1
<1>5. ASSUME NEW kind, m = WordMeant(kind, ctx, o)
      PROVE  /\ o.prefix = "none" /\ ~NumberFails(ctx, o) /\ ~FoldFails(ctx, o)
             /\ Folded(ctx, o) = v /\ Between(v, -65536, 65535)
  BY <1>5, WordHolds
<1>6. CASE page
  BY <1>5, <1>6 DEF AsExpression, Holds, PlainModes1
<1>7. CASE address
  BY <1>5, <1>7 DEF AsExpression, Holds, PlainModes1
<1>8. CASE inverted
  <2>1. ~NumberFails(ctx, o) /\ ~FoldFails(ctx, o) /\ ByteFits(Folded(ctx, o), o.prefix, o.bit)
    BY <1>8, BitHolds
  <2> QED
    BY <1>8, <2>1 DEF AsExpression, Holds, IsNamed
<1>9. CASE immediate
  <2>1. CASE Arg(k, 1) = "P"
    BY <1>5, <1>9, <2>1 DEF AsExpression, Holds, IsNamed
  <2>2. CASE Arg(k, 1) # "P"
    <3>1. ~NumberFails(ctx, o) /\ ~FoldFails(ctx, o) /\ ByteFits(Folded(ctx, o), o.prefix, o.bit)
      BY <1>9, <2>2, NumberIs DEF ByteMeant
    <3> QED
      BY <1>9, <2>2, <3>1 DEF AsExpression, Holds, IsNamed
  <2> QED
    BY <2>1, <2>2
<1>10. named \/ direct \/ bit \/ target \/ page \/ address \/ inverted \/ immediate
  BY MeantIs, Zenon
<1> HIDE DEF named, direct, bit, target, page, address, inverted, immediate
<1> QED
  BY <1>1, <1>2, <1>3, <1>4, <1>6, <1>7, <1>8, <1>9, <1>10, Zenon

(* Its prefix is one that the parser knows there.                          *)
LEMMA PrefixKept ==
  ASSUME NEW ctx, NEW o, IsOperand(o), NEW arg, AsExpression(ctx, o, arg), NEW b2bToo,
         o.prefix = "B2B" => b2bToo /\ arg \in PlainModes1
  PROVE  Recognised(o, b2bToo) = o.prefix /\ ~ExprFails(ctx, o, b2bToo)
<1> DEFINE some == {"none", "HIGH", "LOW"} \union (IF b2bToo THEN {"B2B"} ELSE {})
<1>1. Prefixes(o, b2bToo) = CASE o.form = "hash" -> {"none", "HIGH", "LOW"}
                              [] o.form = "slash" -> {"none"} [] OTHER -> some
  BY Zenon DEF Prefixes
<1>2. o.prefix \in {"none", "HIGH", "LOW", "B2B"}
  BY DEF IsOperand
<1> HIDE DEF some
<1>3. CASE o.form = "hash"
  <2>1. Prefixes(o, b2bToo) = {"none", "HIGH", "LOW"}
    BY <1>1, <1>3
  <2>2. o.prefix # "B2B"
    BY <1>3 DEF AsExpression
  <2> QED
    BY <1>2, <2>1, <2>2 DEF Recognised, ExprFails, AsExpression
<1>4. CASE o.form = "slash"
  <2>1. Prefixes(o, b2bToo) = {"none"}
    BY <1>1, <1>4
  <2> QED
    BY <1>4, <2>1 DEF Recognised, ExprFails, AsExpression
<1>5. CASE o.form \notin {"hash", "slash"}
  <2>1. Prefixes(o, b2bToo) = some
    BY <1>1, <1>5
  <2>2. o.prefix \in some
    BY <1>2 DEF some
  <2> QED
    BY <2>1, <2>2 DEF Recognised, ExprFails, AsExpression
<1> QED
  BY <1>3, <1>4, <1>5
-----------------------------------------------------------------------------
(* More of the table: a branch or a call stands alone under its name, a    *)
(* single byte or bit operand on the last row, and no first operand is an  *)
(* immediate.                                                              *)
LEMMA FirstLetters ==
  /\ \A j, k \in Rows : SameName(j, k) /\ Arg(j, 1) \in {"J", "1", "6"} => j = k
  /\ \A k \in Rows : Arg(k, 1) \in {"B", "D"} /\ Arg(k, 2) = "N" => IsLast(k)
  /\ \A k \in Rows : Arg(k, 1) \notin {"#", "/", " "} /\ Arg(k, 3) \in {"N", "J"}
<1>1. \A j, k \in Rows : Table[j][1] = Table[k][1] /\ Table[j][2] \in {"J", "1", "6"} => j = k
  BY SMTT(60) DEF Table, Rows
<1>2. \A k \in Rows : Table[k][2] \in {"B", "D"} /\ Table[k][3] = "N" => Table[k][5] >= 128
  BY SMTT(60) DEF Table, Rows
<1>3. \A k \in Rows : Table[k][2] \in {"A", "B", "C", "D", "I", "J", "N", "P", "R", "T", "r", "@", "1", "6"}
  BY SMTT(60) DEF Table, Rows
<1>4. \A k \in Rows : Table[k][4] \in {"N", "J"}
  BY SMTT(60) DEF Table, Rows
<1>5. \A k \in Rows : Table[k][5] >= 128 => IsLast(k)
  BY RowIs DEF IsLast
<1>6. \A j, k \in Rows : SameName(j, k) => Table[j][1] = Table[k][1]
  BY NameIs DEF SameName
<1>7. \A k \in Rows : Arg(k, 1) = Table[k][2] /\ Arg(k, 2) = Table[k][3] /\ Arg(k, 3) = Table[k][4]
  BY RowIs
<1>8. \A j, k \in Rows : SameName(j, k) /\ Arg(j, 1) \in {"J", "1", "6"} => j = k
  BY <1>1, <1>6, <1>7
<1>9. \A k \in Rows : Arg(k, 1) \in {"B", "D"} /\ Arg(k, 2) = "N" => IsLast(k)
  BY <1>2, <1>5, <1>7
<1>10. \A k \in Rows : Arg(k, 1) \notin {"#", "/", " "} /\ Arg(k, 3) \in {"N", "J"}
  BY <1>3, <1>4, <1>7
<1> QED
  BY <1>8, <1>9, <1>10

(* The parse of a line that has a form, the row k, after one operand.      *)
Gives(k, n) == Arg(k, n) \in PlainModes1 \union {"#", "/"}

AfterFirst(ctx, o, k, p) ==
  /\ IsParse(p) /\ p.row <= k /\ SameName(p.row, k) /\ Like(Arg(p.row, 1), Arg(k, 1))
  /\ ~p.bad /\ p.m2 = "N" /\ p.e2 = Unset
  /\ \/ p.m1 = Arg(k, 1)
     \/ p.m1 = " " /\ Arg(k, 1) \in {"B", "D"} /\ ~IsLast(p.row)
  /\ IF Gives(k, 1) THEN p.e1 = Folded(ctx, o) /\ p.hl1 = o.prefix ELSE p.e1 = Unset /\ p.hl1 = "none"
  /\ o.prefix = "B2B" => p.b2b = o.bit
  /\ p.reg = IF Arg(k, 1) \in {"R", "I"} THEN NameValue(ctx, o.name) ELSE 0

Started(k, p) ==
  /\ IsParse(p) /\ p.row <= k /\ SameName(p.row, k)
  /\ ~p.bad /\ p.m1 = "N" /\ p.m2 = "N" /\ p.e1 = Unset /\ p.e2 = Unset /\ p.reg = 0

LEMMA StartIs ==
  ASSUME NEW k \in Rows, NEW name \in DOMAIN FirstRow, Opcodes[k].name = name, NEW g
  PROVE  Started(k, Start(name, g))
<1> DEFINE f == FirstRow[name]
           p == Start(name, g)
<1>1. f \in Rows /\ f <= k /\ SameName(f, k)
  BY FirstIs
<1>2. /\ DOMAIN p = {"row", "m1", "m2", "reg", "e1", "e2", "hl1", "hl2", "b2b", "bad"}
      /\ p.row = f /\ ~p.bad /\ p.m1 = "N" /\ p.m2 = "N" /\ p.e1 = Unset /\ p.e2 = Unset /\ p.reg = 0
  BY DEF Start
<1> HIDE DEF f, p
<1>3. Started(k, p)
  BY <1>1, <1>2 DEF Started, IsParse
<1> QED
  BY <1>3 DEF p

LEMMA FirstNamed ==
  ASSUME NEW ctx, IsContext(ctx), NEW k \in Rows, NEW p, Started(k, p),
         NEW o, IsOperand(o), IsNamed(ctx, o), AsName(ctx, o, Arg(k, 1))
  PROVE  AfterFirst(ctx, o, k, ParseNamed1(ctx, p, o))
<1> DEFINE m == Mode(o.name)
           s == Scan(p.row, 1, {m})
           x == ParseNamed1(ctx, p, o)
           fails == Arg(s, 1) # m \/ NameFails(ctx, o.name)
           v == NameValue(ctx, o.name)
<1>1. m = Arg(k, 1) /\ ~NameFails(ctx, o.name) /\ o.prefix = "none"
  BY DEF AsName
<1>2. s \in Rows /\ s <= k /\ SameName(s, k) /\ Arg(s, 1) = m
  <2>1. Arg(k, 1) \in {m}
    BY <1>1
  <2> QED
    BY <2>1, ScanFinds DEF Started, IsParse
<1>3. ~fails
  BY <1>1, <1>2
<1>4. /\ DOMAIN x = DOMAIN p /\ x.row = s /\ x.m1 = m /\ x.m2 = p.m2 /\ x.hl1 = "none"
      /\ x.reg = (IF m \in {"R", "I"} THEN v ELSE p.reg)
      /\ x.e1 = (IF m \in {"D", "B"} /\ ~fails THEN v ELSE p.e1)
      /\ x.e2 = p.e2 /\ (x.bad <=> p.bad \/ fails)
  BY DEF ParseNamed1, Started, IsParse
<1>5. v = Folded(ctx, o)
  <2>1. o.name # "" /\ o.bit = NoBit /\ o.form = "name"
    BY NumberIs DEF IsNamed
  <2> QED
    BY <2>1 DEF Folded, Dotted, Number
<1>6. m \notin {"J", "1", "6"}
  <2>1. Known(o.name)
    BY NumberIs DEF IsNamed
  <2> QED
    BY <2>1, ValueIs
<1>7. m \notin {"#", "/"}
  BY <1>1, FirstLetters
<1> HIDE DEF m, s, x, fails, v
<1>8. Gives(k, 1) <=> m \in {"D", "B"}
  BY <1>1, <1>6, <1>7 DEF Gives, PlainModes1
<1>9. IsParse(x) /\ x.row <= k /\ SameName(x.row, k) /\ Like(Arg(x.row, 1), Arg(k, 1))
  BY <1>1, <1>2, <1>4 DEF Started, IsParse, Like
<1>10. ~x.bad /\ x.m2 = "N" /\ x.e2 = Unset /\ x.m1 = Arg(k, 1)
  BY <1>1, <1>3, <1>4 DEF Started
<1>11. IF Gives(k, 1) THEN x.e1 = Folded(ctx, o) /\ x.hl1 = o.prefix ELSE x.e1 = Unset /\ x.hl1 = "none"
  BY <1>1, <1>3, <1>4, <1>5, <1>8 DEF Started
<1>12. x.reg = IF Arg(k, 1) \in {"R", "I"} THEN v ELSE 0
  BY <1>1, <1>4 DEF Started
<1>13. AfterFirst(ctx, o, k, x)
  BY <1>1, <1>9, <1>10, <1>11, <1>12 DEF AfterFirst, v
<1> QED
  BY <1>13 DEF x

LEMMA FirstPlain ==
  ASSUME NEW ctx, IsContext(ctx), NEW k \in Rows, NEW p, Started(k, p),
         NEW o, IsOperand(o), AsExpression(ctx, o, Arg(k, 1))
  PROVE  AfterFirst(ctx, o, k, ParsePlain1(ctx, p, o)) /\ o.form \in {"name", "plain"}
<1> DEFINE s == Scan(p.row, 1, PlainModes1)
           x == ParsePlain1(ctx, p, o)
           prefix == Recognised(o, TRUE)
           fails == ExprFails(ctx, o, TRUE)
           v == Folded(ctx, o)
           m == IF IsLast(s) \/ Arg(s, 1) \notin {"B", "D"} THEN Arg(s, 1) ELSE " "
<1>1. Arg(k, 1) \in PlainModes1 /\ o.form \in {"name", "plain"}
  BY FirstLetters DEF AsExpression
<1>2. s \in Rows /\ s <= k /\ SameName(s, k) /\ Arg(s, 1) \in PlainModes1
  BY <1>1, ScanFinds DEF Started, IsParse
<1>3. prefix = o.prefix /\ ~fails
  BY <1>1, PrefixKept, Zenon
<1>4. /\ DOMAIN x = DOMAIN p /\ x.row = s /\ x.m1 = m /\ x.m2 = p.m2 /\ x.hl1 = prefix
      /\ x.reg = p.reg /\ x.e1 = v /\ x.e2 = p.e2 /\ (x.bad <=> p.bad \/ fails)
      /\ (prefix = "B2B" => x.b2b = o.bit)
  BY DEF ParsePlain1, Started, IsParse
<1> HIDE DEF s, x, prefix, fails, v
<1>5. m = Arg(k, 1) \/ (m = " " /\ Arg(k, 1) \in {"B", "D"} /\ ~IsLast(s))
  <2>1. CASE s = k
    BY <1>1, <2>1 DEF PlainModes1
  <2>2. CASE s # k
    <3>1. ~IsLast(s)
      <4>1. s \in Rows /\ k \in Rows /\ s < k /\ SameName(s, k)
        BY <1>2, <2>2 DEF Rows
      <4> QED
        BY <4>1, NamesTogether
    <3>2. Arg(s, 1) \in {"B", "D"} /\ Arg(k, 1) \in {"B", "D"}
      BY <1>1, <1>2, <2>2, FirstLetters DEF PlainModes1, SameName
    <3> QED
      BY <3>1, <3>2
  <2> QED
    BY <2>1, <2>2
<1> HIDE DEF m
<1>6. Gives(k, 1) /\ Arg(k, 1) \notin {"R", "I"}
  BY <1>1 DEF Gives, PlainModes1
<1>7. IsParse(x) /\ x.row <= k /\ SameName(x.row, k) /\ Like(Arg(x.row, 1), Arg(k, 1))
  BY <1>1, <1>2, <1>4 DEF Started, IsParse, Like
<1>8. AfterFirst(ctx, o, k, x)
  BY <1>3, <1>4, <1>5, <1>6, <1>7 DEF AfterFirst, Started, v
<1> QED
  BY <1>1, <1>8 DEF x

LEMMA FormFirst ==
  ASSUME NEW ctx, IsContext(ctx), NEW k \in Rows, NEW p, Started(k, p),
         NEW o, IsOperand(o), Meant(ctx, o, k, 1) # {}
  PROVE  AfterFirst(ctx, o, k, Parse1(ctx, p, o))
<1>1. CASE IsNamed(ctx, o)
  BY <1>1, FirstNamed, FitIs DEF Parse1
<1>2. CASE ~IsNamed(ctx, o)
  BY <1>2, FirstPlain, FitIs DEF Parse1
<1> QED
  BY <1>1, <1>2

(* A bit, or an inverted one, comes second only after C; an immediate, of  *)
(* the operands in memory, only after a direct byte.                       *)
LEMMA SecondLetters ==
  \A k \in Rows :
    /\ Arg(k, 2) \in {"A", "B", "D", "I", "J", "N", "R", "X", "r", "@", "T", "#", "/"}
    /\ Arg(k, 2) \in {"B", "/"} => Arg(k, 1) = "r"
    /\ Arg(k, 2) = "#" /\ Arg(k, 1) \in PlainModes1 => Arg(k, 1) = "D"
    /\ Arg(k, 1) \in {"R", "I"} => Arg(k, 2) \notin {"R", "I"}
<1>1. \A k \in Rows :
        Table[k][3] \in {"A", "B", "D", "I", "J", "N", "R", "X", "r", "@", "T", "#", "/"}
  BY SMTT(60) DEF Table, Rows
<1>2. \A k \in Rows : Table[k][3] \in {"B", "/"} => Table[k][2] = "r"
  BY SMTT(60) DEF Table, Rows
<1>3. \A k \in Rows : Table[k][3] = "#" /\ Table[k][2] \in PlainModes1 => Table[k][2] = "D"
  BY SMTT(60) DEF Table, Rows, PlainModes1
<1>4. \A k \in Rows : Table[k][2] \in {"R", "I"} => Table[k][3] \notin {"R", "I"}
  BY SMTT(60) DEF Table, Rows
<1>5. \A k \in Rows : Arg(k, 1) = Table[k][2] /\ Arg(k, 2) = Table[k][3]
  BY RowIs
<1> QED
  BY <1>1, <1>2, <1>3, <1>4, <1>5

(* After two operands, the row is found.                                   *)
Register(ctx, k, o1, o2) ==
  IF Arg(k, 1) \in {"R", "I"} THEN NameValue(ctx, o1.name)
  ELSE IF Arg(k, 2) \in {"R", "I"} THEN NameValue(ctx, o2.name) ELSE 0

AfterSecond(ctx, o1, o2, k, p) ==
  /\ IsParse(p) /\ p.row = k /\ ~p.bad /\ p.m1 = Arg(k, 1) /\ p.m2 = Arg(k, 2)
  /\ Gives(k, 1) => p.e1 = Folded(ctx, o1) /\ p.hl1 = o1.prefix /\ (o1.prefix = "B2B" => p.b2b = o1.bit)
  /\ ~Gives(k, 1) /\ Gives(k, 2) =>
       p.e1 = Folded(ctx, o2) /\ p.hl1 = o2.prefix /\ (o2.prefix = "B2B" => p.b2b = o2.bit)
  /\ Gives(k, 2) => p.hl2 = o2.prefix
  /\ Gives(k, 1) /\ Gives(k, 2) => p.e2 = Folded(ctx, o2) /\ o2.prefix # "B2B"
  /\ p.reg = Register(ctx, k, o1, o2)

LEMMA RowFound ==
  ASSUME NEW j \in Rows, NEW k \in Rows, NEW modes, NEW s, s = Scan(j, 2, modes),
         j <= k, SameName(j, k), Like(Arg(j, 1), Arg(k, 1)), Arg(k, 2) \in modes,
         \A a, b \in modes : a = b \/ (a # "d" /\ b # "d" => Like(a, b))
  PROVE  s = k
<1>1. s \in Rows /\ j <= s /\ s <= k /\ SameName(s, k) /\ Arg(s, 2) \in modes
  BY ScanFinds
<1>2. Arg(s, 2) # "d" /\ Arg(k, 2) # "d"
  BY <1>1, SecondLetters
<1>3. Like(Arg(s, 2), Arg(k, 2))
  BY <1>1, <1>2 DEF Like
<1>4. Like(Arg(s, 1), Arg(k, 1))
  BY <1>1, <1>3, LettersTogether
<1> QED
  BY <1>1, <1>3, <1>4, RowsDiffer

LEMMA FreeIs ==
  ASSUME NEW ctx, IsContext(ctx), NEW o, IsOperand(o), NEW k, NEW p, AfterFirst(ctx, o, k, p)
  PROVE  p.e1 = Unset <=> ~Gives(k, 1)
<1>1. Folded(ctx, o) # Unset
  BY NumberIs, GasAssumption
<1> QED
  BY <1>1 DEF AfterFirst

LEMMA GiveIs ==
  ASSUME NEW p, IsParse(p), NEW v, NEW q, q = Give(p, v)
  PROVE  /\ IsParse(q) /\ q.row = p.row /\ q.m1 = p.m1 /\ q.m2 = p.m2 /\ q.reg = p.reg
         /\ (q.bad <=> p.bad) /\ q.hl1 = p.hl1 /\ q.hl2 = p.hl2 /\ q.b2b = p.b2b
         /\ IF p.e1 = Unset THEN q.e1 = v /\ q.e2 = p.e2 ELSE q.e1 = p.e1 /\ q.e2 = v
<1>1. CASE p.e1 = Unset
  <2>1. q = [p EXCEPT !.e1 = v]
    BY <1>1 DEF Give
  <2> QED
    BY <1>1, <2>1 DEF IsParse
<1>2. CASE p.e1 # Unset
  <2>1. q = [p EXCEPT !.e2 = v]
    BY <1>2 DEF Give
  <2> QED
    BY <1>2, <2>1 DEF IsParse
<1> QED
  BY <1>1, <1>2

LEMMA SecondNamed ==
  ASSUME NEW ctx, IsContext(ctx), NEW k \in Rows, NEW a, IsOperand(a), NEW p, AfterFirst(ctx, a, k, p),
         a.prefix = "B2B" => Arg(k, 1) = "B",
         NEW o, IsOperand(o), IsNamed(ctx, o), AsName(ctx, o, Arg(k, 2))
  PROVE  AfterSecond(ctx, a, o, k, ParseNamed2(ctx, p, o))
<1> DEFINE m == Mode(o.name)
           s == Scan(p.row, 2, {m})
           v == NameValue(ctx, o.name)
           first == \/ Arg(s, 1) = p.m1
                    \/ p.m1 = " " /\ Arg(s, 1) \in {"B", "D"}
           wrong == Arg(s, 2) # m
           fails == NameFails(ctx, o.name)
           x == [p EXCEPT !.row = s, !.m2 = m, !.hl2 = "none",
                          !.m1 = IF @ = " " THEN Arg(s, 1) ELSE @,
                          !.bad = @ \/ wrong \/ ~first \/ fails,
                          !.reg = IF m \in {"R", "I"} THEN v ELSE @]
           y == ParseNamed2(ctx, p, o)
<1>1. m = Arg(k, 2) /\ ~fails /\ o.prefix = "none"
  BY DEF AsName
<1>2. s = k
  <2>1. p.row \in Rows /\ p.row <= k /\ SameName(p.row, k) /\ Like(Arg(p.row, 1), Arg(k, 1))
    BY DEF AfterFirst, IsParse
  <2>2. Arg(k, 2) \in {m}
    BY <1>1
  <2> QED
    BY <2>1, <2>2, RowFound
<1>3. y = IF m \in {"D", "B", "/"} THEN Give(x, v) ELSE x
  BY DEF ParseNamed2
<1>4. v = Folded(ctx, o)
  <2>1. o.name # "" /\ o.bit = NoBit /\ o.form = "name"
    BY NumberIs DEF IsNamed
  <2> QED
    BY <2>1 DEF Folded, Dotted, Number
<1>5. m \in {"A", "C", "r", "P", "@", "X", "T", "R", "I", "/", "D", "B"}
  <2>1. Known(o.name)
    BY NumberIs DEF IsNamed
  <2> QED
    BY <2>1, ValueIs
<1>6. Gives(k, 2) <=> m \in {"D", "B", "/"}
  BY <1>1, <1>5 DEF Gives, PlainModes1
<1>7. first /\ Arg(k, 1) # " "
  BY <1>2, FirstLetters DEF AfterFirst
<1>8. p.e1 = Unset <=> ~Gives(k, 1)
  BY FreeIs
<1>9. v = NameValue(ctx, o.name)
  OBVIOUS
<1>10. Arg(k, 1) \in {"R", "I"} => m \notin {"R", "I"}
  BY <1>1, SecondLetters
<1> HIDE DEF m, s, v, first, wrong, fails
<1>11. /\ IsParse(x) /\ x.row = k /\ x.m2 = m /\ x.hl2 = "none"
       /\ x.m1 = (IF p.m1 = " " THEN Arg(s, 1) ELSE p.m1)
       /\ (x.bad <=> p.bad \/ wrong \/ ~first \/ fails)
       /\ x.reg = (IF m \in {"R", "I"} THEN v ELSE p.reg)
       /\ x.e1 = p.e1 /\ x.e2 = p.e2 /\ x.hl1 = p.hl1 /\ x.b2b = p.b2b
  BY <1>2 DEF AfterFirst, IsParse
<1>12. ~wrong
  BY <1>1, <1>2 DEF wrong
<1> HIDE DEF x, y
<1>13. /\ IsParse(y) /\ y.row = k /\ y.m2 = m /\ y.hl2 = "none" /\ y.m1 = x.m1 /\ (y.bad <=> x.bad)
       /\ y.reg = x.reg /\ y.hl1 = p.hl1 /\ y.b2b = p.b2b
       /\ y.e1 = (IF Gives(k, 2) /\ p.e1 = Unset THEN v ELSE p.e1)
       /\ (Gives(k, 2) /\ p.e1 # Unset => y.e2 = v)
  <2>1. CASE Gives(k, 2)
    <3>1. y = Give(x, v)
      BY <1>3, <1>6, <2>1
    <3>2. IsParse(x)
      BY <1>11
    <3>3. /\ IsParse(y) /\ y.row = x.row /\ y.m1 = x.m1 /\ y.m2 = x.m2 /\ y.reg = x.reg
          /\ (y.bad <=> x.bad) /\ y.hl1 = x.hl1 /\ y.hl2 = x.hl2 /\ y.b2b = x.b2b
          /\ IF x.e1 = Unset THEN y.e1 = v /\ y.e2 = x.e2 ELSE y.e1 = x.e1 /\ y.e2 = v
      BY <3>1, <3>2, GiveIs
    <3> QED
      BY <1>11, <2>1, <3>3
  <2>2. CASE ~Gives(k, 2)
    <3>1. y = x
      BY <1>3, <1>6, <2>2
    <3> QED
      BY <1>11, <2>2, <3>1
  <2> QED
    BY <2>1, <2>2
<1>14. ~y.bad /\ y.m1 = Arg(k, 1) /\ y.m2 = Arg(k, 2)
  BY <1>1, <1>2, <1>7, <1>11, <1>12, <1>13 DEF AfterFirst
<1>15. y.reg = Register(ctx, k, a, o)
  BY <1>1, <1>9, <1>10, <1>11, <1>13 DEF Register, AfterFirst
<1>16. Gives(k, 1) => y.e1 = Folded(ctx, a) /\ y.hl1 = a.prefix /\ (a.prefix = "B2B" => y.b2b = a.bit)
  BY <1>8, <1>13 DEF AfterFirst
<1>17. ~Gives(k, 1) /\ Gives(k, 2) => y.e1 = Folded(ctx, o) /\ y.hl1 = o.prefix
  BY <1>1, <1>4, <1>8, <1>13 DEF AfterFirst
<1>18. Gives(k, 1) /\ Gives(k, 2) => y.e2 = Folded(ctx, o)
  BY <1>4, <1>8, <1>13
<1>19. AfterSecond(ctx, a, o, k, y)
  BY <1>1, <1>13, <1>14, <1>15, <1>16, <1>17, <1>18 DEF AfterSecond
<1> QED
  BY <1>19 DEF y

LEMMA SecondExpr ==
  ASSUME NEW ctx, IsContext(ctx), NEW k \in Rows, NEW a, IsOperand(a), NEW p, AfterFirst(ctx, a, k, p),
         NEW o, IsOperand(o), AsExpression(ctx, o, Arg(k, 2)), o.prefix = "B2B" => Arg(k, 2) = "B"
  PROVE  AfterSecond(ctx, a, o, k, ParseExpr2(ctx, p, o)) /\ o.form # "junk"
<1> DEFINE free == p.e1 = Unset
           modes == CASE o.form = "hash" -> {"#"} [] o.form = "slash" -> {"/"}
                      [] OTHER -> PlainModes2
           marked == CASE o.form = "hash" -> "D" [] o.form = "slash" -> "B" [] OTHER -> " "
           s == Scan(p.row, 2, modes)
           none == o.form \in {"hash", "slash"} /\ Arg(s, 2) \notin modes
           prefix == Recognised(o, free)
           fails == ExprFails(ctx, o, free)
           v == Folded(ctx, o)
           x == [p EXCEPT !.row = s, !.hl2 = prefix, !.m2 = Arg(s, 2),
                          !.hl1 = IF free /\ ~none THEN prefix ELSE @,
                          !.b2b = IF prefix = "B2B" THEN o.bit ELSE @,
                          !.m1 = IF @ # " " THEN @
                                 ELSE IF marked = " " THEN Arg(s, 1) ELSE marked,
                          !.bad = @ \/ none \/ fails]
           y == ParseExpr2(ctx, p, o)
           arg == Arg(k, 2)
<1>1. /\ o.form = "hash" => modes = {"#"} /\ marked = "D" /\ arg = "#"
      /\ o.form = "slash" => modes = {"/"} /\ marked = "B" /\ arg = "/"
      /\ o.form \notin {"hash", "slash"} => modes = PlainModes2 /\ marked = " "
  BY DEF AsExpression
<1>2. o.form \notin {"hash", "slash"} => arg \in PlainModes2 /\ arg \in PlainModes1
  BY SecondLetters DEF AsExpression, PlainModes1, PlainModes2
<1>3. arg \in modes /\ \A c, d \in modes : c = d \/ (c # "d" /\ d # "d" => Like(c, d))
  BY <1>1, <1>2 DEF Like, PlainModes1, PlainModes2
<1>4. s = k
  <2>1. p.row \in Rows /\ p.row <= k /\ SameName(p.row, k) /\ Like(Arg(p.row, 1), Arg(k, 1))
    BY DEF AfterFirst, IsParse
  <2> HIDE DEF modes
  <2> QED
    BY <1>3, <2>1, RowFound
<1>5. free <=> ~Gives(k, 1)
  BY FreeIs
<1>6. o.prefix = "B2B" => free /\ arg \in PlainModes1
  BY <1>5, SecondLetters DEF Gives, PlainModes1
<1>7. prefix = o.prefix /\ ~fails
  <2> HIDE DEF free
  <2>1. Recognised(o, free) = o.prefix /\ ~ExprFails(ctx, o, free)
    BY <1>6, PrefixKept, Zenon
  <2> QED
    BY <2>1, Zenon
<1>8. y = Give(x, v)
  BY Zenon DEF ParseExpr2
<1>9. p.m1 = " " => Arg(k, 1) = (IF marked = " " THEN Arg(k, 1) ELSE marked)
  <2>1. p.m1 = " " => Arg(k, 1) \in {"B", "D"}
    BY FirstLetters DEF AfterFirst
  <2>2. p.m1 = " " /\ o.form = "hash" => Arg(k, 1) = "D"
    BY <1>1, <2>1, SecondLetters DEF PlainModes1
  <2>3. p.m1 = " " => o.form # "slash"
    BY <1>1, <2>1, SecondLetters
  <2> QED
    BY <1>1, <2>2, <2>3
<1>10. ~none
  BY <1>3, <1>4
<1>11. Gives(k, 2) /\ arg \notin {"R", "I"}
  BY <1>1, <1>2 DEF Gives, PlainModes1
<1> HIDE DEF free, modes, marked, s, none, prefix, fails, v
<1>12. /\ IsParse(x) /\ x.row = k /\ x.m2 = Arg(k, 2) /\ x.hl2 = prefix
       /\ x.hl1 = (IF free /\ ~none THEN prefix ELSE p.hl1)
       /\ x.b2b = (IF prefix = "B2B" THEN o.bit ELSE p.b2b)
       /\ x.m1 = (IF p.m1 # " " THEN p.m1 ELSE IF marked = " " THEN Arg(k, 1) ELSE marked)
       /\ (x.bad <=> p.bad \/ none \/ fails)
       /\ x.e1 = p.e1 /\ x.e2 = p.e2 /\ x.reg = p.reg
  BY <1>4 DEF AfterFirst, IsParse
<1>13. x.e1 = Unset <=> free
  BY <1>12 DEF free
<1> HIDE DEF x, y
<1>14. /\ IsParse(y) /\ y.row = k /\ y.m2 = Arg(k, 2) /\ y.hl2 = prefix /\ y.m1 = x.m1
       /\ (y.bad <=> x.bad) /\ y.reg = p.reg /\ y.hl1 = x.hl1 /\ y.b2b = x.b2b
       /\ IF free THEN y.e1 = v ELSE y.e1 = p.e1 /\ y.e2 = v
  <2>1. IsParse(x)
    BY <1>12
  <2>2. /\ IsParse(y) /\ y.row = x.row /\ y.m1 = x.m1 /\ y.m2 = x.m2 /\ y.reg = x.reg
        /\ (y.bad <=> x.bad) /\ y.hl1 = x.hl1 /\ y.hl2 = x.hl2 /\ y.b2b = x.b2b
        /\ IF x.e1 = Unset THEN y.e1 = v /\ y.e2 = x.e2 ELSE y.e1 = x.e1 /\ y.e2 = v
    BY <1>8, <2>1, GiveIs
  <2> QED
    BY <1>12, <1>13, <2>2
<1>15. ~y.bad /\ y.m1 = Arg(k, 1)
  BY <1>7, <1>9, <1>10, <1>12, <1>14 DEF AfterFirst
<1>16. y.reg = Register(ctx, k, a, o)
  BY <1>11, <1>14 DEF Register, AfterFirst
<1>17. Gives(k, 1) => y.e1 = Folded(ctx, a) /\ y.hl1 = a.prefix /\ (a.prefix = "B2B" => y.b2b = a.bit)
  BY <1>5, <1>6, <1>7, <1>12, <1>14 DEF AfterFirst
<1>18. ~Gives(k, 1) => y.e1 = Folded(ctx, o) /\ y.hl1 = o.prefix /\ (o.prefix = "B2B" => y.b2b = o.bit)
  BY <1>5, <1>7, <1>10, <1>12, <1>14 DEF v
<1>19. Gives(k, 1) => y.e2 = Folded(ctx, o) /\ o.prefix # "B2B"
  BY <1>5, <1>6, <1>14 DEF v
<1>20. AfterSecond(ctx, a, o, k, y)
  BY <1>7, <1>14, <1>15, <1>16, <1>17, <1>18, <1>19 DEF AfterSecond
<1> QED
  BY <1>20 DEF y, AsExpression

LEMMA FormSecond ==
  ASSUME NEW ctx, IsContext(ctx), NEW k \in Rows, NEW a, IsOperand(a), Meant(ctx, a, k, 1) # {},
         NEW p, AfterFirst(ctx, a, k, p), NEW o, IsOperand(o), Meant(ctx, o, k, 2) # {}
  PROVE  AfterSecond(ctx, a, o, k, Parse2(ctx, p, o))
<1>1. CASE IsNamed(ctx, o)
  BY <1>1, SecondNamed, FitIs DEF Parse2
<1>2. CASE ~IsNamed(ctx, o)
  <2>1. AsExpression(ctx, o, Arg(k, 2)) /\ (o.prefix = "B2B" => Arg(k, 2) = "B")
    BY <1>2, FitIs
  <2>2. AfterSecond(ctx, a, o, k, ParseExpr2(ctx, p, o)) /\ o.form # "junk"
    BY <2>1, SecondExpr
  <2> QED
    BY <1>2, <2>2 DEF Parse2
<1> QED
  BY <1>1, <1>2
-----------------------------------------------------------------------------
(* A line and a form of it.                                                *)
IsLine(ops) ==
  /\ Len(ops) \in 0 .. 3
  /\ \A n \in 1 .. 3 : n <= Len(ops) => IsOperand(ops[n]) /\ (n = 3 => IsTarget(ops[n]))

IsForm(ctx, name, ops, k) ==
  /\ k \in Rows /\ Opcodes[k].name = name
  /\ \A n \in 1 .. 3 : IF n <= Len(ops) THEN Meant(ctx, ops[n], k, n) # {} ELSE Arg(k, n) = "N"

(* What is then given: the first expression and the second.                *)
Parsed(ctx, ops, k, p) ==
  /\ IsParse(p) /\ p.row = k /\ ~p.bad /\ p.m1 = Arg(k, 1) /\ p.m2 = Arg(k, 2)
  /\ Gives(k, 1) => /\ p.e1 = Folded(ctx, ops[1]) /\ p.hl1 = ops[1].prefix
                    /\ ops[1].prefix = "B2B" => p.b2b = ops[1].bit
  /\ ~Gives(k, 1) /\ Gives(k, 2) => /\ p.e1 = Folded(ctx, ops[2]) /\ p.hl1 = ops[2].prefix
                                    /\ ops[2].prefix = "B2B" => p.b2b = ops[2].bit
  /\ Gives(k, 2) => p.hl2 = ops[2].prefix
  /\ IF Arg(k, 3) = "J" THEN p.e2 = Folded(ctx, ops[3])
     ELSE Gives(k, 1) /\ Gives(k, 2) => p.e2 = Folded(ctx, ops[2]) /\ ops[2].prefix # "B2B"
  /\ Len(ops) >= 1 => p.reg = Register(ctx, k, ops[1], ops[2])

LEMMA NotNone ==
  ASSUME NEW ctx, IsContext(ctx), NEW o, IsOperand(o), NEW k, NEW n, Meant(ctx, o, k, n) # {}
  PROVE  Arg(k, n) # "N"
<1>1. CASE IsNamed(ctx, o)
  <2>1. Arg(k, n) = Mode(o.name)
    BY <1>1, FitIs DEF AsName
  <2>2. Known(o.name)
    BY <1>1, NumberIs DEF IsNamed
  <2> QED
    BY <2>1, <2>2, ValueIs
<1>2. CASE ~IsNamed(ctx, o)
  <2>1. AsExpression(ctx, o, Arg(k, n))
    BY <1>2, FitIs
  <2> QED
    BY <2>1 DEF AsExpression, PlainModes1
<1> QED
  BY <1>1, <1>2

LEMMA FormParsesThird ==
  ASSUME NEW ctx, IsContext(ctx), NEW name, NEW ops, IsLine(ops), NEW k, IsForm(ctx, name, ops, k),
         Len(ops) >= 2, NEW p, AfterSecond(ctx, ops[1], ops[2], k, p)
  PROVE  Parsed(ctx, ops, k, ParseThird(p, ops))
<1>1. k \in Rows /\ p.row = k
  BY DEF IsForm, AfterSecond
<1>2. CASE Len(ops) = 2
  <2>1. Arg(k, 3) = "N"
    BY <1>2 DEF IsForm
  <2>2. ParseThird(p, ops) = p
    BY <1>1, <1>2, <2>1 DEF ParseThird
  <2> QED
    BY <1>2, <2>1, <2>2 DEF Parsed, AfterSecond
<1>3. CASE Len(ops) = 3
  <2>1. IsOperand(ops[3]) /\ IsTarget(ops[3]) /\ Meant(ctx, ops[3], k, 3) # {}
    BY <1>3 DEF IsLine, IsForm
  <2>2. Arg(k, 3) = "J"
    BY <1>1, <2>1, NotNone, FirstLetters
  <2> DEFINE x == [p EXCEPT !.e2 = ops[3].num]
  <2>3. ParseThird(p, ops) = x
    BY <1>1, <1>3, <2>2 DEF ParseThird
  <2>4. ops[3].num = Folded(ctx, ops[3])
    BY <2>1 DEF IsTarget, Folded, Number, Dotted
  <2>5. /\ DOMAIN x = DOMAIN p /\ x.row = p.row /\ x.m1 = p.m1 /\ x.m2 = p.m2 /\ x.reg = p.reg
        /\ x.e1 = p.e1 /\ x.e2 = ops[3].num /\ (x.bad <=> p.bad) /\ x.hl1 = p.hl1 /\ x.hl2 = p.hl2
        /\ x.b2b = p.b2b
    BY DEF AfterSecond, IsParse
  <2> HIDE DEF x
  <2>6. IsParse(x)
    BY <2>5 DEF AfterSecond, IsParse
  <2>7. Parsed(ctx, ops, k, x)
    BY <2>2, <2>4, <2>5, <2>6 DEF Parsed, AfterSecond
  <2> QED
    BY <2>3, <2>7
<1> QED
  BY <1>2, <1>3 DEF IsLine

LEMMA FormParsesSecond ==
  ASSUME NEW ctx, IsContext(ctx), NEW name, NEW ops, IsLine(ops), NEW k, IsForm(ctx, name, ops, k),
         Len(ops) >= 1, NEW p, AfterFirst(ctx, ops[1], k, p)
  PROVE  Parsed(ctx, ops, k, ParseSecond(ctx, p, ops))
<1>1. k \in Rows /\ p.row \in Rows /\ SameName(p.row, k) /\ Like(Arg(p.row, 1), Arg(k, 1)) /\ p.row <= k
  BY DEF IsForm, AfterFirst, IsParse
<1>2. Arg(p.row, 2) = "N" <=> Arg(k, 2) = "N"
  BY <1>1, AsManyOperands
<1>3. IsOperand(ops[1]) /\ Meant(ctx, ops[1], k, 1) # {}
  BY DEF IsLine, IsForm
<1>4. CASE Len(ops) = 1
  <2>1. Arg(k, 2) = "N" /\ Arg(k, 3) = "N"
    BY <1>4 DEF IsForm
  <2>2. ParseSecond(ctx, p, ops) = p
    BY <1>2, <1>4, <2>1 DEF ParseSecond
  <2>3. p.row = k
    BY <1>1, <1>2, <2>1, RowsDiffer DEF Like
  <2>4. p.m1 = Arg(k, 1)
    BY <1>1, <2>1, <2>3, FirstLetters DEF AfterFirst
  <2>5. ~Gives(k, 2) /\ Arg(k, 2) \notin {"R", "I"}
    BY <2>1 DEF Gives, PlainModes1
  <2>6. p.reg = Register(ctx, k, ops[1], ops[2])
    BY <2>5 DEF Register, AfterFirst
  <2> QED
    BY <2>1, <2>2, <2>3, <2>4, <2>5, <2>6 DEF Parsed, AfterFirst
<1>5. CASE Len(ops) >= 2
  <2>1. IsOperand(ops[2]) /\ Meant(ctx, ops[2], k, 2) # {}
    BY <1>5 DEF IsLine, IsForm
  <2>2. Arg(k, 2) # "N"
    BY <2>1, NotNone
  <2>3. ParseSecond(ctx, p, ops) = ParseThird(Parse2(ctx, p, ops[2]), ops)
    BY <1>2, <1>5, <2>2 DEF ParseSecond
  <2>4. AfterSecond(ctx, ops[1], ops[2], k, Parse2(ctx, p, ops[2]))
    BY <1>1, <1>3, <2>1, FormSecond
  <2> QED
    BY <1>5, <2>3, <2>4, FormParsesThird
<1> QED
  BY <1>4, <1>5 DEF IsLine

LEMMA FormParses ==
  ASSUME NEW ctx, IsContext(ctx), NEW name \in DOMAIN FirstRow, NEW ops, IsLine(ops),
         NEW k, IsForm(ctx, name, ops, k), NEW g
  PROVE  Parsed(ctx, ops, k, ParseLine(ctx, g, name, ops))
<1> DEFINE p == Start(name, g)
<1>1. k \in Rows /\ Started(k, p)
  BY StartIs DEF IsForm
<1> HIDE DEF p
<1>2. p.row \in Rows /\ SameName(p.row, k)
  BY <1>1 DEF Started, IsParse
<1>3. Arg(p.row, 1) = "N" <=> Arg(k, 1) = "N"
  BY <1>1, <1>2, AsManyOperands
<1>4. ParseLine(ctx, g, name, ops) = ParseOperands(ctx, p, ops)
  BY DEF ParseLine, p
<1>5. CASE Len(ops) = 0
  <2>1. Arg(k, 1) = "N" /\ Arg(k, 2) = "N" /\ Arg(k, 3) = "N"
    BY <1>5 DEF IsForm
  <2>2. ParseOperands(ctx, p, ops) = p
    BY <1>3, <1>5, <2>1 DEF ParseOperands
  <2>3. Arg(p.row, 1) = "N" /\ Arg(p.row, 2) = "N"
    BY <1>1, <1>2, <2>1, AsManyOperands
  <2>4. p.row = k
    BY <1>1, <1>2, <2>1, <2>3, RowsDiffer DEF Like
  <2>5. ~Gives(k, 1) /\ ~Gives(k, 2)
    BY <2>1 DEF Gives, PlainModes1
  <2>6. Parsed(ctx, ops, k, p)
    BY <1>1, <1>5, <2>1, <2>4, <2>5 DEF Parsed, Started
  <2> QED
    BY <1>4, <2>2, <2>6
<1>6. CASE Len(ops) >= 1
  <2>1. IsOperand(ops[1]) /\ Meant(ctx, ops[1], k, 1) # {}
    BY <1>6 DEF IsLine, IsForm
  <2>2. Arg(k, 1) # "N"
    BY <2>1, NotNone
  <2>3. ParseOperands(ctx, p, ops) = ParseSecond(ctx, Parse1(ctx, p, ops[1]), ops)
    BY <1>3, <1>6, <2>2 DEF ParseOperands
  <2>4. AfterFirst(ctx, ops[1], k, Parse1(ctx, p, ops[1]))
    BY <1>1, <2>1, FormFirst
  <2> QED
    BY <1>4, <1>6, <2>3, <2>4, FormParsesSecond
<1> QED
  BY <1>5, <1>6 DEF IsLine

(* The bytes that a row has after its code are those that its operands     *)
(* give, in this order.                                                    *)
LEMMA FieldLetters ==
  \A k \in Rows :
    LET m == Opcodes[k].mreloc
    IN /\ m \in {"D", "i", "r", "B", "a", "d", "J", "X", "Y", "Z"} =>
            \/ Arg(k, 1) \in {"B", "D"}
            \/ ~Gives(k, 1) /\ (Arg(k, 2) \in {"B", "D", "/"} \/ (Arg(k, 2) = "#" /\ Arg(k, 1) # "P"))
       /\ m \in {"a", "d"} => Arg(k, 1) = "D" /\ Arg(k, 2) \in {"D", "#"} /\ Arg(k, 3) = "N"
       /\ m \in {"7", "W"} => Arg(k, 1) = "J" \/ (~Gives(k, 1) /\ Arg(k, 2) = "J")
       /\ m \in {"J", "X", "Y", "Z"} =>
            \/ Arg(k, 1) \in {"B", "D"} /\ Arg(k, 2) = "J" /\ Arg(k, 3) = "N"
            \/ Arg(k, 3) = "J"
       /\ m = "1" => Arg(k, 1) = "1"
       /\ m = "6" => Arg(k, 1) = "6" \/ (Arg(k, 1) = "P" /\ Arg(k, 2) = "#")
<1>1. \A k \in Rows : Table[k][6] \in {"D", "i", "r", "B", "a", "d", "J", "X", "Y", "Z"} =>
        \/ Table[k][2] \in {"B", "D"}
        \/ /\ Table[k][2] \notin {"B", "D", "J", "1", "6"}
           /\ Table[k][3] \in {"B", "D", "/"} \/ (Table[k][3] = "#" /\ Table[k][2] # "P")
  <2> DEFINE Data(k) == Table[k][6] \in {"D", "i", "r", "B", "a", "d", "J", "X", "Y", "Z"}
  <2>1. \A k \in Rows : Data(k) => Table[k][2] \notin {"J", "1", "6", "P"}
    BY SMTT(60) DEF Table, Rows
  <2>2. \A k \in Rows : Data(k) => Table[k][2] \in {"B", "D"} \/ Table[k][3] \in {"B", "D", "/", "#"}
    BY SMTT(60) DEF Table, Rows
  <2> HIDE DEF Data
  <2>3. \A k \in Rows : Data(k) =>
          \/ Table[k][2] \in {"B", "D"}
          \/ /\ Table[k][2] \notin {"B", "D", "J", "1", "6"}
             /\ Table[k][3] \in {"B", "D", "/"} \/ (Table[k][3] = "#" /\ Table[k][2] # "P")
    BY <2>1, <2>2
  <2> QED
    BY <2>3 DEF Data
<1>2. \A k \in Rows : Table[k][6] \in {"a", "d"} =>
        Table[k][2] = "D" /\ Table[k][3] \in {"D", "#"} /\ Table[k][4] = "N"
  BY SMTT(60) DEF Table, Rows
<1>3. \A k \in Rows : Table[k][6] \in {"7", "W"} =>
        Table[k][2] = "J" \/ (Table[k][2] \notin {"B", "D", "J", "1", "6"} /\ Table[k][3] = "J")
  BY SMTT(60) DEF Table, Rows
<1>4. \A k \in Rows : Table[k][6] \in {"J", "X", "Y", "Z"} =>
        \/ Table[k][2] \in {"B", "D"} /\ Table[k][3] = "J" /\ Table[k][4] = "N"
        \/ Table[k][4] = "J"
  BY SMTT(60) DEF Table, Rows
<1>5. \A k \in Rows :
        /\ Table[k][6] = "1" => Table[k][2] = "1"
        /\ Table[k][6] = "6" => Table[k][2] = "6" \/ (Table[k][2] = "P" /\ Table[k][3] = "#")
  <2>1. \A k \in Rows : Table[k][6] = "1" => Table[k][2] = "1"
    BY SMTT(60) DEF Table, Rows
  <2>2. \A k \in Rows : Table[k][6] = "6" => Table[k][2] = "6" \/ Table[k][2] = "P"
    BY SMTT(60) DEF Table, Rows
  <2>3. \A k \in Rows : Table[k][6] = "6" => Table[k][2] = "6" \/ Table[k][3] = "#"
    BY SMTT(60) DEF Table, Rows
  <2> QED
    BY <2>1, <2>2, <2>3
<1>6. \A k \in Rows : Gives(k, 1) <=> Arg(k, 1) \in {"B", "D", "J", "1", "6"}
  BY FirstLetters DEF Gives, PlainModes1
<1>7. \A k \in Rows :
        /\ Opcodes[k].mreloc = Table[k][6]
        /\ Arg(k, 1) = Table[k][2] /\ Arg(k, 2) = Table[k][3] /\ Arg(k, 3) = Table[k][4]
  BY RowIs
<1> QED
  BY <1>1, <1>2, <1>3, <1>4, <1>5, <1>6, <1>7

LEMMA FormHolds ==
  ASSUME NEW ctx, IsContext(ctx), NEW name, NEW ops, IsLine(ops), NEW k, IsForm(ctx, name, ops, k),
         NEW n \in 1 .. 3, Arg(k, n) # "N"
  PROVE  /\ n <= Len(ops) /\ IsOperand(ops[n]) /\ Holds(ctx, ops[n], k, n)
         /\ Folded(ctx, ops[n]) \in Int
<1>1. n <= Len(ops)
  BY DEF IsForm
<1>2. IsOperand(ops[n]) /\ Meant(ctx, ops[n], k, n) # {}
  BY <1>1 DEF IsForm, IsLine
<1> QED
  BY <1>1, <1>2, FitIs, NumberIs

(* Whether a row can be built is a matter of each field that it has.       *)
LEMMA TakesIs ==
  ASSUME NEW p
  PROVE  /\ Takes(p, "byte1") <=> ByteFits(p.e1, p.hl1, p.b2b)
         /\ Takes(p, "byte2") <=> ByteFits(p.e2, p.hl2, p.b2b)
         /\ Takes(p, "rel1") <=> p.hl1 = "none" /\ Reaches(p.e1, Size(p.row))
         /\ Takes(p, "rel2") <=> Reaches(p.e2, Size(p.row))
         /\ Takes(p, "page1") <=> p.hl1 = "none" /\ InPage(p.e1)
         /\ Takes(p, "word1") <=> p.hl1 = "none" /\ Between(p.e1, -65536, 65535)
  BY DEF Takes

LEMMA FieldIs ==
  ASSUME NEW ctx, IsContext(ctx), NEW name, NEW ops, IsLine(ops), NEW k, IsForm(ctx, name, ops, k),
         NEW p, Parsed(ctx, ops, k, p)
  PROVE  /\ Arg(k, 1) \in {"B", "D"} => ByteFits(p.e1, p.hl1, p.b2b)
         /\ ~Gives(k, 1) /\ (Arg(k, 2) \in {"B", "D", "/"} \/ (Arg(k, 2) = "#" /\ Arg(k, 1) # "P")) =>
              ByteFits(p.e1, p.hl1, p.b2b)
         /\ Arg(k, 1) = "D" /\ Arg(k, 2) \in {"D", "#"} /\ Arg(k, 3) = "N" =>
              ByteFits(p.e2, p.hl2, p.b2b)
<1>1. ASSUME NEW n \in 1 .. 3, Arg(k, n) # "N"
      PROVE  Holds(ctx, ops[n], k, n) /\ ops[n].prefix \in Prefixed
  <2>1. Holds(ctx, ops[n], k, n) /\ IsOperand(ops[n])
    BY <1>1, FormHolds
  <2> QED
    BY <2>1 DEF IsOperand, Prefixed
<1>2. ASSUME Arg(k, 1) \in {"B", "D"}
      PROVE  ByteFits(p.e1, p.hl1, p.b2b)
  <2>1. Gives(k, 1)
    BY <1>2 DEF Gives, PlainModes1
  <2>2. Holds(ctx, ops[1], k, 1) /\ ops[1].prefix \in Prefixed
    BY <1>1, <1>2
  <2>3. ByteFits(Folded(ctx, ops[1]), ops[1].prefix, ops[1].bit)
    BY <1>2, <2>2 DEF Holds
  <2>4. p.e1 = Folded(ctx, ops[1]) /\ p.hl1 = ops[1].prefix /\ (ops[1].prefix = "B2B" => p.b2b = ops[1].bit)
    BY <2>1 DEF Parsed
  <2> QED
    BY <2>2, <2>3, <2>4, ByteSame
<1>3. ASSUME ~Gives(k, 1), Arg(k, 2) \in {"B", "D", "/"} \/ (Arg(k, 2) = "#" /\ Arg(k, 1) # "P")
      PROVE  ByteFits(p.e1, p.hl1, p.b2b)
  <2>1. Gives(k, 2)
    BY <1>3 DEF Gives, PlainModes1
  <2>2. Holds(ctx, ops[2], k, 2) /\ ops[2].prefix \in Prefixed
    BY <1>1, <1>3
  <2>3. ByteFits(Folded(ctx, ops[2]), ops[2].prefix, ops[2].bit)
    BY <1>3, <2>2 DEF Holds
  <2>4. p.e1 = Folded(ctx, ops[2]) /\ p.hl1 = ops[2].prefix /\ (ops[2].prefix = "B2B" => p.b2b = ops[2].bit)
    BY <1>3, <2>1 DEF Parsed
  <2> QED
    BY <2>2, <2>3, <2>4, ByteSame
<1>4. ASSUME Arg(k, 1) = "D", Arg(k, 2) \in {"D", "#"}, Arg(k, 3) = "N"
      PROVE  ByteFits(p.e2, p.hl2, p.b2b)
  <2>1. Gives(k, 1) /\ Gives(k, 2)
    BY <1>4 DEF Gives, PlainModes1
  <2>2. Holds(ctx, ops[2], k, 2) /\ ops[2].prefix \in Prefixed
    BY <1>1, <1>4
  <2>3. ByteFits(Folded(ctx, ops[2]), ops[2].prefix, ops[2].bit)
    BY <1>4, <2>2 DEF Holds
  <2>4. p.e2 = Folded(ctx, ops[2]) /\ p.hl2 = ops[2].prefix /\ ops[2].prefix # "B2B"
    BY <1>4, <2>1 DEF Parsed
  <2> QED
    BY <2>2, <2>3, <2>4, ByteSame
<1> QED
  BY <1>2, <1>3, <1>4

LEMMA TargetIs ==
  ASSUME NEW ctx, IsContext(ctx), NEW name, NEW ops, IsLine(ops), NEW k, IsForm(ctx, name, ops, k),
         NEW p, Parsed(ctx, ops, k, p)
  PROVE  /\ p.row = k /\ (Arg(k, 2) = "J" => p.hl2 = "none")
         /\ Arg(k, 1) = "J" \/ (~Gives(k, 1) /\ Arg(k, 2) = "J") =>
              p.hl1 = "none" /\ Reaches(p.e1, Size(k))
         /\ (Arg(k, 1) \in {"B", "D"} /\ Arg(k, 2) = "J" /\ Arg(k, 3) = "N") \/ Arg(k, 3) = "J" =>
              Reaches(p.e2, Size(k))
         /\ Arg(k, 1) = "1" => p.hl1 = "none" /\ InPage(p.e1)
         /\ Arg(k, 1) = "6" \/ (Arg(k, 1) = "P" /\ Arg(k, 2) = "#") =>
              p.hl1 = "none" /\ Between(p.e1, -65536, 65535)
<1>1. \A n \in 1 .. 3 : Arg(k, n) # "N" => Holds(ctx, ops[n], k, n)
  BY FormHolds
<1>2. p.row = k
  BY DEF Parsed
<1>3. ASSUME Arg(k, 2) = "J"
      PROVE  /\ p.hl2 = "none" /\ ops[2].prefix = "none" /\ Gives(k, 2)
             /\ Reaches(Folded(ctx, ops[2]), Size(k))
  <2>1. Holds(ctx, ops[2], k, 2)
    BY <1>1, <1>3
  <2>2. Gives(k, 2)
    BY <1>3 DEF Gives, PlainModes1
  <2> QED
    BY <1>3, <2>1, <2>2 DEF Holds, Parsed
<1>4. ASSUME Arg(k, 1) = "J" PROVE p.hl1 = "none" /\ Reaches(p.e1, Size(k))
  <2>1. Holds(ctx, ops[1], k, 1)
    BY <1>1, <1>4
  <2>2. Gives(k, 1)
    BY <1>4 DEF Gives, PlainModes1
  <2> QED
    BY <1>4, <2>1, <2>2 DEF Holds, Parsed
<1>5. ASSUME ~Gives(k, 1), Arg(k, 2) = "J" PROVE p.hl1 = "none" /\ Reaches(p.e1, Size(k))
  BY <1>3, <1>5 DEF Parsed
<1>6. ASSUME Arg(k, 1) \in {"B", "D"}, Arg(k, 2) = "J", Arg(k, 3) = "N" PROVE Reaches(p.e2, Size(k))
  <2>1. Gives(k, 1)
    BY <1>6 DEF Gives, PlainModes1
  <2> QED
    BY <1>3, <1>6, <2>1 DEF Parsed
<1>7. ASSUME Arg(k, 3) = "J" PROVE Reaches(p.e2, Size(k))
  <2>1. Holds(ctx, ops[3], k, 3)
    BY <1>1, <1>7
  <2> QED
    BY <1>7, <2>1 DEF Holds, Parsed
<1>8. ASSUME Arg(k, 1) = "1" PROVE p.hl1 = "none" /\ InPage(p.e1)
  <2>1. Holds(ctx, ops[1], k, 1)
    BY <1>1, <1>8
  <2>2. Gives(k, 1)
    BY <1>8 DEF Gives, PlainModes1
  <2> QED
    BY <1>8, <2>1, <2>2 DEF Holds, Parsed
<1>9. ASSUME Arg(k, 1) = "6" PROVE p.hl1 = "none" /\ Between(p.e1, -65536, 65535)
  <2>1. Holds(ctx, ops[1], k, 1)
    BY <1>1, <1>9
  <2>2. Gives(k, 1)
    BY <1>9 DEF Gives, PlainModes1
  <2> QED
    BY <1>9, <2>1, <2>2 DEF Holds, Parsed
<1>10. ASSUME Arg(k, 1) = "P", Arg(k, 2) = "#" PROVE p.hl1 = "none" /\ Between(p.e1, -65536, 65535)
  <2>1. Holds(ctx, ops[2], k, 2)
    BY <1>1, <1>10
  <2>2. ~Gives(k, 1) /\ Gives(k, 2)
    BY <1>10 DEF Gives, PlainModes1
  <2> QED
    BY <1>10, <2>1, <2>2 DEF Holds, Parsed
<1> QED
  BY <1>2, <1>3, <1>4, <1>5, <1>6, <1>7, <1>8, <1>9, <1>10

LEMMA LayoutFields ==
  ASSUME NEW m, NEW n \in DOMAIN Layout(m),
         m \in {"N", "D", "R", "I", "B", "7", "W", "1", "6", "i", "r", "a", "d", "J", "X", "Y", "Z"}
  PROVE  \/ Layout(m)[n] = "byte1" /\ m \in {"D", "i", "r", "B", "a", "d", "J", "X", "Y", "Z"}
         \/ Layout(m)[n] = "byte2" /\ m \in {"a", "d"}
         \/ Layout(m)[n] = "rel1" /\ m \in {"7", "W"}
         \/ Layout(m)[n] = "rel2" /\ m \in {"J", "X", "Y", "Z"}
         \/ Layout(m)[n] = "page1" /\ m = "1"
         \/ Layout(m)[n] = "word1" /\ m = "6"
<1>1. /\ \A a : \A i \in DOMAIN <<a>> : <<a>>[i] = a
      /\ \A a, b : \A i \in DOMAIN <<a, b>> : <<a, b>>[i] \in {a, b}
  OBVIOUS
<1>2. CASE m \in {"N", "R", "I"}
  <2>1. Layout(m) = <<>>
    BY <1>2 DEF Layout
  <2> QED
    BY <2>1
<1>3. CASE m \in {"D", "i", "r", "B"}
  <2>1. Layout(m) = <<"byte1">>
    BY <1>3 DEF Layout
  <2> QED
    BY <1>1, <1>3, <2>1
<1>4. CASE m \in {"7", "W"}
  <2>1. Layout(m) = <<"rel1">>
    BY <1>4 DEF Layout
  <2> QED
    BY <1>1, <1>4, <2>1
<1>5. CASE m = "1"
  <2>1. Layout(m) = <<"page1">>
    BY <1>5 DEF Layout
  <2> QED
    BY <1>1, <1>5, <2>1
<1>6. CASE m = "6"
  <2>1. Layout(m) = <<"word1">>
    BY <1>6 DEF Layout
  <2> QED
    BY <1>1, <1>6, <2>1
<1>7. CASE m \in {"a", "d"}
  <2>1. Layout(m) = <<"byte1", "byte2">> \/ Layout(m) = <<"byte2", "byte1">>
    BY <1>7 DEF Layout
  <2>2. Layout(m)[n] \in {"byte1", "byte2"}
    BY <1>1, <2>1
  <2> QED
    BY <1>7, <2>2
<1>8. CASE m \in {"J", "X", "Y", "Z"}
  <2>1. Layout(m) = <<"byte1", "rel2">>
    BY <1>8 DEF Layout
  <2>2. Layout(m)[n] \in {"byte1", "rel2"}
    BY <1>1, <2>1
  <2> QED
    BY <1>8, <2>2
<1> QED
  BY <1>2, <1>3, <1>4, <1>5, <1>6, <1>7, <1>8

LEMMA FormBuilds ==
  ASSUME NEW ctx, IsContext(ctx), NEW name, NEW ops, IsLine(ops), NEW k, IsForm(ctx, name, ops, k),
         NEW p, Parsed(ctx, ops, k, p)
  PROVE  Builds(p)
<1> DEFINE m == Opcodes[k].mreloc
           fields == Layout(m)
<1>1. k \in Rows /\ p.row = k
  BY DEF IsForm, Parsed
<1>2. Arg(k, 2) = "J" => p.hl2 = "none"
  BY TargetIs
<1>3. ASSUME NEW n \in DOMAIN fields PROVE Takes(p, fields[n])
  <2>1. m \in {"N", "D", "R", "I", "B", "7", "W", "1", "6", "i", "r", "a", "d", "J", "X", "Y", "Z"}
    BY <1>1, RowsOfFewOperands
  <2>2. CASE fields[n] = "byte1" /\ m \in {"D", "i", "r", "B", "a", "d", "J", "X", "Y", "Z"}
    <3>1. ByteFits(p.e1, p.hl1, p.b2b)
      BY <1>1, <2>2, FieldIs, FieldLetters
    <3> QED
      BY <2>2, <3>1, TakesIs
  <2>3. CASE fields[n] = "byte2" /\ m \in {"a", "d"}
    <3>1. ByteFits(p.e2, p.hl2, p.b2b)
      BY <1>1, <2>3, FieldIs, FieldLetters
    <3> QED
      BY <2>3, <3>1, TakesIs
  <2>4. CASE fields[n] = "rel1" /\ m \in {"7", "W"}
    <3>1. p.hl1 = "none" /\ Reaches(p.e1, Size(p.row))
      BY <1>1, <2>4, TargetIs, FieldLetters
    <3> QED
      BY <2>4, <3>1, TakesIs
  <2>5. CASE fields[n] = "rel2" /\ m \in {"J", "X", "Y", "Z"}
    <3>1. Reaches(p.e2, Size(p.row))
      BY <1>1, <2>5, TargetIs, FieldLetters
    <3> QED
      BY <2>5, <3>1, TakesIs
  <2>6. CASE fields[n] = "page1" /\ m = "1"
    <3>1. p.hl1 = "none" /\ InPage(p.e1)
      BY <1>1, <2>6, TargetIs, FieldLetters
    <3> QED
      BY <2>6, <3>1, TakesIs
  <2>7. CASE fields[n] = "word1" /\ m = "6"
    <3>1. p.hl1 = "none" /\ Between(p.e1, -65536, 65535)
      BY <1>1, <2>7, TargetIs, FieldLetters
    <3> QED
      BY <2>7, <3>1, TakesIs
  <2> QED
    BY <2>1, <2>2, <2>3, <2>4, <2>5, <2>6, <2>7, LayoutFields
<1> QED
  BY <1>1, <1>2, <1>3 DEF Builds

(* The bytes of a row with no field, with one and with two.                *)
LEMMA FlatIs ==
  ASSUME NEW s
  PROVE  /\ Len(s) = 0 => Lists!FlattenSeq(s) = s
         /\ Len(s) = 1 => Lists!FlattenSeq(s) = s[1]
         /\ Len(s) = 2 => Lists!FlattenSeq(s) = s[1] \o s[2]
<1> DEFINE Is(f) == f = [i \in 1 .. Len(s) |-> IF i = 1 THEN s[i] ELSE f[i - 1] \o s[i]]
<1>1. Len(s) = 0 => Lists!FlattenSeq(s) = s
  BY DEF Lists!FlattenSeq
<1>2. Len(s) # 0 => Lists!FlattenSeq(s) = (CHOOSE f : Is(f))[Len(s)]
  BY Zenon DEF Lists!FlattenSeq
<1>3. ASSUME Len(s) = 1 PROVE Lists!FlattenSeq(s) = s[1]
  <2> DEFINE g == [i \in 1 .. 1 |-> s[i]]
  <2>1. Is(g)
    BY <1>3
  <2>2. Is(CHOOSE f : Is(f))
    BY <2>1, Zenon
  <2> HIDE DEF g
  <2>3. (CHOOSE f : Is(f))[1] = s[1]
    BY <1>3, <2>2
  <2> QED
    BY <1>2, <1>3, <2>3
<1>4. ASSUME Len(s) = 2 PROVE Lists!FlattenSeq(s) = s[1] \o s[2]
  <2> DEFINE g == [i \in 1 .. 2 |-> IF i = 1 THEN s[1] ELSE s[1] \o s[2]]
  <2>1. Is(g)
    <3>1. \A i \in 1 .. 2 : g[i] = IF i = 1 THEN s[i] ELSE g[i - 1] \o s[i]
      BY <1>4
    <3> QED
      BY <1>4, <3>1
  <2>2. Is(CHOOSE f : Is(f))
    BY <2>1, Zenon
  <2> DEFINE h == CHOOSE f : Is(f)
  <2>3. h = [i \in 1 .. 2 |-> IF i = 1 THEN s[i] ELSE h[i - 1] \o s[i]]
    BY <1>4, <2>2
  <2>4. Lists!FlattenSeq(s) = h[2]
    <3>1. Lists!FlattenSeq(s) = h[Len(s)]
      <4>1. Len(s) # 0
        BY <1>4
      <4> QED
        BY <1>2, <4>1, Zenon
    <3> QED
      BY <1>4, <3>1
  <2> HIDE DEF g, h, Is
  <2>5. h[1] = s[1] /\ h[2] = s[1] \o s[2]
    <3>1. h[1] = s[1]
      BY <2>3
    <3>2. h[2] = h[1] \o s[2]
      <4>1. 2 - 1 = 1 /\ 2 \in 1 .. 2 /\ 2 # 1
        OBVIOUS
      <4>2. h[2] = IF 2 = 1 THEN s[2] ELSE h[2 - 1] \o s[2]
        BY <2>3, <4>1, Zenon
      <4> QED
        BY <4>1, <4>2, Zenon
    <3> QED
      BY <3>1, <3>2
  <2> QED
    BY <2>4, <2>5
<1> QED
  BY <1>1, <1>3, <1>4

LEMMA JoinTwo ==
  ASSUME NEW a, NEW b
  PROVE  <<a>> \o <<b>> = <<a, b>>
<1> DEFINE S == {a, b}
           s == <<a>>
           t == <<b>>
           u == <<a, b>>
<1>1. /\ s \in Seq(S) /\ t \in Seq(S) /\ u \in Seq(S)
      /\ Len(s) = 1 /\ Len(t) = 1 /\ Len(u) = 2
      /\ s[1] = a /\ t[1] = b
      /\ u[1] = a /\ u[2] = b
  OBVIOUS
<1> HIDE DEF s, t, u, S
<1> DEFINE x == s \o t
<1>2. /\ x \in Seq(S) /\ Len(x) = Len(s) + Len(t)
      /\ \A i \in 1 .. Len(s) + Len(t) : x[i] = IF i <= Len(s) THEN s[i] ELSE t[i - Len(s)]
  BY <1>1, ConcatProperties, Zenon
<1> HIDE DEF x
<1>3. Len(x) = 2 /\ \A i \in 1 .. 2 : x[i] = IF i <= 1 THEN s[i] ELSE t[i - 1]
  BY <1>1, <1>2
<1>4. x[1] = s[1] /\ x[2] = t[1]
  BY <1>3
<1>5. \A i \in 1 .. 2 : i = 1 \/ i = 2
  OBVIOUS
<1>6. \A i \in 1 .. 2 : x[i] = u[i]
  BY <1>1, <1>4, <1>5
<1>7. \A i \in 1 .. Len(x) : x[i] = u[i]
  BY <1>3, <1>6
<1>8. x = u
  BY <1>1, <1>2, <1>3, <1>7, SeqEqual
<1> QED
  BY <1>8 DEF s, t, u, x

LEMMA JoinThree ==
  ASSUME NEW a, NEW b, NEW c
  PROVE  <<a>> \o <<b, c>> = <<a, b, c>>
<1> DEFINE S == {a, b, c}
           s == <<a>>
           t == <<b, c>>
           u == <<a, b, c>>
<1>1. /\ s \in Seq(S) /\ t \in Seq(S) /\ u \in Seq(S)
      /\ Len(s) = 1 /\ Len(t) = 2 /\ Len(u) = 3
      /\ s[1] = a /\ t[1] = b /\ t[2] = c
      /\ u[1] = a /\ u[2] = b /\ u[3] = c
  OBVIOUS
<1> HIDE DEF s, t, u, S
<1> DEFINE x == s \o t
<1>2. /\ x \in Seq(S) /\ Len(x) = Len(s) + Len(t)
      /\ \A i \in 1 .. Len(s) + Len(t) : x[i] = IF i <= Len(s) THEN s[i] ELSE t[i - Len(s)]
  BY <1>1, ConcatProperties, Zenon
<1> HIDE DEF x
<1>3. Len(x) = 3 /\ \A i \in 1 .. 3 : x[i] = IF i <= 1 THEN s[i] ELSE t[i - 1]
  BY <1>1, <1>2
<1>4. x[1] = s[1] /\ x[2] = t[1] /\ x[3] = t[2]
  BY <1>3
<1>5. \A i \in 1 .. 3 : i = 1 \/ i = 2 \/ i = 3
  OBVIOUS
<1>6. \A i \in 1 .. 3 : x[i] = u[i]
  BY <1>1, <1>4, <1>5
<1>7. \A i \in 1 .. Len(x) : x[i] = u[i]
  BY <1>3, <1>6
<1>8. x = u
  BY <1>1, <1>2, <1>3, <1>7, SeqEqual
<1> QED
  BY <1>8 DEF s, t, u, x

LEMMA WrittenIs ==
  ASSUME NEW p
  PROVE  /\ Written(p, "byte1") = <<ByteOf(p.e1, p.hl1, p.b2b)>>
         /\ Written(p, "byte2") = <<ByteOf(p.e2, p.hl2, p.b2b)>>
         /\ Written(p, "rel1") = <<Displacement(p.e1, Size(p.row))>>
         /\ Written(p, "rel2") = <<Displacement(p.e2, Size(p.row))>>
         /\ Written(p, "page1") = <<p.e1 % 256>>
         /\ Written(p, "word1") = <<(p.e1 \div 256) % 256, p.e1 % 256>>
  BY DEF Written

PageOf(p) == 32 * ((p.e1 % 2048) \div 256)

LEMMA BuildShape ==
  ASSUME NEW p
  PROVE  LET fields == Layout(Opcodes[p.row].mreloc)
             page == IF fields = <<"page1">> THEN PageOf(p) ELSE 0
             written == [n \in DOMAIN fields |-> Written(p, fields[n])]
         IN Build(p) = <<OperationCode(p) + page>> \o Lists!FlattenSeq(written)
  BY Zenon DEF Build, PageOf

LEMMA BuildNone ==
  ASSUME NEW p, Layout(Opcodes[p.row].mreloc) = <<>>, OperationCode(p) \in Int
  PROVE  Build(p) = <<OperationCode(p)>>
<1> DEFINE fields == Layout(Opcodes[p.row].mreloc)
           page == IF fields = <<"page1">> THEN PageOf(p) ELSE 0
           written == [n \in DOMAIN fields |-> Written(p, fields[n])]
           c == OperationCode(p)
<1>1. Build(p) = <<c + page>> \o Lists!FlattenSeq(written)
  BY BuildShape, Zenon
<1>2. page = 0 /\ written = <<>> /\ Len(written) = 0 /\ c \in Int
  OBVIOUS
<1> HIDE DEF written, page, c, fields
<1>3. c + page = c
  BY <1>2
<1>4. Lists!FlattenSeq(written) = written
  BY <1>2, FlatIs
<1>5. <<c>> \o <<>> = <<c>>
  <2>1. /\ <<>> \in Seq({c}) /\ <<c>> \in Seq({c}) /\ Len(<<>>) = 0 /\ Len(<<c>>) = 1 /\ <<c>>[1] = c
    OBVIOUS
  <2> QED
    BY <2>1
<1> QED
  BY <1>1, <1>2, <1>3, <1>4, <1>5, Zenon DEF c

LEMMA BuildOne ==
  ASSUME NEW p, NEW f, Layout(Opcodes[p.row].mreloc) = <<f>>, OperationCode(p) \in Int
  PROVE  /\ f # "page1" => Build(p) = <<OperationCode(p)>> \o Written(p, f)
         /\ f = "page1" => Build(p) = <<OperationCode(p) + PageOf(p)>> \o Written(p, f)
<1> DEFINE fields == Layout(Opcodes[p.row].mreloc)
           page == IF fields = <<"page1">> THEN PageOf(p) ELSE 0
           written == [n \in DOMAIN fields |-> Written(p, fields[n])]
           c == OperationCode(p)
           added == IF f = "page1" THEN PageOf(p) ELSE 0
<1>1. Build(p) = <<c + page>> \o Lists!FlattenSeq(written)
  BY BuildShape, Zenon
<1>2. page = added
  <2>1. <<f>> = <<"page1">> <=> f = "page1"
    OBVIOUS
  <2> QED
    BY <2>1
<1>3. Len(written) = 1 /\ written[1] = Written(p, f)
  OBVIOUS
<1> HIDE DEF written, fields, page, c, added
<1>4. Lists!FlattenSeq(written) = Written(p, f)
  BY <1>3, FlatIs
<1>5. Build(p) = <<c + added>> \o Written(p, f)
  BY <1>1, <1>2, <1>4, Zenon
<1>6. /\ f # "page1" => c + added = c
      /\ f = "page1" => added = PageOf(p)
  BY DEF c, added
<1>7. f # "page1" => Build(p) = <<c>> \o Written(p, f)
  BY <1>5, <1>6, Zenon
<1>8. f = "page1" => Build(p) = <<c + PageOf(p)>> \o Written(p, f)
  BY <1>5, <1>6, Zenon
<1> QED
  BY <1>7, <1>8, Zenon DEF c

LEMMA BuildTwo ==
  ASSUME NEW p, NEW f, NEW g, Layout(Opcodes[p.row].mreloc) = <<f, g>>, OperationCode(p) \in Int
  PROVE  Build(p) = <<OperationCode(p)>> \o (Written(p, f) \o Written(p, g))
<1> DEFINE fields == Layout(Opcodes[p.row].mreloc)
           page == IF fields = <<"page1">> THEN PageOf(p) ELSE 0
           written == [n \in DOMAIN fields |-> Written(p, fields[n])]
           c == OperationCode(p)
<1>1. Build(p) = <<c + page>> \o Lists!FlattenSeq(written)
  BY BuildShape, Zenon
<1>2. page = 0 /\ c \in Int
  <2>1. <<f, g>> # <<"page1">>
    OBVIOUS
  <2> QED
    BY <2>1
<1>3. Len(written) = 2 /\ written[1] = Written(p, f) /\ written[2] = Written(p, g)
  OBVIOUS
<1> HIDE DEF written, fields, page, c
<1>4. c + page = c
  BY <1>2
<1>5. Lists!FlattenSeq(written) = Written(p, f) \o Written(p, g)
  BY <1>3, FlatIs
<1> QED
  BY <1>1, <1>4, <1>5, Zenon DEF c

(* The operation code, and the bytes after it, by the letter of the row.   *)
LEMMA CodeIs ==
  ASSUME NEW k \in Rows, NEW p, p.row = k, NEW m, m = Opcodes[k].mreloc, NEW bin, bin = Opcodes[k].bin
  PROVE  /\ m \in {"I", "i", "X"} => OperationCode(p) = bin + (p.reg % 2)
         /\ m \in {"R", "r", "Y", "W"} => OperationCode(p) = bin + (p.reg % 8)
         /\ m \notin {"I", "i", "X", "R", "r", "Y", "W"} => OperationCode(p) = bin
<1> DEFINE one == bin + (p.reg % 2)
           eight == bin + (p.reg % 8)
<1>1. OperationCode(p) = CASE m \in {"I", "i", "X"} -> one
                           [] m \in {"R", "r", "Y", "W"} -> eight
                           [] OTHER -> bin
  BY Zenon DEF OperationCode
<1> HIDE DEF one, eight
<1> QED
  BY <1>1 DEF one, eight

LEMMA BinIs ==
  \A k \in Rows : Opcodes[k].bin = Table[k][7] /\ Opcodes[k].mask = Table[k][8] /\ Opcodes[k].bin \in 0 .. 255
<1>1. \A k \in Rows : Table[k][7] \in Int
  BY SMTT(60) DEF Table, Rows
<1>2. \A k \in Rows : Table[k][7] >= 0 /\ Table[k][7] <= 255
  BY SMTT(60) DEF Table, Rows
<1>3. ASSUME NEW k \in Rows PROVE Opcodes[k].bin = Table[k][7] /\ Opcodes[k].mask = Table[k][8]
  <2> DEFINE t == Table[k]
  <2>1. Opcodes[k] = Row(t)
    BY TableIs
  <2> HIDE DEF t
  <2>2. Row(t).bin = t[7] /\ Row(t).mask = t[8]
    BY DEF Row
  <2> QED
    BY <2>1, <2>2 DEF t
<1> QED
  BY <1>1, <1>2, <1>3

LEMMA LayoutOf ==
  /\ \A m \in {"N", "I", "R"} : Layout(m) = <<>>
  /\ \A m \in {"D", "i", "r", "B"} : Layout(m) = <<"byte1">>
  /\ \A m \in {"7", "W"} : Layout(m) = <<"rel1">>
  /\ Layout("1") = <<"page1">> /\ Layout("6") = <<"word1">>
  /\ Layout("a") = <<"byte1", "byte2">> /\ Layout("d") = <<"byte2", "byte1">>
  /\ \A m \in {"J", "X", "Y", "Z"} : Layout(m) = <<"byte1", "rel2">>
<1>1. \A m \in {"N", "I", "R"} : Layout(m) = <<>>
  BY DEF Layout
<1>2. \A m \in {"D", "i", "r", "B"} : Layout(m) = <<"byte1">>
  BY DEF Layout
<1>3. \A m \in {"7", "W"} : Layout(m) = <<"rel1">>
  BY DEF Layout
<1>4. Layout("1") = <<"page1">> /\ Layout("6") = <<"word1">>
  BY DEF Layout
<1>5. Layout("a") = <<"byte1", "byte2">> /\ Layout("d") = <<"byte2", "byte1">>
  BY DEF Layout
<1>6. \A m \in {"J", "X", "Y", "Z"} : Layout(m) = <<"byte1", "rel2">>
  BY DEF Layout
<1> QED
  BY <1>1, <1>2, <1>3, <1>4, <1>5, <1>6

LEMMA BuildIs ==
  ASSUME NEW k \in Rows, NEW p, p.row = k, NEW m, m = Opcodes[k].mreloc,
         NEW c, c = OperationCode(p), c \in Int,
         NEW x, x = ByteOf(p.e1, p.hl1, p.b2b), NEW y, y = ByteOf(p.e2, p.hl2, p.b2b)
  PROVE  /\ m \in {"N", "I", "R"} => Build(p) = <<c>>
         /\ m \in {"D", "i", "r", "B"} => Build(p) = <<c, x>>
         /\ m \in {"7", "W"} => Build(p) = <<c, Displacement(p.e1, Size(k))>>
         /\ m = "1" => Build(p) = <<c + PageOf(p), p.e1 % 256>>
         /\ m = "6" => Build(p) = <<c, (p.e1 \div 256) % 256, p.e1 % 256>>
         /\ m = "a" => Build(p) = <<c, x, y>>
         /\ m = "d" => Build(p) = <<c, y, x>>
         /\ m \in {"J", "X", "Y", "Z"} => Build(p) = <<c, x, Displacement(p.e2, Size(k))>>
<1> DEFINE fields == Layout(m)
           d1 == Displacement(p.e1, Size(k))
           d2 == Displacement(p.e2, Size(k))
           page == c + PageOf(p)
           high == (p.e1 \div 256) % 256
           low == p.e1 % 256
<1>1. /\ Written(p, "byte1") = <<x>> /\ Written(p, "byte2") = <<y>>
      /\ Written(p, "rel1") = <<d1>> /\ Written(p, "rel2") = <<d2>>
      /\ Written(p, "page1") = <<low>> /\ Written(p, "word1") = <<high, low>>
  <2>1. Size(p.row) = Size(k)
    OBVIOUS
  <2>2. /\ Written(p, "byte1") = <<x>> /\ Written(p, "byte2") = <<y>>
        /\ Written(p, "page1") = <<low>> /\ Written(p, "word1") = <<high, low>>
    BY WrittenIs
  <2>3. Written(p, "rel1") = <<d1>> /\ Written(p, "rel2") = <<d2>>
    <3>1. /\ Written(p, "rel1") = <<Displacement(p.e1, Size(p.row))>>
          /\ Written(p, "rel2") = <<Displacement(p.e2, Size(p.row))>>
      BY WrittenIs, ZenonT(30)
    <3> QED
      BY <2>1, <3>1, ZenonT(30)
  <2> QED
    BY <2>2, <2>3
<1>2. Layout(Opcodes[p.row].mreloc) = fields
  OBVIOUS
<1>3. /\ m \in {"N", "I", "R"} => fields = <<>>
      /\ m \in {"D", "i", "r", "B"} => fields = <<"byte1">>
      /\ m \in {"7", "W"} => fields = <<"rel1">>
      /\ m = "1" => fields = <<"page1">>
      /\ m = "6" => fields = <<"word1">>
      /\ m = "a" => fields = <<"byte1", "byte2">>
      /\ m = "d" => fields = <<"byte2", "byte1">>
      /\ m \in {"J", "X", "Y", "Z"} => fields = <<"byte1", "rel2">>
  BY LayoutOf
<1> HIDE DEF fields, d1, d2, page, high, low
<1>4. /\ <<c>> \o <<x>> = <<c, x>> /\ <<c>> \o <<d1>> = <<c, d1>>
      /\ <<page>> \o <<low>> = <<page, low>> /\ <<c>> \o <<high, low>> = <<c, high, low>>
      /\ <<c>> \o (<<x>> \o <<y>>) = <<c, x, y>> /\ <<c>> \o (<<y>> \o <<x>>) = <<c, y, x>>
      /\ <<c>> \o (<<x>> \o <<d2>>) = <<c, x, d2>>
  <2>1. /\ <<c>> \o <<x>> = <<c, x>> /\ <<c>> \o <<d1>> = <<c, d1>> /\ <<page>> \o <<low>> = <<page, low>>
        /\ <<x>> \o <<y>> = <<x, y>> /\ <<y>> \o <<x>> = <<y, x>> /\ <<x>> \o <<d2>> = <<x, d2>>
    BY JoinTwo, Zenon
  <2>2. /\ <<c>> \o <<high, low>> = <<c, high, low>> /\ <<c>> \o <<x, y>> = <<c, x, y>>
        /\ <<c>> \o <<y, x>> = <<c, y, x>> /\ <<c>> \o <<x, d2>> = <<c, x, d2>>
    BY JoinThree, Zenon
  <2> QED
    BY <2>1, <2>2, Zenon
<1>5. m \in {"N", "I", "R"} => Build(p) = <<c>>
  BY <1>2, <1>3, BuildNone, Zenon
<1>6. m \in {"D", "i", "r", "B"} => Build(p) = <<c, x>>
  <2>1. "byte1" # "page1"
    OBVIOUS
  <2>2. fields = <<"byte1">> => Build(p) = <<c>> \o Written(p, "byte1")
    BY <1>2, <2>1, BuildOne
  <2> QED
    BY <1>1, <1>3, <1>4, <2>1, <2>2, Zenon
<1>7. m \in {"7", "W"} => Build(p) = <<c, d1>>
  <2>1. "rel1" # "page1"
    OBVIOUS
  <2>2. fields = <<"rel1">> => Build(p) = <<c>> \o Written(p, "rel1")
    BY <1>2, <2>1, BuildOne
  <2> QED
    BY <1>1, <1>3, <1>4, <2>1, <2>2, Zenon
<1>8. m = "1" => Build(p) = <<page, low>>
  <2>1. fields = <<"page1">> => Build(p) = <<page>> \o Written(p, "page1")
    BY <1>2, BuildOne DEF page
  <2> QED
    BY <1>1, <1>3, <1>4, <2>1, Zenon
<1>9. m = "6" => Build(p) = <<c, high, low>>
  <2>1. "word1" # "page1"
    OBVIOUS
  <2>2. fields = <<"word1">> => Build(p) = <<c>> \o Written(p, "word1")
    BY <1>2, <2>1, BuildOne
  <2> QED
    BY <1>1, <1>3, <1>4, <2>1, <2>2, Zenon
<1>10. m = "a" => Build(p) = <<c, x, y>>
  <2>1. fields = <<"byte1", "byte2">> => Build(p) = <<c>> \o (Written(p, "byte1") \o Written(p, "byte2"))
    BY <1>2, BuildTwo, Zenon
  <2> QED
    BY <1>1, <1>3, <1>4, <2>1, Zenon
<1>11. m = "d" => Build(p) = <<c, y, x>>
  <2>1. fields = <<"byte2", "byte1">> => Build(p) = <<c>> \o (Written(p, "byte2") \o Written(p, "byte1"))
    BY <1>2, BuildTwo, Zenon
  <2> QED
    BY <1>1, <1>3, <1>4, <2>1, Zenon
<1>12. m \in {"J", "X", "Y", "Z"} => Build(p) = <<c, x, d2>>
  <2>1. fields = <<"byte1", "rel2">> => Build(p) = <<c>> \o (Written(p, "byte1") \o Written(p, "rel2"))
    BY <1>2, BuildTwo, Zenon
  <2> QED
    BY <1>1, <1>3, <1>4, <2>1, Zenon
<1> QED
  BY <1>5, <1>6, <1>7, <1>8, <1>9, <1>10, <1>11, <1>12, Zenon DEF d1, d2, page, high, low

(* The register of a form.                                                 *)
LEMMA RegisterLetters ==
  \A k \in Rows :
    /\ Opcodes[k].mreloc \in {"I", "i", "X"} => Arg(k, 1) = "I" \/ Arg(k, 2) = "I"
    /\ Opcodes[k].mreloc \in {"R", "Y", "W"} => Arg(k, 1) = "R" \/ Arg(k, 2) = "R"
    /\ Opcodes[k].mreloc = "r" => Arg(k, 1) \in {"R", "I"} \/ Arg(k, 2) \in {"R", "I"}
<1>1. \A k \in Rows : Table[k][6] \in {"I", "i", "X"} => Table[k][2] = "I" \/ Table[k][3] = "I"
  BY SMTT(60) DEF Table, Rows
<1>2. \A k \in Rows : Table[k][6] \in {"R", "Y", "W"} => Table[k][2] = "R" \/ Table[k][3] = "R"
  BY SMTT(60) DEF Table, Rows
<1>3. \A k \in Rows : Table[k][6] = "r" => Table[k][2] \in {"R", "I"} \/ Table[k][3] \in {"R", "I"}
  BY SMTT(60) DEF Table, Rows
<1>4. \A k \in Rows :
        /\ Opcodes[k].mreloc = Table[k][6]
        /\ Arg(k, 1) = Table[k][2] /\ Arg(k, 2) = Table[k][3]
  BY RowIs
<1> QED
  BY <1>1, <1>2, <1>3, <1>4

LEMMA FormRegister ==
  ASSUME NEW ctx, IsContext(ctx), NEW name, NEW ops, IsLine(ops), NEW k, IsForm(ctx, name, ops, k),
         NEW p, Parsed(ctx, ops, k, p)
  PROVE  /\ \A n \in 1 .. 2 : Arg(k, n) = "R" => p.reg \in 0 .. 7 /\ p.reg = NameValue(ctx, ops[n].name)
         /\ \A n \in 1 .. 2 : Arg(k, n) = "I" => p.reg \in 0 .. 1 /\ p.reg = NameValue(ctx, ops[n].name)
         /\ OperationCode(p) \in Int
<1>1. ASSUME NEW n \in 1 .. 2, Arg(k, n) \in {"R", "I"}
      PROVE  /\ n <= Len(ops) /\ Len(ops) >= 1 /\ p.reg = NameValue(ctx, ops[n].name)
             /\ Arg(k, n) = "R" => p.reg \in 0 .. 7
             /\ Arg(k, n) = "I" => p.reg \in 0 .. 1
  <2>1. n <= Len(ops) /\ IsOperand(ops[n]) /\ Meant(ctx, ops[n], k, n) # {} /\ Len(ops) >= 1
    BY <1>1 DEF IsForm, IsLine
  <2>2. Arg(k, n) \notin PlainModes1 \union {"/", "#"}
    BY <1>1 DEF PlainModes1
  <2>3. IsNamed(ctx, ops[n]) /\ AsName(ctx, ops[n], Arg(k, n))
    BY <2>1, <2>2, FitIs DEF AsExpression
  <2>4. /\ Known(ops[n].name) /\ ops[n].name \notin ctx.hidden /\ ~NameFails(ctx, ops[n].name)
        /\ Mode(ops[n].name) = Arg(k, n)
    BY <2>1, <2>3, NumberIs DEF IsNamed, AsName
  <2>5. IF Arg(k, n) = "R" THEN NameValue(ctx, ops[n].name) \in 0 .. 7
        ELSE Arg(k, n) = "I" => NameValue(ctx, ops[n].name) \in 0 .. 1
    BY <2>4, ValueIs
  <2>6. p.reg = Register(ctx, k, ops[1], ops[2])
    BY <2>1 DEF Parsed
  <2>7. Arg(k, 1) \in {"R", "I"} => Arg(k, 2) \notin {"R", "I"}
    BY SecondLetters DEF IsForm
  <2>8. Register(ctx, k, ops[1], ops[2]) = NameValue(ctx, ops[n].name)
    BY <1>1, <2>7 DEF Register
  <2> QED
    BY <2>1, <2>5, <2>6, <2>8
<1>2. k \in Rows /\ p.row = k
  BY DEF IsForm, Parsed
<1>3. OperationCode(p) \in Int
  <2> DEFINE m == Opcodes[k].mreloc
  <2>1. m \in {"I", "i", "X", "R", "r", "Y", "W"} => p.reg \in Int
    BY <1>1, <1>2, RegisterLetters
  <2>2. Opcodes[k].bin \in Int
    BY <1>2, BinIs
  <2>3. \/ m \in {"I", "i", "X"} /\ OperationCode(p) = Opcodes[k].bin + (p.reg % 2)
        \/ m \in {"R", "r", "Y", "W"} /\ OperationCode(p) = Opcodes[k].bin + (p.reg % 8)
        \/ OperationCode(p) = Opcodes[k].bin
    BY <1>2, CodeIs
  <2> HIDE DEF m
  <2> QED
    BY <2>1, <2>2, <2>3
<1> QED
  BY <1>1, <1>3

(* A line with a form in the table is assembled from that row.             *)
LEMMA BuildsSomething ==
  ASSUME NEW k \in Rows, NEW p, p.row = k, OperationCode(p) \in Int
  PROVE  Build(p) # Refused
<1> DEFINE m == Opcodes[k].mreloc
<1>1. m \in {"N", "D", "R", "I", "B", "7", "W", "1", "6", "i", "r", "a", "d", "J", "X", "Y", "Z"}
  BY RowsOfFewOperands
<1> DEFINE c == OperationCode(p)
           x == ByteOf(p.e1, p.hl1, p.b2b)
           y == ByteOf(p.e2, p.hl2, p.b2b)
           d1 == Displacement(p.e1, Size(k))
           d2 == Displacement(p.e2, Size(k))
           page == c + PageOf(p)
           high == (p.e1 \div 256) % 256
           low == p.e1 % 256
<1>2. /\ m \in {"N", "I", "R"} => Build(p) = <<c>>
      /\ m \in {"D", "i", "r", "B"} => Build(p) = <<c, x>>
      /\ m \in {"7", "W"} => Build(p) = <<c, d1>>
      /\ m = "1" => Build(p) = <<page, low>>
      /\ m = "6" => Build(p) = <<c, high, low>>
      /\ m = "a" => Build(p) = <<c, x, y>>
      /\ m = "d" => Build(p) = <<c, y, x>>
      /\ m \in {"J", "X", "Y", "Z"} => Build(p) = <<c, x, d2>>
  <2>1. /\ m = Opcodes[k].mreloc /\ c = OperationCode(p) /\ c \in Int
        /\ x = ByteOf(p.e1, p.hl1, p.b2b) /\ y = ByteOf(p.e2, p.hl2, p.b2b)
    BY Zenon
  <2> HIDE DEF m, c, x, y
  <2> QED
    BY <2>1, BuildIs
<1> HIDE DEF m, c, x, y, d1, d2, page, high, low
<1> QED
  BY <1>1, <1>2 DEF Refused

LEMMA FormEmitted ==
  ASSUME NEW ctx, IsContext(ctx), NEW name \in DOMAIN FirstRow, NEW ops, IsLine(ops),
         NEW k, IsForm(ctx, name, ops, k), NEW g, NEW p, p = ParseLine(ctx, g, name, ops)
  PROVE  Parsed(ctx, ops, k, p) /\ Emit(p) = Build(p) /\ Build(p) # Refused
<1>1. Parsed(ctx, ops, k, p)
  BY FormParses
<1>2. Builds(p)
  BY <1>1, FormBuilds
<1>3. p.row = k /\ ~p.bad /\ p.m1 = Arg(k, 1) /\ p.m2 = Arg(k, 2)
  BY <1>1 DEF Parsed
<1>4. Emit(p) = Build(p)
  BY <1>2, <1>3 DEF Emit
<1>5. OperationCode(p) \in Int
  BY <1>1, FormRegister
<1>6. k \in Rows
  BY DEF IsForm
<1>7. Build(p) # Refused
  BY <1>3, <1>5, <1>6, BuildsSomething
<1> QED
  BY <1>1, <1>4, <1>7

LEMMA OperandListIs ==
  ASSUME NEW n \in DOMAIN Statements, NEW name \in Statements[n].names,
         NEW ops \in OperandLists(Statements[n], name)
  PROVE  IsLine(ops)
<1> DEFINE some == Statements[n].operands
           thirds == Statements[n].thirds[name]
<1>1. /\ \A o \in some : IsOperand(o)
      /\ \A o \in thirds : IsTarget(o) /\ IsOperand(o)
  BY OperandsAssumption DEF IsTarget
<1>2. \/ ops = <<>>
      \/ \E a \in some : ops = <<a>>
      \/ ops \in some \X some
      \/ \E a \in some, b \in some, c \in thirds : ops = <<a, b, c>>
  <2>1. OperandLists(Statements[n], name) =
          {<<>>} \union {<<a>> : a \in some} \union some \X some
            \union {<<a, b, c>> : a \in some, b \in some, c \in thirds}
    BY DEF OperandLists
  <2> HIDE DEF some, thirds
  <2> QED
    BY <2>1
<1> HIDE DEF some, thirds
<1>3. CASE ops = <<>>
  BY <1>3 DEF IsLine
<1>4. ASSUME NEW a \in some, ops = <<a>> PROVE IsLine(ops)
  BY <1>1, <1>4 DEF IsLine
<1>5. CASE ops \in some \X some
  <2>1. PICK a \in some, b \in some : ops = <<a, b>>
    BY <1>5
  <2> QED
    BY <1>1, <2>1 DEF IsLine
<1>6. ASSUME NEW a \in some, NEW b \in some, NEW c \in thirds, ops = <<a, b, c>> PROVE IsLine(ops)
  <2>1. Len(ops) = 3 /\ ops[1] = a /\ ops[2] = b /\ ops[3] = c
    BY <1>6
  <2>2. IsOperand(ops[1]) /\ IsOperand(ops[2]) /\ IsOperand(ops[3]) /\ IsTarget(ops[3])
    BY <1>1, <2>1
  <2>3. \A i \in 1 .. 3 : i = 1 \/ i = 2 \/ i = 3
    OBVIOUS
  <2> QED
    BY <2>1, <2>2, <2>3 DEF IsLine
<1> QED
  BY <1>2, <1>3, <1>4, <1>5, <1>6
-----------------------------------------------------------------------------
(* What is assembled, form or not: the row is one of the name's, and the   *)
(* register fits in the bits that the operation code has for it.           *)
LEMMA MoreFollow == \A k \in Rows : ~IsLast(k) => k + 1 \in Rows /\ SameName(k + 1, k)
<1>1. \A k \in Rows : Table[k][5] < 128 => k + 1 \in Rows /\ Table[k + 1][1] = Table[k][1]
  BY SMTT(60) DEF Table, Rows
<1>2. \A k \in Rows : Table[k][5] \in Int
  BY SMTT(60) DEF Table, Rows
<1>3. \A k \in Rows : IsLast(k) <=> Table[k][5] >= 128
  BY RowIs DEF IsLast
<1> QED
  BY <1>1, <1>2, <1>3, NameIs DEF SameName

LEMMA ScanKeepsName ==
  ASSUME NEW k \in Rows, NEW n, NEW modes, NEW s, s = Scan(k, n, modes)
  PROVE  s \in Rows /\ SameName(s, k)
<1> DEFINE Stops(j) == Arg(j, n) \in modes \/ IsLast(j)
           Ends == {j \in k .. 111 : Stops(j)}
           Others == {j \in k .. s : ~SameName(j, k)}
<1>1. s \in Rows
  BY ScanThere
<1>2. \E j \in k .. 111 : Stops(j) /\ \A h \in k .. j - 1 : ~Stops(h)
  <2>1. IsLast(111)
    <3>1. 111 \in Rows /\ 112 \notin Rows
      BY DEF Rows
    <3> QED
      BY <3>1, MoreFollow
  <2>2. Ends \in SUBSET Nat /\ 111 \in Ends
    BY <2>1 DEF Rows
  <2> HIDE DEF Stops
  <2>3. PICK m \in Ends : \A j \in Ends : m <= j
    BY <2>2, LeastOf
  <2> QED
    BY <2>3 DEF Rows
<1>3. s = CHOOSE j \in k .. 111 : Stops(j) /\ \A h \in k .. j - 1 : ~Stops(h)
  BY TableIs DEF Scan
<1> HIDE DEF Stops
<1>4. s \in k .. 111 /\ \A h \in k .. s - 1 : ~Stops(h)
  BY <1>2, <1>3
<1>5. SUFFICES ASSUME ~SameName(s, k) PROVE FALSE
  BY <1>1
<1>6. Others \in SUBSET Nat /\ s \in Others
  BY <1>4, <1>5 DEF Rows
<1>7. PICK m \in Others : \A j \in Others : m <= j
  BY <1>6, LeastOf
<1>8. m # k
  BY <1>7 DEF SameName
<1>9. m - 1 \in k .. s - 1 /\ m - 1 \in Rows /\ SameName(m - 1, k)
  BY <1>4, <1>7, <1>8 DEF Rows
<1>10. ~IsLast(m - 1)
  BY <1>4, <1>9 DEF Stops
<1>11. SameName(m - 1 + 1, m - 1) /\ m - 1 + 1 = m
  BY <1>7, <1>9, <1>10, MoreFollow DEF Rows
<1> QED
  BY <1>7, <1>9, <1>11 DEF SameName

Going(name, p) == IsParse(p) /\ Opcodes[p.row].name = name

Fit1(p) == ~p.bad => /\ p.reg \in 0 .. 7
                     /\ p.reg \in 0 .. 1 \/ p.m1 = "R"
                     /\ p.m1 = "1" => p.e1 \in Int

Fit2(p) == ~p.bad => p.reg \in 0 .. 7 /\ (p.reg \in 0 .. 1 \/ p.m1 = "R" \/ p.m2 = "R")

LEMMA NamedRegister ==
  ASSUME NEW ctx, IsContext(ctx), NEW o, IsOperand(o), IsNamed(ctx, o), ~NameFails(ctx, o.name),
         Mode(o.name) \in {"R", "I"}
  PROVE  /\ NameValue(ctx, o.name) \in 0 .. 7
         /\ Mode(o.name) = "I" => NameValue(ctx, o.name) \in 0 .. 1
<1>1. Known(o.name) /\ o.name \notin ctx.hidden
  BY NumberIs DEF IsNamed
<1>2. IF Mode(o.name) = "R" THEN NameValue(ctx, o.name) \in 0 .. 7
      ELSE NameValue(ctx, o.name) \in 0 .. 1
  BY <1>1, ValueIs
<1> QED
  BY <1>2

LEMMA FirstAny ==
  ASSUME NEW ctx, IsContext(ctx), NEW name, NEW p, Going(name, p), p.reg = 0, NEW o, IsOperand(o),
         NEW y, y = Parse1(ctx, p, o)
  PROVE  Going(name, y) /\ Fit1(y)
<1>1. ASSUME NEW n, NEW modes, NEW s, s = Scan(p.row, n, modes)
      PROVE  s \in Rows /\ Opcodes[s].name = name
  <2>1. p.row \in Rows
    BY DEF Going, IsParse
  <2> QED
    BY <1>1, <2>1, ScanKeepsName DEF Going, SameName
<1>2. CASE IsNamed(ctx, o)
  <2> DEFINE m == Mode(o.name)
             s == Scan(p.row, 1, {m})
             v == NameValue(ctx, o.name)
             wrong == Arg(s, 1) # m
             none == NameFails(ctx, o.name)
  <2>1. y = [p EXCEPT !.row = s, !.m1 = m, !.hl1 = "none", !.bad = @ \/ (wrong \/ none),
                      !.reg = IF m \in {"R", "I"} THEN v ELSE @,
                      !.e1 = IF m \in {"D", "B"} /\ ~(wrong \/ none) THEN v ELSE @]
    BY <1>2 DEF Parse1, ParseNamed1
  <2>2. ~none /\ m \in {"R", "I"} => v \in 0 .. 7 /\ (m = "I" => v \in 0 .. 1)
    BY <1>2, NamedRegister
  <2>3. m # "1"
    <3>1. Known(o.name)
      BY <1>2, NumberIs DEF IsNamed
    <3> QED
      BY <3>1, ValueIs
  <2>4. s \in Rows /\ Opcodes[s].name = name
    BY <1>1
  <2> HIDE DEF m, s, v, wrong, none
  <2>5. /\ IsParse(y) /\ y.row = s /\ y.m1 = m /\ (y.bad <=> p.bad \/ wrong \/ none)
        /\ y.reg = (IF m \in {"R", "I"} THEN v ELSE 0)
    BY <2>1, <2>4 DEF Going, IsParse
  <2> QED
    BY <2>2, <2>3, <2>4, <2>5 DEF Going, Fit1
<1>3. CASE ~IsNamed(ctx, o) /\ o.form \in {"name", "plain"}
  <2> DEFINE s == Scan(p.row, 1, PlainModes1)
             prefix == Recognised(o, TRUE)
             m == IF IsLast(s) \/ Arg(s, 1) \notin {"B", "D"} THEN Arg(s, 1) ELSE " "
             bit == IF prefix = "B2B" THEN o.bit ELSE p.b2b
             fails == ExprFails(ctx, o, TRUE)
             v == Folded(ctx, o)
  <2>1. y = [p EXCEPT !.row = s, !.m1 = m, !.hl1 = prefix, !.b2b = bit, !.bad = @ \/ fails, !.e1 = v]
    BY <1>3 DEF Parse1, ParsePlain1
  <2>2. v \in Int
    BY NumberIs
  <2>3. s \in Rows /\ Opcodes[s].name = name
    BY <1>1
  <2>4. prefix \in Prefixed
    BY PrefixIs
  <2> HIDE DEF m, s, v, prefix, bit, fails
  <2>5. IsParse(y) /\ y.row = s /\ y.reg = 0 /\ y.e1 = v
    BY <2>1, <2>3, <2>4 DEF Going, IsParse
  <2> QED
    BY <2>2, <2>3, <2>5 DEF Going, Fit1
<1>4. CASE ~IsNamed(ctx, o) /\ o.form \notin {"name", "plain"}
  <2> DEFINE s == Scan(p.row, 1, {"#"})
             h == IF o.form = "hash" THEN Recognised(o, FALSE) ELSE "none"
  <2>1. y = [p EXCEPT !.row = s, !.bad = TRUE, !.hl1 = h]
    BY <1>4 DEF Parse1
  <2>2. s \in Rows /\ Opcodes[s].name = name
    BY <1>1
  <2>3. h \in Prefixed
    BY PrefixIs DEF Prefixed
  <2> HIDE DEF s, h
  <2>4. IsParse(y) /\ y.row = s /\ y.bad
    BY <2>1, <2>2, <2>3 DEF Going, IsParse
  <2> QED
    BY <2>2, <2>4 DEF Going, Fit1
<1> QED
  BY <1>2, <1>3, <1>4

LEMMA SecondAny ==
  ASSUME NEW ctx, IsContext(ctx), NEW name, NEW p, Going(name, p), Fit1(p), NEW o, IsOperand(o),
         NEW y, y = Parse2(ctx, p, o)
  PROVE  Going(name, y) /\ Fit2(y)
<1>1. ASSUME NEW n, NEW modes, NEW s, s = Scan(p.row, n, modes)
      PROVE  s \in Rows /\ Opcodes[s].name = name
  <2>1. p.row \in Rows
    BY DEF Going, IsParse
  <2> QED
    BY <1>1, <2>1, ScanKeepsName DEF Going, SameName
<1>2. ASSUME NEW x, IsParse(x), NEW v
      PROVE  LET q == Give(x, v)
             IN /\ IsParse(q) /\ q.row = x.row /\ q.m1 = x.m1 /\ q.m2 = x.m2 /\ q.reg = x.reg
                /\ q.bad <=> x.bad
  BY <1>2, GiveIs
<1>3. CASE IsNamed(ctx, o)
  <2> DEFINE m == Mode(o.name)
             s == Scan(p.row, 2, {m})
             v == NameValue(ctx, o.name)
             first == \/ Arg(s, 1) = p.m1
                      \/ p.m1 = " " /\ Arg(s, 1) \in {"B", "D"}
             wrong == Arg(s, 2) # m
             fails == NameFails(ctx, o.name)
             x == [p EXCEPT !.row = s, !.m2 = m, !.hl2 = "none",
                            !.m1 = IF @ = " " THEN Arg(s, 1) ELSE @,
                            !.bad = @ \/ wrong \/ ~first \/ fails,
                            !.reg = IF m \in {"R", "I"} THEN v ELSE @]
             given == Give(x, v)
  <2>1. y = IF m \in {"D", "B", "/"} THEN given ELSE x
    <3>1. Parse2(ctx, p, o) = ParseNamed2(ctx, p, o)
      BY <1>3 DEF Parse2
    <3>2. ParseNamed2(ctx, p, o) = IF m \in {"D", "B", "/"} THEN given ELSE x
      BY Zenon DEF ParseNamed2
    <3> HIDE DEF m, given, x
    <3> QED
      BY <3>1, <3>2
  <2>2. ~fails /\ m \in {"R", "I"} => v \in 0 .. 7 /\ (m = "I" => v \in 0 .. 1)
    BY <1>3, NamedRegister
  <2>3. s \in Rows /\ Opcodes[s].name = name
    BY <1>1
  <2> HIDE DEF m, s, v, first, wrong, fails
  <2>4. /\ IsParse(x) /\ x.row = s /\ x.m2 = m /\ (x.bad <=> p.bad \/ wrong \/ ~first \/ fails)
        /\ x.m1 = (IF p.m1 = " " THEN Arg(s, 1) ELSE p.m1)
        /\ x.reg = (IF m \in {"R", "I"} THEN v ELSE p.reg)
    BY <2>3 DEF Going, IsParse
  <2> HIDE DEF x
  <2>5. /\ IsParse(given) /\ given.row = x.row /\ given.m1 = x.m1 /\ given.m2 = x.m2 /\ given.reg = x.reg
        /\ given.bad <=> x.bad
    BY <1>2, <2>4
  <2> HIDE DEF given
  <2>6. /\ IsParse(y) /\ y.row = s /\ y.m1 = x.m1 /\ y.m2 = m /\ y.reg = x.reg
        /\ y.bad <=> x.bad
    BY <2>1, <2>4, <2>5
  <2>7. ~y.bad => y.reg \in 0 .. 7 /\ (y.reg \in 0 .. 1 \/ p.m1 = "R" \/ y.m2 = "R")
    BY <2>2, <2>4, <2>6 DEF Fit1
  <2>8. p.m1 = "R" => y.m1 = "R"
    BY <2>4, <2>6
  <2> QED
    BY <2>3, <2>6, <2>7, <2>8 DEF Going, Fit2
<1>4. CASE ~IsNamed(ctx, o) /\ o.form = "junk"
  <2> DEFINE x == [p EXCEPT !.bad = TRUE, !.hl2 = "none"]
  <2>1. y = x
    BY <1>4 DEF Parse2
  <2>2. IsParse(y) /\ y.row = p.row /\ y.bad
    BY <2>1 DEF Going, IsParse
  <2> QED
    BY <2>2 DEF Going, Fit2
<1>5. CASE ~IsNamed(ctx, o) /\ o.form # "junk"
  <2> DEFINE free == p.e1 = Unset
             modes == CASE o.form = "hash" -> {"#"} [] o.form = "slash" -> {"/"}
                        [] OTHER -> PlainModes2
             marked == CASE o.form = "hash" -> "D" [] o.form = "slash" -> "B" [] OTHER -> " "
             s == Scan(p.row, 2, modes)
             none == o.form \in {"hash", "slash"} /\ Arg(s, 2) \notin modes
             prefix == Recognised(o, free)
             fails == ExprFails(ctx, o, free)
             v == Folded(ctx, o)
             x == [p EXCEPT !.row = s, !.hl2 = prefix, !.m2 = Arg(s, 2),
                            !.hl1 = IF free /\ ~none THEN prefix ELSE @,
                            !.b2b = IF prefix = "B2B" THEN o.bit ELSE @,
                            !.m1 = IF @ # " " THEN @
                                   ELSE IF marked = " " THEN Arg(s, 1) ELSE marked,
                            !.bad = @ \/ none \/ fails]
             given == Give(x, v)
  <2>1. y = given
    <3>1. Parse2(ctx, p, o) = ParseExpr2(ctx, p, o)
      BY <1>5 DEF Parse2
    <3>2. ParseExpr2(ctx, p, o) = given
      BY Zenon DEF ParseExpr2
    <3> HIDE DEF given
    <3> QED
      BY <3>1, <3>2
  <2>2. s \in Rows /\ Opcodes[s].name = name
    <3> HIDE DEF modes
    <3> QED
      BY <1>1
  <2> HIDE DEF free, modes, marked, s, none, prefix, fails, v
  <2>3. /\ IsParse(x) /\ x.row = s /\ x.m2 = Arg(s, 2) /\ (x.bad <=> p.bad \/ none \/ fails)
        /\ x.m1 = (IF p.m1 # " " THEN p.m1 ELSE IF marked = " " THEN Arg(s, 1) ELSE marked)
        /\ x.reg = p.reg
    BY <2>2 DEF Going, IsParse
  <2> HIDE DEF x
  <2>4. /\ IsParse(given) /\ given.row = x.row /\ given.m1 = x.m1 /\ given.m2 = x.m2 /\ given.reg = x.reg
        /\ given.bad <=> x.bad
    BY <1>2, <2>3
  <2> HIDE DEF given
  <2>5. p.m1 = "R" => y.m1 = "R"
    BY <2>1, <2>3, <2>4
  <2>6. ~y.bad => y.reg \in 0 .. 7 /\ (y.reg \in 0 .. 1 \/ p.m1 = "R")
    BY <2>1, <2>3, <2>4 DEF Fit1
  <2> QED
    BY <2>1, <2>2, <2>3, <2>4, <2>5, <2>6 DEF Going, Fit2
<1> QED
  BY <1>3, <1>4, <1>5

LEMMA PageAlone == \A k \in Rows : Arg(k, 1) = "1" => Arg(k, 2) = "N" /\ Arg(k, 1) # "N"
<1>1. \A k \in Rows : Table[k][2] = "1" => Table[k][3] = "N"
  BY SMTT(60) DEF Table, Rows
<1> QED
  BY <1>1, RowIs

(* The row of a line that is assembled.                                    *)
Taken(name, p) ==
  /\ p.row \in Rows /\ Opcodes[p.row].name = name
  /\ p.reg \in 0 .. 7 /\ (p.reg \in 0 .. 1 \/ Arg(p.row, 1) = "R" \/ Arg(p.row, 2) = "R")
  /\ Arg(p.row, 1) = "1" => p.e1 \in Int

LEMMA RefusedIsBad ==
  ASSUME NEW p, IsParse(p)
  PROVE  Refuse(p).bad
  BY DEF Refuse, IsParse

LEMMA LineTaken ==
  ASSUME NEW ctx, IsContext(ctx), NEW name \in DOMAIN FirstRow, NEW ops, IsLine(ops), NEW g,
         NEW p, p = ParseLine(ctx, g, name, ops),
         ~p.bad, p.m1 = Arg(p.row, 1), p.m2 = Arg(p.row, 2)
  PROVE  Taken(name, p)
<1> DEFINE start == Start(name, g)
           first == Parse1(ctx, start, ops[1])
           second == Parse2(ctx, first, ops[2])
<1>1. Going(name, start) /\ start.reg = 0 /\ start.m1 = "N" /\ start.e1 = Unset
  <2>1. FirstRow[name] \in Rows /\ Opcodes[FirstRow[name]].name = name
    <3>1. PICK k \in Rows : Opcodes[k].name = name
      BY TableIs DEF FirstRow
    <3> QED
      BY <3>1, FirstIs DEF SameName
  <2> QED
    BY <2>1 DEF Start, Going, IsParse
<1>2. p = ParseOperands(ctx, start, ops)
  BY DEF ParseLine
<1> HIDE DEF start
<1>3. CASE Len(ops) = 0
  <2>1. p = start
    BY <1>1, <1>2, <1>3, RefusedIsBad DEF ParseOperands, Going
  <2>2. p.row \in Rows /\ Arg(p.row, 1) = "N"
    BY <1>1, <1>2, <1>3, <2>1 DEF Going, IsParse
  <2> QED
    BY <1>1, <2>1, <2>2 DEF Taken, Going
<1>4. CASE Len(ops) # 0
  <2>1. IsOperand(ops[1]) /\ Len(ops) \in 1 .. 3
    BY <1>4 DEF IsLine
  <2>2. Going(name, first) /\ Fit1(first)
    BY <1>1, <2>1, FirstAny
  <2>3. p = ParseSecond(ctx, first, ops)
    BY <1>1, <1>2, <1>4, RefusedIsBad DEF ParseOperands, Going
  <2> HIDE DEF first
  <2>4. CASE Len(ops) = 1
    <3>1. p = first
      BY <2>2, <2>3, <2>4, RefusedIsBad DEF ParseSecond, Going
    <3> QED
      BY <2>2, <3>1 DEF Taken, Going, Fit1, IsParse
  <2>5. CASE Len(ops) # 1
    <3>1. IsOperand(ops[2])
      BY <2>1, <2>5 DEF IsLine
    <3>2. Going(name, second) /\ Fit2(second)
      BY <2>2, <3>1, SecondAny
    <3>3. p = ParseThird(second, ops) /\ Arg(first.row, 2) # "N"
      BY <2>2, <2>3, <2>5, RefusedIsBad DEF ParseSecond, Going
    <3> HIDE DEF second
    <3>4. /\ p.row = second.row /\ p.m1 = second.m1 /\ p.m2 = second.m2
          /\ p.reg = second.reg /\ (p.bad <=> second.bad)
      <4>1. \/ p = Refuse(second)
            \/ p = [second EXCEPT !.e2 = ops[3].num]
            \/ p = second
        BY <3>3 DEF ParseThird
      <4>2. p # Refuse(second)
        BY <3>2, RefusedIsBad DEF Going
      <4> QED
        BY <3>2, <4>1, <4>2 DEF Going, IsParse
    <3>5. first.row \in Rows /\ second.row \in Rows /\ SameName(first.row, second.row)
      BY <2>2, <3>2 DEF Going, IsParse, SameName
    <3>6. Arg(second.row, 1) # "1"
      BY <3>3, <3>5, AsManyOperands, PageAlone
    <3> QED
      BY <3>2, <3>4, <3>6 DEF Taken, Going, Fit2, IsParse
  <2> QED
    BY <2>4, <2>5
<1> QED
  BY <1>3, <1>4
-----------------------------------------------------------------------------
(* The operation codes: each row has those that its mask leaves open, and  *)
(* no byte is a code of two rows.                                          *)
Codes(k) == Opcodes[k].bin .. Opcodes[k].bin + 255 - Opcodes[k].mask

LEMMA MaskIs ==
  \A k \in Rows :
    /\ Opcodes[k].mask \in {255, 254, 248, 31}
    /\ Opcodes[k].mask = 254 => Opcodes[k].bin % 16 \in {2, 6}
    /\ Opcodes[k].mask = 248 => Opcodes[k].bin % 16 = 8
    /\ Opcodes[k].mask = 255 => Opcodes[k].bin % 32 \notin {1, 17}
    /\ Opcodes[k].mask = 31 => Opcodes[k].bin \in {1, 17}
<1>1. \A k \in Rows : Table[k][8] \in {255, 254, 248, 31}
  BY SMTT(60) DEF Table, Rows
<1>2. \A k \in Rows :
        Table[k][8] = 254 => Table[k][7] \in {6, 22, 38, 54, 70, 86, 102, 118, 134, 150, 166, 198, 214,
                                             226, 230, 242, 246, 182}
  BY SMTT(60) DEF Table, Rows
<1>3. \A k \in Rows :
        Table[k][8] = 248 => Table[k][7] \in {8, 24, 40, 56, 72, 88, 104, 120, 136, 152, 168, 184, 200,
                                             216, 232, 248}
  BY SMTT(60) DEF Table, Rows
<1>4. \A k \in Rows :
        Table[k][8] = 255 => Table[k][7] \notin {1, 17, 33, 49, 65, 81, 97, 113, 129, 145, 161, 177, 193,
                                                209, 225, 241}
  BY SMTT(60) DEF Table, Rows
<1>5. \A k \in Rows : Table[k][8] = 31 => Table[k][7] \in {1, 17}
  BY SMTT(60) DEF Table, Rows
<1>6. /\ \A b \in {6, 22, 38, 54, 70, 86, 102, 118, 134, 150, 166, 182, 198, 214, 226, 230, 242, 246} :
           b % 16 \in {2, 6}
      /\ \A b \in {8, 24, 40, 56, 72, 88, 104, 120, 136, 152, 168, 184, 200, 216, 232, 248} : b % 16 = 8
      /\ \A b \in 0 .. 255 : b % 32 \in {1, 17} =>
           b \in {1, 17, 33, 49, 65, 81, 97, 113, 129, 145, 161, 177, 193, 209, 225, 241}
  OBVIOUS
<1> QED
  BY <1>1, <1>2, <1>3, <1>4, <1>5, <1>6, BinIs

LEMMA CodesApart ==
  \A j, k \in Rows :
    j < k =>
      /\ Opcodes[j].mask # 31 /\ Opcodes[k].mask # 31 =>
           \/ Opcodes[j].bin + 255 - Opcodes[j].mask < Opcodes[k].bin
           \/ Opcodes[k].bin + 255 - Opcodes[k].mask < Opcodes[j].bin
      /\ Opcodes[j].mask = 31 /\ Opcodes[k].mask = 31 => Opcodes[j].bin # Opcodes[k].bin
<1>1. \A j, k \in Rows :
        j < k /\ Table[j][8] # 31 /\ Table[k][8] # 31 =>
           \/ Table[j][7] + 255 - Table[j][8] < Table[k][7]
           \/ Table[k][7] + 255 - Table[k][8] < Table[j][7]
  <2> DEFINE bin(k) == Table[k][7]
             mask(k) == Table[k][8]
             Apart(j, k) == bin(j) + 255 - mask(j) < bin(k) \/ bin(k) + 255 - mask(k) < bin(j)
  <2>1. \A j, k \in Rows : j < k /\ mask(j) = 255 /\ mask(k) = 255 => bin(j) # bin(k)
    BY SMTT(60) DEF Table, Rows
  <2>2. \A j, k \in Rows : mask(j) = 255 /\ mask(k) = 254 => bin(j) # bin(k) /\ bin(j) # bin(k) + 1
    BY SMTT(60) DEF Table, Rows
  <2>3. \A j, k \in Rows : mask(j) = 255 /\ mask(k) = 248 => bin(j) < bin(k) \/ bin(k) + 7 < bin(j)
    BY SMTT(60) DEF Table, Rows
  <2>4. \A j, k \in Rows :
          j < k /\ mask(j) \in {248, 254} /\ mask(k) \in {248, 254} => Apart(j, k)
    BY SMTT(60) DEF Table, Rows
  <2>5. \A k \in Rows : mask(k) \in {255, 254, 248, 31} /\ bin(k) \in Int
    BY BinIs, MaskIs
  <2> HIDE DEF bin, mask
  <2>6. \A j, k \in Rows : j < k /\ mask(j) # 31 /\ mask(k) # 31 => Apart(j, k)
    BY <2>1, <2>2, <2>3, <2>4, <2>5
  <2> QED
    BY <2>6 DEF bin, mask
<1>2. \A j, k \in Rows : j < k /\ Table[j][8] = 31 /\ Table[k][8] = 31 => Table[j][7] # Table[k][7]
  BY SMTT(60) DEF Table, Rows
<1>3. \A k \in Rows : Opcodes[k].bin = Table[k][7] /\ Opcodes[k].mask = Table[k][8]
  BY BinIs
<1> QED
  BY <1>1, <1>2, <1>3

LEMMA MaskedIs ==
  ASSUME NEW k \in Rows, NEW c \in 0 .. 255
  PROVE  Masked(c, Opcodes[k].mask) = Opcodes[k].bin <=>
           IF Opcodes[k].mask = 31 THEN c % 32 = Opcodes[k].bin ELSE c \in Codes(k)
<1> DEFINE bin == Opcodes[k].bin
           mask == Opcodes[k].mask
<1>1. bin \in 0 .. 255 /\ mask \in {255, 254, 248, 31}
  BY BinIs, MaskIs
<1>2. (mask = 254 => bin % 16 \in {2, 6}) /\ (mask = 248 => bin % 16 = 8)
  BY MaskIs
<1>3. /\ Masked(c, 255) = c /\ Masked(c, 254) = c - (c % 2)
      /\ Masked(c, 248) = c - (c % 8) /\ Masked(c, 31) = c % 32
  BY DEF Masked
<1> SUFFICES Masked(c, mask) = bin <=> IF mask = 31 THEN c % 32 = bin ELSE c \in bin .. bin + 255 - mask
  BY DEF Codes
<1> HIDE DEF bin, mask
<1>4. CASE mask = 255
  BY <1>1, <1>3, <1>4
<1>5. CASE mask = 254
  <2>1. c - (c % 2) = bin <=> bin <= c /\ c <= bin + 1
    BY <1>1, <1>2, <1>5
  <2> QED
    BY <1>1, <1>3, <1>5, <2>1
<1>6. CASE mask = 248
  <2>1. c - (c % 8) = bin <=> bin <= c /\ c <= bin + 7
    BY <1>1, <1>2, <1>6
  <2> QED
    BY <1>1, <1>3, <1>6, <2>1
<1>7. CASE mask = 31
  BY <1>3, <1>7
<1> QED
  BY <1>1, <1>4, <1>5, <1>6, <1>7

LEMMA DecodedIs ==
  ASSUME NEW k \in Rows, NEW c \in 0 .. 255, Masked(c, Opcodes[k].mask) = Opcodes[k].bin
  PROVE  Decoded(c) = k
<1> DEFINE Match(j) == Masked(c, Opcodes[j].mask) = Opcodes[j].bin
<1>1. ASSUME NEW j \in Rows, NEW i \in Rows, j < i, Match(j), Match(i)
      PROVE  FALSE
  <2> DEFINE b == Opcodes[j].bin
             d == Opcodes[i].bin
             m == Opcodes[j].mask
             n == Opcodes[i].mask
  <2>1. /\ b \in 0 .. 255 /\ d \in 0 .. 255
        /\ m \in {255, 254, 248, 31} /\ n \in {255, 254, 248, 31}
    BY BinIs, MaskIs
  <2>2. /\ m = 254 => b % 16 \in {2, 6}
        /\ m = 248 => b % 16 = 8
        /\ m = 255 => b % 32 \notin {1, 17}
        /\ m = 31 => b \in {1, 17}
    BY MaskIs
  <2>3. /\ n = 254 => d % 16 \in {2, 6}
        /\ n = 248 => d % 16 = 8
        /\ n = 255 => d % 32 \notin {1, 17}
        /\ n = 31 => d \in {1, 17}
    BY MaskIs
  <2>4. /\ IF m = 31 THEN c % 32 = b ELSE b <= c /\ c <= b + 255 - m
        /\ IF n = 31 THEN c % 32 = d ELSE d <= c /\ c <= d + 255 - n
    <3>1. IF m = 31 THEN c % 32 = b ELSE c \in b .. b + 255 - m
      BY <1>1, MaskedIs DEF Codes
    <3>2. IF n = 31 THEN c % 32 = d ELSE c \in d .. d + 255 - n
      BY <1>1, MaskedIs DEF Codes
    <3> HIDE DEF b, d, m, n
    <3> QED
      BY <2>1, <3>1, <3>2
  <2>5. /\ m # 31 /\ n # 31 => b + 255 - m < d \/ d + 255 - n < b
        /\ m = 31 /\ n = 31 => b # d
    BY <1>1, CodesApart
  <2> HIDE DEF b, d, m, n
  <2>6. m # 31 => c % 32 \notin {1, 17}
    BY <2>1, <2>2, <2>4, SMTT(30)
  <2>7. n # 31 => c % 32 \notin {1, 17}
    BY <2>1, <2>3, <2>4, SMTT(30)
  <2>8. CASE m # 31 /\ n # 31
    BY <2>1, <2>4, <2>5, <2>8
  <2>9. CASE m = 31
    BY <2>2, <2>3, <2>4, <2>5, <2>7, <2>9
  <2>10. CASE n = 31
    BY <2>2, <2>3, <2>4, <2>5, <2>6, <2>10
  <2> QED
    BY <2>8, <2>9, <2>10
<1>2. Match(k)
  OBVIOUS
<1>3. Decoded(c) = CHOOSE j \in Rows : Match(j) /\ \A i \in 1 .. j - 1 : ~Match(i)
  BY TableIs DEF Decoded
<1> HIDE DEF Match
<1>4. \A i \in 1 .. k - 1 : ~Match(i)
  <2> TAKE i \in 1 .. k - 1
  <2>1. i \in Rows /\ i < k
    BY DEF Rows
  <2> QED
    BY <1>1, <1>2, <2>1
<1>5. Decoded(c) \in Rows /\ Match(Decoded(c))
  BY <1>2, <1>3, <1>4
<1>6. ~(Decoded(c) < k) /\ ~(k < Decoded(c))
  BY <1>1, <1>2, <1>5
<1> QED
  BY <1>5, <1>6 DEF Rows

LEMMA MaskFits ==
  \A k \in Rows :
    LET m == Opcodes[k].mreloc
        mask == Opcodes[k].mask
    IN /\ m \in {"I", "i", "X"} => mask = 254
       /\ m \in {"R", "Y", "W"} => mask = 248
       /\ m = "r" => mask = 248 \/ (mask = 254 /\ Arg(k, 1) # "R" /\ Arg(k, 2) # "R")
       /\ m = "1" <=> mask = 31
       /\ m = "1" => Arg(k, 1) = "1"
       /\ Opcodes[k].bin + 255 - mask <= 255 \/ mask = 31
<1>1. \A k \in Rows : Table[k][6] \in {"I", "i", "X"} => Table[k][8] = 254
  BY SMTT(60) DEF Table, Rows
<1>2. \A k \in Rows : Table[k][6] \in {"R", "Y", "W"} => Table[k][8] = 248
  BY SMTT(60) DEF Table, Rows
<1>3. \A k \in Rows :
        Table[k][6] = "r" =>
          Table[k][8] = 248 \/ (Table[k][8] = 254 /\ Table[k][2] # "R" /\ Table[k][3] # "R")
  <2>1. \A k \in Rows : Table[k][6] = "r" => Table[k][8] \in {248, 254}
    BY SMTT(60) DEF Table, Rows
  <2>2. \A k \in Rows : Table[k][2] = "R" => Table[k][8] # 254
    BY SMTT(60) DEF Table, Rows
  <2>3. \A k \in Rows : Table[k][3] = "R" => Table[k][8] # 254
    BY SMTT(60) DEF Table, Rows
  <2> QED
    BY <2>1, <2>2, <2>3
<1>4. \A k \in Rows : Table[k][6] = "1" <=> Table[k][8] = 31
  BY SMTT(60) DEF Table, Rows
<1>5. \A k \in Rows : Table[k][7] + 255 - Table[k][8] <= 255 \/ Table[k][8] = 31
  BY SMTT(60) DEF Table, Rows
<1>6. \A k \in Rows :
        /\ Opcodes[k].mreloc = Table[k][6] /\ Opcodes[k].bin = Table[k][7] /\ Opcodes[k].mask = Table[k][8]
        /\ Arg(k, 1) = Table[k][2] /\ Arg(k, 2) = Table[k][3]
  BY RowIs, BinIs
<1>7. \A k \in Rows : Opcodes[k].mreloc = "1" => Arg(k, 1) = "1"
  BY FieldLetters
<1> QED
  BY <1>1, <1>2, <1>3, <1>4, <1>5, <1>6, <1>7

LEMMA CodeFits ==
  ASSUME NEW name, NEW p, Taken(name, p), NEW c, c = OperationCode(p),
         NEW k, k = p.row, NEW m, m = Opcodes[k].mreloc
  PROVE  /\ c \in Int /\ k \in Rows
         /\ m # "1" => c \in 0 .. 255 /\ Masked(c, Opcodes[k].mask) = Opcodes[k].bin
         /\ m = "1" => c + PageOf(p) \in 0 .. 255 /\ Masked(c + PageOf(p), Opcodes[k].mask) = Opcodes[k].bin
<1> DEFINE bin == Opcodes[k].bin
           mask == Opcodes[k].mask
           reg == p.reg
<1>1. /\ k \in Rows /\ reg \in 0 .. 7
      /\ reg \in 0 .. 1 \/ Arg(k, 1) = "R" \/ Arg(k, 2) = "R"
      /\ Arg(k, 1) = "1" => p.e1 \in Int
  BY DEF Taken
<1>2. /\ m \in {"I", "i", "X"} => c = bin + (reg % 2)
      /\ m \in {"R", "r", "Y", "W"} => c = bin + (reg % 8)
      /\ m \notin {"I", "i", "X", "R", "r", "Y", "W"} => c = bin
  BY <1>1, CodeIs
<1>3. bin \in 0 .. 255 /\ mask \in {255, 254, 248, 31}
  BY <1>1, BinIs, MaskIs
<1>4. /\ m \in {"I", "i", "X"} => mask = 254
      /\ m \in {"R", "Y", "W"} => mask = 248
      /\ m = "r" => mask = 248 \/ (mask = 254 /\ Arg(k, 1) # "R" /\ Arg(k, 2) # "R")
      /\ m = "1" <=> mask = 31
      /\ bin + 255 - mask <= 255 \/ mask = 31
      /\ mask = 31 => bin \in {1, 17}
      /\ m = "1" => p.e1 \in Int
  BY <1>1, MaskFits, MaskIs
<1>5. \A d \in 0 .. 255 :
        Masked(d, mask) = bin <=> IF mask = 31 THEN d % 32 = bin ELSE d \in bin .. bin + 255 - mask
  <2> TAKE d \in 0 .. 255
  <2>1. Masked(d, mask) = bin <=> IF mask = 31 THEN d % 32 = bin ELSE d \in Codes(k)
    BY <1>1, MaskedIs
  <2>2. Codes(k) = bin .. bin + 255 - mask
    BY DEF Codes
  <2> QED
    BY <2>1, <2>2, ZenonT(30)
<1> HIDE DEF bin, mask, reg
<1>6. c \in Int
  BY <1>1, <1>2, <1>3
<1>7. ASSUME m # "1" PROVE c \in bin .. bin + 255 - mask
  <2>1. CASE m \in {"I", "i", "X"}
    BY <1>1, <1>2, <1>3, <1>4, <2>1
  <2>2. CASE m \in {"R", "Y", "W"}
    BY <1>1, <1>2, <1>3, <1>4, <2>2
  <2>3. CASE m = "r"
    BY <1>1, <1>2, <1>3, <1>4, <2>3
  <2>4. CASE m \notin {"I", "i", "X", "R", "r", "Y", "W"}
    BY <1>2, <1>3, <2>4
  <2> QED
    BY <2>1, <2>2, <2>3, <2>4
<1>8. ASSUME m # "1" PROVE c \in 0 .. 255 /\ Masked(c, mask) = bin
  <2>1. c \in 0 .. 255 /\ mask # 31
    BY <1>3, <1>4, <1>7, <1>8
  <2> QED
    BY <1>5, <1>7, <1>8, <2>1
<1>9. ASSUME m = "1" PROVE c + PageOf(p) \in 0 .. 255 /\ Masked(c + PageOf(p), mask) = bin
  <2> DEFINE high == (p.e1 % 2048) \div 256
  <2>1. c = bin /\ bin \in {1, 17} /\ mask = 31 /\ p.e1 \in Int
    BY <1>2, <1>4, <1>9
  <2>2. high \in 0 .. 7
    BY <2>1
  <2>3. PageOf(p) = 32 * high
    BY DEF PageOf
  <2> HIDE DEF high
  <2>4. c + PageOf(p) \in 0 .. 255 /\ (c + PageOf(p)) % 32 = bin
    BY <2>1, <2>2, <2>3
  <2> QED
    BY <1>5, <2>1, <2>4
<1> QED
  BY <1>1, <1>6, <1>8, <1>9 DEF bin, mask

LEMMA SizeIs ==
  \A k \in Rows :
    /\ Opcodes[k].mreloc \in {"N", "I", "R"} => Size(k) = 1
    /\ Opcodes[k].mreloc \in {"D", "i", "r", "B", "7", "W", "1"} => Size(k) = 2
    /\ Opcodes[k].mreloc \in {"6", "a", "d", "J", "X", "Y", "Z"} => Size(k) = 3
<1>1. \A k \in Rows : Table[k][6] \in {"N", "I", "R"} => Table[k][5] \in {1, 129}
  BY SMTT(60) DEF Table, Rows
<1>2. \A k \in Rows : Table[k][6] \in {"D", "i", "r", "B", "7", "W", "1"} => Table[k][5] \in {2, 130}
  BY SMTT(60) DEF Table, Rows
<1>3. \A k \in Rows : Table[k][6] \in {"6", "a", "d", "J", "X", "Y", "Z"} => Table[k][5] \in {3, 131}
  BY SMTT(60) DEF Table, Rows
<1>4. \A k \in Rows : Opcodes[k].mreloc = Table[k][6] /\ Size(k) = Table[k][5] % 4
  BY RowIs DEF Size
<1> QED
  BY <1>1, <1>2, <1>3, <1>4

(* The bytes are read as the row they were built from.                     *)
LEMMA BuildDecodes ==
  ASSUME NEW name, NEW p, Taken(name, p)
  PROVE  Len(Build(p)) = Size(p.row) /\ Decoded(Build(p)[1]) = p.row
<1> DEFINE k == p.row
           m == Opcodes[k].mreloc
           c == OperationCode(p)
           x == ByteOf(p.e1, p.hl1, p.b2b)
           y == ByteOf(p.e2, p.hl2, p.b2b)
           d1 == Displacement(p.e1, Size(k))
           d2 == Displacement(p.e2, Size(k))
           page == c + PageOf(p)
           high == (p.e1 \div 256) % 256
           low == p.e1 % 256
           b == Build(p)
<1>1. /\ c \in Int /\ k \in Rows
      /\ m # "1" => c \in 0 .. 255 /\ Masked(c, Opcodes[k].mask) = Opcodes[k].bin
      /\ m = "1" => page \in 0 .. 255 /\ Masked(page, Opcodes[k].mask) = Opcodes[k].bin
  <2> HIDE DEF k, m, c
  <2>1. c = OperationCode(p) /\ k = p.row /\ m = Opcodes[k].mreloc
    BY DEF c, k, m
  <2> QED
    BY <2>1, CodeFits
<1>2. /\ m \in {"N", "I", "R"} => b = <<c>>
      /\ m \in {"D", "i", "r", "B"} => b = <<c, x>>
      /\ m \in {"7", "W"} => b = <<c, d1>>
      /\ m = "1" => b = <<page, low>>
      /\ m = "6" => b = <<c, high, low>>
      /\ m = "a" => b = <<c, x, y>>
      /\ m = "d" => b = <<c, y, x>>
      /\ m \in {"J", "X", "Y", "Z"} => b = <<c, x, d2>>
  <2>1. /\ m = Opcodes[k].mreloc /\ c = OperationCode(p) /\ k = p.row
        /\ x = ByteOf(p.e1, p.hl1, p.b2b) /\ y = ByteOf(p.e2, p.hl2, p.b2b)
    BY Zenon
  <2> HIDE DEF m, c, x, y, k
  <2> QED
    BY <1>1, <2>1, BuildIs
<1>3. /\ m \in {"N", "I", "R"} => Size(k) = 1
      /\ m \in {"D", "i", "r", "B", "7", "W", "1"} => Size(k) = 2
      /\ m \in {"6", "a", "d", "J", "X", "Y", "Z"} => Size(k) = 3
  BY <1>1, SizeIs
<1>4. m \in {"N", "D", "R", "I", "B", "7", "W", "1", "6", "i", "r", "a", "d", "J", "X", "Y", "Z"}
  BY <1>1, RowsOfFewOperands
<1>5. (m # "1" => Decoded(c) = k) /\ (m = "1" => Decoded(page) = k)
  <2> HIDE DEF m, c, page, k
  <2> QED
    BY <1>1, DecodedIs
<1> HIDE DEF m, c, x, y, d1, d2, page, high, low, k, b
<1>6. m = "1" => b[1] = page /\ Len(b) = 2
  BY <1>2
<1>7. m # "1" => b[1] = c
  BY <1>2, <1>4
<1>8. Len(b) = Size(k)
  BY <1>2, <1>3, <1>4
<1>9. Decoded(b[1]) = k
  BY <1>5, <1>6, <1>7
<1> QED
  BY <1>8, <1>9 DEF b, k
-----------------------------------------------------------------------------
(* What an operand means in a row that it fits, in terms of the number     *)
(* that the parser folds it to.                                            *)
LEMMA NoNumber ==
  ASSUME NEW ctx, NEW name, Known(name), name \notin ctx.hidden,
         Mode(name) \in {"A", "C", "r", "P", "@", "X", "T"}
  PROVE  NameValue(ctx, name) = 0
<1> DEFINE r == Ref(name)
<1>1. IsReference(r)
  BY ReferenceIs
<1>2. Mode(name) = (IF r[1] = "U" THEN "D" ELSE r[1])
  BY DEF Mode
<1>3. NameValue(ctx, name) = (IF r[1] = "U" THEN ctx.bank + r[2] ELSE r[2])
  BY DEF NameValue
<1> HIDE DEF r
<1>4. r[1] \in {"A", "C", "r", "P", "@", "X", "T"}
  BY <1>2
<1>5. r[2] = 0
  BY <1>1, <1>4 DEF IsReference
<1> QED
  BY <1>3, <1>4, <1>5

LEMMA ByteKept ==
  ASSUME NEW v \in 0 .. 255, NEW bit
  PROVE  ByteOf(v, "none", bit) = v
<1>1. ByteOf(v, "none", bit) = v % 256
  BY DEF ByteOf
<1> QED
  BY <1>1

LEMMA ByteSaid ==
  ASSUME NEW ctx, IsContext(ctx), NEW o, IsOperand(o), NEW kind, NEW s \in BitMeant(kind, ctx, o)
  PROVE  s = Shown(kind, ByteOf(Folded(ctx, o), o.prefix, o.bit), 0)
<1>1. CASE ~Dotted(o)
  BY <1>1, NumberIs DEF BitMeant, ByteMeant
<1>2. CASE Dotted(o)
  <2>1. o.prefix = "none" /\ ~FoldFails(ctx, o) /\ s = Shown(kind, BitOf(Number(ctx, o), o.bit), 0)
    BY <1>2 DEF BitMeant
  <2>2. Folded(ctx, o) = BitOf(Number(ctx, o), o.bit) /\ BitAddressable(Number(ctx, o))
    BY <1>2, <2>1 DEF Folded, FoldFails
  <2>3. Folded(ctx, o) \in 0 .. 255
    <3>1. Number(ctx, o) \in Int /\ o.bit \in 0 .. 7
      BY <1>2, NumberIs
    <3> QED
      BY <2>2, <3>1, DottedBit
  <2>4. ByteOf(Folded(ctx, o), "none", o.bit) = Folded(ctx, o)
    BY <2>3, ByteKept
  <2> QED
    BY <2>1, <2>2, <2>4
<1> QED
  BY <1>1, <1>2

LEMMA WordSaid ==
  ASSUME NEW ctx, IsContext(ctx), NEW o, IsOperand(o), NEW kind, NEW s \in WordMeant(kind, ctx, o)
  PROVE  s = Shown(kind, Folded(ctx, o) % 65536, 0)
<1>1. Folded(ctx, o) = Number(ctx, o)
  BY WordHolds
<1>2. s = Shown(kind, Number(ctx, o) % 65536, 0)
  BY DEF WordMeant
<1> QED
  BY <1>1, <1>2

Said(ctx, o, k, n, s) ==
  LET v == Folded(ctx, o)
      arg == Arg(k, n)
      byte == ByteOf(v, o.prefix, o.bit)
  IN /\ arg \in {"D", "B"} => s = Shown("mem", byte, 0)
     /\ arg = "/" => s = Shown("/", byte, 0)
     /\ arg = "#" /\ Arg(k, 1) # "P" => s = Shown("#", byte, 0)
     /\ arg = "#" /\ Arg(k, 1) = "P" => s = Shown("#", v % 65536, 0)
     /\ arg \in {"1", "6"} => s = Shown("code", v % 65536, 0)
     /\ arg = "J" => s = Shown(".", v % 65536, v - Here)
     /\ arg \in {"R", "I"} => s = Shown(arg, NameValue(ctx, o.name), 0)
     /\ arg \in {"A", "C", "r", "P", "@", "X", "T"} => s = Shown(arg, 0, 0)

LEMMA SaidIs ==
  ASSUME NEW ctx, IsContext(ctx), NEW o, IsOperand(o), NEW k, NEW n, NEW s \in Meant(ctx, o, k, n)
  PROVE  Said(ctx, o, k, n, s)
<1> DEFINE arg == Arg(k, n)
           v == Number(ctx, o)
           m == Meant(ctx, o, k, n)
           plain == o.form \in {"name", "plain"} /\ ~IsNamed(ctx, o)
           named == IsNamed(ctx, o) /\ m = NameMeant(ctx, o, arg)
           direct == plain /\ arg = "D" /\ o.prefix # "B2B" /\ ~Dotted(o) /\ m = ByteMeant("mem", ctx, o)
           bit == plain /\ arg = "B" /\ m = BitMeant("mem", ctx, o)
           target == plain /\ arg = "J" /\ m = TargetMeant(ctx, o, k)
           page == plain /\ arg = "1" /\ InPage(v) /\ m = WordMeant("code", ctx, o)
           address == plain /\ arg = "6" /\ m = WordMeant("code", ctx, o)
           inverted == o.form = "slash" /\ arg = "/" /\ o.prefix = "none" /\ m = BitMeant("/", ctx, o)
           immediate == o.form = "hash" /\ arg = "#" /\ o.prefix # "B2B" /\ ~Dotted(o)
                          /\ m = (IF Arg(k, 1) = "P" THEN WordMeant("#", ctx, o) ELSE ByteMeant("#", ctx, o))
<1>1. CASE named
  <2> DEFINE w == NameValue(ctx, o.name)
  <2>1. arg = Mode(o.name) /\ ~NameFails(ctx, o.name)
        /\ s = Shown(IF arg \in {"D", "B"} THEN "mem" ELSE arg, w, 0)
    BY <1>1 DEF NameMeant
  <2>2. o.form = "name" /\ o.name \notin ctx.hidden
    BY <1>1 DEF IsNamed
  <2>3. Known(o.name) /\ o.name # "" /\ o.prefix = "none" /\ o.bit = NoBit
    BY <2>2, NumberIs
  <2>4. Folded(ctx, o) = w
    BY <2>3, NumberIs DEF Number
  <2>5. arg \in {"D", "B", "/"} => w \in 0 .. 255
    BY <2>1, <2>2, <2>3, ValueIs
  <2>6. arg \in {"D", "B", "/"} => ByteOf(Folded(ctx, o), o.prefix, o.bit) = w
    BY <2>3, <2>4, <2>5, ByteKept
  <2>7. arg \in {"A", "C", "r", "P", "@", "X", "T"} => w = 0
    BY <2>1, <2>2, <2>3, NoNumber
  <2>8. arg \notin {"#", "J", "1", "6"}
    BY <2>1, <2>3, ValueIs
  <2> HIDE DEF w
  <2>9. /\ arg \in {"D", "B"} => s = Shown("mem", w, 0)
        /\ arg \notin {"D", "B"} => s = Shown(arg, w, 0)
    BY <2>1
  <2> DEFINE byte == ByteOf(Folded(ctx, o), o.prefix, o.bit)
  <2> HIDE DEF arg, m, byte
  <2>10. /\ arg \in {"D", "B"} => s = Shown("mem", byte, 0)
         /\ arg = "/" => s = Shown("/", byte, 0)
         /\ arg \in {"R", "I"} => s = Shown(arg, w, 0)
         /\ arg \in {"A", "C", "r", "P", "@", "X", "T"} => s = Shown(arg, 0, 0)
    BY <2>6, <2>7, <2>9 DEF byte
  <2>11. /\ ~(arg = "#" /\ Arg(k, 1) # "P") /\ ~(arg = "#" /\ Arg(k, 1) = "P")
         /\ arg \notin {"1", "6"} /\ arg # "J"
    BY <2>8
  <2> QED
    BY <2>10, <2>11 DEF Said, arg, w, byte
<1>2. CASE direct
  <2>1. s \in BitMeant("mem", ctx, o)
    BY <1>2 DEF BitMeant
  <2> QED
    BY <1>2, <2>1, ByteSaid DEF Said
<1>3. CASE bit
  BY <1>3, ByteSaid DEF Said
<1>4. CASE target
  <2>1. o.bit = NoBit /\ s = Shown(".", v % 65536, v - Here)
    BY <1>4 DEF TargetMeant
  <2>2. ~Dotted(o)
    BY <2>1 DEF Dotted
  <2>3. Folded(ctx, o) = v
    BY <2>2 DEF Folded
  <2> QED
    BY <1>4, <2>1, <2>3 DEF Said
<1>5. CASE page \/ address
  <2>1. s = Shown("code", Folded(ctx, o) % 65536, 0)
    BY <1>5, WordSaid
  <2> QED
    BY <1>5, <2>1 DEF Said
<1>6. CASE inverted
  BY <1>6, ByteSaid DEF Said
<1>7. CASE immediate
  <2>1. CASE Arg(k, 1) = "P"
    BY <1>7, <2>1, WordSaid DEF Said
  <2>2. CASE Arg(k, 1) # "P"
    <3>1. s \in BitMeant("#", ctx, o)
      BY <1>7, <2>2 DEF BitMeant
    <3> QED
      BY <1>7, <2>2, <3>1, ByteSaid DEF Said
  <2> QED
    BY <2>1, <2>2
<1>8. named \/ direct \/ bit \/ target \/ page \/ address \/ inverted \/ immediate
  BY MeantIs, Zenon
<1> HIDE DEF named, direct, bit, target, page, address, inverted, immediate
<1> QED
  BY <1>1, <1>2, <1>3, <1>4, <1>5, <1>6, <1>7, <1>8, Zenon

(* What the disassembler prints, letter by letter.                         *)
LEMMA LetterIs ==
  \A k \in Rows :
    Arg(k, 1) \in {"A", "B", "C", "D", "I", "J", "N", "P", "R", "T", "r", "@", "1", "6"}
<1>1. \A k \in Rows : Table[k][2] \in {"A", "B", "C", "D", "I", "J", "N", "P", "R", "T", "r", "@", "1", "6"}
  BY SMTT(60) DEF Table, Rows
<1> QED
  BY <1>1, RowIs

LEMMA PrintedIs ==
  ASSUME NEW b, NEW k, NEW n, NEW at, at = FieldAt(k, n), NEW arg, arg = Arg(k, n)
  PROVE  /\ arg \in {"D", "B"} => Printed(b, k, n) = Shown("mem", b[at], 0)
         /\ arg = "/" => Printed(b, k, n) = Shown("/", b[at], 0)
         /\ arg = "#" /\ Arg(k, 1) # "P" => Printed(b, k, n) = Shown("#", b[at], 0)
         /\ arg = "#" /\ Arg(k, 1) = "P" => Printed(b, k, n) = Shown("#", b[at] * 256 + b[at + 1], 0)
         /\ arg = "6" => Printed(b, k, n) = Shown("code", b[at] * 256 + b[at + 1], 0)
         /\ arg = "1" => Printed(b, k, n) =
              Shown("code", (((Here + 2) \div 2048) % 32) * 2048 + (b[1] \div 32) * 256 + b[at], 0)
         /\ arg = "J" => Printed(b, k, n) =
              Shown(".", (Here + at + Signed(b[at])) % 65536, Signed(b[at]) + 2 + Offset(k, n))
         /\ arg = "R" => Printed(b, k, n) = Shown("R", b[1] % 8, 0)
         /\ arg = "I" => Printed(b, k, n) = Shown("I", b[1] % 2, 0)
         /\ arg \in {"A", "C", "r", "P", "@", "X", "T", "N"} => Printed(b, k, n) = Shown(arg, 0, 0)
<1>1. arg \in {"D", "B"} => Printed(b, k, n) = Shown("mem", b[at], 0)
  BY SMT DEF Printed
<1>2. arg = "/" => Printed(b, k, n) = Shown("/", b[at], 0)
  BY SMT DEF Printed
<1>3. arg = "#" => Printed(b, k, n) =
        Shown("#", IF Width(k, n) = 2 THEN b[at] * 256 + b[at + 1] ELSE b[at], 0)
  BY SMT DEF Printed
<1>4. arg = "#" => Width(k, n) = IF Arg(k, 1) = "P" THEN 2 ELSE 1
  BY WidthIs
<1>5. arg = "6" => Printed(b, k, n) = Shown("code", b[at] * 256 + b[at + 1], 0)
  BY SMT DEF Printed
<1>6. arg = "1" => Printed(b, k, n) =
        Shown("code", (((Here + 2) \div 2048) % 32) * 2048 + (b[1] \div 32) * 256 + b[at], 0)
  BY SMT DEF Printed
<1>7. arg = "J" => Printed(b, k, n) =
        Shown(".", (Here + at + Signed(b[at])) % 65536, Signed(b[at]) + 2 + Offset(k, n))
  BY SMT DEF Printed
<1>8. arg = "R" => Printed(b, k, n) = Shown("R", b[1] % 8, 0)
  BY SMT DEF Printed
<1>9. arg = "I" => Printed(b, k, n) = Shown("I", b[1] % 2, 0)
  BY SMT DEF Printed
<1>10. arg \in {"A", "C", "r", "P", "@", "X", "T", "N"} => Printed(b, k, n) = Shown(arg, 0, 0)
  BY SMT DEF Printed
<1>11. /\ arg = "#" /\ Arg(k, 1) = "P" => Printed(b, k, n) = Shown("#", b[at] * 256 + b[at + 1], 0)
       /\ arg = "#" /\ Arg(k, 1) # "P" => Printed(b, k, n) = Shown("#", b[at], 0)
  BY <1>3, <1>4
<1> QED
  BY <1>1, <1>2, <1>5, <1>6, <1>7, <1>8, <1>9, <1>10, <1>11

LEMMA WidthOf ==
  ASSUME NEW k, NEW n, NEW arg, arg = Arg(k, n)
  PROVE  /\ arg \in {"D", "B", "/", "J", "1"} => Width(k, n) = 1
         /\ arg \in {"A", "C", "r", "P", "@", "X", "T", "R", "I", "N"} => Width(k, n) = 0
<1> DEFINE w == IF Arg(k, 1) = "P" THEN 2 ELSE 1
<1>1. Width(k, n) = CASE arg \in {"D", "B", "/", "J", "1"} -> 1
                      [] arg = "6" -> 2 [] arg = "#" -> w [] OTHER -> 0
  BY Zenon DEF Width
<1> HIDE DEF w
<1> QED
  BY <1>1

(* Where the operands of a row are read.                                   *)
LEMMA FieldOf ==
  ASSUME NEW k \in Rows
  PROVE  /\ FieldAt(k, 1) = 2
         /\ ~Gives(k, 1) => FieldAt(k, 2) = 2
         /\ Arg(k, 1) \in {"B", "D"} => FieldAt(k, 2) = 3
         /\ ~Gives(k, 1) /\ (Arg(k, 2) = "D" \/ (Arg(k, 2) = "#" /\ Arg(k, 1) # "P")) => FieldAt(k, 3) = 3
<1>1. FieldAt(k, 1) = 2
  BY DEF FieldAt
<1>2. FieldAt(k, 2) = 2 + Width(k, 1)
  BY DEF FieldAt
<1>3. FieldAt(k, 3) = 2 + Width(k, 1) + Width(k, 2)
  BY DEF FieldAt
<1>4. ~Gives(k, 1) => Width(k, 1) = 0
  <2>1. Arg(k, 1) \in {"A", "B", "C", "D", "I", "J", "N", "P", "R", "T", "r", "@", "1", "6"}
    BY LetterIs
  <2> QED
    BY <2>1, WidthOf DEF Gives, PlainModes1
<1>5. Arg(k, 1) \in {"B", "D"} => Width(k, 1) = 1
  BY WidthOf
<1>6. Arg(k, 2) = "D" \/ (Arg(k, 2) = "#" /\ Arg(k, 1) # "P") => Width(k, 2) = 1
  BY WidthOf, WidthIs
<1> QED
  BY <1>1, <1>2, <1>3, <1>4, <1>5, <1>6

LEMMA OffsetOf ==
  ASSUME NEW k \in Rows
  PROVE  /\ Offset(k, 1) = 0
         /\ ~Gives(k, 1) => Offset(k, 2) = 0
         /\ Arg(k, 1) \in {"B", "D"} => Offset(k, 2) = 1
         /\ ~Gives(k, 1) /\ (Arg(k, 2) = "D" \/ (Arg(k, 2) = "#" /\ Arg(k, 1) # "P")) => Offset(k, 3) = 1
<1> DEFINE Data(m) == Arg(k, m) \in {"D", "B", "/"} \/ (Arg(k, m) = "#" /\ Width(k, m) = 1)
           a == Data(1)
           b == Data(2)
<1>1. /\ Offset(k, 1) = 0
      /\ Offset(k, 2) = IF a THEN 1 ELSE 0
      /\ Offset(k, 3) = (IF a THEN 1 ELSE 0) + (IF b THEN 1 ELSE 0)
  BY DEF Offset
<1>2. ~Gives(k, 1) => ~a
  BY DEF Gives, PlainModes1
<1>3. Arg(k, 1) \in {"B", "D"} => a
  OBVIOUS
<1>4. Arg(k, 2) = "D" \/ (Arg(k, 2) = "#" /\ Arg(k, 1) # "P") => b
  BY WidthIs
<1> HIDE DEF a, b
<1> QED
  BY <1>1, <1>2, <1>3, <1>4

(* What is written for the operands of a row, by their letters.            *)
Shape(m, a, b, c, bin) ==
  /\ a \in {"B", "D"} => \/ b \notin {"B", "D", "/", "#", "J"} /\ c = "N" /\ m \in {"D", "B", "r"}
                         \/ a = "D" /\ b = "#" /\ c = "N" /\ m = "a"
                         \/ a = "D" /\ b = "D" /\ c = "N" /\ m = "d"
                         \/ b = "J" /\ c = "N" /\ m \in {"J", "Z"}
  /\ a \in {"1", "6", "J"} => b = "N" /\ c = "N"
  /\ a = "J" => m = "7"
  /\ a = "1" => m = "1"
  /\ a = "6" => m = "6"
  /\ a = "P" => b \in {"#", "N"} /\ (b = "#" => m = "6" /\ c = "N")
  /\ a \notin {"B", "D"} /\ b = "J" => m = "W"
  /\ a \notin {"B", "D", "P"} /\ b \in {"B", "D", "/", "#"} =>
       \/ c = "N" /\ m \in {"D", "B", "r"}
       \/ c = "J" /\ b \in {"D", "#"} /\ m \in {"X", "Y", "Z"}
  /\ c = "J" => a \notin {"B", "D", "P"} /\ b \in {"D", "#"}
  /\ a = "R" \/ b = "R" => m \in {"R", "r", "Y", "W"} /\ bin % 8 = 0
  /\ a = "I" \/ b = "I" => m \in {"I", "X", "r"} /\ bin % 2 = 0

LEMMA ShapeIs ==
  \A k \in Rows : Shape(Opcodes[k].mreloc, Arg(k, 1), Arg(k, 2), Arg(k, 3), Opcodes[k].bin)
<1> DEFINE M(j) == Table[j][6]
           A(j) == Table[j][2]
           B(j) == Table[j][3]
           C(j) == Table[j][4]
<1>1. \A k \in Rows : A(k) \in {"B", "D"} =>
        \/ B(k) \notin {"B", "D", "/", "#", "J"} /\ C(k) = "N" /\ M(k) \in {"D", "B", "r"}
        \/ A(k) = "D" /\ B(k) = "#" /\ C(k) = "N" /\ M(k) = "a"
        \/ A(k) = "D" /\ B(k) = "D" /\ C(k) = "N" /\ M(k) = "d"
        \/ B(k) = "J" /\ C(k) = "N" /\ M(k) \in {"J", "Z"}
  <2>1. \A k \in Rows : A(k) \in {"B", "D"} => C(k) = "N" /\ B(k) \notin {"B", "/"}
    BY SMTT(60) DEF Table, Rows
  <2>2. \A k \in Rows : A(k) \in {"B", "D"} /\ B(k) = "#" => A(k) = "D" /\ M(k) = "a"
    BY SMTT(60) DEF Table, Rows
  <2>3. \A k \in Rows : A(k) \in {"B", "D"} /\ B(k) = "D" => A(k) = "D" /\ M(k) = "d"
    BY SMTT(60) DEF Table, Rows
  <2>4. \A k \in Rows : A(k) \in {"B", "D"} /\ B(k) = "J" => M(k) \in {"J", "Z"}
    BY SMTT(60) DEF Table, Rows
  <2>5. \A k \in Rows : A(k) \in {"B", "D"} => B(k) \in {"#", "D", "J"} \/ M(k) \in {"D", "B", "r"}
    BY SMTT(60) DEF Table, Rows
  <2> HIDE DEF A, B, C, M
  <2> QED
    BY <2>1, <2>2, <2>3, <2>4, <2>5
<1>2. \A k \in Rows : /\ A(k) \in {"1", "6", "J"} => B(k) = "N" /\ C(k) = "N"
                      /\ A(k) = "J" => M(k) = "7"
                      /\ A(k) = "1" => M(k) = "1"
                      /\ A(k) = "6" => M(k) = "6"
  <2>1. \A k \in Rows : A(k) \in {"1", "6", "J"} => B(k) = "N" /\ C(k) = "N"
    BY SMTT(60) DEF Table, Rows
  <2>2. \A k \in Rows : A(k) = "J" => M(k) = "7"
    BY SMTT(60) DEF Table, Rows
  <2>3. \A k \in Rows : A(k) = "1" => M(k) = "1"
    BY SMTT(60) DEF Table, Rows
  <2>4. \A k \in Rows : A(k) = "6" => M(k) = "6"
    BY SMTT(60) DEF Table, Rows
  <2> HIDE DEF A, B, C, M
  <2> QED
    BY <2>1, <2>2, <2>3, <2>4
<1>3. \A k \in Rows : /\ A(k) = "P" => B(k) \in {"#", "N"} /\ (B(k) = "#" => M(k) = "6" /\ C(k) = "N")
                      /\ A(k) \notin {"B", "D"} /\ B(k) = "J" => M(k) = "W"
  <2>1. \A k \in Rows : A(k) = "P" => B(k) \in {"#", "N"}
    BY SMTT(60) DEF Table, Rows
  <2>2. \A k \in Rows : A(k) = "P" => B(k) = "N" \/ M(k) = "6"
    BY SMTT(60) DEF Table, Rows
  <2>3. \A k \in Rows : A(k) = "P" => C(k) = "N"
    BY SMTT(60) DEF Table, Rows
  <2>4. \A k \in Rows : B(k) = "J" => A(k) \in {"B", "D"} \/ M(k) = "W"
    BY SMTT(60) DEF Table, Rows
  <2> HIDE DEF A, B, C, M
  <2> QED
    BY <2>1, <2>2, <2>3, <2>4
<1>4. \A k \in Rows : A(k) \notin {"B", "D", "P"} /\ B(k) \in {"B", "D", "/", "#"} =>
        \/ C(k) = "N" /\ M(k) \in {"D", "B", "r"}
        \/ C(k) = "J" /\ B(k) \in {"D", "#"} /\ M(k) \in {"X", "Y", "Z"}
  <2>1. \A k \in Rows : C(k) \in {"N", "J"}
    BY SMTT(60) DEF Table, Rows
  <2>2. \A k \in Rows : C(k) = "J" => B(k) \in {"D", "#"}
    BY SMTT(60) DEF Table, Rows
  <2>3. \A k \in Rows : C(k) = "J" => M(k) \in {"X", "Y", "Z"}
    BY SMTT(60) DEF Table, Rows
  <2>4. \A k \in Rows : B(k) \in {"B", "D", "/", "#"} /\ C(k) = "N" =>
          A(k) \in {"B", "D", "P"} \/ M(k) \in {"D", "B", "r"}
    BY SMTT(60) DEF Table, Rows
  <2> HIDE DEF A, B, C, M
  <2> QED
    BY <2>1, <2>2, <2>3, <2>4
<1>5. \A k \in Rows : C(k) = "J" => A(k) \notin {"B", "D", "P"} /\ B(k) \in {"D", "#"}
  BY SMTT(60) DEF Table, Rows
<1>6. \A k \in Rows : A(k) = "R" \/ B(k) = "R" => M(k) \in {"R", "r", "Y", "W"}
  BY SMTT(60) DEF Table, Rows
<1>7. \A k \in Rows : A(k) = "I" \/ B(k) = "I" => M(k) \in {"I", "X", "r"}
  BY SMTT(60) DEF Table, Rows
<1>8. \A k \in Rows : A(k) = "R" \/ B(k) = "R" => Table[k][7] % 8 = 0
  BY SMTT(60) DEF Table, Rows
<1>9. \A k \in Rows : A(k) = "I" \/ B(k) = "I" => Table[k][7] % 2 = 0
  BY SMTT(60) DEF Table, Rows
<1>10. \A k \in Rows : /\ Opcodes[k].mreloc = M(k) /\ Opcodes[k].bin = Table[k][7]
                       /\ Arg(k, 1) = A(k) /\ Arg(k, 2) = B(k) /\ Arg(k, 3) = C(k)
  BY RowIs, BinIs
<1> HIDE DEF A, B, C, M
<1> SUFFICES ASSUME NEW k \in Rows
             PROVE  Shape(M(k), A(k), B(k), C(k), Table[k][7])
  BY <1>10
<1> QED
  BY <1>1, <1>2, <1>3, <1>4, <1>5, <1>6, <1>7, <1>8, <1>9 DEF Shape

(* The arithmetic of a word and of a branch.                               *)
LEMMA WordIs ==
  ASSUME NEW v \in Int
  PROVE  ((v \div 256) % 256) * 256 + (v % 256) = v % 65536
  OBVIOUS

LEMMA BranchIs ==
  ASSUME NEW t \in Int, NEW size \in 2 .. 3, Reaches(t, size), NEW d, d = Displacement(t, size)
  PROVE  /\ (Here + size + Signed(d)) % 65536 = t % 65536
         /\ Signed(d) + size = t - Here
<1> DEFINE w == t - (Here + size)
<1>1. w \in -128 .. 127 /\ t = w + Here + size /\ Here \in Int /\ size \in Int
  BY GasAssumption DEF Reaches, Between
<1>2. d = w % 256
  BY DEF Displacement
<1> HIDE DEF w
<1>3. Signed(d) = w
  BY <1>1, <1>2 DEF Signed
<1> QED
  BY <1>1, <1>3

(* What the bytes of a line with a form are.                               *)
ByteGiven(ctx, o) == ByteOf(Folded(ctx, o), o.prefix, o.bit)

Swapped(k) == Arg(k, 1) = "D" /\ Arg(k, 2) \in {"B", "D"}

LEMMA GivenIs ==
  ASSUME NEW ctx, IsContext(ctx), NEW name, NEW ops, IsLine(ops), NEW k, IsForm(ctx, name, ops, k),
         NEW p, Parsed(ctx, ops, k, p),
         NEW x, x = ByteOf(p.e1, p.hl1, p.b2b), NEW y, y = ByteOf(p.e2, p.hl2, p.b2b)
  PROVE  /\ Gives(k, 1) => p.e1 = Folded(ctx, ops[1]) /\ p.e1 \in Int /\ x = ByteGiven(ctx, ops[1])
         /\ ~Gives(k, 1) /\ Gives(k, 2) =>
              p.e1 = Folded(ctx, ops[2]) /\ p.e1 \in Int /\ x = ByteGiven(ctx, ops[2])
         /\ Gives(k, 1) /\ Gives(k, 2) /\ Arg(k, 3) # "J" =>
              p.e2 = Folded(ctx, ops[2]) /\ p.e2 \in Int /\ y = ByteGiven(ctx, ops[2])
         /\ Arg(k, 3) = "J" => p.e2 = Folded(ctx, ops[3]) /\ p.e2 \in Int
<1>1. ASSUME NEW n \in 1 .. 3, Arg(k, n) # "N"
      PROVE  ops[n].prefix \in Prefixed /\ Folded(ctx, ops[n]) \in Int
  <2>1. IsOperand(ops[n]) /\ Folded(ctx, ops[n]) \in Int
    BY <1>1, FormHolds
  <2> QED
    BY <2>1 DEF IsOperand, Prefixed
<1>2. \A n \in 1 .. 3 : Gives(k, n) => Arg(k, n) # "N"
  BY DEF Gives, PlainModes1
<1>3. ASSUME Gives(k, 1)
      PROVE  p.e1 = Folded(ctx, ops[1]) /\ p.e1 \in Int /\ x = ByteGiven(ctx, ops[1])
  <2>1. p.e1 = Folded(ctx, ops[1]) /\ p.hl1 = ops[1].prefix /\ (ops[1].prefix = "B2B" => p.b2b = ops[1].bit)
    BY <1>3 DEF Parsed
  <2>2. ops[1].prefix \in Prefixed /\ Folded(ctx, ops[1]) \in Int
    BY <1>1, <1>2, <1>3
  <2> QED
    BY <2>1, <2>2, ByteSame DEF ByteGiven
<1>4. ASSUME ~Gives(k, 1), Gives(k, 2)
      PROVE  p.e1 = Folded(ctx, ops[2]) /\ p.e1 \in Int /\ x = ByteGiven(ctx, ops[2])
  <2>1. p.e1 = Folded(ctx, ops[2]) /\ p.hl1 = ops[2].prefix /\ (ops[2].prefix = "B2B" => p.b2b = ops[2].bit)
    BY <1>4 DEF Parsed
  <2>2. ops[2].prefix \in Prefixed /\ Folded(ctx, ops[2]) \in Int
    BY <1>1, <1>2, <1>4
  <2> QED
    BY <2>1, <2>2, ByteSame DEF ByteGiven
<1>5. ASSUME Gives(k, 1), Gives(k, 2), Arg(k, 3) # "J"
      PROVE  p.e2 = Folded(ctx, ops[2]) /\ p.e2 \in Int /\ y = ByteGiven(ctx, ops[2])
  <2>1. p.e2 = Folded(ctx, ops[2]) /\ p.hl2 = ops[2].prefix /\ ops[2].prefix # "B2B"
    BY <1>5 DEF Parsed
  <2>2. ops[2].prefix \in Prefixed /\ Folded(ctx, ops[2]) \in Int
    BY <1>1, <1>2, <1>5
  <2> QED
    BY <2>1, <2>2, ByteSame DEF ByteGiven
<1>6. Arg(k, 3) = "J" => p.e2 = Folded(ctx, ops[3]) /\ p.e2 \in Int
  BY <1>1 DEF Parsed
<1> QED
  BY <1>3, <1>4, <1>5, <1>6

LEMMA FormData ==
  ASSUME NEW ctx, IsContext(ctx), NEW name, NEW ops, IsLine(ops), NEW k, IsForm(ctx, name, ops, k),
         NEW p, Parsed(ctx, ops, k, p), NEW b, b = Build(p)
  PROVE  /\ Arg(k, 1) \in {"B", "D"} => b[IF Swapped(k) THEN 3 ELSE 2] = ByteGiven(ctx, ops[1])
         /\ ~Gives(k, 1) /\ Arg(k, 1) # "P" /\ Arg(k, 2) \in {"B", "D", "/", "#"} =>
              b[2] = ByteGiven(ctx, ops[2])
         /\ Arg(k, 1) \in {"B", "D"} /\ Arg(k, 2) \in {"D", "#"} =>
              b[IF Swapped(k) THEN 2 ELSE 3] = ByteGiven(ctx, ops[2])
         /\ Arg(k, 1) = "6" => /\ b[2] = (Folded(ctx, ops[1]) \div 256) % 256
                               /\ b[3] = Folded(ctx, ops[1]) % 256
         /\ Arg(k, 1) = "P" /\ Arg(k, 2) = "#" => /\ b[2] = (Folded(ctx, ops[2]) \div 256) % 256
                                                  /\ b[3] = Folded(ctx, ops[2]) % 256
         /\ Arg(k, 1) = "1" => b[1] = OperationCode(p) + PageOf(p) /\ b[2] = Folded(ctx, ops[1]) % 256
         /\ Arg(k, 1) = "J" => Size(k) = 2 /\ b[2] = Displacement(Folded(ctx, ops[1]), 2)
         /\ ~Gives(k, 1) /\ Arg(k, 2) = "J" => Size(k) = 2 /\ b[2] = Displacement(Folded(ctx, ops[2]), 2)
         /\ Arg(k, 1) \in {"B", "D"} /\ Arg(k, 2) = "J" =>
              Size(k) = 3 /\ b[3] = Displacement(Folded(ctx, ops[2]), 3)
         /\ Arg(k, 3) = "J" => Size(k) = 3 /\ b[3] = Displacement(Folded(ctx, ops[3]), 3)
         /\ Arg(k, 1) # "1" => b[1] = OperationCode(p)
<1> DEFINE m == Opcodes[k].mreloc
           c == OperationCode(p)
           x == ByteOf(p.e1, p.hl1, p.b2b)
           y == ByteOf(p.e2, p.hl2, p.b2b)
           f1 == Folded(ctx, ops[1])
           f2 == Folded(ctx, ops[2])
           f3 == Folded(ctx, ops[3])
           g1 == ByteGiven(ctx, ops[1])
           g2 == ByteGiven(ctx, ops[2])
           d1 == Displacement(p.e1, Size(k))
           d2 == Displacement(p.e2, Size(k))
           page == c + PageOf(p)
           high(v) == (v \div 256) % 256
           low(v) == v % 256
<1>1. k \in Rows /\ p.row = k /\ c \in Int
  <2>1. k \in Rows /\ p.row = k
    BY DEF IsForm, Parsed
  <2>2. c \in Int
    BY FormRegister
  <2> QED
    BY <2>1, <2>2
<1>2. /\ m \in {"N", "I", "R"} => b = <<c>>
      /\ m \in {"D", "i", "r", "B"} => b = <<c, x>>
      /\ m \in {"7", "W"} => b = <<c, d1>>
      /\ m = "1" => b = <<page, low(p.e1)>>
      /\ m = "6" => b = <<c, high(p.e1), low(p.e1)>>
      /\ m = "a" => b = <<c, x, y>>
      /\ m = "d" => b = <<c, y, x>>
      /\ m \in {"J", "X", "Y", "Z"} => b = <<c, x, d2>>
  <2>1. /\ m = Opcodes[k].mreloc /\ c = OperationCode(p)
        /\ x = ByteOf(p.e1, p.hl1, p.b2b) /\ y = ByteOf(p.e2, p.hl2, p.b2b)
    BY Zenon
  <2> HIDE DEF m, c, x, y
  <2> QED
    BY <1>1, <2>1, BuildIs
<1>3. /\ Gives(k, 1) => p.e1 = f1 /\ x = g1
      /\ ~Gives(k, 1) /\ Gives(k, 2) => p.e1 = f2 /\ x = g2
      /\ Gives(k, 1) /\ Gives(k, 2) /\ Arg(k, 3) # "J" => p.e2 = f2 /\ y = g2
      /\ Arg(k, 3) = "J" => p.e2 = f3
  <2>1. x = ByteOf(p.e1, p.hl1, p.b2b) /\ y = ByteOf(p.e2, p.hl2, p.b2b)
    BY Zenon
  <2> HIDE DEF x, y
  <2> QED
    BY <2>1, GivenIs
<1>4. Shape(m, Arg(k, 1), Arg(k, 2), Arg(k, 3), Opcodes[k].bin)
  BY <1>1, ShapeIs
<1>5. /\ m \in {"7", "W"} => Size(k) = 2
      /\ m \in {"J", "X", "Y", "Z"} => Size(k) = 3
  BY <1>1, SizeIs
<1>6. /\ Gives(k, 1) <=> Arg(k, 1) \in {"B", "D", "J", "1", "6"}
      /\ Gives(k, 2) <=> Arg(k, 2) \in {"B", "D", "J", "1", "6", "#", "/"}
  BY <1>1, FirstLetters DEF Gives, PlainModes1
<1>7. m \in {"N", "D", "R", "I", "B", "7", "W", "1", "6", "i", "r", "a", "d", "J", "X", "Y", "Z"}
  BY <1>1, RowsOfFewOperands
<1>8. m = "1" => Arg(k, 1) = "1"
  BY <1>1, FieldLetters
<1>9. /\ d1 = Displacement(p.e1, Size(k)) /\ d2 = Displacement(p.e2, Size(k))
  OBVIOUS
<1> HIDE DEF m, c, x, y, f1, f2, f3, g1, g2, d1, d2, page, high, low
<1>10. Arg(k, 1) \in {"B", "D"} => b[IF Swapped(k) THEN 3 ELSE 2] = g1
  BY <1>2, <1>3, <1>4, <1>6 DEF Shape, Swapped
<1>11. ~Gives(k, 1) /\ Arg(k, 1) # "P" /\ Arg(k, 2) \in {"B", "D", "/", "#"} => b[2] = g2
  BY <1>2, <1>3, <1>4, <1>6 DEF Shape
<1>12. Arg(k, 1) \in {"B", "D"} /\ Arg(k, 2) \in {"D", "#"} => b[IF Swapped(k) THEN 2 ELSE 3] = g2
  BY <1>2, <1>3, <1>4, <1>6 DEF Shape, Swapped
<1>13. Arg(k, 1) = "6" => b[2] = high(f1) /\ b[3] = low(f1)
  BY <1>2, <1>3, <1>4, <1>6 DEF Shape
<1>14. Arg(k, 1) = "P" /\ Arg(k, 2) = "#" => b[2] = high(f2) /\ b[3] = low(f2)
  BY <1>2, <1>3, <1>4, <1>6 DEF Shape
<1>15. Arg(k, 1) = "1" => b[1] = page /\ b[2] = low(f1)
  BY <1>2, <1>3, <1>4, <1>6 DEF Shape
<1>16. Arg(k, 1) = "J" => Size(k) = 2 /\ b[2] = Displacement(f1, 2)
  BY <1>2, <1>3, <1>4, <1>5, <1>6, <1>9 DEF Shape
<1>17. ~Gives(k, 1) /\ Arg(k, 2) = "J" => Size(k) = 2 /\ b[2] = Displacement(f2, 2)
  BY <1>2, <1>3, <1>4, <1>5, <1>6, <1>9 DEF Shape
<1>18. Arg(k, 1) \in {"B", "D"} /\ Arg(k, 2) = "J" => Size(k) = 3 /\ b[3] = Displacement(f2, 3)
  BY <1>2, <1>3, <1>4, <1>5, <1>6, <1>9 DEF Shape
<1>19. Arg(k, 3) = "J" => Size(k) = 3 /\ b[3] = Displacement(f3, 3)
  BY <1>2, <1>3, <1>4, <1>5, <1>6, <1>9 DEF Shape
<1>20. Arg(k, 1) # "1" => b[1] = c
  BY <1>2, <1>7, <1>8
<1> QED
  BY <1>10, <1>11, <1>12, <1>13, <1>14, <1>15, <1>16, <1>17, <1>18, <1>19, <1>20
     DEF f1, f2, f3, g1, g2, page, c, high, low

LEMMA FormCode ==
  ASSUME NEW ctx, IsContext(ctx), NEW name, NEW ops, IsLine(ops), NEW k, IsForm(ctx, name, ops, k),
         NEW p, Parsed(ctx, ops, k, p), NEW c, c = OperationCode(p)
  PROVE  /\ \A n \in 1 .. 2 : Arg(k, n) = "R" => c % 8 = NameValue(ctx, ops[n].name)
         /\ \A n \in 1 .. 2 : Arg(k, n) = "I" => c % 2 = NameValue(ctx, ops[n].name)
         /\ Arg(k, 1) = "1" => c \in 0 .. 31
<1> DEFINE m == Opcodes[k].mreloc
           bin == Opcodes[k].bin
           reg == p.reg
<1>1. k \in Rows /\ p.row = k
  BY DEF IsForm, Parsed
<1>2. /\ m \in {"I", "i", "X"} => c = bin + (reg % 2)
      /\ m \in {"R", "r", "Y", "W"} => c = bin + (reg % 8)
      /\ m \notin {"I", "i", "X", "R", "r", "Y", "W"} => c = bin
  BY <1>1, CodeIs
<1>3. Shape(m, Arg(k, 1), Arg(k, 2), Arg(k, 3), bin) /\ bin \in 0 .. 255
  BY <1>1, ShapeIs, BinIs
<1>4. /\ \A n \in 1 .. 2 : Arg(k, n) = "R" => reg \in 0 .. 7 /\ reg = NameValue(ctx, ops[n].name)
      /\ \A n \in 1 .. 2 : Arg(k, n) = "I" => reg \in 0 .. 1 /\ reg = NameValue(ctx, ops[n].name)
  BY FormRegister
<1>5. m = "1" => bin \in {1, 17}
  BY <1>1, MaskFits, MaskIs
<1> HIDE DEF m, bin, reg
<1>6. ASSUME NEW n \in 1 .. 2, Arg(k, n) = "R" PROVE c % 8 = NameValue(ctx, ops[n].name)
  <2>1. m \in {"R", "r", "Y", "W"} /\ bin % 8 = 0
    BY <1>3, <1>6 DEF Shape
  <2>2. reg \in 0 .. 7 /\ c = bin + (reg % 8)
    BY <1>2, <1>4, <1>6, <2>1
  <2>3. c % 8 = reg
    BY <1>3, <2>1, <2>2
  <2> QED
    BY <1>4, <1>6, <2>3
<1>7. ASSUME NEW n \in 1 .. 2, Arg(k, n) = "I" PROVE c % 2 = NameValue(ctx, ops[n].name)
  <2>1. m \in {"I", "X", "r"} /\ bin % 2 = 0
    BY <1>3, <1>7 DEF Shape
  <2>2. reg \in 0 .. 1 /\ (c = bin + (reg % 2) \/ c = bin + (reg % 8))
    BY <1>2, <1>4, <1>7, <2>1
  <2>3. c % 2 = reg
    BY <1>3, <2>1, <2>2
  <2> QED
    BY <1>4, <1>7, <2>3
<1>8. Arg(k, 1) = "1" => c \in 0 .. 31
  BY <1>2, <1>3, <1>5 DEF Shape
<1> QED
  BY <1>6, <1>7, <1>8

(* Each operand is printed as it was meant.                                *)
ReadAt(k, n) == IF Swapped(k) /\ n < 3 THEN 3 - n ELSE n

LEMMA FormPrinted ==
  ASSUME NEW ctx, IsContext(ctx), NEW name, NEW ops, IsLine(ops), NEW k, IsForm(ctx, name, ops, k),
         NEW p, Parsed(ctx, ops, k, p), NEW b, b = Build(p),
         NEW n \in 1 .. 3, n <= Len(ops), NEW s \in Meant(ctx, ops[n], k, n)
  PROVE  Printed(b, k, ReadAt(k, n)) = s
<1> DEFINE o == ops[n]
           v == Folded(ctx, o)
           arg == Arg(k, n)
           byte == ByteGiven(ctx, o)
           q == ReadAt(k, n)
           at == FieldAt(k, q)
<1>1. k \in Rows /\ p.row = k /\ IsOperand(o)
  BY DEF IsForm, Parsed, IsLine
<1>2. Said(ctx, o, k, n, s)
  BY <1>1, SaidIs
<1>3. arg # "N" /\ v \in Int /\ Holds(ctx, o, k, n)
  <2>1. arg # "N"
    BY <1>1, NotNone
  <2> QED
    BY <2>1, FormHolds
<1>4. Shape(Opcodes[k].mreloc, Arg(k, 1), Arg(k, 2), Arg(k, 3), Opcodes[k].bin)
  BY <1>1, ShapeIs
<1>5. /\ Gives(k, 1) <=> Arg(k, 1) \in {"B", "D", "J", "1", "6"}
      /\ Arg(k, 1) \in {"A", "B", "C", "D", "I", "J", "N", "P", "R", "T", "r", "@", "1", "6"}
      /\ Arg(k, 2) \in {"A", "B", "D", "I", "J", "N", "R", "X", "r", "@", "T", "#", "/"}
      /\ Arg(k, 3) \in {"N", "J"}
  BY <1>1, FirstLetters, SecondLetters, LetterIs DEF Gives, PlainModes1
<1>6. /\ FieldAt(k, 1) = 2
      /\ ~Gives(k, 1) => FieldAt(k, 2) = 2
      /\ Arg(k, 1) \in {"B", "D"} => FieldAt(k, 2) = 3
      /\ ~Gives(k, 1) /\ (Arg(k, 2) = "D" \/ (Arg(k, 2) = "#" /\ Arg(k, 1) # "P")) => FieldAt(k, 3) = 3
  BY <1>1, FieldOf
<1>7. /\ Swapped(k) /\ n = 1 => q = 2 /\ arg = "D" /\ Arg(k, q) = "D"
      /\ Swapped(k) /\ n = 2 => q = 1 /\ arg = "D" /\ Arg(k, q) = "D"
      /\ ~(Swapped(k) /\ n < 3) => q = n /\ Arg(k, q) = arg
  BY <1>4 DEF Shape, Swapped, ReadAt
<1>8. n \in {1, 2, 3}
  OBVIOUS
<1>9. CASE arg \in {"D", "B", "/"} \/ (arg = "#" /\ Arg(k, 1) # "P")
  <2>1. b[at] = byte
    <3>1. CASE n = 1
      <4>1. arg \in {"B", "D"} /\ at = IF Swapped(k) THEN 3 ELSE 2
        BY <1>5, <1>6, <1>7, <1>9, <3>1
      <4>2. b[IF Swapped(k) THEN 3 ELSE 2] = ByteGiven(ctx, ops[1])
        BY <3>1, <4>1, FormData
      <4> HIDE DEF at
      <4> QED
        BY <3>1, <4>1, <4>2
    <3>2. CASE n = 2 /\ Arg(k, 1) \in {"B", "D"}
      <4>1. arg \in {"#", "D"} /\ at = IF Swapped(k) THEN 2 ELSE 3
        BY <1>4, <1>6, <1>7, <1>9, <3>2 DEF Shape
      <4>2. b[IF Swapped(k) THEN 2 ELSE 3] = ByteGiven(ctx, ops[2])
        BY <3>2, <4>1, FormData
      <4> HIDE DEF at
      <4> QED
        BY <3>2, <4>1, <4>2
    <3>3. CASE n = 2 /\ Arg(k, 1) \notin {"B", "D"}
      <4>1. ~Gives(k, 1) /\ Arg(k, 1) # "P" /\ Arg(k, 2) \in {"B", "D", "/", "#"} /\ ~Swapped(k)
        BY <1>4, <1>5, <1>9, <3>3 DEF Shape, Swapped
      <4>2. at = 2
        BY <1>6, <1>7, <3>3, <4>1
      <4>3. b[2] = ByteGiven(ctx, ops[2])
        BY <4>1, FormData
      <4> HIDE DEF at
      <4> QED
        BY <3>3, <4>2, <4>3
    <3> QED
      BY <1>5, <1>8, <1>9, <3>1, <3>2, <3>3
  <2> DEFINE letter == Arg(k, q)
  <2>2. /\ letter \in {"D", "B"} => Printed(b, k, q) = Shown("mem", b[at], 0)
        /\ letter = "/" => Printed(b, k, q) = Shown("/", b[at], 0)
        /\ letter = "#" /\ Arg(k, 1) # "P" => Printed(b, k, q) = Shown("#", b[at], 0)
    BY PrintedIs
  <2>3. letter = arg
    BY <1>7, <1>8
  <2>4. /\ arg \in {"D", "B"} => s = Shown("mem", byte, 0)
        /\ arg = "/" => s = Shown("/", byte, 0)
        /\ arg = "#" /\ Arg(k, 1) # "P" => s = Shown("#", byte, 0)
    BY <1>2 DEF Said, ByteGiven
  <2> HIDE DEF letter, at, byte, q
  <2>5. Printed(b, k, q) = s
    BY <1>9, <2>1, <2>2, <2>3, <2>4
  <2> QED
    BY <2>5 DEF q
<1>10. ASSUME arg \notin {"D", "B"} PROVE q = n
  BY <1>7, <1>8, <1>10
<1>11. CASE arg = "6" \/ (arg = "#" /\ Arg(k, 1) = "P")
  <2>1. at = 2 /\ b[2] = (v \div 256) % 256 /\ b[3] = v % 256
    <3>1. CASE n = 1
      <4>1. Arg(k, 1) = "6"
        BY <1>5, <1>11, <3>1
      <4>2. at = 2
        BY <1>6, <1>10, <3>1, <4>1
      <4>3. b[2] = (Folded(ctx, ops[1]) \div 256) % 256 /\ b[3] = Folded(ctx, ops[1]) % 256
        BY <4>1, FormData
      <4> HIDE DEF at
      <4> QED
        BY <3>1, <4>2, <4>3
    <3>2. CASE n = 2
      <4>1. Arg(k, 1) = "P" /\ Arg(k, 2) = "#"
        BY <1>5, <1>11, <3>2
      <4>2. at = 2
        BY <1>5, <1>6, <1>10, <3>2, <4>1
      <4>3. b[2] = (Folded(ctx, ops[2]) \div 256) % 256 /\ b[3] = Folded(ctx, ops[2]) % 256
        BY <4>1, FormData
      <4> HIDE DEF at
      <4> QED
        BY <3>2, <4>2, <4>3
    <3> QED
      BY <1>5, <1>8, <1>11, <3>1, <3>2
  <2>2. /\ arg = "#" /\ Arg(k, 1) = "P" => Printed(b, k, n) = Shown("#", b[2] * 256 + b[3], 0)
        /\ arg = "6" => Printed(b, k, n) = Shown("code", b[2] * 256 + b[3], 0)
    <3>1. FieldAt(k, n) = 2 /\ 2 + 1 = 3
      BY <1>10, <1>11, <2>1
    <3> QED
      BY <3>1, PrintedIs
  <2>3. b[2] * 256 + b[3] = v % 65536
    BY <1>3, <2>1, WordIs, SMTT(30)
  <2>4. /\ arg = "#" /\ Arg(k, 1) = "P" => s = Shown("#", v % 65536, 0)
        /\ arg = "6" => s = Shown("code", v % 65536, 0)
    BY <1>2 DEF Said
  <2> DEFINE w == v % 65536
  <2> HIDE DEF w
  <2>5. Printed(b, k, n) = s
    BY <1>11, <2>2, <2>3, <2>4
  <2> QED
    BY <1>10, <1>11, <2>5
<1>12. CASE arg = "1"
  <2>1. n = 1 /\ at = 2
    BY <1>5, <1>6, <1>8, <1>10, <1>12
  <2>2. b[1] = OperationCode(p) + PageOf(p) /\ b[2] = v % 256
    BY <1>12, <2>1, FormData
  <2>3. p.e1 = v
    BY <1>5, <1>12, <2>1 DEF Parsed
  <2>4. OperationCode(p) \in 0 .. 31
    BY <1>12, <2>1, FormCode
  <2>5. (v \div 2048) % 32 = ((Here + 2) \div 2048) % 32 /\ Here + 2 \in Int
    BY <1>3, <1>12, GasAssumption DEF Holds, InPage
  <2>6. b[1] = OperationCode(p) + 32 * ((v % 2048) \div 256)
    BY <2>2, <2>3 DEF PageOf
  <2>7. (((Here + 2) \div 2048) % 32) * 2048 + (b[1] \div 32) * 256 + b[2] = v % 65536
    <3> DEFINE h == Here + 2
               c == OperationCode(p)
               insn == b[1]
    <3>1. /\ (v \div 2048) % 32 = (h \div 2048) % 32 /\ h \in Int /\ v \in Int
          /\ c \in 0 .. 31 /\ insn = c + 32 * ((v % 2048) \div 256)
      BY <1>3, <2>4, <2>5, <2>6
    <3> HIDE DEF v, h, c, insn
    <3> DEFINE high == (v % 2048) \div 256
               page == (h \div 2048) % 32
    <3>2. high \in Int /\ insn = c + 32 * high /\ page \in Int
      BY <3>1
    <3>3. insn \div 32 = high
      <4> HIDE DEF high
      <4> QED
        BY <3>1, <3>2
    <3>4. page * 2048 + high * 256 + (v % 256) = v % 65536
      BY <3>1
    <3>5. page * 2048 + (insn \div 32) * 256 + (v % 256) = v % 65536
      <4> HIDE DEF high, page
      <4> QED
        BY <3>3, <3>4
    <3> QED
      BY <2>2, <3>5 DEF h, insn
  <2>8. Printed(b, k, 1) =
          Shown("code", (((Here + 2) \div 2048) % 32) * 2048 + (b[1] \div 32) * 256 + b[2], 0)
    BY <1>6, <1>12, <2>1, PrintedIs
  <2>9. s = Shown("code", v % 65536, 0)
    BY <1>2, <1>12 DEF Said
  <2> QED
    BY <1>10, <1>12, <2>1, <2>7, <2>8, <2>9
<1>13. CASE arg = "J"
  <2> DEFINE size == Size(k)
             d == Displacement(v, size)
  <2>1. at = size /\ b[size] = d /\ Offset(k, n) = size - 2 /\ size \in 2 .. 3
    <3>1. /\ Offset(k, 1) = 0
          /\ ~Gives(k, 1) => Offset(k, 2) = 0
          /\ Arg(k, 1) \in {"B", "D"} => Offset(k, 2) = 1
          /\ ~Gives(k, 1) /\ (Arg(k, 2) = "D" \/ (Arg(k, 2) = "#" /\ Arg(k, 1) # "P")) => Offset(k, 3) = 1
      BY <1>1, OffsetOf
    <3>2. CASE n = 1
      <4>1. Size(k) = 2 /\ b[2] = Displacement(Folded(ctx, ops[1]), 2)
        BY <1>13, <3>2, FormData
      <4> QED
        BY <1>6, <1>10, <1>13, <3>1, <3>2, <4>1
    <3>3. CASE n = 2 /\ Arg(k, 1) \in {"B", "D"}
      <4>1. Size(k) = 3 /\ b[3] = Displacement(Folded(ctx, ops[2]), 3)
        BY <1>13, <3>3, FormData
      <4> QED
        BY <1>6, <1>10, <1>13, <3>1, <3>3, <4>1
    <3>4. CASE n = 2 /\ Arg(k, 1) \notin {"B", "D"}
      <4>1. ~Gives(k, 1)
        BY <1>4, <1>5, <1>13, <3>4 DEF Shape
      <4>2. Size(k) = 2 /\ b[2] = Displacement(Folded(ctx, ops[2]), 2)
        BY <1>13, <3>4, <4>1, FormData
      <4> QED
        BY <1>6, <1>10, <1>13, <3>1, <3>4, <4>1, <4>2
    <3>5. CASE n = 3
      <4>1. ~Gives(k, 1) /\ (Arg(k, 2) = "D" \/ (Arg(k, 2) = "#" /\ Arg(k, 1) # "P"))
        BY <1>4, <1>5, <1>13, <3>5 DEF Shape
      <4>2. Size(k) = 3 /\ b[3] = Displacement(Folded(ctx, ops[3]), 3)
        BY <1>13, <3>5, FormData
      <4> QED
        BY <1>6, <1>10, <1>13, <3>1, <3>5, <4>1, <4>2
    <3> QED
      BY <1>8, <3>2, <3>3, <3>4, <3>5
  <2>2. Reaches(v, size)
    BY <1>3, <1>13 DEF Holds
  <2>3. (Here + size + Signed(d)) % 65536 = v % 65536 /\ Signed(d) + size = v - Here
    <3>1. d = Displacement(v, size)
      OBVIOUS
    <3> HIDE DEF d, size
    <3> QED
      BY <1>3, <2>1, <2>2, <3>1, BranchIs
  <2>4. Printed(b, k, n) = Shown(".", (Here + size + Signed(d)) % 65536, Signed(d) + 2 + Offset(k, n))
    <3>1. FieldAt(k, n) = size
      BY <1>10, <1>13, <2>1
    <3>2. Printed(b, k, n) =
            Shown(".", (Here + size + Signed(b[size])) % 65536, Signed(b[size]) + 2 + Offset(k, n))
      BY <1>13, <3>1, PrintedIs
    <3> HIDE DEF d, size
    <3> QED
      BY <2>1, <3>2
  <2>5. s = Shown(".", v % 65536, v - Here)
    BY <1>2, <1>13 DEF Said
  <2>6. Signed(d) + 2 + Offset(k, n) = v - Here
    <3>1. Signed(d) \in Int
      BY <1>3, <2>1, GasAssumption DEF Signed, Displacement
    <3> HIDE DEF d, size
    <3> QED
      BY <2>1, <2>3, <3>1
  <2>7. Printed(b, k, n) = s
    BY <2>3, <2>4, <2>5, <2>6
  <2> QED
    BY <1>10, <1>13, <2>7
<1>14. CASE arg \in {"R", "I"}
  <2>1. n \in 1 .. 2 /\ b[1] = OperationCode(p)
    <3>1. n \in 1 .. 2
      BY <1>5, <1>8, <1>14
    <3>2. Arg(k, 1) # "1"
      BY <1>4, <1>14, <3>1 DEF Shape
    <3> QED
      BY <3>1, <3>2, FormData
  <2>2. /\ arg = "R" => b[1] % 8 = NameValue(ctx, o.name)
        /\ arg = "I" => b[1] % 2 = NameValue(ctx, o.name)
    BY <2>1, FormCode
  <2>3. /\ arg = "R" => Printed(b, k, n) = Shown("R", b[1] % 8, 0)
        /\ arg = "I" => Printed(b, k, n) = Shown("I", b[1] % 2, 0)
    BY PrintedIs
  <2>4. s = Shown(arg, NameValue(ctx, o.name), 0)
    BY <1>2, <1>14 DEF Said
  <2> QED
    BY <1>10, <1>14, <2>2, <2>3, <2>4
<1>15. CASE arg \in {"A", "C", "r", "P", "@", "X", "T"}
  <2>1. Printed(b, k, n) = Shown(arg, 0, 0)
    BY <1>15, PrintedIs
  <2>2. s = Shown(arg, 0, 0)
    BY <1>2, <1>15 DEF Said
  <2> QED
    BY <1>10, <1>15, <2>1, <2>2
<1> QED
  BY <1>3, <1>5, <1>8, <1>9, <1>11, <1>12, <1>13, <1>14, <1>15

(* The row that the last line fits.                                        *)
LEMMA FormIs ==
  ASSUME last.name \in DOMAIN FirstRow, NEW k \in Forms
  PROVE  IsForm(last.ctx, last.name, last.ops, k)
<1>1. \A n \in DOMAIN Opcodes : Opcodes[n].name = last.name => n \in Rows
  BY TableIs
<1>2. k \in {n \in DOMAIN Opcodes : Opcodes[n].name = last.name}
  BY DEF Forms, RowsOf, FirstRow
<1>3. k \in Rows /\ Opcodes[k].name = last.name /\ Fits(k)
  BY <1>1, <1>2 DEF Forms
<1> QED
  BY <1>3 DEF IsForm, Fits

(* What is after the operands of a form is printed as nothing.             *)
LEMMA FormEnds ==
  ASSUME NEW ctx, NEW name, NEW ops, NEW k, IsForm(ctx, name, ops, k), NEW b,
         NEW n \in 1 .. 3, ~(n <= Len(ops))
  PROVE  Printed(b, k, ReadAt(k, n)) = Shown("N", 0, 0)
<1>1. Arg(k, n) = "N"
  BY DEF IsForm
<1>2. n \in {1, 2, 3}
  OBVIOUS
<1>3. ReadAt(k, n) = n
  BY <1>1, <1>2 DEF ReadAt, Swapped
<1> QED
  BY <1>1, <1>3, PrintedIs

LEMMA FormRead ==
  ASSUME IsContext(last.ctx), IsLine(last.ops), last.name \in DOMAIN FirstRow, NEW k \in Forms,
         NEW p, Parsed(last.ctx, last.ops, k, p), NEW b, b = Build(p)
  PROVE  DisassembleRow(b, k).ops = MeantBy(k)
<1> DEFINE Left(n) == Printed(b, k, ReadAt(k, n))
           Right(n) == IF n <= Len(last.ops) THEN CHOOSE m \in Meant(last.ctx, last.ops[n], k, n) : TRUE
                       ELSE Shown("N", 0, 0)
<1>1. IsForm(last.ctx, last.name, last.ops, k)
  BY FormIs
<1>2. DisassembleRow(b, k).ops = [n \in 1 .. 3 |-> Left(n)]
  BY DEF DisassembleRow, ReadAt, Swapped
<1>3. MeantBy(k) = [n \in 1 .. 3 |-> Right(n)]
  BY DEF MeantBy
<1>4. ASSUME NEW n \in 1 .. 3 PROVE Left(n) = Right(n)
  <2>1. CASE n <= Len(last.ops)
    <3> DEFINE s == CHOOSE m \in Meant(last.ctx, last.ops[n], k, n) : TRUE
    <3>1. Meant(last.ctx, last.ops[n], k, n) # {}
      BY <1>1, <2>1 DEF IsForm
    <3>2. s \in Meant(last.ctx, last.ops[n], k, n)
      BY <3>1
    <3>3. Right(n) = s
      BY <2>1
    <3> HIDE DEF s, Right
    <3>4. Printed(b, k, ReadAt(k, n)) = s
      BY <1>1, <2>1, <3>2, FormPrinted
    <3> QED
      BY <3>3, <3>4
  <2>2. CASE ~(n <= Len(last.ops))
    BY <1>1, <2>2, FormEnds
  <2> QED
    BY <2>1, <2>2
<1> HIDE DEF Left, Right
<1> QED
  BY <1>2, <1>3, <1>4
-----------------------------------------------------------------------------
(* Statements are counted.  The last line is what it would be alone, and   *)
(* its name, its operands and its bank are what the parser may meet.       *)
IInv ==
  /\ count \in Nat /\ IsContext(Context)
  /\ \/ last = Nothing
     \/ /\ last.name \in DOMAIN FirstRow /\ IsLine(last.ops) /\ IsContext(last.ctx)
        /\ last.bytes = Assemble(last.ctx, Cleared, last.name, last.ops)

LEMMA InitIInv == Init => IInv
<1> SUFFICES ASSUME Init PROVE IInv
  OBVIOUS
<1>1. count = 0 /\ last = Nothing /\ regbank = NoBank
  BY DEF Init
<1>2. IsContext(Context)
  BY <1>1 DEF IsContext, Context
<1> QED
  BY <1>1, <1>2 DEF IInv

LEMMA NextIInv == IInv /\ [Next]_vars => IInv'
<1> SUFFICES ASSUME IInv, [Next]_vars PROVE IInv'
  OBVIOUS
<1>1. count \in Nat /\ IsContext(Context)
  BY DEF IInv
<1>2. ASSUME NEW followed, Goes(followed) PROVE count' \in Nat
  BY <1>1, <1>2, StatementsAssumption DEF Goes
<1>3. ASSUME last' = Nothing, count' \in Nat, IsContext(Context') PROVE IInv'
  BY <1>3 DEF IInv, Nothing, Refused
<1>4. ASSUME NEW bank \in 0 .. 3, Using(bank) PROVE IInv'
  <2>1. Goes(TRUE) /\ last' = Nothing /\ regbank' = 8 * bank
    BY <1>4 DEF Using
  <2>2. IsContext(Context')
    BY <2>1 DEF IsContext, Context
  <2> QED
    BY <1>2, <1>3, <2>1, <2>2
<1>5. ASSUME NEW name \in LocalNames, Local(name) PROVE IInv'
  <2>1. Goes(TRUE) /\ last' = Nothing /\ regbank' = regbank
    BY <1>5 DEF Local
  <2>2. IsContext(Context')
    BY <1>1, <2>1 DEF IsContext, Context
  <2> QED
    BY <1>2, <1>3, <2>1, <2>2
<1>6. ASSUME count < Len(Statements), NEW name \in Statements[count + 1].names,
             NEW ops \in OperandLists(Statements[count + 1], name), Instruction(name, ops)
      PROVE  IInv'
  <2> DEFINE l == [name |-> name, ops |-> ops, ctx |-> Context,
                   bytes |-> Emit(ParseLine(Context, Globals, name, ops))]
  <2>1. /\ Goes([name |-> name, ops |-> ops] \in Followed) /\ last' = l
        /\ regbank' = regbank /\ hidden' = hidden
    BY <1>6 DEF Instruction, Assembled
  <2>2. count + 1 \in DOMAIN Statements
    BY <1>1, <1>6, StatementsAssumption
  <2>3. name \in DOMAIN FirstRow
    BY <1>6, <2>2, StatementsAssumption
  <2>4. IsLine(ops)
    BY <1>6, <2>2, OperandListIs
  <2>5. l.bytes = Assemble(l.ctx, Cleared, l.name, l.ops)
    BY <2>3, LineSame DEF Assemble
  <2>6. l.name = name /\ l.ops = ops /\ l.ctx = Context
    OBVIOUS
  <2> HIDE DEF l
  <2>7. last'.bytes = Assemble(last'.ctx, Cleared, last'.name, last'.ops)
    BY <2>1, <2>5
  <2>8. Context' = Context
    BY <2>1 DEF Context
  <2>9. last'.name \in DOMAIN FirstRow /\ IsLine(last'.ops) /\ IsContext(last'.ctx)
    BY <1>1, <2>1, <2>3, <2>4, <2>6
  <2> QED
    BY <1>1, <1>2, <2>1, <2>7, <2>8, <2>9 DEF IInv
<1>7. CASE UNCHANGED vars
  BY <1>7 DEF vars, IInv, Context
<1> QED
  BY <1>4, <1>5, <1>6, <1>7 DEF Next

(* What a line becomes depends on .using and .local before it and on       *)
(* nothing else, for any sequence of statements and operands.              *)
THEOREM LinesAlwaysIndependent == Spec => []LinesAreIndependent
<1>1. IInv => LinesAreIndependent
  <2>1. Nothing.name = ""
    BY DEF Nothing
  <2> QED
    BY <2>1 DEF IInv, LinesAreIndependent
<1> QED
  BY <1>1, InitIInv, NextIInv, PTL DEF Spec

(* A line with a form in the table is assembled: whatever came before it,  *)
(* md_assemble's scan for a row, which only goes forward, does not pass    *)
(* the form by, and no field of it is refused.                             *)
THEOREM FormAlwaysFound == Spec => []FormIsFound
<1>1. IInv => FormIsFound
  <2> SUFFICES ASSUME IInv, last.name # "", NEW k \in Forms PROVE Accepted
    BY DEF FormIsFound
  <2>1. /\ last.name \in DOMAIN FirstRow /\ IsLine(last.ops) /\ IsContext(last.ctx)
        /\ last.bytes = Assemble(last.ctx, Cleared, last.name, last.ops)
    <3>1. Nothing.name = ""
      BY DEF Nothing
    <3> QED
      BY <3>1 DEF IInv
  <2>2. last.bytes = Emit(ParseLine(last.ctx, Cleared, last.name, last.ops))
    BY <2>1 DEF Assemble
  <2>3. IsForm(last.ctx, last.name, last.ops, k)
    BY <2>1, FormIs
  <2> DEFINE p == ParseLine(last.ctx, Cleared, last.name, last.ops)
  <2>4. Emit(p) = Build(p) /\ Build(p) # Refused
    BY <2>1, <2>3, FormEmitted, Zenon
  <2> HIDE DEF p
  <2> QED
    BY <2>2, <2>4, Zenon DEF Accepted, p
<1> QED
  BY <1>1, InitIInv, NextIInv, PTL DEF Spec

(* What md_assemble emits, print_insn_i51 reads back: the name and the     *)
(* length of every line that is assembled, and every operand of one that   *)
(* has a form in the table.                                                *)
THEOREM DisassemblesAlwaysAsWritten == Spec => []DisassemblesAsWritten
<1>1. IInv => DisassemblesAsWritten
  <2> DEFINE b == last.bytes
             read == Disassemble(b)
             p == ParseLine(last.ctx, Cleared, last.name, last.ops)
  <2> SUFFICES ASSUME IInv, Accepted
               PROVE  /\ read.name = last.name /\ read.length = Len(b)
                      /\ Forms # {} => \E k \in Forms : read.ops = MeantBy(k)
    BY DEF DisassemblesAsWritten
  <2>1. last # Nothing
    <3>1. Nothing.bytes = Refused
      BY DEF Nothing
    <3> QED
      BY <3>1 DEF Accepted
  <2>2. last.name \in DOMAIN FirstRow /\ IsLine(last.ops) /\ IsContext(last.ctx)
    BY <2>1 DEF IInv
  <2>3. b = Emit(p)
    BY <2>1 DEF IInv, Assemble
  <2>4. ~p.bad /\ p.m1 = Arg(p.row, 1) /\ p.m2 = Arg(p.row, 2) /\ b = Build(p)
    <3> HIDE DEF p
    <3> QED
      BY <2>3 DEF Accepted, Emit
  <2>5. p = ParseLine(last.ctx, Cleared, last.name, last.ops)
    OBVIOUS
  <2> HIDE DEF p
  <2>6. Taken(last.name, p)
    BY <2>2, <2>4, <2>5, LineTaken
  <2>7. Len(b) = Size(p.row) /\ Decoded(b[1]) = p.row /\ Opcodes[p.row].name = last.name
    BY <2>4, <2>6, BuildDecodes DEF Taken
  <2>8. read = DisassembleRow(b, p.row)
    BY <2>7 DEF Disassemble
  <2>9. read.name = last.name /\ read.length = Len(b)
    <3>1. read.name = Opcodes[p.row].name /\ read.length = Size(p.row)
      BY <2>8 DEF DisassembleRow
    <3> QED
      BY <2>7, <3>1
  <2>10. ASSUME NEW k \in Forms PROVE read.ops = MeantBy(k)
    <3>1. IsForm(last.ctx, last.name, last.ops, k)
      BY <2>2, FormIs
    <3>2. Parsed(last.ctx, last.ops, k, p)
      BY <2>2, <2>5, <3>1, FormEmitted
    <3>3. p.row = k
      BY <3>2 DEF Parsed
    <3>4. DisassembleRow(b, k).ops = MeantBy(k)
      BY <2>2, <2>4, <3>2, FormRead
    <3> QED
      BY <2>8, <3>3, <3>4
  <2> HIDE DEF read, b
  <2> QED
    BY <2>9, <2>10
<1> QED
  BY <1>1, InitIInv, NextIInv, PTL DEF Spec
=============================================================================
