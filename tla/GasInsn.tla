------------------------------ MODULE GasInsn ------------------------------
(***************************************************************************)
(* One line of assembler source at a time: md_assemble looks for a row of  *)
(* the opcode table that its operands ask for, i51_build_ins writes the    *)
(* bytes, and print_insn_i51 reads them back.  Operands are numbers or the *)
(* names of registers; the target of a branch is an offset in the section. *)
(* Between lines the parser keeps what .using and .local set, and its      *)
(* global variables.                                                       *)
(***************************************************************************)
EXTENDS Integers, Sequences

Lists == INSTANCE SequencesExt

CONSTANTS
  Unset,          \* of an expression: X_op is O_max
  Here,           \* offset of the instruction in its section
  UserValue,      \* what a program defines a name as that it took with .local
  LocalNames,     \* the names it may take
  Statements,     \* the instructions that the n-th statement may be
  Followed        \* instructions that a statement may follow

ASSUME GasAssumption == Here \in Nat /\ UserValue \in Int /\ Unset \notin Int

VARIABLES
  regbank,   \* first register of the bank named by .using, NoBank before it
  hidden,    \* names removed from the table of operands
  hl1, hl2,  \* op1hlmode, op2hlmode
  b2b,       \* b2b_offset
  count,     \* statements so far
  last       \* the last statement and what became of it

vars == <<regbank, hidden, hl1, hl2, b2b, count, last>>

NoBank == 255
-----------------------------------------------------------------------------
(* include/opcode/i51.h.  0x80 in the size marks the last row of a name.   *)
Table == <<
  <<"acall", "1","N","N", \h82, "1", \h11, \h1F>>, <<"add", "A","R","N", \h01, "R", \h28, \hF8>>,
  <<"add", "A","I","N", \h01, "I", \h26, \hFE>>, <<"add", "A","D","N", \h02, "D", \h25, \hFF>>,
  <<"add", "A","#","N", \h82, "D", \h24, \hFF>>, <<"addc", "A","R","N", \h01, "R", \h38, \hF8>>,
  <<"addc", "A","I","N", \h01, "I", \h36, \hFE>>, <<"addc", "A","D","N", \h02, "D", \h35, \hFF>>,
  <<"addc", "A","#","N", \h82, "D", \h34, \hFF>>, <<"ajmp", "1","N","N", \h82, "1", \h01, \h1F>>,
  <<"anl", "A","R","N", \h01, "R", \h58, \hF8>>, <<"anl", "A","I","N", \h01, "I", \h56, \hFE>>,
  <<"anl", "A","D","N", \h02, "D", \h55, \hFF>>, <<"anl", "A","#","N", \h02, "D", \h54, \hFF>>,
  <<"anl", "r","B","N", \h02, "B", \h82, \hFF>>, <<"anl", "r","/","N", \h02, "B", \hB0, \hFF>>,
  <<"anl", "D","A","N", \h02, "D", \h52, \hFF>>, <<"anl", "D","#","N", \h83, "a", \h53, \hFF>>,
  <<"cjne", "A","#","J", \h03, "Z", \hB4, \hFF>>, <<"cjne", "R","#","J", \h03, "Y", \hB8, \hF8>>,
  <<"cjne", "I","#","J", \h03, "X", \hB6, \hFE>>, <<"cjne", "A","D","J", \h83, "Z", \hB5, \hFF>>,
  <<"clr", "A","N","N", \h01, "N", \hE4, \hFF>>, <<"clr", "r","N","N", \h01, "N", \hC3, \hFF>>,
  <<"clr", "B","N","N", \h82, "B", \hC2, \hFF>>, <<"cpl", "A","N","N", \h01, "N", \hF4, \hFF>>,
  <<"cpl", "r","N","N", \h01, "N", \hB3, \hFF>>, <<"cpl", "B","N","N", \h82, "B", \hB2, \hFF>>,
  <<"da", "A","N","N", \h81, "N", \hD4, \hFF>>, <<"dec", "A","N","N", \h01, "N", \h14, \hFF>>,
  <<"dec", "R","N","N", \h01, "R", \h18, \hF8>>, <<"dec", "I","N","N", \h01, "I", \h16, \hFE>>,
  <<"dec", "D","N","N", \h82, "D", \h15, \hFF>>, <<"div", "C","N","N", \h81, "N", \h84, \hFF>>,
  <<"djnz", "R","J","N", \h02, "W", \hD8, \hF8>>, <<"djnz", "D","J","N", \h83, "Z", \hD5, \hFF>>,
  <<"inc", "A","N","N", \h01, "N", \h04, \hFF>>, <<"inc", "R","N","N", \h01, "R", \h08, \hF8>>,
  <<"inc", "I","N","N", \h01, "I", \h06, \hFE>>, <<"inc", "P","N","N", \h01, "N", \hA3, \hFF>>,
  <<"inc", "D","N","N", \h82, "D", \h05, \hFF>>, <<"jb", "B","J","N", \h83, "J", \h20, \hFF>>,
  <<"jbc", "B","J","N", \h83, "J", \h10, \hFF>>, <<"jc", "J","N","N", \h82, "7", \h40, \hFF>>,
  <<"jmp", "@","N","N", \h81, "N", \h73, \hFF>>, <<"jnb", "B","J","N", \h83, "J", \h30, \hFF>>,
  <<"jnc", "J","N","N", \h82, "7", \h50, \hFF>>, <<"jnz", "J","N","N", \h82, "7", \h70, \hFF>>,
  <<"jz", "J","N","N", \h82, "7", \h60, \hFF>>, <<"lcall", "6","N","N", \h83, "6", \h12, \hFF>>,
  <<"ljmp", "6","N","N", \h83, "6", \h02, \hFF>>, <<"mov", "A","R","N", \h01, "R", \hE8, \hF8>>,
  <<"mov", "A","I","N", \h01, "I", \hE6, \hFE>>, <<"mov", "A","D","N", \h02, "D", \hE5, \hFF>>,
  <<"mov", "A","#","N", \h02, "D", \h74, \hFF>>, <<"mov", "R","A","N", \h01, "R", \hF8, \hF8>>,
  <<"mov", "R","D","N", \h02, "r", \hA8, \hF8>>, <<"mov", "R","#","N", \h02, "r", \h78, \hF8>>,
  <<"mov", "I","A","N", \h01, "I", \hF6, \hFE>>, <<"mov", "I","D","N", \h02, "r", \hA6, \hFE>>,
  <<"mov", "I","#","N", \h02, "r", \h76, \hFE>>, <<"mov", "r","B","N", \h02, "B", \hA2, \hFF>>,
  <<"mov", "P","#","N", \h03, "6", \h90, \hFF>>, <<"mov", "B","r","N", \h02, "B", \h92, \hFF>>,
  <<"mov", "D","A","N", \h02, "D", \hF5, \hFF>>, <<"mov", "D","R","N", \h02, "r", \h88, \hF8>>,
  <<"mov", "D","I","N", \h02, "r", \h86, \hFE>>, <<"mov", "D","D","N", \h03, "d", \h85, \hFF>>,
  <<"mov", "D","#","N", \h83, "a", \h75, \hFF>>, <<"movc", "A","@","N", \h01, "N", \h93, \hFF>>,
  <<"movc", "A","X","N", \h81, "N", \h83, \hFF>>, <<"movx", "A","I","N", \h01, "I", \hE2, \hFE>>,
  <<"movx", "A","T","N", \h01, "N", \hE0, \hFF>>, <<"movx", "I","A","N", \h01, "I", \hF2, \hFE>>,
  <<"movx", "T","A","N", \h81, "N", \hF0, \hFF>>, <<"mul", "C","N","N", \h81, "N", \hA4, \hFF>>,
  <<"nop", "N","N","N", \h81, "N", \h00, \hFF>>, <<"orl", "A","R","N", \h01, "R", \h48, \hF8>>,
  <<"orl", "A","I","N", \h01, "I", \h46, \hFE>>, <<"orl", "A","D","N", \h02, "D", \h45, \hFF>>,
  <<"orl", "A","#","N", \h02, "D", \h44, \hFF>>, <<"orl", "r","B","N", \h02, "B", \h72, \hFF>>,
  <<"orl", "r","/","N", \h02, "B", \hA0, \hFF>>, <<"orl", "D","A","N", \h02, "D", \h42, \hFF>>,
  <<"orl", "D","#","N", \h83, "a", \h43, \hFF>>, <<"pop", "D","N","N", \h82, "D", \hD0, \hFF>>,
  <<"push", "D","N","N", \h82, "D", \hC0, \hFF>>, <<"ret", "N","N","N", \h81, "N", \h22, \hFF>>,
  <<"reti", "N","N","N", \h81, "N", \h32, \hFF>>, <<"rl", "A","N","N", \h81, "N", \h23, \hFF>>,
  <<"rlc", "A","N","N", \h81, "N", \h33, \hFF>>, <<"rr", "A","N","N", \h81, "N", \h03, \hFF>>,
  <<"rrc", "A","N","N", \h81, "N", \h13, \hFF>>, <<"setb", "r","N","N", \h01, "N", \hD3, \hFF>>,
  <<"setb", "B","N","N", \h82, "B", \hD2, \hFF>>, <<"sjmp", "J","N","N", \h82, "7", \h80, \hFF>>,
  <<"subb", "A","R","N", \h01, "R", \h98, \hF8>>, <<"subb", "A","I","N", \h01, "I", \h96, \hFE>>,
  <<"subb", "A","D","N", \h02, "D", \h95, \hFF>>, <<"subb", "A","#","N", \h82, "D", \h94, \hFF>>,
  <<"swap", "A","N","N", \h81, "N", \hC4, \hFF>>, <<"xch", "A","R","N", \h01, "R", \hC8, \hF8>>,
  <<"xch", "A","I","N", \h01, "I", \hC6, \hFE>>, <<"xch", "A","D","N", \h82, "D", \hC5, \hFF>>,
  <<"xchd", "A","I","N", \h81, "I", \hD6, \hFE>>, <<"xrl", "A","R","N", \h01, "R", \h68, \hF8>>,
  <<"xrl", "A","I","N", \h01, "I", \h66, \hFE>>, <<"xrl", "A","D","N", \h02, "D", \h65, \hFF>>,
  <<"xrl", "A","#","N", \h02, "D", \h64, \hFF>>, <<"xrl", "D","A","N", \h02, "D", \h62, \hFF>>,
  <<"xrl", "D","#","N", \h83, "a", \h63, \hFF>>>>

Row(t) ==
  [name |-> t[1], args |-> <<t[2], t[3], t[4]>>, size |-> t[5], mreloc |-> t[6], bin |-> t[7], mask |-> t[8]]

Opcodes == [k \in DOMAIN Table |-> Row(Table[k])]

IsLast(k) == Opcodes[k].size >= 128
Arg(k, n) == Opcodes[k].args[n]

(* The rows of each name, which stand together, and the first of them      *)
(* (i51_hash).                                                             *)
RowsOf == [name \in {Opcodes[k].name : k \in DOMAIN Opcodes} |->
             {k \in DOMAIN Opcodes : Opcodes[k].name = name}]

FirstRow ==
  [name \in {Opcodes[k].name : k \in DOMAIN Opcodes} |->
     CHOOSE k \in DOMAIN Opcodes : Opcodes[k].name = name /\ (k = 1 \/ Opcodes[k - 1].name # name)]

(* A statement is of names that i51_hash has. *)
ASSUME StatementsAssumption ==
  /\ Len(Statements) \in Nat /\ DOMAIN Statements = 1 .. Len(Statements)
  /\ \A n \in DOMAIN Statements : Statements[n].names \subseteq DOMAIN FirstRow

(* i51_directop, with two of the byte registers and two of the bits. *)
Directop ==
  [o \in {"A", "AB", "C", "DPTR", "@A+DPTR", "@A+PC", "/C", "@DPTR", "P0", "ACC", "P1.1", "CY"} |->
     CASE o = "A"       -> <<"A", 0>> [] o = "AB"    -> <<"C", 0>>
       [] o = "C"       -> <<"r", 0>> [] o = "DPTR"  -> <<"P", 0>>
       [] o = "@A+DPTR" -> <<"@", 0>> [] o = "@A+PC" -> <<"X", 0>>
       [] o = "@DPTR"   -> <<"T", 0>> [] o = "/C"    -> <<"/", \hD7>>
       [] o = "P0"   -> <<"D", \h80>> [] o = "ACC"   -> <<"D", \hE0>>
       [] o = "P1.1" -> <<"B", \h91>> [] o = "CY"    -> <<"B", \hD7>>]

RegisterNames == <<"R0", "R1", "R2", "R3", "R4", "R5", "R6", "R7">>
BankedNames == <<"AR0", "AR1", "AR2", "AR3", "AR4", "AR5", "AR6", "AR7">>
IndirectNames == <<"@R0", "@R1">>

Within(names, name) == \E k \in DOMAIN names : names[k] = name
Place(names, name) == (CHOOSE k \in DOMAIN names : names[k] = name) - 1

(* The addressing mode and the number of a name. *)
Ref(name) ==
  CASE Within(RegisterNames, name) -> <<"R", Place(RegisterNames, name)>>
    [] Within(IndirectNames, name) -> <<"I", Place(IndirectNames, name)>>
    [] Within(BankedNames, name)   -> <<"U", Place(BankedNames, name)>>
    [] name \in DOMAIN Directop    -> Directop[name]

Mode(name) == IF Ref(name)[1] = "U" THEN "D" ELSE Ref(name)[1]

(* What the parser knows when it comes to a line. *)
Context == [bank |-> regbank, hidden |-> hidden]

(* The value of a name used as an operand or inside an expression, which   *)
(* fails for a register of a bank that no .using has named.                *)
NameValue(ctx, name) ==
  IF name \in ctx.hidden THEN UserValue
  ELSE IF Ref(name)[1] = "U" THEN ctx.bank + Ref(name)[2] ELSE Ref(name)[2]
NameFails(ctx, name) == name \notin ctx.hidden /\ Ref(name)[1] = "U" /\ ctx.bank = NoBank
-----------------------------------------------------------------------------
(* An operand is a name ("name"), or an expression, written plain or after *)
(* `#' or `/' ("plain", "hash", "slash"), under a prefix or none, and of a *)
(* number or of a name; bit is what follows a dot, or the offset of B2B.   *)
(* "junk" begins with `@' and is nothing.                                  *)
NoBit == -1
IsNamed(ctx, o) == o.form = "name" /\ o.name \notin ctx.hidden

(* A name of i51_directop; an operand as the line may be written, with a   *)
(* digit after the dot and an offset of B2B that is not negative, as       *)
(* i51_parse_operand1 and 2 refuse any other.                              *)
Known(name) ==
  \/ Within(RegisterNames, name) \/ Within(IndirectNames, name) \/ Within(BankedNames, name)
  \/ name \in DOMAIN Directop

IsOperand(o) ==
  /\ o.form \in {"name", "plain", "hash", "slash", "junk"}
  /\ o.prefix \in {"none", "HIGH", "LOW", "B2B"}
  /\ o.num \in Int /\ (o.name = "" \/ Known(o.name))
  /\ IF o.prefix = "B2B" THEN o.bit \in Nat ELSE o.bit \in {NoBit} \union 0 .. 7
  /\ o.form = "name" => o.name # "" /\ o.prefix = "none" /\ o.bit = NoBit

(* The third operand, the target of cjne, is a number in these lines.      *)
IsTarget(o) == IsOperand(o) /\ o.form = "plain" /\ o.name = "" /\ o.prefix = "none" /\ o.bit = NoBit

ASSUME OperandsAssumption ==
  \A n \in DOMAIN Statements :
    /\ \A o \in Statements[n].operands : IsOperand(o)
    /\ \A name \in Statements[n].names : \A o \in Statements[n].thirds[name] : IsTarget(o)

Number(ctx, o) == IF o.name = "" THEN o.num ELSE NameValue(ctx, o.name)
NumberFails(ctx, o) == o.name # "" /\ NameFails(ctx, o.name)

Between(v, low, high) == low <= v /\ v <= high

(* i51_fold_bit_suffix, and the literal path of B2B in fixup8. *)
BitAddressable(v) == Between(v, \h20, \h2F) \/ (Between(v, \h80, \hF8) /\ v % 8 = 0)
BitOf(v, bit) == IF v <= \h2F THEN (v - \h20) * 8 + bit ELSE v + bit

Dotted(o) == o.bit # NoBit /\ o.prefix # "B2B"
FoldFails(ctx, o) == Dotted(o) /\ ~BitAddressable(Number(ctx, o))
Folded(ctx, o) == IF Dotted(o) THEN BitOf(Number(ctx, o), o.bit) ELSE Number(ctx, o)

(* The loops over the rows of a name: from the row reached so far to one   *)
(* whose n-th operand is of these modes, or to the last.                   *)
Scan(k, n, modes) ==
  LET Stops(j) == Arg(j, n) \in modes \/ IsLast(j)
  IN CHOOSE j \in k .. Len(Opcodes) : Stops(j) /\ \A i \in k .. j - 1 : ~Stops(i)

(* Defective: a target is not among what an expression may be. *)
PlainModes2NoTarget == {"B", "D", "d"}

PlainModes1 == {"B", "D", "J", "1", "6"}
PlainModes2 == {"B", "D", "J", "d"}

(* The prefixes that are recognised on an operand; another is taken for a  *)
(* symbol, and what follows it for garbage.                                *)
Prefixes(o, b2bToo) ==
  CASE o.form = "hash"  -> {"none", "HIGH", "LOW"}
    [] o.form = "slash" -> {"none"}
    [] OTHER            -> {"none", "HIGH", "LOW"} \union (IF b2bToo THEN {"B2B"} ELSE {})

Recognised(o, b2bToo) == IF o.prefix \in Prefixes(o, b2bToo) THEN o.prefix ELSE "none"

ExprFails(ctx, o, b2bToo) ==
  NumberFails(ctx, o) \/ FoldFails(ctx, o) \/ o.prefix \notin Prefixes(o, b2bToo)

(* Defective: the prefix of the line before is kept. *)
ParseNamed1Kept(ctx, p, o) ==
  LET k == Scan(p.row, 1, {Mode(o.name)})
      fails == Arg(k, 1) # Mode(o.name) \/ NameFails(ctx, o.name)
      value == NameValue(ctx, o.name)
  IN [p EXCEPT !.row = k, !.m1 = Mode(o.name), !.bad = @ \/ fails,
               !.reg = IF Mode(o.name) \in {"R", "I"} THEN value ELSE @,
               !.e1 = IF Mode(o.name) \in {"D", "B"} /\ ~fails THEN value ELSE @]

(* i51_parse_operand1, on the parse so far. *)
ParseNamed1(ctx, p, o) ==
  LET mode == Mode(o.name)
      k == Scan(p.row, 1, {mode})
      fails == Arg(k, 1) # mode \/ NameFails(ctx, o.name)
  IN [p EXCEPT !.row = k, !.m1 = mode, !.hl1 = "none", !.bad = @ \/ fails,
               !.reg = IF mode \in {"R", "I"} THEN NameValue(ctx, o.name) ELSE @,
               !.e1 = IF mode \in {"D", "B"} /\ ~fails THEN NameValue(ctx, o.name) ELSE @]

ParsePlain1(ctx, p, o) ==
  LET k == Scan(p.row, 1, PlainModes1)
      prefix == Recognised(o, TRUE)
  IN [p EXCEPT !.row = k,
               !.m1 = IF IsLast(k) \/ Arg(k, 1) \notin {"B", "D"} THEN Arg(k, 1) ELSE " ",
               !.hl1 = prefix,
               !.b2b = IF prefix = "B2B" THEN o.bit ELSE @,
               !.bad = @ \/ ExprFails(ctx, o, TRUE),
               !.e1 = Folded(ctx, o)]

Parse1(ctx, p, o) ==
  IF IsNamed(ctx, o) THEN ParseNamed1(ctx, p, o)
  ELSE IF o.form \in {"name", "plain"} THEN ParsePlain1(ctx, p, o)
  ELSE [p EXCEPT !.row = Scan(p.row, 1, {"#"}), !.bad = TRUE,
                 !.hl1 = IF o.form = "hash" THEN Recognised(o, FALSE) ELSE "none"]

(* Into the first expression that the line has not given yet. *)
Give(p, value) == IF p.e1 = Unset THEN [p EXCEPT !.e1 = value] ELSE [p EXCEPT !.e2 = value]

(* i51_parse_operand2. *)
ParseNamed2(ctx, p, o) ==
  LET mode == Mode(o.name)
      k == Scan(p.row, 2, {mode})
      first == \/ Arg(k, 1) = p.m1
               \/ p.m1 = " " /\ Arg(k, 1) \in {"B", "D"}
      q == [p EXCEPT !.row = k, !.m2 = mode, !.hl2 = "none",
                     !.m1 = IF @ = " " THEN Arg(k, 1) ELSE @,
                     !.bad = @ \/ Arg(k, 2) # mode \/ ~first \/ NameFails(ctx, o.name),
                     !.reg = IF mode \in {"R", "I"} THEN NameValue(ctx, o.name) ELSE @]
  IN IF mode \in {"D", "B", "/"} THEN Give(q, NameValue(ctx, o.name)) ELSE q

ParseExpr2(ctx, p, o) ==
  LET free == p.e1 = Unset
      modes == CASE o.form = "hash" -> {"#"} [] o.form = "slash" -> {"/"} [] OTHER -> PlainModes2
      marked == CASE o.form = "hash" -> "D" [] o.form = "slash" -> "B" [] OTHER -> " "
      k == Scan(p.row, 2, modes)
      none == o.form \in {"hash", "slash"} /\ Arg(k, 2) \notin modes
      prefix == Recognised(o, free)
      q == [p EXCEPT !.row = k, !.hl2 = prefix, !.m2 = Arg(k, 2),
                     !.hl1 = IF free /\ ~none THEN prefix ELSE @,
                     !.b2b = IF prefix = "B2B" THEN o.bit ELSE @,
                     !.m1 = IF @ # " " THEN @ ELSE IF marked = " " THEN Arg(k, 1) ELSE marked,
                     !.bad = @ \/ none \/ ExprFails(ctx, o, free)]
  IN Give(q, Folded(ctx, o))

Parse2(ctx, p, o) ==
  IF IsNamed(ctx, o) THEN ParseNamed2(ctx, p, o)
  ELSE IF o.form = "junk" THEN [p EXCEPT !.bad = TRUE, !.hl2 = "none"]
  ELSE ParseExpr2(ctx, p, o)

(* md_assemble, up to the call of i51_build_ins. *)
Start(name, globals) ==
  [row |-> FirstRow[name], m1 |-> "N", m2 |-> "N", reg |-> 0, e1 |-> Unset, e2 |-> Unset,
   hl1 |-> globals.hl1, hl2 |-> globals.hl2, b2b |-> globals.b2b, bad |-> FALSE]

Refuse(p) == [p EXCEPT !.bad = TRUE]

(* After the second operand: a third, which is a number, takes the place   *)
(* of the second expression.                                               *)
ParseThird(p, ops) ==
  IF (Arg(p.row, 3) = "J") # (Len(ops) = 3) THEN Refuse(p)
  ELSE IF Len(ops) = 3 THEN [p EXCEPT !.e2 = ops[3].num] ELSE p

(* After the first. *)
ParseSecond(ctx, p, ops) ==
  IF (Arg(p.row, 2) = "N") # (Len(ops) = 1) THEN Refuse(p)
  ELSE IF Len(ops) = 1 THEN p ELSE ParseThird(Parse2(ctx, p, ops[2]), ops)

ParseOperands(ctx, p, ops) ==
  IF (Arg(p.row, 1) = "N") # (Len(ops) = 0) THEN Refuse(p)
  ELSE IF Len(ops) = 0 THEN p ELSE ParseSecond(ctx, Parse1(ctx, p, ops[1]), ops)

ParseLine(ctx, globals, name, ops) == ParseOperands(ctx, Start(name, globals), ops)
-----------------------------------------------------------------------------
(* fixup8 on a number, with the prefix written on it: whether it fits, and *)
(* the byte.                                                               *)
ByteFits(v, prefix, bit) ==
  CASE prefix = "none" -> Between(v, -128, 255)
    [] prefix = "HIGH" -> Between(v, -65536, 65535)
    [] prefix = "LOW"  -> TRUE
    [] prefix = "B2B"  -> bit <= 7 /\ BitAddressable(v)

ByteOf(v, prefix, bit) ==
  CASE prefix \in {"none", "LOW"} -> v % 256
    [] prefix = "HIGH"            -> (v \div 256) % 256
    [] prefix = "B2B"             -> BitOf(v, bit)

(* A relative branch is measured from the byte after its own, the last.    *)
Reaches(target, size) == Between(target - (Here + size), -128, 127)
Displacement(target, size) == (target - (Here + size)) % 256

(* A jump inside the page keeps the top five bits of the address after it. *)
InPage(target) == /\ Between(target, -65536, 65535)
                  /\ (target \div 2048) % 32 = ((Here + 2) \div 2048) % 32

Size(k) == Opcodes[k].size % 4

(* i51_build_ins: the operation code, with the register in it, and what    *)
(* follows it: the byte, displacement, word or page address of the first   *)
(* or of the second expression.                                            *)
OperationCode(p) ==
  LET r == Opcodes[p.row]
  IN CASE r.mreloc \in {"I", "i", "X"}      -> r.bin + (p.reg % 2)
       [] r.mreloc \in {"R", "r", "Y", "W"} -> r.bin + (p.reg % 8)
       [] OTHER                             -> r.bin

(* Defective: `mov direct,direct' in the order it is written. *)
LayoutAsWritten(mreloc) ==
  CASE mreloc \in {"N", "I", "R"}      -> <<>>
    [] mreloc \in {"D", "i", "r", "B"} -> <<"byte1">>
    [] mreloc \in {"7", "W"}           -> <<"rel1">>
    [] mreloc = "1"                    -> <<"page1">>
    [] mreloc = "6"                    -> <<"word1">>
    [] mreloc \in {"a", "d"}           -> <<"byte1", "byte2">>
    [] mreloc \in {"J", "X", "Y", "Z"} -> <<"byte1", "rel2">>

Layout(mreloc) ==
  CASE mreloc \in {"N", "I", "R"}      -> <<>>
    [] mreloc \in {"D", "i", "r", "B"} -> <<"byte1">>
    [] mreloc \in {"7", "W"}           -> <<"rel1">>
    [] mreloc = "1"                    -> <<"page1">>
    [] mreloc = "6"                    -> <<"word1">>
    [] mreloc = "a"                    -> <<"byte1", "byte2">>
    [] mreloc = "d"                    -> <<"byte2", "byte1">>
    [] mreloc \in {"J", "X", "Y", "Z"} -> <<"byte1", "rel2">>

Takes(p, field) ==
  CASE field = "byte1" -> ByteFits(p.e1, p.hl1, p.b2b)
    [] field = "byte2" -> ByteFits(p.e2, p.hl2, p.b2b)
    [] field = "rel1"  -> p.hl1 = "none" /\ Reaches(p.e1, Size(p.row))
    [] field = "rel2"  -> Reaches(p.e2, Size(p.row))
    [] field = "page1" -> p.hl1 = "none" /\ InPage(p.e1)
    [] field = "word1" -> p.hl1 = "none" /\ Between(p.e1, -65536, 65535)

Written(p, field) ==
  CASE field = "byte1" -> <<ByteOf(p.e1, p.hl1, p.b2b)>>
    [] field = "byte2" -> <<ByteOf(p.e2, p.hl2, p.b2b)>>
    [] field = "rel1"  -> <<Displacement(p.e1, Size(p.row))>>
    [] field = "rel2"  -> <<Displacement(p.e2, Size(p.row))>>
    [] field = "page1" -> <<p.e1 % 256>>
    [] field = "word1" -> <<(p.e1 \div 256) % 256, p.e1 % 256>>

Builds(p) ==
  LET fields == Layout(Opcodes[p.row].mreloc)
  IN /\ Arg(p.row, 2) = "J" => p.hl2 = "none"
     /\ \A n \in DOMAIN fields : Takes(p, fields[n])

Build(p) ==
  LET fields == Layout(Opcodes[p.row].mreloc)
      page == IF fields = <<"page1">> THEN 32 * ((p.e1 % 2048) \div 256) ELSE 0
  IN <<OperationCode(p) + page>> \o Lists!FlattenSeq([n \in DOMAIN fields |-> Written(p, fields[n])])

(* A line that is refused leaves nothing. *)
Refused == <<>>

Emit(p) ==
  IF p.bad \/ p.m1 # Arg(p.row, 1) \/ p.m2 # Arg(p.row, 2) \/ ~Builds(p) THEN Refused ELSE Build(p)

Assemble(ctx, globals, name, ops) == Emit(ParseLine(ctx, globals, name, ops))
-----------------------------------------------------------------------------
Globals == [hl1 |-> hl1, hl2 |-> hl2, b2b |-> b2b]
Cleared == [hl1 |-> "none", hl2 |-> "none", b2b |-> 0]

Nothing == [name |-> "", ops |-> <<>>, ctx |-> [bank |-> NoBank, hidden |-> {}], bytes |-> Refused]

Init ==
  /\ regbank = NoBank /\ hidden = {}
  /\ hl1 = "none" /\ hl2 = "none" /\ b2b = 0
  /\ count = 0 /\ last = Nothing

(* After a line that is not to be followed the program ends. *)
Goes(followed) ==
  /\ count < Len(Statements)
  /\ count' = IF followed THEN count + 1 ELSE Len(Statements)

(* .using *)
Using(bank) ==
  /\ Goes(TRUE)
  /\ regbank' = 8 * bank
  /\ last' = Nothing
  /\ UNCHANGED <<hidden, hl1, hl2, b2b>>

(* .local *)
Local(name) ==
  /\ Goes(TRUE)
  /\ hidden' = hidden \union {name}
  /\ last' = Nothing
  /\ UNCHANGED <<regbank, hl1, hl2, b2b>>

Assembled(name, ops, p) ==
  /\ hl1' = p.hl1 /\ hl2' = p.hl2 /\ b2b' = p.b2b
  /\ last' = [name |-> name, ops |-> ops, ctx |-> Context, bytes |-> Emit(p)]

(* md_assemble *)
Instruction(name, ops) ==
  /\ Goes([name |-> name, ops |-> ops] \in Followed)
  /\ Assembled(name, ops, ParseLine(Context, Globals, name, ops))
  /\ UNCHANGED <<regbank, hidden>>

(* The operands that a statement of this name may be given. *)
OperandLists(statement, name) ==
  LET some == statement.operands
  IN {<<>>} \union {<<a>> : a \in some} \union some \X some
       \union {<<a, b, c>> : a \in some, b \in some, c \in statement.thirds[name]}

Next ==
  \/ \E bank \in 0 .. 3 : Using(bank)
  \/ \E name \in LocalNames : Local(name)
  \/ count < Len(Statements)
     /\ \E name \in Statements[count + 1].names :
          \E ops \in OperandLists(Statements[count + 1], name) : Instruction(name, ops)

Spec == Init /\ [][Next]_vars
-----------------------------------------------------------------------------
(* opcodes/i51-dis.c.  An operand as printed: registers by letter, the     *)
(* target of a branch by its address and by its distance.                  *)
Masked(insn, mask) ==
  CASE mask = \hFF -> insn
    [] mask = \hFE -> insn - (insn % 2)
    [] mask = \hF8 -> insn - (insn % 8)
    [] mask = \h1F -> insn % 32

Decoded(insn) ==
  LET Match(k) == Masked(insn, Opcodes[k].mask) = Opcodes[k].bin
  IN CHOOSE k \in DOMAIN Opcodes : Match(k) /\ \A j \in 1 .. k - 1 : ~Match(j)

Shown(kind, value, rel) == [kind |-> kind, value |-> value, rel |-> rel]

(* The bytes that the n-th operand of a row is read from, and those before *)
(* them that count as data (offset in the source).                         *)
Width(k, n) ==
  CASE Arg(k, n) \in {"D", "B", "/", "J", "1"} -> 1
    [] Arg(k, n) = "6"                         -> 2
    [] Arg(k, n) = "#"                         -> IF Arg(k, 1) = "P" THEN 2 ELSE 1
    [] OTHER                                   -> 0

FieldAt(k, n) == CASE n = 1 -> 2 [] n = 2 -> 2 + Width(k, 1) [] n = 3 -> 2 + Width(k, 1) + Width(k, 2)

(* Defective: an immediate does not count. *)
OffsetOfData(k, n) == LET D(m) == IF m < n /\ Arg(k, m) \in {"D", "B", "/"} THEN 1 ELSE 0 IN D(1) + D(2)

Offset(k, n) ==
  LET D(m) == IF m < n /\ (Arg(k, m) \in {"D", "B", "/"} \/ (Arg(k, m) = "#" /\ Width(k, m) = 1)) THEN 1 ELSE 0
  IN D(1) + D(2)

Signed(byte) == IF byte < 128 THEN byte ELSE byte - 256

Printed(bytes, k, n) ==
  LET at == FieldAt(k, n)
      byte == bytes[at]
      word == bytes[at] * 256 + bytes[at + 1]
      insn == bytes[1]
  IN CASE Arg(k, n) \in {"D", "B"} -> Shown("mem", byte, 0)
       [] Arg(k, n) = "/"          -> Shown("/", byte, 0)
       [] Arg(k, n) = "#"          -> Shown("#", IF Width(k, n) = 2 THEN word ELSE byte, 0)
       [] Arg(k, n) = "6"          -> Shown("code", word, 0)
       [] Arg(k, n) = "1" ->
            Shown("code", (((Here + 2) \div 2048) % 32) * 2048 + (insn \div 32) * 256 + byte, 0)
       [] Arg(k, n) = "J" ->
            Shown(".", (Here + at + Signed(byte)) % 65536, Signed(byte) + 2 + Offset(k, n))
       [] Arg(k, n) = "R"          -> Shown("R", insn % 8, 0)
       [] Arg(k, n) = "I"          -> Shown("I", insn % 2, 0)
       [] OTHER                    -> Shown(Arg(k, n), 0, 0)

(* print_insn_i51: `mov direct,direct' has its source first. *)
DisassembleRow(bytes, k) ==
  LET swapped == Arg(k, 1) = "D" /\ Arg(k, 2) \in {"B", "D"}
  IN [name |-> Opcodes[k].name, length |-> Size(k),
      ops |-> [n \in 1 .. 3 |-> Printed(bytes, k, IF swapped /\ n < 3 THEN 3 - n ELSE n)]]

Disassemble(bytes) == DisassembleRow(bytes, Decoded(bytes[1]))
-----------------------------------------------------------------------------
(* What an operand is, in a row that has it as this letter: nothing, if it *)
(* cannot be that.                                                         *)
ByteMeant(kind, ctx, o) ==
  IF ~NumberFails(ctx, o) /\ ByteFits(Number(ctx, o), o.prefix, o.bit)
  THEN {Shown(kind, ByteOf(Number(ctx, o), o.prefix, o.bit), 0)} ELSE {}

BitMeant(kind, ctx, o) ==
  IF ~Dotted(o) THEN ByteMeant(kind, ctx, o)
  ELSE IF o.prefix # "none" \/ FoldFails(ctx, o) \/ NumberFails(ctx, o) THEN {}
  ELSE {Shown(kind, BitOf(Number(ctx, o), o.bit), 0)}

NameMeant(ctx, o, arg) ==
  IF Mode(o.name) # arg \/ NameFails(ctx, o.name) THEN {}
  ELSE {Shown(IF arg \in {"D", "B"} THEN "mem" ELSE arg, NameValue(ctx, o.name), 0)}

WordMeant(kind, ctx, o) ==
  IF o.prefix = "none" /\ o.bit = NoBit /\ ~NumberFails(ctx, o)
     /\ Between(Number(ctx, o), -65536, 65535)
  THEN {Shown(kind, Number(ctx, o) % 65536, 0)} ELSE {}

TargetMeant(ctx, o, k) ==
  IF o.prefix = "none" /\ o.bit = NoBit /\ ~NumberFails(ctx, o) /\ Reaches(Number(ctx, o), Size(k))
  THEN {Shown(".", Number(ctx, o) % 65536, Number(ctx, o) - Here)} ELSE {}

Meant(ctx, o, k, n) ==
  LET arg == Arg(k, n)
      plain == o.form \in {"name", "plain"}
  IN CASE IsNamed(ctx, o)                                  -> NameMeant(ctx, o, arg)
       [] ~IsNamed(ctx, o) /\ plain /\ arg = "D" /\ o.prefix # "B2B" /\ ~Dotted(o) -> ByteMeant("mem", ctx, o)
       [] ~IsNamed(ctx, o) /\ plain /\ arg = "B"           -> BitMeant("mem", ctx, o)
       [] ~IsNamed(ctx, o) /\ plain /\ arg = "J"           -> TargetMeant(ctx, o, k)
       [] ~IsNamed(ctx, o) /\ plain /\ arg = "1" /\ o.prefix = "none" /\ InPage(Number(ctx, o)) ->
            WordMeant("code", ctx, o)
       [] ~IsNamed(ctx, o) /\ plain /\ arg = "6"           -> WordMeant("code", ctx, o)
       [] o.form = "slash" /\ arg = "/" /\ o.prefix = "none" -> BitMeant("/", ctx, o)
       [] o.form = "hash" /\ arg = "#" /\ o.prefix # "B2B" /\ ~Dotted(o) ->
            IF Width(k, n) = 2 THEN WordMeant("#", ctx, o) ELSE ByteMeant("#", ctx, o)
       [] OTHER                                            -> {}

(* The rows of the name that the operands fit, each as that row has it.    *)
Fits(k) ==
  \A n \in 1 .. 3 :
    IF n <= Len(last.ops) THEN Meant(last.ctx, last.ops[n], k, n) # {} ELSE Arg(k, n) = "N"

Forms == {k \in RowsOf[last.name] : Fits(k)}

MeantBy(k) ==
  [n \in 1 .. 3 |-> IF n <= Len(last.ops) THEN CHOOSE m \in Meant(last.ctx, last.ops[n], k, n) : TRUE
                    ELSE Shown("N", 0, 0)]

Accepted == last.bytes # Refused

(* A line with a form in the opcode table is assembled into bytes that the *)
(* disassembler reads as that very line: the name, every register, number  *)
(* and address, and the target of a branch both ways it is printed.  And   *)
(* whatever is assembled, it reads as long as it is, or everything after   *)
(* it would be read out of step.                                           *)
DisassemblesAsWritten ==
  Accepted =>
    LET read == Disassemble(last.bytes)
    IN /\ read.name = last.name /\ read.length = Len(last.bytes)
       /\ Forms # {} => \E k \in Forms : read.ops = MeantBy(k)

(* A line with a form in the table is assembled: the search through the    *)
(* rows, which never goes back, does not pass it by, wherever in the table *)
(* the form stands and whichever operand decides between two.              *)
FormIsFound == last.name # "" /\ Forms # {} => Accepted

(* A line means the same wherever it stands: what it becomes depends on    *)
(* .using and .local before it, and on no prefix or bit number that an     *)
(* earlier line, refused or not, left in the parser's variables.           *)
LinesAreIndependent ==
  last.name # "" => last.bytes = Assemble(last.ctx, Cleared, last.name, last.ops)

(* What the table of operand letters at the head of i51.h says of a form:  *)
(* `A' is A, `@' is @A+DPTR, `T' is @DPTR.  An instruction is one of its   *)
(* register forms only if the line names the register.                     *)
RegistersAreNamed ==
  Accepted =>
    \A n \in DOMAIN last.ops :
      Arg(Decoded(last.bytes[1]), n) \in {"A", "C", "P", "@", "X", "T", "R", "I", "r"} =>
        IsNamed(last.ctx, last.ops[n])
=============================================================================
