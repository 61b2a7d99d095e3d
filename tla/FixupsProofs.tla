---------------------------- MODULE FixupsProofs ----------------------------
(***************************************************************************)
(* Proofs about Fixups, for all operands, offsets, passes and addresses.   *)
(* The inductive invariant follows a value through the tools: a pending    *)
(* relocation still describes its target after any number of `ld -r'       *)
(* passes, and a field the assembler finished is right already and stays   *)
(* right as the section moves.                                             *)
(***************************************************************************)
EXTENDS Fixups, TLAPS

(* A relocation waiting for the linker says where the target is. *)
Pending ==
  stage = "object" /\ reloc # "NONE" =>
    /\ ~IsFinal /\ ~Prefixed
    /\ reloc = RelocOf(op)
    /\ field = Waiting(op)
    /\ addend = (IF op.route = "local" THEN label ELSE 0) + op.add
                  - FromNextInstruction

(* A field the assembler finished: a displacement to a label of the same   *)
(* section, or a number.                                                   *)
Finished ==
  stage = "object" /\ reloc = "NONE" =>
    /\ Between(field, 0, FieldMax)
    /\ op.route \in Labels =>
         /\ op.kind = "rel" /\ op.sec = "code"
         /\ where + 1 + Signed(field) = label + op.add
    /\ op.route \in Numbers => Names(field, op.sym)

(* Nothing has moved before the assembler is done. *)
Early ==
  /\ stage = "source" => reloc = "NONE"
  /\ stage \in {"source", "fixup"} => label = op.sym /\ code = 0 /\ ram = 0
  /\ stage = "fixup" => reloc = RelocOf(op) /\ field = Waiting(op) /\ ~IsLiteral /\ ~Prefixed

IInv ==
  /\ TypeOK
  /\ op \in Operands
  /\ Early
  /\ Pending
  /\ Finished
  /\ BranchLandsOnTarget
  /\ OperandNamesTarget
  /\ RefusedHasNoEncoding

----------------------------------------------------------------------------
(* Bytes and words. *)
LEMMA ByteRange ==
  ASSUME NEW v \in Int
  PROVE  Byte(v) \in Int /\ Between(Byte(v), 0, 255)
BY DEF Byte, Between

LEMMA WordRange ==
  ASSUME NEW v \in Int
  PROVE  Word(v) \in Int /\ Between(Word(v), 0, 65535)
BY DEF Word, Between

LEMMA HighByteRange ==
  ASSUME NEW v \in Int
  PROVE  HighByte(v) \in Int /\ Between(HighByte(v), 0, 255)
<1>1. v \div 256 \in Int
  OBVIOUS
<1>2. \A w \in Int : w % 256 \in Int /\ w % 256 >= 0 /\ w % 256 <= 255
  OBVIOUS
<1>3. QED
  BY <1>1, <1>2 DEF HighByte, Between

LEMMA PageRange ==
  ASSUME NEW v \in Int
  PROVE  v % 2048 \in Int /\ Between(v % 2048, 0, 2047)
BY DEF Between

LEMMA PcodeRange ==
  ASSUME NEW f \in Nat, f <= 7, NEW a \in Int, Between(a, 0, 8191)
  PROVE  PcodeWord(f, a) \in Int /\ Between(PcodeWord(f, a), 0, 65535)
BY DEF Between, PcodeWord

LEMMA SmallByte == ASSUME NEW n \in Nat, n < 256 PROVE Byte(n) = n
BY DEF Byte

(* Numbers that agree modulo 32 differ by a multiple of 32. *)
LEMMA SameRemainder ==
  ASSUME NEW p \in Int, NEW q \in Int, p % 32 = q % 32
  PROVE  \E k \in Int : p = q + 32 * k
<1>1. p = q + 32 * ((p \div 32) - (q \div 32)) /\ (p \div 32) - (q \div 32) \in Int
  OBVIOUS
<1>2. QED
  BY <1>1

(* A displacement survives its byte. *)
LEMMA SignedByte ==
  ASSUME NEW v \in Int, Between(v, -128, 127)
  PROVE  Signed(Byte(v)) = v
BY DEF Signed, Byte, Between

(* Eleven bits are enough when the page agrees. *)
LEMMA PageTarget ==
  ASSUME NEW v \in Int, NEW at \in Int, SamePage(v, at)
  PROVE  ((at + 2) - ((at + 2) % 2048) + (v % 2048)) % 65536 = v % 65536
<1> DEFINE q == v \div 2048
           p == (at + 2) \div 2048
<1>1. q \in Int /\ p \in Int /\ v = 2048 * q + (v % 2048)
      /\ at + 2 = 2048 * p + ((at + 2) % 2048) /\ v % 2048 \in Int
  OBVIOUS
<1>2. q % 32 = p % 32
  BY DEF SamePage
<1>3. (2048 * p + (v % 2048)) % 65536 = (2048 * q + (v % 2048)) % 65536
  <2>1. PICK k \in Int : p = q + 32 * k
    BY <1>1, <1>2, SameRemainder
  <2> HIDE DEF p, q
  <2>2. 2048 * p + (v % 2048) = 2048 * q + (v % 2048) + 65536 * k
    BY <1>1, <2>1
  <2>3. \A x \in Int, j \in Int : (x + 65536 * j) % 65536 = x % 65536
    OBVIOUS
  <2>4. 2048 * q + (v % 2048) \in Int
    BY <1>1
  <2>5. QED
    BY <2>2, <2>3, <2>4
<1>4. QED
  BY <1>1, <1>3

(* A fold of a bit-addressable byte names its bit. *)
LEMMA FoldedBit ==
  ASSUME NEW b \in Int, NEW n \in Nat, n <= 7, BitAddressable(b)
  PROVE  /\ IsBit(BitAddress(b, n), n, b)
         /\ BitAddress(b, n) \in Int
         /\ Between(BitAddress(b, n), 0, 255)
BY DEF BitAddressable, BitAddress, IsBit, Between

(* No bit address folds to a byte without one, or to a bit above 7. *)
LEMMA NoSuchBit ==
  ASSUME NEW b \in Int, NEW n \in Nat, ~(n <= 7 /\ BitAddressable(b))
  PROVE  ~\E f \in 0..255 : IsBit(f, n, b)
BY DEF IsBit, BitAddressable, Between

(* Outside the page nothing fits eleven bits. *)
LEMMA OutsidePage ==
  ASSUME NEW v \in Int, NEW at \in Int, ~SamePage(v, at)
  PROVE  ~Between(v - ((at + 2) - ((at + 2) % 2048)), 0, 2047)
<1> DEFINE q == v \div 2048
           p == (at + 2) \div 2048
<1>1. q \in Int /\ p \in Int /\ v = 2048 * q + (v % 2048)
      /\ at + 2 = 2048 * p + ((at + 2) % 2048)
  OBVIOUS
<1>2. q - p # 0
  BY <1>1 DEF SamePage
<1> HIDE DEF p, q
<1>3. v % 2048 \in Nat /\ v % 2048 < 2048 /\ (at + 2) % 2048 \in Int
  OBVIOUS
<1>4. (at + 2) - ((at + 2) % 2048) = 2048 * p
  BY <1>1, <1>3
<1>5. v - 2048 * p = 2048 * (q - p) + (v % 2048)
  BY <1>1, <1>3
<1>6. \A d \in Int, r \in Nat : d # 0 /\ r < 2048 => ~Between(2048 * d + r, 0, 2047)
  BY DEF Between
<1>7. q - p \in Int
  BY <1>1
<1>8. ~Between(2048 * (q - p) + (v % 2048), 0, 2047)
  BY <1>2, <1>3, <1>6, <1>7
<1>9. QED
  BY <1>4, <1>5, <1>8

----------------------------------------------------------------------------
(* The numbers and places of an operand. *)
LEMMA OperandFacts ==
  ASSUME op \in Operands
  PROVE  /\ op.sym \in Int /\ op.add \in Int /\ op.off \in Nat
         /\ op.kind \in {"imm", "dir", "bit", "rel", "inpage", "addr16", "pcode"}
         /\ op.half \in {"none", "HIGH", "LOW", "B2B"}
         /\ op.route \in {"constant", "equated", "local", "global", "external"}
         /\ op.sec \in {"code", "ram"}
         /\ op.half = "B2B" => op.kind = "bit"
         /\ op.kind = "pcode" => op.half = "none" /\ op.off <= 7
         /\ op.route \in Numbers => op.add = 0
         /\ op.route \in Labels => op.sym \in Nat
BY OperandsAssumption DEF Operand, Kinds, Numbers, Labels

(* A number written out is stored as it reads. *)
LEMMA LiteralRight ==
  ASSUME op \in Operands, IsLiteral, ~Prefixed, LiteralFits
  PROVE  /\ LiteralField \in Int
         /\ Between(LiteralField, 0, FieldMax)
         /\ Names(LiteralField, op.sym)
<1> USE OperandFacts
<1>1. CASE op.kind = "pcode"
  <2>1. LiteralField = PcodeWord(op.off, op.sym) /\ Between(op.sym, 256, 8191)
        /\ op.half = "none" /\ op.off <= 7
    BY <1>1 DEF LiteralField, LiteralFits
  <2>2. Between(op.sym, 0, 8191)
    BY <2>1 DEF Between
  <2>3. LiteralField \in Int /\ Between(LiteralField, 0, 65535)
    BY <2>1, <2>2, PcodeRange
  <2>4. FieldMax = 65535
    BY <1>1 DEF FieldMax
  <2>5. Names(LiteralField, op.sym)
    BY <1>1, <2>1 DEF Names
  <2>6. QED
    BY <2>3, <2>4, <2>5
<1>2. CASE op.kind = "addr16"
  <2>1. LiteralField = Word(op.sym) /\ op.half = "none"
    BY <1>2 DEF LiteralField, Prefixed
  <2>2. FieldMax = 65535
    BY <1>2 DEF FieldMax
  <2>3. Names(LiteralField, op.sym)
    BY <1>2, <2>1 DEF Names
  <2>4. QED
    BY <2>1, <2>2, <2>3, WordRange
<1> DEFINE Bytes == op.kind \in {"imm", "dir", "bit"}
<1>3. CASE Bytes /\ op.half = "HIGH"
  <2>1. LiteralField = HighByte(op.sym)
    BY <1>3 DEF LiteralField
  <2>2. FieldMax = 255
    BY <1>3 DEF FieldMax
  <2>3. Names(LiteralField, op.sym)
    BY <1>3, <2>1 DEF Names, HighByte
  <2>4. QED
    BY <2>1, <2>2, <2>3, HighByteRange
<1>4. CASE Bytes /\ op.half = "B2B"
  <2>1. op.kind = "bit" /\ op.off <= 7 /\ BitAddressable(op.sym)
    BY <1>4 DEF LiteralFits
  <2>2. LiteralField = BitAddress(op.sym, op.off)
    BY <1>4, <2>1 DEF LiteralField
  <2>3. FieldMax = 255
    BY <2>1 DEF FieldMax
  <2>4. IsBit(LiteralField, op.off, op.sym) /\ LiteralField \in Int
        /\ Between(LiteralField, 0, 255)
    BY <2>1, <2>2, FoldedBit
  <2>5. Names(LiteralField, op.sym)
    BY <1>4, <2>1, <2>4 DEF Names
  <2>6. QED
    BY <2>3, <2>4, <2>5
<1>5. CASE Bytes /\ op.half \in {"none", "LOW"}
  <2>1. LiteralField = Byte(op.sym)
    BY <1>5 DEF LiteralField
  <2>2. op.half = "none" => Between(op.sym, -128, 255)
    BY <1>5 DEF LiteralFits
  <2>3. FieldMax = 255
    BY <1>5 DEF FieldMax
  <2>4. op.route = "constant"
    BY DEF IsLiteral
  <2>5. Names(LiteralField, op.sym)
    BY <1>5, <2>1, <2>2, <2>4 DEF Names, Byte, Labels
  <2>6. QED
    BY <2>1, <2>3, <2>5, ByteRange
<1>6. QED
  BY <1>1, <1>2, <1>3, <1>4, <1>5 DEF IsLiteral

(* A number refused where it is written has no encoding. *)
LEMMA LiteralRefused ==
  ASSUME op \in Operands, IsLiteral, ~Prefixed, ~LiteralFits,
         op.kind = "bit" => op.half \in {"none", "B2B"},
         NEW pc \in Int
  PROVE  NoEncoding(op.sym, pc)
<1> USE OperandFacts
<1>1. CASE op.half = "B2B"
  <2>1. op.kind = "bit"
    BY <1>1
  <2>2. ~(op.off <= 7 /\ BitAddressable(op.sym))
    BY <1>1, <2>1 DEF LiteralFits
  <2>3. ~\E f \in 0..255 : IsBit(f, op.off, op.sym)
    BY <2>2, NoSuchBit
  <2>4. QED
    BY <1>1, <2>3 DEF NoEncoding
<1>2. CASE op.half # "B2B"
  <2>1. CASE op.kind = "pcode"
    BY <2>1 DEF LiteralFits, NoEncoding
  <2>2. CASE op.half = "HIGH"
    BY <2>2 DEF LiteralFits, NoEncoding
  <2>3. CASE op.kind = "addr16"
    BY <2>3 DEF LiteralFits, NoEncoding, Prefixed
  <2>4. CASE op.kind \in {"imm", "bit"} /\ op.half = "none"
    BY <2>4 DEF LiteralFits, NoEncoding
  <2>5. CASE op.kind = "dir" /\ op.half = "none"
    <3>1. ~Between(op.sym, -128, 255)
      BY <2>5 DEF LiteralFits
    <3>2. ~Between(op.sym, 0, 127)
      BY <3>1 DEF Between
    <3>3. QED
      BY <2>5, <3>2 DEF NoEncoding
  <2>6. op.half # "LOW"
    BY <1>2 DEF LiteralFits, Prefixed
  <2>7. QED
    BY <1>2, <2>1, <2>2, <2>3, <2>4, <2>5, <2>6 DEF IsLiteral
<1>3. QED
  BY <1>1, <1>2

----------------------------------------------------------------------------
(* The relocation a fixup carries, by kind. *)
LEMMA RelocFacts ==
  ASSUME op \in Operands
  PROVE  /\ op.kind = "rel" => RelocOf(op) = "7_PCREL"
         /\ op.kind = "inpage" => RelocOf(op) = "11"
         /\ op.kind = "addr16" => RelocOf(op) = "16"
         /\ op.kind = "pcode" => RelocOf(op) = "13_PCODE"
         /\ op.half = "B2B" => RelocOf(op) = "8_B2B"
         /\ op.kind = "bit" /\ op.half # "B2B" => RelocOf(op) = "8_BIT"
         /\ op.kind \in {"imm", "dir"} /\ op.half = "HIGH" => RelocOf(op) = "H"
         /\ op.kind \in {"imm", "dir"} /\ op.half = "LOW" => RelocOf(op) = "L"
         /\ op.kind = "imm" /\ op.half = "none" => RelocOf(op) = "8_IMM"
         /\ op.kind = "dir" /\ op.half = "none" => RelocOf(op) = "8_DIR"
BY OperandFacts DEF RelocOf

(* What md_apply_fix finishes is right. *)
LEMMA FixRight ==
  ASSUME op \in Operands, IsFinal, ~IsLiteral, ~Prefixed, where \in Nat,
         reloc = RelocOf(op), field = Waiting(op), FixFits
  PROVE  /\ FixField \in Int
         /\ Between(FixField, 0, FieldMax)
         /\ op.route \in Numbers => Names(FixField, op.sym)
         /\ op.route \in Labels =>
              op.kind = "rel" /\ op.sec = "code"
                /\ Signed(FixField) = FixValue
<1> USE OperandFacts
<1> DEFINE Fixed == /\ FixField \in Int
                    /\ Between(FixField, 0, FieldMax)
                    /\ Names(FixField, op.sym)
<1>0. FixValue \in Int
  BY DEF FixValue
<1>1. CASE op.kind = "rel"
  <2>1. reloc = "7_PCREL"
    BY <1>1, RelocFacts
  <2>2. FixField = Byte(FixValue) /\ Between(FixValue, -128, 127)
    BY <2>1 DEF FixField, FixFits
  <2>3. FieldMax = 255
    BY <1>1 DEF FieldMax
  <2>4. Names(FixField, op.sym)
    BY <1>1 DEF Names
  <2>5. op.route \in Labels => op.sec = "code"
    BY DEF IsFinal, Numbers, Labels
  <2>6. QED
    BY <1>0, <1>1, <2>2, <2>3, <2>4, <2>5, ByteRange, SignedByte
<1>2. ASSUME op.kind # "rel" PROVE op.route \in Numbers /\ FixValue = op.sym
  BY <1>2 DEF IsFinal, FixValue
<1>3. ASSUME op.kind # "rel", Fixed PROVE op.route \notin Labels
  BY <1>2, <1>3 DEF Numbers, Labels
<1>4. CASE op.kind = "inpage"
  <2>1. reloc = "11"
    BY <1>4, RelocFacts
  <2>2. FixField = FixValue % 2048
    BY <2>1 DEF FixField
  <2>3. FieldMax = 2047
    BY <1>4 DEF FieldMax
  <2>4. Names(FixField, op.sym)
    BY <1>4 DEF Names
  <2>5. Fixed
    BY <1>0, <2>2, <2>3, <2>4, PageRange
  <2>6. QED
    BY <1>3, <1>4, <2>5
<1>5. CASE op.kind = "addr16"
  <2>1. reloc = "16"
    BY <1>5, RelocFacts
  <2>2. FixField = Word(FixValue) /\ op.half = "none"
    BY <1>5, <2>1 DEF FixField, Prefixed
  <2>3. FieldMax = 65535
    BY <1>5 DEF FieldMax
  <2>4. Names(FixField, op.sym)
    BY <1>5, <2>2 DEF Names
  <2>5. Fixed
    BY <1>0, <2>2, <2>3, <2>4, WordRange
  <2>6. QED
    BY <1>3, <1>5, <2>5
<1>6. CASE op.kind = "pcode"
  <2>1. reloc = "13_PCODE" /\ field = PcodeWord(op.off, 0) /\ op.off <= 7
        /\ op.half = "none"
    BY <1>6, RelocFacts DEF Waiting
  <2>2. FixField = PcodeWord(op.off, 0) + Low13(FixValue)
    BY <2>1 DEF FixField
  <2>3. Low13(FixValue) \in Int /\ Between(Low13(FixValue), 0, 8191)
    BY <1>0 DEF Low13, Between
  <2>4. FixField = PcodeWord(op.off, Low13(FixValue))
    BY <2>2, <2>3 DEF PcodeWord
  <2>5. FixField \in Int /\ Between(FixField, 0, 65535)
    BY <2>1, <2>3, <2>4, PcodeRange
  <2>6. FieldMax = 65535
    BY <1>6 DEF FieldMax
  <2>7. op.route = "equated"
    BY <1>2, <1>6 DEF IsLiteral, Numbers
  <2>8. Names(FixField, op.sym)
    BY <1>6, <2>1, <2>7 DEF Names
  <2>9. QED
    BY <1>3, <1>6, <2>5, <2>6, <2>8
<1>7. CASE op.half = "B2B"
  <2> DEFINE n == Byte(op.off)
  <2>1. op.kind = "bit" /\ reloc = "8_B2B" /\ field = n
    BY <1>7, RelocFacts DEF Waiting
  <2>n. n \in Nat
    BY ByteRange DEF Between
  <2> HIDE DEF n
  <2>2. n <= 7 /\ BitAddressable(op.sym)
    BY <1>2, <2>1 DEF FixFits
  <2>3. FixField = BitAddress(op.sym, n)
    BY <1>2, <2>1 DEF FixField
  <2>4. FieldMax = 255
    BY <2>1 DEF FieldMax
  <2>5. IsBit(FixField, n, op.sym) /\ FixField \in Int
        /\ Between(FixField, 0, 255)
    BY <2>n, <2>2, <2>3, FoldedBit
  <2>6. Names(FixField, op.sym)
    <3>1. op.off < 256 => n = op.off
      BY SmallByte DEF n
    <3>2. QED
      BY <1>7, <2>1, <2>5, <3>1 DEF Names
  <2>7. QED
    BY <1>3, <2>1, <2>4, <2>5, <2>6
<1>8. CASE op.kind \in {"imm", "dir"} /\ op.half = "HIGH"
  <2>1. reloc = "H"
    BY <1>8, RelocFacts
  <2>2. FixField = HighByte(FixValue)
    BY <2>1 DEF FixField
  <2>3. FieldMax = 255
    BY <1>8 DEF FieldMax
  <2>4. Names(FixField, op.sym)
    BY <1>2, <1>8, <2>2 DEF Names, HighByte
  <2>5. QED
    BY <1>0, <1>3, <1>8, <2>2, <2>3, <2>4, HighByteRange
<1>9. CASE op.kind \in {"imm", "dir", "bit"} /\ op.half # "B2B"
           /\ ~(op.kind \in {"imm", "dir"} /\ op.half = "HIGH")
  <2>1. reloc \in {"L", "8_DIR", "8_IMM", "8_BIT"}
    BY <1>9, RelocFacts
  <2>2. FixField = Byte(FixValue)
    BY <2>1 DEF FixField
  <2>3. FieldMax = 255
    BY <1>9 DEF FieldMax
  <2>4. op.route = "equated"
    BY <1>2, <1>9 DEF IsLiteral, Numbers
  <2>5. Names(FixField, op.sym)
    BY <1>2, <1>9, <2>2, <2>4 DEF Names, Byte, Labels
  <2>6. QED
    BY <1>0, <1>3, <1>9, <2>2, <2>3, <2>5, ByteRange
<1>10. QED
  BY <1>1, <1>4, <1>5, <1>6, <1>7, <1>8, <1>9

(* What md_apply_fix refuses has no encoding. *)
LEMMA FixRefused ==
  ASSUME op \in Operands, IsFinal, ~IsLiteral, ~Prefixed, where \in Nat,
         reloc = RelocOf(op), field = Waiting(op), ~FixFits,
         op.kind = "inpage" => op.route \in Labels,
         op.kind = "bit" => op.half \in {"none", "B2B"}
  PROVE  NoEncoding(op.sym + op.add, where)
<1> USE OperandFacts
<1>0. op.sym + op.add \in Int
  OBVIOUS
<1>1. CASE op.kind = "rel"
  <2>1. reloc = "7_PCREL"
    BY <1>1, RelocFacts
  <2>2. ~Between(FixValue, -128, 127)
    BY <2>1 DEF FixFits
  <2>3. FixValue = (op.sym + op.add) - (where + 1)
    BY <1>1 DEF FixValue
  <2>4. QED
    BY <1>1, <2>2, <2>3 DEF NoEncoding
<1>2. ASSUME op.kind # "rel"
      PROVE  op.route \in Numbers /\ FixValue = op.sym /\ op.sym + op.add = op.sym
  BY <1>2 DEF IsFinal, FixValue
<1>3. op.kind # "inpage"
  BY <1>2 DEF Numbers, Labels
<1>4. CASE op.kind = "addr16"
  <2>1. reloc = "16"
    BY <1>4, RelocFacts
  <2>2. QED
    BY <2>1 DEF FixFits
<1>5. CASE op.kind = "pcode"
  <2>1. reloc = "13_PCODE"
    BY <1>5, RelocFacts
  <2>2. ~(FixValue >= 256)
    BY <2>1 DEF FixFits
  <2>3. ~Between(op.sym, 256, 8191)
    BY <1>2, <1>5, <2>2 DEF Between
  <2>4. QED
    BY <1>2, <1>5, <2>3 DEF NoEncoding
<1>6. CASE op.half = "B2B"
  <2>1. op.kind = "bit" /\ reloc = "8_B2B" /\ field = Byte(op.off)
    BY <1>6, RelocFacts DEF Waiting
  <2>2. ~(op.off <= 7 /\ BitAddressable(op.sym))
    BY <1>2, <2>1, SmallByte DEF FixFits
  <2>3. ~\E f \in 0..255 : IsBit(f, op.off, op.sym)
    BY <2>2, NoSuchBit
  <2>4. QED
    BY <1>2, <1>6, <2>1, <2>3 DEF NoEncoding
<1>7. CASE op.kind \in {"imm", "dir"} /\ op.half = "HIGH"
  <2>1. reloc = "H"
    BY <1>7, RelocFacts
  <2>2. ~Between(FixValue, -65536, 65535)
    BY <2>1 DEF FixFits
  <2>3. QED
    BY <1>2, <1>7, <2>2 DEF NoEncoding
<1>8. CASE op.kind \in {"imm", "dir"} /\ op.half = "LOW"
  <2>1. reloc = "L"
    BY <1>8, RelocFacts
  <2>2. QED
    BY <2>1 DEF FixFits
<1>9. CASE op.kind \in {"imm", "dir", "bit"} /\ op.half = "none"
  <2>1. reloc \in {"8_IMM", "8_DIR", "8_BIT"}
    BY <1>9, RelocFacts
  <2>2. ~Between(FixValue, -256, 255)
    BY <2>1 DEF FixFits
  <2>3. ~Between(op.sym, -128, 255) /\ ~Between(op.sym, 0, 127)
    BY <1>0, <1>2, <1>9, <2>2 DEF Between
  <2>4. QED
    BY <1>2, <1>9, <2>3 DEF NoEncoding
<1>10. QED
  BY <1>1, <1>3, <1>4, <1>5, <1>6, <1>7, <1>8, <1>9

----------------------------------------------------------------------------
(* What the linker accepts of a label that is not branched to nearby. *)
LEMMA LinkRight ==
  ASSUME op \in Operands, op.route \in Labels, op.kind \notin {"rel", "inpage"},
         ~Prefixed, reloc = RelocOf(op), field = Waiting(op),
         NEW v \in Int, NEW pc \in Int, LinkFits(v, pc)
  PROVE  /\ LinkField(v, pc) \in Int
         /\ Between(LinkField(v, pc), 0, FieldMax)
         /\ Names(LinkField(v, pc), v)
<1> USE OperandFacts
<1>0. op.route # "equated"
  BY DEF Labels
<1>1. CASE op.kind = "addr16"
  <2>1. reloc = "16" /\ op.half = "none"
    BY <1>1, RelocFacts DEF Prefixed
  <2>2. LinkField(v, pc) = Word(v)
    BY <2>1 DEF LinkField
  <2>3. FieldMax = 65535
    BY <1>1 DEF FieldMax
  <2>4. Names(LinkField(v, pc), v)
    BY <1>1, <2>1 DEF Names
  <2>5. QED
    BY <2>2, <2>3, <2>4, WordRange
<1>2. CASE op.kind = "pcode"
  <2>1. reloc = "13_PCODE" /\ field = PcodeWord(op.off, 0) /\ op.off <= 7
        /\ op.half = "none"
    BY <1>2, RelocFacts DEF Waiting
  <2>2. LinkField(v, pc) = field + v
    BY <2>1 DEF LinkField
  <2>3. v = 0 \/ Between(v, 256, 8191)
    BY <2>1 DEF LinkFits
  <2>4. Between(v, 0, 8191)
    BY <2>3 DEF Between
  <2>5. LinkField(v, pc) = PcodeWord(op.off, v)
    BY <2>1, <2>2 DEF PcodeWord
  <2>6. LinkField(v, pc) \in Int /\ Between(LinkField(v, pc), 0, 65535)
    BY <2>1, <2>4, <2>5, PcodeRange
  <2>7. FieldMax = 65535
    BY <1>2 DEF FieldMax
  <2>8. Names(LinkField(v, pc), v)
    BY <1>2, <2>1, <2>3, <2>5 DEF Names
  <2>9. QED
    BY <2>6, <2>7, <2>8
<1>3. CASE op.half = "B2B"
  <2> DEFINE n == Byte(op.off)
  <2>1. op.kind = "bit" /\ reloc = "8_B2B" /\ field = n
    BY <1>3, RelocFacts DEF Waiting
  <2>2. n \in Nat /\ n \in Int /\ Between(n, 0, 255)
    BY ByteRange DEF Between
  <2>3. op.off < 256 => n = op.off
    BY SmallByte
  <2> HIDE DEF n
  <2>4. FieldMax = 255
    BY <2>1 DEF FieldMax
  <2>5. CASE v = 0
    <3>1. LinkField(v, pc) = n
      BY <2>1, <2>5 DEF LinkField
    <3>2. Names(LinkField(v, pc), v)
      BY <2>1, <2>5, <1>3 DEF Names
    <3>3. QED
      BY <2>2, <2>4, <3>1, <3>2
  <2>6. CASE v # 0
    <3>1. LinkField(v, pc) = BitAddress(v, n)
      BY <2>1, <2>6 DEF LinkField
    <3>2. BitAddressable(v) /\ n <= 7
      BY <2>1, <2>6 DEF LinkFits
    <3>3. IsBit(LinkField(v, pc), n, v) /\ LinkField(v, pc) \in Int
          /\ Between(LinkField(v, pc), 0, 255)
      BY <2>2, <3>1, <3>2, FoldedBit
    <3>4. Names(LinkField(v, pc), v)
      BY <1>3, <2>1, <2>3, <3>3 DEF Names
    <3>5. QED
      BY <2>4, <3>3, <3>4
  <2>7. QED
    BY <2>5, <2>6
<1>4. CASE op.kind \in {"imm", "dir"} /\ op.half = "HIGH"
  <2>1. reloc = "H"
    BY <1>4, RelocFacts
  <2>2. LinkField(v, pc) = HighByte(v)
    BY <2>1 DEF LinkField
  <2>3. FieldMax = 255
    BY <1>4 DEF FieldMax
  <2>4. Names(LinkField(v, pc), v)
    BY <1>4, <2>2 DEF Names, HighByte
  <2>5. QED
    BY <2>2, <2>3, <2>4, HighByteRange
<1>5. CASE op.kind \in {"imm", "dir", "bit"} /\ op.half # "B2B"
           /\ ~(op.kind \in {"imm", "dir"} /\ op.half = "HIGH")
  <2>1. reloc \in {"L", "8_DIR", "8_IMM", "8_BIT"}
    BY <1>5, RelocFacts
  <2>2. LinkField(v, pc) = Byte(v)
    BY <2>1 DEF LinkField
  <2>3. FieldMax = 255
    BY <1>5 DEF FieldMax
  <2>4. op.kind = "imm" /\ op.half = "none" => Between(v, -128, 255)
    BY RelocFacts DEF LinkFits
  <2>5. op.kind = "dir" /\ op.half = "none" => Byte(v) = v
    <3>1. op.kind = "dir" /\ op.half = "none" => Between(v, 0, 255)
      BY RelocFacts DEF LinkFits
    <3>2. QED
      BY <3>1, SmallByte DEF Between
  <2>6. Names(Byte(v), v)
    BY <1>5, <2>4, <2>5 DEF Names, Byte
  <2>7. QED
    BY <2>2, <2>3, <2>6, ByteRange
<1>6. QED
  BY <1>1, <1>2, <1>3, <1>4, <1>5

(* What it refuses of one has no encoding. *)
LEMMA LinkRefused ==
  ASSUME op \in Operands, op.route \in Labels, op.kind \notin {"rel", "inpage"},
         ~Prefixed, reloc = RelocOf(op), field = Waiting(op),
         NEW v \in Int, NEW pc \in Int, NEW at \in Int, ~LinkFits(v, pc)
  PROVE  NoEncoding(v, at)
<1> USE OperandFacts
<1>1. CASE op.kind = "pcode"
  <2>1. reloc = "13_PCODE"
    BY <1>1, RelocFacts
  <2>2. QED
    BY <1>1, <2>1 DEF LinkFits, NoEncoding
<1>2. CASE op.half = "B2B"
  <2>1. op.kind = "bit" /\ reloc = "8_B2B" /\ field = Byte(op.off)
    BY <1>2, RelocFacts DEF Waiting
  <2>2. ~(op.off <= 7 /\ BitAddressable(v))
    BY <2>1, SmallByte DEF LinkFits
  <2>3. ~\E f \in 0..255 : IsBit(f, op.off, v)
    BY <2>2, NoSuchBit
  <2>4. QED
    BY <1>2, <2>1, <2>3 DEF NoEncoding
<1>3. CASE op.kind = "imm" /\ op.half = "none"
  <2>1. reloc = "8_IMM"
    BY <1>3, RelocFacts
  <2>2. QED
    BY <1>3, <2>1 DEF LinkFits, NoEncoding
<1>4. CASE op.kind = "dir" /\ op.half = "none"
  <2>1. reloc = "8_DIR"
    BY <1>4, RelocFacts
  <2>2. ~Between(v, 0, 255)
    BY <2>1 DEF LinkFits
  <2>3. ~Between(v, 0, 127)
    BY <2>2 DEF Between
  <2>4. QED
    BY <1>4, <2>3 DEF NoEncoding
<1>5. CASE op.kind = "addr16" \/ (op.kind = "bit" /\ op.half # "B2B")
           \/ (op.kind \in {"imm", "dir"} /\ op.half \in {"HIGH", "LOW"})
  <2>1. reloc \in {"16", "8_BIT", "H", "L"}
    BY <1>5, RelocFacts
  <2>2. QED
    BY <2>1 DEF LinkFits
<1>6. QED
  BY <1>1, <1>2, <1>3, <1>4, <1>5

----------------------------------------------------------------------------
(* Small facts the steps share. *)
LEMMA RelocRange ==
  ASSUME op \in Operands
  PROVE  /\ RelocOf(op) \in Relocs \ {"NONE"}
         /\ RelocOf(op) = "8_DIR" => op.kind = "dir" /\ op.half = "none"
BY OperandFacts, RelocFacts DEF Relocs

LEMMA WaitingInt == ASSUME op \in Operands PROVE Waiting(op) \in Int
<1> USE OperandFacts
<1>1. CASE op.half = "B2B"
  BY <1>1, ByteRange DEF Waiting
<1>2. CASE op.half # "B2B"
  BY <1>2 DEF Waiting, PcodeWord
<1>3. QED
  BY <1>1, <1>2

LEMMA InOperand == op \in Operands => op \in Operand
BY OperandsAssumption

LEMMA SameOperand ==
  ASSUME op' = op
  PROVE  /\ FieldMax' = FieldMax /\ (Prefixed <=> Prefixed')
         /\ (IsLiteral <=> IsLiteral') /\ (IsFinal <=> IsFinal')
         /\ FromNextInstruction' = FromNextInstruction
BY DEF FieldMax, Prefixed, IsLiteral, IsFinal, FromNextInstruction

LEMMA InitHolds == Init => IInv
<1> SUFFICES ASSUME Init PROVE IInv
  OBVIOUS
<1> USE DEF Init
<1>1. TypeOK
  BY InOperand, OperandFacts, PlacesAssumption DEF TypeOK, Relocs
<1>2. Early /\ Pending /\ Finished
  BY DEF Early, Pending, Finished
<1>3. BranchLandsOnTarget /\ OperandNamesTarget /\ RefusedHasNoEncoding
  BY DEF BranchLandsOnTarget, OperandNamesTarget, RefusedHasNoEncoding
<1>4. QED
  BY <1>1, <1>2, <1>3 DEF IInv

LEMMA RefusePrefixStep == IInv /\ RefusePrefix => IInv'
<1> SUFFICES ASSUME IInv, RefusePrefix PROVE IInv'
  OBVIOUS
<1> USE DEF IInv, RefusePrefix
<1>1. TypeOK'
  BY DEF TypeOK
<1>2. Early' /\ Pending' /\ Finished'
  BY DEF Early, Pending, Finished
<1>3. BranchLandsOnTarget' /\ OperandNamesTarget'
  BY DEF BranchLandsOnTarget, OperandNamesTarget
<1>4. RefusedHasNoEncoding'
  BY DEF RefusedHasNoEncoding, Prefixed
<1>5. QED
  BY <1>1, <1>2, <1>3, <1>4

LEMMA WriteLiteralStep == IInv /\ WriteLiteral => IInv'
<1> SUFFICES ASSUME IInv, WriteLiteral PROVE IInv'
  OBVIOUS
<1> USE DEF IInv
<1>1. /\ stage = "source" /\ IsLiteral /\ ~Prefixed
      /\ op' = op /\ where' = where /\ label' = label /\ reloc' = reloc
      /\ addend' = addend /\ passes' = passes /\ code' = code /\ ram' = ram
      /\ label = op.sym /\ code = 0 /\ ram = 0 /\ where \in Nat
      /\ op.route = "constant"
  BY DEF WriteLiteral, Early, TypeOK, IsLiteral
<1>2. /\ FieldMax' = FieldMax
      /\ op.sym + op.add = op.sym /\ op.route \notin Labels
  BY <1>1, SameOperand, OperandFacts DEF Numbers, Labels
<1>3. CASE LiteralFits
  <2>1. stage' = "object" /\ field' = LiteralField
    BY <1>3 DEF WriteLiteral
  <2>2. field' \in Int /\ Between(field', 0, FieldMax) /\ Names(field', op.sym)
    BY <1>1, <1>3, <2>1, LiteralRight
  <2>3. TypeOK'
    BY <1>1, <2>1, <2>2 DEF TypeOK
  <2>4. Finished'
    <3>1. Names(field, op.sym)'
      BY <1>1, <2>2 DEF Names
    <3>2. Between(field, 0, FieldMax)'
      BY <1>2, <2>2 DEF Between
    <3>3. QED
      BY <1>1, <1>2, <3>1, <3>2 DEF Finished
  <2>5. Early' /\ BranchLandsOnTarget' /\ OperandNamesTarget' /\ RefusedHasNoEncoding'
    BY <2>1 DEF Early, BranchLandsOnTarget, OperandNamesTarget, RefusedHasNoEncoding
  <2>6. Pending'
    BY <1>1 DEF Pending, Early
  <2>7. QED
    BY <1>1, <2>3, <2>4, <2>5, <2>6
<1>4. CASE ~LiteralFits
  <2>1. stage' = "refused" /\ field' = field
    BY <1>4 DEF WriteLiteral
  <2>2. TypeOK'
    BY <1>1, <2>1 DEF TypeOK
  <2>3. Early' /\ Pending' /\ Finished' /\ BranchLandsOnTarget' /\ OperandNamesTarget'
    BY <2>1 DEF Early, Pending, Finished, BranchLandsOnTarget, OperandNamesTarget
  <2>4. Target' = op.sym
    BY <1>1 DEF Target, Numbers
  <2>5. ASSUME op.kind = "bit" => op.half \in {"none", "B2B"}
        PROVE  NoEncoding(op.sym, Pc')
    <3>1. Pc' \in Int
      BY <1>1 DEF Pc
    <3>2. QED
      BY <1>1, <1>4, <2>5, <3>1, LiteralRefused
  <2>6. ASSUME op.kind = "bit" => op.half \in {"none", "B2B"}
        PROVE  NoEncoding(Target, Pc)'
    BY <1>1, <2>4, <2>5, <2>6 DEF NoEncoding
  <2>7. RefusedHasNoEncoding'
    BY <1>1, <2>6 DEF RefusedHasNoEncoding
  <2>8. QED
    BY <1>1, <2>2, <2>3, <2>7
<1>5. QED
  BY <1>3, <1>4

LEMMA MakeFixupStep == IInv /\ MakeFixup => IInv'
<1> SUFFICES ASSUME IInv, MakeFixup PROVE IInv'
  OBVIOUS
<1> USE DEF IInv
<1>1. /\ stage = "source" /\ ~IsLiteral /\ ~Prefixed
      /\ op' = op /\ where' = where /\ label' = label
      /\ addend' = addend /\ passes' = passes /\ code' = code /\ ram' = ram
      /\ label = op.sym /\ code = 0 /\ ram = 0
      /\ reloc' = RelocOf(op) /\ field' = Waiting(op)
      /\ stage' \in {"fixup", "refused"}
      /\ stage' = "refused" => op.kind = "inpage" /\ op.route = "constant"
  BY DEF MakeFixup, Early
<1>2. TypeOK'
  BY <1>1, RelocRange, WaitingInt DEF TypeOK
<1>3. Early'
  BY <1>1, SameOperand DEF Early
<1>4. Pending' /\ Finished' /\ BranchLandsOnTarget' /\ OperandNamesTarget'
  BY <1>1 DEF Pending, Finished, BranchLandsOnTarget, OperandNamesTarget
<1>5. RefusedHasNoEncoding'
  BY <1>1 DEF RefusedHasNoEncoding, Labels
<1>6. QED
  BY <1>1, <1>2, <1>3, <1>4, <1>5

(* md_apply_fix. *)
LEMMA ApplyFinalFixStep == IInv /\ ApplyFinalFix => IInv'
<1> SUFFICES ASSUME IInv, ApplyFinalFix PROVE IInv'
  OBVIOUS
<1> USE DEF IInv
<1>1. /\ stage = "fixup" /\ IsFinal /\ ~IsLiteral /\ ~Prefixed
      /\ op' = op /\ where' = where /\ label' = label /\ reloc' = "NONE"
      /\ addend' = addend /\ passes' = passes /\ code' = code /\ ram' = ram
      /\ label = op.sym /\ code = 0 /\ ram = 0 /\ where \in Nat
      /\ reloc = RelocOf(op) /\ field = Waiting(op)
  BY DEF ApplyFinalFix, Early, TypeOK
<1>2. Pending'
  BY <1>1 DEF Pending
<1>3. CASE FixFits
  <2>1. stage' = "object" /\ field' = FixField
    BY <1>3 DEF ApplyFinalFix
  <2>2. /\ field' \in Int
        /\ Between(field', 0, FieldMax)
        /\ op.route \in Numbers => Names(field', op.sym)
        /\ op.route \in Labels =>
             op.kind = "rel" /\ op.sec = "code" /\ Signed(field') = FixValue
    BY <1>1, <1>3, <2>1, FixRight
  <2>3. TypeOK'
    BY <1>1, <2>1, <2>2 DEF TypeOK, Relocs
  <2>4. Finished'
    <3>1. (op.route \in Numbers => Names(field, op.sym))'
      BY <1>1, <2>2 DEF Names
    <3>2. Between(field, 0, FieldMax)'
      BY <1>1, <2>2, SameOperand DEF Between
    <3>3. (op.route \in Labels =>
             /\ op.kind = "rel" /\ op.sec = "code"
             /\ where + 1 + Signed(field) = label + op.add)'
      <4>1. op.kind = "rel" => FixValue = op.sym + op.add - (where + 1)
        BY DEF FixValue
      <4>2. Signed(field)' = Signed(field')
        BY DEF Signed
      <4>3. QED
        BY <1>1, <2>2, <4>1, <4>2, OperandFacts
    <3>4. QED
      BY <3>1, <3>2, <3>3 DEF Finished
  <2>5. Early' /\ BranchLandsOnTarget' /\ OperandNamesTarget' /\ RefusedHasNoEncoding'
    BY <2>1 DEF Early, BranchLandsOnTarget, OperandNamesTarget, RefusedHasNoEncoding
  <2>6. QED
    BY <1>1, <1>2, <2>3, <2>4, <2>5
<1>4. CASE ~FixFits
  <2>1. stage' = "refused" /\ field' = field
    BY <1>4 DEF ApplyFinalFix
  <2>2. TypeOK'
    BY <1>1, <2>1 DEF TypeOK, Relocs
  <2>3. Early' /\ Finished' /\ BranchLandsOnTarget' /\ OperandNamesTarget'
    BY <2>1 DEF Early, Finished, BranchLandsOnTarget, OperandNamesTarget
  <2>4. Target' = op.sym + op.add /\ Pc' = where
    BY <1>1, OperandFacts DEF Target, Pc
  <2>5. RefusedHasNoEncoding'
    <3>1. ASSUME op.kind = "inpage" => op.route \in Labels,
                 op.kind = "bit" => op.half \in {"none", "B2B"}
          PROVE  NoEncoding(op.sym + op.add, where)
      BY <1>1, <1>4, <3>1, FixRefused
    <3>2. ASSUME NoEncoding(op.sym + op.add, where) PROVE NoEncoding(Target, Pc)'
      BY <1>1, <2>4, <3>2 DEF NoEncoding
    <3>3. QED
      BY <1>1, <3>1, <3>2 DEF RefusedHasNoEncoding
  <2>6. QED
    BY <1>1, <1>2, <2>2, <2>3, <2>5
<1>5. QED
  BY <1>3, <1>4

(* tc_gen_reloc, after the check of direct addresses. *)
LEMMA EmitRelocStep == IInv /\ EmitReloc => IInv'
<1> SUFFICES ASSUME IInv, EmitReloc PROVE IInv'
  OBVIOUS
<1> USE DEF IInv
<1>1. /\ stage = "fixup" /\ ~IsFinal /\ ~IsLiteral /\ ~Prefixed
      /\ op' = op /\ where' = where /\ label' = label /\ reloc' = reloc
      /\ addend' = GenAddend /\ passes' = passes /\ field' = field
      /\ code' = code /\ ram' = ram
      /\ label = op.sym /\ code = 0 /\ ram = 0
      /\ reloc = RelocOf(op) /\ field = Waiting(op)
      /\ stage' \in {"object", "refused"}
      /\ stage' = "refused" => TooDeep
  BY DEF EmitReloc, Early
<1>2. TypeOK'
  <2>1. GenAddend \in Int
    BY OperandFacts DEF GenAddend, FromNextInstruction
  <2>2. QED
    BY <1>1, <2>1 DEF TypeOK
<1>3. Pending'
  <2>1. GenAddend = (IF op.route = "local" THEN label ELSE 0) + op.add
                      - FromNextInstruction
    BY <1>1 DEF GenAddend
  <2>2. QED
    BY <1>1, <2>1, SameOperand DEF Pending
<1>4. Finished'
  BY <1>1, RelocRange DEF Finished
<1>5. Early' /\ BranchLandsOnTarget' /\ OperandNamesTarget'
  BY <1>1 DEF Early, BranchLandsOnTarget, OperandNamesTarget
<1>6. RefusedHasNoEncoding'
  <2>1. SUFFICES ASSUME TooDeep PROVE NoEncoding(Target, Pc)'
    BY <1>1 DEF RefusedHasNoEncoding
  <2>2. op.kind = "dir" /\ op.half = "none" /\ op.sym + op.add >= 128
    BY <1>1, <2>1, RelocRange DEF TooDeep
  <2>3. Target' = op.sym + op.add
    BY <1>1, <2>1, OperandFacts DEF Target, TooDeep, Numbers
  <2>4. ~Between(Target', 0, 127)
    BY <2>2, <2>3, OperandFacts DEF Between
  <2>5. QED
    BY <1>1, <2>2, <2>4 DEF NoEncoding
<1>7. QED
  BY <1>1, <1>2, <1>3, <1>4, <1>5, <1>6

----------------------------------------------------------------------------
(* `ld -r' moves the instruction and the label, and the relocation or the  *)
(* finished field follows.                                                 *)
LEMMA LinkRelocatableStep ==
  ASSUME IInv, NEW dcode \in Shifts, NEW dram \in Shifts,
         LinkRelocatable(dcode, dram)
  PROVE  IInv'
<1> DEFINE delta == IF op.sec = "code" THEN dcode ELSE dram
<1> USE DEF IInv
<1>0. dcode \in Nat /\ dram \in Nat /\ delta \in Nat
  BY PlacesAssumption
<1>1. /\ stage = "object" /\ stage' = "object" /\ passes < MaxPasses
      /\ passes' = passes + 1 /\ where' = where + dcode
      /\ label' = IF op.route \in Labels THEN label + delta ELSE label
      /\ addend' = IF reloc = "NONE" THEN addend ELSE MovedAddend(delta)
      /\ op' = op /\ reloc' = reloc /\ field' = field
      /\ code' = code /\ ram' = ram
      /\ where \in Nat /\ label \in Int /\ addend \in Int
  BY DEF LinkRelocatable, TypeOK
<1> HIDE DEF delta
<1>2. TypeOK'
  <2>1. label' \in Int /\ addend' \in Int /\ where' \in Nat
    BY <1>0, <1>1 DEF MovedAddend
  <2>2. passes' \in 0..MaxPasses
    BY <1>1, PlacesAssumption DEF TypeOK
  <2>3. QED
    BY <1>1, <2>1, <2>2 DEF TypeOK
<1>3. Pending'
  <2>1. SUFFICES ASSUME reloc # "NONE" PROVE Pending'
    BY <1>1 DEF Pending
  <2>2. /\ ~IsFinal /\ ~Prefixed /\ reloc = RelocOf(op) /\ field = Waiting(op)
        /\ addend = (IF op.route = "local" THEN label ELSE 0) + op.add
                      - FromNextInstruction
    BY <1>1, <2>1 DEF Pending
  <2>3. op.route \in Labels
    BY <2>2, OperandFacts DEF IsFinal, Numbers, Labels
  <2>4. FromNextInstruction \in Int
    BY DEF FromNextInstruction
  <2>5. addend' = (IF op.route = "local" THEN label' ELSE 0) + op.add
                    - FromNextInstruction
    BY <1>0, <1>1, <2>1, <2>2, <2>3, <2>4, OperandFacts DEF MovedAddend
  <2>6. QED
    BY <1>1, <2>2, <2>5, SameOperand DEF Pending
<1>4. Finished'
  <2>1. SUFFICES ASSUME reloc = "NONE" PROVE Finished'
    BY <1>1 DEF Finished
  <2>2. /\ Between(field, 0, FieldMax)
        /\ op.route \in Labels =>
             /\ op.kind = "rel" /\ op.sec = "code"
             /\ where + 1 + Signed(field) = label + op.add
        /\ op.route \in Numbers => Names(field, op.sym)
    BY <1>1, <2>1 DEF Finished
  <2>3. Signed(field) \in Int
    BY DEF Signed, TypeOK
  <2>4. (op.route \in Labels =>
           /\ op.kind = "rel" /\ op.sec = "code"
           /\ where + 1 + Signed(field) = label + op.add)'
    <3>1. op.sec = "code" => delta = dcode
      BY DEF delta
    <3>2. Signed(field)' = Signed(field)
      BY <1>1 DEF Signed
    <3>3. QED
      BY <1>0, <1>1, <2>2, <2>3, <3>1, <3>2, OperandFacts
  <2>5. (op.route \in Numbers => Names(field, op.sym))'
    BY <1>1, <2>2 DEF Names
  <2>6. Between(field, 0, FieldMax)'
    BY <1>1, <2>2, SameOperand DEF Between
  <2>7. QED
    BY <2>4, <2>5, <2>6 DEF Finished
<1>5. Early' /\ BranchLandsOnTarget' /\ OperandNamesTarget' /\ RefusedHasNoEncoding'
  BY <1>1 DEF Early, BranchLandsOnTarget, OperandNamesTarget, RefusedHasNoEncoding
<1>6. QED
  BY <1>1, <1>2, <1>3, <1>4, <1>5

(* The final link of a field the assembler finished. *)
LEMMA LinkFinishedStep ==
  ASSUME IInv, NEW c \in CodeBases, NEW r \in RamBases, LinkFinal(c, r),
         reloc = "NONE"
  PROVE  IInv'
<1> USE DEF IInv
<1>0. c \in Nat /\ r \in Nat
  BY PlacesAssumption
<1>1. /\ stage = "object" /\ stage' = "linked" /\ field' = field
      /\ code' = c /\ ram' = r
      /\ op' = op /\ where' = where /\ label' = label /\ reloc' = reloc
      /\ addend' = addend /\ passes' = passes
      /\ where \in Nat /\ label \in Int /\ field \in Int
  BY DEF LinkFinal, LinkFits, LinkField, TypeOK
<1>2. /\ Between(field, 0, FieldMax)
      /\ op.route \in Labels =>
           /\ op.kind = "rel" /\ op.sec = "code"
           /\ where + 1 + Signed(field) = label + op.add
      /\ op.route \in Numbers => Names(field, op.sym)
  BY <1>1 DEF Finished
<1>3. Between(field, 0, FieldMax)'
  BY <1>1, <1>2, SameOperand DEF Between
<1>4. TypeOK'
  BY <1>0, <1>1, <1>3 DEF TypeOK
<1>5. Early' /\ Pending' /\ Finished' /\ RefusedHasNoEncoding'
  BY <1>1 DEF Early, Pending, Finished, RefusedHasNoEncoding
<1>6. OperandNamesTarget'
  <2>1. CASE op.route \in Numbers
    <3>1. Target' = op.sym
      BY <1>1, <2>1 DEF Target
    <3>2. QED
      BY <1>1, <1>2, <2>1, <3>1 DEF OperandNamesTarget, Names
  <2>2. CASE op.route \in Labels
    <3>1. op.kind = "rel" /\ op.half # "B2B"
      BY <1>2, <2>2, OperandFacts
    <3>2. QED
      BY <1>1, <3>1 DEF OperandNamesTarget, Names
  <2>3. QED
    BY <2>1, <2>2, OperandFacts DEF Numbers, Labels
<1>7. BranchLandsOnTarget'
  <2>1. SUFFICES ASSUME op.route \in Labels PROVE Lands' = Target'
    BY <1>1 DEF BranchLandsOnTarget
  <2>2. Target' = c + label + op.add
    BY <1>1, <1>2, <2>1 DEF Target, Numbers, Labels
  <2>3. Signed(field) \in Int /\ Signed(field)' = Signed(field)
    BY <1>1 DEF Signed
  <2>4. Lands' = c + where + 1 + Signed(field)
    BY <1>1, <1>2, <2>1, <2>3 DEF Lands, Pc
  <2>5. QED
    BY <1>0, <1>1, <1>2, <2>1, <2>2, <2>3, <2>4, OperandFacts
<1>8. QED
  BY <1>1, <1>4, <1>5, <1>6, <1>7

(* The final link of a field whose relocation is still pending. *)
LEMMA LinkPendingStep ==
  ASSUME IInv, NEW c \in CodeBases, NEW r \in RamBases, LinkFinal(c, r),
         reloc # "NONE"
  PROVE  IInv'
<1> DEFINE v == LinkValue(c, r)
           pc == c + where
<1> USE DEF IInv
<1>0. c \in Nat /\ r \in Nat
  BY PlacesAssumption
<1>1. /\ stage = "object" /\ code' = c /\ ram' = r
      /\ op' = op /\ where' = where /\ label' = label /\ reloc' = reloc
      /\ addend' = addend /\ passes' = passes
      /\ where \in Nat /\ label \in Int /\ field \in Int /\ addend \in Int
      /\ stage' = IF LinkFits(v, pc) THEN "linked" ELSE "refused"
      /\ field' = IF LinkFits(v, pc) THEN LinkField(v, pc) ELSE field
  BY DEF LinkFinal, TypeOK
<1>2. /\ ~IsFinal /\ ~Prefixed /\ reloc = RelocOf(op) /\ field = Waiting(op)
      /\ addend = (IF op.route = "local" THEN label ELSE 0) + op.add
                    - FromNextInstruction
  BY <1>1 DEF Pending
<1>3. op.route \in Labels /\ op.route \notin Numbers
  BY <1>2, OperandFacts DEF IsFinal, Numbers, Labels
<1>4. v \in Int /\ pc \in Int /\ Target' \in Int /\ Pc' = pc
      /\ v = Target' - FromNextInstruction
  <2>1. Target' = (IF op.sec = "code" THEN c ELSE r) + label + op.add
    BY <1>1, <1>3 DEF Target
  <2>2. v = (IF op.sec = "code" THEN c ELSE r)
              + (IF op.route = "local" THEN 0 ELSE label) + addend
    BY DEF LinkValue
  <2>3. FromNextInstruction \in Int
    BY DEF FromNextInstruction
  <2>4. Pc' = pc /\ pc \in Int
    BY <1>0, <1>1 DEF Pc
  <2>5. QED
    BY <1>0, <1>1, <1>2, <2>1, <2>2, <2>3, <2>4, OperandFacts
<1> HIDE DEF v, pc
<1>5. op.kind # "rel" => v = Target'
  <2>1. op.kind # "rel" => FromNextInstruction = 0
    BY DEF FromNextInstruction
  <2>2. \A t \in Int : t - 0 = t
    OBVIOUS
  <2>3. QED
    BY <1>4, <2>1, <2>2
<1>6. Early' /\ Pending' /\ Finished'
  BY <1>1 DEF Early, Pending, Finished
<1>7. CASE ~LinkFits(v, pc)
  <2>1. stage' = "refused" /\ field' = field
    BY <1>1, <1>7
  <2>2. TypeOK'
    BY <1>0, <1>1, <2>1 DEF TypeOK
  <2>3. BranchLandsOnTarget' /\ OperandNamesTarget'
    BY <2>1 DEF BranchLandsOnTarget, OperandNamesTarget
  <2>4. NoEncoding(Target', pc)
    <3>1. CASE op.kind = "rel"
      <4>1. ~Between(v - pc, -128, 127)
        BY <1>2, <1>7, <3>1, RelocFacts DEF LinkFits
      <4>2. v - pc = Target' - (pc + 1)
        BY <1>4, <3>1 DEF FromNextInstruction
      <4>3. QED
        BY <3>1, <4>1, <4>2 DEF NoEncoding
    <3>2. CASE op.kind = "inpage"
      <4>1. ~SamePage(v, pc)
        BY <1>2, <1>7, <3>2, RelocFacts DEF LinkFits
      <4>2. QED
        BY <1>4, <1>5, <3>2, <4>1, OutsidePage DEF NoEncoding
    <3>3. CASE op.kind \notin {"rel", "inpage"}
      BY <1>2, <1>3, <1>4, <1>5, <1>7, <3>3, LinkRefused
    <3>4. QED
      BY <3>1, <3>2, <3>3
  <2>5. RefusedHasNoEncoding'
    BY <1>1, <1>4, <2>4 DEF RefusedHasNoEncoding, NoEncoding
  <2>6. QED
    BY <1>1, <1>6, <2>2, <2>3, <2>5
<1>8. CASE LinkFits(v, pc)
  <2>1. stage' = "linked" /\ field' = LinkField(v, pc)
    BY <1>1, <1>8
  <2>2. RefusedHasNoEncoding'
    BY <2>1 DEF RefusedHasNoEncoding
  <2>3. /\ field' \in Int /\ Between(field', 0, FieldMax)
        /\ Names(field', Target')
        /\ op.kind \in {"rel", "inpage", "addr16"} =>
             Lands' % 65536 = Target' % 65536
    <3>1. CASE op.kind = "rel"
      <4>1. field' = Byte(v - pc) /\ Between(v - pc, -128, 127)
        BY <1>2, <1>8, <2>1, <3>1, RelocFacts DEF LinkFits, LinkField
      <4>2. v - pc \in Int /\ FieldMax = 255
        BY <1>4, <3>1 DEF FieldMax
      <4>3. Signed(field)' = v - pc
        <5>1. Signed(field') = v - pc
          BY <4>1, <4>2, SignedByte
        <5>2. QED
          BY <5>1 DEF Signed
      <4>4. Lands' = pc + 1 + (v - pc)
        BY <1>1, <1>4, <3>1, <4>3 DEF Lands
      <4>5. Lands' = Target'
        <5>1. FromNextInstruction = 1
          BY <3>1 DEF FromNextInstruction
        <5>2. \A t \in Int, q \in Int : q + 1 + ((t - 1) - q) = t
          OBVIOUS
        <5>3. QED
          BY <1>4, <4>4, <5>1, <5>2
      <4>6. Names(field', Target')
        BY <3>1, OperandFacts DEF Names
      <4>7. QED
        BY <4>1, <4>2, <4>5, <4>6, ByteRange
    <3>2. CASE op.kind = "inpage"
      <4>1. field' = v % 2048 /\ SamePage(v, pc)
        BY <1>2, <1>8, <2>1, <3>2, RelocFacts DEF LinkFits, LinkField
      <4>2. FieldMax = 2047
        BY <3>2 DEF FieldMax
      <4>3. Lands' = (pc + 2) - ((pc + 2) % 2048) + field'
        BY <1>1, <1>4, <3>2 DEF Lands
      <4>4. Lands' % 65536 = Target' % 65536
        BY <1>4, <1>5, <3>2, <4>1, <4>3, PageTarget
      <4>5. Names(field', Target')
        BY <3>2, OperandFacts DEF Names
      <4>6. QED
        BY <1>4, <4>1, <4>2, <4>4, <4>5, PageRange
    <3>3. CASE op.kind \notin {"rel", "inpage"}
      <4>1. field' \in Int /\ Between(field', 0, FieldMax) /\ Names(field', Target')
        BY <1>2, <1>3, <1>4, <1>5, <1>8, <2>1, <3>3, LinkRight
      <4>2. ASSUME op.kind = "addr16" PROVE Lands' % 65536 = Target' % 65536
        <5>1. field' = Word(v)
          BY <1>2, <2>1, <4>2, RelocFacts DEF LinkField
        <5>2. Lands' = Word(v)
          BY <1>1, <4>2, <5>1 DEF Lands
        <5>3. Word(v) % 65536 = v % 65536
          BY <1>4 DEF Word
        <5>4. QED
          BY <1>5, <4>2, <5>2, <5>3
      <4>3. QED
        BY <3>3, <4>1, <4>2
    <3>4. QED
      BY <3>1, <3>2, <3>3
  <2>4. Between(field, 0, FieldMax)'
    BY <1>1, <2>3, SameOperand DEF Between
  <2>5. TypeOK'
    BY <1>0, <1>1, <2>1, <2>3, <2>4 DEF TypeOK
  <2>6. BranchLandsOnTarget' /\ OperandNamesTarget'
    BY <1>1, <2>3 DEF BranchLandsOnTarget, OperandNamesTarget, Names
  <2>7. QED
    BY <1>1, <1>6, <2>2, <2>5, <2>6
<1>9. QED
  BY <1>7, <1>8

----------------------------------------------------------------------------
LEMMA StutterStep == IInv /\ UNCHANGED vars => IInv'
<1> SUFFICES ASSUME IInv, UNCHANGED vars PROVE IInv'
  OBVIOUS
<1> USE DEF IInv
<1>1. /\ op' = op /\ stage' = stage /\ where' = where /\ label' = label
      /\ reloc' = reloc /\ addend' = addend /\ passes' = passes
      /\ field' = field /\ code' = code /\ ram' = ram
  BY DEF vars
<1>2. TypeOK'
  BY <1>1, SameOperand DEF TypeOK, Between
<1>3. Early' /\ Pending'
  BY <1>1, SameOperand DEF Early, Pending
<1>4. Finished'
  BY <1>1, SameOperand DEF Finished, Names, Signed, Between
<1>5. BranchLandsOnTarget' /\ OperandNamesTarget'
  BY <1>1 DEF BranchLandsOnTarget, OperandNamesTarget, Names, Lands, Target, Pc, Signed
<1>6. RefusedHasNoEncoding'
  BY <1>1, SameOperand DEF RefusedHasNoEncoding, NoEncoding, Target, Pc
<1>7. QED
  BY <1>1, <1>2, <1>3, <1>4, <1>5, <1>6

(* Every step keeps the invariant. *)
THEOREM IInvCorrect == Spec => []IInv
<1>1. IInv /\ [Next]_vars => IInv'
  <2> SUFFICES ASSUME IInv, [Next]_vars PROVE IInv'
    OBVIOUS
  <2>1. CASE RefusePrefix
    BY <2>1, RefusePrefixStep
  <2>2. CASE WriteLiteral
    BY <2>2, WriteLiteralStep
  <2>3. CASE MakeFixup
    BY <2>3, MakeFixupStep
  <2>4. CASE ApplyFinalFix
    BY <2>4, ApplyFinalFixStep
  <2>5. CASE EmitReloc
    BY <2>5, EmitRelocStep
  <2>6. CASE \E dcode \in Shifts, dram \in Shifts : LinkRelocatable(dcode, dram)
    BY <2>6, LinkRelocatableStep
  <2>7. CASE \E c \in CodeBases, r \in RamBases : LinkFinal(c, r)
    BY <2>7, LinkFinishedStep, LinkPendingStep
  <2>8. CASE UNCHANGED vars
    BY <2>8, StutterStep
  <2>9. QED
    BY <2>1, <2>2, <2>3, <2>4, <2>5, <2>6, <2>7, <2>8 DEF Next
<1>2. QED
  BY <1>1, InitHolds, PTL DEF Spec

(* Types, and a linked field that never exceeds its bits. *)
THEOREM TypeCorrect == Spec => []TypeOK
<1>1. IInv => TypeOK
  BY DEF IInv
<1>2. QED
  BY <1>1, IInvCorrect, PTL

(* Every accepted branch to a label lands on the label: for any operand,   *)
(* any layout and any number of `ld -r' passes.                            *)
THEOREM BranchAlwaysLands == Spec => []BranchLandsOnTarget
<1>1. IInv => BranchLandsOnTarget
  BY DEF IInv
<1>2. QED
  BY <1>1, IInvCorrect, PTL

(* Every accepted operand of another kind names what the source names. *)
THEOREM OperandAlwaysNamesTarget == Spec => []OperandNamesTarget
<1>1. IInv => OperandNamesTarget
  BY DEF IInv
<1>2. QED
  BY <1>1, IInvCorrect, PTL

(* Nothing that could be encoded is refused. *)
THEOREM AlwaysRefusedHasNoEncoding == Spec => []RefusedHasNoEncoding
<1>1. IInv => RefusedHasNoEncoding
  BY DEF IInv
<1>2. QED
  BY <1>1, IInvCorrect, PTL
============================================================================
