------------------------------- MODULE Fixups -------------------------------
(***************************************************************************)
(* One operand of one instruction, from the source to the linked image.    *)
(* The value of an operand may be known when the operand is parsed, only   *)
(* when the assembler applies its fixups, or only in the linker; each of   *)
(* the three has its own code to range-check, fold and store it            *)
(* (fixup8/11/16, md_apply_fix, i51_final_link_relocate).  Between the     *)
(* assembler and the final link any number of `ld -r' passes may move the  *)
(* instruction and its target.                                             *)
(*                                                                         *)
(* An operand is a number, known at once ("constant") or through a symbol  *)
(* equated further down ("equated"), or a label: of this file and private  *)
(* to it ("local"), exported ("global"), or of another file ("external").  *)
(* Offsets of labels are relative to their section until the final link.   *)
(*                                                                         *)
(* An operator marked "defective" is a slip the code could have made in    *)
(* the definition after it; it is there to test the properties with.       *)
(***************************************************************************)
EXTENDS Integers

CONSTANTS
  Operands,   \* the operands a source may contain
  Offsets,    \* where in its section the operand's field may lie
  Shifts,     \* how far one `ld -r' may move a section in its output
  MaxPasses,  \* bound on the number of `ld -r' passes
  CodeBases,  \* addresses the final link may give the instruction's section
  RamBases    \* and the section of data labels

Kinds == {"imm", "dir", "bit", "rel", "inpage", "addr16", "pcode"}
Numbers == {"constant", "equated"}
Labels == {"local", "global", "external"}

(* sym is the number, or the offset of the label; add is added to a label; *)
(* off is the bit number of B2B (), or the flags of a .pcode word.         *)
Operand ==
  [kind : Kinds, half : {"none", "HIGH", "LOW", "B2B"},
   route : Numbers \union Labels, sec : {"code", "ram"},
   sym : Int, add : Int, off : Nat]

(* What the parser lets through: B2B where a bit is expected, no prefix on *)
(* the address of a .pcode entry, three flag bits there, and nothing added *)
(* to a number that is not part of it already.                             *)
ASSUME OperandsAssumption ==
  /\ Operands \subseteq Operand
  /\ \A o \in Operands :
       /\ o.half = "B2B" => o.kind = "bit"
       /\ o.kind = "pcode" => o.half = "none" /\ o.off \in 0..7
       /\ o.route \in Numbers => o.add = 0
       /\ o.route \in Labels => o.sym \in Nat

ASSUME PlacesAssumption ==
  /\ Offsets \subseteq Nat /\ Shifts \subseteq Nat /\ MaxPasses \in Nat
  /\ CodeBases \subseteq Nat /\ RamBases \subseteq Nat

VARIABLES
  op,      \* the operand
  stage,   \* "source", "fixup", "object", "linked" or "refused"
  where,   \* offset of the field in its section
  label,   \* offset of the label in its section, as passes move it
  reloc,   \* the relocation pending on the field, or "NONE"
  addend,  \* its addend
  passes,  \* `ld -r' passes so far
  field,   \* the field as stored
  code,    \* final address of the instruction's section
  ram      \* final address of the data section

vars == <<op, stage, where, label, reloc, addend, passes, field, code, ram>>

Init ==
  /\ op \in Operands
  /\ stage = "source"
  /\ where \in Offsets
  /\ label = op.sym
  /\ reloc = "NONE"
  /\ addend = 0
  /\ passes = 0
  /\ field = 0
  /\ code = 0
  /\ ram = 0

----------------------------------------------------------------------------
Between(v, low, high) == low <= v /\ v <= high

(* Defective: a byte is stored with what does not fit in it. *)
Untruncated(v) == v

(* Storing: what the field keeps of a value. *)
Byte(v) == v % 256
Word(v) == v % 65536
HighByte(v) == (v \div 256) % 256

Low13(v) == v % 8192

(* A .pcode word: three flag bits over a 13-bit address. *)
PcodeWord(flags, address) == (flags * 8192) + address

(* Defective: any special function register. *)
AnyRegister(b) == Between(b, 32, 47) \/ Between(b, 128, 248)

(* The bytes with bit addresses, and the address of one of their bits. *)
BitAddressable(b) == Between(b, 32, 47) \/ (Between(b, 128, 248) /\ b % 8 = 0)
BitAddress(b, n) == IF b < 48 THEN (b - 32) * 8 + n ELSE b + n

(* Defective: the page of the instruction itself. *)
PageOfField(a, at) == (a \div 2048) % 32 = (at \div 2048) % 32

(* A jump inside the page takes the top five bits of its target from the   *)
(* instruction after it, two bytes past the field.                         *)
SamePage(a, at) == (a \div 2048) % 32 = ((at + 2) \div 2048) % 32

(* i51_build_ins: a whole address has no half. *)
Prefixed == op.kind \in {"rel", "inpage", "addr16"} /\ op.half # "none"

RefusePrefix ==
  /\ stage = "source"
  /\ Prefixed
  /\ stage' = "refused"
  /\ UNCHANGED <<op, where, label, reloc, addend, passes, field, code, ram>>

(* A number written out is stored by fixup8, fixup16 or i51_pcode.  Jumps  *)
(* inside the page and relative ones always make a fixup.                  *)
LiteralFits ==
  /\ op.kind = "pcode" => Between(op.sym, 256, 8191)
  /\ op.kind = "addr16" \/ op.half = "HIGH" => Between(op.sym, -65536, 65535)
  /\ op.half = "B2B" => op.off <= 7 /\ BitAddressable(op.sym)
  /\ op.kind \in {"imm", "dir", "bit"} /\ op.half = "none" => Between(op.sym, -128, 255)

LiteralField ==
  CASE op.kind = "pcode"                          -> PcodeWord(op.off, op.sym)
    [] op.kind = "addr16"                         -> Word(op.sym)
    [] op.kind \in {"imm", "dir", "bit"} /\ op.half = "HIGH" -> HighByte(op.sym)
    [] op.half = "B2B"                            -> BitAddress(op.sym, op.off)
    [] op.kind \in {"imm", "dir", "bit"} /\ op.half \in {"none", "LOW"} -> Byte(op.sym)

IsLiteral == op.route = "constant" /\ op.kind \notin {"rel", "inpage"}

WriteLiteral ==
  /\ stage = "source"
  /\ IsLiteral /\ ~Prefixed
  /\ stage' = IF LiteralFits THEN "object" ELSE "refused"
  /\ field' = IF LiteralFits THEN LiteralField ELSE field
  /\ UNCHANGED <<op, where, label, reloc, addend, passes, code, ram>>

(* The relocation the kind and the prefix of an operand ask for. *)
RelocOf(o) ==
  CASE o.kind = "rel"                                   -> "7_PCREL"
    [] o.kind = "inpage"                                -> "11"
    [] o.kind = "addr16"                                -> "16"
    [] o.kind = "pcode"                                 -> "13_PCODE"
    [] o.kind = "bit" /\ o.half = "B2B"                 -> "8_B2B"
    [] o.kind = "bit" /\ o.half # "B2B"                 -> "8_BIT"
    [] o.kind \in {"imm", "dir"} /\ o.half = "HIGH"     -> "H"
    [] o.kind \in {"imm", "dir"} /\ o.half = "LOW"      -> "L"
    [] o.kind = "imm" /\ o.half \notin {"HIGH", "LOW"}  -> "8_IMM"
    [] OTHER                                            -> "8_DIR"

(* What a field holds until its value is known: a byte of the bit number.  *)
Waiting(o) ==
  CASE o.half = "B2B"   -> Byte(o.off)
    [] o.kind = "pcode" -> PcodeWord(o.off, 0)
    [] OTHER            -> 0

MakeFixup ==
  /\ stage = "source"
  /\ ~IsLiteral /\ ~Prefixed
  /\ LET fits == op.kind = "inpage" /\ op.route = "constant"
                   => Between(op.sym, -65536, 65535)
     IN  stage' = IF fits THEN "fixup" ELSE "refused"
  /\ reloc' = RelocOf(op)
  /\ field' = Waiting(op)
  /\ UNCHANGED <<op, where, label, addend, passes, code, ram>>

----------------------------------------------------------------------------
(* md_apply_fix is final for a number, and for a branch to a label of this *)
(* file in this very section.                                              *)
IsFinal ==
  \/ op.route \in Numbers
  \/ op.kind = "rel" /\ op.route \in {"local", "global"} /\ op.sec = "code"

(* The finished value: gas has subtracted the address a displacement is    *)
(* measured from (md_pcrel_from_section).                                  *)
FixValue == op.sym + op.add - (IF op.kind = "rel" THEN where + 1 ELSE 0)

FixFits ==
  /\ reloc = "H" => Between(FixValue, -65536, 65535)
  /\ reloc \in {"8_DIR", "8_IMM", "8_BIT"} => Between(FixValue, -256, 255)
  /\ reloc = "7_PCREL" => Between(FixValue, -128, 127)
  /\ reloc = "11" => SamePage(FixValue, where)
  /\ reloc = "8_B2B" => field <= 7 /\ BitAddressable(FixValue)
  /\ reloc = "13_PCODE" => FixValue >= 256

FixField ==
  CASE reloc = "H"                                             -> HighByte(FixValue)
    [] reloc = "16"                                            -> Word(FixValue)
    [] reloc = "11"                                            -> FixValue % 2048
    [] reloc = "8_B2B"                                         -> BitAddress(FixValue, field)
    [] reloc = "13_PCODE"                                      -> field + Low13(FixValue)
    [] reloc \in {"L", "8_DIR", "8_IMM", "8_BIT", "7_PCREL"}   -> Byte(FixValue)

ApplyFinalFix ==
  /\ stage = "fixup"
  /\ IsFinal
  /\ stage' = IF FixFits THEN "object" ELSE "refused"
  /\ field' = IF FixFits THEN FixField ELSE field
  /\ reloc' = "NONE"
  /\ UNCHANGED <<op, where, label, addend, passes, code, ram>>

(* i51_check_direct: a label of this file so deep in its section that no   *)
(* placement leaves it within reach of a direct address.                   *)
TooDeep == reloc = "8_DIR" /\ op.route \in {"local", "global"}
           /\ op.sym + op.add >= 128

(* Defective: a displacement measured from its own field. *)
FromTheField == 0

(* tc_gen_reloc measures a displacement from the following instruction. *)
FromNextInstruction == IF op.kind = "rel" THEN 1 ELSE 0

(* gas puts a private label's offset in the addend and names the section;  *)
(* any other label stays named.                                            *)
GenAddend ==
  (IF op.route = "local" THEN op.sym ELSE 0) + op.add - FromNextInstruction

EmitReloc ==
  /\ stage = "fixup"
  /\ ~IsFinal
  /\ stage' = IF TooDeep THEN "refused" ELSE "object"
  /\ addend' = GenAddend
  /\ UNCHANGED <<op, where, label, reloc, passes, field, code, ram>>

----------------------------------------------------------------------------
(* Defective: the addend does not follow its section. *)
AddendStays(delta) == addend

(* elf32_i51_relocate_section, relocatable: only the addend of a           *)
(* relocation against a section follows the section.                       *)
MovedAddend(delta) == addend + (IF op.route = "local" THEN delta ELSE 0)

LinkRelocatable(dcode, dram) ==
  LET delta == IF op.sec = "code" THEN dcode ELSE dram IN
  /\ stage = "object"
  /\ passes < MaxPasses
  /\ passes' = passes + 1
  /\ where' = where + dcode
  /\ label' = IF op.route \in Labels THEN label + delta ELSE label
  /\ addend' = IF reloc = "NONE" THEN addend ELSE MovedAddend(delta)
  /\ UNCHANGED <<op, stage, reloc, field, code, ram>>

(* The value of the relocation in the final link, its sections at c and r. *)
LinkValue(c, r) ==
  (IF op.sec = "code" THEN c ELSE r)
    + (IF op.route = "local" THEN 0 ELSE label) + addend

LinkFits(v, pc) ==
  /\ reloc = "7_PCREL" => Between(v - pc, -128, 127)
  /\ reloc = "11" => SamePage(v, pc)
  /\ reloc = "8_B2B" => v = 0 \/ (BitAddressable(v) /\ field <= 7)
  /\ reloc = "13_PCODE" => v = 0 \/ Between(v, 256, 8191)
  /\ reloc = "8_IMM" => Between(v, -128, 255)
  /\ reloc = "8_DIR" => Between(v, 0, 255)

LinkField(v, pc) ==
  CASE reloc = "7_PCREL"                        -> Byte(v - pc)
    [] reloc = "11"                             -> v % 2048
    [] reloc = "8_B2B"                          -> IF v = 0 THEN field ELSE BitAddress(v, field)
    [] reloc = "13_PCODE"                       -> field + v
    [] reloc = "16"                             -> Word(v)
    [] reloc = "H"                              -> HighByte(v)
    [] reloc \in {"8_IMM", "8_DIR", "8_BIT", "L"} -> Byte(v)
    [] reloc = "NONE"                           -> field

LinkFinal(c, r) ==
  LET v == LinkValue(c, r)
      fits == LinkFits(v, c + where)
  IN
  /\ stage = "object"
  /\ code' = c
  /\ ram' = r
  /\ stage' = IF fits THEN "linked" ELSE "refused"
  /\ field' = IF fits THEN LinkField(v, c + where) ELSE field
  /\ UNCHANGED <<op, where, label, reloc, addend, passes>>

Next ==
  \/ RefusePrefix
  \/ WriteLiteral
  \/ MakeFixup
  \/ ApplyFinalFix
  \/ EmitReloc
  \/ \E dcode \in Shifts, dram \in Shifts : LinkRelocatable(dcode, dram)
  \/ \E c \in CodeBases, r \in RamBases : LinkFinal(c, r)

Spec == Init /\ [][Next]_vars

----------------------------------------------------------------------------
Relocs == {"NONE", "7_PCREL", "11", "16", "13_PCODE", "8_B2B", "8_BIT", "H",
           "L", "8_IMM", "8_DIR"}

(* What the field has room for. *)
FieldMax ==
  CASE op.kind \in {"addr16", "pcode"}            -> 65535
    [] op.kind = "inpage"                         -> 2047
    [] op.kind \in {"imm", "dir", "bit", "rel"}   -> 255

(* Types of every variable; a field never holds more than its bytes. *)
TypeOK ==
  /\ op \in Operand
  /\ stage \in {"source", "fixup", "object", "linked", "refused"}
  /\ where \in Nat
  /\ label \in Int
  /\ reloc \in Relocs
  /\ addend \in Int
  /\ passes \in 0..MaxPasses
  /\ field \in Int
  /\ stage = "linked" => Between(field, 0, FieldMax)
  /\ code \in Nat
  /\ ram \in Nat

(* What the source means: the number, or where the label came to lie. *)
Target ==
  IF op.route \in Numbers THEN op.sym
  ELSE (IF op.sec = "code" THEN code ELSE ram) + label + op.add

(* Where the machine goes with the field it finds. *)
Pc == code + where
Signed(b) == IF b > 127 THEN b - 256 ELSE b
Lands ==
  CASE op.kind = "rel"    -> Pc + 1 + Signed(field)
    [] op.kind = "inpage" -> (Pc + 2) - ((Pc + 2) % 2048) + field
    [] op.kind = "addr16" -> field

(* A jump or call to a label lands on the label, whichever of the two      *)
(* programs finished the operand, whatever `ld -r' passes moved the        *)
(* instruction and the label, and wherever the final link put them.        *)
BranchLandsOnTarget ==
  stage = "linked" /\ op.route \in Labels /\ op.kind \in {"rel", "inpage", "addr16"} =>
    Lands % 65536 = Target % 65536

(* The machine's view of a bit address f: bit n of byte b. *)
IsBit(f, n, b) ==
  /\ f % 8 = n
  /\ b = IF f < 128 THEN 32 + (f \div 8) ELSE f - (f % 8)

(* The field f names the address or number t, nothing truncated. *)
Names(f, t) ==
  /\ op.kind = "dir" /\ op.half = "none" /\ op.route \in Labels => f = t
  /\ op.kind = "imm" /\ op.half = "none" /\ op.route # "equated" =>
       Between(t, -128, 255) /\ f = t % 256
  /\ op.kind \in {"imm", "dir"} /\ op.half = "LOW" => f = t % 256
  /\ op.kind \in {"imm", "dir"} /\ op.half = "HIGH" => f = (t \div 256) % 256
  /\ op.half = "B2B" /\ t # 0 /\ op.off < 256 => IsBit(f, op.off, t)
  /\ op.kind = "pcode" /\ op.route # "equated" /\ t # 0 =>
       Between(t, 256, 8191) /\ f = PcodeWord(op.off, t)

(* An operand the tools accept means what it says: a direct address is the *)
(* address of its label, an immediate fits a byte, HIGH and LOW are the    *)
(* bytes of the value, B2B is the bit of the byte, and a .pcode word keeps *)
(* its flags around its address.  Left out: B2B and .pcode of address 0,   *)
(* which the linker does not look at; a bit number past a byte, of which a *)
(* fixup keeps the low byte; and an immediate or a .pcode address equated  *)
(* further down, whose range is checked less strictly than a literal's.    *)
OperandNamesTarget == stage = "linked" => Names(field, Target)

(* No field the machine has at pc can hold t. *)
NoEncoding(t, pc) ==
  \/ op.kind = "rel" /\ ~Between(t - (pc + 1), -128, 127)
  \/ op.kind = "inpage" /\ ~Between(t - ((pc + 2) - ((pc + 2) % 2048)), 0, 2047)
  \/ op.kind = "addr16" /\ ~Between(t, -65536, 65535)
  \/ op.kind = "dir" /\ op.half = "none" /\ ~Between(t, 0, 127)
  \/ op.kind \in {"imm", "bit"} /\ op.half = "none" /\ ~Between(t, -128, 255)
  \/ op.half = "HIGH" /\ ~Between(t, -65536, 65535)
  \/ op.half = "B2B" /\ ~\E f \in 0..255 : IsBit(f, op.off, t)
  \/ op.kind = "pcode" /\ ~Between(t, 256, 8191)

(* What the tools refuse really has no encoding: a direct address the      *)
(* assembler refuses is out of reach even of a section placed at 0 (its    *)
(* bases are 0 until the final link), and every other refusal is of a      *)
(* value its field cannot hold.  Not claimed of a branch to a number,      *)
(* which the assembler measures from the start of its section, nor of half *)
(* of a bit address, whose prefix a fixup drops.                           *)
RefusedHasNoEncoding ==
  /\ stage = "refused"
  /\ op.kind \in {"rel", "inpage"} => op.route \in Labels
  /\ op.kind = "bit" => op.half \in {"none", "B2B"}
  => Prefixed \/ NoEncoding(Target, Pc)

(* The manual on B2B (gas/doc/c-i51.texi, Address Modifiers): an offset    *)
(* past the eighth bit is refused in all three places the fold is made,    *)
(* whatever the byte.                                                      *)
OffsetRefusedEverywhere ==
  stage = "linked" /\ op.half = "B2B" /\ Target # 0 => op.off <= 7
============================================================================
