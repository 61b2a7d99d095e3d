----------------------------- MODULE LinkLayout -----------------------------
(***************************************************************************)
(* Where the default linker script (ld/scripttempl/elf32i51.sc) puts the   *)
(* memory spaces of a program, and what it refuses.  One physical internal *)
(* RAM is shared by five spaces: register banks, register area, bytes with *)
(* bit addresses, single bits, direct and indirect data.  The script lays  *)
(* them out in one chain; the bit sections lie in a space of their own,    *)
(* counted in bits, but are carved out of the bytes between .bbss and      *)
(* .data.  None of these sections is allocated as far as the linker knows, *)
(* so its own overlap check does not look at them: the chain and the       *)
(* script's ASSERTs are the only guard.                                    *)
(*                                                                         *)
(* The register banks come from the assembler: every file that says .using *)
(* gets a common __RB__ in .regbank, sized when the file ends.             *)
(*                                                                         *)
(* An operator marked "defective" is a slip the code could have made in    *)
(* the definition after it; it is there to test the properties with.       *)
(***************************************************************************)
EXTENDS Integers, Sequences

CONSTANTS
  Objects,    \* the object files a link may be given
  Contents,   \* bytes each object brings for each output section
  Banks       \* register banks the sources select with .using

(* The output sections, in the order of the script. *)
Script == <<".text", ".regbank", ".rdata", ".rbss", ".bdata", ".bbss", ".bit",
            ".bitbss", ".data", ".bss", ".idata", ".ibss", ".xdata", ".xbss",
            ".edata", ".ebss", ".eeprom">>

Sections == {Script[i] : i \in 1..Len(Script)}

(* .regbank holds __RB__ alone: no directive switches to it. *)
ASSUME ContentsAssumption ==
  /\ Contents \in [Objects -> [Sections -> Nat]]
  /\ \A o \in Objects : Contents[o][".regbank"] = 0

ASSUME BanksAssumption == Banks \subseteq 0..3

NoBank == 255   \* the assembler's regbank before any .using

BitBase == 32   \* 0x20, the first byte with bit addresses
BitLimit == 48  \* 0x30, the first byte after them
BitSpace == 128
InternalRam == 256
ExternalRam == 65536
Rom == 65536

VARIABLES
  regbank,  \* the bank the file being assembled has selected
  regused,  \* the highest bank it has selected so far, as an address
  banks,    \* history: banks any finished file selected
  pending,  \* history: banks this file selected
  given,    \* objects already read by the linker
  size,     \* bytes (bits, in the bit sections) of each output section
  addr,     \* address given to each output section
  placed,   \* how many sections of the script have their address
  stack,    \* the symbol STACK
  status    \* "assembling", "reading", "placing", "linked" or "refused"

vars == <<regbank, regused, banks, pending, given, size, addr, placed, stack,
          status>>

Init ==
  /\ regbank = NoBank
  /\ regused = 0
  /\ banks = {}
  /\ pending = {}
  /\ given = {}
  /\ size = [s \in Sections |-> 0]
  /\ addr = [s \in Sections |-> 0]
  /\ placed = 0
  /\ stack = 0
  /\ status = "assembling"

----------------------------------------------------------------------------
(* .using b: the registers AR0..AR7 now name addresses 8b to 8b+7. *)
Using(b) ==
  /\ status = "assembling"
  /\ regbank' = 8 * b
  /\ regused' = IF 8 * b > regused THEN 8 * b ELSE regused
  /\ pending' = pending \union {b}
  /\ UNCHANGED <<banks, given, size, addr, placed, stack, status>>

(* Defective: room for the bank selected last only. *)
LastBankOnly == regbank + 8

(* The file ends: i51_cleanup emits __RB__, long enough for the highest    *)
(* bank, and forgets the selection.  The link keeps the largest __RB__.    *)
RegisterArea == regused + 8

EndOfFile ==
  /\ status = "assembling"
  /\ regbank # NoBank
  /\ size' = [size EXCEPT ![".regbank"] =
                IF RegisterArea > @ THEN RegisterArea ELSE @]
  /\ banks' = banks \union pending
  /\ regbank' = NoBank
  /\ regused' = 0
  /\ pending' = {}
  /\ UNCHANGED <<given, addr, placed, stack, status>>

(* Every source is assembled; the linker starts reading objects. *)
StartLink ==
  /\ status = "assembling"
  /\ regbank = NoBank
  /\ status' = "reading"
  /\ UNCHANGED <<regbank, regused, banks, pending, given, size, addr, placed,
                 stack>>

(* An object's input sections join the output sections they match. *)
Read(o) ==
  /\ status = "reading"
  /\ o \notin given
  /\ given' = given \union {o}
  /\ size' = [s \in Sections |-> size[s] + Contents[o][s]]
  /\ UNCHANGED <<regbank, regused, banks, pending, addr, placed, stack, status>>

(* Every object is in.  The script's own RET ends .text. *)
StartLayout ==
  /\ status = "reading"
  /\ size' = [size EXCEPT ![".text"] = @ + 1]
  /\ status' = "placing"
  /\ UNCHANGED <<regbank, regused, banks, pending, given, addr, placed, stack>>

----------------------------------------------------------------------------
End(s) == addr[s] + size[s]

(* Defective: a last byte only partly used is not counted. *)
WholeBytesOnly == (size[".bit"] + size[".bitbss"]) \div 8

(* The bytes taken up by the bit sections. *)
BytesOfBits == (size[".bit"] + size[".bitbss"] + 7) \div 8

(* Defective: .bdata merely follows .rbss. *)
NoFloor == End(".rbss")

(* .bdata follows .rbss, but never below the first byte with bits. *)
StartOfBitBytes == IF End(".rbss") > BitBase THEN End(".rbss") ELSE BitBase

(* The address expression of the script for a section: most follow the one *)
(* placed just before.                                                     *)
StartOf(s) ==
  CASE s \in {".text", ".regbank", ".xdata", ".edata", ".eeprom"} -> 0
    [] s = ".bdata" -> StartOfBitBytes
    [] s = ".bit"   -> (End(".bbss") - BitBase) * 8
    [] s = ".data"  -> End(".bbss") + BytesOfBits
    [] OTHER        -> End(Script[placed])

Place ==
  /\ status = "placing"
  /\ placed < Len(Script)
  /\ addr' = [addr EXCEPT ![Script[placed + 1]] = StartOf(Script[placed + 1])]
  /\ placed' = placed + 1
  /\ UNCHANGED <<regbank, regused, banks, pending, given, size, stack, status>>

(* Defective: the last byte of internal RAM is never used. *)
OneByteShort == End(".ibss") < InternalRam

(* The space limits: the rom region bounds .text, the ASSERTs the rest. *)
RamFits == End(".ibss") <= InternalRam

BitBytesFit == size[".bdata"] + size[".bbss"] = 0 \/ End(".bbss") <= BitLimit

(* Defective: only the first bit section is looked at. *)
FirstBitFits ==
  size[".bit"] + size[".bitbss"] = 0 \/ addr[".bit"] <= BitSpace

BitsFit ==
  \/ size[".bit"] + size[".bitbss"] = 0
  \/ End(".bitbss") <= BitSpace /\ addr[".data"] <= BitLimit

Fits ==
  /\ End(".text") <= Rom
  /\ RamFits
  /\ BitBytesFit
  /\ BitsFit
  /\ End(".xbss") <= ExternalRam
  /\ End(".ebss") <= ExternalRam

(* Defective: .idata and .ibss are forgotten. *)
StackAfterData == End(".bss")

(* The first free byte of internal RAM, __IDATA_END. *)
StackBottom == End(".ibss")

(* The layout is complete: the checks decide. *)
Finish ==
  /\ status = "placing"
  /\ placed = Len(Script)
  /\ stack' = StackBottom
  /\ status' = IF Fits THEN "linked" ELSE "refused"
  /\ UNCHANGED <<regbank, regused, banks, pending, given, size, addr, placed>>

Next ==
  \/ \E b \in Banks : Using(b)
  \/ EndOfFile
  \/ StartLink
  \/ \E o \in Objects : Read(o)
  \/ StartLayout
  \/ Place
  \/ Finish

Spec == Init /\ [][Next]_vars

----------------------------------------------------------------------------
ByteSections == {".regbank", ".rdata", ".rbss", ".bdata", ".bbss", ".data",
                 ".bss", ".idata", ".ibss"}

BitSections == {".bit", ".bitbss"}

(* The addresses a section occupies, and the byte that carries a bit. *)
Occupied(s) == addr[s] .. End(s) - 1
ByteOfBit(b) == BitBase + b \div 8

(* Types of every variable: a section may be refused, but none is given a  *)
(* negative address.                                                       *)
TypeOK ==
  /\ regbank \in {NoBank} \union {8 * b : b \in Banks}
  /\ regused \in {0} \union {8 * b : b \in Banks}
  /\ banks \in SUBSET Banks
  /\ pending \in SUBSET Banks
  /\ given \in SUBSET Objects
  /\ size \in [Sections -> Nat]
  /\ addr \in [Sections -> Nat]
  /\ placed \in 0..Len(Script)
  /\ stack \in Nat
  /\ status \in {"assembling", "reading", "placing", "linked", "refused"}

(* No byte of internal RAM is given out twice, not even by two spaces that *)
(* count in different units: the sections of bytes are disjoint, the bits  *)
(* are disjoint, and no byte that carries a named bit holds anything else. *)
InternalRamIsShared ==
  status = "linked" =>
    /\ \A s, t \in ByteSections : s # t => Occupied(s) \cap Occupied(t) = {}
    /\ Occupied(".bit") \cap Occupied(".bitbss") = {}
    /\ \A s \in ByteSections, t \in BitSections :
         \A b \in Occupied(t) : ByteOfBit(b) \notin Occupied(s)

(* Whatever was declared bit-addressable has a bit address: a named bit    *)
(* lies in 0x00..0x7F, and so does every bit of a byte of .bdata or .bbss, *)
(* where B2B turns the byte into bit number (byte - 0x20) * 8.             *)
BitsAreAddressable ==
  status = "linked" =>
    /\ \A t \in BitSections : \A b \in Occupied(t) : b \in 0..BitSpace - 1
    /\ \A s \in {".bdata", ".bbss"} : Occupied(s) \subseteq BitBase..BitLimit - 1

(* The stack grows upward from STACK: everything the program put in        *)
(* internal RAM, the bytes of its bits included, lies inside the RAM and   *)
(* below the stack.                                                        *)
StackIsFree ==
  status = "linked" =>
    /\ stack <= InternalRam
    /\ \A s \in ByteSections : Occupied(s) \subseteq 0..stack - 1
    /\ \A t \in BitSections : \A b \in Occupied(t) : ByteOfBit(b) < stack

(* A register bank some file selected is its own: bytes 8b..8b+7 of every  *)
(* selected bank b are reserved, whichever bank was selected last, and     *)
(* whichever file was.                                                     *)
BanksAreReserved ==
  status = "linked" =>
    \A b \in banks : 8 * b .. 8 * b + 7 \subseteq Occupied(".regbank")

(* Where the space of a section ends. *)
SpaceEnd(s) ==
  CASE s \in {".bdata", ".bbss"}                  -> BitLimit
    [] s \in BitSections                          -> BitSpace
    [] s \in ByteSections \ {".bdata", ".bbss"}  -> InternalRam
    [] OTHER                                      -> ExternalRam

(* The checks refuse no program that fits: when the link is refused, some  *)
(* section that is not empty ends past the end of its space.               *)
RefusedOnlyWhenFull ==
  status = "refused" => \E s \in Sections : size[s] > 0 /\ End(s) > SpaceEnd(s)
============================================================================
