------------------------- MODULE MCMutationHarness -------------------------
(* A few mutants: one of the assembler and one of the opcode table, which  *)
(* the gate sees; one of the linker script, which it does not; one of the  *)
(* back end, which does not compile.                                       *)
EXTENDS MutationHarness

CONSTANTS gasSeen, opcSeen, ldUnseen, bfdBroken

MCFileOf ==
  [m \in Mutants |->
     CASE m = gasSeen   -> "gas/config/tc-i51.c"
       [] m = opcSeen   -> Header
       [] m = ldUnseen  -> "ld/scripttempl/elf32i51.sc"
       [] m = bfdBroken -> "bfd/elf32-i51.c"]

MCLineOf == [m \in Mutants |-> 1]
=============================================================================
