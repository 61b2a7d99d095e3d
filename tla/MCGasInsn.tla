------------------------------ MODULE MCGasInsn ------------------------------
(* Every name with every pair of operands out of one of each kind; in a    *)
(* second or third statement, some of them.                                *)
EXTENDS GasInsn

Op(form, name, num, prefix, bit) ==
  [form |-> form, name |-> name, num |-> num, prefix |-> prefix, bit |-> bit]
N(name) == Op("name", name, 0, "none", NoBit)
P(num) == Op("plain", "", num, "none", NoBit)
H(num) == Op("hash", "", num, "none", NoBit)

Registers == {N(r) : r \in {"A", "AB", "R5", "C", "DPTR", "@A+DPTR", "@A+PC", "@R1", "/C", "@DPTR",
                            "AR3", "P0", "P1.1", "CY"}}
Numbers == {P(n) : n \in {-129, 5, 32, 230, 2048, 65536}}
Others ==
  {Op("plain", "", 32, "none", 3), Op("plain", "", 132, "none", 1), Op("plain", "", 32, "B2B", 3),
   Op("plain", "", 32, "B2B", 8), Op("plain", "", 4660, "HIGH", NoBit), Op("plain", "", 4660, "LOW", NoBit),
   H(5), H(65535), H(65536), Op("hash", "", 4660, "HIGH", NoBit), Op("hash", "AR3", 0, "none", NoBit),
   Op("hash", "", 32, "B2B", 3), Op("slash", "", 32, "none", NoBit), Op("slash", "", 32, "none", 3),
   Op("junk", "", 0, "none", NoBit)}
Operands == Registers \union Numbers \union Others

Fewer == {N("A"), N("R5"), N("@R1"), N("AR3"), N("P0"), N("P1.1"), N("C"), P(5), P(32), H(5),
          Op("plain", "", 32, "B2B", 3), Op("plain", "", 4660, "LOW", NoBit), Op("hash", "AR3", 0, "none", NoBit)}

Thirds == [name \in DOMAIN FirstRow |-> IF name \in {"cjne", "movc"} THEN {P(5), P(230), P(231)} ELSE {}]
Whole == [names |-> DOMAIN FirstRow, operands |-> Operands, thirds |-> Thirds]
Part == [names |-> {"mov", "setb", "jb", "djnz"}, operands |-> Fewer, thirds |-> Thirds]

MCStatements == <<Whole, Part, Part>>

Line(name, ops) == [name |-> name, ops |-> ops]
MCFollowed ==
  {Line("mov", <<N("A"), Op("plain", "", 4660, "LOW", NoBit)>>),
   Line("mov", <<Op("plain", "", 4660, "LOW", NoBit), Op("plain", "", 4660, "HIGH", NoBit)>>),
   Line("setb", <<Op("plain", "", 32, "B2B", 8)>>), Line("jb", <<P(32), Op("plain", "", 4660, "LOW", NoBit)>>),
   Line("mov", <<Op("hash", "", 4660, "HIGH", NoBit), P(5)>>)}
=============================================================================
