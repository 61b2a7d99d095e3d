------------------------------ MODULE MCFixups ------------------------------
(* Operands for TLC: every kind, prefix and route, with numbers and label  *)
(* offsets on both sides of each limit.                                    *)
EXTENDS Fixups

MCNumbers ==
  {-65537, -65536, -257, -129, -128, 0, 31, 32, 47, 48, 127, 128,
   132, 248, 255, 256, 8191, 8192, 65535, 65536}

MCLabels == {0, 8, 40, 127, 128, 2047, 4096}

Prefixes(kind) ==
  CASE kind = "bit"   -> {"none", "HIGH", "B2B"}
    [] kind = "pcode" -> {"none"}
    [] OTHER          -> {"none", "HIGH", "LOW"}

OffOf(kind, half) ==
  CASE half = "B2B"   -> {0, 7, 8, 259}
    [] kind = "pcode" -> {5}
    [] OTHER          -> {0}

Of(kind, half) ==
  [kind : {kind}, half : {half}, route : Numbers, sec : {"code"},
   sym : MCNumbers, add : {0}, off : OffOf(kind, half)]
    \union
  [kind : {kind}, half : {half}, route : Labels,
   sec : IF kind \in {"rel", "inpage"} THEN {"code"} ELSE {"ram"},
   sym : MCLabels, add : {0, -1}, off : OffOf(kind, half)]

(* A branch also has to find a label of another section of code. *)
FarBranches ==
  [kind : {"rel", "inpage"}, half : {"none"}, route : Labels, sec : {"ram"},
   sym : MCLabels, add : {0}, off : {0}]

MCOperands ==
  UNION {Of(k, h) : <<k, h>> \in {p \in Kinds \X {"none", "HIGH", "LOW", "B2B"} :
                                    p[2] \in Prefixes(p[1])}}
    \union FarBranches
=============================================================================
