--------------------------- MODULE MCLinkCommons ---------------------------
(* Small instances of LinkCommons for TLC. *)
EXTENDS LinkCommons, TLC

CONSTANTS o1, o2, o3

Symmetry == Permutations({o1, o2, o3})

(* Every kind of declaration, two spaces, two sizes. *)
MCDeclarations ==
  {[shndx |-> "SHN_UNDEF", size |-> 0], [shndx |-> "DEFINED", size |-> 0]}
    \union [shndx : {"SHN_COMMON", "SHN_I51_XDATA_C", "SHN_I51_IDATA_C"}, size : {1, 2}]

(* Objects that bring no section of a memory space. *)
MCNoSections == {<<>>}
============================================================================
