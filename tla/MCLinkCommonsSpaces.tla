------------------------ MODULE MCLinkCommonsSpaces ------------------------
(* Two names, two spaces, and objects that also bring a real section named *)
(* like one of the spaces.                                                 *)
EXTENDS LinkCommonsSpaces, TLC

CONSTANTS o1, o2

Symmetry == Permutations({o1, o2})

SpaceDeclarations ==
  {[shndx |-> "SHN_UNDEF", size |-> 0],
   [shndx |-> "SHN_I51_XDATA_C", size |-> 1],
   [shndx |-> "SHN_I51_XDATA_C", size |-> 2],
   [shndx |-> "SHN_I51_IDATA_C", size |-> 1],
   [shndx |-> "SHN_I51_BITDATA_C", size |-> 2]}

(* No section, or one of .xbss with every combination of its two flags. *)
RealSections ==
  {<<>>} \union {<<h>> : h \in [name : {".xbss"}, cdata : BOOLEAN, contents : BOOLEAN]}
============================================================================
