---------------------------- MODULE MCLinkLayout ----------------------------
(* A small program for LinkLayout: each object fills one space up to or    *)
(* just past a limit, so that every subset meets the limits differently.   *)
EXTENDS LinkLayout, TLC

(* An object with n bytes in section s and m in section t. *)
Brings(s, n, t, m) ==
  [x \in Sections |-> CASE x = s -> n [] x = t -> m [] OTHER -> 0]

MCObjects == 1..9

MCContents ==
  << Brings(".rdata", 9, ".rbss", 8),           \* past 0x20 once a bank is used
     Brings(".bdata", 14, ".bbss", 2),          \* fills 0x20..0x2F
     Brings(".bit", 9, ".bitbss", 1),           \* two bytes, the second one partly
     Brings(".bit", 3, ".bitbss", 115),         \* fills what the last one leaves
     Brings(".data", 80, ".bss", 1),
     Brings(".idata", 126, ".ibss", 1),         \* up to 0xFF when all bits are used
     Brings(".xdata", 65535, ".edata", 65536),
     Brings(".xbss", 1, ".ebss", 1),
     Brings(".text", 65535, ".xbss", 1) >>
============================================================================
