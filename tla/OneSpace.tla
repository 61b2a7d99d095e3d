------------------------------ MODULE OneSpace ------------------------------
(***************************************************************************)
(* What the linker promises about a name that is declared only as a        *)
(* memory-space common: it gets one memory space, keeps it, and the link   *)
(* is refused as soon as the name is declared in another one, and for no   *)
(* other reason.  Nothing is said of sizes, sections, files or passes.     *)
(***************************************************************************)
CONSTANTS
  Names,   \* global symbol names
  Spaces,  \* the memory spaces
  NoSpace  \* none of them

VARIABLES home, refused

Init == /\ home = [n \in Names |-> NoSpace]
        /\ refused = FALSE

(* n is declared in s, its first space or the one it has. *)
Declare(n, s) ==
  /\ ~refused
  /\ home[n] \in {NoSpace, s}
  /\ home' = [home EXCEPT ![n] = s]
  /\ UNCHANGED refused

(* n has a space and is declared in another. *)
Refuse(n, s) ==
  /\ ~refused
  /\ home[n] \notin {NoSpace, s}
  /\ refused' = TRUE
  /\ UNCHANGED home

Next == \E n \in Names, s \in Spaces : Declare(n, s) \/ Refuse(n, s)

Spec == Init /\ [][Next]_<<home, refused>>
============================================================================
