------------------------- MODULE LinkCommonsSpaces -------------------------
(***************************************************************************)
(* LinkCommons implements OneSpace when the objects declare their names    *)
(* only as references and memory-space commons.  A name whose entry is     *)
(* still to be read back from the output of `ld -r' keeps the space it had *)
(* when that file was written.                                             *)
(***************************************************************************)
EXTENDS LinkCommons

Home == [n \in Names |-> OldSpace(Held(n))]

Abstract == INSTANCE OneSpace WITH Spaces <- SpaceSections,
                                   home <- Home,
                                   refused <- status = "refused"

(* Every step of the link either declares one name in one space, refuses a *)
(* second space for one name, or is invisible at this level: reading       *)
(* order, sizes, sections and relocatable passes never show.               *)
ImplementsOneSpace == Abstract!Spec
============================================================================
