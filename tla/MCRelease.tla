----------------------------- MODULE MCRelease -----------------------------
(* A pushed tag and a dispatch, or two dispatches, of two commits, the     *)
(* second with a cheap gate; two hosts.                                    *)
EXTENDS Release, TLC

MCFlaws == {"flaw"}
Archive(c, h, f) == [commit |-> c, host |-> h, flaw |-> f]
Right(c) == {Archive(c, h, None) : h \in Hosts}

(* What the five builds should leave, one archive missing, one of another  *)
(* build in its place or beside it, and one that is damaged.               *)
MCBuilds ==
  {Right(c) : c \in Commits}
    \union UNION {{Right(c) \ {a} : a \in Right(c)} : c \in Commits}
    \union UNION {{Right(c) \union {a} : a \in Right(d)} : c, d \in Commits}
    \union UNION {{(Right(c) \ {a}) \union {[a EXCEPT !.commit = d]} : a \in Right(c)} :
                  c, d \in Commits}
    \union UNION {{(Right(c) \ {a}) \union {[a EXCEPT !.flaw = f]} : a \in Right(c), f \in MCFlaws} :
                  c \in Commits}

MCSymmetry == Permutations(Runs)

(* Nothing is claimed of what follows a race or an overlooked release: its *)
(* first state is checked, and what comes after it is left out.            *)
MCClaimed == ~raced /\ ~overlooked
=============================================================================
