------------------------------ MODULE ToolBase ------------------------------
(* What the models of the Python tools under tb/ share.  A tool ends with  *)
(* "PASS", "FAIL", or "stopped": sys.exit or an exception before it could  *)
(* judge anything.  Only "PASS" exits with 0.                              *)
EXTENDS Integers, Sequences, FiniteSets, SequencesExt

CONSTANT None   \* no value: a refusal, a file that is not there, no payload

IsList(s) == Len(s) \in Nat /\ DOMAIN s = 1 .. Len(s)

SumOf(bytes) == FoldSeq(LAMBDA a, b : a + b, 0, bytes)

Elements(s) == {s[k] : k \in DOMAIN s}

(* The verdict of a tool that counts what is wrong. *)
Judge(bad) == IF bad = 0 THEN "PASS" ELSE "FAIL"
=============================================================================
