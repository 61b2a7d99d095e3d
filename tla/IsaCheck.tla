------------------------------ MODULE IsaCheck ------------------------------
(* tb/isa_check.py: the instruction table and a program against the tools. *)
(* A table is a sequence of lines; an entry is named by its line number.   *)
(* What the tools do with an entry is part of the world: how the assembler *)
(* answers its source, how objdump prints its bytes, and how the assembler *)
(* answers what objdump printed.                                           *)
EXTENDS ToolBase

STAGES == {"assemble", "decode", "roundtrip"}

(* Defective: the checksum byte is not looked at. *)
PayloadUnsummed(r) ==
  IF r.colon /\ r.type = 0 /\ Len(r.data) = r.count THEN r.data ELSE None

(* hex_payload: the address is in the sum and nowhere else. *)
Intact(r) ==
  /\ r.colon
  /\ r.type = 0
  /\ Len(r.data) = r.count
  /\ (r.count + r.addr + r.type + SumOf(r.data) + r.sum) % 256 = 0

HexPayload(r) == IF Intact(r) THEN r.data ELSE None

Written(lines) == {n \in DOMAIN lines : lines[n].kind # "blank"}

TableIsDamaged(lines) ==
  \E n \in Written(lines) :
    lines[n].kind = "noseparator" \/ HexPayload(lines[n].record) = None

(* read_table: line number -> the bytes wanted there. *)
ReadTable(lines) == [n \in Written(lines) |-> HexPayload(lines[n].record)]
-----------------------------------------------------------------------------
(* A tool's answer to the entry of line n; want is what the table says.    *)
Decodes(answer, want) ==
  /\ answer.dump # None
  /\ Len(answer.dump) = 1
  /\ answer.dump[1].raw = want
  /\ answer.dump[1].named

(* mismatch and resyntax: a relative branch prints its displacement, and   *)
(* its target in the comment when objdump knows it.                        *)
Mismatch(insn) == insn.branch /\ insn.target # None /\ insn.shown # insn.target

TakenBack(insn) == ~(insn.branch /\ insn.target = None)

(* Defective: what objdump prints is the source only by its bytes. *)
ClosesByBytes(answer, want) == TakenBack(answer.dump[1]) /\ answer.back = want

Closes(answer, want) ==
  /\ ~Mismatch(answer.dump[1])
  /\ TakenBack(answer.dump[1])
  /\ answer.back = want

(* Defective: an entry `decode' dropped is forgotten when nobody asked for *)
(* that stage.                                                             *)
BadRoundtripDecodedOnly(entries, answers, stages) ==
  {n \in DOMAIN entries :
     Decodes(answers[n], entries[n]) /\ ~Closes(answers[n], entries[n])}

BadAssemble(entries, answers) == {n \in DOMAIN entries : answers[n].asm # entries[n]}

BadDecode(entries, answers) == {n \in DOMAIN entries : ~Decodes(answers[n], entries[n])}

(* One disassembly serves both stages: what `decode' reported, `roundtrip' *)
(* does not count again, and reports itself where `decode' was not asked.  *)
BadRoundtrip(entries, answers, stages) ==
  {n \in DOMAIN entries :
     IF Decodes(answers[n], entries[n]) THEN ~Closes(answers[n], entries[n])
     ELSE "decode" \notin stages}

RunTable(w) ==
  LET entries == ReadTable(w.lines)
      Judged(stage, bad) == IF stage \in w.stages THEN Cardinality(bad) ELSE 0
  IN IF DOMAIN entries = {} THEN 1
     ELSE Judged("assemble", BadAssemble(entries, w.answers))
          + Judged("decode", BadDecode(entries, w.answers))
          + Judged("roundtrip", BadRoundtrip(entries, w.answers, w.stages))

(* main: the exit of the check, and the failures it prints. *)
IsaVerdict(w) ==
  LET Failures == (IF w.table THEN RunTable(w) ELSE 0)
                  + (IF w.program = "refused" THEN 1 ELSE 0)
  IN IF \/ w.stages \ STAGES # {}
        \/ ~w.table /\ w.program = "none"
        \/ w.table /\ w.stages = {}
        \/ ~w.built
        \/ w.table /\ TableIsDamaged(w.lines)
     THEN "stopped"
     ELSE Judge(Failures)
-----------------------------------------------------------------------------
(* What a green check claims of the corpus its author wrote (w.golden, the *)
(* record of each line): the tools were asked everything that was wanted   *)
(* of them, and every answer was right.                                    *)
AnsweredRight(stages, answer, want) ==
  /\ "assemble" \in stages => answer.asm = want
  /\ stages \intersect {"decode", "roundtrip"} # {} =>
       /\ answer.dump # None /\ Len(answer.dump) = 1
       /\ answer.dump[1].raw = want /\ answer.dump[1].named
  /\ "roundtrip" \in stages =>
       /\ answer.back = want
       /\ answer.dump[1].branch => answer.dump[1].shown = answer.dump[1].target

IsaRight(w) ==
  /\ w.stages \subseteq STAGES
  /\ w.table \/ w.program = "assembled"
  /\ w.program # "refused"
  /\ w.table =>
       /\ w.stages # {} /\ DOMAIN w.golden # {}
       /\ \A n \in DOMAIN w.golden :
            /\ w.lines[n].kind = "entry" /\ w.lines[n].record = w.golden[n]
            /\ AnsweredRight(w.stages, w.answers[n], w.golden[n].data)

(* What the check is given.  A record that is not the one its author wrote *)
(* does not add up: that is what the sum is there for.  What objdump shows *)
(* of a branch is always a number.                                         *)
IsaCase(w) ==
  /\ IsList(w.lines) /\ DOMAIN w.golden = Written(w.lines)
  /\ \A n \in Written(w.lines) :
       /\ w.lines[n].kind \in {"entry", "noseparator"}
       /\ w.lines[n].record = w.golden[n] \/ ~Intact(w.lines[n].record)
       /\ w.answers[n].dump # None =>
            LET dump == w.answers[n].dump
            IN IsList(dump) /\ \A k \in DOMAIN dump : dump[k].shown # None
  /\ w.program \in {"none", "assembled", "refused"}
=============================================================================
