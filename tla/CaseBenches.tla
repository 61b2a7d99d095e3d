---------------------------- MODULE CaseBenches ----------------------------
(* The benches under tb/sim that put written cases to the built tools.     *)
(* An answer of the assembler is [out, said]: the bytes of each section it *)
(* emitted, or None when it refused, and what it said; an answer of the    *)
(* linker is [image, said], the image None when it refused.  A case wants  *)
(* bytes, or a refusal (want = None) for a reason.                         *)
EXTENDS ToolBase

Count(list, Fails(_)) == Cardinality({k \in DOMAIN list : Fails(list[k])})

Prefix(bytes, n) == SubSeq(bytes, 1, Min({n, Len(bytes)}))

-----------------------------------------------------------------------------
(* run-branch.py: a case is [pad, want, answer].                           *)

(* Defective: an assembler that warns has failed. *)
BranchFailsIfWarned(c) ==
  IF c.want = None THEN c.answer.out # None
  ELSE \/ c.answer.out = None
       \/ c.answer.out.text # [k \in 1 .. c.pad |-> 0] \o c.want
       \/ c.answer.said # {}

BranchFails(c) ==
  IF c.want = None THEN c.answer.out # None
  ELSE \/ c.answer.out = None
       \/ c.answer.out.text # [k \in 1 .. c.pad |-> 0] \o c.want

BranchVerdict(w) == Judge(Count(w.branch, BranchFails))
-----------------------------------------------------------------------------
(* run-bits.py and the fold cases of run-reloc.py: the assembler alone.    *)

(* Defective: any refusal will do. *)
AsmFailsUnlessRefused(c) ==
  IF c.want = None THEN c.answer.out # None
  ELSE c.answer.out = None \/ c.section \notin DOMAIN c.answer.out
       \/ c.answer.out[c.section] # c.want

AsmFails(c) ==
  IF c.want = None
  THEN c.answer.out # None \/ (c.msg # None /\ c.msg \notin c.answer.said)
  ELSE \/ c.answer.out = None
       \/ c.section \notin DOMAIN c.answer.out
       \/ c.answer.out[c.section] # c.want

(* The fold done by the linker: a link that says why passes for a refusal, *)
(* and one that says anything at all does not pass for a success.          *)
BitLinkFails(c) ==
  IF c.want = None THEN c.msg \notin c.answer.said
  ELSE \/ c.answer.image = None
       \/ Len(c.answer.image) < 2
       \/ c.answer.image[2] # c.want
       \/ c.answer.said # {}

BitsVerdict(w) == Judge(Count(w.asm, AsmFails) + Count(w.bitlink, BitLinkFails))
-----------------------------------------------------------------------------
(* run-reloc.py.                                                           *)

(* emit: the relocations of the probe, in order, and how many. *)
EmitFails(c) == c.got # c.want

(* resolve and data-resolve: the whole image. *)
ResolveFails(c) == c.answer.image = None \/ c.answer.image # c.want

KindFails(c) ==
  IF c.want = None THEN c.answer.image # None \/ c.msg \notin c.answer.said
  ELSE c.answer.image = None \/ Prefix(c.answer.image, 2) # c.want

RangeFails(c) ==
  IF c.ok THEN c.answer.image = None
  ELSE c.answer.image # None \/ "truncated to fit" \notin c.answer.said

(* Either way ld has to have said why. *)
PcodeFails(c) ==
  IF c.want = None THEN c.msg \notin c.answer.said
  ELSE c.answer.image = None \/ Prefix(c.answer.image, 3) # c.want

(* identity: through an `ld -r' pass, and out of an archive. *)
RelinkFails(i) == i.combined = None \/ i.relinked = None \/ i.relinked # i.straight

ArchiveFails(i) == i.fromar = None \/ i.fromar # i.straight

Identity(i) ==
  IF i.straight = None THEN 1
  ELSE Cardinality({s \in {"relink", "archive"} :
                      IF s = "relink" THEN RelinkFails(i) ELSE ArchiveFails(i)})

(* Cases are of a stage; a probe that does not assemble ends the bench. *)
RelocFails(c) ==
  CASE c.stage = "emit"    -> EmitFails(c)
    [] c.stage = "resolve" -> ResolveFails(c)
    [] c.stage = "kinds"   -> KindFails(c)
    [] c.stage = "range"   -> RangeFails(c)
    [] c.stage = "fold"    -> AsmFails(c)
    [] c.stage = "pcode"   -> PcodeFails(c)

RelocVerdict(w) ==
  IF \E k \in DOMAIN w.reloc : ~w.reloc[k].assembled THEN "stopped"
  ELSE Judge(Count(w.reloc, RelocFails) + Identity(w.identity))
-----------------------------------------------------------------------------
(* run-guard.py: a probe is [rtype, size, ends, emitted, base, answers],   *)
(* where its section ends, the relocations the object was found to carry,  *)
(* the answer of the linker to the untouched object, [fails, said], and to *)
(* the relocation moved to each offset.                                    *)
Diag == "out of range"
WildOffset == 65535

(* Defective: a field is out of range when it begins there. *)
GuardCasesByStart(p) == {<<p.ends - p.size, FALSE>>, <<p.ends, TRUE>>}

GuardCases(p) ==
  {<<p.ends - p.size, FALSE>>, <<p.ends, TRUE>>}
    \union (IF p.size = 1 THEN {} ELSE {<<p.ends - p.size + 1, TRUE>>})
    \union (IF p.rtype = 9 THEN {<<WildOffset, TRUE>>} ELSE {})

GuardFails(p) ==
  \/ p.emitted # <<p.rtype>>
  \/ p.base.fails \/ Diag \in p.base.said
  \/ \E c \in GuardCases(p) : ~(Diag \in p.answers[c[1]].said <=> c[2])

GuardVerdict(w) == Judge(Count(w.guard, GuardFails))
-----------------------------------------------------------------------------
(* run-script.py: a script is [arms, fed, unfeedable, linked, image,       *)
(* sections, symbols, contents] with what is wanted of it: where each fed  *)
(* RAM arm is to land, the output sections and their addresses, what each  *)
(* debug section is to contain and what is to be discarded.                *)

(* audit: every arm of the script is fed, or it is recorded why not.       *)
Unaudited(s) == {arm \in s.arms : arm \notin s.fed /\ arm \notin s.unfeedable}

(* Defective: a section nobody asked for is not looked for. *)
CheckScriptPlaced(s) ==
  IF ~s.linked THEN 1
  ELSE Cardinality({n \in DOMAIN s.wanted : n \notin DOMAIN s.sections
                                            \/ s.sections[n] # s.wanted[n]})
       + Cardinality({a \in DOMAIN s.landing : a \notin DOMAIN s.symbols
                                               \/ s.symbols[a] # s.landing[a]})

Bookkeeping == {".symtab", ".strtab", ".shstrtab"}

CheckScript(s) ==
  IF ~s.linked THEN 1
  ELSE LET wrong == {n \in DOMAIN s.wanted : n \notin DOMAIN s.sections
                                             \/ s.sections[n] # s.wanted[n]}
           astray == {a \in DOMAIN s.landing : a \notin DOMAIN s.symbols
                                               \/ s.symbols[a] # s.landing[a]}
           debug == {d \in DOMAIN s.debug : d \notin DOMAIN s.sections
                                            \/ s.sections[d] # 0
                                            \/ s.contents[d] # s.debug[d]}
           kept == s.discard \intersect DOMAIN s.sections
           strays == DOMAIN s.sections \ (DOMAIN s.wanted \union DOMAIN s.debug \union Bookkeeping)
       IN Cardinality(wrong) + Cardinality(astray) + Cardinality(debug) + Cardinality(kept)
          + (IF s.image # s.rom THEN 1 ELSE 0) + (IF strays # {} THEN 1 ELSE 0)

(* The arms of www51.sc whose region has no length: ld has to refuse, and  *)
(* to name each of them.                                                   *)
ZeroFails(z) == (IF z.linked THEN 1 ELSE 0) + Cardinality(z.regions \ z.said)

ScriptVerdict(w) ==
  IF w.broken THEN "stopped"
  ELSE Judge(Cardinality(Unaudited(w.script)) + CheckScript(w.script) + ZeroFails(w.zero))
-----------------------------------------------------------------------------
(* What a case of the benches is, whatever the tools answer to it.         *)
BranchCase(c) ==
  /\ c.pad \in Nat
  /\ c.want # None => c.want \in Seq(Nat)
  /\ c.answer.out # None => c.answer.out.text \in Seq(Nat)

RelocCase(c) ==
  /\ c.stage \in {"emit", "resolve", "kinds", "range", "fold", "pcode"}
  /\ c.stage = "resolve" => c.want # None /\ c.want \in Seq(Nat)
  /\ c.stage = "kinds" /\ c.want # None => Len(c.want) = 2
  /\ c.stage = "pcode" /\ c.want # None => Len(c.want) = 3

(* There is no final link of what `ld -r' did not make. *)
IdentityCase(i) == i.combined = None => i.relinked = None

GuardCase(p) ==
  /\ p.size \in {1, 2} /\ p.ends \in Nat
  /\ p.ends - p.size .. p.ends \subseteq DOMAIN p.answers
  /\ WildOffset \in DOMAIN p.answers

(* No section is wanted and discarded, or the linker's own and asked for.  *)
ScriptCase(s) ==
  /\ \A S \in {s.arms, DOMAIN s.wanted, DOMAIN s.landing, DOMAIN s.debug, DOMAIN s.sections} :
       IsFiniteSet(S)
  /\ (DOMAIN s.wanted \union DOMAIN s.debug) \intersect (Bookkeeping \union s.discard) = {}
  /\ s.discard \intersect Bookkeeping = {}
-----------------------------------------------------------------------------
(* What a green bench claims: every case got what it wanted.  A case that  *)
(* wants the linker to refuse with a message is satisfied by the message.  *)
Wants(c, bytes) == c.want # None => bytes # None /\ Prefix(bytes, Len(c.want)) = c.want

Text(answer, section) ==
  IF answer.out = None \/ section \notin DOMAIN answer.out THEN None ELSE answer.out[section]

BranchRight(w) ==
  \A k \in DOMAIN w.branch :
    LET c == w.branch[k]
        text == c.answer.out.text
    IN /\ c.want = None <=> c.answer.out = None
       /\ c.want # None =>
            /\ Len(text) = c.pad + Len(c.want)
            /\ \A i \in DOMAIN text : text[i] = IF i <= c.pad THEN 0 ELSE c.want[i - c.pad]

AsmRight(c) ==
  /\ c.want = None <=> c.answer.out = None
  /\ c.want = None /\ c.msg # None => c.msg \in c.answer.said
  /\ c.want # None => Text(c.answer, c.section) = c.want

BitsRight(w) ==
  /\ \A k \in DOMAIN w.asm : AsmRight(w.asm[k])
  /\ \A k \in DOMAIN w.bitlink :
       LET c == w.bitlink[k]
       IN IF c.want = None THEN c.msg \in c.answer.said
          ELSE /\ c.answer.said = {} /\ c.answer.image # None
               /\ Len(c.answer.image) > 1 /\ c.answer.image[2] = c.want

RelocRight(w) ==
  /\ \A k \in DOMAIN w.reloc :
       LET c == w.reloc[k]
       IN CASE c.stage = "emit"  -> c.got = c.want
            [] c.stage = "range" -> /\ c.ok <=> c.answer.image # None
                                    /\ ~c.ok => "truncated to fit" \in c.answer.said
            [] c.stage = "fold"  -> AsmRight(c)
            [] OTHER             -> /\ Wants(c, c.answer.image)
                                    /\ c.stage = "resolve" => c.answer.image = c.want
                                    /\ c.want = None => c.msg \in c.answer.said
                                    /\ c.want = None /\ c.stage = "kinds" => c.answer.image = None
  /\ w.identity.straight # None
  /\ w.identity.relinked = w.identity.straight
  /\ w.identity.fromar = w.identity.straight

(* A linker that keeps every field inside its section: what it says of an  *)
(* offset tells whether the field fits there, on both sides of the end.    *)
GuardRight(w) ==
  \A k \in DOMAIN w.guard :
    LET p == w.guard[k]
    IN /\ p.emitted = <<p.rtype>> /\ ~p.base.fails /\ Diag \notin p.base.said
       /\ p.rtype = 9 => Diag \in p.answers[WildOffset].said
       /\ \A at \in DOMAIN p.answers :
            at \in p.ends - p.size .. p.ends =>
              (Diag \in p.answers[at].said <=> at + p.size > p.ends)

ScriptRight(w) ==
  LET s == w.script
  IN /\ s.arms \subseteq s.fed \union s.unfeedable
     /\ s.linked /\ s.image = s.rom
     /\ DOMAIN s.sections \ Bookkeeping = DOMAIN s.wanted \union DOMAIN s.debug
     /\ \A n \in DOMAIN s.wanted : s.sections[n] = s.wanted[n]
     /\ \A a \in DOMAIN s.landing : a \in DOMAIN s.symbols /\ s.symbols[a] = s.landing[a]
     /\ \A d \in DOMAIN s.debug : s.sections[d] = 0 /\ s.contents[d] = s.debug[d]
     /\ ~w.zero.linked
     /\ w.zero.regions \subseteq w.zero.said
=============================================================================
