------------------------------ MODULE MCChecks ------------------------------
(* Small inputs of every program: a right one, and what can be wrong with  *)
(* it, one or two faults at a time.                                        *)
EXTENDS Checks

Without(s, i) == SubSeq(s, 1, i - 1) \o SubSeq(s, i + 1, Len(s))
Twice(s, i) == SubSeq(s, 1, i) \o SubSeq(s, i, Len(s))
Swapped(s, i) == IF i < Len(s) THEN [s EXCEPT ![i] = s[i + 1], ![i + 1] = s[i]] ELSE s
Edits(s) == UNION {{Without(s, i), Twice(s, i), Swapped(s, i)} : i \in DOMAIN s}
-----------------------------------------------------------------------------
(* isa_check *)
Record(data) == [colon |-> TRUE, type |-> 0, addr |-> 0, count |-> Len(data), data |-> data,
                 sum |-> (512 - Len(data) - SumOf(data)) % 256]
R1 == Record(<<116, 1>>)
R2 == Record(<<0>>)
Entry(r) == [kind |-> "entry", record |-> r]
Damaged == {[R1 EXCEPT !.colon = FALSE], [R1 EXCEPT !.type = 1], [R1 EXCEPT !.count = 1],
            [R1 EXCEPT !.sum = 0], [R1 EXCEPT !.data = <<116, 2>>], [R1 EXCEPT !.addr = 1]}
FirstLines == {Entry(R1), [kind |-> "noseparator", record |-> R1]} \union {Entry(r) : r \in Damaged}

Insn(raw) == [raw |-> raw, named |-> TRUE, branch |-> FALSE, shown |-> 0, target |-> None]
GoodInsn == Insn(<<116, 1>>)
Dumps == {None, <<GoodInsn>>, <<GoodInsn, GoodInsn>>, <<Insn(<<116>>)>>,
          <<[GoodInsn EXCEPT !.named = FALSE]>>,
          <<[GoodInsn EXCEPT !.branch = TRUE]>>,
          <<[GoodInsn EXCEPT !.branch = TRUE, !.target = 4, !.shown = 4]>>,
          <<[GoodInsn EXCEPT !.branch = TRUE, !.target = 4, !.shown = 5]>>}
Bytes1 == {None, <<116, 1>>, <<116, 2>>}
Answers1 == {[asm |-> a, dump |-> d, back |-> b] : a \in Bytes1, d \in Dumps, b \in Bytes1}
Good1 == [asm |-> <<116, 1>>, dump |-> <<GoodInsn>>, back |-> <<116, 1>>]
Good2 == [asm |-> <<0>>, dump |-> <<Insn(<<0>>)>>, back |-> <<0>>]
Answers2 == {Good2, [Good2 EXCEPT !.asm = None], [Good2 EXCEPT !.dump = None], [Good2 EXCEPT !.back = None]}

IsaWorld(table, lines, a1, a2, stages, program, built) ==
  [built |-> built, table |-> table, lines |-> lines,
   golden |-> [n \in {k \in DOMAIN lines : lines[k].kind # "blank"} |-> IF n = 1 THEN R1 ELSE R2],
   answers |-> <<a1, a2>>, stages |-> stages, program |-> program]
Blank2 == [kind |-> "blank", record |-> R2]
Programs == {"none", "assembled", "refused"}
IsaWorlds ==
  {IsaWorld(TRUE, <<Entry(R1), Entry(R2)>>, a1, a2, st, "none", TRUE) :
     a1 \in Answers1, a2 \in Answers2, st \in SUBSET STAGES}
  \union {IsaWorld(tb, <<l, Entry(R2)>>, Good1, Good2, st, p, b) :
            tb \in BOOLEAN, l \in FirstLines, p \in Programs, b \in BOOLEAN,
            st \in {{}, {"assemble"}, STAGES, {"decod"}}}
  \union {IsaWorld(TRUE, <<Blank2, Blank2>>, Good1, Good2, st, p, TRUE) :
            p \in Programs, st \in {{}, STAGES}}
-----------------------------------------------------------------------------
(* hexoracle: images of three bytes for the ROM of 2001 and for the ROM    *)
(* the counts were recorded from; and what is built now.                   *)
OracleBytes == {0, 1, 32, 33}
DataRecord(at, bytes) ==
  [type |-> 0, addr |-> at, data |-> bytes, sum |-> (1024 - Len(bytes) - at - SumOf(bytes)) % 256]
End == [type |-> 1, addr |-> 0, data |-> <<>>, sum |-> 255]
Hex(image) == <<DataRecord(0, image), End>>
Expect(image, rom, counts) ==
  [oracle |-> Len(image), delta |-> Len(rom) - Len(image), counts |-> counts]
OneProject(hex, image, recorded, rom, counted) ==
  [projects |-> {"led"}, hex |-> [p \in {"led"} |-> hex], rom |-> [p \in {"led"} |-> rom],
   recorded |-> [p \in {"led"} |-> recorded],
   expect |-> [p \in {"led"} |->
     Expect(image, recorded, IF counted THEN Counts(Classify(image, recorded)) ELSE None)]]
Swaps(rom) == {rom} \union {Swapped(rom, i) : i \in DOMAIN rom}
Images == {<<a, b, c>> : a \in OracleBytes, b \in OracleBytes, c \in {0, 1}}
HexFiles(image) == {Hex(image), None, <<End>>, <<[DataRecord(0, image) EXCEPT !.sum = 7], End>>,
                    <<DataRecord(0, <<9>>), DataRecord(1, Tail(image)), DataRecord(0, <<image[1]>>), End>>,
                    <<DataRecord(0, image), End, DataRecord(3, <<9>>)>>}
OracleInputs ==
  UNION {{OneProject(Hex(o), o, r, m, TRUE) : m \in Swaps(r)} : o \in Images, r \in Images}
  \union {OneProject(h, <<1, 0, 0>>, <<33, 1, 0>>, m, c) :
            h \in HexFiles(<<1, 0, 0>>), c \in BOOLEAN,
            m \in {None, <<33, 1, 0>>, <<33, 1>>, <<33, 1, 0, 0>>}}
  \union {[OneProject(Hex(<<1>>), <<1>>, <<1>>, <<1>>, TRUE) EXCEPT !.projects = {}]}
-----------------------------------------------------------------------------
(* romdiff *)
Roms == {None, <<1, 2>>, <<1>>, <<2, 1>>}
Columns == {<<"identical", 0, 2>>, <<"differ", 1, 1>>, <<"differ", 1, 2>>, <<"not-produced", 0, 0>>,
            <<"no-reference", 0, 0>>, <<"differ", 1>>,
            <<"differ", 1, 1, 0>>}
Lines == [project : {"led", "lcd", "diag"}, columns : Columns]
Files == {None, <<>>} \union {<<l>> : l \in Lines} \union {<<k, l>> : k \in Lines, l \in {l \in Lines : l.project = "led"}}
RomDiffInputs ==
  {[projects |-> p, file |-> f,
    reference |-> [q \in {"led", "lcd"} |-> IF q = "led" THEN r ELSE <<1, 2>>],
    produced |-> [q \in {"led", "lcd"} |-> IF q = "led" THEN m ELSE <<1, 2>>]] :
     p \in {{}, {"led"}, {"led", "lcd"}}, f \in Files, r \in {None, <<1, 2>>}, m \in Roms}
-----------------------------------------------------------------------------
(* fixhunks *)
Other(t) == [kind |-> "other", text |-> t]
Path(t) == [kind |-> "path", text |-> t]
Add(t) == [kind |-> "add", text |-> t]
Hunk(n) == [kind |-> "hunk", count |-> n]
Index(body) == [kind |-> "index", hash |-> BlobHash(body)]
FileOf(name, body) ==
  <<Other("diff"), Index(body), Other("---"), Path(name), Hunk(Len(body))>>
    \o [k \in DOMAIN body |-> Add(body[k])]
BasePatch == FileOf("texi", <<"a", "b">>) \o FileOf("gas", <<"c">>)
Odd(line) ==
  CASE line.kind = "add"   -> {Other(line.text), Add("z")}
    [] line.kind = "hunk"  -> {Hunk(n) : n \in {None, 0, 1, 2, 3} \ {line.count}}
    [] line.kind = "index" -> {Index(<<"z">>), Other("index")}
    [] OTHER               -> {}
PatchEdits(s) ==
  {s, Append(s, [kind |-> "nonl"])} \union Edits(s)
    \union UNION {{[s EXCEPT ![i] = l] : l \in Odd(s[i])} : i \in DOMAIN s}
PatchInputs == UNION {PatchEdits(s) : s \in PatchEdits(BasePatch)}
-----------------------------------------------------------------------------
(* doctruth *)
L(kind) == [kind |-> kind]
Named(kind, name) == [kind |-> kind, name |-> name]
Headed(kind, head) == [kind |-> kind, head |-> head]
Quote1(text, span) == [kind |-> "quote", text |-> text, error |-> TRUE, span |-> span]
Source1(text) == [kind |-> "quote", text |-> text, error |-> FALSE, span |-> FALSE]
Acc == <<80>>   Reg(d) == <<82, d>>
DotBit == <<Dot, 1>>   DotSet == <<Dot, 2>>   DotUse == <<Dot, 3>>

BaseTexi ==
  <<Named("node", "Directives"), Named("code", DotSet), L("table"), Headed("item", DotBit),
    L("table"), Headed("item", Acc), L("endtable"), Headed("item", DotUse), L("endtable"),
    Named("node", "Regs"), L("table"), Headed("item", Registers), Named("code", Acc),
    Named("code", DotUse), Headed("item", Bits),
    [kind |-> "range", from |-> Reg(0), to |-> Reg(2)], L("endtable"),
    Named("byte", Acc), [kind |-> "hex", value |-> 224],
    Named("node", "Opcodes"), Named("reloc", "R_I51_16"),
    [kind |-> "marker", word |-> "mnemonics"], L("example"), Source1(<<"nop", "mov">>), L("endexample"),
    [kind |-> "marker", word |-> "diagnostic"], L("example"), Source1(<<"ajmp">>),
    Quote1(<<"page", "1", "not", "reached">>, TRUE), L("endexample")>>

Lit(text) == [kind |-> "lit", text |-> text]
BaseGas == <<L("gettext"), Lit(<<"page", Num>>), L("comment"), L("space"), Lit(<<"not", Str>>),
             L("other"), Lit(<<Str>>), L("other")>>
Operands == {[name |-> Acc, ref |-> "D", value |-> 224]}
            \union {[name |-> Reg(d), ref |-> "B", value |-> d] : d \in 0 .. 2}
NeededPatch == FlattenSeq([k \in 1 .. 5 |-> FileOf(<<"texi", "gas", "bfd", "elf", "opcode">>[k], <<"a">>)])
BaseDoc == [patch |-> NeededPatch, texi |-> BaseTexi, gas |-> BaseGas,
            prints |-> {<<"page", Num, "not", Str>>},
            directives |-> {DotBit, DotSet, DotUse}, operands |-> Operands,
            relocs |-> {"R_I51_16"}, mnemonics |-> {"nop", "mov"}]
Sources ==
  {BaseDoc, [BaseDoc EXCEPT !.directives = None], [BaseDoc EXCEPT !.directives = @ \ {DotUse}],
   [BaseDoc EXCEPT !.directives = @ \union {<<Dot, 4>>}], [BaseDoc EXCEPT !.operands = None],
   [BaseDoc EXCEPT !.operands = @ \ {[name |-> Reg(1), ref |-> "B", value |-> 1]}],
   [BaseDoc EXCEPT !.operands = @ \union {[name |-> Reg(3), ref |-> "D", value |-> 3]}],
   [BaseDoc EXCEPT !.relocs = {}], [BaseDoc EXCEPT !.relocs = @ \union {"R_I51_8"}],
   [BaseDoc EXCEPT !.mnemonics = {"nop"}], [BaseDoc EXCEPT !.patch = Without(@, 1)],
   [BaseDoc EXCEPT !.patch[4] = Path("other")], [BaseDoc EXCEPT !.patch[4] = Other("path")],
   [BaseDoc EXCEPT !.patch[5] = Hunk(None)], [BaseDoc EXCEPT !.gas = Without(@, 1)],
   [BaseDoc EXCEPT !.prints = {<<"page", Num, "is", Str>>}, !.gas[5] = Lit(<<"is", Str>>)],
   [BaseDoc EXCEPT !.texi[19] = [kind |-> "hex", value |-> 225]],
   [BaseDoc EXCEPT !.texi[16].to = Acc]}
DocInputs == UNION {{[s EXCEPT !.texi = t] : t \in {s.texi} \union Edits(s.texi)} : s \in Sources}
-----------------------------------------------------------------------------
(* le2be, sym_uc and ar *)
Wide(v, data) == IF data = Lsb THEN Little(v) ELSE <<v \div 256, v % 256>>
Fields(values, data) == [f \in DOMAIN values |-> Wide(values[f], data)]
Header(type, size, entsize, link, data) ==
  Fields([type |-> type, size |-> size, entsize |-> entsize, link |-> link], data)
Section(header, entries) == [header |-> header, entries |-> entries]
Object(data, declared, class, elf, link, shnum, shentsize, entsize) ==
  LET symbol(n) == Fields([name |-> n, value |-> 258, shndx |-> 1], data)
      reloc == Fields([offset |-> 3, info |-> 521, addend |-> 772], data)
  IN [elf |-> elf, class |-> class, data |-> declared, at |-> 52,
      header |-> Fields([machine |-> 29282, shoff |-> 52, shnum |-> shnum, shentsize |-> shentsize], data),
      sections |-> <<Section(Header(0, 0, 0, 0, data), <<>>),
                     Section(Header(SHT_SYMTAB, 32, entsize, link, data), <<symbol(1), symbol(5)>>),
                     Section(Header(SHT_STRTAB, 8, 0, 0, data), <<<<"main", "lower">>, <<"ACC", "upper">>>>),
                     Section(Header(SHT_RELA, 12, 12, 1, data), <<reloc>>),
                     Section(Header(SHT_STRTAB, 9, 0, 0, data), <<<<".text", "lower">>>>)>>]
Objects ==
  {Object(d, e, 1, TRUE, l, n, s, z) : d \in {Lsb, Msb}, e \in {Lsb, Msb}, l \in 2 .. 4,
                                      n \in {0, 4, 5, 6}, s \in {39, 40}, z \in {0, 16}}
  \union {Object(Msb, e, c, f, 2, 5, 40, 16) : e \in {0, Lsb, Msb}, c \in {1, 2}, f \in BOOLEAN}
Member(name, body) == [name |-> name, stamp |-> 996, mode |-> 600, body |-> body]
Maps == {Member("/", <<<<"main", "lower">>>>), Member("/", <<<<"ACC", "upper">>, <<"gone", "lower">>>>)}
Bodies == {None} \union {Object(d, d, 1, f, l, n, 40, 16) : d \in {Lsb, Msb}, f \in BOOLEAN,
                                                            l \in {2, 3}, n \in {4, 5}}
Archives ==
  {<<m, Member("//", None), Member("a.o", b), Member("b.o", c)>> : m \in Maps, b \in Bodies, c \in Bodies}
  \union {<<>>, <<Member("a.o", None)>>}
-----------------------------------------------------------------------------
(* The benches. *)
Said == {{}, {"why"}, {"other"}, {"truncated to fit"}, {"why", "other"}}
Asm(out, said) == [out |-> out, said |-> said]
Outs == {None, [text |-> <<1, 2>>], [text |-> <<>>], [text |-> <<1, 3>>],
         [text |-> <<0, 1, 2>>], [text |-> <<1, 2>>, data |-> <<1, 2>>]}
AsmCases == [want : {None, <<1, 2>>}, msg : {"why", None}, section : {"text", "data"},
             answer : {Asm(o, s) : o \in Outs, s \in Said}]
OkAsm == [want |-> <<1, 2>>, msg |-> None, section |-> "text", answer |-> Asm([text |-> <<1, 2>>], {})]
BranchCases == [pad : {0, 1}, want : {None, <<1, 2>>}, answer : {Asm(o, {"why"}) : o \in Outs}]
OkBranch == [pad |-> 0, want |-> None, answer |-> Asm(None, {"why"})]
BranchInputs == {[branch |-> b] : b \in {<<>>} \union {<<c>> : c \in BranchCases}
                                           \union {<<c, OkBranch>> : c \in BranchCases}}

Linked == {[image |-> i, said |-> s] : i \in {None, <<>>, <<1>>, <<1, 2>>, <<1, 3>>, <<1, 2, 3>>}, s \in Said}
BitLinks == [want : {None, 2}, msg : {"why"}, answer : Linked]
BitsInputs == {[asm |-> <<OkAsm, c>>, bitlink |-> <<>>] : c \in AsmCases}
              \union {[asm |-> <<OkAsm>>, bitlink |-> <<c>>] : c \in BitLinks}

RelocCases ==
  [stage : {"resolve", "kinds"}, want : {<<1, 2>>}, msg : {"why"}, answer : Linked]
    \union [stage : {"pcode"}, want : {<<1, 2, 3>>}, msg : {"why"}, answer : Linked]
    \union [stage : {"kinds", "pcode"}, want : {None}, msg : {"why"}, answer : Linked]
    \union [stage : {"range"}, ok : BOOLEAN, answer : Linked]
    \union [stage : {"emit"}, want : {<<9, 9>>}, got : {<<>>, <<9>>, <<9, 9>>, <<9, 9, 9>>, <<9, 6>>}]
    \union {[stage |-> "fold", want |-> c.want, msg |-> "why", section |-> "text", answer |-> c.answer] :
              c \in AsmCases}
With(c, assembled) == [f \in DOMAIN c \union {"assembled"} |-> IF f = "assembled" THEN assembled ELSE c[f]]
Same3 == [straight |-> <<1>>, combined |-> "partial", relinked |-> <<1>>, fromar |-> <<1>>]
OkEmit == With([stage |-> "emit", want |-> <<9>>, got |-> <<9>>], TRUE)
RelocInputs ==
  {[reloc |-> <<OkEmit, With(c, b)>>, identity |-> Same3] : c \in RelocCases, b \in BOOLEAN}
    \union {[reloc |-> <<OkEmit>>, identity |-> i] :
              i \in {i \in [straight : {None, <<1>>}, combined : {None, "partial"},
                            relinked : {None, <<1>>, <<2>>}, fromar : {None, <<1>>, <<2>>}] :
                       i.combined = None => i.relinked = None}}

Answers(p, limit) == [at \in (p.ends - p.size .. p.ends) \union {WildOffset} |->
                        [fails |-> FALSE, said |-> IF at + p.size > limit THEN {Diag} ELSE {}]]
Probe(rtype, size, emitted, fails, said, ends, limit) ==
  LET p == [rtype |-> rtype, size |-> size, ends |-> ends, emitted |-> emitted,
            base |-> [fails |-> fails, said |-> said]]
  IN [f \in DOMAIN p \union {"answers"} |-> IF f = "answers" THEN Answers(p, limit) ELSE p[f]]
Probes == UNION {{Probe(t, IF t \in {3, 10} THEN 1 ELSE 2, e, f, s, n, k) :
                    e \in {<<t>>, <<>>, <<t, 9>>}, f \in BOOLEAN, s \in {{}, {Diag}, {"other"}},
                    n \in {2, 3}, k \in 0 .. 6} : t \in {3, 9, 10, 11}}
GuardInputs == {[guard |-> <<Probe(3, 1, <<3>>, FALSE, {}, 2, 2), p>>] : p \in Probes}

Script(arms, fed, unfeedable) ==
  [arms |-> arms, fed |-> fed, unfeedable |-> unfeedable, linked |-> TRUE, image |-> <<1>>, rom |-> <<1>>,
   sections |-> [n \in {".text", ".data", ".comment", ".symtab"} |-> IF n = ".data" THEN 8 ELSE 0],
   wanted |-> [n \in {".text", ".data"} |-> IF n = ".data" THEN 8 ELSE 0],
   symbols |-> [a \in {"DV", "BV"} |-> IF a = "DV" THEN 8 ELSE 9],
   landing |-> [a \in {"DV", "BV"} |-> IF a = "DV" THEN 8 ELSE 9],
   debug |-> [d \in {".comment"} |-> {7}], contents |-> [d \in {".comment"} |-> {7}],
   discard |-> {".note"}]
OkScript == Script({".text", ".data", ".eh"}, {".text", ".data"}, {".eh"})
Drop(f, x) == [y \in DOMAIN f \ {x} |-> f[y]]
Extra(f, x) == [y \in DOMAIN f \union {x} |-> IF y = x THEN 0 ELSE f[y]]
ScriptFaults(s) ==
  {s, [s EXCEPT !.linked = FALSE], [s EXCEPT !.image = <<2>>], [s EXCEPT !.arms = @ \union {".new"}],
   [s EXCEPT !.unfeedable = {}], [s EXCEPT !.fed = @ \ {".data"}]}
    \union {[s EXCEPT !.sections = Drop(@, n)] : n \in DOMAIN s.sections}
    \union {[s EXCEPT !.sections = Extra(@, n)] : n \in {".new", ".note", ".strtab", ".text", ".comment"}}
    \union {[s EXCEPT !.sections[n] = 3] : n \in DOMAIN s.sections}
    \union {[s EXCEPT !.symbols = Drop(@, a)] : a \in DOMAIN s.symbols}
    \union {[s EXCEPT !.symbols[a] = 3] : a \in DOMAIN s.symbols}
    \union {[s EXCEPT !.contents[".comment"] = {}]}
ScriptInputs ==
  {[broken |-> b, script |-> s, zero |-> [linked |-> l, regions |-> {"eeprom", "bitram"}, said |-> r]] :
     b \in BOOLEAN, s \in UNION {ScriptFaults(t) : t \in ScriptFaults(OkScript)}, l \in BOOLEAN,
     r \in {{"eeprom"}, {"eeprom", "bitram"}}}
-----------------------------------------------------------------------------
(* mutation/gen: every line of up to four characters followed by one of a  *)
(* few lines that continue or end what it opened, and some lines with      *)
(* several matches.  mutation/coverage: three mutants, three stages.       *)
Alphabet == {"/", "*", "'", "\\", "<"}
SecondLines == {<<"<">>, <<"*", "/", "<">>, <<"'", "*", "/", "'", "<">>}
ManyMatches ==
  {<<"<", "/", "<", "/", "<">>, <<"<", "'", "<", "'", "<", "/", "<", "/", "<">>,
   <<"/", "*", "<", "*", "/", "<", "\\", "<">>}
Texts ==
  {<<a, b>> : a \in UNION {[1 .. n -> Alphabet] : n \in 0 .. 4}, b \in SecondLines}
    \union {<<a, b>> : a, b \in ManyMatches}
GenInputs == [lines : Texts, cap : {0, 1, 2, 4}]

GateStages == <<"check", "sim", "reloc">>
GateSees == [status : {"gated"}, rcs : [Elements(GateStages) -> {0, 2, 124}]]
GateNever == [status : Cov!Statuses]
CoverageInputs ==
  {[mutants |-> m, stages |-> GateStages] :
     m \in {<<a, b>> : a, b \in GateSees \union GateNever}
            \union {<<a, b, a>> : a \in GateSees, b \in GateNever}}
-----------------------------------------------------------------------------
MCInputs ==
  [t \in {"isa_check", "hexoracle", "romdiff", "fixhunks", "doctruth", "le2be", "sym_uc", "ar",
          "branch", "bits", "reloc", "guard", "script", "gen", "coverage"} |->
     CASE t = "isa_check"         -> IsaWorlds
       [] t = "hexoracle"         -> OracleInputs
       [] t = "romdiff"           -> RomDiffInputs
       [] t = "fixhunks"          -> PatchInputs
       [] t = "doctruth"          -> DocInputs
       [] t \in {"le2be", "sym_uc"} -> Objects
       [] t = "ar"                -> Archives
       [] t = "branch"            -> BranchInputs
       [] t = "bits"              -> BitsInputs
       [] t = "reloc"             -> RelocInputs
       [] t = "guard"             -> GuardInputs
       [] t = "script"            -> ScriptInputs
       [] t = "gen"               -> GenInputs
       [] t = "coverage"          -> CoverageInputs]
=============================================================================
