------------------------------ MODULE DocTruth ------------------------------
(* tb/doctruth.py: the manual against the sources of the port.  A text is  *)
(* a sequence of lines, each of one kind:                                  *)
(*   node (name), table, endtable, item (head), itemx (head)               *)
(*   code (name), range (from, to)            @code{..} in running text    *)
(*   byte (name), hex (value)                 `.byte NAME', @code{0x..}    *)
(*   reloc (name)                             an R_I51_ name               *)
(*   marker (word), example, endexample, quote (text, error, span)         *)
(* The name of an operand or a directive is a sequence of characters:      *)
(* digits are 0 .. 9, other characters above; a directive begins with Dot. *)
(* What C says is a sequence of tokens: gettext `_(', lit (text), space,   *)
(* comment and other; a text printed or quoted is a sequence of words, of  *)
(* which a format may have conversions, Str and Num.                       *)
EXTENDS PatchHunks

Dot == 46
Str == "%s"
Num == "%d"
Numbers == {"1", "2"}

(* Check: how many of the judgements went against the manual. *)
Against(holds) == IF holds THEN 0 ELSE 1

Same(manual, source) == Against(manual \subseteq source) + Against(source \subseteq manual)

-----------------------------------------------------------------------------
(* The manual, taken apart. *)

(* nodes: the lines between one @node and the next; of two nodes of one    *)
(* name the last is the one kept.                                          *)
Node(lines, name) ==
  LET starts == {i \in DOMAIN lines : lines[i].kind = "node"}
      named == {i \in starts : lines[i].name = name}
  IN IF named = {} THEN None
     ELSE LET i == Max(named)
              next == {k \in starts : k > i}
          IN SubSeq(lines, i + 1, IF next = {} THEN Len(lines) ELSE Min(next) - 1)

Depth(lines, i) ==
  Cardinality({k \in 1 .. i : lines[k].kind = "table"})
  - Cardinality({k \in 1 .. i : lines[k].kind = "endtable"})

(* Defective: a nested table ends the one around it. *)
FirstTableOnly(lines) ==
  LET opens == {i \in DOMAIN lines : lines[i].kind = "table"}
  IN IF opens = {} THEN None
     ELSE LET i == Min(opens)
              ends == {k \in DOMAIN lines : k > i /\ lines[k].kind = "endtable"}
          IN SubSeq(lines, i + 1, IF ends = {} THEN Len(lines) ELSE Min(ends) - 1)

(* table_body: the first top-level table, nesting kept. *)
TableBody(lines) ==
  LET opens == {i \in DOMAIN lines : lines[i].kind = "table" /\ Depth(lines, i) = 1}
  IN IF opens = {} THEN None
     ELSE LET i == Min(opens)
              ends == {k \in DOMAIN lines : k > i /\ lines[k].kind = "endtable"
                                            /\ Depth(lines, k) = 0}
          IN SubSeq(lines, i + 1, IF ends = {} THEN Len(lines) ELSE Min(ends) - 1)

(* table_items: where the @items of a table itself are. *)
Items(body) ==
  {i \in DOMAIN body : body[i].kind = "item" /\ Depth(body, i) = 0}

ItemLines(body, i) ==
  LET next == {k \in Items(body) : k > i}
  IN SubSeq(body, i + 1, IF next = {} THEN Len(body) ELSE Min(next) - 1)

(* expand: the names from a to b, or None if they are not a range. *)
Expand(a, b) ==
  LET apart == {k \in DOMAIN a : a[k] # b[k]}
  IN IF Len(a) # Len(b) THEN None
     ELSE IF \E k \in apart : ~(a[k] \in 0 .. 9 /\ b[k] \in 0 .. 9 /\ a[k] <= b[k]) THEN None
     ELSE {[k \in DOMAIN a |-> IF k \in apart THEN d[k] ELSE a[k]] :
             d \in {d \in [apart -> 0 .. 9] : \A k \in apart : a[k] <= d[k] /\ d[k] <= b[k]}}

(* code_names: the names in the lines, ranges expanded, directives left    *)
(* out; and the ranges that are none.                                      *)
RangesOf(lines) == {<<l.from, l.to>> : l \in {l \in Elements(lines) : l.kind = "range"}}

BrokenRanges(lines) == {r \in RangesOf(lines) : Expand(r[1], r[2]) = None}

CodeNames(lines) ==
  LET single == {l.name : l \in {l \in Elements(lines) : l.kind = "code"}}
      ranged == UNION {Expand(r[1], r[2]) : r \in RangesOf(lines) \ BrokenRanges(lines)}
  IN {n \in single \union ranged : n[1] # Dot}

(* examples: the blocks, the word of the marker on the line directly above *)
(* each, and what they quote.                                              *)
Marked(lines, i) ==
  IF i > 1 /\ lines[i - 1].kind = "marker" THEN lines[i - 1].word ELSE None

Blocks(lines) == {i \in DOMAIN lines : lines[i].kind = "example"}

BlockBody(lines, i) ==
  LET ends == {k \in DOMAIN lines : k > i /\ lines[k].kind = "endexample"}
      to == IF ends = {} THEN Len(lines) ELSE Min(ends) - 1
  IN SelectSeq(SubSeq(lines, i + 1, to), LAMBDA l : l.kind = "quote")

TextOf(body) == FlattenSeq([k \in DOMAIN body |-> body[k].text])

(* The text a block quotes: its @r spans if it has any, all of it if not.  *)
Quoted(body) ==
  LET spans == SelectSeq(body, LAMBDA l : l.span)
  IN TextOf(IF spans = <<>> THEN body ELSE spans)
-----------------------------------------------------------------------------
(* The sources. *)

(* opens_gettext: only white space between `_(' and the literal. *)
OpensGettext(tokens, i) ==
  \E k \in 1 .. i - 1 : /\ tokens[k].kind = "gettext"
                        /\ \A j \in k + 1 .. i - 1 : tokens[j].kind = "space"

(* Defective: every string literal. *)
EveryLiteral(tokens) ==
  {tokens[i].text : i \in {i \in DOMAIN tokens : tokens[i].kind = "lit"}}

(* c_strings: the literals that open a `_(' argument, each with those that *)
(* the compiler joins to it.                                               *)
CStrings(tokens) ==
  LET Opens == {i \in DOMAIN tokens :
                  /\ tokens[i].kind = "lit" /\ OpensGettext(tokens, i)}
      Run(i) == CHOOSE k \in i .. Len(tokens) :
                  /\ \A j \in i .. k : tokens[j].kind \in {"lit", "space", "comment"}
                  /\ k = Len(tokens) \/ tokens[k + 1].kind \notin {"lit", "space", "comment"}
      Joined(i) == SelectSeq(SubSeq(tokens, i, Run(i)), LAMBDA t : t.kind = "lit")
  IN {FlattenSeq([k \in DOMAIN Joined(i) |-> Joined(i)[k].text]) : i \in Opens}

(* format_regex and fullmatch: whether printf can produce the text. *)
CanPrint(format, text) ==
  LET can[f \in 1 .. Len(format) + 1, t \in 1 .. Len(text) + 1] ==
        IF f > Len(format) THEN t > Len(text)
        ELSE IF t > Len(text) THEN FALSE
        ELSE CASE format[f] = Str -> can[f + 1, t + 1] \/ can[f, t + 1]
               [] format[f] = Num -> text[t] \in Numbers /\ can[f + 1, t + 1]
               [] OTHER           -> format[f] = text[t] /\ can[f + 1, t + 1]
  IN can[1, 1]
-----------------------------------------------------------------------------
(* The checks; d is [patch, texi, directives, operands, relocs, mnemonics, *)
(* gas], what was read of a table None when it is not in the source.       *)

CheckDirectives(d) ==
  LET node == Node(d.texi, "Directives")
      body == TableBody(node)
      documented == IF body = None THEN {}
                    ELSE {l.head : l \in {l \in Elements(body) : /\ l.kind \in {"item", "itemx"}
                                                                 /\ l.head[1] = Dot}}
      named == documented \union {l.name : l \in {l \in Elements(node) : /\ l.kind = "code"
                                                                         /\ l.name[1] = Dot}}
  IN IF d.directives = None THEN 1
     ELSE Against(d.directives # {})
          + IF node = None THEN 1
            ELSE Against(documented # {}) + Against(d.directives \subseteq named)
                 + Against(documented \subseteq d.directives)

(* REG_GROUPS: the group of the manual an operand's kind belongs under. *)
Registers == <<200>>
Bits == <<201>>
GroupOf(operand) == IF operand.ref = "B" THEN Bits ELSE Registers

CheckOperands(d) ==
  LET node == Node(d.texi, "Regs")
      body == TableBody(node)
      heads == {body[i].head : i \in Items(body)}
      Under(h) == ItemLines(body, Max({i \in Items(body) : body[i].head = h}))
      listed == UNION {CodeNames(Under(h)) : h \in heads}
      InGroup(g) == {o.name : o \in {o \in d.operands : GroupOf(o) = g}}
  IN IF node = None THEN 1
     ELSE IF body = None THEN 1
     ELSE Cardinality({i \in Items(body) : BrokenRanges(ItemLines(body, i)) # {}})
          + Same(listed, {o.name : o \in d.operands})
          + Cardinality({g \in {Registers, Bits} : g \notin heads \/ ~(InGroup(g) \subseteq CodeNames(Under(g)))})

(* What `.byte NAME' is said to assemble to is the next number after it.   *)
CheckValues(d) ==
  LET node == Node(d.texi, "Regs")
      says == {i \in DOMAIN node : node[i].kind = "byte"}
      After(i) == {k \in DOMAIN node : k > i /\ node[k].kind = "hex"}
      Wrong(i) == ~\E o \in d.operands : o.name = node[i].name
                                         /\ o.value = node[Min(After(i))].value
  IN IF node = None THEN 0
     ELSE Cardinality({i \in says : After(i) = {} \/ Wrong(i)})
          + Against(\E i \in says : After(i) # {})

CheckRelocations(d) ==
  Against(d.relocs # {})
  + Same({l.name : l \in {l \in Elements(d.texi) : l.kind = "reloc"}}, d.relocs)

CheckMnemonics(d) ==
  LET lists == {i \in Blocks(d.texi) : Marked(d.texi, i) = "mnemonics"}
  IN Against(d.mnemonics # {})
     + IF Cardinality(lists) # 1 THEN 1
       ELSE Same(Elements(TextOf(BlockBody(d.texi, Max(lists)))), d.mnemonics)

CheckDiagnostics(d) ==
  LET kind(i) == Marked(d.texi, i)
      body(i) == BlockBody(d.texi, i)
      diagnostics == {i \in Blocks(d.texi) : kind(i) = "diagnostic"}
  IN Cardinality({i \in Blocks(d.texi) :
                    kind(i) = None /\ \E l \in Elements(body(i)) : l.error})
     + Cardinality({i \in diagnostics :
                      ~\E f \in CStrings(d.gas) : CanPrint(f, Quoted(body(i)))})
     + Against(diagnostics # {})

Needed == {"texi", "gas", "bfd", "elf", "opcode"}

(* main: the texts are the files that the patch adds. *)
DocTruthVerdict(d) ==
  IF AddedFiles(d.patch) = None \/ ~(Needed \subseteq DOMAIN AddedFiles(d.patch)) THEN "stopped"
  ELSE Judge(CheckDirectives(d)
             + (IF d.operands = None THEN 1 ELSE CheckOperands(d) + CheckValues(d))
             + CheckRelocations(d) + CheckMnemonics(d) + CheckDiagnostics(d))
-----------------------------------------------------------------------------
(* What a green check claims of the manual, line by line.                  *)
InNode(lines, i, name) ==
  \E k \in 1 .. i : /\ lines[k].kind = "node" /\ lines[k].name = name
                    /\ \A j \in k + 1 .. i : lines[j].kind # "node"

NamesOn(line) ==
  CASE line.kind = "code"              -> {line.name}
    [] line.kind = "range"             -> Expand(line.from, line.to)
    [] line.kind \in {"item", "itemx"} -> {line.head}
    [] OTHER                           -> {}

InExample(lines, i) ==
  \E k \in 1 .. i - 1 : /\ lines[k].kind = "example"
                        /\ \A j \in k + 1 .. i - 1 : lines[j].kind # "endexample"

Nested(lines) ==
  \A i \in DOMAIN lines : /\ Depth(lines, i) >= 0
                          /\ lines[i].kind = "item" => Depth(lines, i) > 0

LinesIn(lines, name) == {lines[i] : i \in {i \in DOMAIN lines : InNode(lines, i, name)}}

NamesIn(lines, name) == UNION {NamesOn(l) : l \in LinesIn(lines, name)}

FilesAdded(d) ==
  \A f \in Needed : \E k \in DOMAIN d.patch : d.patch[k].kind = "path" /\ d.patch[k].text = f

DirectivesNamed(d) == d.directives # None /\ d.directives \subseteq NamesIn(d.texi, "Directives")

(* A manual with a broken table is makeinfo's to refuse. *)
DirectivesExist(d) ==
  \A i \in DOMAIN d.texi :
    Nested(d.texi) /\ InNode(d.texi, i, "Directives")
      /\ d.texi[i].kind = "item" /\ d.texi[i].head[1] = Dot => d.texi[i].head \in d.directives

OperandsNamed(d) ==
  d.operands # None /\ {o.name : o \in d.operands} \subseteq NamesIn(d.texi, "Regs")

ValuesAsSaid(d) ==
  \A i \in DOMAIN d.texi :
    InNode(d.texi, i, "Regs") /\ d.texi[i].kind = "byte"
      /\ i < Len(d.texi) /\ d.texi[i + 1].kind = "hex" =>
        \E o \in d.operands : o.name = d.texi[i].name /\ o.value = d.texi[i + 1].value

RelocationsNamed(d) == {l.name : l \in {l \in Elements(d.texi) : l.kind = "reloc"}} = d.relocs

(* d.prints is what the tools can say to a user. *)
MessagesExist(d) ==
  \A i \in DOMAIN d.texi :
    d.texi[i].kind = "quote" /\ d.texi[i].error /\ InExample(d.texi, i) =>
      \E f \in d.prints : CanPrint(f, d.texi[i].text)

DocRight(d) ==
  /\ FilesAdded(d)
  /\ DirectivesNamed(d) /\ DirectivesExist(d)
  /\ OperandsNamed(d) /\ ValuesAsSaid(d)
  /\ RelocationsNamed(d)
  /\ MessagesExist(d)
=============================================================================
