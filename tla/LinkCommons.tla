---------------------------- MODULE LinkCommons ----------------------------
(***************************************************************************)
(* Commons of the seven MCS-51 memory spaces in one link: the add-symbol   *)
(* hook, the section it collects a common in, the refusal of one name in   *)
(* two spaces, and the output hook that a relocatable link (ld -r) depends *)
(* on.  Objects are read in some command-line order, one global symbol at  *)
(* a time.  An optional first pass is `ld -r', whose output is the first   *)
(* file of the second pass.                                                *)
(*                                                                         *)
(* What is generic bfd and not of this port (the common-over-common        *)
(* arbitration, the allocation of a hash entry) is modelled from the way   *)
(* the port describes and relies on it, and is marked external.            *)
(*                                                                         *)
(* An operator marked "defective" is a slip the code could have made in    *)
(* the definition after it; the specification never uses one.  The         *)
(* properties are tested by putting it in that definition's place.         *)
(***************************************************************************)
EXTENDS Integers, Sequences

CONSTANTS
  Names,         \* global symbol names
  Objects,       \* object files of the first pass and those added to the second
  RelOut,        \* the file `ld -r' writes
  NoFile,        \* no file is being read yet
  Declarations,  \* the declarations an object may make of a name
  SectionTables  \* the section tables an object may bring, as its headers say

----------------------------------------------------------------------------
(* The processor-specific section indices of a memory-space common. *)
SpaceIndices ==
  {"SHN_I51_REGBANK", "SHN_I51_RDATA_C", "SHN_I51_BDATA_C", "SHN_I51_IDATA_C",
   "SHN_I51_XDATA_C", "SHN_I51_EDATA_C", "SHN_I51_BITDATA_C"}

SpaceSections ==
  {".regbank", ".rbss", ".bbss", ".ibss", ".xbss", ".ebss", ".bitbss"}

NoSpace == "NULL"
PlainCommon == "COMMON"

(* Index to section: i51_elf_space_name. *)
SpaceName(shndx) ==
  CASE shndx = "SHN_I51_REGBANK"   -> ".regbank"
    [] shndx = "SHN_I51_RDATA_C"   -> ".rbss"
    [] shndx = "SHN_I51_BDATA_C"   -> ".bbss"
    [] shndx = "SHN_I51_IDATA_C"   -> ".ibss"
    [] shndx = "SHN_I51_XDATA_C"   -> ".xbss"
    [] shndx = "SHN_I51_EDATA_C"   -> ".ebss"
    [] shndx = "SHN_I51_BITDATA_C" -> ".bitbss"
    [] OTHER                       -> NoSpace

(* Section to index: the chain of comparisons shared by the two hooks that *)
(* go the other way.  A section of no memory space has none.               *)
SpaceIndex(name) ==
  CASE name = ".regbank" -> "SHN_I51_REGBANK"
    [] name = ".rbss"    -> "SHN_I51_RDATA_C"
    [] name = ".bbss"    -> "SHN_I51_BDATA_C"
    [] name = ".ibss"    -> "SHN_I51_IDATA_C"
    [] name = ".xbss"    -> "SHN_I51_XDATA_C"
    [] name = ".ebss"    -> "SHN_I51_EDATA_C"
    [] name = ".bitbss"  -> "SHN_I51_BITDATA_C"
    [] OTHER             -> NoSpace

CommonIndices == SpaceIndices \union {"SHN_COMMON"}

(* What a symbol table says of a name: a reference, a definition in some   *)
(* real section, or a common and its size.                                 *)
AllDeclarations ==
  [shndx : {"SHN_UNDEF", "DEFINED"}, size : {0}]
    \union [shndx : CommonIndices, size : Nat]

ASSUME DeclarationsAssumption == Declarations \subseteq AllDeclarations

(* A section of an object as the linker holds it.  indexed: the object     *)
(* brought it (this_idx # 0); common: SEC_IS_COMMON.                       *)
Section == [name : SpaceSections, indexed : BOOLEAN,
            contents : BOOLEAN, common : BOOLEAN]

(* A section header as an object carries it; cdata: a space code in the    *)
(* top bits of sh_flags.                                                   *)
Header == [name : SpaceSections, cdata : BOOLEAN, contents : BOOLEAN]

ASSUME SectionTablesAssumption == SectionTables \subseteq Seq(Header)

ASSUME FilesAssumption == /\ RelOut \notin Objects
                          /\ NoFile \notin Objects \union {RelOut}

Files == Objects \union {RelOut}

VARIABLES
  entry,     \* the link hash table: one entry per name
  sections,  \* the sections of every file opened so far
  cur,       \* the file being read
  todo,      \* its global symbols not yet added
  done,      \* the files opened so far
  pass,      \* "first": nothing written yet; "second": RelOut leads the link
  errors,    \* a multiple definition was reported: nothing will be written
  status,    \* "reading", "refused" by the hook, or "linked"
  relout,    \* the symbols `ld -r' wrote
  before,    \* history: the hash table at the time it wrote them
  seen       \* history: the declarations objects made of each name

vars == <<entry, sections, cur, todo, done, pass, errors, status, relout,
          before, seen>>

NewEntry == [type |-> "new", sec |-> NoSpace, size |-> 0]
CommonEntry(sec, size) == [type |-> "common", sec |-> sec, size |-> size]

Entry ==
  [type : {"new", "undefined", "defined"}, sec : {NoSpace}, size : {0}]
    \union [type : {"common"}, sec : SpaceSections \union {PlainCommon}, size : Nat]

Init ==
  /\ entry = [n \in Names |-> NewEntry]
  /\ sections = [o \in Files |-> <<>>]
  /\ cur = NoFile
  /\ todo = {}
  /\ done = {}
  /\ pass = "first"
  /\ errors = FALSE
  /\ status = "reading"
  /\ relout = [n \in Names |-> [shndx |-> "SHN_UNDEF", size |-> 0]]
  /\ before = [n \in Names |-> NewEntry]
  /\ seen = [n \in Names |-> {}]

----------------------------------------------------------------------------
(* Defective: the test of SHT_NOBITS is forgotten. *)
SectionIgnoringContents(h) ==
  [name |-> h.name, indexed |-> TRUE, contents |-> h.contents,
   common |-> h.cdata]

(* Reading a section header: only a section without contents may stand in  *)
(* for a common.                                                           *)
SectionFromShdr(h) ==
  [name |-> h.name, indexed |-> TRUE, contents |-> h.contents,
   common |-> h.cdata /\ ~h.contents]

(* The linker opens the next file of the command line: its sections are    *)
(* made, and its symbol table waits to be added.                           *)
OpenObject(o) ==
  /\ status = "reading"
  /\ todo = {}
  /\ o \notin done
  /\ cur' = o
  /\ done' = done \union {o}
  /\ todo' \in SUBSET Names
  /\ \E table \in SectionTables :
        sections' = [sections EXCEPT
                       ![o] = [i \in DOMAIN table |-> SectionFromShdr(table[i])]]
  /\ UNCHANGED <<entry, pass, errors, status, relout, before, seen>>

(* The space a common already in the table was collected in, NULL when it  *)
(* is an ordinary common or no common at all.                              *)
OldSpace(e) ==
  IF e.type = "common" THEN SpaceName(SpaceIndex(e.sec)) ELSE NoSpace

(* Defective: no check. *)
SpaceIgnored(e, space) == TRUE

(* elf32_i51_check_common_space: the declaration is acceptable. *)
CheckCommonSpace(e, space) ==
  OldSpace(e) \in {NoSpace, space}

(* i51_elf_common_section: the file's own collecting section of that name, *)
(* made on first use and never one the object brought along.               *)
IsCollector(s, name) == s.common /\ ~s.indexed /\ s.name = name

NewCollector(name) ==
  [name |-> name, indexed |-> FALSE, contents |-> FALSE, common |-> TRUE]

(* Defective: a new section for every common. *)
AlwaysMakeSection(secs, name) == Append(secs, NewCollector(name))

CommonSection(secs, name) ==
  IF \E i \in DOMAIN secs : IsCollector(secs[i], name)
  THEN secs
  ELSE Append(secs, NewCollector(name))

(* The generic linker's common rows (external): a common replaces a        *)
(* reference, a larger common replaces a smaller one with its section, the *)
(* first one stays on a tie, and a definition is never displaced.          *)
AddCommon(e, sec, size) ==
  IF e.type = "defined" \/ (e.type = "common" /\ e.size >= size)
  THEN e ELSE CommonEntry(sec, size)

(* The undefined and defined rows (external). *)
AddOther(e, shndx) ==
  CASE shndx = "DEFINED"                       -> [NewEntry EXCEPT !.type = "defined"]
    [] shndx = "SHN_UNDEF" /\ e.type = "new"   -> [NewEntry EXCEPT !.type = "undefined"]
    [] OTHER                                   -> e

----------------------------------------------------------------------------
(* The current file's declaration d of n reaches the hash table, first     *)
(* through elf32_i51_add_symbol_hook.                                      *)

(* A memory-space common in conflict: the hook fails and so does the link. *)
RefuseCommon(n, d) ==
  LET space == SpaceName(d.shndx) IN
  /\ space # NoSpace
  /\ ~CheckCommonSpace(entry[n], space)
  /\ status' = "refused"
  /\ UNCHANGED <<entry, sections, errors>>

(* Defective: st_value, which is the alignment asked for. *)
AlignmentAsSize(d) == 1

(* The value the hook hands over for a common is its size, st_size. *)
HookSize(d) == d.size

(* A memory-space common is collected in its space's section with its size.*)
AddSpaceCommon(n, d) ==
  LET space == SpaceName(d.shndx) IN
  /\ space # NoSpace
  /\ CheckCommonSpace(entry[n], space)
  /\ sections' = [sections EXCEPT ![cur] = CommonSection(@, space)]
  /\ entry' = [entry EXCEPT ![n] = AddCommon(@, space, HookSize(d))]
  /\ UNCHANGED <<status, errors>>

(* Anything else passes through the hook untouched. *)
AddPlainSymbol(n, d) ==
  /\ SpaceName(d.shndx) = NoSpace
  /\ entry' = [entry EXCEPT ![n] = IF d.shndx = "SHN_COMMON"
                                   THEN AddCommon(@, PlainCommon, d.size)
                                   ELSE AddOther(@, d.shndx)]
  /\ errors' = (errors \/ (d.shndx = "DEFINED" /\ entry[n].type = "defined"))
  /\ UNCHANGED <<sections, status>>

AddSymbol(n, d) ==
  /\ status = "reading"
  /\ n \in todo
  /\ todo' = todo \ {n}
  /\ RefuseCommon(n, d) \/ AddSpaceCommon(n, d) \/ AddPlainSymbol(n, d)
  /\ UNCHANGED <<cur, done, pass, relout, before>>

(* A symbol of an object given on the command line. *)
AddObjectSymbol(n, d) ==
  /\ cur \in Objects
  /\ d \in Declarations
  /\ AddSymbol(n, d)
  /\ seen' = [seen EXCEPT ![n] = @ \union {d}]

(* A symbol of the file an earlier `ld -r' wrote. *)
AddRelocatableSymbol(n) ==
  /\ cur = RelOut
  /\ AddSymbol(n, relout[n])
  /\ UNCHANGED seen

----------------------------------------------------------------------------
(* Defective: no output hook, as generic bfd would have it. *)
DegradedToPlain(shndx, sec) == shndx

(* Defective: an ordinary common is given an index it does not have. *)
IndexUnchecked(shndx, sec) ==
  IF shndx = "SHN_COMMON" THEN SpaceIndex(sec) ELSE shndx

(* What `ld -r' writes for a name.  A common of any space reaches          *)
(* elf32_i51_link_output_symbol_hook as a plain SHN_COMMON, and the hook   *)
(* puts the index of its space back from the name of its section.          *)
LinkOutputSymbolHook(shndx, sec) ==
  IF shndx = "SHN_COMMON" /\ SpaceIndex(sec) # NoSpace
  THEN SpaceIndex(sec) ELSE shndx

OutputSymbol(e) ==
  CASE e.type = "common"  -> [shndx |-> LinkOutputSymbolHook("SHN_COMMON", e.sec),
                              size |-> e.size]
    [] e.type = "defined" -> [shndx |-> "DEFINED", size |-> 0]
    [] OTHER              -> [shndx |-> "SHN_UNDEF", size |-> 0]

(* The first pass was relocatable: its output opens the second one, whose  *)
(* hash table starts empty.                                                *)
WriteRelocatable ==
  /\ status = "reading"
  /\ pass = "first"
  /\ todo = {}
  /\ done # {}
  /\ ~errors
  /\ pass' = "second"
  /\ relout' = [n \in Names |-> OutputSymbol(entry[n])]
  /\ before' = entry
  /\ entry' = [n \in Names |-> NewEntry]
  /\ cur' = RelOut
  /\ done' = done \union {RelOut}
  /\ todo' = {n \in Names : entry[n].type # "new"}
  /\ UNCHANGED <<sections, errors, status, seen>>

(* Every file is in: a final link places each common in its section. *)
FinishLink ==
  /\ status = "reading"
  /\ todo = {}
  /\ ~errors
  /\ status' = "linked"
  /\ UNCHANGED <<entry, sections, cur, todo, done, pass, errors, relout,
                 before, seen>>

Next ==
  \/ \E o \in Objects : OpenObject(o)
  \/ \E n \in Names, d \in Declarations : AddObjectSymbol(n, d)
  \/ \E n \in Names : AddRelocatableSymbol(n)
  \/ WriteRelocatable
  \/ FinishLink

Spec == Init /\ [][Next]_vars

----------------------------------------------------------------------------
(* Types of every variable. *)
TypeOK ==
  /\ entry \in [Names -> Entry]
  /\ sections \in [Files -> Seq(Section)]
  /\ cur \in Files \union {NoFile}
  /\ todo \in SUBSET Names
  /\ done \in SUBSET Files
  /\ pass \in {"first", "second"}
  /\ errors \in BOOLEAN
  /\ status \in {"reading", "refused", "linked"}
  /\ relout \in [Names -> AllDeclarations]
  /\ before \in [Names -> Entry]
  /\ seen \in [Names -> SUBSET Declarations]

(* The entry n has, or is about to get back from RelOut. *)
Held(n) == IF cur = RelOut /\ n \in todo THEN before[n] ELSE entry[n]

IsSpaceCommon(d) == d.shndx \in SpaceIndices
IsCommon(d) == d.shndx \in CommonIndices

SectionOf(d) == IF IsSpaceCommon(d) THEN SpaceName(d.shndx) ELSE PlainCommon

(* Only references and memory-space commons were seen of n: nothing that   *)
(* takes the name out of its space.                                        *)
OnlySpaces(n) == \A d \in seen[n] : IsSpaceCommon(d) \/ d.shndx = "SHN_UNDEF"

(* A link that was not refused holds no name declared a common of two      *)
(* memory spaces, however the files were ordered, however many `ld -r'     *)
(* passes they went through, as long as no ordinary common and no          *)
(* definition of the name stood between them.                              *)
SpacesAgree ==
  status # "refused" =>
    \A n \in Names :
      OnlySpaces(n) =>
        \A c, d \in seen[n] :
          IsSpaceCommon(c) /\ IsSpaceCommon(d) => c.shndx = d.shndx

(* Once RelOut's own symbols are in, the second pass stands where the      *)
(* first one stopped.                                                      *)
RelinkedSame == cur = RelOut => \A n \in Names : n \notin todo => entry[n] = before[n]

(* Reading the output of `ld -r' restores the hash table exactly: no       *)
(* common changes its space or its size by passing through a relocatable   *)
(* link, and the output is never refused.                                  *)
RelinkIsTransparent == RelinkedSame /\ (status = "refused" => cur # RelOut)

(* The space and size an entry ends with come from one of the              *)
(* declarations, and no declaration of the name was larger: what the       *)
(* smallest object reserved is covered by what the link keeps.             *)
KeptIsLargest ==
  status # "refused" /\ (cur = RelOut => todo = {}) =>
    \A n \in Names :
      entry[n].type = "common" =>
        /\ \A d \in seen[n] : d.size <= entry[n].size
        /\ \E d \in seen[n] :
             /\ IsCommon(d)
             /\ d.size = entry[n].size
             /\ entry[n].sec = SectionOf(d)

(* No section an object brought with bytes in it is ever taken for a       *)
(* common: the linker would drop every byte it holds and say nothing.      *)
DataIsNeverACommon ==
  \A o \in Files : \A i \in DOMAIN sections[o] :
    sections[o][i].contents => ~sections[o][i].common

(* The commons of one space in one file are collected in one section: the  *)
(* scripts place that section once, by its plain name.                     *)
OneCollectorPerSpace ==
  \A o \in Files : \A i, j \in DOMAIN sections[o] :
    /\ IsCollector(sections[o][i], sections[o][i].name)
    /\ IsCollector(sections[o][j], sections[o][i].name)
    => i = j
============================================================================
