-------------------------- MODULE ObjectConverters --------------------------
(* tb/i51elf_le2be.py, tb/i51elf_sym_uc.py and tb/i51elf_ar.py, which turn *)
(* the objects and archives of 2001 into ones of this port.                *)
(*                                                                         *)
(* A field of an object is the sequence of its bytes, two of them here.    *)
(* An object is [elf, class, data, header, at, sections]: `at' is where    *)
(* its section headers are, and a section is a record of the fields of its *)
(* header and its entries: symbols and relocations (records of fields),    *)
(* the names of a string table, or bytes.  A name is <<letters, case>>.    *)
EXTENDS ToolBase

Lsb == 1
Msb == 2
SHT_SYMTAB == 2
SHT_STRTAB == 3
SHT_RELA == 4
EM_8051 == 165

Read(field, data) ==
  IF data = Msb THEN 256 * field[1] + field[2] ELSE field[1] + 256 * field[2]

Big(field) == Read(field, Msb)
Little(v) == <<v % 256, v \div 256>>

(* unpack('>..') and pack('<..') of every field of a record. *)
Turned(fields) == [f \in DOMAIN fields |-> Little(Big(fields[f]))]

TurnedEntries(entries, n) ==
  [k \in DOMAIN entries |-> IF k <= n THEN Turned(entries[k]) ELSE entries[k]]

EntryCount(header) == IF Big(header.entsize) = 0 THEN 0
                      ELSE Big(header.size) \div Big(header.entsize)

(* Defective: relocations stay as they are. *)
ConvertSymbolsOnly(s) ==
  [s EXCEPT !.header = Turned(s.header),
            !.entries = IF Big(s.header.type) = SHT_SYMTAB
                        THEN TurnedEntries(s.entries, EntryCount(s.header)) ELSE s.entries]

ConvertSection(s) ==
  [s EXCEPT !.header = Turned(s.header),
            !.entries = IF Big(s.header.type) \in {SHT_SYMTAB, SHT_RELA}
                        THEN TurnedEntries(s.entries, EntryCount(s.header)) ELSE s.entries]

(* The section headers a reader of this byte order finds.  Read in the     *)
(* wrong order, e_shoff is beyond the end of the file.                     *)
Found(o, data) ==
  IF Read(o.header.shoff, data) = o.at
  THEN 1 .. Min({Read(o.header.shnum, data), Len(o.sections)})
  ELSE {}

(* convert_elf.  None is the refusal; a file that is not big-endian is     *)
(* warned about and converted all the same.                                *)
ConvertElf(o) ==
  IF ~o.elf \/ o.class # 1 THEN None
  ELSE [o EXCEPT !.data = Lsb,
                 !.header = [Turned(o.header) EXCEPT !.machine = Little(EM_8051)],
                 !.sections = [k \in DOMAIN o.sections |->
                                 IF k \in Found(o, Msb) THEN ConvertSection(o.sections[k])
                                 ELSE o.sections[k]]]
-----------------------------------------------------------------------------
Upper(name) == <<name[1], "upper">>

Uppercase(names) == [k \in DOMAIN names |-> Upper(names[k])]

(* Elf: what is read of an object, in the order that it declares. *)
NotAnObject(o) ==
  \/ ~o.elf \/ o.class # 1 \/ o.data \notin {Lsb, Msb}
  \/ Read(o.header.shnum, o.data) # 0 /\ Read(o.header.shentsize, o.data) < 40
  \/ Read(o.header.shoff, o.data) # o.at
  \/ Read(o.header.shnum, o.data) > Len(o.sections)

OfType(o, type) == {k \in Found(o, o.data) : Read(o.sections[k].header.type, o.data) = type}

LinkOf(o, k) == Read(o.sections[k].header.link, o.data)

(* Defective: every string table, the names of the sections too. *)
AllTables(o) == {k - 1 : k \in OfType(o, SHT_STRTAB)}

(* The string tables of the symbol tables, by section number from 0. *)
NameTables(o) == {LinkOf(o, k) : k \in OfType(o, SHT_SYMTAB)}

UppercaseSymbols(o) ==
  IF NotAnObject(o) THEN None
  ELSE IF \E t \in NameTables(o) : t + 1 \notin OfType(o, SHT_STRTAB) THEN None
  ELSE [o EXCEPT !.sections =
          [k \in DOMAIN o.sections |->
             IF k - 1 \in NameTables(o)
             THEN [o.sections[k] EXCEPT !.entries = Uppercase(@)] ELSE o.sections[k]]]

(* convert_member: the loose-object pipeline. *)
ConvertMember(o) ==
  LET mid == ConvertElf(o)
  IN IF mid = None THEN None ELSE UppercaseSymbols(mid)
-----------------------------------------------------------------------------
(* convert_archive.  A member is [name, stamp, mode, body]: the body of    *)
(* "/" is the armap, a sequence of names, that of "//" the long names, and *)
(* that of any other member an object or None for what is no ELF.          *)
ConvertMap(m) == [m EXCEPT !.stamp = 0, !.mode = 0, !.body = Uppercase(@)]

ConvertNames(m) == [m EXCEPT !.stamp = 0, !.mode = 0]

ConvertBody(m) ==
  [m EXCEPT !.stamp = 0, !.mode = 644,
            !.body = IF @ = None \/ ~@.elf THEN @ ELSE ConvertMember(@)]

Failed(m) == m.name \notin {"/", "//"} /\ m.body # None /\ m.body.elf
             /\ ConvertMember(m.body) = None

(* One member that fails ends the program before anything is written. *)
ConvertArchive(members) ==
  IF \E k \in DOMAIN members : Failed(members[k]) THEN None
  ELSE [k \in DOMAIN members |->
          CASE members[k].name = "/"  -> ConvertMap(members[k])
            [] members[k].name = "//" -> ConvertNames(members[k])
            [] OTHER                  -> ConvertBody(members[k])]
-----------------------------------------------------------------------------
(* What a reader of the object sees, in the order it declares.             *)
Seen(o) ==
  LET Values(fields) == [f \in DOMAIN fields |-> Read(fields[f], o.data)]
      Entries(s) == IF Read(s.header.type, o.data) \in {SHT_SYMTAB, SHT_RELA}
                    THEN [k \in DOMAIN s.entries |-> Values(s.entries[k])] ELSE s.entries
  IN [header |-> Values(o.header),
      sections |-> [k \in DOMAIN o.sections |->
                      [header |-> Values(o.sections[k].header),
                       entries |-> Entries(o.sections[k])]]]

Whole(o) == /\ Read(o.header.shnum, o.data) = Len(o.sections)
            /\ Read(o.header.shoff, o.data) = o.at
            /\ \A k \in DOMAIN o.sections :
                 Read(o.sections[k].header.type, o.data) \in {SHT_SYMTAB, SHT_RELA} =>
                   Read(o.sections[k].header.size, o.data)
                     = Read(o.sections[k].header.entsize, o.data) * Len(o.sections[k].entries)

(* A whole big-endian object reads as it did, but for its machine and the  *)
(* case of its symbols' names; the names of its sections are their own.    *)
ObjectRight(before, after) ==
  before.data = Msb /\ Whole(before) /\ after # None =>
    LET was == Seen(before)
        is == Seen(after)
        named == {was.sections[k].header.link + 1 :
                    k \in {k \in DOMAIN was.sections : was.sections[k].header.type = SHT_SYMTAB}}
    IN /\ after.data = Lsb
       /\ is.header = [was.header EXCEPT !.machine = EM_8051]
       /\ \A k \in DOMAIN was.sections :
            is.sections[k] = IF k \in named
                             THEN [was.sections[k] EXCEPT !.entries = Uppercase(@)]
                             ELSE was.sections[k]

(* The names an archive defines, as its objects and as its armap say.      *)
Defined(members) ==
  UNION {LET o == members[k].body
         IN UNION {Elements(o.sections[t + 1].entries) : t \in NameTables(o)} :
           k \in {k \in DOMAIN members : members[k].name \notin {"/", "//"}
                                         /\ members[k].body # None /\ members[k].body.elf}}

Mapped(members) ==
  UNION {Elements(members[k].body) : k \in {k \in DOMAIN members : members[k].name = "/"}}

(* A name the linker found through the armap, it finds in a member still;  *)
(* and the archive of one library is the same whenever it was built.       *)
ArchiveRight(before, after) ==
  after # None =>
    /\ Len(after) = Len(before)
    /\ Mapped(before) \subseteq Defined(before) => Mapped(after) \subseteq Defined(after)
    /\ \A k \in DOMAIN after : after[k].stamp = 0
    /\ \A k \in DOMAIN before :
         LET was == before[k].body
         IN before[k].name \notin {"/", "//"} =>
              IF was = None \/ ~was.elf THEN after[k].body = was
              ELSE ObjectRight(was, after[k].body)
-----------------------------------------------------------------------------
(* What the programs are given: headers of fields of two bytes, a table of *)
(* no bytes without entries, and members that declare the order in which   *)
(* their section headers are found.                                        *)
IsField(field) == DOMAIN field = 1 .. 2 /\ \A n \in 1 .. 2 : field[n] \in 0 .. 255

AllFields(fields) == \A f \in DOMAIN fields : IsField(fields[f])

SectionCase(s, data) ==
  /\ DOMAIN s = {"header", "entries"}
  /\ {"type", "size", "entsize", "link"} \subseteq DOMAIN s.header /\ AllFields(s.header)
  /\ IsList(s.entries)
  /\ Big(s.header.size) = 0 => s.entries = <<>>
  /\ Read(s.header.type, data) \in {SHT_SYMTAB, SHT_RELA} =>
       \A k \in DOMAIN s.entries : AllFields(s.entries[k])

ObjectCase(o) ==
  /\ DOMAIN o = {"elf", "class", "data", "header", "at", "sections"}
  /\ {"machine", "shoff", "shnum", "shentsize"} \subseteq DOMAIN o.header /\ AllFields(o.header)
  /\ IsList(o.sections)
  /\ \A k \in DOMAIN o.sections : SectionCase(o.sections[k], o.data)

MemberCase(m) ==
  /\ DOMAIN m = {"name", "stamp", "mode", "body"}
  /\ m.name \notin {"/", "//"} /\ m.body # None /\ m.body.elf =>
       /\ ObjectCase(m.body)
       /\ \A data \in {Lsb, Msb} :
            Read(m.body.header.shoff, data) = m.body.at => m.body.data = data
=============================================================================
