------------------------- MODULE LinkCommonsProofs -------------------------
(***************************************************************************)
(* Theorems about LinkCommons, for any names, objects, declarations and    *)
(* section tables.                                                         *)
(***************************************************************************)
EXTENDS LinkCommonsSpaces, SequenceTheorems, TLAPS

(* The two tables between section indices and space names are inverse of   *)
(* each other, and nothing else has a space.                               *)
LEMMA SpaceTables ==
  /\ \A s \in SpaceSections :
       SpaceIndex(s) \in SpaceIndices /\ SpaceName(SpaceIndex(s)) = s
  /\ \A i \in SpaceIndices :
       SpaceName(i) \in SpaceSections /\ SpaceIndex(SpaceName(i)) = i
  /\ NoSpace \notin SpaceSections
  /\ PlainCommon \notin SpaceSections
  /\ SpaceIndex(PlainCommon) = NoSpace
  /\ NoSpace \notin SpaceIndices
  /\ SpaceName(NoSpace) = NoSpace
  /\ SpaceName("SHN_COMMON") = NoSpace
  /\ SpaceName("SHN_UNDEF") = NoSpace
  /\ SpaceName("DEFINED") = NoSpace
  BY DEF SpaceIndices, SpaceSections, SpaceName, SpaceIndex, NoSpace, PlainCommon

(* The arbitration and the other rows yield an entry. *)
LEMMA RowsYieldEntries ==
  ASSUME NEW e \in Entry
  PROVE  /\ \A sec \in SpaceSections \union {PlainCommon}, size \in Nat :
              AddCommon(e, sec, size) \in Entry
         /\ \A shndx : AddOther(e, shndx) \in Entry
  BY DEF Entry, AddCommon, CommonEntry, AddOther, NewEntry

(* Opening a file and collecting a common in it yield sections. *)
LEMMA SectionsAreSections ==
  /\ \A table \in Seq(Header) :
       [i \in DOMAIN table |-> SectionFromShdr(table[i])] \in Seq(Section)
  /\ \A secs \in Seq(Section), name \in SpaceSections :
       CommonSection(secs, name) \in Seq(Section)
<1>1. ASSUME NEW table \in Seq(Header)
      PROVE  [i \in DOMAIN table |-> SectionFromShdr(table[i])] \in Seq(Section)
  <2>1. /\ Len(table) \in Nat
        /\ DOMAIN table = 1 .. Len(table)
        /\ \A i \in 1 .. Len(table) : table[i] \in Header
    OBVIOUS
  <2>2. \A i \in 1 .. Len(table) : SectionFromShdr(table[i]) \in Section
    BY <2>1 DEF SectionFromShdr, Section, Header
  <2>3. [i \in DOMAIN table |-> SectionFromShdr(table[i])]
          \in [1 .. Len(table) -> Section]
    BY <2>1, <2>2
  <2>4. QED
    BY <2>1, <2>3, SeqDef
<1>2. ASSUME NEW secs \in Seq(Section), NEW name \in SpaceSections
      PROVE  CommonSection(secs, name) \in Seq(Section)
  <2>1. NewCollector(name) \in Section
    BY DEF NewCollector, Section
  <2>2. QED
    BY <2>1 DEF CommonSection
<1>3. QED
  BY <1>1, <1>2

(* What `ld -r' writes for an entry is a declaration. *)
LEMMA OutputIsDeclaration ==
  \A e \in Entry : OutputSymbol(e) \in AllDeclarations
  BY SpaceTables
  DEF Entry, OutputSymbol, LinkOutputSymbolHook, AllDeclarations, CommonIndices

(* One symbol added, whatever file it comes from: the types of what the    *)
(* hook and the arbitration may change.                                    *)
LEMMA AddSymbolTypes ==
  ASSUME TypeOK, NEW n \in Names, NEW d \in AllDeclarations, AddSymbol(n, d),
         cur \in Files
  PROVE  /\ entry' \in [Names -> Entry]
         /\ sections' \in [Files -> Seq(Section)]
         /\ todo' \in SUBSET Names
         /\ errors' \in BOOLEAN
         /\ status' \in {"reading", "refused", "linked"}
         /\ UNCHANGED <<cur, done, pass, relout, before>>
<1> DEFINE space == SpaceName(d.shndx)
<1>1. /\ space # NoSpace => space \in SpaceSections
      /\ d.shndx = "SHN_COMMON" \/ space # NoSpace => d.size \in Nat
      /\ entry[n] \in Entry
      /\ sections[cur] \in Seq(Section)
  BY SpaceTables DEF TypeOK, AllDeclarations, CommonIndices
<1>2. CASE RefuseCommon(n, d)
  BY <1>2 DEF RefuseCommon, AddSymbol, TypeOK
<1>3. CASE AddSpaceCommon(n, d)
  <2>1. /\ CommonSection(sections[cur], space) \in Seq(Section)
        /\ AddCommon(entry[n], space, d.size) \in Entry
    BY <1>1, <1>3, SectionsAreSections, RowsYieldEntries DEF AddSpaceCommon, HookSize
  <2>2. QED
    BY <1>3, <2>1 DEF AddSpaceCommon, HookSize, AddSymbol, TypeOK
<1>4. CASE AddPlainSymbol(n, d)
  <2>1. (IF d.shndx = "SHN_COMMON" THEN AddCommon(entry[n], PlainCommon, d.size)
                                   ELSE AddOther(entry[n], d.shndx)) \in Entry
    BY <1>1, RowsYieldEntries
  <2>2. QED
    BY <1>4, <2>1 DEF AddPlainSymbol, AddSymbol, TypeOK
<1>5. QED
  BY <1>2, <1>3, <1>4 DEF AddSymbol

(* Every variable starts with its type. *)
LEMMA TypeCorrectInit == Init => TypeOK
<1>1. /\ NewEntry \in Entry
      /\ [shndx |-> "SHN_UNDEF", size |-> 0] \in AllDeclarations
      /\ <<>> \in Seq(Section)
  BY DEF Entry, NewEntry, AllDeclarations
<1>2. QED
  BY <1>1 DEF Init, TypeOK

(* Every variable keeps its type: in particular no entry ever names a      *)
(* section that is neither COMMON nor one of the seven spaces.             *)
THEOREM TypeCorrect == Spec => []TypeOK
<1>1. Init => TypeOK
  BY TypeCorrectInit
<1>2. TypeOK /\ [Next]_vars => TypeOK'
  <2> SUFFICES ASSUME TypeOK, [Next]_vars
               PROVE  TypeOK'
    OBVIOUS
  <2>1. ASSUME NEW o \in Objects, OpenObject(o)
        PROVE  TypeOK'
    <3>1. sections' \in [Files -> Seq(Section)]
      BY <2>1, SectionTablesAssumption, SectionsAreSections
      DEF OpenObject, TypeOK, Files
    <3>2. QED
      BY <2>1, <3>1 DEF OpenObject, TypeOK, Files
  <2>2. ASSUME NEW n \in Names, NEW d \in Declarations, AddObjectSymbol(n, d)
        PROVE  TypeOK'
    <3>1. d \in AllDeclarations /\ cur \in Files /\ AddSymbol(n, d)
      BY <2>2, DeclarationsAssumption DEF AddObjectSymbol, Files
    <3>2. seen' \in [Names -> SUBSET Declarations]
      BY <2>2 DEF AddObjectSymbol, TypeOK
    <3>3. QED
      BY <3>1, <3>2, AddSymbolTypes DEF TypeOK
  <2>3. ASSUME NEW n \in Names, AddRelocatableSymbol(n)
        PROVE  TypeOK'
    <3>1. relout[n] \in AllDeclarations /\ cur \in Files /\ AddSymbol(n, relout[n])
      BY <2>3 DEF AddRelocatableSymbol, TypeOK, Files
    <3>2. seen' = seen
      BY <2>3 DEF AddRelocatableSymbol
    <3>3. QED
      BY <3>1, <3>2, AddSymbolTypes DEF TypeOK
  <2>4. CASE WriteRelocatable
    <3>1. \A n \in Names : OutputSymbol(entry[n]) \in AllDeclarations
      BY OutputIsDeclaration DEF TypeOK
    <3>2. NewEntry \in Entry
      BY DEF NewEntry, Entry
    <3>3. QED
      BY <2>4, <3>1, <3>2 DEF WriteRelocatable, TypeOK, Files
  <2>5. CASE FinishLink
    BY <2>5 DEF FinishLink, TypeOK
  <2>6. CASE UNCHANGED vars
    BY <2>6 DEF vars, TypeOK
  <2>7. QED
    BY <2>1, <2>2, <2>3, <2>4, <2>5, <2>6 DEF Next
<1>3. QED
  BY <1>1, <1>2, PTL DEF Spec

----------------------------------------------------------------------------
(* The strengthening the safety theorems need.  The history of a name says *)
(* what the entry it holds can be: a definition or a common was declared,  *)
(* no declaration was larger, and in a link that goes on every memory-     *)
(* space common of an undisturbed name lies in the space held.             *)
Explained(n) ==
  /\ Held(n).type = "defined" => \E d \in seen[n] : d.shndx = "DEFINED"
  /\ Held(n).type = "common" =>
       \E d \in seen[n] : /\ IsCommon(d)
                           /\ d.size = Held(n).size
                           /\ Held(n).sec = SectionOf(d)

Covered(n) ==
  /\ Held(n).type \in {"new", "undefined"} => \A d \in seen[n] : d.shndx = "SHN_UNDEF"
  /\ Held(n).type = "common" => \A d \in seen[n] : d.size <= Held(n).size
  /\ OnlySpaces(n) =>
       \A d \in seen[n] :
         IsSpaceCommon(d) => Held(n).type = "common" /\ Held(n).sec = SpaceName(d.shndx)

(* While the output of `ld -r' is being read back, each name is either     *)
(* untouched or as it was when that file was written.                      *)
Restoring ==
  cur = RelOut =>
    /\ status # "refused"
    /\ \A n \in Names : relout[n] = OutputSymbol(before[n])
    /\ \A n \in todo : entry[n] = NewEntry /\ before[n].type # "new"
    /\ \A n \in Names \ todo : entry[n] = before[n]

IInv == /\ TypeOK
        /\ Restoring
        /\ \A n \in Names : Explained(n) /\ (status # "refused" => Covered(n))

(* Adding to a fresh table the symbol written for an entry gives that      *)
(* entry back, and the hook accepts it.                                    *)
LEMMA SymbolRoundTrip ==
  ASSUME NEW e \in Entry, e.type # "new"
  PROVE  LET d == OutputSymbol(e)
             space == SpaceName(d.shndx)
         IN  /\ CheckCommonSpace(NewEntry, space)
             /\ space # NoSpace => AddCommon(NewEntry, space, d.size) = e
             /\ space = NoSpace =>
                  (IF d.shndx = "SHN_COMMON"
                   THEN AddCommon(NewEntry, PlainCommon, d.size)
                   ELSE AddOther(NewEntry, d.shndx)) = e
<1>0. CheckCommonSpace(NewEntry, SpaceName(OutputSymbol(e).shndx))
  BY DEF CheckCommonSpace, OldSpace, NewEntry
<1>1. CASE e.type = "common"
  <2>1. e = CommonEntry(e.sec, e.size) /\ e.sec \in SpaceSections \union {PlainCommon}
    BY <1>1 DEF Entry, CommonEntry
  <2>2. OutputSymbol(e) = [shndx |-> LinkOutputSymbolHook("SHN_COMMON", e.sec),
                           size |-> e.size]
    BY <1>1 DEF OutputSymbol
  <2>3. CASE e.sec = PlainCommon
    BY <1>0, <2>1, <2>2, <2>3, SpaceTables
    DEF LinkOutputSymbolHook, AddCommon, NewEntry
  <2>4. CASE e.sec \in SpaceSections
    <3>1. SpaceName(OutputSymbol(e).shndx) = e.sec
      BY <2>2, <2>4, SpaceTables DEF LinkOutputSymbolHook
    <3>2. QED
      BY <1>0, <2>1, <2>2, <2>4, <3>1, SpaceTables DEF AddCommon, NewEntry
  <2>5. QED
    BY <2>1, <2>3, <2>4
<1>2. CASE e.type = "defined"
  <2>1. OutputSymbol(e) = [shndx |-> "DEFINED", size |-> 0]
    BY <1>2 DEF OutputSymbol
  <2>2. e = [NewEntry EXCEPT !.type = "defined"]
    BY <1>2 DEF Entry, NewEntry
  <2>3. QED
    BY <1>0, <2>1, <2>2, SpaceTables DEF AddOther
<1>3. CASE e.type = "undefined"
  <2>1. OutputSymbol(e) = [shndx |-> "SHN_UNDEF", size |-> 0]
    BY <1>3 DEF OutputSymbol
  <2>2. e = [NewEntry EXCEPT !.type = "undefined"]
    BY <1>3 DEF Entry, NewEntry
  <2>3. QED
    BY <1>0, <2>1, <2>2, SpaceTables DEF AddOther, NewEntry
<1>4. QED
  BY <1>1, <1>2, <1>3 DEF Entry

(* Kinds of declaration, and what each means for the history predicates. *)
LEMMA DeclarationKinds ==
  ASSUME NEW d \in AllDeclarations
  PROVE  /\ IsSpaceCommon(d) <=> SpaceName(d.shndx) # NoSpace
         /\ IsSpaceCommon(d) =>
              /\ IsCommon(d)
              /\ SectionOf(d) = SpaceName(d.shndx)
              /\ SectionOf(d) \in SpaceSections
              /\ SpaceName(SpaceIndex(SectionOf(d))) = SectionOf(d)
              /\ d.shndx \notin {"SHN_UNDEF", "DEFINED", "SHN_COMMON"}
         /\ d.shndx = "SHN_COMMON" => SectionOf(d) = PlainCommon /\ IsCommon(d)
         /\ d.size \in Nat
         /\ IsSpaceCommon(d) \/ d.shndx \in {"SHN_COMMON", "SHN_UNDEF", "DEFINED"}
         /\ d.shndx \in {"SHN_UNDEF", "DEFINED"} => d.size = 0
<1>1. /\ \A i \in SpaceIndices : i \notin {"SHN_UNDEF", "DEFINED", "SHN_COMMON"}
      /\ CommonIndices = SpaceIndices \union {"SHN_COMMON"}
  BY DEF SpaceIndices, CommonIndices
<1>2. QED
  BY <1>1, SpaceTables DEF AllDeclarations, IsSpaceCommon, IsCommon, SectionOf

(* One more declaration of a name keeps its history explained. *)
LEMMA ObjectSymbolStep ==
  ASSUME IInv, TypeOK', NEW n \in Names, NEW d \in Declarations, AddObjectSymbol(n, d)
  PROVE  IInv'
<1> DEFINE space == SpaceName(d.shndx)
           e == entry[n]
<1>1. /\ cur \in Objects /\ cur # RelOut /\ cur' = cur
      /\ status = "reading"
      /\ d \in AllDeclarations
      /\ e \in Entry
      /\ seen \in [Names -> SUBSET Declarations]
      /\ seen' = [seen EXCEPT ![n] = @ \union {d}]
      /\ AddSymbol(n, d)
  BY DeclarationsAssumption, FilesAssumption
  DEF AddObjectSymbol, AddSymbol, IInv, TypeOK
<1>2. /\ \A m \in Names : Held(m) = entry[m] /\ Held(m)' = entry'[m]
      /\ \A m \in Names : Explained(m) /\ Covered(m)
  BY <1>1 DEF Held, IInv
<1>3. Restoring'
  BY <1>1 DEF Restoring
<1>4. /\ \A m \in Names \ {n} : entry'[m] = entry[m] /\ seen'[m] = seen[m]
      /\ seen'[n] = seen[n] \union {d}
  BY <1>1 DEF AddSymbol, RefuseCommon, AddSpaceCommon, HookSize, AddPlainSymbol, IInv, TypeOK
<1>5. ASSUME NEW m \in Names \ {n}
      PROVE  Explained(m)' /\ Covered(m)'
  <2>1. Held(m)' = Held(m) /\ seen'[m] = seen[m]
    BY <1>2, <1>4
  <2>2. QED
    BY <1>2, <2>1 DEF Explained, Covered, OnlySpaces
<1>6. Explained(n)' /\ (status' # "refused" => Covered(n)')
  <2>0. seen[n] \subseteq AllDeclarations
    BY <1>1, DeclarationsAssumption
  <2>1. CASE RefuseCommon(n, d)
    <3>1. Held(n)' = Held(n) /\ status' = "refused"
      BY <1>2, <2>1 DEF RefuseCommon
    <3>2. QED
      BY <1>2, <1>4, <3>1 DEF Explained
  <2>2. CASE AddSpaceCommon(n, d)
    <3>1. /\ Held(n)' = AddCommon(e, space, d.size)
          /\ IsSpaceCommon(d)
          /\ CheckCommonSpace(e, space)
      BY <1>1, <1>2, <2>2, DeclarationKinds DEF AddSpaceCommon, HookSize, IInv, TypeOK
    <3>2. Explained(n)'
      BY <1>1, <1>2, <1>4, <3>1, DeclarationKinds DEF Explained, AddCommon, CommonEntry
    <3>3. /\ Held(n).type = "common" => Held(n).size \in Nat
          /\ Held(n).type \in {"new", "undefined", "defined", "common"}
          /\ Held(n)'.type \in {"defined", "common"}
          /\ \A c \in seen[n] : c.size \in Nat
          /\ \A c \in seen[n] : c.shndx = "SHN_UNDEF" => c.size = 0
      BY <1>1, <1>2, <2>0, <3>1, DeclarationKinds DEF Entry, AddCommon, CommonEntry
    <3>4. Held(n)'.type = "common" => \A c \in seen'[n] : c.size <= Held(n)'.size
      BY <1>1, <1>2, <1>4, <3>1, <3>3, DeclarationKinds
      DEF Covered, AddCommon, CommonEntry
    <3>5. ASSUME OnlySpaces(n)', NEW c \in seen'[n], IsSpaceCommon(c)
          PROVE  Held(n)'.type = "common" /\ Held(n)'.sec = SpaceName(c.shndx)
      <4>1. OnlySpaces(n)
        BY <1>4, <3>5 DEF OnlySpaces
      <4>2. e.type # "defined"
        BY <1>2, <2>0, <4>1, DeclarationKinds DEF Explained, OnlySpaces
      <4>3. CASE e.type = "common"
        <5>1. PICK b \in seen[n] : IsCommon(b) /\ e.sec = SectionOf(b)
          BY <1>2, <4>3 DEF Explained
        <5>2. IsSpaceCommon(b)
          BY <2>0, <4>1, <5>1, SpaceTables
          DEF OnlySpaces, IsCommon, CommonIndices, IsSpaceCommon, SpaceIndices
        <5>3. e.sec \in SpaceSections /\ OldSpace(e) = e.sec
          BY <2>0, <4>3, <5>1, <5>2, DeclarationKinds DEF OldSpace
        <5>4. e.sec = space
          BY <3>1, <5>3, SpaceTables DEF CheckCommonSpace
        <5>5. c = d \/ SpaceName(c.shndx) = e.sec
          BY <1>2, <1>4, <3>5, <4>1 DEF Covered
        <5>6. QED
          BY <3>1, <4>3, <5>4, <5>5 DEF AddCommon, CommonEntry
      <4>4. CASE e.type \in {"new", "undefined"}
        <5>1. c = d
          BY <1>2, <1>4, <2>0, <3>5, <4>4, DeclarationKinds DEF Covered
        <5>2. QED
          BY <3>1, <4>4, <5>1 DEF AddCommon, CommonEntry
      <4>5. QED
        BY <1>2, <3>3, <4>2, <4>3, <4>4
    <3>6. QED
      BY <3>2, <3>3, <3>4, <3>5 DEF Covered
  <2>3. CASE AddPlainSymbol(n, d)
    <3>1. /\ Held(n)' = IF d.shndx = "SHN_COMMON"
                        THEN AddCommon(e, PlainCommon, d.size) ELSE AddOther(e, d.shndx)
          /\ d.shndx \in {"SHN_COMMON", "SHN_UNDEF", "DEFINED"}
          /\ ~IsSpaceCommon(d)
      BY <1>1, <1>2, <2>3, DeclarationKinds DEF AddPlainSymbol, IInv, TypeOK
    <3>2. Held(n).type = "common" => Held(n).size \in Nat
      BY <1>1, <1>2 DEF Entry
    <3>3. \A c \in seen[n] : c.size \in Nat /\ (c.shndx = "SHN_UNDEF" => c.size = 0)
      BY <2>0, DeclarationKinds
    <3>4. CASE d.shndx = "SHN_COMMON"
      <4>1. Explained(n)'
        BY <1>1, <1>2, <1>4, <3>1, <3>4, DeclarationKinds
        DEF Explained, AddCommon, CommonEntry
      <4>2. ~OnlySpaces(n)'
        BY <1>4, <3>1, <3>4 DEF OnlySpaces
      <4>3. Covered(n)'
        BY <1>1, <1>2, <1>4, <3>1, <3>2, <3>3, <3>4, <4>2, DeclarationKinds
        DEF Covered, AddCommon, CommonEntry, Entry
      <4>4. QED
        BY <4>1, <4>3
    <3>5. CASE d.shndx = "SHN_UNDEF"
      <4>1. Held(n)' = Held(n) \/ (Held(n).type = "new" /\ Held(n)'.type = "undefined")
        BY <1>2, <3>1, <3>5 DEF AddOther, NewEntry
      <4>2. /\ OnlySpaces(n)' => OnlySpaces(n)
            /\ d.size = 0
        BY <1>1, <1>4, <3>5, DeclarationKinds DEF OnlySpaces
      <4>3. QED
        BY <1>2, <1>4, <3>1, <3>2, <3>5, <4>1, <4>2 DEF Explained, Covered
    <3>6. CASE d.shndx = "DEFINED"
      <4>1. Held(n)'.type = "defined"
        BY <1>2, <3>1, <3>6 DEF AddOther, NewEntry
      <4>2. ~OnlySpaces(n)'
        BY <1>4, <3>1, <3>6 DEF OnlySpaces
      <4>3. QED
        BY <1>4, <3>6, <4>1, <4>2 DEF Explained, Covered
    <3>7. QED
      BY <3>1, <3>4, <3>5, <3>6
  <2>4. QED
    BY <1>1, <2>1, <2>2, <2>3 DEF AddSymbol
<1>7. QED
  BY <1>3, <1>5, <1>6 DEF IInv

(* Reading one symbol back from the output of `ld -r' changes nothing that *)
(* is held.                                                                *)
LEMMA RelocatableSymbolStep ==
  ASSUME IInv, NEW n \in Names, AddRelocatableSymbol(n)
  PROVE  /\ Restoring'
         /\ seen' = seen
         /\ status' = status
         /\ \A m \in Names : Held(m)' = Held(m)
<1> DEFINE d == relout[n]
           space == SpaceName(d.shndx)
<1>1. /\ cur = RelOut /\ cur' = cur
      /\ n \in todo /\ todo' = todo \ {n}
      /\ relout' = relout /\ before' = before /\ seen' = seen
      /\ status # "refused"
      /\ d = OutputSymbol(before[n])
      /\ entry[n] = NewEntry
      /\ before[n] \in Entry /\ before[n].type # "new"
      /\ entry \in [Names -> Entry]
      /\ todo \subseteq Names
      /\ Restoring
  BY DEF AddRelocatableSymbol, AddSymbol, IInv, Restoring, TypeOK
<1>2. ~RefuseCommon(n, d)
  BY <1>1, SymbolRoundTrip DEF RefuseCommon
<1>3. entry' = [entry EXCEPT ![n] = before[n]] /\ status' = status
  <2>1. CASE AddSpaceCommon(n, d)
    <3>1. space # NoSpace
      BY <2>1 DEF AddSpaceCommon, HookSize
    <3>2. AddCommon(entry[n], space, d.size) = before[n]
      BY <1>1, <3>1, SymbolRoundTrip
    <3>3. QED
      BY <1>1, <2>1, <3>2 DEF AddSpaceCommon, HookSize
  <2>2. CASE AddPlainSymbol(n, d)
    <3>1. space = NoSpace
      BY <2>2 DEF AddPlainSymbol
    <3>2. (IF d.shndx = "SHN_COMMON" THEN AddCommon(entry[n], PlainCommon, d.size)
                                     ELSE AddOther(entry[n], d.shndx)) = before[n]
      BY <1>1, <3>1, SymbolRoundTrip
    <3>3. QED
      BY <1>1, <2>2, <3>2 DEF AddPlainSymbol
  <2>3. QED
    BY <1>2, <2>1, <2>2 DEF AddRelocatableSymbol, AddSymbol
<1>4. \A m \in Names : Held(m)' = Held(m)
  BY <1>1, <1>3 DEF Held
<1>5. Restoring'
  BY <1>1, <1>3 DEF Restoring
<1>6. QED
  BY <1>1, <1>3, <1>4, <1>5

(* A step that keeps what is held and declares nothing keeps the history   *)
(* explained.                                                              *)
LEMMA HeldUnchanged ==
  ASSUME IInv, TypeOK', Restoring', seen' = seen,
         status = "refused" => status' = "refused",
         \A m \in Names : Held(m)' = Held(m)
  PROVE  IInv'
<1>1. ASSUME NEW m \in Names
      PROVE  Explained(m)' /\ (status' # "refused" => Covered(m)')
  <2>1. Held(m)' = Held(m) /\ seen'[m] = seen[m]
    OBVIOUS
  <2>2. Explained(m) /\ (status # "refused" => Covered(m))
    BY DEF IInv
  <2>3. QED
    BY <2>1, <2>2 DEF Explained, Covered, OnlySpaces
<1>2. QED
  BY <1>1 DEF IInv

(* Writing RelOut empties the table and holds every entry for it. *)
LEMMA WriteRelocatableStep ==
  ASSUME IInv, WriteRelocatable
  PROVE  Restoring' /\ \A m \in Names : Held(m)' = Held(m)
<1>1. /\ todo = {} /\ cur' = RelOut /\ before' = entry /\ status' = "reading"
      /\ todo' = {m \in Names : entry[m].type # "new"}
      /\ entry' = [m \in Names |-> NewEntry]
      /\ relout' = [m \in Names |-> OutputSymbol(entry[m])]
  BY DEF WriteRelocatable
<1>2. \A m \in Names : entry[m].type = "new" => entry[m] = NewEntry
  BY DEF IInv, TypeOK, Entry, NewEntry
<1>3. QED
  BY <1>1, <1>2 DEF Restoring, Held

(* IInv is inductive. *)
THEOREM IInvCorrect == Spec => []IInv
<1>1. Init => IInv
  <2> SUFFICES ASSUME Init PROVE IInv
    OBVIOUS
  <2>1. TypeOK
    BY TypeCorrectInit
  <2>2. Restoring
    BY FilesAssumption DEF Init, Restoring
  <2>3. \A n \in Names : Explained(n) /\ Covered(n)
    BY FilesAssumption DEF Init, Explained, Covered, Held, NewEntry, OnlySpaces
  <2>4. QED
    BY <2>1, <2>2, <2>3 DEF IInv
<1>2. IInv /\ TypeOK' /\ [Next]_vars => IInv'
  <2> SUFFICES ASSUME IInv, TypeOK', [Next]_vars
               PROVE  IInv'
    OBVIOUS
  <2>1. ASSUME NEW o \in Objects, OpenObject(o)
        PROVE  IInv'
    <3>1. /\ todo = {} /\ cur' = o /\ o # RelOut /\ status' = status
          /\ entry' = entry /\ seen' = seen
      BY <2>1, FilesAssumption DEF OpenObject
    <3>2. Restoring' /\ \A m \in Names : Held(m)' = Held(m)
      BY <3>1 DEF Restoring, Held
    <3>3. QED
      BY <3>1, <3>2, HeldUnchanged
  <2>2. ASSUME NEW n \in Names, NEW d \in Declarations, AddObjectSymbol(n, d)
        PROVE  IInv'
    BY <2>2, ObjectSymbolStep
  <2>3. ASSUME NEW n \in Names, AddRelocatableSymbol(n)
        PROVE  IInv'
    BY <2>3, RelocatableSymbolStep, HeldUnchanged
  <2>4. CASE WriteRelocatable
    <3>1. seen' = seen /\ status' = status
      BY <2>4 DEF WriteRelocatable
    <3>2. QED
      BY <2>4, <3>1, WriteRelocatableStep, HeldUnchanged
  <2>5. CASE FinishLink
    <3>1. /\ seen' = seen /\ status = "reading" /\ status' = "linked"
          /\ Restoring'
          /\ \A m \in Names : Held(m)' = Held(m)
      BY <2>5 DEF FinishLink, Restoring, Held, IInv
    <3>2. QED
      BY <3>1, HeldUnchanged
  <2>6. CASE UNCHANGED vars
    <3>1. /\ seen' = seen /\ status' = status /\ Restoring'
          /\ \A m \in Names : Held(m)' = Held(m)
      BY <2>6 DEF vars, Restoring, Held, IInv
    <3>2. QED
      BY <3>1, HeldUnchanged
  <2>7. QED
    BY <2>1, <2>2, <2>3, <2>4, <2>5, <2>6 DEF Next
<1>3. QED
  BY <1>1, <1>2, TypeCorrect, PTL DEF Spec

(* A link that was not refused holds no undisturbed name declared a common *)
(* of two memory spaces, for any objects in any order and through any      *)
(* relocatable pass.                                                       *)
THEOREM SpacesAgreeAlways == Spec => []SpacesAgree
<1>1. IInv => SpacesAgree
  <2> SUFFICES ASSUME IInv, status # "refused", NEW n \in Names, OnlySpaces(n),
                      NEW c \in seen[n], NEW d \in seen[n],
                      IsSpaceCommon(c), IsSpaceCommon(d)
               PROVE  c.shndx = d.shndx
    BY DEF SpacesAgree
  <2>1. SpaceName(c.shndx) = SpaceName(d.shndx)
    BY DEF IInv, Covered
  <2>2. QED
    BY <2>1, SpaceTables DEF IsSpaceCommon
<1>2. QED
  BY <1>1, IInvCorrect, PTL

(* Reading the output of `ld -r' restores the table of the link that wrote *)
(* it and is never refused.                                                *)
THEOREM RelinkAlwaysTransparent == Spec => []RelinkIsTransparent
<1>1. IInv => RelinkIsTransparent
  BY DEF IInv, Restoring, RelinkIsTransparent, RelinkedSame
<1>2. QED
  BY <1>1, IInvCorrect, PTL

(* The size and the space a common ends with are those of one of its       *)
(* declarations, and no declaration is larger.                             *)
THEOREM KeptIsLargestAlways == Spec => []KeptIsLargest
<1>1. IInv => KeptIsLargest
  <2> SUFFICES ASSUME IInv, status # "refused", cur = RelOut => todo = {},
                      NEW n \in Names, entry[n].type = "common"
               PROVE  /\ \A d \in seen[n] : d.size <= entry[n].size
                      /\ \E d \in seen[n] :
                           /\ IsCommon(d)
                           /\ d.size = entry[n].size
                           /\ entry[n].sec = SectionOf(d)
    BY DEF KeptIsLargest
  <2>1. Held(n) = entry[n]
    BY DEF Held
  <2>2. QED
    BY <2>1 DEF IInv, Explained, Covered
<1>2. QED
  BY <1>1, IInvCorrect, PTL

----------------------------------------------------------------------------
(* Refinement: what the objects may declare when no ordinary common and no *)
(* definition is among their symbols.                                      *)
SpacesOnly == \A d \in Declarations : IsSpaceCommon(d) \/ d.shndx = "SHN_UNDEF"

(* Then whatever is held as a common names a memory space. *)
LEMMA HeldInASpace ==
  ASSUME SpacesOnly, IInv, NEW n \in Names
  PROVE  /\ Held(n).type \in {"new", "undefined", "common"}
         /\ Held(n).type = "common" =>
              Held(n).sec \in SpaceSections /\ OldSpace(Held(n)) = Held(n).sec
         /\ Held(n).type # "common" => OldSpace(Held(n)) = NoSpace
<1>1. /\ seen[n] \subseteq Declarations /\ seen[n] \subseteq AllDeclarations
      /\ Held(n) \in Entry /\ Explained(n)
  BY DeclarationsAssumption DEF IInv, TypeOK, Held
<1>2. \A d \in seen[n] :
        d.shndx # "DEFINED" /\ (IsCommon(d) => SectionOf(d) \in SpaceSections)
  BY <1>1, DeclarationKinds, SpaceTables
  DEF SpacesOnly, IsCommon, CommonIndices, IsSpaceCommon, SpaceIndices
<1>3. Held(n).type # "defined"
  BY <1>1, <1>2 DEF Explained
<1>4. Held(n).type = "common" => Held(n).sec \in SpaceSections
  BY <1>1, <1>2 DEF Explained
<1>5. QED
  BY <1>1, <1>3, <1>4, SpaceTables DEF Entry, OldSpace

(* A step that keeps what is held is invisible. *)
LEMMA HeldUnchangedIsStutter ==
  ASSUME \A m \in Names : Held(m)' = Held(m), status' = "refused" <=> status = "refused"
  PROVE  UNCHANGED <<Home, status = "refused">>
<1>1. Home' = Home
  BY DEF Home, OldSpace
<1>2. QED
  BY <1>1

(* Every declaration an object makes is one abstract step or none. *)
LEMMA ObjectSymbolRefines ==
  ASSUME SpacesOnly, IInv, TypeOK', NEW n \in Names, NEW d \in Declarations,
         AddObjectSymbol(n, d)
  PROVE  Abstract!Next \/ UNCHANGED <<Home, status = "refused">>
<1> DEFINE space == SpaceName(d.shndx)
           e == entry[n]
<1>1. /\ cur # RelOut /\ cur' = cur
      /\ status = "reading"
      /\ d \in AllDeclarations
      /\ AddSymbol(n, d)
      /\ entry \in [Names -> Entry]
  BY DeclarationsAssumption, FilesAssumption
  DEF AddObjectSymbol, AddSymbol, IInv, TypeOK
<1>2. /\ \A m \in Names : Held(m) = entry[m] /\ Held(m)' = entry'[m]
      /\ Home = [m \in Names |-> OldSpace(entry[m])]
      /\ Home' = [m \in Names |-> OldSpace(entry'[m])]
  BY <1>1 DEF Held, Home, OldSpace
<1>3. Home[n] = OldSpace(e)
  BY <1>2
<1>4. CASE RefuseCommon(n, d)
  <2>1. /\ space \in SpaceSections
        /\ OldSpace(e) \notin {NoSpace, space}
        /\ status' = "refused"
        /\ Home' = Home
    BY <1>1, <1>2, <1>4, DeclarationKinds, SpaceTables
    DEF RefuseCommon, CheckCommonSpace, IsSpaceCommon
  <2>2. Abstract!Refuse(n, space)
    BY <1>1, <1>3, <2>1 DEF Abstract!Refuse
  <2>3. QED
    BY <2>1, <2>2 DEF Abstract!Next
<1>5. CASE AddSpaceCommon(n, d)
  <2>1. /\ space \in SpaceSections
        /\ OldSpace(e) \in {NoSpace, space}
        /\ status' = "reading"
        /\ entry' = [entry EXCEPT ![n] = AddCommon(e, space, d.size)]
    BY <1>1, <1>5, DeclarationKinds, SpaceTables
    DEF AddSpaceCommon, HookSize, CheckCommonSpace, IsSpaceCommon
  <2>2. OldSpace(CommonEntry(space, d.size)) = space
    BY <2>1, SpaceTables DEF OldSpace, CommonEntry
  <2>3. e.type # "defined" /\ (e.type = "common" => OldSpace(e) = space)
    BY <1>2, <2>1, HeldInASpace, SpaceTables
  <2>4. OldSpace(AddCommon(e, space, d.size)) = space
    BY <2>2, <2>3 DEF AddCommon
  <2>5. Home' = [Home EXCEPT ![n] = space]
    BY <1>1, <1>2, <2>1, <2>4
  <2>6. Abstract!Declare(n, space)
    BY <1>1, <1>3, <2>1, <2>5 DEF Abstract!Declare
  <2>7. QED
    BY <2>1, <2>6 DEF Abstract!Next
<1>6. CASE AddPlainSymbol(n, d)
  <2>1. d.shndx = "SHN_UNDEF" /\ status' = status
    BY <1>1, <1>6, DeclarationKinds DEF SpacesOnly, AddPlainSymbol
  <2>2. entry' = [entry EXCEPT ![n] = AddOther(e, "SHN_UNDEF")]
    BY <1>6, <2>1 DEF AddPlainSymbol
  <2>3. OldSpace(AddOther(e, "SHN_UNDEF")) = OldSpace(e)
    BY DEF AddOther, OldSpace, NewEntry
  <2>4. Home' = Home
    BY <1>1, <1>2, <2>2, <2>3
  <2>5. QED
    BY <2>1, <2>4
<1>7. QED
  BY <1>1, <1>4, <1>5, <1>6 DEF AddSymbol

(* When the objects declare only references and memory-space commons, the  *)
(* hooks implement the promise that a name has one space or no link.       *)
THEOREM SpacesOnlyImplementsOneSpace ==
  ASSUME SpacesOnly
  PROVE  Spec => ImplementsOneSpace
<1>1. Init => Abstract!Init
  BY FilesAssumption DEF Init, Abstract!Init, Home, Held, OldSpace, NewEntry
<1>2. IInv /\ TypeOK' /\ [Next]_vars => [Abstract!Next]_<<Home, status = "refused">>
  <2> SUFFICES ASSUME IInv, TypeOK', [Next]_vars
               PROVE  Abstract!Next \/ UNCHANGED <<Home, status = "refused">>
    OBVIOUS
  <2>1. ASSUME NEW o \in Objects, OpenObject(o)
        PROVE  UNCHANGED <<Home, status = "refused">>
    <3>1. (\A m \in Names : Held(m)' = Held(m)) /\ status' = status
      BY <2>1, FilesAssumption DEF OpenObject, Held
    <3>2. QED
      BY <3>1, HeldUnchangedIsStutter
  <2>2. ASSUME NEW n \in Names, NEW d \in Declarations, AddObjectSymbol(n, d)
        PROVE  Abstract!Next \/ UNCHANGED <<Home, status = "refused">>
    BY <2>2, ObjectSymbolRefines
  <2>3. ASSUME NEW n \in Names, AddRelocatableSymbol(n)
        PROVE  UNCHANGED <<Home, status = "refused">>
    BY <2>3, RelocatableSymbolStep, HeldUnchangedIsStutter
  <2>4. CASE WriteRelocatable
    <3>1. status' = status
      BY <2>4 DEF WriteRelocatable
    <3>2. QED
      BY <2>4, <3>1, WriteRelocatableStep, HeldUnchangedIsStutter
  <2>5. CASE FinishLink
    <3>1. (\A m \in Names : Held(m)' = Held(m)) /\ status = "reading" /\ status' = "linked"
      BY <2>5 DEF FinishLink, Held
    <3>2. QED
      BY <3>1, HeldUnchangedIsStutter
  <2>6. CASE UNCHANGED vars
    <3>1. (\A m \in Names : Held(m)' = Held(m)) /\ status' = status
      BY <2>6 DEF vars, Held
    <3>2. QED
      BY <3>1, HeldUnchangedIsStutter
  <2>7. QED
    BY <2>1, <2>2, <2>3, <2>4, <2>5, <2>6 DEF Next
<1>3. QED
  BY <1>1, <1>2, TypeCorrect, IInvCorrect, PTL
  DEF Spec, ImplementsOneSpace, Abstract!Spec
-----------------------------------------------------------------------------
(* The sections a file holds: what it brought, and what was made for its   *)
(* commons.                                                                *)
WellCollected(secs) ==
  /\ \A i \in DOMAIN secs : secs[i].contents => ~secs[i].common
  /\ \A i, j \in DOMAIN secs :
       /\ IsCollector(secs[i], secs[i].name)
       /\ IsCollector(secs[j], secs[i].name)
       => i = j

(* What a file brought is no collector, and holds bytes or is a common. *)
LEMMA BroughtIsWellCollected ==
  ASSUME NEW table \in Seq(Header)
  PROVE  WellCollected([i \in DOMAIN table |-> SectionFromShdr(table[i])])
BY DEF WellCollected, SectionFromShdr, IsCollector

(* A collector is made only where the space has none. *)
LEMMA CollectingKeeps ==
  ASSUME NEW secs \in Seq(Section), WellCollected(secs), NEW name
  PROVE  WellCollected(CommonSection(secs, name))
<1>1. CASE \E i \in DOMAIN secs : IsCollector(secs[i], name)
  BY <1>1 DEF CommonSection
<1>2. CASE ~\E i \in DOMAIN secs : IsCollector(secs[i], name)
  <2> DEFINE more == Append(secs, NewCollector(name))
             last == Len(secs) + 1
  <2>1. CommonSection(secs, name) = more
    BY <1>2 DEF CommonSection
  <2>2. /\ Len(secs) \in Nat /\ DOMAIN secs = 1 .. Len(secs)
        /\ DOMAIN more = 1 .. last
        /\ more[last] = NewCollector(name)
        /\ \A i \in DOMAIN secs : more[i] = secs[i]
    BY LenProperties, AppendProperties
  <2>3. /\ more[last].name = name /\ ~more[last].contents
        /\ \A i \in DOMAIN secs : ~IsCollector(more[i], name)
    BY <1>2, <2>2 DEF NewCollector
  <2> HIDE DEF more
  <2>4. \A i \in DOMAIN more : i = last \/ i \in DOMAIN secs
    BY <2>2
  <2>5. \A i \in DOMAIN more : more[i].contents => ~more[i].common
    BY <2>2, <2>3, <2>4 DEF WellCollected
  <2>6. ASSUME NEW i \in DOMAIN more, NEW j \in DOMAIN more,
               IsCollector(more[i], more[i].name), IsCollector(more[j], more[i].name)
        PROVE  i = j
    <3>1. more[j].name = more[i].name
      BY <2>6 DEF IsCollector
    <3>2. CASE i = last \/ j = last
      BY <2>3, <2>4, <2>6, <3>1, <3>2
    <3>3. CASE i \in DOMAIN secs /\ j \in DOMAIN secs
      BY <2>2, <2>6, <3>3 DEF WellCollected
    <3> QED
      BY <2>4, <3>2, <3>3
  <2> QED
    BY <2>1, <2>5, <2>6 DEF WellCollected
<1> QED
  BY <1>1, <1>2

(* The sections of every file stay so.  Only two steps touch them: opening *)
(* a file, and a memory-space common of the current one.                   *)
LEMMA AlwaysWellCollected == Spec => [](\A o \in Files : WellCollected(sections[o]))
<1> DEFINE Inv == \A o \in Files : WellCollected(sections[o])
<1>1. Init => Inv
  BY DEF Init, WellCollected
<1>2. TypeOK /\ Inv /\ [Next]_vars => Inv'
  <2> SUFFICES ASSUME TypeOK, Inv, [Next]_vars PROVE Inv'
    OBVIOUS
  <2>1. ASSUME NEW o \in Objects, OpenObject(o) PROVE Inv'
    <3>1. PICK table \in SectionTables :
            sections' = [sections EXCEPT
                           ![o] = [i \in DOMAIN table |-> SectionFromShdr(table[i])]]
      BY <2>1 DEF OpenObject
    <3>2. WellCollected([i \in DOMAIN table |-> SectionFromShdr(table[i])])
      BY SectionTablesAssumption, BroughtIsWellCollected
    <3> QED
      BY <3>1, <3>2 DEF TypeOK
  <2>2. ASSUME NEW n, NEW d, cur \in Files, AddSymbol(n, d) PROVE Inv'
    <3>1. CASE AddSpaceCommon(n, d)
      <4>1. sections' = [sections EXCEPT
                           ![cur] = CommonSection(sections[cur], SpaceName(d.shndx))]
        BY <3>1 DEF AddSpaceCommon
      <4>2. WellCollected(CommonSection(sections[cur], SpaceName(d.shndx)))
        BY <2>2, CollectingKeeps DEF TypeOK
      <4> QED
        BY <4>1, <4>2 DEF TypeOK
    <3>2. CASE UNCHANGED sections
      BY <3>2
    <3> QED
      BY <2>2, <3>1, <3>2 DEF AddSymbol, RefuseCommon, AddPlainSymbol
  <2>3. ASSUME NEW n \in Names, NEW d \in Declarations, AddObjectSymbol(n, d) PROVE Inv'
    BY <2>2, <2>3 DEF AddObjectSymbol, Files
  <2>4. ASSUME NEW n \in Names, AddRelocatableSymbol(n) PROVE Inv'
    BY <2>2, <2>4 DEF AddRelocatableSymbol, Files
  <2>5. CASE WriteRelocatable \/ FinishLink \/ UNCHANGED vars
    BY <2>5 DEF WriteRelocatable, FinishLink, vars
  <2> QED
    BY <2>1, <2>3, <2>4, <2>5 DEF Next
<1> QED
  BY <1>1, <1>2, TypeCorrect, PTL DEF Spec

(* A section with bytes in it is never taken for a common                  *)
(* (i51_elf_section_from_shdr), for any section tables and any order.      *)
THEOREM DataNeverACommon == Spec => []DataIsNeverACommon
<1>1. (\A o \in Files : WellCollected(sections[o])) => DataIsNeverACommon
  BY DEF WellCollected, DataIsNeverACommon
<1> QED
  BY <1>1, AlwaysWellCollected, PTL

(* Each file collects the commons of one space in one section              *)
(* (i51_elf_common_section), whatever sections of that name it brought.    *)
THEOREM AlwaysOneCollectorPerSpace == Spec => []OneCollectorPerSpace
<1>1. (\A o \in Files : WellCollected(sections[o])) => OneCollectorPerSpace
  BY DEF WellCollected, OneCollectorPerSpace
<1> QED
  BY <1>1, AlwaysWellCollected, PTL
=============================================================================
