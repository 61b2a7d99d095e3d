-------------------------- MODULE LinkLayoutProofs --------------------------
(***************************************************************************)
(* Proofs about LinkLayout, for any objects of any sizes and any banks.    *)
(* The inductive invariant spells out the chain of addresses as far as the *)
(* script has been followed; once the layout is linked, the chain and the  *)
(* checks give every property by arithmetic.                               *)
(***************************************************************************)
EXTENDS LinkLayout, TLAPS

(* The chain, each link once its section is placed. *)
Chain ==
  /\ placed >= 1  => addr[".text"] = 0
  /\ placed >= 2  => addr[".regbank"] = 0
  /\ placed >= 3  => addr[".rdata"] = End(".regbank")
  /\ placed >= 4  => addr[".rbss"] = End(".rdata")
  /\ placed >= 5  => addr[".bdata"] = StartOfBitBytes
  /\ placed >= 6  => addr[".bbss"] = End(".bdata")
  /\ placed >= 7  => addr[".bit"] = (End(".bbss") - BitBase) * 8
  /\ placed >= 8  => addr[".bitbss"] = End(".bit")
  /\ placed >= 9  => addr[".data"] = End(".bbss") + BytesOfBits
  /\ placed >= 10 => addr[".bss"] = End(".data")
  /\ placed >= 11 => addr[".idata"] = End(".bss")
  /\ placed >= 12 => addr[".ibss"] = End(".idata")
  /\ placed >= 13 => addr[".xdata"] = 0
  /\ placed >= 14 => addr[".xbss"] = End(".xdata")
  /\ placed >= 15 => addr[".edata"] = 0
  /\ placed >= 16 => addr[".ebss"] = End(".edata")

(* Nothing is placed before every size is known, and the outcome is        *)
(* decided when everything is placed.                                      *)
Phases ==
  /\ status \in {"assembling", "reading"} => placed = 0
  /\ status \in {"linked", "refused"} => placed = 17

(* The register area covers the banks of every finished file. *)
Reserved ==
  /\ \A b \in pending : 8 * b <= regused
  /\ \A b \in banks : 8 * b + 8 <= size[".regbank"]

Outcome ==
  /\ status = "linked" => Fits /\ stack = StackBottom
  /\ status = "refused" => ~Fits

IInv == TypeOK /\ Chain /\ Phases /\ Reserved /\ Outcome

----------------------------------------------------------------------------
(* The script, entry by entry. *)
LEMMA ScriptEntries ==
  /\ Len(Script) = 17
  /\ Script[1] = ".text"   /\ Script[2] = ".regbank" /\ Script[3] = ".rdata"
  /\ Script[4] = ".rbss"   /\ Script[5] = ".bdata"   /\ Script[6] = ".bbss"
  /\ Script[7] = ".bit"    /\ Script[8] = ".bitbss"  /\ Script[9] = ".data"
  /\ Script[10] = ".bss"   /\ Script[11] = ".idata"  /\ Script[12] = ".ibss"
  /\ Script[13] = ".xdata" /\ Script[14] = ".xbss"   /\ Script[15] = ".edata"
  /\ Script[16] = ".ebss"  /\ Script[17] = ".eeprom"
BY DEF Script

LEMMA ScriptSections ==
  /\ \A i \in 1..17 : Script[i] \in Sections
  /\ {".text", ".regbank", ".rdata", ".rbss", ".bdata", ".bbss", ".bit",
      ".bitbss", ".data", ".bss", ".idata", ".ibss", ".xdata", ".xbss",
      ".edata", ".ebss", ".eeprom"} \subseteq Sections
<1>1. \A i \in 1..17 : Script[i] \in Sections
  BY ScriptEntries DEF Sections
<1>2. /\ Script[1] \in Sections  /\ Script[2] \in Sections
      /\ Script[3] \in Sections  /\ Script[4] \in Sections
      /\ Script[5] \in Sections  /\ Script[6] \in Sections
      /\ Script[7] \in Sections  /\ Script[8] \in Sections
      /\ Script[9] \in Sections  /\ Script[10] \in Sections
      /\ Script[11] \in Sections /\ Script[12] \in Sections
      /\ Script[13] \in Sections /\ Script[14] \in Sections
      /\ Script[15] \in Sections /\ Script[16] \in Sections
      /\ Script[17] \in Sections
  BY <1>1
<1>3. QED
  BY <1>1, <1>2, ScriptEntries

(* Sizes and addresses of the named sections are natural numbers. *)
LEMMA Sized ==
  ASSUME TypeOK, NEW s \in Sections
  PROVE  size[s] \in Nat /\ addr[s] \in Nat /\ End(s) \in Nat
BY DEF TypeOK, End

LEMMA UsedIsNat == ASSUME TypeOK PROVE regused \in Nat
<1>1. regused = 0 \/ \E b \in 0..3 : regused = 8 * b
  BY BanksAssumption DEF TypeOK
<1>2. QED
  BY <1>1

LEMMA InitIInv == Init => IInv
<1> SUFFICES ASSUME Init PROVE IInv
  OBVIOUS
<1>1. TypeOK
  BY ScriptEntries DEF Init, TypeOK
<1>2. QED
  BY <1>1 DEF Init, IInv, Chain, Phases, Reserved, Outcome

----------------------------------------------------------------------------
(* The steps before the layout leave placed at 0. *)
LEMMA EarlyStep ==
  ASSUME IInv, placed = 0, placed' = 0, TypeOK', Reserved',
         status' \in {"assembling", "reading", "placing"}
  PROVE  IInv'
BY DEF IInv, Chain, Phases, Outcome

LEMMA UsingStep == ASSUME IInv, NEW b \in Banks, Using(b) PROVE IInv'
<1>1. b \in 0..3 /\ regused \in Int /\ placed = 0
  BY BanksAssumption DEF IInv, TypeOK, Using, Phases
<1>2. TypeOK'
  BY <1>1 DEF IInv, TypeOK, Using
<1>3. Reserved'
  <2>1. \A c \in pending' : 8 * c <= regused'
    <3> SUFFICES ASSUME NEW c \in pending' PROVE 8 * c <= regused'
      OBVIOUS
    <3>1. c \in 0..3
      BY <1>2, BanksAssumption DEF TypeOK
    <3>2. QED
      BY <1>1, <3>1 DEF Using, IInv, Reserved
  <2>2. QED
    BY <2>1 DEF Using, IInv, Reserved
<1>4. QED
  BY <1>1, <1>2, <1>3, EarlyStep DEF Using

LEMMA EndOfFileStep == ASSUME IInv, EndOfFile PROVE IInv'
<1>1. placed = 0 /\ regused \in Nat /\ size[".regbank"] \in Nat
  BY UsedIsNat, Sized, ScriptSections DEF IInv, EndOfFile, Phases
<1>2. RegisterArea \in Nat
  BY <1>1 DEF RegisterArea
<1>3. TypeOK'
  BY <1>1, <1>2 DEF IInv, TypeOK, EndOfFile
<1>4. Reserved'
  <2>1. size'[".regbank"] \in Nat
        /\ size'[".regbank"] >= regused + 8
        /\ size'[".regbank"] >= size[".regbank"]
    <3>1. size'[".regbank"] = IF RegisterArea > size[".regbank"]
                             THEN RegisterArea ELSE size[".regbank"]
      BY ScriptSections DEF EndOfFile, IInv, TypeOK
    <3>2. QED
      BY <1>1, <3>1 DEF RegisterArea
  <2>2. \A b \in banks' : 8 * b + 8 <= size'[".regbank"]
    <3> SUFFICES ASSUME NEW b \in banks' PROVE 8 * b + 8 <= size'[".regbank"]
      OBVIOUS
    <3>1. b \in 0..3
      BY <1>3, BanksAssumption DEF TypeOK
    <3>2. 8 * b <= regused \/ 8 * b + 8 <= size[".regbank"]
      BY DEF EndOfFile, IInv, Reserved
    <3>3. QED
      BY <1>1, <2>1, <3>1, <3>2
  <2>3. QED
    BY <2>2 DEF EndOfFile, Reserved
<1>5. QED
  BY <1>1, <1>3, <1>4, EarlyStep DEF EndOfFile, IInv, TypeOK

LEMMA StartLinkStep == ASSUME IInv, StartLink PROVE IInv'
<1>1. placed = 0 /\ TypeOK' /\ Reserved'
  BY DEF IInv, StartLink, TypeOK, Phases, Reserved
<1>2. QED
  BY <1>1, EarlyStep DEF StartLink

LEMMA ReadStep == ASSUME IInv, NEW o \in Objects, Read(o) PROVE IInv'
<1>1. placed = 0
  BY DEF IInv, Read, Phases
<1>2. /\ size' \in [Sections -> Nat]
      /\ size'[".regbank"] \in Nat /\ size'[".regbank"] >= size[".regbank"]
  <2>1. ASSUME NEW s \in Sections
        PROVE  size[s] + Contents[o][s] \in Nat /\ size[s] + Contents[o][s] >= size[s]
    <3>1. size[s] \in Nat /\ Contents[o][s] \in Nat
      BY ContentsAssumption DEF IInv, TypeOK
    <3>2. QED
      BY <3>1
  <2>2. QED
    BY <2>1, ScriptSections DEF Read
<1>3. TypeOK'
  BY <1>2 DEF IInv, Read, TypeOK
<1>4. Reserved'
  <2>1. \A b \in banks : b \in 0..3
    BY BanksAssumption DEF IInv, TypeOK
  <2>2. size[".regbank"] \in Nat
    BY ScriptSections DEF IInv, TypeOK
  <2>3. QED
    BY <1>2, <2>1, <2>2 DEF IInv, Read, Reserved
<1>5. QED
  BY <1>1, <1>3, <1>4, EarlyStep DEF Read

LEMMA StartLayoutStep == ASSUME IInv, StartLayout PROVE IInv'
<1>1. placed = 0 /\ size'[".regbank"] = size[".regbank"]
  BY ScriptSections DEF IInv, StartLayout, Phases, TypeOK
<1>2. TypeOK'
  <2>1. size[".text"] + 1 \in Nat
    BY Sized, ScriptSections DEF IInv
  <2>2. size' \in [Sections -> Nat]
    BY <2>1 DEF IInv, StartLayout, TypeOK
  <2>3. QED
    BY <2>2 DEF IInv, StartLayout, TypeOK
<1>3. Reserved'
  BY <1>1 DEF IInv, StartLayout, Reserved
<1>4. QED
  BY <1>1, <1>2, <1>3, EarlyStep DEF StartLayout

----------------------------------------------------------------------------
(* Every address expression is a natural number when its turn comes: only  *)
(* that of .bit subtracts, and .bbss ends at 0x20 or later by then.        *)
LEMMA StartIsNat ==
  ASSUME IInv, placed \in 0..16
  PROVE  StartOf(Script[placed + 1]) \in Nat
<1> USE DEF IInv
<1>1. \A s \in Sections : End(s) \in Nat
  BY Sized
<1>2. StartOfBitBytes \in Nat /\ StartOfBitBytes >= 32
  BY <1>1, ScriptSections DEF StartOfBitBytes, BitBase
<1>3. BytesOfBits \in Nat
  BY Sized, ScriptSections DEF BytesOfBits
<1>4. CASE placed = 6
  <2>1. /\ addr[".bdata"] >= 32 /\ addr[".bbss"] = addr[".bdata"] + size[".bdata"]
    BY <1>2, <1>4 DEF Chain, End
  <2>2. /\ addr[".bdata"] \in Nat /\ size[".bdata"] \in Nat
        /\ addr[".bbss"] \in Nat /\ size[".bbss"] \in Nat
    BY Sized, ScriptSections
  <2>3. (End(".bbss") - 32) * 8 \in Nat
    BY <2>1, <2>2 DEF End
  <2>4. Script[placed + 1] = ".bit"
    BY <1>4, ScriptEntries
  <2>5. QED
    BY <2>3, <2>4 DEF StartOf, BitBase
<1>5. CASE placed # 6
  <2>1. Script[placed + 1] # ".bit"
    BY <1>5, ScriptEntries
  <2>2. placed = 0 \/ Script[placed] \in Sections
    BY ScriptSections
  <2>3. placed = 0 => Script[placed + 1] = ".text"
    BY ScriptEntries
  <2>4. End(".bbss") + BytesOfBits \in Nat
    BY <1>1, <1>3, ScriptSections
  <2>5. QED
    BY <1>1, <1>2, <2>1, <2>2, <2>3, <2>4 DEF StartOf
<1>6. QED
  BY <1>4, <1>5

(* A step of the layout gives the next section its address and leaves the  *)
(* sections before it where they are.                                      *)
LEMMA PlacedStay ==
  ASSUME IInv, Place, NEW i \in 1..17
  PROVE  /\ i <= placed => addr'[Script[i]] = addr[Script[i]]
         /\ i = placed + 1 => addr'[Script[i]] = StartOf(Script[i])
<1>1. Script[placed + 1] \in Sections /\ Script[i] \in Sections
      /\ placed \in 0..16
  BY ScriptSections, ScriptEntries DEF IInv, TypeOK, Place
<1>2. i <= placed => Script[i] # Script[placed + 1]
  BY <1>1, ScriptEntries
<1>3. QED
  BY <1>1, <1>2 DEF IInv, TypeOK, Place

LEMMA PlaceKeepsChain == ASSUME IInv, Place PROVE Chain'
<1>1. placed \in 0..16 /\ placed' = placed + 1 /\ size' = size
  BY ScriptEntries DEF IInv, TypeOK, Place
<1>2. \A i \in 1..17 :
        /\ i <= placed => addr'[Script[i]] = addr[Script[i]]
        /\ i = placed + 1 => addr'[Script[i]] = StartOf(Script[i])
  BY PlacedStay
<1>3. /\ 1 <= placed => addr'[".text"] = addr[".text"]
      /\ 2 <= placed => addr'[".regbank"] = addr[".regbank"]
      /\ 3 <= placed => addr'[".rdata"] = addr[".rdata"]
      /\ 4 <= placed => addr'[".rbss"] = addr[".rbss"]
      /\ 5 <= placed => addr'[".bdata"] = addr[".bdata"]
      /\ 6 <= placed => addr'[".bbss"] = addr[".bbss"]
      /\ 7 <= placed => addr'[".bit"] = addr[".bit"]
      /\ 8 <= placed => addr'[".bitbss"] = addr[".bitbss"]
      /\ 9 <= placed => addr'[".data"] = addr[".data"]
      /\ 10 <= placed => addr'[".bss"] = addr[".bss"]
      /\ 11 <= placed => addr'[".idata"] = addr[".idata"]
      /\ 12 <= placed => addr'[".ibss"] = addr[".ibss"]
      /\ 13 <= placed => addr'[".xdata"] = addr[".xdata"]
      /\ 14 <= placed => addr'[".xbss"] = addr[".xbss"]
      /\ 15 <= placed => addr'[".edata"] = addr[".edata"]
      /\ 16 <= placed => addr'[".ebss"] = addr[".ebss"]
  BY <1>1, <1>2, ScriptEntries
<1>4. /\ placed = 0 => addr'[".text"] = StartOf(".text")
      /\ placed = 1 => addr'[".regbank"] = StartOf(".regbank")
      /\ placed = 2 => addr'[".rdata"] = StartOf(".rdata")
      /\ placed = 3 => addr'[".rbss"] = StartOf(".rbss")
      /\ placed = 4 => addr'[".bdata"] = StartOf(".bdata")
      /\ placed = 5 => addr'[".bbss"] = StartOf(".bbss")
      /\ placed = 6 => addr'[".bit"] = StartOf(".bit")
      /\ placed = 7 => addr'[".bitbss"] = StartOf(".bitbss")
      /\ placed = 8 => addr'[".data"] = StartOf(".data")
      /\ placed = 9 => addr'[".bss"] = StartOf(".bss")
      /\ placed = 10 => addr'[".idata"] = StartOf(".idata")
      /\ placed = 11 => addr'[".ibss"] = StartOf(".ibss")
      /\ placed = 12 => addr'[".xdata"] = StartOf(".xdata")
      /\ placed = 13 => addr'[".xbss"] = StartOf(".xbss")
      /\ placed = 14 => addr'[".edata"] = StartOf(".edata")
      /\ placed = 15 => addr'[".ebss"] = StartOf(".ebss")
  BY <1>1, <1>2, ScriptEntries
<1>5. /\ placed = 0 => StartOf(".text") = 0
      /\ placed = 1 => StartOf(".regbank") = 0
      /\ placed = 2 => StartOf(".rdata") = End(".regbank")
      /\ placed = 3 => StartOf(".rbss") = End(".rdata")
      /\ placed = 4 => StartOf(".bdata") = StartOfBitBytes
      /\ placed = 5 => StartOf(".bbss") = End(".bdata")
      /\ placed = 6 => StartOf(".bit") = (End(".bbss") - BitBase) * 8
      /\ placed = 7 => StartOf(".bitbss") = End(".bit")
      /\ placed = 8 => StartOf(".data") = End(".bbss") + BytesOfBits
      /\ placed = 9 => StartOf(".bss") = End(".data")
      /\ placed = 10 => StartOf(".idata") = End(".bss")
      /\ placed = 11 => StartOf(".ibss") = End(".idata")
      /\ placed = 12 => StartOf(".xdata") = 0
      /\ placed = 13 => StartOf(".xbss") = End(".xdata")
      /\ placed = 14 => StartOf(".edata") = 0
      /\ placed = 15 => StartOf(".ebss") = End(".edata")
  BY <1>1, ScriptEntries DEF StartOf
<1>6. (StartOfBitBytes' = StartOfBitBytes /\ BytesOfBits' = BytesOfBits) \/ placed < 4
  BY <1>1, <1>3 DEF StartOfBitBytes, BytesOfBits, End
<1>7. QED
  BY <1>1, <1>3, <1>4, <1>5, <1>6 DEF IInv, Chain, End

LEMMA PlaceStep == ASSUME IInv, Place PROVE IInv'
<1>1. placed \in 0..16 /\ Script[placed + 1] \in Sections
  BY ScriptEntries, ScriptSections DEF IInv, TypeOK, Place
<1>2. TypeOK'
  BY <1>1, StartIsNat, ScriptEntries DEF IInv, TypeOK, Place
<1>3. Phases' /\ Reserved' /\ Outcome'
  BY DEF IInv, Place, Phases, Reserved, Outcome
<1>4. QED
  BY <1>2, <1>3, PlaceKeepsChain DEF IInv

LEMMA FinishStep == ASSUME IInv, Finish PROVE IInv'
<1>1. placed = 17 /\ placed' = 17
  BY ScriptEntries DEF Finish
<1>2. TypeOK'
  BY Sized, ScriptSections DEF IInv, TypeOK, Finish, StackBottom
<1>3. Chain'
  BY DEF IInv, Finish, Chain, End, StartOfBitBytes, BytesOfBits
<1>4. Outcome'
  <2>1. (Fits <=> Fits') /\ StackBottom' = StackBottom
    BY DEF Finish, Fits, RamFits, BitBytesFit, BitsFit, End, StackBottom
  <2>2. QED
    BY <2>1 DEF Finish, Outcome
<1>5. QED
  BY <1>1, <1>2, <1>3, <1>4 DEF IInv, Finish, Phases, Reserved

LEMMA StutterStep == ASSUME IInv, UNCHANGED vars PROVE IInv'
BY DEF vars, IInv, TypeOK, Chain, Phases, Reserved, Outcome, Fits, RamFits,
       BitBytesFit, BitsFit, End, StackBottom, StartOfBitBytes, BytesOfBits

(* The invariant holds in every state of every link. *)
THEOREM IInvCorrect == Spec => []IInv
<1>1. IInv /\ [Next]_vars => IInv'
  <2> SUFFICES ASSUME IInv, [Next]_vars PROVE IInv'
    OBVIOUS
  <2>1. CASE \E b \in Banks : Using(b)
    BY <2>1, UsingStep
  <2>2. CASE EndOfFile
    BY <2>2, EndOfFileStep
  <2>3. CASE StartLink
    BY <2>3, StartLinkStep
  <2>4. CASE \E o \in Objects : Read(o)
    BY <2>4, ReadStep
  <2>5. CASE StartLayout
    BY <2>5, StartLayoutStep
  <2>6. CASE Place
    BY <2>6, PlaceStep
  <2>7. CASE Finish
    BY <2>7, FinishStep
  <2>8. CASE UNCHANGED vars
    BY <2>8, StutterStep
  <2>9. QED
    BY <2>1, <2>2, <2>3, <2>4, <2>5, <2>6, <2>7, <2>8 DEF Next
<1>2. QED
  BY InitIInv, <1>1, PTL DEF Spec

(* Type correctness; in particular no section gets a negative address. *)
THEOREM TypeCorrect == Spec => []TypeOK
<1>1. IInv => TypeOK
  BY DEF IInv
<1>2. QED
  BY <1>1, IInvCorrect, PTL

----------------------------------------------------------------------------
(* The chain of a complete layout, as inequalities between the ends of its *)
(* sections.                                                               *)
LEMMA Ordered ==
  ASSUME IInv, status \in {"linked", "refused"}
  PROVE  /\ addr[".text"] = 0 /\ addr[".regbank"] = 0
         /\ addr[".rdata"] = End(".regbank") /\ addr[".rbss"] = End(".rdata")
         /\ addr[".bdata"] >= 32 /\ addr[".bdata"] >= End(".rbss")
         /\ addr[".bdata"] = 32 \/ addr[".bdata"] = End(".rbss")
         /\ addr[".bbss"] = End(".bdata")
         /\ addr[".bit"] = (End(".bbss") - 32) * 8
         /\ addr[".bitbss"] = End(".bit")
         /\ 8 * (addr[".data"] - End(".bbss")) >= size[".bit"] + size[".bitbss"]
         /\ 8 * (addr[".data"] - End(".bbss")) <= size[".bit"] + size[".bitbss"] + 7
         /\ addr[".bss"] = End(".data") /\ addr[".idata"] = End(".bss")
         /\ addr[".ibss"] = End(".idata")
         /\ addr[".xdata"] = 0 /\ addr[".xbss"] = End(".xdata")
         /\ addr[".edata"] = 0 /\ addr[".ebss"] = End(".edata")
<1>1. placed = 17 /\ Chain
  BY DEF IInv, Phases
<1>2. /\ End(".rbss") \in Nat /\ End(".bbss") \in Nat
      /\ size[".bit"] \in Nat /\ size[".bitbss"] \in Nat
      /\ addr[".data"] \in Nat
  BY Sized, ScriptSections DEF IInv
<1>3. addr[".bdata"] = StartOfBitBytes /\ addr[".data"] = End(".bbss") + BytesOfBits
  BY <1>1 DEF Chain
<1>4. /\ addr[".bdata"] >= 32 /\ addr[".bdata"] >= End(".rbss")
      /\ addr[".bdata"] = 32 \/ addr[".bdata"] = End(".rbss")
  BY <1>2, <1>3 DEF StartOfBitBytes, BitBase
<1>5. /\ 8 * BytesOfBits >= size[".bit"] + size[".bitbss"]
      /\ 8 * BytesOfBits <= size[".bit"] + size[".bitbss"] + 7
      /\ BytesOfBits \in Nat
  BY <1>2 DEF BytesOfBits
<1>6. addr[".data"] - End(".bbss") = BytesOfBits
  BY <1>2, <1>3, <1>5
<1>7. QED
  BY <1>1, <1>4, <1>5, <1>6 DEF Chain, BitBase

(* Sizes and addresses of internal RAM, named one by one for arithmetic. *)
LEMMA Naturals17 ==
  ASSUME IInv
  PROVE  \A s \in {".text", ".regbank", ".rdata", ".rbss", ".bdata", ".bbss",
                   ".bit", ".bitbss", ".data", ".bss", ".idata", ".ibss",
                   ".xdata", ".xbss", ".edata", ".ebss", ".eeprom"} :
           size[s] \in Nat /\ addr[s] \in Nat
BY Sized, ScriptSections DEF IInv

(* The byte of a named bit lies between .bbss and .data. *)
LEMMA BitBytesBetween ==
  ASSUME IInv, status \in {"linked", "refused"},
         NEW t \in BitSections, NEW b \in Occupied(t)
  PROVE  /\ b \in Nat /\ ByteOfBit(b) \in Nat
         /\ End(".bbss") <= ByteOfBit(b) /\ ByteOfBit(b) < addr[".data"]
         /\ b < End(".bitbss")
<1>1. /\ size[".bit"] \in Nat /\ addr[".bit"] \in Nat /\ size[".bitbss"] \in Nat
      /\ addr[".bitbss"] \in Nat /\ size[".bbss"] \in Nat /\ addr[".bbss"] \in Nat
      /\ addr[".data"] \in Nat
  BY Naturals17
<1>2. /\ b \in Int /\ b >= addr[".bit"] /\ b < addr[".bitbss"] + size[".bitbss"]
  BY <1>1, Ordered DEF Occupied, End, BitSections
<1>3. /\ addr[".bit"] = (addr[".bbss"] + size[".bbss"] - 32) * 8
      /\ addr[".bitbss"] = addr[".bit"] + size[".bit"]
      /\ 8 * (addr[".data"] - (addr[".bbss"] + size[".bbss"])) >= size[".bit"] + size[".bitbss"]
  BY <1>1, Ordered DEF End
<1>4. /\ b \in Nat /\ b \div 8 \in Nat
      /\ 8 * (b \div 8) <= b /\ b < 8 * (b \div 8) + 8
  BY <1>1, <1>2
<1>5. QED
  BY <1>1, <1>2, <1>3, <1>4 DEF ByteOfBit, BitBase, End

(* No byte of internal RAM is given out twice, whatever the sizes. *)
THEOREM InternalRamAlwaysShared == Spec => []InternalRamIsShared
<1>1. IInv => InternalRamIsShared
  <2> SUFFICES ASSUME IInv, status = "linked"
               PROVE  /\ \A s, t \in ByteSections :
                           s # t => Occupied(s) \cap Occupied(t) = {}
                      /\ Occupied(".bit") \cap Occupied(".bitbss") = {}
                      /\ \A s \in ByteSections, t \in BitSections :
                           \A b \in Occupied(t) : ByteOfBit(b) \notin Occupied(s)
    BY DEF InternalRamIsShared
  <2> DEFINE apart(s, t) == End(s) <= addr[t] \/ End(t) <= addr[s]
  <2>1. \A s \in ByteSections \union BitSections :
          size[s] \in Nat /\ addr[s] \in Nat /\ End(s) \in Nat
    BY Naturals17 DEF ByteSections, BitSections, End
  <2>2. ASSUME NEW s \in ByteSections, NEW t \in ByteSections, s # t
        PROVE  apart(s, t)
    BY <2>1, <2>2, Ordered, Naturals17, SMTT(60) DEF ByteSections, End
  <2>3. ASSUME NEW s \in ByteSections, NEW t \in ByteSections, s # t
        PROVE  Occupied(s) \cap Occupied(t) = {}
    BY <2>1, <2>2, <2>3 DEF Occupied
  <2>4. Occupied(".bit") \cap Occupied(".bitbss") = {}
    BY <2>1, Ordered DEF Occupied, BitSections
  <2>5. ASSUME NEW s \in ByteSections
        PROVE  End(s) <= End(".bbss") \/ addr[".data"] <= addr[s]
    BY <2>1, Ordered, Naturals17, SMTT(60) DEF ByteSections, End
  <2>6. ASSUME NEW s \in ByteSections, NEW t \in BitSections, NEW b \in Occupied(t)
        PROVE  ByteOfBit(b) \notin Occupied(s)
    BY <2>1, <2>5, BitBytesBetween, Naturals17 DEF Occupied, ByteSections
  <2>7. QED
    BY <2>3, <2>4, <2>6
<1>2. QED
  BY <1>1, IInvCorrect, PTL

(* Named bits and bit-addressable bytes always have bit addresses. *)
THEOREM BitsAlwaysAddressable == Spec => []BitsAreAddressable
<1>1. IInv => BitsAreAddressable
  <2> SUFFICES ASSUME IInv, status = "linked"
               PROVE  /\ \A t \in BitSections : \A b \in Occupied(t) : b \in 0..127
                      /\ \A s \in {".bdata", ".bbss"} : Occupied(s) \subseteq 32..47
    BY DEF BitsAreAddressable, BitSpace, BitBase, BitLimit
  <2>1. BitBytesFit /\ BitsFit
    BY DEF IInv, Outcome, Fits
  <2>2. /\ size[".bit"] \in Nat /\ addr[".bit"] \in Nat
        /\ size[".bitbss"] \in Nat /\ addr[".bitbss"] \in Nat
        /\ size[".bdata"] \in Nat /\ addr[".bdata"] \in Nat
        /\ size[".bbss"] \in Nat /\ addr[".bbss"] \in Nat
    BY Naturals17
  <2>3. ASSUME NEW t \in BitSections, NEW b \in Occupied(t) PROVE b \in 0..127
    <3>1. b \in Nat /\ b < End(".bitbss")
      BY <2>3, BitBytesBetween
    <3>2. size[".bit"] + size[".bitbss"] # 0
      BY <2>2 DEF Occupied, BitSections, End
    <3>3. End(".bitbss") <= 128 /\ End(".bitbss") \in Nat
      BY <2>1, <2>2, <3>2 DEF BitsFit, BitSpace, End
    <3>4. QED
      BY <3>1, <3>3
  <2>4. ASSUME NEW s \in {".bdata", ".bbss"}, NEW a \in Occupied(s) PROVE a \in 32..47
    <3>1. size[".bdata"] + size[".bbss"] # 0
      BY <2>2 DEF Occupied, End
    <3>2. addr[".bbss"] + size[".bbss"] <= 48
      BY <2>1, <3>1 DEF BitBytesFit, BitLimit, End
    <3>3. addr[".bdata"] >= 32 /\ addr[".bbss"] = addr[".bdata"] + size[".bdata"]
      BY Ordered DEF End
    <3>4. QED
      BY <2>2, <3>2, <3>3 DEF Occupied, End
  <2>5. QED
    BY <2>3, <2>4
<1>2. QED
  BY <1>1, IInvCorrect, PTL

(* The stack always starts inside the RAM and above everything in it. *)
THEOREM StackAlwaysFree == Spec => []StackIsFree
<1>1. IInv => StackIsFree
  <2> SUFFICES ASSUME IInv, status = "linked"
               PROVE  /\ stack <= InternalRam
                      /\ \A s \in ByteSections : Occupied(s) \subseteq 0..stack - 1
                      /\ \A t \in BitSections : \A b \in Occupied(t) : ByteOfBit(b) < stack
    BY DEF StackIsFree
  <2>1. stack = End(".ibss") /\ stack <= InternalRam
    BY DEF IInv, Outcome, Fits, RamFits, StackBottom
  <2>2. \A s \in ByteSections \union BitSections :
          size[s] \in Nat /\ addr[s] \in Nat /\ End(s) \in Nat
    BY Naturals17 DEF ByteSections, BitSections, End
  <2>3. ASSUME NEW s \in ByteSections PROVE End(s) <= stack
    BY <2>1, <2>2, Ordered, Naturals17, SMTT(60) DEF ByteSections, End
  <2>4. ASSUME NEW s \in ByteSections PROVE Occupied(s) \subseteq 0..stack - 1
    BY <2>1, <2>2, <2>3 DEF Occupied, ByteSections
  <2>5. addr[".data"] <= stack
    BY <2>1, <2>2, <2>3 DEF ByteSections, End
  <2>6. ASSUME NEW t \in BitSections, NEW b \in Occupied(t) PROVE ByteOfBit(b) < stack
    BY <2>1, <2>2, <2>5, BitBytesBetween DEF ByteSections
  <2>7. QED
    BY <2>1, <2>4, <2>6
<1>2. QED
  BY <1>1, IInvCorrect, PTL

(* Every bank any file ever selected is reserved. *)
THEOREM BanksAlwaysReserved == Spec => []BanksAreReserved
<1>1. IInv => BanksAreReserved
  <2> SUFFICES ASSUME IInv, status = "linked", NEW b \in banks
               PROVE  8 * b .. 8 * b + 7 \subseteq Occupied(".regbank")
    BY DEF BanksAreReserved
  <2>1. b \in 0..3
    BY BanksAssumption DEF IInv, TypeOK
  <2>2. size[".regbank"] \in Nat /\ 8 * b + 8 <= size[".regbank"]
    BY Naturals17 DEF IInv, Reserved
  <2>3. addr[".regbank"] = 0
    BY Ordered
  <2>4. QED
    BY <2>1, <2>2, <2>3 DEF Occupied, End
<1>2. QED
  BY <1>1, IInvCorrect, PTL

(* A refused layout always has something that does not fit: otherwise all  *)
(* the sections of each space end inside it, and so do the checks' sums.   *)
THEOREM AlwaysRefusedOnlyWhenFull == Spec => []RefusedOnlyWhenFull
<1>1. IInv => RefusedOnlyWhenFull
  <2> SUFFICES ASSUME IInv, status = "refused",
                      \A s \in Sections : size[s] > 0 => ~(End(s) > SpaceEnd(s))
               PROVE  FALSE
    BY DEF RefusedOnlyWhenFull
  <2>1. ~Fits
    BY DEF IInv, Outcome
  <2>2. \A s \in {".text", ".regbank", ".rdata", ".rbss", ".bdata", ".bbss",
                   ".bit", ".bitbss", ".data", ".bss", ".idata", ".ibss",
                   ".xdata", ".xbss", ".edata", ".ebss", ".eeprom"} :
          /\ size[s] \in Nat /\ addr[s] \in Nat /\ s \in Sections
  BY Naturals17, ScriptSections
  <2>3. \A s \in {".bdata", ".bbss"} : size[s] > 0 => ~(End(s) > 48)
    <3>1. \A s \in {".bdata", ".bbss"} : s \in Sections
      BY <2>2
    <3>2. \A s \in {".bdata", ".bbss"} : SpaceEnd(s) = 48
      BY DEF SpaceEnd, BitSections, BitLimit
    <3>3. QED
      BY <3>1, <3>2
  <2>4. \A s \in BitSections : size[s] > 0 => ~(End(s) > 128)
    <3>1. \A s \in BitSections : s \in Sections
      BY <2>2 DEF BitSections
    <3>2. \A s \in BitSections : SpaceEnd(s) = 128
      BY DEF SpaceEnd, BitSections, ByteSections, BitSpace
    <3>3. QED
      BY <3>1, <3>2
  <2>5. \A s \in {".regbank", ".rdata", ".rbss", ".data", ".bss", ".idata", ".ibss"} :
          size[s] > 0 => ~(End(s) > 256)
    <3>1. \A s \in {".regbank", ".rdata", ".rbss", ".data", ".bss", ".idata", ".ibss"} :
            s \in Sections
      BY <2>2
    <3>2. \A s \in {".regbank", ".rdata", ".rbss", ".data", ".bss", ".idata", ".ibss"} :
            SpaceEnd(s) = 256
      BY DEF SpaceEnd, BitSections, ByteSections, InternalRam
    <3>3. QED
      BY <3>1, <3>2
  <2>6. \A s \in {".text", ".xdata", ".xbss", ".edata", ".ebss"} :
          size[s] > 0 => ~(End(s) > 65536)
    <3>1. \A s \in {".text", ".xdata", ".xbss", ".edata", ".ebss"} : s \in Sections
      BY <2>2
    <3>2. \A s \in {".text", ".xdata", ".xbss", ".edata", ".ebss"} : SpaceEnd(s) = 65536
      BY DEF SpaceEnd, BitSections, ByteSections, ExternalRam
    <3>3. QED
      BY <3>1, <3>2
  <2>7. BitBytesFit
    BY <2>2, <2>3, Ordered, SMTT(60) DEF BitBytesFit, BitLimit, End
  <2>8. BitsFit
    BY <2>2, <2>4, Ordered, SMTT(60) DEF BitsFit, BitSections, BitLimit, BitSpace, End
  <2>9. RamFits
    <3>1. End(".rbss") <= 256
      BY <2>2, <2>5, Ordered DEF End
    <3>2. End(".bbss") <= 256
      BY <2>2, <2>3, <3>1, Ordered DEF End
    <3>3. addr[".data"] <= 256
      <4>1. CASE size[".bit"] + size[".bitbss"] = 0
        BY <4>1, <2>2, <3>2, Ordered DEF End
      <4>2. CASE size[".bit"] + size[".bitbss"] # 0
        BY <4>2, <2>2, <2>8 DEF BitsFit, BitLimit
      <4>3. QED
        BY <4>1, <4>2
    <3>4. End(".ibss") <= 256
      BY <2>2, <2>5, <3>3, Ordered DEF End
    <3>5. QED
      BY <3>4 DEF RamFits, InternalRam
  <2>10. End(".xbss") <= ExternalRam /\ End(".ebss") <= ExternalRam
    BY <2>2, <2>6, Ordered, SMTT(60) DEF ExternalRam, End
  <2>11. End(".text") <= Rom
    BY <2>2, <2>6, Ordered DEF Rom, End
  <2>12. QED
    BY <2>1, <2>7, <2>8, <2>9, <2>10, <2>11 DEF Fits
<1>2. QED
  BY <1>1, IInvCorrect, PTL
============================================================================
