--------------------------- MODULE PeImageProofs ---------------------------
(* The image of a process, from the file to the first instruction: every     *)
(* file is laid out as it declares (PeImage), its imports are bound to whole *)
(* stubs of their own (PeImports), and every initial process starts in a     *)
(* storage of its own that holds its image (UserBootstrap).                  *)
EXTENDS PeImports, UserBootstrap, WellFoundedInduction, TLAPS

(* What the checks have established once sections are loaded.                *)
HeadersChecked ==
  stage \in {"sections", "loaded"} =>
    /\ file.size_of_image <= config.loaded_image_size
    /\ file.size_of_headers <= file.size_of_image /\ file.size_of_headers <= file.size

SectionsChecked ==
  stage \in {"sections", "loaded"} =>
    \A k \in 1 .. section - 1 : InImage(file.sections[k]) /\ HasData(file.sections[k])

FreshMemory == stage = "called" => section = 1 /\ memory = [a \in Cells |-> 1]

ImageInv == ImageTypeOK /\ HeadersChecked /\ SectionsChecked /\ FreshMemory /\ LoadedAsDeclared

(* A file whose checks all pass has its headers inside the image, and the    *)
(* image inside the buffer.                                                  *)
LEMMA PassedChecks ==
  ASSUME NEW f, NEW c, Failed(HeaderChecks(f, c)) = {}
  PROVE  /\ ~(f.size_of_image = 0 \/ f.size_of_image > c.loaded_image_size)
         /\ ~(f.size_of_headers > f.size_of_image \/ f.size_of_headers > f.size)
<1> DEFINE checks == HeaderChecks(f, c)
<1>1. 11 \in DOMAIN checks /\ 12 \in DOMAIN checks
  BY DEF HeaderChecks
<1>2. checks[11][1] = (f.size_of_image = 0 \/ f.size_of_image > c.loaded_image_size)
  BY DEF HeaderChecks
<1>3. checks[12][1] = (f.size_of_headers > f.size_of_image \/ f.size_of_headers > f.size)
  BY DEF HeaderChecks
<1>4. ~checks[11][1] /\ ~checks[12][1]
  <2> HIDE DEF checks
  <2>1. {k \in DOMAIN checks : checks[k][1]} = {}
    BY DEF Failed, checks
  <2>2. QED
    BY <1>1, <2>1
<1>5. QED
  BY <1>2, <1>3, <1>4

(* The types of the fields of an attached file.                              *)
LEMMA FileTypes ==
  ASSUME ImageTypeOK
  PROVE  /\ file.size \in Nat /\ file.content \in [0 .. file.size - 1 -> Nat]
         /\ file.sections \in Seq(Sections)
         /\ file.size_of_image \in Nat /\ file.size_of_headers \in Nat
         /\ config.loaded_image_size \in Nat /\ config.loaded_image_size <= Reach
         /\ \A k \in 1 .. Len(file.sections) :
              /\ file.sections[k].virtual_address \in Nat /\ file.sections[k].virtual_size \in Nat
              /\ file.sections[k].raw_size \in Nat /\ file.sections[k].raw_pointer \in Nat
<1>1. file \in Images /\ config \in Configs
  BY DEF ImageTypeOK
<1>2. file.sections \in Seq(Sections)
  BY <1>1, ImagesAssumption
<1>3. \A k \in 1 .. Len(file.sections) : file.sections[k] \in Sections
  BY <1>2
<1>4. QED
  BY <1>1, <1>2, <1>3, ImagesAssumption DEF Sections

\* A load begins with the invariant.
LEMMA ImageInitial == ImageInit => ImageInv
<1> SUFFICES ASSUME ImageInit PROVE ImageInv
  OBVIOUS
<1>1. file.sections \in Seq(Sections)
  BY ImagesAssumption DEF ImageInit
<1>2. Len(file.sections) \in Nat
  BY <1>1
<1>3. ImageTypeOK
  BY <1>2, SizesAssumption DEF ImageInit, ImageTypeOK
<1>4. HeadersChecked /\ SectionsChecked /\ LoadedAsDeclared
  BY DEF ImageInit, HeadersChecked, SectionsChecked, LoadedAsDeclared
<1>5. FreshMemory
  BY DEF ImageInit, FreshMemory
<1>6. QED
  BY <1>3, <1>4, <1>5 DEF ImageInv

(* The headers are in place and nothing else is.                             *)
LEMMA ChecksKeep == ImageInv /\ CheckHeaders => ImageInv'
<1> SUFFICES ASSUME ImageInv, CheckHeaders PROVE ImageInv'
  OBVIOUS
<1> USE SizesAssumption
<1>0. ImageTypeOK /\ stage = "called" /\ section = 1 /\ memory = [a \in Cells |-> 1]
      /\ UNCHANGED <<file, config, section>>
  BY DEF ImageInv, CheckHeaders, FreshMemory
<1>1. CASE stage' = "failed" /\ (memory' = memory \/ memory' = Zeroed)
  <2>1. ImageTypeOK'
    BY <1>0, <1>1 DEF ImageTypeOK, Zeroed
  <2>2. QED
    BY <1>1, <2>1 DEF ImageInv, HeadersChecked, SectionsChecked, FreshMemory, LoadedAsDeclared
<1>2. CASE /\ Failed(HeaderChecks(file, config)) = {} /\ stage' = "sections"
           /\ memory' = [a \in Cells |-> IF a < file.size_of_headers THEN file.content[a] ELSE Zeroed[a]]
  <2>1. /\ ~(file.size_of_image > config.loaded_image_size)
        /\ ~(file.size_of_headers > file.size_of_image) /\ ~(file.size_of_headers > file.size)
    BY <1>2, PassedChecks
  <2>2. HeadersChecked'
    BY <1>0, <2>1, FileTypes DEF HeadersChecked
  <2>3. ASSUME NEW a \in Cells
        PROVE  /\ memory'[a] = IF a < file.size_of_headers THEN file.content[a] ELSE Untouched(a)
               /\ memory'[a] \in Nat
    <3>1. memory'[a] = IF a < file.size_of_headers THEN file.content[a] ELSE Untouched(a)
      BY <1>0, <1>2 DEF Zeroed, Untouched
    <3>2. Untouched(a) \in Nat
      BY DEF Untouched
    <3>3. a < file.size_of_headers => file.content[a] \in Nat
      <4>1. a < file.size_of_headers => a \in 0 .. file.size - 1
        BY <1>0, <2>1, FileTypes DEF Cells
      <4>2. QED
        BY <1>0, <4>1, FileTypes
    <3>4. QED
      BY <3>1, <3>2, <3>3
  <2>4. ImageTypeOK'
    BY <1>0, <1>2, <2>3 DEF ImageTypeOK
  <2>5. SectionsChecked' /\ FreshMemory'
    BY <1>0, <1>2 DEF SectionsChecked, FreshMemory
  <2>6. LoadedAsDeclared'
    <3> SUFFICES ASSUME NEW a \in Cells PROVE memory'[a] = Declared(section - 1, a)'
      BY DEF LoadedAsDeclared
    <3>1. Covering(section - 1, a)' = {}
      BY <1>0 DEF Covering
    <3>2. Untouched(a)' = Untouched(a)
      BY <1>0 DEF Untouched
    <3>3. QED
      BY <1>0, <2>3, <3>1, <3>2 DEF Declared
  <2>7. QED
    BY <2>2, <2>4, <2>5, <2>6 DEF ImageInv
<1>3. QED
  BY <1>1, <1>2 DEF CheckHeaders, Fails

(* One more section: it decides where it reaches, the others elsewhere.      *)
LEMMA SectionKeeps == ImageInv /\ LoadSection => ImageInv'
<1> SUFFICES ASSUME ImageInv, LoadSection PROVE ImageInv'
  OBVIOUS
<1> USE SizesAssumption
<1> DEFINE s == file.sections[section]
<1>0. /\ ImageTypeOK /\ stage = "sections" /\ section <= Len(file.sections)
      /\ UNCHANGED <<file, config>>
  BY DEF ImageInv, LoadSection
<1>1. CASE stage' = "failed" /\ UNCHANGED <<memory, section>>
  <2>1. ImageTypeOK'
    BY <1>0, <1>1 DEF ImageTypeOK
  <2>2. QED
    BY <1>1, <2>1 DEF ImageInv, HeadersChecked, SectionsChecked, FreshMemory, LoadedAsDeclared
<1>2. CASE /\ InImage(s) /\ HasData(s)
           /\ memory' = Filled(Copied(memory, s), s)
           /\ section' = section + 1
           /\ UNCHANGED <<stage, status>>
  <2>0. section \in Nat /\ section \in 1 .. Len(file.sections) /\ Len(file.sections) \in Nat
    BY <1>0, FileTypes DEF ImageTypeOK
  <2>1. /\ s.virtual_address \in Nat /\ s.virtual_size \in Nat /\ s.raw_size \in Nat /\ s.raw_pointer \in Nat
        /\ file.size \in Nat /\ file.content \in [0 .. file.size - 1 -> Nat]
    BY <1>0, <2>0, FileTypes
  <2>2. MemorySize(s) \in Nat
    BY <2>1 DEF MemorySize
  <2>3. \A k \in 1 .. section : Extent(k)' = Extent(k) /\ \A a : InSection(k, a)' = InSection(k, a)
    BY <1>0 DEF Extent, InSection, MemorySize
  <2>4. ASSUME NEW a \in Cells
        PROVE  /\ memory'[a] = IF a \in Extent(section) THEN InSection(section, a) ELSE memory[a]
               /\ memory'[a] \in Nat
    <3>1. a \in Nat /\ memory[a] \in Nat
      BY <1>0 DEF Cells, ImageTypeOK
    <3>2. memory'[a] = IF a >= s.virtual_address + s.raw_size /\ a < s.virtual_address + MemorySize(s) THEN 0
                       ELSE IF a >= s.virtual_address /\ a < s.virtual_address + s.raw_size
                       THEN file.content[s.raw_pointer + (a - s.virtual_address)] ELSE memory[a]
      BY <1>2 DEF Filled, Copied
    <3>3. a \in Extent(section) <=>
            a >= s.virtual_address /\ (a < s.virtual_address + s.raw_size \/ a < s.virtual_address + MemorySize(s))
      <4> DEFINE va == s.virtual_address
                 raw == s.raw_size
                 mem == MemorySize(s)
      <4>1. Extent(section) = va .. va + (IF raw > mem THEN raw ELSE mem) - 1
        BY DEF Extent
      <4>2. va \in Nat /\ raw \in Nat /\ mem \in Nat
        BY <2>1, <2>2
      <4> HIDE DEF va, raw, mem
      <4>3. a \in Extent(section) <=> a >= va /\ (a < va + raw \/ a < va + mem)
        BY <3>1, <4>1, <4>2
      <4>4. QED
        BY <4>3 DEF va, raw, mem
    <3>4. a >= s.virtual_address /\ a < s.virtual_address + s.raw_size
            => file.content[s.raw_pointer + (a - s.virtual_address)] \in Nat
      <4> SUFFICES ASSUME a >= s.virtual_address, a < s.virtual_address + s.raw_size
                   PROVE  file.content[s.raw_pointer + (a - s.virtual_address)] \in Nat
        OBVIOUS
      <4>1. s.raw_pointer + s.raw_size <= file.size
        <5> DEFINE va == s.virtual_address
                   raw == s.raw_size
                   from == s.raw_pointer
                   size == file.size
        <5>1. va \in Nat /\ raw \in Nat /\ from \in Nat /\ size \in Nat /\ a >= va /\ a < va + raw
          BY <2>1
        <5>2. raw > 0 => raw <= size - from
          BY <1>2 DEF HasData, Embedded
        <5> HIDE DEF va, raw, from, size
        <5>3. from + raw <= size
          BY <3>1, <5>1, <5>2
        <5>4. QED
          BY <5>3 DEF raw, from, size
      <4>2. s.raw_pointer + (a - s.virtual_address) \in 0 .. file.size - 1
        <5> DEFINE va == s.virtual_address
                   raw == s.raw_size
                   from == s.raw_pointer
        <5>1. va \in Nat /\ raw \in Nat /\ from \in Nat /\ a >= va /\ a < va + raw
          BY <2>1
        <5>2. from + raw <= file.size
          BY <4>1
        <5> HIDE DEF va, raw, from
        <5>3. from + (a - va) \in 0 .. file.size - 1
          BY <2>1, <3>1, <5>1, <5>2
        <5>4. QED
          BY <5>3 DEF va, from
      <4>3. QED
        BY <2>1, <4>2
    <3>5. memory'[a] = IF a \in Extent(section) THEN InSection(section, a) ELSE memory[a]
      BY <2>1, <2>2, <3>1, <3>2, <3>3 DEF InSection
    <3>6. QED
      BY <3>1, <3>2, <3>4, <3>5
  <2>5. ImageTypeOK'
    <3>1. memory' \in [Cells -> Nat]
      BY <1>2, <2>4 DEF Filled
    <3>2. QED
      BY <1>0, <1>2, <2>0, <3>1 DEF ImageTypeOK
  <2>6. HeadersChecked' /\ FreshMemory'
    BY <1>0, <1>2 DEF ImageInv, HeadersChecked, FreshMemory
  <2>7. SectionsChecked'
    <3> SUFFICES ASSUME NEW k \in 1 .. section
                 PROVE  InImage(file.sections[k])' /\ HasData(file.sections[k])'
      BY <1>0, <1>2, <2>0 DEF SectionsChecked
    <3>1. InImage(file.sections[k]) /\ HasData(file.sections[k])
      <4>1. CASE k = section
        BY <1>2, <4>1
      <4>2. CASE k # section
        <5>1. k \in 1 .. section - 1
          BY <2>0, <4>2
        <5>2. QED
          BY <1>0, <5>1 DEF ImageInv, SectionsChecked
      <4>3. QED
        BY <4>1, <4>2
    <3>2. QED
      BY <1>0, <3>1 DEF InImage, HasData, MemorySize
  <2>8. LoadedAsDeclared'
    <3> SUFFICES ASSUME NEW a \in Cells PROVE memory'[a] = Declared(section - 1, a)'
      BY DEF LoadedAsDeclared
    <3> DEFINE C == {k \in 1 .. section : a \in Extent(k)}
    <3>1. Covering(section - 1, a)' = C
      <4>1. section' - 1 = section
        BY <1>2, <2>0
      <4>2. QED
        BY <2>3, <4>1 DEF Covering
    <3>2. memory[a] = Declared(section - 1, a)
      BY <1>0 DEF ImageInv, LoadedAsDeclared
    <3>3. Untouched(a)' = Untouched(a)
      BY <1>0 DEF Untouched
    <3>7. Declared(section - 1, a)' = IF C # {} THEN InSection(Last(C), a)
                                      ELSE IF a < file.size_of_headers THEN file.content[a] ELSE Untouched(a)
      <4> HIDE DEF C
      <4>1. QED
        BY <1>0, <3>1, <3>3 DEF Declared, InSection
    <3>4. CASE a \in Extent(section)
      <4>1. section \in C /\ \A k \in C : k \in Nat /\ k <= section
        BY <2>0, <3>4
      <4>2. Last(C) = section
        <5> HIDE DEF C
        <5>1. \A k \in C : (\A j \in C : j <= k) => k = section
          BY <2>0, <4>1
        <5>2. QED
          BY <4>1, <5>1 DEF Last
      <4>3. QED
        BY <2>4, <3>4, <3>7, <4>1, <4>2
    <3>5. CASE a \notin Extent(section)
      <4>1. C = Covering(section - 1, a)
        BY <2>0, <3>5 DEF Covering
      <4>2. memory'[a] = Declared(section - 1, a)
        BY <2>4, <3>2, <3>5
      <4>3. QED
        BY <3>7, <4>1, <4>2 DEF Declared
    <3>6. QED
      BY <3>4, <3>5
  <2>9. QED
    BY <2>5, <2>6, <2>7, <2>8 DEF ImageInv
<1>3. QED
  BY <1>1, <1>2 DEF LoadSection, Fails

(* The end of the table, and every step together.                            *)
LEMMA ImageStep == ImageInv /\ [ImageNext]_imageVars => ImageInv'
<1> SUFFICES ASSUME ImageInv, [ImageNext]_imageVars PROVE ImageInv'
  OBVIOUS
<1>1. CASE SectionsLoaded
  <2>1. stage = "sections" /\ stage' = "loaded" /\ UNCHANGED <<file, config, memory, section>>
    BY <1>1 DEF SectionsLoaded
  <2>2. ImageTypeOK' /\ HeadersChecked' /\ FreshMemory'
    BY <2>1 DEF ImageInv, ImageTypeOK, HeadersChecked, FreshMemory
  <2>3. SectionsChecked'
    BY <2>1 DEF ImageInv, SectionsChecked, InImage, HasData, MemorySize
  <2>4. LoadedAsDeclared'
    BY <2>1 DEF ImageInv, LoadedAsDeclared, Declared, Covering, Extent, InSection, MemorySize, Untouched
  <2>5. QED
    BY <2>2, <2>3, <2>4 DEF ImageInv
<1>2. CASE UNCHANGED imageVars
  <2>1. UNCHANGED <<file, config, memory, section, stage>>
    BY <1>2 DEF imageVars
  <2>2. ImageTypeOK' /\ HeadersChecked' /\ FreshMemory'
    BY <2>1 DEF ImageInv, ImageTypeOK, HeadersChecked, FreshMemory
  <2>3. SectionsChecked'
    BY <2>1 DEF ImageInv, SectionsChecked, InImage, HasData, MemorySize
  <2>4. LoadedAsDeclared'
    BY <2>1 DEF ImageInv, LoadedAsDeclared, Declared, Covering, Extent, InSection, MemorySize, Untouched
  <2>5. QED
    BY <2>2, <2>3, <2>4 DEF ImageInv
<1>3. QED
  BY <1>1, <1>2, ChecksKeep, SectionKeeps DEF ImageNext

(* pe_image.cpp:65-246: the invariant holds at every point of every load.    *)
THEOREM ImageInvariant == ImageSpec => []ImageInv
BY ImageInitial, ImageStep, PTL DEF ImageSpec

(* The loader stays inside the section table and keeps cells of the declared *)
(* type (pe_image.cpp:194-206), for every file the assumptions admit.        *)
THEOREM ImageTypeCorrect == ImageSpec => []ImageTypeOK
<1>1. ImageInv => ImageTypeOK
  BY DEF ImageInv
<1>2. QED
  BY <1>1, ImageInvariant, PTL

(* Memory is what the sections loaded so far declare, the later ones over    *)
(* the earlier ones and all over the headers (pe_image.cpp:192-240).         *)
THEOREM LayoutCorrect == ImageSpec => []LoadedAsDeclared
<1>1. ImageInv => LoadedAsDeclared
  BY DEF ImageInv
<1>2. QED
  BY <1>1, ImageInvariant, PTL

(* The copy leaves the declared image only for a section whose raw size is   *)
(* larger than its memory size (pe_image.cpp:208-231).                       *)
THEOREM OnlyOversizedDataLeaves == ImageSpec => []OnlyOversizedDataLeavesTheImage
<1>1. ImageInv => OnlyOversizedDataLeavesTheImage
  <2> SUFFICES ASSUME ImageInv, stage = "sections", NEW a \in Cells,
                      a >= file.size_of_image, memory[a] # Untouched(a)
               PROVE  \E k \in 1 .. section - 1 :
                        /\ a \in Extent(k)
                        /\ file.sections[k].raw_size > MemorySize(file.sections[k])
    BY DEF OnlyOversizedDataLeavesTheImage
  <2> USE SizesAssumption
  <2>0. ImageTypeOK /\ a \in Nat
    BY DEF ImageInv, Cells
  <2>1. memory[a] = Declared(section - 1, a)
    BY DEF ImageInv, LoadedAsDeclared
  <2>2. ~(a < file.size_of_headers)
    BY <2>0, FileTypes DEF ImageInv, HeadersChecked
  <2>3. Covering(section - 1, a) # {}
    BY <2>1, <2>2 DEF Declared
  <2>4. PICK k \in 1 .. section - 1 : a \in Extent(k)
    BY <2>3 DEF Covering
  <2> DEFINE s == file.sections[k]
             va == s.virtual_address
             raw == s.raw_size
             mem == MemorySize(s)
  <2>5. k \in 1 .. Len(file.sections)
    <3>1. Len(file.sections) \in Nat
      BY <2>0, FileTypes
    <3>2. QED
      BY <2>0, <3>1 DEF ImageTypeOK
  <2>6. va \in Nat /\ raw \in Nat /\ s.virtual_size \in Nat /\ file.size_of_image \in Nat
    BY <2>0, <2>5, FileTypes
  <2>7. mem \in Nat
    BY <2>6 DEF MemorySize
  <2>8. va <= file.size_of_image /\ mem <= file.size_of_image - va
    BY DEF ImageInv, SectionsChecked, InImage
  <2>9. a \in va .. va + (IF raw > mem THEN raw ELSE mem) - 1
    BY <2>4 DEF Extent
  <2>10. raw > mem
    <3> HIDE DEF va, raw, mem
    <3>1. QED
      BY <2>0, <2>6, <2>7, <2>8, <2>9
  <2>11. QED
    BY <2>4, <2>10
<1>2. QED
  BY <1>1, ImageInvariant, PTL

-----------------------------------------------------------------------------
(* Binding imports *)

\* A set of natural numbers that is not empty has a least element.
LEMMA LeastNatural ==
    ASSUME NEW T, T \subseteq Nat, T # {}
    PROVE  \E x \in T : \A y \in T : x <= y
  <1>1. PICK R : R = OpToRel(<, Nat)
    OBVIOUS
  <1>2. IsWellFoundedOn(R, Nat)
    BY <1>1, NatLessThanWellFounded
  <1>3. PICK x \in T : \A y \in T : ~ (<<y, x>> \in R)
    BY <1>2, WFMin
  <1>4. \A y \in Nat : y < x => <<y, x>> \in R
    BY <1>1 DEF OpToRel
  <1>5. ASSUME NEW y \in T PROVE x <= y
    <2>1. x \in Nat /\ y \in Nat
      OBVIOUS
    <2>2. ~ (y < x)
      BY <1>3, <1>4, <2>1
    <2>3. QED
      BY <2>1, <2>2
  <1>6. QED
    BY <1>5

(* The first of the matching exports is one of them.                         *)
LEMMA FirstOfExports ==
    ASSUME NEW T, T \subseteq DOMAIN Exports, T # {}
    PROVE  (CHOOSE j \in T : \A l \in T : j <= l) \in T
  <1>1. DOMAIN Exports \subseteq Nat
    BY ImportsAssumption
  <1>2. \E j \in T : \A l \in T : j <= l
    BY <1>1, LeastNatural
  <1>3. QED
    BY <1>2

(* A stub is eleven bytes.                                                   *)
LEMMA StubBytes ==
    ASSUME NEW number \in Nat, NEW j \in 1 .. StubSize
    PROVE  Stub(number)[j] \in Nat
  <1>1. /\ number % 256 \in Nat /\ (number \div 256) % 256 \in Nat
        /\ (number \div 65536) % 256 \in Nat /\ (number \div 16777216) % 256 \in Nat
    OBVIOUS
  <1>2. Stub(number) \in Seq(Nat) /\ Len(Stub(number)) = 11
    BY <1>1 DEF Stub
  <1>3. PICK s \in Seq(Nat) : s = Stub(number)
    BY <1>2
  <1>4. j \in 1 .. Len(s)
    BY <1>2, <1>3 DEF StubSize
  <1>5. s[j] \in Nat
    BY <1>4
  <1>6. QED
    BY <1>3, <1>5

-----------------------------------------------------------------------------
(* The inductive invariant of the loader *)

(* The import directory lies in the image, the stubs go behind it.           *)
CursorInTables ==
    /\ descriptor \in Nat /\ thunk \in Nat /\ next_stub \in Nat
    /\ tables.lookup \in Nat /\ tables.address \in Nat
    /\ progress \in {"descriptors", "thunks"} =>
         /\ stage = "loaded" /\ ImageSize <= next_stub
         /\ Loaded(ImportDirectory(file).virtual_address, ImportDirectory(file).size)

(* Slots lie in the image, stubs between the image and the next stub.        *)
BoundInPlace ==
    /\ bound \in Seq([slot : Nat, export : DOMAIN Exports, offset : Nat])
    /\ \A n \in DOMAIN bound :
         /\ bound[n].slot < ImageSize
         /\ ImageSize <= bound[n].offset
         /\ bound[n].offset + StubSize <= next_stub

ImportInv ==
    /\ ImageInv
    /\ progress \in {"image", "descriptors", "thunks", "returned"}
    /\ progress # "image" => stage \in {"loaded", "failed"}
    /\ progress = "image" => bound = <<>>
    /\ CursorInTables
    /\ BoundInPlace
    /\ BindingIsExact

\* The numbers that the binding code computes with.
LEMMA ImportTypes ==
    ASSUME ImportInv
    PROVE  /\ ImageSize \in Nat /\ config.image_base \in Nat
           /\ config.loaded_image_size \in Nat /\ config.loaded_image_size <= Reach /\ Reach \in Nat
           /\ stage = "loaded" => ImageSize <= config.loaded_image_size
           /\ ImportDirectory(file).virtual_address \in Nat /\ ImportDirectory(file).size \in Nat
           /\ memory \in [Cells -> Nat]
           /\ Cells = 0 .. Reach - 1
  <1>1. ImageTypeOK
    BY DEF ImportInv, ImageInv
  <1>2. file \in Images /\ config \in Configs /\ memory \in [Cells -> Nat]
    BY <1>1 DEF ImageTypeOK
  <1>3. ImportDirectory(file).virtual_address \in Nat /\ ImportDirectory(file).size \in Nat
    BY <1>2, ImportsAssumption DEF ImportDirectory, NoDirectory
  <1>4. config.image_base \in Nat
    BY <1>2, ImportsAssumption
  <1>5. stage = "loaded" => ImageSize <= config.loaded_image_size
    BY DEF ImportInv, ImageInv, HeadersChecked, ImageSize
  <1>6. QED
    BY <1>1, <1>2, <1>3, <1>4, <1>5, FileTypes, SizesAssumption DEF ImageSize, Cells

\* A load with its imports begins with the invariant.
LEMMA ImportInitial == ImportInit => ImportInv
  <1> SUFFICES ASSUME ImportInit PROVE ImportInv
    OBVIOUS
  <1>1. ImageInv
    BY ImageInitial DEF ImportInit
  <1>2. bound = <<>> /\ progress = "image" /\ DOMAIN bound = {} /\ stage = "called"
    BY DEF ImportInit, ImageInit
  <1>3. BindingIsExact
    BY <1>2 DEF BindingIsExact, ImportsLeadToTheirStubs, ImageSurvivesBinding
  <1>4. BoundInPlace /\ CursorInTables
    BY <1>2 DEF BoundInPlace, CursorInTables, ImportInit
  <1>5. QED
    BY <1>1, <1>2, <1>3, <1>4 DEF ImportInv

(* What holds of memory goes on holding while it, the file and the imports   *)
(* bound so far stay as they are.                                            *)
LEMMA FrameKeeps ==
    ASSUME ImportInv, UNCHANGED <<file, config, memory, section, stage, bound>>
    PROVE  ImageInv' /\ BindingIsExact'
  <1>1. ImageInv'
    <2>1. ImageTypeOK' /\ HeadersChecked' /\ FreshMemory'
      BY DEF ImportInv, ImageInv, ImageTypeOK, HeadersChecked, FreshMemory
    <2>2. SectionsChecked'
      BY DEF ImportInv, ImageInv, SectionsChecked, InImage, HasData, MemorySize
    <2>3. LoadedAsDeclared'
      BY DEF ImportInv, ImageInv, LoadedAsDeclared, Declared, Covering, Extent, InSection, MemorySize, Untouched
    <2>4. QED
      BY <2>1, <2>2, <2>3 DEF ImageInv
  <1>2. ImportsLeadToTheirStubs'
    BY DEF ImportInv, BindingIsExact, ImportsLeadToTheirStubs, Rebound, StubCells, ImageSize
  <1>3. ImageSurvivesBinding'
    <2>1. \A a : Declared(Len(file.sections), a)' = Declared(Len(file.sections), a)
      BY DEF Declared, Covering, Extent, InSection, MemorySize, Untouched
    <2>2. QED
      BY <2>1 DEF ImportInv, BindingIsExact, ImageSurvivesBinding, BoundSlots, StubCells
  <1>4. QED
    BY <1>1, <1>2, <1>3 DEF BindingIsExact

\* The steps of the image loader leave the import walk unbegun.
LEMMA LoadImageKeeps == ImportInv /\ LoadImage => ImportInv'
  <1> SUFFICES ASSUME ImportInv, LoadImage PROVE ImportInv'
    OBVIOUS
  <1>1. progress = "image" /\ progress' = "image" /\ bound = <<>> /\ bound' = <<>> /\ DOMAIN bound' = {}
    BY DEF ImportInv, LoadImage, importVars
  <1>2. ImageInv'
    BY ImageStep DEF ImportInv, LoadImage
  <1>3. BoundInPlace' /\ CursorInTables'
    BY <1>1 DEF ImportInv, LoadImage, importVars, BoundInPlace, CursorInTables
  <1>4. ImportsLeadToTheirStubs'
    BY <1>1 DEF ImportsLeadToTheirStubs
  <1>5. ImageSurvivesBinding'
    <2>1. SUFFICES ASSUME stage' = "loaded"
                   PROVE  \A a \in Cells : memory'[a] = Declared(Len(file.sections), a)'
      BY DEF ImageSurvivesBinding
    <2>2. SectionsLoaded
      BY <2>1 DEF LoadImage, ImageNext, CheckHeaders, LoadSection, Fails
    <2>3. /\ stage = "sections" /\ section > Len(file.sections)
          /\ UNCHANGED <<file, config, memory, section>>
      BY <2>2 DEF SectionsLoaded
    <2>4. section - 1 = Len(file.sections)
      <3>1. ImageTypeOK
        BY DEF ImportInv, ImageInv
      <3>2. Len(file.sections) \in Nat
        BY <3>1, FileTypes
      <3>3. QED
        BY <2>3, <3>1, <3>2 DEF ImageTypeOK
    <2>5. \A a \in Cells : memory[a] = Declared(Len(file.sections), a)
      BY <2>3, <2>4 DEF ImportInv, ImageInv, LoadedAsDeclared
    <2>6. \A a : Declared(Len(file.sections), a)' = Declared(Len(file.sections), a)
      BY <2>3 DEF Declared, Covering, Extent, InSection, MemorySize, Untouched
    <2>7. QED
      BY <2>3, <2>5, <2>6
  <1>6. QED
    BY <1>1, <1>2, <1>3, <1>4, <1>5 DEF ImportInv, BindingIsExact

\* The walk begins in a directory that lies in the image.
LEMMA BeginKeeps == ImportInv /\ BeginImports => ImportInv'
  <1> SUFFICES ASSUME ImportInv, BeginImports PROVE ImportInv'
    OBVIOUS
  <1>1. /\ progress = "image" /\ stage \in {"loaded", "failed"} /\ bound = <<>>
        /\ UNCHANGED <<file, config, memory, section, stage, resolver, tables, thunk, bound>>
    BY DEF BeginImports, ImportInv
  <1>2. ImageInv' /\ BindingIsExact'
    BY <1>1, FrameKeeps
  <1>3. BoundInPlace'
    BY <1>1 DEF BoundInPlace
  <1>4. CASE progress' = "returned" /\ UNCHANGED <<descriptor, next_stub>>
    BY <1>1, <1>2, <1>3, <1>4 DEF ImportInv, CursorInTables
  <1>5. CASE /\ stage = "loaded" /\ progress' = "descriptors"
             /\ Loaded(ImportDirectory(file).virtual_address, ImportDirectory(file).size)
             /\ descriptor' = ImportDirectory(file).virtual_address /\ next_stub' = ImageSize
    <2>1. CursorInTables'
      BY <1>1, <1>5, ImportTypes DEF ImportInv, CursorInTables, Loaded, ImageSize, ImportDirectory
    <2>2. QED
      BY <1>1, <1>2, <1>3, <1>5, <2>1 DEF ImportInv
  <1>6. QED
    BY <1>4, <1>5 DEF BeginImports, ImportReturns

(* A reference that resolves is an address in the image.                     *)
LEMMA RvaInImage ==
    ASSUME ImportInv, NEW reference \in Nat, Resolvable(reference)
    PROVE  Rva(reference) \in Nat /\ Rva(reference) < ImageSize
  BY ImportTypes DEF Resolvable, IsRelative, IsAbsolute, Rva

\* Reading a descriptor moves the cursor and binds nothing.
LEMMA DescriptorKeeps == ImportInv /\ ReadDescriptor => ImportInv'
  <1> SUFFICES ASSUME ImportInv, ReadDescriptor PROVE ImportInv'
    OBVIOUS
  <1>1. /\ progress = "descriptors" /\ stage = "loaded"
        /\ UNCHANGED <<file, config, memory, section, stage, resolver, descriptor, next_stub, bound>>
    BY DEF ReadDescriptor, ImportInv, CursorInTables
  <1>2. ImageInv' /\ BindingIsExact'
    BY <1>1, FrameKeeps
  <1>3. BoundInPlace'
    BY <1>1 DEF ImportInv, BoundInPlace, ImageSize
  <1>4. CASE progress' = "returned" /\ UNCHANGED <<tables, thunk>>
    BY <1>1, <1>2, <1>3, <1>4 DEF ImportInv, CursorInTables
  <1> DEFINE original == memory[descriptor]
             first == memory[descriptor + 4]
             lookup == IF original # 0 THEN original ELSE first
  <1>5. CASE /\ InDirectory /\ Resolvable(first) /\ (original # 0 => Resolvable(original))
             /\ tables'.lookup = Rva(lookup) /\ tables'.address = Rva(first)
             /\ thunk' = 0 /\ progress' = "thunks"
    <2>1. descriptor \in Cells /\ descriptor + 4 \in Cells
      <3>1. /\ descriptor \in Nat
            /\ Loaded(ImportDirectory(file).virtual_address, ImportDirectory(file).size)
        BY <1>1 DEF ImportInv, CursorInTables
      <3>2. descriptor + 5 <= ImageSize
        BY <1>5, <3>1, ImportTypes DEF InDirectory, DescriptorSize, Loaded
      <3>3. QED
        BY <1>1, <3>1, <3>2, ImportTypes
    <2>2. original \in Nat /\ first \in Nat
      BY <2>1, ImportTypes
    <2>3. lookup \in Nat /\ Resolvable(lookup)
      BY <1>5, <2>2
    <2> HIDE DEF original, first, lookup
    <2>4. Rva(lookup) \in Nat /\ Rva(first) \in Nat
      BY <1>5, <2>2, <2>3, RvaInImage
    <2>5. CursorInTables'
      BY <1>1, <1>5, <2>4 DEF ImportInv, CursorInTables, Loaded, ImageSize, ImportDirectory
    <2>6. QED
      BY <1>1, <1>2, <1>3, <1>5, <2>5 DEF ImportInv
  <1>6. QED
    BY <1>4, <1>5 DEF ReadDescriptor, ImportReturns

(* align_up moves forward.                                                   *)
LEMMA AlignsForward ==
    ASSUME NEW value \in Nat
    PROVE  AlignUp(value, StubAlignment) \in Nat /\ value <= AlignUp(value, StubAlignment)
  <1>1. value % 16 \in 0 .. 15
    OBVIOUS
  <1>2. AlignUp(value, 16) \in Nat /\ value <= AlignUp(value, 16)
    BY <1>1 DEF AlignUp
  <1>3. QED
    BY <1>2 DEF StubAlignment

(* The step that binds a thunk to export k: one stub and one slot are written. *)
Binds(k) ==
    /\ progress = "thunks" /\ Loaded(Slot, 1) /\ StubFits
    /\ memory' = [WithStub(memory, StubOffset, Exports[k].syscall) EXCEPT
                    ![Slot] = config.image_base + StubOffset]
    /\ next_stub' = StubOffset + StubSize
    /\ bound' = Append(bound, [slot |-> Slot, export |-> k, offset |-> StubOffset])
    /\ thunk' = thunk + 1
    /\ UNCHANGED <<file, config, section, stage, progress, resolver, tables, descriptor>>

\* Binding a thunk writes its slot in the image and one stub behind all others.
LEMMA BindingKeeps ==
    ASSUME ImportInv, NEW k \in DOMAIN Exports, Binds(k)
    PROVE  ImportInv'
  <1>0. /\ file' = file /\ config' = config /\ section' = section /\ stage' = stage
        /\ progress = "thunks" /\ progress' = "thunks" /\ tables' = tables /\ descriptor' = descriptor
        /\ thunk' = thunk + 1 /\ next_stub' = StubOffset + StubSize
    BY DEF Binds
  <1>1. PICK slot, off, number, base, last, size :
           /\ slot = Slot /\ off = StubOffset /\ number = Exports[k].syscall
           /\ base = config.image_base /\ last = Len(bound) /\ size = ImageSize
    OBVIOUS
  <1>2. /\ stage = "loaded" /\ next_stub \in Nat /\ size <= next_stub
        /\ descriptor \in Nat /\ thunk \in Nat /\ tables.lookup \in Nat /\ tables.address \in Nat
        /\ Loaded(ImportDirectory(file).virtual_address, ImportDirectory(file).size)
    BY <1>0, <1>1 DEF ImportInv, CursorInTables
  <1>3. /\ size \in Nat /\ base \in Nat /\ size <= config.loaded_image_size
        /\ config.loaded_image_size \in Nat /\ config.loaded_image_size <= Reach /\ Reach \in Nat
        /\ memory \in [Cells -> Nat] /\ Cells = 0 .. Reach - 1
    BY <1>1, <1>2, ImportTypes
  <1>4. number \in Nat
    <2>1. PICK R : R = [dll : Seq(Nat), symbol : Seq(Nat), syscall : Nat]
      OBVIOUS
    <2>2. Exports \in Seq(R)
      BY <2>1, ImportsAssumption
    <2>3. Exports[k] \in R
      BY <2>2
    <2>4. QED
      BY <1>1, <2>1, <2>3
  <1>5. slot \in Nat /\ slot < size /\ slot \in Cells
    <2>1. slot \in Nat
      BY <1>1, <1>2 DEF Slot
    <2>2. slot < size
      BY <1>1, <1>3, <2>1 DEF Loaded, Binds
    <2>3. QED
      BY <1>3, <2>1, <2>2
  <1>6. /\ off \in Nat /\ next_stub <= off /\ size <= off
        /\ off + 11 <= config.loaded_image_size
    <2>1. off \in Nat /\ next_stub <= off
      BY <1>1, <1>2, AlignsForward DEF StubOffset
    <2>2. QED
      BY <1>1, <1>2, <1>3, <2>1 DEF StubFits, StubSize, Binds
  <1>7. /\ memory' \in [Cells -> Nat]
        /\ memory'[slot] = base + off
        /\ \A a \in Cells : a \in off .. off + 10 => memory'[a] = Stub(number)[a - off + 1]
        /\ \A a \in Cells : a # slot /\ a \notin off .. off + 10 => memory'[a] = memory[a]
    <2>1. PICK m : m = WithStub(memory, off, number)
      OBVIOUS
    <2>2. m = [a \in Cells |-> IF a - off + 1 \in 1 .. 11 THEN Stub(number)[a - off + 1] ELSE memory[a]]
      BY <2>1 DEF WithStub, StubSize
    <2>3. memory' = [m EXCEPT ![slot] = base + off]
      BY <1>1, <2>1 DEF Binds
    <2>4. \A a \in Cells : a \in off .. off + 10 <=> a - off + 1 \in 1 .. 11
      BY <1>3, <1>6
    <2>5. \A j \in 1 .. 11 : Stub(number)[j] \in Nat
      BY <1>4, StubBytes DEF StubSize
    <2>6. m \in [Cells -> Nat]
      <3>1. ASSUME NEW a \in Cells
            PROVE  (IF a - off + 1 \in 1 .. 11 THEN Stub(number)[a - off + 1] ELSE memory[a]) \in Nat
        BY <1>3, <2>5
      <3>2. QED
        BY <2>2, <3>1
    <2>7. memory' \in [Cells -> Nat] /\ memory'[slot] = base + off
      BY <1>3, <1>5, <1>6, <2>3, <2>6
    <2>8. slot \notin off .. off + 10
      BY <1>5, <1>6, <1>3
    <2>9. \A a \in Cells : a # slot => memory'[a] = m[a]
      BY <2>3, <2>6
    <2>10. QED
      BY <2>2, <2>4, <2>7, <2>8, <2>9
  <1>8. PICK entry : entry = [slot |-> slot, export |-> k, offset |-> off]
    OBVIOUS
  <1>9. PICK Entries : Entries = [slot : Nat, export : DOMAIN Exports, offset : Nat]
    OBVIOUS
  <1>10. /\ entry \in Entries /\ bound \in Seq(Entries) /\ bound' = Append(bound, entry)
         /\ entry.slot = slot /\ entry.export = k /\ entry.offset = off
    <2>1. entry \in Entries /\ entry.slot = slot /\ entry.export = k /\ entry.offset = off
      BY <1>5, <1>6, <1>8, <1>9
    <2>2. bound \in Seq(Entries)
      BY <1>9 DEF ImportInv, BoundInPlace
    <2>3. bound' = Append(bound, entry)
      BY <1>1, <1>8 DEF Binds
    <2>4. QED
      BY <2>1, <2>2, <2>3
  <1>11. /\ last \in Nat /\ DOMAIN bound = 1 .. last /\ DOMAIN bound' = 1 .. last + 1
         /\ \A n \in 1 .. last : bound'[n] = bound[n]
         /\ bound'[last + 1] = entry
         /\ bound' \in Seq(Entries)
    BY <1>1, <1>10
  <1>12. \A n \in 1 .. last :
            /\ bound[n].slot \in Nat /\ bound[n].offset \in Nat /\ bound[n].export \in DOMAIN Exports
            /\ bound[n].slot < size /\ size <= bound[n].offset /\ bound[n].offset + 11 <= next_stub
    <2>1. \A n \in 1 .. last : bound[n] \in Entries
      BY <1>10, <1>11
    <2>2. \A n \in 1 .. last : /\ bound[n].slot < size /\ size <= bound[n].offset
                               /\ bound[n].offset + 11 <= next_stub
      BY <1>1, <1>11 DEF ImportInv, BoundInPlace, StubSize
    <2>3. QED
      BY <1>9, <2>1, <2>2
  <1>13. ImageSize' = size /\ config' = config /\ stage' = "loaded" /\ next_stub' = off + 11
    BY <1>0, <1>1, <1>2 DEF ImageSize, StubSize
  <1>14. ImageInv'
    <2>1. ImageTypeOK'
      BY <1>0, <1>7 DEF ImportInv, ImageInv, ImageTypeOK, Cells
    <2>2. HeadersChecked'
      BY <1>0 DEF ImportInv, ImageInv, HeadersChecked
    <2>3. SectionsChecked'
      BY <1>0 DEF ImportInv, ImageInv, SectionsChecked, InImage, HasData, MemorySize
    <2>4. LoadedAsDeclared' /\ FreshMemory'
      BY <1>13 DEF LoadedAsDeclared, FreshMemory
    <2>5. QED
      BY <2>1, <2>2, <2>3, <2>4 DEF ImageInv
  <1>15. CursorInTables'
    <2>1. next_stub' \in Nat /\ size <= next_stub' /\ thunk' \in Nat
      BY <1>0, <1>2, <1>3, <1>6, <1>13
    <2>2. QED
      BY <1>0, <1>2, <1>13, <2>1 DEF CursorInTables, Loaded, ImportDirectory, ImageSize
  <1>16. BoundInPlace'
    <2>1. ASSUME NEW n \in 1 .. last + 1
          PROVE  /\ bound'[n].slot < size /\ size <= bound'[n].offset
                 /\ bound'[n].offset + 11 <= off + 11
      <3>1. CASE n \in 1 .. last
        BY <1>2, <1>6, <1>11, <1>12, <3>1
      <3>2. CASE n = last + 1
        BY <1>5, <1>6, <1>10, <1>11, <3>2
      <3>3. QED
        BY <1>11, <3>1, <3>2
    <2>2. QED
      BY <1>9, <1>11, <1>13, <2>1 DEF BoundInPlace, StubSize
  <1>17. ImportsLeadToTheirStubs'
    <2>1. ASSUME NEW n \in 1 .. last + 1
          PROVE  /\ Rebound(n)' \/ memory'[bound'[n].slot] = base + bound'[n].offset
                 /\ bound'[n].offset .. bound'[n].offset + 10 \subseteq size .. config.loaded_image_size - 1
                 /\ \A a \in bound'[n].offset .. bound'[n].offset + 10 :
                      memory'[a] = Stub(Exports[bound'[n].export].syscall)[a - bound'[n].offset + 1]
      <3>1. CASE n \in 1 .. last
        <4>1. bound'[n] = bound[n]
          BY <1>11, <3>1
        <4>2. PICK s, o, x : s = bound[n].slot /\ o = bound[n].offset /\ x = bound[n].export
          OBVIOUS
        <4>3. s \in Nat /\ o \in Nat /\ s < size /\ size <= o /\ o + 11 <= next_stub
          BY <1>12, <3>1, <4>2
        <4>4. /\ Rebound(n) \/ memory[s] = base + o
              /\ o .. o + 10 \subseteq size .. config.loaded_image_size - 1
              /\ \A a \in o .. o + 10 : memory[a] = Stub(Exports[x].syscall)[a - o + 1]
          <5>1. StubCells(n) = o .. o + 11 - 1
            BY <4>2 DEF StubCells, StubSize
          <5>2. o + 11 - 1 = o + 10
            BY <4>3
          <5>3. QED
            BY <1>1, <1>11, <3>1, <4>2, <5>1, <5>2 DEF ImportInv, BindingIsExact, ImportsLeadToTheirStubs
        <4>5. Rebound(n)' \/ memory'[s] = base + o
          <5>1. CASE Rebound(n)
            <6>1. PICK m \in DOMAIN bound : m > n /\ bound[m].slot = bound[n].slot
              BY <5>1 DEF Rebound
            <6>2. m \in DOMAIN bound' /\ bound'[m] = bound[m]
              BY <1>11
            <6>3. QED
              BY <4>1, <6>1, <6>2 DEF Rebound
          <5>2. CASE s = slot
            <6>1. last + 1 \in DOMAIN bound' /\ last + 1 > n
              BY <1>11, <3>1
            <6>2. QED
              BY <1>10, <1>11, <4>1, <4>2, <5>2, <6>1 DEF Rebound
          <5>3. CASE ~Rebound(n) /\ s # slot
            <6>1. s \in Cells /\ s \notin off .. off + 10
              BY <1>3, <1>6, <4>3
            <6>2. QED
              BY <1>7, <4>4, <5>3, <6>1
          <5>4. QED
            BY <5>1, <5>2, <5>3
        <4>6. ASSUME NEW a \in o .. o + 10
              PROVE  memory'[a] = Stub(Exports[x].syscall)[a - o + 1]
          <5>1. a \in Cells /\ a # slot /\ a \notin off .. off + 10
            BY <1>2, <1>3, <1>5, <1>6, <4>3, <4>6
          <5>2. QED
            BY <1>7, <4>4, <5>1
        <4>7. QED
          BY <4>1, <4>2, <4>4, <4>5, <4>6
      <3>2. CASE n = last + 1
        <4>1. bound'[n].slot = slot /\ bound'[n].offset = off /\ bound'[n].export = k
          BY <1>10, <1>11, <3>2
        <4>2. off .. off + 10 \subseteq size .. config.loaded_image_size - 1 /\ off .. off + 10 \subseteq Cells
          BY <1>3, <1>6
        <4>3. QED
          BY <1>1, <1>7, <4>1, <4>2
      <3>3. QED
        BY <1>11, <3>1, <3>2
    <2>2. ASSUME NEW n \in 1 .. last + 1 PROVE StubCells(n)' = bound'[n].offset .. bound'[n].offset + 10
      <3>1. bound'[n].offset \in Nat
        <4>1. bound'[n] \in Entries
          BY <1>11
        <4>2. QED
          BY <1>9, <4>1
      <3>2. bound'[n].offset + 11 - 1 = bound'[n].offset + 10
        BY <3>1
      <3>3. QED
        BY <3>2 DEF StubCells, StubSize
    <2>3. ASSUME NEW n \in 1 .. last + 1
          PROVE  /\ Rebound(n)' \/ memory'[bound'[n].slot] = config'.image_base + bound'[n].offset
                 /\ StubCells(n)' \subseteq ImageSize' .. config'.loaded_image_size - 1
                 /\ \A a \in StubCells(n)' :
                      memory'[a] = Stub(Exports[bound'[n].export].syscall)[a - bound'[n].offset + 1]
      <3>1. StubCells(n)' = bound'[n].offset .. bound'[n].offset + 10
        BY <2>2
      <3>2. Rebound(n)' \/ memory'[bound'[n].slot] = config'.image_base + bound'[n].offset
        BY <1>1, <1>13, <2>1
      <3>3. StubCells(n)' \subseteq ImageSize' .. config'.loaded_image_size - 1
        BY <1>13, <2>1, <3>1
      <3>4. \A a \in StubCells(n)' :
               memory'[a] = Stub(Exports[bound'[n].export].syscall)[a - bound'[n].offset + 1]
        BY <2>1, <3>1
      <3>5. QED
        BY <3>2, <3>3, <3>4
    <2>4. QED
      BY <1>11, <2>3 DEF ImportsLeadToTheirStubs
  <1>18. ImageSurvivesBinding'
    <2>1. SUFFICES ASSUME NEW a \in Cells
                   PROVE  \/ memory'[a] = Declared(Len(file.sections), a)
                          \/ a \in BoundSlots'
                          \/ \E n \in DOMAIN bound' : a \in StubCells(n)'
      <3>1. \A b : Declared(Len(file.sections), b)' = Declared(Len(file.sections), b)
        BY <1>0 DEF Declared, Covering, Extent, InSection, MemorySize, Untouched
      <3>2. QED
        BY <3>1 DEF ImageSurvivesBinding
    <2>2. last + 1 \in DOMAIN bound' /\ \A n \in DOMAIN bound : n \in DOMAIN bound' /\ bound'[n] = bound[n]
      BY <1>11
    <2>3. CASE a = slot
      BY <1>10, <1>11, <2>2, <2>3 DEF BoundSlots
    <2>4. CASE a \in off .. off + 10
      <3>1. off + 11 - 1 = off + 10
        BY <1>6
      <3>2. StubCells(last + 1)' = off .. off + 10
        BY <1>10, <1>11, <3>1 DEF StubCells, StubSize
      <3>3. QED
        BY <2>2, <2>4, <3>2
    <2>5. CASE a # slot /\ a \notin off .. off + 10
      <3>1. memory'[a] = memory[a]
        BY <1>7, <2>5
      <3>2. \/ memory[a] = Declared(Len(file.sections), a)
            \/ a \in BoundSlots \/ \E n \in DOMAIN bound : a \in StubCells(n)
        BY <1>2 DEF ImportInv, BindingIsExact, ImageSurvivesBinding
      <3>3. a \in BoundSlots => a \in BoundSlots'
        BY <2>2 DEF BoundSlots
      <3>4. \A n \in DOMAIN bound : StubCells(n)' = StubCells(n)
        BY <2>2 DEF StubCells
      <3>5. QED
        BY <2>2, <3>1, <3>2, <3>3, <3>4
    <2>6. QED
      BY <2>3, <2>4, <2>5
  <1>19. QED
    BY <1>0, <1>13, <1>14, <1>15, <1>16, <1>17, <1>18 DEF ImportInv, BindingIsExact

\* Every way out of a thunk, whether it is bound, refused or the last.
LEMMA ThunkKeeps == ImportInv /\ BindThunk => ImportInv'
  <1> SUFFICES ASSUME ImportInv, BindThunk PROVE ImportInv'
    OBVIOUS
  <1>1. /\ progress = "thunks" /\ stage = "loaded"
        /\ UNCHANGED <<file, config, section, stage, resolver, tables>>
    BY DEF BindThunk, ImportInv, CursorInTables
  <1>2. CASE UNCHANGED <<memory, next_stub, bound, thunk>> /\ progress' \in {"returned", "descriptors"}
                 /\ descriptor' \in {descriptor, descriptor + DescriptorSize}
    <2>1. ImageInv' /\ BindingIsExact'
      BY <1>1, <1>2, FrameKeeps
    <2>2. BoundInPlace'
      BY <1>1, <1>2 DEF ImportInv, BoundInPlace, ImageSize
    <2>3. descriptor' \in Nat
      BY <1>2 DEF ImportInv, CursorInTables, DescriptorSize
    <2>4. CursorInTables'
      BY <1>1, <1>2, <2>3 DEF ImportInv, CursorInTables, Loaded, ImageSize, ImportDirectory
    <2>5. QED
      BY <1>1, <1>2, <2>1, <2>2, <2>4 DEF ImportInv
  <1>3. CASE \E k \in DOMAIN Exports : Binds(k)
    BY <1>3, BindingKeeps
  <1>4. CASE Loaded(Slot, 1) /\ UNCHANGED descriptor /\ ResolveImport(ReadName(Rva(Entry) + 2))
    <2>1. PICK matching : matching = Matching(tables.dll, ReadName(Rva(Entry) + 2))
      OBVIOUS
    <2>2. PICK k : k = CHOOSE j \in matching : \A l \in matching : j <= l
      OBVIOUS
    <2>3. CASE progress' = "returned" /\ UNCHANGED <<memory, next_stub, bound, thunk>>
      BY <1>2, <1>4, <2>3
    <2>4. CASE /\ matching # {} /\ StubFits
               /\ memory' = [WithStub(memory, StubOffset, Exports[k].syscall) EXCEPT
                               ![Slot] = config.image_base + StubOffset]
               /\ next_stub' = StubOffset + StubSize
               /\ bound' = Append(bound, [slot |-> Slot, export |-> k, offset |-> StubOffset])
               /\ thunk' = thunk + 1
               /\ UNCHANGED <<status, progress>>
      <3>1. matching \subseteq DOMAIN Exports
        BY <2>1 DEF Matching
      <3>2. k \in matching
        BY <2>2, <2>4, <3>1, FirstOfExports
      <3>3. Binds(k)
        BY <1>1, <1>4, <2>4 DEF Binds
      <3>4. QED
        BY <1>3, <3>1, <3>2, <3>3
    <2>5. QED
      BY <1>4, <2>1, <2>2, <2>3, <2>4 DEF ResolveImport, ImportReturns
  <1>5. QED
    BY <1>2, <1>4 DEF BindThunk, ImportReturns

\* No step of the loader ends the invariant.
LEMMA ImportStep == ImportInv /\ [ImportNext]_loaderVars => ImportInv'
  <1> SUFFICES ASSUME ImportInv, [ImportNext]_loaderVars PROVE ImportInv'
    OBVIOUS
  <1>1. CASE UNCHANGED loaderVars
    <2>1. ImageInv' /\ BindingIsExact'
      BY <1>1, FrameKeeps DEF loaderVars
    <2>2. CursorInTables' /\ BoundInPlace'
      BY <1>1 DEF loaderVars, ImportInv, CursorInTables, BoundInPlace, Loaded, ImageSize, ImportDirectory
    <2>3. QED
      BY <1>1, <2>1, <2>2 DEF loaderVars, ImportInv
  <1>2. CASE ImportNext
    BY <1>2, LoadImageKeeps, BeginKeeps, DescriptorKeeps, ThunkKeeps DEF ImportNext
  <1>3. QED
    BY <1>1, <1>2

(* The loader keeps its invariant: the stubs lie one behind the other        *)
(* between the image and the end of the buffer, the slots in the image, and  *)
(* the directory that is being walked lies in the image.                     *)
THEOREM ImportInvariant == ImportSpec => []ImportInv
  <1>1. QED
    BY ImportInitial, ImportStep, PTL DEF ImportSpec

(* Whatever the tables of an image say, every import that load_x64_pe64_image *)
(* binds has its own whole stub behind the image and its slot leads there,    *)
(* and the rest of the image is what the file declares.                       *)
THEOREM BindingCorrect == ImportSpec => []BindingIsExact
  <1>1. ImportInv => BindingIsExact
    BY DEF ImportInv
  <1>2. QED
    BY <1>1, ImportInvariant, PTL

-----------------------------------------------------------------------------
(* The two parsers of the headers *)

SignatureRefusals ==
    {"MISSING_DOS_HEADER", "INVALID_DOS_HEADER", "MISSING_NT_HEADERS",
     "INVALID_NT_SIGNATURE", "WRONG_MACHINE", "UNSUPPORTED_MAGIC"}

(* A check that fails although the probe accepted the file is about none of  *)
(* the signatures.                                                           *)
LEMMA ProbedChecks ==
    ASSUME NEW f, NEW c, f.e_lfanew \in Int, TryGetPeMachine(f), f.machine = c.machine,
           Failed(HeaderChecks(f, c)) # {}
    PROVE  FirstFailure(HeaderChecks(f, c)) \notin SignatureRefusals
  <1>1. PICK checks : checks = HeaderChecks(f, c)
    OBVIOUS
  <1>2. DOMAIN checks = 1 .. 17
    BY <1>1 DEF HeaderChecks
  <1>3. /\ ~checks[1][1] /\ ~checks[2][1] /\ ~checks[3][1]
        /\ ~checks[4][1] /\ ~checks[5][1] /\ ~checks[8][1]
    <2>1. /\ checks[1][1] = (~Embedded(f, 0, DosSize))
          /\ checks[2][1] = (~f.mz \/ f.e_lfanew < 0)
          /\ checks[3][1] = (~Embedded(f, f.e_lfanew, NtSize))
          /\ checks[4][1] = (~f.pe)
          /\ checks[5][1] = (f.machine # c.machine)
          /\ checks[8][1] = (~f.magic)
      BY <1>1 DEF HeaderChecks
    <2>2. ~(f.e_lfanew < 0)
      BY DEF TryGetPeMachine
    <2>3. QED
      BY <2>1, <2>2, Zenon DEF TryGetPeMachine
  <1>4. \A k \in {6, 7, 9, 10, 11, 12, 13, 14, 15, 16, 17} : checks[k][2] \notin SignatureRefusals
    BY <1>1 DEF HeaderChecks, SignatureRefusals
  <1>5. PICK first : first = CHOOSE k \in Failed(checks) : \A j \in Failed(checks) : k <= j
    OBVIOUS
  <1>6. first \in Failed(checks)
    <2>1. Failed(checks) \subseteq Nat
      BY <1>2 DEF Failed
    <2>2. \E k \in Failed(checks) : \A j \in Failed(checks) : k <= j
      BY <1>1, <2>1, LeastNatural
    <2>3. QED
      BY <1>5, <2>2
  <1>7. first \in 1 .. 17 /\ checks[first][1]
    BY <1>2, <1>6 DEF Failed
  <1>8. first \in {6, 7, 9, 10, 11, 12, 13, 14, 15, 16, 17}
    BY <1>3, <1>7
  <1>9. QED
    BY <1>1, <1>4, <1>5, <1>8 DEF FirstFailure

(* A file that try_get_pe_machine takes for the expected machine is never    *)
(* refused by the loader for its signatures, its machine or its magic.       *)
THEOREM ProbeCorrect == ImportSpec => []ProbedImagesParse
  <1>1. ImportInit => ProbedImagesParse
    BY DEF ImportInit, ImageInit, ProbedImagesParse
  <1>2. ImportInv /\ ProbedImagesParse /\ [ImportNext]_loaderVars => ProbedImagesParse'
    <2> SUFFICES ASSUME ImportInv, ProbedImagesParse, [ImportNext]_loaderVars,
                        TryGetPeMachine(file'), file'.machine = config'.machine
                 PROVE  status' \notin SignatureRefusals
      BY DEF ProbedImagesParse, SignatureRefusals, TryGetPeMachine, Embedded
    <2>1. file' = file /\ config' = config
      BY DEF ImportNext, LoadImage, ImageNext, CheckHeaders, LoadSection, SectionsLoaded,
             BeginImports, ReadDescriptor, BindThunk, loaderVars
    <2>2. status \notin SignatureRefusals
      BY <2>1 DEF ProbedImagesParse, SignatureRefusals
    <2>3. file.e_lfanew \in Int
      BY ImagesAssumption DEF ImportInv, ImageInv, ImageTypeOK
    <2>4. CASE status' = status
      BY <2>2, <2>4
    <2>5. CASE CheckHeaders
      <3>1. CASE Failed(HeaderChecks(file, config)) # {} /\ Fails(FirstFailure(HeaderChecks(file, config)))
        <4>1. FirstFailure(HeaderChecks(file, config)) \notin SignatureRefusals
          BY <2>1, <2>3, <3>1, ProbedChecks
        <4>2. QED
          BY <3>1, <4>1 DEF Fails
      <3>2. CASE Fails("INVALID_ARGUMENT")
        BY <3>2 DEF Fails, SignatureRefusals
      <3>3. QED
        BY <2>4, <2>5, <3>1, <3>2 DEF CheckHeaders
    <2>6. CASE LoadSection \/ SectionsLoaded
      BY <2>2, <2>6 DEF LoadSection, SectionsLoaded, Fails, SignatureRefusals
    <2>7. CASE BeginImports
      BY <2>2, <2>7 DEF BeginImports, ImportReturns, SignatureRefusals
    <2>8. CASE ReadDescriptor
      BY <2>2, <2>8 DEF ReadDescriptor, ImportReturns, SignatureRefusals
    <2>9. CASE BindThunk
      BY <2>2, <2>9 DEF BindThunk, ResolveImport, ImportReturns, SignatureRefusals
    <2>10. QED
      BY <2>4, <2>5, <2>6, <2>7, <2>8, <2>9 DEF ImportNext, LoadImage, ImageNext, loaderVars
  <1>3. QED
    BY <1>1, <1>2, ImportInvariant, PTL DEF ImportSpec

-----------------------------------------------------------------------------
(* Where the storages lie *)

\* The two storages follow each other, the CPU-local block follows them.
Layout ==
    /\ StoragePages \in Nat /\ StoragePages >= ImagePages + 2
    /\ ImagePages \in Nat /\ ImagePages >= 1 /\ RegionPages \in Nat
    /\ RegionPages >= ImagePages + 2
    /\ X64RegionPages = ImagePages + 2
    /\ platform \in {"x64", "arm64"}
    /\ platform = "x64" => StoragePages = ImagePages + 2
    /\ platform # "x64" => StoragePages = 1 + RegionPages
    /\ Tables(0) = 0 /\ Tables(1) = StoragePages
    /\ CpuLocal \in Nat /\ CpuLocal >= 2 * StoragePages

\* The sizes and places that the platforms declare have this layout.
LEMMA Geometry == platform \in Platforms => Layout
  <1> SUFFICES ASSUME platform \in Platforms PROVE Layout
    OBVIOUS
  <1>1. /\ platform \in {"x64", "arm64"} /\ Processes \in Nat /\ Processes >= 2
        /\ ImagePages \in Nat /\ ImagePages >= 1 /\ RegionPages \in Nat
        /\ RegionPages >= ImagePages + 2 /\ X64RegionPages = ImagePages + 2
    BY PlatformAssumption DEF X64RegionPages
  <1>2. /\ StoragePages \in Nat /\ StoragePages >= ImagePages + 2
        /\ platform = "x64" => StoragePages = ImagePages + 2
        /\ platform # "x64" => StoragePages = 1 + RegionPages
    BY <1>1 DEF StoragePages
  <1>3. PICK S : S = StoragePages
    OBVIOUS
  <1>4. 0 * S = 0 /\ 1 * S = S /\ Processes * S \in Nat /\ Processes * S >= 2 * S
    <2>1. S \in Nat /\ Processes - 2 \in Nat
      BY <1>1, <1>2, <1>3
    <2>2. (Processes - 2) * S \in Nat /\ Processes * S = (Processes - 2) * S + 2 * S
      BY <1>1, <2>1
    <2>3. QED
      BY <1>1, <2>1, <2>2
  <1>5. QED
    BY <1>1, <1>2, <1>3, <1>4 DEF Layout, Tables, CpuLocal

-----------------------------------------------------------------------------
(* The inductive invariant *)

Machine(p) == configured[p].image.machine

\* A process was configured from a file its loader accepted.
ConfiguredFromItsFile(p) ==
    /\ Machine(p) \in {"X64", "ARM64"}
    /\ platform = "x64" => Machine(p) = "X64"
    /\ configured[p].image.pages \in Nat /\ configured[p].image.pages >= 1
    /\ configured[p].image.pages <= LoadedPages(Machine(p))
    /\ configured[p].mapped = MappedPages(p, Machine(p))
    /\ configured[p].stack = StackPage(p, Machine(p))

\* What populate_*_bootstrap_for_process wrote is there.
StorageIsWhole(p) ==
    /\ pages[Tables(p)] = Page("tables", p)
    /\ LeavesTheStack(p) =>
         /\ \A k \in ImageStart(p) .. ImageStart(p) + configured[p].image.pages - 1 :
              pages[k] = Page("image", p)
         /\ pages[configured[p].stack] \in {Page("stack", p), Zero}

\* The processes are set up in the order of their storage.
SetUpInOrder ==
    /\ boot \in {"terminal", "client", "created", "entered", "panicked"}
    /\ DOMAIN configured \subseteq {0, 1}
    /\ boot = "terminal" => DOMAIN configured = {}
    /\ boot = "client" => DOMAIN configured \subseteq {0} /\ (terminal = NoFile => DOMAIN configured = {})

BootInv ==
    /\ platform \in Platforms
    /\ terminal \in Attached \cup {NoFile} /\ app \in Attached
    /\ DOMAIN pages = AllPages
    /\ SetUpInOrder
    /\ \A p \in DOMAIN configured : ConfiguredFromItsFile(p)
    /\ boot # "panicked" => \A p \in DOMAIN configured : StorageIsWhole(p)
    /\ boot = "entered" /\ platform = "x64" => pages[CpuLocal] = Page("cpu_local", 0)

\* The bootstrap begins with the invariant.
LEMMA BootInitial == BootInit => BootInv
  BY DEF BootInit, BootInv, SetUpInOrder

\* Where the pages of a process lie.
StorageLayout(p) ==
    /\ Tables(p) \in Nat /\ ImageStart(p) = Tables(p) + 1
    /\ Tables(p) = (IF p = 0 THEN 0 ELSE StoragePages)
    /\ Storage(p) = Tables(p) .. Tables(p) + StoragePages - 1
    /\ Tables(p) + StoragePages <= CpuLocal
    /\ Storage(p) \subseteq AllPages
    /\ CpuLocal \in AllPages /\ CpuLocal \notin Storage(p)
    /\ Tables(p) \in Storage(p)
    /\ \A k \in AllPages : k \in Nat
    /\ \A k \in Nat : k <= CpuLocal + X64RegionPages => k \in AllPages

\* The storage of a process holds its tables, its image and its stack.
LEMMA StorageGeometry ==
    ASSUME platform \in Platforms, NEW p \in {0, 1}
    PROVE  Layout /\ StorageLayout(p)
  <1>0. Layout
    BY Geometry
  <1>1. AllPages = 0 .. CpuLocal + X64RegionPages
    BY DEF AllPages
  <1>2. Tables(p) = (IF p = 0 THEN 0 ELSE StoragePages)
    BY <1>0 DEF Layout
  <1>3. Storage(p) = Tables(p) .. Tables(p) + StoragePages - 1 /\ ImageStart(p) = Tables(p) + 1
    BY DEF Storage, ImageStart
  <1>4. Tables(p) \in Nat /\ Tables(p) + StoragePages <= CpuLocal
    BY <1>0, <1>2 DEF Layout
  <1>5. Storage(p) \subseteq AllPages /\ CpuLocal \in AllPages /\ CpuLocal \notin Storage(p)
    BY <1>0, <1>1, <1>3, <1>4 DEF Layout
  <1>6. Tables(p) \in Storage(p) /\ \A k \in AllPages : k \in Nat
    BY <1>0, <1>1, <1>3, <1>4 DEF Layout
  <1>7. \A k \in Nat : k <= CpuLocal + X64RegionPages => k \in AllPages
    BY <1>0, <1>1 DEF Layout
  <1>8. QED
    BY <1>0, <1>2, <1>3, <1>4, <1>5, <1>6, <1>7 DEF StorageLayout

\* The image and the stack of a process lie in what is mapped, and that in its storage.
LEMMA MappedInStorage ==
    ASSUME platform \in Platforms, NEW p \in {0, 1}, ConfiguredFromItsFile(p)
    PROVE  /\ configured[p].mapped \subseteq Storage(p) \ {Tables(p)}
           /\ configured[p].stack \in configured[p].mapped
           /\ configured[p].stack \in Nat /\ configured[p].image.pages \in Nat
           /\ LeavesTheStack(p) =>
                \A k \in ImageStart(p) .. ImageStart(p) + configured[p].image.pages - 1 :
                   k \in configured[p].mapped
  <1>0. Layout /\ StorageLayout(p)
    BY StorageGeometry
  <1>1. PICK m : m = Machine(p)
    OBVIOUS
  <1>2. /\ m \in {"X64", "ARM64"} /\ (platform = "x64" => m = "X64")
        /\ configured[p].image.pages \in Nat
        /\ configured[p].image.pages <= LoadedPages(m)
        /\ configured[p].mapped = MappedPages(p, m)
        /\ configured[p].stack = StackPage(p, m)
    BY <1>1 DEF ConfiguredFromItsFile
  <1>3. PICK base : base = ImageStart(p)
    OBVIOUS
  <1>4. base = Tables(p) + 1 /\ Tables(p) \in Nat /\ base \in Nat
    BY <1>0, <1>3 DEF StorageLayout
  <1>5. \E last \in Nat : /\ MappedPages(p, m) = base .. last
                          /\ last <= Tables(p) + StoragePages - 1
                          /\ StackPage(p, m) \in base .. last
    <2>1. CASE platform = "x64"
      <3>1. MappedPages(p, m) = base .. base + (ImagePages + 1) - 1
        BY <1>3, <2>1 DEF MappedPages
      <3>2. StackPage(p, m) = base + ImagePages
        BY <1>2, <1>3, <2>1 DEF StackPage
      <3>3. QED
        BY <1>0, <1>4, <2>1, <3>1, <3>2 DEF Layout
    <2>2. CASE platform # "x64"
      <3>1. MappedPages(p, m) = base .. base + LoadedPages(m) - 1
        BY <1>3, <2>2 DEF MappedPages
      <3>2. /\ LoadedPages(m) \in Nat /\ LoadedPages(m) <= RegionPages
            /\ StackPage(p, m) \in base .. base + LoadedPages(m) - 1
        BY <1>0, <1>2, <1>3, <1>4 DEF LoadedPages, StackPage, Layout
      <3>3. base + LoadedPages(m) - 1 \in Nat
        BY <1>0, <1>4, <3>2 DEF Layout
      <3>4. base + LoadedPages(m) - 1 <= Tables(p) + StoragePages - 1
        BY <1>0, <1>4, <2>2, <3>2 DEF Layout
      <3>5. QED
        BY <3>1, <3>2, <3>3, <3>4
    <2>3. QED
      BY <2>1, <2>2
  <1>6. PICK last \in Nat : /\ configured[p].mapped = base .. last
                           /\ last <= Tables(p) + StoragePages - 1
                           /\ configured[p].stack \in base .. last
    BY <1>2, <1>5
  <1>7. base .. last \subseteq Storage(p) \ {Tables(p)}
    <2>1. Storage(p) = Tables(p) .. Tables(p) + StoragePages - 1 /\ StoragePages \in Nat
      BY <1>0 DEF StorageLayout, Layout
    <2>2. QED
      BY <1>4, <1>6, <2>1
  <1>8. ASSUME LeavesTheStack(p), NEW k \in base .. base + configured[p].image.pages - 1
        PROVE  k \in base .. last
    <2>1. base + configured[p].image.pages <= configured[p].stack
      BY <1>3, <1>8 DEF LeavesTheStack
    <2>2. QED
      BY <1>2, <1>4, <1>6, <2>1
  <1>9. QED
    BY <1>2, <1>3, <1>4, <1>6, <1>7, <1>8

-----------------------------------------------------------------------------
(* Setting up a process *)

\* The layout depends on the platform only.
LEMMA SamePlatform ==
    ASSUME platform' = platform
    PROVE  /\ StoragePages' = StoragePages /\ CpuLocal' = CpuLocal /\ AllPages' = AllPages
           /\ \A p : /\ Tables(p)' = Tables(p) /\ ImageStart(p)' = ImageStart(p)
                     /\ Storage(p)' = Storage(p)
           /\ \A p, m : MappedPages(p, m)' = MappedPages(p, m) /\ StackPage(p, m)' = StackPage(p, m)
  BY DEF StoragePages, CpuLocal, AllPages, Tables, ImageStart, Storage, MappedPages, StackPage

\* What populate_*_bootstrap_for_process leaves in memory when the loader accepts f:
\* below the storage nothing changes, then come the tables, the image and the stack.
LEMMA PopulatedPages ==
    ASSUME platform \in Platforms, DOMAIN pages = AllPages, NEW p \in {0, 1},
           NEW machine \in {"X64", "ARM64"}, platform = "x64" => machine = "X64",
           NEW n \in Nat, n <= LoadedPages(machine),
           NEW m, m = WithSlot(WithImage(WithZeroedBuffer(WithStorage(pages, p), p, LoadedPages(machine)),
                                         p, n), p, machine)
    PROVE  /\ DOMAIN m = AllPages
           /\ \A k \in AllPages : k < Tables(p) => m[k] = pages[k]
           /\ m[Tables(p)] = Page("tables", p)
           /\ ImageStart(p) + n <= StackPage(p, machine) =>
                /\ \A k \in ImageStart(p) .. ImageStart(p) + n - 1 : m[k] = Page("image", p)
                /\ m[StackPage(p, machine)] \in {Page("stack", p), Zero}
  <1> DEFINE base == ImageStart(p)
             room == LoadedPages(machine)
             m1 == WithStorage(pages, p)
             m2 == WithZeroedBuffer(m1, p, room)
             m3 == WithImage(m2, p, n)
             stack == StackPage(p, machine)
             slot == SlotPage(p)
  <1>0. Layout /\ StorageLayout(p)
    BY StorageGeometry
  <1>1. /\ base = Tables(p) + 1 /\ Tables(p) \in Nat /\ base \in Nat
        /\ room \in Nat /\ base + room <= CpuLocal + X64RegionPages
        /\ stack \in Nat /\ stack > Tables(p) /\ stack \in Storage(p)
        /\ slot \in Nat /\ slot > Tables(p) /\ slot <= CpuLocal
        /\ machine = "X64" => slot >= stack
    <2>1. base = Tables(p) + 1 /\ Tables(p) \in Nat /\ base \in Nat
      BY <1>0 DEF StorageLayout
    <2>2. /\ room \in Nat
          /\ platform = "x64" => room = StoragePages
          /\ platform # "x64" => room <= StoragePages - 1
      BY <1>0 DEF LoadedPages, Layout
    <2>3. /\ stack = base + (IF machine = "X64" THEN ImagePages ELSE RegionPages - 1)
          /\ slot = base + (IF platform = "x64" THEN ImagePages ELSE ImagePages + 1)
      BY <1>0 DEF StackPage, SlotPage, Layout
    <2> HIDE DEF base, room, m1, m2, m3, stack, slot
    <2>4. base + room <= CpuLocal + X64RegionPages
      BY <1>0, <2>1, <2>2 DEF Layout, StorageLayout
    <2>5. stack \in Nat /\ stack > Tables(p) /\ stack <= Tables(p) + StoragePages - 1
      <3>1. CASE machine = "X64"
        BY <1>0, <2>1, <2>3, <3>1 DEF Layout, StorageLayout
      <3>2. CASE machine # "X64"
        BY <1>0, <2>1, <2>3, <3>2 DEF Layout, StorageLayout
      <3>3. QED
        BY <3>1, <3>2
    <2>6. slot \in Nat /\ slot > Tables(p) /\ slot <= CpuLocal /\ (machine = "X64" => slot >= stack)
      <3>1. CASE platform = "x64"
        BY <1>0, <2>1, <2>3, <3>1 DEF Layout, StorageLayout
      <3>2. CASE platform # "x64"
        BY <1>0, <2>1, <2>3, <3>2 DEF Layout, StorageLayout
      <3>3. QED
        BY <3>1, <3>2
    <2>7. stack \in Storage(p)
      BY <1>0, <2>5 DEF Layout, StorageLayout
    <2>8. QED
      BY <2>1, <2>2, <2>4, <2>5, <2>6, <2>7
  <1>2. /\ \A k \in AllPages : k \in Nat
        /\ CpuLocal \in Nat /\ X64RegionPages \in Nat
        /\ \A k \in Nat : k <= CpuLocal + X64RegionPages => k \in AllPages
        /\ Storage(p) \subseteq AllPages
        /\ Storage(p) = Tables(p) .. Tables(p) + StoragePages - 1
        /\ Tables(p) \in Storage(p)
    BY <1>0 DEF Layout, StorageLayout
  <1>3. m1 = [k \in AllPages |-> IF k = Tables(p) THEN Page("tables", p)
                                ELSE IF k \in Storage(p) THEN Zero ELSE pages[k]]
    BY DEF WithStorage
  <1>4. m2 = [k \in AllPages |-> IF k \in base .. base + room - 1 THEN Zero ELSE m1[k]]
    BY DEF WithZeroedBuffer
  <1>5. m3 = [k \in AllPages |-> IF k \in base .. base + n - 1 THEN Page("image", p) ELSE m2[k]]
    BY DEF WithImage
  <1>6. m = IF machine = "X64" THEN [m3 EXCEPT ![slot] = Page("stack", p)] ELSE m3
    BY DEF WithSlot
  <1> HIDE DEF base, room, m1, m2, m3, stack, slot
  <1>7. DOMAIN m = AllPages /\ slot \in AllPages
    BY <1>1, <1>2, <1>5, <1>6
  <1>8. \A k \in AllPages : ~(machine = "X64" /\ k = slot) => m[k] = m3[k]
    BY <1>5, <1>6
  <1>9. ASSUME NEW k \in AllPages, k < Tables(p) PROVE m[k] = pages[k]
    <2>1. k \notin Storage(p) /\ k # slot /\ k \notin base .. base + room - 1
          /\ k \notin base .. base + n - 1 /\ k # Tables(p)
      BY <1>1, <1>2, <1>9
    <2>2. QED
      BY <1>3, <1>4, <1>5, <1>8, <2>1
  <1>10. m[Tables(p)] = Page("tables", p)
    <2>1. /\ Tables(p) \in AllPages /\ Tables(p) # slot /\ Tables(p) \notin base .. base + room - 1
          /\ Tables(p) \notin base .. base + n - 1
      BY <1>1, <1>2
    <2>2. QED
      BY <1>3, <1>4, <1>5, <1>8, <2>1
  <1>11. ASSUME base + n <= stack, NEW k \in base .. base + n - 1 PROVE m[k] = Page("image", p)
    <2>1. k \in Nat /\ k < stack
      BY <1>1, <1>11
    <2>2. k \in AllPages
      <3>1. stack \in AllPages
        BY <1>1, <1>2
      <3>2. k <= CpuLocal + X64RegionPages
        BY <1>1, <1>2, <2>1, <3>1 DEF AllPages
      <3>3. QED
        BY <1>2, <2>1, <3>2
    <2>3. ~(machine = "X64" /\ k = slot)
      BY <1>1, <2>1
    <2>4. QED
      BY <1>5, <1>8, <2>2, <2>3
  <1>12. ASSUME base + n <= stack PROVE m[stack] \in {Page("stack", p), Zero}
    <2>1. stack \in AllPages /\ stack # Tables(p) /\ stack \notin base .. base + n - 1
      <3>1. stack \in AllPages
        BY <1>1, <1>2
      <3>2. stack # Tables(p)
        BY <1>1
      <3>3. stack \notin base .. base + n - 1
        BY <1>1, <1>12
      <3>4. QED
        BY <3>1, <3>2, <3>3
    <2>2. m3[stack] = Zero
      BY <1>1, <1>3, <1>4, <1>5, <2>1
    <2>3. CASE machine = "X64" /\ stack = slot
      BY <1>5, <1>6, <1>7, <2>3
    <2>4. CASE ~(machine = "X64" /\ stack = slot)
      BY <1>8, <2>1, <2>2, <2>4
    <2>5. QED
      BY <2>3, <2>4
  <1>13. QED
    BY <1>7, <1>9, <1>10, <1>11, <1>12 DEF base, stack

\* populate_*_bootstrap_for_process sets up p and keeps the processes below it.
LEMMA PopulateKeeps ==
    ASSUME BootInv, boot # "panicked", platform' = platform, terminal' = terminal, app' = app,
           NEW p \in {0, 1}, \A q \in DOMAIN configured : q < p,
           NEW f \in Attached, NEW machine \in {"X64", "ARM64"},
           platform = "x64" => machine = "X64", NEW backend,
           NEW next \in {"client", "created"},
           next = "client" => p = 0 /\ terminal # NoFile,
           Populate(p, f, machine, backend, next)
    PROVE  BootInv'
  <1> DEFINE buffer == WithZeroedBuffer(WithStorage(pages, p), p, LoadedPages(machine))
  <1>0. /\ platform \in Platforms /\ DOMAIN pages = AllPages /\ SetUpInOrder
        /\ terminal \in Attached \cup {NoFile} /\ app \in Attached
        /\ \A q \in DOMAIN configured : ConfiguredFromItsFile(q) /\ StorageIsWhole(q)
        /\ DOMAIN configured \subseteq {0, 1}
    BY DEF BootInv, SetUpInOrder
  <1>1. /\ AllPages' = AllPages /\ CpuLocal' = CpuLocal
        /\ \A q : Tables(q)' = Tables(q) /\ ImageStart(q)' = ImageStart(q)
        /\ \A q, m : MappedPages(q, m)' = MappedPages(q, m) /\ StackPage(q, m)' = StackPage(q, m)
    BY SamePlatform
  <1>2. CASE /\ ~Accepted(f, machine)
             /\ boot' = "panicked" /\ pages' = buffer /\ UNCHANGED configured
    <2>1. DOMAIN pages' = AllPages
      BY <1>2 DEF WithZeroedBuffer
    <2>2. \A q \in DOMAIN configured : ConfiguredFromItsFile(q)'
      BY <1>0, <1>1, <1>2 DEF ConfiguredFromItsFile, Machine
    <2>3. SetUpInOrder'
      BY <1>0, <1>2 DEF SetUpInOrder
    <2>4. QED
      BY <1>0, <1>1, <1>2, <2>1, <2>2, <2>3 DEF BootInv
  <1>3. CASE /\ Accepted(f, machine)
             /\ boot' = next
             /\ pages' = WithSlot(WithImage(buffer, p, f.pages), p, machine)
             /\ configured' = [q \in DOMAIN configured \cup {p} |->
                                 IF q # p THEN configured[q]
                                 ELSE [image |-> f, backend |-> backend, mapped |-> MappedPages(p, machine),
                                       stack |-> StackPage(p, machine)]]
    <2>1. f.machine = machine /\ f.pages \in Nat /\ f.pages >= 1 /\ f.pages <= LoadedPages(machine)
      BY <1>3, PlatformAssumption DEF Accepted
    <2>2. /\ DOMAIN pages' = AllPages
          /\ \A k \in AllPages : k < Tables(p) => pages'[k] = pages[k]
          /\ pages'[Tables(p)] = Page("tables", p)
          /\ ImageStart(p) + f.pages <= StackPage(p, machine) =>
               /\ \A k \in ImageStart(p) .. ImageStart(p) + f.pages - 1 : pages'[k] = Page("image", p)
               /\ pages'[StackPage(p, machine)] \in {Page("stack", p), Zero}
      BY <1>0, <1>3, <2>1, PopulatedPages
    <2>3. /\ DOMAIN configured' = DOMAIN configured \cup {p}
          /\ \A q \in DOMAIN configured : q # p => configured'[q] = configured[q]
          /\ configured'[p].image = f
          /\ configured'[p].mapped = MappedPages(p, machine)
          /\ configured'[p].stack = StackPage(p, machine)
      BY <1>3
    <2>4. SetUpInOrder'
      BY <1>0, <1>3, <2>3 DEF SetUpInOrder
    <2>5. ConfiguredFromItsFile(p)'
      BY <1>1, <2>1, <2>3 DEF ConfiguredFromItsFile, Machine
    <2>6. StorageIsWhole(p)'
      BY <1>1, <2>2, <2>3 DEF StorageIsWhole, LeavesTheStack
    <2>7. ASSUME NEW q \in DOMAIN configured PROVE ConfiguredFromItsFile(q)' /\ StorageIsWhole(q)'
      <3>1. q = 0 /\ p = 1 /\ q # p /\ configured'[q] = configured[q]
        BY <1>0, <2>3
      <3>2. ConfiguredFromItsFile(q)'
        BY <1>0, <1>1, <3>1 DEF ConfiguredFromItsFile, Machine
      <3>3. ASSUME NEW k \in Storage(q) PROVE pages'[k] = pages[k]
        <4>1. Storage(q) = 0 .. 0 + StoragePages - 1 /\ Storage(q) \subseteq AllPages
          <5>1. Layout /\ StorageLayout(q)
            BY <1>0, <3>1, StorageGeometry
          <5>2. QED
            BY <3>1, <5>1 DEF StorageLayout
        <4>2. k \in AllPages /\ k < Tables(p)
          <5>1. Layout
            BY <1>0, Geometry
          <5>2. QED
            BY <3>1, <4>1, <5>1 DEF Layout
        <4>3. QED
          BY <2>2, <4>2
      <3>4. /\ configured[q].stack \in Storage(q) /\ Tables(q) \in Storage(q)
            /\ LeavesTheStack(q) =>
                 \A k \in ImageStart(q) .. ImageStart(q) + configured[q].image.pages - 1 :
                    k \in Storage(q)
        <4>1. q \in {0, 1} /\ ConfiguredFromItsFile(q)
          BY <1>0
        <4>2. Tables(q) \in Storage(q)
          BY <1>0, <4>1, StorageGeometry DEF StorageLayout
        <4>3. QED
          BY <1>0, <4>1, <4>2, MappedInStorage
      <3>5. StorageIsWhole(q)'
        <4>1. StorageIsWhole(q)
          BY <1>0
        <4>2. LeavesTheStack(q)' => LeavesTheStack(q)
          BY <1>1, <3>1 DEF LeavesTheStack
        <4>3. QED
          BY <1>1, <3>1, <3>3, <3>4, <4>1, <4>2 DEF StorageIsWhole
      <3>6. QED
        BY <3>2, <3>5
    <2>8. QED
      BY <1>0, <1>1, <1>3, <2>2, <2>3, <2>4, <2>5, <2>6, <2>7 DEF BootInv
  <1>4. QED
    BY <1>2, <1>3 DEF Populate

\* Entering user mode fills in the CPU-local block, behind every storage.
LEMMA EnterKeeps == BootInv /\ EnterUserThread => BootInv'
  <1> SUFFICES ASSUME BootInv, EnterUserThread PROVE BootInv'
    OBVIOUS
  <1>0. /\ platform \in Platforms /\ DOMAIN pages = AllPages /\ SetUpInOrder
        /\ \A q \in DOMAIN configured : ConfiguredFromItsFile(q) /\ StorageIsWhole(q)
        /\ DOMAIN configured \subseteq {0, 1}
    BY DEF BootInv, SetUpInOrder, EnterUserThread
  <1>1. /\ boot' = "entered" /\ platform' = platform /\ terminal' = terminal /\ app' = app
        /\ configured' = configured
        /\ pages' = IF platform = "x64" THEN [pages EXCEPT ![CpuLocal] = Page("cpu_local", 0)] ELSE pages
    BY DEF EnterUserThread
  <1>2. /\ AllPages' = AllPages /\ CpuLocal' = CpuLocal
        /\ \A q : Tables(q)' = Tables(q) /\ ImageStart(q)' = ImageStart(q)
        /\ \A q, m : MappedPages(q, m)' = MappedPages(q, m) /\ StackPage(q, m)' = StackPage(q, m)
    BY <1>1, SamePlatform
  <1>3. DOMAIN pages' = AllPages /\ \A k \in AllPages : k # CpuLocal => pages'[k] = pages[k]
    BY <1>0, <1>1
  <1>4. platform = "x64" => pages'[CpuLocal] = Page("cpu_local", 0)
    <2>1. CpuLocal \in AllPages
      BY <1>0, StorageGeometry DEF StorageLayout
    <2>2. QED
      BY <1>0, <1>1, <2>1
  <1>5. ASSUME NEW q \in DOMAIN configured PROVE ConfiguredFromItsFile(q)' /\ StorageIsWhole(q)'
    <2>1. q \in {0, 1} /\ ConfiguredFromItsFile(q) /\ StorageIsWhole(q)
      BY <1>0
    <2>2. ConfiguredFromItsFile(q)'
      BY <1>1, <1>2, <2>1 DEF ConfiguredFromItsFile, Machine
    <2>3. StorageLayout(q)
      BY <1>0, <2>1, StorageGeometry
    <2>4. \A k \in Storage(q) : pages'[k] = pages[k]
      BY <1>3, <2>3 DEF StorageLayout
    <2>5. /\ configured[q].stack \in Storage(q) /\ Tables(q) \in Storage(q)
          /\ LeavesTheStack(q) =>
               \A k \in ImageStart(q) .. ImageStart(q) + configured[q].image.pages - 1 :
                  k \in Storage(q)
      <3>1. Tables(q) \in Storage(q)
        BY <2>3 DEF StorageLayout
      <3>2. QED
        BY <1>0, <2>1, <3>1, MappedInStorage
    <2>6. LeavesTheStack(q)' => LeavesTheStack(q)
      BY <1>1, <1>2 DEF LeavesTheStack
    <2>7. StorageIsWhole(q)'
      BY <1>1, <1>2, <2>1, <2>4, <2>5, <2>6 DEF StorageIsWhole
    <2>8. QED
      BY <2>2, <2>7
  <1>6. SetUpInOrder'
    BY <1>0, <1>1 DEF SetUpInOrder
  <1>7. QED
    BY <1>0, <1>1, <1>2, <1>3, <1>4, <1>5, <1>6 DEF BootInv

\* No step of the bootstrap ends the invariant.
LEMMA BootStep == BootInv /\ [BootNext]_bootVars => BootInv'
  <1> SUFFICES ASSUME BootInv, [BootNext]_bootVars PROVE BootInv'
    OBVIOUS
  <1>0. /\ platform \in {"x64", "arm64"} /\ platform \in Platforms /\ SetUpInOrder
        /\ NativeMachine \in {"X64", "ARM64"} /\ (platform = "x64" => NativeMachine = "X64")
        /\ terminal \in Attached \cup {NoFile} /\ app \in Attached
    BY PlatformAssumption DEF BootInv, NativeMachine
  <1>1. ASSUME PopulateTerminal PROVE BootInv'
    <2>1. boot = "terminal" /\ DOMAIN configured = {} /\ boot # "panicked"
      BY <1>0, <1>1 DEF PopulateTerminal, SetUpInOrder
    <2>2. platform' = platform /\ terminal' = terminal /\ app' = app
      BY <1>1 DEF PopulateTerminal
    <2>3. ASSUME boot' \in {"panicked", "client"}, pages' = pages, configured' = configured
          PROVE  BootInv'
      <3>1. AllPages' = AllPages
        BY <2>2, SamePlatform
      <3>2. SetUpInOrder'
        BY <1>0, <2>1, <2>3 DEF SetUpInOrder
      <3>3. boot' # "entered" /\ DOMAIN configured' = {} /\ DOMAIN pages' = AllPages
        BY <2>1, <2>3 DEF BootInv
      <3>4. QED
        BY <1>0, <2>2, <3>1, <3>2, <3>3 DEF BootInv
    <2>4. ASSUME terminal # NoFile, Populate(0, terminal, NativeMachine, "NATIVE", "client")
          PROVE  BootInv'
      <3>1. terminal \in Attached
        BY <1>0, <2>4
      <3>2. PICK f \in Attached, machine \in {"X64", "ARM64"} : f = terminal /\ machine = NativeMachine
        BY <1>0, <3>1
      <3>3. Populate(0, f, machine, "NATIVE", "client")
        BY <2>4, <3>2
      <3>4. QED
        BY <1>0, <2>1, <2>2, <2>4, <3>2, <3>3, PopulateKeeps
    <2>5. QED
      BY <1>1, <2>3, <2>4 DEF PopulateTerminal
  <1>2. ASSUME PopulateClient PROVE BootInv'
    <2>1. /\ boot = "client" /\ boot # "panicked" /\ DOMAIN configured \subseteq {0}
          /\ (terminal = NoFile => DOMAIN configured = {})
      BY <1>0, <1>2 DEF PopulateClient, SetUpInOrder
    <2>2. platform' = platform /\ terminal' = terminal /\ app' = app
      BY <1>2 DEF PopulateClient
    <2>3. PICK p \in {0, 1} : p = Client
      BY DEF Client
    <2>4. \A q \in DOMAIN configured : q < p
      BY <2>1, <2>3 DEF Client
    <2>5. ASSUME NEW machine \in {"X64", "ARM64"}, platform = "x64" => machine = "X64", NEW backend,
                 Populate(Client, app, machine, backend, "created")
          PROVE  BootInv'
      <3>1. PICK f \in Attached : f = app
        BY <1>0
      <3>2. Populate(p, f, machine, backend, "created")
        BY <2>3, <2>5, <3>1
      <3>3. QED
        BY <2>1, <2>2, <2>4, <2>5, <3>2, PopulateKeeps
    <2>6. CASE Emulated
      <3>1. Populate(Client, app, "X64", "X64_EMULATOR", "created")
        BY <1>2, <2>6 DEF PopulateClient
      <3>2. QED
        BY <2>5, <3>1
    <2>7. CASE ~Emulated
      <3>1. PICK machine \in {"X64", "ARM64"} : machine = NativeMachine
        BY <1>0
      <3>2. Populate(Client, app, machine, "NATIVE", "created")
        BY <1>2, <2>7, <3>1 DEF PopulateClient
      <3>3. QED
        BY <1>0, <2>5, <3>1, <3>2
    <2>8. QED
      BY <2>6, <2>7
  <1>3. ASSUME UNCHANGED bootVars PROVE BootInv'
    <2>1. /\ platform' = platform /\ terminal' = terminal /\ app' = app /\ pages' = pages
          /\ configured' = configured /\ boot' = boot
      BY <1>3 DEF bootVars
    <2>2. /\ AllPages' = AllPages /\ CpuLocal' = CpuLocal
          /\ \A q : Tables(q)' = Tables(q) /\ ImageStart(q)' = ImageStart(q)
          /\ \A q, m : MappedPages(q, m)' = MappedPages(q, m) /\ StackPage(q, m)' = StackPage(q, m)
      BY <2>1, SamePlatform
    <2>3. \A q \in DOMAIN configured : ConfiguredFromItsFile(q) => ConfiguredFromItsFile(q)'
      BY <2>1, <2>2 DEF ConfiguredFromItsFile, Machine
    <2>4. \A q \in DOMAIN configured : StorageIsWhole(q) => StorageIsWhole(q)'
      BY <2>1, <2>2 DEF StorageIsWhole, LeavesTheStack
    <2>5. QED
      BY <2>1, <2>2, <2>3, <2>4 DEF BootInv, SetUpInOrder
  <1>4. QED
    BY <1>1, <1>2, <1>3, EnterKeeps DEF BootNext

\* The invariant of the bootstrap: the processes are set up in the order of their
\* storage, each from a file the loader accepted, and what was set up stays.
THEOREM BootInvariant == BootSpec => []BootInv
  BY BootInitial, BootStep, PTL DEF BootSpec

\* When user code starts, every process has its tables, its image and its stack, for
\* every number of pages of images and regions (populate_*_bootstrap_for_process).
THEOREM StartCorrect == BootSpec => []EveryProcessStartsWhole
  <1>1. BootInv => EveryProcessStartsWhole
    <2> SUFFICES ASSUME BootInv, boot = "entered", \A p \in DOMAIN configured : LeavesTheStack(p)
                 PROVE  /\ platform = "x64" => pages[CpuLocal].kind = "cpu_local"
                        /\ \A p \in DOMAIN configured :
                             /\ pages[Tables(p)] = Page("tables", p)
                             /\ \A k \in ImageStart(p) .. ImageStart(p) + configured[p].image.pages - 1 :
                                  k \in configured[p].mapped /\ pages[k] = Page("image", p)
                             /\ configured[p].stack \in configured[p].mapped
                             /\ pages[configured[p].stack] \in {Page("stack", p), Zero}
      BY DEF EveryProcessStartsWhole
    <2>1. platform = "x64" => pages[CpuLocal].kind = "cpu_local"
      BY DEF BootInv, Page
    <2>2. ASSUME NEW p \in DOMAIN configured
          PROVE  /\ pages[Tables(p)] = Page("tables", p)
                 /\ \A k \in ImageStart(p) .. ImageStart(p) + configured[p].image.pages - 1 :
                      k \in configured[p].mapped /\ pages[k] = Page("image", p)
                 /\ configured[p].stack \in configured[p].mapped
                 /\ pages[configured[p].stack] \in {Page("stack", p), Zero}
      <3>1. /\ platform \in Platforms /\ p \in {0, 1} /\ ConfiguredFromItsFile(p)
            /\ StorageIsWhole(p) /\ LeavesTheStack(p)
        BY DEF BootInv, SetUpInOrder
      <3>2. QED
        BY <3>1, MappedInStorage DEF StorageIsWhole
    <2>3. QED
      BY <2>1, <2>2
  <1>2. QED
    BY <1>1, BootInvariant, PTL

\* No process maps a page of another one, of the page tables or of the kernel's own
\* data, whatever files are attached.
THEOREM SeparationCorrect == BootSpec => []MappingsAreSeparate
  <1>1. BootInv => MappingsAreSeparate
    <2> SUFFICES ASSUME BootInv, NEW p \in DOMAIN configured
                 PROVE  /\ configured[p].mapped \subseteq Storage(p) \ {Tables(p)}
                        /\ \A q \in DOMAIN configured \ {p} : configured[p].mapped \cap Storage(q) = {}
      BY DEF MappingsAreSeparate
    <2>1. /\ platform \in Platforms /\ p \in {0, 1} /\ ConfiguredFromItsFile(p)
          /\ DOMAIN configured \subseteq {0, 1}
      BY DEF BootInv, SetUpInOrder
    <2>2. configured[p].mapped \subseteq Storage(p) \ {Tables(p)}
      BY <2>1, MappedInStorage
    <2>3. ASSUME NEW q \in DOMAIN configured \ {p} PROVE Storage(p) \cap Storage(q) = {}
      <3>1. q \in {0, 1} /\ q # p
        BY <2>1
      <3>2. Layout /\ StorageLayout(p) /\ StorageLayout(q)
        BY <2>1, <3>1, StorageGeometry
      <3>3. QED
        BY <2>1, <3>1, <3>2 DEF Layout, StorageLayout
    <2>4. QED
      BY <2>2, <2>3
  <1>2. QED
    BY <1>1, BootInvariant, PTL
=============================================================================
