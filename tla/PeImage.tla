------------------------------ MODULE PeImage ------------------------------
(* load_pe32_plus_image and try_get_pe_machine (src/win32/pe_image.cpp): a   *)
(* PE32+ file is checked and laid out in the memory of a new process.        *)
(*                                                                           *)
(* A file is a record of its header fields, its section table and its        *)
(* content.  Memory is addressed in cells: a cell holds a byte, a character  *)
(* or one field of an import table.  memory starts at loaded_image and goes  *)
(* on beyond the buffer of the process, up to Reach.                         *)
EXTENDS Integers, Sequences

CONSTANTS
  DosSize, NtSize, SectionSize,  \* sizes of pe_dos_header, pe_nt_headers64, pe_section_header
  Reach,                         \* cells of memory from loaded_image on
  Images,                        \* the files that may be attached
  Configs                        \* [pointers, machine, image_base, section_alignment,
                                 \*  file_alignment, loaded_image_size, allow_imports,
                                 \*  allow_relocations]; pointers: no argument is null

VARIABLES
  file,     \* image_bytes and image_size
  config,   \* pe_image_load_config
  memory,   \* what loaded_image points at
  section,  \* section_index
  stage,    \* "called", "sections", "loaded" or "failed"
  status    \* pe_image_load_status

imageVars == <<file, config, memory, section, stage, status>>

Sections == [virtual_address : Nat, virtual_size : Nat, raw_size : Nat, raw_pointer : Nat]

ASSUME SizesAssumption ==
  /\ DosSize \in Nat /\ NtSize \in Nat /\ SectionSize \in Nat /\ Reach \in Nat

(* What C++'s types say of a file, and of the constants of the loader.       *)
ASSUME ImagesAssumption ==
  /\ \A f \in Images :
       /\ f.size \in Nat /\ f.content \in [0 .. f.size - 1 -> Nat]
       /\ f.sections \in Seq(Sections) /\ f.e_lfanew \in Int
       /\ f.size_of_image \in Nat /\ f.size_of_headers \in Nat /\ f.entry_point \in Nat
  /\ \A c \in Configs : c.loaded_image_size \in Nat /\ c.loaded_image_size <= Reach

-----------------------------------------------------------------------------
(* copy_embedded_record succeeds.                                            *)
Embedded(f, offset, size) == offset <= f.size /\ size <= f.size - offset

HasDirectory(directory) == directory.virtual_address # 0 \/ directory.size # 0

(* A directory that the optional header does not count is absent.            *)
NoDirectory == [virtual_address |-> 0, size |-> 0]
ImportDirectory(f) == IF f.directories > 1 THEN f.imports ELSE NoDirectory
RelocationDirectory(f) == IF f.directories > 5 THEN f.relocations ELSE NoDirectory

\* Mutant: the magic of the optional header is not looked at.
TryGetPeMachineAnyMagic(f) ==
  /\ Embedded(f, 0, DosSize) /\ f.mz /\ f.e_lfanew >= 0
  /\ Embedded(f, f.e_lfanew, NtSize) /\ f.pe

TryGetPeMachine(f) ==
  /\ Embedded(f, 0, DosSize) /\ f.mz /\ f.e_lfanew >= 0
  /\ Embedded(f, f.e_lfanew, NtSize) /\ f.pe /\ f.magic

(* The checks of the headers, in the order of the code.  The fields of a     *)
(* header that cannot be read are never looked at: an earlier check failed.  *)
HeaderChecks(f, c) ==
  << <<~Embedded(f, 0, DosSize), "MISSING_DOS_HEADER">>,
     <<~f.mz \/ f.e_lfanew < 0, "INVALID_DOS_HEADER">>,
     <<~Embedded(f, f.e_lfanew, NtSize), "MISSING_NT_HEADERS">>,
     <<~f.pe, "INVALID_NT_SIGNATURE">>,
     <<f.machine # c.machine, "WRONG_MACHINE">>,
     <<f.sections = <<>>, "MISSING_SECTIONS">>,
     <<~f.optional_header, "UNSUPPORTED_OPTIONAL_HEADER">>,
     <<~f.magic, "UNSUPPORTED_MAGIC">>,
     <<f.image_base # c.image_base, "UNEXPECTED_IMAGE_BASE">>,
     <<f.section_alignment # c.section_alignment \/ f.file_alignment # c.file_alignment,
       "UNSUPPORTED_ALIGNMENT">>,
     <<f.size_of_image = 0 \/ f.size_of_image > c.loaded_image_size, "IMAGE_TOO_LARGE">>,
     <<f.size_of_headers > f.size_of_image \/ f.size_of_headers > f.size, "HEADERS_OUT_OF_RANGE">>,
     <<f.entry_point >= f.size_of_image, "ENTRY_POINT_OUT_OF_RANGE">>,
     <<(ImportDirectory(f).virtual_address = 0) # (ImportDirectory(f).size = 0),
       "INVALID_IMPORT_DIRECTORY">>,
     <<~c.allow_imports /\ HasDirectory(ImportDirectory(f)), "UNEXPECTED_IMPORTS">>,
     <<~c.allow_relocations /\ HasDirectory(RelocationDirectory(f)), "UNEXPECTED_RELOCATIONS">>,
     <<~Embedded(f, f.e_lfanew + NtSize, SectionSize * Len(f.sections)), "TRUNCATED_SECTION_TABLE">> >>

Failed(checks) == {k \in DOMAIN checks : checks[k][1]}
FirstFailure(checks) == checks[CHOOSE k \in Failed(checks) : \A j \in Failed(checks) : k <= j][2]

-----------------------------------------------------------------------------
(* memset over the buffer, then the headers.  The buffer is zeroed first,    *)
(* whatever the checks find.                                                 *)
Cells == 0 .. Reach - 1
Zeroed == [a \in Cells |-> IF a < config.loaded_image_size THEN 0 ELSE memory[a]]

ImageInit ==
  /\ file \in Images /\ config \in Configs
  /\ memory \in [Cells -> {1}]
  /\ section = 1 /\ stage = "called" /\ status = "NONE"

Fails(s) == stage' = "failed" /\ status' = s

CheckHeaders ==
  /\ stage = "called"
  /\ \/ ~config.pointers /\ Fails("INVALID_ARGUMENT") /\ UNCHANGED memory
     \/ /\ config.pointers /\ Failed(HeaderChecks(file, config)) # {}
        /\ Fails(FirstFailure(HeaderChecks(file, config)))
        /\ memory' = Zeroed
     \/ /\ config.pointers /\ Failed(HeaderChecks(file, config)) = {}
        /\ stage' = "sections"
        /\ memory' = [a \in Cells |-> IF a < file.size_of_headers THEN file.content[a] ELSE Zeroed[a]]
        /\ UNCHANGED status
  /\ UNCHANGED <<file, config, section>>

MemorySize(s) == IF s.virtual_size # 0 THEN s.virtual_size ELSE s.raw_size

InImage(s) ==
  s.virtual_address <= file.size_of_image /\ MemorySize(s) <= file.size_of_image - s.virtual_address

HasData(s) == s.raw_size > 0 => Embedded(file, s.raw_pointer, s.raw_size)

(* The raw data is copied whole; what the section has beyond it is zeroed.   *)
Copied(m, s) ==
  [a \in Cells |-> IF a >= s.virtual_address /\ a < s.virtual_address + s.raw_size
                   THEN file.content[s.raw_pointer + (a - s.virtual_address)] ELSE m[a]]

\* Mutant: as many cells are zeroed as the section has, not as the data leaves.
FilledTooLong(m, s) ==
  [a \in Cells |-> IF /\ MemorySize(s) > s.raw_size
                     /\ a >= s.virtual_address + s.raw_size
                     /\ a < s.virtual_address + s.raw_size + MemorySize(s)
                   THEN 0 ELSE m[a]]

Filled(m, s) ==
  [a \in Cells |-> IF a >= s.virtual_address + s.raw_size /\ a < s.virtual_address + MemorySize(s)
                   THEN 0 ELSE m[a]]

LoadSection ==
  /\ stage = "sections" /\ section <= Len(file.sections)
  /\ LET s == file.sections[section] IN
     \/ ~InImage(s) /\ Fails("SECTION_OUT_OF_RANGE") /\ UNCHANGED <<memory, section>>
     \/ InImage(s) /\ ~HasData(s) /\ Fails("SECTION_DATA_OUT_OF_RANGE") /\ UNCHANGED <<memory, section>>
     \/ /\ InImage(s) /\ HasData(s)
        /\ memory' = Filled(Copied(memory, s), s)
        /\ section' = section + 1
        /\ UNCHANGED <<stage, status>>
  /\ UNCHANGED <<file, config>>

SectionsLoaded ==
  /\ stage = "sections" /\ section > Len(file.sections)
  /\ stage' = "loaded" /\ status' = "OK"
  /\ UNCHANGED <<file, config, memory, section>>

ImageNext == CheckHeaders \/ LoadSection \/ SectionsLoaded

ImageSpec == ImageInit /\ [][ImageNext]_imageVars

-----------------------------------------------------------------------------
(* Properties.                                                               *)

ImageTypeOK ==
  /\ file \in Images /\ config \in Configs
  /\ memory \in [Cells -> Nat]
  /\ section \in 1 .. Len(file.sections) + 1
  /\ stage \in {"called", "sections", "loaded", "failed"}

(* The buffer is zero where nothing was written, memory behind it is not.    *)
Untouched(a) == IF a < config.loaded_image_size THEN 0 ELSE 1

(* What the file says a cell holds once its first n sections are in place:   *)
(* the last of them that covers the cell decides, then the headers.          *)
Extent(k) == LET s == file.sections[k] IN
  s.virtual_address .. s.virtual_address + (IF s.raw_size > MemorySize(s) THEN s.raw_size ELSE MemorySize(s)) - 1

Covering(n, a) == {k \in 1 .. n : a \in Extent(k)}
Last(ks) == CHOOSE k \in ks : \A j \in ks : j <= k

InSection(k, a) ==
  LET s == file.sections[k]
  IN  IF a - s.virtual_address < s.raw_size THEN file.content[s.raw_pointer + (a - s.virtual_address)] ELSE 0

Declared(n, a) ==
  IF Covering(n, a) # {} THEN InSection(Last(Covering(n, a)), a)
  ELSE IF a < file.size_of_headers THEN file.content[a]
  ELSE Untouched(a)

(* The sections that were loaded so far, each over what earlier ones left,   *)
(* give exactly the memory the file declares; what no section covers is      *)
(* zero, and the memory behind the buffer is as it was.                      *)
LoadedAsDeclared ==
  stage = "sections" => \A a \in Cells : memory[a] = Declared(section - 1, a)

(* Only a section whose raw data is longer than its memory reaches beyond    *)
(* the declared size of the image, and so possibly beyond the buffer: the    *)
(* bounds are checked with the memory size, the copy uses the raw size.      *)
OnlyOversizedDataLeavesTheImage ==
  stage = "sections" => \A a \in Cells :
    a >= file.size_of_image /\ memory[a] # Untouched(a) =>
      \E k \in 1 .. section - 1 :
        /\ a \in Extent(k)
        /\ file.sections[k].raw_size > MemorySize(file.sections[k])
=============================================================================
