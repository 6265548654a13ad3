---------------------------- MODULE MCPeImports ----------------------------
(* Images for TLC: a well-formed one, and variants of it that differ in one  *)
(* header field, in the section table or in the import section.  The buffer  *)
(* has 140 cells; the headers take 8, a section of code and data follows.    *)
EXTENDS PeImports

Base == 1000

\* The import section, at cell 8: two descriptors and their terminator, two
\* tables each, the names.  A lookup table may be missing, its entries may be
\* absolute, tables may be shared or follow each other without a gap.
Names == << 75, 46, 68, 108, 76, 0,     \* 23: "K.DlL"
            107, 0,                     \* 29: "k"
            0, 0, 115, 0,               \* 31: hint, "s"
            0, 0, 116, 0,               \* 35: hint, "t"
            0, 0, 121, 0 >>             \* 39: hint, "y"

Section(d1, d2, thunks) == d1 \o d2 \o <<0, 0, 0, 0, 0>> \o Names \o thunks   \* tables from cell 43

None == <<0, 0, 0, 0, 0>>

ImportSections ==
  { Section(<<43, 0, 0, 23, 46>>, <<0, 0, 0, 29, 49>>, <<31, 35, 0, 31, 35, 0, 31, 0, 0, 0, 0, 0>>),
    Section(<<Base + 43, 0, 0, Base + 23, Base + 46>>, None, <<Base + 31, Base + 35, 0, 0, 0, 0, 0, 0, 0, 0, 0, 0>>),
    Section(<<43, 0, 0, 23, 44>>, None, <<31, 35, 0, 0, 0, 0, 0, 0, 0, 0, 0, 0>>),
    Section(<<43, 0, 0, 23, 46>>, <<43, 0, 0, 29, 46>>, <<31, 31, 0, 0, 0, 0, 0, 0, 0, 0, 0, 0>>),
    Section(<<43, 0, 0, 23, 46>>, None, <<39, 0, 0, 0, 0, 0, 0, 0, 0, 0, 0, 0>>),
    Section(<<43, 0, 0, 31, 46>>, None, <<31, 0, 0, 0, 0, 0, 0, 0, 0, 0, 0, 0>>),
    Section(<<43, 0, 0, 20, 46>>, None, <<31, 0, 0, 0, 0, 0, 0, 0, 0, 0, 0, 0>>),
    Section(<<43, 0, 0, 500, 46>>, None, <<31, 0, 0, 0, 0, 0, 0, 0, 0, 0, 0, 0>>),
    Section(<<43, 0, 0, 23, 46>>, None, <<5031, 0, 0, 0, 0, 0, 0, 0, 0, 0, 0, 0>>),
    Section(<<43, 0, 0, 23, 46>>, None, <<600, 0, 0, 0, 0, 0, 0, 0, 0, 0, 0, 0>>),
    Section(<<43, 0, 0, 23, 46>>, None, <<53, 0, 0, 0, 0, 0, 0, 0, 0, 0, 7, 7>>),
    Section(<<0, 0, 0, 29, 46>>, None, <<0, 0, 0, 35, 31, 31, 31, 0, 0, 0, 0, 0>>),
    Section(<<43, 0, 0, 29, 46>>, <<0, 0, 0, 29, 52>>, <<31, 35, 0, 0, 0, 0, 0, 0, 0, 31, 31, 35>>),
    Section(<<43, 0, 0, 29, 54>>, None, <<31, 35, 0, 0, 0, 0, 0, 0, 0, 0, 0, 0>>),
    Section(<<43, 0, 0, 29, 46>>, <<0, 1, 0, 29, 47>>, <<31, 0, 0, 0, 35, 0, 0, 0, 0, 0, 0, 0>>),
    Section(<<43, 0, 0, 49, 46>>, None, <<31, 0, 0, 0, 0, 0, 7, 7, 7, 7, 7, 7>>),
    Section(<<43, 0, 0, 29, 46>>, None, <<49, 0, 0, 0, 0, 0, 120, 0, 120, 0, 0, 0>>),
    Section(<<43, 0, 0, 29, 46>>, None, <<48, 0, 0, 0, 0, 0, 7, 7, 7, 7, 7, 7>>),
    Section(<<43, 0, 0, 29, 46>>, None, <<0, 0, 0, 0, 0, 0, 0, 0, 0, 0, 0, 0>>),
    Section(<<43, 0, 0, 29, 46>>, None, <<36, 0, 0, 0, 0, 0, 0, 0, 0, 0, 0, 0>>) }

Length == 47   \* of an import section

\* The file: 8 cells of headers, the section's data, 4 more cells.
FileWith(data) ==
  [size |-> 12 + Length,
   content |-> [a \in 0 .. 11 + Length |-> IF a < 8 THEN 20 + a ELSE IF a < 8 + Length THEN data[a - 7] ELSE 30 + a],
   mz |-> TRUE, e_lfanew |-> 2, pe |-> TRUE, machine |-> "X64", optional_header |-> TRUE, magic |-> TRUE,
   image_base |-> Base, section_alignment |-> 1, file_alignment |-> 1,
   size_of_image |-> 8 + Length, size_of_headers |-> 8, entry_point |-> 8, directories |-> 16,
   imports |-> [virtual_address |-> 8, size |-> 15], relocations |-> [virtual_address |-> 0, size |-> 0],
   sections |-> << [virtual_address |-> 8, virtual_size |-> Length, raw_size |-> Length, raw_pointer |-> 8] >>]

Plain == [FileWith(CHOOSE d \in ImportSections : TRUE) EXCEPT !.imports = [virtual_address |-> 0, size |-> 0]]

HeaderVariants ==
  { [Plain EXCEPT !.size = 1, !.content = [a \in 0 .. 0 |-> 1]],
    [Plain EXCEPT !.mz = FALSE], [Plain EXCEPT !.e_lfanew = -1], [Plain EXCEPT !.e_lfanew = 56], [Plain EXCEPT !.e_lfanew = 54],
    [Plain EXCEPT !.pe = FALSE], [Plain EXCEPT !.machine = "ARM64"], [Plain EXCEPT !.sections = <<>>],
    [Plain EXCEPT !.optional_header = FALSE], [Plain EXCEPT !.magic = FALSE], [Plain EXCEPT !.image_base = 0],
    [Plain EXCEPT !.section_alignment = 2], [Plain EXCEPT !.file_alignment = 2],
    [Plain EXCEPT !.size_of_image = 0], [Plain EXCEPT !.size_of_image = 141], [Plain EXCEPT !.size_of_headers = 56],
    [Plain EXCEPT !.size_of_headers = 60], [Plain EXCEPT !.entry_point = 55],
    [Plain EXCEPT !.imports.size = 1], [Plain EXCEPT !.imports.virtual_address = 8], [Plain EXCEPT !.relocations.size = 1],
    [Plain EXCEPT !.imports.size = 1, !.relocations.size = 1, !.directories = 1],
    [Plain EXCEPT !.imports = [virtual_address |-> 8, size |-> 48]],
    [Plain EXCEPT !.imports = [virtual_address |-> 8, size |-> 14]] }

\* Section tables: gaps, overlaps, data shorter than memory, no data, no virtual
\* size, at the end of the image, behind it, and data the file does not have.
SectionOf(va, vs, rs, rp) == [virtual_address |-> va, virtual_size |-> vs, raw_size |-> rs, raw_pointer |-> rp]
SectionChoices ==
  { SectionOf(8, 4, 2, 8), SectionOf(10, 6, 0, 0), SectionOf(9, 0, 3, 20), SectionOf(53, 2, 2, 9), SectionOf(54, 2, 1, 9),
    SectionOf(56, 0, 0, 0), SectionOf(55, 0, 0, 0), SectionOf(12, 5, 5, 55), SectionOf(0, 6, 3, 30), SectionOf(2, 3, 1, 70),
    SectionOf(48, 4, 9, 9), SectionOf(50, 4, 12, 9), SectionOf(53, 4, 4, 0), SectionOf(40, 16, 2, 9) }

SectionVariants == {[Plain EXCEPT !.sections = <<s, t>>] : s \in SectionChoices, t \in SectionChoices}

\* Images of different sizes leave different room for the stubs.
ImportVariants ==
  {[FileWith(d) EXCEPT !.size_of_image = n] : d \in ImportSections, n \in {55, 56, 64, 100, 113, 125}}
    \cup {[FileWith(d) EXCEPT !.imports.size = n] : d \in ImportSections, n \in {4, 5}}

Config(pointers, imports) ==
  [pointers |-> pointers, machine |-> "X64", image_base |-> Base, section_alignment |-> 1, file_alignment |-> 1,
   loaded_image_size |-> 140, allow_imports |-> imports, allow_relocations |-> FALSE]

MCConfigs == {Config(TRUE, TRUE), Config(FALSE, TRUE)} \cup {Config(TRUE, FALSE)}

MCImages == HeaderVariants \cup SectionVariants \cup ImportVariants

\* "k.s" and "k.t" are exported; 75 is 'K', 107 'k', 115 's', 116 't', 120 'x'.
MCExports == << [dll |-> <<107>>, symbol |-> <<120>>, syscall |-> 70000],
                [dll |-> <<107>>, symbol |-> <<115>>, syscall |-> 258],
                [dll |-> <<107>>, symbol |-> <<116>>, syscall |-> 1] >>
=============================================================================
