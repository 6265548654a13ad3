----------------------------- MODULE PeImports -----------------------------
(* load_x64_pe64_image (src/win32/x64_pe64_image.cpp) with the import        *)
(* resolver of src/win32/x64_win32_emulation.cpp: the imports of a loaded    *)
(* image are bound to syscall stubs that are written behind it.              *)
EXTENDS PeImage

CONSTANTS
  NameSize,      \* sizeof(dll_name) and sizeof(function_name)
  OrdinalFlag,   \* PE_IMPORT_BY_ORDINAL_MASK64
  MaxSyscall,    \* 0xFFFFFFFF
  Exports,       \* get_x64_win32_dll_exports: sequence of [dll, symbol, syscall]
  Resolvers      \* subset of {"none", "win32"}: the import_resolver argument

VARIABLES
  resolver,    \* import_resolver
  descriptor,  \* descriptor_rva
  tables,      \* [dll, lookup, address]: what the current descriptor names
  thunk,       \* thunk_index
  next_stub,   \* next_stub_offset
  bound,       \* the imports bound so far: [slot, export, offset]
  progress     \* "image", "descriptors", "thunks" or "returned"

importVars == <<resolver, descriptor, tables, thunk, next_stub, bound, progress>>
loaderVars == <<file, config, memory, section, stage, status,
                resolver, descriptor, tables, thunk, next_stub, bound, progress>>

ImageSize == file.size_of_image
DescriptorSize == 5   \* original_first_thunk, time_date_stamp, forwarder_chain, name, first_thunk
StubSize == 11
StubAlignment == 16

ASSUME ImportsAssumption ==
  /\ NameSize \in Nat \ {0} /\ Exports \in Seq([dll : Seq(Nat), symbol : Seq(Nat), syscall : Nat])
  /\ \A f \in Images : f.imports.virtual_address \in Nat /\ f.imports.size \in Nat
  /\ \A c \in Configs : c.image_base \in Nat

-----------------------------------------------------------------------------
(* translate_loaded_rva and copy_loaded_record.                              *)
Loaded(rva, length) == rva <= ImageSize /\ length <= ImageSize - rva

(* read_loaded_ascii_string: the characters up to the terminator, which must *)
(* be among the first NameSize cells and inside the image.                   *)
Terminators(rva) == {n \in 0 .. NameSize - 1 : Loaded(rva + n, 1) /\ memory[rva + n] = 0}
Readable(rva) == Terminators(rva) # {}
ReadName(rva) ==
  LET length == CHOOSE n \in Terminators(rva) : \A m \in Terminators(rva) : n <= m
  IN  [k \in 1 .. length |-> memory[rva + k - 1]]

(* try_resolve_import_name_rva: a reference is relative to the image or      *)
(* absolute; what is below the image's size is taken as relative.            *)
IsRelative(reference) == reference < ImageSize
IsAbsolute(reference) ==
  reference >= config.image_base /\ reference - config.image_base < ImageSize
Resolvable(reference) == IsRelative(reference) \/ IsAbsolute(reference)
Rva(reference) == IF IsRelative(reference) THEN reference ELSE reference - config.image_base

IsEmptyImportDescriptor(rva) == \A k \in 0 .. DescriptorSize - 1 : memory[rva + k] = 0

-----------------------------------------------------------------------------
(* resolve_x64_win32_import.  DLL names match without regard to case, with   *)
(* or without the suffix ".dll"; symbol names match exactly.                 *)
ToLowerAscii(c) == IF c \in 65 .. 90 THEN c + 32 ELSE c
Lowered(name) == [k \in DOMAIN name |-> ToLowerAscii(name[k])]
DllSuffix == <<46, 100, 108, 108>>

DllNamesMatch(imported, registered) ==
  \/ Lowered(imported) = Lowered(registered)
  \/ Lowered(imported) = Lowered(registered) \o DllSuffix

Matching(dll, symbol) ==
  {k \in DOMAIN Exports : DllNamesMatch(dll, Exports[k].dll) /\ symbol = Exports[k].symbol}

AlignUp(value, alignment) ==
  IF alignment = 0 \/ value % alignment = 0 THEN value ELSE value + (alignment - (value % alignment))

(* mov rdi, rcx; mov eax, number; syscall; ret                               *)
Stub(number) ==
  <<\h48, \h89, \hCF, \hB8,
    number % 256, (number \div 256) % 256, (number \div 65536) % 256, (number \div 16777216) % 256,
    \h0F, \h05, \hC3>>

StubOffset == AlignUp(next_stub, StubAlignment)
StubFits == StubOffset <= config.loaded_image_size /\ StubSize <= config.loaded_image_size - StubOffset

\* Mutant: the `ret` of the stub is written twice.
WithStubLonger(m, offset, number) ==
  [a \in Cells |-> IF a - offset \in 0 .. StubSize - 1 THEN Stub(number)[a - offset + 1]
                   ELSE IF a - offset = StubSize THEN \hC3 ELSE m[a]]

WithStub(m, offset, number) ==
  [a \in Cells |-> IF a - offset + 1 \in 1 .. StubSize THEN Stub(number)[a - offset + 1] ELSE m[a]]

-----------------------------------------------------------------------------
ImportInit ==
  /\ ImageInit
  /\ resolver \in Resolvers
  /\ descriptor = 0 /\ tables = [dll |-> <<>>, lookup |-> 0, address |-> 0]
  /\ thunk = 0 /\ next_stub = 0 /\ bound = <<>> /\ progress = "image"

LoadImage == progress = "image" /\ ImageNext /\ UNCHANGED importVars

ImportReturns(s) == progress' = "returned" /\ status' = s

(* load_pe32_plus_image is done: its failure is the loader's; an image       *)
(* without imports is ready.                                                 *)
BeginImports ==
  /\ progress = "image" /\ stage \in {"loaded", "failed"}
  /\ LET imports == ImportDirectory(file)
         inside == Loaded(imports.virtual_address, imports.size) IN
     \/ stage = "failed" /\ ImportReturns(status) /\ UNCHANGED <<descriptor, next_stub>>
     \/ /\ stage = "loaded" /\ imports.virtual_address = 0
        /\ ImportReturns("OK") /\ UNCHANGED <<descriptor, next_stub>>
     \/ /\ stage = "loaded" /\ imports.virtual_address # 0 /\ ~inside
        /\ ImportReturns("IMPORT_TABLE_OUT_OF_RANGE") /\ UNCHANGED <<descriptor, next_stub>>
     \/ /\ stage = "loaded" /\ imports.virtual_address # 0 /\ inside
        /\ progress' = "descriptors"
        /\ descriptor' = imports.virtual_address /\ next_stub' = ImageSize
        /\ UNCHANGED status
  /\ UNCHANGED <<file, config, memory, section, stage, resolver, tables, thunk, bound>>

InDirectory ==
  descriptor + DescriptorSize <= ImportDirectory(file).virtual_address + ImportDirectory(file).size

ReadDescriptor ==
  /\ progress = "descriptors"
  /\ LET original == memory[descriptor]
         name == memory[descriptor + 3]
         first == memory[descriptor + 4]
         lookup == IF original # 0 THEN original ELSE first
         empty == IsEmptyImportDescriptor(descriptor)
         known == Resolvable(name) /\ Resolvable(first) /\ (original # 0 => Resolvable(original)) IN
     \/ ~InDirectory /\ ImportReturns("INVALID_IMPORT_DIRECTORY") /\ UNCHANGED <<tables, thunk>>
     \/ InDirectory /\ empty /\ ImportReturns("OK") /\ UNCHANGED <<tables, thunk>>
     \/ /\ InDirectory /\ ~empty /\ ~known
        /\ ImportReturns("IMPORT_TABLE_OUT_OF_RANGE") /\ UNCHANGED <<tables, thunk>>
     \/ /\ InDirectory /\ ~empty /\ known /\ ~Readable(Rva(name))
        /\ ImportReturns("IMPORT_NAME_OUT_OF_RANGE") /\ UNCHANGED <<tables, thunk>>
     \/ /\ InDirectory /\ ~empty /\ known /\ Readable(Rva(name))
        /\ tables' = [dll |-> ReadName(Rva(name)), lookup |-> Rva(lookup), address |-> Rva(first)]
        /\ thunk' = 0 /\ progress' = "thunks"
        /\ UNCHANGED status
  /\ UNCHANGED <<file, config, memory, section, stage, resolver, descriptor, next_stub, bound>>

Slot == tables.address + thunk
Entry == memory[tables.lookup + thunk]

(* A resolver that is there: the first matching export, then room for its    *)
(* stub.                                                                     *)
ResolveImport(symbol) ==
  LET matching == Matching(tables.dll, symbol)
      k == CHOOSE j \in matching : \A l \in matching : j <= l IN
  \/ /\ resolver = "none" \/ matching = {}
     /\ ImportReturns("UNSUPPORTED_IMPORT") /\ UNCHANGED <<memory, next_stub, bound, thunk>>
  \/ /\ resolver # "none" /\ matching # {} /\ (Exports[k].syscall > MaxSyscall \/ ~StubFits)
     /\ ImportReturns("IMPORT_STUB_OUT_OF_RANGE") /\ UNCHANGED <<memory, next_stub, bound, thunk>>
  \/ /\ resolver # "none" /\ matching # {} /\ Exports[k].syscall <= MaxSyscall /\ StubFits
     /\ memory' = [WithStub(memory, StubOffset, Exports[k].syscall) EXCEPT
                     ![Slot] = config.image_base + StubOffset]
     /\ next_stub' = StubOffset + StubSize
     /\ bound' = Append(bound, [slot |-> Slot, export |-> k, offset |-> StubOffset])
     /\ thunk' = thunk + 1
     /\ UNCHANGED <<status, progress>>

\* Mutant: the loop over the descriptors does not advance.
BindThunkOnce ==
  /\ progress = "thunks"
  /\ LET inside == Loaded(tables.lookup + thunk, 1) /\ Loaded(Slot, 1) IN
     \/ /\ ~inside /\ ImportReturns("IMPORT_TABLE_OUT_OF_RANGE")
        /\ UNCHANGED <<memory, next_stub, bound, thunk, descriptor>>
     \/ /\ inside /\ Entry = 0
        /\ progress' = "descriptors" /\ descriptor' = descriptor
        /\ UNCHANGED <<memory, next_stub, bound, thunk, status>>
     \/ /\ inside /\ Entry # 0 /\ UNCHANGED descriptor
        /\ \/ /\ Entry >= OrdinalFlag /\ ImportReturns("UNSUPPORTED_IMPORT_ORDINAL")
              /\ UNCHANGED <<memory, next_stub, bound, thunk>>
           \/ /\ Entry < OrdinalFlag /\ ~Resolvable(Entry)
              /\ ImportReturns("IMPORT_TABLE_OUT_OF_RANGE")
              /\ UNCHANGED <<memory, next_stub, bound, thunk>>
           \/ /\ Entry < OrdinalFlag /\ Resolvable(Entry) /\ ~Readable(Rva(Entry) + 2)
              /\ ImportReturns("IMPORT_NAME_OUT_OF_RANGE")
              /\ UNCHANGED <<memory, next_stub, bound, thunk>>
           \/ /\ Entry < OrdinalFlag /\ Resolvable(Entry) /\ Readable(Rva(Entry) + 2)
              /\ ResolveImport(ReadName(Rva(Entry) + 2))
  /\ UNCHANGED <<file, config, section, stage, resolver, tables>>

(* One thunk: the terminator ends the descriptor, but needs a slot in the    *)
(* address table as well.                                                    *)
BindThunk ==
  /\ progress = "thunks"
  /\ LET inside == Loaded(tables.lookup + thunk, 1) /\ Loaded(Slot, 1) IN
     \/ /\ ~inside /\ ImportReturns("IMPORT_TABLE_OUT_OF_RANGE")
        /\ UNCHANGED <<memory, next_stub, bound, thunk, descriptor>>
     \/ /\ inside /\ Entry = 0
        /\ progress' = "descriptors" /\ descriptor' = descriptor + DescriptorSize
        /\ UNCHANGED <<memory, next_stub, bound, thunk, status>>
     \/ /\ inside /\ Entry # 0 /\ UNCHANGED descriptor
        /\ \/ /\ Entry >= OrdinalFlag /\ ImportReturns("UNSUPPORTED_IMPORT_ORDINAL")
              /\ UNCHANGED <<memory, next_stub, bound, thunk>>
           \/ /\ Entry < OrdinalFlag /\ ~Resolvable(Entry)
              /\ ImportReturns("IMPORT_TABLE_OUT_OF_RANGE")
              /\ UNCHANGED <<memory, next_stub, bound, thunk>>
           \/ /\ Entry < OrdinalFlag /\ Resolvable(Entry) /\ ~Readable(Rva(Entry) + 2)
              /\ ImportReturns("IMPORT_NAME_OUT_OF_RANGE")
              /\ UNCHANGED <<memory, next_stub, bound, thunk>>
           \/ /\ Entry < OrdinalFlag /\ Resolvable(Entry) /\ Readable(Rva(Entry) + 2)
              /\ ResolveImport(ReadName(Rva(Entry) + 2))
  /\ UNCHANGED <<file, config, section, stage, resolver, tables>>

ImportNext == LoadImage \/ BeginImports \/ ReadDescriptor \/ BindThunk

(* The loader is straight-line kernel code and runs to its end.              *)
ImportSpec == ImportInit /\ [][ImportNext]_loaderVars /\ WF_loaderVars(ImportNext)

-----------------------------------------------------------------------------
(* Properties.                                                               *)

BoundSlots == {bound[n].slot : n \in DOMAIN bound}
Rebound(n) == \E m \in DOMAIN bound : m > n /\ bound[m].slot = bound[n].slot
StubCells(n) == bound[n].offset .. bound[n].offset + StubSize - 1

(* Every import that was bound stays bound: its slot leads to its own stub,  *)
(* and the stub, behind the image and inside the buffer, is whole, however   *)
(* many imports are bound after it and whatever size the image has.          *)
ImportsLeadToTheirStubs ==
  \A n \in DOMAIN bound :
    /\ Rebound(n) \/ memory[bound[n].slot] = config.image_base + bound[n].offset
    /\ StubCells(n) \subseteq ImageSize .. config.loaded_image_size - 1
    /\ \A a \in StubCells(n) :
         memory[a] = Stub(Exports[bound[n].export].syscall)[a - bound[n].offset + 1]

(* Binding writes nothing but slots and stubs: the rest of the image is what *)
(* the file declares, also when the loader gives up half way.                *)
ImageSurvivesBinding ==
  stage = "loaded" =>
    \A a \in Cells :
      \/ memory[a] = Declared(Len(file.sections), a)
      \/ a \in BoundSlots \/ \E n \in DOMAIN bound : a \in StubCells(n)

(* Two parsers read the headers: what try_get_pe_machine accepts and reports *)
(* as the expected machine, the loader does not refuse for its signatures.   *)
ProbedImagesParse ==
  TryGetPeMachine(file) /\ file.machine = config.machine =>
    status \notin {"MISSING_DOS_HEADER", "INVALID_DOS_HEADER", "MISSING_NT_HEADERS",
                   "INVALID_NT_SIGNATURE", "WRONG_MACHINE", "UNSUPPORTED_MAGIC"}

(* The loader comes to an end, whatever the tables of the image refer to:    *)
(* themselves, each other or the slots that it writes.                       *)
LoaderReturns == <>(progress = "returned")

(* Binding the imports of an image adds whole stubs and their addresses, and *)
(* changes nothing else (load_x64_pe64_image, resolve_x64_win32_import).     *)
BindingIsExact == ImportsLeadToTheirStubs /\ ImageSurvivesBinding
=============================================================================
