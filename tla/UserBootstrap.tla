--------------------------- MODULE UserBootstrap ---------------------------
(* The platforms' initialize and what follows it up to the first user        *)
(* instruction: the storage of every initial process is set up, its image is *)
(* laid out by the PE loader, and the first thread is prepared.              *)
(*                                                                           *)
(* Memory is modelled in pages.  The storages of the processes are one       *)
(* array, each with its page tables first; behind the array is the           *)
(* platform's CPU-local block.                                               *)
EXTENDS Naturals

CONSTANTS
  Platforms,    \* subset of {"x64", "arm64"}: what the kernel may be built for
  Processes,    \* USER_RUNTIME_MAX_INITIAL_PROCESSES
  ImagePages,   \* X64_USER_IMAGE_PAGE_COUNT
  RegionPages,  \* the user region of an arm64 process
  Attached      \* [machine, pages, loads]: the files that may be attached, with the size of
                \*   their image and whether load_pe32_plus_image finds them in order

(* X64_USER_REGION_SIZE counts the stack page and a device memory page.      *)
X64RegionPages == ImagePages + 2

ASSUME PlatformAssumption ==
  /\ Platforms \subseteq {"x64", "arm64"}
  /\ Processes \in Nat /\ Processes >= 2 /\ ImagePages \in Nat \ {0} /\ RegionPages \in Nat
  /\ X64RegionPages <= RegionPages
  /\ \A f \in Attached : f.pages \in Nat \ {0}

VARIABLES
  platform,    \* the one of Platforms it is built for
  terminal,    \* the attached terminal service, or NoFile
  app,         \* the attached application
  pages,       \* what every page holds
  configured,  \* initial_processes: [image, backend, mapped, stack] per process
  boot         \* "terminal", "client", "created", "entered" or "panicked"

bootVars == <<platform, terminal, app, pages, configured, boot>>

NoFile == [machine |-> "NONE", pages |-> 1, loads |-> FALSE]

(* x64_process_storage has the image's pages and one for the stack,          *)
(* arm64_process_storage one region for everything.                          *)
StoragePages == 1 + IF platform = "x64" THEN ImagePages + 1 ELSE RegionPages

\* Mutant: storages are given out from the end of the array.
TablesFromTheEnd(p) == (Processes - 1 - p) * StoragePages

Tables(p) == p * StoragePages
ImageStart(p) == Tables(p) + 1
Storage(p) == Tables(p) .. Tables(p) + StoragePages - 1
CpuLocal == Processes * StoragePages
AllPages == 0 .. CpuLocal + X64RegionPages

(* The size the loader is told, what is mapped, and where the stack is.      *)
LoadedPages(machine) == IF machine = "X64" THEN X64RegionPages ELSE RegionPages

\* Mutant: x64 maps all that the loader was told of.
MappedPagesOfTheRegion(p, machine) == ImageStart(p) .. ImageStart(p) + LoadedPages(machine) - 1

MappedPages(p, machine) ==
  ImageStart(p) .. ImageStart(p) + (IF platform = "x64" THEN ImagePages + 1 ELSE LoadedPages(machine)) - 1

StackPage(p, machine) == ImageStart(p) + IF machine = "X64" THEN ImagePages ELSE RegionPages - 1

Page(kind, p) == [kind |-> kind, of |-> p]
Zero == Page("zero", 0)

-----------------------------------------------------------------------------
BootInit ==
  /\ platform \in Platforms
  /\ terminal \in Attached \cup {NoFile} /\ app \in Attached
  /\ pages = [k \in AllPages |-> Zero]
  /\ configured = [p \in {} |-> NoFile]
  /\ boot = "terminal"

(* initialize_process_storage: zeroes the storage and fills in its tables.   *)
WithStorage(m, p) ==
  [k \in AllPages |-> IF k = Tables(p) THEN Page("tables", p) ELSE IF k \in Storage(p) THEN Zero ELSE m[k]]

(* load_pe32_plus_image zeroes the buffer it was told of, then lays the      *)
(* image out in it if it fits.                                               *)
WithZeroedBuffer(m, p, n) ==
  [k \in AllPages |-> IF k \in ImageStart(p) .. ImageStart(p) + n - 1 THEN Zero ELSE m[k]]
WithImage(m, p, n) ==
  [k \in AllPages |-> IF k \in ImageStart(p) .. ImageStart(p) + n - 1 THEN Page("image", p) ELSE m[k]]
Accepted(f, machine) == f.loads /\ f.machine = machine /\ f.pages <= LoadedPages(machine)

(* x64 images get a zeroed slot: at the top of the stack page on x64, at the *)
(* top of the whole region on arm64.                                         *)
SlotPage(p) == ImageStart(p) + IF platform = "x64" THEN ImagePages ELSE X64RegionPages - 1
WithSlot(m, p, machine) == IF machine = "X64" THEN [m EXCEPT ![SlotPage(p)] = Page("stack", p)] ELSE m

(* populate_*_bootstrap_for_process: everything a process needs, or a panic  *)
(* with the loader's status.                                                 *)
Populate(p, f, machine, backend, next) ==
  LET buffer == WithZeroedBuffer(WithStorage(pages, p), p, LoadedPages(machine)) IN
  \/ /\ ~Accepted(f, machine)
     /\ boot' = "panicked" /\ pages' = buffer /\ UNCHANGED configured
  \/ /\ Accepted(f, machine)
     /\ boot' = next
     /\ pages' = WithSlot(WithImage(buffer, p, f.pages), p, machine)
     /\ configured' = [q \in DOMAIN configured \cup {p} |->
                         IF q # p THEN configured[q]
                         ELSE [image |-> f, backend |-> backend, mapped |-> MappedPages(p, machine),
                               stack |-> StackPage(p, machine)]]

NativeMachine == IF platform = "x64" THEN "X64" ELSE "ARM64"
Client == IF terminal = NoFile THEN 0 ELSE 1

(* arm64 reads the application's machine before it sets anything up.         *)
Known == platform = "x64" \/ app.machine \in {"ARM64", "X64"}
Emulated == platform = "arm64" /\ app.machine = "X64"

PopulateTerminal ==
  /\ boot = "terminal"
  /\ \/ ~Known /\ boot' = "panicked" /\ UNCHANGED <<pages, configured>>
     \/ Known /\ terminal = NoFile /\ boot' = "client" /\ UNCHANGED <<pages, configured>>
     \/ Known /\ terminal # NoFile /\ Populate(0, terminal, NativeMachine, "NATIVE", "client")
  /\ UNCHANGED <<platform, terminal, app>>

PopulateClient ==
  /\ boot = "client"
  /\ IF Emulated THEN Populate(Client, app, "X64", "X64_EMULATOR", "created")
                 ELSE Populate(Client, app, NativeMachine, "NATIVE", "created")
  /\ UNCHANGED <<platform, terminal, app>>

(* run_initial_user_runtime creates processes and threads and has the        *)
(* platform prepare the first one: x64 fills in its CPU-local block.         *)
EnterUserThread ==
  /\ boot = "created" /\ boot' = "entered"
  /\ pages' = IF platform = "x64" THEN [pages EXCEPT ![CpuLocal] = Page("cpu_local", 0)] ELSE pages
  /\ UNCHANGED <<platform, terminal, app, configured>>

BootNext == PopulateTerminal \/ PopulateClient \/ EnterUserThread

BootSpec == BootInit /\ [][BootNext]_bootVars

-----------------------------------------------------------------------------
(* Properties.                                                               *)

(* An image that ends before the stack page.                                 *)
LeavesTheStack(p) == ImageStart(p) + configured[p].image.pages <= configured[p].stack

(* When user code starts, every process has its own page tables, every page  *)
(* of its image is mapped and holds that image, its stack page is mapped and *)
(* was not used for anything else, and on x64 the CPU-local block is there:  *)
(* setting up one process, whose loader is told of a page that the x64       *)
(* storage does not have, did not undo what was set up before.  It holds     *)
(* because the processes are set up in the order of their storage.           *)
EveryProcessStartsWhole ==
  boot = "entered" /\ (\A p \in DOMAIN configured : LeavesTheStack(p)) =>
    /\ platform = "x64" => pages[CpuLocal].kind = "cpu_local"
    /\ \A p \in DOMAIN configured :
         /\ pages[Tables(p)] = Page("tables", p)
         /\ \A k \in ImageStart(p) .. ImageStart(p) + configured[p].image.pages - 1 :
              k \in configured[p].mapped /\ pages[k] = Page("image", p)
         /\ configured[p].stack \in configured[p].mapped
         /\ pages[configured[p].stack] \in {Page("stack", p), Zero}

(* No process maps a page of another one, of the page tables or of the       *)
(* kernel's own data.                                                        *)
MappingsAreSeparate ==
  \A p \in DOMAIN configured :
    /\ configured[p].mapped \subseteq Storage(p) \ {Tables(p)}
    /\ \A q \in DOMAIN configured \ {p} : configured[p].mapped \cap Storage(q) = {}
=============================================================================
