# TLA+ models of ringos

ringos is a small operating system for x64 and arm64. Its kernel boots at most
two user processes of one thread each, lets them talk by synchronous remote
procedure calls, and on arm64 can run x64 programs in an emulator. This
directory holds TLA+ modules of the kernel's core, the emulator, the program
loader, the terminal service and the user libc, TLC configurations that check
them, and TLAPS proofs.

## 1. Inventory

| Part | State | Operations | Talks to |
| --- | --- | --- | --- |
| User runtime (`kernel/user_runtime.cpp`) | pools of processes and threads, `m_current_thread` | syscall dispatch, choice of the next thread, exit | RPC runtime, address spaces, the architectures |
| RPC (`kernel/rpc.cpp`) | 8 endpoints (in use, busy, name, owner), 8 channels (client, endpoint, pending client and server, saved server state) | REGISTER, OPEN, CALL, CLOSE, COMPLETE, thread exit | thread objects, scheduler, copies |
| Threads (`kernel/thread.cpp`) | state, trap context, pending status, resume state | set_state, set_user_context, prepare_syscall_resume, prepare_rpc_resume | loaded into registers by the architectures |
| Kernel objects (`kernel/kernel_object_pool.inl`) | five pools of fixed slots, one handle counter | emplace, find_by_handle, erase_by_handle | all creating operations |
| Address spaces (`kernel/address_space.cpp`) | up to 8 mappings per process | add, validate, translate | copies |
| Copies (`kernel/user_runtime.cpp`) | memory | copy_user_bytes, write_user_bytes, copy_between_user_processes, copy_user_string | RPC (names, handles, requests), DEBUG_LOG |
| x64 port (`arch/x64`) | page tables, CPU-local data | syscall entry and exit, bootstrap | runtime, PE loader |
| arm64 port (`arch/arm64`) | translation tables, guest state of the emulator | syscall entry and exit, `enter_user_thread` loop, emulator host, bootstrap | runtime, emulator, PE loader |
| Emulator (`emulator/`) | guest registers, flags, memory, result | decode, dispatch, one handler per instruction | host by the syscall callback |
| PE loader (`win32/`) | the image being laid out, offset of the next stub | header checks, sections, import binding | bootstrap |
| Terminal service (`services/terminal`) | line buffer | flush, write | SDK, DEBUG_LOG |
| libc, crt (`user/libc`, `user/crt`) | table of exit handlers, output cursor | start-up, exit, formatting, byte loops | DEBUG_LOG, THREAD_EXIT |
| SDK (`user/sdk`, `kernelsdk/`) | | syscall stubs, completion trampoline | kernel |
| Boot, console, machine, panic | hardware | straight-line set-up | |

What is hard. The kernel has one CPU and is never preempted, so no step inside a
syscall interleaves with another. What interleaves is *user programs*: the order
of their syscalls decides who is current, who is blocked, which call an answer
belongs to. A call parks the client, saves the server's state, bends the
server's resume state to a callback and changes the current thread; the answer,
or the exit of either side, has to undo all of it, possibly after other calls,
registrations and exits. Second, everything has a small fixed capacity and slots
are used again while references to them (handles, endpoint pointers, saved
contexts) live on. Third, the copies run over mappings with arithmetic on machine
words, in chunks, and can fail in the middle. Fourth, the emulator: an
instruction may fail between two of its effects, its length is computed in
several places, and the reason for which it stopped decides whether the kernel
kills a thread, goes on or panics. Fifth, the loader and the libc work in place:
import tables are read from an image that binding changes, storage of neighbours
is set up by code that is told too large a size, handlers of `exit` call `exit`.
`PROJECT.json` lists all of this under `hazards`, at the lines.

What makes the parts correct:

* runtime and RPC: one thread runs; a thread is blocked exactly while it has a
  call pending; busy flags and names agree with the calls and owners; a blocked
  client is woken once, by its server; the request-reply contract of
  `docs/user-space-abi.md`;
* kernel objects: handles are unique, mean one object for ever, admit the owner;
* address spaces and copies: translation stays inside the process, validation is
  exact, copies move exactly the bytes asked for, and end;
* emulator: a run never exceeds its budget, faults are precise and located,
  execution stays on instruction boundaries, no guest but one that uses up its
  budget makes the kernel panic, a guest that waits goes on where it was, also
  after it served a call, and requests are laid below what it has on its stack;
* loader and bootstrap: memory is what the file declares, bound imports lead to
  whole stubs, both end, processes start whole and map only their own pages;
* terminal and libc: what is written comes out once and in order, handlers run
  once and last in first out, the formatted text is what fits and its length what
  would have fitted.

## 2. Modules

| Module | Models | Composed of |
| --- | --- | --- |
| `ThreadContext` | thread objects, choice of the current thread, register frames (operators) | |
| `UserRuntime` | syscalls, scheduling, RPC, exit, the kernel's entry and exit paths | `ThreadContext` |
| `RequestReply` | the abstract contract of synchronous calls | |
| `ServiceDeployment` | `UserRuntime` under the roles of the shipped programs; refinement to `RequestReply`; fairness | `UserRuntime`, `RequestReply` |
| `AbiPromises` | documented statements that do not hold for every program | `UserRuntime` |
| `KernelObjects` | pools, handles, creation and erasure | |
| `AddressSpace` | mapping table and translation (operators) | |
| `UserCopy` | the four copying functions | `AddressSpace` |
| `X64Arithmetic` | words, flags (operators) | |
| `X64Machine` | guest state, memory, operand decoding, results (operators) | `X64Arithmetic` |
| `X64Interpreter` | the interpreter loop, decoding, an action per instruction handler | `X64Machine` |
| `X64Host` | an emulated thread on the arm64 kernel | `X64Interpreter` |
| `PeImage` | header checks and section placement | |
| `PeImports` | binding imports to syscall stubs | `PeImage` |
| `UserBootstrap` | what both platforms set up before user code runs | |
| `TerminalService` | the service's request callback | |
| `LibcExit`, `LibcStdio`, `LibcString` | start-up and exit, formatted output, byte loops | |
| `UserLibc` | the three together | `LibcExit`, `LibcStdio`, `LibcString` |
| `UserRuntimeProofs`, `ServiceDeploymentProofs`, `KernelObjectsProofs`, `UserCopyProofs`, `X64HostProofs`, `TerminalServiceProofs`, `UserLibcProofs` | theorems | the module they are named after |
| `PeImageProofs` | theorems about the loader and the bootstrap | `PeImports`, `UserBootstrap` |
| `MC*` | instances for TLC | |

### UserRuntime and ThreadContext

One step is one trap: from the user instruction that enters the kernel to the
one at which user code, of this or another thread, goes on. Variables: `threads`
(`m_threads`), `current` (`m_current_thread`), `endpoints`, `channels`, `user`
(the registers user code finds) and `outcome` (running, parked because
`has_runnable_thread` is false, or panic).

Each syscall is an action named after it: `DebugLog`, `ThreadExit`,
`RpcRegister`, `RpcOpen`, `RpcCall`, `RpcClose`, `RpcComplete`; `OtherSyscall` is
DEVICE_MEMORY_MAP and the unknown numbers. `EmulatorGuestFault` is the end of
`run_x64_emulator_thread`, `KernelPanic` the exhausted instruction budget and the
arm64 exceptions that are no syscalls, `Spin` the parked CPU. `Answer` is a
handler that changes nothing and returns a status; `LeaveKernel` is the common
epilogue of `x64_handle_syscall`, `arm64_handle_syscall` and
`dispatch_x64_syscall`: the status goes to the caller if it is still current, and
the frame of the current thread is loaded. The emulator continues with its own
registers when the thread did not change; `ResumedFrame` keeps that difference.

Abstraction. Instruction pointer, stack pointer, flags and preserved registers
always travel together; they are one value, the *activation* they belong to (the
main flow, or the callback of a name). An argument register holds a status or
something that is not one (`Address`). Each process has one thread, as
`run_initial_user_runtime` creates them, so thread t stands for both. A handle is
the channel it names; that this is right is what `KernelObjects` shows. Requests
are not in this module; whether they can be copied is a free choice. The
constant `Mistakes` names the argument errors the programs of an instance make;
each only returns a status. A fault of native x64 user code is left out: the x64
kernel installs no handler for it.

### ServiceDeployment

ringos ships services, which register and never open, and applications, which
open and never register. `RolesAreSeparate` states it as an assumption on
`MayRegister` and `MayOpen`. Under it the runtime refines `RequestReply`, with
`alive` = threads not exited, `running` = `current`, `waits` = pairs of client
and server of the pending calls.

### KernelObjects

`objects` maps every slot of every pool to an object (id, handle, owner) or
Empty; `next_handle` is the shared counter, `next_id` the ids per pool; `held`
records which handles a program has been given and has not closed, and is read by
no step. Handles have 64 bits in the code, so the counter does not wrap;
`LastHandle` bounds it in an instance, and the theorems hold for every bound.

### AddressSpace and UserCopy

Addresses are machine words `0 .. Top` and addition wraps. A behaviour maps
storage as `populate_bootstrap_for_process` does, then performs one copy, one
chunk or one character per step. Bytes are tagged with where they came from, so a
property can tell whether each arrived in its place. `memcpy` moves bytes in
ascending order, which matters when a program calls its own endpoint and source
and destination overlap.

### X64Arithmetic, X64Machine, X64Interpreter, X64Host

`X64Machine` has the state of a guest: `mem` (its region), `reg`, `xmm`, `flags`,
`ip`, and `result`, the record `x64_emulator_result`. Operand decoding (prefixes,
ModRM, SIB, displacements, immediates), effective addresses, loads and stores are
operators over it. Widths are constants: a dword has `DwordBytes` bytes, a qword
`QwordBytes`; everything the code computes from the width is computed from them.

`X64Interpreter` has one action per handler of the decoder, `phase` for the
life of a call of `run_x64_emulator`, `invocation` for its arguments, and `code`,
the program as it was laid out, which only properties read. A handler's early
returns are disjuncts. A failing memory access records what
`set_invalid_memory_access` records, and nothing more; this is what
`FaultIsLocated` and `GuestFaultsEndTheThread` are about.

`X64Host` adds `run_x64_emulator_thread`, `dispatch_x64_syscall` and the resumption
of a thread: `saved` is what the thread object keeps, `host` what the kernel makes
of the thread. It is the inside of what `UserRuntime` calls `EmulatorGuestFault`
and `KernelPanic`.

A waiting thread is run again in one of two ways, the two kinds of resume state
that `load_x64_emulator_resume_state` tells apart. `HostResumes` is the end of the
syscall it waits in. `HostServes` is a call of its endpoint by another thread:
`prepare_server_thread` copies the request below the guest's stack, `begin_call`
keeps the thread's state in `call`, and the guest goes on at the callback with the
request's address and size in rdi and rsi. `HostRequestBreaksOff` is a call that is
refused after part of the request was copied. In the callback the guest makes
syscalls and waits like anywhere else; its RPC_COMPLETE (`HostCompletes`) puts back
what `call` kept, and the next resume continues the interrupted flow, with the
callback's values in the registers that the thread object has no place for. `left`
is history: the guest as each of the two flows left it. The kernel that hosts the
emulator is an arm64 kernel, so the branch of `prepare_server_thread` that counts is
the one for `__aarch64__`, which pushes no return address. The thread owns one
endpoint, as the services do; a call of its own endpoint, and what syscalls write to
guest memory, are left out.

### PeImage and PeImports

A file is a record of the header fields the code reads, a section table and
content. `CheckHeaders` is the list of checks in the order of the code, with the
status of the first that fails; then one section per step (`LoadSection`). Memory
goes on behind the buffer, so that a write beyond it is seen. `PeImports` follows
the import walk, one descriptor and one thunk per step; names are sequences of
character codes, because the resolver folds case and suffix. A cell of memory
holds a byte, a character or one field of an import table, so the sizes of table
entries are 1 in the model.

### UserBootstrap

Memory in pages. `platform` is chosen in the initial state; the storage of the
processes is one array with the CPU-local block behind it, as the platforms
declare them. A process is set up by one action: clearing the storage, filling in
tables, loading the image into a buffer of the size the loader is *told*, the
stack slot, the mappings.

### TerminalService

The callback, character by character, over a line buffer; the log accepts or
refuses a line. Requests of wrong size, operation or length are refused as in the
code. `arrived` is history. The characters are a constant (`Characters`) that
contains NUL, CR and LF; all others are alike to the service.

### UserLibc

`LibcExit` has the call stack (`frames`) of a program whose initializers, main and
handlers may each call `atexit`, `exit` or `abort`, or return. `LibcStdio` follows
`vsnprintf` from character to character of the format and of each conversion;
conversions are modelled by the digits they produce. The target a call is built for
matters in two places: `long` has 64 bits on x64 and 32 on arm64, and a `va_list` is
an array on x64 and a pointer on arm64, so that there the functions that read
integers, to which the list is passed by value, do not advance it
(`ArgumentsAfter`). `LibcString` has one step per
byte, so that overlapping ranges matter. The three files share no data, so a
behaviour of `UserLibc` uses one of them and the others rest.

## 3. Runs

| Run | Instance | Shows |
| --- | --- | --- |
| `user_runtime` | 2 threads (native arm64, emulated x64), 2 names, 2 endpoints, 2 channels | consistency of threads, calls, flags and names for all programs |
| `service_deployment` | a service with 2 names and 2 applications on x64 | callbacks match calls; the CPU parks only when all have exited; refinement of `RequestReply`; every call returns |
| `kernel_objects` | 2 processes, 2 channel slots, 1 slot of each other kind, 8 handles | handles mean one object and admit exactly their owner |
| `user_copy` | words 0..7, 2 processes, up to 2 mappings of 2 bytes, buffer of 4 | translation, validation, copies, strings, termination |
| `x64_emulator` | 44 bytes of guest memory at 70, dwords of 2 and qwords of 3 bytes, budgets from 0 | every instruction form, in the middle and at both ends of memory; guests that loop, fault, wait, serve calls and exit |
| `pe_loader` | a buffer of 140 cells; 24 header variants, 196 pairs of sections, 20 import sections in images of 8 sizes or directory lengths, 3 configurations, with and without resolver | layout, binding, agreement of the two header parsers, termination |
| `user_bootstrap` | both platforms, 2 processes, image of 2 pages, region of 6, files of 3 machines and 1 to 7 pages, in order or not | processes start whole, mappings are separate |
| `terminal_service` | lines of 3, log of 4, 4 requests | writes arrive, lines end where they were written |
| `user_libc` | 2 handlers, 4 calls of atexit, exits nested 3 deep; 34 formats on 2 targets and buffers of 0 to 5; 4 bytes of memory | the properties of the three libc modules; everything ends |
| `mutual_call`, `return_register` | 2 threads | a documented statement fails; see Findings |
| `callback_return` | the short programs of `x64_emulator` | the same |

Bounds. Two threads are what the kernel boots with today; three in
`service_deployment` give two applications competing for one service. Two
channels and two endpoints are the least with which slots run out and are used
again while an older reference is alive, and with which two calls are pending at
once. In `user_copy` the bases 1, 3 and 6 with size 2 give adjacent mappings, a
gap, and a mapping that would reach past the last address; a buffer of 4 lets a
copy cross two mappings and end on a limit. With 8 handles, 5 channels can be
opened after the processes are there, more than twice the slots. In
`x64_emulator` the three widths byte, dword and qword differ, so that a wrong
width, a missing zero extension or a wrong operand length shows, and programs are
placed where their accesses fit, just fit and do not fit. One
endpoint with requests of 1 and 5 bytes calls every guest that waits: servers with
stack slots, flags and registers in use, whose callback changes registers of both
kinds, waits in a syscall of its own and completes, programs that were not written
as servers, and one whose stack lies above the region, so that only part of the
longer request can be copied. The PE sections include
gaps, overlaps, empty ones, one that ends exactly at the image's end and one that
begins there; the image sizes leave room for no stub, some stubs and all. In
`user_bootstrap` files end before, in and behind the stack page and behind the
region. The terminal's log buffer is one longer than its line, as in the code. In
`user_libc` the table of handlers is smaller than the number of calls, so it runs
full and is used again (`MaxCalls` also ends the registrations: see Fairness);
buffers of 0 and 1 and texts that fit exactly are there;
four bytes give every overlap of two ranges.

Fairness. `EveryCallReturns` assumes weak fairness of `CallbackReturns` only: a
thread that serves a call eventually completes it unless it exits. The terminal
service's callback is straight-line code over a bounded request, its return
address is the SDK's completion trampoline, which makes the RPC_COMPLETE syscall,
and nothing preempts it. Nothing is assumed of any other thread. `UserCopy`,
`X64Host` and `PeImports` assume that the code they follow goes on: kernel code is
not preempted, and loops of the interpreter run inside the kernel. `UserLibc` assumes
the same of the library (`LibraryGoesOn`), and of the program's own functions that
they return (`ProgramReturns`): nothing can be said of a handler that loops.
`EveryCallEnds` has one more premise, `RecordsFinitelyOften`: a handler that records
itself again keeps the loop at `exit.cpp:15` going for ever, and such a program does
not exit. In the run the bound `MaxCalls` on the calls of `atexit` makes the premise
true of every behaviour; without the premise the statement would be false of the
code. None of the
liveness properties says anything about a thread that is READY: nothing preempts
user code, and a service that idles keeps the CPU (`hazards`).

Deadlock is checked in the runs of the kernel, where a parked or panicked CPU
spins (`Spin`) and a finished copy stays finished (`Return`). It is not checked
where the modelled function returns or the program ends: the emulator, the loader,
the bootstrap, the terminal service, whose clients may stop, and the libc.

## 4. Findings

Three statements of the repository are violated by what the code does; each has a
run whose trace shows it, and an entry in `PROJECT.json`.

* `mutual_call`: A calls B while B waits for A. RPC_CALL makes the blocked server
  current, no thread is runnable, the CPU parks for good.
* `return_register`: on arm64 a server that gave way in RPC_REGISTER finds, after
  serving a call, the address of the name in x0 in place of a status.
* `callback_return`: an x64 service on the arm64 kernel is entered at its callback
  with the request on top of the stack. The x64 kernel pushes the completion address
  there and the native arm64 path puts it into the link register; the emulator's
  resume does neither, so the callback's `ret` pops the first bytes of the request.
  The terminal service is always native, so no shipped program is affected.

Seen while modelling, and part of the models, without a run of their own:

* `kernel/rpc.cpp:210`: a thread that exits while it serves two calls (through a
  call inside a callback) answers the first client only.
* `kernel/rpc.cpp:359`: a channel points at an endpoint *slot*; when the slot is
  registered again under another name, old channels lead there in place of
  reporting PEER_CLOSED.
* `kernel/thread.cpp:159`: a server that gave way in RPC_REGISTER resumes, after
  serving a call, with the status of the last syscall its callback made.
* `kernel/user_runtime.cpp:194`: a write that fails in its second chunk has changed
  the first, whereas `docs/user-space-abi.md:36` promises unchanged buffers.
* `emulator/x64/x64_decoder.cpp:28`: a failed fetch does not set the fault's
  instruction pointer; the kernel logs that of the instruction before.
  `FaultIsLocated` excludes this case.
* `arch/x64/x64_initial_user_runtime_platform.cpp:137`: the loader is told
  `X64_USER_REGION_SIZE`, one page more than `x64_process_storage` has behind its
  tables. It zeroes that page, the next process's page tables or the CPU-local block,
  and accepts and lays out images that reach into it. `EveryProcessStartsWhole` holds
  all the same, because processes are set up in ascending order and the CPU-local
  block is filled in last.
* `user/libc/src/stdio.cpp:117` and `:133`: on arm64, where a `va_list` is a pointer,
  an integer conversion does not use up its argument: `"%d %d"` prints the first
  number twice. No property reads which argument was converted.
* `user/libc/src/exit.cpp:15`: a handler that records itself again keeps `exit` from
  ending.
* `win32/pe_image.cpp:227`: a section's range is checked with its virtual size and
  copied with its raw size, so longer data leaves the declared image. The theorem
  `OnlyOversizedDataLeaves` says that nothing else does.

## 5. Proofs

`UserRuntimeProofs` proves, for any number of threads, names, endpoint and
channel slots, any backends and any programs, that `TypeOK`, `OneThreadRuns`,
`BlockedExactlyWhileCalling`, `BusyExactlyWhileServing`, `NamesLeadToLiveOwners`
and `SavedStateRestorable` are invariants. It assumes only
`ThreadContextAssumption` and `UserRuntimeAssumption`. None of these is inductive
alone; their conjunction `IInv` is:

* COMPLETE gives the server its saved state back and makes the client current;
  that one thread runs afterwards needs `SavedStateRestorable`;
* that the client woken was BLOCKED, and that the thread that exits is not, needs
  `BlockedExactlyWhileCalling` with `OneThreadRuns`;
* clearing the endpoints of a thread that exits clears the right busy flags only
  because a served call's endpoint is owned by its server
  (`BusyExactlyWhileServing`);
* a new call is served by a live thread because of `NamesLeadToLiveOwners`;
* a saved state is RUNNING exactly for a call to oneself, as `OneThreadRuns` says
  that no other server can be running.

The proof has a lemma for every operator of `ThreadContext` (what it changes and
what not), one for `LeaveKernel`, and one per action; those of CALL, COMPLETE and
exit are split by conjunct. From `IInv` follows the action property
`OnlyItsServerWakesAClient`: a BLOCKED thread changes its state only in COMPLETE
and in an exit of its server, because those are the only steps that touch a thread
that is not current, and the channel they clear is the one it waits on.

`ServiceDeploymentProofs` proves, for any number of services, applications, names
and slots whose roles are separate (`RolesAreSeparate`), `CallbacksMatchCalls`,
`ParksOnlyWhenAllExited`, and that the runtime implements `RequestReply` under the
mapping given above. The inductive invariant `DInv` adds to `IInv` that only
programs that register own endpoints and only programs that open hold channels
(`RolesKept`), that the server of a blocked client is the thread that runs, and
that every thread but the running one rests in its main flow (`OthersRestInMain`).
The first is what makes the rest hold: a server never waits, so a call never goes
to a blocked server, a second call cannot begin while one is pending, and exit
finds a READY thread if any thread is left. `NextStep` proves preservation and the
simulation together, one lemma per action: REGISTER, OPEN, CLOSE and refused calls
are stutters or yields of the contract, CALL a request, COMPLETE a reply, and an
exit that answers a waiting client is one step of the contract as well.

`KernelObjectsProofs` proves `HandlesUnique`, `HeldExactlyUsable` and the action
property `HandleNamesOneObject` for pools of any capacity. The inductive invariant
adds to uniqueness that every live handle is below the counter and restates
ownership in terms of slots (`HeldExactlyOwned`), because `HandleStatus` is
defined by searches that are only right where handles are unique.

`X64HostProofs` proves, for words, regions and budgets of any size and whatever a
guest executes, that a run that returned gives one consistent account of why
(`StopIsClassified`), that it never retires more than its budget and reports the
limit exactly when it is used up (`BudgetIsExact`), and that a guest fault ends
the thread, not the kernel (`GuestFaultsEndTheThread`). It assumes
`BudgetAssumption` only. The inductive invariant `HostInv` adds that a running
call still has the result it was initialized with but for the count, that the
calls the host makes are accepted ones, and that a thread the host has dealt with
has returned. The argument: every handler ends in one of a few named ways
(`HandlersEnd`: it retires, faults at an address, or is unsupported), and each of
these classifies the result completely (`EndsHaveOutcome`), although the error
paths of the handlers set the completion only and leave the rest to the failed
access. `CompareFlagsMean` and `AddFlagsMean` show
that the flags mean what the conditional jumps take them for, on words of any
width.

The same module proves what a fault and a syscall do to the guest: a reported
address is one where an access can fail and the reported instruction is the one at
`ip` (`FaultIsLocated`), a fault leaves memory, registers, flags and `ip` as they
were but for the lowered `rsp` of a push behind the region (`FaultsArePrecise`), and
a thread that waited goes on behind its syscall with everything its flow left, also
when callbacks ran in between (`ResumesBehindTheSyscall`). These rest on
`WidthsAssumption` and `RegionAssumption` (the widths are ordered, the region is in the address space),
`GuestAssumption` (memory is bytes, registers are words, the callback answers
numbers), `StatusesAssumption` and `RequestsAssumption` (a request is a non-empty
sequence of bytes). The inductive invariant `GuestInv` is the type of the guest's
memory and registers, `FaultIsLocated`, that the host waits only for a run that
yielded, and three facts about flows: what is saved for a waiting thread is what its
current flow left (`Keeps`), what the pending call keeps is what the main flow left,
and the registers with no place in the thread object still hold what the flow that
is about to go on left in them (`StillHolds`). The last needs the history to say that
a callback leaves those registers to the flow it interrupts. From the same invariant
follows `RequestsSpareTheStack`: a request is laid at an aligned address at least its
size below the saved stack pointer, which is that of the flow it interrupts, so
nothing at or above it changes, whether the copy succeeds or breaks off.
The types are needed because an address that fails is computed
from bytes of memory and registers, through ModRM and SIB bytes, displacements and
shifts: there is a lemma for each decoder (`SibIs`, `MemoryOperandIs`, `OperandIs`)
saying that it yields an address or names the read that failed, and one for each
handler (`PushRegisterEnds` to `UnsupportedOpcodeEnds`) saying that it ends in one of
four ways, of which only the last, retiring, writes anything but `rsp`. That memory
and registers only hold numbers is weaker than that they hold bytes and words, but
it is all that these properties need.

`PeImageProofs` proves for every file that the assumptions admit, with any number
of sections, that memory is what the sections loaded so far declare
(`LoadedAsDeclared`), and that only data longer than its section's memory leaves
the declared image (`OnlyOversizedDataLeavesTheImage`). The inductive invariant
`ImageInv` carries what the header checks and the checks of earlier sections have
established, because the code does not look at them again, and that the memory a
load starts with is untouched. Assumed: `SizesAssumption`, `ImagesAssumption`.

For the import binder it proves `BindingIsExact`, for directories of any length
and any names. `ImportInv` adds that the cursor walks inside a directory that lies
in the image, that every bound slot lies in the image and every stub between the
end of the image and `next_stub`; so a later stub overwrites no earlier one, and a
slot is overwritten by another slot only. `ProbedImagesParse` follows step by
step: the status of a refused file is that of a check that fails, and none of the
checks that `try_get_pe_machine` makes as well does.

For the bootstrap it proves `EveryProcessStartsWhole` and `MappingsAreSeparate` for
images and regions of any number of pages on both platforms. `BootInv` says that
the processes are set up in the order of their storage, each from a file the
loader accepted, and that what has been set up stays. On x64 the set-up of a
process also changes the page behind its storage; the proof needs that this page
belongs to a process not yet set up or to the CPU-local block, which
`EnterUserThread` fills in last. Assumed: `PlatformAssumption`, which says among
other things that there are two storages (`USER_RUNTIME_MAX_INITIAL_PROCESSES`).

`UserCopyProofs` proves `TranslationExact`, `CopiesExactly` and `StringTerminated` on
words of any width, for any storage of the processes that leaves out address 0,
and for buffers whose size is a word. What has to be shown of an address space is
that its mappings do not wrap, do not overlap and lie in the storage of the process
(`WellFormed`; `AddKeepsWellFormed` derives it from the checks of `add_mapping`).
Then a chunk is translated byte by byte (`ChunkOfMapping`), and validation, which
the code does by chunks as well, accepts exactly the ranges all of whose bytes are
mapped. `CInv` says of a copy under way that the bytes passed are mapped at both
ends, have arrived unless the ranges overlap, and that nothing but their targets
has changed; `PlacesInjective` is why a later chunk does not overwrite an earlier
one.

`TerminalServiceProofs` proves `WritesArrive` and `LinesEndWhereTheyWereWritten` for
lines, logs and requests of any size, provided a line is shorter than what the
kernel's log accepts, as it is in the code (95 and 96 bytes); without that a full
line would be refused and lost. `TerminalInv` adds that the open line is printable
and that the console is empty or ends with a line feed: the length of a printed
line is counted from the line feed before it.

`UserLibcProofs` proves:

* `HandlersRunExactlyOnce` and `LastInFirstOut`, for handler tables of any size.
  `ExitInv` says that the table, which grows upwards in the order of recording, and
  the history of started handlers are complementary. It survives handlers that
  record handlers or call `exit` because the code lowers the count before it calls;
* `FormatsTheText` and `PrintsAllOrNothing`, for every format and buffer. `StdioInv`
  ties cursor, remaining room and total to the text produced so far, whether the
  text still fits or not. Assumed: the log accepts more than a newline and less than
  `printf`'s buffer holds (96 and 512 bytes in the code);
* that memcpy, memmove and memset leave in the destination what the source held, for
  every overlap (`DestinationAsWanted`), and that memcmp and strlen stop at the
  right byte (`ScansExactly`), for memory of every size. `StringInv` says of each
  loop what is already moved and that the part of the source not read yet is still
  the original one; for memmove that is where the direction is needed.

Three recursive functions are in the way of these proofs: the loop of
`validate_user_range`, `Text`, the printable part of a text, and `Number`, the value
of a string of digits, with which the emulator's model writes loads, powers and
bitwise operations (the provers know no exponentiation). Induction over their
argument is out of the prover's reach as a rule with a predicate, so the proofs use
the least-number principle (`LeastNatural`, from the library's theorem that `<` is
well-founded on the naturals): the set of arguments at which the recursive equation
fails has no least element, hence is empty. What the solved functions compute is
proved the same way.

Each inductive invariant was checked by TLC, as an invariant of the run of its
module, before it was proved.

Only model-checked, and why:

* the liveness properties `EveryCallReturns`, `EveryCopyReturns`,
  `KernelRegainsControl`, `LoaderReturns` and `EveryCallEnds`:
  the proof system has no rules for fairness and `ENABLED`;
* `KeepsToTheProgram`: it compares the decoder with the instructions as the
  assembler laid them out. For a program that is any sequence of byte strings it is
  false, and the program that makes it true for every value of the constants would
  have to be defined by the lengths of all instruction forms, which is the decoder
  once more. The runs give it assembled programs.

## 6. Not modelled, and the plan

Not modelled and not planned: boot, permission bits of page tables, MMU set-up,
MSRs, assembly stubs, console output, build and test scripts. They are
straight-line code over hardware that no later operation of the kernel reads back.
The stubs of `stdlib.cpp` (allocation that always fails, arithmetic helpers) keep no
state. A fault of native x64 user code has no handler in the kernel.

What is left: `UserRuntime` composed with `X64Host`, so that an emulated thread's
traps are those of its program and not a free choice.
