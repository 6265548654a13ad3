---------------------------- MODULE ThreadContext ----------------------------
(***************************************************************************)
(* The kernel's thread objects (kernel/thread.cpp) and the operations that *)
(* move user code on and off the CPU: the trap context the kernel saves,   *)
(* the resume state it will load, the scheduler's choice of the current    *)
(* thread (kernel/user_runtime.cpp) and the register frames the two        *)
(* architectures load from a resume state (arch/x64, arch/arm64).          *)
(*                                                                         *)
(* Everything here is an operator on the table of threads, a function from *)
(* Threads to thread records; UserRuntime turns the operators into steps.  *)
(*                                                                         *)
(* Data abstraction.  An instruction pointer, stack pointer, flags and the *)
(* callee-saved registers always travel together; they are one value, the  *)
(* activation they belong to: the program's main flow, or the callback     *)
(* registered under an endpoint name.  Of the argument registers only the  *)
(* first matters (arm64 uses x0 for argument 0 and for the result); it     *)
(* holds a status, or something that is not a status (an address or a      *)
(* handle), written Address.                                               *)
(***************************************************************************)
EXTENDS Integers

CONSTANTS
    NumThreads,     \* threads created by run_initial_user_runtime, one per process
    Names,          \* endpoint names the programs know
    Replies,        \* values programs pass to RPC_COMPLETE (any int32 is accepted)
    Backend         \* Backend[t]: how the code of thread t is executed

Threads == 0 .. NumThreads - 1

\* The null thread pointer.
NoThread == -1

Main == "main"
Activation == Names \cup {Main}

\* kernel/syscalls.h; the runtime returns these and no other.
KernelStatus == {"OK", "INVALID_ARGUMENT", "BAD_HANDLE", "WRONG_TYPE", "BUFFER_TOO_SMALL",
                 "PEER_CLOSED", "WOULD_BLOCK", "NO_MEMORY", "FAULT", "NOT_SUPPORTED",
                 "BAD_STATE", "NOT_FOUND"}
Status == KernelStatus \cup Replies

Address == "address"
Register == Status \cup {Address}

Backends == {"x64_native", "arm64_native", "x64_emulator"}

ASSUME ThreadContextAssumption ==
    /\ NumThreads \in Nat \ {0}
    /\ Main \notin Names
    /\ Address \notin Status
    /\ Backend \in [Threads -> Backends]
    \* A kernel is built for one architecture; the emulator is a part of the
    \* arm64 kernel.
    /\ \A t, u \in Threads : Backend[t] = "x64_native" <=> Backend[u] = "x64_native"

ThreadState == {"READY", "RUNNING", "BLOCKED", "EXITED"}
Context == [at : Activation, argument0 : Register]
ResumeState == [kind : {"SYSCALL", "RPC"}, at : Activation,
                argument0 : Register, status : Status]
Thread == [state : ThreadState, context : Context,
           pending_status : Status, resume : ResumeState]

\* What user code finds in the registers when the kernel lets it run: where it
\* continues, whether as the return of a syscall or as the entry of a callback,
\* and the content of the return register.
UserFrame == [at : Activation, kind : {"SYSCALL", "RPC"}, ret : Register]

-----------------------------------------------------------------------------
(* thread.cpp *)

\* The constructor: a new thread starts in its main flow with argument 0.
NewThread ==
    [state |-> "READY",
     context |-> [at |-> Main, argument0 |-> "OK"],
     pending_status |-> "OK",
     resume |-> [kind |-> "SYSCALL", at |-> Main, argument0 |-> "OK", status |-> "OK"]]

\* sync_resume_to_user_context
SyncedResume(th) ==
    [kind |-> "SYSCALL", at |-> th.context.at,
     argument0 |-> th.context.argument0, status |-> th.pending_status]

\* set_user_context
SetUserContext(tt, t, context) ==
    LET th == [tt[t] EXCEPT !.context = context]
    IN  [tt EXCEPT ![t] = [th EXCEPT !.resume = SyncedResume(th)]]

\* prepare_syscall_resume; the arm64 build also puts the status into argument 0.
PrepareSyscallResume(tt, t, status) ==
    LET th == [tt[t] EXCEPT !.pending_status = status]
        synced == SyncedResume(th)
    IN  [tt EXCEPT ![t] = [th EXCEPT !.resume =
            IF Backend[t] = "x64_native" THEN synced
            ELSE [synced EXCEPT !.argument0 = status]]]

\* Mutant: the instruction pointer of the interrupted flow is kept.
PrepareRpcResumeInPlace(tt, t, callback) ==
    [tt EXCEPT ![t] = [tt[t] EXCEPT !.resume =
        [kind |-> "RPC", at |-> tt[t].context.at, argument0 |-> Address, status |-> "OK"]]]

\* prepare_rpc_resume: enter the callback with the address of the request; the
\* saved context and the pending status stay as they are.
PrepareRpcResume(tt, t, callback) ==
    [tt EXCEPT ![t] = [tt[t] EXCEPT !.resume =
        [kind |-> "RPC", at |-> callback, argument0 |-> Address, status |-> "OK"]]]

\* set_state
SetState(tt, t, state) == [tt EXCEPT ![t] = [tt[t] EXCEPT !.state = state]]

-----------------------------------------------------------------------------
(* user_runtime.cpp: the choice of the current thread *)

Ready(tt) == {t \in Threads : tt[t].state = "READY"}

\* Distance in the round-robin order that begins behind thread t and comes to t
\* itself last.
Turn(t, u) == (u - t - 1) % NumThreads

\* find_next_ready_thread: the ready thread (a singleton, empty when none is
\* ready) that comes first in round-robin order behind t.
NextReady(tt, t) ==
    {u \in Ready(tt) : \A v \in Ready(tt) : Turn(t, u) <= Turn(t, v)}

\* Mutant: the displaced thread stays running.
SetCurrentThreadKeepingOld(tt, old, new) ==
    IF tt[new].state = "READY" THEN SetState(tt, new, "RUNNING") ELSE tt

\* Mutant: a blocked thread is made to run.
SetCurrentThreadUnblocking(tt, old, new) ==
    LET displaced == IF old # NoThread /\ old # new /\ tt[old].state = "RUNNING"
                     THEN SetState(tt, old, "READY")
                     ELSE tt
    IN  IF displaced[new].state # "EXITED"
        THEN SetState(displaced, new, "RUNNING")
        ELSE displaced

\* set_current_thread: the running thread it displaces becomes ready, the new
\* one runs if it was ready; a blocked thread stays blocked.
SetCurrentThread(tt, old, new) ==
    LET displaced == IF old # NoThread /\ old # new /\ tt[old].state = "RUNNING"
                     THEN SetState(tt, old, "READY")
                     ELSE tt
    IN  IF displaced[new].state = "READY"
        THEN SetState(displaced, new, "RUNNING")
        ELSE displaced

\* has_runnable_thread, for the thread cur made current
Runnable(tt, cur) == cur # NoThread /\ tt[cur].state \notin {"BLOCKED", "EXITED"}

-----------------------------------------------------------------------------
(* arch/: the frame loaded from the resume state of thread t *)

\* load_user_thread_frame puts the status in rax.
LoadX64Frame(resume) == [at |-> resume.at, kind |-> resume.kind, ret |-> resume.status]

\* load_x64_emulator_resume_state does the same for a guest.
LoadEmulatorState(resume) == LoadX64Frame(resume)

\* load_arm64_syscall_frame puts argument 0 in x0.
LoadArm64Frame(resume) == [at |-> resume.at, kind |-> resume.kind, ret |-> resume.argument0]

\* The choice that the enter_user_thread loop makes by the backend of the process.
LoadFrame(tt, t) ==
    CASE Backend[t] = "x64_native" -> LoadX64Frame(tt[t].resume)
      [] Backend[t] = "arm64_native" -> LoadArm64Frame(tt[t].resume)
      [] Backend[t] = "x64_emulator" -> LoadEmulatorState(tt[t].resume)
=============================================================================
