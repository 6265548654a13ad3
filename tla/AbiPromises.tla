----------------------------- MODULE AbiPromises -----------------------------
(***************************************************************************)
(* Statements of docs/user-space-abi.md and kernel/syscalls.h that the     *)
(* user runtime does not keep for every program: each is violated by a     *)
(* short sequence of syscalls that the kernel accepts.                     *)
(***************************************************************************)
EXTENDS UserRuntime

\* docs/user-space-abi.md:113-114: the server replies exactly once and the kernel
\* resumes the client.  The CPU is parked (has_runnable_thread is false) only when
\* no client waits for a reply any more.
NoClientLeftWhenParked ==
    outcome = "parked" => \A t \in Threads : threads[t].state # "BLOCKED"

\* docs/user-space-abi.md:35: the primary return register always carries a status.
\* It does whenever user code comes back from a syscall.
ReturnRegisterHoldsStatus ==
    user.kind = "SYSCALL" => user.ret \in Status
=============================================================================
