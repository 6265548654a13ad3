------------------------------ MODULE X64Host ------------------------------
(* An x64 guest thread on the arm64 kernel: run_x64_emulator_thread drives   *)
(* the interpreter, dispatch_x64_syscall is its syscall callback, and the    *)
(* loop of enter_user_thread runs the thread again when the scheduler comes  *)
(* back to it: behind the syscall it waits in, or in the callback of an      *)
(* endpoint that another thread calls.  The scheduler is in UserRuntime.     *)
(*                                                                           *)
(* The thread owns one endpoint, as the services do, so the endpoint's busy  *)
(* flag admits one call at a time.  A call of its own endpoint is left out:  *)
(* the epilogue of that syscall drops the prepared resume.  So is what a     *)
(* syscall writes to the guest's memory.                                     *)
EXTENDS X64Interpreter

CONSTANTS
  Statuses,   \* statuses a resumed syscall may return
  Endpoints,  \* [callback, completion]: the endpoint the thread may have registered
  Requests    \* the bytes other threads may send it

ASSUME StatusesAssumption == Statuses \subseteq Int

ASSUME RequestsAssumption ==
  \A request \in Requests : request \in Seq(0 .. 255) /\ request # <<>>

VARIABLES
  host,    \* what the kernel makes of the thread
  status,  \* status the thread was terminated with, or "NONE"
  saved,   \* the thread object: user context and preserved registers
  call,    \* the channel of a call that is pending on the thread
  left     \* history: the guest as each of its flows left it, for properties only

hostVars == <<host, status, saved, call, left>>
allVars == <<mem, reg, xmm, flags, ip, result, phase, invocation, code, host, status, saved, call, left>>

(* rbx, rbp, rsi, rdi and r12 to r15 have a place in the thread object, and  *)
(* so have xmm6 to xmm15.  The other registers stay in the guest state of    *)
(* the process, which nothing else writes.                                   *)
RSI == 6
RDI == 7
PreservedRegisters == {3, 5, RSI, RDI, 12, 13, 14, 15}
PreservedXmm == 6 .. 15

StoredState(next) ==
  [instruction_pointer |-> next, stack_pointer |-> reg[RSP], flags |-> flags,
   registers |-> [r \in PreservedRegisters |-> reg[r]], xmm |-> [r \in PreservedXmm |-> xmm[r]]]

(* begin_call keeps what the thread object holds, cancel_call forgets it.    *)
NoCall == [pending |-> FALSE, server |-> <<>>]
PendingCall == [pending |-> TRUE, server |-> saved]

(* The thread is in its main flow, or in a callback that interrupts it.      *)
Flows == {"main", "callback"}
Flow == IF call.pending THEN "callback" ELSE "main"
Guest == [reg |-> reg, xmm |-> xmm, flags |-> flags, ip |-> ip]

HostInit ==
  /\ Init
  /\ host = "running" /\ status = "NONE"
  /\ saved = StoredState(ip)
  /\ call = NoCall
  /\ left = [f \in Flows |-> Guest]

-----------------------------------------------------------------------------
(* The guest's syscalls.                                                     *)
SYSCALL_RPC_COMPLETE == 8
Completing == call.pending /\ reg[RAX] = SYSCALL_RPC_COMPLETE

\* Mutant: the thread is saved with ip at the syscall instruction.
HostSyscallSavedAtIt ==
  /\ host = "running" /\ ~Completing
  /\ ExecuteSyscall
  /\ saved' = StoredState(ip)
  /\ call' = IF result'.guest_stop_reason = "THREAD_EXITED" THEN NoCall ELSE call
  /\ left' = [left EXCEPT ![Flow] = Guest']
  /\ UNCHANGED <<host, status>>

(* dispatch_x64_syscall stores the state before it enters the kernel: ip is  *)
(* already behind the instruction, rax still holds the syscall number.  An   *)
(* exit cancels the call that the thread serves.                             *)
HostSyscall ==
  /\ host = "running" /\ ~Completing
  /\ ExecuteSyscall
  /\ saved' = StoredState(ip')
  /\ call' = IF result'.guest_stop_reason = "THREAD_EXITED" THEN NoCall ELSE call
  /\ left' = [left EXCEPT ![Flow] = Guest']
  /\ UNCHANGED <<host, status>>

(* What the main flow has after a callback: the callback leaves it the       *)
(* registers that the thread object does not keep.                           *)
Interrupted(flow, guest) ==
  [reg |-> [r \in Registers |-> IF r \in PreservedRegisters \cup {RSP} THEN flow.reg[r] ELSE guest.reg[r]],
   xmm |-> [r \in Registers |-> IF r \in PreservedXmm THEN flow.xmm[r] ELSE guest.xmm[r]],
   flags |-> flow.flags, ip |-> flow.ip]

(* The callback's RPC_COMPLETE: the state just stored is overwritten by what *)
(* begin_call kept, the client becomes current and the thread yields.        *)
HostCompletes ==
  /\ host = "running" /\ Completing
  /\ ExecuteSyscall /\ result'.guest_stop_reason = "YIELDED"
  /\ saved' = call.server
  /\ call' = NoCall
  /\ left' = [left EXCEPT !["main"] = Interrupted(left["main"], Guest')]
  /\ UNCHANGED <<host, status>>

HostExecutes ==
  /\ host = "running"
  /\ ~DispatchesSecondary(Instruction, {\h05})
  /\ Next
  /\ UNCHANGED hostVars

GuestFaultStatus == IF result.guest_stop_reason = "INVALID_MEMORY_ACCESS" THEN "FAULT" ELSE "NOT_SUPPORTED"

HostReturns ==
  /\ host = "running" /\ phase = "returned"
  /\ \/ /\ \/ result.backend_failure # "NONE"
           \/ result.guest_stop_reason \notin GuestStops
        /\ host' = "panicked" /\ UNCHANGED <<status, call>>
     \/ /\ result.backend_failure = "NONE" /\ result.guest_stop_reason \in GuestFaults
        /\ host' = "terminated" /\ status' = GuestFaultStatus /\ call' = NoCall
     \/ /\ result.backend_failure = "NONE" /\ result.guest_stop_reason = "THREAD_EXITED"
        /\ host' = "exited" /\ UNCHANGED <<status, call>>
     \/ /\ result.backend_failure = "NONE" /\ result.guest_stop_reason = "YIELDED"
        /\ host' = "waiting" /\ UNCHANGED <<status, call>>
  /\ UNCHANGED <<mem, reg, xmm, flags, ip, result, phase, invocation, code, saved, left>>

-----------------------------------------------------------------------------
(* The thread is run again.                                                  *)

(* prepare_syscall_resume and prepare_rpc_resume.                            *)
SyscallResume(answer) ==
  [kind |-> "SYSCALL", instruction_pointer |-> saved.instruction_pointer,
   stack_pointer |-> saved.stack_pointer, flags |-> saved.flags,
   argument0 |-> 0, argument1 |-> 0, status_code |-> answer]

RpcResume(callback, address, size) ==
  [kind |-> "RPC", instruction_pointer |-> callback, stack_pointer |-> address, flags |-> saved.flags,
   argument0 |-> address, argument1 |-> size, status_code |-> 0]

(* load_x64_emulator_resume_state, and the next call of run_x64_emulator.    *)
ResumedRegister(resume, r) ==
  CASE r = RAX -> Truncated(resume.status_code, Qword)
    [] r = RSP -> resume.stack_pointer
    [] r = RDI /\ resume.kind = "RPC" -> resume.argument0
    [] r = RSI /\ resume.kind = "RPC" -> resume.argument1
    [] r \in PreservedRegisters /\ ~(r \in {RSI, RDI} /\ resume.kind = "RPC") -> saved.registers[r]
    [] OTHER -> reg[r]

Resumes(resume) ==
  /\ reg' = [r \in Registers |-> ResumedRegister(resume, r)]
  /\ xmm' = [r \in Registers |-> IF r \in PreservedXmm THEN saved.xmm[r] ELSE xmm[r]]
  /\ ip' = resume.instruction_pointer
  /\ flags' = resume.flags
  /\ phase' = "called" /\ host' = "running"
  /\ UNCHANGED <<result, invocation, code, status, saved, left>>

HostResumes ==
  /\ host = "waiting"
  /\ \E answer \in Statuses : Resumes(SyscallResume(answer))
  /\ UNCHANGED <<mem, call>>

\* Mutant: the address of the request is aligned upwards.
RequestAddressAbove(size) == LET top == saved.stack_pointer - size IN top + (-top % 16)

(* prepare_server_thread, as the arm64 kernel compiles it: the request goes  *)
(* below the stack of the thread, whatever it executes; no return address is *)
(* pushed.                                                                   *)
RequestAddress(size) == LET top == saved.stack_pointer - size IN top - (top % 16)

Callable(endpoint, size) ==
  /\ host = "waiting" /\ ~call.pending
  /\ endpoint.callback \in Region \ {0} /\ endpoint.completion \in Region \ {0}
  /\ saved.stack_pointer > size

HostServes ==
  /\ \E endpoint \in Endpoints, request \in Requests :
       LET address == RequestAddress(Len(request)) IN
       /\ Callable(endpoint, Len(request))
       /\ Translatable(address, Len(request))
       /\ mem' = StoredBytes(address - 1, request)
       /\ Resumes(RpcResume(endpoint.callback, address, Len(request)))
  /\ call' = PendingCall

(* copy_between_user_processes gives up between two chunks: the call is      *)
(* refused, and the bytes that were copied stay.                             *)
HostRequestBreaksOff ==
  /\ \E endpoint \in Endpoints, request \in Requests :
       LET address == RequestAddress(Len(request)) IN
       \E n \in 1 .. Len(request) - 1 :
         /\ Callable(endpoint, Len(request))
         /\ Translatable(address, n)
         /\ mem' = StoredBytes(address - 1, SubSeq(request, 1, n))
  /\ UNCHANGED <<reg, xmm, flags, ip, result, phase, invocation, code, host, status, saved, call, left>>

HostNext ==
  HostSyscall \/ HostCompletes \/ HostExecutes \/ HostReturns
  \/ HostResumes \/ HostServes \/ HostRequestBreaksOff

(* Weak fairness on what the kernel's loop does by itself; whether a waiting *)
(* thread is scheduled again depends on the other threads.                   *)
HostSpec ==
  /\ HostInit /\ [][HostNext]_allVars
  /\ WF_allVars(HostSyscall \/ HostCompletes \/ HostExecutes \/ HostReturns)

-----------------------------------------------------------------------------
(* docs/system-interoperability.md, Fault Model: an invalid opcode or a bad  *)
(* address access of the guest is a user-process event.  With arguments that *)
(* run_x64_emulator accepts, the kernel panics over a guest only when the    *)
(* guest used up its whole instruction budget in one run, and a faulting     *)
(* guest is terminated with the status of its fault.                         *)
GuestFaultsEndTheThread ==
  /\ host = "panicked" /\ AcceptedCall => /\ result.completion = "INSTRUCTION_LIMIT_REACHED"
                                          /\ result.retired = invocation.budget
  /\ host = "terminated" =>
       status = IF result.completion = "INVALID_MEMORY_ACCESS" THEN "FAULT" ELSE "NOT_SUPPORTED"

(* A thread that waited in a syscall goes on behind it, with every register  *)
(* but rax, its flags and its stack as that flow left them, also when        *)
(* callbacks ran in between and made syscalls, waited and changed every      *)
(* register: then only the registers that the thread object does not keep    *)
(* are the callback's.                                                       *)
ResumesBehindTheSyscall ==
  [][host = "waiting" /\ host' = "running" /\ call'.pending = call.pending =>
       /\ ip' = left[Flow].ip /\ flags' = left[Flow].flags /\ xmm' = left[Flow].xmm
       /\ \A r \in Registers \ {RAX} : reg'[r] = left[Flow].reg[r]]_allVars

(* A request is delivered below the stack of the flow it interrupts: while a *)
(* thread waits the kernel changes nothing at or above its stack pointer,    *)
(* and a callback finds a whole request at rdi, of the size in rsi, on an    *)
(* aligned stack, with the other preserved registers of that flow.           *)
RequestsSpareTheStack ==
  [][host = "waiting" =>
       /\ \A a \in Region : a >= left[Flow].reg[RSP] => mem'[a] = mem[a]
       /\ call'.pending # call.pending =>
            \E request \in Requests :
              /\ reg'[RSI] = Len(request)
              /\ \A k \in 1 .. Len(request) : mem'[reg'[RDI] + k - 1] = request[k]
              /\ reg'[RSP] = reg'[RDI] /\ reg'[RSP] % 16 = 0
              /\ \A r \in PreservedRegisters \ {RSI, RDI} : reg'[r] = left[Flow].reg[r]]_allVars

(* user/sdk/include/ringos/rpc.h declares a callback as a function that      *)
(* returns the status: where its return leads must be the completion address *)
(* that was registered with it.                                              *)
CallbacksReturnToTheirCompletion ==
  [][call'.pending /\ ~call.pending =>
       \E endpoint \in Endpoints :
         ip' = endpoint.callback /\ Load(reg[RSP], QwordBytes)' = endpoint.completion]_allVars

(* The kernel gets the CPU back from every emulated guest: also a guest that *)
(* only loops exits, waits, is terminated, or exhausts its budget.           *)
KernelRegainsControl == [](host = "running" => <>(host # "running"))
=============================================================================
