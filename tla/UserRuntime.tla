----------------------------- MODULE UserRuntime -----------------------------
(***************************************************************************)
(* The ringos kernel's user runtime: syscall dispatch and scheduling       *)
(* (kernel/user_runtime.cpp), endpoints, channels and synchronous calls    *)
(* (kernel/rpc.cpp) and the syscall entry and exit paths of the two        *)
(* architectures.                                                          *)
(*                                                                         *)
(* The kernel runs on one CPU and is not preempted: a step is one trap,    *)
(* from the user instruction that enters the kernel to the instruction at  *)
(* which user code (of the same or of another thread) goes on.  What       *)
(* interleaves is the user code: which syscall the running thread makes    *)
(* next, with which name or channel, is a free choice of its program,      *)
(* limited by MayRegister and MayOpen.                                     *)
(***************************************************************************)
EXTENDS ThreadContext

CONSTANTS
    NumEndpoints,   \* USER_RUNTIME_MAX_RPC_ENDPOINTS
    NumChannels,    \* USER_RUNTIME_MAX_RPC_CHANNELS
    InitialThread,  \* bootstrap.initial_process_index
    MayRegister,    \* MayRegister[t]: names the program of thread t registers
    MayOpen,        \* MayOpen[t]: names the program of thread t opens
    Mistakes        \* argument errors the programs make; each only comes back to its caller

Endpoints == 0 .. NumEndpoints - 1
Channels == 0 .. NumChannels - 1

NoName == "none"

ASSUME UserRuntimeAssumption ==
    /\ NumEndpoints \in Nat
    /\ NumChannels \in Nat
    /\ InitialThread \in Threads
    /\ NoName \notin Names
    /\ MayRegister \in [Threads -> SUBSET Names]
    /\ MayOpen \in [Threads -> SUBSET Names]
    /\ Mistakes \subseteq KernelStatus

VARIABLES
    threads,    \* m_threads; thread t belongs to process t
    current,    \* m_current_thread
    endpoints,  \* m_rpc_runtime.m_endpoints
    channels,   \* m_rpc_runtime.m_channels
    user,       \* the registers of the user code that runs
    outcome     \* "running"; "parked": no runnable thread is left; "panic"

objects == <<endpoints, channels>>
vars == <<threads, current, endpoints, channels, user, outcome>>

Endpoint == [in_use : BOOLEAN, busy : BOOLEAN, name : Names \cup {NoName},
             owner : Threads \cup {NoThread}]

\* An occupied slot's channel
Channel == [client : Threads, endpoint : Endpoints,
            pending_client : Threads \cup {NoThread},
            pending_server : Threads \cup {NoThread},
            saved_state : ThreadState \cup {"EMPTY"}, saved_context : Context]
NoChannel == [client |-> NoThread]

Occupied(c) == channels[c] # NoChannel

-----------------------------------------------------------------------------
(* Pools: kernel_object_pool.inl and the endpoint table *)

\* The slot a linear search finds first (a singleton, empty when S is).
First(S) == {i \in S : \A j \in S : i <= j}

FreeChannels == {c \in Channels : ~Occupied(c)}

\* find_free_endpoint looks for the first of these.
FreeEndpoints == {e \in Endpoints : ~endpoints[e].in_use}

\* find_endpoint_by_name
Named(name) == {e \in Endpoints : endpoints[e].in_use /\ endpoints[e].name = name}

\* Mutant: the client is compared instead of the server.
PendingOnClient(t) == {c \in Channels : Occupied(c) /\ channels[c].pending_client = t}

\* find_pending_channel_by_server_thread looks for the first of these.
PendingOn(t) == {c \in Channels : Occupied(c) /\ channels[c].pending_server = t}

\* rpc_endpoint::clear
ClearedEndpoint == [in_use |-> FALSE, busy |-> FALSE, name |-> NoName, owner |-> NoThread]

\* Mutant: the flag is never taken back.
SetBusySticky(ee, e, busy) == [ee EXCEPT ![e] = [ee[e] EXCEPT !.busy = busy \/ ee[e].busy]]

\* rpc_endpoint::set_busy
SetBusy(ee, e, busy) == [ee EXCEPT ![e] = [ee[e] EXCEPT !.busy = busy]]

\* Mutant: only the first endpoint is cleared.
ClearFirstEndpointOwnedBy(ee, t) ==
    [e \in Endpoints |-> IF e \in First({d \in Endpoints : ee[d].owner = t})
                         THEN ClearedEndpoint ELSE ee[e]]

\* clear_endpoints_owned_by
ClearEndpointsOwnedBy(ee, t) ==
    [e \in Endpoints |-> IF ee[e].owner = t THEN ClearedEndpoint ELSE ee[e]]

\* The constructor of rpc_channel
NewChannel(t, e) ==
    [client |-> t, endpoint |-> e,
     pending_client |-> NoThread, pending_server |-> NoThread,
     saved_state |-> "EMPTY", saved_context |-> NewThread.context]

\* Mutant: the state of the client is saved.
BeganCallSavingClient(ch, client, server, tt) ==
    [ch EXCEPT !.pending_client = client, !.pending_server = server,
               !.saved_state = tt[client].state, !.saved_context = tt[server].context]

\* rpc_channel::begin_call, but for the endpoint's busy flag
BeganCall(ch, client, server, tt) ==
    [ch EXCEPT !.pending_client = client, !.pending_server = server,
               !.saved_state = tt[server].state, !.saved_context = tt[server].context]

\* Mutant: the pending client is left behind.
CancelledCallKeepingClient(ch) == [ch EXCEPT !.pending_server = NoThread, !.saved_state = "EMPTY"]

\* rpc_channel::cancel_call, but for the endpoint's busy flag
CancelledCall(ch) == NewChannel(ch.client, ch.endpoint)

\* rpc_channel::is_busy
ChannelBusy(ch) == ch.pending_client # NoThread \/ ch.pending_server # NoThread

-----------------------------------------------------------------------------
(* Entering and leaving the kernel *)

\* The user code of thread t executes.
Executes(t) == outcome = "running" /\ current = t

\* dispatch_syscall begins by recording the trapped context.
Trapped(t, argument0) ==
    SetUserContext(threads, t, [at |-> user.at, argument0 |-> argument0])

\* Every syscall path ends by giving the status to the caller if it is still the
\* current thread; one that was switched away from has been given its own.
Returned(active, tt, cur, status) ==
    IF cur = active THEN PrepareSyscallResume(tt, active, status) ELSE tt

\* The emulator goes on with the instruction behind the syscall; the native paths,
\* and the emulator when it enters another guest, load the frame afresh.
ResumedFrame(active, tt, cur, status) ==
    IF cur = active /\ Backend[active] = "x64_emulator"
    THEN [at |-> user.at, kind |-> "SYSCALL", ret |-> status]
    ELSE LoadFrame(tt, cur)

\* The end of x64_handle_syscall, arm64_handle_syscall, dispatch_x64_syscall and
\* the enter_user_thread loop: active made a syscall that returned status, left
\* the thread table tt and made cur the current thread.
LeaveKernel(active, tt, cur, status) ==
    /\ current' = cur
    /\ \/ /\ Runnable(tt, cur)
          /\ threads' = Returned(active, tt, cur, status)
          /\ outcome' = "running"
          /\ user' = ResumedFrame(active, threads', cur, status)
       \/ /\ ~Runnable(tt, cur)
          /\ threads' = tt
          /\ outcome' = "parked"
          /\ UNCHANGED user

\* A handler that changes nothing returns status to its caller.
Answer(t, argument0, status) ==
    /\ LeaveKernel(t, Trapped(t, argument0), t, status)
    /\ UNCHANGED objects

\* copy_user_string refuses an unmapped string and an overlong one.
StringErrors == {"FAULT", "BUFFER_TOO_SMALL"}

-----------------------------------------------------------------------------
(* Syscalls without effect on shared state *)

\* SYSCALL_DEBUG_LOG
DebugLog(t) ==
    /\ Executes(t)
    /\ \E status \in {"OK"} \cup (({"INVALID_ARGUMENT"} \cup StringErrors) \cap Mistakes) :
          Answer(t, Address, status)

\* SYSCALL_DEVICE_MEMORY_MAP finds no object yet; any other number is not known.
OtherSyscall(t) ==
    /\ Executes(t)
    /\ \E status \in {"INVALID_ARGUMENT", "NOT_FOUND", "NOT_SUPPORTED"} \cap Mistakes :
          Answer(t, Address, status)

-----------------------------------------------------------------------------
(* Thread exit *)

\* Mutant: the client gets its status and stays blocked.
WokenClientStillBlocked(tt, client, status) == PrepareSyscallResume(tt, client, status)

\* complete_call and fail_pending_call make the client ready with its status.
WokenClient(tt, client, status) ==
    PrepareSyscallResume(SetState(tt, client, "READY"), client, status)

\* terminate_current_thread, behind handle_thread_exit: schedule_next_ready_thread
\* leaves no current thread when none is ready.
ExitAndSchedule(t, tt) ==
    LET exited == SetState(tt, t, "EXITED")
    IN  \/ /\ Ready(exited) = {}
           /\ LeaveKernel(t, exited, NoThread, "OK")
        \/ \E next \in NextReady(exited, t) :
               LeaveKernel(t, SetCurrentThread(exited, t, next), next, "OK")

\* terminate_current_thread: fail_pending_call fails the first call the thread is
\* serving, then every endpoint it owns is cleared.
Terminate(t, tt, failure) ==
    \/ /\ PendingOn(t) = {}
       /\ endpoints' = ClearEndpointsOwnedBy(endpoints, t)
       /\ UNCHANGED channels
       /\ ExitAndSchedule(t, tt)
    \/ \E c \in First(PendingOn(t)) :
        LET ch == channels[c] IN
        /\ channels' = [channels EXCEPT ![c] = CancelledCall(ch)]
        /\ endpoints' = ClearEndpointsOwnedBy(SetBusy(endpoints, ch.endpoint, FALSE), t)
        /\ ExitAndSchedule(t, IF ch.pending_client = t THEN tt
                              ELSE WokenClient(tt, ch.pending_client, failure))

\* SYSCALL_THREAD_EXIT
ThreadExit(t) ==
    /\ Executes(t)
    /\ Terminate(t, Trapped(t, Address), "PEER_CLOSED")

\* run_x64_emulator_thread ends a guest that faults.
EmulatorGuestFault(t) ==
    /\ Executes(t)
    /\ Backend[t] = "x64_emulator"
    /\ \E failure \in {"FAULT", "NOT_SUPPORTED"} : Terminate(t, threads, failure)

\* A guest that spends its instruction budget, and a native arm64 exception that
\* is not a syscall, stop the kernel.
KernelPanic(t) ==
    /\ Executes(t)
    /\ Backend[t] \in {"x64_emulator", "arm64_native"}
    /\ outcome' = "panic"
    /\ UNCHANGED <<threads, current, endpoints, channels, user>>

-----------------------------------------------------------------------------
(* RPC syscalls *)

\* SYSCALL_RPC_REGISTER.  A server that is not inside a callback gives way to the
\* next ready thread.
RpcRegister(t) ==
    /\ Executes(t)
    /\ \/ \E status \in ({"INVALID_ARGUMENT"} \cup StringErrors) \cap Mistakes :
             Answer(t, Address, status)
       \/ \E name \in MayRegister[t] :
          \/ /\ Named(name) # {}
             /\ Answer(t, Address, "BAD_STATE")
          \/ /\ Named(name) = {}
             /\ FreeEndpoints = {}
             /\ Answer(t, Address, "NO_MEMORY")
          \/ \E e \in First(FreeEndpoints) :
             LET tt == Trapped(t, Address) IN
             /\ Named(name) = {}
             /\ endpoints' = [endpoints EXCEPT ![e] =
                    [in_use |-> TRUE, busy |-> FALSE, name |-> name, owner |-> t]]
             /\ UNCHANGED channels
             /\ \/ /\ Ready(tt) = {} \/ PendingOn(t) # {}
                   /\ LeaveKernel(t, tt, t, "OK")
                \/ \E next \in NextReady(tt, t) :
                   /\ PendingOn(t) = {}
                   /\ LeaveKernel(t, SetCurrentThread(PrepareSyscallResume(tt, t, "OK"), t, next),
                                  next, "OK")

\* OPEN and CALL ask whether the endpoint's owner is still there.
PeerAlive(e) ==
    /\ endpoints[e].owner # NoThread
    /\ threads[endpoints[e].owner].state # "EXITED"

\* SYSCALL_RPC_OPEN.  A handle that cannot be written to the caller's memory takes
\* the new channel back.
RpcOpen(t) ==
    /\ Executes(t)
    /\ \/ \E status \in ({"INVALID_ARGUMENT"} \cup StringErrors) \cap Mistakes :
             Answer(t, Address, status)
       \/ \E name \in MayOpen[t] :
          \/ /\ Named(name) = {}
             /\ Answer(t, Address, "NOT_FOUND")
          \/ \E e \in First(Named(name)) :
             \/ /\ ~PeerAlive(e) \/ FreeChannels = {}
                /\ Answer(t, Address, IF PeerAlive(e) THEN "NO_MEMORY" ELSE "PEER_CLOSED")
             \/ \E c \in First(FreeChannels) :
                /\ PeerAlive(e)
                /\ \/ /\ channels' = [channels EXCEPT ![c] = NewChannel(t, e)]
                      /\ LeaveKernel(t, Trapped(t, Address), t, "OK")
                      /\ UNCHANGED endpoints
                   \/ Answer(t, Address, "FAULT")

\* The channels whose handles thread t may use.  A handle of another process, of
\* a closed channel or of none is BAD_HANDLE, one of another object WRONG_TYPE.
Owned(t) == {c \in Channels : Occupied(c) /\ channels[c].client = t}
HandleErrors == {"INVALID_ARGUMENT", "BAD_HANDLE", "WRONG_TYPE"}

\* prepare_server_thread refuses a request it cannot copy and a server without a
\* stack; neither changes a thread.
PrepareErrors == {"FAULT", "BAD_STATE"}

\* SYSCALL_RPC_CALL
RpcCall(t) ==
    /\ Executes(t)
    /\ \/ \E status \in HandleErrors \cap Mistakes : Answer(t, Address, status)
       \/ \E c \in Owned(t) :
          LET ch == channels[c]
              endpoint == endpoints[ch.endpoint]
              server == endpoint.owner
              blocked == ~endpoint.in_use \/ endpoint.busy \/ ChannelBusy(ch)
          IN
          \/ /\ ~PeerAlive(ch.endpoint)
             /\ Answer(t, Address, "PEER_CLOSED")
          \/ /\ PeerAlive(ch.endpoint) /\ blocked
             /\ Answer(t, Address, "WOULD_BLOCK")
          \/ /\ PeerAlive(ch.endpoint) /\ ~blocked
             /\ \E status \in PrepareErrors \cap Mistakes : Answer(t, Address, status)
          \/ /\ PeerAlive(ch.endpoint) /\ ~blocked
             /\ LET prepared == PrepareRpcResume(Trapped(t, Address), server, endpoint.name)
                IN  /\ channels' = [channels EXCEPT ![c] = BeganCall(ch, t, server, prepared)]
                    /\ endpoints' = SetBusy(endpoints, ch.endpoint, TRUE)
                    /\ IF server = t
                       THEN LeaveKernel(t, prepared, t, "OK")
                       ELSE LeaveKernel(t, SetCurrentThread(SetState(prepared, t, "BLOCKED"),
                                                            t, server),
                                        server, "OK")

\* SYSCALL_RPC_CLOSE
RpcClose(t) ==
    /\ Executes(t)
    /\ \/ \E status \in HandleErrors \cap Mistakes : Answer(t, Address, status)
       \/ \E c \in Owned(t) :
          \/ /\ ChannelBusy(channels[c])
             /\ Answer(t, Address, "BAD_STATE")
          \/ /\ ~ChannelBusy(channels[c])
             /\ channels' = [channels EXCEPT ![c] = NoChannel]
             /\ LeaveKernel(t, Trapped(t, Address), t, "OK")
             /\ UNCHANGED endpoints

\* SYSCALL_RPC_COMPLETE: complete_call and rpc_channel::finish_call.
RpcComplete(t) ==
    /\ Executes(t)
    /\ \E status \in Replies :
       \/ /\ PendingOn(t) = {}
          /\ Answer(t, status, "BAD_STATE")
       \/ \E c \in First(PendingOn(t)) :
          LET ch == channels[c]
              restored == SetState(SetUserContext(Trapped(t, status), t, ch.saved_context),
                                   t, ch.saved_state)
          IN
          /\ channels' = [channels EXCEPT ![c] = CancelledCall(ch)]
          /\ endpoints' = SetBusy(endpoints, ch.endpoint, FALSE)
          /\ IF ch.pending_client = t
             THEN LeaveKernel(t, restored, t, status)
             ELSE LeaveKernel(t, SetCurrentThread(WokenClient(restored, ch.pending_client, status),
                                                  t, ch.pending_client),
                              ch.pending_client, "OK")

-----------------------------------------------------------------------------

\* run_initial_user_runtime
Init ==
    /\ threads = SetCurrentThread([t \in Threads |-> NewThread], NoThread, InitialThread)
    /\ current = InitialThread
    /\ endpoints = [e \in Endpoints |-> ClearedEndpoint]
    /\ channels = [c \in Channels |-> NoChannel]
    /\ user = LoadFrame(threads, InitialThread)
    /\ outcome = "running"

\* The CPU that has no runnable thread, or has panicked, spins for ever.
Spin == outcome # "running" /\ UNCHANGED vars

Next ==
    \/ \E t \in Threads :
        \/ DebugLog(t) \/ OtherSyscall(t)
        \/ ThreadExit(t) \/ EmulatorGuestFault(t) \/ KernelPanic(t)
        \/ RpcRegister(t) \/ RpcOpen(t) \/ RpcCall(t) \/ RpcClose(t) \/ RpcComplete(t)
    \/ Spin

Spec == Init /\ [][Next]_vars
-----------------------------------------------------------------------------
(* What the runtime keeps true whatever the programs do *)

Pending(c) == Occupied(c) /\ channels[c].pending_server # NoThread

\* A call of one thread to another: c's client waits for c's server.
Crossing(c) == Pending(c) /\ channels[c].pending_server # channels[c].pending_client

\* Thread t waits for the answer of thread s.
WaitsFor(t, s) ==
    \E c \in Channels : /\ Crossing(c)
                        /\ channels[c].pending_client = t
                        /\ channels[c].pending_server = s

\* A pending call whose server has not exited.
Served(c) == Pending(c) /\ threads[channels[c].pending_server].state # "EXITED"

\* Every variable has the type its declaration in kernel/ gives it, and a pending
\* call is recorded with its client and its server or with neither
\* (rpc_channel::begin_call, cancel_call).
TypeOK ==
    /\ threads \in [Threads -> Thread]
    /\ current \in Threads \cup {NoThread}
    /\ endpoints \in [Endpoints -> Endpoint]
    /\ channels \in [Channels -> Channel \cup {NoChannel}]
    /\ user \in UserFrame
    /\ outcome \in {"running", "parked", "panic"}
    /\ \A c \in Channels : Occupied(c) =>
          /\ channels[c].pending_client \in {NoThread, channels[c].client}
          /\ channels[c].pending_client = NoThread <=> channels[c].pending_server = NoThread

\* The thread states agree with m_current_thread: while user code runs it is the
\* code of the current thread, which is RUNNING, and no other thread is, however
\* calls, answers, yields and exits hand the CPU around (set_current_thread and
\* the saved state that finish_call puts back).
OneThreadRuns ==
    /\ \A t \in Threads : threads[t].state = "RUNNING" => t = current
    /\ outcome = "running" => current \in Threads /\ threads[current].state = "RUNNING"

\* A thread is BLOCKED exactly while one call of its own to another thread is
\* pending, and it never has two (RPC_CALL, complete_call, fail_pending_call).
BlockedExactlyWhileCalling ==
    /\ \A t \in Threads :
          threads[t].state = "BLOCKED" <=> \E s \in Threads : WaitsFor(t, s)
    /\ \A c, d \in Channels :
          Crossing(c) /\ Crossing(d) /\ channels[c].pending_client = channels[d].pending_client
             => c = d

\* An endpoint is busy exactly while its owner serves one call that came in through
\* it: the flag that turns callers away with WOULD_BLOCK is neither lost nor leaked
\* over completion, exit and reuse of the slot (begin_call, cancel_call, clear).
BusyExactlyWhileServing ==
    /\ \A e \in Endpoints : endpoints[e].busy =>
          \E c \in Channels : Served(c) /\ channels[c].endpoint = e
    /\ \A c \in Channels : Served(c) =>
          /\ endpoints[channels[c].endpoint].busy
          /\ endpoints[channels[c].endpoint].owner = channels[c].pending_server
    /\ \A c, d \in Channels :
          Served(c) /\ Served(d) /\ channels[c].endpoint = channels[d].endpoint => c = d

\* The name table: a name leads to at most one endpoint, a registered endpoint's
\* owner has not exited, and a slot that is not in use keeps nothing of its last
\* owner (RPC_REGISTER, clear_endpoints_owned_by).
NamesLeadToLiveOwners ==
    /\ \A e \in Endpoints :
          IF endpoints[e].in_use
          THEN /\ endpoints[e].owner \in Threads
               /\ endpoints[e].name \in Names
               /\ threads[endpoints[e].owner].state # "EXITED"
          ELSE endpoints[e] = ClearedEndpoint
    /\ \A d, e \in Endpoints :
          endpoints[d].in_use /\ endpoints[e].in_use /\ endpoints[d].name = endpoints[e].name
             => d = e

\* The state that finish_call gives back to a server: READY to one that was called
\* while it was off the CPU, RUNNING to one that called itself.  (A server that was
\* BLOCKED parks the kernel at once, so no such call is ever completed.)
SavedStateRestorable ==
    \A c \in Channels :
       Served(c) /\ outcome = "running" =>
          channels[c].saved_state = IF Crossing(c) THEN "READY" ELSE "RUNNING"

\* Whoever wakes a blocked client is the server it waits for, which runs, and the
\* same step ends the call (complete_call and fail_pending_call; no other path).
OnlyItsServerWakesAClient ==
    [][\A t \in Threads :
        threads[t].state = "BLOCKED" /\ threads'[t].state # "BLOCKED" =>
           /\ WaitsFor(t, current)
           /\ \A c \in Channels : Crossing(c) /\ channels[c].pending_client = t =>
                 channels'[c].pending_client = NoThread]_vars
=============================================================================
