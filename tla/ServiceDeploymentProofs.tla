---------------------- MODULE ServiceDeploymentProofs ----------------------
(***************************************************************************)
(* Machine-checked proofs about deployments in which a program either      *)
(* serves or calls: for any number of services, applications, names and    *)
(* slots, callbacks match calls, the kernel parks only when every thread   *)
(* has exited, and the runtime implements the request-reply contract.      *)
(***************************************************************************)
EXTENDS ServiceDeployment, UserRuntimeProofs

-----------------------------------------------------------------------------
(* The inductive invariant *)

\* Only programs that register serve, and only programs that open call.
RolesKept ==
    /\ \A e \in Endpoints : endpoints[e].in_use => MayRegister[endpoints[e].owner] # {}
    /\ \A c \in Channels : Occupied(c) => MayOpen[channels[c].client] # {}

\* A thread in whose thread object every way back leads to its main flow.
RestsInMain(th) == th.context.at = Main /\ th.resume.at = Main

\* While user code runs, every other thread rests in its main flow, and so does
\* what the pending call has saved of its server.
OthersRestInMain ==
    outcome = "running" =>
       /\ \A u \in Threads : u # current /\ threads[u].state # "EXITED" => RestsInMain(threads[u])
       /\ \A c \in Channels : Pending(c) => channels[c].saved_context.at = Main

\* The inductive invariant of a deployment with separate roles.
DInv ==
    /\ IInv
    /\ RolesKept
    /\ ServerOfBlockedClientRuns
    /\ CallbackExactlyWhileServing
    /\ OthersRestInMain
    /\ ParksOnlyWhenAllExited

-----------------------------------------------------------------------------
(* Where threads go on *)

\* What an operator leaves alone: every thread but t keeps its record.
OnlyTouches(t, tt, uu) == \A u \in Threads : u # t => uu[u] = tt[u]

\* set_user_context: t goes on where the context is.
LEMMA SetUserContextFlow ==
    ASSUME NEW tt \in ThreadTable, NEW t \in Threads, NEW context \in Context
    PROVE  LET uu == SetUserContext(tt, t, context) IN
           /\ OnlyTouches(t, tt, uu)
           /\ uu[t].context = context /\ uu[t].resume.at = context.at
  BY DEF SetUserContext, SyncedResume, OnlyTouches, ThreadTable, Thread

\* prepare_syscall_resume: t goes on where its context is.
LEMMA PrepareSyscallResumeFlow ==
    ASSUME NEW tt \in ThreadTable, NEW t \in Threads, NEW status \in Status
    PROVE  LET uu == PrepareSyscallResume(tt, t, status) IN
           /\ OnlyTouches(t, tt, uu)
           /\ uu[t].context = tt[t].context /\ uu[t].resume.at = tt[t].context.at
  <1> DEFINE th == [tt[t] EXCEPT !.pending_status = status]
             synced == SyncedResume(th)
             resume == IF Backend[t] = "x64_native" THEN synced
                       ELSE [synced EXCEPT !.argument0 = status]
             new == [th EXCEPT !.resume = resume]
  <1>1. PrepareSyscallResume(tt, t, status) = [tt EXCEPT ![t] = new]
    BY DEF PrepareSyscallResume
  <1>2. th \in Thread /\ th.context = tt[t].context
    BY DEF ThreadTable, Thread
  <1>3. synced.at = th.context.at /\ synced = [synced EXCEPT !.kind = "SYSCALL"]
    BY DEF SyncedResume
  <1>4. resume.at = th.context.at
    BY <1>3 DEF SyncedResume
  <1> HIDE DEF th, resume
  <1>5. new.context = th.context /\ new.resume = resume
    BY <1>2 DEF Thread
  <1> HIDE DEF new
  <1>6. QED
    BY <1>1, <1>2, <1>4, <1>5 DEF OnlyTouches, ThreadTable

\* prepare_rpc_resume: t goes on in the callback, its context stays.
LEMMA PrepareRpcResumeFlow ==
    ASSUME NEW tt \in ThreadTable, NEW t \in Threads, NEW callback \in Names
    PROVE  LET uu == PrepareRpcResume(tt, t, callback) IN
           /\ OnlyTouches(t, tt, uu)
           /\ uu[t].context = tt[t].context /\ uu[t].resume.at = callback
  BY DEF PrepareRpcResume, OnlyTouches, ThreadTable, Thread

\* A change of states only.
SameFlow(tt, uu) ==
    \A u \in Threads : uu[u].context = tt[u].context /\ uu[u].resume = tt[u].resume

\* set_state changes nothing else.
LEMMA SetStateFlow ==
    ASSUME NEW tt \in ThreadTable, NEW t \in Threads, NEW state \in ThreadState
    PROVE  SameFlow(tt, SetState(tt, t, state))
  BY DEF SetState, SameFlow, ThreadTable, Thread

\* set_current_thread changes nothing but states.
LEMMA SetCurrentThreadFlow ==
    ASSUME NEW tt \in ThreadTable, NEW old \in Threads, NEW new \in Threads
    PROVE  SameFlow(tt, SetCurrentThread(tt, old, new))
  <1> DEFINE displaced == IF old # NoThread /\ old # new /\ tt[old].state = "RUNNING"
                          THEN SetState(tt, old, "READY")
                          ELSE tt
  <1>1. "READY" \in ThreadState /\ "RUNNING" \in ThreadState
    BY DEF ThreadState
  <1>2. displaced \in ThreadTable /\ SameFlow(tt, displaced)
    <2>1. CASE displaced = tt
      BY <2>1 DEF SameFlow
    <2>2. CASE displaced = SetState(tt, old, "READY")
      <3>1. SetState(tt, old, "READY") \in ThreadTable /\ SameFlow(tt, SetState(tt, old, "READY"))
        BY <1>1, SetStateEffect, SetStateFlow
      <3> HIDE DEF displaced
      <3>2. QED
        BY <2>2, <3>1
    <2>3. QED
      BY <2>1, <2>2
  <1>3. SetCurrentThread(tt, old, new) =
           IF displaced[new].state = "READY" THEN SetState(displaced, new, "RUNNING") ELSE displaced
    BY DEF SetCurrentThread
  <1> HIDE DEF displaced
  <1>4. SameFlow(displaced, SetState(displaced, new, "RUNNING"))
    BY <1>1, <1>2, SetStateFlow
  <1>5. QED
    BY <1>2, <1>3, <1>4 DEF SameFlow

\* The frame of every backend begins where the resume state says.
LEMMA LoadFrameFlow ==
    ASSUME NEW tt \in ThreadTable, NEW t \in Threads
    PROVE  LoadFrame(tt, t).at = tt[t].resume.at
  <1>1. Backend[t] \in {"x64_native", "arm64_native", "x64_emulator"}
    BY ThreadContextAssumption DEF Backends
  <1>2. QED
    BY <1>1 DEF LoadFrame, LoadX64Frame, LoadArm64Frame, LoadEmulatorState

\* Leaving the kernel: the thread that made the syscall goes on where it was, a
\* thread that is switched to goes on where its resume state says.
LEMMA LeaveKernelFlow ==
    ASSUME NEW tt \in ThreadTable, NEW active \in Threads, NEW cur \in Threads,
           NEW status \in Status, LeaveKernel(active, tt, cur, status), outcome' = "running"
    PROVE  /\ \A u \in Threads : threads'[u].context = tt[u].context
           /\ \A u \in Threads : u # active \/ cur # active => threads'[u].resume = tt[u].resume
           /\ cur = active =>
                 /\ threads'[cur].resume.at = tt[cur].context.at
                 /\ user'.at \in {user.at, tt[cur].context.at}
           /\ cur # active => user'.at = tt[cur].resume.at
  <1>1. /\ threads' = Returned(active, tt, cur, status)
        /\ user' = ResumedFrame(active, threads', cur, status)
    BY DEF LeaveKernel
  <1>2. CASE cur = active
    <2>1. threads' = PrepareSyscallResume(tt, active, status)
      BY <1>1, <1>2 DEF Returned
    <2>2. /\ OnlyTouches(active, tt, threads') /\ threads' \in ThreadTable
          /\ threads'[active].context = tt[active].context
          /\ threads'[active].resume.at = tt[active].context.at
      BY <2>1, PrepareSyscallResumeFlow, PrepareSyscallResumeEffect
    <2>3. user'.at = user.at \/ user' = LoadFrame(threads', cur)
      BY <1>1 DEF ResumedFrame
    <2>4. user'.at \in {user.at, tt[cur].context.at}
      BY <1>2, <2>2, <2>3, LoadFrameFlow
    <2>5. QED
      BY <1>2, <2>2, <2>4 DEF OnlyTouches
  <1>3. CASE cur # active
    <2>1. threads' = tt /\ user' = LoadFrame(threads', cur)
      BY <1>1, <1>3 DEF Returned, ResumedFrame
    <2>2. QED
      BY <1>3, <2>1, LoadFrameFlow
  <1>4. QED
    BY <1>2, <1>3

-----------------------------------------------------------------------------
(* What the invariant says while thread t runs *)

\* A step of the contract, or one it does not see.
ContractStep == Contract!RRNext \/ UNCHANGED Contract!contract

\* The program that runs, the calls there are, and the threads that rest.
LEMMA WhileRunning ==
    ASSUME DInv, NEW t \in Threads, Executes(t)
    PROVE  /\ IInv /\ current = t /\ outcome = "running" /\ threads[t].state = "RUNNING"
           /\ \A u \in Threads : u # t => threads[u].state # "RUNNING"
           /\ \A u \in Threads : u # t /\ threads[u].state # "EXITED" => RestsInMain(threads[u])
           /\ user.at # Main <=> PendingOn(t) # {}
           /\ \A c \in Channels : Pending(c) =>
                /\ c \in PendingOn(t)
                /\ channels[c].pending_server = t
                /\ channels[c].pending_client \in Threads \ {t}
                /\ channels[c].saved_context.at = Main
                /\ user.at = endpoints[channels[c].endpoint].name
                /\ \A d \in Channels : Pending(d) => c = d
  <1>1. IInv /\ current = t /\ outcome = "running" /\ threads[t].state = "RUNNING"
    BY DEF DInv, IInv, OneThreadRuns, Executes
  <1>2. \A u \in Threads : u # t => threads[u].state # "RUNNING"
    BY <1>1 DEF IInv, OneThreadRuns
  <1>3. \A u \in Threads : u # t /\ threads[u].state # "EXITED" => RestsInMain(threads[u])
    BY <1>1 DEF DInv, OthersRestInMain
  <1>4. user.at # Main <=> PendingOn(t) # {}
    BY <1>1 DEF DInv, CallbackExactlyWhileServing
  <1>5. ASSUME NEW c \in Channels, Pending(c)
        PROVE  /\ c \in PendingOn(t)
               /\ channels[c].pending_server = t
               /\ channels[c].pending_client \in Threads \ {t}
               /\ channels[c].saved_context.at = Main
               /\ user.at = endpoints[channels[c].endpoint].name
               /\ \A d \in Channels : Pending(d) => c = d
    <2>1. /\ Crossing(c) /\ channels[c].pending_server = t
          /\ user.at = endpoints[channels[c].endpoint].name
          /\ \A d \in Channels : Pending(d) => c = d
      BY <1>1, <1>5 DEF DInv, ServerOfBlockedClientRuns
    <2>2. c \in PendingOn(t)
      BY <1>5, <2>1 DEF PendingOn, Pending
    <2>3. channels[c].pending_client \in Threads
      BY <1>1, <2>2, PendingOnRunning
    <2>4. channels[c].saved_context.at = Main
      BY <1>1, <1>5 DEF DInv, OthersRestInMain
    <2>5. QED
      BY <2>1, <2>2, <2>3, <2>4 DEF Crossing
  <1>6. QED
    BY <1>1, <1>2, <1>3, <1>4, <1>5

\* The program that serves a call registers, and so it opens nothing.
LEMMA ServersOpenNothing ==
    ASSUME DInv, NEW t \in Threads, Executes(t), PendingOn(t) # {}
    PROVE  MayOpen[t] = {}
  <1>1. PICK c \in PendingOn(t) : TRUE
    OBVIOUS
  <1>2. IInv
    BY DEF DInv
  <1>3. channels[c].endpoint \in Endpoints /\ Served(c) /\ endpoints[channels[c].endpoint].owner = t /\ c \in Channels
    BY <1>1, <1>2, PendingOnRunning
  <1>4. endpoints[channels[c].endpoint].busy
    BY <1>2, <1>3 DEF IInv, BusyExactlyWhileServing
  <1>5. endpoints[channels[c].endpoint].in_use
    BY <1>2, <1>3, <1>4 DEF IInv, NamesLeadToLiveOwners, ClearedEndpoint
  <1>6. MayRegister[t] # {}
    BY <1>3, <1>5 DEF DInv, RolesKept
  <1>7. QED
    BY <1>6, RolesAreSeparate

\* The owner of an endpoint is never blocked: it has no channel to call through.
LEMMA OwnersDoNotWait ==
    ASSUME DInv, NEW e \in Endpoints, endpoints[e].in_use
    PROVE  threads[endpoints[e].owner].state # "BLOCKED" /\ MayOpen[endpoints[e].owner] = {}
  <1> DEFINE server == endpoints[e].owner
  <1>1. IInv /\ server \in Threads
    BY DEF DInv, IInv, NamesLeadToLiveOwners
  <1>2. MayRegister[server] # {} /\ MayOpen[server] = {}
    BY <1>1, RolesAreSeparate DEF DInv, RolesKept
  <1>3. SUFFICES ASSUME threads[server].state = "BLOCKED" PROVE FALSE
    BY <1>2
  <1>4. PICK s \in Threads : WaitsFor(server, s)
    BY <1>1, <1>3 DEF IInv, BlockedExactlyWhileCalling
  <1>5. PICK c \in Channels : Crossing(c) /\ channels[c].pending_client = server
    BY <1>4 DEF WaitsFor
  <1>6. channels[c].client = server /\ Occupied(c)
    BY <1>1, <1>5, NoThreadIsNoThread DEF IInv, TypeOK, Crossing, Pending
  <1>7. QED
    BY <1>2, <1>5, <1>6 DEF DInv, RolesKept

-----------------------------------------------------------------------------
(* Syscalls that return to their caller *)

\* The thread goes on where it was, the others are left alone.
StaysIn(t) ==
    /\ current' = t /\ outcome' = "running" /\ user'.at = user.at
    /\ \A u \in Threads : threads'[u].state = threads[u].state
    /\ \A u \in Threads : u # t => /\ threads'[u].context = threads[u].context
                                   /\ threads'[u].resume = threads[u].resume

\* Every syscall that only returns to its caller is such a step.
LEMMA ReturningStays ==
    ASSUME DInv, NEW t \in Threads, Executes(t), NEW argument0 \in Register, NEW status \in Status,
           LeaveKernel(t, Trapped(t, argument0), t, status)
    PROVE  StaysIn(t)
  <1> DEFINE tt == Trapped(t, argument0)
             context == [at |-> user.at, argument0 |-> argument0]
  <1>1. /\ TypeOK /\ current = t /\ threads[t].state = "RUNNING" /\ user \in UserFrame
        /\ threads \in ThreadTable
    BY WhileRunning DEF IInv, TypeOK, ThreadTable
  <1>2. tt \in ThreadTable /\ SameStates(threads, tt)
    BY <1>1, TrappedEffect
  <1>3. context \in Context /\ context.at = user.at
    BY <1>1 DEF UserFrame, Context
  <1>4. tt = SetUserContext(threads, t, context)
    BY DEF Trapped
  <1> HIDE DEF context
  <1>5. OnlyTouches(t, threads, tt) /\ tt[t].context.at = user.at
    <2> HIDE DEF tt
    <2>1. QED
      BY <1>1, <1>3, <1>4, SetUserContextFlow
  <1>6. LeaveKernel(t, tt, t, status) /\ t \in Threads \cup {NoThread}
    OBVIOUS
  <1> HIDE DEF tt
  <1>7. /\ SameStates(tt, threads') /\ current' = t
        /\ outcome' = "running" <=> Runnable(tt, t)
    BY <1>1, <1>2, <1>6, LeaveKernelEffect
  <1>8. \A u \in Threads : threads'[u].state = threads[u].state
    BY <1>2, <1>7 DEF SameStates
  <1>9. outcome' = "running"
    BY <1>1, <1>2, <1>7, NoThreadIsNoThread DEF Runnable, SameStates
  <1>10. /\ \A u \in Threads : threads'[u].context = tt[u].context
         /\ \A u \in Threads : u # t => threads'[u].resume = tt[u].resume
         /\ user'.at \in {user.at, tt[t].context.at}
    BY <1>2, <1>6, <1>9, LeaveKernelFlow
  <1>11. QED
    BY <1>5, <1>7, <1>8, <1>9, <1>10 DEF StaysIn, OnlyTouches

\* Calls and callback names are left alone.
CallsKeptAsTheyAre ==
    /\ \A c \in Channels : Pending(c)' <=> Pending(c)
    /\ \A c \in Channels : Pending(c) => channels'[c] = channels[c]
    /\ \A e \in Endpoints : endpoints[e].busy => endpoints'[e].name = endpoints[e].name

\* Such a step keeps the invariant, and the contract does not see it.
LEMMA QuietStep ==
    ASSUME DInv, IInv', RolesKept', NEW t \in Threads, Executes(t), StaysIn(t), CallsKeptAsTheyAre
    PROVE  DInv' /\ UNCHANGED Contract!contract
  <1>1. /\ IInv /\ current = t /\ outcome = "running"
        /\ \A u \in Threads : u # t /\ threads[u].state # "EXITED" => RestsInMain(threads[u])
        /\ user.at # Main <=> PendingOn(t) # {}
        /\ \A c \in Channels : Pending(c) =>
             /\ c \in PendingOn(t)
             /\ channels[c].pending_server = t
             /\ channels[c].pending_client \in Threads \ {t}
             /\ channels[c].saved_context.at = Main
             /\ user.at = endpoints[channels[c].endpoint].name
             /\ \A d \in Channels : Pending(d) => c = d
    BY WhileRunning
  <1>2. /\ current' = t /\ outcome' = "running" /\ user'.at = user.at
        /\ \A u \in Threads : threads'[u].state = threads[u].state
    BY DEF StaysIn
  <1>3. ASSUME NEW c \in Channels, Pending(c)
        PROVE  endpoints'[channels[c].endpoint].name = endpoints[channels[c].endpoint].name
    <2>1. c \in PendingOn(t)
      BY <1>1, <1>3
    <2>2. Served(c) /\ channels[c].endpoint \in Endpoints
      BY <1>1, <2>1, PendingOnRunning
    <2>3. endpoints[channels[c].endpoint].busy
      BY <1>1, <2>2 DEF IInv, BusyExactlyWhileServing
    <2>4. QED
      BY <2>2, <2>3 DEF CallsKeptAsTheyAre
  <1>4. ServerOfBlockedClientRuns'
    <2> SUFFICES ASSUME NEW c \in Channels, Pending(c)'
                 PROVE  /\ Crossing(c)'
                        /\ channels'[c].pending_server = current'
                        /\ user'.at = endpoints'[channels'[c].endpoint].name
                        /\ \A d \in Channels : Pending(d)' => c = d
      BY DEF ServerOfBlockedClientRuns
    <2>1. Pending(c) /\ channels'[c] = channels[c]
      BY DEF CallsKeptAsTheyAre
    <2>2. Crossing(c)'
      BY <1>1, <2>1 DEF Crossing
    <2>3. QED
      BY <1>1, <1>2, <1>3, <2>1, <2>2 DEF CallsKeptAsTheyAre
  <1>5. PendingOn(t)' = PendingOn(t)
    <2>1. \A c \in Channels : (Occupied(c)' /\ channels'[c].pending_server = t) <=>
                              (Occupied(c) /\ channels[c].pending_server = t)
      BY NoThreadIsNoThread DEF CallsKeptAsTheyAre, Pending
    <2>2. QED
      BY <2>1 DEF PendingOn
  <1>6. CallbackExactlyWhileServing'
    BY <1>1, <1>2, <1>5 DEF CallbackExactlyWhileServing, PendingOn
  <1>7. OthersRestInMain'
    <2>1. \A u \in Threads : u # t /\ threads'[u].state # "EXITED" => RestsInMain(threads'[u])
      BY <1>1, <1>2 DEF StaysIn, RestsInMain
    <2>2. \A c \in Channels : Pending(c)' => channels'[c].saved_context.at = Main
      BY <1>1 DEF CallsKeptAsTheyAre
    <2>3. QED
      BY <1>2, <2>1, <2>2 DEF OthersRestInMain
  <1>8. ParksOnlyWhenAllExited'
    BY <1>2 DEF ParksOnlyWhenAllExited
  <1>9. Waits' = Waits
    <2>1. \A c \in Channels : Crossing(c)' <=> Crossing(c)
      BY DEF CallsKeptAsTheyAre, Crossing
    <2>2. \A c \in Channels : Crossing(c) => channels'[c] = channels[c]
      BY DEF CallsKeptAsTheyAre, Crossing
    <2>3. QED
      BY <2>1, <2>2 DEF Waits
  <1>10. QED
    BY <1>1, <1>2, <1>4, <1>6, <1>7, <1>8, <1>9 DEF DInv, Contract!contract

-----------------------------------------------------------------------------
(* Handing the CPU over *)

\* Leaving the kernel into another thread moves user code to where that thread
\* goes on and changes no other thread but by its state.
LEMMA SwitchFlow ==
    ASSUME NEW tt \in ThreadTable, NEW t \in Threads, NEW next \in Threads, t # next,
           LeaveKernel(t, SetCurrentThread(tt, t, next), next, "OK"), outcome' = "running"
    PROVE  SameFlow(tt, threads') /\ user'.at = tt[next].resume.at
  <1> DEFINE uu == SetCurrentThread(tt, t, next)
  <1>1. uu \in ThreadTable
    <2>1. t \in Threads \cup {NoThread}
      OBVIOUS
    <2>2. QED
      BY <2>1, SetCurrentThreadEffect
  <1>2. SameFlow(tt, uu)
    BY SetCurrentThreadFlow
  <1>3. LeaveKernel(t, uu, next, "OK") /\ "OK" \in Status
    BY DEF Status, KernelStatus
  <1> HIDE DEF uu
  <1>4. /\ \A u \in Threads : threads'[u].context = uu[u].context
        /\ \A u \in Threads : threads'[u].resume = uu[u].resume
        /\ user'.at = uu[next].resume.at
    BY <1>1, <1>3, LeaveKernelFlow
  <1>5. QED
    BY <1>2, <1>4 DEF SameFlow

\* No call is pending behind the step, and whoever runs does so in its main flow.
Calm ==
    /\ outcome' = "running" => user'.at = Main
    /\ \A c \in Channels : ~Pending(c)'
    /\ outcome' = "running" =>
          \A u \in Threads : u # current' /\ threads'[u].state # "EXITED" => RestsInMain(threads'[u])

\* Then the call-related parts of the invariant hold trivially, and nobody waits.
LEMMA CalmKeepsDInv ==
    ASSUME IInv', RolesKept', Calm, ParksOnlyWhenAllExited'
    PROVE  DInv' /\ Waits' = {}
  <1>1. ServerOfBlockedClientRuns' /\ OthersRestInMain'
    BY DEF Calm, ServerOfBlockedClientRuns, OthersRestInMain
  <1>2. CallbackExactlyWhileServing'
    <2>1. outcome' = "running" => current' \in Threads
      BY DEF IInv, OneThreadRuns
    <2>2. outcome' = "running" =>
             \A c \in Channels : ~(Occupied(c)' /\ channels'[c].pending_server = current')
      BY <2>1, NoThreadIsNoThread DEF Calm, Pending
    <2>3. QED
      BY <2>2 DEF Calm, CallbackExactlyWhileServing, PendingOn
  <1>3. Waits' = {}
    BY DEF Calm, Waits, Crossing
  <1>4. QED
    BY <1>1, <1>2, <1>3 DEF DInv

\* RPC_REGISTER lets the next ready thread run: the contract sees a yield.
LEMMA YieldStep ==
    ASSUME DInv, IInv', RolesKept', NEW t \in Threads, Executes(t), PendingOn(t) = {},
           UNCHANGED channels, NEW next \in Threads, threads[next].state = "READY",
           NEW tt \in ThreadTable, SameStates(threads, tt), OnlyTouches(t, threads, tt),
           tt[t].context.at = user.at, tt[t].resume.at = user.at,
           LeaveKernel(t, SetCurrentThread(tt, t, next), next, "OK")
    PROVE  DInv' /\ ContractStep
  <1>1. /\ IInv /\ current = t /\ outcome = "running" /\ threads[t].state = "RUNNING"
        /\ \A u \in Threads : u # t /\ threads[u].state # "EXITED" => RestsInMain(threads[u])
        /\ user.at = Main
        /\ \A c \in Channels : ~Pending(c)
    BY WhileRunning
  <1>2. t # next /\ user \in UserFrame /\ tt[next].state = "READY"
    BY <1>1 DEF IInv, TypeOK, SameStates
  <1>3. /\ current' = next /\ outcome' = "running"
        /\ \A u \in Threads : threads'[u].state =
             IF u = next THEN "RUNNING"
             ELSE IF u = t /\ tt[u].state = "RUNNING" THEN "READY" ELSE tt[u].state
    BY <1>2, SwitchEffect
  <1>4. SameFlow(tt, threads') /\ user'.at = tt[next].resume.at
    BY <1>2, <1>3, SwitchFlow
  <1>5. \A u \in Threads : threads'[u].state = "EXITED" <=> threads[u].state = "EXITED"
    BY <1>1, <1>2, <1>3 DEF SameStates
  <1>6. \A u \in Threads : threads[u].state # "EXITED" => RestsInMain(tt[u])
    BY <1>1 DEF OnlyTouches, RestsInMain
  <1>7. Calm
    <2>1. user'.at = Main
      BY <1>2, <1>4, <1>6 DEF RestsInMain, SameStates
    <2>2. \A c \in Channels : ~Pending(c)'
      BY <1>1 DEF Pending, Occupied
    <2>3. \A u \in Threads : threads'[u].state # "EXITED" => RestsInMain(threads'[u])
      BY <1>4, <1>5, <1>6 DEF RestsInMain, SameFlow
    <2>4. QED
      BY <2>1, <2>2, <2>3 DEF Calm
  <1>8. DInv' /\ Waits' = {}
    BY <1>3, <1>7, CalmKeepsDInv DEF ParksOnlyWhenAllExited
  <1>9. Waits = {}
    BY <1>1 DEF Waits, Crossing
  <1>10. {u \in Threads : threads[u].state # "EXITED"}' = {u \in Threads : threads[u].state # "EXITED"}
    BY <1>5
  <1>11. Contract!Yield(t)
    BY <1>1, <1>2, <1>3, <1>8, <1>9, <1>10 DEF Contract!Yield, Contract!Waiting
  <1>12. QED
    BY <1>8, <1>11 DEF ContractStep, Contract!RRNext

\* RPC_COMPLETE: the contract sees the reply.
LEMMA CompleteStep ==
    ASSUME DInv, IInv', RolesKept', NEW t \in Threads, Executes(t), NEW c \in PendingOn(t),
           channels' = [channels EXCEPT ![c] = CancelledCall(channels[c])],
           NEW status \in Replies, NEW restored,
           restored = SetState(SetUserContext(Trapped(t, status), t, channels[c].saved_context),
                               t, channels[c].saved_state),
           LeaveKernel(t, SetCurrentThread(WokenClient(restored, channels[c].pending_client, status),
                                           t, channels[c].pending_client),
                       channels[c].pending_client, "OK")
    PROVE  DInv' /\ ContractStep
  <1> DEFINE client == channels[c].pending_client
             trapped == Trapped(t, status)
             given == SetUserContext(trapped, t, channels[c].saved_context)
             ready == SetState(restored, client, "READY")
             woken == WokenClient(restored, client, status)
  <1>1. IInv /\ current = t /\ outcome = "running" /\ threads[t].state = "RUNNING"
    BY WhileRunning
  <1>2. /\ c \in Channels /\ channels[c] \in Channel /\ channels[c].pending_server = t
        /\ client \in Threads /\ Pending(c)
        /\ channels[c].saved_state = IF client = t THEN "RUNNING" ELSE "READY"
        /\ client # t => threads[client].state = "BLOCKED"
    BY <1>1, PendingOnRunning
  <1>3. /\ client # t /\ channels[c].saved_context.at = Main
        /\ \A d \in Channels : Pending(d) => c = d
        /\ \A u \in Threads : u # t /\ threads[u].state # "EXITED" => RestsInMain(threads[u])
    BY <1>2, WhileRunning
  <1>4. trapped \in ThreadTable /\ SameStates(threads, trapped) /\ status \in Register /\ status \in Status
    BY <1>1, TrappedEffect, StatusFacts DEF IInv
  <1>5. OnlyTouches(t, threads, trapped)
    <2>1. [at |-> user.at, argument0 |-> status] \in Context /\ threads \in ThreadTable
      BY <1>1, <1>4 DEF IInv, TypeOK, UserFrame, Context, ThreadTable
    <2>2. QED
      BY <2>1, SetUserContextFlow DEF Trapped
  <1>6. channels[c].saved_context \in Context /\ channels[c].saved_state \in ThreadState
        /\ channels[c].saved_state = "READY"
    BY <1>2, <1>3 DEF Channel, ThreadState
  <1> HIDE DEF trapped, client
  <1>7. /\ given \in ThreadTable /\ SameStates(trapped, given)
        /\ OnlyTouches(t, trapped, given) /\ RestsInMain(given[t])
    BY <1>3, <1>4, <1>6, SetUserContextEffect, SetUserContextFlow DEF RestsInMain
  <1> HIDE DEF given
  <1>8. restored = SetState(given, t, "READY")
    BY <1>6 DEF given, trapped
  <1>9. /\ restored \in ThreadTable /\ SameFlow(given, restored)
        /\ \A u \in Threads : restored[u].state = IF u = t THEN "READY" ELSE threads[u].state
    <2>1. "READY" \in ThreadState
      BY DEF ThreadState
    <2>2. QED
      BY <1>4, <1>7, <1>8, <2>1, SetStateEffect, SetStateFlow DEF SameStates
  <1>10. /\ ready \in ThreadTable /\ SameFlow(restored, ready)
         /\ woken = PrepareSyscallResume(ready, client, status)
         /\ woken \in ThreadTable
         /\ \A u \in Threads : woken[u].state = IF u = client THEN "READY" ELSE restored[u].state
    <2>1. "READY" \in ThreadState
      BY DEF ThreadState
    <2>2. ready \in ThreadTable /\ SameFlow(restored, ready)
      BY <1>2, <1>9, <2>1, SetStateEffect, SetStateFlow
    <2>3. woken = PrepareSyscallResume(ready, client, status)
      BY DEF WokenClient
    <2>4. /\ woken \in ThreadTable
          /\ \A u \in Threads : woken[u].state = IF u = client THEN "READY" ELSE restored[u].state
      BY <1>2, <1>4, <1>9, WokenClientEffect
    <2>5. QED
      BY <2>2, <2>3, <2>4
  <1> HIDE DEF ready
  <1>11. OnlyTouches(client, ready, woken) /\ woken[client].context = ready[client].context
         /\ woken[client].resume.at = ready[client].context.at
    <2> HIDE DEF woken
    <2>1. QED
      BY <1>2, <1>4, <1>10, PrepareSyscallResumeFlow
  <1>12. LeaveKernel(t, SetCurrentThread(woken, t, client), client, "OK")
    BY DEF client
  <1> HIDE DEF woken
  <1>13. \A u \in Threads : threads[u].state # "EXITED" => RestsInMain(woken[u])
    <2> SUFFICES ASSUME NEW u \in Threads, threads[u].state # "EXITED" PROVE RestsInMain(woken[u])
      OBVIOUS
    <2>1. RestsInMain(given[u])
      BY <1>3, <1>5, <1>7 DEF OnlyTouches
    <2>2. RestsInMain(ready[u])
      BY <1>9, <1>10, <2>1 DEF SameFlow, RestsInMain
    <2>3. QED
      BY <1>11, <2>2 DEF OnlyTouches, RestsInMain
  <1>14. /\ current' = client /\ outcome' = "running"
         /\ \A u \in Threads : threads'[u].state = "EXITED" <=> threads[u].state = "EXITED"
    <2>1. user \in UserFrame
      BY <1>1 DEF IInv, TypeOK
    <2>2. woken[client].state = "READY"
      BY <1>2, <1>10
    <2>3. /\ current' = client /\ outcome' = "running"
          /\ \A u \in Threads : threads'[u].state =
               IF u = client THEN "RUNNING"
               ELSE IF u = t /\ woken[u].state = "RUNNING" THEN "READY" ELSE woken[u].state
      BY <1>2, <1>3, <1>10, <1>12, <2>1, <2>2, SwitchEffect
    <2>4. QED
      BY <1>1, <1>2, <1>3, <1>9, <1>10, <2>3
  <1>15. SameFlow(woken, threads') /\ user'.at = woken[client].resume.at
    BY <1>2, <1>3, <1>10, <1>12, <1>14, SwitchFlow
  <1>16. Calm
    <2>1. threads[client].state # "EXITED"
      BY <1>2, <1>3
    <2>2. user'.at = Main
      BY <1>2, <1>13, <1>15, <2>1 DEF RestsInMain
    <2>3. \A d \in Channels : ~Pending(d)'
      <3>1. channels \in [Channels -> Channel \cup {NoChannel}]
        BY <1>1 DEF IInv, TypeOK
      <3>2. \A d \in Channels : d # c => channels'[d] = channels[d]
        BY <3>1
      <3>3. channels'[c] = CancelledCall(channels[c])
        BY <1>2, <3>1
      <3>4. QED
        BY <1>3, <3>2, <3>3 DEF Pending, Occupied, CancelledCall, NewChannel
    <2>4. \A u \in Threads : threads'[u].state # "EXITED" => RestsInMain(threads'[u])
      BY <1>13, <1>14, <1>15 DEF SameFlow, RestsInMain
    <2>5. QED
      BY <2>2, <2>3, <2>4 DEF Calm
  <1>17. DInv' /\ Waits' = {}
    BY <1>14, <1>16, CalmKeepsDInv DEF ParksOnlyWhenAllExited
  <1>18. Waits = {<<client, t>>}
    <2>1. \A d \in Channels : Crossing(d) <=> d = c
      BY <1>2, <1>3 DEF Crossing, client
    <2>2. QED
      BY <1>2, <2>1 DEF Waits, client
  <1>19. {u \in Threads : threads[u].state # "EXITED"}' = {u \in Threads : threads[u].state # "EXITED"}
    BY <1>14
  <1>20. Contract!Reply(client, t)
    BY <1>1, <1>14, <1>17, <1>18, <1>19 DEF Contract!Reply
  <1>21. QED
    BY <1>2, <1>17, <1>20 DEF ContractStep, Contract!RRNext

-----------------------------------------------------------------------------
(* RPC_CALL *)

\* An accepted call: the contract sees the request.
LEMMA CallStep ==
    ASSUME DInv, IInv', RolesKept', NEW t \in Threads, Executes(t), NEW c \in Owned(t),
           PeerAlive(channels[c].endpoint),
           endpoints[channels[c].endpoint].in_use,
           NEW server, server = endpoints[channels[c].endpoint].owner,
           NEW prepared, CallBegins(t, c, server, prepared)
    PROVE  DInv' /\ ContractStep
  <1> DEFINE e == channels[c].endpoint
             trapped == Trapped(t, Address)
             blocked == SetState(prepared, t, "BLOCKED")
  <1>1. IInv /\ current = t /\ outcome = "running" /\ threads[t].state = "RUNNING"
    BY WhileRunning
  <1>2. /\ c \in Channels /\ channels[c] \in Channel /\ channels[c].client = t /\ Occupied(c)
        /\ e \in Endpoints
    BY <1>1 DEF Owned, Occupied, IInv, TypeOK, Channel
  <1>3. /\ server \in Threads /\ threads[server].state # "EXITED"
        /\ endpoints[e].name \in Names
    BY <1>1, <1>2 DEF PeerAlive, IInv, NamesLeadToLiveOwners
  <1>4. threads[server].state # "BLOCKED" /\ MayOpen[server] = {}
    BY <1>2, OwnersDoNotWait
  <1>5. MayOpen[t] # {} /\ server # t
    BY <1>2, <1>4 DEF DInv, RolesKept
  <1>6. /\ PendingOn(t) = {} /\ user.at = Main
        /\ \A d \in Channels : ~Pending(d)
        /\ \A u \in Threads : u # t => threads[u].state # "RUNNING"
        /\ \A u \in Threads : u # t /\ threads[u].state # "EXITED" => RestsInMain(threads[u])
    BY <1>5, ServersOpenNothing, WhileRunning
  <1>7. threads[server].state = "READY"
    <2>1. threads[server].state \in ThreadState
      BY <1>1, <1>3 DEF IInv, TypeOK, Thread
    <2>2. QED
      BY <1>3, <1>4, <1>5, <1>6, <2>1 DEF ThreadState
  <1>8. /\ trapped \in ThreadTable /\ SameStates(threads, trapped)
        /\ OnlyTouches(t, threads, trapped) /\ RestsInMain(trapped[t])
    <2> DEFINE context == [at |-> user.at, argument0 |-> Address]
    <2>1. context \in Context /\ threads \in ThreadTable /\ context.at = Main
      BY <1>1, <1>6, StatusFacts DEF IInv, TypeOK, UserFrame, Context, ThreadTable
    <2>2. trapped = SetUserContext(threads, t, context)
      BY DEF Trapped
    <2>3. trapped \in ThreadTable /\ SameStates(threads, trapped)
      BY <1>1, TrappedEffect, StatusFacts DEF IInv
    <2> HIDE DEF context, trapped
    <2>4. OnlyTouches(t, threads, trapped) /\ trapped[t].context = context /\ trapped[t].resume.at = context.at
      BY <2>1, <2>2, SetUserContextFlow
    <2>5. QED
      BY <2>1, <2>3, <2>4 DEF RestsInMain
  <1>9. /\ prepared = PrepareRpcResume(trapped, server, endpoints[e].name)
        /\ channels' = [channels EXCEPT ![c] = BeganCall(channels[c], t, server, prepared)]
        /\ endpoints' = SetBusy(endpoints, e, TRUE)
        /\ LeaveKernel(t, SetCurrentThread(blocked, t, server), server, "OK")
    BY <1>5 DEF CallBegins
  <1> HIDE DEF trapped
  <1>10. /\ prepared \in ThreadTable /\ SameStates(trapped, prepared)
         /\ OnlyTouches(server, trapped, prepared)
         /\ prepared[server].context = trapped[server].context
         /\ prepared[server].resume.at = endpoints[e].name
    BY <1>3, <1>8, <1>9, PrepareRpcResumeEffect, PrepareRpcResumeFlow
  <1>11. /\ blocked \in ThreadTable /\ SameFlow(prepared, blocked)
         /\ \A u \in Threads : blocked[u].state = IF u = t THEN "BLOCKED" ELSE threads[u].state
    <2>1. "BLOCKED" \in ThreadState
      BY DEF ThreadState
    <2>2. /\ blocked \in ThreadTable /\ SameFlow(prepared, blocked)
          /\ \A u \in Threads : blocked[u].state = IF u = t THEN "BLOCKED" ELSE prepared[u].state
      BY <1>10, <2>1, SetStateEffect, SetStateFlow
    <2>3. QED
      BY <1>8, <1>10, <2>2 DEF SameStates
  <1> HIDE DEF blocked
  <1>12. /\ current' = server /\ outcome' = "running"
         /\ \A u \in Threads : threads'[u].state = "EXITED" <=> threads[u].state = "EXITED"
    <2>1. user \in UserFrame /\ blocked[server].state = "READY"
      BY <1>1, <1>3, <1>5, <1>7, <1>11 DEF IInv, TypeOK
    <2>2. /\ current' = server /\ outcome' = "running"
          /\ \A u \in Threads : threads'[u].state =
               IF u = server THEN "RUNNING"
               ELSE IF u = t /\ blocked[u].state = "RUNNING" THEN "READY" ELSE blocked[u].state
      BY <1>3, <1>5, <1>9, <1>11, <2>1, SwitchEffect
    <2>3. QED
      BY <1>1, <1>3, <1>5, <1>7, <1>11, <2>2
  <1>13. SameFlow(blocked, threads') /\ user'.at = blocked[server].resume.at
    BY <1>3, <1>5, <1>9, <1>11, <1>12, SwitchFlow
  <1>14. user'.at = endpoints[e].name /\ user'.at # Main
    BY <1>3, <1>10, <1>11, <1>13, ThreadContextAssumption DEF SameFlow
  <1>15. /\ channels'[c] \in Channel /\ channels'[c].endpoint = e
         /\ channels'[c].pending_client = t /\ channels'[c].pending_server = server
         /\ channels'[c].saved_context = prepared[server].context
         /\ \A d \in Channels : d # c => channels'[d] = channels[d]
    <2> DEFINE began == BeganCall(channels[c], t, server, prepared)
    <2>1. channels \in [Channels -> Channel \cup {NoChannel}]
      BY <1>1 DEF IInv, TypeOK
    <2>2. /\ began \in Channel /\ began.endpoint = e
          /\ began.pending_client = t /\ began.pending_server = server
      BY <1>2, <1>3, <1>10, BeganCallEffect
    <2>3. began.saved_context = prepared[server].context
      BY <1>2 DEF BeganCall, Channel
    <2> HIDE DEF began
    <2>4. channels'[c] = began /\ \A d \in Channels : d # c => channels'[d] = channels[d]
      BY <1>2, <1>9, <2>1 DEF began
    <2>5. QED
      BY <2>2, <2>3, <2>4
  <1>16. endpoints'[e].name = endpoints[e].name
    <2> HIDE DEF e
    <2>1. endpoints \in [Endpoints -> Endpoint]
      BY <1>1 DEF IInv, TypeOK
    <2>2. endpoints'[e] = [endpoints[e] EXCEPT !.busy = TRUE]
      BY <1>2, <1>9, <2>1 DEF SetBusy
    <2>3. QED
      BY <1>2, <2>1, <2>2 DEF Endpoint
  <1>17. Pending(c)' /\ Crossing(c)' /\ \A d \in Channels : d # c => ~Pending(d)'
    <2>1. channels'[c] # NoChannel
      BY <1>15, NoThreadIsNoThread DEF Channel, NoChannel
    <2>2. QED
      BY <1>3, <1>5, <1>6, <1>15, <2>1, NoThreadIsNoThread DEF Pending, Crossing, Occupied
  <1>18. DInv'
    <2>1. ServerOfBlockedClientRuns'
      BY <1>12, <1>14, <1>15, <1>16, <1>17 DEF ServerOfBlockedClientRuns
    <2>2. CallbackExactlyWhileServing'
      <3>1. c \in PendingOn(server)'
        BY <1>2, <1>15, <1>17 DEF PendingOn, Pending
      <3>2. QED
        BY <1>12, <1>14, <3>1 DEF CallbackExactlyWhileServing, PendingOn
    <2>3. OthersRestInMain'
      <3>1. ASSUME NEW u \in Threads, u # server, threads'[u].state # "EXITED"
            PROVE  RestsInMain(threads'[u])
        <4>1. RestsInMain(prepared[u])
          BY <1>6, <1>8, <1>10, <1>12, <3>1 DEF OnlyTouches
        <4>2. QED
          BY <1>11, <1>13, <4>1 DEF SameFlow, RestsInMain
      <3>2. prepared[server].context.at = Main
        BY <1>3, <1>5, <1>6, <1>8, <1>10 DEF OnlyTouches, RestsInMain
      <3>3. \A d \in Channels : Pending(d)' => channels'[d].saved_context.at = Main
        BY <1>15, <1>17, <3>2
      <3>4. QED
        BY <1>12, <3>1, <3>3 DEF OthersRestInMain
    <2>4. QED
      BY <1>12, <2>1, <2>2, <2>3 DEF DInv, ParksOnlyWhenAllExited
  <1>19. Waits = {} /\ Waits' = {<<t, server>>}
    <2>1. Waits = {}
      BY <1>6 DEF Waits, Crossing
    <2>2. \A d \in Channels : Crossing(d)' <=> d = c
      BY <1>17 DEF Crossing
    <2>3. Waits' = {<<t, server>>}
      BY <1>2, <1>15, <2>2 DEF Waits
    <2>4. QED
      BY <2>1, <2>3
  <1>20. {u \in Threads : threads[u].state # "EXITED"}' = {u \in Threads : threads[u].state # "EXITED"}
    BY <1>12
  <1>21. Contract!Request(t, server)
    BY <1>1, <1>3, <1>5, <1>12, <1>19, <1>20 DEF Contract!Request, Contract!Waiting
  <1>22. QED
    BY <1>3, <1>18, <1>21 DEF ContractStep, Contract!RRNext

-----------------------------------------------------------------------------
(* Thread exit *)

\* terminate_current_thread parks the CPU only when no other thread is ready, and
\* otherwise goes on where the thread it chose goes on.
LEMMA ExitAndScheduleFlow ==
    ASSUME NEW tt \in ThreadTable, NEW t \in Threads, user \in UserFrame, ExitAndSchedule(t, tt)
    PROVE  \/ /\ outcome' = "parked" /\ current' = NoThread
              /\ \A u \in Threads : u # t => tt[u].state # "READY"
           \/ /\ outcome' = "running" /\ current' \in Threads \ {t}
              /\ tt[current'].state = "READY"
              /\ SameFlow(tt, threads') /\ user'.at = tt[current'].resume.at
  <1> DEFINE exited == SetState(tt, t, "EXITED")
  <1>1. /\ exited \in ThreadTable /\ SameFlow(tt, exited)
        /\ \A u \in Threads : exited[u].state = IF u = t THEN "EXITED" ELSE tt[u].state
    <2>1. "EXITED" \in ThreadState
      BY DEF ThreadState
    <2>2. QED
      BY <2>1, SetStateEffect, SetStateFlow
  <1>2. \/ Ready(exited) = {} /\ LeaveKernel(t, exited, NoThread, "OK")
        \/ \E next \in NextReady(exited, t) :
              LeaveKernel(t, SetCurrentThread(exited, t, next), next, "OK")
    BY DEF ExitAndSchedule
  <1> HIDE DEF exited
  <1>3. CASE Ready(exited) = {} /\ LeaveKernel(t, exited, NoThread, "OK")
    <2>1. outcome' = "parked" /\ current' = NoThread
      BY <1>3 DEF LeaveKernel, Runnable
    <2>2. QED
      BY <1>1, <1>3, <2>1 DEF Ready
  <1>4. ASSUME NEW next \in NextReady(exited, t),
               LeaveKernel(t, SetCurrentThread(exited, t, next), next, "OK")
        PROVE  /\ outcome' = "running" /\ current' = next /\ next \in Threads \ {t}
               /\ tt[next].state = "READY"
               /\ SameFlow(tt, threads') /\ user'.at = tt[next].resume.at
    <2>1. next \in Threads /\ exited[next].state = "READY"
      BY <1>4 DEF NextReady, Ready
    <2>2. next # t /\ tt[next].state = "READY"
      BY <1>1, <2>1
    <2>3. outcome' = "running" /\ current' = next
      BY <1>1, <1>4, <2>1, <2>2, SwitchEffect
    <2>4. SameFlow(exited, threads') /\ user'.at = exited[next].resume.at
      BY <1>1, <1>4, <2>1, <2>2, <2>3, SwitchFlow
    <2>5. QED
      BY <1>1, <2>1, <2>2, <2>3, <2>4 DEF SameFlow
  <1>5. QED
    BY <1>2, <1>3, <1>4

\* The running thread exits, and the calls it served have ended: the contract sees
\* the exit.
LEMMA ExitStep ==
    ASSUME DInv, IInv', RolesKept', NEW t \in Threads, Executes(t),
           NEW ww \in ThreadTable, ExitAndSchedule(t, ww), ww[t].state = "RUNNING",
           \A u \in Threads : u # t => ww[u].state \in {"READY", "EXITED"},
           \A u \in Threads : ww[u].state = "EXITED" <=> threads[u].state = "EXITED",
           \A u \in Threads : u # t /\ threads[u].state # "EXITED" => RestsInMain(ww[u]),
           \A c \in Channels : ~Pending(c)'
    PROVE  DInv' /\ ContractStep
  <1>1. IInv /\ current = t /\ outcome = "running" /\ user \in UserFrame
    BY WhileRunning DEF IInv, TypeOK
  <1>2. \A u \in Threads : threads'[u].state = "EXITED" <=> threads[u].state = "EXITED" \/ u = t
    <2>1. /\ \A u \in Threads : threads'[u].state =
               IF u = t THEN "EXITED" ELSE IF u = current' THEN "RUNNING" ELSE ww[u].state
          /\ \A u \in Threads : u = current' => ww[u].state = "READY"
      BY <1>1, ExitAndScheduleEffect
    <2>2. QED
      BY <2>1
  <1>3. \/ /\ outcome' = "parked" /\ current' = NoThread
           /\ \A u \in Threads : u # t => ww[u].state # "READY"
        \/ /\ outcome' = "running" /\ current' \in Threads \ {t}
           /\ ww[current'].state = "READY"
           /\ SameFlow(ww, threads') /\ user'.at = ww[current'].resume.at
    BY <1>1, ExitAndScheduleFlow
  <1>4. Calm
    <2>1. CASE outcome' = "parked"
      BY <2>1 DEF Calm
    <2>2. CASE outcome' = "running"
      <3>1. threads[current'].state # "EXITED" /\ current' \in Threads /\ current' # t
        BY <1>3, <2>2
      <3>2. user'.at = Main
        BY <1>3, <2>2, <3>1 DEF RestsInMain
      <3>3. ASSUME NEW u \in Threads, threads'[u].state # "EXITED"
            PROVE  RestsInMain(threads'[u])
        BY <1>2, <1>3, <2>2, <3>3 DEF SameFlow, RestsInMain
      <3>4. QED
        BY <3>2, <3>3 DEF Calm
    <2>3. QED
      BY <1>3, <2>1, <2>2
  <1>5. outcome' = "parked" => \A u \in Threads : threads'[u].state = "EXITED"
    BY <1>2, <1>3
  <1>6. DInv' /\ Waits' = {}
    BY <1>4, <1>5, CalmKeepsDInv DEF ParksOnlyWhenAllExited
  <1> DEFINE living == {u \in Threads : threads[u].state # "EXITED"}
  <1>7. living' = living \ {t}
    BY <1>2
  <1>8. \A w \in Waits : w[2] = t
    <2>1. \A c \in Channels : Crossing(c) => channels[c].pending_server = t
      BY WhileRunning DEF Crossing
    <2>2. QED
      BY <2>1 DEF Waits
  <1>9. Waits' = {w \in Waits : w[2] # t}
    BY <1>6, <1>8
  <1>10. IF living' = {} THEN current' = NoThread
         ELSE current' \in living' /\ \A u \in Threads : <<current', u>> \notin Waits'
    BY <1>2, <1>3, <1>5, <1>6
  <1>11. Contract!Exit(t)
    BY <1>1, <1>7, <1>9, <1>10 DEF Contract!Exit
  <1>12. QED
    BY <1>6, <1>11 DEF ContractStep, Contract!RRNext
-----------------------------------------------------------------------------
(* Every syscall *)

\* A syscall that gives an error, or only logs, back to its caller.
LEMMA AnswerStep ==
    ASSUME DInv, IInv', NEW t \in Threads, Executes(t), NEW argument0 \in Register,
           NEW status \in Status, Answer(t, argument0, status)
    PROVE  DInv' /\ ContractStep
  <1>1. LeaveKernel(t, Trapped(t, argument0), t, status) /\ UNCHANGED <<endpoints, channels>>
    BY DEF Answer, objects
  <1>2. StaysIn(t)
    BY <1>1, ReturningStays
  <1>3. RolesKept'
    BY <1>1 DEF DInv, RolesKept, Occupied
  <1>4. CallsKeptAsTheyAre
    BY <1>1 DEF CallsKeptAsTheyAre, Pending, Occupied
  <1>5. QED
    BY <1>2, <1>3, <1>4, QuietStep DEF ContractStep

\* RPC_OPEN and RPC_CLOSE change one slot that holds no pending call.
LEMMA ChannelReplacedStep ==
    ASSUME DInv, IInv', NEW t \in Threads, Executes(t), NEW c \in Channels, ~Pending(c),
           NEW ch, ch = NoChannel \/ (Idle(ch) /\ MayOpen[ch.client] # {}),
           channels' = [channels EXCEPT ![c] = ch], UNCHANGED endpoints,
           LeaveKernel(t, Trapped(t, Address), t, "OK")
    PROVE  DInv' /\ ContractStep
  <1>1. StaysIn(t)
    BY ReturningStays, StatusFacts DEF KernelStatus
  <1>2. channels \in [Channels -> Channel \cup {NoChannel}]
    BY DEF DInv, IInv, TypeOK
  <1>3. channels'[c] = ch /\ \A d \in Channels : d # c => channels'[d] = channels[d]
    BY <1>2
  <1>4. RolesKept'
    <2>1. \A e \in Endpoints : endpoints'[e].in_use => MayRegister[endpoints'[e].owner] # {}
      BY DEF DInv, RolesKept
    <2>2. ASSUME NEW d \in Channels, Occupied(d)' PROVE MayOpen[channels'[d].client] # {}
      <3>1. CASE d = c
        BY <1>3, <2>2, <3>1 DEF Occupied
      <3>2. CASE d # c
        BY <1>3, <2>2, <3>2 DEF DInv, RolesKept, Occupied
      <3>3. QED
        BY <3>1, <3>2
    <2>3. QED
      BY <2>1, <2>2 DEF RolesKept
  <1>5. CallsKeptAsTheyAre
    <2>1. ~Pending(c)'
      BY <1>3 DEF Pending, Occupied, Idle
    <2>2. \A d \in Channels : d # c => (Pending(d)' <=> Pending(d))
      BY <1>3 DEF Pending, Occupied
    <2>3. QED
      BY <1>3, <2>1, <2>2 DEF CallsKeptAsTheyAre
  <1>6. QED
    BY <1>1, <1>4, <1>5, QuietStep DEF ContractStep

\* RPC_REGISTER fills a free slot, and the running thread stays or gives way.
LEMMA EndpointAddedStep ==
    ASSUME DInv, IInv', NEW t \in Threads, Executes(t),
           NEW name \in MayRegister[t], NEW e \in FreeEndpoints,
           endpoints' = [endpoints EXCEPT ![e] =
              [in_use |-> TRUE, busy |-> FALSE, name |-> name, owner |-> t]],
           UNCHANGED channels,
           NEW tt, tt = Trapped(t, Address),
           \/ LeaveKernel(t, tt, t, "OK")
           \/ \E next \in NextReady(tt, t) :
                 /\ PendingOn(t) = {}
                 /\ LeaveKernel(t, SetCurrentThread(PrepareSyscallResume(tt, t, "OK"), t, next),
                                next, "OK")
    PROVE  DInv' /\ ContractStep
  <1> DEFINE new == [in_use |-> TRUE, busy |-> FALSE, name |-> name, owner |-> t]
  <1>1. /\ IInv /\ threads[t].state = "RUNNING" /\ user \in UserFrame /\ threads \in ThreadTable
        /\ endpoints \in [Endpoints -> Endpoint]
        /\ e \in Endpoints /\ ~endpoints[e].in_use
    BY WhileRunning DEF IInv, TypeOK, FreeEndpoints, ThreadTable
  <1>2. endpoints'[e] = new /\ \A f \in Endpoints : f # e => endpoints'[f] = endpoints[f]
    BY <1>1
  <1>3. RolesKept'
    <2>1. ASSUME NEW f \in Endpoints, endpoints'[f].in_use
          PROVE  MayRegister[endpoints'[f].owner] # {}
      BY <1>2, <2>1 DEF DInv, RolesKept
    <2>2. \A c \in Channels : Occupied(c)' => MayOpen[channels'[c].client] # {}
      BY DEF DInv, RolesKept, Occupied
    <2>3. QED
      BY <2>1, <2>2 DEF RolesKept
  <1>4. CallsKeptAsTheyAre
    <2>1. ~endpoints[e].busy
      BY <1>1 DEF IInv, NamesLeadToLiveOwners, ClearedEndpoint
    <2>2. QED
      BY <1>2, <2>1 DEF CallsKeptAsTheyAre, Pending, Occupied
  <1>5. "OK" \in Status /\ Address \in Register
    BY StatusFacts DEF KernelStatus
  <1>6. CASE LeaveKernel(t, tt, t, "OK")
    <2>1. StaysIn(t)
      BY <1>5, <1>6, ReturningStays
    <2>2. QED
      BY <1>3, <1>4, <2>1, QuietStep DEF ContractStep
  <1>7. ASSUME NEW next \in NextReady(tt, t), PendingOn(t) = {},
               LeaveKernel(t, SetCurrentThread(PrepareSyscallResume(tt, t, "OK"), t, next),
                           next, "OK")
        PROVE  DInv' /\ ContractStep
    <2> DEFINE given == PrepareSyscallResume(tt, t, "OK")
               context == [at |-> user.at, argument0 |-> Address]
    <2>1. tt \in ThreadTable /\ SameStates(threads, tt)
      BY <1>1, <1>5, TrappedEffect DEF IInv
    <2>2. context \in Context /\ context.at = user.at
      BY <1>1, <1>5 DEF UserFrame, Context
    <2>3. tt = SetUserContext(threads, t, context)
      BY DEF Trapped
    <2> HIDE DEF context
    <2>4. OnlyTouches(t, threads, tt) /\ tt[t].context = context
      BY <1>1, <2>2, <2>3, SetUserContextFlow
    <2>5. /\ given \in ThreadTable /\ SameStates(tt, given)
          /\ OnlyTouches(t, tt, given)
          /\ given[t].context = tt[t].context /\ given[t].resume.at = tt[t].context.at
      BY <1>5, <2>1, PrepareSyscallResumeEffect, PrepareSyscallResumeFlow
    <2>6. next \in Threads /\ threads[next].state = "READY"
      BY <1>7, <2>1 DEF NextReady, Ready, SameStates
    <2>7. LeaveKernel(t, SetCurrentThread(given, t, next), next, "OK")
      BY <1>7
    <2> HIDE DEF given
    <2>8. SameStates(threads, given) /\ OnlyTouches(t, threads, given)
      BY <2>1, <2>4, <2>5 DEF SameStates, OnlyTouches
    <2>9. given[t].context.at = user.at /\ given[t].resume.at = user.at
      BY <2>2, <2>4, <2>5
    <2>10. QED
      BY <1>3, <1>7, <2>5, <2>6, <2>7, <2>8, <2>9, YieldStep
  <1>8. QED
    BY <1>6, <1>7


\* begin_call and cancel_call leave a channel with the client that opened it, and
\* set_busy an endpoint with its owner.
LEMMA RolesOfCallKept ==
    ASSUME DInv, NEW c \in Channels, Occupied(c), NEW ch, ch.client = channels[c].client,
           channels' = [channels EXCEPT ![c] = ch],
           \A e \in Endpoints : endpoints'[e].in_use =>
              endpoints[e].in_use /\ endpoints'[e].owner = endpoints[e].owner
    PROVE  RolesKept'
  <1>1. channels \in [Channels -> Channel \cup {NoChannel}]
    BY DEF DInv, IInv, TypeOK
  <1>2. channels'[c] = ch /\ \A d \in Channels : d # c => channels'[d] = channels[d]
    BY <1>1
  <1>3. ASSUME NEW d \in Channels, Occupied(d)' PROVE MayOpen[channels'[d].client] # {}
    <2>1. CASE d = c
      BY <1>2, <2>1 DEF DInv, RolesKept
    <2>2. CASE d # c
      BY <1>2, <1>3, <2>2 DEF DInv, RolesKept, Occupied
    <2>3. QED
      BY <2>1, <2>2
  <1>4. \A e \in Endpoints : endpoints'[e].in_use => MayRegister[endpoints'[e].owner] # {}
    BY DEF DInv, RolesKept
  <1>5. QED
    BY <1>3, <1>4 DEF RolesKept

\* set_busy changes neither owner nor registration.
LEMMA SetBusyKeepsOwners ==
    ASSUME endpoints \in [Endpoints -> Endpoint], NEW e \in Endpoints, NEW busy \in BOOLEAN
    PROVE  LET ee == SetBusy(endpoints, e, busy) IN
           \A f \in Endpoints : /\ ee[f].in_use = endpoints[f].in_use
                                /\ ee[f].owner = endpoints[f].owner
  <1> DEFINE ee == SetBusy(endpoints, e, busy)
             new == [endpoints[e] EXCEPT !.busy = busy]
  <1>1. new.in_use = endpoints[e].in_use /\ new.owner = endpoints[e].owner
    BY DEF Endpoint
  <1>2. ee = [endpoints EXCEPT ![e] = new]
    BY DEF SetBusy
  <1> HIDE DEF new, ee
  <1>3. ee[e] = new /\ \A f \in Endpoints : f # e => ee[f] = endpoints[f]
    BY <1>2
  <1>4. QED
    BY <1>1, <1>3 DEF ee

\* Clearing the endpoints of t takes registrations back and changes no owner.
LEMMA ClearKeepsOwners ==
    ASSUME NEW ee, NEW t \in Threads, NEW f \in Endpoints,
           ClearEndpointsOwnedBy(ee, t)[f].in_use
    PROVE  /\ ee[f].in_use
           /\ ClearEndpointsOwnedBy(ee, t)[f].owner = ee[f].owner
  BY DEF ClearEndpointsOwnedBy, ClearedEndpoint

\* The running thread exits by a syscall or a fault: with the call it served, if
\* there is one, every pending call ends, and the client of that call is woken.
LEMMA TerminateStep ==
    ASSUME DInv, IInv', NEW t \in Threads, Executes(t), NEW tt \in ThreadTable,
           SameStates(threads, tt), OnlyTouches(t, threads, tt),
           NEW failure \in Status, Terminate(t, tt, failure)
    PROVE  DInv' /\ ContractStep
  <1>1. /\ IInv /\ current = t /\ outcome = "running" /\ threads[t].state = "RUNNING"
        /\ \A u \in Threads : u # t => threads[u].state # "RUNNING"
        /\ \A u \in Threads : u # t /\ threads[u].state # "EXITED" => RestsInMain(threads[u])
        /\ \A c \in Channels : Pending(c) =>
             /\ c \in PendingOn(t)
             /\ channels[c].pending_server = t
             /\ channels[c].pending_client \in Threads \ {t}
             /\ channels[c].saved_context.at = Main
             /\ user.at = endpoints[channels[c].endpoint].name
             /\ \A d \in Channels : Pending(d) => c = d
    BY WhileRunning
  <1>2. /\ endpoints \in [Endpoints -> Endpoint]
        /\ channels \in [Channels -> Channel \cup {NoChannel}]
        /\ \A u \in Threads : threads[u].state \in ThreadState
    BY <1>1 DEF IInv, TypeOK, Thread
  <1>3. /\ \A u \in Threads : tt[u].state = threads[u].state
        /\ \A u \in Threads : u # t => tt[u] = threads[u]
    BY DEF SameStates, OnlyTouches
  <1>4. ASSUME NEW u \in Threads, threads[u].state = "BLOCKED"
        PROVE  \E c \in Channels : Pending(c) /\ channels[c].pending_client = u
    BY <1>1, <1>4 DEF IInv, BlockedExactlyWhileCalling, WaitsFor, Crossing
  <1>5. CASE /\ PendingOn(t) = {}
             /\ endpoints' = ClearEndpointsOwnedBy(endpoints, t)
             /\ UNCHANGED channels
             /\ ExitAndSchedule(t, tt)
    <2>1. \A c \in Channels : ~Pending(c)
      BY <1>1, <1>5
    <2>2. \A c \in Channels : ~Pending(c)'
      BY <1>5, <2>1 DEF Pending, Occupied
    <2>3. \A u \in Threads : u # t => tt[u].state \in {"READY", "EXITED"}
      BY <1>1, <1>2, <1>3, <1>4, <2>1 DEF ThreadState
    <2>4. RolesKept'
      <3>1. \A e \in Endpoints : endpoints'[e].in_use => MayRegister[endpoints'[e].owner] # {}
        BY <1>5, ClearKeepsOwners DEF DInv, RolesKept
      <3>2. QED
        BY <1>5, <3>1 DEF DInv, RolesKept, Occupied
    <2>5. QED
      BY <1>1, <1>3, <1>5, <2>2, <2>3, <2>4, ExitStep
  <1>6. ASSUME NEW c \in First(PendingOn(t)),
               channels' = [channels EXCEPT ![c] = CancelledCall(channels[c])],
               endpoints' = ClearEndpointsOwnedBy(SetBusy(endpoints, channels[c].endpoint, FALSE), t),
               ExitAndSchedule(t, IF channels[c].pending_client = t THEN tt
                                  ELSE WokenClient(tt, channels[c].pending_client, failure))
        PROVE  DInv' /\ ContractStep
    <2> DEFINE client == channels[c].pending_client
               e == channels[c].endpoint
               ready == SetState(tt, client, "READY")
               ww == WokenClient(tt, client, failure)
    <2>1. c \in PendingOn(t)
      BY <1>6 DEF First
    <2>2. /\ c \in Channels /\ channels[c] \in Channel /\ client \in Threads /\ client # t
          /\ Pending(c) /\ Occupied(c) /\ e \in Endpoints
          /\ \A d \in Channels : Pending(d) => c = d
      BY <1>1, <2>1, PendingOnRunning DEF PendingOn
    <2>3. ExitAndSchedule(t, ww)
      BY <1>6, <2>2
    <2>4. /\ ww \in ThreadTable
          /\ \A u \in Threads : ww[u].state = IF u = client THEN "READY" ELSE threads[u].state
      <3> HIDE DEF client
      <3>1. QED
        BY <1>3, <2>2, WokenClientEffect
    <2>5. RolesKept'
      <3> DEFINE ch == CancelledCall(channels[c])
                 ee == SetBusy(endpoints, e, FALSE)
      <3>1. ch.client = channels[c].client
        BY DEF CancelledCall, NewChannel
      <3>2. \A f \in Endpoints : ee[f].in_use = endpoints[f].in_use /\ ee[f].owner = endpoints[f].owner
        BY <1>2, <2>2, SetBusyKeepsOwners
      <3>3. endpoints' = ClearEndpointsOwnedBy(ee, t)
        BY <1>6
      <3> HIDE DEF ee, ch
      <3>4. \A f \in Endpoints : endpoints'[f].in_use =>
               endpoints[f].in_use /\ endpoints'[f].owner = endpoints[f].owner
        BY <3>2, <3>3, ClearKeepsOwners
      <3>5. channels' = [channels EXCEPT ![c] = ch]
        BY <1>6 DEF ch
      <3>6. QED
        BY <2>2, <3>1, <3>4, <3>5, RolesOfCallKept
    <2>6. \A d \in Channels : ~Pending(d)'
      <3>1. channels'[c] = CancelledCall(channels[c]) /\ \A d \in Channels : d # c => channels'[d] = channels[d]
        BY <1>2, <1>6, <2>2
      <3>2. QED
        BY <2>2, <3>1 DEF Pending, Occupied, CancelledCall, NewChannel
    <2>7. threads[client].state = "BLOCKED"
      BY <1>1, <2>1, <2>2, PendingOnRunning
    <2>8. ASSUME NEW u \in Threads, u # t PROVE ww[u].state \in {"READY", "EXITED"}
      <3>1. threads[u].state = "BLOCKED" => u = client
        BY <1>4, <2>2
      <3> HIDE DEF client
      <3>2. QED
        BY <1>1, <1>2, <2>4, <2>8, <3>1 DEF ThreadState
    <2>9. ASSUME NEW u \in Threads, u # t, threads[u].state # "EXITED" PROVE RestsInMain(ww[u])
      <3>1. /\ ready \in ThreadTable /\ SameFlow(tt, ready)
        BY <2>2, SetStateEffect, SetStateFlow DEF ThreadState
      <3>2. ww = PrepareSyscallResume(ready, client, failure)
        BY DEF WokenClient
      <3> HIDE DEF ready, client
      <3>3. /\ OnlyTouches(client, ready, ww)
            /\ ww[client].context = ready[client].context
            /\ ww[client].resume.at = ready[client].context.at
        BY <2>2, <3>1, <3>2, PrepareSyscallResumeFlow
      <3>4. RestsInMain(ready[u])
        BY <1>1, <1>3, <2>9, <3>1 DEF SameFlow, RestsInMain
      <3>5. QED
        BY <3>3, <3>4 DEF OnlyTouches, RestsInMain
    <2>10. /\ ww[t].state = "RUNNING"
           /\ \A u \in Threads : ww[u].state = "EXITED" <=> threads[u].state = "EXITED"
      BY <1>1, <2>2, <2>4, <2>7
    <2> HIDE DEF ww
    <2>11. QED
      BY <2>3, <2>4, <2>5, <2>6, <2>8, <2>9, <2>10, ExitStep
  <1>7. QED
    BY <1>5, <1>6 DEF Terminate


\* Every outcome of RPC_REGISTER.
LEMMA RpcRegisterStep ==
    ASSUME DInv, IInv', NEW t \in Threads, RpcRegister(t)
    PROVE  DInv' /\ ContractStep
  <1>1. Executes(t)
    BY DEF RpcRegister
  <1>2. CASE \E status \in ({"INVALID_ARGUMENT"} \cup StringErrors) \cap Mistakes :
                Answer(t, Address, status)
    BY <1>1, <1>2, AnswerStep, StatusFacts DEF StringErrors, KernelStatus
  <1>3. CASE Answer(t, Address, "BAD_STATE") \/ Answer(t, Address, "NO_MEMORY")
    BY <1>1, <1>3, AnswerStep, StatusFacts DEF KernelStatus
  <1>4. ASSUME NEW name \in MayRegister[t], NEW e \in First(FreeEndpoints),
               endpoints' = [endpoints EXCEPT ![e] =
                  [in_use |-> TRUE, busy |-> FALSE, name |-> name, owner |-> t]],
               UNCHANGED channels,
               NEW tt, tt = Trapped(t, Address),
               \/ LeaveKernel(t, tt, t, "OK")
               \/ \E next \in NextReady(tt, t) :
                     /\ PendingOn(t) = {}
                     /\ LeaveKernel(t, SetCurrentThread(PrepareSyscallResume(tt, t, "OK"), t, next),
                                    next, "OK")
        PROVE  DInv' /\ ContractStep
    <2>1. e \in FreeEndpoints
      BY <1>4 DEF First
    <2>2. QED
      BY <1>1, <1>4, <2>1, EndpointAddedStep
  <1>5. QED
    BY <1>2, <1>3, <1>4 DEF RpcRegister

\* Every outcome of RPC_OPEN.
LEMMA RpcOpenStep ==
    ASSUME DInv, IInv', NEW t \in Threads, RpcOpen(t)
    PROVE  DInv' /\ ContractStep
  <1>1. Executes(t)
    BY DEF RpcOpen
  <1>2. CASE \E status \in ({"INVALID_ARGUMENT"} \cup StringErrors) \cap Mistakes :
                Answer(t, Address, status)
    BY <1>1, <1>2, AnswerStep, StatusFacts DEF StringErrors, KernelStatus
  <1>3. CASE \E status \in {"NOT_FOUND", "PEER_CLOSED", "NO_MEMORY", "FAULT"} :
                Answer(t, Address, status)
    BY <1>1, <1>3, AnswerStep, StatusFacts DEF KernelStatus
  <1>4. ASSUME NEW name \in MayOpen[t], NEW e \in First(Named(name)), NEW c \in First(FreeChannels),
               channels' = [channels EXCEPT ![c] = NewChannel(t, e)],
               LeaveKernel(t, Trapped(t, Address), t, "OK"),
               UNCHANGED endpoints
        PROVE  DInv' /\ ContractStep
    <2> DEFINE ch == NewChannel(t, e)
    <2>1. e \in Endpoints /\ c \in Channels /\ ~Pending(c)
      BY <1>4 DEF First, Named, FreeChannels, Pending
    <2>2. Idle(ch) /\ ch.client = t /\ MayOpen[t] # {}
      BY <2>1, NewChannelIdle DEF NewChannel
    <2>3. channels' = [channels EXCEPT ![c] = ch]
      BY <1>4
    <2> HIDE DEF ch
    <2>4. QED
      BY <1>1, <1>4, <2>1, <2>2, <2>3, ChannelReplacedStep
  <1>5. QED
    BY <1>1, <1>2, <1>3, <1>4 DEF RpcOpen

\* Every outcome of RPC_CLOSE.
LEMMA RpcCloseStep ==
    ASSUME DInv, IInv', NEW t \in Threads, RpcClose(t)
    PROVE  DInv' /\ ContractStep
  <1>1. Executes(t)
    BY DEF RpcClose
  <1>2. CASE \E status \in HandleErrors \cap Mistakes : Answer(t, Address, status)
    BY <1>1, <1>2, AnswerStep, StatusFacts DEF HandleErrors, KernelStatus
  <1>3. CASE Answer(t, Address, "BAD_STATE")
    BY <1>1, <1>3, AnswerStep, StatusFacts DEF KernelStatus
  <1>4. ASSUME NEW c \in Owned(t), ~ChannelBusy(channels[c]),
               channels' = [channels EXCEPT ![c] = NoChannel],
               LeaveKernel(t, Trapped(t, Address), t, "OK"),
               UNCHANGED endpoints
        PROVE  DInv' /\ ContractStep
    <2>1. c \in Channels /\ ~Pending(c)
      BY <1>4 DEF Owned, ChannelBusy, Pending
    <2> DEFINE ch == NoChannel
    <2>2. ch = NoChannel \/ (Idle(ch) /\ MayOpen[ch.client] # {})
      OBVIOUS
    <2>3. channels' = [channels EXCEPT ![c] = ch]
      BY <1>4
    <2>4. LeaveKernel(t, Trapped(t, Address), t, "OK") /\ UNCHANGED endpoints
      BY <1>4
    <2> HIDE DEF ch
    <2>5. QED
      BY <1>1, <2>1, <2>2, <2>3, <2>4, ChannelReplacedStep
  <1>5. QED
    BY <1>1, <1>2, <1>3, <1>4 DEF RpcClose

\* Every outcome of RPC_CALL.
LEMMA RpcCallStep ==
    ASSUME DInv, IInv', NEW t \in Threads, RpcCall(t)
    PROVE  DInv' /\ ContractStep
  <1>1. Executes(t)
    BY DEF RpcCall
  <1>2. CASE \E status \in HandleErrors \cap Mistakes : Answer(t, Address, status)
    BY <1>1, <1>2, AnswerStep, StatusFacts DEF HandleErrors, KernelStatus
  <1>3. CASE \E status \in PrepareErrors \cap Mistakes : Answer(t, Address, status)
    BY <1>1, <1>3, AnswerStep, StatusFacts DEF PrepareErrors, KernelStatus
  <1>4. CASE Answer(t, Address, "PEER_CLOSED") \/ Answer(t, Address, "WOULD_BLOCK")
    BY <1>1, <1>4, AnswerStep, StatusFacts DEF KernelStatus
  <1>5. ASSUME NEW c \in Owned(t), PeerAlive(channels[c].endpoint),
               endpoints[channels[c].endpoint].in_use,
               NEW server, server = endpoints[channels[c].endpoint].owner,
               NEW prepared, CallBegins(t, c, server, prepared)
        PROVE  DInv' /\ ContractStep
    <2> DEFINE e == channels[c].endpoint
               ch == BeganCall(channels[c], t, server, prepared)
    <2>1. /\ endpoints \in [Endpoints -> Endpoint]
          /\ c \in Channels /\ Occupied(c) /\ channels[c] \in Channel /\ e \in Endpoints
      BY <1>5 DEF DInv, IInv, TypeOK, Owned, Occupied, Channel
    <2>2. ch.client = channels[c].client
      BY <2>1 DEF BeganCall, Channel
    <2>3. \A f \in Endpoints : endpoints'[f].in_use =>
             endpoints[f].in_use /\ endpoints'[f].owner = endpoints[f].owner
      BY <1>5, <2>1, SetBusyKeepsOwners DEF CallBegins
    <2>4. channels' = [channels EXCEPT ![c] = ch]
      BY <1>5 DEF CallBegins
    <2> HIDE DEF ch
    <2>5. RolesKept'
      BY <2>1, <2>2, <2>3, <2>4, RolesOfCallKept
    <2>6. QED
      BY <1>1, <1>5, <2>5, CallStep
  <1>6. QED
    BY <1>2, <1>3, <1>4, <1>5 DEF RpcCall, CallBegins

\* Every outcome of RPC_COMPLETE.
LEMMA RpcCompleteStep ==
    ASSUME DInv, IInv', NEW t \in Threads, RpcComplete(t)
    PROVE  DInv' /\ ContractStep
  <1>1. Executes(t) /\ IInv
    BY DEF RpcComplete, DInv
  <1>2. CASE \E status \in Replies : Answer(t, status, "BAD_STATE")
    <2>1. PICK status \in Replies : Answer(t, status, "BAD_STATE")
      BY <1>2
    <2>2. status \in Register /\ "BAD_STATE" \in Status
      BY StatusFacts DEF KernelStatus
    <2>3. QED
      BY <1>1, <2>1, <2>2, AnswerStep
  <1>3. ASSUME NEW status \in Replies, NEW c \in First(PendingOn(t)), NEW restored,
               restored = SetState(SetUserContext(Trapped(t, status), t, channels[c].saved_context),
                                   t, channels[c].saved_state),
               channels' = [channels EXCEPT ![c] = CancelledCall(channels[c])],
               endpoints' = SetBusy(endpoints, channels[c].endpoint, FALSE),
               IF channels[c].pending_client = t
               THEN LeaveKernel(t, restored, t, status)
               ELSE LeaveKernel(t, SetCurrentThread(WokenClient(restored, channels[c].pending_client,
                                                                status),
                                                    t, channels[c].pending_client),
                                channels[c].pending_client, "OK")
        PROVE  DInv' /\ ContractStep
    <2> DEFINE e == channels[c].endpoint
               ch == CancelledCall(channels[c])
    <2>1. c \in PendingOn(t)
      BY <1>3 DEF First
    <2>2. c \in Channels /\ Occupied(c) /\ e \in Endpoints /\ Pending(c)
      BY <1>1, <2>1, PendingOnRunning DEF Pending
    <2>3. channels[c].pending_client # t
      BY <1>1, <2>2, WhileRunning
    <2>4. endpoints \in [Endpoints -> Endpoint]
      BY <1>1 DEF IInv, TypeOK
    <2>5. \A f \in Endpoints : endpoints'[f].in_use =>
             endpoints[f].in_use /\ endpoints'[f].owner = endpoints[f].owner
      BY <1>3, <2>2, <2>4, SetBusyKeepsOwners
    <2>6. ch.client = channels[c].client /\ channels' = [channels EXCEPT ![c] = ch]
      BY <1>3 DEF CancelledCall, NewChannel
    <2> HIDE DEF ch
    <2>7. RolesKept'
      BY <2>2, <2>5, <2>6, RolesOfCallKept
    <2>8. LeaveKernel(t, SetCurrentThread(WokenClient(restored, channels[c].pending_client, status),
                                          t, channels[c].pending_client),
                      channels[c].pending_client, "OK")
      BY <1>3, <2>3
    <2>9. QED
      BY <1>1, <1>3, <2>1, <2>7, <2>8, CompleteStep
  <1>4. QED
    BY <1>2, <1>3 DEF RpcComplete

-----------------------------------------------------------------------------
(* The deployment *)

\* The kernel starts the initial thread in its main flow, with no call pending.
LEMMA InitDInv == Init => DInv /\ Contract!RRInit
  <1> SUFFICES ASSUME Init PROVE DInv /\ Contract!RRInit
    OBVIOUS
  <1> DEFINE fresh == [t \in Threads |-> NewThread]
  <1>1. IInv /\ InitialThread \in Threads /\ current = InitialThread /\ outcome = "running"
    BY InitIInv, UserRuntimeAssumption DEF Init
  <1>2. /\ fresh \in ThreadTable
        /\ \A u \in Threads : RestsInMain(fresh[u]) /\ fresh[u].state = "READY"
    BY DEF NewThread, ThreadTable, Thread, ThreadState, Context, ResumeState, Activation,
           Register, Status, KernelStatus, RestsInMain
  <1>3. threads = SetCurrentThread(fresh, NoThread, InitialThread)
    BY DEF Init
  <1> HIDE DEF fresh
  <1>4. threads = SetState(fresh, InitialThread, "RUNNING")
    BY <1>1, <1>2, <1>3 DEF SetCurrentThread
  <1>5. SameFlow(fresh, threads) /\ \A u \in Threads : threads[u].state # "EXITED"
    <2>1. "RUNNING" \in ThreadState
      BY DEF ThreadState
    <2>2. /\ SameFlow(fresh, threads)
          /\ \A u \in Threads : threads[u].state = IF u = InitialThread THEN "RUNNING" ELSE fresh[u].state
      BY <1>1, <1>2, <1>4, <2>1, SetStateFlow, SetStateEffect
    <2>3. QED
      BY <1>2, <2>2
  <1>6. \A u \in Threads : RestsInMain(threads[u])
    BY <1>2, <1>5 DEF SameFlow, RestsInMain
  <1>7. user.at = Main
    <2>1. user = LoadFrame(threads, InitialThread) /\ threads \in ThreadTable
      BY <1>1 DEF Init, IInv, TypeOK, ThreadTable
    <2>2. QED
      BY <1>1, <1>6, <2>1, LoadFrameFlow DEF RestsInMain
  <1>8. /\ \A c \in Channels : ~Occupied(c) /\ ~Pending(c) /\ ~Crossing(c)
        /\ \A e \in Endpoints : ~endpoints[e].in_use
    BY DEF Init, Occupied, Pending, Crossing, ClearedEndpoint
  <1>9. RolesKept /\ ServerOfBlockedClientRuns /\ OthersRestInMain /\ ParksOnlyWhenAllExited
    BY <1>1, <1>6, <1>8 DEF RolesKept, ServerOfBlockedClientRuns, OthersRestInMain,
                            ParksOnlyWhenAllExited
  <1>10. CallbackExactlyWhileServing
    BY <1>7, <1>8 DEF CallbackExactlyWhileServing, PendingOn
  <1>11. Waits = {}
    BY <1>8 DEF Waits
  <1>12. Contract!RRInit
    BY <1>1, <1>5, <1>11 DEF Contract!RRInit
  <1>13. QED
    BY <1>1, <1>9, <1>10, <1>12 DEF DInv

\* Every step of the runtime keeps the invariant, and is a step of the contract or
\* one that the contract does not see.
LEMMA NextStep == DInv /\ [Next]_vars => DInv' /\ ContractStep
  <1> SUFFICES ASSUME DInv, [Next]_vars PROVE DInv' /\ ContractStep
    OBVIOUS
  <1>1. IInv /\ IInv'
    BY NextKeepsIInv DEF DInv
  <1>2. ASSUME NEW t \in Threads, DebugLog(t) PROVE DInv' /\ ContractStep
    BY <1>1, <1>2, AnswerStep, StatusFacts DEF DebugLog, StringErrors, KernelStatus
  <1>3. ASSUME NEW t \in Threads, OtherSyscall(t) PROVE DInv' /\ ContractStep
    BY <1>1, <1>3, AnswerStep, StatusFacts DEF OtherSyscall, KernelStatus
  <1>4. ASSUME NEW t \in Threads, ThreadExit(t) PROVE DInv' /\ ContractStep
    <2> DEFINE tt == Trapped(t, Address)
               context == [at |-> user.at, argument0 |-> Address]
    <2>1. Executes(t) /\ Terminate(t, tt, "PEER_CLOSED") /\ "PEER_CLOSED" \in Status
      BY <1>4, StatusFacts DEF ThreadExit, KernelStatus
    <2>2. tt \in ThreadTable /\ SameStates(threads, tt)
      BY <1>1, TrappedEffect, StatusFacts DEF IInv
    <2>3. tt = SetUserContext(threads, t, context) /\ threads \in ThreadTable /\ context \in Context
      BY <1>1, StatusFacts DEF Trapped, IInv, TypeOK, UserFrame, Context, ThreadTable
    <2> HIDE DEF tt, context
    <2>4. OnlyTouches(t, threads, tt)
      BY <2>3, SetUserContextFlow
    <2>5. QED
      BY <1>1, <2>1, <2>2, <2>4, TerminateStep
  <1>5. ASSUME NEW t \in Threads, EmulatorGuestFault(t) PROVE DInv' /\ ContractStep
    <2>1. PICK failure \in {"FAULT", "NOT_SUPPORTED"} : Executes(t) /\ Terminate(t, threads, failure)
      BY <1>5 DEF EmulatorGuestFault
    <2>2. /\ threads \in ThreadTable /\ SameStates(threads, threads) /\ failure \in Status
          /\ OnlyTouches(t, threads, threads)
      BY <1>1 DEF IInv, TypeOK, ThreadTable, SameStates, Status, KernelStatus, OnlyTouches
    <2>3. QED
      BY <1>1, <2>1, <2>2, TerminateStep
  <1>6. ASSUME NEW t \in Threads, KernelPanic(t) PROVE DInv' /\ ContractStep
    <2>1. outcome' = "panic" /\ UNCHANGED <<threads, current, endpoints, channels, user>>
      BY <1>6 DEF KernelPanic
    <2>2. RolesKept' /\ Waits' = Waits
      BY <2>1 DEF DInv, RolesKept, Occupied, Waits, Crossing, Pending
    <2>3. DInv'
      BY <1>1, <2>1, <2>2 DEF DInv, ServerOfBlockedClientRuns, CallbackExactlyWhileServing,
                              OthersRestInMain, ParksOnlyWhenAllExited
    <2>4. UNCHANGED Contract!contract
      BY <2>1, <2>2 DEF Contract!contract
    <2>5. QED
      BY <2>3, <2>4 DEF ContractStep
  <1>7. CASE Spin \/ UNCHANGED vars
    <2>1. UNCHANGED <<threads, current, endpoints, channels, user, outcome>>
      BY <1>7 DEF Spin, vars
    <2>2. RolesKept' /\ Waits' = Waits
      BY <2>1 DEF DInv, RolesKept, Occupied, Waits, Crossing, Pending
    <2>3. ServerOfBlockedClientRuns' /\ OthersRestInMain'
      BY <2>1 DEF DInv, ServerOfBlockedClientRuns, OthersRestInMain, Crossing, Pending, Occupied
    <2>4. CallbackExactlyWhileServing' /\ ParksOnlyWhenAllExited'
      BY <2>1 DEF DInv, CallbackExactlyWhileServing, ParksOnlyWhenAllExited, PendingOn, Occupied
    <2>5. UNCHANGED Contract!contract
      BY <2>1, <2>2 DEF Contract!contract
    <2>6. QED
      BY <1>1, <2>2, <2>3, <2>4, <2>5 DEF DInv, ContractStep
  <1>8. QED
    BY <1>1, <1>2, <1>3, <1>4, <1>5, <1>6, <1>7, RpcRegisterStep, RpcOpenStep, RpcCallStep,
       RpcCloseStep, RpcCompleteStep DEF Next

\* Separate roles are enough for the deployment's invariant, whatever the number of
\* services, applications, names and slots.
THEOREM DeploymentInvariance == Spec => []DInv
  BY InitDInv, NextStep, PTL DEF Spec

\* While a client waits its server runs the callback, no second call is pending, and
\* user code is in a callback exactly then (RPC_CALL, RPC_COMPLETE, thread exit).
THEOREM CallbacksCorrect == Spec => []CallbacksMatchCalls
  <1>1. DInv => CallbacksMatchCalls
    BY DEF DInv, CallbacksMatchCalls
  <1>2. QED
    BY <1>1, DeploymentInvariance, PTL

\* The kernel parks only when every thread has exited (has_runnable_thread): no
\* deployment with separate roles strands a client or a thread that could run.
THEOREM ParkingCorrect == Spec => []ParksOnlyWhenAllExited
  <1>1. DInv => ParksOnlyWhenAllExited
    BY DEF DInv
  <1>2. QED
    BY <1>1, DeploymentInvariance, PTL

\* The runtime implements the synchronous request-reply contract of the ABI: the
\* clients that wait, the servers they wait for and the thread that holds the CPU
\* move by requests, replies, yields and exits of the contract only.
THEOREM RefinementCorrect == Spec => ImplementsRequestReply
  <1>1. Init => Contract!RRInit
    BY InitDInv
  <1>2. DInv /\ [Next]_vars => [Contract!RRNext]_(Contract!contract)
    BY NextStep DEF ContractStep
  <1>3. QED
    BY <1>1, <1>2, DeploymentInvariance, PTL DEF Spec, ImplementsRequestReply, Contract!RRSpec
=============================================================================
