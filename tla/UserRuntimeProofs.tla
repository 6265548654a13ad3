-------------------------- MODULE UserRuntimeProofs --------------------------
(***************************************************************************)
(* Machine-checked proofs that the invariants of UserRuntime hold for any  *)
(* number of threads, names, endpoint slots and channel slots, any mix of  *)
(* execution backends the kernel allows, and any programs.                 *)
(***************************************************************************)
EXTENDS UserRuntime, TLAPS

ThreadTable == [Threads -> Thread]

-----------------------------------------------------------------------------
(* What the operators of ThreadContext return *)

\* The null pointer is not a thread.
LEMMA NoThreadIsNoThread == NoThread \notin Threads
  BY ThreadContextAssumption DEF NoThread, Threads

\* The states recorded in tt and uu agree.
SameStates(tt, uu) == \A u \in Threads : uu[u].state = tt[u].state

\* Replacing a thread's record by one in the same state.
LEMMA OneThreadReplaced ==
    ASSUME NEW tt \in ThreadTable, NEW t \in Threads, NEW new \in Thread, new.state = tt[t].state
    PROVE  /\ [tt EXCEPT ![t] = new] \in ThreadTable
           /\ SameStates(tt, [tt EXCEPT ![t] = new])
  BY DEF ThreadTable, SameStates

\* set_user_context changes the context and the resume state only.
LEMMA SetUserContextEffect ==
    ASSUME NEW tt \in ThreadTable, NEW t \in Threads, NEW context \in Context
    PROVE  /\ SetUserContext(tt, t, context) \in ThreadTable
           /\ SameStates(tt, SetUserContext(tt, t, context))
  <1> DEFINE th == [tt[t] EXCEPT !.context = context]
             resume == SyncedResume(th)
             new == [th EXCEPT !.resume = resume]
  <1>1. SetUserContext(tt, t, context) = [tt EXCEPT ![t] = new]
    BY DEF SetUserContext
  <1>2. th \in Thread /\ th.state = tt[t].state
    BY DEF ThreadTable, Thread
  <1> HIDE DEF th
  <1>3. resume \in ResumeState
    BY <1>2 DEF SyncedResume, Thread, Context, ResumeState
  <1> HIDE DEF resume
  <1>4. new \in Thread /\ new.state = tt[t].state
    BY <1>2, <1>3 DEF Thread
  <1> HIDE DEF new
  <1>5. QED
    BY <1>1, <1>4, OneThreadReplaced

\* prepare_syscall_resume changes the pending status and the resume state only.
LEMMA PrepareSyscallResumeEffect ==
    ASSUME NEW tt \in ThreadTable, NEW t \in Threads, NEW status \in Status
    PROVE  /\ PrepareSyscallResume(tt, t, status) \in ThreadTable
           /\ SameStates(tt, PrepareSyscallResume(tt, t, status))
  <1> DEFINE th == [tt[t] EXCEPT !.pending_status = status]
             synced == SyncedResume(th)
             resume == IF Backend[t] = "x64_native" THEN synced
                       ELSE [synced EXCEPT !.argument0 = status]
             new == [th EXCEPT !.resume = resume]
  <1>1. PrepareSyscallResume(tt, t, status) = [tt EXCEPT ![t] = new]
    BY DEF PrepareSyscallResume
  <1>2. th \in Thread /\ th.state = tt[t].state
    BY DEF ThreadTable, Thread
  <1> HIDE DEF th
  <1>3. synced \in ResumeState
    BY <1>2 DEF SyncedResume, Thread, Context, ResumeState
  <1> HIDE DEF synced
  <1>4. resume \in ResumeState
    BY <1>3 DEF ResumeState, Register
  <1> HIDE DEF resume
  <1>5. new \in Thread /\ new.state = tt[t].state
    BY <1>2, <1>4 DEF Thread
  <1> HIDE DEF new
  <1>6. QED
    BY <1>1, <1>5, OneThreadReplaced

\* prepare_rpc_resume changes the resume state only.
LEMMA PrepareRpcResumeEffect ==
    ASSUME NEW tt \in ThreadTable, NEW t \in Threads, NEW callback \in Names
    PROVE  /\ PrepareRpcResume(tt, t, callback) \in ThreadTable
           /\ SameStates(tt, PrepareRpcResume(tt, t, callback))
  BY DEF PrepareRpcResume, ThreadTable, SameStates, Thread, ResumeState, Register, Status,
         KernelStatus, Activation

\* set_state changes one state.
LEMMA SetStateEffect ==
    ASSUME NEW tt \in ThreadTable, NEW t \in Threads, NEW state \in ThreadState
    PROVE  /\ SetState(tt, t, state) \in ThreadTable
           /\ \A u \in Threads :
                SetState(tt, t, state)[u].state = IF u = t THEN state ELSE tt[u].state
  BY DEF SetState, ThreadTable, Thread

\* set_current_thread: the displaced thread becomes ready, a ready successor runs.
LEMMA SetCurrentThreadEffect ==
    ASSUME NEW tt \in ThreadTable, NEW old \in Threads \cup {NoThread}, NEW new \in Threads
    PROVE  /\ SetCurrentThread(tt, old, new) \in ThreadTable
           /\ \A u \in Threads : SetCurrentThread(tt, old, new)[u].state =
                IF u = new THEN IF tt[new].state = "READY" THEN "RUNNING" ELSE tt[new].state
                ELSE IF u = old /\ tt[u].state = "RUNNING" THEN "READY" ELSE tt[u].state
  <1> DEFINE displaced == IF old # NoThread /\ old # new /\ tt[old].state = "RUNNING"
                          THEN SetState(tt, old, "READY") ELSE tt
  <1>1. /\ displaced \in ThreadTable
        /\ \A u \in Threads : displaced[u].state =
              IF u = old /\ old # new /\ tt[u].state = "RUNNING" THEN "READY" ELSE tt[u].state
    <2>1. CASE old # NoThread /\ old # new /\ tt[old].state = "RUNNING"
      <3>1. old \in Threads /\ displaced = SetState(tt, old, "READY")
        BY <2>1
      <3>2. /\ SetState(tt, old, "READY") \in ThreadTable
            /\ \A u \in Threads : SetState(tt, old, "READY")[u].state =
                  IF u = old THEN "READY" ELSE tt[u].state
        BY <3>1, SetStateEffect DEF ThreadState
      <3> HIDE DEF displaced
      <3>3. QED
        BY <2>1, <3>1, <3>2
    <2>2. CASE ~(old # NoThread /\ old # new /\ tt[old].state = "RUNNING")
      BY <2>2, NoThreadIsNoThread
    <2>3. QED
      BY <2>1, <2>2
  <1>2. SetCurrentThread(tt, old, new) = IF displaced[new].state = "READY"
                                         THEN SetState(displaced, new, "RUNNING") ELSE displaced
    BY DEF SetCurrentThread
  <1> HIDE DEF displaced
  <1>3. CASE displaced[new].state = "READY"
    <2>1. /\ SetState(displaced, new, "RUNNING") \in ThreadTable
          /\ \A u \in Threads : SetState(displaced, new, "RUNNING")[u].state =
                IF u = new THEN "RUNNING" ELSE displaced[u].state
      BY <1>1, SetStateEffect DEF ThreadState
    <2>2. QED
      BY <1>1, <1>2, <1>3, <2>1
  <1>4. CASE displaced[new].state # "READY"
    BY <1>1, <1>2, <1>4
  <1>5. QED
    BY <1>3, <1>4

\* The frame loaded for a thread.
LEMMA LoadFrameType ==
    ASSUME NEW tt \in ThreadTable, NEW t \in Threads
    PROVE  LoadFrame(tt, t) \in UserFrame
  <1>1. tt[t].resume \in ResumeState
    BY DEF ThreadTable, Thread
  <1>2. \A r \in ResumeState : /\ LoadX64Frame(r) \in UserFrame
                               /\ LoadArm64Frame(r) \in UserFrame
                               /\ LoadEmulatorState(r) \in UserFrame
    BY DEF LoadX64Frame, LoadArm64Frame, LoadEmulatorState, ResumeState, UserFrame, Register
  <1>3. Backend[t] \in {"x64_native", "arm64_native", "x64_emulator"}
    BY ThreadContextAssumption DEF Backends
  <1>4. QED
    BY <1>1, <1>2, <1>3 DEF LoadFrame

\* Leaving the kernel makes cur current, changes no thread's state, and goes on
\* with user code exactly when cur can run.
LEMMA LeaveKernelEffect ==
    ASSUME NEW tt \in ThreadTable, NEW active \in Threads, NEW cur \in Threads \cup {NoThread},
           NEW status \in Status, user \in UserFrame, LeaveKernel(active, tt, cur, status)
    PROVE  /\ threads' \in ThreadTable
           /\ SameStates(tt, threads')
           /\ current' = cur
           /\ user' \in UserFrame
           /\ outcome' \in {"running", "parked"}
           /\ outcome' = "running" <=> Runnable(tt, cur)
  <1> DEFINE returned == Returned(active, tt, cur, status)
  <1>1. returned \in ThreadTable /\ SameStates(tt, returned)
    BY PrepareSyscallResumeEffect DEF SameStates, Returned
  <1>2. CASE Runnable(tt, cur)
    <2>1. threads' = returned /\ outcome' = "running" /\ current' = cur
      BY <1>2 DEF LeaveKernel
    <2>2. user' = IF cur = active /\ Backend[active] = "x64_emulator"
                  THEN [at |-> user.at, kind |-> "SYSCALL", ret |-> status]
                  ELSE LoadFrame(returned, cur)
      BY <1>2 DEF LeaveKernel, ResumedFrame
    <2>3. cur \in Threads
      BY <1>2 DEF Runnable
    <2> HIDE DEF returned
    <2>4. user' \in UserFrame
      BY <1>1, <2>2, <2>3, LoadFrameType DEF UserFrame, Register
    <2>5. QED
      BY <1>1, <1>2, <2>1, <2>4
  <1>3. CASE ~Runnable(tt, cur)
    BY <1>3 DEF LeaveKernel, SameStates
  <1>4. QED
    BY <1>2, <1>3
-----------------------------------------------------------------------------
(* The inductive invariant *)

IInv ==
    /\ TypeOK
    /\ OneThreadRuns
    /\ BlockedExactlyWhileCalling
    /\ BusyExactlyWhileServing
    /\ NamesLeadToLiveOwners
    /\ SavedStateRestorable

\* Initially nobody is registered and nothing is pending.
LEMMA InitIInv == Init => IInv
  <1> SUFFICES ASSUME Init PROVE IInv
    OBVIOUS
  <1> USE UserRuntimeAssumption
  <1> DEFINE fresh == [t \in Threads |-> NewThread]
  <1>1. fresh \in ThreadTable /\ \A u \in Threads : fresh[u].state = "READY"
    BY DEF NewThread, ThreadTable, Thread, ThreadState, Context, ResumeState, Activation,
           Register, Status, KernelStatus
  <1>2. threads = SetCurrentThread(fresh, NoThread, InitialThread)
    BY DEF Init
  <1> HIDE DEF fresh
  <1>3. /\ threads \in ThreadTable
        /\ \A u \in Threads : threads[u].state = IF u = InitialThread THEN "RUNNING" ELSE "READY"
    <2>1. NoThread \in Threads \cup {NoThread} /\ InitialThread \in Threads
      OBVIOUS
    <2>2. /\ SetCurrentThread(fresh, NoThread, InitialThread) \in ThreadTable
          /\ \A u \in Threads : SetCurrentThread(fresh, NoThread, InitialThread)[u].state =
                IF u = InitialThread
                THEN IF fresh[InitialThread].state = "READY" THEN "RUNNING"
                     ELSE fresh[InitialThread].state
                ELSE IF u = NoThread /\ fresh[u].state = "RUNNING" THEN "READY" ELSE fresh[u].state
      BY <1>1, <2>1, SetCurrentThreadEffect
    <2>3. QED
      BY <1>1, <1>2, <2>1, <2>2, NoThreadIsNoThread
  <1>4. user \in UserFrame
    BY <1>3, LoadFrameType DEF Init
  <1>5. \A c \in Channels : ~Occupied(c)
    BY DEF Init, Occupied
  <1>6. TypeOK
    BY <1>3, <1>4, <1>5 DEF Init, TypeOK, ThreadTable, Endpoint, ClearedEndpoint
  <1>7. OneThreadRuns
    BY <1>3 DEF Init, OneThreadRuns
  <1>8. BlockedExactlyWhileCalling
    BY <1>3, <1>5 DEF BlockedExactlyWhileCalling, WaitsFor, Crossing, Pending
  <1>9. BusyExactlyWhileServing
    BY <1>5 DEF Init, BusyExactlyWhileServing, Served, Pending, ClearedEndpoint
  <1>10. NamesLeadToLiveOwners
    BY DEF Init, NamesLeadToLiveOwners, ClearedEndpoint
  <1>11. SavedStateRestorable
    BY <1>5 DEF SavedStateRestorable, Served, Pending
  <1>12. QED
    BY <1>6, <1>7, <1>8, <1>9, <1>10, <1>11 DEF IInv

-----------------------------------------------------------------------------
(* Steps that leave endpoints and channels alone *)

\* Recording the trapped context is type correct and changes no state.
LEMMA TrappedEffect ==
    ASSUME TypeOK, NEW t \in Threads, NEW argument0 \in Register
    PROVE  Trapped(t, argument0) \in ThreadTable /\ SameStates(threads, Trapped(t, argument0))
  <1>1. threads \in ThreadTable /\ [at |-> user.at, argument0 |-> argument0] \in Context
    BY DEF TypeOK, ThreadTable, UserFrame, Context
  <1>2. QED
    BY <1>1, SetUserContextEffect DEF Trapped

\* Values the syscalls use.
LEMMA StatusFacts ==
    /\ Address \in Register
    /\ KernelStatus \subseteq Status
    /\ Status \subseteq Register
    /\ Replies \subseteq Status
  BY DEF Address, Register, Status

\* A step that moves no thread between the states BLOCKED, EXITED and the rest, and
\* leaves channels and the current thread's execution alone, keeps the call tables.
LEMMA CallsKept ==
    ASSUME IInv, UNCHANGED channels,
           \A u \in Threads : threads'[u].state = "BLOCKED" <=> threads[u].state = "BLOCKED",
           \A u \in Threads : threads'[u].state = "EXITED" <=> threads[u].state = "EXITED",
           outcome = "running"
    PROVE  /\ BlockedExactlyWhileCalling'
           /\ SavedStateRestorable'
           /\ \A c \in Channels : Served(c)' <=> Served(c)
  <1>1. \A c \in Channels : /\ Occupied(c)' <=> Occupied(c)
                            /\ Pending(c)' <=> Pending(c)
                            /\ Crossing(c)' <=> Crossing(c)
    BY DEF Occupied, Pending, Crossing
  <1>2. \A c \in Channels : Pending(c) => channels[c].pending_server \in Threads
    BY DEF IInv, TypeOK, Pending, Occupied, Channel
  <1>3. \A c \in Channels : Served(c)' <=> Served(c)
    BY <1>1, <1>2 DEF Served
  <1>4. BlockedExactlyWhileCalling'
    BY <1>1 DEF IInv, BlockedExactlyWhileCalling, WaitsFor
  <1>5. SavedStateRestorable'
    BY <1>1, <1>3 DEF IInv, SavedStateRestorable
  <1>6. QED
    BY <1>3, <1>4, <1>5

\* A handler that changes nothing keeps the invariant.
LEMMA AnswerKeepsIInv ==
    ASSUME IInv, NEW t \in Threads, Executes(t), NEW argument0 \in Register,
           NEW status \in Status, Answer(t, argument0, status)
    PROVE  IInv'
  <1> DEFINE tt == Trapped(t, argument0)
  <1>1. tt \in ThreadTable /\ SameStates(threads, tt)
    BY TrappedEffect DEF IInv
  <1>2. LeaveKernel(t, tt, t, status) /\ UNCHANGED <<endpoints, channels>>
    BY DEF Answer, objects
  <1> HIDE DEF tt
  <1>3. /\ threads' \in ThreadTable
        /\ SameStates(tt, threads')
        /\ current' = t
        /\ user' \in UserFrame
        /\ outcome' \in {"running", "parked"}
        /\ outcome' = "running" <=> Runnable(tt, t)
    BY <1>1, <1>2, LeaveKernelEffect DEF IInv, TypeOK
  <1>4. \A u \in Threads : threads'[u].state = threads[u].state
    BY <1>1, <1>3 DEF SameStates
  <1>5. threads[t].state = "RUNNING" /\ current = t /\ outcome = "running"
    BY DEF Executes, IInv, OneThreadRuns
  <1>6. outcome' = "running"
    BY <1>1, <1>3, <1>5, NoThreadIsNoThread DEF Runnable, SameStates
  <1>7. TypeOK'
    BY <1>2, <1>3, <1>6 DEF IInv, TypeOK, ThreadTable, Occupied
  <1>8. OneThreadRuns'
    BY <1>3, <1>4, <1>5 DEF IInv, OneThreadRuns
  <1>9. /\ BlockedExactlyWhileCalling'
        /\ SavedStateRestorable'
        /\ \A c \in Channels : Served(c)' <=> Served(c)
    BY <1>2, <1>4, <1>5, CallsKept
  <1>10. BusyExactlyWhileServing'
    BY <1>2, <1>9 DEF IInv, BusyExactlyWhileServing
  <1>11. NamesLeadToLiveOwners'
    BY <1>2, <1>4 DEF IInv, NamesLeadToLiveOwners
  <1>12. QED
    BY <1>7, <1>8, <1>9, <1>10, <1>11 DEF IInv
-----------------------------------------------------------------------------
(* Handing the CPU over *)

\* Leaving the kernel into another thread: next runs if it was ready, and the
\* thread it displaces becomes ready if it was running.
LEMMA SwitchEffect ==
    ASSUME NEW tt \in ThreadTable, NEW t \in Threads, NEW next \in Threads, t # next,
           user \in UserFrame,
           LeaveKernel(t, SetCurrentThread(tt, t, next), next, "OK")
    PROVE  /\ threads' \in ThreadTable
           /\ current' = next
           /\ user' \in UserFrame
           /\ outcome' \in {"running", "parked"}
           /\ outcome' = "running" <=> tt[next].state \notin {"BLOCKED", "EXITED"}
           /\ \A u \in Threads : threads'[u].state =
                IF u = next THEN IF tt[next].state = "READY" THEN "RUNNING" ELSE tt[next].state
                ELSE IF u = t /\ tt[u].state = "RUNNING" THEN "READY" ELSE tt[u].state
  <1> DEFINE uu == SetCurrentThread(tt, t, next)
  <1>1. /\ uu \in ThreadTable
        /\ \A u \in Threads : uu[u].state =
              IF u = next THEN IF tt[next].state = "READY" THEN "RUNNING" ELSE tt[next].state
              ELSE IF u = t /\ tt[u].state = "RUNNING" THEN "READY" ELSE tt[u].state
    <2>1. t \in Threads \cup {NoThread}
      OBVIOUS
    <2>2. QED
      BY <2>1, SetCurrentThreadEffect
  <1>2. LeaveKernel(t, uu, next, "OK")
    OBVIOUS
  <1>3. "OK" \in Status /\ next \in Threads \cup {NoThread}
    BY DEF Status, KernelStatus
  <1> HIDE DEF uu
  <1>4. /\ threads' \in ThreadTable
        /\ SameStates(uu, threads')
        /\ current' = next
        /\ user' \in UserFrame
        /\ outcome' \in {"running", "parked"}
        /\ outcome' = "running" <=> Runnable(uu, next)
    BY <1>1, <1>2, <1>3, LeaveKernelEffect
  <1>5. Runnable(uu, next) <=> tt[next].state \notin {"BLOCKED", "EXITED"}
    BY <1>1, NoThreadIsNoThread DEF Runnable
  <1>6. QED
    BY <1>1, <1>4, <1>5 DEF SameStates

-----------------------------------------------------------------------------
(* RPC_REGISTER *)

\* Filling a free endpoint slot with a new name.
LEMMA EndpointAdded ==
    ASSUME IInv, NEW t \in Threads, Executes(t), NEW name \in Names, NEW e \in FreeEndpoints,
           Named(name) = {},
           endpoints' = [endpoints EXCEPT ![e] =
              [in_use |-> TRUE, busy |-> FALSE, name |-> name, owner |-> t]],
           UNCHANGED channels,
           \A u \in Threads : threads'[u].state = "BLOCKED" <=> threads[u].state = "BLOCKED",
           \A u \in Threads : threads'[u].state = "EXITED" <=> threads[u].state = "EXITED"
    PROVE  /\ endpoints' \in [Endpoints -> Endpoint]
           /\ BlockedExactlyWhileCalling'
           /\ SavedStateRestorable'
           /\ BusyExactlyWhileServing'
           /\ NamesLeadToLiveOwners'
  <1>1. e \in Endpoints /\ ~endpoints[e].in_use /\ ~endpoints[e].busy
    BY DEF FreeEndpoints, IInv, NamesLeadToLiveOwners, ClearedEndpoint
  <1>2. endpoints \in [Endpoints -> Endpoint]
    BY DEF IInv, TypeOK
  <1>3. endpoints' \in [Endpoints -> Endpoint]
    BY <1>1, <1>2 DEF Endpoint
  <1>4. \A d \in Endpoints : endpoints'[d] =
           IF d = e THEN [in_use |-> TRUE, busy |-> FALSE, name |-> name, owner |-> t]
           ELSE endpoints[d]
    BY <1>2
  <1>5. outcome = "running" /\ threads[t].state = "RUNNING"
    BY DEF Executes, IInv, OneThreadRuns
  <1>6. /\ BlockedExactlyWhileCalling'
        /\ SavedStateRestorable'
        /\ \A c \in Channels : Served(c)' <=> Served(c)
    BY <1>5, CallsKept
  <1>7. \A c \in Channels : Served(c) => channels[c].endpoint \in Endpoints /\ channels[c].endpoint # e
    BY <1>1 DEF IInv, TypeOK, BusyExactlyWhileServing, Served, Pending, Occupied, Channel
  <1>8. BusyExactlyWhileServing'
    <2>1. \A d \in Endpoints : endpoints'[d].busy =>
             \E c \in Channels : Served(c)' /\ channels'[c].endpoint = d
      BY <1>4, <1>6 DEF IInv, BusyExactlyWhileServing
    <2>2. \A c \in Channels : Served(c)' =>
             /\ endpoints'[channels'[c].endpoint].busy
             /\ endpoints'[channels'[c].endpoint].owner = channels'[c].pending_server
      BY <1>4, <1>6, <1>7 DEF IInv, BusyExactlyWhileServing
    <2>3. \A c, d \in Channels :
             Served(c)' /\ Served(d)' /\ channels'[c].endpoint = channels'[d].endpoint => c = d
      BY <1>6 DEF IInv, BusyExactlyWhileServing
    <2>4. QED
      BY <2>1, <2>2, <2>3 DEF BusyExactlyWhileServing
  <1>9. NamesLeadToLiveOwners'
    <2>1. \A d \in Endpoints : endpoints[d].in_use => endpoints[d].name # name
      BY DEF Named
    <2>2. threads'[t].state # "EXITED"
      BY <1>5
    <2>3. ASSUME NEW d \in Endpoints
          PROVE  IF endpoints'[d].in_use
                 THEN /\ endpoints'[d].owner \in Threads
                      /\ endpoints'[d].name \in Names
                      /\ threads'[endpoints'[d].owner].state # "EXITED"
                 ELSE endpoints'[d] = ClearedEndpoint
      BY <1>4, <2>2 DEF IInv, NamesLeadToLiveOwners
    <2>4. ASSUME NEW c \in Endpoints, NEW d \in Endpoints,
                 endpoints'[c].in_use, endpoints'[d].in_use, endpoints'[c].name = endpoints'[d].name
          PROVE  c = d
      BY <1>4, <2>1, <2>4 DEF IInv, NamesLeadToLiveOwners
    <2>5. QED
      BY <2>3, <2>4 DEF NamesLeadToLiveOwners
  <1>10. QED
    BY <1>3, <1>6, <1>8, <1>9

\* Every outcome of RPC_REGISTER keeps the invariant.
LEMMA RpcRegisterKeepsIInv ==
    ASSUME IInv, NEW t \in Threads, RpcRegister(t)
    PROVE  IInv'
  <1> DEFINE tt == Trapped(t, Address)
  <1>1. Executes(t)
    BY DEF RpcRegister
  <1>2. CASE \E status \in ({"INVALID_ARGUMENT"} \cup StringErrors) \cap Mistakes :
                Answer(t, Address, status)
    BY <1>1, <1>2, AnswerKeepsIInv, StatusFacts DEF StringErrors, KernelStatus
  <1>3. CASE Answer(t, Address, "BAD_STATE") \/ Answer(t, Address, "NO_MEMORY")
    BY <1>1, <1>3, AnswerKeepsIInv, StatusFacts DEF KernelStatus
  <1>4. ASSUME NEW name \in MayRegister[t], NEW e \in First(FreeEndpoints), Named(name) = {},
               endpoints' = [endpoints EXCEPT ![e] =
                  [in_use |-> TRUE, busy |-> FALSE, name |-> name, owner |-> t]],
               UNCHANGED channels,
               \/ LeaveKernel(t, tt, t, "OK")
               \/ \E next \in NextReady(tt, t) :
                     LeaveKernel(t, SetCurrentThread(PrepareSyscallResume(tt, t, "OK"), t, next),
                                 next, "OK")
        PROVE  IInv'
    <2>1. name \in Names /\ e \in FreeEndpoints /\ "OK" \in Status
      BY <1>4, UserRuntimeAssumption DEF First, Status, KernelStatus
    <2>2. tt \in ThreadTable /\ SameStates(threads, tt)
      BY TrappedEffect, StatusFacts DEF IInv
    <2>3. threads[t].state = "RUNNING" /\ current = t /\ outcome = "running" /\ user \in UserFrame
      BY <1>1 DEF Executes, IInv, OneThreadRuns, TypeOK
    <2> HIDE DEF tt
    <2> DEFINE Handed ==
          /\ threads' \in ThreadTable
          /\ current' \in Threads
          /\ user' \in UserFrame
          /\ outcome' = "running"
          /\ \A u \in Threads : threads'[u].state = "BLOCKED" <=> threads[u].state = "BLOCKED"
          /\ \A u \in Threads : threads'[u].state = "EXITED" <=> threads[u].state = "EXITED"
          /\ OneThreadRuns'
    <2>4. Handed
      <3>1. CASE LeaveKernel(t, tt, t, "OK")
        <4>1. /\ threads' \in ThreadTable
              /\ SameStates(tt, threads')
              /\ current' = t
              /\ user' \in UserFrame
              /\ outcome' = "running" <=> Runnable(tt, t)
          BY <2>1, <2>2, <2>3, <3>1, LeaveKernelEffect
        <4>2. Runnable(tt, t)
          BY <2>2, <2>3, NoThreadIsNoThread DEF Runnable, SameStates
        <4>3. \A u \in Threads : threads'[u].state = threads[u].state
          BY <2>2, <4>1 DEF SameStates
        <4>4. QED
          BY <2>3, <4>1, <4>2, <4>3 DEF IInv, OneThreadRuns
      <3>2. ASSUME NEW next \in NextReady(tt, t),
                   LeaveKernel(t, SetCurrentThread(PrepareSyscallResume(tt, t, "OK"), t, next),
                               next, "OK")
            PROVE  Handed
        <4> DEFINE uu == PrepareSyscallResume(tt, t, "OK")
        <4>1. uu \in ThreadTable /\ SameStates(tt, uu)
          BY <2>1, <2>2, PrepareSyscallResumeEffect
        <4> HIDE DEF uu
        <4>2. next \in Threads /\ tt[next].state = "READY"
          BY <3>2 DEF NextReady, Ready
        <4>3. \A u \in Threads : uu[u].state = threads[u].state
          BY <2>2, <4>1 DEF SameStates
        <4>4. t # next /\ uu[next].state = "READY"
          BY <2>2, <2>3, <4>1, <4>2 DEF SameStates
        <4>5. LeaveKernel(t, SetCurrentThread(uu, t, next), next, "OK")
          BY <3>2 DEF uu
        <4>6. /\ threads' \in ThreadTable
              /\ current' = next
              /\ user' \in UserFrame
              /\ outcome' \in {"running", "parked"}
              /\ outcome' = "running" <=> uu[next].state \notin {"BLOCKED", "EXITED"}
              /\ \A u \in Threads : threads'[u].state =
                   IF u = next THEN IF uu[next].state = "READY" THEN "RUNNING" ELSE uu[next].state
                   ELSE IF u = t /\ uu[u].state = "RUNNING" THEN "READY" ELSE uu[u].state
          BY <2>3, <4>1, <4>2, <4>4, <4>5, SwitchEffect
        <4>7. QED
          BY <2>3, <4>2, <4>3, <4>4, <4>6 DEF IInv, OneThreadRuns
      <3> HIDE DEF Handed
      <3>3. QED
        BY <1>4, <3>1, <3>2
    <2>5. /\ endpoints' \in [Endpoints -> Endpoint]
          /\ BlockedExactlyWhileCalling'
          /\ SavedStateRestorable'
          /\ BusyExactlyWhileServing'
          /\ NamesLeadToLiveOwners'
      BY <1>1, <1>4, <2>1, <2>4, EndpointAdded
    <2>6. TypeOK'
      BY <1>4, <2>4, <2>5 DEF IInv, TypeOK, ThreadTable, Occupied
    <2>7. QED
      BY <2>4, <2>5, <2>6 DEF IInv
  <1>5. QED
    BY <1>1, <1>2, <1>3, <1>4 DEF RpcRegister
-----------------------------------------------------------------------------
(* RPC_OPEN and RPC_CLOSE *)

\* A channel without a pending call.
Idle(ch) == ch \in Channel /\ ch.pending_client = NoThread /\ ch.pending_server = NoThread

\* A new channel is idle.
LEMMA NewChannelIdle ==
    ASSUME NEW t \in Threads, NEW e \in Endpoints
    PROVE  Idle(NewChannel(t, e))
  BY DEF Idle, NewChannel, NewThread, Channel, Context, Activation, Register, Status, KernelStatus

\* An idle channel is not an empty slot.
LEMMA IdleIsOccupied ==
    ASSUME NEW ch, Idle(ch)
    PROVE  ch # NoChannel
  BY NoThreadIsNoThread DEF Idle, Channel, NoChannel

\* Putting an idle channel, or none, into a slot without a pending call.
LEMMA ChannelReplacedKeepsIInv ==
    ASSUME IInv, NEW t \in Threads, Executes(t), NEW c \in Channels, ~Pending(c),
           NEW ch, ch = NoChannel \/ Idle(ch),
           channels' = [channels EXCEPT ![c] = ch], UNCHANGED endpoints,
           LeaveKernel(t, Trapped(t, Address), t, "OK")
    PROVE  IInv'
  <1> DEFINE tt == Trapped(t, Address)
  <1>1. tt \in ThreadTable /\ SameStates(threads, tt) /\ "OK" \in Status
    BY TrappedEffect, StatusFacts DEF IInv, KernelStatus
  <1>2. threads[t].state = "RUNNING" /\ current = t /\ outcome = "running" /\ user \in UserFrame
    BY DEF Executes, IInv, OneThreadRuns, TypeOK
  <1> HIDE DEF tt
  <1>3. /\ threads' \in ThreadTable
        /\ SameStates(tt, threads')
        /\ current' = t
        /\ user' \in UserFrame
        /\ outcome' = "running" <=> Runnable(tt, t)
    BY <1>1, <1>2, LeaveKernelEffect DEF tt
  <1>4. /\ outcome' = "running"
        /\ \A u \in Threads : threads'[u].state = threads[u].state
    BY <1>1, <1>2, <1>3, NoThreadIsNoThread DEF Runnable, SameStates
  <1>5. channels \in [Channels -> Channel \cup {NoChannel}]
    BY DEF IInv, TypeOK
  <1>6. \A d \in Channels : channels'[d] = IF d = c THEN ch ELSE channels[d]
    BY <1>5
  <1>7. \A d \in Channels :
           /\ Pending(d)' <=> Pending(d)
           /\ Crossing(d)' <=> Crossing(d)
           /\ Pending(d) => channels'[d] = channels[d]
    BY <1>6 DEF Pending, Crossing, Occupied, Idle
  <1>8. \A d \in Channels : Pending(d) => channels[d].pending_server \in Threads
    BY <1>5 DEF Pending, Occupied, Channel
  <1>9. \A d \in Channels : Served(d)' <=> Served(d)
    BY <1>4, <1>7, <1>8 DEF Served
  <1>10. TypeOK'
    BY <1>3, <1>4, <1>5, <1>6 DEF IInv, TypeOK, ThreadTable, Occupied, Idle
  <1>11. OneThreadRuns'
    BY <1>2, <1>3, <1>4 DEF IInv, OneThreadRuns
  <1>12. BlockedExactlyWhileCalling'
    <2>1. \A u, v \in Threads : WaitsFor(u, v)' <=> WaitsFor(u, v)
      BY <1>7 DEF WaitsFor, Crossing
    <2>2. \A u \in Threads :
             threads'[u].state = "BLOCKED" <=> \E v \in Threads : WaitsFor(u, v)'
      BY <1>4, <2>1 DEF IInv, BlockedExactlyWhileCalling
    <2>3. \A b, d \in Channels :
             Crossing(b)' /\ Crossing(d)'
             /\ channels'[b].pending_client = channels'[d].pending_client => b = d
      BY <1>7 DEF IInv, BlockedExactlyWhileCalling, Crossing
    <2>4. QED
      BY <2>2, <2>3 DEF BlockedExactlyWhileCalling
  <1>13. BusyExactlyWhileServing'
    <2>1. \A d \in Channels : Served(d) => channels'[d] = channels[d]
      BY <1>7 DEF Served
    <2>2. QED
      BY <1>9, <2>1 DEF IInv, BusyExactlyWhileServing
  <1>14. NamesLeadToLiveOwners'
    BY <1>4 DEF IInv, NamesLeadToLiveOwners
  <1>15. SavedStateRestorable'
    BY <1>2, <1>7, <1>9 DEF IInv, SavedStateRestorable, Served
  <1>16. QED
    BY <1>10, <1>11, <1>12, <1>13, <1>14, <1>15 DEF IInv

\* Every outcome of RPC_OPEN keeps the invariant.
LEMMA RpcOpenKeepsIInv ==
    ASSUME IInv, NEW t \in Threads, RpcOpen(t)
    PROVE  IInv'
  <1>1. Executes(t)
    BY DEF RpcOpen
  <1>2. CASE \E status \in ({"INVALID_ARGUMENT"} \cup StringErrors) \cap Mistakes :
                Answer(t, Address, status)
    BY <1>1, <1>2, AnswerKeepsIInv, StatusFacts DEF StringErrors, KernelStatus
  <1>3. CASE \E status \in {"NOT_FOUND", "PEER_CLOSED", "NO_MEMORY", "FAULT"} :
                Answer(t, Address, status)
    BY <1>1, <1>3, AnswerKeepsIInv, StatusFacts DEF KernelStatus
  <1>4. ASSUME NEW name \in MayOpen[t], NEW e \in First(Named(name)), NEW c \in First(FreeChannels),
               channels' = [channels EXCEPT ![c] = NewChannel(t, e)],
               LeaveKernel(t, Trapped(t, Address), t, "OK"),
               UNCHANGED endpoints
        PROVE  IInv'
    <2>1. name \in Names /\ e \in Endpoints /\ c \in Channels /\ ~Pending(c)
      BY <1>4, UserRuntimeAssumption DEF First, Named, FreeChannels, Pending
    <2>2. Idle(NewChannel(t, e))
      BY <2>1, NewChannelIdle
    <2>3. QED
      BY <1>1, <1>4, <2>1, <2>2, ChannelReplacedKeepsIInv
  <1>5. QED
    BY <1>1, <1>2, <1>3, <1>4 DEF RpcOpen

\* Every outcome of RPC_CLOSE keeps the invariant.
LEMMA RpcCloseKeepsIInv ==
    ASSUME IInv, NEW t \in Threads, RpcClose(t)
    PROVE  IInv'
  <1>1. Executes(t)
    BY DEF RpcClose
  <1>2. CASE \E status \in HandleErrors \cap Mistakes : Answer(t, Address, status)
    BY <1>1, <1>2, AnswerKeepsIInv, StatusFacts DEF HandleErrors, KernelStatus
  <1>3. CASE Answer(t, Address, "BAD_STATE")
    BY <1>1, <1>3, AnswerKeepsIInv, StatusFacts DEF KernelStatus
  <1>4. ASSUME NEW c \in Owned(t), ~ChannelBusy(channels[c]),
               channels' = [channels EXCEPT ![c] = NoChannel],
               LeaveKernel(t, Trapped(t, Address), t, "OK"),
               UNCHANGED endpoints
        PROVE  IInv'
    <2>1. c \in Channels /\ ~Pending(c)
      BY <1>4 DEF Owned, ChannelBusy, Pending
    <2>2. QED
      BY <1>1, <1>4, <2>1, ChannelReplacedKeepsIInv
  <1>5. QED
    BY <1>1, <1>2, <1>3, <1>4 DEF RpcClose
-----------------------------------------------------------------------------
(* RPC_CALL *)

\* begin_call sets the two threads and what it saves of the server, and nothing else.
LEMMA BeganCallEffect ==
    ASSUME NEW ch \in Channel, NEW client \in Threads, NEW server \in Threads,
           NEW tt \in ThreadTable
    PROVE  LET began == BeganCall(ch, client, server, tt) IN
           /\ began \in Channel
           /\ began.client = ch.client /\ began.endpoint = ch.endpoint
           /\ began.pending_client = client /\ began.pending_server = server
           /\ began.saved_state = tt[server].state
  <1> DEFINE state == tt[server].state
             context == tt[server].context
  <1>1. state \in ThreadState /\ context \in Context
    BY DEF ThreadTable, Thread
  <1>2. BeganCall(ch, client, server, tt) =
           [ch EXCEPT !.pending_client = client, !.pending_server = server,
                      !.saved_state = state, !.saved_context = context]
    BY DEF BeganCall
  <1> HIDE DEF state, context
  <1>3. QED
    BY <1>1, <1>2 DEF Channel, state

\* What an accepted call of t on its channel c does, the guards aside.
CallBegins(t, c, server, prepared) ==
    /\ prepared = PrepareRpcResume(Trapped(t, Address), server, endpoints[channels[c].endpoint].name)
    /\ channels' = [channels EXCEPT ![c] = BeganCall(channels[c], t, server, prepared)]
    /\ endpoints' = SetBusy(endpoints, channels[c].endpoint, TRUE)
    /\ IF server = t
       THEN LeaveKernel(t, prepared, t, "OK")
       ELSE LeaveKernel(t, SetCurrentThread(SetState(prepared, t, "BLOCKED"), t, server),
                        server, "OK")

\* An accepted call: c's client t goes from running to blocked (or calls itself),
\* and the endpoint's owner serves c.
LEMMA CallBegunKeepsIInv ==
    ASSUME IInv, NEW t \in Threads, Executes(t), NEW c \in Owned(t),
           PeerAlive(channels[c].endpoint),
           endpoints[channels[c].endpoint].in_use, ~endpoints[channels[c].endpoint].busy,
           ~ChannelBusy(channels[c]),
           NEW server, server = endpoints[channels[c].endpoint].owner,
           NEW prepared, CallBegins(t, c, server, prepared)
    PROVE  IInv'
  <1> DEFINE e == channels[c].endpoint
  <1>1. /\ c \in Channels /\ channels[c] \in Channel /\ channels[c].client = t
        /\ channels[c] # NoChannel
        /\ channels[c].pending_client = NoThread /\ channels[c].pending_server = NoThread
        /\ e \in Endpoints
    BY DEF Owned, Occupied, IInv, TypeOK, ChannelBusy, Channel
  <1>2. /\ server \in Threads
        /\ threads[server].state # "EXITED"
        /\ endpoints[e].name \in Names
    BY <1>1 DEF PeerAlive, IInv, TypeOK, Endpoint, NamesLeadToLiveOwners
  <1>3. /\ threads[t].state = "RUNNING" /\ current = t /\ outcome = "running"
        /\ user \in UserFrame
        /\ \A u \in Threads : u # t => threads[u].state # "RUNNING"
    BY DEF Executes, IInv, OneThreadRuns, TypeOK
  <1>4. prepared \in ThreadTable /\ \A u \in Threads : prepared[u].state = threads[u].state
    <2>1. Trapped(t, Address) \in ThreadTable /\ SameStates(threads, Trapped(t, Address))
      BY TrappedEffect, StatusFacts DEF IInv
    <2>2. prepared = PrepareRpcResume(Trapped(t, Address), server, endpoints[e].name)
      BY DEF CallBegins
    <2>3. prepared \in ThreadTable /\ SameStates(Trapped(t, Address), prepared)
      BY <1>2, <2>1, <2>2, PrepareRpcResumeEffect
    <2>4. QED
      BY <2>1, <2>3 DEF SameStates
  <1>5. channels \in [Channels -> Channel \cup {NoChannel}] /\ endpoints \in [Endpoints -> Endpoint]
    BY DEF IInv, TypeOK
  <1>6. \A u \in Threads : threads[u] \in Thread /\ prepared[u] \in Thread
    BY <1>4 DEF IInv, TypeOK, ThreadTable
  \* The new state of threads, channels and endpoints
  <1>7. /\ threads' \in ThreadTable
        /\ current' = server
        /\ user' \in UserFrame
        /\ outcome' \in {"running", "parked"}
        /\ outcome' = "running" <=> threads[server].state # "BLOCKED"
        /\ \A u \in Threads : threads'[u].state =
             IF u = server THEN IF threads[u].state = "READY" THEN "RUNNING" ELSE threads[u].state
             ELSE IF u = t THEN "BLOCKED" ELSE threads[u].state
    <2>1. CASE server = t
      <3>1. LeaveKernel(t, prepared, t, "OK") /\ "OK" \in Status
        BY <2>1 DEF CallBegins, Status, KernelStatus
      <3>2. /\ threads' \in ThreadTable
            /\ SameStates(prepared, threads')
            /\ current' = t
            /\ user' \in UserFrame
            /\ outcome' \in {"running", "parked"}
            /\ outcome' = "running" <=> Runnable(prepared, t)
        BY <1>3, <1>4, <3>1, LeaveKernelEffect
      <3>3. QED
        BY <1>3, <1>4, <2>1, <3>2, NoThreadIsNoThread DEF SameStates, Runnable
    <2>2. CASE server # t
      <3> DEFINE blocked == SetState(prepared, t, "BLOCKED")
      <3>1. /\ blocked \in ThreadTable
            /\ \A u \in Threads : blocked[u].state = IF u = t THEN "BLOCKED" ELSE threads[u].state
        <4>1. "BLOCKED" \in ThreadState
          BY DEF ThreadState
        <4>2. /\ blocked \in ThreadTable
              /\ \A u \in Threads : blocked[u].state = IF u = t THEN "BLOCKED" ELSE prepared[u].state
          BY <1>4, <4>1, SetStateEffect
        <4>3. QED
          BY <1>4, <4>2
      <3>2. LeaveKernel(t, SetCurrentThread(blocked, t, server), server, "OK")
        BY <2>2 DEF CallBegins
      <3> HIDE DEF blocked
      <3>3. /\ threads' \in ThreadTable
            /\ current' = server
            /\ user' \in UserFrame
            /\ outcome' \in {"running", "parked"}
            /\ outcome' = "running" <=> blocked[server].state \notin {"BLOCKED", "EXITED"}
            /\ \A u \in Threads : threads'[u].state =
                 IF u = server
                 THEN IF blocked[server].state = "READY" THEN "RUNNING" ELSE blocked[server].state
                 ELSE IF u = t /\ blocked[u].state = "RUNNING" THEN "READY" ELSE blocked[u].state
        BY <1>2, <1>3, <2>2, <3>1, <3>2, SwitchEffect
      <3>4. blocked[server].state = threads[server].state
        BY <1>2, <2>2, <3>1
      <3>5. outcome' = "running" <=> threads[server].state # "BLOCKED"
        BY <1>2, <3>3, <3>4
      <3>6. ASSUME NEW u \in Threads
            PROVE  threads'[u].state =
                     IF u = server
                     THEN IF threads[u].state = "READY" THEN "RUNNING" ELSE threads[u].state
                     ELSE IF u = t THEN "BLOCKED" ELSE threads[u].state
        <4>1. CASE u = server
          BY <3>3, <3>4, <4>1
        <4>2. CASE u # server /\ u = t
          BY <3>1, <3>3, <4>2
        <4>3. CASE u # server /\ u # t
          BY <3>1, <3>3, <4>3
        <4>4. QED
          BY <4>1, <4>2, <4>3
      <3>7. QED
        BY <3>3, <3>5, <3>6
    <2>3. QED
      BY <2>1, <2>2
  <1>8. /\ channels' \in [Channels -> Channel \cup {NoChannel}]
        /\ channels'[c] \in Channel
        /\ channels'[c] # NoChannel
        /\ channels'[c].client = t
        /\ channels'[c].endpoint = e
        /\ channels'[c].pending_client = t
        /\ channels'[c].pending_server = server
        /\ channels'[c].saved_state = threads[server].state
        /\ \A d \in Channels : d # c => channels'[d] = channels[d]
    <2> DEFINE began == BeganCall(channels[c], t, server, prepared)
    <2>1. /\ began \in Channel
          /\ began.client = t /\ began.endpoint = e
          /\ began.pending_client = t /\ began.pending_server = server
          /\ began.saved_state = threads[server].state
      BY <1>1, <1>2, <1>4, BeganCallEffect
    <2>2. channels' = [channels EXCEPT ![c] = began]
      BY DEF CallBegins
    <2> HIDE DEF began
    <2>3. began # NoChannel
      BY <2>1, NoThreadIsNoThread DEF NoChannel
    <2>4. QED
      BY <1>1, <1>5, <2>1, <2>2, <2>3
  <1>9. /\ endpoints' \in [Endpoints -> Endpoint]
        /\ \A d \in Endpoints : d # e => endpoints'[d] = endpoints[d]
        /\ endpoints'[e].busy /\ endpoints'[e].in_use
        /\ endpoints'[e].owner = server /\ endpoints'[e].name = endpoints[e].name
    BY <1>1, <1>2, <1>5 DEF CallBegins, SetBusy, Endpoint
  <1> HIDE DEF e
  \* What it means for the calls
  <1>10. /\ ~Pending(c) /\ Pending(c)'
         /\ Crossing(c)' <=> server # t
         /\ \A d \in Channels : d # c => /\ Pending(d)' <=> Pending(d)
                                         /\ Crossing(d)' <=> Crossing(d)
    BY <1>1, <1>2, <1>8, NoThreadIsNoThread DEF Pending, Crossing, Occupied
  <1>11. \A d \in Channels : Pending(d) => channels[d].pending_server \in Threads
    BY <1>5 DEF Pending, Occupied, Channel
  <1>12. /\ \A u \in Threads : threads'[u].state = "EXITED" <=> threads[u].state = "EXITED"
         /\ \A u \in Threads : threads'[u].state = "BLOCKED" <=>
               threads[u].state = "BLOCKED" \/ (u = t /\ server # t)
    BY <1>2, <1>3, <1>7
  <1>13. /\ Served(c)'
         /\ \A d \in Channels : d # c => (Served(d)' <=> Served(d))
    BY <1>2, <1>8, <1>10, <1>11, <1>12 DEF Served
  <1>14. TypeOK'
    <2>1. ASSUME NEW d \in Channels, Occupied(d)'
          PROVE  /\ channels'[d].pending_client \in {NoThread, channels'[d].client}
                 /\ channels'[d].pending_client = NoThread <=> channels'[d].pending_server = NoThread
      <3>1. CASE d = c
        BY <1>2, <1>8, <3>1, NoThreadIsNoThread
      <3>2. CASE d # c
        BY <1>8, <2>1, <3>2 DEF IInv, TypeOK, Occupied
      <3>3. QED
        BY <3>1, <3>2
    <2>2. /\ current' \in Threads \cup {NoThread}
          /\ outcome' \in {"running", "parked", "panic"}
          /\ threads' \in [Threads -> Thread]
      BY <1>2, <1>7 DEF ThreadTable
    <2>3. QED
      BY <1>7, <1>8, <1>9, <2>1, <2>2 DEF TypeOK
  <1>15. OneThreadRuns'
    BY <1>2, <1>3, <1>6, <1>7 DEF OneThreadRuns, Thread, ThreadState
  <1>16. BlockedExactlyWhileCalling'
    <2>1. \A u, v \in Threads : WaitsFor(u, v)' <=>
             WaitsFor(u, v) \/ (server # t /\ u = t /\ v = server)
      <3>1. ASSUME NEW u \in Threads, NEW v \in Threads, WaitsFor(u, v)'
            PROVE  WaitsFor(u, v) \/ (server # t /\ u = t /\ v = server)
        <4>1. PICK d \in Channels : /\ Crossing(d)'
                                    /\ channels'[d].pending_client = u
                                    /\ channels'[d].pending_server = v
          BY <3>1 DEF WaitsFor
        <4>2. CASE d = c
          BY <1>8, <1>10, <4>1, <4>2
        <4>3. CASE d # c
          BY <1>8, <1>10, <4>1, <4>3 DEF WaitsFor
        <4>4. QED
          BY <4>2, <4>3
      <3>2. ASSUME NEW u \in Threads, NEW v \in Threads, WaitsFor(u, v)
            PROVE  WaitsFor(u, v)'
        <4>1. PICK d \in Channels : /\ Crossing(d)
                                    /\ channels[d].pending_client = u
                                    /\ channels[d].pending_server = v
          BY <3>2 DEF WaitsFor
        <4>2. d # c
          BY <1>10, <4>1 DEF Crossing
        <4>3. Crossing(d)' /\ channels'[d] = channels[d]
          BY <1>8, <1>10, <4>1, <4>2
        <4>4. QED
          BY <4>1, <4>3 DEF WaitsFor
      <3>3. server # t => WaitsFor(t, server)'
        BY <1>1, <1>8, <1>10 DEF WaitsFor
      <3>4. QED
        BY <3>1, <3>2, <3>3
    <2>2. \A u \in Threads :
             threads'[u].state = "BLOCKED" <=> \E v \in Threads : WaitsFor(u, v)'
      BY <1>2, <1>12, <2>1 DEF IInv, BlockedExactlyWhileCalling
    <2>3. \A d \in Channels : Crossing(d) => channels[d].pending_client # t
      <3>1. \A v \in Threads : ~WaitsFor(t, v)
        BY <1>3 DEF IInv, BlockedExactlyWhileCalling
      <3>2. QED
        BY <1>11, <3>1 DEF WaitsFor, Crossing
    <2>4. \A b, d \in Channels :
             Crossing(b)' /\ Crossing(d)'
             /\ channels'[b].pending_client = channels'[d].pending_client => b = d
      BY <1>8, <1>10, <2>3 DEF IInv, BlockedExactlyWhileCalling
    <2>5. QED
      BY <2>2, <2>4 DEF BlockedExactlyWhileCalling
  <1>17. BusyExactlyWhileServing'
    <2>1. \A d \in Channels : Served(d) => channels[d].endpoint # e /\ channels[d].endpoint \in Endpoints
      BY <1>5 DEF e, IInv, BusyExactlyWhileServing, Served, Pending, Occupied, Channel
    <2>2. ASSUME NEW f \in Endpoints, endpoints'[f].busy
          PROVE  \E d \in Channels : Served(d)' /\ channels'[d].endpoint = f
      <3>1. CASE f = e
        BY <1>1, <1>8, <1>13, <3>1
      <3>2. CASE f # e
        <4>1. PICK d \in Channels : Served(d) /\ channels[d].endpoint = f
          BY <1>9, <2>2, <3>2 DEF IInv, BusyExactlyWhileServing
        <4>2. d # c
          BY <1>10, <4>1 DEF Served
        <4>3. QED
          BY <1>8, <1>13, <4>1, <4>2
      <3>3. QED
        BY <3>1, <3>2
    <2>3. ASSUME NEW d \in Channels, Served(d)'
          PROVE  /\ endpoints'[channels'[d].endpoint].busy
                 /\ endpoints'[channels'[d].endpoint].owner = channels'[d].pending_server
      <3>1. CASE d = c
        BY <1>8, <1>9, <3>1
      <3>2. CASE d # c
        <4>1. Served(d) /\ channels'[d] = channels[d]
          BY <1>8, <1>13, <2>3, <3>2
        <4>2. endpoints'[channels[d].endpoint] = endpoints[channels[d].endpoint]
          BY <1>9, <2>1, <4>1
        <4>3. /\ endpoints[channels[d].endpoint].busy
              /\ endpoints[channels[d].endpoint].owner = channels[d].pending_server
          BY <4>1 DEF IInv, BusyExactlyWhileServing
        <4>4. QED
          BY <4>1, <4>2, <4>3
      <3>3. QED
        BY <3>1, <3>2
    <2>4. \A b, d \in Channels :
             Served(b)' /\ Served(d)' /\ channels'[b].endpoint = channels'[d].endpoint => b = d
      BY <1>8, <1>13, <2>1 DEF IInv, BusyExactlyWhileServing
    <2>5. QED
      BY <2>2, <2>3, <2>4 DEF BusyExactlyWhileServing
  <1>18. NamesLeadToLiveOwners'
    <2>1. ASSUME NEW f \in Endpoints
          PROVE  IF endpoints'[f].in_use
                 THEN /\ endpoints'[f].owner \in Threads
                      /\ endpoints'[f].name \in Names
                      /\ threads'[endpoints'[f].owner].state # "EXITED"
                 ELSE endpoints'[f] = ClearedEndpoint
      <3>1. CASE f = e
        BY <1>2, <1>9, <1>12, <3>1
      <3>2. CASE f # e
        <4>1. endpoints'[f] = endpoints[f]
          BY <1>9, <3>2
        <4>2. IF endpoints[f].in_use
              THEN /\ endpoints[f].owner \in Threads
                   /\ endpoints[f].name \in Names
                   /\ threads[endpoints[f].owner].state # "EXITED"
              ELSE endpoints[f] = ClearedEndpoint
          BY DEF IInv, NamesLeadToLiveOwners
        <4>3. QED
          BY <1>12, <4>1, <4>2
      <3>3. QED
        BY <3>1, <3>2
    <2>2. \A f \in Endpoints : /\ endpoints'[f].in_use <=> endpoints[f].in_use
                               /\ endpoints'[f].name = endpoints[f].name
      BY <1>9 DEF e
    <2>3. QED
      BY <2>1, <2>2 DEF IInv, NamesLeadToLiveOwners
  <1>19. SavedStateRestorable'
    <2>1. ASSUME NEW d \in Channels, Served(d)', outcome' = "running"
          PROVE  channels'[d].saved_state = IF Crossing(d)' THEN "READY" ELSE "RUNNING"
      <3>1. CASE d = c
        <4>1. CASE server = t
          BY <1>3, <1>8, <1>10, <3>1, <4>1
        <4>2. CASE server # t
          BY <1>2, <1>3, <1>6, <1>7, <1>8, <1>10, <2>1, <3>1, <4>2 DEF Thread, ThreadState
        <4>3. QED
          BY <4>1, <4>2
      <3>2. CASE d # c
        BY <1>3, <1>8, <1>10, <1>13, <2>1, <3>2 DEF IInv, SavedStateRestorable
      <3>3. QED
        BY <3>1, <3>2
    <2>2. QED
      BY <2>1 DEF SavedStateRestorable
  <1>20. QED
    BY <1>14, <1>15, <1>16, <1>17, <1>18, <1>19 DEF IInv

\* Every outcome of RPC_CALL keeps the invariant.
LEMMA RpcCallKeepsIInv ==
    ASSUME IInv, NEW t \in Threads, RpcCall(t)
    PROVE  IInv'
  <1>1. Executes(t)
    BY DEF RpcCall
  <1>2. CASE \E status \in HandleErrors \cap Mistakes : Answer(t, Address, status)
    BY <1>1, <1>2, AnswerKeepsIInv, StatusFacts DEF HandleErrors, KernelStatus
  <1>3. CASE \E status \in PrepareErrors \cap Mistakes : Answer(t, Address, status)
    BY <1>1, <1>3, AnswerKeepsIInv, StatusFacts DEF PrepareErrors, KernelStatus
  <1>4. CASE Answer(t, Address, "PEER_CLOSED") \/ Answer(t, Address, "WOULD_BLOCK")
    BY <1>1, <1>4, AnswerKeepsIInv, StatusFacts DEF KernelStatus
  <1>5. ASSUME NEW c \in Owned(t), PeerAlive(channels[c].endpoint),
               endpoints[channels[c].endpoint].in_use, ~endpoints[channels[c].endpoint].busy,
               ~ChannelBusy(channels[c]),
               NEW server, server = endpoints[channels[c].endpoint].owner,
               NEW prepared, CallBegins(t, c, server, prepared)
        PROVE  IInv'
    BY <1>1, <1>5, CallBegunKeepsIInv
  <1>6. QED
    BY <1>2, <1>3, <1>4, <1>5 DEF RpcCall, CallBegins
-----------------------------------------------------------------------------
(* The end of a call *)

\* A cancelled call leaves an idle channel.
LEMMA CancelledCallIdle ==
    ASSUME NEW ch \in Channel
    PROVE  Idle(CancelledCall(ch))
  <1>1. ch.client \in Threads /\ ch.endpoint \in Endpoints
    BY DEF Channel
  <1>2. QED
    BY <1>1, NewChannelIdle DEF CancelledCall

\* A call ends and its client is no longer blocked: the other calls stay as they are.
LEMMA CallEnded ==
    ASSUME IInv, NEW c \in Channels, Pending(c), NEW ch, Idle(ch),
           channels' = [channels EXCEPT ![c] = ch],
           Crossing(c) \/ threads[channels[c].pending_client].state # "BLOCKED",
           \A u \in Threads : threads'[u].state = "BLOCKED" <=>
              threads[u].state = "BLOCKED" /\ u # channels[c].pending_client
    PROVE  /\ channels' \in [Channels -> Channel \cup {NoChannel}]
           /\ \A d \in Channels : d # c => channels'[d] = channels[d]
           /\ ~Pending(c)'
           /\ \A d \in Channels : Occupied(d)' =>
                /\ channels'[d].pending_client \in {NoThread, channels'[d].client}
                /\ channels'[d].pending_client = NoThread <=> channels'[d].pending_server = NoThread
           /\ BlockedExactlyWhileCalling'
  <1>1. channels \in [Channels -> Channel \cup {NoChannel}] /\ ch \in Channel
    BY DEF IInv, TypeOK, Idle
  <1>2. channels' \in [Channels -> Channel \cup {NoChannel}]
    BY <1>1
  <1>3. channels'[c] = ch /\ \A d \in Channels : d # c => channels'[d] = channels[d]
    BY <1>1
  <1>4. ~Pending(c)'
    BY <1>3 DEF Pending, Idle
  <1>5. \A d \in Channels : d # c => /\ Occupied(d)' <=> Occupied(d)
                                     /\ Pending(d)' <=> Pending(d)
                                     /\ Crossing(d)' <=> Crossing(d)
    BY <1>3 DEF Pending, Crossing, Occupied
  <1>6. ASSUME NEW d \in Channels, Occupied(d)'
        PROVE  /\ channels'[d].pending_client \in {NoThread, channels'[d].client}
               /\ channels'[d].pending_client = NoThread <=> channels'[d].pending_server = NoThread
    <2>1. CASE d = c
      BY <1>3, <2>1 DEF Idle
    <2>2. CASE d # c
      BY <1>3, <1>5, <1>6, <2>2 DEF IInv, TypeOK
    <2>3. QED
      BY <2>1, <2>2
  <1>7. ASSUME NEW u \in Threads, threads'[u].state = "BLOCKED"
        PROVE  \E v \in Threads : WaitsFor(u, v)'
    <2>1. threads[u].state = "BLOCKED" /\ u # channels[c].pending_client
      BY <1>7
    <2>2. PICK v \in Threads : WaitsFor(u, v)
      BY <2>1 DEF IInv, BlockedExactlyWhileCalling
    <2>3. PICK d \in Channels : /\ Crossing(d)
                                /\ channels[d].pending_client = u
                                /\ channels[d].pending_server = v
      BY <2>2 DEF WaitsFor
    <2>4. d # c
      BY <2>1, <2>3
    <2>5. Crossing(d)' /\ channels'[d] = channels[d]
      BY <1>3, <1>5, <2>3, <2>4
    <2>6. QED
      BY <2>3, <2>5 DEF WaitsFor
  <1>8. ASSUME NEW u \in Threads, NEW v \in Threads, WaitsFor(u, v)'
        PROVE  threads'[u].state = "BLOCKED"
    <2>1. PICK d \in Channels : /\ Crossing(d)'
                                /\ channels'[d].pending_client = u
                                /\ channels'[d].pending_server = v
      BY <1>8 DEF WaitsFor
    <2>2. d # c
      BY <1>4, <2>1 DEF Crossing
    <2>3. /\ Crossing(d)
          /\ channels[d].pending_client = u
          /\ channels[d].pending_server = v
      BY <1>3, <1>5, <2>1, <2>2
    <2>4. WaitsFor(u, v)
      BY <2>3 DEF WaitsFor
    <2>5. threads[u].state = "BLOCKED"
      BY <2>4 DEF IInv, BlockedExactlyWhileCalling
    <2>6. u # channels[c].pending_client
      BY <2>2, <2>3, <2>5 DEF IInv, BlockedExactlyWhileCalling
    <2>7. QED
      BY <2>5, <2>6
  <1>9. ASSUME NEW b \in Channels, NEW d \in Channels, Crossing(b)', Crossing(d)',
               channels'[b].pending_client = channels'[d].pending_client
        PROVE  b = d
    <2>1. b # c /\ d # c
      BY <1>4, <1>9 DEF Crossing
    <2>2. /\ Crossing(b) /\ Crossing(d)
          /\ channels[b].pending_client = channels[d].pending_client
      BY <1>3, <1>5, <1>9, <2>1
    <2>3. QED
      BY <2>2 DEF IInv, BlockedExactlyWhileCalling
  <1>10. BlockedExactlyWhileCalling'
    BY <1>7, <1>8, <1>9 DEF BlockedExactlyWhileCalling
  <1>11. QED
    BY <1>2, <1>3, <1>4, <1>6, <1>10

\* What is known of a call that the running thread serves.
LEMMA PendingOnRunning ==
    ASSUME IInv, NEW t \in Threads, Executes(t), NEW c \in PendingOn(t)
    PROVE  /\ c \in Channels /\ channels[c] \in Channel
           /\ channels[c].pending_server = t
           /\ channels[c].pending_client \in Threads
           /\ channels[c].endpoint \in Endpoints
           /\ Pending(c) /\ Served(c)
           /\ Crossing(c) <=> channels[c].pending_client # t
           /\ endpoints[channels[c].endpoint].owner = t
           /\ channels[c].saved_state = IF channels[c].pending_client = t THEN "RUNNING" ELSE "READY"
           /\ channels[c].pending_client # t => threads[channels[c].pending_client].state = "BLOCKED"
  <1>1. c \in Channels /\ Occupied(c) /\ channels[c].pending_server = t /\ Pending(c)
    BY NoThreadIsNoThread DEF PendingOn, Pending
  <1>2. channels[c] \in Channel
    BY <1>1 DEF Occupied, IInv, TypeOK
  <1>3. /\ channels[c].pending_client \in Threads
        /\ channels[c].endpoint \in Endpoints
        /\ channels[c].saved_context \in Context
    BY <1>1, <1>2, NoThreadIsNoThread DEF IInv, TypeOK, Channel
  <1>4. threads[t].state = "RUNNING" /\ outcome = "running"
    BY DEF Executes, IInv, OneThreadRuns
  <1>5. Served(c)
    BY <1>1, <1>4 DEF Served
  <1>6. Crossing(c) <=> channels[c].pending_client # t
    BY <1>1 DEF Crossing
  <1>7. endpoints[channels[c].endpoint].owner = t
    BY <1>1, <1>5 DEF IInv, BusyExactlyWhileServing
  <1>8. channels[c].saved_state = IF channels[c].pending_client = t THEN "RUNNING" ELSE "READY"
    BY <1>1, <1>4, <1>5, <1>6 DEF IInv, SavedStateRestorable
  <1>9. channels[c].pending_client # t => threads[channels[c].pending_client].state = "BLOCKED"
    BY <1>1, <1>3, <1>6 DEF IInv, BlockedExactlyWhileCalling, WaitsFor
  <1>10. QED
    BY <1>1, <1>2, <1>3, <1>5, <1>6, <1>7, <1>8, <1>9

\* The client that complete_call or fail_pending_call wakes becomes ready.
LEMMA WokenClientEffect ==
    ASSUME NEW tt \in ThreadTable, NEW client \in Threads, NEW status \in Status
    PROVE  /\ WokenClient(tt, client, status) \in ThreadTable
           /\ \A u \in Threads : WokenClient(tt, client, status)[u].state =
                IF u = client THEN "READY" ELSE tt[u].state
  <1> DEFINE ready == SetState(tt, client, "READY")
  <1>1. "READY" \in ThreadState
    BY DEF ThreadState
  <1>2. /\ ready \in ThreadTable
        /\ \A u \in Threads : ready[u].state = IF u = client THEN "READY" ELSE tt[u].state
    BY <1>1, SetStateEffect
  <1>3. WokenClient(tt, client, status) = PrepareSyscallResume(ready, client, status)
    BY DEF WokenClient
  <1> HIDE DEF ready
  <1>4. /\ PrepareSyscallResume(ready, client, status) \in ThreadTable
        /\ SameStates(ready, PrepareSyscallResume(ready, client, status))
    BY <1>2, PrepareSyscallResumeEffect
  <1>5. QED
    BY <1>2, <1>3, <1>4 DEF SameStates
-----------------------------------------------------------------------------
(* RPC_COMPLETE *)

\* The thread states behind a completed call: the client runs, a server that is
\* not its own client is ready again.
LEMMA CompletedStates ==
    ASSUME IInv, NEW t \in Threads, Executes(t), NEW c \in PendingOn(t), NEW status \in Replies,
           NEW restored,
           restored = SetState(SetUserContext(Trapped(t, status), t, channels[c].saved_context),
                               t, channels[c].saved_state),
           IF channels[c].pending_client = t
           THEN LeaveKernel(t, restored, t, status)
           ELSE LeaveKernel(t, SetCurrentThread(WokenClient(restored, channels[c].pending_client, status),
                                                t, channels[c].pending_client),
                            channels[c].pending_client, "OK")
    PROVE  /\ threads' \in ThreadTable
           /\ current' = channels[c].pending_client
           /\ user' \in UserFrame
           /\ outcome' = "running"
           /\ \A u \in Threads : threads'[u].state =
                IF u = channels[c].pending_client THEN "RUNNING"
                ELSE IF u = t THEN "READY" ELSE threads[u].state
  <1> DEFINE client == channels[c].pending_client
             saved == channels[c].saved_state
             context == channels[c].saved_context
             trapped == Trapped(t, status)
             back == SetUserContext(trapped, t, context)
  <1>1. /\ client \in Threads
        /\ saved = IF client = t THEN "RUNNING" ELSE "READY"
        /\ channels[c] \in Channel
    BY PendingOnRunning
  <1>2. saved \in ThreadState /\ context \in Context /\ status \in Status /\ status \in Register
    BY <1>1, StatusFacts DEF Channel, ThreadState
  <1>3. threads[t].state = "RUNNING" /\ user \in UserFrame
    BY DEF Executes, IInv, OneThreadRuns, TypeOK
  <1>4. trapped \in ThreadTable /\ SameStates(threads, trapped)
    BY <1>2, TrappedEffect DEF IInv
  <1>5. back \in ThreadTable /\ \A u \in Threads : back[u].state = threads[u].state
    <2> HIDE DEF trapped, context
    <2>1. back \in ThreadTable /\ SameStates(trapped, back)
      BY <1>2, <1>4, SetUserContextEffect
    <2>2. QED
      BY <1>4, <2>1 DEF SameStates
  <1>6. restored = SetState(back, t, saved)
    OBVIOUS
  <1> HIDE DEF back, saved, context, trapped
  <1>7. /\ restored \in ThreadTable
        /\ \A u \in Threads : restored[u].state = IF u = t THEN saved ELSE threads[u].state
    BY <1>2, <1>5, <1>6, SetStateEffect
  <1>8. CASE client = t
    <2>1. LeaveKernel(t, restored, t, status)
      BY <1>8
    <2>2. /\ threads' \in ThreadTable
          /\ SameStates(restored, threads')
          /\ current' = t
          /\ user' \in UserFrame
          /\ outcome' = "running" <=> Runnable(restored, t)
      BY <1>2, <1>3, <1>7, <2>1, LeaveKernelEffect
    <2>3. QED
      BY <1>1, <1>7, <1>8, <2>2, NoThreadIsNoThread DEF SameStates, Runnable
  <1>9. CASE client # t
    <2> DEFINE woken == WokenClient(restored, client, status)
    <2>1. LeaveKernel(t, SetCurrentThread(woken, t, client), client, "OK")
      BY <1>9
    <2>2. /\ woken \in ThreadTable
          /\ \A u \in Threads : woken[u].state = IF u = client THEN "READY" ELSE restored[u].state
      BY <1>1, <1>2, <1>7, WokenClientEffect, SMTT(60)
    <2> HIDE DEF woken, client
    <2>3. /\ threads' \in ThreadTable
          /\ current' = client
          /\ user' \in UserFrame
          /\ outcome' = "running" <=> woken[client].state \notin {"BLOCKED", "EXITED"}
          /\ \A u \in Threads : threads'[u].state =
               IF u = client THEN IF woken[client].state = "READY" THEN "RUNNING" ELSE woken[client].state
               ELSE IF u = t /\ woken[u].state = "RUNNING" THEN "READY" ELSE woken[u].state
      BY <1>1, <1>3, <1>9, <2>1, <2>2, SwitchEffect
    <2>4. /\ outcome' = "running"
          /\ \A u \in Threads : threads'[u].state =
               IF u = client THEN "RUNNING" ELSE IF u = t THEN "READY" ELSE threads[u].state
      BY <1>1, <1>7, <1>9, <2>2, <2>3
    <2>5. QED
      BY <2>3, <2>4 DEF client
  <1>10. QED
    BY <1>8, <1>9

\* A completed call: its client goes on, its endpoint takes the next one.
LEMMA CallCompletedKeepsIInv ==
    ASSUME IInv, NEW t \in Threads, Executes(t), NEW c \in PendingOn(t),
           channels' = [channels EXCEPT ![c] = CancelledCall(channels[c])],
           endpoints' = SetBusy(endpoints, channels[c].endpoint, FALSE),
           threads' \in ThreadTable,
           current' = channels[c].pending_client,
           user' \in UserFrame,
           outcome' = "running",
           \A u \in Threads : threads'[u].state =
              IF u = channels[c].pending_client THEN "RUNNING"
              ELSE IF u = t THEN "READY" ELSE threads[u].state
    PROVE  IInv'
  <1> DEFINE e == channels[c].endpoint
             client == channels[c].pending_client
  <1>1. /\ c \in Channels /\ channels[c] \in Channel
        /\ channels[c].pending_server = t
        /\ client \in Threads /\ e \in Endpoints
        /\ Pending(c) /\ Served(c)
        /\ Crossing(c) <=> client # t
        /\ client # t => threads[client].state = "BLOCKED"
    BY PendingOnRunning
  <1>2. /\ threads[t].state = "RUNNING" /\ current = t /\ outcome = "running"
        /\ \A u \in Threads : u # t => threads[u].state # "RUNNING"
        /\ endpoints \in [Endpoints -> Endpoint]
        /\ channels \in [Channels -> Channel \cup {NoChannel}]
    BY DEF Executes, IInv, OneThreadRuns, TypeOK
  <1>3. Idle(CancelledCall(channels[c]))
    BY <1>1, CancelledCallIdle
  <1>4. \A u \in Threads : threads'[u].state = "BLOCKED" <=>
           threads[u].state = "BLOCKED" /\ u # client
    BY <1>1, <1>2
  <1>5. Crossing(c) \/ threads[client].state # "BLOCKED"
    BY <1>1, <1>2
  <1>6. /\ channels' \in [Channels -> Channel \cup {NoChannel}]
        /\ \A d \in Channels : d # c => channels'[d] = channels[d]
        /\ ~Pending(c)'
        /\ \A d \in Channels : Occupied(d)' =>
             /\ channels'[d].pending_client \in {NoThread, channels'[d].client}
             /\ channels'[d].pending_client = NoThread <=> channels'[d].pending_server = NoThread
        /\ BlockedExactlyWhileCalling'
    BY <1>1, <1>3, <1>4, <1>5, CallEnded
  <1>7. /\ endpoints' \in [Endpoints -> Endpoint]
        /\ \A f \in Endpoints : f # e => endpoints'[f] = endpoints[f]
        /\ ~endpoints'[e].busy
        /\ \A f \in Endpoints : /\ endpoints'[f].in_use = endpoints[f].in_use
                                /\ endpoints'[f].name = endpoints[f].name
                                /\ endpoints'[f].owner = endpoints[f].owner
    BY <1>1, <1>2, ZenonT(60) DEF SetBusy, Endpoint
  <1> HIDE DEF e, client
  <1>8. \A u \in Threads : threads'[u].state = "EXITED" <=> threads[u].state = "EXITED"
    BY <1>1, <1>2 DEF client
  <1>9. \A d \in Channels : Pending(d) => channels[d].pending_server \in Threads
    BY <1>2 DEF Pending, Occupied, Channel
  <1>10. \A d \in Channels : d # c => /\ Pending(d)' <=> Pending(d)
                                      /\ Crossing(d)' <=> Crossing(d)
    BY <1>6 DEF Pending, Crossing, Occupied
  <1>11. \A d \in Channels : Served(d)' <=> Served(d) /\ d # c
    BY <1>6, <1>8, <1>9, <1>10 DEF Served
  <1>12. \A d \in Channels : Served(d) /\ d # c => channels[d].endpoint # e
    BY <1>1 DEF e, IInv, BusyExactlyWhileServing
  <1>13. TypeOK'
    BY <1>1, <1>6, <1>7 DEF TypeOK, ThreadTable, client
  <1>14. OneThreadRuns'
    BY <1>1, <1>2 DEF OneThreadRuns, client
  <1>15. BusyExactlyWhileServing'
    <2>1. ASSUME NEW f \in Endpoints, endpoints'[f].busy
          PROVE  \E d \in Channels : Served(d)' /\ channels'[d].endpoint = f
      <3>1. f # e /\ endpoints[f].busy
        BY <1>7, <2>1
      <3>2. PICK d \in Channels : Served(d) /\ channels[d].endpoint = f
        BY <3>1 DEF IInv, BusyExactlyWhileServing
      <3>3. d # c
        BY <3>1, <3>2 DEF e
      <3>4. QED
        BY <1>6, <1>11, <3>2, <3>3
    <2>2. ASSUME NEW d \in Channels, Served(d)'
          PROVE  /\ endpoints'[channels'[d].endpoint].busy
                 /\ endpoints'[channels'[d].endpoint].owner = channels'[d].pending_server
      <3>1. Served(d) /\ d # c /\ channels'[d] = channels[d] /\ channels[d].endpoint # e
        BY <1>6, <1>11, <1>12, <2>2
      <3>2. channels[d].endpoint \in Endpoints
        BY <1>2, <3>1 DEF Served, Pending, Occupied, Channel
      <3>3. endpoints'[channels[d].endpoint] = endpoints[channels[d].endpoint]
        BY <1>7, <3>1, <3>2
      <3>4. /\ endpoints[channels[d].endpoint].busy
            /\ endpoints[channels[d].endpoint].owner = channels[d].pending_server
        BY <3>1 DEF IInv, BusyExactlyWhileServing
      <3>5. QED
        BY <3>1, <3>3, <3>4
    <2>3. \A b, d \in Channels :
             Served(b)' /\ Served(d)' /\ channels'[b].endpoint = channels'[d].endpoint => b = d
      BY <1>6, <1>11 DEF IInv, BusyExactlyWhileServing
    <2>4. QED
      BY <2>1, <2>2, <2>3 DEF BusyExactlyWhileServing
  <1>16. NamesLeadToLiveOwners'
    <2>1. ASSUME NEW f \in Endpoints
          PROVE  IF endpoints'[f].in_use
                 THEN /\ endpoints'[f].owner \in Threads
                      /\ endpoints'[f].name \in Names
                      /\ threads'[endpoints'[f].owner].state # "EXITED"
                 ELSE endpoints'[f] = ClearedEndpoint
      <3>1. IF endpoints[f].in_use
            THEN /\ endpoints[f].owner \in Threads
                 /\ endpoints[f].name \in Names
                 /\ threads[endpoints[f].owner].state # "EXITED"
            ELSE endpoints[f] = ClearedEndpoint
        BY DEF IInv, NamesLeadToLiveOwners
      <3>2. CASE endpoints[f].in_use
        BY <1>7, <1>8, <3>1, <3>2, ZenonT(60)
      <3>3. CASE ~endpoints[f].in_use
        <4>1. endpoints[f] = ClearedEndpoint /\ ~endpoints[f].busy
          BY <3>1, <3>3 DEF ClearedEndpoint
        <4>2. endpoints[e].busy
          BY <1>1 DEF e, IInv, BusyExactlyWhileServing
        <4>3. QED
          BY <1>7, <3>3, <4>1, <4>2
      <3>4. QED
        BY <3>2, <3>3
    <2>2. QED
      BY <1>7, <2>1, ZenonT(60) DEF IInv, NamesLeadToLiveOwners
  <1>17. SavedStateRestorable'
    BY <1>2, <1>6, <1>10, <1>11 DEF IInv, SavedStateRestorable
  <1>18. QED
    BY <1>6, <1>13, <1>14, <1>15, <1>16, <1>17 DEF IInv

\* Every outcome of RPC_COMPLETE keeps the invariant.
LEMMA RpcCompleteKeepsIInv ==
    ASSUME IInv, NEW t \in Threads, RpcComplete(t)
    PROVE  IInv'
  <1>1. Executes(t)
    BY DEF RpcComplete
  <1>2. CASE \E status \in Replies : Answer(t, status, "BAD_STATE")
    <2>1. PICK status \in Replies : Answer(t, status, "BAD_STATE")
      BY <1>2
    <2>2. status \in Register /\ "BAD_STATE" \in Status
      BY StatusFacts DEF KernelStatus
    <2>3. QED
      BY <1>1, <2>1, <2>2, AnswerKeepsIInv
  <1>3. ASSUME NEW status \in Replies, NEW c \in First(PendingOn(t)), NEW restored,
               restored = SetState(SetUserContext(Trapped(t, status), t, channels[c].saved_context),
                                   t, channels[c].saved_state),
               channels' = [channels EXCEPT ![c] = CancelledCall(channels[c])],
               endpoints' = SetBusy(endpoints, channels[c].endpoint, FALSE),
               IF channels[c].pending_client = t
               THEN LeaveKernel(t, restored, t, status)
               ELSE LeaveKernel(t, SetCurrentThread(WokenClient(restored, channels[c].pending_client,
                                                                status),
                                                    t, channels[c].pending_client),
                                channels[c].pending_client, "OK")
        PROVE  IInv'
    <2>1. c \in PendingOn(t)
      BY <1>3 DEF First
    <2>2. /\ threads' \in ThreadTable
          /\ current' = channels[c].pending_client
          /\ user' \in UserFrame
          /\ outcome' = "running"
          /\ \A u \in Threads : threads'[u].state =
               IF u = channels[c].pending_client THEN "RUNNING"
               ELSE IF u = t THEN "READY" ELSE threads[u].state
      BY <1>1, <1>3, <2>1, CompletedStates
    <2>3. QED
      BY <1>1, <1>3, <2>1, <2>2, CallCompletedKeepsIInv
  <1>4. QED
    BY <1>2, <1>3 DEF RpcComplete
-----------------------------------------------------------------------------
(* Thread exit *)

\* terminate_current_thread: the thread has exited, a ready thread runs if there
\* is one, and the CPU is parked if there is none.
LEMMA ExitAndScheduleEffect ==
    ASSUME NEW tt \in ThreadTable, NEW t \in Threads, user \in UserFrame, ExitAndSchedule(t, tt)
    PROVE  /\ threads' \in ThreadTable
           /\ current' \in (Threads \cup {NoThread}) \ {t}
           /\ user' \in UserFrame
           /\ outcome' \in {"running", "parked"}
           /\ outcome' = "running" => current' \in Threads
           /\ \A u \in Threads : threads'[u].state =
                IF u = t THEN "EXITED" ELSE IF u = current' THEN "RUNNING" ELSE tt[u].state
           /\ \A u \in Threads : u = current' => tt[u].state = "READY"
  <1> DEFINE exited == SetState(tt, t, "EXITED")
  <1>1. /\ exited \in ThreadTable
        /\ \A u \in Threads : exited[u].state = IF u = t THEN "EXITED" ELSE tt[u].state
    <2>1. "EXITED" \in ThreadState
      BY DEF ThreadState
    <2>2. QED
      BY <2>1, SetStateEffect
  <1>2. \/ LeaveKernel(t, exited, NoThread, "OK")
        \/ \E next \in NextReady(exited, t) :
              LeaveKernel(t, SetCurrentThread(exited, t, next), next, "OK")
    BY DEF ExitAndSchedule
  <1>3. "OK" \in Status /\ NoThread \in Threads \cup {NoThread}
    BY DEF Status, KernelStatus
  <1> HIDE DEF exited
  <1>4. CASE LeaveKernel(t, exited, NoThread, "OK")
    <2>1. /\ threads' \in ThreadTable
          /\ SameStates(exited, threads')
          /\ current' = NoThread
          /\ user' \in UserFrame
          /\ outcome' \in {"running", "parked"}
          /\ outcome' = "running" <=> Runnable(exited, NoThread)
      BY <1>1, <1>3, <1>4, LeaveKernelEffect
    <2>2. QED
      BY <1>1, <2>1, NoThreadIsNoThread DEF SameStates, Runnable
  <1>5. ASSUME NEW next \in NextReady(exited, t),
               LeaveKernel(t, SetCurrentThread(exited, t, next), next, "OK")
        PROVE  /\ threads' \in ThreadTable
               /\ current' = next /\ next \in Threads /\ next # t
               /\ user' \in UserFrame
               /\ outcome' = "running"
               /\ \A u \in Threads : threads'[u].state =
                    IF u = t THEN "EXITED" ELSE IF u = next THEN "RUNNING" ELSE tt[u].state
               /\ tt[next].state = "READY"
    <2>1. next \in Threads /\ exited[next].state = "READY"
      BY <1>5 DEF NextReady, Ready
    <2>2. next # t /\ tt[next].state = "READY"
      BY <1>1, <2>1
    <2>3. /\ threads' \in ThreadTable
          /\ current' = next
          /\ user' \in UserFrame
          /\ outcome' \in {"running", "parked"}
          /\ outcome' = "running" <=> exited[next].state \notin {"BLOCKED", "EXITED"}
          /\ \A u \in Threads : threads'[u].state =
               IF u = next THEN IF exited[next].state = "READY" THEN "RUNNING" ELSE exited[next].state
               ELSE IF u = t /\ exited[u].state = "RUNNING" THEN "READY" ELSE exited[u].state
      BY <1>1, <1>5, <2>1, <2>2, SwitchEffect
    <2>4. QED
      BY <1>1, <2>1, <2>2, <2>3
  <1>6. QED
    BY <1>2, <1>4, <1>5

\* The running thread t exits: the calls it does not serve stay as they are, the
\* client of the one call that is failed is ready, the endpoints of t are gone.
LEMMA ExitKeepsIInv ==
    ASSUME IInv, NEW t \in Threads, Executes(t), NEW tt \in ThreadTable, ExitAndSchedule(t, tt),
           tt[t].state = "RUNNING",
           \A u \in Threads : tt[u].state = "RUNNING" => u = t,
           \A u \in Threads : tt[u].state = "EXITED" <=> threads[u].state = "EXITED",
           \A f \in Endpoints : endpoints'[f] =
              IF endpoints[f].owner = t THEN ClearedEndpoint ELSE endpoints[f],
           endpoints' \in [Endpoints -> Endpoint],
           channels' \in [Channels -> Channel \cup {NoChannel}],
           \A d \in Channels : Pending(d)' => channels'[d] = channels[d],
           \A d \in Channels : channels[d] = channels'[d] \/ d \in PendingOn(t),
           \A d \in Channels : Occupied(d)' =>
              /\ channels'[d].pending_client \in {NoThread, channels'[d].client}
              /\ channels'[d].pending_client = NoThread <=> channels'[d].pending_server = NoThread,
           (\A u \in Threads : threads'[u].state = "BLOCKED" <=> tt[u].state = "BLOCKED")
              => BlockedExactlyWhileCalling'
    PROVE  IInv'
  <1>1. /\ threads' \in ThreadTable
        /\ current' \in (Threads \cup {NoThread}) \ {t}
        /\ user' \in UserFrame
        /\ outcome' \in {"running", "parked"}
        /\ outcome' = "running" => current' \in Threads
        /\ \A u \in Threads : threads'[u].state =
             IF u = t THEN "EXITED" ELSE IF u = current' THEN "RUNNING" ELSE tt[u].state
        /\ \A u \in Threads : u = current' => tt[u].state = "READY"
    BY ExitAndScheduleEffect DEF IInv, TypeOK
  <1>2. outcome = "running" /\ threads[t].state = "RUNNING"
    BY DEF Executes, IInv, OneThreadRuns
  <1>3. BlockedExactlyWhileCalling'
    BY <1>1
  <1>4. \A u \in Threads : threads'[u].state = "EXITED" <=> threads[u].state = "EXITED" \/ u = t
    BY <1>1
  <1>5. TypeOK'
    BY <1>1 DEF TypeOK, ThreadTable
  <1>6. OneThreadRuns'
    BY <1>1 DEF OneThreadRuns
  <1>7. channels \in [Channels -> Channel \cup {NoChannel}]
    BY DEF IInv, TypeOK
  <1>8. \A d \in Channels : Pending(d) => channels[d].pending_server \in Threads
    BY <1>7 DEF Pending, Occupied, Channel
  <1>9. ASSUME NEW d \in Channels, Served(d)'
        PROVE  /\ Served(d) /\ channels'[d] = channels[d] /\ channels[d].pending_server # t
               /\ Crossing(d)' <=> Crossing(d)
    <2>1. Pending(d)' /\ channels'[d] = channels[d]
      BY <1>9 DEF Served
    <2>2. Pending(d) /\ channels[d].pending_server \in Threads
      BY <1>8, <2>1 DEF Pending, Occupied
    <2>3. QED
      BY <1>4, <1>9, <2>1, <2>2 DEF Served, Crossing
  <1>10. ASSUME NEW d \in Channels, Served(d), channels[d].pending_server # t
         PROVE  Served(d)' /\ channels'[d] = channels[d]
    <2>1. channels'[d] = channels[d]
      BY <1>10 DEF PendingOn
    <2>2. QED
      BY <1>4, <1>8, <1>10, <2>1 DEF Served, Pending, Occupied
  <1>11. BusyExactlyWhileServing'
    <2>1. ASSUME NEW f \in Endpoints, endpoints'[f].busy
          PROVE  \E d \in Channels : Served(d)' /\ channels'[d].endpoint = f
      <3>1. endpoints[f].owner # t /\ endpoints[f].busy
        BY <2>1 DEF ClearedEndpoint
      <3>2. PICK d \in Channels : Served(d) /\ channels[d].endpoint = f
        BY <3>1 DEF IInv, BusyExactlyWhileServing
      <3>3. channels[d].pending_server # t
        BY <3>1, <3>2 DEF IInv, BusyExactlyWhileServing
      <3>4. QED
        BY <1>10, <3>2, <3>3
    <2>2. ASSUME NEW d \in Channels, Served(d)'
          PROVE  /\ endpoints'[channels'[d].endpoint].busy
                 /\ endpoints'[channels'[d].endpoint].owner = channels'[d].pending_server
      <3>1. Served(d) /\ channels'[d] = channels[d] /\ channels[d].pending_server # t
        BY <1>9, <2>2
      <3>2. channels[d].endpoint \in Endpoints
        BY <1>7, <3>1 DEF Served, Pending, Occupied, Channel
      <3>3. /\ endpoints[channels[d].endpoint].busy
            /\ endpoints[channels[d].endpoint].owner = channels[d].pending_server
        BY <3>1 DEF IInv, BusyExactlyWhileServing
      <3>4. endpoints'[channels[d].endpoint] = endpoints[channels[d].endpoint]
        BY <3>1, <3>2, <3>3
      <3>5. QED
        BY <3>1, <3>3, <3>4
    <2>3. ASSUME NEW b \in Channels, NEW d \in Channels, Served(b)', Served(d)',
                 channels'[b].endpoint = channels'[d].endpoint
          PROVE  b = d
      <3>1. Served(b) /\ Served(d) /\ channels[b].endpoint = channels[d].endpoint
        BY <1>9, <2>3
      <3>2. QED
        BY <3>1 DEF IInv, BusyExactlyWhileServing
    <2>4. QED
      BY <2>1, <2>2, <2>3 DEF BusyExactlyWhileServing
  <1>12. NamesLeadToLiveOwners'
    <2>1. ASSUME NEW f \in Endpoints
          PROVE  IF endpoints'[f].in_use
                 THEN /\ endpoints'[f].owner \in Threads
                      /\ endpoints'[f].name \in Names
                      /\ threads'[endpoints'[f].owner].state # "EXITED"
                 ELSE endpoints'[f] = ClearedEndpoint
      <3>1. CASE endpoints[f].owner = t
        BY <3>1 DEF ClearedEndpoint
      <3>2. CASE endpoints[f].owner # t
        <4>1. endpoints'[f] = endpoints[f]
          BY <3>2
        <4>2. IF endpoints[f].in_use
              THEN /\ endpoints[f].owner \in Threads
                   /\ endpoints[f].name \in Names
                   /\ threads[endpoints[f].owner].state # "EXITED"
              ELSE endpoints[f] = ClearedEndpoint
          BY DEF IInv, NamesLeadToLiveOwners
        <4>3. QED
          BY <1>4, <3>2, <4>1, <4>2
      <3>3. QED
        BY <3>1, <3>2
    <2>2. \A f \in Endpoints : endpoints'[f].in_use => endpoints'[f] = endpoints[f]
      BY DEF ClearedEndpoint
    <2>3. QED
      BY <2>1, <2>2 DEF IInv, NamesLeadToLiveOwners
  <1>13. SavedStateRestorable'
    BY <1>2, <1>9 DEF IInv, SavedStateRestorable
  <1>14. QED
    BY <1>3, <1>5, <1>6, <1>11, <1>12, <1>13 DEF IInv

\* The running thread terminates, whatever calls it serves.
LEMMA TerminateKeepsIInv ==
    ASSUME IInv, NEW t \in Threads, Executes(t), NEW tt \in ThreadTable, SameStates(threads, tt),
           NEW failure \in Status, Terminate(t, tt, failure)
    PROVE  IInv'
  <1>1. /\ threads[t].state = "RUNNING" /\ outcome = "running"
        /\ \A u \in Threads : u # t => threads[u].state # "RUNNING"
        /\ endpoints \in [Endpoints -> Endpoint]
        /\ channels \in [Channels -> Channel \cup {NoChannel}]
    BY DEF Executes, IInv, OneThreadRuns, TypeOK
  <1>2. \A u \in Threads : tt[u].state = threads[u].state
    BY DEF SameStates
  <1>3. ClearedEndpoint \in Endpoint
    BY DEF ClearedEndpoint, Endpoint
  <1>4. CASE /\ PendingOn(t) = {}
             /\ endpoints' = ClearEndpointsOwnedBy(endpoints, t)
             /\ UNCHANGED channels
             /\ ExitAndSchedule(t, tt)
    <2>1. /\ endpoints' \in [Endpoints -> Endpoint]
          /\ \A f \in Endpoints : endpoints'[f] =
                IF endpoints[f].owner = t THEN ClearedEndpoint ELSE endpoints[f]
      BY <1>1, <1>3, <1>4 DEF ClearEndpointsOwnedBy
    <2>2. /\ channels' \in [Channels -> Channel \cup {NoChannel}]
          /\ \A d \in Channels : channels'[d] = channels[d]
          /\ \A d \in Channels : Occupied(d)' =>
               /\ channels'[d].pending_client \in {NoThread, channels'[d].client}
               /\ channels'[d].pending_client = NoThread <=> channels'[d].pending_server = NoThread
      BY <1>1, <1>4 DEF IInv, TypeOK, Occupied
    <2>3. (\A u \in Threads : threads'[u].state = "BLOCKED" <=> tt[u].state = "BLOCKED")
             => BlockedExactlyWhileCalling'
      <3>1. SUFFICES ASSUME \A u \in Threads :
                               threads'[u].state = "BLOCKED" <=> threads[u].state = "BLOCKED"
                     PROVE  BlockedExactlyWhileCalling'
        BY <1>2
      <3>2. \A d \in Channels : Crossing(d)' <=> Crossing(d)
        BY <1>4 DEF Crossing, Pending, Occupied
      <3>3. QED
        BY <1>4, <3>1, <3>2 DEF IInv, BlockedExactlyWhileCalling, WaitsFor
    <2>4. QED
      BY <1>1, <1>2, <1>4, <2>1, <2>2, <2>3, ExitKeepsIInv
  <1>5. ASSUME NEW c \in First(PendingOn(t)),
               channels' = [channels EXCEPT ![c] = CancelledCall(channels[c])],
               endpoints' = ClearEndpointsOwnedBy(SetBusy(endpoints, channels[c].endpoint, FALSE), t),
               ExitAndSchedule(t, IF channels[c].pending_client = t THEN tt
                                  ELSE WokenClient(tt, channels[c].pending_client, failure))
        PROVE  IInv'
    <2> DEFINE e == channels[c].endpoint
               client == channels[c].pending_client
               ww == IF client = t THEN tt ELSE WokenClient(tt, client, failure)
               busy == SetBusy(endpoints, e, FALSE)
    <2>1. c \in PendingOn(t)
      BY <1>5 DEF First
    <2>2. /\ c \in Channels /\ channels[c] \in Channel
          /\ client \in Threads /\ e \in Endpoints
          /\ Pending(c)
          /\ Crossing(c) <=> client # t
          /\ endpoints[e].owner = t
          /\ client # t => threads[client].state = "BLOCKED"
      BY <1>5, <2>1, PendingOnRunning
    <2>3. /\ ww \in ThreadTable
          /\ \A u \in Threads : ww[u].state =
               IF u = client /\ client # t THEN "READY" ELSE threads[u].state
      <3>1. CASE client = t
        BY <1>2, <3>1
      <3>2. CASE client # t
        <4>1. ww = WokenClient(tt, client, failure)
          BY <3>2
        <4>2. /\ WokenClient(tt, client, failure) \in ThreadTable
              /\ \A u \in Threads : WokenClient(tt, client, failure)[u].state =
                   IF u = client THEN "READY" ELSE tt[u].state
          BY <2>2, WokenClientEffect
        <4> HIDE DEF ww, client
        <4>3. QED
          BY <1>2, <3>2, <4>1, <4>2
      <3>3. QED
        BY <3>1, <3>2
    <2>4. ExitAndSchedule(t, ww)
      BY <1>5
    <2>5. /\ busy \in [Endpoints -> Endpoint]
          /\ \A f \in Endpoints : f # e => busy[f] = endpoints[f]
          /\ busy[e].owner = t
      BY <1>1, <2>2 DEF SetBusy, Endpoint
    <2>6. endpoints' = ClearEndpointsOwnedBy(busy, t)
      BY <1>5
    <2> HIDE DEF busy, ww
    <2>7. /\ endpoints' \in [Endpoints -> Endpoint]
          /\ \A f \in Endpoints : endpoints'[f] =
                IF endpoints[f].owner = t THEN ClearedEndpoint ELSE endpoints[f]
      <3>1. \A f \in Endpoints : endpoints'[f] =
               IF busy[f].owner = t THEN ClearedEndpoint ELSE busy[f]
        BY <2>6 DEF ClearEndpointsOwnedBy
      <3>2. endpoints' \in [Endpoints -> Endpoint]
        BY <1>3, <2>5, <2>6 DEF ClearEndpointsOwnedBy
      <3> HIDE DEF e
      <3>3. ASSUME NEW f \in Endpoints
            PROVE  endpoints'[f] = IF endpoints[f].owner = t THEN ClearedEndpoint ELSE endpoints[f]
        <4>1. CASE f = e
          BY <2>2, <2>5, <3>1, <4>1
        <4>2. CASE f # e
          BY <2>5, <3>1, <4>2
        <4>3. QED
          BY <4>1, <4>2
      <3>4. QED
        BY <3>2, <3>3
    <2>8. Idle(CancelledCall(channels[c]))
      BY <2>2, CancelledCallIdle
    <2>9. Crossing(c) \/ threads[client].state # "BLOCKED"
      BY <1>1, <2>2
    <2>10. /\ channels' \in [Channels -> Channel \cup {NoChannel}]
           /\ \A d \in Channels : d # c => channels'[d] = channels[d]
           /\ ~Pending(c)'
           /\ \A d \in Channels : Occupied(d)' =>
                /\ channels'[d].pending_client \in {NoThread, channels'[d].client}
                /\ channels'[d].pending_client = NoThread <=> channels'[d].pending_server = NoThread
           /\ (\A u \in Threads : threads'[u].state = "BLOCKED" <=> ww[u].state = "BLOCKED")
                 => BlockedExactlyWhileCalling'
      <3> DEFINE ch == CancelledCall(channels[c])
      <3>1. channels' = [channels EXCEPT ![c] = ch] /\ Idle(ch)
        BY <1>5, <2>8
      <3> HIDE DEF ch
      <3>2. /\ channels' \in [Channels -> Channel \cup {NoChannel}]
            /\ \A d \in Channels : d # c => channels'[d] = channels[d]
            /\ channels'[c] = ch
        BY <1>1, <2>2, <3>1 DEF Idle
      <3>3. ~Pending(c)'
        BY <3>1, <3>2 DEF Pending, Idle
      <3>4. ASSUME NEW d \in Channels, Occupied(d)'
            PROVE  /\ channels'[d].pending_client \in {NoThread, channels'[d].client}
                   /\ channels'[d].pending_client = NoThread <=> channels'[d].pending_server = NoThread
        <4>1. CASE d = c
          BY <3>1, <3>2, <4>1 DEF Idle
        <4>2. CASE d # c
          BY <3>2, <3>4, <4>2 DEF IInv, TypeOK, Occupied
        <4>3. QED
          BY <4>1, <4>2
      <3>5. ASSUME \A u \in Threads : threads'[u].state = "BLOCKED" <=> ww[u].state = "BLOCKED"
            PROVE  BlockedExactlyWhileCalling'
        <4>1. \A u \in Threads : threads'[u].state = "BLOCKED" <=>
                 threads[u].state = "BLOCKED" /\ u # client
          BY <1>1, <2>2, <2>3, <3>5
        <4>2. QED
          BY <2>2, <2>9, <3>1, <4>1, CallEnded
      <3>6. QED
        BY <3>2, <3>3, <3>4, <3>5
    <2>11. /\ ww[t].state = "RUNNING"
           /\ \A u \in Threads : ww[u].state = "RUNNING" => u = t
           /\ \A u \in Threads : ww[u].state = "EXITED" <=> threads[u].state = "EXITED"
      BY <1>1, <2>2, <2>3
    <2>12. /\ \A d \in Channels : Pending(d)' => channels'[d] = channels[d]
           /\ \A d \in Channels : channels[d] = channels'[d] \/ d \in PendingOn(t)
      BY <2>1, <2>10
    <2>13. QED
      BY <2>3, <2>4, <2>7, <2>10, <2>11, <2>12, ExitKeepsIInv
  <1>6. QED
    BY <1>4, <1>5 DEF Terminate

-----------------------------------------------------------------------------
(* The invariant *)

\* Every step of the runtime keeps the invariant.
LEMMA NextKeepsIInv == IInv /\ [Next]_vars => IInv'
  <1> SUFFICES ASSUME IInv, [Next]_vars PROVE IInv'
    OBVIOUS
  <1>1. ASSUME NEW t \in Threads, DebugLog(t) PROVE IInv'
    BY <1>1, AnswerKeepsIInv, StatusFacts DEF DebugLog, StringErrors, KernelStatus
  <1>2. ASSUME NEW t \in Threads, OtherSyscall(t) PROVE IInv'
    BY <1>2, AnswerKeepsIInv, StatusFacts DEF OtherSyscall, KernelStatus
  <1>3. ASSUME NEW t \in Threads, ThreadExit(t) PROVE IInv'
    <2>1. Executes(t) /\ Terminate(t, Trapped(t, Address), "PEER_CLOSED")
      BY <1>3 DEF ThreadExit
    <2>2. Trapped(t, Address) \in ThreadTable /\ SameStates(threads, Trapped(t, Address))
      BY TrappedEffect, StatusFacts DEF IInv
    <2>3. "PEER_CLOSED" \in Status
      BY DEF Status, KernelStatus
    <2>4. QED
      BY <2>1, <2>2, <2>3, TerminateKeepsIInv
  <1>4. ASSUME NEW t \in Threads, EmulatorGuestFault(t) PROVE IInv'
    <2>1. PICK failure \in {"FAULT", "NOT_SUPPORTED"} : Executes(t) /\ Terminate(t, threads, failure)
      BY <1>4 DEF EmulatorGuestFault
    <2>2. threads \in ThreadTable /\ SameStates(threads, threads) /\ failure \in Status
      BY DEF IInv, TypeOK, ThreadTable, SameStates, Status, KernelStatus
    <2>3. QED
      BY <2>1, <2>2, TerminateKeepsIInv
  <1>5. ASSUME NEW t \in Threads, KernelPanic(t) PROVE IInv'
    <2>1. outcome' = "panic" /\ UNCHANGED <<threads, current, endpoints, channels, user>>
      BY <1>5 DEF KernelPanic
    <2>2. TypeOK' /\ OneThreadRuns' /\ NamesLeadToLiveOwners'
      BY <2>1 DEF IInv, TypeOK, OneThreadRuns, NamesLeadToLiveOwners, Occupied
    <2>3. BlockedExactlyWhileCalling'
      BY <2>1 DEF IInv, BlockedExactlyWhileCalling, WaitsFor, Crossing, Pending, Occupied
    <2>4. BusyExactlyWhileServing' /\ SavedStateRestorable'
      BY <2>1 DEF IInv, BusyExactlyWhileServing, SavedStateRestorable, Served, Pending, Occupied
    <2>5. QED
      BY <2>2, <2>3, <2>4 DEF IInv
  <1>6. CASE Spin \/ UNCHANGED vars
    BY <1>6 DEF Spin, vars, IInv, TypeOK, OneThreadRuns, BlockedExactlyWhileCalling,
                BusyExactlyWhileServing, NamesLeadToLiveOwners, SavedStateRestorable, WaitsFor,
                Crossing, Served, Pending, Occupied
  <1>7. QED
    BY <1>1, <1>2, <1>3, <1>4, <1>5, <1>6, RpcRegisterKeepsIInv, RpcOpenKeepsIInv,
       RpcCallKeepsIInv, RpcCloseKeepsIInv, RpcCompleteKeepsIInv DEF Next

\* The inductive invariant holds in every reachable state.
THEOREM Invariance == Spec => []IInv
  BY InitIInv, NextKeepsIInv, PTL DEF Spec

\* The kernel objects keep their types, and no channel ever records a call with
\* only one of its two parties.
THEOREM TypeCorrect == Spec => []TypeOK
  <1>1. IInv => TypeOK
    BY DEF IInv
  <1>2. QED
    BY <1>1, Invariance, PTL

\* The CPU is handed around without losing or duplicating the running thread.
THEOREM SchedulingCorrect == Spec => []OneThreadRuns
  <1>1. IInv => OneThreadRuns
    BY DEF IInv
  <1>2. QED
    BY <1>1, Invariance, PTL

\* A thread is blocked exactly while it has a call to another thread pending, and
\* never has two.
THEOREM BlockingCorrect == Spec => []BlockedExactlyWhileCalling
  <1>1. IInv => BlockedExactlyWhileCalling
    BY DEF IInv
  <1>2. QED
    BY <1>1, Invariance, PTL

\* An endpoint is busy exactly while its owner serves one call through it.
THEOREM EndpointsCorrect == Spec => []BusyExactlyWhileServing
  <1>1. IInv => BusyExactlyWhileServing
    BY DEF IInv
  <1>2. QED
    BY <1>1, Invariance, PTL

\* Names are unique and lead to threads that have not exited.
THEOREM NamesCorrect == Spec => []NamesLeadToLiveOwners
  <1>1. IInv => NamesLeadToLiveOwners
    BY DEF IInv
  <1>2. QED
    BY <1>1, Invariance, PTL

\* The thread state saved for a server is one it may be given back.
THEOREM SavedStateCorrect == Spec => []SavedStateRestorable
  <1>1. IInv => SavedStateRestorable
    BY DEF IInv
  <1>2. QED
    BY <1>1, Invariance, PTL

-----------------------------------------------------------------------------
(* Who ends a call *)

\* A pending call stays as it is until its server, which runs, ends it: no other
\* path of the runtime writes to the channel.
LEMMA OnlyItsServerEndsACall ==
    ASSUME IInv, Next
    PROVE  \A c \in Channels : Pending(c) =>
              \/ channels'[c] = channels[c]
              \/ channels[c].pending_server = current /\ channels'[c] = CancelledCall(channels[c])
  <1> DEFINE Kept == \A c \in Channels : Pending(c) =>
                \/ channels'[c] = channels[c]
                \/ channels[c].pending_server = current /\ channels'[c] = CancelledCall(channels[c])
  <1>1. channels \in [Channels -> Channel \cup {NoChannel}]
    BY DEF IInv, TypeOK
  <1>2. ASSUME UNCHANGED channels PROVE Kept
    BY <1>2
  <1>3. ASSUME NEW d \in Channels, ~Pending(d), NEW ch, channels' = [channels EXCEPT ![d] = ch]
        PROVE  Kept
    BY <1>1, <1>3
  <1>4. ASSUME NEW t \in Threads, Executes(t), NEW d \in First(PendingOn(t)),
               channels' = [channels EXCEPT ![d] = CancelledCall(channels[d])]
        PROVE  Kept
    <2>1. d \in Channels /\ channels[d].pending_server = current
      BY <1>4 DEF First, PendingOn, Executes
    <2>2. QED
      BY <1>1, <1>4, <2>1
  <1> HIDE DEF Kept
  <1>5. ASSUME NEW t \in Threads, NEW argument0, NEW status, Answer(t, argument0, status) PROVE Kept
    BY <1>2, <1>5 DEF Answer, objects
  <1>6. ASSUME NEW t \in Threads, DebugLog(t) \/ OtherSyscall(t) \/ KernelPanic(t) PROVE Kept
    BY <1>2, <1>5, <1>6 DEF DebugLog, OtherSyscall, KernelPanic
  <1>7. ASSUME NEW t \in Threads, NEW tt, NEW failure, Executes(t), Terminate(t, tt, failure) PROVE Kept
    BY <1>2, <1>4, <1>7 DEF Terminate
  <1>8. ASSUME NEW t \in Threads, ThreadExit(t) \/ EmulatorGuestFault(t) PROVE Kept
    BY <1>7, <1>8 DEF ThreadExit, EmulatorGuestFault
  <1>9. ASSUME NEW t \in Threads, RpcRegister(t) PROVE Kept
    BY <1>2, <1>5, <1>9 DEF RpcRegister
  <1>10. ASSUME NEW t \in Threads, RpcOpen(t) PROVE Kept
    <2>1. \A d \in First(FreeChannels) : d \in Channels /\ ~Pending(d)
      BY DEF First, FreeChannels, Pending
    <2>2. QED
      BY <1>3, <1>5, <1>10, <2>1 DEF RpcOpen
  <1>11. \A t \in Threads : \A d \in Owned(t) : ~ChannelBusy(channels[d]) => d \in Channels /\ ~Pending(d)
    BY DEF Owned, ChannelBusy, Pending
  <1>12. ASSUME NEW t \in Threads, RpcCall(t) PROVE Kept
    BY <1>3, <1>5, <1>11, <1>12 DEF RpcCall
  <1>13. ASSUME NEW t \in Threads, RpcClose(t) PROVE Kept
    BY <1>3, <1>5, <1>11, <1>13 DEF RpcClose
  <1>14. ASSUME NEW t \in Threads, RpcComplete(t) PROVE Kept
    BY <1>4, <1>5, <1>14 DEF RpcComplete
  <1>15. ASSUME Spin PROVE Kept
    BY <1>2, <1>15 DEF Spin, vars
  <1>16. Kept
    BY <1>6, <1>8, <1>9, <1>10, <1>12, <1>13, <1>14, <1>15 DEF Next
  <1>17. QED
    BY <1>16 DEF Kept

\* A blocked client is woken by the server it waits for, which runs, in the step
\* that ends its call; nothing else ever wakes it.
THEOREM WakingCorrect == Spec => OnlyItsServerWakesAClient
  <1> DEFINE Woken == \A t \in Threads :
                threads[t].state = "BLOCKED" /\ threads'[t].state # "BLOCKED" =>
                   /\ WaitsFor(t, current)
                   /\ \A c \in Channels : Crossing(c) /\ channels[c].pending_client = t =>
                         channels'[c].pending_client = NoThread
  <1>1. ASSUME IInv, IInv', Next PROVE Woken
    <2> SUFFICES ASSUME NEW t \in Threads, threads[t].state = "BLOCKED", threads'[t].state # "BLOCKED"
                 PROVE  /\ WaitsFor(t, current)
                        /\ \A c \in Channels : Crossing(c) /\ channels[c].pending_client = t =>
                              channels'[c].pending_client = NoThread
      OBVIOUS
    <2>1. PICK s \in Threads : WaitsFor(t, s)
      BY <1>1 DEF IInv, BlockedExactlyWhileCalling
    <2>2. PICK c \in Channels : /\ Crossing(c)
                                /\ channels[c].pending_client = t
                                /\ channels[c].pending_server = s
      BY <2>1 DEF WaitsFor
    <2>3. channels'[c] # channels[c]
      <3>1. SUFFICES ASSUME channels'[c] = channels[c] PROVE FALSE
        OBVIOUS
      <3>2. WaitsFor(t, s)'
        BY <2>2, <3>1 DEF WaitsFor, Crossing, Pending, Occupied
      <3>3. QED
        BY <1>1, <3>2 DEF IInv, BlockedExactlyWhileCalling
    <2>4. channels[c].pending_server = current /\ channels'[c] = CancelledCall(channels[c])
      BY <1>1, <2>2, <2>3, OnlyItsServerEndsACall DEF Crossing
    <2>5. channels'[c].pending_client = NoThread
      BY <2>4 DEF CancelledCall, NewChannel
    <2>6. \A d \in Channels : Crossing(d) /\ channels[d].pending_client = t => d = c
      BY <1>1, <2>2 DEF IInv, BlockedExactlyWhileCalling
    <2>7. QED
      BY <2>2, <2>4, <2>5, <2>6 DEF WaitsFor
  <1>2. ASSUME IInv, IInv', [Next]_vars PROVE [Woken]_vars
    BY <1>1, <1>2
  <1>3. QED
    BY <1>2, Invariance, PTL DEF Spec, OnlyItsServerWakesAClient
=============================================================================
