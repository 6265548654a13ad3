-------------------------- MODULE ServiceDeployment --------------------------
(***************************************************************************)
(* The user runtime under the programs ringos ships: services, which       *)
(* register endpoints and never open a channel (services/terminal), and    *)
(* applications, which open channels and never register                    *)
(* (user/samples).  Under this division of roles the runtime keeps the     *)
(* promises of docs/user-space-abi.md that it does not keep in general.    *)
(***************************************************************************)
EXTENDS UserRuntime

ASSUME RolesAreSeparate ==
    \A t \in Threads : MayRegister[t] = {} \/ MayOpen[t] = {}

\* The pairs of a client and the server it waits for.
Waits == {<<channels[c].pending_client, channels[c].pending_server>> :
             c \in {d \in Channels : Crossing(d)}}

Contract == INSTANCE RequestReply WITH
    None <- NoThread,
    alive <- {t \in Threads : threads[t].state # "EXITED"},
    running <- current,
    waits <- Waits

\* A callback is straight-line code that ends in the completion stub
\* (services/terminal/srv_terminal_main.cpp, user/sdk), so the server of a pending
\* call reaches RPC_COMPLETE unless it exits first.
CallbackReturns == \E t \in Threads : PendingOn(t) # {} /\ RpcComplete(t)

FairSpec == Spec /\ WF_vars(CallbackReturns)

-----------------------------------------------------------------------------

\* While a client is BLOCKED its server holds the CPU, inside the callback of the
\* endpoint that was called, and no other call is pending: nothing that runs can
\* be interrupted by a second request (RPC_CALL, set_current_thread, begin_call).
ServerOfBlockedClientRuns ==
    outcome = "running" =>
       \A c \in Channels : Pending(c) =>
          /\ Crossing(c)
          /\ channels[c].pending_server = current
          /\ user.at = endpoints[channels[c].endpoint].name
          /\ \A d \in Channels : Pending(d) => c = d

\* User code is inside a callback exactly while its thread serves a call: neither a
\* completion nor an exit of a peer ever resumes a thread in the wrong activation
\* (m_saved_server_context, prepare_rpc_resume, sync_resume_to_user_context).
CallbackExactlyWhileServing ==
    outcome = "running" => (user.at # Main <=> PendingOn(current) # {})

\* The kernel gives up the CPU for good only when every thread has exited: it never
\* parks with a client that still waits, or with a thread that could run
\* (has_runnable_thread, schedule_next_ready_thread).
ParksOnlyWhenAllExited ==
    outcome = "parked" => \A t \in Threads : threads[t].state = "EXITED"

\* "The kernel resumes the client" (docs/user-space-abi.md:114): every blocked
\* client runs again, unless the kernel panics.
EveryCallReturns ==
    \A t \in Threads :
       threads[t].state = "BLOCKED" ~> threads[t].state # "BLOCKED" \/ outcome = "panic"

\* The runtime implements the synchronous request-reply contract.
ImplementsRequestReply == Contract!RRSpec

\* Calls and callbacks belong together (RPC_CALL, RPC_COMPLETE, thread exit): the
\* server of a blocked client runs inside the callback, and nobody else does.
CallbacksMatchCalls == ServerOfBlockedClientRuns /\ CallbackExactlyWhileServing
=============================================================================
