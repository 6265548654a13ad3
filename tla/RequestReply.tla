----------------------------- MODULE RequestReply -----------------------------
(***************************************************************************)
(* What docs/user-space-abi.md ("Channel Contract", "RPC Shape") promises  *)
(* of synchronous calls, without endpoints, channels, thread states or     *)
(* registers: a client that has issued a request waits for one server,     *)
(* which holds the CPU from then on; the wait ends once, when that server  *)
(* replies or is gone, and never with a client left waiting for nobody.    *)
(***************************************************************************)
CONSTANTS Threads, None

VARIABLES
    alive,      \* threads that have not exited
    running,    \* the thread that holds the CPU, or None
    waits       \* the pairs <<c, s>> of a client c that waits for a server s

contract == <<alive, running, waits>>

Waiting(c) == \E s \in Threads : <<c, s>> \in waits

RRInit ==
    /\ alive = Threads
    /\ running \in Threads
    /\ waits = {}

\* c, which runs, hands its request and the CPU to s, which waits for nobody.
Request(c, s) ==
    /\ running = c
    /\ s \in alive \ {c}
    /\ ~Waiting(s)
    /\ waits' = waits \cup {<<c, s>>}
    /\ running' = s
    /\ UNCHANGED alive

\* s, which runs, answers a client that waits for it, which gets the CPU back.
Reply(c, s) ==
    /\ running = s
    /\ <<c, s>> \in waits
    /\ waits' = waits \ {<<c, s>>}
    /\ running' = c
    /\ UNCHANGED alive

\* The running thread exits.  Nobody goes on waiting for it, and the CPU goes to
\* some thread that is left and does not wait itself, if there is one.
Exit(s) ==
    /\ running = s
    /\ alive' = alive \ {s}
    /\ waits' = {w \in waits : w[2] # s}
    /\ IF alive' = {} THEN running' = None
       ELSE running' \in alive' /\ \A u \in Threads : <<running', u>> \notin waits'

\* A thread that nobody waits for lets another thread run.
Yield(s) ==
    /\ running = s
    /\ \A c \in Threads : <<c, s>> \notin waits
    /\ running' \in alive
    /\ ~Waiting(running')
    /\ UNCHANGED <<alive, waits>>

RRNext ==
    \/ \E c, s \in Threads : Request(c, s) \/ Reply(c, s)
    \/ \E s \in Threads : Exit(s) \/ Yield(s)

RRSpec == RRInit /\ [][RRNext]_contract
=============================================================================
