------------------------------ MODULE LibcExit ------------------------------
(* A user program from its first to its last step: the start-up code         *)
(* (src/user/crt/src/crt0.c) runs the initializers and main, and exit        *)
(* (src/user/libc/src/exit.cpp) runs the handlers that atexit recorded, the  *)
(* last one first.  Initializers, main and handlers are the program's own    *)
(* code: each may call atexit, exit or abort, or return.                     *)
EXTENDS Integers, Sequences

CONSTANTS
  Capacity,       \* ATEXIT_HANDLER_CAPACITY
  Initializers,   \* the tables between __xi_a and __xc_z: "null" or "function" for each entry
  Statuses,       \* exit statuses, of type int
  Unsigned,       \* 2^32: exit hands the status on as uint32_t
  MaxCalls,       \* bound: calls of atexit, so that handlers do not record handlers for ever
  MaxDepth        \* bound: exits nested in each other

ASSUME BoundsAssumption ==
  /\ Capacity \in Nat /\ Unsigned \in Nat \ {0} /\ MaxCalls \in Nat /\ MaxDepth \in Nat
  /\ Initializers \in Seq({"null", "function"})

VARIABLES
  handlers,  \* g_atexit_handlers, up to g_atexit_handler_count; 0 is a null function
  recorded,  \* history: functions recorded so far; a handler is named by its number
  calls,     \* calls of atexit so far
  frames,    \* the call stack, innermost last
  current,   \* the next entry of the initializer tables
  ran,       \* history: the handlers in the order they were started
  exited     \* <<status>> once the thread exited with it

exitVars == <<handlers, recorded, calls, frames, current, ran, exited>>

StartFrame == [code |-> "user_start", status |-> 0]
InitializerFrame == [code |-> "initializer", status |-> 0]
MainFrame == [code |-> "main", status |-> 0]
HandlerFrame(h) == [code |-> "handler", status |-> h]
ExitFrame(s) == [code |-> "exit", status |-> s]

Top == frames[Len(frames)]
Called(frame) == Append(frames, frame)
Callers == SubSeq(frames, 1, Len(frames) - 1)
ProgramRuns == exited = <<>> /\ Top.code \in {"initializer", "main", "handler"}
NestedExits == Len(SelectSeq(frames, LAMBDA f : f.code = "exit"))

-----------------------------------------------------------------------------
ExitInit ==
  /\ handlers = <<>> /\ recorded = 0 /\ calls = 0 /\ ran = <<>>
  /\ frames = <<StartFrame>> /\ current = 1
  /\ exited = <<>>

(* run_initializers, then main: null entries are passed over.                *)
UserStart ==
  /\ exited = <<>> /\ Top.code = "user_start"
  /\ \/ /\ current <= Len(Initializers) /\ current' = current + 1
        /\ frames' = IF Initializers[current] = "null" THEN frames ELSE Called(InitializerFrame)
     \/ current > Len(Initializers) /\ frames' = Called(MainFrame) /\ UNCHANGED current
  /\ UNCHANGED <<handlers, recorded, calls, ran, exited>>

\* Mutant: the table is filled from its other end.
RecordedFirst(h) == <<h>> \o handlers

Recorded(h) == Append(handlers, h)

(* A full table refuses the function.                                        *)
Atexit(null) ==
  /\ ProgramRuns /\ calls < MaxCalls /\ calls' = calls + 1
  /\ \/ Len(handlers) >= Capacity /\ UNCHANGED <<handlers, recorded>>
     \/ /\ Len(handlers) < Capacity /\ null
        /\ handlers' = Recorded(0) /\ UNCHANGED recorded
     \/ /\ Len(handlers) < Capacity /\ ~null
        /\ recorded' = recorded + 1 /\ handlers' = Recorded(recorded + 1)
  /\ UNCHANGED <<frames, current, ran, exited>>

(* exit and abort, which is exit(EXIT_FAILURE).                              *)
Exit(s) ==
  /\ ProgramRuns /\ NestedExits < MaxDepth
  /\ frames' = Called(ExitFrame(s))
  /\ UNCHANGED <<handlers, recorded, calls, current, ran, exited>>

(* main returns into user_start, which exits with its status.                *)
Return(s) ==
  /\ ProgramRuns
  /\ frames' = IF Top.code = "main" THEN Append(Callers, ExitFrame(s)) ELSE Callers
  /\ UNCHANGED <<handlers, recorded, calls, current, ran, exited>>

\* Mutant: the count is lowered only after the last handler has returned.
LeftBehind == IF Len(handlers) = 1 THEN handlers ELSE SubSeq(handlers, 1, Len(handlers) - 1)

(* The count is lowered before the handler is called.                        *)
Left == SubSeq(handlers, 1, Len(handlers) - 1)
Newest == Len(handlers)

RunAtexitHandler ==
  /\ exited = <<>> /\ Top.code = "exit" /\ handlers # <<>>
  /\ LET h == handlers[Newest] IN
     /\ handlers' = Left
     /\ \/ h = 0 /\ UNCHANGED <<frames, ran>>
        \/ h # 0 /\ frames' = Called(HandlerFrame(h)) /\ ran' = Append(ran, h)
  /\ UNCHANGED <<recorded, calls, current, exited>>

ThreadExit ==
  /\ exited = <<>> /\ Top.code = "exit" /\ handlers = <<>>
  /\ exited' = <<Top.status % Unsigned>>
  /\ UNCHANGED <<handlers, recorded, calls, frames, current, ran>>

ExitNext ==
  \/ UserStart \/ RunAtexitHandler \/ ThreadExit
  \/ \E null \in BOOLEAN : Atexit(null)
  \/ \E s \in Statuses : Exit(s) \/ Return(s)

ExitSpec == ExitInit /\ [][ExitNext]_exitVars

-----------------------------------------------------------------------------
(* Properties.                                                               *)

(* No handler is started twice, also when a handler calls exit again, and a  *)
(* handler that was started is no longer in the table.                       *)
HandlersRunOnce ==
  /\ \A j, k \in DOMAIN ran : j # k => ran[j] # ran[k]
  /\ \A j \in DOMAIN ran : \A k \in DOMAIN handlers : ran[j] # handlers[k]

(* A handler is started only when no handler that was recorded after it is   *)
(* waiting, whether main, an initializer or another handler recorded it.     *)
LastInFirstOut ==
  [][\A h \in 1 .. recorded : ran' = Append(ran, h) =>
       \A k \in DOMAIN handlers' : handlers'[k] < h]_exitVars

(* A thread exits only when every handler that was recorded has been         *)
(* started, whichever of the nested exits ends it.                           *)
ExitLeavesNoHandler ==
  exited # <<>> => \A h \in 1 .. recorded : \E k \in DOMAIN ran : ran[k] = h

(* The handlers that atexit recorded have run when the thread exits, each of *)
(* them once, whatever they do themselves (exit.cpp).                        *)
HandlersRunExactlyOnce == HandlersRunOnce /\ ExitLeavesNoHandler
=============================================================================
