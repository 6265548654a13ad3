------------------------------ MODULE UserLibc ------------------------------
(* A user program and the functions of its libc.  Start-up and exit, the     *)
(* formatted output and the byte loops share no data (exit.cpp, stdio.cpp    *)
(* and string.cpp have no variable in common), so a behaviour follows one of *)
(* them: part says which one, the two others rest in a state they start in.  *)
EXTENDS LibcExit, LibcStdio, LibcString

VARIABLE part  \* "exit", "stdio" or "string"

libcVars == <<exitVars, stdioVars, stringVars, part>>

ExitRests == ExitInit
StdioRests == StdioInit /\ call = CHOOSE c \in Calls : TRUE
StringRests ==
  /\ StringInit /\ operation = "memset"
  /\ length = 0 /\ destination = 0 /\ source = 0 /\ value = 0 /\ bytes = [a \in Addresses |-> 0]

LibcInit ==
  \/ part = "exit" /\ ExitInit /\ StdioRests /\ StringRests
  \/ part = "stdio" /\ ExitRests /\ StdioInit /\ StringRests
  \/ part = "string" /\ ExitRests /\ StdioRests /\ StringInit

ExitSteps == part = "exit" /\ ExitNext /\ UNCHANGED <<stdioVars, stringVars, part>>
StdioSteps == part = "stdio" /\ StdioNext /\ UNCHANGED <<exitVars, stringVars, part>>
StringSteps == part = "string" /\ StringNext /\ UNCHANGED <<exitVars, stdioVars, part>>

LibcNext == ExitSteps \/ StdioSteps \/ StringSteps

(* The library's own loops go on.  The program's code, which exit.cpp and    *)
(* crt0.c call, returns or exits in the end.                                 *)
LibraryGoesOn ==
  \/ part = "exit" /\ (UserStart \/ RunAtexitHandler \/ ThreadExit) /\ UNCHANGED <<stdioVars, stringVars, part>>
  \/ StdioSteps
  \/ StringSteps

ProgramReturns ==
  part = "exit" /\ (\E s \in Statuses : Return(s)) /\ UNCHANGED <<stdioVars, stringVars, part>>

LibcSpec ==
  /\ LibcInit /\ [][LibcNext]_libcVars
  /\ WF_libcVars(LibraryGoesOn) /\ WF_libcVars(ProgramReturns)

-----------------------------------------------------------------------------
(* A handler that records itself again keeps the loop of                     *)
(* run_atexit_handlers going for ever.  The bound MaxCalls leaves such       *)
(* programs out here; of the code EveryCallEnds is true only without them.   *)
RecordsFinitelyOften == <>[][calls' = calls]_calls

(* Everything comes to its end.  A program that calls atexit finitely often  *)
(* and whose own code returns exits, also when handlers record handlers and  *)
(* call exit inside the loop that runs them.  vsnprintf returns for every    *)
(* format, also one that ends inside a conversion: the cursor is set back    *)
(* only where it is then advanced again.  The byte loops return.             *)
EveryCallEnds ==
  RecordsFinitelyOften =>
  <>(CASE part = "exit" -> exited # <<>>
       [] part = "stdio" -> phase = "returned"
       [] part = "string" -> returned # <<>>)
=============================================================================
