-------------------------- MODULE TerminalService --------------------------
(* srv_terminal (src/services/terminal/srv_terminal_main.cpp): its RPC        *)
(* callback collects what clients write in a line buffer and hands each line *)
(* to the kernel's debug log.  One request is handled at a time; it is        *)
(* followed character by character.                                          *)
EXTENDS Naturals, Sequences, FiniteSets

CONSTANTS
  Characters,    \* the values of a byte
  LineCapacity,  \* TERMINAL_SERVICE_LINE_CAPACITY
  LogCapacity,   \* size of the message buffer of SYSCALL_DEBUG_LOG
  MaxBytes,      \* TERMINAL_SERVICE_WRITE_MAX_BYTES
  Requests,      \* [size, operation, length, bytes]: what clients may send; size is "short",
                 \*   "write" (that of a terminal_service_write_request) or "other"
  MaxCalls       \* bound: requests in a behaviour

VARIABLES
  line,     \* g_terminal_line, up to g_terminal_line_length
  console,  \* what the kernel printed: the characters of every line and its end
  request,  \* the request being handled
  written,  \* how many of its bytes were handled
  status,   \* "handling", or what the last callback returned
  arrived,  \* history: the bytes of all write requests so far
  calls     \* requests so far

terminalVars == <<line, console, request, written, status, arrived, calls>>

NUL == "NUL"
CR == "CR"
LF == "LF"
Printable(c) == c \notin {NUL, CR, LF}

(* A line of 95 characters and its terminator fit the 96 bytes of the log's  *)
(* message buffer.                                                           *)
ASSUME CapacitiesAssumption ==
  /\ LineCapacity \in Nat \ {0} /\ LogCapacity \in Nat /\ MaxBytes \in Nat
  /\ LineCapacity < LogCapacity
  /\ {NUL, CR, LF} \subseteq Characters
  /\ \A r \in Requests :
       /\ r.length \in Nat /\ r.bytes \in Seq(Characters)
       /\ r.length <= MaxBytes => r.length <= Len(r.bytes)

-----------------------------------------------------------------------------
(* SYSCALL_DEBUG_LOG copies the message with its terminator or fails.        *)
LogStatus(message) == IF Len(message) < LogCapacity THEN "OK" ELSE "BUFFER_TOO_SMALL"
Logged(message) == IF Len(message) < LogCapacity THEN console \o message \o <<LF>> ELSE console

(* terminal_flush_line: an empty line is not logged; otherwise the line is   *)
(* given up, whether it was logged or not.                                   *)
FlushStatus == IF line = <<>> THEN "OK" ELSE LogStatus(line)

\* Mutant: empty lines are logged as well.
FlushedAlways == Logged(line)

Flushed == IF line = <<>> THEN console ELSE Logged(line)

TerminalInit ==
  /\ line = <<>> /\ console = <<>> /\ arrived = <<>>
  /\ request \in Requests /\ written = 0 /\ status = "OK" /\ calls = 0

(* terminal_handle_request and the length check of terminal_write_buffer.    *)
Refusal(r) ==
  IF r.size = "short" THEN "INVALID_ARGUMENT"
  ELSE IF r.operation # "WRITE_BUFFER" THEN "NOT_SUPPORTED"
  ELSE IF r.size # "write" \/ r.length = 0 \/ r.length > MaxBytes THEN "INVALID_ARGUMENT"
  ELSE "OK"

TerminalHandleRequest(r) ==
  /\ status # "handling" /\ calls < MaxCalls
  /\ request' = r /\ written' = 0 /\ calls' = calls + 1
  /\ status' = IF Refusal(r) = "OK" THEN "handling" ELSE Refusal(r)
  /\ UNCHANGED <<line, console, arrived>>

Character == request.bytes[written + 1]

\* Mutant: the line is flushed one character too late.
LineFullLate == Len(line) > LineCapacity

LineFull == Len(line) = LineCapacity

(* The line after a printable character: behind what is there, or first of   *)
(* a new one.                                                                *)
Kept(c) == IF LineFull THEN <<c>> ELSE Append(line, c)

(* terminal_write_character, and what terminal_write_buffer makes of its     *)
(* status: the bytes behind a failure are not handled.                       *)
TerminalWriteCharacter ==
  /\ status = "handling" /\ written < request.length
  /\ LET c == Character
         outcome == IF c = LF \/ (Printable(c) /\ LineFull) THEN FlushStatus ELSE "OK" IN
     /\ \/ /\ c \in {NUL, CR} /\ UNCHANGED <<line, console>>
        \/ /\ c = LF /\ console' = Flushed /\ line' = <<>>
        \/ /\ Printable(c)
           /\ console' = IF LineFull THEN Flushed ELSE console
           /\ line' = IF outcome = "OK" THEN Kept(c) ELSE <<>>
     /\ status' = IF outcome = "OK" THEN "handling" ELSE outcome
     /\ arrived' = Append(arrived, c)
  /\ written' = written + 1
  /\ UNCHANGED <<request, calls>>

TerminalReplies ==
  /\ status = "handling" /\ written = request.length
  /\ status' = "OK"
  /\ UNCHANGED <<line, console, request, written, arrived, calls>>

TerminalNext ==
  (\E r \in Requests : TerminalHandleRequest(r)) \/ TerminalWriteCharacter \/ TerminalReplies

TerminalSpec == TerminalInit /\ [][TerminalNext]_terminalVars

-----------------------------------------------------------------------------
(* Properties.                                                               *)

(* What of a text a line can hold.                                           *)
Text(s) ==
  LET kept[n \in 0 .. Len(s)] ==
        IF n = 0 THEN <<>>
        ELSE IF Printable(s[n]) THEN Append(kept[n - 1], s[n]) ELSE kept[n - 1]
  IN  kept[Len(s)]

(* What clients write comes out: the printed characters, followed by those   *)
(* still in the line buffer, are the printable characters that arrived, in   *)
(* their order, however the text is cut into requests and lines.  The buffer *)
(* never grows beyond its capacity, and every printed line is a whole line   *)
(* that the kernel accepts.                                                  *)
NothingIsLost ==
  /\ Text(console) \o line = Text(arrived)
  /\ Len(line) <= LineCapacity

(* Every write request that is well-formed succeeds: the service never fills *)
(* a line that the debug log refuses.                                        *)
WritesSucceed == Refusal(request) = "OK" => status \in {"handling", "OK"}

(* No empty line is printed, and a line shorter than the buffer is printed   *)
(* only because its end arrived.                                             *)
Feeds(s) == {k \in DOMAIN s : s[k] = LF}
Ends == Feeds(console)
LineOf(k) == LET before == {j \in Ends : j < k} IN
  k - 1 - (IF before = {} THEN 0 ELSE CHOOSE j \in before : \A m \in before : m <= j)

LinesEndWhereTheyWereWritten ==
  /\ \A k \in Ends : LineOf(k) \in 1 .. LineCapacity
  /\ Cardinality({k \in Ends : LineOf(k) < LineCapacity}) <= Cardinality(Feeds(arrived))

(* A write that is accepted is written (terminal_write and flush_line).      *)
WritesArrive == NothingIsLost /\ WritesSucceed
=============================================================================
