SPECIFICATION TerminalSpec
CONSTANTS
  Characters = {"a", "b", "NUL", "CR", "LF"}
  LineCapacity = 3
  LogCapacity = 4
  MaxBytes = 4
  Requests <- MCRequests
  MaxCalls = 4
INVARIANTS WritesArrive LinesEndWhereTheyWereWritten
\* clients may stop calling
CHECK_DEADLOCK FALSE
