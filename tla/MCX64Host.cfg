SPECIFICATION HostSpec
CONSTANTS
  DwordBytes = 2
  QwordBytes = 3
  Base = 70
  Size = 44
  Calls <- MCCalls
  SyscallResults <- MCSyscallResults
  Statuses <- MCStatuses
  Endpoints <- MCEndpoints
  Requests <- MCRequests
INVARIANTS BudgetIsExact FaultIsLocated GuestFaultsEndTheThread
PROPERTIES FaultsArePrecise KeepsToTheProgram ResumesBehindTheSyscall RequestsSpareTheStack KernelRegainsControl
\* an exited, terminated or panicked guest is not run again
CHECK_DEADLOCK FALSE
