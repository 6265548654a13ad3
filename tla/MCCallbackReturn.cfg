SPECIFICATION HostSpec
CONSTANTS
  DwordBytes = 2
  QwordBytes = 3
  Base = 70
  Size = 44
  Calls <- GuestCalls
  SyscallResults <- MCSyscallResults
  Statuses <- MCStatuses
  Endpoints <- MCEndpoints
  Requests <- MCRequests
PROPERTIES CallbacksReturnToTheirCompletion
\* an exited, terminated or panicked guest is not run again
CHECK_DEADLOCK FALSE
