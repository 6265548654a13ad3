SPECIFICATION LibcSpec
CONSTANTS
  Capacity = 2
  Initializers <- MCInitializers
  Statuses <- MCStatuses
  Unsigned = 256
  MaxCalls = 4
  MaxDepth = 3
  Calls <- MCCalls
  LogBuffer = 8
  LogCapacity = 5
  IntHalf = 8
  WideHalf = 128
  Reach = 10
  Size = 4
  Bytes <- MCBytes
INVARIANTS HandlersRunExactlyOnce FormatsTheText PrintsAllOrNothing DestinationAsWanted ScansExactly
PROPERTIES LastInFirstOut EveryCallEnds
\* the thread exited or the function returned
CHECK_DEADLOCK FALSE
