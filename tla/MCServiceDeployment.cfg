SPECIFICATION FairSpec
CONSTANTS
  NumThreads = 3
  Names = {"terminal", "log"}
  Replies = {"OK"}
  NumEndpoints = 2
  NumChannels = 2
  InitialThread = 0
  Mistakes = {}
  Backend <- MCBackend
  MayRegister <- MCMayRegister
  MayOpen <- MCMayOpen
INVARIANTS CallbacksMatchCalls ParksOnlyWhenAllExited
PROPERTIES ImplementsRequestReply EveryCallReturns
