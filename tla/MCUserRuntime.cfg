SPECIFICATION Spec
CONSTANTS
  NumThreads = 2
  Names = {"a", "b"}
  Replies = {"OK", "app_error"}
  NumEndpoints = 2
  NumChannels = 2
  InitialThread = 0
  Mistakes = {"FAULT", "BAD_HANDLE", "NOT_SUPPORTED"}
  Backend <- MCBackend
  MayRegister <- MCAllNames
  MayOpen <- MCAllNames
INVARIANTS TypeOK OneThreadRuns BlockedExactlyWhileCalling BusyExactlyWhileServing NamesLeadToLiveOwners SavedStateRestorable
PROPERTY OnlyItsServerWakesAClient
