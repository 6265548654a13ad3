SPECIFICATION Spec
CONSTANTS
  NumThreads = 2
  Names = {"a", "b"}
  Replies = {"OK", "app_error"}
  NumEndpoints = 2
  NumChannels = 2
  InitialThread = 0
  Mistakes = {}
  Backend <- MCBackendX64
  MayRegister <- MCAllNames
  MayOpen <- MCAllNames
INVARIANT NoClientLeftWhenParked
