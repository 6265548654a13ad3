SPECIFICATION Spec
CONSTANTS
  NumThreads = 2
  Names = {"terminal"}
  Replies = {"OK", "app_error"}
  NumEndpoints = 1
  NumChannels = 2
  InitialThread = 0
  Mistakes = {}
  Backend <- MCBackendArm64
  MayRegister <- MCServiceNames
  MayOpen <- MCApplicationNames
INVARIANT ReturnRegisterHoldsStatus
