SPECIFICATION ImportSpec
CONSTANTS
  DosSize = 2
  NtSize = 4
  SectionSize = 1
  Reach = 150
  Images <- MCImages
  Configs <- MCConfigs
  NameSize = 6
  OrdinalFlag = 5000
  MaxSyscall = 65535
  Exports <- MCExports
  Resolvers = {"none", "win32"}
INVARIANTS LoadedAsDeclared BindingIsExact ProbedImagesParse
PROPERTY LoaderReturns
\* the loader returns: nothing follows
CHECK_DEADLOCK FALSE
