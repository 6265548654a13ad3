SPECIFICATION BootSpec
CONSTANTS
  Platforms = {"x64", "arm64"}
  Processes = 2
  ImagePages = 2
  RegionPages = 6
  Attached <- MCAttached
INVARIANTS EveryProcessStartsWhole MappingsAreSeparate
\* user code runs, or the kernel stopped: nothing follows
CHECK_DEADLOCK FALSE
