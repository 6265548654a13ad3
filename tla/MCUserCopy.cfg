SPECIFICATION Spec
CONSTANTS
  Top = 7
  MaxMappings = 2
  Processes = {"app", "server"}
  Storage <- MCStorage
  UserBases = {1, 3, 6}
  Sizes = {2}
  Ends = {2, 4}
  BufferSize = 4
INVARIANTS TranslationExact CopiesExactly StringTerminated
PROPERTIES EveryCopyReturns
