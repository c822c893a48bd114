SPECIFICATION Spec
CONSTANTS
  Sockets = {1, 2, 3}
  NoSocket = 0
  MaxCuts = 3
  Values = {0, 65543}
  FuncConfigs <- MCFuncConfigs
  Sessions <- MCSessions
  Uploads <- MCUploads
  FileTypes = {1, 6}
  FlashPages = 2
  MaxUnits = 3
  MaxUploads = 3
  Work = {"link", "settings", "update", "interrupted update"}
  Cuts <- MCCuts
  Tries <- MCTries
  Starts = 1
INVARIANTS TypeOK ConnectsItsSocket LinkAgrees FunctionBitsAgree RegistersFollowMemory
 DurableConfig CompleteIsWhole CompleteIsStored BurnComplete
CHECK_DEADLOCK FALSE
PROPERTY BackOnLine
