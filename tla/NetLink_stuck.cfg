SPECIFICATION LinkSpec
CONSTANTS
  Sockets = {1, 2, 3}
  NoSocket = 0
  MaxCuts = 3
PROPERTY LinkReturns
CHECK_DEADLOCK FALSE
