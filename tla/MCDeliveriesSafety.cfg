\* One note over two connections, the first of which may break at any point.
\* The console comes or goes once.  At the end there may be nothing left to do.
SPECIFICATION Spec
CONSTANTS
  Notes = {1}
  Sockets = {1, 2}
  PollLimit = 1
  MaxConsoleChanges = 1
  NoSocket = 0
INVARIANTS NothingForgotten
PROPERTIES KeepsContract
CHECK_DEADLOCK FALSE
