\* One note over two connections; the extension over two sockets, with the
\* switch used once and one fault.  At the end there may be nothing left to do.
SPECIFICATION ConnectionsSpec
CONSTANTS
  \* Deliveries
  Notes = {1}
  Sockets = {1, 2}
  PollLimit = 1
  MaxConsoleChanges = 0
  NoSocket = 0
  \* BrowserAttach
  AttachSockets = {s1, s2}
  Connects = {k1, k2}
  MaxToggles = 1
  MaxFaults = 1
  NoAttachSocket = n
INVARIANTS ConnectionsTypeOK NewestIsListed
PROPERTIES QueuedIsSettled EnabledAttaches
CHECK_DEADLOCK FALSE
