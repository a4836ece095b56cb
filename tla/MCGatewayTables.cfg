\* Two overlapping runs of the inbox's poll loop, a menu decision and a restart,
\* on one message with two consoles to choose from; a project of two clients with
\* two consoles each, four requests over two slots, and one failed statement.
\* Once all is settled and every request used up there may be nothing to do.
SPECIFICATION TablesSpec
SYMMETRY TablesSymmetry
CONSTANTS
  \* Inbox
  Messages = {m1}
  Consoles = {c1, c2}
  Loops = {l1, l2}
  Taps = {t1}
  MaxAttempts = 1
  MaxRestarts = 1
  NoMessage = NoMessage
  NoConsole = NoConsole
  \* Projects
  Clients = {a, b}
  LocalSessions = {k1, k2}
  Slots = {q1, q2}
  MaxRequests = 4
  MaxFaults = 1
  NoClient = n
  NoLocal = n
INVARIANTS
  TypedWhereQueued NothingStranded ApprovedBeforeTyped
  ConsolesBelongToMembers ProjectFollowsMembers
PROPERTIES SettledIsNotRequeued
CHECK_DEADLOCK FALSE
