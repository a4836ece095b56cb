\* Each component on a small instance of its own.  One that has used up its
\* requests and faults stops.
SPECIFICATION ServicesSpec
CONSTANTS
  \* Relays
  Calls = {c}
  Streams = {v}
  Notices = {n}
  Sockets = {1, 2}
  MaxEvents = 1
  MaxRequests = 2
  NoSocket = 0
  \* OAuth
  Forms = {f}
  Callbacks = {k1, k2}
  Logins = {l}
  Exchanges = {x1, x2}
  CodeTtl = 1
  LoginTtl = 1
  ApprovalTimeout = 1
  AttemptWindow = 1
  MaxAttempts = 1
  MaxClock = 1
  MaxOAuthRestarts = 1
  NoGrant = n
  \* FileLinks
  Gets = {g1, g2}
  Downloads = {d1, d2}
  MaxDownloads = 1
  MaxLinkRestarts = 1
  NoGet = n
INVARIANTS
  ServicesTypeOK
  AnswersAreTrue RoutesMatchPeers ClosedStreamIsReleased
  GrantSpentOnce HeldTokenIsGood
  LinkServesFile
PROPERTIES
  ToldOnce EveryRequestSettles
CHECK_DEADLOCK FALSE
