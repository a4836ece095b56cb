\* Each component on a small instance of its own.  One that has used up its
\* requests and faults stops.
SPECIFICATION ServicesSpec
CONSTANTS
  \* Broker
  Msgs = {m1}
  Attempts = {1, 2, 3}
  MaxFailures = 1
  MaxRestarts = 1
  NoAttempt = 0
  \* HumanRequests
  Questions = {r1, r2}
  Taps = {t1}
  MaxStoreFailures = 1
  MaxAskerRestarts = 1
  MaxDrops = 1
  NoQuestion = n
  \* AgentTurns
  Starts = {s1, s2}
  Turns = {t1, t2}
  MaxUpdates = 1
  EmptyPolls = 1
  FailedPolls = 1
  MaxPollFailures = 1
  MaxCalls = 3
  NoStart = n
  NoTurn = n
INVARIANTS
  ServicesTypeOK
  NeverGivesUp AcknowledgedWasDispatched
  LocalAnswerIsHeard ReturnedIsNotActive
  BusyHasTurn
PROPERTIES
  QueuedIsDispatched
  EveryQuestionReturns
  ProgressEndsWithTurn EndedTurnIsReported
CHECK_DEADLOCK FALSE
