\* Two messages behind one poll loop: the first one's prompt may stay unanswered.
SPECIFICATION FairSpec
CONSTANTS
  Messages = {m1, m2}
  Consoles = {c1}
  Loops = {l1}
  Taps = {}
  MaxAttempts = 2
  MaxRestarts = 1
  NoMessage = NoMessage
  NoConsole = NoConsole
PROPERTIES PendingIsServed WorkEnds
CHECK_DEADLOCK FALSE
