\* Two overlapping runs of the poll loop and a menu decision on one message.
SPECIFICATION Spec
SYMMETRY LoopAndConsoleSymmetry
CONSTANTS
  Messages = {m1}
  Consoles = {c1}
  Loops = {l1, l2}
  Taps = {t1}
  MaxAttempts = 2
  MaxRestarts = 0
  NoMessage = NoMessage
  NoConsole = NoConsole
PROPERTIES TerminalOutcomes
CHECK_DEADLOCK FALSE
