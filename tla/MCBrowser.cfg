\* Three tool calls on one tab, three starts and stops with faults: each used
\* up in the end.
SPECIFICATION BrowserSpec
SYMMETRY Symmetry
CONSTANTS
  \* BrowserTools
  Calls = {c1, c2, c3}
  Tabs = {t1}
  NoCall = n
  NoTab = n
  \* BrowserRecordings
  Recordings = {r1, r2}
  Stops = {k1, k2}
  MaxCalls = 3
  MaxBreaks = 1
  NoRecording = n
INVARIANTS
  BrowserTypeOK
  EntryIsOpen SerialOpensLeakNothing
  ActiveHasInstance
PROPERTIES
  StoppedStaysStopped StopEndsRecording
CHECK_DEADLOCK FALSE
