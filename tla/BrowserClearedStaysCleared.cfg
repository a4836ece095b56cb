\* A tool answers after the tab it ran on was detached.
SPECIFICATION BrowserSpec
SYMMETRY Symmetry
CONSTANTS
  \* BrowserTools
  Calls = {c1, c2, c3}
  Tabs = {t1}
  NoCall = n
  NoTab = n
  \* BrowserRecordings
  Recordings = {r1, r2}
  Stops = {k1, k2}
  MaxCalls = 3
  MaxBreaks = 1
  NoRecording = n
INVARIANTS ClearedStaysCleared
CHECK_DEADLOCK FALSE
