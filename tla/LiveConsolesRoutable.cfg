\* A client that reconnects with one console.
SPECIFICATION Spec
CONSTANTS
  Consoles = {1}
  Sockets = {s1, s2}
  Hellos = {1, 2}
  None = None
INVARIANTS RunningConsolesAreRoutable
