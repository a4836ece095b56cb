\* A half-open socket, its successor, and a third hello on either.
SPECIFICATION Spec
SYMMETRY SocketSymmetry
CONSTANTS
  Consoles = {1, 2}
  Sockets = {s1, s2}
  Hellos = {1, 2, 3}
  None = None
INVARIANTS SerialSyncsAreExact
