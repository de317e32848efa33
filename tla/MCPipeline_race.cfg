\* Two calls made at the same time for the same bytecode and backend.
CONSTANTS
  Invocations = {p1, p2}
  Ids = {i1}
  Backends = {"builtin"}
  AtomicClaim = FALSE
SPECIFICATION Spec
PROPERTIES
  CompleteFrozen
