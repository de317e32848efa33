\* Two calls in any overlap, for the same bytecode and backend.
CONSTANTS
  Invocations = {p1, p2}
  Ids = {i1}
  Backends = {"builtin"}
  AtomicClaim = FALSE
SPECIFICATION FairSpec
PROPERTIES
  SettledFrozen
  EveryCallEnds
