\* Two calls in any overlap but that of two claims, two identities. "docker"
\* does all that "local" does, and may leave a container behind.
CONSTANTS
  Invocations = {p1, p2}
  Ids = {i1, i2}
  Backends = {"builtin", "docker"}
  AtomicClaim = TRUE
SPECIFICATION FairSpec
INVARIANTS
  TypeOK
  CompleteIsWhole
  AnswerIsMine
  NoOrphanBehindComplete
PROPERTIES
  CompleteFrozen
  RunStoreSpec
  SoundRunReturns
