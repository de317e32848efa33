\* Three commands in any overlap, with deaths and one hand edit at any moment.
CONSTANTS
  Calls = {c1, c2, c3}
  Proposals = {good1, good2, bad}
  Grounded = {good1, good2}
  Releases = {r1, r2}
  HomeRelease = r1
  MaxEdits = 1
  ApplyAlone = FALSE
SPECIFICATION Spec
SYMMETRY CallSymmetry
INVARIANTS
  RenderedIsGrounded
PROPERTIES
  DeadRunIsInert
