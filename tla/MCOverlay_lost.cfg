\* Two applies at the same time; nothing is edited.
CONSTANTS
  Calls = {c1, c2}
  Proposals = {good1, good2}
  Grounded = {good1, good2}
  Releases = {r1}
  HomeRelease = r1
  MaxEdits = 0
  ApplyAlone = FALSE
SPECIFICATION Spec
INVARIANTS
  QuietIsBound
