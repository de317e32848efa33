\* Three commands, no apply at the same time as another agent command, with
\* deaths and one hand edit.
CONSTANTS
  Calls = {c1, c2, c3}
  Proposals = {good1, good2, bad}
  Grounded = {good1, good2}
  Releases = {r1, r2}
  HomeRelease = r1
  MaxEdits = 1
  ApplyAlone = TRUE
SPECIFICATION FairSpec
INVARIANTS
  TypeOK
PROPERTIES
  OverlayStoreSpec
  SoundApplyReturns
