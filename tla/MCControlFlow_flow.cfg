SPECIFICATION FairSpec
CONSTANT Codes <- ManyCodes
INVARIANTS
    TypeOK
    TilesExactly
    JumpdestsExact
    BlocksAreBasic
    StaticEdgesPresent
    OwnsExactly
    NoLateRefusal
    RealDispatchersAccepted
PROPERTY WorklistsEnd
\* The run is over when phase says how it ended.
CHECK_DEADLOCK FALSE
