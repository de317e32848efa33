SPECIFICATION Spec
CONSTANTS
    Programs <- ManyPrograms
    Absences <- OneAbsent
    None = None
INVARIANTS
    TypeOK
    StructureAccepted
    WholeIsAccepted
    EveryEffectShown
    OwnedOnce
    SelectorsShown
\* The run is over when phase says how it ended.
CHECK_DEADLOCK FALSE
