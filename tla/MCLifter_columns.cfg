SPECIFICATION Spec
CONSTANTS
    Blocks <- FullCalls
    EntryDepths <- AllDepths
INVARIANT CallColumnsTrue
CHECK_DEADLOCK FALSE
