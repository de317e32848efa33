SPECIFICATION Spec
CONSTANTS
    Blocks <- ShallowBlocks
    EntryDepths <- AllDepths
INVARIANT EverySlotTrue
CHECK_DEADLOCK FALSE
