SPECIFICATION Spec
CONSTANTS
    Blocks <- ManyBlocks
    EntryDepths <- AllDepths
INVARIANTS
    TypeOK
    LabelsTrue
\* A block ends, and the EVM halts on a stack underflow.
CHECK_DEADLOCK FALSE
