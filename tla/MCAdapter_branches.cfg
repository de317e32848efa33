SPECIFICATION Spec
CONSTANTS
    Programs <- ManyPrograms
    Absences <- OneAbsent
    None = None
INVARIANT BranchesTrue
CHECK_DEADLOCK FALSE
