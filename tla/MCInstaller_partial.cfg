SPECIFICATION Spec
CONSTANTS
    i1 = i1
    i2 = i2
    h1 = h1
    h2 = h2
    script_file = script_file
    Skill = Skill
    Installers <- MCInstallers
    Homes <- MCHomes
    Payload <- MCPayload
    MaxSignals = 1
SYMMETRY Symmetry
CHECK_DEADLOCK FALSE
INVARIANTS
    SuccessMeansInstalled
    NoPartialInstall
    ExistingIsRefused
