SPECIFICATION Spec
CONSTANTS
    f = f
    g = g
    b1 = b1
    b2 = b2
    b3 = b3
    n1 = n1
    n2 = n2
    catch = catch
    bad = bad
    selector = selector
    other = other
    None = None
    Symbolic = Symbolic
    MaxStatements = 6
    MaxFacts = 5
    Sessions <- MCSessions
    ProposalsFor <- MCProposalsFor
    Identifiers <- MCIdentifiers
    Renderable <- MCRenderable
CHECK_DEADLOCK FALSE
INVARIANTS
    TypeOK
    ContextAccounts
    OnlyForeignIsRefused
    AcceptedIsOwn
    LabelsKeepApart
