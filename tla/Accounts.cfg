CONSTANTS
    p1 = p1
    p2 = p2
    w1 = w1
    w2 = w2
    Person <- MCPerson
    Roles <- MCRoles
    LockoutFailures = 2
    MaxVersion = 2
    MaxRowVersion = 5
    InitialRole <- MCInitialRole
    Reviewers = {}
    NoHuman = NoHuman
    Worker = {w1}
    Idle = Idle
    MaxSessions = 1
SPECIFICATION Spec
CONSTRAINT SessionBound
INVARIANT EligibilityInSync
PROPERTY ImplementsBoundary
