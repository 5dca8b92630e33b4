CONSTANTS
    p1 = p1
    p2 = p2
    w1 = w1
    w2 = w2
    Person <- MCPerson
    Roles <- MCRoles
    LockoutFailures = 1
    MaxVersion = 3
    MaxRowVersion = 3
    InitialRole <- MCInitialRole
    Reviewers = {}
    NoHuman = NoHuman
    Worker = {w1, w2}
    Idle = Idle
    MaxSessions = 1
SPECIFICATION RacesSpec
CONSTRAINT RacesBound
PROPERTY CommitsAreCurrent
