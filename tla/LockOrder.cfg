SPECIFICATION FairSpec
CONSTANTS
    Txn = {1, 2, 3}
    MaxId = 2
    MaxAttempts = 2
    Mixes <- MCMixes
INVARIANTS
    CaseSavesNeverDeadlock
    ContentionAloneRefusesNobody
PROPERTY
    EveryRequestIsAnswered
CHECK_DEADLOCK FALSE
