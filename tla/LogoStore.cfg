CONSTANTS
    s1 = s1
    s2 = s2
    s3 = s3
    s4 = s4
    c1 = c1
    c2 = c2
    a1 = a1
    a2 = a2
    w1 = w1
    w2 = w2
    Import = Import
    Garbage = Garbage
    None = None
    Submission <- MCSubmission
    Content <- MCContent
    Extension <- MCExtension
    Actor = {a1, a2}
    Administrators = {a1}
    Requests <- MCRequests
    Worker = {w1, w2}
    MaxClientVersion = 2
    MaxFaults = 1
SPECIFICATION FairSpec
INVARIANTS TypeOK RegisteredFilesDurable AnswersAgree AppliedRequestsWelcome
PROPERTIES ImplementsHistory ResendingSettles
