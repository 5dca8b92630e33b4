SPECIFICATION Spec
CONSTANTS
    m1 = m1
    m2 = m2
    m3 = m3
    h1 = h1
    h2 = h2
    w1 = w1
    s1 = s1
    s2 = s2
    s3 = s3
    old = old
    new = new
    None = None
    Matter = {m1, m2}
    Hearing = {h1}
    Work = {w1}
    Step = {s1, s2, s3}
    Existing = {m1, w1, s1}
    Text = {old, new}
    Form = {f1, f2, f3}
    Administrator = {a1}
    Assistant = {}
    Paralegal = {}
    Imported <- MCImported
SYMMETRY MCForms
CHECK_DEADLOCK FALSE
PROPERTIES
    NoLostUpdate
    ConfirmationHolds
    ImplementsArchiveTree
    FamiliesBelowTheArchiveAreFrozen
INVARIANTS
    VersionsAreAccountedFor
    StepOrdersAreDistinct
