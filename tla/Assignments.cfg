SPECIFICATION Spec
CONSTANTS
    ana = ana
    ben = ben
    cem = cem
    matter = matter
    hearing = hearing
    work = work
    Person = {ana, ben, cem}
    Matter = {matter}
    Hearing = {hearing}
    Work = {work}
    Form = {f1, f2}
    Imported <- MCImported
    None = None
SYMMETRY MCForms
INVARIANTS
    ListsSound
    OnlyStaleOrIneligibleIsRefused
PROPERTIES
    JoinersAreActive
    NobodyLeavesUnseen
    AttendeesKeepTheirOrder
CHECK_DEADLOCK FALSE
