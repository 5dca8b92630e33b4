SPECIFICATION Spec
CONSTANTS
    m1 = m1
    m2 = m2
    c1 = c1
    c2 = c2
    p1 = p1
    p2 = p2
    doc = doc
    new1 = new1
    new2 = new2
    poa = poa
    letter = letter
    other = other
    ref = ref
    Matter = {m1, m2}
    Client = {c1, c2}
    Person = {p1, p2}
    Form = {f1, f2, f3}
    None = None
    Paper = {doc, new1, new2, poa, letter, other, ref}
    KindOf <- MCKindOf
    MatterOf <- MCMatterOf
    Imported <- MCImported
    Desks <- MCDesks
    MaxVersion = 4
SYMMETRY MCForms
INVARIANTS
    ListsSound
    OneEffectPerForm
PROPERTIES
    NoLostUpdate
    ConfirmationHolds
    PapersRest
CHECK_DEADLOCK FALSE
