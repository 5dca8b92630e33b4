SPECIFICATION Spec
CONSTANTS
    ana = ana
    ben = ben
    cem = cem
    anaName = anaName
    anaOther = anaOther
    benName = benName
    free = free
    freeAlike = freeAlike
    plain = plain
    Person = {ana, ben, cem}
    Team = {team}
    Spelling = {anaName, anaOther, benName, free, freeAlike}
    Imported = {anaName, anaOther, benName}
    Form = {f1, f2, f3, f4, f5}
    Text = {plain}
    None = None
    Norm <- MCNorm
    FirstPeople <- MCPeople
    FirstAliases <- MCAliases
    FirstReviewers <- MCReviewers
SYMMETRY MCForms
INVARIANTS
    NamesSound
    ReviewersAreEligible
PROPERTIES
    NoLostUpdate
CHECK_DEADLOCK FALSE
