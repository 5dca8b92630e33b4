SPECIFICATION Spec
CONSTANTS
    acme = acme
    beta = beta
    gamma = gamma
    kim = kim
    lee = lee
    max = max
    plain = plain
    other = other
    Actor = {assistant, admin}
    Administrator = {admin}
    Client = {acme, beta, gamma}
    Contact = {kim, lee, max}
    Text = {plain, other}
    Form = {f1, f2}
    None = None
    ImportedClients <- MCClients
    ImportedContacts <- MCContacts
SYMMETRY MCForms
INVARIANTS
    ReplayedCreationsAreAnswered
CHECK_DEADLOCK FALSE
