SPECIFICATION Spec
CONSTANTS
    Agents = {a1, a2}
    Handlers = {h1}
    Profiles = {p1, p2}
    MaxAgents = 1
    MaxResets = 1
    Serial = FALSE
    Faults = {"crash", "disk"}
    NoAgent = NoAgent
    NoProfile = NoProfile
SYMMETRY Symmetry
INVARIANTS
    PolicyInSync
    RegistrationsCapped
PROPERTIES
    ImplementsDurable
