SPECIFICATION Spec
CONSTANTS
    Agents = {a1}
    Handlers = {h1}
    Profiles = {p1}
    MaxAgents = 0
    MaxResets = 1
    Serial = TRUE
    Faults = {}
    NoAgent = NoAgent
    NoProfile = NoProfile
INVARIANTS
    RefusedCanBeStopped
