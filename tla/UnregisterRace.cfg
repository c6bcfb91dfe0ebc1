SPECIFICATION Spec
CONSTANTS
    Agents = {a1}
    Handlers = {h1, h2}
    Profiles = {p1}
    MaxAgents = 0
    MaxResets = 1
    Serial = FALSE
    Faults = {}
    NoAgent = NoAgent
    NoProfile = NoProfile
PROPERTIES
    UnregisterOnlyWhenDown
