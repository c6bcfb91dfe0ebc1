SPECIFICATION FairSpec
CONSTANTS
    Agents = {a1}
    Handlers = {h1, h2}
    Profiles = {p1, p2}
    MaxAgents = 0
    MaxResets = 1
    Serial = FALSE
    Faults = {"crash", "dbus", "disk"}
    NoAgent = NoAgent
    NoProfile = NoProfile
INVARIANTS
    TypeOK
    StartingOwned
PROPERTIES
    StartingResolves
    RequestsReturn
    ImplementsSandboxContract
