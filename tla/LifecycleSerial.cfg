SPECIFICATION Spec
CONSTANTS
    Agents = {a1, a2}
    Handlers = {h1, h2}
    Profiles = {p1, p2}
    MaxAgents = 1
    MaxResets = 1
    Serial = TRUE
    Faults = {"disk"}
    NoAgent = NoAgent
    NoProfile = NoProfile
SYMMETRY Symmetry
INVARIANTS
    SandboxAccounted
    SandboxAsRecorded
    StoppedIsDown
    RunningCapped
    AuditAgrees
PROPERTIES
    ImplementsContract
