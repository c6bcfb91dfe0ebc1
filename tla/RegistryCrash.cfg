SPECIFICATION Spec
CONSTANTS
    Agents = {a1, a2, a3}
    Profiles = {p1}
    Handlers = {h1, h2}
    MaxAgents = 2
    Faults = {"crash", "disk", "read"}
    NoProfile = NoProfile
    NoHandler = NoHandler
    Torn = Torn
    Open = Open
SYMMETRY Symmetry
INVARIANTS
    TypeOK
    FileWhole
    AnsweredSurvives
    RestoredHasWorkspace
PROPERTIES
    ImplementsDurable
