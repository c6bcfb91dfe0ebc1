SPECIFICATION Spec
CONSTANTS
    Agents = {}
    Profiles = {p1, p2}
    Loaded = {p1, p2}
    Evaluators = {}
    Reloaders = {r1, r2}
    MaxEdits = 2
    NoProfile = NoProfile
    NoReloader = NoReloader
SYMMETRY Symmetry
INVARIANTS
    TypeOK
    QueriesCompile
    ReloadTakesEffect
PROPERTIES
    ReloadAllOrNothing
    NeverOlder
