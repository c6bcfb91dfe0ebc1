SPECIFICATION FairSpec
CONSTANTS
    Agents = {a1}
    Profiles = {p1, custom}
    Loaded = {p1}
    Evaluators = {e1}
    Reloaders = {r1, r2}
    MaxEdits = 1
    NoProfile = NoProfile
    NoReloader = NoReloader
INVARIANTS
    DecidedInForce
PROPERTIES
    EvaluationReturns
    ReloadReturns
