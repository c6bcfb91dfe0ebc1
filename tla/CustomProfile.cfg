SPECIFICATION Spec
CONSTANTS
    Agents = {a1}
    Profiles = {p1, custom}
    Loaded = {p1}
    Evaluators = {e1}
    Reloaders = {r1}
    MaxEdits = 1
    NoProfile = NoProfile
    NoReloader = NoReloader
INVARIANTS
    CustomProfileServed
