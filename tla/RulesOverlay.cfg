SPECIFICATION Spec
CONSTANTS
    Agents = {a1, a2}
    Nobody = Nobody
    MaxRules = 2
SYMMETRY Symmetry
INVARIANTS
    AreasKept
    UngrantedStaysOut
    ProfilesNested
PROPERTIES
    AddedRulesAct
