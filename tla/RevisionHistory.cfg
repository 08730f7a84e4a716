CONSTANTS
    Call = {c1, c2, c3}
    Limit = 1
    MaxRev = 3
    None = None
SYMMETRY Symmetry
SPECIFICATION Spec
INVARIANTS
    ListIsOneStretch
    DetailsOfSelection
    SpinnersHaveCalls
PROPERTIES
    GivesUpOnlyWhenGarbled
