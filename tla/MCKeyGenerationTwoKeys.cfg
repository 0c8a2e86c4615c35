SPECIFICATION KeySpec
CONSTANTS
    Attempts = {c1, c2}
    Requests = {r1, r2}
    Pages = {}
    NoRequest = NoRequest
    CooldownLimit = 5
    Faults = FALSE
SYMMETRY KeySymmetry
INVARIANTS OneUnredeemedKey
CHECK_DEADLOCK FALSE
