SPECIFICATION OneFairKeySpec
CONSTANTS
    Attempts = {c1, c2}
    Requests = {r1, r2}
    Pages = {p1}
    NoRequest = NoRequest
    CooldownLimit = 1
    Faults = TRUE
INVARIANTS KeyTypeOK LockExclusive OneKeyPerAd RecordedKeyIsStored SecondKeyNeedsMishap
PROPERTIES NeverReopens SellsOneKeyPerAd CallbackAnswered
CHECK_DEADLOCK FALSE
