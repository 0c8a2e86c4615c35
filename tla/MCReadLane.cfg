SPECIFICATION FairReadSpec
CONSTANTS
    N = 2
    Viewed = {1}
    Workers = {w1, w2}
    BatchSize = 1
    HashOf <- AlternatingHashes
    MaxCommits = 3
    MaxOf <- FirstChangesMost
    MaxClock = 2
INVARIANTS ReadTypeOK LabelsAreHonest OnlyKnownMisses
PROPERTIES ShownNeverGoesBack ShownTrails CacheCatchesUp
