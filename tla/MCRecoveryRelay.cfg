SPECIFICATION RelaySpec
CONSTANTS
    N = 2
    NoHeartbeatLimit = 2
    MaxLaunches = 2
    MaxFaults = 1
INVARIANTS RelayTypeOK RelayNeverLocked QueueDiscipline BurstBounded
PROPERTY OnlyDeadIsQueued ServedInOrder
