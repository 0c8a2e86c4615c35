SPECIFICATION FairRelaySpec
CONSTANTS
    N = 2
    NoHeartbeatLimit = 2
    MaxLaunches = 2
    MaxFaults = 0
PROPERTIES DownIsRecovered RoundsGoOn
