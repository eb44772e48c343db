SPECIFICATION Spec
CONSTANTS
    None = None
    Outputs <- MCOutputs
    Group <- MCGroup
    WideOutputs = {}
    MaxWindows = 4
    UsMod = 32
    MaxHorizonUs = 1
    HeartbeatExpiryUs = 1
    QueueCap = 8
    DrainCap = 8
    MaxLateness = 1
    CrankRev = 4
    MinuteUs = 2
    Cal <- MCCal
    CountMax = 3
    MaxRpm = 3
    ActionCap = 7
    Scenarios <- MCSteady
INVARIANTS
    RearmsWhenFree
