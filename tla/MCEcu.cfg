SPECIFICATION Spec
CONSTANTS
    None = None
    Outputs <- MCOutputs
    Group <- MCGroup
    WideOutputs = {}
    MaxWindows = 3
    UsMod = 8
    MaxHorizonUs = 1
    HeartbeatExpiryUs = 1
    QueueCap = 6
    DrainCap = 6
    MaxLateness = 1
    CrankRev = 4
    MinuteUs = 2
    Cal <- MCCal
    CountMax = 3
    MaxRpm = 3
    ActionCap = 6
    Scenarios <- MCScenarios
INVARIANTS
    BoardFollowsRuntime
    LatchesAgree
    RevLimitsHold
    StepsAreAuthorized
    TelemetryIsTruthful
PROPERTIES
    LatchNeedsStandstill
