SPECIFICATION MCSpec
CONSTANTS
    inj = inj
    ign = ign
    None = None
    Outputs = {inj, ign}
    Group <- MCGroup
    WideOutputs = {}
    MaxWindows = 2
    UsMod = 7
    MaxHorizonUs = 2
    HeartbeatExpiryUs = 1
    QueueCap = 4
    DrainCap = 2
    Wired = {inj, ign}
    FaultyPins = {ign}
    Bank = "ScheduledOutputs4"
    Executors = {"execute"}
    CancelReasons = {}
    MaxLead = 2
    MaxPulse = 1
    MaxLateness = 1
    HorizonIds = {1, 2}
    HorizonLens = {2, 3}
    HeartbeatLeads = {1}
    Masks <- MCMasks
    Teeth = 4
    MinValidPeriod = 1
    SyncTimeout = 20
    ToothTime = 4
    Disturbances = {1, 2, 3, 25}
    Frames = 3
    PostTriggers = {0, 2, 3, 4}
    Second = 4
    MinInterval = 2
    MaxRate = 1
    MulMax = 16
    Readings = {0, 1, 2, 5}
    Gaps = {1, 2, 3, 5}
INVARIANTS
    TablesAgree
    LoopIsDrain
PROPERTIES
    HighKeepsItsLow
    HorizonsGovern
    SignalsAreFaithful
