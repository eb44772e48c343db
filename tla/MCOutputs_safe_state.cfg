SPECIFICATION Spec
CONSTANTS
    inj = inj
    ign = ign
    None = None
    Outputs = {inj, ign}
    Group <- MCGroup
    WideOutputs = {}
    MaxWindows = 3
    UsMod = 10
    MaxHorizonUs = 3
    HeartbeatExpiryUs = 2
    QueueCap = 4
    DrainCap = 2
    Wired = {inj, ign}
    FaultyPins = {}
    Bank = "ScheduledOutputs"
    Executors = {"execute"}
    CancelReasons = {"SyncLoss"}
    MaxLead = 2
    MaxPulse = 2
    MaxLateness = 2
    HorizonIds = {}
    HorizonLens = {}
    HeartbeatLeads = {}
    Masks = {}
PROPERTIES
    SafeStateIsLow
