SPECIFICATION MCSpec
CONSTANTS
    inj = inj
    ign = ign
    None = None
    Outputs = {inj}
    Group <- MCGroup
    WideOutputs = {}
    MaxWindows = 3
    UsMod = 7
    MaxHorizonUs = 3
    HeartbeatExpiryUs = 2
    QueueCap = 4
    DrainCap = 2
    Wired = {inj}
    FaultyPins = {}
    Bank = "ScheduledOutputs"
    Executors = {"execute", "execute_batch"}
    CancelReasons = {"SyncLoss"}
    MaxLead = 2
    MaxPulse = 2
    MaxLateness = 1
    HorizonIds = {}
    HorizonLens = {}
    HeartbeatLeads = {}
    Masks = {}
    BufLen = 14
    InLen = 9
    ReplyLen = 12
    Chunk = 3
    Budget = 2
    Requests <- MCRequests
    Strays <- MCStrays
    Faults = 2
    t1 = t1
    t2 = t2
    Threads = {t1, t2}
    SlotMax = 1
    GenerationMax = 2
    NonceMax = 2
    MaxCreated = 3
INVARIANTS
    HandlesAreSafe
PROPERTIES
    WindowsReleased
    LinkRecovers
    DestroyReturns
