SPECIFICATION NetSpec
CONSTANTS
    MaxCanData = 8
    ReasmBuf = 1024
    Slots = {1, 2}
    TidMod = 2
    Garbled = Garbled
    None = None
    RosterCapacity = 2
    LogCapacity = 2
    TimeoutMs = 1
    StartupSeconds = 5
    AgeMax = 2
    DroppedMax = 2
    Unknown = Unknown
    a = a
    b = b
    c = c
    AllNodes = {a, b, c}
    Messages <- MCMessages
    Scenarios <- MCScenarios
    DtcCap = 2
    LogSize = 2
    HeadMod = 2
    Absent = Absent
    ClearTime = 2
    MapMin = 100
    MapMax = 3000
    BrownoutMv = 6500
    OvervoltageMv = 16000
    OilMin = 50
    FuelMin = 50
    KnockThreshold = 50
    DiagScenarios <- MCDiagScenarios
INVARIANTS
    ReassemblyIsSound
    RosterIsSound
    HistoryIsFaithful
    AnswersAreTruthful
PROPERTIES
    CleanStreamIsDelivered
    NoModuleLockedOut
    NoDtcLost
