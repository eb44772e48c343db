SPECIFICATION MCWheelSpec
CONSTANTS
    Nominal = 4
    Missing = 1
    SecondaryMode = "None"
    Absolute = "ExpertManual"
    MinInterval = 0
    GapThreshold = 1500
    SkipRevolutions = 2
    RequireFullCycle = TRUE
    Drivers = {FALSE}
    TickMod = 16
    U8Max = 4
    U16Max = 0
    Intervals <- MCIntervals
    None = None
    Glitches <- MCGlitches
    ToothTimes <- MCToothTimes
    Recovery = 8
    U32 = 16
    SyncWindow = 4
    VoltRecovery = 3
    LoadDebounce = 2
    LoadRecovery = 3
    PlausDebounce = 2
    MonitorCallers <- MCMonitorCallers
    Turn = 8
    TrimCallers <- MCTrimCallers
INVARIANTS
    AngleFollowsTooth
