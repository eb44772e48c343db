SPECIFICATION MCSpec
CONSTANTS
    Values = {default, zero, angles, new}
    Default = default
    Zero = zero
    ResetAngles = angles
    Ids = {1, 2}
    Absent = Absent
    new = new
    Scenarios <- MCScenarios
    OutLen = 512
    NoReply = NoReply
    Tools <- MCTools
    ToolOf <- MCToolOf
    Second = 1
    BoardWrap = 4
    MapReadings = {50, 1000}
    TpsReadings = {10, 90}
    Steps = {1}
    LogSize = 2
    EngineFaults <- MCEngineFaults
INVARIANTS
    CopiesAgree
    BootFindsTheBurn
    PagesReadBack
    FaultPagesAgree
PROPERTIES
    CertifiedProfileGuarded
    WritesAreContained
