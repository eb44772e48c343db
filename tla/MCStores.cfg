SPECIFICATION StoresSpec
CONSTANTS
    Values = {v0, v1}
    Zero = v0
    Snapshots = {h1}
    SeqMod = 4
    Erased = Erased
    Torn = Torn
    NoSlot = NoSlot
    None = None
    Empty = Empty
    SPages = {"fuel", "ign"}
    SRecords = {"key", "key_audit"}
    SPairs <- MCPairs
    SValues = {v0, v1}
    SRecordValues = {r1}
    SZero = v0
    NoRecord = NoRecord
    SeqSpan = 4
    SErased = SErased
    STorn = STorn
    SNone = SNone
    SEmpty = SEmpty
    Absent = Absent
    VinLen = 2
    BuildLen = 1
    EnvKey = "k1"
    IdScenarios <- MCIdScenarios
INVARIANTS
    BootIsSound
    SectorStateIsHonest
    FlashMatchesAnswers
    GrantsAreUsedOnce
PROPERTIES
    TunePagesAreAtomic
    SectorsAreAtomic
