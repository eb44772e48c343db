SPECIFICATION Spec
CONSTANTS
    Values = {v0, v1}
    Zero = v0
    Snapshots = {h1}
    SeqMod = 4
    Erased = Erased
    Torn = Torn
    NoSlot = NoSlot
    None = None
    Empty = Empty
PROPERTIES
    HistorySurvives
