CONSTANTS
    Producers = {p1, p2}
    Consumers = {c1, c2}
    Careless = {}
    NumBlocks = 2
    BlockSize = 2
    IndexSpan = 4
    MaxRound = 0
SPECIFICATION Spec
SYMMETRY ThreadSymmetry
INVARIANTS TypeOK SlotExclusive ValuesIntact DropNeverPanics DropsOnlyLiveValues ShowsOnlyLiveValues
PROPERTY CursorsNeverRetreat
