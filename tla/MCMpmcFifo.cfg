CONSTANTS
    Producers = {p1, p2}
    Consumers = {c1}
    Careless = {}
    NumBlocks = 2
    BlockSize = 2
    IndexSpan = 4
    MaxRound = 1
SPECIFICATION Spec
PROPERTIES ImplementsFifo RefusalsAreHonest EmptyIsHonest
INVARIANTS RingInv LoneInv SlotInv ValueInv OpenInv
