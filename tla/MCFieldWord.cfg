CONSTANTS
    Width = 6
    MaxIndexMax = 9
SPECIFICATION Spec
PROPERTY ImplementsPairs
INVARIANT HeadCountsBlocks
