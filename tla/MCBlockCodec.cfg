SPECIFICATION Spec
CONSTANTS
    Blocks <- AllBlocks
    TrailerSize = 5
    Group = 4
    Limit64 = 128
    Limit32 = 64
    MaxVarintLen = 4
    FixedLen = 2
INVARIANT ReadsBack
INVARIANT SeekFromAnyRestart
INVARIANT MetaBlocksReadBack
PROPERTY Returns
