SPECIFICATION Spec
CONSTANTS
    Versions <- MergeOperands
    Inputs <- TwoSources
    Strategies <- OnlyBottommost
    ExternalModes <- Internal
    MaxSeqno = 3
    NumSources = {}
    NumKeys = {}
INVARIANT DroppedIsNeverRead
