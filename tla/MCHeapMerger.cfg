SPECIFICATION HeapSpec
CONSTANT Inputs <- MergeInputSet
INVARIANT HeapMirrorsFronts
INVARIANT MergedAscending
INVARIANT MergedIsConsumed
INVARIANT NothingLost
PROPERTY ImplementsKWayMerge
