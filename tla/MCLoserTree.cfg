SPECIFICATION Spec
CONSTANT Inputs <- MergeInputSet
INVARIANT WinnerIsLeast
INVARIANT StopsOnlyWhenExhausted
INVARIANT TreeRecordsMatches
PROPERTY Returns
PROPERTY ImplementsKWayMerge
