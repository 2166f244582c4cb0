SPECIFICATION Spec
CONSTANTS
    Inputs <- ShardInputs
    ShardCounts = {1, 2, 3}
    MaxPanics = 1
INVARIANT TypeOK
INVARIANT WindowsPartitionSources
INVARIANT NoKeyInTwoShards
INVARIANT ShardedEqualsUnsharded
PROPERTY NoStragglerAfterOk
PROPERTY ImplementsJob
