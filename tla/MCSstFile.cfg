SPECIFICATION Spec
CONSTANTS
    EntrySeqs <- FilePrefixes
    EntrySizes = {4, 9, 20}
    MetaSizes = {8, 30}
    RestartInterval = 2
    TargetBlockSize = 24
INVARIANT TypeOK
INVARIANT PointLookupFindsEveryKey
INVARIANT BlocksContiguous
INVARIANT NoEntryLostAtCut
INVARIANT LoadedIsBuilt
PROPERTY CompleteFileLoads
