SPECIFICATION Spec
CONSTANTS
    Versions <- SixVersions
    Inputs <- AllInputs
    Strategies <- AllStrategies
    ExternalModes <- BothModes
    MaxSeqno = 3
    NumSources = {1, 2}
    NumKeys = {0, 1, 2}
INVARIANT ReadersUnaffected
INVARIANT OutputStrictlyAscending
INVARIANT MeetsBottommostContract
INVARIANT KeptFlagExact
INVARIANT IngestContract
INVARIANT AgreesWithOracle
