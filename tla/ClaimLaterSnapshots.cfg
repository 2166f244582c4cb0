SPECIFICATION Spec
CONSTANTS
    Versions <- SixVersions
    Inputs <- TwoSources
    Strategies <- OnlySnapshotAware
    ExternalModes <- Internal
    MaxSeqno = 3
    NumSources = {}
    NumKeys = {}
INVARIANT LaterSnapshotsUnaffected
