SPECIFICATION Spec
CONSTANTS
    RawInputs <- SourcesWithShortKey
    Base = 3
    SuffixLen = 2
    PrefixLen = 3
    MaxUserKeyLen = 2
INVARIANT BytesStandForEntries
INVARIANT PrefixNeverMisorders
INVARIANT MalformedLeavesRestIntact
