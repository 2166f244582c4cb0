SPECIFICATION ArenaSpec
CONSTANTS
    EntrySeqs <- UpToThreeEntries
    U32Range = 8
    OverflowChecks = {TRUE, FALSE}
INVARIANT EntriesBelowRangeReadBack
