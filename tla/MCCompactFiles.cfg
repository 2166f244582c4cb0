SPECIFICATION Spec
CONSTANTS
    Paths = {"a", "b", "out"}
    Calls <- SomeCalls
    Disks <- SomeDisks
    MaxRuns = 3
INVARIANT OutputIsRight
INVARIANT RerunKeepsLiveKeys

