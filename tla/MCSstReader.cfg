SPECIFICATION DumpSpec
CONSTANTS
    Versions <- SomeFiles
    Entries <- SomeEntries
    BadKeys = {"bad"}
    MaxRewrites = 2
    Width32 = 3
    PrintLimit = 2
    TrailerSize = 1
    FooterLen = 3
INVARIANT ScanIsOneFile
PROPERTY QuietScanSucceeds
