\* Two calls, one fault, chunks of one cell.
SPECIFICATION FairSpec
CONSTANTS
    Calls = {c1, c2}
    Requests <- MCRequests
    Disks <- MCDisks
    Later <- MCLater
    Expected = "BF16"
    Buffer = 1
    Byte <- MCByte
    MaxFaults = 1
    Missing = Missing
CHECK_DEADLOCK FALSE
INVARIANTS TypeOK AcceptedTiles ReturnedIsWhole PayloadKept OrderIrrelevant NoOrphan
PROPERTIES NeverReplaced EachCallEnds
