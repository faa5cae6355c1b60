\* Three calls of gather, two workers, tasks of two rows.
SPECIFICATION FairSpec
CONSTANTS
    Vocab = 7
    Parts = 3
    Chunk = 2
    Workers = 2
    MaxCalls = 3
    Unwritten = Unwritten
    Layouts <- MCLayouts
    Requests <- MCRequests
CHECK_DEADLOCK FALSE
INVARIANTS TypeOK GatheredRows UnknownIdsRaise KnownIdsServed
PROPERTIES EachCallEnds
