\* Every checkpoint with one defect, for a BF16 and an FP8 target.
SPECIFICATION Spec
CONSTANTS
    Vocab = 3
    Parts = 2
    Width = 1
    Expectations <- MCExpectations
    NoIndex = NoIndex
    None = None
    Checkpoints <- MCCheckpoints
CHECK_DEADLOCK FALSE
INVARIANTS TypeOK OnlyTheLayerSwapped LoadedIsServed  AuditedScale
