\* Three processes build one hybrid view; two faults anywhere.
SPECIFICATION Spec
CONSTANTS
    Builder = {b1, b2, b3}
    Mode = "hybrid_bf16"
    Absent = Absent
    SourceStable = TRUE
    OperatorRepairs = TRUE
    MaxFaults = 2
SYMMETRY Symmetry
INVARIANTS TypeOK OneOwner PublishedWhole
PROPERTIES NeverReplaced NoMalformedView StaleUntouched
