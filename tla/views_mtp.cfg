\* Two processes build one MTP overlay; two faults anywhere, and a user who
\* runs preparation again and clears away what was refused.
SPECIFICATION TendedSpec
CONSTANTS
    Builder = {b1, b2}
    Mode = "mtp_overlay"
    Absent = Absent
    SourceStable = TRUE
    OperatorRepairs = TRUE
    MaxFaults = 2
INVARIANTS AuditedStaysWhole CompactIsPinned
PROPERTIES StoreSpec EventuallySound ContentionPublishes
