\* Rerunning preparation, as the documentation advises, with no operator.
SPECIFICATION TendedSpec
CONSTANTS
    Builder = {b1}
    Mode = "mtp_overlay"
    Absent = Absent
    SourceStable = TRUE
    OperatorRepairs = FALSE
    MaxFaults = 1
PROPERTIES RerunRebuilds
