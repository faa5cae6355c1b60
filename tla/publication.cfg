\* Every kind of verdict in every section, and the reports of the benchmarks.
SPECIFICATION Spec
CONSTANTS
    Slot = {1, 2}
    Retained <- MCRetained
INVARIANTS NoFalseSuccess VerifyDecides
