\* A value read twice is decoded twice (violated).
SPECIFICATION Spec
CONSTANTS
    MaxBoundary = 3
    MaxHeaders = 3
    MaxReads = 3
    Forms <- MCForms
    Keys <- MCKeys
INVARIANTS
    EveryReadAgrees
CHECK_DEADLOCK FALSE
