\* A form's query and its parts are read as the client meant them.
SPECIFICATION Spec
CONSTANTS
    MaxBoundary = 3
    MaxHeaders = 3
    MaxReads = 3
    Forms <- MCForms
    Keys <- MCKeys
INVARIANTS
    ReadsAgree
    PartsIntact
CHECK_DEADLOCK FALSE
