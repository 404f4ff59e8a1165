\* For the second Host instead: Streams <- MCCollides, HashBits <- MCColliding.
SPECIFICATION Spec
CONSTANTS
    Streams <- MCEmpty
    MaxFallback = 30
    MaxHeaders = 5
    MaxDigits = 2
    MaxHexDigits = 1
    WithProxy = TRUE
    ProxyHeader = 7
    MaxProxy = 2
    HashBits <- MCHashBits
INVARIANT RequestsIntact
CHECK_DEADLOCK FALSE
