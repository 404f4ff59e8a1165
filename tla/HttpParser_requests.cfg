SPECIFICATION Spec
CONSTANTS
    Streams <- MCStreams
    MaxFallback = 30
    MaxHeaders = 5
    MaxDigits = 2
    MaxHexDigits = 1
    WithProxy = TRUE
    ProxyHeader = 7
    MaxProxy = 2
    HashBits <- MCHashBits
INVARIANTS RequestsIntact FallbackIncomplete
PROPERTY CallReturns
