SPECIFICATION Spec
CONSTANTS
    Streams <- MCLongCompressed
    HeaderSize <- MCHeaderSize
    MaxPayload = 7
    MaxShort = 7
    InflateBuffer = 4
    Negotiated = TRUE
INVARIANTS CompressedAccepted
CHECK_DEADLOCK FALSE
