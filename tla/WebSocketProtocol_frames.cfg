SPECIFICATION Spec
CONSTANTS
    Streams <- MCStreams
    HeaderSize <- MCHeaderSize
    MaxPayload = 7
    MaxShort = 7
    InflateBuffer = 4
    Negotiated = TRUE
INVARIANTS StreamParsed BufferBounded
PROPERTY SilentOnceBroken
CHECK_DEADLOCK FALSE
