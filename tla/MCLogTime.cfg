SPECIFICATION FairSpec
CHECK_DEADLOCK FALSE
CONSTANTS
    N = 2
    NsPerCycle = 270
    MinWaitNs = 1350
    Delays = {1, 2}
    MaxCycle = 10
    Ages = {0, 4}
    MaxNs = 14000
    Piece <- MCPiece
    Formats <- MCFormats
    strftime <- MCstrftime
    Seconds <- MCSeconds
    Timestamps <- MCTimestamps
    SECOND = 1000
    Scale <- MCScale
    Width <- MCWidth
    BUFFER_SIZE = 6
    STRFTIME_SIZE = 2
    MaxSize = 16
INVARIANTS
    TypeOK
    TextIsOfTimestamp
    ClockIsClose
PROPERTIES
    FormattingReturns
