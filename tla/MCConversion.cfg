SPECIFICATION Spec
CHECK_DEADLOCK FALSE
CONSTANTS
    MaxBits = 20
    Bits <- MCBits
    MAXFRACT <- MCMAXFRACT
    BUFSIZE = 10
    DEFAULT_PRECISION = 2
    Calls <- MCCalls
    Widths <- MCWidths
    Precisions <- MCPrecisions
INVARIANTS
    TypeOK
    PrintsAsPrintf
