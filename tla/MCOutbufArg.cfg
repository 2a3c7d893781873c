SPECIFICATION OutbufSpec
CONSTANTS
    a = a
    b = b
    NUL = NUL
    Unset = Unset
    Char <- MCChar
    Counts = {0, 1, 2, 5, 6}
    Blocks <- MCBlocks
    Paddings <- MCPaddings
    PADSIZE = 2
    Limit = 7
INVARIANTS
    OutbufTypeOK
    SinkOutputsPrefix
    DoneStoresString
    StoresAtMostCount
