SPECIFICATION FairSpec
CONSTANTS
    LARGE_BUFFER = 6
    SUPPLEMENTARY_SINKBUFFER_MAXIMUM_SIZE = 1
    small = small
    large = large
    NoBuffer = NoBuffer
    Block <- MCBlock
    blockSize <- MCBlockSize
INVARIANTS
    TypeOK
    ThreadFuncAsserts
    QueueIsBounded
PROPERTIES
    FifoSpec
    BlockedAppendReturns
    HeldIsFormatted
    StopReturns
