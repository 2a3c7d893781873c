SPECIFICATION FairSpec
CONSTANTS
    STAGING_BUFFER_SIZE = 6
    RELEASE_THRESHOLD = 2
    small = small
    medium = medium
    large = large
    NoEntry = NoEntry
    Entry <- MCEntry
    entrySize <- MCEntrySize
INVARIANTS
    TypeOK
    PositionsConsistent
    NoOverwrite
    FinishAsserts
    BlocksHoldWholeEntries
PROPERTIES
    FifoSpec
    BlockedCallReturns
    PublishedIsCopied
