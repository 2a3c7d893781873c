SPECIFICATION Spec
CONSTANTS
    Level = {2}
    MaxPending = 1
    OneLogEntrySize = 2
    ThreadCheckPointSize = 2
    MARKUP_SIZEOFWCHAR = 2
    FORMAT_ARGS_MAXIMUM_SIZE = 13
    Call <- MCCall
    SIs <- MCSIs
    types <- MCTypes
    severity <- MCSeverity
    values <- MCValues
    sizeOf <- MCSizeOf
PROPERTIES
    LowerLevelsAreDropped
