SPECIFICATION Spec
CONSTANTS
    MixedLength = 5
    StarsLength = 7
    Formats <- MCFormats
INVARIANTS
    TypeOK
    ExpansionIsReference
    ArgumentsAreCounted
    SegmentsInside
