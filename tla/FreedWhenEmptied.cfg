SPECIFICATION Spec
CONSTANTS
    Thread = {t1, t2}
    Capacity = 1
    NUMBER_OF_CHECKS_WITH_EMPTY_BUF = 2
    NoThread = NoThread
PROPERTIES
    FreedWhenEmptied
