SPECIFICATION Spec
CONSTANTS
    b1 = b1
    b2 = b2
    s1 = s1
    Books = {b1, b2}
    Shelf = {s1}
    None = None
    MaxBooks = 2
    BatchSizes = {1, 2}
    MaxSeq = 4
    MaxTrouble = 1

INVARIANTS
    TypeOK
    OneRecordPerBook
    SequencesDiffer
    NothingMissed
PROPERTIES
    SessionEnds
    KeepsCatalogue
CHECK_DEADLOCK FALSE
