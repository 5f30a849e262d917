CONSTANTS
    Documents <- MCDocuments
    MaxUInt = 300
    MaxInt64 = 400
SPECIFICATION ReplySpec
CHECK_DEADLOCK FALSE
INVARIANTS
    ReadsInRange
    WrittenReadsBack
