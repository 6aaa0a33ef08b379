CONSTANTS
    Columns <- MCColumnsKnown
    MaxCols = 4
    SearchKeyNum = 1
SPECIFICATION Spec
INVARIANT
    ListReqNumbersDistinct
\* GenProtoData returns after its second loop.
CHECK_DEADLOCK FALSE
