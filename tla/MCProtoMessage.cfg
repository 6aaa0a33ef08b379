CONSTANTS
    Columns <- MCColumnsKnown
    MaxCols = 4
    SearchKeyNum = 1
SPECIFICATION Spec
INVARIANTS
    TypeOK
    InfoMatchesReference
    ListReqKeysMatchReference
\* GenProtoData returns after its second loop.
CHECK_DEADLOCK FALSE
