CONSTANTS
    tu = tu
    tp = tp
    tx = tx
    sProj = sProj
    sOther = sOther
    Tables <- MCTables
    UUIDKey <- MCUUIDKey
    Unsupported <- MCUnsupported
    UseUUIDFlag = FALSE
    Services <- MCServices
    ProjectSvc = sProj
    SvcOf <- MCSvcSame
    IOFail = TRUE
    MaxRuns = 2
SPECIFICATION Spec
INVARIANT
    MessageMergedOnSuccess
\* genGormLogic returns after its last table or after an I/O error.
CHECK_DEADLOCK FALSE
