CONSTANTS
    n1 = n1
    n2 = n2
    f1 = f1
    f2 = f2
    h1 = h1
    h2 = h2
    m1 = m1
    l1 = l1
    l2 = l2
    NoFolder = NoFolder
    Names <- MCNames
    Folders <- MCFolders
    Handlers <- MCHandlers
    Middlewares <- MCMiddlewares
    Catalog <- CatalogPass
    OldBackups <- MCOldBackups
    NumFiles = 2
    KeepDays = 7
    LogicNames <- MCLogicNames
    LogicBase <- MCLogicBase
SPECIFICATION Spec
INVARIANTS
    TimeoutImportConsistent
\* GenGormApiFile returns after the routes file or after a fatal error.
CHECK_DEADLOCK FALSE
