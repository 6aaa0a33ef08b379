CONSTANTS
    mu = mu
    mr = mr
    Models <- MCModels
    SubName <- MCSubNone
    ProtoMsgs <- MCProtoMsgs
    StatusOf <- MCStatusOf
    MaxRuns = 3
SPECIFICATION Spec
INVARIANTS
    ApiImported
PROPERTIES
    AllApiRefined
\* GenLogicByProto returns after make gen-api or after an error.
CHECK_DEADLOCK FALSE
