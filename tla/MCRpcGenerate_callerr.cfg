\* A nil return of Generate after GenCall failed.
CONSTANTS
    Options <- MCOptions
    IOFail = TRUE
    MaxRuns = 2
SPECIFICATION Spec
INVARIANT ArtifactsComplete
CHECK_DEADLOCK FALSE
