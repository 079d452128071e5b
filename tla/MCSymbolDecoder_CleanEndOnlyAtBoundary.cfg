CONSTANTS
    Inputs <- MCInputs
    MaxRecords = 2

SPECIFICATION MCSpec

INVARIANT CleanEndOnlyAtBoundary
