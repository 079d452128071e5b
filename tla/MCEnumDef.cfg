CONSTANTS
    Enums <- MCEnums
    Builds = {"go1.18", "go1.19"}
    MaxDefs = 2
    MaxMembers = 7

SPECIFICATION MCSpec

INVARIANT TypeOK
INVARIANT RenderSorted
INVARIANT RenderIdempotent
