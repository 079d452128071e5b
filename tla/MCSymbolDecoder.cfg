CONSTANTS
    Inputs <- MCInputs
    MaxRecords = 2

SPECIFICATION MCSpec

INVARIANT TypeOK
INVARIANT RoundTripSize
INVARIANT DecodedPrefix
INVARIANT DimsTruncationSurfaced
INVARIANT UnknownKindHalts

INVARIANT CompleteStreamDecoded
INVARIANT ErrorSymbolHoldsFailedHeader
INVARIANT DimsListed


PROPERTY RefinesRecordStream
