CONSTANTS
    Inputs <- MCInputs
    Idents <- MCIdents
    Depth = 1
    Leaves <- FakeTagLeaves

SPECIFICATION Spec

INVARIANT FakeTaggedAggregatesInlined
