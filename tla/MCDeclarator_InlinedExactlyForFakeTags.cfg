CONSTANTS
    Inputs <- MCInputs
    Idents <- MCIdents
    Depth = 3
    Leaves <- MCLeaves

SPECIFICATION Spec

INVARIANT InlinedExactlyForFakeTags
