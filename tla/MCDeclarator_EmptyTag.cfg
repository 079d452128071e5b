CONSTANTS
    Inputs <- MCInputs
    Idents <- MCIdents
    Depth = 1
    Leaves <- EmptyTagLeaves

SPECIFICATION Spec

INVARIANT WellFormedDeclaration
