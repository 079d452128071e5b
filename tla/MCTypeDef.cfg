CONSTANTS
    Types <- MCTypes
    Idents <- MCIdents

SPECIFICATION Spec

INVARIANT DefReadsBack
INVARIANT LayoutCommentsTruthful
INVARIANT ReferenceFormReadsBackWhenFlat
