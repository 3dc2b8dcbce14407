CONSTANTS
    NULL = NULL
    GARBAGE = GARBAGE
    Programs <- MCPrograms
    Trees <- MCTrees
SPECIFICATION Spec
INVARIANTS
    TypeOK
    PredictionsHold
    PeekIsThere
    WrittenTreesAreReadBack
    AcceptedTokensAreInTree
    
PROPERTY
    Terminates
