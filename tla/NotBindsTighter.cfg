CONSTANTS
    NULL = NULL
    GARBAGE = GARBAGE
    Programs <- MCPrograms
    Trees <- MCTrees
SPECIFICATION Spec
INVARIANT
    NotBindsTighter
