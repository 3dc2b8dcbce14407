CONSTANTS
    Nodes = {n1, n2, n3, n4}
    Data = {d1, d2, d3, d4}
    NULL = NULL
SYMMETRY Symmetry
SPECIFICATION Spec
INVARIANTS
    TypeOK
    ListMatchesCount
    NoDanglingData
PROPERTY
    DequeSpec
