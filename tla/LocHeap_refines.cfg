SPECIFICATION Spec
CONSTANTS
    e1 = e1
    e2 = e2
    e3 = e3
    e4 = e4
    e5 = e5
    e6 = e6
    nil = nil
    Elements <- MCElements
    Ranks = {1, 2, 3}
    Nil = nil
SYMMETRY Symmetry
INVARIANTS
    checkTree
PROPERTIES
    IsRankedHeap
