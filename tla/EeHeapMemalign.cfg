CONSTANTS
    Alignment = 2
    End = 2
    EndOfHeap = 20
    Sizes = {0, 1, 4, 6}
    Aligns = {4}
SPECIFICATION Spec
INVARIANTS
    BlocksInOrder
