\* Two references per block, so that five blocks make a tree of three levels.
CONSTANTS
    REFS_PER_BLOCK = 2
    n_inodeblocks = 1
    nblocks = 11
    Inodes = {0, 1}
    Offsets = {0, 1, 2, 4}
    Data = {d1, d2}
    NullBlock = null
SYMMETRY Symmetry
SPECIFICATION Spec
INVARIANTS
    ReadsBack
    EveryBlockOnce
\* The disk can be full.
CHECK_DEADLOCK FALSE
