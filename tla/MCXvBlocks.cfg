\* Two files of at most three blocks of two bytes, on a disk of four.
CONSTANTS
    Files = {f1, f2}
    NBLOCKS = 4
    NDIRECT = 1
    BSIZE = 2
    Bytes = {1, 2}
    Lens = {1, 3, 15}
    UINT = 16
    MaxCalls = 3
SPECIFICATION Spec
INVARIANTS
    BlocksOwned
    CrashSafe
    ReadsBack
PROPERTY ImplementsFileStore
