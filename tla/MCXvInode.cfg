\* Two processes, two names, two inodes and as many entries of the table.
CONSTANTS
    Procs = {p1, p2}
    NoProc = NoProc
    Names = {n1, n2}
    ninodes = 2
    NINODE = 2
    OpenModes <- TwoOpenModes
    Permissions <- ReadOnly
SYMMETRY Symmetry
SPECIFICATION InodeSpec
INVARIANTS
    NoPanic
    RefCounts
    LinkCounts
    NoDangling
