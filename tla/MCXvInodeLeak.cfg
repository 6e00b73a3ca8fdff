\* Two processes, one name, one inode.
CONSTANTS
    Procs = {p1, p2}
    NoProc = NoProc
    Names = {n1}
    ninodes = 1
    NINODE = 1
    OpenModes <- TwoOpenModes
    Permissions <- ReadOnly
SPECIFICATION InodeSpec
INVARIANT NoLeak
