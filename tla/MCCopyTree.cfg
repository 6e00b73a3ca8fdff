\* All trees of four nodes; a mode can be written or has a bit umask clears.
CONSTANTS
    N = 4
    Modes = {{"w"}, {"gw"}}
    MAXSYMLINKS = 2
    MaxFailures = 1
SPECIFICATION Spec
INVARIANTS
    CopiesOnly
    NothingLeftOut
