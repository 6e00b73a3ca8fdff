\* Three processes share two slots; semaphores start at 0 or 1 and are not raised above 1.
CONSTANTS
    Procs = {p1, p2, p3}
    NoProc = NoProc
    MAX_SEMS = 2
    InitValues = {0, 1}
    MaxValue = 1
    Styles = {TRUE, FALSE}
SPECIFICATION Spec
INVARIANTS
    TypeOK
    PermitsBalance
    NoLostWakeup
PROPERTY PermitTaken
