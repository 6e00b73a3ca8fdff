\* One or two CPUs, three processes.  Two CPUs may end in the circular wait
\* of MCXvSchedDeadlock.cfg, which is a deadlock of the model.
CONSTANTS
    CPUs = {c1, c2}
    Machines = {{c1}, {c2}, {c1, c2}}
    Nobody = Nobody
    NPROC = 3
    Chans = {ch}
    NoChan = NoChan
    Priorities = {10}
    MaxAcc = 10
SYMMETRY Symmetry
SPECIFICATION Spec
INVARIANTS
    TypeOK
    RunsOnOneCpu
    PicksMinimum
CHECK_DEADLOCK FALSE
