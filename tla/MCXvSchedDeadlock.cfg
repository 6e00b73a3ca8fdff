\* Two CPUs, two processes.
CONSTANTS
    CPUs = {c1, c2}
    Machines = {{c1, c2}}
    Nobody = Nobody
    NPROC = 2
    Chans = {ch}
    NoChan = NoChan
    Priorities = {10}
    MaxAcc = 10
SPECIFICATION Spec
INVARIANT NoCircularWait
