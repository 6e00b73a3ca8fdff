\* Two threads insert (as the co-editors do into toScreenBuf), one removes,
\* one polls (the dispatcher); the array wraps and fills.
CONSTANTS
    size = 2
    Inserters = {i1, i2}
    Removers = {r1}
    Pollers = {d1}
    Msgs = {m1, m2}
    NoMsg = NoMsg
    NoThread = NoThread
SPECIFICATION Spec
INVARIANTS
    TypeOK
    MutexHeld
    PermitsConserved
    StoredSlotsWritten
PROPERTY ImplementsFifo
