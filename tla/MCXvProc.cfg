\* init and two more slots, six calls by programs.
CONSTANTS
    NPROC = 3
    MaxCalls = 6
SPECIFICATION Spec
INVARIANTS
    TypeOK
    NoMissedExit
    FreedOffCpu
    FamilyAgrees
PROPERTY Collected
