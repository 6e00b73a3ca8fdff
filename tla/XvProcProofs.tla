---------------------------- MODULE XvProcProofs ----------------------------
(* Proofs about XvProc, for any size of the process table. *)
EXTENDS XvProc, TLAPS

Types ==
    /\ state \in [Procs -> {"UNUSED", "USED", "SLEEPING", "RUNNABLE", "RUNNING", "ZOMBIE"}]
    /\ parent \in [Procs -> Procs \union {None}]
    /\ chan \in [Procs -> Procs \union {None}]
    /\ lock \in [Procs -> Procs \union {None}]
    /\ wait_lock \in Procs \union {None}
    /\ pc \in [Procs -> {"none", "start", "user", "ret", "f_alloc", "f_copy", "f_parent",
                         "f_run", "x_lock", "x_reparent", "x_init", "x_parent", "x_zombie",
                         "x_switch", "w_lock", "w_scan", "w_sleep", "w_switch", "w_asleep"}]
    /\ np \in [Procs -> Procs \union {None}]
    /\ pp \in [Procs -> 0..NPROC]
    /\ mine \in [Procs -> SUBSET Procs]
    /\ calls \in 0..MaxCalls

Flags == killed \in [Procs -> BOOLEAN] /\ havekids \in [Procs -> BOOLEAN]

(* wait_lock and p->lock are held where the code says. *)
WaitLockHeld == \A p \in Procs : wait_lock = p <=> pc[p] \in Holding

LocksHeld ==
    \A p, q \in Procs :
      lock[q] = p <=> \/ pc[p] = "f_copy" /\ np[p] = q
                      \/ pc[p] \in {"x_switch", "w_switch"} /\ p = q

(* Where a process may be in each of its states. *)
Exiting == {"x_lock", "x_reparent", "x_init", "x_parent", "x_zombie"}

Places ==
    \A p \in Procs :
      /\ state[p] \in {"UNUSED", "USED"} => pc[p] = "none"
      /\ state[p] = "SLEEPING" => pc[p] \in {"w_switch", "w_asleep"} /\ chan[p] = p
      /\ state[p] = "RUNNABLE" => pc[p] \in {"start", "w_asleep"}
      /\ state[p] = "RUNNING" =>
           pc[p] \notin {"none", "start", "x_switch", "w_switch", "w_asleep"}
      /\ state[p] = "ZOMBIE" => pc[p] \in {"x_switch", "none"}

(* init lives for ever. *)
InitLives ==
    /\ state[initproc] \in {"SLEEPING", "RUNNABLE", "RUNNING"}
    /\ pc[initproc] \notin Exiting
    /\ parent[initproc] = None

(* A new process belongs to one call of fork until it is RUNNABLE. *)
Forking == {"f_copy", "f_parent", "f_run"}

Forks ==
    /\ \A p \in Procs : pc[p] \in Forking =>
         /\ np[p] \in Procs
         /\ state[np[p]] = "USED"
         /\ parent[np[p]] = IF pc[p] = "f_run" THEN p ELSE None
    /\ \A p, q \in Procs : pc[p] \in Forking /\ pc[q] \in Forking /\ np[p] = np[q] => p = q

(* Who is whose child: the table against what programs have been told, and *)
(* nobody left behind by an exit.                                          *)
Fresh(p) == IF pc[p] = "f_run" THEN {np[p]} ELSE {}

Family ==
    /\ \A q \in Procs : state[q] = "UNUSED" => parent[q] = None
    /\ \A q \in Procs \ {initproc} :
         state[q] \in {"SLEEPING", "RUNNABLE", "RUNNING", "ZOMBIE"} => parent[q] \in Procs
    /\ \A q \in Procs : parent[q] \in Procs =>
         /\ state[parent[q]] \in {"SLEEPING", "RUNNABLE", "RUNNING"}
         /\ pc[parent[q]] \notin {"x_init", "x_parent", "x_zombie"}
    /\ \A p \in Procs : mine[p] \union Fresh(p) \subseteq Children(p)
    /\ \A p \in Procs \ {initproc} : Children(p) \subseteq mine[p] \union Fresh(p)

(* How far the loops of wait and wakeup have come, and what they have      *)
(* found: it stays true, because a process becomes a zombie, gets another  *)
(* parent or goes to sleep in wait only under wait_lock.                   *)
Loops ==
    \A p \in Procs :
      /\ pc[p] \notin {"w_scan", "w_sleep", "x_init", "x_parent"} => pp[p] = 0
      /\ pc[p] = "w_scan" =>
           \A q \in Procs : q < pp[p] /\ parent[q] = p => state[q] # "ZOMBIE"
      /\ pc[p] = "w_sleep" => \A q \in Procs : parent[q] = p => state[q] # "ZOMBIE"
      /\ pc[p] = "x_zombie" \/ (pc[p] = "x_parent" /\ parent[p] < pp[p]) =>
           state[parent[p]] # "SLEEPING"

(* Only init can sleep while one of its children is a zombie: it got the   *)
(* child from an exit that is about to wake it.                            *)
Sleepers ==
    \A p, q \in Procs : parent[q] = p /\ state[q] = "ZOMBIE" /\ state[p] = "SLEEPING" =>
      p = initproc /\ \E e \in Procs : pc[e] = "x_init" /\ pp[e] = 0

IndInv ==
    /\ Types /\ Flags /\ WaitLockHeld /\ LocksHeld /\ Places /\ InitLives /\ Forks /\ Family
    /\ Loops /\ Sleepers

-----------------------------------------------------------------------------
LEMMA ProcFacts ==
    /\ None \notin Procs
    /\ initproc \in Procs /\ initproc = 0
    /\ 0 \in 0..NPROC /\ NPROC \in Nat
    /\ \A n \in 0..NPROC : n < NPROC => n \in Procs /\ n + 1 \in 0..NPROC /\ n < n + 1
    /\ \A n \in Procs : n \in Nat /\ n < NPROC
    /\ \A q \in Procs, n \in 0..NPROC : q < n + 1 <=> (q < n \/ q = n)
  BY ProcAssumption DEF Procs, None, initproc

LEMMA IndInvInit == Init => IndInv
  <1> SUFFICES ASSUME Init PROVE IndInv
    OBVIOUS
  <1> USE ProcAssumption, ProcFacts DEF Init
  <1>1. Types /\ Flags
    BY DEF Types, Flags
  <1>2. WaitLockHeld /\ LocksHeld /\ Places /\ InitLives /\ Forks
    BY DEF WaitLockHeld, LocksHeld, Places, InitLives, Forks, Holding, Exiting, Forking
  <1>3. Family
    BY DEF Family, Fresh, Children
  <1>4. Loops /\ Sleepers
    BY DEF Loops, Sleepers
  <1> QED BY <1>1, <1>2, <1>3, <1>4 DEF IndInv

(* A step that does not touch the table keeps the families. *)
LEMMA FamilyKept ==
    ASSUME Types, Family, UNCHANGED <<state, parent, np, mine>>,
           \A r \in Procs : pc'[r] = "f_run" <=> pc[r] = "f_run",
           \A r \in Procs : pc'[r] \in {"x_init", "x_parent", "x_zombie"} =>
                              pc[r] \in {"x_init", "x_parent", "x_zombie"}
    PROVE  Family'
  <1>1. \A r \in Procs : Children(r)' = Children(r) /\ Fresh(r)' = Fresh(r)
    BY DEF Children, Fresh
  <1>2. \A r \in Procs : /\ mine'[r] \union Fresh(r)' \subseteq Children(r)'
                         /\ r # initproc => Children(r)' \subseteq mine'[r] \union Fresh(r)'
    BY <1>1 DEF Family
  <1>3. \A q \in Procs : parent'[q] \in Procs =>
          pc'[parent'[q]] \notin {"x_init", "x_parent", "x_zombie"}
    BY DEF Family
  <1> QED BY <1>2, <1>3 DEF Family

LEMMA ExitingParent ==
    ASSUME IndInv, NEW p \in Procs, pc[p] \in {"x_reparent", "x_init", "x_parent", "x_zombie"}
    PROVE  /\ p # initproc /\ parent[p] \in Procs
           /\ ~ (parent[p] < 0) /\ parent[p] < NPROC
  <1>1. p # initproc /\ state[p] = "RUNNING"
    BY DEF IndInv, Types, InitLives, Exiting, Places
  <1>2. parent[p] \in Procs
    BY <1>1 DEF IndInv, Family
  <1>3. parent[p] \in Nat /\ parent[p] < NPROC
    BY <1>2, ProcFacts
  <1> QED BY <1>1, <1>2, <1>3

(* A process keeps its place, its parent and its locks, whatever it and    *)
(* the others do: one step for each action.                                *)
LEMMA IndInvStep ==
    ASSUME IndInv, NEW p \in Procs, Program(p) \/ Kernel(p)
    PROVE  IndInv'
  <1> USE ProcAssumption, ProcFacts
      DEF IndInv, Types, Flags, WaitLockHeld, LocksHeld, Places, InitLives, Forks, Family, Loops,
          Sleepers, fields, locals, Goto, Free, Enter, Spend, freeproc, WaitReturn, ZombieFound,
          Holding, Exiting, Forking, Fresh, Children
  <1>1. CASE Program(p)
    <2>1. CASE ForkCall(p)      BY <2>1 DEF ForkCall
    <2>2. CASE ExitCall(p)      BY <2>2 DEF ExitCall
    <2>3. CASE WaitCall(p)      BY <2>3 DEF WaitCall
    <2>4. CASE Fault(p)         BY <2>4 DEF Fault
    <2>5. ASSUME NEW q \in Procs, Kill(p, q) PROVE IndInv'
      BY <2>5 DEF Kill
    <2> HIDE DEF IndInv
    <2> QED BY <1>1, <2>1, <2>2, <2>3, <2>4, <2>5 DEF Program
  <1>2. CASE Run(p)             BY <1>2 DEF Run
  <1>3. CASE SwitchAway(p)
    <2>1. /\ Types' /\ Flags' /\ WaitLockHeld' /\ LocksHeld' /\ Places' /\ InitLives' /\ Forks'
          /\ Loops' /\ Sleepers'
      BY <1>3 DEF SwitchAway
    <2>2. Family'
      <3> HIDE DEF Family, Fresh, Children
      <3> QED BY <1>3, FamilyKept DEF SwitchAway
    <2> QED BY <2>1, <2>2
  <1>4. CASE TrapExit(p)
    <2>1. /\ Types' /\ Flags' /\ WaitLockHeld' /\ LocksHeld' /\ Places' /\ InitLives' /\ Forks'
          /\ Loops' /\ Sleepers'
      BY <1>4 DEF TrapExit
    <2>2. Family'
      <3> HIDE DEF Family, Fresh, Children
      <3> QED BY <1>4, FamilyKept DEF TrapExit
    <2> QED BY <2>1, <2>2
  <1>5. CASE TrapReturn(p)      BY <1>5 DEF TrapReturn
  <1>6. CASE Fork(p)
    <2>1. ASSUME NEW q \in Procs, ForkAlloc(p, q) PROVE IndInv'
      BY <2>1 DEF ForkAlloc
    <2>2. CASE ForkNone(p)      BY <2>2 DEF ForkNone
    <2>3. CASE ForkCopy(p)      BY <2>3 DEF ForkCopy
    <2>4. CASE ForkCopyFails(p) BY <2>4 DEF ForkCopyFails
    <2>5. CASE ForkParent(p)    BY <2>5 DEF ForkParent
    <2>6. CASE ForkRun(p)
      <3>1. np[p] \in Procs /\ np[p] # p /\ np[p] # initproc /\ parent[np[p]] = p
        BY <2>6 DEF ForkRun
      <3>2. Types' /\ Flags' /\ WaitLockHeld' /\ LocksHeld' /\ Places' /\ InitLives' /\ Forks'
        BY <2>6, <3>1 DEF ForkRun
      <3>3. \A r \in Procs : mine'[r] \union Fresh(r)' = mine[r] \union Fresh(r)
        BY <2>6, <3>1 DEF ForkRun
      <3>4. Family'
        <4>1. \A r \in Procs : Children(r)' = Children(r)
          BY <2>6 DEF ForkRun
        <4>2. \A r \in Procs : /\ mine'[r] \union Fresh(r)' \subseteq Children(r)'
                               /\ r # initproc => Children(r)' \subseteq mine'[r] \union Fresh(r)'
          <5> HIDE DEF Fresh, Children
          <5> QED BY <3>3, <4>1
        <4>3. \A q \in Procs :
                /\ state'[q] = "UNUSED" => parent'[q] = None
                /\ q # initproc /\ state'[q] \in {"SLEEPING", "RUNNABLE", "RUNNING", "ZOMBIE"} =>
                     parent'[q] \in Procs
          BY <2>6, <3>1 DEF ForkRun
        <4>4. \A q \in Procs : parent'[q] \in Procs =>
                /\ state'[parent'[q]] \in {"SLEEPING", "RUNNABLE", "RUNNING"}
                /\ pc'[parent'[q]] \notin {"x_init", "x_parent", "x_zombie"}
          <5>1. \A r \in Procs :
                  /\ state'[r] = state[r] \/ state'[r] = "RUNNABLE"
                  /\ pc'[r] = pc[r] \/ pc'[r] \in {"ret", "start"}
            BY <2>6, <3>1 DEF ForkRun
          <5>2. parent' = parent
            BY <2>6 DEF ForkRun
          <5>3. \A q \in Procs : parent[q] \in Procs =>
                  /\ state[parent[q]] \in {"SLEEPING", "RUNNABLE", "RUNNING"}
                  /\ pc[parent[q]] \notin {"x_init", "x_parent", "x_zombie"}
            OBVIOUS
          <5> HIDE DEF IndInv
          <5> QED BY <5>1, <5>2, <5>3
        <4> HIDE DEF Fresh, Children
        <4> QED BY <4>2, <4>3, <4>4
      <3>5. Loops' /\ Sleepers'
        BY <2>6, <3>1 DEF ForkRun
      <3> QED BY <3>2, <3>4, <3>5
    <2> HIDE DEF IndInv
    <2> QED BY <1>6, <2>1, <2>2, <2>3, <2>4, <2>5, <2>6 DEF Fork
  <1>7. CASE Exit(p)
    <2>1. CASE ExitLock(p)      BY <2>1 DEF ExitLock
    <2>2. CASE ExitReparent(p)
      <3>1. Types' /\ Flags' /\ WaitLockHeld' /\ LocksHeld' /\ Places' /\ InitLives' /\ Forks'
        BY <2>2 DEF ExitReparent
      <3>2. Family'
        BY <2>2 DEF ExitReparent
      <3>3. parent'[p] \in Procs /\ ~ (parent'[p] < 0)
        BY <2>2, ExitingParent DEF ExitReparent
      <3>4. Loops'
        BY <2>2, <3>3 DEF ExitReparent
      <3>5. Sleepers'
        BY <2>2 DEF ExitReparent
      <3> QED BY <3>1, <3>2, <3>4, <3>5
    <2>3. CASE ExitWakeup(p)
      <3>0. pc[p] \in {"x_init", "x_parent"}
        BY <2>3 DEF ExitWakeup, WakeupOne, WakeupEnd
      <3>1. /\ p # initproc /\ parent[p] \in Procs /\ parent[p] # p
            /\ ~ (parent[p] < 0) /\ parent[p] < NPROC
        BY <3>0, ExitingParent
      <3>2. CASE WakeupOne(p, initproc, "x_init")
        BY <3>1, <3>2 DEF WakeupOne
      <3>3. CASE WakeupOne(p, parent[p], "x_parent")
        <4>1. /\ Types' /\ Flags' /\ WaitLockHeld' /\ LocksHeld' /\ Places' /\ InitLives'
              /\ Forks' /\ Family' /\ Sleepers'
          BY <3>1, <3>3 DEF WakeupOne
        <4>2. parent[p] < pp[p] + 1 => parent[p] < pp[p] \/ parent[p] = pp[p]
          <5>1. pp[p] \in 0..NPROC
            OBVIOUS
          <5> HIDE DEF IndInv
          <5> QED BY <3>1, <5>1
        <4>3. pp[p] = parent[p] => state'[parent[p]] # "SLEEPING"
          BY <3>1, <3>3 DEF WakeupOne
        <4>4. Loops'
          BY <3>1, <3>3, <4>2, <4>3 DEF WakeupOne
        <4> QED BY <4>1, <4>4
      <3>4. CASE WakeupEnd(p, "x_init", "x_parent")
        BY <3>1, <3>4 DEF WakeupEnd
      <3>5. CASE WakeupEnd(p, "x_parent", "x_zombie")
        BY <3>1, <3>5 DEF WakeupEnd
      <3> HIDE DEF IndInv
      <3> QED BY <2>3, <3>2, <3>3, <3>4, <3>5 DEF ExitWakeup
    <2>4. CASE ExitZombie(p)    BY <2>4 DEF ExitZombie
    <2> HIDE DEF IndInv
    <2> QED BY <1>7, <2>1, <2>2, <2>3, <2>4 DEF Exit
  <1>8. CASE Wait(p)
    <2>1. CASE WaitLock(p)      BY <2>1 DEF WaitLock
    <2>2. CASE WaitPass(p)      BY <2>2 DEF WaitPass
    <2>3. CASE WaitReap(p)      BY <2>3 DEF WaitReap
    <2>4. CASE WaitCopyFails(p) BY <2>4 DEF WaitCopyFails
    <2>5. CASE WaitNothing(p)   BY <2>5 DEF WaitNothing
    <2>6. CASE WaitKeepOn(p)    BY <2>6 DEF WaitKeepOn
    <2>7. CASE WaitSleep(p)     BY <2>7 DEF WaitSleep
    <2> HIDE DEF IndInv
    <2> QED BY <1>8, <2>1, <2>2, <2>3, <2>4, <2>5, <2>6, <2>7 DEF Wait
  <1> HIDE DEF IndInv
  <1> QED BY <1>1, <1>2, <1>3, <1>4, <1>5, <1>6, <1>7, <1>8 DEF Kernel

LEMMA IndInvHolds == Spec => []IndInv
  <1>1. IndInv /\ [Next]_vars => IndInv'
    <2>1. ASSUME IndInv, UNCHANGED vars PROVE IndInv'
      BY <2>1
      DEF vars, fields, locals, IndInv, Types, Flags, WaitLockHeld, LocksHeld, Places, InitLives,
          Forks, Family, Loops, Sleepers, Fresh, Children
    <2> QED BY <2>1, IndInvStep DEF Next
  <1> QED BY <1>1, IndInvInit, PTL DEF Spec

(* Every path through fork, exit, wait and kill takes and releases         *)
(* wait_lock and p->lock where the code says, for any process table.       *)
THEOREM LockDiscipline == Spec => []TypeOK
  <1>1. IndInv => TypeOK
    BY DEF IndInv, Types, Flags, WaitLockHeld, LocksHeld, TypeOK
  <1> QED BY <1>1, IndInvHolds, PTL

(* The parent of every process that has begun to run is alive, and a       *)
(* program's children are the ones fork and wait have told it about.       *)
THEOREM FamiliesAgree == Spec => []FamilyAgrees
  <1>1. IndInv => FamilyAgrees
    <2> SUFFICES ASSUME IndInv PROVE FamilyAgrees
      OBVIOUS
    <2>1. ASSUME NEW q \in Procs \ {initproc},
                 state[q] \in {"SLEEPING", "RUNNABLE", "RUNNING", "ZOMBIE"}
          PROVE  parent[q] \in Procs /\ state[parent[q]] \in {"SLEEPING", "RUNNABLE", "RUNNING"}
      BY <2>1 DEF IndInv, Family
    <2>2. ASSUME NEW p \in Procs, pc[p] \in {"user", "ret"}
          PROVE  /\ mine[p] \subseteq Children(p)
                 /\ p # initproc => Children(p) = mine[p]
      <3>1. Fresh(p) = {}
        BY <2>2 DEF Fresh
      <3> QED BY <2>2, <3>1 DEF IndInv, Family
    <2> QED BY <2>1, <2>2 DEF FamilyAgrees
  <1> QED BY <1>1, IndInvHolds, PTL

(* No process sleeps in wait while one of its children is a zombie and     *)
(* wait_lock is free: the wakeup of exit is never missed.                  *)
THEOREM ExitsNotMissed == Spec => []NoMissedExit
  <1>1. IndInv => NoMissedExit
    BY ProcFacts DEF IndInv, Types, WaitLockHeld, Sleepers, Holding, NoMissedExit
  <1> QED BY <1>1, IndInvHolds, PTL

(* A slot is free, or handed out by allocproc, only after the process that *)
(* was in it has left its kernel stack.                                    *)
THEOREM SlotsFreedOffCpu == Spec => []FreedOffCpu
  <1>1. IndInv => FreedOffCpu
    BY DEF IndInv, Places, FreedOffCpu
  <1> QED BY <1>1, IndInvHolds, PTL

=============================================================================
