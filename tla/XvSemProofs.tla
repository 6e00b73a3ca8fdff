---------------------------- MODULE XvSemProofs ----------------------------
(* Proofs about XvSem, for any processes, number of slots and values. *)
EXTENDS XvSem, FiniteSetTheorems, TLAPS

(* A process has a slot from the moment its call names or finds one. *)
Ids == \A p \in Procs : id[p] \in Sems <=> pc[p] \notin {"idle", "cr_acquire"}

(* What the three stores of sem_create have done so far. *)
Initialising ==
    \A p \in Procs :
      /\ pc[p] = "cr_used" => used[id[p]] = 0
      /\ pc[p] \in {"cr_value", "cr_init", "cr_release"} => used[id[p]] = 1
      /\ pc[p] \in {"cr_init", "cr_release"} => value[id[p]] = arg[p]
      /\ pc[p] = "cr_release" => init_value[id[p]] = arg[p]

(* The answers of earlier tests that still hold: sem_free's of used, under *)
(* sem_array_lock, and sem_down's of value, under the lock of the slot.    *)
Tested ==
    \A p \in Procs :
      /\ pc[p] \in {"fr_lock", "fr_check"} => used[id[p]] = 1
      /\ pc[p] = "dn_take" => value[id[p]] > 0

(* The discipline of programs with overlap: a create is alone. *)
CreatesAlone ==
    overlap => \A p \in Procs : pc[p] \in CreatePc \union {"cr_acquire"} =>
                 live = {} /\ \A q \in Procs \ {p} : pc[q] = "idle"

(* The discipline of programs without: a call of sem_free has the slot to  *)
(* itself until it has refused, and everybody else's slot is in use.       *)
Freeing(p) ==
    \/ pc[p] \in {"fr_array", "fr_lock", "fr_check"}
    \/ pc[p] \in {"fr_release", "fr_return"} /\ used[id[p]] = 0

FreesAlone ==
    ~ overlap => \A p \in Procs :
      /\ Freeing(p) => id[p] \notin live /\ \A q \in Procs \ {p} : id[q] # id[p]
      /\ id[p] \in Sems /\ pc[p] \notin {"cr_used", "fr_release", "fr_return"} => used[id[p]] = 1

(* The state of a slot, between its sem_create and its sem_free. *)
Balance(s) ==
    value[s] + net[s] + Cardinality(At(s, {"dn_release"}))
      + Cardinality(At(s, {"up_acquire", "up_check"})) = init_value[s]

Balanced ==
    \A s \in Sems :
      used[s] = 1 /\ (\A p \in Procs : pc[p] \in CreatePc => id[p] # s) => Balance(s)

(* Who finds a permit and sleepers is about to wake them. *)
Waking ==
    \A q \in Procs : pc[q] = "asleep" /\ value[id[q]] > 0 =>
      \E p \in Procs : pc[p] = "up_wakeup" /\ id[p] = id[q]

-----------------------------------------------------------------------------
(* The parts of TypeOK. *)
Types ==
    /\ used \in [Sems -> {0, 1}]
    /\ value \in [Sems -> Nat]
    /\ init_value \in [Sems -> InitValues \union {0}]
    /\ lock \in [Sems -> Procs \union {NoProc}]
    /\ sem_array_lock \in Procs \union {NoProc}
    /\ pc \in [Procs -> PcValues]
    /\ id \in [Procs -> Sems \union {-1}]
    /\ arg \in [Procs -> InitValues \union {0}]
    /\ live \subseteq Sems
    /\ net \in [Sems -> Int]
    /\ overlap \in Styles

ArrayLock == \A p \in Procs : sem_array_lock = p <=> pc[p] \in ArrayPc

SlotLock ==
    \A p \in Procs, s \in Sems : lock[s] = p <=> (id[p] = s /\ pc[p] \in LockPc)

LiveUsed == \A s \in live : used[s] = 1

(* sem_create works on a slot that nobody else uses, which programs see to *)
(* (see SysCall).                                                          *)
CreatesFresh ==
    \A p \in Procs : pc[p] \in CreatePc =>
      id[p] \notin live /\ \A q \in Procs \ {p} : id[q] # id[p]

SlotInv ==
    /\ Types /\ Ids /\ ArrayLock /\ SlotLock /\ LiveUsed /\ CreatesFresh
    /\ Initialising /\ Tested /\ CreatesAlone /\ FreesAlone

IndInv == SlotInv /\ Balanced /\ Waking

LEMMA TypeOKParts ==
    TypeOK <=> Types /\ ArrayLock /\ SlotLock /\ LiveUsed
  BY DEF TypeOK, Types, ArrayLock, SlotLock, LiveUsed

LEMMA NoSlot == -1 \notin Sems
  BY SemAssumption DEF Sems

LEMMA InitNat == \A v \in InitValues \union {0} : v \in Nat
  <1>1. ASSUME NEW v \in InitValues PROVE v \in Nat
    BY SemAssumption, Zenon
  <1> QED BY <1>1

LEMMA SlotInvInit == Init => SlotInv
  BY NoSlot, SemAssumption
  DEF Init, SlotInv, Types, Ids, ArrayLock, SlotLock, LiveUsed, CreatesFresh, Initialising,
      Tested, CreatesAlone, FreesAlone, Freeing, CreatePc, ArrayPc, LockPc, PcValues

(* Every action keeps the locks, the slots and the disciplines.            *)
(* CreateFind finds a slot nobody else uses: without overlap whoever has   *)
(* an unused slot is inside sem_free or sem_create, with sem_array_lock    *)
(* held, and with overlap nobody else is in a system call.                 *)
LEMMA SlotInvStep ==
    ASSUME SlotInv, NEW p \in Procs, SysCall(p) \/ Step(p) \/ Kill(p)
    PROVE  SlotInv'
  <1> USE NoSlot, SemAssumption
      DEF SlotInv, Types, Ids, ArrayLock, SlotLock, LiveUsed, CreatesFresh, Initialising, Tested,
          CreatesAlone, FreesAlone, Freeing, fields, Goto, Call, Return, Acquire, CreatePc,
          ArrayPc, LockPc, PcValues
  <1>1. CASE SysCall(p)
    <2>1. ASSUME overlap => live = {} /\ \A q \in Procs : pc[q] = "idle",
                 NEW v \in InitValues, CreateCall(p, v)
          PROVE  SlotInv'
      BY <2>1 DEF CreateCall
    <2>2. ASSUME overlap => \A q \in Procs : pc[q] \notin CreatePc \union {"cr_acquire"},
                 NEW s \in live, FreeCall(p, s)
          PROVE  SlotInv'
      BY <2>2 DEF FreeCall
    <2>3. ASSUME overlap => \A q \in Procs : pc[q] \notin CreatePc \union {"cr_acquire"},
                 NEW s \in live, DownCall(p, s)
          PROVE  SlotInv'
      BY <2>3 DEF DownCall
    <2>4. ASSUME overlap => \A q \in Procs : pc[q] \notin CreatePc \union {"cr_acquire"},
                 NEW s \in live, UpCall(p, s)
          PROVE  SlotInv'
      BY <2>4 DEF UpCall
    <2> HIDE DEF SlotInv
    <2> QED BY <1>1, <2>1, <2>2, <2>3, <2>4 DEF SysCall
  <1>2. CASE Create(p)
    <2>1. CASE CreateFind(p)    BY <2>1 DEF CreateFind
    <2>2. CASE CreateFail(p)    BY <2>2 DEF CreateFail
    <2>3. CASE CreateUsed(p)    BY <2>3 DEF CreateUsed
    <2>4. CASE CreateValue(p)
      <3>1. arg[p] \in Nat
        BY InitNat
      <3> QED BY <2>4, <3>1 DEF CreateValue
    <2>5. CASE CreateInit(p)    BY <2>5 DEF CreateInit
    <2>6. CASE CreateReturn(p)  BY <2>6 DEF CreateReturn
    <2> HIDE DEF SlotInv
    <2> QED BY <1>2, <2>1, <2>2, <2>3, <2>4, <2>5, <2>6 DEF Create
  <1>3. CASE Free(p)
    <2>1. CASE FreeArray(p)     BY <2>1 DEF FreeArray
    <2>2. CASE FreeUnused(p)    BY <2>2 DEF FreeUnused
    <2>3. CASE FreeLock(p)      BY <2>3 DEF FreeLock
    <2>4. CASE FreeRefuse(p)    BY <2>4 DEF FreeRefuse
    <2>5. CASE FreeClear(p)     BY <2>5 DEF FreeClear
    <2>6. CASE FreeRelease(p)   BY <2>6 DEF FreeRelease
    <2>7. CASE FreeReturn(p)    BY <2>7 DEF FreeReturn
    <2> HIDE DEF SlotInv
    <2> QED BY <1>3, <2>1, <2>2, <2>3, <2>4, <2>5, <2>6, <2>7 DEF Free
  <1>4. CASE Down(p)
    <2>1. CASE DownAcquire(p)   BY <2>1 DEF DownAcquire
    <2>2. CASE DownUnused(p)    BY <2>2 DEF DownUnused
    <2>3. CASE DownUsed(p)      BY <2>3 DEF DownUsed
    <2>4. CASE DownSleep(p)     BY <2>4 DEF DownSleep
    <2>5. CASE DownReacquire(p) BY <2>5 DEF DownReacquire
    <2>6. CASE DownGo(p)        BY <2>6 DEF DownGo
    <2>7. CASE DownTake(p)      BY <2>7 DEF DownTake
    <2>8. CASE DownReturn(p)    BY <2>8 DEF DownReturn
    <2> HIDE DEF SlotInv
    <2> QED BY <1>4, <2>1, <2>2, <2>3, <2>4, <2>5, <2>6, <2>7, <2>8 DEF Down
  <1>5. CASE Up(p)
    <2>1. CASE UpAcquire(p)     BY <2>1 DEF UpAcquire
    <2>2. CASE UpUnused(p)      BY <2>2 DEF UpUnused
    <2>3. CASE UpAdd(p)         BY <2>3 DEF UpAdd
    <2>4. CASE UpWakeup(p)      BY <2>4 DEF UpWakeup
    <2>5. CASE UpReturn(p)      BY <2>5 DEF UpReturn
    <2> HIDE DEF SlotInv
    <2> QED BY <1>5, <2>1, <2>2, <2>3, <2>4, <2>5 DEF Up
  <1>6. CASE Kill(p)            BY <1>6 DEF Kill
  <1> HIDE DEF SlotInv
  <1> QED BY <1>1, <1>2, <1>3, <1>4, <1>5, <1>6 DEF Step

-----------------------------------------------------------------------------
(* A wakeup is not lost: whoever raises the value of a slot others sleep   *)
(* on is the one who wakes them, and nobody falls asleep over a permit.    *)
LEMMA WakingStep ==
    ASSUME SlotInv, Waking, NEW p \in Procs, SysCall(p) \/ Step(p) \/ Kill(p)
    PROVE  Waking'
  <1> USE SemAssumption DEF SlotInv, Types, Ids, Waking, fields, Goto, Call, Return, Acquire
  <1>1. CASE SysCall(p)
    BY <1>1 DEF SysCall, CreateCall, FreeCall, DownCall, UpCall
  <1>2. CASE Create(p)
    BY <1>2 DEF Create, CreateFind, CreateFail, CreateUsed, CreateValue, CreateInit, CreateReturn,
                CreatesFresh, CreatePc
  <1>3. CASE Free(p)
    BY <1>3 DEF Free, FreeArray, FreeUnused, FreeLock, FreeRefuse, FreeClear, FreeRelease,
                FreeReturn
  <1>4. CASE Down(p)
    BY <1>4 DEF Down, DownAcquire, DownUnused, DownUsed, DownSleep, DownReacquire, DownGo,
                DownTake, DownReturn
  <1>5. CASE Up(p)
    <2>1. CASE UpWakeup(p)
      BY <2>1 DEF UpWakeup
    <2>2. CASE UpAcquire(p) \/ UpUnused(p) \/ UpAdd(p) \/ UpReturn(p)
      BY <2>2 DEF UpAcquire, UpUnused, UpAdd, UpReturn
    <2> QED BY <1>5, <2>1, <2>2 DEF Up
  <1>6. CASE Kill(p)
    BY <1>6 DEF Kill
  <1> QED BY <1>1, <1>2, <1>3, <1>4, <1>5, <1>6 DEF Step

-----------------------------------------------------------------------------
LEMMA CountType ==
    ASSUME NEW s, NEW L
    PROVE  IsFiniteSet(At(s, L)) /\ Cardinality(At(s, L)) \in Nat
  <1>1. At(s, L) \subseteq Procs
    BY DEF At
  <1> QED BY <1>1, SemAssumption, FS_Subset, FS_CardinalityType

(* The process that comes to one of the statements of L adds one to the    *)
(* number of those that are there.                                         *)
LEMMA OneMore ==
    ASSUME NEW s, NEW L, NEW p \in Procs, p \notin At(s, L), At(s, L)' = At(s, L) \union {p}
    PROVE  Cardinality(At(s, L)') = Cardinality(At(s, L)) + 1
  BY CountType, FS_AddElement

LEMMA OneLess ==
    ASSUME NEW s, NEW L, NEW p \in Procs, p \in At(s, L), At(s, L)' = At(s, L) \ {p}
    PROVE  Cardinality(At(s, L)') = Cardinality(At(s, L)) - 1
  BY CountType, FS_RemoveElement

(* A slot in use stays balanced: sem_down moves a permit from the value to *)
(* the processes about to return, sem_up announces one and then delivers   *)
(* it, and sem_create leaves a slot nobody has worked on.                  *)
LEMMA BalancedStep ==
    ASSUME SlotInv, Balanced, NEW p \in Procs, SysCall(p) \/ Step(p) \/ Kill(p)
    PROVE  Balanced'
  <1> SUFFICES ASSUME NEW s \in Sems, used'[s] = 1,
                      \A q \in Procs : pc'[q] \in CreatePc => id'[q] # s
               PROVE  Balance(s)'
    BY DEF Balanced
  <1> DEFINE D == At(s, {"dn_release"})
             U == At(s, {"up_acquire", "up_check"})
  <1>n. /\ Cardinality(D) \in Nat /\ Cardinality(U) \in Nat
        /\ value[s] \in Nat /\ net[s] \in Int /\ init_value[s] \in Nat
    <2>1. init_value[s] \in InitValues \union {0}
      BY DEF SlotInv, Types
    <2> QED BY <2>1, InitNat, CountType DEF SlotInv, Types
  <1>a. used[s] = 1 /\ (\A q \in Procs : pc[q] \in CreatePc => id[q] # s) => Balance(s)
    BY DEF Balanced
  <1>b. Balance(s) <=> value[s] + net[s] + Cardinality(D) + Cardinality(U) = init_value[s]
    BY DEF Balance
  <1>c. Balance(s)' <=>
          value'[s] + net'[s] + Cardinality(D') + Cardinality(U') = init_value'[s]
    BY DEF Balance
  <1> USE DEF SlotInv, Types, Ids, fields, Goto, Call, Return, Acquire, CreatePc
  <1>same. ASSUME used'[s] = used[s], value'[s] = value[s], net'[s] = net[s],
                  init_value'[s] = init_value[s], D' = D, U' = U,
                  \A q \in Procs : pc[q] \in CreatePc => id[q] # s
           PROVE  Balance(s)'
    BY <1>same, <1>a, <1>b, <1>c
  <1> HIDE DEF D, U
  <1>1. CASE SysCall(p)
    <2>1. ASSUME NEW r \in live, UpCall(p, r)
          PROVE  Balance(s)'
      <3>1. CASE r = s
        <4>1. U' = U \union {p} /\ p \notin U /\ D' = D
          BY <2>1, <3>1, NoSlot DEF UpCall, U, D, At
        <4>2. Cardinality(U') = Cardinality(U) + 1
          BY <4>1, OneMore DEF U
        <4>3. Balance(s)
          BY <2>1, <3>1, <1>a DEF UpCall, LiveUsed, CreatesFresh
        <4> QED BY <2>1, <3>1, <4>1, <4>2, <4>3, <1>b, <1>c, <1>n DEF UpCall
      <3>2. CASE r # s
        BY <2>1, <3>2, <1>same, NoSlot DEF UpCall, U, D, At
      <3> QED BY <3>1, <3>2
    <2>2. ASSUME ~ \E r \in live : UpCall(p, r)
          PROVE  Balance(s)'
      BY <1>1, <2>2, <1>same, NoSlot DEF SysCall, CreateCall, FreeCall, DownCall, U, D, At
    <2> QED BY <2>1, <2>2
  <1>2. CASE Create(p)
    <2>1. CASE CreateReturn(p) /\ id[p] = s
      <3>1. D' = {} /\ U' = {}
        BY <2>1, NoSlot DEF CreateReturn, CreatesFresh, D, U, At
      <3>2. Cardinality(D') = 0 /\ Cardinality(U') = 0
        BY <3>1, FS_EmptySet
      <3>3. value'[s] = init_value'[s] /\ net'[s] = 0
        BY <2>1 DEF CreateReturn, Initialising
      <3> QED BY <2>1, <3>2, <3>3, <1>c, <1>n DEF CreateReturn
    <2>2. CASE CreateReturn(p) /\ id[p] # s
      BY <2>2, <1>same, NoSlot DEF CreateReturn, U, D, At
    <2>3. CASE CreateFind(p)
      BY <2>3, <1>same, NoSlot DEF CreateFind, U, D, At
    <2>4. CASE CreateFail(p)
      BY <2>4, <1>same, NoSlot DEF CreateFail, U, D, At
    <2>5. CASE CreateUsed(p) \/ CreateValue(p) \/ CreateInit(p)
      BY <2>5, <1>same, NoSlot DEF CreateUsed, CreateValue, CreateInit, U, D, At
    <2> QED BY <1>2, <2>1, <2>2, <2>3, <2>4, <2>5 DEF Create
  <1>3. CASE Free(p)
    BY <1>3, <1>same, NoSlot
    DEF Free, FreeArray, FreeUnused, FreeLock, FreeRefuse, FreeClear, FreeRelease, FreeReturn,
        U, D, At
  <1>4. CASE Down(p)
    <2>1. CASE DownTake(p) /\ id[p] = s
      <3>1. D' = D \union {p} /\ p \notin D /\ U' = U
        BY <2>1 DEF DownTake, U, D, At
      <3>2. Cardinality(D') = Cardinality(D) + 1
        BY <3>1, OneMore DEF D
      <3>3. Balance(s)
        BY <2>1, <1>a DEF DownTake, CreatesFresh
      <3> QED BY <2>1, <3>1, <3>2, <3>3, <1>b, <1>c, <1>n DEF DownTake
    <2>2. CASE DownReturn(p) /\ id[p] = s
      <3>1. D' = D \ {p} /\ p \in D /\ U' = U
        BY <2>2, NoSlot DEF DownReturn, U, D, At
      <3>2. Cardinality(D') = Cardinality(D) - 1
        BY <3>1, OneLess DEF D
      <3>3. Balance(s)
        BY <2>2, <1>a DEF DownReturn, CreatesFresh
      <3> QED BY <2>2, <3>1, <3>2, <3>3, <1>b, <1>c, <1>n DEF DownReturn
    <2>3. CASE (DownTake(p) \/ DownReturn(p)) /\ id[p] # s
      BY <2>3, <1>same, NoSlot DEF DownTake, DownReturn, U, D, At
    <2>4. CASE DownAcquire(p) \/ DownUnused(p) \/ DownUsed(p) \/ DownSleep(p)
                 \/ DownReacquire(p) \/ DownGo(p)
      BY <2>4, <1>same, NoSlot
      DEF DownAcquire, DownUnused, DownUsed, DownSleep, DownReacquire, DownGo, U, D, At
    <2> QED BY <1>4, <2>1, <2>2, <2>3, <2>4 DEF Down
  <1>5. CASE Up(p)
    <2>1. CASE UpAdd(p) /\ id[p] = s
      <3>1. U' = U \ {p} /\ p \in U /\ D' = D
        BY <2>1 DEF UpAdd, U, D, At
      <3>2. Cardinality(U') = Cardinality(U) - 1
        BY <3>1, OneLess DEF U
      <3>3. Balance(s)
        BY <2>1, <1>a DEF UpAdd, CreatesFresh
      <3> QED BY <2>1, <3>1, <3>2, <3>3, <1>b, <1>c, <1>n DEF UpAdd
    <2>2. CASE UpAdd(p) /\ id[p] # s
      BY <2>2, <1>same, NoSlot DEF UpAdd, U, D, At
    <2>3. CASE UpUnused(p)
      BY <2>3, <1>same, NoSlot DEF UpUnused, U, D, At
    <2>4. CASE UpAcquire(p) \/ UpReturn(p)
      BY <2>4, <1>same, NoSlot DEF UpAcquire, UpReturn, U, D, At
    <2>5. CASE UpWakeup(p)
      BY <2>5, <1>same DEF UpWakeup, U, D, At
    <2> QED BY <1>5, <2>1, <2>2, <2>3, <2>4, <2>5 DEF Up
  <1>6. CASE Kill(p)
    BY <1>6, <1>same DEF Kill, U, D, At
  <1> QED BY <1>1, <1>2, <1>3, <1>4, <1>5, <1>6 DEF Step

-----------------------------------------------------------------------------
LEMMA IndInvHolds == Spec => []IndInv
  <1>1. Init => IndInv
    <2>1. Init => Balanced /\ Waking
      BY DEF Init, Balanced, Waking
    <2> QED BY <2>1, SlotInvInit DEF IndInv
  <1>2. IndInv /\ [Next]_vars => IndInv'
    <2>1. ASSUME IndInv, NEW p \in Procs, SysCall(p) \/ Step(p) \/ Kill(p)
          PROVE  IndInv'
      BY <2>1, SlotInvStep, WakingStep, BalancedStep DEF IndInv
    <2>2. ASSUME IndInv, UNCHANGED vars
          PROVE  IndInv'
      BY <2>2
      DEF vars, fields, IndInv, SlotInv, Types, Ids, ArrayLock, SlotLock, LiveUsed, CreatesFresh,
          Initialising, Tested, CreatesAlone, FreesAlone, Freeing, Balanced, Balance, Waking, At
    <2> QED BY <2>1, <2>2 DEF Next
  <1> QED BY <1>1, <1>2, PTL DEF Spec

(* The lock discipline of sem.c and the types: sem_array_lock and the      *)
(* spinlocks are held exactly between acquire and release, no value is     *)
(* negative, and sem_create's unlocked stores meet nobody else.            *)
THEOREM LocksHeld == Spec => []TypeOK
  <1>1. IndInv => TypeOK
    BY TypeOKParts DEF IndInv, SlotInv
  <1> QED BY <1>1, IndInvHolds, PTL

(* The value of a semaphore accounts for every sem_down and sem_up, for    *)
(* any number of processes and slots and any initial values.               *)
THEOREM PermitsAccounted == Spec => []PermitsBalance
  <1>1. IndInv => PermitsBalance
    BY DEF IndInv, SlotInv, Types, LiveUsed, CreatesFresh, Balanced, Balance, PermitsBalance
  <1> QED BY <1>1, IndInvHolds, PTL

(* Nobody sleeps on a semaphore that has a permit while its lock is free:  *)
(* the process that is about to wake the sleepers still holds it.          *)
THEOREM WakeupsNotLost == Spec => []NoLostWakeup
  <1>1. IndInv => NoLostWakeup
    BY SemAssumption
    DEF IndInv, SlotInv, Types, SlotLock, LockPc, Waking, NoLostWakeup, At
  <1> QED BY <1>1, IndInvHolds, PTL

=============================================================================
