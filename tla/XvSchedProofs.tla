--------------------------- MODULE XvSchedProofs ---------------------------
(* Proofs about XvSched, for any CPUs, size of the table and priorities. *)
EXTENDS XvSched, TLAPS

Types ==
    /\ state \in [Procs -> {"UNUSED", "USED", "SLEEPING", "RUNNABLE", "RUNNING"}]
    /\ chan \in [Procs -> Chans \union {NoChan}]
    /\ accumulator \in [Procs -> Nat]
    /\ ps_priority \in [Procs -> 0..10]
    /\ lock \in [Procs -> CPUs \union {Nobody}]
    /\ pc \in [CPUs -> {"scan", "resume", "user", "yield", "switch", "wakeup",
                        "alloc", "min", "fork", "off"}]
    /\ proc \in [CPUs -> Procs \union {None}]
    /\ p \in [CPUs -> 0..NPROC]
    /\ min_p \in [CPUs -> Procs \union {None}]
    /\ wp \in [CPUs -> 0..NPROC]
    /\ wchan \in [CPUs -> Chans \union {NoChan}]
    /\ gp \in [CPUs -> 0..NPROC]
    /\ min_acc \in [CPUs -> Nat \union {-1}]

(* The one lock a CPU holds, if any: of the best candidate of its scan, of *)
(* the process it switches to or from, or of the one whose accumulator it  *)
(* is about to set.                                                        *)
Locks ==
    \A c \in CPUs, q \in Procs :
      lock[q] = c <=> \/ pc[c] = "scan" /\ q = min_p[c]
                      \/ pc[c] \in {"resume", "switch"} /\ q = proc[c]
                      \/ pc[c] = "min" /\ q = wp[c]

(* The locals of scheduler() and c->proc. *)
Locals ==
    \A c \in CPUs :
      /\ pc[c] \in {"scan", "off"} => proc[c] = None
      /\ pc[c] # "scan" => min_p[c] = proc[c]
      /\ pc[c] = "scan" /\ min_p[c] # None => min_p[c] < p[c] /\ state[min_p[c]] = "RUNNABLE"
      /\ pc[c] \in {"resume", "user", "yield", "switch", "alloc", "fork"} => proc[c] # None
      /\ pc[c] = "switch" => state[proc[c]] \in {"RUNNABLE", "SLEEPING"}
      /\ pc[c] # "switch" /\ proc[c] # None => state[proc[c]] = "RUNNING"

(* The process that wakeup or fork works on, and the scan for its          *)
(* accumulator.                                                            *)
Callees ==
    \A c \in CPUs :
      /\ pc[c] = "min" => wp[c] < NPROC /\ state[wp[c]] \in {"USED", "SLEEPING"}
      /\ pc[c] = "min" /\ proc[c] = None => state[wp[c]] = "SLEEPING"
      /\ pc[c] = "fork" => wp[c] < NPROC /\ state[wp[c]] = "USED"
      /\ pc[c] # "min" => gp[c] = 0 /\ min_acc[c] = -1

(* A new process belongs to one call of fork until it is RUNNABLE. *)
Forking(c) == pc[c] = "fork" \/ (pc[c] = "min" /\ state[wp[c]] = "USED")

ForksApart == \A c, d \in CPUs : Forking(c) /\ Forking(d) /\ wp[c] = wp[d] => c = d

OneCpu ==
    /\ \A c, d \in CPUs : proc[c] # None /\ proc[c] = proc[d] => c = d
    /\ \A q \in Procs : state[q] = "RUNNING" => \E c \in CPUs : proc[c] = q

TableInv == Types /\ Locks /\ Locals /\ Callees /\ ForksApart /\ OneCpu

(* A machine with one CPU. *)
Alone(c) == \A d \in CPUs \ {c} : pc[d] = "off"

(* What get_min_accumulator has found, when an interrupt during the scan   *)
(* of the only CPU calls it: the minimum of what it has looked at.         *)
Seen(c) == {q \in Procs : q < gp[c] /\ q # wp[c] /\ state[q] = "RUNNABLE"}

MinSoFar ==
    \A c \in CPUs : pc[c] = "min" /\ proc[c] = None /\ Alone(c) =>
      IF min_acc[c] = -1 THEN Seen(c) = {}
      ELSE /\ \E q \in Seen(c) : accumulator[q] = min_acc[c]
           /\ \A q \in Seen(c) : min_acc[c] <= accumulator[q]

(* A RUNNABLE process q that the scan has passed is no better than the     *)
(* candidate, or than one the scan has yet to meet.  Without candidate q   *)
(* was woken behind the scan, with the minimum of all accumulators, and    *)
(* there may be nothing else to run.                                       *)
Ahead(c) == {r \in Procs : p[c] <= r /\ state[r] = "RUNNABLE"}

PassedOver(c, q) ==
    \/ min_p[c] # None /\ accumulator[min_p[c]] <= accumulator[q]
    \/ \E r \in Ahead(c) : accumulator[r] <= accumulator[q]
    \/ min_p[c] = None /\ Ahead(c) = {}

ScanMin ==
    \A c \in CPUs : pc[c] \in {"scan", "wakeup", "min"} /\ proc[c] = None /\ Alone(c) =>
      \A q \in Procs : q < p[c] /\ state[q] = "RUNNABLE" => PassedOver(c, q)

IndInv == TableInv /\ MinSoFar /\ ScanMin /\ PicksMinimum

-----------------------------------------------------------------------------
LEMMA ProcFacts ==
    /\ None \notin Procs
    /\ 0 \in Procs
    /\ 0 \in 0..NPROC
    /\ \A n \in 0..NPROC : n < NPROC => n \in Procs /\ n + 1 \in 0..NPROC /\ n < n + 1
    /\ \A n \in Procs : n \in Int /\ n < NPROC
  BY SchedAssumption DEF Procs, None

LEMMA Below ==
    \A q \in Procs, n \in 0..NPROC : q < n + 1 <=> (q < n \/ q = n)
  BY SchedAssumption DEF Procs

LEMMA TableInvInit == Init => TableInv
  <1> SUFFICES ASSUME Init PROVE TableInv
    OBVIOUS
  <1> USE SchedAssumption, ProcFacts DEF Init
  <1>1. PICK started \in Machines : pc = [c \in CPUs |-> IF c \in started THEN "scan" ELSE "off"]
    OBVIOUS
  <1>2. Types
    BY <1>1 DEF Types
  <1>3. Locks
    BY <1>1 DEF Locks
  <1>4. Locals /\ Callees /\ ForksApart /\ OneCpu
    BY <1>1 DEF Locals, Callees, ForksApart, Forking, OneCpu
  <1> QED BY <1>2, <1>3, <1>4 DEF TableInv

(* Every state of a process is changed under its lock, by the CPU that     *)
(* holds it; fork alone goes on with a process whose lock it has released, *)
(* which is USED and which nobody else touches.                            *)
LEMMA TableInvStep ==
    ASSUME TableInv, NEW c \in CPUs, Begin(c) \/ Continue(c)
    PROVE  TableInv'
  <1> USE SchedAssumption, ProcFacts
      DEF TableInv, Types, Locks, Locals, Callees, ForksApart, Forking, OneCpu,
          fields, schedVars, callVars, minVars, Goto, Free
  <1>1. CASE Begin(c)
    <2>1. CASE TimerUser(c)
      <3>1. proc[c] \in Procs
        BY <2>1 DEF TimerUser
      <3>2. accumulator[proc[c]] \in Nat /\ ps_priority[proc[c]] \in 0..10
        BY <3>1
      <3>3. accumulator[proc[c]] + ps_priority[proc[c]] \in Nat
        BY <3>2
      <3> QED BY <2>1, <3>1, <3>3 DEF TimerUser
    <2>2. CASE TimerKernel(c)
      BY <2>2 DEF TimerKernel
    <2>3. CASE ForkCall(c)
      BY <2>3 DEF ForkCall
    <2>4. ASSUME NEW ch \in Chans, Sleep(c, ch) PROVE TableInv'
      BY <2>4 DEF Sleep
    <2>5. ASSUME NEW ch \in Chans, WakeupCall(c, ch) PROVE TableInv'
      BY <2>5 DEF WakeupCall
    <2>6. ASSUME NEW n \in Priorities, SetPriority(c, n) PROVE TableInv'
      BY <2>6 DEF SetPriority
    <2>7. ASSUME NEW q \in Procs, Kill(c, q) PROVE TableInv'
      BY <2>7 DEF Kill
    <2> HIDE DEF TableInv
    <2> QED BY <1>1, <2>1, <2>2, <2>3, <2>4, <2>5, <2>6, <2>7 DEF Begin
  <1>2. CASE Scheduler(c)
    <2>1. CASE SchedTake(c)    BY <2>1 DEF SchedTake, Better
    <2>2. CASE SchedPass(c)    BY <2>2 DEF SchedPass
    <2>3. CASE SchedAgain(c)   BY <2>3 DEF SchedAgain
    <2>4. CASE SchedRun(c)     BY <2>4 DEF SchedRun
    <2>5. CASE Resume(c)       BY <2>5 DEF Resume
    <2>6. CASE SwitchBack(c)
      <3>1. proc[c] \in Procs /\ state[proc[c]] \in {"RUNNABLE", "SLEEPING"} /\ lock[proc[c]] = c
        BY <2>6 DEF SwitchBack
      <3>2. Types'
        BY <2>6, <3>1 DEF SwitchBack
      <3>3. Locks'
        BY <2>6, <3>1 DEF SwitchBack
      <3>4. Locals'
        BY <2>6, <3>1 DEF SwitchBack
      <3>5. Callees' /\ ForksApart'
        BY <2>6, <3>1 DEF SwitchBack
      <3>6. OneCpu'
        BY <2>6, <3>1 DEF SwitchBack
      <3> HIDE DEF Types, Locks, Locals, Callees, ForksApart, OneCpu
      <3> QED BY <3>2, <3>3, <3>4, <3>5, <3>6
    <2> HIDE DEF TableInv
    <2> QED BY <1>2, <2>1, <2>2, <2>3, <2>4, <2>5, <2>6 DEF Scheduler
  <1>3. CASE Yield(c)          BY <1>3 DEF Yield
  <1>4. CASE MinSkip(c)        BY <1>4 DEF MinSkip
  <1>5. CASE MinRead(c)        BY <1>5 DEF MinRead
  <1>6. CASE Wakeup(c)
    <2>1. CASE WakeupSkip(c)   BY <2>1 DEF WakeupSkip
    <2>2. CASE WakeupPass(c)   BY <2>2 DEF WakeupPass
    <2>3. CASE WakeupFound(c)  BY <2>3 DEF WakeupFound
    <2>4. CASE WakeupOne(c)    BY <2>4 DEF WakeupOne, SetAccumulator
    <2>5. CASE WakeupReturn(c) BY <2>5 DEF WakeupReturn
    <2> HIDE DEF TableInv
    <2> QED BY <1>6, <2>1, <2>2, <2>3, <2>4, <2>5 DEF Wakeup
  <1>7. CASE Fork(c)
    <2>1. CASE AllocPass(c)    BY <2>1 DEF AllocPass
    <2>2. CASE AllocFound(c)   BY <2>2 DEF AllocFound
    <2>3. CASE AllocNone(c)    BY <2>3 DEF AllocNone
    <2>4. CASE ForkRelease(c)  BY <2>4 DEF ForkRelease, SetAccumulator
    <2>5. CASE ForkFail(c)     BY <2>5 DEF ForkFail, SetAccumulator
    <2>6. CASE ForkRunnable(c) BY <2>6 DEF ForkRunnable
    <2> HIDE DEF TableInv
    <2> QED BY <1>7, <2>1, <2>2, <2>3, <2>4, <2>5, <2>6 DEF Fork
  <1> HIDE DEF TableInv
  <1> QED BY <1>1, <1>2, <1>3, <1>4, <1>5, <1>6, <1>7 DEF Continue

LEMMA TableInvHolds == Spec => []TableInv
  <1>1. TableInv /\ [Next]_vars => TableInv'
    <2>1. ASSUME TableInv, UNCHANGED vars PROVE TableInv'
      BY <2>1 DEF vars, fields, schedVars, callVars, minVars, TableInv, Types, Locks, Locals,
                  Callees, ForksApart, Forking, OneCpu
    <2> QED BY <2>1, TableInvStep DEF Next
  <1> QED BY <1>1, TableInvInit, PTL DEF Spec

(* acquire() and sched() never panic, on any number of CPUs: no CPU waits  *)
(* for a lock that it holds, and p->lock is the only lock held at swtch.   *)
THEOREM LockDiscipline == Spec => []TypeOK
  <1>1. TableInv => TypeOK
    <2> SUFFICES ASSUME TableInv PROVE TypeOK
      OBVIOUS
    <2>1. ASSUME NEW c \in CPUs PROVE Wants(c) \notin Holds(c)
      <3>1. Wants(c) \in Procs => lock[Wants(c)] # c
        BY ProcFacts DEF TableInv, Types, Locks, Locals, Callees, Wants
      <3> QED BY <3>1 DEF Holds
    <2>2. ASSUME NEW c \in CPUs, pc[c] \in {"resume", "switch"}
          PROVE  Holds(c) = {proc[c]} /\ min_p[c] = proc[c]
      BY <2>2, ProcFacts DEF TableInv, Types, Locks, Locals, Holds
    <2> QED BY <2>1, <2>2 DEF TableInv, Types, TypeOK
  <1> QED BY <1>1, TableInvHolds, PTL

(* No process runs on two CPUs, for any number of CPUs and processes.      *)
THEOREM NeverOnTwoCpus == Spec => []RunsOnOneCpu
  <1>1. TableInv => RunsOnOneCpu
    BY ProcFacts DEF TableInv, Types, Locks, Locals, OneCpu, RunsOnOneCpu
  <1> QED BY <1>1, TableInvHolds, PTL

-----------------------------------------------------------------------------
(* The machine with one CPU. *)
LEMMA Actor ==
    ASSUME TableInv, NEW c \in CPUs, Begin(c) \/ Continue(c), NEW e \in CPUs, Alone(e)'
    PROVE  e = c /\ Alone(c)
  <1> USE DEF TableInv, Types, Goto
  <1>1. pc'[c] # "off" /\ \A d \in CPUs \ {c} : pc'[d] = pc[d]
    <2>1. CASE Begin(c)
      BY <2>1 DEF Begin, TimerUser, TimerKernel, ForkCall, Sleep, WakeupCall, SetPriority, Kill
    <2>2. CASE Scheduler(c) \/ Yield(c) \/ MinSkip(c) \/ MinRead(c)
      BY <2>2 DEF Scheduler, SchedTake, SchedPass, SchedAgain, SchedRun, Resume, SwitchBack, Yield,
                  MinSkip, MinRead
    <2>3. CASE Wakeup(c)
      BY <2>3 DEF Wakeup, WakeupSkip, WakeupPass, WakeupFound, WakeupOne, WakeupReturn
    <2>4. CASE Fork(c)
      BY <2>4 DEF Fork, AllocPass, AllocFound, AllocNone, ForkRelease, ForkFail, ForkRunnable
    <2> QED BY <2>1, <2>2, <2>3, <2>4 DEF Continue
  <1> QED BY <1>1 DEF Alone

(* With proc = 0 on the only CPU, no process is RUNNING. *)
LEMMA NoneRunning ==
    ASSUME TableInv, NEW c \in CPUs, Alone(c), proc[c] = None, NEW q \in Procs
    PROVE  state[q] # "RUNNING"
  BY ProcFacts DEF TableInv, Types, Locals, OneCpu, Alone

LEMMA MinSoFarStep ==
    ASSUME TableInv, MinSoFar, NEW c \in CPUs, Begin(c) \/ Continue(c)
    PROVE  MinSoFar'
  <1> DEFINE Found == IF min_acc[c] = -1 THEN Seen(c) = {}
                      ELSE /\ \E q \in Seen(c) : accumulator[q] = min_acc[c]
                           /\ \A q \in Seen(c) : min_acc[c] <= accumulator[q]
  <1> SUFFICES ASSUME Alone(c), pc'[c] = "min", proc'[c] = None
               PROVE  Found'
    BY Actor DEF MinSoFar
  <1>0. pc[c] = "min" /\ proc[c] = None => Found
    BY DEF MinSoFar
  <1> USE SchedAssumption, ProcFacts
      DEF TableInv, Types, Goto, Free, fields, schedVars, callVars, minVars
  <1>1. CASE MinSkip(c)
    <2>1. Seen(c)' = Seen(c)
      BY <1>1, Below DEF MinSkip, Seen
    <2> QED BY <1>0, <1>1, <2>1 DEF MinSkip
  <1>2. CASE MinRead(c)
    <2>1. state[gp[c]] # "RUNNING" /\ gp[c] \in Procs /\ gp[c] # wp[c]
      BY <1>2, NoneRunning DEF MinRead
    <2>2. CASE state[gp[c]] = "RUNNABLE"
      <3>1. Seen(c)' = Seen(c) \union {gp[c]}
        BY <1>2, <2>1, <2>2, Below DEF MinRead, Seen
      <3>2. \A q \in Seen(c) : accumulator[q] \in Nat
        BY DEF Seen
      <3> QED BY <1>0, <1>2, <2>1, <2>2, <3>1, <3>2 DEF MinRead
    <2>3. CASE state[gp[c]] # "RUNNABLE"
      <3>1. Seen(c)' = Seen(c)
        BY <1>2, <2>1, <2>3, Below DEF MinRead, Seen
      <3> QED BY <1>0, <1>2, <2>1, <2>3, <3>1 DEF MinRead
    <2> QED BY <2>2, <2>3
  <1>3. CASE WakeupFound(c)
    <2>1. gp'[c] = 0 /\ min_acc'[c] = -1
      BY <1>3 DEF WakeupFound, Callees
    <2> QED BY <2>1 DEF Seen, Procs
  <1>4. CASE AllocFound(c)
    BY <1>4 DEF AllocFound, Locals
  <1>5. CASE Begin(c)
    BY <1>5 DEF Begin, TimerUser, TimerKernel, ForkCall, Sleep, WakeupCall, SetPriority, Kill
  <1>6. CASE Scheduler(c) \/ Yield(c)
    BY <1>6 DEF Scheduler, SchedTake, SchedPass, SchedAgain, SchedRun, Resume, SwitchBack, Yield
  <1>7. CASE WakeupSkip(c) \/ WakeupPass(c) \/ WakeupOne(c) \/ WakeupReturn(c)
    BY <1>7 DEF WakeupSkip, WakeupPass, WakeupOne, WakeupReturn
  <1>8. CASE AllocPass(c) \/ AllocNone(c) \/ ForkRelease(c) \/ ForkFail(c) \/ ForkRunnable(c)
    BY <1>8 DEF AllocPass, AllocNone, ForkRelease, ForkFail, ForkRunnable
  <1> QED BY <1>1, <1>2, <1>3, <1>4, <1>5, <1>6, <1>7, <1>8 DEF Continue, Wakeup, Fork

(* The entries ahead of a scan that goes on to the next one. *)
LEMMA AheadAfter ==
    ASSUME NEW c, p[c] \in Procs, p'[c] = p[c] + 1, state' = state
    PROVE  \A r \in Ahead(c) : (r = p[c] /\ state[p[c]] = "RUNNABLE") \/ r \in Ahead(c)'
  <1> SUFFICES ASSUME NEW r \in Ahead(c), r # p[c]
               PROVE  r \in Ahead(c)'
    BY DEF Ahead
  <1>1. r \in Procs /\ p[c] <= r /\ state[r] = "RUNNABLE" /\ r \in Int /\ p[c] \in Int
    BY ProcFacts DEF Ahead
  <1>2. p[c] + 1 <= r
    BY <1>1
  <1> QED BY <1>1, <1>2 DEF Ahead

LEMMA ScanMinStep ==
    ASSUME TableInv, MinSoFar, ScanMin, NEW c \in CPUs, Begin(c) \/ Continue(c)
    PROVE  ScanMin'
  <1> SUFFICES ASSUME Alone(c), pc'[c] \in {"scan", "wakeup", "min"}, proc'[c] = None,
                      NEW q \in Procs, q < p'[c], state'[q] = "RUNNABLE"
               PROVE  PassedOver(c, q)'
    BY Actor DEF ScanMin
  <1>0. pc[c] \in {"scan", "wakeup", "min"} /\ proc[c] = None =>
          \A r \in Procs : r < p[c] /\ state[r] = "RUNNABLE" => PassedOver(c, r)
    BY DEF ScanMin
  <1> USE SchedAssumption, ProcFacts
      DEF TableInv, Types, Goto, Free, fields, schedVars, callVars, minVars
  <1>1. CASE SchedTake(c)
    <2>1. p[c] \in Procs /\ state[p[c]] = "RUNNABLE" /\ proc[c] = None
      BY <1>1 DEF SchedTake, Better, Locals
    <2>2. /\ min_p'[c] = p[c] /\ p'[c] = p[c] + 1
          /\ state' = state /\ accumulator' = accumulator
      BY <1>1 DEF SchedTake
    <2>3. \A r \in Ahead(c) : r = p[c] \/ r \in Ahead(c)'
      BY <2>1, <2>2 DEF Ahead
    <2>4. CASE q = p[c]
      BY <2>1, <2>2, <2>4 DEF PassedOver
    <2>5. CASE q # p[c]
      <3>1. q < p[c] /\ PassedOver(c, q)
        BY <1>0, <1>1, <2>1, <2>2, <2>5, Below DEF SchedTake
      <3>2. CASE min_p[c] # None /\ accumulator[min_p[c]] <= accumulator[q]
        BY <1>1, <2>1, <2>2, <3>2 DEF SchedTake, Better, PassedOver
      <3>3. ASSUME NEW r \in Ahead(c), accumulator[r] <= accumulator[q]
            PROVE  PassedOver(c, q)'
        BY <2>1, <2>2, <2>3, <3>3 DEF PassedOver
      <3>4. Ahead(c) # {}
        BY <2>1 DEF Ahead
      <3> QED BY <3>1, <3>2, <3>3, <3>4 DEF PassedOver
    <2> QED BY <2>4, <2>5
  <1>2. CASE SchedPass(c)
    <2>1. p[c] \in Procs /\ proc[c] = None /\ p'[c] = p[c] + 1
          /\ UNCHANGED <<state, accumulator, min_p>>
      BY <1>2 DEF SchedPass, Locals
    <2>2. state[p[c]] = "RUNNABLE" =>
            min_p[c] # None /\ accumulator[min_p[c]] <= accumulator[p[c]]
      BY <1>2 DEF SchedPass, Better
    <2>3. \A r \in Ahead(c) : (r = p[c] /\ state[p[c]] = "RUNNABLE") \/ r \in Ahead(c)'
      BY <2>1, AheadAfter
    <2>4. Ahead(c)' \subseteq Ahead(c)
      BY <2>1 DEF Ahead
    <2>5. CASE q = p[c]
      BY <2>1, <2>2, <2>5 DEF PassedOver
    <2>6. CASE q # p[c]
      <3>1. PassedOver(c, q)
        BY <1>0, <1>2, <2>1, <2>6, Below DEF SchedPass
      <3>2. CASE min_p[c] # None /\ accumulator[min_p[c]] <= accumulator[q]
        BY <2>1, <3>2 DEF PassedOver
      <3>3. ASSUME NEW r \in Ahead(c), accumulator[r] <= accumulator[q]
            PROVE  PassedOver(c, q)'
        <4>1. CASE r = p[c] /\ state[p[c]] = "RUNNABLE"
          BY <2>1, <2>2, <3>3, <4>1 DEF PassedOver
        <4>2. CASE r \in Ahead(c)'
          BY <2>1, <3>3, <4>2 DEF PassedOver
        <4> QED BY <2>3, <4>1, <4>2
      <3>4. CASE min_p[c] = None /\ Ahead(c) = {}
        BY <2>1, <2>4, <3>4 DEF PassedOver
      <3> QED BY <3>1, <3>2, <3>3, <3>4 DEF PassedOver
    <2> QED BY <2>5, <2>6
  <1>3. CASE SchedAgain(c) \/ SwitchBack(c)
    <2>1. p'[c] = 0
      BY <1>3 DEF SchedAgain, SwitchBack
    <2> QED BY <2>1 DEF Procs
  <1>4. CASE WakeupOne(c)
    <2>1. /\ pc[c] = "min" /\ proc[c] = None /\ min_p[c] = None /\ gp[c] = NPROC
          /\ wp[c] \in Procs /\ state[wp[c]] = "SLEEPING"
          /\ UNCHANGED <<p, min_p>>
          /\ state' = [state EXCEPT ![wp[c]] = "RUNNABLE"]
          /\ accumulator' = [accumulator EXCEPT ![wp[c]] =
                                IF min_acc[c] = -1 THEN 0 ELSE min_acc[c]]
      BY <1>4 DEF WakeupOne, SetAccumulator, Locals, Callees
    <2>2. \A r \in Procs : state[r] = "RUNNABLE" => r \in Seen(c)
      BY <2>1 DEF Seen
    <2>3. \A r \in Ahead(c) : r \in Seen(c) /\ r \in Ahead(c)' /\ accumulator'[r] = accumulator[r]
      BY <2>1, <2>2 DEF Ahead
    <2>4. CASE q # wp[c]
      <3>1. q \in Seen(c) /\ PassedOver(c, q) /\ accumulator'[q] = accumulator[q]
        BY <1>0, <2>1, <2>2, <2>4
      <3>2. ASSUME NEW r \in Ahead(c), accumulator[r] <= accumulator[q]
            PROVE  PassedOver(c, q)'
        BY <2>3, <3>1, <3>2 DEF PassedOver
      <3>3. CASE Ahead(c) = {}
        <4>1. CASE wp[c] < p[c]
          <5>1. Ahead(c)' = {}
            BY <2>1, <3>3, <4>1 DEF Ahead
          <5> QED BY <2>1, <5>1 DEF PassedOver
        <4>2. CASE ~ (wp[c] < p[c])
          <5>1. wp[c] \in Ahead(c)'
            BY <2>1, <4>2 DEF Ahead
          <5>2. accumulator'[wp[c]] <= accumulator'[q]
            BY <2>1, <3>1 DEF MinSoFar
          <5> QED BY <5>1, <5>2 DEF PassedOver
        <4> QED BY <4>1, <4>2
      <3> QED BY <2>1, <3>1, <3>2, <3>3 DEF PassedOver
    <2>5. CASE q = wp[c]
      <3>1. CASE Ahead(c) = {}
        <4>1. Ahead(c)' = {}
          BY <2>1, <2>5, <3>1 DEF Ahead
        <4> QED BY <2>1, <4>1 DEF PassedOver
      <3>2. CASE Ahead(c) # {}
        <4>1. PICK m \in Seen(c) : accumulator[m] = min_acc[c] /\ min_acc[c] # -1
          BY <2>1, <2>3, <3>2 DEF MinSoFar
        <4>2. m \in Procs /\ state[m] = "RUNNABLE" /\ accumulator'[q] = accumulator[m]
          BY <2>1, <2>5, <4>1 DEF Seen
        <4>3. CASE m < p[c]
          <5>1. PICK r \in Ahead(c) : accumulator[r] <= accumulator[m]
            BY <1>0, <2>1, <3>2, <4>2, <4>3 DEF PassedOver
          <5> QED BY <2>3, <4>2, <5>1 DEF PassedOver
        <4>4. CASE ~ (m < p[c])
          <5>1. m \in Ahead(c)
            BY <4>2, <4>4 DEF Ahead
          <5>2. accumulator'[m] = accumulator[m] /\ m \in Ahead(c)'
            BY <2>3, <5>1
          <5>3. accumulator'[m] <= accumulator'[q]
            BY <4>2, <5>2
          <5> QED BY <5>2, <5>3 DEF PassedOver
        <4> QED BY <4>3, <4>4
      <3> QED BY <3>1, <3>2
    <2> QED BY <2>4, <2>5
  <1>5. CASE \/ \E ch \in Chans : WakeupCall(c, ch)
             \/ MinSkip(c) \/ MinRead(c) \/ WakeupSkip(c) \/ WakeupPass(c) \/ WakeupFound(c)
             \/ WakeupReturn(c)
    <2>1. /\ UNCHANGED <<state, accumulator, p, min_p, proc>>
          /\ pc[c] \in {"scan", "wakeup", "min"}
      BY <1>5 DEF WakeupCall, MinSkip, MinRead, WakeupSkip, WakeupPass, WakeupFound,
                  WakeupReturn, Locals
    <2>2. PassedOver(c, q)
      BY <1>0, <2>1
    <2> QED BY <2>1, <2>2 DEF PassedOver, Ahead
  <1>6. CASE Begin(c) /\ ~ \E ch \in Chans : WakeupCall(c, ch)
    BY <1>6 DEF Begin, TimerUser, TimerKernel, ForkCall, Sleep, SetPriority, Kill
  <1>7. CASE SchedRun(c) \/ Resume(c) \/ Yield(c)
    BY <1>7 DEF SchedRun, Resume, Yield
  <1>8. CASE Fork(c)
    BY <1>8 DEF Fork, AllocPass, AllocFound, AllocNone, ForkRelease, ForkFail, ForkRunnable,
                Callees, Locals
  <1> QED BY <1>1, <1>2, <1>3, <1>4, <1>5, <1>6, <1>7, <1>8 DEF Continue, Scheduler, Wakeup

LEMMA PicksStep ==
    ASSUME TableInv, ScanMin, NEW c \in CPUs, Begin(c) \/ Continue(c)
    PROVE  PicksMinimum'
  <1> SUFFICES ASSUME Alone(c), pc'[c] = "resume", NEW q \in Procs, state'[q] = "RUNNABLE"
               PROVE  accumulator'[proc'[c]] <= accumulator'[q]
    BY Actor DEF PicksMinimum, Alone
  <1> USE SchedAssumption, ProcFacts
      DEF TableInv, Types, Goto, Free, fields, schedVars, callVars, minVars
  <1>1. SchedRun(c)
    <2>1. CASE Begin(c)
      BY <2>1 DEF Begin, TimerUser, TimerKernel, ForkCall, Sleep, WakeupCall, SetPriority, Kill
    <2>2. CASE Scheduler(c)
      BY <2>2 DEF Scheduler, SchedTake, SchedPass, SchedAgain, Resume, SwitchBack
    <2>3. CASE Yield(c) \/ MinSkip(c) \/ MinRead(c)
      BY <2>3 DEF Yield, MinSkip, MinRead
    <2>4. CASE Wakeup(c)
      BY <2>4 DEF Wakeup, WakeupSkip, WakeupPass, WakeupFound, WakeupOne, WakeupReturn
    <2>5. CASE Fork(c)
      BY <2>5 DEF Fork, AllocPass, AllocFound, AllocNone, ForkRelease, ForkFail, ForkRunnable
    <2> QED BY <2>1, <2>2, <2>3, <2>4, <2>5 DEF Continue
  <1>2. pc[c] = "scan" /\ proc[c] = None /\ p[c] = NPROC /\ min_p[c] # None
        /\ proc'[c] = min_p[c] /\ accumulator' = accumulator
    BY <1>1 DEF SchedRun, Locals
  <1>3. state[q] = "RUNNABLE" /\ q < p[c]
    BY <1>1, <1>2 DEF SchedRun
  <1>4. Ahead(c) = {}
    BY <1>2 DEF Ahead
  <1>5. PassedOver(c, q)
    BY <1>2, <1>3 DEF ScanMin
  <1> QED BY <1>2, <1>4, <1>5 DEF PassedOver

(* A scheduler that runs alone picks a process with the lowest accumulator *)
(* of all that are RUNNABLE, for any number of processes, also when        *)
(* interrupts wake processes that the scan has already passed: their       *)
(* accumulators are set to the minimum, never below it.                    *)
THEOREM LowestAccumulatorRuns == Spec => []PicksMinimum
  <1>1. Init => MinSoFar /\ ScanMin /\ PicksMinimum
    BY ProcFacts DEF Init, MinSoFar, ScanMin, PicksMinimum, Procs
  <1>2. TableInv /\ MinSoFar /\ ScanMin /\ PicksMinimum /\ [Next]_vars
          => MinSoFar' /\ ScanMin' /\ PicksMinimum'
    <2>1. ASSUME MinSoFar, ScanMin, PicksMinimum, UNCHANGED vars
          PROVE  MinSoFar' /\ ScanMin' /\ PicksMinimum'
      BY <2>1 DEF vars, fields, schedVars, callVars, minVars, MinSoFar, ScanMin, PicksMinimum,
                  Alone, Seen, Ahead, PassedOver
    <2> QED BY <2>1, MinSoFarStep, ScanMinStep, PicksStep DEF Next
  <1> QED BY <1>1, <1>2, TableInvHolds, PTL DEF Spec

=============================================================================
