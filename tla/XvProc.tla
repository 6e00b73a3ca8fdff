------------------------------- MODULE XvProc -------------------------------
(***************************************************************************)
(* The life of processes in ex4/part1 (proc.c, trap.c, sysproc.c): fork,   *)
(* exit, wait, kill and the two kinds of locks they take, wait_lock for    *)
(* the parents and p->lock for everything else in a struct proc.           *)
(*                                                                         *)
(* Every process runs on a CPU of its own whenever it is not SLEEPING; the *)
(* choice of the process to run, the accumulators and the nested scan for  *)
(* their minimum are XvSched's.  A lock that one step both acquires and    *)
(* releases is only tested.  A pid stands for the process that has it now, *)
(* since pids are never reused; 0 is the pid of every UNUSED slot.  Files, *)
(* memory and exit statuses are left out.                                  *)
(***************************************************************************)
EXTENDS Integers, FiniteSets

CONSTANTS
    NPROC,      \* size of the process table
    MaxCalls    \* bound of the model: calls of fork, wait and kill by programs

ASSUME ProcAssumption == NPROC \in Nat \ {0} /\ MaxCalls \in Nat

Procs == 0..(NPROC - 1)
initproc == 0
None == -1      \* no process: parent = 0, chan = 0, a free lock

VARIABLES
    state, parent, chan, killed,  \* the fields of struct proc
    lock, wait_lock,              \* the holders of p->lock and of wait_lock
    pc,                           \* next statement of the process in a slot
    np,                           \* fork's new process
    pp, havekids,                 \* the loop of wait, reparent and wakeup
    mine,                         \* history: children fork has announced, less those waited for
    calls                         \* calls that programs may still make

fields == <<state, parent, chan, killed>>
locals == <<np, pp, havekids>>
vars == <<fields, lock, wait_lock, pc, locals, mine, calls>>

(* userinit has made the first process. *)
Init ==
    /\ state = [p \in Procs |-> IF p = initproc THEN "RUNNABLE" ELSE "UNUSED"]
    /\ parent = [p \in Procs |-> None]
    /\ chan = [p \in Procs |-> None]
    /\ killed = [p \in Procs |-> FALSE]
    /\ lock = [p \in Procs |-> None]
    /\ wait_lock = None
    /\ pc = [p \in Procs |-> IF p = initproc THEN "start" ELSE "none"]
    /\ np = [p \in Procs |-> None]
    /\ pp = [p \in Procs |-> 0]
    /\ havekids = [p \in Procs |-> FALSE]
    /\ mine = [p \in Procs |-> {}]
    /\ calls = MaxCalls

Children(p) == {q \in Procs : parent[q] = p}
Free(q) == lock[q] = None

Goto(p, from, to) ==
    /\ pc[p] = from
    /\ pc' = [pc EXCEPT ![p] = to]

(* Mutant: the slot is not marked UNUSED. *)
freeprocKeepsState(q) ==
    /\ parent' = [parent EXCEPT ![q] = None]
    /\ chan' = [chan EXCEPT ![q] = None]
    /\ killed' = [killed EXCEPT ![q] = FALSE]
    /\ UNCHANGED state

freeproc(q) ==
    /\ state' = [state EXCEPT ![q] = "UNUSED"]
    /\ parent' = [parent EXCEPT ![q] = None]
    /\ chan' = [chan EXCEPT ![q] = None]
    /\ killed' = [killed EXCEPT ![q] = FALSE]

-----------------------------------------------------------------------------
(* The scheduler runs a RUNNABLE process, which goes on in forkret, or in  *)
(* sleep after sched().  It releases the lock of a process that has given  *)
(* up its CPU for good, or in sleep: until then its kernel stack is in     *)
(* use.                                                                    *)
Run(p) ==
    /\ state[p] = "RUNNABLE" /\ Free(p)
    /\ state' = [state EXCEPT ![p] = "RUNNING"]
    /\ chan' = [chan EXCEPT ![p] = None]
    /\ pc' = [pc EXCEPT ![p] = IF @ = "start" THEN "user" ELSE "w_lock"]
    /\ UNCHANGED <<parent, killed, lock, wait_lock, locals, mine, calls>>

SwitchAway(p) ==
    /\ \/ Goto(p, "w_switch", "w_asleep")
       \/ Goto(p, "x_switch", "none")
    /\ lock' = [lock EXCEPT ![p] = None]
    /\ UNCHANGED <<fields, wait_lock, locals, mine, calls>>

(* usertrap: a killed process does not enter a system call and does not    *)
(* return to user space.  Any trap is followed by this test.               *)
TrapExit(p) ==
    /\ killed[p]
    /\ p # initproc
    /\ Goto(p, "user", "x_lock") \/ Goto(p, "ret", "x_lock")
    /\ UNCHANGED <<fields, lock, wait_lock, locals, mine, calls>>

TrapReturn(p) ==
    /\ ~ killed[p]
    /\ Goto(p, "ret", "user")
    /\ UNCHANGED <<fields, lock, wait_lock, locals, mine, calls>>

(* An exception in user mode: setkilled. *)
Fault(p) ==
    /\ p # initproc
    /\ Goto(p, "user", "ret")
    /\ killed' = [killed EXCEPT ![p] = TRUE]
    /\ UNCHANGED <<state, parent, chan, lock, wait_lock, locals, mine, calls>>

(* A system call of p begins. *)
Enter(p, to) ==
    /\ Goto(p, "user", to)
    /\ ~ killed[p]

Spend == calls > 0 /\ calls' = calls - 1

-----------------------------------------------------------------------------
(* fork *)
ForkCall(p) ==
    /\ Enter(p, "f_alloc")
    /\ Spend
    /\ UNCHANGED <<fields, lock, wait_lock, locals, mine>>

(* allocproc.  killed keeps the value it has. *)
ForkAlloc(p, q) ==
    /\ Goto(p, "f_alloc", "f_copy")
    /\ state[q] = "UNUSED" /\ Free(q)
    /\ state' = [state EXCEPT ![q] = "USED"]
    /\ lock' = [lock EXCEPT ![q] = p]
    /\ np' = [np EXCEPT ![p] = q]
    /\ UNCHANGED <<parent, chan, killed, wait_lock, pp, havekids, mine, calls>>

ForkNone(p) ==
    /\ Goto(p, "f_alloc", "ret")
    /\ UNCHANGED <<fields, lock, wait_lock, locals, mine, calls>>

ForkCopy(p) ==
    /\ Goto(p, "f_copy", "f_parent")
    /\ lock' = [lock EXCEPT ![np[p]] = None]
    /\ UNCHANGED <<fields, wait_lock, locals, mine, calls>>

(* A page table cannot be allocated or copied. *)
ForkCopyFails(p) ==
    /\ Goto(p, "f_copy", "ret")
    /\ freeproc(np[p])
    /\ lock' = [lock EXCEPT ![np[p]] = None]
    /\ np' = [np EXCEPT ![p] = None]
    /\ UNCHANGED <<wait_lock, pp, havekids, mine, calls>>

ForkParent(p) ==
    /\ Goto(p, "f_parent", "f_run")
    /\ wait_lock = None
    /\ parent' = [parent EXCEPT ![np[p]] = p]
    /\ UNCHANGED <<state, chan, killed, lock, wait_lock, locals, mine, calls>>

ForkRun(p) ==
    /\ pc[p] = "f_run"
    /\ Free(np[p])
    /\ state' = [state EXCEPT ![np[p]] = "RUNNABLE"]
    /\ pc' = [pc EXCEPT ![p] = "ret", ![np[p]] = "start"]
    /\ mine' = [mine EXCEPT ![p] = @ \union {np[p]}]
    /\ np' = [np EXCEPT ![p] = None]
    /\ UNCHANGED <<parent, chan, killed, lock, wait_lock, pp, havekids, calls>>

Fork(p) ==
    \/ \E q \in Procs : ForkAlloc(p, q)
    \/ ForkNone(p) \/ ForkCopy(p) \/ ForkCopyFails(p) \/ ForkParent(p) \/ ForkRun(p)

-----------------------------------------------------------------------------
(* wakeup(ch) looks at one process after the other and goes on at to.  For *)
(* a sleeper it also sets the accumulator, which is XvSched's, with the    *)
(* locks of all others acquired in turn: see Delayed.                      *)
WakeupOne(p, ch, from) ==
    /\ pc[p] = from /\ pp[p] < NPROC
    /\ pp[p] # p => Free(pp[p])
    /\ state' = [state EXCEPT ![pp[p]] =
                    IF pp[p] # p /\ @ = "SLEEPING" /\ chan[pp[p]] = ch THEN "RUNNABLE" ELSE @]
    /\ pp' = [pp EXCEPT ![p] = @ + 1]
    /\ UNCHANGED <<parent, chan, killed, lock, wait_lock, pc, np, havekids, mine, calls>>

WakeupEnd(p, from, to) ==
    /\ pp[p] = NPROC
    /\ Goto(p, from, to)
    /\ pp' = [pp EXCEPT ![p] = 0]
    /\ UNCHANGED <<fields, lock, wait_lock, np, havekids, mine, calls>>

(* exit.  init does not exit. *)
ExitCall(p) ==
    /\ p # initproc
    /\ Enter(p, "x_lock")
    /\ UNCHANGED <<fields, lock, wait_lock, locals, mine, calls>>

ExitLock(p) ==
    /\ Goto(p, "x_lock", "x_reparent")
    /\ wait_lock = None
    /\ wait_lock' = p
    /\ UNCHANGED <<fields, lock, locals, mine, calls>>

(* reparent: nobody reads a parent without wait_lock, and init cannot go   *)
(* to sleep without it, so the children are handed over in one step and    *)
(* init is woken once.  Mutant: children that have exited are not handed   *)
(* over.                                                                   *)
ExitReparentLiving(p) ==
    /\ Goto(p, "x_reparent", IF Children(p) = {} THEN "x_parent" ELSE "x_init")
    /\ parent' = [q \in Procs |-> IF parent[q] = p /\ state[q] # "ZOMBIE"
                                  THEN initproc ELSE parent[q]]
    /\ mine' = [mine EXCEPT ![p] = {}]
    /\ UNCHANGED <<state, chan, killed, lock, wait_lock, locals, calls>>

ExitReparent(p) ==
    /\ Goto(p, "x_reparent", IF Children(p) = {} THEN "x_parent" ELSE "x_init")
    /\ parent' = [q \in Procs |-> IF parent[q] = p THEN initproc ELSE parent[q]]
    /\ mine' = [mine EXCEPT ![p] = {}]
    /\ UNCHANGED <<state, chan, killed, lock, wait_lock, locals, calls>>

ExitWakeup(p) ==
    \/ WakeupOne(p, initproc, "x_init") \/ WakeupEnd(p, "x_init", "x_parent")
    \/ WakeupOne(p, parent[p], "x_parent") \/ WakeupEnd(p, "x_parent", "x_zombie")

ExitZombie(p) ==
    /\ Goto(p, "x_zombie", "x_switch")
    /\ Free(p)
    /\ lock' = [lock EXCEPT ![p] = p]
    /\ state' = [state EXCEPT ![p] = "ZOMBIE"]
    /\ wait_lock' = None
    /\ UNCHANGED <<parent, chan, killed, locals, mine, calls>>

Exit(p) == ExitLock(p) \/ ExitReparent(p) \/ ExitWakeup(p) \/ ExitZombie(p)

-----------------------------------------------------------------------------
(* wait.  The program of init calls it for ever. *)
WaitCall(p) ==
    /\ Enter(p, "w_lock")
    /\ IF p = initproc THEN UNCHANGED calls ELSE Spend
    /\ UNCHANGED <<fields, lock, wait_lock, locals, mine>>

WaitLock(p) ==
    /\ Goto(p, "w_lock", "w_scan")
    /\ wait_lock = None
    /\ wait_lock' = p
    /\ UNCHANGED <<fields, lock, locals, mine, calls>>

WaitPass(p) ==
    /\ pc[p] = "w_scan" /\ pp[p] < NPROC
    /\ parent[pp[p]] = p => Free(pp[p]) /\ state[pp[p]] # "ZOMBIE"
    /\ havekids' = [havekids EXCEPT ![p] = @ \/ parent[pp[p]] = p]
    /\ pp' = [pp EXCEPT ![p] = @ + 1]
    /\ UNCHANGED <<fields, lock, wait_lock, pc, np, mine, calls>>

WaitReturn(p, from) ==
    /\ Goto(p, from, "ret")
    /\ wait_lock' = None
    /\ pp' = [pp EXCEPT ![p] = 0]
    /\ havekids' = [havekids EXCEPT ![p] = FALSE]
    /\ UNCHANGED <<lock, np, calls>>

(* Mutant: the child's lock is not acquired. *)
ZombieFoundUnlocked(p) ==
    /\ pc[p] = "w_scan" /\ pp[p] < NPROC
    /\ parent[pp[p]] = p
    /\ state[pp[p]] = "ZOMBIE"

ZombieFound(p) ==
    /\ pc[p] = "w_scan" /\ pp[p] < NPROC
    /\ parent[pp[p]] = p
    /\ Free(pp[p])
    /\ state[pp[p]] = "ZOMBIE"

WaitReap(p) ==
    /\ ZombieFound(p)
    /\ freeproc(pp[p])
    /\ mine' = [mine EXCEPT ![p] = @ \ {pp[p]}]
    /\ WaitReturn(p, "w_scan")

(* copyout fails; init passes no address.  Mutant: wait_lock is kept. *)
WaitCopyFailsLocked(p) ==
    /\ ZombieFound(p)
    /\ p # initproc
    /\ Goto(p, "w_scan", "ret")
    /\ UNCHANGED <<fields, lock, wait_lock, locals, mine, calls>>

WaitCopyFails(p) ==
    /\ ZombieFound(p)
    /\ p # initproc
    /\ WaitReturn(p, "w_scan")
    /\ UNCHANGED <<fields, mine>>

WaitNothing(p) ==
    /\ pc[p] = "w_scan" /\ pp[p] = NPROC
    /\ ~ havekids[p] \/ killed[p]
    /\ WaitReturn(p, "w_scan")
    /\ UNCHANGED <<fields, mine>>

(* killed() has said no.  Mutant: wait_lock is released before sleep.      *)
WaitKeepOnUnlocked(p) ==
    /\ pp[p] = NPROC
    /\ Goto(p, "w_scan", "w_sleep")
    /\ havekids[p] /\ ~ killed[p]
    /\ wait_lock' = None
    /\ UNCHANGED <<fields, lock, locals, mine, calls>>

WaitKeepOn(p) ==
    /\ pp[p] = NPROC
    /\ Goto(p, "w_scan", "w_sleep")
    /\ havekids[p] /\ ~ killed[p]
    /\ UNCHANGED <<fields, lock, wait_lock, locals, mine, calls>>

(* sleep(p, &wait_lock) *)
WaitSleep(p) ==
    /\ Goto(p, "w_sleep", "w_switch")
    /\ Free(p)
    /\ lock' = [lock EXCEPT ![p] = p]
    /\ wait_lock' = None
    /\ chan' = [chan EXCEPT ![p] = p]
    /\ state' = [state EXCEPT ![p] = "SLEEPING"]
    /\ pp' = [pp EXCEPT ![p] = 0]
    /\ havekids' = [havekids EXCEPT ![p] = FALSE]
    /\ UNCHANGED <<parent, killed, np, mine, calls>>

Wait(p) ==
    \/ WaitLock(p) \/ WaitPass(p) \/ WaitReap(p) \/ WaitCopyFails(p)
    \/ WaitNothing(p) \/ WaitKeepOn(p) \/ WaitSleep(p)

-----------------------------------------------------------------------------
(* kill of the process in slot q; kill(0) finds the first UNUSED slot.     *)
(* Programs do not kill init, which would panic in exit.                   *)
Kill(p, q) ==
    /\ q # initproc
    /\ Enter(p, "ret")
    /\ Spend
    /\ Free(q)
    /\ state[q] = "UNUSED" => \A r \in Procs : r < q => state[r] # "UNUSED"
    /\ killed' = [killed EXCEPT ![q] = TRUE]
    /\ state' = [state EXCEPT ![q] = IF @ = "SLEEPING" THEN "RUNNABLE" ELSE @]
    /\ UNCHANGED <<parent, chan, lock, wait_lock, locals, mine>>

-----------------------------------------------------------------------------
(* What a program, or the memory it touches, decides; and what the kernel  *)
(* then does.                                                              *)
Program(p) ==
    \/ ForkCall(p) \/ ExitCall(p) \/ WaitCall(p) \/ Fault(p)
    \/ \E q \in Procs : Kill(p, q)

Kernel(p) ==
    Run(p) \/ SwitchAway(p) \/ TrapExit(p) \/ TrapReturn(p) \/ Fork(p) \/ Exit(p) \/ Wait(p)

Next == \E p \in Procs : Program(p) \/ Kernel(p)

(* What nothing says will end: the wait of a RUNNABLE process for a CPU,   *)
(* and the scans of allocproc and wakeup, in which get_min_accumulator     *)
(* acquires every other p->lock with one held.  XvSched shows them stuck.  *)
Delayed(p) ==
    state[p] = "RUNNABLE" \/ pc[p] \in {"f_alloc", "x_init", "x_parent"}

(* The kernel goes on with anything else it has begun, a killed process    *)
(* meets the timer's trap, and init's program calls wait again.            *)
Prompt(p) == ~ Delayed(p) /\ Kernel(p)

Spec ==
    /\ Init /\ [][Next]_vars
    /\ WF_vars(\E p \in Procs \ {initproc} : Prompt(p))
    /\ WF_vars(Prompt(initproc) \/ WaitCall(initproc))

-----------------------------------------------------------------------------
(* The statements at which a process holds wait_lock. *)
Holding == {"x_reparent", "x_init", "x_parent", "x_zombie", "w_scan", "w_sleep"}

(* The types of the variables; every statement is reached with the locks   *)
(* it needs and no other, on each path through fork, exit and wait.        *)
TypeOK ==
    /\ state \in [Procs -> {"UNUSED", "USED", "SLEEPING", "RUNNABLE", "RUNNING", "ZOMBIE"}]
    /\ parent \in [Procs -> Procs \union {None}]
    /\ chan \in [Procs -> Procs \union {None}]
    /\ killed \in [Procs -> BOOLEAN]
    /\ lock \in [Procs -> Procs \union {None}]
    /\ wait_lock \in Procs \union {None}
    /\ pc \in [Procs -> {"none", "start", "user", "ret", "f_alloc", "f_copy", "f_parent",
                         "f_run", "x_lock", "x_reparent", "x_init", "x_parent", "x_zombie",
                         "x_switch", "w_lock", "w_scan", "w_sleep", "w_switch", "w_asleep"}]
    /\ np \in [Procs -> Procs \union {None}]
    /\ pp \in [Procs -> 0..NPROC]
    /\ havekids \in [Procs -> BOOLEAN]
    /\ mine \in [Procs -> SUBSET Procs]
    /\ calls \in 0..MaxCalls
    /\ \A p \in Procs : wait_lock = p <=> pc[p] \in Holding
    /\ \A p, q \in Procs : lock[q] = p <=>
         \/ pc[p] = "f_copy" /\ np[p] = q
         \/ pc[p] \in {"x_switch", "w_switch"} /\ p = q

(* Every process that has begun to run has a parent that has not exited;   *)
(* and what fork and wait have told a program is what the table says:      *)
(* between its calls, its children are the processes fork returned less    *)
(* the ones wait returned, however slots are reused; init may have more.   *)
FamilyAgrees ==
    /\ \A q \in Procs \ {initproc} :
         state[q] \in {"SLEEPING", "RUNNABLE", "RUNNING", "ZOMBIE"} =>
           /\ parent[q] \in Procs
           /\ state[parent[q]] \in {"SLEEPING", "RUNNABLE", "RUNNING"}
    /\ \A p \in Procs : pc[p] \in {"user", "ret"} =>
         /\ mine[p] \subseteq Children(p)
         /\ p # initproc => Children(p) = mine[p]

(* No process sleeps in wait while it has a child to collect, unless the   *)
(* holder of wait_lock is about to wake it: exit wakes the parent before   *)
(* it is a zombie, and reparent wakes init after it has the children.      *)
NoMissedExit ==
    wait_lock = None =>
      \A p, q \in Procs : parent[q] = p /\ state[q] = "ZOMBIE" => state[p] # "SLEEPING"

(* A slot is freed, and handed out by allocproc, only when the process in  *)
(* it is off its CPU and its kernel stack: wait must not free a zombie     *)
(* that is still on its way to the scheduler.                              *)
FreedOffCpu ==
    \A q \in Procs : state[q] \in {"UNUSED", "USED"} => pc[q] = "none"

(* If every RUNNABLE process is run at last and every scan of wakeup and   *)
(* allocproc ends, which the scheduler does not guarantee, then wait_lock  *)
(* and the p->locks of fork, exit and wait hold nobody up for ever: exit   *)
(* ends, and a zombie that belongs to init, whoever its parent was, is     *)
(* collected.                                                              *)
Collected ==
    (\A p \in Procs : []<> ~ Delayed(p)) =>
      \A q \in Procs :
        /\ pc[q] = "x_lock" ~> state[q] = "ZOMBIE"
        /\ state[q] = "ZOMBIE" /\ parent[q] = initproc ~> state[q] = "UNUSED"

=============================================================================
