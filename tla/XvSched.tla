------------------------------ MODULE XvSched ------------------------------
(***************************************************************************)
(* The accumulator scheduler of ex4/part1 (proc.c, trap.c, sysproc.c):     *)
(* every CPU scans the process table for the RUNNABLE process with the     *)
(* lowest accumulator, and every process pays ps_priority for each quantum *)
(* it uses.  A step is the code between two acquisitions of a p->lock,     *)
(* which another CPU can spin on.                                          *)
(*                                                                         *)
(* exit, wait and the lock handed to sleep are in XvProc; user memory,     *)
(* files and trap frames are abstracted away.                              *)
(***************************************************************************)
EXTENDS Integers, FiniteSets

CONSTANTS
    CPUs,
    Machines,    \* the sets of CPUs that may have been started (make CPUS=n)
    Nobody,      \* no CPU, no process: a free lock, c->proc = 0, min_p = 0
    NPROC,       \* size of the process table
    Chans,       \* sleep channels
    NoChan,      \* chan = 0
    Priorities,  \* arguments of set_ps_priority
    MaxAcc       \* bound of the model: no timer tick is charged beyond it

ASSUME SchedAssumption ==
    /\ Nobody \notin CPUs
    /\ Machines \subseteq SUBSET CPUs
    /\ NPROC \in Nat \ {0}
    /\ NoChan \notin Chans
    /\ Priorities \subseteq 1..10
    /\ MaxAcc \in Nat

Procs == 0..(NPROC - 1)
None == -1   \* no process

VARIABLES
    state, chan, accumulator, ps_priority,  \* the fields of struct proc
    lock,      \* the CPU that holds p->lock
    pc,        \* next statement of every CPU
    proc,      \* c->proc
    p, min_p,  \* the locals of scheduler()
    wp, wchan, \* the locals of wakeup, allocproc and fork: the process, the channel
    gp, min_acc \* the locals of get_min_accumulator

fields == <<state, chan, accumulator, ps_priority>>
schedVars == <<p, min_p>>
callVars == <<wp, wchan>>
minVars == <<gp, min_acc>>
vars == <<fields, lock, pc, proc, schedVars, callVars, minVars>>

(* userinit has made the first process, and every CPU that was started     *)
(* enters scheduler().                                                     *)
Init ==
    /\ state = [q \in Procs |-> IF q = 0 THEN "RUNNABLE" ELSE "UNUSED"]
    /\ chan = [q \in Procs |-> NoChan]
    /\ accumulator = [q \in Procs |-> 0]
    /\ ps_priority = [q \in Procs |-> IF q = 0 THEN 5 ELSE 0]
    /\ lock = [q \in Procs |-> Nobody]
    /\ \E started \in Machines : pc = [c \in CPUs |-> IF c \in started THEN "scan" ELSE "off"]
    /\ proc = [c \in CPUs |-> None]
    /\ p = [c \in CPUs |-> 0]
    /\ min_p = [c \in CPUs |-> None]
    /\ wp = [c \in CPUs |-> 0]
    /\ wchan = [c \in CPUs |-> NoChan]
    /\ gp = [c \in CPUs |-> 0]
    /\ min_acc = [c \in CPUs |-> -1]

Goto(c, from, to) ==
    /\ pc[c] = from
    /\ pc' = [pc EXCEPT ![c] = to]

Free(q) == lock[q] = Nobody

-----------------------------------------------------------------------------
(* scheduler(): the lock of the best candidate so far is kept while the    *)
(* scan goes on.                                                           *)
(* Mutant: the first RUNNABLE process is taken. *)
BetterFirst(c) == state[p[c]] = "RUNNABLE" /\ min_p[c] = None

Better(c) ==
    /\ state[p[c]] = "RUNNABLE"
    /\ min_p[c] # None => accumulator[p[c]] < accumulator[min_p[c]]

(* Mutant: the lock of the candidate is not kept. *)
SchedTakeUnlocked(c) ==
    /\ pc[c] = "scan" /\ p[c] < NPROC
    /\ Free(p[c]) /\ Better(c)
    /\ min_p' = [min_p EXCEPT ![c] = p[c]]
    /\ p' = [p EXCEPT ![c] = @ + 1]
    /\ UNCHANGED <<fields, lock, pc, proc, callVars, minVars>>

SchedTake(c) ==
    /\ pc[c] = "scan" /\ p[c] < NPROC
    /\ Free(p[c]) /\ Better(c)
    /\ lock' = [q \in Procs |-> IF q = p[c] THEN c
                                ELSE IF q = min_p[c] THEN Nobody ELSE lock[q]]
    /\ min_p' = [min_p EXCEPT ![c] = p[c]]
    /\ p' = [p EXCEPT ![c] = @ + 1]
    /\ UNCHANGED <<fields, pc, proc, callVars, minVars>>

SchedPass(c) ==
    /\ pc[c] = "scan" /\ p[c] < NPROC
    /\ Free(p[c]) /\ ~ Better(c)
    /\ p' = [p EXCEPT ![c] = @ + 1]
    /\ UNCHANGED <<fields, lock, pc, proc, min_p, callVars, minVars>>

SchedAgain(c) ==
    /\ pc[c] = "scan" /\ p[c] = NPROC /\ min_p[c] = None
    /\ p' = [p EXCEPT ![c] = 0]
    /\ UNCHANGED <<fields, lock, pc, proc, min_p, callVars, minVars>>

(* swtch to the process, which goes on after its sched(), in sleep, yield  *)
(* or forkret, and releases its lock.                                      *)
SchedRun(c) ==
    /\ Goto(c, "scan", "resume")
    /\ p[c] = NPROC /\ min_p[c] # None
    /\ state' = [state EXCEPT ![min_p[c]] = "RUNNING"]
    /\ proc' = [proc EXCEPT ![c] = min_p[c]]
    /\ UNCHANGED <<chan, accumulator, ps_priority, lock, schedVars, callVars, minVars>>

Resume(c) ==
    /\ Goto(c, "resume", "user")
    /\ chan' = [chan EXCEPT ![proc[c]] = NoChan]
    /\ lock' = [lock EXCEPT ![proc[c]] = Nobody]
    /\ UNCHANGED <<state, accumulator, ps_priority, proc, schedVars, callVars, minVars>>

(* sched() has switched back: the scheduler releases the lock that the     *)
(* process acquired, and starts over.                                      *)
SwitchBack(c) ==
    /\ Goto(c, "switch", "scan")
    /\ proc' = [proc EXCEPT ![c] = None]
    /\ lock' = [lock EXCEPT ![min_p[c]] = Nobody]
    /\ min_p' = [min_p EXCEPT ![c] = None]
    /\ p' = [p EXCEPT ![c] = 0]
    /\ UNCHANGED <<fields, callVars, minVars>>

Scheduler(c) ==
    \/ SchedTake(c) \/ SchedPass(c) \/ SchedAgain(c)
    \/ SchedRun(c) \/ Resume(c) \/ SwitchBack(c)

-----------------------------------------------------------------------------
(* A timer interrupt: usertrap charges the process, kerneltrap, which      *)
(* interrupts a system call, does not.  Both call yield().                 *)
TimerUser(c) ==
    /\ Goto(c, "user", "yield")
    /\ accumulator[proc[c]] + ps_priority[proc[c]] <= MaxAcc
    /\ accumulator' = [accumulator EXCEPT ![proc[c]] = @ + ps_priority[proc[c]]]
    /\ UNCHANGED <<state, chan, ps_priority, lock, proc, schedVars, callVars, minVars>>

TimerKernel(c) ==
    /\ Goto(c, "user", "yield")
    /\ UNCHANGED <<fields, lock, proc, schedVars, callVars, minVars>>

Yield(c) ==
    /\ Goto(c, "yield", "switch")
    /\ Free(proc[c])
    /\ lock' = [lock EXCEPT ![proc[c]] = c]
    /\ state' = [state EXCEPT ![proc[c]] = "RUNNABLE"]
    /\ UNCHANGED <<chan, accumulator, ps_priority, proc, schedVars, callVars, minVars>>

(* sleep(chan, lk) of the running process. *)
Sleep(c, ch) ==
    /\ Goto(c, "user", "switch")
    /\ Free(proc[c])
    /\ lock' = [lock EXCEPT ![proc[c]] = c]
    /\ chan' = [chan EXCEPT ![proc[c]] = ch]
    /\ state' = [state EXCEPT ![proc[c]] = "SLEEPING"]
    /\ UNCHANGED <<accumulator, ps_priority, proc, schedVars, callVars, minVars>>

(* sys_set_ps_priority and kill of the running process.  kill makes a      *)
(* sleeper RUNNABLE and leaves its accumulator as it is.                   *)
SetPriority(c, n) ==
    /\ pc[c] = "user"
    /\ Free(proc[c])
    /\ ps_priority' = [ps_priority EXCEPT ![proc[c]] = n]
    /\ UNCHANGED <<state, chan, accumulator, lock, pc, proc, schedVars, callVars, minVars>>

Kill(c, q) ==
    /\ pc[c] = "user"
    /\ Free(q)
    /\ state[q] = "SLEEPING"
    /\ state' = [state EXCEPT ![q] = "RUNNABLE"]
    /\ UNCHANGED <<chan, accumulator, ps_priority, lock, pc, proc, schedVars, callVars, minVars>>

-----------------------------------------------------------------------------
(* get_min_accumulator(wp), with wp's lock held by the caller. *)
MinSkip(c) ==
    /\ pc[c] = "min" /\ gp[c] < NPROC
    /\ gp[c] = wp[c]
    /\ gp' = [gp EXCEPT ![c] = @ + 1]
    /\ UNCHANGED <<fields, lock, pc, proc, schedVars, callVars, min_acc>>

MinRead(c) ==
    /\ pc[c] = "min" /\ gp[c] < NPROC
    /\ gp[c] # wp[c]
    /\ Free(gp[c])
    /\ LET lower == /\ state[gp[c]] \in {"RUNNABLE", "RUNNING"}
                    /\ min_acc[c] = -1 \/ accumulator[gp[c]] < min_acc[c]
       IN  min_acc' = [min_acc EXCEPT ![c] = IF lower THEN accumulator[gp[c]] ELSE @]
    /\ gp' = [gp EXCEPT ![c] = @ + 1]
    /\ UNCHANGED <<fields, lock, pc, proc, schedVars, callVars>>

SetAccumulator(c) ==
    /\ gp[c] = NPROC
    /\ accumulator' = [accumulator EXCEPT ![wp[c]] = IF min_acc[c] = -1 THEN 0 ELSE min_acc[c]]
    /\ gp' = [gp EXCEPT ![c] = 0]
    /\ min_acc' = [min_acc EXCEPT ![c] = -1]

-----------------------------------------------------------------------------
(* wakeup(chan), called by the running process, or by an interrupt on a    *)
(* CPU whose scheduler holds no lock.                                      *)
WakeupCall(c, ch) ==
    /\ \/ Goto(c, "user", "wakeup")
       \/ Goto(c, "scan", "wakeup") /\ min_p[c] = None
    /\ wp' = [wp EXCEPT ![c] = 0]
    /\ wchan' = [wchan EXCEPT ![c] = ch]
    /\ UNCHANGED <<fields, lock, proc, schedVars, minVars>>

WakeupSkip(c) ==
    /\ pc[c] = "wakeup" /\ wp[c] < NPROC
    /\ wp[c] = proc[c]
    /\ wp' = [wp EXCEPT ![c] = @ + 1]
    /\ UNCHANGED <<fields, lock, pc, proc, schedVars, wchan, minVars>>

WakeupPass(c) ==
    /\ pc[c] = "wakeup" /\ wp[c] < NPROC
    /\ wp[c] # proc[c] /\ Free(wp[c])
    /\ ~ (state[wp[c]] = "SLEEPING" /\ chan[wp[c]] = wchan[c])
    /\ wp' = [wp EXCEPT ![c] = @ + 1]
    /\ UNCHANGED <<fields, lock, pc, proc, schedVars, wchan, minVars>>

WakeupFound(c) ==
    /\ wp[c] < NPROC
    /\ Goto(c, "wakeup", "min")
    /\ wp[c] # proc[c] /\ Free(wp[c])
    /\ state[wp[c]] = "SLEEPING" /\ chan[wp[c]] = wchan[c]
    /\ lock' = [lock EXCEPT ![wp[c]] = c]
    /\ UNCHANGED <<fields, proc, schedVars, callVars, minVars>>

(* Mutant: the lock of the process woken is not released. *)
WakeupOneLocked(c) ==
    /\ Goto(c, "min", "wakeup")
    /\ state[wp[c]] = "SLEEPING"
    /\ SetAccumulator(c)
    /\ state' = [state EXCEPT ![wp[c]] = "RUNNABLE"]
    /\ wp' = [wp EXCEPT ![c] = @ + 1]
    /\ UNCHANGED <<chan, ps_priority, lock, proc, schedVars, wchan>>

WakeupOne(c) ==
    /\ Goto(c, "min", "wakeup")
    /\ state[wp[c]] = "SLEEPING"
    /\ SetAccumulator(c)
    /\ state' = [state EXCEPT ![wp[c]] = "RUNNABLE"]
    /\ lock' = [lock EXCEPT ![wp[c]] = Nobody]
    /\ wp' = [wp EXCEPT ![c] = @ + 1]
    /\ UNCHANGED <<chan, ps_priority, proc, schedVars, wchan>>

WakeupReturn(c) ==
    /\ wp[c] = NPROC
    /\ Goto(c, "wakeup", IF proc[c] = None THEN "scan" ELSE "user")
    /\ wp' = [wp EXCEPT ![c] = 0]
    /\ wchan' = [wchan EXCEPT ![c] = NoChan]
    /\ UNCHANGED <<fields, lock, proc, schedVars, minVars>>

Wakeup(c) ==
    \/ WakeupSkip(c) \/ WakeupPass(c) \/ WakeupFound(c)
    \/ WakeupOne(c) \/ WakeupReturn(c)

-----------------------------------------------------------------------------
(* fork(), with allocproc(). *)
ForkCall(c) ==
    /\ Goto(c, "user", "alloc")
    /\ wp' = [wp EXCEPT ![c] = 0]
    /\ UNCHANGED <<fields, lock, proc, schedVars, wchan, minVars>>

AllocPass(c) ==
    /\ pc[c] = "alloc" /\ wp[c] < NPROC
    /\ Free(wp[c])
    /\ state[wp[c]] # "UNUSED"
    /\ wp' = [wp EXCEPT ![c] = @ + 1]
    /\ UNCHANGED <<fields, lock, pc, proc, schedVars, wchan, minVars>>

AllocFound(c) ==
    /\ wp[c] < NPROC
    /\ Goto(c, "alloc", "min")
    /\ Free(wp[c])
    /\ state[wp[c]] = "UNUSED"
    /\ lock' = [lock EXCEPT ![wp[c]] = c]
    /\ state' = [state EXCEPT ![wp[c]] = "USED"]
    /\ ps_priority' = [ps_priority EXCEPT ![wp[c]] = 5]
    /\ UNCHANGED <<chan, accumulator, proc, schedVars, callVars, minVars>>

AllocNone(c) ==
    /\ wp[c] = NPROC
    /\ Goto(c, "alloc", "user")
    /\ wp' = [wp EXCEPT ![c] = 0]
    /\ UNCHANGED <<fields, lock, proc, schedVars, wchan, minVars>>

(* The lock of the new process is released, so that wait_lock can be taken *)
(* to set its parent, and acquired again to make it RUNNABLE.              *)
ForkRelease(c) ==
    /\ Goto(c, "min", "fork")
    /\ state[wp[c]] = "USED"
    /\ SetAccumulator(c)
    /\ lock' = [lock EXCEPT ![wp[c]] = Nobody]
    /\ UNCHANGED <<state, chan, ps_priority, proc, schedVars, callVars>>

(* kalloc, proc_pagetable or uvmcopy fails: freeproc. *)
ForkFail(c) ==
    /\ Goto(c, "min", "user")
    /\ state[wp[c]] = "USED"
    /\ SetAccumulator(c)
    /\ state' = [state EXCEPT ![wp[c]] = "UNUSED"]
    /\ chan' = [chan EXCEPT ![wp[c]] = NoChan]
    /\ lock' = [lock EXCEPT ![wp[c]] = Nobody]
    /\ wp' = [wp EXCEPT ![c] = 0]
    /\ UNCHANGED <<ps_priority, proc, schedVars, wchan>>

ForkRunnable(c) ==
    /\ Goto(c, "fork", "user")
    /\ Free(wp[c])
    /\ state' = [state EXCEPT ![wp[c]] = "RUNNABLE"]
    /\ wp' = [wp EXCEPT ![c] = 0]
    /\ UNCHANGED <<chan, accumulator, ps_priority, lock, proc, schedVars, wchan, minVars>>

Fork(c) ==
    \/ AllocPass(c) \/ AllocFound(c) \/ AllocNone(c)
    \/ ForkRelease(c) \/ ForkFail(c) \/ ForkRunnable(c)

-----------------------------------------------------------------------------
(* What the running process, or an interrupt, may begin. *)
Begin(c) ==
    \/ TimerUser(c) \/ TimerKernel(c) \/ ForkCall(c)
    \/ \E ch \in Chans : Sleep(c, ch) \/ WakeupCall(c, ch)
    \/ \E n \in Priorities : SetPriority(c, n)
    \/ \E q \in Procs : Kill(c, q)

Continue(c) ==
    Scheduler(c) \/ Yield(c) \/ MinSkip(c) \/ MinRead(c) \/ Wakeup(c) \/ Fork(c)

Next == \E c \in CPUs : Begin(c) \/ Continue(c)

Spec == Init /\ [][Next]_vars

-----------------------------------------------------------------------------
(* The process whose lock CPU c acquires, or spins on, next. *)
Wants(c) ==
    CASE pc[c] = "scan" /\ p[c] < NPROC -> p[c]
      [] pc[c] = "yield" -> proc[c]
      [] pc[c] = "wakeup" /\ wp[c] < NPROC /\ wp[c] # proc[c] -> wp[c]
      [] pc[c] = "alloc" /\ wp[c] < NPROC -> wp[c]
      [] pc[c] = "min" /\ gp[c] < NPROC /\ gp[c] # wp[c] -> gp[c]
      [] pc[c] = "fork" -> wp[c]
      [] OTHER -> None

Holds(c) == {q \in Procs : lock[q] = c}

(* The types of the variables; and neither acquire() nor sched() panics:   *)
(* no CPU acquires a lock it already holds (the scan, wakeup, allocproc    *)
(* and the nested get_min_accumulator), and p->lock is the one lock held   *)
(* when the scheduler and a process switch.                                *)
TypeOK ==
    /\ state \in [Procs -> {"UNUSED", "USED", "SLEEPING", "RUNNABLE", "RUNNING"}]
    /\ chan \in [Procs -> Chans \union {NoChan}]
    /\ accumulator \in [Procs -> Nat]
    /\ ps_priority \in [Procs -> 0..10]
    /\ lock \in [Procs -> CPUs \union {Nobody}]
    /\ pc \in [CPUs -> {"scan", "resume", "user", "yield", "switch", "wakeup",
                        "alloc", "min", "fork", "off"}]
    /\ proc \in [CPUs -> Procs \union {None}]
    /\ p \in [CPUs -> 0..NPROC]
    /\ min_p \in [CPUs -> Procs \union {None}]
    /\ wp \in [CPUs -> 0..NPROC]
    /\ wchan \in [CPUs -> Chans \union {NoChan}]
    /\ gp \in [CPUs -> 0..NPROC]
    /\ min_acc \in [CPUs -> Nat \union {-1}]
    /\ \A c \in CPUs :
         /\ Wants(c) \notin Holds(c)
         /\ pc[c] \in {"resume", "switch"} => Holds(c) = {proc[c]} /\ min_p[c] = proc[c]

(* No process runs on two CPUs, and the process a CPU runs is marked       *)
(* RUNNING until the CPU holds its lock again.                             *)
RunsOnOneCpu ==
    /\ \A c, d \in CPUs : proc[c] # None /\ proc[c] = proc[d] => c = d
    /\ \A q \in Procs : state[q] = "RUNNING" => \E c \in CPUs : proc[c] = q
    /\ \A c \in CPUs : proc[c] # None =>
         \/ state[proc[c]] = "RUNNING"
         \/ pc[c] = "switch" /\ lock[proc[c]] = c

(* On a machine with one CPU the scheduler runs a RUNNABLE process with    *)
(* the lowest accumulator of all that are RUNNABLE when it is chosen (on   *)
(* several, a process can become RUNNABLE behind the scan).                *)
PicksMinimum ==
    \A c \in CPUs : pc[c] = "resume" /\ (\A d \in CPUs \ {c} : pc[d] = "off") =>
      \A q \in Procs : state[q] = "RUNNABLE" => accumulator[proc[c]] <= accumulator[q]

(* No two CPUs spin for each other's locks.  The comment in scheduler()    *)
(* says deadlock is avoided.                                               *)
NoCircularWait ==
    \A c, d \in CPUs : ~ (Wants(c) \in Holds(d) /\ Wants(d) \in Holds(c) /\ c # d)

=============================================================================
