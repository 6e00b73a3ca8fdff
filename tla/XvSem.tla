------------------------------- MODULE XvSem -------------------------------
(***************************************************************************)
(* The kernel semaphores of ex4/part2 (sem.c): an array of slots, a lock   *)
(* for the array and a spinlock per slot, called by processes that run on  *)
(* several CPUs.                                                           *)
(*                                                                         *)
(* sleep and wakeup are xv6's: sleep(chan, lk) gives up lk and blocks in   *)
(* one step for everyone who holds lk, wakeup makes every sleeper of the   *)
(* channel runnable, and kill makes its victim runnable wherever it        *)
(* sleeps.  Calls whose id is out of range return -1 and do nothing else;  *)
(* they are left out.                                                      *)
(***************************************************************************)
EXTENDS Integers, FiniteSets

CONSTANTS
    Procs,          \* processes that make system calls
    NoProc,         \* the holder of a free lock
    MAX_SEMS,       \* number of slots
    InitValues,     \* the values sem_create is called with
    MaxValue,       \* bound of the model: no sem_up call at this value
    Styles          \* the values overlap may have

ASSUME SemAssumption ==
    /\ IsFiniteSet(Procs)
    /\ NoProc \notin Procs
    /\ MAX_SEMS \in Nat
    /\ InitValues \subseteq Nat
    /\ MaxValue \in Nat
    /\ Styles \subseteq BOOLEAN

Sems == 0..(MAX_SEMS - 1)

VARIABLES
    used, value, init_value,  \* the fields of sems[s]
    lock,                     \* holder of sems[s].lock
    sem_array_lock,           \* holder of sem_array_lock
    pc,                       \* next statement of every process
    id,                       \* slot its call works on
    arg,                      \* init_value argument of sem_create
    live,                     \* slots whose id the processes know
    net,                      \* net[s]: sem_downs returned minus sem_ups called
    overlap                   \* how processes share ids, see SysCall

fields == <<used, value, init_value>>
vars == <<fields, lock, sem_array_lock, pc, id, arg, live, net, overlap>>

Init ==
    /\ used = [s \in Sems |-> 0]
    /\ value = [s \in Sems |-> 0]
    /\ init_value = [s \in Sems |-> 0]
    /\ lock = [s \in Sems |-> NoProc]
    /\ sem_array_lock = NoProc
    /\ pc = [p \in Procs |-> "idle"]
    /\ id = [p \in Procs |-> -1]
    /\ arg = [p \in Procs |-> 0]
    /\ live = {}
    /\ net = [s \in Sems |-> 0]
    /\ overlap \in Styles

CreatePc == {"cr_used", "cr_value", "cr_init", "cr_release"}

Goto(p, from, to) ==
    /\ pc[p] = from
    /\ pc' = [pc EXCEPT ![p] = to]

At(s, locs) == {p \in Procs : id[p] = s /\ pc[p] \in locs}

(* A system call on slot s begins, and returns. *)
Call(p, s, to) ==
    /\ Goto(p, "idle", to)
    /\ id' = [id EXCEPT ![p] = s]

Return(p, from) ==
    /\ Goto(p, from, "idle")
    /\ id' = [id EXCEPT ![p] = -1]

Acquire(p, from, to) ==
    /\ Goto(p, from, to)
    /\ lock[id[p]] = NoProc
    /\ lock' = [lock EXCEPT ![id[p]] = p]
    /\ UNCHANGED <<fields, sem_array_lock, id, arg, live, net, overlap>>

-----------------------------------------------------------------------------
(* sem_create *)
CreateCall(p, v) ==
    /\ Call(p, -1, "cr_acquire")
    /\ arg' = [arg EXCEPT ![p] = v]
    /\ UNCHANGED <<fields, lock, sem_array_lock, live, net, overlap>>

CreateFind(p) ==
    /\ Goto(p, "cr_acquire", "cr_used")
    /\ sem_array_lock = NoProc
    /\ \E s \in Sems :
         /\ used[s] = 0
         /\ \A r \in Sems : r < s => used[r] # 0
         /\ id' = [id EXCEPT ![p] = s]
    /\ sem_array_lock' = p
    /\ UNCHANGED <<fields, lock, arg, live, net, overlap>>

CreateFail(p) ==
    /\ Return(p, "cr_acquire")
    /\ sem_array_lock = NoProc
    /\ \A s \in Sems : used[s] # 0
    /\ arg' = [arg EXCEPT ![p] = 0]
    /\ UNCHANGED <<fields, lock, sem_array_lock, live, net, overlap>>

(* The three stores are made without sems[s].lock. *)
CreateUsed(p) ==
    /\ Goto(p, "cr_used", "cr_value")
    /\ used' = [used EXCEPT ![id[p]] = 1]
    /\ UNCHANGED <<value, init_value, lock, sem_array_lock, id, arg, live, net, overlap>>

CreateValue(p) ==
    /\ Goto(p, "cr_value", "cr_init")
    /\ value' = [value EXCEPT ![id[p]] = arg[p]]
    /\ UNCHANGED <<used, init_value, lock, sem_array_lock, id, arg, live, net, overlap>>

CreateInit(p) ==
    /\ Goto(p, "cr_init", "cr_release")
    /\ init_value' = [init_value EXCEPT ![id[p]] = arg[p]]
    /\ UNCHANGED <<used, value, lock, sem_array_lock, id, arg, live, net, overlap>>

CreateReturn(p) ==
    /\ Return(p, "cr_release")
    /\ sem_array_lock' = NoProc
    /\ live' = live \union {id[p]}
    /\ net' = [net EXCEPT ![id[p]] = 0]
    /\ arg' = [arg EXCEPT ![p] = 0]
    /\ UNCHANGED <<fields, lock, overlap>>

Create(p) ==
    \/ CreateFind(p) \/ CreateFail(p) \/ CreateUsed(p)
    \/ CreateValue(p) \/ CreateInit(p) \/ CreateReturn(p)

-----------------------------------------------------------------------------
(* sem_free *)
FreeCall(p, s) ==
    /\ Call(p, s, "fr_array")
    /\ overlap \/ \A q \in Procs : id[q] # s
    /\ live' = IF overlap THEN live ELSE live \ {s}
    /\ UNCHANGED <<fields, lock, sem_array_lock, arg, net, overlap>>

FreeArray(p) ==
    /\ Goto(p, "fr_array", "fr_lock")
    /\ sem_array_lock = NoProc
    /\ used[id[p]] # 0
    /\ sem_array_lock' = p
    /\ UNCHANGED <<fields, lock, id, arg, live, net, overlap>>

FreeUnused(p) ==
    /\ Return(p, "fr_array")
    /\ sem_array_lock = NoProc
    /\ used[id[p]] = 0
    /\ UNCHANGED <<fields, lock, sem_array_lock, arg, live, net, overlap>>

FreeLock(p) == Acquire(p, "fr_lock", "fr_check")

(* The semaphore is in use: its id stays valid. *)
FreeRefuse(p) ==
    /\ Goto(p, "fr_check", "fr_release")
    /\ value[id[p]] # init_value[id[p]]
    /\ live' = live \union {id[p]}
    /\ UNCHANGED <<fields, lock, sem_array_lock, id, arg, net, overlap>>

FreeClear(p) ==
    /\ Goto(p, "fr_check", "fr_release")
    /\ value[id[p]] = init_value[id[p]]
    /\ used' = [used EXCEPT ![id[p]] = 0]
    /\ value' = [value EXCEPT ![id[p]] = 0]
    /\ init_value' = [init_value EXCEPT ![id[p]] = 0]
    /\ live' = live \ {id[p]}
    /\ UNCHANGED <<lock, sem_array_lock, id, arg, net, overlap>>

FreeRelease(p) ==
    /\ Goto(p, "fr_release", "fr_return")
    /\ lock' = [lock EXCEPT ![id[p]] = NoProc]
    /\ UNCHANGED <<fields, sem_array_lock, id, arg, live, net, overlap>>

FreeReturn(p) ==
    /\ Return(p, "fr_return")
    /\ sem_array_lock' = NoProc
    /\ UNCHANGED <<fields, lock, arg, live, net, overlap>>

Free(p) ==
    \/ FreeArray(p) \/ FreeUnused(p) \/ FreeLock(p) \/ FreeRefuse(p)
    \/ FreeClear(p) \/ FreeRelease(p) \/ FreeReturn(p)

-----------------------------------------------------------------------------
(* sem_down *)
DownCall(p, s) ==
    /\ Call(p, s, "dn_acquire")
    /\ UNCHANGED <<fields, lock, sem_array_lock, arg, live, net, overlap>>

DownAcquire(p) == Acquire(p, "dn_acquire", "dn_check")

DownUnused(p) ==
    /\ Return(p, "dn_check")
    /\ used[id[p]] = 0
    /\ lock' = [lock EXCEPT ![id[p]] = NoProc]
    /\ UNCHANGED <<fields, sem_array_lock, arg, live, net, overlap>>

DownUsed(p) ==
    /\ Goto(p, "dn_check", "dn_test")
    /\ used[id[p]] # 0
    /\ UNCHANGED <<fields, lock, sem_array_lock, id, arg, live, net, overlap>>

DownSleep(p) ==
    /\ Goto(p, "dn_test", "asleep")
    /\ value[id[p]] = 0
    /\ lock' = [lock EXCEPT ![id[p]] = NoProc]
    /\ UNCHANGED <<fields, sem_array_lock, id, arg, live, net, overlap>>

(* Mutants: an if in place of the while, so that the value is not tested   *)
(* again; and a test that takes a value of one for none left.              *)
DownReacquireOnce(p) == Acquire(p, "woken", "dn_take")

DownReacquireOffByOne(p) ==
    \/ /\ pc[p] = "woken" /\ value[id[p]] > 1
       /\ Acquire(p, "woken", "dn_test")
    \/ /\ Goto(p, "woken", "woken")
       /\ value[id[p]] <= 1
       /\ UNCHANGED <<fields, lock, sem_array_lock, id, arg, live, net, overlap>>

DownReacquire(p) == Acquire(p, "woken", "dn_test")

DownGo(p) ==
    /\ Goto(p, "dn_test", "dn_take")
    /\ value[id[p]] # 0
    /\ UNCHANGED <<fields, lock, sem_array_lock, id, arg, live, net, overlap>>

(* Mutant: the decrement is missing. *)
DownTakeNothing(p) ==
    /\ Goto(p, "dn_take", "dn_release")
    /\ UNCHANGED <<fields, lock, sem_array_lock, id, arg, live, net, overlap>>

DownTake(p) ==
    /\ Goto(p, "dn_take", "dn_release")
    /\ value' = [value EXCEPT ![id[p]] = @ - 1]
    /\ UNCHANGED <<used, init_value, lock, sem_array_lock, id, arg, live, net, overlap>>

DownReturn(p) ==
    /\ Return(p, "dn_release")
    /\ lock' = [lock EXCEPT ![id[p]] = NoProc]
    /\ net' = [net EXCEPT ![id[p]] = @ + 1]
    /\ UNCHANGED <<fields, sem_array_lock, arg, live, overlap>>

Down(p) ==
    \/ DownAcquire(p) \/ DownUnused(p) \/ DownUsed(p) \/ DownSleep(p)
    \/ DownReacquire(p) \/ DownGo(p) \/ DownTake(p) \/ DownReturn(p)

-----------------------------------------------------------------------------
(* sem_up *)
UpCall(p, s) ==
    /\ value[s] < MaxValue
    /\ Call(p, s, "up_acquire")
    /\ net' = [net EXCEPT ![s] = @ - 1]
    /\ UNCHANGED <<fields, lock, sem_array_lock, arg, live, overlap>>

UpAcquire(p) == Acquire(p, "up_acquire", "up_check")

UpUnused(p) ==
    /\ Return(p, "up_check")
    /\ used[id[p]] = 0
    /\ lock' = [lock EXCEPT ![id[p]] = NoProc]
    /\ UNCHANGED <<fields, sem_array_lock, arg, live, net, overlap>>

UpAdd(p) ==
    /\ Goto(p, "up_check", "up_wakeup")
    /\ used[id[p]] # 0
    /\ value' = [value EXCEPT ![id[p]] = @ + 1]
    /\ UNCHANGED <<used, init_value, lock, sem_array_lock, id, arg, live, net, overlap>>

(* Mutant: only one sleeper is woken. *)
UpWakeupOne(p) ==
    /\ pc[p] = "up_wakeup"
    /\ \/ /\ At(id[p], {"asleep"}) = {}
          /\ pc' = [pc EXCEPT ![p] = "up_release"]
       \/ \E q \in At(id[p], {"asleep"}) :
            pc' = [pc EXCEPT ![p] = "up_release", ![q] = "woken"]
    /\ UNCHANGED <<fields, lock, sem_array_lock, id, arg, live, net, overlap>>

(* wakeup(&sems[id]) *)
UpWakeup(p) ==
    /\ pc[p] = "up_wakeup"
    /\ pc' = [q \in Procs |->
                IF q = p THEN "up_release"
                ELSE IF pc[q] = "asleep" /\ id[q] = id[p] THEN "woken" ELSE pc[q]]
    /\ UNCHANGED <<fields, lock, sem_array_lock, id, arg, live, net, overlap>>

UpReturn(p) ==
    /\ Return(p, "up_release")
    /\ lock' = [lock EXCEPT ![id[p]] = NoProc]
    /\ UNCHANGED <<fields, sem_array_lock, arg, live, net, overlap>>

Up(p) ==
    \/ UpAcquire(p) \/ UpUnused(p) \/ UpAdd(p) \/ UpWakeup(p) \/ UpReturn(p)

-----------------------------------------------------------------------------
(* kill(pid): the sleeper becomes runnable, and goes on with its loop. *)
Kill(p) ==
    /\ Goto(p, "asleep", "woken")
    /\ UNCHANGED <<fields, lock, sem_array_lock, id, arg, live, net, overlap>>

(* The system calls processes choose to make, on the ids they know.  Two   *)
(* kinds of programs are distinguished.  Without overlap, sem_create runs  *)
(* concurrently with everything, and a process calls sem_free when no      *)
(* other is using the semaphore.  With overlap, sem_free runs concurrently *)
(* with the calls on the same semaphore; there is one semaphore at a time, *)
(* created when no other call is in progress.  (A program that does both   *)
(* can race with the unlocked stores of sem_create.)                       *)
SysCall(p) ==
    \/ /\ overlap => live = {} /\ \A q \in Procs : pc[q] = "idle"
       /\ \E v \in InitValues : CreateCall(p, v)
    \/ /\ overlap => \A q \in Procs : pc[q] \notin CreatePc \union {"cr_acquire"}
       /\ \E s \in live : FreeCall(p, s) \/ DownCall(p, s) \/ UpCall(p, s)

Step(p) == Create(p) \/ Free(p) \/ Down(p) \/ Up(p)

Next == \E p \in Procs : SysCall(p) \/ Step(p) \/ Kill(p)

(* A process that is inside a system call, and not asleep, keeps running. *)
Fairness == \A p \in Procs : WF_vars(Step(p))

Spec == Init /\ [][Next]_vars /\ Fairness

-----------------------------------------------------------------------------
ArrayPc == CreatePc \union {"fr_lock", "fr_check", "fr_release", "fr_return"}
LockPc == {"fr_check", "fr_release", "dn_check", "dn_test", "dn_take", "dn_release",
           "up_check", "up_wakeup", "up_release"}
PcValues == {"idle", "asleep", "woken", "cr_acquire", "fr_array",
             "dn_acquire", "up_acquire"} \union ArrayPc \union LockPc

(* The types of the variables, no value ever negative; sem_array_lock and  *)
(* sems[s].lock are held exactly by the process whose statement the code   *)
(* puts between acquire and release; an id that is in use is marked used.  *)
TypeOK ==
    /\ used \in [Sems -> {0, 1}]
    /\ value \in [Sems -> Nat]
    /\ init_value \in [Sems -> InitValues \union {0}]
    /\ lock \in [Sems -> Procs \union {NoProc}]
    /\ sem_array_lock \in Procs \union {NoProc}
    /\ pc \in [Procs -> PcValues]
    /\ id \in [Procs -> Sems \union {-1}]
    /\ arg \in [Procs -> InitValues \union {0}]
    /\ live \subseteq Sems
    /\ net \in [Sems -> Int]
    /\ overlap \in Styles
    /\ \A p \in Procs : sem_array_lock = p <=> pc[p] \in ArrayPc
    /\ \A p \in Procs, s \in Sems : lock[s] = p <=> (id[p] = s /\ pc[p] \in LockPc)
    /\ \A s \in live : used[s] = 1

(* Whatever the interleaving of sem_down, sem_up, wakeups and kills, the   *)
(* value accounts for every call: the processes that got through sem_down  *)
(* never outnumber the initial value plus the sem_ups.                     *)
PermitsBalance ==
    \A s \in live :
      value[s] + net[s] + Cardinality(At(s, {"dn_release"}))
           + Cardinality(At(s, {"up_acquire", "up_check"})) = init_value[s]

(* No wakeup is lost: while sems[s].lock is free, nobody sleeps on a       *)
(* semaphore that has a permit.                                            *)
NoLostWakeup ==
    \A s \in Sems : lock[s] = NoProc /\ value[s] > 0 => At(s, {"asleep"}) = {}

(* A permit does not stay unused while somebody waits for it: a process    *)
(* takes it (a sem_down is about to return), or nobody waits any more.     *)
(* That is for programs without overlapping frees: calls of sem_free in a  *)
(* loop can keep a spinlock, which is not fair, from the waiters.          *)
PermitTaken ==
    \A s \in Sems :
      (~ overlap /\ value[s] > 0 /\ At(s, {"asleep", "woken"}) # {})
        ~> (value[s] = 0 \/ At(s, {"dn_release"}) # {} \/ At(s, {"asleep", "woken"}) = {})

=============================================================================
