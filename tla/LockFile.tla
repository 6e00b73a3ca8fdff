------------------------------ MODULE LockFile ------------------------------
(***************************************************************************)
(* The lock file of ex2 (part2.c): the parent forks a child per message,   *)
(* and every child writes its message count times to the shared standard   *)
(* output while it holds the lock, a file created with O_CREAT | O_EXCL.   *)
(*                                                                         *)
(* Standard output is what stdio makes of it: every line is written at     *)
(* once on a terminal; otherwise lines stay in the child's stdio buffer    *)
(* until the buffer is full or the child calls exit.                       *)
(***************************************************************************)
EXTENDS Naturals, Sequences, FiniteSets

CONSTANTS
    num_children,
    count,       \* lines per child
    StdioSizes,  \* numbers of lines a stdio buffer may hold; 1: a terminal
    MayFail      \* whether fork, and a child's open and unlink, may fail

ASSUME LockFileAssumption ==
    /\ num_children \in Nat /\ count \in Nat
    /\ StdioSizes \subseteq Nat \ {0}
    /\ MayFail \in BOOLEAN

Children == 1..num_children

VARIABLES
    lockfile,   \* whether LOCK_FILE exists
    parent,     \* position of main: <<statement, child>>
    pc,         \* next statement of every child
    left,       \* lines a child has still to print
    stdio,      \* lines in a child's stdio buffer
    output,     \* lines on standard output: who wrote each
    StdioLines, \* lines a stdio buffer holds
    failed      \* whether a fork, open or unlink has failed

childVars == <<pc, left, stdio>>
run == <<StdioLines, failed>>
vars == <<lockfile, parent, childVars, output, run>>

(* A run that was interrupted may have left its lock file. *)
Init ==
    /\ lockfile \in BOOLEAN
    /\ parent = <<"start", 0>>
    /\ pc = [c \in Children |-> "none"]
    /\ left = [c \in Children |-> count]
    /\ stdio = [c \in Children |-> 0]
    /\ output = <<>>
    /\ StdioLines \in StdioSizes
    /\ failed = FALSE

-----------------------------------------------------------------------------
(* main.  (Mutant: the stale lock file is not removed.) *)
ParentStartStale ==
    /\ parent[1] = "start"
    /\ parent' = <<"fork", 1>>
    /\ UNCHANGED <<lockfile, childVars, output, run>>

ParentStart ==
    /\ parent[1] = "start"
    /\ lockfile' = FALSE
    /\ parent' = <<"fork", 1>>
    /\ UNCHANGED <<childVars, output, run>>

ParentFork ==
    /\ parent[1] = "fork" /\ parent[2] <= num_children
    /\ pc' = [pc EXCEPT ![parent[2]] = "acquire"]
    /\ parent' = <<"fork", parent[2] + 1>>
    /\ UNCHANGED <<lockfile, left, stdio, output, run>>

(* The parent returns at once, and leaves the children it has to run on. *)
ParentForkFails ==
    /\ MayFail
    /\ parent[1] = "fork" /\ parent[2] <= num_children
    /\ parent' = <<"failed", 0>>
    /\ failed' = TRUE
    /\ UNCHANGED <<lockfile, childVars, output, StdioLines>>

(* wait for num_children children, then unlink. *)
ParentWait ==
    /\ parent[1] = "fork" /\ parent[2] > num_children
    /\ \A c \in Children : pc[c] = "exited"
    /\ lockfile' = FALSE
    /\ parent' = <<"returned", 0>>
    /\ UNCHANGED <<childVars, output, run>>

Parent == ParentStart \/ ParentFork \/ ParentForkFails \/ ParentWait

-----------------------------------------------------------------------------
(* acquire_lock: try again while the file exists; any other error ends the *)
(* child.  (Mutant: without O_EXCL.)                                       *)
AcquireAlways(c) ==
    /\ pc[c] = "acquire"
    /\ lockfile' = TRUE
    /\ pc' = [pc EXCEPT ![c] = "write"]
    /\ UNCHANGED <<parent, left, stdio, output, run>>

Acquire(c) ==
    /\ pc[c] = "acquire"
    /\ ~ lockfile
    /\ lockfile' = TRUE
    /\ pc' = [pc EXCEPT ![c] = "write"]
    /\ UNCHANGED <<parent, left, stdio, output, run>>

AcquireAgain(c) ==
    /\ pc[c] = "acquire"
    /\ lockfile
    /\ UNCHANGED vars

AcquireFails(c) ==
    /\ MayFail
    /\ pc[c] = "acquire"
    /\ pc' = [pc EXCEPT ![c] = "exit"]
    /\ failed' = TRUE
    /\ UNCHANGED <<lockfile, parent, left, stdio, output, StdioLines>>

Lines(c, n) == [k \in 1..n |-> c]

(* One round of write_message. *)
WriteLine(c) ==
    /\ pc[c] = "write"
    /\ left[c] > 0
    /\ left' = [left EXCEPT ![c] = @ - 1]
    /\ \/ /\ stdio[c] + 1 < StdioLines
          /\ stdio' = [stdio EXCEPT ![c] = @ + 1]
          /\ UNCHANGED output
       \/ /\ stdio[c] + 1 = StdioLines
          /\ stdio' = [stdio EXCEPT ![c] = 0]
          /\ output' = output \o Lines(c, StdioLines)
    /\ UNCHANGED <<lockfile, parent, pc, run>>

(* release_lock.  (Mutant: called before the last line.) *)
ReleaseEarly(c) ==
    /\ pc[c] = "write"
    /\ left[c] <= 1
    /\ left' = [left EXCEPT ![c] = 0]
    /\ stdio' = [stdio EXCEPT ![c] = @ + left[c]]
    /\ lockfile' = FALSE
    /\ pc' = [pc EXCEPT ![c] = "exit"]
    /\ UNCHANGED <<parent, output, run>>

Release(c) ==
    /\ pc[c] = "write"
    /\ left[c] = 0
    /\ lockfile
    /\ lockfile' = FALSE
    /\ pc' = [pc EXCEPT ![c] = "exit"]
    /\ UNCHANGED <<parent, left, stdio, output, run>>

(* unlink fails, certainly when the file is gone; the file stays as it is. *)
ReleaseFails(c) ==
    /\ pc[c] = "write"
    /\ left[c] = 0
    /\ MayFail \/ ~ lockfile
    /\ pc' = [pc EXCEPT ![c] = "exit"]
    /\ failed' = TRUE
    /\ UNCHANGED <<lockfile, parent, left, stdio, output, StdioLines>>

(* exit writes what is left in the stdio buffer. *)
Exit(c) ==
    /\ pc[c] = "exit"
    /\ pc' = [pc EXCEPT ![c] = "exited"]
    /\ output' = output \o Lines(c, stdio[c])
    /\ stdio' = [stdio EXCEPT ![c] = 0]
    /\ UNCHANGED <<lockfile, parent, left, run>>

Child(c) ==
    \/ Acquire(c) \/ AcquireAgain(c)
    \/ WriteLine(c) \/ Release(c) \/ ReleaseFails(c) \/ Exit(c)

-----------------------------------------------------------------------------
Ended ==
    /\ parent[1] \in {"failed", "returned"}
    /\ \A c \in Children : pc[c] \in {"none", "exited"}
    /\ UNCHANGED vars

Next == Parent \/ (\E c \in Children : Child(c) \/ AcquireFails(c)) \/ Ended

(* The operating system runs every process that can run; it need not make *)
(* a call fail.                                                           *)
Spec == Init /\ [][Next]_vars /\ WF_vars(Parent) /\ \A c \in Children : WF_vars(Child(c))

-----------------------------------------------------------------------------
(* The types of the variables. *)
TypeOK ==
    /\ lockfile \in BOOLEAN
    /\ parent \in {"start", "fork", "failed", "returned"} \X (0..(num_children + 1))
    /\ pc \in [Children -> {"none", "acquire", "write", "exit", "exited"}]
    /\ left \in [Children -> 0..count]
    /\ stdio \in [Children -> 0..StdioLines]
    /\ output \in Seq(Children)
    /\ StdioLines \in StdioSizes
    /\ failed \in BOOLEAN

LinesOf(c) == {k \in 1..Len(output) : output[k] = c}

(* One child at most is between CS ENTRY and CS EXIT, and the lock file    *)
(* exists while one is, whatever fork, open or unlink did.                 *)
MutualExclusion ==
    \A c \in Children : pc[c] = "write" =>
      /\ lockfile
      /\ \A d \in Children \ {c} : pc[d] # "write"

(* The lines of a child follow one another on standard output, which is    *)
(* what the critical section around write_message is for; and when the     *)
(* parent has returned 0 no lock file is left and every child has written  *)
(* all its lines, unless a call failed on the way.                         *)
OutputInBlocks ==
    /\ \A c \in Children : \A j, k \in LinesOf(c) :
         j < k => \A m \in j..k : output[m] = c
    /\ parent[1] = "returned" =>
         /\ ~ lockfile
         /\ failed \/ \A c \in Children : Cardinality(LinesOf(c)) = count

(* Every child gets the lock and the parent returns, also after a run that *)
(* left its lock file behind.  Only a failed call can prevent it: a child  *)
(* whose unlink failed leaves the others waiting for ever.                 *)
Termination == <>(failed \/ parent[1] = "returned")

=============================================================================
