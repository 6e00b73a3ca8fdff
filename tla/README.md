# A TLA+ model of the OS-Course programs

This directory holds TLA+ specifications of the programs in this repository, the TLC
configurations that check them on small instances, and TLAPS proofs for the ten of them
that model code. `PROJECT.json` lists the runs, the source lines every definition models, the mutants the
properties are tested with, the findings and the hazards.

Every module is translated from the C source. Tests and comments were only used to learn what
the code is meant to do.

## The system

The repository is a set of independent programs and of files that replace parts of the xv6
kernel.

| part | state | operations | what is hard |
|---|---|---|---|
| ex3 bounded buffer (`ex3/BoundedBuffer.c`) | circular array, `head`, `tail`, a mutex, two semaphores | insert, remove, tryRemove, isBufferEmpty, init, destroy | threads interleave between every two statements; wrap-around; permits are posted outside the mutex |
| ex3 news pipeline (`ex3/main.c`) | N + 4 buffers, one message per thread, `isDone` flags, counters | producer, dispatcher, co-editor, screen manager, main | end-of-stream messages racing with news, blocking on full buffers, freeing buffers and messages while threads run, malloc failing |
| ex3 configuration parser (`ex3/main.c`) | `ConfigData` | parseConfigFile | nothing concurrent; missing or zero sizes |
| ex4 part 2 semaphores (`ex4/part2/sem.c`) | `sems[]` (used, value, init_value, lock), `sem_array_lock` | sem_create, sem_free, sem_down, sem_up | sleep and wakeup, several sleepers, kill, freeing a slot in use |
| ex4 part 1 scheduler (`ex4/part1/proc.c`, `trap.c`, `sysproc.c`) | process table (state, chan, accumulator, ps_priority, lock), `c->proc` | scheduler, yield, sleep, wakeup, kill, fork/allocproc, timer traps, set_ps_priority | several CPUs, nested spinlocks, locks handed over across `swtch` |
| ex4 part 1 process lifetime (`proc.c`, `trap.c`, `sysproc.c`) | parent, killed, xstate, state and chan, `wait_lock`, `p->lock` | fork, exit, reparent, wait, kill | wakeups between a child that exits and its parent, parents that exit, slots that are reused |
| ex2 buffered files (`ex2/buffered_open.c`) | read and write buffer, flags; the kernel's file and offset | open, write, read, flush, close | failing and short system calls, O_PREAPPEND, read-ahead against writes |
| ex2 lock file (`ex2/part2.c`) | the lock file, stdio buffers | acquire_lock, write_message, release_lock, main | processes interleave, stale lock files, output buffered past the critical section |
| ex2 ordering by sleep (`ex2/part1.c`) | output.txt | two children and a parent | order by time only; the file does not compile |
| ex5 copytree (`ex5/copytree.c`, `part3.c`) | two directory trees | copy_file, copy_directory | links to anything, modes, partial failures |
| ex5 bonus inodes (`ex5/bonus/fs.c`, `sysfile.c`, `exec.c`) | inode table, mode bits, directory entries | open, create, close, link, unlink, chmod, getperm | reference and link counts while locks are given up, permission checks |
| ex5 bonus blocks (`ex5/bonus/fs.c`) | free bitmap, blocks, block lists of inodes, the log | balloc, bfree, bmap, readi, writei, itrunc, iupdate | full disk, copies that fail half way, crashes, arithmetic in `uint` |

The parts that interact: the pipeline's threads share the bounded buffers; the kernel
semaphores, and exit and wait, call `sleep` and `wakeup` of the scheduler; the scheduler is
entered from the traps; inodes own the blocks. Everything else stands alone.

What makes each part correct, in a sentence: the buffer is a FIFO queue for any interleaving;
the pipeline prints every message once, in order per producer and category, before DONE, and
ends; a semaphore never lets more processes through than it has permits and never leaves a
permit unused while somebody sleeps; a process runs on one CPU at a time, with the lowest
accumulator first, and no CPU deadlocks; a buffered file ends up with the bytes written, where
the program meant them; one child at a time writes its block of lines; every process that exits
is collected once, by its parent or by init; a block belongs to one file, also after a crash;
a copied tree is the source tree, and a failure costs its own entry only.

## Modules

`FifoQueue` is the abstract specification of the buffer: a queue, the messages offered and not
yet in it, and the messages taken and not yet returned. `BoundedBuffer` models
`BoundedBuffer.c` one statement per action (`InsertWait`, `InsertLock`, `InsertStore`,
`InsertAdvance`, `InsertUnlock`, `InsertPost`, and so on). A mutex is its holder, a semaphore
its value. `ImplementsFifo` states that it implements `FifoQueue`.

`NewsPipeline` models `main.c` on top of buffers that are FIFO queues with two counts of
permits, which is what `BoundedBuffer` is shown to be. A buffer call is three steps (semaphore,
critical section, post). Statements that touch only the thread's own locals are part of the
step next to them. The co-editor's loop test is a step of its own because it reads a message
that another thread frees. A message is the triple (producer, category, number), `FINISH_MSG`
the empty sequence. `main` is modelled from the first `pthread_create` to its return, with
its malloc failures; the configuration values are constants, except the numbers of messages,
which Init chooses from `Loads`.

`XvSem` models `sem.c`; sleep, wakeup and kill are those of xv6 and external. `net[s]` is a
history variable that counts calls, `live` the ids that programs know.
`overlap` selects one of two kinds of programs, explained at `SysCall`: a program that
creates semaphores at any time and frees them when nobody uses them, or one that frees its
semaphore at any time and creates the next when nothing else runs. A program that does both can
also race with the unlocked stores of `sem_create`; that is a fault of the program, and not
modelled, so nothing is claimed about that race.

`XvSched` models the scheduler. A step is the code between two acquisitions of a `p->lock`.
`Wants(c)` is the process whose lock a CPU needs next, `Holds(c)` the locks it has. `chan` and
the state of a sleeping process are modelled; the lock handed to `sleep` is not. An interrupt
can call `wakeup` on a CPU that holds no lock; one that arrives inside another `wakeup` is left
out. The timer interrupts a process in user mode and the scheduler between two processes of its
scan; that `kerneltrap` can also preempt fork and allocproc between two acquisitions is left out. `kill` scans the table one lock at a time and is modelled by its last step.

`BufferedFile` models `buffered_open.c`; the kernel's file, its offset and `read`, `write` and
`lseek` are external. `read_buffer` is what has been read ahead and not yet delivered.
`ref` and `pos` are history variables: the file as the program means it, and the position it
thinks it has. `torn` records that a write stopped short.

`LockFile` models `part2.c`. `StdioLines`, chosen from `StdioSizes`, is the number of lines that
a child's stdio buffer holds; on a terminal it is 1. `failed` records that a fork, open or
unlink has failed.

`XvProc` models the life of processes: fork, exit with reparent, wait and kill, the tests for
`killed` in `usertrap`, and what sleep and wakeup do for them. A step is the code between two
acquisitions of a lock; a lock that one step both acquires and releases is only tested. Every
process has a CPU whenever it is not asleep, because which one runs is the matter of `XvSched`. So is
`get_min_accumulator`, whose locks `WakeupOne` and `ForkAlloc` leave out; `Delayed` names the
statements it can be stuck at.
A zombie keeps `p->lock` until the scheduler has switched away from it (`SwitchAway`), which is
what wait's acquire of the child's lock is for. `mine` is a history variable: the children that
fork has announced to a program less those that wait has returned. A pid stands for the process
that has it; the scans of kill and allocproc are reduced to the step that finds something. The
program of init calls wait for ever and is not killed, which would panic.

`XvInode` models the inode table of `ex5/bonus/fs.c` and the system calls on it. The root
directory is a function from names to inode numbers with a sleep-lock; an inode is its type,
link count and owner permissions. `iput` is split where other processes can see the inode:
when it is freed on disk, when its lock is released, when `ref` is decremented. A transaction
(`begin_op`) does not exclude other calls, so it is not modelled here. With a full table `iget` waits
for an entry where the code panics (`fs.c:274`); `NoPanic` is about the other panics.

`FileStore` is the abstract specification of what the block layer promises: a file is a
sequence of bytes that only its own calls change, and a crash brings back the contents of all
files at one moment when no call was in progress. `XvBlocks` models the code: `balloc`,
`bfree`, `bmap`, `readi`, `writei`, `itrunc`, `iupdate`, one step per block, with the calls on
different files interleaved. The log and the buffer cache are external: a transaction is
committed when no other is open (`end_op`), a block that was changed without `log_write` is not
committed and can be evicted with its change (`Evict`), and a crash leaves what was committed
(`Crash`). `writei` does the former when copyin fails in the middle of a block; the bytes
concerned are `loose`, a history variable, and are the `Unknown` bytes of `FileStore`. Inodes
are taken for another file and read again at any time between calls (`Reload`).

`CopyTree` models `copytree.c` over every tree of `N` nodes: files, directories and links to any
node or to nowhere. A path is the sequence of the nodes on it. An entry is one
step, except a file, which `copy_file` opens, fills and changes the mode of in three (`OpenFile`,
`CopyLoop`, `CopyMode`; `file` is the entry in progress), so that a program stopped in between
leaves the partial file of the code. The kernel's following of links, with its limit, is
external; any other system call may fail, which `failed` records by path. That includes the stat
that tells whether a link leads to a directory (`copytree.c:152`): `copy_file` then opens the
directory and leaves an empty file in its place.

Operators that a comment calls a mutant are faulty variants of the definition after them. They
are not used by any specification; the runs are repeated with each in place of the original, to
see that the property they are meant for is then violated.

## Runs

| run | instance | shows |
|---|---|---|
| `bounded_buffer` | 2 inserters, 1 remover, 1 poller, size 2 | types, mutual exclusion, permits, no slot read before it is written, refinement of the FIFO queue |
| `pipeline` | 2 producers with a message each, or with two and none; all buffers of size 1; malloc may fail | permits, messages in transit, nothing printed after DONE, no buffer used after it is freed, what was made is shown, main returns |
| `sem` | 3 processes, 2 slots, initial values 0 and 1, both kinds of programs | locks, permits, no lost wakeup, permits are taken |
| `sched` | 1 or 2 CPUs, 3 processes | a process runs on one CPU, no lock acquired twice, one lock across a switch, minimum accumulator on one CPU |
| `sched_deadlock` | 2 CPUs, 2 processes | two CPUs wait for each other's lock (violation) |
| `buffered_file` | buffers of 2 bytes, calls of up to 3, files of up to 5, any system call may fail | contents, reads in order, O_PREAPPEND, close, every call returns |
| `lock_file` | 3 children, 3 lines each, a terminal or a stdio buffer of 4 lines; fork, open, unlink may fail | mutual exclusion, blocks of lines, all lines, main returns even after a stale lock file |
| `inodes` | 2 processes, 2 names, 2 inodes, 2 table entries, one open file per process | no panic, reference and link counts, nothing freed while it can be reached |
| `inodes_leak` | 2 processes, 1 name, 1 inode | an inode is left allocated for ever (violation) |
| `proc_life` | init and 2 more slots, 6 calls of fork, wait and kill | every statement has its locks, parents and children agree with what programs were told, no exit is missed in wait, no slot is freed under a process; if the scans of wakeup and allocproc end, exit ends and orphans are collected |
| `blocks` | 2 files of up to 3 blocks of 2 bytes, 4 blocks, 3 calls, `uint` of 4 bits | every block has one owner, in memory and on disk, reads deliver what was written, refinement of `FileStore` |
| `copytree` | all trees of 4 nodes, 2 links followed at most, calls fail for one entry | only right copies, up to the file in progress, wherever the program stops; nothing left out |

Bounds. Two slots are the least for which the array wraps, is partly filled, and has its
pointers meet in two ways; two inserters compete for the mutex and for permits. In the pipeline
one-slot buffers make every thread block on every other; two producers are needed for one to
finish, or to fail, before the other; one message each lets the two pass each other, two of one
producer must keep their order within a category; with three categories the co-editors race for
the screen buffer. Three processes on a semaphore are
a sem_up with two sleepers. Two processes and two CPUs are the least with which locks can be
crossed; a third process lets the scan replace a candidate. Three slots of the process table
are init, a parent and a child, whose slots are reused within six calls. Two files of which
one can take three of four blocks fill the disk; one direct block and an indirect one of two
entries reach every branch of `bmap`; three calls are a write, one that fails on the same block
and a read, or a transaction shared by two files and a crash. Four nodes are a directory, a
link to it, a link to that and something in it; a circle of links is followed twice.
`MaxAcc`, `MaxValue`, `MaxLen`, `MaxCount`, `MaxCalls` and `MaxFailures` cap counters: they are guards on what programs start (a timer tick, a
sem_up, a write, a call) and on how often a call fails, never on what the code does with it, except that a short write does not make
a file longer than `MaxLen`. Buffers of two bytes and calls of three make a call fill a
buffer, empty it and go on.

`sched` sets CHECK_DEADLOCK FALSE, because the CPUs can deadlock: `sched_deadlock` shows
how. All other runs check for deadlock; `Ended` stutters when a program is over.

Fairness. `NewsPipeline` (`GoodEnd`): weak fairness for the dispatcher, and for the other threads
and main taken together, which is less than the operating system's scheduler gives. Every thread
but the dispatcher makes finitely many steps, so no thread is left waiting for another one.
`LockFile` (`Termination`): weak fairness for every process. The lock can be lost to another
child at each try, but each child takes it once. In neither is a call that may fail obliged to.
`XvSem`: weak fairness for processes inside a system call and not asleep, that
is, the scheduler runs what is RUNNABLE; none for the system calls programs choose to make,
nor for kill. `BufferedFile`: the thread goes on with a call that it has begun. `XvProc`
(`Collected`): weak fairness for the kernel's steps of init, with init's next call of wait, and
for those of the other processes taken together, but only for steps that nothing in the scheduler
can hold up (`Prompt`); none for what programs choose. A RUNNABLE process waits for a CPU, and
wakeup and allocproc call `get_min_accumulator`, which `sched_deadlock` shows can spin for ever
(`Delayed`). The kernel does not guarantee that these end, so `Collected` supposes it: if no
process is delayed for ever, then exit ends and the zombies of init are collected. Without the
premise TLC finds it violated. Spinlocks give no more than weak fairness, and with the bound on
calls no more is needed: whoever holds a lock lets it go. `BoundedBuffer`, `XvSched`, `XvInode`, `XvBlocks` and `CopyTree` state safety only.

## Where code and comments differ

Two differences are shown by the violation runs. `sched_deadlock`: `get_min_accumulator` takes the
lock of every other process while its caller holds one, and `scheduler` keeps its candidate's
lock during the scan, so two CPUs can spin for each other's lock. `inodes_leak`: `iput` releases its
locks between freeing an inode and decrementing `ref`; `ialloc` can hand the inode out again in
between, and `iget` then returns the same entry with a count of two. If the new user drops the
file before the first `iput` goes on, neither of them sees a count of one with no links, and the
inode is never freed.

More are recorded in the properties and in comments of the modules:

- `buffered_read` reads ahead and moves the offset of the file, and `buffered_write` neither moves
  it back nor drops the read buffer, so a write after a read lands behind the read-ahead; the
  comment says "Flush any pending writes before reading to ensure consistency"
  (`ex2/buffered_open.c:189`). With `Mixes = TRUE` and `CallsMayFail = FALSE` TLC finds `Consistent`
  violated.
- After a flush that wrote a part of the buffer, `buffered_close` flushes the whole buffer again:
  the part is in the file twice and the call returns 0; the comments say "If flush fails, we close
  resources, and return error" (`ex2/buffered_open.c:233`). `SavedOnClose` excepts that case
  (`torn`).
- `kill` between wait's test of `killed` and its sleep finds the process RUNNING and wakes nobody:
  a killed process stays asleep until one of its children exits, or it is killed again
  (`ex4/part1/proc.c:457-463`; `Kill`, `WaitKeepOn`, `WaitSleep`).
- `kill(0)` finds the first UNUSED slot, whose pid is 0, marks it killed and returns 0; `allocproc`
  does not reset `killed`, so the next child in that slot is born killed (`ForkAlloc`).
- A `writei` whose copyin fails half way through a block leaves bytes in the cache that are not
  in the log: a reader may see them and later not, or they are written with the next change of
  that block (`WriteFails`, `Evict`).
- With -p copytree gives a directory the mode of its source less the umask, while files get theirs
  exactly; `part3_tests.py:48-52` compares both with the source, but the directories of
  `test_cases.json` have modes 0755 and 0644, which the usual umask leaves alone. `CopiesOnly` asks for any
  mode between the two. And copytree makes a read-only directory
  before it copies into it, so that its entries are left out unless the superuser, as in the
  tests, runs it (`EnterDirectory`, `NothingLeftOut`).
- When the stat of a link to a directory fails, copytree takes the link for one to a file, makes an
  empty file and reports that it cannot be read; its comment says "if it points to a dir, we work
  recusrsively" (`ex5/copytree.c:149`). `CopiesOnly` allows such a file at a path where a call failed.
- `isBufferEmpty` returns 1 for a full buffer too; its comment says "1 if the buffer is empty, 0
  otherwise" (`ex3/BoundedBuffer.c:89`). `EmptyAnswer` states what it returns and `EmptyOrFull` proves it. The dispatcher,
  its only caller, is not misled: `OutputComplete` holds with that answer.
- `wakeup` sets an accumulator to the minimum of the others even when it was higher, so sleeping
  is rewarded; its comment says "Reset accumulator to prevent gaining advantage after sleep"
  (`ex4/part1/proc.c:614`). See `WakeupFound`, `SetAccumulator`, `WakeupOne`.
- `write_message` prints through stdio. When standard output is not a terminal the lines are
  written when the buffer is full and at exit, which is after the lock is released. With room
  for all lines of a child they still stay together (`OutputInBlocks`); with `StdioSizes = {2}`
  and three lines TLC finds them interleaved.

- The loop of `sem_down` tests `value` only. A process woken by `sem_up` or `kill` that finds its
  slot freed sleeps again, although a call on a freed slot otherwise fails (`ex4/part2/sem.c:102`).
- A co-editor compares a message with DONE after it has handed it over (`ex3/main.c:84`), when the
  screen manager may have freed it (`CoEditorTest`). What it reads cannot be DONE, so the loop is
  not affected.
- `check_permission` compares the whole of `omode`. Its comment names the access modes only
  (`ex5/bonus/sysfile.c:518`); with O_CREATE or O_TRUNC added no bit is tested.

## Proofs

Each module `XProofs` extends `X` and proves, for every value of the constants allowed by the
assumptions in `X`, that `Spec` implies the property; `Ex2Proofs` does so for the two programs of
ex2 (`LockFile`, `BufferedFile`) and `Ex5Proofs` for two of ex5 (`CopyTree`, `XvInode`). Most properties are not inductive; the
proofs define the invariant that is, `IndInv`, and show that each action preserves it, one step
per action. TLC has checked every inductive invariant on the instance of its run as well.

`BoundedBufferProofs`: `TypeCorrect`, `MutualExclusion`, `NoPermitLost`, `NoUninitialisedSlot`
and `EmptyOrFull`, and `BufferIsFifo`, the refinement of `FifoQueue`. `StoredSlotsWritten`
needs to know that a reader between sem_wait and its read has a stored slot to itself, which is
the accounting of `PermitsConserved`; that in turn needs the mutex, because the number of stored
slots changes in the critical section in two statements. `IndInv` conjoins the type invariant,
the mutex, the permits, the slots between the pointers and the message in a reader's hand. The
lemmas give the cardinality of the set of threads at a statement when one thread moves, and the
arithmetic of the pointers modulo size. For the refinement, `ReadInHand` adds that the message
read and not yet returned is the oldest stored one; the store and the advance of an index
are then the abstract append and remove, and every other statement is a stutter or the
abstract offer or return.

`NewsPipelineProofs`: `TypeCorrect`, `NothingLost`, `AllShown` and `NoTouchAfterDestroy`, for any
number of producers, any numbers of messages and any buffer sizes above zero. `Base` conjoins the
permits of every buffer with the threads between a semaphore and its critical section
(`Accounts`), which thread uses which buffer (`Roles`), that a message is only ever in a place of
its producer and category (`Routed`), and where main is (`MainAt`). `Ending` follows DONE from the
producers over the dispatcher and the co-editors to the screen: each DONE is the last message in
its buffer, its sender is behind its loop, and the third one ends the screen manager. So a screen
manager that has counted three of them has nobody behind it who still uses a buffer, which is
what the cleanup in main rests on although it joins no other thread (lemma `AfterTheScreen`).
`InTransit` is inductive relative to `Base`: the messages of a producer and category lie on a path
of seven stages, a move between two stages leaves the concatenation unchanged, a producer
lengthens it at the one end and the screen manager shortens it at the other. `OutputComplete`
follows from `InTransit` once every stage before the screen is empty.

`XvSemProofs`: `LocksHeld`, `PermitsAccounted` and `WakeupsNotLost`. `SlotInv` says who holds
which lock at which statement, which slots are in use, and that the process in sem_create is
alone with its slot, which is what `SysCall` grants; `Balanced` counts the sem_downs that have decremented and not returned;
`Waking` says that whoever raised a value above zero with somebody asleep still holds the lock.

`XvSchedProofs`: `LockDiscipline`, `NeverOnTwoCpus` and `LowestAccumulatorRuns`. `TableInv` ties
the state of a process to the one CPU that may hold it (`OneCpu`), and each CPU's local
variables to the locks it holds. For the choice of the scheduler, `MinSoFar` states that its
candidate is RUNNABLE, locked and the least of those scanned, and `ScanMin` that
get_min_accumulator, interrupted or not, has not fallen below the minimum of what it has scanned:
a process woken behind the scan then cannot have less than the candidate.

`XvProcProofs`: `LockDiscipline`, `FamiliesAgree`, `ExitsNotMissed` and `SlotsFreedOffCpu`. The
invariant has the holders of wait_lock and of every p->lock (`WaitLockHeld`, `LocksHeld`), the
statement at which each state of a process occurs (`Places`), the life of init (`InitLives`), the
parents, including those of a process in the middle of fork or of reparent (`Forks`,
`Family`), how far the loops of reparent and wait have come (`Loops`), and the children that
a sleeper in wait can have (`Sleepers`).

`Ex2Proofs`, about `LockFile`: `TypeCorrect`, `ExclusiveWriter` and, provided that a stdio buffer holds
the lines of a child or stdout is a terminal (`\A n \in StdioSizes : n = 1 \/ n >= count`),
`LinesInBlocks`. The proviso is the one under which the program works: with a smaller buffer
the lines of two children interleave, because the rest of a child's lines is written at its exit,
after the release of the lock. The invariant follows the lines of a child from printf through its stdio
buffer to the output, and says that a child which has written a part of them holds the lock.

`Ex2Proofs`, about `BufferedFile`: `FileTypeCorrect`, `FileIsConsistent`, `FileReadsInOrder` and
`FileSavedOnClose`, for buffers, calls and files of any size, with any system call failing, and
provided that programs do not write after they have read (`~ Mixes`). The proviso is the one of
the run, and cannot be dropped: see the first of the differences above. `Control` says what each
statement of a call has reached: among others, that a call
which goes on has seen no short write, that `temp_buf` is the file between its loading and the
first write, and that only a failed call leaves the write buffer full. `Placed` is `Consistent`
without O_PREAPPEND, together with the place the next flush writes at, which is what makes it
inductive: the bytes copied behind those that wait are one write with them (lemma
`OverlayTwice`). `Delivered` ties what buffered_read has handed out to the program's position.
`InFront` is `Consistent` with O_PREAPPEND, also between the two writes of a flush, when the file
is the old content with its start overwritten and the rest is in `temp_buf` only; the second write
mends it (`OverlayFront`). Bytes are counted by `CountTogether`; the pieces of strings are reduced
to lengths and single bytes, because a prover cannot do induction over them.

`Ex5Proofs`, about `CopyTree`: `OnlyCopies` and `AllCopied`, for source trees of any size, links of any kind and
failures of any number. `TreeInv` adds to `CopiesOnly` what a call of copy_directory knows of its
own path (`FrameOK`): the directory is there, its entries to do are those of the source, and the
links counted on the way are the ones the kernel has followed; and what copy_file knows of the
file in progress (`Drafting`). `Complete` is `NothingLeftOut` for
a program that is still running: an entry that is not dealt with is to do in a call on the stack.
`Chain` and `LinksTo` are recursive functions; that they exist, that a chain with fewer than `N`
links has ended, and that the links of a path add up is proved from the least number at which
it would not hold (`LeastNumber`).

`Ex5Proofs`, about `XvInode`: `InodeNoPanic`, `InodeRefCounts`, `InodeLinkCounts` and
`InodeNoDangling`, for any number of processes, names, inodes and table entries. None of the four is
inductive alone: that an inode is not freed under somebody needs the counts, the counts
need that their inode is not freed, and both need that an entry holds what is on disk. `InodeInv`
conjoins, besides `RefCounts` and `LinkCounts`: who holds which lock (`Locks`); that an entry
which was read holds the inode on disk, unless its last reference is just freeing it (`Coherent`);
that whatever leads to an inode leads to an allocated one (`Alive`); that what create and unlink
found in the directory stays true until they change it, because they keep it locked (`DirHeld`);
that the inode iput frees is referenced by nobody else (`Freeing`); and that an inode from ialloc
belongs to its create alone until it has a name (`Fresh`). The hard case is the one behind the
finding of `inodes_leak`: `ialloc` may take an inode while the iput that freed it still has its
table entry. `Unused` therefore lets such an iput point to the new inode, but nobody else, and
`Coherent` excuses its entry until it is invalid; the new owner cannot lock it before. The actions
are proved in groups with the same effect: those that write the inode (`Writes`), change the
directory (`Renames`), take or drop the lock (`Turns`), get a reference (`Gets`), or touch no inode
(`Quiet`).

`XvBlocksProofs`: `NoBlockShared`, `DiskConsistent`, `ReadsDeliver` and `FilesAsPromised`, the
refinement of `FileStore`, for any number of files and any sizes of blocks, inodes and disk. `Once` is `BlocksOwned` without cardinalities: what a place lists is
marked, two places do not list the same block, and every marked block has a place. `BlockInv` adds
what keeps that true: an indirect block is in the log or as on the disk (`IndirectLogged`), so the
cache never drops an entry of one; every byte below the size of a file has a block (`Filled`), so
readi, which has no transaction, never allocates; and outside a transaction the inode in memory is
the one in the cache. A commit happens when no other transaction is open, so what it writes lists
what memory lists, and `Once` passes to the disk (`DiskOK`), from where a crash brings it back.
Lemma `NoWrap` shows that the tests on `off + n` in an unsigned int are enough for the bounds.
`ByteInv` goes on to the bytes. A byte of a file is in a logged block, as on the disk, or one that a
failed copyin has left uncertain (`Steady`), so an eviction changes nothing that a caller can rely
on; a read keeps the content it started with (`Reading`); a write has stored its bytes over the old
ones, and what a failed copyin may have changed lies right behind them (`Writing`, `Stored`); the
saved contents are those of the disk's blocks (`Saved`). The return of a write or a truncation is
then the abstract call with its commit, a crash the abstract crash, and every other step leaves
all contents as they were (`Unseen`).

Model-checked only. All liveness properties (`PermitTaken`, `GoodEnd`, `Collected`, `CallsReturn`, `Termination`),
because the prover does not reason about fairness. Every invariant and every action property of a
passing run is proved.

## What is not modelled

Text (configuration parsing, formatting, wording of messages), user memory, page tables and
registers of xv6, the loading of programs in `exec.c`, the memory of `malloc` except where it
fails or is freed too early, `usleep` (a thread may be slow anyway), and build files.
`ex2/part1.c` does not compile (`perror` with two arguments, line 26) and is left out.
O_APPEND together with O_PREAPPEND, which no program here uses, is excluded in `Open`. Directories
below the root (mkdir, chdir) and pipes of ex5/bonus. Paths longer than PATH_MAX, and a destination
inside the source, in copytree. Negative initial values of a semaphore
(`sem_down` would never block on one), queue sizes of zero, and a configuration without a Co-Editor
line, which leaves that size uninitialised (`ex3/main.c:210`). An inode that was open without a name when the machine stopped
stays allocated (`fs.c` has no recovery for it); `XvInode` has no crashes.

## Plan

Done: all modules above, and proofs of the invariants of all ten that state any. What is left:

1. Starvation under the accumulator scheduler, with fairness for the CPUs.
2. `XvInode` with mkdir and chdir (nested directories).
