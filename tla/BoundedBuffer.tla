--------------------------- MODULE BoundedBuffer ---------------------------
(***************************************************************************)
(* The bounded buffer of ex3 (BoundedBuffer.c): a circular array guarded   *)
(* by a mutex and two counting semaphores, shared by any number of         *)
(* threads.  Every statement of the code that another thread can observe   *)
(* is a step of its own; pc[t] names the statement thread t executes next. *)
(***************************************************************************)
EXTENDS Naturals, Sequences, FiniteSets

CONSTANTS
    size,       \* bb->size, the bufferSize of initBuffer
    Inserters,  \* threads that call insertToBuffer
    Removers,   \* threads that call removeFromBuffer
    Pollers,    \* threads that call tryRemoveFromBuffer and isBufferEmpty
    Msgs,       \* messages
    NoMsg,      \* NULL, and the value of a slot malloc left uninitialised
    NoThread    \* the owner of an unlocked mutex

Threads == Inserters \union Removers \union Pollers

ASSUME BufferAssumption ==
    /\ size \in Nat \ {0}
    /\ IsFiniteSet(Threads)
    /\ NoMsg \notin Msgs
    /\ NoThread \notin Threads

VARIABLES
    buffer,          \* bb->buffer
    head,            \* bb->head, the next slot to read
    tail,            \* bb->tail, the next slot to write
    lock,            \* owner of bb->lock
    readSemaphore,   \* value of bb->readSemaphore
    writeSemaphore,  \* value of bb->writeSemaphore
    pc,              \* next statement of every thread
    msg,             \* msg (insert) or msgToReturn (remove) of every thread
    empty            \* the local `empty' of isBufferEmpty

shared == <<buffer, head, tail, lock, readSemaphore, writeSemaphore>>
vars == <<buffer, head, tail, lock, readSemaphore, writeSemaphore, pc, msg, empty>>

Slots == 0..(size - 1)

InsertPc == {"ins_wait", "ins_lock", "ins_store", "ins_advance", "ins_unlock", "ins_post"}
RemovePc == {"rem_wait", "try_wait", "rem_lock", "rem_read", "rem_advance",
             "rem_unlock", "rem_post"}
EmptyPc  == {"emp_lock", "emp_read", "emp_unlock"}
PcValues == {"idle"} \union InsertPc \union RemovePc \union EmptyPc

Goto(t, from, to) ==
    /\ pc[t] = from
    /\ pc' = [pc EXCEPT ![t] = to]

-----------------------------------------------------------------------------
(* initBuffer *)
Init ==
    /\ buffer = [s \in Slots |-> NoMsg]
    /\ head = 0
    /\ tail = 0
    /\ lock = NoThread
    /\ readSemaphore = 0
    /\ writeSemaphore = size
    /\ pc = [t \in Threads |-> "idle"]
    /\ msg = [t \in Threads |-> NoMsg]
    /\ empty = [t \in Threads |-> FALSE]

-----------------------------------------------------------------------------
(* pthread_mutex_lock(&bb->lock) and pthread_mutex_unlock(&bb->lock). *)
MutexLock(t, from, to) ==
    /\ lock = NoThread
    /\ lock' = t
    /\ Goto(t, from, to)
    /\ UNCHANGED <<buffer, head, tail, readSemaphore, writeSemaphore, msg, empty>>

MutexUnlock(t, from, to) ==
    /\ lock' = NoThread
    /\ Goto(t, from, to)
    /\ UNCHANGED <<buffer, head, tail, readSemaphore, writeSemaphore, msg, empty>>

-----------------------------------------------------------------------------
(* insertToBuffer *)
InsertCall(t, m) ==
    /\ Goto(t, "idle", "ins_wait")
    /\ msg' = [msg EXCEPT ![t] = m]
    /\ UNCHANGED <<shared, empty>>

InsertWait(t) ==
    /\ writeSemaphore > 0
    /\ writeSemaphore' = writeSemaphore - 1
    /\ Goto(t, "ins_wait", "ins_lock")
    /\ UNCHANGED <<buffer, head, tail, lock, readSemaphore, msg, empty>>

InsertLock(t) == MutexLock(t, "ins_lock", "ins_store")

(* Mutant: the message is stored at head. *)
InsertStoreAtHead(t) ==
    /\ Goto(t, "ins_store", "ins_advance")
    /\ buffer' = [buffer EXCEPT ![head] = msg[t]]
    /\ UNCHANGED <<head, tail, lock, readSemaphore, writeSemaphore, msg, empty>>

InsertStore(t) ==
    /\ Goto(t, "ins_store", "ins_advance")
    /\ buffer' = [buffer EXCEPT ![tail] = msg[t]]
    /\ UNCHANGED <<head, tail, lock, readSemaphore, writeSemaphore, msg, empty>>

(* Mutant: tail does not wrap around. *)
InsertAdvanceNoWrap(t) ==
    /\ Goto(t, "ins_advance", "ins_unlock")
    /\ tail' = tail + 1
    /\ UNCHANGED <<buffer, head, lock, readSemaphore, writeSemaphore, msg, empty>>

InsertAdvance(t) ==
    /\ Goto(t, "ins_advance", "ins_unlock")
    /\ tail' = (tail + 1) % size
    /\ UNCHANGED <<buffer, head, lock, readSemaphore, writeSemaphore, msg, empty>>

InsertUnlock(t) == MutexUnlock(t, "ins_unlock", "ins_post")

InsertPost(t) ==
    /\ Goto(t, "ins_post", "idle")
    /\ readSemaphore' = readSemaphore + 1
    /\ msg' = [msg EXCEPT ![t] = NoMsg]
    /\ UNCHANGED <<buffer, head, tail, lock, writeSemaphore, empty>>

Insert(t) ==
    \/ \E m \in Msgs : InsertCall(t, m)
    \/ InsertWait(t)  \/ InsertLock(t)    \/ InsertStore(t)
    \/ InsertAdvance(t) \/ InsertUnlock(t) \/ InsertPost(t)

-----------------------------------------------------------------------------
(* removeFromBuffer, and tryRemoveFromBuffer from its second statement on. *)
RemoveCall(t) ==
    /\ Goto(t, "idle", "rem_wait")
    /\ UNCHANGED <<shared, msg, empty>>

RemoveWait(t) ==
    /\ readSemaphore > 0
    /\ readSemaphore' = readSemaphore - 1
    /\ Goto(t, "rem_wait", "rem_lock")
    /\ UNCHANGED <<buffer, head, tail, lock, writeSemaphore, msg, empty>>

(* Mutant: the critical section of a remove is entered without the mutex. *)
RemoveLockSkipped(t) ==
    /\ Goto(t, "rem_lock", "rem_read")
    /\ UNCHANGED <<shared, msg, empty>>

RemoveLock(t) == MutexLock(t, "rem_lock", "rem_read")

(* Mutant: head is advanced before the message is read. *)
RemoveReadNext(t) ==
    /\ Goto(t, "rem_read", "rem_advance")
    /\ msg' = [msg EXCEPT ![t] = buffer[(head + 1) % size]]
    /\ UNCHANGED <<shared, empty>>

RemoveRead(t) ==
    /\ Goto(t, "rem_read", "rem_advance")
    /\ msg' = [msg EXCEPT ![t] = buffer[head]]
    /\ UNCHANGED <<shared, empty>>

RemoveAdvance(t) ==
    /\ Goto(t, "rem_advance", "rem_unlock")
    /\ head' = (head + 1) % size
    /\ UNCHANGED <<buffer, tail, lock, readSemaphore, writeSemaphore, msg, empty>>

RemoveUnlock(t) == MutexUnlock(t, "rem_unlock", "rem_post")

RemovePost(t) ==
    /\ Goto(t, "rem_post", "idle")
    /\ writeSemaphore' = writeSemaphore + 1
    /\ msg' = [msg EXCEPT ![t] = NoMsg]
    /\ UNCHANGED <<buffer, head, tail, lock, readSemaphore, empty>>

RemoveBody(t) ==
    \/ RemoveLock(t) \/ RemoveRead(t) \/ RemoveAdvance(t)
    \/ RemoveUnlock(t) \/ RemovePost(t)

Remove(t) == RemoveCall(t) \/ RemoveWait(t) \/ RemoveBody(t)

-----------------------------------------------------------------------------
(* tryRemoveFromBuffer: sem_trywait fails, and the call returns NULL, when *)
(* the semaphore is zero.                                                  *)
TryRemoveCall(t) ==
    /\ Goto(t, "idle", "try_wait")
    /\ UNCHANGED <<shared, msg, empty>>

TryRemoveFail(t) ==
    /\ readSemaphore = 0
    /\ Goto(t, "try_wait", "idle")
    /\ UNCHANGED <<shared, msg, empty>>

(* Mutant: sem_getvalue in place of sem_trywait, the permit is not taken. *)
TryRemoveWaitPeek(t) ==
    /\ readSemaphore > 0
    /\ Goto(t, "try_wait", "rem_lock")
    /\ UNCHANGED <<shared, msg, empty>>

TryRemoveWait(t) ==
    /\ readSemaphore > 0
    /\ readSemaphore' = readSemaphore - 1
    /\ Goto(t, "try_wait", "rem_lock")
    /\ UNCHANGED <<buffer, head, tail, lock, writeSemaphore, msg, empty>>

TryRemove(t) ==
    TryRemoveCall(t) \/ TryRemoveFail(t) \/ TryRemoveWait(t) \/ RemoveBody(t)

-----------------------------------------------------------------------------
(* isBufferEmpty *)
EmptyCall(t) ==
    /\ Goto(t, "idle", "emp_lock")
    /\ UNCHANGED <<shared, msg, empty>>

EmptyLock(t) == MutexLock(t, "emp_lock", "emp_read")

EmptyRead(t) ==
    /\ Goto(t, "emp_read", "emp_unlock")
    /\ empty' = [empty EXCEPT ![t] = (head = tail)]
    /\ UNCHANGED <<shared, msg>>

EmptyUnlock(t) ==
    /\ Goto(t, "emp_unlock", "idle")
    /\ lock' = NoThread
    /\ empty' = [empty EXCEPT ![t] = FALSE]
    /\ UNCHANGED <<buffer, head, tail, readSemaphore, writeSemaphore, msg>>

IsBufferEmpty(t) == EmptyCall(t) \/ EmptyLock(t) \/ EmptyRead(t) \/ EmptyUnlock(t)

-----------------------------------------------------------------------------
Next ==
    \/ \E t \in Inserters : Insert(t)
    \/ \E t \in Removers : Remove(t)
    \/ \E t \in Pollers : TryRemove(t) \/ IsBufferEmpty(t)

Spec == Init /\ [][Next]_vars

-----------------------------------------------------------------------------
(* Derived state: which permits the threads hold, and what is stored.      *)
At(locs) == {t \in Threads : pc[t] \in locs}

Reserving == {"ins_lock", "ins_store", "ins_advance"}  \* took a write permit, has not stored
Publishing == {"ins_unlock", "ins_post"}               \* has stored, has not posted
Claiming == {"rem_lock", "rem_read", "rem_advance"}    \* took a read permit, has not removed
Releasing == {"rem_unlock", "rem_post"}                \* has removed, has not posted

Critical == {"ins_store", "ins_advance", "ins_unlock",
             "rem_read", "rem_advance", "rem_unlock", "emp_read", "emp_unlock"}

(* The messages stored and not yet removed, counted from the read side,    *)
(* and the slots left, counted from the write side.                        *)
Filled == readSemaphore + Cardinality(At(Claiming)) + Cardinality(At(Publishing))
Vacant == writeSemaphore + Cardinality(At(Reserving)) + Cardinality(At(Releasing))

(* The slot of the i-th oldest stored message. *)
SlotOf(i) == IF head + i < size THEN head + i ELSE head + i - size

Contents == [i \in 1..Filled |-> buffer[SlotOf(i - 1)]]

-----------------------------------------------------------------------------
(* The types of the variables. *)
TypeOK ==
    /\ buffer \in [Slots -> Msgs \union {NoMsg}]
    /\ head \in Slots
    /\ tail \in Slots
    /\ lock \in Threads \union {NoThread}
    /\ readSemaphore \in Nat
    /\ writeSemaphore \in Nat
    /\ pc \in [Threads -> PcValues]
    /\ msg \in [Threads -> Msgs \union {NoMsg}]
    /\ empty \in [Threads -> BOOLEAN]

(* bb->lock: at most one thread is between pthread_mutex_lock and          *)
(* pthread_mutex_unlock, and it is the owner the mutex records.            *)
MutexHeld == \A t \in Threads : pc[t] \in Critical <=> lock = t

(* The two semaphores and the permits in flight between sem_wait and the   *)
(* sem_post of the other side always add up to bb->size: no interleaving   *)
(* loses or duplicates a permit, so the array is never overrun.            *)
PermitsConserved == Filled + Vacant = size

(* bb->head and bb->tail agree with the semaphores: tail is the slot that  *)
(* follows the last stored message.                                        *)
PointersAgree ==
    tail = IF head + Filled < size THEN head + Filled ELSE head + Filled - size

(* Every stored slot holds a message its inserter wrote, and the message a *)
(* thread is about to publish is the one in the slot at tail: what a       *)
(* remover returns is never an uninitialised pointer.                      *)
StoredSlotsWritten ==
    /\ \A i \in 0..(size - 1) : i < Filled => buffer[SlotOf(i)] \in Msgs
    /\ \A t \in Threads : pc[t] = "ins_advance" => buffer[tail] = msg[t]

(* A thread inside insertToBuffer carries the message it was called with.  *)
MsgInHand == \A t \in Threads : pc[t] \in InsertPc => msg[t] \in Msgs

(* The inductive invariant that the proofs of BoundedBufferProofs rest on. *)
IndInv ==
    /\ TypeOK
    /\ MutexHeld
    /\ PermitsConserved
    /\ PointersAgree
    /\ MsgInHand
    /\ StoredSlotsWritten

(* The answer isBufferEmpty computes under the lock: 1 exactly when no     *)
(* message is stored or every slot is (its comment names only the first).  *)
(* An answer of 0 therefore always means that a message is there.          *)
EmptyAnswer ==
    \A t \in Threads : pc[t] = "emp_unlock" => (empty[t] <=> Filled \in {0, size})

-----------------------------------------------------------------------------
(* The buffer implements a FIFO queue: an insert takes effect when tail    *)
(* advances, a remove when head does.                                      *)
Fifo == INSTANCE FifoQueue WITH
    Capacity <- size,
    Thread <- Threads,
    Msg <- Msgs,
    Nothing <- NoMsg,
    q <- Contents,
    offered <- [t \in Threads |->
                  IF pc[t] \in {"ins_wait", "ins_lock", "ins_store", "ins_advance"}
                  THEN msg[t] ELSE NoMsg],
    taken <- [t \in Threads |->
                  IF pc[t] \in {"rem_unlock", "rem_post"} THEN msg[t] ELSE NoMsg]

(* Whatever the interleaving, the circular array behaves as the FIFO queue *)
(* of FifoQueue: messages come out once each, in the order they went in.   *)
ImplementsFifo == Fifo!FifoSpec

=============================================================================
