----------------------------- MODULE FifoQueue -----------------------------
(***************************************************************************)
(* What BoundedBuffer.h promises its callers: a FIFO queue of at most      *)
(* Capacity messages.  A call is pending on a thread from the moment it    *)
(* starts (offered) or takes effect (taken) until it returns; the queue    *)
(* itself changes in one step per operation.                               *)
(***************************************************************************)
EXTENDS Naturals, Sequences

CONSTANTS Capacity,   \* bufferSize of initBuffer
          Thread,     \* the threads that share the queue
          Msg,        \* the messages
          Nothing     \* no message (NULL)

VARIABLES q,          \* the messages in the queue, oldest first
          offered,    \* offered[t]: the message t is inserting, or Nothing
          taken       \* taken[t]: the message t removed and has yet to return

fifoVars == <<q, offered, taken>>

FifoInit ==
    /\ q = <<>>
    /\ offered = [t \in Thread |-> Nothing]
    /\ taken = [t \in Thread |-> Nothing]

(* A thread calls insertToBuffer(m). *)
Offer(t, m) ==
    /\ offered[t] = Nothing
    /\ offered' = [offered EXCEPT ![t] = m]
    /\ UNCHANGED <<q, taken>>

(* The offered message enters the queue, never beyond the capacity. *)
Enqueue(t) ==
    /\ offered[t] # Nothing
    /\ Len(q) < Capacity
    /\ q' = Append(q, offered[t])
    /\ offered' = [offered EXCEPT ![t] = Nothing]
    /\ UNCHANGED taken

(* A thread takes the oldest message. *)
Dequeue(t) ==
    /\ taken[t] = Nothing
    /\ q # <<>>
    /\ taken' = [taken EXCEPT ![t] = Head(q)]
    /\ q' = Tail(q)
    /\ UNCHANGED offered

(* removeFromBuffer or tryRemoveFromBuffer returns the message it took. *)
Return(t) ==
    /\ taken[t] # Nothing
    /\ taken' = [taken EXCEPT ![t] = Nothing]
    /\ UNCHANGED <<q, offered>>

FifoNext ==
    \E t \in Thread :
        \/ \E m \in Msg : Offer(t, m)
        \/ Enqueue(t)
        \/ Dequeue(t)
        \/ Return(t)

FifoSpec == FifoInit /\ [][FifoNext]_fifoVars

=============================================================================
