------------------------ MODULE BoundedBufferProofs ------------------------
(* Proofs about BoundedBuffer, for every size, thread set and message set. *)
EXTENDS BoundedBuffer, FiniteSetTheorems, TLAPS

-----------------------------------------------------------------------------
(* Advancing an index of the circular array by one, as the code writes it. *)
LEMMA Advance ==
    ASSUME NEW n \in Nat \ {0}, NEW x \in 0..(n - 1)
    PROVE  (x + 1) % n = IF x + 1 = n THEN 0 ELSE x + 1
  OBVIOUS

(* Moving thread t to location l adds t to, or removes it from, the set of *)
(* threads at the locations L.                                             *)
LEMMA CountAfterMove ==
    ASSUME NEW P \in [Threads -> PcValues], NEW t \in Threads, NEW l \in PcValues, NEW L
    PROVE  LET before == {u \in Threads : P[u] \in L}
               after  == {u \in Threads : [P EXCEPT ![t] = l][u] \in L}
           IN  /\ Cardinality(before) \in Nat
               /\ Cardinality(after) \in Nat
               /\ (P[t] \in L <=> l \in L) => Cardinality(after) = Cardinality(before)
               /\ P[t] \in L /\ l \notin L => Cardinality(after) = Cardinality(before) - 1
               /\ P[t] \notin L /\ l \in L => Cardinality(after) = Cardinality(before) + 1
  <1> DEFINE before == {u \in Threads : P[u] \in L}
             after  == {u \in Threads : [P EXCEPT ![t] = l][u] \in L}
  <1>1. IsFiniteSet(before) /\ IsFiniteSet(after)
    BY BufferAssumption, FS_Subset
  <1>2. Cardinality(before) \in Nat /\ Cardinality(after) \in Nat
    BY <1>1, FS_CardinalityType
  <1>3. ASSUME P[t] \in L <=> l \in L PROVE after = before
    BY <1>3
  <1>4. ASSUME P[t] \in L, l \notin L
        PROVE  Cardinality(after) = Cardinality(before) - 1
    <2>1. after = before \ {t} /\ t \in before
      BY <1>4
    <2> HIDE DEF before, after
    <2> QED BY <2>1, <1>1, FS_RemoveElement
  <1>5. ASSUME P[t] \notin L, l \in L
        PROVE  Cardinality(after) = Cardinality(before) + 1
    <2>1. after = before \union {t} /\ t \notin before
      BY <1>5
    <2> HIDE DEF before, after
    <2> QED BY <2>1, <1>1, FS_AddElement
  <1> QED BY <1>2, <1>3, <1>4, <1>5

(* The same fact for a step of the specification. *)
LEMMA CountAfterGoto ==
    ASSUME TypeOK, NEW t \in Threads, NEW from, NEW to \in PcValues, Goto(t, from, to),
           NEW CONSTANT L
    PROVE  /\ Cardinality(At(L)) \in Nat
           /\ Cardinality(At(L)') \in Nat
           /\ (from \in L <=> to \in L) => Cardinality(At(L)') = Cardinality(At(L))
           /\ from \in L /\ to \notin L => Cardinality(At(L)') = Cardinality(At(L)) - 1
           /\ from \notin L /\ to \in L => Cardinality(At(L)') = Cardinality(At(L)) + 1
  <1>1. /\ pc \in [Threads -> PcValues]
        /\ pc[t] = from
        /\ pc' = [pc EXCEPT ![t] = to]
    BY DEF TypeOK, Goto
  <1>2. /\ At(L) = {u \in Threads : pc[u] \in L}
        /\ At(L)' = {u \in Threads : [pc EXCEPT ![t] = to][u] \in L}
    BY <1>1 DEF At
  <1> QED BY <1>1, <1>2, CountAfterMove

(* How a step that moves t from one location to another changes the number *)
(* of threads in each of the four permit-holding regions.                  *)
LEMMA RegionCounts ==
    ASSUME TypeOK, NEW t \in Threads, NEW from, NEW to \in PcValues, Goto(t, from, to)
    PROVE  \A L \in {Reserving, Publishing, Claiming, Releasing} :
             /\ Cardinality(At(L)) \in Nat
             /\ Cardinality(At(L)') =
                  IF from \in L /\ to \notin L THEN Cardinality(At(L)) - 1
                  ELSE IF from \notin L /\ to \in L THEN Cardinality(At(L)) + 1
                  ELSE Cardinality(At(L))
  BY CountAfterGoto

-----------------------------------------------------------------------------
(* What every step does to the number of stored messages and of vacant     *)
(* slots: only the advance of tail or head changes them, by one.           *)
LEMMA Effect ==
    ASSUME TypeOK, NEW t \in Threads
    PROVE  /\ Filled \in Nat
           /\ Vacant \in Nat
           /\ InsertAdvance(t) => Filled' = Filled + 1 /\ Vacant' = Vacant - 1
           /\ RemoveAdvance(t) => Filled' = Filled - 1 /\ Vacant' = Vacant + 1
           /\ (\/ \E m \in Msgs : InsertCall(t, m)
               \/ InsertWait(t) \/ InsertLock(t) \/ InsertStore(t)
               \/ InsertUnlock(t) \/ InsertPost(t)
               \/ RemoveCall(t) \/ RemoveWait(t) \/ RemoveLock(t) \/ RemoveRead(t)
               \/ RemoveUnlock(t) \/ RemovePost(t)
               \/ TryRemoveCall(t) \/ TryRemoveFail(t) \/ TryRemoveWait(t)
               \/ IsBufferEmpty(t))
              => Filled' = Filled /\ Vacant' = Vacant
  <1> DEFINE locs == {Reserving, Publishing, Claiming, Releasing}
  <1>0. \A L \in locs : Cardinality(At(L)) \in Nat
    <2> SUFFICES ASSUME NEW L \in locs PROVE IsFiniteSet(At(L))
      BY FS_CardinalityType
    <2> QED BY BufferAssumption, FS_Subset DEF At
  <1>1. Filled \in Nat /\ Vacant \in Nat
    BY <1>0 DEF Filled, Vacant, TypeOK
  <1> USE <1>0 DEF Filled, Vacant, TypeOK, shared,
              PcValues, InsertPc, RemovePc, EmptyPc,
              Reserving, Publishing, Claiming, Releasing
  <1>2. InsertAdvance(t) => Filled' = Filled + 1 /\ Vacant' = Vacant - 1
    BY RegionCounts DEF InsertAdvance
  <1>3. RemoveAdvance(t) => Filled' = Filled - 1 /\ Vacant' = Vacant + 1
    BY RegionCounts DEF RemoveAdvance
  <1>4. ASSUME NEW m \in Msgs, InsertCall(t, m) PROVE Filled' = Filled /\ Vacant' = Vacant
    BY <1>4, RegionCounts DEF InsertCall
  <1>5. InsertWait(t) \/ InsertLock(t) \/ InsertStore(t) => Filled' = Filled /\ Vacant' = Vacant
    BY RegionCounts DEF InsertWait, InsertLock, InsertStore, MutexLock
  <1>6. InsertUnlock(t) \/ InsertPost(t) => Filled' = Filled /\ Vacant' = Vacant
    BY RegionCounts DEF InsertUnlock, InsertPost, MutexUnlock
  <1>7. RemoveCall(t) \/ RemoveWait(t) \/ RemoveLock(t) \/ RemoveRead(t)
          => Filled' = Filled /\ Vacant' = Vacant
    BY RegionCounts DEF RemoveCall, RemoveWait, RemoveLock, RemoveRead, MutexLock
  <1>8. RemoveUnlock(t) \/ RemovePost(t) => Filled' = Filled /\ Vacant' = Vacant
    BY RegionCounts DEF RemoveUnlock, RemovePost, MutexUnlock
  <1>9. TryRemoveCall(t) \/ TryRemoveFail(t) \/ TryRemoveWait(t)
          => Filled' = Filled /\ Vacant' = Vacant
    BY RegionCounts DEF TryRemoveCall, TryRemoveFail, TryRemoveWait
  <1>10. IsBufferEmpty(t) => Filled' = Filled /\ Vacant' = Vacant
    BY RegionCounts DEF IsBufferEmpty, EmptyCall, EmptyLock, EmptyRead, EmptyUnlock, MutexLock
  <1> HIDE DEF Filled, Vacant
  <1> QED BY <1>1, <1>2, <1>3, <1>4, <1>5, <1>6, <1>7, <1>8, <1>9, <1>10

(* A thread between sem_wait(&writeSemaphore) and the advance of tail has  *)
(* a vacant slot; one between sem_wait(&readSemaphore) and the advance of  *)
(* head has a stored message.                                              *)
LEMMA PermitInHand ==
    ASSUME TypeOK, NEW t \in Threads
    PROVE  /\ pc[t] \in Reserving => Vacant > 0
           /\ pc[t] \in Claiming => Filled > 0
  <1>1. \A L \in {Reserving, Publishing, Claiming, Releasing} :
           /\ Cardinality(At(L)) \in Nat
           /\ pc[t] \in L => Cardinality(At(L)) # 0
    <2> SUFFICES ASSUME NEW L
                 PROVE  /\ Cardinality(At(L)) \in Nat
                        /\ pc[t] \in L => Cardinality(At(L)) # 0
      OBVIOUS
    <2>1. IsFiniteSet(At(L))
      BY BufferAssumption, FS_Subset DEF At
    <2>2. pc[t] \in L => At(L) # {}
      BY DEF At
    <2> QED BY <2>1, <2>2, FS_EmptySet, FS_CardinalityType
  <1> QED BY <1>1 DEF Vacant, Filled, TypeOK

-----------------------------------------------------------------------------
(* The steps of one thread. *)
Step(t) ==
    \/ \E m \in Msgs : InsertCall(t, m)
    \/ InsertWait(t) \/ InsertLock(t) \/ InsertStore(t)
    \/ InsertAdvance(t) \/ InsertUnlock(t) \/ InsertPost(t)
    \/ RemoveCall(t) \/ RemoveWait(t) \/ RemoveLock(t) \/ RemoveRead(t)
    \/ RemoveAdvance(t) \/ RemoveUnlock(t) \/ RemovePost(t)
    \/ TryRemoveCall(t) \/ TryRemoveFail(t) \/ TryRemoveWait(t)
    \/ IsBufferEmpty(t)

LEMMA NextIsStep == Next => \E t \in Threads : Step(t)
  BY DEF Next, Step, Threads, Insert, Remove, RemoveBody, TryRemove

(* Type correctness: the indices stay within the array and the semaphores  *)
(* of BoundedBuffer.c never go below zero.                                 *)
THEOREM TypeCorrect == Spec => []TypeOK
  <1>1. Init => TypeOK
    BY BufferAssumption DEF Init, TypeOK, Slots, PcValues
  <1>2. TypeOK /\ [Next]_vars => TypeOK'
    <2> SUFFICES ASSUME TypeOK, NEW t \in Threads, Step(t) PROVE TypeOK'
      BY NextIsStep DEF vars, TypeOK
    <2> USE BufferAssumption DEF TypeOK, Goto, shared, Slots, PcValues, InsertPc, RemovePc, EmptyPc
    <2>1. ASSUME NEW m \in Msgs, InsertCall(t, m) PROVE TypeOK'
      BY <2>1 DEF InsertCall
    <2>2. CASE InsertWait(t) \/ InsertLock(t) \/ InsertStore(t)
      BY <2>2 DEF InsertWait, InsertLock, InsertStore, MutexLock
    <2>3. CASE InsertAdvance(t)
      BY <2>3, Advance DEF InsertAdvance
    <2>4. CASE InsertUnlock(t) \/ InsertPost(t)
      BY <2>4 DEF InsertUnlock, InsertPost, MutexUnlock
    <2>5. CASE RemoveCall(t) \/ RemoveWait(t) \/ RemoveLock(t) \/ RemoveRead(t)
      BY <2>5 DEF RemoveCall, RemoveWait, RemoveLock, RemoveRead, MutexLock
    <2>6. CASE RemoveAdvance(t)
      BY <2>6, Advance DEF RemoveAdvance
    <2>7. CASE RemoveUnlock(t) \/ RemovePost(t)
      BY <2>7 DEF RemoveUnlock, RemovePost, MutexUnlock
    <2>8. CASE TryRemoveCall(t) \/ TryRemoveFail(t) \/ TryRemoveWait(t)
      BY <2>8 DEF TryRemoveCall, TryRemoveFail, TryRemoveWait
    <2>9. CASE IsBufferEmpty(t)
      BY <2>9 DEF IsBufferEmpty, EmptyCall, EmptyLock, EmptyRead, EmptyUnlock, MutexLock
    <2> QED BY <2>1, <2>2, <2>3, <2>4, <2>5, <2>6, <2>7, <2>8, <2>9 DEF Step
  <1> QED BY <1>1, <1>2, PTL DEF Spec

-----------------------------------------------------------------------------
(* Every step keeps the mutex and the program counters consistent. *)
LEMMA MutexStep ==
    ASSUME TypeOK, MutexHeld, NEW t \in Threads, Step(t)
    PROVE  MutexHeld'
  <1> USE BufferAssumption DEF TypeOK, MutexHeld, Critical, Goto, shared
  <1>1. ASSUME NEW m \in Msgs, InsertCall(t, m) PROVE MutexHeld'
    BY <1>1 DEF InsertCall
  <1>2. CASE InsertWait(t) \/ InsertLock(t) \/ InsertStore(t) \/ InsertAdvance(t)
    BY <1>2 DEF InsertWait, InsertLock, InsertStore, InsertAdvance, MutexLock
  <1>3. CASE InsertUnlock(t) \/ InsertPost(t)
    BY <1>3 DEF InsertUnlock, InsertPost, MutexUnlock
  <1>4. CASE RemoveCall(t) \/ RemoveWait(t) \/ RemoveLock(t) \/ RemoveRead(t)
    BY <1>4 DEF RemoveCall, RemoveWait, RemoveLock, RemoveRead, MutexLock
  <1>5. CASE RemoveAdvance(t) \/ RemoveUnlock(t) \/ RemovePost(t)
    BY <1>5 DEF RemoveAdvance, RemoveUnlock, RemovePost, MutexUnlock
  <1>6. CASE TryRemoveCall(t) \/ TryRemoveFail(t) \/ TryRemoveWait(t)
    BY <1>6 DEF TryRemoveCall, TryRemoveFail, TryRemoveWait
  <1>7. CASE IsBufferEmpty(t)
    BY <1>7 DEF IsBufferEmpty, EmptyCall, EmptyLock, EmptyRead, EmptyUnlock, MutexLock
  <1> QED BY <1>1, <1>2, <1>3, <1>4, <1>5, <1>6, <1>7 DEF Step

(* Every step keeps the message of an insert in the inserter's hand. *)
LEMMA MsgStep ==
    ASSUME TypeOK, MsgInHand, NEW t \in Threads, Step(t)
    PROVE  MsgInHand'
  <1> USE DEF TypeOK, MsgInHand, InsertPc, Goto, shared
  <1>1. ASSUME NEW m \in Msgs, InsertCall(t, m) PROVE MsgInHand'
    BY <1>1 DEF InsertCall
  <1>2. CASE InsertWait(t) \/ InsertLock(t) \/ InsertStore(t) \/ InsertAdvance(t)
    BY <1>2 DEF InsertWait, InsertLock, InsertStore, InsertAdvance, MutexLock
  <1>3. CASE InsertUnlock(t) \/ InsertPost(t)
    BY <1>3 DEF InsertUnlock, InsertPost, MutexUnlock
  <1>4. CASE RemoveCall(t) \/ RemoveWait(t) \/ RemoveLock(t) \/ RemoveRead(t)
    BY <1>4 DEF RemoveCall, RemoveWait, RemoveLock, RemoveRead, MutexLock
  <1>5. CASE RemoveAdvance(t) \/ RemoveUnlock(t) \/ RemovePost(t)
    BY <1>5 DEF RemoveAdvance, RemoveUnlock, RemovePost, MutexUnlock
  <1>6. CASE TryRemoveCall(t) \/ TryRemoveFail(t) \/ TryRemoveWait(t)
    BY <1>6 DEF TryRemoveCall, TryRemoveFail, TryRemoveWait
  <1>7. CASE IsBufferEmpty(t)
    BY <1>7 DEF IsBufferEmpty, EmptyCall, EmptyLock, EmptyRead, EmptyUnlock, MutexLock
  <1> QED BY <1>1, <1>2, <1>3, <1>4, <1>5, <1>6, <1>7 DEF Step

(* The steps that leave the array and both indices alone. *)
Quiet(t) ==
    \/ \E m \in Msgs : InsertCall(t, m)
    \/ InsertWait(t) \/ InsertLock(t) \/ InsertUnlock(t) \/ InsertPost(t)
    \/ RemoveCall(t) \/ RemoveWait(t) \/ RemoveLock(t) \/ RemoveRead(t)
    \/ RemoveUnlock(t) \/ RemovePost(t)
    \/ TryRemoveCall(t) \/ TryRemoveFail(t) \/ TryRemoveWait(t)
    \/ IsBufferEmpty(t)

LEMMA QuietFrame ==
    ASSUME TypeOK, NEW t \in Threads, Quiet(t)
    PROVE  /\ UNCHANGED <<buffer, head, tail>>
           /\ \A u \in Threads : pc'[u] = "ins_advance" => pc[u] = "ins_advance" /\ msg'[u] = msg[u]
  <1> USE DEF TypeOK, Goto, shared
  <1>1. ASSUME NEW m \in Msgs, InsertCall(t, m)
        PROVE  /\ UNCHANGED <<buffer, head, tail>>
               /\ \A u \in Threads : pc'[u] = "ins_advance" =>
                     pc[u] = "ins_advance" /\ msg'[u] = msg[u]
    BY <1>1 DEF InsertCall
  <1>2. CASE InsertWait(t) \/ InsertLock(t) \/ InsertUnlock(t) \/ InsertPost(t)
    BY <1>2 DEF InsertWait, InsertLock, InsertUnlock, InsertPost, MutexLock, MutexUnlock
  <1>3. CASE RemoveCall(t) \/ RemoveWait(t) \/ RemoveLock(t) \/ RemoveRead(t)
    BY <1>3 DEF RemoveCall, RemoveWait, RemoveLock, RemoveRead, MutexLock
  <1>4. CASE RemoveUnlock(t) \/ RemovePost(t)
    BY <1>4 DEF RemoveUnlock, RemovePost, MutexUnlock
  <1>5. CASE TryRemoveCall(t) \/ TryRemoveFail(t) \/ TryRemoveWait(t)
    BY <1>5 DEF TryRemoveCall, TryRemoveFail, TryRemoveWait
  <1>6. CASE IsBufferEmpty(t)
    BY <1>6 DEF IsBufferEmpty, EmptyCall, EmptyLock, EmptyRead, EmptyUnlock, MutexLock
  <1> QED BY <1>1, <1>2, <1>3, <1>4, <1>5, <1>6 DEF Quiet

(* IndInv is inductive. *)
LEMMA IndInvStep ==
    ASSUME IndInv, TypeOK', NEW t \in Threads, Step(t)
    PROVE  IndInv'
  <1> USE DEF IndInv
  <1>1. MutexHeld' /\ MsgInHand'
    BY MutexStep, MsgStep
  <1>2. Filled \in Nat /\ Vacant \in Nat /\ size \in Nat \ {0} /\ head \in Slots /\ tail \in Slots
    BY Effect, BufferAssumption DEF TypeOK
  <1>3. CASE Quiet(t)
    <2>1. Filled' = Filled /\ Vacant' = Vacant
      BY <1>3, Effect DEF Quiet
    <2>2. UNCHANGED <<buffer, head, tail>>
      BY <1>3, QuietFrame
    <2>3. PermitsConserved' /\ PointersAgree'
      BY <2>1, <2>2 DEF PermitsConserved, PointersAgree
    <2>4. StoredSlotsWritten'
      BY <1>3, <2>1, <2>2, QuietFrame DEF StoredSlotsWritten, SlotOf
    <2> QED BY <1>1, <2>3, <2>4
  <1>4. CASE InsertStore(t)
    <2>1. Filled' = Filled /\ Vacant' = Vacant
      BY <1>4, Effect
    <2>2. PermitsConserved' /\ PointersAgree'
      BY <1>4, <2>1 DEF PermitsConserved, PointersAgree, InsertStore
    <2>3. pc[t] = "ins_store" /\ msg[t] \in Msgs
      BY <1>4 DEF InsertStore, Goto, MsgInHand, InsertPc
    <2>4. \A u \in Threads : pc'[u] = "ins_advance" => u = t
      BY <1>1, <1>4, <2>3 DEF MutexHeld, Critical, InsertStore, Goto, TypeOK
    <2>5. buffer' = [buffer EXCEPT ![tail] = msg[t]] /\ UNCHANGED <<head, tail, msg>>
      BY <1>4 DEF InsertStore
    <2>6. \A i \in 0..(size - 1) : SlotOf(i) \in Slots
      BY <1>2 DEF SlotOf, Slots
    <2>7. StoredSlotsWritten'
      BY <1>2, <2>1, <2>3, <2>4, <2>5, <2>6 DEF StoredSlotsWritten, SlotOf, TypeOK
    <2> QED BY <1>1, <2>2, <2>7
  <1>5. CASE InsertAdvance(t)
    <2>1. Filled' = Filled + 1 /\ Vacant' = Vacant - 1
      BY <1>5, Effect
    <2>2. Filled < size
      BY <1>2, <1>5, PermitInHand DEF PermitsConserved, InsertAdvance, Goto, Reserving
    <2>3. tail' = (IF tail + 1 = size THEN 0 ELSE tail + 1) /\ UNCHANGED <<buffer, head, msg>>
      BY <1>2, <1>5, Advance DEF InsertAdvance, Slots
    <2>4. PermitsConserved' /\ PointersAgree'
      BY <1>2, <2>1, <2>2, <2>3 DEF PermitsConserved, PointersAgree, Slots
    <2>5. buffer[tail] \in Msgs /\ tail = SlotOf(Filled)
      BY <1>5 DEF InsertAdvance, Goto, StoredSlotsWritten, MsgInHand, InsertPc,
                  PointersAgree, SlotOf
    <2>6. \A u \in Threads : pc'[u] # "ins_advance"
      BY <1>1, <1>5 DEF MutexHeld, Critical, InsertAdvance, Goto, TypeOK
    <2>7. StoredSlotsWritten'
      BY <1>2, <2>1, <2>2, <2>3, <2>5, <2>6 DEF StoredSlotsWritten, SlotOf
    <2> QED BY <1>1, <2>4, <2>7
  <1>6. CASE RemoveAdvance(t)
    <2>1. Filled' = Filled - 1 /\ Vacant' = Vacant + 1 /\ Filled > 0
      BY <1>6, Effect, PermitInHand DEF RemoveAdvance, Goto, Claiming
    <2>2. head' = (IF head + 1 = size THEN 0 ELSE head + 1) /\ UNCHANGED <<buffer, tail, msg>>
      BY <1>2, <1>6, Advance DEF RemoveAdvance, Slots
    <2>3. PermitsConserved' /\ PointersAgree'
      BY <1>2, <2>1, <2>2 DEF PermitsConserved, PointersAgree, Slots
    <2>4. \A u \in Threads : pc'[u] # "ins_advance"
      BY <1>1, <1>6 DEF MutexHeld, Critical, RemoveAdvance, Goto, TypeOK
    <2>5. \A i \in 0..(size - 1) : i < Filled' => buffer'[SlotOf(i)'] \in Msgs
      <3> SUFFICES ASSUME NEW i \in 0..(size - 1), i < Filled'
                   PROVE  buffer[SlotOf(i)'] \in Msgs
        BY <2>2
      <3>1. i + 1 \in 0..(size - 1) /\ i + 1 < Filled
        BY <1>2, <2>1 DEF PermitsConserved
      <3>2. SlotOf(i)' = SlotOf(i + 1)
        BY <1>2, <2>2, <3>1 DEF SlotOf, Slots
      <3> QED BY <3>1, <3>2 DEF StoredSlotsWritten
    <2>6. StoredSlotsWritten'
      BY <2>4, <2>5 DEF StoredSlotsWritten
    <2> QED BY <1>1, <2>3, <2>6
  <1> QED BY <1>3, <1>4, <1>5, <1>6 DEF Step, Quiet

(* The invariant of the bounded buffer, for every size and thread set: the *)
(* mutex excludes, no permit is lost or duplicated, the indices agree with *)
(* the semaphores and every stored slot holds an inserted message.         *)
THEOREM BufferInvariant == Spec => []IndInv
  <1>1. Init => IndInv
    <2> SUFFICES ASSUME Init PROVE IndInv
      OBVIOUS
    <2>1. TypeOK
      BY BufferAssumption DEF Init, TypeOK, Slots, PcValues
    <2>2. \A L \in {Reserving, Publishing, Claiming, Releasing} : At(L) = {}
      BY DEF Init, At, Reserving, Publishing, Claiming, Releasing
    <2>3. Filled = 0 /\ Vacant = size
      BY <2>2, FS_EmptySet, BufferAssumption DEF Filled, Vacant, Init
    <2>4. MutexHeld /\ MsgInHand
      BY BufferAssumption DEF Init, MutexHeld, MsgInHand, Critical, InsertPc
    <2>5. PermitsConserved /\ PointersAgree /\ StoredSlotsWritten
      BY <2>3, BufferAssumption
         DEF Init, PermitsConserved, PointersAgree, StoredSlotsWritten
    <2> QED BY <2>1, <2>4, <2>5 DEF IndInv
  <1>2. IndInv /\ TypeOK' /\ [Next]_vars => IndInv'
    <2> SUFFICES ASSUME IndInv, TypeOK', [Next]_vars PROVE IndInv'
      OBVIOUS
    <2>1. CASE Next
      BY <2>1, NextIsStep, IndInvStep
    <2>2. CASE UNCHANGED vars
      BY <2>2 DEF vars, IndInv, TypeOK, MutexHeld, PermitsConserved, PointersAgree, MsgInHand,
                  StoredSlotsWritten, Filled, Vacant, At, SlotOf
    <2> QED BY <2>1, <2>2
  <1> QED BY <1>1, <1>2, TypeCorrect, PTL DEF Spec

-----------------------------------------------------------------------------
(* At most one thread is in a critical section of BoundedBuffer.c, and it  *)
(* is the owner of bb->lock.                                               *)
THEOREM MutualExclusion == Spec => []MutexHeld
  BY BufferInvariant, PTL DEF IndInv

(* The permits of the two semaphores and those in flight always add up to  *)
(* bb->size, for any number of threads: the array is never overrun.        *)
THEOREM NoPermitLost == Spec => []PermitsConserved
  BY BufferInvariant, PTL DEF IndInv

(* removeFromBuffer and tryRemoveFromBuffer never return an uninitialised  *)
(* slot: every slot they may read holds an inserted message.               *)
THEOREM NoUninitialisedSlot == Spec => []StoredSlotsWritten
  BY BufferInvariant, PTL DEF IndInv

(* The answer of isBufferEmpty while the mutex is still held: head and     *)
(* tail are equal exactly when the buffer is empty or full.                *)
THEOREM EmptyOrFull == Spec => []EmptyAnswer
  <1>1. Init => EmptyAnswer
    BY DEF Init, EmptyAnswer
  <1>2. IndInv /\ EmptyAnswer /\ [Next]_vars => EmptyAnswer'
    <2> SUFFICES ASSUME IndInv, EmptyAnswer, [Next]_vars PROVE EmptyAnswer'
      OBVIOUS
    <2>1. CASE UNCHANGED vars
      BY <2>1 DEF vars, EmptyAnswer, Filled, At
    <2>2. CASE Next
      <3>1. PICK t \in Threads : Step(t)
        BY <2>2, NextIsStep
      <3> SUFFICES ASSUME NEW u \in Threads, pc'[u] = "emp_unlock"
                   PROVE  empty'[u] <=> Filled' \in {0, size}
        BY DEF EmptyAnswer
      <3>2. CASE EmptyRead(t) /\ t = u
        <4>1. empty'[u] <=> head = tail
          BY <3>2 DEF EmptyRead, IndInv, TypeOK
        <4>2. Filled' = Filled
          BY <3>2, Effect DEF IndInv, IsBufferEmpty
        <4>3. Filled \in Nat /\ Vacant \in Nat /\ head \in Slots /\ size \in Nat \ {0}
          BY Effect, BufferAssumption DEF IndInv, TypeOK
        <4>4. head = tail <=> Filled \in {0, size}
          BY <4>3 DEF IndInv, PermitsConserved, PointersAgree, Slots
        <4> QED BY <4>1, <4>2, <4>4
      <3>3. CASE ~ (EmptyRead(t) /\ t = u)
        <4> USE DEF IndInv, TypeOK, Goto, shared
        <4>1. pc[u] = "emp_unlock" /\ empty'[u] = empty[u] /\ t # u
          BY <3>1, <3>3
             DEF Step, InsertCall, InsertWait, InsertLock, InsertStore, InsertAdvance,
                 InsertUnlock, InsertPost, RemoveCall, RemoveWait, RemoveLock, RemoveRead,
                 RemoveAdvance, RemoveUnlock, RemovePost, TryRemoveCall, TryRemoveFail,
                 TryRemoveWait, IsBufferEmpty, EmptyCall, EmptyLock, EmptyRead, EmptyUnlock,
                 MutexLock, MutexUnlock
        <4>2. lock = u
          BY <4>1 DEF MutexHeld, Critical
        <4>3. ~ InsertAdvance(t) /\ ~ RemoveAdvance(t)
          BY <4>1, <4>2 DEF MutexHeld, Critical, InsertAdvance, RemoveAdvance
        <4>4. Filled' = Filled
          BY <3>1, <4>3, Effect DEF Step
        <4> QED BY <4>1, <4>4 DEF EmptyAnswer
      <3> QED BY <3>2, <3>3
    <2> QED BY <2>1, <2>2
  <1> QED BY <1>1, <1>2, BufferInvariant, PTL DEF Spec

-----------------------------------------------------------------------------
(* What a remover has in its hand: under the mutex the oldest message, and *)
(* then that message, whatever the inserters do to the slot it was in.     *)
ReadInHand ==
    \A t \in Threads :
      /\ pc[t] = "rem_advance" => msg[t] = buffer[head]
      /\ pc[t] \in {"rem_unlock", "rem_post"} => msg[t] \in Msgs

LEMMA OldestStored ==
    ASSUME IndInv, NEW t \in Threads, pc[t] \in Claiming
    PROVE  /\ Filled \in Nat /\ 0 < Filled /\ SlotOf(0) = head
           /\ buffer[head] \in Msgs
  <1>1. Filled \in Nat /\ Filled > 0 /\ size \in Nat \ {0} /\ head \in Slots
    BY Effect, PermitInHand, BufferAssumption DEF IndInv, TypeOK
  <1>2. SlotOf(0) = head
    BY <1>1 DEF SlotOf, Slots
  <1> QED BY <1>1, <1>2 DEF IndInv, StoredSlotsWritten

LEMMA ReadInHandStep ==
    ASSUME IndInv, ReadInHand, NEW t \in Threads, Step(t)
    PROVE  ReadInHand'
  <1> USE BufferAssumption DEF IndInv, TypeOK, MutexHeld, Critical, ReadInHand, Goto, shared
  <1>1. ASSUME NEW m \in Msgs, InsertCall(t, m) PROVE ReadInHand'
    BY <1>1 DEF InsertCall
  <1>2. CASE InsertWait(t) \/ InsertLock(t) \/ InsertStore(t) \/ InsertAdvance(t)
    BY <1>2 DEF InsertWait, InsertLock, InsertStore, InsertAdvance, MutexLock
  <1>3. CASE InsertUnlock(t) \/ InsertPost(t)
    BY <1>3 DEF InsertUnlock, InsertPost, MutexUnlock
  <1>4. CASE RemoveCall(t) \/ RemoveWait(t) \/ RemoveLock(t) \/ RemoveRead(t)
    BY <1>4 DEF RemoveCall, RemoveWait, RemoveLock, RemoveRead, MutexLock
  <1>5. CASE RemoveAdvance(t)
    <2>1. msg[t] \in Msgs
      BY <1>5, OldestStored DEF RemoveAdvance, Claiming
    <2> QED BY <1>5, <2>1 DEF RemoveAdvance
  <1>6. CASE RemoveUnlock(t) \/ RemovePost(t)
    BY <1>6 DEF RemoveUnlock, RemovePost, MutexUnlock
  <1>7. CASE TryRemoveCall(t) \/ TryRemoveFail(t) \/ TryRemoveWait(t)
    BY <1>7 DEF TryRemoveCall, TryRemoveFail, TryRemoveWait
  <1>8. CASE IsBufferEmpty(t)
    BY <1>8 DEF IsBufferEmpty, EmptyCall, EmptyLock, EmptyRead, EmptyUnlock, MutexLock
  <1> QED BY <1>1, <1>2, <1>3, <1>4, <1>5, <1>6, <1>7, <1>8 DEF Step

(* The refinement mapping of the threads' calls. *)
Offering == {"ins_wait", "ins_lock", "ins_store", "ins_advance"}
Offered == [t \in Threads |-> IF pc[t] \in Offering THEN msg[t] ELSE NoMsg]
Taken == [t \in Threads |-> IF pc[t] \in {"rem_unlock", "rem_post"} THEN msg[t] ELSE NoMsg]

LEMMA FifoDefs ==
    /\ Fifo!FifoInit <=> Contents = <<>> /\ Offered = [t \in Threads |-> NoMsg]
                           /\ Taken = [t \in Threads |-> NoMsg]
    /\ \A t \in Threads, m \in Msgs :
         Fifo!Offer(t, m) <=> /\ Offered[t] = NoMsg
                              /\ Offered' = [Offered EXCEPT ![t] = m]
                              /\ Contents' = Contents /\ Taken' = Taken
    /\ \A t \in Threads :
         /\ Fifo!Enqueue(t) <=> /\ Offered[t] # NoMsg /\ Len(Contents) < size
                                /\ Contents' = Append(Contents, Offered[t])
                                /\ Offered' = [Offered EXCEPT ![t] = NoMsg]
                                /\ Taken' = Taken
         /\ Fifo!Dequeue(t) <=> /\ Taken[t] = NoMsg /\ Contents # <<>>
                                /\ Taken' = [Taken EXCEPT ![t] = Head(Contents)]
                                /\ Contents' = Tail(Contents)
                                /\ Offered' = Offered
         /\ Fifo!Return(t) <=> /\ Taken[t] # NoMsg
                               /\ Taken' = [Taken EXCEPT ![t] = NoMsg]
                               /\ Contents' = Contents /\ Offered' = Offered
    /\ UNCHANGED Fifo!fifoVars <=> Contents' = Contents /\ Offered' = Offered /\ Taken' = Taken
  BY DEF Fifo!FifoInit, Fifo!Offer, Fifo!Enqueue, Fifo!Dequeue, Fifo!Return, Fifo!fifoVars,
         Offered, Taken, Offering

(* What happens to the messages stored: they stay, one is added at the     *)
(* end, or the first is removed.                                           *)
LEMMA ContentsKept ==
    ASSUME Filled' = Filled, UNCHANGED <<buffer, head>>
    PROVE  Contents' = Contents
  BY DEF Contents, SlotOf

LEMMA ContentsStore ==
    ASSUME IndInv, NEW t \in Threads, InsertStore(t), Filled' = Filled
    PROVE  Contents' = Contents
  <1>1. Filled \in Nat /\ Vacant \in Nat /\ Vacant > 0 /\ size \in Nat \ {0}
        /\ head \in Slots /\ tail \in Slots /\ Filled + Vacant = size
    BY Effect, PermitInHand, BufferAssumption
       DEF IndInv, TypeOK, InsertStore, Goto, Reserving, PermitsConserved
  <1>2. \A i \in 1..Filled : SlotOf(i - 1) \in Slots /\ SlotOf(i - 1) # tail
    BY <1>1 DEF SlotOf, Slots, IndInv, PointersAgree
  <1>3. buffer' = [buffer EXCEPT ![tail] = msg[t]] /\ head' = head
    BY DEF InsertStore
  <1>4. \A i \in 1..Filled : buffer'[SlotOf(i - 1)'] = buffer[SlotOf(i - 1)]
    BY <1>2, <1>3 DEF SlotOf, IndInv, TypeOK
  <1> QED BY <1>4 DEF Contents

LEMMA ContentsAppend ==
    ASSUME IndInv, NEW t \in Threads, InsertAdvance(t), Filled' = Filled + 1
    PROVE  Len(Contents) < size /\ Contents' = Append(Contents, msg[t])
  <1>1. Filled \in Nat /\ Vacant \in Nat /\ Vacant > 0 /\ size \in Nat \ {0}
        /\ Filled + Vacant = size /\ UNCHANGED <<buffer, head>>
    BY Effect, PermitInHand, BufferAssumption
       DEF IndInv, TypeOK, InsertAdvance, Goto, Reserving, PermitsConserved
  <1>2. buffer[SlotOf(Filled)] = msg[t]
    BY DEF IndInv, PointersAgree, SlotOf, StoredSlotsWritten, InsertAdvance, Goto
  <1>3. Contents' = [i \in 1..(Filled + 1) |-> buffer[SlotOf(i - 1)]]
    BY <1>1 DEF Contents, SlotOf
  <1> DEFINE f(i) == buffer[SlotOf(i)]
  <1>4. Contents' = [i \in 1..(Filled + 1) |-> f(i - 1)] /\ Contents = [i \in 1..Filled |-> f(i - 1)]
        /\ f(Filled) = msg[t]
    BY <1>2, <1>3 DEF Contents
  <1> HIDE DEF f
  <1>5. Len(Contents) = Filled /\ \A i \in 1..Filled : Contents[i] = f(i - 1)
    BY <1>1, <1>4
  <1>6. Append(Contents, msg[t]) =
          [i \in 1..(Filled + 1) |-> IF i = Filled + 1 THEN msg[t] ELSE Contents[i]]
    BY <1>1, <1>5
  <1>7. \A i \in 1..(Filled + 1) : f(i - 1) = IF i = Filled + 1 THEN msg[t] ELSE Contents[i]
    BY <1>1, <1>4, <1>5
  <1> QED BY <1>1, <1>4, <1>5, <1>6, <1>7

LEMMA ContentsTail ==
    ASSUME IndInv, ReadInHand, NEW t \in Threads, RemoveAdvance(t), Filled' = Filled - 1
    PROVE  Contents # <<>> /\ Head(Contents) = msg[t] /\ Contents' = Tail(Contents)
  <1>1. Filled \in Nat /\ Filled > 0 /\ size \in Nat \ {0} /\ head \in Slots /\ buffer' = buffer
        /\ SlotOf(0) = head /\ Vacant \in Nat /\ Filled + Vacant = size /\ msg[t] = buffer[head]
    BY OldestStored, Effect, BufferAssumption
       DEF IndInv, TypeOK, RemoveAdvance, Goto, Claiming, PermitsConserved, ReadInHand
  <1>2. head' = IF head + 1 = size THEN 0 ELSE head + 1
    BY <1>1, Advance DEF RemoveAdvance, Slots
  <1>3. \A i \in 1..(Filled - 1) : SlotOf(i - 1)' = SlotOf(i)
    BY <1>1, <1>2 DEF SlotOf, Slots
  <1>4. Contents' = [i \in 1..(Filled - 1) |-> buffer[SlotOf(i)]]
    BY <1>1, <1>3 DEF Contents
  <1> DEFINE f(i) == buffer[SlotOf(i)]
  <1>5. Contents' = [i \in 1..(Filled - 1) |-> f(i)] /\ Contents = [i \in 1..Filled |-> f(i - 1)]
        /\ f(0) = msg[t]
    BY <1>1, <1>4 DEF Contents
  <1> HIDE DEF f
  <1>6. Len(Contents) = Filled /\ \A i \in 1..Filled : Contents[i] = f(i - 1)
    BY <1>1, <1>5
  <1>7. Contents # <<>> /\ Head(Contents) = msg[t]
    BY <1>1, <1>5, <1>6
  <1>8. Tail(Contents) = [i \in 1..(Filled - 1) |-> Contents[i + 1]]
    BY <1>1, <1>5, <1>6
  <1>9. \A i \in 1..(Filled - 1) : Contents[i + 1] = f(i)
    BY <1>1, <1>6
  <1>10. Contents' = Tail(Contents)
    <2>1. [i \in 1..(Filled - 1) |-> Contents[i + 1]] = [i \in 1..(Filled - 1) |-> f(i)]
      BY <1>9
    <2> QED BY <1>5, <1>8, <2>1
  <1> QED BY <1>7, <1>10

(* Every step of a thread is a step of the queue, or leaves it unchanged. *)
LEMMA FifoStep ==
    ASSUME IndInv, ReadInHand, NEW t \in Threads, Step(t)
    PROVE  [Fifo!FifoNext]_(Fifo!fifoVars)
  <1> USE DEF IndInv, TypeOK, Goto, shared, Offering, Offered, Taken
  <1>1. ASSUME NEW m \in Msgs, InsertCall(t, m)
        PROVE  Fifo!Offer(t, m)
    <2>1. Contents' = Contents
      BY <1>1, Effect, ContentsKept DEF InsertCall
    <2>2. Offered[t] = NoMsg /\ Offered' = [Offered EXCEPT ![t] = m] /\ Taken' = Taken
      BY <1>1 DEF InsertCall
    <2> QED BY <2>1, <2>2, FifoDefs
  <1>2. CASE InsertAdvance(t)
    <2>1. Len(Contents) < size /\ Contents' = Append(Contents, msg[t])
      BY <1>2, Effect, ContentsAppend
    <2>2. /\ Offered[t] = msg[t] /\ msg[t] # NoMsg
          /\ Offered' = [Offered EXCEPT ![t] = NoMsg] /\ Taken' = Taken
      BY <1>2, BufferAssumption DEF InsertAdvance, MsgInHand, InsertPc
    <2>3. Fifo!Enqueue(t)
      BY <2>1, <2>2, FifoDefs
    <2> QED BY <2>3 DEF Fifo!FifoNext
  <1>3. CASE RemoveAdvance(t)
    <2>1. Contents # <<>> /\ Head(Contents) = msg[t] /\ Contents' = Tail(Contents)
      BY <1>3, Effect, ContentsTail
    <2>2. Taken[t] = NoMsg /\ Taken' = [Taken EXCEPT ![t] = msg[t]] /\ Offered' = Offered
      BY <1>3 DEF RemoveAdvance
    <2>3. Fifo!Dequeue(t)
      BY <2>1, <2>2, FifoDefs
    <2> QED BY <2>3 DEF Fifo!FifoNext
  <1>4. CASE RemovePost(t)
    <2>1. Contents' = Contents
      BY <1>4, Effect, ContentsKept DEF RemovePost
    <2>2. Taken[t] # NoMsg /\ Taken' = [Taken EXCEPT ![t] = NoMsg] /\ Offered' = Offered
      BY <1>4, BufferAssumption DEF RemovePost, ReadInHand
    <2>3. Fifo!Return(t)
      BY <2>1, <2>2, FifoDefs
    <2> QED BY <2>3 DEF Fifo!FifoNext
  <1>5. CASE InsertStore(t)
    <2>1. Contents' = Contents
      BY <1>5, Effect, ContentsStore
    <2>2. Offered' = Offered /\ Taken' = Taken
      BY <1>5 DEF InsertStore
    <2> QED BY <2>1, <2>2, FifoDefs
  <1>6. CASE Quiet(t) /\ ~ RemovePost(t) /\ ~ \E m \in Msgs : InsertCall(t, m)
    <2>1. Contents' = Contents
      <3>1. Filled' = Filled
        BY <1>6, Effect DEF Quiet
      <3> QED BY <1>6, <3>1, QuietFrame, ContentsKept
    <2>2. Offered' = Offered /\ Taken' = Taken
      BY <1>6 DEF Quiet, InsertWait, InsertLock, InsertUnlock, InsertPost, RemoveCall, RemoveWait,
                  RemoveLock, RemoveRead, RemoveUnlock, TryRemoveCall, TryRemoveFail,
                  TryRemoveWait, IsBufferEmpty, EmptyCall, EmptyLock, EmptyRead, EmptyUnlock,
                  MutexLock, MutexUnlock
    <2> QED BY <2>1, <2>2, FifoDefs
  <1> QED BY <1>1, <1>2, <1>3, <1>4, <1>5, <1>6 DEF Step, Quiet, Fifo!FifoNext

(* The circular array of BoundedBuffer.c, with its mutex and semaphores,   *)
(* is a FIFO queue of capacity bb->size, for any number of threads: each   *)
(* message comes out once, in the order in which they went in.             *)
THEOREM BufferIsFifo == Spec => ImplementsFifo
  <1>1. Init => ReadInHand /\ Fifo!FifoInit
    <2> SUFFICES ASSUME Init PROVE ReadInHand /\ Fifo!FifoInit
      OBVIOUS
    <2>1. ReadInHand /\ Offered = [t \in Threads |-> NoMsg] /\ Taken = [t \in Threads |-> NoMsg]
      BY DEF Init, ReadInHand, Offered, Taken, Offering
    <2>2. Filled = 0
      <3>1. At(Claiming) = {} /\ At(Publishing) = {}
        BY DEF Init, At, Claiming, Publishing
      <3> QED BY <3>1, FS_EmptySet DEF Filled, Init
    <2>3. Contents = <<>>
      BY <2>2 DEF Contents
    <2> QED BY <2>1, <2>3, FifoDefs
  <1>2. IndInv /\ ReadInHand /\ [Next]_vars => ReadInHand'
    BY NextIsStep, ReadInHandStep DEF vars, ReadInHand
  <1>3. IndInv /\ ReadInHand /\ [Next]_vars => [Fifo!FifoNext]_(Fifo!fifoVars)
    <2>1. UNCHANGED vars => UNCHANGED Fifo!fifoVars
      BY FifoDefs DEF vars, Contents, Filled, At, SlotOf, Offered, Taken
    <2> QED BY <2>1, NextIsStep, FifoStep
  <1> QED BY <1>1, <1>2, <1>3, BufferInvariant, PTL DEF Spec, ImplementsFifo, Fifo!FifoSpec

=============================================================================
