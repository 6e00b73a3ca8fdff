------------------------- MODULE NewsPipelineProofs -------------------------
(***************************************************************************)
(* The news program of ex3, for any number of producers, any numbers of    *)
(* messages and any sizes of the buffers: permits and contents agree, no   *)
(* message is lost or overtaken, the screen manager ends after the last    *)
(* one, and main destroys no buffer that a thread may touch again.         *)
(***************************************************************************)
EXTENDS NewsPipeline, FiniteSetTheorems, SequenceTheorems, TLAPS

One(P) == IF P THEN 1 ELSE 0

(* What a buffer can hold. *)
Sent == {FINISH_MSG} \union (Producers \X Categories \X Nat)

PcValues == {"new", "run", "ins_put", "ins_post", "test", "try",
             "rem_get", "rem_post", "removed", "exit"}

(* The variables of the calls, of the buffers and of the threads.          *)
CallTypes ==
    /\ pc \in [Threads -> PcValues]
    /\ arg \in [Threads -> Buffers]
    /\ msg \in [Threads -> Sent \union {NULL}]

BufferTypes ==
    /\ queue \in [Buffers -> Seq(Sent)]
    /\ readSemaphore \in [Buffers -> Nat]
    /\ writeSemaphore \in [Buffers -> Nat]

LocalTypes ==
    /\ messages \in Loads
    /\ count \in [Producers -> [Categories -> Nat]]
    /\ i \in 1..(N + 1)
    /\ allProducersDone \in BOOLEAN
    /\ isDone \in [Producers -> BOOLEAN]
    /\ finishes \in 0..3
    /\ doneCount \in 0..3
    /\ shown \in [Producers -> [Categories -> Nat]]

Types == CallTypes /\ BufferTypes /\ LocalTypes

(* Which statements a thread has, and which buffer it is working on.       *)
ProducerRole(p) ==
    LET t == Prod(p) IN
    /\ pc[t] \in {"new", "run", "ins_put", "ins_post", "exit"}
    /\ pc[t] \in {"ins_put", "ins_post"} =>
         /\ arg[t] = Prod(p)
         /\ msg[t] # NULL
         /\ IsNews(msg[t]) => msg[t][1] = p

DispatcherRole ==
    LET t == Dispatcher IN
    /\ pc[t] # "test"
    /\ pc[t] = "try" => i <= N
    /\ pc[t] \in {"rem_get", "rem_post", "removed"} => i <= N /\ arg[t] = Prod(i)
    /\ pc[t] \in {"rem_post", "removed"} =>
         /\ msg[t] # NULL
         /\ IsNews(msg[t]) => msg[t][1] = i
    /\ pc[t] \in {"ins_put", "ins_post"} =>
         \/ /\ IsNews(msg[t])
            /\ i <= N
            /\ msg[t][1] = i
            /\ arg[t] = Editor(msg[t][2])
         \/ /\ msg[t] = FINISH_MSG
            /\ i = N + 1
            /\ finishes \in 1..3
            /\ arg[t] = Editor(finishes - 1)

EditorRole(c) ==
    LET t == Editor(c) IN
    /\ pc[t] # "try"
    /\ pc[t] \in {"rem_get", "rem_post", "removed"} => arg[t] = Editor(c)
    /\ pc[t] \in {"ins_put", "ins_post"} => arg[t] = Screen
    /\ pc[t] \in {"rem_post", "removed", "ins_put", "ins_post", "test"} =>
         /\ msg[t] # NULL
         /\ IsNews(msg[t]) => msg[t][2] = c

ScreenRole ==
    LET t == Screen IN
    /\ pc[t] \in {"new", "run", "rem_get", "rem_post", "removed", "exit"}
    /\ arg[t] = Screen
    /\ pc[t] \in {"rem_post", "removed"} => msg[t] # NULL
    /\ pc[t] = "exit" <=> doneCount = 3

Roles ==
    /\ \A p \in Producers : ProducerRole(p)
    /\ DispatcherRole
    /\ \A c \in Categories : EditorRole(c)
    /\ ScreenRole

(* A buffer holds the news of its producer, or of its category.            *)
Routed ==
    /\ \A p \in Producers : \A k \in DOMAIN queue[Prod(p)] :
         IsNews(queue[Prod(p)][k]) => queue[Prod(p)][k][1] = p
    /\ \A c \in Categories : \A k \in DOMAIN queue[Editor(c)] :
         IsNews(queue[Editor(c)][k]) => queue[Editor(c)][k][2] = c

(* The positions of main. *)
MainAt ==
    /\ mainPc \in {"start", "join", "destroy", "failed", "returned"} \X Nat
    /\ destroyed \subseteq Buffers
    /\ mainPc[1] = "start" =>
         /\ mainPc[2] \in 1..(N + 5)
         /\ destroyed = {}
         /\ \A k \in mainPc[2]..(N + 5) : pc[StartOrder[k]] = "new"
    /\ mainPc[1] = "join" => destroyed = {}
    /\ mainPc[1] = "destroy" => mainPc[2] \in 1..(N + 4)
    /\ mainPc[1] \in {"destroy", "returned"} => pc[Screen] = "exit"
    /\ mainPc[1] = "failed" /\ destroyed # {} => \A t \in Threads : pc[t] = "new"

(* What the semaphores of a buffer count.                                  *)
Permits(b) ==
    /\ readSemaphore[b] + Cardinality(AtBuffer(b, "rem_get"))
         = Len(queue[b]) - Cardinality(AtBuffer(b, "ins_post"))
    /\ writeSemaphore[b] + Cardinality(AtBuffer(b, "ins_put"))
         + Cardinality(AtBuffer(b, "rem_post"))
         = SizeOf(b) - Len(queue[b])

-----------------------------------------------------------------------------
(* DONE.  A buffer that has been told DONE is never written again.         *)
Unfinished(s) == \A k \in DOMAIN s : s[k] = FINISH_MSG => k = Len(s)
Finishing(s) == \E k \in DOMAIN s : s[k] = FINISH_MSG

(* The dispatcher has the DONE of producer p in its hand.                  *)
TakesDone(p) ==
    /\ i = p
    /\ pc[Dispatcher] \in {"rem_post", "removed"}
    /\ msg[Dispatcher] = FINISH_MSG

ProducerDone(p) ==
    LET t == Prod(p) IN
    /\ Unfinished(queue[t])
    /\ Finishing(queue[t]) =>
         /\ pc[t] = "exit" \/ (pc[t] = "ins_post" /\ msg[t] = FINISH_MSG)
         /\ Made(p) = messages[p]
    /\ TakesDone(p) \/ isDone[p] =>
         pc[t] = "exit" /\ queue[t] = <<>> /\ Made(p) = messages[p]
    /\ pc[t] \in {"ins_put", "ins_post"} /\ msg[t] = FINISH_MSG => Made(p) = messages[p]

(* The dispatcher says DONE after the last producer has.                   *)
AllDone ==
    /\ allProducersDone => \A p \in Producers : p < i => isDone[p]
    /\ finishes > 0 => i = N + 1 /\ allProducersDone
    /\ pc[Dispatcher] \in {"try", "rem_get", "rem_post", "removed"} => ~ allProducersDone
    /\ pc[Dispatcher] \in {"ins_put", "ins_post"} /\ IsNews(msg[Dispatcher])
         => ~ allProducersDone
    /\ finishes = 3 => pc[Dispatcher] \in {"ins_put", "ins_post", "exit"}

Inserting(b, L) == pc[Dispatcher] \in L /\ arg[Dispatcher] = b

(* Co-editor c has received DONE, or has passed it on.                     *)
Told(c) ==
    \/ /\ pc[Editor(c)] \in {"rem_post", "removed", "ins_put", "ins_post", "test"}
       /\ msg[Editor(c)] = FINISH_MSG
    \/ pc[Editor(c)] = "exit"
Relayed(c) ==
    \/ pc[Editor(c)] \in {"ins_post", "test"} /\ msg[Editor(c)] = FINISH_MSG
    \/ pc[Editor(c)] = "exit"

EditorDone(c) ==
    LET b == Editor(c) IN
    /\ Unfinished(queue[b])
    /\ Finishing(queue[b]) => finishes > c /\ ~ Inserting(b, {"ins_put"})
    /\ Told(c) => queue[b] = <<>> /\ finishes > c /\ ~ Inserting(b, {"ins_put", "ins_post"})

(* The DONEs on their way to the screen manager, and those it has counted, *)
(* are the ones that co-editors have passed on; the third is the last      *)
(* message of the screen buffer.                                           *)
Finishes(s) == {k \in DOMAIN s : s[k] = FINISH_MSG}
InHand == One(pc[Screen] \in {"rem_post", "removed"} /\ msg[Screen] = FINISH_MSG)

ScreenDones ==
    /\ doneCount + InHand + Cardinality(Finishes(queue[Screen]))
         = One(Relayed(0)) + One(Relayed(1)) + One(Relayed(2))
    /\ (\A c \in Categories : Relayed(c)) /\ queue[Screen] # <<>>
         => queue[Screen][Len(queue[Screen])] = FINISH_MSG

Ending ==
    /\ \A p \in Producers : ProducerDone(p)
    /\ AllDone
    /\ \A c \in Categories : EditorDone(c)
    /\ ScreenDones

-----------------------------------------------------------------------------
(* The threads are different, and named once.                              *)
LEMMA ThreadFacts ==
    /\ \A p \in Producers :
         Prod(p) \in Threads /\ Prod(p) \in Buffers /\ Prod(p) # Dispatcher /\ Prod(p) # Screen
    /\ \A p, q \in Producers : Prod(p) = Prod(q) => p = q
    /\ \A c \in Categories :
         /\ Editor(c) \in Threads /\ Editor(c) \in Buffers
         /\ Editor(c) # Dispatcher /\ Editor(c) # Screen
    /\ \A c, d \in Categories : Editor(c) = Editor(d) => c = d
    /\ \A p \in Producers, c \in Categories : Prod(p) # Editor(c)
    /\ Dispatcher \in Threads /\ Screen \in Threads /\ Screen \in Buffers /\ Screen # Dispatcher
    /\ Dispatcher \notin Buffers /\ Buffers \subseteq Threads
    /\ \A t \in Threads : \/ \E p \in Producers : t = Prod(p)
                          \/ \E c \in Categories : t = Editor(c)
                          \/ t = Dispatcher
                          \/ t = Screen
  BY DEF Threads, Buffers, Prod, Editor, Dispatcher, Screen

LEMMA IndexFacts ==
    /\ N \in Nat
    /\ \A p \in Producers : p \in Nat /\ 1 <= p /\ p <= N
    /\ \A n \in Nat : 1 <= n /\ n <= N => n \in Producers
    /\ Categories = {0, 1, 2}
    /\ \A b \in Buffers : SizeOf(b) \in Nat /\ SizeOf(b) > 0
  <1>1. N \in Nat /\ Categories = {0, 1, 2}
    BY PipelineAssumption DEF Categories
  <1>2. /\ \A p \in Producers : p \in Nat /\ 1 <= p /\ p <= N
        /\ \A n \in Nat : 1 <= n /\ n <= N => n \in Producers
    BY <1>1 DEF Producers
  <1>3. ASSUME NEW b \in Buffers PROVE SizeOf(b) \in Nat /\ SizeOf(b) > 0
    <2>1. b[1] = "producer" => b[2] \in Producers
      BY DEF Buffers, Threads, Prod, Editor, Dispatcher, Screen
    <2> QED BY <2>1, PipelineAssumption DEF SizeOf
  <1> QED BY <1>1, <1>2, <1>3

(* The kinds of messages.                                                  *)
LEMMA MessageFacts ==
    /\ FINISH_MSG \in Sent /\ NULL \notin Sent
    /\ ~ IsNews(FINISH_MSG) /\ ~ IsNews(NULL) /\ FINISH_MSG # NULL
    /\ \A m \in Sent : m = FINISH_MSG \/ IsNews(m)
    /\ \A m \in Sent : IsNews(m) => m[1] \in Producers /\ m[2] \in Categories /\ m[3] \in Nat
    /\ \A p \in Producers, c \in Categories, n \in Nat :
         /\ News(p, c, n) \in Sent /\ IsNews(News(p, c, n))
         /\ News(p, c, n)[1] = p /\ News(p, c, n)[2] = c /\ News(p, c, n)[3] = n
    /\ \A m : m \in Sent \union {NULL} => IsMessage(m)
  <1>1. ASSUME NEW p \in Producers, NEW c \in Categories, NEW n \in Nat
        PROVE  /\ News(p, c, n) \in Sent /\ IsNews(News(p, c, n))
               /\ News(p, c, n)[1] = p /\ News(p, c, n)[2] = c /\ News(p, c, n)[3] = n
    BY DEF News, Sent, IsNews
  <1>2. ASSUME NEW m \in Producers \X Categories \X Nat
        PROVE  IsNews(m) /\ m[1] \in Producers /\ m[2] \in Categories /\ m[3] \in Nat /\ m # NULL
               /\ m # FINISH_MSG
    <2>1. m = <<m[1], m[2], m[3]>> /\ m[1] \in Producers /\ m[2] \in Categories /\ m[3] \in Nat
      OBVIOUS
    <2>2. Len(m) = 3
      BY <2>1
    <2>3. Len(NULL) = 1 /\ Len(FINISH_MSG) = 0
      BY DEF NULL, FINISH_MSG
    <2>4. m # NULL /\ m # FINISH_MSG
      <3>1. 3 # 1 /\ 3 # 0
        OBVIOUS
      <3> QED BY <2>2, <2>3, <3>1, Zenon
    <2>5. IsNews(m)
      BY <2>2 DEF IsNews
    <2> QED BY <2>1, <2>4, <2>5
  <1>3. Len(NULL) = 1 /\ Len(FINISH_MSG) = 0
    BY DEF NULL, FINISH_MSG
  <1>4. ~ IsNews(FINISH_MSG) /\ ~ IsNews(NULL) /\ FINISH_MSG # NULL
    BY <1>3 DEF IsNews
  <1>5. FINISH_MSG \in Sent /\ NULL \notin Sent
    BY <1>2, <1>4 DEF Sent
  <1>6. \A m \in Sent : m = FINISH_MSG \/ m \in Producers \X Categories \X Nat
    BY DEF Sent
  <1>7. \A m : m \in Sent \union {NULL} => IsMessage(m)
    BY <1>6 DEF IsMessage
  <1>8. \A m \in Sent : m = FINISH_MSG \/ IsNews(m)
    BY <1>2, <1>6
  <1>9. \A m \in Sent : IsNews(m) => m[1] \in Producers /\ m[2] \in Categories /\ m[3] \in Nat
    BY <1>2, <1>4, <1>6
  <1> HIDE DEF Sent, IsNews, NULL, FINISH_MSG
  <1> QED BY <1>1, <1>4, <1>5, <1>7, <1>8, <1>9

(* main starts every thread once.                                          *)
LEMMA StartFacts ==
    /\ Len(StartOrder) = N + 5
    /\ \A k \in 1..(N + 5) : StartOrder[k] \in Threads
    /\ \A j, k \in 1..(N + 5) : StartOrder[j] = StartOrder[k] => j = k
    /\ \A t \in Threads : \E k \in 1..(N + 5) : StartOrder[k] = t
    /\ StartOrder[N + 5] = Screen
  <1> DEFINE P == [p \in Producers |-> Prod(p)]
             E == <<Editor(0), Editor(1), Editor(2), Screen>>
             Q == <<Dispatcher>> \o P
  <1>1. P \in Seq(Threads) /\ Len(P) = N
    BY IndexFacts, ThreadFacts DEF Producers
  <1>2. E \in Seq(Threads) /\ Len(E) = 4
    BY IndexFacts, ThreadFacts
  <1>3. <<Dispatcher>> \in Seq(Threads) /\ Len(<<Dispatcher>>) = 1
    BY ThreadFacts
  <1>4. /\ Q \in Seq(Threads)
        /\ Len(Q) = N + 1
        /\ \A k \in 1..(N + 1) :
             Q[k] = IF k = 1 THEN Dispatcher ELSE P[k - 1]
    BY <1>1, <1>3, IndexFacts
  <1>5. /\ Len(StartOrder) = N + 5
        /\ \A k \in 1..(N + 5) :
             StartOrder[k] = IF k <= N + 1 THEN Q[k] ELSE E[k - (N + 1)]
    BY <1>2, <1>4, IndexFacts DEF StartOrder
  <1> HIDE DEF P, E, Q
  <1>6. \A p \in Producers : P[p] = Prod(p)
    BY DEF P
  <1>7. E[1] = Editor(0) /\ E[2] = Editor(1) /\ E[3] = Editor(2) /\ E[4] = Screen
    BY DEF E
  <1>8. /\ StartOrder[1] = Dispatcher
        /\ \A p \in Producers : StartOrder[p + 1] = Prod(p)
        /\ StartOrder[N + 2] = Editor(0) /\ StartOrder[N + 3] = Editor(1)
        /\ StartOrder[N + 4] = Editor(2) /\ StartOrder[N + 5] = Screen
    <2>1. StartOrder[1] = Dispatcher
      BY <1>4, <1>5, IndexFacts
    <2>2. ASSUME NEW p \in Producers PROVE StartOrder[p + 1] = Prod(p)
      <3>1. p + 1 \in 1..(N + 1) /\ p + 1 \in 1..(N + 5) /\ p + 1 # 1 /\ (p + 1) - 1 = p
        BY IndexFacts
      <3>2. StartOrder[p + 1] = Q[p + 1]
        BY <1>5, <3>1, IndexFacts
      <3>3. Q[p + 1] = P[p]
        BY <1>4, <3>1
      <3> QED BY <1>6, <3>2, <3>3
    <2>3. ASSUME NEW k \in 1..4 PROVE StartOrder[N + 1 + k] = E[k]
      <3>1. /\ N + 1 + k \in 1..(N + 5) /\ ~ (N + 1 + k <= N + 1)
            /\ (N + 1 + k) - (N + 1) = k
        BY IndexFacts
      <3> QED BY <1>5, <3>1
    <2>4. /\ StartOrder[N + 1 + 1] = E[1] /\ StartOrder[N + 1 + 2] = E[2]
          /\ StartOrder[N + 1 + 3] = E[3] /\ StartOrder[N + 1 + 4] = E[4]
      BY <2>3
    <2>5. N + 1 + 1 = N + 2 /\ N + 1 + 2 = N + 3 /\ N + 1 + 3 = N + 4 /\ N + 1 + 4 = N + 5
      BY IndexFacts
    <2> QED BY <1>7, <2>1, <2>2, <2>4, <2>5
  <1>9. \A k \in 1..(N + 5) : \/ k = 1
                              \/ k - 1 \in Producers
                              \/ k \in {N + 2, N + 3, N + 4, N + 5}
    BY IndexFacts
  <1>10. \A k \in 1..(N + 5) : \/ k = 1 /\ StartOrder[k] = Dispatcher
                               \/ k - 1 \in Producers /\ StartOrder[k] = Prod(k - 1)
                               \/ k = N + 2 /\ StartOrder[k] = Editor(0)
                               \/ k = N + 3 /\ StartOrder[k] = Editor(1)
                               \/ k = N + 4 /\ StartOrder[k] = Editor(2)
                               \/ k = N + 5 /\ StartOrder[k] = Screen
    BY <1>8, <1>9, IndexFacts
  <1>11. \A k \in 1..(N + 5) : StartOrder[k] \in Threads
    BY <1>10, ThreadFacts, IndexFacts
  <1>12. \A j, k \in 1..(N + 5) : StartOrder[j] = StartOrder[k] => j = k
    <2> SUFFICES ASSUME NEW j \in 1..(N + 5), NEW k \in 1..(N + 5), StartOrder[j] = StartOrder[k]
                 PROVE  j = k
      OBVIOUS
    <2>1. /\ Editor(0) # Editor(1) /\ Editor(0) # Editor(2) /\ Editor(1) # Editor(2)
          /\ \A d \in {0, 1, 2} : Editor(d) # Dispatcher /\ Editor(d) # Screen
          /\ Dispatcher # Screen
      BY ThreadFacts, IndexFacts
    <2>2. ASSUME NEW p \in Producers
          PROVE  /\ Prod(p) # Dispatcher /\ Prod(p) # Screen
                 /\ \A d \in {0, 1, 2} : Prod(p) # Editor(d)
      BY ThreadFacts, IndexFacts
    <2>3. j - 1 \in Producers /\ k - 1 \in Producers => j = k
      BY <1>10, ThreadFacts, IndexFacts
    <2> QED BY <1>10, <2>1, <2>2, <2>3, IndexFacts
  <1>13. \A t \in Threads : \E k \in 1..(N + 5) : StartOrder[k] = t
    BY <1>8, ThreadFacts, IndexFacts
  <1> QED BY <1>5, <1>8, <1>11, <1>12, <1>13

LEMMA DestroyFacts ==
    Len(DestroyOrder) = N + 4 /\ \A k \in 1..(N + 4) : DestroyOrder[k] \in Buffers
  <1>1. /\ [p \in Producers |-> Prod(p)] \in Seq(Buffers)
        /\ Len([p \in Producers |-> Prod(p)]) = N
    BY IndexFacts, ThreadFacts DEF Producers
  <1>2. /\ <<Editor(0), Editor(1), Editor(2), Screen>> \in Seq(Buffers)
        /\ Len(<<Editor(0), Editor(1), Editor(2), Screen>>) = 4
    BY IndexFacts, ThreadFacts
  <1> QED BY <1>1, <1>2, ConcatProperties, IndexFacts DEF DestroyOrder

(***************************************************************************)
(* The steps of a buffer call, for any thread.                             *)
(***************************************************************************)
Only(t) ==
    \A u \in Threads \ {t} : pc'[u] = pc[u] /\ arg'[u] = arg[u] /\ msg'[u] = msg[u]

LEMMA Moving ==
    ASSUME CallTypes, NEW t \in Threads, NEW f, NEW g \in PcValues, Goto(t, f, g),
           UNCHANGED <<arg, msg>>
    PROVE  /\ CallTypes' /\ Only(t)
           /\ pc[t] = f /\ pc'[t] = g /\ arg'[t] = arg[t] /\ msg'[t] = msg[t]
  BY DEF CallTypes, Goto, Only

LEMMA BodyEnds ==
    ASSUME CallTypes, NEW t \in Threads, NEW f, NEW g \in PcValues, EndBody(t, f, g)
    PROVE  /\ CallTypes' /\ Only(t)
           /\ pc[t] = f /\ pc'[t] = g /\ arg'[t] = Screen /\ msg'[t] = NULL
  BY ThreadFacts DEF CallTypes, EndBody, Goto, Only

LEMMA InsertBegins ==
    ASSUME CallTypes, BufferTypes, NEW t \in Threads, NEW f, NEW b \in Buffers, NEW m \in Sent,
           InsertWait(t, f, b, m)
    PROVE  /\ CallTypes' /\ BufferTypes' /\ Only(t)
           /\ pc[t] = f /\ pc'[t] = "ins_put" /\ arg'[t] = b /\ msg'[t] = m
           /\ UNCHANGED <<queue, readSemaphore>>
           /\ \A d \in Buffers :
                writeSemaphore'[d] = writeSemaphore[d] - (IF d = b THEN 1 ELSE 0)
  BY DEF CallTypes, BufferTypes, InsertWait, Goto, Only, PcValues

LEMMA RemoveBegins ==
    ASSUME CallTypes, BufferTypes, NEW t \in Threads, NEW f, NEW b \in Buffers,
           RemoveWait(t, f, b)
    PROVE  /\ CallTypes' /\ BufferTypes' /\ Only(t)
           /\ pc[t] = f /\ pc'[t] = "rem_get" /\ arg'[t] = b /\ msg'[t] = NULL
           /\ UNCHANGED <<queue, writeSemaphore>>
           /\ \A d \in Buffers :
                readSemaphore'[d] = readSemaphore[d] - (IF d = b THEN 1 ELSE 0)
  BY DEF CallTypes, BufferTypes, RemoveWait, Goto, Only, PcValues

LEMMA Publishing ==
    ASSUME BufferTypes, NEW b \in Buffers, Publish(b)
    PROVE  /\ BufferTypes' /\ UNCHANGED <<queue, writeSemaphore>>
           /\ \A d \in Buffers :
                readSemaphore'[d] = readSemaphore[d] + (IF d = b THEN 1 ELSE 0)
  BY DEF BufferTypes, Publish

LEMMA Putting ==
    ASSUME CallTypes, BufferTypes, NEW t \in Threads, InsertPut(t), msg[t] \in Sent
    PROVE  /\ CallTypes' /\ BufferTypes' /\ Only(t)
           /\ pc[t] = "ins_put" /\ pc'[t] = "ins_post" /\ UNCHANGED <<sems, arg, msg>>
           /\ arg[t] \in Buffers
           /\ queue'[arg[t]] = Append(queue[arg[t]], msg[t])
           /\ \A d \in Buffers \ {arg[t]} : queue'[d] = queue[d]
  BY DEF CallTypes, BufferTypes, InsertPut, Goto, Only, PcValues, sems

LEMMA Getting ==
    ASSUME CallTypes, BufferTypes, NEW t \in Threads, RemoveGet(t), queue[arg[t]] # <<>>
    PROVE  /\ CallTypes' /\ BufferTypes' /\ Only(t)
           /\ pc[t] = "rem_get" /\ pc'[t] = "rem_post" /\ UNCHANGED <<sems, arg>>
           /\ arg[t] \in Buffers
           /\ msg'[t] = Head(queue[arg[t]]) /\ msg'[t] \in Sent
           /\ queue'[arg[t]] = Tail(queue[arg[t]])
           /\ \A d \in Buffers \ {arg[t]} : queue'[d] = queue[d]
  <1>1. queue[arg[t]] \in Seq(Sent) /\ arg[t] \in Buffers
    BY DEF CallTypes, BufferTypes
  <1>2. Head(queue[arg[t]]) \in Sent /\ Tail(queue[arg[t]]) \in Seq(Sent)
    BY <1>1, HeadTailProperties
  <1> QED BY <1>1, <1>2 DEF CallTypes, BufferTypes, RemoveGet, Goto, Only, PcValues, sems

LEMMA Freeing ==
    ASSUME CallTypes, BufferTypes, NEW t \in Threads, RemovePost(t)
    PROVE  /\ CallTypes' /\ BufferTypes' /\ Only(t)
           /\ pc[t] = "rem_post" /\ pc'[t] = "removed" /\ arg[t] \in Buffers
           /\ UNCHANGED <<queue, readSemaphore, arg, msg>>
           /\ \A d \in Buffers :
                writeSemaphore'[d] = writeSemaphore[d] + (IF d = arg[t] THEN 1 ELSE 0)
  BY DEF CallTypes, BufferTypes, RemovePost, Goto, Only, PcValues

-----------------------------------------------------------------------------
(* The permits: how many threads are at a statement of a call on b.        *)
LEMMA ThreadsFinite == IsFiniteSet(Threads)
  <1>1. IsFiniteSet(Producers) /\ IsFiniteSet(Categories)
    <2>1. 1 \in Int /\ N \in Int /\ 0 \in Int /\ 2 \in Int
      BY IndexFacts
    <2>2. IsFiniteSet(1..N) /\ IsFiniteSet(0..2)
      BY <2>1, FS_Interval
    <2> QED BY <2>2 DEF Producers, Categories
  <1> DEFINE P == {Prod(p) : p \in Producers}
             E == {Editor(c) : c \in Categories}
  <1>2. IsFiniteSet(P)
    <2> DEFINE f == [p \in Producers |-> Prod(p)]
    <2>1. f \in Surjection(Producers, P)
      BY DEF Surjection
    <2> QED BY <1>1, <2>1, FS_Surjection
  <1>3. IsFiniteSet(E)
    <2> DEFINE f == [c \in Categories |-> Editor(c)]
    <2>1. f \in Surjection(Categories, E)
      BY DEF Surjection
    <2> QED BY <1>1, <2>1, FS_Surjection
  <1>4. IsFiniteSet({Dispatcher, Screen})
    <2>1. IsFiniteSet({Dispatcher})
      BY FS_Singleton
    <2>2. {Dispatcher, Screen} = {Dispatcher} \union {Screen}
      OBVIOUS
    <2> QED BY <2>1, <2>2, FS_AddElement
  <1> HIDE DEF P, E
  <1>5. IsFiniteSet((P \union E) \union {Dispatcher, Screen})
    BY <1>2, <1>3, <1>4, FS_Union
  <1> QED BY <1>5 DEF Threads, P, E

LEMMA CountType ==
    ASSUME NEW b, NEW loc
    PROVE  IsFiniteSet(AtBuffer(b, loc)) /\ Cardinality(AtBuffer(b, loc)) \in Nat
  <1>1. AtBuffer(b, loc) \subseteq Threads
    BY DEF AtBuffer
  <1> QED BY <1>1, ThreadsFinite, FS_Subset, FS_CardinalityType

LEMMA CountMoved ==
    ASSUME CallTypes, NEW t \in Threads, Only(t), NEW b \in Buffers, NEW loc
    PROVE  Cardinality(AtBuffer(b, loc)')
             = Cardinality(AtBuffer(b, loc)) - One(arg[t] = b /\ pc[t] = loc)
                 + One(arg'[t] = b /\ pc'[t] = loc)
  <1> DEFINE A == AtBuffer(b, loc)
             B == AtBuffer(b, loc)'
  <1>1. IsFiniteSet(A) /\ Cardinality(A) \in Nat
    BY CountType
  <1>2. \A u \in Threads \ {t} : u \in B <=> u \in A
    BY DEF Only, AtBuffer
  <1>3. A \subseteq Threads /\ B \subseteq Threads
    BY DEF AtBuffer
  <1>4. t \in A <=> (arg[t] = b /\ pc[t] = loc)
    BY DEF AtBuffer
  <1>5. t \in B <=> (arg'[t] = b /\ pc'[t] = loc)
    BY DEF AtBuffer
  <1> HIDE DEF A, B
  <1>6. CASE (t \in A) <=> (t \in B)
    <2>1. A = B
      BY <1>2, <1>3, <1>6
    <2> QED BY <1>1, <1>4, <1>5, <1>6, <2>1 DEF One, A, B
  <1>7. CASE t \in A /\ t \notin B
    <2>1. B = A \ {t}
      BY <1>2, <1>3, <1>7
    <2>2. Cardinality(B) = Cardinality(A) - 1
      BY <1>1, <1>7, <2>1, FS_RemoveElement
    <2> QED BY <1>1, <1>4, <1>5, <1>7, <2>2 DEF One, A, B
  <1>8. CASE t \notin A /\ t \in B
    <2>1. B = A \union {t}
      BY <1>2, <1>3, <1>8
    <2>2. Cardinality(B) = Cardinality(A) + 1
      BY <1>1, <1>8, <2>1, FS_AddElement
    <2> QED BY <1>1, <1>4, <1>5, <1>8, <2>2 DEF One, A, B
  <1> QED BY <1>6, <1>7, <1>8

(* A step keeps the permits of b if what it adds to one side of the        *)
(* accounts it adds to the other.                                          *)
Balance(t, b) ==
    LET was(loc) == One(arg[t] = b /\ pc[t] = loc)
        is(loc) == One(arg'[t] = b /\ pc'[t] = loc)
    IN  /\ readSemaphore'[b] + is("rem_get") + is("ins_post") + Len(queue[b])
             = readSemaphore[b] + was("rem_get") + was("ins_post") + Len(queue'[b])
        /\ writeSemaphore'[b] + is("ins_put") + is("rem_post") + Len(queue'[b])
             = writeSemaphore[b] + was("ins_put") + was("rem_post") + Len(queue[b])

LEMMA PermitsKept ==
    ASSUME CallTypes, BufferTypes, BufferTypes', NEW t \in Threads, Only(t),
           NEW b \in Buffers, Permits(b),
           Balance(t, b)
    PROVE  Permits(b)'
  <1>1. /\ Len(queue[b]) \in Nat /\ Len(queue'[b]) \in Nat
        /\ readSemaphore[b] \in Nat /\ readSemaphore'[b] \in Nat
        /\ writeSemaphore[b] \in Nat /\ writeSemaphore'[b] \in Nat
    BY DEF BufferTypes
  <1>2. SizeOf(b) \in Nat
    BY IndexFacts
  <1>3. ASSUME NEW loc
        PROVE  /\ Cardinality(AtBuffer(b, loc)) \in Nat
               /\ One(arg[t] = b /\ pc[t] = loc) \in 0..1
               /\ One(arg'[t] = b /\ pc'[t] = loc) \in 0..1
               /\ Cardinality(AtBuffer(b, loc)')
                    = Cardinality(AtBuffer(b, loc)) - One(arg[t] = b /\ pc[t] = loc)
                        + One(arg'[t] = b /\ pc'[t] = loc)
    BY CountType, CountMoved DEF One
  <1> DEFINE
       r0 == readSemaphore[b]
       r1 == readSemaphore'[b]
       w0 == writeSemaphore[b]
       w1 == writeSemaphore'[b]
       l0 == Len(queue[b])
       l1 == Len(queue'[b])
       z == SizeOf(b)
       g0 == Cardinality(AtBuffer(b, "rem_get"))
       g1 == Cardinality(AtBuffer(b, "rem_get")')
       gw == One(arg[t] = b /\ pc[t] = "rem_get")
       gi == One(arg'[t] = b /\ pc'[t] = "rem_get")
       o0 == Cardinality(AtBuffer(b, "ins_post"))
       o1 == Cardinality(AtBuffer(b, "ins_post")')
       ow == One(arg[t] = b /\ pc[t] = "ins_post")
       oi == One(arg'[t] = b /\ pc'[t] = "ins_post")
       u0 == Cardinality(AtBuffer(b, "ins_put"))
       u1 == Cardinality(AtBuffer(b, "ins_put")')
       uw == One(arg[t] = b /\ pc[t] = "ins_put")
       ui == One(arg'[t] = b /\ pc'[t] = "ins_put")
       f0 == Cardinality(AtBuffer(b, "rem_post"))
       f1 == Cardinality(AtBuffer(b, "rem_post")')
       fw == One(arg[t] = b /\ pc[t] = "rem_post")
       fi == One(arg'[t] = b /\ pc'[t] = "rem_post")
  <1>4. /\ r0 + g0 = l0 - o0
        /\ w0 + u0 + f0 = z - l0
    BY DEF Permits
  <1>5. /\ r1 + gi + oi + l0
             = r0 + gw + ow + l1
        /\ w1 + ui + fi + l1
             = w0 + uw + fw + l0
    BY DEF Balance
  <1>6. g0 \in Nat /\ gw \in 0..1 /\ gi \in 0..1 /\ g1 = g0 - gw + gi
    BY <1>3
  <1>7. o0 \in Nat /\ ow \in 0..1 /\ oi \in 0..1 /\ o1 = o0 - ow + oi
    BY <1>3
  <1>8. u0 \in Nat /\ uw \in 0..1 /\ ui \in 0..1 /\ u1 = u0 - uw + ui
    BY <1>3
  <1>9. f0 \in Nat /\ fw \in 0..1 /\ fi \in 0..1 /\ f1 = f0 - fw + fi
    BY <1>3
  <1>13. r0 \in Nat /\ r1 \in Nat /\ w0 \in Nat /\ w1 \in Nat /\ l0 \in Nat /\ l1 \in Nat /\ z \in Nat
    BY <1>1, <1>2
  <1> HIDE DEF r0, r1, w0, w1, l0, l1, z, g0, g1, gw, gi, o0, o1, ow, oi, u0, u1, uw, ui, f0, f1, fw, fi
  <1>10. r1 + g1 = l1 - o1
    BY <1>13, <1>4, <1>5, <1>6, <1>7
  <1>11. w1 + u1 + f1 = z - l1
    BY <1>13, <1>4, <1>5, <1>8, <1>9
  <1>12. SizeOf(b)' = SizeOf(b)
    BY DEF SizeOf
  <1> QED BY <1>10, <1>11, <1>12 DEF Permits, g1, o1, u1, f1, r1, w1, l1, z

-----------------------------------------------------------------------------
Accounts == CallTypes /\ BufferTypes /\ \A b \in Buffers : Permits(b)

(* A thread that has passed its sem_wait finds a message, and one that     *)
(* nobody is still announcing.                                             *)
LEMMA SomethingToGet ==
    ASSUME Accounts, NEW t \in Threads, pc[t] = "rem_get"
    PROVE  /\ queue[arg[t]] # <<>>
           /\ Len(queue[arg[t]]) = 1 =>
                \A u \in Threads : ~ (arg[u] = arg[t] /\ pc[u] = "ins_post")
  <1> DEFINE b == arg[t]
             G == AtBuffer(b, "rem_get")
             O == AtBuffer(b, "ins_post")
  <1>1. b \in Buffers /\ queue[b] \in Seq(Sent) /\ readSemaphore[b] \in Nat
    BY DEF Accounts, CallTypes, BufferTypes
  <1>2. /\ IsFiniteSet(G) /\ Cardinality(G) \in Nat
        /\ IsFiniteSet(O) /\ Cardinality(O) \in Nat
    BY CountType
  <1>3. Cardinality(G) # 0
    <2>1. t \in G
      BY DEF AtBuffer
    <2> QED BY <1>2, <2>1, FS_EmptySet
  <1>4. readSemaphore[b] + Cardinality(G) = Len(queue[b]) - Cardinality(O)
    BY <1>1 DEF Accounts, Permits
  <1> HIDE DEF G, O
  <1>5. Len(queue[b]) >= 1 + Cardinality(O)
    <2> DEFINE l == Len(queue[b])
    <2>1. l \in Nat
      BY <1>1
    <2> HIDE DEF l
    <2> QED BY <1>1, <1>2, <1>3, <1>4, <2>1 DEF l
  <1>6. queue[b] # <<>>
    BY <1>1, <1>2, <1>5
  <1>7. ASSUME Len(queue[b]) = 1, NEW u \in Threads, arg[u] = b, pc[u] = "ins_post"
        PROVE  FALSE
    <2>1. u \in O
      BY <1>7 DEF O, AtBuffer
    <2>2. Cardinality(O) # 0
      BY <1>2, <2>1, FS_EmptySet
    <2> QED BY <1>2, <1>5, <1>7, <2>2
  <1> QED BY <1>6, <1>7

LEMMA AccountsKept ==
    ASSUME Accounts, CallTypes', BufferTypes', NEW t \in Threads, Only(t),
           \A b \in Buffers : Balance(t, b)
    PROVE  Accounts'
  BY PermitsKept DEF Accounts

Outside == {"new", "run", "test", "try", "removed", "exit"}

LEMMA MoveOutside ==
    ASSUME Accounts, NEW t \in Threads, pc[t] \in Outside, pc'[t] \in Outside, Only(t),
           CallTypes', UNCHANGED <<queue, sems>>
    PROVE  Accounts'
  <1>1. BufferTypes'
    BY DEF Accounts, BufferTypes, sems
  <1>2. ASSUME NEW b \in Buffers PROVE Balance(t, b)
    BY DEF Balance, One, Outside, sems, Accounts, BufferTypes
  <1> QED BY <1>1, <1>2, AccountsKept

LEMMA InsertWaitAccounts ==
    ASSUME Accounts, NEW t \in Threads, NEW f \in Outside, NEW b \in Buffers, NEW m \in Sent,
           InsertWait(t, f, b, m)
    PROVE  Accounts'
  <1>1. CallTypes /\ BufferTypes
    BY DEF Accounts
  <1>2. ASSUME NEW d \in Buffers PROVE Balance(t, d)
    <2>1. /\ readSemaphore[d] \in Nat /\ writeSemaphore[d] \in Nat
          /\ queue[d] \in Seq(Sent)
      BY <1>1 DEF BufferTypes
    <2>2. Len(queue[d]) \in Nat
      BY <2>1
    <2>3. /\ pc[t] \in Outside /\ pc'[t] = "ins_put" /\ arg'[t] = b
          /\ queue'[d] = queue[d] /\ readSemaphore'[d] = readSemaphore[d]
          /\ writeSemaphore'[d] = writeSemaphore[d] - (IF d = b THEN 1 ELSE 0)
      <3>1. /\ pc[t] = f /\ pc'[t] = "ins_put" /\ arg'[t] = b
            /\ UNCHANGED <<queue, readSemaphore>>
            /\ \A e \in Buffers :
                 writeSemaphore'[e] = writeSemaphore[e] - (IF e = b THEN 1 ELSE 0)
        BY <1>1, InsertBegins
      <3> QED BY <3>1
    <2> QED BY <2>1, <2>2, <2>3 DEF Balance, One, Outside
  <1> QED BY <1>1, <1>2, InsertBegins, AccountsKept

LEMMA RemoveWaitAccounts ==
    ASSUME Accounts, NEW t \in Threads, NEW f \in Outside, NEW b \in Buffers,
           RemoveWait(t, f, b)
    PROVE  Accounts'
  <1>1. CallTypes /\ BufferTypes
    BY DEF Accounts
  <1>2. ASSUME NEW d \in Buffers PROVE Balance(t, d)
    <2>1. /\ readSemaphore[d] \in Nat /\ writeSemaphore[d] \in Nat
          /\ queue[d] \in Seq(Sent)
      BY <1>1 DEF BufferTypes
    <2>2. Len(queue[d]) \in Nat
      BY <2>1
    <2>3. /\ pc[t] \in Outside /\ pc'[t] = "rem_get" /\ arg'[t] = b
          /\ queue'[d] = queue[d] /\ writeSemaphore'[d] = writeSemaphore[d]
          /\ readSemaphore'[d] = readSemaphore[d] - (IF d = b THEN 1 ELSE 0)
      BY <1>1, RemoveBegins
    <2> QED BY <2>1, <2>2, <2>3 DEF Balance, One, Outside
  <1> QED BY <1>1, <1>2, RemoveBegins, AccountsKept

LEMMA PublishAccounts ==
    ASSUME Accounts, NEW t \in Threads, pc[t] = "ins_post", pc'[t] \in Outside, Only(t),
           CallTypes', Publish(arg[t])
    PROVE  Accounts'
  <1>1. CallTypes /\ BufferTypes /\ arg[t] \in Buffers
    BY DEF Accounts, CallTypes
  <1>2. ASSUME NEW d \in Buffers PROVE Balance(t, d)
    <2>1. /\ readSemaphore[d] \in Nat /\ writeSemaphore[d] \in Nat
          /\ queue[d] \in Seq(Sent)
      BY <1>1 DEF BufferTypes
    <2>2. Len(queue[d]) \in Nat
      BY <2>1
    <2>3. /\ pc[t] = "ins_post" /\ pc'[t] \in Outside
          /\ queue'[d] = queue[d] /\ writeSemaphore'[d] = writeSemaphore[d]
          /\ readSemaphore'[d] = readSemaphore[d] + (IF d = arg[t] THEN 1 ELSE 0)
      BY <1>1, Publishing
    <2> QED BY <2>1, <2>2, <2>3 DEF Balance, One, Outside
  <1> QED BY <1>1, <1>2, Publishing, AccountsKept

LEMMA PutAccounts ==
    ASSUME Accounts, NEW t \in Threads, InsertPut(t), msg[t] \in Sent
    PROVE  Accounts'
  <1>1. CallTypes /\ BufferTypes
    BY DEF Accounts
  <1>2. ASSUME NEW d \in Buffers PROVE Balance(t, d)
    <2>1. queue[d] \in Seq(Sent)
      BY <1>1 DEF BufferTypes
    <2>2. Len(queue[d]) \in Nat
      BY <2>1
    <2>3. Len(queue'[d]) = Len(queue[d]) + (IF d = arg[t] THEN 1 ELSE 0)
      <3>1. CASE d = arg[t]
        <4>1. queue'[d] = Append(queue[d], msg[t])
          BY <1>1, <3>1, Putting
        <4> QED BY <2>1, <3>1, <4>1
      <3>2. CASE d # arg[t]
        <4>1. queue'[d] = queue[d]
          BY <1>1, <3>2, Putting
        <4> QED BY <2>2, <3>2, <4>1
      <3> QED BY <3>1, <3>2
    <2>4. /\ pc[t] = "ins_put" /\ pc'[t] = "ins_post" /\ UNCHANGED <<sems, arg>>
      BY <1>1, Putting
    <2> QED BY <1>1, <2>2, <2>3, <2>4 DEF Balance, One, BufferTypes, sems
  <1> QED BY <1>1, <1>2, Putting, AccountsKept

LEMMA GetAccounts ==
    ASSUME Accounts, NEW t \in Threads, RemoveGet(t)
    PROVE  Accounts'
  <1>1. CallTypes /\ BufferTypes /\ queue[arg[t]] # <<>>
    BY SomethingToGet DEF Accounts, RemoveGet, Goto
  <1>2. ASSUME NEW d \in Buffers PROVE Balance(t, d)
    <2>1. queue[d] \in Seq(Sent)
      BY <1>1 DEF BufferTypes
    <2>2. Len(queue[d]) \in Nat
      BY <2>1
    <2>3. Len(queue'[d]) = Len(queue[d]) - (IF d = arg[t] THEN 1 ELSE 0)
      <3>1. CASE d = arg[t]
        <4>1. queue'[d] = Tail(queue[d])
          BY <1>1, <3>1, Getting
        <4> QED BY <1>1, <2>1, <3>1, <4>1
      <3>2. CASE d # arg[t]
        <4>1. queue'[d] = queue[d]
          BY <1>1, <3>2, Getting
        <4> QED BY <2>2, <3>2, <4>1
      <3> QED BY <3>1, <3>2
    <2>4. /\ pc[t] = "rem_get" /\ pc'[t] = "rem_post" /\ UNCHANGED <<sems, arg>>
      BY <1>1, Getting
    <2> QED BY <1>1, <2>2, <2>3, <2>4 DEF Balance, One, BufferTypes, sems
  <1> QED BY <1>1, <1>2, Getting, AccountsKept

LEMMA FreeAccounts ==
    ASSUME Accounts, NEW t \in Threads, RemovePost(t)
    PROVE  Accounts'
  <1>1. CallTypes /\ BufferTypes
    BY DEF Accounts
  <1>2. ASSUME NEW d \in Buffers PROVE Balance(t, d)
    <2>1. /\ readSemaphore[d] \in Nat /\ writeSemaphore[d] \in Nat
          /\ queue[d] \in Seq(Sent)
      BY <1>1 DEF BufferTypes
    <2>2. Len(queue[d]) \in Nat
      BY <2>1
    <2>3. /\ pc[t] = "rem_post" /\ pc'[t] = "removed" /\ arg'[t] = arg[t]
          /\ queue'[d] = queue[d] /\ readSemaphore'[d] = readSemaphore[d]
          /\ writeSemaphore'[d] = writeSemaphore[d] + (IF d = arg[t] THEN 1 ELSE 0)
      BY <1>1, Freeing
    <2> QED BY <2>1, <2>2, <2>3 DEF Balance, One
  <1> QED BY <1>1, <1>2, Freeing, AccountsKept

(***************************************************************************)
(* Every thread works on its buffers and main has started it.              *)
(***************************************************************************)
Base == Accounts /\ LocalTypes /\ Roles /\ Routed /\ MainAt

LEMMA ProducerRoles ==
    ASSUME Roles, NEW p \in Producers, Only(Prod(p)), UNCHANGED <<i, finishes, doneCount>>,
           ProducerRole(p)'
    PROVE  Roles'
  <1>1. ASSUME NEW q \in Producers, q # p PROVE ProducerRole(q)'
    BY <1>1, ThreadFacts DEF Roles, ProducerRole, Only
  <1>2. DispatcherRole'
    BY ThreadFacts DEF Roles, DispatcherRole, Only
  <1>3. ASSUME NEW c \in Categories PROVE EditorRole(c)'
    BY ThreadFacts DEF Roles, EditorRole, Only
  <1>4. ScreenRole'
    BY ThreadFacts DEF Roles, ScreenRole, Only
  <1> QED BY <1>1, <1>2, <1>3, <1>4 DEF Roles

LEMMA DispatcherRoles ==
    ASSUME Roles, Only(Dispatcher), UNCHANGED doneCount, DispatcherRole'
    PROVE  Roles'
  <1>1. ASSUME NEW q \in Producers PROVE ProducerRole(q)'
    BY ThreadFacts DEF Roles, ProducerRole, Only
  <1>2. ASSUME NEW c \in Categories PROVE EditorRole(c)'
    BY ThreadFacts DEF Roles, EditorRole, Only
  <1>3. ScreenRole'
    BY ThreadFacts DEF Roles, ScreenRole, Only
  <1> QED BY <1>1, <1>2, <1>3 DEF Roles

LEMMA EditorRoles ==
    ASSUME Roles, NEW c \in Categories, Only(Editor(c)), UNCHANGED <<i, finishes, doneCount>>,
           EditorRole(c)'
    PROVE  Roles'
  <1>1. ASSUME NEW q \in Producers PROVE ProducerRole(q)'
    BY ThreadFacts DEF Roles, ProducerRole, Only
  <1>2. DispatcherRole'
    BY ThreadFacts DEF Roles, DispatcherRole, Only
  <1>3. ASSUME NEW d \in Categories, d # c PROVE EditorRole(d)'
    BY <1>3, ThreadFacts DEF Roles, EditorRole, Only
  <1>4. ScreenRole'
    BY ThreadFacts DEF Roles, ScreenRole, Only
  <1> QED BY <1>1, <1>2, <1>3, <1>4 DEF Roles

LEMMA ScreenRoles ==
    ASSUME Roles, Only(Screen), UNCHANGED <<i, finishes>>, ScreenRole'
    PROVE  Roles'
  <1>1. ASSUME NEW q \in Producers PROVE ProducerRole(q)'
    BY ThreadFacts DEF Roles, ProducerRole, Only
  <1>2. DispatcherRole'
    BY ThreadFacts DEF Roles, DispatcherRole, Only
  <1>3. ASSUME NEW c \in Categories PROVE EditorRole(c)'
    BY ThreadFacts DEF Roles, EditorRole, Only
  <1> QED BY <1>1, <1>2, <1>3 DEF Roles

LEMMA MainKept ==
    ASSUME MainAt, NEW t \in Threads, Only(t), pc[t] \notin {"new", "exit"}, Running,
           UNCHANGED mainVars
    PROVE  MainAt'
  <1>1. /\ mainPc' = mainPc /\ destroyed' = destroyed
        /\ mainPc[1] \in {"start", "join", "destroy"}
    BY DEF mainVars, Running
  <1>2. ASSUME mainPc[1] = "start", NEW k \in mainPc[2]..(N + 5)
        PROVE  pc'[StartOrder[k]] = "new"
    <2>1. k \in 1..(N + 5) /\ pc[StartOrder[k]] = "new"
      BY <1>2, IndexFacts DEF MainAt
    <2>2. StartOrder[k] \in Threads
      BY <2>1, StartFacts
    <2> QED BY <2>1, <2>2 DEF Only
  <1>3. mainPc[1] = "destroy" => pc'[Screen] = "exit"
    BY ThreadFacts DEF MainAt, Only
  <1> QED BY <1>1, <1>2, <1>3 DEF MainAt

LEMMA RoutedKept == ASSUME Routed, UNCHANGED queue PROVE Routed'
  BY DEF Routed

LEMMA ProducerBase ==
    ASSUME Base, NEW p \in Producers, Producer(p) \/ ProducerFail(p)
    PROVE  Base'
  <1> DEFINE t == Prod(p)
  <1>1. t \in Threads /\ t \in Buffers /\ Accounts /\ CallTypes /\ BufferTypes /\ ProducerRole(p)
    BY ThreadFacts DEF Base, Accounts, Roles
  <1>2. SUFFICES /\ Accounts' /\ LocalTypes' /\ Only(t) /\ pc[t] \in {"run", "ins_post"}
                 /\ ProducerRole(p)' /\ Running
                 /\ UNCHANGED <<queue, dispatch, screen, mainVars>>
    BY <1>1, ProducerRoles, MainKept, RoutedKept DEF Base, dispatch, screen
  <1>3. CASE ProducerMessage(p)
    <2>1. PICK c \in Categories :
             /\ InsertWait(t, "run", t, News(p, c, count[p][c]))
             /\ count' = [count EXCEPT ![p][c] = @ + 1]
      BY <1>3 DEF ProducerMessage
    <2> DEFINE m == News(p, c, count[p][c])
    <2>2. m \in Sent /\ IsNews(m) /\ m[1] = p
      BY MessageFacts DEF Base, LocalTypes
    <2>3. m # NULL
      BY <2>2, MessageFacts
    <2> HIDE DEF m, t
    <2>4. InsertWait(t, "run", t, m)
      BY <2>1 DEF m
    <2>5. /\ Only(t) /\ pc[t] = "run" /\ queue' = queue
          /\ pc'[t] = "ins_put" /\ arg'[t] = t /\ msg'[t] = m
      BY <1>1, <2>2, <2>4, InsertBegins
    <2>6. Accounts'
      BY <1>1, <2>2, <2>4, InsertWaitAccounts DEF Outside
    <2>7. UNCHANGED <<dispatch, screen, mainVars>> /\ Running
      BY <1>3, <2>4 DEF ProducerMessage, InsertWait, Goto
    <2>8. LocalTypes'
      BY <2>1, <2>7 DEF Base, LocalTypes, dispatch, screen, mainVars
    <2>9. ProducerRole(p)'
      BY <2>2, <2>3, <2>5 DEF ProducerRole, t
    <2> QED BY <2>5, <2>6, <2>7, <2>8, <2>9 DEF t
  <1>4. CASE ProducerFinish(p)
    <2>1. InsertWait(t, "run", t, FINISH_MSG) /\ UNCHANGED <<count, dispatch, screen, mainVars>>
      BY <1>4 DEF ProducerFinish
    <2>2. FINISH_MSG \in Sent /\ ~ IsNews(FINISH_MSG) /\ FINISH_MSG # NULL
      BY MessageFacts
    <2> HIDE DEF t
    <2>3. /\ Only(t) /\ pc[t] = "run" /\ queue' = queue
          /\ pc'[t] = "ins_put" /\ arg'[t] = t /\ msg'[t] = FINISH_MSG
      BY <1>1, <2>1, <2>2, InsertBegins
    <2>4. Accounts'
      BY <1>1, <2>1, <2>2, InsertWaitAccounts DEF Outside
    <2>5. Running
      BY <2>1 DEF InsertWait, Goto
    <2>6. LocalTypes'
      BY <2>1 DEF Base, LocalTypes, dispatch, screen, mainVars
    <2>7. ProducerRole(p)'
      BY <2>2, <2>3 DEF ProducerRole, t
    <2> QED BY <2>1, <2>3, <2>4, <2>5, <2>6, <2>7 DEF t
  <1>5. ASSUME NEW f \in {"run", "ins_post"}, NEW g \in {"run", "exit"}, EndBody(t, f, g),
               \/ f = "ins_post" /\ Publish(arg[t])
               \/ f = "run" /\ UNCHANGED <<queue, sems>>,
               UNCHANGED <<count, dispatch, screen, mainVars>>
        PROVE  /\ Accounts' /\ LocalTypes' /\ Only(t) /\ pc[t] \in {"run", "ins_post"}
               /\ ProducerRole(p)' /\ Running
               /\ UNCHANGED <<queue, dispatch, screen, mainVars>>
    <2> HIDE DEF t
    <2>1. g \in PcValues /\ g \in Outside /\ "run" \in Outside
      BY DEF PcValues, Outside
    <2>2. /\ CallTypes' /\ Only(t) /\ pc[t] = f /\ pc'[t] = g
      BY <1>1, <1>5, <2>1, BodyEnds
    <2>3. Accounts' /\ queue' = queue
      BY <1>1, <1>5, <2>1, <2>2, PublishAccounts, MoveOutside DEF Publish
    <2>4. LocalTypes' /\ Running
      BY <1>5 DEF Base, LocalTypes, dispatch, screen, mainVars, EndBody, Goto
    <2>5. ProducerRole(p)'
      BY <2>2 DEF ProducerRole, t
    <2> QED BY <1>5, <2>2, <2>3, <2>4, <2>5
  <1>6. CASE ProducerPosted(p)
    BY <1>5, <1>6 DEF ProducerPosted, InsertPost
  <1>7. CASE ProducerFail(p)
    BY <1>5, <1>7 DEF ProducerFail
  <1> HIDE DEF t
  <1> QED BY <1>3, <1>4, <1>6, <1>7 DEF Producer

LEMMA ScreenBase == ASSUME Base, ScreenManager PROVE Base'
  <1>1. /\ Screen \in Threads /\ Screen \in Buffers /\ Accounts /\ CallTypes /\ BufferTypes
        /\ ScreenRole
    BY ThreadFacts DEF Base, Accounts, Roles
  <1>2. SUFFICES /\ Accounts' /\ LocalTypes' /\ Only(Screen) /\ pc[Screen] \in {"run", "removed"}
                 /\ ScreenRole' /\ Running /\ UNCHANGED <<queue, dispatch, mainVars>>
    BY <1>1, ScreenRoles, MainKept, RoutedKept DEF Base, dispatch
  <1>3. CASE ScreenRemove
    <2>1. RemoveWait(Screen, "run", Screen) /\ UNCHANGED <<count, dispatch, screen, mainVars>>
      BY <1>3 DEF ScreenRemove
    <2>2. /\ Only(Screen) /\ pc[Screen] = "run" /\ queue' = queue
          /\ pc'[Screen] = "rem_get" /\ arg'[Screen] = Screen
      BY <1>1, <2>1, RemoveBegins
    <2>3. Accounts'
      BY <1>1, <2>1, RemoveWaitAccounts DEF Outside
    <2>4. LocalTypes' /\ Running
      BY <2>1 DEF Base, LocalTypes, dispatch, screen, mainVars, RemoveWait, Goto
    <2>5. ScreenRole'
      BY <1>1, <2>1, <2>2 DEF ScreenRole, screen
    <2> QED BY <2>1, <2>2, <2>3, <2>4, <2>5
  <1>4. ASSUME NEW g \in {"run", "exit"}, EndBody(Screen, "removed", g),
               UNCHANGED <<queue, sems, count, dispatch, mainVars>>
        PROVE  /\ Accounts' /\ Only(Screen) /\ pc[Screen] = "removed" /\ pc'[Screen] = g
               /\ arg'[Screen] = Screen /\ Running
    <2>1. g \in PcValues /\ g \in Outside /\ "removed" \in Outside
      BY DEF PcValues, Outside
    <2>2. /\ CallTypes' /\ Only(Screen) /\ pc[Screen] = "removed" /\ pc'[Screen] = g
          /\ arg'[Screen] = Screen
      BY <1>1, <1>4, <2>1, BodyEnds
    <2>3. Accounts'
      BY <1>1, <1>4, <2>1, <2>2, MoveOutside
    <2> QED BY <1>4, <2>2, <2>3 DEF EndBody, Goto
  <1>5. CASE ScreenPrint
    <2>1. /\ Accounts' /\ Only(Screen) /\ pc[Screen] = "removed" /\ pc'[Screen] = "run"
          /\ arg'[Screen] = Screen /\ Running
      BY <1>4, <1>5 DEF ScreenPrint
    <2>2. msg[Screen][1] \in Producers /\ msg[Screen][2] \in Categories
      BY <1>1, <1>5, <2>1, MessageFacts DEF ScreenPrint, ScreenRole, CallTypes
    <2>3. LocalTypes'
      BY <1>5, <2>2 DEF ScreenPrint, Base, LocalTypes, dispatch, mainVars
    <2>4. ScreenRole'
      BY <1>1, <1>5, <2>1 DEF ScreenPrint, ScreenRole
    <2> QED BY <1>5, <2>1, <2>3, <2>4 DEF ScreenPrint
  <1>6. CASE ScreenDone
    <2> DEFINE g == IF doneCount + 1 = 3 THEN "exit" ELSE "run"
    <2>1. /\ Accounts' /\ Only(Screen) /\ pc[Screen] = "removed" /\ pc'[Screen] = g
          /\ arg'[Screen] = Screen /\ Running
      BY <1>4, <1>6 DEF ScreenDone
    <2>2. doneCount \in 0..2 /\ doneCount' = doneCount + 1
      BY <1>1, <1>6, <2>1 DEF Base, LocalTypes, ScreenRole, ScreenDone
    <2>3. LocalTypes'
      BY <1>6, <2>2 DEF ScreenDone, Base, LocalTypes, dispatch, mainVars
    <2>4. ScreenRole'
      BY <2>1, <2>2 DEF ScreenRole
    <2> QED BY <1>6, <2>1, <2>3, <2>4 DEF ScreenDone
  <1> QED BY <1>3, <1>5, <1>6 DEF ScreenManager

LEMMA EditorBase == ASSUME Base, NEW c \in Categories, CoEditor(c) PROVE Base'
  <1> DEFINE t == Editor(c)
  <1>1. /\ t \in Threads /\ t \in Buffers /\ t # Screen /\ Screen \in Buffers
        /\ Accounts /\ CallTypes /\ BufferTypes /\ EditorRole(c)
    BY ThreadFacts DEF Base, Accounts, Roles
  <1>2. SUFFICES /\ Accounts' /\ Only(t) /\ pc[t] \in {"run", "removed", "ins_post", "test"}
                 /\ EditorRole(c)' /\ Running
                 /\ UNCHANGED <<queue, count, dispatch, screen, mainVars>>
    <2>1. LocalTypes' /\ UNCHANGED <<i, finishes, doneCount, queue>>
      BY <1>2 DEF Base, LocalTypes, dispatch, screen, mainVars
    <2> QED BY <1>1, <1>2, <2>1, EditorRoles, MainKept, RoutedKept DEF Base
  <1>3. CASE CoEditorRemove(c)
    <2>1. RemoveWait(t, "run", t) /\ UNCHANGED <<count, dispatch, screen, mainVars>>
      BY <1>3 DEF CoEditorRemove
    <2> HIDE DEF t
    <2>2. /\ Only(t) /\ pc[t] = "run" /\ queue' = queue /\ pc'[t] = "rem_get" /\ arg'[t] = t
      BY <1>1, <2>1, RemoveBegins
    <2>3. Accounts'
      BY <1>1, <2>1, RemoveWaitAccounts DEF Outside
    <2>4. Running
      BY <2>1 DEF RemoveWait, Goto
    <2>5. EditorRole(c)'
      BY <2>2 DEF EditorRole, t
    <2> QED BY <2>1, <2>2, <2>3, <2>4, <2>5 DEF t
  <1>4. CASE CoEditorForward(c)
    <2> DEFINE m == msg[t]
    <2>1. InsertWait(t, "removed", Screen, m) /\ UNCHANGED <<count, dispatch, screen, mainVars>>
      BY <1>4 DEF CoEditorForward
    <2>2. pc[t] = "removed" /\ Running
      BY <2>1 DEF InsertWait, Goto
    <2>3. m \in Sent /\ m # NULL /\ (IsNews(m) => m[2] = c)
      BY <1>1, <2>2, MessageFacts DEF EditorRole, CallTypes
    <2> HIDE DEF t, m
    <2>4. /\ Only(t) /\ queue' = queue /\ pc'[t] = "ins_put" /\ arg'[t] = Screen /\ msg'[t] = m
      BY <1>1, <2>1, <2>3, InsertBegins
    <2>5. Accounts'
      BY <1>1, <2>1, <2>3, InsertWaitAccounts DEF Outside
    <2>6. EditorRole(c)'
      BY <2>3, <2>4 DEF EditorRole, t
    <2> QED BY <2>1, <2>2, <2>4, <2>5, <2>6 DEF t
  <1>5. CASE CoEditorPosted(c)
    <2>1. /\ Goto(t, "ins_post", "test") /\ Publish(arg[t])
          /\ UNCHANGED <<arg, msg, count, dispatch, screen, mainVars>>
      BY <1>5 DEF CoEditorPosted
    <2>2. "test" \in PcValues /\ "test" \in Outside
      BY DEF PcValues, Outside
    <2> HIDE DEF t
    <2>3. /\ CallTypes' /\ Only(t) /\ pc[t] = "ins_post" /\ pc'[t] = "test" /\ msg'[t] = msg[t]
      BY <1>1, <2>1, <2>2, Moving
    <2>4. Accounts'
      BY <1>1, <2>1, <2>2, <2>3, PublishAccounts
    <2>5. Running /\ queue' = queue
      BY <2>1 DEF Goto, Publish
    <2>6. EditorRole(c)'
      BY <1>1, <2>3 DEF EditorRole, t
    <2> QED BY <2>1, <2>3, <2>4, <2>5, <2>6 DEF t
  <1>6. CASE CoEditorTest(c)
    <2> DEFINE g == IF msg[t] = FINISH_MSG THEN "exit" ELSE "run"
    <2>1. EndBody(t, "test", g) /\ UNCHANGED <<queue, sems, count, dispatch, screen, mainVars>>
      BY <1>6 DEF CoEditorTest
    <2>2. g \in PcValues /\ g \in Outside /\ "test" \in Outside /\ g \in {"run", "exit"}
      BY DEF PcValues, Outside
    <2> HIDE DEF t, g
    <2>3. /\ CallTypes' /\ Only(t) /\ pc[t] = "test" /\ pc'[t] = g
      BY <1>1, <2>1, <2>2, BodyEnds
    <2>4. Accounts'
      BY <1>1, <2>1, <2>2, <2>3, MoveOutside
    <2>5. Running
      BY <2>1 DEF EndBody, Goto
    <2>6. EditorRole(c)'
      BY <2>2, <2>3 DEF EditorRole, t
    <2> QED BY <2>1, <2>3, <2>4, <2>5, <2>6 DEF t
  <1> HIDE DEF t
  <1> QED BY <1>3, <1>4, <1>5, <1>6 DEF CoEditor

LEMMA DispatcherBase == ASSUME Base, DispatcherFunc PROVE Base'
  <1> DEFINE t == Dispatcher
  <1>1. t \in Threads /\ Accounts /\ CallTypes /\ BufferTypes /\ DispatcherRole /\ LocalTypes
    BY ThreadFacts DEF Base, Accounts, Roles
  <1>2. SUFFICES /\ Accounts' /\ LocalTypes' /\ Only(t) /\ pc[t] \notin {"new", "exit"}
                 /\ DispatcherRole' /\ Running /\ UNCHANGED <<queue, screen, mainVars>>
    BY <1>1, DispatcherRoles, MainKept, RoutedKept DEF Base, screen
  <1>3. ASSUME NEW f \in Outside, NEW g \in Outside, Goto(t, f, g),
               UNCHANGED <<queue, sems, arg, msg>>
        PROVE  Accounts' /\ Only(t) /\ pc[t] = f /\ pc'[t] = g /\ Running
    <2>1. g \in PcValues
      BY DEF PcValues, Outside
    <2>2. CallTypes' /\ Only(t) /\ pc[t] = f /\ pc'[t] = g
      BY <1>1, <1>3, <2>1, Moving
    <2> QED BY <1>1, <1>3, <2>2, MoveOutside DEF Goto
  <1>4. ASSUME NEW f, NEW g \in Outside, EndBody(t, f, g),
               \/ f = "ins_post" /\ Publish(arg[t])
               \/ f \in Outside /\ UNCHANGED <<queue, sems>>
        PROVE  /\ Accounts' /\ Only(t) /\ pc[t] = f /\ pc'[t] = g /\ queue' = queue
               /\ Running
    <2>1. g \in PcValues
      BY DEF PcValues, Outside
    <2>2. CallTypes' /\ Only(t) /\ pc[t] = f /\ pc'[t] = g
      BY <1>1, <1>4, <2>1, BodyEnds
    <2>3. Accounts' /\ queue' = queue
      BY <1>1, <1>4, <2>2, PublishAccounts, MoveOutside DEF Publish
    <2> QED BY <1>4, <2>2, <2>3 DEF EndBody, Goto
  <1>5. /\ "run" \in Outside /\ "try" \in Outside /\ "removed" \in Outside /\ "exit" \in Outside
    BY DEF Outside
  <1>6. CASE DispatcherSkip
    <2>1. Accounts' /\ Only(t) /\ pc[t] = "run" /\ pc'[t] = "run" /\ Running
      BY <1>3, <1>5, <1>6 DEF DispatcherSkip
    <2>2. LocalTypes'
      BY <1>1, <1>6, IndexFacts DEF DispatcherSkip, LocalTypes, screen, mainVars
    <2> QED BY <1>6, <2>1, <2>2 DEF DispatcherSkip, DispatcherRole
  <1>7. CASE DispatcherPoll
    <2>1. Accounts' /\ Only(t) /\ pc[t] = "run" /\ pc'[t] = "try" /\ Running
      BY <1>3, <1>5, <1>7 DEF DispatcherPoll
    <2>2. LocalTypes'
      BY <1>1, <1>7 DEF DispatcherPoll, LocalTypes, screen, mainVars
    <2> QED BY <1>7, <2>1, <2>2 DEF DispatcherPoll, DispatcherRole
  <1>8. CASE DispatcherTake
    <2>1. pc[t] = "try" /\ Running
      BY <1>8 DEF DispatcherTake, RemoveWait, Goto
    <2>2. i <= N /\ i \in Producers
      BY <1>1, <2>1, IndexFacts DEF DispatcherRole, LocalTypes
    <2>3. Prod(i) \in Buffers
      BY <2>2, ThreadFacts
    <2>4. RemoveWait(t, "try", Prod(i)) /\ UNCHANGED <<count, dispatch, screen, mainVars>>
      BY <1>8 DEF DispatcherTake
    <2>5. Only(t) /\ queue' = queue /\ pc'[t] = "rem_get" /\ arg'[t] = Prod(i)
      BY <1>1, <2>3, <2>4, RemoveBegins
    <2>6. Accounts'
      BY <1>1, <1>5, <2>3, <2>4, RemoveWaitAccounts
    <2>7. LocalTypes' /\ i' = i
      BY <1>1, <2>4 DEF LocalTypes, dispatch, screen, mainVars
    <2>8. DispatcherRole'
      BY <2>2, <2>5, <2>7 DEF DispatcherRole
    <2> QED BY <2>1, <2>4, <2>5, <2>6, <2>7, <2>8
  <1>9. CASE DispatcherNothing
    <2>1. Accounts' /\ Only(t) /\ pc[t] = "try" /\ pc'[t] = "run" /\ Running
      BY <1>3, <1>5, <1>9 DEF DispatcherNothing
    <2>2. LocalTypes'
      BY <1>1, <1>9, <2>1, IndexFacts
      DEF DispatcherNothing, DispatcherRole, LocalTypes, screen, mainVars
    <2> QED BY <1>9, <2>1, <2>2 DEF DispatcherNothing, DispatcherRole
  <1>10. CASE DispatcherDone
    <2>1. Accounts' /\ Only(t) /\ pc[t] = "removed" /\ pc'[t] = "run" /\ Running /\ queue' = queue
      BY <1>4, <1>5, <1>10 DEF DispatcherDone
    <2>2. LocalTypes'
      BY <1>1, <1>10, <2>1, IndexFacts
      DEF DispatcherDone, DispatcherRole, LocalTypes, screen, mainVars
    <2> QED BY <1>10, <2>1, <2>2 DEF DispatcherDone, DispatcherRole
  <1>11. CASE DispatcherRoute
    <2>1. pc[t] = "removed" /\ Running
      BY <1>11 DEF DispatcherRoute, InsertWait, Goto
    <2> DEFINE m == msg[t]
               b == Editor(m[2])
    <2>2. m \in Sent /\ IsNews(m) /\ m[1] = i /\ i <= N /\ m[2] \in Categories
      BY <1>1, <1>11, <2>1, MessageFacts DEF DispatcherRole, DispatcherRoute, CallTypes
    <2>3. b \in Buffers
      BY <2>2, ThreadFacts
    <2>4. InsertWait(t, "removed", b, m) /\ UNCHANGED <<count, dispatch, screen, mainVars>>
      BY <1>11 DEF DispatcherRoute
    <2> HIDE DEF m, b
    <2>5. Only(t) /\ queue' = queue /\ pc'[t] = "ins_put" /\ arg'[t] = b /\ msg'[t] = m
      BY <1>1, <2>2, <2>3, <2>4, InsertBegins
    <2>6. Accounts'
      BY <1>1, <1>5, <2>2, <2>3, <2>4, InsertWaitAccounts
    <2>7. LocalTypes' /\ i' = i
      BY <1>1, <2>4 DEF LocalTypes, dispatch, screen, mainVars
    <2>8. arg'[t] = Editor(m[2])
      BY <2>5 DEF b
    <2>9. DispatcherRole'
      BY <2>2, <2>5, <2>7, <2>8 DEF DispatcherRole
    <2> QED BY <2>1, <2>4, <2>5, <2>6, <2>7, <2>9
  <1>12. CASE DispatcherRouted
    <2>1. Accounts' /\ Only(t) /\ pc[t] = "ins_post" /\ pc'[t] = "run" /\ Running /\ queue' = queue
      BY <1>4, <1>5, <1>12 DEF DispatcherRouted, InsertPost
    <2>2. i <= N /\ i' = i + 1
      BY <1>1, <1>12, <2>1, MessageFacts DEF DispatcherRouted, DispatcherRole
    <2>3. LocalTypes'
      BY <1>1, <1>12, <2>2, IndexFacts DEF DispatcherRouted, LocalTypes, screen, mainVars
    <2> QED BY <1>12, <2>1, <2>3 DEF DispatcherRouted, DispatcherRole
  <1>13. CASE DispatcherAgain
    <2>1. Accounts' /\ Only(t) /\ pc[t] = "run" /\ pc'[t] = "run" /\ Running
      BY <1>3, <1>5, <1>13 DEF DispatcherAgain
    <2>2. LocalTypes'
      BY <1>1, <1>13, IndexFacts DEF DispatcherAgain, LocalTypes, screen, mainVars
    <2> QED BY <1>13, <2>1, <2>2 DEF DispatcherAgain, DispatcherRole
  <1>14. CASE DispatcherFinish
    <2> DEFINE b == Editor(finishes)
    <2>1. finishes \in Categories /\ finishes \in 0..2 /\ finishes' = finishes + 1 /\ i' = i
          /\ i = N + 1
      BY <1>1, <1>14, IndexFacts DEF DispatcherFinish, LocalTypes
    <2>2. b \in Buffers /\ FINISH_MSG \in Sent
      BY <2>1, ThreadFacts, MessageFacts
    <2>3. InsertWait(t, "run", b, FINISH_MSG)
      BY <1>14 DEF DispatcherFinish
    <2>4. /\ Only(t) /\ queue' = queue /\ pc[t] = "run" /\ pc'[t] = "ins_put" /\ arg'[t] = b
          /\ msg'[t] = FINISH_MSG
      BY <1>1, <2>2, <2>3, InsertBegins
    <2>5. Accounts'
      BY <1>1, <1>5, <2>2, <2>3, InsertWaitAccounts
    <2>6. LocalTypes'
      BY <1>1, <1>14, <2>1 DEF DispatcherFinish, LocalTypes, screen, mainVars
    <2>7. finishes' - 1 = finishes /\ finishes' \in 1..3
      BY <2>1
    <2>8. DispatcherRole'
      BY <2>1, <2>4, <2>7 DEF DispatcherRole
    <2> QED BY <1>14, <2>3, <2>4, <2>5, <2>6, <2>8 DEF DispatcherFinish, InsertWait, Goto
  <1>15. CASE DispatcherFinished
    <2> DEFINE g == IF finishes = 3 THEN "exit" ELSE "run"
    <2>1. g \in Outside /\ g \in {"run", "exit"}
      BY <1>5
    <2> HIDE DEF g
    <2>2. Accounts' /\ Only(t) /\ pc[t] = "ins_post" /\ pc'[t] = g /\ Running /\ queue' = queue
      BY <1>4, <1>15, <2>1 DEF DispatcherFinished, InsertPost, g
    <2>3. LocalTypes'
      BY <1>1, <1>15 DEF DispatcherFinished, LocalTypes, dispatch, screen, mainVars
    <2> QED BY <1>15, <2>1, <2>2, <2>3 DEF DispatcherFinished, DispatcherRole
  <1> QED BY <1>6, <1>7, <1>8, <1>9, <1>10, <1>11, <1>12, <1>13, <1>14, <1>15 DEF DispatcherFunc

LEMMA AppendElements ==
    ASSUME NEW q \in Seq(Sent), NEW m \in Sent, NEW k \in DOMAIN Append(q, m)
    PROVE  \/ k \in DOMAIN q /\ Append(q, m)[k] = q[k]
           \/ k = Len(q) + 1 /\ Append(q, m)[k] = m
  OBVIOUS

LEMMA TailElements ==
    ASSUME NEW q \in Seq(Sent), q # <<>>
    PROVE  /\ Head(q) = q[1] /\ 1 \in DOMAIN q
           /\ \A k \in DOMAIN Tail(q) : k + 1 \in DOMAIN q /\ Tail(q)[k] = q[k + 1]
  OBVIOUS

(* Who fills and who drains a buffer. *)
LEMMA CallFacts ==
    ASSUME Base, NEW t \in Threads
    PROVE  /\ pc[t] = "ins_put" =>
                /\ msg[t] \in Sent
                /\ \/ \E p \in Producers : /\ t = Prod(p) /\ arg[t] = Prod(p)
                                           /\ IsNews(msg[t]) => msg[t][1] = p
                   \/ /\ t = Dispatcher
                      /\ \E c \in Categories : /\ arg[t] = Editor(c)
                                               /\ IsNews(msg[t]) => msg[t][2] = c
                   \/ \E c \in Categories : t = Editor(c) /\ arg[t] = Screen
           /\ pc[t] \in {"rem_get", "rem_post"} =>
                \/ t = Dispatcher /\ i \in Producers /\ arg[t] = Prod(i)
                \/ \E c \in Categories : t = Editor(c) /\ arg[t] = Editor(c)
                \/ t = Screen /\ arg[t] = Screen
  <1>1. /\ msg[t] \in Sent \union {NULL} /\ \A p \in Producers : ProducerRole(p)
        /\ DispatcherRole /\ ScreenRole /\ \A c \in Categories : EditorRole(c)
        /\ i \in 1..(N + 1) /\ finishes \in 0..3
    BY DEF Base, Accounts, CallTypes, Roles, LocalTypes
  <1>2. CASE \E p \in Producers : t = Prod(p)
    BY <1>1, <1>2 DEF ProducerRole
  <1>3. CASE t = Dispatcher
    <2>1. ASSUME pc[t] = "ins_put"
          PROVE  msg[t] \in Sent /\ \E c \in Categories : /\ arg[t] = Editor(c)
                                                          /\ IsNews(msg[t]) => msg[t][2] = c
      <3>1. CASE IsNews(msg[t])
        <4>1. msg[t] \in Sent /\ msg[t][2] \in Categories
          BY <1>1, <3>1, MessageFacts
        <4>2. arg[t] = Editor(msg[t][2])
          BY <1>1, <1>3, <2>1, <3>1, MessageFacts DEF DispatcherRole
        <4> QED BY <4>1, <4>2
      <3>2. CASE ~ IsNews(msg[t])
        <4>1. msg[t] = FINISH_MSG /\ finishes \in 1..3 /\ arg[t] = Editor(finishes - 1)
          BY <1>1, <1>3, <2>1, <3>2 DEF DispatcherRole
        <4>2. finishes - 1 \in Categories
          BY <4>1, IndexFacts
        <4> QED BY <3>2, <4>1, <4>2, MessageFacts
      <3> QED BY <3>1, <3>2
    <2>2. pc[t] \in {"rem_get", "rem_post"} => i \in Producers /\ arg[t] = Prod(i)
      BY <1>1, <1>3, IndexFacts DEF DispatcherRole
    <2> QED BY <1>3, <2>1, <2>2
  <1>4. CASE \E c \in Categories : t = Editor(c)
    BY <1>1, <1>4 DEF EditorRole
  <1>5. CASE t = Screen
    BY <1>1, <1>5 DEF ScreenRole
  <1> QED BY <1>2, <1>3, <1>4, <1>5, ThreadFacts

(* The role of a thread that goes on inside a call.                        *)
LEMMA CallRoles ==
    ASSUME Base, NEW t \in Threads, Only(t), UNCHANGED <<i, finishes, doneCount>>,
           arg'[t] = arg[t],
           \/ pc[t] = "ins_put" /\ pc'[t] = "ins_post" /\ msg'[t] = msg[t]
           \/ pc[t] = "rem_post" /\ pc'[t] = "removed" /\ msg'[t] = msg[t]
           \/ /\ pc[t] = "rem_get" /\ pc'[t] = "rem_post"
              /\ msg'[t] # NULL
              /\ IsNews(msg'[t]) => /\ t = Dispatcher => msg'[t][1] = i
                                    /\ \A c \in Categories : t = Editor(c) => msg'[t][2] = c
    PROVE  Roles'
  <1>1. CASE \E p \in Producers : t = Prod(p)
    <2>1. PICK p \in Producers : t = Prod(p)
      BY <1>1
    <2>2. ProducerRole(p)'
      BY <2>1 DEF Base, Roles, ProducerRole
    <2> QED BY <2>1, <2>2, ProducerRoles DEF Base
  <1>2. CASE t = Dispatcher
    <2>1. DispatcherRole'
      BY <1>2 DEF Base, Roles, DispatcherRole
    <2> QED BY <1>2, <2>1, DispatcherRoles DEF Base
  <1>3. CASE \E c \in Categories : t = Editor(c)
    <2>1. PICK c \in Categories : t = Editor(c)
      BY <1>3
    <2>2. EditorRole(c)'
      BY <2>1 DEF Base, Roles, EditorRole
    <2> QED BY <2>1, <2>2, EditorRoles DEF Base
  <1>4. CASE t = Screen
    <2>1. ScreenRole'
      BY <1>4 DEF Base, Roles, ScreenRole
    <2> QED BY <1>4, <2>1, ScreenRoles DEF Base
  <1> QED BY <1>1, <1>2, <1>3, <1>4, ThreadFacts

LEMMA CallBase == ASSUME Base, NEW t \in Threads, BufferCall(t) PROVE Base'
  <1>1. /\ Accounts /\ CallTypes /\ BufferTypes /\ Routed
        /\ \A b \in Buffers : queue[b] \in Seq(Sent)
    BY DEF Base, Accounts, BufferTypes
  <1>2. UNCHANGED <<count, dispatch, screen, mainVars>> /\ Running
    BY DEF BufferCall, InsertPut, RemoveGet, RemovePost, Goto
  <1>3. LocalTypes' /\ UNCHANGED <<i, finishes, doneCount>>
    BY <1>2 DEF Base, LocalTypes, dispatch, screen, mainVars
  <1>4. CASE InsertPut(t)
    <2>1. pc[t] = "ins_put"
      BY <1>4 DEF InsertPut, Goto
    <2>2. msg[t] \in Sent
      BY <2>1, CallFacts
    <2>3. /\ Only(t) /\ pc'[t] = "ins_post" /\ arg' = arg /\ msg' = msg /\ arg[t] \in Buffers
          /\ queue'[arg[t]] = Append(queue[arg[t]], msg[t])
          /\ \A d \in Buffers \ {arg[t]} : queue'[d] = queue[d]
      BY <1>1, <1>4, <2>2, Putting
    <2>4. Accounts'
      BY <1>1, <1>4, <2>2, PutAccounts
    <2>5. Roles'
      BY <1>3, <2>1, <2>3, CallRoles
    <2>6. MainAt'
      BY <1>2, <2>1, <2>3, MainKept DEF Base
    <2>7. ASSUME NEW p \in Producers, NEW k \in DOMAIN queue'[Prod(p)], IsNews(queue'[Prod(p)][k])
          PROVE  queue'[Prod(p)][k][1] = p
      <3>1. CASE arg[t] = Prod(p)
        <4>1. IsNews(msg[t]) => msg[t][1] = p
          BY <2>1, <3>1, CallFacts, ThreadFacts
        <4>2. Prod(p) \in Buffers /\ queue[Prod(p)] \in Seq(Sent)
          BY <1>1, <2>3, <3>1 DEF BufferTypes
        <4>3. queue'[Prod(p)] = Append(queue[Prod(p)], msg[t])
          BY <2>3, <3>1
        <4>4. \/ k \in DOMAIN queue[Prod(p)] /\ queue'[Prod(p)][k] = queue[Prod(p)][k]
              \/ queue'[Prod(p)][k] = msg[t]
          BY <2>2, <2>7, <4>2, <4>3, AppendElements
        <4>5. CASE k \in DOMAIN queue[Prod(p)] /\ queue'[Prod(p)][k] = queue[Prod(p)][k]
          <5>1. IsNews(queue[Prod(p)][k])
            BY <2>7, <4>5
          <5> QED BY <1>1, <4>5, <5>1 DEF Routed
        <4>6. CASE queue'[Prod(p)][k] = msg[t]
          BY <2>7, <4>1, <4>6
        <4> QED BY <4>4, <4>5, <4>6
      <3>2. CASE arg[t] # Prod(p)
        BY <1>1, <2>3, <2>7, <3>2, ThreadFacts DEF Routed
      <3> QED BY <3>1, <3>2
    <2>8. ASSUME NEW c \in Categories, NEW k \in DOMAIN queue'[Editor(c)],
                 IsNews(queue'[Editor(c)][k])
          PROVE  queue'[Editor(c)][k][2] = c
      <3>1. CASE arg[t] = Editor(c)
        <4>1. IsNews(msg[t]) => msg[t][2] = c
          BY <2>1, <3>1, CallFacts, ThreadFacts
        <4>2. Editor(c) \in Buffers /\ queue[Editor(c)] \in Seq(Sent)
          BY <1>1, <2>3, <3>1 DEF BufferTypes
        <4>3. queue'[Editor(c)] = Append(queue[Editor(c)], msg[t])
          BY <2>3, <3>1
        <4>4. \/ k \in DOMAIN queue[Editor(c)] /\ queue'[Editor(c)][k] = queue[Editor(c)][k]
              \/ queue'[Editor(c)][k] = msg[t]
          BY <2>2, <2>8, <4>2, <4>3, AppendElements
        <4>5. CASE k \in DOMAIN queue[Editor(c)] /\ queue'[Editor(c)][k] = queue[Editor(c)][k]
          <5>1. IsNews(queue[Editor(c)][k])
            BY <2>8, <4>5
          <5> QED BY <1>1, <4>5, <5>1 DEF Routed
        <4>6. CASE queue'[Editor(c)][k] = msg[t]
          BY <2>8, <4>1, <4>6
        <4> QED BY <4>4, <4>5, <4>6
      <3>2. CASE arg[t] # Editor(c)
        BY <1>1, <2>3, <2>8, <3>2, ThreadFacts DEF Routed
      <3> QED BY <3>1, <3>2
    <2> QED BY <1>3, <2>4, <2>5, <2>6, <2>7, <2>8 DEF Base, Routed
  <1>5. CASE RemoveGet(t)
    <2>1. pc[t] = "rem_get"
      BY <1>5 DEF RemoveGet, Goto
    <2>2. queue[arg[t]] # <<>>
      BY <1>1, <2>1, SomethingToGet
    <2>3. /\ Only(t) /\ pc'[t] = "rem_post" /\ arg' = arg /\ arg[t] \in Buffers
          /\ msg'[t] = Head(queue[arg[t]]) /\ msg'[t] \in Sent
          /\ queue'[arg[t]] = Tail(queue[arg[t]])
          /\ \A d \in Buffers \ {arg[t]} : queue'[d] = queue[d]
      BY <1>1, <1>5, <2>2, Getting
    <2>4. Accounts'
      BY <1>1, <1>5, GetAccounts
    <2>5. /\ msg'[t] = queue[arg[t]][1] /\ 1 \in DOMAIN queue[arg[t]] /\ msg'[t] # NULL
          /\ \A k \in DOMAIN queue'[arg[t]] :
               k + 1 \in DOMAIN queue[arg[t]] /\ queue'[arg[t]][k] = queue[arg[t]][k + 1]
      BY <1>1, <2>2, <2>3, TailElements, MessageFacts
    <2>6. IsNews(msg'[t]) => /\ t = Dispatcher => msg'[t][1] = i
                             /\ \A c \in Categories : t = Editor(c) => msg'[t][2] = c
      <3>1. t = Dispatcher => i \in Producers /\ arg[t] = Prod(i)
        BY <2>1, CallFacts, ThreadFacts
      <3>2. ASSUME NEW c \in Categories, t = Editor(c) PROVE arg[t] = Editor(c)
        BY <2>1, <3>2, CallFacts, ThreadFacts
      <3>3. ASSUME t = Dispatcher, IsNews(msg'[t]) PROVE msg'[t][1] = i
        BY <1>1, <2>5, <3>1, <3>3 DEF Routed
      <3>4. ASSUME NEW c \in Categories, t = Editor(c), IsNews(msg'[t]) PROVE msg'[t][2] = c
        BY <1>1, <2>5, <3>2, <3>4 DEF Routed
      <3> QED BY <3>3, <3>4
    <2>7. Roles'
      BY <1>3, <2>1, <2>3, <2>5, <2>6, CallRoles
    <2>8. MainAt'
      BY <1>2, <2>1, <2>3, MainKept DEF Base
    <2>9. Routed'
      <3>1. ASSUME NEW b \in Buffers, NEW k \in DOMAIN queue'[b]
            PROVE  \E j \in DOMAIN queue[b] : queue'[b][k] = queue[b][j]
        <4>1. CASE b = arg[t]
          <5>1. k + 1 \in DOMAIN queue[b] /\ queue'[b][k] = queue[b][k + 1]
            BY <2>5, <3>1, <4>1
          <5> QED BY <5>1
        <4>2. CASE b # arg[t]
          BY <2>3, <3>1, <4>2
        <4> QED BY <4>1, <4>2
      <3> QED BY <1>1, <3>1, ThreadFacts DEF Routed
    <2> QED BY <1>3, <2>4, <2>7, <2>8, <2>9 DEF Base
  <1>6. CASE RemovePost(t)
    <2>1. /\ Only(t) /\ pc[t] = "rem_post" /\ pc'[t] = "removed"
          /\ UNCHANGED <<queue, arg, msg>>
      BY <1>1, <1>6, Freeing
    <2>2. Accounts'
      BY <1>1, <1>6, FreeAccounts
    <2>3. Roles'
      BY <1>3, <2>1, CallRoles
    <2>4. MainAt'
      BY <1>2, <2>1, MainKept DEF Base
    <2> QED BY <1>1, <1>3, <2>1, <2>2, <2>3, <2>4, RoutedKept DEF Base
  <1> QED BY <1>4, <1>5, <1>6 DEF BufferCall

LEMMA MainBase == ASSUME Base, Main PROVE Base'
  <1>1. CASE MainStart
    <2> DEFINE k == mainPc[2]
               t == StartOrder[k]
    <2>1. /\ mainPc[1] = "start" /\ k \in 1..(N + 5) /\ destroyed = {} /\ MainAt
          /\ \A j \in k..(N + 5) : pc[StartOrder[j]] = "new"
      BY <1>1 DEF MainStart, Base, MainAt
    <2>2. t \in Threads /\ pc[t] = "new"
      <3>1. k \in k..(N + 5)
        BY <2>1, IndexFacts
      <3> QED BY <2>1, <3>1, StartFacts
    <2> HIDE DEF t
    <2>3. /\ pc' = [pc EXCEPT ![t] = "run"]
          /\ UNCHANGED <<queue, sems, arg, msg, count, dispatch, screen, messages, destroyed>>
      BY <1>1 DEF MainStart, t
    <2>4. CallTypes /\ CallTypes' /\ Only(t) /\ pc'[t] = "run"
      BY <2>2, <2>3 DEF Base, Accounts, CallTypes, Only, PcValues
    <2>5. Accounts'
      BY <2>2, <2>3, <2>4, MoveOutside DEF Base, Outside
    <2>6. LocalTypes' /\ Routed' /\ UNCHANGED <<i, finishes, doneCount>>
      BY <2>3, RoutedKept DEF Base, LocalTypes, dispatch, screen
    <2>7. Roles'
      <3>1. arg'[t] = arg[t] /\ Roles
        BY <2>3 DEF Base
      <3>2. ASSUME NEW p \in Producers, t = Prod(p) PROVE ProducerRole(p)'
        BY <2>4, <3>2 DEF ProducerRole
      <3>3. ASSUME t = Dispatcher PROVE DispatcherRole'
        BY <2>4, <3>3 DEF DispatcherRole
      <3>4. ASSUME NEW c \in Categories, t = Editor(c) PROVE EditorRole(c)'
        BY <2>4, <3>4 DEF EditorRole
      <3>5. ASSUME t = Screen PROVE ScreenRole'
        BY <2>2, <2>4, <2>6, <3>1, <3>5 DEF Roles, ScreenRole
      <3> QED BY <2>2, <2>4, <2>6, <3>1, <3>2, <3>3, <3>4, <3>5, ThreadFacts,
                 ProducerRoles, DispatcherRoles, EditorRoles, ScreenRoles
    <2>8. MainAt'
      <3>1. ASSUME NEW j \in (k + 1)..(N + 5) PROVE pc'[StartOrder[j]] = "new"
        <4>1. j \in k..(N + 5) /\ j \in 1..(N + 5) /\ j # k
          BY <2>1, IndexFacts
        <4>2. StartOrder[j] \in Threads /\ StartOrder[j] # t
          BY <2>1, <4>1, StartFacts DEF t
        <4> QED BY <2>1, <2>4, <4>1, <4>2 DEF Only
      <3>2. CASE k < N + 5
        <4>1. mainPc' = <<"start", k + 1>>
          BY <1>1, <3>2, StartFacts DEF MainStart
        <4>2. mainPc'[1] = "start" /\ mainPc'[2] = k + 1 /\ k + 1 \in 1..(N + 5)
          BY <2>1, <3>2, <4>1, IndexFacts
        <4>3. mainPc' \in {"start", "join", "destroy", "failed", "returned"} \X Nat
          BY <2>1, <4>1
        <4> HIDE DEF k
        <4> QED BY <2>1, <2>3, <3>1, <4>2, <4>3 DEF MainAt
      <3>3. CASE ~ (k < N + 5)
        <4>1. mainPc' = <<"join", 0>>
          BY <1>1, <3>3, StartFacts DEF MainStart
        <4>2. mainPc'[1] = "join"
              /\ mainPc' \in {"start", "join", "destroy", "failed", "returned"} \X Nat
          BY <4>1
        <4> QED BY <2>1, <2>3, <4>2 DEF MainAt
      <3> QED BY <3>2, <3>3
    <2> QED BY <2>5, <2>6, <2>7, <2>8 DEF Base
  <1>2. ASSUME UNCHANGED <<queue, sems, calls, count, dispatch, screen, messages>>, MainAt'
        PROVE  Base'
    <2>1. Accounts'
      BY <1>2 DEF Base, Accounts, CallTypes, BufferTypes, Permits, AtBuffer, SizeOf, sems, calls
    <2>2. LocalTypes' /\ Routed'
      BY <1>2, RoutedKept DEF Base, LocalTypes, dispatch, screen
    <2>3. Roles'
      BY <1>2 DEF Base, Roles, ProducerRole, DispatcherRole, EditorRole, ScreenRole,
                  calls, dispatch, screen
    <2> QED BY <1>2, <2>1, <2>2, <2>3 DEF Base
  <1>3. CASE MainFail
    <2>1. /\ mainPc' = <<"failed", 0>> /\ mainPc[1] = "start" /\ MainAt /\ pc' = pc
          /\ destroyed' = IF mainPc[2] = 1 THEN Buffers ELSE destroyed
      BY <1>3 DEF MainFail, Base, calls
    <2>2. mainPc[2] = 1 => \A t \in Threads : pc[t] = "new"
      BY <2>1, StartFacts DEF MainAt
    <2>3. mainPc'[1] = "failed"
          /\ mainPc' \in {"start", "join", "destroy", "failed", "returned"} \X Nat
      BY <2>1
    <2>4. MainAt'
      BY <2>1, <2>2, <2>3 DEF MainAt
    <2> QED BY <1>2, <1>3, <2>4 DEF MainFail
  <1>4. CASE MainJoin
    <2>1. /\ mainPc' = <<"destroy", 1>> /\ MainAt /\ pc' = pc /\ pc[Screen] = "exit"
          /\ destroyed' = destroyed
      BY <1>4 DEF MainJoin, Base, calls
    <2>2. mainPc'[1] = "destroy" /\ mainPc'[2] = 1
          /\ mainPc' \in {"start", "join", "destroy", "failed", "returned"} \X Nat
      BY <2>1
    <2>3. MainAt'
      BY <2>1, <2>2, IndexFacts DEF MainAt
    <2> QED BY <1>2, <1>4, <2>3 DEF MainJoin
  <1>5. CASE MainDestroy
    <2>1. /\ mainPc[1] = "destroy" /\ mainPc[2] \in 1..(N + 4) /\ MainAt /\ pc' = pc
          /\ pc[Screen] = "exit" /\ destroyed' = destroyed \union {DestroyOrder[mainPc[2]]}
      BY <1>5 DEF MainDestroy, Base, MainAt, calls
    <2>2. destroyed' \subseteq Buffers
      BY <2>1, DestroyFacts DEF MainAt
    <2>3. /\ mainPc' \in {"start", "join", "destroy", "failed", "returned"} \X Nat
          /\ \/ mainPc'[1] = "destroy" /\ mainPc'[2] \in 1..(N + 4)
             \/ mainPc'[1] = "returned"
      <3>1. CASE mainPc[2] < N + 4
        <4>1. mainPc' = <<"destroy", mainPc[2] + 1>>
          BY <1>5, <3>1, DestroyFacts DEF MainDestroy
        <4> QED BY <2>1, <3>1, <4>1, IndexFacts
      <3>2. CASE ~ (mainPc[2] < N + 4)
        <4>1. mainPc' = <<"returned", 0>>
          BY <1>5, <3>2, DestroyFacts DEF MainDestroy
        <4> QED BY <4>1
      <3> QED BY <3>1, <3>2
    <2>4. MainAt'
      BY <2>1, <2>2, <2>3 DEF MainAt
    <2> QED BY <1>2, <1>5, <2>4 DEF MainDestroy
  <1> QED BY <1>1, <1>3, <1>4, <1>5 DEF Main

LEMMA BaseInit == Init => Base
  <1> SUFFICES ASSUME Init PROVE Base
    OBVIOUS
  <1>1. CallTypes /\ BufferTypes
    BY ThreadFacts, IndexFacts DEF Init, CallTypes, BufferTypes, PcValues
  <1>2. ASSUME NEW b \in Buffers PROVE Permits(b)
    <2>1. ASSUME NEW loc, loc # "new" PROVE AtBuffer(b, loc) = {}
      BY <2>1 DEF Init, AtBuffer
    <2>2. /\ Cardinality(AtBuffer(b, "rem_get")) = 0 /\ Cardinality(AtBuffer(b, "ins_post")) = 0
          /\ Cardinality(AtBuffer(b, "ins_put")) = 0 /\ Cardinality(AtBuffer(b, "rem_post")) = 0
      BY <2>1, FS_EmptySet
    <2>3. /\ readSemaphore[b] = 0 /\ writeSemaphore[b] = SizeOf(b) /\ queue[b] = <<>>
      BY DEF Init
    <2> QED BY <2>2, <2>3, IndexFacts DEF Permits
  <1>3. LocalTypes
    BY IndexFacts DEF Init, LocalTypes
  <1>4. Roles
    BY ThreadFacts DEF Init, Roles, ProducerRole, DispatcherRole, EditorRole, ScreenRole
  <1>5. Routed
    BY ThreadFacts DEF Init, Routed
  <1>6. MainAt
    <2>1. mainPc = <<"start", 1>> /\ destroyed = {} /\ \A t \in Threads : pc[t] = "new"
      BY DEF Init
    <2>2. mainPc[1] = "start" /\ mainPc[2] = 1
          /\ mainPc \in {"start", "join", "destroy", "failed", "returned"} \X Nat
      BY <2>1
    <2> QED BY <2>1, <2>2, StartFacts, IndexFacts DEF MainAt
  <1> QED BY <1>1, <1>2, <1>3, <1>4, <1>5, <1>6 DEF Base, Accounts

LEMMA BaseUnchanged == ASSUME Base, UNCHANGED vars PROVE Base'
  <1>1. Accounts'
    BY DEF Base, Accounts, CallTypes, BufferTypes, Permits, AtBuffer, SizeOf, sems, calls, vars
  <1>2. LocalTypes' /\ Routed' /\ MainAt'
    BY RoutedKept DEF Base, LocalTypes, MainAt, dispatch, screen, mainVars, calls, vars
  <1>3. Roles'
    BY DEF Base, Roles, ProducerRole, DispatcherRole, EditorRole, ScreenRole,
           calls, dispatch, screen, vars
  <1> QED BY <1>1, <1>2, <1>3 DEF Base

LEMMA BaseStep == ASSUME Base, [Next]_vars PROVE Base'
  BY CallBase, ProducerBase, DispatcherBase, EditorBase, ScreenBase, MainBase, BaseUnchanged
  DEF Next, Thread, Ended

LEMMA BaseHolds == Spec => []Base
  BY BaseInit, BaseStep, PTL DEF Spec

(* The permits of the semaphores of main.c's buffers agree with their      *)
(* contents, whoever is inside insertToBuffer, removeFromBuffer or         *)
(* tryRemoveFromBuffer: no call of the news program finds an empty queue   *)
(* after its sem_wait, and none overfills one.                             *)
THEOREM TypeCorrect == Spec => []TypeOK
  <1>1. Base => TypeOK
    <2> SUFFICES ASSUME Base PROVE TypeOK
      OBVIOUS
    <2>1. /\ DOMAIN queue = Buffers
          /\ \A b \in Buffers : \A k \in DOMAIN queue[b] : IsMessage(queue[b][k])
      BY MessageFacts DEF Base, Accounts, BufferTypes
    <2>2. DOMAIN msg = Threads /\ \A t \in Threads : IsMessage(msg[t])
      BY MessageFacts DEF Base, Accounts, CallTypes
    <2> QED BY <2>1, <2>2 DEF Base, Accounts, CallTypes, BufferTypes, LocalTypes, MainAt, Permits,
                             PcValues, TypeOK
  <1> QED BY <1>1, BaseHolds, PTL

(***************************************************************************)
(* DONE, from the producers to the screen manager.                         *)
(***************************************************************************)
LEMMA FinishesFinite ==
    ASSUME NEW q \in Seq(Sent)
    PROVE  IsFiniteSet(Finishes(q)) /\ Cardinality(Finishes(q)) \in Nat
  <1>1. Finishes(q) \subseteq 1..Len(q)
    BY DEF Finishes
  <1>2. 1 \in Int /\ Len(q) \in Int
    OBVIOUS
  <1>3. IsFiniteSet(1..Len(q))
    BY <1>2, FS_Interval
  <1> QED BY <1>1, <1>3, FS_Subset, FS_CardinalityType

LEMMA FinishesAppend ==
    ASSUME NEW q \in Seq(Sent), NEW m \in Sent
    PROVE  Cardinality(Finishes(Append(q, m)))
             = Cardinality(Finishes(q)) + One(m = FINISH_MSG)
  <1>1. IsFiniteSet(Finishes(q)) /\ Cardinality(Finishes(q)) \in Nat
    BY FinishesFinite
  <1>2. /\ Append(q, m) \in Seq(Sent) /\ DOMAIN Append(q, m) = DOMAIN q \union {Len(q) + 1}
        /\ Append(q, m)[Len(q) + 1] = m /\ Len(q) + 1 \notin DOMAIN q
        /\ \A k \in DOMAIN q : Append(q, m)[k] = q[k]
    OBVIOUS
  <1>3. CASE m = FINISH_MSG
    <2>1. /\ Finishes(Append(q, m)) = Finishes(q) \union {Len(q) + 1}
          /\ Len(q) + 1 \notin Finishes(q)
      BY <1>2, <1>3 DEF Finishes
    <2>2. Cardinality(Finishes(Append(q, m))) = Cardinality(Finishes(q)) + 1
      BY <1>1, <2>1, FS_AddElement
    <2> QED BY <1>3, <2>2 DEF One
  <1>4. CASE m # FINISH_MSG
    <2>1. Finishes(Append(q, m)) = Finishes(q)
      BY <1>2, <1>4 DEF Finishes
    <2> QED BY <1>1, <1>4, <2>1 DEF One
  <1> QED BY <1>3, <1>4

LEMMA FinishesTail ==
    ASSUME NEW q \in Seq(Sent), q # <<>>
    PROVE  Cardinality(Finishes(Tail(q)))
             = Cardinality(Finishes(q)) - One(Head(q) = FINISH_MSG)
  <1> DEFINE R == Finishes(q) \ {1}
             f == [k \in R |-> k - 1]
  <1>1. IsFiniteSet(Finishes(q)) /\ Cardinality(Finishes(q)) \in Nat
    BY FinishesFinite
  <1>2. /\ Head(q) = q[1] /\ 1 \in DOMAIN q /\ DOMAIN q = 1..Len(q) /\ Len(q) \in Nat
        /\ DOMAIN Tail(q) = 1..(Len(q) - 1)
        /\ \A k \in 1..(Len(q) - 1) : Tail(q)[k] = q[k + 1]
    OBVIOUS
  <1>3. IsFiniteSet(R) /\ Cardinality(R) = Cardinality(Finishes(q)) - One(Head(q) = FINISH_MSG)
    <2>1. CASE q[1] = FINISH_MSG
      <3>1. 1 \in Finishes(q)
        BY <1>2, <2>1 DEF Finishes
      <3>2. IsFiniteSet(R) /\ Cardinality(R) = Cardinality(Finishes(q)) - 1
        BY <1>1, <3>1, FS_RemoveElement
      <3>3. Head(q) = FINISH_MSG
        BY <1>2, <2>1
      <3> QED BY <3>2, <3>3 DEF One
    <2>2. CASE q[1] # FINISH_MSG
      <3>1. R = Finishes(q)
        BY <2>2 DEF Finishes
      <3>2. One(Head(q) = FINISH_MSG) = 0
        BY <1>2, <2>2 DEF One
      <3> HIDE DEF R
      <3>3. IsFiniteSet(R) /\ Cardinality(R) = Cardinality(Finishes(q))
        BY <1>1, <3>1
      <3> QED BY <1>1, <3>2, <3>3
    <2> QED BY <2>1, <2>2
  <1>4. f \in Bijection(R, Finishes(Tail(q)))
    <2>1. \A k \in R : k \in 2..Len(q) /\ q[k] = FINISH_MSG
      BY <1>2 DEF Finishes
    <2>2. \A k \in R : k - 1 \in Finishes(Tail(q))
      <3> TAKE k \in R
      <3>1. k - 1 \in 1..(Len(q) - 1) /\ (k - 1) + 1 = k
        BY <1>2, <2>1
      <3>2. Tail(q)[k - 1] = FINISH_MSG
        BY <1>2, <2>1, <3>1
      <3> QED BY <1>2, <3>1, <3>2 DEF Finishes
    <2>3. \A k \in Finishes(Tail(q)) : k + 1 \in R /\ (k + 1) - 1 = k
      <3> TAKE k \in Finishes(Tail(q))
      <3>1. k \in 1..(Len(q) - 1) /\ Tail(q)[k] = FINISH_MSG
        BY <1>2 DEF Finishes
      <3>2. k + 1 \in 1..Len(q) /\ k + 1 # 1 /\ (k + 1) - 1 = k /\ q[k + 1] = FINISH_MSG
        BY <1>2, <3>1
      <3> QED BY <1>2, <3>2 DEF Finishes
    <2>4. \A j, k \in R : j - 1 = k - 1 => j = k
      BY <2>1
    <2> HIDE DEF R
    <2>5. f \in [R -> Finishes(Tail(q))]
      BY <2>2
    <2>6. f \in Injection(R, Finishes(Tail(q)))
      BY <2>4, <2>5 DEF Injection, IsInjective
    <2>7. \A k \in Finishes(Tail(q)) : \E j \in R : f[j] = k
      BY <2>3
    <2>8. f \in Surjection(R, Finishes(Tail(q)))
      BY <2>5, <2>7 DEF Surjection
    <2> QED BY <2>6, <2>8 DEF Bijection
  <1> HIDE DEF R, f
  <1>5. ExistsBijection(R, Finishes(Tail(q)))
    BY <1>4 DEF ExistsBijection
  <1> QED BY <1>3, <1>5, FS_Bijection

LEMMA ProducerDoneKept ==
    ASSUME NEW p \in Producers, ProducerDone(p), queue'[Prod(p)] = queue[Prod(p)],
           pc'[Prod(p)] = pc[Prod(p)], msg'[Prod(p)] = msg[Prod(p)],
           Made(p)' = Made(p), messages' = messages, isDone'[p] = isDone[p],
           TakesDone(p)' => TakesDone(p)
    PROVE  ProducerDone(p)'
  BY DEF ProducerDone, Unfinished, Finishing

LEMMA EditorDoneKept ==
    ASSUME NEW c \in Categories, EditorDone(c), queue'[Editor(c)] = queue[Editor(c)],
           pc'[Editor(c)] = pc[Editor(c)], msg'[Editor(c)] = msg[Editor(c)],
           finishes > c => finishes' > c,
           Inserting(Editor(c), {"ins_put"})' => Inserting(Editor(c), {"ins_put"}),
           Inserting(Editor(c), {"ins_put", "ins_post"})'
             => Inserting(Editor(c), {"ins_put", "ins_post"})
    PROVE  EditorDone(c)'
  BY DEF EditorDone, Unfinished, Finishing, Told

LEMMA ScreenDonesKept ==
    ASSUME ScreenDones, doneCount' + InHand' = doneCount + InHand,
           queue'[Screen] = queue[Screen], \A c \in Categories : Relayed(c)' <=> Relayed(c)
    PROVE  ScreenDones'
  <1>1. 0 \in Categories /\ 1 \in Categories /\ 2 \in Categories
    BY IndexFacts
  <1>2. Finishes(queue[Screen])' = Finishes(queue[Screen])
    BY DEF Finishes
  <1>3. \A c \in {0, 1, 2} : One(Relayed(c))' = One(Relayed(c))
    BY <1>1 DEF One
  <1> QED BY <1>2, <1>3 DEF ScreenDones

LEMMA RelayedKept ==
    ASSUME NEW c, pc'[Editor(c)] = pc[Editor(c)], msg'[Editor(c)] = msg[Editor(c)]
    PROVE  Relayed(c)' <=> Relayed(c)
  BY DEF Relayed

LEMMA InHandKept ==
    ASSUME pc'[Screen] = pc[Screen], msg'[Screen] = msg[Screen]
    PROVE  InHand' = InHand
  BY DEF InHand, One

(* What a step of a producer or of a co-editor leaves alone.               *)
LEMMA OthersEnding ==
    ASSUME Ending, NEW t \in Threads, t # Dispatcher, Only(t), UNCHANGED <<messages, dispatch>>
    PROVE  /\ AllDone'
           /\ \A p \in Producers :
                t # Prod(p) /\ Made(p)' = Made(p) /\ queue'[Prod(p)] = queue[Prod(p)]
                  => ProducerDone(p)'
           /\ \A c \in Categories :
                t # Editor(c) /\ queue'[Editor(c)] = queue[Editor(c)] => EditorDone(c)'
           /\ /\ queue'[Screen] = queue[Screen]
              /\ \A c \in Categories : t = Editor(c) => (Relayed(c)' <=> Relayed(c))
              /\ IF t = Screen THEN doneCount' + InHand' = doneCount + InHand
                               ELSE doneCount' = doneCount
              => ScreenDones'
  <1>1. /\ pc'[Dispatcher] = pc[Dispatcher] /\ arg'[Dispatcher] = arg[Dispatcher]
        /\ msg'[Dispatcher] = msg[Dispatcher]
        /\ i' = i /\ allProducersDone' = allProducersDone /\ isDone' = isDone
        /\ finishes' = finishes
    BY ThreadFacts DEF Only, dispatch
  <1>2. AllDone'
    BY <1>1 DEF Ending, AllDone
  <1>3. ASSUME NEW p \in Producers, t # Prod(p), Made(p)' = Made(p),
               queue'[Prod(p)] = queue[Prod(p)]
        PROVE  ProducerDone(p)'
    <2>1. TakesDone(p)' => TakesDone(p)
      BY <1>1 DEF TakesDone
    <2> QED BY <1>1, <1>3, <2>1, ThreadFacts, ProducerDoneKept DEF Only, Ending
  <1>4. ASSUME NEW c \in Categories, t # Editor(c), queue'[Editor(c)] = queue[Editor(c)]
        PROVE  EditorDone(c)'
    <2>1. \A b, L : Inserting(b, L)' => Inserting(b, L)
      BY <1>1 DEF Inserting
    <2> QED BY <1>1, <1>4, <2>1, ThreadFacts, EditorDoneKept DEF Only, Ending
  <1>5. ASSUME \A c \in Categories : t = Editor(c) => (Relayed(c)' <=> Relayed(c)),
               doneCount' + InHand' = doneCount + InHand, queue'[Screen] = queue[Screen]
        PROVE  ScreenDones'
    <2>1. \A c \in Categories : Relayed(c)' <=> Relayed(c)
      BY <1>5, ThreadFacts, RelayedKept DEF Only
    <2> QED BY <1>5, <2>1, ScreenDonesKept DEF Ending
  <1>6. t # Screen => InHand' = InHand
    BY ThreadFacts, InHandKept DEF Only
  <1> QED BY <1>2, <1>3, <1>4, <1>5, <1>6

LEMMA ProducerEnding ==
    ASSUME Base, Ending, NEW p \in Producers, Producer(p) \/ ProducerFail(p)
    PROVE  Ending'
  <1> DEFINE t == Prod(p)
  <1>1. /\ t \in Threads /\ t \in Buffers /\ CallTypes /\ BufferTypes /\ t # Dispatcher
        /\ t # Screen /\ \A c \in Categories : t # Editor(c)
    BY ThreadFacts DEF Base, Accounts
  <1>2. SUFFICES /\ Only(t) /\ UNCHANGED <<queue, dispatch, screen, messages>>
                 /\ \A q \in Producers \ {p} : Made(q)' = Made(q)
                 /\ ProducerDone(p)'
    BY <1>1, <1>2, OthersEnding, ThreadFacts DEF Ending, screen
  <1>3. Only(t) /\ UNCHANGED dispatch => (TakesDone(p)' <=> TakesDone(p)) /\ isDone' = isDone
    BY <1>1, ThreadFacts DEF TakesDone, Only, dispatch
  <1>4. CASE ProducerMessage(p)
    <2>1. PICK c \in Categories :
             /\ InsertWait(t, "run", t, News(p, c, count[p][c]))
             /\ count' = [count EXCEPT ![p][c] = @ + 1]
      BY <1>4 DEF ProducerMessage
    <2> DEFINE m == News(p, c, count[p][c])
    <2>2. m \in Sent /\ IsNews(m)
      BY MessageFacts DEF Base, LocalTypes
    <2>3. m # FINISH_MSG
      BY <2>2, MessageFacts
    <2> HIDE DEF m, t
    <2>4. InsertWait(t, "run", t, m)
      BY <2>1 DEF m
    <2>5. /\ Only(t) /\ pc[t] = "run" /\ queue' = queue /\ pc'[t] = "ins_put" /\ msg'[t] = m
      BY <1>1, <2>2, <2>4, InsertBegins
    <2>6. UNCHANGED <<dispatch, screen, messages>>
      BY <1>4 DEF ProducerMessage, mainVars
    <2>7. \A q \in Producers \ {p} : Made(q)' = Made(q)
      BY <2>1 DEF Made
    <2>8. ~ Finishing(queue[t]) /\ ~ TakesDone(p) /\ ~ isDone[p] /\ Unfinished(queue[t])
      BY <2>5 DEF Ending, ProducerDone, t
    <2>9. ProducerDone(p)'
      BY <1>3, <2>3, <2>5, <2>6, <2>8 DEF ProducerDone, t, Finishing, Unfinished
    <2> QED BY <2>5, <2>6, <2>7, <2>9 DEF t
  <1>5. CASE ProducerFinish(p)
    <2>1. /\ InsertWait(t, "run", t, FINISH_MSG) /\ UNCHANGED <<count, dispatch, screen, messages>>
          /\ Made(p) = messages[p]
      BY <1>5 DEF ProducerFinish, mainVars
    <2> HIDE DEF t
    <2>2. /\ Only(t) /\ pc[t] = "run" /\ queue' = queue /\ pc'[t] = "ins_put"
      BY <1>1, <2>1, InsertBegins, MessageFacts
    <2>3. \A q \in Producers : Made(q)' = Made(q)
      BY <2>1 DEF Made
    <2>4. ~ Finishing(queue[t]) /\ ~ TakesDone(p) /\ ~ isDone[p] /\ Unfinished(queue[t])
      BY <2>2 DEF Ending, ProducerDone, t
    <2>5. ProducerDone(p)'
      BY <1>3, <2>1, <2>2, <2>3, <2>4 DEF ProducerDone, t, Finishing, Unfinished
    <2> QED BY <2>1, <2>2, <2>3, <2>5 DEF t
  <1>6. ASSUME NEW f \in {"run", "ins_post"}, NEW g \in {"run", "exit"}, EndBody(t, f, g),
               f = "ins_post" /\ msg[t] = FINISH_MSG => g = "exit",
               UNCHANGED <<queue, count, dispatch, screen, messages>>
        PROVE  /\ Only(t) /\ UNCHANGED <<queue, dispatch, screen, messages>>
               /\ \A q \in Producers \ {p} : Made(q)' = Made(q)
               /\ ProducerDone(p)'
    <2> HIDE DEF t
    <2>1. g \in PcValues
      BY DEF PcValues
    <2>2. Only(t) /\ pc[t] = f /\ pc'[t] = g
      BY <1>1, <1>6, <2>1, BodyEnds
    <2>3. \A q \in Producers : Made(q)' = Made(q)
      BY <1>6 DEF Made
    <2>4. ProducerDone(p)'
      BY <1>3, <1>6, <2>2, <2>3 DEF Ending, ProducerDone, t, Finishing, Unfinished
    <2> QED BY <1>6, <2>2, <2>3, <2>4
  <1>7. CASE ProducerPosted(p)
    BY <1>6, <1>7 DEF ProducerPosted, InsertPost, Publish, mainVars
  <1>8. CASE ProducerFail(p)
    BY <1>6, <1>8 DEF ProducerFail, mainVars
  <1> HIDE DEF t
  <1> QED BY <1>4, <1>5, <1>7, <1>8 DEF Producer

LEMMA EditorEnding ==
    ASSUME Base, Ending, NEW c \in Categories, CoEditor(c)
    PROVE  Ending'
  <1> DEFINE t == Editor(c)
  <1>1. /\ t \in Threads /\ t \in Buffers /\ CallTypes /\ BufferTypes /\ t # Dispatcher
        /\ t # Screen /\ Screen \in Buffers /\ \A p \in Producers : t # Prod(p)
    BY ThreadFacts DEF Base, Accounts
  <1>2. UNCHANGED <<count, queue, dispatch, screen, messages>>
    BY DEF CoEditor, CoEditorRemove, CoEditorForward, CoEditorPosted, CoEditorTest,
           RemoveWait, InsertWait, Publish, mainVars
  <1>3. SUFFICES Only(t) /\ (Told(c)' => Told(c)) /\ (Relayed(c)' <=> Relayed(c))
    <2>1. \A p \in Producers : Made(p)' = Made(p)
      BY <1>2 DEF Made
    <2>2. EditorDone(c)'
      <3>1. \A b, L : Inserting(b, L)' => Inserting(b, L)
        BY <1>1, <1>3, ThreadFacts DEF Inserting, Only
      <3> QED BY <1>2, <1>3, <3>1 DEF Ending, EditorDone, Unfinished, Finishing, dispatch
    <2>3. \A d \in Categories : t = Editor(d) => d = c
      BY ThreadFacts
    <2>4. doneCount' = doneCount
      BY <1>2 DEF screen
    <2> HIDE DEF t
    <2> QED BY <1>1, <1>2, <1>3, <2>1, <2>2, <2>3, <2>4, OthersEnding DEF Ending
  <1>4. CASE CoEditorRemove(c)
    <2>1. RemoveWait(t, "run", t)
      BY <1>4 DEF CoEditorRemove
    <2> HIDE DEF t
    <2>2. Only(t) /\ pc[t] = "run" /\ pc'[t] = "rem_get"
      BY <1>1, <2>1, RemoveBegins
    <2> QED BY <2>2 DEF Told, Relayed, t
  <1>5. CASE CoEditorForward(c)
    <2> DEFINE m == msg[t]
    <2>1. InsertWait(t, "removed", Screen, m)
      BY <1>5 DEF CoEditorForward
    <2>2. pc[t] = "removed" /\ pc'[t] = "ins_put"
      BY <1>1, <2>1 DEF InsertWait, Goto, CallTypes
    <2>3. m \in Sent
      BY <1>1, <2>2, MessageFacts DEF Base, Roles, EditorRole, CallTypes
    <2> HIDE DEF t, m
    <2>4. Only(t) /\ msg'[t] = m
      BY <1>1, <2>1, <2>3, InsertBegins
    <2> QED BY <2>2, <2>4 DEF Told, Relayed, t, m
  <1>6. CASE CoEditorPosted(c)
    <2>1. Goto(t, "ins_post", "test") /\ UNCHANGED <<arg, msg>> /\ "test" \in PcValues
      BY <1>6 DEF CoEditorPosted, PcValues
    <2> HIDE DEF t
    <2>2. Only(t) /\ pc[t] = "ins_post" /\ pc'[t] = "test" /\ msg'[t] = msg[t]
      BY <1>1, <2>1, Moving
    <2> QED BY <2>2 DEF Told, Relayed, t
  <1>7. CASE CoEditorTest(c)
    <2> DEFINE g == IF msg[t] = FINISH_MSG THEN "exit" ELSE "run"
    <2>1. EndBody(t, "test", g) /\ g \in PcValues
      BY <1>7 DEF CoEditorTest, PcValues
    <2> HIDE DEF t, g
    <2>2. Only(t) /\ pc[t] = "test" /\ pc'[t] = g
      BY <1>1, <2>1, BodyEnds
    <2> QED BY <2>2 DEF Told, Relayed, t, g
  <1> HIDE DEF t
  <1> QED BY <1>4, <1>5, <1>6, <1>7 DEF CoEditor

LEMMA ScreenEnding == ASSUME Base, Ending, ScreenManager PROVE Ending'
  <1>1. /\ Screen \in Threads /\ Screen \in Buffers /\ CallTypes /\ BufferTypes
        /\ Screen # Dispatcher /\ (\A p \in Producers : Screen # Prod(p))
        /\ \A c \in Categories : Screen # Editor(c)
    BY ThreadFacts DEF Base, Accounts
  <1>2. UNCHANGED <<count, queue, dispatch, messages>>
    BY DEF ScreenManager, ScreenRemove, ScreenPrint, ScreenDone, RemoveWait, mainVars
  <1>3. SUFFICES Only(Screen) /\ doneCount' + InHand' = doneCount + InHand
    <2>1. \A p \in Producers : Made(p)' = Made(p)
      BY <1>2 DEF Made
    <2> QED BY <1>1, <1>2, <1>3, <2>1, OthersEnding DEF Ending
  <1>4. CASE ScreenRemove
    <2>1. Only(Screen) /\ pc[Screen] = "run" /\ pc'[Screen] = "rem_get"
      BY <1>1, <1>4, RemoveBegins DEF ScreenRemove
    <2> QED BY <1>4, <2>1 DEF ScreenRemove, screen, InHand, One
  <1>5. CASE ScreenPrint
    <2>1. "run" \in PcValues
      BY DEF PcValues
    <2>2. Only(Screen) /\ pc[Screen] = "removed" /\ pc'[Screen] = "run"
      BY <1>1, <1>5, <2>1, BodyEnds DEF ScreenPrint
    <2>3. msg[Screen] # FINISH_MSG
      BY <1>5, MessageFacts DEF ScreenPrint
    <2> QED BY <1>5, <2>2, <2>3 DEF ScreenPrint, InHand, One
  <1>6. CASE ScreenDone
    <2> DEFINE g == IF doneCount + 1 = 3 THEN "exit" ELSE "run"
    <2>1. g \in PcValues /\ g \in {"exit", "run"} /\ EndBody(Screen, "removed", g)
      BY <1>6 DEF PcValues, ScreenDone
    <2> HIDE DEF g
    <2>2. Only(Screen) /\ pc[Screen] = "removed" /\ pc'[Screen] = g
      BY <1>1, <2>1, BodyEnds
    <2>3. InHand = 1 /\ InHand' = 0
      BY <1>6, <2>1, <2>2 DEF ScreenDone, InHand, One
    <2>4. doneCount \in Nat /\ doneCount' = doneCount + 1
      BY <1>6 DEF ScreenDone, Base, LocalTypes
    <2> QED BY <2>2, <2>3, <2>4
  <1> QED BY <1>4, <1>5, <1>6 DEF ScreenManager

LEMMA DispatcherEnding == ASSUME Base, Ending, DispatcherFunc PROVE Ending'
  <1> DEFINE t == Dispatcher
  <1>1. /\ t \in Threads /\ CallTypes /\ BufferTypes /\ DispatcherRole /\ LocalTypes /\ AllDone
        /\ \A p \in Producers : t # Prod(p)
        /\ \A c \in Categories : t # Editor(c)
        /\ t # Screen
    BY ThreadFacts DEF Base, Accounts, Roles, Ending
  <1>2. UNCHANGED <<count, queue, screen, messages>>
    BY DEF DispatcherFunc, DispatcherSkip, DispatcherPoll, DispatcherTake, DispatcherNothing,
           DispatcherDone, DispatcherRoute, DispatcherRouted, DispatcherAgain, DispatcherFinish,
           DispatcherFinished, RemoveWait, InsertWait, InsertPost, Publish, mainVars
  <1> DEFINE Goal ==
        /\ Only(t) /\ AllDone' /\ pc'[t] \notin {"rem_post", "removed"}
        /\ \A p \in Producers : isDone'[p] => isDone[p] \/ TakesDone(p)
        /\ \A c \in Categories :
             /\ finishes > c => finishes' > c
             /\ pc'[t] \in {"ins_put", "ins_post"} /\ arg'[t] = Editor(c) => ~ (finishes > c)
  <1>3. SUFFICES Goal
    <2>1. /\ \A p \in Producers : pc'[Prod(p)] = pc[Prod(p)] /\ msg'[Prod(p)] = msg[Prod(p)]
          /\ \A c \in Categories : pc'[Editor(c)] = pc[Editor(c)] /\ msg'[Editor(c)] = msg[Editor(c)]
          /\ pc'[Screen] = pc[Screen] /\ msg'[Screen] = msg[Screen]
      BY <1>1, <1>3, ThreadFacts DEF Only
    <2>2. ScreenDones'
      BY <1>2, <2>1, RelayedKept, InHandKept, ScreenDonesKept DEF Ending, screen
    <2>3. ASSUME NEW p \in Producers PROVE ProducerDone(p)'
      <3>1. Made(p)' = Made(p) /\ ~ TakesDone(p)'
        BY <1>2, <1>3 DEF Made, TakesDone
      <3>2. ProducerDone(p)
        BY DEF Ending
      <3> QED BY <1>2, <1>3, <2>1, <3>1, <3>2 DEF ProducerDone, Unfinished, Finishing
    <2>4. ASSUME NEW c \in Categories PROVE EditorDone(c)'
      <3>1. EditorDone(c) /\ (Told(c)' <=> Told(c))
        BY <2>1 DEF Ending, Told
      <3>2. Finishing(queue[Editor(c)]) \/ Told(c) =>
              finishes' > c /\ ~ Inserting(Editor(c), {"ins_put", "ins_post"})'
        BY <1>3, <3>1 DEF EditorDone, Inserting
      <3>3. ~ Inserting(Editor(c), {"ins_put", "ins_post"})' => ~ Inserting(Editor(c), {"ins_put"})'
        BY DEF Inserting
      <3> QED BY <1>2, <3>1, <3>2, <3>3 DEF EditorDone, Unfinished, Finishing
    <2> QED BY <1>3, <2>2, <2>3, <2>4 DEF Ending
  <1>4. ASSUME NEW f, NEW g \in PcValues, Goto(t, f, g), UNCHANGED <<arg, msg>>
        PROVE  Only(t) /\ pc[t] = f /\ pc'[t] = g
    BY <1>1, <1>4, Moving
  <1>5. ASSUME NEW f, NEW g \in PcValues, EndBody(t, f, g)
        PROVE  Only(t) /\ pc[t] = f /\ pc'[t] = g
    BY <1>1, <1>5, BodyEnds
  <1>6. "run" \in PcValues /\ "try" \in PcValues /\ "exit" \in PcValues
    BY DEF PcValues
  <1>7. /\ i \in Nat /\ finishes \in 0..3 /\ Categories = {0, 1, 2}
        /\ isDone \in [Producers -> BOOLEAN] /\ allProducersDone \in BOOLEAN
        /\ \A p \in Producers : p \in Nat
    BY <1>1, IndexFacts DEF LocalTypes
  <1>8. CASE DispatcherSkip
    <2>1. Only(t) /\ pc[t] = "run" /\ pc'[t] = "run"
      BY <1>4, <1>6, <1>8 DEF DispatcherSkip
    <2> QED BY <1>1, <1>7, <1>8, <2>1, IndexFacts DEF DispatcherSkip, AllDone
  <1>9. CASE DispatcherPoll
    <2>1. Only(t) /\ pc[t] = "run" /\ pc'[t] = "try"
      BY <1>4, <1>6, <1>9 DEF DispatcherPoll
    <2> QED BY <1>1, <1>7, <1>9, <2>1, IndexFacts DEF DispatcherPoll, AllDone
  <1>10. CASE DispatcherTake
    <2>1. pc[t] = "try" /\ RemoveWait(t, "try", Prod(i)) /\ UNCHANGED dispatch
      BY <1>10 DEF DispatcherTake, RemoveWait, Goto
    <2>2. Prod(i) \in Buffers
      BY <1>1, <1>7, <2>1, IndexFacts, ThreadFacts DEF DispatcherRole, LocalTypes
    <2>3. Only(t) /\ pc'[t] = "rem_get"
      BY <1>1, <2>1, <2>2, RemoveBegins
    <2> QED BY <1>1, <2>1, <2>3 DEF AllDone, dispatch
  <1>11. CASE DispatcherNothing
    <2>1. Only(t) /\ pc[t] = "try" /\ pc'[t] = "run"
      BY <1>4, <1>6, <1>11 DEF DispatcherNothing
    <2> QED BY <1>1, <1>7, <1>11, <2>1, IndexFacts DEF DispatcherNothing, AllDone
  <1>12. CASE DispatcherDone
    <2>1. Only(t) /\ pc[t] = "removed" /\ pc'[t] = "run" /\ msg[t] = FINISH_MSG
      BY <1>5, <1>6, <1>12 DEF DispatcherDone
    <2>2. \A p \in Producers : isDone'[p] => isDone[p] \/ TakesDone(p)
      BY <1>7, <1>12, <2>1 DEF DispatcherDone, TakesDone
    <2> QED BY <1>1, <1>7, <1>12, <2>1, <2>2, IndexFacts DEF DispatcherDone, AllDone
  <1>13. CASE DispatcherRoute
    <2> DEFINE m == msg[t]
               b == Editor(m[2])
    <2>1. pc[t] = "removed" /\ InsertWait(t, "removed", b, m) /\ UNCHANGED dispatch /\ IsNews(m)
      BY <1>13 DEF DispatcherRoute, InsertWait, Goto
    <2>2. m \in Sent /\ m[2] \in Categories
      BY <1>1, <2>1, MessageFacts DEF DispatcherRole, CallTypes
    <2>3. b \in Buffers
      BY <2>2, ThreadFacts
    <2>4. ~ allProducersDone /\ finishes = 0
      BY <1>1, <1>7, <2>1 DEF AllDone
    <2> HIDE DEF m, b
    <2>5. Only(t) /\ pc'[t] = "ins_put"
      BY <1>1, <2>1, <2>2, <2>3, InsertBegins
    <2> QED BY <1>1, <1>7, <2>1, <2>4, <2>5 DEF AllDone, dispatch
  <1>14. CASE DispatcherRouted
    <2>1. Only(t) /\ pc[t] = "ins_post" /\ pc'[t] = "run" /\ ~ allProducersDone
      BY <1>1, <1>5, <1>6, <1>14 DEF DispatcherRouted, InsertPost, AllDone
    <2> QED BY <1>1, <1>7, <1>14, <2>1, IndexFacts DEF DispatcherRouted, AllDone
  <1>15. CASE DispatcherAgain
    <2>1. Only(t) /\ pc[t] = "run" /\ pc'[t] = "run"
      BY <1>4, <1>6, <1>15 DEF DispatcherAgain
    <2> QED BY <1>1, <1>7, <1>15, <2>1, IndexFacts DEF DispatcherAgain, AllDone
  <1>16. CASE DispatcherFinish
    <2> DEFINE b == Editor(finishes)
    <2>1. /\ InsertWait(t, "run", b, FINISH_MSG) /\ finishes \in {0, 1, 2}
          /\ finishes' = finishes + 1 /\ i > N /\ allProducersDone
          /\ UNCHANGED <<i, allProducersDone, isDone>>
      BY <1>7, <1>16 DEF DispatcherFinish
    <2>2. b \in Buffers /\ FINISH_MSG \in Sent /\ ~ IsNews(FINISH_MSG) /\ i = N + 1
      BY <1>1, <1>7, <2>1, ThreadFacts, MessageFacts, IndexFacts DEF LocalTypes
    <2> HIDE DEF b
    <2>3. Only(t) /\ pc'[t] = "ins_put" /\ arg'[t] = b /\ msg'[t] = FINISH_MSG
      <3>1. t \in Threads /\ CallTypes /\ BufferTypes /\ b \in Buffers /\ FINISH_MSG \in Sent
        BY <1>1, <2>2
      <3>2. InsertWait(t, "run", b, FINISH_MSG)
        BY <2>1
      <3> HIDE DEF t
      <3> QED BY <3>1, <3>2, InsertBegins
    <2>4. AllDone'
      BY <1>1, <1>7, <2>1, <2>2, <2>3 DEF AllDone
    <2>5. \A c \in Categories : arg'[t] = Editor(c) => c = finishes
      BY <1>7, <2>1, <2>3, ThreadFacts DEF b
    <2> QED BY <1>7, <2>1, <2>3, <2>4, <2>5
  <1>17. CASE DispatcherFinished
    <2> DEFINE g == IF finishes = 3 THEN "exit" ELSE "run"
    <2>1. g \in PcValues /\ g \in {"run", "exit"} /\ (finishes = 3 => g = "exit")
      BY <1>6
    <2>2. EndBody(t, "ins_post", g) /\ UNCHANGED dispatch
      BY <1>17 DEF DispatcherFinished, InsertPost
    <2> HIDE DEF g
    <2>3. Only(t) /\ pc[t] = "ins_post" /\ pc'[t] = g
      BY <1>5, <2>1, <2>2
    <2> QED BY <1>1, <1>7, <2>1, <2>2, <2>3 DEF AllDone, dispatch
  <1> HIDE DEF Goal
  <1> QED BY <1>8, <1>9, <1>10, <1>11, <1>12, <1>13, <1>14, <1>15, <1>16, <1>17 DEF DispatcherFunc

(* What a call does to a buffer that has DONE at most at its end.          *)
LEMMA UnfinishedAppend ==
    ASSUME NEW q \in Seq(Sent), NEW m \in Sent, ~ Finishing(q)
    PROVE  Unfinished(Append(q, m)) /\ (Finishing(Append(q, m)) <=> m = FINISH_MSG)
  <1>1. /\ DOMAIN Append(q, m) = DOMAIN q \union {Len(q) + 1}
        /\ Append(q, m)[Len(q) + 1] = m /\ Len(Append(q, m)) = Len(q) + 1
        /\ \A k \in DOMAIN q : Append(q, m)[k] = q[k]
    OBVIOUS
  <1> QED BY <1>1 DEF Unfinished, Finishing

LEMMA UnfinishedTail ==
    ASSUME NEW q \in Seq(Sent), q # <<>>, Unfinished(q)
    PROVE  /\ Unfinished(Tail(q)) /\ (Finishing(Tail(q)) => Finishing(q))
           /\ Head(q) = FINISH_MSG => Len(q) = 1 /\ Tail(q) = <<>> /\ Finishing(q)
  <1>1. /\ Head(q) = q[1] /\ 1 \in DOMAIN q /\ Len(q) \in Nat
        /\ Len(Tail(q)) = Len(q) - 1 /\ DOMAIN Tail(q) = 1..(Len(q) - 1)
        /\ DOMAIN q = 1..Len(q)
        /\ Len(q) = 1 => Tail(q) = <<>>
    <2>1. Tail(q) \in Seq(Sent) /\ Len(Tail(q)) = Len(q) - 1 /\ Len(q) \in Nat /\ Len(q) > 0
      <3>1. Tail(q) \in Seq(Sent) /\ Len(Tail(q)) = Len(q) - 1
        BY HeadTailProperties
      <3>2. Len(q) \in Nat \ {0}
        BY EmptySeq
      <3> QED BY <3>1, <3>2
    <2>2. Len(q) = 1 => Tail(q) = <<>>
      <3>1. Tail(q) # <<>> => Len(Tail(q)) \in Nat \ {0}
        BY <2>1, EmptySeq
      <3> QED BY <2>1, <3>1
    <2>3. Head(q) = q[1] /\ DOMAIN q = 1..Len(q) /\ DOMAIN Tail(q) = 1..Len(Tail(q))
      BY <2>1, HeadTailProperties, LenProperties
    <2> QED BY <2>1, <2>2, <2>3
  <1>2. \A k \in DOMAIN Tail(q) : k + 1 \in DOMAIN q /\ Tail(q)[k] = q[k + 1]
    BY TailElements
  <1>3. ASSUME NEW k \in DOMAIN Tail(q), Tail(q)[k] = FINISH_MSG
        PROVE  k = Len(Tail(q)) /\ Finishing(q)
    <2>1. k + 1 = Len(q) /\ Finishing(q)
      BY <1>2, <1>3 DEF Unfinished, Finishing
    <2> QED BY <1>1, <2>1
  <1>4. ASSUME Head(q) = FINISH_MSG PROVE Len(q) = 1 /\ Finishing(q)
    BY <1>1, <1>4 DEF Unfinished, Finishing
  <1> QED BY <1>1, <1>3, <1>4 DEF Unfinished, Finishing

(* The dispatcher inside a call. *)
LEMMA DispatcherCalling ==
    ASSUME Ending, Only(Dispatcher), UNCHANGED <<messages, count, dispatch, screen>>,
           \/ /\ pc[Dispatcher] = "ins_put" /\ pc'[Dispatcher] = "ins_post"
              /\ msg'[Dispatcher] = msg[Dispatcher]
           \/ /\ pc[Dispatcher] \in {"rem_get", "rem_post"}
              /\ pc'[Dispatcher] \in {"rem_post", "removed"}
    PROVE  /\ AllDone'
           /\ \A p \in Producers :
                queue'[Prod(p)] = queue[Prod(p)] /\ (TakesDone(p)' => TakesDone(p))
                  => ProducerDone(p)'
           /\ \A c \in Categories :
                /\ queue'[Editor(c)] = queue[Editor(c)]
                /\ ~ Inserting(Editor(c), {"ins_put", "ins_post"})'
                => EditorDone(c)'
           /\ queue'[Screen] = queue[Screen] => ScreenDones'
  <1>1. /\ \A p \in Producers : pc'[Prod(p)] = pc[Prod(p)] /\ msg'[Prod(p)] = msg[Prod(p)]
        /\ \A c \in Categories : pc'[Editor(c)] = pc[Editor(c)] /\ msg'[Editor(c)] = msg[Editor(c)]
        /\ pc'[Screen] = pc[Screen] /\ msg'[Screen] = msg[Screen]
    BY ThreadFacts DEF Only
  <1>2. /\ i' = i /\ allProducersDone' = allProducersDone /\ isDone' = isDone
        /\ finishes' = finishes /\ doneCount' = doneCount /\ messages' = messages
        /\ \A p \in Producers : Made(p)' = Made(p)
    BY DEF dispatch, screen, Made
  <1>3. AllDone'
    BY <1>2 DEF Ending, AllDone
  <1>4. ASSUME NEW p \in Producers, queue'[Prod(p)] = queue[Prod(p)], TakesDone(p)' => TakesDone(p)
        PROVE  ProducerDone(p)'
    BY <1>1, <1>2, <1>4, ProducerDoneKept DEF Ending
  <1>5. ASSUME NEW c \in Categories, queue'[Editor(c)] = queue[Editor(c)],
               ~ Inserting(Editor(c), {"ins_put", "ins_post"})'
        PROVE  EditorDone(c)'
    <2>1. ~ Inserting(Editor(c), {"ins_put"})'
      BY <1>5 DEF Inserting
    <2> QED BY <1>1, <1>2, <1>5, <2>1, EditorDoneKept DEF Ending
  <1>6. ASSUME queue'[Screen] = queue[Screen] PROVE ScreenDones'
    BY <1>1, <1>2, <1>6, RelayedKept, InHandKept, ScreenDonesKept DEF Ending
  <1> QED BY <1>3, <1>4, <1>5, <1>6

LEMMA PutEnding == ASSUME Base, Ending, NEW t \in Threads, InsertPut(t) PROVE Ending'
  <1>1. UNCHANGED <<messages, count, dispatch, screen>> /\ pc[t] = "ins_put"
    BY DEF InsertPut, Goto, mainVars
  <1>2. msg[t] \in Sent /\ \A b \in Buffers : queue[b] \in Seq(Sent)
    BY <1>1, CallFacts DEF Base, Accounts, BufferTypes
  <1>3. /\ Only(t) /\ pc'[t] = "ins_post" /\ arg'[t] = arg[t] /\ msg'[t] = msg[t]
        /\ arg[t] \in Buffers
        /\ queue'[arg[t]] = Append(queue[arg[t]], msg[t])
        /\ \A d \in Buffers \ {arg[t]} : queue'[d] = queue[d]
    BY <1>2, Putting DEF Base, Accounts
  <1>4. (\A p \in Producers : Made(p)' = Made(p)) /\ doneCount' = doneCount
        /\ isDone' = isDone /\ finishes' = finishes /\ i' = i
    BY <1>1 DEF Made, screen, dispatch
  <1>5. ASSUME NEW p \in Producers, t = Prod(p), arg[t] = Prod(p) PROVE Ending'
    <2>1. /\ \A q \in Producers \ {p} : t # Prod(q) /\ queue'[Prod(q)] = queue[Prod(q)]
          /\ \A c \in Categories : t # Editor(c) /\ queue'[Editor(c)] = queue[Editor(c)]
          /\ t # Screen /\ t # Dispatcher /\ queue'[Screen] = queue[Screen]
      BY <1>3, <1>5, ThreadFacts
    <2>2. ProducerDone(p) /\ Prod(p) \in Buffers
      BY ThreadFacts DEF Ending
    <2>3. ~ Finishing(queue[t]) /\ ~ TakesDone(p) /\ ~ isDone[p]
      BY <1>1, <1>5, <2>2 DEF ProducerDone
    <2>4. Unfinished(queue'[t]) /\ (Finishing(queue'[t]) <=> msg[t] = FINISH_MSG)
      BY <1>2, <1>3, <1>5, <2>2, <2>3, UnfinishedAppend
    <2>5. TakesDone(p)' <=> TakesDone(p)
      BY <1>3, <1>4, <2>1, ThreadFacts DEF Only, TakesDone
    <2>6. msg[t] = FINISH_MSG => Made(p) = messages[p]
      BY <1>1, <1>5, <2>2 DEF ProducerDone
    <2>7. ProducerDone(p)'
      BY <1>1, <1>3, <1>4, <1>5, <2>3, <2>4, <2>5, <2>6 DEF ProducerDone, Unfinished, Finishing
    <2> QED BY <1>1, <1>3, <1>4, <2>1, <2>7, OthersEnding DEF Ending
  <1>6. ASSUME NEW c \in Categories, t = Dispatcher, arg[t] = Editor(c) PROVE Ending'
    <2>1. /\ \A p \in Producers : queue'[Prod(p)] = queue[Prod(p)]
          /\ \A d \in Categories \ {c} : /\ queue'[Editor(d)] = queue[Editor(d)]
                                         /\ Editor(d) # Editor(c)
          /\ queue'[Screen] = queue[Screen]
      BY <1>3, <1>6, ThreadFacts
    <2>2. /\ \A p \in Producers : ~ TakesDone(p)'
          /\ \A d \in Categories \ {c} : ~ Inserting(Editor(d), {"ins_put", "ins_post"})'
          /\ Inserting(Editor(c), {"ins_put"}) /\ Inserting(Editor(c), {"ins_put", "ins_post"})
          /\ ~ Inserting(Editor(c), {"ins_put"})'
      BY <1>1, <1>3, <1>6, <2>1 DEF TakesDone, Inserting
    <2>3. EditorDone(c) /\ Editor(c) \in Buffers /\ Editor(c) # Dispatcher
      BY ThreadFacts DEF Ending
    <2>4. ~ Finishing(queue[Editor(c)]) /\ ~ Told(c)
      BY <2>2, <2>3 DEF EditorDone
    <2>5. /\ Unfinished(queue'[Editor(c)])
          /\ Finishing(queue'[Editor(c)]) <=> msg[t] = FINISH_MSG
      BY <1>2, <1>3, <1>6, <2>3, <2>4, UnfinishedAppend
    <2>6. msg[t] = FINISH_MSG => finishes > c
      <3>1. ASSUME msg[t] = FINISH_MSG PROVE finishes \in 1..3 /\ Editor(c) = Editor(finishes - 1)
        BY <1>1, <1>6, <3>1, MessageFacts DEF Base, Roles, DispatcherRole
      <3>2. ASSUME msg[t] = FINISH_MSG PROVE finishes - 1 = c
        BY <3>1, <3>2, ThreadFacts, IndexFacts
      <3> QED BY <3>1, <3>2, IndexFacts
    <2>7. ~ Told(c)'
      BY <1>3, <1>6, <2>3, <2>4, ThreadFacts DEF Only, Told
    <2>8. EditorDone(c)'
      BY <1>4, <2>2, <2>5, <2>6, <2>7 DEF EditorDone, Unfinished, Finishing
    <2> QED BY <1>1, <1>3, <1>6, <2>1, <2>2, <2>8, DispatcherCalling DEF Ending
  <1>7. ASSUME NEW c \in Categories, t = Editor(c), arg[t] = Screen PROVE Ending'
    <2>1. /\ \A p \in Producers : t # Prod(p) /\ queue'[Prod(p)] = queue[Prod(p)]
          /\ \A d \in Categories : queue'[Editor(d)] = queue[Editor(d)]
          /\ \A d \in Categories \ {c} : t # Editor(d)
          /\ t # Screen /\ t # Dispatcher
      BY <1>3, <1>7, ThreadFacts
    <2>2. (Told(c)' <=> Told(c)) /\ ~ Relayed(c) /\ (Relayed(c)' <=> msg[t] = FINISH_MSG)
      BY <1>1, <1>3, <1>7 DEF Told, Relayed
    <2>3. EditorDone(c)'
      <3>1. \A b, L : Inserting(b, L)' <=> Inserting(b, L)
        BY <1>3, <2>1, ThreadFacts DEF Only, Inserting
      <3>2. EditorDone(c)
        BY DEF Ending
      <3> QED BY <1>4, <2>1, <2>2, <3>1, <3>2 DEF EditorDone, Unfinished, Finishing
    <2>4. /\ InHand' = InHand
          /\ \A d \in Categories \ {c} : Relayed(d)' <=> Relayed(d)
      BY <1>3, <2>1, ThreadFacts, RelayedKept, InHandKept DEF Only
    <2>5. ScreenDones'
      <3> DEFINE s == queue[Screen]
                 m == msg[t]
      <3>1. s \in Seq(Sent) /\ queue'[Screen] = Append(s, m) /\ m \in Sent
        BY <1>2, <1>3, <1>7, ThreadFacts
      <3>2. Append(s, m)[Len(Append(s, m))] = m
        BY <3>1
      <3>3. /\ Cardinality(Finishes(Append(s, m))) = Cardinality(Finishes(s)) + One(m = FINISH_MSG)
            /\ Cardinality(Finishes(s)) \in Nat
        BY <3>1, FinishesAppend, FinishesFinite
      <3>4. doneCount + InHand + Cardinality(Finishes(s))
              = One(Relayed(0)) + One(Relayed(1)) + One(Relayed(2))
        BY DEF Ending, ScreenDones
      <3>5. One(Relayed(0))' + One(Relayed(1))' + One(Relayed(2))'
              = One(Relayed(0)) + One(Relayed(1)) + One(Relayed(2)) + One(m = FINISH_MSG)
        BY <2>2, <2>4, IndexFacts DEF One
      <3>6. (\A d \in Categories : Relayed(d)') => m = FINISH_MSG
        BY <2>2
      <3>7. Finishes(queue[Screen])' = Finishes(Append(s, m))
        BY <3>1 DEF Finishes
      <3>8. InHand \in Nat /\ doneCount \in Nat
        BY DEF InHand, One, Base, LocalTypes
      <3> DEFINE n == Cardinality(Finishes(s))
      <3>9. n \in Nat /\ One(m = FINISH_MSG) \in Nat
        BY <3>3 DEF One
      <3> HIDE DEF s, m, n
      <3>10. doneCount' + InHand' + Cardinality(Finishes(queue[Screen])')
               = One(Relayed(0))' + One(Relayed(1))' + One(Relayed(2))'
        BY <1>4, <2>4, <3>3, <3>4, <3>5, <3>7, <3>8, <3>9 DEF n
      <3> QED BY <3>1, <3>2, <3>6, <3>10 DEF ScreenDones
    <2> QED BY <1>1, <1>3, <1>4, <2>1, <2>3, <2>5, OthersEnding DEF Ending
  <1> QED BY <1>1, <1>5, <1>6, <1>7, CallFacts

LEMMA GetEnding == ASSUME Base, Ending, NEW t \in Threads, RemoveGet(t) PROVE Ending'
  <1>1. UNCHANGED <<messages, count, dispatch, screen>> /\ pc[t] = "rem_get"
    BY DEF RemoveGet, Goto, mainVars
  <1> DEFINE q == queue[arg[t]]
  <1>2. /\ q # <<>>
        /\ Len(q) = 1 => \A u \in Threads : ~ (arg[u] = arg[t] /\ pc[u] = "ins_post")
    BY <1>1, SomethingToGet DEF Base
  <1>3. /\ Only(t) /\ pc'[t] = "rem_post" /\ arg'[t] = arg[t] /\ arg[t] \in Buffers
        /\ msg'[t] = Head(q) /\ queue'[arg[t]] = Tail(q)
        /\ \A d \in Buffers \ {arg[t]} : queue'[d] = queue[d]
    BY <1>2, Getting DEF Base, Accounts
  <1>4. q \in Seq(Sent)
    BY <1>3 DEF Base, Accounts, BufferTypes
  <1>5. /\ (\A p \in Producers : Made(p)' = Made(p)) /\ doneCount' = doneCount
        /\ isDone' = isDone /\ finishes' = finishes /\ i' = i /\ messages' = messages
    BY <1>1 DEF Made, screen, dispatch
  <1>6. Unfinished(q) =>
          /\ Unfinished(Tail(q)) /\ (Finishing(Tail(q)) => Finishing(q))
          /\ Head(q) = FINISH_MSG => Len(q) = 1 /\ Tail(q) = <<>> /\ Finishing(q)
    BY <1>2, <1>4, UnfinishedTail
  <1> HIDE DEF q
  <1>7. ASSUME t = Dispatcher, i \in Producers, arg[t] = Prod(i) PROVE Ending'
    <2> DEFINE u == Prod(i)
    <2>1. /\ \A p \in Producers \ {i} : queue'[Prod(p)] = queue[Prod(p)]
          /\ \A c \in Categories : queue'[Editor(c)] = queue[Editor(c)]
          /\ queue'[Screen] = queue[Screen] /\ u \in Threads /\ u # Dispatcher
      BY <1>3, <1>7, ThreadFacts
    <2>2. /\ \A p \in Producers \ {i} : ~ TakesDone(p)'
          /\ \A c \in Categories : ~ Inserting(Editor(c), {"ins_put", "ins_post"})'
          /\ TakesDone(i)' => Head(q) = FINISH_MSG
      BY <1>3, <1>5, <1>7 DEF TakesDone, Inserting
    <2>3. ProducerDone(i) /\ ProducerRole(i) /\ queue[u] = q
      BY <1>7 DEF Ending, Base, Roles, q
    <2>4. Unfinished(q) /\ ~ isDone[i]
      BY <1>2, <2>3 DEF ProducerDone
    <2>5. pc'[u] = pc[u] /\ msg'[u] = msg[u] /\ queue'[u] = Tail(q)
      BY <1>3, <1>7, <2>1 DEF Only
    <2>6. Finishing(q) => /\ pc[u] = "exit" \/ (pc[u] = "ins_post" /\ msg[u] = FINISH_MSG)
                          /\ Made(i) = messages[i]
      BY <2>3 DEF ProducerDone
    <2>7. Head(q) = FINISH_MSG => pc[u] = "exit" /\ Tail(q) = <<>> /\ Made(i) = messages[i]
      <3>1. pc[u] = "ins_post" => arg[u] = arg[t]
        BY <1>7, <2>3 DEF ProducerRole
      <3> QED BY <1>2, <1>6, <2>1, <2>4, <2>6, <3>1
    <2>8. pc[u] \in {"ins_put", "ins_post"} /\ msg[u] = FINISH_MSG => Made(i) = messages[i]
      BY <2>3 DEF ProducerDone
    <2>9. Made(i)' = Made(i) /\ isDone'[i] = isDone[i] /\ messages'[i] = messages[i] /\ i' = i
      BY <1>5, <1>7
    <2>10. Unfinished(Tail(q)) /\ (Finishing(Tail(q)) => Finishing(q))
      BY <1>6, <2>4
    <2>11. ProducerDone(i)'
      <3>1. Unfinished(queue'[u]) /\ (Finishing(queue'[u]) => Finishing(q))
        BY <2>5, <2>10
      <3>2. queue'[u] = <<>> <=> Tail(q) = <<>>
        BY <2>5
      <3>3. (Made(i) = messages[i])' <=> Made(i) = messages[i]
        BY <2>9
      <3> HIDE DEF q
      <3> QED BY <2>2, <2>4, <2>5, <2>6, <2>7, <2>8, <2>9, <3>1, <3>2, <3>3
          DEF ProducerDone, Unfinished, Finishing
    <2>12. \A p \in Producers : ProducerDone(p)'
      BY <1>1, <1>3, <1>5, <1>7, <2>1, <2>2, <2>11, DispatcherCalling
    <2> QED BY <1>1, <1>3, <1>7, <2>1, <2>2, <2>12, DispatcherCalling DEF Ending
  <1>8. ASSUME NEW c \in Categories, t = Editor(c), arg[t] = Editor(c) PROVE Ending'
    <2>1. /\ \A p \in Producers : t # Prod(p) /\ queue'[Prod(p)] = queue[Prod(p)]
          /\ \A d \in Categories \ {c} : t # Editor(d) /\ queue'[Editor(d)] = queue[Editor(d)]
          /\ t # Screen /\ t # Dispatcher /\ queue'[Screen] = queue[Screen]
      BY <1>3, <1>8, ThreadFacts
    <2>2. EditorDone(c) /\ queue[t] = q /\ queue'[t] = Tail(q) /\ Unfinished(q)
      BY <1>3, <1>8 DEF Ending, EditorDone, q
    <2>3. /\ ~ Relayed(c) /\ ~ Relayed(c)' /\ (Told(c)' => Head(q) = FINISH_MSG)
      BY <1>1, <1>3, <1>8 DEF Relayed, Told
    <2>4. \A b, L : Inserting(b, L)' <=> Inserting(b, L)
      BY <1>3, <2>1, ThreadFacts DEF Only, Inserting
    <2>5. Finishing(q) => finishes > c /\ ~ Inserting(t, {"ins_put"})
      BY <1>8, <2>2 DEF EditorDone
    <2>6. Head(q) = FINISH_MSG => Tail(q) = <<>> /\ finishes > c
                                  /\ ~ Inserting(t, {"ins_put", "ins_post"})
      <3>1. Len(q) = 1 => ~ Inserting(t, {"ins_post"})
        BY <1>2, <1>8, ThreadFacts DEF Inserting
      <3>2. ~ Inserting(t, {"ins_put"}) /\ ~ Inserting(t, {"ins_post"})
              => ~ Inserting(t, {"ins_put", "ins_post"})
        BY DEF Inserting
      <3> QED BY <1>6, <2>2, <2>5, <3>1, <3>2
    <2>7. EditorDone(c)'
      <3>1. Unfinished(queue'[t]) /\ (Finishing(queue'[t]) => Finishing(q))
        BY <1>6, <2>2
      <3> QED BY <1>5, <1>8, <2>2, <2>3, <2>4, <2>5, <2>6, <3>1
          DEF EditorDone, Unfinished, Finishing
    <2> QED BY <1>1, <1>3, <1>5, <2>1, <2>3, <2>7, OthersEnding DEF Ending
  <1>9. ASSUME t = Screen, arg[t] = Screen PROVE Ending'
    <2>1. /\ \A p \in Producers : t # Prod(p) /\ queue'[Prod(p)] = queue[Prod(p)]
          /\ \A d \in Categories : t # Editor(d) /\ queue'[Editor(d)] = queue[Editor(d)]
          /\ t # Dispatcher
      BY <1>3, <1>9, ThreadFacts
    <2>2. \A c \in Categories : Relayed(c)' <=> Relayed(c)
      BY <1>3, <2>1, ThreadFacts, RelayedKept DEF Only
    <2>3. InHand = 0 /\ InHand' = One(Head(q) = FINISH_MSG)
      BY <1>1, <1>3, <1>9 DEF InHand, One
    <2>4. /\ Cardinality(Finishes(Tail(q))) = Cardinality(Finishes(q)) - One(Head(q) = FINISH_MSG)
          /\ Cardinality(Finishes(q)) \in Nat /\ One(Head(q) = FINISH_MSG) \in Nat
      BY <1>2, <1>4, FinishesTail, FinishesFinite DEF One
    <2>5. queue[Screen] = q /\ queue'[Screen] = Tail(q)
      BY <1>3, <1>9 DEF q
    <2>6. /\ doneCount + InHand + Cardinality(Finishes(q))
               = One(Relayed(0)) + One(Relayed(1)) + One(Relayed(2))
          /\ (\A c \in Categories : Relayed(c)) => q[Len(q)] = FINISH_MSG
      BY <1>2, <2>5 DEF Ending, ScreenDones
    <2>7. Tail(q) # <<>> => Tail(q)[Len(Tail(q))] = q[Len(q)]
      <3>1. /\ Tail(q) \in Seq(Sent) /\ Len(Tail(q)) = Len(q) - 1 /\ Len(q) \in Nat
            /\ \A k \in 1..Len(Tail(q)) : Tail(q)[k] = q[k + 1]
        BY <1>2, <1>4, HeadTailProperties
      <3>2. Tail(q) # <<>> => Len(Tail(q)) \in Nat \ {0}
        BY <3>1, EmptySeq
      <3> QED BY <3>1, <3>2
    <2>8. \A c \in {0, 1, 2} : One(Relayed(c))' = One(Relayed(c))
      BY <2>2, IndexFacts DEF One
    <2>9. doneCount \in Nat
      BY DEF Base, LocalTypes
    <2>10. ScreenDones'
      <3> DEFINE n == Cardinality(Finishes(q))
                 h == One(Head(q) = FINISH_MSG)
                 r == One(Relayed(0)) + One(Relayed(1)) + One(Relayed(2))
      <3>1. n \in Nat /\ h \in Nat /\ doneCount + 0 + n = r
        BY <2>3, <2>4, <2>6
      <3>2. One(Relayed(0))' + One(Relayed(1))' + One(Relayed(2))' = r
        BY <2>8
      <3>3. Cardinality(Finishes(queue[Screen])') = n - h
        BY <2>4, <2>5 DEF Finishes
      <3>4. doneCount' = doneCount /\ InHand' = h
        BY <1>5, <2>3
      <3> HIDE DEF n, h, r
      <3>5. doneCount' + InHand' + Cardinality(Finishes(queue[Screen])')
              = One(Relayed(0))' + One(Relayed(1))' + One(Relayed(2))'
        BY <2>9, <3>1, <3>2, <3>3, <3>4
      <3> QED BY <2>2, <2>5, <2>6, <2>7, <3>5 DEF ScreenDones
    <2> QED BY <1>1, <1>3, <1>5, <2>1, <2>10, OthersEnding DEF Ending
  <1> QED BY <1>1, <1>7, <1>8, <1>9, CallFacts

LEMMA FreeEnding == ASSUME Base, Ending, NEW t \in Threads, RemovePost(t) PROVE Ending'
  <1>1. UNCHANGED <<messages, count, dispatch, screen>> /\ pc[t] = "rem_post"
    BY DEF RemovePost, Goto, mainVars
  <1>2. /\ Only(t) /\ pc'[t] = "removed" /\ queue' = queue /\ arg'[t] = arg[t] /\ msg'[t] = msg[t]
    BY Freeing DEF Base, Accounts
  <1>3. /\ (\A p \in Producers : Made(p)' = Made(p)) /\ doneCount' = doneCount
        /\ isDone' = isDone /\ finishes' = finishes /\ i' = i
    BY <1>1 DEF Made, screen, dispatch
  <1>4. ASSUME t = Dispatcher PROVE Ending'
    <2>1. /\ \A p \in Producers : TakesDone(p)' => TakesDone(p)
          /\ \A c \in Categories : ~ Inserting(Editor(c), {"ins_put", "ins_post"})'
      BY <1>1, <1>2, <1>3, <1>4 DEF TakesDone, Inserting
    <2> QED BY <1>1, <1>2, <1>4, <2>1, DispatcherCalling DEF Ending
  <1>5. ASSUME NEW c \in Categories, t = Editor(c) PROVE Ending'
    <2>1. t # Dispatcher /\ t # Screen /\ (\A p \in Producers : t # Prod(p))
          /\ \A d \in Categories : t = Editor(d) => d = c
      BY <1>5, ThreadFacts
    <2>2. (Told(c)' <=> Told(c)) /\ (Relayed(c)' <=> Relayed(c))
      BY <1>1, <1>2, <1>5 DEF Told, Relayed
    <2>3. EditorDone(c)'
      <3>1. \A b, L : Inserting(b, L)' <=> Inserting(b, L)
        BY <1>2, <2>1, ThreadFacts DEF Only, Inserting
      <3>2. EditorDone(c)
        BY DEF Ending
      <3> QED BY <1>2, <1>3, <2>2, <3>1, <3>2 DEF EditorDone, Unfinished, Finishing
    <2> QED BY <1>1, <1>2, <1>3, <2>1, <2>2, <2>3, OthersEnding DEF Ending
  <1>6. ASSUME t = Screen PROVE Ending'
    <2>1. t # Dispatcher /\ (\A p \in Producers : t # Prod(p))
          /\ \A d \in Categories : t # Editor(d)
      BY <1>6, ThreadFacts
    <2>2. InHand' = InHand
      BY <1>1, <1>2, <1>6 DEF InHand, One
    <2> QED BY <1>1, <1>2, <1>3, <2>1, <2>2, OthersEnding DEF Ending
  <1> QED BY <1>1, <1>4, <1>5, <1>6, CallFacts

LEMMA MainStarts ==
    ASSUME Base, Main, NEW u \in Threads
    PROVE  pc'[u] = pc[u] \/ (pc[u] = "new" /\ pc'[u] = "run")
  <1>1. CASE MainStart
    <2>1. mainPc[2] \in 1..(N + 5) /\ pc[StartOrder[mainPc[2]]] = "new"
      <3>1. mainPc[2] \in 1..(N + 5) /\ mainPc[2] \in mainPc[2]..(N + 5)
        BY <1>1, IndexFacts DEF MainStart, Base, MainAt
      <3> QED BY <1>1, <3>1 DEF MainStart, Base, MainAt
    <2> QED BY <1>1, <2>1 DEF MainStart, Base, Accounts, CallTypes
  <1>2. CASE pc' = pc
    BY <1>2
  <1> QED BY <1>1, <1>2 DEF Main, MainFail, MainJoin, MainDestroy, calls

LEMMA MainEnding == ASSUME Base, Ending, Main PROVE Ending'
  <1>1. UNCHANGED <<queue, messages, count, dispatch, screen, arg, msg>>
    BY DEF Main, MainStart, MainFail, MainJoin, MainDestroy, calls
  <1>2. \A u \in Threads : pc'[u] = pc[u] \/ (pc[u] = "new" /\ pc'[u] = "run")
    BY MainStarts
  <1>3. \A p \in Producers : /\ Made(p)' = Made(p)
                             /\ TakesDone(p)' <=> TakesDone(p)
    BY <1>1, <1>2, ThreadFacts DEF Made, TakesDone, dispatch
  <1>4. /\ i' = i /\ allProducersDone' = allProducersDone /\ isDone' = isDone
        /\ finishes' = finishes /\ doneCount' = doneCount /\ messages' = messages
    BY <1>1 DEF dispatch, screen
  <1>5. /\ pc'[Dispatcher] = pc[Dispatcher]
           \/ (pc[Dispatcher] = "new" /\ pc'[Dispatcher] = "run")
        /\ pc'[Screen] = pc[Screen] \/ (pc[Screen] = "new" /\ pc'[Screen] = "run")
        /\ msg' = msg /\ arg' = arg /\ queue' = queue
    BY <1>1, <1>2, ThreadFacts
  <1>6. AllDone'
    BY <1>4, <1>5 DEF Ending, AllDone
  <1>7. ASSUME NEW p \in Producers PROVE ProducerDone(p)'
    <2>1. ProducerDone(p) /\ (pc'[Prod(p)] = pc[Prod(p)]
                              \/ (pc[Prod(p)] = "new" /\ pc'[Prod(p)] = "run"))
      BY <1>2, ThreadFacts DEF Ending
    <2> QED BY <1>3, <1>4, <1>5, <2>1 DEF ProducerDone, Unfinished, Finishing
  <1>8. ASSUME NEW c \in Categories
        PROVE  (Told(c)' <=> Told(c)) /\ (Relayed(c)' <=> Relayed(c))
    BY <1>2, <1>5, ThreadFacts DEF Told, Relayed
  <1>9. \A b : /\ Inserting(b, {"ins_put", "ins_post"})' <=> Inserting(b, {"ins_put", "ins_post"})
               /\ Inserting(b, {"ins_put"})' <=> Inserting(b, {"ins_put"})
    BY <1>5 DEF Inserting
  <1>10. ASSUME NEW c \in Categories PROVE EditorDone(c)'
    <2>1. EditorDone(c)
      BY DEF Ending
    <2> QED BY <1>4, <1>5, <1>8, <1>9, <2>1 DEF EditorDone, Unfinished, Finishing
  <1>11. InHand' = InHand
    BY <1>5 DEF InHand, One
  <1>12. ScreenDones'
    BY <1>4, <1>5, <1>8, <1>11, ScreenDonesKept DEF Ending
  <1> QED BY <1>6, <1>7, <1>10, <1>12 DEF Ending

LEMMA EndingInit == Init => Ending
  <1> SUFFICES ASSUME Init PROVE Ending
    OBVIOUS
  <1>1. /\ \A t \in Threads : pc[t] = "new"
        /\ \A b \in Buffers : queue[b] = <<>>
        /\ i = 1 /\ finishes = 0 /\ doneCount = 0
        /\ \A p \in Producers : ~ isDone[p]
    BY DEF Init
  <1>2. ASSUME NEW p \in Producers PROVE ProducerDone(p)
    BY <1>1, ThreadFacts DEF ProducerDone, TakesDone, Unfinished, Finishing
  <1>3. AllDone
    BY <1>1, ThreadFacts, IndexFacts DEF AllDone
  <1>4. ASSUME NEW c \in Categories PROVE EditorDone(c) /\ ~ Relayed(c)
    BY <1>1, ThreadFacts DEF EditorDone, Told, Relayed, Unfinished, Finishing
  <1>5. ScreenDones
    <2>1. Finishes(queue[Screen]) = {} /\ queue[Screen] = <<>>
      BY <1>1, ThreadFacts DEF Finishes
    <2>2. Cardinality(Finishes(queue[Screen])) = 0
      BY <2>1, FS_EmptySet
    <2>3. InHand = 0 /\ One(Relayed(0)) = 0 /\ One(Relayed(1)) = 0 /\ One(Relayed(2)) = 0
      BY <1>1, <1>4, ThreadFacts, IndexFacts DEF InHand, One
    <2> QED BY <1>1, <2>1, <2>2, <2>3 DEF ScreenDones
  <1> QED BY <1>2, <1>3, <1>4, <1>5 DEF Ending

LEMMA EndingUnchanged == ASSUME Ending, UNCHANGED vars PROVE Ending'
  <1>1. UNCHANGED <<pc, arg, msg, queue, messages, count, i, allProducersDone, isDone, finishes,
                    doneCount>>
    BY DEF vars, calls, dispatch, screen, mainVars
  <1>2. \A p \in Producers : ProducerDone(p)'
    BY <1>1 DEF Ending, ProducerDone, TakesDone, Made, Unfinished, Finishing
  <1>3. AllDone'
    BY <1>1 DEF Ending, AllDone
  <1>4. \A c \in Categories : EditorDone(c)' /\ (Relayed(c)' <=> Relayed(c))
    BY <1>1 DEF Ending, EditorDone, Told, Relayed, Inserting, Unfinished, Finishing
  <1>5. InHand' = InHand
    BY <1>1 DEF InHand, One
  <1>6. ScreenDones'
    BY <1>1, <1>4, <1>5, ScreenDonesKept DEF Ending
  <1> QED BY <1>2, <1>3, <1>4, <1>6 DEF Ending

LEMMA EndingStep == ASSUME Base, Ending, [Next]_vars PROVE Ending'
  BY PutEnding, GetEnding, FreeEnding, ProducerEnding, DispatcherEnding, EditorEnding,
     ScreenEnding, MainEnding, EndingUnchanged
  DEF Next, Thread, BufferCall, Ended

LEMMA EndingHolds == Spec => [](Base /\ Ending)
  BY BaseInit, BaseStep, EndingInit, EndingStep, PTL DEF Spec

(* Nobody is inside a call on an empty buffer that it has just written.    *)
LEMMA Announced ==
    ASSUME Accounts, NEW t \in Threads, NEW b \in Buffers, queue[b] = <<>>
    PROVE  ~ (arg[t] = b /\ pc[t] = "ins_post")
  <1>1. /\ Len(queue[b]) = 0 /\ readSemaphore[b] \in Nat
        /\ readSemaphore[b] + Cardinality(AtBuffer(b, "rem_get"))
             = Len(queue[b]) - Cardinality(AtBuffer(b, "ins_post"))
    BY DEF Accounts, BufferTypes, Permits
  <1>2. /\ Cardinality(AtBuffer(b, "rem_get")) \in Nat
        /\ Cardinality(AtBuffer(b, "ins_post")) \in Nat /\ IsFiniteSet(AtBuffer(b, "ins_post"))
    BY CountType
  <1> DEFINE g == Cardinality(AtBuffer(b, "rem_get"))
             o == Cardinality(AtBuffer(b, "ins_post"))
             r == readSemaphore[b]
  <1>3. r + g = 0 - o /\ r \in Nat /\ g \in Nat /\ o \in Nat
    BY <1>1, <1>2
  <1> HIDE DEF g, o, r
  <1>4. o = 0
    BY <1>3
  <1>5. AtBuffer(b, "ins_post") = {}
    BY <1>2, <1>4, FS_EmptySet DEF o
  <1> QED BY <1>5 DEF AtBuffer

(* When the screen manager has counted three DONEs, every thread upstream  *)
(* has ended, or is at the last test of its loop.                          *)
LEMMA AfterTheScreen ==
    ASSUME Base, Ending, pc[Screen] = "exit"
    PROVE  /\ queue[Screen] = <<>>
           /\ \A c \in Categories : Told(c) /\ pc[Editor(c)] \in {"test", "exit"}
                                    /\ queue[Editor(c)] = <<>>
           /\ pc[Dispatcher] = "exit"
           /\ \A p \in Producers : /\ pc[Prod(p)] = "exit" /\ queue[Prod(p)] = <<>>
                                   /\ Made(p) = messages[p]
  <1>1. doneCount = 3 /\ InHand = 0
    BY DEF Base, Roles, ScreenRole, InHand, One
  <1>2. queue[Screen] \in Seq(Sent) /\ finishes \in 0..3 /\ i \in 1..(N + 1)
    BY ThreadFacts DEF Base, Accounts, BufferTypes, LocalTypes
  <1>3. /\ Cardinality(Finishes(queue[Screen])) = 0
        /\ Relayed(0) /\ Relayed(1) /\ Relayed(2)
    <2>1. Cardinality(Finishes(queue[Screen])) \in Nat
      BY <1>2, FinishesFinite
    <2> DEFINE n == Cardinality(Finishes(queue[Screen]))
    <2>2. 3 + 0 + n = One(Relayed(0)) + One(Relayed(1)) + One(Relayed(2)) /\ n \in Nat
      BY <1>1, <2>1 DEF Ending, ScreenDones
    <2> HIDE DEF n
    <2>3. n = 0 /\ Relayed(0) /\ Relayed(1) /\ Relayed(2)
      BY <2>2 DEF One
    <2> QED BY <2>3 DEF n
  <1>4. \A c \in Categories : Relayed(c)
    BY <1>3, IndexFacts
  <1>5. queue[Screen] = <<>>
    <2>1. Finishes(queue[Screen]) = {}
      BY <1>2, <1>3, FinishesFinite, FS_EmptySet
    <2>2. ASSUME queue[Screen] # <<>> PROVE FALSE
      <3>1. Len(queue[Screen]) \in DOMAIN queue[Screen]
        BY <1>2, <2>2
      <3>2. queue[Screen][Len(queue[Screen])] = FINISH_MSG
        BY <1>4, <2>2 DEF Ending, ScreenDones
      <3> QED BY <2>1, <3>1, <3>2 DEF Finishes
    <2> QED BY <2>2
  <1>6. ASSUME NEW c \in Categories
        PROVE  /\ Told(c) /\ pc[Editor(c)] \in {"test", "exit"} /\ queue[Editor(c)] = <<>>
               /\ finishes > c /\ ~ Inserting(Editor(c), {"ins_put", "ins_post"})
    <2>1. Told(c) /\ pc[Editor(c)] \in {"ins_post", "test", "exit"}
      BY <1>4 DEF Relayed, Told
    <2>2. pc[Editor(c)] # "ins_post"
      BY <1>5, Announced, ThreadFacts DEF Base, Roles, EditorRole
    <2>3. EditorDone(c)
      BY DEF Ending
    <2> QED BY <2>1, <2>2, <2>3 DEF EditorDone
  <1>7. finishes = 3
    BY <1>2, <1>6, IndexFacts
  <1>8. allProducersDone /\ i = N + 1 /\ pc[Dispatcher] \in {"ins_put", "ins_post", "exit"}
    BY <1>7 DEF Ending, AllDone
  <1>9. pc[Dispatcher] = "exit"
    <2>1. ASSUME pc[Dispatcher] \in {"ins_put", "ins_post"} PROVE FALSE
      <3>1. arg[Dispatcher] = Editor(2)
        BY <1>7, <1>8, <2>1, IndexFacts DEF Base, Roles, DispatcherRole
      <3> QED BY <1>6, <2>1, <3>1, IndexFacts DEF Inserting
    <2> QED BY <1>8, <2>1
  <1>10. ASSUME NEW p \in Producers
         PROVE  pc[Prod(p)] = "exit" /\ queue[Prod(p)] = <<>> /\ Made(p) = messages[p]
    <2>1. isDone[p]
      BY <1>8, IndexFacts DEF Ending, AllDone
    <2> QED BY <2>1 DEF Ending, ProducerDone
  <1> QED BY <1>5, <1>6, <1>9, <1>10

(* main joins the screen manager alone, and still no thread touches a      *)
(* buffer after destroyBuffer has freed it: the third DONE reaches the     *)
(* screen behind everything else, so the producers, the dispatcher and the *)
(* co-editors have made their last call by then.                           *)
THEOREM NoTouchAfterDestroy == Spec => []NoUseAfterDestroy
  <1>1. Base /\ Ending => NoUseAfterDestroy
    <2> SUFFICES ASSUME Base, Ending, destroyed # {}, NEW t \in Threads
                 PROVE  pc[t] \in {"new", "test", "exit"}
      BY DEF NoUseAfterDestroy
    <2>1. mainPc[1] \in {"start", "join", "destroy", "failed", "returned"} /\ MainAt
      BY DEF Base, MainAt
    <2>2. CASE mainPc[1] = "failed"
      BY <2>1, <2>2 DEF MainAt
    <2>3. CASE mainPc[1] \in {"destroy", "returned"}
      <3>1. pc[Screen] = "exit"
        BY <2>1, <2>3 DEF MainAt
      <3> QED BY <3>1, AfterTheScreen, ThreadFacts
    <2> QED BY <2>1, <2>2, <2>3 DEF MainAt
  <1> QED BY <1>1, EndingHolds, PTL

(***************************************************************************)
(* The messages on their way.  Two sequences are alike for the reader of   *)
(* producer p and category c if they hold the same numbers, in the same    *)
(* order or not.                                                           *)
(***************************************************************************)
Carried == Sent \union {NULL}

Alike(s, t, p, c) ==
    /\ Numbers(s, p, c) = Numbers(t, p, c)
    /\ Ascending(s, p, c) <=> Ascending(t, p, c)

LEMMA ConcatView ==
    ASSUME NEW p, NEW c, NEW s \in Seq(Carried), NEW t \in Seq(Carried)
    PROVE  /\ Numbers(s \o t, p, c) = Numbers(s, p, c) \union Numbers(t, p, c)
           /\ Ascending(s \o t, p, c) <=>
                /\ Ascending(s, p, c) /\ Ascending(t, p, c)
                /\ \A x \in Numbers(s, p, c), y \in Numbers(t, p, c) : x < y
  <1> DEFINE m == Len(s)
             n == Len(t)
             r == s \o t
             S == Places(s, p, c)
             T == Places(t, p, c)
             R == Places(r, p, c)
  <1>1. /\ m \in Nat /\ n \in Nat /\ DOMAIN s = 1..m /\ DOMAIN t = 1..n /\ DOMAIN r = 1..(m + n)
        /\ \A k \in 1..m : k \in DOMAIN r /\ r[k] = s[k]
        /\ \A k \in 1..n : k + m \in DOMAIN r /\ r[k + m] = t[k] /\ k + m > m
    <2>1. /\ r \in Seq(Carried) /\ Len(r) = m + n
          /\ \A k \in 1..(m + n) : r[k] = IF k <= m THEN s[k] ELSE t[k - m]
      BY ConcatProperties
    <2>2. m \in Nat /\ n \in Nat /\ DOMAIN s = 1..m /\ DOMAIN t = 1..n /\ DOMAIN r = 1..(m + n)
      BY <2>1, LenProperties
    <2> HIDE DEF m, n, r
    <2>3. ASSUME NEW k \in 1..m PROVE k \in DOMAIN r /\ r[k] = s[k]
      BY <2>1, <2>2
    <2>4. ASSUME NEW k \in 1..n PROVE k + m \in DOMAIN r /\ r[k + m] = t[k] /\ k + m > m
      <3>1. k + m \in 1..(m + n) /\ ~ (k + m <= m) /\ (k + m) - m = k
        BY <2>2
      <3> QED BY <2>1, <2>2, <3>1
    <2> QED BY <2>2, <2>3, <2>4
  <1> HIDE DEF m, n, r
  <1>2. /\ S \subseteq 1..m /\ T \subseteq 1..n
        /\ \A k \in 1..m : k \in R <=> k \in S
        /\ \A k \in 1..n : k + m \in R <=> k \in T
    BY <1>1 DEF Places
  <1>3. \A k \in R : k \in S \/ (k - m \in T /\ (k - m) + m = k)
    <2> TAKE k \in R
    <2>1. k \in 1..(m + n)
      BY <1>1 DEF Places
    <2>2. k \in 1..m \/ (k - m \in 1..n /\ (k - m) + m = k)
      BY <1>1, <2>1
    <2> QED BY <1>2, <2>2
  <1>4. /\ \A k \in S : k \in R /\ r[k] = s[k] /\ k \in Nat /\ k <= m
        /\ \A k \in T : k + m \in R /\ r[k + m] = t[k] /\ k \in Nat /\ k + m > m
    BY <1>1, <1>2
  <1> HIDE DEF S, T, R
  <1>5. Numbers(r, p, c) = {r[k][3] : k \in R}
    BY DEF Numbers, R
  <1>6. Numbers(s, p, c) = {s[k][3] : k \in S} /\ Numbers(t, p, c) = {t[k][3] : k \in T}
    BY DEF Numbers, S, T
  <1>7. Numbers(r, p, c) = Numbers(s, p, c) \union Numbers(t, p, c)
    <2>1. ASSUME NEW k \in R PROVE r[k][3] \in Numbers(s, p, c) \union Numbers(t, p, c)
      BY <1>3, <1>4, <1>6
    <2>2. ASSUME NEW k \in S PROVE s[k][3] \in Numbers(r, p, c)
      BY <1>4, <1>5
    <2>3. ASSUME NEW k \in T PROVE t[k][3] \in Numbers(r, p, c)
      BY <1>4, <1>5
    <2> QED BY <1>5, <1>6, <2>1, <2>2, <2>3
  <1>8. /\ Ascending(r, p, c) <=> \A j, k \in R : j < k => r[j][3] < r[k][3]
        /\ Ascending(s, p, c) <=> \A j, k \in S : j < k => s[j][3] < s[k][3]
        /\ Ascending(t, p, c) <=> \A j, k \in T : j < k => t[j][3] < t[k][3]
    BY DEF Ascending, R, S, T
  <1>9. ASSUME Ascending(r, p, c)
        PROVE  /\ Ascending(s, p, c) /\ Ascending(t, p, c)
               /\ \A x \in Numbers(s, p, c), y \in Numbers(t, p, c) : x < y
    <2>1. ASSUME NEW j \in S, NEW k \in S, j < k PROVE s[j][3] < s[k][3]
      BY <1>4, <1>8, <1>9, <2>1
    <2>2. ASSUME NEW j \in T, NEW k \in T, j < k PROVE t[j][3] < t[k][3]
      <3>1. j + m < k + m /\ j + m \in R /\ k + m \in R
        BY <1>1, <1>4, <2>2
      <3> QED BY <1>4, <1>8, <1>9, <3>1
    <2>3. ASSUME NEW j \in S, NEW k \in T PROVE s[j][3] < t[k][3]
      <3>1. j < k + m /\ j \in R /\ k + m \in R
        BY <1>1, <1>4, <2>3
      <3> QED BY <1>4, <1>8, <1>9, <3>1
    <2> QED BY <1>6, <1>8, <2>1, <2>2, <2>3
  <1>10. ASSUME Ascending(s, p, c), Ascending(t, p, c),
                \A x \in Numbers(s, p, c), y \in Numbers(t, p, c) : x < y
         PROVE  Ascending(r, p, c)
    <2>1. ASSUME NEW j \in R, NEW k \in R, j < k PROVE r[j][3] < r[k][3]
      <3>1. CASE j \in S /\ k \in S
        BY <1>4, <1>8, <1>10, <2>1, <3>1
      <3>2. CASE j \in S /\ k - m \in T /\ (k - m) + m = k
        BY <1>4, <1>6, <1>10, <3>2
      <3>3. CASE j - m \in T /\ (j - m) + m = j /\ k - m \in T /\ (k - m) + m = k
        <4> DEFINE jj == j - m
                   kk == k - m
        <4>1. jj \in T /\ kk \in T /\ r[j] = t[jj] /\ r[k] = t[kk] /\ jj \in Nat /\ kk \in Nat
              /\ jj + m = j /\ kk + m = k
          BY <1>4, <3>3
        <4> HIDE DEF jj, kk
        <4>2. jj < kk
          BY <1>1, <2>1, <4>1
        <4> QED BY <1>8, <1>10, <4>1, <4>2
      <3>4. CASE j - m \in T /\ (j - m) + m = j /\ k \in S
        BY <1>1, <1>4, <2>1, <3>4
      <3> QED BY <1>3, <3>1, <3>2, <3>3, <3>4
    <2> QED BY <1>8, <2>1
  <1> QED BY <1>7, <1>9, <1>10 DEF r

LEMMA AlikeConcat ==
    ASSUME NEW p, NEW c,
           NEW s \in Seq(Carried), NEW t \in Seq(Carried),
           NEW x \in Seq(Carried), NEW y \in Seq(Carried),
           Alike(s, x, p, c), Alike(t, y, p, c)
    PROVE  Alike(s \o t, x \o y, p, c)
  <1> DEFINE a == s \o t
             b == x \o y
  <1>1. /\ Numbers(a, p, c) = Numbers(s, p, c) \union Numbers(t, p, c)
        /\ Ascending(a, p, c) <=>
             /\ Ascending(s, p, c) /\ Ascending(t, p, c)
             /\ \A k \in Numbers(s, p, c), l \in Numbers(t, p, c) : k < l
    BY ConcatView, Zenon
  <1>2. /\ Numbers(b, p, c) = Numbers(x, p, c) \union Numbers(y, p, c)
        /\ Ascending(b, p, c) <=>
             /\ Ascending(x, p, c) /\ Ascending(y, p, c)
             /\ \A k \in Numbers(x, p, c), l \in Numbers(y, p, c) : k < l
    BY ConcatView, Zenon
  <1> HIDE DEF a, b
  <1>3. Alike(a, b, p, c)
    BY <1>1, <1>2 DEF Alike
  <1> QED BY <1>3 DEF a, b

LEMMA AlikeNothing ==
    ASSUME NEW p, NEW c, NEW m \in Carried,
           ~ (IsNews(m) /\ m[1] = p /\ m[2] = c)
    PROVE  Alike(<<m>>, <<>>, p, c) /\ Alike(<<>>, <<m>>, p, c)
  <1>1. Places(<<m>>, p, c) = {} /\ Places(<<>>, p, c) = {}
    BY DEF Places
  <1> QED BY <1>1 DEF Alike, Numbers, Ascending

LEMMA AlikeAppend ==
    ASSUME NEW p, NEW c, NEW q \in Seq(Carried), NEW m \in Carried,
           ~ (IsNews(m) /\ m[1] = p /\ m[2] = c)
    PROVE  Alike(Append(q, m), q, p, c)
  <1>1. Append(q, m) = q \o <<m>> /\ q = q \o <<>> /\ <<m>> \in Seq(Carried) /\ <<>> \in Seq(Carried)
    BY AppendIsConcat, ConcatEmptySeq
  <1>2. Alike(q, q, p, c) /\ Alike(<<m>>, <<>>, p, c)
    BY AlikeNothing DEF Alike
  <1>3. Alike(q \o <<m>>, q \o <<>>, p, c)
    BY <1>1, <1>2, AlikeConcat
  <1> QED BY <1>1, <1>3

(* The stages of a path, one after the other. *)
Cat(s, t) == s \o t

LEMMA CatType == \A s, t \in Seq(Carried) : Cat(s, t) \in Seq(Carried)
  BY ConcatProperties DEF Cat

LEMMA CatAssociative ==
    \A s, t, u \in Seq(Carried) : Cat(Cat(s, t), u) = Cat(s, Cat(t, u))
  BY ConcatAssociative DEF Cat

LEMMA CatView ==
    ASSUME NEW p, NEW c, NEW s \in Seq(Carried), NEW t \in Seq(Carried)
    PROVE  /\ Numbers(Cat(s, t), p, c) = Numbers(s, p, c) \union Numbers(t, p, c)
           /\ Ascending(Cat(s, t), p, c) <=>
                /\ Ascending(s, p, c) /\ Ascending(t, p, c)
                /\ \A x \in Numbers(s, p, c), y \in Numbers(t, p, c) : x < y
  BY ConcatView, Zenon DEF Cat

LEMMA AlikeCat ==
    ASSUME NEW p, NEW c,
           NEW s \in Seq(Carried), NEW t \in Seq(Carried),
           NEW x \in Seq(Carried), NEW y \in Seq(Carried),
           Alike(s, x, p, c), Alike(t, y, p, c)
    PROVE  Alike(Cat(s, t), Cat(x, y), p, c)
  BY AlikeConcat DEF Cat

(* The stages of a path are seven sequences. *)
Stages(p, c) == <<Hand(Screen), queue[Screen], Hand(Editor(c)), queue[Editor(c)],
                  Hand(Dispatcher), queue[Prod(p)], Hand(Prod(p))>>

Seven(s) ==
    /\ s[1] \in Seq(Carried) /\ s[2] \in Seq(Carried) /\ s[3] \in Seq(Carried)
    /\ s[4] \in Seq(Carried) /\ s[5] \in Seq(Carried) /\ s[6] \in Seq(Carried)
    /\ s[7] \in Seq(Carried)

Line(s) == Cat(Cat(Cat(Cat(Cat(Cat(s[1], s[2]), s[3]), s[4]), s[5]), s[6]), s[7])
Behind(s) == Cat(Cat(Cat(Cat(Cat(s[2], s[3]), s[4]), s[5]), s[6]), s[7])

(* They can be grouped as a get, as a put and as the screen sees them.     *)
LEMMA SevenStages ==
    ASSUME NEW s, Seven(s)
    PROVE  /\ Line(s) = Cat(Cat(Cat(Cat(s[1], s[2]), Cat(s[3], s[4])), Cat(s[5], s[6])), s[7])
           /\ Line(s) = Cat(Cat(Cat(s[1], Cat(s[2], s[3])), Cat(s[4], s[5])), Cat(s[6], s[7]))
           /\ Line(s) = Cat(s[1], Behind(s)) /\ Behind(s) \in Seq(Carried)
           /\ Line(s) = Cat(Cat(Cat(Cat(Cat(Cat(s[1], s[2]), s[3]), s[4]), s[5]), s[6]), s[7])
           /\ Cat(Cat(Cat(Cat(Cat(s[1], s[2]), s[3]), s[4]), s[5]), s[6]) \in Seq(Carried)
  <1> DEFINE z1 == s[1]
             z2 == s[2]
             z3 == s[3]
             z4 == s[4]
             z5 == s[5]
             z6 == s[6]
             z7 == s[7]
             a2 == Cat(z1, z2)
             a3 == Cat(a2, z3)
             a4 == Cat(a3, z4)
             a5 == Cat(a4, z5)
             a6 == Cat(a5, z6)
             b3 == Cat(z2, z3)
             b4 == Cat(b3, z4)
             b5 == Cat(b4, z5)
             b6 == Cat(b5, z6)
             b7 == Cat(b6, z7)
  <1>1. Line(s) = Cat(a6, z7) /\ Behind(s) = b7
    BY DEF Line, Behind
  <1>2. /\ z1 \in Seq(Carried) /\ z2 \in Seq(Carried) /\ z3 \in Seq(Carried) /\ z4 \in Seq(Carried)
        /\ z5 \in Seq(Carried) /\ z6 \in Seq(Carried) /\ z7 \in Seq(Carried)
    BY DEF Seven
  <1> HIDE DEF z1, z2, z3, z4, z5, z6, z7
  <1>3. /\ a2 \in Seq(Carried) /\ a3 \in Seq(Carried) /\ a4 \in Seq(Carried)
        /\ a5 \in Seq(Carried) /\ a6 \in Seq(Carried)
        /\ b3 \in Seq(Carried) /\ b4 \in Seq(Carried) /\ b5 \in Seq(Carried)
        /\ b6 \in Seq(Carried) /\ b7 \in Seq(Carried)
    BY <1>2, CatType
  <1>4. a4 = Cat(a2, Cat(z3, z4)) /\ a6 = Cat(a4, Cat(z5, z6))
    BY <1>2, <1>3, CatAssociative
  <1>5. a3 = Cat(z1, b3) /\ a5 = Cat(a3, Cat(z4, z5)) /\ Cat(a6, z7) = Cat(a5, Cat(z6, z7))
    BY <1>2, <1>3, CatAssociative
  <1>6. Cat(a6, z7) = Cat(z1, b7)
    <2>1. /\ a4 = Cat(a3, z4) /\ a5 = Cat(a4, z5) /\ a6 = Cat(a5, z6)
          /\ b4 = Cat(b3, z4) /\ b5 = Cat(b4, z5) /\ b6 = Cat(b5, z6) /\ b7 = Cat(b6, z7)
      OBVIOUS
    <2> HIDE DEF a2, a3, a4, a5, a6, b3, b4, b5, b6, b7
    <2>2. a4 = Cat(z1, b4)
      BY <1>2, <1>3, <1>5, <2>1, CatAssociative
    <2>3. a5 = Cat(z1, b5)
      BY <1>2, <1>3, <2>1, <2>2, CatAssociative
    <2>4. a6 = Cat(z1, b6)
      BY <1>2, <1>3, <2>1, <2>3, CatAssociative
    <2> QED BY <1>2, <1>3, <2>1, <2>4, CatAssociative
  <1>7. Cat(a6, z7) = Cat(Cat(Cat(a2, Cat(z3, z4)), Cat(z5, z6)), z7)
    BY <1>4
  <1>8. Cat(a6, z7) = Cat(Cat(Cat(z1, b3), Cat(z4, z5)), Cat(z6, z7))
    BY <1>5
  <1> QED BY <1>1, <1>3, <1>6, <1>7, <1>8 DEF z1, z2, z3, z4, z5, z6, z7

LEMMA AlikeFour ==
    ASSUME NEW p, NEW c,
           NEW a \in Seq(Carried), NEW b \in Seq(Carried),
           NEW d \in Seq(Carried), NEW e \in Seq(Carried),
           NEW w \in Seq(Carried), NEW x \in Seq(Carried),
           NEW y \in Seq(Carried), NEW z \in Seq(Carried),
           Alike(a, w, p, c), Alike(b, x, p, c), Alike(d, y, p, c), Alike(e, z, p, c)
    PROVE  Alike(Cat(Cat(Cat(a, b), d), e), Cat(Cat(Cat(w, x), y), z), p, c)
  <1>1. Alike(Cat(a, b), Cat(w, x), p, c) /\ Cat(a, b) \in Seq(Carried)
        /\ Cat(w, x) \in Seq(Carried)
    BY CatType, AlikeCat
  <1>2. /\ Alike(Cat(Cat(a, b), d), Cat(Cat(w, x), y), p, c)
        /\ Cat(Cat(a, b), d) \in Seq(Carried) /\ Cat(Cat(w, x), y) \in Seq(Carried)
    BY <1>1, CatType, AlikeCat
  <1> QED BY <1>2, AlikeCat

LEMMA AlikeLines ==
    ASSUME NEW p, NEW c, NEW s, NEW t, Seven(s), Seven(t),
           \/ /\ Alike(Cat(t[1], t[2]), Cat(s[1], s[2]), p, c)
              /\ Alike(Cat(t[3], t[4]), Cat(s[3], s[4]), p, c)
              /\ Alike(Cat(t[5], t[6]), Cat(s[5], s[6]), p, c) /\ Alike(t[7], s[7], p, c)
           \/ /\ Alike(t[1], s[1], p, c) /\ Alike(Cat(t[2], t[3]), Cat(s[2], s[3]), p, c)
              /\ Alike(Cat(t[4], t[5]), Cat(s[4], s[5]), p, c)
              /\ Alike(Cat(t[6], t[7]), Cat(s[6], s[7]), p, c)
    PROVE  Alike(Line(t), Line(s), p, c)
  <1>1. CASE /\ Alike(Cat(t[1], t[2]), Cat(s[1], s[2]), p, c)
             /\ Alike(Cat(t[3], t[4]), Cat(s[3], s[4]), p, c)
             /\ Alike(Cat(t[5], t[6]), Cat(s[5], s[6]), p, c) /\ Alike(t[7], s[7], p, c)
    <2>1. /\ Cat(s[1], s[2]) \in Seq(Carried) /\ Cat(s[3], s[4]) \in Seq(Carried)
          /\ Cat(s[5], s[6]) \in Seq(Carried) /\ s[7] \in Seq(Carried)
          /\ Cat(t[1], t[2]) \in Seq(Carried) /\ Cat(t[3], t[4]) \in Seq(Carried)
          /\ Cat(t[5], t[6]) \in Seq(Carried) /\ t[7] \in Seq(Carried)
      BY CatType DEF Seven
    <2>2. Alike(Cat(Cat(Cat(Cat(t[1], t[2]), Cat(t[3], t[4])), Cat(t[5], t[6])), t[7]),
                Cat(Cat(Cat(Cat(s[1], s[2]), Cat(s[3], s[4])), Cat(s[5], s[6])), s[7]), p, c)
      BY <1>1, <2>1, AlikeFour, Zenon
    <2> QED BY <2>2, SevenStages
  <1>2. CASE /\ Alike(t[1], s[1], p, c) /\ Alike(Cat(t[2], t[3]), Cat(s[2], s[3]), p, c)
             /\ Alike(Cat(t[4], t[5]), Cat(s[4], s[5]), p, c)
             /\ Alike(Cat(t[6], t[7]), Cat(s[6], s[7]), p, c)
    <2>1. /\ Cat(s[2], s[3]) \in Seq(Carried) /\ Cat(s[4], s[5]) \in Seq(Carried)
          /\ Cat(s[6], s[7]) \in Seq(Carried) /\ s[1] \in Seq(Carried)
          /\ Cat(t[2], t[3]) \in Seq(Carried) /\ Cat(t[4], t[5]) \in Seq(Carried)
          /\ Cat(t[6], t[7]) \in Seq(Carried) /\ t[1] \in Seq(Carried)
      BY CatType DEF Seven
    <2>2. Alike(Cat(Cat(Cat(t[1], Cat(t[2], t[3])), Cat(t[4], t[5])), Cat(t[6], t[7])),
                Cat(Cat(Cat(s[1], Cat(s[2], s[3])), Cat(s[4], s[5])), Cat(s[6], s[7])), p, c)
      BY <1>2, <2>1, AlikeFour, Zenon
    <2> QED BY <2>2, SevenStages
  <1> QED BY <1>1, <1>2

LEMMA StageTypes ==
    ASSUME CallTypes, BufferTypes, CallTypes', BufferTypes'
    PROVE  /\ \A t \in Threads : Hand(t) \in Seq(Carried) /\ Hand(t)' \in Seq(Carried)
           /\ \A b \in Buffers : queue[b] \in Seq(Carried) /\ queue'[b] \in Seq(Carried)
  <1>1. \A m \in Carried : <<m>> \in Seq(Carried)
    OBVIOUS
  <1>2. <<>> \in Seq(Carried)
    OBVIOUS
  <1>3. ASSUME NEW t \in Threads PROVE Hand(t) \in Seq(Carried) /\ Hand(t)' \in Seq(Carried)
    BY <1>1, <1>2 DEF Hand, CallTypes, Carried
  <1>4. Seq(Sent) \subseteq Seq(Carried)
    BY SeqMonotonic DEF Carried
  <1> QED BY <1>3, <1>4 DEF BufferTypes

(* A step keeps the path of p and c if it keeps each group of stages, as a *)
(* get or as a put sees them.                                              *)
LEMMA PathKept ==
    ASSUME CallTypes, BufferTypes, CallTypes', BufferTypes',
           NEW p \in Producers, NEW c \in Categories,
           \/ /\ Alike(Cat(Hand(Screen)', queue'[Screen]), Cat(Hand(Screen), queue[Screen]), p, c)
              /\ Alike(Cat(Hand(Editor(c))', queue'[Editor(c)]),
                       Cat(Hand(Editor(c)), queue[Editor(c)]), p, c)
              /\ Alike(Cat(Hand(Dispatcher)', queue'[Prod(p)]),
                       Cat(Hand(Dispatcher), queue[Prod(p)]), p, c)
              /\ Alike(Hand(Prod(p))', Hand(Prod(p)), p, c)
           \/ /\ Alike(Hand(Screen)', Hand(Screen), p, c)
              /\ Alike(Cat(queue'[Screen], Hand(Editor(c))'),
                       Cat(queue[Screen], Hand(Editor(c))), p, c)
              /\ Alike(Cat(queue'[Editor(c)], Hand(Dispatcher)'),
                       Cat(queue[Editor(c)], Hand(Dispatcher)), p, c)
              /\ Alike(Cat(queue'[Prod(p)], Hand(Prod(p))'),
                       Cat(queue[Prod(p)], Hand(Prod(p))), p, c)
    PROVE  Alike(Path(p, c)', Path(p, c), p, c)
  <1> DEFINE s == Stages(p, c)
             t == Stages(p, c)'
  <1>1. Seven(s) /\ Seven(t)
    BY StageTypes, ThreadFacts DEF Seven, Stages
  <1>2. Path(p, c) = Line(s)
    BY DEF Path, Line, Cat, Stages
  <1>3. Path(p, c)' = Line(t)
    BY DEF Path, Line, Cat, Stages
  <1>4. \/ /\ Alike(Cat(t[1], t[2]), Cat(s[1], s[2]), p, c)
           /\ Alike(Cat(t[3], t[4]), Cat(s[3], s[4]), p, c)
           /\ Alike(Cat(t[5], t[6]), Cat(s[5], s[6]), p, c) /\ Alike(t[7], s[7], p, c)
        \/ /\ Alike(t[1], s[1], p, c) /\ Alike(Cat(t[2], t[3]), Cat(s[2], s[3]), p, c)
           /\ Alike(Cat(t[4], t[5]), Cat(s[4], s[5]), p, c)
           /\ Alike(Cat(t[6], t[7]), Cat(s[6], s[7]), p, c)
    BY DEF Stages
  <1> HIDE DEF s, t
  <1>5. Alike(Line(t), Line(s), p, c)
    BY <1>1, <1>4, AlikeLines
  <1> QED BY <1>2, <1>3, <1>5

(* One conjunct of InTransit. *)
Transit(p, c) ==
    /\ shown[p][c] <= count[p][c]
    /\ Numbers(Path(p, c), p, c) = shown[p][c]..(count[p][c] - 1)
    /\ Ascending(Path(p, c), p, c)

Of(m, p, c) == IsNews(m) /\ m[1] = p /\ m[2] = c

LEMMA TransitKept ==
    ASSUME NEW p, NEW c, Transit(p, c), Alike(Path(p, c)', Path(p, c), p, c),
           shown'[p][c] = shown[p][c], count'[p][c] = count[p][c]
    PROVE  Transit(p, c)'
  <1>1. /\ Numbers(Path(p, c), p, c)' = Numbers(Path(p, c), p, c)
        /\ Ascending(Path(p, c), p, c)' <=> Ascending(Path(p, c), p, c)
    BY DEF Alike, Numbers, Ascending, Places
  <1> QED BY <1>1 DEF Transit

(* A step that neither takes a message of p and c into a hand nor drops    *)
(* one.                                                                    *)
Hands == {"rem_post", "removed", "ins_put"}

Passes(t, p, c) ==
    \/ pc[t] \notin Hands /\ pc'[t] \notin Hands
    \/ pc[t] \in Hands /\ pc'[t] \in Hands /\ msg'[t] = msg[t]
    \/ pc[t] \notin Hands /\ pc'[t] \in Hands /\ ~ Of(msg'[t], p, c)
    \/ pc[t] \in Hands /\ pc'[t] \notin Hands /\ ~ Of(msg[t], p, c)

LEMMA HandKept ==
    ASSUME CallTypes, CallTypes', NEW t \in Threads, NEW p, NEW c, Passes(t, p, c)
    PROVE  Alike(Hand(t)', Hand(t), p, c)
  <1>1. msg[t] \in Carried /\ msg'[t] \in Carried
    BY DEF CallTypes, Carried
  <1>2. /\ Hand(t) = IF pc[t] \in Hands THEN <<msg[t]>> ELSE <<>>
        /\ Hand(t)' = IF pc'[t] \in Hands THEN <<msg'[t]>> ELSE <<>>
    BY DEF Hand, Hands
  <1>3. CASE pc[t] \notin Hands /\ pc'[t] \notin Hands
    <2>1. Hand(t)' = Hand(t)
      BY <1>2, <1>3
    <2> QED BY <2>1 DEF Alike
  <1>4. CASE pc[t] \in Hands /\ pc'[t] \in Hands /\ msg'[t] = msg[t]
    <2>1. Hand(t)' = Hand(t)
      BY <1>2, <1>4
    <2> QED BY <2>1 DEF Alike
  <1>5. CASE pc[t] \notin Hands /\ pc'[t] \in Hands /\ ~ Of(msg'[t], p, c)
    <2>1. Alike(<<msg'[t]>>, <<>>, p, c)
      BY <1>1, <1>5, AlikeNothing DEF Of
    <2> QED BY <1>2, <1>5, <2>1
  <1>6. CASE pc[t] \in Hands /\ pc'[t] \notin Hands /\ ~ Of(msg[t], p, c)
    <2>1. Alike(<<>>, <<msg[t]>>, p, c)
      BY <1>1, <1>6, AlikeNothing DEF Of
    <2> QED BY <1>2, <1>6, <2>1
  <1> QED BY <1>3, <1>4, <1>5, <1>6 DEF Passes

LEMMA OtherHands ==
    ASSUME NEW t \in Threads, Only(t)
    PROVE  \A u \in Threads \ {t} : Hand(u)' = Hand(u)
  BY DEF Only, Hand

(* Stages that a step leaves alike make a path that it leaves alike.       *)
LEMMA StagesKept ==
    ASSUME CallTypes, BufferTypes, CallTypes', BufferTypes',
           NEW p \in Producers, NEW c \in Categories, Transit(p, c),
           shown'[p][c] = shown[p][c], count'[p][c] = count[p][c],
           \A u \in Threads : Alike(Hand(u)', Hand(u), p, c),
           \A b \in Buffers : Alike(queue'[b], queue[b], p, c)
    PROVE  Transit(p, c)'
  <1>1. ASSUME NEW u \in Threads, NEW b \in Buffers
        PROVE  Alike(Cat(Hand(u)', queue'[b]), Cat(Hand(u), queue[b]), p, c)
    BY StageTypes, AlikeCat
  <1>2. Alike(Path(p, c)', Path(p, c), p, c)
    BY <1>1, PathKept, ThreadFacts
  <1> QED BY <1>2, TransitKept

LEMMA AlikeItself == \A s, p, c : Alike(s, s, p, c)
  BY DEF Alike

(* A step outside the critical sections. *)
LEMMA QuietStep ==
    ASSUME CallTypes, BufferTypes, CallTypes', BufferTypes',
           NEW p \in Producers, NEW c \in Categories, Transit(p, c),
           shown'[p][c] = shown[p][c], count'[p][c] = count[p][c],
           NEW t \in Threads, Only(t), queue' = queue, Passes(t, p, c)
    PROVE  Transit(p, c)'
  <1>1. \A u \in Threads : Alike(Hand(u)', Hand(u), p, c)
    BY HandKept, OtherHands, AlikeItself
  <1>2. \A b \in Buffers : Alike(queue'[b], queue[b], p, c)
    BY AlikeItself
  <1> QED BY <1>1, <1>2, StagesKept

(* A producer makes the next message. *)
LEMMA PathGrows ==
    ASSUME CallTypes, BufferTypes, CallTypes', BufferTypes',
           NEW p \in Producers, NEW c \in Categories, Transit(p, c),
           Only(Prod(p)), queue' = queue,
           pc[Prod(p)] = "run", pc'[Prod(p)] = "ins_put",
           shown[p][c] \in Nat, count[p][c] \in Nat,
           msg'[Prod(p)] = News(p, c, count[p][c]),
           shown'[p][c] = shown[p][c], count'[p][c] = count[p][c] + 1
    PROVE  Transit(p, c)'
  <1> DEFINE s == Stages(p, c)
             t == Stages(p, c)'
             m == News(p, c, count[p][c])
             Most(z) == Cat(Cat(Cat(Cat(Cat(z[1], z[2]), z[3]), z[4]), z[5]), z[6])
  <1>1. Seven(s) /\ Seven(t)
    BY StageTypes, ThreadFacts DEF Seven, Stages
  <1>2. /\ s[7] = <<>> /\ t[7] = <<m>>
        /\ t[1] = s[1] /\ t[2] = s[2] /\ t[3] = s[3] /\ t[4] = s[4] /\ t[5] = s[5] /\ t[6] = s[6]
    <2>1. Hand(Prod(p)) = <<>> /\ Hand(Prod(p))' = <<m>>
      BY DEF Hand
    <2>2. /\ Hand(Screen)' = Hand(Screen) /\ Hand(Editor(c))' = Hand(Editor(c))
          /\ Hand(Dispatcher)' = Hand(Dispatcher)
      BY OtherHands, ThreadFacts
    <2> QED BY <2>1, <2>2 DEF Stages
  <1>3. Path(p, c) = Line(s) /\ Path(p, c)' = Line(t)
    BY DEF Path, Line, Cat, Stages
  <1>4. /\ Line(s) = Cat(Most(s), s[7]) /\ Most(s) \in Seq(Carried)
        /\ Line(t) = Cat(Most(t), t[7])
    BY <1>1, SevenStages
  <1>5. Most(t) = Most(s)
    BY <1>2
  <1> DEFINE P == Path(p, c)
             R == Path(p, c)'
             M == Most(s)
  <1>6. <<m>> \in Seq(Carried) /\ <<>> \in Seq(Carried) /\ IsNews(m) /\ m[1] = p /\ m[2] = c
        /\ m[3] = count[p][c]
    BY MessageFacts DEF Carried
  <1>7. Numbers(<<m>>, p, c) = {count[p][c]} /\ Ascending(<<m>>, p, c)
    <2>1. Places(<<m>>, p, c) = {1} /\ <<m>>[1] = m
      BY <1>6 DEF Places
    <2>2. Numbers(<<m>>, p, c) = {m[3]}
      BY <2>1 DEF Numbers
    <2> QED BY <1>6, <2>1, <2>2 DEF Ascending
  <1> DEFINE L == <<m>>
  <1>8. L \in Seq(Carried) /\ t[7] = L /\ Numbers(L, p, c) = {count[p][c]} /\ Ascending(L, p, c)
    BY <1>2, <1>6, <1>7
  <1> HIDE DEF s, t, m, L, Most
  <1>9. P = M /\ M \in Seq(Carried) /\ R = Cat(M, L)
    <2>1. P = Cat(M, <<>>) /\ M \in Seq(Carried) /\ R = Cat(M, L)
      BY <1>2, <1>3, <1>4, <1>5, <1>8
    <2> HIDE DEF P, M
    <2> QED BY <2>1, ConcatEmptySeq DEF Cat
  <1> HIDE DEF P, R, M
  <1>10. /\ Numbers(R, p, c) = Numbers(P, p, c) \union {count[p][c]}
         /\ Ascending(R, p, c) <=> /\ Ascending(P, p, c)
                                   /\ \A x \in Numbers(P, p, c) : x < count[p][c]
    BY <1>8, <1>9, CatView
  <1>11. /\ shown[p][c] <= count[p][c] /\ Numbers(P, p, c) = shown[p][c]..(count[p][c] - 1)
         /\ Ascending(P, p, c)
    BY DEF Transit, P
  <1> DEFINE a == shown[p][c]
             b == count[p][c]
  <1>12. a \in Nat /\ b \in Nat /\ a <= b /\ Numbers(P, p, c) = a..(b - 1) /\ Ascending(P, p, c)
    BY <1>11
  <1> HIDE DEF a, b
  <1>13. a <= b + 1 /\ Numbers(R, p, c) = a..((b + 1) - 1) /\ Ascending(R, p, c)
    <2>1. (a..(b - 1)) \union {b} = a..((b + 1) - 1) /\ \A x \in a..(b - 1) : x < b
      BY <1>12
    <2> QED BY <1>10, <1>12, <2>1 DEF b
  <1>14. Numbers(Path(p, c), p, c)' = Numbers(R, p, c)
         /\ (Ascending(Path(p, c), p, c)' <=> Ascending(R, p, c))
    BY DEF R, Numbers, Ascending, Places
  <1> QED BY <1>13, <1>14 DEF Transit, a, b

(* The screen manager prints the message that has come furthest.           *)
LEMMA PathShrinks ==
    ASSUME CallTypes, BufferTypes, CallTypes', BufferTypes',
           NEW p \in Producers, NEW c \in Categories, Transit(p, c),
           Only(Screen), queue' = queue,
           pc[Screen] = "removed", pc'[Screen] \notin Hands,
           shown[p][c] \in Nat, count[p][c] \in Nat, Of(msg[Screen], p, c),
           shown'[p][c] = shown[p][c] + 1, count'[p][c] = count[p][c]
    PROVE  Transit(p, c)'
  <1> DEFINE s == Stages(p, c)
             t == Stages(p, c)'
             m == msg[Screen]
  <1>1. Seven(s) /\ Seven(t)
    BY StageTypes, ThreadFacts DEF Seven, Stages
  <1>2. /\ s[1] = <<m>> /\ t[1] = <<>> /\ t[2] = s[2] /\ t[3] = s[3] /\ t[4] = s[4]
        /\ t[5] = s[5] /\ t[6] = s[6] /\ t[7] = s[7]
    <2>1. Hand(Screen) = <<m>> /\ Hand(Screen)' = <<>>
      BY DEF Hand, Hands
    <2>2. /\ Hand(Prod(p))' = Hand(Prod(p)) /\ Hand(Editor(c))' = Hand(Editor(c))
          /\ Hand(Dispatcher)' = Hand(Dispatcher)
      BY OtherHands, ThreadFacts
    <2> QED BY <2>1, <2>2 DEF Stages
  <1>3. Path(p, c) = Line(s) /\ Path(p, c)' = Line(t)
    BY DEF Path, Line, Cat, Stages
  <1>4. /\ Line(s) = Cat(s[1], Behind(s)) /\ Behind(s) \in Seq(Carried)
        /\ Line(t) = Cat(t[1], Behind(t))
    BY <1>1, SevenStages
  <1>5. Behind(t) = Behind(s)
    BY <1>2 DEF Behind
  <1>6. m \in Carried /\ IsNews(m) /\ m[1] = p /\ m[2] = c
    BY ThreadFacts DEF CallTypes, Carried, Of
  <1>7. m[3] \in Nat
    BY <1>6, MessageFacts DEF Carried
  <1> DEFINE P == Path(p, c)
             R == Path(p, c)'
  <1>8. Numbers(<<m>>, p, c) = {m[3]}
    <2>1. Places(<<m>>, p, c) = {1} /\ <<m>>[1] = m
      BY <1>6 DEF Places
    <2> QED BY <2>1 DEF Numbers
  <1>9. <<m>> \in Seq(Carried)
    BY <1>6
  <1> HIDE DEF s, t, m
  <1>10. P = <<m>> \o Behind(s) /\ R = <<>> \o Behind(s)
    BY <1>2, <1>3, <1>4, <1>5 DEF Cat
  <1>11. R = Behind(s)
    BY <1>4, <1>10, ConcatEmptySeq
  <1> HIDE DEF P, R
  <1>12. /\ Numbers(P, p, c) = {m[3]} \union Numbers(R, p, c)
         /\ Ascending(P, p, c) => /\ Ascending(R, p, c)
                                  /\ \A y \in Numbers(R, p, c) : m[3] < y
    <2> DEFINE L == <<m>> \o R
    <2>1. P = L /\ R \in Seq(Carried)
      BY <1>4, <1>10, <1>11
    <2>2. /\ Numbers(L, p, c) = Numbers(<<m>>, p, c) \union Numbers(R, p, c)
          /\ Ascending(L, p, c) <=>
               /\ Ascending(<<m>>, p, c) /\ Ascending(R, p, c)
               /\ \A x \in Numbers(<<m>>, p, c), y \in Numbers(R, p, c) : x < y
      BY <1>9, <2>1, ConcatView, Zenon
    <2> HIDE DEF L
    <2> QED BY <1>8, <2>1, <2>2
  <1> DEFINE a == shown[p][c]
             b == count[p][c]
             n == m[3]
             S == Numbers(R, p, c)
  <1>13. a \in Nat /\ b \in Nat /\ a <= b /\ n \in Nat
         /\ {n} \union S = a..(b - 1) /\ (\A y \in S : n < y) /\ Ascending(R, p, c)
    BY <1>7, <1>12 DEF Transit, P
  <1> HIDE DEF a, b, n, S
  <1>14. a + 1 <= b /\ S = (a + 1)..(b - 1)
    <2>1. a \in Nat /\ b \in Nat /\ n \in Nat
      BY <1>13
    <2>2. n \in a..(b - 1) /\ n \notin S /\ S \subseteq a..(b - 1)
      <3>1. n \in a..(b - 1) /\ S \subseteq a..(b - 1)
        BY <1>13, Zenon
      <3>2. ~ (n < n)
        BY <2>1
      <3> QED BY <1>13, <3>1, <3>2, Zenon
    <2>3. a <= n /\ n <= b - 1
      <3>1. n \in a..(b - 1)
        BY <2>2
      <3> QED BY <2>1, <3>1
    <2>4. a \in a..(b - 1) /\ a + 1 <= b
      BY <2>1, <2>3
    <2>5. a = n
      <3>1. a = n \/ a \in S
        BY <1>13, <2>4
      <3>2. a \in S => n < a
        BY <1>13
      <3> QED BY <2>1, <2>3, <3>1, <3>2
    <2>6. \A k : k \in S <=> k \in a..(b - 1) /\ k # a
      BY <1>13, <2>2, <2>5
    <2>7. \A k : k \in (a + 1)..(b - 1) <=> k \in a..(b - 1) /\ k # a
      BY <2>1
    <2>8. S = (a + 1)..(b - 1)
      BY <2>6, <2>7
    <2> QED BY <2>4, <2>8
  <1>15. Numbers(Path(p, c), p, c)' = Numbers(R, p, c)
         /\ (Ascending(Path(p, c), p, c)' <=> Ascending(R, p, c))
    BY DEF R, Numbers, Ascending, Places
  <1> QED BY <1>13, <1>14, <1>15 DEF Transit, a, b, S

LEMMA TransitTypes ==
    ASSUME Base, InTransit
    PROVE  /\ \A p \in Producers, c \in Categories :
                Transit(p, c) /\ shown[p][c] \in Nat /\ count[p][c] \in Nat
           /\ CallTypes /\ BufferTypes
  BY DEF Base, Accounts, LocalTypes, InTransit, Transit

LEMMA ProducerTransit ==
    ASSUME Base, Base', InTransit, NEW p \in Producers, Producer(p) \/ ProducerFail(p)
    PROVE  InTransit'
  <1> SUFFICES ASSUME NEW q \in Producers, NEW c \in Categories PROVE Transit(q, c)'
    BY DEF InTransit, Transit
  <1> DEFINE t == Prod(p)
  <1>1. /\ t \in Threads /\ t \in Buffers /\ CallTypes /\ BufferTypes /\ CallTypes' /\ BufferTypes'
        /\ Transit(q, c) /\ shown[q][c] \in Nat /\ count[q][c] \in Nat
    BY ThreadFacts, TransitTypes DEF Base, Accounts
  <1>2. CASE ProducerMessage(p)
    <2>1. PICK d \in Categories :
             /\ InsertWait(t, "run", t, News(p, d, count[p][d]))
             /\ count' = [count EXCEPT ![p][d] = @ + 1]
      BY <1>2 DEF ProducerMessage
    <2> DEFINE m == News(p, d, count[p][d])
    <2>2. m \in Sent /\ (Of(m, q, c) => q = p /\ c = d)
      <3>1. count[p][d] \in Nat
        BY DEF Base, LocalTypes
      <3>2. m \in Sent /\ m[1] = p /\ m[2] = d
        BY <3>1, MessageFacts
      <3> HIDE DEF m
      <3> QED BY <3>2 DEF Of
    <2>3. shown' = shown
      BY <1>2 DEF ProducerMessage, screen
    <2> HIDE DEF m, t
    <2>4. InsertWait(t, "run", t, m)
      BY <2>1 DEF m
    <2>5. Only(t) /\ pc[t] = "run" /\ queue' = queue /\ pc'[t] = "ins_put" /\ msg'[t] = m
      BY <1>1, <2>2, <2>4, InsertBegins
    <2>6. CASE q = p /\ c = d
      <3>1. count'[q][c] = count[q][c] + 1
        BY <2>1, <2>6 DEF Base, LocalTypes
      <3>2. msg'[t] = News(q, c, count[q][c])
        BY <2>5, <2>6 DEF m
      <3> QED BY <1>1, <2>3, <2>5, <2>6, <3>1, <3>2, PathGrows DEF t
    <2>7. CASE ~ (q = p /\ c = d)
      <3>1. count'[q][c] = count[q][c]
        BY <2>1, <2>7 DEF Base, LocalTypes
      <3>2. Passes(t, q, c)
        BY <2>2, <2>5, <2>7 DEF Passes, Hands
      <3> QED BY <1>1, <2>3, <2>5, <3>1, <3>2, QuietStep
    <2> QED BY <2>6, <2>7
  <1>3. CASE ProducerFinish(p)
    <2>1. InsertWait(t, "run", t, FINISH_MSG) /\ shown' = shown /\ count' = count
      BY <1>3 DEF ProducerFinish, screen
    <2> HIDE DEF t
    <2>2. Only(t) /\ pc[t] = "run" /\ queue' = queue /\ pc'[t] = "ins_put" /\ msg'[t] = FINISH_MSG
      <3>1. t \in Threads /\ t \in Buffers /\ CallTypes /\ BufferTypes /\ FINISH_MSG \in Sent
        BY <1>1, MessageFacts
      <3> QED BY <2>1, <3>1, InsertBegins
    <2>3. Passes(t, q, c)
      BY <2>2, MessageFacts DEF Passes, Hands, Of
    <2> QED BY <1>1, <2>1, <2>2, <2>3, QuietStep
  <1>4. ASSUME NEW f \in {"run", "ins_post"}, NEW g \in {"run", "exit"}, EndBody(t, f, g),
               UNCHANGED <<queue, count, shown>>
        PROVE  Transit(q, c)'
    <2> HIDE DEF t
    <2>1. g \in PcValues
      BY DEF PcValues
    <2>2. Only(t) /\ pc[t] = f /\ pc'[t] = g
      BY <1>1, <1>4, <2>1, BodyEnds
    <2>3. Passes(t, q, c)
      BY <2>2 DEF Passes, Hands
    <2> QED BY <1>1, <1>4, <2>2, <2>3, QuietStep
  <1>5. CASE ProducerPosted(p)
    BY <1>4, <1>5 DEF ProducerPosted, InsertPost, Publish, screen
  <1>6. CASE ProducerFail(p)
    BY <1>4, <1>6 DEF ProducerFail, screen
  <1> HIDE DEF t
  <1> QED BY <1>2, <1>3, <1>5, <1>6 DEF Producer

LEMMA EditorTransit ==
    ASSUME Base, Base', InTransit, NEW d \in Categories, CoEditor(d)
    PROVE  InTransit'
  <1> SUFFICES ASSUME NEW q \in Producers, NEW c \in Categories PROVE Transit(q, c)'
    BY DEF InTransit, Transit
  <1> DEFINE t == Editor(d)
  <1>1. /\ t \in Threads /\ t \in Buffers /\ CallTypes /\ BufferTypes /\ CallTypes' /\ BufferTypes'
        /\ Transit(q, c) /\ Screen \in Buffers
    BY ThreadFacts, TransitTypes DEF Base, Accounts
  <1>2. UNCHANGED <<count, queue, shown>>
    BY DEF CoEditor, CoEditorRemove, CoEditorForward, CoEditorPosted, CoEditorTest,
           RemoveWait, InsertWait, Publish, screen
  <1>3. SUFFICES Only(t) /\ Passes(t, q, c)
    <2> HIDE DEF t
    <2> QED BY <1>1, <1>2, <1>3, QuietStep
  <1>4. CASE CoEditorRemove(d)
    <2>1. RemoveWait(t, "run", t)
      BY <1>4 DEF CoEditorRemove
    <2> HIDE DEF t
    <2>2. Only(t) /\ pc[t] = "run" /\ pc'[t] = "rem_get"
      BY <1>1, <2>1, RemoveBegins
    <2> QED BY <2>2 DEF Passes, Hands
  <1>5. CASE CoEditorForward(d)
    <2> DEFINE m == msg[t]
    <2>1. InsertWait(t, "removed", Screen, m)
      BY <1>5 DEF CoEditorForward
    <2>2. pc[t] = "removed" /\ pc'[t] = "ins_put"
      BY <1>1, <2>1 DEF InsertWait, Goto, CallTypes
    <2>3. m \in Sent
      BY <1>1, <2>2, MessageFacts DEF Base, Roles, EditorRole, CallTypes
    <2> HIDE DEF t, m
    <2>4. Only(t) /\ msg'[t] = m
      BY <1>1, <2>1, <2>3, InsertBegins
    <2> QED BY <2>2, <2>4 DEF Passes, Hands, m
  <1>6. CASE CoEditorPosted(d)
    <2>1. Goto(t, "ins_post", "test") /\ UNCHANGED <<arg, msg>> /\ "test" \in PcValues
      BY <1>6 DEF CoEditorPosted, PcValues
    <2> HIDE DEF t
    <2>2. Only(t) /\ pc[t] = "ins_post" /\ pc'[t] = "test"
      BY <1>1, <2>1, Moving
    <2> QED BY <2>2 DEF Passes, Hands
  <1>7. CASE CoEditorTest(d)
    <2> DEFINE g == IF msg[t] = FINISH_MSG THEN "exit" ELSE "run"
    <2>1. EndBody(t, "test", g) /\ g \in PcValues /\ g \notin Hands
      BY <1>7 DEF CoEditorTest, PcValues, Hands
    <2> HIDE DEF t, g
    <2>2. Only(t) /\ pc[t] = "test" /\ pc'[t] = g
      BY <1>1, <2>1, BodyEnds
    <2> QED BY <2>1, <2>2 DEF Passes, Hands
  <1> HIDE DEF t
  <1> QED BY <1>4, <1>5, <1>6, <1>7 DEF CoEditor

LEMMA ScreenTransit == ASSUME Base, Base', InTransit, ScreenManager PROVE InTransit'
  <1> SUFFICES ASSUME NEW q \in Producers, NEW c \in Categories PROVE Transit(q, c)'
    BY DEF InTransit, Transit
  <1>1. /\ Screen \in Threads /\ Screen \in Buffers
        /\ CallTypes /\ BufferTypes /\ CallTypes' /\ BufferTypes'
        /\ Transit(q, c) /\ shown[q][c] \in Nat /\ count[q][c] \in Nat
    BY ThreadFacts, TransitTypes DEF Base, Accounts
  <1>2. UNCHANGED <<count, queue>>
    BY DEF ScreenManager, ScreenRemove, ScreenPrint, ScreenDone, RemoveWait
  <1>3. CASE ScreenRemove
    <2>1. Only(Screen) /\ pc[Screen] = "run" /\ pc'[Screen] = "rem_get" /\ shown' = shown
      BY <1>1, <1>3, RemoveBegins DEF ScreenRemove, screen
    <2>2. Passes(Screen, q, c)
      BY <2>1 DEF Passes, Hands
    <2> QED BY <1>1, <1>2, <2>1, <2>2, QuietStep
  <1>4. CASE ScreenPrint
    <2>1. "run" \in PcValues
      BY DEF PcValues
    <2>2. Only(Screen) /\ pc[Screen] = "removed" /\ pc'[Screen] = "run"
      BY <1>1, <1>4, <2>1, BodyEnds DEF ScreenPrint
    <2> DEFINE m == msg[Screen]
    <2>3. /\ IsNews(m) /\ m \in Sent /\ m[1] \in Producers /\ m[2] \in Categories
          /\ shown' = [shown EXCEPT ![m[1]][m[2]] = @ + 1]
      BY <1>1, <1>4, MessageFacts DEF ScreenPrint, CallTypes
    <2> HIDE DEF m
    <2>4. CASE Of(m, q, c)
      <3>1. shown'[q][c] = shown[q][c] + 1
        BY <2>3, <2>4 DEF Of, Base, LocalTypes
      <3> QED BY <1>1, <1>2, <2>2, <2>4, <3>1, PathShrinks DEF Hands, m
    <2>5. CASE ~ Of(m, q, c)
      <3>1. shown'[q][c] = shown[q][c]
        BY <2>3, <2>5 DEF Of, Base, LocalTypes
      <3>2. Passes(Screen, q, c)
        BY <2>2, <2>5 DEF Passes, Hands, m
      <3> QED BY <1>1, <1>2, <2>2, <3>1, <3>2, QuietStep
    <2> QED BY <2>4, <2>5
  <1>5. CASE ScreenDone
    <2> DEFINE g == IF doneCount + 1 = 3 THEN "exit" ELSE "run"
    <2>1. /\ g \in PcValues /\ g \notin Hands /\ EndBody(Screen, "removed", g)
          /\ msg[Screen] = FINISH_MSG /\ shown' = shown
      BY <1>5 DEF PcValues, ScreenDone, Hands
    <2> HIDE DEF g
    <2>2. Only(Screen) /\ pc[Screen] = "removed" /\ pc'[Screen] = g
      BY <1>1, <2>1, BodyEnds
    <2>3. Passes(Screen, q, c)
      BY <2>1, <2>2, MessageFacts DEF Passes, Hands, Of
    <2> QED BY <1>1, <1>2, <2>1, <2>2, <2>3, QuietStep
  <1> QED BY <1>3, <1>4, <1>5 DEF ScreenManager

LEMMA DispatcherTransit == ASSUME Base, Base', InTransit, DispatcherFunc PROVE InTransit'
  <1> SUFFICES ASSUME NEW q \in Producers, NEW c \in Categories PROVE Transit(q, c)'
    BY DEF InTransit, Transit
  <1> DEFINE t == Dispatcher
  <1>1. /\ t \in Threads /\ CallTypes /\ BufferTypes /\ CallTypes' /\ BufferTypes' /\ Transit(q, c)
        /\ DispatcherRole /\ i \in 1..(N + 1) /\ finishes \in 0..3
    BY ThreadFacts, TransitTypes DEF Base, Accounts, Roles, LocalTypes
  <1>2. UNCHANGED <<count, queue, shown>>
    BY DEF DispatcherFunc, DispatcherSkip, DispatcherPoll, DispatcherTake, DispatcherNothing,
           DispatcherDone, DispatcherRoute, DispatcherRouted, DispatcherAgain, DispatcherFinish,
           DispatcherFinished, RemoveWait, InsertWait, InsertPost, Publish, screen
  <1>3. SUFFICES Only(t) /\ Passes(t, q, c)
    <2> HIDE DEF t
    <2> QED BY <1>1, <1>2, <1>3, QuietStep
  <1>4. ASSUME NEW f \in {"run", "try"}, NEW g \in {"run", "try"}, Goto(t, f, g),
               UNCHANGED <<arg, msg>>
        PROVE  Only(t) /\ Passes(t, q, c)
    <2> HIDE DEF t
    <2>1. g \in PcValues
      BY DEF PcValues
    <2>2. Only(t) /\ pc[t] = f /\ pc'[t] = g
      BY <1>1, <1>4, <2>1, Moving
    <2> QED BY <2>2 DEF Passes, Hands
  <1>5. ASSUME NEW f \in {"removed", "ins_post"}, NEW g \in {"run", "exit"}, EndBody(t, f, g),
               f = "removed" => msg[t] = FINISH_MSG
        PROVE  Only(t) /\ Passes(t, q, c)
    <2> HIDE DEF t
    <2>1. g \in PcValues
      BY DEF PcValues
    <2>2. Only(t) /\ pc[t] = f /\ pc'[t] = g
      BY <1>1, <1>5, <2>1, BodyEnds
    <2> QED BY <1>5, <2>2, MessageFacts DEF Passes, Hands, Of
  <1>6. CASE DispatcherSkip \/ DispatcherPoll \/ DispatcherNothing \/ DispatcherAgain
    BY <1>4, <1>6 DEF DispatcherSkip, DispatcherPoll, DispatcherNothing, DispatcherAgain
  <1>7. CASE DispatcherDone
    BY <1>5, <1>7 DEF DispatcherDone
  <1>8. CASE DispatcherRouted
    BY <1>5, <1>8 DEF DispatcherRouted, InsertPost
  <1>9. CASE DispatcherFinished
    BY <1>5, <1>9 DEF DispatcherFinished, InsertPost
  <1>10. CASE DispatcherTake
    <2>1. pc[t] = "try" /\ RemoveWait(t, "try", Prod(i))
      BY <1>10 DEF DispatcherTake, RemoveWait, Goto
    <2>2. Prod(i) \in Buffers
      BY <1>1, <2>1, IndexFacts, ThreadFacts DEF DispatcherRole
    <2> HIDE DEF t
    <2>3. Only(t) /\ pc'[t] = "rem_get"
      BY <1>1, <2>1, <2>2, RemoveBegins
    <2> QED BY <2>1, <2>3 DEF Passes, Hands
  <1>11. CASE DispatcherRoute
    <2> DEFINE m == msg[t]
               b == Editor(m[2])
    <2>1. pc[t] = "removed" /\ InsertWait(t, "removed", b, m) /\ IsNews(m)
      BY <1>11 DEF DispatcherRoute, InsertWait, Goto
    <2>2. m \in Sent /\ m[2] \in Categories
      BY <1>1, <2>1, MessageFacts DEF DispatcherRole, CallTypes
    <2>3. b \in Buffers
      BY <2>2, ThreadFacts
    <2> HIDE DEF m, b, t
    <2>4. Only(t) /\ pc'[t] = "ins_put" /\ msg'[t] = m
      BY <1>1, <2>1, <2>2, <2>3, InsertBegins
    <2> QED BY <2>1, <2>4 DEF Passes, Hands, m
  <1>12. CASE DispatcherFinish
    <2> DEFINE b == Editor(finishes)
    <2>1. InsertWait(t, "run", b, FINISH_MSG)
      BY <1>12 DEF DispatcherFinish
    <2>2. b \in Buffers /\ FINISH_MSG \in Sent
      BY <1>1, <1>12, ThreadFacts, MessageFacts, IndexFacts DEF DispatcherFinish
    <2> HIDE DEF b, t
    <2>3. Only(t) /\ pc[t] = "run" /\ pc'[t] = "ins_put" /\ msg'[t] = FINISH_MSG
      BY <1>1, <2>1, <2>2, InsertBegins
    <2> QED BY <2>3, MessageFacts DEF Passes, Hands, Of
  <1> HIDE DEF t
  <1> QED BY <1>6, <1>7, <1>8, <1>9, <1>10, <1>11, <1>12 DEF DispatcherFunc

(* A put moves a message from a hand to the end of the queue before it,    *)
(* and a get moves the first of a queue into the hand before it.           *)
LEMMA PutCat ==
    ASSUME NEW q \in Seq(Carried), NEW m \in Carried
    PROVE  Cat(Append(q, m), <<>>) = Cat(q, <<m>>)
  <1>1. Append(q, m) \in Seq(Carried) /\ Append(q, m) = q \o <<m>>
    BY AppendIsConcat
  <1> QED BY <1>1, ConcatEmptySeq DEF Cat

LEMMA GetCat ==
    ASSUME NEW q \in Seq(Carried), q # <<>>
    PROVE  Cat(<<Head(q)>>, Tail(q)) = Cat(<<>>, q)
  <1>1. <<Head(q)>> \o Tail(q) = q
    OBVIOUS
  <1> QED BY <1>1, ConcatEmptySeq DEF Cat

LEMMA AlikeTail ==
    ASSUME NEW p, NEW c, NEW q \in Seq(Carried), q # <<>>, ~ Of(Head(q), p, c)
    PROVE  Alike(Tail(q), q, p, c)
  <1> DEFINE m == Head(q)
             L == <<m>>
             T == Tail(q)
  <1>1. m \in Carried /\ T \in Seq(Carried)
    BY HeadTailProperties
  <1>2. L \in Seq(Carried) /\ <<>> \in Seq(Carried)
    BY <1>1
  <1>3. Cat(L, T) = Cat(<<>>, q) /\ Cat(<<>>, q) = q /\ Cat(<<>>, T) = T
    BY <1>1, GetCat, ConcatEmptySeq DEF Cat
  <1>4. Alike(<<>>, L, p, c)
    <2> HIDE DEF m
    <2> QED BY <1>1, AlikeNothing DEF Of, m
  <1> HIDE DEF m, L, T
  <1>5. Alike(Cat(<<>>, T), Cat(L, T), p, c)
    BY <1>1, <1>2, <1>4, AlikeItself, AlikeCat
  <1> QED BY <1>3, <1>5 DEF T

LEMMA PutTransit ==
    ASSUME Base, Base', InTransit, NEW t \in Threads, InsertPut(t)
    PROVE  InTransit'
  <1> SUFFICES ASSUME NEW p \in Producers, NEW c \in Categories PROVE Transit(p, c)'
    BY DEF InTransit, Transit
  <1>1. /\ CallTypes /\ BufferTypes /\ CallTypes' /\ BufferTypes' /\ Transit(p, c)
    BY TransitTypes DEF Base, Accounts
  <1>2. UNCHANGED <<count, shown>> /\ pc[t] = "ins_put"
    BY DEF InsertPut, Goto, screen
  <1>3. msg[t] \in Sent /\ msg[t] \in Carried /\ \A b \in Buffers : queue[b] \in Seq(Carried)
    BY <1>1, <1>2, CallFacts, StageTypes DEF Carried
  <1>4. /\ Only(t) /\ pc'[t] = "ins_post" /\ arg[t] \in Buffers
        /\ queue'[arg[t]] = Append(queue[arg[t]], msg[t])
        /\ \A d \in Buffers \ {arg[t]} : queue'[d] = queue[d]
    BY <1>1, <1>3, Putting
  <1>5. CASE ~ Of(msg[t], p, c)
    <2>1. \A u \in Threads : Alike(Hand(u)', Hand(u), p, c)
      <3>1. Passes(t, p, c)
        BY <1>2, <1>4, <1>5 DEF Passes, Hands
      <3> QED BY <1>1, <1>4, <3>1, HandKept, OtherHands, AlikeItself
    <2>2. \A b \in Buffers : Alike(queue'[b], queue[b], p, c)
      BY <1>3, <1>4, <1>5, AlikeAppend, AlikeItself DEF Of
    <2> QED BY <1>1, <1>2, <2>1, <2>2, StagesKept
  <1>6. CASE Of(msg[t], p, c)
    <2>1. Cat(queue'[arg[t]], Hand(t)') = Cat(queue[arg[t]], Hand(t))
      <3>1. Hand(t) = <<msg[t]>> /\ Hand(t)' = <<>>
        BY <1>2, <1>4 DEF Hand
      <3> QED BY <1>3, <1>4, <3>1, PutCat
    <2>2. \A u \in Threads \ {t} : Hand(u)' = Hand(u)
      BY <1>4, OtherHands
    <2>3. \/ t = Prod(p) /\ arg[t] = Prod(p)
          \/ t = Dispatcher /\ arg[t] = Editor(c)
          \/ t = Editor(c) /\ arg[t] = Screen
      <3>1. IsNews(msg[t]) /\ msg[t][1] = p /\ msg[t][2] = c
        BY <1>6 DEF Of
      <3>2. ASSUME NEW d \in Categories, t = Editor(d) PROVE d = c
        BY <1>2, <3>1, <3>2 DEF Base, Roles, EditorRole
      <3> QED BY <1>2, <3>1, <3>2, CallFacts
    <2>4. /\ Hand(Screen)' = Hand(Screen)
          /\ Cat(queue'[Screen], Hand(Editor(c))') = Cat(queue[Screen], Hand(Editor(c)))
          /\ Cat(queue'[Editor(c)], Hand(Dispatcher)') = Cat(queue[Editor(c)], Hand(Dispatcher))
          /\ Cat(queue'[Prod(p)], Hand(Prod(p))') = Cat(queue[Prod(p)], Hand(Prod(p)))
      BY <1>4, <2>1, <2>2, <2>3, ThreadFacts
    <2>5. Alike(Path(p, c)', Path(p, c), p, c)
      BY <1>1, <2>4, PathKept, AlikeItself
    <2> QED BY <1>1, <1>2, <2>5, TransitKept
  <1> QED BY <1>5, <1>6

LEMMA GetTransit ==
    ASSUME Base, Base', InTransit, NEW t \in Threads, RemoveGet(t)
    PROVE  InTransit'
  <1> SUFFICES ASSUME NEW p \in Producers, NEW c \in Categories PROVE Transit(p, c)'
    BY DEF InTransit, Transit
  <1>1. /\ CallTypes /\ BufferTypes /\ CallTypes' /\ BufferTypes' /\ Transit(p, c)
    BY TransitTypes DEF Base, Accounts
  <1>2. UNCHANGED <<count, shown>> /\ pc[t] = "rem_get" /\ i' = i
    BY DEF RemoveGet, Goto, screen, dispatch
  <1>3. queue[arg[t]] # <<>>
    BY <1>2, SomethingToGet DEF Base
  <1>4. /\ Only(t) /\ pc'[t] = "rem_post" /\ arg[t] \in Buffers
        /\ msg'[t] = Head(queue[arg[t]])
        /\ queue'[arg[t]] = Tail(queue[arg[t]])
        /\ \A d \in Buffers \ {arg[t]} : queue'[d] = queue[d]
    BY <1>1, <1>3, Getting
  <1>5. queue[arg[t]] \in Seq(Carried)
    BY <1>1, <1>4, StageTypes
  <1>6. CASE ~ Of(msg'[t], p, c)
    <2>1. \A u \in Threads : Alike(Hand(u)', Hand(u), p, c)
      <3>1. Passes(t, p, c)
        BY <1>2, <1>4, <1>6 DEF Passes, Hands
      <3> QED BY <1>1, <1>4, <3>1, HandKept, OtherHands, AlikeItself
    <2>2. \A b \in Buffers : Alike(queue'[b], queue[b], p, c)
      BY <1>3, <1>4, <1>5, <1>6, AlikeTail, AlikeItself
    <2> QED BY <1>1, <1>2, <2>1, <2>2, StagesKept
  <1>7. CASE Of(msg'[t], p, c)
    <2>1. Cat(Hand(t)', queue'[arg[t]]) = Cat(Hand(t), queue[arg[t]])
      <3>1. Hand(t) = <<>> /\ Hand(t)' = <<Head(queue[arg[t]])>>
        BY <1>2, <1>4 DEF Hand
      <3> QED BY <1>3, <1>4, <1>5, <3>1, GetCat
    <2>2. \A u \in Threads \ {t} : Hand(u)' = Hand(u)
      BY <1>4, OtherHands
    <2>3. \/ t = Dispatcher /\ arg[t] = Prod(p)
          \/ t = Editor(c) /\ arg[t] = Editor(c)
          \/ t = Screen /\ arg[t] = Screen
      <3>1. IsNews(msg'[t]) /\ msg'[t][1] = p /\ msg'[t][2] = c
        BY <1>7 DEF Of
      <3>2. ASSUME NEW d \in Categories, t = Editor(d) PROVE d = c
        BY <1>4, <3>1, <3>2 DEF Base, Roles, EditorRole
      <3>3. ASSUME t = Dispatcher PROVE i = p
        BY <1>2, <1>4, <3>1, <3>3 DEF Base, Roles, DispatcherRole
      <3> QED BY <1>2, <3>1, <3>2, <3>3, CallFacts
    <2>4. /\ Cat(Hand(Screen)', queue'[Screen]) = Cat(Hand(Screen), queue[Screen])
          /\ Cat(Hand(Editor(c))', queue'[Editor(c)]) = Cat(Hand(Editor(c)), queue[Editor(c)])
          /\ Cat(Hand(Dispatcher)', queue'[Prod(p)]) = Cat(Hand(Dispatcher), queue[Prod(p)])
          /\ Hand(Prod(p))' = Hand(Prod(p))
      BY <1>4, <2>1, <2>2, <2>3, ThreadFacts
    <2>5. Alike(Path(p, c)', Path(p, c), p, c)
      BY <1>1, <2>4, PathKept, AlikeItself
    <2> QED BY <1>1, <1>2, <2>5, TransitKept
  <1> QED BY <1>6, <1>7

LEMMA FreeTransit ==
    ASSUME Base, Base', InTransit, NEW t \in Threads, RemovePost(t)
    PROVE  InTransit'
  <1> SUFFICES ASSUME NEW p \in Producers, NEW c \in Categories PROVE Transit(p, c)'
    BY DEF InTransit, Transit
  <1>1. /\ CallTypes /\ BufferTypes /\ CallTypes' /\ BufferTypes' /\ Transit(p, c)
    BY TransitTypes DEF Base, Accounts
  <1>2. UNCHANGED <<count, shown>> /\ pc[t] = "rem_post"
    BY DEF RemovePost, Goto, screen
  <1>3. Only(t) /\ pc'[t] = "removed" /\ queue' = queue /\ msg'[t] = msg[t]
    BY <1>1, Freeing
  <1>4. Passes(t, p, c)
    BY <1>2, <1>3 DEF Passes, Hands
  <1> QED BY <1>1, <1>2, <1>3, <1>4, QuietStep

LEMMA MainTransit == ASSUME Base, Base', InTransit, Main PROVE InTransit'
  <1> SUFFICES ASSUME NEW p \in Producers, NEW c \in Categories PROVE Transit(p, c)'
    BY DEF InTransit, Transit
  <1>1. /\ CallTypes /\ BufferTypes /\ CallTypes' /\ BufferTypes' /\ Transit(p, c)
    BY TransitTypes DEF Base, Accounts
  <1>2. UNCHANGED <<queue, count, shown, msg>>
    BY DEF Main, MainStart, MainFail, MainJoin, MainDestroy, calls, screen
  <1>3. ASSUME NEW u \in Threads PROVE Passes(u, p, c)
    <2>1. pc'[u] = pc[u] \/ (pc[u] = "new" /\ pc'[u] = "run")
      BY MainStarts
    <2> QED BY <1>2, <2>1 DEF Passes, Hands
  <1>4. \A u \in Threads : Alike(Hand(u)', Hand(u), p, c)
    BY <1>1, <1>3, HandKept
  <1>5. \A b \in Buffers : Alike(queue'[b], queue[b], p, c)
    BY <1>2, AlikeItself
  <1> QED BY <1>1, <1>2, <1>4, <1>5, StagesKept

LEMMA EmptyPath ==
    ASSUME NEW p \in Producers, NEW c \in Categories,
           queue[Screen] = <<>>, queue[Editor(c)] = <<>>, queue[Prod(p)] = <<>>,
           pc[Screen] \notin Hands, pc[Editor(c)] \notin Hands, pc[Dispatcher] \notin Hands,
           pc[Prod(p)] \notin Hands
    PROVE  Path(p, c) = <<>>
  <1>1. /\ Hand(Screen) = <<>> /\ Hand(Editor(c)) = <<>> /\ Hand(Dispatcher) = <<>>
        /\ Hand(Prod(p)) = <<>>
    BY DEF Hand, Hands
  <1>2. <<>> \o <<>> = <<>>
    OBVIOUS
  <1> QED BY <1>1, <1>2 DEF Path

LEMMA TransitInit == Init => InTransit
  <1> SUFFICES ASSUME Init, NEW p \in Producers, NEW c \in Categories PROVE Transit(p, c)
    BY DEF InTransit, Transit
  <1>1. /\ \A t \in Threads : pc[t] = "new"
        /\ \A b \in Buffers : queue[b] = <<>>
        /\ shown[p][c] = 0 /\ count[p][c] = 0
    BY DEF Init
  <1>2. Path(p, c) = <<>>
    BY <1>1, EmptyPath, ThreadFacts DEF Hands
  <1>3. Places(<<>>, p, c) = {}
    BY DEF Places
  <1>4. 0..(0 - 1) = {}
    OBVIOUS
  <1> QED BY <1>1, <1>2, <1>3, <1>4 DEF Transit, Numbers, Ascending

LEMMA TransitUnchanged == ASSUME InTransit, UNCHANGED vars PROVE InTransit'
  <1> SUFFICES ASSUME NEW p \in Producers, NEW c \in Categories PROVE Transit(p, c)'
    BY DEF InTransit, Transit
  <1>1. UNCHANGED <<queue, pc, msg, shown, count>> /\ Transit(p, c)
    BY DEF vars, calls, screen, InTransit, Transit
  <1>2. \A t : Hand(t)' = Hand(t)
    BY <1>1 DEF Hand
  <1>3. Path(p, c)' = Path(p, c)
    BY <1>1, <1>2 DEF Path
  <1> QED BY <1>1, <1>3, AlikeItself, TransitKept

LEMMA TransitStep == ASSUME Base, Base', InTransit, [Next]_vars PROVE InTransit'
  BY PutTransit, GetTransit, FreeTransit, ProducerTransit, DispatcherTransit, EditorTransit,
     ScreenTransit, MainTransit, TransitUnchanged
  DEF Next, Thread, BufferCall, Ended

(* Whoever runs when, between the producers and the screen of main.c no    *)
(* message is lost, duplicated or overtaken by a later one of its producer *)
(* and category.                                                           *)
THEOREM NothingLost == Spec => []InTransit
  <1>1. Base /\ [Next]_vars => Base'
    BY BaseStep
  <1>2. Base /\ Base' /\ InTransit /\ [Next]_vars => InTransit'
    BY TransitStep
  <1> QED BY <1>1, <1>2, BaseInit, TransitInit, PTL DEF Spec

(* When the screen manager ends, every message of every producer is on the *)
(* screen: the line count that test.sh compares with.                      *)
THEOREM AllShown == Spec => []OutputComplete
  <1>1. Base /\ Ending /\ InTransit => OutputComplete
    <2> SUFFICES ASSUME Base, Ending, InTransit, pc[Screen] = "exit", NEW p \in Producers
                 PROVE  Shown(p) = messages[p]
      BY DEF OutputComplete
    <2>1. ASSUME NEW c \in Categories PROVE shown[p][c] = count[p][c]
      <3>1. Path(p, c) = <<>>
        BY AfterTheScreen, EmptyPath DEF Hands
      <3>2. Places(<<>>, p, c) = {}
        BY DEF Places
      <3> DEFINE a == shown[p][c]
                 b == count[p][c]
      <3>3. a \in Nat /\ b \in Nat /\ a <= b /\ Numbers(<<>>, p, c) = a..(b - 1)
        BY <3>1, TransitTypes DEF Transit
      <3>4. a..(b - 1) = {}
        BY <3>2, <3>3 DEF Numbers
      <3> HIDE DEF a, b
      <3>5. a = b
        BY <3>3, <3>4
      <3> QED BY <3>5 DEF a, b
    <2>2. Shown(p) = Made(p)
      BY <2>1, IndexFacts DEF Shown, Made
    <2> QED BY <2>2, AfterTheScreen
  <1> QED BY <1>1, EndingHolds, NothingLost, PTL

=============================================================================
