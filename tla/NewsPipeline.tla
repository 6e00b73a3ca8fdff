---------------------------- MODULE NewsPipeline ----------------------------
(***************************************************************************)
(* The news program of ex3 (main.c): producers, the dispatcher, one        *)
(* co-editor per category and the screen manager, connected by bounded     *)
(* buffers and started, joined and cleaned up by main.                     *)
(*                                                                         *)
(* A buffer is what BoundedBuffer shows it to be: a FIFO queue and two     *)
(* counts of permits.  A call of insertToBuffer or removeFromBuffer is     *)
(* three steps, sem_wait, the critical section and sem_post, because       *)
(* another thread can run between any two of them.                         *)
(***************************************************************************)
EXTENDS Naturals, Sequences, FiniteSets

CONSTANTS
    N,              \* numOfProducers
    Loads,          \* the values messages may have
    queueSize,      \* queueSize[p] = producersInfo[p].queueSize
    coEditorSize,   \* coEditorQueueSize
    AllocMayFail    \* whether malloc may return NULL

Producers == 1..N
Categories == 0..2     \* rand() % 3: SPORTS, NEWS, WEATHER

ASSUME PipelineAssumption ==
    /\ N \in Nat
    /\ Loads \subseteq [Producers -> Nat]
    /\ queueSize \in [Producers -> Nat \ {0}]
    /\ coEditorSize \in Nat \ {0}
    /\ AllocMayFail \in BOOLEAN

Prod(p) == <<"producer", p>>
Editor(c) == <<"editor", c>>
Dispatcher == <<"dispatcher", 0>>
Screen == <<"screen", 0>>

Threads == {Prod(p) : p \in Producers} \union {Editor(c) : c \in Categories}
             \union {Dispatcher, Screen}

(* A buffer is named after the thread at one end of it: the producer that  *)
(* fills it, the co-editor or the screen manager that drains it.           *)
Buffers == Threads \ {Dispatcher}

SizeOf(b) == IF b[1] = "producer" THEN queueSize[b[2]] ELSE coEditorSize

NULL == <<0>>
FINISH_MSG == <<>>
News(p, c, n) == <<p, c, n>>   \* the text "producer p <category c> n"
IsNews(m) == Len(m) = 3
IsMessage(m) == m \in {NULL, FINISH_MSG} \/ m \in Producers \X Categories \X Nat

VARIABLES
    messages,         \* messages[p] = producersInfo[p].numOfMessages
    queue,            \* contents of every buffer
    readSemaphore, writeSemaphore,
    pc,               \* next statement of every thread
    arg,              \* the buffer a thread's current call works on
    msg,              \* the local `message' of a thread
    count,            \* count[p][c]: producer's sport, news and wheather
    i,                \* the dispatcher's loop index
    allProducersDone, \* the dispatcher's local
    isDone,           \* the isDone field of the producers' buffers
    finishes,         \* how many of the dispatcher's FINISH_MSG calls have begun
    doneCount,        \* the screen manager's local
    shown,            \* shown[p][c]: lines of producer p, category c on the screen
    mainPc,           \* position of main
    destroyed         \* the buffers destroyBuffer has freed

sems == <<readSemaphore, writeSemaphore>>
calls == <<pc, arg, msg>>
dispatch == <<i, allProducersDone, isDone, finishes>>
screen == <<doneCount, shown>>
mainVars == <<messages, mainPc, destroyed>>
vars == <<queue, sems, calls, count, dispatch, screen, mainVars>>

(* main creates the threads, then destroys the buffers, in these orders. *)
StartOrder == <<Dispatcher>> \o [p \in Producers |-> Prod(p)]
                \o <<Editor(0), Editor(1), Editor(2), Screen>>
DestroyOrder == [p \in Producers |-> Prod(p)] \o <<Editor(0), Editor(1), Editor(2), Screen>>

Init ==
    /\ messages \in Loads
    /\ queue = [b \in Buffers |-> <<>>]
    /\ readSemaphore = [b \in Buffers |-> 0]
    /\ writeSemaphore = [b \in Buffers |-> SizeOf(b)]
    /\ pc = [t \in Threads |-> "new"]
    /\ arg = [t \in Threads |-> Screen]
    /\ msg = [t \in Threads |-> NULL]
    /\ count = [p \in Producers |-> [c \in Categories |-> 0]]
    /\ i = 1
    /\ allProducersDone = TRUE
    /\ isDone = [p \in Producers |-> FALSE]
    /\ finishes = 0
    /\ doneCount = 0
    /\ shown = [p \in Producers |-> [c \in Categories |-> 0]]
    /\ mainPc = <<"start", 1>>
    /\ destroyed = {}

(* exit(EXIT_FAILURE) and the return of main end every thread. *)
Running == mainPc[1] \in {"start", "join", "destroy"}

-----------------------------------------------------------------------------
(* Calls of the buffer operations.  What a thread computes for itself      *)
(* before a call is part of the step that passes the call's sem_wait, and  *)
(* what it does with its own locals after insertToBuffer is part of the    *)
(* step of its sem_post: no other thread can see the difference.           *)
Goto(t, from, to) ==
    /\ Running
    /\ pc[t] = from
    /\ pc' = [pc EXCEPT ![t] = to]

(* The thread reaches the end of its loop body, or of its function: the    *)
(* local `message' goes out of scope.                                      *)
EndBody(t, from, to) ==
    /\ Goto(t, from, to)
    /\ arg' = [arg EXCEPT ![t] = Screen]
    /\ msg' = [msg EXCEPT ![t] = NULL]

(* insertToBuffer(b, m): sem_wait, the critical section, sem_post. *)
InsertWait(t, from, b, m) ==
    /\ Goto(t, from, "ins_put")
    /\ writeSemaphore[b] > 0
    /\ writeSemaphore' = [writeSemaphore EXCEPT ![b] = @ - 1]
    /\ arg' = [arg EXCEPT ![t] = b]
    /\ msg' = [msg EXCEPT ![t] = m]
    /\ UNCHANGED <<queue, readSemaphore>>

InsertPut(t) ==
    /\ Goto(t, "ins_put", "ins_post")
    /\ queue' = [queue EXCEPT ![arg[t]] = Append(@, msg[t])]
    /\ UNCHANGED <<sems, arg, msg, count, dispatch, screen, mainVars>>

Publish(b) ==
    /\ readSemaphore' = [readSemaphore EXCEPT ![b] = @ + 1]
    /\ UNCHANGED <<queue, writeSemaphore>>

InsertPost(t, to) == EndBody(t, "ins_post", to) /\ Publish(arg[t])

(* removeFromBuffer(b), and tryRemoveFromBuffer(b) when sem_trywait        *)
(* succeeds.                                                               *)
RemoveWait(t, from, b) ==
    /\ Goto(t, from, "rem_get")
    /\ readSemaphore[b] > 0
    /\ readSemaphore' = [readSemaphore EXCEPT ![b] = @ - 1]
    /\ arg' = [arg EXCEPT ![t] = b]
    /\ msg' = [msg EXCEPT ![t] = NULL]
    /\ UNCHANGED <<queue, writeSemaphore>>

RemoveGet(t) ==
    /\ Goto(t, "rem_get", "rem_post")
    /\ msg' = [msg EXCEPT ![t] = Head(queue[arg[t]])]
    /\ queue' = [queue EXCEPT ![arg[t]] = Tail(@)]
    /\ UNCHANGED <<sems, arg, count, dispatch, screen, mainVars>>

(* Mutant: the reader posts the semaphore it has waited for. *)
RemovePostRead(t) ==
    /\ Goto(t, "rem_post", "removed")
    /\ readSemaphore' = [readSemaphore EXCEPT ![arg[t]] = @ + 1]
    /\ UNCHANGED <<queue, writeSemaphore, arg, msg, count, dispatch, screen, mainVars>>

RemovePost(t) ==
    /\ Goto(t, "rem_post", "removed")
    /\ writeSemaphore' = [writeSemaphore EXCEPT ![arg[t]] = @ + 1]
    /\ UNCHANGED <<queue, readSemaphore, arg, msg, count, dispatch, screen, mainVars>>

BufferCall(t) == InsertPut(t) \/ RemoveGet(t) \/ RemovePost(t)

(* isBufferEmpty compares head and tail, which meet when the buffer is     *)
(* empty and when it is full.                                              *)
IsBufferEmpty(b) == Len(queue[b]) \in {0, SizeOf(b)}

-----------------------------------------------------------------------------
(* producer *)
Made(p) == count[p][0] + count[p][1] + count[p][2]

ProducerMessage(p) ==
    /\ Made(p) < messages[p]
    /\ \E c \in Categories :
         /\ InsertWait(Prod(p), "run", Prod(p), News(p, c, count[p][c]))
         /\ count' = [count EXCEPT ![p][c] = @ + 1]
    /\ UNCHANGED <<dispatch, screen, mainVars>>

(* malloc returns NULL: the producer exits without sending FINISH_MSG. *)
ProducerFail(p) ==
    /\ AllocMayFail
    /\ Made(p) < messages[p]
    /\ EndBody(Prod(p), "run", "exit")
    /\ UNCHANGED <<queue, sems, count, dispatch, screen, mainVars>>

ProducerFinish(p) ==
    /\ Made(p) = messages[p]
    /\ InsertWait(Prod(p), "run", Prod(p), FINISH_MSG)
    /\ UNCHANGED <<count, dispatch, screen, mainVars>>

ProducerPosted(p) ==
    /\ InsertPost(Prod(p), IF msg[Prod(p)] = FINISH_MSG THEN "exit" ELSE "run")
    /\ UNCHANGED <<count, dispatch, screen, mainVars>>

Producer(p) ==
    ProducerMessage(p) \/ ProducerFinish(p) \/ ProducerPosted(p)

-----------------------------------------------------------------------------
(* dispatcherFunc.  usleep, and didSomething which only guards it, change  *)
(* no state and are left out.                                              *)
DispatcherSkip ==
    /\ i <= N
    /\ isDone[i] /\ IsBufferEmpty(Prod(i))
    /\ Goto(Dispatcher, "run", "run")
    /\ i' = i + 1
    /\ UNCHANGED <<queue, sems, arg, msg, count, allProducersDone, isDone, finishes,
                   screen, mainVars>>

DispatcherPoll ==
    /\ i <= N
    /\ ~ (isDone[i] /\ IsBufferEmpty(Prod(i)))
    /\ Goto(Dispatcher, "run", "try")
    /\ allProducersDone' = FALSE
    /\ UNCHANGED <<queue, sems, arg, msg, count, i, isDone, finishes, screen, mainVars>>

(* tryRemoveFromBuffer *)
DispatcherTake ==
    /\ RemoveWait(Dispatcher, "try", Prod(i))
    /\ UNCHANGED <<count, dispatch, screen, mainVars>>

(* Mutant: the dispatcher waits for the producer it polls. *)
DispatcherNothingStays ==
    /\ Goto(Dispatcher, "try", "run")
    /\ readSemaphore[Prod(i)] = 0
    /\ UNCHANGED <<queue, sems, arg, msg, count, dispatch, screen, mainVars>>

DispatcherNothing ==
    /\ Goto(Dispatcher, "try", "run")
    /\ readSemaphore[Prod(i)] = 0
    /\ i' = i + 1
    /\ UNCHANGED <<queue, sems, arg, msg, count, allProducersDone, isDone, finishes,
                   screen, mainVars>>

DispatcherDone ==
    /\ msg[Dispatcher] = FINISH_MSG
    /\ EndBody(Dispatcher, "removed", "run")
    /\ isDone' = [isDone EXCEPT ![i] = TRUE]
    /\ i' = i + 1
    /\ UNCHANGED <<queue, sems, count, allProducersDone, finishes, screen, mainVars>>

(* Mutant: the first test of the category always succeeds. *)
DispatcherRouteSports ==
    /\ IsNews(msg[Dispatcher])
    /\ InsertWait(Dispatcher, "removed", Editor(0), msg[Dispatcher])
    /\ UNCHANGED <<count, dispatch, screen, mainVars>>

DispatcherRoute ==
    /\ IsNews(msg[Dispatcher])
    /\ InsertWait(Dispatcher, "removed", Editor(msg[Dispatcher][2]), msg[Dispatcher])
    /\ UNCHANGED <<count, dispatch, screen, mainVars>>

DispatcherRouted ==
    /\ IsNews(msg[Dispatcher])
    /\ InsertPost(Dispatcher, "run")
    /\ i' = i + 1
    /\ UNCHANGED <<count, allProducersDone, isDone, finishes, screen, mainVars>>

DispatcherAgain ==
    /\ i > N
    /\ ~ allProducersDone
    /\ Goto(Dispatcher, "run", "run")
    /\ i' = 1
    /\ allProducersDone' = TRUE
    /\ UNCHANGED <<queue, sems, arg, msg, count, isDone, finishes, screen, mainVars>>

(* FINISH_MSG to sportBuf, then newsBuf, then weatherBuf. *)
DispatcherFinish ==
    /\ i > N
    /\ allProducersDone
    /\ finishes < 3
    /\ InsertWait(Dispatcher, "run", Editor(finishes), FINISH_MSG)
    /\ finishes' = finishes + 1
    /\ UNCHANGED <<count, i, allProducersDone, isDone, screen, mainVars>>

DispatcherFinished ==
    /\ msg[Dispatcher] = FINISH_MSG
    /\ InsertPost(Dispatcher, IF finishes = 3 THEN "exit" ELSE "run")
    /\ UNCHANGED <<count, dispatch, screen, mainVars>>

DispatcherFunc ==
    \/ DispatcherSkip \/ DispatcherPoll \/ DispatcherTake \/ DispatcherNothing
    \/ DispatcherDone \/ DispatcherRoute \/ DispatcherRouted
    \/ DispatcherAgain \/ DispatcherFinish \/ DispatcherFinished

-----------------------------------------------------------------------------
(* coEditor.  The loop test reads the message once more after inserting    *)
(* it, when the screen manager may have printed and freed it.  The read    *)
(* still does not yield "DONE": no text on the heap is the literal.        *)
CoEditorRemove(c) ==
    /\ RemoveWait(Editor(c), "run", Editor(c))
    /\ UNCHANGED <<count, dispatch, screen, mainVars>>

CoEditorForward(c) ==
    /\ InsertWait(Editor(c), "removed", Screen, msg[Editor(c)])
    /\ UNCHANGED <<count, dispatch, screen, mainVars>>

CoEditorPosted(c) ==
    /\ Goto(Editor(c), "ins_post", "test")
    /\ Publish(arg[Editor(c)])
    /\ UNCHANGED <<arg, msg, count, dispatch, screen, mainVars>>

CoEditorTest(c) ==
    /\ EndBody(Editor(c), "test", IF msg[Editor(c)] = FINISH_MSG THEN "exit" ELSE "run")
    /\ UNCHANGED <<queue, sems, count, dispatch, screen, mainVars>>

CoEditor(c) ==
    CoEditorRemove(c) \/ CoEditorForward(c) \/ CoEditorPosted(c) \/ CoEditorTest(c)

-----------------------------------------------------------------------------
(* screenManagerFunc *)
ScreenRemove ==
    /\ RemoveWait(Screen, "run", Screen)
    /\ UNCHANGED <<count, dispatch, screen, mainVars>>

ScreenPrint ==
    /\ IsNews(msg[Screen])
    /\ EndBody(Screen, "removed", "run")
    /\ shown' = [shown EXCEPT ![msg[Screen][1]][msg[Screen][2]] = @ + 1]
    /\ UNCHANGED <<queue, sems, count, dispatch, doneCount, mainVars>>

(* Mutant: the second FINISH_MSG ends the loop. *)
ScreenDoneEarly ==
    /\ msg[Screen] = FINISH_MSG
    /\ doneCount' = doneCount + 1
    /\ EndBody(Screen, "removed", IF doneCount + 1 = 2 THEN "exit" ELSE "run")
    /\ UNCHANGED <<queue, sems, count, dispatch, shown, mainVars>>

ScreenDone ==
    /\ msg[Screen] = FINISH_MSG
    /\ doneCount' = doneCount + 1
    /\ EndBody(Screen, "removed", IF doneCount + 1 = 3 THEN "exit" ELSE "run")
    /\ UNCHANGED <<queue, sems, count, dispatch, shown, mainVars>>

ScreenManager == ScreenRemove \/ ScreenPrint \/ ScreenDone

-----------------------------------------------------------------------------
(* main: pthread_create of every thread, the join of the screen manager    *)
(* alone, then destroyBuffer of every buffer.                              *)
MainStart ==
    /\ mainPc[1] = "start"
    /\ pc' = [pc EXCEPT ![StartOrder[mainPc[2]]] = "run"]
    /\ mainPc' = IF mainPc[2] < Len(StartOrder)
                 THEN <<"start", mainPc[2] + 1>> ELSE <<"join", 0>>
    /\ UNCHANGED <<queue, sems, arg, msg, count, dispatch, screen, messages, destroyed>>

(* A failed malloc: of forDispatcher before the first thread, of a         *)
(* producer's argument, or of the co-editors' before the first of them.    *)
MainFail ==
    /\ AllocMayFail
    /\ mainPc[1] = "start"
    /\ mainPc[2] <= N + 2
    /\ mainPc' = <<"failed", 0>>
    /\ destroyed' = IF mainPc[2] = 1 THEN Buffers ELSE destroyed
    /\ UNCHANGED <<queue, sems, calls, count, dispatch, screen, messages>>

(* Mutant: nobody is joined. *)
MainJoinNot ==
    /\ mainPc[1] = "join"
    /\ mainPc' = <<"destroy", 1>>
    /\ UNCHANGED <<queue, sems, calls, count, dispatch, screen, messages, destroyed>>

MainJoin ==
    /\ mainPc[1] = "join"
    /\ pc[Screen] = "exit"
    /\ mainPc' = <<"destroy", 1>>
    /\ UNCHANGED <<queue, sems, calls, count, dispatch, screen, messages, destroyed>>

MainDestroy ==
    /\ mainPc[1] = "destroy"
    /\ destroyed' = destroyed \union {DestroyOrder[mainPc[2]]}
    /\ mainPc' = IF mainPc[2] < Len(DestroyOrder)
                 THEN <<"destroy", mainPc[2] + 1>> ELSE <<"returned", 0>>
    /\ UNCHANGED <<queue, sems, calls, count, dispatch, screen, messages>>

Main == MainStart \/ MainFail \/ MainJoin \/ MainDestroy

(* The process is gone. *)
Ended == ~ Running /\ UNCHANGED vars

-----------------------------------------------------------------------------
Thread(t) ==
    \/ BufferCall(t)
    \/ \E p \in Producers : t = Prod(p) /\ Producer(p)
    \/ t = Dispatcher /\ DispatcherFunc
    \/ \E c \in Categories : t = Editor(c) /\ CoEditor(c)
    \/ t = Screen /\ ScreenManager

Next ==
    \/ Main
    \/ \E t \in Threads : Thread(t)
    \/ \E p \in Producers : ProducerFail(p)
    \/ Ended

(* The operating system runs the dispatcher, which polls for ever, and does *)
(* not leave all the other threads waiting: less than fairness to every    *)
(* thread, and enough.  No malloc has to fail.                             *)
Others == Main \/ \E t \in Threads \ {Dispatcher} : Thread(t)
Fairness == WF_vars(Thread(Dispatcher)) /\ WF_vars(Others)

Spec == Init /\ [][Next]_vars /\ Fairness

-----------------------------------------------------------------------------
(* Derived state: the messages on the only path that those of producer p   *)
(* and category c can take, from the screen back to the producer.          *)
Hand(t) ==
    IF pc[t] \in {"rem_post", "removed", "ins_put"} THEN <<msg[t]>> ELSE <<>>

Path(p, c) ==
    Hand(Screen) \o queue[Screen] \o Hand(Editor(c)) \o queue[Editor(c)]
      \o Hand(Dispatcher) \o queue[Prod(p)] \o Hand(Prod(p))

(* Where the messages of producer p and category c are in s, and their     *)
(* numbers.                                                                *)
Places(s, p, c) == {k \in DOMAIN s : IsNews(s[k]) /\ s[k][1] = p /\ s[k][2] = c}
Numbers(s, p, c) == {s[k][3] : k \in Places(s, p, c)}
Ascending(s, p, c) == \A j, k \in Places(s, p, c) : j < k => s[j][3] < s[k][3]

Shown(p) == shown[p][0] + shown[p][1] + shown[p][2]

AtBuffer(b, loc) == {t \in Threads : arg[t] = b /\ pc[t] = loc}

(* The types of the variables; and the permits of every buffer agree with  *)
(* what it holds, whoever is inside insertToBuffer, removeFromBuffer or    *)
(* tryRemoveFromBuffer: no call finds an empty queue after its sem_wait,   *)
(* none overfills one.                                                     *)
TypeOK ==
    /\ messages \in Loads
    /\ DOMAIN queue = Buffers
    /\ \A b \in Buffers : \A k \in DOMAIN queue[b] : IsMessage(queue[b][k])
    /\ readSemaphore \in [Buffers -> Nat]
    /\ writeSemaphore \in [Buffers -> Nat]
    /\ pc \in [Threads -> {"new", "run", "ins_put", "ins_post", "test", "try",
                          "rem_get", "rem_post", "removed", "exit"}]
    /\ arg \in [Threads -> Buffers]
    /\ DOMAIN msg = Threads
    /\ \A t \in Threads : IsMessage(msg[t])
    /\ count \in [Producers -> [Categories -> Nat]]
    /\ i \in 1..(N + 1)
    /\ allProducersDone \in BOOLEAN
    /\ isDone \in [Producers -> BOOLEAN]
    /\ finishes \in 0..3
    /\ doneCount \in 0..3
    /\ shown \in [Producers -> [Categories -> Nat]]
    /\ mainPc \in {"start", "join", "destroy", "failed", "returned"} \X Nat
    /\ destroyed \subseteq Buffers
    /\ \A b \in Buffers :
         /\ readSemaphore[b] + Cardinality(AtBuffer(b, "rem_get"))
              = Len(queue[b]) - Cardinality(AtBuffer(b, "ins_post"))
         /\ writeSemaphore[b] + Cardinality(AtBuffer(b, "ins_put"))
              + Cardinality(AtBuffer(b, "rem_post"))
              = SizeOf(b) - Len(queue[b])

(* Between producer and screen no message is lost, duplicated or           *)
(* overtaken by a later one of its producer and category: what is on the   *)
(* way is exactly what was made and not shown, numbered consecutively.     *)
InTransit ==
    \A p \in Producers, c \in Categories :
      /\ shown[p][c] <= count[p][c]
      /\ Numbers(Path(p, c), p, c) = shown[p][c]..(count[p][c] - 1)
      /\ Ascending(Path(p, c), p, c)

(* The screen manager prints DONE only after every message of every        *)
(* producer: the line count test.sh compares with.                         *)
OutputComplete ==
    pc[Screen] = "exit" =>
      \A p \in Producers : Shown(p) = messages[p]

(* main joins the screen manager alone, and still destroys no buffer that  *)
(* a thread may touch again.                                               *)
NoUseAfterDestroy ==
    destroyed # {} => \A t \in Threads : pc[t] \in {"new", "test", "exit"}

(* malloc failed in a producer: no FINISH_MSG of it will ever come. *)
GaveUp(p) == pc[Prod(p)] = "exit" /\ Made(p) < messages[p]

(* The program comes to a good end, whoever blocks on whom: with memory to *)
(* spare main returns, its buffers destroyed; if a producer gave up, the   *)
(* other threads stay, but every message that was made is on the screen    *)
(* (OutputComplete says the same for main's return).                       *)
GoodEnd ==
    <>[](\/ mainPc[1] = "failed"
         \/ mainPc[1] = "returned" /\ destroyed = Buffers
         \/ \E p \in Producers : GaveUp(p) /\ \A q \in Producers : Shown(q) = Made(q))

=============================================================================
