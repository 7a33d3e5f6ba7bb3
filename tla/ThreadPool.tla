----------------------------- MODULE ThreadPool -----------------------------
(***************************************************************************)
(* The thread pool behind the event bus: publishers that call addTask,     *)
(* workers, the manager thread that adds and removes workers, and the      *)
(* destructor.  Every step reads or writes shared state once; mtx is not a *)
(* variable, since the steps that hold it across others are known by the   *)
(* state of their thread.  The queue's own mutex guards one step each.     *)
(*                                                                         *)
(* The unsigned atomics are kept as integers and read modulo 2^w.  The     *)
(* plain bool shutdown is read and written as if it were atomic.           *)
(***************************************************************************)
EXTENDS Integers, Sequences, FiniteSets

CONSTANTS
    Tasks,      \* the tasks, each added by a publisher of its own
    Workers,    \* the threads it may ever start: a bound
    FirstWorkers,   \* those that the constructor starts, thread_min many
    Capacity, TaskMax,
    Modulus,    \* 2^w of unsigned int
    AskLimit,   \* bound: requests to close a worker that are not yet served
    NoTask

ASSUME PoolAssumption ==
    /\ IsFiniteSet(Workers)
    /\ IsFiniteSet(Tasks)
    /\ NoTask \notin Tasks
    /\ FirstWorkers \subseteq Workers
    /\ FirstWorkers # {}
    /\ Capacity \in Nat
    /\ Cardinality(FirstWorkers) <= Capacity
    /\ TaskMax \in Nat
    /\ AskLimit \in Nat
    /\ Modulus \in Nat \ {0}
    /\ Modulus > 2 * Cardinality(Workers)
    /\ Modulus > Cardinality(Tasks)

VARIABLES
    managed,        \* whether the pool has a manager thread
    taskQueue,      \* the queue proper
    size,           \* its size as counted beside it
    shutdown,
    threadSize, busy, needToClose,
    threadMap,      \* threads the pool owns
    needToErase,    \* threads that ended and are to be joined
    wpc, wtask,     \* each worker: where it is, the task it took
    apc,            \* each task: how far its addTask is
    done,           \* history: the tasks that have run
    late,           \* history: a task was put in or counted after shutdown
    mpc, taskNum, remove, newborn,  \* the manager: where it is, what it read
    dpc, notified   \* the destructor

queueVars == <<taskQueue, size, apc, late>>
counters == <<threadSize, busy, needToClose>>
owned == <<threadMap, needToErase>>
managerVars == <<mpc, taskNum, remove, newborn>>
destructorVars == <<shutdown, dpc, notified>>
workVars == <<wtask, done>>
vars == <<managed, queueVars, counters, owned, wpc, workVars, managerVars,
          destructorVars>>

ThreadMin == Cardinality(FirstWorkers)

\* Mutant: the counters are signed.
UnsignedPlain(x) == x

Unsigned(x) == x % Modulus

MtxFree == dpc # "notifying" /\ \A w \in Workers : wpc[w] # "block"

Sleepers == {w \in Workers : wpc[w] = "wait"}

\* notify_one on a function of workers' states; it is lost if nobody waits.
NotifyOne ==
    \/ \E w \in Sleepers : wpc' = [wpc EXCEPT ![w] = "test"]
    \/ Sleepers = {} /\ UNCHANGED wpc

\* The pool after its constructor.  The manager's first rounds find nothing
\* to do before the first task, so that it has not touched the map yet.
Init ==
    /\ managed \in BOOLEAN
    /\ taskQueue = << >> /\ size = 0
    /\ shutdown = FALSE
    /\ threadSize = ThreadMin /\ busy = 0 /\ needToClose = 0
    /\ threadMap = FirstWorkers
    /\ needToErase = {}
    /\ wpc = [w \in Workers |-> IF w \in FirstWorkers THEN "test" ELSE "none"]
    /\ wtask = [w \in Workers |-> NoTask]
    /\ apc = [t \in Tasks |-> "out"]
    /\ done = {} /\ late = FALSE
    /\ mpc = IF managed THEN "sample" ELSE "exited"
    /\ taskNum = 0 /\ remove = FALSE /\ newborn = CHOOSE w \in FirstWorkers : TRUE
    /\ dpc = "open" /\ notified = 0

-----------------------------------------------------------------------------
(* addTask *)

\* A publisher is a thread that outlives the pool's use, or a task that runs.
Push(t) ==
    /\ apc[t] = "out"
    /\ dpc = "open" \/ \E w \in Workers : wpc[w] = "run"
    /\ \/ /\ Len(taskQueue) >= TaskMax
          /\ apc' = [apc EXCEPT ![t] = "refused"]
          /\ UNCHANGED <<taskQueue, late>>
       \/ /\ Len(taskQueue) < TaskMax
          /\ taskQueue' = Append(taskQueue, t)
          /\ apc' = [apc EXCEPT ![t] = "pushed"]
          /\ late' = (late \/ shutdown)
    /\ UNCHANGED <<managed, size, counters, owned, wpc, workVars, managerVars,
                   destructorVars>>

Count(t) ==
    /\ apc[t] = "pushed"
    /\ size' = size + 1
    /\ apc' = [apc EXCEPT ![t] = "counted"]
    /\ late' = (late \/ shutdown)
    /\ UNCHANGED <<managed, taskQueue, counters, owned, wpc, workVars,
                   managerVars, destructorVars>>

\* cv.notify_one without mtx.
Notify(t) ==
    /\ apc[t] = "counted"
    /\ NotifyOne
    /\ apc' = [apc EXCEPT ![t] = "added"]
    /\ UNCHANGED <<managed, taskQueue, size, late, counters, owned, workVars,
                   managerVars, destructorVars>>

-----------------------------------------------------------------------------
(* A worker *)

Goto(w, from, to) ==
    /\ wpc[w] = from
    /\ wpc' = [wpc EXCEPT ![w] = to]

\* Mutant: the predicate forgets shutdown.
MayPassOnWork == Unsigned(needToClose) > 0 \/ Unsigned(size) > 0

MayPass == shutdown \/ Unsigned(needToClose) > 0 \/ Unsigned(size) > 0

\* cv.wait tests its predicate under mtx.
Test(w) ==
    /\ MtxFree
    /\ \/ MayPass /\ Goto(w, "test", "decide")
       \/ ~MayPass /\ Goto(w, "test", "block")
    /\ UNCHANGED <<managed, queueVars, counters, owned, workVars, managerVars,
                   destructorVars>>

\* cv.wait releases mtx and waits in one step; it may also wake by itself.
Block(w) ==
    /\ Goto(w, "block", "wait")
    /\ UNCHANGED <<managed, queueVars, counters, owned, workVars, managerVars,
                   destructorVars>>

WakeUp(w) ==
    /\ Goto(w, "wait", "test")
    /\ UNCHANGED <<managed, queueVars, counters, owned, workVars, managerVars,
                   destructorVars>>

\* Mutant: a worker quits at shutdown with tasks in the queue.
ShouldQuitAtOnce == shutdown

ShouldQuit == shutdown /\ Unsigned(size) = 0

Decide(w) ==
    /\ \/ ShouldQuit /\ Goto(w, "decide", "leave")
       \/ ~ShouldQuit /\ Goto(w, "decide", "closeTest")
    /\ UNCHANGED <<managed, queueVars, counters, owned, workVars, managerVars,
                   destructorVars>>

CloseTest(w) ==
    /\ \/ Unsigned(needToClose) > 0 /\ Goto(w, "closeTest", "close")
       \/ Unsigned(needToClose) = 0 /\ Goto(w, "closeTest", "get")
    /\ UNCHANGED <<managed, queueVars, counters, owned, workVars, managerVars,
                   destructorVars>>

TakeClose(w) ==
    /\ Goto(w, "close", "uncount")
    /\ needToClose' = needToClose - 1
    /\ UNCHANGED <<managed, queueVars, threadSize, busy, owned, workVars,
                   managerVars, destructorVars>>

\* Mutant: a closed worker stays counted.
UncountForgets(w) ==
    /\ Goto(w, "uncount", "leave")
    /\ UNCHANGED <<managed, queueVars, counters, owned, workVars, managerVars,
                   destructorVars>>

Uncount(w) ==
    /\ Goto(w, "uncount", "leave")
    /\ threadSize' = threadSize - 1
    /\ UNCHANGED <<managed, queueVars, busy, needToClose, owned, workVars,
                   managerVars, destructorVars>>

\* need_to_erase.push_back under mtx; the thread function returns.
Leave(w) ==
    /\ MtxFree
    /\ Goto(w, "leave", "gone")
    /\ needToErase' = needToErase \cup {w}
    /\ UNCHANGED <<managed, queueVars, counters, threadMap, workVars,
                   managerVars, destructorVars>>

\* Mutant: the front is read and not popped.
RestPeeked(q) == q

Rest(q) == Tail(q)

\* getTask throws for an empty queue; the loop catches it and goes on.
GetTask(w) ==
    /\ \/ /\ taskQueue = << >>
          /\ Goto(w, "get", "test")
          /\ UNCHANGED <<taskQueue, wtask>>
       \/ /\ taskQueue # << >>
          /\ Goto(w, "get", "got")
          /\ wtask' = [wtask EXCEPT ![w] = Head(taskQueue)]
          /\ taskQueue' = Rest(taskQueue)
    /\ UNCHANGED <<managed, size, apc, late, counters, owned, done,
                   managerVars, destructorVars>>

CountTaken(w) ==
    /\ Goto(w, "got", "begin")
    /\ size' = size - 1
    /\ UNCHANGED <<managed, taskQueue, apc, late, counters, owned, workVars,
                   managerVars, destructorVars>>

Begin(w) ==
    /\ Goto(w, "begin", "run")
    /\ busy' = busy + 1
    /\ UNCHANGED <<managed, queueVars, threadSize, needToClose, owned,
                   workVars, managerVars, destructorVars>>

\* The task returns: what EventBus queues catches its handler's exceptions.
Finish(w) ==
    /\ Goto(w, "run", "test")
    /\ busy' = busy - 1
    /\ done' = done \cup {wtask[w]}
    /\ wtask' = [wtask EXCEPT ![w] = NoTask]
    /\ UNCHANGED <<managed, queueVars, threadSize, needToClose, owned,
                   managerVars, destructorVars>>

-----------------------------------------------------------------------------
(* The manager *)

Sample ==
    /\ mpc = "sample"
    /\ \/ shutdown /\ mpc' = "notifyAll" /\ UNCHANGED taskNum
       \/ ~shutdown /\ mpc' = "decide" /\ taskNum' = Unsigned(size)
    /\ UNCHANGED <<managed, queueVars, counters, owned, wpc, workVars, remove,
                   newborn, destructorVars>>

ShouldAdd ==
    /\ taskNum > Unsigned(threadSize)
    /\ Unsigned(threadSize) < Capacity
    /\ \E w \in Workers : wpc[w] = "none"

ShouldRemove ==
    /\ Unsigned(2 * busy) < Unsigned(threadSize)
    /\ Unsigned(threadSize) > ThreadMin
    /\ needToClose < AskLimit

Scale ==
    /\ mpc = "decide"
    /\ remove' = ShouldRemove
    /\ mpc' = IF ShouldAdd THEN "addThread" ELSE "ask"
    /\ taskNum' = 0
    /\ UNCHANGED <<managed, queueVars, counters, owned, wpc, workVars, newborn,
                   destructorVars>>

\* Which name it gets does not matter.
AddThread ==
    /\ mpc = "addThread"
    /\ \E w \in Workers :
          /\ w = CHOOSE v \in Workers : wpc[v] = "none"
          /\ Goto(w, "none", "test")
          /\ newborn' = w
    /\ mpc' = "mapThread"
    /\ UNCHANGED <<managed, queueVars, counters, owned, workVars, taskNum,
                   remove, destructorVars>>

MapThread ==
    /\ mpc = "mapThread" /\ MtxFree
    /\ threadMap' = threadMap \cup {newborn}
    /\ mpc' = "countThread"
    /\ UNCHANGED <<managed, queueVars, counters, needToErase, wpc, workVars,
                   taskNum, remove, newborn, destructorVars>>

CountThread ==
    /\ mpc = "countThread"
    /\ threadSize' = threadSize + 1
    /\ mpc' = "notifyThread"
    /\ UNCHANGED <<managed, queueVars, busy, needToClose, owned, wpc, workVars,
                   taskNum, remove, newborn, destructorVars>>

NotifyThread ==
    /\ mpc = "notifyThread"
    /\ NotifyOne
    /\ mpc' = "ask"
    /\ UNCHANGED <<managed, queueVars, counters, owned, workVars, taskNum,
                   remove, newborn, destructorVars>>

\* Mutant: a worker is uncounted when it is asked, before it leaves.
AskUncounts ==
    /\ mpc = "ask"
    /\ \/ /\ remove
          /\ needToClose' = needToClose + 1
          /\ threadSize' = threadSize - 1
          /\ mpc' = "notifyAsk"
       \/ /\ ~remove
          /\ mpc' = "clean"
          /\ UNCHANGED <<needToClose, threadSize>>
    /\ remove' = FALSE
    /\ UNCHANGED <<managed, queueVars, busy, owned, wpc, workVars, taskNum,
                   newborn, destructorVars>>

Ask ==
    /\ mpc = "ask"
    /\ \/ /\ remove
          /\ needToClose' = needToClose + 1
          /\ mpc' = "notifyAsk"
       \/ /\ ~remove
          /\ mpc' = "clean"
          /\ UNCHANGED needToClose
    /\ remove' = FALSE
    /\ UNCHANGED <<managed, queueVars, threadSize, busy, owned, wpc, workVars,
                   taskNum, newborn, destructorVars>>

NotifyAsk ==
    /\ mpc = "notifyAsk"
    /\ NotifyOne
    /\ mpc' = "clean"
    /\ UNCHANGED <<managed, queueVars, counters, owned, workVars, taskNum,
                   remove, newborn, destructorVars>>

\* Mutant: need_to_erase is not cleared.
MarksKept == needToErase

MarksLeft == {}

\* Threads that ended are taken out of the map and joined; then it sleeps.
Clean ==
    /\ mpc = "clean" /\ MtxFree
    /\ threadMap' = threadMap \ needToErase
    /\ wpc' = [w \in Workers |->
                  IF w \in needToErase \cap threadMap THEN "joined" ELSE wpc[w]]
    /\ needToErase' = MarksLeft
    /\ mpc' = "sample"
    /\ UNCHANGED <<managed, queueVars, counters, workVars, taskNum, remove,
                   newborn, destructorVars>>

NotifyAll ==
    /\ mpc = "notifyAll"
    /\ wpc' = [w \in Workers |-> IF w \in Sleepers THEN "test" ELSE wpc[w]]
    /\ mpc' = "exited"
    /\ UNCHANGED <<managed, queueVars, counters, owned, workVars, taskNum,
                   remove, newborn, destructorVars>>

-----------------------------------------------------------------------------
(* The destructor *)

Close ==
    /\ dpc = "open" /\ MtxFree
    /\ shutdown' = TRUE
    /\ dpc' = "notifying"
    /\ notified' = 0
    /\ UNCHANGED <<managed, queueVars, counters, owned, wpc, workVars,
                   managerVars>>

\* One notify_one for each counted thread, under mtx.
CloseNotify ==
    /\ dpc = "notifying"
    /\ \/ /\ notified < Unsigned(threadSize)
          /\ NotifyOne
          /\ notified' = notified + 1
          /\ UNCHANGED dpc
       \/ /\ notified >= Unsigned(threadSize)
          /\ dpc' = "joining"
          /\ UNCHANGED <<notified, wpc>>
    /\ UNCHANGED <<managed, queueVars, counters, owned, workVars, managerVars,
                   shutdown>>

\* Joins the manager, then every thread in the map.  Nobody is inside addTask
\* any more when the pool is destroyed.
JoinAll ==
    /\ dpc = "joining"
    /\ mpc = "exited"
    /\ \A w \in threadMap : wpc[w] = "gone"
    /\ \A t \in Tasks : apc[t] \notin {"pushed", "counted"}
    /\ dpc' = "closed"
    /\ UNCHANGED <<managed, queueVars, counters, owned, wpc, workVars,
                   managerVars, shutdown, notified>>

-----------------------------------------------------------------------------
AddStep(t) == Count(t) \/ Notify(t)

WorkerStep(w) ==
    \/ Test(w) \/ Block(w) \/ Decide(w) \/ CloseTest(w) \/ TakeClose(w)
    \/ Uncount(w) \/ Leave(w) \/ GetTask(w) \/ CountTaken(w) \/ Begin(w)
    \/ Finish(w)

ManagerStep ==
    \/ Sample \/ Scale \/ AddThread \/ MapThread \/ CountThread
    \/ NotifyThread \/ Ask \/ NotifyAsk \/ Clean \/ NotifyAll

Next ==
    \/ \E t \in Tasks : Push(t) \/ AddStep(t)
    \/ \E w \in Workers : WorkerStep(w) \/ WakeUp(w)
    \/ ManagerStep
    \/ Close \/ CloseNotify \/ JoinAll

\* Threads that can run do.  Nobody has to add a task or to close the pool,
\* and a wait need not end by itself.
Spec ==
    /\ Init /\ [][Next]_vars
    /\ \A t \in Tasks : WF_vars(AddStep(t))
    /\ \A w \in Workers : WF_vars(WorkerStep(w))
    /\ WF_vars(ManagerStep)
    /\ WF_vars(CloseNotify \/ JoinAll)

=============================================================================
