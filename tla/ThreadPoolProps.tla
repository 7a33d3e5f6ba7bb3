-------------------------- MODULE ThreadPoolProps ---------------------------
(***************************************************************************)
(* What the thread pool has to do.                                         *)
(***************************************************************************)
EXTENDS ThreadPool

WorkerStates == {"none", "test", "block", "wait", "decide", "closeTest", "close",
                 "uncount", "leave", "gone", "joined", "get", "got", "begin",
                 "run"}

At(state) == {w \in Workers : wpc[w] = state}

\* Workers that the pool counts: those that run and have not uncounted
\* themselves (the manager counts a new one after it has started).
Working == {w \in Workers : wpc[w] \notin {"none", "leave", "gone", "joined"}}
Uncounted == IF mpc \in {"mapThread", "countThread"} THEN 1 ELSE 0

\* The types of the pool's state.
TypeOK ==
    /\ managed \in BOOLEAN /\ shutdown \in BOOLEAN /\ late \in BOOLEAN
    /\ taskQueue \in Seq(Tasks)
    /\ size \in Int /\ threadSize \in Int /\ busy \in Int /\ needToClose \in Int
    /\ threadMap \subseteq Workers /\ needToErase \subseteq Workers
    /\ wpc \in [Workers -> WorkerStates]
    /\ wtask \in [Workers -> Tasks \cup {NoTask}]
    /\ \A w \in Workers : wtask[w] # NoTask <=> wpc[w] \in {"got", "begin", "run"}
    /\ apc \in [Tasks -> {"out", "pushed", "counted", "added", "refused"}]
    /\ done \subseteq Tasks
    /\ mpc \in {"sample", "decide", "addThread", "mapThread", "countThread",
                "notifyThread", "ask", "notifyAsk", "clean", "notifyAll",
                "exited"}
    /\ taskNum \in Nat /\ remove \in BOOLEAN /\ newborn \in Workers
    /\ dpc \in {"open", "notifying", "joining", "closed"}
    /\ notified \in Nat

\* A task that addTask accepted is in exactly one place: once in the queue, in
\* the hands of one worker, or done; a refused one is nowhere.  Publishers and
\* workers meet in the queue without mtx.
Queued == {taskQueue[i] : i \in DOMAIN taskQueue}
Held == {wtask[w] : w \in Workers} \ {NoTask}
RunOnce ==
    /\ \A i, j \in DOMAIN taskQueue : taskQueue[i] = taskQueue[j] => i = j
    /\ \A v, w \in Workers : wtask[v] = wtask[w] => v = w \/ wtask[v] = NoTask
    /\ Queued \cap Held = {} /\ Queued \cap done = {} /\ Held \cap done = {}
    /\ Queued \cup Held \cup done =
           {t \in Tasks : apc[t] \notin {"out", "refused"}}

\* The three counters kept beside what they count differ from it by what is
\* under way and by nothing else: a push not yet counted, a task taken and not
\* yet counted out, a new thread not yet counted.  (A quitting worker does not
\* uncount itself, so the number of threads is only kept until shutdown.)
CountsAgree ==
    /\ size = Len(taskQueue) + Cardinality(At("got"))
                - Cardinality({t \in Tasks : apc[t] = "pushed"})
    /\ busy = Cardinality(At("run"))
    /\ ~shutdown => threadSize = Cardinality(Working) - Uncounted

\* The pool never works with more threads than its capacity, although workers
\* uncount themselves while the manager decides.
AtMostCapacity == ~shutdown => Cardinality(Working) <= Capacity

\* Every thread that was started and not joined is in the map, where the
\* manager or the destructor finds it, and only ended ones are marked.
ThreadsOwned ==
    /\ {w \in Workers : wpc[w] \notin {"none", "joined"}} =
           threadMap \cup (IF mpc = "mapThread" THEN {newborn} ELSE {})
    /\ needToErase \subseteq At("gone")

\* The destructor drains the queue: a pool without a manager leaves no task
\* behind that was added before.
CloseDrains ==
    dpc = "closed" /\ ~managed /\ ~late => taskQueue = << >>

\* The destructor returns, whatever workers and manager are doing.
DestructorReturns == dpc = "notifying" ~> dpc = "closed"

\* Refuted: the pool keeps the least number of workers it was made with.
KeepsMinimum == ~shutdown => Cardinality(Working) >= ThreadMin

\* Refuted: a task that was added is run, if the pool is not closed.
EveryTaskRuns ==
    \A t \in Tasks : apc[t] = "added" ~> (t \in done \/ shutdown)

=============================================================================
