-------------------------- MODULE ThreadPoolProofs --------------------------
(***************************************************************************)
(* Theorems about the thread pool, for every number of tasks, threads and  *)
(* every capacity.                                                         *)
(***************************************************************************)
EXTENDS ThreadPoolProps, FiniteSetTheorems, TLAPS

LEMMA UnsignedType == \A x \in Int : Unsigned(x) \in Nat
  BY PoolAssumption DEF Unsigned

LEMMA UnsignedSmall == \A x \in Nat : x < Modulus => Unsigned(x) = x
  BY PoolAssumption DEF Unsigned

-----------------------------------------------------------------------------
(* Types *)

\* Only threads that ended are marked; they hold no task when they are joined.
TypeIInv == TypeOK /\ needToErase \subseteq At("gone")

LEMMA TypeInit == Init => TypeIInv
  <1> SUFFICES ASSUME Init PROVE TypeIInv
    OBVIOUS
  <1>1. ThreadMin \in Nat
    BY PoolAssumption, FS_Subset, FS_CardinalityType DEF ThreadMin
  <1> QED
    <2>1. newborn \in FirstWorkers /\ mpc \in {"sample", "exited"}
      BY PoolAssumption DEF Init
    <2>2. wpc \in [Workers -> WorkerStates]
      BY DEF Init, WorkerStates
    <2>3. taskQueue \in Seq(Tasks) /\ threadMap \subseteq Workers
      BY PoolAssumption DEF Init
    <2>4. \A w \in Workers : wtask[w] = NoTask /\ wpc[w] \in {"test", "none"}
      BY DEF Init
    <2>5. {managed, shutdown, late, remove} \subseteq BOOLEAN
      BY DEF Init
    <2>6. /\ size \in Int /\ threadSize \in Int /\ busy \in Int
          /\ needToClose \in Int /\ taskNum \in Nat /\ notified \in Nat
      BY <1>1 DEF Init
    <2>7. /\ needToErase \subseteq At("gone") /\ needToErase \subseteq Workers
          /\ wtask \in [Workers -> Tasks \cup {NoTask}]
          /\ apc \in [Tasks -> {"out", "pushed", "counted", "added", "refused"}]
          /\ done \subseteq Tasks
          /\ dpc \in {"open", "notifying", "joining", "closed"}
      BY DEF Init
    <2> QED
      BY <2>1, <2>2, <2>3, <2>4, <2>5, <2>6, <2>7, PoolAssumption
         DEF TypeIInv, TypeOK

LEMMA AddType ==
  ASSUME TypeIInv, NEW t \in Tasks, Push(t) \/ AddStep(t)
  PROVE  TypeIInv'
  <1> USE DEF TypeIInv, TypeOK, At, WorkerStates, queueVars, counters, owned, workVars,
              managerVars, destructorVars, NotifyOne, Sleepers
  <1>1. CASE Push(t)
    <2>1. late' \in BOOLEAN
      BY <1>1 DEF Push
    <2>2. Append(taskQueue, t) \in Seq(Tasks)
      OBVIOUS
    <2>3. taskQueue' \in Seq(Tasks) /\ apc' \in [Tasks -> {"out", "pushed", "counted", "added", "refused"}]
      BY <1>1, <2>2 DEF Push
    <2> QED
      BY <1>1, <2>1, <2>3 DEF Push
  <1>2. CASE Count(t)
    BY <1>2 DEF Count
  <1>3. CASE Notify(t)
    BY <1>3 DEF Notify
  <1> QED
    BY <1>1, <1>2, <1>3 DEF AddStep

LEMMA WorkerType ==
  ASSUME TypeIInv, NEW w \in Workers, WorkerStep(w) \/ WakeUp(w)
  PROVE  TypeIInv'
  <1> USE DEF TypeIInv, TypeOK, At, WorkerStates, queueVars, counters, owned, workVars,
              managerVars, destructorVars, Goto
  <1>1. CASE Test(w) \/ Block(w) \/ WakeUp(w)
    BY <1>1 DEF Test, Block, WakeUp
  <1>2. CASE Decide(w) \/ CloseTest(w)
    BY <1>2 DEF Decide, CloseTest
  <1>3. CASE TakeClose(w) \/ Uncount(w) \/ Leave(w)
    BY <1>3 DEF TakeClose, Uncount, Leave
  <1>4. CASE GetTask(w)
    <2>1. CASE taskQueue = << >>
      BY <1>4, <2>1 DEF GetTask
    <2>2. CASE taskQueue # << >>
      <3>1. Head(taskQueue) \in Tasks /\ Tail(taskQueue) \in Seq(Tasks)
        BY <2>2
      <3>2. Head(taskQueue) # NoTask
        BY <3>1, PoolAssumption
      <3>3. wtask' = [wtask EXCEPT ![w] = Head(taskQueue)]
        BY <1>4, <2>2 DEF GetTask
      <3>4. taskQueue' = Tail(taskQueue)
        BY <1>4, <2>2 DEF GetTask, Rest
      <3> QED
        BY <1>4, <2>2, <3>1, <3>2, <3>3, <3>4 DEF GetTask
    <2> QED
      BY <2>1, <2>2
  <1>5. CASE CountTaken(w)
    BY <1>5 DEF CountTaken
  <1>7. CASE Begin(w)
    BY <1>7 DEF Begin
  <1>6. CASE Finish(w)
    <2>1. done' \subseteq Tasks
      BY <1>6 DEF Finish
    <2> QED
      BY <1>6, <2>1 DEF Finish
  <1> QED
    BY <1>1, <1>2, <1>3, <1>4, <1>5, <1>6, <1>7 DEF WorkerStep

LEMMA ManagerType ==
  ASSUME TypeIInv, ManagerStep
  PROVE  TypeIInv'
  <1> USE DEF TypeIInv, TypeOK, At, WorkerStates, queueVars, counters, owned, workVars,
              managerVars, destructorVars, NotifyOne, Sleepers, Goto
  <1>1. CASE Sample
    BY <1>1, UnsignedType DEF Sample
  <1>2. CASE Scale
    BY <1>2 DEF Scale, ShouldRemove
  <1>3. CASE AddThread
    BY <1>3 DEF AddThread
  <1>4. CASE MapThread \/ CountThread
    BY <1>4 DEF MapThread, CountThread
  <1>5. CASE NotifyThread \/ NotifyAsk
    BY <1>5 DEF NotifyThread, NotifyAsk
  <1>6. CASE Ask
    <2>1. remove' \in BOOLEAN
      BY <1>6, Zenon DEF Ask
    <2>2. needToClose' \in Int
      <3>1. needToClose' = needToClose + 1 \/ needToClose' = needToClose
        BY <1>6, Zenon DEF Ask
      <3> QED
        BY <3>1
    <2>3. mpc' \in {"clean", "notifyAsk"}
      BY <1>6 DEF Ask
    <2> QED
      BY <1>6, <2>1, <2>2, <2>3 DEF Ask
  <1>7. CASE Clean
    BY <1>7 DEF Clean, MarksLeft
  <1>8. CASE NotifyAll
    BY <1>8 DEF NotifyAll
  <1> QED
    BY <1>1, <1>2, <1>3, <1>4, <1>5, <1>6, <1>7, <1>8 DEF ManagerStep

LEMMA DestructorType ==
  ASSUME TypeIInv, Close \/ CloseNotify \/ JoinAll
  PROVE  TypeIInv'
  <1> USE DEF TypeIInv, TypeOK, At, WorkerStates, queueVars, counters, owned, workVars,
              managerVars, destructorVars, NotifyOne, Sleepers
  <1>1. CASE Close
    BY <1>1 DEF Close
  <1>2. CASE CloseNotify
    BY <1>2 DEF CloseNotify
  <1>3. CASE JoinAll
    BY <1>3 DEF JoinAll
  <1> QED
    BY <1>1, <1>2, <1>3

LEMMA TypeNext == TypeIInv /\ [Next]_vars => TypeIInv'
  <1> SUFFICES ASSUME TypeIInv, [Next]_vars PROVE TypeIInv'
    OBVIOUS
  <1>1. CASE UNCHANGED vars
    BY <1>1 DEF TypeIInv, At, TypeOK, vars, queueVars, counters, owned, workVars,
                managerVars, destructorVars
  <1> QED
    BY <1>1, AddType, WorkerType, ManagerType, DestructorType DEF Next

\* The state of the pool keeps its types; a counter read as unsigned is one.
THEOREM PoolTypeCorrect == Spec => []TypeOK
  <1>1. TypeIInv => TypeOK
    BY DEF TypeIInv
  <1> QED
    BY <1>1, TypeInit, TypeNext, PTL DEF Spec

-----------------------------------------------------------------------------
(* Counters and threads *)

One(p) == IF p THEN 1 ELSE 0

\* Two sets that agree but for one element differ in size by that element.
LEMMA CountChange ==
  ASSUME NEW F, NEW G, NEW x, IsFiniteSet(F), F \ {x} = G \ {x}
  PROVE  Cardinality(G) = Cardinality(F) + One(x \in G) - One(x \in F)
  <1>1. Cardinality(F) \in Nat
    BY FS_CardinalityType
  <1>2. CASE x \in F /\ x \notin G
    <2>1. G = F \ {x}
      BY <1>2
    <2>2. Cardinality(G) = Cardinality(F) - 1
      BY <1>2, <2>1, FS_RemoveElement
    <2> QED
      BY <1>1, <1>2, <2>2 DEF One
  <1>3. CASE x \notin F /\ x \in G
    <2>1. G = F \cup {x}
      BY <1>3
    <2>2. Cardinality(G) = Cardinality(F) + 1
      BY <1>3, <2>1, FS_AddElement
    <2> QED
      BY <1>1, <1>3, <2>2 DEF One
  <1>4. CASE x \in F <=> x \in G
    <2>1. G = F
      BY <1>4
    <2> QED
      BY <1>1, <1>4, <2>1 DEF One
  <1> QED
    BY <1>2, <1>3, <1>4

Got == Cardinality(At("got"))
Run == Cardinality(At("run"))
Work == Cardinality(Working)
Pushed == Cardinality({t \in Tasks : apc[t] = "pushed"})

IdleStates == {"none", "leave", "gone", "joined"}

\* How the numbers change when one worker moves.
LEMMA WorkerCounts ==
  ASSUME TypeOK, NEW w \in Workers, NEW a \in WorkerStates,
         wpc' = [wpc EXCEPT ![w] = a]
  PROVE  /\ Got' = Got + One(a = "got") - One(wpc[w] = "got")
         /\ Run' = Run + One(a = "run") - One(wpc[w] = "run")
         /\ Work' = Work + One(a \notin IdleStates) - One(wpc[w] \notin IdleStates)
  <1>1. IsFiniteSet(Workers) /\ wpc \in [Workers -> WorkerStates]
    BY PoolAssumption DEF TypeOK
  <1>2. \A v \in Workers : wpc'[v] = IF v = w THEN a ELSE wpc[v]
    BY <1>1
  <1>3. IsFiniteSet(At("got")) /\ IsFiniteSet(At("run")) /\ IsFiniteSet(Working)
    BY <1>1, FS_Subset DEF At, Working
  <1>4. Got' = Got + One(w \in At("got")') - One(w \in At("got"))
    <2>1. At("got") \ {w} = At("got")' \ {w}
      BY <1>2 DEF At
    <2> QED
      BY <1>3, <2>1, CountChange DEF Got
  <1>5. Run' = Run + One(w \in At("run")') - One(w \in At("run"))
    <2>1. At("run") \ {w} = At("run")' \ {w}
      BY <1>2 DEF At
    <2> QED
      BY <1>3, <2>1, CountChange DEF Run
  <1>6. Work' = Work + One(w \in Working') - One(w \in Working)
    <2>1. Working \ {w} = Working' \ {w}
      BY <1>2 DEF Working
    <2> QED
      BY <1>3, <2>1, CountChange DEF Work
  <1>7. /\ w \in At("got")' <=> a = "got"
        /\ w \in At("got") <=> wpc[w] = "got"
        /\ w \in At("run")' <=> a = "run"
        /\ w \in At("run") <=> wpc[w] = "run"
        /\ w \in Working' <=> a \notin IdleStates
        /\ w \in Working <=> wpc[w] \notin IdleStates
    BY <1>2 DEF At, Working, IdleStates
  <1> QED
    BY <1>4, <1>5, <1>6, <1>7 DEF One

LEMMA CountTypes ==
  ASSUME TypeOK
  PROVE  /\ Got \in Nat /\ Run \in Nat /\ Work \in Nat /\ Pushed \in Nat
         /\ Work < Modulus
  <1>1. IsFiniteSet(Workers) /\ IsFiniteSet(Tasks)
    BY PoolAssumption
  <1>2. Got \in Nat /\ Run \in Nat
    BY <1>1, FS_Subset, FS_CardinalityType DEF Got, Run, At
  <1>3. Work \in Nat /\ Work <= Cardinality(Workers) /\ Cardinality(Workers) \in Nat
    BY <1>1, FS_Subset, FS_CardinalityType DEF Work, Working
  <1>4. Pushed \in Nat
    BY <1>1, FS_Subset, FS_CardinalityType DEF Pushed
  <1> QED
    BY <1>2, <1>3, <1>4, PoolAssumption

\* A notification moves a worker from wait to test, which no number sees.
LEMMA NotifyCounts ==
  ASSUME TypeOK, NotifyOne
  PROVE  /\ Got' = Got /\ Run' = Run /\ Work' = Work
         /\ wpc' \in [Workers -> WorkerStates]
         /\ \A w \in Workers : wpc'[w] = wpc[w]
                             \/ (wpc[w] = "wait" /\ wpc'[w] = "test")
  <1> wpc \in [Workers -> WorkerStates]
    BY DEF TypeOK
  <1>1. CASE \E w \in Sleepers : wpc' = [wpc EXCEPT ![w] = "test"]
    <2>1. PICK w \in Sleepers : wpc' = [wpc EXCEPT ![w] = "test"]
      BY <1>1
    <2>2. w \in Workers /\ wpc[w] = "wait" /\ "test" \in WorkerStates
      BY DEF Sleepers, WorkerStates
    <2>3. /\ Got' = Got + One("test" = "got") - One("wait" = "got")
          /\ Run' = Run + One("test" = "run") - One("wait" = "run")
          /\ Work' = Work + One("test" \notin IdleStates) - One("wait" \notin IdleStates)
      BY <2>1, <2>2, WorkerCounts
    <2>4. Got' = Got /\ Run' = Run /\ Work' = Work
      BY <2>3, CountTypes DEF One, IdleStates
    <2>5. /\ wpc' \in [Workers -> WorkerStates]
          /\ \A v \in Workers : wpc'[v] = wpc[v]
                              \/ (wpc[v] = "wait" /\ wpc'[v] = "test")
      BY <2>1, <2>2
    <2> QED
      BY <2>4, <2>5
  <1>2. CASE UNCHANGED wpc
    <2>1. Got' = Got /\ Run' = Run /\ Work' = Work
      BY <1>2 DEF Got, Run, Work, At, Working
    <2> QED
      BY <1>2, <2>1
  <1> QED
    BY <1>1, <1>2 DEF NotifyOne

PoolIInv ==
    /\ TypeOK
    /\ ThreadsOwned
    /\ CountsAgree
    /\ AtMostCapacity
    /\ mpc = "addThread" /\ ~shutdown => Work < Capacity

\* The counting part of the invariant.
CountIInv ==
    /\ size = Len(taskQueue) + Got - Pushed
    /\ busy = Run
    /\ ~shutdown => threadSize = Work - Uncounted
    /\ ~shutdown => Work <= Capacity
    /\ mpc = "addThread" /\ ~shutdown => Work < Capacity

LEMMA PoolParts == PoolIInv <=> TypeOK /\ ThreadsOwned /\ CountIInv
  BY DEF PoolIInv, CountIInv, CountsAgree, AtMostCapacity, Got, Run, Work, Pushed

LEMMA PoolPartsNext == PoolIInv' <=> TypeOK' /\ ThreadsOwned' /\ CountIInv'
  BY DEF PoolIInv, CountIInv, CountsAgree, AtMostCapacity, Got, Run, Work, Pushed

LEMMA OwnedType == PoolIInv => TypeIInv
  BY DEF PoolIInv, TypeIInv, ThreadsOwned

\* A worker that neither starts nor ends stays owned.
LEMMA MoveOwned ==
  ASSUME PoolIInv, NEW w \in Workers, NEW a \in WorkerStates,
         wpc' = [wpc EXCEPT ![w] = a],
         wpc[w] \notin {"none", "joined", "gone"}, a \notin {"none", "joined"},
         UNCHANGED <<threadMap, mpc, newborn>>,
         needToErase' = needToErase \/ (a = "gone" /\ needToErase' = needToErase \cup {w})
  PROVE  ThreadsOwned'
  <1>1. \A v \in Workers : wpc'[v] = IF v = w THEN a ELSE wpc[v]
    BY DEF PoolIInv, TypeOK
  <1>2. {v \in Workers : wpc'[v] \notin {"none", "joined"}}
           = {v \in Workers : wpc[v] \notin {"none", "joined"}}
    BY <1>1
  <1>3. needToErase' \subseteq At("gone")'
    BY <1>1 DEF PoolIInv, ThreadsOwned, At
  <1> QED
    BY <1>2, <1>3 DEF PoolIInv, ThreadsOwned

LEMMA WorkerCountInv ==
  ASSUME PoolIInv, NEW w \in Workers, WorkerStep(w) \/ WakeUp(w)
  PROVE  CountIInv' /\ ThreadsOwned'
  <1> TypeOK /\ CountIInv
    BY PoolParts
  <1> USE DEF queueVars, counters, owned, workVars, managerVars, destructorVars,
              Goto
  <1>a. ASSUME NEW from \in WorkerStates \ {"none", "joined", "gone"},
               NEW to \in WorkerStates \ {"none", "joined"},
               Goto(w, from, to),
               UNCHANGED <<threadMap, mpc, newborn>>,
               needToErase' = needToErase
                 \/ (to = "gone" /\ needToErase' = needToErase \cup {w})
        PROVE  /\ ThreadsOwned'
               /\ Got' = Got + One(to = "got") - One(from = "got")
               /\ Run' = Run + One(to = "run") - One(from = "run")
               /\ Work' = Work + One(to \notin IdleStates) - One(from \notin IdleStates)
    BY <1>a, MoveOwned, WorkerCounts
  <1>b. Got \in Nat /\ Run \in Nat /\ Work \in Nat /\ Pushed \in Nat
    BY CountTypes
  <1>c. UNCHANGED <<mpc, shutdown>> => Uncounted' = Uncounted
    BY DEF Uncounted
  <1>d. UNCHANGED apc => Pushed' = Pushed
    BY DEF Pushed
  <1>e. Uncounted \in {0, 1} /\ Len(taskQueue) \in Nat /\ size \in Int
          /\ busy \in Int /\ threadSize \in Int
    BY DEF Uncounted, TypeOK
  <1>q. ASSUME NEW from \in WorkerStates \ {"none", "joined", "gone", "got", "run"},
               NEW to \in WorkerStates \ {"none", "joined", "got", "run"},
               from \in IdleStates <=> to \in IdleStates,
               Goto(w, from, to),
               UNCHANGED <<threadMap, mpc, newborn>>,
               needToErase' = needToErase
                 \/ (to = "gone" /\ needToErase' = needToErase \cup {w})
        PROVE  ThreadsOwned' /\ Got' = Got /\ Run' = Run /\ Work' = Work
    <2>1. /\ ThreadsOwned'
          /\ Got' = Got + One(to = "got") - One(from = "got")
          /\ Run' = Run + One(to = "run") - One(from = "run")
          /\ Work' = Work + One(to \notin IdleStates) - One(from \notin IdleStates)
      BY <1>q, <1>a
    <2>2. to # "got" /\ from # "got" /\ to # "run" /\ from # "run"
      OBVIOUS
    <2> QED
      BY <1>b, <1>q, <2>1, <2>2 DEF One
  <1>1. CASE \E to \in WorkerStates \ (IdleStates \cup {"got", "run"}) :
               /\ \E from \in WorkerStates \ (IdleStates \cup {"got", "run"}) :
                    Goto(w, from, to)
               /\ UNCHANGED <<queueVars, counters, owned, managerVars, destructorVars>>
    <2>1. ThreadsOwned' /\ Got' = Got /\ Run' = Run /\ Work' = Work
      BY <1>1, <1>q DEF IdleStates
    <2> QED
      BY <1>1, <1>c, <1>d, <2>1 DEF CountIInv
  <1>2. CASE Test(w) \/ Block(w) \/ WakeUp(w) \/ CloseTest(w)
    BY <1>1, <1>2 DEF Test, Block, WakeUp, CloseTest, WorkerStates, IdleStates
  <1>3. CASE Decide(w)
    <2>1. CASE Goto(w, "decide", "closeTest")
      BY <1>1, <1>3, <2>1 DEF Decide, WorkerStates, IdleStates
    <2>2. CASE Goto(w, "decide", "leave") /\ shutdown
      <3>1. ThreadsOwned' /\ Got' = Got /\ Run' = Run
        <4>1. /\ ThreadsOwned'
              /\ Got' = Got + One("leave" = "got") - One("decide" = "got")
              /\ Run' = Run + One("leave" = "run") - One("decide" = "run")
          BY <1>3, <2>2, <1>a DEF Decide, WorkerStates
        <4> QED
          BY <4>1, <1>b DEF One
      <3>2. shutdown' = TRUE
        BY <1>3, <2>2 DEF Decide, TypeOK
      <3> QED
        BY <1>3, <1>d, <3>1, <3>2 DEF Decide, CountIInv
    <2> QED
      BY <1>3, <2>1, <2>2 DEF Decide, ShouldQuit
  <1>4. CASE TakeClose(w)
    <2>1. ThreadsOwned' /\ Got' = Got /\ Run' = Run /\ Work' = Work
      BY <1>4, <1>q DEF TakeClose, IdleStates, WorkerStates
    <2> QED
      BY <1>4, <1>c, <1>d, <2>1 DEF TakeClose, CountIInv
  <1>5. CASE Uncount(w)
    <2>1. ThreadsOwned' /\ Got' = Got /\ Run' = Run /\ Work' = Work - 1
      <3>1. /\ ThreadsOwned'
            /\ Got' = Got + One("leave" = "got") - One("uncount" = "got")
            /\ Run' = Run + One("leave" = "run") - One("uncount" = "run")
            /\ Work' = Work + One("leave" \notin IdleStates)
                             - One("uncount" \notin IdleStates)
        BY <1>5, <1>a DEF Uncount, WorkerStates
      <3> QED
        BY <3>1, <1>b DEF One, IdleStates
    <2>2. /\ size' = size /\ taskQueue' = taskQueue /\ busy' = busy
          /\ threadSize' = threadSize - 1 /\ mpc' = mpc /\ shutdown' = shutdown
          /\ Pushed' = Pushed /\ Uncounted' = Uncounted
      BY <1>5, <1>c, <1>d DEF Uncount
    <2> QED
      BY <1>b, <1>e, <2>1, <2>2, PoolAssumption DEF CountIInv
  <1>6. CASE Leave(w)
    <2>1. ThreadsOwned' /\ Got' = Got /\ Run' = Run /\ Work' = Work
      BY <1>6, <1>q DEF Leave, IdleStates, WorkerStates
    <2> QED
      BY <1>6, <1>c, <1>d, <2>1 DEF Leave, CountIInv
  <1>7. CASE GetTask(w)
    <2>1. CASE taskQueue = << >>
      BY <1>1, <1>7, <2>1 DEF GetTask, WorkerStates, IdleStates
    <2>2. CASE taskQueue # << >>
      <3>1. ThreadsOwned' /\ Got' = Got + 1 /\ Run' = Run /\ Work' = Work
        BY <1>7, <2>2, <1>a, <1>b DEF GetTask, One, IdleStates, WorkerStates
      <3>2. Len(taskQueue') = Len(taskQueue) - 1
        BY <1>7, <2>2 DEF GetTask, Rest, TypeOK
      <3>3. /\ size' = size /\ busy' = busy /\ threadSize' = threadSize
            /\ mpc' = mpc /\ shutdown' = shutdown
            /\ Pushed' = Pushed /\ Uncounted' = Uncounted
        BY <1>7, <1>c, <1>d DEF GetTask
      <3> QED
        BY <1>b, <1>e, <3>1, <3>2, <3>3 DEF CountIInv
    <2> QED
      BY <2>1, <2>2
  <1>8. CASE CountTaken(w)
    <2>1. ThreadsOwned' /\ Got' = Got - 1 /\ Run' = Run /\ Work' = Work
      <3>1. /\ ThreadsOwned'
            /\ Got' = Got + One("begin" = "got") - One("got" = "got")
            /\ Run' = Run + One("begin" = "run") - One("got" = "run")
            /\ Work' = Work + One("begin" \notin IdleStates)
                             - One("got" \notin IdleStates)
        BY <1>8, <1>a DEF CountTaken, WorkerStates
      <3> QED
        BY <3>1, <1>b DEF One, IdleStates
    <2>2. /\ size' = size - 1 /\ taskQueue' = taskQueue /\ busy' = busy
          /\ threadSize' = threadSize /\ mpc' = mpc /\ shutdown' = shutdown
          /\ Pushed' = Pushed /\ Uncounted' = Uncounted
      BY <1>8, <1>c, <1>d DEF CountTaken
    <2> QED
      BY <1>b, <1>e, <2>1, <2>2 DEF CountIInv
  <1>9. CASE Begin(w) \/ Finish(w)
    <2>a. ASSUME Begin(w)
          PROVE  /\ ThreadsOwned' /\ Got' = Got /\ Work' = Work
                 /\ Run' - Run = busy' - busy /\ Run' \in Int
      <3>1. /\ ThreadsOwned'
            /\ Got' = Got + One("run" = "got") - One("begin" = "got")
            /\ Run' = Run + One("run" = "run") - One("begin" = "run")
            /\ Work' = Work + One("run" \notin IdleStates)
                             - One("begin" \notin IdleStates)
        BY <2>a, <1>a DEF Begin, WorkerStates
      <3> QED
        BY <3>1, <2>a, <1>b, <1>e DEF Begin, One, IdleStates
    <2>b. ASSUME Finish(w)
          PROVE  /\ ThreadsOwned' /\ Got' = Got /\ Work' = Work
                 /\ Run' - Run = busy' - busy /\ Run' \in Int
      <3>1. /\ ThreadsOwned'
            /\ Got' = Got + One("test" = "got") - One("run" = "got")
            /\ Run' = Run + One("test" = "run") - One("run" = "run")
            /\ Work' = Work + One("test" \notin IdleStates)
                             - One("run" \notin IdleStates)
        BY <2>b, <1>a DEF Finish, WorkerStates
      <3> QED
        BY <3>1, <2>b, <1>b, <1>e DEF Finish, One, IdleStates
    <2>1. /\ ThreadsOwned' /\ Got' = Got /\ Work' = Work
          /\ Run' - Run = busy' - busy /\ Run' \in Int
      BY <1>9, <2>a, <2>b
    <2>2. /\ size' = size /\ taskQueue' = taskQueue /\ busy' \in Int
          /\ threadSize' = threadSize /\ mpc' = mpc /\ shutdown' = shutdown
          /\ Pushed' = Pushed /\ Uncounted' = Uncounted /\ Run' \in Int
      BY <1>9, <1>c, <1>d, <1>e, <2>1 DEF Begin, Finish
    <2> QED
      BY <1>b, <1>e, <2>1, <2>2 DEF CountIInv
  <1> QED
    BY <1>2, <1>3, <1>4, <1>5, <1>6, <1>7, <1>8, <1>9 DEF WorkerStep

\* A notification changes neither numbers nor owners.
LEMMA NotifyInv ==
  ASSUME PoolIInv, NotifyOne, UNCHANGED <<threadMap, needToErase, newborn>>,
         mpc' = mpc \/ (mpc # "mapThread" /\ mpc' # "mapThread")
  PROVE  Got' = Got /\ Run' = Run /\ Work' = Work /\ ThreadsOwned'
  <1>1. /\ Got' = Got /\ Run' = Run /\ Work' = Work
        /\ \A w \in Workers : wpc'[w] = wpc[w]
                            \/ (wpc[w] = "wait" /\ wpc'[w] = "test")
    BY NotifyCounts DEF PoolIInv
  <1>2. /\ {v \in Workers : wpc'[v] \notin {"none", "joined"}}
              = {v \in Workers : wpc[v] \notin {"none", "joined"}}
        /\ At("gone") \subseteq At("gone")'
    BY <1>1 DEF At
  <1> QED
    BY <1>1, <1>2 DEF PoolIInv, ThreadsOwned

\* Nothing that is owned or counted by its state moves.
LEMMA StillOwned ==
  ASSUME PoolIInv, UNCHANGED <<threadMap, needToErase, newborn, wpc>>,
         mpc' = mpc \/ (mpc # "mapThread" /\ mpc' # "mapThread")
  PROVE  Got' = Got /\ Run' = Run /\ Work' = Work /\ ThreadsOwned'
  BY DEF PoolIInv, ThreadsOwned, At, Got, Run, Work, Working

LEMMA AddCountInv ==
  ASSUME PoolIInv, NEW t \in Tasks, Push(t) \/ AddStep(t)
  PROVE  CountIInv' /\ ThreadsOwned'
  <1> TypeOK /\ CountIInv
    BY PoolParts
  <1> USE DEF queueVars, counters, owned, workVars, managerVars, destructorVars
  <1>1. /\ Got \in Nat /\ Pushed \in Nat /\ Len(taskQueue) \in Nat /\ size \in Int
        /\ apc \in [Tasks -> {"out", "pushed", "counted", "added", "refused"}]
    BY CountTypes DEF TypeOK
  <1>2. ASSUME NEW a, apc' = [apc EXCEPT ![t] = a]
        PROVE  Pushed' = Pushed + One(a = "pushed") - One(apc[t] = "pushed")
    <2> DEFINE F == {u \in Tasks : apc[u] = "pushed"}
               G == {u \in Tasks : apc'[u] = "pushed"}
    <2>1. IsFiniteSet(F)
      BY PoolAssumption, FS_Subset
    <2>2. \A u \in Tasks : apc'[u] = IF u = t THEN a ELSE apc[u]
      BY <1>1, <1>2
    <2>3. F \ {t} = G \ {t} /\ (t \in G <=> a = "pushed") /\ (t \in F <=> apc[t] = "pushed")
      BY <2>2
    <2> HIDE DEF F, G
    <2>4. Cardinality(G) = Cardinality(F) + One(t \in G) - One(t \in F)
      BY <2>1, <2>3, CountChange
    <2> QED
      BY <2>3, <2>4 DEF Pushed, One, F, G
  <1>3. CASE Push(t) /\ Len(taskQueue) >= TaskMax
    <2>1. apc' = [apc EXCEPT ![t] = "refused"] /\ apc[t] = "out" /\ taskQueue' = taskQueue
      BY <1>1, <1>3, PoolAssumption DEF Push
    <2>2. Pushed' = Pushed + One("refused" = "pushed") - One("out" = "pushed")
      BY <1>2, <2>1
    <2>3. Pushed' = Pushed
      BY <1>1, <2>2 DEF One
    <2>4. Got' = Got /\ Run' = Run /\ Work' = Work /\ ThreadsOwned'
      BY <1>3, StillOwned DEF Push
    <2> QED
      BY <1>3, <2>1, <2>3, <2>4 DEF Push, CountIInv, Uncounted
  <1>4. CASE Push(t) /\ ~(Len(taskQueue) >= TaskMax)
    <2>1. /\ apc' = [apc EXCEPT ![t] = "pushed"] /\ apc[t] = "out"
          /\ taskQueue' = Append(taskQueue, t)
      BY <1>4 DEF Push
    <2>2. Pushed' = Pushed + One("pushed" = "pushed") - One("out" = "pushed")
      BY <1>2, <2>1
    <2>3. Pushed' = Pushed + 1 /\ Len(taskQueue') = Len(taskQueue) + 1
      BY <1>1, <2>1, <2>2 DEF One, TypeOK
    <2>4. Got' = Got /\ Run' = Run /\ Work' = Work /\ ThreadsOwned'
      BY <1>4, StillOwned DEF Push
    <2>5. /\ size' = size /\ busy' = busy /\ threadSize' = threadSize
          /\ mpc' = mpc /\ shutdown' = shutdown
      BY <1>4 DEF Push
    <2> QED
      BY <1>1, <2>3, <2>4, <2>5 DEF CountIInv, Uncounted
  <1>5. CASE Count(t)
    <2>1. apc' = [apc EXCEPT ![t] = "counted"] /\ apc[t] = "pushed"
      BY <1>5 DEF Count
    <2>2. Pushed' = Pushed + One("counted" = "pushed") - One("pushed" = "pushed")
      BY <1>2, <2>1
    <2>3. Pushed' = Pushed - 1
      BY <1>1, <2>2 DEF One
    <2>4. Got' = Got /\ Run' = Run /\ Work' = Work /\ ThreadsOwned'
      BY <1>5, StillOwned DEF Count
    <2>5. /\ size' = size + 1 /\ busy' = busy /\ threadSize' = threadSize
          /\ mpc' = mpc /\ shutdown' = shutdown /\ taskQueue' = taskQueue
      BY <1>5 DEF Count
    <2> QED
      BY <1>1, <2>3, <2>4, <2>5 DEF CountIInv, Uncounted
  <1>6. CASE Notify(t)
    <2>1. apc' = [apc EXCEPT ![t] = "added"] /\ apc[t] = "counted"
      BY <1>6 DEF Notify
    <2>2. Pushed' = Pushed + One("added" = "pushed") - One("counted" = "pushed")
      BY <1>2, <2>1
    <2>3. Pushed' = Pushed
      BY <1>1, <2>2 DEF One
    <2>4. Got' = Got /\ Run' = Run /\ Work' = Work /\ ThreadsOwned'
      BY <1>6, NotifyInv DEF Notify
    <2> QED
      BY <1>6, <2>3, <2>4 DEF Notify, CountIInv, Uncounted
  <1> QED
    BY <1>3, <1>4, <1>5, <1>6 DEF AddStep

LEMMA DestructorCountInv ==
  ASSUME PoolIInv, Close \/ CloseNotify \/ JoinAll
  PROVE  CountIInv' /\ ThreadsOwned'
  <1> TypeOK /\ CountIInv
    BY PoolParts
  <1> USE DEF queueVars, counters, owned, workVars, managerVars, destructorVars
  <1>1. Pushed' = Pushed /\ UNCHANGED <<mpc, size, taskQueue, busy, threadSize>>
    BY DEF Pushed, Close, CloseNotify, JoinAll
  <1>2. Got' = Got /\ Run' = Run /\ Work' = Work /\ ThreadsOwned'
    BY StillOwned, NotifyInv DEF Close, CloseNotify, JoinAll
  <1>3. shutdown' = shutdown \/ shutdown' = TRUE
    BY DEF Close, CloseNotify, JoinAll
  <1> QED
    BY <1>1, <1>2, <1>3 DEF CountIInv, Uncounted

LEMMA ManagerCountInv ==
  ASSUME PoolIInv, ManagerStep
  PROVE  CountIInv' /\ ThreadsOwned'
  <1> TypeOK /\ CountIInv
    BY PoolParts
  <1> USE DEF queueVars, counters, owned, workVars, managerVars, destructorVars
  <1>1. /\ Pushed' = Pushed /\ UNCHANGED <<size, taskQueue, busy, shutdown>>
    BY DEF Pushed, ManagerStep, Sample, Scale, AddThread, MapThread, CountThread,
           NotifyThread, Ask, NotifyAsk, Clean, NotifyAll
  <1>2. /\ Work \in Nat /\ Work < Modulus /\ Run \in Nat /\ Got \in Nat
        /\ threadSize \in Int
    BY CountTypes DEF TypeOK
  <1>3. CASE Sample
    <2>1. Got' = Got /\ Run' = Run /\ Work' = Work /\ ThreadsOwned'
      BY <1>3, StillOwned DEF Sample
    <2> QED
      BY <1>1, <1>3, <2>1 DEF Sample, CountIInv, Uncounted
  <1>4. CASE Scale
    <2>1. Got' = Got /\ Run' = Run /\ Work' = Work /\ ThreadsOwned'
      BY <1>4, StillOwned DEF Scale
    <2>2. ShouldAdd /\ ~shutdown => Work < Capacity
      BY <1>2, <1>4, UnsignedSmall DEF Scale, ShouldAdd, CountIInv, Uncounted
    <2>3. /\ threadSize' = threadSize /\ Uncounted' = Uncounted
          /\ mpc' = "addThread" => ShouldAdd
      BY <1>4 DEF Scale, Uncounted
    <2> QED
      BY <1>1, <2>1, <2>2, <2>3 DEF CountIInv
  <1>5. CASE AddThread
    <2>1. PICK w \in Workers : /\ wpc[w] = "none" /\ newborn' = w
                               /\ wpc' = [wpc EXCEPT ![w] = "test"]
      BY <1>5 DEF AddThread, Goto
    <2>2. "test" \in WorkerStates
      BY DEF WorkerStates
    <2>3. /\ Got' = Got + One("test" = "got") - One("none" = "got")
          /\ Run' = Run + One("test" = "run") - One("none" = "run")
          /\ Work' = Work + One("test" \notin IdleStates) - One("none" \notin IdleStates)
      BY <2>1, <2>2, WorkerCounts
    <2>4. Got' = Got /\ Run' = Run /\ Work' = Work + 1
      BY <1>2, <2>3 DEF One, IdleStates
    <2>5. ThreadsOwned'
      <3>1. \A v \in Workers : wpc'[v] = IF v = w THEN "test" ELSE wpc[v]
        BY <2>1 DEF TypeOK
      <3>2. /\ threadMap' = threadMap /\ needToErase' = needToErase
            /\ mpc = "addThread" /\ mpc' = "mapThread"
        BY <1>5 DEF AddThread
      <3>3. {v \in Workers : wpc'[v] \notin {"none", "joined"}} = threadMap \cup {w}
        BY <2>1, <3>1, <3>2 DEF PoolIInv, ThreadsOwned
      <3>4. needToErase' \subseteq At("gone")'
        BY <2>1, <3>1, <3>2 DEF PoolIInv, ThreadsOwned, At
      <3> QED
        BY <2>1, <3>2, <3>3, <3>4 DEF ThreadsOwned
    <2>6. threadSize' = threadSize /\ mpc = "addThread" /\ mpc' = "mapThread"
      BY <1>5 DEF AddThread
    <2> QED
      BY <1>1, <1>2, <2>4, <2>5, <2>6, PoolAssumption DEF CountIInv, Uncounted
  <1>6. CASE MapThread
    <2>1. /\ mpc = "mapThread" /\ mpc' = "countThread"
          /\ threadMap' = threadMap \cup {newborn}
          /\ UNCHANGED <<wpc, needToErase, threadSize>>
      BY <1>6 DEF MapThread
    <2>2. Got' = Got /\ Run' = Run /\ Work' = Work
      BY <2>1 DEF Got, Run, Work, At, Working
    <2>3. ThreadsOwned'
      BY <2>1 DEF PoolIInv, ThreadsOwned, At
    <2> QED
      BY <1>1, <2>1, <2>2, <2>3 DEF CountIInv, Uncounted
  <1>7. CASE CountThread
    <2>1. Got' = Got /\ Run' = Run /\ Work' = Work /\ ThreadsOwned'
      BY <1>7, StillOwned DEF CountThread
    <2>2. /\ mpc = "countThread" /\ mpc' = "notifyThread"
          /\ threadSize' = threadSize + 1
      BY <1>7 DEF CountThread
    <2> QED
      BY <1>1, <1>2, <2>1, <2>2 DEF CountIInv, Uncounted
  <1>8. CASE NotifyThread \/ NotifyAsk
    <2>1. Got' = Got /\ Run' = Run /\ Work' = Work /\ ThreadsOwned'
      BY <1>8, NotifyInv DEF NotifyThread, NotifyAsk
    <2> QED
      BY <1>1, <1>8, <2>1 DEF NotifyThread, NotifyAsk, CountIInv, Uncounted
  <1>9. CASE Ask
    <2>1. Got' = Got /\ Run' = Run /\ Work' = Work /\ ThreadsOwned'
      BY <1>9, StillOwned DEF Ask
    <2> QED
      BY <1>1, <1>9, <2>1 DEF Ask, CountIInv, Uncounted
  <1>10. CASE Clean
    <2>1. /\ threadMap' = threadMap \ needToErase /\ needToErase' = {}
          /\ mpc = "clean" /\ mpc' = "sample" /\ threadSize' = threadSize
          /\ \A w \in Workers :
                wpc'[w] = IF w \in needToErase \cap threadMap THEN "joined" ELSE wpc[w]
      BY <1>10 DEF Clean, MarksLeft
    <2>2. \A w \in needToErase : wpc[w] = "gone"
      BY DEF PoolIInv, ThreadsOwned, At
    <2>3. At("got")' = At("got") /\ At("run")' = At("run") /\ Working' = Working
      BY <2>1, <2>2 DEF At, Working
    <2>4. Got' = Got /\ Run' = Run /\ Work' = Work
      BY <2>3 DEF Got, Run, Work
    <2>5. ThreadsOwned'
      BY <2>1, <2>2 DEF PoolIInv, ThreadsOwned
    <2> QED
      BY <1>1, <2>1, <2>4, <2>5 DEF CountIInv, Uncounted
  <1>11. CASE NotifyAll
    <2>1. /\ \A w \in Workers : wpc'[w] = IF wpc[w] = "wait" THEN "test" ELSE wpc[w]
          /\ UNCHANGED <<threadMap, needToErase, threadSize>>
          /\ mpc = "notifyAll" /\ mpc' = "exited"
      BY <1>11 DEF NotifyAll, Sleepers
    <2>2. /\ At("got")' = At("got") /\ At("run")' = At("run") /\ Working' = Working
          /\ At("gone") \subseteq At("gone")'
      BY <2>1 DEF At, Working
    <2>3. Got' = Got /\ Run' = Run /\ Work' = Work
      BY <2>2 DEF Got, Run, Work
    <2>4. ThreadsOwned'
      BY <2>1, <2>2 DEF PoolIInv, ThreadsOwned
    <2> QED
      BY <1>1, <2>1, <2>3, <2>4 DEF CountIInv, Uncounted
  <1> QED
    BY <1>3, <1>4, <1>5, <1>6, <1>7, <1>8, <1>9, <1>10, <1>11 DEF ManagerStep

LEMMA PoolInit == Init => PoolIInv
  <1> SUFFICES ASSUME Init PROVE PoolIInv
    OBVIOUS
  <1>1. TypeOK
    BY TypeInit DEF TypeIInv
  <1>2. \A w \in Workers : wpc[w] = IF w \in FirstWorkers THEN "test" ELSE "none"
    BY DEF Init
  <1>3. /\ At("got") = {} /\ At("run") = {} /\ Working = FirstWorkers
        /\ {t \in Tasks : apc[t] = "pushed"} = {}
    BY <1>2, PoolAssumption DEF At, Working, Init
  <1>4. Got = 0 /\ Run = 0 /\ Pushed = 0 /\ Work = ThreadMin
    BY <1>3, FS_EmptySet DEF Got, Run, Pushed, Work, ThreadMin
  <1>5. mpc \in {"sample", "exited"} /\ Len(taskQueue) = 0
    BY DEF Init
  <1>6. ThreadsOwned
    BY <1>2, <1>5, PoolAssumption DEF Init, ThreadsOwned
  <1>7. ThreadMin \in Nat
    BY PoolAssumption, FS_Subset, FS_CardinalityType DEF ThreadMin
  <1>8. CountIInv
    BY <1>4, <1>5, <1>7, PoolAssumption DEF Init, CountIInv, Uncounted, ThreadMin
  <1> QED
    BY <1>1, <1>6, <1>8, PoolParts

LEMMA PoolNext == PoolIInv /\ [Next]_vars => PoolIInv'
  <1> SUFFICES ASSUME PoolIInv, [Next]_vars PROVE PoolIInv'
    OBVIOUS
  <1>1. TypeOK'
    BY OwnedType, TypeNext DEF TypeIInv
  <1>2. CASE UNCHANGED vars
    BY <1>2 DEF vars, queueVars, counters, owned, workVars, managerVars,
                destructorVars, PoolIInv, TypeOK, ThreadsOwned, CountsAgree,
                AtMostCapacity, At, Working, Uncounted, Work
  <1>3. CASE Next
    <2>1. CountIInv' /\ ThreadsOwned'
      BY <1>3, AddCountInv, WorkerCountInv, ManagerCountInv, DestructorCountInv
         DEF Next
    <2> QED
      BY <1>1, <2>1, PoolPartsNext
  <1> QED
    BY <1>2, <1>3

LEMMA PoolInvariant == Spec => []PoolIInv
  BY PoolInit, PoolNext, PTL DEF Spec

\* The size counter, the busy counter and the number of threads agree with
\* the queue and the workers up to the steps under way.
THEOREM CountsAlwaysAgree == Spec => []CountsAgree
  <1>1. PoolIInv => CountsAgree
    BY DEF PoolIInv
  <1> QED
    BY <1>1, PoolInvariant, PTL

\* The manager never has more workers at work than the pool's capacity.
THEOREM NeverOverCapacity == Spec => []AtMostCapacity
  <1>1. PoolIInv => AtMostCapacity
    BY DEF PoolIInv
  <1> QED
    BY <1>1, PoolInvariant, PTL

\* Every thread that was started is in the map until it is joined.
THEOREM ThreadsAlwaysOwned == Spec => []ThreadsOwned
  <1>1. PoolIInv => ThreadsOwned
    BY DEF PoolIInv
  <1> QED
    BY <1>1, PoolInvariant, PTL

-----------------------------------------------------------------------------
(* Every accepted task is in one place *)

Accepted == {t \in Tasks : apc[t] \notin {"out", "refused"}}

LEMMA RunOnceInit == Init => RunOnce
  <1> SUFFICES ASSUME Init PROVE RunOnce
    OBVIOUS
  <1>1. Queued = {} /\ Held = {} /\ done = {} /\ Accepted = {}
    BY DEF Init, Queued, Held, Accepted
  <1>2. \A v, w \in Workers : wtask[v] = NoTask
    BY DEF Init
  <1> QED
    BY <1>1, <1>2 DEF Init, RunOnce, Accepted

\* The steps that move no task.
LEMMA TasksStay ==
  ASSUME RunOnce, UNCHANGED <<taskQueue, wtask, done>>, Accepted' = Accepted
  PROVE  RunOnce'
  BY DEF RunOnce, Queued, Held, Accepted

LEMMA PushRunOnce ==
  ASSUME TypeOK, RunOnce, NEW t \in Tasks, Push(t) \/ AddStep(t)
  PROVE  RunOnce'
  <1> USE DEF queueVars, counters, owned, workVars, managerVars, destructorVars
  <1>0. apc \in [Tasks -> {"out", "pushed", "counted", "added", "refused"}]
        /\ taskQueue \in Seq(Tasks)
    BY DEF TypeOK
  <1>1. CASE AddStep(t) \/ apc' = [apc EXCEPT ![t] = "refused"]
    <2>1. UNCHANGED <<taskQueue, wtask, done>>
      <3>1. CASE AddStep(t)
        BY <3>1 DEF AddStep, Count, Notify
      <3>2. CASE apc' = [apc EXCEPT ![t] = "refused"]
        BY <1>0, <3>2 DEF Push, AddStep, Count, Notify
      <3> QED
        BY <1>1, <3>1, <3>2
    <2>2. Accepted' = Accepted
      BY <1>0, <1>1 DEF Accepted, AddStep, Push, Count, Notify
    <2> QED
      BY <2>1, <2>2, TasksStay
  <1>2. CASE /\ apc[t] = "out" /\ apc' = [apc EXCEPT ![t] = "pushed"]
             /\ taskQueue' = Append(taskQueue, t) /\ UNCHANGED <<wtask, done>>
    <2>1. t \notin Queued /\ t \notin Held /\ t \notin done
      BY <1>2 DEF RunOnce
    <2>2. /\ Len(taskQueue') = Len(taskQueue) + 1
          /\ DOMAIN taskQueue = 1 .. Len(taskQueue)
          /\ DOMAIN taskQueue' = 1 .. Len(taskQueue')
          /\ Len(taskQueue) \in Nat
          /\ taskQueue'[Len(taskQueue')] = t
          /\ \A i \in 1 .. Len(taskQueue) : taskQueue'[i] = taskQueue[i]
      BY <1>0, <1>2
    <2>3. Queued' = Queued \cup {t}
      BY <2>2 DEF Queued
    <2>4. \A i \in DOMAIN taskQueue : taskQueue[i] # t
      BY <2>1 DEF Queued
    <2>5. \A i, j \in DOMAIN taskQueue' : taskQueue'[i] = taskQueue'[j] => i = j
      BY <2>2, <2>4 DEF RunOnce
    <2>6. Held' = Held /\ Accepted' = Accepted \cup {t}
      BY <1>0, <1>2 DEF Held, Accepted
    <2>7. Queued' \cup Held' \cup done' = Accepted'
      BY <1>2, <2>3, <2>6 DEF RunOnce, Accepted
    <2> QED
      BY <1>2, <2>1, <2>3, <2>5, <2>6, <2>7 DEF RunOnce, Accepted
  <1> QED
    BY <1>1, <1>2 DEF Push

LEMMA WorkerRunOnce ==
  ASSUME TypeOK, RunOnce, NEW w \in Workers, WorkerStep(w) \/ WakeUp(w)
  PROVE  RunOnce'
  <1> USE DEF queueVars, counters, owned, workVars, managerVars, destructorVars
  <1>0. /\ taskQueue \in Seq(Tasks) /\ wtask \in [Workers -> Tasks \cup {NoTask}]
        /\ \A v \in Workers : wtask[v] # NoTask <=> wpc[v] \in {"got", "begin", "run"}
    BY DEF TypeOK
  <1>1. apc' = apc /\ Accepted' = Accepted
    BY DEF Accepted, WorkerStep, WakeUp, Test, Block, Decide, CloseTest, TakeClose,
           Uncount, Leave, GetTask, CountTaken, Begin, Finish
  <1>2. CASE UNCHANGED <<taskQueue, wtask, done>>
    BY <1>1, <1>2, TasksStay
  <1>3. CASE GetTask(w) /\ taskQueue # << >>
    <2> DEFINE t == Head(taskQueue)
    <2>1. /\ t \in Tasks /\ Len(taskQueue) \in Nat \ {0} /\ t = taskQueue[1]
          /\ DOMAIN taskQueue = 1 .. Len(taskQueue)
      BY <1>0, <1>3
    <2>2. /\ taskQueue' = Tail(taskQueue) /\ done' = done
          /\ wtask' = [wtask EXCEPT ![w] = t] /\ wtask[w] = NoTask
      BY <1>0, <1>3 DEF GetTask, Rest, Goto
    <2>3. /\ DOMAIN taskQueue' = 1 .. (Len(taskQueue) - 1)
          /\ \A i \in DOMAIN taskQueue' : taskQueue'[i] = taskQueue[i + 1]
      BY <1>0, <2>1, <2>2
    <2>4. \A i, j \in DOMAIN taskQueue' : taskQueue'[i] = taskQueue'[j] => i = j
      BY <2>1, <2>3 DEF RunOnce
    <2>5. Queued' = Queued \ {t}
      <3>1. Queued' \subseteq Queued \ {t}
        BY <2>1, <2>3 DEF Queued, RunOnce
      <3>2. ASSUME NEW q \in Queued, q # t PROVE q \in Queued'
        <4>1. PICK i \in DOMAIN taskQueue : taskQueue[i] = q /\ i # 1
          BY <2>1, <3>2 DEF Queued
        <4>2. i - 1 \in DOMAIN taskQueue' /\ taskQueue'[i - 1] = q
          BY <2>1, <2>3, <4>1
        <4> QED
          BY <4>2 DEF Queued
      <3> QED
        BY <3>1, <3>2
    <2>6. t \in Queued /\ t \notin Held /\ t \notin done /\ t # NoTask
      BY <2>1, PoolAssumption DEF Queued, RunOnce
    <2>7. \A v \in Workers : wtask'[v] = IF v = w THEN t ELSE wtask[v]
      BY <1>0, <2>2
    <2>8. Held' = Held \cup {t}
      BY <2>2, <2>6, <2>7 DEF Held
    <2>9. \A v \in Workers : wtask[v] # t
      BY <2>6 DEF Held
    <2>10. \A v, u \in Workers : wtask'[v] = wtask'[u] => v = u \/ wtask'[v] = NoTask
      BY <2>6, <2>7, <2>9 DEF RunOnce
    <2>11. Queued' \cup Held' \cup done' = Accepted'
      BY <1>1, <2>2, <2>5, <2>6, <2>8 DEF RunOnce, Accepted
    <2> QED
      BY <2>2, <2>4, <2>5, <2>6, <2>8, <2>10, <2>11 DEF RunOnce, Accepted
  <1>4. CASE Finish(w)
    <2> DEFINE t == wtask[w]
    <2>1. /\ taskQueue' = taskQueue /\ done' = done \cup {t}
          /\ wtask' = [wtask EXCEPT ![w] = NoTask] /\ t # NoTask
      BY <1>0, <1>4 DEF Finish, Goto
    <2>2. \A v \in Workers : wtask'[v] = IF v = w THEN NoTask ELSE wtask[v]
      BY <1>0, <2>1
    <2>3. \A v \in Workers \ {w} : wtask[v] # t
      BY <2>1 DEF RunOnce
    <2>4. Held' = Held \ {t} /\ t \in Held
      BY <2>1, <2>2, <2>3 DEF Held
    <2>5. Queued' = Queued
      BY <2>1 DEF Queued
    <2>6. \A v, u \in Workers : wtask'[v] = wtask'[u] => v = u \/ wtask'[v] = NoTask
      BY <2>2 DEF RunOnce
    <2>7. Queued' \cup Held' \cup done' = Accepted'
      BY <1>1, <2>1, <2>4, <2>5 DEF RunOnce, Accepted
    <2> QED
      BY <2>1, <2>4, <2>5, <2>6, <2>7 DEF RunOnce, Accepted
  <1> QED
    BY <1>2, <1>3, <1>4
       DEF WorkerStep, WakeUp, Test, Block, Decide, CloseTest, TakeClose, Uncount,
           Leave, GetTask, CountTaken, Begin

LEMMA OthersRunOnce ==
  ASSUME RunOnce, ManagerStep \/ Close \/ CloseNotify \/ JoinAll
  PROVE  RunOnce'
  <1>1. UNCHANGED <<taskQueue, wtask, done, apc>>
    BY DEF ManagerStep, Sample, Scale, AddThread, MapThread, CountThread,
           NotifyThread, Ask, NotifyAsk, Clean, NotifyAll, Close, CloseNotify,
           JoinAll, queueVars, workVars
  <1> QED
    BY <1>1, TasksStay DEF Accepted

\* Every task that addTask accepted is once in the queue, in the hands of one
\* worker, or done: none is lost, none is run twice.
THEOREM RunOnceAlways == Spec => []RunOnce
  <1>1. TypeIInv /\ RunOnce /\ [Next]_vars => RunOnce'
    <2> SUFFICES ASSUME TypeOK, RunOnce, [Next]_vars PROVE RunOnce'
      BY DEF TypeIInv
    <2>1. CASE UNCHANGED vars
      BY <2>1, TasksStay DEF vars, queueVars, workVars, Accepted
    <2> QED
      BY <2>1, PushRunOnce, WorkerRunOnce, OthersRunOnce DEF Next
  <1> QED
    BY <1>1, TypeInit, TypeNext, RunOnceInit, PTL DEF Spec

-----------------------------------------------------------------------------
(* The destructor drains the queue *)

\* Tasks queued and tasks just taken are different tasks, so that the size
\* counter never wraps around.
LEMMA QueueFits ==
  ASSUME TypeOK, RunOnce
  PROVE  Len(taskQueue) + Got < Modulus
  <1> DEFINE Q == 1 .. Len(taskQueue)
             G == At("got")
             HeldGot == {wtask[w] : w \in G}
             f == [i \in Q |-> taskQueue[i]]
             g == [w \in G |-> wtask[w]]
  <1>0. /\ taskQueue \in Seq(Tasks) /\ Len(taskQueue) \in Nat
        /\ wtask \in [Workers -> Tasks \cup {NoTask}]
        /\ \A w \in Workers : wtask[w] # NoTask <=> wpc[w] \in {"got", "begin", "run"}
    BY DEF TypeOK
  <1>1. IsFiniteSet(Q) /\ Cardinality(Q) = Len(taskQueue)
    <2> DEFINE n == Len(taskQueue)
    <2>1. n \in Nat
      BY <1>0
    <2> HIDE DEF n
    <2>2. IsFiniteSet(1 .. n) /\ Cardinality(1 .. n) = IF 1 > n THEN 0 ELSE n - 1 + 1
      BY <2>1, FS_Interval
    <2>3. Cardinality(1 .. n) = n
      BY <2>1, <2>2
    <2> QED
      BY <2>2, <2>3 DEF n
  <1>2. IsFiniteSet(G)
    BY PoolAssumption, FS_Subset DEF At
  <1>3. IsFiniteSet(Queued) /\ Cardinality(Queued) = Len(taskQueue)
    <2>1. DOMAIN taskQueue = Q
      BY <1>0
    <2>2. f \in [Q -> Queued] /\ \A t \in Queued : \E i \in Q : f[i] = t
      BY <2>1 DEF Queued
    <2>4. \A i, j \in Q : f[i] = f[j] => i = j
      BY <2>1 DEF RunOnce
    <2> HIDE DEF f, Q
    <2>5. f \in Bijection(Q, Queued)
      BY <2>2, <2>4 DEF Bijection, Injection, IsInjective, Surjection
    <2>3. ExistsBijection(Q, Queued)
      BY <2>5 DEF ExistsBijection
    <2> QED
      BY <1>1, <2>3, FS_Bijection DEF Q
  <1>4. IsFiniteSet(HeldGot) /\ Cardinality(HeldGot) = Got
    <2>1. \A w \in G : w \in Workers /\ wtask[w] # NoTask
      BY <1>0 DEF At
    <2>2. \A v, w \in G : wtask[v] = wtask[w] => v = w
      BY <2>1 DEF RunOnce
    <2>3. /\ g \in [G -> HeldGot] /\ \A t \in HeldGot : \E w \in G : g[w] = t
          /\ \A v, w \in G : g[v] = g[w] => v = w
      BY <2>2
    <2> HIDE DEF g, G, HeldGot
    <2>4. g \in Bijection(G, HeldGot)
      BY <2>3 DEF Bijection, Injection, IsInjective, Surjection
    <2>5. ExistsBijection(G, HeldGot)
      BY <2>4 DEF ExistsBijection
    <2>6. Got = Cardinality(G)
      BY DEF Got, G
    <2> QED
      BY <1>2, <2>5, <2>6, FS_Bijection
  <1>5. HeldGot \subseteq Held /\ Queued \subseteq Tasks /\ HeldGot \subseteq Tasks
    BY <1>0 DEF Held, Queued, At
  <1>6. Queued \cap HeldGot = {}
    BY <1>5 DEF RunOnce
  <1>7. Cardinality(Queued \cup HeldGot) = Len(taskQueue) + Got
    <2>1. Cardinality(Queued \cup HeldGot)
             = Cardinality(Queued) + Cardinality(HeldGot)
                 - Cardinality(Queued \cap HeldGot)
      BY <1>3, <1>4, FS_Union
    <2>2. Cardinality(Queued \cap HeldGot) = 0
      BY <1>6, FS_EmptySet
    <2>3. Got \in Nat
      BY CountTypes
    <2> QED
      BY <1>0, <1>3, <1>4, <2>1, <2>2, <2>3
  <1>8. Queued \cup HeldGot \subseteq Tasks
    BY <1>5
  <1>9. /\ Cardinality(Queued \cup HeldGot) <= Cardinality(Tasks)
        /\ Cardinality(Tasks) \in Nat
    BY <1>8, PoolAssumption, FS_Subset, FS_CardinalityType
  <1>10. Len(taskQueue) + Got \in Nat
    BY <1>0, CountTypes
  <1> QED
    BY <1>7, <1>9, <1>10, PoolAssumption

\* A worker that reads the size as zero when no push is under way sees an
\* empty queue.
LEMMA ZeroIsEmpty ==
  ASSUME TypeOK, RunOnce, CountIInv, Pushed = 0, Unsigned(size) = 0
  PROVE  taskQueue = << >>
  <1>1. Len(taskQueue) \in Nat /\ Got \in Nat /\ Len(taskQueue) + Got < Modulus
    BY QueueFits, CountTypes DEF TypeOK
  <1>2. size = Len(taskQueue) + Got /\ size \in Nat /\ size < Modulus
    BY <1>1 DEF CountIInv
  <1>3. size = 0
    BY <1>2, UnsignedSmall
  <1>4. Len(taskQueue) = 0
    BY <1>1, <1>2, <1>3
  <1> QED
    BY <1>4 DEF TypeOK

\* Without a manager nobody asks a worker to close, no thread is added or
\* joined before the end, and workers leave at shutdown only: the first that
\* leaves has seen the queue empty, and it stays so unless a task is late.
DrainIInv ==
    /\ shutdown <=> dpc # "open"
    /\ ~managed => /\ mpc = "exited" /\ needToClose = 0
                   /\ threadMap = FirstWorkers
                   /\ At("close") = {} /\ At("uncount") = {}
                   /\ ~shutdown => At("leave") \cup At("gone") = {}
    /\ ~managed /\ ~late /\ Pushed = 0 /\ At("leave") \cup At("gone") # {}
           => taskQueue = << >>
    /\ CloseDrains

LEMMA DrainInit == Init => DrainIInv
  <1> SUFFICES ASSUME Init PROVE DrainIInv
    OBVIOUS
  <1>1. \A w \in Workers : wpc[w] \in {"test", "none"}
    BY DEF Init
  <1>2. /\ At("close") = {} /\ At("uncount") = {}
        /\ At("leave") = {} /\ At("gone") = {}
    BY <1>1 DEF At
  <1> QED
    BY <1>2 DEF Init, DrainIInv, CloseDrains

\* Whoever changes the queue after shutdown makes it late, or takes from it.
LEMMA AddDrain ==
  ASSUME PoolIInv, DrainIInv, NEW t \in Tasks, Push(t) \/ AddStep(t)
  PROVE  DrainIInv'
  <1> USE DEF queueVars, counters, owned, workVars, managerVars, destructorVars
  <1> TypeOK
    BY PoolParts
  <1>1. UNCHANGED <<managed, shutdown, dpc, mpc, needToClose, threadMap>>
    BY DEF Push, AddStep, Count, Notify
  <1>2. \A s \in {"close", "uncount", "leave", "gone"} : At(s)' = At(s)
    <2>1. CASE UNCHANGED wpc
      BY <2>1 DEF At
    <2>2. CASE Notify(t)
      <3>1. \A w \in Workers : wpc'[w] = wpc[w]
                             \/ (wpc[w] = "wait" /\ wpc'[w] = "test")
        BY <2>2, NotifyCounts DEF Notify
      <3> QED
        BY <3>1 DEF At
    <2> QED
      BY <2>1, <2>2 DEF Push, AddStep, Count
  <1>3. CASE shutdown
    <2>1. late' \/ (late' = late /\ UNCHANGED <<taskQueue, Pushed>>)
      <3>1. CASE Push(t) /\ apc' = [apc EXCEPT ![t] = "refused"]
        <4>1. {u \in Tasks : apc'[u] = "pushed"} = {u \in Tasks : apc[u] = "pushed"}
          BY <3>1 DEF Push, TypeOK
        <4>2. Pushed' = Pushed
          BY <4>1 DEF Pushed
        <4>3. taskQueue' = taskQueue /\ late' = late
          <5>1. apc' # [apc EXCEPT ![t] = "pushed"]
            BY <3>1 DEF TypeOK
          <5> QED
            BY <3>1, <5>1 DEF Push
        <4> QED
          BY <4>2, <4>3
      <3>2. CASE Notify(t)
        <4>1. {u \in Tasks : apc'[u] = "pushed"} = {u \in Tasks : apc[u] = "pushed"}
          BY <3>2 DEF Notify, TypeOK
        <4> QED
          BY <3>2, <4>1 DEF Notify, Pushed
      <3>3. CASE late' = (late \/ shutdown)
        BY <1>3, <3>3
      <3> QED
        BY <3>1, <3>2, <3>3 DEF Push, AddStep, Count
    <2> QED
      BY <1>1, <1>2, <2>1 DEF DrainIInv, CloseDrains
  <1>4. CASE ~shutdown
    BY <1>1, <1>2, <1>4 DEF DrainIInv, CloseDrains
  <1> QED
    BY <1>3, <1>4

LEMMA WorkerDrain ==
  ASSUME PoolIInv, RunOnce, DrainIInv, NEW w \in Workers,
         WorkerStep(w) \/ WakeUp(w)
  PROVE  DrainIInv'
  <1> USE DEF queueVars, counters, owned, workVars, managerVars, destructorVars
  <1> TypeOK /\ CountIInv
    BY PoolParts
  <1>0. wpc \in [Workers -> WorkerStates] /\ taskQueue \in Seq(Tasks)
    BY DEF TypeOK
  <1>1. /\ UNCHANGED <<managed, late, shutdown, dpc, mpc, threadMap, apc>>
        /\ Pushed' = Pushed
    BY DEF WorkerStep, WakeUp, Test, Block, Decide, CloseTest, TakeClose, Uncount,
           Leave, GetTask, CountTaken, Begin, Finish, Pushed
  <1>2. taskQueue = << >> => taskQueue' = << >>
    BY DEF WorkerStep, WakeUp, Test, Block, Decide, CloseTest, TakeClose, Uncount,
           Leave, GetTask, CountTaken, Begin, Finish
  <1>3. CloseDrains'
    BY <1>1, <1>2 DEF DrainIInv, CloseDrains
  <1>4. CASE managed
    BY <1>1, <1>3, <1>4 DEF DrainIInv
  <1>5. CASE ~managed
    <2>1. Unsigned(needToClose) = 0
      BY <1>5, PoolAssumption DEF DrainIInv, Unsigned
    <2>a. wpc[w] # "close" /\ wpc[w] # "uncount"
      BY <1>5 DEF DrainIInv, At
    <2>b. ~TakeClose(w) /\ ~Uncount(w)
      BY <2>a DEF TakeClose, Uncount, Goto
    <2>c. CloseTest(w) => Goto(w, "closeTest", "get")
      BY <2>1 DEF CloseTest
    <2>2. /\ ~TakeClose(w) /\ ~Uncount(w)
          /\ ~Goto(w, "closeTest", "close") \/ ~CloseTest(w)
      BY <1>0, <2>b, <2>c DEF Goto
    <2>3. needToClose' = needToClose
      BY <2>2 DEF WorkerStep, WakeUp, Test, Block, Decide, CloseTest,
                  Leave, GetTask, CountTaken, Begin, Finish
    <2>4. CASE Leave(w)
      <3>1. w \in At("leave")
        BY <2>4 DEF Leave, Goto, At
      <3>2. /\ At("close")' = At("close") /\ At("uncount")' = At("uncount")
            /\ taskQueue' = taskQueue
        BY <1>0, <2>4 DEF Leave, Goto, At
      <3>3. shutdown /\ (~late /\ Pushed = 0 => taskQueue = << >>)
        BY <1>5, <3>1 DEF DrainIInv
      <3> QED
        BY <1>1, <1>3, <1>5, <2>3, <3>2, <3>3 DEF DrainIInv
    <2>5. CASE Decide(w) /\ Goto(w, "decide", "leave")
      <3>1. shutdown /\ Unsigned(size) = 0
        BY <1>0, <2>5 DEF Decide, Goto, ShouldQuit
      <3>2. Pushed = 0 => taskQueue = << >>
        BY <3>1, ZeroIsEmpty
      <3>3. /\ At("close")' = At("close") /\ At("uncount")' = At("uncount")
            /\ taskQueue' = taskQueue
        BY <1>0, <2>5 DEF Decide, Goto, At
      <3> QED
        BY <1>1, <1>3, <1>5, <2>3, <3>1, <3>2, <3>3 DEF DrainIInv
    <2>6. CASE \E from, to \in WorkerStates \ {"close", "uncount", "leave", "gone"} :
                  Goto(w, from, to)
      <3>1. \A s \in {"close", "uncount", "leave", "gone"} : At(s)' = At(s)
        BY <1>0, <2>6 DEF Goto, At
      <3> QED
        BY <1>1, <1>2, <1>3, <1>5, <2>3, <3>1 DEF DrainIInv
    <2> QED
      BY <2>2, <2>4, <2>5, <2>6
         DEF WorkerStep, WakeUp, Test, Block, Decide, CloseTest, GetTask,
             CountTaken, Begin, Finish, WorkerStates
  <1> QED
    BY <1>4, <1>5

LEMMA ManagerDrain ==
  ASSUME DrainIInv, ManagerStep
  PROVE  DrainIInv'
  <1>1. mpc # "exited" /\ UNCHANGED <<managed, taskQueue, late, shutdown, dpc>>
    BY DEF ManagerStep, Sample, Scale, AddThread, MapThread, CountThread,
           NotifyThread, Ask, NotifyAsk, Clean, NotifyAll, queueVars,
           destructorVars
  <1>2. managed
    BY <1>1 DEF DrainIInv
  <1> QED
    BY <1>1, <1>2 DEF DrainIInv, CloseDrains

LEMMA DestructorDrain ==
  ASSUME PoolIInv, DrainIInv, Close \/ CloseNotify \/ JoinAll
  PROVE  DrainIInv'
  <1> USE DEF queueVars, counters, owned, workVars, managerVars, destructorVars
  <1> TypeOK
    BY PoolParts
  <1>1. /\ UNCHANGED <<managed, taskQueue, late, mpc, needToClose, threadMap, apc>>
        /\ Pushed' = Pushed
    BY DEF Close, CloseNotify, JoinAll, Pushed
  <1>2. \A s \in {"close", "uncount", "leave", "gone"} : At(s)' = At(s)
    <2>1. CASE UNCHANGED wpc
      BY <2>1 DEF At
    <2>2. CASE CloseNotify /\ NotifyOne
      <3>1. \A w \in Workers : wpc'[w] = wpc[w]
                             \/ (wpc[w] = "wait" /\ wpc'[w] = "test")
        BY <2>2, NotifyCounts
      <3> QED
        BY <3>1 DEF At
    <2> QED
      BY <2>1, <2>2 DEF Close, CloseNotify, JoinAll
  <1>3. /\ shutdown' <=> dpc' # "open"
        /\ ~shutdown' => ~shutdown
    BY DEF Close, CloseNotify, JoinAll, DrainIInv
  <1>4. CloseDrains'
    <2>1. CASE JoinAll /\ ~managed /\ ~late
      <3>1. PICK w \in FirstWorkers : w \in threadMap /\ w \in Workers
        BY <2>1, PoolAssumption DEF DrainIInv
      <3>2. w \in At("gone")
        BY <2>1, <3>1 DEF JoinAll, At
      <3>3. {t \in Tasks : apc[t] = "pushed"} = {}
        BY <2>1 DEF JoinAll
      <3>4. Pushed = 0
        BY <3>3, FS_EmptySet DEF Pushed
      <3> QED
        BY <1>1, <2>1, <3>2, <3>4 DEF DrainIInv, CloseDrains
    <2>2. CASE Close \/ CloseNotify
      <3>1. dpc' # "closed"
        BY <2>2 DEF Close, CloseNotify
      <3> QED
        BY <3>1 DEF CloseDrains
    <2> QED
      BY <1>1, <2>1, <2>2 DEF CloseDrains
  <1> QED
    BY <1>1, <1>2, <1>3, <1>4 DEF DrainIInv

LEMMA DrainNext == PoolIInv /\ RunOnce /\ DrainIInv /\ [Next]_vars => DrainIInv'
  <1> SUFFICES ASSUME PoolIInv, RunOnce, DrainIInv, [Next]_vars PROVE DrainIInv'
    OBVIOUS
  <1>1. CASE UNCHANGED vars
    BY <1>1 DEF vars, queueVars, counters, owned, workVars, managerVars,
                destructorVars, DrainIInv, CloseDrains, At, Pushed
  <1> QED
    BY <1>1, AddDrain, WorkerDrain, ManagerDrain, DestructorDrain DEF Next

\* When the destructor has returned, no task that was added before it began
\* is left in the queue, if the pool has no manager thread.
THEOREM CloseAlwaysDrains == Spec => []CloseDrains
  <1>1. DrainIInv => CloseDrains
    BY DEF DrainIInv
  <1> QED
    BY <1>1, DrainInit, DrainNext, PoolInvariant, RunOnceAlways, PTL DEF Spec

=============================================================================
