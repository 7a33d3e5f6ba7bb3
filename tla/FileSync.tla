------------------------------ MODULE FileSync ------------------------------
(***************************************************************************)
(* The file engine (FileSyncEngine.cpp), its sender threads                *)
(* (FileSender.cpp) and, at the other end of each sender's connection, the *)
(* parsers of the peer's receiver threads.                                 *)
(*                                                                         *)
(* A request is one /file/have_file_to_send event; FileOf is the file it   *)
(* names.  The handlers of the engine run on the event bus's pool threads, *)
(* so a handler that does not hold the engine's mutex is cut where another *)
(* thread's step can come between.  The plain bools running and cancel are *)
(* shared without synchronisation: a step of the sender reads the value    *)
(* last written.                                                           *)
(*                                                                         *)
(* A sender's name is also its connection's.  A name can be used again     *)
(* once the old connection is closed and drained: the new connection may   *)
(* then get the old socket number, hence the parser that                   *)
(* file_parser_map still holds for it.                                     *)
(***************************************************************************)
EXTENDS FileParser

CONSTANTS
    Senders,       \* names of sender threads and their connections
    SenderNum,     \* sender_num, the number initFileSenders creates
    Requests,      \* the have_file_to_send events of a behaviour
    FileOf,        \* [Requests -> Files]
    NoRequest,     \* a sender has no task
    NoSender,      \* setConcurrentTask is not waiting for a sender
    Faults,        \* connections may fail to open and may break
    MaxSessions,   \* bound on the number of times the engine starts
    Concurrency,   \* the numbers setConcurrentTask may be given
    MaxStops,      \* bound on the number of times the engine stops
    MaxResizes     \* bound on the number of setConcurrentTask events

ASSUME SyncAssumption ==
    /\ SenderNum \in Nat
    /\ FileOf \in [Requests -> Files]
    /\ NoRequest \notin Requests
    /\ NoSender \notin Senders
    /\ Faults \in BOOLEAN
    /\ MaxSessions \in Nat
    /\ Concurrency \subseteq 0..255
    /\ MaxStops \in Nat
    /\ MaxResizes \in Nat

VARIABLES
    engine,    \* off, listening (after start), on (after initFileSenders),
               \* or stopping
    pending,   \* the requests in pending_send_files, under the engine's mutex,
    turn,      \* ... and the order they were pushed in, which is the deque's
    listed,    \* file_senders, unsynchronised
    resize,    \* a setConcurrentTask that removes senders: how many it still
               \* has to remove, and the one whose thread it is joining
    found,     \* senders that an onCancelUploadFile has found and not flagged
    pc,        \* where each sender's thread stands
    task,      \* pending_file, local to the sender's thread
    current,   \* current_file_id
    builder,   \* file_msg_builder
    running,
    cancel,
    wire,      \* messages sent and not yet parsed, per connection
    broken,    \* connections that lose what is sent on them
    parser,    \* file_parser_map of the peer
    disk       \* the peer's absolute_tmp_dir

\* Events and history, read by no action but the bounds on the input.
VARIABLES
    upload,    \* the last /file/upload_progress event of each request
    download,  \* the last event the peer's parsers published for each file
    fate,      \* what has become of each request
    born,      \* the session a request was queued in
    asked,     \* files that a /file/cancel_transit_in_sender event named
    sessions,  \* how often the engine has started
    stops,     \* how often it was stopped
    resizes    \* how many setConcurrentTask events there were

queue == <<pending, turn>>
engineVars == <<engine, queue, listed, resize, found>>
threadVars == <<pc, task, current, builder, running, cancel>>
peerVars == <<parser, disk>>
bounds == <<sessions, stops, resizes>>
history == <<upload, download, fate, born, asked, bounds>>
vars == <<engineVars, threadVars, wire, broken, peerVars, history>>

Idle == [left |-> 0, join |-> NoSender]

ThreadStates ==
    {"unborn", "check", "take", "begin", "stream", "report", "forget", "reset",
     "exited", "closed"}

\* The thread holds a task: from getPendingFile to the end of the loop body.
Busy(s) == pc[s] \in {"begin", "stream", "report", "forget", "reset"}

Elems(seq) == {seq[i] : i \in DOMAIN seq}

EngineTypeOK ==
    /\ engine \in {"off", "listening", "on", "stopping"}
    /\ pending \in SUBSET Requests
    /\ turn \in [Requests -> Nat]
    /\ listed \in Seq(Senders)
    /\ resize \in [left : Nat, join : Senders \cup {NoSender}]
    /\ found \in SUBSET Senders

ThreadTypeOK ==
    /\ pc \in [Senders -> ThreadStates]
    /\ task \in [Senders -> Requests \cup {NoRequest}]
    /\ current \in [Senders -> Files \cup {NoFile}]
    /\ builder \in [Senders -> Builder]
    /\ running \in [Senders -> BOOLEAN]
    /\ cancel \in [Senders -> BOOLEAN]

PeerTypeOK ==
    /\ wire \in [Senders -> Seq(Message)]
    /\ broken \in SUBSET Senders
    /\ parser \in [Senders -> Parser]
    /\ DOMAIN disk = Paths

HistoryTypeOK ==
    /\ upload \in [Requests -> {"none", "progress", "complete"}]
    /\ download \in [Files -> {NoEvent, Ended, CancelSeen}]
    /\ fate \in [Requests -> {"new", "waiting", "withdrawn", "taken", "over"}]
    /\ born \in [Requests -> Nat]
    /\ asked \in SUBSET Files
    /\ sessions \in Nat
    /\ stops \in Nat
    /\ resizes \in Nat

TypeOK == EngineTypeOK /\ ThreadTypeOK /\ PeerTypeOK /\ HistoryTypeOK

\* Before the first connection: nothing has been started.
Init ==
    /\ engine = "off"
    /\ pending = {}
    /\ turn = [r \in Requests |-> 0]
    /\ listed = << >>
    /\ resize = Idle
    /\ found = {}
    /\ pc = [s \in Senders |-> "unborn"]
    /\ task = [s \in Senders |-> NoRequest]
    /\ current = [s \in Senders |-> NoFile]
    /\ builder = [s \in Senders |-> NewBuilder]
    /\ running = [s \in Senders |-> FALSE]
    /\ cancel = [s \in Senders |-> FALSE]
    /\ wire = [s \in Senders |-> << >>]
    /\ broken = {}
    /\ parser = [s \in Senders |-> NewParser]
    /\ disk = EmptyDisk
    /\ upload = [r \in Requests |-> "none"]
    /\ download = [f \in Files |-> NoEvent]
    /\ fate = [r \in Requests |-> "new"]
    /\ born = [r \in Requests |-> 0]
    /\ asked = {}
    /\ sessions = 0
    /\ stops = 0
    /\ resizes = 0

-----------------------------------------------------------------------------
(* The engine's queue *)

\* onHaveFileToSend.  The condition variable it notifies exists from start
\* until the end of stop.
Submit(r) ==
    /\ fate[r] = "new"
    /\ engine # "off"
    /\ pending' = pending \cup {r}
    /\ \E last \in {turn[q] : q \in Requests} :
          /\ \A q \in Requests : turn[q] <= last
          /\ turn' = [turn EXCEPT ![r] = last + 1]
    /\ fate' = [fate EXCEPT ![r] = "waiting"]
    /\ born' = [born EXCEPT ![r] = sessions]
    /\ UNCHANGED <<engine, listed, resize, found, threadVars, wire, broken,
                   peerVars, upload, download, asked, bounds>>

\* onCancelSendFile removes every pending request of the file.
Withdraw(f) ==
    LET gone == {r \in pending : FileOf[r] = f} IN
    /\ gone # {}
    /\ pending' = pending \ gone
    /\ fate' = [r \in Requests |-> IF r \in gone THEN "withdrawn" ELSE fate[r]]
    /\ UNCHANGED <<engine, turn, listed, resize, found, threadVars, wire,
                   broken, peerVars, upload, download, born, asked, bounds>>

\* onCancelUploadFile, without a lock: the sender found first, ...  The file
\* list publishes the event for a file it has seen progress of, and shows the
\* file cancelled from then on (FileListModel::cancelTransit).
FindSender(f) ==
    /\ engine # "off"
    /\ \E r \in Requests : FileOf[r] = f /\ upload[r] # "none"
    /\ f \notin asked
    /\ asked' = asked \cup {f}
    /\ LET at == {i \in DOMAIN listed : current[listed[i]] = f} IN
       IF at = {}
       THEN UNCHANGED found
       ELSE \E i \in at : /\ \A j \in at : i <= j
                          /\ found' = found \cup {listed[i]}
    /\ UNCHANGED <<engine, queue, listed, resize, threadVars, wire, broken,
                   peerVars, upload, download, fate, born, bounds>>

\* ... then flagged, whatever it sends by now.
FlagSender(s) ==
    /\ s \in found
    /\ found' = found \ {s}
    /\ cancel' = [cancel EXCEPT ![s] = TRUE]
    /\ UNCHANGED <<engine, queue, listed, resize, pc, task, current, builder,
                   running, wire, broken, peerVars, history>>

-----------------------------------------------------------------------------
(* A sender's thread *)

\* Mutant: the thread also leaves its loop when it finds no work.
LookForWorkOnce(s) ==
    /\ pc[s] = "check"
    /\ \/ (~running[s] \/ pending = {}) /\ pc' = [pc EXCEPT ![s] = "exited"]
       \/ running[s] /\ pending # {} /\ pc' = [pc EXCEPT ![s] = "take"]
    /\ UNCHANGED <<engineVars, task, current, builder, running, cancel, wire,
                   broken, peerVars, history>>

\* The head of the loop: leave it once stopped, else look for work.
LookForWork(s) ==
    /\ pc[s] = "check"
    /\ \/ ~running[s] /\ pc' = [pc EXCEPT ![s] = "exited"]
       \/ running[s] /\ pending # {} /\ pc' = [pc EXCEPT ![s] = "take"]
    /\ UNCHANGED <<engineVars, task, current, builder, running, cancel, wire,
                   broken, peerVars, history>>

\* Mutant: pop_back instead of pop_front.
FirstBack(r) == r \in pending /\ \A q \in pending : turn[q] <= turn[r]

\* pending_send_files.front().
First(r) == r \in pending /\ \A q \in pending : turn[r] <= turn[q]

\* Mutant: the front is read and not popped.
RemainingAll(r) == pending

Remaining(r) == pending \ {r}

\* getPendingFile; another sender may have taken the last request meanwhile.
TakeTask(s) ==
    /\ pc[s] = "take"
    /\ \/ /\ pending = {}
          /\ pc' = [pc EXCEPT ![s] = "check"]
          /\ UNCHANGED <<pending, task, fate>>
       \/ \E r \in Requests :
          /\ First(r)
          /\ pc' = [pc EXCEPT ![s] = "begin"]
          /\ task' = [task EXCEPT ![s] = r]
          /\ pending' = Remaining(r)
          /\ fate' = [fate EXCEPT ![r] = "taken"]
    /\ UNCHANGED <<engine, turn, listed, resize, found, current, builder,
                   running, cancel, wire, broken, peerVars, upload, download,
                   born, asked, bounds>>

BeginTask(s) ==
    /\ pc[s] = "begin"
    /\ pc' = [pc EXCEPT ![s] = "stream"]
    /\ current' = [current EXCEPT ![s] = FileOf[task[s]]]
    /\ builder' = [builder EXCEPT ![s] = SetFileInfo(@, FileOf[task[s]])]
    /\ UNCHANGED <<engineVars, task, running, cancel, wire, broken, peerVars,
                   history>>

\* One turn of the do-while: the cancel flag, the next message, its sending.
\* A stopped sender and a broken connection drop the message and go on; buildMsg
\* never returns the null that sendMsg tests for.  The count to 40 that makes a
\* progress event is shared by all threads.
StreamNext(s) ==
    LET b == IF cancel[s] THEN CancelSending(builder[s]) ELSE builder[s]
        next == GetStream(b)
    IN  /\ pc[s] = "stream"
        /\ builder' = [builder EXCEPT ![s] = next.builder]
        /\ pc' = [pc EXCEPT ![s] = IF next.msg = NoMsg THEN "report" ELSE @]
        /\ wire' = IF next.msg = NoMsg \/ ~running[s] \/ s \in broken
                   THEN wire
                   ELSE [wire EXCEPT ![s] = Append(@, next.msg)]
        /\ \/ upload' = [upload EXCEPT ![task[s]] = "progress"]
           \/ UNCHANGED upload
        /\ UNCHANGED <<engineVars, task, current, running, cancel, broken,
                       peerVars, download, fate, born, asked, bounds>>

\* Mutant: the cancel flag is not looked at.
ReportEndAlways(s) ==
    /\ pc[s] = "report"
    /\ pc' = [pc EXCEPT ![s] = "forget"]
    /\ upload' = [upload EXCEPT ![task[s]] = "complete"]
    /\ UNCHANGED <<engineVars, task, current, builder, running, cancel, wire,
                   broken, peerVars, download, fate, born, asked, bounds>>

\* The event that says the file has been sent, unless it was cancelled.
ReportEnd(s) ==
    /\ pc[s] = "report"
    /\ pc' = [pc EXCEPT ![s] = "forget"]
    /\ upload' = IF cancel[s] THEN upload
                 ELSE [upload EXCEPT ![task[s]] = "complete"]
    /\ UNCHANGED <<engineVars, task, current, builder, running, cancel, wire,
                   broken, peerVars, download, fate, born, asked, bounds>>

ForgetFile(s) ==
    /\ pc[s] = "forget"
    /\ pc' = [pc EXCEPT ![s] = "reset"]
    /\ current' = [current EXCEPT ![s] = NoFile]
    /\ UNCHANGED <<engineVars, task, builder, running, cancel, wire, broken,
                   peerVars, history>>

ResetCancel(s) ==
    /\ pc[s] = "reset"
    /\ pc' = [pc EXCEPT ![s] = "check"]
    /\ cancel' = [cancel EXCEPT ![s] = FALSE]
    /\ task' = [task EXCEPT ![s] = NoRequest]
    /\ fate' = [fate EXCEPT ![task[s]] = "over"]
    /\ UNCHANGED <<engineVars, current, builder, running, wire, broken,
                   peerVars, upload, download, born, asked, bounds>>

-----------------------------------------------------------------------------
(* Starting and stopping threads *)

\* Names a new sender can have: the old connection is closed and drained.
Free(s) == pc[s] \in {"unborn", "closed"} /\ wire[s] = << >> /\ s \notin found

\* The senders that connected, in the order they are started.  A new
\* connection is a socket number the peer has a parser for, or one it has not.
Launch(new, fresh) ==
    /\ listed' = listed \o new
    /\ pc' = [s \in Senders |-> IF s \in Elems(new) THEN "check" ELSE pc[s]]
    /\ builder' = [s \in Senders |->
                      IF s \in Elems(new) THEN NewBuilder ELSE builder[s]]
    /\ running' = [s \in Senders |-> running[s] \/ s \in Elems(new)]
    /\ cancel' = [s \in Senders |-> cancel[s] /\ s \notin Elems(new)]
    /\ broken' = broken \ Elems(new)
    /\ parser' = [s \in Senders |->
                     IF s \in fresh THEN NewParser ELSE parser[s]]

StartSenders(want) ==
    \E n \in (IF Faults THEN 0..want ELSE {want}) :
    \E new \in [1..n -> {s \in Senders : Free(s)}] :
    \E fresh \in SUBSET Elems(new) :
        /\ \A i, j \in 1..n : i # j => new[i] # new[j]
        /\ Launch(new, fresh)

\* start: the receiver listens and the peer is told.
Start ==
    /\ engine = "off"
    /\ sessions < MaxSessions
    /\ engine' = "listening"
    /\ sessions' = sessions + 1
    /\ UNCHANGED <<queue, listed, resize, found, threadVars, wire, broken,
                   peerVars, upload, download, fate, born, asked, stops,
                   resizes>>

\* initFileSenders, when the peer says that its receiver listens: it does so
\* once a session.  The handler itself checks nothing; that start has run
\* before is assumed here.
InitFileSenders ==
    /\ engine = "listening"
    /\ engine' = "on"
    /\ StartSenders(SenderNum)
    /\ UNCHANGED <<queue, resize, found, task, current, wire, disk, history>>

\* setConcurrentTask with a number that is not below the present one.
Grow(num) ==
    /\ engine = "on"
    /\ resize = Idle
    /\ resizes < MaxResizes
    /\ num >= Len(listed)
    /\ resizes' = resizes + 1
    /\ StartSenders(num - Len(listed))
    /\ UNCHANGED <<engine, queue, resize, found, task, current, wire, disk,
                   upload, download, fate, born, asked, sessions, stops>>

\* Mutant: need_to_close keeps its sign.
SurplusSigned(num) == num - Len(listed)

Surplus(num) == Len(listed) - num

\* setConcurrentTask with a smaller number ...
Shrink(num) ==
    /\ engine = "on"
    /\ resize = Idle
    /\ resizes < MaxResizes
    /\ num < Len(listed)
    /\ resizes' = resizes + 1
    /\ resize' = [left |-> Surplus(num), join |-> NoSender]
    /\ UNCHANGED <<engine, queue, listed, found, threadVars, wire, broken,
                   peerVars, upload, download, fate, born, asked, sessions,
                   stops>>

\* ... stops and unlists the last sender ...
RemoveLast ==
    /\ resize.left > 0
    /\ resize.join = NoSender
    /\ LET last == listed[Len(listed)] IN
       /\ running' = [running EXCEPT ![last] = FALSE]
       /\ resize' = [left |-> resize.left - 1, join |-> last]
    /\ listed' = SubSeq(listed, 1, Len(listed) - 1)
    /\ UNCHANGED <<engine, queue, found, pc, task, current, builder, cancel,
                   wire, broken, peerVars, history>>

\* ... and waits in its destructor for the thread, then closes the socket.
JoinRemoved ==
    /\ resize.join # NoSender
    /\ pc[resize.join] = "exited"
    /\ pc' = [pc EXCEPT ![resize.join] = "closed"]
    /\ resize' = [resize EXCEPT !.join = NoSender]
    /\ UNCHANGED <<engine, queue, listed, found, task, current, builder,
                   running, cancel, wire, broken, peerVars, history>>

\* stop: every sender is told to stop.  The queue is left as it is.
Stop ==
    /\ engine \in {"listening", "on"}
    /\ resize = Idle
    /\ stops < MaxStops
    /\ engine' = "stopping"
    /\ stops' = stops + 1
    /\ running' = [s \in Senders |-> running[s] /\ s \notin Elems(listed)]
    /\ UNCHANGED <<queue, listed, resize, found, pc, task, current, builder,
                   cancel, wire, broken, peerVars, upload, download, fate,
                   born, asked, sessions, resizes>>

\* file_senders.clear() destroys each sender, joining its thread first.
JoinListed(s) ==
    /\ engine = "stopping"
    /\ s \in Elems(listed)
    /\ pc[s] = "exited"
    /\ pc' = [pc EXCEPT ![s] = "closed"]
    /\ UNCHANGED <<engineVars, task, current, builder, running, cancel, wire,
                   broken, peerVars, history>>

StopDone ==
    /\ engine = "stopping"
    /\ \A s \in Elems(listed) : pc[s] = "closed"
    /\ engine' = "off"
    /\ listed' = << >>
    /\ UNCHANGED <<queue, resize, found, threadVars, wire, broken, peerVars,
                   history>>

-----------------------------------------------------------------------------
(* The connections and the peer *)

\* Mutant: what was in transit is lost and the connection goes on.
BreakHeals(s) ==
    /\ Faults \/ engine \in {"stopping", "off"}
    /\ pc[s] # "unborn"
    /\ wire' = [wire EXCEPT ![s] = << >>]
    /\ UNCHANGED <<engineVars, threadVars, broken, peerVars, history>>

\* A connection breaks; when the session ends the peer closes it as well.
\* What was in transit is lost, and the sender does not learn of it.
Break(s) ==
    /\ Faults \/ engine \in {"stopping", "off"}
    /\ pc[s] # "unborn"
    /\ broken' = broken \cup {s}
    /\ wire' = [wire EXCEPT ![s] = << >>]
    /\ UNCHANGED <<engineVars, threadVars, peerVars, history>>

\* The receiver's thread of a connection hands the parser the next message.
Receive(s) ==
    LET next == Parse(parser[s], disk, Head(wire[s])) IN
    /\ wire[s] # << >>
    /\ wire' = [wire EXCEPT ![s] = Tail(@)]
    /\ parser' = [parser EXCEPT ![s] = next.parser]
    /\ disk' = next.disk
    /\ download' = IF next.event = NoEvent THEN download
                   ELSE [download EXCEPT ![parser[s].cur] = next.event]
    /\ UNCHANGED <<engineVars, threadVars, broken, upload, fate, born, asked,
                   bounds>>

-----------------------------------------------------------------------------

ThreadStep(s) ==
    \/ LookForWork(s) \/ TakeTask(s) \/ BeginTask(s) \/ StreamNext(s)
    \/ ReportEnd(s) \/ ForgetFile(s) \/ ResetCancel(s)

EngineStep ==
    \/ InitFileSenders \/ RemoveLast \/ JoinRemoved \/ StopDone
    \/ \E s \in Senders : JoinListed(s)

Environment ==
    \/ Start \/ Stop
    \/ \E r \in Requests : Submit(r)
    \/ \E f \in Files : Withdraw(f) \/ FindSender(f)
    \/ \E num \in Concurrency : Grow(num) \/ Shrink(num)
    \/ \E s \in Senders : Break(s)

Next ==
    \/ \E s \in Senders : ThreadStep(s) \/ Receive(s) \/ FlagSender(s)
    \/ EngineStep
    \/ Environment

Spec == Init /\ [][Next]_vars

\* Threads are scheduled, handlers that started go on, TCP delivers.  Nothing
\* is assumed of the user, the peer's requests or faults.
Fairness ==
    /\ \A s \in Senders : /\ WF_vars(ThreadStep(s))
                          /\ WF_vars(Receive(s))
                          /\ WF_vars(FlagSender(s))
    /\ WF_vars(EngineStep)

FairSpec == Spec /\ Fairness

=============================================================================
