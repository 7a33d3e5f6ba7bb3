------------------------------ MODULE Session -------------------------------
(***************************************************************************)
(* The control connection and the session that is agreed on it: TcpDriver, *)
(* NetworkController, the parts of JsonParser, ConnectionManager and       *)
(* DeviceListModel that open and close a session, and the life of the file *)
(* engine that depends on it.                                              *)
(*                                                                         *)
(* Every handler is a task of the event bus's pool.  Tasks run in any      *)
(* order and at the same time, so that a handler is the sequence of the    *)
(* steps in which it touches what other threads touch too; todo is the bag *)
(* of what is left of each.  The accepting thread and a receiving thread   *)
(* inside a callback are such sequences as well.                           *)
(*                                                                         *)
(* Events for the window are applied where they are published: the window  *)
(* handles them in that order.                                             *)
(***************************************************************************)
EXTENDS Naturals, Sequences, FiniteSets, Bags, BagsExt

CONSTANTS
    Peers,
    Dials,      \* the pairs <<p, q>> such that p's user may connect to q
    MaxRequests,\* bound on the number of connection requests that users make
                \* and take back
    Faults,     \* a request may fail to reach its peer, or its TLS exchange
                \* break off
    Nobody,     \* no peer, no socket
    Fresh       \* a socket that is not connected to a peer

ASSUME SessionAssumption ==
    /\ Dials \subseteq Peers \X Peers
    /\ \A d \in Dials : d[1] # d[2]
    /\ MaxRequests \in Nat
    /\ Faults \in BOOLEAN
    /\ Nobody \notin Peers /\ Fresh \notin Peers /\ Nobody # Fresh
    /\ Nobody \notin Nat /\ Fresh \notin Nat

VARIABLES
    status,     \* connection_status: waiting (for TLS), tls or tcp
    candidate,  \* candidate_ip
    sock,       \* client_socket: a link, Fresh or Nobody
    online,     \* connect_status
    dialing,    \* the socket of a TLS exchange under way is open
    target,     \* client_tls_addr and client_tcp_addr
    key,        \* the AES key, the number of the exchange that made it
    reading,    \* recv_running
    readers,    \* receiving threads: a bag of the sockets they read
    links,      \* TCP connections, in the order they were made
    todo,       \* a bag of what the threads of each peer are doing
    connected,  \* GlobalStatusManager's is_connected
    ids,        \* the end that file ids are counted from, idType
    partner,    \* current_target_device_ip
    engine,     \* FileSyncEngine, as far as its life goes
    ui,         \* the window: idle, asking (a peer to accept) or connected
    asked       \* the window shows the request of a peer

\* Bounds and history.
VARIABLES
    exchanges,  \* TLS exchanges so far, each with a key of its own
    requests,   \* made and taken back so far
    mishaps,    \* what has got in the way of the sessions: "beginning", an end
                \* of one that came while it was begun; "accept", an accept of
                \* a request that was taken back; "request", one made before
                \* the last session's end was dealt with; "busy", one taken by
                \* a peer with a session or a request of its own; "exchange",
                \* a TLS exchange that broke off; "order", a cancel that was
                \* sent before the request it takes back
    early       \* peers that were to connect their senders before their own
                \* engine had started

driverVars == <<status, candidate, sock, online, dialing, target, key>>
threadVars == <<reading, readers, links>>
stateVars == <<connected, ids, partner>>
windowVars == <<ui, asked>>
bounds == <<exchanges, requests>>
vars == <<driverVars, threadVars, todo, stateVars, engine, windowVars, bounds,
          mishaps, early>>

Off == [addr |-> Nobody, listening |-> FALSE, started |-> FALSE,
        senders |-> FALSE]

Init ==
    /\ status = [p \in Peers |-> "waiting"]
    /\ candidate = [p \in Peers |-> Nobody]
    /\ sock = [p \in Peers |-> Nobody]
    /\ online = [p \in Peers |-> FALSE] /\ dialing = [p \in Peers |-> FALSE]
    /\ target = [p \in Peers |-> Nobody] /\ key = [p \in Peers |-> 0]
    /\ reading = [p \in Peers |-> FALSE]
    /\ readers = [p \in Peers |-> EmptyBag]
    /\ links = << >>
    /\ todo = [p \in Peers |-> EmptyBag]
    /\ connected = [p \in Peers |-> FALSE] /\ ids = [p \in Peers |-> "low"]
    /\ partner = [p \in Peers |-> Nobody]
    /\ engine = [p \in Peers |-> Off]
    /\ ui = [p \in Peers |-> "idle"] /\ asked = [p \in Peers |-> FALSE]
    /\ exchanges = 0 /\ requests = 0
    /\ mishaps = {} /\ early = {}

---------------------------------------------------------------------------
(* Handlers, as the sequences of their steps; arg is the peer or the link  *)
(* the handler is about.                                                   *)

Task(steps, arg) == [steps |-> steps, arg |-> arg]
Plain(steps) == Task(steps, Nobody)

\* NetworkController.
SendConnectRequest(q) ==
    Task(<<"dial", "exchange", "connect", "recvMsg", "request">>, q)
SendAccept == Plain(<<"accept", "initHigh", "statusOn">>)
\* Mutant: the connection is reset before the answer is sent.
SendRejectLate == Plain(<<"reset", "reject", "statusOff">>)

SendReject == Plain(<<"reject", "reset", "statusOff">>)
HaveAccept == Plain(<<"initLow", "statusOn">>)
HaveReject == Plain(<<"reset", "statusOff">>)
ResetConnection == Plain(<<"cancel", "reset">>)
CancelConnRequest == Plain(<<"reset">>)

\* Mutant: the driver is not reset.
DisconnectKeeps == Plain(<<"close">>)

Disconnect == Plain(<<"reset", "close">>)
ConnectError == Plain(<<"reset", "lost", "unconnected">>)

\* Mutant: the driver is reset, the session is not closed.
ConnClosedResets == Plain(<<"reset", "again">>)

ConnClosed == Plain(<<"reset", "lost", "again">>)
SendInitFileReceiverDone == Plain(<<"ready">>)

\* TcpDriver's accepting thread, with a connection from its candidate.
Accepted(c) == Task(<<"recvMsg", "established">>, c)

\* FileSyncEngine.
Start(q) == Task(<<"listen", "started">>, q)
Stop == Plain(<<"stop">>)
InitFileSenders == Plain(<<"initFileSenders">>)

\* What begins a session and is not yet done.
Begins == {"dial", "exchange", "connect", "recvMsg", "initHigh", "initLow", "statusOn",
           "established", "listen", "started"}
Beginning(p) ==
    \E t \in BagToSet(todo[p]) :
        \E i \in DOMAIN t.steps : t.steps[i] \in Begins

\* A request that is to be sent.
Requesting(p) == \E t \in BagToSet(todo[p]) : t.steps[Len(t.steps)] = "request"

\* The end of a session is not yet dealt with.
Ends == {"reset", "statusOff", "close", "lost", "unconnected", "again", "stop"}
Ending(p) ==
    \/ sock[p] = Nobody /\ readers[p] # EmptyBag
    \/ \E t \in BagToSet(todo[p]) : \E i \in DOMAIN t.steps : t.steps[i] \in Ends

\* A session or a request of its own.
Busy(p) == sock[p] # Nobody \/ status[p] # "waiting"

Noting(condition, mishap) ==
    IF condition THEN mishaps \cup {mishap} ELSE mishaps

At(p, t, step) == t \in BagToSet(todo[p]) /\ Head(t.steps) = step

\* The bag after t has made its first step and published the tasks of set new.
After(p, t, new) ==
    LET rest == BagRemove(todo[p], t)
        left == IF Len(t.steps) = 1 THEN rest
                ELSE BagAdd(rest, [t EXCEPT !.steps = Tail(@)])
    IN  [todo EXCEPT ![p] = left (+) SetToBag(new)]

Drop(p, t) == [todo EXCEPT ![p] = BagRemove(@, t)]
Publish(p, new) == todo' = [todo EXCEPT ![p] = @ (+) SetToBag(new)]

IsLink(c) == c \in DOMAIN links
Other(c, p) == IF links[c].from = p THEN links[c].to ELSE links[c].from

\* CLOSE_SOCKET(c) by p.
Closed(c, p) ==
    IF IsLink(c) THEN [links EXCEPT ![c].open = @ \ {p}] ELSE links

---------------------------------------------------------------------------
(* The user. *)

UserConnects(p, q) ==
    /\ <<p, q>> \in Dials /\ requests < MaxRequests
    /\ ui[p] = "idle"
    /\ requests' = requests + 1
    /\ ui' = [ui EXCEPT ![p] = "asking"]
    /\ Publish(p, {SendConnectRequest(q)})
    /\ UNCHANGED <<driverVars, threadVars, stateVars, engine, asked, exchanges,
                   mishaps, early>>

UserCancels(p) ==
    /\ ui[p] = "asking" /\ requests < MaxRequests
    /\ requests' = requests + 1
    /\ ui' = [ui EXCEPT ![p] = "idle"]
    /\ Publish(p, {ResetConnection})
    /\ UNCHANGED <<driverVars, threadVars, stateVars, engine, asked, exchanges,
                   mishaps, early>>

UserAnswers(p) ==
    /\ asked[p]
    /\ asked' = [asked EXCEPT ![p] = FALSE]
    /\ \/ ui' = [ui EXCEPT ![p] = "connected"] /\ Publish(p, {SendAccept})
       \/ Publish(p, {SendReject}) /\ UNCHANGED ui
    /\ UNCHANGED <<driverVars, threadVars, stateVars, engine, bounds,
                   mishaps, early>>

UserDisconnects(p) ==
    /\ ui[p] = "connected"
    /\ ui' = [ui EXCEPT ![p] = "idle"]
    /\ Publish(p, {Disconnect})
    /\ UNCHANGED <<driverVars, threadVars, stateVars, engine, asked, bounds,
                   mishaps, early>>

---------------------------------------------------------------------------
(* TcpDriver. *)

\* initTlsSocket and initTcpSocket.
Dial(p, t) ==
    /\ At(p, t, "dial")
    /\ sock' = [sock EXCEPT ![p] = Fresh]
    /\ dialing' = [dialing EXCEPT ![p] = TRUE]
    /\ target' = [target EXCEPT ![p] = t.arg]
    /\ mishaps' = Noting(Ending(p) \/ Busy(p), "request")
    /\ todo' = After(p, t, {})
    /\ UNCHANGED <<status, candidate, online, key, threadVars, stateVars,
                   engine, windowVars, bounds, early>>

\* getAesKey and dealTlsRequest: the peer's accepting thread takes TLS requests
\* while it waits for them, and both ends keep the key it made.
Exchange(p, t) ==
    LET q == t.arg IN
    /\ At(p, t, "exchange")
    /\ dialing[p] /\ status[q] = "waiting"
    /\ exchanges' = exchanges + 1
    /\ key' = [key EXCEPT ![p] = exchanges + 1, ![q] = exchanges + 1]
    /\ status' = [status EXCEPT ![q] = "tls"]
    /\ candidate' = [candidate EXCEPT ![q] = p]
    /\ mishaps' = mishaps \cup (IF Ending(q) THEN {"request"} ELSE {})
                          \cup (IF Busy(q) \/ Beginning(q) THEN {"busy"} ELSE {})
    /\ todo' = After(p, t, {})
    /\ UNCHANGED <<sock, online, dialing, target, threadVars, stateVars, engine,
                   windowVars, requests, early>>

\* resetConnection has cleared the address, or closed the socket: connect
\* fails (and its error is ignored) or getAesKey throws.
ExchangeAborted(p, t) ==
    /\ At(p, t, "exchange")
    /\ target[p] = Nobody \/ ~dialing[p]
    /\ \/ online' = [online EXCEPT ![p] = FALSE]
       \/ UNCHANGED online
    /\ dialing' = [dialing EXCEPT ![p] = FALSE]
    /\ todo' = Drop(p, t)
    /\ UNCHANGED <<status, candidate, sock, target, key, threadVars, stateVars,
                   engine, windowVars, bounds, mishaps, early>>

\* The connection is lost in the middle: getAesKey throws, and the handler
\* ends.  The peer may have sent its key.
ExchangeBreaks(p, t) ==
    LET q == t.arg IN
    /\ Faults
    /\ At(p, t, "exchange")
    /\ dialing[p] /\ status[q] = "waiting"
    /\ \/ /\ exchanges' = exchanges + 1
          /\ key' = [key EXCEPT ![q] = exchanges + 1]
          /\ status' = [status EXCEPT ![q] = "tls"]
          /\ candidate' = [candidate EXCEPT ![q] = p]
       \/ UNCHANGED <<exchanges, key, status, candidate>>
    /\ mishaps' = mishaps \cup {"exchange"}
    /\ todo' = Drop(p, t)
    /\ UNCHANGED <<sock, online, dialing, target, threadVars, stateVars, engine,
                   windowVars, requests, early>>

\* The peer does not answer: dealConnectError calls onConnectError.
Refused(p, t) ==
    /\ Faults
    /\ At(p, t, "exchange") /\ dialing[p] /\ target[p] # Nobody
    /\ ui' = [ui EXCEPT ![p] = "idle"]
    /\ todo' = [todo EXCEPT ![p] = BagAdd(BagRemove(@, t), ConnectError)]
    /\ UNCHANGED <<driverVars, threadVars, stateVars, engine, asked, bounds,
                   mishaps, early>>

\* The rest of connectTo: the second connection, for the messages.  The peer's
\* system completes it before the peer accepts it.
Connect(p, t) ==
    /\ At(p, t, "connect")
    /\ dialing' = [dialing EXCEPT ![p] = FALSE]
    /\ IF target[p] # Nobody
       THEN /\ links' = Append(Closed(sock[p], p),
                               [from |-> p, to |-> t.arg, open |-> {p, t.arg},
                                taken |-> FALSE, in |-> [r \in {p, t.arg} |-> << >>]])
            /\ sock' = [sock EXCEPT ![p] = Len(links) + 1]
            /\ online' = [online EXCEPT ![p] = TRUE]
            /\ todo' = After(p, t, {})
       ELSE /\ links' = Closed(sock[p], p)
            /\ sock' = [sock EXCEPT ![p] = Fresh]
            /\ online' = [online EXCEPT ![p] = FALSE]
            /\ todo' = Drop(p, t)
    /\ UNCHANGED <<status, candidate, target, key, reading, readers, stateVars,
                   engine, windowVars, bounds, mishaps, early>>

Unconnected(p, t) ==
    /\ At(p, t, "unconnected")
    /\ online' = [online EXCEPT ![p] = FALSE]
    /\ dialing' = [dialing EXCEPT ![p] = FALSE]
    /\ todo' = After(p, t, {})
    /\ UNCHANGED <<status, candidate, sock, target, key, threadVars, stateVars,
                   engine, windowVars, bounds, mishaps, early>>

\* startTcpListen: after a TLS exchange the next connection is accepted, and
\* closed if it is not the candidate's.
Accept(p, c) ==
    /\ status[p] = "tls"
    /\ links[c].to = p /\ ~links[c].taken
    /\ \A t \in BagToSet(todo[p]) : t.steps[Len(t.steps)] # "established"
    /\ \A d \in 1 .. c - 1 : links[d].to = p => links[d].taken
    /\ IF links[c].from = candidate[p]
       THEN /\ links' = [links EXCEPT ![c].taken = TRUE]
            /\ sock' = [sock EXCEPT ![p] = c]
            /\ online' = [online EXCEPT ![p] = TRUE]
            /\ Publish(p, {Accepted(c)})
       ELSE /\ links' = [Closed(c, p) EXCEPT ![c].taken = TRUE]
            /\ UNCHANGED <<sock, online, todo>>
    /\ UNCHANGED <<status, candidate, dialing, target, key, reading, readers,
                   stateVars, engine, windowVars, bounds, mishaps, early>>

Establish(p, t) ==
    /\ At(p, t, "established")
    /\ status' = [status EXCEPT ![p] = "tcp"]
    /\ todo' = After(p, t, {})
    /\ UNCHANGED <<candidate, sock, online, dialing, target, key, threadVars,
                   stateVars, engine, windowVars, bounds, mishaps, early>>

\* recvMsg starts a receiving thread; one that is still running stays.  It
\* throws where there is no connection.
RecvMsg(p, t) ==
    /\ At(p, t, "recvMsg")
    /\ IF online[p]
       THEN /\ reading' = [reading EXCEPT ![p] = TRUE]
            /\ readers' = [readers EXCEPT ![p] = BagAdd(@, sock[p])]
            /\ todo' = After(p, t, {})
       ELSE todo' = Drop(p, t) /\ UNCHANGED <<reading, readers>>
    /\ UNCHANGED <<driverVars, links, stateVars, engine, windowVars, bounds,
                   mishaps, early>>

\* resetConnection.  connect_status stays as it is.
Reset(p, t) ==
    /\ At(p, t, "reset")
    /\ links' = IF online[p] THEN Closed(sock[p], p) ELSE links
    /\ dialing' = [dialing EXCEPT ![p] = @ /\ ~online[p]]
    /\ reading' = [reading EXCEPT ![p] = FALSE]
    /\ sock' = [sock EXCEPT ![p] = Nobody]
    /\ candidate' = [candidate EXCEPT ![p] = Nobody]
    /\ target' = [target EXCEPT ![p] = Nobody]
    /\ status' = [status EXCEPT ![p] = "waiting"]
    /\ mishaps' = mishaps
                     \cup (IF Beginning(p) THEN {"beginning"} ELSE {})
                     \cup (IF t = CancelConnRequest /\ connected[p]
                           THEN {"accept"} ELSE {})
    /\ todo' = After(p, t, {})
    /\ UNCHANGED <<online, key, readers, stateVars, engine, windowVars, bounds,
                   early>>

---------------------------------------------------------------------------
(* Messages. *)

Types == {"request", "accept", "reject", "cancel", "ready"}

\* sendMsg encrypts with the key at hand and writes to the socket at hand, if
\* there is one.  A request follows setCurrentTargetDeviceIP.
Send(p, t, type) ==
    LET c == sock[p]
        reaches == online[p] /\ IsLink(c) /\ links[c].open = {p, Other(c, p)}
    IN
    /\ At(p, t, type)
    /\ links' = IF reaches
                THEN [links EXCEPT ![c].in[Other(c, p)] =
                                       Append(@, [type |-> type, key |-> key[p]])]
                ELSE links
    /\ partner' = IF type = "request" THEN [partner EXCEPT ![p] = t.arg] ELSE partner
    /\ mishaps' = mishaps \cup (IF type = "accept" /\ ~reaches THEN {"accept"} ELSE {})
                          \cup (IF type = "cancel" /\ Requesting(p) THEN {"order"} ELSE {})
    /\ todo' = After(p, t, {})
    /\ UNCHANGED <<driverVars, reading, readers, connected, ids, engine,
                   windowVars, bounds, early>>

\* The handlers that JsonParser publishes, and what the window does.
Handlers(type) ==
    CASE type = "accept" -> {HaveAccept}
      [] type = "reject" -> {HaveReject}
      [] type = "cancel" -> {CancelConnRequest}
      [] type = "ready"  -> {InitFileSenders}
      [] OTHER -> {}

Show(p, c, type) ==
    /\ ui' = [ui EXCEPT ![p] = CASE type = "accept" -> "connected"
                                 [] type = "reject" -> "idle"
                                 [] OTHER -> @]
    /\ asked' = [asked EXCEPT ![p] = CASE type = "request" -> TRUE
                                       [] type = "cancel" -> FALSE
                                       [] OTHER -> @]
    /\ partner' = IF type = "request"
                  THEN [partner EXCEPT ![p] = Other(c, p)] ELSE partner

\* A receiving thread takes the next message.  One in another key fails to
\* decrypt, and JsonParser throws at it.
Parse(p, c) ==
    /\ c \in BagToSet(readers[p]) /\ IsLink(c)
    /\ reading[p] /\ p \in links[c].open
    /\ links[c].in[p] # << >>
    /\ LET m == Head(links[c].in[p]) IN
       /\ links' = [links EXCEPT ![c].in[p] = Tail(@)]
       /\ IF m.key = key[p]
          THEN Publish(p, Handlers(m.type)) /\ Show(p, c, m.type)
          ELSE UNCHANGED <<todo, ui, asked, partner>>
    /\ UNCHANGED <<driverVars, reading, readers, connected, ids, engine, bounds,
                   mishaps, early>>

\* The peer has closed: onConnClosed in the receiving thread.
SeesEnd(p, c) ==
    /\ c \in BagToSet(readers[p]) /\ IsLink(c)
    /\ reading[p] /\ p \in links[c].open
    /\ links[c].in[p] = << >> /\ Other(c, p) \notin links[c].open
    /\ readers' = [readers EXCEPT ![p] = BagRemove(@, c)]
    /\ ui' = [ui EXCEPT ![p] = IF @ = "connected" THEN "idle" ELSE @]
    /\ Publish(p, {ConnClosed})
    /\ UNCHANGED <<driverVars, reading, links, stateVars, engine, asked, bounds,
                   mishaps, early>>

\* A thread whose flag is cleared ends.  Otherwise it calls delegateRecv with
\* the socket of the moment: after a callback, and when its socket was closed
\* under it, an error that is only logged.
ReaderStops(p, c) ==
    /\ c \in BagToSet(readers[p]) /\ ~reading[p]
    /\ readers' = [readers EXCEPT ![p] = BagRemove(@, c)]
    /\ UNCHANGED <<driverVars, reading, links, todo, stateVars, engine,
                   windowVars, bounds, mishaps, early>>

ReaderTurns(p, c) ==
    /\ c \in BagToSet(readers[p]) /\ reading[p]
    /\ c # sock[p] /\ (IsLink(c) => p \notin links[c].open)
    /\ readers' = [readers EXCEPT ![p] = BagAdd(BagRemove(@, c), sock[p])]
    /\ UNCHANGED <<driverVars, reading, links, todo, stateVars, engine,
                   windowVars, bounds, mishaps, early>>

Again(p, t) ==
    /\ At(p, t, "again")
    /\ readers' = IF reading[p] THEN [readers EXCEPT ![p] = BagAdd(@, sock[p])]
                  ELSE readers
    /\ todo' = After(p, t, {})
    /\ UNCHANGED <<driverVars, reading, links, stateVars, engine, windowVars,
                   bounds, mishaps, early>>

---------------------------------------------------------------------------
(* NetworkController's other steps, and the file engine. *)

\* setConnectStatus, with setIdBegin(Low) where a connection was lost; then
\* /file/close_FileSyncCore where a session has ended.
SetStatus(p, t) ==
    /\ \E step \in {"statusOn", "statusOff", "close", "lost"} :
          /\ At(p, t, step)
          /\ connected' = [connected EXCEPT ![p] = step = "statusOn"]
          /\ ids' = IF step = "lost" THEN [ids EXCEPT ![p] = "low"] ELSE ids
          /\ todo' = After(p, t, IF step \in {"close", "lost"} THEN {Stop} ELSE {})
    /\ UNCHANGED <<driverVars, threadVars, partner, engine, windowVars, bounds,
                   mishaps, early>>

\* setIdBegin, and /file/initialize_FileSyncCore.
PublishEngine(p, t) ==
    /\ \E step \in {"initHigh", "initLow"} :
          /\ At(p, t, step)
          /\ ids' = [ids EXCEPT ![p] = IF step = "initHigh" THEN "high" ELSE "low"]
    /\ todo' = After(p, t, {Start(partner[p])})
    /\ UNCHANGED <<driverVars, threadVars, connected, partner, engine,
                   windowVars, bounds, mishaps, early>>

\* Mutant: the engine announces itself before it listens.
StartEngineEager(p, t) ==
    /\ \/ /\ At(p, t, "listen")
          /\ engine' = [engine EXCEPT ![p].addr = t.arg]
          /\ todo' = After(p, t, {SendInitFileReceiverDone})
       \/ /\ At(p, t, "started")
          /\ engine' = [engine EXCEPT ![p].listening = TRUE, ![p].started = TRUE]
          /\ todo' = After(p, t, {})
    /\ UNCHANGED <<driverVars, threadVars, stateVars, windowVars, bounds,
                   mishaps, early>>

\* FileSyncEngine::start takes the address and listens, which it announces;
\* is_start comes last.
StartEngine(p, t) ==
    /\ \/ /\ At(p, t, "listen")
          /\ engine' = [engine EXCEPT ![p].addr = t.arg, ![p].listening = TRUE]
          /\ todo' = After(p, t, {SendInitFileReceiverDone})
       \/ /\ At(p, t, "started")
          /\ engine' = [engine EXCEPT ![p].started = TRUE]
          /\ todo' = After(p, t, {})
    /\ UNCHANGED <<driverVars, threadVars, stateVars, windowVars, bounds,
                   mishaps, early>>

\* initFileSenders connects to the address of the last start: none before the
\* first, where std::stoi throws.
StartSenders(p, t) ==
    LET q == engine[p].addr IN
    /\ At(p, t, "initFileSenders")
    /\ engine' = [engine EXCEPT ![p].senders =
                     @ \/ (q # Nobody /\ engine[q].listening)]
    /\ early' = IF ~engine[p].listening THEN early \cup {p} ELSE early
    /\ todo' = After(p, t, {})
    /\ UNCHANGED <<driverVars, threadVars, stateVars, windowVars, bounds,
                   mishaps>>

\* FileSyncEngine::stop does nothing before is_start.
StopEngine(p, t) ==
    /\ At(p, t, "stop")
    /\ engine' = IF engine[p].started
                 THEN [engine EXCEPT ![p] = [Off EXCEPT !.addr = engine[p].addr]]
                 ELSE engine
    /\ mishaps' = Noting(Beginning(p), "beginning")
    /\ todo' = After(p, t, {})
    /\ UNCHANGED <<driverVars, threadVars, stateVars, windowVars, bounds, early>>

---------------------------------------------------------------------------
User(p) ==
    \/ \E q \in Peers : UserConnects(p, q)
    \/ UserCancels(p) \/ UserAnswers(p) \/ UserDisconnects(p)

Step(p, t) ==
    \/ Dial(p, t) \/ Exchange(p, t) \/ ExchangeAborted(p, t) \/ Refused(p, t)
    \/ ExchangeBreaks(p, t)
    \/ Connect(p, t) \/ Unconnected(p, t)
    \/ Establish(p, t) \/ RecvMsg(p, t) \/ Reset(p, t)
    \/ (\E type \in Types : Send(p, t, type))
    \/ Again(p, t) \/ SetStatus(p, t) \/ PublishEngine(p, t)
    \/ StartEngine(p, t) \/ StartSenders(p, t) \/ StopEngine(p, t)

Thread(p) ==
    \/ \E t \in BagToSet(todo[p]) : Step(p, t)
    \/ \E c \in DOMAIN links :
          Accept(p, c) \/ Parse(p, c) \/ SeesEnd(p, c)
    \/ \E c \in BagToSet(readers[p]) : ReaderStops(p, c) \/ ReaderTurns(p, c)

Next == \E p \in Peers : User(p) \/ Thread(p)

Spec == Init /\ [][Next]_vars

=============================================================================
