-------------------------- MODULE SessionInvariant --------------------------
(***************************************************************************)
(* The inductive invariant of Session: what is true of every peer and of   *)
(* every link at every step, as long as nothing has got in the way of the  *)
(* sessions.                                                               *)
(*                                                                         *)
(* A handler that is under way has promised what its later steps will do.  *)
(* So the invariant speaks of the tasks as much as of the variables: a     *)
(* peer is connected, or a task of its own is about to set connected; a    *)
(* request was shown, or is in a message, or a task is about to send it.   *)
(***************************************************************************)
EXTENDS Session

-----------------------------------------------------------------------------
(* Tasks, messages and links.                                              *)

\* A bag counts its elements from one up, ...
BagOK(B) == \A x \in DOMAIN B : B[x] \in Nat /\ B[x] > 0
\* ... and is a function.
IsFcn(B) == B = [x \in DOMAIN B |-> B[x]]

\* What handlers are made of: the steps that each of them still has to make,
\* with those of the accepting thread.
Plans == {<<"dial", "exchange", "connect", "recvMsg", "request">>,
          <<"exchange", "connect", "recvMsg", "request">>,
          <<"connect", "recvMsg", "request">>, <<"recvMsg", "request">>, <<"request">>,
          <<"accept", "initHigh", "statusOn">>, <<"initHigh", "statusOn">>,
          <<"initLow", "statusOn">>, <<"statusOn">>,
          <<"reject", "reset", "statusOff">>, <<"reset", "statusOff">>, <<"statusOff">>,
          <<"cancel", "reset">>, <<"reset">>,
          <<"reset", "close">>, <<"close">>,
          <<"reset", "lost", "unconnected">>, <<"lost", "unconnected">>, <<"unconnected">>,
          <<"reset", "lost", "again">>, <<"lost", "again">>, <<"again">>,
          <<"ready">>, <<"recvMsg", "established">>, <<"established">>,
          <<"listen", "started">>, <<"started">>, <<"stop">>, <<"initFileSenders">>}

\* A task is known by the step it is at, the step it ends with and its argument.
Aim(t) == t.steps[Len(t.steps)]
JobOf(t) == <<Head(t.steps), Aim(t), t.arg>>

\* What tasks with that aim are about: the peer that is asked, the link that was
\* accepted, the peer the engine works with.
Args(aim) == CASE aim = "request" -> Peers
               [] aim = "established" -> Nat
               [] aim = "started" -> Peers \cup {Nobody}
               [] OTHER -> {Nobody}

Tasks == {t \in [steps : Plans, arg : Peers \cup Nat \cup {Nobody}] : t.arg \in Args(Aim(t))}

\* A job: the step a task is at, what the task is for, and its argument.
Jobs(p) == {JobOf(t) : t \in BagToSet(todo[p])}
Doing(p, step, aim, arg) == <<step, aim, arg>> \in Jobs(p)

\* Tasks of which there is one at a time.
Single(t) == \/ Aim(t) = "request" /\ Head(t.steps) # "dial"
             \/ Head(t.steps) \in {"accept", "reject"}
             \/ Aim(t) = "established"

\* What is left of the handlers of each peer.
TodoOK == /\ DOMAIN todo = Peers
          /\ \A p \in Peers : BagOK(todo[p]) /\ BagToSet(todo[p]) \subseteq Tasks

Once(p) == \A t \in BagToSet(todo[p]) : Single(t) => todo[p][t] = 1

\* The messages on their way to one end of a link.
Message == [type : Types, key : Nat]

Holds(s, type) == \E i \in DOMAIN s : s[i].type = type
AtMostOne(s, type) ==
    \A i, j \in DOMAIN s : s[i].type = type /\ s[j].type = type => i = j
Keyed(s, k) == \A i \in DOMAIN s : s[i].key = k
Only(s, types) == \A i \in DOMAIN s : s[i].type \in types
\* No request comes after a cancel.
InOrder(s) ==
    \A i, j \in DOMAIN s : s[i].type = "cancel" /\ s[j].type = "request" => j < i

\* Links: the peer that made the connection, the peer that accepts it, the ends
\* that are still open, and what an end has to read.
From(c) == links[c].from
To(c) == links[c].to
Open(c) == links[c].open
Taken(c) == links[c].taken
In(c, p) == links[c].in[p]

Link == [from : Peers, to : Peers, open : SUBSET Peers, taken : BOOLEAN,
         in : UNION {[ends -> Seq(Message)] : ends \in SUBSET Peers}]

LinksOK ==
    /\ links \in Seq(Link)
    /\ \A c \in DOMAIN links :
          /\ From(c) # To(c)
          /\ Open(c) \subseteq {From(c), To(c)}
          /\ DOMAIN links[c].in = {From(c), To(c)}

\* The life of an engine.
Engine == [addr : Peers \cup {Nobody}, listening : BOOLEAN, started : BOOLEAN,
           senders : BOOLEAN]

\* No peer connects to itself.
TasksOf(p) == {t \in Tasks : Aim(t) = "request" => t.arg # p}
SelfOK == \A p \in Peers : BagToSet(todo[p]) \subseteq TasksOf(p)

\* What the receiving threads read.
ReadersOK ==
    /\ DOMAIN readers = Peers
    /\ \A p \in Peers : /\ BagOK(readers[p])
                        /\ IsFcn(readers[p])
                        /\ BagToSet(readers[p]) \subseteq DOMAIN links \cup {Fresh, Nobody}

\* The type of every variable.
TypeOK ==
    /\ status \in [Peers -> {"waiting", "tls", "tcp"}]
    /\ candidate \in [Peers -> Peers \cup {Nobody}]
    /\ sock \in [Peers -> DOMAIN links \cup {Fresh, Nobody}]
    /\ online \in [Peers -> BOOLEAN] /\ dialing \in [Peers -> BOOLEAN]
    /\ target \in [Peers -> Peers \cup {Nobody}]
    /\ key \in [Peers -> Nat]
    /\ reading \in [Peers -> BOOLEAN]
    /\ ReadersOK
    /\ LinksOK
    /\ TodoOK /\ SelfOK
    /\ connected \in [Peers -> BOOLEAN] /\ ids \in [Peers -> {"low", "high"}]
    /\ partner \in [Peers -> Peers \cup {Nobody}]
    /\ engine \in [Peers -> Engine]
    /\ ui \in [Peers -> {"idle", "asking", "connected"}] /\ asked \in [Peers -> BOOLEAN]
    /\ exchanges \in Nat /\ requests \in Nat
    /\ early \subseteq Peers

-----------------------------------------------------------------------------
(* What a peer is about to do.                                             *)

\* A task about nobody.
Runs(p, step, aim) == Doing(p, step, aim, Nobody)

\* A request that p has begun to make of q: the driver is dialling, or has
\* dialled, and the request is not sent.
Asks(p, q) == \/ Doing(p, "exchange", "request", q) \/ Doing(p, "connect", "request", q)
              \/ Doing(p, "recvMsg", "request", q) \/ Doing(p, "request", "request", q)
Begun(p) == \E q \in Peers : Asks(p, q)
ToDial(p) == \E q \in Peers : Doing(p, "dial", "request", q)
\* p's accepting thread is done with link c only after these steps.
Adopts(p, c) == \/ Doing(p, "recvMsg", "established", c)
                \/ Doing(p, "established", "established", c)
\* The engine is about to start.
Starts(p, q) == \/ Doing(p, "listen", "started", q) \/ Doing(p, "started", "started", q)
Starting(p) == \E q \in Peers \cup {Nobody} : Starts(p, q)
\* p agrees to a session.
Agrees(p) == \/ Runs(p, "accept", "statusOn") \/ Runs(p, "initHigh", "statusOn")
             \/ Runs(p, "initLow", "statusOn") \/ Runs(p, "statusOn", "statusOn")
\* p is to reset its driver: after its user's cancel, and otherwise.
TakesBack(p) == Runs(p, "cancel", "reset")
Leaves(p) == \/ Runs(p, "reset", "reset")
             \/ Runs(p, "reject", "statusOff") \/ Runs(p, "reset", "statusOff")
             \/ Runs(p, "reset", "close") \/ Runs(p, "reset", "unconnected")
             \/ Runs(p, "reset", "again")
Resets(p) == TakesBack(p) \/ Leaves(p)
\* p has reset its driver and is to close the session.
Closes(p) == \/ Runs(p, "close", "close") \/ Runs(p, "lost", "unconnected")
             \/ Runs(p, "lost", "again")
Ended(p) == \/ Closes(p) \/ Runs(p, "statusOff", "statusOff")
            \/ Runs(p, "unconnected", "unconnected") \/ Runs(p, "again", "again")
            \/ Runs(p, "stop", "stop")

\* The driver's socket is a link, one that the peer made or one that it
\* accepted; the receiving threads read ...
Uses(p) == sock[p] \in DOMAIN links
Calls(p) == Uses(p) /\ From(sock[p]) = p
Takes(p) == Uses(p) /\ To(sock[p]) = p
Reads(p) == BagToSet(readers[p])

\* p is to dial although it is busy or is to reset its driver: this will not
\* end undisturbed.
Doomed(p) ==
    ToDial(p) /\ (Busy(p) \/ Resets(p) \/ Closes(p) \/ Runs(p, "stop", "stop"))

-----------------------------------------------------------------------------
(* The parts of the invariant.                                             *)

\* An end of a link is open as long as its peer uses it, or has yet to accept
\* it.
LinkInv(c) ==
    /\ From(c) \in Open(c) <=> sock[From(c)] = c
    /\ To(c) \in Open(c) <=> (sock[To(c)] = c \/ ~Taken(c))
    /\ sock[To(c)] = c => Taken(c)

\* A peer uses links of its own; it waits for TLS requests while it calls, and
\* after a reset has nothing.
SockInv(p) ==
    /\ Uses(p) => p \in {From(sock[p]), To(sock[p])} /\ online[p]
    /\ status[p] = "tcp" => Takes(p)
    /\ Calls(p) \/ sock[p] = Fresh \/ Ended(p) => status[p] = "waiting"
    /\ Ended(p) => sock[p] = Nobody

\* Receiving threads read the link that is used, or are about to find that
\* theirs has ended; a link that is used is read, or is about to be.
ReadInv(p) ==
    /\ reading[p] => Uses(p)
    /\ sock[p] = Fresh => Reads(p) = {}
    /\ status[p] # "waiting" /\ sock[p] = Nobody => Reads(p) = {}
    /\ Uses(p) => Reads(p) \subseteq {sock[p]}
    /\ Uses(p) /\ reading[p] => sock[p] \in Reads(p) \/ Runs(p, "reset", "again")
    /\ Uses(p) /\ ~reading[p] =>
          \/ \E q \in Peers : Doing(p, "recvMsg", "request", q)
          \/ Doing(p, "recvMsg", "established", sock[p])

\* A request that is being made is made once, on the socket that the driver
\* opened for it, for a user who waits for the answer or has taken it back.
AskInv(p) ==
    /\ Once(p)
    /\ sock[p] = Fresh => /\ Begun(p) \/ Runs(p, "reset", "unconnected")
                          /\ ~Runs(p, "reject", "statusOff") /\ ~Runs(p, "reset", "statusOff")
                          /\ ~Runs(p, "reset", "close") /\ ~Runs(p, "reset", "again")
    /\ \A q \in Peers :
          Doing(p, "exchange", "request", q) \/ Doing(p, "connect", "request", q) =>
              sock[p] = Fresh /\ dialing[p] /\ target[p] = q /\ p # q
    /\ \A q \in Peers :
          Doing(p, "recvMsg", "request", q) \/ Doing(p, "request", "request", q) =>
              Calls(p) /\ To(sock[p]) = q
    /\ ~\E q \in Peers : Doing(p, "exchange", "request", q) /\ Doing(p, "connect", "request", q)
    /\ ~\E q \in Peers : Doing(p, "recvMsg", "request", q) /\ Doing(p, "request", "request", q)
    /\ Begun(p) => ~Leaves(p) /\ (ui[p] = "asking" \/ TakesBack(p))

\* What is done, shown and answered only where a link is used, and at which end
\* of it.
PlaceInv(p) ==
    /\ ~Uses(p) => ~Agrees(p) /\ ~Starting(p) /\ ~asked[p] /\ ui[p] # "connected"
    /\ \A c \in DOMAIN links : Adopts(p, c) => sock[p] = c /\ Takes(p) /\ status[p] = "tls"
    /\ \A c \in Nat : Adopts(p, c) => c \in DOMAIN links
    /\ ~\E c \in Nat : /\ Doing(p, "recvMsg", "established", c)
                      /\ Doing(p, "established", "established", c)
    /\ Runs(p, "accept", "statusOn") \/ Runs(p, "initHigh", "statusOn") \/ asked[p] => Takes(p)
    /\ Runs(p, "initLow", "statusOn") => Calls(p)
    /\ Runs(p, "reject", "statusOff") => Takes(p) \/ sock[p] = Nobody
    /\ Takes(p) => ~TakesBack(p) /\ ~Begun(p) /\ ui[p] # "asking"
    /\ Runs(p, "reset", "unconnected") => ~Uses(p) /\ ui[p] # "asking"

\* The TLS exchange and the connection that follows it.
TlsInv(q) ==
    /\ \A p \in Peers : Doing(p, "connect", "request", q) =>
          /\ status[q] = "tls" /\ sock[q] = Nobody /\ candidate[q] = p /\ key[p] = key[q]
          /\ \A c \in DOMAIN links : To(c) = q => Taken(c)
    /\ \A c \in DOMAIN links : To(c) = q /\ ~Taken(c) =>
          /\ status[q] = "tls" /\ sock[q] = Nobody /\ candidate[q] = From(c)
          /\ \A d \in DOMAIN links : To(d) = q /\ ~Taken(d) => d = c
    /\ status[q] = "tls" /\ Uses(q) => Adopts(q, sock[q])
    /\ status[q] = "tls" /\ ~Uses(q) =>
          /\ sock[q] = Nobody /\ candidate[q] \in Peers
          /\ \/ Doing(candidate[q], "connect", "request", q)
             \/ \E c \in DOMAIN links : To(c) = q /\ ~Taken(c)
          /\ ~Begun(q) /\ ~Resets(q) /\ ui[q] = "idle"

\* Both ends of an open link have one key, and what is sent is in that key.
KeyInv(c) ==
    /\ Open(c) = {From(c), To(c)} => key[From(c)] = key[To(c)]
    /\ \A x \in Open(c) : Keyed(In(c, x), key[x])
    /\ Only(In(c, From(c)), {"accept", "reject", "ready"})
    /\ Only(In(c, To(c)), {"request", "cancel", "ready"})

\* The session as one peer sees it: connected is set while a link is used, and
\* until the session is closed.
ConnInv(p) ==
    /\ connected[p] => Uses(p) \/ Closes(p)
    /\ Runs(p, "statusOff", "statusOff") \/ Runs(p, "stop", "stop") => ~connected[p]
    /\ Runs(p, "reject", "statusOff") \/ Runs(p, "reset", "statusOff") =>
          Uses(p) \/ ~connected[p]
    /\ Runs(p, "reset", "close") /\ Uses(p) => connected[p] \/ Agrees(p)

\* The engine runs while connected is set, or is about to be started or stopped,
\* and knows the other end; ids are counted from different ends.
EngineInv(p) ==
    /\ connected[p] \/ Runs(p, "statusOn", "statusOn") => engine[p].started \/ Starting(p)
    /\ engine[p].started \/ Starting(p) =>
          connected[p] \/ Runs(p, "statusOn", "statusOn") \/ Closes(p) \/ Runs(p, "stop", "stop")
    /\ engine[p].listening =>
          engine[p].started \/ \E q \in Peers \cup {Nobody} : Doing(p, "started", "started", q)
    /\ engine[p].started \/ (\E q \in Peers \cup {Nobody} : Doing(p, "started", "started", q)) =>
          engine[p].listening
    /\ connected[p] \/ Runs(p, "statusOn", "statusOn") =>
          (Takes(p) => ids[p] = "high") /\ (Calls(p) => ids[p] = "low")
    /\ Calls(p) /\ ~Begun(p) => partner[p] = To(sock[p])
    /\ Takes(p) /\ (asked[p] \/ Runs(p, "accept", "statusOn") \/ Runs(p, "initHigh", "statusOn")) =>
          partner[p] = From(sock[p])
    /\ \A q \in Peers \cup {Nobody} :
          Doing(p, "listen", "started", q) => Uses(p) /\ q = Other(sock[p], p)
    /\ engine[p].listening /\ Uses(p) => engine[p].addr = Other(sock[p], p)

\* What the window shows is what the session is, or what the handlers that were
\* published will make of it.
WindowInv(p) ==
    /\ ui[p] = "connected" => connected[p] \/ Agrees(p)
    /\ connected[p] \/ Agrees(p) =>
          \/ ui[p] = "connected" \/ Closes(p)
          \/ Runs(p, "reset", "close") \/ Runs(p, "reset", "again")
    /\ Runs(p, "reset", "close") \/ Runs(p, "reset", "again") \/ Runs(p, "reset", "statusOff") =>
          ui[p] # "connected"
    /\ ui[p] = "asking" => (ToDial(p) \/ Begun(p) \/ Calls(p)) /\ ~Resets(p)
    /\ Calls(p) => ui[p] # "idle" \/ Resets(p)
    /\ asked[p] => ~Resets(p)
    /\ ToDial(p) => ui[p] = "asking"
    /\ Closes(p) => ui[p] # "connected"

-----------------------------------------------------------------------------
(* A request and its answer, on their way between the ends of a link.      *)

\* Where the request made on link c, and its answer, have got to.
Unsent(c) == sock[From(c)] = c /\ Begun(From(c))
Underway(c) == Holds(In(c, To(c)), "request")
Shown(c) == sock[To(c)] = c /\ asked[To(c)]
Accepting(c) == sock[To(c)] = c /\ Runs(To(c), "accept", "statusOn")
Rejecting(c) == sock[To(c)] = c /\ Runs(To(c), "reject", "statusOff")
Refusal(c) == \/ Holds(In(c, From(c)), "reject")
              \/ (sock[From(c)] = c /\ Runs(From(c), "reset", "statusOff"))
              \/ (sock[To(c)] = c /\ Runs(To(c), "reset", "statusOff"))
AcceptSent(c) == Holds(In(c, From(c)), "accept")
AcceptHeld(c) == /\ sock[From(c)] = c
                 /\ \/ Runs(From(c), "initLow", "statusOn") \/ Runs(From(c), "statusOn", "statusOn")
                    \/ connected[From(c)]
Agreeing(c) == /\ sock[To(c)] = c
               /\ \/ Runs(To(c), "initHigh", "statusOn") \/ Runs(To(c), "statusOn", "statusOn")
                  \/ connected[To(c)]

\* They are in one place at a time.
PhaseInv(c) ==
    /\ Unsent(c) => /\ ~Underway(c) /\ ~Shown(c) /\ ~Accepting(c) /\ ~Rejecting(c)
                    /\ ~Refusal(c) /\ ~AcceptSent(c) /\ ~AcceptHeld(c) /\ ~Agreeing(c)
    /\ Underway(c) => /\ ~Shown(c) /\ ~Accepting(c) /\ ~Rejecting(c)
                      /\ ~Refusal(c) /\ ~AcceptSent(c) /\ ~AcceptHeld(c) /\ ~Agreeing(c)
    /\ Shown(c) => /\ ~Accepting(c) /\ ~Rejecting(c)
                   /\ ~Refusal(c) /\ ~AcceptSent(c) /\ ~AcceptHeld(c) /\ ~Agreeing(c)
    /\ Accepting(c) => /\ ~Rejecting(c)
                       /\ ~Refusal(c) /\ ~AcceptSent(c) /\ ~AcceptHeld(c) /\ ~Agreeing(c)
    /\ Rejecting(c) => /\ ~Refusal(c) /\ ~AcceptSent(c) /\ ~AcceptHeld(c) /\ ~Agreeing(c)
    /\ Refusal(c) => ~AcceptSent(c) /\ ~AcceptHeld(c) /\ ~Agreeing(c)
    /\ AcceptSent(c) => ~AcceptHeld(c)
    /\ AtMostOne(In(c, To(c)), "request") /\ AtMostOne(In(c, From(c)), "accept")

\* What one end does reaches the other: an acceptance, ...
BothInv(c) ==
    /\ (AcceptSent(c) \/ AcceptHeld(c)) /\ sock[To(c)] = c => Agreeing(c)
    /\ Agreeing(c) /\ sock[From(c)] = c => AcceptSent(c) \/ AcceptHeld(c)
\* an end that waits is answered, ...
AnswerInv(c) ==
    /\ Open(c) = {From(c), To(c)} =>
          \/ Unsent(c) \/ Underway(c) \/ Shown(c) \/ Accepting(c) \/ Agreeing(c)
          \/ Resets(From(c)) \/ (sock[To(c)] = c /\ Resets(To(c)))
          \/ Holds(In(c, To(c)), "cancel") \/ Holds(In(c, From(c)), "reject")
    /\ To(c) \notin Open(c) /\ sock[From(c)] = c /\ ui[From(c)] = "asking" =>
          AcceptSent(c) \/ Holds(In(c, From(c)), "reject")
\* a request that was taken back has been followed by its cancel, ...
CancelInv(c) ==
    /\ Holds(In(c, To(c)), "cancel") \/ (sock[To(c)] = c /\ Runs(To(c), "reset", "reset")) =>
          sock[From(c)] # c \/ Runs(From(c), "reset", "reset")
    /\ (Underway(c) \/ Shown(c)) /\ To(c) \in Open(c)
          /\ (From(c) \notin Open(c) \/ Runs(From(c), "reset", "reset")) =>
          Holds(In(c, To(c)), "cancel")
    /\ InOrder(In(c, To(c)))
    /\ Unsent(c) => /\ To(c) \in Open(c) /\ ~Holds(In(c, To(c)), "cancel")
                    /\ ~(sock[To(c)] = c /\ Resets(To(c)))
    /\ sock[To(c)] = c /\ Runs(To(c), "reset", "reset") => ~Underway(c)
\* and so has one that was rejected.
RejectInv(c) ==
    sock[To(c)] = c /\ Runs(To(c), "reset", "statusOff") /\ sock[From(c)] = c =>
        Holds(In(c, From(c)), "reject") \/ Resets(From(c))
\* Nothing has come from an end that has not taken the link, ...
UntakenInv(c) ==
    ~Taken(c) => In(c, From(c)) = << >> /\ ~AcceptHeld(c) /\ ~Refusal(c)
\* and nothing is to come where the end of the link was seen.
LastInv(c) ==
    \A p \in {From(c), To(c)} :
        sock[p] = c /\ Runs(p, "reset", "again") =>
            In(c, p) = << >> /\ Other(c, p) \notin Open(c)
EndInv(c) == /\ BothInv(c) /\ AnswerInv(c) /\ CancelInv(c)
             /\ RejectInv(c) /\ UntakenInv(c) /\ LastInv(c)

\* An engine that listens has told the other end, or is to.
ReadyInv(c) ==
    early = {} /\ sock[From(c)] = c /\ sock[To(c)] = c =>
        \A x \in {From(c), To(c)} : LET y == Other(c, x) IN
            engine[y].listening =>
                \/ Runs(y, "ready", "ready") \/ Holds(In(c, x), "ready")
                \/ Runs(x, "initFileSenders", "initFileSenders") \/ engine[x].senders

-----------------------------------------------------------------------------
(* The whole.                                                              *)

\* The invariant holds up to the first mishap, and up to the step that makes one
\* inevitable.
Undoomed == mishaps = {} /\ \A p \in Peers : ~Doomed(p)
Core == /\ \A p \in Peers : /\ SockInv(p) /\ ReadInv(p) /\ AskInv(p) /\ PlaceInv(p)
                            /\ TlsInv(p) /\ ConnInv(p) /\ EngineInv(p) /\ WindowInv(p)
        /\ \A c \in DOMAIN links : /\ LinkInv(c) /\ KeyInv(c) /\ PhaseInv(c)
                                   /\ EndInv(c) /\ ReadyInv(c)

\* Inductive together with TypeOK: see SessionLinkProofs.
SessionInv == Undoomed => Core
=============================================================================
