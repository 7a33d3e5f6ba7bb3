------------------------- MODULE SessionLinkProofs --------------------------
(***************************************************************************)
(* What the steps of a peer do to the link that it uses, and the end of    *)
(* the argument: the invariant of SessionInvariant is kept by every step,  *)
(* and gives the properties of SessionProps.                               *)
(*                                                                         *)
(* A request is at one stage of its way at a time. Each end of the link    *)
(* sees a part of it, and a step of that end moves it, or leaves it,       *)
(* where it is.                                                            *)
(***************************************************************************)
EXTENDS SessionStepProofs

-----------------------------------------------------------------------------
(* A step of p keeps what is said of the link that p uses: XLink is about  *)
(* the step that XDoes describes; those of the user and the driver are in  *)
(* SessionProofs.                                                          *)

LEMMA SendCancelLink ==
    ASSUME TypeOK, TypeOK', NEW p \in Peers, NEW c \in DOMAIN links, Local(p), TlsInv(p), OnLink(p),
           SendCancelDoes(p), mishaps' = {}, ~Doomed(p), ~Doomed(p)',
           c = sock[p], NEW q \in Peers, q = Other(c, p), Local(q), ReadyInv(c)
    PROVE  LinkInv(c)' /\ KeyInv(c)' /\ PhaseInv(c)' /\ EndInv(c)' /\ ReadyInv(c)'
<1>1. /\ Runs(p, "accept", "statusOn")' <=> Runs(p, "accept", "statusOn")
      /\ Runs(p, "initHigh", "statusOn")' <=> Runs(p, "initHigh", "statusOn")
      /\ Runs(p, "initLow", "statusOn")' <=> Runs(p, "initLow", "statusOn")
      /\ Runs(p, "statusOn", "statusOn")' <=> Runs(p, "statusOn", "statusOn")
      /\ Runs(p, "cancel", "reset")
      /\ Runs(p, "reset", "reset")'
      /\ Runs(p, "reject", "statusOff")' <=> Runs(p, "reject", "statusOff")
      /\ Runs(p, "reset", "statusOff")' <=> Runs(p, "reset", "statusOff")
      /\ Runs(p, "statusOff", "statusOff")' <=> Runs(p, "statusOff", "statusOff")
      /\ Runs(p, "reset", "close")' <=> Runs(p, "reset", "close")
      /\ Runs(p, "close", "close")' <=> Runs(p, "close", "close")
      /\ Runs(p, "reset", "unconnected")' <=> Runs(p, "reset", "unconnected")
      /\ Runs(p, "lost", "unconnected")' <=> Runs(p, "lost", "unconnected")
      /\ Runs(p, "unconnected", "unconnected")' <=> Runs(p, "unconnected", "unconnected")
      /\ Runs(p, "reset", "again")' <=> Runs(p, "reset", "again")
      /\ Runs(p, "lost", "again")' <=> Runs(p, "lost", "again")
      /\ Runs(p, "again", "again")' <=> Runs(p, "again", "again")
      /\ Runs(p, "stop", "stop")' <=> Runs(p, "stop", "stop")
      /\ Runs(p, "ready", "ready")' <=> Runs(p, "ready", "ready")
      /\ Runs(p, "initFileSenders", "initFileSenders")' <=> Runs(p, "initFileSenders", "initFileSenders")
      /\ \A y : Doing(p, "dial", "request", y)' <=> Doing(p, "dial", "request", y)
      /\ \A y : Doing(p, "exchange", "request", y)' <=> Doing(p, "exchange", "request", y)
      /\ \A y : Doing(p, "connect", "request", y)' <=> Doing(p, "connect", "request", y)
      /\ \A y : Doing(p, "recvMsg", "request", y)' <=> Doing(p, "recvMsg", "request", y)
      /\ \A y : Doing(p, "request", "request", y)' <=> Doing(p, "request", "request", y)
      /\ \A y : Doing(p, "recvMsg", "established", y)' <=> Doing(p, "recvMsg", "established", y)
      /\ \A y : Doing(p, "established", "established", y)' <=> Doing(p, "established", "established", y)
      /\ \A y : Doing(p, "listen", "started", y)' <=> Doing(p, "listen", "started", y)
      /\ \A y : Doing(p, "started", "started", y)' <=> Doing(p, "started", "started", y)
  BY DEF SendCancelDoes, Advances, Runs
<1>2. /\ Begun(p)' <=> Begun(p)
      /\ \A y : Asks(p, y)' <=> Asks(p, y)
      /\ ToDial(p)' <=> ToDial(p)
      /\ \A y : Adopts(p, y)' <=> Adopts(p, y)
      /\ Starting(p)' <=> Starting(p)
      /\ \A y : Starts(p, y)' <=> Starts(p, y)
      /\ Agrees(p)' <=> Agrees(p)
      /\ Closes(p)' <=> Closes(p)
      /\ Ended(p)' <=> Ended(p)
  BY <1>1 DEF Adopts, Agrees, Asks, Begun, Closes, Ended, Starting, Starts, ToDial
<1>3. LinksKept /\ DOMAIN links' = DOMAIN links
  BY DEF SendCancelDoes, LinksKept, Sends
<1>4. /\ Uses(p)' <=> Uses(p)
      /\ Calls(p)' <=> Calls(p)
      /\ Takes(p)' <=> Takes(p)
      /\ Uses(p) => /\ From(sock[p])' = From(sock[p]) /\ To(sock[p])' = To(sock[p])
                    /\ Other(sock[p], p)' = Other(sock[p], p)
  BY <1>3, SocketSame DEF SendCancelDoes
<1>7. PeerFacts(p) /\ JobRules(p) /\ JobRules(p)' /\ Says(p)
  BY PeerIs, JobsAre, EndSays
<1>8. /\ status'[p] \in {"waiting", "tls", "tcp"} /\ sock'[p] \in DOMAIN links' \cup {Fresh, Nobody}
      /\ Fresh # Nobody /\ Fresh \notin DOMAIN links' /\ Nobody \notin DOMAIN links'
      /\ DOMAIN links' \subseteq Nat
      /\ engine'[p].listening \in BOOLEAN /\ engine'[p].started \in BOOLEAN /\ engine'[p].senders \in BOOLEAN
  BY PeerIsNext
<1>9. /\ Once(p) => Once(p)'
      /\ UNCHANGED <<status[p], sock[p], online[p], dialing[p], target[p], reading[p], connected[p], ids[p], partner[p], engine[p], ui[p], asked[p], key[p], candidate[p], Reads(p)>>
  BY DEF SendCancelDoes, Sends
<1>11. /\ ToDial(p) => /\ sock[p] = Nobody /\ status[p] = "waiting"
                      /\ ~Resets(p) /\ ~Closes(p) /\ ~Runs(p, "stop", "stop")
       /\ ToDial(p)' => /\ sock'[p] = Nobody /\ status'[p] = "waiting"
                       /\ ~Resets(p)' /\ ~Closes(p)' /\ ~Runs(p, "stop", "stop")'
  BY DEF Doomed, Busy
<1>5. ~Requesting(p)
  BY DEF SendCancelDoes
<1>6. ~Begun(p) /\ (\A h, y : ~Doing(p, h, "request", y))
  BY <1>5, RequestingIs DEF TypeOK, Begun, Asks
<1>12. /\ q # p /\ Open(c) \subseteq {p, q} /\ sock'[p] = c /\ sock[p] = c /\ Uses(p)
       /\ (From(c) = p /\ To(c) = q) \/ (From(c) = q /\ To(c) = p)
       /\ In(c, p) \in Seq(Message) /\ In(c, q) \in Seq(Message)
       /\ LinkInv(c) /\ KeyInv(c) /\ PhaseInv(c) /\ EndInv(c)
  <2>1. Uses(p) /\ p \in {From(c), To(c)}
    BY DEF Uses, Local, SockInv
  <2> QED
    BY <2>1, <1>9, LinkIs DEF OnLink, TypeOK, Other, From, To
<1>13. /\ sock'[q] = sock[q] /\ key'[q] = key[q] /\ asked'[q] = asked[q] /\ connected'[q] = connected[q]
       /\ ui'[q] = ui[q] /\ engine'[q] = engine[q]
       /\ \A h, l : Runs(q, h, l)' <=> Runs(q, h, l)
       /\ (Begun(q)' <=> Begun(q)) /\ (Resets(q)' <=> Resets(q)) /\ JobRules(q)
  <2>1. Untouched(q) /\ SameKey(q)
    BY <1>12 DEF SendCancelDoes
  <2> QED
    BY <2>1, JobsSame, JobsAre DEF Untouched, SameKey
<1>14. /\ c \in DOMAIN links' /\ From(c)' = From(c) /\ To(c)' = To(c) /\ Open(c)' = Open(c) /\ Taken(c)' = Taken(c)
       /\ (\A r : Other(c, r)' = Other(c, r)) /\ (early' = {} => early = {})
       /\ In(c, p)' = In(c, p)
       /\ In(c, q)' = IF online[p] /\ Open(c) = {p, q} THEN Append(In(c, q), [type |-> "cancel", key |-> key[p]]) ELSE In(c, q)
  <2>1. Kept(c) /\ Open(c)' = Open(c) /\ Taken(c)' = Taken(c) /\ c \in DOMAIN links'
    BY DEF SendCancelDoes, Sends
  <2>2. \A r : Other(c, r)' = Other(c, r)
    BY <2>1 DEF Kept, Other, From, To
  <2>3. IF online[p] /\ Open(c) = {p, q}
        THEN In(c, q)' = Append(In(c, q), [type |-> "cancel", key |-> key[p]]) /\ In(c, p)' = In(c, p)
        ELSE Unmoved(c)
    BY <1>12 DEF SendCancelDoes, Sends
  <2> QED
    BY <1>12, <2>1, <2>2, <2>3 DEF Kept, Unmoved, SendCancelDoes
<1>15. /\ \A ty : Holds(In(c, q)', ty) <=> Holds(In(c, q), ty) \/ (ty = "cancel" /\ online[p] /\ Open(c) = {p, q})
       /\ \A ty : AtMostOne(In(c, q), ty) /\ (ty = "cancel" => ~Holds(In(c, q), ty)) => AtMostOne(In(c, q)', ty)
       /\ \A k : Keyed(In(c, q), k) /\ (online[p] /\ Open(c) = {p, q} => key[p] = k) => Keyed(In(c, q)', k)
       /\ \A types : Only(In(c, q), types) /\ "cancel" \in types => Only(In(c, q)', types)
       /\ InOrder(In(c, q)) /\ ("cancel" = "request" => ~Holds(In(c, q), "cancel")) => InOrder(In(c, q)')
       /\ In(c, q)' = In(c, q) \/ Open(c) = {p, q}
  <2>1. CASE online[p] /\ Open(c) = {p, q}
    <3>1. PICK m \in Message : m.type = "cancel" /\ m.key = key[p] /\ In(c, q)' = Append(In(c, q), m)
      <4>1. [type |-> "cancel", key |-> key[p]] \in Message
        BY DEF TypeOK, Message, Types
      <4> QED
        BY <1>14, <2>1, <4>1
    <3> QED
      BY <1>12, <2>1, <3>1, MessageSent
  <2>2. CASE ~(online[p] /\ Open(c) = {p, q})
    BY <1>14, <2>2
  <2> QED
    BY <2>1, <2>2
<1>16. From(c) = p /\ To(c) = q
  BY <1>1, <1>2, <1>7, <1>9, <1>6, <1>12 DEF PeerFacts, Local, PlaceInv, WindowInv, AskInv, Says, Calls, Takes, TakesBack, Begun, Asks, Adopts
<1>17. LinkInv(c)'
  BY <1>12, <1>13, <1>14 DEF LinkInv
<1>18. KeyInv(c)'
  <2>1. key'[p] = key[p] /\ key'[q] = key[q]
    BY <1>9, <1>13
  <2>2. /\ p \in Open(c) => Keyed(In(c, p)', key[p])
        /\ q \in Open(c) => Keyed(In(c, q)', key[q])
    BY <1>9, <1>12, <1>13, <1>14, <1>15, <1>16 DEF KeyInv
  <2>3. /\ From(c) = p => Only(In(c, p)', {"accept", "reject", "ready"}) /\ Only(In(c, q)', {"request", "cancel", "ready"})
        /\ From(c) = q => Only(In(c, q)', {"accept", "reject", "ready"}) /\ Only(In(c, p)', {"request", "cancel", "ready"})
    BY <1>9, <1>12, <1>13, <1>14, <1>15, <1>16 DEF KeyInv
  <2> QED
    BY <1>12, <1>14, <2>1, <2>2, <2>3, KeyKept
<1>30. CallerView(c, p, q) /\ CallerView(c, p, q)'
  BY <1>16, <1>12, <1>14, Views
<1>31. /\ Unsent(c)' <=> Unsent(c)
       /\ Underway(c)' <=> Underway(c)
       /\ Shown(c)' <=> Shown(c)
       /\ Accepting(c)' <=> Accepting(c)
       /\ Rejecting(c)' <=> Rejecting(c)
       /\ Refusal(c)' <=> Refusal(c)
       /\ AcceptSent(c)' <=> AcceptSent(c)
       /\ AcceptHeld(c)' <=> AcceptHeld(c)
       /\ Agreeing(c)' <=> Agreeing(c)
       /\ online[p]
       /\ ~Unsent(c)
       /\ Runs(p, "reset", "reset")'
  BY <1>1, <1>2, <1>7, <1>9, <1>6, <1>12, <1>13, <1>14, <1>15, <1>16, <1>30 DEF CallerView, Local, PlaceInv, PeerFacts, Says, Calls, Takes, PhaseInv, SockInv
<1>32. PhaseInv(c)'
  BY <1>12, <1>13, <1>14, <1>15, <1>16, <1>30, <1>31 DEF PhaseInv, CallerView
<1>33. BothInv(c)'
  BY <1>1, <1>2, <1>7, <1>9, <1>12, <1>13, <1>14, <1>15, <1>16, <1>31 DEF EndInv, BothInv, LinkInv, JobRules
<1>34. AnswerInv(c)'
  BY <1>1, <1>2, <1>7, <1>9, <1>12, <1>13, <1>14, <1>15, <1>16, <1>31 DEF EndInv, AnswerInv, LinkInv, JobRules
<1>35. CancelInv(c)'
  BY <1>1, <1>2, <1>7, <1>9, <1>12, <1>13, <1>14, <1>15, <1>16, <1>31, <1>30 DEF EndInv, CancelInv, LinkInv, JobRules, CallerView
<1>36. RejectInv(c)'
  BY <1>1, <1>2, <1>7, <1>9, <1>12, <1>13, <1>14, <1>15, <1>16, <1>31 DEF EndInv, RejectInv, LinkInv, JobRules
<1>37. UntakenInv(c)'
  BY <1>1, <1>2, <1>7, <1>9, <1>12, <1>13, <1>14, <1>15, <1>16, <1>31 DEF EndInv, UntakenInv, LinkInv, JobRules
<1>38. LastInv(c)'
  <2>1. /\ sock[p] = c /\ Runs(p, "reset", "again") => In(c, p) = << >> /\ q \notin Open(c)
        /\ sock[q] = c /\ Runs(q, "reset", "again") => In(c, q) = << >> /\ p \notin Open(c)
    <3>1. LastInv(c)
      BY <1>12 DEF EndInv
    <3> QED
      BY <3>1, <1>12, <1>14, LastIs
  <2>2. p \in Open(c)
    BY <1>12 DEF LinkInv
  <2>3. ~(sock'[q] = c /\ Runs(q, "reset", "again")')
    BY <1>13, <2>1, <2>2
  <2>4. sock'[p] = c /\ Runs(p, "reset", "again")' => In(c, p)' = << >> /\ q \notin Open(c)'
    <3>1. Runs(p, "reset", "again")' <=> Runs(p, "reset", "again")
      BY <1>1
    <3> QED
      BY <1>12, <1>14, <2>1, <3>1
  <2> QED
    BY <1>12, <1>14, <2>3, <2>4, LastIs
<1>39. ReadyInv(c)'
  <2>1. early' = {} /\ sock[q] = c /\ Told(c, p, q) => Told(c, p, q)'
    BY <1>1, <1>2, <1>9, <1>12, <1>13, <1>14, <1>15 DEF Told
  <2>2. early' = {} /\ sock[q] = c /\ Told(c, q, p) => Told(c, q, p)'
    BY <1>1, <1>2, <1>9, <1>12, <1>13, <1>14, <1>15 DEF Told
  <2> QED
    BY <2>1, <2>2, <1>12, <1>13, <1>14, ReadyIs
<1> QED
  BY <1>17, <1>18, <1>32, <1>33, <1>34, <1>35, <1>36, <1>37, <1>38, <1>39 DEF EndInv

LEMMA SendReadyLink ==
    ASSUME TypeOK, TypeOK', NEW p \in Peers, NEW c \in DOMAIN links, Local(p), TlsInv(p), OnLink(p),
           SendReadyDoes(p), mishaps' = {}, ~Doomed(p), ~Doomed(p)',
           c = sock[p], NEW q \in Peers, q = Other(c, p), Local(q), ReadyInv(c)
    PROVE  LinkInv(c)' /\ KeyInv(c)' /\ PhaseInv(c)' /\ EndInv(c)' /\ ReadyInv(c)'
<1>1. /\ Runs(p, "accept", "statusOn")' <=> Runs(p, "accept", "statusOn")
      /\ Runs(p, "initHigh", "statusOn")' <=> Runs(p, "initHigh", "statusOn")
      /\ Runs(p, "initLow", "statusOn")' <=> Runs(p, "initLow", "statusOn")
      /\ Runs(p, "statusOn", "statusOn")' <=> Runs(p, "statusOn", "statusOn")
      /\ Runs(p, "cancel", "reset")' <=> Runs(p, "cancel", "reset")
      /\ Runs(p, "reset", "reset")' <=> Runs(p, "reset", "reset")
      /\ Runs(p, "reject", "statusOff")' <=> Runs(p, "reject", "statusOff")
      /\ Runs(p, "reset", "statusOff")' <=> Runs(p, "reset", "statusOff")
      /\ Runs(p, "statusOff", "statusOff")' <=> Runs(p, "statusOff", "statusOff")
      /\ Runs(p, "reset", "close")' <=> Runs(p, "reset", "close")
      /\ Runs(p, "close", "close")' <=> Runs(p, "close", "close")
      /\ Runs(p, "reset", "unconnected")' <=> Runs(p, "reset", "unconnected")
      /\ Runs(p, "lost", "unconnected")' <=> Runs(p, "lost", "unconnected")
      /\ Runs(p, "unconnected", "unconnected")' <=> Runs(p, "unconnected", "unconnected")
      /\ Runs(p, "reset", "again")' <=> Runs(p, "reset", "again")
      /\ Runs(p, "lost", "again")' <=> Runs(p, "lost", "again")
      /\ Runs(p, "again", "again")' <=> Runs(p, "again", "again")
      /\ Runs(p, "stop", "stop")' <=> Runs(p, "stop", "stop")
      /\ Runs(p, "ready", "ready")
      /\ Runs(p, "initFileSenders", "initFileSenders")' <=> Runs(p, "initFileSenders", "initFileSenders")
      /\ \A y : Doing(p, "dial", "request", y)' <=> Doing(p, "dial", "request", y)
      /\ \A y : Doing(p, "exchange", "request", y)' <=> Doing(p, "exchange", "request", y)
      /\ \A y : Doing(p, "connect", "request", y)' <=> Doing(p, "connect", "request", y)
      /\ \A y : Doing(p, "recvMsg", "request", y)' <=> Doing(p, "recvMsg", "request", y)
      /\ \A y : Doing(p, "request", "request", y)' <=> Doing(p, "request", "request", y)
      /\ \A y : Doing(p, "recvMsg", "established", y)' <=> Doing(p, "recvMsg", "established", y)
      /\ \A y : Doing(p, "established", "established", y)' <=> Doing(p, "established", "established", y)
      /\ \A y : Doing(p, "listen", "started", y)' <=> Doing(p, "listen", "started", y)
      /\ \A y : Doing(p, "started", "started", y)' <=> Doing(p, "started", "started", y)
  BY DEF SendReadyDoes, Finishes, Runs
<1>2. /\ Begun(p)' <=> Begun(p)
      /\ \A y : Asks(p, y)' <=> Asks(p, y)
      /\ ToDial(p)' <=> ToDial(p)
      /\ \A y : Adopts(p, y)' <=> Adopts(p, y)
      /\ Starting(p)' <=> Starting(p)
      /\ \A y : Starts(p, y)' <=> Starts(p, y)
      /\ Agrees(p)' <=> Agrees(p)
      /\ TakesBack(p)' <=> TakesBack(p)
      /\ Leaves(p)' <=> Leaves(p)
      /\ Closes(p)' <=> Closes(p)
      /\ Resets(p)' <=> Resets(p)
      /\ Ended(p)' <=> Ended(p)
  BY <1>1 DEF Adopts, Agrees, Asks, Begun, Closes, Ended, Leaves, Resets, Starting, Starts, TakesBack, ToDial
<1>3. LinksKept /\ DOMAIN links' = DOMAIN links
  BY DEF SendReadyDoes, LinksKept, Sends
<1>4. /\ Uses(p)' <=> Uses(p)
      /\ Calls(p)' <=> Calls(p)
      /\ Takes(p)' <=> Takes(p)
      /\ Uses(p) => /\ From(sock[p])' = From(sock[p]) /\ To(sock[p])' = To(sock[p])
                    /\ Other(sock[p], p)' = Other(sock[p], p)
  BY <1>3, SocketSame DEF SendReadyDoes
<1>7. PeerFacts(p) /\ JobRules(p) /\ JobRules(p)' /\ Says(p)
  BY PeerIs, JobsAre, EndSays
<1>8. /\ status'[p] \in {"waiting", "tls", "tcp"} /\ sock'[p] \in DOMAIN links' \cup {Fresh, Nobody}
      /\ Fresh # Nobody /\ Fresh \notin DOMAIN links' /\ Nobody \notin DOMAIN links'
      /\ DOMAIN links' \subseteq Nat
      /\ engine'[p].listening \in BOOLEAN /\ engine'[p].started \in BOOLEAN /\ engine'[p].senders \in BOOLEAN
  BY PeerIsNext
<1>9. /\ Once(p) => Once(p)'
      /\ UNCHANGED <<status[p], sock[p], online[p], dialing[p], target[p], reading[p], connected[p], ids[p], partner[p], engine[p], ui[p], asked[p], key[p], candidate[p], Reads(p)>>
  BY DEF SendReadyDoes, Sends
<1>11. /\ ToDial(p) => /\ sock[p] = Nobody /\ status[p] = "waiting"
                      /\ ~Resets(p) /\ ~Closes(p) /\ ~Runs(p, "stop", "stop")
       /\ ToDial(p)' => /\ sock'[p] = Nobody /\ status'[p] = "waiting"
                       /\ ~Resets(p)' /\ ~Closes(p)' /\ ~Runs(p, "stop", "stop")'
  BY DEF Doomed, Busy
<1>12. /\ q # p /\ Open(c) \subseteq {p, q} /\ sock'[p] = c /\ sock[p] = c /\ Uses(p)
       /\ (From(c) = p /\ To(c) = q) \/ (From(c) = q /\ To(c) = p)
       /\ In(c, p) \in Seq(Message) /\ In(c, q) \in Seq(Message)
       /\ LinkInv(c) /\ KeyInv(c) /\ PhaseInv(c) /\ EndInv(c)
  <2>1. Uses(p) /\ p \in {From(c), To(c)}
    BY DEF Uses, Local, SockInv
  <2> QED
    BY <2>1, <1>9, LinkIs DEF OnLink, TypeOK, Other, From, To
<1>13. /\ sock'[q] = sock[q] /\ key'[q] = key[q] /\ asked'[q] = asked[q] /\ connected'[q] = connected[q]
       /\ ui'[q] = ui[q] /\ engine'[q] = engine[q]
       /\ \A h, l : Runs(q, h, l)' <=> Runs(q, h, l)
       /\ (Begun(q)' <=> Begun(q)) /\ (Resets(q)' <=> Resets(q)) /\ JobRules(q)
  <2>1. Untouched(q) /\ SameKey(q)
    BY <1>12 DEF SendReadyDoes
  <2> QED
    BY <2>1, JobsSame, JobsAre DEF Untouched, SameKey
<1>14. /\ c \in DOMAIN links' /\ From(c)' = From(c) /\ To(c)' = To(c) /\ Open(c)' = Open(c) /\ Taken(c)' = Taken(c)
       /\ (\A r : Other(c, r)' = Other(c, r)) /\ (early' = {} => early = {})
       /\ In(c, p)' = In(c, p)
       /\ In(c, q)' = IF online[p] /\ Open(c) = {p, q} THEN Append(In(c, q), [type |-> "ready", key |-> key[p]]) ELSE In(c, q)
  <2>1. Kept(c) /\ Open(c)' = Open(c) /\ Taken(c)' = Taken(c) /\ c \in DOMAIN links'
    BY DEF SendReadyDoes, Sends
  <2>2. \A r : Other(c, r)' = Other(c, r)
    BY <2>1 DEF Kept, Other, From, To
  <2>3. IF online[p] /\ Open(c) = {p, q}
        THEN In(c, q)' = Append(In(c, q), [type |-> "ready", key |-> key[p]]) /\ In(c, p)' = In(c, p)
        ELSE Unmoved(c)
    BY <1>12 DEF SendReadyDoes, Sends
  <2> QED
    BY <1>12, <2>1, <2>2, <2>3 DEF Kept, Unmoved, SendReadyDoes
<1>15. /\ \A ty : Holds(In(c, q)', ty) <=> Holds(In(c, q), ty) \/ (ty = "ready" /\ online[p] /\ Open(c) = {p, q})
       /\ \A ty : AtMostOne(In(c, q), ty) /\ (ty = "ready" => ~Holds(In(c, q), ty)) => AtMostOne(In(c, q)', ty)
       /\ \A k : Keyed(In(c, q), k) /\ (online[p] /\ Open(c) = {p, q} => key[p] = k) => Keyed(In(c, q)', k)
       /\ \A types : Only(In(c, q), types) /\ "ready" \in types => Only(In(c, q)', types)
       /\ InOrder(In(c, q)) /\ ("ready" = "request" => ~Holds(In(c, q), "cancel")) => InOrder(In(c, q)')
       /\ In(c, q)' = In(c, q) \/ Open(c) = {p, q}
  <2>1. CASE online[p] /\ Open(c) = {p, q}
    <3>1. PICK m \in Message : m.type = "ready" /\ m.key = key[p] /\ In(c, q)' = Append(In(c, q), m)
      <4>1. [type |-> "ready", key |-> key[p]] \in Message
        BY DEF TypeOK, Message, Types
      <4> QED
        BY <1>14, <2>1, <4>1
    <3> QED
      BY <1>12, <2>1, <3>1, MessageSent
  <2>2. CASE ~(online[p] /\ Open(c) = {p, q})
    BY <1>14, <2>2
  <2> QED
    BY <2>1, <2>2
<1>30. EndKept(c, q)
  BY <1>12, <1>13 DEF EndKept
<1>31. EndKept(c, p)
  BY <1>1, <1>2, <1>7, <1>9, <1>12 DEF EndKept, Calls, Takes, Local, PlaceInv, JobRules
<1>32. BoxKept(c, p) /\ BoxKept(c, q)
  BY <1>12, <1>13, <1>14, <1>15 DEF BoxKept, Other, LinkInv, From, To
<1>33. PhaseInv(c)' /\ EndInv(c)'
  BY <1>12, <1>14, <1>30, <1>31, <1>32, LinkKept
<1>34. LinkInv(c)'
  BY <1>12, <1>13, <1>14 DEF LinkInv
<1>35. KeyInv(c)'
  <2>1. key'[p] = key[p] /\ key'[q] = key[q]
    BY <1>9, <1>13
  <2>2. /\ p \in Open(c) => Keyed(In(c, p)', key[p])
        /\ q \in Open(c) => Keyed(In(c, q)', key[q])
    BY <1>9, <1>12, <1>13, <1>14, <1>15 DEF KeyInv
  <2>3. /\ From(c) = p => Only(In(c, p)', {"accept", "reject", "ready"}) /\ Only(In(c, q)', {"request", "cancel", "ready"})
        /\ From(c) = q => Only(In(c, q)', {"accept", "reject", "ready"}) /\ Only(In(c, p)', {"request", "cancel", "ready"})
    BY <1>9, <1>12, <1>13, <1>14, <1>15 DEF KeyInv
  <2> QED
    BY <1>12, <1>14, <2>1, <2>2, <2>3, KeyKept
<1>36. ReadyInv(c)'
  <2>1. early' = {} /\ sock[q] = c /\ Told(c, p, q) => Told(c, p, q)'
    BY <1>1, <1>2, <1>9, <1>12, <1>13, <1>14, <1>15 DEF Told
  <2>2. early' = {} /\ sock[q] = c /\ Told(c, q, p) => Told(c, q, p)'
    BY <1>1, <1>2, <1>9, <1>12, <1>13, <1>14, <1>15 DEF Told, LinkInv, Local, SockInv
  <2> QED
    BY <2>1, <2>2, <1>12, <1>13, <1>14, ReadyIs
<1> QED
  BY <1>33, <1>34, <1>35, <1>36

LEMMA ParseRequestLink ==
    ASSUME TypeOK, TypeOK', NEW p \in Peers, NEW c \in DOMAIN links, Local(p), TlsInv(p), OnLink(p),
           ParseRequestDoes(p, c), mishaps' = {}, ~Doomed(p), ~Doomed(p)',
           c = sock[p], NEW q \in Peers, q = Other(c, p), Local(q), ReadyInv(c)
    PROVE  LinkInv(c)' /\ KeyInv(c)' /\ PhaseInv(c)' /\ EndInv(c)' /\ ReadyInv(c)'
<1>1. Same(p)
  BY DEF ParseRequestDoes
<1>2. /\ Runs(p, "accept", "statusOn")' <=> Runs(p, "accept", "statusOn")
      /\ Runs(p, "initHigh", "statusOn")' <=> Runs(p, "initHigh", "statusOn")
      /\ Runs(p, "initLow", "statusOn")' <=> Runs(p, "initLow", "statusOn")
      /\ Runs(p, "statusOn", "statusOn")' <=> Runs(p, "statusOn", "statusOn")
      /\ Runs(p, "cancel", "reset")' <=> Runs(p, "cancel", "reset")
      /\ Runs(p, "reset", "reset")' <=> Runs(p, "reset", "reset")
      /\ Runs(p, "reject", "statusOff")' <=> Runs(p, "reject", "statusOff")
      /\ Runs(p, "reset", "statusOff")' <=> Runs(p, "reset", "statusOff")
      /\ Runs(p, "statusOff", "statusOff")' <=> Runs(p, "statusOff", "statusOff")
      /\ Runs(p, "reset", "close")' <=> Runs(p, "reset", "close")
      /\ Runs(p, "close", "close")' <=> Runs(p, "close", "close")
      /\ Runs(p, "reset", "unconnected")' <=> Runs(p, "reset", "unconnected")
      /\ Runs(p, "lost", "unconnected")' <=> Runs(p, "lost", "unconnected")
      /\ Runs(p, "unconnected", "unconnected")' <=> Runs(p, "unconnected", "unconnected")
      /\ Runs(p, "reset", "again")' <=> Runs(p, "reset", "again")
      /\ Runs(p, "lost", "again")' <=> Runs(p, "lost", "again")
      /\ Runs(p, "again", "again")' <=> Runs(p, "again", "again")
      /\ Runs(p, "stop", "stop")' <=> Runs(p, "stop", "stop")
      /\ Runs(p, "ready", "ready")' <=> Runs(p, "ready", "ready")
      /\ Runs(p, "initFileSenders", "initFileSenders")' <=> Runs(p, "initFileSenders", "initFileSenders")
      /\ \A y : Doing(p, "dial", "request", y)' <=> Doing(p, "dial", "request", y)
      /\ \A y : Doing(p, "exchange", "request", y)' <=> Doing(p, "exchange", "request", y)
      /\ \A y : Doing(p, "connect", "request", y)' <=> Doing(p, "connect", "request", y)
      /\ \A y : Doing(p, "recvMsg", "request", y)' <=> Doing(p, "recvMsg", "request", y)
      /\ \A y : Doing(p, "request", "request", y)' <=> Doing(p, "request", "request", y)
      /\ \A y : Doing(p, "recvMsg", "established", y)' <=> Doing(p, "recvMsg", "established", y)
      /\ \A y : Doing(p, "established", "established", y)' <=> Doing(p, "established", "established", y)
      /\ \A y : Doing(p, "listen", "started", y)' <=> Doing(p, "listen", "started", y)
      /\ \A y : Doing(p, "started", "started", y)' <=> Doing(p, "started", "started", y)
      /\ Begun(p)' <=> Begun(p)
      /\ \A y : Asks(p, y)' <=> Asks(p, y)
      /\ ToDial(p)' <=> ToDial(p)
      /\ \A y : Adopts(p, y)' <=> Adopts(p, y)
      /\ Starting(p)' <=> Starting(p)
      /\ \A y : Starts(p, y)' <=> Starts(p, y)
      /\ Agrees(p)' <=> Agrees(p)
      /\ TakesBack(p)' <=> TakesBack(p)
      /\ Leaves(p)' <=> Leaves(p)
      /\ Closes(p)' <=> Closes(p)
      /\ Resets(p)' <=> Resets(p)
      /\ Ended(p)' <=> Ended(p)
  BY <1>1, JobsSame DEF Same
<1>3. LinksKept /\ DOMAIN links' = DOMAIN links
  BY DEF ParseRequestDoes, LinksKept
<1>4. /\ Uses(p)' <=> Uses(p)
      /\ Calls(p)' <=> Calls(p)
      /\ Takes(p)' <=> Takes(p)
      /\ Uses(p) => /\ From(sock[p])' = From(sock[p]) /\ To(sock[p])' = To(sock[p])
                    /\ Other(sock[p], p)' = Other(sock[p], p)
  BY <1>3, SocketSame DEF ParseRequestDoes
<1>7. PeerFacts(p) /\ JobRules(p) /\ JobRules(p)' /\ Says(p)
  BY PeerIs, JobsAre, EndSays
<1>8. /\ status'[p] \in {"waiting", "tls", "tcp"} /\ sock'[p] \in DOMAIN links' \cup {Fresh, Nobody}
      /\ Fresh # Nobody /\ Fresh \notin DOMAIN links' /\ Nobody \notin DOMAIN links'
      /\ DOMAIN links' \subseteq Nat
      /\ engine'[p].listening \in BOOLEAN /\ engine'[p].started \in BOOLEAN /\ engine'[p].senders \in BOOLEAN
  BY PeerIsNext
<1>9. /\ (\A r \in Peers : Same(r) /\ (Once(r) => Once(r)'))
      /\ c \in Reads(p) /\ reading[p]
      /\ Head(In(c, p)).type = "request" /\ Head(In(c, p)).key = key[p]
      /\ UNCHANGED <<status[p], sock[p], online[p], dialing[p], target[p], reading[p], connected[p], ids[p], engine[p], ui[p], key[p], candidate[p], Reads(p)>>
      /\ asked'[p] = TRUE
      /\ partner'[p] = Other(c, p)
      /\ c \in DOMAIN links /\ p \in {From(c), To(c)} /\ p \in Open(c) /\ Other(c, p) \in {From(c), To(c)} /\ Other(c, p) # p
      /\ In(c, p) # << >> /\ In(c, p)' = Tail(In(c, p)) /\ In(c, Other(c, p))' = In(c, Other(c, p))
  BY DEF ParseRequestDoes
<1>11. /\ ToDial(p) => /\ sock[p] = Nobody /\ status[p] = "waiting"
                      /\ ~Resets(p) /\ ~Closes(p) /\ ~Runs(p, "stop", "stop")
       /\ ToDial(p)' => /\ sock'[p] = Nobody /\ status'[p] = "waiting"
                       /\ ~Resets(p)' /\ ~Closes(p)' /\ ~Runs(p, "stop", "stop")'
  BY DEF Doomed, Busy
<1>5. Uses(p) /\ c = sock[p]
  BY PeerIs DEF PeerFacts, ParseRequestDoes, Local, ReadInv
<1>10. /\ Takes(p) /\ ~asked[p] /\ ~Agrees(p) /\ ~connected[p]
       /\ ~Resets(p) /\ ~Begun(p)
  <2>1. HeadSays(p, "request")
    BY <1>5, HeadMeans DEF ParseRequestDoes
  <2> QED
    BY <1>5, <1>7, <2>1 DEF HeadSays, Local, PlaceInv, SockInv, JobRules, PeerFacts
<1>12. /\ q # p /\ Open(c) \subseteq {p, q} /\ sock'[p] = c /\ sock[p] = c /\ Uses(p)
       /\ (From(c) = p /\ To(c) = q) \/ (From(c) = q /\ To(c) = p)
       /\ In(c, p) \in Seq(Message) /\ In(c, q) \in Seq(Message)
       /\ LinkInv(c) /\ KeyInv(c) /\ PhaseInv(c) /\ EndInv(c)
  <2>1. Uses(p) /\ p \in {From(c), To(c)}
    BY DEF Uses, Local, SockInv
  <2> QED
    BY <2>1, <1>9, LinkIs DEF OnLink, TypeOK, Other, From, To
<1>13. /\ sock'[q] = sock[q] /\ key'[q] = key[q] /\ asked'[q] = asked[q] /\ connected'[q] = connected[q]
       /\ ui'[q] = ui[q] /\ engine'[q] = engine[q]
       /\ \A h, l : Runs(q, h, l)' <=> Runs(q, h, l)
       /\ (Begun(q)' <=> Begun(q)) /\ (Resets(q)' <=> Resets(q)) /\ JobRules(q)
  <2>1. Untouched(q) /\ SameKey(q)
    BY <1>12 DEF ParseRequestDoes
  <2> QED
    BY <2>1, JobsSame, JobsAre DEF Untouched, SameKey
<1>14. /\ c \in DOMAIN links' /\ From(c)' = From(c) /\ To(c)' = To(c) /\ Open(c)' = Open(c) /\ Taken(c)' = Taken(c)
       /\ (\A r : Other(c, r)' = Other(c, r)) /\ (early' = {} => early = {})
       /\ In(c, p) # << >> /\ In(c, p)' = Tail(In(c, p)) /\ In(c, q)' = In(c, q)
  <2>1. Kept(c) /\ Open(c)' = Open(c) /\ Taken(c)' = Taken(c) /\ c \in DOMAIN links'
    BY DEF ParseRequestDoes
  <2>2. \A r : Other(c, r)' = Other(c, r)
    BY <2>1 DEF Kept, Other, From, To
  <2>3. In(c, p) # << >> /\ In(c, p)' = Tail(In(c, p)) /\ In(c, q)' = In(c, q)
    BY <2>2 DEF ParseRequestDoes, In
  <2> QED
    BY <1>12, <2>1, <2>2, <2>3 DEF Kept, Unmoved, ParseRequestDoes
<1>15. /\ \A ty : Holds(In(c, p), ty) <=> Holds(In(c, p)', ty) \/ ty = "request"
       /\ \A ty : AtMostOne(In(c, p), ty) => AtMostOne(In(c, p)', ty) /\ (ty = "request" => ~Holds(In(c, p)', ty))
       /\ \A k : Keyed(In(c, p), k) => Keyed(In(c, p)', k)
       /\ \A types : Only(In(c, p), types) => Only(In(c, p)', types) /\ "request" \in types
       /\ InOrder(In(c, p)) => InOrder(In(c, p)') /\ ("request" = "cancel" => ~Holds(In(c, p), "request"))
  BY <1>9, <1>12, <1>14, MessageTaken
<1>16. From(c) = q /\ To(c) = p
  BY <1>1, <1>2, <1>7, <1>9, <1>5, <1>10, <1>12 DEF PeerFacts, Local, PlaceInv, WindowInv, AskInv, Says, Calls, Takes, TakesBack, Begun, Asks, Adopts
<1>17. LinkInv(c)'
  BY <1>12, <1>13, <1>14 DEF LinkInv
<1>18. KeyInv(c)'
  <2>1. key'[p] = key[p] /\ key'[q] = key[q]
    BY <1>9, <1>13
  <2>2. /\ p \in Open(c) => Keyed(In(c, p)', key[p])
        /\ q \in Open(c) => Keyed(In(c, q)', key[q])
    BY <1>9, <1>12, <1>13, <1>14, <1>15, <1>16 DEF KeyInv
  <2>3. /\ From(c) = p => Only(In(c, p)', {"accept", "reject", "ready"}) /\ Only(In(c, q)', {"request", "cancel", "ready"})
        /\ From(c) = q => Only(In(c, q)', {"accept", "reject", "ready"}) /\ Only(In(c, p)', {"request", "cancel", "ready"})
    BY <1>9, <1>12, <1>13, <1>14, <1>15, <1>16 DEF KeyInv
  <2> QED
    BY <1>12, <1>14, <2>1, <2>2, <2>3, KeyKept
<1>60. TakerView(c, p, q) /\ TakerView(c, p, q)'
  BY <1>16, <1>12, <1>14, Views
<1>61. /\ Unsent(c)' <=> Unsent(c)
       /\ Underway(c)
       /\ ~Underway(c)'
       /\ Shown(c)'
       /\ Accepting(c)' <=> Accepting(c)
       /\ Rejecting(c)' <=> Rejecting(c)
       /\ Refusal(c)' <=> Refusal(c)
       /\ AcceptSent(c)' <=> AcceptSent(c)
       /\ AcceptHeld(c)' <=> AcceptHeld(c)
       /\ Agreeing(c)' <=> Agreeing(c)
       /\ ~Unsent(c)
  BY <1>1, <1>2, <1>7, <1>9, <1>5, <1>10, <1>12, <1>13, <1>14, <1>15, <1>16, <1>60 DEF TakerView, Local, PlaceInv, PeerFacts, Says, Calls, Takes, PhaseInv
<1>62. PhaseInv(c)'
  BY <1>12, <1>13, <1>14, <1>15, <1>16, <1>60, <1>61 DEF PhaseInv, TakerView
<1>63. BothInv(c)'
  BY <1>1, <1>2, <1>7, <1>9, <1>12, <1>13, <1>14, <1>15, <1>16, <1>61 DEF EndInv, BothInv, LinkInv, JobRules
<1>64. AnswerInv(c)'
  BY <1>1, <1>2, <1>7, <1>9, <1>12, <1>13, <1>14, <1>15, <1>16, <1>61 DEF EndInv, AnswerInv, LinkInv, JobRules
<1>65. CancelInv(c)'
  <2>1. Runs(p, "reset", "reset")' <=> Runs(p, "reset", "reset")
    BY <1>2
  <2>2. /\ Holds(In(c, p)', "cancel") <=> Holds(In(c, p), "cancel")
        /\ InOrder(In(c, p)) => InOrder(In(c, p)')
    BY <1>15
  <2>3. /\ Holds(In(c, p), "cancel") \/ Runs(p, "reset", "reset") => sock[q] # c \/ Runs(q, "reset", "reset")
        /\ (q \notin Open(c) \/ Runs(q, "reset", "reset")) => Holds(In(c, p), "cancel")
        /\ InOrder(In(c, p))
    BY <1>12, <1>16, <1>61 DEF EndInv, CancelInv, LinkInv
  <2>4. ~Runs(p, "reset", "reset")
    BY <1>7, <1>10 DEF JobRules
  <2> QED
    BY <1>12, <1>13, <1>14, <1>16, <1>61, <2>1, <2>2, <2>3, <2>4 DEF CancelInv
<1>66. RejectInv(c)'
  BY <1>1, <1>2, <1>7, <1>9, <1>12, <1>13, <1>14, <1>15, <1>16, <1>61 DEF EndInv, RejectInv, LinkInv, JobRules
<1>67. UntakenInv(c)'
  BY <1>1, <1>2, <1>7, <1>9, <1>12, <1>13, <1>14, <1>15, <1>16, <1>61 DEF EndInv, UntakenInv, LinkInv, JobRules
<1>68. LastInv(c)'
  <2>1. /\ sock[p] = c /\ Runs(p, "reset", "again") => In(c, p) = << >> /\ q \notin Open(c)
        /\ sock[q] = c /\ Runs(q, "reset", "again") => In(c, q) = << >> /\ p \notin Open(c)
    <3>1. LastInv(c)
      BY <1>12 DEF EndInv
    <3> QED
      BY <3>1, <1>12, <1>14, LastIs
  <2>2. p \in Open(c)
    BY <1>12 DEF LinkInv
  <2>3. ~(sock'[q] = c /\ Runs(q, "reset", "again")')
    BY <1>13, <2>1, <2>2
  <2>4. ~Runs(p, "reset", "again")'
    <3>1. Runs(p, "reset", "again")' <=> Runs(p, "reset", "again")
      BY <1>2
    <3> QED
      BY <1>12, <1>14, <2>1, <3>1
  <2> QED
    BY <1>12, <1>14, <2>3, <2>4, LastIs
<1>69. ReadyInv(c)'
  <2>1. early' = {} /\ sock[q] = c /\ Told(c, p, q) => Told(c, p, q)'
    BY <1>1, <1>2, <1>9, <1>12, <1>13, <1>14, <1>15 DEF Told
  <2>2. early' = {} /\ sock[q] = c /\ Told(c, q, p) => Told(c, q, p)'
    BY <1>1, <1>2, <1>9, <1>12, <1>13, <1>14, <1>15 DEF Told
  <2> QED
    BY <2>1, <2>2, <1>12, <1>13, <1>14, ReadyIs
<1> QED
  BY <1>17, <1>18, <1>62, <1>63, <1>64, <1>65, <1>66, <1>67, <1>68, <1>69 DEF EndInv

LEMMA ParseAcceptLink ==
    ASSUME TypeOK, TypeOK', NEW p \in Peers, NEW c \in DOMAIN links, Local(p), TlsInv(p), OnLink(p),
           ParseAcceptDoes(p, c), mishaps' = {}, ~Doomed(p), ~Doomed(p)',
           c = sock[p], NEW q \in Peers, q = Other(c, p), Local(q), ReadyInv(c)
    PROVE  LinkInv(c)' /\ KeyInv(c)' /\ PhaseInv(c)' /\ EndInv(c)' /\ ReadyInv(c)'
<1>1. /\ Runs(p, "accept", "statusOn")' <=> Runs(p, "accept", "statusOn")
      /\ Runs(p, "initHigh", "statusOn")' <=> Runs(p, "initHigh", "statusOn")
      /\ Runs(p, "initLow", "statusOn")'
      /\ Runs(p, "statusOn", "statusOn")' <=> Runs(p, "statusOn", "statusOn")
      /\ Runs(p, "cancel", "reset")' <=> Runs(p, "cancel", "reset")
      /\ Runs(p, "reset", "reset")' <=> Runs(p, "reset", "reset")
      /\ Runs(p, "reject", "statusOff")' <=> Runs(p, "reject", "statusOff")
      /\ Runs(p, "reset", "statusOff")' <=> Runs(p, "reset", "statusOff")
      /\ Runs(p, "statusOff", "statusOff")' <=> Runs(p, "statusOff", "statusOff")
      /\ Runs(p, "reset", "close")' <=> Runs(p, "reset", "close")
      /\ Runs(p, "close", "close")' <=> Runs(p, "close", "close")
      /\ Runs(p, "reset", "unconnected")' <=> Runs(p, "reset", "unconnected")
      /\ Runs(p, "lost", "unconnected")' <=> Runs(p, "lost", "unconnected")
      /\ Runs(p, "unconnected", "unconnected")' <=> Runs(p, "unconnected", "unconnected")
      /\ Runs(p, "reset", "again")' <=> Runs(p, "reset", "again")
      /\ Runs(p, "lost", "again")' <=> Runs(p, "lost", "again")
      /\ Runs(p, "again", "again")' <=> Runs(p, "again", "again")
      /\ Runs(p, "stop", "stop")' <=> Runs(p, "stop", "stop")
      /\ Runs(p, "ready", "ready")' <=> Runs(p, "ready", "ready")
      /\ Runs(p, "initFileSenders", "initFileSenders")' <=> Runs(p, "initFileSenders", "initFileSenders")
      /\ \A y : Doing(p, "dial", "request", y)' <=> Doing(p, "dial", "request", y)
      /\ \A y : Doing(p, "exchange", "request", y)' <=> Doing(p, "exchange", "request", y)
      /\ \A y : Doing(p, "connect", "request", y)' <=> Doing(p, "connect", "request", y)
      /\ \A y : Doing(p, "recvMsg", "request", y)' <=> Doing(p, "recvMsg", "request", y)
      /\ \A y : Doing(p, "request", "request", y)' <=> Doing(p, "request", "request", y)
      /\ \A y : Doing(p, "recvMsg", "established", y)' <=> Doing(p, "recvMsg", "established", y)
      /\ \A y : Doing(p, "established", "established", y)' <=> Doing(p, "established", "established", y)
      /\ \A y : Doing(p, "listen", "started", y)' <=> Doing(p, "listen", "started", y)
      /\ \A y : Doing(p, "started", "started", y)' <=> Doing(p, "started", "started", y)
  BY DEF ParseAcceptDoes, Gets, Runs
<1>2. /\ Begun(p)' <=> Begun(p)
      /\ \A y : Asks(p, y)' <=> Asks(p, y)
      /\ ToDial(p)' <=> ToDial(p)
      /\ \A y : Adopts(p, y)' <=> Adopts(p, y)
      /\ Starting(p)' <=> Starting(p)
      /\ \A y : Starts(p, y)' <=> Starts(p, y)
      /\ TakesBack(p)' <=> TakesBack(p)
      /\ Leaves(p)' <=> Leaves(p)
      /\ Closes(p)' <=> Closes(p)
      /\ Resets(p)' <=> Resets(p)
      /\ Ended(p)' <=> Ended(p)
  BY <1>1 DEF Adopts, Asks, Begun, Closes, Ended, Leaves, Resets, Starting, Starts, TakesBack, ToDial
<1>3. LinksKept /\ DOMAIN links' = DOMAIN links
  BY DEF ParseAcceptDoes, LinksKept
<1>4. /\ Uses(p)' <=> Uses(p)
      /\ Calls(p)' <=> Calls(p)
      /\ Takes(p)' <=> Takes(p)
      /\ Uses(p) => /\ From(sock[p])' = From(sock[p]) /\ To(sock[p])' = To(sock[p])
                    /\ Other(sock[p], p)' = Other(sock[p], p)
  BY <1>3, SocketSame DEF ParseAcceptDoes
<1>7. PeerFacts(p) /\ JobRules(p) /\ JobRules(p)' /\ Says(p)
  BY PeerIs, JobsAre, EndSays
<1>8. /\ status'[p] \in {"waiting", "tls", "tcp"} /\ sock'[p] \in DOMAIN links' \cup {Fresh, Nobody}
      /\ Fresh # Nobody /\ Fresh \notin DOMAIN links' /\ Nobody \notin DOMAIN links'
      /\ DOMAIN links' \subseteq Nat
      /\ engine'[p].listening \in BOOLEAN /\ engine'[p].started \in BOOLEAN /\ engine'[p].senders \in BOOLEAN
  BY PeerIsNext
<1>9. /\ Once(p) => Once(p)'
      /\ c \in Reads(p) /\ reading[p]
      /\ Head(In(c, p)).type = "accept" /\ Head(In(c, p)).key = key[p]
      /\ UNCHANGED <<status[p], sock[p], online[p], dialing[p], target[p], reading[p], connected[p], ids[p], partner[p], engine[p], asked[p], key[p], candidate[p], Reads(p)>>
      /\ ui'[p] = "connected"
      /\ c \in DOMAIN links /\ p \in {From(c), To(c)} /\ p \in Open(c) /\ Other(c, p) \in {From(c), To(c)} /\ Other(c, p) # p
      /\ In(c, p) # << >> /\ In(c, p)' = Tail(In(c, p)) /\ In(c, Other(c, p))' = In(c, Other(c, p))
  BY DEF ParseAcceptDoes
<1>11. /\ ToDial(p) => /\ sock[p] = Nobody /\ status[p] = "waiting"
                      /\ ~Resets(p) /\ ~Closes(p) /\ ~Runs(p, "stop", "stop")
       /\ ToDial(p)' => /\ sock'[p] = Nobody /\ status'[p] = "waiting"
                       /\ ~Resets(p)' /\ ~Closes(p)' /\ ~Runs(p, "stop", "stop")'
  BY DEF Doomed, Busy
<1>5. Uses(p) /\ c = sock[p]
  BY PeerIs DEF PeerFacts, ParseAcceptDoes, Local, ReadInv
<1>10. /\ Calls(p) /\ ~Begun(p) /\ ~Agrees(p) /\ ~connected[p]
       /\ ~Runs(p, "reset", "close") /\ ~Runs(p, "reset", "again")
       /\ ~Runs(p, "reset", "statusOff") /\ ~Closes(p)
  <2>1. HeadSays(p, "accept")
    BY <1>5, HeadMeans DEF ParseAcceptDoes
  <2> QED
    BY <1>5, <1>7, <2>1 DEF HeadSays, Local, PlaceInv, SockInv, JobRules, PeerFacts
<1>12. /\ q # p /\ Open(c) \subseteq {p, q} /\ sock'[p] = c /\ sock[p] = c /\ Uses(p)
       /\ (From(c) = p /\ To(c) = q) \/ (From(c) = q /\ To(c) = p)
       /\ In(c, p) \in Seq(Message) /\ In(c, q) \in Seq(Message)
       /\ LinkInv(c) /\ KeyInv(c) /\ PhaseInv(c) /\ EndInv(c)
  <2>1. Uses(p) /\ p \in {From(c), To(c)}
    BY DEF Uses, Local, SockInv
  <2> QED
    BY <2>1, <1>9, LinkIs DEF OnLink, TypeOK, Other, From, To
<1>13. /\ sock'[q] = sock[q] /\ key'[q] = key[q] /\ asked'[q] = asked[q] /\ connected'[q] = connected[q]
       /\ ui'[q] = ui[q] /\ engine'[q] = engine[q]
       /\ \A h, l : Runs(q, h, l)' <=> Runs(q, h, l)
       /\ (Begun(q)' <=> Begun(q)) /\ (Resets(q)' <=> Resets(q)) /\ JobRules(q)
  <2>1. Untouched(q) /\ SameKey(q)
    BY <1>12 DEF ParseAcceptDoes
  <2> QED
    BY <2>1, JobsSame, JobsAre DEF Untouched, SameKey
<1>14. /\ c \in DOMAIN links' /\ From(c)' = From(c) /\ To(c)' = To(c) /\ Open(c)' = Open(c) /\ Taken(c)' = Taken(c)
       /\ (\A r : Other(c, r)' = Other(c, r)) /\ (early' = {} => early = {})
       /\ In(c, p) # << >> /\ In(c, p)' = Tail(In(c, p)) /\ In(c, q)' = In(c, q)
  <2>1. Kept(c) /\ Open(c)' = Open(c) /\ Taken(c)' = Taken(c) /\ c \in DOMAIN links'
    BY DEF ParseAcceptDoes
  <2>2. \A r : Other(c, r)' = Other(c, r)
    BY <2>1 DEF Kept, Other, From, To
  <2>3. In(c, p) # << >> /\ In(c, p)' = Tail(In(c, p)) /\ In(c, q)' = In(c, q)
    BY <2>2 DEF ParseAcceptDoes, In
  <2> QED
    BY <1>12, <2>1, <2>2, <2>3 DEF Kept, Unmoved, ParseAcceptDoes
<1>15. /\ \A ty : Holds(In(c, p), ty) <=> Holds(In(c, p)', ty) \/ ty = "accept"
       /\ \A ty : AtMostOne(In(c, p), ty) => AtMostOne(In(c, p)', ty) /\ (ty = "accept" => ~Holds(In(c, p)', ty))
       /\ \A k : Keyed(In(c, p), k) => Keyed(In(c, p)', k)
       /\ \A types : Only(In(c, p), types) => Only(In(c, p)', types) /\ "accept" \in types
       /\ InOrder(In(c, p)) => InOrder(In(c, p)') /\ ("accept" = "cancel" => ~Holds(In(c, p), "request"))
  BY <1>9, <1>12, <1>14, MessageTaken
<1>16. From(c) = p /\ To(c) = q
  BY <1>1, <1>2, <1>7, <1>9, <1>5, <1>10, <1>12 DEF PeerFacts, Local, PlaceInv, WindowInv, AskInv, Says, Calls, Takes, TakesBack, Begun, Asks, Adopts
<1>17. LinkInv(c)'
  BY <1>12, <1>13, <1>14 DEF LinkInv
<1>18. KeyInv(c)'
  <2>1. key'[p] = key[p] /\ key'[q] = key[q]
    BY <1>9, <1>13
  <2>2. /\ p \in Open(c) => Keyed(In(c, p)', key[p])
        /\ q \in Open(c) => Keyed(In(c, q)', key[q])
    BY <1>9, <1>12, <1>13, <1>14, <1>15, <1>16 DEF KeyInv
  <2>3. /\ From(c) = p => Only(In(c, p)', {"accept", "reject", "ready"}) /\ Only(In(c, q)', {"request", "cancel", "ready"})
        /\ From(c) = q => Only(In(c, q)', {"accept", "reject", "ready"}) /\ Only(In(c, p)', {"request", "cancel", "ready"})
    BY <1>9, <1>12, <1>13, <1>14, <1>15, <1>16 DEF KeyInv
  <2> QED
    BY <1>12, <1>14, <2>1, <2>2, <2>3, KeyKept
<1>30. CallerView(c, p, q) /\ CallerView(c, p, q)'
  BY <1>16, <1>12, <1>14, Views
<1>31. /\ Unsent(c)' <=> Unsent(c)
       /\ Underway(c)' <=> Underway(c)
       /\ Shown(c)' <=> Shown(c)
       /\ Accepting(c)' <=> Accepting(c)
       /\ Rejecting(c)' <=> Rejecting(c)
       /\ Refusal(c)' <=> Refusal(c)
       /\ AcceptSent(c)
       /\ ~AcceptSent(c)'
       /\ AcceptHeld(c)'
       /\ Agreeing(c)' <=> Agreeing(c)
       /\ ~Unsent(c)
  BY <1>1, <1>2, <1>7, <1>9, <1>5, <1>10, <1>12, <1>13, <1>14, <1>15, <1>16, <1>30 DEF CallerView, Local, PlaceInv, PeerFacts, Says, Calls, Takes, PhaseInv
<1>32. PhaseInv(c)'
  BY <1>12, <1>13, <1>14, <1>15, <1>16, <1>30, <1>31 DEF PhaseInv, CallerView
<1>33. BothInv(c)'
  BY <1>1, <1>2, <1>7, <1>9, <1>12, <1>13, <1>14, <1>15, <1>16, <1>31 DEF EndInv, BothInv, LinkInv, JobRules
<1>34. AnswerInv(c)'
  <2>1. /\ Holds(In(c, p)', "reject") <=> Holds(In(c, p), "reject")
        /\ Resets(q)' <=> Resets(q)
        /\ Resets(p)' <=> Resets(p)
        /\ ui'[p] # "asking"
    BY <1>2, <1>9, <1>13, <1>15
  <2>2. AnswerInv(c)
    BY <1>12 DEF EndInv
  <2>3. /\ In(c, q)' = In(c, q) /\ sock'[q] = sock[q] /\ sock'[p] = sock[p]
        /\ From(c)' = p /\ To(c)' = q /\ Open(c)' = Open(c)
    BY <1>12, <1>13, <1>14, <1>16
  <2> QED
    BY <1>16, <1>31, <2>1, <2>2, <2>3 DEF AnswerInv
<1>35. CancelInv(c)'
  BY <1>1, <1>2, <1>7, <1>9, <1>12, <1>13, <1>14, <1>15, <1>16, <1>31, <1>30 DEF EndInv, CancelInv, LinkInv, JobRules, CallerView
<1>36. RejectInv(c)'
  <2>1. /\ Holds(In(c, p)', "reject") <=> Holds(In(c, p), "reject")
        /\ Runs(q, "reset", "statusOff")' <=> Runs(q, "reset", "statusOff")
        /\ Resets(p)' <=> Resets(p)
    BY <1>2, <1>13, <1>15
  <2>2. RejectInv(c)
    BY <1>12 DEF EndInv
  <2> QED
    BY <1>12, <1>13, <1>14, <1>16, <2>1, <2>2 DEF RejectInv
<1>37. UntakenInv(c)'
  BY <1>1, <1>2, <1>7, <1>9, <1>12, <1>13, <1>14, <1>15, <1>16, <1>31 DEF EndInv, UntakenInv, LinkInv, JobRules
<1>38. LastInv(c)'
  <2>1. sock'[p] = c /\ Runs(p, "reset", "again")' => In(c, p)' = << >> /\ q \notin Open(c)'
    BY <1>1, <1>2, <1>9, <1>12, <1>13, <1>14, <1>15, LastIs DEF EndInv, Other, From, To
  <2>2. sock'[q] = c /\ Runs(q, "reset", "again")' => In(c, q)' = << >> /\ p \notin Open(c)'
    BY <1>12, <1>13, <1>14, <1>15, LastIs DEF EndInv, LinkInv
  <2> QED
    BY <2>1, <2>2, <1>12, <1>13, <1>14, LastIs
<1>39. ReadyInv(c)'
  <2>1. early' = {} /\ sock[q] = c /\ Told(c, p, q) => Told(c, p, q)'
    BY <1>1, <1>2, <1>9, <1>12, <1>13, <1>14, <1>15 DEF Told
  <2>2. early' = {} /\ sock[q] = c /\ Told(c, q, p) => Told(c, q, p)'
    BY <1>1, <1>2, <1>9, <1>12, <1>13, <1>14, <1>15 DEF Told
  <2> QED
    BY <2>1, <2>2, <1>12, <1>13, <1>14, ReadyIs
<1> QED
  BY <1>17, <1>18, <1>32, <1>33, <1>34, <1>35, <1>36, <1>37, <1>38, <1>39 DEF EndInv

LEMMA ParseRejectLink ==
    ASSUME TypeOK, TypeOK', NEW p \in Peers, NEW c \in DOMAIN links, Local(p), TlsInv(p), OnLink(p),
           ParseRejectDoes(p, c), mishaps' = {}, ~Doomed(p), ~Doomed(p)',
           c = sock[p], NEW q \in Peers, q = Other(c, p), Local(q), ReadyInv(c)
    PROVE  LinkInv(c)' /\ KeyInv(c)' /\ PhaseInv(c)' /\ EndInv(c)' /\ ReadyInv(c)'
<1>1. /\ Runs(p, "accept", "statusOn")' <=> Runs(p, "accept", "statusOn")
      /\ Runs(p, "initHigh", "statusOn")' <=> Runs(p, "initHigh", "statusOn")
      /\ Runs(p, "initLow", "statusOn")' <=> Runs(p, "initLow", "statusOn")
      /\ Runs(p, "statusOn", "statusOn")' <=> Runs(p, "statusOn", "statusOn")
      /\ Runs(p, "cancel", "reset")' <=> Runs(p, "cancel", "reset")
      /\ Runs(p, "reset", "reset")' <=> Runs(p, "reset", "reset")
      /\ Runs(p, "reject", "statusOff")' <=> Runs(p, "reject", "statusOff")
      /\ Runs(p, "reset", "statusOff")'
      /\ Runs(p, "statusOff", "statusOff")' <=> Runs(p, "statusOff", "statusOff")
      /\ Runs(p, "reset", "close")' <=> Runs(p, "reset", "close")
      /\ Runs(p, "close", "close")' <=> Runs(p, "close", "close")
      /\ Runs(p, "reset", "unconnected")' <=> Runs(p, "reset", "unconnected")
      /\ Runs(p, "lost", "unconnected")' <=> Runs(p, "lost", "unconnected")
      /\ Runs(p, "unconnected", "unconnected")' <=> Runs(p, "unconnected", "unconnected")
      /\ Runs(p, "reset", "again")' <=> Runs(p, "reset", "again")
      /\ Runs(p, "lost", "again")' <=> Runs(p, "lost", "again")
      /\ Runs(p, "again", "again")' <=> Runs(p, "again", "again")
      /\ Runs(p, "stop", "stop")' <=> Runs(p, "stop", "stop")
      /\ Runs(p, "ready", "ready")' <=> Runs(p, "ready", "ready")
      /\ Runs(p, "initFileSenders", "initFileSenders")' <=> Runs(p, "initFileSenders", "initFileSenders")
      /\ \A y : Doing(p, "dial", "request", y)' <=> Doing(p, "dial", "request", y)
      /\ \A y : Doing(p, "exchange", "request", y)' <=> Doing(p, "exchange", "request", y)
      /\ \A y : Doing(p, "connect", "request", y)' <=> Doing(p, "connect", "request", y)
      /\ \A y : Doing(p, "recvMsg", "request", y)' <=> Doing(p, "recvMsg", "request", y)
      /\ \A y : Doing(p, "request", "request", y)' <=> Doing(p, "request", "request", y)
      /\ \A y : Doing(p, "recvMsg", "established", y)' <=> Doing(p, "recvMsg", "established", y)
      /\ \A y : Doing(p, "established", "established", y)' <=> Doing(p, "established", "established", y)
      /\ \A y : Doing(p, "listen", "started", y)' <=> Doing(p, "listen", "started", y)
      /\ \A y : Doing(p, "started", "started", y)' <=> Doing(p, "started", "started", y)
  BY DEF ParseRejectDoes, Gets, Runs
<1>2. /\ Begun(p)' <=> Begun(p)
      /\ \A y : Asks(p, y)' <=> Asks(p, y)
      /\ ToDial(p)' <=> ToDial(p)
      /\ \A y : Adopts(p, y)' <=> Adopts(p, y)
      /\ Starting(p)' <=> Starting(p)
      /\ \A y : Starts(p, y)' <=> Starts(p, y)
      /\ Agrees(p)' <=> Agrees(p)
      /\ TakesBack(p)' <=> TakesBack(p)
      /\ Closes(p)' <=> Closes(p)
      /\ Ended(p)' <=> Ended(p)
  BY <1>1 DEF Adopts, Agrees, Asks, Begun, Closes, Ended, Starting, Starts, TakesBack, ToDial
<1>3. LinksKept /\ DOMAIN links' = DOMAIN links
  BY DEF ParseRejectDoes, LinksKept
<1>4. /\ Uses(p)' <=> Uses(p)
      /\ Calls(p)' <=> Calls(p)
      /\ Takes(p)' <=> Takes(p)
      /\ Uses(p) => /\ From(sock[p])' = From(sock[p]) /\ To(sock[p])' = To(sock[p])
                    /\ Other(sock[p], p)' = Other(sock[p], p)
  BY <1>3, SocketSame DEF ParseRejectDoes
<1>7. PeerFacts(p) /\ JobRules(p) /\ JobRules(p)' /\ Says(p)
  BY PeerIs, JobsAre, EndSays
<1>8. /\ status'[p] \in {"waiting", "tls", "tcp"} /\ sock'[p] \in DOMAIN links' \cup {Fresh, Nobody}
      /\ Fresh # Nobody /\ Fresh \notin DOMAIN links' /\ Nobody \notin DOMAIN links'
      /\ DOMAIN links' \subseteq Nat
      /\ engine'[p].listening \in BOOLEAN /\ engine'[p].started \in BOOLEAN /\ engine'[p].senders \in BOOLEAN
  BY PeerIsNext
<1>9. /\ Once(p) => Once(p)'
      /\ c \in Reads(p) /\ reading[p]
      /\ Head(In(c, p)).type = "reject" /\ Head(In(c, p)).key = key[p]
      /\ UNCHANGED <<status[p], sock[p], online[p], dialing[p], target[p], reading[p], connected[p], ids[p], partner[p], engine[p], asked[p], key[p], candidate[p], Reads(p)>>
      /\ ui'[p] = "idle"
      /\ c \in DOMAIN links /\ p \in {From(c), To(c)} /\ p \in Open(c) /\ Other(c, p) \in {From(c), To(c)} /\ Other(c, p) # p
      /\ In(c, p) # << >> /\ In(c, p)' = Tail(In(c, p)) /\ In(c, Other(c, p))' = In(c, Other(c, p))
  BY DEF ParseRejectDoes
<1>11. /\ ToDial(p) => /\ sock[p] = Nobody /\ status[p] = "waiting"
                      /\ ~Resets(p) /\ ~Closes(p) /\ ~Runs(p, "stop", "stop")
       /\ ToDial(p)' => /\ sock'[p] = Nobody /\ status'[p] = "waiting"
                       /\ ~Resets(p)' /\ ~Closes(p)' /\ ~Runs(p, "stop", "stop")'
  BY DEF Doomed, Busy
<1>5. Uses(p) /\ c = sock[p]
  BY PeerIs DEF PeerFacts, ParseRejectDoes, Local, ReadInv
<1>10. /\ Calls(p) /\ ~Begun(p) /\ ~Agrees(p) /\ ~connected[p] /\ ~asked[p]
       /\ ~Runs(p, "reset", "close") /\ ~Runs(p, "reset", "again")
  <2>1. HeadSays(p, "reject")
    BY <1>5, HeadMeans DEF ParseRejectDoes
  <2> QED
    BY <1>5, <1>7, <2>1 DEF HeadSays, Local, PlaceInv, SockInv, JobRules, PeerFacts
<1>12. /\ q # p /\ Open(c) \subseteq {p, q} /\ sock'[p] = c /\ sock[p] = c /\ Uses(p)
       /\ (From(c) = p /\ To(c) = q) \/ (From(c) = q /\ To(c) = p)
       /\ In(c, p) \in Seq(Message) /\ In(c, q) \in Seq(Message)
       /\ LinkInv(c) /\ KeyInv(c) /\ PhaseInv(c) /\ EndInv(c)
  <2>1. Uses(p) /\ p \in {From(c), To(c)}
    BY DEF Uses, Local, SockInv
  <2> QED
    BY <2>1, <1>9, LinkIs DEF OnLink, TypeOK, Other, From, To
<1>13. /\ sock'[q] = sock[q] /\ key'[q] = key[q] /\ asked'[q] = asked[q] /\ connected'[q] = connected[q]
       /\ ui'[q] = ui[q] /\ engine'[q] = engine[q]
       /\ \A h, l : Runs(q, h, l)' <=> Runs(q, h, l)
       /\ (Begun(q)' <=> Begun(q)) /\ (Resets(q)' <=> Resets(q)) /\ JobRules(q)
  <2>1. Untouched(q) /\ SameKey(q)
    BY <1>12 DEF ParseRejectDoes
  <2> QED
    BY <2>1, JobsSame, JobsAre DEF Untouched, SameKey
<1>14. /\ c \in DOMAIN links' /\ From(c)' = From(c) /\ To(c)' = To(c) /\ Open(c)' = Open(c) /\ Taken(c)' = Taken(c)
       /\ (\A r : Other(c, r)' = Other(c, r)) /\ (early' = {} => early = {})
       /\ In(c, p) # << >> /\ In(c, p)' = Tail(In(c, p)) /\ In(c, q)' = In(c, q)
  <2>1. Kept(c) /\ Open(c)' = Open(c) /\ Taken(c)' = Taken(c) /\ c \in DOMAIN links'
    BY DEF ParseRejectDoes
  <2>2. \A r : Other(c, r)' = Other(c, r)
    BY <2>1 DEF Kept, Other, From, To
  <2>3. In(c, p) # << >> /\ In(c, p)' = Tail(In(c, p)) /\ In(c, q)' = In(c, q)
    BY <2>2 DEF ParseRejectDoes, In
  <2> QED
    BY <1>12, <2>1, <2>2, <2>3 DEF Kept, Unmoved, ParseRejectDoes
<1>15. /\ \A ty : Holds(In(c, p), ty) <=> Holds(In(c, p)', ty) \/ ty = "reject"
       /\ \A ty : AtMostOne(In(c, p), ty) => AtMostOne(In(c, p)', ty) /\ (ty = "reject" => ~Holds(In(c, p)', ty))
       /\ \A k : Keyed(In(c, p), k) => Keyed(In(c, p)', k)
       /\ \A types : Only(In(c, p), types) => Only(In(c, p)', types) /\ "reject" \in types
       /\ InOrder(In(c, p)) => InOrder(In(c, p)') /\ ("reject" = "cancel" => ~Holds(In(c, p), "request"))
  BY <1>9, <1>12, <1>14, MessageTaken
<1>16. From(c) = p /\ To(c) = q
  BY <1>1, <1>2, <1>7, <1>9, <1>5, <1>10, <1>12 DEF PeerFacts, Local, PlaceInv, WindowInv, AskInv, Says, Calls, Takes, TakesBack, Begun, Asks, Adopts
<1>17. LinkInv(c)'
  BY <1>12, <1>13, <1>14 DEF LinkInv
<1>18. KeyInv(c)'
  <2>1. key'[p] = key[p] /\ key'[q] = key[q]
    BY <1>9, <1>13
  <2>2. /\ p \in Open(c) => Keyed(In(c, p)', key[p])
        /\ q \in Open(c) => Keyed(In(c, q)', key[q])
    BY <1>9, <1>12, <1>13, <1>14, <1>15, <1>16 DEF KeyInv
  <2>3. /\ From(c) = p => Only(In(c, p)', {"accept", "reject", "ready"}) /\ Only(In(c, q)', {"request", "cancel", "ready"})
        /\ From(c) = q => Only(In(c, q)', {"accept", "reject", "ready"}) /\ Only(In(c, p)', {"request", "cancel", "ready"})
    BY <1>9, <1>12, <1>13, <1>14, <1>15, <1>16 DEF KeyInv
  <2> QED
    BY <1>12, <1>14, <2>1, <2>2, <2>3, KeyKept
<1>30. CallerView(c, p, q) /\ CallerView(c, p, q)'
  BY <1>16, <1>12, <1>14, Views
<1>31. /\ Unsent(c)' <=> Unsent(c)
       /\ Underway(c)' <=> Underway(c)
       /\ Shown(c)' <=> Shown(c)
       /\ Accepting(c)' <=> Accepting(c)
       /\ Rejecting(c)' <=> Rejecting(c)
       /\ Refusal(c)
       /\ Refusal(c)'
       /\ AcceptSent(c)' <=> AcceptSent(c)
       /\ AcceptHeld(c)' <=> AcceptHeld(c)
       /\ Agreeing(c)' <=> Agreeing(c)
       /\ ~Unsent(c)
  BY <1>1, <1>2, <1>7, <1>9, <1>5, <1>10, <1>12, <1>13, <1>14, <1>15, <1>16, <1>30 DEF CallerView, Local, PlaceInv, PeerFacts, Says, Calls, Takes, PhaseInv
<1>32. PhaseInv(c)'
  BY <1>12, <1>13, <1>14, <1>15, <1>16, <1>30, <1>31 DEF PhaseInv, CallerView
<1>33. BothInv(c)'
  BY <1>1, <1>2, <1>7, <1>9, <1>12, <1>13, <1>14, <1>15, <1>16, <1>31 DEF EndInv, BothInv, LinkInv, JobRules
<1>34. AnswerInv(c)'
  BY <1>1, <1>2, <1>7, <1>9, <1>12, <1>13, <1>14, <1>15, <1>16, <1>31 DEF EndInv, AnswerInv, LinkInv, JobRules
<1>35. CancelInv(c)'
  BY <1>1, <1>2, <1>7, <1>9, <1>12, <1>13, <1>14, <1>15, <1>16, <1>31, <1>30 DEF EndInv, CancelInv, LinkInv, JobRules, CallerView
<1>36. RejectInv(c)'
  BY <1>1, <1>2, <1>7, <1>9, <1>12, <1>13, <1>14, <1>15, <1>16, <1>31 DEF EndInv, RejectInv, LinkInv, JobRules
<1>37. UntakenInv(c)'
  BY <1>1, <1>2, <1>7, <1>9, <1>12, <1>13, <1>14, <1>15, <1>16, <1>31 DEF EndInv, UntakenInv, LinkInv, JobRules
<1>38. LastInv(c)'
  <2>1. sock'[p] = c /\ Runs(p, "reset", "again")' => In(c, p)' = << >> /\ q \notin Open(c)'
    BY <1>1, <1>2, <1>9, <1>12, <1>13, <1>14, <1>15, LastIs DEF EndInv, Other, From, To
  <2>2. sock'[q] = c /\ Runs(q, "reset", "again")' => In(c, q)' = << >> /\ p \notin Open(c)'
    BY <1>12, <1>13, <1>14, <1>15, LastIs DEF EndInv, LinkInv
  <2> QED
    BY <2>1, <2>2, <1>12, <1>13, <1>14, LastIs
<1>39. ReadyInv(c)'
  <2>1. early' = {} /\ sock[q] = c /\ Told(c, p, q) => Told(c, p, q)'
    BY <1>1, <1>2, <1>9, <1>12, <1>13, <1>14, <1>15 DEF Told
  <2>2. early' = {} /\ sock[q] = c /\ Told(c, q, p) => Told(c, q, p)'
    BY <1>1, <1>2, <1>9, <1>12, <1>13, <1>14, <1>15 DEF Told
  <2> QED
    BY <2>1, <2>2, <1>12, <1>13, <1>14, ReadyIs
<1> QED
  BY <1>17, <1>18, <1>32, <1>33, <1>34, <1>35, <1>36, <1>37, <1>38, <1>39 DEF EndInv

LEMMA ParseCancelLink ==
    ASSUME TypeOK, TypeOK', NEW p \in Peers, NEW c \in DOMAIN links, Local(p), TlsInv(p), OnLink(p),
           ParseCancelDoes(p, c), mishaps' = {}, ~Doomed(p), ~Doomed(p)',
           c = sock[p], NEW q \in Peers, q = Other(c, p), Local(q), ReadyInv(c)
    PROVE  LinkInv(c)' /\ KeyInv(c)' /\ PhaseInv(c)' /\ EndInv(c)' /\ ReadyInv(c)'
<1>1. /\ Runs(p, "accept", "statusOn")' <=> Runs(p, "accept", "statusOn")
      /\ Runs(p, "initHigh", "statusOn")' <=> Runs(p, "initHigh", "statusOn")
      /\ Runs(p, "initLow", "statusOn")' <=> Runs(p, "initLow", "statusOn")
      /\ Runs(p, "statusOn", "statusOn")' <=> Runs(p, "statusOn", "statusOn")
      /\ Runs(p, "cancel", "reset")' <=> Runs(p, "cancel", "reset")
      /\ Runs(p, "reset", "reset")'
      /\ Runs(p, "reject", "statusOff")' <=> Runs(p, "reject", "statusOff")
      /\ Runs(p, "reset", "statusOff")' <=> Runs(p, "reset", "statusOff")
      /\ Runs(p, "statusOff", "statusOff")' <=> Runs(p, "statusOff", "statusOff")
      /\ Runs(p, "reset", "close")' <=> Runs(p, "reset", "close")
      /\ Runs(p, "close", "close")' <=> Runs(p, "close", "close")
      /\ Runs(p, "reset", "unconnected")' <=> Runs(p, "reset", "unconnected")
      /\ Runs(p, "lost", "unconnected")' <=> Runs(p, "lost", "unconnected")
      /\ Runs(p, "unconnected", "unconnected")' <=> Runs(p, "unconnected", "unconnected")
      /\ Runs(p, "reset", "again")' <=> Runs(p, "reset", "again")
      /\ Runs(p, "lost", "again")' <=> Runs(p, "lost", "again")
      /\ Runs(p, "again", "again")' <=> Runs(p, "again", "again")
      /\ Runs(p, "stop", "stop")' <=> Runs(p, "stop", "stop")
      /\ Runs(p, "ready", "ready")' <=> Runs(p, "ready", "ready")
      /\ Runs(p, "initFileSenders", "initFileSenders")' <=> Runs(p, "initFileSenders", "initFileSenders")
      /\ \A y : Doing(p, "dial", "request", y)' <=> Doing(p, "dial", "request", y)
      /\ \A y : Doing(p, "exchange", "request", y)' <=> Doing(p, "exchange", "request", y)
      /\ \A y : Doing(p, "connect", "request", y)' <=> Doing(p, "connect", "request", y)
      /\ \A y : Doing(p, "recvMsg", "request", y)' <=> Doing(p, "recvMsg", "request", y)
      /\ \A y : Doing(p, "request", "request", y)' <=> Doing(p, "request", "request", y)
      /\ \A y : Doing(p, "recvMsg", "established", y)' <=> Doing(p, "recvMsg", "established", y)
      /\ \A y : Doing(p, "established", "established", y)' <=> Doing(p, "established", "established", y)
      /\ \A y : Doing(p, "listen", "started", y)' <=> Doing(p, "listen", "started", y)
      /\ \A y : Doing(p, "started", "started", y)' <=> Doing(p, "started", "started", y)
  BY DEF ParseCancelDoes, Gets, Runs
<1>2. /\ Begun(p)' <=> Begun(p)
      /\ \A y : Asks(p, y)' <=> Asks(p, y)
      /\ ToDial(p)' <=> ToDial(p)
      /\ \A y : Adopts(p, y)' <=> Adopts(p, y)
      /\ Starting(p)' <=> Starting(p)
      /\ \A y : Starts(p, y)' <=> Starts(p, y)
      /\ Agrees(p)' <=> Agrees(p)
      /\ TakesBack(p)' <=> TakesBack(p)
      /\ Closes(p)' <=> Closes(p)
      /\ Ended(p)' <=> Ended(p)
  BY <1>1 DEF Adopts, Agrees, Asks, Begun, Closes, Ended, Starting, Starts, TakesBack, ToDial
<1>3. LinksKept /\ DOMAIN links' = DOMAIN links
  BY DEF ParseCancelDoes, LinksKept
<1>4. /\ Uses(p)' <=> Uses(p)
      /\ Calls(p)' <=> Calls(p)
      /\ Takes(p)' <=> Takes(p)
      /\ Uses(p) => /\ From(sock[p])' = From(sock[p]) /\ To(sock[p])' = To(sock[p])
                    /\ Other(sock[p], p)' = Other(sock[p], p)
  BY <1>3, SocketSame DEF ParseCancelDoes
<1>7. PeerFacts(p) /\ JobRules(p) /\ JobRules(p)' /\ Says(p)
  BY PeerIs, JobsAre, EndSays
<1>8. /\ status'[p] \in {"waiting", "tls", "tcp"} /\ sock'[p] \in DOMAIN links' \cup {Fresh, Nobody}
      /\ Fresh # Nobody /\ Fresh \notin DOMAIN links' /\ Nobody \notin DOMAIN links'
      /\ DOMAIN links' \subseteq Nat
      /\ engine'[p].listening \in BOOLEAN /\ engine'[p].started \in BOOLEAN /\ engine'[p].senders \in BOOLEAN
  BY PeerIsNext
<1>9. /\ Once(p) => Once(p)'
      /\ c \in Reads(p) /\ reading[p]
      /\ Head(In(c, p)).type = "cancel" /\ Head(In(c, p)).key = key[p]
      /\ UNCHANGED <<status[p], sock[p], online[p], dialing[p], target[p], reading[p], connected[p], ids[p], partner[p], engine[p], ui[p], key[p], candidate[p], Reads(p)>>
      /\ asked'[p] = FALSE
      /\ c \in DOMAIN links /\ p \in {From(c), To(c)} /\ p \in Open(c) /\ Other(c, p) \in {From(c), To(c)} /\ Other(c, p) # p
      /\ In(c, p) # << >> /\ In(c, p)' = Tail(In(c, p)) /\ In(c, Other(c, p))' = In(c, Other(c, p))
  BY DEF ParseCancelDoes
<1>11. /\ ToDial(p) => /\ sock[p] = Nobody /\ status[p] = "waiting"
                      /\ ~Resets(p) /\ ~Closes(p) /\ ~Runs(p, "stop", "stop")
       /\ ToDial(p)' => /\ sock'[p] = Nobody /\ status'[p] = "waiting"
                       /\ ~Resets(p)' /\ ~Closes(p)' /\ ~Runs(p, "stop", "stop")'
  BY DEF Doomed, Busy
<1>5. Uses(p) /\ c = sock[p]
  BY PeerIs DEF PeerFacts, ParseCancelDoes, Local, ReadInv
<1>10. /\ Takes(p) /\ ~Begun(p) /\ ui[p] # "asking"
  <2>1. HeadSays(p, "cancel")
    BY <1>5, HeadMeans DEF ParseCancelDoes
  <2> QED
    BY <1>5, <1>7, <2>1 DEF HeadSays, Local, PlaceInv, SockInv, JobRules, PeerFacts
<1>12. /\ q # p /\ Open(c) \subseteq {p, q} /\ sock'[p] = c /\ sock[p] = c /\ Uses(p)
       /\ (From(c) = p /\ To(c) = q) \/ (From(c) = q /\ To(c) = p)
       /\ In(c, p) \in Seq(Message) /\ In(c, q) \in Seq(Message)
       /\ LinkInv(c) /\ KeyInv(c) /\ PhaseInv(c) /\ EndInv(c)
  <2>1. Uses(p) /\ p \in {From(c), To(c)}
    BY DEF Uses, Local, SockInv
  <2> QED
    BY <2>1, <1>9, LinkIs DEF OnLink, TypeOK, Other, From, To
<1>13. /\ sock'[q] = sock[q] /\ key'[q] = key[q] /\ asked'[q] = asked[q] /\ connected'[q] = connected[q]
       /\ ui'[q] = ui[q] /\ engine'[q] = engine[q]
       /\ \A h, l : Runs(q, h, l)' <=> Runs(q, h, l)
       /\ (Begun(q)' <=> Begun(q)) /\ (Resets(q)' <=> Resets(q)) /\ JobRules(q)
  <2>1. Untouched(q) /\ SameKey(q)
    BY <1>12 DEF ParseCancelDoes
  <2> QED
    BY <2>1, JobsSame, JobsAre DEF Untouched, SameKey
<1>14. /\ c \in DOMAIN links' /\ From(c)' = From(c) /\ To(c)' = To(c) /\ Open(c)' = Open(c) /\ Taken(c)' = Taken(c)
       /\ (\A r : Other(c, r)' = Other(c, r)) /\ (early' = {} => early = {})
       /\ In(c, p) # << >> /\ In(c, p)' = Tail(In(c, p)) /\ In(c, q)' = In(c, q)
  <2>1. Kept(c) /\ Open(c)' = Open(c) /\ Taken(c)' = Taken(c) /\ c \in DOMAIN links'
    BY DEF ParseCancelDoes
  <2>2. \A r : Other(c, r)' = Other(c, r)
    BY <2>1 DEF Kept, Other, From, To
  <2>3. In(c, p) # << >> /\ In(c, p)' = Tail(In(c, p)) /\ In(c, q)' = In(c, q)
    BY <2>2 DEF ParseCancelDoes, In
  <2> QED
    BY <1>12, <2>1, <2>2, <2>3 DEF Kept, Unmoved, ParseCancelDoes
<1>15. /\ \A ty : Holds(In(c, p), ty) <=> Holds(In(c, p)', ty) \/ ty = "cancel"
       /\ \A ty : AtMostOne(In(c, p), ty) => AtMostOne(In(c, p)', ty) /\ (ty = "cancel" => ~Holds(In(c, p)', ty))
       /\ \A k : Keyed(In(c, p), k) => Keyed(In(c, p)', k)
       /\ \A types : Only(In(c, p), types) => Only(In(c, p)', types) /\ "cancel" \in types
       /\ InOrder(In(c, p)) => InOrder(In(c, p)') /\ ("cancel" = "cancel" => ~Holds(In(c, p), "request"))
  BY <1>9, <1>12, <1>14, MessageTaken
<1>16. From(c) = q /\ To(c) = p
  BY <1>1, <1>2, <1>7, <1>9, <1>5, <1>10, <1>12 DEF PeerFacts, Local, PlaceInv, WindowInv, AskInv, Says, Calls, Takes, TakesBack, Begun, Asks, Adopts
<1>17. LinkInv(c)'
  BY <1>12, <1>13, <1>14 DEF LinkInv
<1>18. KeyInv(c)'
  <2>1. key'[p] = key[p] /\ key'[q] = key[q]
    BY <1>9, <1>13
  <2>2. /\ p \in Open(c) => Keyed(In(c, p)', key[p])
        /\ q \in Open(c) => Keyed(In(c, q)', key[q])
    BY <1>9, <1>12, <1>13, <1>14, <1>15, <1>16 DEF KeyInv
  <2>3. /\ From(c) = p => Only(In(c, p)', {"accept", "reject", "ready"}) /\ Only(In(c, q)', {"request", "cancel", "ready"})
        /\ From(c) = q => Only(In(c, q)', {"accept", "reject", "ready"}) /\ Only(In(c, p)', {"request", "cancel", "ready"})
    BY <1>9, <1>12, <1>13, <1>14, <1>15, <1>16 DEF KeyInv
  <2> QED
    BY <1>12, <1>14, <2>1, <2>2, <2>3, KeyKept
<1>60. TakerView(c, p, q) /\ TakerView(c, p, q)'
  BY <1>16, <1>12, <1>14, Views
<1>61. /\ Unsent(c)' <=> Unsent(c)
       /\ Underway(c)' <=> Underway(c)
       /\ ~Shown(c)'
       /\ Accepting(c)' <=> Accepting(c)
       /\ Rejecting(c)' <=> Rejecting(c)
       /\ Refusal(c)' <=> Refusal(c)
       /\ AcceptSent(c)' <=> AcceptSent(c)
       /\ AcceptHeld(c)' <=> AcceptHeld(c)
       /\ Agreeing(c)' <=> Agreeing(c)
       /\ ~Underway(c)
       /\ ~Unsent(c)
       /\ Runs(p, "reset", "reset")'
  BY <1>1, <1>2, <1>7, <1>9, <1>5, <1>10, <1>12, <1>13, <1>14, <1>15, <1>16, <1>60 DEF TakerView, Local, PlaceInv, PeerFacts, Says, Calls, Takes, PhaseInv, EndInv, CancelInv
<1>62. PhaseInv(c)'
  BY <1>12, <1>13, <1>14, <1>15, <1>16, <1>60, <1>61 DEF PhaseInv, TakerView
<1>63. BothInv(c)'
  BY <1>1, <1>2, <1>7, <1>9, <1>12, <1>13, <1>14, <1>15, <1>16, <1>61 DEF EndInv, BothInv, LinkInv, JobRules
<1>64. AnswerInv(c)'
  BY <1>1, <1>2, <1>7, <1>9, <1>12, <1>13, <1>14, <1>15, <1>16, <1>61 DEF EndInv, AnswerInv, LinkInv, JobRules
<1>65. CancelInv(c)'
  <2>1. InOrder(In(c, p)) => InOrder(In(c, p)')
    BY <1>15
  <2>2. /\ Holds(In(c, p), "cancel") => sock[q] # c \/ Runs(q, "reset", "reset")
        /\ InOrder(In(c, p)) /\ Holds(In(c, p), "cancel")
    BY <1>12, <1>15, <1>16 DEF EndInv, CancelInv
  <2> QED
    BY <1>12, <1>13, <1>14, <1>16, <1>61, <2>1, <2>2 DEF CancelInv
<1>66. RejectInv(c)'
  BY <1>1, <1>2, <1>7, <1>9, <1>12, <1>13, <1>14, <1>15, <1>16, <1>61 DEF EndInv, RejectInv, LinkInv, JobRules
<1>67. UntakenInv(c)'
  BY <1>1, <1>2, <1>7, <1>9, <1>12, <1>13, <1>14, <1>15, <1>16, <1>61 DEF EndInv, UntakenInv, LinkInv, JobRules
<1>68. LastInv(c)'
  <2>1. sock'[p] = c /\ Runs(p, "reset", "again")' => In(c, p)' = << >> /\ q \notin Open(c)'
    BY <1>1, <1>2, <1>9, <1>12, <1>13, <1>14, <1>15, LastIs DEF EndInv, Other, From, To
  <2>2. sock'[q] = c /\ Runs(q, "reset", "again")' => In(c, q)' = << >> /\ p \notin Open(c)'
    BY <1>12, <1>13, <1>14, <1>15, LastIs DEF EndInv, LinkInv
  <2> QED
    BY <2>1, <2>2, <1>12, <1>13, <1>14, LastIs
<1>69. ReadyInv(c)'
  <2>1. early' = {} /\ sock[q] = c /\ Told(c, p, q) => Told(c, p, q)'
    BY <1>1, <1>2, <1>9, <1>12, <1>13, <1>14, <1>15 DEF Told
  <2>2. early' = {} /\ sock[q] = c /\ Told(c, q, p) => Told(c, q, p)'
    BY <1>1, <1>2, <1>9, <1>12, <1>13, <1>14, <1>15 DEF Told
  <2> QED
    BY <2>1, <2>2, <1>12, <1>13, <1>14, ReadyIs
<1> QED
  BY <1>17, <1>18, <1>62, <1>63, <1>64, <1>65, <1>66, <1>67, <1>68, <1>69 DEF EndInv

LEMMA ParseReadyLink ==
    ASSUME TypeOK, TypeOK', NEW p \in Peers, NEW c \in DOMAIN links, Local(p), TlsInv(p), OnLink(p),
           ParseReadyDoes(p, c), mishaps' = {}, ~Doomed(p), ~Doomed(p)',
           c = sock[p], NEW q \in Peers, q = Other(c, p), Local(q), ReadyInv(c)
    PROVE  LinkInv(c)' /\ KeyInv(c)' /\ PhaseInv(c)' /\ EndInv(c)' /\ ReadyInv(c)'
<1>1. /\ Runs(p, "accept", "statusOn")' <=> Runs(p, "accept", "statusOn")
      /\ Runs(p, "initHigh", "statusOn")' <=> Runs(p, "initHigh", "statusOn")
      /\ Runs(p, "initLow", "statusOn")' <=> Runs(p, "initLow", "statusOn")
      /\ Runs(p, "statusOn", "statusOn")' <=> Runs(p, "statusOn", "statusOn")
      /\ Runs(p, "cancel", "reset")' <=> Runs(p, "cancel", "reset")
      /\ Runs(p, "reset", "reset")' <=> Runs(p, "reset", "reset")
      /\ Runs(p, "reject", "statusOff")' <=> Runs(p, "reject", "statusOff")
      /\ Runs(p, "reset", "statusOff")' <=> Runs(p, "reset", "statusOff")
      /\ Runs(p, "statusOff", "statusOff")' <=> Runs(p, "statusOff", "statusOff")
      /\ Runs(p, "reset", "close")' <=> Runs(p, "reset", "close")
      /\ Runs(p, "close", "close")' <=> Runs(p, "close", "close")
      /\ Runs(p, "reset", "unconnected")' <=> Runs(p, "reset", "unconnected")
      /\ Runs(p, "lost", "unconnected")' <=> Runs(p, "lost", "unconnected")
      /\ Runs(p, "unconnected", "unconnected")' <=> Runs(p, "unconnected", "unconnected")
      /\ Runs(p, "reset", "again")' <=> Runs(p, "reset", "again")
      /\ Runs(p, "lost", "again")' <=> Runs(p, "lost", "again")
      /\ Runs(p, "again", "again")' <=> Runs(p, "again", "again")
      /\ Runs(p, "stop", "stop")' <=> Runs(p, "stop", "stop")
      /\ Runs(p, "ready", "ready")' <=> Runs(p, "ready", "ready")
      /\ Runs(p, "initFileSenders", "initFileSenders")'
      /\ \A y : Doing(p, "dial", "request", y)' <=> Doing(p, "dial", "request", y)
      /\ \A y : Doing(p, "exchange", "request", y)' <=> Doing(p, "exchange", "request", y)
      /\ \A y : Doing(p, "connect", "request", y)' <=> Doing(p, "connect", "request", y)
      /\ \A y : Doing(p, "recvMsg", "request", y)' <=> Doing(p, "recvMsg", "request", y)
      /\ \A y : Doing(p, "request", "request", y)' <=> Doing(p, "request", "request", y)
      /\ \A y : Doing(p, "recvMsg", "established", y)' <=> Doing(p, "recvMsg", "established", y)
      /\ \A y : Doing(p, "established", "established", y)' <=> Doing(p, "established", "established", y)
      /\ \A y : Doing(p, "listen", "started", y)' <=> Doing(p, "listen", "started", y)
      /\ \A y : Doing(p, "started", "started", y)' <=> Doing(p, "started", "started", y)
  BY DEF ParseReadyDoes, Gets, Runs
<1>2. /\ Begun(p)' <=> Begun(p)
      /\ \A y : Asks(p, y)' <=> Asks(p, y)
      /\ ToDial(p)' <=> ToDial(p)
      /\ \A y : Adopts(p, y)' <=> Adopts(p, y)
      /\ Starting(p)' <=> Starting(p)
      /\ \A y : Starts(p, y)' <=> Starts(p, y)
      /\ Agrees(p)' <=> Agrees(p)
      /\ TakesBack(p)' <=> TakesBack(p)
      /\ Leaves(p)' <=> Leaves(p)
      /\ Closes(p)' <=> Closes(p)
      /\ Resets(p)' <=> Resets(p)
      /\ Ended(p)' <=> Ended(p)
  BY <1>1 DEF Adopts, Agrees, Asks, Begun, Closes, Ended, Leaves, Resets, Starting, Starts, TakesBack, ToDial
<1>3. LinksKept /\ DOMAIN links' = DOMAIN links
  BY DEF ParseReadyDoes, LinksKept
<1>4. /\ Uses(p)' <=> Uses(p)
      /\ Calls(p)' <=> Calls(p)
      /\ Takes(p)' <=> Takes(p)
      /\ Uses(p) => /\ From(sock[p])' = From(sock[p]) /\ To(sock[p])' = To(sock[p])
                    /\ Other(sock[p], p)' = Other(sock[p], p)
  BY <1>3, SocketSame DEF ParseReadyDoes
<1>7. PeerFacts(p) /\ JobRules(p) /\ JobRules(p)' /\ Says(p)
  BY PeerIs, JobsAre, EndSays
<1>8. /\ status'[p] \in {"waiting", "tls", "tcp"} /\ sock'[p] \in DOMAIN links' \cup {Fresh, Nobody}
      /\ Fresh # Nobody /\ Fresh \notin DOMAIN links' /\ Nobody \notin DOMAIN links'
      /\ DOMAIN links' \subseteq Nat
      /\ engine'[p].listening \in BOOLEAN /\ engine'[p].started \in BOOLEAN /\ engine'[p].senders \in BOOLEAN
  BY PeerIsNext
<1>9. /\ Once(p) => Once(p)'
      /\ c \in Reads(p) /\ reading[p]
      /\ Head(In(c, p)).type = "ready" /\ Head(In(c, p)).key = key[p]
      /\ UNCHANGED <<status[p], sock[p], online[p], dialing[p], target[p], reading[p], connected[p], ids[p], partner[p], engine[p], ui[p], asked[p], key[p], candidate[p], Reads(p)>>
      /\ c \in DOMAIN links /\ p \in {From(c), To(c)} /\ p \in Open(c) /\ Other(c, p) \in {From(c), To(c)} /\ Other(c, p) # p
      /\ In(c, p) # << >> /\ In(c, p)' = Tail(In(c, p)) /\ In(c, Other(c, p))' = In(c, Other(c, p))
  BY DEF ParseReadyDoes
<1>11. /\ ToDial(p) => /\ sock[p] = Nobody /\ status[p] = "waiting"
                      /\ ~Resets(p) /\ ~Closes(p) /\ ~Runs(p, "stop", "stop")
       /\ ToDial(p)' => /\ sock'[p] = Nobody /\ status'[p] = "waiting"
                       /\ ~Resets(p)' /\ ~Closes(p)' /\ ~Runs(p, "stop", "stop")'
  BY DEF Doomed, Busy
<1>5. Uses(p) /\ c = sock[p]
  BY PeerIs DEF PeerFacts, ParseReadyDoes, Local, ReadInv
<1>12. /\ q # p /\ Open(c) \subseteq {p, q} /\ sock'[p] = c /\ sock[p] = c /\ Uses(p)
       /\ (From(c) = p /\ To(c) = q) \/ (From(c) = q /\ To(c) = p)
       /\ In(c, p) \in Seq(Message) /\ In(c, q) \in Seq(Message)
       /\ LinkInv(c) /\ KeyInv(c) /\ PhaseInv(c) /\ EndInv(c)
  <2>1. Uses(p) /\ p \in {From(c), To(c)}
    BY DEF Uses, Local, SockInv
  <2> QED
    BY <2>1, <1>9, LinkIs DEF OnLink, TypeOK, Other, From, To
<1>13. /\ sock'[q] = sock[q] /\ key'[q] = key[q] /\ asked'[q] = asked[q] /\ connected'[q] = connected[q]
       /\ ui'[q] = ui[q] /\ engine'[q] = engine[q]
       /\ \A h, l : Runs(q, h, l)' <=> Runs(q, h, l)
       /\ (Begun(q)' <=> Begun(q)) /\ (Resets(q)' <=> Resets(q)) /\ JobRules(q)
  <2>1. Untouched(q) /\ SameKey(q)
    BY <1>12 DEF ParseReadyDoes
  <2> QED
    BY <2>1, JobsSame, JobsAre DEF Untouched, SameKey
<1>14. /\ c \in DOMAIN links' /\ From(c)' = From(c) /\ To(c)' = To(c) /\ Open(c)' = Open(c) /\ Taken(c)' = Taken(c)
       /\ (\A r : Other(c, r)' = Other(c, r)) /\ (early' = {} => early = {})
       /\ In(c, p) # << >> /\ In(c, p)' = Tail(In(c, p)) /\ In(c, q)' = In(c, q)
  <2>1. Kept(c) /\ Open(c)' = Open(c) /\ Taken(c)' = Taken(c) /\ c \in DOMAIN links'
    BY DEF ParseReadyDoes
  <2>2. \A r : Other(c, r)' = Other(c, r)
    BY <2>1 DEF Kept, Other, From, To
  <2>3. In(c, p) # << >> /\ In(c, p)' = Tail(In(c, p)) /\ In(c, q)' = In(c, q)
    BY <2>2 DEF ParseReadyDoes, In
  <2> QED
    BY <1>12, <2>1, <2>2, <2>3 DEF Kept, Unmoved, ParseReadyDoes
<1>15. /\ \A ty : Holds(In(c, p), ty) <=> Holds(In(c, p)', ty) \/ ty = "ready"
       /\ \A ty : AtMostOne(In(c, p), ty) => AtMostOne(In(c, p)', ty) /\ (ty = "ready" => ~Holds(In(c, p)', ty))
       /\ \A k : Keyed(In(c, p), k) => Keyed(In(c, p)', k)
       /\ \A types : Only(In(c, p), types) => Only(In(c, p)', types) /\ "ready" \in types
       /\ InOrder(In(c, p)) => InOrder(In(c, p)') /\ ("ready" = "cancel" => ~Holds(In(c, p), "request"))
  BY <1>9, <1>12, <1>14, MessageTaken
<1>30. EndKept(c, q)
  BY <1>12, <1>13 DEF EndKept
<1>31. EndKept(c, p)
  BY <1>1, <1>2, <1>7, <1>9, <1>12 DEF EndKept, Calls, Takes, Local, PlaceInv, JobRules
<1>32. BoxKept(c, p) /\ BoxKept(c, q)
  BY <1>12, <1>13, <1>14, <1>15 DEF BoxKept, Other
<1>33. PhaseInv(c)' /\ EndInv(c)'
  BY <1>12, <1>14, <1>30, <1>31, <1>32, LinkKept
<1>34. LinkInv(c)'
  BY <1>12, <1>13, <1>14 DEF LinkInv
<1>35. KeyInv(c)'
  <2>1. key'[p] = key[p] /\ key'[q] = key[q]
    BY <1>9, <1>13
  <2>2. /\ p \in Open(c) => Keyed(In(c, p)', key[p])
        /\ q \in Open(c) => Keyed(In(c, q)', key[q])
    BY <1>9, <1>12, <1>13, <1>14, <1>15 DEF KeyInv
  <2>3. /\ From(c) = p => Only(In(c, p)', {"accept", "reject", "ready"}) /\ Only(In(c, q)', {"request", "cancel", "ready"})
        /\ From(c) = q => Only(In(c, q)', {"accept", "reject", "ready"}) /\ Only(In(c, p)', {"request", "cancel", "ready"})
    BY <1>9, <1>12, <1>13, <1>14, <1>15 DEF KeyInv
  <2> QED
    BY <1>12, <1>14, <2>1, <2>2, <2>3, KeyKept
<1>36. ReadyInv(c)'
  <2>1. early' = {} /\ sock[q] = c /\ Told(c, p, q) => Told(c, p, q)'
    BY <1>1, <1>2, <1>9, <1>12, <1>13, <1>14, <1>15 DEF Told
  <2>2. early' = {} /\ sock[q] = c /\ Told(c, q, p) => Told(c, q, p)'
    BY <1>1, <1>2, <1>9, <1>12, <1>13, <1>14, <1>15 DEF Told
  <2> QED
    BY <2>1, <2>2, <1>12, <1>13, <1>14, ReadyIs
<1> QED
  BY <1>33, <1>34, <1>35, <1>36

LEMMA SeesEndLink ==
    ASSUME TypeOK, TypeOK', NEW p \in Peers, NEW c \in DOMAIN links, Local(p), TlsInv(p), OnLink(p),
           SeesEndDoes(p, c), mishaps' = {}, ~Doomed(p), ~Doomed(p)',
           c = sock[p], NEW q \in Peers, q = Other(c, p), Local(q), ReadyInv(c)
    PROVE  LinkInv(c)' /\ KeyInv(c)' /\ PhaseInv(c)' /\ EndInv(c)' /\ ReadyInv(c)'
<1>1. /\ Runs(p, "accept", "statusOn")' <=> Runs(p, "accept", "statusOn")
      /\ Runs(p, "initHigh", "statusOn")' <=> Runs(p, "initHigh", "statusOn")
      /\ Runs(p, "initLow", "statusOn")' <=> Runs(p, "initLow", "statusOn")
      /\ Runs(p, "statusOn", "statusOn")' <=> Runs(p, "statusOn", "statusOn")
      /\ Runs(p, "cancel", "reset")' <=> Runs(p, "cancel", "reset")
      /\ Runs(p, "reset", "reset")' <=> Runs(p, "reset", "reset")
      /\ Runs(p, "reject", "statusOff")' <=> Runs(p, "reject", "statusOff")
      /\ Runs(p, "reset", "statusOff")' <=> Runs(p, "reset", "statusOff")
      /\ Runs(p, "statusOff", "statusOff")' <=> Runs(p, "statusOff", "statusOff")
      /\ Runs(p, "reset", "close")' <=> Runs(p, "reset", "close")
      /\ Runs(p, "close", "close")' <=> Runs(p, "close", "close")
      /\ Runs(p, "reset", "unconnected")' <=> Runs(p, "reset", "unconnected")
      /\ Runs(p, "lost", "unconnected")' <=> Runs(p, "lost", "unconnected")
      /\ Runs(p, "unconnected", "unconnected")' <=> Runs(p, "unconnected", "unconnected")
      /\ Runs(p, "reset", "again")'
      /\ Runs(p, "lost", "again")' <=> Runs(p, "lost", "again")
      /\ Runs(p, "again", "again")' <=> Runs(p, "again", "again")
      /\ Runs(p, "stop", "stop")' <=> Runs(p, "stop", "stop")
      /\ Runs(p, "ready", "ready")' <=> Runs(p, "ready", "ready")
      /\ Runs(p, "initFileSenders", "initFileSenders")' <=> Runs(p, "initFileSenders", "initFileSenders")
      /\ \A y : Doing(p, "dial", "request", y)' <=> Doing(p, "dial", "request", y)
      /\ \A y : Doing(p, "exchange", "request", y)' <=> Doing(p, "exchange", "request", y)
      /\ \A y : Doing(p, "connect", "request", y)' <=> Doing(p, "connect", "request", y)
      /\ \A y : Doing(p, "recvMsg", "request", y)' <=> Doing(p, "recvMsg", "request", y)
      /\ \A y : Doing(p, "request", "request", y)' <=> Doing(p, "request", "request", y)
      /\ \A y : Doing(p, "recvMsg", "established", y)' <=> Doing(p, "recvMsg", "established", y)
      /\ \A y : Doing(p, "established", "established", y)' <=> Doing(p, "established", "established", y)
      /\ \A y : Doing(p, "listen", "started", y)' <=> Doing(p, "listen", "started", y)
      /\ \A y : Doing(p, "started", "started", y)' <=> Doing(p, "started", "started", y)
  BY DEF SeesEndDoes, Gets, Runs
<1>2. /\ Begun(p)' <=> Begun(p)
      /\ \A y : Asks(p, y)' <=> Asks(p, y)
      /\ ToDial(p)' <=> ToDial(p)
      /\ \A y : Adopts(p, y)' <=> Adopts(p, y)
      /\ Starting(p)' <=> Starting(p)
      /\ \A y : Starts(p, y)' <=> Starts(p, y)
      /\ Agrees(p)' <=> Agrees(p)
      /\ TakesBack(p)' <=> TakesBack(p)
      /\ Closes(p)' <=> Closes(p)
      /\ Ended(p)' <=> Ended(p)
  BY <1>1 DEF Adopts, Agrees, Asks, Begun, Closes, Ended, Starting, Starts, TakesBack, ToDial
<1>3. LinksKept /\ DOMAIN links' = DOMAIN links
  BY LinksStay DEF SeesEndDoes, TypeOK, LinksKept
<1>4. /\ Uses(p)' <=> Uses(p)
      /\ Calls(p)' <=> Calls(p)
      /\ Takes(p)' <=> Takes(p)
      /\ Uses(p) => /\ From(sock[p])' = From(sock[p]) /\ To(sock[p])' = To(sock[p])
                    /\ Other(sock[p], p)' = Other(sock[p], p)
  BY <1>3, SocketSame DEF SeesEndDoes
<1>7. PeerFacts(p) /\ JobRules(p) /\ JobRules(p)' /\ Says(p)
  BY PeerIs, JobsAre, EndSays
<1>8. /\ status'[p] \in {"waiting", "tls", "tcp"} /\ sock'[p] \in DOMAIN links' \cup {Fresh, Nobody}
      /\ Fresh # Nobody /\ Fresh \notin DOMAIN links' /\ Nobody \notin DOMAIN links'
      /\ DOMAIN links' \subseteq Nat
      /\ engine'[p].listening \in BOOLEAN /\ engine'[p].started \in BOOLEAN /\ engine'[p].senders \in BOOLEAN
  BY PeerIsNext
<1>9. /\ Once(p) => Once(p)'
      /\ c \in Reads(p) /\ reading[p] /\ p \in Open(c) /\ In(c, p) = << >> /\ Other(c, p) \notin Open(c)
      /\ UNCHANGED <<status[p], sock[p], online[p], dialing[p], target[p], reading[p], connected[p], ids[p], partner[p], engine[p], asked[p], key[p], candidate[p]>>
      /\ ui'[p] = IF ui[p] = "connected" THEN "idle" ELSE ui[p]
      /\ Reads(p)' \subseteq Reads(p)
      /\ Reads(p) \ {c} \subseteq Reads(p)'
  BY DEF SeesEndDoes
<1>11. /\ ToDial(p) => /\ sock[p] = Nobody /\ status[p] = "waiting"
                      /\ ~Resets(p) /\ ~Closes(p) /\ ~Runs(p, "stop", "stop")
       /\ ToDial(p)' => /\ sock'[p] = Nobody /\ status'[p] = "waiting"
                       /\ ~Resets(p)' /\ ~Closes(p)' /\ ~Runs(p, "stop", "stop")'
  BY DEF Doomed, Busy
<1>5. Uses(p) /\ c = sock[p]
  BY PeerIs DEF PeerFacts, SeesEndDoes, Local, ReadInv
<1>10. /\ ~Begun(p) /\ ui[p] # "asking" /\ ~asked[p]
  BY <1>5, EndSeen DEF SeesEndDoes
<1>12. /\ q # p /\ Open(c) \subseteq {p, q} /\ sock'[p] = c /\ sock[p] = c /\ Uses(p)
       /\ (From(c) = p /\ To(c) = q) \/ (From(c) = q /\ To(c) = p)
       /\ In(c, p) \in Seq(Message) /\ In(c, q) \in Seq(Message)
       /\ LinkInv(c) /\ KeyInv(c) /\ PhaseInv(c) /\ EndInv(c)
  <2>1. Uses(p) /\ p \in {From(c), To(c)}
    BY DEF Uses, Local, SockInv
  <2> QED
    BY <2>1, <1>9, LinkIs DEF OnLink, TypeOK, Other, From, To
<1>13. /\ sock'[q] = sock[q] /\ key'[q] = key[q] /\ asked'[q] = asked[q] /\ connected'[q] = connected[q]
       /\ ui'[q] = ui[q] /\ engine'[q] = engine[q]
       /\ \A h, l : Runs(q, h, l)' <=> Runs(q, h, l)
       /\ (Begun(q)' <=> Begun(q)) /\ (Resets(q)' <=> Resets(q)) /\ JobRules(q)
  <2>1. Untouched(q) /\ SameKey(q)
    BY <1>12 DEF SeesEndDoes
  <2> QED
    BY <2>1, JobsSame, JobsAre DEF Untouched, SameKey
<1>14. /\ c \in DOMAIN links' /\ From(c)' = From(c) /\ To(c)' = To(c) /\ Open(c)' = Open(c) /\ Taken(c)' = Taken(c)
       /\ (\A r : Other(c, r)' = Other(c, r)) /\ (early' = {} => early = {})
       /\ In(c, p)' = In(c, p) /\ In(c, q)' = In(c, q)
  BY <1>12, LinksStay DEF SeesEndDoes, TypeOK, Kept, Unmoved, Other, From, To
<1>17. LinkInv(c)'
  BY <1>12, <1>13, <1>14 DEF LinkInv
<1>18. KeyInv(c)'
  <2>1. key'[p] = key[p] /\ key'[q] = key[q]
    BY <1>9, <1>13
  <2>2. /\ p \in Open(c) => Keyed(In(c, p)', key[p])
        /\ q \in Open(c) => Keyed(In(c, q)', key[q])
    BY <1>9, <1>12, <1>13, <1>14 DEF KeyInv
  <2>3. /\ From(c) = p => Only(In(c, p)', {"accept", "reject", "ready"}) /\ Only(In(c, q)', {"request", "cancel", "ready"})
        /\ From(c) = q => Only(In(c, q)', {"accept", "reject", "ready"}) /\ Only(In(c, p)', {"request", "cancel", "ready"})
    BY <1>9, <1>12, <1>13, <1>14 DEF KeyInv
  <2> QED
    BY <1>12, <1>14, <2>1, <2>2, <2>3, KeyKept
<1>20. CASE From(c) = p /\ To(c) = q
  <2>30. CallerView(c, p, q) /\ CallerView(c, p, q)'
    BY <1>20, <1>12, <1>14, Views
  <2>31. /\ Unsent(c)' <=> Unsent(c)
         /\ Underway(c)' <=> Underway(c)
         /\ Shown(c)' <=> Shown(c)
         /\ Accepting(c)' <=> Accepting(c)
         /\ Rejecting(c)' <=> Rejecting(c)
         /\ Refusal(c)' <=> Refusal(c)
         /\ AcceptSent(c)' <=> AcceptSent(c)
         /\ AcceptHeld(c)' <=> AcceptHeld(c)
         /\ Agreeing(c)' <=> Agreeing(c)
         /\ ~Unsent(c)
    BY <1>1, <1>2, <1>7, <1>9, <1>5, <1>10, <1>12, <1>13, <1>14, <1>20, <2>30 DEF CallerView, Local, PlaceInv, PeerFacts, Says, Calls, Takes, PhaseInv, LinkInv
  <2>32. PhaseInv(c)'
    BY <1>12, <1>13, <1>14, <1>20, <2>30, <2>31 DEF PhaseInv, CallerView
  <2>33. BothInv(c)'
    BY <1>1, <1>2, <1>7, <1>9, <1>12, <1>13, <1>14, <1>20, <2>31, <1>10 DEF EndInv, BothInv, LinkInv, JobRules
  <2>34. AnswerInv(c)'
    BY <1>1, <1>2, <1>7, <1>9, <1>12, <1>13, <1>14, <1>20, <2>31, <1>10 DEF EndInv, AnswerInv, LinkInv, JobRules
  <2>35. CancelInv(c)'
    BY <1>1, <1>2, <1>7, <1>9, <1>12, <1>13, <1>14, <1>20, <2>31, <2>30, <1>10 DEF EndInv, CancelInv, LinkInv, JobRules, CallerView
  <2>36. RejectInv(c)'
    BY <1>1, <1>2, <1>7, <1>9, <1>12, <1>13, <1>14, <1>20, <2>31, <1>10 DEF EndInv, RejectInv, LinkInv, JobRules
  <2>37. UntakenInv(c)'
    BY <1>1, <1>2, <1>7, <1>9, <1>12, <1>13, <1>14, <1>20, <2>31, <1>10 DEF EndInv, UntakenInv, LinkInv, JobRules
  <2>38. LastInv(c)'
    <3>1. sock'[p] = c /\ Runs(p, "reset", "again")' => In(c, p)' = << >> /\ q \notin Open(c)'
      BY <1>1, <1>2, <1>9, <1>12, <1>13, <1>14, LastIs, <1>10 DEF EndInv, Other, From, To
    <3>2. sock'[q] = c /\ Runs(q, "reset", "again")' => In(c, q)' = << >> /\ p \notin Open(c)'
      BY <1>12, <1>13, <1>14, LastIs DEF EndInv, LinkInv
    <3> QED
      BY <3>1, <3>2, <1>12, <1>13, <1>14, LastIs
  <2>39. ReadyInv(c)'
    <3>1. early' = {} /\ sock[q] = c /\ Told(c, p, q) => Told(c, p, q)'
      BY <1>1, <1>2, <1>9, <1>12, <1>13, <1>14 DEF Told
    <3>2. early' = {} /\ sock[q] = c /\ Told(c, q, p) => Told(c, q, p)'
      BY <1>1, <1>2, <1>9, <1>12, <1>13, <1>14 DEF Told
    <3> QED
      BY <3>1, <3>2, <1>12, <1>13, <1>14, ReadyIs
  <2> QED
    BY <1>17, <1>18, <2>32, <2>33, <2>34, <2>35, <2>36, <2>37, <2>38, <2>39 DEF EndInv
<1>21. CASE From(c) = q /\ To(c) = p
  <2>60. TakerView(c, p, q) /\ TakerView(c, p, q)'
    BY <1>21, <1>12, <1>14, Views
  <2>61. /\ Unsent(c)' <=> Unsent(c)
         /\ Underway(c)' <=> Underway(c)
         /\ Shown(c)' <=> Shown(c)
         /\ Accepting(c)' <=> Accepting(c)
         /\ Rejecting(c)' <=> Rejecting(c)
         /\ Refusal(c)' <=> Refusal(c)
         /\ AcceptSent(c)' <=> AcceptSent(c)
         /\ AcceptHeld(c)' <=> AcceptHeld(c)
         /\ Agreeing(c)' <=> Agreeing(c)
         /\ ~Unsent(c)
    BY <1>1, <1>2, <1>7, <1>9, <1>5, <1>10, <1>12, <1>13, <1>14, <1>21, <2>60 DEF TakerView, Local, PlaceInv, PeerFacts, Says, Calls, Takes, PhaseInv, LinkInv
  <2>62. PhaseInv(c)'
    BY <1>12, <1>13, <1>14, <1>21, <2>60, <2>61 DEF PhaseInv, TakerView
  <2>63. BothInv(c)'
    BY <1>1, <1>2, <1>7, <1>9, <1>12, <1>13, <1>14, <1>21, <2>61, <1>10 DEF EndInv, BothInv, LinkInv, JobRules
  <2>64. AnswerInv(c)'
    BY <1>1, <1>2, <1>7, <1>9, <1>12, <1>13, <1>14, <1>21, <2>61, <1>10 DEF EndInv, AnswerInv, LinkInv, JobRules
  <2>65. CancelInv(c)'
    BY <1>1, <1>2, <1>7, <1>9, <1>12, <1>13, <1>14, <1>21, <2>61, <2>60, <1>10 DEF EndInv, CancelInv, LinkInv, JobRules, TakerView
  <2>66. RejectInv(c)'
    BY <1>1, <1>2, <1>7, <1>9, <1>12, <1>13, <1>14, <1>21, <2>61, <1>10 DEF EndInv, RejectInv, LinkInv, JobRules
  <2>67. UntakenInv(c)'
    BY <1>1, <1>2, <1>7, <1>9, <1>12, <1>13, <1>14, <1>21, <2>61, <1>10 DEF EndInv, UntakenInv, LinkInv, JobRules
  <2>68. LastInv(c)'
    <3>1. sock'[p] = c /\ Runs(p, "reset", "again")' => In(c, p)' = << >> /\ q \notin Open(c)'
      BY <1>1, <1>2, <1>9, <1>12, <1>13, <1>14, LastIs, <1>10 DEF EndInv, Other, From, To
    <3>2. sock'[q] = c /\ Runs(q, "reset", "again")' => In(c, q)' = << >> /\ p \notin Open(c)'
      BY <1>12, <1>13, <1>14, LastIs DEF EndInv, LinkInv
    <3> QED
      BY <3>1, <3>2, <1>12, <1>13, <1>14, LastIs
  <2>69. ReadyInv(c)'
    <3>1. early' = {} /\ sock[q] = c /\ Told(c, p, q) => Told(c, p, q)'
      BY <1>1, <1>2, <1>9, <1>12, <1>13, <1>14 DEF Told
    <3>2. early' = {} /\ sock[q] = c /\ Told(c, q, p) => Told(c, q, p)'
      BY <1>1, <1>2, <1>9, <1>12, <1>13, <1>14 DEF Told
    <3> QED
      BY <3>1, <3>2, <1>12, <1>13, <1>14, ReadyIs
  <2> QED
    BY <1>17, <1>18, <2>62, <2>63, <2>64, <2>65, <2>66, <2>67, <2>68, <2>69 DEF EndInv
<1> QED
  BY <1>12, <1>20, <1>21

LEMMA ReaderStopsLink ==
    ASSUME TypeOK, TypeOK', NEW p \in Peers, NEW d, NEW c \in DOMAIN links, Local(p), TlsInv(p), OnLink(p),
           ReaderStopsDoes(p, d), mishaps' = {}, ~Doomed(p), ~Doomed(p)',
           c = sock[p], NEW q \in Peers, q = Other(c, p), Local(q), ReadyInv(c)
    PROVE  LinkInv(c)' /\ KeyInv(c)' /\ PhaseInv(c)' /\ EndInv(c)' /\ ReadyInv(c)'
<1>1. Same(p)
  BY DEF ReaderStopsDoes
<1>2. /\ Runs(p, "accept", "statusOn")' <=> Runs(p, "accept", "statusOn")
      /\ Runs(p, "initHigh", "statusOn")' <=> Runs(p, "initHigh", "statusOn")
      /\ Runs(p, "initLow", "statusOn")' <=> Runs(p, "initLow", "statusOn")
      /\ Runs(p, "statusOn", "statusOn")' <=> Runs(p, "statusOn", "statusOn")
      /\ Runs(p, "cancel", "reset")' <=> Runs(p, "cancel", "reset")
      /\ Runs(p, "reset", "reset")' <=> Runs(p, "reset", "reset")
      /\ Runs(p, "reject", "statusOff")' <=> Runs(p, "reject", "statusOff")
      /\ Runs(p, "reset", "statusOff")' <=> Runs(p, "reset", "statusOff")
      /\ Runs(p, "statusOff", "statusOff")' <=> Runs(p, "statusOff", "statusOff")
      /\ Runs(p, "reset", "close")' <=> Runs(p, "reset", "close")
      /\ Runs(p, "close", "close")' <=> Runs(p, "close", "close")
      /\ Runs(p, "reset", "unconnected")' <=> Runs(p, "reset", "unconnected")
      /\ Runs(p, "lost", "unconnected")' <=> Runs(p, "lost", "unconnected")
      /\ Runs(p, "unconnected", "unconnected")' <=> Runs(p, "unconnected", "unconnected")
      /\ Runs(p, "reset", "again")' <=> Runs(p, "reset", "again")
      /\ Runs(p, "lost", "again")' <=> Runs(p, "lost", "again")
      /\ Runs(p, "again", "again")' <=> Runs(p, "again", "again")
      /\ Runs(p, "stop", "stop")' <=> Runs(p, "stop", "stop")
      /\ Runs(p, "ready", "ready")' <=> Runs(p, "ready", "ready")
      /\ Runs(p, "initFileSenders", "initFileSenders")' <=> Runs(p, "initFileSenders", "initFileSenders")
      /\ \A y : Doing(p, "dial", "request", y)' <=> Doing(p, "dial", "request", y)
      /\ \A y : Doing(p, "exchange", "request", y)' <=> Doing(p, "exchange", "request", y)
      /\ \A y : Doing(p, "connect", "request", y)' <=> Doing(p, "connect", "request", y)
      /\ \A y : Doing(p, "recvMsg", "request", y)' <=> Doing(p, "recvMsg", "request", y)
      /\ \A y : Doing(p, "request", "request", y)' <=> Doing(p, "request", "request", y)
      /\ \A y : Doing(p, "recvMsg", "established", y)' <=> Doing(p, "recvMsg", "established", y)
      /\ \A y : Doing(p, "established", "established", y)' <=> Doing(p, "established", "established", y)
      /\ \A y : Doing(p, "listen", "started", y)' <=> Doing(p, "listen", "started", y)
      /\ \A y : Doing(p, "started", "started", y)' <=> Doing(p, "started", "started", y)
      /\ Begun(p)' <=> Begun(p)
      /\ \A y : Asks(p, y)' <=> Asks(p, y)
      /\ ToDial(p)' <=> ToDial(p)
      /\ \A y : Adopts(p, y)' <=> Adopts(p, y)
      /\ Starting(p)' <=> Starting(p)
      /\ \A y : Starts(p, y)' <=> Starts(p, y)
      /\ Agrees(p)' <=> Agrees(p)
      /\ TakesBack(p)' <=> TakesBack(p)
      /\ Leaves(p)' <=> Leaves(p)
      /\ Closes(p)' <=> Closes(p)
      /\ Resets(p)' <=> Resets(p)
      /\ Ended(p)' <=> Ended(p)
  BY <1>1, JobsSame DEF Same
<1>3. LinksKept /\ DOMAIN links' = DOMAIN links
  BY LinksStay DEF ReaderStopsDoes, TypeOK, LinksKept
<1>4. /\ Uses(p)' <=> Uses(p)
      /\ Calls(p)' <=> Calls(p)
      /\ Takes(p)' <=> Takes(p)
      /\ Uses(p) => /\ From(sock[p])' = From(sock[p]) /\ To(sock[p])' = To(sock[p])
                    /\ Other(sock[p], p)' = Other(sock[p], p)
  BY <1>3, SocketSame DEF ReaderStopsDoes
<1>7. PeerFacts(p) /\ JobRules(p) /\ JobRules(p)' /\ Says(p)
  BY PeerIs, JobsAre, EndSays
<1>8. /\ status'[p] \in {"waiting", "tls", "tcp"} /\ sock'[p] \in DOMAIN links' \cup {Fresh, Nobody}
      /\ Fresh # Nobody /\ Fresh \notin DOMAIN links' /\ Nobody \notin DOMAIN links'
      /\ DOMAIN links' \subseteq Nat
      /\ engine'[p].listening \in BOOLEAN /\ engine'[p].started \in BOOLEAN /\ engine'[p].senders \in BOOLEAN
  BY PeerIsNext
<1>9. /\ (\A r \in Peers : Same(r) /\ (Once(r) => Once(r)'))
      /\ ~reading[p]
      /\ UNCHANGED <<status[p], sock[p], online[p], dialing[p], target[p], reading[p], connected[p], ids[p], partner[p], engine[p], ui[p], asked[p], key[p], candidate[p]>>
      /\ Reads(p)' \subseteq Reads(p)
      /\ Reads(p) \ {d} \subseteq Reads(p)'
  BY DEF ReaderStopsDoes
<1>11. /\ ToDial(p) => /\ sock[p] = Nobody /\ status[p] = "waiting"
                      /\ ~Resets(p) /\ ~Closes(p) /\ ~Runs(p, "stop", "stop")
       /\ ToDial(p)' => /\ sock'[p] = Nobody /\ status'[p] = "waiting"
                       /\ ~Resets(p)' /\ ~Closes(p)' /\ ~Runs(p, "stop", "stop")'
  BY DEF Doomed, Busy
<1>12. /\ q # p /\ Open(c) \subseteq {p, q} /\ sock'[p] = c /\ sock[p] = c /\ Uses(p)
       /\ (From(c) = p /\ To(c) = q) \/ (From(c) = q /\ To(c) = p)
       /\ In(c, p) \in Seq(Message) /\ In(c, q) \in Seq(Message)
       /\ LinkInv(c) /\ KeyInv(c) /\ PhaseInv(c) /\ EndInv(c)
  <2>1. Uses(p) /\ p \in {From(c), To(c)}
    BY DEF Uses, Local, SockInv
  <2> QED
    BY <2>1, <1>9, LinkIs DEF OnLink, TypeOK, Other, From, To
<1>13. /\ sock'[q] = sock[q] /\ key'[q] = key[q] /\ asked'[q] = asked[q] /\ connected'[q] = connected[q]
       /\ ui'[q] = ui[q] /\ engine'[q] = engine[q]
       /\ \A h, l : Runs(q, h, l)' <=> Runs(q, h, l)
       /\ (Begun(q)' <=> Begun(q)) /\ (Resets(q)' <=> Resets(q)) /\ JobRules(q)
  <2>1. Untouched(q) /\ SameKey(q)
    BY <1>12 DEF ReaderStopsDoes
  <2> QED
    BY <2>1, JobsSame, JobsAre DEF Untouched, SameKey
<1>14. /\ c \in DOMAIN links' /\ From(c)' = From(c) /\ To(c)' = To(c) /\ Open(c)' = Open(c) /\ Taken(c)' = Taken(c)
       /\ (\A r : Other(c, r)' = Other(c, r)) /\ (early' = {} => early = {})
       /\ In(c, p)' = In(c, p) /\ In(c, q)' = In(c, q)
  BY <1>12, LinksStay DEF ReaderStopsDoes, TypeOK, Kept, Unmoved, Other, From, To
<1>30. EndKept(c, q)
  BY <1>12, <1>13 DEF EndKept
<1>31. EndKept(c, p)
  BY <1>1, <1>2, <1>7, <1>9, <1>12 DEF EndKept, Calls, Takes, Local, PlaceInv, JobRules
<1>32. BoxKept(c, p) /\ BoxKept(c, q)
  BY <1>12, <1>13, <1>14 DEF BoxKept, Other
<1>33. PhaseInv(c)' /\ EndInv(c)'
  BY <1>12, <1>14, <1>30, <1>31, <1>32, LinkKept
<1>34. LinkInv(c)'
  BY <1>12, <1>13, <1>14 DEF LinkInv
<1>35. KeyInv(c)'
  <2>1. key'[p] = key[p] /\ key'[q] = key[q]
    BY <1>9, <1>13
  <2>2. /\ p \in Open(c) => Keyed(In(c, p)', key[p])
        /\ q \in Open(c) => Keyed(In(c, q)', key[q])
    BY <1>9, <1>12, <1>13, <1>14 DEF KeyInv
  <2>3. /\ From(c) = p => Only(In(c, p)', {"accept", "reject", "ready"}) /\ Only(In(c, q)', {"request", "cancel", "ready"})
        /\ From(c) = q => Only(In(c, q)', {"accept", "reject", "ready"}) /\ Only(In(c, p)', {"request", "cancel", "ready"})
    BY <1>9, <1>12, <1>13, <1>14 DEF KeyInv
  <2> QED
    BY <1>12, <1>14, <2>1, <2>2, <2>3, KeyKept
<1>36. ReadyInv(c)'
  <2>1. early' = {} /\ sock[q] = c /\ Told(c, p, q) => Told(c, p, q)'
    BY <1>1, <1>2, <1>9, <1>12, <1>13, <1>14 DEF Told
  <2>2. early' = {} /\ sock[q] = c /\ Told(c, q, p) => Told(c, q, p)'
    BY <1>1, <1>2, <1>9, <1>12, <1>13, <1>14 DEF Told
  <2> QED
    BY <2>1, <2>2, <1>12, <1>13, <1>14, ReadyIs
<1> QED
  BY <1>33, <1>34, <1>35, <1>36

LEMMA StatusOnLink ==
    ASSUME TypeOK, TypeOK', NEW p \in Peers, NEW c \in DOMAIN links, Local(p), TlsInv(p), OnLink(p),
           StatusOnDoes(p), mishaps' = {}, ~Doomed(p), ~Doomed(p)',
           c = sock[p], NEW q \in Peers, q = Other(c, p), Local(q), ReadyInv(c)
    PROVE  LinkInv(c)' /\ KeyInv(c)' /\ PhaseInv(c)' /\ EndInv(c)' /\ ReadyInv(c)'
<1>1. /\ Runs(p, "accept", "statusOn")' <=> Runs(p, "accept", "statusOn")
      /\ Runs(p, "initHigh", "statusOn")' <=> Runs(p, "initHigh", "statusOn")
      /\ Runs(p, "initLow", "statusOn")' <=> Runs(p, "initLow", "statusOn")
      /\ Runs(p, "statusOn", "statusOn")
      /\ Runs(p, "cancel", "reset")' <=> Runs(p, "cancel", "reset")
      /\ Runs(p, "reset", "reset")' <=> Runs(p, "reset", "reset")
      /\ Runs(p, "reject", "statusOff")' <=> Runs(p, "reject", "statusOff")
      /\ Runs(p, "reset", "statusOff")' <=> Runs(p, "reset", "statusOff")
      /\ Runs(p, "statusOff", "statusOff")' <=> Runs(p, "statusOff", "statusOff")
      /\ Runs(p, "reset", "close")' <=> Runs(p, "reset", "close")
      /\ Runs(p, "close", "close")' <=> Runs(p, "close", "close")
      /\ Runs(p, "reset", "unconnected")' <=> Runs(p, "reset", "unconnected")
      /\ Runs(p, "lost", "unconnected")' <=> Runs(p, "lost", "unconnected")
      /\ Runs(p, "unconnected", "unconnected")' <=> Runs(p, "unconnected", "unconnected")
      /\ Runs(p, "reset", "again")' <=> Runs(p, "reset", "again")
      /\ Runs(p, "lost", "again")' <=> Runs(p, "lost", "again")
      /\ Runs(p, "again", "again")' <=> Runs(p, "again", "again")
      /\ Runs(p, "stop", "stop")' <=> Runs(p, "stop", "stop")
      /\ Runs(p, "ready", "ready")' <=> Runs(p, "ready", "ready")
      /\ Runs(p, "initFileSenders", "initFileSenders")' <=> Runs(p, "initFileSenders", "initFileSenders")
      /\ \A y : Doing(p, "dial", "request", y)' <=> Doing(p, "dial", "request", y)
      /\ \A y : Doing(p, "exchange", "request", y)' <=> Doing(p, "exchange", "request", y)
      /\ \A y : Doing(p, "connect", "request", y)' <=> Doing(p, "connect", "request", y)
      /\ \A y : Doing(p, "recvMsg", "request", y)' <=> Doing(p, "recvMsg", "request", y)
      /\ \A y : Doing(p, "request", "request", y)' <=> Doing(p, "request", "request", y)
      /\ \A y : Doing(p, "recvMsg", "established", y)' <=> Doing(p, "recvMsg", "established", y)
      /\ \A y : Doing(p, "established", "established", y)' <=> Doing(p, "established", "established", y)
      /\ \A y : Doing(p, "listen", "started", y)' <=> Doing(p, "listen", "started", y)
      /\ \A y : Doing(p, "started", "started", y)' <=> Doing(p, "started", "started", y)
  BY DEF StatusOnDoes, Finishes, Runs
<1>2. /\ Begun(p)' <=> Begun(p)
      /\ \A y : Asks(p, y)' <=> Asks(p, y)
      /\ ToDial(p)' <=> ToDial(p)
      /\ \A y : Adopts(p, y)' <=> Adopts(p, y)
      /\ Starting(p)' <=> Starting(p)
      /\ \A y : Starts(p, y)' <=> Starts(p, y)
      /\ TakesBack(p)' <=> TakesBack(p)
      /\ Leaves(p)' <=> Leaves(p)
      /\ Closes(p)' <=> Closes(p)
      /\ Resets(p)' <=> Resets(p)
      /\ Ended(p)' <=> Ended(p)
  BY <1>1 DEF Adopts, Asks, Begun, Closes, Ended, Leaves, Resets, Starting, Starts, TakesBack, ToDial
<1>3. LinksKept /\ DOMAIN links' = DOMAIN links
  BY LinksStay DEF StatusOnDoes, TypeOK, LinksKept
<1>4. /\ Uses(p)' <=> Uses(p)
      /\ Calls(p)' <=> Calls(p)
      /\ Takes(p)' <=> Takes(p)
      /\ Uses(p) => /\ From(sock[p])' = From(sock[p]) /\ To(sock[p])' = To(sock[p])
                    /\ Other(sock[p], p)' = Other(sock[p], p)
  BY <1>3, SocketSame DEF StatusOnDoes
<1>7. PeerFacts(p) /\ JobRules(p) /\ JobRules(p)' /\ Says(p)
  BY PeerIs, JobsAre, EndSays
<1>8. /\ status'[p] \in {"waiting", "tls", "tcp"} /\ sock'[p] \in DOMAIN links' \cup {Fresh, Nobody}
      /\ Fresh # Nobody /\ Fresh \notin DOMAIN links' /\ Nobody \notin DOMAIN links'
      /\ DOMAIN links' \subseteq Nat
      /\ engine'[p].listening \in BOOLEAN /\ engine'[p].started \in BOOLEAN /\ engine'[p].senders \in BOOLEAN
  BY PeerIsNext
<1>9. /\ Once(p) => Once(p)'
      /\ UNCHANGED <<status[p], sock[p], online[p], dialing[p], target[p], reading[p], ids[p], partner[p], engine[p], ui[p], asked[p], key[p], candidate[p], Reads(p)>>
      /\ connected'[p] = TRUE
  BY DEF StatusOnDoes
<1>11. /\ ToDial(p) => /\ sock[p] = Nobody /\ status[p] = "waiting"
                      /\ ~Resets(p) /\ ~Closes(p) /\ ~Runs(p, "stop", "stop")
       /\ ToDial(p)' => /\ sock'[p] = Nobody /\ status'[p] = "waiting"
                       /\ ~Resets(p)' /\ ~Closes(p)' /\ ~Runs(p, "stop", "stop")'
  BY DEF Doomed, Busy
<1>12. /\ q # p /\ Open(c) \subseteq {p, q} /\ sock'[p] = c /\ sock[p] = c /\ Uses(p)
       /\ (From(c) = p /\ To(c) = q) \/ (From(c) = q /\ To(c) = p)
       /\ In(c, p) \in Seq(Message) /\ In(c, q) \in Seq(Message)
       /\ LinkInv(c) /\ KeyInv(c) /\ PhaseInv(c) /\ EndInv(c)
  <2>1. Uses(p) /\ p \in {From(c), To(c)}
    BY DEF Uses, Local, SockInv
  <2> QED
    BY <2>1, <1>9, LinkIs DEF OnLink, TypeOK, Other, From, To
<1>13. /\ sock'[q] = sock[q] /\ key'[q] = key[q] /\ asked'[q] = asked[q] /\ connected'[q] = connected[q]
       /\ ui'[q] = ui[q] /\ engine'[q] = engine[q]
       /\ \A h, l : Runs(q, h, l)' <=> Runs(q, h, l)
       /\ (Begun(q)' <=> Begun(q)) /\ (Resets(q)' <=> Resets(q)) /\ JobRules(q)
  <2>1. Untouched(q) /\ SameKey(q)
    BY <1>12 DEF StatusOnDoes
  <2> QED
    BY <2>1, JobsSame, JobsAre DEF Untouched, SameKey
<1>14. /\ c \in DOMAIN links' /\ From(c)' = From(c) /\ To(c)' = To(c) /\ Open(c)' = Open(c) /\ Taken(c)' = Taken(c)
       /\ (\A r : Other(c, r)' = Other(c, r)) /\ (early' = {} => early = {})
       /\ In(c, p)' = In(c, p) /\ In(c, q)' = In(c, q)
  BY <1>12, LinksStay DEF StatusOnDoes, TypeOK, Kept, Unmoved, Other, From, To
<1>30. EndKept(c, q)
  BY <1>12, <1>13 DEF EndKept
<1>31. EndKept(c, p)
  BY <1>1, <1>2, <1>7, <1>9, <1>12 DEF EndKept, Calls, Takes, Local, PlaceInv, JobRules
<1>32. BoxKept(c, p) /\ BoxKept(c, q)
  BY <1>12, <1>13, <1>14 DEF BoxKept, Other
<1>33. PhaseInv(c)' /\ EndInv(c)'
  BY <1>12, <1>14, <1>30, <1>31, <1>32, LinkKept
<1>34. LinkInv(c)'
  BY <1>12, <1>13, <1>14 DEF LinkInv
<1>35. KeyInv(c)'
  <2>1. key'[p] = key[p] /\ key'[q] = key[q]
    BY <1>9, <1>13
  <2>2. /\ p \in Open(c) => Keyed(In(c, p)', key[p])
        /\ q \in Open(c) => Keyed(In(c, q)', key[q])
    BY <1>9, <1>12, <1>13, <1>14 DEF KeyInv
  <2>3. /\ From(c) = p => Only(In(c, p)', {"accept", "reject", "ready"}) /\ Only(In(c, q)', {"request", "cancel", "ready"})
        /\ From(c) = q => Only(In(c, q)', {"accept", "reject", "ready"}) /\ Only(In(c, p)', {"request", "cancel", "ready"})
    BY <1>9, <1>12, <1>13, <1>14 DEF KeyInv
  <2> QED
    BY <1>12, <1>14, <2>1, <2>2, <2>3, KeyKept
<1>36. ReadyInv(c)'
  <2>1. early' = {} /\ sock[q] = c /\ Told(c, p, q) => Told(c, p, q)'
    BY <1>1, <1>2, <1>9, <1>12, <1>13, <1>14 DEF Told
  <2>2. early' = {} /\ sock[q] = c /\ Told(c, q, p) => Told(c, q, p)'
    BY <1>1, <1>2, <1>9, <1>12, <1>13, <1>14 DEF Told
  <2> QED
    BY <2>1, <2>2, <1>12, <1>13, <1>14, ReadyIs
<1> QED
  BY <1>33, <1>34, <1>35, <1>36

LEMMA EngineHighLink ==
    ASSUME TypeOK, TypeOK', NEW p \in Peers, NEW c \in DOMAIN links, Local(p), TlsInv(p), OnLink(p),
           EngineHighDoes(p), mishaps' = {}, ~Doomed(p), ~Doomed(p)',
           c = sock[p], NEW q \in Peers, q = Other(c, p), Local(q), ReadyInv(c)
    PROVE  LinkInv(c)' /\ KeyInv(c)' /\ PhaseInv(c)' /\ EndInv(c)' /\ ReadyInv(c)'
<1>1. /\ Runs(p, "accept", "statusOn")' <=> Runs(p, "accept", "statusOn")
      /\ Runs(p, "initHigh", "statusOn")
      /\ Runs(p, "initLow", "statusOn")' <=> Runs(p, "initLow", "statusOn")
      /\ Runs(p, "statusOn", "statusOn")'
      /\ Runs(p, "cancel", "reset")' <=> Runs(p, "cancel", "reset")
      /\ Runs(p, "reset", "reset")' <=> Runs(p, "reset", "reset")
      /\ Runs(p, "reject", "statusOff")' <=> Runs(p, "reject", "statusOff")
      /\ Runs(p, "reset", "statusOff")' <=> Runs(p, "reset", "statusOff")
      /\ Runs(p, "statusOff", "statusOff")' <=> Runs(p, "statusOff", "statusOff")
      /\ Runs(p, "reset", "close")' <=> Runs(p, "reset", "close")
      /\ Runs(p, "close", "close")' <=> Runs(p, "close", "close")
      /\ Runs(p, "reset", "unconnected")' <=> Runs(p, "reset", "unconnected")
      /\ Runs(p, "lost", "unconnected")' <=> Runs(p, "lost", "unconnected")
      /\ Runs(p, "unconnected", "unconnected")' <=> Runs(p, "unconnected", "unconnected")
      /\ Runs(p, "reset", "again")' <=> Runs(p, "reset", "again")
      /\ Runs(p, "lost", "again")' <=> Runs(p, "lost", "again")
      /\ Runs(p, "again", "again")' <=> Runs(p, "again", "again")
      /\ Runs(p, "stop", "stop")' <=> Runs(p, "stop", "stop")
      /\ Runs(p, "ready", "ready")' <=> Runs(p, "ready", "ready")
      /\ Runs(p, "initFileSenders", "initFileSenders")' <=> Runs(p, "initFileSenders", "initFileSenders")
      /\ \A y : Doing(p, "dial", "request", y)' <=> Doing(p, "dial", "request", y)
      /\ \A y : Doing(p, "exchange", "request", y)' <=> Doing(p, "exchange", "request", y)
      /\ \A y : Doing(p, "connect", "request", y)' <=> Doing(p, "connect", "request", y)
      /\ \A y : Doing(p, "recvMsg", "request", y)' <=> Doing(p, "recvMsg", "request", y)
      /\ \A y : Doing(p, "request", "request", y)' <=> Doing(p, "request", "request", y)
      /\ \A y : Doing(p, "recvMsg", "established", y)' <=> Doing(p, "recvMsg", "established", y)
      /\ \A y : Doing(p, "established", "established", y)' <=> Doing(p, "established", "established", y)
      /\ \A y : Doing(p, "listen", "started", y)' => Doing(p, "listen", "started", y) \/ y = partner[p]
      /\ \A y : Doing(p, "listen", "started", y) => Doing(p, "listen", "started", y)'
      /\ \A y : y = partner[p] => Doing(p, "listen", "started", y)'
      /\ \A y : Doing(p, "started", "started", y)' <=> Doing(p, "started", "started", y)
  BY DEF EngineHighDoes, Spawns, Runs
<1>2. /\ Begun(p)' <=> Begun(p)
      /\ \A y : Asks(p, y)' <=> Asks(p, y)
      /\ ToDial(p)' <=> ToDial(p)
      /\ \A y : Adopts(p, y)' <=> Adopts(p, y)
      /\ TakesBack(p)' <=> TakesBack(p)
      /\ Leaves(p)' <=> Leaves(p)
      /\ Closes(p)' <=> Closes(p)
      /\ Resets(p)' <=> Resets(p)
      /\ Ended(p)' <=> Ended(p)
  BY <1>1 DEF Adopts, Asks, Begun, Closes, Ended, Leaves, Resets, TakesBack, ToDial
<1>3. LinksKept /\ DOMAIN links' = DOMAIN links
  BY LinksStay DEF EngineHighDoes, TypeOK, LinksKept
<1>4. /\ Uses(p)' <=> Uses(p)
      /\ Calls(p)' <=> Calls(p)
      /\ Takes(p)' <=> Takes(p)
      /\ Uses(p) => /\ From(sock[p])' = From(sock[p]) /\ To(sock[p])' = To(sock[p])
                    /\ Other(sock[p], p)' = Other(sock[p], p)
  BY <1>3, SocketSame DEF EngineHighDoes
<1>7. PeerFacts(p) /\ JobRules(p) /\ JobRules(p)' /\ Says(p)
  BY PeerIs, JobsAre, EndSays
<1>8. /\ status'[p] \in {"waiting", "tls", "tcp"} /\ sock'[p] \in DOMAIN links' \cup {Fresh, Nobody}
      /\ Fresh # Nobody /\ Fresh \notin DOMAIN links' /\ Nobody \notin DOMAIN links'
      /\ DOMAIN links' \subseteq Nat
      /\ engine'[p].listening \in BOOLEAN /\ engine'[p].started \in BOOLEAN /\ engine'[p].senders \in BOOLEAN
  BY PeerIsNext
<1>9. /\ Once(p) => Once(p)'
      /\ UNCHANGED <<status[p], sock[p], online[p], dialing[p], target[p], reading[p], connected[p], partner[p], engine[p], ui[p], asked[p], key[p], candidate[p], Reads(p)>>
      /\ ids'[p] = "high"
  BY DEF EngineHighDoes
<1>11. /\ ToDial(p) => /\ sock[p] = Nobody /\ status[p] = "waiting"
                      /\ ~Resets(p) /\ ~Closes(p) /\ ~Runs(p, "stop", "stop")
       /\ ToDial(p)' => /\ sock'[p] = Nobody /\ status'[p] = "waiting"
                       /\ ~Resets(p)' /\ ~Closes(p)' /\ ~Runs(p, "stop", "stop")'
  BY DEF Doomed, Busy
<1>12. /\ q # p /\ Open(c) \subseteq {p, q} /\ sock'[p] = c /\ sock[p] = c /\ Uses(p)
       /\ (From(c) = p /\ To(c) = q) \/ (From(c) = q /\ To(c) = p)
       /\ In(c, p) \in Seq(Message) /\ In(c, q) \in Seq(Message)
       /\ LinkInv(c) /\ KeyInv(c) /\ PhaseInv(c) /\ EndInv(c)
  <2>1. Uses(p) /\ p \in {From(c), To(c)}
    BY DEF Uses, Local, SockInv
  <2> QED
    BY <2>1, <1>9, LinkIs DEF OnLink, TypeOK, Other, From, To
<1>13. /\ sock'[q] = sock[q] /\ key'[q] = key[q] /\ asked'[q] = asked[q] /\ connected'[q] = connected[q]
       /\ ui'[q] = ui[q] /\ engine'[q] = engine[q]
       /\ \A h, l : Runs(q, h, l)' <=> Runs(q, h, l)
       /\ (Begun(q)' <=> Begun(q)) /\ (Resets(q)' <=> Resets(q)) /\ JobRules(q)
  <2>1. Untouched(q) /\ SameKey(q)
    BY <1>12 DEF EngineHighDoes
  <2> QED
    BY <2>1, JobsSame, JobsAre DEF Untouched, SameKey
<1>14. /\ c \in DOMAIN links' /\ From(c)' = From(c) /\ To(c)' = To(c) /\ Open(c)' = Open(c) /\ Taken(c)' = Taken(c)
       /\ (\A r : Other(c, r)' = Other(c, r)) /\ (early' = {} => early = {})
       /\ In(c, p)' = In(c, p) /\ In(c, q)' = In(c, q)
  BY <1>12, LinksStay DEF EngineHighDoes, TypeOK, Kept, Unmoved, Other, From, To
<1>30. EndKept(c, q)
  BY <1>12, <1>13 DEF EndKept
<1>31. EndKept(c, p)
  BY <1>1, <1>2, <1>7, <1>9, <1>12 DEF EndKept, Calls, Takes, Local, PlaceInv, JobRules
<1>32. BoxKept(c, p) /\ BoxKept(c, q)
  BY <1>12, <1>13, <1>14 DEF BoxKept, Other
<1>33. PhaseInv(c)' /\ EndInv(c)'
  BY <1>12, <1>14, <1>30, <1>31, <1>32, LinkKept
<1>34. LinkInv(c)'
  BY <1>12, <1>13, <1>14 DEF LinkInv
<1>35. KeyInv(c)'
  <2>1. key'[p] = key[p] /\ key'[q] = key[q]
    BY <1>9, <1>13
  <2>2. /\ p \in Open(c) => Keyed(In(c, p)', key[p])
        /\ q \in Open(c) => Keyed(In(c, q)', key[q])
    BY <1>9, <1>12, <1>13, <1>14 DEF KeyInv
  <2>3. /\ From(c) = p => Only(In(c, p)', {"accept", "reject", "ready"}) /\ Only(In(c, q)', {"request", "cancel", "ready"})
        /\ From(c) = q => Only(In(c, q)', {"accept", "reject", "ready"}) /\ Only(In(c, p)', {"request", "cancel", "ready"})
    BY <1>9, <1>12, <1>13, <1>14 DEF KeyInv
  <2> QED
    BY <1>12, <1>14, <2>1, <2>2, <2>3, KeyKept
<1>36. ReadyInv(c)'
  <2>1. early' = {} /\ sock[q] = c /\ Told(c, p, q) => Told(c, p, q)'
    BY <1>1, <1>2, <1>9, <1>12, <1>13, <1>14 DEF Told
  <2>2. early' = {} /\ sock[q] = c /\ Told(c, q, p) => Told(c, q, p)'
    BY <1>1, <1>2, <1>9, <1>12, <1>13, <1>14 DEF Told
  <2> QED
    BY <2>1, <2>2, <1>12, <1>13, <1>14, ReadyIs
<1> QED
  BY <1>33, <1>34, <1>35, <1>36

LEMMA EngineLowLink ==
    ASSUME TypeOK, TypeOK', NEW p \in Peers, NEW c \in DOMAIN links, Local(p), TlsInv(p), OnLink(p),
           EngineLowDoes(p), mishaps' = {}, ~Doomed(p), ~Doomed(p)',
           c = sock[p], NEW q \in Peers, q = Other(c, p), Local(q), ReadyInv(c)
    PROVE  LinkInv(c)' /\ KeyInv(c)' /\ PhaseInv(c)' /\ EndInv(c)' /\ ReadyInv(c)'
<1>1. /\ Runs(p, "accept", "statusOn")' <=> Runs(p, "accept", "statusOn")
      /\ Runs(p, "initHigh", "statusOn")' <=> Runs(p, "initHigh", "statusOn")
      /\ Runs(p, "initLow", "statusOn")
      /\ Runs(p, "statusOn", "statusOn")'
      /\ Runs(p, "cancel", "reset")' <=> Runs(p, "cancel", "reset")
      /\ Runs(p, "reset", "reset")' <=> Runs(p, "reset", "reset")
      /\ Runs(p, "reject", "statusOff")' <=> Runs(p, "reject", "statusOff")
      /\ Runs(p, "reset", "statusOff")' <=> Runs(p, "reset", "statusOff")
      /\ Runs(p, "statusOff", "statusOff")' <=> Runs(p, "statusOff", "statusOff")
      /\ Runs(p, "reset", "close")' <=> Runs(p, "reset", "close")
      /\ Runs(p, "close", "close")' <=> Runs(p, "close", "close")
      /\ Runs(p, "reset", "unconnected")' <=> Runs(p, "reset", "unconnected")
      /\ Runs(p, "lost", "unconnected")' <=> Runs(p, "lost", "unconnected")
      /\ Runs(p, "unconnected", "unconnected")' <=> Runs(p, "unconnected", "unconnected")
      /\ Runs(p, "reset", "again")' <=> Runs(p, "reset", "again")
      /\ Runs(p, "lost", "again")' <=> Runs(p, "lost", "again")
      /\ Runs(p, "again", "again")' <=> Runs(p, "again", "again")
      /\ Runs(p, "stop", "stop")' <=> Runs(p, "stop", "stop")
      /\ Runs(p, "ready", "ready")' <=> Runs(p, "ready", "ready")
      /\ Runs(p, "initFileSenders", "initFileSenders")' <=> Runs(p, "initFileSenders", "initFileSenders")
      /\ \A y : Doing(p, "dial", "request", y)' <=> Doing(p, "dial", "request", y)
      /\ \A y : Doing(p, "exchange", "request", y)' <=> Doing(p, "exchange", "request", y)
      /\ \A y : Doing(p, "connect", "request", y)' <=> Doing(p, "connect", "request", y)
      /\ \A y : Doing(p, "recvMsg", "request", y)' <=> Doing(p, "recvMsg", "request", y)
      /\ \A y : Doing(p, "request", "request", y)' <=> Doing(p, "request", "request", y)
      /\ \A y : Doing(p, "recvMsg", "established", y)' <=> Doing(p, "recvMsg", "established", y)
      /\ \A y : Doing(p, "established", "established", y)' <=> Doing(p, "established", "established", y)
      /\ \A y : Doing(p, "listen", "started", y)' => Doing(p, "listen", "started", y) \/ y = partner[p]
      /\ \A y : Doing(p, "listen", "started", y) => Doing(p, "listen", "started", y)'
      /\ \A y : y = partner[p] => Doing(p, "listen", "started", y)'
      /\ \A y : Doing(p, "started", "started", y)' <=> Doing(p, "started", "started", y)
  BY DEF EngineLowDoes, Spawns, Runs
<1>2. /\ Begun(p)' <=> Begun(p)
      /\ \A y : Asks(p, y)' <=> Asks(p, y)
      /\ ToDial(p)' <=> ToDial(p)
      /\ \A y : Adopts(p, y)' <=> Adopts(p, y)
      /\ TakesBack(p)' <=> TakesBack(p)
      /\ Leaves(p)' <=> Leaves(p)
      /\ Closes(p)' <=> Closes(p)
      /\ Resets(p)' <=> Resets(p)
      /\ Ended(p)' <=> Ended(p)
  BY <1>1 DEF Adopts, Asks, Begun, Closes, Ended, Leaves, Resets, TakesBack, ToDial
<1>3. LinksKept /\ DOMAIN links' = DOMAIN links
  BY LinksStay DEF EngineLowDoes, TypeOK, LinksKept
<1>4. /\ Uses(p)' <=> Uses(p)
      /\ Calls(p)' <=> Calls(p)
      /\ Takes(p)' <=> Takes(p)
      /\ Uses(p) => /\ From(sock[p])' = From(sock[p]) /\ To(sock[p])' = To(sock[p])
                    /\ Other(sock[p], p)' = Other(sock[p], p)
  BY <1>3, SocketSame DEF EngineLowDoes
<1>7. PeerFacts(p) /\ JobRules(p) /\ JobRules(p)' /\ Says(p)
  BY PeerIs, JobsAre, EndSays
<1>8. /\ status'[p] \in {"waiting", "tls", "tcp"} /\ sock'[p] \in DOMAIN links' \cup {Fresh, Nobody}
      /\ Fresh # Nobody /\ Fresh \notin DOMAIN links' /\ Nobody \notin DOMAIN links'
      /\ DOMAIN links' \subseteq Nat
      /\ engine'[p].listening \in BOOLEAN /\ engine'[p].started \in BOOLEAN /\ engine'[p].senders \in BOOLEAN
  BY PeerIsNext
<1>9. /\ Once(p) => Once(p)'
      /\ UNCHANGED <<status[p], sock[p], online[p], dialing[p], target[p], reading[p], connected[p], partner[p], engine[p], ui[p], asked[p], key[p], candidate[p], Reads(p)>>
      /\ ids'[p] = "low"
  BY DEF EngineLowDoes
<1>11. /\ ToDial(p) => /\ sock[p] = Nobody /\ status[p] = "waiting"
                      /\ ~Resets(p) /\ ~Closes(p) /\ ~Runs(p, "stop", "stop")
       /\ ToDial(p)' => /\ sock'[p] = Nobody /\ status'[p] = "waiting"
                       /\ ~Resets(p)' /\ ~Closes(p)' /\ ~Runs(p, "stop", "stop")'
  BY DEF Doomed, Busy
<1>12. /\ q # p /\ Open(c) \subseteq {p, q} /\ sock'[p] = c /\ sock[p] = c /\ Uses(p)
       /\ (From(c) = p /\ To(c) = q) \/ (From(c) = q /\ To(c) = p)
       /\ In(c, p) \in Seq(Message) /\ In(c, q) \in Seq(Message)
       /\ LinkInv(c) /\ KeyInv(c) /\ PhaseInv(c) /\ EndInv(c)
  <2>1. Uses(p) /\ p \in {From(c), To(c)}
    BY DEF Uses, Local, SockInv
  <2> QED
    BY <2>1, <1>9, LinkIs DEF OnLink, TypeOK, Other, From, To
<1>13. /\ sock'[q] = sock[q] /\ key'[q] = key[q] /\ asked'[q] = asked[q] /\ connected'[q] = connected[q]
       /\ ui'[q] = ui[q] /\ engine'[q] = engine[q]
       /\ \A h, l : Runs(q, h, l)' <=> Runs(q, h, l)
       /\ (Begun(q)' <=> Begun(q)) /\ (Resets(q)' <=> Resets(q)) /\ JobRules(q)
  <2>1. Untouched(q) /\ SameKey(q)
    BY <1>12 DEF EngineLowDoes
  <2> QED
    BY <2>1, JobsSame, JobsAre DEF Untouched, SameKey
<1>14. /\ c \in DOMAIN links' /\ From(c)' = From(c) /\ To(c)' = To(c) /\ Open(c)' = Open(c) /\ Taken(c)' = Taken(c)
       /\ (\A r : Other(c, r)' = Other(c, r)) /\ (early' = {} => early = {})
       /\ In(c, p)' = In(c, p) /\ In(c, q)' = In(c, q)
  BY <1>12, LinksStay DEF EngineLowDoes, TypeOK, Kept, Unmoved, Other, From, To
<1>30. EndKept(c, q)
  BY <1>12, <1>13 DEF EndKept
<1>31. EndKept(c, p)
  BY <1>1, <1>2, <1>7, <1>9, <1>12 DEF EndKept, Calls, Takes, Local, PlaceInv, JobRules
<1>32. BoxKept(c, p) /\ BoxKept(c, q)
  BY <1>12, <1>13, <1>14 DEF BoxKept, Other
<1>33. PhaseInv(c)' /\ EndInv(c)'
  BY <1>12, <1>14, <1>30, <1>31, <1>32, LinkKept
<1>34. LinkInv(c)'
  BY <1>12, <1>13, <1>14 DEF LinkInv
<1>35. KeyInv(c)'
  <2>1. key'[p] = key[p] /\ key'[q] = key[q]
    BY <1>9, <1>13
  <2>2. /\ p \in Open(c) => Keyed(In(c, p)', key[p])
        /\ q \in Open(c) => Keyed(In(c, q)', key[q])
    BY <1>9, <1>12, <1>13, <1>14 DEF KeyInv
  <2>3. /\ From(c) = p => Only(In(c, p)', {"accept", "reject", "ready"}) /\ Only(In(c, q)', {"request", "cancel", "ready"})
        /\ From(c) = q => Only(In(c, q)', {"accept", "reject", "ready"}) /\ Only(In(c, p)', {"request", "cancel", "ready"})
    BY <1>9, <1>12, <1>13, <1>14 DEF KeyInv
  <2> QED
    BY <1>12, <1>14, <2>1, <2>2, <2>3, KeyKept
<1>36. ReadyInv(c)'
  <2>1. early' = {} /\ sock[q] = c /\ Told(c, p, q) => Told(c, p, q)'
    BY <1>1, <1>2, <1>9, <1>12, <1>13, <1>14 DEF Told
  <2>2. early' = {} /\ sock[q] = c /\ Told(c, q, p) => Told(c, q, p)'
    BY <1>1, <1>2, <1>9, <1>12, <1>13, <1>14 DEF Told
  <2> QED
    BY <2>1, <2>2, <1>12, <1>13, <1>14, ReadyIs
<1> QED
  BY <1>33, <1>34, <1>35, <1>36

LEMMA ListenLink ==
    ASSUME TypeOK, TypeOK', NEW p \in Peers, NEW x, NEW c \in DOMAIN links, Local(p), TlsInv(p), OnLink(p),
           ListenDoes(p, x), mishaps' = {}, ~Doomed(p), ~Doomed(p)',
           c = sock[p], NEW q \in Peers, q = Other(c, p), Local(q), ReadyInv(c)
    PROVE  LinkInv(c)' /\ KeyInv(c)' /\ PhaseInv(c)' /\ EndInv(c)' /\ ReadyInv(c)'
<1>1. /\ Runs(p, "accept", "statusOn")' <=> Runs(p, "accept", "statusOn")
      /\ Runs(p, "initHigh", "statusOn")' <=> Runs(p, "initHigh", "statusOn")
      /\ Runs(p, "initLow", "statusOn")' <=> Runs(p, "initLow", "statusOn")
      /\ Runs(p, "statusOn", "statusOn")' <=> Runs(p, "statusOn", "statusOn")
      /\ Runs(p, "cancel", "reset")' <=> Runs(p, "cancel", "reset")
      /\ Runs(p, "reset", "reset")' <=> Runs(p, "reset", "reset")
      /\ Runs(p, "reject", "statusOff")' <=> Runs(p, "reject", "statusOff")
      /\ Runs(p, "reset", "statusOff")' <=> Runs(p, "reset", "statusOff")
      /\ Runs(p, "statusOff", "statusOff")' <=> Runs(p, "statusOff", "statusOff")
      /\ Runs(p, "reset", "close")' <=> Runs(p, "reset", "close")
      /\ Runs(p, "close", "close")' <=> Runs(p, "close", "close")
      /\ Runs(p, "reset", "unconnected")' <=> Runs(p, "reset", "unconnected")
      /\ Runs(p, "lost", "unconnected")' <=> Runs(p, "lost", "unconnected")
      /\ Runs(p, "unconnected", "unconnected")' <=> Runs(p, "unconnected", "unconnected")
      /\ Runs(p, "reset", "again")' <=> Runs(p, "reset", "again")
      /\ Runs(p, "lost", "again")' <=> Runs(p, "lost", "again")
      /\ Runs(p, "again", "again")' <=> Runs(p, "again", "again")
      /\ Runs(p, "stop", "stop")' <=> Runs(p, "stop", "stop")
      /\ Runs(p, "ready", "ready")'
      /\ Runs(p, "initFileSenders", "initFileSenders")' <=> Runs(p, "initFileSenders", "initFileSenders")
      /\ \A y : Doing(p, "dial", "request", y)' <=> Doing(p, "dial", "request", y)
      /\ \A y : Doing(p, "exchange", "request", y)' <=> Doing(p, "exchange", "request", y)
      /\ \A y : Doing(p, "connect", "request", y)' <=> Doing(p, "connect", "request", y)
      /\ \A y : Doing(p, "recvMsg", "request", y)' <=> Doing(p, "recvMsg", "request", y)
      /\ \A y : Doing(p, "request", "request", y)' <=> Doing(p, "request", "request", y)
      /\ \A y : Doing(p, "recvMsg", "established", y)' <=> Doing(p, "recvMsg", "established", y)
      /\ \A y : Doing(p, "established", "established", y)' <=> Doing(p, "established", "established", y)
      /\ \A y : Doing(p, "listen", "started", y)' => Doing(p, "listen", "started", y)
      /\ \A y : Doing(p, "listen", "started", y) => Doing(p, "listen", "started", y)' \/ y = x
      /\ Doing(p, "listen", "started", x)
      /\ \A y : Doing(p, "started", "started", y)' => Doing(p, "started", "started", y) \/ y = x
      /\ \A y : Doing(p, "started", "started", y) => Doing(p, "started", "started", y)'
      /\ Doing(p, "started", "started", x)'
  BY DEF ListenDoes, Spawns, Runs
<1>2. /\ Begun(p)' <=> Begun(p)
      /\ \A y : Asks(p, y)' <=> Asks(p, y)
      /\ ToDial(p)' <=> ToDial(p)
      /\ \A y : Adopts(p, y)' <=> Adopts(p, y)
      /\ Agrees(p)' <=> Agrees(p)
      /\ TakesBack(p)' <=> TakesBack(p)
      /\ Leaves(p)' <=> Leaves(p)
      /\ Closes(p)' <=> Closes(p)
      /\ Resets(p)' <=> Resets(p)
      /\ Ended(p)' <=> Ended(p)
  BY <1>1 DEF Adopts, Agrees, Asks, Begun, Closes, Ended, Leaves, Resets, TakesBack, ToDial
<1>3. LinksKept /\ DOMAIN links' = DOMAIN links
  BY LinksStay DEF ListenDoes, TypeOK, LinksKept
<1>4. /\ Uses(p)' <=> Uses(p)
      /\ Calls(p)' <=> Calls(p)
      /\ Takes(p)' <=> Takes(p)
      /\ Uses(p) => /\ From(sock[p])' = From(sock[p]) /\ To(sock[p])' = To(sock[p])
                    /\ Other(sock[p], p)' = Other(sock[p], p)
  BY <1>3, SocketSame DEF ListenDoes
<1>7. PeerFacts(p) /\ JobRules(p) /\ JobRules(p)' /\ Says(p)
  BY PeerIs, JobsAre, EndSays
<1>8. /\ status'[p] \in {"waiting", "tls", "tcp"} /\ sock'[p] \in DOMAIN links' \cup {Fresh, Nobody}
      /\ Fresh # Nobody /\ Fresh \notin DOMAIN links' /\ Nobody \notin DOMAIN links'
      /\ DOMAIN links' \subseteq Nat
      /\ engine'[p].listening \in BOOLEAN /\ engine'[p].started \in BOOLEAN /\ engine'[p].senders \in BOOLEAN
  BY PeerIsNext
<1>9. /\ Once(p) => Once(p)'
      /\ x \in Peers \cup {Nobody}
      /\ UNCHANGED <<status[p], sock[p], online[p], dialing[p], target[p], reading[p], connected[p], ids[p], partner[p], ui[p], asked[p], key[p], candidate[p], Reads(p)>>
      /\ engine'[p].addr = x /\ engine'[p].listening = TRUE /\ engine'[p].started = engine[p].started /\ engine'[p].senders = engine[p].senders
  BY DEF ListenDoes
<1>11. /\ ToDial(p) => /\ sock[p] = Nobody /\ status[p] = "waiting"
                      /\ ~Resets(p) /\ ~Closes(p) /\ ~Runs(p, "stop", "stop")
       /\ ToDial(p)' => /\ sock'[p] = Nobody /\ status'[p] = "waiting"
                       /\ ~Resets(p)' /\ ~Closes(p)' /\ ~Runs(p, "stop", "stop")'
  BY DEF Doomed, Busy
<1>12. /\ q # p /\ Open(c) \subseteq {p, q} /\ sock'[p] = c /\ sock[p] = c /\ Uses(p)
       /\ (From(c) = p /\ To(c) = q) \/ (From(c) = q /\ To(c) = p)
       /\ In(c, p) \in Seq(Message) /\ In(c, q) \in Seq(Message)
       /\ LinkInv(c) /\ KeyInv(c) /\ PhaseInv(c) /\ EndInv(c)
  <2>1. Uses(p) /\ p \in {From(c), To(c)}
    BY DEF Uses, Local, SockInv
  <2> QED
    BY <2>1, <1>9, LinkIs DEF OnLink, TypeOK, Other, From, To
<1>13. /\ sock'[q] = sock[q] /\ key'[q] = key[q] /\ asked'[q] = asked[q] /\ connected'[q] = connected[q]
       /\ ui'[q] = ui[q] /\ engine'[q] = engine[q]
       /\ \A h, l : Runs(q, h, l)' <=> Runs(q, h, l)
       /\ (Begun(q)' <=> Begun(q)) /\ (Resets(q)' <=> Resets(q)) /\ JobRules(q)
  <2>1. Untouched(q) /\ SameKey(q)
    BY <1>12 DEF ListenDoes
  <2> QED
    BY <2>1, JobsSame, JobsAre DEF Untouched, SameKey
<1>14. /\ c \in DOMAIN links' /\ From(c)' = From(c) /\ To(c)' = To(c) /\ Open(c)' = Open(c) /\ Taken(c)' = Taken(c)
       /\ (\A r : Other(c, r)' = Other(c, r)) /\ (early' = {} => early = {})
       /\ In(c, p)' = In(c, p) /\ In(c, q)' = In(c, q)
  BY <1>12, LinksStay DEF ListenDoes, TypeOK, Kept, Unmoved, Other, From, To
<1>30. EndKept(c, q)
  BY <1>12, <1>13 DEF EndKept
<1>31. EndKept(c, p)
  BY <1>1, <1>2, <1>7, <1>9, <1>12 DEF EndKept, Calls, Takes, Local, PlaceInv, JobRules
<1>32. BoxKept(c, p) /\ BoxKept(c, q)
  BY <1>12, <1>13, <1>14 DEF BoxKept, Other
<1>33. PhaseInv(c)' /\ EndInv(c)'
  BY <1>12, <1>14, <1>30, <1>31, <1>32, LinkKept
<1>34. LinkInv(c)'
  BY <1>12, <1>13, <1>14 DEF LinkInv
<1>35. KeyInv(c)'
  <2>1. key'[p] = key[p] /\ key'[q] = key[q]
    BY <1>9, <1>13
  <2>2. /\ p \in Open(c) => Keyed(In(c, p)', key[p])
        /\ q \in Open(c) => Keyed(In(c, q)', key[q])
    BY <1>9, <1>12, <1>13, <1>14 DEF KeyInv
  <2>3. /\ From(c) = p => Only(In(c, p)', {"accept", "reject", "ready"}) /\ Only(In(c, q)', {"request", "cancel", "ready"})
        /\ From(c) = q => Only(In(c, q)', {"accept", "reject", "ready"}) /\ Only(In(c, p)', {"request", "cancel", "ready"})
    BY <1>9, <1>12, <1>13, <1>14 DEF KeyInv
  <2> QED
    BY <1>12, <1>14, <2>1, <2>2, <2>3, KeyKept
<1>36. ReadyInv(c)'
  <2>1. early' = {} /\ sock[q] = c /\ Told(c, p, q) => Told(c, p, q)'
    BY <1>1, <1>2, <1>9, <1>12, <1>13, <1>14 DEF Told
  <2>2. early' = {} /\ sock[q] = c /\ Told(c, q, p) => Told(c, q, p)'
    BY <1>1, <1>2, <1>9, <1>12, <1>13, <1>14 DEF Told
  <2> QED
    BY <2>1, <2>2, <1>12, <1>13, <1>14, ReadyIs
<1> QED
  BY <1>33, <1>34, <1>35, <1>36

LEMMA StartedLink ==
    ASSUME TypeOK, TypeOK', NEW p \in Peers, NEW x, NEW c \in DOMAIN links, Local(p), TlsInv(p), OnLink(p),
           StartedDoes(p, x), mishaps' = {}, ~Doomed(p), ~Doomed(p)',
           c = sock[p], NEW q \in Peers, q = Other(c, p), Local(q), ReadyInv(c)
    PROVE  LinkInv(c)' /\ KeyInv(c)' /\ PhaseInv(c)' /\ EndInv(c)' /\ ReadyInv(c)'
<1>1. /\ Runs(p, "accept", "statusOn")' <=> Runs(p, "accept", "statusOn")
      /\ Runs(p, "initHigh", "statusOn")' <=> Runs(p, "initHigh", "statusOn")
      /\ Runs(p, "initLow", "statusOn")' <=> Runs(p, "initLow", "statusOn")
      /\ Runs(p, "statusOn", "statusOn")' <=> Runs(p, "statusOn", "statusOn")
      /\ Runs(p, "cancel", "reset")' <=> Runs(p, "cancel", "reset")
      /\ Runs(p, "reset", "reset")' <=> Runs(p, "reset", "reset")
      /\ Runs(p, "reject", "statusOff")' <=> Runs(p, "reject", "statusOff")
      /\ Runs(p, "reset", "statusOff")' <=> Runs(p, "reset", "statusOff")
      /\ Runs(p, "statusOff", "statusOff")' <=> Runs(p, "statusOff", "statusOff")
      /\ Runs(p, "reset", "close")' <=> Runs(p, "reset", "close")
      /\ Runs(p, "close", "close")' <=> Runs(p, "close", "close")
      /\ Runs(p, "reset", "unconnected")' <=> Runs(p, "reset", "unconnected")
      /\ Runs(p, "lost", "unconnected")' <=> Runs(p, "lost", "unconnected")
      /\ Runs(p, "unconnected", "unconnected")' <=> Runs(p, "unconnected", "unconnected")
      /\ Runs(p, "reset", "again")' <=> Runs(p, "reset", "again")
      /\ Runs(p, "lost", "again")' <=> Runs(p, "lost", "again")
      /\ Runs(p, "again", "again")' <=> Runs(p, "again", "again")
      /\ Runs(p, "stop", "stop")' <=> Runs(p, "stop", "stop")
      /\ Runs(p, "ready", "ready")' <=> Runs(p, "ready", "ready")
      /\ Runs(p, "initFileSenders", "initFileSenders")' <=> Runs(p, "initFileSenders", "initFileSenders")
      /\ \A y : Doing(p, "dial", "request", y)' <=> Doing(p, "dial", "request", y)
      /\ \A y : Doing(p, "exchange", "request", y)' <=> Doing(p, "exchange", "request", y)
      /\ \A y : Doing(p, "connect", "request", y)' <=> Doing(p, "connect", "request", y)
      /\ \A y : Doing(p, "recvMsg", "request", y)' <=> Doing(p, "recvMsg", "request", y)
      /\ \A y : Doing(p, "request", "request", y)' <=> Doing(p, "request", "request", y)
      /\ \A y : Doing(p, "recvMsg", "established", y)' <=> Doing(p, "recvMsg", "established", y)
      /\ \A y : Doing(p, "established", "established", y)' <=> Doing(p, "established", "established", y)
      /\ \A y : Doing(p, "listen", "started", y)' <=> Doing(p, "listen", "started", y)
      /\ \A y : Doing(p, "started", "started", y)' => Doing(p, "started", "started", y)
      /\ \A y : Doing(p, "started", "started", y) => Doing(p, "started", "started", y)' \/ y = x
      /\ Doing(p, "started", "started", x)
  BY DEF StartedDoes, Finishes, Runs
<1>2. /\ Begun(p)' <=> Begun(p)
      /\ \A y : Asks(p, y)' <=> Asks(p, y)
      /\ ToDial(p)' <=> ToDial(p)
      /\ \A y : Adopts(p, y)' <=> Adopts(p, y)
      /\ Agrees(p)' <=> Agrees(p)
      /\ TakesBack(p)' <=> TakesBack(p)
      /\ Leaves(p)' <=> Leaves(p)
      /\ Closes(p)' <=> Closes(p)
      /\ Resets(p)' <=> Resets(p)
      /\ Ended(p)' <=> Ended(p)
  BY <1>1 DEF Adopts, Agrees, Asks, Begun, Closes, Ended, Leaves, Resets, TakesBack, ToDial
<1>3. LinksKept /\ DOMAIN links' = DOMAIN links
  BY LinksStay DEF StartedDoes, TypeOK, LinksKept
<1>4. /\ Uses(p)' <=> Uses(p)
      /\ Calls(p)' <=> Calls(p)
      /\ Takes(p)' <=> Takes(p)
      /\ Uses(p) => /\ From(sock[p])' = From(sock[p]) /\ To(sock[p])' = To(sock[p])
                    /\ Other(sock[p], p)' = Other(sock[p], p)
  BY <1>3, SocketSame DEF StartedDoes
<1>7. PeerFacts(p) /\ JobRules(p) /\ JobRules(p)' /\ Says(p)
  BY PeerIs, JobsAre, EndSays
<1>8. /\ status'[p] \in {"waiting", "tls", "tcp"} /\ sock'[p] \in DOMAIN links' \cup {Fresh, Nobody}
      /\ Fresh # Nobody /\ Fresh \notin DOMAIN links' /\ Nobody \notin DOMAIN links'
      /\ DOMAIN links' \subseteq Nat
      /\ engine'[p].listening \in BOOLEAN /\ engine'[p].started \in BOOLEAN /\ engine'[p].senders \in BOOLEAN
  BY PeerIsNext
<1>9. /\ Once(p) => Once(p)'
      /\ x \in Peers \cup {Nobody}
      /\ UNCHANGED <<status[p], sock[p], online[p], dialing[p], target[p], reading[p], connected[p], ids[p], partner[p], ui[p], asked[p], key[p], candidate[p], Reads(p)>>
      /\ engine'[p].addr = engine[p].addr /\ engine'[p].listening = engine[p].listening /\ engine'[p].started = TRUE /\ engine'[p].senders = engine[p].senders
  BY DEF StartedDoes
<1>11. /\ ToDial(p) => /\ sock[p] = Nobody /\ status[p] = "waiting"
                      /\ ~Resets(p) /\ ~Closes(p) /\ ~Runs(p, "stop", "stop")
       /\ ToDial(p)' => /\ sock'[p] = Nobody /\ status'[p] = "waiting"
                       /\ ~Resets(p)' /\ ~Closes(p)' /\ ~Runs(p, "stop", "stop")'
  BY DEF Doomed, Busy
<1>12. /\ q # p /\ Open(c) \subseteq {p, q} /\ sock'[p] = c /\ sock[p] = c /\ Uses(p)
       /\ (From(c) = p /\ To(c) = q) \/ (From(c) = q /\ To(c) = p)
       /\ In(c, p) \in Seq(Message) /\ In(c, q) \in Seq(Message)
       /\ LinkInv(c) /\ KeyInv(c) /\ PhaseInv(c) /\ EndInv(c)
  <2>1. Uses(p) /\ p \in {From(c), To(c)}
    BY DEF Uses, Local, SockInv
  <2> QED
    BY <2>1, <1>9, LinkIs DEF OnLink, TypeOK, Other, From, To
<1>13. /\ sock'[q] = sock[q] /\ key'[q] = key[q] /\ asked'[q] = asked[q] /\ connected'[q] = connected[q]
       /\ ui'[q] = ui[q] /\ engine'[q] = engine[q]
       /\ \A h, l : Runs(q, h, l)' <=> Runs(q, h, l)
       /\ (Begun(q)' <=> Begun(q)) /\ (Resets(q)' <=> Resets(q)) /\ JobRules(q)
  <2>1. Untouched(q) /\ SameKey(q)
    BY <1>12 DEF StartedDoes
  <2> QED
    BY <2>1, JobsSame, JobsAre DEF Untouched, SameKey
<1>14. /\ c \in DOMAIN links' /\ From(c)' = From(c) /\ To(c)' = To(c) /\ Open(c)' = Open(c) /\ Taken(c)' = Taken(c)
       /\ (\A r : Other(c, r)' = Other(c, r)) /\ (early' = {} => early = {})
       /\ In(c, p)' = In(c, p) /\ In(c, q)' = In(c, q)
  BY <1>12, LinksStay DEF StartedDoes, TypeOK, Kept, Unmoved, Other, From, To
<1>30. EndKept(c, q)
  BY <1>12, <1>13 DEF EndKept
<1>31. EndKept(c, p)
  BY <1>1, <1>2, <1>7, <1>9, <1>12 DEF EndKept, Calls, Takes, Local, PlaceInv, JobRules
<1>32. BoxKept(c, p) /\ BoxKept(c, q)
  BY <1>12, <1>13, <1>14 DEF BoxKept, Other
<1>33. PhaseInv(c)' /\ EndInv(c)'
  BY <1>12, <1>14, <1>30, <1>31, <1>32, LinkKept
<1>34. LinkInv(c)'
  BY <1>12, <1>13, <1>14 DEF LinkInv
<1>35. KeyInv(c)'
  <2>1. key'[p] = key[p] /\ key'[q] = key[q]
    BY <1>9, <1>13
  <2>2. /\ p \in Open(c) => Keyed(In(c, p)', key[p])
        /\ q \in Open(c) => Keyed(In(c, q)', key[q])
    BY <1>9, <1>12, <1>13, <1>14 DEF KeyInv
  <2>3. /\ From(c) = p => Only(In(c, p)', {"accept", "reject", "ready"}) /\ Only(In(c, q)', {"request", "cancel", "ready"})
        /\ From(c) = q => Only(In(c, q)', {"accept", "reject", "ready"}) /\ Only(In(c, p)', {"request", "cancel", "ready"})
    BY <1>9, <1>12, <1>13, <1>14 DEF KeyInv
  <2> QED
    BY <1>12, <1>14, <2>1, <2>2, <2>3, KeyKept
<1>36. ReadyInv(c)'
  <2>1. early' = {} /\ sock[q] = c /\ Told(c, p, q) => Told(c, p, q)'
    BY <1>1, <1>2, <1>9, <1>12, <1>13, <1>14 DEF Told
  <2>2. early' = {} /\ sock[q] = c /\ Told(c, q, p) => Told(c, q, p)'
    BY <1>1, <1>2, <1>9, <1>12, <1>13, <1>14 DEF Told
  <2> QED
    BY <2>1, <2>2, <1>12, <1>13, <1>14, ReadyIs
<1> QED
  BY <1>33, <1>34, <1>35, <1>36

LEMMA SendersLink ==
    ASSUME TypeOK, TypeOK', NEW p \in Peers, NEW c \in DOMAIN links, Local(p), TlsInv(p), OnLink(p),
           SendersDoes(p), mishaps' = {}, ~Doomed(p), ~Doomed(p)',
           c = sock[p], NEW q \in Peers, q = Other(c, p), Local(q), ReadyInv(c)
    PROVE  LinkInv(c)' /\ KeyInv(c)' /\ PhaseInv(c)' /\ EndInv(c)' /\ ReadyInv(c)'
<1>1. /\ Runs(p, "accept", "statusOn")' <=> Runs(p, "accept", "statusOn")
      /\ Runs(p, "initHigh", "statusOn")' <=> Runs(p, "initHigh", "statusOn")
      /\ Runs(p, "initLow", "statusOn")' <=> Runs(p, "initLow", "statusOn")
      /\ Runs(p, "statusOn", "statusOn")' <=> Runs(p, "statusOn", "statusOn")
      /\ Runs(p, "cancel", "reset")' <=> Runs(p, "cancel", "reset")
      /\ Runs(p, "reset", "reset")' <=> Runs(p, "reset", "reset")
      /\ Runs(p, "reject", "statusOff")' <=> Runs(p, "reject", "statusOff")
      /\ Runs(p, "reset", "statusOff")' <=> Runs(p, "reset", "statusOff")
      /\ Runs(p, "statusOff", "statusOff")' <=> Runs(p, "statusOff", "statusOff")
      /\ Runs(p, "reset", "close")' <=> Runs(p, "reset", "close")
      /\ Runs(p, "close", "close")' <=> Runs(p, "close", "close")
      /\ Runs(p, "reset", "unconnected")' <=> Runs(p, "reset", "unconnected")
      /\ Runs(p, "lost", "unconnected")' <=> Runs(p, "lost", "unconnected")
      /\ Runs(p, "unconnected", "unconnected")' <=> Runs(p, "unconnected", "unconnected")
      /\ Runs(p, "reset", "again")' <=> Runs(p, "reset", "again")
      /\ Runs(p, "lost", "again")' <=> Runs(p, "lost", "again")
      /\ Runs(p, "again", "again")' <=> Runs(p, "again", "again")
      /\ Runs(p, "stop", "stop")' <=> Runs(p, "stop", "stop")
      /\ Runs(p, "ready", "ready")' <=> Runs(p, "ready", "ready")
      /\ Runs(p, "initFileSenders", "initFileSenders")
      /\ \A y : Doing(p, "dial", "request", y)' <=> Doing(p, "dial", "request", y)
      /\ \A y : Doing(p, "exchange", "request", y)' <=> Doing(p, "exchange", "request", y)
      /\ \A y : Doing(p, "connect", "request", y)' <=> Doing(p, "connect", "request", y)
      /\ \A y : Doing(p, "recvMsg", "request", y)' <=> Doing(p, "recvMsg", "request", y)
      /\ \A y : Doing(p, "request", "request", y)' <=> Doing(p, "request", "request", y)
      /\ \A y : Doing(p, "recvMsg", "established", y)' <=> Doing(p, "recvMsg", "established", y)
      /\ \A y : Doing(p, "established", "established", y)' <=> Doing(p, "established", "established", y)
      /\ \A y : Doing(p, "listen", "started", y)' <=> Doing(p, "listen", "started", y)
      /\ \A y : Doing(p, "started", "started", y)' <=> Doing(p, "started", "started", y)
  BY DEF SendersDoes, Finishes, Runs
<1>2. /\ Begun(p)' <=> Begun(p)
      /\ \A y : Asks(p, y)' <=> Asks(p, y)
      /\ ToDial(p)' <=> ToDial(p)
      /\ \A y : Adopts(p, y)' <=> Adopts(p, y)
      /\ Starting(p)' <=> Starting(p)
      /\ \A y : Starts(p, y)' <=> Starts(p, y)
      /\ Agrees(p)' <=> Agrees(p)
      /\ TakesBack(p)' <=> TakesBack(p)
      /\ Leaves(p)' <=> Leaves(p)
      /\ Closes(p)' <=> Closes(p)
      /\ Resets(p)' <=> Resets(p)
      /\ Ended(p)' <=> Ended(p)
  BY <1>1 DEF Adopts, Agrees, Asks, Begun, Closes, Ended, Leaves, Resets, Starting, Starts, TakesBack, ToDial
<1>3. LinksKept /\ DOMAIN links' = DOMAIN links
  BY LinksStay DEF SendersDoes, TypeOK, LinksKept
<1>4. /\ Uses(p)' <=> Uses(p)
      /\ Calls(p)' <=> Calls(p)
      /\ Takes(p)' <=> Takes(p)
      /\ Uses(p) => /\ From(sock[p])' = From(sock[p]) /\ To(sock[p])' = To(sock[p])
                    /\ Other(sock[p], p)' = Other(sock[p], p)
  BY <1>3, SocketSame DEF SendersDoes
<1>7. PeerFacts(p) /\ JobRules(p) /\ JobRules(p)' /\ Says(p)
  BY PeerIs, JobsAre, EndSays
<1>8. /\ status'[p] \in {"waiting", "tls", "tcp"} /\ sock'[p] \in DOMAIN links' \cup {Fresh, Nobody}
      /\ Fresh # Nobody /\ Fresh \notin DOMAIN links' /\ Nobody \notin DOMAIN links'
      /\ DOMAIN links' \subseteq Nat
      /\ engine'[p].listening \in BOOLEAN /\ engine'[p].started \in BOOLEAN /\ engine'[p].senders \in BOOLEAN
  BY PeerIsNext
<1>9. /\ Once(p) => Once(p)'
      /\ UNCHANGED <<status[p], sock[p], online[p], dialing[p], target[p], reading[p], connected[p], ids[p], partner[p], ui[p], asked[p], key[p], candidate[p], Reads(p)>>
      /\ engine'[p].addr = engine[p].addr /\ engine'[p].listening = engine[p].listening /\ engine'[p].started = engine[p].started
      /\ engine'[p].senders <=> engine[p].senders \/ (engine[p].addr # Nobody /\ engine[engine[p].addr].listening)
  BY DEF SendersDoes
<1>11. /\ ToDial(p) => /\ sock[p] = Nobody /\ status[p] = "waiting"
                      /\ ~Resets(p) /\ ~Closes(p) /\ ~Runs(p, "stop", "stop")
       /\ ToDial(p)' => /\ sock'[p] = Nobody /\ status'[p] = "waiting"
                       /\ ~Resets(p)' /\ ~Closes(p)' /\ ~Runs(p, "stop", "stop")'
  BY DEF Doomed, Busy
<1>12. /\ q # p /\ Open(c) \subseteq {p, q} /\ sock'[p] = c /\ sock[p] = c /\ Uses(p)
       /\ (From(c) = p /\ To(c) = q) \/ (From(c) = q /\ To(c) = p)
       /\ In(c, p) \in Seq(Message) /\ In(c, q) \in Seq(Message)
       /\ LinkInv(c) /\ KeyInv(c) /\ PhaseInv(c) /\ EndInv(c)
  <2>1. Uses(p) /\ p \in {From(c), To(c)}
    BY DEF Uses, Local, SockInv
  <2> QED
    BY <2>1, <1>9, LinkIs DEF OnLink, TypeOK, Other, From, To
<1>13. /\ sock'[q] = sock[q] /\ key'[q] = key[q] /\ asked'[q] = asked[q] /\ connected'[q] = connected[q]
       /\ ui'[q] = ui[q] /\ engine'[q] = engine[q]
       /\ \A h, l : Runs(q, h, l)' <=> Runs(q, h, l)
       /\ (Begun(q)' <=> Begun(q)) /\ (Resets(q)' <=> Resets(q)) /\ JobRules(q)
  <2>1. Untouched(q) /\ SameKey(q)
    BY <1>12 DEF SendersDoes
  <2> QED
    BY <2>1, JobsSame, JobsAre DEF Untouched, SameKey
<1>14. /\ c \in DOMAIN links' /\ From(c)' = From(c) /\ To(c)' = To(c) /\ Open(c)' = Open(c) /\ Taken(c)' = Taken(c)
       /\ (\A r : Other(c, r)' = Other(c, r)) /\ (early' = {} => early = {})
       /\ In(c, p)' = In(c, p) /\ In(c, q)' = In(c, q)
  BY <1>12, LinksStay DEF SendersDoes, TypeOK, Kept, Unmoved, Other, From, To
<1>30. EndKept(c, q)
  BY <1>12, <1>13 DEF EndKept
<1>31. EndKept(c, p)
  BY <1>1, <1>2, <1>7, <1>9, <1>12 DEF EndKept, Calls, Takes, Local, PlaceInv, JobRules
<1>32. BoxKept(c, p) /\ BoxKept(c, q)
  BY <1>12, <1>13, <1>14 DEF BoxKept, Other
<1>33. PhaseInv(c)' /\ EndInv(c)'
  BY <1>12, <1>14, <1>30, <1>31, <1>32, LinkKept
<1>34. LinkInv(c)'
  BY <1>12, <1>13, <1>14 DEF LinkInv
<1>35. KeyInv(c)'
  <2>1. key'[p] = key[p] /\ key'[q] = key[q]
    BY <1>9, <1>13
  <2>2. /\ p \in Open(c) => Keyed(In(c, p)', key[p])
        /\ q \in Open(c) => Keyed(In(c, q)', key[q])
    BY <1>9, <1>12, <1>13, <1>14 DEF KeyInv
  <2>3. /\ From(c) = p => Only(In(c, p)', {"accept", "reject", "ready"}) /\ Only(In(c, q)', {"request", "cancel", "ready"})
        /\ From(c) = q => Only(In(c, q)', {"accept", "reject", "ready"}) /\ Only(In(c, p)', {"request", "cancel", "ready"})
    BY <1>9, <1>12, <1>13, <1>14 DEF KeyInv
  <2> QED
    BY <1>12, <1>14, <2>1, <2>2, <2>3, KeyKept
<1>36. ReadyInv(c)'
  <2>1. early' = {} /\ sock[q] = c /\ Told(c, p, q) => Told(c, p, q)'
    <3>1. early' = {} => engine[p].listening
      BY DEF SendersDoes
    <3>2. engine[p].listening => engine[p].addr = q
      BY <1>12 DEF Local, EngineInv
    <3>3. q # Nobody
      BY SessionAssumption
    <3> QED
      BY <1>9, <1>13, <3>1, <3>2, <3>3 DEF Told
  <2>2. Told(c, q, p) => Told(c, q, p)'
    BY <1>1, <1>9, <1>12, <1>13, <1>14 DEF Told
  <2> QED
    BY <2>1, <2>2, <1>12, <1>13, <1>14, ReadyIs
<1> QED
  BY <1>33, <1>34, <1>35, <1>36

-----------------------------------------------------------------------------
(* Every peer and every link                                               *)

\* What is said of one link.
Whole(c) == LinkInv(c) /\ KeyInv(c) /\ PhaseInv(c) /\ EndInv(c) /\ ReadyInv(c)

\* The invariant, peer by peer and link by link.
LEMMA CoreIs ==
    /\ Core <=> /\ \A p \in Peers : Local(p) /\ TlsInv(p)
                /\ \A c \in DOMAIN links : Whole(c)
    /\ Core' <=> /\ \A p \in Peers : Local(p)' /\ TlsInv(p)'
                 /\ \A c \in DOMAIN links' : Whole(c)'
  BY DEF Core, Local, Whole

\* What a step of p leaves alone, but for the exchange of a key.
Ordinary(p) ==
    /\ \A r \in Peers : r # p => Untouched(r) /\ SameKey(r)
    /\ key'[p] = key[p]
    /\ LinksKept /\ \A d \in DOMAIN links' : d \notin DOMAIN links => d = sock'[p]
    /\ \A d \in DOMAIN links : d # sock[p] /\ d # sock'[p] =>
           Unmoved(d) /\ Open(d)' = Open(d) /\ Taken(d)' = Taken(d)
    /\ early' = {} => early = {}

\* A step of p keeps what other peers have ...
LEMMA OthersLocal ==
    ASSUME TypeOK, TypeOK', LinksKept, NEW r \in Peers, Untouched(r), Local(r)
    PROVE  Local(r)'
  BY LocalFrame DEF Local

\* ... and the links that p does not use, ...
LEMMA OtherLinks ==
    ASSUME TypeOK, TypeOK', NEW p \in Peers, Ordinary(p), NEW c \in DOMAIN links,
           c # sock[p], c # sock'[p], Whole(c)
    PROVE  Whole(c)'
<1>1. /\ c \in DOMAIN links' /\ Kept(c) /\ Unmoved(c) /\ Open(c)' = Open(c) /\ Taken(c)' = Taken(c)
  BY DEF Ordinary, LinksKept
<1>2. early' = {} => early = {}
  BY DEF Ordinary
<1>3. \A r \in Peers : r # p => /\ Same(r)
                                /\ UNCHANGED <<sock[r], asked[r], connected[r], ui[r], engine[r]>>
  BY DEF Ordinary, Untouched
<1>4. \A r \in Open(c) : key'[r] = key[r]
  <2>1. Open(c) \subseteq Peers
    <3>1. Open(c) \subseteq {From(c), To(c)} /\ From(c) \in Peers /\ To(c) \in Peers
      BY LinkIs DEF TypeOK
    <3> QED
      BY <3>1
  <2> QED
    BY <2>1 DEF Ordinary, SameKey
<1> QED
  BY <1>1, <1>2, <1>3, <1>4, LinkElsewhere DEF Whole

\* ... so that p and its link are what is left to show, ...
LEMMA CoreStep ==
    ASSUME TypeOK, TypeOK', Core, NEW p \in Peers, Ordinary(p), Local(p)',
           \A r \in Peers : TlsInv(r)',
           \A c \in DOMAIN links' : c = sock[p] \/ c = sock'[p] => Whole(c)'
    PROVE  Core'
<1>1. \A r \in Peers : Local(r)'
  <2>1. ASSUME NEW r \in Peers, r # p
        PROVE  Local(r)'
    BY <2>1, OthersLocal, CoreIs DEF Ordinary
  <2> QED
    BY <2>1
<1>2. \A c \in DOMAIN links' : Whole(c)'
  <2>1. ASSUME NEW c \in DOMAIN links', c # sock[p], c # sock'[p]
        PROVE  Whole(c)'
    <3>1. c \in DOMAIN links
      BY <2>1 DEF Ordinary
    <3> QED
      BY <2>1, <3>1, OtherLinks, CoreIs
  <2> QED
    BY <2>1
<1> QED
  BY <1>1, <1>2, CoreIs

\* The exchanges of other peers.
LEMMA OthersWait ==
    ASSUME TypeOK, TypeOK', Core, NEW p \in Peers, Ordinary(p), NEW r \in Peers, r # p,
           Doing(p, "connect", "request", r)' <=> Doing(p, "connect", "request", r),
           \A d \in DOMAIN links : To(d) = r => Taken(d)' = Taken(d),
           \A d \in DOMAIN links' : To(d)' = r => d \in DOMAIN links
    PROVE  TlsInv(r)'
<1>1. Untouched(r) /\ SameKey(r) /\ LinksKept /\ TlsInv(r)
  BY CoreIs DEF Ordinary
<1>2. \A y \in Peers : /\ Doing(y, "connect", "request", r)' <=> Doing(y, "connect", "request", r)
                       /\ key'[y] = key[y]
  BY DEF Ordinary, Untouched, Same, SameKey
<1> QED
  BY <1>1, <1>2, TlsFrame

\* ... and less where no link is made.
LEMMA OrdinaryStep ==
    ASSUME TypeOK, TypeOK', Core, NEW p \in Peers, Ordinary(p), Local(p)', TlsInv(p)',
           \A y : Doing(p, "connect", "request", y)' <=> Doing(p, "connect", "request", y),
           \A d \in DOMAIN links : To(d) # p => Taken(d)' = Taken(d),
           DOMAIN links' = DOMAIN links,
           \A c \in DOMAIN links : c = sock[p] \/ c = sock'[p] => Whole(c)'
    PROVE  Core'
<1>1. ASSUME NEW r \in Peers
      PROVE  TlsInv(r)'
  BY <1>1, OthersWait
<1> QED
  BY <1>1, CoreStep

\* What the invariant says of p.
LEMMA OnLinkIs ==
    ASSUME Core, NEW p \in Peers
    PROVE  Local(p) /\ TlsInv(p) /\ OnLink(p)
  BY CoreIs DEF OnLink, Whole, Uses

\* A step of a peer that uses no link.
LEMMA NoLinkStep ==
    ASSUME TypeOK, TypeOK', Core, NEW p \in Peers, Ordinary(p), Local(p)', TlsInv(p)',
           \A y : Doing(p, "connect", "request", y)' <=> Doing(p, "connect", "request", y),
           DOMAIN links' = DOMAIN links,
           ~Uses(p), sock'[p] \notin DOMAIN links, 
           \A d \in DOMAIN links : Taken(d)' = Taken(d)
    PROVE  Core'
  BY OrdinaryStep DEF Uses

-----------------------------------------------------------------------------
(* A step of p keeps the invariant, when it is no mishap: XKeeps is about  *)
(* the step that XDoes describes.                                          *)

LEMMA UserConnectsKeeps ==
    ASSUME TypeOK, TypeOK', Core, NEW p \in Peers, NEW q \in Peers, UserConnectsDoes(p, q), mishaps' = {},
           ~Doomed(p), ~Doomed(p)'
    PROVE  Core'
<1>1. Local(p) /\ TlsInv(p) /\ OnLink(p) /\ PeerFacts(p)
  BY OnLinkIs, PeerIs
<1>2. Local(p)' /\ TlsInv(p)'
  BY <1>1, UserConnectsLocal
<1>3. Ordinary(p)
  <2>1. DOMAIN links' = DOMAIN links /\ \A d \in DOMAIN links : Kept(d) /\ Unmoved(d) /\ Open(d)' = Open(d) /\ Taken(d)' = Taken(d)
    BY LinksStay DEF UserConnectsDoes, TypeOK
  <2> QED
    BY <2>1 DEF UserConnectsDoes, Ordinary, LinksKept
<1>4. /\ \A y : Doing(p, "connect", "request", y)' <=> Doing(p, "connect", "request", y)
      /\ DOMAIN links' = DOMAIN links
      /\ \A d \in DOMAIN links : Taken(d)' = Taken(d)
  <2>1. \A y : Doing(p, "connect", "request", y)' <=> Doing(p, "connect", "request", y)
    BY DEF UserConnectsDoes, Gets
  <2>2. DOMAIN links' = DOMAIN links /\ \A d \in DOMAIN links : Taken(d)' = Taken(d)
    BY LinksStay DEF UserConnectsDoes, TypeOK
  <2> QED
    BY <2>1, <2>2
<1>5. ~Uses(p) /\ sock'[p] \notin DOMAIN links
  <2>1. ToDial(p)'
    BY DEF UserConnectsDoes, Gets, ToDial
  <2>2. sock[p] = Nobody /\ sock'[p] = Nobody
    BY <2>1 DEF UserConnectsDoes, Doomed, Busy
  <2> QED
    BY <1>1, <2>2 DEF PeerFacts
<1> QED
  BY <1>1, <1>2, <1>3, <1>4, <1>5, NoLinkStep

LEMMA UserCancelsKeeps ==
    ASSUME TypeOK, TypeOK', Core, NEW p \in Peers, UserCancelsDoes(p), mishaps' = {},
           ~Doomed(p), ~Doomed(p)'
    PROVE  Core'
<1>1. Local(p) /\ TlsInv(p) /\ OnLink(p) /\ PeerFacts(p)
  BY OnLinkIs, PeerIs
<1>2. Local(p)' /\ TlsInv(p)'
  BY <1>1, UserCancelsLocal
<1>3. Ordinary(p)
  <2>1. DOMAIN links' = DOMAIN links /\ \A d \in DOMAIN links : Kept(d) /\ Unmoved(d) /\ Open(d)' = Open(d) /\ Taken(d)' = Taken(d)
    BY LinksStay DEF UserCancelsDoes, TypeOK
  <2> QED
    BY <2>1 DEF UserCancelsDoes, Ordinary, LinksKept
<1>4. /\ \A y : Doing(p, "connect", "request", y)' <=> Doing(p, "connect", "request", y)
      /\ DOMAIN links' = DOMAIN links
      /\ \A d \in DOMAIN links : Taken(d)' = Taken(d)
  <2>1. \A y : Doing(p, "connect", "request", y)' <=> Doing(p, "connect", "request", y)
    BY DEF UserCancelsDoes, Gets
  <2>2. DOMAIN links' = DOMAIN links /\ \A d \in DOMAIN links : Taken(d)' = Taken(d)
    BY LinksStay DEF UserCancelsDoes, TypeOK
  <2> QED
    BY <2>1, <2>2
<1>5. ASSUME NEW e \in DOMAIN links, e = sock[p] \/ e = sock'[p]
      PROVE  Whole(e)'
  <2>1. e = sock[p]
    BY <1>5 DEF UserCancelsDoes
  <2>3. PICK q \in Peers : q = Other(e, p)
    BY <1>1, <2>1 DEF PeerFacts
  <2>4. Local(q) /\ ReadyInv(e)
    BY CoreIs DEF Whole
  <2> QED
    BY <1>1, <2>1, <2>3, <2>4, UserCancelsLink DEF Whole
<1> QED
  BY <1>2, <1>3, <1>4, <1>5, OrdinaryStep

LEMMA UserAcceptsKeeps ==
    ASSUME TypeOK, TypeOK', Core, NEW p \in Peers, UserAcceptsDoes(p), mishaps' = {},
           ~Doomed(p), ~Doomed(p)'
    PROVE  Core'
<1>1. Local(p) /\ TlsInv(p) /\ OnLink(p) /\ PeerFacts(p)
  BY OnLinkIs, PeerIs
<1>2. Local(p)' /\ TlsInv(p)'
  BY <1>1, UserAcceptsLocal
<1>3. Ordinary(p)
  <2>1. DOMAIN links' = DOMAIN links /\ \A d \in DOMAIN links : Kept(d) /\ Unmoved(d) /\ Open(d)' = Open(d) /\ Taken(d)' = Taken(d)
    BY LinksStay DEF UserAcceptsDoes, TypeOK
  <2> QED
    BY <2>1 DEF UserAcceptsDoes, Ordinary, LinksKept
<1>4. /\ \A y : Doing(p, "connect", "request", y)' <=> Doing(p, "connect", "request", y)
      /\ DOMAIN links' = DOMAIN links
      /\ \A d \in DOMAIN links : Taken(d)' = Taken(d)
  <2>1. \A y : Doing(p, "connect", "request", y)' <=> Doing(p, "connect", "request", y)
    BY DEF UserAcceptsDoes, Gets
  <2>2. DOMAIN links' = DOMAIN links /\ \A d \in DOMAIN links : Taken(d)' = Taken(d)
    BY LinksStay DEF UserAcceptsDoes, TypeOK
  <2> QED
    BY <2>1, <2>2
<1>5. ASSUME NEW e \in DOMAIN links, e = sock[p] \/ e = sock'[p]
      PROVE  Whole(e)'
  <2>1. e = sock[p]
    BY <1>5 DEF UserAcceptsDoes
  <2>3. PICK q \in Peers : q = Other(e, p)
    BY <1>1, <2>1 DEF PeerFacts
  <2>4. Local(q) /\ ReadyInv(e)
    BY CoreIs DEF Whole
  <2> QED
    BY <1>1, <2>1, <2>3, <2>4, UserAcceptsLink DEF Whole
<1> QED
  BY <1>2, <1>3, <1>4, <1>5, OrdinaryStep

LEMMA UserRejectsKeeps ==
    ASSUME TypeOK, TypeOK', Core, NEW p \in Peers, UserRejectsDoes(p), mishaps' = {},
           ~Doomed(p), ~Doomed(p)'
    PROVE  Core'
<1>1. Local(p) /\ TlsInv(p) /\ OnLink(p) /\ PeerFacts(p)
  BY OnLinkIs, PeerIs
<1>2. Local(p)' /\ TlsInv(p)'
  BY <1>1, UserRejectsLocal
<1>3. Ordinary(p)
  <2>1. DOMAIN links' = DOMAIN links /\ \A d \in DOMAIN links : Kept(d) /\ Unmoved(d) /\ Open(d)' = Open(d) /\ Taken(d)' = Taken(d)
    BY LinksStay DEF UserRejectsDoes, TypeOK
  <2> QED
    BY <2>1 DEF UserRejectsDoes, Ordinary, LinksKept
<1>4. /\ \A y : Doing(p, "connect", "request", y)' <=> Doing(p, "connect", "request", y)
      /\ DOMAIN links' = DOMAIN links
      /\ \A d \in DOMAIN links : Taken(d)' = Taken(d)
  <2>1. \A y : Doing(p, "connect", "request", y)' <=> Doing(p, "connect", "request", y)
    BY DEF UserRejectsDoes, Gets
  <2>2. DOMAIN links' = DOMAIN links /\ \A d \in DOMAIN links : Taken(d)' = Taken(d)
    BY LinksStay DEF UserRejectsDoes, TypeOK
  <2> QED
    BY <2>1, <2>2
<1>5. ASSUME NEW e \in DOMAIN links, e = sock[p] \/ e = sock'[p]
      PROVE  Whole(e)'
  <2>1. e = sock[p]
    BY <1>5 DEF UserRejectsDoes
  <2>3. PICK q \in Peers : q = Other(e, p)
    BY <1>1, <2>1 DEF PeerFacts
  <2>4. Local(q) /\ ReadyInv(e)
    BY CoreIs DEF Whole
  <2> QED
    BY <1>1, <2>1, <2>3, <2>4, UserRejectsLink DEF Whole
<1> QED
  BY <1>2, <1>3, <1>4, <1>5, OrdinaryStep

LEMMA UserDisconnectsKeeps ==
    ASSUME TypeOK, TypeOK', Core, NEW p \in Peers, UserDisconnectsDoes(p), mishaps' = {},
           ~Doomed(p), ~Doomed(p)'
    PROVE  Core'
<1>1. Local(p) /\ TlsInv(p) /\ OnLink(p) /\ PeerFacts(p)
  BY OnLinkIs, PeerIs
<1>2. Local(p)' /\ TlsInv(p)'
  BY <1>1, UserDisconnectsLocal
<1>3. Ordinary(p)
  <2>1. DOMAIN links' = DOMAIN links /\ \A d \in DOMAIN links : Kept(d) /\ Unmoved(d) /\ Open(d)' = Open(d) /\ Taken(d)' = Taken(d)
    BY LinksStay DEF UserDisconnectsDoes, TypeOK
  <2> QED
    BY <2>1 DEF UserDisconnectsDoes, Ordinary, LinksKept
<1>4. /\ \A y : Doing(p, "connect", "request", y)' <=> Doing(p, "connect", "request", y)
      /\ DOMAIN links' = DOMAIN links
      /\ \A d \in DOMAIN links : Taken(d)' = Taken(d)
  <2>1. \A y : Doing(p, "connect", "request", y)' <=> Doing(p, "connect", "request", y)
    BY DEF UserDisconnectsDoes, Gets
  <2>2. DOMAIN links' = DOMAIN links /\ \A d \in DOMAIN links : Taken(d)' = Taken(d)
    BY LinksStay DEF UserDisconnectsDoes, TypeOK
  <2> QED
    BY <2>1, <2>2
<1>5. ASSUME NEW e \in DOMAIN links, e = sock[p] \/ e = sock'[p]
      PROVE  Whole(e)'
  <2>1. e = sock[p]
    BY <1>5 DEF UserDisconnectsDoes
  <2>3. PICK q \in Peers : q = Other(e, p)
    BY <1>1, <2>1 DEF PeerFacts
  <2>4. Local(q) /\ ReadyInv(e)
    BY CoreIs DEF Whole
  <2> QED
    BY <1>1, <2>1, <2>3, <2>4, UserDisconnectsLink DEF Whole
<1> QED
  BY <1>2, <1>3, <1>4, <1>5, OrdinaryStep

LEMMA DialKeeps ==
    ASSUME TypeOK, TypeOK', Core, NEW p \in Peers, NEW x, DialDoes(p, x), mishaps' = {},
           ~Doomed(p), ~Doomed(p)'
    PROVE  Core'
<1>1. Local(p) /\ TlsInv(p) /\ OnLink(p) /\ PeerFacts(p)
  BY OnLinkIs, PeerIs
<1>2. Local(p)' /\ TlsInv(p)'
  BY <1>1, DialLocal
<1>3. Ordinary(p)
  <2>1. DOMAIN links' = DOMAIN links /\ \A d \in DOMAIN links : Kept(d) /\ Unmoved(d) /\ Open(d)' = Open(d) /\ Taken(d)' = Taken(d)
    BY LinksStay DEF DialDoes, TypeOK
  <2> QED
    BY <2>1 DEF DialDoes, Ordinary, LinksKept
<1>4. /\ \A y : Doing(p, "connect", "request", y)' <=> Doing(p, "connect", "request", y)
      /\ DOMAIN links' = DOMAIN links
      /\ \A d \in DOMAIN links : Taken(d)' = Taken(d)
  <2>1. \A y : Doing(p, "connect", "request", y)' <=> Doing(p, "connect", "request", y)
    BY DEF DialDoes, Advances
  <2>2. DOMAIN links' = DOMAIN links /\ \A d \in DOMAIN links : Taken(d)' = Taken(d)
    BY LinksStay DEF DialDoes, TypeOK
  <2> QED
    BY <2>1, <2>2
<1>5. ~Uses(p) /\ sock'[p] \notin DOMAIN links
  <2>1. sock[p] = Nobody /\ sock'[p] = Fresh
    BY DEF DialDoes, Busy
  <2> QED
    BY <1>1, <2>1 DEF PeerFacts
<1> QED
  BY <1>1, <1>2, <1>3, <1>4, <1>5, NoLinkStep

LEMMA ExchangeKeeps ==
    ASSUME TypeOK, TypeOK', Core, NEW p \in Peers, NEW x, ExchangeDoes(p, x), mishaps' = {},
           ~Doomed(p), ~Doomed(p)'
    PROVE  Core'
<1>1. Local(p) /\ TlsInv(p) /\ OnLink(p) /\ PeerFacts(p)
  BY OnLinkIs, PeerIs
<1>2. Local(p)' /\ TlsInv(p)'
  BY <1>1, ExchangeLocal
<1>3. /\ x \in Peers /\ x # p /\ ~Ending(x) /\ ~Beginning(x) /\ sock[x] = Nobody /\ status[x] = "waiting"
      /\ sock'[x] = Nobody /\ status'[x] = "tls" /\ candidate'[x] = p /\ key'[x] = key'[p]
      /\ Same(x) /\ Reads(x)' = Reads(x)
      /\ UNCHANGED <<online[x], dialing[x], target[x], reading[x], connected[x],
                     ids[x], partner[x], engine[x], ui[x], asked[x]>>
      /\ (Once(x) => Once(x)')
  BY DEF ExchangeDoes, Busy
<1>4. /\ \A r \in Peers : r # p /\ r # x => Untouched(r) /\ SameKey(r)
      /\ \A r \in Peers : r # p => /\ Same(r)
                                   /\ UNCHANGED <<sock[r], asked[r], connected[r], ui[r], engine[r]>>
      /\ sock'[p] = sock[p]
  BY <1>3 DEF ExchangeDoes, Untouched
<1>5. /\ sock[p] = Fresh /\ \A y \in Peers : ~Doing(p, "connect", "request", y)
      /\ Doing(p, "connect", "request", x)'
      /\ \A y : Doing(p, "connect", "request", y)' => Doing(p, "connect", "request", y) \/ y = x
  <2>1. /\ Doing(p, "exchange", "request", x) /\ Doing(p, "connect", "request", x)'
        /\ \A y : Doing(p, "connect", "request", y)' => Doing(p, "connect", "request", y) \/ y = x
    BY DEF ExchangeDoes, Advances
  <2>2. \A y \in Peers : Doing(p, "exchange", "request", y) \/ Doing(p, "connect", "request", y) =>
            sock[p] = Fresh /\ target[p] = y
    BY <1>1 DEF Local, AskInv
  <2>3. ~Doing(p, "connect", "request", x)
    BY <1>1, <1>3, <2>1 DEF Local, AskInv
  <2> QED
    BY <1>3, <2>1, <2>2, <2>3
<1>6. /\ DOMAIN links' = DOMAIN links /\ LinksKept
      /\ \A d \in DOMAIN links : Kept(d) /\ Unmoved(d) /\ Open(d)' = Open(d) /\ Taken(d)' = Taken(d)
  BY LinksStay DEF ExchangeDoes, TypeOK, LinksKept
<1>7. Local(x) /\ TlsInv(x) /\ PeerFacts(x)
  BY <1>3, CoreIs, PeerIs
<1>8. /\ ~ToDial(x) /\ ~Agrees(x) /\ ~Resets(x) /\ ~Closes(x) /\ ~Ended(x) /\ ~Uses(x) /\ Reads(x) = {}
      /\ (\A c : ~Adopts(x, c))
      /\ \A y : ~Doing(x, "exchange", "request", y) /\ ~Doing(x, "connect", "request", y)
                /\ ~Doing(x, "recvMsg", "request", y)
  BY <1>3, <1>7, BeginsNothing, EndsNothing DEF PeerFacts
<1>9. ~Begun(x)
  BY <1>7, <1>8 DEF Local, AskInv, Begun, Asks, Calls
<1>10. ui[x] = "idle"
  BY <1>7, <1>8, <1>9 DEF Local, WindowInv, ConnInv, PeerFacts, Calls
<1>11. \A d \in DOMAIN links : To(d) = x => Taken(d)
  BY <1>3, <1>7 DEF TlsInv
<1>12. /\ Uses(x)' <=> Uses(x)
       /\ Calls(x)' <=> Calls(x)
       /\ Takes(x)' <=> Takes(x)
       /\ Uses(x) => Other(sock[x], x)' = Other(sock[x], x) /\ From(sock[x])' = From(sock[x])
                     /\ To(sock[x])' = To(sock[x])
  BY <1>3, <1>6, SocketSame
<1>13. /\ \A s, l : Runs(x, s, l)' <=> Runs(x, s, l)
       /\ \A s, l, y : Doing(x, s, l, y)' <=> Doing(x, s, l, y)
       /\ \A q : Asks(x, q)' <=> Asks(x, q)
       /\ \A q : Starts(x, q)' <=> Starts(x, q)
       /\ \A c : Adopts(x, c)' <=> Adopts(x, c)
       /\ Begun(x)' <=> Begun(x)
       /\ ToDial(x)' <=> ToDial(x)
       /\ Starting(x)' <=> Starting(x)
       /\ Agrees(x)' <=> Agrees(x)
       /\ TakesBack(x)' <=> TakesBack(x)
       /\ Leaves(x)' <=> Leaves(x)
       /\ Resets(x)' <=> Resets(x)
       /\ Closes(x)' <=> Closes(x)
       /\ Ended(x)' <=> Ended(x)
  BY <1>3, JobsSame DEF Same
<1>14. Local(x)'
  <2>1. SockInv(x)'
    BY <1>3, <1>7, <1>8, <1>12, <1>13, PeerIsNext DEF Calls, SockInv, Local
  <2>2. ReadInv(x)'
    BY <1>3, <1>7, <1>8, <1>12 DEF ReadInv, Local, PeerFacts
  <2>3. AskInv(x)'
    BY <1>3, <1>7, <1>8, <1>9, <1>12, <1>13 DEF AskInv, Local, Calls, PeerFacts
  <2>4. PlaceInv(x)'
    BY <1>3, <1>6, <1>7, <1>8, <1>12, <1>13 DEF PlaceInv, Local
  <2>5. ConnInv(x)' /\ WindowInv(x)'
    BY <1>3, <1>7, <1>12, <1>13 DEF ConnInv, WindowInv, Local
  <2>6. EngineInv(x)'
    BY <1>3, <1>7, <1>8, <1>12, <1>13 DEF EngineInv, Local, Calls, Takes
  <2> QED
    BY <2>1, <2>2, <2>3, <2>4, <2>5, <2>6 DEF Local
<1>15. \A y \in Peers : Doing(y, "connect", "request", x)' => y = p
  <2>1. \A y \in Peers : ~Doing(y, "connect", "request", x)
    BY <1>3, <1>7 DEF TlsInv
  <2> QED
    BY <1>4, <2>1 DEF Same
<1>16. TlsInv(x)'
  BY <1>3, <1>5, <1>6, <1>8, <1>9, <1>10, <1>11, <1>12, <1>13, <1>15 DEF TlsInv, Kept
<1>17. ASSUME NEW r \in Peers, r # p, r # x
       PROVE  Local(r)' /\ TlsInv(r)'
  <2>1. Untouched(r) /\ SameKey(r) /\ Local(r) /\ TlsInv(r)
    BY <1>4, <1>17, CoreIs
  <2>2. \A y \in Peers : Doing(y, "connect", "request", r)' =>
            Doing(y, "connect", "request", r) /\ key'[y] = key[y]
    <3>1. \A y \in Peers : y # p => (Doing(y, "connect", "request", r)' => Doing(y, "connect", "request", r))
      BY <1>4 DEF Same
    <3>2. ~Doing(x, "connect", "request", r)' /\ ~Doing(p, "connect", "request", r)'
      BY <1>5, <1>8, <1>13, <1>17
    <3>3. \A y \in Peers : y # p /\ y # x => key'[y] = key[y]
      BY <1>4 DEF SameKey
    <3> QED
      BY <3>1, <3>2, <3>3
  <2>3. \A y \in Peers : y # r => (Doing(y, "connect", "request", r) => Doing(y, "connect", "request", r)')
    BY <1>4, <1>5 DEF Same
  <2> QED
    BY <1>6, <2>1, <2>2, <2>3, OthersLocal, TlsFrame
<1>18. ASSUME NEW c \in DOMAIN links
       PROVE  Whole(c)'
  <2>1. Whole(c) /\ LinkInv(c)
    BY CoreIs DEF Whole
  <2>2. /\ sock[p] # c /\ sock'[p] # c /\ sock[x] # c
    BY <1>1, <1>3, <1>4, <1>5 DEF PeerFacts
  <2>3. p \notin Open(c) /\ x \notin Open(c)
    <3>1. Open(c) \subseteq {From(c), To(c)}
      BY LinkIs DEF TypeOK
    <3>2. ASSUME To(c) = p
          PROVE  Taken(c)
      BY <1>1, <1>5, <3>2 DEF TlsInv, PeerFacts
    <3> QED
      BY <1>11, <2>1, <2>2, <3>1, <3>2 DEF LinkInv
  <2>4. \A r \in Open(c) : key'[r] = key[r]
    <3>1. Open(c) \subseteq Peers
      <4>1. Open(c) \subseteq {From(c), To(c)} /\ From(c) \in Peers /\ To(c) \in Peers
        BY LinkIs DEF TypeOK
      <4> QED
        BY <4>1
    <3> QED
      BY <1>4, <2>3, <3>1 DEF SameKey
  <2>5. early' = {} => early = {}
    BY DEF ExchangeDoes
  <2> QED
    BY <1>4, <1>6, <2>1, <2>2, <2>4, <2>5, LinkElsewhere DEF Whole
<1>19. \A r \in Peers : Local(r)' /\ TlsInv(r)'
  BY <1>2, <1>14, <1>16, <1>17
<1> QED
  BY <1>6, <1>18, <1>19, CoreIs

LEMMA RefusedKeeps ==
    ASSUME TypeOK, TypeOK', Core, NEW p \in Peers, NEW x, RefusedDoes(p, x), mishaps' = {},
           ~Doomed(p), ~Doomed(p)'
    PROVE  Core'
<1>1. Local(p) /\ TlsInv(p) /\ OnLink(p) /\ PeerFacts(p)
  BY OnLinkIs, PeerIs
<1>2. Local(p)' /\ TlsInv(p)'
  BY <1>1, RefusedLocal
<1>3. Ordinary(p)
  <2>1. DOMAIN links' = DOMAIN links /\ \A d \in DOMAIN links : Kept(d) /\ Unmoved(d) /\ Open(d)' = Open(d) /\ Taken(d)' = Taken(d)
    BY LinksStay DEF RefusedDoes, TypeOK
  <2> QED
    BY <2>1 DEF RefusedDoes, Ordinary, LinksKept
<1>4. /\ \A y : Doing(p, "connect", "request", y)' <=> Doing(p, "connect", "request", y)
      /\ DOMAIN links' = DOMAIN links
      /\ \A d \in DOMAIN links : Taken(d)' = Taken(d)
  <2>1. \A y : Doing(p, "connect", "request", y)' <=> Doing(p, "connect", "request", y)
    BY DEF RefusedDoes, Swaps
  <2>2. DOMAIN links' = DOMAIN links /\ \A d \in DOMAIN links : Taken(d)' = Taken(d)
    BY LinksStay DEF RefusedDoes, TypeOK
  <2> QED
    BY <2>1, <2>2
<1>5. ~Uses(p) /\ sock'[p] \notin DOMAIN links
  <2>1. Doing(p, "exchange", "request", x) /\ x \in Peers /\ sock'[p] = sock[p]
    BY DEF RefusedDoes, Swaps
  <2>2. sock[p] = Fresh
    BY <1>1, <2>1 DEF Local, AskInv
  <2> QED
    BY <1>1, <2>1, <2>2 DEF PeerFacts
<1> QED
  BY <1>1, <1>2, <1>3, <1>4, <1>5, NoLinkStep

LEMMA ConnectKeeps ==
    ASSUME TypeOK, TypeOK', Core, NEW p \in Peers, NEW x, ConnectDoes(p, x), mishaps' = {},
           ~Doomed(p), ~Doomed(p)', target[p] # Nobody, sock[p] \notin DOMAIN links
    PROVE  Core'
<1>1. Local(p) /\ TlsInv(p) /\ OnLink(p) /\ PeerFacts(p)
  BY OnLinkIs, PeerIs
<1>2. Local(p)' /\ TlsInv(p)'
  BY <1>1, ConnectLocal
<1>3. Ordinary(p)
  BY ConnectMakes DEF ConnectDoes, Ordinary
<1>4. /\ x \in Peers /\ x # p /\ Doing(p, "connect", "request", x) /\ Untouched(x) /\ SameKey(x)
      /\ \A y : Doing(p, "connect", "request", y)' => Doing(p, "connect", "request", y)
      /\ \A y : y # x => (Doing(p, "connect", "request", y)' <=> Doing(p, "connect", "request", y))
      /\ ~Doing(p, "connect", "request", x)' /\ sock[p] = Fresh
  <2>1. /\ x \in Peers /\ x # p /\ Doing(p, "connect", "request", x) /\ Untouched(x) /\ SameKey(x)
        /\ \A y : Doing(p, "connect", "request", y)' => Doing(p, "connect", "request", y)
        /\ \A y : y # x => (Doing(p, "connect", "request", y)' <=> Doing(p, "connect", "request", y))
    BY DEF ConnectDoes, Advances
  <2>2. ~Doing(p, "connect", "request", x)' /\ sock[p] = Fresh
    BY <1>1, <2>1 DEF ConnectDoes, Local, AskInv
  <2> QED
    BY <2>1, <2>2
<1>5. PICK n : n = sock'[p]
  OBVIOUS
<1>6. /\ n \notin DOMAIN links /\ DOMAIN links' = DOMAIN links \cup {n}
      /\ From(n)' = p /\ To(n)' = x /\ ~Taken(n)'
      /\ \A d \in DOMAIN links : Kept(d) /\ Taken(d)' = Taken(d)
  BY <1>5, ConnectMakes
<1>7. TlsInv(x)
  BY <1>4, CoreIs
<1>8. Whole(n)'
  BY <1>1, <1>5, <1>7, LinkBegun DEF Whole
<1>9. /\ status[x] = "tls" /\ sock[x] = Nobody /\ candidate[x] = p
      /\ \A d \in DOMAIN links : To(d) = x => Taken(d)
      /\ \A y \in Peers : Doing(y, "connect", "request", x) => y = p
  BY <1>4, <1>7 DEF TlsInv
<1>10. TlsInv(x)'
  <2>1. /\ status'[x] = "tls" /\ sock'[x] = Nobody /\ candidate'[x] = p
        /\ ui'[x] = ui[x] /\ (Begun(x)' <=> Begun(x)) /\ (Resets(x)' <=> Resets(x))
    BY <1>4, <1>9, JobsSame DEF Untouched, SameKey
  <2>2. \A y \in Peers : ~Doing(y, "connect", "request", x)'
    <3>1. \A y \in Peers : y # p => (Doing(y, "connect", "request", x)' <=> Doing(y, "connect", "request", x))
      BY <1>3 DEF Ordinary, Untouched, Same
    <3> QED
      BY <1>4, <1>9, <3>1
  <2>3. \A d \in DOMAIN links' : To(d)' = x /\ ~Taken(d)' => d = n
    BY <1>6, <1>9 DEF Kept
  <2>4. ~Uses(x) /\ ~Uses(x)'
    <3>1. Nobody \notin DOMAIN links /\ Nobody \notin DOMAIN links'
      BY LinkIs, PeerIsNext DEF TypeOK
    <3> QED
      BY <1>9, <2>1, <3>1 DEF Uses
  <2>5. ~Begun(x) /\ ~Resets(x) /\ ui[x] = "idle"
    BY <1>7, <1>9, <2>4 DEF TlsInv
  <2> QED
    BY <1>6, <2>1, <2>2, <2>3, <2>4, <2>5 DEF TlsInv
<1>11. ASSUME NEW r \in Peers, r # p, r # x
       PROVE  TlsInv(r)'
  <2>1. /\ \A d \in DOMAIN links : To(d) = r => Taken(d)' = Taken(d)
        /\ \A d \in DOMAIN links' : To(d)' = r => d \in DOMAIN links
    BY <1>6, <1>11
  <2> QED
    BY <1>3, <1>4, <1>11, <2>1, OthersWait
<1>12. \A c \in DOMAIN links' : c = sock[p] \/ c = sock'[p] => Whole(c)'
  <2>1. sock[p] \notin DOMAIN links'
    BY <1>4, PeerIsNext
  <2> QED
    BY <1>5, <1>8, <2>1
<1>13. \A r \in Peers : TlsInv(r)'
  BY <1>2, <1>10, <1>11
<1> QED
  BY <1>2, <1>3, <1>12, <1>13, CoreStep

LEMMA UnconnectedKeeps ==
    ASSUME TypeOK, TypeOK', Core, NEW p \in Peers, UnconnectedDoes(p), mishaps' = {},
           ~Doomed(p), ~Doomed(p)'
    PROVE  Core'
<1>1. Local(p) /\ TlsInv(p) /\ OnLink(p) /\ PeerFacts(p)
  BY OnLinkIs, PeerIs
<1>2. Local(p)' /\ TlsInv(p)'
  BY <1>1, UnconnectedLocal
<1>3. Ordinary(p)
  <2>1. DOMAIN links' = DOMAIN links /\ \A d \in DOMAIN links : Kept(d) /\ Unmoved(d) /\ Open(d)' = Open(d) /\ Taken(d)' = Taken(d)
    BY LinksStay DEF UnconnectedDoes, TypeOK
  <2> QED
    BY <2>1 DEF UnconnectedDoes, Ordinary, LinksKept
<1>4. /\ \A y : Doing(p, "connect", "request", y)' <=> Doing(p, "connect", "request", y)
      /\ DOMAIN links' = DOMAIN links
      /\ \A d \in DOMAIN links : Taken(d)' = Taken(d)
  <2>1. \A y : Doing(p, "connect", "request", y)' <=> Doing(p, "connect", "request", y)
    BY DEF UnconnectedDoes, Finishes
  <2>2. DOMAIN links' = DOMAIN links /\ \A d \in DOMAIN links : Taken(d)' = Taken(d)
    BY LinksStay DEF UnconnectedDoes, TypeOK
  <2> QED
    BY <2>1, <2>2
<1>5. ~Uses(p) /\ sock'[p] \notin DOMAIN links
  <2>1. Runs(p, "unconnected", "unconnected") /\ sock'[p] = sock[p]
    BY DEF UnconnectedDoes, Finishes, Runs
  <2>2. Ended(p)
    BY <2>1 DEF Ended, Closes
  <2> QED
    BY <1>1, <2>1, <2>2 DEF PeerFacts, Local, SockInv
<1> QED
  BY <1>1, <1>2, <1>3, <1>4, <1>5, NoLinkStep

LEMMA AcceptKeeps ==
    ASSUME TypeOK, TypeOK', Core, NEW p \in Peers, NEW c \in DOMAIN links, AcceptDoes(p, c), mishaps' = {},
           ~Doomed(p), ~Doomed(p)', From(c) = candidate[p]
    PROVE  Core'
<1>1. Local(p) /\ TlsInv(p) /\ OnLink(p) /\ PeerFacts(p)
  BY OnLinkIs, PeerIs
<1>2. Local(p)' /\ TlsInv(p)'
  BY <1>1, AcceptLocal
<1>3. Ordinary(p)
  <2>1. \A d \in DOMAIN links : Taken(d) \in BOOLEAN
    BY LinkIs DEF TypeOK
  <2>2. DOMAIN links' = DOMAIN links /\ LinksKept /\ UNCHANGED early /\ key'[p] = key[p] /\ sock'[p] = c
        /\ \A r \in Peers : r # p => Untouched(r) /\ SameKey(r)
    BY DEF AcceptDoes, LinksKept
  <2>3. \A d \in DOMAIN links : d # c => Unmoved(d) /\ Open(d)' = Open(d) /\ Taken(d)' = Taken(d)
    BY <2>1 DEF AcceptDoes
  <2> QED
    BY <2>2, <2>3 DEF Ordinary
<1>4. /\ \A y : Doing(p, "connect", "request", y)' <=> Doing(p, "connect", "request", y)
      /\ DOMAIN links' = DOMAIN links
      /\ \A d \in DOMAIN links : To(d) # p => Taken(d)' = Taken(d)
  <2>1. \A y : Doing(p, "connect", "request", y)' <=> Doing(p, "connect", "request", y)
    BY DEF AcceptDoes, Gets
  <2>2. DOMAIN links' = DOMAIN links /\ \A d \in DOMAIN links : To(d) # p => Taken(d)' = Taken(d)
    <3>1. \A d \in DOMAIN links : Taken(d) \in BOOLEAN
      BY LinkIs DEF TypeOK
    <3> QED
      BY <3>1 DEF AcceptDoes
  <2> QED
    BY <2>1, <2>2
<1>5. sock[p] \notin DOMAIN links /\ sock'[p] = c
  <2>1. sock[p] = Nobody
    BY <1>1 DEF AcceptDoes, TlsInv
  <2> QED
    BY <1>1, <2>1 DEF AcceptDoes, PeerFacts
<1>6. Whole(c)'
  <2>1. PICK q \in Peers : q = From(c)
    BY LinkIs DEF TypeOK
  <2>2. Local(q) /\ LinkInv(c) /\ KeyInv(c) /\ PhaseInv(c) /\ EndInv(c)
    BY CoreIs DEF Whole
  <2> QED
    BY <1>1, <2>1, <2>2, LinkTaken DEF Whole
<1> QED
  BY <1>2, <1>3, <1>4, <1>5, <1>6, OrdinaryStep

LEMMA EstablishKeeps ==
    ASSUME TypeOK, TypeOK', Core, NEW p \in Peers, NEW x, EstablishDoes(p, x), mishaps' = {},
           ~Doomed(p), ~Doomed(p)'
    PROVE  Core'
<1>1. Local(p) /\ TlsInv(p) /\ OnLink(p) /\ PeerFacts(p)
  BY OnLinkIs, PeerIs
<1>2. Local(p)' /\ TlsInv(p)'
  BY <1>1, EstablishLocal
<1>3. Ordinary(p)
  <2>1. DOMAIN links' = DOMAIN links /\ \A d \in DOMAIN links : Kept(d) /\ Unmoved(d) /\ Open(d)' = Open(d) /\ Taken(d)' = Taken(d)
    BY LinksStay DEF EstablishDoes, TypeOK
  <2> QED
    BY <2>1 DEF EstablishDoes, Ordinary, LinksKept
<1>4. /\ \A y : Doing(p, "connect", "request", y)' <=> Doing(p, "connect", "request", y)
      /\ DOMAIN links' = DOMAIN links
      /\ \A d \in DOMAIN links : Taken(d)' = Taken(d)
  <2>1. \A y : Doing(p, "connect", "request", y)' <=> Doing(p, "connect", "request", y)
    BY DEF EstablishDoes, Finishes
  <2>2. DOMAIN links' = DOMAIN links /\ \A d \in DOMAIN links : Taken(d)' = Taken(d)
    BY LinksStay DEF EstablishDoes, TypeOK
  <2> QED
    BY <2>1, <2>2
<1>5. ASSUME NEW e \in DOMAIN links, e = sock[p] \/ e = sock'[p]
      PROVE  Whole(e)'
  <2>1. e = sock[p]
    BY <1>5 DEF EstablishDoes
  <2>3. PICK q \in Peers : q = Other(e, p)
    BY <1>1, <2>1 DEF PeerFacts
  <2>4. Local(q) /\ ReadyInv(e)
    BY CoreIs DEF Whole
  <2> QED
    BY <1>1, <2>1, <2>3, <2>4, EstablishLink DEF Whole
<1> QED
  BY <1>2, <1>3, <1>4, <1>5, OrdinaryStep

LEMMA RecvMsgRequestKeeps ==
    ASSUME TypeOK, TypeOK', Core, NEW p \in Peers, NEW x, RecvMsgRequestDoes(p, x), mishaps' = {},
           ~Doomed(p), ~Doomed(p)', online[p]
    PROVE  Core'
<1>1. Local(p) /\ TlsInv(p) /\ OnLink(p) /\ PeerFacts(p)
  BY OnLinkIs, PeerIs
<1>2. Local(p)' /\ TlsInv(p)'
  BY <1>1, RecvMsgRequestLocal
<1>3. Ordinary(p)
  <2>1. DOMAIN links' = DOMAIN links /\ \A d \in DOMAIN links : Kept(d) /\ Unmoved(d) /\ Open(d)' = Open(d) /\ Taken(d)' = Taken(d)
    BY LinksStay DEF RecvMsgRequestDoes, TypeOK
  <2> QED
    BY <2>1 DEF RecvMsgRequestDoes, Ordinary, LinksKept
<1>4. /\ \A y : Doing(p, "connect", "request", y)' <=> Doing(p, "connect", "request", y)
      /\ DOMAIN links' = DOMAIN links
      /\ \A d \in DOMAIN links : Taken(d)' = Taken(d)
  <2>1. \A y : Doing(p, "connect", "request", y)' <=> Doing(p, "connect", "request", y)
    BY DEF RecvMsgRequestDoes, Advances
  <2>2. DOMAIN links' = DOMAIN links /\ \A d \in DOMAIN links : Taken(d)' = Taken(d)
    BY LinksStay DEF RecvMsgRequestDoes, TypeOK
  <2> QED
    BY <2>1, <2>2
<1>5. ASSUME NEW e \in DOMAIN links, e = sock[p] \/ e = sock'[p]
      PROVE  Whole(e)'
  <2>1. e = sock[p]
    BY <1>5 DEF RecvMsgRequestDoes
  <2>3. PICK q \in Peers : q = Other(e, p)
    BY <1>1, <2>1 DEF PeerFacts
  <2>4. Local(q) /\ ReadyInv(e)
    BY CoreIs DEF Whole
  <2> QED
    BY <1>1, <2>1, <2>3, <2>4, RecvMsgRequestLink DEF Whole
<1> QED
  BY <1>2, <1>3, <1>4, <1>5, OrdinaryStep

LEMMA RecvMsgAcceptedKeeps ==
    ASSUME TypeOK, TypeOK', Core, NEW p \in Peers, NEW x, RecvMsgAcceptedDoes(p, x), mishaps' = {},
           ~Doomed(p), ~Doomed(p)', online[p]
    PROVE  Core'
<1>1. Local(p) /\ TlsInv(p) /\ OnLink(p) /\ PeerFacts(p)
  BY OnLinkIs, PeerIs
<1>2. Local(p)' /\ TlsInv(p)'
  BY <1>1, RecvMsgAcceptedLocal
<1>3. Ordinary(p)
  <2>1. DOMAIN links' = DOMAIN links /\ \A d \in DOMAIN links : Kept(d) /\ Unmoved(d) /\ Open(d)' = Open(d) /\ Taken(d)' = Taken(d)
    BY LinksStay DEF RecvMsgAcceptedDoes, TypeOK
  <2> QED
    BY <2>1 DEF RecvMsgAcceptedDoes, Ordinary, LinksKept
<1>4. /\ \A y : Doing(p, "connect", "request", y)' <=> Doing(p, "connect", "request", y)
      /\ DOMAIN links' = DOMAIN links
      /\ \A d \in DOMAIN links : Taken(d)' = Taken(d)
  <2>1. \A y : Doing(p, "connect", "request", y)' <=> Doing(p, "connect", "request", y)
    BY DEF RecvMsgAcceptedDoes, Advances
  <2>2. DOMAIN links' = DOMAIN links /\ \A d \in DOMAIN links : Taken(d)' = Taken(d)
    BY LinksStay DEF RecvMsgAcceptedDoes, TypeOK
  <2> QED
    BY <2>1, <2>2
<1>5. ASSUME NEW e \in DOMAIN links, e = sock[p] \/ e = sock'[p]
      PROVE  Whole(e)'
  <2>1. e = sock[p]
    BY <1>5 DEF RecvMsgAcceptedDoes
  <2>3. PICK q \in Peers : q = Other(e, p)
    BY <1>1, <2>1 DEF PeerFacts
  <2>4. Local(q) /\ ReadyInv(e)
    BY CoreIs DEF Whole
  <2> QED
    BY <1>1, <2>1, <2>3, <2>4, RecvMsgAcceptedLink DEF Whole
<1> QED
  BY <1>2, <1>3, <1>4, <1>5, OrdinaryStep

LEMMA ResetCloseKeeps ==
    ASSUME TypeOK, TypeOK', Core, NEW p \in Peers, ResetCloseDoes(p), mishaps' = {},
           ~Doomed(p), ~Doomed(p)'
    PROVE  Core'
<1>1. Local(p) /\ TlsInv(p) /\ OnLink(p) /\ PeerFacts(p)
  BY OnLinkIs, PeerIs
<1>2. Local(p)' /\ TlsInv(p)'
  BY <1>1, ResetCloseLocal
<1>3. Ordinary(p)
  BY DEF ResetCloseDoes, Ordinary, LinksKept
<1>4. /\ \A y : Doing(p, "connect", "request", y)' <=> Doing(p, "connect", "request", y)
      /\ DOMAIN links' = DOMAIN links
      /\ \A d \in DOMAIN links : Taken(d)' = Taken(d)
  <2>1. \A y : Doing(p, "connect", "request", y)' <=> Doing(p, "connect", "request", y)
    BY DEF ResetCloseDoes, Advances
  <2>2. DOMAIN links' = DOMAIN links /\ \A d \in DOMAIN links : Taken(d)' = Taken(d)
    BY DEF ResetCloseDoes, TypeOK
  <2> QED
    BY <2>1, <2>2
<1>5. ASSUME NEW e \in DOMAIN links, e = sock[p] \/ e = sock'[p]
      PROVE  Whole(e)'
  <2>1. sock'[p] = Nobody /\ e = sock[p]
    BY <1>1, <1>5 DEF ResetCloseDoes, PeerFacts
  <2>3. PICK q \in Peers : q = Other(e, p)
    BY <1>1, <2>1 DEF PeerFacts
  <2>4. Local(q) /\ ReadyInv(e)
    BY CoreIs DEF Whole
  <2>5. LeavesFor(p)
    <3>1. ~Agrees(p)
      BY BeginsNothing DEF ResetCloseDoes
    <3>2. Runs(p, "reset", "close")
      BY DEF ResetCloseDoes, Advances, Runs
    <3> QED
      BY <1>1, <2>1, <3>1, <3>2 DEF Local, ConnInv, LeavesFor, Uses
  <2>6. /\ e \in DOMAIN links' /\ Kept(e) /\ Unmoved(e) /\ Taken(e)' = Taken(e) /\ Open(e)' = Open(e) \ {p}
    BY <2>1 DEF ResetCloseDoes
  <2>7. Untouched(q) /\ SameKey(q)
    <3>1. q # p
      BY <1>1, <2>1, <2>3 DEF PeerFacts, Local, SockInv, Other
    <3> QED
      BY <3>1 DEF ResetCloseDoes
  <2> QED
    BY <1>1, <2>1, <2>3, <2>4, <2>5, <2>6, <2>7, LinkLeft DEF Whole
<1> QED
  BY <1>2, <1>3, <1>4, <1>5, OrdinaryStep

LEMMA ResetUnconnectedKeeps ==
    ASSUME TypeOK, TypeOK', Core, NEW p \in Peers, ResetUnconnectedDoes(p), mishaps' = {},
           ~Doomed(p), ~Doomed(p)'
    PROVE  Core'
<1>1. Local(p) /\ TlsInv(p) /\ OnLink(p) /\ PeerFacts(p)
  BY OnLinkIs, PeerIs
<1>2. Local(p)' /\ TlsInv(p)'
  BY <1>1, ResetUnconnectedLocal
<1>3. Ordinary(p)
  BY DEF ResetUnconnectedDoes, Ordinary, LinksKept
<1>4. /\ \A y : Doing(p, "connect", "request", y)' <=> Doing(p, "connect", "request", y)
      /\ DOMAIN links' = DOMAIN links
      /\ \A d \in DOMAIN links : Taken(d)' = Taken(d)
  <2>1. \A y : Doing(p, "connect", "request", y)' <=> Doing(p, "connect", "request", y)
    BY DEF ResetUnconnectedDoes, Advances
  <2>2. DOMAIN links' = DOMAIN links /\ \A d \in DOMAIN links : Taken(d)' = Taken(d)
    BY DEF ResetUnconnectedDoes, TypeOK
  <2> QED
    BY <2>1, <2>2
<1>5. ~Uses(p) /\ sock'[p] \notin DOMAIN links
  <2>1. Runs(p, "reset", "unconnected") /\ sock'[p] = Nobody
    BY DEF ResetUnconnectedDoes, Advances, Runs
  <2> QED
    BY <1>1, <2>1 DEF PeerFacts, Local, PlaceInv
<1> QED
  BY <1>1, <1>2, <1>3, <1>4, <1>5, NoLinkStep

LEMMA ResetAgainKeeps ==
    ASSUME TypeOK, TypeOK', Core, NEW p \in Peers, ResetAgainDoes(p), mishaps' = {},
           ~Doomed(p), ~Doomed(p)'
    PROVE  Core'
<1>1. Local(p) /\ TlsInv(p) /\ OnLink(p) /\ PeerFacts(p)
  BY OnLinkIs, PeerIs
<1>2. Local(p)' /\ TlsInv(p)'
  BY <1>1, ResetAgainLocal
<1>3. Ordinary(p)
  BY DEF ResetAgainDoes, Ordinary, LinksKept
<1>4. /\ \A y : Doing(p, "connect", "request", y)' <=> Doing(p, "connect", "request", y)
      /\ DOMAIN links' = DOMAIN links
      /\ \A d \in DOMAIN links : Taken(d)' = Taken(d)
  <2>1. \A y : Doing(p, "connect", "request", y)' <=> Doing(p, "connect", "request", y)
    BY DEF ResetAgainDoes, Advances
  <2>2. DOMAIN links' = DOMAIN links /\ \A d \in DOMAIN links : Taken(d)' = Taken(d)
    BY DEF ResetAgainDoes, TypeOK
  <2> QED
    BY <2>1, <2>2
<1>5. ASSUME NEW e \in DOMAIN links, e = sock[p] \/ e = sock'[p]
      PROVE  Whole(e)'
  <2>1. sock'[p] = Nobody /\ e = sock[p]
    BY <1>1, <1>5 DEF ResetAgainDoes, PeerFacts
  <2>3. PICK q \in Peers : q = Other(e, p)
    BY <1>1, <2>1 DEF PeerFacts
  <2>4. Local(q) /\ ReadyInv(e)
    BY CoreIs DEF Whole
  <2>5. LeavesFor(p)
    BY DEF ResetAgainDoes, Advances, LeavesFor, Runs
  <2>6. /\ e \in DOMAIN links' /\ Kept(e) /\ Unmoved(e) /\ Taken(e)' = Taken(e) /\ Open(e)' = Open(e) \ {p}
    BY <2>1 DEF ResetAgainDoes
  <2>7. Untouched(q) /\ SameKey(q)
    <3>1. q # p
      BY <1>1, <2>1, <2>3 DEF PeerFacts, Local, SockInv, Other
    <3> QED
      BY <3>1 DEF ResetAgainDoes
  <2> QED
    BY <1>1, <2>1, <2>3, <2>4, <2>5, <2>6, <2>7, LinkLeft DEF Whole
<1> QED
  BY <1>2, <1>3, <1>4, <1>5, OrdinaryStep

LEMMA ResetStatusOffKeeps ==
    ASSUME TypeOK, TypeOK', Core, NEW p \in Peers, ResetStatusOffDoes(p), mishaps' = {},
           ~Doomed(p), ~Doomed(p)'
    PROVE  Core'
<1>1. Local(p) /\ TlsInv(p) /\ OnLink(p) /\ PeerFacts(p)
  BY OnLinkIs, PeerIs
<1>2. Local(p)' /\ TlsInv(p)'
  BY <1>1, ResetStatusOffLocal
<1>3. Ordinary(p)
  BY DEF ResetStatusOffDoes, Ordinary, LinksKept
<1>4. /\ \A y : Doing(p, "connect", "request", y)' <=> Doing(p, "connect", "request", y)
      /\ DOMAIN links' = DOMAIN links
      /\ \A d \in DOMAIN links : Taken(d)' = Taken(d)
  <2>1. \A y : Doing(p, "connect", "request", y)' <=> Doing(p, "connect", "request", y)
    BY DEF ResetStatusOffDoes, Advances
  <2>2. DOMAIN links' = DOMAIN links /\ \A d \in DOMAIN links : Taken(d)' = Taken(d)
    BY DEF ResetStatusOffDoes, TypeOK
  <2> QED
    BY <2>1, <2>2
<1>5. ASSUME NEW e \in DOMAIN links, e = sock[p] \/ e = sock'[p]
      PROVE  Whole(e)'
  <2>1. sock'[p] = Nobody /\ e = sock[p]
    BY <1>1, <1>5 DEF ResetStatusOffDoes, PeerFacts
  <2>3. PICK q \in Peers : q = Other(e, p)
    BY <1>1, <2>1 DEF PeerFacts
  <2>4. Local(q) /\ ReadyInv(e)
    BY CoreIs DEF Whole
  <2>5. LeavesFor(p)
    BY DEF ResetStatusOffDoes, Advances, LeavesFor, Runs
  <2>6. /\ e \in DOMAIN links' /\ Kept(e) /\ Unmoved(e) /\ Taken(e)' = Taken(e) /\ Open(e)' = Open(e) \ {p}
    BY <2>1 DEF ResetStatusOffDoes
  <2>7. Untouched(q) /\ SameKey(q)
    <3>1. q # p
      BY <1>1, <2>1, <2>3 DEF PeerFacts, Local, SockInv, Other
    <3> QED
      BY <3>1 DEF ResetStatusOffDoes
  <2> QED
    BY <1>1, <2>1, <2>3, <2>4, <2>5, <2>6, <2>7, LinkLeft DEF Whole
<1> QED
  BY <1>2, <1>3, <1>4, <1>5, OrdinaryStep

LEMMA ResetResetKeeps ==
    ASSUME TypeOK, TypeOK', Core, NEW p \in Peers, ResetResetDoes(p), mishaps' = {},
           ~Doomed(p), ~Doomed(p)'
    PROVE  Core'
<1>1. Local(p) /\ TlsInv(p) /\ OnLink(p) /\ PeerFacts(p)
  BY OnLinkIs, PeerIs
<1>2. Local(p)' /\ TlsInv(p)'
  BY <1>1, ResetResetLocal
<1>3. Ordinary(p)
  BY DEF ResetResetDoes, Ordinary, LinksKept
<1>4. /\ \A y : Doing(p, "connect", "request", y)' <=> Doing(p, "connect", "request", y)
      /\ DOMAIN links' = DOMAIN links
      /\ \A d \in DOMAIN links : Taken(d)' = Taken(d)
  <2>1. \A y : Doing(p, "connect", "request", y)' <=> Doing(p, "connect", "request", y)
    BY DEF ResetResetDoes, Finishes
  <2>2. DOMAIN links' = DOMAIN links /\ \A d \in DOMAIN links : Taken(d)' = Taken(d)
    BY DEF ResetResetDoes, TypeOK
  <2> QED
    BY <2>1, <2>2
<1>5. ASSUME NEW e \in DOMAIN links, e = sock[p] \/ e = sock'[p]
      PROVE  Whole(e)'
  <2>1. sock'[p] = Nobody /\ e = sock[p]
    BY <1>1, <1>5 DEF ResetResetDoes, PeerFacts
  <2>3. PICK q \in Peers : q = Other(e, p)
    BY <1>1, <2>1 DEF PeerFacts
  <2>4. Local(q) /\ ReadyInv(e)
    BY CoreIs DEF Whole
  <2>5. LeavesFor(p)
    BY DEF ResetResetDoes, Finishes, LeavesFor, Runs
  <2>6. /\ e \in DOMAIN links' /\ Kept(e) /\ Unmoved(e) /\ Taken(e)' = Taken(e) /\ Open(e)' = Open(e) \ {p}
    BY <2>1 DEF ResetResetDoes
  <2>7. Untouched(q) /\ SameKey(q)
    <3>1. q # p
      BY <1>1, <2>1, <2>3 DEF PeerFacts, Local, SockInv, Other
    <3> QED
      BY <3>1 DEF ResetResetDoes
  <2> QED
    BY <1>1, <2>1, <2>3, <2>4, <2>5, <2>6, <2>7, LinkLeft DEF Whole
<1> QED
  BY <1>2, <1>3, <1>4, <1>5, OrdinaryStep

LEMMA SendRequestKeeps ==
    ASSUME TypeOK, TypeOK', Core, NEW p \in Peers, NEW x, SendRequestDoes(p, x), mishaps' = {},
           ~Doomed(p), ~Doomed(p)'
    PROVE  Core'
<1>1. Local(p) /\ TlsInv(p) /\ OnLink(p) /\ PeerFacts(p)
  BY OnLinkIs, PeerIs
<1>2. Local(p)' /\ TlsInv(p)'
  BY <1>1, SendRequestLocal
<1>3. Ordinary(p)
  BY DEF SendRequestDoes, Ordinary, LinksKept, Sends
<1>4. /\ \A y : Doing(p, "connect", "request", y)' <=> Doing(p, "connect", "request", y)
      /\ DOMAIN links' = DOMAIN links
      /\ \A d \in DOMAIN links : Taken(d)' = Taken(d)
  <2>1. \A y : Doing(p, "connect", "request", y)' <=> Doing(p, "connect", "request", y)
    BY DEF SendRequestDoes, Finishes
  <2>2. DOMAIN links' = DOMAIN links /\ \A d \in DOMAIN links : Taken(d)' = Taken(d)
    BY DEF SendRequestDoes, TypeOK, Sends
  <2> QED
    BY <2>1, <2>2
<1>5. ASSUME NEW e \in DOMAIN links, e = sock[p] \/ e = sock'[p]
      PROVE  Whole(e)'
  <2>1. e = sock[p]
    BY <1>5 DEF SendRequestDoes, Sends
  <2>3. PICK q \in Peers : q = Other(e, p)
    BY <1>1, <2>1 DEF PeerFacts
  <2>4. Local(q) /\ ReadyInv(e)
    BY CoreIs DEF Whole
  <2> QED
    BY <1>1, <2>1, <2>3, <2>4, SendRequestLink DEF Whole
<1> QED
  BY <1>2, <1>3, <1>4, <1>5, OrdinaryStep

LEMMA SendAcceptKeeps ==
    ASSUME TypeOK, TypeOK', Core, NEW p \in Peers, SendAcceptDoes(p), mishaps' = {},
           ~Doomed(p), ~Doomed(p)'
    PROVE  Core'
<1>1. Local(p) /\ TlsInv(p) /\ OnLink(p) /\ PeerFacts(p)
  BY OnLinkIs, PeerIs
<1>2. Local(p)' /\ TlsInv(p)'
  BY <1>1, SendAcceptLocal
<1>3. Ordinary(p)
  BY DEF SendAcceptDoes, Ordinary, LinksKept, Sends
<1>4. /\ \A y : Doing(p, "connect", "request", y)' <=> Doing(p, "connect", "request", y)
      /\ DOMAIN links' = DOMAIN links
      /\ \A d \in DOMAIN links : Taken(d)' = Taken(d)
  <2>1. \A y : Doing(p, "connect", "request", y)' <=> Doing(p, "connect", "request", y)
    BY DEF SendAcceptDoes, Advances
  <2>2. DOMAIN links' = DOMAIN links /\ \A d \in DOMAIN links : Taken(d)' = Taken(d)
    BY DEF SendAcceptDoes, TypeOK, Sends
  <2> QED
    BY <2>1, <2>2
<1>5. ASSUME NEW e \in DOMAIN links, e = sock[p] \/ e = sock'[p]
      PROVE  Whole(e)'
  <2>1. e = sock[p]
    BY <1>5 DEF SendAcceptDoes, Sends
  <2>3. PICK q \in Peers : q = Other(e, p)
    BY <1>1, <2>1 DEF PeerFacts
  <2>4. Local(q) /\ ReadyInv(e)
    BY CoreIs DEF Whole
  <2> QED
    BY <1>1, <2>1, <2>3, <2>4, SendAcceptLink DEF Whole
<1> QED
  BY <1>2, <1>3, <1>4, <1>5, OrdinaryStep

LEMMA SendRejectKeeps ==
    ASSUME TypeOK, TypeOK', Core, NEW p \in Peers, SendRejectDoes(p), mishaps' = {},
           ~Doomed(p), ~Doomed(p)'
    PROVE  Core'
<1>1. Local(p) /\ TlsInv(p) /\ OnLink(p) /\ PeerFacts(p)
  BY OnLinkIs, PeerIs
<1>2. Local(p)' /\ TlsInv(p)'
  BY <1>1, SendRejectLocal
<1>3. Ordinary(p)
  BY DEF SendRejectDoes, Ordinary, LinksKept, Sends
<1>4. /\ \A y : Doing(p, "connect", "request", y)' <=> Doing(p, "connect", "request", y)
      /\ DOMAIN links' = DOMAIN links
      /\ \A d \in DOMAIN links : Taken(d)' = Taken(d)
  <2>1. \A y : Doing(p, "connect", "request", y)' <=> Doing(p, "connect", "request", y)
    BY DEF SendRejectDoes, Advances
  <2>2. DOMAIN links' = DOMAIN links /\ \A d \in DOMAIN links : Taken(d)' = Taken(d)
    BY DEF SendRejectDoes, TypeOK, Sends
  <2> QED
    BY <2>1, <2>2
<1>5. ASSUME NEW e \in DOMAIN links, e = sock[p] \/ e = sock'[p]
      PROVE  Whole(e)'
  <2>1. e = sock[p]
    BY <1>5 DEF SendRejectDoes, Sends
  <2>3. PICK q \in Peers : q = Other(e, p)
    BY <1>1, <2>1 DEF PeerFacts
  <2>4. Local(q) /\ ReadyInv(e)
    BY CoreIs DEF Whole
  <2> QED
    BY <1>1, <2>1, <2>3, <2>4, SendRejectLink DEF Whole
<1> QED
  BY <1>2, <1>3, <1>4, <1>5, OrdinaryStep

LEMMA SendCancelKeeps ==
    ASSUME TypeOK, TypeOK', Core, NEW p \in Peers, SendCancelDoes(p), mishaps' = {},
           ~Doomed(p), ~Doomed(p)'
    PROVE  Core'
<1>1. Local(p) /\ TlsInv(p) /\ OnLink(p) /\ PeerFacts(p)
  BY OnLinkIs, PeerIs
<1>2. Local(p)' /\ TlsInv(p)'
  BY <1>1, SendCancelLocal
<1>3. Ordinary(p)
  BY DEF SendCancelDoes, Ordinary, LinksKept, Sends
<1>4. /\ \A y : Doing(p, "connect", "request", y)' <=> Doing(p, "connect", "request", y)
      /\ DOMAIN links' = DOMAIN links
      /\ \A d \in DOMAIN links : Taken(d)' = Taken(d)
  <2>1. \A y : Doing(p, "connect", "request", y)' <=> Doing(p, "connect", "request", y)
    BY DEF SendCancelDoes, Advances
  <2>2. DOMAIN links' = DOMAIN links /\ \A d \in DOMAIN links : Taken(d)' = Taken(d)
    BY DEF SendCancelDoes, TypeOK, Sends
  <2> QED
    BY <2>1, <2>2
<1>5. ASSUME NEW e \in DOMAIN links, e = sock[p] \/ e = sock'[p]
      PROVE  Whole(e)'
  <2>1. e = sock[p]
    BY <1>5 DEF SendCancelDoes, Sends
  <2>3. PICK q \in Peers : q = Other(e, p)
    BY <1>1, <2>1 DEF PeerFacts
  <2>4. Local(q) /\ ReadyInv(e)
    BY CoreIs DEF Whole
  <2> QED
    BY <1>1, <2>1, <2>3, <2>4, SendCancelLink DEF Whole
<1> QED
  BY <1>2, <1>3, <1>4, <1>5, OrdinaryStep

LEMMA SendReadyKeeps ==
    ASSUME TypeOK, TypeOK', Core, NEW p \in Peers, SendReadyDoes(p), mishaps' = {},
           ~Doomed(p), ~Doomed(p)'
    PROVE  Core'
<1>1. Local(p) /\ TlsInv(p) /\ OnLink(p) /\ PeerFacts(p)
  BY OnLinkIs, PeerIs
<1>2. Local(p)' /\ TlsInv(p)'
  BY <1>1, SendReadyLocal
<1>3. Ordinary(p)
  BY DEF SendReadyDoes, Ordinary, LinksKept, Sends
<1>4. /\ \A y : Doing(p, "connect", "request", y)' <=> Doing(p, "connect", "request", y)
      /\ DOMAIN links' = DOMAIN links
      /\ \A d \in DOMAIN links : Taken(d)' = Taken(d)
  <2>1. \A y : Doing(p, "connect", "request", y)' <=> Doing(p, "connect", "request", y)
    BY DEF SendReadyDoes, Finishes
  <2>2. DOMAIN links' = DOMAIN links /\ \A d \in DOMAIN links : Taken(d)' = Taken(d)
    BY DEF SendReadyDoes, TypeOK, Sends
  <2> QED
    BY <2>1, <2>2
<1>5. ASSUME NEW e \in DOMAIN links, e = sock[p] \/ e = sock'[p]
      PROVE  Whole(e)'
  <2>1. e = sock[p]
    BY <1>5 DEF SendReadyDoes, Sends
  <2>3. PICK q \in Peers : q = Other(e, p)
    BY <1>1, <2>1 DEF PeerFacts
  <2>4. Local(q) /\ ReadyInv(e)
    BY CoreIs DEF Whole
  <2> QED
    BY <1>1, <2>1, <2>3, <2>4, SendReadyLink DEF Whole
<1> QED
  BY <1>2, <1>3, <1>4, <1>5, OrdinaryStep

LEMMA ParseRequestKeeps ==
    ASSUME TypeOK, TypeOK', Core, NEW p \in Peers, NEW c \in DOMAIN links, ParseRequestDoes(p, c), mishaps' = {},
           ~Doomed(p), ~Doomed(p)'
    PROVE  Core'
<1>1. Local(p) /\ TlsInv(p) /\ OnLink(p) /\ PeerFacts(p)
  BY OnLinkIs, PeerIs
<1>2. Local(p)' /\ TlsInv(p)'
  BY <1>1, ParseRequestLocal
<1>3. Ordinary(p)
  <2>1. c = sock[p]
    BY <1>1 DEF ParseRequestDoes, PeerFacts, Local, ReadInv, Uses
  <2> QED
    BY <2>1 DEF ParseRequestDoes, Ordinary, LinksKept
<1>4. /\ \A y : Doing(p, "connect", "request", y)' <=> Doing(p, "connect", "request", y)
      /\ DOMAIN links' = DOMAIN links
      /\ \A d \in DOMAIN links : Taken(d)' = Taken(d)
  <2>1. \A y : Doing(p, "connect", "request", y)' <=> Doing(p, "connect", "request", y)
    BY DEF ParseRequestDoes, Same
  <2>2. DOMAIN links' = DOMAIN links /\ \A d \in DOMAIN links : Taken(d)' = Taken(d)
    BY DEF ParseRequestDoes, TypeOK
  <2> QED
    BY <2>1, <2>2
<1>5. ASSUME NEW e \in DOMAIN links, e = sock[p] \/ e = sock'[p]
      PROVE  Whole(e)'
  <2>1. e = sock[p]
    BY <1>5 DEF ParseRequestDoes
  <2>2. e = c
    BY <1>1, <2>1 DEF ParseRequestDoes, Local, ReadInv, Uses
  <2>3. PICK q \in Peers : q = Other(e, p)
    BY <1>1, <2>1 DEF PeerFacts
  <2>4. Local(q) /\ ReadyInv(e)
    BY CoreIs DEF Whole
  <2> QED
    BY <1>1, <2>1, <2>2, <2>3, <2>4, ParseRequestLink DEF Whole
<1> QED
  BY <1>2, <1>3, <1>4, <1>5, OrdinaryStep

LEMMA ParseAcceptKeeps ==
    ASSUME TypeOK, TypeOK', Core, NEW p \in Peers, NEW c \in DOMAIN links, ParseAcceptDoes(p, c), mishaps' = {},
           ~Doomed(p), ~Doomed(p)'
    PROVE  Core'
<1>1. Local(p) /\ TlsInv(p) /\ OnLink(p) /\ PeerFacts(p)
  BY OnLinkIs, PeerIs
<1>2. Local(p)' /\ TlsInv(p)'
  BY <1>1, ParseAcceptLocal
<1>3. Ordinary(p)
  <2>1. c = sock[p]
    BY <1>1 DEF ParseAcceptDoes, PeerFacts, Local, ReadInv, Uses
  <2> QED
    BY <2>1 DEF ParseAcceptDoes, Ordinary, LinksKept
<1>4. /\ \A y : Doing(p, "connect", "request", y)' <=> Doing(p, "connect", "request", y)
      /\ DOMAIN links' = DOMAIN links
      /\ \A d \in DOMAIN links : Taken(d)' = Taken(d)
  <2>1. \A y : Doing(p, "connect", "request", y)' <=> Doing(p, "connect", "request", y)
    BY DEF ParseAcceptDoes, Gets
  <2>2. DOMAIN links' = DOMAIN links /\ \A d \in DOMAIN links : Taken(d)' = Taken(d)
    BY DEF ParseAcceptDoes, TypeOK
  <2> QED
    BY <2>1, <2>2
<1>5. ASSUME NEW e \in DOMAIN links, e = sock[p] \/ e = sock'[p]
      PROVE  Whole(e)'
  <2>1. e = sock[p]
    BY <1>5 DEF ParseAcceptDoes
  <2>2. e = c
    BY <1>1, <2>1 DEF ParseAcceptDoes, Local, ReadInv, Uses
  <2>3. PICK q \in Peers : q = Other(e, p)
    BY <1>1, <2>1 DEF PeerFacts
  <2>4. Local(q) /\ ReadyInv(e)
    BY CoreIs DEF Whole
  <2> QED
    BY <1>1, <2>1, <2>2, <2>3, <2>4, ParseAcceptLink DEF Whole
<1> QED
  BY <1>2, <1>3, <1>4, <1>5, OrdinaryStep

LEMMA ParseRejectKeeps ==
    ASSUME TypeOK, TypeOK', Core, NEW p \in Peers, NEW c \in DOMAIN links, ParseRejectDoes(p, c), mishaps' = {},
           ~Doomed(p), ~Doomed(p)'
    PROVE  Core'
<1>1. Local(p) /\ TlsInv(p) /\ OnLink(p) /\ PeerFacts(p)
  BY OnLinkIs, PeerIs
<1>2. Local(p)' /\ TlsInv(p)'
  BY <1>1, ParseRejectLocal
<1>3. Ordinary(p)
  <2>1. c = sock[p]
    BY <1>1 DEF ParseRejectDoes, PeerFacts, Local, ReadInv, Uses
  <2> QED
    BY <2>1 DEF ParseRejectDoes, Ordinary, LinksKept
<1>4. /\ \A y : Doing(p, "connect", "request", y)' <=> Doing(p, "connect", "request", y)
      /\ DOMAIN links' = DOMAIN links
      /\ \A d \in DOMAIN links : Taken(d)' = Taken(d)
  <2>1. \A y : Doing(p, "connect", "request", y)' <=> Doing(p, "connect", "request", y)
    BY DEF ParseRejectDoes, Gets
  <2>2. DOMAIN links' = DOMAIN links /\ \A d \in DOMAIN links : Taken(d)' = Taken(d)
    BY DEF ParseRejectDoes, TypeOK
  <2> QED
    BY <2>1, <2>2
<1>5. ASSUME NEW e \in DOMAIN links, e = sock[p] \/ e = sock'[p]
      PROVE  Whole(e)'
  <2>1. e = sock[p]
    BY <1>5 DEF ParseRejectDoes
  <2>2. e = c
    BY <1>1, <2>1 DEF ParseRejectDoes, Local, ReadInv, Uses
  <2>3. PICK q \in Peers : q = Other(e, p)
    BY <1>1, <2>1 DEF PeerFacts
  <2>4. Local(q) /\ ReadyInv(e)
    BY CoreIs DEF Whole
  <2> QED
    BY <1>1, <2>1, <2>2, <2>3, <2>4, ParseRejectLink DEF Whole
<1> QED
  BY <1>2, <1>3, <1>4, <1>5, OrdinaryStep

LEMMA ParseCancelKeeps ==
    ASSUME TypeOK, TypeOK', Core, NEW p \in Peers, NEW c \in DOMAIN links, ParseCancelDoes(p, c), mishaps' = {},
           ~Doomed(p), ~Doomed(p)'
    PROVE  Core'
<1>1. Local(p) /\ TlsInv(p) /\ OnLink(p) /\ PeerFacts(p)
  BY OnLinkIs, PeerIs
<1>2. Local(p)' /\ TlsInv(p)'
  BY <1>1, ParseCancelLocal
<1>3. Ordinary(p)
  <2>1. c = sock[p]
    BY <1>1 DEF ParseCancelDoes, PeerFacts, Local, ReadInv, Uses
  <2> QED
    BY <2>1 DEF ParseCancelDoes, Ordinary, LinksKept
<1>4. /\ \A y : Doing(p, "connect", "request", y)' <=> Doing(p, "connect", "request", y)
      /\ DOMAIN links' = DOMAIN links
      /\ \A d \in DOMAIN links : Taken(d)' = Taken(d)
  <2>1. \A y : Doing(p, "connect", "request", y)' <=> Doing(p, "connect", "request", y)
    BY DEF ParseCancelDoes, Gets
  <2>2. DOMAIN links' = DOMAIN links /\ \A d \in DOMAIN links : Taken(d)' = Taken(d)
    BY DEF ParseCancelDoes, TypeOK
  <2> QED
    BY <2>1, <2>2
<1>5. ASSUME NEW e \in DOMAIN links, e = sock[p] \/ e = sock'[p]
      PROVE  Whole(e)'
  <2>1. e = sock[p]
    BY <1>5 DEF ParseCancelDoes
  <2>2. e = c
    BY <1>1, <2>1 DEF ParseCancelDoes, Local, ReadInv, Uses
  <2>3. PICK q \in Peers : q = Other(e, p)
    BY <1>1, <2>1 DEF PeerFacts
  <2>4. Local(q) /\ ReadyInv(e)
    BY CoreIs DEF Whole
  <2> QED
    BY <1>1, <2>1, <2>2, <2>3, <2>4, ParseCancelLink DEF Whole
<1> QED
  BY <1>2, <1>3, <1>4, <1>5, OrdinaryStep

LEMMA ParseReadyKeeps ==
    ASSUME TypeOK, TypeOK', Core, NEW p \in Peers, NEW c \in DOMAIN links, ParseReadyDoes(p, c), mishaps' = {},
           ~Doomed(p), ~Doomed(p)'
    PROVE  Core'
<1>1. Local(p) /\ TlsInv(p) /\ OnLink(p) /\ PeerFacts(p)
  BY OnLinkIs, PeerIs
<1>2. Local(p)' /\ TlsInv(p)'
  BY <1>1, ParseReadyLocal
<1>3. Ordinary(p)
  <2>1. c = sock[p]
    BY <1>1 DEF ParseReadyDoes, PeerFacts, Local, ReadInv, Uses
  <2> QED
    BY <2>1 DEF ParseReadyDoes, Ordinary, LinksKept
<1>4. /\ \A y : Doing(p, "connect", "request", y)' <=> Doing(p, "connect", "request", y)
      /\ DOMAIN links' = DOMAIN links
      /\ \A d \in DOMAIN links : Taken(d)' = Taken(d)
  <2>1. \A y : Doing(p, "connect", "request", y)' <=> Doing(p, "connect", "request", y)
    BY DEF ParseReadyDoes, Gets
  <2>2. DOMAIN links' = DOMAIN links /\ \A d \in DOMAIN links : Taken(d)' = Taken(d)
    BY DEF ParseReadyDoes, TypeOK
  <2> QED
    BY <2>1, <2>2
<1>5. ASSUME NEW e \in DOMAIN links, e = sock[p] \/ e = sock'[p]
      PROVE  Whole(e)'
  <2>1. e = sock[p]
    BY <1>5 DEF ParseReadyDoes
  <2>2. e = c
    BY <1>1, <2>1 DEF ParseReadyDoes, Local, ReadInv, Uses
  <2>3. PICK q \in Peers : q = Other(e, p)
    BY <1>1, <2>1 DEF PeerFacts
  <2>4. Local(q) /\ ReadyInv(e)
    BY CoreIs DEF Whole
  <2> QED
    BY <1>1, <2>1, <2>2, <2>3, <2>4, ParseReadyLink DEF Whole
<1> QED
  BY <1>2, <1>3, <1>4, <1>5, OrdinaryStep

LEMMA SeesEndKeeps ==
    ASSUME TypeOK, TypeOK', Core, NEW p \in Peers, NEW c \in DOMAIN links, SeesEndDoes(p, c), mishaps' = {},
           ~Doomed(p), ~Doomed(p)'
    PROVE  Core'
<1>1. Local(p) /\ TlsInv(p) /\ OnLink(p) /\ PeerFacts(p)
  BY OnLinkIs, PeerIs
<1>2. Local(p)' /\ TlsInv(p)'
  BY <1>1, SeesEndLocal
<1>3. Ordinary(p)
  <2>1. DOMAIN links' = DOMAIN links /\ \A d \in DOMAIN links : Kept(d) /\ Unmoved(d) /\ Open(d)' = Open(d) /\ Taken(d)' = Taken(d)
    BY LinksStay DEF SeesEndDoes, TypeOK
  <2> QED
    BY <2>1 DEF SeesEndDoes, Ordinary, LinksKept
<1>4. /\ \A y : Doing(p, "connect", "request", y)' <=> Doing(p, "connect", "request", y)
      /\ DOMAIN links' = DOMAIN links
      /\ \A d \in DOMAIN links : Taken(d)' = Taken(d)
  <2>1. \A y : Doing(p, "connect", "request", y)' <=> Doing(p, "connect", "request", y)
    BY DEF SeesEndDoes, Gets
  <2>2. DOMAIN links' = DOMAIN links /\ \A d \in DOMAIN links : Taken(d)' = Taken(d)
    BY LinksStay DEF SeesEndDoes, TypeOK
  <2> QED
    BY <2>1, <2>2
<1>5. ASSUME NEW e \in DOMAIN links, e = sock[p] \/ e = sock'[p]
      PROVE  Whole(e)'
  <2>1. e = sock[p]
    BY <1>5 DEF SeesEndDoes
  <2>2. e = c
    BY <1>1, <2>1 DEF SeesEndDoes, Local, ReadInv, Uses
  <2>3. PICK q \in Peers : q = Other(e, p)
    BY <1>1, <2>1 DEF PeerFacts
  <2>4. Local(q) /\ ReadyInv(e)
    BY CoreIs DEF Whole
  <2> QED
    BY <1>1, <2>1, <2>2, <2>3, <2>4, SeesEndLink DEF Whole
<1> QED
  BY <1>2, <1>3, <1>4, <1>5, OrdinaryStep

LEMMA ReaderStopsKeeps ==
    ASSUME TypeOK, TypeOK', Core, NEW p \in Peers, NEW r, ReaderStopsDoes(p, r), mishaps' = {},
           ~Doomed(p), ~Doomed(p)'
    PROVE  Core'
<1>1. Local(p) /\ TlsInv(p) /\ OnLink(p) /\ PeerFacts(p)
  BY OnLinkIs, PeerIs
<1>2. Local(p)' /\ TlsInv(p)'
  BY <1>1, ReaderStopsLocal
<1>3. Ordinary(p)
  <2>1. DOMAIN links' = DOMAIN links /\ \A d \in DOMAIN links : Kept(d) /\ Unmoved(d) /\ Open(d)' = Open(d) /\ Taken(d)' = Taken(d)
    BY LinksStay DEF ReaderStopsDoes, TypeOK
  <2> QED
    BY <2>1 DEF ReaderStopsDoes, Ordinary, LinksKept
<1>4. /\ \A y : Doing(p, "connect", "request", y)' <=> Doing(p, "connect", "request", y)
      /\ DOMAIN links' = DOMAIN links
      /\ \A d \in DOMAIN links : Taken(d)' = Taken(d)
  <2>1. \A y : Doing(p, "connect", "request", y)' <=> Doing(p, "connect", "request", y)
    BY DEF ReaderStopsDoes, Same
  <2>2. DOMAIN links' = DOMAIN links /\ \A d \in DOMAIN links : Taken(d)' = Taken(d)
    BY LinksStay DEF ReaderStopsDoes, TypeOK
  <2> QED
    BY <2>1, <2>2
<1>5. ASSUME NEW e \in DOMAIN links, e = sock[p] \/ e = sock'[p]
      PROVE  Whole(e)'
  <2>1. e = sock[p]
    BY <1>5 DEF ReaderStopsDoes
  <2>3. PICK q \in Peers : q = Other(e, p)
    BY <1>1, <2>1 DEF PeerFacts
  <2>4. Local(q) /\ ReadyInv(e)
    BY CoreIs DEF Whole
  <2> QED
    BY <1>1, <2>1, <2>3, <2>4, ReaderStopsLink DEF Whole
<1> QED
  BY <1>2, <1>3, <1>4, <1>5, OrdinaryStep

LEMMA AgainKeeps ==
    ASSUME TypeOK, TypeOK', Core, NEW p \in Peers, AgainDoes(p), mishaps' = {},
           ~Doomed(p), ~Doomed(p)', ~reading[p]
    PROVE  Core'
<1>1. Local(p) /\ TlsInv(p) /\ OnLink(p) /\ PeerFacts(p)
  BY OnLinkIs, PeerIs
<1>2. Local(p)' /\ TlsInv(p)'
  BY <1>1, AgainLocal
<1>3. Ordinary(p)
  <2>1. DOMAIN links' = DOMAIN links /\ \A d \in DOMAIN links : Kept(d) /\ Unmoved(d) /\ Open(d)' = Open(d) /\ Taken(d)' = Taken(d)
    BY LinksStay DEF AgainDoes, TypeOK
  <2> QED
    BY <2>1 DEF AgainDoes, Ordinary, LinksKept
<1>4. /\ \A y : Doing(p, "connect", "request", y)' <=> Doing(p, "connect", "request", y)
      /\ DOMAIN links' = DOMAIN links
      /\ \A d \in DOMAIN links : Taken(d)' = Taken(d)
  <2>1. \A y : Doing(p, "connect", "request", y)' <=> Doing(p, "connect", "request", y)
    BY DEF AgainDoes, Finishes
  <2>2. DOMAIN links' = DOMAIN links /\ \A d \in DOMAIN links : Taken(d)' = Taken(d)
    BY LinksStay DEF AgainDoes, TypeOK
  <2> QED
    BY <2>1, <2>2
<1>5. ~Uses(p) /\ sock'[p] \notin DOMAIN links
  <2>1. Runs(p, "again", "again") /\ sock'[p] = sock[p]
    BY DEF AgainDoes, Finishes, Runs
  <2>2. Ended(p)
    BY <2>1 DEF Ended, Closes
  <2> QED
    BY <1>1, <2>1, <2>2 DEF PeerFacts, Local, SockInv
<1> QED
  BY <1>1, <1>2, <1>3, <1>4, <1>5, NoLinkStep

LEMMA StatusOnKeeps ==
    ASSUME TypeOK, TypeOK', Core, NEW p \in Peers, StatusOnDoes(p), mishaps' = {},
           ~Doomed(p), ~Doomed(p)'
    PROVE  Core'
<1>1. Local(p) /\ TlsInv(p) /\ OnLink(p) /\ PeerFacts(p)
  BY OnLinkIs, PeerIs
<1>2. Local(p)' /\ TlsInv(p)'
  BY <1>1, StatusOnLocal
<1>3. Ordinary(p)
  <2>1. DOMAIN links' = DOMAIN links /\ \A d \in DOMAIN links : Kept(d) /\ Unmoved(d) /\ Open(d)' = Open(d) /\ Taken(d)' = Taken(d)
    BY LinksStay DEF StatusOnDoes, TypeOK
  <2> QED
    BY <2>1 DEF StatusOnDoes, Ordinary, LinksKept
<1>4. /\ \A y : Doing(p, "connect", "request", y)' <=> Doing(p, "connect", "request", y)
      /\ DOMAIN links' = DOMAIN links
      /\ \A d \in DOMAIN links : Taken(d)' = Taken(d)
  <2>1. \A y : Doing(p, "connect", "request", y)' <=> Doing(p, "connect", "request", y)
    BY DEF StatusOnDoes, Finishes
  <2>2. DOMAIN links' = DOMAIN links /\ \A d \in DOMAIN links : Taken(d)' = Taken(d)
    BY LinksStay DEF StatusOnDoes, TypeOK
  <2> QED
    BY <2>1, <2>2
<1>5. ASSUME NEW e \in DOMAIN links, e = sock[p] \/ e = sock'[p]
      PROVE  Whole(e)'
  <2>1. e = sock[p]
    BY <1>5 DEF StatusOnDoes
  <2>3. PICK q \in Peers : q = Other(e, p)
    BY <1>1, <2>1 DEF PeerFacts
  <2>4. Local(q) /\ ReadyInv(e)
    BY CoreIs DEF Whole
  <2> QED
    BY <1>1, <2>1, <2>3, <2>4, StatusOnLink DEF Whole
<1> QED
  BY <1>2, <1>3, <1>4, <1>5, OrdinaryStep

LEMMA StatusOffKeeps ==
    ASSUME TypeOK, TypeOK', Core, NEW p \in Peers, StatusOffDoes(p), mishaps' = {},
           ~Doomed(p), ~Doomed(p)'
    PROVE  Core'
<1>1. Local(p) /\ TlsInv(p) /\ OnLink(p) /\ PeerFacts(p)
  BY OnLinkIs, PeerIs
<1>2. Local(p)' /\ TlsInv(p)'
  BY <1>1, StatusOffLocal
<1>3. Ordinary(p)
  <2>1. DOMAIN links' = DOMAIN links /\ \A d \in DOMAIN links : Kept(d) /\ Unmoved(d) /\ Open(d)' = Open(d) /\ Taken(d)' = Taken(d)
    BY LinksStay DEF StatusOffDoes, TypeOK
  <2> QED
    BY <2>1 DEF StatusOffDoes, Ordinary, LinksKept
<1>4. /\ \A y : Doing(p, "connect", "request", y)' <=> Doing(p, "connect", "request", y)
      /\ DOMAIN links' = DOMAIN links
      /\ \A d \in DOMAIN links : Taken(d)' = Taken(d)
  <2>1. \A y : Doing(p, "connect", "request", y)' <=> Doing(p, "connect", "request", y)
    BY DEF StatusOffDoes, Finishes
  <2>2. DOMAIN links' = DOMAIN links /\ \A d \in DOMAIN links : Taken(d)' = Taken(d)
    BY LinksStay DEF StatusOffDoes, TypeOK
  <2> QED
    BY <2>1, <2>2
<1>5. ~Uses(p) /\ sock'[p] \notin DOMAIN links
  <2>1. Runs(p, "statusOff", "statusOff") /\ sock'[p] = sock[p]
    BY DEF StatusOffDoes, Finishes, Runs
  <2>2. Ended(p)
    BY <2>1 DEF Ended, Closes
  <2> QED
    BY <1>1, <2>1, <2>2 DEF PeerFacts, Local, SockInv
<1> QED
  BY <1>1, <1>2, <1>3, <1>4, <1>5, NoLinkStep

LEMMA StatusClosedKeeps ==
    ASSUME TypeOK, TypeOK', Core, NEW p \in Peers, StatusClosedDoes(p), mishaps' = {},
           ~Doomed(p), ~Doomed(p)'
    PROVE  Core'
<1>1. Local(p) /\ TlsInv(p) /\ OnLink(p) /\ PeerFacts(p)
  BY OnLinkIs, PeerIs
<1>2. Local(p)' /\ TlsInv(p)'
  BY <1>1, StatusClosedLocal
<1>3. Ordinary(p)
  <2>1. DOMAIN links' = DOMAIN links /\ \A d \in DOMAIN links : Kept(d) /\ Unmoved(d) /\ Open(d)' = Open(d) /\ Taken(d)' = Taken(d)
    BY LinksStay DEF StatusClosedDoes, TypeOK
  <2> QED
    BY <2>1 DEF StatusClosedDoes, Ordinary, LinksKept
<1>4. /\ \A y : Doing(p, "connect", "request", y)' <=> Doing(p, "connect", "request", y)
      /\ DOMAIN links' = DOMAIN links
      /\ \A d \in DOMAIN links : Taken(d)' = Taken(d)
  <2>1. \A y : Doing(p, "connect", "request", y)' <=> Doing(p, "connect", "request", y)
    BY DEF StatusClosedDoes, Spawns
  <2>2. DOMAIN links' = DOMAIN links /\ \A d \in DOMAIN links : Taken(d)' = Taken(d)
    BY LinksStay DEF StatusClosedDoes, TypeOK
  <2> QED
    BY <2>1, <2>2
<1>5. ~Uses(p) /\ sock'[p] \notin DOMAIN links
  <2>1. Runs(p, "close", "close") /\ sock'[p] = sock[p]
    BY DEF StatusClosedDoes, Spawns, Runs
  <2>2. Ended(p)
    BY <2>1 DEF Ended, Closes
  <2> QED
    BY <1>1, <2>1, <2>2 DEF PeerFacts, Local, SockInv
<1> QED
  BY <1>1, <1>2, <1>3, <1>4, <1>5, NoLinkStep

LEMMA StatusLostUnconnectedKeeps ==
    ASSUME TypeOK, TypeOK', Core, NEW p \in Peers, StatusLostUnconnectedDoes(p), mishaps' = {},
           ~Doomed(p), ~Doomed(p)'
    PROVE  Core'
<1>1. Local(p) /\ TlsInv(p) /\ OnLink(p) /\ PeerFacts(p)
  BY OnLinkIs, PeerIs
<1>2. Local(p)' /\ TlsInv(p)'
  BY <1>1, StatusLostUnconnectedLocal
<1>3. Ordinary(p)
  <2>1. DOMAIN links' = DOMAIN links /\ \A d \in DOMAIN links : Kept(d) /\ Unmoved(d) /\ Open(d)' = Open(d) /\ Taken(d)' = Taken(d)
    BY LinksStay DEF StatusLostUnconnectedDoes, TypeOK
  <2> QED
    BY <2>1 DEF StatusLostUnconnectedDoes, Ordinary, LinksKept
<1>4. /\ \A y : Doing(p, "connect", "request", y)' <=> Doing(p, "connect", "request", y)
      /\ DOMAIN links' = DOMAIN links
      /\ \A d \in DOMAIN links : Taken(d)' = Taken(d)
  <2>1. \A y : Doing(p, "connect", "request", y)' <=> Doing(p, "connect", "request", y)
    BY DEF StatusLostUnconnectedDoes, Spawns
  <2>2. DOMAIN links' = DOMAIN links /\ \A d \in DOMAIN links : Taken(d)' = Taken(d)
    BY LinksStay DEF StatusLostUnconnectedDoes, TypeOK
  <2> QED
    BY <2>1, <2>2
<1>5. ~Uses(p) /\ sock'[p] \notin DOMAIN links
  <2>1. Runs(p, "lost", "unconnected") /\ sock'[p] = sock[p]
    BY DEF StatusLostUnconnectedDoes, Spawns, Runs
  <2>2. Ended(p)
    BY <2>1 DEF Ended, Closes
  <2> QED
    BY <1>1, <2>1, <2>2 DEF PeerFacts, Local, SockInv
<1> QED
  BY <1>1, <1>2, <1>3, <1>4, <1>5, NoLinkStep

LEMMA StatusLostAgainKeeps ==
    ASSUME TypeOK, TypeOK', Core, NEW p \in Peers, StatusLostAgainDoes(p), mishaps' = {},
           ~Doomed(p), ~Doomed(p)'
    PROVE  Core'
<1>1. Local(p) /\ TlsInv(p) /\ OnLink(p) /\ PeerFacts(p)
  BY OnLinkIs, PeerIs
<1>2. Local(p)' /\ TlsInv(p)'
  BY <1>1, StatusLostAgainLocal
<1>3. Ordinary(p)
  <2>1. DOMAIN links' = DOMAIN links /\ \A d \in DOMAIN links : Kept(d) /\ Unmoved(d) /\ Open(d)' = Open(d) /\ Taken(d)' = Taken(d)
    BY LinksStay DEF StatusLostAgainDoes, TypeOK
  <2> QED
    BY <2>1 DEF StatusLostAgainDoes, Ordinary, LinksKept
<1>4. /\ \A y : Doing(p, "connect", "request", y)' <=> Doing(p, "connect", "request", y)
      /\ DOMAIN links' = DOMAIN links
      /\ \A d \in DOMAIN links : Taken(d)' = Taken(d)
  <2>1. \A y : Doing(p, "connect", "request", y)' <=> Doing(p, "connect", "request", y)
    BY DEF StatusLostAgainDoes, Spawns
  <2>2. DOMAIN links' = DOMAIN links /\ \A d \in DOMAIN links : Taken(d)' = Taken(d)
    BY LinksStay DEF StatusLostAgainDoes, TypeOK
  <2> QED
    BY <2>1, <2>2
<1>5. ~Uses(p) /\ sock'[p] \notin DOMAIN links
  <2>1. Runs(p, "lost", "again") /\ sock'[p] = sock[p]
    BY DEF StatusLostAgainDoes, Spawns, Runs
  <2>2. Ended(p)
    BY <2>1 DEF Ended, Closes
  <2> QED
    BY <1>1, <2>1, <2>2 DEF PeerFacts, Local, SockInv
<1> QED
  BY <1>1, <1>2, <1>3, <1>4, <1>5, NoLinkStep

LEMMA EngineHighKeeps ==
    ASSUME TypeOK, TypeOK', Core, NEW p \in Peers, EngineHighDoes(p), mishaps' = {},
           ~Doomed(p), ~Doomed(p)'
    PROVE  Core'
<1>1. Local(p) /\ TlsInv(p) /\ OnLink(p) /\ PeerFacts(p)
  BY OnLinkIs, PeerIs
<1>2. Local(p)' /\ TlsInv(p)'
  BY <1>1, EngineHighLocal
<1>3. Ordinary(p)
  <2>1. DOMAIN links' = DOMAIN links /\ \A d \in DOMAIN links : Kept(d) /\ Unmoved(d) /\ Open(d)' = Open(d) /\ Taken(d)' = Taken(d)
    BY LinksStay DEF EngineHighDoes, TypeOK
  <2> QED
    BY <2>1 DEF EngineHighDoes, Ordinary, LinksKept
<1>4. /\ \A y : Doing(p, "connect", "request", y)' <=> Doing(p, "connect", "request", y)
      /\ DOMAIN links' = DOMAIN links
      /\ \A d \in DOMAIN links : Taken(d)' = Taken(d)
  <2>1. \A y : Doing(p, "connect", "request", y)' <=> Doing(p, "connect", "request", y)
    BY DEF EngineHighDoes, Spawns
  <2>2. DOMAIN links' = DOMAIN links /\ \A d \in DOMAIN links : Taken(d)' = Taken(d)
    BY LinksStay DEF EngineHighDoes, TypeOK
  <2> QED
    BY <2>1, <2>2
<1>5. ASSUME NEW e \in DOMAIN links, e = sock[p] \/ e = sock'[p]
      PROVE  Whole(e)'
  <2>1. e = sock[p]
    BY <1>5 DEF EngineHighDoes
  <2>3. PICK q \in Peers : q = Other(e, p)
    BY <1>1, <2>1 DEF PeerFacts
  <2>4. Local(q) /\ ReadyInv(e)
    BY CoreIs DEF Whole
  <2> QED
    BY <1>1, <2>1, <2>3, <2>4, EngineHighLink DEF Whole
<1> QED
  BY <1>2, <1>3, <1>4, <1>5, OrdinaryStep

LEMMA EngineLowKeeps ==
    ASSUME TypeOK, TypeOK', Core, NEW p \in Peers, EngineLowDoes(p), mishaps' = {},
           ~Doomed(p), ~Doomed(p)'
    PROVE  Core'
<1>1. Local(p) /\ TlsInv(p) /\ OnLink(p) /\ PeerFacts(p)
  BY OnLinkIs, PeerIs
<1>2. Local(p)' /\ TlsInv(p)'
  BY <1>1, EngineLowLocal
<1>3. Ordinary(p)
  <2>1. DOMAIN links' = DOMAIN links /\ \A d \in DOMAIN links : Kept(d) /\ Unmoved(d) /\ Open(d)' = Open(d) /\ Taken(d)' = Taken(d)
    BY LinksStay DEF EngineLowDoes, TypeOK
  <2> QED
    BY <2>1 DEF EngineLowDoes, Ordinary, LinksKept
<1>4. /\ \A y : Doing(p, "connect", "request", y)' <=> Doing(p, "connect", "request", y)
      /\ DOMAIN links' = DOMAIN links
      /\ \A d \in DOMAIN links : Taken(d)' = Taken(d)
  <2>1. \A y : Doing(p, "connect", "request", y)' <=> Doing(p, "connect", "request", y)
    BY DEF EngineLowDoes, Spawns
  <2>2. DOMAIN links' = DOMAIN links /\ \A d \in DOMAIN links : Taken(d)' = Taken(d)
    BY LinksStay DEF EngineLowDoes, TypeOK
  <2> QED
    BY <2>1, <2>2
<1>5. ASSUME NEW e \in DOMAIN links, e = sock[p] \/ e = sock'[p]
      PROVE  Whole(e)'
  <2>1. e = sock[p]
    BY <1>5 DEF EngineLowDoes
  <2>3. PICK q \in Peers : q = Other(e, p)
    BY <1>1, <2>1 DEF PeerFacts
  <2>4. Local(q) /\ ReadyInv(e)
    BY CoreIs DEF Whole
  <2> QED
    BY <1>1, <2>1, <2>3, <2>4, EngineLowLink DEF Whole
<1> QED
  BY <1>2, <1>3, <1>4, <1>5, OrdinaryStep

LEMMA ListenKeeps ==
    ASSUME TypeOK, TypeOK', Core, NEW p \in Peers, NEW x, ListenDoes(p, x), mishaps' = {},
           ~Doomed(p), ~Doomed(p)'
    PROVE  Core'
<1>1. Local(p) /\ TlsInv(p) /\ OnLink(p) /\ PeerFacts(p)
  BY OnLinkIs, PeerIs
<1>2. Local(p)' /\ TlsInv(p)'
  BY <1>1, ListenLocal
<1>3. Ordinary(p)
  <2>1. DOMAIN links' = DOMAIN links /\ \A d \in DOMAIN links : Kept(d) /\ Unmoved(d) /\ Open(d)' = Open(d) /\ Taken(d)' = Taken(d)
    BY LinksStay DEF ListenDoes, TypeOK
  <2> QED
    BY <2>1 DEF ListenDoes, Ordinary, LinksKept
<1>4. /\ \A y : Doing(p, "connect", "request", y)' <=> Doing(p, "connect", "request", y)
      /\ DOMAIN links' = DOMAIN links
      /\ \A d \in DOMAIN links : Taken(d)' = Taken(d)
  <2>1. \A y : Doing(p, "connect", "request", y)' <=> Doing(p, "connect", "request", y)
    BY DEF ListenDoes, Spawns
  <2>2. DOMAIN links' = DOMAIN links /\ \A d \in DOMAIN links : Taken(d)' = Taken(d)
    BY LinksStay DEF ListenDoes, TypeOK
  <2> QED
    BY <2>1, <2>2
<1>5. ASSUME NEW e \in DOMAIN links, e = sock[p] \/ e = sock'[p]
      PROVE  Whole(e)'
  <2>1. e = sock[p]
    BY <1>5 DEF ListenDoes
  <2>3. PICK q \in Peers : q = Other(e, p)
    BY <1>1, <2>1 DEF PeerFacts
  <2>4. Local(q) /\ ReadyInv(e)
    BY CoreIs DEF Whole
  <2> QED
    BY <1>1, <2>1, <2>3, <2>4, ListenLink DEF Whole
<1> QED
  BY <1>2, <1>3, <1>4, <1>5, OrdinaryStep

LEMMA StartedKeeps ==
    ASSUME TypeOK, TypeOK', Core, NEW p \in Peers, NEW x, StartedDoes(p, x), mishaps' = {},
           ~Doomed(p), ~Doomed(p)'
    PROVE  Core'
<1>1. Local(p) /\ TlsInv(p) /\ OnLink(p) /\ PeerFacts(p)
  BY OnLinkIs, PeerIs
<1>2. Local(p)' /\ TlsInv(p)'
  BY <1>1, StartedLocal
<1>3. Ordinary(p)
  <2>1. DOMAIN links' = DOMAIN links /\ \A d \in DOMAIN links : Kept(d) /\ Unmoved(d) /\ Open(d)' = Open(d) /\ Taken(d)' = Taken(d)
    BY LinksStay DEF StartedDoes, TypeOK
  <2> QED
    BY <2>1 DEF StartedDoes, Ordinary, LinksKept
<1>4. /\ \A y : Doing(p, "connect", "request", y)' <=> Doing(p, "connect", "request", y)
      /\ DOMAIN links' = DOMAIN links
      /\ \A d \in DOMAIN links : Taken(d)' = Taken(d)
  <2>1. \A y : Doing(p, "connect", "request", y)' <=> Doing(p, "connect", "request", y)
    BY DEF StartedDoes, Finishes
  <2>2. DOMAIN links' = DOMAIN links /\ \A d \in DOMAIN links : Taken(d)' = Taken(d)
    BY LinksStay DEF StartedDoes, TypeOK
  <2> QED
    BY <2>1, <2>2
<1>5. ASSUME NEW e \in DOMAIN links, e = sock[p] \/ e = sock'[p]
      PROVE  Whole(e)'
  <2>1. e = sock[p]
    BY <1>5 DEF StartedDoes
  <2>3. PICK q \in Peers : q = Other(e, p)
    BY <1>1, <2>1 DEF PeerFacts
  <2>4. Local(q) /\ ReadyInv(e)
    BY CoreIs DEF Whole
  <2> QED
    BY <1>1, <2>1, <2>3, <2>4, StartedLink DEF Whole
<1> QED
  BY <1>2, <1>3, <1>4, <1>5, OrdinaryStep

LEMMA SendersKeeps ==
    ASSUME TypeOK, TypeOK', Core, NEW p \in Peers, SendersDoes(p), mishaps' = {},
           ~Doomed(p), ~Doomed(p)'
    PROVE  Core'
<1>1. Local(p) /\ TlsInv(p) /\ OnLink(p) /\ PeerFacts(p)
  BY OnLinkIs, PeerIs
<1>2. Local(p)' /\ TlsInv(p)'
  BY <1>1, SendersLocal
<1>3. Ordinary(p)
  <2>1. DOMAIN links' = DOMAIN links /\ \A d \in DOMAIN links : Kept(d) /\ Unmoved(d) /\ Open(d)' = Open(d) /\ Taken(d)' = Taken(d)
    BY LinksStay DEF SendersDoes, TypeOK
  <2> QED
    BY <2>1 DEF SendersDoes, Ordinary, LinksKept
<1>4. /\ \A y : Doing(p, "connect", "request", y)' <=> Doing(p, "connect", "request", y)
      /\ DOMAIN links' = DOMAIN links
      /\ \A d \in DOMAIN links : Taken(d)' = Taken(d)
  <2>1. \A y : Doing(p, "connect", "request", y)' <=> Doing(p, "connect", "request", y)
    BY DEF SendersDoes, Finishes
  <2>2. DOMAIN links' = DOMAIN links /\ \A d \in DOMAIN links : Taken(d)' = Taken(d)
    BY LinksStay DEF SendersDoes, TypeOK
  <2> QED
    BY <2>1, <2>2
<1>5. ASSUME NEW e \in DOMAIN links, e = sock[p] \/ e = sock'[p]
      PROVE  Whole(e)'
  <2>1. e = sock[p]
    BY <1>5 DEF SendersDoes
  <2>3. PICK q \in Peers : q = Other(e, p)
    BY <1>1, <2>1 DEF PeerFacts
  <2>4. Local(q) /\ ReadyInv(e)
    BY CoreIs DEF Whole
  <2> QED
    BY <1>1, <2>1, <2>3, <2>4, SendersLink DEF Whole
<1> QED
  BY <1>2, <1>3, <1>4, <1>5, OrdinaryStep

LEMMA StopEngineKeeps ==
    ASSUME TypeOK, TypeOK', Core, NEW p \in Peers, StopEngineDoes(p), mishaps' = {},
           ~Doomed(p), ~Doomed(p)'
    PROVE  Core'
<1>1. Local(p) /\ TlsInv(p) /\ OnLink(p) /\ PeerFacts(p)
  BY OnLinkIs, PeerIs
<1>2. Local(p)' /\ TlsInv(p)'
  BY <1>1, StopEngineLocal
<1>3. Ordinary(p)
  <2>1. DOMAIN links' = DOMAIN links /\ \A d \in DOMAIN links : Kept(d) /\ Unmoved(d) /\ Open(d)' = Open(d) /\ Taken(d)' = Taken(d)
    BY LinksStay DEF StopEngineDoes, TypeOK
  <2> QED
    BY <2>1 DEF StopEngineDoes, Ordinary, LinksKept
<1>4. /\ \A y : Doing(p, "connect", "request", y)' <=> Doing(p, "connect", "request", y)
      /\ DOMAIN links' = DOMAIN links
      /\ \A d \in DOMAIN links : Taken(d)' = Taken(d)
  <2>1. \A y : Doing(p, "connect", "request", y)' <=> Doing(p, "connect", "request", y)
    BY DEF StopEngineDoes, Finishes
  <2>2. DOMAIN links' = DOMAIN links /\ \A d \in DOMAIN links : Taken(d)' = Taken(d)
    BY LinksStay DEF StopEngineDoes, TypeOK
  <2> QED
    BY <2>1, <2>2
<1>5. ~Uses(p) /\ sock'[p] \notin DOMAIN links
  <2>1. Runs(p, "stop", "stop") /\ sock'[p] = sock[p]
    BY DEF StopEngineDoes, Finishes, Runs
  <2>2. Ended(p)
    BY <2>1 DEF Ended, Closes
  <2> QED
    BY <1>1, <2>1, <2>2 DEF PeerFacts, Local, SockInv
<1> QED
  BY <1>1, <1>2, <1>3, <1>4, <1>5, NoLinkStep

-----------------------------------------------------------------------------
(* Mishaps, and the steps that make one inevitable                         *)

\* The steps that a doomed dialling, or the end it is doomed by, waits for.
Fateful == {"dial", "reset", "stop", "cancel", "reject", "close", "lost"}

\* A step of one task leaves the others, ...
LEMMA JobsKept ==
    ASSUME TodoOK, NEW p \in Peers, NEW t \in BagToSet(todo[p]), NEW new,
           \/ todo' = After(p, t, new)
           \/ todo' = Drop(p, t)
           \/ todo' = [todo EXCEPT ![p] = BagAdd(BagRemove(@, t), ConnectError)],
           NEW h, NEW l, NEW x, Doing(p, h, l, x), h # Head(t.steps)
    PROVE  Doing(p, h, l, x)'
<1>1. PICK u \in BagToSet(todo[p]) : <<h, l, x>> = JobOf(u)
  BY DEF Doing, Jobs
<1>2. u # t /\ BagOK(todo[p]) /\ p \in DOMAIN todo
  BY <1>1 DEF JobOf, TodoOK
<1>3. PICK B : B = BagRemove(todo[p], t)
  OBVIOUS
<1>4. BagOK(B) /\ u \in DOMAIN B
  <2>1. Becomes(todo[p], B, t, {})
    BY <1>2, <1>3, RemoveBecomes
  <2> QED
    BY <1>2, <2>1 DEF Becomes, BagToSet
<1>5. \A y : BagOK(BagAdd(B, y)) /\ u \in DOMAIN BagAdd(B, y)
  BY <1>4, BagAddIs
<1>6. \A C : BagOK(C) /\ u \in DOMAIN C => u \in DOMAIN (C (+) SetToBag(new))
  BY BagPlusIs
<1>7. u \in DOMAIN todo'[p]
  <2>1. CASE todo' = After(p, t, new)
    <3>1. \/ todo'[p] = B (+) SetToBag(new)
          \/ todo'[p] = BagAdd(B, [t EXCEPT !.steps = Tail(@)]) (+) SetToBag(new)
      BY <1>2, <1>3, <2>1 DEF After
    <3> QED
      BY <1>4, <1>5, <1>6, <3>1
  <2>2. CASE todo' = Drop(p, t)
    BY <1>2, <1>3, <1>4, <2>2 DEF Drop
  <2>3. CASE todo' = [todo EXCEPT ![p] = BagAdd(BagRemove(@, t), ConnectError)]
    BY <1>2, <1>3, <1>5, <2>3
  <2> QED
    BY <2>1, <2>2, <2>3
<1> QED
  BY <1>1, <1>7 DEF Doing, Jobs, BagToSet

\* ... and so does one that publishes some.
LEMMA JobsPublished ==
    ASSUME TodoOK, NEW p \in Peers, NEW new, Publish(p, new),
           NEW h, NEW l, NEW x, Doing(p, h, l, x)
    PROVE  Doing(p, h, l, x)'
<1>1. PICK u \in BagToSet(todo[p]) : <<h, l, x>> = JobOf(u)
  BY DEF Doing, Jobs
<1>2. BagOK(todo[p]) /\ p \in DOMAIN todo
  BY DEF TodoOK
<1>3. u \in DOMAIN todo'[p]
  <2>1. todo'[p] = todo[p] (+) SetToBag(new)
    BY <1>2 DEF Publish
  <2>2. DOMAIN (todo[p] (+) SetToBag(new)) = DOMAIN todo[p] \cup new
    BY <1>2, BagPlusIs
  <2> QED
    BY <1>1, <2>1, <2>2 DEF BagToSet
<1> QED
  BY <1>1, <1>3 DEF Doing, Jobs, BagToSet

\* What is doomed stays so while the steps it waits for do, ...
LEMMA DoomedKept ==
    ASSUME NEW r, Doomed(r),
           \A h, l, x : h \in Fateful /\ Doing(r, h, l, x) => Doing(r, h, l, x)',
           sock'[r] = sock[r] \/ sock'[r] # Nobody,
           status'[r] = status[r] \/ status'[r] # "waiting"
    PROVE  Doomed(r)'
<1>1. ToDial(r) => ToDial(r)'
  BY DEF Fateful, ToDial
<1>2. \A h, l : h \in Fateful /\ Runs(r, h, l) => Runs(r, h, l)'
  BY DEF Runs
<1>3. /\ Resets(r) => Resets(r)'
      /\ Closes(r) => Closes(r)'
      /\ Runs(r, "stop", "stop") => Runs(r, "stop", "stop")'
  BY <1>2 DEF Fateful, Resets, TakesBack, Leaves, Closes
<1>4. Busy(r) => Busy(r)'
  BY DEF Busy
<1> QED
  BY <1>1, <1>3, <1>4 DEF Doomed

\* ... and is noted as a mishap when they are made.
LEMMA DoomedBegins ==
    ASSUME TypeOK, NEW r \in Peers, Doomed(r)
    PROVE  Beginning(r) /\ (Ending(r) \/ Busy(r))
  BY BeginsNothing, EndsNothing DEF Doomed

\* A step of another peer.
LEMMA DoomedByOthers ==
    ASSUME TypeOK, TypeOK', NEW p \in Peers, User(p) \/ Thread(p), NEW r \in Peers, r # p
    PROVE  todo'[r] = todo[r] /\ sock'[r] = sock[r] /\ status'[r] \in {status[r], "tls"}
<1>1. /\ DOMAIN todo = Peers /\ sock \in [Peers -> DOMAIN links \cup {Fresh, Nobody}]
      /\ status \in [Peers -> {"waiting", "tls", "tcp"}]
  BY DEF TypeOK, TodoOK
<1>2. ASSUME User(p)
      PROVE  todo'[r] = todo[r] /\ sock'[r] = sock[r] /\ status'[r] \in {status[r], "tls"}
  BY <1>1, <1>2 DEF User, UserConnects, UserCancels, UserAnswers, UserDisconnects, Publish, driverVars
<1>3. ASSUME NEW t \in BagToSet(todo[p]), Step(p, t)
      PROVE  todo'[r] = todo[r] /\ sock'[r] = sock[r] /\ status'[r] \in {status[r], "tls"}
  <2>1. ASSUME Dial(p, t) \/ Connect(p, t) \/ Unconnected(p, t) \/ Refused(p, t)
        PROVE  todo'[r] = todo[r] /\ sock'[r] = sock[r] /\ status'[r] \in {status[r], "tls"}
    BY <1>1, <2>1 DEF Dial, Connect, Unconnected, Refused, After, Drop, driverVars
  <2>2. ASSUME Exchange(p, t) \/ ExchangeAborted(p, t) \/ ExchangeBreaks(p, t)
        PROVE  todo'[r] = todo[r] /\ sock'[r] = sock[r] /\ status'[r] \in {status[r], "tls"}
    BY <1>1, <2>2 DEF Exchange, ExchangeAborted, ExchangeBreaks, After, Drop, driverVars
  <2>3. ASSUME Establish(p, t) \/ RecvMsg(p, t) \/ Reset(p, t) \/ Again(p, t)
        PROVE  todo'[r] = todo[r] /\ sock'[r] = sock[r] /\ status'[r] \in {status[r], "tls"}
    BY <1>1, <2>3 DEF Establish, RecvMsg, Reset, Again, After, Drop, driverVars
  <2>4. ASSUME SetStatus(p, t) \/ PublishEngine(p, t)
               \/ StartEngine(p, t) \/ StartSenders(p, t) \/ StopEngine(p, t)
        PROVE  todo'[r] = todo[r] /\ sock'[r] = sock[r] /\ status'[r] \in {status[r], "tls"}
    BY <1>1, <2>4 DEF SetStatus, PublishEngine, StartEngine, StartSenders, StopEngine, After, driverVars
  <2>5. ASSUME NEW type \in Types, Send(p, t, type)
        PROVE  todo'[r] = todo[r] /\ sock'[r] = sock[r] /\ status'[r] \in {status[r], "tls"}
    BY <1>1, <2>5 DEF Send, After, driverVars
  <2> QED
    BY <1>3, <2>1, <2>2, <2>3, <2>4, <2>5 DEF Step
<1>4. ASSUME NEW c \in DOMAIN links, Accept(p, c) \/ Parse(p, c) \/ SeesEnd(p, c)
      PROVE  todo'[r] = todo[r] /\ sock'[r] = sock[r] /\ status'[r] \in {status[r], "tls"}
  BY <1>1, <1>4 DEF Accept, Parse, SeesEnd, Publish, driverVars
<1>5. ASSUME NEW c \in BagToSet(readers[p]), ReaderStops(p, c) \/ ReaderTurns(p, c)
      PROVE  todo'[r] = todo[r] /\ sock'[r] = sock[r] /\ status'[r] \in {status[r], "tls"}
  BY <1>5 DEF ReaderStops, ReaderTurns, driverVars
<1> QED
  BY <1>2, <1>3, <1>4, <1>5 DEF Thread

\* A handler's step of its own.
LEMMA DoomedByStep ==
    ASSUME TypeOK, TypeOK', NEW p \in Peers, NEW t \in BagToSet(todo[p]), Step(p, t),
           Doomed(p), mishaps' = {}
    PROVE  Doomed(p)'
<1>1. /\ DOMAIN todo = Peers /\ sock \in [Peers -> DOMAIN links \cup {Fresh, Nobody}] /\ TodoOK
      /\ status \in [Peers -> {"waiting", "tls", "tcp"}]
  BY DEF TypeOK, TodoOK
<1>2. Beginning(p) /\ (Ending(p) \/ Busy(p)) /\ ToDial(p)
  BY DoomedBegins DEF Doomed
<1>3. ~Dial(p, t) /\ ~Reset(p, t) /\ ~StopEngine(p, t) /\ ~ExchangeBreaks(p, t)
  BY <1>2 DEF Dial, Reset, StopEngine, ExchangeBreaks, Noting
<1>4. <<Head(t.steps), Aim(t)>> \in Kinds
  BY <1>1, JobDone
<1>5. ASSUME \E new : \/ todo' = After(p, t, new)
                      \/ todo' = Drop(p, t)
                      \/ todo' = [todo EXCEPT ![p] = BagAdd(BagRemove(@, t), ConnectError)],
             Head(t.steps) \notin Fateful,
             sock'[p] = sock[p] \/ sock'[p] # Nobody,
             status'[p] = status[p] \/ status'[p] # "waiting"
      PROVE  Doomed(p)'
  BY <1>1, <1>5, JobsKept, DoomedKept
<1>6. CASE Exchange(p, t) \/ ExchangeAborted(p, t) \/ Refused(p, t)
  <2>1. Head(t.steps) = "exchange"
    BY <1>6 DEF Exchange, ExchangeAborted, Refused, At
  <2>2. /\ sock'[p] = sock[p]
        /\ status'[p] = status[p] \/ status'[p] # "waiting"
    BY <1>1, <1>6 DEF Exchange, ExchangeAborted, Refused, driverVars
  <2>3. \E new : \/ todo' = After(p, t, new)
                 \/ todo' = Drop(p, t)
                 \/ todo' = [todo EXCEPT ![p] = BagAdd(BagRemove(@, t), ConnectError)]
    BY <1>6 DEF Exchange, ExchangeAborted, Refused
  <2> QED
    BY <1>5, <2>1, <2>2, <2>3 DEF Fateful
<1>7. CASE Connect(p, t)
  <2>1. Head(t.steps) = "connect" /\ status'[p] = status[p] /\ (todo' = After(p, t, {}) \/ todo' = Drop(p, t))
    BY <1>7 DEF Connect, At
  <2>2. sock'[p] = Fresh \/ sock'[p] = Len(links) + 1
    BY <1>1, <1>7 DEF Connect
  <2>3. sock'[p] # Nobody
    BY <2>2, SessionAssumption DEF TypeOK, LinksOK
  <2> QED
    BY <1>5, <2>1, <2>3 DEF Fateful
<1>8. CASE Unconnected(p, t) \/ Establish(p, t) \/ RecvMsg(p, t) \/ Again(p, t)
  <2>1. /\ Head(t.steps) \in {"unconnected", "established", "recvMsg", "again"}
        /\ (todo' = After(p, t, {}) \/ todo' = Drop(p, t))
    BY <1>8 DEF Unconnected, Establish, RecvMsg, Again, At
  <2>2. sock'[p] = sock[p] /\ (status'[p] = status[p] \/ status'[p] # "waiting")
    BY <1>1, <1>8 DEF Unconnected, Establish, RecvMsg, Again, driverVars
  <2> QED
    BY <1>5, <2>1, <2>2 DEF Fateful
<1>9. CASE PublishEngine(p, t) \/ StartEngine(p, t) \/ StartSenders(p, t)
  <2>1. Head(t.steps) \in {"initHigh", "initLow", "listen", "started", "initFileSenders"}
    BY <1>9 DEF PublishEngine, StartEngine, StartSenders, At
  <2>2. sock'[p] = sock[p] /\ status'[p] = status[p]
    BY <1>9 DEF PublishEngine, StartEngine, StartSenders, driverVars
  <2>3. \E new : todo' = After(p, t, new)
    BY <1>9 DEF PublishEngine, StartEngine, StartSenders
  <2> QED
    BY <1>5, <2>1, <2>2, <2>3 DEF Fateful
<1>10. CASE SetStatus(p, t)
  <2>1. sock'[p] = sock[p] /\ status'[p] = status[p]
    BY <1>10 DEF SetStatus, driverVars
  <2>2. PICK step \in {"statusOn", "statusOff", "close", "lost"} :
            At(p, t, step) /\ \E new : todo' = After(p, t, new)
    BY <1>10 DEF SetStatus
  <2>3. CASE step \in {"statusOn", "statusOff"}
    BY <1>5, <2>1, <2>2, <2>3 DEF Fateful, At
  <2>4. CASE step \in {"close", "lost"}
    <3>1. Runs(p, "stop", "stop")'
      <4>1. CASE step = "close"
        BY <1>10, <2>2, <4>1, StatusClosedEffect DEF StatusClosedDoes, Spawns, Runs
      <4>2. CASE step = "lost" /\ Aim(t) = "unconnected"
        BY <1>10, <2>2, <4>2, StatusLostUnconnectedEffect DEF StatusLostUnconnectedDoes, Spawns, Runs
      <4>3. CASE step = "lost" /\ Aim(t) = "again"
        BY <1>10, <2>2, <4>3, StatusLostAgainEffect DEF StatusLostAgainDoes, Spawns, Runs
      <4> QED
        BY <1>4, <2>2, <2>4, <4>1, <4>2, <4>3 DEF Kinds, At
    <3>2. ToDial(p)'
      BY <1>1, <1>2, <2>2, <2>4, JobsKept DEF ToDial, At
    <3> QED
      BY <3>1, <3>2 DEF Doomed
  <2> QED
    BY <2>2, <2>3, <2>4
<1>11. ASSUME NEW type \in Types, Send(p, t, type)
       PROVE  Doomed(p)'
  <2>1. sock'[p] = sock[p] /\ status'[p] = status[p] /\ todo' = After(p, t, {}) /\ Head(t.steps) = type
    BY <1>11 DEF Send, At, driverVars
  <2>2. CASE type \in {"request", "accept", "ready"}
    BY <1>5, <2>1, <2>2 DEF Fateful
  <2>3. CASE type \in {"reject", "cancel"}
    <3>1. Resets(p)'
      <4>1. CASE type = "reject"
        BY <1>11, <4>1, SendRejectEffect DEF SendRejectDoes, Advances, Runs, Resets, Leaves
      <4>2. CASE type = "cancel"
        BY <1>11, <4>2, SendCancelEffect DEF SendCancelDoes, Advances, Runs, Resets, Leaves
      <4> QED
        BY <2>3, <4>1, <4>2
    <3>2. ToDial(p)'
      BY <1>1, <1>2, <2>1, <2>3, JobsKept DEF ToDial
    <3> QED
      BY <3>1, <3>2 DEF Doomed
  <2> QED
    BY <2>2, <2>3 DEF Types
<1> QED
  BY <1>3, <1>6, <1>7, <1>8, <1>9, <1>10, <1>11 DEF Step

\* What is doomed stays so, until the mishap.
LEMMA DoomedStays ==
    ASSUME TypeOK, TypeOK', NEW p \in Peers, User(p) \/ Thread(p), mishaps' = {},
           NEW r \in Peers, Doomed(r)
    PROVE  Doomed(r)'
<1>1. CASE r # p
  <2>1. todo'[r] = todo[r] /\ sock'[r] = sock[r] /\ status'[r] \in {status[r], "tls"}
    BY <1>1, DoomedByOthers
  <2>2. \A h, l, x : Doing(r, h, l, x) => Doing(r, h, l, x)'
    BY <2>1 DEF Doing, Jobs
  <2> QED
    BY <2>1, <2>2, DoomedKept
<1>2. CASE r = p
  <2>1. TodoOK /\ sock \in [Peers -> DOMAIN links \cup {Fresh, Nobody}] /\ LinksOK
    BY DEF TypeOK
  <2>2. ASSUME (\E new : Publish(p, new)) \/ UNCHANGED todo
        PROVE  \A h, l, x : Doing(p, h, l, x) => Doing(p, h, l, x)'
    <3>1. ASSUME UNCHANGED todo
          PROVE  \A h, l, x : Doing(p, h, l, x) => Doing(p, h, l, x)'
      BY <3>1 DEF Doing, Jobs
    <3>2. ASSUME NEW new, Publish(p, new)
          PROVE  \A h, l, x : Doing(p, h, l, x) => Doing(p, h, l, x)'
      BY <2>1, <3>2, JobsPublished
    <3> QED
      BY <2>2, <3>1, <3>2
  <2>3. CASE User(p)
    <3>1. sock'[p] = sock[p] /\ status'[p] = status[p] /\ \E new : Publish(p, new)
      BY <2>3 DEF User, UserConnects, UserCancels, UserAnswers, UserDisconnects, driverVars
    <3> QED
      BY <1>2, <2>2, <3>1, DoomedKept
  <2>4. ASSUME NEW c \in DOMAIN links, Accept(p, c)
        PROVE  Doomed(p)'
    <3>1. /\ status'[p] = status[p]
          /\ (\E new : Publish(p, new)) \/ UNCHANGED todo
          /\ sock'[p] = sock[p] \/ sock'[p] = c
      BY <2>1, <2>4 DEF Accept
    <3>2. c # Nobody
      BY <2>1, LinkIs, SessionAssumption
    <3> QED
      BY <1>2, <2>2, <3>1, <3>2, DoomedKept
  <2>5. ASSUME NEW c \in DOMAIN links, Parse(p, c) \/ SeesEnd(p, c)
        PROVE  Doomed(p)'
    <3>1. /\ status'[p] = status[p] /\ sock'[p] = sock[p]
          /\ (\E new : Publish(p, new)) \/ UNCHANGED todo
      BY <2>5 DEF Parse, SeesEnd, driverVars
    <3> QED
      BY <1>2, <2>2, <3>1, DoomedKept
  <2>6. ASSUME NEW c, ReaderStops(p, c) \/ ReaderTurns(p, c)
        PROVE  Doomed(p)'
    <3>1. status'[p] = status[p] /\ sock'[p] = sock[p] /\ UNCHANGED todo
      BY <2>6 DEF ReaderStops, ReaderTurns, driverVars
    <3> QED
      BY <1>2, <2>2, <3>1, DoomedKept
  <2>7. ASSUME NEW t \in BagToSet(todo[p]), Step(p, t)
        PROVE  Doomed(p)'
    BY <1>2, <2>7, DoomedByStep
  <2> QED
    BY <1>2, <2>3, <2>4, <2>5, <2>6, <2>7 DEF Thread
<1> QED
  BY <1>1, <1>2

-----------------------------------------------------------------------------
(* The invariant                                                           *)

\* The user's actions.
LEMMA UserKeeps ==
    ASSUME TypeOK, TypeOK', Core, NEW p \in Peers, User(p), mishaps' = {},
           ~Doomed(p), ~Doomed(p)'
    PROVE  Core'
<1>1. ASSUME NEW q \in Peers, UserConnects(p, q)
      PROVE  Core'
  BY <1>1, UserConnectsEffect, UserConnectsKeeps
<1>2. CASE UserCancels(p)
  BY <1>2, UserCancelsEffect, UserCancelsKeeps
<1>3. CASE UserAnswers(p)
  <2>1. CASE ui' = [ui EXCEPT ![p] = "connected"] /\ Publish(p, {SendAccept})
    BY <1>3, <2>1, UserAcceptsEffect, UserAcceptsKeeps
  <2>2. CASE Publish(p, {SendReject}) /\ UNCHANGED ui
    BY <1>3, <2>2, UserRejectsEffect, UserRejectsKeeps
  <2> QED
    BY <1>3, <2>1, <2>2 DEF UserAnswers
<1>4. CASE UserDisconnects(p)
  BY <1>4, UserDisconnectsEffect, UserDisconnectsKeeps
<1> QED
  BY <1>1, <1>2, <1>3, <1>4 DEF User

\* The driver's steps.
LEMMA DriverKeeps ==
    ASSUME TypeOK, TypeOK', Core, NEW p \in Peers, NEW t \in BagToSet(todo[p]), mishaps' = {},
           ~Doomed(p), ~Doomed(p)',
           \/ Dial(p, t) \/ Exchange(p, t) \/ ExchangeAborted(p, t) \/ ExchangeBreaks(p, t)
           \/ Refused(p, t) \/ Connect(p, t) \/ Unconnected(p, t)
           \/ Establish(p, t) \/ RecvMsg(p, t) \/ Reset(p, t) \/ Again(p, t)
    PROVE  Core'
<1>1. Local(p) /\ PeerFacts(p)
  BY CoreIs, PeerIs
<1>2. /\ Doing(p, Head(t.steps), Aim(t), t.arg)
      /\ <<Head(t.steps), Aim(t)>> \in Kinds /\ t.arg \in Args(Aim(t))
  BY JobDone DEF TypeOK
<1>3. ~ExchangeAborted(p, t)
  <2> SUFFICES ASSUME ExchangeAborted(p, t)
               PROVE  FALSE
    OBVIOUS
  <2>1. Head(t.steps) = "exchange" /\ (target[p] = Nobody \/ ~dialing[p])
    BY DEF ExchangeAborted, At
  <2>2. Doing(p, "exchange", "request", t.arg) /\ t.arg \in Peers
    BY <1>2, <2>1 DEF Kinds, Args
  <2>3. dialing[p] /\ target[p] = t.arg
    BY <1>1, <2>2 DEF Local, AskInv
  <2> QED
    BY <1>1, <2>1, <2>2, <2>3 DEF PeerFacts
<1>4. ~ExchangeBreaks(p, t)
  BY DEF ExchangeBreaks
<1>5. CASE Connect(p, t)
  <2>1. Head(t.steps) = "connect"
    BY <1>5 DEF Connect, At
  <2>2. Doing(p, "connect", "request", t.arg) /\ t.arg \in Peers
    BY <1>2, <2>1 DEF Kinds, Args
  <2>3. target[p] # Nobody /\ sock[p] \notin DOMAIN links
    BY <1>1, <2>2 DEF Local, AskInv, PeerFacts
  <2> QED
    BY <1>5, <2>3, ConnectEffect, ConnectKeeps
<1>6. CASE RecvMsg(p, t)
  <2>1. Head(t.steps) = "recvMsg"
    BY <1>6 DEF RecvMsg, At
  <2>2. CASE Aim(t) = "request"
    <3>1. Doing(p, "recvMsg", "request", t.arg) /\ t.arg \in Peers
      BY <1>2, <2>1, <2>2 DEF Args
    <3>2. online[p]
      BY <1>1, <3>1 DEF Local, AskInv, Calls, SockInv
    <3> QED
      BY <1>6, <2>2, <3>2, RecvMsgRequestEffect, RecvMsgRequestKeeps
  <2>3. CASE Aim(t) = "established"
    <3>1. Doing(p, "recvMsg", "established", t.arg) /\ t.arg \in Nat
      BY <1>2, <2>1, <2>3 DEF Args
    <3>2. online[p]
      BY <1>1, <3>1 DEF Local, PlaceInv, Adopts, Takes, SockInv
    <3> QED
      BY <1>6, <2>3, <3>2, RecvMsgAcceptedEffect, RecvMsgAcceptedKeeps
  <2> QED
    BY <1>2, <2>1, <2>2, <2>3 DEF Kinds
<1>7. CASE Reset(p, t)
  <2>1. Head(t.steps) = "reset" /\ (Uses(p) => online[p])
    BY <1>1, <1>7 DEF Reset, At, Local, SockInv
  <2>2. Aim(t) \in {"statusOff", "reset", "close", "unconnected", "again"}
    BY <1>2, <2>1 DEF Kinds
  <2>3. CASE Aim(t) = "statusOff"
    BY <1>7, <2>1, <2>3, ResetStatusOffEffect, ResetStatusOffKeeps
  <2>4. CASE Aim(t) = "reset"
    BY <1>7, <2>1, <2>4, ResetResetEffect, ResetResetKeeps
  <2>5. CASE Aim(t) = "close"
    BY <1>7, <2>1, <2>5, ResetCloseEffect, ResetCloseKeeps
  <2>6. CASE Aim(t) = "unconnected"
    BY <1>7, <2>1, <2>6, ResetUnconnectedEffect, ResetUnconnectedKeeps
  <2>7. CASE Aim(t) = "again"
    BY <1>7, <2>1, <2>7, ResetAgainEffect, ResetAgainKeeps
  <2> QED
    BY <2>2, <2>3, <2>4, <2>5, <2>6, <2>7
<1>8. CASE Again(p, t)
  <2>1. Head(t.steps) = "again"
    BY <1>8 DEF Again, At
  <2>2. Ended(p)
    BY <1>2, <2>1 DEF Kinds, Args, Ended, Runs
  <2>3. ~reading[p]
    BY <1>1, <2>2 DEF Local, SockInv, ReadInv, PeerFacts
  <2> QED
    BY <1>8, <2>3, AgainEffect, AgainKeeps
<1>9. CASE Dial(p, t)
  BY <1>9, DialEffect, DialKeeps
<1>10. CASE Exchange(p, t)
  BY <1>10, ExchangeEffect, ExchangeKeeps
<1>11. CASE Refused(p, t)
  BY <1>11, RefusedEffect, RefusedKeeps
<1>12. CASE Unconnected(p, t)
  BY <1>12, UnconnectedEffect, UnconnectedKeeps
<1>13. CASE Establish(p, t)
  BY <1>13, EstablishEffect, EstablishKeeps
<1> QED
  BY <1>3, <1>4, <1>5, <1>6, <1>7, <1>8, <1>9, <1>10, <1>11, <1>12, <1>13

\* The controller's and the engine's.
LEMMA HandlerKeeps ==
    ASSUME TypeOK, TypeOK', Core, NEW p \in Peers, NEW t \in BagToSet(todo[p]), mishaps' = {},
           ~Doomed(p), ~Doomed(p)',
           \/ \E type \in Types : Send(p, t, type)
           \/ SetStatus(p, t) \/ PublishEngine(p, t)
           \/ StartEngine(p, t) \/ StartSenders(p, t) \/ StopEngine(p, t)
    PROVE  Core'
<1>1. <<Head(t.steps), Aim(t)>> \in Kinds
  BY JobDone DEF TypeOK
<1>2. CASE Send(p, t, "request")
  BY <1>2, SendRequestEffect, SendRequestKeeps
<1>3. CASE Send(p, t, "accept")
  BY <1>3, SendAcceptEffect, SendAcceptKeeps
<1>4. CASE Send(p, t, "reject")
  BY <1>4, SendRejectEffect, SendRejectKeeps
<1>5. CASE Send(p, t, "cancel")
  BY <1>5, SendCancelEffect, SendCancelKeeps
<1>6. CASE Send(p, t, "ready")
  BY <1>6, SendReadyEffect, SendReadyKeeps
<1>7. CASE SetStatus(p, t)
  <2>1. PICK step \in {"statusOn", "statusOff", "close", "lost"} : At(p, t, step)
    BY <1>7 DEF SetStatus
  <2>2. step = "lost" => Aim(t) \in {"unconnected", "again"}
    BY <1>1, <2>1 DEF At, Kinds
  <2>3. CASE step = "statusOn"
    BY <1>7, <2>1, <2>3, StatusOnEffect, StatusOnKeeps
  <2>4. CASE step = "statusOff"
    BY <1>7, <2>1, <2>4, StatusOffEffect, StatusOffKeeps
  <2>5. CASE step = "close"
    BY <1>7, <2>1, <2>5, StatusClosedEffect, StatusClosedKeeps
  <2>6. CASE step = "lost" /\ Aim(t) = "unconnected"
    BY <1>7, <2>1, <2>6, StatusLostUnconnectedEffect, StatusLostUnconnectedKeeps
  <2>7. CASE step = "lost" /\ Aim(t) = "again"
    BY <1>7, <2>1, <2>7, StatusLostAgainEffect, StatusLostAgainKeeps
  <2> QED
    BY <2>2, <2>3, <2>4, <2>5, <2>6, <2>7
<1>8. CASE PublishEngine(p, t)
  <2>1. CASE At(p, t, "initHigh")
    BY <1>8, <2>1, EngineHighEffect, EngineHighKeeps
  <2>2. CASE At(p, t, "initLow")
    BY <1>8, <2>2, EngineLowEffect, EngineLowKeeps
  <2> QED
    BY <1>8, <2>1, <2>2 DEF PublishEngine
<1>9. CASE StartEngine(p, t)
  <2>1. CASE At(p, t, "listen")
    BY <1>9, <2>1, ListenEffect, ListenKeeps
  <2>2. CASE At(p, t, "started")
    BY <1>9, <2>2, StartedEffect, StartedKeeps
  <2> QED
    BY <1>9, <2>1, <2>2 DEF StartEngine
<1>10. CASE StartSenders(p, t)
  BY <1>10, SendersEffect, SendersKeeps
<1>11. CASE StopEngine(p, t)
  BY <1>11, StopEngineEffect, StopEngineKeeps
<1> QED
  BY <1>2, <1>3, <1>4, <1>5, <1>6, <1>7, <1>8, <1>9, <1>10, <1>11 DEF Types

\* The accepting thread and the receiving ones.
LEMMA LinkKeeps ==
    ASSUME TypeOK, TypeOK', Core, NEW p \in Peers, NEW c \in DOMAIN links, mishaps' = {},
           ~Doomed(p), ~Doomed(p)', Accept(p, c) \/ Parse(p, c) \/ SeesEnd(p, c)
    PROVE  Core'
<1>1. CASE Accept(p, c)
  <2>1. To(c) = p /\ ~Taken(c)
    BY <1>1 DEF Accept, To, Taken
  <2>2. From(c) = candidate[p]
    BY <2>1, CoreIs DEF TlsInv
  <2> QED
    BY <1>1, <2>2, AcceptEffect, AcceptKeeps
<1>2. CASE Parse(p, c)
  <2>1. In(c, p) \in Seq(Message) /\ In(c, p) # << >> /\ p \in Open(c)
    <3>1. In(c, p) # << >> /\ p \in Open(c) /\ p \in {From(c), To(c)}
      BY <1>2, ParseTakes
    <3> QED
      BY <3>1, LinkIs DEF TypeOK
  <2>2. Head(In(c, p)).key = key[p]
    <3>1. Keyed(In(c, p), key[p])
      BY <2>1, CoreIs DEF Whole, KeyInv
    <3> QED
      BY <2>1, <3>1 DEF Keyed
  <2>3. Head(In(c, p)) \in Message
    BY <2>1
  <2>4. Head(In(c, p)).type \in {"request", "accept", "reject", "cancel", "ready"}
    BY <2>3 DEF Message, Types
  <2>5. CASE Head(In(c, p)).type = "request"
    BY <1>2, <2>2, <2>5, ParseRequestEffect, ParseRequestKeeps
  <2>6. CASE Head(In(c, p)).type = "accept"
    BY <1>2, <2>2, <2>6, ParseAcceptEffect, ParseAcceptKeeps
  <2>7. CASE Head(In(c, p)).type = "reject"
    BY <1>2, <2>2, <2>7, ParseRejectEffect, ParseRejectKeeps
  <2>8. CASE Head(In(c, p)).type = "cancel"
    BY <1>2, <2>2, <2>8, ParseCancelEffect, ParseCancelKeeps
  <2>9. CASE Head(In(c, p)).type = "ready"
    BY <1>2, <2>2, <2>9, ParseReadyEffect, ParseReadyKeeps
  <2> QED
    BY <2>4, <2>5, <2>6, <2>7, <2>8, <2>9
<1>3. CASE SeesEnd(p, c)
  BY <1>3, SeesEndEffect, SeesEndKeeps
<1> QED
  BY <1>1, <1>2, <1>3

\* Every step of a peer.
LEMMA CoreNext ==
    ASSUME TypeOK, TypeOK', Core, NEW p \in Peers, User(p) \/ Thread(p), mishaps' = {},
           ~Doomed(p), ~Doomed(p)'
    PROVE  Core'
<1>1. CASE User(p)
  BY <1>1, UserKeeps
<1>2. ASSUME NEW t \in BagToSet(todo[p]), Step(p, t)
      PROVE  Core'
  BY <1>2, DriverKeeps, HandlerKeeps DEF Step
<1>3. ASSUME NEW c \in DOMAIN links, Accept(p, c) \/ Parse(p, c) \/ SeesEnd(p, c)
      PROVE  Core'
  BY <1>3, LinkKeeps
<1>4. ASSUME NEW c \in BagToSet(readers[p]), ReaderStops(p, c)
      PROVE  Core'
  BY <1>4, ReaderStopsEffect, ReaderStopsKeeps
<1>5. \A c \in BagToSet(readers[p]) : ~ReaderTurns(p, c)
  <2> SUFFICES ASSUME NEW c \in BagToSet(readers[p]), ReaderTurns(p, c)
               PROVE  FALSE
    OBVIOUS
  <2>1. ReadInv(p)
    BY CoreIs DEF Local
  <2>2. c \in Reads(p) /\ reading[p] /\ c # sock[p]
    BY DEF ReaderTurns, Reads
  <2> QED
    BY <2>1, <2>2 DEF ReadInv
<1> QED
  BY <1>1, <1>2, <1>3, <1>4, <1>5 DEF Thread

\* A mishap is never forgotten.
LEMMA MishapsStay ==
    ASSUME NEW p \in Peers, User(p) \/ Thread(p)
    PROVE  mishaps \subseteq mishaps'
<1>1. CASE User(p)
  BY <1>1 DEF User, UserConnects, UserCancels, UserAnswers, UserDisconnects
<1>2. ASSUME NEW t \in BagToSet(todo[p]), Step(p, t)
      PROVE  mishaps \subseteq mishaps'
  BY <1>2 DEF Step, Dial, Exchange, ExchangeAborted, ExchangeBreaks, Refused, Connect, Unconnected,
     Establish, RecvMsg, Reset, Again, Send, SetStatus, PublishEngine, StartEngine, StartSenders,
     StopEngine, Noting
<1>3. ASSUME NEW c \in DOMAIN links, Accept(p, c) \/ Parse(p, c) \/ SeesEnd(p, c)
      PROVE  mishaps \subseteq mishaps'
  BY <1>3 DEF Accept, Parse, SeesEnd
<1>4. ASSUME NEW c, ReaderStops(p, c) \/ ReaderTurns(p, c)
      PROVE  mishaps \subseteq mishaps'
  BY <1>4 DEF ReaderStops, ReaderTurns
<1> QED
  BY <1>1, <1>2, <1>3, <1>4 DEF Thread

\* The invariant is inductive.
LEMMA SessionStep ==
    ASSUME TypeOK, TypeOK', SessionInv, [Next]_vars
    PROVE  SessionInv'
<1> SUFFICES ASSUME Undoomed'
             PROVE  Core'
  BY DEF SessionInv
<1>1. ASSUME NEW p \in Peers, User(p) \/ Thread(p)
      PROVE  Core'
  <2>1. mishaps' = {} /\ \A r \in Peers : ~Doomed(r)'
    BY DEF Undoomed
  <2>2. \A r \in Peers : ~Doomed(r)
    BY <1>1, <2>1, DoomedStays
  <2>3. mishaps = {}
    BY <1>1, <2>1, MishapsStay
  <2>4. Core
    BY <2>2, <2>3 DEF SessionInv, Undoomed
  <2> QED
    BY <1>1, <2>1, <2>2, <2>4, CoreNext
<1>2. CASE UNCHANGED vars
  <2>1. UNCHANGED <<status, candidate, sock, online, dialing, target, key, reading, readers, links, todo,
                    connected, ids, partner, engine, ui, asked, exchanges, requests, mishaps, early>>
    BY <1>2 DEF vars, driverVars, threadVars, stateVars, windowVars, bounds
  <2>2. \A r \in Peers : Untouched(r) /\ SameKey(r)
    BY <2>1 DEF Untouched, SameKey, Same, Doing, Jobs, Once, Reads
  <2>3. \A d \in DOMAIN links : Kept(d) /\ Unmoved(d) /\ Open(d)' = Open(d) /\ Taken(d)' = Taken(d)
    BY <2>1, LinksStay DEF TypeOK
  <2>4. LinksKept /\ DOMAIN links' = DOMAIN links
    BY <2>1, <2>3 DEF LinksKept
  <2>5. \A r \in Peers : Doomed(r)' <=> Doomed(r)
    <3> SUFFICES ASSUME NEW r \in Peers
                 PROVE  Doomed(r)' <=> Doomed(r)
      OBVIOUS
    <3>1. /\ ToDial(r)' <=> ToDial(r)
          /\ Resets(r)' <=> Resets(r)
          /\ Closes(r)' <=> Closes(r)
          /\ \A s, l : Runs(r, s, l)' <=> Runs(r, s, l)
      BY <2>2, JobsSame DEF Untouched
    <3> QED
      BY <2>1, <3>1 DEF Doomed, Busy
  <2>6. Core
    BY <2>1, <2>5 DEF SessionInv, Undoomed
  <2>7. \A r \in Peers : Local(r)' /\ TlsInv(r)'
    <3> SUFFICES ASSUME NEW r \in Peers
                 PROVE  Local(r)' /\ TlsInv(r)'
      OBVIOUS
    <3>1. Untouched(r) /\ SameKey(r) /\ Local(r) /\ TlsInv(r)
      BY <2>2, <2>6, CoreIs
    <3>2. \A y \in Peers : /\ Doing(y, "connect", "request", r)' <=> Doing(y, "connect", "request", r)
                          /\ key'[y] = key[y]
      BY <2>2 DEF Untouched, SameKey, Same
    <3> QED
      BY <2>3, <2>4, <3>1, <3>2, OthersLocal, TlsFrame
  <2>8. \A c \in DOMAIN links' : Whole(c)'
    <3> SUFFICES ASSUME NEW c \in DOMAIN links
                 PROVE  Whole(c)'
      BY <2>4
    <3>1. Whole(c) /\ From(c) \in Peers /\ To(c) \in Peers
      BY <2>6, CoreIs, LinkIs DEF TypeOK
    <3> QED
      BY <2>1, <2>2, <2>3, <2>4, <3>1, LinkFrame DEF Whole
  <2> QED
    BY <2>7, <2>8, CoreIs
<1> QED
  BY <1>1, <1>2 DEF Next

-----------------------------------------------------------------------------
(* What it gives                                                           *)

LEMMA SessionInit == Init => SessionInv
<1> SUFFICES ASSUME Init
             PROVE  Core
  BY DEF SessionInv
<1>1. DOMAIN links = {}
  BY DEF Init
<1>2. ASSUME NEW p \in Peers
      PROVE  Local(p) /\ TlsInv(p)
  <2>1. \A h, l, x : ~Doing(p, h, l, x)
    BY DEF Init, Doing, Jobs, EmptyBag, SetToBag, BagToSet
  <2>2. /\ ~Begun(p) /\ ~ToDial(p) /\ ~Agrees(p) /\ ~Starting(p) /\ ~Resets(p) /\ ~Closes(p) /\ ~Ended(p)
        /\ ~TakesBack(p) /\ ~Leaves(p)
        /\ \A h, l : ~Runs(p, h, l)
        /\ \A c : ~Adopts(p, c)
    BY <2>1 DEF Begun, Asks, ToDial, Agrees, Starting, Starts, Resets, TakesBack, Leaves, Closes, Ended, Runs, Adopts
  <2>3. /\ status[p] = "waiting" /\ sock[p] = Nobody /\ reading[p] = FALSE /\ connected[p] = FALSE
        /\ ui[p] = "idle" /\ asked[p] = FALSE /\ engine[p].listening = FALSE /\ engine[p].started = FALSE
        /\ Nobody # Fresh
    BY SessionAssumption DEF Init, Off
  <2>4. ~Uses(p) /\ ~Calls(p) /\ ~Takes(p)
    BY <1>1 DEF Uses, Calls, Takes
  <2>5. Once(p)
    BY DEF Init, Once, EmptyBag, SetToBag, BagToSet
  <2>6. SockInv(p) /\ ReadInv(p)
    BY <2>1, <2>2, <2>3, <2>4 DEF SockInv, ReadInv
  <2>7. AskInv(p) /\ PlaceInv(p)
    BY <1>1, <2>1, <2>2, <2>3, <2>4, <2>5 DEF AskInv, PlaceInv
  <2>8. ConnInv(p) /\ EngineInv(p) /\ WindowInv(p)
    BY <2>1, <2>2, <2>3, <2>4 DEF ConnInv, EngineInv, WindowInv
  <2>9. \A y \in Peers : ~Doing(y, "connect", "request", p)
    BY DEF Init, Doing, Jobs, EmptyBag, SetToBag, BagToSet
  <2>10. TlsInv(p)
    BY <1>1, <2>3, <2>9 DEF TlsInv
  <2> QED
    BY <2>6, <2>7, <2>8, <2>10 DEF Local
<1> QED
  BY <1>1, <1>2, CoreIs

\* Until something gets in the way of the sessions, what every peer has, what
\* its handlers are about to do and what is on the links fit together: the
\* invariant that NetworkController, TcpDriver and the events between them are
\* to keep.
THEOREM SessionInvAlways == Spec => [](TypeOK /\ SessionInv)
<1>1. Init => TypeOK /\ SessionInv
  BY InitTypes, SessionInit
<1>2. TypeOK /\ SessionInv /\ [Next]_vars => (TypeOK /\ SessionInv)'
  BY StepTypes, SessionStep
<1> QED
  BY <1>1, <1>2, PTL DEF Spec

\* Where nothing is left to do.
LEMMA SettledIs ==
    ASSUME Settled, Undisturbed, SessionInv
    PROVE  /\ Core
           /\ \A p \in Peers : /\ \A h, l, x : ~Doing(p, h, l, x)
                               /\ ~Begun(p) /\ ~ToDial(p) /\ ~Agrees(p) /\ ~Starting(p)
                               /\ ~Resets(p) /\ ~Closes(p)
                               /\ \A h, l : ~Runs(p, h, l)
<1>1. ASSUME NEW p \in Peers
      PROVE  /\ \A h, l, x : ~Doing(p, h, l, x)
             /\ ~Begun(p) /\ ~ToDial(p) /\ ~Agrees(p) /\ ~Starting(p)
             /\ ~Resets(p) /\ ~Closes(p)
             /\ \A h, l : ~Runs(p, h, l)
  <2>1. \A h, l, x : ~Doing(p, h, l, x)
    BY DEF Settled, Doing, Jobs, EmptyBag, SetToBag, BagToSet
  <2> QED
    BY <2>1 DEF Begun, Asks, ToDial, Agrees, Starting, Starts, Resets, TakesBack, Leaves, Closes, Runs
<1>2. Undoomed
  BY <1>1 DEF Undoomed, Undisturbed, Doomed
<1> QED
  BY <1>1, <1>2 DEF SessionInv

\* The link that a peer uses then is open to both ends and empty.
LEMMA SettledEnd ==
    ASSUME TypeOK, Settled, Undisturbed, SessionInv, NEW p \in Peers, Uses(p),
           NEW c \in DOMAIN links, c = sock[p]
    PROVE  /\ p \in Open(c) /\ Other(c, p) \in Open(c) /\ In(c, p) = << >>
           /\ p \in {From(c), To(c)}
           /\ sock[Other(c, p)] = c
<1>1. Local(p) /\ PeerFacts(p) /\ Whole(c)
  BY SettledIs, CoreIs, PeerIs
<1>2. /\ From(c) \in Peers /\ To(c) \in Peers /\ From(c) # To(c)
      /\ p \in {From(c), To(c)}
  BY <1>1, LinkIs DEF TypeOK, Local, SockInv
<1>3. p \in Open(c)
  BY <1>1, <1>2 DEF Whole, LinkInv
<1>4. reading[p] /\ c \in Reads(p)
  BY <1>1, SettledIs DEF Local, ReadInv
<1>5. In(c, p) = << >> /\ Other(c, p) \in Open(c)
  BY <1>3, <1>4 DEF Settled, Reads, Open, In
<1>6. sock[Other(c, p)] = c
  <2>1. Taken(c)
    <3> SUFFICES ASSUME ~Taken(c)
                 PROVE  FALSE
      OBVIOUS
    <3>1. TlsInv(To(c))
      BY <1>2, SettledIs, CoreIs
    <3>2. status[To(c)] = "tls"
      BY <3>1 DEF TlsInv
    <3> QED
      BY <1>2, <3>2 DEF Settled, To, Taken
  <2>2. Other(c, p) \in {From(c), To(c)}
    BY DEF Other, From, To
  <2> QED
    BY <1>1, <1>5, <2>1, <2>2 DEF Whole, LinkInv
<1> QED
  BY <1>2, <1>3, <1>5, <1>6

LEMMA SettledLink ==
    ASSUME TypeOK, Settled, Undisturbed, SessionInv, NEW p \in Peers, Uses(p),
           NEW c \in DOMAIN links, c = sock[p]
    PROVE  /\ From(c) \in Peers /\ To(c) \in Peers /\ From(c) # To(c)
           /\ Open(c) = {From(c), To(c)} /\ sock[From(c)] = c /\ sock[To(c)] = c
           /\ In(c, From(c)) = << >> /\ In(c, To(c)) = << >>
           /\ \/ p = From(c) /\ Other(c, p) = To(c)
              \/ p = To(c) /\ Other(c, p) = From(c)
           /\ Local(From(c)) /\ Local(To(c)) /\ Whole(c)
           /\ Calls(From(c)) /\ Takes(To(c))
<1>1. /\ p \in Open(c) /\ Other(c, p) \in Open(c) /\ In(c, p) = << >>
      /\ p \in {From(c), To(c)}
      /\ sock[Other(c, p)] = c
  BY SettledEnd
<1>2. /\ From(c) \in Peers /\ To(c) \in Peers /\ From(c) # To(c) /\ Open(c) \subseteq {From(c), To(c)}
  BY LinkIs DEF TypeOK
<1>3. \/ p = From(c) /\ Other(c, p) = To(c)
      \/ p = To(c) /\ Other(c, p) = From(c)
  BY <1>1, <1>2 DEF Other, From, To
<1>4. Other(c, p) \in Peers /\ Uses(Other(c, p))
  BY <1>1, <1>2, <1>3 DEF Uses
<1>5. In(c, Other(c, p)) = << >>
  BY <1>1, <1>4, SettledEnd
<1>6. sock[From(c)] = c /\ sock[To(c)] = c
  BY <1>1, <1>3
<1>7. Calls(From(c)) /\ Takes(To(c))
  BY <1>6 DEF Calls, Takes, Uses
<1>8. Local(From(c)) /\ Local(To(c)) /\ Whole(c)
  BY <1>2, SettledIs, CoreIs
<1> QED
  BY <1>1, <1>2, <1>3, <1>5, <1>6, <1>7, <1>8

\* What a settled link has come to.
LEMMA SettledStage ==
    ASSUME TypeOK, Settled, Undisturbed, SessionInv, NEW p \in Peers, Uses(p),
           NEW c \in DOMAIN links, c = sock[p]
    PROVE  /\ connected[From(c)] <=> connected[To(c)]
           /\ connected[From(c)] <=> ~asked[To(c)]
<1> DEFINE f == From(c)
           t == To(c)
<1>1. /\ f \in Peers /\ t \in Peers /\ f # t
      /\ Open(c) = {f, t} /\ sock[f] = c /\ sock[t] = c
      /\ In(c, f) = << >> /\ In(c, t) = << >>
      /\ Whole(c)
  BY SettledLink
<1>2. \A type : ~Holds(In(c, f), type) /\ ~Holds(In(c, t), type)
  BY <1>1, NoMessage
<1>3. /\ ~Begun(f) /\ ~Resets(f) /\ ~Resets(t)
      /\ \A h, l : ~Runs(f, h, l) /\ ~Runs(t, h, l)
  BY <1>1, SettledIs
<1>4. AbsentView(c, f, t)
  BY Views
<1> HIDE DEF f, t
<1>5. /\ AcceptHeld(c) <=> connected[f]
      /\ Agreeing(c) <=> connected[t]
      /\ Shown(c) <=> asked[t]
      /\ ~Unsent(c) /\ ~Underway(c) /\ ~Accepting(c) /\ ~AcceptSent(c)
  BY <1>1, <1>2, <1>3, <1>4 DEF AbsentView
<1>6. BothInv(c) /\ AnswerInv(c) /\ PhaseInv(c)
  BY <1>1 DEF Whole, EndInv
<1>7. AcceptHeld(c) <=> Agreeing(c)
  BY <1>1, <1>5, <1>6 DEF BothInv, f, t
<1>8. Shown(c) \/ Agreeing(c)
  BY <1>1, <1>2, <1>3, <1>5, <1>6 DEF AnswerInv, f, t
<1>9. Shown(c) => ~Agreeing(c)
  BY <1>6 DEF PhaseInv
<1> QED
  BY <1>5, <1>7, <1>8, <1>9 DEF f, t

\* When every handler is done, the peers agree: one is connected only with one
\* that is, over a link that both ends read, with ids counted from different
\* ends and the same key; and the window and the engine show it. (What the
\* accept, and the events that are published with it, have to bring about in two
\* programs.)
THEOREM AgreedAlways == Spec => []Agreed
<1>1. ASSUME TypeOK, SessionInv
      PROVE  Agreed
  <2> SUFFICES ASSUME Settled, Undisturbed, NEW p \in Peers
               PROVE  /\ connected[p] => Live(p) /\ connected[Other(sock[p], p)]
                                         /\ ids[p] # ids[Other(sock[p], p)]
                                         /\ key[p] = key[Other(sock[p], p)]
                      /\ engine[p].started <=> connected[p]
                      /\ ui[p] = "connected" <=> connected[p]
    BY DEF Agreed, AllAgree
  <2>1. /\ ~Agrees(p) /\ ~Starting(p) /\ ~Resets(p) /\ ~Closes(p)
        /\ \A h, l : ~Runs(p, h, l)
    BY <1>1, SettledIs
  <2>2. Local(p) /\ PeerFacts(p)
    BY <1>1, SettledIs, CoreIs, PeerIs
  <2>3. engine[p].started <=> connected[p]
    BY <2>1, <2>2 DEF Local, EngineInv, PeerFacts
  <2>4. ui[p] = "connected" <=> connected[p]
    BY <2>1, <2>2 DEF Local, WindowInv, PeerFacts
  <2>5. ASSUME connected[p]
        PROVE  /\ Live(p) /\ connected[Other(sock[p], p)]
               /\ ids[p] # ids[Other(sock[p], p)]
               /\ key[p] = key[Other(sock[p], p)]
    <3>1. Uses(p)
      BY <2>1, <2>2, <2>5 DEF Local, ConnInv
    <3>2. PICK c \in DOMAIN links : c = sock[p]
      BY <3>1 DEF Uses
    <3>3. /\ From(c) \in Peers /\ To(c) \in Peers /\ From(c) # To(c)
          /\ Open(c) = {From(c), To(c)} /\ sock[From(c)] = c /\ sock[To(c)] = c
          /\ \/ p = From(c) /\ Other(c, p) = To(c)
             \/ p = To(c) /\ Other(c, p) = From(c)
          /\ Local(From(c)) /\ Local(To(c)) /\ Whole(c)
          /\ Calls(From(c)) /\ Takes(To(c))
      BY <1>1, <3>1, <3>2, SettledLink
    <3>4. connected[From(c)] /\ connected[To(c)]
      BY <1>1, <2>5, <3>1, <3>2, <3>3, SettledStage
    <3>5. ids[From(c)] = "low" /\ ids[To(c)] = "high"
      BY <3>3, <3>4 DEF Local, EngineInv
    <3>6. key[From(c)] = key[To(c)]
      BY <3>3 DEF Whole, KeyInv
    <3>7. Live(p)
      BY <3>2, <3>3 DEF Live, IsLink, Open
    <3> QED
      BY <3>2, <3>3, <3>4, <3>5, <3>6, <3>7
  <2> QED
    BY <2>3, <2>4, <2>5
<1> QED
  BY <1>1, SessionInvAlways, PTL

\* A peer whose window is idle, and that is shown no request, waits for TLS
\* requests again, with no receiving thread left: every way that ResetConnection
\* is come by leads there.
THEOREM ListensAgainAlways == Spec => []ListensAgain
<1>1. ASSUME TypeOK, SessionInv
      PROVE  ListensAgain
  <2> SUFFICES ASSUME Settled, Undisturbed, NEW p \in Peers, ui[p] = "idle", ~asked[p]
               PROVE  status[p] = "waiting" /\ readers[p] = EmptyBag
    BY DEF ListensAgain
  <2>1. /\ ~Resets(p) /\ ~Agrees(p) /\ ~Closes(p)
        /\ \A h, l, x : \A y \in Peers : ~Doing(y, h, l, x)
        /\ \A h, l : ~Runs(p, h, l)
    BY <1>1, SettledIs
  <2>2. Local(p) /\ PeerFacts(p) /\ TlsInv(p)
    BY <1>1, SettledIs, CoreIs, PeerIs
  <2>3. ~Uses(p)
    <3> SUFFICES ASSUME Uses(p)
                 PROVE  FALSE
      OBVIOUS
    <3>1. PICK c \in DOMAIN links : c = sock[p]
      BY DEF Uses
    <3>2. ~connected[p]
      BY <2>1, <2>2 DEF Local, WindowInv
    <3>3. ~Calls(p)
      BY <2>1, <2>2 DEF Local, WindowInv
    <3>4. p = To(c)
      BY <1>1, <3>1, <3>3, SettledLink
    <3> QED
      BY <1>1, <2>2, <3>1, <3>2, <3>4, SettledStage
  <2>4. ~reading[p]
    BY <2>2, <2>3 DEF Local, ReadInv
  <2>5. readers[p] = EmptyBag
    BY <1>1, <2>4, NoBag DEF Settled, TypeOK, ReadersOK
  <2>6. status[p] # "tcp"
    BY <2>2, <2>3 DEF Local, SockInv, Takes
  <2>7. status[p] # "tls"
    <3> SUFFICES ASSUME status[p] = "tls"
                 PROVE  FALSE
      OBVIOUS
    <3>1. /\ candidate[p] \in Peers
          /\ \/ Doing(candidate[p], "connect", "request", p)
             \/ \E c \in DOMAIN links : To(c) = p /\ ~Taken(c)
      BY <2>2, <2>3 DEF TlsInv
    <3> QED
      BY <2>1, <3>1 DEF Settled, To, Taken
  <2> QED
    BY <2>2, <2>5, <2>6, <2>7 DEF PeerFacts
<1> QED
  BY <1>1, SessionInvAlways, PTL

\* A user who waits for an answer has asked a peer that shows the request, and
\* that would answer it to this user.
THEOREM AnswerableAlways == Spec => []Answerable
<1>1. ASSUME TypeOK, SessionInv
      PROVE  Answerable
  <2> SUFFICES ASSUME Settled, Undisturbed, NEW p \in Peers, ui[p] = "asking"
               PROVE  asked[partner[p]] /\ partner[partner[p]] = p
    BY DEF Answerable
  <2>1. ~ToDial(p) /\ ~Begun(p) /\ ~Agrees(p)
    BY <1>1, SettledIs
  <2>2. Local(p) /\ PeerFacts(p)
    BY <1>1, SettledIs, CoreIs, PeerIs
  <2>3. Calls(p)
    BY <2>1, <2>2 DEF Local, WindowInv
  <2>4. PICK c \in DOMAIN links : c = sock[p]
    BY <2>3 DEF Calls, Uses
  <2>5. p = From(c) /\ Uses(p)
    BY <2>3, <2>4 DEF Calls
  <2>6. /\ To(c) \in Peers /\ Takes(To(c)) /\ Local(To(c)) /\ sock[To(c)] = c
    BY <1>1, <2>4, <2>5, SettledLink
  <2>7. partner[p] = To(c)
    BY <2>1, <2>2, <2>3, <2>4 DEF Local, EngineInv
  <2>8. ~connected[p]
    <3>1. ~Closes(p) /\ \A h, l : ~Runs(p, h, l)
      BY <1>1, SettledIs
    <3> QED
      BY <2>2, <3>1 DEF Local, WindowInv
  <2>9. asked[To(c)]
    BY <1>1, <2>4, <2>5, <2>8, SettledStage
  <2>10. partner[To(c)] = p
    BY <2>5, <2>6, <2>9 DEF Local, EngineInv
  <2> QED
    BY <2>7, <2>9, <2>10
<1> QED
  BY <1>1, SessionInvAlways, PTL

\* Once a session is settled both ends can send files: the ready message of each
\* reached an engine that was there, and initFileSenders has run.
THEOREM CanSendAlways == Spec => []CanSend
<1>1. ASSUME TypeOK, SessionInv
      PROVE  CanSend
  <2> SUFFICES ASSUME Settled, Undisturbed, early = {}, NEW p \in Peers, connected[p]
               PROVE  engine[p].senders
    BY DEF CanSend
  <2>1. ~Closes(p) /\ \A h, l : ~Runs(p, h, l)
    BY <1>1, SettledIs
  <2>2. Local(p)
    BY <1>1, SettledIs, CoreIs
  <2>3. Uses(p)
    BY <2>1, <2>2 DEF Local, ConnInv
  <2>4. PICK c \in DOMAIN links : c = sock[p]
    BY <2>3 DEF Uses
  <2>5. /\ From(c) \in Peers /\ To(c) \in Peers /\ sock[From(c)] = c /\ sock[To(c)] = c
        /\ In(c, From(c)) = << >> /\ In(c, To(c)) = << >>
        /\ \/ p = From(c) /\ Other(c, p) = To(c)
           \/ p = To(c) /\ Other(c, p) = From(c)
        /\ Local(Other(c, p)) /\ Whole(c)
    BY <1>1, <2>3, <2>4, SettledLink
  <2>6. connected[Other(c, p)]
    BY <1>1, <2>3, <2>4, <2>5, SettledStage
  <2>7. /\ \A h, l : ~Runs(Other(c, p), h, l)
        /\ ~Starting(Other(c, p))
    BY <1>1, <2>5, SettledIs
  <2>8. engine[Other(c, p)].listening
    BY <2>5, <2>6, <2>7 DEF Local, EngineInv
  <2>9. ~Holds(In(c, p), "ready")
    BY <2>5, NoMessage
  <2> QED
    BY <2>1, <2>5, <2>7, <2>8, <2>9 DEF Whole, ReadyInv
<1> QED
  BY <1>1, SessionInvAlways, PTL
=============================================================================
