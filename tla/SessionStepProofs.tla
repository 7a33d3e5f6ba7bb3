------------------------- MODULE SessionStepProofs --------------------------
(***************************************************************************)
(* What the steps of a peer do to what it has: its socket, its receiving   *)
(* threads, its engine and its window, and the handlers that it still has  *)
(* to run.                                                                 *)
(*                                                                         *)
(* Each action is seen through what SessionProofs shows that it does. A    *)
(* lemma goes from the names of the peer's jobs before the step to those   *)
(* after it, and then through the parts of the invariant one by one.       *)
(***************************************************************************)
EXTENDS SessionProofs

-----------------------------------------------------------------------------
(* A step of p keeps what p has: XLocal is about the step that XDoes       *)
(* describes.                                                              *)

LEMMA UserConnectsLocal ==
    ASSUME TypeOK, TypeOK', NEW p \in Peers, NEW q \in Peers, Local(p), TlsInv(p), OnLink(p),
           UserConnectsDoes(p, q), mishaps' = {}, ~Doomed(p), ~Doomed(p)'
    PROVE  Local(p)' /\ TlsInv(p)'
<1> DEFINE StaysRun(a, b) == Runs(p, a, b)' <=> Runs(p, a, b)
           StaysDoing(a, b) == \A y : Doing(p, a, b, y)' <=> Doing(p, a, b, y)
<1>1. /\ StaysRun("accept", "statusOn")
      /\ StaysRun("initHigh", "statusOn")
      /\ StaysRun("initLow", "statusOn")
      /\ StaysRun("statusOn", "statusOn")
      /\ StaysRun("cancel", "reset")
      /\ StaysRun("reset", "reset")
      /\ StaysRun("reject", "statusOff")
      /\ StaysRun("reset", "statusOff")
      /\ StaysRun("statusOff", "statusOff")
      /\ StaysRun("reset", "close")
      /\ StaysRun("close", "close")
      /\ StaysRun("reset", "unconnected")
      /\ StaysRun("lost", "unconnected")
      /\ StaysRun("unconnected", "unconnected")
      /\ StaysRun("reset", "again")
      /\ StaysRun("lost", "again")
      /\ StaysRun("again", "again")
      /\ StaysRun("stop", "stop")
      /\ StaysRun("ready", "ready")
      /\ StaysRun("initFileSenders", "initFileSenders")
      /\ \A y : Doing(p, "dial", "request", y)' => Doing(p, "dial", "request", y) \/ y = q
      /\ \A y : Doing(p, "dial", "request", y) => Doing(p, "dial", "request", y)'
      /\ Doing(p, "dial", "request", q)'
      /\ StaysDoing("exchange", "request")
      /\ StaysDoing("connect", "request")
      /\ StaysDoing("recvMsg", "request")
      /\ StaysDoing("request", "request")
      /\ StaysDoing("recvMsg", "established")
      /\ StaysDoing("established", "established")
      /\ StaysDoing("listen", "started")
      /\ StaysDoing("started", "started")
  BY DEF UserConnectsDoes, Gets, Runs
<1>2. /\ Begun(p)' <=> Begun(p)
      /\ \A y : Asks(p, y)' <=> Asks(p, y)
      /\ \A y : Adopts(p, y)' <=> Adopts(p, y)
      /\ Starting(p)' <=> Starting(p)
      /\ \A y : Starts(p, y)' <=> Starts(p, y)
      /\ Agrees(p)' <=> Agrees(p)
      /\ TakesBack(p)' <=> TakesBack(p)
      /\ Leaves(p)' <=> Leaves(p)
      /\ Closes(p)' <=> Closes(p)
      /\ Resets(p)' <=> Resets(p)
      /\ Ended(p)' <=> Ended(p)
  BY <1>1 DEF Adopts, Agrees, Asks, Begun, Closes, Ended, Leaves, Resets, Starting, Starts, TakesBack
<1>3. LinksKept /\ DOMAIN links' = DOMAIN links
  BY LinksStay DEF UserConnectsDoes, TypeOK, LinksKept
<1>4. /\ Uses(p)' <=> Uses(p)
      /\ Calls(p)' <=> Calls(p)
      /\ Takes(p)' <=> Takes(p)
      /\ Uses(p) => /\ From(sock[p])' = From(sock[p]) /\ To(sock[p])' = To(sock[p])
                    /\ Other(sock[p], p)' = Other(sock[p], p)
  BY <1>3, SocketSame DEF UserConnectsDoes
<1>7. PeerFacts(p) /\ JobRules(p) /\ JobRules(p)' /\ Says(p)
  BY PeerIs, JobsAre, EndSays
<1>8. /\ status'[p] \in {"waiting", "tls", "tcp"} /\ sock'[p] \in DOMAIN links' \cup {Fresh, Nobody}
      /\ Fresh # Nobody /\ Fresh \notin DOMAIN links' /\ Nobody \notin DOMAIN links'
      /\ DOMAIN links' \subseteq Nat
      /\ engine'[p].listening \in BOOLEAN /\ engine'[p].started \in BOOLEAN /\ engine'[p].senders \in BOOLEAN
  BY PeerIsNext
<1>9. /\ Once(p) => Once(p)'
      /\ ui[p] = "idle"
      /\ p # q
      /\ UNCHANGED <<status[p], sock[p], online[p], dialing[p], target[p], reading[p], connected[p], ids[p], partner[p], engine[p], asked[p], key[p], candidate[p], Reads(p)>>
      /\ ui'[p] = "asking"
  BY DEF UserConnectsDoes
<1>11. /\ ToDial(p) => /\ sock[p] = Nobody /\ status[p] = "waiting"
                      /\ ~Resets(p) /\ ~Closes(p) /\ ~Runs(p, "stop", "stop")
       /\ ToDial(p)' => /\ sock'[p] = Nobody /\ status'[p] = "waiting"
                       /\ ~Resets(p)' /\ ~Closes(p)' /\ ~Runs(p, "stop", "stop")'
  BY DEF Doomed, Busy
<1>20. SockInv(p)'
  BY <1>1, <1>2, <1>3, <1>4, <1>7, <1>8, <1>9, <1>11 DEF PeerFacts, JobRules, Says, Local, SockInv, ToDial
<1>21. ReadInv(p)'
  BY <1>1, <1>2, <1>3, <1>4, <1>7, <1>8, <1>9, <1>11 DEF PeerFacts, JobRules, Says, Local, ReadInv, ToDial
<1>22. AskInv(p)'
  BY <1>1, <1>2, <1>3, <1>4, <1>7, <1>8, <1>9, <1>11 DEF PeerFacts, JobRules, Says, Local, AskInv, ToDial
<1>23. PlaceInv(p)'
  BY <1>1, <1>2, <1>3, <1>4, <1>7, <1>8, <1>9, <1>11 DEF PeerFacts, JobRules, Says, Local, PlaceInv, ToDial
<1>24. ConnInv(p)'
  BY <1>1, <1>2, <1>3, <1>4, <1>7, <1>8, <1>9, <1>11 DEF PeerFacts, JobRules, Says, Local, ConnInv, ToDial
<1>25. EngineInv(p)'
  BY <1>1, <1>2, <1>3, <1>4, <1>7, <1>8, <1>9, <1>11 DEF PeerFacts, JobRules, Says, Local, EngineInv, ToDial
<1>26. WindowInv(p)'
  BY <1>1, <1>2, <1>3, <1>4, <1>7, <1>8, <1>9, <1>11 DEF PeerFacts, JobRules, Says, Local, WindowInv, ToDial
<1>27. TlsInv(p)'
  <2>1. \A r \in Peers : r # p => Same(r) /\ key'[r] = key[r]
    BY DEF UserConnectsDoes, Untouched, SameKey
  <2>2. /\ \A d \in DOMAIN links : To(d) = p => Taken(d)' = Taken(d)
        /\ \A d \in DOMAIN links' : To(d)' = p => d \in DOMAIN links
    BY <1>3, LinksStay DEF UserConnectsDoes, TypeOK
  <2>3. status[p] = "tls" /\ Uses(p) /\ Adopts(p, sock[p]) => Adopts(p, sock[p])'
    BY <1>2, <1>9
  <2>4. status[p] = "tls" /\ ~Uses(p) /\ sock[p] = Nobody /\ ~Begun(p) /\ ~Resets(p) /\ ui[p] = "idle" =>
           ~Begun(p)' /\ ~Resets(p)' /\ ui'[p] = "idle"
    BY <1>1, <1>2, <1>3, <1>4, <1>7, <1>8, <1>9, <1>11 DEF PeerFacts, JobRules, Says, Local, PlaceInv, ToDial
  <2> QED
    BY <1>3, <1>9, <1>22, <2>1, <2>2, <2>3, <2>4, TlsSelf DEF Local
<1> QED
  BY <1>20, <1>21, <1>22, <1>23, <1>24, <1>25, <1>26, <1>27 DEF Local

LEMMA UserCancelsLocal ==
    ASSUME TypeOK, TypeOK', NEW p \in Peers, Local(p), TlsInv(p), OnLink(p),
           UserCancelsDoes(p), mishaps' = {}, ~Doomed(p), ~Doomed(p)'
    PROVE  Local(p)' /\ TlsInv(p)'
<1> DEFINE StaysRun(a, b) == Runs(p, a, b)' <=> Runs(p, a, b)
           StaysDoing(a, b) == \A y : Doing(p, a, b, y)' <=> Doing(p, a, b, y)
<1>1. /\ StaysRun("accept", "statusOn")
      /\ StaysRun("initHigh", "statusOn")
      /\ StaysRun("initLow", "statusOn")
      /\ StaysRun("statusOn", "statusOn")
      /\ Runs(p, "cancel", "reset")'
      /\ StaysRun("reset", "reset")
      /\ StaysRun("reject", "statusOff")
      /\ StaysRun("reset", "statusOff")
      /\ StaysRun("statusOff", "statusOff")
      /\ StaysRun("reset", "close")
      /\ StaysRun("close", "close")
      /\ StaysRun("reset", "unconnected")
      /\ StaysRun("lost", "unconnected")
      /\ StaysRun("unconnected", "unconnected")
      /\ StaysRun("reset", "again")
      /\ StaysRun("lost", "again")
      /\ StaysRun("again", "again")
      /\ StaysRun("stop", "stop")
      /\ StaysRun("ready", "ready")
      /\ StaysRun("initFileSenders", "initFileSenders")
      /\ StaysDoing("dial", "request")
      /\ StaysDoing("exchange", "request")
      /\ StaysDoing("connect", "request")
      /\ StaysDoing("recvMsg", "request")
      /\ StaysDoing("request", "request")
      /\ StaysDoing("recvMsg", "established")
      /\ StaysDoing("established", "established")
      /\ StaysDoing("listen", "started")
      /\ StaysDoing("started", "started")
  BY DEF UserCancelsDoes, Gets, Runs
<1>2. /\ Begun(p)' <=> Begun(p)
      /\ \A y : Asks(p, y)' <=> Asks(p, y)
      /\ ToDial(p)' <=> ToDial(p)
      /\ \A y : Adopts(p, y)' <=> Adopts(p, y)
      /\ Starting(p)' <=> Starting(p)
      /\ \A y : Starts(p, y)' <=> Starts(p, y)
      /\ Agrees(p)' <=> Agrees(p)
      /\ Leaves(p)' <=> Leaves(p)
      /\ Closes(p)' <=> Closes(p)
      /\ Ended(p)' <=> Ended(p)
  BY <1>1 DEF Adopts, Agrees, Asks, Begun, Closes, Ended, Leaves, Starting, Starts, ToDial
<1>3. LinksKept /\ DOMAIN links' = DOMAIN links
  BY LinksStay DEF UserCancelsDoes, TypeOK, LinksKept
<1>4. /\ Uses(p)' <=> Uses(p)
      /\ Calls(p)' <=> Calls(p)
      /\ Takes(p)' <=> Takes(p)
      /\ Uses(p) => /\ From(sock[p])' = From(sock[p]) /\ To(sock[p])' = To(sock[p])
                    /\ Other(sock[p], p)' = Other(sock[p], p)
  BY <1>3, SocketSame DEF UserCancelsDoes
<1>7. PeerFacts(p) /\ JobRules(p) /\ JobRules(p)' /\ Says(p)
  BY PeerIs, JobsAre, EndSays
<1>8. /\ status'[p] \in {"waiting", "tls", "tcp"} /\ sock'[p] \in DOMAIN links' \cup {Fresh, Nobody}
      /\ Fresh # Nobody /\ Fresh \notin DOMAIN links' /\ Nobody \notin DOMAIN links'
      /\ DOMAIN links' \subseteq Nat
      /\ engine'[p].listening \in BOOLEAN /\ engine'[p].started \in BOOLEAN /\ engine'[p].senders \in BOOLEAN
  BY PeerIsNext
<1>9. /\ Once(p) => Once(p)'
      /\ ui[p] = "asking"
      /\ UNCHANGED <<status[p], sock[p], online[p], dialing[p], target[p], reading[p], connected[p], ids[p], partner[p], engine[p], asked[p], key[p], candidate[p], Reads(p)>>
      /\ ui'[p] = "idle"
  BY DEF UserCancelsDoes
<1>11. /\ ToDial(p) => /\ sock[p] = Nobody /\ status[p] = "waiting"
                      /\ ~Resets(p) /\ ~Closes(p) /\ ~Runs(p, "stop", "stop")
       /\ ToDial(p)' => /\ sock'[p] = Nobody /\ status'[p] = "waiting"
                       /\ ~Resets(p)' /\ ~Closes(p)' /\ ~Runs(p, "stop", "stop")'
  BY DEF Doomed, Busy
<1>20. SockInv(p)'
  BY <1>1, <1>2, <1>3, <1>4, <1>7, <1>8, <1>9, <1>11 DEF PeerFacts, JobRules, Says, Local, SockInv, Leaves, Resets, TakesBack
<1>21. ReadInv(p)'
  BY <1>1, <1>2, <1>3, <1>4, <1>7, <1>8, <1>9, <1>11 DEF PeerFacts, JobRules, Says, Local, ReadInv, Leaves, Resets, TakesBack
<1>22. AskInv(p)'
  BY <1>1, <1>2, <1>3, <1>4, <1>7, <1>8, <1>9, <1>11 DEF PeerFacts, JobRules, Says, Local, AskInv, Leaves, Resets, TakesBack
<1>23. PlaceInv(p)'
  BY <1>1, <1>2, <1>3, <1>4, <1>7, <1>8, <1>9, <1>11 DEF PeerFacts, JobRules, Says, Local, PlaceInv, Leaves, Resets, TakesBack
<1>24. ConnInv(p)'
  BY <1>1, <1>2, <1>3, <1>4, <1>7, <1>8, <1>9, <1>11 DEF PeerFacts, JobRules, Says, Local, ConnInv, Leaves, Resets, TakesBack
<1>25. EngineInv(p)'
  BY <1>1, <1>2, <1>3, <1>4, <1>7, <1>8, <1>9, <1>11 DEF PeerFacts, JobRules, Says, Local, EngineInv, Leaves, Resets, TakesBack
<1>26. WindowInv(p)'
  BY <1>1, <1>2, <1>3, <1>4, <1>7, <1>8, <1>9, <1>11 DEF PeerFacts, JobRules, Says, Local, WindowInv, Leaves, Resets, TakesBack
<1>27. TlsInv(p)'
  <2>1. \A r \in Peers : r # p => Same(r) /\ key'[r] = key[r]
    BY DEF UserCancelsDoes, Untouched, SameKey
  <2>2. /\ \A d \in DOMAIN links : To(d) = p => Taken(d)' = Taken(d)
        /\ \A d \in DOMAIN links' : To(d)' = p => d \in DOMAIN links
    BY <1>3, LinksStay DEF UserCancelsDoes, TypeOK
  <2>3. status[p] = "tls" /\ Uses(p) /\ Adopts(p, sock[p]) => Adopts(p, sock[p])'
    BY <1>2, <1>9
  <2>4. status[p] = "tls" /\ ~Uses(p) /\ sock[p] = Nobody /\ ~Begun(p) /\ ~Resets(p) /\ ui[p] = "idle" =>
           ~Begun(p)' /\ ~Resets(p)' /\ ui'[p] = "idle"
    BY <1>1, <1>2, <1>3, <1>4, <1>7, <1>8, <1>9, <1>11 DEF PeerFacts, JobRules, Says, Local, PlaceInv, Leaves, Resets, TakesBack
  <2> QED
    BY <1>3, <1>9, <1>22, <2>1, <2>2, <2>3, <2>4, TlsSelf DEF Local
<1> QED
  BY <1>20, <1>21, <1>22, <1>23, <1>24, <1>25, <1>26, <1>27 DEF Local

LEMMA UserAcceptsLocal ==
    ASSUME TypeOK, TypeOK', NEW p \in Peers, Local(p), TlsInv(p), OnLink(p),
           UserAcceptsDoes(p), mishaps' = {}, ~Doomed(p), ~Doomed(p)'
    PROVE  Local(p)' /\ TlsInv(p)'
<1> DEFINE StaysRun(a, b) == Runs(p, a, b)' <=> Runs(p, a, b)
           StaysDoing(a, b) == \A y : Doing(p, a, b, y)' <=> Doing(p, a, b, y)
<1>1. /\ Runs(p, "accept", "statusOn")'
      /\ StaysRun("initHigh", "statusOn")
      /\ StaysRun("initLow", "statusOn")
      /\ StaysRun("statusOn", "statusOn")
      /\ StaysRun("cancel", "reset")
      /\ StaysRun("reset", "reset")
      /\ StaysRun("reject", "statusOff")
      /\ StaysRun("reset", "statusOff")
      /\ StaysRun("statusOff", "statusOff")
      /\ StaysRun("reset", "close")
      /\ StaysRun("close", "close")
      /\ StaysRun("reset", "unconnected")
      /\ StaysRun("lost", "unconnected")
      /\ StaysRun("unconnected", "unconnected")
      /\ StaysRun("reset", "again")
      /\ StaysRun("lost", "again")
      /\ StaysRun("again", "again")
      /\ StaysRun("stop", "stop")
      /\ StaysRun("ready", "ready")
      /\ StaysRun("initFileSenders", "initFileSenders")
      /\ StaysDoing("dial", "request")
      /\ StaysDoing("exchange", "request")
      /\ StaysDoing("connect", "request")
      /\ StaysDoing("recvMsg", "request")
      /\ StaysDoing("request", "request")
      /\ StaysDoing("recvMsg", "established")
      /\ StaysDoing("established", "established")
      /\ StaysDoing("listen", "started")
      /\ StaysDoing("started", "started")
  BY DEF UserAcceptsDoes, Gets, Runs
<1>2. /\ Begun(p)' <=> Begun(p)
      /\ \A y : Asks(p, y)' <=> Asks(p, y)
      /\ ToDial(p)' <=> ToDial(p)
      /\ \A y : Adopts(p, y)' <=> Adopts(p, y)
      /\ Starting(p)' <=> Starting(p)
      /\ \A y : Starts(p, y)' <=> Starts(p, y)
      /\ TakesBack(p)' <=> TakesBack(p)
      /\ Leaves(p)' <=> Leaves(p)
      /\ Closes(p)' <=> Closes(p)
      /\ Resets(p)' <=> Resets(p)
      /\ Ended(p)' <=> Ended(p)
  BY <1>1 DEF Adopts, Asks, Begun, Closes, Ended, Leaves, Resets, Starting, Starts, TakesBack, ToDial
<1>3. LinksKept /\ DOMAIN links' = DOMAIN links
  BY LinksStay DEF UserAcceptsDoes, TypeOK, LinksKept
<1>4. /\ Uses(p)' <=> Uses(p)
      /\ Calls(p)' <=> Calls(p)
      /\ Takes(p)' <=> Takes(p)
      /\ Uses(p) => /\ From(sock[p])' = From(sock[p]) /\ To(sock[p])' = To(sock[p])
                    /\ Other(sock[p], p)' = Other(sock[p], p)
  BY <1>3, SocketSame DEF UserAcceptsDoes
<1>7. PeerFacts(p) /\ JobRules(p) /\ JobRules(p)' /\ Says(p)
  BY PeerIs, JobsAre, EndSays
<1>8. /\ status'[p] \in {"waiting", "tls", "tcp"} /\ sock'[p] \in DOMAIN links' \cup {Fresh, Nobody}
      /\ Fresh # Nobody /\ Fresh \notin DOMAIN links' /\ Nobody \notin DOMAIN links'
      /\ DOMAIN links' \subseteq Nat
      /\ engine'[p].listening \in BOOLEAN /\ engine'[p].started \in BOOLEAN /\ engine'[p].senders \in BOOLEAN
  BY PeerIsNext
<1>9. /\ Once(p) /\ ~Doing(p, "accept", "statusOn", Nobody) => Once(p)'
      /\ asked[p]
      /\ UNCHANGED <<status[p], sock[p], online[p], dialing[p], target[p], reading[p], connected[p], ids[p], partner[p], engine[p], key[p], candidate[p], Reads(p)>>
      /\ asked'[p] = FALSE
      /\ ui'[p] = "connected"
  BY DEF UserAcceptsDoes
<1>11. /\ ToDial(p) => /\ sock[p] = Nobody /\ status[p] = "waiting"
                      /\ ~Resets(p) /\ ~Closes(p) /\ ~Runs(p, "stop", "stop")
       /\ ToDial(p)' => /\ sock'[p] = Nobody /\ status'[p] = "waiting"
                       /\ ~Resets(p)' /\ ~Closes(p)' /\ ~Runs(p, "stop", "stop")'
  BY DEF Doomed, Busy
<1>10. /\ Once(p)'
  BY <1>7, <1>9 DEF Runs, Says, Local, AskInv
<1>20. SockInv(p)'
  BY <1>1, <1>2, <1>3, <1>4, <1>7, <1>8, <1>9, <1>11, <1>10 DEF PeerFacts, JobRules, Says, Local, SockInv, Agrees
<1>21. ReadInv(p)'
  BY <1>1, <1>2, <1>3, <1>4, <1>7, <1>8, <1>9, <1>11, <1>10 DEF PeerFacts, JobRules, Says, Local, ReadInv, Agrees
<1>22. AskInv(p)'
  BY <1>1, <1>2, <1>3, <1>4, <1>7, <1>8, <1>9, <1>11, <1>10 DEF PeerFacts, JobRules, Says, Local, AskInv, Agrees
<1>23. PlaceInv(p)'
  BY <1>1, <1>2, <1>3, <1>4, <1>7, <1>8, <1>9, <1>11, <1>10 DEF PeerFacts, JobRules, Says, Local, PlaceInv, Agrees
<1>24. ConnInv(p)'
  BY <1>1, <1>2, <1>3, <1>4, <1>7, <1>8, <1>9, <1>11, <1>10 DEF PeerFacts, JobRules, Says, Local, ConnInv, Agrees
<1>25. EngineInv(p)'
  BY <1>1, <1>2, <1>3, <1>4, <1>7, <1>8, <1>9, <1>11, <1>10 DEF PeerFacts, JobRules, Says, Local, EngineInv, Agrees
<1>26. WindowInv(p)'
  BY <1>1, <1>2, <1>3, <1>4, <1>7, <1>8, <1>9, <1>11, <1>10 DEF PeerFacts, JobRules, Says, Local, SockInv, ReadInv, AskInv, PlaceInv, ConnInv, EngineInv, WindowInv, Agrees
<1>27. TlsInv(p)'
  <2>1. \A r \in Peers : r # p => Same(r) /\ key'[r] = key[r]
    BY DEF UserAcceptsDoes, Untouched, SameKey
  <2>2. /\ \A d \in DOMAIN links : To(d) = p => Taken(d)' = Taken(d)
        /\ \A d \in DOMAIN links' : To(d)' = p => d \in DOMAIN links
    BY <1>3, LinksStay DEF UserAcceptsDoes, TypeOK
  <2>3. status[p] = "tls" /\ Uses(p) /\ Adopts(p, sock[p]) => Adopts(p, sock[p])'
    BY <1>2, <1>9
  <2>4. status[p] = "tls" /\ ~Uses(p) /\ sock[p] = Nobody /\ ~Begun(p) /\ ~Resets(p) /\ ui[p] = "idle" =>
           ~Begun(p)' /\ ~Resets(p)' /\ ui'[p] = "idle"
    BY <1>1, <1>2, <1>3, <1>4, <1>7, <1>8, <1>9, <1>11, <1>10 DEF PeerFacts, JobRules, Says, Local, PlaceInv, Agrees
  <2> QED
    BY <1>3, <1>9, <1>22, <2>1, <2>2, <2>3, <2>4, TlsSelf DEF Local
<1> QED
  BY <1>20, <1>21, <1>22, <1>23, <1>24, <1>25, <1>26, <1>27 DEF Local

LEMMA UserRejectsLocal ==
    ASSUME TypeOK, TypeOK', NEW p \in Peers, Local(p), TlsInv(p), OnLink(p),
           UserRejectsDoes(p), mishaps' = {}, ~Doomed(p), ~Doomed(p)'
    PROVE  Local(p)' /\ TlsInv(p)'
<1> DEFINE StaysRun(a, b) == Runs(p, a, b)' <=> Runs(p, a, b)
           StaysDoing(a, b) == \A y : Doing(p, a, b, y)' <=> Doing(p, a, b, y)
<1>1. /\ StaysRun("accept", "statusOn")
      /\ StaysRun("initHigh", "statusOn")
      /\ StaysRun("initLow", "statusOn")
      /\ StaysRun("statusOn", "statusOn")
      /\ StaysRun("cancel", "reset")
      /\ StaysRun("reset", "reset")
      /\ Runs(p, "reject", "statusOff")'
      /\ StaysRun("reset", "statusOff")
      /\ StaysRun("statusOff", "statusOff")
      /\ StaysRun("reset", "close")
      /\ StaysRun("close", "close")
      /\ StaysRun("reset", "unconnected")
      /\ StaysRun("lost", "unconnected")
      /\ StaysRun("unconnected", "unconnected")
      /\ StaysRun("reset", "again")
      /\ StaysRun("lost", "again")
      /\ StaysRun("again", "again")
      /\ StaysRun("stop", "stop")
      /\ StaysRun("ready", "ready")
      /\ StaysRun("initFileSenders", "initFileSenders")
      /\ StaysDoing("dial", "request")
      /\ StaysDoing("exchange", "request")
      /\ StaysDoing("connect", "request")
      /\ StaysDoing("recvMsg", "request")
      /\ StaysDoing("request", "request")
      /\ StaysDoing("recvMsg", "established")
      /\ StaysDoing("established", "established")
      /\ StaysDoing("listen", "started")
      /\ StaysDoing("started", "started")
  BY DEF UserRejectsDoes, Gets, Runs
<1>2. /\ Begun(p)' <=> Begun(p)
      /\ \A y : Asks(p, y)' <=> Asks(p, y)
      /\ ToDial(p)' <=> ToDial(p)
      /\ \A y : Adopts(p, y)' <=> Adopts(p, y)
      /\ Starting(p)' <=> Starting(p)
      /\ \A y : Starts(p, y)' <=> Starts(p, y)
      /\ Agrees(p)' <=> Agrees(p)
      /\ TakesBack(p)' <=> TakesBack(p)
      /\ Closes(p)' <=> Closes(p)
      /\ Ended(p)' <=> Ended(p)
  BY <1>1 DEF Adopts, Agrees, Asks, Begun, Closes, Ended, Starting, Starts, TakesBack, ToDial
<1>3. LinksKept /\ DOMAIN links' = DOMAIN links
  BY LinksStay DEF UserRejectsDoes, TypeOK, LinksKept
<1>4. /\ Uses(p)' <=> Uses(p)
      /\ Calls(p)' <=> Calls(p)
      /\ Takes(p)' <=> Takes(p)
      /\ Uses(p) => /\ From(sock[p])' = From(sock[p]) /\ To(sock[p])' = To(sock[p])
                    /\ Other(sock[p], p)' = Other(sock[p], p)
  BY <1>3, SocketSame DEF UserRejectsDoes
<1>7. PeerFacts(p) /\ JobRules(p) /\ JobRules(p)' /\ Says(p)
  BY PeerIs, JobsAre, EndSays
<1>8. /\ status'[p] \in {"waiting", "tls", "tcp"} /\ sock'[p] \in DOMAIN links' \cup {Fresh, Nobody}
      /\ Fresh # Nobody /\ Fresh \notin DOMAIN links' /\ Nobody \notin DOMAIN links'
      /\ DOMAIN links' \subseteq Nat
      /\ engine'[p].listening \in BOOLEAN /\ engine'[p].started \in BOOLEAN /\ engine'[p].senders \in BOOLEAN
  BY PeerIsNext
<1>9. /\ Once(p) /\ ~Doing(p, "reject", "statusOff", Nobody) => Once(p)'
      /\ asked[p]
      /\ UNCHANGED <<status[p], sock[p], online[p], dialing[p], target[p], reading[p], connected[p], ids[p], partner[p], engine[p], ui[p], key[p], candidate[p], Reads(p)>>
      /\ asked'[p] = FALSE
  BY DEF UserRejectsDoes
<1>11. /\ ToDial(p) => /\ sock[p] = Nobody /\ status[p] = "waiting"
                      /\ ~Resets(p) /\ ~Closes(p) /\ ~Runs(p, "stop", "stop")
       /\ ToDial(p)' => /\ sock'[p] = Nobody /\ status'[p] = "waiting"
                       /\ ~Resets(p)' /\ ~Closes(p)' /\ ~Runs(p, "stop", "stop")'
  BY DEF Doomed, Busy
<1>10. /\ Once(p)'
  BY <1>7, <1>9 DEF Runs, Says, Local, AskInv
<1>20. SockInv(p)'
  BY <1>1, <1>2, <1>3, <1>4, <1>7, <1>8, <1>9, <1>11, <1>10 DEF PeerFacts, JobRules, Says, Local, SockInv, Leaves, Resets, TakesBack
<1>21. ReadInv(p)'
  BY <1>1, <1>2, <1>3, <1>4, <1>7, <1>8, <1>9, <1>11, <1>10 DEF PeerFacts, JobRules, Says, Local, ReadInv, Leaves, Resets, TakesBack
<1>22. AskInv(p)'
  BY <1>1, <1>2, <1>3, <1>4, <1>7, <1>8, <1>9, <1>11, <1>10 DEF PeerFacts, JobRules, Says, Local, AskInv, Leaves, Resets, TakesBack
<1>23. PlaceInv(p)'
  BY <1>1, <1>2, <1>3, <1>4, <1>7, <1>8, <1>9, <1>11, <1>10 DEF PeerFacts, JobRules, Says, Local, PlaceInv, Leaves, Resets, TakesBack
<1>24. ConnInv(p)'
  BY <1>1, <1>2, <1>3, <1>4, <1>7, <1>8, <1>9, <1>11, <1>10 DEF PeerFacts, JobRules, Says, Local, ConnInv, Leaves, Resets, TakesBack
<1>25. EngineInv(p)'
  BY <1>1, <1>2, <1>3, <1>4, <1>7, <1>8, <1>9, <1>11, <1>10 DEF PeerFacts, JobRules, Says, Local, EngineInv, Leaves, Resets, TakesBack
<1>26. WindowInv(p)'
  BY <1>1, <1>2, <1>3, <1>4, <1>7, <1>8, <1>9, <1>11, <1>10 DEF PeerFacts, JobRules, Says, Local, WindowInv, Leaves, Resets, TakesBack
<1>27. TlsInv(p)'
  <2>1. \A r \in Peers : r # p => Same(r) /\ key'[r] = key[r]
    BY DEF UserRejectsDoes, Untouched, SameKey
  <2>2. /\ \A d \in DOMAIN links : To(d) = p => Taken(d)' = Taken(d)
        /\ \A d \in DOMAIN links' : To(d)' = p => d \in DOMAIN links
    BY <1>3, LinksStay DEF UserRejectsDoes, TypeOK
  <2>3. status[p] = "tls" /\ Uses(p) /\ Adopts(p, sock[p]) => Adopts(p, sock[p])'
    BY <1>2, <1>9
  <2>4. status[p] = "tls" /\ ~Uses(p) /\ sock[p] = Nobody /\ ~Begun(p) /\ ~Resets(p) /\ ui[p] = "idle" =>
           ~Begun(p)' /\ ~Resets(p)' /\ ui'[p] = "idle"
    BY <1>1, <1>2, <1>3, <1>4, <1>7, <1>8, <1>9, <1>11, <1>10 DEF PeerFacts, JobRules, Says, Local, PlaceInv, Leaves, Resets, TakesBack
  <2> QED
    BY <1>3, <1>9, <1>22, <2>1, <2>2, <2>3, <2>4, TlsSelf DEF Local
<1> QED
  BY <1>20, <1>21, <1>22, <1>23, <1>24, <1>25, <1>26, <1>27 DEF Local

LEMMA UserDisconnectsLocal ==
    ASSUME TypeOK, TypeOK', NEW p \in Peers, Local(p), TlsInv(p), OnLink(p),
           UserDisconnectsDoes(p), mishaps' = {}, ~Doomed(p), ~Doomed(p)'
    PROVE  Local(p)' /\ TlsInv(p)'
<1> DEFINE StaysRun(a, b) == Runs(p, a, b)' <=> Runs(p, a, b)
           StaysDoing(a, b) == \A y : Doing(p, a, b, y)' <=> Doing(p, a, b, y)
<1>1. /\ StaysRun("accept", "statusOn")
      /\ StaysRun("initHigh", "statusOn")
      /\ StaysRun("initLow", "statusOn")
      /\ StaysRun("statusOn", "statusOn")
      /\ StaysRun("cancel", "reset")
      /\ StaysRun("reset", "reset")
      /\ StaysRun("reject", "statusOff")
      /\ StaysRun("reset", "statusOff")
      /\ StaysRun("statusOff", "statusOff")
      /\ Runs(p, "reset", "close")'
      /\ StaysRun("close", "close")
      /\ StaysRun("reset", "unconnected")
      /\ StaysRun("lost", "unconnected")
      /\ StaysRun("unconnected", "unconnected")
      /\ StaysRun("reset", "again")
      /\ StaysRun("lost", "again")
      /\ StaysRun("again", "again")
      /\ StaysRun("stop", "stop")
      /\ StaysRun("ready", "ready")
      /\ StaysRun("initFileSenders", "initFileSenders")
      /\ StaysDoing("dial", "request")
      /\ StaysDoing("exchange", "request")
      /\ StaysDoing("connect", "request")
      /\ StaysDoing("recvMsg", "request")
      /\ StaysDoing("request", "request")
      /\ StaysDoing("recvMsg", "established")
      /\ StaysDoing("established", "established")
      /\ StaysDoing("listen", "started")
      /\ StaysDoing("started", "started")
  BY DEF UserDisconnectsDoes, Gets, Runs
<1>2. /\ Begun(p)' <=> Begun(p)
      /\ \A y : Asks(p, y)' <=> Asks(p, y)
      /\ ToDial(p)' <=> ToDial(p)
      /\ \A y : Adopts(p, y)' <=> Adopts(p, y)
      /\ Starting(p)' <=> Starting(p)
      /\ \A y : Starts(p, y)' <=> Starts(p, y)
      /\ Agrees(p)' <=> Agrees(p)
      /\ TakesBack(p)' <=> TakesBack(p)
      /\ Closes(p)' <=> Closes(p)
      /\ Ended(p)' <=> Ended(p)
  BY <1>1 DEF Adopts, Agrees, Asks, Begun, Closes, Ended, Starting, Starts, TakesBack, ToDial
<1>3. LinksKept /\ DOMAIN links' = DOMAIN links
  BY LinksStay DEF UserDisconnectsDoes, TypeOK, LinksKept
<1>4. /\ Uses(p)' <=> Uses(p)
      /\ Calls(p)' <=> Calls(p)
      /\ Takes(p)' <=> Takes(p)
      /\ Uses(p) => /\ From(sock[p])' = From(sock[p]) /\ To(sock[p])' = To(sock[p])
                    /\ Other(sock[p], p)' = Other(sock[p], p)
  BY <1>3, SocketSame DEF UserDisconnectsDoes
<1>7. PeerFacts(p) /\ JobRules(p) /\ JobRules(p)' /\ Says(p)
  BY PeerIs, JobsAre, EndSays
<1>8. /\ status'[p] \in {"waiting", "tls", "tcp"} /\ sock'[p] \in DOMAIN links' \cup {Fresh, Nobody}
      /\ Fresh # Nobody /\ Fresh \notin DOMAIN links' /\ Nobody \notin DOMAIN links'
      /\ DOMAIN links' \subseteq Nat
      /\ engine'[p].listening \in BOOLEAN /\ engine'[p].started \in BOOLEAN /\ engine'[p].senders \in BOOLEAN
  BY PeerIsNext
<1>9. /\ Once(p) => Once(p)'
      /\ ui[p] = "connected"
      /\ UNCHANGED <<status[p], sock[p], online[p], dialing[p], target[p], reading[p], connected[p], ids[p], partner[p], engine[p], asked[p], key[p], candidate[p], Reads(p)>>
      /\ ui'[p] = "idle"
  BY DEF UserDisconnectsDoes
<1>11. /\ ToDial(p) => /\ sock[p] = Nobody /\ status[p] = "waiting"
                      /\ ~Resets(p) /\ ~Closes(p) /\ ~Runs(p, "stop", "stop")
       /\ ToDial(p)' => /\ sock'[p] = Nobody /\ status'[p] = "waiting"
                       /\ ~Resets(p)' /\ ~Closes(p)' /\ ~Runs(p, "stop", "stop")'
  BY DEF Doomed, Busy
<1>20. SockInv(p)'
  BY <1>1, <1>2, <1>3, <1>4, <1>7, <1>8, <1>9, <1>11 DEF PeerFacts, JobRules, Says, Local, SockInv, Leaves, Resets, TakesBack
<1>21. ReadInv(p)'
  BY <1>1, <1>2, <1>3, <1>4, <1>7, <1>8, <1>9, <1>11 DEF PeerFacts, JobRules, Says, Local, ReadInv, Leaves, Resets, TakesBack
<1>22. AskInv(p)'
  BY <1>1, <1>2, <1>3, <1>4, <1>7, <1>8, <1>9, <1>11 DEF PeerFacts, JobRules, Says, Local, SockInv, ReadInv, AskInv, PlaceInv, ConnInv, EngineInv, WindowInv, Leaves, Resets, TakesBack
<1>23. PlaceInv(p)'
  BY <1>1, <1>2, <1>3, <1>4, <1>7, <1>8, <1>9, <1>11 DEF PeerFacts, JobRules, Says, Local, PlaceInv, Leaves, Resets, TakesBack
<1>24. ConnInv(p)'
  BY <1>1, <1>2, <1>3, <1>4, <1>7, <1>8, <1>9, <1>11 DEF PeerFacts, JobRules, Says, Local, SockInv, ReadInv, AskInv, PlaceInv, ConnInv, EngineInv, WindowInv, Leaves, Resets, TakesBack
<1>25. EngineInv(p)'
  BY <1>1, <1>2, <1>3, <1>4, <1>7, <1>8, <1>9, <1>11 DEF PeerFacts, JobRules, Says, Local, EngineInv, Leaves, Resets, TakesBack
<1>26. WindowInv(p)'
  BY <1>1, <1>2, <1>3, <1>4, <1>7, <1>8, <1>9, <1>11 DEF PeerFacts, JobRules, Says, Local, WindowInv, Leaves, Resets, TakesBack
<1>27. TlsInv(p)'
  <2>1. \A r \in Peers : r # p => Same(r) /\ key'[r] = key[r]
    BY DEF UserDisconnectsDoes, Untouched, SameKey
  <2>2. /\ \A d \in DOMAIN links : To(d) = p => Taken(d)' = Taken(d)
        /\ \A d \in DOMAIN links' : To(d)' = p => d \in DOMAIN links
    BY <1>3, LinksStay DEF UserDisconnectsDoes, TypeOK
  <2>3. status[p] = "tls" /\ Uses(p) /\ Adopts(p, sock[p]) => Adopts(p, sock[p])'
    BY <1>2, <1>9
  <2>4. status[p] = "tls" /\ ~Uses(p) /\ sock[p] = Nobody /\ ~Begun(p) /\ ~Resets(p) /\ ui[p] = "idle" =>
           ~Begun(p)' /\ ~Resets(p)' /\ ui'[p] = "idle"
    BY <1>1, <1>2, <1>3, <1>4, <1>7, <1>8, <1>9, <1>11 DEF PeerFacts, JobRules, Says, Local, PlaceInv, Leaves, Resets, TakesBack
  <2> QED
    BY <1>3, <1>9, <1>22, <2>1, <2>2, <2>3, <2>4, TlsSelf DEF Local
<1> QED
  BY <1>20, <1>21, <1>22, <1>23, <1>24, <1>25, <1>26, <1>27 DEF Local

LEMMA DialLocal ==
    ASSUME TypeOK, TypeOK', NEW p \in Peers, NEW x, Local(p), TlsInv(p), OnLink(p),
           DialDoes(p, x), mishaps' = {}, ~Doomed(p), ~Doomed(p)'
    PROVE  Local(p)' /\ TlsInv(p)'
<1> DEFINE StaysRun(a, b) == Runs(p, a, b)' <=> Runs(p, a, b)
           StaysDoing(a, b) == \A y : Doing(p, a, b, y)' <=> Doing(p, a, b, y)
<1>1. /\ StaysRun("accept", "statusOn")
      /\ StaysRun("initHigh", "statusOn")
      /\ StaysRun("initLow", "statusOn")
      /\ StaysRun("statusOn", "statusOn")
      /\ StaysRun("cancel", "reset")
      /\ StaysRun("reset", "reset")
      /\ StaysRun("reject", "statusOff")
      /\ StaysRun("reset", "statusOff")
      /\ StaysRun("statusOff", "statusOff")
      /\ StaysRun("reset", "close")
      /\ StaysRun("close", "close")
      /\ StaysRun("reset", "unconnected")
      /\ StaysRun("lost", "unconnected")
      /\ StaysRun("unconnected", "unconnected")
      /\ StaysRun("reset", "again")
      /\ StaysRun("lost", "again")
      /\ StaysRun("again", "again")
      /\ StaysRun("stop", "stop")
      /\ StaysRun("ready", "ready")
      /\ StaysRun("initFileSenders", "initFileSenders")
      /\ \A y : Doing(p, "dial", "request", y)' => Doing(p, "dial", "request", y)
      /\ \A y : Doing(p, "dial", "request", y) => Doing(p, "dial", "request", y)' \/ y = x
      /\ Doing(p, "dial", "request", x)
      /\ \A y : Doing(p, "exchange", "request", y)' => Doing(p, "exchange", "request", y) \/ y = x
      /\ \A y : Doing(p, "exchange", "request", y) => Doing(p, "exchange", "request", y)'
      /\ Doing(p, "exchange", "request", x)'
      /\ StaysDoing("connect", "request")
      /\ StaysDoing("recvMsg", "request")
      /\ StaysDoing("request", "request")
      /\ StaysDoing("recvMsg", "established")
      /\ StaysDoing("established", "established")
      /\ StaysDoing("listen", "started")
      /\ StaysDoing("started", "started")
  BY DEF DialDoes, Advances, Runs
<1>2. /\ \A y : Adopts(p, y)' <=> Adopts(p, y)
      /\ Starting(p)' <=> Starting(p)
      /\ \A y : Starts(p, y)' <=> Starts(p, y)
      /\ Agrees(p)' <=> Agrees(p)
      /\ TakesBack(p)' <=> TakesBack(p)
      /\ Leaves(p)' <=> Leaves(p)
      /\ Closes(p)' <=> Closes(p)
      /\ Resets(p)' <=> Resets(p)
      /\ Ended(p)' <=> Ended(p)
  BY <1>1 DEF Adopts, Agrees, Closes, Ended, Leaves, Resets, Starting, Starts, TakesBack
<1>3. LinksKept /\ DOMAIN links' = DOMAIN links
  BY LinksStay DEF DialDoes, TypeOK, LinksKept
<1>4. ~Uses(p)' /\ ~Calls(p)' /\ ~Takes(p)'
  BY PeerIsNext DEF DialDoes, Uses, Calls, Takes
<1>7. PeerFacts(p) /\ JobRules(p) /\ JobRules(p)' /\ Says(p)
  BY PeerIs, JobsAre, EndSays
<1>8. /\ status'[p] \in {"waiting", "tls", "tcp"} /\ sock'[p] \in DOMAIN links' \cup {Fresh, Nobody}
      /\ Fresh # Nobody /\ Fresh \notin DOMAIN links' /\ Nobody \notin DOMAIN links'
      /\ DOMAIN links' \subseteq Nat
      /\ engine'[p].listening \in BOOLEAN /\ engine'[p].started \in BOOLEAN /\ engine'[p].senders \in BOOLEAN
  BY PeerIsNext
<1>9. /\ Once(p) /\ ~Doing(p, "exchange", "request", x) => Once(p)'
      /\ x \in Peers /\ x # p
      /\ UNCHANGED <<status[p], online[p], reading[p], connected[p], ids[p], partner[p], engine[p], ui[p], asked[p], key[p], candidate[p], Reads(p)>>
      /\ sock'[p] = Fresh
      /\ dialing'[p] = TRUE
      /\ target'[p] = x
  BY DEF DialDoes
<1>11. /\ ToDial(p) => /\ sock[p] = Nobody /\ status[p] = "waiting"
                      /\ ~Resets(p) /\ ~Closes(p) /\ ~Runs(p, "stop", "stop")
       /\ ToDial(p)' => /\ sock'[p] = Nobody /\ status'[p] = "waiting"
                       /\ ~Resets(p)' /\ ~Closes(p)' /\ ~Runs(p, "stop", "stop")'
  BY DEF Doomed, Busy
<1>5. ~Ending(p) /\ ~Busy(p)
  BY DEF DialDoes
<1>6. /\ ~TakesBack(p) /\ ~Leaves(p) /\ ~Resets(p) /\ ~Closes(p) /\ ~Ended(p)
      /\ ~Runs(p, "stop", "stop") /\ ~Runs(p, "statusOff", "statusOff")
      /\ sock[p] = Nobody /\ status[p] = "waiting" /\ Reads(p) = {}
      /\ ~Uses(p) /\ ~Calls(p) /\ ~Takes(p)
  BY <1>5, <1>7, EndsNothing DEF Busy, PeerFacts, Uses, Calls, Takes
<1>10. /\ \A y \in Peers : ~Asks(p, y)
       /\ ~Begun(p)
  BY <1>6, <1>7 DEF Local, AskInv, PeerFacts, Asks, Begun
<1>20. SockInv(p)'
  BY <1>1, <1>2, <1>3, <1>4, <1>7, <1>8, <1>9, <1>11, <1>6, <1>10 DEF PeerFacts, JobRules, Says, Local, SockInv, Asks, Begun, ToDial
<1>21. ReadInv(p)'
  BY <1>1, <1>2, <1>3, <1>4, <1>7, <1>8, <1>9, <1>11, <1>6, <1>10 DEF PeerFacts, JobRules, Says, Local, ReadInv, Asks, Begun, ToDial
<1>22. AskInv(p)'
  BY <1>1, <1>2, <1>3, <1>4, <1>7, <1>8, <1>9, <1>11, <1>6, <1>10 DEF PeerFacts, JobRules, Says, Local, SockInv, ReadInv, AskInv, PlaceInv, ConnInv, EngineInv, WindowInv, Asks, Begun, ToDial
<1>23. PlaceInv(p)'
  BY <1>1, <1>2, <1>3, <1>4, <1>7, <1>8, <1>9, <1>11, <1>6, <1>10 DEF PeerFacts, JobRules, Says, Local, PlaceInv, Asks, Begun, ToDial
<1>24. ConnInv(p)'
  BY <1>1, <1>2, <1>3, <1>4, <1>7, <1>8, <1>9, <1>11, <1>6, <1>10 DEF PeerFacts, JobRules, Says, Local, ConnInv, Asks, Begun, ToDial
<1>25. EngineInv(p)'
  BY <1>1, <1>2, <1>3, <1>4, <1>7, <1>8, <1>9, <1>11, <1>6, <1>10 DEF PeerFacts, JobRules, Says, Local, EngineInv, Asks, Begun, ToDial
<1>26. WindowInv(p)'
  BY <1>1, <1>2, <1>3, <1>4, <1>7, <1>8, <1>9, <1>11, <1>6, <1>10 DEF PeerFacts, JobRules, Says, Local, WindowInv, Asks, Begun, ToDial
<1>27. TlsInv(p)'
  <2>1. \A r \in Peers : r # p => Same(r)
    BY DEF DialDoes, Untouched, SameKey
  <2>2. /\ \A d \in DOMAIN links : To(d) = p => Taken(d)' = Taken(d)
        /\ \A d \in DOMAIN links' : To(d)' = p => d \in DOMAIN links
    BY <1>3, LinksStay DEF DialDoes, TypeOK
  <2>3. (status[p] # "tls" \/ sock[p] # Nobody) /\ status'[p] # "tls"
    BY <1>1, <1>2, <1>3, <1>4, <1>7, <1>8, <1>9, <1>11, <1>6, <1>10 DEF PeerFacts, JobRules, Local, SockInv, AskInv, TlsInv, Begun, Asks, Doomed, Busy
  <2> QED
    BY <1>3, <1>22, <2>1, <2>2, <2>3, TlsWaiting DEF Local
<1> QED
  BY <1>20, <1>21, <1>22, <1>23, <1>24, <1>25, <1>26, <1>27 DEF Local

LEMMA ExchangeLocal ==
    ASSUME TypeOK, TypeOK', NEW p \in Peers, NEW x, Local(p), TlsInv(p), OnLink(p),
           ExchangeDoes(p, x), mishaps' = {}, ~Doomed(p), ~Doomed(p)'
    PROVE  Local(p)' /\ TlsInv(p)'
<1> DEFINE StaysRun(a, b) == Runs(p, a, b)' <=> Runs(p, a, b)
           StaysDoing(a, b) == \A y : Doing(p, a, b, y)' <=> Doing(p, a, b, y)
<1>1. /\ StaysRun("accept", "statusOn")
      /\ StaysRun("initHigh", "statusOn")
      /\ StaysRun("initLow", "statusOn")
      /\ StaysRun("statusOn", "statusOn")
      /\ StaysRun("cancel", "reset")
      /\ StaysRun("reset", "reset")
      /\ StaysRun("reject", "statusOff")
      /\ StaysRun("reset", "statusOff")
      /\ StaysRun("statusOff", "statusOff")
      /\ StaysRun("reset", "close")
      /\ StaysRun("close", "close")
      /\ StaysRun("reset", "unconnected")
      /\ StaysRun("lost", "unconnected")
      /\ StaysRun("unconnected", "unconnected")
      /\ StaysRun("reset", "again")
      /\ StaysRun("lost", "again")
      /\ StaysRun("again", "again")
      /\ StaysRun("stop", "stop")
      /\ StaysRun("ready", "ready")
      /\ StaysRun("initFileSenders", "initFileSenders")
      /\ StaysDoing("dial", "request")
      /\ \A y : Doing(p, "exchange", "request", y)' => Doing(p, "exchange", "request", y)
      /\ \A y : Doing(p, "exchange", "request", y) => Doing(p, "exchange", "request", y)' \/ y = x
      /\ Doing(p, "exchange", "request", x)
      /\ Once(p) => ~Doing(p, "exchange", "request", x)'
      /\ \A y : Doing(p, "connect", "request", y)' => Doing(p, "connect", "request", y) \/ y = x
      /\ \A y : Doing(p, "connect", "request", y) => Doing(p, "connect", "request", y)'
      /\ Doing(p, "connect", "request", x)'
      /\ StaysDoing("recvMsg", "request")
      /\ StaysDoing("request", "request")
      /\ StaysDoing("recvMsg", "established")
      /\ StaysDoing("established", "established")
      /\ StaysDoing("listen", "started")
      /\ StaysDoing("started", "started")
  BY DEF ExchangeDoes, Advances, Runs
<1>2. /\ ToDial(p)' <=> ToDial(p)
      /\ \A y : Adopts(p, y)' <=> Adopts(p, y)
      /\ Starting(p)' <=> Starting(p)
      /\ \A y : Starts(p, y)' <=> Starts(p, y)
      /\ Agrees(p)' <=> Agrees(p)
      /\ TakesBack(p)' <=> TakesBack(p)
      /\ Leaves(p)' <=> Leaves(p)
      /\ Closes(p)' <=> Closes(p)
      /\ Resets(p)' <=> Resets(p)
      /\ Ended(p)' <=> Ended(p)
  BY <1>1 DEF Adopts, Agrees, Closes, Ended, Leaves, Resets, Starting, Starts, TakesBack, ToDial
<1>3. LinksKept /\ DOMAIN links' = DOMAIN links
  BY LinksStay DEF ExchangeDoes, TypeOK, LinksKept
<1>4. /\ Uses(p)' <=> Uses(p)
      /\ Calls(p)' <=> Calls(p)
      /\ Takes(p)' <=> Takes(p)
      /\ Uses(p) => /\ From(sock[p])' = From(sock[p]) /\ To(sock[p])' = To(sock[p])
                    /\ Other(sock[p], p)' = Other(sock[p], p)
  BY <1>3, SocketSame DEF ExchangeDoes
<1>7. PeerFacts(p) /\ JobRules(p) /\ JobRules(p)' /\ Says(p)
  BY PeerIs, JobsAre, EndSays
<1>8. /\ status'[p] \in {"waiting", "tls", "tcp"} /\ sock'[p] \in DOMAIN links' \cup {Fresh, Nobody}
      /\ Fresh # Nobody /\ Fresh \notin DOMAIN links' /\ Nobody \notin DOMAIN links'
      /\ DOMAIN links' \subseteq Nat
      /\ engine'[p].listening \in BOOLEAN /\ engine'[p].started \in BOOLEAN /\ engine'[p].senders \in BOOLEAN
  BY PeerIsNext
<1>9. /\ Once(p) => ~Doing(p, "exchange", "request", x)'
      /\ Once(p) /\ ~Doing(p, "connect", "request", x) => Once(p)'
      /\ x \in Peers /\ x # p
      /\ status[x] = "waiting"
      /\ UNCHANGED <<sock[p], online[p], dialing[p], target[p], reading[p], connected[p], ids[p], partner[p], engine[p], ui[p], asked[p], Reads(p)>>
      /\ key'[p] = exchanges + 1
      /\ status'[p] = status[p]
      /\ candidate'[p] = candidate[p]
  BY DEF ExchangeDoes
<1>11. /\ ToDial(p) => /\ sock[p] = Nobody /\ status[p] = "waiting"
                      /\ ~Resets(p) /\ ~Closes(p) /\ ~Runs(p, "stop", "stop")
       /\ ToDial(p)' => /\ sock'[p] = Nobody /\ status'[p] = "waiting"
                       /\ ~Resets(p)' /\ ~Closes(p)' /\ ~Runs(p, "stop", "stop")'
  BY DEF Doomed, Busy
<1>20. SockInv(p)'
  BY <1>1, <1>2, <1>3, <1>4, <1>7, <1>8, <1>9, <1>11 DEF PeerFacts, JobRules, Says, Local, SockInv, Asks, Begun
<1>21. ReadInv(p)'
  BY <1>1, <1>2, <1>3, <1>4, <1>7, <1>8, <1>9, <1>11 DEF PeerFacts, JobRules, Says, Local, ReadInv, Asks, Begun
<1>22. AskInv(p)'
  BY <1>1, <1>2, <1>3, <1>4, <1>7, <1>8, <1>9, <1>11 DEF PeerFacts, JobRules, Says, Local, AskInv, Asks, Begun
<1>23. PlaceInv(p)'
  BY <1>1, <1>2, <1>3, <1>4, <1>7, <1>8, <1>9, <1>11 DEF PeerFacts, JobRules, Says, Local, PlaceInv, Asks, Begun
<1>24. ConnInv(p)'
  BY <1>1, <1>2, <1>3, <1>4, <1>7, <1>8, <1>9, <1>11 DEF PeerFacts, JobRules, Says, Local, ConnInv, Asks, Begun
<1>25. EngineInv(p)'
  BY <1>1, <1>2, <1>3, <1>4, <1>7, <1>8, <1>9, <1>11 DEF PeerFacts, JobRules, Says, Local, EngineInv, Asks, Begun
<1>26. WindowInv(p)'
  BY <1>1, <1>2, <1>3, <1>4, <1>7, <1>8, <1>9, <1>11 DEF PeerFacts, JobRules, Says, Local, WindowInv, Asks, Begun
<1>27. TlsInv(p)'
  <2>1. \A r \in Peers : r # p => Same(r)
    BY DEF ExchangeDoes, Untouched, SameKey
  <2>2. /\ \A d \in DOMAIN links : To(d) = p => Taken(d)' = Taken(d)
        /\ \A d \in DOMAIN links' : To(d)' = p => d \in DOMAIN links
    BY <1>3, LinksStay DEF ExchangeDoes, TypeOK
  <2>3. (status[p] # "tls" \/ sock[p] # Nobody) /\ status'[p] # "tls"
    BY <1>1, <1>2, <1>3, <1>4, <1>7, <1>8, <1>9, <1>11 DEF PeerFacts, JobRules, Local, SockInv, AskInv, TlsInv, Begun, Asks, Doomed, Busy
  <2> QED
    BY <1>3, <1>22, <2>1, <2>2, <2>3, TlsWaiting DEF Local
<1> QED
  BY <1>20, <1>21, <1>22, <1>23, <1>24, <1>25, <1>26, <1>27 DEF Local

LEMMA RefusedLocal ==
    ASSUME TypeOK, TypeOK', NEW p \in Peers, NEW x, Local(p), TlsInv(p), OnLink(p),
           RefusedDoes(p, x), mishaps' = {}, ~Doomed(p), ~Doomed(p)'
    PROVE  Local(p)' /\ TlsInv(p)'
<1> DEFINE StaysRun(a, b) == Runs(p, a, b)' <=> Runs(p, a, b)
           StaysDoing(a, b) == \A y : Doing(p, a, b, y)' <=> Doing(p, a, b, y)
<1>1. /\ StaysRun("accept", "statusOn")
      /\ StaysRun("initHigh", "statusOn")
      /\ StaysRun("initLow", "statusOn")
      /\ StaysRun("statusOn", "statusOn")
      /\ StaysRun("cancel", "reset")
      /\ StaysRun("reset", "reset")
      /\ StaysRun("reject", "statusOff")
      /\ StaysRun("reset", "statusOff")
      /\ StaysRun("statusOff", "statusOff")
      /\ StaysRun("reset", "close")
      /\ StaysRun("close", "close")
      /\ Runs(p, "reset", "unconnected")'
      /\ StaysRun("lost", "unconnected")
      /\ StaysRun("unconnected", "unconnected")
      /\ StaysRun("reset", "again")
      /\ StaysRun("lost", "again")
      /\ StaysRun("again", "again")
      /\ StaysRun("stop", "stop")
      /\ StaysRun("ready", "ready")
      /\ StaysRun("initFileSenders", "initFileSenders")
      /\ StaysDoing("dial", "request")
      /\ \A y : Doing(p, "exchange", "request", y)' => Doing(p, "exchange", "request", y)
      /\ \A y : Doing(p, "exchange", "request", y) => Doing(p, "exchange", "request", y)' \/ y = x
      /\ Doing(p, "exchange", "request", x)
      /\ Once(p) => ~Doing(p, "exchange", "request", x)'
      /\ StaysDoing("connect", "request")
      /\ StaysDoing("recvMsg", "request")
      /\ StaysDoing("request", "request")
      /\ StaysDoing("recvMsg", "established")
      /\ StaysDoing("established", "established")
      /\ StaysDoing("listen", "started")
      /\ StaysDoing("started", "started")
  BY DEF RefusedDoes, Swaps, Runs
<1>2. /\ ToDial(p)' <=> ToDial(p)
      /\ \A y : Adopts(p, y)' <=> Adopts(p, y)
      /\ Starting(p)' <=> Starting(p)
      /\ \A y : Starts(p, y)' <=> Starts(p, y)
      /\ Agrees(p)' <=> Agrees(p)
      /\ TakesBack(p)' <=> TakesBack(p)
      /\ Closes(p)' <=> Closes(p)
      /\ Ended(p)' <=> Ended(p)
  BY <1>1 DEF Adopts, Agrees, Closes, Ended, Starting, Starts, TakesBack, ToDial
<1>3. LinksKept /\ DOMAIN links' = DOMAIN links
  BY LinksStay DEF RefusedDoes, TypeOK, LinksKept
<1>4. /\ Uses(p)' <=> Uses(p)
      /\ Calls(p)' <=> Calls(p)
      /\ Takes(p)' <=> Takes(p)
      /\ Uses(p) => /\ From(sock[p])' = From(sock[p]) /\ To(sock[p])' = To(sock[p])
                    /\ Other(sock[p], p)' = Other(sock[p], p)
  BY <1>3, SocketSame DEF RefusedDoes
<1>7. PeerFacts(p) /\ JobRules(p) /\ JobRules(p)' /\ Says(p)
  BY PeerIs, JobsAre, EndSays
<1>8. /\ status'[p] \in {"waiting", "tls", "tcp"} /\ sock'[p] \in DOMAIN links' \cup {Fresh, Nobody}
      /\ Fresh # Nobody /\ Fresh \notin DOMAIN links' /\ Nobody \notin DOMAIN links'
      /\ DOMAIN links' \subseteq Nat
      /\ engine'[p].listening \in BOOLEAN /\ engine'[p].started \in BOOLEAN /\ engine'[p].senders \in BOOLEAN
  BY PeerIsNext
<1>9. /\ Once(p) => ~Doing(p, "exchange", "request", x)'
      /\ Once(p) => Once(p)'
      /\ x \in Peers /\ x # p
      /\ UNCHANGED <<status[p], sock[p], online[p], dialing[p], target[p], reading[p], connected[p], ids[p], partner[p], engine[p], asked[p], key[p], candidate[p], Reads(p)>>
      /\ ui'[p] = "idle"
  BY DEF RefusedDoes
<1>11. /\ ToDial(p) => /\ sock[p] = Nobody /\ status[p] = "waiting"
                      /\ ~Resets(p) /\ ~Closes(p) /\ ~Runs(p, "stop", "stop")
       /\ ToDial(p)' => /\ sock'[p] = Nobody /\ status'[p] = "waiting"
                       /\ ~Resets(p)' /\ ~Closes(p)' /\ ~Runs(p, "stop", "stop")'
  BY DEF Doomed, Busy
<1>10. /\ sock[p] = Fresh /\ ~Uses(p) /\ ~Calls(p) /\ ~Takes(p)
       /\ ~Leaves(p) /\ ~connected[p] /\ ~Closes(p)
       /\ \A y \in Peers : Asks(p, y) => y = x
       /\ \A y \in Peers : ~Doing(p, "recvMsg", "request", y) /\ ~Doing(p, "request", "request", y) /\ ~Doing(p, "connect", "request", y)
  <2>1. Doing(p, "exchange", "request", x) /\ x \in Peers
    BY DEF RefusedDoes, Swaps
  <2>2. sock[p] = Fresh /\ Begun(p) /\ target[p] = x
    BY <2>1 DEF Local, AskInv, Begun, Asks
  <2>3. ~Uses(p) /\ ~Calls(p) /\ ~Takes(p)
    BY <1>7, <2>2 DEF PeerFacts, Calls, Takes
  <2>4. ~Leaves(p)
    BY <2>2 DEF Local, AskInv
  <2>5. ~Closes(p) /\ ~connected[p]
    BY <1>7, <2>2, <2>3 DEF Local, SockInv, ConnInv, PeerFacts, JobRules
  <2>6. \A y \in Peers : Asks(p, y) => y = x /\ ~Doing(p, "recvMsg", "request", y) /\ ~Doing(p, "request", "request", y) /\ ~Doing(p, "connect", "request", y)
    <3>1. \A y \in Peers : Doing(p, "connect", "request", y) => y = x
      BY <2>2 DEF Local, AskInv
    <3> QED
      BY <2>1, <2>2, <2>3, <3>1 DEF Local, AskInv, Asks
  <2> QED
    BY <2>2, <2>3, <2>4, <2>5, <2>6 DEF Asks
<1>20. SockInv(p)'
  BY <1>1, <1>2, <1>3, <1>4, <1>7, <1>8, <1>9, <1>11, <1>10 DEF PeerFacts, JobRules, Says, Local, SockInv, Asks, Begun, Leaves, Resets, TakesBack
<1>21. ReadInv(p)'
  BY <1>1, <1>2, <1>3, <1>4, <1>7, <1>8, <1>9, <1>11, <1>10 DEF PeerFacts, JobRules, Says, Local, ReadInv, Asks, Begun, Leaves, Resets, TakesBack
<1>22. AskInv(p)'
  BY <1>1, <1>2, <1>3, <1>4, <1>7, <1>8, <1>9, <1>11, <1>10 DEF PeerFacts, JobRules, Says, Local, AskInv, Asks, Begun, Leaves, Resets, TakesBack
<1>23. PlaceInv(p)'
  BY <1>1, <1>2, <1>3, <1>4, <1>7, <1>8, <1>9, <1>11, <1>10 DEF PeerFacts, JobRules, Says, Local, PlaceInv, Asks, Begun, Leaves, Resets, TakesBack
<1>24. ConnInv(p)'
  BY <1>1, <1>2, <1>3, <1>4, <1>7, <1>8, <1>9, <1>11, <1>10 DEF PeerFacts, JobRules, Says, Local, ConnInv, Asks, Begun, Leaves, Resets, TakesBack
<1>25. EngineInv(p)'
  BY <1>1, <1>2, <1>3, <1>4, <1>7, <1>8, <1>9, <1>11, <1>10 DEF PeerFacts, JobRules, Says, Local, EngineInv, Asks, Begun, Leaves, Resets, TakesBack
<1>26. WindowInv(p)'
  BY <1>1, <1>2, <1>3, <1>4, <1>7, <1>8, <1>9, <1>11, <1>10 DEF PeerFacts, JobRules, Says, Local, WindowInv, Asks, Begun, Leaves, Resets, TakesBack
<1>27. TlsInv(p)'
  <2>1. \A r \in Peers : r # p => Same(r)
    BY DEF RefusedDoes, Untouched, SameKey
  <2>2. /\ \A d \in DOMAIN links : To(d) = p => Taken(d)' = Taken(d)
        /\ \A d \in DOMAIN links' : To(d)' = p => d \in DOMAIN links
    BY <1>3, LinksStay DEF RefusedDoes, TypeOK
  <2>3. (status[p] # "tls" \/ sock[p] # Nobody) /\ status'[p] # "tls"
    BY <1>1, <1>2, <1>3, <1>4, <1>7, <1>8, <1>9, <1>11, <1>10 DEF PeerFacts, JobRules, Local, SockInv, AskInv, TlsInv, Begun, Asks, Doomed, Busy
  <2> QED
    BY <1>3, <1>22, <2>1, <2>2, <2>3, TlsWaiting DEF Local
<1> QED
  BY <1>20, <1>21, <1>22, <1>23, <1>24, <1>25, <1>26, <1>27 DEF Local

LEMMA ConnectLocal ==
    ASSUME TypeOK, TypeOK', NEW p \in Peers, NEW x, Local(p), TlsInv(p), OnLink(p),
           ConnectDoes(p, x), mishaps' = {}, ~Doomed(p), ~Doomed(p)',
           target[p] # Nobody,
           sock[p] \notin DOMAIN links
    PROVE  Local(p)' /\ TlsInv(p)'
<1> DEFINE StaysRun(a, b) == Runs(p, a, b)' <=> Runs(p, a, b)
           StaysDoing(a, b) == \A y : Doing(p, a, b, y)' <=> Doing(p, a, b, y)
<1>1. /\ StaysRun("accept", "statusOn")
      /\ StaysRun("initHigh", "statusOn")
      /\ StaysRun("initLow", "statusOn")
      /\ StaysRun("statusOn", "statusOn")
      /\ StaysRun("cancel", "reset")
      /\ StaysRun("reset", "reset")
      /\ StaysRun("reject", "statusOff")
      /\ StaysRun("reset", "statusOff")
      /\ StaysRun("statusOff", "statusOff")
      /\ StaysRun("reset", "close")
      /\ StaysRun("close", "close")
      /\ StaysRun("reset", "unconnected")
      /\ StaysRun("lost", "unconnected")
      /\ StaysRun("unconnected", "unconnected")
      /\ StaysRun("reset", "again")
      /\ StaysRun("lost", "again")
      /\ StaysRun("again", "again")
      /\ StaysRun("stop", "stop")
      /\ StaysRun("ready", "ready")
      /\ StaysRun("initFileSenders", "initFileSenders")
      /\ StaysDoing("dial", "request")
      /\ StaysDoing("exchange", "request")
      /\ \A y : Doing(p, "connect", "request", y)' => Doing(p, "connect", "request", y)
      /\ \A y : Doing(p, "connect", "request", y) => Doing(p, "connect", "request", y)' \/ y = x
      /\ Doing(p, "connect", "request", x)
      /\ Once(p) => ~Doing(p, "connect", "request", x)'
      /\ \A y : Doing(p, "recvMsg", "request", y)' => Doing(p, "recvMsg", "request", y) \/ y = x
      /\ \A y : Doing(p, "recvMsg", "request", y) => Doing(p, "recvMsg", "request", y)'
      /\ Doing(p, "recvMsg", "request", x)'
      /\ StaysDoing("request", "request")
      /\ StaysDoing("recvMsg", "established")
      /\ StaysDoing("established", "established")
      /\ StaysDoing("listen", "started")
      /\ StaysDoing("started", "started")
  BY DEF ConnectDoes, Advances, Runs
<1>2. /\ ToDial(p)' <=> ToDial(p)
      /\ \A y : Adopts(p, y)' <=> Adopts(p, y)
      /\ Starting(p)' <=> Starting(p)
      /\ \A y : Starts(p, y)' <=> Starts(p, y)
      /\ Agrees(p)' <=> Agrees(p)
      /\ TakesBack(p)' <=> TakesBack(p)
      /\ Leaves(p)' <=> Leaves(p)
      /\ Closes(p)' <=> Closes(p)
      /\ Resets(p)' <=> Resets(p)
      /\ Ended(p)' <=> Ended(p)
  BY <1>1 DEF Adopts, Agrees, Closes, Ended, Leaves, Resets, Starting, Starts, TakesBack, ToDial
<1>3. /\ LinksKept /\ sock'[p] \in DOMAIN links'
      /\ From(sock[p])' = p /\ To(sock[p])' = x /\ DOMAIN links \subseteq DOMAIN links'
  BY ConnectMakes
<1>4. Uses(p)' /\ Calls(p)' /\ ~Takes(p)' /\ Other(sock[p], p)' = x
  BY <1>3 DEF ConnectDoes, Uses, Calls, Takes, Other, From, To
<1>7. PeerFacts(p) /\ JobRules(p) /\ JobRules(p)' /\ Says(p)
  BY PeerIs, JobsAre, EndSays
<1>8. /\ status'[p] \in {"waiting", "tls", "tcp"} /\ sock'[p] \in DOMAIN links' \cup {Fresh, Nobody}
      /\ Fresh # Nobody /\ Fresh \notin DOMAIN links' /\ Nobody \notin DOMAIN links'
      /\ DOMAIN links' \subseteq Nat
      /\ engine'[p].listening \in BOOLEAN /\ engine'[p].started \in BOOLEAN /\ engine'[p].senders \in BOOLEAN
  BY PeerIsNext
<1>9. /\ Once(p) => ~Doing(p, "connect", "request", x)'
      /\ Once(p) /\ ~Doing(p, "recvMsg", "request", x) => Once(p)'
      /\ x \in Peers /\ x # p
      /\ UNCHANGED <<status[p], target[p], reading[p], connected[p], ids[p], partner[p], engine[p], ui[p], asked[p], key[p], candidate[p], Reads(p)>>
      /\ dialing'[p] = FALSE
      /\ sock'[p] = Len(links) + 1
      /\ online'[p] = TRUE
  BY DEF ConnectDoes
<1>11. /\ ToDial(p) => /\ sock[p] = Nobody /\ status[p] = "waiting"
                      /\ ~Resets(p) /\ ~Closes(p) /\ ~Runs(p, "stop", "stop")
       /\ ToDial(p)' => /\ sock'[p] = Nobody /\ status'[p] = "waiting"
                       /\ ~Resets(p)' /\ ~Closes(p)' /\ ~Runs(p, "stop", "stop")'
  BY DEF Doomed, Busy
<1>10. /\ sock[p] = Fresh /\ ~Uses(p) /\ status[p] = "waiting" /\ Begun(p) /\ dialing[p]
       /\ ~reading[p] /\ Reads(p) = {} /\ ~Ended(p) /\ ~Closes(p) /\ ~connected[p] /\ ~Agrees(p) /\ ~asked[p]
       /\ ~Starting(p) /\ ~Leaves(p) /\ ui[p] # "connected" /\ (\A y \in Nat : ~Adopts(p, y))
       /\ \A y \in Peers : ~Doing(p, "recvMsg", "request", y) /\ ~Doing(p, "request", "request", y) /\ ~Doing(p, "exchange", "request", y)
  <2>1. Doing(p, "connect", "request", x) /\ x \in Peers
    BY DEF ConnectDoes, Advances
  <2>2. sock[p] = Fresh /\ dialing[p] /\ Begun(p)
    BY <2>1 DEF Local, AskInv, Begun, Asks
  <2>3. ~Uses(p) /\ ~Calls(p) /\ ~Takes(p)
    BY <1>7, <2>2 DEF PeerFacts, Calls, Takes
  <2>4. status[p] = "waiting" /\ ~Ended(p) /\ ~Closes(p) /\ ~reading[p] /\ Reads(p) = {}
    BY <1>7, <2>2, <2>3 DEF Local, SockInv, ReadInv, PeerFacts, JobRules
  <2>5. ~connected[p] /\ ~Agrees(p) /\ ~asked[p] /\ ~Starting(p) /\ ui[p] # "connected"
    BY <1>7, <2>3, <2>4 DEF Local, ConnInv, PlaceInv
  <2>6. ~Leaves(p) /\ \A y \in Peers : ~Doing(p, "recvMsg", "request", y) /\ ~Doing(p, "request", "request", y)
    BY <2>2, <2>3 DEF Local, AskInv
  <2>7. \A y \in Peers : ~Doing(p, "exchange", "request", y)
    <3>1. \A y \in Peers : Doing(p, "exchange", "request", y) => y = x
      BY <2>1 DEF Local, AskInv
    <3> QED
      BY <2>1, <3>1 DEF Local, AskInv
  <2>8. \A y \in Nat : ~Adopts(p, y)
    BY <2>3 DEF Local, PlaceInv
  <2> QED
    BY <2>2, <2>3, <2>4, <2>5, <2>6, <2>7, <2>8
<1>20. SockInv(p)'
  BY <1>1, <1>2, <1>3, <1>4, <1>7, <1>8, <1>9, <1>11, <1>10 DEF PeerFacts, JobRules, Says, Local, SockInv, Asks, Begun
<1>21. ReadInv(p)'
  BY <1>1, <1>2, <1>3, <1>4, <1>7, <1>8, <1>9, <1>11, <1>10 DEF PeerFacts, JobRules, Says, Local, ReadInv, Asks, Begun
<1>22. AskInv(p)'
  BY <1>1, <1>2, <1>3, <1>4, <1>7, <1>8, <1>9, <1>11, <1>10 DEF PeerFacts, JobRules, Says, Local, AskInv, Asks, Begun
<1>23. PlaceInv(p)'
  BY <1>1, <1>2, <1>3, <1>4, <1>7, <1>8, <1>9, <1>11, <1>10 DEF PeerFacts, JobRules, Says, Local, PlaceInv, Asks, Begun
<1>24. ConnInv(p)'
  BY <1>1, <1>2, <1>3, <1>4, <1>7, <1>8, <1>9, <1>11, <1>10 DEF PeerFacts, JobRules, Says, Local, ConnInv, Asks, Begun
<1>25. EngineInv(p)'
  BY <1>1, <1>2, <1>3, <1>4, <1>7, <1>8, <1>9, <1>11, <1>10 DEF PeerFacts, JobRules, Says, Local, SockInv, ReadInv, AskInv, PlaceInv, ConnInv, EngineInv, WindowInv, Adopts, Agrees, Asks, Begun, Closes, Ended, Leaves, Resets, Starting, Starts, TakesBack, ToDial
<1>26. WindowInv(p)'
  BY <1>1, <1>2, <1>3, <1>4, <1>7, <1>8, <1>9, <1>11, <1>10 DEF PeerFacts, JobRules, Says, Local, SockInv, ReadInv, AskInv, PlaceInv, ConnInv, EngineInv, WindowInv, Asks, Begun
<1>27. TlsInv(p)'
  <2>1. \A r \in Peers : r # p => Same(r)
    BY DEF ConnectDoes, Untouched, SameKey
  <2>2. /\ \A d \in DOMAIN links : To(d) = p => Taken(d)' = Taken(d)
        /\ \A d \in DOMAIN links' : To(d)' = p => d \in DOMAIN links
    <3>1. /\ \A d \in DOMAIN links : Taken(d)' = Taken(d)
          /\ \A d \in DOMAIN links' : d \notin DOMAIN links => d = sock'[p]
      BY ConnectMakes
    <3>2. To(sock[p])' = x /\ x # p
      BY ConnectMakes DEF ConnectDoes
    <3> QED
      BY <3>1, <3>2
  <2>3. (status[p] # "tls" \/ sock[p] # Nobody) /\ status'[p] # "tls"
    BY <1>1, <1>2, <1>3, <1>4, <1>7, <1>8, <1>9, <1>11, <1>10 DEF PeerFacts, JobRules, Local, SockInv, AskInv, TlsInv, Begun, Asks, Doomed, Busy
  <2> QED
    BY <1>3, <1>22, <2>1, <2>2, <2>3, TlsWaiting DEF Local
<1> QED
  BY <1>20, <1>21, <1>22, <1>23, <1>24, <1>25, <1>26, <1>27 DEF Local

LEMMA UnconnectedLocal ==
    ASSUME TypeOK, TypeOK', NEW p \in Peers, Local(p), TlsInv(p), OnLink(p),
           UnconnectedDoes(p), mishaps' = {}, ~Doomed(p), ~Doomed(p)'
    PROVE  Local(p)' /\ TlsInv(p)'
<1> DEFINE StaysRun(a, b) == Runs(p, a, b)' <=> Runs(p, a, b)
           StaysDoing(a, b) == \A y : Doing(p, a, b, y)' <=> Doing(p, a, b, y)
<1>1. /\ StaysRun("accept", "statusOn")
      /\ StaysRun("initHigh", "statusOn")
      /\ StaysRun("initLow", "statusOn")
      /\ StaysRun("statusOn", "statusOn")
      /\ StaysRun("cancel", "reset")
      /\ StaysRun("reset", "reset")
      /\ StaysRun("reject", "statusOff")
      /\ StaysRun("reset", "statusOff")
      /\ StaysRun("statusOff", "statusOff")
      /\ StaysRun("reset", "close")
      /\ StaysRun("close", "close")
      /\ StaysRun("reset", "unconnected")
      /\ StaysRun("lost", "unconnected")
      /\ Runs(p, "unconnected", "unconnected")
      /\ StaysRun("reset", "again")
      /\ StaysRun("lost", "again")
      /\ StaysRun("again", "again")
      /\ StaysRun("stop", "stop")
      /\ StaysRun("ready", "ready")
      /\ StaysRun("initFileSenders", "initFileSenders")
      /\ StaysDoing("dial", "request")
      /\ StaysDoing("exchange", "request")
      /\ StaysDoing("connect", "request")
      /\ StaysDoing("recvMsg", "request")
      /\ StaysDoing("request", "request")
      /\ StaysDoing("recvMsg", "established")
      /\ StaysDoing("established", "established")
      /\ StaysDoing("listen", "started")
      /\ StaysDoing("started", "started")
  BY DEF UnconnectedDoes, Finishes, Runs
<1>2. /\ Begun(p)' <=> Begun(p)
      /\ \A y : Asks(p, y)' <=> Asks(p, y)
      /\ ToDial(p)' <=> ToDial(p)
      /\ \A y : Adopts(p, y)' <=> Adopts(p, y)
      /\ Starting(p)' <=> Starting(p)
      /\ \A y : Starts(p, y)' <=> Starts(p, y)
      /\ Agrees(p)' <=> Agrees(p)
      /\ TakesBack(p)' <=> TakesBack(p)
      /\ Leaves(p)' <=> Leaves(p)
      /\ Closes(p)' <=> Closes(p)
      /\ Resets(p)' <=> Resets(p)
  BY <1>1 DEF Adopts, Agrees, Asks, Begun, Closes, Leaves, Resets, Starting, Starts, TakesBack, ToDial
<1>3. LinksKept /\ DOMAIN links' = DOMAIN links
  BY LinksStay DEF UnconnectedDoes, TypeOK, LinksKept
<1>4. /\ Uses(p)' <=> Uses(p)
      /\ Calls(p)' <=> Calls(p)
      /\ Takes(p)' <=> Takes(p)
      /\ Uses(p) => /\ From(sock[p])' = From(sock[p]) /\ To(sock[p])' = To(sock[p])
                    /\ Other(sock[p], p)' = Other(sock[p], p)
  BY <1>3, SocketSame DEF UnconnectedDoes
<1>7. PeerFacts(p) /\ JobRules(p) /\ JobRules(p)' /\ Says(p)
  BY PeerIs, JobsAre, EndSays
<1>8. /\ status'[p] \in {"waiting", "tls", "tcp"} /\ sock'[p] \in DOMAIN links' \cup {Fresh, Nobody}
      /\ Fresh # Nobody /\ Fresh \notin DOMAIN links' /\ Nobody \notin DOMAIN links'
      /\ DOMAIN links' \subseteq Nat
      /\ engine'[p].listening \in BOOLEAN /\ engine'[p].started \in BOOLEAN /\ engine'[p].senders \in BOOLEAN
  BY PeerIsNext
<1>9. /\ Once(p) => Once(p)'
      /\ UNCHANGED <<status[p], sock[p], target[p], reading[p], connected[p], ids[p], partner[p], engine[p], ui[p], asked[p], key[p], candidate[p], Reads(p)>>
      /\ online'[p] = FALSE
      /\ dialing'[p] = FALSE
  BY DEF UnconnectedDoes
<1>11. /\ ToDial(p) => /\ sock[p] = Nobody /\ status[p] = "waiting"
                      /\ ~Resets(p) /\ ~Closes(p) /\ ~Runs(p, "stop", "stop")
       /\ ToDial(p)' => /\ sock'[p] = Nobody /\ status'[p] = "waiting"
                       /\ ~Resets(p)' /\ ~Closes(p)' /\ ~Runs(p, "stop", "stop")'
  BY DEF Doomed, Busy
<1>20. SockInv(p)'
  BY <1>1, <1>2, <1>3, <1>4, <1>7, <1>8, <1>9, <1>11 DEF PeerFacts, JobRules, Says, Local, SockInv, Closes, Ended
<1>21. ReadInv(p)'
  BY <1>1, <1>2, <1>3, <1>4, <1>7, <1>8, <1>9, <1>11 DEF PeerFacts, JobRules, Says, Local, ReadInv, Closes, Ended
<1>22. AskInv(p)'
  BY <1>1, <1>2, <1>3, <1>4, <1>7, <1>8, <1>9, <1>11 DEF PeerFacts, JobRules, Says, Local, SockInv, ReadInv, AskInv, PlaceInv, ConnInv, EngineInv, WindowInv, Closes, Ended
<1>23. PlaceInv(p)'
  BY <1>1, <1>2, <1>3, <1>4, <1>7, <1>8, <1>9, <1>11 DEF PeerFacts, JobRules, Says, Local, PlaceInv, Closes, Ended
<1>24. ConnInv(p)'
  BY <1>1, <1>2, <1>3, <1>4, <1>7, <1>8, <1>9, <1>11 DEF PeerFacts, JobRules, Says, Local, ConnInv, Closes, Ended
<1>25. EngineInv(p)'
  BY <1>1, <1>2, <1>3, <1>4, <1>7, <1>8, <1>9, <1>11 DEF PeerFacts, JobRules, Says, Local, EngineInv, Closes, Ended
<1>26. WindowInv(p)'
  BY <1>1, <1>2, <1>3, <1>4, <1>7, <1>8, <1>9, <1>11 DEF PeerFacts, JobRules, Says, Local, WindowInv, Closes, Ended
<1>27. TlsInv(p)'
  <2>1. \A r \in Peers : r # p => Same(r) /\ key'[r] = key[r]
    BY DEF UnconnectedDoes, Untouched, SameKey
  <2>2. /\ \A d \in DOMAIN links : To(d) = p => Taken(d)' = Taken(d)
        /\ \A d \in DOMAIN links' : To(d)' = p => d \in DOMAIN links
    BY <1>3, LinksStay DEF UnconnectedDoes, TypeOK
  <2>3. status[p] = "tls" /\ Uses(p) /\ Adopts(p, sock[p]) => Adopts(p, sock[p])'
    BY <1>2, <1>9
  <2>4. status[p] = "tls" /\ ~Uses(p) /\ sock[p] = Nobody /\ ~Begun(p) /\ ~Resets(p) /\ ui[p] = "idle" =>
           ~Begun(p)' /\ ~Resets(p)' /\ ui'[p] = "idle"
    BY <1>1, <1>2, <1>3, <1>4, <1>7, <1>8, <1>9, <1>11 DEF PeerFacts, JobRules, Says, Local, PlaceInv, Closes, Ended
  <2> QED
    BY <1>3, <1>9, <1>22, <2>1, <2>2, <2>3, <2>4, TlsSelf DEF Local
<1> QED
  BY <1>20, <1>21, <1>22, <1>23, <1>24, <1>25, <1>26, <1>27 DEF Local

LEMMA AcceptLocal ==
    ASSUME TypeOK, TypeOK', NEW p \in Peers, NEW c \in DOMAIN links, Local(p), TlsInv(p), OnLink(p),
           AcceptDoes(p, c), mishaps' = {}, ~Doomed(p), ~Doomed(p)',
           From(c) = candidate[p]
    PROVE  Local(p)' /\ TlsInv(p)'
<1> DEFINE StaysRun(a, b) == Runs(p, a, b)' <=> Runs(p, a, b)
           StaysDoing(a, b) == \A y : Doing(p, a, b, y)' <=> Doing(p, a, b, y)
<1>1. /\ StaysRun("accept", "statusOn")
      /\ StaysRun("initHigh", "statusOn")
      /\ StaysRun("initLow", "statusOn")
      /\ StaysRun("statusOn", "statusOn")
      /\ StaysRun("cancel", "reset")
      /\ StaysRun("reset", "reset")
      /\ StaysRun("reject", "statusOff")
      /\ StaysRun("reset", "statusOff")
      /\ StaysRun("statusOff", "statusOff")
      /\ StaysRun("reset", "close")
      /\ StaysRun("close", "close")
      /\ StaysRun("reset", "unconnected")
      /\ StaysRun("lost", "unconnected")
      /\ StaysRun("unconnected", "unconnected")
      /\ StaysRun("reset", "again")
      /\ StaysRun("lost", "again")
      /\ StaysRun("again", "again")
      /\ StaysRun("stop", "stop")
      /\ StaysRun("ready", "ready")
      /\ StaysRun("initFileSenders", "initFileSenders")
      /\ StaysDoing("dial", "request")
      /\ StaysDoing("exchange", "request")
      /\ StaysDoing("connect", "request")
      /\ StaysDoing("recvMsg", "request")
      /\ StaysDoing("request", "request")
      /\ \A y : Doing(p, "recvMsg", "established", y)' => Doing(p, "recvMsg", "established", y) \/ y = c
      /\ \A y : Doing(p, "recvMsg", "established", y) => Doing(p, "recvMsg", "established", y)'
      /\ Doing(p, "recvMsg", "established", c)'
      /\ StaysDoing("established", "established")
      /\ StaysDoing("listen", "started")
      /\ StaysDoing("started", "started")
  BY DEF AcceptDoes, Gets, Runs
<1>2. /\ Begun(p)' <=> Begun(p)
      /\ \A y : Asks(p, y)' <=> Asks(p, y)
      /\ ToDial(p)' <=> ToDial(p)
      /\ Starting(p)' <=> Starting(p)
      /\ \A y : Starts(p, y)' <=> Starts(p, y)
      /\ Agrees(p)' <=> Agrees(p)
      /\ TakesBack(p)' <=> TakesBack(p)
      /\ Leaves(p)' <=> Leaves(p)
      /\ Closes(p)' <=> Closes(p)
      /\ Resets(p)' <=> Resets(p)
      /\ Ended(p)' <=> Ended(p)
  BY <1>1 DEF Agrees, Asks, Begun, Closes, Ended, Leaves, Resets, Starting, Starts, TakesBack, ToDial
<1>3. LinksKept /\ DOMAIN links' = DOMAIN links
  BY DEF AcceptDoes, LinksKept
<1>4. /\ Uses(p)' /\ Takes(p)' /\ ~Calls(p)' /\ From(sock[p])' = From(c) /\ To(sock[p])' = p
      /\ Other(sock[p], p)' = From(c) /\ From(c) \in Peers /\ From(c) # p
  BY <1>3, LinkIs DEF AcceptDoes, Uses, Calls, Takes, Kept, TypeOK, Other, From, To
<1>7. PeerFacts(p) /\ JobRules(p) /\ JobRules(p)' /\ Says(p)
  BY PeerIs, JobsAre, EndSays
<1>8. /\ status'[p] \in {"waiting", "tls", "tcp"} /\ sock'[p] \in DOMAIN links' \cup {Fresh, Nobody}
      /\ Fresh # Nobody /\ Fresh \notin DOMAIN links' /\ Nobody \notin DOMAIN links'
      /\ DOMAIN links' \subseteq Nat
      /\ engine'[p].listening \in BOOLEAN /\ engine'[p].started \in BOOLEAN /\ engine'[p].senders \in BOOLEAN
  BY PeerIsNext
<1>9. /\ Once(p) /\ ~Doing(p, "recvMsg", "established", c) => Once(p)'
      /\ status[p] = "tls" /\ To(c) = p /\ ~Taken(c)
      /\ \A h, y : ~Doing(p, h, "established", y)
      /\ UNCHANGED <<status[p], dialing[p], target[p], reading[p], connected[p], ids[p], partner[p], engine[p], ui[p], asked[p], key[p], candidate[p], Reads(p)>>
      /\ sock'[p] = c
      /\ online'[p] = TRUE
  BY DEF AcceptDoes
<1>11. /\ ToDial(p) => /\ sock[p] = Nobody /\ status[p] = "waiting"
                      /\ ~Resets(p) /\ ~Closes(p) /\ ~Runs(p, "stop", "stop")
       /\ ToDial(p)' => /\ sock'[p] = Nobody /\ status'[p] = "waiting"
                       /\ ~Resets(p)' /\ ~Closes(p)' /\ ~Runs(p, "stop", "stop")'
  BY DEF Doomed, Busy
<1>10. /\ sock[p] = Nobody /\ ~Uses(p) /\ ~Begun(p) /\ ~Resets(p) /\ ~Leaves(p) /\ ~TakesBack(p) /\ ui[p] = "idle"
       /\ ~Ended(p) /\ ~Closes(p) /\ ~connected[p] /\ ~Agrees(p) /\ ~asked[p] /\ ~Starting(p)
       /\ ~reading[p] /\ Reads(p) = {} /\ status[p] = "tls"
       /\ \A y : ~Adopts(p, y)
       /\ ~Runs(p, "stop", "stop")
  <2>1. status[p] = "tls" /\ To(c) = p /\ ~Taken(c) /\ \A y : ~Adopts(p, y)
    BY DEF AcceptDoes, Adopts
  <2>2. sock[p] = Nobody
    BY <2>1 DEF TlsInv
  <2>3. ~Uses(p) /\ ~Calls(p) /\ ~Takes(p)
    BY <1>7, <2>2 DEF PeerFacts, Calls, Takes
  <2>4. ~Begun(p) /\ ~Resets(p) /\ ui[p] = "idle"
    BY <2>1, <2>3 DEF TlsInv
  <2>5. ~Ended(p) /\ ~reading[p] /\ Reads(p) = {}
    BY <1>7, <2>1, <2>2, <2>3 DEF Local, SockInv, ReadInv, PeerFacts
  <2>6. ~Closes(p) /\ ~Leaves(p) /\ ~TakesBack(p) /\ ~Runs(p, "stop", "stop")
    BY <1>7, <2>4, <2>5 DEF JobRules
  <2>7. ~connected[p] /\ ~Agrees(p) /\ ~asked[p] /\ ~Starting(p)
    BY <1>7, <2>3, <2>6 DEF Local, ConnInv, PlaceInv
  <2> QED
    BY <2>1, <2>2, <2>3, <2>4, <2>5, <2>6, <2>7
<1>20. SockInv(p)'
  BY <1>1, <1>2, <1>3, <1>4, <1>7, <1>8, <1>9, <1>11, <1>10 DEF PeerFacts, JobRules, Says, Local, SockInv, Adopts
<1>21. ReadInv(p)'
  BY <1>1, <1>2, <1>3, <1>4, <1>7, <1>8, <1>9, <1>11, <1>10 DEF PeerFacts, JobRules, Says, Local, ReadInv, Adopts
<1>22. AskInv(p)'
  BY <1>1, <1>2, <1>3, <1>4, <1>7, <1>8, <1>9, <1>11, <1>10 DEF PeerFacts, JobRules, Says, Local, AskInv, Adopts
<1>23. PlaceInv(p)'
  BY <1>1, <1>2, <1>3, <1>4, <1>7, <1>8, <1>9, <1>11, <1>10 DEF PeerFacts, JobRules, Says, Local, PlaceInv, Adopts
<1>24. ConnInv(p)'
  BY <1>1, <1>2, <1>3, <1>4, <1>7, <1>8, <1>9, <1>11, <1>10 DEF PeerFacts, JobRules, Says, Local, ConnInv, Adopts
<1>25. EngineInv(p)'
  BY <1>1, <1>2, <1>3, <1>4, <1>7, <1>8, <1>9, <1>11, <1>10 DEF PeerFacts, JobRules, Says, Local, SockInv, ReadInv, AskInv, PlaceInv, ConnInv, EngineInv, WindowInv, Adopts, Agrees, Asks, Begun, Closes, Ended, Leaves, Resets, Starting, Starts, TakesBack, ToDial
<1>26. WindowInv(p)'
  BY <1>1, <1>2, <1>3, <1>4, <1>7, <1>8, <1>9, <1>11, <1>10 DEF PeerFacts, JobRules, Says, Local, WindowInv, Adopts
<1>27. TlsInv(p)'
  <2>1. \A r \in Peers : ~Doing(r, "connect", "request", p)'
    <3>1. \A r \in Peers : ~Doing(r, "connect", "request", p)
      BY DEF AcceptDoes, TlsInv
    <3>2. \A r \in Peers : r # p => Same(r)
      BY DEF AcceptDoes, Untouched
    <3> QED
      BY <1>1, <3>1, <3>2 DEF Same
  <2>2. \A d \in DOMAIN links' : To(d)' = p => Taken(d)'
    BY <1>3 DEF AcceptDoes, TlsInv, LinksKept, Kept
  <2>3. Uses(p)' /\ Adopts(p, sock[p])'
    BY <1>1, <1>4, <1>9 DEF Adopts
  <2> QED
    BY <2>1, <2>2, <2>3 DEF TlsInv
<1> QED
  BY <1>20, <1>21, <1>22, <1>23, <1>24, <1>25, <1>26, <1>27 DEF Local

LEMMA EstablishLocal ==
    ASSUME TypeOK, TypeOK', NEW p \in Peers, NEW x, Local(p), TlsInv(p), OnLink(p),
           EstablishDoes(p, x), mishaps' = {}, ~Doomed(p), ~Doomed(p)'
    PROVE  Local(p)' /\ TlsInv(p)'
<1> DEFINE StaysRun(a, b) == Runs(p, a, b)' <=> Runs(p, a, b)
           StaysDoing(a, b) == \A y : Doing(p, a, b, y)' <=> Doing(p, a, b, y)
<1>1. /\ StaysRun("accept", "statusOn")
      /\ StaysRun("initHigh", "statusOn")
      /\ StaysRun("initLow", "statusOn")
      /\ StaysRun("statusOn", "statusOn")
      /\ StaysRun("cancel", "reset")
      /\ StaysRun("reset", "reset")
      /\ StaysRun("reject", "statusOff")
      /\ StaysRun("reset", "statusOff")
      /\ StaysRun("statusOff", "statusOff")
      /\ StaysRun("reset", "close")
      /\ StaysRun("close", "close")
      /\ StaysRun("reset", "unconnected")
      /\ StaysRun("lost", "unconnected")
      /\ StaysRun("unconnected", "unconnected")
      /\ StaysRun("reset", "again")
      /\ StaysRun("lost", "again")
      /\ StaysRun("again", "again")
      /\ StaysRun("stop", "stop")
      /\ StaysRun("ready", "ready")
      /\ StaysRun("initFileSenders", "initFileSenders")
      /\ StaysDoing("dial", "request")
      /\ StaysDoing("exchange", "request")
      /\ StaysDoing("connect", "request")
      /\ StaysDoing("recvMsg", "request")
      /\ StaysDoing("request", "request")
      /\ StaysDoing("recvMsg", "established")
      /\ \A y : Doing(p, "established", "established", y)' => Doing(p, "established", "established", y)
      /\ \A y : Doing(p, "established", "established", y) => Doing(p, "established", "established", y)' \/ y = x
      /\ Doing(p, "established", "established", x)
      /\ Once(p) => ~Doing(p, "established", "established", x)'
      /\ StaysDoing("listen", "started")
      /\ StaysDoing("started", "started")
  BY DEF EstablishDoes, Finishes, Runs
<1>2. /\ Begun(p)' <=> Begun(p)
      /\ \A y : Asks(p, y)' <=> Asks(p, y)
      /\ ToDial(p)' <=> ToDial(p)
      /\ Starting(p)' <=> Starting(p)
      /\ \A y : Starts(p, y)' <=> Starts(p, y)
      /\ Agrees(p)' <=> Agrees(p)
      /\ TakesBack(p)' <=> TakesBack(p)
      /\ Leaves(p)' <=> Leaves(p)
      /\ Closes(p)' <=> Closes(p)
      /\ Resets(p)' <=> Resets(p)
      /\ Ended(p)' <=> Ended(p)
  BY <1>1 DEF Agrees, Asks, Begun, Closes, Ended, Leaves, Resets, Starting, Starts, TakesBack, ToDial
<1>3. LinksKept /\ DOMAIN links' = DOMAIN links
  BY LinksStay DEF EstablishDoes, TypeOK, LinksKept
<1>4. /\ Uses(p)' <=> Uses(p)
      /\ Calls(p)' <=> Calls(p)
      /\ Takes(p)' <=> Takes(p)
      /\ Uses(p) => /\ From(sock[p])' = From(sock[p]) /\ To(sock[p])' = To(sock[p])
                    /\ Other(sock[p], p)' = Other(sock[p], p)
  BY <1>3, SocketSame DEF EstablishDoes
<1>7. PeerFacts(p) /\ JobRules(p) /\ JobRules(p)' /\ Says(p)
  BY PeerIs, JobsAre, EndSays
<1>8. /\ status'[p] \in {"waiting", "tls", "tcp"} /\ sock'[p] \in DOMAIN links' \cup {Fresh, Nobody}
      /\ Fresh # Nobody /\ Fresh \notin DOMAIN links' /\ Nobody \notin DOMAIN links'
      /\ DOMAIN links' \subseteq Nat
      /\ engine'[p].listening \in BOOLEAN /\ engine'[p].started \in BOOLEAN /\ engine'[p].senders \in BOOLEAN
  BY PeerIsNext
<1>9. /\ Once(p) => ~Doing(p, "established", "established", x)'
      /\ Once(p) => Once(p)'
      /\ x \in Nat
      /\ UNCHANGED <<sock[p], online[p], dialing[p], target[p], reading[p], connected[p], ids[p], partner[p], engine[p], ui[p], asked[p], key[p], candidate[p], Reads(p)>>
      /\ status'[p] = "tcp"
  BY DEF EstablishDoes
<1>11. /\ ToDial(p) => /\ sock[p] = Nobody /\ status[p] = "waiting"
                      /\ ~Resets(p) /\ ~Closes(p) /\ ~Runs(p, "stop", "stop")
       /\ ToDial(p)' => /\ sock'[p] = Nobody /\ status'[p] = "waiting"
                       /\ ~Resets(p)' /\ ~Closes(p)' /\ ~Runs(p, "stop", "stop")'
  BY DEF Doomed, Busy
<1>10. /\ sock[p] = x /\ Takes(p) /\ Uses(p) /\ ~Calls(p) /\ status[p] = "tls" /\ x \in DOMAIN links
       /\ \A y \in Nat : Adopts(p, y) => y = x
       /\ ~Doing(p, "recvMsg", "established", x)
       /\ ~Ended(p)
  <2>1. Doing(p, "established", "established", x) /\ x \in Nat
    BY DEF EstablishDoes, Finishes
  <2>2. x \in DOMAIN links /\ ~Doing(p, "recvMsg", "established", x) /\ Adopts(p, x)
    BY <2>1 DEF Local, PlaceInv, Adopts
  <2>3. sock[p] = x /\ Takes(p) /\ status[p] = "tls"
    BY <2>2 DEF Local, PlaceInv
  <2>4. ~Ended(p)
    BY <2>3 DEF Local, SockInv
  <2>5. \A y \in Nat : Adopts(p, y) => y = x
    BY <2>3 DEF Local, PlaceInv
  <2> QED
    BY <1>7, <2>2, <2>3, <2>4, <2>5 DEF PeerFacts
<1>20. SockInv(p)'
  BY <1>1, <1>2, <1>3, <1>4, <1>7, <1>8, <1>9, <1>11, <1>10 DEF PeerFacts, JobRules, Says, Local, SockInv, Adopts
<1>21. ReadInv(p)'
  BY <1>1, <1>2, <1>3, <1>4, <1>7, <1>8, <1>9, <1>11, <1>10 DEF PeerFacts, JobRules, Says, Local, ReadInv, Adopts
<1>22. AskInv(p)'
  BY <1>1, <1>2, <1>3, <1>4, <1>7, <1>8, <1>9, <1>11, <1>10 DEF PeerFacts, JobRules, Says, Local, AskInv, Adopts
<1>23. PlaceInv(p)'
  BY <1>1, <1>2, <1>3, <1>4, <1>7, <1>8, <1>9, <1>11, <1>10 DEF PeerFacts, JobRules, Says, Local, SockInv, ReadInv, AskInv, PlaceInv, ConnInv, EngineInv, WindowInv, Adopts
<1>24. ConnInv(p)'
  BY <1>1, <1>2, <1>3, <1>4, <1>7, <1>8, <1>9, <1>11, <1>10 DEF PeerFacts, JobRules, Says, Local, ConnInv, Adopts
<1>25. EngineInv(p)'
  BY <1>1, <1>2, <1>3, <1>4, <1>7, <1>8, <1>9, <1>11, <1>10 DEF PeerFacts, JobRules, Says, Local, EngineInv, Adopts
<1>26. WindowInv(p)'
  BY <1>1, <1>2, <1>3, <1>4, <1>7, <1>8, <1>9, <1>11, <1>10 DEF PeerFacts, JobRules, Says, Local, WindowInv, Adopts
<1>27. TlsInv(p)'
  <2>1. \A r \in Peers : r # p => Same(r)
    BY DEF EstablishDoes, Untouched, SameKey
  <2>2. /\ \A d \in DOMAIN links : To(d) = p => Taken(d)' = Taken(d)
        /\ \A d \in DOMAIN links' : To(d)' = p => d \in DOMAIN links
    BY <1>3, LinksStay DEF EstablishDoes, TypeOK
  <2>3. (status[p] # "tls" \/ sock[p] # Nobody) /\ status'[p] # "tls"
    BY <1>1, <1>2, <1>3, <1>4, <1>7, <1>8, <1>9, <1>11, <1>10 DEF PeerFacts, JobRules, Local, SockInv, AskInv, TlsInv, Begun, Asks, Doomed, Busy
  <2> QED
    BY <1>3, <1>22, <2>1, <2>2, <2>3, TlsWaiting DEF Local
<1> QED
  BY <1>20, <1>21, <1>22, <1>23, <1>24, <1>25, <1>26, <1>27 DEF Local

LEMMA RecvMsgRequestLocal ==
    ASSUME TypeOK, TypeOK', NEW p \in Peers, NEW x, Local(p), TlsInv(p), OnLink(p),
           RecvMsgRequestDoes(p, x), mishaps' = {}, ~Doomed(p), ~Doomed(p)',
           online[p]
    PROVE  Local(p)' /\ TlsInv(p)'
<1> DEFINE StaysRun(a, b) == Runs(p, a, b)' <=> Runs(p, a, b)
           StaysDoing(a, b) == \A y : Doing(p, a, b, y)' <=> Doing(p, a, b, y)
<1>1. /\ StaysRun("accept", "statusOn")
      /\ StaysRun("initHigh", "statusOn")
      /\ StaysRun("initLow", "statusOn")
      /\ StaysRun("statusOn", "statusOn")
      /\ StaysRun("cancel", "reset")
      /\ StaysRun("reset", "reset")
      /\ StaysRun("reject", "statusOff")
      /\ StaysRun("reset", "statusOff")
      /\ StaysRun("statusOff", "statusOff")
      /\ StaysRun("reset", "close")
      /\ StaysRun("close", "close")
      /\ StaysRun("reset", "unconnected")
      /\ StaysRun("lost", "unconnected")
      /\ StaysRun("unconnected", "unconnected")
      /\ StaysRun("reset", "again")
      /\ StaysRun("lost", "again")
      /\ StaysRun("again", "again")
      /\ StaysRun("stop", "stop")
      /\ StaysRun("ready", "ready")
      /\ StaysRun("initFileSenders", "initFileSenders")
      /\ StaysDoing("dial", "request")
      /\ StaysDoing("exchange", "request")
      /\ StaysDoing("connect", "request")
      /\ \A y : Doing(p, "recvMsg", "request", y)' => Doing(p, "recvMsg", "request", y)
      /\ \A y : Doing(p, "recvMsg", "request", y) => Doing(p, "recvMsg", "request", y)' \/ y = x
      /\ Doing(p, "recvMsg", "request", x)
      /\ Once(p) => ~Doing(p, "recvMsg", "request", x)'
      /\ \A y : Doing(p, "request", "request", y)' => Doing(p, "request", "request", y) \/ y = x
      /\ \A y : Doing(p, "request", "request", y) => Doing(p, "request", "request", y)'
      /\ Doing(p, "request", "request", x)'
      /\ StaysDoing("recvMsg", "established")
      /\ StaysDoing("established", "established")
      /\ StaysDoing("listen", "started")
      /\ StaysDoing("started", "started")
  BY DEF RecvMsgRequestDoes, Advances, Runs
<1>2. /\ ToDial(p)' <=> ToDial(p)
      /\ \A y : Adopts(p, y)' <=> Adopts(p, y)
      /\ Starting(p)' <=> Starting(p)
      /\ \A y : Starts(p, y)' <=> Starts(p, y)
      /\ Agrees(p)' <=> Agrees(p)
      /\ TakesBack(p)' <=> TakesBack(p)
      /\ Leaves(p)' <=> Leaves(p)
      /\ Closes(p)' <=> Closes(p)
      /\ Resets(p)' <=> Resets(p)
      /\ Ended(p)' <=> Ended(p)
  BY <1>1 DEF Adopts, Agrees, Closes, Ended, Leaves, Resets, Starting, Starts, TakesBack, ToDial
<1>3. LinksKept /\ DOMAIN links' = DOMAIN links
  BY LinksStay DEF RecvMsgRequestDoes, TypeOK, LinksKept
<1>4. /\ Uses(p)' <=> Uses(p)
      /\ Calls(p)' <=> Calls(p)
      /\ Takes(p)' <=> Takes(p)
      /\ Uses(p) => /\ From(sock[p])' = From(sock[p]) /\ To(sock[p])' = To(sock[p])
                    /\ Other(sock[p], p)' = Other(sock[p], p)
  BY <1>3, SocketSame DEF RecvMsgRequestDoes
<1>7. PeerFacts(p) /\ JobRules(p) /\ JobRules(p)' /\ Says(p)
  BY PeerIs, JobsAre, EndSays
<1>8. /\ status'[p] \in {"waiting", "tls", "tcp"} /\ sock'[p] \in DOMAIN links' \cup {Fresh, Nobody}
      /\ Fresh # Nobody /\ Fresh \notin DOMAIN links' /\ Nobody \notin DOMAIN links'
      /\ DOMAIN links' \subseteq Nat
      /\ engine'[p].listening \in BOOLEAN /\ engine'[p].started \in BOOLEAN /\ engine'[p].senders \in BOOLEAN
  BY PeerIsNext
<1>9. /\ Once(p) => ~Doing(p, "recvMsg", "request", x)'
      /\ Once(p) /\ ~Doing(p, "request", "request", x) => Once(p)'
      /\ x \in Peers /\ x # p
      /\ UNCHANGED <<status[p], sock[p], online[p], dialing[p], target[p], connected[p], ids[p], partner[p], engine[p], ui[p], asked[p], key[p], candidate[p]>>
      /\ reading'[p] = TRUE
      /\ Reads(p)' = Reads(p) \cup {sock[p]}
  BY DEF RecvMsgRequestDoes
<1>11. /\ ToDial(p) => /\ sock[p] = Nobody /\ status[p] = "waiting"
                      /\ ~Resets(p) /\ ~Closes(p) /\ ~Runs(p, "stop", "stop")
       /\ ToDial(p)' => /\ sock'[p] = Nobody /\ status'[p] = "waiting"
                       /\ ~Resets(p)' /\ ~Closes(p)' /\ ~Runs(p, "stop", "stop")'
  BY DEF Doomed, Busy
<1>20. SockInv(p)'
  BY <1>1, <1>2, <1>3, <1>4, <1>7, <1>8, <1>9, <1>11 DEF PeerFacts, JobRules, Says, Local, SockInv, Asks, Begun
<1>21. ReadInv(p)'
  BY <1>1, <1>2, <1>3, <1>4, <1>7, <1>8, <1>9, <1>11 DEF PeerFacts, JobRules, Says, Local, SockInv, ReadInv, AskInv, PlaceInv, ConnInv, EngineInv, WindowInv, Asks, Begun
<1>22. AskInv(p)'
  BY <1>1, <1>2, <1>3, <1>4, <1>7, <1>8, <1>9, <1>11 DEF PeerFacts, JobRules, Says, Local, AskInv, Asks, Begun
<1>23. PlaceInv(p)'
  BY <1>1, <1>2, <1>3, <1>4, <1>7, <1>8, <1>9, <1>11 DEF PeerFacts, JobRules, Says, Local, PlaceInv, Asks, Begun
<1>24. ConnInv(p)'
  BY <1>1, <1>2, <1>3, <1>4, <1>7, <1>8, <1>9, <1>11 DEF PeerFacts, JobRules, Says, Local, ConnInv, Asks, Begun
<1>25. EngineInv(p)'
  BY <1>1, <1>2, <1>3, <1>4, <1>7, <1>8, <1>9, <1>11 DEF PeerFacts, JobRules, Says, Local, EngineInv, Asks, Begun
<1>26. WindowInv(p)'
  BY <1>1, <1>2, <1>3, <1>4, <1>7, <1>8, <1>9, <1>11 DEF PeerFacts, JobRules, Says, Local, WindowInv, Asks, Begun
<1>27. TlsInv(p)'
  <2>1. \A r \in Peers : r # p => Same(r) /\ key'[r] = key[r]
    BY DEF RecvMsgRequestDoes, Untouched, SameKey
  <2>2. /\ \A d \in DOMAIN links : To(d) = p => Taken(d)' = Taken(d)
        /\ \A d \in DOMAIN links' : To(d)' = p => d \in DOMAIN links
    BY <1>3, LinksStay DEF RecvMsgRequestDoes, TypeOK
  <2>3. status[p] = "tls" /\ Uses(p) /\ Adopts(p, sock[p]) => Adopts(p, sock[p])'
    BY <1>2, <1>9
  <2>4. status[p] = "tls" /\ ~Uses(p) /\ sock[p] = Nobody /\ ~Begun(p) /\ ~Resets(p) /\ ui[p] = "idle" =>
           ~Begun(p)' /\ ~Resets(p)' /\ ui'[p] = "idle"
    BY <1>1, <1>2, <1>3, <1>4, <1>7, <1>8, <1>9, <1>11 DEF PeerFacts, JobRules, Says, Local, PlaceInv, Asks, Begun
  <2> QED
    BY <1>3, <1>9, <1>22, <2>1, <2>2, <2>3, <2>4, TlsSelf DEF Local
<1> QED
  BY <1>20, <1>21, <1>22, <1>23, <1>24, <1>25, <1>26, <1>27 DEF Local

LEMMA RecvMsgAcceptedLocal ==
    ASSUME TypeOK, TypeOK', NEW p \in Peers, NEW x, Local(p), TlsInv(p), OnLink(p),
           RecvMsgAcceptedDoes(p, x), mishaps' = {}, ~Doomed(p), ~Doomed(p)',
           online[p]
    PROVE  Local(p)' /\ TlsInv(p)'
<1> DEFINE StaysRun(a, b) == Runs(p, a, b)' <=> Runs(p, a, b)
           StaysDoing(a, b) == \A y : Doing(p, a, b, y)' <=> Doing(p, a, b, y)
<1>1. /\ StaysRun("accept", "statusOn")
      /\ StaysRun("initHigh", "statusOn")
      /\ StaysRun("initLow", "statusOn")
      /\ StaysRun("statusOn", "statusOn")
      /\ StaysRun("cancel", "reset")
      /\ StaysRun("reset", "reset")
      /\ StaysRun("reject", "statusOff")
      /\ StaysRun("reset", "statusOff")
      /\ StaysRun("statusOff", "statusOff")
      /\ StaysRun("reset", "close")
      /\ StaysRun("close", "close")
      /\ StaysRun("reset", "unconnected")
      /\ StaysRun("lost", "unconnected")
      /\ StaysRun("unconnected", "unconnected")
      /\ StaysRun("reset", "again")
      /\ StaysRun("lost", "again")
      /\ StaysRun("again", "again")
      /\ StaysRun("stop", "stop")
      /\ StaysRun("ready", "ready")
      /\ StaysRun("initFileSenders", "initFileSenders")
      /\ StaysDoing("dial", "request")
      /\ StaysDoing("exchange", "request")
      /\ StaysDoing("connect", "request")
      /\ StaysDoing("recvMsg", "request")
      /\ StaysDoing("request", "request")
      /\ \A y : Doing(p, "recvMsg", "established", y)' => Doing(p, "recvMsg", "established", y)
      /\ \A y : Doing(p, "recvMsg", "established", y) => Doing(p, "recvMsg", "established", y)' \/ y = x
      /\ Doing(p, "recvMsg", "established", x)
      /\ Once(p) => ~Doing(p, "recvMsg", "established", x)'
      /\ \A y : Doing(p, "established", "established", y)' => Doing(p, "established", "established", y) \/ y = x
      /\ \A y : Doing(p, "established", "established", y) => Doing(p, "established", "established", y)'
      /\ Doing(p, "established", "established", x)'
      /\ StaysDoing("listen", "started")
      /\ StaysDoing("started", "started")
  BY DEF RecvMsgAcceptedDoes, Advances, Runs
<1>2. /\ Begun(p)' <=> Begun(p)
      /\ \A y : Asks(p, y)' <=> Asks(p, y)
      /\ ToDial(p)' <=> ToDial(p)
      /\ Starting(p)' <=> Starting(p)
      /\ \A y : Starts(p, y)' <=> Starts(p, y)
      /\ Agrees(p)' <=> Agrees(p)
      /\ TakesBack(p)' <=> TakesBack(p)
      /\ Leaves(p)' <=> Leaves(p)
      /\ Closes(p)' <=> Closes(p)
      /\ Resets(p)' <=> Resets(p)
      /\ Ended(p)' <=> Ended(p)
  BY <1>1 DEF Agrees, Asks, Begun, Closes, Ended, Leaves, Resets, Starting, Starts, TakesBack, ToDial
<1>3. LinksKept /\ DOMAIN links' = DOMAIN links
  BY LinksStay DEF RecvMsgAcceptedDoes, TypeOK, LinksKept
<1>4. /\ Uses(p)' <=> Uses(p)
      /\ Calls(p)' <=> Calls(p)
      /\ Takes(p)' <=> Takes(p)
      /\ Uses(p) => /\ From(sock[p])' = From(sock[p]) /\ To(sock[p])' = To(sock[p])
                    /\ Other(sock[p], p)' = Other(sock[p], p)
  BY <1>3, SocketSame DEF RecvMsgAcceptedDoes
<1>7. PeerFacts(p) /\ JobRules(p) /\ JobRules(p)' /\ Says(p)
  BY PeerIs, JobsAre, EndSays
<1>8. /\ status'[p] \in {"waiting", "tls", "tcp"} /\ sock'[p] \in DOMAIN links' \cup {Fresh, Nobody}
      /\ Fresh # Nobody /\ Fresh \notin DOMAIN links' /\ Nobody \notin DOMAIN links'
      /\ DOMAIN links' \subseteq Nat
      /\ engine'[p].listening \in BOOLEAN /\ engine'[p].started \in BOOLEAN /\ engine'[p].senders \in BOOLEAN
  BY PeerIsNext
<1>9. /\ Once(p) => ~Doing(p, "recvMsg", "established", x)'
      /\ Once(p) /\ ~Doing(p, "established", "established", x) => Once(p)'
      /\ x \in Nat
      /\ UNCHANGED <<status[p], sock[p], online[p], dialing[p], target[p], connected[p], ids[p], partner[p], engine[p], ui[p], asked[p], key[p], candidate[p]>>
      /\ reading'[p] = TRUE
      /\ Reads(p)' = Reads(p) \cup {sock[p]}
  BY DEF RecvMsgAcceptedDoes
<1>11. /\ ToDial(p) => /\ sock[p] = Nobody /\ status[p] = "waiting"
                      /\ ~Resets(p) /\ ~Closes(p) /\ ~Runs(p, "stop", "stop")
       /\ ToDial(p)' => /\ sock'[p] = Nobody /\ status'[p] = "waiting"
                       /\ ~Resets(p)' /\ ~Closes(p)' /\ ~Runs(p, "stop", "stop")'
  BY DEF Doomed, Busy
<1>20. SockInv(p)'
  BY <1>1, <1>2, <1>3, <1>4, <1>7, <1>8, <1>9, <1>11 DEF PeerFacts, JobRules, Says, Local, SockInv, Adopts
<1>21. ReadInv(p)'
  BY <1>1, <1>2, <1>3, <1>4, <1>7, <1>8, <1>9, <1>11 DEF PeerFacts, JobRules, Says, Local, SockInv, ReadInv, AskInv, PlaceInv, ConnInv, EngineInv, WindowInv, Adopts
<1>22. AskInv(p)'
  BY <1>1, <1>2, <1>3, <1>4, <1>7, <1>8, <1>9, <1>11 DEF PeerFacts, JobRules, Says, Local, SockInv, ReadInv, AskInv, PlaceInv, ConnInv, EngineInv, WindowInv, Adopts
<1>23. PlaceInv(p)'
  BY <1>1, <1>2, <1>3, <1>4, <1>7, <1>8, <1>9, <1>11 DEF PeerFacts, JobRules, Says, Local, SockInv, ReadInv, AskInv, PlaceInv, ConnInv, EngineInv, WindowInv, Adopts
<1>24. ConnInv(p)'
  BY <1>1, <1>2, <1>3, <1>4, <1>7, <1>8, <1>9, <1>11 DEF PeerFacts, JobRules, Says, Local, ConnInv, Adopts
<1>25. EngineInv(p)'
  BY <1>1, <1>2, <1>3, <1>4, <1>7, <1>8, <1>9, <1>11 DEF PeerFacts, JobRules, Says, Local, EngineInv, Adopts
<1>26. WindowInv(p)'
  BY <1>1, <1>2, <1>3, <1>4, <1>7, <1>8, <1>9, <1>11 DEF PeerFacts, JobRules, Says, Local, WindowInv, Adopts
<1>27. TlsInv(p)'
  <2>1. \A r \in Peers : r # p => Same(r) /\ key'[r] = key[r]
    BY DEF RecvMsgAcceptedDoes, Untouched, SameKey
  <2>2. /\ \A d \in DOMAIN links : To(d) = p => Taken(d)' = Taken(d)
        /\ \A d \in DOMAIN links' : To(d)' = p => d \in DOMAIN links
    BY <1>3, LinksStay DEF RecvMsgAcceptedDoes, TypeOK
  <2>3. status[p] = "tls" /\ Uses(p) /\ Adopts(p, sock[p]) => Adopts(p, sock[p])'
    BY <1>1, <1>9 DEF Adopts
  <2>4. status[p] = "tls" /\ ~Uses(p) /\ sock[p] = Nobody /\ ~Begun(p) /\ ~Resets(p) /\ ui[p] = "idle" =>
           ~Begun(p)' /\ ~Resets(p)' /\ ui'[p] = "idle"
    BY <1>1, <1>2, <1>3, <1>4, <1>7, <1>8, <1>9, <1>11 DEF PeerFacts, JobRules, Says, Local, PlaceInv, Adopts
  <2> QED
    BY <1>3, <1>9, <1>22, <2>1, <2>2, <2>3, <2>4, TlsSelf DEF Local
<1> QED
  BY <1>20, <1>21, <1>22, <1>23, <1>24, <1>25, <1>26, <1>27 DEF Local

LEMMA ResetCloseLocal ==
    ASSUME TypeOK, TypeOK', NEW p \in Peers, Local(p), TlsInv(p), OnLink(p),
           ResetCloseDoes(p), mishaps' = {}, ~Doomed(p), ~Doomed(p)'
    PROVE  Local(p)' /\ TlsInv(p)'
<1> DEFINE StaysRun(a, b) == Runs(p, a, b)' <=> Runs(p, a, b)
           StaysDoing(a, b) == \A y : Doing(p, a, b, y)' <=> Doing(p, a, b, y)
<1>1. /\ StaysRun("accept", "statusOn")
      /\ StaysRun("initHigh", "statusOn")
      /\ StaysRun("initLow", "statusOn")
      /\ StaysRun("statusOn", "statusOn")
      /\ StaysRun("cancel", "reset")
      /\ StaysRun("reset", "reset")
      /\ StaysRun("reject", "statusOff")
      /\ StaysRun("reset", "statusOff")
      /\ StaysRun("statusOff", "statusOff")
      /\ Runs(p, "reset", "close")
      /\ Runs(p, "close", "close")'
      /\ StaysRun("reset", "unconnected")
      /\ StaysRun("lost", "unconnected")
      /\ StaysRun("unconnected", "unconnected")
      /\ StaysRun("reset", "again")
      /\ StaysRun("lost", "again")
      /\ StaysRun("again", "again")
      /\ StaysRun("stop", "stop")
      /\ StaysRun("ready", "ready")
      /\ StaysRun("initFileSenders", "initFileSenders")
      /\ StaysDoing("dial", "request")
      /\ StaysDoing("exchange", "request")
      /\ StaysDoing("connect", "request")
      /\ StaysDoing("recvMsg", "request")
      /\ StaysDoing("request", "request")
      /\ StaysDoing("recvMsg", "established")
      /\ StaysDoing("established", "established")
      /\ StaysDoing("listen", "started")
      /\ StaysDoing("started", "started")
  BY DEF ResetCloseDoes, Advances, Runs
<1>2. /\ Begun(p)' <=> Begun(p)
      /\ \A y : Asks(p, y)' <=> Asks(p, y)
      /\ ToDial(p)' <=> ToDial(p)
      /\ \A y : Adopts(p, y)' <=> Adopts(p, y)
      /\ Starting(p)' <=> Starting(p)
      /\ \A y : Starts(p, y)' <=> Starts(p, y)
      /\ Agrees(p)' <=> Agrees(p)
      /\ TakesBack(p)' <=> TakesBack(p)
  BY <1>1 DEF Adopts, Agrees, Asks, Begun, Starting, Starts, TakesBack, ToDial
<1>3. LinksKept /\ DOMAIN links' = DOMAIN links
  BY DEF ResetCloseDoes, LinksKept
<1>4. ~Uses(p)' /\ ~Calls(p)' /\ ~Takes(p)'
  BY PeerIsNext DEF ResetCloseDoes, Uses, Calls, Takes
<1>7. PeerFacts(p) /\ JobRules(p) /\ JobRules(p)' /\ Says(p)
  BY PeerIs, JobsAre, EndSays
<1>8. /\ status'[p] \in {"waiting", "tls", "tcp"} /\ sock'[p] \in DOMAIN links' \cup {Fresh, Nobody}
      /\ Fresh # Nobody /\ Fresh \notin DOMAIN links' /\ Nobody \notin DOMAIN links'
      /\ DOMAIN links' \subseteq Nat
      /\ engine'[p].listening \in BOOLEAN /\ engine'[p].started \in BOOLEAN /\ engine'[p].senders \in BOOLEAN
  BY PeerIsNext
<1>9. /\ Once(p) => Once(p)'
      /\ UNCHANGED <<online[p], connected[p], ids[p], partner[p], engine[p], ui[p], asked[p], key[p], Reads(p)>>
      /\ sock'[p] = Nobody
      /\ reading'[p] = FALSE
      /\ candidate'[p] = Nobody
      /\ target'[p] = Nobody
      /\ status'[p] = "waiting"
  BY DEF ResetCloseDoes
<1>11. /\ ToDial(p) => /\ sock[p] = Nobody /\ status[p] = "waiting"
                      /\ ~Resets(p) /\ ~Closes(p) /\ ~Runs(p, "stop", "stop")
       /\ ToDial(p)' => /\ sock'[p] = Nobody /\ status'[p] = "waiting"
                       /\ ~Resets(p)' /\ ~Closes(p)' /\ ~Runs(p, "stop", "stop")'
  BY DEF Doomed, Busy
<1>5. ~Beginning(p)
  BY DEF ResetCloseDoes
<1>6. /\ ~ToDial(p) /\ ~Agrees(p) /\ ~Starting(p) /\ (\A d : ~Adopts(p, d))
      /\ ~Runs(p, "initLow", "statusOn") /\ ~Runs(p, "initHigh", "statusOn")
      /\ ~Runs(p, "accept", "statusOn") /\ ~Runs(p, "statusOn", "statusOn")
      /\ \A y : ~Doing(p, "exchange", "request", y) /\ ~Doing(p, "connect", "request", y)
                /\ ~Doing(p, "recvMsg", "request", y) /\ ~Doing(p, "listen", "started", y)
                /\ ~Doing(p, "started", "started", y)
  BY <1>5, BeginsNothing
<1>20. SockInv(p)'
  BY <1>1, <1>2, <1>3, <1>4, <1>7, <1>8, <1>9, <1>11, <1>6 DEF PeerFacts, JobRules, Says, Local, SockInv, Closes, Ended, Leaves, Resets, TakesBack
<1>21. ReadInv(p)'
  BY <1>1, <1>2, <1>3, <1>4, <1>7, <1>8, <1>9, <1>11, <1>6 DEF PeerFacts, JobRules, Says, Local, ReadInv, Closes, Ended, Leaves, Resets, TakesBack
<1>22. AskInv(p)'
  BY <1>1, <1>2, <1>3, <1>4, <1>7, <1>8, <1>9, <1>11, <1>6 DEF PeerFacts, JobRules, Says, Local, SockInv, ReadInv, AskInv, PlaceInv, ConnInv, EngineInv, WindowInv, Adopts, Agrees, Asks, Begun, Closes, Ended, Leaves, Resets, Starting, Starts, TakesBack, ToDial
<1>23. PlaceInv(p)'
  BY <1>1, <1>2, <1>3, <1>4, <1>7, <1>8, <1>9, <1>11, <1>6 DEF PeerFacts, JobRules, Says, Local, SockInv, ReadInv, AskInv, PlaceInv, ConnInv, EngineInv, WindowInv, Closes, Ended, Leaves, Resets, TakesBack
<1>24. ConnInv(p)'
  BY <1>1, <1>2, <1>3, <1>4, <1>7, <1>8, <1>9, <1>11, <1>6 DEF PeerFacts, JobRules, Says, Local, ConnInv, Closes, Ended, Leaves, Resets, TakesBack
<1>25. EngineInv(p)'
  BY <1>1, <1>2, <1>3, <1>4, <1>7, <1>8, <1>9, <1>11, <1>6 DEF PeerFacts, JobRules, Says, Local, EngineInv, Closes, Ended, Leaves, Resets, TakesBack
<1>26. WindowInv(p)'
  BY <1>1, <1>2, <1>3, <1>4, <1>7, <1>8, <1>9, <1>11, <1>6 DEF PeerFacts, JobRules, Says, Local, WindowInv, Closes, Ended, Leaves, Resets, TakesBack
<1>27. TlsInv(p)'
  <2>1. \A r \in Peers : r # p => Same(r)
    BY DEF ResetCloseDoes, Untouched, SameKey
  <2>2. /\ \A d \in DOMAIN links : To(d) = p => Taken(d)' = Taken(d)
        /\ \A d \in DOMAIN links' : To(d)' = p => d \in DOMAIN links
    BY <1>3 DEF ResetCloseDoes
  <2>3. (status[p] # "tls" \/ sock[p] # Nobody) /\ status'[p] # "tls"
    BY <1>1, <1>2, <1>3, <1>4, <1>7, <1>8, <1>9, <1>11, <1>6 DEF PeerFacts, JobRules, Local, SockInv, AskInv, TlsInv, Begun, Asks, Doomed, Busy
  <2> QED
    BY <1>3, <1>22, <2>1, <2>2, <2>3, TlsWaiting DEF Local
<1> QED
  BY <1>20, <1>21, <1>22, <1>23, <1>24, <1>25, <1>26, <1>27 DEF Local

LEMMA ResetUnconnectedLocal ==
    ASSUME TypeOK, TypeOK', NEW p \in Peers, Local(p), TlsInv(p), OnLink(p),
           ResetUnconnectedDoes(p), mishaps' = {}, ~Doomed(p), ~Doomed(p)'
    PROVE  Local(p)' /\ TlsInv(p)'
<1> DEFINE StaysRun(a, b) == Runs(p, a, b)' <=> Runs(p, a, b)
           StaysDoing(a, b) == \A y : Doing(p, a, b, y)' <=> Doing(p, a, b, y)
<1>1. /\ StaysRun("accept", "statusOn")
      /\ StaysRun("initHigh", "statusOn")
      /\ StaysRun("initLow", "statusOn")
      /\ StaysRun("statusOn", "statusOn")
      /\ StaysRun("cancel", "reset")
      /\ StaysRun("reset", "reset")
      /\ StaysRun("reject", "statusOff")
      /\ StaysRun("reset", "statusOff")
      /\ StaysRun("statusOff", "statusOff")
      /\ StaysRun("reset", "close")
      /\ StaysRun("close", "close")
      /\ Runs(p, "reset", "unconnected")
      /\ Runs(p, "lost", "unconnected")'
      /\ StaysRun("unconnected", "unconnected")
      /\ StaysRun("reset", "again")
      /\ StaysRun("lost", "again")
      /\ StaysRun("again", "again")
      /\ StaysRun("stop", "stop")
      /\ StaysRun("ready", "ready")
      /\ StaysRun("initFileSenders", "initFileSenders")
      /\ StaysDoing("dial", "request")
      /\ StaysDoing("exchange", "request")
      /\ StaysDoing("connect", "request")
      /\ StaysDoing("recvMsg", "request")
      /\ StaysDoing("request", "request")
      /\ StaysDoing("recvMsg", "established")
      /\ StaysDoing("established", "established")
      /\ StaysDoing("listen", "started")
      /\ StaysDoing("started", "started")
  BY DEF ResetUnconnectedDoes, Advances, Runs
<1>2. /\ Begun(p)' <=> Begun(p)
      /\ \A y : Asks(p, y)' <=> Asks(p, y)
      /\ ToDial(p)' <=> ToDial(p)
      /\ \A y : Adopts(p, y)' <=> Adopts(p, y)
      /\ Starting(p)' <=> Starting(p)
      /\ \A y : Starts(p, y)' <=> Starts(p, y)
      /\ Agrees(p)' <=> Agrees(p)
      /\ TakesBack(p)' <=> TakesBack(p)
  BY <1>1 DEF Adopts, Agrees, Asks, Begun, Starting, Starts, TakesBack, ToDial
<1>3. LinksKept /\ DOMAIN links' = DOMAIN links
  BY DEF ResetUnconnectedDoes, LinksKept
<1>4. ~Uses(p)' /\ ~Calls(p)' /\ ~Takes(p)'
  BY PeerIsNext DEF ResetUnconnectedDoes, Uses, Calls, Takes
<1>7. PeerFacts(p) /\ JobRules(p) /\ JobRules(p)' /\ Says(p)
  BY PeerIs, JobsAre, EndSays
<1>8. /\ status'[p] \in {"waiting", "tls", "tcp"} /\ sock'[p] \in DOMAIN links' \cup {Fresh, Nobody}
      /\ Fresh # Nobody /\ Fresh \notin DOMAIN links' /\ Nobody \notin DOMAIN links'
      /\ DOMAIN links' \subseteq Nat
      /\ engine'[p].listening \in BOOLEAN /\ engine'[p].started \in BOOLEAN /\ engine'[p].senders \in BOOLEAN
  BY PeerIsNext
<1>9. /\ Once(p) => Once(p)'
      /\ UNCHANGED <<online[p], connected[p], ids[p], partner[p], engine[p], ui[p], asked[p], key[p], Reads(p)>>
      /\ sock'[p] = Nobody
      /\ reading'[p] = FALSE
      /\ candidate'[p] = Nobody
      /\ target'[p] = Nobody
      /\ status'[p] = "waiting"
  BY DEF ResetUnconnectedDoes
<1>11. /\ ToDial(p) => /\ sock[p] = Nobody /\ status[p] = "waiting"
                      /\ ~Resets(p) /\ ~Closes(p) /\ ~Runs(p, "stop", "stop")
       /\ ToDial(p)' => /\ sock'[p] = Nobody /\ status'[p] = "waiting"
                       /\ ~Resets(p)' /\ ~Closes(p)' /\ ~Runs(p, "stop", "stop")'
  BY DEF Doomed, Busy
<1>5. ~Beginning(p)
  BY DEF ResetUnconnectedDoes
<1>6. /\ ~ToDial(p) /\ ~Agrees(p) /\ ~Starting(p) /\ (\A d : ~Adopts(p, d))
      /\ ~Runs(p, "initLow", "statusOn") /\ ~Runs(p, "initHigh", "statusOn")
      /\ ~Runs(p, "accept", "statusOn") /\ ~Runs(p, "statusOn", "statusOn")
      /\ \A y : ~Doing(p, "exchange", "request", y) /\ ~Doing(p, "connect", "request", y)
                /\ ~Doing(p, "recvMsg", "request", y) /\ ~Doing(p, "listen", "started", y)
                /\ ~Doing(p, "started", "started", y)
  BY <1>5, BeginsNothing
<1>20. SockInv(p)'
  BY <1>1, <1>2, <1>3, <1>4, <1>7, <1>8, <1>9, <1>11, <1>6 DEF PeerFacts, JobRules, Says, Local, SockInv, Closes, Ended, Leaves, Resets, TakesBack
<1>21. ReadInv(p)'
  BY <1>1, <1>2, <1>3, <1>4, <1>7, <1>8, <1>9, <1>11, <1>6 DEF PeerFacts, JobRules, Says, Local, ReadInv, Closes, Ended, Leaves, Resets, TakesBack
<1>22. AskInv(p)'
  BY <1>1, <1>2, <1>3, <1>4, <1>7, <1>8, <1>9, <1>11, <1>6 DEF PeerFacts, JobRules, Says, Local, SockInv, ReadInv, AskInv, PlaceInv, ConnInv, EngineInv, WindowInv, Closes, Ended, Leaves, Resets, TakesBack
<1>23. PlaceInv(p)'
  BY <1>1, <1>2, <1>3, <1>4, <1>7, <1>8, <1>9, <1>11, <1>6 DEF PeerFacts, JobRules, Says, Local, PlaceInv, Closes, Ended, Leaves, Resets, TakesBack
<1>24. ConnInv(p)'
  BY <1>1, <1>2, <1>3, <1>4, <1>7, <1>8, <1>9, <1>11, <1>6 DEF PeerFacts, JobRules, Says, Local, ConnInv, Closes, Ended, Leaves, Resets, TakesBack
<1>25. EngineInv(p)'
  BY <1>1, <1>2, <1>3, <1>4, <1>7, <1>8, <1>9, <1>11, <1>6 DEF PeerFacts, JobRules, Says, Local, EngineInv, Closes, Ended, Leaves, Resets, TakesBack
<1>26. WindowInv(p)'
  BY <1>1, <1>2, <1>3, <1>4, <1>7, <1>8, <1>9, <1>11, <1>6 DEF PeerFacts, JobRules, Says, Local, SockInv, ReadInv, AskInv, PlaceInv, ConnInv, EngineInv, WindowInv, Closes, Ended, Leaves, Resets, TakesBack
<1>27. TlsInv(p)'
  <2>1. \A r \in Peers : r # p => Same(r)
    BY DEF ResetUnconnectedDoes, Untouched, SameKey
  <2>2. /\ \A d \in DOMAIN links : To(d) = p => Taken(d)' = Taken(d)
        /\ \A d \in DOMAIN links' : To(d)' = p => d \in DOMAIN links
    BY <1>3 DEF ResetUnconnectedDoes
  <2>3. (status[p] # "tls" \/ sock[p] # Nobody) /\ status'[p] # "tls"
    BY <1>1, <1>2, <1>3, <1>4, <1>7, <1>8, <1>9, <1>11, <1>6 DEF PeerFacts, JobRules, Local, SockInv, AskInv, TlsInv, Begun, Asks, Doomed, Busy
  <2> QED
    BY <1>3, <1>22, <2>1, <2>2, <2>3, TlsWaiting DEF Local
<1> QED
  BY <1>20, <1>21, <1>22, <1>23, <1>24, <1>25, <1>26, <1>27 DEF Local

LEMMA ResetAgainLocal ==
    ASSUME TypeOK, TypeOK', NEW p \in Peers, Local(p), TlsInv(p), OnLink(p),
           ResetAgainDoes(p), mishaps' = {}, ~Doomed(p), ~Doomed(p)'
    PROVE  Local(p)' /\ TlsInv(p)'
<1> DEFINE StaysRun(a, b) == Runs(p, a, b)' <=> Runs(p, a, b)
           StaysDoing(a, b) == \A y : Doing(p, a, b, y)' <=> Doing(p, a, b, y)
<1>1. /\ StaysRun("accept", "statusOn")
      /\ StaysRun("initHigh", "statusOn")
      /\ StaysRun("initLow", "statusOn")
      /\ StaysRun("statusOn", "statusOn")
      /\ StaysRun("cancel", "reset")
      /\ StaysRun("reset", "reset")
      /\ StaysRun("reject", "statusOff")
      /\ StaysRun("reset", "statusOff")
      /\ StaysRun("statusOff", "statusOff")
      /\ StaysRun("reset", "close")
      /\ StaysRun("close", "close")
      /\ StaysRun("reset", "unconnected")
      /\ StaysRun("lost", "unconnected")
      /\ StaysRun("unconnected", "unconnected")
      /\ Runs(p, "reset", "again")
      /\ Runs(p, "lost", "again")'
      /\ StaysRun("again", "again")
      /\ StaysRun("stop", "stop")
      /\ StaysRun("ready", "ready")
      /\ StaysRun("initFileSenders", "initFileSenders")
      /\ StaysDoing("dial", "request")
      /\ StaysDoing("exchange", "request")
      /\ StaysDoing("connect", "request")
      /\ StaysDoing("recvMsg", "request")
      /\ StaysDoing("request", "request")
      /\ StaysDoing("recvMsg", "established")
      /\ StaysDoing("established", "established")
      /\ StaysDoing("listen", "started")
      /\ StaysDoing("started", "started")
  BY DEF ResetAgainDoes, Advances, Runs
<1>2. /\ Begun(p)' <=> Begun(p)
      /\ \A y : Asks(p, y)' <=> Asks(p, y)
      /\ ToDial(p)' <=> ToDial(p)
      /\ \A y : Adopts(p, y)' <=> Adopts(p, y)
      /\ Starting(p)' <=> Starting(p)
      /\ \A y : Starts(p, y)' <=> Starts(p, y)
      /\ Agrees(p)' <=> Agrees(p)
      /\ TakesBack(p)' <=> TakesBack(p)
  BY <1>1 DEF Adopts, Agrees, Asks, Begun, Starting, Starts, TakesBack, ToDial
<1>3. LinksKept /\ DOMAIN links' = DOMAIN links
  BY DEF ResetAgainDoes, LinksKept
<1>4. ~Uses(p)' /\ ~Calls(p)' /\ ~Takes(p)'
  BY PeerIsNext DEF ResetAgainDoes, Uses, Calls, Takes
<1>7. PeerFacts(p) /\ JobRules(p) /\ JobRules(p)' /\ Says(p)
  BY PeerIs, JobsAre, EndSays
<1>8. /\ status'[p] \in {"waiting", "tls", "tcp"} /\ sock'[p] \in DOMAIN links' \cup {Fresh, Nobody}
      /\ Fresh # Nobody /\ Fresh \notin DOMAIN links' /\ Nobody \notin DOMAIN links'
      /\ DOMAIN links' \subseteq Nat
      /\ engine'[p].listening \in BOOLEAN /\ engine'[p].started \in BOOLEAN /\ engine'[p].senders \in BOOLEAN
  BY PeerIsNext
<1>9. /\ Once(p) => Once(p)'
      /\ UNCHANGED <<online[p], connected[p], ids[p], partner[p], engine[p], ui[p], asked[p], key[p], Reads(p)>>
      /\ sock'[p] = Nobody
      /\ reading'[p] = FALSE
      /\ candidate'[p] = Nobody
      /\ target'[p] = Nobody
      /\ status'[p] = "waiting"
  BY DEF ResetAgainDoes
<1>11. /\ ToDial(p) => /\ sock[p] = Nobody /\ status[p] = "waiting"
                      /\ ~Resets(p) /\ ~Closes(p) /\ ~Runs(p, "stop", "stop")
       /\ ToDial(p)' => /\ sock'[p] = Nobody /\ status'[p] = "waiting"
                       /\ ~Resets(p)' /\ ~Closes(p)' /\ ~Runs(p, "stop", "stop")'
  BY DEF Doomed, Busy
<1>5. ~Beginning(p)
  BY DEF ResetAgainDoes
<1>6. /\ ~ToDial(p) /\ ~Agrees(p) /\ ~Starting(p) /\ (\A d : ~Adopts(p, d))
      /\ ~Runs(p, "initLow", "statusOn") /\ ~Runs(p, "initHigh", "statusOn")
      /\ ~Runs(p, "accept", "statusOn") /\ ~Runs(p, "statusOn", "statusOn")
      /\ \A y : ~Doing(p, "exchange", "request", y) /\ ~Doing(p, "connect", "request", y)
                /\ ~Doing(p, "recvMsg", "request", y) /\ ~Doing(p, "listen", "started", y)
                /\ ~Doing(p, "started", "started", y)
  BY <1>5, BeginsNothing
<1>20. SockInv(p)'
  BY <1>1, <1>2, <1>3, <1>4, <1>7, <1>8, <1>9, <1>11, <1>6 DEF PeerFacts, JobRules, Says, Local, SockInv, Closes, Ended, Leaves, Resets, TakesBack
<1>21. ReadInv(p)'
  BY <1>1, <1>2, <1>3, <1>4, <1>7, <1>8, <1>9, <1>11, <1>6 DEF PeerFacts, JobRules, Says, Local, ReadInv, Closes, Ended, Leaves, Resets, TakesBack
<1>22. AskInv(p)'
  BY <1>1, <1>2, <1>3, <1>4, <1>7, <1>8, <1>9, <1>11, <1>6 DEF PeerFacts, JobRules, Says, Local, SockInv, ReadInv, AskInv, PlaceInv, ConnInv, EngineInv, WindowInv, Adopts, Agrees, Asks, Begun, Closes, Ended, Leaves, Resets, Starting, Starts, TakesBack, ToDial
<1>23. PlaceInv(p)'
  BY <1>1, <1>2, <1>3, <1>4, <1>7, <1>8, <1>9, <1>11, <1>6 DEF PeerFacts, JobRules, Says, Local, SockInv, ReadInv, AskInv, PlaceInv, ConnInv, EngineInv, WindowInv, Closes, Ended, Leaves, Resets, TakesBack
<1>24. ConnInv(p)'
  BY <1>1, <1>2, <1>3, <1>4, <1>7, <1>8, <1>9, <1>11, <1>6 DEF PeerFacts, JobRules, Says, Local, ConnInv, Closes, Ended, Leaves, Resets, TakesBack
<1>25. EngineInv(p)'
  BY <1>1, <1>2, <1>3, <1>4, <1>7, <1>8, <1>9, <1>11, <1>6 DEF PeerFacts, JobRules, Says, Local, EngineInv, Closes, Ended, Leaves, Resets, TakesBack
<1>26. WindowInv(p)'
  BY <1>1, <1>2, <1>3, <1>4, <1>7, <1>8, <1>9, <1>11, <1>6 DEF PeerFacts, JobRules, Says, Local, WindowInv, Closes, Ended, Leaves, Resets, TakesBack
<1>27. TlsInv(p)'
  <2>1. \A r \in Peers : r # p => Same(r)
    BY DEF ResetAgainDoes, Untouched, SameKey
  <2>2. /\ \A d \in DOMAIN links : To(d) = p => Taken(d)' = Taken(d)
        /\ \A d \in DOMAIN links' : To(d)' = p => d \in DOMAIN links
    BY <1>3 DEF ResetAgainDoes
  <2>3. (status[p] # "tls" \/ sock[p] # Nobody) /\ status'[p] # "tls"
    BY <1>1, <1>2, <1>3, <1>4, <1>7, <1>8, <1>9, <1>11, <1>6 DEF PeerFacts, JobRules, Local, SockInv, AskInv, TlsInv, Begun, Asks, Doomed, Busy
  <2> QED
    BY <1>3, <1>22, <2>1, <2>2, <2>3, TlsWaiting DEF Local
<1> QED
  BY <1>20, <1>21, <1>22, <1>23, <1>24, <1>25, <1>26, <1>27 DEF Local

LEMMA ResetStatusOffLocal ==
    ASSUME TypeOK, TypeOK', NEW p \in Peers, Local(p), TlsInv(p), OnLink(p),
           ResetStatusOffDoes(p), mishaps' = {}, ~Doomed(p), ~Doomed(p)'
    PROVE  Local(p)' /\ TlsInv(p)'
<1> DEFINE StaysRun(a, b) == Runs(p, a, b)' <=> Runs(p, a, b)
           StaysDoing(a, b) == \A y : Doing(p, a, b, y)' <=> Doing(p, a, b, y)
<1>1. /\ StaysRun("accept", "statusOn")
      /\ StaysRun("initHigh", "statusOn")
      /\ StaysRun("initLow", "statusOn")
      /\ StaysRun("statusOn", "statusOn")
      /\ StaysRun("cancel", "reset")
      /\ StaysRun("reset", "reset")
      /\ StaysRun("reject", "statusOff")
      /\ Runs(p, "reset", "statusOff")
      /\ Runs(p, "statusOff", "statusOff")'
      /\ StaysRun("reset", "close")
      /\ StaysRun("close", "close")
      /\ StaysRun("reset", "unconnected")
      /\ StaysRun("lost", "unconnected")
      /\ StaysRun("unconnected", "unconnected")
      /\ StaysRun("reset", "again")
      /\ StaysRun("lost", "again")
      /\ StaysRun("again", "again")
      /\ StaysRun("stop", "stop")
      /\ StaysRun("ready", "ready")
      /\ StaysRun("initFileSenders", "initFileSenders")
      /\ StaysDoing("dial", "request")
      /\ StaysDoing("exchange", "request")
      /\ StaysDoing("connect", "request")
      /\ StaysDoing("recvMsg", "request")
      /\ StaysDoing("request", "request")
      /\ StaysDoing("recvMsg", "established")
      /\ StaysDoing("established", "established")
      /\ StaysDoing("listen", "started")
      /\ StaysDoing("started", "started")
  BY DEF ResetStatusOffDoes, Advances, Runs
<1>2. /\ Begun(p)' <=> Begun(p)
      /\ \A y : Asks(p, y)' <=> Asks(p, y)
      /\ ToDial(p)' <=> ToDial(p)
      /\ \A y : Adopts(p, y)' <=> Adopts(p, y)
      /\ Starting(p)' <=> Starting(p)
      /\ \A y : Starts(p, y)' <=> Starts(p, y)
      /\ Agrees(p)' <=> Agrees(p)
      /\ TakesBack(p)' <=> TakesBack(p)
      /\ Closes(p)' <=> Closes(p)
  BY <1>1 DEF Adopts, Agrees, Asks, Begun, Closes, Starting, Starts, TakesBack, ToDial
<1>3. LinksKept /\ DOMAIN links' = DOMAIN links
  BY DEF ResetStatusOffDoes, LinksKept
<1>4. ~Uses(p)' /\ ~Calls(p)' /\ ~Takes(p)'
  BY PeerIsNext DEF ResetStatusOffDoes, Uses, Calls, Takes
<1>7. PeerFacts(p) /\ JobRules(p) /\ JobRules(p)' /\ Says(p)
  BY PeerIs, JobsAre, EndSays
<1>8. /\ status'[p] \in {"waiting", "tls", "tcp"} /\ sock'[p] \in DOMAIN links' \cup {Fresh, Nobody}
      /\ Fresh # Nobody /\ Fresh \notin DOMAIN links' /\ Nobody \notin DOMAIN links'
      /\ DOMAIN links' \subseteq Nat
      /\ engine'[p].listening \in BOOLEAN /\ engine'[p].started \in BOOLEAN /\ engine'[p].senders \in BOOLEAN
  BY PeerIsNext
<1>9. /\ Once(p) => Once(p)'
      /\ UNCHANGED <<online[p], connected[p], ids[p], partner[p], engine[p], ui[p], asked[p], key[p], Reads(p)>>
      /\ sock'[p] = Nobody
      /\ reading'[p] = FALSE
      /\ candidate'[p] = Nobody
      /\ target'[p] = Nobody
      /\ status'[p] = "waiting"
  BY DEF ResetStatusOffDoes
<1>11. /\ ToDial(p) => /\ sock[p] = Nobody /\ status[p] = "waiting"
                      /\ ~Resets(p) /\ ~Closes(p) /\ ~Runs(p, "stop", "stop")
       /\ ToDial(p)' => /\ sock'[p] = Nobody /\ status'[p] = "waiting"
                       /\ ~Resets(p)' /\ ~Closes(p)' /\ ~Runs(p, "stop", "stop")'
  BY DEF Doomed, Busy
<1>5. ~Beginning(p)
  BY DEF ResetStatusOffDoes
<1>6. /\ ~ToDial(p) /\ ~Agrees(p) /\ ~Starting(p) /\ (\A d : ~Adopts(p, d))
      /\ ~Runs(p, "initLow", "statusOn") /\ ~Runs(p, "initHigh", "statusOn")
      /\ ~Runs(p, "accept", "statusOn") /\ ~Runs(p, "statusOn", "statusOn")
      /\ \A y : ~Doing(p, "exchange", "request", y) /\ ~Doing(p, "connect", "request", y)
                /\ ~Doing(p, "recvMsg", "request", y) /\ ~Doing(p, "listen", "started", y)
                /\ ~Doing(p, "started", "started", y)
  BY <1>5, BeginsNothing
<1>20. SockInv(p)'
  BY <1>1, <1>2, <1>3, <1>4, <1>7, <1>8, <1>9, <1>11, <1>6 DEF PeerFacts, JobRules, Says, Local, SockInv, Closes, Ended, Leaves, Resets, TakesBack
<1>21. ReadInv(p)'
  BY <1>1, <1>2, <1>3, <1>4, <1>7, <1>8, <1>9, <1>11, <1>6 DEF PeerFacts, JobRules, Says, Local, ReadInv, Closes, Ended, Leaves, Resets, TakesBack
<1>22. AskInv(p)'
  BY <1>1, <1>2, <1>3, <1>4, <1>7, <1>8, <1>9, <1>11, <1>6 DEF PeerFacts, JobRules, Says, Local, SockInv, ReadInv, AskInv, PlaceInv, ConnInv, EngineInv, WindowInv, Adopts, Agrees, Asks, Begun, Closes, Ended, Leaves, Resets, Starting, Starts, TakesBack, ToDial
<1>23. PlaceInv(p)'
  BY <1>1, <1>2, <1>3, <1>4, <1>7, <1>8, <1>9, <1>11, <1>6 DEF PeerFacts, JobRules, Says, Local, PlaceInv, Closes, Ended, Leaves, Resets, TakesBack
<1>24. ConnInv(p)'
  BY <1>1, <1>2, <1>3, <1>4, <1>7, <1>8, <1>9, <1>11, <1>6 DEF PeerFacts, JobRules, Says, Local, ConnInv, Closes, Ended, Leaves, Resets, TakesBack
<1>25. EngineInv(p)'
  BY <1>1, <1>2, <1>3, <1>4, <1>7, <1>8, <1>9, <1>11, <1>6 DEF PeerFacts, JobRules, Says, Local, EngineInv, Closes, Ended, Leaves, Resets, TakesBack
<1>26. WindowInv(p)'
  BY <1>1, <1>2, <1>3, <1>4, <1>7, <1>8, <1>9, <1>11, <1>6 DEF PeerFacts, JobRules, Says, Local, WindowInv, Closes, Ended, Leaves, Resets, TakesBack
<1>27. TlsInv(p)'
  <2>1. \A r \in Peers : r # p => Same(r)
    BY DEF ResetStatusOffDoes, Untouched, SameKey
  <2>2. /\ \A d \in DOMAIN links : To(d) = p => Taken(d)' = Taken(d)
        /\ \A d \in DOMAIN links' : To(d)' = p => d \in DOMAIN links
    BY <1>3 DEF ResetStatusOffDoes
  <2>3. (status[p] # "tls" \/ sock[p] # Nobody) /\ status'[p] # "tls"
    BY <1>1, <1>2, <1>3, <1>4, <1>7, <1>8, <1>9, <1>11, <1>6 DEF PeerFacts, JobRules, Local, SockInv, AskInv, TlsInv, Begun, Asks, Doomed, Busy
  <2> QED
    BY <1>3, <1>22, <2>1, <2>2, <2>3, TlsWaiting DEF Local
<1> QED
  BY <1>20, <1>21, <1>22, <1>23, <1>24, <1>25, <1>26, <1>27 DEF Local

LEMMA ResetResetLocal ==
    ASSUME TypeOK, TypeOK', NEW p \in Peers, Local(p), TlsInv(p), OnLink(p),
           ResetResetDoes(p), mishaps' = {}, ~Doomed(p), ~Doomed(p)'
    PROVE  Local(p)' /\ TlsInv(p)'
<1> DEFINE StaysRun(a, b) == Runs(p, a, b)' <=> Runs(p, a, b)
           StaysDoing(a, b) == \A y : Doing(p, a, b, y)' <=> Doing(p, a, b, y)
<1>1. /\ StaysRun("accept", "statusOn")
      /\ StaysRun("initHigh", "statusOn")
      /\ StaysRun("initLow", "statusOn")
      /\ StaysRun("statusOn", "statusOn")
      /\ StaysRun("cancel", "reset")
      /\ Runs(p, "reset", "reset")
      /\ StaysRun("reject", "statusOff")
      /\ StaysRun("reset", "statusOff")
      /\ StaysRun("statusOff", "statusOff")
      /\ StaysRun("reset", "close")
      /\ StaysRun("close", "close")
      /\ StaysRun("reset", "unconnected")
      /\ StaysRun("lost", "unconnected")
      /\ StaysRun("unconnected", "unconnected")
      /\ StaysRun("reset", "again")
      /\ StaysRun("lost", "again")
      /\ StaysRun("again", "again")
      /\ StaysRun("stop", "stop")
      /\ StaysRun("ready", "ready")
      /\ StaysRun("initFileSenders", "initFileSenders")
      /\ StaysDoing("dial", "request")
      /\ StaysDoing("exchange", "request")
      /\ StaysDoing("connect", "request")
      /\ StaysDoing("recvMsg", "request")
      /\ StaysDoing("request", "request")
      /\ StaysDoing("recvMsg", "established")
      /\ StaysDoing("established", "established")
      /\ StaysDoing("listen", "started")
      /\ StaysDoing("started", "started")
  BY DEF ResetResetDoes, Finishes, Runs
<1>2. /\ Begun(p)' <=> Begun(p)
      /\ \A y : Asks(p, y)' <=> Asks(p, y)
      /\ ToDial(p)' <=> ToDial(p)
      /\ \A y : Adopts(p, y)' <=> Adopts(p, y)
      /\ Starting(p)' <=> Starting(p)
      /\ \A y : Starts(p, y)' <=> Starts(p, y)
      /\ Agrees(p)' <=> Agrees(p)
      /\ TakesBack(p)' <=> TakesBack(p)
      /\ Closes(p)' <=> Closes(p)
      /\ Ended(p)' <=> Ended(p)
  BY <1>1 DEF Adopts, Agrees, Asks, Begun, Closes, Ended, Starting, Starts, TakesBack, ToDial
<1>3. LinksKept /\ DOMAIN links' = DOMAIN links
  BY DEF ResetResetDoes, LinksKept
<1>4. ~Uses(p)' /\ ~Calls(p)' /\ ~Takes(p)'
  BY PeerIsNext DEF ResetResetDoes, Uses, Calls, Takes
<1>7. PeerFacts(p) /\ JobRules(p) /\ JobRules(p)' /\ Says(p)
  BY PeerIs, JobsAre, EndSays
<1>8. /\ status'[p] \in {"waiting", "tls", "tcp"} /\ sock'[p] \in DOMAIN links' \cup {Fresh, Nobody}
      /\ Fresh # Nobody /\ Fresh \notin DOMAIN links' /\ Nobody \notin DOMAIN links'
      /\ DOMAIN links' \subseteq Nat
      /\ engine'[p].listening \in BOOLEAN /\ engine'[p].started \in BOOLEAN /\ engine'[p].senders \in BOOLEAN
  BY PeerIsNext
<1>9. /\ Once(p) => Once(p)'
      /\ UNCHANGED <<online[p], connected[p], ids[p], partner[p], engine[p], ui[p], asked[p], key[p], Reads(p)>>
      /\ sock'[p] = Nobody
      /\ reading'[p] = FALSE
      /\ candidate'[p] = Nobody
      /\ target'[p] = Nobody
      /\ status'[p] = "waiting"
  BY DEF ResetResetDoes
<1>11. /\ ToDial(p) => /\ sock[p] = Nobody /\ status[p] = "waiting"
                      /\ ~Resets(p) /\ ~Closes(p) /\ ~Runs(p, "stop", "stop")
       /\ ToDial(p)' => /\ sock'[p] = Nobody /\ status'[p] = "waiting"
                       /\ ~Resets(p)' /\ ~Closes(p)' /\ ~Runs(p, "stop", "stop")'
  BY DEF Doomed, Busy
<1>5. ~Beginning(p)
  BY DEF ResetResetDoes
<1>6. /\ ~ToDial(p) /\ ~Agrees(p) /\ ~Starting(p) /\ (\A d : ~Adopts(p, d))
      /\ ~Runs(p, "initLow", "statusOn") /\ ~Runs(p, "initHigh", "statusOn")
      /\ ~Runs(p, "accept", "statusOn") /\ ~Runs(p, "statusOn", "statusOn")
      /\ \A y : ~Doing(p, "exchange", "request", y) /\ ~Doing(p, "connect", "request", y)
                /\ ~Doing(p, "recvMsg", "request", y) /\ ~Doing(p, "listen", "started", y)
                /\ ~Doing(p, "started", "started", y)
  BY <1>5, BeginsNothing
<1>10. /\ ~connected[p]
       /\ ui[p] # "connected"
       /\ ~asked[p]
  BY <1>1, <1>5, <1>6, <1>7 DEF ResetResetDoes, Local, WindowInv, JobRules
<1>20. SockInv(p)'
  BY <1>1, <1>2, <1>3, <1>4, <1>7, <1>8, <1>9, <1>11, <1>6, <1>10 DEF PeerFacts, JobRules, Says, Local, SockInv, Leaves, Resets, TakesBack
<1>21. ReadInv(p)'
  BY <1>1, <1>2, <1>3, <1>4, <1>7, <1>8, <1>9, <1>11, <1>6, <1>10 DEF PeerFacts, JobRules, Says, Local, ReadInv, Leaves, Resets, TakesBack
<1>22. AskInv(p)'
  BY <1>1, <1>2, <1>3, <1>4, <1>7, <1>8, <1>9, <1>11, <1>6, <1>10 DEF PeerFacts, JobRules, Says, Local, SockInv, ReadInv, AskInv, PlaceInv, ConnInv, EngineInv, WindowInv, Adopts, Agrees, Asks, Begun, Closes, Ended, Leaves, Resets, Starting, Starts, TakesBack, ToDial
<1>23. PlaceInv(p)'
  BY <1>1, <1>2, <1>3, <1>4, <1>7, <1>8, <1>9, <1>11, <1>6, <1>10 DEF PeerFacts, JobRules, Says, Local, PlaceInv, Leaves, Resets, TakesBack
<1>24. ConnInv(p)'
  BY <1>1, <1>2, <1>3, <1>4, <1>7, <1>8, <1>9, <1>11, <1>6, <1>10 DEF PeerFacts, JobRules, Says, Local, ConnInv, Leaves, Resets, TakesBack
<1>25. EngineInv(p)'
  BY <1>1, <1>2, <1>3, <1>4, <1>7, <1>8, <1>9, <1>11, <1>6, <1>10 DEF PeerFacts, JobRules, Says, Local, EngineInv, Leaves, Resets, TakesBack
<1>26. WindowInv(p)'
  BY <1>1, <1>2, <1>3, <1>4, <1>7, <1>8, <1>9, <1>11, <1>6, <1>10 DEF PeerFacts, JobRules, Says, Local, WindowInv, Leaves, Resets, TakesBack
<1>27. TlsInv(p)'
  <2>1. \A r \in Peers : r # p => Same(r)
    BY DEF ResetResetDoes, Untouched, SameKey
  <2>2. /\ \A d \in DOMAIN links : To(d) = p => Taken(d)' = Taken(d)
        /\ \A d \in DOMAIN links' : To(d)' = p => d \in DOMAIN links
    BY <1>3 DEF ResetResetDoes
  <2>3. (status[p] # "tls" \/ sock[p] # Nobody) /\ status'[p] # "tls"
    BY <1>1, <1>2, <1>3, <1>4, <1>7, <1>8, <1>9, <1>11, <1>6, <1>10 DEF PeerFacts, JobRules, Local, SockInv, AskInv, TlsInv, Begun, Asks, Doomed, Busy
  <2> QED
    BY <1>3, <1>22, <2>1, <2>2, <2>3, TlsWaiting DEF Local
<1> QED
  BY <1>20, <1>21, <1>22, <1>23, <1>24, <1>25, <1>26, <1>27 DEF Local

LEMMA SendRequestLocal ==
    ASSUME TypeOK, TypeOK', NEW p \in Peers, NEW x, Local(p), TlsInv(p), OnLink(p),
           SendRequestDoes(p, x), mishaps' = {}, ~Doomed(p), ~Doomed(p)'
    PROVE  Local(p)' /\ TlsInv(p)'
<1> DEFINE StaysRun(a, b) == Runs(p, a, b)' <=> Runs(p, a, b)
           StaysDoing(a, b) == \A y : Doing(p, a, b, y)' <=> Doing(p, a, b, y)
<1>1. /\ StaysRun("accept", "statusOn")
      /\ StaysRun("initHigh", "statusOn")
      /\ StaysRun("initLow", "statusOn")
      /\ StaysRun("statusOn", "statusOn")
      /\ StaysRun("cancel", "reset")
      /\ StaysRun("reset", "reset")
      /\ StaysRun("reject", "statusOff")
      /\ StaysRun("reset", "statusOff")
      /\ StaysRun("statusOff", "statusOff")
      /\ StaysRun("reset", "close")
      /\ StaysRun("close", "close")
      /\ StaysRun("reset", "unconnected")
      /\ StaysRun("lost", "unconnected")
      /\ StaysRun("unconnected", "unconnected")
      /\ StaysRun("reset", "again")
      /\ StaysRun("lost", "again")
      /\ StaysRun("again", "again")
      /\ StaysRun("stop", "stop")
      /\ StaysRun("ready", "ready")
      /\ StaysRun("initFileSenders", "initFileSenders")
      /\ StaysDoing("dial", "request")
      /\ StaysDoing("exchange", "request")
      /\ StaysDoing("connect", "request")
      /\ StaysDoing("recvMsg", "request")
      /\ \A y : Doing(p, "request", "request", y)' => Doing(p, "request", "request", y)
      /\ \A y : Doing(p, "request", "request", y) => Doing(p, "request", "request", y)' \/ y = x
      /\ Doing(p, "request", "request", x)
      /\ Once(p) => ~Doing(p, "request", "request", x)'
      /\ StaysDoing("recvMsg", "established")
      /\ StaysDoing("established", "established")
      /\ StaysDoing("listen", "started")
      /\ StaysDoing("started", "started")
  BY DEF SendRequestDoes, Finishes, Runs
<1>2. /\ ToDial(p)' <=> ToDial(p)
      /\ \A y : Adopts(p, y)' <=> Adopts(p, y)
      /\ Starting(p)' <=> Starting(p)
      /\ \A y : Starts(p, y)' <=> Starts(p, y)
      /\ Agrees(p)' <=> Agrees(p)
      /\ TakesBack(p)' <=> TakesBack(p)
      /\ Leaves(p)' <=> Leaves(p)
      /\ Closes(p)' <=> Closes(p)
      /\ Resets(p)' <=> Resets(p)
      /\ Ended(p)' <=> Ended(p)
  BY <1>1 DEF Adopts, Agrees, Closes, Ended, Leaves, Resets, Starting, Starts, TakesBack, ToDial
<1>3. LinksKept /\ DOMAIN links' = DOMAIN links
  BY DEF SendRequestDoes, LinksKept, Sends
<1>4. /\ Uses(p)' <=> Uses(p)
      /\ Calls(p)' <=> Calls(p)
      /\ Takes(p)' <=> Takes(p)
      /\ Uses(p) => /\ From(sock[p])' = From(sock[p]) /\ To(sock[p])' = To(sock[p])
                    /\ Other(sock[p], p)' = Other(sock[p], p)
  BY <1>3, SocketSame DEF SendRequestDoes
<1>7. PeerFacts(p) /\ JobRules(p) /\ JobRules(p)' /\ Says(p)
  BY PeerIs, JobsAre, EndSays
<1>8. /\ status'[p] \in {"waiting", "tls", "tcp"} /\ sock'[p] \in DOMAIN links' \cup {Fresh, Nobody}
      /\ Fresh # Nobody /\ Fresh \notin DOMAIN links' /\ Nobody \notin DOMAIN links'
      /\ DOMAIN links' \subseteq Nat
      /\ engine'[p].listening \in BOOLEAN /\ engine'[p].started \in BOOLEAN /\ engine'[p].senders \in BOOLEAN
  BY PeerIsNext
<1>9. /\ Once(p) => ~Doing(p, "request", "request", x)'
      /\ Once(p) => Once(p)'
      /\ x \in Peers /\ x # p
      /\ UNCHANGED <<status[p], sock[p], online[p], dialing[p], target[p], reading[p], connected[p], ids[p], engine[p], ui[p], asked[p], key[p], candidate[p], Reads(p)>>
      /\ partner'[p] = x
  BY DEF SendRequestDoes, Sends
<1>11. /\ ToDial(p) => /\ sock[p] = Nobody /\ status[p] = "waiting"
                      /\ ~Resets(p) /\ ~Closes(p) /\ ~Runs(p, "stop", "stop")
       /\ ToDial(p)' => /\ sock'[p] = Nobody /\ status'[p] = "waiting"
                       /\ ~Resets(p)' /\ ~Closes(p)' /\ ~Runs(p, "stop", "stop")'
  BY DEF Doomed, Busy
<1>20. SockInv(p)'
  BY <1>1, <1>2, <1>3, <1>4, <1>7, <1>8, <1>9, <1>11 DEF PeerFacts, JobRules, Says, Local, SockInv, Asks, Begun
<1>21. ReadInv(p)'
  BY <1>1, <1>2, <1>3, <1>4, <1>7, <1>8, <1>9, <1>11 DEF PeerFacts, JobRules, Says, Local, ReadInv, Asks, Begun
<1>22. AskInv(p)'
  BY <1>1, <1>2, <1>3, <1>4, <1>7, <1>8, <1>9, <1>11 DEF PeerFacts, JobRules, Says, Local, AskInv, Asks, Begun
<1>23. PlaceInv(p)'
  BY <1>1, <1>2, <1>3, <1>4, <1>7, <1>8, <1>9, <1>11 DEF PeerFacts, JobRules, Says, Local, PlaceInv, Asks, Begun
<1>24. ConnInv(p)'
  BY <1>1, <1>2, <1>3, <1>4, <1>7, <1>8, <1>9, <1>11 DEF PeerFacts, JobRules, Says, Local, ConnInv, Asks, Begun
<1>25. EngineInv(p)'
  BY <1>1, <1>2, <1>3, <1>4, <1>7, <1>8, <1>9, <1>11 DEF PeerFacts, JobRules, Says, Local, SockInv, ReadInv, AskInv, PlaceInv, ConnInv, EngineInv, WindowInv, Asks, Begun
<1>26. WindowInv(p)'
  BY <1>1, <1>2, <1>3, <1>4, <1>7, <1>8, <1>9, <1>11 DEF PeerFacts, JobRules, Says, Local, SockInv, ReadInv, AskInv, PlaceInv, ConnInv, EngineInv, WindowInv, Asks, Begun
<1>27. TlsInv(p)'
  <2>1. \A r \in Peers : r # p => Same(r) /\ key'[r] = key[r]
    BY DEF SendRequestDoes, Untouched, SameKey
  <2>2. /\ \A d \in DOMAIN links : To(d) = p => Taken(d)' = Taken(d)
        /\ \A d \in DOMAIN links' : To(d)' = p => d \in DOMAIN links
    BY <1>3 DEF SendRequestDoes, Sends
  <2>3. status[p] = "tls" /\ Uses(p) /\ Adopts(p, sock[p]) => Adopts(p, sock[p])'
    BY <1>2, <1>9
  <2>4. status[p] = "tls" /\ ~Uses(p) /\ sock[p] = Nobody /\ ~Begun(p) /\ ~Resets(p) /\ ui[p] = "idle" =>
           ~Begun(p)' /\ ~Resets(p)' /\ ui'[p] = "idle"
    BY <1>1, <1>2, <1>3, <1>4, <1>7, <1>8, <1>9, <1>11 DEF PeerFacts, JobRules, Says, Local, PlaceInv, Asks, Begun
  <2> QED
    BY <1>3, <1>9, <1>22, <2>1, <2>2, <2>3, <2>4, TlsSelf DEF Local
<1> QED
  BY <1>20, <1>21, <1>22, <1>23, <1>24, <1>25, <1>26, <1>27 DEF Local

LEMMA SendAcceptLocal ==
    ASSUME TypeOK, TypeOK', NEW p \in Peers, Local(p), TlsInv(p), OnLink(p),
           SendAcceptDoes(p), mishaps' = {}, ~Doomed(p), ~Doomed(p)'
    PROVE  Local(p)' /\ TlsInv(p)'
<1> DEFINE StaysRun(a, b) == Runs(p, a, b)' <=> Runs(p, a, b)
           StaysDoing(a, b) == \A y : Doing(p, a, b, y)' <=> Doing(p, a, b, y)
<1>1. /\ Runs(p, "accept", "statusOn")
      /\ Once(p) => ~Runs(p, "accept", "statusOn")'
      /\ Runs(p, "initHigh", "statusOn")'
      /\ StaysRun("initLow", "statusOn")
      /\ StaysRun("statusOn", "statusOn")
      /\ StaysRun("cancel", "reset")
      /\ StaysRun("reset", "reset")
      /\ StaysRun("reject", "statusOff")
      /\ StaysRun("reset", "statusOff")
      /\ StaysRun("statusOff", "statusOff")
      /\ StaysRun("reset", "close")
      /\ StaysRun("close", "close")
      /\ StaysRun("reset", "unconnected")
      /\ StaysRun("lost", "unconnected")
      /\ StaysRun("unconnected", "unconnected")
      /\ StaysRun("reset", "again")
      /\ StaysRun("lost", "again")
      /\ StaysRun("again", "again")
      /\ StaysRun("stop", "stop")
      /\ StaysRun("ready", "ready")
      /\ StaysRun("initFileSenders", "initFileSenders")
      /\ StaysDoing("dial", "request")
      /\ StaysDoing("exchange", "request")
      /\ StaysDoing("connect", "request")
      /\ StaysDoing("recvMsg", "request")
      /\ StaysDoing("request", "request")
      /\ StaysDoing("recvMsg", "established")
      /\ StaysDoing("established", "established")
      /\ StaysDoing("listen", "started")
      /\ StaysDoing("started", "started")
  BY DEF SendAcceptDoes, Advances, Runs
<1>2. /\ Begun(p)' <=> Begun(p)
      /\ \A y : Asks(p, y)' <=> Asks(p, y)
      /\ ToDial(p)' <=> ToDial(p)
      /\ \A y : Adopts(p, y)' <=> Adopts(p, y)
      /\ Starting(p)' <=> Starting(p)
      /\ \A y : Starts(p, y)' <=> Starts(p, y)
      /\ TakesBack(p)' <=> TakesBack(p)
      /\ Leaves(p)' <=> Leaves(p)
      /\ Closes(p)' <=> Closes(p)
      /\ Resets(p)' <=> Resets(p)
      /\ Ended(p)' <=> Ended(p)
  BY <1>1 DEF Adopts, Asks, Begun, Closes, Ended, Leaves, Resets, Starting, Starts, TakesBack, ToDial
<1>3. LinksKept /\ DOMAIN links' = DOMAIN links
  BY DEF SendAcceptDoes, LinksKept, Sends
<1>4. /\ Uses(p)' <=> Uses(p)
      /\ Calls(p)' <=> Calls(p)
      /\ Takes(p)' <=> Takes(p)
      /\ Uses(p) => /\ From(sock[p])' = From(sock[p]) /\ To(sock[p])' = To(sock[p])
                    /\ Other(sock[p], p)' = Other(sock[p], p)
  BY <1>3, SocketSame DEF SendAcceptDoes
<1>7. PeerFacts(p) /\ JobRules(p) /\ JobRules(p)' /\ Says(p)
  BY PeerIs, JobsAre, EndSays
<1>8. /\ status'[p] \in {"waiting", "tls", "tcp"} /\ sock'[p] \in DOMAIN links' \cup {Fresh, Nobody}
      /\ Fresh # Nobody /\ Fresh \notin DOMAIN links' /\ Nobody \notin DOMAIN links'
      /\ DOMAIN links' \subseteq Nat
      /\ engine'[p].listening \in BOOLEAN /\ engine'[p].started \in BOOLEAN /\ engine'[p].senders \in BOOLEAN
  BY PeerIsNext
<1>9. /\ Once(p) => ~Doing(p, "accept", "statusOn", Nobody)'
      /\ Once(p) => Once(p)'
      /\ UNCHANGED <<status[p], sock[p], online[p], dialing[p], target[p], reading[p], connected[p], ids[p], partner[p], engine[p], ui[p], asked[p], key[p], candidate[p], Reads(p)>>
  BY DEF SendAcceptDoes, Sends
<1>11. /\ ToDial(p) => /\ sock[p] = Nobody /\ status[p] = "waiting"
                      /\ ~Resets(p) /\ ~Closes(p) /\ ~Runs(p, "stop", "stop")
       /\ ToDial(p)' => /\ sock'[p] = Nobody /\ status'[p] = "waiting"
                       /\ ~Resets(p)' /\ ~Closes(p)' /\ ~Runs(p, "stop", "stop")'
  BY DEF Doomed, Busy
<1>20. SockInv(p)'
  BY <1>1, <1>2, <1>3, <1>4, <1>7, <1>8, <1>9, <1>11 DEF PeerFacts, JobRules, Says, Local, SockInv, Agrees
<1>21. ReadInv(p)'
  BY <1>1, <1>2, <1>3, <1>4, <1>7, <1>8, <1>9, <1>11 DEF PeerFacts, JobRules, Says, Local, ReadInv, Agrees
<1>22. AskInv(p)'
  BY <1>1, <1>2, <1>3, <1>4, <1>7, <1>8, <1>9, <1>11 DEF PeerFacts, JobRules, Says, Local, AskInv, Agrees
<1>23. PlaceInv(p)'
  BY <1>1, <1>2, <1>3, <1>4, <1>7, <1>8, <1>9, <1>11 DEF PeerFacts, JobRules, Says, Local, PlaceInv, Agrees
<1>24. ConnInv(p)'
  BY <1>1, <1>2, <1>3, <1>4, <1>7, <1>8, <1>9, <1>11 DEF PeerFacts, JobRules, Says, Local, ConnInv, Agrees
<1>25. EngineInv(p)'
  BY <1>1, <1>2, <1>3, <1>4, <1>7, <1>8, <1>9, <1>11 DEF PeerFacts, JobRules, Says, Local, EngineInv, Agrees
<1>26. WindowInv(p)'
  BY <1>1, <1>2, <1>3, <1>4, <1>7, <1>8, <1>9, <1>11 DEF PeerFacts, JobRules, Says, Local, WindowInv, Agrees
<1>27. TlsInv(p)'
  <2>1. \A r \in Peers : r # p => Same(r) /\ key'[r] = key[r]
    BY DEF SendAcceptDoes, Untouched, SameKey
  <2>2. /\ \A d \in DOMAIN links : To(d) = p => Taken(d)' = Taken(d)
        /\ \A d \in DOMAIN links' : To(d)' = p => d \in DOMAIN links
    BY <1>3 DEF SendAcceptDoes, Sends
  <2>3. status[p] = "tls" /\ Uses(p) /\ Adopts(p, sock[p]) => Adopts(p, sock[p])'
    BY <1>2, <1>9
  <2>4. status[p] = "tls" /\ ~Uses(p) /\ sock[p] = Nobody /\ ~Begun(p) /\ ~Resets(p) /\ ui[p] = "idle" =>
           ~Begun(p)' /\ ~Resets(p)' /\ ui'[p] = "idle"
    BY <1>1, <1>2, <1>3, <1>4, <1>7, <1>8, <1>9, <1>11 DEF PeerFacts, JobRules, Says, Local, PlaceInv, Agrees
  <2> QED
    BY <1>3, <1>9, <1>22, <2>1, <2>2, <2>3, <2>4, TlsSelf DEF Local
<1> QED
  BY <1>20, <1>21, <1>22, <1>23, <1>24, <1>25, <1>26, <1>27 DEF Local

LEMMA SendRejectLocal ==
    ASSUME TypeOK, TypeOK', NEW p \in Peers, Local(p), TlsInv(p), OnLink(p),
           SendRejectDoes(p), mishaps' = {}, ~Doomed(p), ~Doomed(p)'
    PROVE  Local(p)' /\ TlsInv(p)'
<1> DEFINE StaysRun(a, b) == Runs(p, a, b)' <=> Runs(p, a, b)
           StaysDoing(a, b) == \A y : Doing(p, a, b, y)' <=> Doing(p, a, b, y)
<1>1. /\ StaysRun("accept", "statusOn")
      /\ StaysRun("initHigh", "statusOn")
      /\ StaysRun("initLow", "statusOn")
      /\ StaysRun("statusOn", "statusOn")
      /\ StaysRun("cancel", "reset")
      /\ StaysRun("reset", "reset")
      /\ Runs(p, "reject", "statusOff")
      /\ Once(p) => ~Runs(p, "reject", "statusOff")'
      /\ Runs(p, "reset", "statusOff")'
      /\ StaysRun("statusOff", "statusOff")
      /\ StaysRun("reset", "close")
      /\ StaysRun("close", "close")
      /\ StaysRun("reset", "unconnected")
      /\ StaysRun("lost", "unconnected")
      /\ StaysRun("unconnected", "unconnected")
      /\ StaysRun("reset", "again")
      /\ StaysRun("lost", "again")
      /\ StaysRun("again", "again")
      /\ StaysRun("stop", "stop")
      /\ StaysRun("ready", "ready")
      /\ StaysRun("initFileSenders", "initFileSenders")
      /\ StaysDoing("dial", "request")
      /\ StaysDoing("exchange", "request")
      /\ StaysDoing("connect", "request")
      /\ StaysDoing("recvMsg", "request")
      /\ StaysDoing("request", "request")
      /\ StaysDoing("recvMsg", "established")
      /\ StaysDoing("established", "established")
      /\ StaysDoing("listen", "started")
      /\ StaysDoing("started", "started")
  BY DEF SendRejectDoes, Advances, Runs
<1>2. /\ Begun(p)' <=> Begun(p)
      /\ \A y : Asks(p, y)' <=> Asks(p, y)
      /\ ToDial(p)' <=> ToDial(p)
      /\ \A y : Adopts(p, y)' <=> Adopts(p, y)
      /\ Starting(p)' <=> Starting(p)
      /\ \A y : Starts(p, y)' <=> Starts(p, y)
      /\ Agrees(p)' <=> Agrees(p)
      /\ TakesBack(p)' <=> TakesBack(p)
      /\ Closes(p)' <=> Closes(p)
      /\ Ended(p)' <=> Ended(p)
  BY <1>1 DEF Adopts, Agrees, Asks, Begun, Closes, Ended, Starting, Starts, TakesBack, ToDial
<1>3. LinksKept /\ DOMAIN links' = DOMAIN links
  BY DEF SendRejectDoes, LinksKept, Sends
<1>4. /\ Uses(p)' <=> Uses(p)
      /\ Calls(p)' <=> Calls(p)
      /\ Takes(p)' <=> Takes(p)
      /\ Uses(p) => /\ From(sock[p])' = From(sock[p]) /\ To(sock[p])' = To(sock[p])
                    /\ Other(sock[p], p)' = Other(sock[p], p)
  BY <1>3, SocketSame DEF SendRejectDoes
<1>7. PeerFacts(p) /\ JobRules(p) /\ JobRules(p)' /\ Says(p)
  BY PeerIs, JobsAre, EndSays
<1>8. /\ status'[p] \in {"waiting", "tls", "tcp"} /\ sock'[p] \in DOMAIN links' \cup {Fresh, Nobody}
      /\ Fresh # Nobody /\ Fresh \notin DOMAIN links' /\ Nobody \notin DOMAIN links'
      /\ DOMAIN links' \subseteq Nat
      /\ engine'[p].listening \in BOOLEAN /\ engine'[p].started \in BOOLEAN /\ engine'[p].senders \in BOOLEAN
  BY PeerIsNext
<1>9. /\ Once(p) => ~Doing(p, "reject", "statusOff", Nobody)'
      /\ Once(p) => Once(p)'
      /\ UNCHANGED <<status[p], sock[p], online[p], dialing[p], target[p], reading[p], connected[p], ids[p], partner[p], engine[p], ui[p], asked[p], key[p], candidate[p], Reads(p)>>
  BY DEF SendRejectDoes, Sends
<1>11. /\ ToDial(p) => /\ sock[p] = Nobody /\ status[p] = "waiting"
                      /\ ~Resets(p) /\ ~Closes(p) /\ ~Runs(p, "stop", "stop")
       /\ ToDial(p)' => /\ sock'[p] = Nobody /\ status'[p] = "waiting"
                       /\ ~Resets(p)' /\ ~Closes(p)' /\ ~Runs(p, "stop", "stop")'
  BY DEF Doomed, Busy
<1>20. SockInv(p)'
  BY <1>1, <1>2, <1>3, <1>4, <1>7, <1>8, <1>9, <1>11 DEF PeerFacts, JobRules, Says, Local, SockInv, Leaves, Resets, TakesBack
<1>21. ReadInv(p)'
  BY <1>1, <1>2, <1>3, <1>4, <1>7, <1>8, <1>9, <1>11 DEF PeerFacts, JobRules, Says, Local, ReadInv, Leaves, Resets, TakesBack
<1>22. AskInv(p)'
  BY <1>1, <1>2, <1>3, <1>4, <1>7, <1>8, <1>9, <1>11 DEF PeerFacts, JobRules, Says, Local, AskInv, Leaves, Resets, TakesBack
<1>23. PlaceInv(p)'
  BY <1>1, <1>2, <1>3, <1>4, <1>7, <1>8, <1>9, <1>11 DEF PeerFacts, JobRules, Says, Local, PlaceInv, Leaves, Resets, TakesBack
<1>24. ConnInv(p)'
  BY <1>1, <1>2, <1>3, <1>4, <1>7, <1>8, <1>9, <1>11 DEF PeerFacts, JobRules, Says, Local, ConnInv, Leaves, Resets, TakesBack
<1>25. EngineInv(p)'
  BY <1>1, <1>2, <1>3, <1>4, <1>7, <1>8, <1>9, <1>11 DEF PeerFacts, JobRules, Says, Local, EngineInv, Leaves, Resets, TakesBack
<1>26. WindowInv(p)'
  BY <1>1, <1>2, <1>3, <1>4, <1>7, <1>8, <1>9, <1>11 DEF PeerFacts, JobRules, Says, Local, WindowInv, Leaves, Resets, TakesBack
<1>27. TlsInv(p)'
  <2>1. \A r \in Peers : r # p => Same(r) /\ key'[r] = key[r]
    BY DEF SendRejectDoes, Untouched, SameKey
  <2>2. /\ \A d \in DOMAIN links : To(d) = p => Taken(d)' = Taken(d)
        /\ \A d \in DOMAIN links' : To(d)' = p => d \in DOMAIN links
    BY <1>3 DEF SendRejectDoes, Sends
  <2>3. status[p] = "tls" /\ Uses(p) /\ Adopts(p, sock[p]) => Adopts(p, sock[p])'
    BY <1>2, <1>9
  <2>4. status[p] = "tls" /\ ~Uses(p) /\ sock[p] = Nobody /\ ~Begun(p) /\ ~Resets(p) /\ ui[p] = "idle" =>
           ~Begun(p)' /\ ~Resets(p)' /\ ui'[p] = "idle"
    BY <1>1, <1>2, <1>3, <1>4, <1>7, <1>8, <1>9, <1>11 DEF PeerFacts, JobRules, Says, Local, PlaceInv, Leaves, Resets, TakesBack
  <2> QED
    BY <1>3, <1>9, <1>22, <2>1, <2>2, <2>3, <2>4, TlsSelf DEF Local
<1> QED
  BY <1>20, <1>21, <1>22, <1>23, <1>24, <1>25, <1>26, <1>27 DEF Local

LEMMA SendCancelLocal ==
    ASSUME TypeOK, TypeOK', NEW p \in Peers, Local(p), TlsInv(p), OnLink(p),
           SendCancelDoes(p), mishaps' = {}, ~Doomed(p), ~Doomed(p)'
    PROVE  Local(p)' /\ TlsInv(p)'
<1> DEFINE StaysRun(a, b) == Runs(p, a, b)' <=> Runs(p, a, b)
           StaysDoing(a, b) == \A y : Doing(p, a, b, y)' <=> Doing(p, a, b, y)
<1>1. /\ StaysRun("accept", "statusOn")
      /\ StaysRun("initHigh", "statusOn")
      /\ StaysRun("initLow", "statusOn")
      /\ StaysRun("statusOn", "statusOn")
      /\ Runs(p, "cancel", "reset")
      /\ Runs(p, "reset", "reset")'
      /\ StaysRun("reject", "statusOff")
      /\ StaysRun("reset", "statusOff")
      /\ StaysRun("statusOff", "statusOff")
      /\ StaysRun("reset", "close")
      /\ StaysRun("close", "close")
      /\ StaysRun("reset", "unconnected")
      /\ StaysRun("lost", "unconnected")
      /\ StaysRun("unconnected", "unconnected")
      /\ StaysRun("reset", "again")
      /\ StaysRun("lost", "again")
      /\ StaysRun("again", "again")
      /\ StaysRun("stop", "stop")
      /\ StaysRun("ready", "ready")
      /\ StaysRun("initFileSenders", "initFileSenders")
      /\ StaysDoing("dial", "request")
      /\ StaysDoing("exchange", "request")
      /\ StaysDoing("connect", "request")
      /\ StaysDoing("recvMsg", "request")
      /\ StaysDoing("request", "request")
      /\ StaysDoing("recvMsg", "established")
      /\ StaysDoing("established", "established")
      /\ StaysDoing("listen", "started")
      /\ StaysDoing("started", "started")
  BY DEF SendCancelDoes, Advances, Runs
<1>2. /\ Begun(p)' <=> Begun(p)
      /\ \A y : Asks(p, y)' <=> Asks(p, y)
      /\ ToDial(p)' <=> ToDial(p)
      /\ \A y : Adopts(p, y)' <=> Adopts(p, y)
      /\ Starting(p)' <=> Starting(p)
      /\ \A y : Starts(p, y)' <=> Starts(p, y)
      /\ Agrees(p)' <=> Agrees(p)
      /\ Closes(p)' <=> Closes(p)
      /\ Ended(p)' <=> Ended(p)
  BY <1>1 DEF Adopts, Agrees, Asks, Begun, Closes, Ended, Starting, Starts, ToDial
<1>3. LinksKept /\ DOMAIN links' = DOMAIN links
  BY DEF SendCancelDoes, LinksKept, Sends
<1>4. /\ Uses(p)' <=> Uses(p)
      /\ Calls(p)' <=> Calls(p)
      /\ Takes(p)' <=> Takes(p)
      /\ Uses(p) => /\ From(sock[p])' = From(sock[p]) /\ To(sock[p])' = To(sock[p])
                    /\ Other(sock[p], p)' = Other(sock[p], p)
  BY <1>3, SocketSame DEF SendCancelDoes
<1>7. PeerFacts(p) /\ JobRules(p) /\ JobRules(p)' /\ Says(p)
  BY PeerIs, JobsAre, EndSays
<1>8. /\ status'[p] \in {"waiting", "tls", "tcp"} /\ sock'[p] \in DOMAIN links' \cup {Fresh, Nobody}
      /\ Fresh # Nobody /\ Fresh \notin DOMAIN links' /\ Nobody \notin DOMAIN links'
      /\ DOMAIN links' \subseteq Nat
      /\ engine'[p].listening \in BOOLEAN /\ engine'[p].started \in BOOLEAN /\ engine'[p].senders \in BOOLEAN
  BY PeerIsNext
<1>9. /\ Once(p) => Once(p)'
      /\ UNCHANGED <<status[p], sock[p], online[p], dialing[p], target[p], reading[p], connected[p], ids[p], partner[p], engine[p], ui[p], asked[p], key[p], candidate[p], Reads(p)>>
  BY DEF SendCancelDoes, Sends
<1>11. /\ ToDial(p) => /\ sock[p] = Nobody /\ status[p] = "waiting"
                      /\ ~Resets(p) /\ ~Closes(p) /\ ~Runs(p, "stop", "stop")
       /\ ToDial(p)' => /\ sock'[p] = Nobody /\ status'[p] = "waiting"
                       /\ ~Resets(p)' /\ ~Closes(p)' /\ ~Runs(p, "stop", "stop")'
  BY DEF Doomed, Busy
<1>5. ~Requesting(p)
  BY DEF SendCancelDoes
<1>6. ~Begun(p) /\ (\A h, y : ~Doing(p, h, "request", y))
  BY <1>5, RequestingIs DEF TypeOK, Begun, Asks
<1>20. SockInv(p)'
  BY <1>1, <1>2, <1>3, <1>4, <1>7, <1>8, <1>9, <1>11, <1>6 DEF PeerFacts, JobRules, Says, Local, SockInv, Leaves, Resets, TakesBack
<1>21. ReadInv(p)'
  BY <1>1, <1>2, <1>3, <1>4, <1>7, <1>8, <1>9, <1>11, <1>6 DEF PeerFacts, JobRules, Says, Local, ReadInv, Leaves, Resets, TakesBack
<1>22. AskInv(p)'
  BY <1>1, <1>2, <1>3, <1>4, <1>7, <1>8, <1>9, <1>11, <1>6 DEF PeerFacts, JobRules, Says, Local, AskInv, Leaves, Resets, TakesBack
<1>23. PlaceInv(p)'
  BY <1>1, <1>2, <1>3, <1>4, <1>7, <1>8, <1>9, <1>11, <1>6 DEF PeerFacts, JobRules, Says, Local, PlaceInv, Leaves, Resets, TakesBack
<1>24. ConnInv(p)'
  BY <1>1, <1>2, <1>3, <1>4, <1>7, <1>8, <1>9, <1>11, <1>6 DEF PeerFacts, JobRules, Says, Local, ConnInv, Leaves, Resets, TakesBack
<1>25. EngineInv(p)'
  BY <1>1, <1>2, <1>3, <1>4, <1>7, <1>8, <1>9, <1>11, <1>6 DEF PeerFacts, JobRules, Says, Local, EngineInv, Leaves, Resets, TakesBack
<1>26. WindowInv(p)'
  BY <1>1, <1>2, <1>3, <1>4, <1>7, <1>8, <1>9, <1>11, <1>6 DEF PeerFacts, JobRules, Says, Local, WindowInv, Leaves, Resets, TakesBack
<1>27. TlsInv(p)'
  <2>1. \A r \in Peers : r # p => Same(r) /\ key'[r] = key[r]
    BY DEF SendCancelDoes, Untouched, SameKey
  <2>2. /\ \A d \in DOMAIN links : To(d) = p => Taken(d)' = Taken(d)
        /\ \A d \in DOMAIN links' : To(d)' = p => d \in DOMAIN links
    BY <1>3 DEF SendCancelDoes, Sends
  <2>3. status[p] = "tls" /\ Uses(p) /\ Adopts(p, sock[p]) => Adopts(p, sock[p])'
    BY <1>2, <1>9
  <2>4. status[p] = "tls" /\ ~Uses(p) /\ sock[p] = Nobody /\ ~Begun(p) /\ ~Resets(p) /\ ui[p] = "idle" =>
           ~Begun(p)' /\ ~Resets(p)' /\ ui'[p] = "idle"
    BY <1>1, <1>2, <1>3, <1>4, <1>7, <1>8, <1>9, <1>11, <1>6 DEF PeerFacts, JobRules, Says, Local, PlaceInv, Leaves, Resets, TakesBack
  <2> QED
    BY <1>3, <1>9, <1>22, <2>1, <2>2, <2>3, <2>4, TlsSelf DEF Local
<1> QED
  BY <1>20, <1>21, <1>22, <1>23, <1>24, <1>25, <1>26, <1>27 DEF Local

LEMMA SendReadyLocal ==
    ASSUME TypeOK, TypeOK', NEW p \in Peers, Local(p), TlsInv(p), OnLink(p),
           SendReadyDoes(p), mishaps' = {}, ~Doomed(p), ~Doomed(p)'
    PROVE  Local(p)' /\ TlsInv(p)'
<1> DEFINE StaysRun(a, b) == Runs(p, a, b)' <=> Runs(p, a, b)
           StaysDoing(a, b) == \A y : Doing(p, a, b, y)' <=> Doing(p, a, b, y)
<1>1. /\ StaysRun("accept", "statusOn")
      /\ StaysRun("initHigh", "statusOn")
      /\ StaysRun("initLow", "statusOn")
      /\ StaysRun("statusOn", "statusOn")
      /\ StaysRun("cancel", "reset")
      /\ StaysRun("reset", "reset")
      /\ StaysRun("reject", "statusOff")
      /\ StaysRun("reset", "statusOff")
      /\ StaysRun("statusOff", "statusOff")
      /\ StaysRun("reset", "close")
      /\ StaysRun("close", "close")
      /\ StaysRun("reset", "unconnected")
      /\ StaysRun("lost", "unconnected")
      /\ StaysRun("unconnected", "unconnected")
      /\ StaysRun("reset", "again")
      /\ StaysRun("lost", "again")
      /\ StaysRun("again", "again")
      /\ StaysRun("stop", "stop")
      /\ Runs(p, "ready", "ready")
      /\ StaysRun("initFileSenders", "initFileSenders")
      /\ StaysDoing("dial", "request")
      /\ StaysDoing("exchange", "request")
      /\ StaysDoing("connect", "request")
      /\ StaysDoing("recvMsg", "request")
      /\ StaysDoing("request", "request")
      /\ StaysDoing("recvMsg", "established")
      /\ StaysDoing("established", "established")
      /\ StaysDoing("listen", "started")
      /\ StaysDoing("started", "started")
  BY DEF SendReadyDoes, Finishes, Runs
<1>2. /\ Begun(p)' <=> Begun(p)
      /\ \A y : Asks(p, y)' <=> Asks(p, y)
      /\ ToDial(p)' <=> ToDial(p)
      /\ \A y : Adopts(p, y)' <=> Adopts(p, y)
      /\ Starting(p)' <=> Starting(p)
      /\ \A y : Starts(p, y)' <=> Starts(p, y)
      /\ Agrees(p)' <=> Agrees(p)
      /\ TakesBack(p)' <=> TakesBack(p)
      /\ Leaves(p)' <=> Leaves(p)
      /\ Closes(p)' <=> Closes(p)
      /\ Resets(p)' <=> Resets(p)
      /\ Ended(p)' <=> Ended(p)
  BY <1>1 DEF Adopts, Agrees, Asks, Begun, Closes, Ended, Leaves, Resets, Starting, Starts, TakesBack, ToDial
<1>3. LinksKept /\ DOMAIN links' = DOMAIN links
  BY DEF SendReadyDoes, LinksKept, Sends
<1>4. /\ Uses(p)' <=> Uses(p)
      /\ Calls(p)' <=> Calls(p)
      /\ Takes(p)' <=> Takes(p)
      /\ Uses(p) => /\ From(sock[p])' = From(sock[p]) /\ To(sock[p])' = To(sock[p])
                    /\ Other(sock[p], p)' = Other(sock[p], p)
  BY <1>3, SocketSame DEF SendReadyDoes
<1>7. PeerFacts(p) /\ JobRules(p) /\ JobRules(p)' /\ Says(p)
  BY PeerIs, JobsAre, EndSays
<1>8. /\ status'[p] \in {"waiting", "tls", "tcp"} /\ sock'[p] \in DOMAIN links' \cup {Fresh, Nobody}
      /\ Fresh # Nobody /\ Fresh \notin DOMAIN links' /\ Nobody \notin DOMAIN links'
      /\ DOMAIN links' \subseteq Nat
      /\ engine'[p].listening \in BOOLEAN /\ engine'[p].started \in BOOLEAN /\ engine'[p].senders \in BOOLEAN
  BY PeerIsNext
<1>9. /\ Once(p) => Once(p)'
      /\ UNCHANGED <<status[p], sock[p], online[p], dialing[p], target[p], reading[p], connected[p], ids[p], partner[p], engine[p], ui[p], asked[p], key[p], candidate[p], Reads(p)>>
  BY DEF SendReadyDoes, Sends
<1>11. /\ ToDial(p) => /\ sock[p] = Nobody /\ status[p] = "waiting"
                      /\ ~Resets(p) /\ ~Closes(p) /\ ~Runs(p, "stop", "stop")
       /\ ToDial(p)' => /\ sock'[p] = Nobody /\ status'[p] = "waiting"
                       /\ ~Resets(p)' /\ ~Closes(p)' /\ ~Runs(p, "stop", "stop")'
  BY DEF Doomed, Busy
<1>20. SockInv(p)'
  BY <1>1, <1>2, <1>3, <1>4, <1>7, <1>8, <1>9, <1>11 DEF PeerFacts, JobRules, Says, Local, SockInv
<1>21. ReadInv(p)'
  BY <1>1, <1>2, <1>3, <1>4, <1>7, <1>8, <1>9, <1>11 DEF PeerFacts, JobRules, Says, Local, ReadInv
<1>22. AskInv(p)'
  BY <1>1, <1>2, <1>3, <1>4, <1>7, <1>8, <1>9, <1>11 DEF PeerFacts, JobRules, Says, Local, AskInv
<1>23. PlaceInv(p)'
  BY <1>1, <1>2, <1>3, <1>4, <1>7, <1>8, <1>9, <1>11 DEF PeerFacts, JobRules, Says, Local, PlaceInv
<1>24. ConnInv(p)'
  BY <1>1, <1>2, <1>3, <1>4, <1>7, <1>8, <1>9, <1>11 DEF PeerFacts, JobRules, Says, Local, ConnInv
<1>25. EngineInv(p)'
  BY <1>1, <1>2, <1>3, <1>4, <1>7, <1>8, <1>9, <1>11 DEF PeerFacts, JobRules, Says, Local, EngineInv
<1>26. WindowInv(p)'
  BY <1>1, <1>2, <1>3, <1>4, <1>7, <1>8, <1>9, <1>11 DEF PeerFacts, JobRules, Says, Local, WindowInv
<1>27. TlsInv(p)'
  <2>1. \A r \in Peers : r # p => Same(r) /\ key'[r] = key[r]
    BY DEF SendReadyDoes, Untouched, SameKey
  <2>2. /\ \A d \in DOMAIN links : To(d) = p => Taken(d)' = Taken(d)
        /\ \A d \in DOMAIN links' : To(d)' = p => d \in DOMAIN links
    BY <1>3 DEF SendReadyDoes, Sends
  <2>3. status[p] = "tls" /\ Uses(p) /\ Adopts(p, sock[p]) => Adopts(p, sock[p])'
    BY <1>2, <1>9
  <2>4. status[p] = "tls" /\ ~Uses(p) /\ sock[p] = Nobody /\ ~Begun(p) /\ ~Resets(p) /\ ui[p] = "idle" =>
           ~Begun(p)' /\ ~Resets(p)' /\ ui'[p] = "idle"
    BY <1>1, <1>2, <1>3, <1>4, <1>7, <1>8, <1>9, <1>11 DEF PeerFacts, JobRules, Says, Local, PlaceInv
  <2> QED
    BY <1>3, <1>9, <1>22, <2>1, <2>2, <2>3, <2>4, TlsSelf DEF Local
<1> QED
  BY <1>20, <1>21, <1>22, <1>23, <1>24, <1>25, <1>26, <1>27 DEF Local

LEMMA ParseRequestLocal ==
    ASSUME TypeOK, TypeOK', NEW p \in Peers, NEW c \in DOMAIN links, Local(p), TlsInv(p), OnLink(p),
           ParseRequestDoes(p, c), mishaps' = {}, ~Doomed(p), ~Doomed(p)'
    PROVE  Local(p)' /\ TlsInv(p)'
<1> DEFINE StaysRun(a, b) == Runs(p, a, b)' <=> Runs(p, a, b)
           StaysDoing(a, b) == \A y : Doing(p, a, b, y)' <=> Doing(p, a, b, y)
<1>1. Same(p)
  BY DEF ParseRequestDoes
<1>2. /\ StaysRun("accept", "statusOn")
      /\ StaysRun("initHigh", "statusOn")
      /\ StaysRun("initLow", "statusOn")
      /\ StaysRun("statusOn", "statusOn")
      /\ StaysRun("cancel", "reset")
      /\ StaysRun("reset", "reset")
      /\ StaysRun("reject", "statusOff")
      /\ StaysRun("reset", "statusOff")
      /\ StaysRun("statusOff", "statusOff")
      /\ StaysRun("reset", "close")
      /\ StaysRun("close", "close")
      /\ StaysRun("reset", "unconnected")
      /\ StaysRun("lost", "unconnected")
      /\ StaysRun("unconnected", "unconnected")
      /\ StaysRun("reset", "again")
      /\ StaysRun("lost", "again")
      /\ StaysRun("again", "again")
      /\ StaysRun("stop", "stop")
      /\ StaysRun("ready", "ready")
      /\ StaysRun("initFileSenders", "initFileSenders")
      /\ StaysDoing("dial", "request")
      /\ StaysDoing("exchange", "request")
      /\ StaysDoing("connect", "request")
      /\ StaysDoing("recvMsg", "request")
      /\ StaysDoing("request", "request")
      /\ StaysDoing("recvMsg", "established")
      /\ StaysDoing("established", "established")
      /\ StaysDoing("listen", "started")
      /\ StaysDoing("started", "started")
      /\ Begun(p)' <=> Begun(p)
      /\ \A y : Asks(p, y)' <=> Asks(p, y)
      /\ ToDial(p)' <=> ToDial(p)
      /\ \A y : Adopts(p, y)' <=> Adopts(p, y)
      /\ Starting(p)' <=> Starting(p)
      /\ \A y : Starts(p, y)' <=> Starts(p, y)
      /\ Agrees(p)' <=> Agrees(p)
      /\ TakesBack(p)' <=> TakesBack(p)
      /\ Leaves(p)' <=> Leaves(p)
      /\ Closes(p)' <=> Closes(p)
      /\ Resets(p)' <=> Resets(p)
      /\ Ended(p)' <=> Ended(p)
  BY <1>1, JobsSame DEF Same
<1>3. LinksKept /\ DOMAIN links' = DOMAIN links
  BY DEF ParseRequestDoes, LinksKept
<1>4. /\ Uses(p)' <=> Uses(p)
      /\ Calls(p)' <=> Calls(p)
      /\ Takes(p)' <=> Takes(p)
      /\ Uses(p) => /\ From(sock[p])' = From(sock[p]) /\ To(sock[p])' = To(sock[p])
                    /\ Other(sock[p], p)' = Other(sock[p], p)
  BY <1>3, SocketSame DEF ParseRequestDoes
<1>7. PeerFacts(p) /\ JobRules(p) /\ JobRules(p)' /\ Says(p)
  BY PeerIs, JobsAre, EndSays
<1>8. /\ status'[p] \in {"waiting", "tls", "tcp"} /\ sock'[p] \in DOMAIN links' \cup {Fresh, Nobody}
      /\ Fresh # Nobody /\ Fresh \notin DOMAIN links' /\ Nobody \notin DOMAIN links'
      /\ DOMAIN links' \subseteq Nat
      /\ engine'[p].listening \in BOOLEAN /\ engine'[p].started \in BOOLEAN /\ engine'[p].senders \in BOOLEAN
  BY PeerIsNext
<1>9. /\ (\A r \in Peers : Same(r) /\ (Once(r) => Once(r)'))
      /\ c \in Reads(p) /\ reading[p]
      /\ Head(In(c, p)).type = "request" /\ Head(In(c, p)).key = key[p]
      /\ UNCHANGED <<status[p], sock[p], online[p], dialing[p], target[p], reading[p], connected[p], ids[p], engine[p], ui[p], key[p], candidate[p], Reads(p)>>
      /\ asked'[p] = TRUE
      /\ partner'[p] = Other(c, p)
      /\ c \in DOMAIN links /\ p \in {From(c), To(c)} /\ p \in Open(c) /\ Other(c, p) \in {From(c), To(c)} /\ Other(c, p) # p
      /\ In(c, p) # << >> /\ In(c, p)' = Tail(In(c, p)) /\ In(c, Other(c, p))' = In(c, Other(c, p))
  BY DEF ParseRequestDoes
<1>11. /\ ToDial(p) => /\ sock[p] = Nobody /\ status[p] = "waiting"
                      /\ ~Resets(p) /\ ~Closes(p) /\ ~Runs(p, "stop", "stop")
       /\ ToDial(p)' => /\ sock'[p] = Nobody /\ status'[p] = "waiting"
                       /\ ~Resets(p)' /\ ~Closes(p)' /\ ~Runs(p, "stop", "stop")'
  BY DEF Doomed, Busy
<1>5. Uses(p) /\ c = sock[p]
  BY PeerIs DEF PeerFacts, ParseRequestDoes, Local, ReadInv
<1>10. /\ Takes(p) /\ ~asked[p] /\ ~Agrees(p) /\ ~connected[p]
       /\ ~Resets(p) /\ ~Begun(p)
  <2>1. HeadSays(p, "request")
    BY <1>5, HeadMeans DEF ParseRequestDoes
  <2> QED
    BY <1>5, <1>7, <2>1 DEF HeadSays, Local, PlaceInv, SockInv, JobRules, PeerFacts
<1>20. SockInv(p)'
  BY <1>1, <1>2, <1>3, <1>4, <1>7, <1>8, <1>9, <1>11, <1>5, <1>10 DEF PeerFacts, JobRules, Says, Local, SockInv
<1>21. ReadInv(p)'
  BY <1>1, <1>2, <1>3, <1>4, <1>7, <1>8, <1>9, <1>11, <1>5, <1>10 DEF PeerFacts, JobRules, Says, Local, ReadInv
<1>22. AskInv(p)'
  BY <1>1, <1>2, <1>3, <1>4, <1>7, <1>8, <1>9, <1>11, <1>5, <1>10 DEF PeerFacts, JobRules, Says, Local, AskInv
<1>23. PlaceInv(p)'
  BY <1>1, <1>2, <1>3, <1>4, <1>7, <1>8, <1>9, <1>11, <1>5, <1>10 DEF PeerFacts, JobRules, Says, Local, PlaceInv
<1>24. ConnInv(p)'
  BY <1>1, <1>2, <1>3, <1>4, <1>7, <1>8, <1>9, <1>11, <1>5, <1>10 DEF PeerFacts, JobRules, Says, Local, ConnInv
<1>25. EngineInv(p)'
  BY <1>1, <1>2, <1>3, <1>4, <1>7, <1>8, <1>9, <1>11, <1>5, <1>10 DEF PeerFacts, JobRules, Says, Local, EngineInv
<1>26. WindowInv(p)'
  BY <1>1, <1>2, <1>3, <1>4, <1>7, <1>8, <1>9, <1>11, <1>5, <1>10 DEF PeerFacts, JobRules, Says, Local, WindowInv
<1>27. TlsInv(p)'
  <2>1. \A r \in Peers : r # p => Same(r) /\ key'[r] = key[r]
    BY DEF ParseRequestDoes, Untouched, SameKey
  <2>2. /\ \A d \in DOMAIN links : To(d) = p => Taken(d)' = Taken(d)
        /\ \A d \in DOMAIN links' : To(d)' = p => d \in DOMAIN links
    BY <1>3 DEF ParseRequestDoes
  <2>3. status[p] = "tls" /\ Uses(p) /\ Adopts(p, sock[p]) => Adopts(p, sock[p])'
    BY <1>2, <1>9
  <2>4. status[p] = "tls" /\ ~Uses(p) /\ sock[p] = Nobody /\ ~Begun(p) /\ ~Resets(p) /\ ui[p] = "idle" =>
           ~Begun(p)' /\ ~Resets(p)' /\ ui'[p] = "idle"
    BY <1>1, <1>2, <1>3, <1>4, <1>7, <1>8, <1>9, <1>11, <1>5, <1>10 DEF PeerFacts, JobRules, Says, Local, PlaceInv
  <2> QED
    BY <1>3, <1>9, <1>22, <2>1, <2>2, <2>3, <2>4, TlsSelf DEF Local
<1> QED
  BY <1>20, <1>21, <1>22, <1>23, <1>24, <1>25, <1>26, <1>27 DEF Local

LEMMA ParseAcceptLocal ==
    ASSUME TypeOK, TypeOK', NEW p \in Peers, NEW c \in DOMAIN links, Local(p), TlsInv(p), OnLink(p),
           ParseAcceptDoes(p, c), mishaps' = {}, ~Doomed(p), ~Doomed(p)'
    PROVE  Local(p)' /\ TlsInv(p)'
<1> DEFINE StaysRun(a, b) == Runs(p, a, b)' <=> Runs(p, a, b)
           StaysDoing(a, b) == \A y : Doing(p, a, b, y)' <=> Doing(p, a, b, y)
<1>1. /\ StaysRun("accept", "statusOn")
      /\ StaysRun("initHigh", "statusOn")
      /\ Runs(p, "initLow", "statusOn")'
      /\ StaysRun("statusOn", "statusOn")
      /\ StaysRun("cancel", "reset")
      /\ StaysRun("reset", "reset")
      /\ StaysRun("reject", "statusOff")
      /\ StaysRun("reset", "statusOff")
      /\ StaysRun("statusOff", "statusOff")
      /\ StaysRun("reset", "close")
      /\ StaysRun("close", "close")
      /\ StaysRun("reset", "unconnected")
      /\ StaysRun("lost", "unconnected")
      /\ StaysRun("unconnected", "unconnected")
      /\ StaysRun("reset", "again")
      /\ StaysRun("lost", "again")
      /\ StaysRun("again", "again")
      /\ StaysRun("stop", "stop")
      /\ StaysRun("ready", "ready")
      /\ StaysRun("initFileSenders", "initFileSenders")
      /\ StaysDoing("dial", "request")
      /\ StaysDoing("exchange", "request")
      /\ StaysDoing("connect", "request")
      /\ StaysDoing("recvMsg", "request")
      /\ StaysDoing("request", "request")
      /\ StaysDoing("recvMsg", "established")
      /\ StaysDoing("established", "established")
      /\ StaysDoing("listen", "started")
      /\ StaysDoing("started", "started")
  BY DEF ParseAcceptDoes, Gets, Runs
<1>2. /\ Begun(p)' <=> Begun(p)
      /\ \A y : Asks(p, y)' <=> Asks(p, y)
      /\ ToDial(p)' <=> ToDial(p)
      /\ \A y : Adopts(p, y)' <=> Adopts(p, y)
      /\ Starting(p)' <=> Starting(p)
      /\ \A y : Starts(p, y)' <=> Starts(p, y)
      /\ TakesBack(p)' <=> TakesBack(p)
      /\ Leaves(p)' <=> Leaves(p)
      /\ Closes(p)' <=> Closes(p)
      /\ Resets(p)' <=> Resets(p)
      /\ Ended(p)' <=> Ended(p)
  BY <1>1 DEF Adopts, Asks, Begun, Closes, Ended, Leaves, Resets, Starting, Starts, TakesBack, ToDial
<1>3. LinksKept /\ DOMAIN links' = DOMAIN links
  BY DEF ParseAcceptDoes, LinksKept
<1>4. /\ Uses(p)' <=> Uses(p)
      /\ Calls(p)' <=> Calls(p)
      /\ Takes(p)' <=> Takes(p)
      /\ Uses(p) => /\ From(sock[p])' = From(sock[p]) /\ To(sock[p])' = To(sock[p])
                    /\ Other(sock[p], p)' = Other(sock[p], p)
  BY <1>3, SocketSame DEF ParseAcceptDoes
<1>7. PeerFacts(p) /\ JobRules(p) /\ JobRules(p)' /\ Says(p)
  BY PeerIs, JobsAre, EndSays
<1>8. /\ status'[p] \in {"waiting", "tls", "tcp"} /\ sock'[p] \in DOMAIN links' \cup {Fresh, Nobody}
      /\ Fresh # Nobody /\ Fresh \notin DOMAIN links' /\ Nobody \notin DOMAIN links'
      /\ DOMAIN links' \subseteq Nat
      /\ engine'[p].listening \in BOOLEAN /\ engine'[p].started \in BOOLEAN /\ engine'[p].senders \in BOOLEAN
  BY PeerIsNext
<1>9. /\ Once(p) => Once(p)'
      /\ c \in Reads(p) /\ reading[p]
      /\ Head(In(c, p)).type = "accept" /\ Head(In(c, p)).key = key[p]
      /\ UNCHANGED <<status[p], sock[p], online[p], dialing[p], target[p], reading[p], connected[p], ids[p], partner[p], engine[p], asked[p], key[p], candidate[p], Reads(p)>>
      /\ ui'[p] = "connected"
      /\ c \in DOMAIN links /\ p \in {From(c), To(c)} /\ p \in Open(c) /\ Other(c, p) \in {From(c), To(c)} /\ Other(c, p) # p
      /\ In(c, p) # << >> /\ In(c, p)' = Tail(In(c, p)) /\ In(c, Other(c, p))' = In(c, Other(c, p))
  BY DEF ParseAcceptDoes
<1>11. /\ ToDial(p) => /\ sock[p] = Nobody /\ status[p] = "waiting"
                      /\ ~Resets(p) /\ ~Closes(p) /\ ~Runs(p, "stop", "stop")
       /\ ToDial(p)' => /\ sock'[p] = Nobody /\ status'[p] = "waiting"
                       /\ ~Resets(p)' /\ ~Closes(p)' /\ ~Runs(p, "stop", "stop")'
  BY DEF Doomed, Busy
<1>5. Uses(p) /\ c = sock[p]
  BY PeerIs DEF PeerFacts, ParseAcceptDoes, Local, ReadInv
<1>10. /\ Calls(p) /\ ~Begun(p) /\ ~Agrees(p) /\ ~connected[p]
       /\ ~Runs(p, "reset", "close") /\ ~Runs(p, "reset", "again")
       /\ ~Runs(p, "reset", "statusOff") /\ ~Closes(p)
  <2>1. HeadSays(p, "accept")
    BY <1>5, HeadMeans DEF ParseAcceptDoes
  <2> QED
    BY <1>5, <1>7, <2>1 DEF HeadSays, Local, PlaceInv, SockInv, JobRules, PeerFacts
<1>20. SockInv(p)'
  BY <1>1, <1>2, <1>3, <1>4, <1>7, <1>8, <1>9, <1>11, <1>5, <1>10 DEF PeerFacts, JobRules, Says, Local, SockInv, Agrees
<1>21. ReadInv(p)'
  BY <1>1, <1>2, <1>3, <1>4, <1>7, <1>8, <1>9, <1>11, <1>5, <1>10 DEF PeerFacts, JobRules, Says, Local, ReadInv, Agrees
<1>22. AskInv(p)'
  BY <1>1, <1>2, <1>3, <1>4, <1>7, <1>8, <1>9, <1>11, <1>5, <1>10 DEF PeerFacts, JobRules, Says, Local, AskInv, Agrees
<1>23. PlaceInv(p)'
  BY <1>1, <1>2, <1>3, <1>4, <1>7, <1>8, <1>9, <1>11, <1>5, <1>10 DEF PeerFacts, JobRules, Says, Local, PlaceInv, Agrees
<1>24. ConnInv(p)'
  BY <1>1, <1>2, <1>3, <1>4, <1>7, <1>8, <1>9, <1>11, <1>5, <1>10 DEF PeerFacts, JobRules, Says, Local, ConnInv, Agrees
<1>25. EngineInv(p)'
  BY <1>1, <1>2, <1>3, <1>4, <1>7, <1>8, <1>9, <1>11, <1>5, <1>10 DEF PeerFacts, JobRules, Says, Local, EngineInv, Agrees
<1>26. WindowInv(p)'
  BY <1>1, <1>2, <1>3, <1>4, <1>7, <1>8, <1>9, <1>11, <1>5, <1>10 DEF PeerFacts, JobRules, Says, Local, WindowInv, Agrees
<1>27. TlsInv(p)'
  <2>1. \A r \in Peers : r # p => Same(r) /\ key'[r] = key[r]
    BY DEF ParseAcceptDoes, Untouched, SameKey
  <2>2. /\ \A d \in DOMAIN links : To(d) = p => Taken(d)' = Taken(d)
        /\ \A d \in DOMAIN links' : To(d)' = p => d \in DOMAIN links
    BY <1>3 DEF ParseAcceptDoes
  <2>3. status[p] = "tls" /\ Uses(p) /\ Adopts(p, sock[p]) => Adopts(p, sock[p])'
    BY <1>2, <1>9
  <2>4. status[p] = "tls" /\ ~Uses(p) /\ sock[p] = Nobody /\ ~Begun(p) /\ ~Resets(p) /\ ui[p] = "idle" =>
           ~Begun(p)' /\ ~Resets(p)' /\ ui'[p] = "idle"
    BY <1>1, <1>2, <1>3, <1>4, <1>7, <1>8, <1>9, <1>11, <1>5, <1>10 DEF PeerFacts, JobRules, Says, Local, PlaceInv, Agrees
  <2> QED
    BY <1>3, <1>9, <1>22, <2>1, <2>2, <2>3, <2>4, TlsSelf DEF Local
<1> QED
  BY <1>20, <1>21, <1>22, <1>23, <1>24, <1>25, <1>26, <1>27 DEF Local

LEMMA ParseRejectLocal ==
    ASSUME TypeOK, TypeOK', NEW p \in Peers, NEW c \in DOMAIN links, Local(p), TlsInv(p), OnLink(p),
           ParseRejectDoes(p, c), mishaps' = {}, ~Doomed(p), ~Doomed(p)'
    PROVE  Local(p)' /\ TlsInv(p)'
<1> DEFINE StaysRun(a, b) == Runs(p, a, b)' <=> Runs(p, a, b)
           StaysDoing(a, b) == \A y : Doing(p, a, b, y)' <=> Doing(p, a, b, y)
<1>1. /\ StaysRun("accept", "statusOn")
      /\ StaysRun("initHigh", "statusOn")
      /\ StaysRun("initLow", "statusOn")
      /\ StaysRun("statusOn", "statusOn")
      /\ StaysRun("cancel", "reset")
      /\ StaysRun("reset", "reset")
      /\ StaysRun("reject", "statusOff")
      /\ Runs(p, "reset", "statusOff")'
      /\ StaysRun("statusOff", "statusOff")
      /\ StaysRun("reset", "close")
      /\ StaysRun("close", "close")
      /\ StaysRun("reset", "unconnected")
      /\ StaysRun("lost", "unconnected")
      /\ StaysRun("unconnected", "unconnected")
      /\ StaysRun("reset", "again")
      /\ StaysRun("lost", "again")
      /\ StaysRun("again", "again")
      /\ StaysRun("stop", "stop")
      /\ StaysRun("ready", "ready")
      /\ StaysRun("initFileSenders", "initFileSenders")
      /\ StaysDoing("dial", "request")
      /\ StaysDoing("exchange", "request")
      /\ StaysDoing("connect", "request")
      /\ StaysDoing("recvMsg", "request")
      /\ StaysDoing("request", "request")
      /\ StaysDoing("recvMsg", "established")
      /\ StaysDoing("established", "established")
      /\ StaysDoing("listen", "started")
      /\ StaysDoing("started", "started")
  BY DEF ParseRejectDoes, Gets, Runs
<1>2. /\ Begun(p)' <=> Begun(p)
      /\ \A y : Asks(p, y)' <=> Asks(p, y)
      /\ ToDial(p)' <=> ToDial(p)
      /\ \A y : Adopts(p, y)' <=> Adopts(p, y)
      /\ Starting(p)' <=> Starting(p)
      /\ \A y : Starts(p, y)' <=> Starts(p, y)
      /\ Agrees(p)' <=> Agrees(p)
      /\ TakesBack(p)' <=> TakesBack(p)
      /\ Closes(p)' <=> Closes(p)
      /\ Ended(p)' <=> Ended(p)
  BY <1>1 DEF Adopts, Agrees, Asks, Begun, Closes, Ended, Starting, Starts, TakesBack, ToDial
<1>3. LinksKept /\ DOMAIN links' = DOMAIN links
  BY DEF ParseRejectDoes, LinksKept
<1>4. /\ Uses(p)' <=> Uses(p)
      /\ Calls(p)' <=> Calls(p)
      /\ Takes(p)' <=> Takes(p)
      /\ Uses(p) => /\ From(sock[p])' = From(sock[p]) /\ To(sock[p])' = To(sock[p])
                    /\ Other(sock[p], p)' = Other(sock[p], p)
  BY <1>3, SocketSame DEF ParseRejectDoes
<1>7. PeerFacts(p) /\ JobRules(p) /\ JobRules(p)' /\ Says(p)
  BY PeerIs, JobsAre, EndSays
<1>8. /\ status'[p] \in {"waiting", "tls", "tcp"} /\ sock'[p] \in DOMAIN links' \cup {Fresh, Nobody}
      /\ Fresh # Nobody /\ Fresh \notin DOMAIN links' /\ Nobody \notin DOMAIN links'
      /\ DOMAIN links' \subseteq Nat
      /\ engine'[p].listening \in BOOLEAN /\ engine'[p].started \in BOOLEAN /\ engine'[p].senders \in BOOLEAN
  BY PeerIsNext
<1>9. /\ Once(p) => Once(p)'
      /\ c \in Reads(p) /\ reading[p]
      /\ Head(In(c, p)).type = "reject" /\ Head(In(c, p)).key = key[p]
      /\ UNCHANGED <<status[p], sock[p], online[p], dialing[p], target[p], reading[p], connected[p], ids[p], partner[p], engine[p], asked[p], key[p], candidate[p], Reads(p)>>
      /\ ui'[p] = "idle"
      /\ c \in DOMAIN links /\ p \in {From(c), To(c)} /\ p \in Open(c) /\ Other(c, p) \in {From(c), To(c)} /\ Other(c, p) # p
      /\ In(c, p) # << >> /\ In(c, p)' = Tail(In(c, p)) /\ In(c, Other(c, p))' = In(c, Other(c, p))
  BY DEF ParseRejectDoes
<1>11. /\ ToDial(p) => /\ sock[p] = Nobody /\ status[p] = "waiting"
                      /\ ~Resets(p) /\ ~Closes(p) /\ ~Runs(p, "stop", "stop")
       /\ ToDial(p)' => /\ sock'[p] = Nobody /\ status'[p] = "waiting"
                       /\ ~Resets(p)' /\ ~Closes(p)' /\ ~Runs(p, "stop", "stop")'
  BY DEF Doomed, Busy
<1>5. Uses(p) /\ c = sock[p]
  BY PeerIs DEF PeerFacts, ParseRejectDoes, Local, ReadInv
<1>10. /\ Calls(p) /\ ~Begun(p) /\ ~Agrees(p) /\ ~connected[p] /\ ~asked[p]
       /\ ~Runs(p, "reset", "close") /\ ~Runs(p, "reset", "again")
  <2>1. HeadSays(p, "reject")
    BY <1>5, HeadMeans DEF ParseRejectDoes
  <2> QED
    BY <1>5, <1>7, <2>1 DEF HeadSays, Local, PlaceInv, SockInv, JobRules, PeerFacts
<1>20. SockInv(p)'
  BY <1>1, <1>2, <1>3, <1>4, <1>7, <1>8, <1>9, <1>11, <1>5, <1>10 DEF PeerFacts, JobRules, Says, Local, SockInv, Leaves, Resets, TakesBack
<1>21. ReadInv(p)'
  BY <1>1, <1>2, <1>3, <1>4, <1>7, <1>8, <1>9, <1>11, <1>5, <1>10 DEF PeerFacts, JobRules, Says, Local, ReadInv, Leaves, Resets, TakesBack
<1>22. AskInv(p)'
  BY <1>1, <1>2, <1>3, <1>4, <1>7, <1>8, <1>9, <1>11, <1>5, <1>10 DEF PeerFacts, JobRules, Says, Local, AskInv, Leaves, Resets, TakesBack
<1>23. PlaceInv(p)'
  BY <1>1, <1>2, <1>3, <1>4, <1>7, <1>8, <1>9, <1>11, <1>5, <1>10 DEF PeerFacts, JobRules, Says, Local, PlaceInv, Leaves, Resets, TakesBack
<1>24. ConnInv(p)'
  BY <1>1, <1>2, <1>3, <1>4, <1>7, <1>8, <1>9, <1>11, <1>5, <1>10 DEF PeerFacts, JobRules, Says, Local, ConnInv, Leaves, Resets, TakesBack
<1>25. EngineInv(p)'
  BY <1>1, <1>2, <1>3, <1>4, <1>7, <1>8, <1>9, <1>11, <1>5, <1>10 DEF PeerFacts, JobRules, Says, Local, EngineInv, Leaves, Resets, TakesBack
<1>26. WindowInv(p)'
  BY <1>1, <1>2, <1>3, <1>4, <1>7, <1>8, <1>9, <1>11, <1>5, <1>10 DEF PeerFacts, JobRules, Says, Local, WindowInv, Leaves, Resets, TakesBack
<1>27. TlsInv(p)'
  <2>1. \A r \in Peers : r # p => Same(r) /\ key'[r] = key[r]
    BY DEF ParseRejectDoes, Untouched, SameKey
  <2>2. /\ \A d \in DOMAIN links : To(d) = p => Taken(d)' = Taken(d)
        /\ \A d \in DOMAIN links' : To(d)' = p => d \in DOMAIN links
    BY <1>3 DEF ParseRejectDoes
  <2>3. status[p] = "tls" /\ Uses(p) /\ Adopts(p, sock[p]) => Adopts(p, sock[p])'
    BY <1>2, <1>9
  <2>4. status[p] = "tls" /\ ~Uses(p) /\ sock[p] = Nobody /\ ~Begun(p) /\ ~Resets(p) /\ ui[p] = "idle" =>
           ~Begun(p)' /\ ~Resets(p)' /\ ui'[p] = "idle"
    BY <1>1, <1>2, <1>3, <1>4, <1>7, <1>8, <1>9, <1>11, <1>5, <1>10 DEF PeerFacts, JobRules, Says, Local, PlaceInv, Leaves, Resets, TakesBack
  <2> QED
    BY <1>3, <1>9, <1>22, <2>1, <2>2, <2>3, <2>4, TlsSelf DEF Local
<1> QED
  BY <1>20, <1>21, <1>22, <1>23, <1>24, <1>25, <1>26, <1>27 DEF Local

LEMMA ParseCancelLocal ==
    ASSUME TypeOK, TypeOK', NEW p \in Peers, NEW c \in DOMAIN links, Local(p), TlsInv(p), OnLink(p),
           ParseCancelDoes(p, c), mishaps' = {}, ~Doomed(p), ~Doomed(p)'
    PROVE  Local(p)' /\ TlsInv(p)'
<1> DEFINE StaysRun(a, b) == Runs(p, a, b)' <=> Runs(p, a, b)
           StaysDoing(a, b) == \A y : Doing(p, a, b, y)' <=> Doing(p, a, b, y)
<1>1. /\ StaysRun("accept", "statusOn")
      /\ StaysRun("initHigh", "statusOn")
      /\ StaysRun("initLow", "statusOn")
      /\ StaysRun("statusOn", "statusOn")
      /\ StaysRun("cancel", "reset")
      /\ Runs(p, "reset", "reset")'
      /\ StaysRun("reject", "statusOff")
      /\ StaysRun("reset", "statusOff")
      /\ StaysRun("statusOff", "statusOff")
      /\ StaysRun("reset", "close")
      /\ StaysRun("close", "close")
      /\ StaysRun("reset", "unconnected")
      /\ StaysRun("lost", "unconnected")
      /\ StaysRun("unconnected", "unconnected")
      /\ StaysRun("reset", "again")
      /\ StaysRun("lost", "again")
      /\ StaysRun("again", "again")
      /\ StaysRun("stop", "stop")
      /\ StaysRun("ready", "ready")
      /\ StaysRun("initFileSenders", "initFileSenders")
      /\ StaysDoing("dial", "request")
      /\ StaysDoing("exchange", "request")
      /\ StaysDoing("connect", "request")
      /\ StaysDoing("recvMsg", "request")
      /\ StaysDoing("request", "request")
      /\ StaysDoing("recvMsg", "established")
      /\ StaysDoing("established", "established")
      /\ StaysDoing("listen", "started")
      /\ StaysDoing("started", "started")
  BY DEF ParseCancelDoes, Gets, Runs
<1>2. /\ Begun(p)' <=> Begun(p)
      /\ \A y : Asks(p, y)' <=> Asks(p, y)
      /\ ToDial(p)' <=> ToDial(p)
      /\ \A y : Adopts(p, y)' <=> Adopts(p, y)
      /\ Starting(p)' <=> Starting(p)
      /\ \A y : Starts(p, y)' <=> Starts(p, y)
      /\ Agrees(p)' <=> Agrees(p)
      /\ TakesBack(p)' <=> TakesBack(p)
      /\ Closes(p)' <=> Closes(p)
      /\ Ended(p)' <=> Ended(p)
  BY <1>1 DEF Adopts, Agrees, Asks, Begun, Closes, Ended, Starting, Starts, TakesBack, ToDial
<1>3. LinksKept /\ DOMAIN links' = DOMAIN links
  BY DEF ParseCancelDoes, LinksKept
<1>4. /\ Uses(p)' <=> Uses(p)
      /\ Calls(p)' <=> Calls(p)
      /\ Takes(p)' <=> Takes(p)
      /\ Uses(p) => /\ From(sock[p])' = From(sock[p]) /\ To(sock[p])' = To(sock[p])
                    /\ Other(sock[p], p)' = Other(sock[p], p)
  BY <1>3, SocketSame DEF ParseCancelDoes
<1>7. PeerFacts(p) /\ JobRules(p) /\ JobRules(p)' /\ Says(p)
  BY PeerIs, JobsAre, EndSays
<1>8. /\ status'[p] \in {"waiting", "tls", "tcp"} /\ sock'[p] \in DOMAIN links' \cup {Fresh, Nobody}
      /\ Fresh # Nobody /\ Fresh \notin DOMAIN links' /\ Nobody \notin DOMAIN links'
      /\ DOMAIN links' \subseteq Nat
      /\ engine'[p].listening \in BOOLEAN /\ engine'[p].started \in BOOLEAN /\ engine'[p].senders \in BOOLEAN
  BY PeerIsNext
<1>9. /\ Once(p) => Once(p)'
      /\ c \in Reads(p) /\ reading[p]
      /\ Head(In(c, p)).type = "cancel" /\ Head(In(c, p)).key = key[p]
      /\ UNCHANGED <<status[p], sock[p], online[p], dialing[p], target[p], reading[p], connected[p], ids[p], partner[p], engine[p], ui[p], key[p], candidate[p], Reads(p)>>
      /\ asked'[p] = FALSE
      /\ c \in DOMAIN links /\ p \in {From(c), To(c)} /\ p \in Open(c) /\ Other(c, p) \in {From(c), To(c)} /\ Other(c, p) # p
      /\ In(c, p) # << >> /\ In(c, p)' = Tail(In(c, p)) /\ In(c, Other(c, p))' = In(c, Other(c, p))
  BY DEF ParseCancelDoes
<1>11. /\ ToDial(p) => /\ sock[p] = Nobody /\ status[p] = "waiting"
                      /\ ~Resets(p) /\ ~Closes(p) /\ ~Runs(p, "stop", "stop")
       /\ ToDial(p)' => /\ sock'[p] = Nobody /\ status'[p] = "waiting"
                       /\ ~Resets(p)' /\ ~Closes(p)' /\ ~Runs(p, "stop", "stop")'
  BY DEF Doomed, Busy
<1>5. Uses(p) /\ c = sock[p]
  BY PeerIs DEF PeerFacts, ParseCancelDoes, Local, ReadInv
<1>10. /\ Takes(p) /\ ~Begun(p) /\ ui[p] # "asking"
  <2>1. HeadSays(p, "cancel")
    BY <1>5, HeadMeans DEF ParseCancelDoes
  <2> QED
    BY <1>5, <1>7, <2>1 DEF HeadSays, Local, PlaceInv, SockInv, JobRules, PeerFacts
<1>20. SockInv(p)'
  BY <1>1, <1>2, <1>3, <1>4, <1>7, <1>8, <1>9, <1>11, <1>5, <1>10 DEF PeerFacts, JobRules, Says, Local, SockInv, Leaves, Resets, TakesBack
<1>21. ReadInv(p)'
  BY <1>1, <1>2, <1>3, <1>4, <1>7, <1>8, <1>9, <1>11, <1>5, <1>10 DEF PeerFacts, JobRules, Says, Local, ReadInv, Leaves, Resets, TakesBack
<1>22. AskInv(p)'
  BY <1>1, <1>2, <1>3, <1>4, <1>7, <1>8, <1>9, <1>11, <1>5, <1>10 DEF PeerFacts, JobRules, Says, Local, AskInv, Leaves, Resets, TakesBack
<1>23. PlaceInv(p)'
  BY <1>1, <1>2, <1>3, <1>4, <1>7, <1>8, <1>9, <1>11, <1>5, <1>10 DEF PeerFacts, JobRules, Says, Local, PlaceInv, Leaves, Resets, TakesBack
<1>24. ConnInv(p)'
  BY <1>1, <1>2, <1>3, <1>4, <1>7, <1>8, <1>9, <1>11, <1>5, <1>10 DEF PeerFacts, JobRules, Says, Local, ConnInv, Leaves, Resets, TakesBack
<1>25. EngineInv(p)'
  BY <1>1, <1>2, <1>3, <1>4, <1>7, <1>8, <1>9, <1>11, <1>5, <1>10 DEF PeerFacts, JobRules, Says, Local, EngineInv, Leaves, Resets, TakesBack
<1>26. WindowInv(p)'
  BY <1>1, <1>2, <1>3, <1>4, <1>7, <1>8, <1>9, <1>11, <1>5, <1>10 DEF PeerFacts, JobRules, Says, Local, WindowInv, Leaves, Resets, TakesBack
<1>27. TlsInv(p)'
  <2>1. \A r \in Peers : r # p => Same(r) /\ key'[r] = key[r]
    BY DEF ParseCancelDoes, Untouched, SameKey
  <2>2. /\ \A d \in DOMAIN links : To(d) = p => Taken(d)' = Taken(d)
        /\ \A d \in DOMAIN links' : To(d)' = p => d \in DOMAIN links
    BY <1>3 DEF ParseCancelDoes
  <2>3. status[p] = "tls" /\ Uses(p) /\ Adopts(p, sock[p]) => Adopts(p, sock[p])'
    BY <1>2, <1>9
  <2>4. status[p] = "tls" /\ ~Uses(p) /\ sock[p] = Nobody /\ ~Begun(p) /\ ~Resets(p) /\ ui[p] = "idle" =>
           ~Begun(p)' /\ ~Resets(p)' /\ ui'[p] = "idle"
    BY <1>1, <1>2, <1>3, <1>4, <1>7, <1>8, <1>9, <1>11, <1>5, <1>10 DEF PeerFacts, JobRules, Says, Local, PlaceInv, Leaves, Resets, TakesBack
  <2> QED
    BY <1>3, <1>9, <1>22, <2>1, <2>2, <2>3, <2>4, TlsSelf DEF Local
<1> QED
  BY <1>20, <1>21, <1>22, <1>23, <1>24, <1>25, <1>26, <1>27 DEF Local

LEMMA ParseReadyLocal ==
    ASSUME TypeOK, TypeOK', NEW p \in Peers, NEW c \in DOMAIN links, Local(p), TlsInv(p), OnLink(p),
           ParseReadyDoes(p, c), mishaps' = {}, ~Doomed(p), ~Doomed(p)'
    PROVE  Local(p)' /\ TlsInv(p)'
<1> DEFINE StaysRun(a, b) == Runs(p, a, b)' <=> Runs(p, a, b)
           StaysDoing(a, b) == \A y : Doing(p, a, b, y)' <=> Doing(p, a, b, y)
<1>1. /\ StaysRun("accept", "statusOn")
      /\ StaysRun("initHigh", "statusOn")
      /\ StaysRun("initLow", "statusOn")
      /\ StaysRun("statusOn", "statusOn")
      /\ StaysRun("cancel", "reset")
      /\ StaysRun("reset", "reset")
      /\ StaysRun("reject", "statusOff")
      /\ StaysRun("reset", "statusOff")
      /\ StaysRun("statusOff", "statusOff")
      /\ StaysRun("reset", "close")
      /\ StaysRun("close", "close")
      /\ StaysRun("reset", "unconnected")
      /\ StaysRun("lost", "unconnected")
      /\ StaysRun("unconnected", "unconnected")
      /\ StaysRun("reset", "again")
      /\ StaysRun("lost", "again")
      /\ StaysRun("again", "again")
      /\ StaysRun("stop", "stop")
      /\ StaysRun("ready", "ready")
      /\ Runs(p, "initFileSenders", "initFileSenders")'
      /\ StaysDoing("dial", "request")
      /\ StaysDoing("exchange", "request")
      /\ StaysDoing("connect", "request")
      /\ StaysDoing("recvMsg", "request")
      /\ StaysDoing("request", "request")
      /\ StaysDoing("recvMsg", "established")
      /\ StaysDoing("established", "established")
      /\ StaysDoing("listen", "started")
      /\ StaysDoing("started", "started")
  BY DEF ParseReadyDoes, Gets, Runs
<1>2. /\ Begun(p)' <=> Begun(p)
      /\ \A y : Asks(p, y)' <=> Asks(p, y)
      /\ ToDial(p)' <=> ToDial(p)
      /\ \A y : Adopts(p, y)' <=> Adopts(p, y)
      /\ Starting(p)' <=> Starting(p)
      /\ \A y : Starts(p, y)' <=> Starts(p, y)
      /\ Agrees(p)' <=> Agrees(p)
      /\ TakesBack(p)' <=> TakesBack(p)
      /\ Leaves(p)' <=> Leaves(p)
      /\ Closes(p)' <=> Closes(p)
      /\ Resets(p)' <=> Resets(p)
      /\ Ended(p)' <=> Ended(p)
  BY <1>1 DEF Adopts, Agrees, Asks, Begun, Closes, Ended, Leaves, Resets, Starting, Starts, TakesBack, ToDial
<1>3. LinksKept /\ DOMAIN links' = DOMAIN links
  BY DEF ParseReadyDoes, LinksKept
<1>4. /\ Uses(p)' <=> Uses(p)
      /\ Calls(p)' <=> Calls(p)
      /\ Takes(p)' <=> Takes(p)
      /\ Uses(p) => /\ From(sock[p])' = From(sock[p]) /\ To(sock[p])' = To(sock[p])
                    /\ Other(sock[p], p)' = Other(sock[p], p)
  BY <1>3, SocketSame DEF ParseReadyDoes
<1>7. PeerFacts(p) /\ JobRules(p) /\ JobRules(p)' /\ Says(p)
  BY PeerIs, JobsAre, EndSays
<1>8. /\ status'[p] \in {"waiting", "tls", "tcp"} /\ sock'[p] \in DOMAIN links' \cup {Fresh, Nobody}
      /\ Fresh # Nobody /\ Fresh \notin DOMAIN links' /\ Nobody \notin DOMAIN links'
      /\ DOMAIN links' \subseteq Nat
      /\ engine'[p].listening \in BOOLEAN /\ engine'[p].started \in BOOLEAN /\ engine'[p].senders \in BOOLEAN
  BY PeerIsNext
<1>9. /\ Once(p) => Once(p)'
      /\ c \in Reads(p) /\ reading[p]
      /\ Head(In(c, p)).type = "ready" /\ Head(In(c, p)).key = key[p]
      /\ UNCHANGED <<status[p], sock[p], online[p], dialing[p], target[p], reading[p], connected[p], ids[p], partner[p], engine[p], ui[p], asked[p], key[p], candidate[p], Reads(p)>>
      /\ c \in DOMAIN links /\ p \in {From(c), To(c)} /\ p \in Open(c) /\ Other(c, p) \in {From(c), To(c)} /\ Other(c, p) # p
      /\ In(c, p) # << >> /\ In(c, p)' = Tail(In(c, p)) /\ In(c, Other(c, p))' = In(c, Other(c, p))
  BY DEF ParseReadyDoes
<1>11. /\ ToDial(p) => /\ sock[p] = Nobody /\ status[p] = "waiting"
                      /\ ~Resets(p) /\ ~Closes(p) /\ ~Runs(p, "stop", "stop")
       /\ ToDial(p)' => /\ sock'[p] = Nobody /\ status'[p] = "waiting"
                       /\ ~Resets(p)' /\ ~Closes(p)' /\ ~Runs(p, "stop", "stop")'
  BY DEF Doomed, Busy
<1>5. Uses(p) /\ c = sock[p]
  BY PeerIs DEF PeerFacts, ParseReadyDoes, Local, ReadInv
<1>20. SockInv(p)'
  BY <1>1, <1>2, <1>3, <1>4, <1>7, <1>8, <1>9, <1>11, <1>5 DEF PeerFacts, JobRules, Says, Local, SockInv
<1>21. ReadInv(p)'
  BY <1>1, <1>2, <1>3, <1>4, <1>7, <1>8, <1>9, <1>11, <1>5 DEF PeerFacts, JobRules, Says, Local, ReadInv
<1>22. AskInv(p)'
  BY <1>1, <1>2, <1>3, <1>4, <1>7, <1>8, <1>9, <1>11, <1>5 DEF PeerFacts, JobRules, Says, Local, AskInv
<1>23. PlaceInv(p)'
  BY <1>1, <1>2, <1>3, <1>4, <1>7, <1>8, <1>9, <1>11, <1>5 DEF PeerFacts, JobRules, Says, Local, PlaceInv
<1>24. ConnInv(p)'
  BY <1>1, <1>2, <1>3, <1>4, <1>7, <1>8, <1>9, <1>11, <1>5 DEF PeerFacts, JobRules, Says, Local, ConnInv
<1>25. EngineInv(p)'
  BY <1>1, <1>2, <1>3, <1>4, <1>7, <1>8, <1>9, <1>11, <1>5 DEF PeerFacts, JobRules, Says, Local, EngineInv
<1>26. WindowInv(p)'
  BY <1>1, <1>2, <1>3, <1>4, <1>7, <1>8, <1>9, <1>11, <1>5 DEF PeerFacts, JobRules, Says, Local, WindowInv
<1>27. TlsInv(p)'
  <2>1. \A r \in Peers : r # p => Same(r) /\ key'[r] = key[r]
    BY DEF ParseReadyDoes, Untouched, SameKey
  <2>2. /\ \A d \in DOMAIN links : To(d) = p => Taken(d)' = Taken(d)
        /\ \A d \in DOMAIN links' : To(d)' = p => d \in DOMAIN links
    BY <1>3 DEF ParseReadyDoes
  <2>3. status[p] = "tls" /\ Uses(p) /\ Adopts(p, sock[p]) => Adopts(p, sock[p])'
    BY <1>2, <1>9
  <2>4. status[p] = "tls" /\ ~Uses(p) /\ sock[p] = Nobody /\ ~Begun(p) /\ ~Resets(p) /\ ui[p] = "idle" =>
           ~Begun(p)' /\ ~Resets(p)' /\ ui'[p] = "idle"
    BY <1>1, <1>2, <1>3, <1>4, <1>7, <1>8, <1>9, <1>11, <1>5 DEF PeerFacts, JobRules, Says, Local, PlaceInv
  <2> QED
    BY <1>3, <1>9, <1>22, <2>1, <2>2, <2>3, <2>4, TlsSelf DEF Local
<1> QED
  BY <1>20, <1>21, <1>22, <1>23, <1>24, <1>25, <1>26, <1>27 DEF Local

LEMMA SeesEndLocal ==
    ASSUME TypeOK, TypeOK', NEW p \in Peers, NEW c \in DOMAIN links, Local(p), TlsInv(p), OnLink(p),
           SeesEndDoes(p, c), mishaps' = {}, ~Doomed(p), ~Doomed(p)'
    PROVE  Local(p)' /\ TlsInv(p)'
<1> DEFINE StaysRun(a, b) == Runs(p, a, b)' <=> Runs(p, a, b)
           StaysDoing(a, b) == \A y : Doing(p, a, b, y)' <=> Doing(p, a, b, y)
<1>1. /\ StaysRun("accept", "statusOn")
      /\ StaysRun("initHigh", "statusOn")
      /\ StaysRun("initLow", "statusOn")
      /\ StaysRun("statusOn", "statusOn")
      /\ StaysRun("cancel", "reset")
      /\ StaysRun("reset", "reset")
      /\ StaysRun("reject", "statusOff")
      /\ StaysRun("reset", "statusOff")
      /\ StaysRun("statusOff", "statusOff")
      /\ StaysRun("reset", "close")
      /\ StaysRun("close", "close")
      /\ StaysRun("reset", "unconnected")
      /\ StaysRun("lost", "unconnected")
      /\ StaysRun("unconnected", "unconnected")
      /\ Runs(p, "reset", "again")'
      /\ StaysRun("lost", "again")
      /\ StaysRun("again", "again")
      /\ StaysRun("stop", "stop")
      /\ StaysRun("ready", "ready")
      /\ StaysRun("initFileSenders", "initFileSenders")
      /\ StaysDoing("dial", "request")
      /\ StaysDoing("exchange", "request")
      /\ StaysDoing("connect", "request")
      /\ StaysDoing("recvMsg", "request")
      /\ StaysDoing("request", "request")
      /\ StaysDoing("recvMsg", "established")
      /\ StaysDoing("established", "established")
      /\ StaysDoing("listen", "started")
      /\ StaysDoing("started", "started")
  BY DEF SeesEndDoes, Gets, Runs
<1>2. /\ Begun(p)' <=> Begun(p)
      /\ \A y : Asks(p, y)' <=> Asks(p, y)
      /\ ToDial(p)' <=> ToDial(p)
      /\ \A y : Adopts(p, y)' <=> Adopts(p, y)
      /\ Starting(p)' <=> Starting(p)
      /\ \A y : Starts(p, y)' <=> Starts(p, y)
      /\ Agrees(p)' <=> Agrees(p)
      /\ TakesBack(p)' <=> TakesBack(p)
      /\ Closes(p)' <=> Closes(p)
      /\ Ended(p)' <=> Ended(p)
  BY <1>1 DEF Adopts, Agrees, Asks, Begun, Closes, Ended, Starting, Starts, TakesBack, ToDial
<1>3. LinksKept /\ DOMAIN links' = DOMAIN links
  BY LinksStay DEF SeesEndDoes, TypeOK, LinksKept
<1>4. /\ Uses(p)' <=> Uses(p)
      /\ Calls(p)' <=> Calls(p)
      /\ Takes(p)' <=> Takes(p)
      /\ Uses(p) => /\ From(sock[p])' = From(sock[p]) /\ To(sock[p])' = To(sock[p])
                    /\ Other(sock[p], p)' = Other(sock[p], p)
  BY <1>3, SocketSame DEF SeesEndDoes
<1>7. PeerFacts(p) /\ JobRules(p) /\ JobRules(p)' /\ Says(p)
  BY PeerIs, JobsAre, EndSays
<1>8. /\ status'[p] \in {"waiting", "tls", "tcp"} /\ sock'[p] \in DOMAIN links' \cup {Fresh, Nobody}
      /\ Fresh # Nobody /\ Fresh \notin DOMAIN links' /\ Nobody \notin DOMAIN links'
      /\ DOMAIN links' \subseteq Nat
      /\ engine'[p].listening \in BOOLEAN /\ engine'[p].started \in BOOLEAN /\ engine'[p].senders \in BOOLEAN
  BY PeerIsNext
<1>9. /\ Once(p) => Once(p)'
      /\ c \in Reads(p) /\ reading[p] /\ p \in Open(c) /\ In(c, p) = << >> /\ Other(c, p) \notin Open(c)
      /\ UNCHANGED <<status[p], sock[p], online[p], dialing[p], target[p], reading[p], connected[p], ids[p], partner[p], engine[p], asked[p], key[p], candidate[p]>>
      /\ ui'[p] = IF ui[p] = "connected" THEN "idle" ELSE ui[p]
      /\ Reads(p)' \subseteq Reads(p)
      /\ Reads(p) \ {c} \subseteq Reads(p)'
  BY DEF SeesEndDoes
<1>11. /\ ToDial(p) => /\ sock[p] = Nobody /\ status[p] = "waiting"
                      /\ ~Resets(p) /\ ~Closes(p) /\ ~Runs(p, "stop", "stop")
       /\ ToDial(p)' => /\ sock'[p] = Nobody /\ status'[p] = "waiting"
                       /\ ~Resets(p)' /\ ~Closes(p)' /\ ~Runs(p, "stop", "stop")'
  BY DEF Doomed, Busy
<1>5. Uses(p) /\ c = sock[p]
  BY PeerIs DEF PeerFacts, SeesEndDoes, Local, ReadInv
<1>10. /\ ~Begun(p) /\ ui[p] # "asking" /\ ~asked[p]
  BY <1>5, EndSeen DEF SeesEndDoes
<1>20. SockInv(p)'
  BY <1>1, <1>2, <1>3, <1>4, <1>7, <1>8, <1>9, <1>11, <1>5, <1>10 DEF PeerFacts, JobRules, Says, Local, SockInv, Leaves, Resets, TakesBack
<1>21. ReadInv(p)'
  BY <1>1, <1>2, <1>3, <1>4, <1>7, <1>8, <1>9, <1>11, <1>5, <1>10 DEF PeerFacts, JobRules, Says, Local, ReadInv, Leaves, Resets, TakesBack
<1>22. AskInv(p)'
  BY <1>1, <1>2, <1>3, <1>4, <1>7, <1>8, <1>9, <1>11, <1>5, <1>10 DEF PeerFacts, JobRules, Says, Local, AskInv, Leaves, Resets, TakesBack
<1>23. PlaceInv(p)'
  BY <1>1, <1>2, <1>3, <1>4, <1>7, <1>8, <1>9, <1>11, <1>5, <1>10 DEF PeerFacts, JobRules, Says, Local, PlaceInv, Leaves, Resets, TakesBack
<1>24. ConnInv(p)'
  BY <1>1, <1>2, <1>3, <1>4, <1>7, <1>8, <1>9, <1>11, <1>5, <1>10 DEF PeerFacts, JobRules, Says, Local, ConnInv, Leaves, Resets, TakesBack
<1>25. EngineInv(p)'
  BY <1>1, <1>2, <1>3, <1>4, <1>7, <1>8, <1>9, <1>11, <1>5, <1>10 DEF PeerFacts, JobRules, Says, Local, EngineInv, Leaves, Resets, TakesBack
<1>26. WindowInv(p)'
  BY <1>1, <1>2, <1>3, <1>4, <1>7, <1>8, <1>9, <1>11, <1>5, <1>10 DEF PeerFacts, JobRules, Says, Local, WindowInv, Leaves, Resets, TakesBack
<1>27. TlsInv(p)'
  <2>1. \A r \in Peers : r # p => Same(r) /\ key'[r] = key[r]
    BY DEF SeesEndDoes, Untouched, SameKey
  <2>2. /\ \A d \in DOMAIN links : To(d) = p => Taken(d)' = Taken(d)
        /\ \A d \in DOMAIN links' : To(d)' = p => d \in DOMAIN links
    BY <1>3, LinksStay DEF SeesEndDoes, TypeOK
  <2>3. status[p] = "tls" /\ Uses(p) /\ Adopts(p, sock[p]) => Adopts(p, sock[p])'
    BY <1>2, <1>9
  <2>4. status[p] = "tls" /\ ~Uses(p) /\ sock[p] = Nobody /\ ~Begun(p) /\ ~Resets(p) /\ ui[p] = "idle" =>
           ~Begun(p)' /\ ~Resets(p)' /\ ui'[p] = "idle"
    BY <1>1, <1>2, <1>3, <1>4, <1>7, <1>8, <1>9, <1>11, <1>5, <1>10 DEF PeerFacts, JobRules, Says, Local, PlaceInv, Leaves, Resets, TakesBack
  <2> QED
    BY <1>3, <1>9, <1>22, <2>1, <2>2, <2>3, <2>4, TlsSelf DEF Local
<1> QED
  BY <1>20, <1>21, <1>22, <1>23, <1>24, <1>25, <1>26, <1>27 DEF Local

LEMMA ReaderStopsLocal ==
    ASSUME TypeOK, TypeOK', NEW p \in Peers, NEW c, Local(p), TlsInv(p), OnLink(p),
           ReaderStopsDoes(p, c), mishaps' = {}, ~Doomed(p), ~Doomed(p)'
    PROVE  Local(p)' /\ TlsInv(p)'
<1> DEFINE StaysRun(a, b) == Runs(p, a, b)' <=> Runs(p, a, b)
           StaysDoing(a, b) == \A y : Doing(p, a, b, y)' <=> Doing(p, a, b, y)
<1>1. Same(p)
  BY DEF ReaderStopsDoes
<1>2. /\ StaysRun("accept", "statusOn")
      /\ StaysRun("initHigh", "statusOn")
      /\ StaysRun("initLow", "statusOn")
      /\ StaysRun("statusOn", "statusOn")
      /\ StaysRun("cancel", "reset")
      /\ StaysRun("reset", "reset")
      /\ StaysRun("reject", "statusOff")
      /\ StaysRun("reset", "statusOff")
      /\ StaysRun("statusOff", "statusOff")
      /\ StaysRun("reset", "close")
      /\ StaysRun("close", "close")
      /\ StaysRun("reset", "unconnected")
      /\ StaysRun("lost", "unconnected")
      /\ StaysRun("unconnected", "unconnected")
      /\ StaysRun("reset", "again")
      /\ StaysRun("lost", "again")
      /\ StaysRun("again", "again")
      /\ StaysRun("stop", "stop")
      /\ StaysRun("ready", "ready")
      /\ StaysRun("initFileSenders", "initFileSenders")
      /\ StaysDoing("dial", "request")
      /\ StaysDoing("exchange", "request")
      /\ StaysDoing("connect", "request")
      /\ StaysDoing("recvMsg", "request")
      /\ StaysDoing("request", "request")
      /\ StaysDoing("recvMsg", "established")
      /\ StaysDoing("established", "established")
      /\ StaysDoing("listen", "started")
      /\ StaysDoing("started", "started")
      /\ Begun(p)' <=> Begun(p)
      /\ \A y : Asks(p, y)' <=> Asks(p, y)
      /\ ToDial(p)' <=> ToDial(p)
      /\ \A y : Adopts(p, y)' <=> Adopts(p, y)
      /\ Starting(p)' <=> Starting(p)
      /\ \A y : Starts(p, y)' <=> Starts(p, y)
      /\ Agrees(p)' <=> Agrees(p)
      /\ TakesBack(p)' <=> TakesBack(p)
      /\ Leaves(p)' <=> Leaves(p)
      /\ Closes(p)' <=> Closes(p)
      /\ Resets(p)' <=> Resets(p)
      /\ Ended(p)' <=> Ended(p)
  BY <1>1, JobsSame DEF Same
<1>3. LinksKept /\ DOMAIN links' = DOMAIN links
  BY LinksStay DEF ReaderStopsDoes, TypeOK, LinksKept
<1>4. /\ Uses(p)' <=> Uses(p)
      /\ Calls(p)' <=> Calls(p)
      /\ Takes(p)' <=> Takes(p)
      /\ Uses(p) => /\ From(sock[p])' = From(sock[p]) /\ To(sock[p])' = To(sock[p])
                    /\ Other(sock[p], p)' = Other(sock[p], p)
  BY <1>3, SocketSame DEF ReaderStopsDoes
<1>7. PeerFacts(p) /\ JobRules(p) /\ JobRules(p)' /\ Says(p)
  BY PeerIs, JobsAre, EndSays
<1>8. /\ status'[p] \in {"waiting", "tls", "tcp"} /\ sock'[p] \in DOMAIN links' \cup {Fresh, Nobody}
      /\ Fresh # Nobody /\ Fresh \notin DOMAIN links' /\ Nobody \notin DOMAIN links'
      /\ DOMAIN links' \subseteq Nat
      /\ engine'[p].listening \in BOOLEAN /\ engine'[p].started \in BOOLEAN /\ engine'[p].senders \in BOOLEAN
  BY PeerIsNext
<1>9. /\ (\A r \in Peers : Same(r) /\ (Once(r) => Once(r)'))
      /\ ~reading[p]
      /\ UNCHANGED <<status[p], sock[p], online[p], dialing[p], target[p], reading[p], connected[p], ids[p], partner[p], engine[p], ui[p], asked[p], key[p], candidate[p]>>
      /\ Reads(p)' \subseteq Reads(p)
      /\ Reads(p) \ {c} \subseteq Reads(p)'
  BY DEF ReaderStopsDoes
<1>11. /\ ToDial(p) => /\ sock[p] = Nobody /\ status[p] = "waiting"
                      /\ ~Resets(p) /\ ~Closes(p) /\ ~Runs(p, "stop", "stop")
       /\ ToDial(p)' => /\ sock'[p] = Nobody /\ status'[p] = "waiting"
                       /\ ~Resets(p)' /\ ~Closes(p)' /\ ~Runs(p, "stop", "stop")'
  BY DEF Doomed, Busy
<1>20. SockInv(p)'
  BY <1>1, <1>2, <1>3, <1>4, <1>7, <1>8, <1>9, <1>11 DEF PeerFacts, JobRules, Says, Local, SockInv
<1>21. ReadInv(p)'
  BY <1>1, <1>2, <1>3, <1>4, <1>7, <1>8, <1>9, <1>11 DEF PeerFacts, JobRules, Says, Local, ReadInv
<1>22. AskInv(p)'
  BY <1>1, <1>2, <1>3, <1>4, <1>7, <1>8, <1>9, <1>11 DEF PeerFacts, JobRules, Says, Local, AskInv
<1>23. PlaceInv(p)'
  BY <1>1, <1>2, <1>3, <1>4, <1>7, <1>8, <1>9, <1>11 DEF PeerFacts, JobRules, Says, Local, PlaceInv
<1>24. ConnInv(p)'
  BY <1>1, <1>2, <1>3, <1>4, <1>7, <1>8, <1>9, <1>11 DEF PeerFacts, JobRules, Says, Local, ConnInv
<1>25. EngineInv(p)'
  BY <1>1, <1>2, <1>3, <1>4, <1>7, <1>8, <1>9, <1>11 DEF PeerFacts, JobRules, Says, Local, EngineInv
<1>26. WindowInv(p)'
  BY <1>1, <1>2, <1>3, <1>4, <1>7, <1>8, <1>9, <1>11 DEF PeerFacts, JobRules, Says, Local, WindowInv
<1>27. TlsInv(p)'
  <2>1. \A r \in Peers : r # p => Same(r) /\ key'[r] = key[r]
    BY DEF ReaderStopsDoes, Untouched, SameKey
  <2>2. /\ \A d \in DOMAIN links : To(d) = p => Taken(d)' = Taken(d)
        /\ \A d \in DOMAIN links' : To(d)' = p => d \in DOMAIN links
    BY <1>3, LinksStay DEF ReaderStopsDoes, TypeOK
  <2>3. status[p] = "tls" /\ Uses(p) /\ Adopts(p, sock[p]) => Adopts(p, sock[p])'
    BY <1>2, <1>9
  <2>4. status[p] = "tls" /\ ~Uses(p) /\ sock[p] = Nobody /\ ~Begun(p) /\ ~Resets(p) /\ ui[p] = "idle" =>
           ~Begun(p)' /\ ~Resets(p)' /\ ui'[p] = "idle"
    BY <1>1, <1>2, <1>3, <1>4, <1>7, <1>8, <1>9, <1>11 DEF PeerFacts, JobRules, Says, Local, PlaceInv
  <2> QED
    BY <1>3, <1>9, <1>22, <2>1, <2>2, <2>3, <2>4, TlsSelf DEF Local
<1> QED
  BY <1>20, <1>21, <1>22, <1>23, <1>24, <1>25, <1>26, <1>27 DEF Local

LEMMA AgainLocal ==
    ASSUME TypeOK, TypeOK', NEW p \in Peers, Local(p), TlsInv(p), OnLink(p),
           AgainDoes(p), mishaps' = {}, ~Doomed(p), ~Doomed(p)',
           ~reading[p]
    PROVE  Local(p)' /\ TlsInv(p)'
<1> DEFINE StaysRun(a, b) == Runs(p, a, b)' <=> Runs(p, a, b)
           StaysDoing(a, b) == \A y : Doing(p, a, b, y)' <=> Doing(p, a, b, y)
<1>1. /\ StaysRun("accept", "statusOn")
      /\ StaysRun("initHigh", "statusOn")
      /\ StaysRun("initLow", "statusOn")
      /\ StaysRun("statusOn", "statusOn")
      /\ StaysRun("cancel", "reset")
      /\ StaysRun("reset", "reset")
      /\ StaysRun("reject", "statusOff")
      /\ StaysRun("reset", "statusOff")
      /\ StaysRun("statusOff", "statusOff")
      /\ StaysRun("reset", "close")
      /\ StaysRun("close", "close")
      /\ StaysRun("reset", "unconnected")
      /\ StaysRun("lost", "unconnected")
      /\ StaysRun("unconnected", "unconnected")
      /\ StaysRun("reset", "again")
      /\ StaysRun("lost", "again")
      /\ Runs(p, "again", "again")
      /\ StaysRun("stop", "stop")
      /\ StaysRun("ready", "ready")
      /\ StaysRun("initFileSenders", "initFileSenders")
      /\ StaysDoing("dial", "request")
      /\ StaysDoing("exchange", "request")
      /\ StaysDoing("connect", "request")
      /\ StaysDoing("recvMsg", "request")
      /\ StaysDoing("request", "request")
      /\ StaysDoing("recvMsg", "established")
      /\ StaysDoing("established", "established")
      /\ StaysDoing("listen", "started")
      /\ StaysDoing("started", "started")
  BY DEF AgainDoes, Finishes, Runs
<1>2. /\ Begun(p)' <=> Begun(p)
      /\ \A y : Asks(p, y)' <=> Asks(p, y)
      /\ ToDial(p)' <=> ToDial(p)
      /\ \A y : Adopts(p, y)' <=> Adopts(p, y)
      /\ Starting(p)' <=> Starting(p)
      /\ \A y : Starts(p, y)' <=> Starts(p, y)
      /\ Agrees(p)' <=> Agrees(p)
      /\ TakesBack(p)' <=> TakesBack(p)
      /\ Leaves(p)' <=> Leaves(p)
      /\ Closes(p)' <=> Closes(p)
      /\ Resets(p)' <=> Resets(p)
  BY <1>1 DEF Adopts, Agrees, Asks, Begun, Closes, Leaves, Resets, Starting, Starts, TakesBack, ToDial
<1>3. LinksKept /\ DOMAIN links' = DOMAIN links
  BY LinksStay DEF AgainDoes, TypeOK, LinksKept
<1>4. /\ Uses(p)' <=> Uses(p)
      /\ Calls(p)' <=> Calls(p)
      /\ Takes(p)' <=> Takes(p)
      /\ Uses(p) => /\ From(sock[p])' = From(sock[p]) /\ To(sock[p])' = To(sock[p])
                    /\ Other(sock[p], p)' = Other(sock[p], p)
  BY <1>3, SocketSame DEF AgainDoes
<1>7. PeerFacts(p) /\ JobRules(p) /\ JobRules(p)' /\ Says(p)
  BY PeerIs, JobsAre, EndSays
<1>8. /\ status'[p] \in {"waiting", "tls", "tcp"} /\ sock'[p] \in DOMAIN links' \cup {Fresh, Nobody}
      /\ Fresh # Nobody /\ Fresh \notin DOMAIN links' /\ Nobody \notin DOMAIN links'
      /\ DOMAIN links' \subseteq Nat
      /\ engine'[p].listening \in BOOLEAN /\ engine'[p].started \in BOOLEAN /\ engine'[p].senders \in BOOLEAN
  BY PeerIsNext
<1>9. /\ Once(p) => Once(p)'
      /\ UNCHANGED <<status[p], sock[p], online[p], dialing[p], target[p], reading[p], connected[p], ids[p], partner[p], engine[p], ui[p], asked[p], key[p], candidate[p], Reads(p)>>
  BY DEF AgainDoes
<1>11. /\ ToDial(p) => /\ sock[p] = Nobody /\ status[p] = "waiting"
                      /\ ~Resets(p) /\ ~Closes(p) /\ ~Runs(p, "stop", "stop")
       /\ ToDial(p)' => /\ sock'[p] = Nobody /\ status'[p] = "waiting"
                       /\ ~Resets(p)' /\ ~Closes(p)' /\ ~Runs(p, "stop", "stop")'
  BY DEF Doomed, Busy
<1>20. SockInv(p)'
  BY <1>1, <1>2, <1>3, <1>4, <1>7, <1>8, <1>9, <1>11 DEF PeerFacts, JobRules, Says, Local, SockInv, Closes, Ended
<1>21. ReadInv(p)'
  BY <1>1, <1>2, <1>3, <1>4, <1>7, <1>8, <1>9, <1>11 DEF PeerFacts, JobRules, Says, Local, ReadInv, Closes, Ended
<1>22. AskInv(p)'
  BY <1>1, <1>2, <1>3, <1>4, <1>7, <1>8, <1>9, <1>11 DEF PeerFacts, JobRules, Says, Local, AskInv, Closes, Ended
<1>23. PlaceInv(p)'
  BY <1>1, <1>2, <1>3, <1>4, <1>7, <1>8, <1>9, <1>11 DEF PeerFacts, JobRules, Says, Local, PlaceInv, Closes, Ended
<1>24. ConnInv(p)'
  BY <1>1, <1>2, <1>3, <1>4, <1>7, <1>8, <1>9, <1>11 DEF PeerFacts, JobRules, Says, Local, ConnInv, Closes, Ended
<1>25. EngineInv(p)'
  BY <1>1, <1>2, <1>3, <1>4, <1>7, <1>8, <1>9, <1>11 DEF PeerFacts, JobRules, Says, Local, EngineInv, Closes, Ended
<1>26. WindowInv(p)'
  BY <1>1, <1>2, <1>3, <1>4, <1>7, <1>8, <1>9, <1>11 DEF PeerFacts, JobRules, Says, Local, WindowInv, Closes, Ended
<1>27. TlsInv(p)'
  <2>1. \A r \in Peers : r # p => Same(r) /\ key'[r] = key[r]
    BY DEF AgainDoes, Untouched, SameKey
  <2>2. /\ \A d \in DOMAIN links : To(d) = p => Taken(d)' = Taken(d)
        /\ \A d \in DOMAIN links' : To(d)' = p => d \in DOMAIN links
    BY <1>3, LinksStay DEF AgainDoes, TypeOK
  <2>3. status[p] = "tls" /\ Uses(p) /\ Adopts(p, sock[p]) => Adopts(p, sock[p])'
    BY <1>2, <1>9
  <2>4. status[p] = "tls" /\ ~Uses(p) /\ sock[p] = Nobody /\ ~Begun(p) /\ ~Resets(p) /\ ui[p] = "idle" =>
           ~Begun(p)' /\ ~Resets(p)' /\ ui'[p] = "idle"
    BY <1>1, <1>2, <1>3, <1>4, <1>7, <1>8, <1>9, <1>11 DEF PeerFacts, JobRules, Says, Local, PlaceInv, Closes, Ended
  <2> QED
    BY <1>3, <1>9, <1>22, <2>1, <2>2, <2>3, <2>4, TlsSelf DEF Local
<1> QED
  BY <1>20, <1>21, <1>22, <1>23, <1>24, <1>25, <1>26, <1>27 DEF Local

LEMMA StatusOnLocal ==
    ASSUME TypeOK, TypeOK', NEW p \in Peers, Local(p), TlsInv(p), OnLink(p),
           StatusOnDoes(p), mishaps' = {}, ~Doomed(p), ~Doomed(p)'
    PROVE  Local(p)' /\ TlsInv(p)'
<1> DEFINE StaysRun(a, b) == Runs(p, a, b)' <=> Runs(p, a, b)
           StaysDoing(a, b) == \A y : Doing(p, a, b, y)' <=> Doing(p, a, b, y)
<1>1. /\ StaysRun("accept", "statusOn")
      /\ StaysRun("initHigh", "statusOn")
      /\ StaysRun("initLow", "statusOn")
      /\ Runs(p, "statusOn", "statusOn")
      /\ StaysRun("cancel", "reset")
      /\ StaysRun("reset", "reset")
      /\ StaysRun("reject", "statusOff")
      /\ StaysRun("reset", "statusOff")
      /\ StaysRun("statusOff", "statusOff")
      /\ StaysRun("reset", "close")
      /\ StaysRun("close", "close")
      /\ StaysRun("reset", "unconnected")
      /\ StaysRun("lost", "unconnected")
      /\ StaysRun("unconnected", "unconnected")
      /\ StaysRun("reset", "again")
      /\ StaysRun("lost", "again")
      /\ StaysRun("again", "again")
      /\ StaysRun("stop", "stop")
      /\ StaysRun("ready", "ready")
      /\ StaysRun("initFileSenders", "initFileSenders")
      /\ StaysDoing("dial", "request")
      /\ StaysDoing("exchange", "request")
      /\ StaysDoing("connect", "request")
      /\ StaysDoing("recvMsg", "request")
      /\ StaysDoing("request", "request")
      /\ StaysDoing("recvMsg", "established")
      /\ StaysDoing("established", "established")
      /\ StaysDoing("listen", "started")
      /\ StaysDoing("started", "started")
  BY DEF StatusOnDoes, Finishes, Runs
<1>2. /\ Begun(p)' <=> Begun(p)
      /\ \A y : Asks(p, y)' <=> Asks(p, y)
      /\ ToDial(p)' <=> ToDial(p)
      /\ \A y : Adopts(p, y)' <=> Adopts(p, y)
      /\ Starting(p)' <=> Starting(p)
      /\ \A y : Starts(p, y)' <=> Starts(p, y)
      /\ TakesBack(p)' <=> TakesBack(p)
      /\ Leaves(p)' <=> Leaves(p)
      /\ Closes(p)' <=> Closes(p)
      /\ Resets(p)' <=> Resets(p)
      /\ Ended(p)' <=> Ended(p)
  BY <1>1 DEF Adopts, Asks, Begun, Closes, Ended, Leaves, Resets, Starting, Starts, TakesBack, ToDial
<1>3. LinksKept /\ DOMAIN links' = DOMAIN links
  BY LinksStay DEF StatusOnDoes, TypeOK, LinksKept
<1>4. /\ Uses(p)' <=> Uses(p)
      /\ Calls(p)' <=> Calls(p)
      /\ Takes(p)' <=> Takes(p)
      /\ Uses(p) => /\ From(sock[p])' = From(sock[p]) /\ To(sock[p])' = To(sock[p])
                    /\ Other(sock[p], p)' = Other(sock[p], p)
  BY <1>3, SocketSame DEF StatusOnDoes
<1>7. PeerFacts(p) /\ JobRules(p) /\ JobRules(p)' /\ Says(p)
  BY PeerIs, JobsAre, EndSays
<1>8. /\ status'[p] \in {"waiting", "tls", "tcp"} /\ sock'[p] \in DOMAIN links' \cup {Fresh, Nobody}
      /\ Fresh # Nobody /\ Fresh \notin DOMAIN links' /\ Nobody \notin DOMAIN links'
      /\ DOMAIN links' \subseteq Nat
      /\ engine'[p].listening \in BOOLEAN /\ engine'[p].started \in BOOLEAN /\ engine'[p].senders \in BOOLEAN
  BY PeerIsNext
<1>9. /\ Once(p) => Once(p)'
      /\ UNCHANGED <<status[p], sock[p], online[p], dialing[p], target[p], reading[p], ids[p], partner[p], engine[p], ui[p], asked[p], key[p], candidate[p], Reads(p)>>
      /\ connected'[p] = TRUE
  BY DEF StatusOnDoes
<1>11. /\ ToDial(p) => /\ sock[p] = Nobody /\ status[p] = "waiting"
                      /\ ~Resets(p) /\ ~Closes(p) /\ ~Runs(p, "stop", "stop")
       /\ ToDial(p)' => /\ sock'[p] = Nobody /\ status'[p] = "waiting"
                       /\ ~Resets(p)' /\ ~Closes(p)' /\ ~Runs(p, "stop", "stop")'
  BY DEF Doomed, Busy
<1>20. SockInv(p)'
  BY <1>1, <1>2, <1>3, <1>4, <1>7, <1>8, <1>9, <1>11 DEF PeerFacts, JobRules, Says, Local, SockInv, Agrees
<1>21. ReadInv(p)'
  BY <1>1, <1>2, <1>3, <1>4, <1>7, <1>8, <1>9, <1>11 DEF PeerFacts, JobRules, Says, Local, ReadInv, Agrees
<1>22. AskInv(p)'
  BY <1>1, <1>2, <1>3, <1>4, <1>7, <1>8, <1>9, <1>11 DEF PeerFacts, JobRules, Says, Local, AskInv, Agrees
<1>23. PlaceInv(p)'
  BY <1>1, <1>2, <1>3, <1>4, <1>7, <1>8, <1>9, <1>11 DEF PeerFacts, JobRules, Says, Local, PlaceInv, Agrees
<1>24. ConnInv(p)'
  BY <1>1, <1>2, <1>3, <1>4, <1>7, <1>8, <1>9, <1>11 DEF PeerFacts, JobRules, Says, Local, SockInv, ReadInv, AskInv, PlaceInv, ConnInv, EngineInv, WindowInv, Agrees
<1>25. EngineInv(p)'
  BY <1>1, <1>2, <1>3, <1>4, <1>7, <1>8, <1>9, <1>11 DEF PeerFacts, JobRules, Says, Local, EngineInv, Agrees
<1>26. WindowInv(p)'
  BY <1>1, <1>2, <1>3, <1>4, <1>7, <1>8, <1>9, <1>11 DEF PeerFacts, JobRules, Says, Local, WindowInv, Agrees
<1>27. TlsInv(p)'
  <2>1. \A r \in Peers : r # p => Same(r) /\ key'[r] = key[r]
    BY DEF StatusOnDoes, Untouched, SameKey
  <2>2. /\ \A d \in DOMAIN links : To(d) = p => Taken(d)' = Taken(d)
        /\ \A d \in DOMAIN links' : To(d)' = p => d \in DOMAIN links
    BY <1>3, LinksStay DEF StatusOnDoes, TypeOK
  <2>3. status[p] = "tls" /\ Uses(p) /\ Adopts(p, sock[p]) => Adopts(p, sock[p])'
    BY <1>2, <1>9
  <2>4. status[p] = "tls" /\ ~Uses(p) /\ sock[p] = Nobody /\ ~Begun(p) /\ ~Resets(p) /\ ui[p] = "idle" =>
           ~Begun(p)' /\ ~Resets(p)' /\ ui'[p] = "idle"
    BY <1>1, <1>2, <1>3, <1>4, <1>7, <1>8, <1>9, <1>11 DEF PeerFacts, JobRules, Says, Local, PlaceInv, Agrees
  <2> QED
    BY <1>3, <1>9, <1>22, <2>1, <2>2, <2>3, <2>4, TlsSelf DEF Local
<1> QED
  BY <1>20, <1>21, <1>22, <1>23, <1>24, <1>25, <1>26, <1>27 DEF Local

LEMMA StatusOffLocal ==
    ASSUME TypeOK, TypeOK', NEW p \in Peers, Local(p), TlsInv(p), OnLink(p),
           StatusOffDoes(p), mishaps' = {}, ~Doomed(p), ~Doomed(p)'
    PROVE  Local(p)' /\ TlsInv(p)'
<1> DEFINE StaysRun(a, b) == Runs(p, a, b)' <=> Runs(p, a, b)
           StaysDoing(a, b) == \A y : Doing(p, a, b, y)' <=> Doing(p, a, b, y)
<1>1. /\ StaysRun("accept", "statusOn")
      /\ StaysRun("initHigh", "statusOn")
      /\ StaysRun("initLow", "statusOn")
      /\ StaysRun("statusOn", "statusOn")
      /\ StaysRun("cancel", "reset")
      /\ StaysRun("reset", "reset")
      /\ StaysRun("reject", "statusOff")
      /\ StaysRun("reset", "statusOff")
      /\ Runs(p, "statusOff", "statusOff")
      /\ StaysRun("reset", "close")
      /\ StaysRun("close", "close")
      /\ StaysRun("reset", "unconnected")
      /\ StaysRun("lost", "unconnected")
      /\ StaysRun("unconnected", "unconnected")
      /\ StaysRun("reset", "again")
      /\ StaysRun("lost", "again")
      /\ StaysRun("again", "again")
      /\ StaysRun("stop", "stop")
      /\ StaysRun("ready", "ready")
      /\ StaysRun("initFileSenders", "initFileSenders")
      /\ StaysDoing("dial", "request")
      /\ StaysDoing("exchange", "request")
      /\ StaysDoing("connect", "request")
      /\ StaysDoing("recvMsg", "request")
      /\ StaysDoing("request", "request")
      /\ StaysDoing("recvMsg", "established")
      /\ StaysDoing("established", "established")
      /\ StaysDoing("listen", "started")
      /\ StaysDoing("started", "started")
  BY DEF StatusOffDoes, Finishes, Runs
<1>2. /\ Begun(p)' <=> Begun(p)
      /\ \A y : Asks(p, y)' <=> Asks(p, y)
      /\ ToDial(p)' <=> ToDial(p)
      /\ \A y : Adopts(p, y)' <=> Adopts(p, y)
      /\ Starting(p)' <=> Starting(p)
      /\ \A y : Starts(p, y)' <=> Starts(p, y)
      /\ Agrees(p)' <=> Agrees(p)
      /\ TakesBack(p)' <=> TakesBack(p)
      /\ Leaves(p)' <=> Leaves(p)
      /\ Closes(p)' <=> Closes(p)
      /\ Resets(p)' <=> Resets(p)
  BY <1>1 DEF Adopts, Agrees, Asks, Begun, Closes, Leaves, Resets, Starting, Starts, TakesBack, ToDial
<1>3. LinksKept /\ DOMAIN links' = DOMAIN links
  BY LinksStay DEF StatusOffDoes, TypeOK, LinksKept
<1>4. /\ Uses(p)' <=> Uses(p)
      /\ Calls(p)' <=> Calls(p)
      /\ Takes(p)' <=> Takes(p)
      /\ Uses(p) => /\ From(sock[p])' = From(sock[p]) /\ To(sock[p])' = To(sock[p])
                    /\ Other(sock[p], p)' = Other(sock[p], p)
  BY <1>3, SocketSame DEF StatusOffDoes
<1>7. PeerFacts(p) /\ JobRules(p) /\ JobRules(p)' /\ Says(p)
  BY PeerIs, JobsAre, EndSays
<1>8. /\ status'[p] \in {"waiting", "tls", "tcp"} /\ sock'[p] \in DOMAIN links' \cup {Fresh, Nobody}
      /\ Fresh # Nobody /\ Fresh \notin DOMAIN links' /\ Nobody \notin DOMAIN links'
      /\ DOMAIN links' \subseteq Nat
      /\ engine'[p].listening \in BOOLEAN /\ engine'[p].started \in BOOLEAN /\ engine'[p].senders \in BOOLEAN
  BY PeerIsNext
<1>9. /\ Once(p) => Once(p)'
      /\ UNCHANGED <<status[p], sock[p], online[p], dialing[p], target[p], reading[p], ids[p], partner[p], engine[p], ui[p], asked[p], key[p], candidate[p], Reads(p)>>
      /\ connected'[p] = FALSE
  BY DEF StatusOffDoes
<1>11. /\ ToDial(p) => /\ sock[p] = Nobody /\ status[p] = "waiting"
                      /\ ~Resets(p) /\ ~Closes(p) /\ ~Runs(p, "stop", "stop")
       /\ ToDial(p)' => /\ sock'[p] = Nobody /\ status'[p] = "waiting"
                       /\ ~Resets(p)' /\ ~Closes(p)' /\ ~Runs(p, "stop", "stop")'
  BY DEF Doomed, Busy
<1>20. SockInv(p)'
  BY <1>1, <1>2, <1>3, <1>4, <1>7, <1>8, <1>9, <1>11 DEF PeerFacts, JobRules, Says, Local, SockInv, Closes, Ended
<1>21. ReadInv(p)'
  BY <1>1, <1>2, <1>3, <1>4, <1>7, <1>8, <1>9, <1>11 DEF PeerFacts, JobRules, Says, Local, ReadInv, Closes, Ended
<1>22. AskInv(p)'
  BY <1>1, <1>2, <1>3, <1>4, <1>7, <1>8, <1>9, <1>11 DEF PeerFacts, JobRules, Says, Local, AskInv, Closes, Ended
<1>23. PlaceInv(p)'
  BY <1>1, <1>2, <1>3, <1>4, <1>7, <1>8, <1>9, <1>11 DEF PeerFacts, JobRules, Says, Local, PlaceInv, Closes, Ended
<1>24. ConnInv(p)'
  BY <1>1, <1>2, <1>3, <1>4, <1>7, <1>8, <1>9, <1>11 DEF PeerFacts, JobRules, Says, Local, ConnInv, Closes, Ended
<1>25. EngineInv(p)'
  BY <1>1, <1>2, <1>3, <1>4, <1>7, <1>8, <1>9, <1>11 DEF PeerFacts, JobRules, Says, Local, SockInv, ReadInv, AskInv, PlaceInv, ConnInv, EngineInv, WindowInv, Closes, Ended
<1>26. WindowInv(p)'
  BY <1>1, <1>2, <1>3, <1>4, <1>7, <1>8, <1>9, <1>11 DEF PeerFacts, JobRules, Says, Local, SockInv, ReadInv, AskInv, PlaceInv, ConnInv, EngineInv, WindowInv, Closes, Ended
<1>27. TlsInv(p)'
  <2>1. \A r \in Peers : r # p => Same(r) /\ key'[r] = key[r]
    BY DEF StatusOffDoes, Untouched, SameKey
  <2>2. /\ \A d \in DOMAIN links : To(d) = p => Taken(d)' = Taken(d)
        /\ \A d \in DOMAIN links' : To(d)' = p => d \in DOMAIN links
    BY <1>3, LinksStay DEF StatusOffDoes, TypeOK
  <2>3. status[p] = "tls" /\ Uses(p) /\ Adopts(p, sock[p]) => Adopts(p, sock[p])'
    BY <1>2, <1>9
  <2>4. status[p] = "tls" /\ ~Uses(p) /\ sock[p] = Nobody /\ ~Begun(p) /\ ~Resets(p) /\ ui[p] = "idle" =>
           ~Begun(p)' /\ ~Resets(p)' /\ ui'[p] = "idle"
    BY <1>1, <1>2, <1>3, <1>4, <1>7, <1>8, <1>9, <1>11 DEF PeerFacts, JobRules, Says, Local, PlaceInv, Closes, Ended
  <2> QED
    BY <1>3, <1>9, <1>22, <2>1, <2>2, <2>3, <2>4, TlsSelf DEF Local
<1> QED
  BY <1>20, <1>21, <1>22, <1>23, <1>24, <1>25, <1>26, <1>27 DEF Local

LEMMA StatusClosedLocal ==
    ASSUME TypeOK, TypeOK', NEW p \in Peers, Local(p), TlsInv(p), OnLink(p),
           StatusClosedDoes(p), mishaps' = {}, ~Doomed(p), ~Doomed(p)'
    PROVE  Local(p)' /\ TlsInv(p)'
<1> DEFINE StaysRun(a, b) == Runs(p, a, b)' <=> Runs(p, a, b)
           StaysDoing(a, b) == \A y : Doing(p, a, b, y)' <=> Doing(p, a, b, y)
<1>1. /\ StaysRun("accept", "statusOn")
      /\ StaysRun("initHigh", "statusOn")
      /\ StaysRun("initLow", "statusOn")
      /\ StaysRun("statusOn", "statusOn")
      /\ StaysRun("cancel", "reset")
      /\ StaysRun("reset", "reset")
      /\ StaysRun("reject", "statusOff")
      /\ StaysRun("reset", "statusOff")
      /\ StaysRun("statusOff", "statusOff")
      /\ StaysRun("reset", "close")
      /\ Runs(p, "close", "close")
      /\ StaysRun("reset", "unconnected")
      /\ StaysRun("lost", "unconnected")
      /\ StaysRun("unconnected", "unconnected")
      /\ StaysRun("reset", "again")
      /\ StaysRun("lost", "again")
      /\ StaysRun("again", "again")
      /\ Runs(p, "stop", "stop")'
      /\ StaysRun("ready", "ready")
      /\ StaysRun("initFileSenders", "initFileSenders")
      /\ StaysDoing("dial", "request")
      /\ StaysDoing("exchange", "request")
      /\ StaysDoing("connect", "request")
      /\ StaysDoing("recvMsg", "request")
      /\ StaysDoing("request", "request")
      /\ StaysDoing("recvMsg", "established")
      /\ StaysDoing("established", "established")
      /\ StaysDoing("listen", "started")
      /\ StaysDoing("started", "started")
  BY DEF StatusClosedDoes, Spawns, Runs
<1>2. /\ Begun(p)' <=> Begun(p)
      /\ \A y : Asks(p, y)' <=> Asks(p, y)
      /\ ToDial(p)' <=> ToDial(p)
      /\ \A y : Adopts(p, y)' <=> Adopts(p, y)
      /\ Starting(p)' <=> Starting(p)
      /\ \A y : Starts(p, y)' <=> Starts(p, y)
      /\ Agrees(p)' <=> Agrees(p)
      /\ TakesBack(p)' <=> TakesBack(p)
      /\ Leaves(p)' <=> Leaves(p)
      /\ Resets(p)' <=> Resets(p)
  BY <1>1 DEF Adopts, Agrees, Asks, Begun, Leaves, Resets, Starting, Starts, TakesBack, ToDial
<1>3. LinksKept /\ DOMAIN links' = DOMAIN links
  BY LinksStay DEF StatusClosedDoes, TypeOK, LinksKept
<1>4. /\ Uses(p)' <=> Uses(p)
      /\ Calls(p)' <=> Calls(p)
      /\ Takes(p)' <=> Takes(p)
      /\ Uses(p) => /\ From(sock[p])' = From(sock[p]) /\ To(sock[p])' = To(sock[p])
                    /\ Other(sock[p], p)' = Other(sock[p], p)
  BY <1>3, SocketSame DEF StatusClosedDoes
<1>7. PeerFacts(p) /\ JobRules(p) /\ JobRules(p)' /\ Says(p)
  BY PeerIs, JobsAre, EndSays
<1>8. /\ status'[p] \in {"waiting", "tls", "tcp"} /\ sock'[p] \in DOMAIN links' \cup {Fresh, Nobody}
      /\ Fresh # Nobody /\ Fresh \notin DOMAIN links' /\ Nobody \notin DOMAIN links'
      /\ DOMAIN links' \subseteq Nat
      /\ engine'[p].listening \in BOOLEAN /\ engine'[p].started \in BOOLEAN /\ engine'[p].senders \in BOOLEAN
  BY PeerIsNext
<1>9. /\ Once(p) => Once(p)'
      /\ UNCHANGED <<status[p], sock[p], online[p], dialing[p], target[p], reading[p], ids[p], partner[p], engine[p], ui[p], asked[p], key[p], candidate[p], Reads(p)>>
      /\ connected'[p] = FALSE
  BY DEF StatusClosedDoes
<1>11. /\ ToDial(p) => /\ sock[p] = Nobody /\ status[p] = "waiting"
                      /\ ~Resets(p) /\ ~Closes(p) /\ ~Runs(p, "stop", "stop")
       /\ ToDial(p)' => /\ sock'[p] = Nobody /\ status'[p] = "waiting"
                       /\ ~Resets(p)' /\ ~Closes(p)' /\ ~Runs(p, "stop", "stop")'
  BY DEF Doomed, Busy
<1>20. SockInv(p)'
  BY <1>1, <1>2, <1>3, <1>4, <1>7, <1>8, <1>9, <1>11 DEF PeerFacts, JobRules, Says, Local, SockInv, Closes, Ended
<1>21. ReadInv(p)'
  BY <1>1, <1>2, <1>3, <1>4, <1>7, <1>8, <1>9, <1>11 DEF PeerFacts, JobRules, Says, Local, ReadInv, Closes, Ended
<1>22. AskInv(p)'
  BY <1>1, <1>2, <1>3, <1>4, <1>7, <1>8, <1>9, <1>11 DEF PeerFacts, JobRules, Says, Local, AskInv, Closes, Ended
<1>23. PlaceInv(p)'
  BY <1>1, <1>2, <1>3, <1>4, <1>7, <1>8, <1>9, <1>11 DEF PeerFacts, JobRules, Says, Local, PlaceInv, Closes, Ended
<1>24. ConnInv(p)'
  BY <1>1, <1>2, <1>3, <1>4, <1>7, <1>8, <1>9, <1>11 DEF PeerFacts, JobRules, Says, Local, SockInv, ReadInv, AskInv, PlaceInv, ConnInv, EngineInv, WindowInv, Closes, Ended
<1>25. EngineInv(p)'
  BY <1>1, <1>2, <1>3, <1>4, <1>7, <1>8, <1>9, <1>11 DEF PeerFacts, JobRules, Says, Local, EngineInv, Closes, Ended
<1>26. WindowInv(p)'
  BY <1>1, <1>2, <1>3, <1>4, <1>7, <1>8, <1>9, <1>11 DEF PeerFacts, JobRules, Says, Local, SockInv, ReadInv, AskInv, PlaceInv, ConnInv, EngineInv, WindowInv, Closes, Ended
<1>27. TlsInv(p)'
  <2>1. \A r \in Peers : r # p => Same(r) /\ key'[r] = key[r]
    BY DEF StatusClosedDoes, Untouched, SameKey
  <2>2. /\ \A d \in DOMAIN links : To(d) = p => Taken(d)' = Taken(d)
        /\ \A d \in DOMAIN links' : To(d)' = p => d \in DOMAIN links
    BY <1>3, LinksStay DEF StatusClosedDoes, TypeOK
  <2>3. status[p] = "tls" /\ Uses(p) /\ Adopts(p, sock[p]) => Adopts(p, sock[p])'
    BY <1>2, <1>9
  <2>4. status[p] = "tls" /\ ~Uses(p) /\ sock[p] = Nobody /\ ~Begun(p) /\ ~Resets(p) /\ ui[p] = "idle" =>
           ~Begun(p)' /\ ~Resets(p)' /\ ui'[p] = "idle"
    BY <1>1, <1>2, <1>3, <1>4, <1>7, <1>8, <1>9, <1>11 DEF PeerFacts, JobRules, Says, Local, PlaceInv, Closes, Ended
  <2> QED
    BY <1>3, <1>9, <1>22, <2>1, <2>2, <2>3, <2>4, TlsSelf DEF Local
<1> QED
  BY <1>20, <1>21, <1>22, <1>23, <1>24, <1>25, <1>26, <1>27 DEF Local

LEMMA StatusLostUnconnectedLocal ==
    ASSUME TypeOK, TypeOK', NEW p \in Peers, Local(p), TlsInv(p), OnLink(p),
           StatusLostUnconnectedDoes(p), mishaps' = {}, ~Doomed(p), ~Doomed(p)'
    PROVE  Local(p)' /\ TlsInv(p)'
<1> DEFINE StaysRun(a, b) == Runs(p, a, b)' <=> Runs(p, a, b)
           StaysDoing(a, b) == \A y : Doing(p, a, b, y)' <=> Doing(p, a, b, y)
<1>1. /\ StaysRun("accept", "statusOn")
      /\ StaysRun("initHigh", "statusOn")
      /\ StaysRun("initLow", "statusOn")
      /\ StaysRun("statusOn", "statusOn")
      /\ StaysRun("cancel", "reset")
      /\ StaysRun("reset", "reset")
      /\ StaysRun("reject", "statusOff")
      /\ StaysRun("reset", "statusOff")
      /\ StaysRun("statusOff", "statusOff")
      /\ StaysRun("reset", "close")
      /\ StaysRun("close", "close")
      /\ StaysRun("reset", "unconnected")
      /\ Runs(p, "lost", "unconnected")
      /\ Runs(p, "unconnected", "unconnected")'
      /\ StaysRun("reset", "again")
      /\ StaysRun("lost", "again")
      /\ StaysRun("again", "again")
      /\ Runs(p, "stop", "stop")'
      /\ StaysRun("ready", "ready")
      /\ StaysRun("initFileSenders", "initFileSenders")
      /\ StaysDoing("dial", "request")
      /\ StaysDoing("exchange", "request")
      /\ StaysDoing("connect", "request")
      /\ StaysDoing("recvMsg", "request")
      /\ StaysDoing("request", "request")
      /\ StaysDoing("recvMsg", "established")
      /\ StaysDoing("established", "established")
      /\ StaysDoing("listen", "started")
      /\ StaysDoing("started", "started")
  BY DEF StatusLostUnconnectedDoes, Spawns, Runs
<1>2. /\ Begun(p)' <=> Begun(p)
      /\ \A y : Asks(p, y)' <=> Asks(p, y)
      /\ ToDial(p)' <=> ToDial(p)
      /\ \A y : Adopts(p, y)' <=> Adopts(p, y)
      /\ Starting(p)' <=> Starting(p)
      /\ \A y : Starts(p, y)' <=> Starts(p, y)
      /\ Agrees(p)' <=> Agrees(p)
      /\ TakesBack(p)' <=> TakesBack(p)
      /\ Leaves(p)' <=> Leaves(p)
      /\ Resets(p)' <=> Resets(p)
  BY <1>1 DEF Adopts, Agrees, Asks, Begun, Leaves, Resets, Starting, Starts, TakesBack, ToDial
<1>3. LinksKept /\ DOMAIN links' = DOMAIN links
  BY LinksStay DEF StatusLostUnconnectedDoes, TypeOK, LinksKept
<1>4. /\ Uses(p)' <=> Uses(p)
      /\ Calls(p)' <=> Calls(p)
      /\ Takes(p)' <=> Takes(p)
      /\ Uses(p) => /\ From(sock[p])' = From(sock[p]) /\ To(sock[p])' = To(sock[p])
                    /\ Other(sock[p], p)' = Other(sock[p], p)
  BY <1>3, SocketSame DEF StatusLostUnconnectedDoes
<1>7. PeerFacts(p) /\ JobRules(p) /\ JobRules(p)' /\ Says(p)
  BY PeerIs, JobsAre, EndSays
<1>8. /\ status'[p] \in {"waiting", "tls", "tcp"} /\ sock'[p] \in DOMAIN links' \cup {Fresh, Nobody}
      /\ Fresh # Nobody /\ Fresh \notin DOMAIN links' /\ Nobody \notin DOMAIN links'
      /\ DOMAIN links' \subseteq Nat
      /\ engine'[p].listening \in BOOLEAN /\ engine'[p].started \in BOOLEAN /\ engine'[p].senders \in BOOLEAN
  BY PeerIsNext
<1>9. /\ Once(p) => Once(p)'
      /\ UNCHANGED <<status[p], sock[p], online[p], dialing[p], target[p], reading[p], partner[p], engine[p], ui[p], asked[p], key[p], candidate[p], Reads(p)>>
      /\ connected'[p] = FALSE
      /\ ids'[p] = "low"
  BY DEF StatusLostUnconnectedDoes
<1>11. /\ ToDial(p) => /\ sock[p] = Nobody /\ status[p] = "waiting"
                      /\ ~Resets(p) /\ ~Closes(p) /\ ~Runs(p, "stop", "stop")
       /\ ToDial(p)' => /\ sock'[p] = Nobody /\ status'[p] = "waiting"
                       /\ ~Resets(p)' /\ ~Closes(p)' /\ ~Runs(p, "stop", "stop")'
  BY DEF Doomed, Busy
<1>20. SockInv(p)'
  BY <1>1, <1>2, <1>3, <1>4, <1>7, <1>8, <1>9, <1>11 DEF PeerFacts, JobRules, Says, Local, SockInv, Closes, Ended
<1>21. ReadInv(p)'
  BY <1>1, <1>2, <1>3, <1>4, <1>7, <1>8, <1>9, <1>11 DEF PeerFacts, JobRules, Says, Local, ReadInv, Closes, Ended
<1>22. AskInv(p)'
  BY <1>1, <1>2, <1>3, <1>4, <1>7, <1>8, <1>9, <1>11 DEF PeerFacts, JobRules, Says, Local, AskInv, Closes, Ended
<1>23. PlaceInv(p)'
  BY <1>1, <1>2, <1>3, <1>4, <1>7, <1>8, <1>9, <1>11 DEF PeerFacts, JobRules, Says, Local, PlaceInv, Closes, Ended
<1>24. ConnInv(p)'
  BY <1>1, <1>2, <1>3, <1>4, <1>7, <1>8, <1>9, <1>11 DEF PeerFacts, JobRules, Says, Local, SockInv, ReadInv, AskInv, PlaceInv, ConnInv, EngineInv, WindowInv, Closes, Ended
<1>25. EngineInv(p)'
  BY <1>1, <1>2, <1>3, <1>4, <1>7, <1>8, <1>9, <1>11 DEF PeerFacts, JobRules, Says, Local, SockInv, ReadInv, AskInv, PlaceInv, ConnInv, EngineInv, WindowInv, Closes, Ended
<1>26. WindowInv(p)'
  BY <1>1, <1>2, <1>3, <1>4, <1>7, <1>8, <1>9, <1>11 DEF PeerFacts, JobRules, Says, Local, SockInv, ReadInv, AskInv, PlaceInv, ConnInv, EngineInv, WindowInv, Closes, Ended
<1>27. TlsInv(p)'
  <2>1. \A r \in Peers : r # p => Same(r) /\ key'[r] = key[r]
    BY DEF StatusLostUnconnectedDoes, Untouched, SameKey
  <2>2. /\ \A d \in DOMAIN links : To(d) = p => Taken(d)' = Taken(d)
        /\ \A d \in DOMAIN links' : To(d)' = p => d \in DOMAIN links
    BY <1>3, LinksStay DEF StatusLostUnconnectedDoes, TypeOK
  <2>3. status[p] = "tls" /\ Uses(p) /\ Adopts(p, sock[p]) => Adopts(p, sock[p])'
    BY <1>2, <1>9
  <2>4. status[p] = "tls" /\ ~Uses(p) /\ sock[p] = Nobody /\ ~Begun(p) /\ ~Resets(p) /\ ui[p] = "idle" =>
           ~Begun(p)' /\ ~Resets(p)' /\ ui'[p] = "idle"
    BY <1>1, <1>2, <1>3, <1>4, <1>7, <1>8, <1>9, <1>11 DEF PeerFacts, JobRules, Says, Local, PlaceInv, Closes, Ended
  <2> QED
    BY <1>3, <1>9, <1>22, <2>1, <2>2, <2>3, <2>4, TlsSelf DEF Local
<1> QED
  BY <1>20, <1>21, <1>22, <1>23, <1>24, <1>25, <1>26, <1>27 DEF Local

LEMMA StatusLostAgainLocal ==
    ASSUME TypeOK, TypeOK', NEW p \in Peers, Local(p), TlsInv(p), OnLink(p),
           StatusLostAgainDoes(p), mishaps' = {}, ~Doomed(p), ~Doomed(p)'
    PROVE  Local(p)' /\ TlsInv(p)'
<1> DEFINE StaysRun(a, b) == Runs(p, a, b)' <=> Runs(p, a, b)
           StaysDoing(a, b) == \A y : Doing(p, a, b, y)' <=> Doing(p, a, b, y)
<1>1. /\ StaysRun("accept", "statusOn")
      /\ StaysRun("initHigh", "statusOn")
      /\ StaysRun("initLow", "statusOn")
      /\ StaysRun("statusOn", "statusOn")
      /\ StaysRun("cancel", "reset")
      /\ StaysRun("reset", "reset")
      /\ StaysRun("reject", "statusOff")
      /\ StaysRun("reset", "statusOff")
      /\ StaysRun("statusOff", "statusOff")
      /\ StaysRun("reset", "close")
      /\ StaysRun("close", "close")
      /\ StaysRun("reset", "unconnected")
      /\ StaysRun("lost", "unconnected")
      /\ StaysRun("unconnected", "unconnected")
      /\ StaysRun("reset", "again")
      /\ Runs(p, "lost", "again")
      /\ Runs(p, "again", "again")'
      /\ Runs(p, "stop", "stop")'
      /\ StaysRun("ready", "ready")
      /\ StaysRun("initFileSenders", "initFileSenders")
      /\ StaysDoing("dial", "request")
      /\ StaysDoing("exchange", "request")
      /\ StaysDoing("connect", "request")
      /\ StaysDoing("recvMsg", "request")
      /\ StaysDoing("request", "request")
      /\ StaysDoing("recvMsg", "established")
      /\ StaysDoing("established", "established")
      /\ StaysDoing("listen", "started")
      /\ StaysDoing("started", "started")
  BY DEF StatusLostAgainDoes, Spawns, Runs
<1>2. /\ Begun(p)' <=> Begun(p)
      /\ \A y : Asks(p, y)' <=> Asks(p, y)
      /\ ToDial(p)' <=> ToDial(p)
      /\ \A y : Adopts(p, y)' <=> Adopts(p, y)
      /\ Starting(p)' <=> Starting(p)
      /\ \A y : Starts(p, y)' <=> Starts(p, y)
      /\ Agrees(p)' <=> Agrees(p)
      /\ TakesBack(p)' <=> TakesBack(p)
      /\ Leaves(p)' <=> Leaves(p)
      /\ Resets(p)' <=> Resets(p)
  BY <1>1 DEF Adopts, Agrees, Asks, Begun, Leaves, Resets, Starting, Starts, TakesBack, ToDial
<1>3. LinksKept /\ DOMAIN links' = DOMAIN links
  BY LinksStay DEF StatusLostAgainDoes, TypeOK, LinksKept
<1>4. /\ Uses(p)' <=> Uses(p)
      /\ Calls(p)' <=> Calls(p)
      /\ Takes(p)' <=> Takes(p)
      /\ Uses(p) => /\ From(sock[p])' = From(sock[p]) /\ To(sock[p])' = To(sock[p])
                    /\ Other(sock[p], p)' = Other(sock[p], p)
  BY <1>3, SocketSame DEF StatusLostAgainDoes
<1>7. PeerFacts(p) /\ JobRules(p) /\ JobRules(p)' /\ Says(p)
  BY PeerIs, JobsAre, EndSays
<1>8. /\ status'[p] \in {"waiting", "tls", "tcp"} /\ sock'[p] \in DOMAIN links' \cup {Fresh, Nobody}
      /\ Fresh # Nobody /\ Fresh \notin DOMAIN links' /\ Nobody \notin DOMAIN links'
      /\ DOMAIN links' \subseteq Nat
      /\ engine'[p].listening \in BOOLEAN /\ engine'[p].started \in BOOLEAN /\ engine'[p].senders \in BOOLEAN
  BY PeerIsNext
<1>9. /\ Once(p) => Once(p)'
      /\ UNCHANGED <<status[p], sock[p], online[p], dialing[p], target[p], reading[p], partner[p], engine[p], ui[p], asked[p], key[p], candidate[p], Reads(p)>>
      /\ connected'[p] = FALSE
      /\ ids'[p] = "low"
  BY DEF StatusLostAgainDoes
<1>11. /\ ToDial(p) => /\ sock[p] = Nobody /\ status[p] = "waiting"
                      /\ ~Resets(p) /\ ~Closes(p) /\ ~Runs(p, "stop", "stop")
       /\ ToDial(p)' => /\ sock'[p] = Nobody /\ status'[p] = "waiting"
                       /\ ~Resets(p)' /\ ~Closes(p)' /\ ~Runs(p, "stop", "stop")'
  BY DEF Doomed, Busy
<1>20. SockInv(p)'
  BY <1>1, <1>2, <1>3, <1>4, <1>7, <1>8, <1>9, <1>11 DEF PeerFacts, JobRules, Says, Local, SockInv, Closes, Ended
<1>21. ReadInv(p)'
  BY <1>1, <1>2, <1>3, <1>4, <1>7, <1>8, <1>9, <1>11 DEF PeerFacts, JobRules, Says, Local, ReadInv, Closes, Ended
<1>22. AskInv(p)'
  BY <1>1, <1>2, <1>3, <1>4, <1>7, <1>8, <1>9, <1>11 DEF PeerFacts, JobRules, Says, Local, AskInv, Closes, Ended
<1>23. PlaceInv(p)'
  BY <1>1, <1>2, <1>3, <1>4, <1>7, <1>8, <1>9, <1>11 DEF PeerFacts, JobRules, Says, Local, PlaceInv, Closes, Ended
<1>24. ConnInv(p)'
  BY <1>1, <1>2, <1>3, <1>4, <1>7, <1>8, <1>9, <1>11 DEF PeerFacts, JobRules, Says, Local, SockInv, ReadInv, AskInv, PlaceInv, ConnInv, EngineInv, WindowInv, Closes, Ended
<1>25. EngineInv(p)'
  BY <1>1, <1>2, <1>3, <1>4, <1>7, <1>8, <1>9, <1>11 DEF PeerFacts, JobRules, Says, Local, SockInv, ReadInv, AskInv, PlaceInv, ConnInv, EngineInv, WindowInv, Closes, Ended
<1>26. WindowInv(p)'
  BY <1>1, <1>2, <1>3, <1>4, <1>7, <1>8, <1>9, <1>11 DEF PeerFacts, JobRules, Says, Local, SockInv, ReadInv, AskInv, PlaceInv, ConnInv, EngineInv, WindowInv, Closes, Ended
<1>27. TlsInv(p)'
  <2>1. \A r \in Peers : r # p => Same(r) /\ key'[r] = key[r]
    BY DEF StatusLostAgainDoes, Untouched, SameKey
  <2>2. /\ \A d \in DOMAIN links : To(d) = p => Taken(d)' = Taken(d)
        /\ \A d \in DOMAIN links' : To(d)' = p => d \in DOMAIN links
    BY <1>3, LinksStay DEF StatusLostAgainDoes, TypeOK
  <2>3. status[p] = "tls" /\ Uses(p) /\ Adopts(p, sock[p]) => Adopts(p, sock[p])'
    BY <1>2, <1>9
  <2>4. status[p] = "tls" /\ ~Uses(p) /\ sock[p] = Nobody /\ ~Begun(p) /\ ~Resets(p) /\ ui[p] = "idle" =>
           ~Begun(p)' /\ ~Resets(p)' /\ ui'[p] = "idle"
    BY <1>1, <1>2, <1>3, <1>4, <1>7, <1>8, <1>9, <1>11 DEF PeerFacts, JobRules, Says, Local, PlaceInv, Closes, Ended
  <2> QED
    BY <1>3, <1>9, <1>22, <2>1, <2>2, <2>3, <2>4, TlsSelf DEF Local
<1> QED
  BY <1>20, <1>21, <1>22, <1>23, <1>24, <1>25, <1>26, <1>27 DEF Local

LEMMA EngineHighLocal ==
    ASSUME TypeOK, TypeOK', NEW p \in Peers, Local(p), TlsInv(p), OnLink(p),
           EngineHighDoes(p), mishaps' = {}, ~Doomed(p), ~Doomed(p)'
    PROVE  Local(p)' /\ TlsInv(p)'
<1> DEFINE StaysRun(a, b) == Runs(p, a, b)' <=> Runs(p, a, b)
           StaysDoing(a, b) == \A y : Doing(p, a, b, y)' <=> Doing(p, a, b, y)
<1>1. /\ StaysRun("accept", "statusOn")
      /\ Runs(p, "initHigh", "statusOn")
      /\ StaysRun("initLow", "statusOn")
      /\ Runs(p, "statusOn", "statusOn")'
      /\ StaysRun("cancel", "reset")
      /\ StaysRun("reset", "reset")
      /\ StaysRun("reject", "statusOff")
      /\ StaysRun("reset", "statusOff")
      /\ StaysRun("statusOff", "statusOff")
      /\ StaysRun("reset", "close")
      /\ StaysRun("close", "close")
      /\ StaysRun("reset", "unconnected")
      /\ StaysRun("lost", "unconnected")
      /\ StaysRun("unconnected", "unconnected")
      /\ StaysRun("reset", "again")
      /\ StaysRun("lost", "again")
      /\ StaysRun("again", "again")
      /\ StaysRun("stop", "stop")
      /\ StaysRun("ready", "ready")
      /\ StaysRun("initFileSenders", "initFileSenders")
      /\ StaysDoing("dial", "request")
      /\ StaysDoing("exchange", "request")
      /\ StaysDoing("connect", "request")
      /\ StaysDoing("recvMsg", "request")
      /\ StaysDoing("request", "request")
      /\ StaysDoing("recvMsg", "established")
      /\ StaysDoing("established", "established")
      /\ \A y : Doing(p, "listen", "started", y)' => Doing(p, "listen", "started", y) \/ y = partner[p]
      /\ \A y : Doing(p, "listen", "started", y) => Doing(p, "listen", "started", y)'
      /\ \A y : y = partner[p] => Doing(p, "listen", "started", y)'
      /\ StaysDoing("started", "started")
  BY DEF EngineHighDoes, Spawns, Runs
<1>2. /\ Begun(p)' <=> Begun(p)
      /\ \A y : Asks(p, y)' <=> Asks(p, y)
      /\ ToDial(p)' <=> ToDial(p)
      /\ \A y : Adopts(p, y)' <=> Adopts(p, y)
      /\ TakesBack(p)' <=> TakesBack(p)
      /\ Leaves(p)' <=> Leaves(p)
      /\ Closes(p)' <=> Closes(p)
      /\ Resets(p)' <=> Resets(p)
      /\ Ended(p)' <=> Ended(p)
  BY <1>1 DEF Adopts, Asks, Begun, Closes, Ended, Leaves, Resets, TakesBack, ToDial
<1>3. LinksKept /\ DOMAIN links' = DOMAIN links
  BY LinksStay DEF EngineHighDoes, TypeOK, LinksKept
<1>4. /\ Uses(p)' <=> Uses(p)
      /\ Calls(p)' <=> Calls(p)
      /\ Takes(p)' <=> Takes(p)
      /\ Uses(p) => /\ From(sock[p])' = From(sock[p]) /\ To(sock[p])' = To(sock[p])
                    /\ Other(sock[p], p)' = Other(sock[p], p)
  BY <1>3, SocketSame DEF EngineHighDoes
<1>7. PeerFacts(p) /\ JobRules(p) /\ JobRules(p)' /\ Says(p)
  BY PeerIs, JobsAre, EndSays
<1>8. /\ status'[p] \in {"waiting", "tls", "tcp"} /\ sock'[p] \in DOMAIN links' \cup {Fresh, Nobody}
      /\ Fresh # Nobody /\ Fresh \notin DOMAIN links' /\ Nobody \notin DOMAIN links'
      /\ DOMAIN links' \subseteq Nat
      /\ engine'[p].listening \in BOOLEAN /\ engine'[p].started \in BOOLEAN /\ engine'[p].senders \in BOOLEAN
  BY PeerIsNext
<1>9. /\ Once(p) => Once(p)'
      /\ UNCHANGED <<status[p], sock[p], online[p], dialing[p], target[p], reading[p], connected[p], partner[p], engine[p], ui[p], asked[p], key[p], candidate[p], Reads(p)>>
      /\ ids'[p] = "high"
  BY DEF EngineHighDoes
<1>11. /\ ToDial(p) => /\ sock[p] = Nobody /\ status[p] = "waiting"
                      /\ ~Resets(p) /\ ~Closes(p) /\ ~Runs(p, "stop", "stop")
       /\ ToDial(p)' => /\ sock'[p] = Nobody /\ status'[p] = "waiting"
                       /\ ~Resets(p)' /\ ~Closes(p)' /\ ~Runs(p, "stop", "stop")'
  BY DEF Doomed, Busy
<1>20. SockInv(p)'
  BY <1>1, <1>2, <1>3, <1>4, <1>7, <1>8, <1>9, <1>11 DEF PeerFacts, JobRules, Says, Local, SockInv, Agrees, Starting, Starts
<1>21. ReadInv(p)'
  BY <1>1, <1>2, <1>3, <1>4, <1>7, <1>8, <1>9, <1>11 DEF PeerFacts, JobRules, Says, Local, ReadInv, Agrees, Starting, Starts
<1>22. AskInv(p)'
  BY <1>1, <1>2, <1>3, <1>4, <1>7, <1>8, <1>9, <1>11 DEF PeerFacts, JobRules, Says, Local, AskInv, Agrees, Starting, Starts
<1>23. PlaceInv(p)'
  BY <1>1, <1>2, <1>3, <1>4, <1>7, <1>8, <1>9, <1>11 DEF PeerFacts, JobRules, Says, Local, PlaceInv, Agrees, Starting, Starts
<1>24. ConnInv(p)'
  BY <1>1, <1>2, <1>3, <1>4, <1>7, <1>8, <1>9, <1>11 DEF PeerFacts, JobRules, Says, Local, ConnInv, Agrees, Starting, Starts
<1>25. EngineInv(p)'
  BY <1>1, <1>2, <1>3, <1>4, <1>7, <1>8, <1>9, <1>11 DEF PeerFacts, JobRules, Says, Local, SockInv, ReadInv, AskInv, PlaceInv, ConnInv, EngineInv, WindowInv, Agrees, Starting, Starts
<1>26. WindowInv(p)'
  BY <1>1, <1>2, <1>3, <1>4, <1>7, <1>8, <1>9, <1>11 DEF PeerFacts, JobRules, Says, Local, WindowInv, Agrees, Starting, Starts
<1>27. TlsInv(p)'
  <2>1. \A r \in Peers : r # p => Same(r) /\ key'[r] = key[r]
    BY DEF EngineHighDoes, Untouched, SameKey
  <2>2. /\ \A d \in DOMAIN links : To(d) = p => Taken(d)' = Taken(d)
        /\ \A d \in DOMAIN links' : To(d)' = p => d \in DOMAIN links
    BY <1>3, LinksStay DEF EngineHighDoes, TypeOK
  <2>3. status[p] = "tls" /\ Uses(p) /\ Adopts(p, sock[p]) => Adopts(p, sock[p])'
    BY <1>2, <1>9
  <2>4. status[p] = "tls" /\ ~Uses(p) /\ sock[p] = Nobody /\ ~Begun(p) /\ ~Resets(p) /\ ui[p] = "idle" =>
           ~Begun(p)' /\ ~Resets(p)' /\ ui'[p] = "idle"
    BY <1>1, <1>2, <1>3, <1>4, <1>7, <1>8, <1>9, <1>11 DEF PeerFacts, JobRules, Says, Local, PlaceInv, Agrees, Starting, Starts
  <2> QED
    BY <1>3, <1>9, <1>22, <2>1, <2>2, <2>3, <2>4, TlsSelf DEF Local
<1> QED
  BY <1>20, <1>21, <1>22, <1>23, <1>24, <1>25, <1>26, <1>27 DEF Local

LEMMA EngineLowLocal ==
    ASSUME TypeOK, TypeOK', NEW p \in Peers, Local(p), TlsInv(p), OnLink(p),
           EngineLowDoes(p), mishaps' = {}, ~Doomed(p), ~Doomed(p)'
    PROVE  Local(p)' /\ TlsInv(p)'
<1> DEFINE StaysRun(a, b) == Runs(p, a, b)' <=> Runs(p, a, b)
           StaysDoing(a, b) == \A y : Doing(p, a, b, y)' <=> Doing(p, a, b, y)
<1>1. /\ StaysRun("accept", "statusOn")
      /\ StaysRun("initHigh", "statusOn")
      /\ Runs(p, "initLow", "statusOn")
      /\ Runs(p, "statusOn", "statusOn")'
      /\ StaysRun("cancel", "reset")
      /\ StaysRun("reset", "reset")
      /\ StaysRun("reject", "statusOff")
      /\ StaysRun("reset", "statusOff")
      /\ StaysRun("statusOff", "statusOff")
      /\ StaysRun("reset", "close")
      /\ StaysRun("close", "close")
      /\ StaysRun("reset", "unconnected")
      /\ StaysRun("lost", "unconnected")
      /\ StaysRun("unconnected", "unconnected")
      /\ StaysRun("reset", "again")
      /\ StaysRun("lost", "again")
      /\ StaysRun("again", "again")
      /\ StaysRun("stop", "stop")
      /\ StaysRun("ready", "ready")
      /\ StaysRun("initFileSenders", "initFileSenders")
      /\ StaysDoing("dial", "request")
      /\ StaysDoing("exchange", "request")
      /\ StaysDoing("connect", "request")
      /\ StaysDoing("recvMsg", "request")
      /\ StaysDoing("request", "request")
      /\ StaysDoing("recvMsg", "established")
      /\ StaysDoing("established", "established")
      /\ \A y : Doing(p, "listen", "started", y)' => Doing(p, "listen", "started", y) \/ y = partner[p]
      /\ \A y : Doing(p, "listen", "started", y) => Doing(p, "listen", "started", y)'
      /\ \A y : y = partner[p] => Doing(p, "listen", "started", y)'
      /\ StaysDoing("started", "started")
  BY DEF EngineLowDoes, Spawns, Runs
<1>2. /\ Begun(p)' <=> Begun(p)
      /\ \A y : Asks(p, y)' <=> Asks(p, y)
      /\ ToDial(p)' <=> ToDial(p)
      /\ \A y : Adopts(p, y)' <=> Adopts(p, y)
      /\ TakesBack(p)' <=> TakesBack(p)
      /\ Leaves(p)' <=> Leaves(p)
      /\ Closes(p)' <=> Closes(p)
      /\ Resets(p)' <=> Resets(p)
      /\ Ended(p)' <=> Ended(p)
  BY <1>1 DEF Adopts, Asks, Begun, Closes, Ended, Leaves, Resets, TakesBack, ToDial
<1>3. LinksKept /\ DOMAIN links' = DOMAIN links
  BY LinksStay DEF EngineLowDoes, TypeOK, LinksKept
<1>4. /\ Uses(p)' <=> Uses(p)
      /\ Calls(p)' <=> Calls(p)
      /\ Takes(p)' <=> Takes(p)
      /\ Uses(p) => /\ From(sock[p])' = From(sock[p]) /\ To(sock[p])' = To(sock[p])
                    /\ Other(sock[p], p)' = Other(sock[p], p)
  BY <1>3, SocketSame DEF EngineLowDoes
<1>7. PeerFacts(p) /\ JobRules(p) /\ JobRules(p)' /\ Says(p)
  BY PeerIs, JobsAre, EndSays
<1>8. /\ status'[p] \in {"waiting", "tls", "tcp"} /\ sock'[p] \in DOMAIN links' \cup {Fresh, Nobody}
      /\ Fresh # Nobody /\ Fresh \notin DOMAIN links' /\ Nobody \notin DOMAIN links'
      /\ DOMAIN links' \subseteq Nat
      /\ engine'[p].listening \in BOOLEAN /\ engine'[p].started \in BOOLEAN /\ engine'[p].senders \in BOOLEAN
  BY PeerIsNext
<1>9. /\ Once(p) => Once(p)'
      /\ UNCHANGED <<status[p], sock[p], online[p], dialing[p], target[p], reading[p], connected[p], partner[p], engine[p], ui[p], asked[p], key[p], candidate[p], Reads(p)>>
      /\ ids'[p] = "low"
  BY DEF EngineLowDoes
<1>11. /\ ToDial(p) => /\ sock[p] = Nobody /\ status[p] = "waiting"
                      /\ ~Resets(p) /\ ~Closes(p) /\ ~Runs(p, "stop", "stop")
       /\ ToDial(p)' => /\ sock'[p] = Nobody /\ status'[p] = "waiting"
                       /\ ~Resets(p)' /\ ~Closes(p)' /\ ~Runs(p, "stop", "stop")'
  BY DEF Doomed, Busy
<1>20. SockInv(p)'
  BY <1>1, <1>2, <1>3, <1>4, <1>7, <1>8, <1>9, <1>11 DEF PeerFacts, JobRules, Says, Local, SockInv, Agrees, Starting, Starts
<1>21. ReadInv(p)'
  BY <1>1, <1>2, <1>3, <1>4, <1>7, <1>8, <1>9, <1>11 DEF PeerFacts, JobRules, Says, Local, ReadInv, Agrees, Starting, Starts
<1>22. AskInv(p)'
  BY <1>1, <1>2, <1>3, <1>4, <1>7, <1>8, <1>9, <1>11 DEF PeerFacts, JobRules, Says, Local, AskInv, Agrees, Starting, Starts
<1>23. PlaceInv(p)'
  BY <1>1, <1>2, <1>3, <1>4, <1>7, <1>8, <1>9, <1>11 DEF PeerFacts, JobRules, Says, Local, PlaceInv, Agrees, Starting, Starts
<1>24. ConnInv(p)'
  BY <1>1, <1>2, <1>3, <1>4, <1>7, <1>8, <1>9, <1>11 DEF PeerFacts, JobRules, Says, Local, ConnInv, Agrees, Starting, Starts
<1>25. EngineInv(p)'
  BY <1>1, <1>2, <1>3, <1>4, <1>7, <1>8, <1>9, <1>11 DEF PeerFacts, JobRules, Says, Local, SockInv, ReadInv, AskInv, PlaceInv, ConnInv, EngineInv, WindowInv, Agrees, Starting, Starts
<1>26. WindowInv(p)'
  BY <1>1, <1>2, <1>3, <1>4, <1>7, <1>8, <1>9, <1>11 DEF PeerFacts, JobRules, Says, Local, WindowInv, Agrees, Starting, Starts
<1>27. TlsInv(p)'
  <2>1. \A r \in Peers : r # p => Same(r) /\ key'[r] = key[r]
    BY DEF EngineLowDoes, Untouched, SameKey
  <2>2. /\ \A d \in DOMAIN links : To(d) = p => Taken(d)' = Taken(d)
        /\ \A d \in DOMAIN links' : To(d)' = p => d \in DOMAIN links
    BY <1>3, LinksStay DEF EngineLowDoes, TypeOK
  <2>3. status[p] = "tls" /\ Uses(p) /\ Adopts(p, sock[p]) => Adopts(p, sock[p])'
    BY <1>2, <1>9
  <2>4. status[p] = "tls" /\ ~Uses(p) /\ sock[p] = Nobody /\ ~Begun(p) /\ ~Resets(p) /\ ui[p] = "idle" =>
           ~Begun(p)' /\ ~Resets(p)' /\ ui'[p] = "idle"
    BY <1>1, <1>2, <1>3, <1>4, <1>7, <1>8, <1>9, <1>11 DEF PeerFacts, JobRules, Says, Local, PlaceInv, Agrees, Starting, Starts
  <2> QED
    BY <1>3, <1>9, <1>22, <2>1, <2>2, <2>3, <2>4, TlsSelf DEF Local
<1> QED
  BY <1>20, <1>21, <1>22, <1>23, <1>24, <1>25, <1>26, <1>27 DEF Local

LEMMA ListenLocal ==
    ASSUME TypeOK, TypeOK', NEW p \in Peers, NEW x, Local(p), TlsInv(p), OnLink(p),
           ListenDoes(p, x), mishaps' = {}, ~Doomed(p), ~Doomed(p)'
    PROVE  Local(p)' /\ TlsInv(p)'
<1> DEFINE StaysRun(a, b) == Runs(p, a, b)' <=> Runs(p, a, b)
           StaysDoing(a, b) == \A y : Doing(p, a, b, y)' <=> Doing(p, a, b, y)
<1>1. /\ StaysRun("accept", "statusOn")
      /\ StaysRun("initHigh", "statusOn")
      /\ StaysRun("initLow", "statusOn")
      /\ StaysRun("statusOn", "statusOn")
      /\ StaysRun("cancel", "reset")
      /\ StaysRun("reset", "reset")
      /\ StaysRun("reject", "statusOff")
      /\ StaysRun("reset", "statusOff")
      /\ StaysRun("statusOff", "statusOff")
      /\ StaysRun("reset", "close")
      /\ StaysRun("close", "close")
      /\ StaysRun("reset", "unconnected")
      /\ StaysRun("lost", "unconnected")
      /\ StaysRun("unconnected", "unconnected")
      /\ StaysRun("reset", "again")
      /\ StaysRun("lost", "again")
      /\ StaysRun("again", "again")
      /\ StaysRun("stop", "stop")
      /\ Runs(p, "ready", "ready")'
      /\ StaysRun("initFileSenders", "initFileSenders")
      /\ StaysDoing("dial", "request")
      /\ StaysDoing("exchange", "request")
      /\ StaysDoing("connect", "request")
      /\ StaysDoing("recvMsg", "request")
      /\ StaysDoing("request", "request")
      /\ StaysDoing("recvMsg", "established")
      /\ StaysDoing("established", "established")
      /\ \A y : Doing(p, "listen", "started", y)' => Doing(p, "listen", "started", y)
      /\ \A y : Doing(p, "listen", "started", y) => Doing(p, "listen", "started", y)' \/ y = x
      /\ Doing(p, "listen", "started", x)
      /\ \A y : Doing(p, "started", "started", y)' => Doing(p, "started", "started", y) \/ y = x
      /\ \A y : Doing(p, "started", "started", y) => Doing(p, "started", "started", y)'
      /\ Doing(p, "started", "started", x)'
  BY DEF ListenDoes, Spawns, Runs
<1>2. /\ Begun(p)' <=> Begun(p)
      /\ \A y : Asks(p, y)' <=> Asks(p, y)
      /\ ToDial(p)' <=> ToDial(p)
      /\ \A y : Adopts(p, y)' <=> Adopts(p, y)
      /\ Agrees(p)' <=> Agrees(p)
      /\ TakesBack(p)' <=> TakesBack(p)
      /\ Leaves(p)' <=> Leaves(p)
      /\ Closes(p)' <=> Closes(p)
      /\ Resets(p)' <=> Resets(p)
      /\ Ended(p)' <=> Ended(p)
  BY <1>1 DEF Adopts, Agrees, Asks, Begun, Closes, Ended, Leaves, Resets, TakesBack, ToDial
<1>3. LinksKept /\ DOMAIN links' = DOMAIN links
  BY LinksStay DEF ListenDoes, TypeOK, LinksKept
<1>4. /\ Uses(p)' <=> Uses(p)
      /\ Calls(p)' <=> Calls(p)
      /\ Takes(p)' <=> Takes(p)
      /\ Uses(p) => /\ From(sock[p])' = From(sock[p]) /\ To(sock[p])' = To(sock[p])
                    /\ Other(sock[p], p)' = Other(sock[p], p)
  BY <1>3, SocketSame DEF ListenDoes
<1>7. PeerFacts(p) /\ JobRules(p) /\ JobRules(p)' /\ Says(p)
  BY PeerIs, JobsAre, EndSays
<1>8. /\ status'[p] \in {"waiting", "tls", "tcp"} /\ sock'[p] \in DOMAIN links' \cup {Fresh, Nobody}
      /\ Fresh # Nobody /\ Fresh \notin DOMAIN links' /\ Nobody \notin DOMAIN links'
      /\ DOMAIN links' \subseteq Nat
      /\ engine'[p].listening \in BOOLEAN /\ engine'[p].started \in BOOLEAN /\ engine'[p].senders \in BOOLEAN
  BY PeerIsNext
<1>9. /\ Once(p) => Once(p)'
      /\ x \in Peers \cup {Nobody}
      /\ UNCHANGED <<status[p], sock[p], online[p], dialing[p], target[p], reading[p], connected[p], ids[p], partner[p], ui[p], asked[p], key[p], candidate[p], Reads(p)>>
      /\ engine'[p].addr = x /\ engine'[p].listening = TRUE /\ engine'[p].started = engine[p].started /\ engine'[p].senders = engine[p].senders
  BY DEF ListenDoes
<1>11. /\ ToDial(p) => /\ sock[p] = Nobody /\ status[p] = "waiting"
                      /\ ~Resets(p) /\ ~Closes(p) /\ ~Runs(p, "stop", "stop")
       /\ ToDial(p)' => /\ sock'[p] = Nobody /\ status'[p] = "waiting"
                       /\ ~Resets(p)' /\ ~Closes(p)' /\ ~Runs(p, "stop", "stop")'
  BY DEF Doomed, Busy
<1>20. SockInv(p)'
  BY <1>1, <1>2, <1>3, <1>4, <1>7, <1>8, <1>9, <1>11 DEF PeerFacts, JobRules, Says, Local, SockInv, Starting, Starts
<1>21. ReadInv(p)'
  BY <1>1, <1>2, <1>3, <1>4, <1>7, <1>8, <1>9, <1>11 DEF PeerFacts, JobRules, Says, Local, ReadInv, Starting, Starts
<1>22. AskInv(p)'
  BY <1>1, <1>2, <1>3, <1>4, <1>7, <1>8, <1>9, <1>11 DEF PeerFacts, JobRules, Says, Local, AskInv, Starting, Starts
<1>23. PlaceInv(p)'
  BY <1>1, <1>2, <1>3, <1>4, <1>7, <1>8, <1>9, <1>11 DEF PeerFacts, JobRules, Says, Local, PlaceInv, Starting, Starts
<1>24. ConnInv(p)'
  BY <1>1, <1>2, <1>3, <1>4, <1>7, <1>8, <1>9, <1>11 DEF PeerFacts, JobRules, Says, Local, ConnInv, Starting, Starts
<1>25. EngineInv(p)'
  BY <1>1, <1>2, <1>3, <1>4, <1>7, <1>8, <1>9, <1>11 DEF PeerFacts, JobRules, Says, Local, EngineInv, Starting, Starts
<1>26. WindowInv(p)'
  BY <1>1, <1>2, <1>3, <1>4, <1>7, <1>8, <1>9, <1>11 DEF PeerFacts, JobRules, Says, Local, WindowInv, Starting, Starts
<1>27. TlsInv(p)'
  <2>1. \A r \in Peers : r # p => Same(r) /\ key'[r] = key[r]
    BY DEF ListenDoes, Untouched, SameKey
  <2>2. /\ \A d \in DOMAIN links : To(d) = p => Taken(d)' = Taken(d)
        /\ \A d \in DOMAIN links' : To(d)' = p => d \in DOMAIN links
    BY <1>3, LinksStay DEF ListenDoes, TypeOK
  <2>3. status[p] = "tls" /\ Uses(p) /\ Adopts(p, sock[p]) => Adopts(p, sock[p])'
    BY <1>2, <1>9
  <2>4. status[p] = "tls" /\ ~Uses(p) /\ sock[p] = Nobody /\ ~Begun(p) /\ ~Resets(p) /\ ui[p] = "idle" =>
           ~Begun(p)' /\ ~Resets(p)' /\ ui'[p] = "idle"
    BY <1>1, <1>2, <1>3, <1>4, <1>7, <1>8, <1>9, <1>11 DEF PeerFacts, JobRules, Says, Local, PlaceInv, Starting, Starts
  <2> QED
    BY <1>3, <1>9, <1>22, <2>1, <2>2, <2>3, <2>4, TlsSelf DEF Local
<1> QED
  BY <1>20, <1>21, <1>22, <1>23, <1>24, <1>25, <1>26, <1>27 DEF Local

LEMMA StartedLocal ==
    ASSUME TypeOK, TypeOK', NEW p \in Peers, NEW x, Local(p), TlsInv(p), OnLink(p),
           StartedDoes(p, x), mishaps' = {}, ~Doomed(p), ~Doomed(p)'
    PROVE  Local(p)' /\ TlsInv(p)'
<1> DEFINE StaysRun(a, b) == Runs(p, a, b)' <=> Runs(p, a, b)
           StaysDoing(a, b) == \A y : Doing(p, a, b, y)' <=> Doing(p, a, b, y)
<1>1. /\ StaysRun("accept", "statusOn")
      /\ StaysRun("initHigh", "statusOn")
      /\ StaysRun("initLow", "statusOn")
      /\ StaysRun("statusOn", "statusOn")
      /\ StaysRun("cancel", "reset")
      /\ StaysRun("reset", "reset")
      /\ StaysRun("reject", "statusOff")
      /\ StaysRun("reset", "statusOff")
      /\ StaysRun("statusOff", "statusOff")
      /\ StaysRun("reset", "close")
      /\ StaysRun("close", "close")
      /\ StaysRun("reset", "unconnected")
      /\ StaysRun("lost", "unconnected")
      /\ StaysRun("unconnected", "unconnected")
      /\ StaysRun("reset", "again")
      /\ StaysRun("lost", "again")
      /\ StaysRun("again", "again")
      /\ StaysRun("stop", "stop")
      /\ StaysRun("ready", "ready")
      /\ StaysRun("initFileSenders", "initFileSenders")
      /\ StaysDoing("dial", "request")
      /\ StaysDoing("exchange", "request")
      /\ StaysDoing("connect", "request")
      /\ StaysDoing("recvMsg", "request")
      /\ StaysDoing("request", "request")
      /\ StaysDoing("recvMsg", "established")
      /\ StaysDoing("established", "established")
      /\ StaysDoing("listen", "started")
      /\ \A y : Doing(p, "started", "started", y)' => Doing(p, "started", "started", y)
      /\ \A y : Doing(p, "started", "started", y) => Doing(p, "started", "started", y)' \/ y = x
      /\ Doing(p, "started", "started", x)
  BY DEF StartedDoes, Finishes, Runs
<1>2. /\ Begun(p)' <=> Begun(p)
      /\ \A y : Asks(p, y)' <=> Asks(p, y)
      /\ ToDial(p)' <=> ToDial(p)
      /\ \A y : Adopts(p, y)' <=> Adopts(p, y)
      /\ Agrees(p)' <=> Agrees(p)
      /\ TakesBack(p)' <=> TakesBack(p)
      /\ Leaves(p)' <=> Leaves(p)
      /\ Closes(p)' <=> Closes(p)
      /\ Resets(p)' <=> Resets(p)
      /\ Ended(p)' <=> Ended(p)
  BY <1>1 DEF Adopts, Agrees, Asks, Begun, Closes, Ended, Leaves, Resets, TakesBack, ToDial
<1>3. LinksKept /\ DOMAIN links' = DOMAIN links
  BY LinksStay DEF StartedDoes, TypeOK, LinksKept
<1>4. /\ Uses(p)' <=> Uses(p)
      /\ Calls(p)' <=> Calls(p)
      /\ Takes(p)' <=> Takes(p)
      /\ Uses(p) => /\ From(sock[p])' = From(sock[p]) /\ To(sock[p])' = To(sock[p])
                    /\ Other(sock[p], p)' = Other(sock[p], p)
  BY <1>3, SocketSame DEF StartedDoes
<1>7. PeerFacts(p) /\ JobRules(p) /\ JobRules(p)' /\ Says(p)
  BY PeerIs, JobsAre, EndSays
<1>8. /\ status'[p] \in {"waiting", "tls", "tcp"} /\ sock'[p] \in DOMAIN links' \cup {Fresh, Nobody}
      /\ Fresh # Nobody /\ Fresh \notin DOMAIN links' /\ Nobody \notin DOMAIN links'
      /\ DOMAIN links' \subseteq Nat
      /\ engine'[p].listening \in BOOLEAN /\ engine'[p].started \in BOOLEAN /\ engine'[p].senders \in BOOLEAN
  BY PeerIsNext
<1>9. /\ Once(p) => Once(p)'
      /\ x \in Peers \cup {Nobody}
      /\ UNCHANGED <<status[p], sock[p], online[p], dialing[p], target[p], reading[p], connected[p], ids[p], partner[p], ui[p], asked[p], key[p], candidate[p], Reads(p)>>
      /\ engine'[p].addr = engine[p].addr /\ engine'[p].listening = engine[p].listening /\ engine'[p].started = TRUE /\ engine'[p].senders = engine[p].senders
  BY DEF StartedDoes
<1>11. /\ ToDial(p) => /\ sock[p] = Nobody /\ status[p] = "waiting"
                      /\ ~Resets(p) /\ ~Closes(p) /\ ~Runs(p, "stop", "stop")
       /\ ToDial(p)' => /\ sock'[p] = Nobody /\ status'[p] = "waiting"
                       /\ ~Resets(p)' /\ ~Closes(p)' /\ ~Runs(p, "stop", "stop")'
  BY DEF Doomed, Busy
<1>20. SockInv(p)'
  BY <1>1, <1>2, <1>3, <1>4, <1>7, <1>8, <1>9, <1>11 DEF PeerFacts, JobRules, Says, Local, SockInv, Starting, Starts
<1>21. ReadInv(p)'
  BY <1>1, <1>2, <1>3, <1>4, <1>7, <1>8, <1>9, <1>11 DEF PeerFacts, JobRules, Says, Local, ReadInv, Starting, Starts
<1>22. AskInv(p)'
  BY <1>1, <1>2, <1>3, <1>4, <1>7, <1>8, <1>9, <1>11 DEF PeerFacts, JobRules, Says, Local, AskInv, Starting, Starts
<1>23. PlaceInv(p)'
  BY <1>1, <1>2, <1>3, <1>4, <1>7, <1>8, <1>9, <1>11 DEF PeerFacts, JobRules, Says, Local, PlaceInv, Starting, Starts
<1>24. ConnInv(p)'
  BY <1>1, <1>2, <1>3, <1>4, <1>7, <1>8, <1>9, <1>11 DEF PeerFacts, JobRules, Says, Local, ConnInv, Starting, Starts
<1>25. EngineInv(p)'
  BY <1>1, <1>2, <1>3, <1>4, <1>7, <1>8, <1>9, <1>11 DEF PeerFacts, JobRules, Says, Local, EngineInv, Starting, Starts
<1>26. WindowInv(p)'
  BY <1>1, <1>2, <1>3, <1>4, <1>7, <1>8, <1>9, <1>11 DEF PeerFacts, JobRules, Says, Local, WindowInv, Starting, Starts
<1>27. TlsInv(p)'
  <2>1. \A r \in Peers : r # p => Same(r) /\ key'[r] = key[r]
    BY DEF StartedDoes, Untouched, SameKey
  <2>2. /\ \A d \in DOMAIN links : To(d) = p => Taken(d)' = Taken(d)
        /\ \A d \in DOMAIN links' : To(d)' = p => d \in DOMAIN links
    BY <1>3, LinksStay DEF StartedDoes, TypeOK
  <2>3. status[p] = "tls" /\ Uses(p) /\ Adopts(p, sock[p]) => Adopts(p, sock[p])'
    BY <1>2, <1>9
  <2>4. status[p] = "tls" /\ ~Uses(p) /\ sock[p] = Nobody /\ ~Begun(p) /\ ~Resets(p) /\ ui[p] = "idle" =>
           ~Begun(p)' /\ ~Resets(p)' /\ ui'[p] = "idle"
    BY <1>1, <1>2, <1>3, <1>4, <1>7, <1>8, <1>9, <1>11 DEF PeerFacts, JobRules, Says, Local, PlaceInv, Starting, Starts
  <2> QED
    BY <1>3, <1>9, <1>22, <2>1, <2>2, <2>3, <2>4, TlsSelf DEF Local
<1> QED
  BY <1>20, <1>21, <1>22, <1>23, <1>24, <1>25, <1>26, <1>27 DEF Local

LEMMA SendersLocal ==
    ASSUME TypeOK, TypeOK', NEW p \in Peers, Local(p), TlsInv(p), OnLink(p),
           SendersDoes(p), mishaps' = {}, ~Doomed(p), ~Doomed(p)'
    PROVE  Local(p)' /\ TlsInv(p)'
<1> DEFINE StaysRun(a, b) == Runs(p, a, b)' <=> Runs(p, a, b)
           StaysDoing(a, b) == \A y : Doing(p, a, b, y)' <=> Doing(p, a, b, y)
<1>1. /\ StaysRun("accept", "statusOn")
      /\ StaysRun("initHigh", "statusOn")
      /\ StaysRun("initLow", "statusOn")
      /\ StaysRun("statusOn", "statusOn")
      /\ StaysRun("cancel", "reset")
      /\ StaysRun("reset", "reset")
      /\ StaysRun("reject", "statusOff")
      /\ StaysRun("reset", "statusOff")
      /\ StaysRun("statusOff", "statusOff")
      /\ StaysRun("reset", "close")
      /\ StaysRun("close", "close")
      /\ StaysRun("reset", "unconnected")
      /\ StaysRun("lost", "unconnected")
      /\ StaysRun("unconnected", "unconnected")
      /\ StaysRun("reset", "again")
      /\ StaysRun("lost", "again")
      /\ StaysRun("again", "again")
      /\ StaysRun("stop", "stop")
      /\ StaysRun("ready", "ready")
      /\ Runs(p, "initFileSenders", "initFileSenders")
      /\ StaysDoing("dial", "request")
      /\ StaysDoing("exchange", "request")
      /\ StaysDoing("connect", "request")
      /\ StaysDoing("recvMsg", "request")
      /\ StaysDoing("request", "request")
      /\ StaysDoing("recvMsg", "established")
      /\ StaysDoing("established", "established")
      /\ StaysDoing("listen", "started")
      /\ StaysDoing("started", "started")
  BY DEF SendersDoes, Finishes, Runs
<1>2. /\ Begun(p)' <=> Begun(p)
      /\ \A y : Asks(p, y)' <=> Asks(p, y)
      /\ ToDial(p)' <=> ToDial(p)
      /\ \A y : Adopts(p, y)' <=> Adopts(p, y)
      /\ Starting(p)' <=> Starting(p)
      /\ \A y : Starts(p, y)' <=> Starts(p, y)
      /\ Agrees(p)' <=> Agrees(p)
      /\ TakesBack(p)' <=> TakesBack(p)
      /\ Leaves(p)' <=> Leaves(p)
      /\ Closes(p)' <=> Closes(p)
      /\ Resets(p)' <=> Resets(p)
      /\ Ended(p)' <=> Ended(p)
  BY <1>1 DEF Adopts, Agrees, Asks, Begun, Closes, Ended, Leaves, Resets, Starting, Starts, TakesBack, ToDial
<1>3. LinksKept /\ DOMAIN links' = DOMAIN links
  BY LinksStay DEF SendersDoes, TypeOK, LinksKept
<1>4. /\ Uses(p)' <=> Uses(p)
      /\ Calls(p)' <=> Calls(p)
      /\ Takes(p)' <=> Takes(p)
      /\ Uses(p) => /\ From(sock[p])' = From(sock[p]) /\ To(sock[p])' = To(sock[p])
                    /\ Other(sock[p], p)' = Other(sock[p], p)
  BY <1>3, SocketSame DEF SendersDoes
<1>7. PeerFacts(p) /\ JobRules(p) /\ JobRules(p)' /\ Says(p)
  BY PeerIs, JobsAre, EndSays
<1>8. /\ status'[p] \in {"waiting", "tls", "tcp"} /\ sock'[p] \in DOMAIN links' \cup {Fresh, Nobody}
      /\ Fresh # Nobody /\ Fresh \notin DOMAIN links' /\ Nobody \notin DOMAIN links'
      /\ DOMAIN links' \subseteq Nat
      /\ engine'[p].listening \in BOOLEAN /\ engine'[p].started \in BOOLEAN /\ engine'[p].senders \in BOOLEAN
  BY PeerIsNext
<1>9. /\ Once(p) => Once(p)'
      /\ UNCHANGED <<status[p], sock[p], online[p], dialing[p], target[p], reading[p], connected[p], ids[p], partner[p], ui[p], asked[p], key[p], candidate[p], Reads(p)>>
      /\ engine'[p].addr = engine[p].addr /\ engine'[p].listening = engine[p].listening /\ engine'[p].started = engine[p].started
      /\ engine'[p].senders <=> engine[p].senders \/ (engine[p].addr # Nobody /\ engine[engine[p].addr].listening)
  BY DEF SendersDoes
<1>11. /\ ToDial(p) => /\ sock[p] = Nobody /\ status[p] = "waiting"
                      /\ ~Resets(p) /\ ~Closes(p) /\ ~Runs(p, "stop", "stop")
       /\ ToDial(p)' => /\ sock'[p] = Nobody /\ status'[p] = "waiting"
                       /\ ~Resets(p)' /\ ~Closes(p)' /\ ~Runs(p, "stop", "stop")'
  BY DEF Doomed, Busy
<1>20. SockInv(p)'
  BY <1>1, <1>2, <1>3, <1>4, <1>7, <1>8, <1>9, <1>11 DEF PeerFacts, JobRules, Says, Local, SockInv
<1>21. ReadInv(p)'
  BY <1>1, <1>2, <1>3, <1>4, <1>7, <1>8, <1>9, <1>11 DEF PeerFacts, JobRules, Says, Local, ReadInv
<1>22. AskInv(p)'
  BY <1>1, <1>2, <1>3, <1>4, <1>7, <1>8, <1>9, <1>11 DEF PeerFacts, JobRules, Says, Local, AskInv
<1>23. PlaceInv(p)'
  BY <1>1, <1>2, <1>3, <1>4, <1>7, <1>8, <1>9, <1>11 DEF PeerFacts, JobRules, Says, Local, PlaceInv
<1>24. ConnInv(p)'
  BY <1>1, <1>2, <1>3, <1>4, <1>7, <1>8, <1>9, <1>11 DEF PeerFacts, JobRules, Says, Local, ConnInv
<1>25. EngineInv(p)'
  BY <1>1, <1>2, <1>3, <1>4, <1>7, <1>8, <1>9, <1>11 DEF PeerFacts, JobRules, Says, Local, EngineInv
<1>26. WindowInv(p)'
  BY <1>1, <1>2, <1>3, <1>4, <1>7, <1>8, <1>9, <1>11 DEF PeerFacts, JobRules, Says, Local, WindowInv
<1>27. TlsInv(p)'
  <2>1. \A r \in Peers : r # p => Same(r) /\ key'[r] = key[r]
    BY DEF SendersDoes, Untouched, SameKey
  <2>2. /\ \A d \in DOMAIN links : To(d) = p => Taken(d)' = Taken(d)
        /\ \A d \in DOMAIN links' : To(d)' = p => d \in DOMAIN links
    BY <1>3, LinksStay DEF SendersDoes, TypeOK
  <2>3. status[p] = "tls" /\ Uses(p) /\ Adopts(p, sock[p]) => Adopts(p, sock[p])'
    BY <1>2, <1>9
  <2>4. status[p] = "tls" /\ ~Uses(p) /\ sock[p] = Nobody /\ ~Begun(p) /\ ~Resets(p) /\ ui[p] = "idle" =>
           ~Begun(p)' /\ ~Resets(p)' /\ ui'[p] = "idle"
    BY <1>1, <1>2, <1>3, <1>4, <1>7, <1>8, <1>9, <1>11 DEF PeerFacts, JobRules, Says, Local, PlaceInv
  <2> QED
    BY <1>3, <1>9, <1>22, <2>1, <2>2, <2>3, <2>4, TlsSelf DEF Local
<1> QED
  BY <1>20, <1>21, <1>22, <1>23, <1>24, <1>25, <1>26, <1>27 DEF Local

LEMMA StopEngineLocal ==
    ASSUME TypeOK, TypeOK', NEW p \in Peers, Local(p), TlsInv(p), OnLink(p),
           StopEngineDoes(p), mishaps' = {}, ~Doomed(p), ~Doomed(p)'
    PROVE  Local(p)' /\ TlsInv(p)'
<1> DEFINE StaysRun(a, b) == Runs(p, a, b)' <=> Runs(p, a, b)
           StaysDoing(a, b) == \A y : Doing(p, a, b, y)' <=> Doing(p, a, b, y)
<1>1. /\ StaysRun("accept", "statusOn")
      /\ StaysRun("initHigh", "statusOn")
      /\ StaysRun("initLow", "statusOn")
      /\ StaysRun("statusOn", "statusOn")
      /\ StaysRun("cancel", "reset")
      /\ StaysRun("reset", "reset")
      /\ StaysRun("reject", "statusOff")
      /\ StaysRun("reset", "statusOff")
      /\ StaysRun("statusOff", "statusOff")
      /\ StaysRun("reset", "close")
      /\ StaysRun("close", "close")
      /\ StaysRun("reset", "unconnected")
      /\ StaysRun("lost", "unconnected")
      /\ StaysRun("unconnected", "unconnected")
      /\ StaysRun("reset", "again")
      /\ StaysRun("lost", "again")
      /\ StaysRun("again", "again")
      /\ Runs(p, "stop", "stop")
      /\ StaysRun("ready", "ready")
      /\ StaysRun("initFileSenders", "initFileSenders")
      /\ StaysDoing("dial", "request")
      /\ StaysDoing("exchange", "request")
      /\ StaysDoing("connect", "request")
      /\ StaysDoing("recvMsg", "request")
      /\ StaysDoing("request", "request")
      /\ StaysDoing("recvMsg", "established")
      /\ StaysDoing("established", "established")
      /\ StaysDoing("listen", "started")
      /\ StaysDoing("started", "started")
  BY DEF StopEngineDoes, Finishes, Runs
<1>2. /\ Begun(p)' <=> Begun(p)
      /\ \A y : Asks(p, y)' <=> Asks(p, y)
      /\ ToDial(p)' <=> ToDial(p)
      /\ \A y : Adopts(p, y)' <=> Adopts(p, y)
      /\ Starting(p)' <=> Starting(p)
      /\ \A y : Starts(p, y)' <=> Starts(p, y)
      /\ Agrees(p)' <=> Agrees(p)
      /\ TakesBack(p)' <=> TakesBack(p)
      /\ Leaves(p)' <=> Leaves(p)
      /\ Closes(p)' <=> Closes(p)
      /\ Resets(p)' <=> Resets(p)
  BY <1>1 DEF Adopts, Agrees, Asks, Begun, Closes, Leaves, Resets, Starting, Starts, TakesBack, ToDial
<1>3. LinksKept /\ DOMAIN links' = DOMAIN links
  BY LinksStay DEF StopEngineDoes, TypeOK, LinksKept
<1>4. /\ Uses(p)' <=> Uses(p)
      /\ Calls(p)' <=> Calls(p)
      /\ Takes(p)' <=> Takes(p)
      /\ Uses(p) => /\ From(sock[p])' = From(sock[p]) /\ To(sock[p])' = To(sock[p])
                    /\ Other(sock[p], p)' = Other(sock[p], p)
  BY <1>3, SocketSame DEF StopEngineDoes
<1>7. PeerFacts(p) /\ JobRules(p) /\ JobRules(p)' /\ Says(p)
  BY PeerIs, JobsAre, EndSays
<1>8. /\ status'[p] \in {"waiting", "tls", "tcp"} /\ sock'[p] \in DOMAIN links' \cup {Fresh, Nobody}
      /\ Fresh # Nobody /\ Fresh \notin DOMAIN links' /\ Nobody \notin DOMAIN links'
      /\ DOMAIN links' \subseteq Nat
      /\ engine'[p].listening \in BOOLEAN /\ engine'[p].started \in BOOLEAN /\ engine'[p].senders \in BOOLEAN
  BY PeerIsNext
<1>9. /\ Once(p) => Once(p)'
      /\ UNCHANGED <<status[p], sock[p], online[p], dialing[p], target[p], reading[p], connected[p], ids[p], partner[p], ui[p], asked[p], key[p], candidate[p], Reads(p)>>
      /\ engine'[p] = IF engine[p].started THEN [Off EXCEPT !.addr = engine[p].addr] ELSE engine[p]
      /\ engine'[p].addr = engine[p].addr
  BY DEF StopEngineDoes
<1>11. /\ ToDial(p) => /\ sock[p] = Nobody /\ status[p] = "waiting"
                      /\ ~Resets(p) /\ ~Closes(p) /\ ~Runs(p, "stop", "stop")
       /\ ToDial(p)' => /\ sock'[p] = Nobody /\ status'[p] = "waiting"
                       /\ ~Resets(p)' /\ ~Closes(p)' /\ ~Runs(p, "stop", "stop")'
  BY DEF Doomed, Busy
<1>5. ~Beginning(p)
  BY DEF StopEngineDoes
<1>6. /\ ~ToDial(p) /\ ~Agrees(p) /\ ~Starting(p) /\ (\A d : ~Adopts(p, d))
      /\ ~Runs(p, "initLow", "statusOn") /\ ~Runs(p, "initHigh", "statusOn")
      /\ ~Runs(p, "accept", "statusOn") /\ ~Runs(p, "statusOn", "statusOn")
      /\ \A y : ~Doing(p, "exchange", "request", y) /\ ~Doing(p, "connect", "request", y)
                /\ ~Doing(p, "recvMsg", "request", y) /\ ~Doing(p, "listen", "started", y)
                /\ ~Doing(p, "started", "started", y)
  BY <1>5, BeginsNothing
<1>10. /\ engine[p].started => ~engine'[p].listening /\ ~engine'[p].started
       /\ ~engine[p].started => engine'[p] = engine[p]
  BY DEF StopEngineDoes, Off
<1>20. SockInv(p)'
  BY <1>1, <1>2, <1>3, <1>4, <1>7, <1>8, <1>9, <1>11, <1>6, <1>10 DEF PeerFacts, JobRules, Says, Local, SockInv, Closes, Ended
<1>21. ReadInv(p)'
  BY <1>1, <1>2, <1>3, <1>4, <1>7, <1>8, <1>9, <1>11, <1>6, <1>10 DEF PeerFacts, JobRules, Says, Local, ReadInv, Closes, Ended
<1>22. AskInv(p)'
  BY <1>1, <1>2, <1>3, <1>4, <1>7, <1>8, <1>9, <1>11, <1>6, <1>10 DEF PeerFacts, JobRules, Says, Local, AskInv, Closes, Ended
<1>23. PlaceInv(p)'
  BY <1>1, <1>2, <1>3, <1>4, <1>7, <1>8, <1>9, <1>11, <1>6, <1>10 DEF PeerFacts, JobRules, Says, Local, PlaceInv, Closes, Ended
<1>24. ConnInv(p)'
  BY <1>1, <1>2, <1>3, <1>4, <1>7, <1>8, <1>9, <1>11, <1>6, <1>10 DEF PeerFacts, JobRules, Says, Local, ConnInv, Closes, Ended
<1>25. EngineInv(p)'
  BY <1>1, <1>2, <1>3, <1>4, <1>7, <1>8, <1>9, <1>11, <1>6, <1>10 DEF PeerFacts, JobRules, Says, Local, SockInv, ReadInv, AskInv, PlaceInv, ConnInv, EngineInv, WindowInv, Closes, Ended
<1>26. WindowInv(p)'
  BY <1>1, <1>2, <1>3, <1>4, <1>7, <1>8, <1>9, <1>11, <1>6, <1>10 DEF PeerFacts, JobRules, Says, Local, WindowInv, Closes, Ended
<1>27. TlsInv(p)'
  <2>1. \A r \in Peers : r # p => Same(r) /\ key'[r] = key[r]
    BY DEF StopEngineDoes, Untouched, SameKey
  <2>2. /\ \A d \in DOMAIN links : To(d) = p => Taken(d)' = Taken(d)
        /\ \A d \in DOMAIN links' : To(d)' = p => d \in DOMAIN links
    BY <1>3, LinksStay DEF StopEngineDoes, TypeOK
  <2>3. status[p] = "tls" /\ Uses(p) /\ Adopts(p, sock[p]) => Adopts(p, sock[p])'
    BY <1>2, <1>9
  <2>4. status[p] = "tls" /\ ~Uses(p) /\ sock[p] = Nobody /\ ~Begun(p) /\ ~Resets(p) /\ ui[p] = "idle" =>
           ~Begun(p)' /\ ~Resets(p)' /\ ui'[p] = "idle"
    BY <1>1, <1>2, <1>3, <1>4, <1>7, <1>8, <1>9, <1>11, <1>6, <1>10 DEF PeerFacts, JobRules, Says, Local, PlaceInv, Closes, Ended
  <2> QED
    BY <1>3, <1>9, <1>22, <2>1, <2>2, <2>3, <2>4, TlsSelf DEF Local
<1> QED
  BY <1>20, <1>21, <1>22, <1>23, <1>24, <1>25, <1>26, <1>27 DEF Local
=============================================================================
