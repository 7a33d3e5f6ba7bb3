------------------------------ MODULE Framing -------------------------------
(***************************************************************************)
(* One direction of the control connection: OuterMsgBuilder's frames,      *)
(* TcpDriver::sendMsg, called by any number of pool threads, and           *)
(* OuterMsgParser::delegateRecv in the peer's receiver thread.             *)
(*                                                                         *)
(* A frame is a sequence of cells, one per byte: the first two of a frame  *)
(* are the magic number, the first HeaderSize hold its length, the others  *)
(* the initialisation vector, the digest and the encrypted message.  Of a  *)
(* cell only the frame it belongs to and its place there matter.  A byte   *)
(* inside a frame is taken not to look like the magic number.              *)
(*                                                                         *)
(* The receiver thread makes its socket non-blocking, and the socket is    *)
(* the one sendMsg writes to: a send may take a part of the frame, or fail *)
(* when the buffers are full, which ends sendMsg.  No lock keeps two calls *)
(* of sendMsg apart.                                                       *)
(***************************************************************************)
EXTENDS Naturals, Sequences, FiniteSets, SequencesExt

CONSTANTS
    Messages,    \* each is sent at most once
    Size,        \* [Messages -> number of cells after the header]
    HeaderSize,  \* sizeof(Header)
    DumpSize,    \* sizeof(dump_buffer)
    BufferSize,  \* cells the connection holds, sent and not received
    Writers,     \* pool threads that call sendMsg
    WrongSizes   \* the lengths a header put together from two frames may show

ASSUME FramingAssumption ==
    /\ Size \in [Messages -> Nat \ {0}]
    /\ HeaderSize \in Nat /\ HeaderSize >= 2
    /\ DumpSize \in Nat \ {0}
    /\ BufferSize \in Nat \ {0}
    /\ WrongSizes \subseteq Nat

VARIABLES
    out,      \* what each call of sendMsg still has to send
    wire,     \* sent and not received
    closed,   \* nothing can be sent any more: the sending peer has closed its
              \* socket, or the connection is broken
    broken,   \* the connection was reset or lost
    pc,       \* where delegateRecv stands: peek, header or payload
    got,      \* buffer or receive_msg, as far as it is filled
    need,     \* payload_length
    running   \* recv_running of the receiving peer

\* History.
VARIABLES
    sent,       \* the messages in the order their first byte was sent
    delivered,  \* places in sent of the messages handed to JsonParser
    damage,     \* what has happened to the stream of frames: a header was
                \* missed, a frame cut off, or two frames mixed
    lost,       \* the cells that the broken connection took with it
    told        \* dcc_cb was called

writerVars == <<out, sent>>
readerVars == <<pc, got, need, running, delivered, told>>
vars == <<out, wire, closed, broken, pc, got, need, running, sent, delivered,
          damage, lost, told>>

Init ==
    /\ out = [w \in Writers |-> << >>]
    /\ wire = << >> /\ closed = FALSE /\ broken = FALSE
    /\ pc = "peek" /\ got = << >> /\ need = 0 /\ running = TRUE
    /\ sent = << >> /\ delivered = << >> /\ told = FALSE
    /\ damage = {} /\ lost = << >>

Least(a, b) == IF a < b THEN a ELSE b

---------------------------------------------------------------------------
(* The sender. *)

Cell(m, i) == [msg |-> m, at |-> i]

\* OuterMsgBuilder::build.
Frame(m) == [i \in 1 .. HeaderSize + Size[m] |-> Cell(m, i)]

MidFrame(w) == out[w] # << >> /\ out[w][1].at > 1

\* sendMsg builds the frame ...
SendMsg(w, m) ==
    /\ ~closed
    /\ out[w] = << >>
    /\ m \notin ToSet(sent) /\ \A v \in Writers : out[v] # Frame(m)
    /\ out' = [out EXCEPT ![w] = Frame(m)]
    /\ UNCHANGED <<wire, closed, broken, damage, lost, sent, readerVars>>

\* ... and sends as much as the buffers take, until all of it is sent ...
SendPart(w) ==
    LET room == BufferSize - Len(wire)
        n == Least(room, Len(out[w]))
    IN  /\ ~closed
        /\ out[w] # << >>
        /\ room > 0
        /\ wire' = wire \o SubSeq(out[w], 1, n)
        /\ out' = [out EXCEPT ![w] = SubSeq(@, n + 1, Len(@))]
        /\ sent' = IF MidFrame(w) THEN sent ELSE Append(sent, out[w][1].msg)
        /\ damage' = IF \E v \in Writers \ {w} : MidFrame(v)
                     THEN damage \cup {"mixed"} ELSE damage
        /\ UNCHANGED <<closed, broken, lost, readerVars>>

\* ... or a send fails: nothing else is sent of this frame.
SendFails(w) ==
    /\ out[w] # << >>
    /\ closed \/ Len(wire) = BufferSize
    /\ out' = [out EXCEPT ![w] = << >>]
    /\ damage' = IF MidFrame(w) THEN damage \cup {"cut"} ELSE damage
    /\ UNCHANGED <<wire, closed, broken, lost, sent, readerVars>>

\* The sending peer's resetConnection closes the socket, by onDisconnect say,
\* whoever is sending on it.
Close ==
    /\ ~closed
    /\ closed' = TRUE
    /\ damage' = IF \E w \in Writers : MidFrame(w)
                 THEN damage \cup {"cut"} ELSE damage
    /\ UNCHANGED <<out, wire, broken, lost, sent, readerVars>>

\* The connection is reset or lost, perhaps after the peer has closed it: what
\* is on its way arrives up to some byte and no further.
Break ==
    /\ ~broken
    /\ broken' = TRUE /\ closed' = TRUE
    /\ \E n \in 0 .. Len(wire) :
          /\ wire' = SubSeq(wire, 1, n)
          /\ lost' = SubSeq(wire, n + 1, Len(wire))
    /\ damage' = IF \E w \in Writers : MidFrame(w)
                 THEN damage \cup {"cut"} ELSE damage
    /\ UNCHANGED <<out, sent, readerVars>>

---------------------------------------------------------------------------
(* The receiver. *)

Receive(n) == wire' = SubSeq(wire, n + 1, Len(wire))

\* What the first cells look like when seen bytes have arrived.  The second
\* byte of peek_buffer, when only one has, is what the stack held.
LooksLikeMagic(seen, stack) ==
    /\ wire[1].at = 1
    /\ IF seen = 2 THEN wire[2].at = 2 ELSE stack

Peeks == {s \in {1, 2} : s <= Len(wire)} \X BOOLEAN

PeekHeader ==
    /\ running /\ pc = "peek"
    /\ \E p \in Peeks : LooksLikeMagic(p[1], p[2])
    /\ pc' = "header" /\ got' = << >>
    /\ UNCHANGED <<writerVars, wire, closed, broken, need, running, delivered, damage,
                   lost, told>>

\* Anything else is dumped, up to DumpSize bytes at a time.
Dump ==
    /\ running /\ pc = "peek"
    /\ \E p \in Peeks : ~LooksLikeMagic(p[1], p[2])
    /\ \E n \in 1 .. Least(DumpSize, Len(wire)) :
          /\ Receive(n)
          /\ damage' = IF \E i \in 1..n : wire[i].at = 1
                       THEN damage \cup {"missed"} ELSE damage
    /\ UNCHANGED <<writerVars, closed, broken, lost, readerVars>>

\* Mutant: one byte more than the header says.
LengthInPlusOne(header) ==
    IF \E m \in Messages : header = SubSeq(Frame(m), 1, HeaderSize)
    THEN {Size[header[1].msg] + 1} ELSE WrongSizes

\* payload_length, read from a header.
LengthIn(header) ==
    IF \E m \in Messages : header = SubSeq(Frame(m), 1, HeaderSize)
    THEN {Size[header[1].msg]} ELSE WrongSizes

\* parse, verifyAndDecrypt and JsonParser::parse: only a payload that is whole
\* passes the digest; of another one the JSON parser throws, delegateRecv is
\* left and called again.
HandOver(payload) ==
    delivered' =
        IF \E i \in DOMAIN sent :
              payload = SubSeq(Frame(sent[i]), HeaderSize + 1, Len(Frame(sent[i])))
        THEN Append(delivered, CHOOSE i \in DOMAIN sent : sent[i] = payload[1].msg)
        ELSE delivered

\* Mutant: every recv asks for a whole header.
ReadHeaderWhole ==
    /\ running /\ pc = "header"
    /\ \E n \in 1 .. Least(HeaderSize, Len(wire)) :
          LET header == got \o SubSeq(wire, 1, n) IN
          /\ Receive(n)
          /\ IF Len(header) < HeaderSize
             THEN got' = header /\ UNCHANGED <<pc, need>>
             ELSE \E length \in LengthIn(SubSeq(header, 1, HeaderSize)) :
                     /\ got' = << >> /\ need' = length
                     /\ pc' = IF length = 0 THEN "peek" ELSE "payload"
    /\ UNCHANGED <<writerVars, closed, broken, running, delivered, damage, lost, told>>

ReadHeader ==
    /\ running /\ pc = "header"
    /\ \E n \in 1 .. Least(HeaderSize - Len(got), Len(wire)) :
          LET header == got \o SubSeq(wire, 1, n) IN
          /\ Receive(n)
          /\ IF Len(header) < HeaderSize
             THEN got' = header /\ UNCHANGED <<pc, need>>
             ELSE \E length \in LengthIn(header) :
                     /\ got' = << >> /\ need' = length
                     /\ pc' = IF length = 0 THEN "peek" ELSE "payload"
    /\ UNCHANGED <<writerVars, closed, broken, running, delivered, damage, lost, told>>

ReadPayload ==
    /\ running /\ pc = "payload"
    /\ \E n \in 1 .. Least(need - Len(got), Len(wire)) :
          LET payload == got \o SubSeq(wire, 1, n) IN
          /\ Receive(n)
          /\ IF Len(payload) < need
             THEN got' = payload /\ UNCHANGED <<pc, need, delivered>>
             ELSE /\ HandOver(payload)
                  /\ pc' = "peek" /\ got' = << >> /\ need' = 0
    /\ UNCHANGED <<writerVars, closed, broken, running, damage, lost, told>>

\* Mutant: the end is reported as soon as the peer has closed.
EndOfStreamAtOnce ==
    /\ running /\ closed
    /\ told' = TRUE /\ running' = FALSE
    /\ UNCHANGED <<writerVars, wire, closed, broken, pc, got, need, delivered, damage,
                   lost>>

\* recv returns 0 in either loop or for the peek: dcc_cb, whose
\* resetConnection clears recv_running.
EndOfStream ==
    /\ running /\ wire = << >> /\ closed
    /\ told' = TRUE /\ running' = FALSE
    /\ UNCHANGED <<writerVars, wire, closed, broken, pc, got, need, delivered, damage,
                   lost>>

\* select or recv fails, for the peek or in either loop, which throw:
\* dealRecvError calls dcc_cb for ECONNRESET, as for an orderly end; dre_cb for
\* the errors it knows, whose resetConnection clears recv_running; and nothing
\* for another one: delegateRecv is left in mid-frame and called again.
RecvFails ==
    /\ running /\ broken /\ wire = << >>
    /\ \/ told' = TRUE /\ running' = FALSE /\ UNCHANGED <<pc, got, need>>
       \/ running' = FALSE /\ UNCHANGED <<pc, got, need, told>>
       \/ pc' = "peek" /\ got' = << >> /\ need' = 0 /\ UNCHANGED <<running, told>>
    /\ UNCHANGED <<writerVars, wire, closed, broken, delivered, damage, lost>>

\* resetConnection by another thread of the receiving peer.
Stop ==
    /\ running
    /\ running' = FALSE
    /\ UNCHANGED <<writerVars, wire, closed, broken, pc, got, need, delivered, damage,
                   lost, told>>

---------------------------------------------------------------------------
Send(w) == (\E m \in Messages : SendMsg(w, m)) \/ SendPart(w) \/ SendFails(w)
Read == PeekHeader \/ Dump \/ ReadHeader \/ ReadPayload \/ EndOfStream \/ RecvFails

Next == (\E w \in Writers : Send(w)) \/ Close \/ Break \/ Read \/ Stop

\* A thread inside sendMsg goes on, and the receiver's loop with select does.
Fairness ==
    /\ \A w \in Writers : WF_vars(SendPart(w) \/ SendFails(w))
    /\ WF_vars(Read)

Spec == Init /\ [][Next]_vars /\ Fairness

=============================================================================
