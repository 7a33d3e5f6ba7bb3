---------------------------- MODULE FramingProps ----------------------------
(***************************************************************************)
(* What the framing of the control connection has to do.                   *)
(***************************************************************************)
EXTENDS Framing

Channel == INSTANCE MessageChannel
    WITH accepted <- sent, sound <- (damage = {})

\* The control connection implements a channel that delivers whole messages,
\* each at most once, in the order their frames were begun, and none is
\* skipped until the stream was damaged: two writers have mixed their frames,
\* a full buffer has cut one off, or the receiver saw half a magic number
\* (OuterMsgBuilder::build, sendMsg, delegateRecv).
ImplementsChannel == Channel!Spec

\* The stream of frames is damaged only if it was sent damaged or a magic
\* number arrived in two pieces; a receiver that is told of the end of an
\* undamaged stream has handed over every message but those of which a broken
\* connection has lost a byte, wherever the pieces were cut that recv returned
\* and wherever the connection broke (delegateRecv, dealRecvError).
ToldAfterAll ==
    told /\ damage = {} =>
        \A i \in DOMAIN sent :
            i \in ToSet(delivered) \/ \E c \in ToSet(lost) : c.msg = sent[i]

\* Refuted: "the peer has closed normally", says dealRecvError of ECONNRESET
\* (OuterMsgParser.cpp:41), which is what a receiver sees of a connection that
\* broke and lost messages.
ToldOfClose == told => lost = << >>

\* A message whose frame was begun is delivered, unless the stream is damaged
\* or a peer ends the connection.
Delivers ==
    \A m \in Messages :
        m \in ToSet(sent) ~>
            \/ \E i \in DOMAIN delivered : sent[delivered[i]] = m
            \/ damage # {} \/ ~running \/ closed

=============================================================================
