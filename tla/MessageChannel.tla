-------------------------- MODULE MessageChannel ---------------------------
(***************************************************************************)
(* What the control connection promises to the layers above it: messages   *)
(* are delivered whole and at most once; and in the order they were        *)
(* accepted, without a gap, for as long as the channel is sound.  A        *)
(* channel that is not sound any more may skip messages and change their   *)
(* order; it never alters or repeats one.                                  *)
(***************************************************************************)
EXTENDS Naturals, Sequences

CONSTANT Messages

VARIABLES
    accepted,   \* the messages in the order the channel took them
    delivered,  \* the places in accepted of those it has handed over
    sound       \* nothing was skipped so far

channel == <<accepted, delivered, sound>>

Init ==
    /\ accepted = << >>
    /\ delivered = << >>
    /\ sound = TRUE

Accept(m) ==
    /\ accepted' = Append(accepted, m)
    /\ UNCHANGED <<delivered, sound>>

Deliver(place) ==
    /\ \A i \in DOMAIN delivered : delivered[i] # place
    /\ sound => place = Len(delivered) + 1
    /\ delivered' = Append(delivered, place)
    /\ UNCHANGED <<accepted, sound>>

Fail ==
    /\ sound' = FALSE
    /\ UNCHANGED <<accepted, delivered>>

\* A message may be accepted in the step that damages the channel.
AcceptAndFail(m) ==
    /\ accepted' = Append(accepted, m)
    /\ sound' = FALSE
    /\ UNCHANGED delivered

Next ==
    \/ \E m \in Messages : Accept(m) \/ AcceptAndFail(m)
    \/ \E place \in 1..Len(accepted) : Deliver(place)
    \/ Fail

Spec == Init /\ [][Next]_channel

=============================================================================
