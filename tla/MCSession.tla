----------------------------- MODULE MCSession ------------------------------
(***************************************************************************)
(* Small instances of the control connection.                              *)
(***************************************************************************)
EXTENDS SessionProps, TLC

CONSTANTS a, b, visitor

OneWay == {<<a, b>>}
WithVisitor == {<<a, b>>, <<visitor, a>>}

\* What is explored: a second session until it ends, and a behaviour in which an
\* end met a beginning, or a request was lost, until a session comes about.
Explored ==
    \/ /\ Undisturbed
       /\ Len(links) = 2 => \A p \in Peers : ~Ending(p)
    \/ /\ mishaps \in {{"beginning"}, {"request"}}
       /\ \A p \in Peers : engine[p] = Off /\ ~asked[p] /\ ui[p] # "connected"

\* Nothing but accepts of requests that were taken back.
OnlyCancels == mishaps \subseteq {"accept"}

\* Nothing but the requests of visitor to a while a and b are connected.
OnlyVisits ==
    /\ mishaps \subseteq {"busy"}
    /\ ui[visitor] # "idle" => connected[a] /\ connected[b]

---------------------------------------------------------------------------
\* Refuted: CHANGELOG.md:49 promises that a broken connection is noticed and cleaned up
\* after.  The accept of a request that was taken back starts a session that no
\* one ends: CancelConnRequest resets the driver and nothing else.
CancelAgreed == Settled /\ OnlyCancels => AllAgree

\* TcpDriver.cpp:317 says that TLS requests are only taken while one is waited
\* for.  The peer that made the connection never stops waiting, and a visitor's
\* exchange replaces the key of its session.
KeyKept ==
    OnlyVisits =>
        \A p, q \in Peers :
            /\ connected[p] /\ todo[p] = EmptyBag
            /\ connected[q] /\ todo[q] = EmptyBag
            /\ IsLink(sock[p]) /\ sock[p] = sock[q]
            => key[p] = key[q]
=============================================================================
