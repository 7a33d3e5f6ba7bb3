---------------------------- MODULE SessionProps ----------------------------
(***************************************************************************)
(* What the control connection has to do.                                  *)
(***************************************************************************)
EXTENDS Session

\* Nothing is left to do but for the users: no handler, no message, no
\* connection to accept, no end of one to notice.
Settled ==
    /\ \A p \in Peers : todo[p] = EmptyBag
    /\ \A p \in Peers, l \in DOMAIN links :
          /\ ~(status[p] = "tls" /\ links[l].to = p /\ ~links[l].taken)
          /\ l \in BagToSet(readers[p]) /\ reading[p] /\ p \in links[l].open =>
                links[l].in[p] = << >> /\ Other(l, p) \in links[l].open
    /\ \A p \in Peers : \A l \in BagToSet(readers[p]) : reading[p] /\ sock[p] = l

\* Nothing has got in the way of a session.
Undisturbed == mishaps = {}

\* The connection that p and its partner both have open and both use.
Live(p) == IsLink(sock[p]) /\ links[sock[p]].open = {p, Other(sock[p], p)}
           /\ sock[Other(sock[p], p)] = sock[p]

AllAgree ==
    \A p \in Peers :
        /\ connected[p] => Live(p) /\ connected[Other(sock[p], p)]
                           /\ ids[p] # ids[Other(sock[p], p)]
                           /\ key[p] = key[Other(sock[p], p)]
        /\ engine[p].started <=> connected[p]
        /\ ui[p] = "connected" <=> connected[p]

---------------------------------------------------------------------------
\* However the messages, the ends of connections and the pool's tasks are
\* ordered, both peers come to the same view of the session: connected both or
\* neither, over the same connection with the same key, numbering files from
\* different ends, with the engine running and the window showing it.
Agreed == Settled /\ Undisturbed => AllAgree

\* A peer whose window is idle takes requests, and none of its threads reads a
\* connection that has ended: a session leaves nothing behind in the driver.
ListensAgain ==
    Settled /\ Undisturbed =>
        \A p \in Peers : ui[p] = "idle" /\ ~asked[p] =>
            status[p] = "waiting" /\ readers[p] = EmptyBag

\* Nobody waits for an answer that cannot come: the request is shown to the
\* other user.
Answerable ==
    Settled /\ Undisturbed =>
        \A p \in Peers : ui[p] = "asking" =>
            asked[partner[p]] /\ partner[partner[p]] = p

\* A connected peer has its senders, if its own engine was started before the
\* peer announced that it listens (see early).
CanSend ==
    Settled /\ Undisturbed /\ early = {} =>
        \A p \in Peers : connected[p] => engine[p].senders
=============================================================================
