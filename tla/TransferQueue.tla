---------------------------- MODULE TransferQueue ----------------------------
(***************************************************************************)
(* What the file engine promises about requests, without threads, builders *)
(* or connections: they are handed out in the order they arrived, each to  *)
(* at most one worker and at most once; a request can be withdrawn only    *)
(* while it waits, with every other waiting request for its file; and only *)
(* the worker that holds a request declares it completed, once.            *)
(***************************************************************************)
EXTENDS Integers

CONSTANTS Workers, Requests, Files, FileOf, NoRequest

VARIABLES
    waiting,    \* requests not handed out yet
    turn,       \* the order in which they arrived
    arrived,    \* requests that have ever been made
    holder,     \* the request each worker works on
    completed   \* requests declared completed

vars == <<waiting, turn, arrived, holder, completed>>

Init ==
    /\ waiting = {}
    /\ turn = [r \in Requests |-> 0]
    /\ arrived = {}
    /\ holder = [w \in Workers |-> NoRequest]
    /\ completed = {}

Arrive(r) ==
    /\ r \notin arrived
    /\ arrived' = arrived \cup {r}
    /\ waiting' = waiting \cup {r}
    /\ turn' = [turn EXCEPT ![r] = turn'[r]]
    /\ \A q \in waiting : turn[q] < turn'[r]
    /\ UNCHANGED <<holder, completed>>

Withdraw(f) ==
    /\ waiting' = {r \in waiting : FileOf[r] # f}
    /\ UNCHANGED <<turn, arrived, holder, completed>>

HandOut(w, r) ==
    /\ holder[w] = NoRequest
    /\ r \in waiting
    /\ \A q \in waiting \ {r} : turn[r] < turn[q]
    /\ waiting' = waiting \ {r}
    /\ holder' = [holder EXCEPT ![w] = r]
    /\ UNCHANGED <<turn, arrived, completed>>

Complete(w) ==
    /\ holder[w] \in Requests \ completed
    /\ completed' = completed \cup {holder[w]}
    /\ UNCHANGED <<waiting, turn, arrived, holder>>

Release(w) ==
    /\ holder[w] # NoRequest
    /\ holder' = [holder EXCEPT ![w] = NoRequest]
    /\ UNCHANGED <<waiting, turn, arrived, completed>>

Next ==
    \/ \E r \in Requests : Arrive(r)
    \/ \E f \in Files : Withdraw(f)
    \/ \E w \in Workers : \/ \E r \in Requests : HandOut(w, r)
                          \/ Complete(w)
                          \/ Release(w)

Spec == Init /\ [][Next]_vars

=============================================================================
