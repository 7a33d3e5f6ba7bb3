---------------------------- MODULE MCFileList ----------------------------
(***************************************************************************)
(* Small instances of the file lists.                                      *)
(***************************************************************************)
EXTENDS FileListProps, TLC

CONSTANTS a, b, f, g

\* Each peer has a file; and one has both.
OwnerOfEach == (f :> a @@ g :> b)
OwnerOfTwo == (f :> a @@ g :> a)

\* Constraints: at most one thing gets in the way, and it is not a task that
\* overtakes another, a list that was not announced, an id of before the
\* session or work of a session that is over; and a list that was not
\* announced, nothing else.
Orderly ==
    /\ Cardinality(mishaps) <= 1
    /\ mishaps \cap {"order", "unsynced", "stale", "late"} = {}
OnlyUnsynced == mishaps \subseteq {"unsynced"}
=============================================================================
