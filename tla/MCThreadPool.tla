---------------------------- MODULE MCThreadPool ----------------------------
(***************************************************************************)
(* Small instances of the thread pool.                                     *)
(***************************************************************************)
EXTENDS ThreadPoolProps, TLC

CONSTANTS t1, t2, t3, w1, w2, w3, w4

\* Tasks are interchangeable; threads are told apart by their names.
MCSymmetry == Permutations(Tasks)

\* Constraint: the pool has not been closed.
Open == dpc = "open"

=============================================================================
