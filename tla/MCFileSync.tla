----------------------------- MODULE MCFileSync -----------------------------
(***************************************************************************)
(* Small instances of FileSync.  Which files a run moves is chosen by the  *)
(* set Requests: a request is the file it names, so each file is requested *)
(* at most once.                                                           *)
(***************************************************************************)
EXTENDS FileSyncProps, TLC

CONSTANTS long, exact, empty, tree, bare,
          item1, item0, item2, longLeaf, exactLeaf, emptyLeaf, s1, s2

\* Blocks carry 2 bytes: long needs a short last block, exact and item1
\* fill their blocks, empty and item0 have no bytes, bare has no items.
MCFiles == {long, exact, empty, tree, bare}
MCFolders == {tree, bare}
MCLeaves == {item1, item0, item2, longLeaf, exactLeaf, emptyLeaf}
MCLeavesOf ==
    [f \in MCFiles |->
        CASE f = long -> <<longLeaf>>
          [] f = exact -> <<exactLeaf>>
          [] f = empty -> <<emptyLeaf>>
          [] f = tree -> <<item1, item0, item2>>
          [] f = bare -> << >>]
MCSize ==
    [k \in MCLeaves |->
        CASE k = longLeaf -> 3 [] k = exactLeaf -> 2 [] k = emptyLeaf -> 0
          [] k = item1 -> 2 [] k = item0 -> 0 [] k = item2 -> 1]
MCFolderSize == [f \in MCFolders |-> IF f = tree THEN 3 ELSE 0]
\* The last item of tree does not open.
MCReadable == MCLeaves \ {item2}
MCPathOf == [k \in MCLeaves |-> k]
\* Sender names are interchangeable.
MCSymmetry == Permutations(Senders)

MCFileOf == [r \in Requests |-> r]

=============================================================================
