----------------------------- MODULE FileParser -----------------------------
(***************************************************************************)
(* The parser of one file connection (FileParser.cpp): what the receiver   *)
(* does with each message a sender's builder made.  A parser is a record;  *)
(* the received leaves live on a disk shared by all connections, because   *)
(* every parser writes below GlobalStatusManager::absolute_tmp_dir.        *)
(*                                                                         *)
(* A stored byte <<l, k>> is the k-th byte of leaf l, so that a byte in    *)
(* the wrong place or of the wrong file shows.  A leaf that the receiver   *)
(* cannot create leaves file_stream set but not open: writes are lost.     *)
(***************************************************************************)
EXTENDS FileMsgBuilder

CONSTANTS
    Paths,      \* file names below the receiver's absolute_tmp_dir
    PathOf,     \* [Leaves -> Paths], the name a leaf is stored under
    Writable,   \* the paths an output stream opens for
    Absent,     \* the content of a path that is not on the receiver's disk
    NoPath      \* file_stream is null

ASSUME ParserAssumption ==
    /\ PathOf \in [Leaves -> Paths]
    /\ Writable \subseteq Paths
    /\ NoPath \notin Paths
    /\ Absent \notin Seq(Leaves \X Nat)

NewParser ==
    [ cur |-> NoFile, folder |-> FALSE, dir |-> NoFile,
      stream |-> NoPath, open |-> FALSE, at |-> 0, received |-> 0, total |-> 0 ]

Parser ==
    [ cur : Files \cup {NoFile}, folder : BOOLEAN, dir : Files \cup {NoFile},
      stream : Paths \cup {NoPath}, open : BOOLEAN, at : Nat,
      received : Nat, total : Nat ]

EmptyDisk == [x \in Paths |-> Absent]

\* The events a message makes the parser publish, besides progress.
NoEvent == "none"
Ended == "ended"            \* /file/download_progress with is_end
CancelSeen == "canceled"    \* /file/have_cancel_transit

Outcome(p, d, e) == [parser |-> p, disk |-> d, event |-> e]

-----------------------------------------------------------------------------

\* createOutputFileStream truncates the leaf it opens.
OpenStream(p, x) ==
    [p EXCEPT !.stream = x, !.open = x \in Writable, !.at = 0]

Truncated(d, x) == IF x \in Writable THEN [d EXCEPT ![x] = << >>] ELSE d

\* Mutant: the stream is flushed but not reset.
CloseStreamFlushes(p) == [p EXCEPT !.open = FALSE]

CloseStream(p) == [p EXCEPT !.stream = NoPath, !.open = FALSE, !.at = 0]

OnFileHeader(p, d, m) ==
    LET x == PathOf[LeavesOf[m.id][1]] IN
    Outcome([OpenStream(p, x) EXCEPT !.cur = m.id, !.total = m.total,
                                     !.folder = FALSE],
            Truncated(d, x), NoEvent)

\* The folder's header makes its directories; a stream left open stays open.
OnDirHeader(p, d, m) ==
    Outcome([p EXCEPT !.cur = m.id, !.total = m.total, !.dir = m.id,
                      !.folder = TRUE],
            d, NoEvent)

OnDirItemHeader(p, d, m) ==
    Outcome(IF m.total = 0 THEN CloseStream(p) ELSE OpenStream(p, PathOf[m.leaf]),
            Truncated(d, PathOf[m.leaf]), NoEvent)

OnFileEnd(p, d) ==
    Outcome([CloseStream(p) EXCEPT !.received = 0], d, Ended)

\* Mutant: a folder is treated as the first file below it.
PathsBelowFirst(f) == {PathOf[LeavesOf[f][1]]}

PathsBelow(f) == {PathOf[LeavesOf[f][i]] : i \in DOMAIN LeavesOf[f]}

\* With a stream open, the whole directory or the file is deleted; without
\* one nothing is.
OnFileCancel(p, d) ==
    LET gone == PathsBelow(IF p.folder THEN p.dir ELSE p.cur) IN
    Outcome([CloseStream(p) EXCEPT !.received = 0],
            IF p.stream = NoPath THEN d
            ELSE [x \in Paths |-> IF x \in gone THEN Absent ELSE d[x]],
            CancelSeen)

-----------------------------------------------------------------------------

Hole == "hole"

\* Mutant: the stream is opened anew, and truncated, for every block.
WriteAtStart(old, at, m) == [k \in 1..m.len |-> <<m.leaf, m.from + k>>]

\* Writing at an offset beyond the end leaves a hole.
WriteAt(old, at, m) ==
    [k \in 1..(IF at + m.len > Len(old) THEN at + m.len ELSE Len(old)) |->
        IF k \in (at + 1)..(at + m.len) THEN <<m.leaf, m.from + k - at>>
        ELSE IF k <= Len(old) THEN old[k] ELSE Hole]

\* A block without an open stream is dropped.
OnBlock(p, d, m) ==
    IF p.stream = NoPath
    THEN Outcome(p, d, NoEvent)
    ELSE Outcome([p EXCEPT !.at = @ + m.len, !.received = @ + m.len],
                 IF p.open /\ d[p.stream] # Absent
                 THEN [d EXCEPT ![p.stream] = WriteAt(@, p.at, m)]
                 ELSE d,
                 NoEvent)

Parse(p, d, m) ==
    CASE m.type = "file_header" -> OnFileHeader(p, d, m)
      [] m.type = "dir_header" -> OnDirHeader(p, d, m)
      [] m.type = "dir_item_header" -> OnDirItemHeader(p, d, m)
      [] m.type = "block" -> OnBlock(p, d, m)
      [] m.type = "file_end" -> OnFileEnd(p, d)
      [] m.type = "file_canceled" -> OnFileCancel(p, d)

Whole(l) == [k \in 1..Size[l] |-> <<l, k>>]

=============================================================================
