--------------------------- MODULE FileMsgBuilder ---------------------------
(***************************************************************************)
(* The message builder of one sender thread (FileMsgBuilder.cpp): a state  *)
(* machine that getStream() advances by one message.  A builder is a       *)
(* record; every operator returns the builder it leaves and the message it *)
(* builds, so that any number of senders can own one.                      *)
(*                                                                         *)
(* Abstractions.  A file is a model value with a sequence of leaves: a     *)
(* plain file has one, a folder the regular files findAllLeafFiles finds   *)
(* below it (perhaps none).  A leaf has a size in bytes and either opens   *)
(* for reading or does not.  The data of a block is the range of bytes of  *)
(* the leaf it was read from.  Sizes and contents do not change while the  *)
(* program runs.                                                           *)
(***************************************************************************)
EXTENDS Integers, Sequences

CONSTANTS
    Files,        \* what a request can name: plain files and folders
    Folders,      \* those for which FileSystemUtils::isDirectory holds
    Leaves,       \* regular files on the sender's disk
    LeavesOf,     \* [Files -> Seq(Leaves)]
    Size,         \* [Leaves -> Nat], FileSystemUtils::getFileSize
    FolderSize,   \* [Folders -> Nat], FileSystemUtils::calculateFolderSize
    Readable,     \* the leaves an input stream opens for
    BlockData,    \* bytes of data in a full block: file_block_size - HEADER_SIZE
    NoFile,       \* no file has been given to the builder yet
    NoLeaf        \* file_reader is null or not open

ASSUME BuilderAssumption ==
    /\ Folders \subseteq Files
    /\ LeavesOf \in [Files -> Seq(Leaves)]
    /\ \A f \in Files \ Folders : Len(LeavesOf[f]) = 1
    /\ Size \in [Leaves -> Nat]
    /\ FolderSize \in [Folders -> Nat]
    /\ Readable \subseteq Leaves
    /\ BlockData \in Nat \ {0}
    /\ NoFile \notin Files
    /\ NoLeaf \notin Leaves

States == {"Default", "Header", "Block", "End", "Cancel"}

Smaller(a, b) == IF a < b THEN a ELSE b

-----------------------------------------------------------------------------
(* Messages *)

NoMsg == [type |-> "none"]

Message ==
    {[type |-> "file_end"], [type |-> "file_canceled"]}
      \cup [type : {"file_header"}, id : Files \ Folders, total : Nat]
      \cup [type : {"dir_header"}, id : Folders, total : Nat]
      \cup [type : {"dir_item_header"}, id : Files, leaf : Leaves, total : Nat]
      \cup [type : {"block"}, id : Files, leaf : Leaves, from : Nat, len : Nat]

-----------------------------------------------------------------------------
(* The builder's fields *)

NewBuilder ==
    [ file |-> NoFile, state |-> "Default", folder |-> FALSE, isEnd |-> FALSE,
      items |-> << >>, index |-> 0, reader |-> NoLeaf, pos |-> 0,
      total |-> 0, sent |-> 0, dirTotal |-> 0, dirSent |-> 0 ]

Builder ==
    [ file : Files \cup {NoFile}, state : States, folder : BOOLEAN,
      isEnd : BOOLEAN, items : Seq(Leaves), index : Nat,
      reader : Leaves \cup {NoLeaf}, pos : Nat,
      total : Nat, sent : Nat, dirTotal : Nat, dirSent : Nat ]

\* setFileInfo: the id and the path change, the progress of an earlier file
\* that was left unfinished does not.
SetFileInfo(b, f) == [b EXCEPT !.file = f]

Open(b, leaf) ==
    [b EXCEPT !.reader = IF leaf \in Readable THEN leaf ELSE NoLeaf, !.pos = 0]

\* Mutant: a file without bytes is given the Block state too.
AfterHeaderAlwaysBlock(size) == "Block"

AfterHeader(size) == IF size = 0 THEN "End" ELSE "Block"

Result(b, m) == [builder |-> b, msg |-> m]

\* First message of a folder.
BuildDirHeader(b) ==
    Result([b EXCEPT !.state = "Header", !.items = LeavesOf[b.file],
                     !.dirTotal = FolderSize[b.file]],
           [type |-> "dir_header", id |-> b.file, total |-> FolderSize[b.file]])

\* First message of a plain file.  A file that does not open is only logged.
BuildFileHeader(b) ==
    LET leaf == LeavesOf[b.file][1] IN
    Result([Open(b, leaf) EXCEPT !.total = Size[leaf],
                                 !.state = AfterHeader(Size[leaf])],
           [type |-> "file_header", id |-> b.file, total |-> Size[leaf]])

\* Header of the next folder item that opens; items that do not are skipped.
\* When none is left there is no message and the state stays Header.
BuildItemHeader(b) ==
    LET rest == {i \in (b.index + 1)..Len(b.items) : b.items[i] \in Readable} IN
    IF rest = {}
    THEN Result(IF b.index >= Len(b.items) THEN b
                ELSE [b EXCEPT !.index = Len(b.items), !.reader = NoLeaf,
                               !.pos = 0, !.total = 0, !.sent = 0],
                NoMsg)
    ELSE LET next == CHOOSE i \in rest : \A j \in rest : i <= j
             leaf == b.items[next]
         IN  Result([Open(b, leaf) EXCEPT
                        !.index = next,
                        !.sent = IF next > b.index + 1 THEN 0 ELSE @,
                        !.total = Size[leaf],
                        !.state = AfterHeader(Size[leaf])],
                    [type |-> "dir_item_header", id |-> b.file, leaf |-> leaf,
                     total |-> Size[leaf]])

BuildHeader(b) ==
    IF b.state = "Default"
    THEN IF b.folder THEN BuildDirHeader(b) ELSE BuildFileHeader(b)
    ELSE IF b.folder THEN BuildItemHeader(b) ELSE Result(b, NoMsg)

-----------------------------------------------------------------------------

\* In a folder file_sended_size stays 0, so only a short read ends an item.
BuildBlock(b) ==
    LET ready == Smaller(b.total - b.sent, BlockData)
        read  == Smaller(ready, Size[b.reader] - b.pos)
        sent  == IF b.folder THEN b.sent ELSE b.sent + read
    IN  IF b.total > 0 /\ ready > 0 /\ b.reader # NoLeaf
        THEN Result([b EXCEPT !.pos = @ + read,
                              !.sent = sent,
                              !.dirSent = IF b.folder THEN @ + read ELSE @,
                              !.state = IF read < ready \/ sent >= b.total
                                        THEN "End" ELSE @],
                    [type |-> "block", id |-> b.file, leaf |-> b.reader,
                     from |-> b.pos, len |-> read])
        ELSE Result([b EXCEPT !.state = "End"], NoMsg)

\* Mutant: dir_file_index survives the transfer.
ClearedKeepsIndex(b) ==
    [b EXCEPT !.state = "Default", !.isEnd = TRUE, !.dirSent = 0, !.sent = 0,
              !.reader = NoLeaf, !.pos = 0, !.items = << >>]

Cleared(b) ==
    [b EXCEPT !.state = "Default", !.isEnd = TRUE, !.dirSent = 0, !.sent = 0,
              !.reader = NoLeaf, !.pos = 0, !.index = 0, !.items = << >>]

\* The End branch of getStream once no folder item is left, with buildEnd.
BuildEnd(b) ==
    Result([Cleared(b) EXCEPT !.dirTotal = IF b.folder THEN 0 ELSE @,
                              !.total = IF b.folder THEN @ ELSE 0],
           [type |-> "file_end"])

BuildCanceled(b) == Result(Cleared(b), [type |-> "file_canceled"])

\* Mutant: the check for the Default state is dropped.
CancelSendingAlways(b) == [b EXCEPT !.state = "Cancel"]

\* A cancel is ignored between two transfers.
CancelSending(b) ==
    IF b.state # "Default" THEN [b EXCEPT !.state = "Cancel"] ELSE b

\* Mutant: off by one, the last item is left out.
MoreItemsButLast(b) == b.folder /\ b.index + 1 < Len(b.items)

\* dir_file_index <= dir_items.size() - 1 is a comparison of size_t: with no
\* items the right-hand side wraps to the largest size_t.
MoreItems(b) == b.folder /\ (b.items = << >> \/ b.index < Len(b.items))

GetStream(b) ==
    CASE b.isEnd -> Result([b EXCEPT !.isEnd = FALSE], NoMsg)
      [] ~b.isEnd /\ b.state = "Default" ->
            BuildHeader([b EXCEPT !.folder = b.file \in Folders])
      [] ~b.isEnd /\ b.state = "Header" -> BuildHeader(b)
      [] ~b.isEnd /\ b.state = "Block" -> BuildBlock(b)
      [] ~b.isEnd /\ b.state = "End" ->
            IF MoreItems(b)
            THEN BuildHeader([b EXCEPT !.state = "Header", !.sent = 0,
                                       !.total = 0, !.reader = NoLeaf, !.pos = 0])
            ELSE BuildEnd(b)
      [] ~b.isEnd /\ b.state = "Cancel" -> BuildCanceled(b)

-----------------------------------------------------------------------------

Percent(done, all) ==
    IF all = 0 THEN 0 ELSE (Smaller(done, all) * 100 + all \div 2) \div all

\* Mutant: a folder's progress is that of its present item.
CalculateProgressOfItem(b) ==
    IF b.folder THEN Percent(b.pos, b.dirTotal) ELSE Percent(b.sent, b.total)

CalculateProgress(b) ==
    IF b.folder THEN Percent(b.dirSent, b.dirTotal) ELSE Percent(b.sent, b.total)

\* The percentage getStream returns beside the message: the progress before
\* the block is read, 100 once the stream is over, 0 otherwise.
StreamProgress(b) ==
    CASE b.isEnd -> 100
      [] ~b.isEnd /\ b.state \in {"Block", "End"} -> CalculateProgress(b)
      [] OTHER -> 0

=============================================================================
