--------------------------- MODULE FileSyncProofs ---------------------------
(***************************************************************************)
(* Theorems about FileSync, for every number of senders, requests and      *)
(* files and every bound.                                                  *)
(*                                                                         *)
(* First what one call of the builder or of the parser does, whatever went *)
(* before; then the queue and the threads; then what the threads put on    *)
(* their connections and what arrives.  The theorems of the last part      *)
(* assume that every leaf opens and no folder is empty (AllOpen; the run   *)
(* sync_empty_folder shows what an empty folder does to a builder), and    *)
(* those about the receiver's disk also that no two leaves share a path    *)
(* there (Apart) and no two requests a file (OwnFile).                     *)
(***************************************************************************)
EXTENDS FileSyncProps, TLAPS, WellFoundedInduction, SequenceTheorems

-----------------------------------------------------------------------------
(* What one call of getStream returns and leaves behind                    *)

\* A reader never stands beyond the end of its file.
BuilderOK(b) ==
    /\ b \in Builder
    /\ b.reader \in Leaves => b.pos <= Size[b.reader]

LEMMA NewBuilderOK == BuilderOK(NewBuilder)
  BY BuilderAssumption DEF BuilderOK, NewBuilder, Builder, States

\* A non-empty set of numbers has a least element: the next item that opens.
LEMMA LeastNumber ==
  ASSUME NEW T \in SUBSET Nat, T # {}
  PROVE  \E i \in T : \A j \in T : i <= j
  <1> DEFINE below == {ss \in Nat \X Nat : ss[1] < ss[2]}
  <1>1. IsWellFoundedOn(below, Nat)
    BY NatLessThanWellFounded DEF OpToRel
  <1>2. PICK i \in T : \A j \in T : <<j, i>> \notin below
    <2> HIDE DEF below
    <2> QED
      BY <1>1, WFMin
  <1>3. \A j \in Nat, k \in Nat : <<j, k>> \notin below => ~(j < k)
    OBVIOUS
  <1>4. \A j \in T : ~(j < i)
    BY <1>2, <1>3
  <1>5. \A j \in T : i <= j
    BY <1>4
  <1> QED
    BY <1>5

\* The kinds of message.
LEMMA Messages ==
  ASSUME NEW f \in Files, NEW l \in Leaves, NEW n \in Nat, NEW k \in Nat
  PROVE  /\ f \notin Folders =>
              [type |-> "file_header", id |-> f, total |-> n] \in Message
         /\ f \in Folders =>
              [type |-> "dir_header", id |-> f, total |-> n] \in Message
         /\ [type |-> "dir_item_header", id |-> f, leaf |-> l, total |-> n]
              \in Message
         /\ [type |-> "block", id |-> f, leaf |-> l, from |-> n, len |-> k]
              \in Message
         /\ [type |-> "file_end"] \in Message
         /\ [type |-> "file_canceled"] \in Message
  BY DEF Message

LEMMA OpenOK ==
  ASSUME NEW b, BuilderOK(b), NEW leaf \in Leaves
  PROVE  /\ BuilderOK(Open(b, leaf))
         /\ Open(b, leaf).file = b.file
  <1>1. b \in Builder
    BY DEF BuilderOK
  <1>2. Open(b, leaf) \in Builder /\ Open(b, leaf).file = b.file
    BY <1>1 DEF Open, Builder
  <1>3. Open(b, leaf).pos = 0
    BY <1>1 DEF Open, Builder
  <1> QED
    BY <1>2, <1>3, BuilderAssumption DEF BuilderOK

LEMMA BuildFileHeaderOK ==
  ASSUME NEW b, BuilderOK(b), b.file \in Files \ Folders
  PROVE  /\ BuilderOK(BuildFileHeader(b).builder)
         /\ BuildFileHeader(b).builder.file = b.file
         /\ BuildFileHeader(b).msg \in Message
  <1> DEFINE leaf == LeavesOf[b.file][1]
             open == Open(b, leaf)
  <1>1. leaf \in Leaves /\ Size[leaf] \in Nat
    BY BuilderAssumption
  <1>2. BuilderOK(open) /\ open.file = b.file
    BY <1>1, OpenOK
  <1>3. AfterHeader(Size[leaf]) \in States
    BY DEF AfterHeader, States
  <1> HIDE DEF open
  <1>4. /\ BuildFileHeader(b).builder =
              [open EXCEPT !.total = Size[leaf], !.state = AfterHeader(Size[leaf])]
        /\ BuildFileHeader(b).msg =
              [type |-> "file_header", id |-> b.file, total |-> Size[leaf]]
    BY DEF BuildFileHeader, Result, open
  <1> HIDE DEF leaf
  <1>5. BuildFileHeader(b).msg \in Message
    BY <1>1, <1>4, BuilderAssumption DEF Message
  <1> QED
    BY <1>1, <1>2, <1>3, <1>4, <1>5 DEF BuilderOK, Builder

LEMMA BuildDirHeaderOK ==
  ASSUME NEW b, BuilderOK(b), b.file \in Folders
  PROVE  /\ BuilderOK(BuildDirHeader(b).builder)
         /\ BuildDirHeader(b).builder.file = b.file
         /\ BuildDirHeader(b).msg \in Message
  BY BuilderAssumption
     DEF BuilderOK, Builder, States, BuildDirHeader, Result, Message

LEMMA BuildBlockOK ==
  ASSUME NEW b, BuilderOK(b), b.file \in Files
  PROVE  /\ BuilderOK(BuildBlock(b).builder)
         /\ BuildBlock(b).builder.file = b.file
         /\ BuildBlock(b).msg \in Message \cup {NoMsg}
  <1> DEFINE ready == Smaller(b.total - b.sent, BlockData)
             read == Smaller(ready, Size[b.reader] - b.pos)
             sent == IF b.folder THEN b.sent ELSE b.sent + read
  <1> USE DEF BuilderOK
  <1>1. CASE b.total > 0 /\ ready > 0 /\ b.reader # NoLeaf
    <2>1. /\ b.reader \in Leaves
          /\ Size[b.reader] \in Nat
          /\ ready \in Nat
      BY <1>1, BuilderAssumption DEF Builder, Smaller
    <2>2. /\ read \in Nat
          /\ b.pos + read \in Nat
          /\ b.pos + read <= Size[b.reader]
      <3>1. b.pos \in Nat /\ b.pos <= Size[b.reader]
        BY <2>1 DEF Builder
      <3> HIDE DEF ready
      <3> QED
        BY <2>1, <3>1 DEF Smaller
    <2>3. /\ sent \in Nat
          /\ (IF b.folder THEN b.dirSent + read ELSE b.dirSent) \in Nat
      BY <2>2 DEF Builder
    <2>4. BuildBlock(b).msg =
            [type |-> "block", id |-> b.file, leaf |-> b.reader,
             from |-> b.pos, len |-> read]
      BY <1>1 DEF BuildBlock, Result
    <2>5. BuildBlock(b).builder =
            [b EXCEPT !.pos = b.pos + read,
                      !.sent = sent,
                      !.dirSent = IF b.folder THEN b.dirSent + read ELSE b.dirSent,
                      !.state = IF read < ready \/ sent >= b.total
                                THEN "End" ELSE b.state]
      BY <1>1 DEF BuildBlock, Result
    <2> HIDE DEF ready, read, sent
    <2>6. BuildBlock(b).msg \in Message
      BY <2>1, <2>2, <2>4 DEF Message, Builder
    <2>7. (IF read < ready \/ sent >= b.total THEN "End" ELSE b.state) \in States
      BY DEF Builder, States
    <2>8. b \in Builder
      OBVIOUS
    <2>9. /\ BuildBlock(b).builder \in Builder
          /\ BuildBlock(b).builder.reader = b.reader
          /\ BuildBlock(b).builder.pos = b.pos + read
          /\ BuildBlock(b).builder.file = b.file
      <3> DEFINE pos == b.pos + read
                 dirSent == IF b.folder THEN b.dirSent + read ELSE b.dirSent
                 state == IF read < ready \/ sent >= b.total THEN "End" ELSE b.state
      <3>1. pos \in Nat /\ sent \in Nat /\ dirSent \in Nat /\ state \in States
        BY <2>2, <2>3, <2>7
      <3>2. BuildBlock(b).builder = [b EXCEPT !.pos = pos, !.sent = sent,
                                             !.dirSent = dirSent, !.state = state]
        BY <2>5
      <3> HIDE DEF pos, dirSent, state
      <3>3. BuildBlock(b).builder \in Builder
        BY <2>8, <3>1, <3>2 DEF Builder
      <3>4. /\ BuildBlock(b).builder.reader = b.reader
            /\ BuildBlock(b).builder.pos = pos
            /\ BuildBlock(b).builder.file = b.file
        BY <2>8, <3>2 DEF Builder
      <3> QED
        BY <3>3, <3>4 DEF pos
    <2> QED
      BY <2>2, <2>6, <2>9
  <1>2. CASE ~(b.total > 0 /\ ready > 0 /\ b.reader # NoLeaf)
    <2>1. BuildBlock(b) = Result([b EXCEPT !.state = "End"], NoMsg)
      BY <1>2 DEF BuildBlock
    <2>2. b \in Builder
      OBVIOUS
    <2>3. LET c == [b EXCEPT !.state = "End"]
          IN  /\ c \in Builder
              /\ c.reader = b.reader /\ c.pos = b.pos /\ c.file = b.file
      BY <2>2 DEF Builder, States
    <2>4. /\ BuildBlock(b).builder = [b EXCEPT !.state = "End"]
          /\ BuildBlock(b).msg = NoMsg
      BY <2>1 DEF Result
    <2> QED
      BY <2>3, <2>4
  <1> QED
    BY <1>1, <1>2

LEMMA BuildItemHeaderOK ==
  ASSUME NEW b, BuilderOK(b), b.file \in Files
  PROVE  /\ BuilderOK(BuildItemHeader(b).builder)
         /\ BuildItemHeader(b).builder.file = b.file
         /\ BuildItemHeader(b).msg \in Message \cup {NoMsg}
  <1> DEFINE rest == {i \in (b.index + 1)..Len(b.items) : b.items[i] \in Readable}
             next == CHOOSE i \in rest : \A j \in rest : i <= j
             leaf == b.items[next]
             open == Open(b, leaf)
             sent == IF next > b.index + 1 THEN 0 ELSE open.sent
  <1>1. b \in Builder
    BY DEF BuilderOK
  <1>2. b.index \in Nat /\ b.items \in Seq(Leaves) /\ Len(b.items) \in Nat
    BY <1>1, LenProperties DEF Builder
  <1>3. CASE rest = {}
    <2> DEFINE done == [b EXCEPT !.index = Len(b.items), !.reader = NoLeaf,
                                 !.pos = 0, !.total = 0, !.sent = 0]
    <2>1. done \in Builder /\ done.reader = NoLeaf /\ done.file = b.file
      BY <1>1, <1>2 DEF Builder
    <2> HIDE DEF done
    <2>2. BuilderOK(done)
      BY <2>1, BuilderAssumption DEF BuilderOK
    <2>3. BuildItemHeader(b) =
            Result(IF b.index >= Len(b.items) THEN b ELSE done, NoMsg)
      BY <1>3 DEF BuildItemHeader, done
    <2> QED
      BY <2>1, <2>2, <2>3 DEF Result
  <1>4. CASE rest # {}
    <2>1. next \in rest
      <3>1. rest \in SUBSET Nat
        BY <1>2
      <3> HIDE DEF rest
      <3>2. \E i \in rest : \A j \in rest : i <= j
        BY <1>4, <3>1, LeastNumber
      <3> QED
        BY <3>2
    <2>2. next \in Nat /\ next \in 1..Len(b.items)
      BY <1>2, <2>1
    <2> HIDE DEF next
    <2>3. leaf \in Leaves /\ Size[leaf] \in Nat
      BY <1>2, <2>2, ElementOfSeq, BuilderAssumption
    <2> HIDE DEF leaf
    <2>4. BuilderOK(open) /\ open \in Builder /\ open.file = b.file
      BY <2>3, OpenOK DEF BuilderOK
    <2> HIDE DEF open
    <2>5. AfterHeader(Size[leaf]) \in States
      BY DEF AfterHeader, States
    <2>6. sent \in Nat
      BY <2>4 DEF Builder
    <2>7. /\ BuildItemHeader(b).builder =
               [open EXCEPT !.index = next, !.sent = sent, !.total = Size[leaf],
                            !.state = AfterHeader(Size[leaf])]
          /\ BuildItemHeader(b).msg =
               [type |-> "dir_item_header", id |-> b.file, leaf |-> leaf,
                total |-> Size[leaf]]
      BY <1>4 DEF BuildItemHeader, Result, open, leaf, next
    <2> HIDE DEF sent
    <2>8. BuildItemHeader(b).msg \in Message
      BY <2>3, <2>7 DEF Message
    <2>9. /\ BuildItemHeader(b).builder \in Builder
          /\ BuildItemHeader(b).builder.reader = open.reader
          /\ BuildItemHeader(b).builder.pos = open.pos
          /\ BuildItemHeader(b).builder.file = open.file
      <3> DEFINE total == Size[leaf]
                 state == AfterHeader(Size[leaf])
      <3>1. BuildItemHeader(b).builder =
              [open EXCEPT !.index = next, !.sent = sent, !.total = total,
                           !.state = state]
        BY <2>7
      <3>2. total \in Nat /\ state \in States
        BY <2>3, <2>5
      <3> HIDE DEF total, state
      <3> QED
        BY <2>2, <2>4, <2>6, <3>1, <3>2 DEF Builder
    <2> QED
      BY <2>4, <2>8, <2>9 DEF BuilderOK
  <1> QED
    BY <1>3, <1>4

LEMMA ClearedOK ==
  ASSUME NEW b, BuilderOK(b)
  PROVE  /\ BuilderOK(Cleared(b))
         /\ Cleared(b) \in Builder
         /\ Cleared(b).reader = NoLeaf
         /\ Cleared(b).file = b.file
  <1>1. b \in Builder
    BY DEF BuilderOK
  <1>2. << >> \in Seq(Leaves)
    OBVIOUS
  <1>3. /\ Cleared(b) \in Builder
        /\ Cleared(b).reader = NoLeaf
        /\ Cleared(b).file = b.file
    BY <1>1, <1>2 DEF Cleared, Builder, States
  <1> QED
    BY <1>3, BuilderAssumption DEF BuilderOK

LEMMA BuildEndOK ==
  ASSUME NEW b, BuilderOK(b)
  PROVE  /\ BuilderOK(BuildEnd(b).builder)
         /\ BuildEnd(b).builder.file = b.file
         /\ BuildEnd(b).msg \in Message
  <1> DEFINE c == Cleared(b)
             dirTotal == IF b.folder THEN 0 ELSE c.dirTotal
             total == IF b.folder THEN c.total ELSE 0
  <1>1. c \in Builder /\ c.reader = NoLeaf /\ c.file = b.file
    BY ClearedOK
  <1>2. BuildEnd(b).builder = [c EXCEPT !.dirTotal = dirTotal, !.total = total]
    BY DEF BuildEnd, Result
  <1> HIDE DEF c
  <1>3. dirTotal \in Nat /\ total \in Nat
    BY <1>1 DEF Builder
  <1> HIDE DEF dirTotal, total
  <1>4. /\ BuildEnd(b).builder \in Builder
        /\ BuildEnd(b).builder.reader = NoLeaf
        /\ BuildEnd(b).builder.file = b.file
    BY <1>1, <1>2, <1>3 DEF Builder
  <1> QED
    BY <1>4, BuilderAssumption DEF BuilderOK, BuildEnd, Result, Message

LEMMA CancelSendingOK ==
  ASSUME NEW b, BuilderOK(b)
  PROVE  /\ BuilderOK(CancelSending(b))
         /\ CancelSending(b).file = b.file
  <1>1. b \in Builder
    BY DEF BuilderOK
  <1>2. /\ CancelSending(b) \in Builder
        /\ CancelSending(b).reader = b.reader
        /\ CancelSending(b).pos = b.pos
        /\ CancelSending(b).file = b.file
    BY <1>1 DEF CancelSending, Builder, States
  <1> QED
    BY <1>2 DEF BuilderOK

LEMMA BuildHeaderOK ==
  ASSUME NEW b, BuilderOK(b), b.file \in Files,
         b.state = "Default" => (b.folder <=> b.file \in Folders)
  PROVE  /\ BuilderOK(BuildHeader(b).builder)
         /\ BuildHeader(b).builder.file = b.file
         /\ BuildHeader(b).msg \in Message \cup {NoMsg}
  <1>1. CASE b.state = "Default" /\ b.folder
    BY <1>1, BuildDirHeaderOK DEF BuildHeader
  <1>2. CASE b.state = "Default" /\ ~b.folder
    BY <1>2, BuildFileHeaderOK DEF BuildHeader
  <1>3. CASE b.state # "Default" /\ b.folder
    BY <1>3, BuildItemHeaderOK DEF BuildHeader
  <1>4. CASE b.state # "Default" /\ ~b.folder
    <2>1. BuildHeader(b) = Result(b, NoMsg)
      BY <1>4 DEF BuildHeader
    <2> QED
      BY <2>1 DEF Result
  <1> QED
    BY <1>1, <1>2, <1>3, <1>4

\* Whatever state the builder is in, even one left over from another file,
\* getStream returns a message or none and leaves a builder for the same file.
THEOREM GetStreamOK ==
  ASSUME NEW b, BuilderOK(b), b.file \in Files
  PROVE  /\ BuilderOK(GetStream(b).builder)
         /\ GetStream(b).builder.file = b.file
         /\ GetStream(b).msg \in Message \cup {NoMsg}
  <1>0. b \in Builder /\ b.state \in States /\ b.isEnd \in BOOLEAN
    BY DEF BuilderOK, Builder
  <1>1. CASE b.isEnd
    <2> DEFINE c == [b EXCEPT !.isEnd = FALSE]
    <2>1. c \in Builder /\ c.reader = b.reader /\ c.pos = b.pos /\ c.file = b.file
      BY <1>0 DEF Builder
    <2> HIDE DEF c
    <2>2. GetStream(b) = Result(c, NoMsg)
      BY <1>1 DEF GetStream, c
    <2> QED
      BY <2>1, <2>2 DEF Result, BuilderOK
  <1>2. CASE ~b.isEnd /\ b.state = "Default"
    <2> DEFINE isDir == b.file \in Folders
               c == [b EXCEPT !.folder = isDir]
    <2>0. isDir \in BOOLEAN
      OBVIOUS
    <2> HIDE DEF isDir
    <2>1. /\ c \in Builder /\ c.folder = isDir
          /\ c.reader = b.reader /\ c.pos = b.pos /\ c.file = b.file
      BY <1>0, <2>0 DEF Builder
    <2> HIDE DEF c
    <2>2. BuilderOK(c)
      BY <2>1 DEF BuilderOK
    <2>3. GetStream(b) = BuildHeader(c)
      BY <1>2 DEF GetStream, c, isDir
    <2>4. c.folder <=> c.file \in Folders
      BY <2>1 DEF isDir
    <2> QED
      BY <2>1, <2>2, <2>3, <2>4, BuildHeaderOK
  <1>3. CASE ~b.isEnd /\ b.state = "Header"
    BY <1>3, BuildHeaderOK DEF GetStream
  <1>4. CASE ~b.isEnd /\ b.state = "Block"
    BY <1>4, BuildBlockOK DEF GetStream
  <1>5. CASE ~b.isEnd /\ b.state = "End"
    <2>1. CASE MoreItems(b)
      <3> DEFINE c == [b EXCEPT !.state = "Header", !.sent = 0, !.total = 0,
                                !.reader = NoLeaf, !.pos = 0]
      <3>1. /\ c \in Builder /\ c.state = "Header"
            /\ c.reader = NoLeaf /\ c.file = b.file
        BY <1>0 DEF Builder, States
      <3> HIDE DEF c
      <3>2. BuilderOK(c)
        BY <3>1, BuilderAssumption DEF BuilderOK
      <3>3. GetStream(b) = BuildHeader(c)
        BY <1>5, <2>1 DEF GetStream, c
      <3> QED
        BY <3>1, <3>2, <3>3, BuildHeaderOK
    <2>2. CASE ~MoreItems(b)
      BY <1>5, <2>2, BuildEndOK DEF GetStream
    <2> QED
      BY <2>1, <2>2
  <1>6. CASE ~b.isEnd /\ b.state = "Cancel"
    <2>1. GetStream(b) = BuildCanceled(b)
      BY <1>6 DEF GetStream
    <2> QED
      BY <2>1, ClearedOK DEF BuildCanceled, Result, Message
  <1> QED
    BY <1>0, <1>1, <1>2, <1>3, <1>4, <1>5, <1>6 DEF States

-----------------------------------------------------------------------------
(* When every leaf opens and no folder is empty, a stream always reaches    *)
(* its end, and leaves a builder that is ready for the next file.           *)

AllOpen ==
    /\ Readable = Leaves
    /\ \A f \in Folders : LeavesOf[f] # << >>

\* The builder between two messages.
Consistent(b) ==
    /\ b.isEnd => b.state = "Default"
    /\ b.state = "Default" => b.sent = 0 /\ b.index = 0
    /\ b.state = "Header" => b.folder /\ b.sent = 0 /\ b.index < Len(b.items)
    /\ b.state = "Block" => b.reader \in Leaves /\ b.sent < b.total
    /\ b.state \in {"Block", "End"} /\ b.folder => b.items # << >>
    /\ b.state # "Cancel"

\* A stream goes on until file_end or file_canceled has been sent.
Continues(b) ==
    /\ Consistent(GetStream(b).builder)
    /\ GetStream(b).msg # NoMsg

LEMMA NotEmpty ==
  ASSUME NEW S, NEW q \in Seq(S)
  PROVE  q # << >> <=> Len(q) > 0
  BY EmptySeq, LenProperties

LEMMA FileHeaderContinues ==
  ASSUME NEW b, BuilderOK(b), AllOpen, b.file \in Files \ Folders, b.sent = 0,
         ~b.folder, ~b.isEnd
  PROVE  /\ Consistent(BuildFileHeader(b).builder)
         /\ BuildFileHeader(b).msg # NoMsg
  <1> DEFINE leaf == LeavesOf[b.file][1]
  <1>1. leaf \in Leaves /\ Size[leaf] \in Nat /\ leaf \in Readable
    BY BuilderAssumption DEF AllOpen
  <1>2. b \in Builder
    BY DEF BuilderOK
  <1> HIDE DEF leaf
  <1>3. LET c == [[b EXCEPT !.reader = leaf, !.pos = 0] EXCEPT
                     !.total = Size[leaf], !.state = AfterHeader(Size[leaf])]
        IN  /\ BuildFileHeader(b).builder = c
            /\ c.reader = leaf /\ c.total = Size[leaf] /\ c.sent = b.sent
            /\ c.state = AfterHeader(Size[leaf])
            /\ c.folder = b.folder /\ c.isEnd = b.isEnd
    BY <1>1, <1>2 DEF BuildFileHeader, Result, Open, leaf, Builder
  <1>4. BuildFileHeader(b).msg # NoMsg
    BY DEF BuildFileHeader, Result, NoMsg
  <1> QED
    BY <1>1, <1>3, <1>4 DEF Consistent, AfterHeader

LEMMA DirHeaderContinues ==
  ASSUME NEW b, BuilderOK(b), AllOpen, b.file \in Folders,
         b.sent = 0, b.index = 0, b.folder, ~b.isEnd
  PROVE  /\ Consistent(BuildDirHeader(b).builder)
         /\ BuildDirHeader(b).msg # NoMsg
  <1> DEFINE items == LeavesOf[b.file]
             c == [b EXCEPT !.state = "Header", !.items = items,
                            !.dirTotal = FolderSize[b.file]]
  <1>1. items \in Seq(Leaves) /\ Len(items) \in Nat /\ Len(items) > 0
    BY BuilderAssumption, NotEmpty, LenProperties DEF AllOpen
  <1>2. b \in Builder
    BY DEF BuilderOK
  <1> HIDE DEF items
  <1>3. /\ c.state = "Header" /\ c.items = items /\ c.sent = b.sent
        /\ c.index = b.index /\ c.folder = b.folder /\ c.isEnd = b.isEnd
    BY <1>1, <1>2 DEF Builder
  <1>4. BuildDirHeader(b).builder = c /\ BuildDirHeader(b).msg # NoMsg
    BY DEF BuildDirHeader, Result, NoMsg, items
  <1> HIDE DEF c
  <1> QED
    BY <1>1, <1>3, <1>4 DEF Consistent

LEMMA ItemHeaderContinues ==
  ASSUME NEW b, BuilderOK(b), AllOpen, b.folder, ~b.isEnd, b.sent = 0,
         b.index < Len(b.items)
  PROVE  /\ Consistent(BuildItemHeader(b).builder)
         /\ BuildItemHeader(b).msg # NoMsg
  <1> DEFINE rest == {i \in (b.index + 1)..Len(b.items) : b.items[i] \in Readable}
             next == CHOOSE i \in rest : \A j \in rest : i <= j
             leaf == b.items[next]
  <1>1. b \in Builder /\ b.index \in Nat /\ b.items \in Seq(Leaves)
        /\ Len(b.items) \in Nat
    BY LenProperties DEF BuilderOK, Builder
  <1>2. b.index + 1 \in rest
    BY <1>1, ElementOfSeq DEF AllOpen
  <1>3. next \in rest
    <2>1. rest \in SUBSET Nat /\ rest # {}
      BY <1>1, <1>2
    <2> HIDE DEF rest
    <2>2. \E i \in rest : \A j \in rest : i <= j
      BY <2>1, LeastNumber
    <2> QED
      BY <2>2
  <1>4. next \in Nat /\ leaf \in Leaves /\ Size[leaf] \in Nat /\ leaf \in Readable
    BY <1>1, <1>3, ElementOfSeq, BuilderAssumption
  <1>5. b.items # << >>
    BY <1>1, NotEmpty
  <1>6. /\ BuildItemHeader(b).builder =
             [[b EXCEPT !.reader = leaf, !.pos = 0] EXCEPT
                !.index = next, !.sent = IF next > b.index + 1 THEN 0 ELSE @,
                !.total = Size[leaf], !.state = AfterHeader(Size[leaf])]
        /\ BuildItemHeader(b).msg # NoMsg
    <2>1. Open(b, leaf) = [b EXCEPT !.reader = leaf, !.pos = 0]
      BY <1>4 DEF Open
    <2>2. BuildItemHeader(b) =
            Result([Open(b, leaf) EXCEPT
                      !.index = next,
                      !.sent = IF next > b.index + 1 THEN 0 ELSE @,
                      !.total = Size[leaf], !.state = AfterHeader(Size[leaf])],
                   [type |-> "dir_item_header", id |-> b.file, leaf |-> leaf,
                    total |-> Size[leaf]])
      BY <1>2 DEF BuildItemHeader
    <2> HIDE DEF next, leaf
    <2> QED
      BY <2>1, <2>2 DEF Result, NoMsg
  <1> HIDE DEF next, leaf
  <1>7. LET c == [[b EXCEPT !.reader = leaf, !.pos = 0] EXCEPT
                    !.index = next, !.sent = IF next > b.index + 1 THEN 0 ELSE @,
                    !.total = Size[leaf], !.state = AfterHeader(Size[leaf])]
        IN  /\ c.reader = leaf /\ c.total = Size[leaf] /\ c.sent = 0
            /\ c.state = AfterHeader(Size[leaf]) /\ c.items = b.items
            /\ c.folder = b.folder /\ c.isEnd = b.isEnd
    BY <1>1, <1>4 DEF Builder
  <1> QED
    BY <1>4, <1>5, <1>6, <1>7 DEF Consistent, AfterHeader

LEMMA BlockContinues ==
  ASSUME NEW b, BuilderOK(b), b.state = "Block", ~b.isEnd, b.reader \in Leaves,
         b.sent < b.total, b.folder => b.items # << >>
  PROVE  /\ Consistent(BuildBlock(b).builder)
         /\ BuildBlock(b).msg # NoMsg
  <1> DEFINE left == b.total - b.sent
             ready == Smaller(left, BlockData)
             read  == Smaller(ready, Size[b.reader] - b.pos)
             sent  == IF b.folder THEN b.sent ELSE b.sent + read
             state == IF read < ready \/ sent >= b.total THEN "End" ELSE b.state
             c == [b EXCEPT !.pos = b.pos + read, !.sent = sent,
                            !.dirSent = IF b.folder THEN b.dirSent + read
                                                    ELSE b.dirSent,
                            !.state = state]
  <1>1. b \in Builder
    BY DEF BuilderOK
  <1>2. b.sent \in Nat /\ b.total \in Nat /\ left \in Nat \ {0}
    BY <1>1 DEF Builder
  <1>3. ready > 0 /\ b.total > 0 /\ b.reader # NoLeaf
    BY <1>2, BuilderAssumption DEF Smaller
  <1>4. BuildBlock(b).builder = c /\ BuildBlock(b).msg # NoMsg
    BY <1>3 DEF BuildBlock, Result, NoMsg
  <1> HIDE DEF ready, read
  <1>5. state \in {"Block", "End"} /\ (state = "Block" => sent < b.total)
    <2>1. sent \in Int
      <3>1. read \in Int
        BY <1>1, <1>2, BuilderAssumption DEF Smaller, read, ready, Builder
      <3> QED
        BY <1>2, <3>1
    <2> HIDE DEF sent
    <2> QED
      BY <1>2, <2>1
  <1> HIDE DEF state, sent
  <1>6. /\ c.state = state /\ c.sent = sent /\ c.reader = b.reader
        /\ c.total = b.total /\ c.items = b.items /\ c.folder = b.folder
        /\ c.isEnd = b.isEnd
    BY <1>1 DEF Builder
  <1> HIDE DEF c
  <1> QED
    BY <1>4, <1>5, <1>6 DEF Consistent

LEMMA ClearedConsistent ==
  ASSUME NEW b, BuilderOK(b)
  PROVE  /\ Consistent(Cleared(b)) /\ Consistent(BuildEnd(b).builder)
  <1>1. b \in Builder /\ Cleared(b) \in Builder
    BY ClearedOK DEF BuilderOK
  <1>2. /\ Cleared(b).state = "Default" /\ Cleared(b).isEnd
        /\ Cleared(b).sent = 0 /\ Cleared(b).index = 0
    BY <1>1 DEF Cleared, Builder
  <1>3. Consistent(Cleared(b))
    BY <1>2 DEF Consistent
  <1> DEFINE c == Cleared(b)
             dirTotal == IF b.folder THEN 0 ELSE c.dirTotal
             total == IF b.folder THEN c.total ELSE 0
             e == [c EXCEPT !.dirTotal = dirTotal, !.total = total]
  <1>4. BuildEnd(b).builder = e
    BY DEF BuildEnd, Result
  <1>5. c \in Builder /\ c.state = "Default" /\ c.isEnd /\ c.sent = 0 /\ c.index = 0
    BY <1>1, <1>2
  <1> HIDE DEF c, dirTotal, total
  <1>6. e.state = "Default" /\ e.isEnd /\ e.sent = 0 /\ e.index = 0
    BY <1>5 DEF Builder
  <1> HIDE DEF e
  <1> QED
    BY <1>3, <1>4, <1>6 DEF Consistent

LEMMA EndContinues ==
  ASSUME NEW b, BuilderOK(b), AllOpen, b.state = "End", ~b.isEnd,
         b.folder => b.items # << >>
  PROVE  Continues(b)
  <1>1. b \in Builder /\ b.items \in Seq(Leaves) /\ b.folder \in BOOLEAN
    BY DEF BuilderOK, Builder
  <1>2. CASE MoreItems(b)
    <2> DEFINE c == [b EXCEPT !.state = "Header", !.sent = 0, !.total = 0,
                              !.reader = NoLeaf, !.pos = 0]
    <2>1. b.folder /\ b.index < Len(b.items)
      BY <1>2 DEF MoreItems
    <2>2. /\ c \in Builder /\ c.reader = NoLeaf /\ c.state = "Header"
          /\ c.sent = 0 /\ c.index = b.index /\ c.items = b.items
          /\ c.folder = b.folder /\ c.isEnd = b.isEnd
      BY <1>1 DEF Builder, States
    <2>3. GetStream(b) = BuildHeader(c)
      BY <1>2 DEF GetStream
    <2> HIDE DEF c
    <2>4. BuilderOK(c)
      BY <2>2, BuilderAssumption DEF BuilderOK
    <2>5. BuildHeader(c) = BuildItemHeader(c)
      BY <2>1, <2>2 DEF BuildHeader
    <2>6. Consistent(BuildItemHeader(c).builder) /\ BuildItemHeader(c).msg # NoMsg
      BY <2>1, <2>2, <2>4, ItemHeaderContinues
    <2> QED
      BY <2>3, <2>5, <2>6 DEF Continues
  <1>3. CASE ~MoreItems(b)
    <2>1. GetStream(b) = BuildEnd(b)
      BY <1>3 DEF GetStream
    <2>2. BuildEnd(b).msg # NoMsg
      BY DEF BuildEnd, Result, NoMsg
    <2> QED
      BY <2>1, <2>2, ClearedConsistent DEF Continues
  <1> QED
    BY <1>2, <1>3

LEMMA CancelContinues ==
  ASSUME NEW b, BuilderOK(b), b.state = "Cancel", ~b.isEnd
  PROVE  Continues(b)
  <1>1. GetStream(b) = BuildCanceled(b)
    BY DEF GetStream
  <1>2. BuildCanceled(b).builder = Cleared(b) /\ BuildCanceled(b).msg # NoMsg
    BY DEF BuildCanceled, Result, NoMsg
  <1> QED
    BY <1>1, <1>2, ClearedConsistent DEF Continues

\* If every leaf opens and no folder is empty, a stream that has not been ended
\* by file_end or file_canceled goes on with a message, whatever is sent.
THEOREM StreamContinues ==
  ASSUME NEW b, BuilderOK(b), Consistent(b), AllOpen, b.file \in Files, ~b.isEnd
  PROVE  Continues(b)
  <1>0. b \in Builder /\ b.state \in States
    BY DEF BuilderOK, Builder
  <1>1. CASE b.state = "Default"
    <2> DEFINE isDir == b.file \in Folders
               c == [b EXCEPT !.folder = isDir]
    <2>0. isDir \in BOOLEAN
      OBVIOUS
    <2> HIDE DEF isDir
    <2>1. /\ c \in Builder /\ c.reader = b.reader /\ c.pos = b.pos
          /\ c.file = b.file /\ c.state = b.state /\ (c.folder <=> isDir)
          /\ c.sent = b.sent /\ c.index = b.index /\ c.isEnd = b.isEnd
      BY <1>0, <2>0 DEF Builder
    <2>2. GetStream(b) = BuildHeader(c)
      BY <1>1 DEF GetStream, isDir
    <2> HIDE DEF c
    <2>3. BuilderOK(c)
      BY <2>1 DEF BuilderOK
    <2>4. c.sent = 0 /\ c.index = 0 /\ c.state = "Default" /\ ~c.isEnd
      BY <1>1, <2>1 DEF Consistent
    <2>5. CASE isDir
      <3>1. BuildHeader(c) = BuildDirHeader(c)
        BY <2>1, <2>4, <2>5 DEF BuildHeader
      <3>2. c.file \in Folders
        BY <2>1, <2>5 DEF isDir
      <3> QED
        BY <2>1, <2>2, <2>3, <2>4, <2>5, <3>1, <3>2, DirHeaderContinues
        DEF Continues
    <2>6. CASE ~isDir
      <3>1. BuildHeader(c) = BuildFileHeader(c)
        BY <2>1, <2>4, <2>6 DEF BuildHeader
      <3>2. c.file \in Files \ Folders
        BY <2>1, <2>6 DEF isDir
      <3> QED
        BY <2>1, <2>2, <2>3, <2>4, <2>6, <3>1, <3>2, FileHeaderContinues
        DEF Continues
    <2> QED
      BY <2>5, <2>6
  <1>2. CASE b.state = "Header"
    <2>1. b.folder /\ b.sent = 0 /\ b.index < Len(b.items)
      BY <1>2 DEF Consistent
    <2>2. GetStream(b) = BuildItemHeader(b)
      BY <1>2, <2>1 DEF GetStream, BuildHeader
    <2> QED
      BY <2>1, <2>2, ItemHeaderContinues DEF Continues
  <1>3. CASE b.state = "Block"
    <2>1. b.reader \in Leaves /\ b.sent < b.total /\ (b.folder => b.items # << >>)
      BY <1>3 DEF Consistent
    <2>2. GetStream(b) = BuildBlock(b)
      BY <1>3 DEF GetStream
    <2> QED
      BY <1>3, <2>1, <2>2, BlockContinues DEF Continues
  <1>4. CASE b.state = "End"
    <2>1. b.folder => b.items # << >>
      BY <1>4 DEF Consistent
    <2> QED
      BY <1>4, <2>1, EndContinues
  <1> QED
    BY <1>0, <1>1, <1>2, <1>3, <1>4 DEF Consistent, States

\* The call after the last message leaves the builder as before the first.
LEMMA EndOfStream ==
  ASSUME NEW b, BuilderOK(b), Consistent(b), b.isEnd
  PROVE  /\ Consistent(GetStream(b).builder)
         /\ GetStream(b).builder.state = "Default"
         /\ ~GetStream(b).builder.isEnd
  <1>1. b \in Builder /\ b.state = "Default" /\ b.sent = 0 /\ b.index = 0
    BY DEF BuilderOK, Consistent
  <1> DEFINE c == [b EXCEPT !.isEnd = FALSE]
  <1>2. GetStream(b).builder = c
    BY DEF GetStream, Result
  <1>3. c.state = "Default" /\ ~c.isEnd /\ c.sent = 0 /\ c.index = 0
    BY <1>1 DEF Builder
  <1> HIDE DEF c
  <1> QED
    BY <1>2, <1>3 DEF Consistent

\* The same when a cancel comes before the message.
THEOREM StreamContinuesCanceled ==
  ASSUME NEW b, BuilderOK(b), Consistent(b), AllOpen, b.file \in Files, ~b.isEnd
  PROVE  Continues(CancelSending(b))
  <1> DEFINE c == [b EXCEPT !.state = "Cancel"]
  <1>1. CASE b.state = "Default"
    BY <1>1, StreamContinues DEF CancelSending
  <1>2. CASE b.state # "Default"
    <2>1. CancelSending(b) = c
      BY <1>2 DEF CancelSending
    <2>2. BuilderOK(c)
      BY <2>1, CancelSendingOK
    <2>3. b \in Builder
      BY DEF BuilderOK
    <2>4. c.state = "Cancel" /\ ~c.isEnd
      BY <2>3 DEF Builder
    <2> HIDE DEF c
    <2> QED
      BY <2>1, <2>2, <2>4, CancelContinues
  <1> QED
    BY <1>1, <1>2

-----------------------------------------------------------------------------
(* What the messages say.  A stage is how far a connection has come with a *)
(* file: item counts the leaves begun, at the bytes of the last of them.   *)
(* Every message takes the stage before it to the stage after it.          *)

Stage == [file : Files \cup {NoFile}, item : Nat, at : Nat]

At(f, i, k) == [file |-> f, item |-> i, at |-> k]

\* Between two files.
Rest == At(NoFile, 0, 0)

StageOK(a) ==
    /\ a \in Stage
    /\ a.file \in Files
    /\ a.file \notin Folders => a.item = 1
    /\ a.item <= Len(LeavesOf[a.file])
    /\ a.item > 0 => a.at <= Size[LeavesOf[a.file][a.item]]

\* The leaf begun last has been sent to its end.
ItemSent(a) == a.item > 0 => a.at = Size[LeavesOf[a.file][a.item]]

SendsFileHeader(a, m, b) ==
    /\ a = Rest
    /\ \E f \in Files \ Folders, n \in Nat :
          /\ m = [type |-> "file_header", id |-> f, total |-> n]
          /\ b = At(f, 1, 0)

SendsDirHeader(a, m, b) ==
    /\ a = Rest
    /\ \E f \in Folders, n \in Nat :
          /\ m = [type |-> "dir_header", id |-> f, total |-> n]
          /\ b = At(f, 0, 0)

SendsItemHeader(a, m, b) ==
    /\ StageOK(a) /\ a.file \in Folders
    /\ ItemSent(a)
    /\ a.item < Len(LeavesOf[a.file])
    /\ b = At(a.file, a.item + 1, 0)
    /\ \E l \in Leaves :
          /\ l = LeavesOf[a.file][a.item + 1]
          /\ m = [type |-> "dir_item_header", id |-> a.file, leaf |-> l,
                  total |-> Size[l]]

SendsBlock(a, m, b) ==
    /\ StageOK(a)
    /\ a.item > 0
    /\ \E l \in Leaves, n \in Nat :
          /\ l = LeavesOf[a.file][a.item]
          /\ Size[l] > 0 /\ a.at + n <= Size[l]
          /\ m = [type |-> "block", id |-> a.file, leaf |-> l, from |-> a.at,
                  len |-> n]
          /\ b = At(a.file, a.item, a.at + n)

SendsEnd(a, m, b) ==
    /\ StageOK(a)
    /\ ItemSent(a)
    /\ a.item = Len(LeavesOf[a.file])
    /\ m = [type |-> "file_end"]
    /\ b = Rest

SendsCanceled(a, m, b) ==
    /\ StageOK(a)
    /\ m = [type |-> "file_canceled"]
    /\ b = Rest

\* The message m takes the stage a to the stage b.
Sends(a, m, b) ==
    \/ SendsFileHeader(a, m, b) \/ SendsDirHeader(a, m, b)
    \/ SendsItemHeader(a, m, b) \/ SendsBlock(a, m, b)
    \/ SendsEnd(a, m, b) \/ SendsCanceled(a, m, b)

\* The builder stands in the leaf begun last.
InItem(b, a) ==
    /\ a.item > 0 /\ a.item <= Len(LeavesOf[b.file])
    /\ b.reader = LeavesOf[b.file][a.item]
    /\ b.total = Size[b.reader]
    /\ b.pos = a.at
    /\ b.state = "End" => a.at = b.total
    /\ b.state = "Block" => b.total > 0 /\ b.sent = IF b.folder THEN 0 ELSE a.at

UnderWay(b, a) ==
    /\ b.file \in Files /\ ~b.isEnd
    /\ b.folder <=> b.file \in Folders
    /\ a \in Stage
    /\ a.file = b.file
    /\ IF b.folder THEN b.items = LeavesOf[b.file] /\ a.item = b.index
                   ELSE a.item = 1
    /\ b.state = "Header" => b.folder /\ a.item = 0
    /\ b.state \in {"Block", "End"} => InItem(b, a)

\* What has been sent has brought the connection to the stage a.
BuilderAt(b, a) == IF b.state = "Default" THEN a = Rest ELSE UnderWay(b, a)

LEMMA StageFields ==
  ASSUME NEW f \in Files \cup {NoFile}, NEW i \in Nat, NEW k \in Nat
  PROVE  /\ At(f, i, k) \in Stage
         /\ At(f, i, k).file = f /\ At(f, i, k).item = i /\ At(f, i, k).at = k
  BY DEF At, Stage

LEMMA RestFields == Rest \in Stage /\ Rest.file = NoFile /\ Rest.file \notin Files
  BY BuilderAssumption DEF Rest, At, Stage

LEMMA SendsStage ==
  ASSUME NEW a, NEW m, NEW b, Sends(a, m, b)
  PROVE  /\ a \in Stage /\ b \in Stage
         /\ a.file # NoFile => StageOK(a) /\ b.file \in {a.file, NoFile}
         /\ a.file = NoFile => a = Rest /\ b.file \in Files
  <1>0. Folders \subseteq Files /\ NoFile \notin Files
    BY BuilderAssumption
  <1>1. CASE SendsFileHeader(a, m, b)
    BY <1>0, <1>1, RestFields, StageFields DEF SendsFileHeader
  <1>2. CASE SendsDirHeader(a, m, b)
    BY <1>0, <1>2, RestFields, StageFields DEF SendsDirHeader
  <1>3. CASE SendsItemHeader(a, m, b)
    <2>1. a.file \in Files /\ a.item \in Nat /\ a \in Stage
      BY <1>3 DEF SendsItemHeader, StageOK, Stage
    <2> QED
      BY <1>0, <1>3, <2>1, StageFields DEF SendsItemHeader
  <1>4. CASE SendsBlock(a, m, b)
    <2>1. a.file \in Files /\ a.item \in Nat /\ a.at \in Nat /\ a \in Stage
      BY <1>4 DEF SendsBlock, StageOK, Stage
    <2> QED
      BY <1>0, <1>4, <2>1, StageFields DEF SendsBlock
  <1>5. CASE SendsEnd(a, m, b) \/ SendsCanceled(a, m, b)
    BY <1>0, <1>5, RestFields DEF SendsEnd, SendsCanceled, StageOK
  <1> QED
    BY <1>1, <1>2, <1>3, <1>4, <1>5 DEF Sends

\* Only the last message leads to rest.
LEMMA NeverRest ==
  ASSUME NEW a, NEW m, NEW e,
         \/ SendsFileHeader(a, m, e) \/ SendsDirHeader(a, m, e)
         \/ SendsItemHeader(a, m, e) \/ SendsBlock(a, m, e)
  PROVE  e.file # NoFile
  <1>1. Folders \subseteq Files /\ NoFile \notin Files
    BY BuilderAssumption
  <1>2. CASE SendsFileHeader(a, m, e)
    BY <1>1, <1>2, StageFields DEF SendsFileHeader
  <1>3. CASE SendsDirHeader(a, m, e)
    BY <1>1, <1>3, StageFields DEF SendsDirHeader
  <1>4. CASE SendsItemHeader(a, m, e)
    <2>1. a.item \in Nat /\ a.file \in Files
      BY <1>4 DEF SendsItemHeader, StageOK, Stage
    <2> QED
      BY <1>1, <1>4, <2>1, StageFields DEF SendsItemHeader
  <1>5. CASE SendsBlock(a, m, e)
    <2>1. a.item \in Nat /\ a.at \in Nat /\ a.file \in Files
      BY <1>5 DEF SendsBlock, StageOK, Stage
    <2> QED
      BY <1>1, <1>5, <2>1, StageFields DEF SendsBlock
  <1> QED
    BY <1>2, <1>3, <1>4, <1>5

LEMMA LeafFacts ==
  ASSUME NEW f \in Files
  PROVE  /\ LeavesOf[f] \in Seq(Leaves) /\ Len(LeavesOf[f]) \in Nat
         /\ \A i \in 1..Len(LeavesOf[f]) : /\ LeavesOf[f][i] \in Leaves
                                           /\ Size[LeavesOf[f][i]] \in Nat
         /\ f \notin Folders => Len(LeavesOf[f]) = 1
  <1>1. LeavesOf[f] \in Seq(Leaves)
    BY BuilderAssumption
  <1>2. Len(LeavesOf[f]) \in Nat
    BY <1>1, LenProperties
  <1>3. \A i \in 1..Len(LeavesOf[f]) : LeavesOf[f][i] \in Leaves
    BY <1>1, ElementOfSeq
  <1> QED
    BY <1>1, <1>2, <1>3, BuilderAssumption

LEMMA FileHeaderSends ==
  ASSUME NEW b \in Builder, AllOpen, b.file \in Files \ Folders, ~b.folder,
         ~b.isEnd, b.sent = 0
  PROVE  /\ Sends(Rest, BuildFileHeader(b).msg, At(b.file, 1, 0))
         /\ BuilderAt(BuildFileHeader(b).builder, At(b.file, 1, 0))
  <1> DEFINE l == LeavesOf[b.file][1]
             a == At(b.file, 1, 0)
  <1>1. l \in Leaves /\ Size[l] \in Nat /\ l \in Readable
        /\ Len(LeavesOf[b.file]) = 1
    BY LeafFacts DEF AllOpen
  <1>2. a \in Stage /\ a.file = b.file /\ a.item = 1 /\ a.at = 0
    BY StageFields
  <1> HIDE DEF l, a
  <1>3. LET c == [[b EXCEPT !.reader = l, !.pos = 0] EXCEPT
                     !.total = Size[l], !.state = AfterHeader(Size[l])]
        IN  /\ BuildFileHeader(b).builder = c
            /\ c.file = b.file /\ c.folder = b.folder /\ c.isEnd = b.isEnd
            /\ c.reader = l /\ c.pos = 0 /\ c.total = Size[l]
            /\ c.sent = b.sent /\ c.state = AfterHeader(Size[l])
    BY <1>1 DEF BuildFileHeader, Result, Open, l, Builder
  <1>4. BuilderAt(BuildFileHeader(b).builder, a)
    BY <1>1, <1>2, <1>3 DEF BuilderAt, UnderWay, InItem, AfterHeader, l
  <1>5. BuildFileHeader(b).msg =
          [type |-> "file_header", id |-> b.file, total |-> Size[l]]
    BY DEF BuildFileHeader, Result, l
  <1>6. SendsFileHeader(Rest, BuildFileHeader(b).msg, a)
    BY <1>1, <1>5 DEF SendsFileHeader, a
  <1> QED
    BY <1>4, <1>6 DEF Sends, a

LEMMA DirHeaderSends ==
  ASSUME NEW b \in Builder, b.file \in Folders, b.folder, ~b.isEnd, b.index = 0
  PROVE  /\ Sends(Rest, BuildDirHeader(b).msg, At(b.file, 0, 0))
         /\ BuilderAt(BuildDirHeader(b).builder, At(b.file, 0, 0))
  <1> DEFINE items == LeavesOf[b.file]
             n == FolderSize[b.file]
             a == At(b.file, 0, 0)
             c == [b EXCEPT !.state = "Header", !.items = items, !.dirTotal = n]
  <1>1. b.file \in Files /\ n \in Nat
    BY BuilderAssumption
  <1>2. a \in Stage /\ a.file = b.file /\ a.item = 0 /\ a.at = 0
    BY <1>1, StageFields
  <1>3. /\ BuildDirHeader(b).builder = c
        /\ BuildDirHeader(b).msg =
             [type |-> "dir_header", id |-> b.file, total |-> n]
    BY DEF BuildDirHeader, Result
  <1> HIDE DEF a, n
  <1>4. SendsDirHeader(Rest, BuildDirHeader(b).msg, a)
    BY <1>1, <1>3 DEF SendsDirHeader, a
  <1>5. BuilderAt(c, a)
    <2> HIDE DEF items
    <2>1. /\ c.file = b.file /\ c.folder = b.folder /\ c.isEnd = b.isEnd
          /\ c.state = "Header" /\ c.items = items /\ c.index = b.index
      BY DEF Builder
    <2> HIDE DEF c
    <2> QED
      BY <1>1, <1>2, <2>1 DEF BuilderAt, UnderWay, items
  <1> QED
    BY <1>3, <1>4, <1>5 DEF Sends, a

\* With every leaf readable, no item is skipped.
LEMMA NextItem ==
  ASSUME NEW q \in Seq(Leaves), NEW k \in Nat, k < Len(q), Readable = Leaves
  PROVE  LET rest == {i \in (k + 1)..Len(q) : q[i] \in Readable}
         IN  /\ rest # {}
             /\ (CHOOSE i \in rest : \A j \in rest : i <= j) = k + 1
  <1> DEFINE rest == {i \in (k + 1)..Len(q) : q[i] \in Readable}
  <1>1. Len(q) \in Nat /\ k + 1 \in rest
    BY LenProperties, ElementOfSeq
  <1>2. \A j \in rest : j \in Nat /\ k + 1 <= j
    BY <1>1
  <1> HIDE DEF rest
  <1> DEFINE least == CHOOSE i \in rest : \A j \in rest : i <= j
  <1>3. least \in rest /\ \A j \in rest : least <= j
    BY <1>1, <1>2
  <1> HIDE DEF least
  <1>4. least = k + 1
    BY <1>1, <1>2, <1>3
  <1> QED
    BY <1>1, <1>4 DEF least, rest

LEMMA ItemHeaderSends ==
  ASSUME NEW b \in Builder, AllOpen, b.file \in Folders, b.folder, ~b.isEnd,
         b.sent = 0, b.items = LeavesOf[b.file], b.index < Len(b.items),
         NEW a, StageOK(a), a.file = b.file, a.item = b.index, ItemSent(a)
  PROVE  LET e == At(b.file, b.index + 1, 0)
         IN  /\ Sends(a, BuildItemHeader(b).msg, e)
             /\ BuilderAt(BuildItemHeader(b).builder, e)
  <1> DEFINE k == b.index + 1
             e == At(b.file, k, 0)
             l == b.items[k]
  <1>1. /\ b.file \in Files /\ b.index \in Nat
        /\ b.items \in Seq(Leaves) /\ Len(b.items) \in Nat
    BY BuilderAssumption, LenProperties DEF Builder
  <1>2. l \in Leaves /\ Size[l] \in Nat /\ l \in Readable /\ k \in Nat /\ k > 0
        /\ k <= Len(b.items)
    BY <1>1, LeafFacts DEF AllOpen
  <1>3. e \in Stage /\ e.file = b.file /\ e.item = k /\ e.at = 0
    BY <1>1, <1>2, StageFields
  <1>4. /\ BuildItemHeader(b).builder =
             [[b EXCEPT !.reader = l, !.pos = 0] EXCEPT
                !.index = k, !.sent = IF k > b.index + 1 THEN 0 ELSE b.sent,
                !.total = Size[l], !.state = AfterHeader(Size[l])]
        /\ BuildItemHeader(b).msg =
             [type |-> "dir_item_header", id |-> b.file, leaf |-> l,
              total |-> Size[l]]
    <2> DEFINE rest == {i \in (b.index + 1)..Len(b.items) :
                          b.items[i] \in Readable}
               least == CHOOSE i \in rest : \A j \in rest : i <= j
    <2>1. rest # {} /\ least = k
      BY <1>1, NextItem DEF AllOpen
    <2> HIDE DEF rest
    <2>2. BuildItemHeader(b) =
            Result([Open(b, b.items[least]) EXCEPT
                      !.index = least,
                      !.sent = IF least > b.index + 1 THEN 0 ELSE @,
                      !.total = Size[b.items[least]],
                      !.state = AfterHeader(Size[b.items[least]])],
                   [type |-> "dir_item_header", id |-> b.file,
                    leaf |-> b.items[least], total |-> Size[b.items[least]]])
      BY <2>1 DEF BuildItemHeader, rest
    <2> HIDE DEF least
    <2> DEFINE o == [b EXCEPT !.reader = l, !.pos = 0]
    <2>3. o.sent = b.sent
      BY DEF Builder
    <2> HIDE DEF k
    <2>4. Open(b, l) = o
      BY <1>2 DEF Open
    <2> HIDE DEF o
    <2>5. BuildItemHeader(b) =
            Result([o EXCEPT !.index = k,
                             !.sent = IF k > b.index + 1 THEN 0 ELSE b.sent,
                             !.total = Size[l], !.state = AfterHeader(Size[l])],
                   [type |-> "dir_item_header", id |-> b.file, leaf |-> l,
                    total |-> Size[l]])
      BY <2>1, <2>2, <2>3, <2>4
    <2> QED
      BY <2>5 DEF Result, o
  <1> HIDE DEF e
  <1>5. SendsItemHeader(a, BuildItemHeader(b).msg, e)
    BY <1>2, <1>4 DEF SendsItemHeader, e
  <1>6. BuilderAt(BuildItemHeader(b).builder, e)
    <2> DEFINE sent == IF k > b.index + 1 THEN 0 ELSE b.sent
    <2>0. sent = 0
      OBVIOUS
    <2> HIDE DEF k, l, sent
    <2> DEFINE c == [[b EXCEPT !.reader = l, !.pos = 0] EXCEPT
                       !.index = k, !.sent = sent,
                       !.total = Size[l], !.state = AfterHeader(Size[l])]
    <2>1. /\ c.file = b.file /\ c.folder = b.folder /\ c.isEnd = b.isEnd
          /\ c.items = b.items /\ c.index = k /\ c.sent = 0
          /\ c.reader = l /\ c.pos = 0 /\ c.total = Size[l]
          /\ c.state = AfterHeader(Size[l])
      BY <2>0 DEF Builder
    <2>2. BuildItemHeader(b).builder = c
      BY <1>4 DEF sent, k
    <2> HIDE DEF c
    <2>3. /\ e.item > 0 /\ e.item <= Len(LeavesOf[c.file])
          /\ c.reader = LeavesOf[c.file][e.item]
      BY <1>2, <1>3, <2>1 DEF l
    <2>4. InItem(c, e) /\ c.state \in {"Block", "End"}
      BY <1>2, <1>3, <2>1, <2>3 DEF InItem, AfterHeader
    <2> QED
      BY <1>1, <1>3, <2>1, <2>2, <2>4 DEF BuilderAt, UnderWay
  <1> QED
    BY <1>5, <1>6 DEF Sends, e

LEMMA UnderWayStage ==
  ASSUME NEW b, BuilderOK(b), Consistent(b), b.state # "Default",
         NEW a, UnderWay(b, a)
  PROVE  StageOK(a)
  <1>1. /\ a \in Stage /\ a.file = b.file /\ b.file \in Files
        /\ b.folder <=> b.file \in Folders
        /\ ~b.folder => a.item = 1
    BY DEF UnderWay
  <1>2. CASE b.state = "Header"
    BY <1>1, <1>2, LeafFacts DEF UnderWay, StageOK
  <1>3. CASE b.state \in {"Block", "End"}
    <2>1. InItem(b, a)
      BY <1>3 DEF UnderWay
    <2>2. LeavesOf[b.file][a.item] \in Leaves
      BY <1>1, <2>1, LeafFacts DEF InItem, Stage
    <2>3. a.at <= Size[LeavesOf[a.file][a.item]]
      BY <1>1, <2>1, <2>2 DEF InItem, BuilderOK
    <2> QED
      BY <1>1, <2>1, <2>3 DEF InItem, StageOK
  <1>4. b.state \in {"Header", "Block", "End"}
    BY DEF BuilderOK, Builder, States, Consistent
  <1> QED
    BY <1>2, <1>3, <1>4

\* A block that is not full is the last of its leaf.
LEMMA BlockNumbers ==
  ASSUME NEW total \in Nat, NEW sent \in Nat, sent < total,
         NEW pos \in Nat, pos <= total, sent = pos \/ sent = 0,
         NEW ready, ready = Smaller(total - sent, BlockData),
         NEW read, read = Smaller(ready, total - pos)
  PROVE  /\ ready > 0 /\ read \in Nat /\ pos + read <= total
         /\ read < ready => pos + read = total
         /\ sent = pos /\ sent + read >= total => pos + read = total
  <1>1. BlockData \in Nat /\ BlockData > 0
    BY BuilderAssumption
  <1>2. ready \in Nat /\ ready > 0 /\ (ready = total - sent \/ ready = BlockData)
        /\ ready <= total - sent
    BY <1>1 DEF Smaller
  <1> DEFINE left == total - pos
  <1>3. left \in Nat
    OBVIOUS
  <1>4. read = IF ready < left THEN ready ELSE left
    BY DEF Smaller
  <1> HIDE DEF left
  <1>5. read \in Nat /\ read <= left /\ (read < ready => read = left)
        /\ read <= ready
    BY <1>2, <1>3, <1>4
  <1> QED
    BY <1>2, <1>5 DEF left

LEMMA BlockSends ==
  ASSUME NEW b, BuilderOK(b), Consistent(b), b.state = "Block",
         NEW a, UnderWay(b, a)
  PROVE  \E e \in Stage : /\ Sends(a, BuildBlock(b).msg, e)
                          /\ BuilderAt(BuildBlock(b).builder, e)
  <1> DEFINE left == b.total - b.sent
             ready == Smaller(left, BlockData)
             read  == Smaller(ready, Size[b.reader] - b.pos)
             sent  == IF b.folder THEN b.sent ELSE b.sent + read
             dirSent == IF b.folder THEN b.dirSent + read ELSE b.dirSent
             pos == b.pos + read
             state == IF read < ready \/ sent >= b.total THEN "End" ELSE b.state
             c == [b EXCEPT !.pos = pos, !.sent = sent, !.dirSent = dirSent,
                            !.state = state]
             l == LeavesOf[b.file][a.item]
             e == At(b.file, a.item, pos)
  <1>1. b \in Builder /\ StageOK(a) /\ a \in Stage
    BY UnderWayStage DEF BuilderOK, StageOK
  <1>2. /\ b.file \in Files /\ ~b.isEnd /\ (b.folder <=> b.file \in Folders)
        /\ a.file = b.file
        /\ IF b.folder THEN b.items = LeavesOf[b.file] /\ a.item = b.index
                       ELSE a.item = 1
        /\ a.item \in Nat /\ a.item > 0 /\ a.item <= Len(LeavesOf[b.file])
        /\ b.reader = l /\ b.total = Size[l] /\ b.pos = a.at /\ b.total > 0
        /\ b.sent = IF b.folder THEN 0 ELSE a.at
    BY <1>1 DEF UnderWay, InItem, Stage
  <1>3. l \in Leaves /\ Size[l] \in Nat
    BY <1>2, LeafFacts
  <1>4. /\ b.sent \in Nat /\ b.sent < b.total /\ b.pos \in Nat
        /\ b.pos <= b.total /\ b.total \in Nat
        /\ b.sent = b.pos \/ b.sent = 0
    BY <1>1, <1>2, <1>3 DEF Consistent, BuilderOK, Builder
  <1>5. /\ ready > 0 /\ read \in Nat /\ pos <= b.total
        /\ read < ready => pos = b.total
        /\ b.sent = b.pos /\ b.sent + read >= b.total => pos = b.total
    <2>1. ready = Smaller(b.total - b.sent, BlockData)
          /\ read = Smaller(ready, b.total - b.pos)
      BY <1>2
    <2> HIDE DEF ready, read
    <2> QED
      BY <1>4, <2>1, BlockNumbers
  <1>6. /\ BuildBlock(b).builder = c
        /\ BuildBlock(b).msg = [type |-> "block", id |-> b.file, leaf |-> l,
                                from |-> a.at, len |-> read]
    <2>1. b.total > 0 /\ ready > 0 /\ b.reader # NoLeaf
      BY <1>2, <1>3, <1>5, BuilderAssumption
    <2>2. BuildBlock(b) =
            Result(c, [type |-> "block", id |-> b.file, leaf |-> b.reader,
                       from |-> b.pos, len |-> read])
      BY <2>1 DEF BuildBlock
    <2> HIDE DEF c, read
    <2> QED
      BY <1>2, <2>2 DEF Result
  <1> HIDE DEF left, ready, read
  <1>7. pos \in Nat /\ e \in Stage /\ e.file = b.file /\ e.item = a.item
        /\ e.at = pos
    <2>1. pos \in Nat
      BY <1>4, <1>5
    <2> HIDE DEF pos
    <2> QED
      BY <1>2, <2>1, StageFields
  <1>8. Sends(a, BuildBlock(b).msg, e)
    BY <1>1, <1>2, <1>3, <1>5, <1>6 DEF Sends, SendsBlock
  <1>9. /\ state \in {"Block", "End"}
        /\ state = "End" => pos = b.total
        /\ state = "Block" => sent = IF b.folder THEN 0 ELSE pos
    <2>1. CASE b.folder
      BY <1>2, <1>4, <1>5, <2>1
    <2>2. CASE ~b.folder
      BY <1>2, <1>4, <1>5, <2>2
    <2> QED
      BY <2>1, <2>2
  <1>10. /\ c.file = b.file /\ c.folder = b.folder /\ c.isEnd = b.isEnd
         /\ c.items = b.items /\ c.index = b.index /\ c.sent = sent
         /\ c.reader = b.reader /\ c.pos = pos /\ c.total = b.total
         /\ c.state = state
    <2> HIDE DEF pos, sent, dirSent, state
    <2> QED
      BY <1>1 DEF Builder
  <1> HIDE DEF c, state, sent, pos, e
  <1>11. InItem(c, e)
    BY <1>2, <1>7, <1>9, <1>10 DEF InItem
  <1>12. BuilderAt(c, e)
    BY <1>2, <1>7, <1>9, <1>10, <1>11 DEF BuilderAt, UnderWay
  <1> QED
    BY <1>6, <1>7, <1>8, <1>12

\* file_end and file_canceled both leave the builder cleared.
LEMMA ClearedRests ==
  ASSUME NEW b \in Builder
  PROVE  /\ BuilderAt(BuildEnd(b).builder, Rest)
         /\ BuilderAt(BuildCanceled(b).builder, Rest)
         /\ BuildEnd(b).msg = [type |-> "file_end"]
         /\ BuildCanceled(b).msg = [type |-> "file_canceled"]
         /\ BuildEnd(b).builder.isEnd /\ BuildCanceled(b).builder.isEnd
  <1> DEFINE c == Cleared(b)
             dirTotal == IF b.folder THEN 0 ELSE c.dirTotal
             total == IF b.folder THEN c.total ELSE 0
             e == [c EXCEPT !.dirTotal = dirTotal, !.total = total]
  <1>1. c \in Builder /\ c.state = "Default" /\ c.isEnd
    <2>0. << >> \in Seq(Leaves)
      OBVIOUS
    <2>1. c \in Builder
      BY <2>0 DEF Cleared, Builder, States
    <2>2. c.state = "Default" /\ c.isEnd
      BY DEF Cleared, Builder
    <2> QED
      BY <2>1, <2>2
  <1>2. BuildCanceled(b).builder = c /\ BuildEnd(b).builder = e
        /\ BuildEnd(b).msg = [type |-> "file_end"]
        /\ BuildCanceled(b).msg = [type |-> "file_canceled"]
    BY DEF BuildCanceled, BuildEnd, Result
  <1> HIDE DEF c, dirTotal, total
  <1>3. e.state = "Default" /\ e.isEnd
    BY <1>1 DEF Builder
  <1> HIDE DEF e
  <1> QED
    BY <1>1, <1>2, <1>3 DEF BuilderAt

LEMMA EndSends ==
  ASSUME NEW b, BuilderOK(b), Consistent(b), AllOpen, b.state = "End",
         NEW a, UnderWay(b, a)
  PROVE  \E e \in Stage : /\ Sends(a, GetStream(b).msg, e)
                          /\ BuilderAt(GetStream(b).builder, e)
  <1>1. b \in Builder /\ StageOK(a) /\ a \in Stage
    BY UnderWayStage DEF BuilderOK, StageOK
  <1>2. /\ b.file \in Files /\ ~b.isEnd /\ (b.folder <=> b.file \in Folders)
        /\ a.file = b.file
        /\ b.folder => b.items = LeavesOf[b.file] /\ a.item = b.index
        /\ ~b.folder => a.item = 1
        /\ a.item \in Nat /\ a.item > 0 /\ a.item <= Len(LeavesOf[b.file])
        /\ a.at = Size[LeavesOf[b.file][a.item]]
    BY <1>1 DEF UnderWay, InItem, Stage
  <1>3. ItemSent(a)
    BY <1>2 DEF ItemSent
  <1>4. Len(LeavesOf[b.file]) \in Nat
        /\ (b.file \notin Folders => Len(LeavesOf[b.file]) = 1)
    BY <1>2, LeafFacts
  <1>5. CASE MoreItems(b)
    <2> DEFINE c == [b EXCEPT !.state = "Header", !.sent = 0, !.total = 0,
                              !.reader = NoLeaf, !.pos = 0]
    <2>1. b.folder /\ b.index < Len(b.items)
      BY <1>2, <1>5 DEF MoreItems, AllOpen
    <2>2. /\ c \in Builder /\ c.state = "Header" /\ c.file = b.file
          /\ c.sent = 0 /\ c.index = b.index /\ c.items = b.items
          /\ c.folder = b.folder /\ c.isEnd = b.isEnd
      BY <1>1 DEF Builder, States
    <2>3. GetStream(b) = BuildHeader(c)
      BY <1>2, <1>5 DEF GetStream
    <2> HIDE DEF c
    <2>4. GetStream(b) = BuildItemHeader(c)
      BY <2>1, <2>2, <2>3 DEF BuildHeader
    <2>5. LET e == At(c.file, c.index + 1, 0)
          IN  /\ Sends(a, BuildItemHeader(c).msg, e)
              /\ BuilderAt(BuildItemHeader(c).builder, e)
      BY <1>1, <1>2, <1>3, <2>1, <2>2, ItemHeaderSends
    <2> QED
      BY <2>4, <2>5, SendsStage
  <1>6. CASE ~MoreItems(b)
    <2>1. GetStream(b) = BuildEnd(b)
      BY <1>2, <1>6 DEF GetStream
    <2>2. a.item = Len(LeavesOf[a.file])
      <3>1. CASE b.folder
        <4>1. ~(a.item < Len(LeavesOf[b.file]))
          BY <1>2, <1>6, <3>1 DEF MoreItems
        <4> QED
          BY <1>2, <1>4, <4>1
      <3>2. CASE ~b.folder
        BY <1>2, <1>4, <3>2
      <3> QED
        BY <3>1, <3>2
    <2>3. SendsEnd(a, BuildEnd(b).msg, Rest)
      BY <1>1, <1>3, <2>2, ClearedRests DEF SendsEnd
    <2> QED
      BY <1>1, <2>1, <2>3, ClearedRests, RestFields DEF Sends
  <1> QED
    BY <1>5, <1>6

\* What the next message of a transfer does to the stage.
Advances(b, a) ==
    \E e \in Stage : /\ Sends(a, GetStream(b).msg, e)
                     /\ BuilderAt(GetStream(b).builder, e)

\* If every leaf opens and no folder is empty, the messages of one builder
\* announce its file, then each leaf in turn from the first byte to the last
\* without a gap, then the end, and nothing else comes between.
THEOREM StreamAdvances ==
  ASSUME NEW b, BuilderOK(b), Consistent(b), AllOpen, b.file \in Files, ~b.isEnd,
         NEW a, BuilderAt(b, a)
  PROVE  Advances(b, a)
  <1>0. b \in Builder /\ b.state \in States
    BY DEF BuilderOK, Builder
  <1>1. CASE b.state = "Default"
    <2> DEFINE isDir == b.file \in Folders
               c == [b EXCEPT !.folder = isDir]
    <2>0. isDir \in BOOLEAN /\ a = Rest
      BY <1>1 DEF BuilderAt
    <2> HIDE DEF isDir
    <2>1. /\ c \in Builder /\ c.file = b.file /\ c.state = b.state
          /\ c.folder <=> isDir
          /\ c.sent = b.sent /\ c.index = b.index /\ c.isEnd = b.isEnd
      BY <1>0, <2>0 DEF Builder
    <2>2. GetStream(b) = BuildHeader(c)
      BY <1>1 DEF GetStream, isDir
    <2> HIDE DEF c
    <2>3. c.sent = 0 /\ c.index = 0 /\ c.state = "Default" /\ ~c.isEnd
      BY <1>1, <2>1 DEF Consistent
    <2>4. CASE isDir
      <3>1. BuildHeader(c) = BuildDirHeader(c) /\ c.file \in Folders
        BY <2>1, <2>3, <2>4 DEF BuildHeader, isDir
      <3> QED
        BY <2>0, <2>1, <2>2, <2>3, <2>4, <3>1, DirHeaderSends, SendsStage
        DEF Advances
    <2>5. CASE ~isDir
      <3>1. BuildHeader(c) = BuildFileHeader(c) /\ c.file \in Files \ Folders
        BY <2>1, <2>3, <2>5 DEF BuildHeader, isDir
      <3> QED
        BY <2>0, <2>1, <2>2, <2>3, <2>5, <3>1, FileHeaderSends, SendsStage
        DEF Advances
    <2> QED
      BY <2>4, <2>5
  <1>2. CASE b.state = "Header"
    <2>1. b.folder /\ b.sent = 0 /\ b.index < Len(b.items)
      BY <1>2 DEF Consistent
    <2>2. GetStream(b) = BuildItemHeader(b)
      BY <1>2, <2>1 DEF GetStream, BuildHeader
    <2>3. UnderWay(b, a)
      BY <1>2 DEF BuilderAt
    <2>4. StageOK(a)
      BY <1>2, <2>3, UnderWayStage
    <2>5. b.file \in Folders /\ b.items = LeavesOf[b.file] /\ a.file = b.file
          /\ a.item = b.index /\ a.item = 0
      BY <1>2, <2>3 DEF UnderWay
    <2>6. ItemSent(a)
      BY <2>5 DEF ItemSent
    <2>7. LET e == At(b.file, b.index + 1, 0)
          IN  /\ Sends(a, BuildItemHeader(b).msg, e)
              /\ BuilderAt(BuildItemHeader(b).builder, e)
      BY <1>0, <2>1, <2>4, <2>5, <2>6, ItemHeaderSends
    <2> QED
      BY <2>2, <2>7, SendsStage DEF Advances
  <1>3. CASE b.state = "Block"
    <2>1. GetStream(b) = BuildBlock(b) /\ UnderWay(b, a)
      BY <1>3 DEF GetStream, BuilderAt
    <2> QED
      BY <1>3, <2>1, BlockSends DEF Advances
  <1>4. CASE b.state = "End"
    <2>1. UnderWay(b, a)
      BY <1>4 DEF BuilderAt
    <2> QED
      BY <1>4, <2>1, EndSends DEF Advances
  <1> QED
    BY <1>0, <1>1, <1>2, <1>3, <1>4 DEF Consistent, States

\* A cancel is answered at any point with file_canceled and nothing after it;
\* before the file has been announced it is ignored.
THEOREM StreamAdvancesCanceled ==
  ASSUME NEW b, BuilderOK(b), Consistent(b), AllOpen, b.file \in Files, ~b.isEnd,
         NEW a, BuilderAt(b, a)
  PROVE  Advances(CancelSending(b), a)
  <1> DEFINE c == [b EXCEPT !.state = "Cancel"]
  <1>1. CASE b.state = "Default"
    BY <1>1, StreamAdvances DEF CancelSending
  <1>2. CASE b.state # "Default"
    <2>1. CancelSending(b) = c
      BY <1>2 DEF CancelSending
    <2>2. c \in Builder /\ c.state = "Cancel" /\ ~c.isEnd
      BY DEF BuilderOK, Builder, States
    <2>3. StageOK(a) /\ a \in Stage
      BY <1>2, UnderWayStage DEF BuilderAt, StageOK
    <2> HIDE DEF c
    <2>4. GetStream(c) = BuildCanceled(c)
      BY <2>2 DEF GetStream
    <2>5. SendsCanceled(a, BuildCanceled(c).msg, Rest)
      BY <2>2, <2>3, ClearedRests DEF SendsCanceled
    <2> QED
      BY <2>1, <2>2, <2>4, <2>5, ClearedRests, RestFields DEF Sends, Advances
  <1> QED
    BY <1>1, <1>2

\* The builder is given up by the last message, and only a cancel makes the
\* builder say so.
LEMMA LastMessages ==
  ASSUME NEW b, BuilderOK(b), ~b.isEnd
  PROVE  /\ GetStream(b).msg.type \in {"file_end", "file_canceled"} =>
              GetStream(b).builder.isEnd
         /\ GetStream(b).msg.type = "file_canceled" => b.state = "Cancel"
  <1> DEFINE Other(r) == r.msg.type \notin {"file_end", "file_canceled"}
  <1>1. \A c : /\ Other(BuildFileHeader(c)) /\ Other(BuildDirHeader(c))
               /\ Other(BuildItemHeader(c)) /\ Other(BuildBlock(c))
               /\ Other(Result(c, NoMsg))
    BY DEF BuildFileHeader, BuildDirHeader, BuildItemHeader, BuildBlock, Result,
           NoMsg
  <1>2. \A c : Other(BuildHeader(c))
    BY <1>1 DEF BuildHeader
  <1>3. b \in Builder /\ b.state \in States
    BY DEF BuilderOK, Builder
  <1>4. CASE b.state \in {"Default", "Header"}
    <2>1. Other(GetStream(b))
      BY <1>2, <1>4 DEF GetStream
    <2> QED
      BY <2>1
  <1>5. CASE b.state = "Block"
    <2>1. Other(GetStream(b))
      BY <1>1, <1>5 DEF GetStream
    <2> QED
      BY <2>1
  <1>6. CASE b.state = "End"
    <2>1. Other(GetStream(b)) \/ GetStream(b) = BuildEnd(b)
      BY <1>2, <1>6 DEF GetStream
    <2>2. BuildEnd(b).builder.isEnd /\ BuildEnd(b).msg.type = "file_end"
      BY <1>3, ClearedRests
    <2> QED
      BY <2>1, <2>2
  <1>7. CASE b.state = "Cancel"
    <2>1. GetStream(b) = BuildCanceled(b)
      BY <1>7 DEF GetStream
    <2>2. BuildCanceled(b).builder.isEnd
      BY <1>3, ClearedRests
    <2> QED
      BY <1>7, <2>1, <2>2
  <1> QED
    BY <1>3, <1>4, <1>5, <1>6, <1>7 DEF States

-----------------------------------------------------------------------------
(* What the parser does with any message                                   *)

DiskOK(d) == DOMAIN d = Paths

OutcomeOK(o) ==
    /\ o.parser \in Parser
    /\ DiskOK(o.disk)
    /\ o.event \in {NoEvent, Ended, CancelSeen}

LEMMA NewParserOK == NewParser \in Parser /\ DiskOK(EmptyDisk)
  BY DEF NewParser, Parser, DiskOK, EmptyDisk

LEMMA OpenStreamOK ==
  ASSUME NEW p \in Parser, NEW x \in Paths
  PROVE  OpenStream(p, x) \in Parser
  <1> DEFINE opens == x \in Writable
  <1>1. opens \in BOOLEAN
    OBVIOUS
  <1> HIDE DEF opens
  <1>2. [p EXCEPT !.stream = x, !.open = opens, !.at = 0] \in Parser
    BY <1>1 DEF Parser
  <1> QED
    BY <1>2 DEF OpenStream, opens

LEMMA CloseStreamOK ==
  ASSUME NEW p \in Parser
  PROVE  CloseStream(p) \in Parser
  BY DEF CloseStream, Parser

LEMMA TruncatedOK ==
  ASSUME NEW d, DiskOK(d), NEW x
  PROVE  DiskOK(Truncated(d, x))
  BY DEF DiskOK, Truncated

LEMMA FileHeaderOK ==
  ASSUME NEW p \in Parser, NEW d, DiskOK(d),
         NEW f \in Files \ Folders, NEW n \in Nat,
         NEW m, m = [type |-> "file_header", id |-> f, total |-> n]
  PROVE  OutcomeOK(OnFileHeader(p, d, m))
  <1> DEFINE x == PathOf[LeavesOf[m.id][1]]
             q == OpenStream(p, x)
  <1>1. m.id = f /\ m.total = n
    OBVIOUS
  <1>2. x \in Paths
    BY <1>1, BuilderAssumption, ParserAssumption
  <1> HIDE DEF x
  <1>3. q \in Parser /\ DiskOK(Truncated(d, x))
    BY <1>2, OpenStreamOK, TruncatedOK
  <1> HIDE DEF q
  <1>4. [q EXCEPT !.cur = f, !.total = n, !.folder = FALSE] \in Parser
    BY <1>3 DEF Parser
  <1>5. OnFileHeader(p, d, m) =
          Outcome([q EXCEPT !.cur = f, !.total = n, !.folder = FALSE],
                  Truncated(d, x), NoEvent)
    BY <1>1 DEF OnFileHeader, q, x
  <1> QED
    BY <1>3, <1>4, <1>5 DEF Outcome, OutcomeOK

LEMMA DirHeaderOK ==
  ASSUME NEW p \in Parser, NEW d, DiskOK(d),
         NEW f \in Folders, NEW n \in Nat,
         NEW m, m = [type |-> "dir_header", id |-> f, total |-> n]
  PROVE  OutcomeOK(OnDirHeader(p, d, m))
  <1>1. m.id = f /\ m.total = n /\ f \in Files
    BY BuilderAssumption
  <1>2. [p EXCEPT !.cur = f, !.total = n, !.dir = f, !.folder = TRUE] \in Parser
    BY <1>1 DEF Parser
  <1>3. OnDirHeader(p, d, m) =
          Outcome([p EXCEPT !.cur = f, !.total = n, !.dir = f, !.folder = TRUE],
                  d, NoEvent)
    BY <1>1 DEF OnDirHeader
  <1> QED
    BY <1>2, <1>3 DEF Outcome, OutcomeOK

LEMMA DirItemHeaderOK ==
  ASSUME NEW p \in Parser, NEW d, DiskOK(d), NEW m, m.leaf \in Leaves
  PROVE  OutcomeOK(OnDirItemHeader(p, d, m))
  <1>1. PathOf[m.leaf] \in Paths
    BY ParserAssumption
  <1>2. /\ OpenStream(p, PathOf[m.leaf]) \in Parser
        /\ CloseStream(p) \in Parser
        /\ DiskOK(Truncated(d, PathOf[m.leaf]))
    BY <1>1, OpenStreamOK, CloseStreamOK, TruncatedOK
  <1> QED
    BY <1>2 DEF OnDirItemHeader, Outcome, OutcomeOK

LEMMA FileEndOK ==
  ASSUME NEW p \in Parser, NEW d, DiskOK(d)
  PROVE  OutcomeOK(OnFileEnd(p, d)) /\ OutcomeOK(OnFileCancel(p, d))
  <1> DEFINE q == CloseStream(p)
  <1>1. q \in Parser
    BY CloseStreamOK
  <1> HIDE DEF q
  <1>2. [q EXCEPT !.received = 0] \in Parser
    BY <1>1 DEF Parser
  <1>3. OutcomeOK(OnFileEnd(p, d))
    BY <1>2 DEF OnFileEnd, Outcome, OutcomeOK, q
  <1>4. OutcomeOK(OnFileCancel(p, d))
    BY <1>2 DEF OnFileCancel, Outcome, OutcomeOK, DiskOK, q
  <1> QED
    BY <1>3, <1>4

LEMMA BlockOK ==
  ASSUME NEW p \in Parser, NEW d, DiskOK(d), NEW m, m.len \in Nat
  PROVE  OutcomeOK(OnBlock(p, d, m))
  <1>1. CASE p.stream = NoPath
    BY <1>1 DEF OnBlock, Outcome, OutcomeOK
  <1>2. CASE p.stream # NoPath
    <2> DEFINE at == p.at + m.len
               received == p.received + m.len
               q == [p EXCEPT !.at = at, !.received = received]
               written == IF p.open /\ d[p.stream] # Absent
                          THEN [d EXCEPT ![p.stream] = WriteAt(@, p.at, m)]
                          ELSE d
    <2>1. at \in Nat /\ received \in Nat
      BY DEF Parser
    <2>2. DiskOK(written)
      BY DEF DiskOK
    <2> HIDE DEF written, at, received
    <2>3. q \in Parser
      BY <2>1 DEF Parser
    <2> HIDE DEF q
    <2>4. OnBlock(p, d, m) = Outcome(q, written, NoEvent)
      BY <1>2 DEF OnBlock, q, at, received, written
    <2> QED
      BY <2>2, <2>3, <2>4 DEF Outcome, OutcomeOK
  <1> QED
    BY <1>1, <1>2

\* A parser accepts every message in every state.
THEOREM ParseOK ==
  ASSUME NEW p \in Parser, NEW d, DiskOK(d), NEW m \in Message
  PROVE  OutcomeOK(Parse(p, d, m))
  <1>1. CASE m \in [type : {"file_header"}, id : Files \ Folders, total : Nat]
    <2>1. PICK f \in Files \ Folders, n \in Nat :
             m = [type |-> "file_header", id |-> f, total |-> n]
      BY <1>1
    <2>2. Parse(p, d, m) = OnFileHeader(p, d, m)
      BY <2>1 DEF Parse
    <2> QED
      BY <2>1, <2>2, FileHeaderOK
  <1>2. CASE m \in [type : {"dir_header"}, id : Folders, total : Nat]
    <2>1. PICK f \in Folders, n \in Nat :
             m = [type |-> "dir_header", id |-> f, total |-> n]
      BY <1>2
    <2>2. Parse(p, d, m) = OnDirHeader(p, d, m)
      BY <2>1 DEF Parse
    <2> QED
      BY <2>1, <2>2, DirHeaderOK
  <1>3. CASE m \in [type : {"dir_item_header"}, id : Files, leaf : Leaves,
                    total : Nat]
    <2>1. Parse(p, d, m) = OnDirItemHeader(p, d, m) /\ m.leaf \in Leaves
      BY <1>3 DEF Parse
    <2> QED
      BY <2>1, DirItemHeaderOK
  <1>4. CASE m \in [type : {"block"}, id : Files, leaf : Leaves, from : Nat,
                    len : Nat]
    <2>1. Parse(p, d, m) = OnBlock(p, d, m) /\ m.len \in Nat
      BY <1>4 DEF Parse
    <2> QED
      BY <2>1, BlockOK
  <1>5. CASE m = [type |-> "file_end"]
    <2>1. Parse(p, d, m) = OnFileEnd(p, d)
      BY <1>5 DEF Parse
    <2> QED
      BY <2>1, FileEndOK
  <1>6. CASE m = [type |-> "file_canceled"]
    <2>1. Parse(p, d, m) = OnFileCancel(p, d)
      BY <1>6 DEF Parse
    <2> QED
      BY <2>1, FileEndOK
  <1> QED
    BY <1>1, <1>2, <1>3, <1>4, <1>5, <1>6 DEF Message

-----------------------------------------------------------------------------
(* What the parser makes of the messages of one builder: each message       *)
(* brings the parser and the disk to the stage it takes the connection to.  *)

\* No two leaves of the files that can be requested share a path, and every
\* path can be written to.
Apart ==
    /\ \A f, g \in Files :
       \A i \in 1..Len(LeavesOf[f]), j \in 1..Len(LeavesOf[g]) :
          PathOf[LeavesOf[f][i]] = PathOf[LeavesOf[g][j]] => f = g /\ i = j
    /\ \A f \in Files : PathsBelow(f) \subseteq Writable

\* The first k bytes of a leaf.
Part(l, k) == [j \in 1..k |-> <<l, j>>]

PathAt(f, i) == PathOf[LeavesOf[f][i]]

Untouched(d, f) == \A x \in PathsBelow(f) : d[x] = Absent

\* What the disk holds of the leaf i of the file.
DiskAt(d, a) ==
    \A i \in 1..Len(LeavesOf[a.file]) :
        d[PathAt(a.file, i)] = IF i < a.item THEN Whole(LeavesOf[a.file][i])
                               ELSE IF i = a.item
                                    THEN Part(LeavesOf[a.file][i], a.at)
                                    ELSE Absent

\* An item without bytes is created without a stream.
StreamAt(p, a) ==
    IF a.file \in Folders /\ Size[LeavesOf[a.file][a.item]] = 0
    THEN p.stream = NoPath
    ELSE p.stream = PathAt(a.file, a.item) /\ p.open /\ p.at = a.at

Receiving(p, d, a) ==
    /\ StageOK(a)
    /\ p.cur = a.file
    /\ p.folder <=> a.file \in Folders
    /\ a.file \in Folders => p.dir = a.file
    /\ a.item > 0 => StreamAt(p, a)
    /\ DiskAt(d, a)

\* Between two files nothing is said of the parser: a connection that broke
\* may have left it with an open stream.
ParserAt(p, d, a) == a.file # NoFile => Receiving(p, d, a)

\* Every leaf of f is on the disk from its first byte to its last.
AllWhole(d, f) ==
    \A i \in 1..Len(LeavesOf[f]) : d[PathAt(f, i)] = Whole(LeavesOf[f][i])

NoStump(d, f) ==
    \A i \in 1..Len(LeavesOf[f]) :
        d[PathAt(f, i)] \in {Absent, Whole(LeavesOf[f][i])}

\* Nothing but the leaves of f has changed.
OnlyBelow(f, d, e) == \A x \in Paths \ PathsBelow(f) : e[x] = d[x]

LEMMA PathFacts ==
  ASSUME NEW f \in Files
  PROVE  /\ \A i \in 1..Len(LeavesOf[f]) :
              /\ PathAt(f, i) \in Paths /\ PathAt(f, i) # NoPath
              /\ PathAt(f, i) \in PathsBelow(f)
         /\ PathsBelow(f) \subseteq Paths
         /\ \A x \in PathsBelow(f) :
              \E i \in 1..Len(LeavesOf[f]) : x = PathAt(f, i)
         /\ Apart => \A i \in 1..Len(LeavesOf[f]) : PathAt(f, i) \in Writable
         /\ Apart => \A i, j \in 1..Len(LeavesOf[f]) :
                        PathAt(f, i) = PathAt(f, j) => i = j
  <1>1. /\ DOMAIN LeavesOf[f] = 1..Len(LeavesOf[f])
        /\ \A i \in 1..Len(LeavesOf[f]) : LeavesOf[f][i] \in Leaves
    BY LeafFacts, LenProperties
  <1>2. \A l \in Leaves : PathOf[l] \in Paths /\ PathOf[l] # NoPath
    BY ParserAssumption
  <1>3. PathsBelow(f) = {PathAt(f, i) : i \in 1..Len(LeavesOf[f])}
    BY <1>1 DEF PathsBelow, PathAt
  <1>4. \A i \in 1..Len(LeavesOf[f]) :
          /\ PathAt(f, i) \in Paths /\ PathAt(f, i) # NoPath
          /\ PathAt(f, i) \in PathsBelow(f)
    BY <1>1, <1>2, <1>3 DEF PathAt
  <1>5. Apart => \A i, j \in 1..Len(LeavesOf[f]) :
                    PathAt(f, i) = PathAt(f, j) => i = j
    BY DEF Apart, PathAt
  <1>6. Apart => PathsBelow(f) \subseteq Writable
    BY DEF Apart
  <1> QED
    BY <1>3, <1>4, <1>5, <1>6

\* The files do not share a path.
LEMMA FilesApart ==
  ASSUME Apart, NEW f \in Files, NEW g \in Files, f # g
  PROVE  PathsBelow(f) \cap PathsBelow(g) = {}
  <1> SUFFICES ASSUME NEW x \in PathsBelow(f), x \in PathsBelow(g)
               PROVE  FALSE
    OBVIOUS
  <1>1. PICK i \in 1..Len(LeavesOf[f]) : x = PathAt(f, i)
    BY PathFacts
  <1>2. PICK j \in 1..Len(LeavesOf[g]) : x = PathAt(g, j)
    BY PathFacts
  <1> QED
    BY <1>1, <1>2 DEF Apart, PathAt

LEMMA PartFacts ==
  ASSUME NEW l \in Leaves, NEW k \in Nat
  PROVE  /\ Part(l, k) \in Seq(Leaves \X Nat) /\ Len(Part(l, k)) = k
         /\ Part(l, k) # Absent
         /\ Part(l, 0) = << >>
         /\ k = Size[l] => Part(l, k) = Whole(l)
  <1>1. Part(l, k) \in Seq(Leaves \X Nat) /\ Len(Part(l, k)) = k
    BY DEF Part
  <1>2. Part(l, 0) = << >>
    <2>1. Part(l, 0) \in Seq(Leaves \X Nat) /\ Len(Part(l, 0)) = 0
      BY DEF Part
    <2> QED
      BY <2>1, EmptySeq
  <1>3. Part(l, k) # Absent
    BY <1>1, ParserAssumption
  <1> QED
    BY <1>1, <1>2, <1>3 DEF Part, Whole

\* A block that continues a leaf lengthens what is stored of it.
LEMMA WriteContinues ==
  ASSUME NEW l \in Leaves, NEW k \in Nat, NEW n \in Nat,
         NEW m, m.leaf = l, m.from = k, m.len = n
  PROVE  WriteAt(Part(l, k), k, m) = Part(l, k + n)
  <1>1. Len(Part(l, k)) = k
    BY PartFacts
  <1>2. (IF k + n > k THEN k + n ELSE k) = k + n
    OBVIOUS
  <1>3. WriteAt(Part(l, k), k, m) =
          [j \in 1..(k + n) |->
             IF j \in (k + 1)..(k + n) THEN <<l, k + j - k>>
             ELSE IF j <= k THEN Part(l, k)[j] ELSE Hole]
    BY <1>1, <1>2 DEF WriteAt
  <1>4. \A j \in 1..(k + n) :
          (IF j \in (k + 1)..(k + n) THEN <<l, k + j - k>>
           ELSE IF j <= k THEN Part(l, k)[j] ELSE Hole) = <<l, j>>
    BY DEF Part
  <1> QED
    BY <1>3, <1>4 DEF Part

LEMMA FileHeaderFollows ==
  ASSUME Apart, NEW p \in Parser, NEW d, DiskOK(d), NEW a, NEW m, NEW b,
         SendsFileHeader(a, m, b), Untouched(d, b.file)
  PROVE  LET o == Parse(p, d, m)
         IN  /\ Receiving(o.parser, o.disk, b)
             /\ OnlyBelow(b.file, d, o.disk)
             /\ o.event = NoEvent
  <1>1. PICK f \in Files \ Folders, n \in Nat :
          /\ m = [type |-> "file_header", id |-> f, total |-> n]
          /\ b = At(f, 1, 0)
    BY DEF SendsFileHeader
  <1> DEFINE x == PathAt(f, 1)
             q == [OpenStream(p, x) EXCEPT !.cur = f, !.total = n,
                                           !.folder = FALSE]
             e == [d EXCEPT ![x] = << >>]
  <1>2. b \in Stage /\ b.file = f /\ b.item = 1 /\ b.at = 0
    BY <1>1, StageFields
  <1>3. /\ Len(LeavesOf[f]) = 1 /\ LeavesOf[f][1] \in Leaves
        /\ Size[LeavesOf[f][1]] \in Nat
    BY LeafFacts
  <1>4. x \in Paths /\ x \in Writable /\ x \in PathsBelow(f) /\ x # NoPath
    BY <1>3, PathFacts
  <1>5. Parse(p, d, m) = Outcome(q, e, NoEvent)
    BY <1>1, <1>4 DEF Parse, OnFileHeader, Truncated, PathAt
  <1>6. q.cur = f /\ q.folder = FALSE /\ q.stream = x /\ q.open /\ q.at = 0
    <2> HIDE DEF x
    <2> QED
      BY <1>4 DEF OpenStream, Parser
  <1>7. /\ \A y \in Paths : y # x => e[y] = d[y]
        /\ e[x] = << >>
    <2> HIDE DEF x
    <2> QED
      BY <1>4 DEF DiskOK
  <1> HIDE DEF q, e
  <1>8. StageOK(b)
    BY <1>2, <1>3 DEF StageOK
  <1>9. DiskAt(e, b)
    BY <1>2, <1>3, <1>7, PartFacts DEF DiskAt
  <1>10. StreamAt(q, b)
    BY <1>2, <1>6 DEF StreamAt
  <1>11. Receiving(q, e, b)
    BY <1>2, <1>6, <1>8, <1>9, <1>10 DEF Receiving
  <1>12. OnlyBelow(b.file, d, e)
    BY <1>2, <1>4, <1>7 DEF OnlyBelow
  <1> QED
    BY <1>5, <1>11, <1>12 DEF Outcome

LEMMA DirHeaderFollows ==
  ASSUME NEW p \in Parser, NEW d, DiskOK(d), NEW a, NEW m, NEW b,
         SendsDirHeader(a, m, b), Untouched(d, b.file)
  PROVE  LET o == Parse(p, d, m)
         IN  /\ Receiving(o.parser, o.disk, b)
             /\ OnlyBelow(b.file, d, o.disk)
             /\ o.event = NoEvent
  <1>1. PICK f \in Folders, n \in Nat :
          /\ m = [type |-> "dir_header", id |-> f, total |-> n]
          /\ b = At(f, 0, 0)
    BY DEF SendsDirHeader
  <1> DEFINE q == [p EXCEPT !.cur = f, !.total = n, !.dir = f, !.folder = TRUE]
  <1>2. f \in Files
    BY BuilderAssumption
  <1>3. b \in Stage /\ b.file = f /\ b.item = 0 /\ b.at = 0
    BY <1>1, <1>2, StageFields
  <1>4. Parse(p, d, m) = Outcome(q, d, NoEvent)
    BY <1>1 DEF Parse, OnDirHeader
  <1>5. q.cur = f /\ q.folder = TRUE /\ q.dir = f
    BY DEF Parser
  <1> HIDE DEF q
  <1>6. Len(LeavesOf[f]) \in Nat
    BY <1>2, LeafFacts
  <1>7. StageOK(b)
    BY <1>2, <1>3, <1>6 DEF StageOK
  <1>8. DiskAt(d, b)
    BY <1>2, <1>3, PathFacts DEF DiskAt, Untouched
  <1>9. Receiving(q, d, b)
    BY <1>3, <1>5, <1>7, <1>8 DEF Receiving
  <1>10. OnlyBelow(b.file, d, d)
    BY DEF OnlyBelow
  <1> QED
    BY <1>4, <1>9, <1>10 DEF Outcome

LEMMA ItemHeaderFollows ==
  ASSUME Apart, NEW p \in Parser, NEW d, DiskOK(d), NEW a, NEW m, NEW b,
         SendsItemHeader(a, m, b), Receiving(p, d, a)
  PROVE  LET o == Parse(p, d, m)
         IN  /\ Receiving(o.parser, o.disk, b)
             /\ OnlyBelow(a.file, d, o.disk)
             /\ o.event = NoEvent
  <1> DEFINE f == a.file
             k == a.item + 1
             l == LeavesOf[f][k]
             x == PathAt(f, k)
             q == IF Size[l] = 0 THEN CloseStream(p) ELSE OpenStream(p, x)
             e == [d EXCEPT ![x] = << >>]
  <1>1. /\ f \in Folders /\ f \in Files /\ a.item \in Nat /\ a \in Stage
        /\ a.item < Len(LeavesOf[f]) /\ b = At(f, k, 0)
        /\ m = [type |-> "dir_item_header", id |-> f, leaf |-> l,
                total |-> Size[l]]
    BY DEF SendsItemHeader, StageOK, Stage
  <1>2. /\ k \in 1..Len(LeavesOf[f]) /\ l \in Leaves /\ Size[l] \in Nat
        /\ k \in Nat /\ Len(LeavesOf[f]) \in Nat
    BY <1>1, LeafFacts
  <1>3. b \in Stage /\ b.file = f /\ b.item = k /\ b.at = 0
    BY <1>1, <1>2, StageFields
  <1>4. x \in Paths /\ x \in Writable /\ x \in PathsBelow(f) /\ x # NoPath
    BY <1>1, <1>2, PathFacts
  <1>5. Parse(p, d, m) = Outcome(q, e, NoEvent)
    BY <1>1, <1>4 DEF Parse, OnDirItemHeader, Truncated, PathAt
  <1>6. /\ p.cur = f /\ p.folder /\ p.dir = f
        /\ DiskAt(d, a) /\ ItemSent(a)
    BY <1>1 DEF Receiving, SendsItemHeader
  <1>7. /\ q.cur = f /\ q.folder /\ q.dir = f
        /\ Size[l] = 0 => q.stream = NoPath
        /\ Size[l] # 0 => q.stream = x /\ q.open /\ q.at = 0
    <2> HIDE DEF f, x, l
    <2> QED
      BY <1>4, <1>6 DEF OpenStream, CloseStream, Parser
  <1>8. /\ \A y \in Paths : y # x => e[y] = d[y]
        /\ e[x] = << >>
    <2> HIDE DEF x
    <2> QED
      BY <1>4 DEF DiskOK
  <1> HIDE DEF q, e
  <1>9. StageOK(b)
    BY <1>1, <1>2, <1>3 DEF StageOK
  <1>10. DiskAt(e, b)
    <2> SUFFICES ASSUME NEW i \in 1..Len(LeavesOf[f])
                 PROVE  e[PathAt(f, i)] =
                          IF i < k THEN Whole(LeavesOf[f][i])
                          ELSE IF i = k THEN Part(LeavesOf[f][i], 0) ELSE Absent
      BY <1>3 DEF DiskAt
    <2>1. i # k => e[PathAt(f, i)] = d[PathAt(f, i)]
      BY <1>1, <1>2, <1>8, PathFacts
    <2>2. LeavesOf[f][i] \in Leaves /\ Size[LeavesOf[f][i]] \in Nat
      BY <1>1, LeafFacts
    <2>3. CASE i < a.item \/ i > k
      BY <1>1, <1>6, <2>1, <2>3 DEF DiskAt
    <2>4. CASE i = a.item
      <3>1. d[PathAt(f, i)] = Part(LeavesOf[f][i], a.at)
        BY <1>1, <1>6, <2>4 DEF DiskAt
      <3>2. a.at = Size[LeavesOf[f][i]]
        BY <1>1, <1>6, <2>4 DEF ItemSent
      <3>3. Part(LeavesOf[f][i], a.at) = Whole(LeavesOf[f][i])
        BY <2>2, <3>2, PartFacts
      <3> QED
        BY <1>1, <2>1, <2>4, <3>1, <3>3
    <2>5. CASE i = k
      <3>1. Part(LeavesOf[f][i], 0) = << >>
        BY <2>2, PartFacts
      <3> QED
        BY <1>1, <1>8, <2>5, <3>1
    <2> QED
      BY <1>1, <2>3, <2>4, <2>5
  <1>11. StreamAt(q, b)
    BY <1>1, <1>3, <1>7 DEF StreamAt
  <1>12. Receiving(q, e, b)
    BY <1>1, <1>3, <1>7, <1>9, <1>10, <1>11 DEF Receiving
  <1>13. OnlyBelow(f, d, e)
    BY <1>4, <1>8 DEF OnlyBelow
  <1> QED
    BY <1>5, <1>12, <1>13 DEF Outcome

LEMMA BlockFollows ==
  ASSUME Apart, NEW p \in Parser, NEW d, DiskOK(d), NEW a, NEW m, NEW b,
         SendsBlock(a, m, b), Receiving(p, d, a)
  PROVE  LET o == Parse(p, d, m)
         IN  /\ Receiving(o.parser, o.disk, b)
             /\ OnlyBelow(a.file, d, o.disk)
             /\ o.event = NoEvent
  <1> DEFINE f == a.file
             k == a.item
             x == PathAt(f, k)
  <1>1. PICK l \in Leaves, n \in Nat :
          /\ l = LeavesOf[f][k] /\ Size[l] > 0 /\ a.at + n <= Size[l]
          /\ m = [type |-> "block", id |-> f, leaf |-> l, from |-> a.at,
                  len |-> n]
          /\ b = At(f, k, a.at + n)
    BY DEF SendsBlock
  <1>2. /\ StageOK(a) /\ a \in Stage /\ f \in Files
        /\ k \in Nat /\ a.at \in Nat /\ k > 0
    BY DEF SendsBlock, StageOK, Stage
  <1>3. k \in 1..Len(LeavesOf[f]) /\ Len(LeavesOf[f]) \in Nat /\ Size[l] \in Nat
    BY <1>1, <1>2, LeafFacts DEF StageOK
  <1>4. b \in Stage /\ b.file = f /\ b.item = k /\ b.at = a.at + n
        /\ a.at + n \in Nat
    BY <1>1, <1>2, StageFields
  <1>5. x \in Paths /\ x \in PathsBelow(f) /\ x # NoPath
    BY <1>2, <1>3, PathFacts
  <1>6. /\ p.cur = f /\ (p.folder <=> f \in Folders)
        /\ f \in Folders => p.dir = f
        /\ p.stream = x /\ p.open /\ p.at = a.at
        /\ DiskAt(d, a)
    BY <1>1, <1>2 DEF Receiving, StreamAt
  <1>7. d[x] = Part(l, a.at) /\ d[x] # Absent
    <2>1. d[x] = Part(l, a.at)
      BY <1>1, <1>2, <1>3, <1>6 DEF DiskAt
    <2>2. Part(l, a.at) # Absent
      BY <1>2, PartFacts
    <2> QED
      BY <2>1, <2>2
  <1> DEFINE received == p.received + n
             at == p.at + n
             q == [p EXCEPT !.at = at, !.received = received]
             e == [d EXCEPT ![x] = WriteAt(d[x], p.at, m)]
  <1>8. Parse(p, d, m) = Outcome(q, e, NoEvent)
    <2>1. m.type = "block" /\ m.len = n
      BY <1>1
    <2> HIDE DEF x
    <2>2. Parse(p, d, m) = OnBlock(p, d, m)
      BY <2>1 DEF Parse
    <2> QED
      BY <1>5, <1>6, <1>7, <2>1, <2>2 DEF OnBlock
  <1>9. /\ q.cur = p.cur /\ q.folder = p.folder /\ q.dir = p.dir
        /\ q.stream = p.stream /\ q.open = p.open /\ q.at = p.at + n
    <2> HIDE DEF received
    <2> QED
      BY DEF Parser
  <1>10. /\ \A y \in Paths : y # x => e[y] = d[y]
         /\ e[x] = Part(l, a.at + n)
    <2>1. WriteAt(d[x], p.at, m) = Part(l, a.at + n)
      BY <1>1, <1>2, <1>6, <1>7, WriteContinues
    <2> HIDE DEF x
    <2> QED
      BY <1>5, <2>1 DEF DiskOK
  <1> HIDE DEF q, e
  <1>11. StageOK(b)
    BY <1>1, <1>2, <1>3, <1>4 DEF StageOK
  <1>12. DiskAt(e, b)
    <2> SUFFICES ASSUME NEW i \in 1..Len(LeavesOf[f])
                 PROVE  e[PathAt(f, i)] =
                          IF i < k THEN Whole(LeavesOf[f][i])
                          ELSE IF i = k THEN Part(LeavesOf[f][i], a.at + n)
                          ELSE Absent
      BY <1>4 DEF DiskAt
    <2>1. CASE i = k
      BY <1>1, <1>10, <2>1
    <2>2. CASE i # k
      <3>1. e[PathAt(f, i)] = d[PathAt(f, i)]
        BY <1>2, <1>3, <1>10, <2>2, PathFacts
      <3> QED
        BY <1>6, <2>2, <3>1 DEF DiskAt
    <2> QED
      BY <2>1, <2>2
  <1>13. StreamAt(q, b)
    BY <1>1, <1>4, <1>6, <1>9 DEF StreamAt
  <1>14. Receiving(q, e, b)
    BY <1>4, <1>6, <1>9, <1>11, <1>12, <1>13 DEF Receiving
  <1>15. OnlyBelow(f, d, e)
    BY <1>5, <1>10 DEF OnlyBelow
  <1> QED
    BY <1>8, <1>14, <1>15 DEF Outcome

LEMMA EndFollows ==
  ASSUME NEW p \in Parser, NEW d, NEW a, NEW m, NEW b,
         SendsEnd(a, m, b), Receiving(p, d, a)
  PROVE  LET o == Parse(p, d, m)
         IN  /\ o.parser.stream = NoPath
             /\ o.disk = d
             /\ o.event = Ended
             /\ AllWhole(d, a.file)
  <1> DEFINE f == a.file
             q == CloseStream(p)
             c == [q EXCEPT !.received = 0]
  <1>1. Parse(p, d, m) = Outcome(c, d, Ended)
    BY DEF SendsEnd, Parse, OnFileEnd
  <1>2. c.stream = NoPath
    <2>1. q \in Parser /\ q.stream = NoPath
      BY DEF CloseStream, Parser
    <2> HIDE DEF q
    <2> QED
      BY <2>1 DEF Parser
  <1> HIDE DEF q, c
  <1>3. AllWhole(d, f)
    <2> SUFFICES ASSUME NEW i \in 1..Len(LeavesOf[f])
                 PROVE  d[PathAt(f, i)] = Whole(LeavesOf[f][i])
      BY DEF AllWhole
    <2>1. /\ f \in Files /\ a.item = Len(LeavesOf[f]) /\ ItemSent(a)
          /\ DiskAt(d, a)
      BY DEF SendsEnd, StageOK, Receiving
    <2>2. Len(LeavesOf[f]) \in Nat /\ LeavesOf[f][i] \in Leaves
          /\ Size[LeavesOf[f][i]] \in Nat
      BY <2>1, LeafFacts
    <2>3. CASE i = a.item
      <3>1. a.at = Size[LeavesOf[f][i]]
        BY <2>1, <2>2, <2>3 DEF ItemSent
      <3>2. d[PathAt(f, i)] = Part(LeavesOf[f][i], a.at)
        BY <2>1, <2>3 DEF DiskAt
      <3> QED
        BY <2>2, <3>1, <3>2, PartFacts
    <2>4. CASE i # a.item
      <3>1. i < a.item
        BY <2>1, <2>2, <2>4
      <3> QED
        BY <2>1, <3>1 DEF DiskAt
    <2> QED
      BY <2>3, <2>4
  <1> QED
    BY <1>1, <1>2, <1>3 DEF Outcome

LEMMA CancelFollows ==
  ASSUME NEW p \in Parser, NEW d, DiskOK(d), NEW a, NEW m, NEW b,
         SendsCanceled(a, m, b), Receiving(p, d, a)
  PROVE  LET o == Parse(p, d, m)
         IN  /\ o.parser.stream = NoPath
             /\ OnlyBelow(a.file, d, o.disk)
             /\ o.event = CancelSeen
             /\ NoStump(o.disk, a.file)
  <1> DEFINE f == a.file
             q == CloseStream(p)
             c == [q EXCEPT !.received = 0]
             gone == PathsBelow(IF p.folder THEN p.dir ELSE p.cur)
             e == IF p.stream = NoPath THEN d
                  ELSE [x \in Paths |-> IF x \in gone THEN Absent ELSE d[x]]
  <1>1. Parse(p, d, m) = Outcome(c, e, CancelSeen)
    BY DEF SendsCanceled, Parse, OnFileCancel
  <1>2. c.stream = NoPath
    <2>1. q \in Parser /\ q.stream = NoPath
      BY DEF CloseStream, Parser
    <2> HIDE DEF q
    <2> QED
      BY <2>1 DEF Parser
  <1>3. f \in Files /\ StageOK(a) /\ a.item \in Nat /\ DiskAt(d, a)
        /\ gone = PathsBelow(f)
    BY DEF SendsCanceled, StageOK, Stage, Receiving
  <1> HIDE DEF q, c, gone
  <1>4. OnlyBelow(f, d, e)
    BY <1>3 DEF OnlyBelow
  <1>5. NoStump(e, f)
    <2>1. CASE p.stream # NoPath
      BY <1>3, <2>1, PathFacts DEF NoStump
    <2>2. CASE p.stream = NoPath
      <3> SUFFICES ASSUME NEW i \in 1..Len(LeavesOf[f])
                   PROVE  d[PathAt(f, i)] \in {Absent, Whole(LeavesOf[f][i])}
        BY <2>2 DEF NoStump
      <3>1. LeavesOf[f][i] \in Leaves
        BY <1>3, LeafFacts
      <3>2. CASE i = a.item
        <4>1. a.item > 0 /\ StreamAt(p, a)
          BY <1>3, <3>2 DEF Receiving
        <4>2. Size[LeavesOf[f][i]] = 0
          BY <1>3, <2>2, <3>2, <4>1, PathFacts DEF StreamAt
        <4>3. a.at = 0
          BY <1>3, <3>2, <4>1, <4>2 DEF StageOK, Stage
        <4>4. d[PathAt(f, i)] = Part(LeavesOf[f][i], 0)
          BY <1>3, <3>2, <4>3 DEF DiskAt
        <4>5. Part(LeavesOf[f][i], 0) = Whole(LeavesOf[f][i])
          BY <4>2 DEF Part, Whole
        <4> QED
          BY <4>4, <4>5
      <3>3. CASE i # a.item
        BY <1>3, <3>3 DEF DiskAt
      <3> QED
        BY <3>2, <3>3
    <2> QED
      BY <2>1, <2>2
  <1> HIDE DEF e
  <1> QED
    BY <1>1, <1>2, <1>4, <1>5 DEF Outcome

\* The file a message is about.
FileOfStep(a, b) == IF a.file = NoFile THEN b.file ELSE a.file

\* The parser keeps to the stages: if a file's paths are empty when its header
\* arrives, the disk holds the part of it that has been sent so far; file_end
\* finds every leaf whole, file_canceled leaves none truncated; and no other
\* file is touched.
THEOREM ParserFollows ==
  ASSUME Apart, NEW p \in Parser, NEW d, DiskOK(d), NEW a, NEW m, NEW b,
         Sends(a, m, b), ParserAt(p, d, a),
         a.file = NoFile => Untouched(d, b.file)
  PROVE  LET o == Parse(p, d, m)
             f == FileOfStep(a, b)
         IN  /\ ParserAt(o.parser, o.disk, b)
             /\ OnlyBelow(f, d, o.disk)
             /\ b.file # NoFile => o.event = NoEvent
             /\ b.file = NoFile => /\ p.cur = f
                                   /\ o.parser.stream = NoPath
                                   /\ \/ /\ m.type = "file_end"
                                         /\ o.event = Ended
                                         /\ AllWhole(o.disk, f)
                                      \/ /\ m.type = "file_canceled"
                                         /\ o.event = CancelSeen
                                         /\ NoStump(o.disk, f)
  <1>0. NoFile \notin Files /\ Rest.file = NoFile /\ Folders \subseteq Files
    BY BuilderAssumption, RestFields
  <1>1. ASSUME SendsFileHeader(a, m, b) \/ SendsDirHeader(a, m, b)
        PROVE  a.file = NoFile /\ b.file # NoFile
    BY <1>0, <1>1, StageFields DEF SendsFileHeader, SendsDirHeader
  <1>2. ASSUME \/ SendsItemHeader(a, m, b) \/ SendsBlock(a, m, b)
               \/ SendsEnd(a, m, b) \/ SendsCanceled(a, m, b)
        PROVE  a.file # NoFile /\ Receiving(p, d, a) /\ p.cur = a.file
    BY <1>0, <1>2 DEF SendsItemHeader, SendsBlock, SendsEnd, SendsCanceled,
         StageOK, ParserAt, Receiving
  <1>3. ASSUME SendsItemHeader(a, m, b) \/ SendsBlock(a, m, b)
        PROVE  b.file = a.file
    <2>1. a.item \in Nat /\ a.at \in Nat /\ a.file \in Files
      BY <1>3 DEF SendsItemHeader, SendsBlock, StageOK, Stage
    <2> QED
      BY <1>3, <2>1, StageFields DEF SendsItemHeader, SendsBlock
  <1>4. CASE SendsFileHeader(a, m, b)
    BY <1>1, <1>4, FileHeaderFollows DEF ParserAt, FileOfStep
  <1>5. CASE SendsDirHeader(a, m, b)
    BY <1>1, <1>5, DirHeaderFollows DEF ParserAt, FileOfStep
  <1>6. CASE SendsItemHeader(a, m, b)
    BY <1>2, <1>3, <1>6, ItemHeaderFollows DEF ParserAt, FileOfStep
  <1>7. CASE SendsBlock(a, m, b)
    BY <1>2, <1>3, <1>7, BlockFollows DEF ParserAt, FileOfStep
  <1>8. CASE SendsEnd(a, m, b)
    <2>1. b.file = NoFile /\ m.type = "file_end"
      BY <1>0, <1>8 DEF SendsEnd
    <2>2. OnlyBelow(a.file, d, d)
      BY DEF OnlyBelow
    <2> QED
      BY <1>2, <1>8, <2>1, <2>2, EndFollows DEF ParserAt, FileOfStep
  <1>9. CASE SendsCanceled(a, m, b)
    <2>1. b.file = NoFile /\ m.type = "file_canceled"
      BY <1>0, <1>9 DEF SendsCanceled
    <2> QED
      BY <1>2, <1>9, <2>1, CancelFollows DEF ParserAt, FileOfStep
  <1> QED
    BY <1>4, <1>5, <1>6, <1>7, <1>8, <1>9 DEF Sends

-----------------------------------------------------------------------------
(* The queue and the tasks *)

queueState == <<pending, turn, pc, task, fate, upload>>

\* The part of TypeOK that the queue's invariant needs.
QueueTypeOK ==
    /\ pending \in SUBSET Requests
    /\ turn \in [Requests -> Nat]
    /\ pc \in [Senders -> ThreadStates]
    /\ task \in [Senders -> Requests \cup {NoRequest}]
    /\ fate \in [Requests -> {"new", "waiting", "withdrawn", "taken", "over"}]
    /\ upload \in [Requests -> {"none", "progress", "complete"}]

QueueIInv == QueueTypeOK /\ QueueInv

LEMMA QueueInit == Init => QueueIInv
  BY SyncAssumption
     DEF Init, QueueIInv, QueueTypeOK, QueueInv, OneHolder, Busy, ThreadStates

\* Only an idle thread is started, joined or told to leave its loop.
OnlyIdleThreadsMove ==
    /\ \A s \in Senders : pc'[s] # pc[s] => ~Busy(s) /\ ~Busy(s)'
    /\ pc' \in [Senders -> ThreadStates]
    /\ UNCHANGED <<pending, turn, task, fate, upload>>

LEMMA IdleThreadsMove ==
  ASSUME QueueIInv, OnlyIdleThreadsMove
  PROVE  QueueIInv'
  <1>1. QueueTypeOK'
    BY DEF QueueIInv, QueueTypeOK, OnlyIdleThreadsMove
  <1>2. \A s \in Senders : Busy(s)' <=> Busy(s)
    BY DEF OnlyIdleThreadsMove, Busy
  <1>3. \A s \in Senders :
           pc'[s] \in {"begin", "stream", "report"} => pc'[s] = pc[s]
    BY DEF OnlyIdleThreadsMove, Busy
  <1>4. QueueInv'
    BY <1>2, <1>3 DEF QueueIInv, QueueInv, OneHolder, OnlyIdleThreadsMove
  <1> QED
    BY <1>1, <1>4 DEF QueueIInv

\* Submit gives the request a turn after all others.
LEMMA SubmitQueue ==
  ASSUME QueueIInv, NEW r \in Requests, Submit(r)
  PROVE  QueueIInv'
  <1> USE DEF QueueIInv, QueueTypeOK, Submit, threadVars
  <1>1. PICK last \in {turn[q] : q \in Requests} :
           /\ \A q \in Requests : turn[q] <= last
           /\ turn' = [turn EXCEPT ![r] = last + 1]
    OBVIOUS
  <1>2. QueueTypeOK'
    BY <1>1
  <1>3. r \notin pending /\ \A s \in Senders : task[s] # r
    BY DEF QueueInv, OneHolder
  <1>4. OneHolder'
    BY <1>3 DEF QueueInv, OneHolder
  <1>5. \A q, p \in pending' : turn'[q] = turn'[p] => q = p
    BY <1>1, <1>3 DEF QueueInv
  <1> QED
    BY <1>2, <1>4, <1>5 DEF QueueInv, Busy

LEMMA WithdrawQueue ==
  ASSUME QueueIInv, NEW f \in Files, Withdraw(f)
  PROVE  QueueIInv'
  BY DEF QueueIInv, QueueTypeOK, Withdraw, threadVars, QueueInv, OneHolder, Busy

LEMMA TakeTaskQueue ==
  ASSUME QueueIInv, NEW s \in Senders, TakeTask(s)
  PROVE  QueueIInv'
  BY SyncAssumption
     DEF QueueIInv, QueueTypeOK, TakeTask, First, Remaining, QueueInv,
         OneHolder, Busy, ThreadStates

\* The thread's own steps between taking a task and dropping it.
LEMMA WorkQueue ==
  ASSUME QueueIInv, NEW s \in Senders,
         BeginTask(s) \/ StreamNext(s) \/ ReportEnd(s) \/ ForgetFile(s)
  PROVE  QueueIInv'
  <1> USE DEF QueueIInv, QueueTypeOK
  <1>1. /\ Busy(s) /\ Busy(s)'
        /\ task[s] \in Requests
        /\ fate[task[s]] = "taken"
        /\ \A t \in Senders \ {s} : task[t] # task[s]
    BY SyncAssumption DEF BeginTask, StreamNext, ReportEnd, ForgetFile,
         QueueInv, OneHolder, Busy, ThreadStates
  <1>2. /\ UNCHANGED <<pending, turn, task, fate>>
        /\ \E p \in {"stream", "report", "forget", "reset"} :
              pc' = [pc EXCEPT ![s] = p]
        /\ \/ UNCHANGED upload
           \/ upload' = [upload EXCEPT ![task[s]] = "progress"]
           \/ /\ upload' = [upload EXCEPT ![task[s]] = "complete"]
              /\ pc' = [pc EXCEPT ![s] = "forget"]
    BY DEF BeginTask, StreamNext, ReportEnd, ForgetFile, engineVars, queue,
           history
  <1>3. /\ QueueTypeOK'
        /\ \A t \in Senders : Busy(t)' <=> Busy(t)
    BY <1>1, <1>2 DEF Busy, ThreadStates
  <1>4. \A t \in Senders :
           pc'[t] \in {"begin", "stream", "report"} => upload'[task[t]] # "complete"
    <2> SUFFICES ASSUME NEW t \in Senders,
                        pc'[t] \in {"begin", "stream", "report"}
                 PROVE  upload'[task[t]] # "complete"
      OBVIOUS
    <2>1. CASE t = s
      <3>1. pc[s] \in {"begin", "stream"}
        BY <1>2, <2>1 DEF BeginTask, StreamNext, ReportEnd, ForgetFile
      <3> QED
        BY <1>1, <1>2, <2>1, <3>1 DEF QueueInv
    <2>2. CASE t # s
      <3>1. /\ upload[task[t]] # "complete"
            /\ task[t] \in Requests \ {task[s]}
        BY <1>1, <1>2, <2>2 DEF QueueInv, Busy
      <3> QED
        BY <1>1, <1>2, <3>1
    <2> QED
      BY <2>1, <2>2
  <1>5. \A r \in Requests :
           fate[r] \in {"new", "waiting", "withdrawn"} => upload'[r] = "none"
    BY <1>1, <1>2 DEF QueueInv
  <1>6. OneHolder'
    BY <1>2 DEF QueueInv, OneHolder
  <1>7. /\ \A t \in Senders : Busy(t)' <=> task'[t] # NoRequest
        /\ \A q, r \in pending' : turn'[q] = turn'[r] => q = r
    BY <1>2, <1>3 DEF QueueInv
  <1>8. QueueInv'
    <2>1. /\ \A r \in Requests :
                fate'[r] \in {"new", "waiting", "withdrawn"} => upload'[r] = "none"
          /\ \A t \in Senders :
                pc'[t] \in {"begin", "stream", "report"} =>
                    upload'[task'[t]] # "complete"
      BY <1>2, <1>4, <1>5
    <2> QED
      BY <1>6, <1>7, <2>1 DEF QueueInv
  <1> QED
    BY <1>3, <1>8

LEMMA ResetCancelQueue ==
  ASSUME QueueIInv, NEW s \in Senders, ResetCancel(s)
  PROVE  QueueIInv'
  BY SyncAssumption
     DEF QueueIInv, QueueTypeOK, ResetCancel, engineVars, queue, QueueInv,
         OneHolder, Busy, ThreadStates

\* New threads are given names that no thread with a task has.
LEMMA StartSendersQueue ==
  ASSUME QueueIInv, NEW want, StartSenders(want),
         UNCHANGED <<pending, turn, task, fate, upload>>
  PROVE  QueueIInv'
  <1>1. PICK n \in (IF Faults THEN 0..want ELSE {want}) :
          \E new \in [1..n -> {s \in Senders : Free(s)}] :
          \E fresh \in SUBSET Elems(new) : Launch(new, fresh)
    BY DEF StartSenders
  <1>2. PICK new \in [1..n -> {s \in Senders : Free(s)}] :
          \E fresh \in SUBSET Elems(new) : Launch(new, fresh)
    BY <1>1
  <1>3. \A s \in Elems(new) : pc[s] \in {"unborn", "closed"}
    BY <1>2 DEF Elems, Free
  <1>4. OnlyIdleThreadsMove
    BY <1>2, <1>3 DEF Launch, QueueIInv, QueueTypeOK, OnlyIdleThreadsMove,
                      Busy, ThreadStates
  <1> QED
    BY <1>4, IdleThreadsMove

LEMMA StillQueue ==
  ASSUME QueueIInv, UNCHANGED queueState
  PROVE  QueueIInv'
  BY DEF QueueIInv, QueueTypeOK, queueState, QueueInv, OneHolder, Busy

LEMMA QueueStep == QueueIInv /\ [Next]_vars => QueueIInv'
  <1> SUFFICES ASSUME QueueIInv, [Next]_vars
               PROVE  QueueIInv'
    OBVIOUS
  <1> USE DEF engineVars, queue, threadVars, peerVars, bounds, history
  <1>1. ASSUME NEW s \in Senders, ThreadStep(s)
        PROVE  QueueIInv'
    <2>1. CASE LookForWork(s)
      <3>1. OnlyIdleThreadsMove
        BY <2>1 DEF LookForWork, QueueIInv, QueueTypeOK, OnlyIdleThreadsMove,
                    Busy, ThreadStates
      <3> QED
        BY <3>1, IdleThreadsMove
    <2>2. CASE TakeTask(s)
      BY <2>2, TakeTaskQueue
    <2>3. CASE ResetCancel(s)
      BY <2>3, ResetCancelQueue
    <2> QED
      BY <1>1, <2>1, <2>2, <2>3, WorkQueue DEF ThreadStep
  <1>2. ASSUME NEW s \in Senders, Receive(s) \/ FlagSender(s) \/ Break(s)
        PROVE  QueueIInv'
    BY <1>2, StillQueue DEF Receive, FlagSender, Break, queueState
  <1>3. ASSUME EngineStep
        PROVE  QueueIInv'
    <2>1. CASE InitFileSenders
      BY <2>1, StartSendersQueue DEF InitFileSenders
    <2>2. CASE RemoveLast \/ StopDone
      BY <2>2, StillQueue DEF RemoveLast, StopDone, queueState
    <2>3. CASE JoinRemoved \/ \E s \in Senders : JoinListed(s)
      <3>1. PICK x : pc[x] = "exited" /\ pc' = [pc EXCEPT ![x] = "closed"]
        BY <2>3 DEF JoinRemoved, JoinListed
      <3>2. OnlyIdleThreadsMove
        BY <2>3, <3>1 DEF JoinRemoved, JoinListed, QueueIInv, QueueTypeOK,
                     OnlyIdleThreadsMove, Busy, ThreadStates
      <3> QED
        BY <3>2, IdleThreadsMove
    <2> QED
      BY <1>3, <2>1, <2>2, <2>3 DEF EngineStep
  <1>4. ASSUME Start \/ Stop \/ \E f \in Files : FindSender(f)
        PROVE  QueueIInv'
    BY <1>4, StillQueue DEF Start, Stop, FindSender, queueState
  <1>5. ASSUME NEW num \in Concurrency, Grow(num) \/ Shrink(num)
        PROVE  QueueIInv'
    <2>1. CASE Grow(num)
      BY <2>1, StartSendersQueue DEF Grow
    <2>2. CASE Shrink(num)
      BY <2>2, StillQueue DEF Shrink, queueState
    <2> QED
      BY <1>5, <2>1, <2>2
  <1>6. CASE UNCHANGED vars
    BY <1>6, StillQueue DEF vars, queueState
  <1> QED
    BY <1>1, <1>2, <1>3, <1>4, <1>5, <1>6, SubmitQueue, WithdrawQueue
       DEF Next, Environment

\* Each queued request is in the queue or with exactly one sender, whatever
\* the interleaving of senders, cancels, restarts and resizes.
THEOREM QueueInvariant == Spec => []QueueInv
  <1>1. QueueIInv => QueueInv
    BY DEF QueueIInv
  <1> QED
    BY <1>1, QueueInit, QueueStep, PTL DEF Spec

THEOREM OneHolderAlways == Spec => []OneHolder
  <1>1. QueueInv => OneHolder
    BY DEF QueueInv
  <1> QED
    BY <1>1, QueueInvariant, PTL

-----------------------------------------------------------------------------
(* The engine implements the abstract queue *)

LEMMA QueueInitRefines == Init => Queue!Init
  BY DEF Init, Queue!Init

\* A step that leaves the queue, the tasks and the completed requests alone.
LEMMA QueueStutter ==
  ASSUME UNCHANGED <<pending, turn, task, fate, upload>>
  PROVE  UNCHANGED Queue!vars
  BY DEF Queue!vars

LEMMA SubmitArrives ==
  ASSUME QueueIInv, NEW r \in Requests, Submit(r)
  PROVE  Queue!Arrive(r)
  <1> USE DEF QueueIInv, QueueTypeOK
  <1>1. PICK last \in {turn[q] : q \in Requests} :
           /\ \A q \in Requests : turn[q] <= last
           /\ turn' = [turn EXCEPT ![r] = last + 1]
    BY DEF Submit
  <1>2. /\ turn' = [turn EXCEPT ![r] = turn'[r]]
        /\ \A q \in pending : turn[q] < turn'[r]
    BY <1>1
  <1>3. /\ fate[r] = "new"
        /\ fate' = [fate EXCEPT ![r] = "waiting"]
        /\ pending' = pending \cup {r}
        /\ UNCHANGED <<task, upload>>
    BY DEF Submit, threadVars
  <1>4. {q \in Requests : fate'[q] # "new"}
          = {q \in Requests : fate[q] # "new"} \cup {r}
    BY <1>3
  <1> QED
    BY <1>2, <1>3, <1>4 DEF Queue!Arrive

LEMMA WithdrawRefines ==
  ASSUME QueueIInv, NEW f \in Files, Withdraw(f)
  PROVE  Queue!Withdraw(f)
  <1> USE DEF QueueIInv, QueueTypeOK
  <1>1. {r \in Requests : fate'[r] # "new"} = {r \in Requests : fate[r] # "new"}
    BY DEF Withdraw, QueueInv, OneHolder
  <1>2. pending' = {r \in pending : FileOf[r] # f}
    BY DEF Withdraw
  <1> QED
    BY <1>1, <1>2 DEF Withdraw, Queue!Withdraw, threadVars

LEMMA TakeTaskRefines ==
  ASSUME QueueIInv, NEW s \in Senders, TakeTask(s)
  PROVE  (\E r \in Requests : Queue!HandOut(s, r)) \/ UNCHANGED Queue!vars
  <1> USE DEF QueueIInv, QueueTypeOK
  <1>1. CASE UNCHANGED <<pending, task, fate>>
    BY <1>1, QueueStutter DEF TakeTask
  <1>2. ASSUME NEW r \in Requests, First(r),
               task' = [task EXCEPT ![s] = r],
               pending' = Remaining(r),
               fate' = [fate EXCEPT ![r] = "taken"]
        PROVE  Queue!HandOut(s, r)
    <2>1. /\ task[s] = NoRequest
          /\ r \in pending
          /\ fate[r] = "waiting"
      BY <1>2 DEF TakeTask, First, QueueInv, OneHolder, Busy
    <2>2. \A q \in pending \ {r} : turn[r] < turn[q]
      BY <1>2 DEF First, QueueInv
    <2>3. {q \in Requests : fate'[q] # "new"} = {q \in Requests : fate[q] # "new"}
      BY <1>2, <2>1
    <2> QED
      BY <1>2, <2>1, <2>2, <2>3 DEF TakeTask, Remaining, Queue!HandOut
  <1> QED
    BY <1>1, <1>2 DEF TakeTask

LEMMA WorkRefines ==
  ASSUME QueueIInv, NEW s \in Senders,
         BeginTask(s) \/ StreamNext(s) \/ ReportEnd(s) \/ ForgetFile(s)
  PROVE  Queue!Complete(s) \/ UNCHANGED Queue!vars
  <1> USE DEF QueueIInv, QueueTypeOK
  <1>1. task[s] \in Requests
    BY DEF BeginTask, StreamNext, ReportEnd, ForgetFile, QueueInv, Busy
  <1>2. UNCHANGED <<pending, turn, task, fate>>
    BY DEF BeginTask, StreamNext, ReportEnd, ForgetFile, engineVars, queue,
           history
  <1>3. CASE UNCHANGED upload
    BY <1>2, <1>3, QueueStutter
  <1>4. CASE /\ upload' = [upload EXCEPT ![task[s]] = "progress"]
             /\ upload[task[s]] # "complete"
    <2>1. {r \in Requests : upload'[r] = "complete"}
            = {r \in Requests : upload[r] = "complete"}
      BY <1>1, <1>4
    <2> QED
      BY <1>2, <2>1 DEF Queue!vars
  <1>5. CASE /\ upload' = [upload EXCEPT ![task[s]] = "complete"]
             /\ upload[task[s]] # "complete"
    <2>1. {r \in Requests : upload'[r] = "complete"}
            = {r \in Requests : upload[r] = "complete"} \cup {task[s]}
      BY <1>1, <1>5
    <2> QED
      BY <1>1, <1>2, <1>5, <2>1 DEF Queue!Complete
  <1>6. pc[s] \in {"stream", "report"} => upload[task[s]] # "complete"
    BY DEF QueueInv
  <1> QED
    BY <1>3, <1>4, <1>5, <1>6
       DEF BeginTask, StreamNext, ReportEnd, ForgetFile, history

LEMMA ResetCancelReleases ==
  ASSUME QueueIInv, NEW s \in Senders, ResetCancel(s)
  PROVE  Queue!Release(s)
  <1> USE DEF QueueIInv, QueueTypeOK
  <1>1. task[s] \in Requests /\ fate[task[s]] = "taken"
    BY DEF ResetCancel, QueueInv, OneHolder, Busy
  <1>2. {r \in Requests : fate'[r] # "new"} = {r \in Requests : fate[r] # "new"}
    BY <1>1 DEF ResetCancel
  <1> QED
    BY <1>1, <1>2, SyncAssumption
       DEF ResetCancel, Queue!Release, engineVars, queue

\* Every step is a step of the abstract queue or leaves it alone.
LEMMA StepRefines == QueueIInv /\ [Next]_vars => [Queue!Next]_(Queue!vars)
  <1> SUFFICES ASSUME QueueIInv, [Next]_vars
               PROVE  Queue!Next \/ UNCHANGED Queue!vars
    OBVIOUS
  <1> USE DEF engineVars, queue, threadVars, peerVars, bounds, history
  <1>1. ASSUME NEW s \in Senders, ThreadStep(s)
        PROVE  Queue!Next \/ UNCHANGED Queue!vars
    <2>1. CASE LookForWork(s)
      BY <2>1, QueueStutter DEF LookForWork
    <2>2. CASE TakeTask(s)
      BY <2>2, TakeTaskRefines DEF Queue!Next
    <2>3. CASE ResetCancel(s)
      BY <2>3, ResetCancelReleases DEF Queue!Next
    <2>4. CASE BeginTask(s) \/ StreamNext(s) \/ ReportEnd(s) \/ ForgetFile(s)
      BY <2>4, WorkRefines DEF Queue!Next
    <2> QED
      BY <1>1, <2>1, <2>2, <2>3, <2>4 DEF ThreadStep
  <1>2. ASSUME NEW s \in Senders, Receive(s) \/ FlagSender(s) \/ Break(s)
        PROVE  UNCHANGED Queue!vars
    BY <1>2, QueueStutter DEF Receive, FlagSender, Break
  <1>3. ASSUME EngineStep
        PROVE  UNCHANGED Queue!vars
    BY <1>3, QueueStutter
       DEF EngineStep, InitFileSenders, RemoveLast, JoinRemoved, StopDone,
           JoinListed
  <1>4. ASSUME Start \/ Stop \/ \E f \in Files : FindSender(f)
        PROVE  UNCHANGED Queue!vars
    BY <1>4, QueueStutter DEF Start, Stop, FindSender
  <1>5. ASSUME NEW num \in Concurrency, Grow(num) \/ Shrink(num)
        PROVE  UNCHANGED Queue!vars
    BY <1>5, QueueStutter DEF Grow, Shrink
  <1>6. ASSUME NEW r \in Requests, Submit(r)
        PROVE  Queue!Next
    BY <1>6, SubmitArrives DEF Queue!Next
  <1>7. ASSUME NEW f \in Files, Withdraw(f)
        PROVE  Queue!Next
    BY <1>7, WithdrawRefines DEF Queue!Next
  <1>8. CASE UNCHANGED vars
    BY <1>8, QueueStutter DEF vars
  <1> QED
    BY <1>1, <1>2, <1>3, <1>4, <1>5, <1>6, <1>7, <1>8 DEF Next, Environment

\* The engine with its threads, cancels, restarts and resizes hands requests
\* out in the order of arrival, each to one sender at a time.
THEOREM EngineImplementsQueue == Spec => ImplementsQueue
  BY QueueInitRefines, QueueInit, QueueStep, StepRefines, PTL
     DEF Spec, ImplementsQueue, Queue!Spec

-----------------------------------------------------------------------------
(* Types.  Those of the builders need more than the types: a thread that     *)
(* sends has a file, a reader stands inside its file, and no more senders    *)
(* are being removed than are listed.                                        *)

EngineIInv ==
    /\ engine \in {"off", "listening", "on", "stopping"}
    /\ listed \in Seq(Senders)
    /\ resize \in [left : Nat, join : Senders \cup {NoSender}]
    /\ found \in SUBSET Senders
    /\ resize # Idle => engine = "on"
    /\ resize.left <= Len(listed)

ThreadIInv ==
    /\ current \in [Senders -> Files \cup {NoFile}]
    /\ builder \in [Senders -> Builder]
    /\ running \in [Senders -> BOOLEAN]
    /\ cancel \in [Senders -> BOOLEAN]
    /\ \A s \in Senders : /\ BuilderOK(builder[s])
                          /\ pc[s] = "stream" => builder[s].file \in Files

PastTypeOK ==
    /\ download \in [Files -> {NoEvent, Ended, CancelSeen}]
    /\ born \in [Requests -> Nat]
    /\ asked \in SUBSET Files
    /\ sessions \in Nat
    /\ stops \in Nat
    /\ resizes \in Nat

TypeIInv == QueueIInv /\ EngineIInv /\ ThreadIInv /\ PeerTypeOK /\ PastTypeOK

LEMMA TypeIInvTypeOK == TypeIInv => TypeOK
  BY DEF TypeIInv, QueueIInv, QueueTypeOK, EngineIInv, ThreadIInv, PastTypeOK,
         TypeOK, EngineTypeOK, ThreadTypeOK, HistoryTypeOK

LEMMA TypeInit == Init => TypeIInv
  <1> SUFFICES ASSUME Init PROVE TypeIInv
    OBVIOUS
  <1>1. EngineIInv
    BY DEF Init, EngineIInv, Idle
  <1>2. ThreadIInv
    BY NewBuilderOK DEF Init, ThreadIInv, BuilderOK
  <1>3. PeerTypeOK
    BY NewParserOK DEF Init, PeerTypeOK, DiskOK
  <1>4. PastTypeOK
    BY DEF Init, PastTypeOK
  <1> QED
    BY <1>1, <1>2, <1>3, <1>4, QueueInit DEF TypeIInv

-----------------------------------------------------------------------------
(* The engine's part *)

LEMMA LaunchEngine ==
  ASSUME EngineIInv, NEW want \in Nat, StartSenders(want), resize = Idle,
         UNCHANGED <<resize, found>>, engine' = "on"
  PROVE  EngineIInv'
  <1>1. PICK n \in (IF Faults THEN 0..want ELSE {want}) :
          \E new \in [1..n -> {s \in Senders : Free(s)}] :
          \E fresh \in SUBSET Elems(new) : Launch(new, fresh)
    BY DEF StartSenders
  <1>2. PICK new \in [1..n -> {s \in Senders : Free(s)}] :
          \E fresh \in SUBSET Elems(new) : Launch(new, fresh)
    BY <1>1
  <1>3. n \in Nat /\ new \in Seq(Senders)
    BY <1>1, <1>2
  <1>4. listed' = listed \o new
    BY <1>2 DEF Launch
  <1>5. listed' \in Seq(Senders) /\ Len(listed') \in Nat
    BY <1>3, <1>4, ConcatProperties, LenProperties DEF EngineIInv
  <1> QED
    BY <1>5 DEF EngineIInv, Idle

LEMMA EngineInvStep ==
  ASSUME EngineIInv, [Next]_vars
  PROVE  EngineIInv'
  <1> USE DEF engineVars, queue, threadVars, peerVars, bounds, history
  <1> DEFINE same == UNCHANGED <<engine, listed, resize, found>>
  <1>0. Len(listed) \in Nat
    BY LenProperties DEF EngineIInv
  <1>1. same => EngineIInv'
    BY DEF EngineIInv
  <1>2. ASSUME NEW s \in Senders, ThreadStep(s) \/ Receive(s) \/ Break(s)
        PROVE  same
    BY <1>2 DEF ThreadStep, LookForWork, TakeTask, BeginTask, StreamNext,
         ReportEnd, ForgetFile, ResetCancel, Receive, Break
  <1>3. ASSUME NEW s \in Senders, FlagSender(s)
        PROVE  EngineIInv'
    BY <1>3 DEF FlagSender, EngineIInv
  <1>4. ASSUME NEW s \in Senders, JoinListed(s)
        PROVE  same
    BY <1>4 DEF JoinListed
  <1>5. CASE InitFileSenders
    <2>1. resize = Idle
      BY <1>5 DEF InitFileSenders, EngineIInv
    <2> QED
      BY <1>5, <2>1, LaunchEngine, SyncAssumption DEF InitFileSenders
  <1>6. CASE RemoveLast
    <2>1. /\ Len(listed) \in 1..Len(listed)
          /\ resize.left \in Nat \ {0} /\ resize # Idle
      BY <1>0, <1>6 DEF RemoveLast, EngineIInv, Idle
    <2>2. listed[Len(listed)] \in Senders
      BY <2>1, ElementOfSeq DEF EngineIInv
    <2>3. /\ listed' \in Seq(Senders)
          /\ Len(listed') = Len(listed) - 1
      <3> DEFINE n == Len(listed) - 1
      <3>1. n \in Nat /\ n < Len(listed)
        BY <1>0, <2>1
      <3>2. listed' = SubSeq(listed, 1, n)
        BY <1>6 DEF RemoveLast
      <3> HIDE DEF n
      <3>3. \A i \in 1..n : listed[i] \in Senders
        BY <1>0, <3>1, ElementOfSeq DEF EngineIInv
      <3>4. listed' \in Seq(Senders) /\ Len(listed') = IF 1 <= n THEN n - 1 + 1 ELSE 0
        BY <3>1, <3>2, <3>3, SubSeqProperties
      <3>5. Len(listed') = n
        BY <3>1, <3>4
      <3> QED
        BY <3>4, <3>5 DEF n
    <2> QED
      BY <1>0, <1>6, <2>1, <2>2, <2>3 DEF RemoveLast, EngineIInv
  <1>7. CASE JoinRemoved
    BY <1>7 DEF JoinRemoved, EngineIInv, Idle
  <1>8. CASE StopDone
    <2>1. resize = Idle
      BY <1>8 DEF StopDone, EngineIInv
    <2> QED
      BY <1>8, <2>1 DEF StopDone, EngineIInv, Idle
  <1>9. CASE Start
    BY <1>9 DEF Start, EngineIInv
  <1>10. CASE Stop
    BY <1>10 DEF Stop, EngineIInv
  <1>11. ASSUME NEW r \in Requests, Submit(r)
         PROVE  same
    BY <1>11 DEF Submit
  <1>12. ASSUME NEW f \in Files, Withdraw(f)
         PROVE  same
    BY <1>12 DEF Withdraw
  <1>13. ASSUME NEW f \in Files, FindSender(f)
         PROVE  EngineIInv'
    <2>1. \A i \in DOMAIN listed : listed[i] \in Senders
      BY ElementOfSeq, LenProperties DEF EngineIInv
    <2>2. found' \in SUBSET Senders
      BY <1>13, <2>1 DEF FindSender, EngineIInv
    <2> QED
      BY <1>13, <2>2 DEF FindSender, EngineIInv
  <1>14. ASSUME NEW num \in Concurrency, Grow(num)
         PROVE  EngineIInv'
    <2>1. num \in Nat /\ num >= Len(listed)
      BY <1>14, SyncAssumption DEF Grow
    <2>2. num - Len(listed) \in Nat
      BY <1>0, <2>1
    <2> QED
      BY <1>14, <2>2, LaunchEngine DEF Grow
  <1>15. ASSUME NEW num \in Concurrency, Shrink(num)
         PROVE  EngineIInv'
    <2>1. num \in Nat /\ num < Len(listed)
      BY <1>15, SyncAssumption DEF Shrink
    <2>2. /\ Len(listed) - num \in Nat
          /\ Len(listed) - num <= Len(listed)
      BY <1>0, <2>1
    <2> QED
      BY <1>15, <2>2 DEF Shrink, Surplus, EngineIInv
  <1>16. CASE UNCHANGED vars
    BY <1>16 DEF vars, EngineIInv
  <1> HIDE DEF same
  <1> QED
    BY <1>1, <1>2, <1>3, <1>4, <1>5, <1>6, <1>7, <1>8, <1>9, <1>10, <1>11,
       <1>12, <1>13, <1>14, <1>15, <1>16 DEF Next, EngineStep, Environment

-----------------------------------------------------------------------------
(* The threads' part *)

threadState == <<current, builder, running, cancel>>

\* No thread begins to send.
NoneBegins == \A s \in Senders : pc'[s] = "stream" => pc[s] = "stream"

LEMMA LaunchThreads ==
  ASSUME ThreadIInv, QueueTypeOK, NEW want, StartSenders(want),
         UNCHANGED current
  PROVE  ThreadIInv'
  <1>1. PICK n \in (IF Faults THEN 0..want ELSE {want}) :
          \E new \in [1..n -> {s \in Senders : Free(s)}] :
          \E fresh \in SUBSET Elems(new) : Launch(new, fresh)
    BY DEF StartSenders
  <1>2. PICK new \in [1..n -> {s \in Senders : Free(s)}] :
          \E fresh \in SUBSET Elems(new) : Launch(new, fresh)
    BY <1>1
  <1>3. NewBuilder \in Builder
    BY NewBuilderOK DEF BuilderOK
  <1>4. builder' \in [Senders -> Builder]
    BY <1>2, <1>3 DEF Launch, ThreadIInv
  <1>5. running' \in [Senders -> BOOLEAN] /\ cancel' \in [Senders -> BOOLEAN]
    BY <1>2 DEF Launch, ThreadIInv
  <1>6. \A s \in Senders : /\ BuilderOK(builder'[s])
                           /\ pc'[s] = "stream" => builder'[s].file \in Files
    <2> SUFFICES ASSUME NEW s \in Senders
                 PROVE  /\ BuilderOK(builder'[s])
                        /\ pc'[s] = "stream" => builder'[s].file \in Files
      OBVIOUS
    <2>1. \/ builder'[s] = NewBuilder /\ pc'[s] = "check"
          \/ builder'[s] = builder[s] /\ pc'[s] = pc[s]
      BY <1>2 DEF Launch
    <2> QED
      BY <2>1, NewBuilderOK DEF ThreadIInv
  <1> QED
    BY <1>4, <1>5, <1>6 DEF ThreadIInv

LEMMA ThreadInvStep ==
  ASSUME ThreadIInv, QueueIInv, EngineIInv, [Next]_vars
  PROVE  ThreadIInv'
  <1> USE DEF engineVars, queue, threadVars, peerVars, bounds, history
  <1> DEFINE same == UNCHANGED threadState /\ NoneBegins
             flags == /\ NoneBegins
                      /\ UNCHANGED builder
                      /\ current' \in [Senders -> Files \cup {NoFile}]
                      /\ running' \in [Senders -> BOOLEAN]
                      /\ cancel' \in [Senders -> BOOLEAN]
  <1>1. same \/ flags => ThreadIInv'
    BY DEF ThreadIInv, threadState, NoneBegins
  <1>2. ASSUME NEW s \in Senders,
               LookForWork(s) \/ TakeTask(s) \/ ReportEnd(s)
        PROVE  same
    BY <1>2 DEF LookForWork, TakeTask, ReportEnd, threadState, NoneBegins,
         QueueIInv, QueueTypeOK
  <1>3. ASSUME NEW s \in Senders, BeginTask(s)
        PROVE  ThreadIInv'
    <2> DEFINE f == FileOf[task[s]]
    <2>1. f \in Files
      BY <1>3, SyncAssumption
         DEF BeginTask, QueueIInv, QueueTypeOK, QueueInv, Busy
    <2>2. builder[s] \in Builder /\ BuilderOK(builder[s])
      BY DEF ThreadIInv
    <2> HIDE DEF f
    <2>3. LET c == SetFileInfo(builder[s], f)
          IN  /\ c \in Builder
              /\ c.file = f /\ c.reader = builder[s].reader
              /\ c.pos = builder[s].pos
      BY <2>1, <2>2 DEF SetFileInfo, Builder
    <2>4. BuilderOK(SetFileInfo(builder[s], f))
      BY <2>2, <2>3 DEF BuilderOK
    <2>5. /\ builder' = [builder EXCEPT ![s] = SetFileInfo(builder[s], f)]
          /\ current' = [current EXCEPT ![s] = f]
          /\ pc' = [pc EXCEPT ![s] = "stream"]
          /\ UNCHANGED <<running, cancel>>
      BY <1>3 DEF BeginTask, f
    <2> QED
      BY <2>1, <2>3, <2>4, <2>5 DEF ThreadIInv, QueueIInv, QueueTypeOK
  <1>4. ASSUME NEW s \in Senders, StreamNext(s)
        PROVE  ThreadIInv'
    <2> DEFINE b == IF cancel[s] THEN CancelSending(builder[s]) ELSE builder[s]
               c == GetStream(b).builder
    <2>1. BuilderOK(builder[s]) /\ builder[s].file \in Files
      BY <1>4 DEF ThreadIInv, StreamNext
    <2>2. BuilderOK(b) /\ b.file \in Files
      BY <2>1, CancelSendingOK
    <2> HIDE DEF b
    <2>3. BuilderOK(c) /\ c \in Builder /\ c.file \in Files
      BY <2>2, GetStreamOK DEF BuilderOK
    <2>4. /\ builder' = [builder EXCEPT ![s] = c]
          /\ pc' = [pc EXCEPT ![s] =
                       IF GetStream(b).msg = NoMsg THEN "report" ELSE @]
          /\ UNCHANGED <<current, running, cancel>>
      BY <1>4 DEF StreamNext, b
    <2> HIDE DEF c
    <2> QED
      BY <2>3, <2>4 DEF ThreadIInv, QueueIInv, QueueTypeOK
  <1>5. ASSUME NEW s \in Senders, ForgetFile(s) \/ ResetCancel(s)
        PROVE  flags
    BY <1>5 DEF ForgetFile, ResetCancel, NoneBegins, ThreadIInv, QueueIInv,
         QueueTypeOK
  <1>6. ASSUME NEW s \in Senders, FlagSender(s)
        PROVE  flags
    BY <1>6 DEF FlagSender, NoneBegins, ThreadIInv
  <1>7. ASSUME NEW s \in Senders, Receive(s) \/ Break(s) \/ JoinListed(s)
        PROVE  same
    BY <1>7 DEF Receive, Break, JoinListed, threadState, NoneBegins, QueueIInv,
         QueueTypeOK
  <1>8. ASSUME InitFileSenders \/ \E num \in Concurrency : Grow(num)
        PROVE  ThreadIInv'
    BY <1>8, LaunchThreads DEF InitFileSenders, Grow, QueueIInv
  <1>9. ASSUME RemoveLast \/ Stop
        PROVE  flags
    BY <1>9 DEF RemoveLast, Stop, NoneBegins, ThreadIInv
  <1>10. ASSUME JoinRemoved \/ StopDone \/ Start
                \/ \E num \in Concurrency : Shrink(num)
         PROVE  same
    BY <1>10 DEF JoinRemoved, StopDone, Start, Shrink, threadState, NoneBegins,
         QueueIInv, QueueTypeOK
  <1>11. ASSUME \/ \E r \in Requests : Submit(r)
                \/ \E f \in Files : Withdraw(f) \/ FindSender(f)
         PROVE  same
    BY <1>11 DEF Submit, Withdraw, FindSender, threadState, NoneBegins
  <1>12. CASE UNCHANGED vars
    BY <1>12 DEF vars, threadState, NoneBegins, ThreadIInv
  <1> HIDE DEF same, flags
  <1> QED
    BY <1>1, <1>2, <1>3, <1>4, <1>5, <1>6, <1>7, <1>8, <1>9, <1>10, <1>11,
       <1>12 DEF Next, ThreadStep, EngineStep, Environment

-----------------------------------------------------------------------------
(* The connections', the peer's and the history's part *)

LEMMA PeerInvStep ==
  ASSUME PeerTypeOK, ThreadIInv, [Next]_vars
  PROVE  PeerTypeOK'
  <1> USE DEF engineVars, queue, threadVars, peerVars, bounds, history
  <1> DEFINE same == UNCHANGED <<wire, broken, parser, disk>>
  <1>1. same => PeerTypeOK'
    BY DEF PeerTypeOK
  <1>2. ASSUME NEW s \in Senders,
               \/ LookForWork(s) \/ TakeTask(s) \/ BeginTask(s) \/ ReportEnd(s)
               \/ ForgetFile(s) \/ ResetCancel(s) \/ FlagSender(s)
        PROVE  same
    BY <1>2 DEF LookForWork, TakeTask, BeginTask, ReportEnd, ForgetFile,
         ResetCancel, FlagSender
  <1>3. ASSUME NEW s \in Senders, StreamNext(s)
        PROVE  PeerTypeOK'
    <2> DEFINE b == IF cancel[s] THEN CancelSending(builder[s]) ELSE builder[s]
               m == GetStream(b).msg
    <2>1. BuilderOK(builder[s]) /\ builder[s].file \in Files
      BY <1>3 DEF ThreadIInv, StreamNext
    <2>2. BuilderOK(b) /\ b.file \in Files
      BY <2>1, CancelSendingOK
    <2> HIDE DEF b
    <2>3. m # NoMsg => m \in Message
      BY <2>2, GetStreamOK
    <2>4. /\ UNCHANGED <<broken, parser, disk>>
          /\ \/ UNCHANGED wire
             \/ m # NoMsg /\ wire' = [wire EXCEPT ![s] = Append(wire[s], m)]
      BY <1>3 DEF StreamNext, b
    <2> HIDE DEF m
    <2>5. m # NoMsg => Append(wire[s], m) \in Seq(Message)
      BY <2>3, AppendProperties DEF PeerTypeOK
    <2> QED
      BY <2>4, <2>5 DEF PeerTypeOK
  <1>4. ASSUME NEW s \in Senders, Receive(s)
        PROVE  PeerTypeOK'
    <2> DEFINE m == Head(wire[s])
               next == Parse(parser[s], disk, m)
    <2>1. m \in Message /\ Tail(wire[s]) \in Seq(Message)
      BY <1>4, HeadTailProperties DEF Receive, PeerTypeOK
    <2> HIDE DEF m
    <2>2. next.parser \in Parser /\ DOMAIN next.disk = Paths
      BY <2>1, ParseOK DEF PeerTypeOK, DiskOK, OutcomeOK
    <2>3. /\ wire' = [wire EXCEPT ![s] = Tail(wire[s])]
          /\ parser' = [parser EXCEPT ![s] = next.parser]
          /\ disk' = next.disk
          /\ UNCHANGED broken
      BY <1>4 DEF Receive, m
    <2> HIDE DEF next
    <2> QED
      BY <2>1, <2>2, <2>3 DEF PeerTypeOK
  <1>5. ASSUME NEW s \in Senders, Break(s)
        PROVE  PeerTypeOK'
    BY <1>5 DEF Break, PeerTypeOK
  <1>6. ASSUME NEW want, StartSenders(want), UNCHANGED <<wire, disk>>
        PROVE  PeerTypeOK'
    <2>1. PICK n \in (IF Faults THEN 0..want ELSE {want}) :
            \E new \in [1..n -> {s \in Senders : Free(s)}] :
            \E fresh \in SUBSET Elems(new) : Launch(new, fresh)
      BY <1>6 DEF StartSenders
    <2>2. PICK new \in [1..n -> {s \in Senders : Free(s)}] :
            \E fresh \in SUBSET Elems(new) : Launch(new, fresh)
      BY <2>1
    <2> QED
      BY <1>6, <2>2, NewParserOK DEF Launch, PeerTypeOK
  <1>7. ASSUME InitFileSenders \/ \E num \in Concurrency : Grow(num)
        PROVE  PeerTypeOK'
    BY <1>6, <1>7 DEF InitFileSenders, Grow
  <1>8. ASSUME \/ RemoveLast \/ JoinRemoved \/ StopDone
               \/ \E s \in Senders : JoinListed(s)
        PROVE  same
    BY <1>8 DEF RemoveLast, JoinRemoved, StopDone, JoinListed
  <1>9. ASSUME \/ Start \/ Stop
               \/ \E r \in Requests : Submit(r)
               \/ \E f \in Files : Withdraw(f) \/ FindSender(f)
               \/ \E num \in Concurrency : Shrink(num)
        PROVE  same
    BY <1>9 DEF Start, Stop, Submit, Withdraw, FindSender, Shrink
  <1>10. CASE UNCHANGED vars
    BY <1>10 DEF vars, PeerTypeOK
  <1> HIDE DEF same
  <1> QED
    BY <1>1, <1>2, <1>3, <1>4, <1>5, <1>7, <1>8, <1>9, <1>10
       DEF Next, ThreadStep, EngineStep, Environment

LEMMA PastStep ==
  ASSUME PastTypeOK, PeerTypeOK, [Next]_vars
  PROVE  PastTypeOK'
  <1> USE DEF PastTypeOK, engineVars, queue, threadVars, peerVars, bounds,
              history
  <1>1. ASSUME NEW s \in Senders, ThreadStep(s)
        PROVE  PastTypeOK'
    BY <1>1 DEF ThreadStep, LookForWork, TakeTask, BeginTask, StreamNext,
         ReportEnd, ForgetFile, ResetCancel
  <1>2. ASSUME NEW s \in Senders, FlagSender(s) \/ Break(s) \/ JoinListed(s)
        PROVE  PastTypeOK'
    BY <1>2 DEF FlagSender, Break, JoinListed
  <1>3. ASSUME NEW s \in Senders, Receive(s)
        PROVE  PastTypeOK'
    <2> DEFINE next == Parse(parser[s], disk, Head(wire[s]))
    <2>1. next.event \in {NoEvent, Ended, CancelSeen}
      BY <1>3, HeadTailProperties, ParseOK
         DEF Receive, PeerTypeOK, DiskOK, OutcomeOK
    <2>2. /\ \/ UNCHANGED download
             \/ download' = [download EXCEPT ![parser[s].cur] = next.event]
          /\ UNCHANGED <<born, asked, sessions, stops, resizes>>
      BY <1>3 DEF Receive
    <2> HIDE DEF next
    <2> QED
      BY <2>1, <2>2
  <1>4. ASSUME EngineStep
        PROVE  PastTypeOK'
    BY <1>2, <1>4 DEF EngineStep, InitFileSenders, RemoveLast, JoinRemoved,
                      StopDone
  <1>5. ASSUME Start \/ Stop
        PROVE  PastTypeOK'
    BY <1>5 DEF Start, Stop
  <1>6. ASSUME NEW r \in Requests, Submit(r)
        PROVE  PastTypeOK'
    BY <1>6 DEF Submit
  <1>7. ASSUME NEW f \in Files, Withdraw(f) \/ FindSender(f)
        PROVE  PastTypeOK'
    BY <1>7 DEF Withdraw, FindSender
  <1>8. ASSUME NEW num \in Concurrency, Grow(num) \/ Shrink(num)
        PROVE  PastTypeOK'
    BY <1>8 DEF Grow, Shrink
  <1>9. CASE UNCHANGED vars
    BY <1>9 DEF vars
  <1> HIDE DEF PastTypeOK
  <1> QED
    BY <1>1, <1>2, <1>3, <1>4, <1>5, <1>6, <1>7, <1>8, <1>9
       DEF Next, Environment

LEMMA TypeStep == TypeIInv /\ [Next]_vars => TypeIInv'
  BY QueueStep, EngineInvStep, ThreadInvStep, PeerInvStep, PastStep
     DEF TypeIInv

\* Every state has its type: in particular the builder, the messages and the
\* parser are defined in every state that threads, cancels, faults, restarts
\* and resizes lead to.
THEOREM TypeCorrect == Spec => []TypeOK
  BY TypeInit, TypeStep, TypeIInvTypeOK, PTL DEF Spec

-----------------------------------------------------------------------------
(* A sender's builder starts every file afresh *)

\* What a thread that asks for a task needs.
Fresh(b) == b.state = "Default" /\ ~b.isEnd

\* The builder is between two messages, and outside the do-while between two
\* transfers: "report" is reached only by the call that resets isEnd.
ReadyIInv ==
    \A s \in Senders : /\ Consistent(builder[s])
                       /\ pc[s] # "stream" => Fresh(builder[s])

LEMMA NewBuilderReady == Consistent(NewBuilder) /\ Fresh(NewBuilder)
  BY DEF Consistent, Fresh, NewBuilder

LEMMA ReadyInit == Init => ReadyIInv
  BY NewBuilderReady DEF Init, ReadyIInv

LEMMA ReadyBuilderReady == ReadyIInv => BuilderReady
  BY DEF ReadyIInv, BuilderReady, Consistent, Fresh

\* One turn of the do-while: no message means that the stream had ended.
LEMMA ReadyStream ==
  ASSUME AllOpen, TypeIInv, ReadyIInv, NEW s \in Senders, StreamNext(s)
  PROVE  ReadyIInv'
  <1> DEFINE b == IF cancel[s] THEN CancelSending(builder[s]) ELSE builder[s]
             m == GetStream(b).msg
             c == GetStream(b).builder
  <1>1. BuilderOK(builder[s]) /\ builder[s].file \in Files /\ Consistent(builder[s])
    BY DEF StreamNext, TypeIInv, ThreadIInv, ReadyIInv
  <1>2. /\ builder' = [builder EXCEPT ![s] = c]
        /\ pc' = [pc EXCEPT ![s] = IF m = NoMsg THEN "report" ELSE pc[s]]
        /\ pc[s] = "stream"
    BY DEF StreamNext
  <1>3. Consistent(c) /\ (m = NoMsg => Fresh(c))
    <2>1. CASE builder[s].isEnd
      <3>1. b = builder[s]
        BY <1>1, <2>1 DEF CancelSending, Consistent
      <3> QED
        BY <1>1, <2>1, <3>1, EndOfStream DEF Fresh
    <2>2. CASE ~builder[s].isEnd
      <3>1. Continues(b)
        BY <1>1, <2>2, StreamContinues, StreamContinuesCanceled
      <3> HIDE DEF b
      <3> QED
        BY <3>1 DEF Continues
    <2> QED
      BY <2>1, <2>2
  <1> HIDE DEF m, c
  <1> QED
    BY <1>2, <1>3 DEF ReadyIInv, TypeIInv, QueueIInv, QueueTypeOK, ThreadIInv

LEMMA ReadyLaunch ==
  ASSUME ReadyIInv, NEW want, StartSenders(want)
  PROVE  ReadyIInv'
  <1>1. PICK new, fresh : Launch(new, fresh)
    BY DEF StartSenders
  <1> QED
    BY <1>1, NewBuilderReady DEF Launch, ReadyIInv

LEMMA ReadyStep == AllOpen /\ TypeIInv /\ ReadyIInv /\ [Next]_vars => ReadyIInv'
  <1> SUFFICES ASSUME AllOpen, TypeIInv, ReadyIInv, [Next]_vars
               PROVE  ReadyIInv'
    OBVIOUS
  <1> USE DEF engineVars, queue, threadVars, peerVars, bounds, history
  <1>0. pc \in [Senders -> ThreadStates] /\ builder \in [Senders -> Builder]
    BY DEF TypeIInv, QueueIInv, QueueTypeOK, ThreadIInv
  \* The builder is untouched and no thread leaves the do-while.
  <1> DEFINE same == /\ UNCHANGED builder
                     /\ \A t \in Senders : pc'[t] # "stream" => pc[t] # "stream"
  <1>1. same => ReadyIInv'
    BY DEF ReadyIInv
  <1>2. ASSUME NEW s \in Senders,
               \/ LookForWork(s) \/ TakeTask(s) \/ ReportEnd(s) \/ ForgetFile(s)
               \/ ResetCancel(s) \/ FlagSender(s) \/ JoinListed(s)
        PROVE  same
    BY <1>0, <1>2 DEF LookForWork, TakeTask, ReportEnd, ForgetFile, ResetCancel,
         FlagSender, JoinListed
  <1>3. ASSUME NEW s \in Senders, Receive(s) \/ Break(s)
        PROVE  same
    BY <1>3 DEF Receive, Break
  <1>4. ASSUME NEW s \in Senders, BeginTask(s)
        PROVE  ReadyIInv'
    <2> DEFINE f == FileOf[task[s]]
               c == [builder[s] EXCEPT !.file = f]
    <2>1. /\ builder' = [builder EXCEPT ![s] = c]
          /\ pc' = [pc EXCEPT ![s] = "stream"]
      BY <1>4 DEF BeginTask, SetFileInfo
    <2> HIDE DEF f
    <2>2. /\ c.isEnd = builder[s].isEnd /\ c.state = builder[s].state
          /\ c.sent = builder[s].sent /\ c.index = builder[s].index
          /\ c.folder = builder[s].folder /\ c.items = builder[s].items
          /\ c.reader = builder[s].reader /\ c.total = builder[s].total
      BY <1>0 DEF Builder
    <2> HIDE DEF c
    <2>3. Consistent(c)
      BY <2>2 DEF ReadyIInv, Consistent
    <2> QED
      BY <1>0, <2>1, <2>3 DEF ReadyIInv
  <1>5. ASSUME NEW s \in Senders, StreamNext(s)
        PROVE  ReadyIInv'
    BY <1>5, ReadyStream
  <1>6. ASSUME InitFileSenders \/ \E num \in Concurrency : Grow(num)
        PROVE  ReadyIInv'
    BY <1>6, ReadyLaunch DEF InitFileSenders, Grow
  <1>7. ASSUME RemoveLast \/ StopDone \/ Start \/ Stop
        PROVE  same
    BY <1>7 DEF RemoveLast, StopDone, Start, Stop
  <1>8. ASSUME JoinRemoved
        PROVE  same
    <2>1. /\ UNCHANGED builder
          /\ pc' = [pc EXCEPT ![resize.join] = "closed"]
      BY <1>8 DEF JoinRemoved
    <2>2. \A t \in Senders : pc'[t] # "stream" => pc[t] # "stream"
      <3>1. pc[resize.join] = "exited"
        BY <1>8 DEF JoinRemoved
      <3> DEFINE j == resize.join
      <3> HIDE DEF j
      <3> QED
        BY <1>0, <2>1, <3>1 DEF j
    <2> QED
      BY <2>1, <2>2
  <1>9. ASSUME \/ \E num \in Concurrency : Shrink(num)
               \/ \E r \in Requests : Submit(r)
               \/ \E f \in Files : Withdraw(f) \/ FindSender(f)
        PROVE  same
    BY <1>9 DEF Shrink, Submit, Withdraw, FindSender
  <1>10. ASSUME UNCHANGED vars
         PROVE  same
    BY <1>10 DEF vars
  <1> HIDE DEF same
  <1> QED
    BY <1>1, <1>2, <1>3, <1>4, <1>5, <1>6, <1>7, <1>8, <1>9, <1>10
       DEF Next, ThreadStep, EngineStep, Environment

\* If every leaf opens and no folder is empty, a thread that asks for a task
\* has a builder in the state Default, with no progress and no item index left
\* from the last file, also after cancels, stops, restarts and resizes.
THEOREM BuilderReadyAlways ==
  ASSUME AllOpen
  PROVE  Spec => []BuilderReady
  <1>1. Init => TypeIInv /\ ReadyIInv
    BY TypeInit, ReadyInit
  <1>2. TypeIInv /\ ReadyIInv /\ [Next]_vars => TypeIInv' /\ ReadyIInv'
    BY TypeStep, ReadyStep
  <1>3. ReadyIInv => BuilderReady
    BY ReadyBuilderReady
  <1> QED
    BY <1>1, <1>2, <1>3, PTL DEF Spec

-----------------------------------------------------------------------------
(* The engine without faults, stops and resizes *)

Undisturbed == ~Faults /\ MaxStops = 0 /\ MaxResizes = 0

\* No connection breaks and no thread is told to stop: senders are unborn
\* until the engine is on, and then run.
CalmEngine ==
    /\ engine \in {"off", "listening", "on"}
    /\ resize = Idle
    /\ broken = {}
    /\ \A s \in Senders : /\ pc[s] \notin {"exited", "closed"}
                          /\ pc[s] # "unborn" => engine = "on" /\ running[s]
                          /\ pc[s] = "unborn" => /\ wire[s] = << >>
                                                 /\ parser[s] = NewParser

LEMMA CalmInit == Init => CalmEngine
  BY DEF Init, CalmEngine

LEMMA CalmLaunch ==
  ASSUME CalmEngine, TypeIInv, NEW want, StartSenders(want), engine = "listening",
         engine' = "on", UNCHANGED <<resize, wire>>
  PROVE  CalmEngine'
  <1>1. PICK n \in (IF Faults THEN 0..want ELSE {want}) :
          \E new \in [1..n -> {s \in Senders : Free(s)}] :
          \E fresh \in SUBSET Elems(new) : Launch(new, fresh)
    BY DEF StartSenders
  <1>2. PICK new \in [1..n -> {s \in Senders : Free(s)}] :
          \E fresh \in SUBSET Elems(new) : Launch(new, fresh)
    BY <1>1
  <1>3. PICK fresh \in SUBSET Elems(new) : Launch(new, fresh)
    BY <1>2
  <1>4. \A s \in Senders : pc[s] = "unborn"
    BY DEF CalmEngine
  <1>5. broken' = {}
    BY <1>3 DEF Launch, CalmEngine
  <1>6. \A s \in Senders :
          \/ pc'[s] = "check" /\ running'[s]
          \/ /\ pc'[s] = "unborn" /\ wire'[s] = wire[s]
             /\ parser'[s] \in {parser[s], NewParser}
    BY <1>3, <1>4 DEF Launch
  <1> QED
    BY <1>4, <1>5, <1>6 DEF CalmEngine

LEMMA CalmStep == Undisturbed /\ TypeIInv /\ CalmEngine /\ [Next]_vars => CalmEngine'
  <1> SUFFICES ASSUME Undisturbed, TypeIInv, CalmEngine, [Next]_vars
               PROVE  CalmEngine'
    OBVIOUS
  <1> USE DEF engineVars, queue, threadVars, peerVars, bounds, history
  <1>0. /\ pc \in [Senders -> ThreadStates] /\ stops \in Nat /\ resizes \in Nat
        /\ wire \in [Senders -> Seq(Message)] /\ parser \in [Senders -> Parser]
    BY DEF TypeIInv, QueueIInv, QueueTypeOK, PastTypeOK, PeerTypeOK
  <1>1. ASSUME NEW s \in Senders, ThreadStep(s)
        PROVE  CalmEngine'
    <2>1. /\ pc[s] \in {"check", "take", "begin", "stream", "report", "forget", "reset"}
          /\ UNCHANGED <<engine, resize, broken, running, parser>>
      BY <1>1 DEF ThreadStep, LookForWork, TakeTask, BeginTask, StreamNext,
                  ReportEnd, ForgetFile, ResetCancel
    <2>2. /\ pc'[s] \notin {"exited", "closed", "unborn"}
          /\ \A t \in Senders : t # s => pc'[t] = pc[t]
      BY <1>0, <1>1, <2>1 DEF CalmEngine, ThreadStep, LookForWork, TakeTask,
         BeginTask, StreamNext, ReportEnd, ForgetFile, ResetCancel
    <2>3. \A t \in Senders : t # s => wire'[t] = wire[t]
      BY <1>0, <1>1 DEF ThreadStep, LookForWork, TakeTask,
         BeginTask, StreamNext, ReportEnd, ForgetFile, ResetCancel
    <2> QED
      BY <2>1, <2>2, <2>3 DEF CalmEngine
  <1>2. ASSUME NEW s \in Senders, Receive(s)
        PROVE  CalmEngine'
    <2>1. pc[s] # "unborn"
      BY <1>2 DEF Receive, CalmEngine
    <2>2. /\ UNCHANGED <<engine, resize, broken, running, pc>>
          /\ \A t \in Senders : t # s => wire'[t] = wire[t] /\ parser'[t] = parser[t]
      BY <1>0, <1>2 DEF Receive
    <2> QED
      BY <2>1, <2>2 DEF CalmEngine
  <1> DEFINE same == UNCHANGED <<engine, resize, broken, running, pc, wire, parser>>
  <1>3. same => CalmEngine'
    BY DEF CalmEngine
  <1>4. ASSUME \/ \E s \in Senders : FlagSender(s)
               \/ \E r \in Requests : Submit(r)
               \/ \E f \in Files : Withdraw(f) \/ FindSender(f)
        PROVE  same
    BY <1>4 DEF FlagSender, Submit, Withdraw, FindSender
  <1>5. CASE InitFileSenders
    <2>1. StartSenders(SenderNum) /\ engine = "listening" /\ engine' = "on"
          /\ UNCHANGED <<resize, wire>>
      BY <1>5 DEF InitFileSenders
    <2> QED
      BY <2>1, CalmLaunch
  <1>6. ~RemoveLast /\ ~JoinRemoved /\ ~StopDone
        /\ \A s \in Senders : ~JoinListed(s)
    BY DEF CalmEngine, Idle, RemoveLast, JoinRemoved, StopDone, JoinListed
  <1>7. CASE Start
    BY <1>7 DEF Start, CalmEngine
  <1>8. ~Stop /\ \A num \in Concurrency : ~Grow(num) /\ ~Shrink(num)
    BY <1>0 DEF Undisturbed, Stop, Grow, Shrink
  <1>9. \A s \in Senders : ~Break(s)
    BY DEF Undisturbed, CalmEngine, Break
  <1>10. CASE UNCHANGED vars
    BY <1>10 DEF vars, CalmEngine
  <1> HIDE DEF same
  <1> QED
    BY <1>1, <1>2, <1>3, <1>4, <1>5, <1>6, <1>7, <1>8, <1>9, <1>10
       DEF Next, EngineStep, Environment

-----------------------------------------------------------------------------
(* The inductive invariant.  reached[s][i] is the stage that the transfer   *)
(* on the connection s has come to when the parser is handed the i-th       *)
(* message in wire[s]; reached[s][Last(s)] is what the sender has come to.  *)

Reached == [Senders -> [Nat -> Stage]]

Last(s) == Len(wire[s]) + 1

\* What the sender's thread sends still reaches its connection.
Live(s) == running[s] /\ s \notin broken

\* No message of the request has been built.
Unsent(r) ==
    \/ fate[r] \in {"new", "waiting", "withdrawn"}
    \/ \E s \in Senders : task[s] = r /\ pc[s] = "begin"
    \/ \E s \in Senders : /\ task[s] = r /\ pc[s] = "stream"
                          /\ builder[s].state = "Default" /\ ~builder[s].isEnd

\* The messages in transit lead from stage to stage.
MessagesInv(reached) ==
    \A s \in Senders : \A i \in 1..Len(wire[s]) :
        Sends(reached[s][i], wire[s][i], reached[s][i + 1])

\* A builder has come to some stage with the file of its task; on a live
\* connection it is the stage after the last message.
BuildersInv(reached) ==
    \A s \in Senders :
        /\ pc[s] = "stream" => builder[s].file = FileOf[task[s]]
        /\ \E a \in Stage : /\ BuilderAt(builder[s], a)
                            /\ Live(s) => a = reached[s][Last(s)]

ParsersInv(reached) ==
    \A s \in Senders : ParserAt(parser[s], disk, reached[s][1])

\* A file is on one connection, in one piece.
OneStream(reached) ==
    \A s, t \in Senders : \A i \in 1..Last(s), k \in 1..Last(t) :
        reached[s][i].file = reached[t][k].file /\ reached[s][i].file # NoFile =>
            s = t /\ \A j \in i..k : reached[s][j].file = reached[s][i].file

\* A file in transit has not ended; until its header arrives the receiver has
\* nothing of it.
ComingInv(reached) ==
    \A s \in Senders : \A i \in 1..Last(s) :
        reached[s][i].file # NoFile =>
            /\ download[reached[s][i].file] = NoEvent
            /\ \/ reached[s][i].file = reached[s][1].file
               \/ Untouched(disk, reached[s][i].file)

\* Nothing of an unsent request is anywhere.
UnsentInv(reached) ==
    \A r \in Requests : Unsent(r) =>
        /\ download[FileOf[r]] = NoEvent
        /\ Untouched(disk, FileOf[r])
        /\ \A s \in Senders : \A i \in 1..Last(s) : reached[s][i].file # FileOf[r]

EndsInv ==
    \A f \in Files : /\ download[f] = Ended => AllWhole(disk, f)
                     /\ download[f] = CancelSeen => NoStump(disk, f)

\* The message announcing that f has ended, one way or the other, is on its way.
InTransit(reached, type, f) ==
    \E s \in Senders : \E i \in 1..Len(wire[s]) :
        wire[s][i].type = type /\ reached[s][i].file = f

\* Once file_canceled has been sent, the thread will not report completion.
CancelsInv(reached) ==
    \A r \in Requests :
        \/ download[FileOf[r]] = CancelSeen
        \/ InTransit(reached, "file_canceled", FileOf[r])
        => /\ upload[r] # "complete"
           /\ \A s \in Senders :
                 task[s] = r /\ pc[s] \in {"stream", "report"} => cancel[s]

\* The request has been sent to its end.
Finished(r) ==
    \/ upload[r] = "complete"
    \/ \E s \in Senders : task[s] = r /\ ~cancel[s] /\ pc[s] = "report"
    \/ \E s \in Senders : task[s] = r /\ ~cancel[s] /\ pc[s] = "stream"
                          /\ builder[s].isEnd

\* Without faults what has been finished arrives, and parsers rest in order.
ArrivalInv(reached) ==
    /\ \A s \in Senders : reached[s][1].file = NoFile => parser[s].stream = NoPath
    /\ \A r \in Requests :
          Finished(r) => \/ download[FileOf[r]] = Ended
                         \/ InTransit(reached, "file_end", FileOf[r])

DataInv(reached) ==
    /\ MessagesInv(reached)
    /\ BuildersInv(reached)
    /\ ParsersInv(reached)
    /\ OneStream(reached)
    /\ ComingInv(reached)
    /\ UnsentInv(reached)
    /\ EndsInv
    /\ CancelsInv(reached)
    /\ Undisturbed => ArrivalInv(reached)

DataIInv ==
    /\ Undisturbed => CalmEngine
    /\ \E reached \in Reached : DataInv(reached)

\* Every request names a file of its own.
OwnFile == \A q, r \in Requests : FileOf[q] = FileOf[r] => q = r

LEMMA LastFacts ==
  ASSUME TypeIInv, NEW s \in Senders
  PROVE  /\ wire[s] \in Seq(Message) /\ Len(wire[s]) \in Nat
         /\ Last(s) \in Nat /\ Last(s) >= 1
         /\ 1 \in 1..Last(s) /\ Last(s) \in 1..Last(s)
         /\ \A i \in 1..Len(wire[s]) : i \in 1..Last(s) /\ i + 1 \in 1..Last(s)
  <1>1. wire[s] \in Seq(Message) /\ Len(wire[s]) \in Nat
    BY LenProperties DEF TypeIInv, PeerTypeOK
  <1> QED
    BY <1>1 DEF Last

LEMMA ReachedStage ==
  ASSUME NEW reached \in Reached, NEW s \in Senders, NEW i \in Nat
  PROVE  /\ reached[s][i] \in Stage
         /\ reached[s][i].file \in Files \cup {NoFile}
  BY DEF Reached, Stage

LEMMA DataInit == Init => DataIInv
  <1> SUFFICES ASSUME Init PROVE DataIInv
    OBVIOUS
  <1> DEFINE reached == [s \in Senders |-> [i \in Nat |-> Rest]]
  <1>1. reached \in Reached
    BY RestFields DEF Reached
  <1>2. \A s \in Senders : /\ wire[s] = << >> /\ Len(wire[s]) = 0 /\ Last(s) = 1
                           /\ builder[s] = NewBuilder /\ parser[s] = NewParser
                           /\ pc[s] = "unborn" /\ ~running[s]
                           /\ task[s] = NoRequest
    BY DEF Init, Last
  <1>3. \A s \in Senders, i \in Nat : reached[s][i] = Rest
    OBVIOUS
  <1>4. \A f \in Files : download[f] = NoEvent /\ Untouched(disk, f)
    <2>1. \A f \in Files : PathsBelow(f) \subseteq Paths
      BY PathFacts
    <2> QED
      BY <2>1 DEF Init, EmptyDisk, Untouched
  <1> HIDE DEF reached
  <1>5. \A s \in Senders : ~Live(s)
    BY <1>2 DEF Live
  <1>6. MessagesInv(reached)
    BY <1>2 DEF MessagesInv
  <1>7. BuildersInv(reached)
    BY <1>2, <1>5, RestFields DEF BuildersInv, BuilderAt, NewBuilder
  <1>8. ParsersInv(reached)
    BY <1>3, RestFields DEF ParsersInv, ParserAt
  <1>9. OneStream(reached) /\ ComingInv(reached)
    BY <1>2, <1>3, RestFields DEF OneStream, ComingInv
  <1>10. UnsentInv(reached)
    BY <1>2, <1>3, <1>4, RestFields, SyncAssumption DEF UnsentInv
  <1>11. EndsInv
    BY <1>4 DEF EndsInv, NoEvent, Ended, CancelSeen
  <1>12. CancelsInv(reached)
    BY <1>2, <1>4, SyncAssumption
       DEF CancelsInv, InTransit, NoEvent, CancelSeen
  <1>13. ArrivalInv(reached)
    <2>1. \A r \in Requests : upload[r] = "none"
      BY DEF Init
    <2> QED
      BY <1>2, <2>1 DEF ArrivalInv, Finished, NewParser
  <1> QED
    BY <1>1, <1>6, <1>7, <1>8, <1>9, <1>10, <1>11, <1>12, <1>13, CalmInit
       DEF DataIInv, DataInv

-----------------------------------------------------------------------------
(* Steps that put nothing on a connection and take nothing from one         *)

Quiet ==
    /\ UNCHANGED <<parser, disk, download>>
    /\ \A s \in Senders :
          /\ \A i \in 1..Last(s)' : i \in 1..Last(s)
          /\ \A i \in 1..Len(wire'[s]) :
                i \in 1..Len(wire[s]) /\ wire'[s][i] = wire[s][i]
          /\ Live(s)' => Live(s) /\ Last(s)' = Last(s)
          /\ pc'[s] = "stream" => builder'[s].file = FileOf[task'[s]]
          /\ \A a \in Stage : BuilderAt(builder[s], a) =>
                \E e \in Stage : BuilderAt(builder'[s], e) /\ (Live(s)' => e = a)
    /\ \A r \in Requests :
          /\ Unsent(r)' => Unsent(r)
          /\ upload'[r] = "complete" =>
                \/ upload[r] = "complete"
                \/ \E s \in Senders :
                      task[s] = r /\ ~cancel[s] /\ pc[s] = "report"
          /\ \A s \in Senders :
                task'[s] = r /\ pc'[s] \in {"stream", "report"} =>
                    \/ Unsent(r)
                    \/ /\ task[s] = r /\ pc[s] \in {"stream", "report"}
                       /\ cancel[s] => cancel'[s]
    /\ Undisturbed => /\ UNCHANGED wire
                      /\ \A r \in Requests : Finished(r)' => Finished(r)

LEMMA QuietData ==
  ASSUME TypeIInv, NEW reached \in Reached, DataInv(reached), Quiet
  PROVE  DataInv(reached)'
  <1>1. UNCHANGED <<parser, disk, download>>
    BY DEF Quiet
  <1>2. \A s \in Senders :
          /\ \A i \in 1..Last(s)' : i \in 1..Last(s)
          /\ \A i \in 1..Len(wire'[s]) :
                i \in 1..Len(wire[s]) /\ wire'[s][i] = wire[s][i]
          /\ Live(s)' => Live(s) /\ Last(s)' = Last(s)
    BY DEF Quiet
  <1>3. MessagesInv(reached)'
    BY <1>2 DEF DataInv, MessagesInv
  <1>4. BuildersInv(reached)'
    <2> SUFFICES ASSUME NEW s \in Senders
                 PROVE  \E e \in Stage :
                           /\ BuilderAt(builder'[s], e)
                           /\ Live(s)' => e = reached[s][Last(s)']
      BY DEF BuildersInv, Quiet
    <2>1. PICK a \in Stage : BuilderAt(builder[s], a)
                             /\ (Live(s) => a = reached[s][Last(s)])
      BY DEF DataInv, BuildersInv
    <2>2. PICK e \in Stage : BuilderAt(builder'[s], e) /\ (Live(s)' => e = a)
      BY <2>1 DEF Quiet
    <2> QED
      BY <1>2, <2>1, <2>2
  <1>5. ParsersInv(reached)'
    BY <1>1 DEF DataInv, ParsersInv
  <1>6. OneStream(reached)'
    BY <1>2 DEF DataInv, OneStream
  <1>7. ComingInv(reached)'
    BY <1>1, <1>2 DEF DataInv, ComingInv
  <1>8. UnsentInv(reached)'
    BY <1>1, <1>2 DEF DataInv, UnsentInv, Quiet
  <1>9. EndsInv'
    BY <1>1 DEF DataInv, EndsInv
  <1>10. CancelsInv(reached)'
    <2> SUFFICES ASSUME NEW r \in Requests,
                        \/ download'[FileOf[r]] = CancelSeen
                        \/ InTransit(reached, "file_canceled", FileOf[r])'
                 PROVE  /\ upload'[r] # "complete"
                        /\ \A s \in Senders :
                              task'[s] = r /\ pc'[s] \in {"stream", "report"}
                                  => cancel'[s]
      BY DEF CancelsInv
    <2>1. \/ download[FileOf[r]] = CancelSeen
          \/ InTransit(reached, "file_canceled", FileOf[r])
      BY <1>1, <1>2 DEF InTransit
    <2>2. /\ upload[r] # "complete"
          /\ \A s \in Senders :
                task[s] = r /\ pc[s] \in {"stream", "report"} => cancel[s]
      BY <2>1 DEF DataInv, CancelsInv
    <2>3. ~Unsent(r)
      <3>1. FileOf[r] \in Files
        BY SyncAssumption
      <3>2. \A s \in Senders : \A i \in 1..Len(wire[s]) : i \in 1..Last(s)
        BY LastFacts
      <3> QED
        BY <2>1, <3>2 DEF DataInv, UnsentInv, InTransit, NoEvent, CancelSeen
    <2> QED
      BY <2>2, <2>3 DEF Quiet
  <1>11. ASSUME Undisturbed
         PROVE  ArrivalInv(reached)'
    <2>1. ArrivalInv(reached) /\ UNCHANGED wire
          /\ \A r \in Requests : Finished(r)' => Finished(r)
      BY <1>11 DEF DataInv, Quiet
    <2> QED
      BY <1>1, <2>1 DEF ArrivalInv, InTransit
  <1>12. Undisturbed' <=> Undisturbed
    BY DEF Undisturbed
  <1> QED
    BY <1>3, <1>4, <1>5, <1>6, <1>7, <1>8, <1>9, <1>10, <1>11, <1>12 DEF DataInv

\* The quiet steps that leave the builders alone as well.
Still ==
    /\ UNCHANGED <<parser, disk, download, wire, builder>>
    /\ \A s \in Senders : /\ Live(s)' => Live(s)
                          /\ pc'[s] \in {"stream", "report"} =>
                                /\ pc'[s] = pc[s] /\ task'[s] = task[s]
                                /\ cancel[s] => cancel'[s]
    /\ \A r \in Requests :
          /\ Unsent(r)' => Unsent(r)
          /\ upload'[r] = "complete" =>
                \/ upload[r] = "complete"
                \/ \E s \in Senders :
                      task[s] = r /\ ~cancel[s] /\ pc[s] = "report"

LEMMA StillQuiet ==
  ASSUME NEW reached, BuildersInv(reached), cancel \in [Senders -> BOOLEAN], Still
  PROVE  Quiet
  <1>1. UNCHANGED <<parser, disk, download, wire, builder>>
    BY DEF Still
  <1>2. \A s \in Senders : Last(s)' = Last(s)
    BY <1>1 DEF Last
  <1>3. \A s \in Senders :
          /\ Live(s)' => Live(s)
          /\ pc'[s] \in {"stream", "report"} =>
                /\ pc'[s] = pc[s] /\ task'[s] = task[s]
                /\ cancel[s] => cancel'[s]
    BY DEF Still
  <1>4. \A s \in Senders : pc'[s] = "stream" => builder'[s].file = FileOf[task'[s]]
    BY <1>1, <1>3 DEF BuildersInv
  <1>5. \A r \in Requests :
          /\ Unsent(r)' => Unsent(r)
          /\ upload'[r] = "complete" =>
                \/ upload[r] = "complete"
                \/ \E s \in Senders :
                      task[s] = r /\ ~cancel[s] /\ pc[s] = "report"
    BY DEF Still
  <1>6. \A r \in Requests : Finished(r)' => Finished(r)
    BY <1>1, <1>3, <1>5 DEF Finished
  <1> QED
    BY <1>1, <1>2, <1>3, <1>4, <1>5, <1>6 DEF Quiet

LEMMA StillStep ==
  ASSUME TypeIInv,
         \/ \E s \in Senders : \/ LookForWork(s) \/ TakeTask(s) \/ ReportEnd(s)
                               \/ ForgetFile(s) \/ ResetCancel(s) \/ FlagSender(s)
                               \/ JoinListed(s)
         \/ RemoveLast \/ JoinRemoved \/ StopDone \/ Start \/ Stop
         \/ \E r \in Requests : Submit(r)
         \/ \E f \in Files : Withdraw(f) \/ FindSender(f)
         \/ \E num \in Concurrency : Shrink(num)
         \/ UNCHANGED vars
  PROVE  Still
  <1> USE DEF engineVars, queue, threadVars, peerVars, bounds, history
  <1>0. /\ pc \in [Senders -> ThreadStates]
        /\ task \in [Senders -> Requests \cup {NoRequest}]
        /\ running \in [Senders -> BOOLEAN] /\ cancel \in [Senders -> BOOLEAN]
        /\ fate \in [Requests -> {"new", "waiting", "withdrawn", "taken", "over"}]
        /\ upload \in [Requests -> {"none", "progress", "complete"}]
    BY DEF TypeIInv, QueueIInv, QueueTypeOK, ThreadIInv
  <1>1. \A r \in pending : fate[r] = "waiting" /\ r \in Requests
    BY DEF TypeIInv, QueueIInv, QueueTypeOK, QueueInv, OneHolder
  <1>2. \A s \in Senders : Busy(s) => task[s] \in Requests
    BY <1>0 DEF TypeIInv, QueueIInv, QueueInv
  \* Nothing happens to any thread's task.
  <1> DEFINE idle == /\ UNCHANGED <<parser, disk, download, wire, builder, broken,
                                    pc, task, upload, fate>>
                     /\ \A s \in Senders : /\ running'[s] => running[s]
                                           /\ cancel[s] => cancel'[s]
  <1>3. ASSUME idle PROVE Still
    BY <1>3 DEF Still, Live, Unsent
  <1>4. ASSUME UNCHANGED vars \/ StopDone \/ Start
               \/ (\E f \in Files : FindSender(f))
               \/ (\E num \in Concurrency : Shrink(num))
        PROVE  idle
    BY <1>4 DEF vars, StopDone, Start, FindSender, Shrink
  <1>5. ASSUME NEW s \in Senders, FlagSender(s)
        PROVE  idle
    BY <1>0, <1>5 DEF FlagSender
  <1>6. ASSUME RemoveLast \/ Stop
        PROVE  idle
    BY <1>0, <1>6 DEF RemoveLast, Stop
  <1>7. ASSUME NEW s \in Senders, LookForWork(s)
        PROVE  Still
    <2>1. /\ pc[s] = "check" /\ pc'[s] \in {"exited", "take"}
          /\ \A t \in Senders : t # s => pc'[t] = pc[t]
          /\ UNCHANGED <<parser, disk, download, wire, builder, broken, task,
                         upload, fate, running, cancel>>
      BY <1>0, <1>7 DEF LookForWork
    <2> QED
      BY <2>1 DEF Still, Live, Unsent
  <1>8. ASSUME NEW s \in Senders, TakeTask(s)
        PROVE  Still
    <2>1. UNCHANGED <<parser, disk, download, wire, builder, broken, upload,
                      running, cancel>>
      BY <1>8 DEF TakeTask
    <2>2. CASE pc' = [pc EXCEPT ![s] = "check"] /\ UNCHANGED <<task, fate>>
      BY <1>0, <2>1, <2>2 DEF Still, Live, Unsent
    <2>3. ASSUME NEW q \in Requests, First(q),
                 pc' = [pc EXCEPT ![s] = "begin"],
                 task' = [task EXCEPT ![s] = q],
                 fate' = [fate EXCEPT ![q] = "taken"]
          PROVE  Still
      <3>1. fate[q] = "waiting"
        BY <1>1, <2>3 DEF First
      <3>2. /\ pc'[s] = "begin" /\ task'[s] = q
            /\ \A t \in Senders : t # s => pc'[t] = pc[t] /\ task'[t] = task[t]
            /\ fate'[q] = "taken" /\ \A r \in Requests : r # q => fate'[r] = fate[r]
        BY <1>0, <2>3
      <3>3. \A r \in Requests : Unsent(r)' => Unsent(r)
        BY <2>1, <3>1, <3>2 DEF Unsent
      <3> QED
        BY <2>1, <3>2, <3>3 DEF Still, Live
    <2> QED
      BY <1>8, <2>2, <2>3 DEF TakeTask
  <1>9. ASSUME NEW s \in Senders, ReportEnd(s) \/ ForgetFile(s)
        PROVE  Still
    <2>1. /\ pc'[s] \in {"forget", "reset"}
          /\ \A t \in Senders : t # s => pc'[t] = pc[t]
          /\ UNCHANGED <<parser, disk, download, wire, builder, broken, task,
                         fate, running, cancel>>
      BY <1>0, <1>9 DEF ReportEnd, ForgetFile
    <2>2. \A r \in Requests : upload'[r] = "complete" =>
             \/ upload[r] = "complete"
             \/ task[s] = r /\ ~cancel[s] /\ pc[s] = "report"
      BY <1>0, <1>9 DEF ReportEnd, ForgetFile
    <2>3. \A r \in Requests : Unsent(r)' => Unsent(r)
      BY <2>1 DEF Unsent
    <2> QED
      BY <2>1, <2>2, <2>3 DEF Still, Live
  <1>10. ASSUME NEW s \in Senders, ResetCancel(s)
         PROVE  Still
    <2>1. /\ pc'[s] = "check" /\ task'[s] = NoRequest
          /\ \A t \in Senders : t # s => pc'[t] = pc[t] /\ task'[t] = task[t]
                                         /\ cancel'[t] = cancel[t]
          /\ UNCHANGED <<parser, disk, download, wire, builder, broken, upload,
                         running>>
      BY <1>0, <1>10 DEF ResetCancel
    <2>2. \A r \in Requests : fate'[r] = fate[r] \/ fate'[r] = "over"
      BY <1>0, <1>10 DEF ResetCancel
    <2>3. \A r \in Requests : Unsent(r)' => Unsent(r)
      BY <2>1, <2>2 DEF Unsent
    <2> QED
      BY <2>1, <2>3 DEF Still, Live
  <1>11. ASSUME JoinRemoved \/ \E s \in Senders : JoinListed(s)
         PROVE  Still
    <2>1. /\ \A t \in Senders : pc'[t] = pc[t] \/ pc'[t] = "closed"
          /\ UNCHANGED <<parser, disk, download, wire, builder, broken, task,
                         upload, fate, running, cancel>>
      BY <1>0, <1>11 DEF JoinRemoved, JoinListed
    <2> QED
      BY <2>1 DEF Still, Live, Unsent
  <1>12. ASSUME NEW r \in Requests, Submit(r)
         PROVE  Still
    <2>1. /\ fate[r] = "new" /\ \A q \in Requests : q # r => fate'[q] = fate[q]
          /\ UNCHANGED <<parser, disk, download, wire, builder, broken, pc, task,
                         upload, running, cancel>>
      BY <1>0, <1>12 DEF Submit
    <2> QED
      BY <2>1 DEF Still, Live, Unsent
  <1>13. ASSUME NEW f \in Files, Withdraw(f)
         PROVE  Still
    <2>1. /\ \A r \in Requests : fate'[r] = fate[r] \/ fate[r] = "waiting"
          /\ UNCHANGED <<parser, disk, download, wire, builder, broken, pc, task,
                         upload, running, cancel>>
      BY <1>0, <1>1, <1>13 DEF Withdraw
    <2> QED
      BY <2>1 DEF Still, Live, Unsent
  <1> HIDE DEF idle
  <1> QED
    BY <1>3, <1>4, <1>5, <1>6, <1>7, <1>8, <1>9, <1>10, <1>11, <1>12, <1>13

\* The first message of a request is built after its thread has begun.
LEMMA BeginTaskQuiet ==
  ASSUME AllOpen, TypeIInv, ReadyIInv, NEW s \in Senders, BeginTask(s),
         NEW reached, BuildersInv(reached)
  PROVE  Quiet
  <1> USE DEF engineVars, queue, threadVars, peerVars, bounds, history
  <1> DEFINE c == [builder[s] EXCEPT !.file = FileOf[task[s]]]
  <1>0. /\ pc \in [Senders -> ThreadStates] /\ builder \in [Senders -> Builder]
    BY DEF TypeIInv, QueueIInv, QueueTypeOK, ThreadIInv
  <1>1. /\ pc[s] = "begin" /\ pc'[s] = "stream"
        /\ \A t \in Senders : t # s => pc'[t] = pc[t] /\ builder'[t] = builder[t]
        /\ builder'[s] = c
        /\ UNCHANGED <<parser, disk, download, wire, broken, task, upload, fate,
                       running, cancel>>
    BY <1>0 DEF BeginTask, SetFileInfo
  <1>2. /\ c.file = FileOf[task[s]] /\ c.state = builder[s].state
        /\ c.isEnd = builder[s].isEnd
    BY <1>0 DEF Builder
  <1> HIDE DEF c
  <1>3. builder[s].state = "Default" /\ ~builder[s].isEnd
    BY <1>1 DEF ReadyIInv, Fresh
  <1>4. \A a \in Stage : BuilderAt(builder[s], a) => BuilderAt(c, a)
    BY <1>2, <1>3 DEF BuilderAt
  <1>5. \A t \in Senders : Last(t)' = Last(t) /\ (Live(t)' <=> Live(t))
    BY <1>1 DEF Last, Live
  <1>6. \A r \in Requests : task[s] = r => Unsent(r)
    BY <1>1 DEF Unsent
  <1>7. \A r \in Requests : Unsent(r)' => Unsent(r)
    BY <1>1, <1>6 DEF Unsent
  <1>8. \A r \in Requests : Finished(r)' => Finished(r)
    BY <1>1, <1>2, <1>3 DEF Finished
  <1>9. \A t \in Senders :
          /\ pc'[t] = "stream" => builder'[t].file = FileOf[task'[t]]
          /\ \A a \in Stage : BuilderAt(builder[t], a) => BuilderAt(builder'[t], a)
    BY <1>1, <1>2, <1>4 DEF BuildersInv
  <1> QED
    BY <1>1, <1>5, <1>6, <1>7, <1>8, <1>9 DEF Quiet

\* What was in transit is lost, and the connection is no longer live.
LEMMA BreakQuiet ==
  ASSUME TypeIInv, NEW s \in Senders, Break(s), Undisturbed => CalmEngine,
         NEW reached, BuildersInv(reached)
  PROVE  Quiet
  <1> USE DEF engineVars, queue, threadVars, peerVars, bounds, history
  <1>0. wire \in [Senders -> Seq(Message)]
    BY DEF TypeIInv, PeerTypeOK
  <1>1. /\ wire'[s] = << >> /\ \A t \in Senders : t # s => wire'[t] = wire[t]
        /\ broken' = broken \cup {s}
        /\ UNCHANGED <<parser, disk, download, builder, pc, task, upload, fate,
                       running, cancel>>
    BY <1>0 DEF Break
  <1>2. ~Undisturbed
    BY DEF Undisturbed, CalmEngine, Break
  <1>3. Len(wire'[s]) = 0 /\ Last(s)' = 1
    BY <1>1 DEF Last
  <1>4. \A t \in Senders : t # s => Last(t)' = Last(t)
    BY <1>1 DEF Last
  <1>5. \A t \in Senders : /\ \A i \in 1..Last(t)' : i \in 1..Last(t)
                           /\ \A i \in 1..Len(wire'[t]) :
                                i \in 1..Len(wire[t]) /\ wire'[t][i] = wire[t][i]
                           /\ Live(t)' => Live(t) /\ Last(t)' = Last(t)
    BY <1>1, <1>3, <1>4, LastFacts DEF Live
  <1>6. \A r \in Requests : Unsent(r)' => Unsent(r)
    BY <1>1 DEF Unsent
  <1>7. \A t \in Senders : pc'[t] = "stream" => builder'[t].file = FileOf[task'[t]]
    BY <1>1 DEF BuildersInv
  <1> QED
    BY <1>1, <1>2, <1>5, <1>6, <1>7 DEF Quiet

-----------------------------------------------------------------------------
(* One turn of the do-while                                                 *)

\* The turn of s builds m, leaves the builder c and comes to the stage e.
Turn(s, m, c, a, e) ==
    /\ m # NoMsg /\ Sends(a, m, e)
    /\ BuilderAt(c, e)
    /\ c.file = builder[s].file
    /\ c.isEnd => c.state = "Default"
    /\ c.state = "Default" => c.isEnd
    /\ m.type = "file_canceled" => cancel[s]

LEMMA NextTurn ==
  ASSUME AllOpen, TypeIInv, ReadyIInv, NEW s \in Senders, StreamNext(s),
         ~builder[s].isEnd, NEW a \in Stage, BuilderAt(builder[s], a)
  PROVE  \E m, c : \E e \in Stage :
            /\ Turn(s, m, c, a, e)
            /\ builder' = [builder EXCEPT ![s] = c]
            /\ pc' = pc
            /\ wire' = IF Live(s) THEN [wire EXCEPT ![s] = Append(@, m)] ELSE wire
  <1> DEFINE b == IF cancel[s] THEN CancelSending(builder[s]) ELSE builder[s]
             m == GetStream(b).msg
             c == GetStream(b).builder
  <1>0. /\ BuilderOK(builder[s]) /\ builder[s].file \in Files
        /\ Consistent(builder[s]) /\ pc \in [Senders -> ThreadStates]
        /\ pc[s] = "stream"
    BY DEF StreamNext, TypeIInv, ThreadIInv, ReadyIInv, QueueIInv, QueueTypeOK
  <1>1. BuilderOK(b) /\ b.file = builder[s].file
    BY <1>0, CancelSendingOK
  <1>2. Continues(b) /\ Advances(b, a)
    BY <1>0, StreamContinues, StreamContinuesCanceled, StreamAdvances,
       StreamAdvancesCanceled
  <1>3. ~b.isEnd
    <2>1. builder[s] \in Builder
      BY <1>0 DEF BuilderOK
    <2> QED
      BY <2>1 DEF CancelSending, Builder
  <1>4. b.state = "Cancel" => cancel[s]
    BY <1>0 DEF Consistent
  <1>5. /\ builder' = [builder EXCEPT ![s] = c]
        /\ pc' = [pc EXCEPT ![s] = IF m = NoMsg THEN "report" ELSE pc[s]]
        /\ wire' = IF m = NoMsg \/ ~running[s] \/ s \in broken
                   THEN wire ELSE [wire EXCEPT ![s] = Append(@, m)]
    BY DEF StreamNext
  <1> HIDE DEF b
  <1>6. PICK e \in Stage : Sends(a, m, e) /\ BuilderAt(c, e)
    BY <1>2 DEF Advances
  <1>7. m # NoMsg /\ Consistent(c)
    BY <1>2 DEF Continues
  <1>8. /\ c.file = builder[s].file
        /\ m.type \in {"file_end", "file_canceled"} => c.isEnd
        /\ m.type = "file_canceled" => cancel[s]
    BY <1>0, <1>1, <1>3, <1>4, GetStreamOK, LastMessages
  <1> HIDE DEF m, c
  <1>9. c.state = "Default" => c.isEnd
    <2>1. c.state = "Default" => e.file = NoFile
      BY <1>6, RestFields DEF BuilderAt
    <2>2. e.file = NoFile => m.type \in {"file_end", "file_canceled"}
      <3>1. SendsEnd(a, m, e) \/ SendsCanceled(a, m, e) =>
              m.type \in {"file_end", "file_canceled"}
        BY DEF SendsEnd, SendsCanceled
      <3> QED
        BY <1>6, <3>1, NeverRest DEF Sends
    <2> QED
      BY <1>8, <2>1, <2>2
  <1>10. Turn(s, m, c, a, e)
    BY <1>6, <1>7, <1>8, <1>9 DEF Turn, Consistent
  <1>11. pc' = pc
    BY <1>0, <1>5, <1>7
  <1>12. wire' = IF Live(s) THEN [wire EXCEPT ![s] = Append(@, m)] ELSE wire
    BY <1>5, <1>7 DEF Live
  <1> QED
    BY <1>5, <1>10, <1>11, <1>12

\* A turn that sends nothing: the transfer is over, or its messages are lost.
LEMMA SilentTurnQuiet ==
  ASSUME AllOpen, TypeIInv, ReadyIInv, NEW s \in Senders, StreamNext(s),
         Undisturbed => CalmEngine, builder[s].isEnd \/ ~Live(s),
         NEW reached \in Reached, BuildersInv(reached)
  PROVE  Quiet
  <1>0. /\ pc[s] = "stream" /\ task[s] \in Requests
        /\ BuilderOK(builder[s]) /\ Consistent(builder[s])
        /\ builder[s].file \in Files
        /\ pc \in [Senders -> ThreadStates] /\ builder \in [Senders -> Builder]
        /\ upload \in [Requests -> {"none", "progress", "complete"}]
    BY DEF StreamNext, TypeIInv, ThreadIInv, ReadyIInv, QueueIInv, QueueTypeOK,
           QueueInv, Busy
  <1>1. /\ UNCHANGED <<parser, disk, download, task, fate, running, cancel, broken>>
        /\ \A r \in Requests : upload'[r] = "complete" => upload[r] = "complete"
    <2>1. \/ upload' = [upload EXCEPT ![task[s]] = "progress"]
          \/ UNCHANGED upload
      BY DEF StreamNext
    <2>2. \A r \in Requests : upload'[r] = "complete" => upload[r] = "complete"
      BY <1>0, <2>1
    <2> QED
      BY <2>2 DEF StreamNext, peerVars, engineVars
  <1>2. /\ wire' = wire
        /\ \A t \in Senders : t # s => pc'[t] = pc[t] /\ builder'[t] = builder[t]
        /\ pc'[s] \in {"stream", "report"}
        /\ builder'[s].file = builder[s].file
        /\ builder'[s].state = "Default" /\ ~builder'[s].isEnd => pc'[s] = "report"
        /\ \A a \in Stage : BuilderAt(builder[s], a) =>
              \E e \in Stage : BuilderAt(builder'[s], e) /\ (Live(s) => e = a)
        /\ Live(s) => pc'[s] = "report" /\ builder[s].isEnd
    <2>1. CASE builder[s].isEnd
      <3> DEFINE b == IF cancel[s] THEN CancelSending(builder[s]) ELSE builder[s]
      <3>1. b = builder[s]
        BY <1>0, <2>1 DEF CancelSending, Consistent
      <3> HIDE DEF b
      <3>2. GetStream(b).msg = NoMsg
        BY <2>1, <3>1 DEF GetStream, Result
      <3>3. /\ GetStream(b).builder.state = "Default"
            /\ GetStream(b).builder.file = builder[s].file
        BY <1>0, <2>1, <3>1, EndOfStream, GetStreamOK
      <3>4. /\ builder' = [builder EXCEPT ![s] = GetStream(b).builder]
            /\ pc' = [pc EXCEPT ![s] = "report"]
            /\ wire' = wire
        BY <3>2 DEF StreamNext, b
      <3>5. builder[s].state = "Default"
        BY <1>0, <2>1 DEF Consistent
      <3>6. \A a \in Stage :
               BuilderAt(builder[s], a) => BuilderAt(GetStream(b).builder, a)
        BY <3>3, <3>5 DEF BuilderAt
      <3> QED
        BY <1>0, <2>1, <3>3, <3>4, <3>6
    <2>2. CASE ~builder[s].isEnd
      <3>1. ~Live(s)
        BY <2>2
      <3>2. PICK a \in Stage : BuilderAt(builder[s], a)
        BY DEF BuildersInv
      <3>3. PICK m, c : \E e \in Stage :
              /\ Turn(s, m, c, a, e)
              /\ builder' = [builder EXCEPT ![s] = c]
              /\ pc' = pc /\ wire' = wire
        BY <2>2, <3>1, <3>2, NextTurn
      <3> QED
        BY <1>0, <3>1, <3>3 DEF Turn
    <2> QED
      BY <2>1, <2>2
  <1>3. \A t \in Senders : Last(t)' = Last(t) /\ (Live(t)' <=> Live(t))
    BY <1>1, <1>2 DEF Last, Live
  <1>4. \A r \in Requests : Unsent(r)' => Unsent(r)
    BY <1>0, <1>1, <1>2 DEF Unsent
  <1>5. ASSUME Undisturbed
        PROVE  \A r \in Requests : Finished(r)' => Finished(r)
    <2>1. Live(s)
      BY <1>0, <1>5 DEF CalmEngine, Live
    <2> QED
      BY <1>0, <1>1, <1>2, <2>1 DEF Finished
  <1>6. \A t \in Senders :
          /\ pc'[t] = "stream" => builder'[t].file = FileOf[task'[t]]
          /\ \A a \in Stage : BuilderAt(builder[t], a) =>
                \E e \in Stage : BuilderAt(builder'[t], e) /\ (Live(t)' => e = a)
    BY <1>0, <1>1, <1>2, <1>3 DEF BuildersInv
  <1>7. \A t \in Senders : pc'[t] \in {"stream", "report"} =>
                              pc[t] \in {"stream", "report"}
    BY <1>0, <1>2
  <1> QED
    BY <1>1, <1>2, <1>3, <1>4, <1>5, <1>6, <1>7 DEF Quiet

\* A turn on a live connection: the message follows the ones in transit.
LEMMA LiveTurnData ==
  ASSUME OwnFile, TypeIInv, NEW s \in Senders, StreamNext(s), Live(s),
         ~builder[s].isEnd, Undisturbed => CalmEngine,
         NEW reached \in Reached, DataInv(reached),
         NEW n, n = Last(s), NEW m, NEW c, NEW e \in Stage,
         Turn(s, m, c, reached[s][n], e),
         builder' = [builder EXCEPT ![s] = c],
         pc' = pc, wire' = [wire EXCEPT ![s] = Append(@, m)],
         NEW later,
         later = [reached EXCEPT ![s] = [reached[s] EXCEPT ![n + 1] = e]]
  PROVE  later \in Reached /\ DataInv(later)'
  <1> DEFINE r == task[s]
             f == FileOf[r]
             a == reached[s][n]
  <1>0. /\ pc[s] = "stream" /\ r \in Requests /\ f \in Files
        /\ builder[s].file = f
        /\ builder \in [Senders -> Builder]
        /\ wire \in [Senders -> Seq(Message)]
        /\ upload[r] # "complete"
        /\ \A t \in Senders : task[t] = r => t = s
        /\ fate[r] = "taken"
    BY SyncAssumption DEF DataInv, BuildersInv, StreamNext, TypeIInv, QueueIInv,
       QueueTypeOK, QueueInv, OneHolder, Busy, ThreadIInv, PeerTypeOK
  <1>1. /\ UNCHANGED <<parser, disk, download, task, fate, running, cancel, broken>>
        /\ \A q \in Requests : upload'[q] = "complete" => upload[q] = "complete"
    <2>1. \/ upload' = [upload EXCEPT ![r] = "progress"]
          \/ UNCHANGED upload
      BY DEF StreamNext
    <2>2. upload \in [Requests -> {"none", "progress", "complete"}]
      BY DEF TypeIInv, QueueIInv, QueueTypeOK
    <2>3. \A q \in Requests : upload'[q] = "complete" => upload[q] = "complete"
      BY <1>0, <2>1, <2>2
    <2> QED
      BY <2>3 DEF StreamNext, peerVars, engineVars
  \* The new message and the stage after it come last.
  <1>2. /\ n \in Nat /\ n >= 1 /\ n \in 1..n /\ n = Len(wire[s]) + 1
        /\ Len(wire[s]) \in Nat
    BY LastFacts DEF Last
  <1>3. /\ Len(wire'[s]) = n /\ wire'[s][n] = m
        /\ \A i \in 1..Len(wire[s]) : wire'[s][i] = wire[s][i]
    <2>1. wire'[s] = Append(wire[s], m) /\ wire[s] \in Seq(Message)
      BY <1>0
    <2> QED
      BY <1>2, <2>1, AppendProperties
  <1>4. /\ Last(s)' = n + 1
        /\ \A t \in Senders : t # s => /\ wire'[t] = wire[t]
                                       /\ Last(t)' = Last(t)
                                       /\ builder'[t] = builder[t]
        /\ builder'[s] = c
        /\ \A t \in Senders : Live(t)' <=> Live(t)
    BY <1>0, <1>1, <1>3 DEF Last, Live
  <1>5. /\ later \in Reached
        /\ later[s][n + 1] = e
        /\ \A t \in Senders : \A i \in Nat :
              t # s \/ i # n + 1 => later[t][i] = reached[t][i]
    BY <1>2 DEF Reached
  <1>6. \A t \in Senders : \A i \in 1..Last(t) :
           i \in Nat /\ later[t][i] = reached[t][i]
    <2> SUFFICES ASSUME NEW t \in Senders, NEW i \in 1..Last(t)
                 PROVE  i \in Nat /\ later[t][i] = reached[t][i]
      OBVIOUS
    <2>1. i \in Nat /\ i <= Last(t)
      BY LastFacts
    <2>2. t # s \/ i # n + 1
      <3>1. t = s => i <= n
        BY <2>1
      <3> QED
        BY <1>2, <2>1, <3>1
    <2> QED
      BY <1>5, <2>1, <2>2
  <1>7. \A t \in Senders : \A i \in 1..Last(t)' :
           i \in 1..Last(t) \/ (t = s /\ i = n + 1)
    BY <1>2, <1>4, LastFacts
  \* The stages at the end of the stream are about f, or about no file.
  <1>8. /\ Sends(a, m, e) /\ m # NoMsg /\ BuilderAt(c, e) /\ c.file = f
        /\ c.isEnd => c.state = "Default"
        /\ c.state = "Default" => c.isEnd
        /\ m.type = "file_canceled" => cancel[s]
    BY <1>0 DEF Turn
  <1>9. BuilderAt(builder[s], a)
    BY <1>0, <1>2 DEF DataInv, BuildersInv
  <1>10. /\ e.file \in {f, NoFile} /\ a.file \in {f, NoFile}
         /\ a.file = NoFile => Unsent(r)
         /\ f # NoFile
    <2>1. f # NoFile
      BY <1>0, BuilderAssumption
    <2>2. e.file \in {f, NoFile}
      BY <1>8, RestFields DEF BuilderAt, UnderWay
    <2>3. a.file \in {f, NoFile}
      BY <1>0, <1>9, RestFields DEF BuilderAt, UnderWay
    <2>4. a.file = NoFile => builder[s].state = "Default"
      BY <1>0, <1>9, <2>1 DEF BuilderAt, UnderWay
    <2> QED
      BY <1>0, <2>1, <2>2, <2>3, <2>4 DEF Unsent
  <1> HIDE DEF a, f, r
  <1>11. MessagesInv(later)'
    <2> SUFFICES ASSUME NEW t \in Senders, NEW i \in 1..Len(wire'[t])
                 PROVE  Sends(later[t][i], wire'[t][i], later[t][i + 1])
      BY DEF MessagesInv
    <2>1. CASE t = s /\ i = n
      BY <1>2, <1>3, <1>5, <1>8, <2>1 DEF a
    <2>2. CASE ~(t = s /\ i = n)
      <3>1. i \in 1..Len(wire[t]) /\ wire'[t][i] = wire[t][i] /\ i \in Nat
        BY <1>2, <1>3, <1>4, <2>2, LastFacts
      <3>2. i \in 1..Last(t) /\ i + 1 \in 1..Last(t)
        BY <3>1, LastFacts
      <3>3. Sends(reached[t][i], wire[t][i], reached[t][i + 1])
        BY <3>1 DEF DataInv, MessagesInv
      <3> QED
        BY <1>6, <3>1, <3>2, <3>3
    <2> QED
      BY <2>1, <2>2
  <1>12. BuildersInv(later)'
    <2> SUFFICES ASSUME NEW t \in Senders
                 PROVE  /\ pc'[t] = "stream" => builder'[t].file = FileOf[task'[t]]
                        /\ \E b \in Stage :
                              /\ BuilderAt(builder'[t], b)
                              /\ Live(t)' => b = later[t][Last(t)']
      BY DEF BuildersInv
    <2>1. CASE t = s
      BY <1>1, <1>4, <1>5, <1>8, <2>1 DEF f, r
    <2>2. CASE t # s
      <3>1. Last(t) \in 1..Last(t)
        BY LastFacts
      <3> QED
        BY <1>1, <1>4, <1>6, <2>2, <3>1 DEF DataInv, BuildersInv
    <2> QED
      BY <2>1, <2>2
  <1>13. \A t \in Senders : later[t][1] = reached[t][1]
    BY <1>6, LastFacts
  <1>14. ParsersInv(later)'
    BY <1>1, <1>13 DEF DataInv, ParsersInv
  \* Where f is already, it is on s up to the end.
  <1>15. \A t \in Senders : \A i \in 1..Last(t) : reached[t][i].file = f =>
            /\ a.file = f /\ t = s
            /\ \A j \in i..n : reached[s][j].file = f
    <2> SUFFICES ASSUME NEW t \in Senders, NEW i \in 1..Last(t),
                        reached[t][i].file = f
                 PROVE  /\ a.file = f /\ t = s
                        /\ \A j \in i..n : reached[s][j].file = f
      OBVIOUS
    <2>1. ~Unsent(r)
      BY <1>0 DEF DataInv, UnsentInv, f, r
    <2>2. a.file = f /\ n \in 1..Last(s)
      BY <1>2, <1>10, <2>1
    <2> QED
      BY <1>10, <2>2 DEF DataInv, OneStream, a
  <1>16. OneStream(later)'
    <2> SUFFICES ASSUME NEW t \in Senders, NEW u \in Senders,
                        NEW i \in 1..Last(t)', NEW k \in 1..Last(u)',
                        later[t][i].file = later[u][k].file,
                        later[t][i].file # NoFile
                 PROVE  t = u /\ \A j \in i..k : later[t][j].file = later[t][i].file
      BY DEF OneStream
    <2>1. CASE i \in 1..Last(t) /\ k \in 1..Last(u)
      <3>1. later[t][i] = reached[t][i] /\ later[u][k] = reached[u][k]
        BY <1>6, <2>1
      <3>2. t = u /\ \A j \in i..k : reached[t][j].file = reached[t][i].file
        BY <2>1, <3>1 DEF DataInv, OneStream
      <3>3. \A j \in i..k : j \in 1..Last(u)
        BY <2>1, LastFacts
      <3> QED
        BY <1>6, <3>1, <3>2, <3>3
    <2>2. CASE i \in 1..Last(t) /\ u = s /\ k = n + 1
      <3>1. later[t][i] = reached[t][i] /\ later[u][k] = e
        BY <1>5, <1>6, <2>2
      <3>2. e.file = f /\ reached[t][i].file = f
        BY <1>10, <3>1
      <3>3. t = s /\ \A j \in i..n : reached[s][j].file = f
        BY <2>2, <3>2, <1>15
      <3>4. \A j \in i..k : j = n + 1 \/ (j \in i..n /\ j \in 1..Last(s))
        BY <1>2, <2>2
      <3> QED
        BY <1>5, <1>6, <2>2, <3>1, <3>2, <3>3, <3>4
    <2>3. CASE t = s /\ i = n + 1 /\ k \in 1..Last(u)
      <3>1. later[t][i] = e /\ later[u][k] = reached[u][k]
        BY <1>5, <1>6, <2>3
      <3>2. e.file = f /\ reached[u][k].file = f
        BY <1>10, <3>1
      <3>3. u = s
        BY <2>3, <3>2, <1>15
      <3>4. \A j \in i..k : FALSE
        <4>1. k \in 1..n
          BY <2>3, <3>3
        <4> QED
          BY <1>2, <2>3, <4>1
      <3> QED
        BY <2>3, <3>3, <3>4
    <2>4. CASE t = s /\ i = n + 1 /\ u = s /\ k = n + 1
      <3>1. \A j \in i..k : j = i
        BY <1>2, <2>4
      <3> QED
        BY <2>4, <3>1
    <2> QED
      BY <1>7, <2>1, <2>2, <2>3, <2>4
  <1>17. ComingInv(later)'
    <2> SUFFICES ASSUME NEW t \in Senders, NEW i \in 1..Last(t)',
                        later[t][i].file # NoFile
                 PROVE  /\ download[later[t][i].file] = NoEvent
                        /\ \/ later[t][i].file = later[t][1].file
                           \/ Untouched(disk, later[t][i].file)
      BY <1>1 DEF ComingInv
    <2>1. CASE i \in 1..Last(t)
      BY <1>6, <1>13, <2>1 DEF DataInv, ComingInv
    <2>2. CASE t = s /\ i = n + 1
      <3>1. later[t][i].file = f
        BY <1>5, <1>10, <2>2
      <3>2. CASE a.file = f
        <4>1. n \in 1..Last(s)
          BY <1>2
        <4> QED
          BY <1>10, <1>13, <2>2, <3>1, <3>2, <4>1 DEF DataInv, ComingInv, a
      <3>3. CASE a.file # f
        BY <1>0, <1>10, <3>1, <3>3 DEF DataInv, UnsentInv, f
      <3> QED
        BY <3>2, <3>3
    <2> QED
      BY <1>7, <2>1, <2>2
  <1>18. \A q \in Requests : Unsent(q)' => Unsent(q) /\ q # r
    <2>1. \A q \in Requests : q # r => (Unsent(q)' => Unsent(q))
      BY <1>1, <1>4 DEF Unsent, r
    <2>2. ASSUME NEW q \in Requests, Unsent(q)'
          PROVE  q # r
      BY <1>0, <1>1, <1>4, <1>8, <2>2 DEF Unsent, r
    <2> QED
      BY <2>1, <2>2
  <1>19. UnsentInv(later)'
    <2> SUFFICES ASSUME NEW q \in Requests, Unsent(q)'
                 PROVE  /\ download[FileOf[q]] = NoEvent
                        /\ Untouched(disk, FileOf[q])
                        /\ \A t \in Senders : \A i \in 1..Last(t)' :
                              later[t][i].file # FileOf[q]
      BY <1>1 DEF UnsentInv
    <2>1. Unsent(q) /\ FileOf[q] # f /\ FileOf[q] # NoFile
      BY <1>0, <1>18, SyncAssumption, BuilderAssumption DEF OwnFile, f
    <2>2. ASSUME NEW t \in Senders, NEW i \in 1..Last(t)'
          PROVE  later[t][i].file # FileOf[q]
      BY <1>5, <1>6, <1>7, <1>10, <2>1, <2>2 DEF DataInv, UnsentInv
    <2> QED
      BY <2>1, <2>2 DEF DataInv, UnsentInv
  <1>20. EndsInv'
    BY <1>1 DEF DataInv, EndsInv
  \* What is said of the new message, and of nothing before.
  <1>21. ASSUME NEW type, NEW g \in Files, InTransit(later, type, g)'
         PROVE  InTransit(reached, type, g) \/ (m.type = type /\ g = f)
    <2>1. PICK t \in Senders : \E i \in 1..Len(wire'[t]) :
            wire'[t][i].type = type /\ later[t][i].file = g
      BY <1>21 DEF InTransit
    <2>2. PICK i \in 1..Len(wire'[t]) :
            wire'[t][i].type = type /\ later[t][i].file = g
      BY <2>1
    <2>3. CASE t = s /\ i = n
      <3>1. m.type = type
        BY <1>3, <2>2, <2>3
      <3>2. later[s][n] = a
        BY <1>2, <1>5 DEF a
      <3> QED
        BY <1>10, <2>2, <2>3, <3>1, <3>2, BuilderAssumption
    <2>4. CASE ~(t = s /\ i = n)
      <3>1. i \in 1..Len(wire[t]) /\ wire'[t][i] = wire[t][i]
        BY <1>2, <1>3, <1>4, <2>4, LastFacts
      <3>2. later[t][i] = reached[t][i]
        BY <1>6, <3>1, LastFacts
      <3> QED
        BY <2>2, <3>1, <3>2 DEF InTransit
    <2> QED
      BY <2>3, <2>4
  <1>22. ASSUME NEW type, NEW g, InTransit(reached, type, g)
         PROVE  InTransit(later, type, g)'
    <2>1. PICK t \in Senders : \E i \in 1..Len(wire[t]) :
            wire[t][i].type = type /\ reached[t][i].file = g
      BY <1>22 DEF InTransit
    <2>2. PICK i \in 1..Len(wire[t]) :
            wire[t][i].type = type /\ reached[t][i].file = g
      BY <2>1
    <2>3. i \in 1..Len(wire'[t]) /\ wire'[t][i] = wire[t][i]
      BY <1>2, <1>3, <1>4
    <2>4. later[t][i] = reached[t][i]
      BY <1>6, LastFacts
    <2> QED
      BY <2>2, <2>3, <2>4 DEF InTransit
  <1>23. CancelsInv(later)'
    <2> SUFFICES ASSUME NEW q \in Requests,
                        \/ download[FileOf[q]] = CancelSeen
                        \/ InTransit(later, "file_canceled", FileOf[q])'
                 PROVE  /\ upload'[q] # "complete"
                        /\ \A t \in Senders :
                              task[t] = q /\ pc[t] \in {"stream", "report"}
                                  => cancel[t]
      BY <1>1 DEF CancelsInv
    <2>1. FileOf[q] \in Files
      BY SyncAssumption
    <2>2. CASE \/ download[FileOf[q]] = CancelSeen
               \/ InTransit(reached, "file_canceled", FileOf[q])
      BY <1>1, <2>2 DEF DataInv, CancelsInv
    <2>3. CASE m.type = "file_canceled" /\ FileOf[q] = f
      <3>1. q = r
        BY <1>0, <2>3 DEF OwnFile, f
      <3> QED
        BY <1>0, <1>1, <1>8, <2>3, <3>1
    <2> QED
      BY <1>21, <2>1, <2>2, <2>3
  <1>24. ASSUME Undisturbed
         PROVE  ArrivalInv(later)'
    <2>1. ArrivalInv(reached)
      BY <1>24 DEF DataInv
    <2>2. \A t \in Senders : later[t][1].file = NoFile => parser'[t].stream = NoPath
      BY <1>1, <1>13, <2>1 DEF ArrivalInv
    <2>3. ASSUME NEW q \in Requests, Finished(q)'
          PROVE  \/ download[FileOf[q]] = Ended
                 \/ InTransit(later, "file_end", FileOf[q])'
      <3>1. CASE Finished(q)
        BY <1>22, <2>1, <3>1 DEF ArrivalInv
      <3>2. CASE ~Finished(q)
        <4>1. q = r /\ ~cancel[s] /\ c.isEnd
          BY <1>1, <1>4, <2>3, <3>2 DEF Finished, r
        <4>2. e = Rest
          BY <1>8, <4>1 DEF BuilderAt
        <4>3. SendsEnd(a, m, e)
          <5>1. e.file = NoFile
            BY <4>2, RestFields
          <5>2. ~SendsCanceled(a, m, e)
            BY <1>8, <4>1 DEF SendsCanceled
          <5>3. /\ ~SendsFileHeader(a, m, e) /\ ~SendsDirHeader(a, m, e)
                /\ ~SendsItemHeader(a, m, e) /\ ~SendsBlock(a, m, e)
            BY <5>1, NeverRest
          <5> QED
            BY <1>8, <5>2, <5>3 DEF Sends
        <4>4. m.type = "file_end" /\ a.file \in Files
          BY <4>3 DEF SendsEnd, StageOK
        <4>5. a.file = f
          BY <1>10, <4>4, BuilderAssumption
        <4>6. n \in 1..Len(wire'[s]) /\ wire'[s][n].type = "file_end"
              /\ later[s][n].file = f
          BY <1>2, <1>3, <1>5, <4>4, <4>5 DEF a
        <4> QED
          BY <4>1, <4>6 DEF InTransit, f
      <3> QED
        BY <3>1, <3>2
    <2> QED
      BY <1>1, <2>2, <2>3 DEF ArrivalInv
  <1>25. Undisturbed' <=> Undisturbed
    BY DEF Undisturbed
  <1> QED
    BY <1>5, <1>11, <1>12, <1>14, <1>16, <1>17, <1>19, <1>20, <1>23, <1>24, <1>25
       DEF DataInv

-----------------------------------------------------------------------------
(* The parser is handed a message                                           *)

\* Other files' paths do not matter to a parser in the middle of a file.
LEMMA ReceivingKept ==
  ASSUME NEW p, NEW d, NEW e, NEW a, a.file \in Files, Receiving(p, d, a),
         \A x \in PathsBelow(a.file) : e[x] = d[x]
  PROVE  Receiving(p, e, a)
  <1>1. DiskAt(e, a)
    BY PathFacts DEF Receiving, DiskAt
  <1> QED
    BY <1>1 DEF Receiving

\* What one message does to the receiver's side.
Received(s, m, a, b, f) ==
    /\ ParserAt(parser'[s], disk', b)
    /\ \A t \in Senders : t # s => parser'[t] = parser[t]
    /\ \A g \in Files : g # f => /\ download'[g] = download[g]
                                 /\ \A x \in PathsBelow(g) : disk'[x] = disk[x]
    /\ download[f] = NoEvent
    /\ b.file # NoFile => download'[f] = NoEvent
    /\ b.file = NoFile => /\ parser'[s].stream = NoPath
                          /\ \/ /\ m.type = "file_end"
                                /\ download'[f] = Ended
                                /\ AllWhole(disk', f)
                             \/ /\ m.type = "file_canceled"
                                /\ download'[f] = CancelSeen
                                /\ NoStump(disk', f)

LEMMA NextReceived ==
  ASSUME Apart, TypeIInv, NEW s \in Senders, Receive(s),
         NEW reached \in Reached, DataInv(reached),
         NEW m, m = wire[s][1],
         NEW a, a = reached[s][1], NEW b, b = reached[s][2],
         NEW f, f = FileOfStep(a, b)
  PROVE  Sends(a, m, b) /\ f \in Files /\ Received(s, m, a, b, f)
  <1> DEFINE o == Parse(parser[s], disk, m)
  <1>0. /\ wire[s] # << >> /\ wire[s] \in Seq(Message)
        /\ parser[s] \in Parser /\ parser \in [Senders -> Parser]
        /\ DiskOK(disk)
        /\ download \in [Files -> {NoEvent, Ended, CancelSeen}]
    BY DEF Receive, TypeIInv, PeerTypeOK, PastTypeOK, DiskOK
  <1>1. Len(wire[s]) \in Nat /\ Len(wire[s]) >= 1 /\ m = Head(wire[s])
    BY <1>0, EmptySeq, LenProperties
  <1>2. /\ parser' = [parser EXCEPT ![s] = o.parser]
        /\ disk' = o.disk
        /\ download' = IF o.event = NoEvent THEN download
                       ELSE [download EXCEPT ![parser[s].cur] = o.event]
    BY <1>1 DEF Receive
  <1>3. 1 \in 1..Len(wire[s]) /\ 1 \in 1..Last(s) /\ 2 \in 1..Last(s)
    BY <1>1 DEF Last
  <1>4. Sends(a, m, b)
    <2>1. Sends(reached[s][1], wire[s][1], reached[s][1 + 1])
      BY <1>3 DEF DataInv, MessagesInv
    <2>2. 1 + 1 = 2
      OBVIOUS
    <2> QED
      BY <2>1, <2>2
  <1>5. /\ a.file # NoFile => f = a.file /\ b.file \in {f, NoFile} /\ StageOK(a)
        /\ a.file = NoFile => f = b.file /\ b.file \in Files
    BY <1>4, SendsStage DEF FileOfStep
  <1>6. f \in Files /\ f # NoFile
    BY <1>5, BuilderAssumption DEF StageOK
  <1>7. download[f] = NoEvent /\ (a.file = NoFile => Untouched(disk, b.file))
    BY <1>3, <1>5, <1>6 DEF DataInv, ComingInv
  <1>8. ParserAt(parser[s], disk, a)
    BY DEF DataInv, ParsersInv
  <1>9. /\ ParserAt(o.parser, o.disk, b)
        /\ OnlyBelow(f, disk, o.disk)
        /\ b.file # NoFile => o.event = NoEvent
        /\ b.file = NoFile => /\ parser[s].cur = f
                              /\ o.parser.stream = NoPath
                              /\ \/ /\ m.type = "file_end"
                                    /\ o.event = Ended
                                    /\ AllWhole(o.disk, f)
                                 \/ /\ m.type = "file_canceled"
                                    /\ o.event = CancelSeen
                                    /\ NoStump(o.disk, f)
    BY <1>0, <1>4, <1>7, <1>8, ParserFollows
  <1> HIDE DEF o
  <1>10. \A g \in Files : g # f => \A x \in PathsBelow(g) : disk'[x] = disk[x]
    <2> SUFFICES ASSUME NEW g \in Files, g # f, NEW x \in PathsBelow(g)
                 PROVE  disk'[x] = disk[x]
      OBVIOUS
    <2>1. x \in Paths
      BY PathFacts
    <2>2. x \notin PathsBelow(f)
      BY <1>6, FilesApart
    <2> QED
      BY <1>2, <1>9, <2>1, <2>2 DEF OnlyBelow
  <1>11. /\ parser'[s] = o.parser
         /\ \A t \in Senders : t # s => parser'[t] = parser[t]
    BY <1>0, <1>2
  <1>12. CASE b.file # NoFile
    <2>1. download' = download
      BY <1>2, <1>9, <1>12
    <2> QED
      BY <1>2, <1>4, <1>6, <1>7, <1>9, <1>10, <1>11, <1>12, <2>1 DEF Received
  <1>13. CASE b.file = NoFile
    <2>1. o.event # NoEvent
      BY <1>9, <1>13 DEF NoEvent, Ended, CancelSeen
    <2>2. download' = [download EXCEPT ![f] = o.event]
      BY <1>2, <1>9, <1>13, <2>1
    <2>3. /\ download'[f] = o.event
          /\ \A g \in Files : g # f => download'[g] = download[g]
      BY <1>0, <1>6, <2>2
    <2> QED
      BY <1>2, <1>4, <1>6, <1>7, <1>9, <1>10, <1>11, <1>13, <2>3 DEF Received
  <1> QED
    BY <1>12, <1>13

LEMMA ReceiveData ==
  ASSUME Apart, TypeIInv, NEW s \in Senders, Receive(s),
         NEW reached \in Reached, DataInv(reached),
         NEW later \in Reached,
         \A i \in Nat : later[s][i] = reached[s][i + 1],
         \A t \in Senders : t # s => \A i \in Nat : later[t][i] = reached[t][i]
  PROVE  DataInv(later)'
  <1>0. PICK m, a, b, f : /\ m = wire[s][1]
                          /\ a = reached[s][1] /\ b = reached[s][2]
                          /\ f = FileOfStep(a, b)
    OBVIOUS
  <1>1. Sends(a, m, b) /\ f \in Files /\ Received(s, m, a, b, f)
    BY <1>0, NextReceived
  <1>2. PICK n : n = Len(wire[s])
    OBVIOUS
  <1>3. /\ wire \in [Senders -> Seq(Message)] /\ wire[s] # << >>
        /\ wire' = [wire EXCEPT ![s] = Tail(@)]
        /\ UNCHANGED <<engineVars, threadVars, broken, upload, fate>>
    BY DEF Receive, TypeIInv, PeerTypeOK
  <1>4. /\ n \in Nat /\ n >= 1
        /\ wire'[s] = Tail(wire[s]) /\ Len(wire'[s]) = n - 1
        /\ \A i \in 1..(n - 1) : wire'[s][i] = wire[s][i + 1]
    <2>1. wire[s] \in Seq(Message) /\ wire'[s] = Tail(wire[s])
      BY <1>3
    <2>2. n \in Nat /\ n >= 1
      BY <1>2, <1>3, <2>1, EmptySeq, LenProperties
    <2>3. Len(Tail(wire[s])) = n - 1
          /\ \A i \in 1..(n - 1) : Tail(wire[s])[i] = wire[s][i + 1]
      BY <1>2, <1>3, <2>1
    <2> QED
      BY <2>1, <2>2, <2>3
  <1>5. /\ Last(s) = n + 1 /\ Last(s)' = n
        /\ \A t \in Senders : t # s => wire'[t] = wire[t] /\ Last(t)' = Last(t)
        /\ \A t \in Senders : Live(t)' <=> Live(t)
    BY <1>2, <1>3, <1>4 DEF Last, Live, threadVars
  <1>6. /\ \A i \in Nat : later[s][i] = reached[s][i + 1]
        /\ \A t \in Senders : t # s => \A i \in Nat : later[t][i] = reached[t][i]
    OBVIOUS
  \* Every stage that is left was there before.
  <1> DEFINE Before(t, i) == IF t = s THEN i + 1 ELSE i
  <1>7. \A t \in Senders : \A i \in 1..Last(t)' :
           /\ i \in Nat /\ Before(t, i) \in 1..Last(t)
           /\ later[t][i] = reached[t][Before(t, i)]
    <2> SUFFICES ASSUME NEW t \in Senders, NEW i \in 1..Last(t)'
                 PROVE  /\ i \in Nat /\ Before(t, i) \in 1..Last(t)
                        /\ later[t][i] = reached[t][Before(t, i)]
      OBVIOUS
    <2>1. CASE t = s
      <3>1. i \in 1..n
        BY <1>5, <2>1
      <3>2. i \in Nat /\ i + 1 \in 1..(n + 1)
        BY <1>4, <3>1
      <3> QED
        BY <1>5, <1>6, <2>1, <3>2
    <2>2. CASE t # s
      <3>1. i \in 1..Last(t) /\ i \in Nat
        BY <1>5, <2>2, LastFacts
      <3> QED
        BY <1>6, <2>2, <3>1
    <2> QED
      BY <2>1, <2>2
  <1>8. \A t \in Senders : \A i \in 1..Len(wire'[t]) :
           /\ Before(t, i) \in 1..Len(wire[t])
           /\ wire'[t][i] = wire[t][Before(t, i)]
           /\ later[t][i] = reached[t][Before(t, i)]
           /\ later[t][i + 1] = reached[t][Before(t, i) + 1]
    <2> SUFFICES ASSUME NEW t \in Senders, NEW i \in 1..Len(wire'[t])
                 PROVE  /\ Before(t, i) \in 1..Len(wire[t])
                        /\ wire'[t][i] = wire[t][Before(t, i)]
                        /\ later[t][i] = reached[t][Before(t, i)]
                        /\ later[t][i + 1] = reached[t][Before(t, i) + 1]
      OBVIOUS
    <2>1. CASE t = s
      <3>1. i \in 1..(n - 1)
        BY <1>4, <2>1
      <3>2. i \in Nat /\ i + 1 \in Nat /\ i + 1 \in 1..n
        BY <1>4, <3>1
      <3> QED
        BY <1>2, <1>4, <1>6, <2>1, <3>1, <3>2
    <2>2. CASE t # s
      <3>1. i \in 1..Len(wire[t]) /\ wire'[t][i] = wire[t][i]
        BY <1>5, <2>2
      <3>2. i \in Nat /\ i + 1 \in Nat
        BY <3>1, LastFacts
      <3> QED
        BY <1>6, <2>2, <3>1, <3>2
    <2> QED
      BY <2>1, <2>2
  <1> HIDE DEF Before
  \* f is on s only; once its last message has gone, nowhere.
  <1>9. /\ f # NoFile /\ b.file \in {f, NoFile} /\ a.file \in {f, NoFile}
        /\ b.file = NoFile => a.file = f
        /\ 1 \in 1..Last(s) /\ 2 \in 1..Last(s)
    <2>1. 1 \in 1..Last(s) /\ 2 \in 1..Last(s)
      BY <1>4, <1>5
    <2> QED
      BY <1>0, <1>1, <2>1, SendsStage, BuilderAssumption DEF FileOfStep
  <1>10. \A t \in Senders : t # s =>
            \A i \in 1..Last(t) : reached[t][i].file # f
    BY <1>0, <1>9 DEF DataInv, OneStream
  <1>11. ASSUME b.file = NoFile, NEW i \in 1..Last(s)'
         PROVE  later[s][i].file # f
    <2>1. i \in Nat /\ i + 1 \in 1..Last(s) /\ later[s][i] = reached[s][i + 1]
      BY <1>7 DEF Before
    <2>2. 2 \in 1..(i + 1)
      BY <1>5, <1>11, <2>1
    <2>3. reached[s][i + 1].file = f => reached[s][2].file = f
      BY <1>0, <1>9, <1>11, <2>1, <2>2 DEF DataInv, OneStream
    <2> QED
      BY <1>0, <1>9, <1>11, <2>1, <2>3
  <1>12. later[s][1] = b /\ \A t \in Senders : t # s => later[t][1] = reached[t][1]
    <2>1. 1 \in Nat /\ 1 + 1 = 2
      OBVIOUS
    <2> QED
      BY <1>0, <1>6, <2>1
  <1>13. /\ \A t \in Senders : t # s => parser'[t] = parser[t]
         /\ \A g \in Files : g # f =>
               /\ download'[g] = download[g]
               /\ \A x \in PathsBelow(g) : disk'[x] = disk[x]
               /\ Untouched(disk, g) => Untouched(disk', g)
         /\ download[f] = NoEvent
         /\ b.file # NoFile => download'[f] = NoEvent
    BY <1>1 DEF Received, Untouched
  <1>14. MessagesInv(later)'
    <2> SUFFICES ASSUME NEW t \in Senders, NEW i \in 1..Len(wire'[t])
                 PROVE  Sends(later[t][i], wire'[t][i], later[t][i + 1])
      BY DEF MessagesInv
    <2>1. Sends(reached[t][Before(t, i)], wire[t][Before(t, i)],
                reached[t][Before(t, i) + 1])
      BY <1>8 DEF DataInv, MessagesInv
    <2> QED
      BY <1>8, <2>1
  <1>15. BuildersInv(later)'
    <2> SUFFICES ASSUME NEW t \in Senders
                 PROVE  later[t][Last(t)'] = reached[t][Last(t)]
      <3>1. /\ UNCHANGED <<pc, task, builder>>
            /\ \A t \in Senders : Live(t)' => Live(t)
        BY <1>3, <1>5 DEF threadVars
      <3> QED
        BY <3>1 DEF DataInv, BuildersInv
    <2>1. CASE t = s
      BY <1>4, <1>5, <1>6, <2>1
    <2>2. CASE t # s
      BY <1>5, <1>6, <2>2, LastFacts
    <2> QED
      BY <2>1, <2>2
  <1>16. ParsersInv(later)'
    <2> SUFFICES ASSUME NEW t \in Senders
                 PROVE  ParserAt(parser'[t], disk', later[t][1])
      BY DEF ParsersInv
    <2>1. CASE t = s
      BY <1>1, <1>12, <2>1 DEF Received
    <2>2. CASE t # s
      <3> DEFINE g == reached[t][1].file
      <3>1. later[t][1] = reached[t][1] /\ parser'[t] = parser[t]
        BY <1>12, <1>13, <2>2
      <3>2. CASE g = NoFile
        BY <3>1, <3>2 DEF ParserAt
      <3>3. CASE g # NoFile
        <4>1. g \in Files /\ g # f
          BY <1>10, <2>2, <3>3, ReachedStage, LastFacts
        <4>2. Receiving(parser[t], disk, reached[t][1])
          BY <3>3 DEF DataInv, ParsersInv, ParserAt
        <4>3. \A x \in PathsBelow(g) : disk'[x] = disk[x]
          BY <1>13, <4>1
        <4>4. Receiving(parser[t], disk', reached[t][1])
          BY <4>1, <4>2, <4>3, ReceivingKept
        <4> QED
          BY <3>1, <4>4 DEF ParserAt
      <3> QED
        BY <3>2, <3>3
    <2> QED
      BY <2>1, <2>2
  <1>17. OneStream(later)'
    <2> SUFFICES ASSUME NEW t \in Senders, NEW u \in Senders,
                        NEW i \in 1..Last(t)', NEW k \in 1..Last(u)',
                        later[t][i].file = later[u][k].file,
                        later[t][i].file # NoFile
                 PROVE  t = u /\ \A j \in i..k : later[t][j].file = later[t][i].file
      BY DEF OneStream
    <2>1. /\ i \in Nat /\ k \in Nat
          /\ Before(t, i) \in 1..Last(t) /\ Before(u, k) \in 1..Last(u)
          /\ later[t][i] = reached[t][Before(t, i)]
          /\ later[u][k] = reached[u][Before(u, k)]
      BY <1>7
    <2>2. t = u /\ \A j \in Before(t, i)..Before(t, k) :
                      reached[t][j].file = reached[t][Before(t, i)].file
      BY <2>1 DEF DataInv, OneStream
    <2> SUFFICES ASSUME NEW j \in i..k
                 PROVE  later[t][j].file = later[t][i].file
      BY <2>2
    <2>3. Before(t, j) \in Before(t, i)..Before(t, k) /\ j \in Nat
      BY <2>1 DEF Before
    <2>4. later[t][j] = reached[t][Before(t, j)]
      BY <1>6, <2>3 DEF Before
    <2> QED
      BY <2>1, <2>2, <2>3, <2>4
  <1>18. ComingInv(later)'
    <2> SUFFICES ASSUME NEW t \in Senders, NEW i \in 1..Last(t)',
                        later[t][i].file # NoFile
                 PROVE  /\ download'[later[t][i].file] = NoEvent
                        /\ \/ later[t][i].file = later[t][1].file
                           \/ Untouched(disk', later[t][i].file)
      BY DEF ComingInv
    <2> DEFINE k == Before(t, i)
               g == later[t][i].file
    <2>1. k \in 1..Last(t) /\ later[t][i] = reached[t][k] /\ k \in Nat
      <3>1. k \in 1..Last(t) /\ later[t][i] = reached[t][k]
        BY <1>7
      <3> HIDE DEF k
      <3> QED
        BY <3>1
    <2>2. g \in Files
      BY <2>1, ReachedStage
    <2>3. /\ download[g] = NoEvent
          /\ g = reached[t][1].file \/ Untouched(disk, g)
      BY <2>1 DEF DataInv, ComingInv
    <2> HIDE DEF k
    <2>4. CASE g # f
      <3>1. download'[g] = NoEvent /\ (Untouched(disk, g) => Untouched(disk', g))
        BY <1>13, <2>2, <2>3, <2>4
      <3>2. g = reached[t][1].file => t # s
        BY <1>0, <1>9, <2>4
      <3> QED
        BY <1>12, <2>3, <3>1, <3>2
    <2>5. CASE g = f
      <3>1. t = s
        BY <1>10, <2>1, <2>5
      <3>2. b.file # NoFile
        BY <1>11, <2>5, <3>1
      <3> QED
        BY <1>9, <1>12, <1>13, <2>5, <3>1, <3>2
    <2> QED
      BY <2>4, <2>5
  <1>19. \A r \in Requests : /\ Unsent(r)' => Unsent(r)
                             /\ Finished(r)' => Finished(r)
    BY <1>3 DEF Unsent, Finished, threadVars
  <1>20. UnsentInv(later)'
    <2> SUFFICES ASSUME NEW r \in Requests, Unsent(r)'
                 PROVE  /\ download'[FileOf[r]] = NoEvent
                        /\ Untouched(disk', FileOf[r])
                        /\ \A t \in Senders : \A i \in 1..Last(t)' :
                              later[t][i].file # FileOf[r]
      BY DEF UnsentInv
    <2>1. /\ FileOf[r] \in Files
          /\ download[FileOf[r]] = NoEvent
          /\ Untouched(disk, FileOf[r])
          /\ \A t \in Senders : \A i \in 1..Last(t) :
                reached[t][i].file # FileOf[r]
      BY <1>19, SyncAssumption DEF DataInv, UnsentInv
    <2>2. FileOf[r] # f
      BY <1>0, <1>9, <2>1
    <2>3. ASSUME NEW t \in Senders, NEW i \in 1..Last(t)'
          PROVE  later[t][i].file # FileOf[r]
      <3>1. Before(t, i) \in 1..Last(t) /\ later[t][i] = reached[t][Before(t, i)]
        BY <1>7
      <3> QED
        BY <2>1, <3>1
    <2> QED
      BY <1>13, <2>1, <2>2, <2>3
  <1>21. EndsInv'
    <2> SUFFICES ASSUME NEW g \in Files
                 PROVE  /\ download'[g] = Ended => AllWhole(disk', g)
                        /\ download'[g] = CancelSeen => NoStump(disk', g)
      BY DEF EndsInv
    <2>1. CASE g # f
      <3>1. /\ download'[g] = download[g]
            /\ \A x \in PathsBelow(g) : disk'[x] = disk[x]
        BY <1>13, <2>1
      <3>2. \A i \in 1..Len(LeavesOf[g]) : disk'[PathAt(g, i)] = disk[PathAt(g, i)]
        BY <3>1, PathFacts
      <3> QED
        BY <3>1, <3>2 DEF DataInv, EndsInv, AllWhole, NoStump
    <2>2. CASE g = f
      BY <1>1, <2>2 DEF Received, NoEvent, Ended, CancelSeen
    <2> QED
      BY <2>1, <2>2
  <1>22. ASSUME NEW type, NEW g, InTransit(later, type, g)'
         PROVE  InTransit(reached, type, g)
    <2>1. PICK t \in Senders : \E i \in 1..Len(wire'[t]) :
            wire'[t][i].type = type /\ later[t][i].file = g
      BY <1>22 DEF InTransit
    <2>2. PICK i \in 1..Len(wire'[t]) :
            wire'[t][i].type = type /\ later[t][i].file = g
      BY <2>1
    <2>3. /\ Before(t, i) \in 1..Len(wire[t])
          /\ wire[t][Before(t, i)].type = type
          /\ reached[t][Before(t, i)].file = g
      BY <1>8, <2>2
    <2> QED
      BY <2>3 DEF InTransit
  <1>23. CancelsInv(later)'
    <2> SUFFICES ASSUME NEW r \in Requests,
                        \/ download'[FileOf[r]] = CancelSeen
                        \/ InTransit(later, "file_canceled", FileOf[r])'
                 PROVE  \/ download[FileOf[r]] = CancelSeen
                        \/ InTransit(reached, "file_canceled", FileOf[r])
      BY <1>3 DEF DataInv, CancelsInv, threadVars
    <2>1. CASE InTransit(later, "file_canceled", FileOf[r])'
      BY <1>22, <2>1
    <2>2. CASE download'[FileOf[r]] = CancelSeen
      <3>1. FileOf[r] \in Files
        BY SyncAssumption
      <3>2. CASE FileOf[r] # f
        BY <1>13, <2>2, <3>1, <3>2
      <3>3. CASE FileOf[r] = f
        <4>1. b.file = NoFile /\ m.type = "file_canceled"
          BY <1>1, <2>2, <3>3 DEF Received, NoEvent, Ended, CancelSeen
        <4>2. a.file = f /\ 1 \in 1..Len(wire[s])
          BY <1>2, <1>4, <1>9, <4>1
        <4> QED
          BY <1>0, <3>3, <4>1, <4>2 DEF InTransit
      <3> QED
        BY <3>2, <3>3
    <2> QED
      BY <2>1, <2>2
  <1>24. ASSUME Undisturbed
         PROVE  ArrivalInv(later)'
    <2>1. ArrivalInv(reached)
      BY <1>24 DEF DataInv
    <2>2. \A t \in Senders : later[t][1].file = NoFile => parser'[t].stream = NoPath
      BY <1>1, <1>12, <1>13, <2>1 DEF ArrivalInv, Received
    <2>3. ASSUME NEW r \in Requests, Finished(r)'
          PROVE  \/ download'[FileOf[r]] = Ended
                 \/ InTransit(later, "file_end", FileOf[r])'
      <3>1. FileOf[r] \in Files
        BY SyncAssumption
      <3>2. CASE download[FileOf[r]] = Ended
        BY <1>13, <3>1, <3>2 DEF NoEvent, Ended
      <3>3. CASE InTransit(reached, "file_end", FileOf[r])
        <4>1. PICK t \in Senders : \E k \in 1..Len(wire[t]) :
                wire[t][k].type = "file_end" /\ reached[t][k].file = FileOf[r]
          BY <3>3 DEF InTransit
        <4>2. PICK k \in 1..Len(wire[t]) :
                wire[t][k].type = "file_end" /\ reached[t][k].file = FileOf[r]
          BY <4>1
        <4>3. CASE t # s
          <5>1. k \in Nat /\ wire'[t] = wire[t]
            BY <1>5, <4>3, LastFacts
          <5>2. later[t][k] = reached[t][k]
            BY <1>6, <4>3, <5>1
          <5> QED
            BY <4>2, <5>1, <5>2 DEF InTransit
        <4>4. CASE t = s /\ k = 1
          <5>1. m.type = "file_end" /\ a.file = FileOf[r]
            BY <1>0, <4>2, <4>4
          <5>2. a.file = f
            BY <1>9, <3>1, <5>1, BuilderAssumption
          <5>3. b.file = NoFile
            BY <1>1, <5>1, RestFields
               DEF Sends, SendsFileHeader, SendsDirHeader, SendsItemHeader,
                   SendsBlock, SendsEnd, SendsCanceled
          <5> QED
            BY <1>1, <5>1, <5>2, <5>3 DEF Received
        <4>5. CASE t = s /\ k # 1
          <5> DEFINE i == k - 1
          <5>1. k \in 1..n
            BY <1>2, <4>5
          <5>2. i \in Nat /\ i + 1 = k /\ i \in 1..(n - 1)
            BY <1>4, <4>5, <5>1
          <5> HIDE DEF i
          <5>3. /\ i \in 1..Len(wire'[s]) /\ wire'[s][i].type = "file_end"
                /\ later[s][i].file = FileOf[r]
            BY <1>4, <1>6, <4>2, <4>5, <5>2
          <5> QED
            BY <5>3 DEF InTransit
        <4> QED
          BY <4>3, <4>4, <4>5
      <3> QED
        BY <1>19, <2>1, <2>3, <3>2, <3>3 DEF ArrivalInv
    <2> QED
      BY <2>2, <2>3 DEF ArrivalInv
  <1>25. Undisturbed' <=> Undisturbed
    BY DEF Undisturbed
  <1> QED
    BY <1>14, <1>15, <1>16, <1>17, <1>18, <1>20, <1>21, <1>23, <1>24, <1>25
       DEF DataInv

-----------------------------------------------------------------------------
(* New senders start at rest                                                *)

LEMMA LaunchData ==
  ASSUME TypeIInv, NEW reached \in Reached, DataInv(reached),
         NEW want, StartSenders(want), Undisturbed => engine = "listening",
         Undisturbed => CalmEngine,
         UNCHANGED <<wire, disk, download, task, upload, fate>>
  PROVE  \E later \in Reached : DataInv(later)'
  <1>1. PICK k \in (IF Faults THEN 0..want ELSE {want}) :
          \E new \in [1..k -> {s \in Senders : Free(s)}] :
          \E fresh \in SUBSET Elems(new) : Launch(new, fresh)
    BY DEF StartSenders
  <1>2. PICK new \in [1..k -> {s \in Senders : Free(s)}] :
          \E fresh \in SUBSET Elems(new) : Launch(new, fresh)
    BY <1>1
  <1>3. PICK fresh \in SUBSET Elems(new) : Launch(new, fresh)
    BY <1>2
  <1>4. PICK begun : begun = Elems(new)
    OBVIOUS
  <1>5. PICK later : later = [t \in Senders |->
                                IF t \in begun THEN [i \in Nat |-> Rest]
                                ELSE reached[t]]
    OBVIOUS
  <1>6. \A t \in begun : /\ t \in Senders /\ pc[t] \in {"unborn", "closed"}
                         /\ wire[t] = << >>
    BY <1>4 DEF Elems, Free
  <1>7. /\ \A t \in Senders :
            IF t \in begun
            THEN /\ pc'[t] = "check" /\ builder'[t] = NewBuilder
                 /\ t \notin broken'
                 /\ parser'[t] \in {parser[t], NewParser}
            ELSE /\ pc'[t] = pc[t] /\ builder'[t] = builder[t]
                 /\ running'[t] = running[t] /\ cancel'[t] = cancel[t]
                 /\ t \in broken' <=> t \in broken
                 /\ parser'[t] = parser[t]
        /\ running \in [Senders -> BOOLEAN] /\ cancel \in [Senders -> BOOLEAN]
    BY <1>3, <1>4 DEF Launch, TypeIInv, ThreadIInv
  <1>8. /\ later \in Reached
        /\ \A t \in begun : \A i \in Nat : later[t][i] = Rest
        /\ \A t \in Senders : t \notin begun => later[t] = reached[t]
    BY <1>5, <1>6, RestFields DEF Reached
  <1>9. /\ \A t \in Senders : Last(t)' = Last(t) /\ Last(t) \in Nat
        /\ \A t \in Senders : \A i \in 1..Last(t) : i \in Nat
        /\ \A t \in begun : Len(wire[t]) = 0 /\ Last(t) = 1
        /\ \A t \in Senders : t \notin begun => (Live(t)' <=> Live(t))
    BY <1>6, <1>7, LastFacts DEF Last, Live
  <1>10. \A t \in Senders, i \in Nat : later[t][i].file # NoFile =>
            t \notin begun /\ later[t][i] = reached[t][i]
    BY <1>8, RestFields
  <1>11. MessagesInv(later)'
    <2> SUFFICES ASSUME NEW t \in Senders, NEW i \in 1..Len(wire[t])
                 PROVE  Sends(later[t][i], wire[t][i], later[t][i + 1])
      BY DEF MessagesInv
    <2>1. t \notin begun
      BY <1>9
    <2> QED
      BY <1>8, <2>1 DEF DataInv, MessagesInv
  <1>12. BuildersInv(later)'
    <2> SUFFICES ASSUME NEW t \in Senders
                 PROVE  /\ pc'[t] = "stream" => builder'[t].file = FileOf[task[t]]
                        /\ \E e \in Stage : /\ BuilderAt(builder'[t], e)
                                            /\ Live(t)' => e = later[t][Last(t)]
      BY <1>9 DEF BuildersInv
    <2>1. CASE t \in begun
      <3>1. BuilderAt(NewBuilder, Rest)
        BY DEF BuilderAt, NewBuilder
      <3> QED
        BY <1>7, <1>8, <1>9, <2>1, <3>1, RestFields
    <2>2. CASE t \notin begun
      <3>1. /\ pc'[t] = pc[t] /\ builder'[t] = builder[t]
            /\ later[t] = reached[t] /\ (Live(t)' <=> Live(t))
        BY <1>7, <1>8, <1>9, <2>2
      <3>2. /\ pc[t] = "stream" => builder[t].file = FileOf[task[t]]
            /\ \E e \in Stage : /\ BuilderAt(builder[t], e)
                                /\ Live(t) => e = reached[t][Last(t)]
        BY DEF DataInv, BuildersInv
      <3> QED
        BY <3>1, <3>2
    <2> QED
      BY <2>1, <2>2
  <1>13. ParsersInv(later)'
    <2> SUFFICES ASSUME NEW t \in Senders
                 PROVE  ParserAt(parser'[t], disk, later[t][1])
      BY DEF ParsersInv
    <2>1. CASE t \in begun
      BY <1>8, <2>1, RestFields DEF ParserAt
    <2>2. CASE t \notin begun
      BY <1>7, <1>8, <2>2 DEF DataInv, ParsersInv
    <2> QED
      BY <2>1, <2>2
  <1>14. OneStream(later)'
    <2> SUFFICES ASSUME NEW t \in Senders, NEW u \in Senders,
                        NEW i \in 1..Last(t), NEW h \in 1..Last(u),
                        later[t][i].file = later[u][h].file,
                        later[t][i].file # NoFile
                 PROVE  t = u /\ \A j \in i..h : later[t][j].file = later[t][i].file
      BY <1>9 DEF OneStream
    <2>1. i \in Nat /\ h \in Nat
      BY <1>9
    <2>2. /\ t \notin begun /\ u \notin begun
          /\ later[t] = reached[t] /\ later[u] = reached[u]
      BY <1>8, <1>10, <2>1
    <2> QED
      BY <2>2 DEF DataInv, OneStream
  <1>15. ComingInv(later)'
    <2> SUFFICES ASSUME NEW t \in Senders, NEW i \in 1..Last(t),
                        later[t][i].file # NoFile
                 PROVE  /\ download[later[t][i].file] = NoEvent
                        /\ \/ later[t][i].file = later[t][1].file
                           \/ Untouched(disk, later[t][i].file)
      BY <1>9 DEF ComingInv
    <2>1. later[t] = reached[t]
      BY <1>8, <1>9, <1>10
    <2> QED
      BY <2>1 DEF DataInv, ComingInv
  <1>16. \A r \in Requests : /\ Unsent(r)' => Unsent(r)
                             /\ Finished(r)' => Finished(r)
    BY <1>7 DEF Unsent, Finished
  <1>17. UnsentInv(later)'
    <2> SUFFICES ASSUME NEW r \in Requests, Unsent(r)'
                 PROVE  /\ download[FileOf[r]] = NoEvent
                        /\ Untouched(disk, FileOf[r])
                        /\ \A t \in Senders : \A i \in 1..Last(t) :
                              later[t][i].file # FileOf[r]
      BY <1>9 DEF UnsentInv
    <2>1. FileOf[r] # NoFile
      BY SyncAssumption, BuilderAssumption
    <2>2. /\ download[FileOf[r]] = NoEvent
          /\ Untouched(disk, FileOf[r])
          /\ \A t \in Senders : \A i \in 1..Last(t) :
                reached[t][i].file # FileOf[r]
      BY <1>16 DEF DataInv, UnsentInv
    <2> QED
      BY <1>9, <1>10, <2>1, <2>2
  <1>18. EndsInv'
    BY DEF DataInv, EndsInv
  <1>19. ASSUME NEW type, NEW g
         PROVE  InTransit(later, type, g)' <=> InTransit(reached, type, g)
    <2>1. \A t \in Senders : Len(wire[t]) # 0 => later[t] = reached[t]
      BY <1>8, <1>9
    <2>2. \A t \in Senders : \A i \in 1..Len(wire[t]) : Len(wire[t]) # 0
      OBVIOUS
    <2>3. \A t \in Senders : \A i \in 1..Len(wire[t]) : later[t] = reached[t]
      BY <2>1, <2>2
    <2> QED
      BY <2>3 DEF InTransit
  <1>20. CancelsInv(later)'
    BY <1>7, <1>19 DEF DataInv, CancelsInv
  <1>21. ASSUME Undisturbed
         PROVE  ArrivalInv(later)'
    <2>1. ArrivalInv(reached) /\ CalmEngine
      BY <1>21 DEF DataInv
    <2>2. \A t \in begun : parser[t] = NewParser
      BY <1>6, <1>21, <2>1 DEF CalmEngine
    <2>3. \A t \in Senders : later[t][1].file = NoFile => parser'[t].stream = NoPath
      BY <1>7, <1>8, <2>1, <2>2 DEF ArrivalInv, NewParser
    <2> QED
      BY <1>16, <1>19, <2>1, <2>3 DEF ArrivalInv
  <1>22. Undisturbed' <=> Undisturbed
    BY DEF Undisturbed
  <1> QED
    BY <1>8, <1>11, <1>12, <1>13, <1>14, <1>15, <1>17, <1>18, <1>20, <1>21, <1>22
       DEF DataInv

-----------------------------------------------------------------------------
(* Every step *)

LEMMA DataStep ==
  AllOpen /\ Apart /\ OwnFile /\ TypeIInv /\ ReadyIInv /\ DataIInv /\ [Next]_vars
      => DataIInv'
  <1> SUFFICES ASSUME AllOpen, Apart, OwnFile, TypeIInv, ReadyIInv, DataIInv,
                      [Next]_vars
               PROVE  DataIInv'
    OBVIOUS
  <1>1. /\ Undisturbed => CalmEngine
        /\ \E reached \in Reached : DataInv(reached)
    BY DEF DataIInv
  <1>2. PICK reached \in Reached : DataInv(reached)
    BY <1>1
  <1>3. Undisturbed' => CalmEngine'
    BY <1>1, CalmStep DEF Undisturbed
  <1> SUFFICES \E later \in Reached : DataInv(later)'
    BY <1>3 DEF DataIInv
  <1>4. BuildersInv(reached)
    BY <1>2 DEF DataInv
  <1>5. ASSUME Quiet
        PROVE  \E later \in Reached : DataInv(later)'
    BY <1>2, <1>5, QuietData
  <1>6. ASSUME NEW s \in Senders, ThreadStep(s)
        PROVE  \E later \in Reached : DataInv(later)'
    <2>1. CASE \/ LookForWork(s) \/ TakeTask(s) \/ ReportEnd(s)
               \/ ForgetFile(s) \/ ResetCancel(s)
      <3>1. Still
        BY <2>1, StillStep
      <3> QED
        BY <1>4, <1>5, <3>1, StillQuiet DEF TypeIInv, ThreadIInv
    <2>2. CASE BeginTask(s)
      BY <1>4, <1>5, <2>2, BeginTaskQuiet
    <2>3. CASE StreamNext(s)
      <3>1. CASE builder[s].isEnd \/ ~Live(s)
        BY <1>1, <1>2, <1>4, <1>5, <2>3, <3>1, SilentTurnQuiet
      <3>2. CASE ~builder[s].isEnd /\ Live(s)
        <4>1. PICK n : n = Last(s)
          OBVIOUS
        <4>2. BuilderAt(builder[s], reached[s][n])
          BY <1>4, <3>2, <4>1 DEF BuildersInv
        <4>3. n \in Nat
          BY <4>1, LastFacts
        <4>4. reached[s][n] \in Stage
          BY <4>3, ReachedStage
        <4>5. PICK m, c : \E e \in Stage :
                /\ Turn(s, m, c, reached[s][n], e)
                /\ builder' = [builder EXCEPT ![s] = c]
                /\ pc' = pc
                /\ wire' = [wire EXCEPT ![s] = Append(@, m)]
          BY <2>3, <3>2, <4>2, <4>4, NextTurn
        <4>6. PICK e \in Stage :
                /\ Turn(s, m, c, reached[s][n], e)
                /\ builder' = [builder EXCEPT ![s] = c]
                /\ pc' = pc
                /\ wire' = [wire EXCEPT ![s] = Append(@, m)]
          BY <4>5
        <4>7. PICK later :
                later = [reached EXCEPT ![s] = [reached[s] EXCEPT ![n + 1] = e]]
          OBVIOUS
        <4> QED
          BY <1>1, <1>2, <2>3, <3>2, <4>1, <4>6, <4>7, LiveTurnData
      <3> QED
        BY <3>1, <3>2
    <2> QED
      BY <1>6, <2>1, <2>2, <2>3 DEF ThreadStep
  <1>7. ASSUME NEW s \in Senders, Receive(s)
        PROVE  \E later \in Reached : DataInv(later)'
    <2> DEFINE later == [t \in Senders |->
                           [i \in Nat |-> reached[t][IF t = s THEN i + 1 ELSE i]]]
    <2>1. /\ later \in Reached
          /\ \A i \in Nat : later[s][i] = reached[s][i + 1]
          /\ \A t \in Senders : t # s =>
                \A i \in Nat : later[t][i] = reached[t][i]
      BY DEF Reached
    <2> HIDE DEF later
    <2>2. PICK e \in Reached :
            /\ \A i \in Nat : e[s][i] = reached[s][i + 1]
            /\ \A t \in Senders : t # s => \A i \in Nat : e[t][i] = reached[t][i]
      BY <2>1
    <2> QED
      BY <1>2, <1>7, <2>2, ReceiveData
  <1>8. ASSUME NEW s \in Senders, Break(s)
        PROVE  \E later \in Reached : DataInv(later)'
    BY <1>1, <1>4, <1>5, <1>8, BreakQuiet
  <1>9. ASSUME InitFileSenders \/ \E num \in Concurrency : Grow(num)
        PROVE  \E later \in Reached : DataInv(later)'
    <2>1. /\ \E want : StartSenders(want)
          /\ UNCHANGED <<wire, disk, download, task, upload, fate>>
      BY <1>9 DEF InitFileSenders, Grow, history
    <2>2. Undisturbed => engine = "listening"
      BY <1>9 DEF Undisturbed, InitFileSenders, Grow, TypeIInv, PastTypeOK
    <2> QED
      BY <1>1, <1>2, <2>1, <2>2, LaunchData
  <1>10. ASSUME \/ \E s \in Senders : FlagSender(s) \/ JoinListed(s)
                \/ RemoveLast \/ JoinRemoved \/ StopDone \/ Start \/ Stop
                \/ \E r \in Requests : Submit(r)
                \/ \E f \in Files : Withdraw(f) \/ FindSender(f)
                \/ \E num \in Concurrency : Shrink(num)
                \/ UNCHANGED vars
         PROVE  \E later \in Reached : DataInv(later)'
    <2>1. Still
      BY <1>10, StillStep
    <2> QED
      BY <1>4, <1>5, <2>1, StillQuiet DEF TypeIInv, ThreadIInv
  <1> QED
    BY <1>6, <1>7, <1>8, <1>9, <1>10 DEF Next, EngineStep, Environment

-----------------------------------------------------------------------------
(* What it all shows                                                        *)

LEMMA DataAlways ==
  ASSUME AllOpen, Apart, OwnFile
  PROVE  Spec => [](TypeIInv /\ DataIInv)
  <1>1. Init => TypeIInv /\ ReadyIInv /\ DataIInv
    BY TypeInit, ReadyInit, DataInit
  <1>2. TypeIInv /\ ReadyIInv /\ DataIInv /\ [Next]_vars
          => TypeIInv' /\ ReadyIInv' /\ DataIInv'
    BY TypeStep, ReadyStep, DataStep
  <1> QED
    BY <1>1, <1>2, PTL DEF Spec

LEMMA LeavesByIndex ==
  ASSUME NEW f \in Files, NEW l \in Elems(LeavesOf[f])
  PROVE  \E i \in 1..Len(LeavesOf[f]) :
            l = LeavesOf[f][i] /\ PathOf[l] = PathAt(f, i)
  <1>1. DOMAIN LeavesOf[f] = 1..Len(LeavesOf[f])
    BY LeafFacts, LenProperties
  <1> QED
    BY <1>1 DEF Elems, PathAt

LEMMA WholeIsDelivered ==
  ASSUME NEW f \in Files, AllWhole(disk, f)
  PROVE  Delivered(f)
  BY LeavesByIndex DEF AllWhole, Delivered

\* The peer publishes the end of a file (file_end) only when its disk holds
\* every leaf of it from the first byte to the last: whatever order threads
\* and connections run in, and whatever breaks, stops, resizes or is
\* cancelled meanwhile.
THEOREM EndMeansWholeAlways ==
  ASSUME AllOpen, Apart, OwnFile
  PROVE  Spec => []EndMeansWhole
  <1>1. DataIInv => EndMeansWhole
    BY WholeIsDelivered DEF DataIInv, DataInv, EndsInv, EndMeansWhole
  <1> QED
    BY <1>1, DataAlways, PTL

\* file_canceled makes the peer remove the leaf that was being written, or
\* the folder it is in: no truncated leaf stays, under faults as well.
THEOREM CancelLeavesNoStumpAlways ==
  ASSUME AllOpen, Apart, OwnFile
  PROVE  Spec => []CancelLeavesNoStump
  <1>1. DataIInv => CancelLeavesNoStump
    <2> SUFFICES ASSUME DataIInv, NEW f \in Files, download[f] = CancelSeen,
                        NEW l \in Elems(LeavesOf[f])
                 PROVE  disk[PathOf[l]] \in {Absent, Whole(l)}
      BY DEF CancelLeavesNoStump
    <2>1. NoStump(disk, f)
      BY DEF DataIInv, DataInv, EndsInv
    <2> QED
      BY <2>1, LeavesByIndex DEF NoStump
  <1> QED
    BY <1>1, DataAlways, PTL

\* The sender's thread never reports a request complete that the peer has
\* seen cancelled: a cancel flag set too late for getStream to answer is
\* cleared without effect, one set in time keeps the report from being made.
THEOREM NoCancelAfterCompleteAlways ==
  ASSUME AllOpen, Apart, OwnFile
  PROVE  Spec => []NoCancelAfterComplete
  <1>1. DataIInv => NoCancelAfterComplete
    BY DEF DataIInv, DataInv, CancelsInv, NoCancelAfterComplete
  <1> QED
    BY <1>1, DataAlways, PTL

\* Without faults, stops and resizes every message meets a parser that can
\* take it: headers meet an idle parser, items the folder announced before
\* them, blocks the stream of their own leaf at their own offset.
THEOREM InOrderAlways ==
  ASSUME AllOpen, Apart, OwnFile, Undisturbed
  PROVE  Spec => []InOrder
  <1>1. TypeIInv /\ DataIInv => InOrder
    <2> SUFFICES ASSUME TypeIInv, DataIInv, NEW s \in Senders, wire[s] # << >>
                 PROVE  Fits(parser[s], Head(wire[s]))
      BY DEF InOrder
    <2>1. PICK reached \in Reached : DataInv(reached)
      BY DEF DataIInv
    <2> DEFINE p == parser[s]
               m == Head(wire[s])
               a == reached[s][1]
    <2> SUFFICES Fits(p, m)
      OBVIOUS
    <2>2. m = wire[s][1] /\ 1 \in 1..Len(wire[s])
      <3>1. wire[s] \in Seq(Message)
        BY DEF TypeIInv, PeerTypeOK
      <3>2. Len(wire[s]) \in Nat /\ Len(wire[s]) >= 1
        BY <3>1, EmptySeq, LenProperties
      <3> QED
        BY <3>1, <3>2
    <2>3. PICK b : Sends(a, m, b)
      BY <2>1, <2>2 DEF DataInv, MessagesInv
    <2>4. ParserAt(p, disk, a) /\ (a.file = NoFile => p.stream = NoPath)
      BY <2>1 DEF DataInv, ParsersInv, ArrivalInv
    <2> HIDE DEF p, m, a
    <2>5. CASE SendsFileHeader(a, m, b) \/ SendsDirHeader(a, m, b)
      BY <2>4, <2>5, RestFields DEF SendsFileHeader, SendsDirHeader, Fits
    <2>6. a.file # NoFile => p.cur = a.file /\ Receiving(p, disk, a)
      BY <2>4 DEF ParserAt, Receiving
    <2>7. CASE SendsItemHeader(a, m, b)
      <3>1. a.file # NoFile /\ a.file \in Folders
        BY <2>7, BuilderAssumption DEF SendsItemHeader, StageOK
      <3> QED
        BY <2>6, <2>7, <3>1 DEF SendsItemHeader, Receiving, Fits
    <2>8. CASE SendsBlock(a, m, b)
      <3>1. PICK l \in Leaves, n \in Nat :
              /\ l = LeavesOf[a.file][a.item] /\ Size[l] > 0
              /\ m = [type |-> "block", id |-> a.file, leaf |-> l,
                      from |-> a.at, len |-> n]
        BY <2>8 DEF SendsBlock
      <3>2. a.file # NoFile /\ a.item > 0
        BY <2>8, BuilderAssumption DEF SendsBlock, StageOK
      <3>3. StreamAt(p, a)
        BY <2>6, <3>2 DEF Receiving
      <3>4. p.stream = PathOf[l] /\ p.at = a.at
        <4>1. Size[l] \in Nat /\ Size[l] # 0
          BY <3>1, BuilderAssumption
        <4> QED
          BY <3>1, <3>3, <4>1 DEF StreamAt, PathAt
      <3> QED
        BY <2>6, <3>1, <3>2, <3>4 DEF Fits
    <2>9. CASE SendsEnd(a, m, b) \/ SendsCanceled(a, m, b)
      <3>1. a.file # NoFile /\ m.type \in {"file_end", "file_canceled"}
        BY <2>9, BuilderAssumption DEF SendsEnd, SendsCanceled, StageOK
      <3> QED
        BY <2>6, <3>1 DEF Fits
    <2> QED
      BY <2>3, <2>5, <2>7, <2>8, <2>9 DEF Sends
  <1> QED
    BY <1>1, DataAlways, PTL

\* Without faults, stops and resizes a request that was reported complete has
\* arrived, whole, once the connections have been read empty.
THEOREM CompleteMeansDeliveredAlways ==
  ASSUME AllOpen, Apart, OwnFile, Undisturbed
  PROVE  Spec => []CompleteMeansDelivered
  <1>1. DataIInv => CompleteMeansDelivered
    <2> SUFFICES ASSUME DataIInv, NEW r \in Requests, upload[r] = "complete",
                        \A s \in Senders : wire[s] = << >>
                 PROVE  download[FileOf[r]] = Ended /\ Delivered(FileOf[r])
      BY DEF CompleteMeansDelivered
    <2>1. PICK reached \in Reached : DataInv(reached)
      BY DEF DataIInv
    <2>2. \/ download[FileOf[r]] = Ended
          \/ InTransit(reached, "file_end", FileOf[r])
      BY <2>1 DEF DataInv, ArrivalInv, Finished
    <2>3. \A s \in Senders : Len(wire[s]) = 0
      OBVIOUS
    <2>4. ~InTransit(reached, "file_end", FileOf[r])
      BY <2>3 DEF InTransit
    <2>5. FileOf[r] \in Files
      BY SyncAssumption
    <2>6. AllWhole(disk, FileOf[r])
      BY <2>1, <2>2, <2>4, <2>5 DEF DataInv, EndsInv
    <2> QED
      BY <2>2, <2>4, <2>5, <2>6, WholeIsDelivered
  <1> QED
    BY <1>1, DataAlways, PTL
=============================================================================
