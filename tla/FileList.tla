------------------------------ MODULE FileList ------------------------------
(***************************************************************************)
(* The file lists of two connected peers (FileListModel.cpp), what they    *)
(* tell each other on the control connection, and the transfers they ask   *)
(* their engines for.                                                      *)
(*                                                                         *)
(* A handler is a task of the event bus's pool; todo holds a peer's tasks  *)
(* in the order they were published, and any of them may be the next to    *)
(* run.  Handlers and the window's calls change the list without a lock;   *)
(* they are taken here as if they excluded each other.                     *)
(*                                                                         *)
(* The engine is taken from FileSync with one sender and no fault: it      *)
(* takes a request, sends a header, at most one block that both sides may  *)
(* report, and an end or a cancel.                                         *)
(***************************************************************************)
EXTENDS Integers, Sequences, FiniteSets, SequencesExt

CONSTANTS
    Peers,
    Dialer,        \* the peer that makes the connections
    Files,
    Owner,         \* [Files -> Peers]
    Top,           \* UINT32_MAX, the largest id
    Automatic,     \* the files that auto_download fetches: those below its
                   \* size, none when the setting is off
    Expires,       \* a file may be gone when the peer asks for it
    MaxGestures,   \* bound on what the users do
    MaxSessions,   \* bound on the number of connections
    NoFile, NoTransfer

ASSUME ListAssumption ==
    /\ IsFiniteSet(Peers) /\ Cardinality(Peers) = 2 /\ Dialer \in Peers
    /\ Owner \in [Files -> Peers]
    /\ Top \in Nat /\ MaxGestures \in Nat /\ MaxSessions \in Nat
    /\ Automatic \subseteq Files /\ Expires \in BOOLEAN
    /\ NoFile \notin Files

VARIABLES
    rows,      \* file_list
    names,     \* id_filename: the file that a remote id names
    counter,   \* file_id_counter
    begin,     \* current_type, the end that ids are counted from
    linked,    \* is_connected
    asking,    \* the window asks whether to sync the current files
    todo,      \* tasks of the pool
    wire,      \* control messages on their way to a peer
    queue,     \* pending_send_files
    sending,   \* what the sender is at
    data,      \* messages of the sender on their way to a peer
    parsing,   \* current_file_id of the peer's parser, and what it writes
    deaf       \* the thread that reads the sender's connection has ended

\* Bounds and history.
VARIABLES
    gestures, sessions,
    stored,    \* what a peer's transfers have written: under which file's
               \* name, and which file's content
    mishaps    \* what has got in the way: "order", a task that overtook an
               \* earlier one about the same file; "taken", a request that was
               \* withdrawn when the sender had it; "crossed", a cancel that
               \* met the end of the transfer; "again", a request that met the
               \* last transfer of the same file; "removed", a header for a file
               \* that was taken off the list; "unsynced", files not announced
               \* to the new peer; "stale", an own row found by the id it had
               \* before the session; "late", work left over from a session

listVars == <<rows, names, counter, begin>>
engineVars == <<queue, sending>>
peerVars == <<data, parsing, deaf, stored>>
bounds == <<gestures, sessions>>
vars == <<listVars, linked, asking, todo, wire, engineVars, peerVars, bounds,
          mishaps>>

Other(p) == CHOOSE q \in Peers : q # p
Item(id, f) == [id |-> id, file |-> f]
Task(op, items) == [op |-> op, of |-> items]
About(op, id) == Task(op, <<Item(id, NoFile)>>)
Ids(t) == {t.of[k].id : k \in DOMAIN t.of}
Silent == [id |-> -1, name |-> NoFile, file |-> NoFile]

Busy == {"Pending", "Uploading", "Downloading"}

Init ==
    /\ rows = [p \in Peers |-> << >>] /\ names = [p \in Peers |-> << >>]
    /\ counter = [p \in Peers |-> 0] /\ begin = [p \in Peers |-> "Low"]
    /\ linked = [p \in Peers |-> FALSE] /\ asking = [p \in Peers |-> FALSE]
    /\ todo = [p \in Peers |-> << >>] /\ wire = [p \in Peers |-> << >>]
    /\ queue = [p \in Peers |-> << >>]
    /\ sending = [p \in Peers |-> NoTransfer]
    /\ data = [p \in Peers |-> << >>]
    /\ parsing = [p \in Peers |-> Silent] /\ deaf = [p \in Peers |-> FALSE]
    /\ gestures = 0 /\ sessions = 0
    /\ stored = [p \in Peers |-> {}] /\ mishaps = {}

---------------------------------------------------------------------------
(* Rows *)

\* findFileInfoById: the first row with the id, if there is one.
Find(p, id) == {i \in DOMAIN rows[p] : rows[p][i].id = id
                   /\ \A j \in 1..(i - 1) : rows[p][j].id # id}

SetStatus(p, i, status) == rows' = [rows EXCEPT ![p][i].status = status]

Canceled(row) == IF row.remote THEN "DownloadCancel" ELSE "UploadCancel"

\* id_filename.insert keeps the entry that is there.
Insert(map, items) ==
    [id \in DOMAIN map \cup {items[k].id : k \in DOMAIN items} |->
        IF id \in DOMAIN map THEN map[id]
        ELSE items[CHOOSE k \in DOMAIN items : items[k].id = id].file]

\* The entries of a list at some of its positions, in their order.
Entries(list, at) ==
    LET rank(i) == Cardinality({j \in at : j <= i})
    IN  [k \in 1..Cardinality(at) |-> list[CHOOSE i \in at : rank(i) = k]]

Own(list) == {i \in DOMAIN list : ~list[i].remote}

Erase(map, id) == [x \in DOMAIN map \ {id} |-> map[x]]

\* getFileId, n ids on.
NextId(p, n) == IF begin[p] = "Low" THEN counter[p] + n ELSE counter[p] - n

---------------------------------------------------------------------------
(* Tasks.  Task i of p is the one that runs; what it publishes comes last. *)

Done(p, i, published) ==
    todo' = [todo EXCEPT ![p] = RemoveAt(@, i) \o published]

Publish(p, published) == todo' = [todo EXCEPT ![p] = @ \o published]

Overtaking(p, i) ==
    IF \E j \in 1..(i - 1) : Ids(todo[p][j]) \cap Ids(todo[p][i]) # {}
    THEN {"order"} ELSE {}

\* The handlers that look for a row, by findFileInfoById or in a loop.
Lookups == {"have_download_request", "have_expired_file", "have_deletefiles",
            "have_cancel_transit", "upload_progress", "upload_end",
            "download_progress", "download_end"}

\* The window still asks whether to sync, and the own rows have their old ids.
Stale(p, i) ==
    IF /\ asking[p] /\ todo[p][i].op \in Lookups
       /\ \E k \in Own(rows[p]) : rows[p][k].id \in Ids(todo[p][i])
    THEN {"stale"} ELSE {}

Mishap(p, i, more) ==
    mishaps' = mishaps \cup Overtaking(p, i) \cup Stale(p, i) \cup more

\* NetworkController's handlers of what is to be sent, and what JsonParser
\* publishes when it arrives.
Arrives ==
    [send_addfiles |-> "have_addfiles", send_deletefiles |-> "have_deletefiles",
     send_get_file |-> "have_download_request",
     send_expired_file |-> "have_expired_file",
     send_cancel_file_send |-> "have_cancel_transit"]

Send(p, i) ==
    LET t == todo[p][i] q == Other(p) IN
    /\ t.op \in DOMAIN Arrives
    /\ wire' = IF linked[p] /\ linked[q]
               THEN [wire EXCEPT ![q] = Append(@, Task(Arrives[t.op], t.of))]
               ELSE wire
    /\ Done(p, i, << >>) /\ Mishap(p, i, {})
    /\ UNCHANGED <<listVars, linked, asking, engineVars, peerVars, bounds>>

Receive(p) ==
    /\ linked[p] /\ wire[p] # << >>
    /\ wire' = [wire EXCEPT ![p] = Tail(@)]
    /\ Publish(p, <<Head(wire[p])>>)
    /\ UNCHANGED <<listVars, linked, asking, engineVars, peerVars, bounds,
                   mishaps>>

---------------------------------------------------------------------------
(* FileListModel's handlers *)

\* The rows with one of those statuses and files; what downloadFile publishes
\* for each of the rows wanted, and the list after it.
Wanted(list, statuses, files) ==
    {k \in DOMAIN list : list[k].status \in statuses /\ list[k].file \in files}
Requests(list, wanted) ==
    LET chosen == Entries(list, wanted)
    IN  [k \in DOMAIN chosen |-> About("send_get_file", chosen[k].id)]
Requested(list, wanted) ==
    [k \in DOMAIN list |->
        IF k \in wanted THEN [list[k] EXCEPT !.status = "Pending"] ELSE list[k]]

AddRemoteFiles(p, i) ==
    LET t == todo[p][i]
        new == [k \in DOMAIN t.of |->
                   [file |-> t.of[k].file, remote |-> TRUE, id |-> t.of[k].id,
                    status |-> "RemoteDefault"]]
        list == rows[p] \o new
        wanted == Wanted(list, {"RemoteDefault"}, Automatic)
    IN  /\ t.op = "have_addfiles"
        /\ names' = [names EXCEPT ![p] = Insert(@, t.of)]
        /\ rows' = [rows EXCEPT ![p] = Requested(list, wanted)]
        /\ Done(p, i, Requests(list, wanted))
        /\ Mishap(p, i, {})
        /\ UNCHANGED <<counter, begin, linked, asking, wire, engineVars,
                       peerVars, bounds>>

\* A handler that finds no row throws before it has changed anything.
NotFound(p, i) ==
    /\ todo[p][i].op \in Lookups
    /\ Find(p, todo[p][i].of[1].id) = {}
    /\ Done(p, i, << >>) /\ Mishap(p, i, {})
    /\ UNCHANGED <<listVars, linked, asking, wire, engineVars, peerVars, bounds>>

Sends(p, id) == sending[p] # NoTransfer /\ sending[p].id = id

\* The last request for the file is not over, with p or with the peer.
Engaged(p, id) ==
    LET q == Other(p)
        about(tasks, ops) == \E k \in DOMAIN tasks :
                                tasks[k].op \in ops /\ id \in Ids(tasks[k])
    IN  \/ Sends(p, id) \/ \E k \in DOMAIN queue[p] : queue[p][k].id = id
        \/ \E k \in DOMAIN data[q] : data[q][k].of.id = id
        \/ about(todo[p], {"upload_progress", "upload_end", "have_file_to_send",
                           "send_expired_file"})
        \/ about(todo[q], {"download_progress", "download_end", "have_expired_file"})
        \/ about(wire[q], {"have_expired_file"})

HaveDownLoadRequest(p, i) ==
    LET id == todo[p][i].of[1].id IN
    /\ todo[p][i].op = "have_download_request"
    /\ \E at \in Find(p, id) :
          \/ /\ SetStatus(p, at, "Pending")
             /\ Done(p, i, <<Task("have_file_to_send",
                                  <<Item(id, rows[p][at].file)>>)>>)
          \/ /\ Expires
             /\ SetStatus(p, at, "Error")
             /\ Done(p, i, <<About("send_expired_file", id)>>)
    /\ Mishap(p, i, IF Engaged(p, id) THEN {"again"} ELSE {})
    /\ UNCHANGED <<names, counter, begin, linked, asking, wire, engineVars,
                   peerVars, bounds>>

OnHaveExpiredFile(p, i) ==
    /\ todo[p][i].op = "have_expired_file"
    /\ \E at \in Find(p, todo[p][i].of[1].id) : SetStatus(p, at, "Error")
    /\ Done(p, i, << >>) /\ Mishap(p, i, {})
    /\ UNCHANGED <<names, counter, begin, linked, asking, wire, engineVars,
                   peerVars, bounds>>

RemoveFileById(p, i) ==
    LET id == todo[p][i].of[1].id IN
    /\ todo[p][i].op = "have_deletefiles"
    /\ \E at \in Find(p, id) :
          /\ rows' = [rows EXCEPT ![p] = RemoveAt(@, at)]
          /\ Done(p, i, IF rows[p][at].status = "Pending"
                        THEN <<About("cancel_file_send", id)>> ELSE << >>)
    /\ names' = [names EXCEPT ![p] = Erase(@, id)]
    /\ Mishap(p, i, {})
    /\ UNCHANGED <<counter, begin, linked, asking, wire, engineVars, peerVars,
                   bounds>>

\* Mutant: a report after the user's cancel is shown.
OnUploadFileProgressAlways(p, i) ==
    /\ todo[p][i].op \in {"upload_progress", "upload_end"}
    /\ \E at \in Find(p, todo[p][i].of[1].id) :
          SetStatus(p, at, IF todo[p][i].op = "upload_end"
                           THEN "UploadCompleted" ELSE "Uploading")
    /\ Done(p, i, << >>) /\ Mishap(p, i, {})
    /\ UNCHANGED <<names, counter, begin, linked, asking, wire, engineVars,
                   peerVars, bounds>>

OnUploadFileProgress(p, i) ==
    /\ todo[p][i].op \in {"upload_progress", "upload_end"}
    /\ \E at \in Find(p, todo[p][i].of[1].id) :
          IF rows[p][at].status = "UploadCancel" THEN UNCHANGED rows
          ELSE SetStatus(p, at, IF todo[p][i].op = "upload_end"
                                THEN "UploadCompleted" ELSE "Uploading")
    /\ Done(p, i, << >>) /\ Mishap(p, i, {})
    /\ UNCHANGED <<names, counter, begin, linked, asking, wire, engineVars,
                   peerVars, bounds>>

OnDownLoadProgress(p, i) ==
    /\ todo[p][i].op \in {"download_progress", "download_end"}
    /\ \E at \in Find(p, todo[p][i].of[1].id) :
          IF rows[p][at].status = "RemoteDefault" THEN UNCHANGED rows
          ELSE SetStatus(p, at, IF todo[p][i].op = "download_end"
                                THEN "DownloadCompleted" ELSE "Downloading")
    /\ Done(p, i, << >>) /\ Mishap(p, i, {})
    /\ UNCHANGED <<names, counter, begin, linked, asking, wire, engineVars,
                   peerVars, bounds>>

\* What a cancel asks of the engine, by the row's status.
Withdrawal(row) ==
    IF row.remote THEN << >>
    ELSE IF row.status = "Uploading"
         THEN <<About("cancel_transit_in_sender", row.id)>>
    ELSE IF row.status = "Pending" THEN <<About("cancel_file_send", row.id)>>
    ELSE << >>

\* The first row is enough where ids differ; every row is where they do not.
OnHaveCancelFile(p, i) ==
    LET id == todo[p][i].of[1].id
        hit == {k \in DOMAIN rows[p] : rows[p][k].id = id}
        due == Entries(rows[p], {k \in hit : Withdrawal(rows[p][k]) # << >>})
    IN  /\ todo[p][i].op = "have_cancel_transit"
        /\ hit # {}
        /\ rows' = [rows EXCEPT ![p] = [k \in DOMAIN rows[p] |->
               LET row == rows[p][k] IN
               IF k \in hit THEN [row EXCEPT !.status = Canceled(row)] ELSE row]]
        /\ Done(p, i, [k \in DOMAIN due |-> Withdrawal(due[k])[1]])
        /\ Mishap(p, i, IF \E k \in hit : rows[p][k].status \in
                               {"UploadCompleted", "DownloadCompleted", "Error"}
                        THEN {"crossed"} ELSE {})
        /\ UNCHANGED <<names, counter, begin, linked, asking, wire, engineVars,
                       peerVars, bounds>>

---------------------------------------------------------------------------
(* FileSyncEngine's handlers and its sender *)

OnHaveFileToSend(p, i) ==
    /\ todo[p][i].op = "have_file_to_send"
    /\ queue' = [queue EXCEPT ![p] = Append(@, todo[p][i].of[1])]
    /\ Done(p, i, << >>) /\ Mishap(p, i, {})
    /\ UNCHANGED <<listVars, linked, asking, wire, sending, peerVars, bounds>>

OnCancelSendFile(p, i) ==
    LET id == todo[p][i].of[1].id
        left == Entries(queue[p], {k \in DOMAIN queue[p] : queue[p][k].id # id})
    IN  /\ todo[p][i].op = "cancel_file_send"
        /\ queue' = [queue EXCEPT ![p] = left]
        /\ Done(p, i, << >>)
        /\ Mishap(p, i, IF left = queue[p] THEN {"taken"} ELSE {})
        /\ UNCHANGED <<listVars, linked, asking, wire, sending, peerVars, bounds>>

OnCancelUploadFile(p, i) ==
    LET id == todo[p][i].of[1].id IN
    /\ todo[p][i].op = "cancel_transit_in_sender"
    /\ sending' = IF Sends(p, id) THEN [sending EXCEPT ![p].cancel = TRUE]
                  ELSE sending
    /\ Done(p, i, << >>)
    /\ Mishap(p, i, IF Sends(p, id) /\ sending[p].at # "report" THEN {}
                    ELSE {"crossed"})
    /\ UNCHANGED <<listVars, linked, asking, wire, queue, peerVars, bounds>>

\* What the sender sends is lost without a connection or a reader.
Stream(p, kind) ==
    LET q == Other(p) IN
    data' = IF linked[p] /\ linked[q] /\ ~deaf[q]
            THEN [data EXCEPT ![q] = Append(@, [kind |-> kind, of |-> sending[p]])]
            ELSE data

TakeTask(p) ==
    /\ linked[p] /\ sending[p] = NoTransfer /\ queue[p] # << >>
    /\ sending' = [sending EXCEPT ![p] =
           [id |-> Head(queue[p]).id, file |-> Head(queue[p]).file,
            at |-> "header", cancel |-> FALSE]]
    /\ queue' = [queue EXCEPT ![p] = Tail(@)]
    /\ UNCHANGED <<listVars, linked, asking, todo, wire, peerVars, bounds,
                   mishaps>>

SendHeader(p) ==
    /\ sending[p] # NoTransfer /\ sending[p].at = "header"
    /\ Stream(p, "header")
    /\ sending' = [sending EXCEPT ![p].at = "block"]
    /\ UNCHANGED <<listVars, linked, asking, todo, wire, queue, parsing, deaf,
                   stored, bounds, mishaps>>

\* A block, with or without an event: one is published every 40 blocks.
SendBlock(p) ==
    /\ sending[p] # NoTransfer /\ sending[p].at = "block" /\ ~sending[p].cancel
    /\ Stream(p, "block")
    /\ sending' = [sending EXCEPT ![p].at = "end"]
    /\ todo' \in {todo, [todo EXCEPT ![p] =
                            Append(@, About("upload_progress", sending[p].id))]}
    /\ UNCHANGED <<listVars, linked, asking, wire, queue, parsing, deaf,
                   stored, bounds, mishaps>>

SendEnd(p) ==
    /\ sending[p] # NoTransfer
    /\ \/ sending[p].at = "end"
       \/ sending[p].at = "block" /\ sending[p].cancel
    /\ Stream(p, IF sending[p].cancel THEN "cancel" ELSE "end")
    /\ sending' = [sending EXCEPT ![p].at = "report"]
    /\ UNCHANGED <<listVars, linked, asking, todo, wire, queue, parsing, deaf,
                   stored, bounds, mishaps>>

ReportEnd(p) ==
    /\ sending[p] # NoTransfer /\ sending[p].at = "report"
    /\ IF sending[p].cancel THEN UNCHANGED todo
       ELSE Publish(p, <<About("upload_end", sending[p].id)>>)
    /\ sending' = [sending EXCEPT ![p] = NoTransfer]
    /\ UNCHANGED <<listVars, linked, asking, wire, queue, peerVars, bounds,
                   mishaps>>

\* FileParser at the other end.  getFileName throws when the id is not known:
\* delegateRecv catches it and the thread ends.
ParseHeader(p, m) ==
    /\ m.kind = "header"
    /\ IF m.of.id \in DOMAIN names[p]
       THEN /\ parsing' = [parsing EXCEPT ![p] =
                   [id |-> m.of.id, name |-> names[p][m.of.id], file |-> m.of.file]]
            /\ data' = [data EXCEPT ![p] = Tail(@)]
            /\ UNCHANGED <<deaf, mishaps>>
       ELSE /\ deaf' = [deaf EXCEPT ![p] = TRUE]
            /\ data' = [data EXCEPT ![p] = << >>]
            /\ mishaps' = mishaps \cup {"removed"}
            /\ UNCHANGED parsing
    /\ UNCHANGED <<todo, stored>>

ParseBlock(p, m) ==
    /\ m.kind = "block"
    /\ todo' \in {todo, [todo EXCEPT ![p] =
                            Append(@, About("download_progress", parsing[p].id))]}
    /\ data' = [data EXCEPT ![p] = Tail(@)]
    /\ UNCHANGED <<parsing, deaf, stored, mishaps>>

ParseEnd(p, m) ==
    /\ m.kind \in {"end", "cancel"}
    /\ Publish(p, <<About(IF m.kind = "end" THEN "download_end"
                          ELSE "have_cancel_transit", parsing[p].id)>>)
    /\ stored' = IF m.kind = "cancel" THEN stored
                 ELSE [stored EXCEPT ![p] = @ \cup
                          {[name |-> parsing[p].name, content |-> parsing[p].file]}]
    /\ data' = [data EXCEPT ![p] = Tail(@)]
    /\ UNCHANGED <<parsing, deaf, mishaps>>

Parse(p) ==
    /\ linked[p] /\ ~deaf[p] /\ data[p] # << >>
    /\ ParseHeader(p, Head(data[p])) \/ ParseBlock(p, Head(data[p]))
       \/ ParseEnd(p, Head(data[p]))
    /\ UNCHANGED <<listVars, linked, asking, wire, engineVars, bounds>>

---------------------------------------------------------------------------
(* The window *)

\* Questions are modal: while one is open there is nothing else to do.
Gesture(p) ==
    /\ ~asking[p]
    /\ gestures < MaxGestures /\ gestures' = gestures + 1

\* A file that is on the list is not added again.
AddFile(p, f) ==
    /\ Gesture(p)
    /\ Owner[f] = p /\ \A i \in DOMAIN rows[p] : rows[p][i].file # f
    /\ rows' = [rows EXCEPT ![p] = Append(@,
           [file |-> f, remote |-> FALSE, id |-> counter[p],
            status |-> "LocalDefault"])]
    /\ counter' = [counter EXCEPT ![p] = NextId(p, 1)]
    /\ Publish(p, IF linked[p] THEN <<Task("send_addfiles", <<Item(counter[p], f)>>)>>
                  ELSE << >>)
    /\ UNCHANGED <<names, begin, linked, asking, wire, engineVars, peerVars,
                   sessions, mishaps>>

\* The menu offers it for the rows of the peer's files: see the README on rows
\* of the own ones.
DownloadFile(p, i) ==
    /\ Gesture(p)
    /\ linked[p] /\ rows[p][i].remote /\ rows[p][i].status \notin Busy
    /\ SetStatus(p, i, "Pending")
    /\ Publish(p, <<About("send_get_file", rows[p][i].id)>>)
    /\ UNCHANGED <<names, counter, begin, linked, asking, wire, engineVars,
                   peerVars, sessions, mishaps>>

DownloadAll(p) ==
    LET wanted == Wanted(rows[p], {"RemoteDefault", "DownloadCancel"}, Files) IN
    /\ Gesture(p)
    /\ Publish(p, Requests(rows[p], wanted))
    /\ rows' = [rows EXCEPT ![p] = Requested(@, wanted)]
    /\ UNCHANGED <<names, counter, begin, linked, asking, wire, engineVars,
                   peerVars, sessions, mishaps>>

\* Mutant: the engine is not told of a file that waits.
CancelTasksUntold(row) ==
    CASE row.status = "Uploading" -> Withdrawal(row)
      [] row.status \in {"Downloading", "Pending"} ->
            <<About("send_cancel_file_send", row.id)>>
      [] OTHER -> << >>

\* What cancelTransit publishes.
CancelTasks(row) ==
    CASE row.status = "Uploading" -> Withdrawal(row)
      [] row.status = "Downloading" -> <<About("send_cancel_file_send", row.id)>>
      [] row.status = "Pending" ->
            Append(Withdrawal(row), About("send_cancel_file_send", row.id))
      [] OTHER -> << >>

CancelTransit(p, i) ==
    /\ Gesture(p)
    /\ rows[p][i].status \in Busy
    /\ Publish(p, CancelTasks(rows[p][i]))
    /\ IF rows[p][i].status = "Downloading" THEN UNCHANGED rows
       ELSE SetStatus(p, i, Canceled(rows[p][i]))
    /\ UNCHANGED <<names, counter, begin, linked, asking, wire, engineVars,
                   peerVars, sessions, mishaps>>

\* Mutant: the peer is told that the file is gone or that it is cancelled.
RemoveFileEither(p, i) ==
    /\ Gesture(p)
    /\ Publish(p, IF rows[p][i].status \in Busy THEN CancelTasks(rows[p][i])
                  ELSE IF linked[p]
                       THEN <<About("send_deletefiles", rows[p][i].id)>>
                       ELSE << >>)
    /\ names' = [names EXCEPT ![p] = Erase(@, rows[p][i].id)]
    /\ rows' = [rows EXCEPT ![p] = RemoveAt(@, i)]
    /\ UNCHANGED <<counter, begin, linked, asking, wire, engineVars, peerVars,
                   sessions, mishaps>>

\* A row that waits or is transferred is cancelled first.
RemoveFile(p, i) ==
    /\ Gesture(p)
    /\ Publish(p, CancelTasks(rows[p][i]) \o
                  IF linked[p] THEN <<About("send_deletefiles", rows[p][i].id)>>
                  ELSE << >>)
    /\ names' = [names EXCEPT ![p] = Erase(@, rows[p][i].id)]
    /\ rows' = [rows EXCEPT ![p] = RemoveAt(@, i)]
    /\ UNCHANGED <<counter, begin, linked, asking, wire, engineVars, peerVars,
                   sessions, mishaps>>

\* The own rows are counted anew and announced, whatever was before.
SyncCurrentFiles(p) ==
    LET before(i) == Cardinality({j \in Own(rows[p]) : j < i})
        new == [i \in DOMAIN rows[p] |->
                   IF rows[p][i].remote THEN rows[p][i]
                   ELSE [rows[p][i] EXCEPT !.id = NextId(p, before(i))]]
        own == Entries(new, Own(new))
    IN  /\ asking[p] /\ asking' = [asking EXCEPT ![p] = FALSE]
        /\ rows' = [rows EXCEPT ![p] = new]
        /\ counter' = [counter EXCEPT ![p] = NextId(p, Cardinality(Own(rows[p])))]
        /\ Publish(p, IF linked[p] /\ own # << >>
                      THEN <<Task("send_addfiles", [k \in DOMAIN own |->
                                      Item(own[k].id, own[k].file)])>>
                      ELSE << >>)
        /\ UNCHANGED <<names, begin, linked, wire, engineVars, peerVars, bounds,
                       mishaps>>

DeclineSync(p) ==
    /\ asking[p] /\ asking' = [asking EXCEPT ![p] = FALSE]
    /\ mishaps' = mishaps \cup {"unsynced"}
    /\ UNCHANGED <<listVars, linked, todo, wire, engineVars, peerVars, bounds>>

---------------------------------------------------------------------------
(* Sessions: what Session shows of them, in one step for both peers when   *)
(* one begins and in one for each when it ends.                            *)

\* Mutant: both peers count ids from the low end.
ConnectBothLow ==
    /\ sessions < MaxSessions /\ sessions' = sessions + 1
    /\ \A p \in Peers : ~linked[p] /\ sending[p] = NoTransfer
    /\ linked' = [p \in Peers |-> TRUE]
    /\ begin' = [p \in Peers |-> "Low"]
    /\ counter' = [p \in Peers |-> 0]
    /\ asking' = [p \in Peers |-> rows[p] # << >>]
    /\ UNCHANGED <<rows, names, todo, wire, engineVars, peerVars, gestures,
                   mishaps>>

Connect ==
    /\ sessions < MaxSessions /\ sessions' = sessions + 1
    /\ \A p \in Peers : ~linked[p] /\ sending[p] = NoTransfer
    /\ linked' = [p \in Peers |-> TRUE]
    /\ begin' = [p \in Peers |-> IF p = Dialer THEN "Low" ELSE "High"]
    /\ counter' = [p \in Peers |-> IF p = Dialer THEN 0 ELSE Top]
    /\ asking' = [p \in Peers |-> rows[p] # << >>]
    /\ UNCHANGED <<rows, names, todo, wire, engineVars, peerVars, gestures,
                   mishaps>>

\* The user's disconnect, or the end of the connection, which counts ids from
\* Low again; removeAllRemoteFiles.
Close(p) ==
    /\ linked[p] /\ linked' = [linked EXCEPT ![p] = FALSE]
    /\ \/ UNCHANGED <<begin, counter>>
       \/ /\ begin' = [begin EXCEPT ![p] = "Low"]
          /\ counter' = [counter EXCEPT ![p] = 0]
    /\ rows' = [rows EXCEPT ![p] =
           LET own == Entries(@, Own(@)) IN
           [k \in DOMAIN own |-> [own[k] EXCEPT !.status = "LocalDefault"]]]
    /\ wire' = [wire EXCEPT ![p] = << >>] /\ data' = [data EXCEPT ![p] = << >>]
    /\ parsing' = [parsing EXCEPT ![p] = Silent]
    /\ deaf' = [deaf EXCEPT ![p] = FALSE]
    /\ asking' = [asking EXCEPT ![p] = FALSE]
    /\ mishaps' = IF todo[p] = << >> /\ queue[p] = << >> /\ sending[p] = NoTransfer
                  THEN mishaps ELSE mishaps \cup {"late"}
    /\ UNCHANGED <<names, todo, engineVars, stored, bounds>>

---------------------------------------------------------------------------
Run(p) ==
    \E i \in DOMAIN todo[p] :
        \/ Send(p, i) \/ AddRemoteFiles(p, i) \/ NotFound(p, i)
        \/ HaveDownLoadRequest(p, i) \/ OnHaveExpiredFile(p, i)
        \/ RemoveFileById(p, i) \/ OnUploadFileProgress(p, i)
        \/ OnDownLoadProgress(p, i) \/ OnHaveCancelFile(p, i)
        \/ OnHaveFileToSend(p, i) \/ OnCancelSendFile(p, i)
        \/ OnCancelUploadFile(p, i)

Sender(p) == TakeTask(p) \/ SendHeader(p) \/ SendBlock(p) \/ SendEnd(p)
             \/ ReportEnd(p)

Window(p) ==
    \/ \E f \in Files : AddFile(p, f)
    \/ \E i \in DOMAIN rows[p] :
          DownloadFile(p, i) \/ CancelTransit(p, i) \/ RemoveFile(p, i)
    \/ DownloadAll(p) \/ SyncCurrentFiles(p) \/ DeclineSync(p)

Next ==
    \/ Connect
    \/ \E p \in Peers : \/ Run(p) \/ Receive(p) \/ Sender(p) \/ Parse(p)
                       \/ Window(p) \/ Close(p)

Spec == Init /\ [][Next]_vars
=============================================================================
