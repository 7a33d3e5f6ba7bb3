--------------------------- MODULE FileListProps ---------------------------
(***************************************************************************)
(* What the two lists promise each other.                                  *)
(***************************************************************************)
EXTENDS FileList

Undisturbed == mishaps = {}

\* Nothing is left to do but for the users.
Settled ==
    /\ \A p \in Peers :
          /\ todo[p] = << >> /\ sending[p] = NoTransfer
          /\ linked[p] => /\ wire[p] = << >> /\ queue[p] = << >>
                          /\ data[p] = << >> \/ deaf[p]
    /\ \A p, q \in Peers : linked[p] = linked[q]

\* The statuses of a file with its owner and with the peer that match.
Matching ==
    {<<"LocalDefault", "RemoteDefault">>, <<"UploadCompleted", "DownloadCompleted">>,
     <<"UploadCancel", "DownloadCancel">>, <<"Error", "Error">>}

Shown(p, remote) == {i \in DOMAIN rows[p] : rows[p][i].remote = remote}

\* When nothing is left to do, both windows tell the same end of a file's
\* transfer: complete with both, cancelled with both, failed with both, or not
\* asked for.  Statuses are set from both sides (downloadFile, cancelTransit,
\* haveDownLoadRequest) and by reports of two engines; a cancel may be asked
\* for at either end and at any moment.  It takes tasks that keep their order
\* and a cancel that does not meet the end of the transfer: mishaps names what
\* breaks it.
StatusAgree ==
    Settled /\ Undisturbed =>
        \A p \in Peers : linked[p] =>
            \A i \in Shown(p, FALSE), j \in Shown(Other(p), TRUE) :
                rows[p][i].id = rows[Other(p)][j].id =>
                    <<rows[p][i].status, rows[Other(p)][j].status>> \in Matching

\* When nothing is left to do, a peer shows exactly the other's files, under
\* their ids, also when a file was removed while it was asked for, withdrawn,
\* cancelled or sent (addRemoteFiles, removeFile, removeFileById,
\* syncCurrentFiles).
SameRows ==
    Settled /\ mishaps \cap {"order", "unsynced", "stale", "late"} = {} =>
        \A p \in Peers : linked[p] /\ ~asking[p] =>
            {<<rows[p][i].id, rows[p][i].file>> : i \in Shown(p, FALSE)} =
            {<<rows[Other(p)][i].id, rows[Other(p)][i].file>> :
                i \in Shown(Other(p), TRUE)}

\* What is stored under a file's name is that file: the id in the request, the
\* path that the owner finds for it, the id in the header and the name the
\* receiver finds for it belong together (getFileId, haveDownLoadRequest,
\* insertFile, getFileName).
RightFile == \A p \in Peers : \A s \in stored[p] : s.name = s.content

\* A row that shows the end of its transfer does not go back to showing one on
\* its way, but for a new request or a file that is gone: no progress report
\* comes after the end (onUploadFileProgress, onDownLoadProgress).
FinalStays ==
    [][Undisturbed' =>
         \A p \in Peers : linked'[p] =>
            \A i \in DOMAIN rows[p], j \in DOMAIN rows'[p] :
                /\ rows[p][i].status \in {"UploadCompleted", "UploadCancel",
                                          "DownloadCompleted"}
                /\ rows[p][i].id = rows'[p][j].id
                => rows'[p][j].status \in {rows[p][i].status, "Pending", "Error"}]_vars
=============================================================================
