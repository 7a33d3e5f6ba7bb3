---------------------------- MODULE FileSyncProps ----------------------------
(* What the file engine and the peer's parsers are meant to guarantee.       *)
EXTENDS FileSync

\* The peer holds every leaf of f that the sender can read, byte for byte.
Delivered(f) ==
    \A l \in Elems(LeavesOf[f]) : l \in Readable => disk[PathOf[l]] = Whole(l)

\* A queued request is in the queue or with one sender, and nowhere twice:
\* two senders that both saw work in the queue never take the same request,
\* and none is lost between getPendingFile and the end of its transfer.
OneHolder ==
    /\ \A r \in Requests : /\ r \in pending <=> fate[r] = "waiting"
                           /\ (\E s \in Senders : task[s] = r) <=> fate[r] = "taken"
    /\ \A s, t \in Senders : task[s] = task[t] /\ task[s] # NoRequest => s = t

\* Why OneHolder holds, step by step: a thread has a task exactly in the part
\* of the loop that works on it, a request's progress is published by the
\* thread that holds it and its end only once, and no two waiting requests
\* have the same turn, so that the front of the queue is one request.
QueueInv ==
    /\ \A s \in Senders : Busy(s) <=> task[s] # NoRequest
    /\ OneHolder
    /\ \A r \in Requests :
          fate[r] \in {"new", "waiting", "withdrawn"} => upload[r] = "none"
    /\ \A s \in Senders :
          pc[s] \in {"begin", "stream", "report"} => upload[task[s]] # "complete"
    /\ \A q, r \in pending : turn[q] = turn[r] => q = r

\* Messages fit the parser they reach: a block continues the open stream of
\* its own leaf, an item belongs to the folder announced before it, a header
\* never meets a transfer still in progress, an end always does.
Fits(p, m) ==
    CASE m.type \in {"file_header", "dir_header"} -> p.stream = NoPath
      [] m.type = "dir_item_header" -> p.folder /\ p.cur = m.id
      [] m.type = "block" -> /\ p.stream = PathOf[m.leaf]
                             /\ p.at = m.from
                             /\ p.cur = m.id
      [] OTHER -> p.cur # NoFile

InOrder == \A s \in Senders : wire[s] # << >> => Fits(parser[s], Head(wire[s]))

\* When a thread asks for its next task, its builder remembers nothing of
\* the last one, however that one ended.
BuilderReady ==
    \A s \in Senders : pc[s] \in {"check", "take", "begin"} =>
        /\ builder[s].state = "Default"
        /\ ~builder[s].isEnd
        /\ builder[s].sent = 0
        /\ builder[s].index = 0

\* The peer calls a file complete only when it holds all of it.
EndMeansWhole == \A f \in Files : download[f] = Ended => Delivered(f)

\* A cancelled transfer leaves no truncated leaf behind: each one is whole or
\* gone, wherever in the folder the cancel struck.
CancelLeavesNoStump ==
    \A f \in Files : download[f] = CancelSeen =>
        \A l \in Elems(LeavesOf[f]) : disk[PathOf[l]] \in {Absent, Whole(l)}

\* The sender never reports a request complete that the peer saw cancelled.
NoCancelAfterComplete ==
    \A r \in Requests : upload[r] = "complete" => download[FileOf[r]] # CancelSeen

\* A request reported complete has been delivered once its connection is
\* drained: the event the sender publishes agrees with the peer's.
CompleteMeansDelivered ==
    \A r \in Requests :
        upload[r] = "complete" /\ (\A s \in Senders : wire[s] = << >>) =>
            download[FileOf[r]] = Ended /\ Delivered(FileOf[r])

\* While a file is sent and nobody cancels it, the percentage that getStream
\* returns beside each message never goes back, across the items of a folder
\* as well: the figure shown for a transfer only grows.
ProgressGrows ==
    [][\A s \in Senders :
          pc[s] = "stream" /\ pc'[s] = "stream" /\ ~cancel[s] /\ ~cancel'[s] =>
              StreamProgress(builder[s]) <= StreamProgress(builder'[s])]_vars

\* Refuted: only a transfer that somebody asked to cancel is interrupted.
OnlyAskedIsCanceled ==
    \A f \in Files : download[f] = CancelSeen => f \in asked

\* Refuted: nothing queued for one peer is sent to the next.
NoStaleTask ==
    \A s \in Senders : pc[s] = "begin" => born[task[s]] = sessions

\* A request that waits is withdrawn or finished, unless the engine stops or
\* no sender connected.
EveryRequestEnds ==
    \A r \in Requests :
        fate[r] = "waiting" ~> \/ fate[r] \in {"withdrawn", "over"}
                               \/ engine # "on"
                               \/ listed = << >>

\* A request a sender took ends at the peer as well, complete or cancelled,
\* unless the connections broke or senders were stopped.
EveryTransferEnds ==
    \A r \in Requests :
        fate[r] = "taken" ~> \/ download[FileOf[r]] \in {Ended, CancelSeen}
                             \/ broken # {}
                             \/ stops + resizes > 0

\* The engine, its threads and connections implement the abstract queue.
Queue == INSTANCE TransferQueue WITH
             Workers <- Senders,
             waiting <- pending,
             arrived <- {r \in Requests : fate[r] # "new"},
             holder <- task,
             completed <- {r \in Requests : upload[r] = "complete"}

\* Requests are handed out in the order of arrival, each once and to one
\* sender, and only that sender declares them complete.
ImplementsQueue == Queue!Spec

=============================================================================
