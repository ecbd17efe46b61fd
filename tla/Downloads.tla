----------------------------- MODULE Downloads -----------------------------
(***************************************************************************)
(* Downloads from one peer (src/src/wishlist.rs, the download call of      *)
(* src/src/lib.rs and the download worker of src/src/peer.rs).             *)
(*                                                                         *)
(* The wish list is five sled trees, here the fields of db.  Each tree     *)
(* operation is atomic and nothing spans two of them, so one action is the *)
(* stretch of a task up to its next operation on a tree, the file or the   *)
(* connection.  sled writes one log for all trees and flushes it now and   *)
(* then: after a crash the trees are as they were at some flush, the files *)
(* on disk as they were last written.                                      *)
(*                                                                         *)
(* Each connection of the peer has its own worker, which yields first the  *)
(* files that were queued and then those that are inserted.                *)
(***************************************************************************)
EXTENDS Naturals, Sequences, FiniteSets, FiniteSetsExt

CONSTANTS
    Request,       \* download calls, each made once
    File,          \* paths on the peer, numbered in the order of their names
    Size,          \* Size[f]: bytes of the file, as the peer's index has it
    Wants,         \* Wants[r]: the files below the requested path
    Conn,          \* connections of the peer, each used once
    Second,        \* the timestamps requests can have
    QuietBacklog,  \* bound: no file is added while a worker yields queued ones
    Overlap,       \* bound: a connection may start while an old worker has a file
    MaxErrors,     \* bound: failed reads on an open connection
    MaxCrashes,    \* bound: crashes
    None

ASSUME DownloadsAssumption ==
    /\ File \subseteq Nat /\ Second \subseteq Nat \ {0}
    /\ Size \in [File -> Nat]
    /\ Wants \in [Request -> SUBSET File] /\ \A r \in Request : IsFiniteSet(Wants[r])
    /\ QuietBacklog \in BOOLEAN /\ Overlap \in BOOLEAN
    /\ MaxErrors \in Nat /\ MaxCrashes \in Nat
    /\ None \notin Request \cup [at : Second, file : File, req : Request]

VARIABLES
    db,         \* the trees in memory
    durable,    \* the trees at the last flush
    disk,       \* disk[f]: the remote offset of every byte of the local file, 0
                \* for a byte that is an error code
    now,        \* the second it is
    askPc, askStamp, askTodo,                    \* download calls
    connOpen,                                    \* connections
    pc, cursor, events, backlog, item, got, sum, \* workers
    completed,  \* requests whose completion was reported
    errors, crashes

askVars == <<askPc, askStamp, askTodo>>
fileVars == <<item, got, sum>>
streamVars == <<cursor, events, backlog>>
workVars == <<pc, fileVars, streamVars>>
boundVars == <<errors, crashes>>
vars == <<db, durable, disk, now, askVars, connOpen, workVars, completed, boundVars>>

Entry == [at : Second, file : File, req : Request]

\* Trees: requests_by_request_id, requests_by_timestamp, requested_files_by_peer,
\* bytes_downloaded_by_request_id and requested_files_by_request_id.
Trees == [requests : SUBSET Request,
          listed   : [Second -> Request \cup {None}],
          queue    : SUBSET Entry,
          progress : [Request -> Nat],
          files    : [Request -> [File -> {"none", "wanted", "downloaded"}]]]

\* Phases of a worker that has a file in hand.
Fetching == {"setup", "read", "dequeue", "count", "save", "mark"}
WorkerPhase == {"unused", "subscribe", "next", "done"} \cup Fetching

TypeOK ==
    /\ db \in Trees
    /\ durable \in Trees
    /\ disk \in [File -> Seq(Nat)]
    /\ now \in Second
    /\ askPc \in [Request -> {"idle", "record", "queue", "file", "done"}]
    /\ askStamp \in [Request -> Second]
    /\ askTodo \in [Request -> SUBSET File]
    /\ connOpen \in [Conn -> BOOLEAN]
    /\ pc \in [Conn -> WorkerPhase]
    /\ cursor \in [Conn -> Nat \X Nat]
    /\ events \in [Conn -> Seq(Entry)]
    /\ backlog \in [Conn -> BOOLEAN]
    /\ item \in [Conn -> Entry \cup {None}]
    /\ got \in [Conn -> Nat]
    /\ sum \in [Conn -> Nat]
    /\ \A c \in Conn : (pc[c] \in Fetching) = (item[c] # None)
    /\ \A c \in Conn : got[c] <= IF item[c] = None THEN 0 ELSE Size[item[c].file]
    /\ completed \in SUBSET Request
    /\ errors \in 0..MaxErrors
    /\ crashes \in 0..MaxCrashes

Empty == [requests |-> {},
          listed   |-> [s \in Second |-> None],
          queue    |-> {},
          progress |-> [r \in Request |-> 0],
          files    |-> [r \in Request |-> [f \in File |-> "none"]]]

Init ==
    /\ db = Empty
    /\ durable = Empty
    /\ disk = [f \in File |-> <<>>]
    /\ now \in Second /\ \A s \in Second : now <= s
    /\ askPc = [r \in Request |-> "idle"]
    /\ askStamp = [r \in Request |-> now]
    /\ askTodo = Wants
    /\ connOpen = [c \in Conn |-> FALSE]
    /\ pc = [c \in Conn |-> "unused"]
    /\ cursor = [c \in Conn |-> <<0, 0>>]
    /\ events = [c \in Conn |-> <<>>]
    /\ backlog = [c \in Conn |-> FALSE]
    /\ item = [c \in Conn |-> None]
    /\ got = [c \in Conn |-> 0]
    /\ sum = [c \in Conn |-> 0]
    /\ completed = {}
    /\ errors = 0
    /\ crashes = 0

-----------------------------------------------------------------------------
(* The download call *)

AskGoto(r, phase) == askPc' = [askPc EXCEPT ![r] = phase]

\* The peer is connected and has answered with the entry for the path itself.
Ask(r) ==
    /\ askPc[r] = "idle"
    /\ \E c \in Conn : connOpen[c]
    /\ AskGoto(r, "record")
    /\ askStamp' = [askStamp EXCEPT ![r] = now]
    /\ UNCHANGED <<db, durable, disk, now, askTodo, connOpen, workVars, completed,
                   boundVars>>

\* Mutant: only the list is written.
ListOnly(r) ==
    /\ askPc[r] = "record"
    /\ db' = [db EXCEPT !.listed[askStamp[r]] = r]
    /\ AskGoto(r, "queue")
    /\ UNCHANGED <<durable, disk, now, askStamp, askTodo, connOpen, workVars,
                   completed, boundVars>>

\* A request of the same second loses its place in the list.
AddRequest(r) ==
    /\ askPc[r] = "record"
    /\ db' = [db EXCEPT !.requests = @ \cup {r}, !.listed[askStamp[r]] = r]
    /\ AskGoto(r, "queue")
    /\ UNCHANGED <<durable, disk, now, askStamp, askTodo, connOpen, workVars,
                   completed, boundVars>>

IsNext(r, f) == f \in askTodo[r] /\ \A g \in askTodo[r] : f <= g

SameKey(e, g) == e.at = g.at /\ e.file = g.file

\* The key is the peer, the timestamp and the path, so the entry of another
\* request of the same second is overwritten.  Every worker is told.
QueueFile(r) ==
    /\ askPc[r] = "queue"
    /\ QuietBacklog => \A c \in Conn : ~backlog[c]
    /\ \E e \in Entry :
         /\ e.at = askStamp[r] /\ e.req = r /\ IsNext(r, e.file)
         /\ db' = [db EXCEPT !.queue = {g \in @ : ~SameKey(e, g)} \cup {e}]
         /\ events' = [c \in Conn |->
              IF pc[c] \in {"unused", "subscribe", "done"} THEN events[c]
              ELSE Append(events[c], e)]
    /\ AskGoto(r, "file")
    /\ UNCHANGED <<durable, disk, now, askStamp, askTodo, connOpen, pc, cursor,
                   backlog, fileVars, completed, boundVars>>

RecordFile(r) ==
    /\ askPc[r] = "file"
    /\ \E f \in File :
         /\ IsNext(r, f)
         /\ db' = [db EXCEPT !.files[r][f] = "wanted"]
         /\ askTodo' = [askTodo EXCEPT ![r] = @ \ {f}]
    /\ AskGoto(r, "queue")
    /\ UNCHANGED <<durable, disk, now, askStamp, connOpen, workVars, completed,
                   boundVars>>

\* The listing has ended, perhaps too early.
EndAsk(r) ==
    /\ askPc[r] = "queue"
    /\ askTodo[r] = {} \/ \A c \in Conn : ~connOpen[c]
    /\ AskGoto(r, "done")
    /\ UNCHANGED <<db, durable, disk, now, askStamp, askTodo, connOpen, workVars,
                   completed, boundVars>>

-----------------------------------------------------------------------------
(* Connections and what their workers yield *)

Connect(c) ==
    /\ pc[c] = "unused"
    /\ \A o \in Conn : ~connOpen[o] /\ (pc[o] \in Fetching => Overlap)
    /\ connOpen' = [connOpen EXCEPT ![c] = TRUE]
    /\ pc' = [pc EXCEPT ![c] = "subscribe"]
    /\ UNCHANGED <<db, durable, disk, now, askVars, fileVars, streamVars, completed,
                   boundVars>>

Close(c) ==
    /\ connOpen[c]
    /\ connOpen' = [connOpen EXCEPT ![c] = FALSE]
    /\ UNCHANGED <<db, durable, disk, now, askVars, workVars, completed, boundVars>>

Goto(c, phase) == pc' = [pc EXCEPT ![c] = phase]

\* Mutant: only new requests are yielded.
NewRequestsOnly(c) == FALSE

YieldsBacklog(c) == TRUE

Subscribe(c) ==
    /\ pc[c] = "subscribe"
    /\ Goto(c, "next")
    /\ backlog' = [backlog EXCEPT ![c] = YieldsBacklog(c)]
    /\ UNCHANGED <<db, durable, disk, now, askVars, connOpen, fileVars, cursor,
                   events, completed, boundVars>>

After(k, e) == e.at > k[1] \/ (e.at = k[1] /\ e.file > k[2])

Ahead(c) == {e \in db.queue : After(cursor[c], e)}

\* The worker has no file: it waits for the next one, or has ended.
Put(c, phase) ==
    /\ Goto(c, phase)
    /\ item' = [item EXCEPT ![c] = None]
    /\ got' = [got EXCEPT ![c] = 0]
    /\ sum' = [sum EXCEPT ![c] = 0]

Stop(c) ==
    /\ Put(c, "done")
    /\ cursor' = [cursor EXCEPT ![c] = <<0, 0>>]
    /\ backlog' = [backlog EXCEPT ![c] = FALSE]
    /\ events' = [events EXCEPT ![c] = <<>>]

\* A worker stops when its connection is closed, and if there is no request.
MayFetch(c, e) == connOpen[c] /\ e.req \in db.requests

Take(c, e) ==
    /\ item' = [item EXCEPT ![c] = e]
    /\ Goto(c, "setup")
    /\ UNCHANGED <<got, sum>>

\* The scan of the tree is lazy: it may meet what was inserted meanwhile, which
\* the subscription yields as well, and must meet the rest.
Owed(c) == {e \in Ahead(c) : \A i \in DOMAIN events[c] : events[c][i] # e}

YieldQueued(c) ==
    /\ pc[c] = "next" /\ backlog[c]
    /\ \E e \in Ahead(c) :
         /\ \A g \in Owed(c) : g = e \/ After(<<e.at, e.file>>, g)
         /\ IF MayFetch(c, e)
            THEN /\ Take(c, e)
                 /\ cursor' = [cursor EXCEPT ![c] = <<e.at, e.file>>]
                 /\ UNCHANGED <<events, backlog>>
            ELSE Stop(c)
    /\ UNCHANGED <<db, durable, disk, now, askVars, connOpen, completed, boundVars>>

EndBacklog(c) ==
    /\ pc[c] = "next" /\ backlog[c]
    /\ Owed(c) = {}
    /\ backlog' = [backlog EXCEPT ![c] = FALSE]
    /\ cursor' = [cursor EXCEPT ![c] = <<0, 0>>]
    /\ UNCHANGED <<db, durable, disk, now, askVars, connOpen, pc, events, fileVars,
                   completed, boundVars>>

YieldInserted(c) ==
    /\ pc[c] = "next" /\ ~backlog[c]
    /\ events[c] # <<>>
    /\ IF MayFetch(c, Head(events[c]))
       THEN /\ Take(c, Head(events[c]))
            /\ events' = [events EXCEPT ![c] = Tail(@)]
            /\ UNCHANGED <<cursor, backlog>>
       ELSE Stop(c)
    /\ UNCHANGED <<db, durable, disk, now, askVars, connOpen, completed, boundVars>>

-----------------------------------------------------------------------------
(* Fetching a file *)

\* After a failed download the worker goes on with the next file, if it can.
Fail(c) ==
    IF connOpen[c] THEN Put(c, "next") /\ UNCHANGED streamVars ELSE Stop(c)

FileOf(c) == item[c].file

\* Mutant: every download starts from the first byte.
FromTheStart(c) == 0

\* Mutant: the length of a file that is too long is not cut.
LengthOnDisk(c) == Len(disk[FileOf(c)])

\* A file that exists is continued where it ends; one that is too long counts
\* as downloaded.
StartOffset(c) ==
    IF Len(disk[FileOf(c)]) > Size[FileOf(c)] THEN Size[FileOf(c)]
                                             ELSE Len(disk[FileOf(c)])

SetupDownload(c) ==
    /\ pc[c] = "setup"
    /\ IF connOpen[c] \/ (StartOffset(c) > 0 /\ StartOffset(c) >= Size[FileOf(c)])
       THEN /\ Goto(c, IF StartOffset(c) > 0 /\ StartOffset(c) >= Size[FileOf(c)]
                       THEN "dequeue" ELSE "read")
            /\ got' = [got EXCEPT ![c] = StartOffset(c)]
            /\ UNCHANGED <<item, sum, streamVars>>
       ELSE Fail(c)
    /\ UNCHANGED <<db, durable, disk, now, askVars, connOpen, completed, boundVars>>

\* One byte stands for a block.  What has arrived can be read after the
\* connection has closed.
Receive(c) ==
    /\ pc[c] = "read"
    /\ got[c] < Size[FileOf(c)]
    /\ disk' = [disk EXCEPT ![FileOf(c)] = Append(@, got[c] + 1)]
    /\ got' = [got EXCEPT ![c] = @ + 1]
    /\ UNCHANGED <<db, durable, now, askVars, connOpen, pc, item, sum, streamVars,
                   completed, boundVars>>

\* Mutant: a stream that ended counts as a complete download.
WhateverCame(c) == TRUE

Complete(c) == got[c] >= Size[FileOf(c)]

Received(c) == Goto(c, "dequeue") /\ UNCHANGED <<fileVars, streamVars>>

EndStream(c) ==
    /\ pc[c] = "read"
    /\ Complete(c) \/ ~connOpen[c]
    /\ IF Complete(c) THEN Received(c) ELSE Fail(c)
    /\ UNCHANGED <<db, durable, disk, now, askVars, connOpen, completed, boundVars>>

\* The peer cannot read the file: it sends one byte, or ends the stream early.
ReadError(c) ==
    /\ pc[c] = "read"
    /\ errors < MaxErrors
    /\ errors' = errors + 1
    /\ \/ /\ disk' = [disk EXCEPT ![FileOf(c)] = Append(@, 0)]
          /\ IF got[c] + 1 >= Size[FileOf(c)] THEN Received(c) ELSE Fail(c)
       \/ /\ ~Complete(c)
          /\ Fail(c)
          /\ UNCHANGED disk
    /\ UNCHANGED <<db, durable, now, askVars, connOpen, completed, crashes>>

-----------------------------------------------------------------------------
(* WishList::file_completed, one action per tree *)

Dequeue(c) ==
    /\ pc[c] = "dequeue"
    /\ db' = [db EXCEPT !.queue = {e \in @ : ~SameKey(e, item[c])}]
    /\ Goto(c, "count")
    /\ UNCHANGED <<durable, disk, now, askVars, connOpen, fileVars, streamVars,
                   completed, boundVars>>

\* Mutant: the bytes of the other files are lost.
ThisFileOnly(c) == Size[FileOf(c)]

UpdatedBytes(c) == db.progress[item[c].req] + Size[FileOf(c)]

Count(c) ==
    /\ pc[c] = "count"
    /\ sum' = [sum EXCEPT ![c] = UpdatedBytes(c)]
    /\ Goto(c, "save")
    /\ UNCHANGED <<db, durable, disk, now, askVars, connOpen, item, got, streamVars,
                   completed, boundVars>>

SaveProgress(c) ==
    /\ pc[c] = "save"
    /\ db' = [db EXCEPT !.progress[item[c].req] = sum[c]]
    /\ Goto(c, "mark")
    /\ UNCHANGED <<durable, disk, now, askVars, connOpen, fileVars, streamVars,
                   completed, boundVars>>

TotalSize(r) == MapThenSumSet(LAMBDA f : Size[f], Wants[r])

\* Mutant: a request is complete when no file of it is queued.
NothingQueued(c) == \A e \in db.queue : e.req # item[c].req

\* The request is complete when the bytes add up to the size of the path.
RequestComplete(c) == sum[c] = TotalSize(item[c].req)

MarkDownloaded(c) ==
    /\ pc[c] = "mark"
    /\ db' = [db EXCEPT !.files[item[c].req][FileOf(c)] = "downloaded"]
    /\ completed' = IF RequestComplete(c) THEN completed \cup {item[c].req} ELSE completed
    /\ Put(c, "next")
    /\ UNCHANGED <<durable, disk, now, askVars, connOpen, streamVars, boundVars>>

-----------------------------------------------------------------------------
(* The environment *)

Tick ==
    /\ now' \in Second /\ now' > now
    /\ \A s \in Second : s > now => now' <= s
    /\ UNCHANGED <<db, durable, disk, askVars, connOpen, workVars, completed,
                   boundVars>>

Flush ==
    /\ crashes < MaxCrashes
    /\ durable # db
    /\ durable' = db
    /\ UNCHANGED <<db, disk, now, askVars, connOpen, workVars, completed, boundVars>>

\* The process ends, at any moment, and is started again.
Crash ==
    /\ crashes < MaxCrashes
    /\ crashes' = crashes + 1
    /\ db' = durable
    /\ askPc' = [r \in Request |-> IF askPc[r] = "idle" THEN "idle" ELSE "done"]
    /\ connOpen' = [c \in Conn |-> FALSE]
    /\ pc' = [c \in Conn |-> IF pc[c] = "unused" THEN "unused" ELSE "done"]
    /\ cursor' = [c \in Conn |-> <<0, 0>>]
    /\ backlog' = [c \in Conn |-> FALSE]
    /\ events' = [c \in Conn |-> <<>>]
    /\ item' = [c \in Conn |-> None]
    /\ got' = [c \in Conn |-> 0]
    /\ sum' = [c \in Conn |-> 0]
    /\ UNCHANGED <<durable, disk, now, askStamp, askTodo, completed, errors>>

-----------------------------------------------------------------------------
AskStep(r) == AddRequest(r) \/ QueueFile(r) \/ RecordFile(r) \/ EndAsk(r)

StreamStep(c) == Subscribe(c) \/ YieldQueued(c) \/ EndBacklog(c) \/ YieldInserted(c)

FetchStep(c) == SetupDownload(c) \/ Receive(c) \/ EndStream(c)

CompleteStep(c) == Dequeue(c) \/ Count(c) \/ SaveProgress(c) \/ MarkDownloaded(c)

WorkerStep(c) == StreamStep(c) \/ FetchStep(c) \/ CompleteStep(c)

EnvironmentStep ==
    \/ \E r \in Request : Ask(r)
    \/ \E c \in Conn : Connect(c) \/ Close(c) \/ ReadError(c)
    \/ Tick \/ Flush \/ Crash

Next ==
    \/ \E r \in Request : AskStep(r)
    \/ \E c \in Conn : WorkerStep(c)
    \/ EnvironmentStep

Spec == Init /\ [][Next]_vars

\* Tasks that are ready are polled, and a peer sends what it was asked for.
FairSpec ==
    /\ Spec
    /\ \A r \in Request : WF_vars(AskStep(r))
    /\ \A c \in Conn : WF_vars(WorkerStep(c))

-----------------------------------------------------------------------------
(* Safety *)

\* Every queued file, and every file in a worker's hands, belongs to a request
\* that is on record, also after a crash: no worker ever stops because
\* get_request fails (peer.rs, process_requests).
QueuedIsKnown ==
    /\ \A e \in db.queue : e.req \in db.requests
    /\ \A e \in durable.queue : e.req \in durable.requests
    /\ \A c \in Conn : pc[c] \in Fetching => item[c].req \in db.requests

\* A file leaves the queue only when all its bytes have come, whichever worker
\* fetched it and wherever a crash fell: what is not queued any more need not
\* be fetched again (wishlist.rs, file_completed; peer.rs, download).
LeavesWhenReceived ==
    \A f \in File :
        /\ \E r \in Request : db.files[r][f] # "none"
        /\ \A e \in db.queue : e.file # f
        => Len(disk[f]) >= Size[f]

\* What is on disk is the beginning of the remote file, however often the
\* download was interrupted and resumed (peer.rs, setup_download), unless the
\* peer has sent an error code or two workers had the file.
ResumesSeamlessly ==
    errors = 0 /\ ~Overlap =>
        \A f \in File : \A i \in DOMAIN disk[f] : disk[f][i] = i

Bytes(files) == MapThenSumSet(LAMBDA f : Size[f], files)

\* The progress of a request is at least the size of the files marked as
\* downloaded and at most that of the files that have come and left the queue,
\* at every moment at which a crash may strike (wishlist.rs, file_completed).
ProgressBounded ==
    QuietBacklog /\ ~Overlap =>
        \A r \in Request :
            LET marked == {f \in File : db.files[r][f] = "downloaded"}
                gone == {f \in Wants[r] : /\ Len(disk[f]) >= Size[f]
                                          /\ \A e \in db.queue : e.file = f => e.req # r}
            IN  /\ Bytes(marked) <= db.progress[r]
                /\ db.progress[r] <= Bytes(gone)

\* Completion is reported only when every file of the request that has any
\* bytes has come (peer.rs, process_requests).
CompletedIsReceived ==
    QuietBacklog /\ ~Overlap =>
        \A r \in completed : \A f \in Wants[r] : Size[f] > 0 => Len(disk[f]) >= Size[f]

-----------------------------------------------------------------------------
(* A claim of the documentation that the code does not have *)

\* "How much is already downloaded" (ui_messages.rs, UiDownloadRequest) is never
\* more than the size of the request.
ProgressWithinTotal == \A r \in Request : db.progress[r] <= TotalSize(r)

-----------------------------------------------------------------------------
(* Liveness *)

\* If the connection stays up in the end and no read fails, every queued file is
\* fetched, also one whose download was interrupted (wishlist.rs:
\* "This is what allows downloads to resume when a peer reconnects").
QueuedIsFetched ==
    [](errors = 0) /\ <>[](\E c \in Conn : connOpen[c]) =>
        \A f \in File : (\E e \in db.queue : e.file = f) ~> (\A e \in db.queue : e.file # f)
=============================================================================
