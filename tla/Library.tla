------------------------------ MODULE Library ------------------------------
(***************************************************************************)
(* The shared files of one peer as another sees them: listing the index    *)
(* and reading files over a connection (Rpc::ls, Rpc::read and Uploader in *)
(* src/src/connections/rpc.rs), and the HTTP calls of the other peer's     *)
(* user that are answered from it (post_files and post_read in             *)
(* src/src/ui_server/api.rs, process_length_prefix in src/src/lib.rs),     *)
(* with its cache of listings, which is lost with the connection.          *)
(***************************************************************************)
EXTENDS Shares

CONSTANTS
    Call,      \* HTTP calls for a listing
    Read,      \* requests for a file
    Queries,   \* what may be asked for
    Portions,  \* the parts of a file that may be asked for: [start, end], None for its end
    ChunkSize, \* MAX_ENTRIES_PER_MESSAGE
    Capacity,  \* messages a channel to the HTTP client takes
    Window,    \* messages or blocks on their way on one stream
    Sessions   \* what happens in a run: bounds, and the shares at its beginning

NoTerm == None

ASSUME LibraryAssumption ==
    /\ \A q \in Queries : q.path \in Seq(Token) /\ q.recursive \in BOOLEAN
    /\ \A p \in Portions : p.start \in Nat /\ (p.end = None \/ p.end \in Nat)
    /\ Call \subseteq Nat /\ Read \subseteq Nat
    /\ ChunkSize \in Nat \ {0} /\ Capacity \in Nat \ {0} /\ Window \in Nat \ {0}
    /\ \A s \in Sessions :
         /\ s.asks \subseteq Queries
         /\ {s.index, s.calls, s.reads, s.losses, s.closes} \subseteq Nat
         /\ IsFiniteSet(DOMAIN s.shared)
         /\ \A n \in DOMAIN s.shared :
              IsName(n) /\ s.shared[n].dir \in Directories /\ IsTree(s.shared[n].tree)
         /\ \A d \in DOMAIN IndexedDirs(s.shared) : IndexedDirs(s.shared)[d] \in 0..(SizeMod - 1)

VARIABLES
    connected, \* the peer is in the table
    cache,     \* index_cache of its entry: query -> chunks
    call,      \* call[c]: an HTTP call and the task that forwards the answer
    answer,    \* answer[c]: the peer's side of it
    wire,      \* wire[c]: messages on the stream between them
    read,      \* read[r]: a request for a file
    uploads,   \* reads in the queue of the uploader
    uploading, \* the read it serves
    left       \* bounds on what may still be begun

listVars == <<cache, call, answer, wire>>
readVars == <<read, uploads, uploading>>
vars == <<indexVars, connected, listVars, readVars, left>>

\* A message holds entries, or says that the query failed.
Message(entries) == [ok |-> TRUE, entries |-> entries]
Failure == [ok |-> FALSE, entries |-> <<>>]
Entry(k, size, isDir) == [name |-> k, size |-> size, is_dir |-> isDir]

NoCall == [phase |-> "idle", q |-> None, todo |-> <<>>, got |-> <<>>, channel |-> <<>>, ui |-> "open"]
NoAnswer == [phase |-> "none", q |-> None, stage |-> "dirs", last |-> None, sent |-> <<>>, still |-> TRUE]
NoRead == [phase |-> "idle", key |-> None, portion |-> None, rest |-> 0, wire |-> 0]

TypeOK ==
    /\ connected \in BOOLEAN
    /\ \A s \in Slot : op[s].phase \in {"idle", "subtract", "dirs", "files", "name", "insert", "walk", "merge"}
    /\ \A k \in DOMAIN dirs : dirs[k] \in 0..(SizeMod - 1)
    /\ \A n \in DOMAIN shareNames : shareNames[n] \in Directories
    /\ DOMAIN cache \subseteq Queries
    /\ \A c \in Call :
         /\ call[c].phase \in {"idle", "failed", "replay", "forward", "keep", "over", "done"}
         /\ call[c].ui \in {"open", "closed"}
         /\ Len(call[c].channel) <= Capacity
         /\ answer[c].phase \in {"none", "asked", "listing", "finished", "lost"}
         /\ Len(wire[c]) <= Window
    /\ \A r \in Read : /\ read[r].phase \in {"idle", "queued", "served", "answered", "lost", "stopped", "done"}
                       /\ read[r].wire \in 0..Window /\ read[r].rest \in Nat
    /\ uploads \in Seq(Read) /\ (uploading = None \/ uploading \in Read)
    /\ left \in [asks : SUBSET Queries, calls : Nat, reads : Nat, losses : Nat, closes : Nat]

Init ==
    /\ \E s \in Sessions :
         /\ IndexInit(s.shared) /\ calls = s.index
         /\ left = [asks |-> s.asks, calls |-> s.calls, reads |-> s.reads, losses |-> s.losses, closes |-> s.closes]
    /\ connected = TRUE /\ cache = <<>>
    /\ call = [c \in Call |-> NoCall] /\ answer = [c \in Call |-> NoAnswer] /\ wire = [c \in Call |-> <<>>]
    /\ read = [r \in Read |-> NoRead] /\ uploads = <<>> /\ uploading = None

Spend(what) == left[what] > 0 /\ left' = [left EXCEPT ![what] = @ - 1]

-----------------------------------------------------------------------------
(* A query, answered from the index.                                       *)

\* Mutant: the separator after the path of the query counts.
Unstripped(k, path) == SubSeq(k, Len(path) + 1, Len(k))

\* The entries of a tree that a query selects: all that begin with its path and, if it
\* is not recursive, have no separator in what follows, a first one not counted.
Rest(k, path) ==
    LET r == SubSeq(k, Len(path) + 1, Len(k))
    IN  IF r # <<>> /\ Head(r) = "/" THEN Tail(r) ELSE r
Shown(k, q) ==
    /\ IsPrefix(q.path, k)
    /\ q.recursive \/ ~Contains(Rest(k, q.path), "/")
    /\ q.term = NoTerm \/ Contains(k, q.term)

\* The directories come first, then the files, each in order of their keys.
InOrder(K) ==
    [i \in 1..Cardinality(K) |-> CHOOSE k \in K : Cardinality({l \in K : Before(l, k)}) = i - 1]
Listed(tree, K, isDir) ==
    [i \in 1..Cardinality(K) |-> LET k == InOrder(K)[i] IN Entry(k, tree[k], isDir)]
After(last, K) == {k \in K : last = None \/ Before(last, k)}
DirsLeft(a) == IF a.stage = "dirs" THEN After(a.last, {k \in DOMAIN dirs : Shown(k, a.q)}) ELSE {}
FilesLeft(a) ==
    After(IF a.stage = "files" THEN a.last ELSE None, {k \in DOMAIN files : Shown(k, a.q)})
Remaining(a) == Listed(dirs, DirsLeft(a), TRUE) \o Listed(files, FilesLeft(a), FALSE)
Exists(path) == path = Root \/ path \in DOMAIN dirs \/ path \in DOMAIN files

\* Rpc::ls: a path that does not exist is answered by one message.
LsOpen(c) ==
    /\ answer[c].phase = "asked"
    /\ IF Exists(answer[c].q.path)
       THEN answer' = [answer EXCEPT ![c].phase = "listing"] /\ wire' = wire
       ELSE /\ answer' = [answer EXCEPT ![c].phase = "finished", ![c].sent = <<Failure>>]
            /\ wire' = [wire EXCEPT ![c] = <<Failure>>]
    /\ UNCHANGED <<indexVars, connected, cache, call, readVars, left>>

\* One message after the other while the stream takes them; the iterator goes on from
\* the last key in whatever the trees hold by then.  It is done with the directories
\* when a message has asked for more than are left.
Chunk(entries) == SubSeq(entries, 1, IF Len(entries) < ChunkSize THEN Len(entries) ELSE ChunkSize)
Advanced(a, m) ==
    LET past == Cardinality(DirsLeft(a)) < ChunkSize
    IN  [a EXCEPT !.stage = IF past THEN "files" ELSE "dirs",
                  !.last = IF past /\ Last(m).is_dir THEN None ELSE Last(m).name,
                  !.sent = Append(@, Message(m))]
LsChunk(c) ==
    /\ answer[c].phase = "listing" /\ Len(wire[c]) < Window
    /\ \E m \in {Chunk(Remaining(answer[c]))} :
         IF m = <<>>
         THEN answer' = [answer EXCEPT ![c].phase = "finished"] /\ wire' = wire
         ELSE /\ answer' = [answer EXCEPT ![c] = Advanced(answer[c], m)]
              /\ wire' = [wire EXCEPT ![c] = Append(@, Message(m))]
    /\ UNCHANGED <<indexVars, connected, cache, call, readVars, left>>

-----------------------------------------------------------------------------
(* The HTTP call for a listing.                                            *)

\* post_files: the answer comes from the cache or a stream to the peer is opened; with
\* the peer gone from the table the call fails.
PostFiles(c) ==
    /\ call[c].phase = "idle" /\ Spend("calls")
    /\ \A b \in Call : b < c => call[b].phase # "idle"
    /\ \E q \in left.asks :
         \/ /\ ~connected
            /\ call' = [call EXCEPT ![c].phase = "failed", ![c].q = q] /\ answer' = answer
         \/ /\ connected /\ q \in DOMAIN cache
            /\ call' = [call EXCEPT ![c].phase = "replay", ![c].q = q, ![c].todo = cache[q]]
            /\ answer' = answer
         \/ /\ connected /\ q \notin DOMAIN cache
            /\ call' = [call EXCEPT ![c].phase = "forward", ![c].q = q]
            /\ answer' = [answer EXCEPT ![c].phase = "asked", ![c].q = q]
    /\ UNCHANGED <<indexVars, connected, cache, wire, readVars>>

\* Mutant: one message too many.
AlmostRoom(c) == Len(call[c].channel) <= Capacity

Room(c) == Len(call[c].channel) < Capacity

\* Cached messages are put into the channel before the handler returns the response
\* that reads from it.
Replay(c) ==
    /\ call[c].phase = "replay"
    /\ IF call[c].todo = <<>>
       THEN call' = [call EXCEPT ![c].phase = "over"]
       ELSE Room(c) /\ call' = [call EXCEPT ![c].todo = Tail(@), ![c].channel = Append(@, Head(call[c].todo))]
    /\ UNCHANGED <<indexVars, connected, cache, answer, wire, readVars, left>>

\* A task of its own passes on what arrives and keeps the entries; it ends early when
\* nobody listens any more.
Kept(c, m) == IF m.ok THEN Append(call[c].got, m) ELSE call[c].got
Forward(c) ==
    /\ call[c].phase = "forward" /\ wire[c] # <<>>
    /\ wire' = [wire EXCEPT ![c] = Tail(@)]
    /\ LET m == Head(wire[c])
       IN  IF call[c].ui = "closed"
           THEN call' = [call EXCEPT ![c].phase = "keep", ![c].got = Kept(c, m)]
           ELSE Room(c) /\ call' = [call EXCEPT ![c].got = Kept(c, m), ![c].channel = Append(@, m)]
    /\ UNCHANGED <<indexVars, connected, cache, answer, readVars, left>>

\* Mutant: only an answer that was finished ends.
Finished(c) == answer[c].phase = "finished"

\* process_length_prefix: the end of the stream and its loss look the same.
StreamOver(c) == answer[c].phase \in {"finished", "lost"}
StreamEnds(c) ==
    /\ call[c].phase = "forward" /\ wire[c] = <<>> /\ StreamOver(c)
    /\ call' = [call EXCEPT ![c].phase = "keep"]
    /\ UNCHANGED <<indexVars, connected, cache, answer, wire, readVars, left>>

\* What was kept goes to the cache of the entry the table has now.
PutCache(c) ==
    /\ call[c].phase = "keep"
    /\ cache' = IF call[c].got # <<>> /\ connected THEN Put(cache, call[c].q, call[c].got) ELSE cache
    /\ call' = [call EXCEPT ![c].phase = "over"]
    /\ UNCHANGED <<indexVars, connected, answer, wire, readVars, left>>

\* The HTTP client reads the response once the handler has returned it.
Returned(c) == call[c].phase \in {"forward", "keep", "over"}
ClientReads(c) ==
    /\ Returned(c) /\ call[c].ui = "open" /\ call[c].channel # <<>>
    /\ call' = [call EXCEPT ![c].channel = Tail(@)]
    /\ UNCHANGED <<indexVars, connected, cache, answer, wire, readVars, left>>
ClientEnds(c) ==
    /\ call[c].phase = "over" /\ (call[c].ui = "closed" \/ call[c].channel = <<>>)
    /\ call' = [call EXCEPT ![c].phase = "done", ![c].channel = <<>>]
    /\ UNCHANGED <<indexVars, connected, cache, answer, wire, readVars, left>>

\* It may go away: a handler that has not returned is dropped, a task goes on.
ClientCloses(c) ==
    /\ call[c].phase \in {"replay", "forward"} /\ call[c].ui = "open" /\ Spend("closes")
    /\ call' = [call EXCEPT ![c].ui = "closed", ![c].channel = <<>>,
                            ![c].phase = IF @ = "replay" THEN "done" ELSE @]
    /\ UNCHANGED <<indexVars, connected, cache, answer, wire, readVars>>

-----------------------------------------------------------------------------
(* Reading files.                                                          *)

\* A read request is queued whatever it asks for.
PostRead(r) ==
    /\ read[r].phase = "idle" /\ connected /\ Spend("reads")
    /\ \A o \in Read : o < r => read[o].phase # "idle"
    /\ \E k \in DOMAIN files \cup {Root}, p \in Portions :
         read' = [read EXCEPT ![r].phase = "queued", ![r].key = k, ![r].portion = p]
    /\ uploads' = Append(uploads, r)
    /\ UNCHANGED <<indexVars, connected, listVars, uploading>>

\* get_file_portion: the blocks to be sent, or None.
Blocks(r) ==
    LET p == read[r].portion
        size == files[read[r].key]
        end == IF p.end = None \/ p.end > size THEN size ELSE p.end
    IN  IF (p.end # None /\ p.start > p.end) \/ ~Resolves(read[r].key) THEN None
        ELSE IF p.start > end THEN 0 ELSE end - p.start

\* Uploader::run takes the next request when it is done with the one before.  A file
\* that cannot be opened is answered like one that is not shared: by a single byte.
Take(r) == uploading = None /\ uploads # <<>> /\ Head(uploads) = r /\ uploads' = Tail(uploads)
ServeRead(r) ==
    /\ Take(r) /\ Blocks(r) # None
    /\ uploading' = r
    /\ read' = [read EXCEPT ![r].rest = Blocks(r),
                            ![r].phase = IF @ = "queued" THEN "served" ELSE @]
    /\ UNCHANGED <<indexVars, connected, listVars, left>>
AnswerError(p) == IF p.phase = "queued" THEN [p EXCEPT !.phase = "answered", !.wire = 1] ELSE p
RefuseRead(r) ==
    /\ Take(r)
    /\ read' = [read EXCEPT ![r] = AnswerError(@)]
    /\ UNCHANGED <<indexVars, connected, listVars, uploading, left>>

UploadBlock(r) ==
    /\ uploading = r /\ read[r].phase = "served" /\ read[r].rest > 0 /\ read[r].wire < Window
    /\ read' = [read EXCEPT ![r].rest = @ - 1, ![r].wire = @ + 1]
    /\ UNCHANGED <<indexVars, connected, listVars, uploads, uploading, left>>
UploadEnds(r) ==
    /\ uploading = r /\ read[r].phase = "served" /\ read[r].rest = 0
    /\ read' = [read EXCEPT ![r].phase = "answered"] /\ uploading' = None
    /\ UNCHANGED <<indexVars, connected, listVars, uploads, left>>

\* Mutant: the uploader stays with the request that failed.
StillBusy == uploading

\* A write to a stream that is lost or not wanted any more fails, and the uploader
\* goes on with the next request.
AfterError == None
UploadFails(r) ==
    /\ uploading = r /\ read[r].phase \in {"lost", "stopped"}
    /\ uploading' = AfterError
    /\ UNCHANGED <<indexVars, connected, listVars, read, uploads, left>>

\* The one who asked reads to the end, or stops.
ReaderReads(r) ==
    /\ read[r].wire > 0
    /\ read' = [read EXCEPT ![r].wire = @ - 1]
    /\ UNCHANGED <<indexVars, connected, listVars, uploads, uploading, left>>
ReaderEnds(r) ==
    /\ read[r].phase = "answered" /\ read[r].wire = 0
    /\ read' = [read EXCEPT ![r].phase = "done"]
    /\ UNCHANGED <<indexVars, connected, listVars, uploads, uploading, left>>
ReaderStops(r) ==
    /\ read[r].phase \in {"queued", "served"} /\ Spend("closes")
    /\ read' = [read EXCEPT ![r].phase = "stopped", ![r].wire = 0]
    /\ UNCHANGED <<indexVars, connected, listVars, uploads, uploading>>

-----------------------------------------------------------------------------
\* The connection is lost, and with it what is on its streams but for some messages
\* that have arrived already; the cache goes with the entry in the table.
Lost(a) == IF a.phase \in {"asked", "listing"} THEN [a EXCEPT !.phase = "lost"] ELSE a
LoseStreams ==
    /\ connected' = FALSE /\ cache' = <<>> /\ Spend("losses")
    /\ \E keep \in [Call -> 0..Window] :
         /\ \A c \in Call : keep[c] <= Len(wire[c])
         /\ wire' = [c \in Call |-> SubSeq(wire[c], 1, keep[c])]
         /\ answer' = [c \in Call |-> IF keep[c] < Len(wire[c]) THEN [answer[c] EXCEPT !.phase = "lost"]
                                      ELSE Lost(answer[c])]
    /\ read' = [r \in Read |-> IF read[r].phase \in {"queued", "served", "answered"}
                               THEN [read[r] EXCEPT !.phase = "lost", !.wire = 0] ELSE read[r]]
    /\ UNCHANGED call
Lose == connected /\ LoseStreams /\ UNCHANGED <<indexVars, uploads, uploading>>

\* The program of the peer ends and starts again with what is in its database.
Restart == Crash /\ LoseStreams /\ uploads' = <<>> /\ uploading' = None

Reconnect ==
    /\ ~connected /\ connected' = TRUE
    /\ UNCHANGED <<indexVars, listVars, readVars, left>>

\* A step of the index; an answer that is under way or done is no longer of one index.
IndexChanges ==
    /\ IndexNext
    /\ answer' = [c \in Call |-> IF answer[c].phase = "none" THEN answer[c]
                                 ELSE [answer[c] EXCEPT !.still = FALSE]]
    /\ UNCHANGED <<connected, cache, call, wire, readVars, left>>

CallStep(c) ==
    \/ LsOpen(c) \/ LsChunk(c) \/ Replay(c) \/ Forward(c) \/ StreamEnds(c) \/ PutCache(c)
    \/ ClientReads(c) \/ ClientEnds(c)
ReadStep(r) ==
    \/ ServeRead(r) \/ RefuseRead(r) \/ UploadBlock(r) \/ UploadEnds(r) \/ UploadFails(r)
    \/ ReaderReads(r) \/ ReaderEnds(r)

Next ==
    \/ IndexChanges
    \/ \E c \in Call : PostFiles(c) \/ CallStep(c) \/ ClientCloses(c)
    \/ \E r \in Read : PostRead(r) \/ ReadStep(r) \/ ReaderStops(r)
    \/ Lose \/ Restart \/ Reconnect

Spec == Init /\ [][Next]_vars

\* Both programs run, streams deliver, the HTTP client and whoever asked for a file
\* read what they are sent.
FairSpec ==
    /\ Spec
    /\ WF_vars(\E c \in Call : CallStep(c))
    /\ WF_vars(\E r \in Read : ReadStep(r))

-----------------------------------------------------------------------------
\* Properties.

\* What a query stands for: its directory and all beneath it, or what is directly in it.
Parts(k) == Cardinality({i \in DOMAIN k : k[i] = "/"}) + IF k = Root THEN 0 ELSE 1
Asked(k, q) ==
    /\ k = q.path \/ (Beneath(k, q.path) /\ (q.recursive \/ Parts(k) = Parts(q.path) + 1))
    /\ q.term = NoTerm \/ Contains(k, q.term)
Expected(q) == {Entry(k, dirs[k], TRUE) : k \in {d \in DOMAIN dirs : Asked(d, q)}}
               \cup {Entry(k, files[k], FALSE) : k \in {f \in DOMAIN files : Asked(f, q)}}

\* An answer given while the index did not change holds every entry the query stands
\* for, with its size, exactly once, however it was cut into messages (Shares::query,
\* kv_filter_map, Chunker, Rpc::ls).
SentAt(e, sent) == {x \in (1..Len(sent)) \X (1..ChunkSize) :
                      x[2] <= Len(sent[x[1]].entries) /\ sent[x[1]].entries[x[2]] = e}
Times(e, a) == Cardinality(SentAt(e, a.sent))
ListingComplete ==
    \A c \in Call :
        answer[c].phase = "finished" /\ answer[c].still /\ Exists(answer[c].q.path)
          => \A e \in Expected(answer[c].q) : Times(e, answer[c]) = 1

\* Every call for a listing ends, from the cache or from the peer, whatever the index
\* and the connection do meanwhile (post_files, process_length_prefix).  One kind never
\* does unless the client gives up: the cached answer that is longer than the channel,
\* which the handler fills before anybody can read from it.
Stuck(c) == call[c].phase = "replay" /\ Len(call[c].channel) + Len(call[c].todo) > Capacity
CallsPending == \E c \in Call : call[c].phase \notin {"idle", "failed", "done"} /\ ~Stuck(c)
EveryCallEnds == CallsPending ~> ~CallsPending

\* Every read request ends, though all of them wait for one uploader: those before it
\* may fail, lose their connection or be stopped at any point (Uploader::run).
ReadsPending == \E r \in Read : read[r].phase \in {"queued", "served", "answered"}
EveryReadEnds == ReadsPending ~> ~ReadsPending
=============================================================================
