----------------------------- MODULE Interface -----------------------------
(***************************************************************************)
(* The web interface (web-ui/src: hdp.rs, lib.rs, file.rs, requests.rs,    *)
(* ws.rs) and the part of the program it talks to.  What it shows is put   *)
(* together from two sources whose order is not fixed: the answers to its  *)
(* HTTP calls, each awaited by a task of its own, and the events of the    *)
(* websocket, which arrive in order.                                       *)
(*                                                                         *)
(* A path is the sequence of its parts, as in Shares.                      *)
(***************************************************************************)
EXTENDS Integers, Sequences, FiniteSets, SequencesExt, FiniteSetsExt, Functions

CONSTANTS
    Peer,     \* other peers
    Self,     \* the name of one's own
    Tree,     \* Tree[p][path]: the size of what p shares there
    Dirs,     \* the paths that are directories
    MaxReq,   \* bound on download requests
    MaxQueue, \* bound on events on their way
    Sessions, \* what users and network do in a run, and the state it begins with
    None

Root == <<>>
Req == 1..MaxReq
Key == UNION {{<<p, path>> : path \in DOMAIN Tree[p]} : p \in DOMAIN Tree}
Path == UNION {DOMAIN Tree[p] : p \in DOMAIN Tree}

\* A path and what is within it, by components.
Within(path, k) == k = path \/ IsStrictPrefix(IF path = Root THEN path ELSE path \o <<"/">>, k)
Parts(path) == Cardinality({i \in DOMAIN path : path[i] = "/"}) + IF path = Root THEN 0 ELSE 1
FilesOf(p, path) == {k \in DOMAIN Tree[p] \ Dirs : Within(path, k)}
SizeOf(p, ks) == MapThenSumSet(LAMBDA k : Tree[p][k], ks)

\* What a peer shares has a root, and a size that is that of the files within (as Shares
\* keeps it); one's own directories are asked for by their names.
ASSUME InterfaceAssumption ==
    /\ Self \notin Peer /\ DOMAIN Tree = Peer \cup {Self} /\ MaxReq \in Nat /\ MaxQueue \in Nat
    /\ \A p \in DOMAIN Tree : IsFiniteSet(DOMAIN Tree[p]) /\ \A path \in DOMAIN Tree[p] :
         path \in Seq(Range(path)) /\ Tree[p][path] \in Nat
    /\ \A p \in Peer : DOMAIN Tree[p] # {} => Root \in DOMAIN Tree[p]
    /\ \A p \in Peer : \A path \in DOMAIN Tree[p] : Tree[p][path] = SizeOf(p, FilesOf(p, path))
    /\ \A path \in DOMAIN Tree[Self] : Parts(path) = 1
    /\ \A s \in Sessions :
         /\ s.listed \subseteq Peer /\ s.mine \subseteq DOMAIN Tree[Self] /\ s.open \in BOOLEAN
         /\ s.wish \in Seq(Peer \X Path) /\ Len(s.wish) <= MaxReq
         /\ \A r \in DOMAIN s.wish : s.wish[r][2] \in DOMAIN Tree[s.wish[r][1]]
    /\ None \notin DOMAIN Tree \cup [req : Req, file : Path, bytes : Nat, since : Nat, total : Nat]

VARIABLES
    \* the program
    listed,    \* peers in the table
    closing,   \* those whose connection is closed but not yet taken out
    dialling,  \* peers a dial to is under way
    waiting,   \* peers that were asked for and are expected to dial
    mine,      \* directories shared
    wish,      \* the download requests
    worker,    \* worker[p]: the file being downloaded
    \* between them
    events,    \* events on the websocket
    socket,    \* the websocket is open
    clicks,    \* calls that do something
    listings,  \* calls for listings and searches
    snapshots, \* calls for requests and requested files
    \* the interface
    peers, pending, files, results, requests,
    \* history and bounds
    missed,    \* events have been lost
    excused,   \* peers that an answer or event which came late was about
    unsized,   \* requests whose entry was made without a size
    left

backendVars == <<listed, closing, dialling, waiting, mine, wish, worker>>
callVars == <<clicks, listings, snapshots>>
viewVars == <<peers, pending, files, results, requests>>
historyVars == <<missed, excused, unsized>>
vars == <<backendVars, events, socket, callVars, viewVars, historyVars, left>>

-----------------------------------------------------------------------------
\* A request and its files: all within its path.
Progress(r) == SizeOf(wish[r].peer, wish[r].done)
Total(r) == SizeOf(wish[r].peer, DOMAIN wish[r].got)
NewRequest(p, path) ==
    [peer |-> p, path |-> path, got |-> [k \in FilesOf(p, path) |-> 0], done |-> {}]

\* What is shown about a file.
NoStatus == [kind |-> "Nothing", req |-> 0]
Status(kind, r) == [kind |-> kind, req |-> r]
Entry(size, status, r) == [size |-> size, status |-> status, req |-> r]
Unknown == -1
OrZero(size) == IF size = Unknown THEN 0 ELSE size
With(f, k, v) == [x \in DOMAIN f \cup {k} |-> IF x = k THEN v ELSE f[x]]
Over(new, old) == [x \in DOMAIN new \cup DOMAIN old |-> IF x \in DOMAIN new THEN new[x] ELSE old[x]]
WithoutPeer(f, p) == Restrict(f, {k \in DOMAIN f : k[1] # p})

Click(kind, p, path) == [kind |-> kind, peer |-> p, path |-> path, answer |-> "asked", req |-> 0]
Listing(p, path, search) ==
    [peer |-> p, path |-> path, search |-> search, answer |-> "asked", found |-> {}]
Snapshot(r) == [req |-> r, answer |-> "asked", rows |-> {}]

TypeOK ==
    /\ listed \subseteq Peer /\ closing \subseteq listed /\ dialling \subseteq Peer /\ waiting \subseteq Peer
    /\ \A r \in DOMAIN wish : \A k \in DOMAIN wish[r].got : wish[r].got[k] \in 0..Tree[wish[r].peer][k]
    /\ \A p \in Peer : worker[p] # None =>
         worker[p].bytes + worker[p].since = wish[worker[p].req].got[worker[p].file]
    /\ Len(events) <= MaxQueue /\ socket \in BOOLEAN
    /\ peers \subseteq Peer /\ pending \subseteq Peer /\ results \subseteq Key /\ requests \subseteq {0, 1} \X Req
    /\ DOMAIN files \subseteq Key
    /\ \A k \in DOMAIN files :
         /\ files[k].size \in {Unknown} \cup Nat /\ files[k].req \in 0..MaxReq
         /\ files[k].status.kind \in {"Nothing", "Requested", "Downloading", "Downloaded"}

\* The interface is opened: it asks for its own shares, the root of every peer and all
\* requests, while the websocket is being opened or already is.
Init ==
    /\ \E s \in Sessions :
         /\ listed = s.listed /\ mine = s.mine /\ socket = s.open /\ left = s.left
         /\ wish = [r \in DOMAIN s.wish |-> NewRequest(s.wish[r][1], s.wish[r][2])]
         /\ excused = {p \in s.listed : DOMAIN Tree[p] = {}}
    /\ closing = {} /\ dialling = {} /\ waiting = {} /\ worker = [p \in Peer |-> None]
    /\ events = <<>>
    /\ clicks = {} /\ snapshots = {Snapshot(0)}
    /\ listings = {Listing(Self, Root, FALSE), Listing(None, Root, FALSE)}
    /\ peers = {} /\ pending = {} /\ files = <<>> /\ results = {} /\ requests = {}
    /\ missed = FALSE /\ unsized = {}

Spend(what) == left[what] > 0 /\ left' = [left EXCEPT ![what] = @ - 1]

-----------------------------------------------------------------------------
(* The program.                                                            *)

\* SharedState::send_event: without a websocket the event is lost.
Event(kind, p, r, k, bytes, total) ==
    [kind |-> kind, peer |-> p, req |-> r, path |-> k, bytes |-> bytes, total |-> total]
PeerEvent(kind, p) == Event(kind, p, 0, Root, 0, 0)
SendAll(es) ==
    IF socket THEN Len(events) + Len(es) <= MaxQueue /\ events' = events \o es /\ UNCHANGED missed
    ELSE missed' = TRUE /\ UNCHANGED events

\* A call is answered.
Answered(calls, c, answer) == (calls \ {c}) \cup {[c EXCEPT !.answer = answer]}

\* post_connect: the announcement is refused, or they are to dial, or a dial begins
\* unless one is under way or the peer has connected meanwhile.
ServeConnect(c) ==
    /\ c \in clicks /\ c.kind = "connect" /\ c.answer = "asked"
    /\ \/ /\ clicks' = Answered(clicks, c, "error")
          /\ UNCHANGED <<dialling, waiting>>
       \/ /\ c.peer \notin listed /\ clicks' = Answered(clicks, c, "ok")
          /\ waiting' = waiting \cup {c.peer} /\ UNCHANGED dialling
       \/ /\ c.peer \notin listed /\ clicks' = Answered(clicks, c, "ok")
          /\ dialling' = dialling \cup {c.peer} /\ UNCHANGED waiting
    /\ UNCHANGED <<listed, closing, mine, wish, worker, events, socket, listings, snapshots, viewVars,
                   historyVars, left>>

\* A dial ends: with a connection, refused as a second one, or in failure.
DialEnds(p) ==
    /\ p \in dialling /\ dialling' = dialling \ {p}
    /\ \/ /\ p \notin listed /\ SendAll(<<PeerEvent("connected", p)>>)
          /\ listed' = listed \cup {p} /\ waiting' = waiting \ {p}
       \/ p \in listed /\ UNCHANGED <<listed, waiting, events, missed>>
       \/ SendAll(<<PeerEvent("failed", p)>>) /\ UNCHANGED <<listed, waiting>>
    /\ UNCHANGED <<closing, mine, wish, worker, socket, callVars, viewVars, excused, unsized, left>>

\* The other side dials.
PeerConnects(p) ==
    /\ p \notin listed /\ Spend("arrivals")
    /\ listed' = listed \cup {p} /\ waiting' = waiting \ {p} /\ SendAll(<<PeerEvent("connected", p)>>)
    /\ UNCHANGED <<closing, dialling, mine, wish, worker, socket, callVars, viewVars, excused, unsized>>

\* disconnect_peer
ServeDisconnect(c) ==
    /\ c \in clicks /\ c.kind = "disconnect" /\ c.answer = "asked"
    /\ clicks' = Answered(clicks, c, IF c.peer \in listed THEN "ok" ELSE "error")
    /\ closing' = closing \cup ({c.peer} \cap listed)
    /\ UNCHANGED <<listed, dialling, waiting, mine, wish, worker, events, socket, listings, snapshots,
                   viewVars, historyVars, left>>
ConnectionLost(p) ==
    /\ p \in listed \ closing /\ Spend("losses") /\ closing' = closing \cup {p}
    /\ UNCHANGED <<listed, dialling, waiting, mine, wish, worker, events, socket, callVars, viewVars,
                   historyVars>>
Teardown(p) ==
    /\ p \in closing /\ closing' = closing \ {p} /\ listed' = listed \ {p}
    /\ SendAll(<<PeerEvent("disconnected", p)>>)
    /\ UNCHANGED <<dialling, waiting, mine, wish, worker, socket, callVars, viewVars, excused, unsized, left>>

\* download: the request is made from a listing of the path, which the peer answers.
ServeDownload(c) ==
    /\ c \in clicks /\ c.kind = "download" /\ c.answer = "asked"
    /\ \/ /\ c.peer \notin listed \ closing
          /\ clicks' = Answered(clicks, c, "error") /\ UNCHANGED wish
       \/ /\ c.peer \in listed \ closing
          /\ Len(wish) < MaxReq /\ wish' = Append(wish, NewRequest(c.peer, c.path))
          /\ clicks' = (clicks \ {c}) \cup {[c EXCEPT !.answer = "ok", !.req = Len(wish) + 1]}
    /\ UNCHANGED <<listed, closing, dialling, waiting, mine, worker, events, socket, listings, snapshots,
                   viewVars, historyVars, left>>

\* A worker of a connected peer takes a file that is not done.
BeginFile(p) ==
    /\ p \in listed \ closing /\ worker[p] = None
    /\ \E r \in DOMAIN wish :
         /\ wish[r].peer = p
         /\ \E k \in DOMAIN wish[r].got \ wish[r].done :
              worker' = [worker EXCEPT ![p] =
                  [req |-> r, file |-> k, bytes |-> wish[r].got[k], since |-> 0, total |-> Progress(r)]]
    /\ UNCHANGED <<listed, closing, dialling, waiting, mine, wish, events, socket, callVars, viewVars,
                   historyVars, left>>

\* A block; from time to time the interface is told of all since the last time.
Download(p, w) == Event("downloading", p, w.req, w.file, w.bytes, w.total)
Recounted(w) == [w EXCEPT !.bytes = @ + w.since, !.total = @ + w.since] \* mutant
Reported(w) == [w EXCEPT !.bytes = @ + w.since, !.total = @ + w.since, !.since = 0]
ReceiveBlock(p) ==
    /\ worker[p] # None /\ p \in listed \ closing
    /\ LET w == [worker[p] EXCEPT !.since = @ + 1]
       IN  /\ wish[w.req].got[w.file] < Tree[p][w.file]
           /\ wish' = [wish EXCEPT ![w.req].got[w.file] = @ + 1]
           /\ \/ worker' = [worker EXCEPT ![p] = w] /\ UNCHANGED <<events, missed>>
              \/ /\ worker' = [worker EXCEPT ![p] = Reported(w)]
                 /\ SendAll(<<Download(p, Reported(w))>>)
    /\ UNCHANGED <<listed, closing, dialling, waiting, mine, socket, callVars, viewVars, excused, unsized,
                   left>>

\* The last report of a file counts what has not been reported as read of the file, but
\* not as read of the request.
LastReport(p, w) == Download(p, [w EXCEPT !.bytes = @ + w.since])
CompletedEarly(p, w) == \* mutant
    <<Event("completed", p, w.req, wish[w.req].path, 0, 0)>>
Completed(p, w) ==
    IF wish[w.req].done \cup {w.file} = DOMAIN wish[w.req].got
    THEN <<Event("completed", p, w.req, wish[w.req].path, 0, 0)>> ELSE <<>>
FileEnds(p) ==
    /\ worker[p] # None /\ worker' = [worker EXCEPT ![p] = None]
    /\ LET w == worker[p]
       IN  IF wish[w.req].got[w.file] = Tree[p][w.file]
           THEN /\ wish' = [wish EXCEPT ![w.req].done = @ \cup {w.file}]
                /\ SendAll(<<LastReport(p, w)>> \o Completed(p, w))
           ELSE p \notin listed \ closing /\ SendAll(<<LastReport(p, w)>>) /\ UNCHANGED wish
    /\ UNCHANGED <<listed, closing, dialling, waiting, mine, socket, callVars, viewVars, excused, unsized,
                   left>>

\* put_shares and delete_shares
ServeShare(c) ==
    /\ c \in clicks /\ c.kind \in {"add", "remove"} /\ c.answer = "asked"
    /\ clicks' = Answered(clicks, c, "ok")
    /\ mine' = IF c.kind = "add" THEN mine \cup {c.path} ELSE mine \ {c.path}
    /\ UNCHANGED <<listed, closing, dialling, waiting, wish, worker, events, socket, listings, snapshots,
                   viewVars, historyVars, left>>

\* post_files and post_shares: what is in the directory, or all that matches.  A call to
\* all peers fails if the connection of one of them is closed.
Shown(p, l) ==
    {<<p, k>> : k \in {k \in DOMAIN Tree[p] :
        /\ p = Self => k \in mine
        /\ l.search \/ k = l.path \/ (Within(l.path, k) /\ Parts(k) = Parts(l.path) + 1)}}
AskedPeers(l) == IF l.peer = None THEN listed ELSE {l.peer}
ServeListing(l) ==
    /\ l \in listings /\ l.answer = "asked"
    /\ LET reachable == AskedPeers(l) \subseteq (listed \ closing) \cup {Self}
       IN  /\ listings' = (listings \ {l}) \cup
                {[l EXCEPT !.answer = IF reachable THEN "ok" ELSE "error",
                           !.found = IF reachable THEN UNION {Shown(p, l) : p \in AskedPeers(l)} ELSE {}]}
           /\ excused' = IF reachable \/ l.search THEN excused ELSE excused \cup AskedPeers(l)
    /\ UNCHANGED <<backendVars, events, socket, clicks, snapshots, viewVars, missed, unsized, left>>

\* get_requests and get_request
Row(r, path, done) == [req |-> r, path |-> path, done |-> done]
Rows(s) ==
    IF s.req = 0 THEN {Row(r, wish[r].path, Progress(r) = Total(r)) : r \in DOMAIN wish}
    ELSE {Row(s.req, k, k \in wish[s.req].done) : k \in DOMAIN wish[s.req].got}
ServeSnapshot(s) ==
    /\ s \in snapshots /\ s.answer = "asked"
    /\ snapshots' = (snapshots \ {s}) \cup {[s EXCEPT !.answer = "ok", !.rows = Rows(s)]}
    /\ UNCHANGED <<backendVars, events, socket, clicks, listings, viewVars, historyVars, left>>

-----------------------------------------------------------------------------
(* The websocket.                                                          *)

\* Some events that were on their way still arrive.
SocketCloses ==
    /\ socket /\ socket' = FALSE /\ Spend("drops") /\ missed' = TRUE
    /\ \E n \in 0..Len(events) : events' = SubSeq(events, 1, n)
    /\ UNCHANGED <<backendVars, callVars, viewVars, excused, unsized>>
SocketOpens ==
    /\ ~socket /\ socket' = TRUE
    /\ UNCHANGED <<backendVars, events, callVars, viewVars, historyVars, left>>

-----------------------------------------------------------------------------
(* The user.                                                               *)

UserCalls(c) == clicks' = clicks \cup {c} /\ UNCHANGED <<listings, snapshots>>
UserAsks(l) == listings' = listings \cup {l} /\ UNCHANGED <<clicks, snapshots>>
elsewhere == <<backendVars, events, socket, historyVars>>

ClickConnect(p) ==
    /\ Spend("connects") /\ UserCalls(Click("connect", p, Root)) /\ pending' = pending \cup {p}
    /\ UNCHANGED <<elsewhere, peers, files, results, requests>>
ClickDisconnect(p) ==
    /\ p \in peers /\ Spend("disconnects") /\ UserCalls(Click("disconnect", p, Root))
    /\ UNCHANGED <<elsewhere, viewVars>>
\* The button is there until something is shown about the download.
ClickDownload(k) ==
    /\ k \in DOMAIN files /\ k[1] # Self /\ files[k].status = NoStatus /\ files[k].req = 0
    /\ Spend("downloads") /\ UserCalls(Click("download", k[1], k[2]))
    /\ UNCHANGED <<elsewhere, viewVars>>
ClickShare(path) ==
    /\ Spend("shares")
    /\ UserCalls(Click(IF path \in mine THEN "remove" ELSE "add", Self, path))
    /\ UNCHANGED <<elsewhere, viewVars>>
Expand(k) ==
    /\ k \in DOMAIN files /\ k[2] \in Dirs /\ Spend("listings")
    /\ UserAsks(Listing(k[1], k[2], FALSE))
    /\ UNCHANGED <<elsewhere, viewVars>>
Search ==
    /\ Spend("listings") /\ UserAsks(Listing(None, Root, TRUE))
    /\ UNCHANGED <<elsewhere, viewVars>>

-----------------------------------------------------------------------------
(* The interface: answers.  What it does with one has no await in it.      *)

programVars == <<backendVars, socket, left>>

\* All entries that come between the path and the path followed by "~".
Marked(fs, p, path) == {k \in DOMAIN fs : k[1] = p /\ IsPrefix(path, k[2])}
Latest(current, incoming) == incoming \* mutant
Merge(current, incoming) ==
    IF incoming.kind = "Requested" /\ current.kind \in {"Downloading", "Downloaded"}
       /\ current.req = incoming.req
    THEN current ELSE incoming
SetRequest(fs, k, r, new) == With(fs, k, IF k \in DOMAIN fs THEN [fs[k] EXCEPT !.req = r] ELSE new)
\* The list of requests is kept by time, which is 0 until it is known.
RequestIds == {x[2] : x \in requests}
ForgetFiles(p) == \* mutant
    /\ peers' = peers \ {p} /\ files' = WithoutPeer(files, p) /\ UNCHANGED results
ForgetPeer(p) ==
    /\ peers' = peers \ {p} /\ files' = WithoutPeer(files, p)
    /\ results' = {k \in results : k[1] # p}

StillPending(c) == \* mutant
    /\ c \in clicks /\ c.kind = "connect" /\ c.answer # "asked" /\ clicks' = clicks \ {c}
    /\ UNCHANGED <<programVars, events, listings, snapshots, viewVars, historyVars>>
ConnectAnswered(c) ==
    /\ c \in clicks /\ c.kind = "connect" /\ c.answer # "asked" /\ clicks' = clicks \ {c}
    /\ pending' = IF c.answer = "error" THEN pending \ {c.peer} ELSE pending
    /\ UNCHANGED <<programVars, events, listings, snapshots, peers, files, results, requests, historyVars>>

DisconnectAnswered(c) ==
    /\ c \in clicks /\ c.kind = "disconnect" /\ c.answer # "asked" /\ clicks' = clicks \ {c}
    /\ IF c.answer = "ok" THEN ForgetPeer(c.peer) ELSE UNCHANGED <<peers, files, results>>
    /\ excused' = IF c.answer = "ok" THEN excused \cup ({c.peer} \cap (listed \ closing)) ELSE excused
    /\ UNCHANGED <<programVars, events, listings, snapshots, pending, requests, missed, unsized>>

DownloadAnswered(c) ==
    /\ c \in clicks /\ c.kind = "download" /\ c.answer # "asked" /\ clicks' = clicks \ {c}
    /\ IF c.answer = "error" THEN UNCHANGED <<files, requests, unsized>>
       ELSE LET root == <<c.peer, c.path>>
                requested == Status("Requested", c.req)
                fs == SetRequest(files, root, c.req, Entry(Unknown, requested, c.req))
            IN  /\ files' = Over([k \in Marked(fs, c.peer, c.path) |-> [fs[k] EXCEPT !.status = requested]], fs)
                /\ requests' = IF c.req \in RequestIds THEN requests ELSE requests \cup {<<0, c.req>>}
                /\ unsized' = IF fs[root].size = Unknown THEN unsized \cup {c.req} ELSE unsized
    /\ UNCHANGED <<programVars, events, listings, snapshots, peers, pending, results, missed, excused>>

NotAskedAgain(c) == \* mutant
    /\ c \in clicks /\ c.kind \in {"add", "remove"} /\ c.answer # "asked" /\ clicks' = clicks \ {c}
    /\ UNCHANGED <<programVars, events, listings, snapshots, viewVars, historyVars>>
\* What is shared is asked for again.
ShareAnswered(c) ==
    /\ c \in clicks /\ c.kind \in {"add", "remove"} /\ c.answer # "asked" /\ clicks' = clicks \ {c}
    /\ listings' = listings \cup {Listing(Self, Root, FALSE)}
    /\ UNCHANGED <<programVars, events, snapshots, viewVars, historyVars>>

\* An answer to a listing is a stream of what each peer has found; a search forgets the
\* results of the last when its stream begins.
ListingAnswered(l) ==
    /\ l \in listings /\ l.answer \in {"ok", "error"}
    /\ listings' = (listings \ {l}) \cup
         {[l EXCEPT !.answer = "item", !.peer = p, !.found = {k \in @ : k[1] = p}] :
              p \in {k[1] : k \in l.found}}
    /\ results' = IF l.search /\ l.answer = "ok" THEN {} ELSE results
    /\ UNCHANGED <<programVars, events, clicks, snapshots, peers, pending, files, requests, historyVars>>

SizeAt(k) == Tree[k[1]][k[2]]
Insert(k) == Entry(SizeAt(k), NoStatus, 0)
Found(fs, k) == IF k \in DOMAIN fs THEN [fs[k] EXCEPT !.size = SizeAt(k)] ELSE Insert(k)
ListingItem(l) ==
    /\ l \in listings /\ l.answer = "item" /\ listings' = listings \ {l}
    /\ files' = IF l.peer = Self THEN Over(files, [k \in l.found |-> Insert(k)])
                ELSE Over([k \in l.found |-> Found(files, k)], files)
    /\ peers' = IF l.search \/ l.peer = Self THEN peers ELSE peers \cup {l.peer}
    /\ results' = IF l.search THEN results \cup l.found ELSE results
    /\ excused' = IF l.search \/ l.peer \in listed \cup {Self} THEN excused ELSE excused \cup {l.peer}
    /\ UNCHANGED <<programVars, events, clicks, snapshots, pending, requests, missed, unsized>>

\* Requests: every one is put in the list, on its entry and on all that follows its path.
RowStatus(row) == Status(IF row.done THEN "Downloaded" ELSE "Requested", row.req)
RequestShown(fs, row) ==
    LET p == wish[row.req].peer
        shown == SetRequest(fs, <<p, row.path>>, row.req, Entry(Total(row.req), RowStatus(row), row.req))
    IN  Over([k \in Marked(shown, p, row.path) |-> [shown[k] EXCEPT !.status = Merge(@, RowStatus(row))]], shown)
\* The requests up to r, in their order.
RequestsShown(fs, rows) ==
    LET upTo[r \in 0..MaxReq] ==
          IF r = 0 THEN fs
          ELSE IF \E row \in rows : row.req = r
          THEN RequestShown(upTo[r - 1], CHOOSE row \in rows : row.req = r) ELSE upTo[r - 1]
    IN  upTo[MaxReq]
RequestsAnswered(s) ==
    /\ s \in snapshots /\ s.req = 0 /\ s.answer = "ok"
    /\ files' = RequestsShown(files, s.rows)
    /\ requests' = requests \cup {<<1, row.req>> : row \in s.rows}
    /\ snapshots' = (snapshots \ {s}) \cup {Snapshot(row.req) : row \in s.rows}
    /\ unsized' = unsized \cup {row.req : row \in {x \in s.rows : files'[<<wish[x.req].peer, x.path>>].size = Unknown}}
    /\ UNCHANGED <<programVars, events, clicks, listings, peers, pending, results, missed, excused>>

RequestedFile(fs, k, row) ==
    IF k \in DOMAIN fs
    THEN [fs[k] EXCEPT !.size = SizeAt(k), !.status = Merge(@, RowStatus(row))]
    ELSE Entry(SizeAt(k), RowStatus(row), 0)
RequestedFilesAnswered(s) ==
    /\ s \in snapshots /\ s.req # 0 /\ s.answer = "ok" /\ snapshots' = snapshots \ {s}
    /\ files' = LET p == wish[s.req].peer
                    rowOf(k) == CHOOSE row \in s.rows : row.path = k[2]
                IN  Over([k \in {<<p, row.path>> : row \in s.rows} |-> RequestedFile(files, k, rowOf(k))], files)
    /\ UNCHANGED <<programVars, events, clicks, listings, peers, pending, results, requests, historyVars>>

-----------------------------------------------------------------------------
(* The interface: events.                                                  *)

Delivered(kind) == events # <<>> /\ Head(events).kind = kind /\ events' = Tail(events)

ConnectedDelivered ==
    /\ Delivered("connected")
    /\ LET p == Head(events).peer
       IN  /\ peers' = peers \cup {p} /\ pending' = pending \ {p} /\ excused' = excused \ {p}
           /\ listings' = listings \cup {Listing(p, Root, FALSE)}
    /\ UNCHANGED <<programVars, clicks, snapshots, files, results, requests, missed, unsized>>

DisconnectedDelivered ==
    /\ Delivered("disconnected") /\ ForgetPeer(Head(events).peer)
    /\ excused' = excused \ {Head(events).peer}
    /\ UNCHANGED <<programVars, callVars, pending, requests, missed, unsized>>

FailedDelivered ==
    /\ Delivered("failed")
    /\ LET p == Head(events).peer
       IN  /\ pending' = pending \ {p} /\ peers' = peers \ {p}
           /\ excused' = excused \cup ({p} \cap listed)
    /\ UNCHANGED <<programVars, callVars, files, results, requests, missed, unsized>>

\* A file is done when as much is read as it is known to be long; so is its request.
Shows(e, read, enough) == Status(IF enough THEN "Downloaded" ELSE "Downloading", e.req)
FileShown(fs, e) ==
    LET k == <<e.peer, e.path>>
    IN  With(fs, k, IF k \in DOMAIN fs
                    THEN [fs[k] EXCEPT !.status = Shows(e, e.bytes, e.bytes = OrZero(fs[k].size))]
                    ELSE Entry(Unknown, Status("Downloading", e.req), 0))
RootShown(fs, e) ==
    [k \in DOMAIN fs |-> IF fs[k].req # e.req THEN fs[k]
        ELSE [fs[k] EXCEPT !.status = Shows(e, e.total, e.total >= OrZero(fs[k].size))]]
DownloadingDelivered ==
    /\ Delivered("downloading")
    /\ LET e == Head(events)
           fs == FileShown(files, e)
       IN  /\ files' = RootShown(fs, e)
           /\ unsized' = IF fs[<<e.peer, e.path>>].size = Unknown THEN unsized \cup {e.req} ELSE unsized
    /\ UNCHANGED <<programVars, callVars, peers, pending, results, requests, missed, excused>>

CompletedDelivered ==
    /\ Delivered("completed")
    /\ LET e == Head(events)
           k == <<e.peer, e.path>>
       IN  files' = IF k \in DOMAIN files THEN [files EXCEPT ![k].status = Status("Downloaded", e.req)]
                    ELSE files
    /\ UNCHANGED <<programVars, callVars, peers, pending, results, requests, historyVars>>

-----------------------------------------------------------------------------
Program ==
    \/ \E c \in clicks : ServeConnect(c) \/ ServeDisconnect(c) \/ ServeDownload(c) \/ ServeShare(c)
    \/ \E p \in Peer : DialEnds(p) \/ Teardown(p) \/ BeginFile(p) \/ ReceiveBlock(p) \/ FileEnds(p)
    \/ \E l \in listings : ServeListing(l)
    \/ \E s \in snapshots : ServeSnapshot(s)
    \/ SocketOpens
View ==
    \/ \E c \in clicks : ConnectAnswered(c) \/ DisconnectAnswered(c) \/ DownloadAnswered(c) \/ ShareAnswered(c)
    \/ \E l \in listings : ListingAnswered(l) \/ ListingItem(l)
    \/ \E s \in snapshots : RequestsAnswered(s) \/ RequestedFilesAnswered(s)
    \/ ConnectedDelivered \/ DisconnectedDelivered \/ FailedDelivered
    \/ DownloadingDelivered \/ CompletedDelivered
User ==
    \/ \E p \in Peer : ClickConnect(p) \/ ClickDisconnect(p)
    \/ \E k \in DOMAIN files : ClickDownload(k) \/ Expand(k)
    \/ \E path \in DOMAIN Tree[Self] : ClickShare(path)
    \/ Search
Network == SocketCloses \/ \E p \in Peer : PeerConnects(p) \/ ConnectionLost(p)

Next == Program \/ View \/ User \/ Network

Spec == Init /\ [][Next]_vars

-----------------------------------------------------------------------------
(* Properties.                                                             *)

\* Results of a search can be shown, and every request an entry belongs to is listed as
\* one: what is taken away when a peer leaves is taken away from all lists.
ListsShown ==
    /\ results \subseteq DOMAIN files
    /\ \A k \in DOMAIN files : files[k].req \in RequestIds \cup {0}

\* What is shown as downloaded has been received, all of it, however answers and events
\* are mixed (requests whose size was not known when they were shown are excepted: they
\* are shown as downloaded with the first block).
ShownDownloadedIsReceived ==
    \A k \in DOMAIN files :
        LET r == files[k].status.req
        IN  /\ files[k].status.kind = "Downloaded" /\ r \notin unsized
            /\ Within(wish[r].path, k[2])
            => \A f \in FilesOf(k[1], k[2]) : wish[r].got[f] = Tree[k[1]][f]

\* An answer about requests was true when it was made and is shown later: it never takes
\* back what events have shown of the same request since (if no other request is for
\* the same file: each of two is shown over the other).
Rank == [Nothing |-> 0, Requested |-> 1, Downloading |-> 2, Downloaded |-> 3]
Covering(k) == {r \in DOMAIN wish : wish[r].peer = k[1] /\ IsPrefix(wish[r].path, k[2])}
SnapshotsOnlyAdvance ==
    [][events' = events /\ clicks' = clicks =>
         \A k \in DOMAIN files \cap DOMAIN files' :
            Cardinality(Covering(k)) = 1 =>
                Rank[files[k].status.kind] <= Rank[files'[k].status.kind]]_vars

\* When nothing is on its way and no event was lost, the peers shown are those that are
\* connected, and all that is shared is shown.  Excused are peers an answer or a failed
\* dial spoke of that came after the event it belongs before.
Quiet == events = <<>> /\ clicks = {} /\ listings = {} /\ dialling = {} /\ closing = {}
ViewAgrees ==
    Quiet => /\ ~missed => \A p \in Peer \ excused : p \in peers <=> p \in listed
             /\ \A path \in mine : <<Self, path>> \in DOMAIN files

\* Then no peer is still shown as being connected to, except those expected to dial: every
\* dial that was asked for was answered, by an error, an event or a connection.
DialsShownEnded == Quiet /\ ~missed => pending \subseteq waiting
=============================================================================
