---------------------------- MODULE Connections ----------------------------
(***************************************************************************)
(* The connection manager of one node (src/src/connections/mod.rs with the *)
(* parts of SharedState it works on, src/src/lib.rs).                      *)
(*                                                                         *)
(* Every connect, disconnect, dial and connection runs as its own task on  *)
(* a multi-threaded executor, and the tasks share four structures, each    *)
(* under its own lock: the peer table, the set of manually disconnected    *)
(* peers, the set of pending outbound dials and the shutdown flag.  No     *)
(* task holds two locks at once, so one action is the stretch of a task    *)
(* from one lock (or await) to the next, and tasks interleave between them.*)
(*                                                                         *)
(* The remote peers, the network and the NAT decision are the environment: *)
(* connections appear, fail and close at any moment.                       *)
(***************************************************************************)
EXTENDS Naturals, Sequences, FiniteSets

CONSTANTS
    Peer,            \* names of the remote peers
    Conn,            \* QUIC connections (stable ids), each used once
    Req,             \* calls made through the user interface, each made once
    Dial,            \* slots for concurrent outbound connect tasks
    Known,           \* peers on file, known_peers
    Answers,         \* Answers[p]: peers that may answer at the address of p
    MaxAttempts,     \* RECONNECT_MAX_ATTEMPTS
    Calls,           \* bound: the kinds of calls the user interface makes
    MaxExternal,     \* bound: gossiped and mDNS discoveries
    MaxBadRequests,  \* bound: requests that end an accept loop
    SharedEndpoint,  \* TRUE: ServerConnection::WithEndpoint, FALSE: Symmetric
    None             \* Rust's Option::None

ASSUME ConnectionsAssumption ==
    /\ None \notin Peer \cup Conn \cup Req \cup Dial
    /\ Conn \cap Req = {}
    /\ Known \subseteq Peer
    /\ Answers \in [Peer -> SUBSET Peer]
    /\ MaxAttempts \in Nat \ {0}
    /\ Calls \subseteq {"connect", "disconnect", "shutdown"}
    /\ MaxExternal \in Nat
    /\ MaxBadRequests \in Nat
    /\ SharedEndpoint \in BOOLEAN

VARIABLES
    \* SharedState
    peers,           \* the peer table: the connection listed for each name
    peerAddr,        \* name in the announce address of the table's entry
    manual,          \* manually_disconnected_peers
    pending,         \* pending_outbound_connections
    shuttingDown,    \* the flag shutting_down
    \* the announce loop of PeerDiscovery
    announceQ,       \* peer_announce channel
    handling,        \* the announcement being handled, or None
    reply,           \* the oneshot channel of each connect_to_peer call
    waiting,         \* pending_peer_connections: peers expected to dial us
    discovered,      \* peers channel: peers we are to dial
    \* the loop Hdp::run, and what shutting down involves
    runPc, runAddr, startup,
    shutSignal, shutSnapshot, endpointUp,
    \* spawn_outbound_connect tasks
    dialPc, dialName, dialTries,
    \* handle_connection tasks
    connPc, connPeer, connAddr, connOpen,
    told,            \* connections each has still to tell of its peer
    \* user interface calls
    reqPc, reqPeer, reqConn,
    \* the peers the web interface shows as connected
    uiPeers,
    \* counters behind the bounds
    external, badRequests

tableVars == <<peers, peerAddr>>
boundVars == <<external, badRequests>>
sharedVars == <<tableVars, manual, pending, shuttingDown, uiPeers, boundVars>>
announceVars == <<announceQ, handling, reply>>
discoveryVars == <<waiting, discovered>>
runVars == <<runPc, runAddr, startup>>
shutVars == <<shutSignal, shutSnapshot, endpointUp>>
dialVars == <<dialPc, dialName, dialTries>>
connVars == <<connPc, connPeer, connAddr, connOpen, told>>
reqVars == <<reqPc, reqPeer, reqConn>>
vars == <<sharedVars, announceVars, discoveryVars, runVars, shutVars, dialVars,
          connVars, reqVars>>

\* What a task of one kind never touches: the state of the other tasks.
notRun == <<announceVars, dialVars, connVars, reqVars>>
notDial == <<announceVars, discoveryVars, runVars, shutVars, connVars, reqVars>>
notConn == <<discoveryVars, runVars, shutVars, dialVars, reqVars>>
notReq == <<discoveryVars, runVars, dialVars>>

\* The shared state but for one part of it.
exceptTable == <<manual, pending, shuttingDown, uiPeers, boundVars>>
exceptManual == <<tableVars, pending, shuttingDown, uiPeers, boundVars>>
exceptPending == <<tableVars, manual, shuttingDown, uiPeers, boundVars>>
exceptUi == <<tableVars, manual, pending, shuttingDown, boundVars>>

Caller == Conn \cup Req
Announcement == [name : Peer, from : Caller \cup {None}]

\* Phases of a handle_connection task.  While Handled it has inserted the
\* connection in the table and has not yet run its teardown.
Handled == {"unflag", "announce", "serve", "teardown"}
Ended == {"report", "decide", "reconnect", "await", "done"}
ConnPhase == {"unused", "checkManual", "install"} \cup Handled \cup Ended

\* Phases of a dial task.  While Holding its name is in pending.
Holding == {"connect", "connected", "failed"}
DialPhase == {"idle", "checkPending", "checkPeers", "reserve", "report"} \cup Holding

SharedTypes ==
    /\ peers \in [Peer -> Conn \cup {None}]
    /\ peerAddr \in [Peer -> Peer \cup {None}]
    /\ manual \in SUBSET Peer
    /\ pending \in SUBSET Peer
    /\ shuttingDown \in BOOLEAN
    /\ uiPeers \in SUBSET Peer
    /\ external \in 0..MaxExternal
    /\ badRequests \in 0..MaxBadRequests

AnnounceTypes ==
    /\ announceQ \in Seq(Announcement)
    /\ handling \in Announcement \cup {None}
    /\ reply \in [Caller -> {"none", "ok", "err"}]

DiscoveryTypes ==
    /\ waiting \in SUBSET Peer
    /\ discovered \in Seq(Peer)

RunTypes ==
    /\ runPc \in {"startup", "select", "handshake", "shutdown", "drain"}
    /\ runAddr \in Peer \cup {None}
    /\ startup \in SUBSET Peer

ShutTypes ==
    /\ shutSignal \in BOOLEAN
    /\ shutSnapshot \in SUBSET Conn
    /\ endpointUp \in BOOLEAN

DialTypes ==
    /\ dialPc \in [Dial -> DialPhase]
    /\ dialName \in [Dial -> Peer \cup {None}]
    /\ dialTries \in [Dial -> 0..MaxAttempts]

ConnTypes ==
    /\ connPc \in [Conn -> ConnPhase]
    /\ connPeer \in [Conn -> Peer \cup {None}]
    /\ connAddr \in [Conn -> Peer \cup {None}]
    /\ connOpen \in [Conn -> BOOLEAN]
    /\ told \in [Conn -> SUBSET Conn]

ReqTypes ==
    /\ reqPc \in [Req -> {"idle", "await", "connected", "flag", "close",
                          "disconnected", "signal", "done"}]
    /\ reqPeer \in [Req -> Peer \cup {None}]
    /\ reqConn \in [Req -> Conn \cup {None}]

TypeOK == /\ SharedTypes /\ AnnounceTypes /\ DiscoveryTypes /\ RunTypes
          /\ ShutTypes /\ DialTypes /\ ConnTypes /\ ReqTypes

Init ==
    /\ peers = [p \in Peer |-> None]
    /\ peerAddr = [p \in Peer |-> None]
    /\ manual = {}
    /\ pending = {}
    /\ shuttingDown = FALSE
    /\ announceQ = <<>>
    /\ handling = None
    /\ waiting = {}
    /\ reply = [t \in Caller |-> "none"]
    /\ runPc = "startup"
    /\ runAddr = None
    /\ startup \in SUBSET Known     \* known peers that are not behind a NAT
    /\ discovered = <<>>
    /\ shutSignal = FALSE
    /\ shutSnapshot = {}
    /\ endpointUp = TRUE
    /\ dialPc = [d \in Dial |-> "idle"]
    /\ dialName = [d \in Dial |-> None]
    /\ dialTries = [d \in Dial |-> 0]
    /\ connPc = [c \in Conn |-> "unused"]
    /\ connPeer = [c \in Conn |-> None]
    /\ connAddr = [c \in Conn |-> None]
    /\ connOpen = [c \in Conn |-> FALSE]
    /\ told = [c \in Conn |-> {}]
    /\ reqPc = [r \in Req |-> "idle"]
    /\ reqPeer = [r \in Req |-> None]
    /\ reqConn = [r \in Req |-> None]
    /\ uiPeers = {}
    /\ external = 0
    /\ badRequests = 0

-----------------------------------------------------------------------------
(* The announce loop: one announcement at a time *)

Announce(p, t) == announceQ' = Append(announceQ, [name |-> p, from |-> t])

\* Mutant: an error is logged and not sent back.
RespondIfOk(t, answer) ==
    reply' = IF t = None \/ answer = "err" THEN reply
             ELSE [reply EXCEPT ![t] = answer]

Respond(t, answer) ==
    reply' = IF t = None THEN reply ELSE [reply EXCEPT ![t] = answer]

\* An announcement of a peer that is in the table is refused.
HandleAnnouncement ==
    /\ handling = None
    /\ announceQ # <<>>
    /\ announceQ' = Tail(announceQ)
    /\ IF peers[Head(announceQ).name] # None
       THEN /\ Respond(Head(announceQ).from, "err")
            /\ UNCHANGED handling
       ELSE /\ handling' = Head(announceQ)
            /\ UNCHANGED reply
    /\ UNCHANGED <<sharedVars, discoveryVars, runVars, shutVars, dialVars,
                   connVars, reqVars>>

\* handle_peer has decided, after any hole punching: we dial, they dial, or it
\* failed.
ResolveAnnouncement ==
    /\ handling # None
    /\ handling' = None
    /\ \/ /\ discovered' = Append(discovered, handling.name)
          /\ Respond(handling.from, "ok")
          /\ UNCHANGED waiting
       \/ /\ waiting' = waiting \cup {handling.name}
          /\ Respond(handling.from, "ok")
          /\ UNCHANGED discovered
       \/ /\ Respond(handling.from, "err")
          /\ UNCHANGED discoveryVars
    /\ UNCHANGED <<sharedVars, announceQ, runVars, shutVars, dialVars, connVars,
                   reqVars>>

\* mDNS finds a peer on the local network that we are the one to dial.
DiscoverLocally(p) ==
    /\ external < MaxExternal
    /\ external' = external + 1
    /\ discovered' = Append(discovered, p)
    /\ UNCHANGED <<tableVars, manual, pending, shuttingDown, uiPeers,
                   badRequests, waiting, runVars, shutVars, notRun>>

-----------------------------------------------------------------------------
(* spawn_outbound_connect *)

SpawnDial(d, p) ==
    /\ dialPc[d] = "idle"
    /\ dialPc' = [dialPc EXCEPT ![d] = "checkPending"]
    /\ dialName' = [dialName EXCEPT ![d] = p]
    /\ UNCHANGED dialTries

DialGoto(d, phase) ==
    /\ dialPc' = [dialPc EXCEPT ![d] = phase]
    /\ UNCHANGED <<dialName, dialTries>>

EndDial(d) ==
    /\ dialPc' = [dialPc EXCEPT ![d] = "idle"]
    /\ dialName' = [dialName EXCEPT ![d] = None]
    /\ dialTries' = [dialTries EXCEPT ![d] = 0]

\* begin_outbound_connect takes two locks three times, one after another.
CheckPending(d) ==
    /\ dialPc[d] = "checkPending"
    /\ IF dialName[d] \in pending THEN EndDial(d) ELSE DialGoto(d, "checkPeers")
    /\ UNCHANGED <<sharedVars, notDial>>

CheckPeers(d) ==
    /\ dialPc[d] = "checkPeers"
    /\ IF peers[dialName[d]] # None THEN EndDial(d) ELSE DialGoto(d, "reserve")
    /\ UNCHANGED <<sharedVars, notDial>>

\* Mutant: no second look at the set when reserving.
ReserveUnchecked(d) == TRUE

MayReserve(d) == dialName[d] \notin pending

Reserve(d) ==
    /\ dialPc[d] = "reserve"
    /\ IF MayReserve(d)
       THEN /\ pending' = pending \cup {dialName[d]}
            /\ DialGoto(d, "connect")
       ELSE /\ EndDial(d)
            /\ UNCHANGED pending
    /\ UNCHANGED <<exceptPending, notDial>>

\* handle_connection spawns the task of connection c with peer q, known by
\* the announce address of a (None when it came in unexpectedly).
SpawnConnection(c, q, a) ==
    /\ connPc[c] = "unused"
    /\ connPc' = [connPc EXCEPT ![c] = "checkManual"]
    /\ connPeer' = [connPeer EXCEPT ![c] = q]
    /\ connAddr' = [connAddr EXCEPT ![c] = a]
    /\ connOpen' = [connOpen EXCEPT ![c] = TRUE]
    /\ UNCHANGED told

\* A closed endpoint starts no connection; a symmetric node makes a new
\* endpoint for each dial.
CanDial == endpointUp \/ ~SharedEndpoint

DialSucceeds(d, c, q) ==
    /\ dialPc[d] = "connect"
    /\ CanDial
    /\ q \in Answers[dialName[d]]
    /\ SpawnConnection(c, q, dialName[d])
    /\ DialGoto(d, "connected")
    /\ UNCHANGED <<sharedVars, announceVars, discoveryVars, runVars, shutVars,
                   reqVars>>

\* Mutant: one attempt too many.
TryOnceMore(d) == dialTries[d] + 1 <= MaxAttempts /\ CanDial

\* connect_with_backoff: try again until MaxAttempts, or until the endpoint
\* refuses to start a connection.
TryAgain(d) == dialTries[d] + 1 < MaxAttempts /\ CanDial

DialFails(d) ==
    /\ dialPc[d] = "connect"
    /\ dialTries' = [dialTries EXCEPT ![d] = @ + 1]
    /\ dialPc' = [dialPc EXCEPT ![d] = IF TryAgain(d) THEN "connect" ELSE "failed"]
    /\ UNCHANGED <<sharedVars, dialName, notDial>>

\* Mutant: an error returns before the name is taken out of pending.
ReleaseOnSuccess(d) ==
    pending' = IF dialPc[d] = "failed" THEN pending ELSE pending \ {dialName[d]}

Release(d) == pending' = pending \ {dialName[d]}

EndConnect(d) ==
    /\ dialPc[d] \in {"connected", "failed"}
    /\ Release(d)
    /\ IF dialPc[d] = "failed" THEN DialGoto(d, "report") ELSE EndDial(d)
    /\ UNCHANGED <<exceptPending, notDial>>

\* The event PeerConnectionFailed, on which the web interface drops the peer.
ReportDialFailure(d) ==
    /\ dialPc[d] = "report"
    /\ EndDial(d)
    /\ uiPeers' = uiPeers \ {dialName[d]}
    /\ UNCHANGED <<exceptUi, notDial>>

-----------------------------------------------------------------------------
(* handle_connection, one action per lock *)

Goto(c, phase) ==
    /\ connPc' = [connPc EXCEPT ![c] = phase]
    /\ UNCHANGED <<connPeer, connAddr, connOpen, told>>

CloseRefused(c) ==
    /\ connPc' = [connPc EXCEPT ![c] = "done"]
    /\ connOpen' = [connOpen EXCEPT ![c] = FALSE]
    /\ UNCHANGED <<connPeer, connAddr, told>>

\* The connection of a manually disconnected peer is closed at once.
CheckManual(c) ==
    /\ connPc[c] = "checkManual"
    /\ IF connPeer[c] \in manual THEN CloseRefused(c) ELSE Goto(c, "install")
    /\ UNCHANGED <<sharedVars, announceVars, notConn>>

OpenEntry(p) == peers[p] # None /\ connOpen[peers[p]]

\* Mutant: the newest connection always wins.
NewestWins(c) == TRUE

\* A live connection in the table wins over a new one; a closed one is replaced.
MayInstall(c) == ~OpenEntry(connPeer[c])

RejectDuplicate(c) ==
    /\ connPc[c] = "install"
    /\ ~MayInstall(c)
    /\ CloseRefused(c)
    /\ UNCHANGED <<sharedVars, announceVars, notConn>>

\* Mutant: the entry goes under the name that was announced.
AnnouncedName(c) == IF connAddr[c] = None THEN connPeer[c] ELSE connAddr[c]

\* The entry goes under the name in the certificate.
EntryName(c) == connPeer[c]

\* The connections of the other peers in the table.
Others(p) == {peers[q] : q \in Peer \ {p}} \ {None}

\* A peer known by an address is announced to those in the table.
Install(c) ==
    /\ connPc[c] = "install"
    /\ MayInstall(c)
    /\ peers' = [peers EXCEPT ![EntryName(c)] = c]
    /\ peerAddr' = [peerAddr EXCEPT ![EntryName(c)] = connAddr[c]]
    /\ connPc' = [connPc EXCEPT ![c] = "unflag"]
    /\ told' = [told EXCEPT ![c] = IF connAddr[c] = None THEN {}
                                   ELSE Others(connPeer[c])]
    /\ UNCHANGED <<connPeer, connAddr, connOpen>>
    /\ UNCHANGED <<exceptTable, announceVars, notConn>>

ClearManual(c) ==
    /\ connPc[c] = "unflag"
    /\ manual' = manual \ {connPeer[c]}
    /\ Goto(c, "announce")
    /\ UNCHANGED <<exceptManual, announceVars, notConn>>

\* open_bi and write_all on the connection of another peer.  There is no timeout:
\* the task waits until that peer takes the announcement or its connection closes.
Tell(c, d) ==
    /\ connPc[c] \in {"announce", "serve"}
    /\ d \in told[c]
    /\ told' = [told EXCEPT ![c] = @ \ {d}]
    /\ UNCHANGED <<connPc, connPeer, connAddr, connOpen, sharedVars, announceVars,
                   notConn>>

\* Mutant: an announcement that cannot be sent ends the task.
ReturnIfSendFails(c) ==
    /\ connPc[c] = "announce"
    /\ told[c] = {}
    /\ Goto(c, IF connOpen[c] THEN "serve" ELSE "done")
    /\ uiPeers' = uiPeers \cup {connPeer[c]}
    /\ UNCHANGED <<exceptUi, announceVars, notConn>>

\* The announcements about the peer, and those to it, are sent; then the user is
\* told.
ReportConnected(c) ==
    /\ connPc[c] = "announce"
    /\ told[c] = {}
    /\ Goto(c, "serve")
    /\ uiPeers' = uiPeers \cup {connPeer[c]}
    /\ UNCHANGED <<exceptUi, announceVars, notConn>>

\* Requests, handled one at a time in the accept loop: a peer announces itself,
\* which is relayed to the others, or gossips about another peer.  A request that
\* arrived whole is still served after the connection has closed.
ServeSelfAnnouncement(c) ==
    /\ connPc[c] = "serve"
    /\ told[c] = {}
    /\ peerAddr' = IF peers[connPeer[c]] = None THEN peerAddr
                   ELSE [peerAddr EXCEPT ![connPeer[c]] = connPeer[c]]
    /\ told' = [told EXCEPT ![c] = Others(connPeer[c])]
    /\ UNCHANGED <<connPc, connPeer, connAddr, connOpen, peers, exceptTable,
                   announceVars, notConn>>

ServeGossip(c, p) ==
    /\ connPc[c] = "serve"
    /\ told[c] = {}
    /\ p # connPeer[c]
    /\ external < MaxExternal
    /\ external' = external + 1
    /\ Announce(p, None)
    /\ UNCHANGED <<tableVars, manual, pending, shuttingDown, uiPeers,
                   badRequests, handling, reply, connVars, notConn>>

\* Mutant: any error of a stream ends the loop, not only that of the connection.
LoopEndsOnAnyError(c) ==
    /\ connPc[c] = "serve"
    /\ told[c] = {}
    /\ Goto(c, "teardown")
    /\ UNCHANGED <<sharedVars, announceVars, notConn>>

AcceptLoopEnds(c) ==
    /\ connPc[c] = "serve"
    /\ told[c] = {}
    /\ ~connOpen[c]
    /\ Goto(c, "teardown")
    /\ UNCHANGED <<sharedVars, announceVars, notConn>>

\* A request above MAX_REQUEST_SIZE also ends the accept loop.  Nobody closes
\* the connection: the download worker of the peer still holds it.
BadRequest(c) ==
    /\ connPc[c] = "serve"
    /\ told[c] = {}
    /\ connOpen[c]
    /\ badRequests < MaxBadRequests
    /\ badRequests' = badRequests + 1
    /\ Goto(c, "teardown")
    /\ UNCHANGED <<tableVars, manual, pending, shuttingDown, uiPeers, external,
                   announceVars, notConn>>

\* Mutant: the teardown forgets to compare the stable ids.
OwnsSomeEntry(c) == peers[connPeer[c]] # None

OwnsEntry(c) == peers[connPeer[c]] = c

\* Only the task whose connection is listed removes the entry.
Teardown(c) ==
    /\ connPc[c] = "teardown"
    /\ IF OwnsEntry(c)
       THEN /\ peers' = [peers EXCEPT ![connPeer[c]] = None]
            /\ peerAddr' = [peerAddr EXCEPT ![connPeer[c]] = None]
            /\ connAddr' = [connAddr EXCEPT ![c] =
                              IF @ = None THEN peerAddr[connPeer[c]] ELSE @]
            /\ connPc' = [connPc EXCEPT ![c] = "report"]
            /\ UNCHANGED <<connPeer, connOpen, told>>
       ELSE /\ Goto(c, "done")
            /\ UNCHANGED tableVars
    /\ UNCHANGED <<exceptTable, announceVars, notConn>>

ReportDisconnected(c) ==
    /\ connPc[c] = "report"
    /\ Goto(c, "decide")
    /\ uiPeers' = uiPeers \ {connPeer[c]}
    /\ UNCHANGED <<exceptUi, announceVars, notConn>>

DecideReconnect(c) ==
    /\ connPc[c] = "decide"
    /\ Goto(c, IF shuttingDown \/ connPeer[c] \in manual \/ connAddr[c] = None
               THEN "done" ELSE "reconnect")
    /\ UNCHANGED <<sharedVars, announceVars, notConn>>

\* SharedState::connect_to_peer, called by the task for the address it knows.
Reconnect(c) ==
    /\ connPc[c] = "reconnect"
    /\ IF shuttingDown
       THEN /\ Goto(c, "done")
            /\ UNCHANGED announceQ
       ELSE /\ Announce(connAddr[c], c)
            /\ Goto(c, "await")
    /\ UNCHANGED <<sharedVars, handling, reply, notConn>>

\* On success connect_to_peer lifts the manual flag of the peer it named.
LiftManual(t, p) ==
    manual' = IF reply[t] = "ok" THEN manual \ {p} ELSE manual

ReconnectAnswered(c) ==
    /\ connPc[c] = "await"
    /\ reply[c] # "none"
    /\ LiftManual(c, connAddr[c])
    /\ Goto(c, "done")
    /\ UNCHANGED <<exceptManual, announceVars, notConn>>

\* The remote peer closes the connection, or it times out.
ConnectionLost(c) ==
    /\ connOpen[c]
    /\ connOpen' = [connOpen EXCEPT ![c] = FALSE]
    /\ UNCHANGED <<sharedVars, announceVars, connPc, connPeer, connAddr, told,
                   notConn>>

-----------------------------------------------------------------------------
(* The loop Hdp::run *)

\* Known peers are dialled before the loop starts.
DialKnownPeer(d, p) ==
    /\ runPc = "startup"
    /\ p \in startup
    /\ startup' = startup \ {p}
    /\ SpawnDial(d, p)
    /\ UNCHANGED <<sharedVars, announceVars, discoveryVars, runPc, runAddr,
                   shutVars, connVars, reqVars>>

EnterLoop ==
    /\ runPc = "startup"
    /\ startup = {}
    /\ runPc' = "select"
    /\ UNCHANGED <<sharedVars, discoveryVars, runAddr, startup, shutVars,
                   notRun>>

DialDiscovered(d) ==
    /\ runPc = "select"
    /\ discovered # <<>>
    /\ discovered' = Tail(discovered)
    /\ SpawnDial(d, Head(discovered))
    /\ UNCHANGED <<sharedVars, announceVars, waiting, runVars, shutVars,
                   connVars, reqVars>>

\* get_pending_peer consumes the expectation before the handshake is known to
\* succeed; the loop does nothing else until the handshake ends.
Incoming(a) ==
    /\ runPc = "select"
    /\ SharedEndpoint
    /\ a \in waiting \cup {None}
    /\ waiting' = waiting \ {a}
    /\ runAddr' = a
    /\ runPc' = "handshake"
    /\ UNCHANGED <<sharedVars, discovered, startup, shutVars, notRun>>

HandshakeSucceeds(c, q) ==
    /\ runPc = "handshake"
    /\ runAddr # None => q \in Answers[runAddr]
    /\ SpawnConnection(c, q, runAddr)
    /\ runPc' = "select"
    /\ runAddr' = None
    /\ UNCHANGED <<sharedVars, announceVars, discoveryVars, startup, shutVars,
                   dialVars, reqVars>>

\* The event PeerConnectionFailed, if the peer is known by its address.
HandshakeFails ==
    /\ runPc = "handshake"
    /\ runPc' = "select"
    /\ runAddr' = None
    /\ uiPeers' = uiPeers \ {runAddr}
    /\ UNCHANGED <<exceptUi, discoveryVars, startup, shutVars, notRun>>

\* The shutdown signal: take the listed connections, close them, close the
\* endpoint and with it every connection made on it.
BeginShutdown ==
    /\ runPc = "select"
    /\ shutSignal
    /\ shutSignal' = FALSE
    /\ shutSnapshot' = {peers[p] : p \in Peer} \ {None}
    /\ runPc' = "shutdown"
    /\ UNCHANGED <<sharedVars, discoveryVars, runAddr, startup, endpointUp,
                   notRun>>

\* Mutant: the listed connections are closed and the endpoint's others are not.
ClosesListed(c) == c \in shutSnapshot

Closes(c) == c \in shutSnapshot \/ SharedEndpoint

\* The loop then only waits for the endpoint to be idle and returns, which ends
\* the process.
CloseConnections ==
    /\ runPc = "shutdown"
    /\ runPc' = "drain"
    /\ endpointUp' = ~SharedEndpoint
    /\ connOpen' = [c \in Conn |-> connOpen[c] /\ ~Closes(c)]
    /\ shutSnapshot' = {}
    /\ UNCHANGED <<sharedVars, announceVars, discoveryVars, runAddr, startup,
                   shutSignal, dialVars, connPc, connPeer, connAddr, told,
                   reqVars>>

-----------------------------------------------------------------------------
(* Calls of the user interface *)

ReqGoto(r, phase) == reqPc' = [reqPc EXCEPT ![r] = phase]

CallConnect(r, p) ==
    /\ "connect" \in Calls
    /\ reqPc[r] = "idle"
    /\ reqPeer' = [reqPeer EXCEPT ![r] = p]
    /\ IF shuttingDown
       THEN /\ ReqGoto(r, "done")
            /\ UNCHANGED announceQ
       ELSE /\ ReqGoto(r, "await")
            /\ Announce(p, r)
    /\ UNCHANGED <<sharedVars, handling, reply, shutVars, connVars, reqConn,
                   notReq>>

ConnectAnswered(r) ==
    /\ reqPc[r] = "await"
    /\ reply[r] # "none"
    /\ LiftManual(r, reqPeer[r])
    /\ ReqGoto(r, IF reply[r] = "ok" THEN "connected" ELSE "done")
    /\ UNCHANGED <<exceptManual, announceVars, shutVars, connVars, reqPeer,
                   reqConn, notReq>>

\* disconnect_peer: look the connection up, set the flag, close it.
CallDisconnect(r, p) ==
    /\ "disconnect" \in Calls
    /\ reqPc[r] = "idle"
    /\ reqPeer' = [reqPeer EXCEPT ![r] = p]
    /\ reqConn' = [reqConn EXCEPT ![r] = peers[p]]
    /\ ReqGoto(r, IF peers[p] = None THEN "done" ELSE "flag")
    /\ UNCHANGED <<sharedVars, announceVars, shutVars, connVars, notReq>>

SetManual(r) ==
    /\ reqPc[r] = "flag"
    /\ manual' = manual \cup {reqPeer[r]}
    /\ ReqGoto(r, "close")
    /\ UNCHANGED <<exceptManual, announceVars, shutVars, connVars, reqPeer,
                   reqConn, notReq>>

CloseDisconnected(r) ==
    /\ reqPc[r] = "close"
    /\ connOpen' = [connOpen EXCEPT ![reqConn[r]] = FALSE]
    /\ ReqGoto(r, "disconnected")
    /\ UNCHANGED <<sharedVars, announceVars, shutVars, connPc, connPeer,
                   connAddr, told, reqPeer, reqConn, notReq>>

\* shut_down: set the flag, flush the database, signal the run loop.  If an
\* earlier signal is still in the channel the process exits there and then.
CallShutDown(r) ==
    /\ "shutdown" \in Calls
    /\ reqPc[r] = "idle"
    /\ shuttingDown' = TRUE
    /\ ReqGoto(r, "signal")
    /\ UNCHANGED <<tableVars, manual, pending, uiPeers, boundVars, announceVars,
                   shutVars, connVars, reqPeer, reqConn, notReq>>

SignalShutDown(r) ==
    /\ reqPc[r] = "signal"
    /\ ~shutSignal
    /\ ReqGoto(r, "done")
    /\ shutSignal' = TRUE
    /\ UNCHANGED <<sharedVars, announceVars, shutSnapshot, endpointUp, connVars,
                   reqPeer, reqConn, notReq>>

-----------------------------------------------------------------------------
AnnounceStep == HandleAnnouncement \/ ResolveAnnouncement

DialStep(d) ==
    \/ CheckPending(d) \/ CheckPeers(d) \/ Reserve(d)
    \/ \E c \in Conn, q \in Peer : DialSucceeds(d, c, q)
    \/ DialFails(d) \/ EndConnect(d) \/ ReportDialFailure(d)

\* The steps a connection task takes by itself, without waiting for a peer.
TaskStep(c) ==
    \/ CheckManual(c) \/ RejectDuplicate(c) \/ Install(c) \/ ClearManual(c)
    \/ ReportConnected(c) \/ AcceptLoopEnds(c) \/ Teardown(c)
    \/ ReportDisconnected(c) \/ DecideReconnect(c) \/ Reconnect(c)
    \/ ReconnectAnswered(c)

ServeStep(c) ==
    \/ ServeSelfAnnouncement(c)
    \/ \E p \in Peer : ServeGossip(c, p)
    \/ BadRequest(c)
    \/ \E d \in Conn : Tell(c, d)

RunStep ==
    \/ \E d \in Dial : \/ \E p \in Peer : DialKnownPeer(d, p)
                       \/ DialDiscovered(d)
    \/ EnterLoop
    \/ \E c \in Conn, q \in Peer : HandshakeSucceeds(c, q)
    \/ HandshakeFails
    \/ BeginShutdown \/ CloseConnections

RequestStep(r) ==
    ConnectAnswered(r) \/ SetManual(r) \/ CloseDisconnected(r) \/ SignalShutDown(r)

EnvironmentStep ==
    \/ \E p \in Peer : DiscoverLocally(p)
    \/ \E c \in Conn : ConnectionLost(c)
    \/ \E a \in Peer \cup {None} : Incoming(a)
    \/ \E r \in Req : \/ \E p \in Peer : CallConnect(r, p) \/ CallDisconnect(r, p)
                      \/ CallShutDown(r)

\* The end of the process cuts a behaviour short and adds none of its own, so it
\* is not a step.
Next ==
    \/ AnnounceStep
    \/ \E d \in Dial : DialStep(d)
    \/ \E c \in Conn : TaskStep(c) \/ ServeStep(c)
    \/ RunStep
    \/ \E r \in Req : RequestStep(r)
    \/ EnvironmentStep

Spec == Init /\ [][Next]_vars

\* Tasks that are ready are polled, and every handshake, dial and hole punch
\* ends (QUIC's idle timeout, the attempt limit).  Sending an announcement may
\* wait for a live remote peer to read, so it is only sure to end once the
\* connection it is sent on has closed.  The accept loop of a closed connection
\* ends although it may first serve what had arrived, which is not without end.
Fairness ==
    /\ WF_vars(AnnounceStep)
    /\ WF_vars(RunStep)
    /\ \A d \in Dial : WF_vars(DialStep(d))
    /\ \A c \in Conn : WF_vars(/\ connPc[c] = "announce" => ~connOpen[c]
                               /\ TaskStep(c))
    /\ \A c \in Conn : SF_vars(AcceptLoopEnds(c))
    /\ \A c, d \in Conn : WF_vars(~connOpen[d] /\ Tell(c, d))
    /\ \A r \in Req : WF_vars(RequestStep(r))

FairSpec == Spec /\ Fairness

-----------------------------------------------------------------------------
(* Safety *)

\* Every entry of the table belongs to a connection of that very peer whose
\* task has still to run its teardown, so no entry is left behind (mod.rs,
\* handle_connection).
EntryHandled ==
    \A p \in Peer : peers[p] # None =>
        /\ connPeer[peers[p]] = p
        /\ connPc[peers[p]] \in Handled

\* An open connection that is being served is the one in the table: no newer
\* connection, and no late teardown of an older one, ever hides it.
ServedIsListed ==
    \A c \in Conn : connPc[c] \in Handled /\ connOpen[c] => peers[connPeer[c]] = c

\* The names in pending are those with a dial task in progress, and there is
\* never a second one for the same name, although begin_outbound_connect checks
\* and reserves under separate locks.
OneDialPerName ==
    /\ pending = {dialName[d] : d \in {e \in Dial : dialPc[e] \in Holding}}
    /\ \A d, e \in Dial :
         /\ dialPc[d] \in Holding
         /\ dialPc[e] \in Holding
         /\ dialName[d] = dialName[e]
         => d = e

\* As long as no request has broken an accept loop, a connection that was
\* refused or whose task has left its accept loop is closed: none stays open
\* unattended.
NoneLeftOpen ==
    badRequests = 0 =>
        \A c \in Conn : connPc[c] \in {"teardown"} \cup Ended => ~connOpen[c]

\* Once a shared endpoint is closed for shutdown no connection is open and
\* none can open again, also those that were installed after the run loop took
\* its snapshot of the table, and whatever dials were retrying.
ClosedForGood ==
    ~endpointUp => \A c \in Conn : ~connOpen[c]

-----------------------------------------------------------------------------
(* Properties the comments and tests state, which the code does not have *)

\* "Intentionally disconnect from a connected peer and suppress automatic
\* reconnects until an explicit future connect call" (lib.rs, disconnect_peer):
\* after the call has returned, and before any connect call for the peer, the
\* peer is not connected.
DisconnectSuppressesReconnects ==
    \A r \in Req :
        /\ reqPc[r] = "disconnected"
        /\ ~\E s \in Req : /\ reqPc[s] \in {"await", "connected"}
                          /\ reqPeer[s] = reqPeer[r]
        => ~OpenEntry(reqPeer[r])

-----------------------------------------------------------------------------
(* Liveness *)

\* An entry whose connection has closed is removed or replaced, whatever its task
\* was doing when the connection closed, unless that task waits for ever for
\* another peer that stays connected and does not take the announcement.
ClosedEntryLeaves ==
    \A p \in Peer, c \in Conn :
        [](peers[p] = c /\ ~connOpen[c] =>
             <>(peers[p] # c) \/ <>[](\E d \in told[c] : connOpen[d]))

\* Every connect_to_peer call is answered, although announcements are handled
\* one at a time and may be refused.
ConnectIsAnswered ==
    /\ \A r \in Req : reqPc[r] = "await" ~> reqPc[r] # "await"
    /\ \A c \in Conn : connPc[c] = "await" ~> connPc[c] = "done"

\* A name does not stay pending: whatever happens to the dial, it can be
\* dialled again.
PendingIsReleased ==
    \A p \in Peer : p \in pending ~> p \notin pending

-----------------------------------------------------------------------------
(* The table implements PeerTable *)

Served == {c \in Conn : connOpen[c] /\ connPc[c] \in Handled \ {"teardown"}}
Unsettled == {c \in Conn : connPc[c] \in {"unused", "checkManual", "install"}}

Table == INSTANCE PeerTable WITH table <- peers, live <- Served, fresh <- Unsettled

\* The table, the connections being served and those still to be decided on
\* change only as PeerTable allows.
ImplementsPeerTable == Table!Spec

=============================================================================
