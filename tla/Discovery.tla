----------------------------- MODULE Discovery -----------------------------
(***************************************************************************)
(* Several nodes that learn of each other and connect                      *)
(* (src/src/connections/discovery/, handle_connection in                   *)
(* src/src/connections/mod.rs, handle_self_announcement in rpc.rs).        *)
(*                                                                         *)
(* A node measures its NAT, is told of peers by its user, by other peers   *)
(* or by mDNS, and decides from both sides' NATs who dials and whether a   *)
(* hole must be punched first.  A connection has two ends, each of which   *)
(* enters it in its own table of peers or refuses it; peers in the table   *)
(* are told of each other.                                                 *)
(*                                                                         *)
(* What one node does between two locks is in Connections, the packets of  *)
(* a punch are in HolePunch: here each of these is a step.                 *)
(***************************************************************************)
EXTENDS Integers, Sequences, FiniteSets

CONSTANTS
    Node,
    None,
    Networks,      \* the surroundings in which the nodes are looked at
    Rank,          \* Rank[n]: order of the public addresses
    LanRank,       \* LanRank[n]: order of the local addresses, compared as strings
    ServerAddress, \* addresses of the STUN servers a node tries, in order
    MaxAttempts,   \* RECONNECT_MAX_ATTEMPTS
    MaxConns       \* bound: connections made

Kind == {"NoNat", "Asymmetric", "Symmetric"}
Method == {"Direct", "Gossip", "Mdns"}
Conn == 1..MaxConns

\* The NATs, which nodes are on one local network or have one public IP address,
\* who may be asked by its user to connect to whom, and how many connections,
\* handshakes and punches may fail.
Network == [nat : [Node -> Kind], lan : SUBSET (Node \X Node), router : SUBSET (Node \X Node),
            calls : SUBSET (Node \X Node), failures : Nat]

ASSUME DiscoveryAssumption ==
    /\ None \notin Node \cup Kind \cup [conn : Conn, knows : BOOLEAN]
    /\ Networks \subseteq Network
    /\ Rank \in [Node -> Int] /\ LanRank \in [Node -> Int]
    /\ \A n, m \in Node : n # m => Rank[n] # Rank[m] /\ LanRank[n] # LanRank[m]
    /\ ServerAddress \in Seq(Nat)
    /\ MaxAttempts \in Nat \ {0} /\ MaxConns \in Nat

VARIABLES
    net,         \* the network, fixed
    details,     \* connection_details it has found out and announces
    known,       \* known_peers
    announceQ,   \* announcements to be handled
    handling,    \* the announcement that waits for a hole punch
    expected,    \* pending_peer_connections: address -> peer expected from there
    discovered,  \* peers to be dialled
    dial,        \* pending_outbound_connections, and what is known of each dial
    hole,        \* <<n, m>>: packets of m reach n through n's NAT
    peers,       \* the table: peer -> connection, and whether its address is known
    conns,       \* the connections made so far
    ends,        \* ends[c][n]: how far node n has got with connection c
    wire,        \* AnnouncePeer requests on their way
    used,        \* calls made and local discoveries, each at most once
    failures     \* counter bounded by net.failures

discoveryVars == <<known, announceQ, handling, expected, discovered>>
connVars == <<peers, conns, ends, wire>>
vars == <<net, details, discoveryVars, dial, hole, connVars, used, failures>>

Announcement == [peer : Node, method : {"Direct", "Gossip"}]
Discovered == [peer : Node, method : Method, via : {"public", "lan"}]
Dialled == [method : Method, via : {"public", "lan"}, attempt : 1..MaxAttempts]
Entry == [conn : Conn, knows : BOOLEAN]
End == [phase : {"none", "fresh", "listed"}, knows : BOOLEAN]
NoEnd == [phase |-> "none", knows |-> FALSE]

TypeOK ==
    /\ net \in Networks
    /\ details \in [Node -> Kind \cup {None}]
    /\ known \in [Node -> SUBSET Node]
    /\ announceQ \in [Node -> Seq(Announcement)]
    /\ handling \in [Node -> [peer : Node, method : {"Direct", "Gossip"}, met : BOOLEAN] \cup {None}]
    /\ expected \in [Node -> [Node -> Node \cup {None}]]
    /\ discovered \in [Node -> SUBSET Discovered]
    /\ dial \in [Node -> [Node -> Dialled \cup {None}]]
    /\ hole \in SUBSET (Node \X Node)
    /\ peers \in [Node -> [Node -> Entry \cup {None}]]
    /\ conns \in Seq([from : Node, to : Node, open : BOOLEAN]) /\ Len(conns) <= MaxConns
    /\ ends \in [Conn -> [Node -> End]]
    /\ wire \in SUBSET [conn : Conn, to : Node, about : Node]
    /\ used \in SUBSET (Node \X Node \X {"Direct", "Mdns"})
    /\ failures \in 0..net.failures

Init ==
    /\ net \in Networks
    /\ details = [n \in Node |-> None]
    /\ known = [n \in Node |-> {}]
    /\ announceQ = [n \in Node |-> <<>>]
    /\ handling = [n \in Node |-> None]
    /\ expected = [n \in Node |-> [m \in Node |-> None]]
    /\ discovered = [n \in Node |-> {}]
    /\ dial = [n \in Node |-> [m \in Node |-> None]]
    /\ hole = {}
    /\ peers = [n \in Node |-> [m \in Node |-> None]]
    /\ conns = <<>>
    /\ ends = [c \in Conn |-> [n \in Node |-> NoEnd]]
    /\ wire = {}
    /\ used = {}
    /\ failures = 0

-----------------------------------------------------------------------------
(* stun_test *)

\* The public address that the server at an address sees: a symmetric NAT has one
\* for each destination, and 0 is the node's own.
Mapped(n, address) ==
    CASE net.nat[n] = "NoNat" -> 0
      [] net.nat[n] = "Asymmetric" -> 1
      [] net.nat[n] = "Symmetric" -> 1 + address

\* Mutant: the second answer may come from the first server.
AnyTwo(i, j) == i < j

TwoServers(i, j) == i < j /\ ServerAddress[i] # ServerAddress[j]

\* i and j are the servers whose answers decide, among those that answer.
Decisive(answering, i, j) ==
    /\ {i, j} \subseteq answering /\ TwoServers(i, j)
    /\ \A k \in answering : k >= i /\ (TwoServers(i, k) => k >= j)

Measured(first, second) ==
    IF first = 0 THEN "NoNat" ELSE IF first # second THEN "Symmetric" ELSE "Asymmetric"

\* PeerDiscovery::new: a node starts once it knows its NAT.
Start(n) ==
    /\ details[n] = None
    /\ \E answering \in SUBSET DOMAIN ServerAddress, i, j \in DOMAIN ServerAddress :
         /\ Decisive(answering, i, j)
         /\ details' = [details EXCEPT
                ![n] = Measured(Mapped(n, ServerAddress[i]), Mapped(n, ServerAddress[j]))]
    /\ UNCHANGED <<net, discoveryVars, dial, hole, connVars, used, failures>>

-----------------------------------------------------------------------------
(* handle_peer_announcement and handle_peer *)

Queue(n, a) == announceQ' = [announceQ EXCEPT ![n] = Append(@, a)]

\* SharedState::connect_to_peer, for an announce address the user was given.
UserConnects(n, m) ==
    /\ <<n, m>> \in net.calls /\ details[n] # None /\ details[m] # None
    /\ <<n, m, "Direct">> \notin used
    /\ used' = used \cup {<<n, m, "Direct">>}
    /\ Queue(n, [peer |-> m, method |-> "Direct"])
    /\ UNCHANGED <<net, details, known, handling, expected, discovered, dial, hole, connVars,
                   failures>>

Both(n, m, kind) == details[n] = kind /\ details[m] = kind

\* Not supported: neither side has a fixed address.
Unsupported(n, m) == Both(n, m, "Symmetric")

\* Mutant: two asymmetric NATs are taken for passable.
PunchesSymmetric(n, m) == "NoNat" \notin {details[n], details[m]} /\ ~Both(n, m, "Asymmetric")

NeedsPunch(n, m) ==
    /\ "NoNat" \notin {details[n], details[m]}
    /\ ~(Both(n, m, "Asymmetric") /\ <<n, m>> \in net.router)

\* Mutant: the comparison includes the own address of the other.
AtLeast(n, m) == TRUE

Outranks(n, m) == Rank[n] > Rank[m]

DialsThem(n, m, method) ==
    \/ details[m] = "NoNat" /\ (details[n] = "NoNat" => method = "Direct" \/ Outranks(n, m))
    \/ Both(n, m, "Asymmetric") /\ Outranks(n, m)
    \/ details[n] = "Symmetric" /\ details[m] = "Asymmetric"

\* Where a peer is expected from: a node without NAT that waits for a peer with one
\* notes its own address.
ExpectedFrom(n, m) ==
    IF details[n] = "NoNat" /\ details[m] # "NoNat" THEN n ELSE m

Resolve(n, m, method) ==
    IF DialsThem(n, m, method)
    THEN /\ discovered' = [discovered EXCEPT
                ![n] = @ \cup {[peer |-> m, method |-> method, via |-> "public"]}]
         /\ UNCHANGED expected
    ELSE /\ expected' = [expected EXCEPT ![n][ExpectedFrom(n, m)] = m]
         /\ UNCHANGED discovered

\* One announcement at a time; the peer becomes known before anything is checked.
HandleAnnouncement(n) ==
    /\ announceQ[n] # <<>> /\ handling[n] = None
    /\ announceQ' = [announceQ EXCEPT ![n] = Tail(@)]
    /\ LET m == Head(announceQ[n]).peer
           method == Head(announceQ[n]).method
       IN /\ known' = [known EXCEPT ![n] = @ \cup {m}]
          /\ IF m = n \/ peers[n][m] # None \/ Unsupported(n, m)
             THEN UNCHANGED <<handling, expected, discovered>>
             ELSE IF NeedsPunch(n, m)
             THEN /\ handling' = [handling EXCEPT
                         ![n] = [peer |-> m, method |-> method, met |-> FALSE]]
                  /\ UNCHANGED <<expected, discovered>>
             ELSE Resolve(n, m, method) /\ UNCHANGED handling
    /\ UNCHANGED <<net, details, dial, hole, connVars, used, failures>>

Punching(n, m) == handling[n] # None /\ handling[n].peer = m

\* Both sides punch at a time and hear each other (HolePunch).
HearEachOther(n, m) ==
    /\ Punching(n, m) /\ Punching(m, n)
    /\ ~handling[n].met /\ ~handling[m].met
    /\ handling' = [x \in Node |-> IF x \in {n, m} THEN [handling[x] EXCEPT !.met = TRUE]
                                  ELSE handling[x]]
    /\ hole' = hole \cup {<<n, m>>, <<m, n>>}
    /\ UNCHANGED <<net, details, known, announceQ, expected, discovered, dial, connVars, used,
                   failures>>

PunchSucceeds(n) ==
    /\ handling[n] # None /\ handling[n].met
    /\ Resolve(n, handling[n].peer, handling[n].method)
    /\ handling' = [handling EXCEPT ![n] = None]
    /\ UNCHANGED <<net, details, known, announceQ, dial, hole, connVars, used, failures>>

Fail == failures < net.failures /\ failures' = failures + 1

EndPunches(nodes) ==
    /\ handling' = [n \in Node |-> IF n \in nodes THEN None ELSE handling[n]]
    /\ UNCHANGED <<net, details, known, announceQ, expected, discovered, dial, hole, connVars, used>>

\* Packets are lost, or an error.
PunchFails(n) == handling[n] # None /\ Fail /\ EndPunches({n})

\* Nothing is going on but punches at nodes that do not punch back.
Quiet ==
    /\ wire = {}
    /\ \A n \in Node :
         /\ discovered[n] = {} /\ \A m \in Node : dial[n][m] = None
         /\ handling[n] = None => announceQ[n] = <<>>
         /\ handling[n] # None => ~handling[n].met /\ ~Punching(handling[n].peer, n)
         /\ \A c \in DOMAIN conns : n \in {conns[c].from, conns[c].to} =>
                ends[c][n].phase = IF conns[c].open THEN "listed" ELSE "none"

\* The other side does not punch.  Attempts go on for 100 seconds, so everything
\* else comes first, and those that began together end together.  The
\* announcements are not handled again.
PunchesTimeOut(nodes) ==
    /\ nodes # {} /\ \A n \in nodes : handling[n] # None
    /\ Quiet
    /\ EndPunches(nodes)
    /\ UNCHANGED failures

-----------------------------------------------------------------------------
(* mDNS *)

OutranksOnLan(n, m) == LanRank[n] > LanRank[m]

ServiceResolved(n, m) ==
    /\ <<n, m>> \in net.lan /\ details[n] # None /\ details[m] # None
    /\ <<n, m, "Mdns">> \notin used
    /\ used' = used \cup {<<n, m, "Mdns">>}
    /\ known' = [known EXCEPT ![n] = @ \cup {m}]
    /\ discovered' = IF OutranksOnLan(n, m)
                     THEN [discovered EXCEPT
                             ![n] = @ \cup {[peer |-> m, method |-> "Mdns", via |-> "lan"]}]
                     ELSE discovered
    /\ UNCHANGED <<net, details, announceQ, handling, expected, dial, hole, connVars, failures>>

-----------------------------------------------------------------------------
(* Dialling *)

BeginOutboundConnect(n, d) ==
    /\ d \in discovered[n]
    /\ discovered' = [discovered EXCEPT ![n] = @ \ {d}]
    /\ dial' = IF dial[n][d.peer] # None \/ peers[n][d.peer] # None
               THEN dial
               ELSE [dial EXCEPT ![n][d.peer] =
                        [method |-> d.method, via |-> d.via, attempt |-> 1]]
    /\ UNCHANGED <<net, details, known, announceQ, handling, expected, hole, connVars, used, failures>>

\* A node behind a symmetric NAT has no endpoint that accepts connections.
Reaches(n, m, via) ==
    \/ details[m] = "NoNat"
    \/ via = "lan" /\ details[m] # "Symmetric"
    \/ via = "public" /\ <<m, n>> \in hole
    \/ via = "public" /\ <<n, m>> \in net.router /\ details[m] = "Asymmetric"

\* verify_server_cert, and verify_client_cert, which nodes without NAT skip.
Accepts(m, n) == m \in known[n] /\ (details[m] = "NoNat" \/ n \in known[m])

\* Whether m finds that it expects n, from the address n dials from.  Behind a
\* symmetric NAT it is another one for each destination; a punch finds out one
\* from which n sends, which need not be the one that n then dials from.
Expectations(m, n, via) ==
    IF via = "lan" \/ expected[m][n] = None THEN {FALSE}
    ELSE IF details[n] = "Symmetric" THEN BOOLEAN ELSE {TRUE}

\* theirs is how m's end of the connection begins.
Connect(n, m, open, theirs) ==
    /\ Len(conns) < MaxConns
    /\ conns' = Append(conns, [from |-> n, to |-> m, open |-> open])
    /\ ends' = [ends EXCEPT ![Len(conns) + 1] =
          [x \in Node |-> IF x = n THEN [phase |-> "fresh", knows |-> TRUE]
                          ELSE IF x = m THEN theirs ELSE NoEnd]]
    /\ dial' = [dial EXCEPT ![n][m] = None]

\* get_pending_peer takes the expectation out of the map.
HandshakeSucceeds(n, m) ==
    /\ dial[n][m] # None
    /\ Reaches(n, m, dial[n][m].via) /\ Accepts(m, n)
    /\ \E expects \in Expectations(m, n, dial[n][m].via) :
         /\ Connect(n, m, TRUE, [phase |-> "fresh", knows |-> expects])
         /\ expected' = IF expects THEN [expected EXCEPT ![m][n] = None] ELSE expected
    /\ UNCHANGED <<net, details, known, announceQ, handling, discovered, hole, peers, wire, used,
                   failures>>

\* The handshake is complete for the one that dials when the other refuses its
\* certificate: it has a connection that closes at once.
CertificateRefused(n, m) ==
    /\ dial[n][m] # None
    /\ Reaches(n, m, dial[n][m].via) /\ ~Accepts(m, n)
    /\ Connect(n, m, FALSE, NoEnd)
    /\ Fail
    /\ UNCHANGED <<net, details, discoveryVars, hole, peers, wire, used>>

\* Mutant: one attempt too many.
OneMore(d) == d.attempt > MaxAttempts

LastAttempt(d) == d.attempt >= MaxAttempts

HandshakeFails(n, m) ==
    /\ dial[n][m] # None
    /\ IF Reaches(n, m, dial[n][m].via) THEN Fail ELSE UNCHANGED failures
    /\ LET d == dial[n][m]
       IN dial' = [dial EXCEPT ![n][m] = IF LastAttempt(d) THEN None
                                         ELSE [d EXCEPT !.attempt = d.attempt + 1]]
    /\ UNCHANGED <<net, details, discoveryVars, hole, connVars, used>>

-----------------------------------------------------------------------------
(* handle_connection *)

Remote(c, n) == IF conns[c].from = n THEN conns[c].to ELSE conns[c].from

\* What was on its way on a connection is lost when it closes.
Close(c) ==
    /\ conns' = [conns EXCEPT ![c].open = FALSE]
    /\ wire' = {w \in wire : w.conn # c}

Others(n, m) == {k \in Node \ {m} : peers[n][k] # None}

Request(n, k, about) == [conn |-> peers[n][k].conn, to |-> k, about |-> about]

\* Requests on a connection that is closed go nowhere.
Send(requests) == wire' = wire \cup {w \in requests : conns[w.conn].open}

\* Mutant: a new peer is not told of those that were there before.
NobodyElse(n, m) == {}

\* The peers in the table whose address is known, for a new one.
Introductions(n, m) == {k \in Others(n, m) : peers[n][k].knows}

\* Mutant: a duplicate is dropped without being closed.
DropDuplicate(n, c) ==
    /\ ends' = [ends EXCEPT ![c][n] = NoEnd]
    /\ UNCHANGED <<peers, conns, wire>>

RefuseDuplicate(n, c) ==
    /\ Close(c)
    /\ ends' = [ends EXCEPT ![c][n] = NoEnd]
    /\ UNCHANGED peers

List(n, c, m) ==
    /\ peers' = [peers EXCEPT ![n][m] = [conn |-> c, knows |-> ends[c][n].knows]]
    /\ ends' = [ends EXCEPT ![c][n].phase = "listed"]
    /\ Send({[conn |-> c, to |-> m, about |-> k] : k \in Introductions(n, m)}
            \cup {[conn |-> c, to |-> m, about |-> n] : k \in {n} \cap {conns[c].from}}
            \cup {Request(n, k, m) : k \in {x \in Others(n, m) : ends[c][n].knows}})
    /\ UNCHANGED conns

Install(n, c) ==
    /\ ends[c][n].phase = "fresh"
    /\ LET m == Remote(c, n)
       IN IF peers[n][m] # None /\ conns[peers[n][m].conn].open
          THEN RefuseDuplicate(n, c)
          ELSE List(n, c, m)
    /\ UNCHANGED <<net, details, discoveryVars, dial, hole, used, failures>>

Relayed(n, m) == {Request(n, k, m) : k \in Others(n, m)}

\* Rpc::handle_self_announcement
ReceiveSelfAnnouncement(w) ==
    LET n == w.to
        m == w.about
    IN /\ w \in wire /\ ends[w.conn][n].phase = "listed"
       /\ m = Remote(w.conn, n)
       /\ peers' = IF peers[n][m] = None THEN peers
                   ELSE [peers EXCEPT ![n][m].knows = TRUE]
       /\ known' = [known EXCEPT ![n] = @ \cup {m}]
       /\ wire' = (wire \ {w}) \cup {r \in Relayed(n, m) : conns[r.conn].open}
       /\ UNCHANGED <<net, details, announceQ, handling, expected, discovered, dial, hole, conns,
                      ends, used, failures>>

ReceiveGossip(w) ==
    /\ w \in wire /\ ends[w.conn][w.to].phase = "listed"
    /\ w.about # Remote(w.conn, w.to)
    /\ wire' = wire \ {w}
    /\ Queue(w.to, [peer |-> w.about, method |-> "Gossip"])
    /\ UNCHANGED <<net, details, known, handling, expected, discovered, dial, hole, peers, conns,
                   ends, used, failures>>

\* The accept loop ends, the entry is removed and the peer is connected to again.
Teardown(n, c) ==
    /\ ends[c][n].phase = "listed" /\ ~conns[c].open
    /\ LET m == Remote(c, n)
           owns == peers[n][m] # None /\ peers[n][m].conn = c
       IN /\ peers' = IF owns THEN [peers EXCEPT ![n][m] = None] ELSE peers
          /\ IF owns /\ (ends[c][n].knows \/ peers[n][m].knows)
             THEN Queue(n, [peer |-> m, method |-> "Direct"])
             ELSE UNCHANGED announceQ
    /\ ends' = [ends EXCEPT ![c][n] = NoEnd]
    /\ UNCHANGED <<net, details, known, handling, expected, discovered, dial, hole, conns, wire, used,
                   failures>>

ConnectionLost(c) ==
    /\ conns[c].open
    /\ Close(c)
    /\ Fail
    /\ UNCHANGED <<net, details, discoveryVars, dial, hole, peers, ends, used>>

-----------------------------------------------------------------------------
AnnounceStep(n) == HandleAnnouncement(n) \/ PunchSucceeds(n)

DialStep(n) ==
    \/ \E d \in discovered[n] : BeginOutboundConnect(n, d)
    \/ \E m \in Node : HandshakeSucceeds(n, m) \/ CertificateRefused(n, m)

Timeouts == \E nodes \in SUBSET Node : PunchesTimeOut(nodes)

ConnStep(n) == \E c \in DOMAIN conns : Install(n, c) \/ Teardown(n, c)

Receive == \E w \in wire : ReceiveSelfAnnouncement(w) \/ ReceiveGossip(w)

EnvironmentStep ==
    \/ \E n, m \in Node : UserConnects(n, m) \/ ServiceResolved(n, m) \/ HandshakeFails(n, m)
    \/ \E n \in Node : PunchFails(n)
    \/ \E c \in DOMAIN conns : ConnectionLost(c)

Next ==
    \/ \E n \in Node : Start(n) \/ AnnounceStep(n) \/ DialStep(n) \/ ConnStep(n)
    \/ \E n, m \in Node : HearEachOther(n, m)
    \/ Receive \/ Timeouts
    \/ EnvironmentStep

Spec == Init /\ [][Next]_vars

\* Tasks are polled, packets of two sides that punch meet, requests on an open
\* connection arrive.
FairSpec ==
    /\ Spec
    /\ \A n \in Node : WF_vars(Start(n)) /\ WF_vars(AnnounceStep(n)) /\ WF_vars(ConnStep(n))
    /\ \A n \in Node : WF_vars(DialStep(n))
    /\ \A n, m \in Node : WF_vars(HearEachOther(n, m)) /\ WF_vars(ServiceResolved(n, m))
    /\ WF_vars(Receive) /\ WF_vars(Timeouts)

-----------------------------------------------------------------------------
(* Properties *)

\* A node takes its NAT for what it is, whichever of the servers answer and even
\* if some of them are one server under two names.
NatMeasured == \A n \in Node : details[n] \in {net.nat[n], None}

\* n is about to dial m, or dials it, for a reason both may find by themselves.
DialsBy(n, m, method) ==
    \/ dial[n][m] # None /\ dial[n][m].method = method
    \/ \E d \in discovered[n] : d.peer = m /\ d.method = method

\* Two nodes that learn of each other in one way, without a user who asks for it,
\* do not both dial.
OneSideDials ==
    \A n, m \in Node, method \in {"Gossip", "Mdns"} :
        n # m /\ DialsBy(n, m, method) => ~DialsBy(m, n, method)

\* Once both ends have decided, two nodes have the same open connection in their
\* tables.
TablesAgree ==
    \A n, m \in Node : peers[n][m] # None /\ conns[peers[n][m].conn].open =>
        \/ ends[peers[n][m].conn][m].phase = "fresh"
        \/ peers[m][n] # None /\ peers[m][n].conn = peers[n][m].conn

\* A node that two others are connected to, and that knows the address of one,
\* has told the other, or is telling it, whatever the order in which they came.
Introduced ==
    \A h, n, m \in Node :
        /\ n # m /\ peers[h][n] # None /\ peers[h][m] # None
        /\ peers[h][m].knows /\ conns[peers[h][n].conn].open
        => \/ m \in known[n]
           \/ \E i \in DOMAIN announceQ[n] : announceQ[n][i].peer = m
           \/ Request(h, n, m) \in wire

Connected(n, m) == peers[n][m] # None /\ conns[peers[n][m].conn].open

\* Not both behind symmetric NATs, nor one of them if they meet on a local network.
CanConnect(n, m) ==
    /\ ~Unsupported(n, m)
    /\ <<n, m>> \in net.lan => "Symmetric" \notin {details[n], details[m]}

\* Two nodes that are told of each other, by peers, users or mDNS, and can connect
\* at all, are connected in the end when no connection, handshake or punch fails.
ToldConnect ==
    [](failures = 0) =>
        \A n, m \in Node : n # m =>
            (n \in known[m] /\ m \in known[n] /\ CanConnect(n, m))
                ~> (Connected(n, m) /\ Connected(m, n))

\* A node keeps the connection it has when it refuses a second one as duplicate:
\* without losses no connection in a table is closed.
KeepsExisting ==
    failures = 0 => \A n, m \in Node : peers[n][m] # None => conns[peers[n][m].conn].open
=============================================================================
