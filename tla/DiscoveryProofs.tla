-------------------------- MODULE DiscoveryProofs --------------------------
(***************************************************************************)
(* Proofs about Discovery, for any nodes, networks, addresses, STUN        *)
(* servers and bounds.                                                     *)
(***************************************************************************)
EXTENDS Discovery, SequenceTheorems, TLAPS

-----------------------------------------------------------------------------
(* Queues of announcements *)

Queued(queue, m) == \E i \in DOMAIN queue : queue[i].peer = m

LEMMA AppendQueued ==
    ASSUME NEW queue \in Seq(Announcement), NEW a \in Announcement, NEW m \in Node
    PROVE  /\ Append(queue, a) \in Seq(Announcement)
           /\ Queued(Append(queue, a), m) <=> Queued(queue, m) \/ a.peer = m
<1>1. /\ Append(queue, a) \in Seq(Announcement)
      /\ Len(Append(queue, a)) = Len(queue) + 1 /\ Len(queue) \in Nat
      /\ \A i \in 1..Len(queue) : Append(queue, a)[i] = queue[i]
      /\ Append(queue, a)[Len(queue) + 1] = a
      /\ DOMAIN Append(queue, a) = 1..(Len(queue) + 1) /\ DOMAIN queue = 1..Len(queue)
      OBVIOUS
<1>2. 1..(Len(queue) + 1) = 1..Len(queue) \cup {Len(queue) + 1}
      BY <1>1
<1> QED BY <1>1, <1>2 DEF Queued

LEMMA TailQueued ==
    ASSUME NEW queue \in Seq(Announcement), queue # <<>>, NEW m \in Node
    PROVE  /\ Head(queue) \in Announcement /\ Tail(queue) \in Seq(Announcement)
           /\ Queued(queue, m) <=> Head(queue).peer = m \/ Queued(Tail(queue), m)
<1>1. /\ Head(queue) \in Announcement /\ Head(queue) = queue[1]
      /\ Tail(queue) \in Seq(Announcement)
      /\ Len(Tail(queue)) = Len(queue) - 1 /\ Len(queue) \in Nat \ {0}
      /\ DOMAIN Tail(queue) = 1..Len(Tail(queue)) /\ DOMAIN queue = 1..Len(queue)
      /\ \A i \in 1..Len(Tail(queue)) : Tail(queue)[i] = queue[i + 1]
      OBVIOUS
<1>2. ASSUME Queued(queue, m) PROVE Head(queue).peer = m \/ Queued(Tail(queue), m)
  <2>1. PICK i \in 1..Len(queue) : queue[i].peer = m
        BY <1>1, <1>2 DEF Queued
  <2>2. i = 1 \/ (i - 1 \in 1..Len(Tail(queue)) /\ Tail(queue)[i - 1] = queue[i])
        BY <1>1, <2>1
  <2> QED BY <1>1, <2>1, <2>2 DEF Queued
<1>3. ASSUME Head(queue).peer = m \/ Queued(Tail(queue), m) PROVE Queued(queue, m)
  <2>1. CASE Head(queue).peer = m
        BY <1>1, <2>1 DEF Queued
  <2>2. CASE Queued(Tail(queue), m)
    <3>1. PICK i \in 1..Len(Tail(queue)) : Tail(queue)[i].peer = m
          BY <1>1, <2>2 DEF Queued
    <3>2. i + 1 \in 1..Len(queue) /\ queue[i + 1].peer = m
          BY <1>1, <3>1
    <3> QED BY <1>1, <3>2 DEF Queued
  <2> QED BY <1>3, <2>1, <2>2
<1> QED BY <1>1, <1>2, <1>3

LEMMA NoneQueued == \A m \in Node : ~Queued(<<>>, m)
BY DEF Queued

-----------------------------------------------------------------------------
(* Types *)

NatOK == net \in Networks /\ details \in [Node -> Kind \cup {None}]
AnnounceOK ==
    /\ known \in [Node -> SUBSET Node]
    /\ announceQ \in [Node -> Seq(Announcement)]
    /\ handling \in [Node -> [peer : Node, method : {"Direct", "Gossip"}, met : BOOLEAN] \cup {None}]
    /\ expected \in [Node -> [Node -> Node \cup {None}]]
    /\ discovered \in [Node -> SUBSET Discovered]
DialOK == dial \in [Node -> [Node -> Dialled \cup {None}]] /\ hole \in SUBSET (Node \X Node)
TableOK == peers \in [Node -> [Node -> Entry \cup {None}]]
LinkOK ==
    /\ conns \in Seq([from : Node, to : Node, open : BOOLEAN]) /\ Len(conns) <= MaxConns
    /\ ends \in [Conn -> [Node -> End]]
    /\ wire \in SUBSET [conn : Conn, to : Node, about : Node]
BoundsOK ==
    /\ used \in SUBSET (Node \X Node \X {"Direct", "Mdns"})
    /\ failures \in 0..net.failures

TypeParts == NatOK /\ AnnounceOK /\ DialOK /\ TableOK /\ LinkOK /\ BoundsOK

LEMMA TypeSplit == TypeOK <=> TypeParts
BY DEF TypeOK, TypeParts, NatOK, AnnounceOK, DialOK, TableOK, LinkOK, BoundsOK

LEMMA Bounds == Networks \subseteq Network /\ MaxAttempts \in Nat \ {0} /\ MaxConns \in Nat
BY DiscoveryAssumption DEF DiscoveryAssumption

LEMMA Ranks == \A n \in Node : Rank[n] \in Int /\ LanRank[n] \in Int
BY DiscoveryAssumption DEF DiscoveryAssumption

LEMMA NoneIsNothing == None \notin Node /\ None \notin Kind /\ None \notin Entry
BY DiscoveryAssumption DEF DiscoveryAssumption, Entry

LEMMA InitTypes == Init => TypeOK
<1> SUFFICES ASSUME Init PROVE TypeParts
    BY TypeSplit
<1>1. NatOK /\ AnnounceOK /\ DialOK /\ TableOK
      BY DEF Init, NatOK, AnnounceOK, DialOK, TableOK
<1>2. LinkOK
      BY Bounds DEF Init, LinkOK, End, NoEnd
<1>3. BoundsOK
      BY Bounds DEF Init, BoundsOK, Network
<1> QED BY <1>1, <1>2, <1>3 DEF TypeParts

\* The parts an action does not touch keep their types.
LEMMA KeptTypes ==
    ASSUME TypeParts
    PROVE  /\ UNCHANGED <<net, details>> => NatOK'
           /\ UNCHANGED discoveryVars => AnnounceOK'
           /\ UNCHANGED <<dial, hole>> => DialOK'
           /\ UNCHANGED peers => TableOK'
           /\ UNCHANGED <<conns, ends, wire>> => LinkOK'
           /\ UNCHANGED <<net, used, failures>> => BoundsOK'
           /\ UNCHANGED <<net, used>> /\ Fail => BoundsOK'
<1>1. net.failures \in Nat
      BY Bounds DEF TypeParts, NatOK, Network
<1> QED
    BY <1>1 DEF TypeParts, NatOK, AnnounceOK, DialOK, TableOK, LinkOK, BoundsOK, discoveryVars, Fail

LEMMA QueueTypes ==
    ASSUME AnnounceOK, NEW n \in Node, NEW a \in Announcement, Queue(n, a),
           UNCHANGED <<known, handling, expected, discovered>>
    PROVE  AnnounceOK'
BY AppendQueued DEF AnnounceOK, Queue

LEMMA ResolveTypes ==
    ASSUME AnnounceOK, NEW n \in Node, NEW m \in Node, NEW method \in {"Direct", "Gossip"},
           Resolve(n, m, method)
    PROVE  /\ expected' \in [Node -> [Node -> Node \cup {None}]]
           /\ discovered' \in [Node -> SUBSET Discovered]
<1>1. CASE DialsThem(n, m, method)
  <2>1. /\ UNCHANGED expected
        /\ discovered' = [discovered EXCEPT
                ![n] = @ \cup {[peer |-> m, method |-> method, via |-> "public"]}]
        BY <1>1 DEF Resolve
  <2>2. [peer |-> m, method |-> method, via |-> "public"] \in Discovered
        BY DEF Discovered, Method
  <2> QED BY <2>1, <2>2 DEF AnnounceOK
<1>2. CASE ~DialsThem(n, m, method)
  <2>1. UNCHANGED discovered /\ expected' = [expected EXCEPT ![n][ExpectedFrom(n, m)] = m]
        BY <1>2 DEF Resolve
  <2>2. ExpectedFrom(n, m) \in Node
        BY DEF ExpectedFrom
  <2> QED BY <2>1, <2>2 DEF AnnounceOK
<1> QED BY <1>1, <1>2

LEMMA AnnounceTypes ==
    ASSUME TypeParts, NEW n \in Node,
           (\E m \in Node : UserConnects(n, m)) \/ AnnounceStep(n)
    PROVE  TypeParts'
<1>1. ASSUME NEW m \in Node, UserConnects(n, m) PROVE TypeParts'
  <2>1. AnnounceOK'
    <3>1. [peer |-> m, method |-> "Direct"] \in Announcement
          BY DEF Announcement, Method
    <3> QED BY <1>1, <3>1, QueueTypes DEF UserConnects, TypeParts
  <2>2. BoundsOK'
        BY <1>1 DEF UserConnects, TypeParts, BoundsOK
  <2> QED BY <1>1, <2>1, <2>2, KeptTypes DEF UserConnects, TypeParts, connVars
<1>2. CASE HandleAnnouncement(n)
  <2> DEFINE a == Head(announceQ[n])
  <2>1. a \in Announcement /\ announceQ' \in [Node -> Seq(Announcement)]
        BY <1>2, TailQueued DEF HandleAnnouncement, TypeParts, AnnounceOK
  <2>2. a.peer \in Node /\ a.method \in {"Direct", "Gossip"}
        BY <2>1 DEF Announcement
  <2>3. known' \in [Node -> SUBSET Node]
        BY <1>2, <2>2 DEF HandleAnnouncement, TypeParts, AnnounceOK
  <2>4. /\ handling' \in [Node -> [peer : Node, method : {"Direct", "Gossip"}, met : BOOLEAN] \cup {None}]
        /\ expected' \in [Node -> [Node -> Node \cup {None}]]
        /\ discovered' \in [Node -> SUBSET Discovered]
    <3>1. CASE Resolve(n, a.peer, a.method) /\ UNCHANGED handling
          BY <2>2, <3>1, ResolveTypes DEF TypeParts, AnnounceOK
    <3>2. CASE UNCHANGED <<handling, expected, discovered>>
          BY <3>2 DEF TypeParts, AnnounceOK
    <3>3. CASE /\ handling' = [handling EXCEPT
                       ![n] = [peer |-> a.peer, method |-> a.method, met |-> FALSE]]
               /\ UNCHANGED <<expected, discovered>>
          BY <2>2, <3>3 DEF TypeParts, AnnounceOK
    <3> QED BY <1>2, <3>1, <3>2, <3>3 DEF HandleAnnouncement
  <2>5. AnnounceOK'
        BY <2>1, <2>3, <2>4 DEF AnnounceOK
  <2> QED BY <1>2, <2>5, KeptTypes DEF HandleAnnouncement, TypeParts, connVars
<1>3. CASE PunchSucceeds(n)
  <2>1. handling[n].peer \in Node /\ handling[n].method \in {"Direct", "Gossip"}
        BY <1>3 DEF PunchSucceeds, TypeParts, AnnounceOK
  <2>2. AnnounceOK'
        BY <1>3, <2>1, ResolveTypes DEF PunchSucceeds, TypeParts, AnnounceOK
  <2> QED BY <1>3, <2>2, KeptTypes DEF PunchSucceeds, TypeParts, connVars
<1> QED BY <1>1, <1>2, <1>3 DEF AnnounceStep

LEMMA PunchTypes ==
    ASSUME TypeParts,
           \/ \E n, m \in Node : HearEachOther(n, m)
           \/ \E n \in Node : PunchFails(n)
           \/ Timeouts
    PROVE  TypeParts'
<1>1. ASSUME NEW n \in Node, NEW m \in Node, HearEachOther(n, m) PROVE TypeParts'
  <2>1. \A x \in {n, m} : [handling[x] EXCEPT !.met = TRUE]
                              \in [peer : Node, method : {"Direct", "Gossip"}, met : BOOLEAN]
    <3>1. \A x \in {n, m} : handling[x] \in [peer : Node, method : {"Direct", "Gossip"}, met : BOOLEAN]
          BY <1>1 DEF HearEachOther, Punching, TypeParts, AnnounceOK
    <3> QED BY <3>1
  <2>3. AnnounceOK'
        BY <1>1, <2>1 DEF HearEachOther, TypeParts, AnnounceOK
  <2>2. DialOK'
        BY <1>1 DEF HearEachOther, TypeParts, DialOK
  <2> QED BY <1>1, <2>2, <2>3, KeptTypes DEF HearEachOther, TypeParts, connVars
<1>2. ASSUME NEW nodes, EndPunches(nodes), UNCHANGED failures \/ Fail PROVE TypeParts'
  <2>1. AnnounceOK'
        BY <1>2 DEF EndPunches, TypeParts, AnnounceOK
  <2> QED BY <1>2, <2>1, KeptTypes DEF EndPunches, TypeParts, connVars
<1> QED BY <1>1, <1>2 DEF PunchFails, Timeouts, PunchesTimeOut

LEMMA DialTypes ==
    ASSUME TypeParts, NEW n \in Node, NEW m \in Node,
           \/ Start(n) \/ ServiceResolved(n, m)
           \/ \E d \in discovered[n] : BeginOutboundConnect(n, d)
           \/ HandshakeFails(n, m)
    PROVE  TypeParts'
<1>1. CASE Start(n)
  <2>1. NatOK'
        BY <1>1 DEF Start, Measured, TypeParts, NatOK, Kind
  <2> QED BY <1>1, <2>1, KeptTypes DEF Start, TypeParts, connVars
<1>2. CASE ServiceResolved(n, m)
  <2>1. [peer |-> m, method |-> "Mdns", via |-> "lan"] \in Discovered
        BY DEF Discovered, Method
  <2>2. AnnounceOK'
        BY <1>2, <2>1 DEF ServiceResolved, TypeParts, AnnounceOK
  <2>3. BoundsOK'
        BY <1>2 DEF ServiceResolved, TypeParts, BoundsOK
  <2> QED BY <1>2, <2>2, <2>3, KeptTypes DEF ServiceResolved, TypeParts, connVars
<1>3. ASSUME NEW d \in discovered[n], BeginOutboundConnect(n, d) PROVE TypeParts'
  <2>1. d \in Discovered
        BY DEF TypeParts, AnnounceOK
  <2>2. [method |-> d.method, via |-> d.via, attempt |-> 1] \in Dialled
        BY <2>1, Bounds DEF Discovered, Dialled
  <2>3. AnnounceOK'
        BY <1>3 DEF BeginOutboundConnect, TypeParts, AnnounceOK
  <2>4. d.peer \in Node
        BY <2>1 DEF Discovered
  <2>5. DialOK'
    <3>1. CASE UNCHANGED dial
          BY <1>3, <3>1 DEF BeginOutboundConnect, TypeParts, DialOK
    <3>2. CASE dial' = [dial EXCEPT ![n][d.peer] =
                           [method |-> d.method, via |-> d.via, attempt |-> 1]]
          BY <1>3, <2>2, <2>4, <3>2 DEF BeginOutboundConnect, TypeParts, DialOK
    <3> QED BY <1>3, <3>1, <3>2 DEF BeginOutboundConnect
  <2> QED BY <1>3, <2>3, <2>5, KeptTypes DEF BeginOutboundConnect, TypeParts, connVars
<1>4. CASE HandshakeFails(n, m)
  <2> DEFINE next == IF LastAttempt(dial[n][m]) THEN None
                     ELSE [dial[n][m] EXCEPT !.attempt = dial[n][m].attempt + 1]
  <2>1. dial[n][m] \in Dialled
        BY <1>4 DEF HandshakeFails, TypeParts, DialOK
  <2>2. next \in Dialled \cup {None}
        BY <2>1, Bounds DEF LastAttempt, Dialled
  <2>3. dial' = [dial EXCEPT ![n][m] = next] /\ UNCHANGED hole
        BY <1>4 DEF HandshakeFails
  <2> HIDE DEF next
  <2>4. DialOK'
        BY <2>2, <2>3 DEF TypeParts, DialOK
  <2> QED BY <1>4, <2>4, KeptTypes DEF HandshakeFails, TypeParts, connVars
<1> QED BY <1>1, <1>2, <1>3, <1>4

LEMMA ConnectTypes ==
    ASSUME TypeParts, NEW n \in Node, NEW m \in Node, NEW open \in BOOLEAN, NEW theirs \in End,
           Connect(n, m, open, theirs), UNCHANGED <<hole, wire>>
    PROVE  DialOK' /\ LinkOK'
<1>1. DialOK'
      BY DEF Connect, TypeParts, DialOK
<1>2. Len(conns) + 1 \in Conn /\ Len(conns) \in Nat
      BY Bounds DEF Connect, TypeParts, LinkOK, Conn
<1>3. conns' \in Seq([from : Node, to : Node, open : BOOLEAN]) /\ Len(conns') = Len(conns) + 1
      BY DEF Connect, TypeParts, LinkOK
<1>4. \A x \in Node : (IF x = n THEN [phase |-> "fresh", knows |-> TRUE]
                       ELSE IF x = m THEN theirs ELSE NoEnd) \in End
      BY DEF End, NoEnd
<1>5. ends' \in [Conn -> [Node -> End]]
      BY <1>2, <1>4 DEF Connect, TypeParts, LinkOK
<1> QED BY <1>1, <1>2, <1>3, <1>5, Bounds DEF Connect, TypeParts, LinkOK

LEMMA HandshakeTypes ==
    ASSUME TypeParts, NEW n \in Node, NEW m \in Node,
           HandshakeSucceeds(n, m) \/ CertificateRefused(n, m)
    PROVE  TypeParts'
<1>1. CASE HandshakeSucceeds(n, m)
  <2>1. PICK expects \in Expectations(m, n, dial[n][m].via) :
            /\ Connect(n, m, TRUE, [phase |-> "fresh", knows |-> expects])
            /\ expected' = IF expects THEN [expected EXCEPT ![m][n] = None] ELSE expected
        BY <1>1 DEF HandshakeSucceeds
  <2>2. expects \in BOOLEAN
        BY DEF Expectations
  <2>3. [phase |-> "fresh", knows |-> expects] \in End
        BY <2>2 DEF End
  <2>4. DialOK' /\ LinkOK'
        BY <1>1, <2>1, <2>3, ConnectTypes DEF HandshakeSucceeds
  <2>5. AnnounceOK'
        BY <1>1, <2>1, <2>2 DEF HandshakeSucceeds, TypeParts, AnnounceOK
  <2> QED BY <1>1, <2>4, <2>5, KeptTypes DEF HandshakeSucceeds, TypeParts
<1>2. CASE CertificateRefused(n, m)
  <2>1. NoEnd \in End
        BY DEF NoEnd, End
  <2>2. DialOK' /\ LinkOK'
        BY <1>2, <2>1, ConnectTypes DEF CertificateRefused
  <2> QED BY <1>2, <2>2, KeptTypes DEF CertificateRefused, TypeParts
<1> QED BY <1>1, <1>2

LEMMA RemoteTypes ==
    ASSUME TypeParts, NEW c \in DOMAIN conns, NEW n
    PROVE  /\ c \in 1..Len(conns) /\ c \in Conn
           /\ conns[c] \in [from : Node, to : Node, open : BOOLEAN]
           /\ Remote(c, n) \in Node
<1>1. conns \in Seq([from : Node, to : Node, open : BOOLEAN]) /\ Len(conns) <= MaxConns
      BY DEF TypeParts, LinkOK
<1>2. c \in 1..Len(conns) /\ Len(conns) \in Nat
      BY <1>1
<1>3. c \in Conn
      BY <1>1, <1>2, Bounds DEF Conn
<1>4. conns[c] \in [from : Node, to : Node, open : BOOLEAN]
      BY <1>1, <1>2, ElementOfSeq
<1> QED BY <1>2, <1>3, <1>4 DEF Remote

LEMMA ListTypes ==
    ASSUME TypeParts, NEW n \in Node, NEW c \in DOMAIN conns, NEW m \in Node,
           RefuseDuplicate(n, c) \/ List(n, c, m)
    PROVE  TableOK' /\ LinkOK'
<1>1. /\ conns[c] \in [from : Node, to : Node, open : BOOLEAN] /\ c \in Conn
      /\ c \in 1..Len(conns)
      BY RemoteTypes
<1>2. CASE RefuseDuplicate(n, c)
  <2>1. [conns[c] EXCEPT !.open = FALSE] \in [from : Node, to : Node, open : BOOLEAN]
        BY <1>1
  <2>2. conns' = [conns EXCEPT ![c] = [conns[c] EXCEPT !.open = FALSE]]
        BY <1>2 DEF RefuseDuplicate, Close
  <2>3. /\ conns' \in Seq([from : Node, to : Node, open : BOOLEAN])
        /\ Len(conns') = Len(conns)
        BY <1>1, <2>1, <2>2, ExceptSeq DEF TypeParts, LinkOK
  <2>4. ends' \in [Conn -> [Node -> End]] /\ wire' \subseteq wire /\ UNCHANGED peers
        BY <1>2 DEF RefuseDuplicate, Close, TypeParts, LinkOK, NoEnd, End
  <2> QED BY <2>3, <2>4, Bounds DEF TypeParts, TableOK, LinkOK
<1>3. CASE List(n, c, m)
  <2>1. ends[c][n] \in End
        BY <1>1 DEF TypeParts, LinkOK
  <2>2. [conn |-> c, knows |-> ends[c][n].knows] \in Entry
        BY <1>1, <2>1 DEF Entry, End
  <2>3. peers' \in [Node -> [Node -> Entry \cup {None}]]
        BY <1>3, <2>2 DEF List, TypeParts, TableOK
  <2>4. ends' \in [Conn -> [Node -> End]]
        BY <1>1, <1>3, <2>1 DEF List, TypeParts, LinkOK, End
  <2>5. \A k \in Others(n, m) : Request(n, k, m) \in [conn : Conn, to : Node, about : Node]
        BY DEF Others, Request, TypeParts, TableOK, Entry
  <2>6. wire' \subseteq [conn : Conn, to : Node, about : Node]
        BY <1>1, <1>3, <2>5 DEF List, Send, Introductions, Others, TypeParts, LinkOK
  <2> QED BY <1>3, <2>3, <2>4, <2>6 DEF List, TypeParts, TableOK, LinkOK
<1> QED BY <1>2, <1>3

LEMMA ConnTypes ==
    ASSUME TypeParts, NEW n \in Node, NEW c \in DOMAIN conns,
           Install(n, c) \/ Teardown(n, c)
    PROVE  TypeParts'
<1> DEFINE m == Remote(c, n)
<1>1. c \in 1..Len(conns) /\ c \in Conn /\ m \in Node
      /\ conns[c] \in [from : Node, to : Node, open : BOOLEAN]
      BY RemoteTypes
<1>2. CASE Install(n, c)
  <2>1. TableOK' /\ LinkOK'
        BY <1>1, <1>2, ListTypes DEF Install
  <2> QED BY <1>2, <2>1, KeptTypes DEF Install, TypeParts
<1>3. CASE Teardown(n, c)
  <2>1. [peer |-> m, method |-> "Direct"] \in Announcement
        BY <1>1 DEF Announcement, Method
  <2>2. AnnounceOK'
    <3>1. CASE Queue(n, [peer |-> m, method |-> "Direct"])
          BY <1>3, <2>1, <3>1, QueueTypes DEF Teardown, TypeParts
    <3>2. CASE UNCHANGED announceQ
          BY <1>3, <3>2 DEF Teardown, TypeParts, AnnounceOK
    <3> QED BY <1>3, <3>1, <3>2 DEF Teardown
  <2>3. TableOK'
    <3>1. CASE UNCHANGED peers
          BY <3>1, KeptTypes
    <3>2. CASE peers' = [peers EXCEPT ![n][m] = None]
          BY <1>1, <3>2 DEF TypeParts, TableOK
    <3> QED BY <1>3, <3>1, <3>2 DEF Teardown
  <2>4. LinkOK'
        BY <1>1, <1>3 DEF Teardown, TypeParts, LinkOK, NoEnd, End
  <2> QED BY <1>3, <2>2, <2>3, <2>4, KeptTypes DEF Teardown, TypeParts
<1> QED BY <1>2, <1>3

LEMMA LossTypes ==
    ASSUME TypeParts, NEW c \in DOMAIN conns, ConnectionLost(c)
    PROVE  TypeParts'
<1>1. c \in 1..Len(conns) /\ conns[c] \in [from : Node, to : Node, open : BOOLEAN]
      BY RemoteTypes
<1>2. [conns[c] EXCEPT !.open = FALSE] \in [from : Node, to : Node, open : BOOLEAN]
      BY <1>1
<1>3. conns' = [conns EXCEPT ![c] = [conns[c] EXCEPT !.open = FALSE]] /\ wire' \subseteq wire
      BY DEF ConnectionLost, Close
<1>4. conns' \in Seq([from : Node, to : Node, open : BOOLEAN]) /\ Len(conns') = Len(conns)
      BY <1>1, <1>2, <1>3, ExceptSeq DEF TypeParts, LinkOK
<1>5. LinkOK'
      BY <1>3, <1>4, Bounds DEF ConnectionLost, TypeParts, LinkOK
<1> QED BY <1>5, KeptTypes DEF ConnectionLost, TypeParts

LEMMA ReceiveTypes ==
    ASSUME TypeParts, Receive
    PROVE  TypeParts'
<1>1. ASSUME NEW w \in wire, ReceiveSelfAnnouncement(w) PROVE TypeParts'
  <2>1. w.to \in Node /\ w.about \in Node
        BY DEF TypeParts, LinkOK
  <2>2. AnnounceOK'
        BY <1>1, <2>1 DEF ReceiveSelfAnnouncement, TypeParts, AnnounceOK
  <2>3. TableOK'
    <3>1. CASE UNCHANGED peers
          BY <3>1, KeptTypes
    <3>2. CASE /\ peers[w.to][w.about] # None
               /\ peers' = [peers EXCEPT ![w.to][w.about].knows = TRUE]
      <4>1. peers[w.to][w.about] \in Entry
            BY <2>1, <3>2 DEF TypeParts, TableOK
      <4>2. [peers[w.to][w.about] EXCEPT !.knows = TRUE] \in Entry
            BY <4>1 DEF Entry
      <4> QED BY <2>1, <3>2, <4>2 DEF TypeParts, TableOK
    <3> QED BY <1>1, <3>1, <3>2 DEF ReceiveSelfAnnouncement
  <2>4. Relayed(w.to, w.about) \subseteq [conn : Conn, to : Node, about : Node]
        BY <2>1 DEF Relayed, Others, Request, TypeParts, TableOK, Entry
  <2>5. LinkOK'
        BY <1>1, <2>4 DEF ReceiveSelfAnnouncement, TypeParts, LinkOK
  <2> QED BY <1>1, <2>2, <2>3, <2>5, KeptTypes DEF ReceiveSelfAnnouncement, TypeParts
<1>2. ASSUME NEW w \in wire, ReceiveGossip(w) PROVE TypeParts'
  <2>1. w.to \in Node /\ [peer |-> w.about, method |-> "Gossip"] \in Announcement
        BY DEF TypeParts, LinkOK, Announcement, Method
  <2>2. AnnounceOK'
        BY <1>2, <2>1, QueueTypes DEF ReceiveGossip, TypeParts
  <2>3. LinkOK'
        BY <1>2 DEF ReceiveGossip, TypeParts, LinkOK
  <2> QED BY <1>2, <2>2, <2>3, KeptTypes DEF ReceiveGossip, TypeParts
<1> QED BY <1>1, <1>2 DEF Receive

LEMMA StepTypes == TypeOK /\ [Next]_vars => TypeOK'
<1> SUFFICES ASSUME TypeParts, [Next]_vars PROVE TypeParts'
    BY TypeSplit DEF TypeParts, TypeOK, NatOK, AnnounceOK, DialOK, TableOK, LinkOK, BoundsOK
<1>1. CASE UNCHANGED vars
      BY <1>1, KeptTypes DEF vars, connVars, TypeParts
<1>2. ASSUME NEW n \in Node, Start(n) \/ AnnounceStep(n) \/ DialStep(n) \/ ConnStep(n)
      PROVE  TypeParts'
      BY <1>2, AnnounceTypes, DialTypes, HandshakeTypes, ConnTypes DEF DialStep, ConnStep
<1>3. CASE EnvironmentStep
  <2>1. ASSUME NEW c \in DOMAIN conns, ConnectionLost(c) PROVE TypeParts'
        BY <2>1, LossTypes
  <2> QED BY <1>3, <2>1, AnnounceTypes, DialTypes, PunchTypes DEF EnvironmentStep
<1> QED BY <1>1, <1>2, <1>3, PunchTypes, ReceiveTypes DEF Next

\* Every reachable state has its types, whatever the network (PeerDiscovery and
\* HarddriveParty in src/src/connections/).
THEOREM TypeCorrect == Spec => []TypeOK
BY InitTypes, StepTypes, PTL DEF Spec

-----------------------------------------------------------------------------
(* What a step may do to each variable *)

AnnounceMove ==
    \/ UNCHANGED announceQ
    \/ \E n, m \in Node : UserConnects(n, m)
    \/ \E n \in Node : HandleAnnouncement(n)
    \/ \E w \in wire : ReceiveGossip(w)
    \/ \E n \in Node, c \in DOMAIN conns : Teardown(n, c)

HandlingMove ==
    \/ UNCHANGED handling
    \/ \E n, m \in Node : HearEachOther(n, m)
    \/ \E n \in Node : HandleAnnouncement(n) \/ PunchSucceeds(n)
    \/ \E nodes : EndPunches(nodes)

DiscoveredMove ==
    \/ \A n \in Node : discovered'[n] \subseteq discovered[n]
    \/ \E n \in Node : HandleAnnouncement(n) \/ PunchSucceeds(n)
    \/ \E n, m \in Node : ServiceResolved(n, m)

DialMove ==
    \/ UNCHANGED dial
    \/ \E n \in Node : \E d \in discovered[n] : BeginOutboundConnect(n, d)
    \/ \E n, m \in Node : HandshakeSucceeds(n, m) \/ CertificateRefused(n, m) \/ HandshakeFails(n, m)

LinkMove ==
    \/ UNCHANGED <<peers, conns, ends>>
    \/ \E n, m \in Node : HandshakeSucceeds(n, m) \/ CertificateRefused(n, m)
    \/ \E n \in Node, c \in DOMAIN conns : Install(n, c) \/ Teardown(n, c)
    \/ \E c \in DOMAIN conns : ConnectionLost(c)
    \/ \E w \in wire : ReceiveSelfAnnouncement(w)

WireMove ==
    \/ wire' \subseteq wire
    \/ \E n \in Node, c \in DOMAIN conns : Install(n, c)
    \/ \E w \in wire : ReceiveSelfAnnouncement(w)

Moves ==
    /\ UNCHANGED net
    /\ UNCHANGED details \/ \E n \in Node : Start(n)
    /\ AnnounceMove /\ HandlingMove /\ DiscoveredMove /\ DialMove /\ LinkMove /\ WireMove

LEMMA StepMoves == TypeParts /\ [Next]_vars => Moves
<1> SUFFICES ASSUME TypeParts, [Next]_vars PROVE Moves
    OBVIOUS
<1> USE DEF Moves, AnnounceMove, HandlingMove, DiscoveredMove, DialMove, LinkMove, WireMove,
            discoveryVars, connVars
<1>1. CASE UNCHANGED vars
      BY <1>1 DEF vars
<1>2. ASSUME NEW n \in Node, Start(n) \/ AnnounceStep(n) PROVE Moves
  <2>1. CASE Start(n)
        BY <2>1 DEF Start
  <2>2. CASE HandleAnnouncement(n)
        BY <2>2 DEF HandleAnnouncement
  <2>3. CASE PunchSucceeds(n)
        BY <2>3 DEF PunchSucceeds
  <2> QED BY <1>2, <2>1, <2>2, <2>3 DEF AnnounceStep
<1>3. ASSUME NEW n \in Node, DialStep(n) PROVE Moves
  <2>1. ASSUME NEW d \in discovered[n], BeginOutboundConnect(n, d) PROVE Moves
    <3>1. \A x \in Node : discovered'[x] \subseteq discovered[x]
          BY <2>1 DEF BeginOutboundConnect, TypeParts, AnnounceOK
    <3> QED BY <2>1, <3>1 DEF BeginOutboundConnect
  <2>2. ASSUME NEW m \in Node, HandshakeSucceeds(n, m) PROVE Moves
        BY <2>2 DEF HandshakeSucceeds
  <2>3. ASSUME NEW m \in Node, CertificateRefused(n, m) PROVE Moves
        BY <2>3 DEF CertificateRefused
  <2> QED BY <1>3, <2>1, <2>2, <2>3 DEF DialStep
<1>4. ASSUME NEW n \in Node, NEW c \in DOMAIN conns, Install(n, c) \/ Teardown(n, c) PROVE Moves
  <2>1. CASE Install(n, c)
        BY <2>1 DEF Install
  <2>2. CASE Teardown(n, c)
        BY <2>2 DEF Teardown
  <2> QED BY <1>4, <2>1, <2>2
<1>5. ASSUME NEW w \in wire, ReceiveSelfAnnouncement(w) \/ ReceiveGossip(w) PROVE Moves
  <2>1. CASE ReceiveSelfAnnouncement(w)
        BY <2>1 DEF ReceiveSelfAnnouncement
  <2>2. CASE ReceiveGossip(w)
        BY <2>2 DEF ReceiveGossip
  <2> QED BY <1>5, <2>1, <2>2
<1>6. CASE EnvironmentStep
  <2>1. ASSUME NEW n \in Node, NEW m \in Node, UserConnects(n, m) PROVE Moves
        BY <2>1 DEF UserConnects
  <2>2. ASSUME NEW n \in Node, NEW m \in Node, ServiceResolved(n, m) PROVE Moves
        BY <2>2 DEF ServiceResolved
  <2>3. ASSUME NEW n \in Node, NEW m \in Node, HandshakeFails(n, m) PROVE Moves
        BY <2>3 DEF HandshakeFails
  <2>4. ASSUME NEW nodes, EndPunches(nodes) PROVE Moves
        BY <2>4 DEF EndPunches
  <2>5. ASSUME NEW c \in DOMAIN conns, ConnectionLost(c) PROVE Moves
        BY <2>5 DEF ConnectionLost, Close
  <2> QED BY <1>6, <2>1, <2>2, <2>3, <2>4, <2>5 DEF EnvironmentStep, PunchFails
<1>7. CASE Timeouts
      BY <1>7 DEF Timeouts, PunchesTimeOut, EndPunches
<1>8. ASSUME NEW n \in Node, NEW m \in Node, HearEachOther(n, m) PROVE Moves
      BY <1>8 DEF HearEachOther
<1> QED BY <1>1, <1>2, <1>3, <1>4, <1>5, <1>6, <1>7, <1>8 DEF Next, ConnStep, Receive

-----------------------------------------------------------------------------
(* NAT types *)

\* The answers of two servers at different addresses tell the NAT.
LEMMA MeasuresTheNat ==
    ASSUME NatOK, NEW n \in Node, NEW i \in DOMAIN ServerAddress, NEW j \in DOMAIN ServerAddress,
           TwoServers(i, j)
    PROVE  Measured(Mapped(n, ServerAddress[i]), Mapped(n, ServerAddress[j])) = net.nat[n]
<1>1. ServerAddress[i] \in Nat /\ ServerAddress[j] \in Nat /\ ServerAddress[i] # ServerAddress[j]
      BY DiscoveryAssumption DEF DiscoveryAssumption, TwoServers
<1>2. net.nat[n] \in Kind
      BY Bounds DEF NatOK, Network
<1>3. CASE net.nat[n] = "Symmetric"
  <2>1. \A address : Mapped(n, address) = 1 + address
        BY <1>3 DEF Mapped
  <2> QED BY <1>1, <1>3, <2>1 DEF Measured
<1>4. CASE net.nat[n] # "Symmetric"
      BY <1>2, <1>4 DEF Measured, Mapped, Kind
<1> QED BY <1>3, <1>4

LEMMA NatStep == TypeParts /\ NatMeasured /\ [Next]_vars => NatMeasured'
<1> SUFFICES ASSUME TypeParts, NatMeasured, [Next]_vars PROVE NatMeasured'
    OBVIOUS
<1>1. UNCHANGED net
      BY StepMoves DEF Moves
<1>2. CASE UNCHANGED details
      BY <1>1, <1>2 DEF NatMeasured
<1>3. ASSUME NEW n \in Node, Start(n) PROVE NatMeasured'
  <2>1. PICK i \in DOMAIN ServerAddress, j \in DOMAIN ServerAddress :
            /\ TwoServers(i, j)
            /\ details' = [details EXCEPT
                   ![n] = Measured(Mapped(n, ServerAddress[i]), Mapped(n, ServerAddress[j]))]
        BY <1>3 DEF Start, Decisive
  <2>2. details' = [details EXCEPT ![n] = net.nat[n]]
        BY <2>1, MeasuresTheNat DEF TypeParts
  <2> QED BY <1>1, <2>2 DEF NatMeasured, TypeParts, NatOK
<1> QED BY <1>2, <1>3, StepMoves DEF Moves

\* A node takes its NAT for what it is: whichever servers it is given, and
\* whichever of them answer (stun_test, multipe_attempt_stun_query).
THEOREM NatCorrect == Spec => []NatMeasured
<1>1. Init => NatMeasured
      BY DEF Init, NatMeasured
<1>2. TypeOK /\ NatMeasured /\ [Next]_vars => NatMeasured'
      BY NatStep, TypeSplit
<1> QED BY <1>1, <1>2, TypeCorrect, PTL DEF Spec

-----------------------------------------------------------------------------
(* Who dials *)

Up(n, m) == details[n] # None /\ details[m] # None

\* A reason to dial: both nodes are up, and the tie-break of the way in which they
\* learnt of each other chose n.
Sanctioned(n, m, method) ==
    /\ n # m /\ Up(n, m)
    /\ method = "Gossip" => DialsThem(n, m, method)
    /\ method = "Mdns" => OutranksOnLan(n, m)

AnnouncedUp == \A n, m \in Node : Queued(announceQ[n], m) => Up(n, m)
HandledUp == \A n \in Node :
                 handling[n] # None => n # handling[n].peer /\ Up(n, handling[n].peer)
DialsSanctioned ==
    /\ \A n \in Node : \A d \in discovered[n] : Sanctioned(n, d.peer, d.method)
    /\ \A n, m \in Node : dial[n][m] # None => Sanctioned(n, m, dial[n][m].method)
ConnsUp ==
    /\ \A c \in DOMAIN conns : conns[c].from # conns[c].to /\ Up(conns[c].from, conns[c].to)
    /\ \A c \in Conn, n \in Node : ends[c][n].phase # "none" =>
           c \in DOMAIN conns /\ n \in {conns[c].from, conns[c].to}
WireUp == \A w \in wire : Up(w.to, w.about)

\* An entry is of a connection of its two peers, which is listed at this end.
EntriesListed ==
    \A n, m \in Node : peers[n][m] # None =>
        /\ peers[n][m].conn \in DOMAIN conns
        /\ ends[peers[n][m].conn][n].phase = "listed"
        /\ Remote(peers[n][m].conn, n) = m

\* No end of an open connection has given it up, and what an end has listed is in
\* its table.
OpenIsListed ==
    \A c \in DOMAIN conns : conns[c].open =>
        \A n \in {conns[c].from, conns[c].to} :
            /\ ends[c][n].phase # "none"
            /\ ends[c][n].phase = "listed" =>
                   peers[n][Remote(c, n)] # None /\ peers[n][Remote(c, n)].conn = c

LearnInv ==
    /\ AnnouncedUp /\ HandledUp /\ DialsSanctioned
    /\ ConnsUp /\ EntriesListed /\ OpenIsListed /\ WireUp

LEMMA InitLearn == Init => LearnInv
BY NoneQueued DEF Init, LearnInv, AnnouncedUp, HandledUp, DialsSanctioned, ConnsUp, EntriesListed,
   OpenIsListed, WireUp, NoEnd

\* A node that is up stays up and keeps its NAT.
LEMMA UpStays ==
    ASSUME TypeParts, Moves
    PROVE  /\ \A n \in Node : details[n] # None => details'[n] = details[n]
           /\ \A n, m \in Node : Up(n, m) => Up(n, m)'
<1>1. \A n \in Node : details[n] # None => details'[n] = details[n]
  <2>1. ASSUME NEW n \in Node, Start(n)
        PROVE  \A x \in Node : details[x] # None => details'[x] = details[x]
        BY <2>1 DEF Start, TypeParts, NatOK
  <2> QED BY <2>1 DEF Moves
<1> QED BY <1>1 DEF Up

LEMMA SanctionStays ==
    ASSUME TypeParts, Moves, NEW n \in Node, NEW m \in Node, NEW method, Sanctioned(n, m, method)
    PROVE  Sanctioned(n, m, method)'
<1>1. details'[n] = details[n] /\ details'[m] = details[m] /\ Up(n, m)'
      BY UpStays DEF Sanctioned, Up
<1> QED BY <1>1 DEF Sanctioned, DialsThem, Outranks, OutranksOnLan, Both

\* The two sides of a connection, and what it adds.
LEMMA ConnectAdds ==
    ASSUME TypeParts, NEW n \in Node, NEW m \in Node, NEW open, NEW theirs,
           Connect(n, m, open, theirs)
    PROVE  \E c \in Conn :
             /\ c \notin DOMAIN conns /\ DOMAIN conns' = DOMAIN conns \cup {c}
             /\ conns'[c] = [from |-> n, to |-> m, open |-> open]
             /\ \A x \in DOMAIN conns : conns'[x] = conns[x]
             /\ \A x \in Conn, y \in Node : ends'[x][y] =
                  IF x # c THEN ends[x][y]
                  ELSE IF y = n THEN [phase |-> "fresh", knows |-> TRUE]
                  ELSE IF y = m THEN theirs ELSE NoEnd
<1> DEFINE c == Len(conns) + 1
<1>1. /\ DOMAIN conns = 1..Len(conns) /\ Len(conns) \in Nat
      /\ conns \in Seq([from : Node, to : Node, open : BOOLEAN])
      BY DEF TypeParts, LinkOK
<1>2. c \in Conn /\ c \notin DOMAIN conns
      BY <1>1, Bounds DEF Connect, Conn
<1>3. conns' = Append(conns, [from |-> n, to |-> m, open |-> open])
      BY DEF Connect
<1>4. /\ DOMAIN conns' = 1..(Len(conns) + 1)
      /\ conns'[c] = [from |-> n, to |-> m, open |-> open]
      /\ \A x \in 1..Len(conns) : conns'[x] = conns[x]
      BY <1>1, <1>3
<1>5. 1..(Len(conns) + 1) = DOMAIN conns \cup {c}
      BY <1>1
<1>6. \A x \in Conn, y \in Node : ends'[x][y] =
        IF x # c THEN ends[x][y]
        ELSE IF y = n THEN [phase |-> "fresh", knows |-> TRUE]
        ELSE IF y = m THEN theirs ELSE NoEnd
      BY <1>2 DEF Connect, TypeParts, LinkOK
<1> QED BY <1>1, <1>2, <1>4, <1>5, <1>6

LEMMA CloseKeeps ==
    ASSUME TypeParts, NEW c \in DOMAIN conns, Close(c)
    PROVE  /\ DOMAIN conns' = DOMAIN conns
           /\ \A x \in DOMAIN conns :
                /\ conns'[x].from = conns[x].from /\ conns'[x].to = conns[x].to
                /\ conns'[x].open <=> x # c /\ conns[x].open
                /\ \A n : Remote(x, n)' = Remote(x, n)
<1>1. \A x \in DOMAIN conns : conns[x] \in [from : Node, to : Node, open : BOOLEAN]
      BY RemoteTypes
<1>2. conns' = [conns EXCEPT ![c].open = FALSE]
      BY DEF Close
<1>3. /\ DOMAIN conns' = DOMAIN conns
      /\ \A x \in DOMAIN conns :
           conns'[x] = IF x = c THEN [conns[x] EXCEPT !.open = FALSE] ELSE conns[x]
      BY <1>2
<1>4. \A x \in DOMAIN conns :
        /\ conns'[x].from = conns[x].from /\ conns'[x].to = conns[x].to
        /\ conns'[x].open <=> x # c /\ conns[x].open
      BY <1>1, <1>3
<1> QED BY <1>3, <1>4 DEF Remote

LEMMA AnnouncedStep == TypeParts /\ Moves /\ LearnInv => AnnouncedUp'
<1> SUFFICES ASSUME TypeParts, Moves, LearnInv, NEW n \in Node, NEW m \in Node, Queued(announceQ'[n], m)
             PROVE  Up(n, m)'
    BY DEF AnnouncedUp
<1> SUFFICES Queued(announceQ[n], m) \/ Up(n, m)
    BY UpStays DEF LearnInv, AnnouncedUp
<1> USE DEF TypeParts, AnnounceOK
<1>1. CASE UNCHANGED announceQ
      BY <1>1
<1>2. ASSUME NEW x \in Node, NEW a \in Announcement, Queue(x, a), Up(x, a.peer)
      PROVE  Queued(announceQ[n], m) \/ Up(n, m)
  <2>1. announceQ'[n] = IF n = x THEN Append(announceQ[n], a) ELSE announceQ[n]
        BY <1>2 DEF Queue
  <2> QED BY <1>2, <2>1, AppendQueued
<1>3. ASSUME NEW x \in Node, NEW y \in Node, UserConnects(x, y)
      PROVE  Queued(announceQ[n], m) \/ Up(n, m)
  <2>1. [peer |-> y, method |-> "Direct"] \in Announcement /\ Up(x, y)
        BY <1>3 DEF UserConnects, Announcement, Method, Up
  <2> QED BY <1>2, <1>3, <2>1 DEF UserConnects
<1>4. ASSUME NEW x \in Node, HandleAnnouncement(x)
      PROVE  Queued(announceQ[n], m)
  <2>1. /\ announceQ[x] # <<>>
        /\ announceQ'[n] = IF n = x THEN Tail(announceQ[n]) ELSE announceQ[n]
        BY <1>4 DEF HandleAnnouncement
  <2> QED BY <2>1, TailQueued
<1>5. ASSUME NEW w \in wire, ReceiveGossip(w)
      PROVE  Queued(announceQ[n], m) \/ Up(n, m)
  <2>1. /\ [peer |-> w.about, method |-> "Gossip"] \in Announcement /\ w.to \in Node
        /\ Up(w.to, w.about)
        BY DEF LinkOK, Announcement, Method, LearnInv, WireUp
  <2> QED BY <1>2, <1>5, <2>1 DEF ReceiveGossip
<1>6. ASSUME NEW x \in Node, NEW c \in DOMAIN conns, Teardown(x, c)
      PROVE  Queued(announceQ[n], m) \/ Up(n, m)
  <2>1. c \in Conn /\ Remote(c, x) \in Node
        BY RemoteTypes
  <2>2. x \in {conns[c].from, conns[c].to} /\ Up(conns[c].from, conns[c].to)
        BY <1>6, <2>1 DEF Teardown, LearnInv, ConnsUp
  <2>3. [peer |-> Remote(c, x), method |-> "Direct"] \in Announcement /\ Up(x, Remote(c, x))
        BY <2>1, <2>2 DEF Announcement, Method, Up, Remote
  <2>4. CASE Queue(x, [peer |-> Remote(c, x), method |-> "Direct"])
        BY <1>2, <2>3, <2>4
  <2> QED BY <1>1, <1>6, <2>4 DEF Teardown
<1> QED BY <1>1, <1>3, <1>4, <1>5, <1>6 DEF Moves, AnnounceMove

\* The announcement that is handled names a node that is up.
LEMMA HandledNow ==
    ASSUME TypeParts, LearnInv, NEW n \in Node, HandleAnnouncement(n)
    PROVE  /\ Head(announceQ[n]).peer \in Node /\ Head(announceQ[n]).method \in {"Direct", "Gossip"}
           /\ Up(n, Head(announceQ[n]).peer)
<1>1. announceQ[n] \in Seq(Announcement) /\ announceQ[n] # <<>>
      BY DEF HandleAnnouncement, TypeParts, AnnounceOK
<1>2. Head(announceQ[n]) \in Announcement
      BY <1>1, TailQueued
<1>3. Head(announceQ[n]).peer \in Node /\ Head(announceQ[n]).method \in {"Direct", "Gossip"}
      BY <1>2 DEF Announcement
<1>4. Queued(announceQ[n], Head(announceQ[n]).peer)
      BY <1>1, <1>3, TailQueued
<1> QED BY <1>3, <1>4 DEF LearnInv, AnnouncedUp

HandledUpNext(n) ==
    n # handling'[n].peer /\ details'[n] # None /\ details'[handling'[n].peer] # None

LEMMA HandledStep == TypeParts /\ Moves /\ LearnInv => HandledUp'
<1> SUFFICES ASSUME TypeParts, Moves, LearnInv, NEW n \in Node, handling'[n] # None
             PROVE  HandledUpNext(n)
    BY DEF HandledUp, HandledUpNext, Up
<1> USE DEF TypeParts, AnnounceOK, HandledUpNext
<1>1. CASE handling[n] # None /\ handling'[n].peer = handling[n].peer
  <2>1. handling[n].peer \in Node /\ n # handling[n].peer /\ Up(n, handling[n].peer)
        BY <1>1 DEF LearnInv, HandledUp
  <2> QED BY <1>1, <2>1, UpStays DEF Up
<1>2. CASE UNCHANGED handling
      BY <1>1, <1>2
<1>3. ASSUME NEW x \in Node, HandleAnnouncement(x)
      PROVE  HandledUpNext(n)
  <2> DEFINE a == Head(announceQ[x])
  <2>1. a.peer \in Node /\ Up(x, a.peer)
        BY <1>3, HandledNow
  <2>2. CASE UNCHANGED handling
        BY <1>2, <2>2
  <2>3. CASE /\ handling' = [handling EXCEPT
                     ![x] = [peer |-> a.peer, method |-> a.method, met |-> FALSE]]
             /\ a.peer # x
    <3>1. CASE n = x
          BY <2>1, <2>3, <3>1, UpStays DEF Up
    <3>2. CASE n # x
          BY <1>1, <2>3, <3>2
    <3> QED BY <3>1, <3>2
  <2> QED BY <1>3, <2>2, <2>3 DEF HandleAnnouncement
<1>4. ASSUME NEW x \in Node, NEW y \in Node, HearEachOther(x, y)
      PROVE  HandledUpNext(n)
  <2>1. handling[n] # None
        BY <1>4 DEF HearEachOther, Punching
  <2>2. handling'[n].peer = handling[n].peer
        BY <1>4, <2>1 DEF HearEachOther
  <2> QED BY <1>1, <2>1, <2>2
<1>5. ASSUME NEW x \in Node, PunchSucceeds(x)
      PROVE  HandledUpNext(n)
      BY <1>1, <1>5 DEF PunchSucceeds
<1>6. ASSUME NEW nodes, EndPunches(nodes)
      PROVE  HandledUpNext(n)
      BY <1>1, <1>6 DEF EndPunches
<1> QED BY <1>2, <1>3, <1>4, <1>5, <1>6 DEF Moves, HandlingMove

LEMMA ResolveSanctioned ==
    ASSUME TypeParts, NEW n \in Node, NEW m \in Node, NEW method \in {"Direct", "Gossip"},
           Resolve(n, m, method), n # m, Up(n, m),
           NEW x \in Node, NEW d \in discovered'[x]
    PROVE  d \in discovered[x] \/ Sanctioned(x, d.peer, d.method)
<1>1. CASE DialsThem(n, m, method)
  <2> DEFINE new == [peer |-> m, method |-> method, via |-> "public"]
  <2>1. discovered'[x] = IF x = n THEN discovered[x] \cup {new} ELSE discovered[x]
        BY <1>1 DEF Resolve, TypeParts, AnnounceOK
  <2>2. d \in discovered[x] \/ (x = n /\ d = new)
        BY <2>1
  <2>3. Sanctioned(n, m, method)
        BY <1>1 DEF Sanctioned
  <2> QED BY <2>2, <2>3
<1>2. CASE ~DialsThem(n, m, method)
      BY <1>2 DEF Resolve
<1> QED BY <1>1, <1>2

LEMMA DiscoveredStep ==
    ASSUME TypeParts, Moves, LearnInv, NEW n \in Node, NEW d \in discovered'[n]
    PROVE  d \in discovered[n] \/ Sanctioned(n, d.peer, d.method)
<1> USE DEF TypeParts, AnnounceOK
<1>1. CASE \A x \in Node : discovered'[x] \subseteq discovered[x]
      BY <1>1
<1>2. ASSUME NEW x \in Node, HandleAnnouncement(x)
      PROVE  d \in discovered[n] \/ Sanctioned(n, d.peer, d.method)
  <2> DEFINE a == Head(announceQ[x])
  <2>1. CASE UNCHANGED discovered
        BY <2>1
  <2>2. CASE x # a.peer /\ Resolve(x, a.peer, a.method)
        BY <1>2, <2>2, HandledNow, ResolveSanctioned
  <2> QED BY <1>2, <2>1, <2>2 DEF HandleAnnouncement
<1>3. ASSUME NEW x \in Node, PunchSucceeds(x)
      PROVE  d \in discovered[n] \/ Sanctioned(n, d.peer, d.method)
  <2>1. /\ handling[x].peer \in Node /\ handling[x].method \in {"Direct", "Gossip"}
        /\ x # handling[x].peer /\ Up(x, handling[x].peer)
        BY <1>3 DEF PunchSucceeds, LearnInv, HandledUp
  <2> QED BY <1>3, <2>1, ResolveSanctioned DEF PunchSucceeds
<1>4. ASSUME NEW x \in Node, NEW y \in Node, ServiceResolved(x, y)
      PROVE  d \in discovered[n] \/ Sanctioned(n, d.peer, d.method)
  <2>1. CASE UNCHANGED discovered
        BY <2>1
  <2>2. CASE /\ OutranksOnLan(x, y)
             /\ discovered' = [discovered EXCEPT
                    ![x] = @ \cup {[peer |-> y, method |-> "Mdns", via |-> "lan"]}]
    <3>1. x # y
          BY <2>2, Ranks DEF OutranksOnLan
    <3>2. Sanctioned(x, y, "Mdns")
          BY <1>4, <2>2, <3>1 DEF ServiceResolved, Sanctioned, Up
    <3> QED BY <2>2, <3>2
  <2> QED BY <1>4, <2>1, <2>2 DEF ServiceResolved
<1> QED BY <1>1, <1>2, <1>3, <1>4 DEF Moves, DiscoveredMove

LEMMA DialStepSanctioned ==
    ASSUME TypeParts, Moves, LearnInv, NEW n \in Node, NEW m \in Node, dial'[n][m] # None
    PROVE  Sanctioned(n, m, dial'[n][m].method)
<1> USE DEF TypeParts, DialOK
<1>1. CASE dial[n][m] # None /\ dial'[n][m].method = dial[n][m].method
      BY <1>1 DEF LearnInv, DialsSanctioned
<1>2. CASE UNCHANGED dial
      BY <1>1, <1>2
<1>3. ASSUME NEW x \in Node, NEW d \in discovered[x], BeginOutboundConnect(x, d)
      PROVE  Sanctioned(n, m, dial'[n][m].method)
  <2>1. Sanctioned(x, d.peer, d.method) /\ d.peer \in Node
        BY DEF LearnInv, DialsSanctioned, AnnounceOK, Discovered
  <2>2. CASE dial' = [dial EXCEPT ![x][d.peer] =
                         [method |-> d.method, via |-> d.via, attempt |-> 1]]
    <3>1. CASE x = n /\ d.peer = m
          BY <2>1, <2>2, <3>1
    <3>2. CASE ~(x = n /\ d.peer = m)
          BY <1>1, <2>1, <2>2, <3>2
    <3> QED BY <3>1, <3>2
  <2> QED BY <1>2, <1>3, <2>2 DEF BeginOutboundConnect
<1>4. ASSUME NEW x \in Node, NEW y \in Node, dial' = [dial EXCEPT ![x][y] = None]
      PROVE  Sanctioned(n, m, dial'[n][m].method)
      BY <1>1, <1>4
<1>5. ASSUME NEW x \in Node, NEW y \in Node, HandshakeFails(x, y)
      PROVE  Sanctioned(n, m, dial'[n][m].method)
  <2> DEFINE d == dial[x][y]
  <2>1. d \in Dialled /\ d # None
        BY <1>5 DEF HandshakeFails
  <2>2. CASE dial' = [dial EXCEPT ![x][y] = None]
        BY <1>4, <2>2
  <2>3. CASE dial' = [dial EXCEPT ![x][y] = [d EXCEPT !.attempt = d.attempt + 1]]
    <3>1. [d EXCEPT !.attempt = d.attempt + 1].method = d.method
          BY <2>1 DEF Dialled
    <3>2. CASE x = n /\ y = m
          BY <1>1, <2>1, <2>3, <3>1, <3>2
    <3>3. CASE ~(x = n /\ y = m)
          BY <1>1, <2>3, <3>3
    <3> QED BY <3>2, <3>3
  <2> QED BY <1>5, <2>2, <2>3 DEF HandshakeFails
<1>6. ASSUME NEW x \in Node, NEW y \in Node, HandshakeSucceeds(x, y) \/ CertificateRefused(x, y)
      PROVE  Sanctioned(n, m, dial'[n][m].method)
      BY <1>4, <1>6 DEF HandshakeSucceeds, CertificateRefused, Connect
<1> QED BY <1>2, <1>3, <1>5, <1>6 DEF Moves, DialMove

LEMMA SanctionedStep == TypeParts /\ TypeParts' /\ Moves /\ LearnInv => DialsSanctioned'
<1> SUFFICES ASSUME TypeParts, TypeParts', Moves, LearnInv PROVE DialsSanctioned'
    OBVIOUS
<1>1. ASSUME NEW n \in Node, NEW d \in discovered'[n] PROVE Sanctioned(n, d.peer, d.method)'
  <2>1. Sanctioned(n, d.peer, d.method)
        BY <1>1, DiscoveredStep DEF LearnInv, DialsSanctioned
  <2>2. d.peer \in Node
        BY DEF TypeParts, AnnounceOK, Discovered
  <2> QED BY <2>1, <2>2, SanctionStays
<1>2. ASSUME NEW n \in Node, NEW m \in Node, dial'[n][m] # None
      PROVE  \E method : method = dial'[n][m].method /\ Sanctioned(n, m, method)'
  <2>1. PICK method : method = dial'[n][m].method
        OBVIOUS
  <2>2. Sanctioned(n, m, method)
        BY <1>2, <2>1, DialStepSanctioned
  <2> QED BY <2>1, <2>2, SanctionStays
<1> QED BY <1>1, <1>2 DEF DialsSanctioned, Sanctioned, Up, DialsThem, Both, Outranks, OutranksOnLan

-----------------------------------------------------------------------------
(* Connections and tables *)

\* The parts that a step does not touch.
LEMMA KeptLinks ==
    ASSUME TypeParts, Moves, LearnInv
    PROVE  /\ UNCHANGED <<conns, ends>> => ConnsUp'
           /\ UNCHANGED <<peers, conns, ends>> => EntriesListed' /\ OpenIsListed'
<1>1. ASSUME UNCHANGED <<conns, ends>> PROVE ConnsUp'
  <2>1. \A c \in DOMAIN conns : conns[c].from \in Node /\ conns[c].to \in Node
        BY RemoteTypes
  <2> QED BY <1>1, <2>1, UpStays DEF LearnInv, ConnsUp
<1>2. ASSUME UNCHANGED <<peers, conns, ends>> PROVE EntriesListed' /\ OpenIsListed'
  <2>1. EntriesListed'
        BY <1>2 DEF LearnInv, EntriesListed, Remote
  <2>2. OpenIsListed'
        BY <1>2 DEF LearnInv, OpenIsListed, Remote
  <2> QED BY <2>1, <2>2
<1> QED BY <1>1, <1>2

LEMMA ConnectLinks ==
    ASSUME TypeParts, Moves, LearnInv, NEW n \in Node, NEW m \in Node, dial[n][m] # None,
           NEW open, NEW theirs, Connect(n, m, open, theirs), UNCHANGED peers,
           \/ theirs = NoEnd /\ open = FALSE
           \/ theirs.phase = "fresh"
    PROVE  ConnsUp' /\ EntriesListed' /\ OpenIsListed'
<1>1. PICK c \in Conn :
        /\ c \notin DOMAIN conns /\ DOMAIN conns' = DOMAIN conns \cup {c}
        /\ conns'[c] = [from |-> n, to |-> m, open |-> open]
        /\ \A x \in DOMAIN conns : conns'[x] = conns[x]
        /\ \A x \in Conn, y \in Node : ends'[x][y] =
             IF x # c THEN ends[x][y]
             ELSE IF y = n THEN [phase |-> "fresh", knows |-> TRUE]
             ELSE IF y = m THEN theirs ELSE NoEnd
      BY ConnectAdds
<1>2. n # m /\ Up(n, m)' /\ Up(n, m)
      BY UpStays DEF LearnInv, DialsSanctioned, Sanctioned
<1>3. \A x \in DOMAIN conns : /\ x \in Conn /\ conns[x].from \in Node /\ conns[x].to \in Node
                              /\ \A y : Remote(x, y)' = Remote(x, y)
      BY <1>1, RemoteTypes DEF Remote
<1>4. ConnsUp'
  <2>1. \A x \in DOMAIN conns' : conns'[x].from # conns'[x].to
                                 /\ details'[conns'[x].from] # None /\ details'[conns'[x].to] # None
        BY <1>1, <1>2, <1>3, UpStays DEF LearnInv, ConnsUp, Up
  <2>2. \A x \in Conn, y \in Node : ends'[x][y].phase # "none" =>
            x \in DOMAIN conns' /\ y \in {conns'[x].from, conns'[x].to}
        BY <1>1 DEF LearnInv, ConnsUp, NoEnd
  <2> QED BY <2>1, <2>2 DEF ConnsUp, Up
<1>5. EntriesListed'
      BY <1>1, <1>3 DEF LearnInv, EntriesListed
<1>6. OpenIsListed'
  <2>1. ASSUME NEW x \in DOMAIN conns, conns[x].open, NEW y \in {conns[x].from, conns[x].to}
        PROVE  /\ ends'[x][y].phase # "none"
               /\ ends'[x][y].phase = "listed" =>
                      peers'[y][Remote(x, y)'] # None /\ peers'[y][Remote(x, y)'].conn = x
        BY <1>1, <1>3, <2>1 DEF LearnInv, OpenIsListed
  <2>2. ASSUME open = TRUE, NEW y \in {n, m}
        PROVE  ends'[c][y].phase = "fresh"
        BY <1>1, <1>2, <2>2 DEF NoEnd
  <2> QED BY <1>1, <2>1, <2>2 DEF OpenIsListed
<1> QED BY <1>4, <1>5, <1>6

\* Closing a connection, and giving up an end of it that is not listed or closed.
LEMMA CloseLinks ==
    ASSUME TypeParts, Moves, LearnInv, NEW c \in DOMAIN conns, Close(c), UNCHANGED peers,
           \/ UNCHANGED ends
           \/ \E n \in Node : ends[c][n].phase = "fresh" /\ ends' = [ends EXCEPT ![c][n] = NoEnd]
    PROVE  ConnsUp' /\ EntriesListed' /\ OpenIsListed'
<1>1. /\ DOMAIN conns' = DOMAIN conns
      /\ \A x \in DOMAIN conns :
           /\ conns'[x].from = conns[x].from /\ conns'[x].to = conns[x].to
           /\ conns'[x].open <=> x # c /\ conns[x].open
           /\ \A n : Remote(x, n)' = Remote(x, n)
      BY CloseKeeps
<1>2. \A x \in DOMAIN conns : x \in Conn /\ conns[x].from \in Node /\ conns[x].to \in Node
      BY RemoteTypes
<1>3. \A x \in Conn, y \in Node :
        \/ ends'[x][y] = ends[x][y]
        \/ x = c /\ ends'[x][y] = NoEnd /\ ends[x][y].phase = "fresh"
  <2>1. c \in Conn
        BY <1>2
  <2> QED BY <2>1 DEF TypeParts, LinkOK
<1>4. ConnsUp'
  <2>1. \A x \in DOMAIN conns' : conns'[x].from # conns'[x].to
                                 /\ details'[conns'[x].from] # None /\ details'[conns'[x].to] # None
        BY <1>1, <1>2, UpStays DEF LearnInv, ConnsUp, Up
  <2>2. \A x \in Conn, y \in Node : ends'[x][y].phase # "none" =>
            x \in DOMAIN conns' /\ y \in {conns'[x].from, conns'[x].to}
        BY <1>1, <1>3 DEF LearnInv, ConnsUp, NoEnd
  <2> QED BY <2>1, <2>2 DEF ConnsUp, Up
<1>5. EntriesListed'
  <2>1. ASSUME NEW n \in Node, NEW m \in Node, peers[n][m] # None
        PROVE  /\ peers[n][m].conn \in DOMAIN conns'
               /\ ends'[peers[n][m].conn][n].phase = "listed"
               /\ Remote(peers[n][m].conn, n)' = m
        BY <1>1, <1>2, <1>3, <2>1 DEF LearnInv, EntriesListed
  <2> QED BY <2>1 DEF EntriesListed, Remote
<1>6. OpenIsListed'
  <2>1. ASSUME NEW x \in DOMAIN conns, x # c, conns[x].open, NEW y \in {conns[x].from, conns[x].to}
        PROVE  /\ ends'[x][y].phase # "none"
               /\ ends'[x][y].phase = "listed" =>
                      peers'[y][Remote(x, y)'] # None /\ peers'[y][Remote(x, y)'].conn = x
        BY <1>1, <1>2, <1>3, <2>1 DEF LearnInv, OpenIsListed
  <2> QED BY <1>1, <2>1 DEF OpenIsListed
<1> QED BY <1>4, <1>5, <1>6

\* An end enters its connection in the table, which has no other open one of the peer.
LEMMA ListLinks ==
    ASSUME TypeParts, Moves, LearnInv, NEW n \in Node, NEW c \in DOMAIN conns, NEW m,
           m = Remote(c, n), ends[c][n].phase = "fresh", List(n, c, m),
           ~(peers[n][m] # None /\ conns[peers[n][m].conn].open)
    PROVE  ConnsUp' /\ EntriesListed' /\ OpenIsListed'
<1>1. \A x \in DOMAIN conns : x \in Conn /\ conns[x].from \in Node /\ conns[x].to \in Node
      BY RemoteTypes
<1>2. m \in Node /\ ends[c][n] \in End /\ c \in Conn
      BY <1>1, RemoteTypes DEF TypeParts, LinkOK
<1>3. UNCHANGED conns /\ \A x, y : Remote(x, y)' = Remote(x, y)
      BY DEF List, Remote
<1>4. \A x \in Conn, y \in Node :
        ends'[x][y].phase = IF x = c /\ y = n THEN "listed" ELSE ends[x][y].phase
      BY <1>2 DEF List, TypeParts, LinkOK, End
<1>5. \A x, y \in Node : peers'[x][y] = IF x = n /\ y = m
                                        THEN [conn |-> c, knows |-> ends[c][n].knows]
                                        ELSE peers[x][y]
      BY <1>2 DEF List, TypeParts, TableOK
<1>6. [conn |-> c, knows |-> ends[c][n].knows] # None
      BY <1>2, NoneIsNothing DEF Entry, End
<1>7. ConnsUp'
  <2>1. \A x \in DOMAIN conns' : conns'[x].from # conns'[x].to
                                 /\ details'[conns'[x].from] # None /\ details'[conns'[x].to] # None
        BY <1>1, <1>3, UpStays DEF LearnInv, ConnsUp, Up
  <2>2. \A x \in Conn, y \in Node : ends'[x][y].phase # "none" =>
            x \in DOMAIN conns' /\ y \in {conns'[x].from, conns'[x].to}
        BY <1>3, <1>4 DEF LearnInv, ConnsUp
  <2> QED BY <2>1, <2>2 DEF ConnsUp, Up
<1>8. EntriesListed'
      BY <1>1, <1>2, <1>3, <1>4, <1>5 DEF LearnInv, EntriesListed
<1>9. OpenIsListed'
  <2> SUFFICES ASSUME NEW x \in DOMAIN conns, conns[x].open,
                      NEW y \in {conns[x].from, conns[x].to}
               PROVE  /\ ends'[x][y].phase # "none"
                      /\ ends'[x][y].phase = "listed" =>
                             peers'[y][Remote(x, y)] # None /\ peers'[y][Remote(x, y)].conn = x
      BY <1>3 DEF OpenIsListed
  <2>1. y \in Node /\ x \in Conn /\ Remote(x, y) \in Node
        BY <1>1, RemoteTypes
  <2>2. CASE x = c /\ y = n
        BY <1>2, <1>4, <1>5, <1>6, <2>2
  <2>3. CASE ~(x = c /\ y = n)
    <3>1. ends'[x][y].phase = ends[x][y].phase /\ ends[x][y].phase # "none"
          BY <1>4, <2>1, <2>3 DEF LearnInv, OpenIsListed
    <3>2. ends[x][y].phase = "listed" =>
              peers[y][Remote(x, y)] # None /\ peers[y][Remote(x, y)].conn = x
          BY DEF LearnInv, OpenIsListed
    <3>3. CASE y = n /\ Remote(x, y) = m
          BY <3>1, <3>2, <3>3
    <3>4. CASE ~(y = n /\ Remote(x, y) = m)
          BY <1>5, <2>1, <3>1, <3>2, <3>4
    <3> QED BY <3>3, <3>4
  <2> QED BY <2>2, <2>3
<1> QED BY <1>7, <1>8, <1>9

LEMMA TeardownLinks ==
    ASSUME TypeParts, Moves, LearnInv, NEW n \in Node, NEW c \in DOMAIN conns, Teardown(n, c)
    PROVE  ConnsUp' /\ EntriesListed' /\ OpenIsListed'
<1> DEFINE m == Remote(c, n)
<1>1. \A x \in DOMAIN conns : x \in Conn /\ conns[x].from \in Node /\ conns[x].to \in Node
                              /\ \A y : Remote(x, y) \in Node
      BY RemoteTypes
<1>2. UNCHANGED conns /\ \A x, y : Remote(x, y)' = Remote(x, y)
      BY DEF Teardown, Remote
<1>3. ~conns[c].open /\ ends[c][n].phase = "listed" /\ n \in {conns[c].from, conns[c].to}
      BY <1>1 DEF Teardown, LearnInv, ConnsUp
<1>4. \A x \in Conn, y \in Node : ends'[x][y] = IF x = c /\ y = n THEN NoEnd ELSE ends[x][y]
      BY <1>1 DEF Teardown, TypeParts, LinkOK
<1>5. \A x, y \in Node :
        peers'[x][y] = IF x = n /\ y = m /\ peers[n][m] # None /\ peers[n][m].conn = c
                       THEN None ELSE peers[x][y]
      BY <1>1 DEF Teardown, TypeParts, TableOK
<1>6. ConnsUp'
  <2>1. \A x \in DOMAIN conns' : conns'[x].from # conns'[x].to
                                 /\ details'[conns'[x].from] # None /\ details'[conns'[x].to] # None
        BY <1>1, <1>2, UpStays DEF LearnInv, ConnsUp, Up
  <2>2. \A x \in Conn, y \in Node : ends'[x][y].phase # "none" =>
            x \in DOMAIN conns' /\ y \in {conns'[x].from, conns'[x].to}
        BY <1>2, <1>4 DEF LearnInv, ConnsUp, NoEnd
  <2> QED BY <2>1, <2>2 DEF ConnsUp, Up
<1>7. EntriesListed'
  <2>1. ASSUME NEW x \in Node, NEW y \in Node, peers'[x][y] # None
        PROVE  /\ peers'[x][y].conn \in DOMAIN conns
               /\ ends'[peers'[x][y].conn][x].phase = "listed"
               /\ Remote(peers'[x][y].conn, x) = y
    <3>1. peers'[x][y] = peers[x][y] /\ peers[x][y] # None
          BY <1>5, <2>1
    <3>2. /\ peers[x][y].conn \in DOMAIN conns
          /\ ends[peers[x][y].conn][x].phase = "listed"
          /\ Remote(peers[x][y].conn, x) = y
          BY <3>1 DEF LearnInv, EntriesListed
    <3>3. ~(peers[x][y].conn = c /\ x = n)
          BY <1>5, <2>1, <3>1, <3>2
    <3> QED BY <1>1, <1>4, <3>1, <3>2, <3>3
  <2> QED BY <1>2, <2>1 DEF EntriesListed
<1>8. OpenIsListed'
  <2>1. ASSUME NEW x \in DOMAIN conns, conns[x].open, NEW y \in {conns[x].from, conns[x].to}
        PROVE  /\ ends'[x][y].phase # "none"
               /\ ends'[x][y].phase = "listed" =>
                      peers'[y][Remote(x, y)] # None /\ peers'[y][Remote(x, y)].conn = x
    <3>1. x # c /\ y \in Node /\ x \in Conn /\ Remote(x, y) \in Node
          BY <1>1, <1>3, <2>1
    <3>2. ends'[x][y] = ends[x][y]
          BY <1>4, <3>1
    <3>3. /\ ends[x][y].phase # "none"
          /\ ends[x][y].phase = "listed" =>
                 peers[y][Remote(x, y)] # None /\ peers[y][Remote(x, y)].conn = x
          BY <2>1 DEF LearnInv, OpenIsListed
    <3> QED BY <1>5, <3>1, <3>2, <3>3
  <2> QED BY <1>2, <2>1 DEF OpenIsListed
<1> QED BY <1>6, <1>7, <1>8

\* A peer's own announcement tells its address and leaves connections alone.
LEMMA TellLinks ==
    ASSUME TypeParts, Moves, LearnInv, NEW w \in wire, ReceiveSelfAnnouncement(w)
    PROVE  ConnsUp' /\ EntriesListed' /\ OpenIsListed'
<1>1. UNCHANGED <<conns, ends>> /\ \A x, y : Remote(x, y)' = Remote(x, y)
      BY DEF ReceiveSelfAnnouncement, Remote
<1>2. w.to \in Node /\ w.about \in Node
      BY DEF TypeParts, LinkOK
<1>3. \A x, y \in Node : /\ peers'[x][y] # None <=> peers[x][y] # None
                         /\ peers[x][y] # None => peers'[x][y].conn = peers[x][y].conn
  <2>1. CASE UNCHANGED peers
        BY <2>1
  <2>2. CASE /\ peers[w.to][w.about] # None
             /\ peers' = [peers EXCEPT ![w.to][w.about].knows = TRUE]
    <3> DEFINE e == [peers[w.to][w.about] EXCEPT !.knows = TRUE]
    <3>1. peers[w.to][w.about] \in Entry /\ peers[w.to][w.about] # None
          BY <1>2, <2>2 DEF TypeParts, TableOK
    <3>2. e \in Entry /\ e.conn = peers[w.to][w.about].conn /\ e # None
          BY <3>1, NoneIsNothing DEF Entry
    <3>3. \A x, y \in Node : peers'[x][y] = IF x = w.to /\ y = w.about THEN e ELSE peers[x][y]
          BY <1>2, <2>2 DEF TypeParts, TableOK
    <3> HIDE DEF e
    <3>4. ASSUME NEW x \in Node, NEW y \in Node
          PROVE  /\ peers'[x][y] # None <=> peers[x][y] # None
                 /\ peers[x][y] # None => peers'[x][y].conn = peers[x][y].conn
      <4>1. CASE x = w.to /\ y = w.about
        <5>1. peers'[x][y] = e /\ peers[x][y] = peers[w.to][w.about]
              BY <3>3, <4>1
        <5> QED BY <3>1, <3>2, <5>1
      <4>2. CASE ~(x = w.to /\ y = w.about)
            BY <3>3, <4>2
      <4> QED BY <4>1, <4>2
    <3> QED BY <3>4
  <2> QED BY <2>1, <2>2 DEF ReceiveSelfAnnouncement
<1>4. \A x \in DOMAIN conns : conns[x].from \in Node /\ conns[x].to \in Node
                              /\ \A y : Remote(x, y) \in Node
      BY RemoteTypes
<1>5. EntriesListed'
      BY <1>1, <1>3 DEF LearnInv, EntriesListed
<1>6. OpenIsListed'
  <2>1. ASSUME NEW x \in DOMAIN conns, conns[x].open, NEW y \in {conns[x].from, conns[x].to}
        PROVE  /\ ends[x][y].phase # "none"
               /\ ends[x][y].phase = "listed" =>
                      peers'[y][Remote(x, y)] # None /\ peers'[y][Remote(x, y)].conn = x
        BY <1>3, <1>4, <2>1 DEF LearnInv, OpenIsListed
  <2> QED BY <1>1, <2>1 DEF OpenIsListed
<1> QED BY <1>1, <1>5, <1>6, KeptLinks

LEMMA LinkStep == TypeParts /\ Moves /\ LearnInv => ConnsUp' /\ EntriesListed' /\ OpenIsListed'
<1> SUFFICES ASSUME TypeParts, Moves, LearnInv PROVE ConnsUp' /\ EntriesListed' /\ OpenIsListed'
    OBVIOUS
<1>1. ASSUME NEW n \in Node, NEW m \in Node, HandshakeSucceeds(n, m)
      PROVE  ConnsUp' /\ EntriesListed' /\ OpenIsListed'
  <2>1. PICK expects \in Expectations(m, n, dial[n][m].via) :
            Connect(n, m, TRUE, [phase |-> "fresh", knows |-> expects])
        BY <1>1 DEF HandshakeSucceeds
  <2> QED BY <1>1, <2>1, ConnectLinks DEF HandshakeSucceeds
<1>2. ASSUME NEW n \in Node, NEW m \in Node, CertificateRefused(n, m)
      PROVE  ConnsUp' /\ EntriesListed' /\ OpenIsListed'
      BY <1>2, ConnectLinks DEF CertificateRefused
<1>3. ASSUME NEW n \in Node, NEW c \in DOMAIN conns, Install(n, c)
      PROVE  ConnsUp' /\ EntriesListed' /\ OpenIsListed'
  <2>1. CASE RefuseDuplicate(n, c)
        BY <1>3, <2>1, CloseLinks DEF Install, RefuseDuplicate
  <2>2. CASE /\ List(n, c, Remote(c, n))
             /\ ~(/\ peers[n][Remote(c, n)] # None
                  /\ conns[peers[n][Remote(c, n)].conn].open)
        BY <1>3, <2>2, ListLinks DEF Install
  <2> QED BY <1>3, <2>1, <2>2 DEF Install
<1>4. ASSUME NEW c \in DOMAIN conns, ConnectionLost(c)
      PROVE  ConnsUp' /\ EntriesListed' /\ OpenIsListed'
      BY <1>4, CloseLinks DEF ConnectionLost
<1> QED BY <1>1, <1>2, <1>3, <1>4, KeptLinks, TeardownLinks, TellLinks DEF Moves, LinkMove

LEMMA EntriesUp ==
    ASSUME TypeParts, LearnInv, NEW n \in Node, NEW k \in Node, peers[n][k] # None
    PROVE  Up(n, k)
<1> DEFINE c == peers[n][k].conn
<1>1. c \in DOMAIN conns /\ ends[c][n].phase # "none" /\ Remote(c, n) = k
      BY DEF LearnInv, EntriesListed
<1>2. n \in {conns[c].from, conns[c].to} /\ Up(conns[c].from, conns[c].to)
      BY <1>1, RemoteTypes DEF LearnInv, ConnsUp
<1> QED BY <1>1, <1>2 DEF Remote, Up

\* What may be sent when a connection is entered.
LEMMA ListSends ==
    ASSUME NEW n, NEW c, NEW m, List(n, c, m), NEW w \in wire'
    PROVE  \/ w \in wire
           \/ \E k \in Introductions(n, m) : w = [conn |-> c, to |-> m, about |-> k]
           \/ w = [conn |-> c, to |-> m, about |-> n]
           \/ \E k \in Others(n, m) : w = Request(n, k, m)
BY DEF List, Send

LEMMA WireStep == TypeParts /\ TypeParts' /\ Moves /\ LearnInv => WireUp'
<1> SUFFICES ASSUME TypeParts, TypeParts', Moves, LearnInv, NEW w \in wire' PROVE Up(w.to, w.about)'
    BY DEF WireUp
<1>0. w.to \in Node /\ w.about \in Node
      BY DEF TypeParts, LinkOK
<1> SUFFICES Up(w.to, w.about)
    BY <1>0, UpStays
<1>1. CASE w \in wire
      BY <1>1 DEF LearnInv, WireUp
<1>2. ASSUME NEW n \in Node, NEW c \in DOMAIN conns, Install(n, c)
      PROVE  Up(w.to, w.about)
  <2> DEFINE m == Remote(c, n)
  <2>1. m \in Node /\ c \in Conn
        BY RemoteTypes
  <2>2. n \in {conns[c].from, conns[c].to} /\ Up(conns[c].from, conns[c].to)
        BY <1>2, <2>1 DEF Install, LearnInv, ConnsUp
  <2>3. Up(n, m)
        BY <2>2 DEF Remote, Up
  <2>4. CASE RefuseDuplicate(n, c)
        BY <1>1, <2>4 DEF RefuseDuplicate, Close
  <2>5. CASE List(n, c, m)
    <3>1. CASE \E k \in Introductions(n, m) : w = [conn |-> c, to |-> m, about |-> k]
          BY <2>3, <3>1, EntriesUp DEF Introductions, Others, Up
    <3>2. CASE w = [conn |-> c, to |-> m, about |-> n]
          BY <2>3, <3>2 DEF Up
    <3>3. CASE \E k \in Others(n, m) : w = Request(n, k, m)
          BY <2>3, <3>3, EntriesUp DEF Request, Others, Up
    <3> QED BY <1>1, <2>5, <3>1, <3>2, <3>3, ListSends
  <2> QED BY <1>2, <2>4, <2>5 DEF Install
<1>3. ASSUME NEW x \in wire, ReceiveSelfAnnouncement(x)
      PROVE  Up(w.to, w.about)
  <2>1. Up(x.to, x.about) /\ x.to \in Node /\ x.about \in Node
        BY DEF LearnInv, WireUp, TypeParts, LinkOK
  <2>2. CASE \E k \in Others(x.to, x.about) : w = Request(x.to, k, x.about)
        BY <2>1, <2>2, EntriesUp DEF Request, Others, Up
  <2> QED BY <1>1, <1>3, <2>2 DEF ReceiveSelfAnnouncement, Relayed
<1> QED BY <1>1, <1>2, <1>3 DEF Moves, WireMove

LEMMA LearnStep == TypeOK /\ LearnInv /\ [Next]_vars => LearnInv'
<1> SUFFICES ASSUME TypeOK, LearnInv, [Next]_vars PROVE LearnInv'
    OBVIOUS
<1>1. TypeParts /\ TypeParts'
      BY TypeSplit, StepTypes DEF TypeParts, TypeOK, NatOK, AnnounceOK, DialOK, TableOK, LinkOK, BoundsOK
<1>2. Moves
      BY <1>1, StepMoves
<1> QED BY <1>1, <1>2, AnnouncedStep, HandledStep, SanctionedStep, LinkStep, WireStep DEF LearnInv

LEMMA LearnCorrect == Spec => []LearnInv
BY InitLearn, LearnStep, TypeCorrect, PTL DEF Spec

LEMMA OneSanctioned ==
    ASSUME NEW n \in Node, NEW m \in Node, NEW method \in {"Gossip", "Mdns"},
           Sanctioned(n, m, method)
    PROVE  ~Sanctioned(m, n, method)
BY Ranks DEF Sanctioned, DialsThem, Outranks, OutranksOnLan, Both

\* The tie-breaks of handle_peer and of the mDNS loop each choose one side, for any
\* number of nodes and whatever their NATs: of two nodes that learn of each other
\* in one way, at most one dials.
THEOREM DialsOneSided == Spec => []OneSideDials
<1>1. LearnInv => OneSideDials
  <2> SUFFICES ASSUME LearnInv, NEW n \in Node, NEW m \in Node, NEW method \in {"Gossip", "Mdns"},
                      DialsBy(n, m, method), DialsBy(m, n, method)
               PROVE  FALSE
      BY DEF OneSideDials
  <2>1. Sanctioned(n, m, method) /\ Sanctioned(m, n, method)
        BY DEF LearnInv, DialsSanctioned, DialsBy
  <2> QED BY <2>1, OneSanctioned
<1> QED BY <1>1, LearnCorrect, PTL

\* The tables of two nodes agree on an open connection once both have decided about
\* it, although each decides by itself, refuses duplicates, and replaces and
\* removes entries in an order the other does not see (handle_connection).
THEOREM TablesCorrect == Spec => []TablesAgree
<1>1. TypeOK /\ LearnInv => TablesAgree
  <2> SUFFICES ASSUME TypeParts, LearnInv, NEW n \in Node, NEW m \in Node,
                      peers[n][m] # None, conns[peers[n][m].conn].open
               PROVE  \/ ends[peers[n][m].conn][m].phase = "fresh"
                      \/ peers[m][n] # None /\ peers[m][n].conn = peers[n][m].conn
      BY TypeSplit DEF TablesAgree
  <2> DEFINE c == peers[n][m].conn
  <2>1. c \in DOMAIN conns /\ ends[c][n].phase = "listed" /\ Remote(c, n) = m
        BY DEF LearnInv, EntriesListed
  <2>2. c \in Conn
        BY <2>1, RemoteTypes
  <2>3. n \in {conns[c].from, conns[c].to} /\ conns[c].from # conns[c].to
        BY <2>1, <2>2 DEF LearnInv, ConnsUp
  <2>4. m \in {conns[c].from, conns[c].to} /\ Remote(c, m) = n
        BY <2>1, <2>3 DEF Remote
  <2>5. ends[c][m].phase \in {"none", "fresh", "listed"}
        BY <2>2 DEF TypeParts, LinkOK, End
  <2> QED BY <2>1, <2>4, <2>5 DEF LearnInv, OpenIsListed
<1> QED BY <1>1, LearnCorrect, TypeCorrect, PTL

-----------------------------------------------------------------------------
(* Who is told of whom *)

Told(h, n, m) ==
    m \in known[n] \/ Queued(announceQ[n], m) \/ Request(h, n, m) \in wire

\* Peers stay known, and a request that is no longer on its way has arrived or its
\* connection closes.
Delivered ==
    /\ \A n \in Node : known[n] \subseteq known'[n]
    /\ \A w \in wire : w \in wire' \/ ReceiveSelfAnnouncement(w) \/ ReceiveGossip(w)
                       \/ \E c \in DOMAIN conns : w.conn = c /\ Close(c)

LEMMA StepDelivers == TypeParts /\ [Next]_vars => Delivered
<1> SUFFICES ASSUME TypeParts, [Next]_vars PROVE Delivered
    OBVIOUS
<1> USE DEF TypeParts, AnnounceOK
<1>1. CASE UNCHANGED <<known, wire>>
      BY <1>1 DEF Delivered
<1>2. ASSUME NEW n \in Node, HandleAnnouncement(n) PROVE Delivered
      BY <1>2 DEF HandleAnnouncement, connVars, Delivered
<1>3. ASSUME NEW n \in Node, NEW m \in Node, ServiceResolved(n, m) PROVE Delivered
      BY <1>3 DEF ServiceResolved, connVars, Delivered
<1>4. ASSUME NEW n \in Node, NEW c \in DOMAIN conns, Install(n, c) PROVE Delivered
  <2>1. UNCHANGED known
        BY <1>4 DEF Install, discoveryVars
  <2>2. CASE Close(c)
        BY <2>1, <2>2 DEF Close, Delivered
  <2>3. CASE wire \subseteq wire'
        BY <2>1, <2>3 DEF Delivered
  <2> QED BY <1>4, <2>2, <2>3 DEF Install, RefuseDuplicate, List, Send
<1>5. ASSUME NEW c \in DOMAIN conns, ConnectionLost(c) PROVE Delivered
  <2>1. UNCHANGED known /\ Close(c)
        BY <1>5 DEF ConnectionLost, discoveryVars
  <2> QED BY <2>1 DEF Close, Delivered
<1>6. ASSUME NEW w \in wire, ReceiveSelfAnnouncement(w) PROVE Delivered
  <2>1. wire \ {w} \subseteq wire' /\ \A n \in Node : known[n] \subseteq known'[n]
        BY <1>6 DEF ReceiveSelfAnnouncement
  <2> QED BY <1>6, <2>1 DEF Delivered
<1>7. ASSUME NEW w \in wire, ReceiveGossip(w) PROVE Delivered
  <2>1. wire \ {w} \subseteq wire' /\ UNCHANGED known
        BY <1>7 DEF ReceiveGossip
  <2> QED BY <1>7, <2>1 DEF Delivered
<1>8. ASSUME NEW n \in Node, Start(n) \/ AnnounceStep(n) \/ DialStep(n) PROVE Delivered
  <2>1. CASE Start(n) \/ PunchSucceeds(n)
        BY <1>1, <2>1 DEF Start, PunchSucceeds, discoveryVars, connVars
  <2>2. ASSUME NEW d \in discovered[n], BeginOutboundConnect(n, d) PROVE Delivered
        BY <1>1, <2>2 DEF BeginOutboundConnect, connVars
  <2>3. ASSUME NEW m \in Node, HandshakeSucceeds(n, m) \/ CertificateRefused(n, m) PROVE Delivered
        BY <1>1, <2>3 DEF HandshakeSucceeds, CertificateRefused, discoveryVars
  <2> QED BY <1>2, <1>8, <2>1, <2>2, <2>3 DEF AnnounceStep, DialStep
<1>9. CASE EnvironmentStep
  <2>1. ASSUME NEW n \in Node, NEW m \in Node, UserConnects(n, m) \/ HandshakeFails(n, m)
        PROVE  Delivered
        BY <1>1, <2>1 DEF UserConnects, HandshakeFails, discoveryVars, connVars
  <2>2. ASSUME NEW n \in Node, PunchFails(n) PROVE Delivered
        BY <1>1, <2>2 DEF PunchFails, EndPunches, connVars
  <2> QED BY <1>3, <1>5, <1>9, <2>1, <2>2 DEF EnvironmentStep
<1>10. CASE Timeouts \/ \E n, m \in Node : HearEachOther(n, m)
      BY <1>1, <1>10 DEF Timeouts, PunchesTimeOut, EndPunches, HearEachOther, connVars
<1>11. ASSUME NEW n \in Node, NEW c \in DOMAIN conns, Teardown(n, c) PROVE Delivered
      BY <1>1, <1>11 DEF Teardown
<1>12. CASE UNCHANGED vars
      BY <1>1, <1>12 DEF vars, discoveryVars, connVars
<1> QED BY <1>4, <1>6, <1>7, <1>8, <1>9, <1>10, <1>11, <1>12 DEF Next, ConnStep, Receive

LEMMA IntroducedTold ==
    Introduced <=> \A h, n, m \in Node :
        /\ n # m /\ peers[h][n] # None /\ peers[h][m] # None
        /\ peers[h][m].knows /\ conns[peers[h][n].conn].open
        => Told(h, n, m)
BY DEF Introduced, Told, Queued

\* An announcement that leaves the queue has made its peer known.
LEMMA QueuedStays ==
    ASSUME TypeParts, Moves, NEW n \in Node, NEW m \in Node, Queued(announceQ[n], m)
    PROVE  Queued(announceQ[n], m)' \/ m \in known'[n]
<1> USE DEF TypeParts, AnnounceOK
<1>1. CASE UNCHANGED announceQ
      BY <1>1
<1>2. ASSUME NEW x \in Node, NEW a \in Announcement, Queue(x, a)
      PROVE  Queued(announceQ[n], m)'
  <2>1. announceQ'[n] = IF n = x THEN Append(announceQ[n], a) ELSE announceQ[n]
        BY <1>2 DEF Queue
  <2>2. Queued(announceQ'[n], m)
        BY <2>1, AppendQueued
  <2> QED BY <2>2 DEF Queued
<1>3. ASSUME NEW x \in Node, NEW y \in Node, UserConnects(x, y)
      PROVE  Queued(announceQ[n], m)'
  <2>1. [peer |-> y, method |-> "Direct"] \in Announcement
        BY DEF Announcement
  <2> QED BY <1>2, <1>3, <2>1 DEF UserConnects
<1>4. ASSUME NEW x \in Node, HandleAnnouncement(x)
      PROVE  Queued(announceQ[n], m)' \/ m \in known'[n]
  <2>1. /\ announceQ[x] # <<>>
        /\ announceQ'[n] = IF n = x THEN Tail(announceQ[n]) ELSE announceQ[n]
        /\ known' = [known EXCEPT ![x] = @ \cup {Head(announceQ[x]).peer}]
        BY <1>4 DEF HandleAnnouncement
  <2>2. CASE Queued(announceQ'[n], m)
        BY <2>2 DEF Queued
  <2>3. CASE n = x /\ Head(announceQ[n]).peer = m
        BY <2>1, <2>3
  <2> QED BY <2>1, <2>2, <2>3, TailQueued
<1>5. ASSUME NEW w \in wire, ReceiveGossip(w)
      PROVE  Queued(announceQ[n], m)'
  <2>1. [peer |-> w.about, method |-> "Gossip"] \in Announcement /\ w.to \in Node
        BY DEF LinkOK, Announcement
  <2> QED BY <1>2, <1>5, <2>1 DEF ReceiveGossip
<1>6. ASSUME NEW x \in Node, NEW c \in DOMAIN conns, Teardown(x, c)
      PROVE  Queued(announceQ[n], m)'
  <2>1. [peer |-> Remote(c, x), method |-> "Direct"] \in Announcement
        BY RemoteTypes DEF Announcement
  <2> QED BY <1>1, <1>2, <1>6, <2>1 DEF Teardown
<1> QED BY <1>1, <1>3, <1>4, <1>5, <1>6 DEF Moves, AnnounceMove

LEMMA ToldStays ==
    ASSUME TypeParts, Moves, Delivered,
           NEW h \in Node, NEW n \in Node, NEW m \in Node, Told(h, n, m),
           peers'[h][n].conn = peers[h][n].conn, conns'[peers[h][n].conn].open
    PROVE  Told(h, n, m)'
<1>1. CASE m \in known[n]
      BY <1>1 DEF Delivered, Told
<1>2. CASE Queued(announceQ[n], m)
      BY <1>2, QueuedStays DEF Told
<1>3. CASE Request(h, n, m) \in wire
  <2> DEFINE w == Request(h, n, m)
  <2>1. w.to = n /\ w.about = m /\ w.conn = peers[h][n].conn /\ Request(h, n, m)' = w
        BY DEF Request
  <2>2. CASE w \in wire'
        BY <2>1, <2>2 DEF Told
  <2>3. CASE ReceiveSelfAnnouncement(w)
    <3>1. known' = [known EXCEPT ![n] = @ \cup {m}]
          BY <2>1, <2>3 DEF ReceiveSelfAnnouncement
    <3> QED BY <3>1 DEF Told, TypeParts, AnnounceOK
  <2>4. CASE ReceiveGossip(w)
    <3>1. Queue(n, [peer |-> m, method |-> "Gossip"])
          BY <2>1, <2>4 DEF ReceiveGossip
    <3>2. announceQ[n] \in Seq(Announcement) /\ [peer |-> m, method |-> "Gossip"] \in Announcement
          BY DEF TypeParts, AnnounceOK, Announcement
    <3>3. announceQ'[n] = Append(announceQ[n], [peer |-> m, method |-> "Gossip"])
          BY <3>1 DEF Queue, TypeParts, AnnounceOK
    <3>4. Queued(announceQ'[n], m)
          BY <3>2, <3>3, AppendQueued
    <3> QED BY <3>4 DEF Told, Queued
  <2>5. ASSUME NEW c \in DOMAIN conns, w.conn = c, Close(c) PROVE FALSE
        BY <2>1, <2>5, CloseKeeps
  <2> QED BY <1>3, <2>2, <2>3, <2>4, <2>5 DEF Delivered
<1> QED BY <1>1, <1>2, <1>3 DEF Told

\* Nothing is owed to n about m that was not owed before.
LEMMA OwedBefore ==
    ASSUME TypeParts, Moves, Delivered, LearnInv, Introduced,
           NEW h \in Node, NEW n \in Node, NEW m \in Node, n # m,
           peers[h][n] # None, peers[h][m] # None, peers[h][m].knows,
           peers'[h][n].conn = peers[h][n].conn,
           conns'[peers[h][n].conn].open => conns[peers[h][n].conn].open,
           conns'[peers[h][n].conn].open
    PROVE  Told(h, n, m)'
<1>1. Told(h, n, m)
      BY IntroducedTold
<1> QED BY <1>1, ToldStays

\* When an entry is made, either the new peer or the others are told.
LEMMA ListTells ==
    ASSUME TypeParts, TypeParts', Moves, Delivered, LearnInv, Introduced,
           NEW x \in Node, NEW c \in DOMAIN conns, NEW y, y = Remote(c, x), List(x, c, y),
           NEW h \in Node, NEW n \in Node, NEW m \in Node, n # m,
           peers'[h][n] # None, peers'[h][m] # None, peers'[h][m].knows,
           conns'[peers'[h][n].conn].open
    PROVE  Told(h, n, m)'
<1>1. y \in Node /\ c \in Conn /\ UNCHANGED conns
      BY RemoteTypes DEF List
<1>2. \A i, j \in Node : peers'[i][j] = IF i = x /\ j = y
                                        THEN [conn |-> c, knows |-> ends[c][x].knows]
                                        ELSE peers[i][j]
      BY <1>1 DEF List, TypeParts, TableOK
<1>3. Request(h, n, m)' = [conn |-> peers'[h][n].conn, to |-> n, about |-> m]
      BY DEF Request
<1>4. CASE h = x /\ n = y
  <2>1. peers'[h][n].conn = c /\ peers'[h][m] = peers[h][m]
        BY <1>1, <1>2, <1>4
  <2>2. m \in Introductions(x, y)
        BY <1>4, <2>1 DEF Introductions, Others
  <2>3. [conn |-> c, to |-> y, about |-> m] \in wire'
        BY <1>1, <2>1, <2>2 DEF List, Send
  <2> QED BY <1>3, <1>4, <2>1, <2>3 DEF Told
<1>5. CASE h = x /\ m = y
  <2>1. peers'[h][n] = peers[h][n] /\ ends[c][x].knows
        BY <1>1, <1>2, <1>5
  <2>2. n \in {k \in Others(x, y) : ends[c][x].knows}
        BY <1>5, <2>1 DEF Others
  <2>3. Request(x, n, y) \in wire'
        BY <1>1, <1>5, <2>1, <2>2 DEF List, Send, Request
  <2>4. Request(h, n, m)' = Request(x, n, y)
        BY <1>5, <2>1 DEF Request
  <2> QED BY <2>3, <2>4 DEF Told
<1>6. CASE ~(h = x /\ n = y) /\ ~(h = x /\ m = y)
  <2>1. peers'[h][n] = peers[h][n] /\ peers'[h][m] = peers[h][m]
        BY <1>2, <1>6
  <2> QED BY <1>1, <2>1, OwedBefore
<1> QED BY <1>4, <1>5, <1>6

\* When a peer tells its address, the others are told.
LEMMA SelfTells ==
    ASSUME TypeParts, TypeParts', Moves, Delivered, LearnInv, Introduced,
           NEW w \in wire, ReceiveSelfAnnouncement(w),
           NEW h \in Node, NEW n \in Node, NEW m \in Node, n # m,
           peers'[h][n] # None, peers'[h][m] # None, peers'[h][m].knows,
           conns'[peers'[h][n].conn].open
    PROVE  Told(h, n, m)'
<1>1. w.to \in Node /\ w.about \in Node /\ UNCHANGED conns
      BY DEF ReceiveSelfAnnouncement, TypeParts, LinkOK
<1>2. \A i, j \in Node : i # w.to \/ j # w.about => peers'[i][j] = peers[i][j]
      BY <1>1 DEF ReceiveSelfAnnouncement, TypeParts, TableOK
<1>3. \A i, j \in Node : peers'[i][j] # None =>
          peers[i][j] # None /\ peers'[i][j].conn = peers[i][j].conn
  <2>1. CASE UNCHANGED peers
        BY <2>1
  <2>2. CASE /\ peers[w.to][w.about] # None
             /\ peers' = [peers EXCEPT ![w.to][w.about].knows = TRUE]
    <3>1. peers[w.to][w.about] # None
          BY <2>2
    <3>3. peers[w.to][w.about] \in Entry
          BY <1>1, <3>1 DEF TypeParts, TableOK
    <3>2. peers'[w.to][w.about].conn = peers[w.to][w.about].conn
          BY <1>1, <2>2, <3>3 DEF TypeParts, TableOK, Entry
    <3> QED BY <1>2, <3>1, <3>2
  <2> QED BY <2>1, <2>2 DEF ReceiveSelfAnnouncement
<1>4. peers[h][n] # None /\ peers[h][m] # None /\ peers'[h][n].conn = peers[h][n].conn
      BY <1>3
<1>5. CASE h = w.to /\ m = w.about
  <2>1. n \in Others(w.to, w.about)
        BY <1>4, <1>5 DEF Others
  <2>2. Request(h, n, m) \in Relayed(w.to, w.about)
        BY <1>5, <2>1 DEF Relayed
  <2>3. Request(h, n, m) \in wire'
        BY <1>1, <1>4, <2>2 DEF ReceiveSelfAnnouncement, Request
  <2>4. Request(h, n, m)' = Request(h, n, m)
        BY <1>4 DEF Request
  <2> QED BY <2>3, <2>4 DEF Told
<1>6. CASE ~(h = w.to /\ m = w.about)
  <2>1. peers'[h][m] = peers[h][m]
        BY <1>2, <1>6
  <2> QED BY <1>1, <1>4, <2>1, OwedBefore
<1> QED BY <1>5, <1>6

LEMMA IntroducedStep == TypeOK /\ LearnInv /\ Introduced /\ [Next]_vars => Introduced'
<1> SUFFICES ASSUME TypeOK, LearnInv, Introduced, [Next]_vars,
                    NEW h \in Node, NEW n \in Node, NEW m \in Node, n # m,
                    peers'[h][n] # None, peers'[h][m] # None, peers'[h][m].knows,
                    conns'[peers'[h][n].conn].open
             PROVE  Told(h, n, m)'
    BY DEF Introduced, Told, Queued
<1>1. TypeParts /\ TypeParts'
      BY TypeSplit, StepTypes DEF TypeParts, TypeOK, NatOK, AnnounceOK, DialOK, TableOK, LinkOK, BoundsOK
<1>2. Moves /\ Delivered
      BY <1>1, StepMoves, StepDelivers
<1>3. peers[h][n] # None => peers[h][n].conn \in DOMAIN conns
      BY DEF LearnInv, EntriesListed
<1>4. CASE /\ peers'[h][n] = peers[h][n] /\ peers'[h][m] = peers[h][m]
           /\ \A c \in DOMAIN conns : conns'[c].open => conns[c].open
      BY <1>1, <1>2, <1>3, <1>4, OwedBefore
<1>5. CASE UNCHANGED <<peers, conns, ends>>
      BY <1>4, <1>5
<1>6. ASSUME NEW x \in Node, NEW y \in Node, HandshakeSucceeds(x, y) \/ CertificateRefused(x, y)
      PROVE  Told(h, n, m)'
  <2>1. PICK open, theirs : Connect(x, y, open, theirs)
        BY <1>6 DEF HandshakeSucceeds, CertificateRefused
  <2>2. \A c \in DOMAIN conns : conns'[c] = conns[c]
        BY <1>1, <2>1, ConnectAdds
  <2>3. UNCHANGED peers
        BY <1>6 DEF HandshakeSucceeds, CertificateRefused
  <2> QED BY <1>4, <2>2, <2>3
<1>7. ASSUME NEW c \in DOMAIN conns, Close(c), UNCHANGED peers
      PROVE  Told(h, n, m)'
      BY <1>1, <1>4, <1>7, CloseKeeps
<1>8. ASSUME NEW x \in Node, NEW c \in DOMAIN conns, Install(x, c)
      PROVE  Told(h, n, m)'
      BY <1>1, <1>2, <1>7, <1>8, ListTells DEF Install, RefuseDuplicate
<1>9. ASSUME NEW x \in Node, NEW c \in DOMAIN conns, Teardown(x, c)
      PROVE  Told(h, n, m)'
  <2>1. \A i, j \in Node : peers'[i][j] = peers[i][j] \/ peers'[i][j] = None
        BY <1>1, <1>9, RemoteTypes DEF Teardown, TypeParts, TableOK
  <2>2. UNCHANGED conns
        BY <1>9 DEF Teardown
  <2> QED BY <1>4, <2>1, <2>2
<1>10. ASSUME NEW c \in DOMAIN conns, ConnectionLost(c)
       PROVE  Told(h, n, m)'
       BY <1>7, <1>10 DEF ConnectionLost
<1> QED BY <1>1, <1>2, <1>5, <1>6, <1>8, <1>9, <1>10, SelfTells DEF Moves, LinkMove

\* Whatever the order in which peers come, go, are refused or tell their address, a
\* node that is connected to two others and knows the address of one has told the
\* other, or its request is on its way (handle_connection, handle_self_announcement).
THEOREM AllIntroduced == Spec => []Introduced
<1>1. Init => Introduced
      BY DEF Init, Introduced
<1> QED BY <1>1, IntroducedStep, LearnCorrect, TypeCorrect, PTL DEF Spec
=============================================================================
