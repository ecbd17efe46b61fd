------------------------- MODULE ConnectionsProofs -------------------------
(***************************************************************************)
(* Proofs about Connections, for any peers, connections, dial slots and    *)
(* calls, any reuse of addresses and any bounds: its invariants, and that  *)
(* it implements PeerTable.                                                *)
(***************************************************************************)
EXTENDS Connections, TLAPS

USE ConnectionsAssumption DEF ConnectionsAssumption

-----------------------------------------------------------------------------
(* Types *)

\* What the phase of a task says about the names it holds.
DialPhases ==
    \A d \in Dial :
      /\ dialPc[d] # "idle" => dialName[d] \in Peer
      /\ dialPc[d] \in {"idle", "checkPending", "checkPeers", "reserve", "connect"}
           => dialTries[d] < MaxAttempts

ConnPhases ==
    \A c \in Conn :
      /\ connPc[c] # "unused" => connPeer[c] \in Peer
      /\ connPc[c] = "unused" => ~connOpen[c]
      /\ connPc[c] \in {"reconnect", "await"} => connAddr[c] \in Peer

ReqPhases ==
    \A r \in Req :
      /\ reqPc[r] \in {"await", "connected", "flag", "close", "disconnected"}
           => reqPeer[r] \in Peer
      /\ reqPc[r] \in {"flag", "close"} => reqConn[r] \in Conn

DialInv == DialTypes /\ DialPhases
ConnInv == ConnTypes /\ ConnPhases
ReqInv == ReqTypes /\ ReqPhases

TypeInv == /\ SharedTypes /\ AnnounceTypes /\ DiscoveryTypes /\ RunTypes
           /\ ShutTypes /\ DialInv /\ ConnInv /\ ReqInv

\* A group of variables that does not change keeps its types.
LEMMA Stutter ==
    ASSUME TypeInv
    PROVE  /\ UNCHANGED sharedVars => SharedTypes'
           /\ UNCHANGED announceVars => AnnounceTypes'
           /\ UNCHANGED discoveryVars => DiscoveryTypes'
           /\ UNCHANGED runVars => RunTypes'
           /\ UNCHANGED shutVars => ShutTypes'
           /\ UNCHANGED dialVars => DialInv'
           /\ UNCHANGED connVars => ConnInv'
           /\ UNCHANGED reqVars => ReqInv'
<1>1. UNCHANGED sharedVars => SharedTypes'
      BY DEF TypeInv, SharedTypes, sharedVars, tableVars, boundVars
<1>2. UNCHANGED announceVars => AnnounceTypes'
      BY DEF TypeInv, AnnounceTypes, announceVars
<1>3. UNCHANGED discoveryVars => DiscoveryTypes'
      BY DEF TypeInv, DiscoveryTypes, discoveryVars
<1>4. UNCHANGED runVars => RunTypes'
      BY DEF TypeInv, RunTypes, runVars
<1>5. UNCHANGED shutVars => ShutTypes'
      BY DEF TypeInv, ShutTypes, shutVars
<1>6. UNCHANGED dialVars => DialInv'
      BY DEF TypeInv, DialInv, DialTypes, DialPhases, dialVars
<1>7. UNCHANGED connVars => ConnInv'
      BY DEF TypeInv, ConnInv, ConnTypes, ConnPhases, connVars
<1>8. UNCHANGED reqVars => ReqInv'
      BY DEF TypeInv, ReqInv, ReqTypes, ReqPhases, reqVars
<1> QED BY <1>1, <1>2, <1>3, <1>4, <1>5, <1>6, <1>7, <1>8

LEMMA TypeInit == Init => TypeInv
<1> SUFFICES ASSUME Init PROVE TypeInv
    OBVIOUS
<1>1. SharedTypes
  <2>1. external \in 0..MaxExternal /\ badRequests \in 0..MaxBadRequests
        BY DEF Init
  <2>2. peers \in [Peer -> Conn \cup {None}] /\ peerAddr \in [Peer -> Peer \cup {None}]
        BY DEF Init
  <2> QED BY <2>1, <2>2 DEF Init, SharedTypes
<1>2. AnnounceTypes
      BY DEF Init, AnnounceTypes
<1>3. DiscoveryTypes
      BY DEF Init, DiscoveryTypes
<1>4. RunTypes
      BY DEF Init, RunTypes
<1>5. ShutTypes
      BY DEF Init, ShutTypes
<1>6. DialInv
      BY DEF Init, DialInv, DialTypes, DialPhases, DialPhase
<1>7. ConnInv
      BY DEF Init, ConnInv, ConnTypes, ConnPhases, ConnPhase
<1>8. ReqInv
      BY DEF Init, ReqInv, ReqTypes, ReqPhases
<1> QED BY <1>1, <1>2, <1>3, <1>4, <1>5, <1>6, <1>7, <1>8 DEF TypeInv

LEMMA TypeAnnounce == TypeInv /\ AnnounceStep => TypeInv'
<1> SUFFICES ASSUME TypeInv, AnnounceStep PROVE TypeInv'
    OBVIOUS
<1>1. CASE HandleAnnouncement
  <2>1. announceQ' \in Seq(Announcement) /\ handling' \in Announcement \cup {None}
        BY <1>1 DEF HandleAnnouncement, TypeInv, AnnounceTypes
  <2>2. reply' \in [Caller -> {"none", "ok", "err"}]
        BY <1>1 DEF HandleAnnouncement, TypeInv, AnnounceTypes, Announcement, Respond
  <2>3. AnnounceTypes'
        BY <2>1, <2>2 DEF AnnounceTypes
  <2> QED BY <1>1, <2>3, Stutter DEF HandleAnnouncement, TypeInv
<1>2. CASE ResolveAnnouncement
  <2>1. AnnounceTypes'
        BY <1>2 DEF ResolveAnnouncement, TypeInv, AnnounceTypes, Announcement, Respond
  <2>2. DiscoveryTypes'
    <3>1. waiting \in SUBSET Peer /\ discovered \in Seq(Peer)
          BY DEF TypeInv, DiscoveryTypes
    <3>2. PICK name \in Peer : name = handling.name
          BY <1>2 DEF ResolveAnnouncement, TypeInv, AnnounceTypes, Announcement
    <3>3. \/ discovered' = Append(discovered, name) /\ waiting' = waiting
          \/ discovered' = discovered /\ waiting' = waiting \cup {name}
          \/ discovered' = discovered /\ waiting' = waiting
          BY <1>2, <3>2 DEF ResolveAnnouncement, discoveryVars
    <3>4. discovered' \in Seq(Peer)
      <4>1. Append(discovered, name) \in Seq(Peer)
            BY <3>1
      <4> QED BY <3>1, <3>3, <4>1
    <3>5. waiting' \in SUBSET Peer
          BY <3>1, <3>3
    <3> QED BY <3>4, <3>5 DEF DiscoveryTypes
  <2> QED BY <1>2, <2>1, <2>2, Stutter DEF ResolveAnnouncement, TypeInv
<1> QED BY <1>1, <1>2 DEF AnnounceStep

\* The helpers of the dial tasks keep the dial types.
LEMMA DialGotoTypes ==
    ASSUME DialInv, NEW d \in Dial, dialPc[d] # "idle", NEW phase \in DialPhase,
           phase = "connect" => dialTries[d] < MaxAttempts,
           phase \notin {"idle", "checkPending"},
           phase \in {"checkPeers", "reserve"} => dialTries[d] < MaxAttempts,
           DialGoto(d, phase)
    PROVE  DialInv'
<1>1. DialTypes'
      BY DEF DialInv, DialTypes, DialGoto
<1>2. DialPhases'
      BY DEF DialInv, DialTypes, DialPhases, DialGoto, DialPhase, Holding
<1> QED BY <1>1, <1>2 DEF DialInv

LEMMA EndDialTypes ==
    ASSUME DialInv, NEW d \in Dial, EndDial(d)
    PROVE  DialInv'
<1>1. DialTypes'
      BY DEF DialInv, DialTypes, EndDial, DialPhase
<1>2. DialPhases'
      BY DEF DialInv, DialTypes, DialPhases, EndDial
<1> QED BY <1>1, <1>2 DEF DialInv

LEMMA SpawnDialTypes ==
    ASSUME DialInv, NEW d \in Dial, NEW p \in Peer, SpawnDial(d, p)
    PROVE  DialInv'
<1>1. DialTypes'
      BY DEF DialInv, DialTypes, SpawnDial, DialPhase
<1>2. DialPhases'
      BY DEF DialInv, DialTypes, DialPhases, SpawnDial
<1> QED BY <1>1, <1>2 DEF DialInv

LEMMA SpawnConnectionTypes ==
    ASSUME ConnInv, NEW c \in Conn, NEW q \in Peer, NEW a \in Peer \cup {None},
           SpawnConnection(c, q, a)
    PROVE  ConnInv'
<1>1. ConnTypes'
      BY DEF ConnInv, ConnTypes, SpawnConnection, ConnPhase
<1>2. ConnPhases'
      BY DEF ConnInv, ConnTypes, ConnPhases, SpawnConnection
<1> QED BY <1>1, <1>2 DEF ConnInv

LEMMA TypeDial == ASSUME TypeInv, NEW d \in Dial, DialStep(d)
                  PROVE  TypeInv'
<1>0. DialInv /\ ConnInv /\ SharedTypes
      BY DEF TypeInv
<1>1. CASE CheckPending(d)
  <2>1. DialInv'
        BY <1>0, <1>1, EndDialTypes, DialGotoTypes
           DEF CheckPending, DialInv, DialPhases, DialPhase
  <2> QED BY <1>1, <2>1, Stutter DEF CheckPending, notDial, TypeInv
<1>2. CASE CheckPeers(d)
  <2>1. DialInv'
        BY <1>0, <1>2, EndDialTypes, DialGotoTypes
           DEF CheckPeers, DialInv, DialPhases, DialPhase
  <2> QED BY <1>2, <2>1, Stutter DEF CheckPeers, notDial, TypeInv
<1>3. CASE Reserve(d)
  <2>1. DialInv'
        BY <1>0, <1>3, EndDialTypes, DialGotoTypes
           DEF Reserve, DialInv, DialPhases, DialPhase, Holding
  <2>2. SharedTypes'
        BY <1>0, <1>3 DEF Reserve, SharedTypes, DialInv, DialPhases,
                          exceptPending, tableVars, boundVars
  <2> QED BY <1>3, <2>1, <2>2, Stutter DEF Reserve, notDial, TypeInv
<1>4. ASSUME NEW c \in Conn, NEW q \in Peer, DialSucceeds(d, c, q)
      PROVE  TypeInv'
  <2>1. DialInv'
        BY <1>0, <1>4, DialGotoTypes
           DEF DialSucceeds, DialInv, DialPhases, DialPhase, Holding
  <2>2. ConnInv'
        BY <1>0, <1>4, SpawnConnectionTypes DEF DialSucceeds, DialInv, DialPhases
  <2> QED BY <1>4, <2>1, <2>2, Stutter DEF DialSucceeds, TypeInv
<1>5. CASE DialFails(d)
  <2>1. DialTypes'
        BY <1>0, <1>5 DEF DialFails, DialInv, DialTypes, DialPhases, DialPhase, Holding
  <2>2. DialPhases'
        BY <1>0, <1>5 DEF DialFails, TryAgain, DialInv, DialTypes, DialPhases
  <2> QED BY <1>5, <2>1, <2>2, Stutter DEF DialFails, notDial, TypeInv, DialInv
<1>6. CASE EndConnect(d)
  <2>1. DialInv'
        BY <1>0, <1>6, EndDialTypes, DialGotoTypes DEF EndConnect, DialPhase
  <2>2. SharedTypes'
        BY <1>0, <1>6 DEF EndConnect, Release, SharedTypes, exceptPending,
                          tableVars, boundVars
  <2> QED BY <1>6, <2>1, <2>2, Stutter DEF EndConnect, notDial, TypeInv
<1>7. CASE ReportDialFailure(d)
  <2>1. DialInv'
        BY <1>0, <1>7, EndDialTypes DEF ReportDialFailure
  <2>2. SharedTypes'
        BY <1>0, <1>7 DEF ReportDialFailure, SharedTypes, exceptUi, tableVars,
                          boundVars
  <2> QED BY <1>7, <2>1, <2>2, Stutter DEF ReportDialFailure, notDial, TypeInv
<1> QED BY <1>1, <1>2, <1>3, <1>4, <1>5, <1>6, <1>7 DEF DialStep

LEMMA GotoTypes ==
    ASSUME ConnInv, NEW c \in Conn, connPc[c] # "unused",
           NEW phase \in ConnPhase \ {"unused"},
           phase \in {"reconnect", "await"} => connAddr[c] \in Peer,
           Goto(c, phase)
    PROVE  ConnInv'
<1>1. ConnTypes'
      BY DEF ConnInv, ConnTypes, Goto
<1>2. ConnPhases'
      BY DEF ConnInv, ConnTypes, ConnPhases, Goto
<1> QED BY <1>1, <1>2 DEF ConnInv

LEMMA CloseRefusedTypes ==
    ASSUME ConnInv, NEW c \in Conn, connPc[c] # "unused", CloseRefused(c)
    PROVE  ConnInv'
<1>1. ConnTypes'
      BY DEF ConnInv, ConnTypes, CloseRefused, ConnPhase, Ended
<1>2. ConnPhases'
      BY DEF ConnInv, ConnTypes, ConnPhases, CloseRefused
<1> QED BY <1>1, <1>2 DEF ConnInv

\* Closing connections keeps their types.
LEMMA CloseTypes ==
    ASSUME ConnInv, connOpen' \in [Conn -> BOOLEAN],
           \A c \in Conn : connOpen'[c] => connOpen[c],
           UNCHANGED <<connPc, connPeer, connAddr, told>>
    PROVE  ConnInv'
BY DEF ConnInv, ConnTypes, ConnPhases

\* What a task has still to tell is a set of connections.
LEMMA TellTypes ==
    ASSUME ConnInv, NEW c \in Conn, NEW D \in SUBSET Conn,
           told' = [told EXCEPT ![c] = D], UNCHANGED <<connPc, connPeer, connAddr, connOpen>>
    PROVE  ConnInv'
<1>1. ConnTypes'
      BY DEF ConnInv, ConnTypes
<1>2. ConnPhases'
      BY DEF ConnInv, ConnPhases
<1> QED BY <1>1, <1>2 DEF ConnInv

LEMMA OthersTypes ==
    ASSUME SharedTypes, NEW p
    PROVE  Others(p) \in SUBSET Conn
BY DEF SharedTypes, Others

LEMMA TypeTask == ASSUME TypeInv, NEW c \in Conn, TaskStep(c)
                  PROVE  TypeInv'
<1>0. ConnInv /\ SharedTypes /\ AnnounceTypes
      BY DEF TypeInv
<1>a. connPc[c] # "unused" => connPeer[c] \in Peer
      BY <1>0 DEF ConnInv, ConnPhases
<1> USE DEF ConnPhase, Handled, Ended
<1>1. CASE CheckManual(c)
  <2>1. ConnInv'
        BY <1>0, <1>1, CloseRefusedTypes, GotoTypes DEF CheckManual
  <2> QED BY <1>1, <2>1, Stutter DEF CheckManual, notConn, TypeInv
<1>2. CASE RejectDuplicate(c)
  <2>1. ConnInv'
        BY <1>0, <1>2, CloseRefusedTypes DEF RejectDuplicate
  <2> QED BY <1>2, <2>1, Stutter DEF RejectDuplicate, notConn, TypeInv
<1>3. CASE Install(c)
  <2>1. ConnInv'
    <3>1. connPc[c] = "install" /\ Others(connPeer[c]) \in SUBSET Conn
          BY <1>0, <1>3, OthersTypes DEF Install
    <3>2. PICK D \in SUBSET Conn : told' = [told EXCEPT ![c] = D]
          BY <1>3, <3>1 DEF Install
    <3>3. ConnTypes'
          BY <1>0, <1>3, <3>2 DEF Install, ConnInv, ConnTypes
    <3>4. ConnPhases'
          BY <1>0, <1>3, <3>1 DEF Install, ConnInv, ConnTypes, ConnPhases
    <3> QED BY <3>3, <3>4 DEF ConnInv
  <2>2. SharedTypes'
        BY <1>0, <1>3, <1>a DEF Install, EntryName, SharedTypes, ConnInv, ConnTypes,
                                exceptTable, boundVars
  <2> QED BY <1>3, <2>1, <2>2, Stutter DEF Install, notConn, TypeInv
<1>4. CASE ClearManual(c)
  <2>1. ConnInv'
        BY <1>0, <1>4, GotoTypes DEF ClearManual
  <2>2. SharedTypes'
        BY <1>0, <1>4 DEF ClearManual, SharedTypes, exceptManual, tableVars, boundVars
  <2> QED BY <1>4, <2>1, <2>2, Stutter DEF ClearManual, notConn, TypeInv
<1>5. CASE ReportConnected(c)
  <2>1. ConnInv'
        BY <1>0, <1>5, GotoTypes DEF ReportConnected
  <2>2. SharedTypes'
        BY <1>0, <1>5, <1>a DEF ReportConnected, SharedTypes, exceptUi, tableVars,
                                boundVars
  <2> QED BY <1>5, <2>1, <2>2, Stutter DEF ReportConnected, notConn, TypeInv
<1>6. CASE AcceptLoopEnds(c)
  <2>1. ConnInv'
        BY <1>0, <1>6, GotoTypes DEF AcceptLoopEnds
  <2> QED BY <1>6, <2>1, Stutter DEF AcceptLoopEnds, notConn, TypeInv
<1>7. CASE Teardown(c)
  <2>1. CASE OwnsEntry(c)
    <3>1. ConnTypes' /\ ConnPhases'
          BY <1>0, <1>7, <1>a, <2>1 DEF Teardown, SharedTypes, ConnInv, ConnTypes, ConnPhases
    <3>2. SharedTypes'
          BY <1>0, <1>7, <1>a, <2>1 DEF Teardown, SharedTypes, exceptTable, boundVars
    <3> QED BY <1>7, <3>1, <3>2, Stutter DEF Teardown, notConn, TypeInv, ConnInv
  <2>2. CASE ~OwnsEntry(c)
    <3>1. ConnInv'
          BY <1>0, <1>7, <2>2, GotoTypes DEF Teardown
    <3>2. UNCHANGED sharedVars
          BY <1>7, <2>2 DEF Teardown, sharedVars, exceptTable
    <3> QED BY <1>7, <3>1, <3>2, Stutter DEF Teardown, notConn, TypeInv
  <2> QED BY <2>1, <2>2
<1>8. CASE ReportDisconnected(c)
  <2>1. ConnInv'
        BY <1>0, <1>8, GotoTypes DEF ReportDisconnected
  <2>2. SharedTypes'
        BY <1>0, <1>8 DEF ReportDisconnected, SharedTypes, exceptUi, tableVars, boundVars
  <2> QED BY <1>8, <2>1, <2>2, Stutter DEF ReportDisconnected, notConn, TypeInv
<1>9. CASE DecideReconnect(c)
  <2>1. ConnInv'
        BY <1>0, <1>9, GotoTypes DEF DecideReconnect, ConnInv, ConnTypes
  <2> QED BY <1>9, <2>1, Stutter DEF DecideReconnect, notConn, TypeInv
<1>10. CASE Reconnect(c)
  <2>1. ConnInv'
        BY <1>0, <1>10, GotoTypes DEF Reconnect, ConnInv, ConnPhases
  <2>2. AnnounceTypes'
    <3>1. [name |-> connAddr[c], from |-> c] \in Announcement
          BY <1>0, <1>10 DEF Reconnect, ConnInv, ConnPhases, Announcement, Caller
    <3>2. announceQ' \in Seq(Announcement)
      <4>1. announceQ \in Seq(Announcement)
            BY <1>0 DEF AnnounceTypes
      <4>2. CASE announceQ' = announceQ
            BY <4>1, <4>2
      <4>3. CASE announceQ' = Append(announceQ, [name |-> connAddr[c], from |-> c])
            BY <3>1, <4>1, <4>3
      <4> QED BY <1>10, <4>2, <4>3 DEF Reconnect, Announce
    <3> QED BY <1>0, <1>10, <3>2 DEF Reconnect, AnnounceTypes
  <2> QED BY <1>10, <2>1, <2>2, Stutter DEF Reconnect, notConn, TypeInv
<1>11. CASE ReconnectAnswered(c)
  <2>1. ConnInv'
        BY <1>0, <1>11, GotoTypes DEF ReconnectAnswered
  <2>2. SharedTypes'
        BY <1>0, <1>11 DEF ReconnectAnswered, LiftManual, SharedTypes, exceptManual,
                           tableVars, boundVars
  <2> QED BY <1>11, <2>1, <2>2, Stutter DEF ReconnectAnswered, notConn, TypeInv
<1> QED BY <1>1, <1>2, <1>3, <1>4, <1>5, <1>6, <1>7, <1>8, <1>9, <1>10, <1>11
        DEF TaskStep

LEMMA TypeServe == ASSUME TypeInv, NEW c \in Conn, ServeStep(c)
                   PROVE  TypeInv'
<1>0. ConnInv /\ SharedTypes /\ AnnounceTypes
      BY DEF TypeInv
<1>a. connPc[c] # "unused" => connPeer[c] \in Peer
      BY <1>0 DEF ConnInv, ConnPhases
<1>1. CASE ServeSelfAnnouncement(c)
  <2>1. SharedTypes'
        BY <1>0, <1>1, <1>a DEF ServeSelfAnnouncement, SharedTypes, exceptTable, boundVars
  <2>2. ConnInv'
        BY <1>0, <1>1, OthersTypes, TellTypes DEF ServeSelfAnnouncement
  <2> QED BY <1>1, <2>1, <2>2, Stutter DEF ServeSelfAnnouncement, notConn, TypeInv
<1>2. ASSUME NEW p \in Peer, ServeGossip(c, p)
      PROVE  TypeInv'
  <2>1. SharedTypes'
        BY <1>0, <1>2 DEF ServeGossip, SharedTypes, tableVars
  <2>2. AnnounceTypes'
        BY <1>0, <1>2 DEF ServeGossip, Announce, AnnounceTypes, Announcement
  <2> QED BY <1>2, <2>1, <2>2, Stutter DEF ServeGossip, notConn, TypeInv
<1>3. CASE BadRequest(c)
  <2>1. SharedTypes'
        BY <1>0, <1>3 DEF BadRequest, SharedTypes, tableVars
  <2>2. ConnInv'
        BY <1>0, <1>3, GotoTypes DEF BadRequest, ConnPhase, Handled
  <2> QED BY <1>3, <2>1, <2>2, Stutter DEF BadRequest, notConn, TypeInv
<1>4. ASSUME NEW d \in Conn, Tell(c, d)
      PROVE  TypeInv'
  <2>1. told[c] \ {d} \in SUBSET Conn
        BY <1>0 DEF ConnInv, ConnTypes
  <2>2. ConnInv'
        BY <1>0, <1>4, <2>1, TellTypes DEF Tell
  <2> QED BY <1>4, <2>2, Stutter DEF Tell, notConn, TypeInv
<1> QED BY <1>1, <1>2, <1>3, <1>4 DEF ServeStep

LEMMA TypeRun == ASSUME TypeInv, RunStep PROVE TypeInv'
<1>0. DialInv /\ ConnInv /\ SharedTypes /\ DiscoveryTypes /\ RunTypes /\ ShutTypes
      BY DEF TypeInv
<1>1. ASSUME NEW d \in Dial, NEW p \in Peer, DialKnownPeer(d, p)
      PROVE  TypeInv'
  <2>1. DialInv'
        BY <1>0, <1>1, SpawnDialTypes DEF DialKnownPeer
  <2>2. RunTypes'
        BY <1>0, <1>1 DEF DialKnownPeer, RunTypes
  <2> QED BY <1>1, <2>1, <2>2, Stutter DEF DialKnownPeer, TypeInv
<1>2. ASSUME NEW d \in Dial, DialDiscovered(d)
      PROVE  TypeInv'
  <2>1. Head(discovered) \in Peer /\ Tail(discovered) \in Seq(Peer)
        BY <1>0, <1>2 DEF DialDiscovered, DiscoveryTypes
  <2>2. DialInv'
        BY <1>0, <1>2, <2>1, SpawnDialTypes DEF DialDiscovered
  <2>3. DiscoveryTypes'
        BY <1>0, <1>2, <2>1 DEF DialDiscovered, DiscoveryTypes
  <2> QED BY <1>2, <2>2, <2>3, Stutter DEF DialDiscovered, TypeInv
<1>3. CASE EnterLoop
  <2>1. RunTypes'
        BY <1>0, <1>3 DEF EnterLoop, RunTypes
  <2> QED BY <1>3, <2>1, Stutter DEF EnterLoop, notRun, TypeInv
<1>4. ASSUME NEW c \in Conn, NEW q \in Peer, HandshakeSucceeds(c, q)
      PROVE  TypeInv'
  <2>1. ConnInv'
        BY <1>0, <1>4, SpawnConnectionTypes DEF HandshakeSucceeds, RunTypes
  <2>2. RunTypes'
        BY <1>0, <1>4 DEF HandshakeSucceeds, RunTypes
  <2> QED BY <1>4, <2>1, <2>2, Stutter DEF HandshakeSucceeds, TypeInv
<1>5. CASE HandshakeFails
  <2>1. SharedTypes'
        BY <1>0, <1>5 DEF HandshakeFails, SharedTypes, exceptUi, tableVars, boundVars
  <2>2. RunTypes'
        BY <1>0, <1>5 DEF HandshakeFails, RunTypes
  <2> QED BY <1>5, <2>1, <2>2, Stutter DEF HandshakeFails, notRun, TypeInv
<1>6. CASE BeginShutdown
  <2>1. RunTypes'
        BY <1>0, <1>6 DEF BeginShutdown, RunTypes
  <2>2. {peers[p] : p \in Peer} \ {None} \subseteq Conn
        BY <1>0 DEF SharedTypes
  <2>3. ShutTypes'
        BY <1>0, <1>6, <2>2 DEF BeginShutdown, ShutTypes
  <2> QED BY <1>6, <2>1, <2>3, Stutter DEF BeginShutdown, notRun, TypeInv
<1>7. CASE CloseConnections
  <2>1. RunTypes' /\ ShutTypes'
        BY <1>0, <1>7 DEF CloseConnections, RunTypes, ShutTypes
  <2>2. connOpen' \in [Conn -> BOOLEAN] /\ \A c \in Conn : connOpen'[c] => connOpen[c]
        BY <1>0, <1>7 DEF CloseConnections, ConnInv, ConnTypes
  <2>3. ConnInv'
        BY <1>0, <1>7, <2>2, CloseTypes DEF CloseConnections
  <2> QED BY <1>7, <2>1, <2>3, Stutter DEF CloseConnections, TypeInv
<1> QED BY <1>1, <1>2, <1>3, <1>4, <1>5, <1>6, <1>7 DEF RunStep

LEMMA TypeRequest == ASSUME TypeInv, NEW r \in Req, RequestStep(r)
                     PROVE  TypeInv'
<1>0. ReqInv /\ ConnInv /\ SharedTypes /\ ShutTypes
      BY DEF TypeInv
<1>1. CASE ConnectAnswered(r)
  <2>1. SharedTypes'
        BY <1>0, <1>1 DEF ConnectAnswered, LiftManual, SharedTypes, exceptManual,
                          tableVars, boundVars
  <2>2. ReqInv'
        BY <1>0, <1>1 DEF ConnectAnswered, ReqGoto, ReqInv, ReqTypes, ReqPhases
  <2> QED BY <1>1, <2>1, <2>2, Stutter DEF ConnectAnswered, notReq, TypeInv
<1>2. CASE SetManual(r)
  <2>1. SharedTypes'
        BY <1>0, <1>2 DEF SetManual, SharedTypes, exceptManual, tableVars, boundVars,
                          ReqInv, ReqPhases
  <2>2. ReqInv'
        BY <1>0, <1>2 DEF SetManual, ReqGoto, ReqInv, ReqTypes, ReqPhases
  <2> QED BY <1>2, <2>1, <2>2, Stutter DEF SetManual, notReq, TypeInv
<1>3. CASE CloseDisconnected(r)
  <2>1. connOpen' \in [Conn -> BOOLEAN] /\ \A c \in Conn : connOpen'[c] => connOpen[c]
        BY <1>0, <1>3 DEF CloseDisconnected, ConnInv, ConnTypes
  <2>2. ConnInv'
        BY <1>0, <1>3, <2>1, CloseTypes DEF CloseDisconnected
  <2>3. ReqInv'
        BY <1>0, <1>3 DEF CloseDisconnected, ReqGoto, ReqInv, ReqTypes, ReqPhases
  <2> QED BY <1>3, <2>2, <2>3, Stutter DEF CloseDisconnected, notReq, TypeInv
<1>4. CASE SignalShutDown(r)
  <2>1. ShutTypes'
        BY <1>0, <1>4 DEF SignalShutDown, ShutTypes
  <2>2. ReqInv'
        BY <1>0, <1>4 DEF SignalShutDown, ReqGoto, ReqInv, ReqTypes, ReqPhases
  <2> QED BY <1>4, <2>1, <2>2, Stutter DEF SignalShutDown, notReq, TypeInv
<1> QED BY <1>1, <1>2, <1>3, <1>4 DEF RequestStep

LEMMA TypeEnvironment == ASSUME TypeInv, EnvironmentStep PROVE TypeInv'
<1>0. ReqInv /\ ConnInv /\ SharedTypes /\ DiscoveryTypes /\ RunTypes /\ AnnounceTypes
      BY DEF TypeInv
<1>1. ASSUME NEW p \in Peer, DiscoverLocally(p)
      PROVE  TypeInv'
  <2>1. SharedTypes'
        BY <1>0, <1>1 DEF DiscoverLocally, SharedTypes, tableVars
  <2>2. DiscoveryTypes'
        BY <1>0, <1>1 DEF DiscoverLocally, DiscoveryTypes
  <2> QED BY <1>1, <2>1, <2>2, Stutter DEF DiscoverLocally, notRun, TypeInv
<1>2. ASSUME NEW c \in Conn, ConnectionLost(c)
      PROVE  TypeInv'
  <2>1. connOpen' \in [Conn -> BOOLEAN] /\ \A x \in Conn : connOpen'[x] => connOpen[x]
        BY <1>0, <1>2 DEF ConnectionLost, ConnInv, ConnTypes
  <2>2. ConnInv'
        BY <1>0, <1>2, <2>1, CloseTypes DEF ConnectionLost
  <2> QED BY <1>2, <2>2, Stutter DEF ConnectionLost, notConn, TypeInv
<1>3. ASSUME NEW a \in Peer \cup {None}, Incoming(a)
      PROVE  TypeInv'
  <2>1. RunTypes' /\ DiscoveryTypes'
        BY <1>0, <1>3 DEF Incoming, RunTypes, DiscoveryTypes
  <2> QED BY <1>3, <2>1, Stutter DEF Incoming, notRun, TypeInv
<1>4. ASSUME NEW r \in Req, NEW p \in Peer, CallConnect(r, p)
      PROVE  TypeInv'
  <2>1. [name |-> p, from |-> r] \in Announcement
        BY DEF Announcement, Caller
  <2>2. AnnounceTypes'
    <3>1. announceQ \in Seq(Announcement)
          BY <1>0 DEF AnnounceTypes
    <3>2. announceQ' \in Seq(Announcement)
      <4>1. CASE announceQ' = announceQ
            BY <3>1, <4>1
      <4>2. CASE announceQ' = Append(announceQ, [name |-> p, from |-> r])
            BY <2>1, <3>1, <4>2
      <4> QED BY <1>4, <4>1, <4>2 DEF CallConnect, Announce
    <3> QED BY <1>0, <1>4, <3>2 DEF CallConnect, AnnounceTypes
  <2>3. ReqInv'
        BY <1>0, <1>4 DEF CallConnect, ReqGoto, ReqInv, ReqTypes, ReqPhases
  <2> QED BY <1>4, <2>2, <2>3, Stutter DEF CallConnect, notReq, TypeInv
<1>5. ASSUME NEW r \in Req, NEW p \in Peer, CallDisconnect(r, p)
      PROVE  TypeInv'
  <2>1. ReqTypes' /\ ReqPhases'
        BY <1>0, <1>5 DEF CallDisconnect, ReqGoto, ReqInv, ReqTypes, ReqPhases, SharedTypes
  <2> QED BY <1>5, <2>1, Stutter DEF CallDisconnect, notReq, TypeInv, ReqInv
<1>6. ASSUME NEW r \in Req, CallShutDown(r)
      PROVE  TypeInv'
  <2>1. SharedTypes'
        BY <1>0, <1>6 DEF CallShutDown, SharedTypes, tableVars, boundVars
  <2>2. ReqInv'
        BY <1>0, <1>6 DEF CallShutDown, ReqGoto, ReqInv, ReqTypes, ReqPhases
  <2> QED BY <1>6, <2>1, <2>2, Stutter DEF CallShutDown, notReq, TypeInv
<1> QED BY <1>1, <1>2, <1>3, <1>4, <1>5, <1>6 DEF EnvironmentStep

LEMMA TypeStep == TypeInv /\ [Next]_vars => TypeInv'
<1> SUFFICES ASSUME TypeInv, [Next]_vars PROVE TypeInv'
    OBVIOUS
<1>1. CASE UNCHANGED vars
      BY <1>1, Stutter DEF vars, TypeInv
<1> QED BY <1>1, TypeAnnounce, TypeDial, TypeTask, TypeServe, TypeRun, TypeRequest,
           TypeEnvironment DEF Next

\* Every variable keeps to its type, and the phase of a task says which of the
\* names it holds are set: no task of mod.rs works on a name it does not have.
THEOREM TypeCorrect == Spec => []TypeOK
<1>1. TypeInv => TypeOK
      BY DEF TypeInv, TypeOK, DialInv, ConnInv, ReqInv
<1> QED BY <1>1, TypeInit, TypeStep, PTL DEF Spec

-----------------------------------------------------------------------------
(* The peer table *)

TableInv == EntryHandled /\ ServedIsListed

\* The table keeps its invariant in a step that leaves it alone, opens no
\* connection and takes no connection in or out of the Handled phases.
LEMMA TableKept ==
    ASSUME TypeInv, TypeInv', TableInv,
           UNCHANGED <<peers, connPeer>>,
           \A c \in Conn : connPc'[c] \in Handled <=> connPc[c] \in Handled,
           \A c \in Conn : connPc[c] \in Handled /\ connOpen'[c] => connOpen[c]
    PROVE  TableInv'
BY DEF TableInv, EntryHandled, ServedIsListed, TypeInv, SharedTypes, ConnInv, ConnTypes

LEMMA TableTold ==
    ASSUME TypeInv, TableInv, UNCHANGED <<peers, connPc, connPeer, connOpen>>
    PROVE  TableInv'
BY DEF TableInv, EntryHandled, ServedIsListed

LEMMA TableStutter ==
    ASSUME TypeInv, TableInv, UNCHANGED peers, UNCHANGED connVars
    PROVE  TableInv'
BY TableTold DEF connVars

LEMMA TableTask ==
    ASSUME TypeInv, TypeInv', TableInv, NEW c \in Conn, TaskStep(c)
    PROVE  TableInv'
<1>0. SharedTypes /\ ConnInv /\ ConnTypes /\ ConnPhases
      BY DEF TypeInv, ConnInv
<1> USE DEF ConnTypes, Handled
<1>1. CASE CheckManual(c)
      BY <1>0, <1>1, TableKept
         DEF CheckManual, CloseRefused, Goto, sharedVars, tableVars
<1>2. CASE RejectDuplicate(c)
      BY <1>0, <1>2, TableKept DEF RejectDuplicate, CloseRefused, sharedVars, tableVars
<1>3. CASE Install(c)
  <2>1. connPeer[c] \in Peer /\ UNCHANGED <<connPeer, connOpen>>
        BY <1>0, <1>3 DEF Install, ConnPhases
  <2>2. EntryHandled'
        BY <1>0, <1>3, <2>1 DEF Install, EntryName, SharedTypes, TableInv,
                                EntryHandled
  <2>3. ASSUME NEW x \in Conn, connPc'[x] \in Handled, connOpen'[x]
        PROVE  peers'[connPeer'[x]] = x
    <3>1. CASE x = c
          BY <1>0, <1>3, <2>1, <3>1 DEF Install, EntryName, SharedTypes
    <3>2. CASE x # c
      <4>1. connPc[x] \in Handled /\ connOpen[x] /\ peers[connPeer[x]] = x
            BY <1>0, <1>3, <2>1, <2>3, <3>2 DEF Install, TableInv, ServedIsListed
      <4>2. connPeer[x] # connPeer[c]
            BY <1>3, <4>1 DEF Install, MayInstall, OpenEntry
      <4> QED BY <1>0, <1>3, <2>1, <4>1, <4>2 DEF Install, EntryName, SharedTypes
    <3> QED BY <3>1, <3>2
  <2> QED BY <2>2, <2>3 DEF TableInv, ServedIsListed
<1>4. CASE ClearManual(c)
      BY <1>0, <1>4, TableKept DEF ClearManual, Goto, exceptManual, tableVars
<1>5. CASE ReportConnected(c)
      BY <1>0, <1>5, TableKept DEF ReportConnected, Goto, exceptUi, tableVars
<1>6. CASE AcceptLoopEnds(c)
      BY <1>0, <1>6, TableKept DEF AcceptLoopEnds, Goto, sharedVars, tableVars
<1>7. CASE Teardown(c)
  <2>1. connPeer[c] \in Peer
        BY <1>0, <1>7 DEF Teardown, ConnPhases
  <2>2. CASE OwnsEntry(c)
    <3>1. /\ peers' = [peers EXCEPT ![connPeer[c]] = None]
          /\ connPc' = [connPc EXCEPT ![c] = "report"]
          /\ UNCHANGED <<connPeer, connOpen>>
          BY <1>7, <2>2 DEF Teardown
    <3>2. EntryHandled'
          BY <1>0, <2>1, <2>2, <3>1 DEF TableInv, EntryHandled, SharedTypes, OwnsEntry
    <3>3. ServedIsListed'
          BY <1>0, <2>1, <2>2, <3>1 DEF TableInv, ServedIsListed, SharedTypes, OwnsEntry
    <3> QED BY <3>2, <3>3 DEF TableInv
  <2>3. CASE ~OwnsEntry(c)
    <3>1. /\ connPc' = [connPc EXCEPT ![c] = "done"]
          /\ UNCHANGED <<peers, connPeer, connOpen>>
          BY <1>7, <2>3 DEF Teardown, Goto, tableVars
    <3>2. EntryHandled'
          BY <1>0, <1>7, <2>3, <3>1 DEF TableInv, EntryHandled, SharedTypes, OwnsEntry,
                                        Teardown
    <3>3. ServedIsListed'
          BY <1>0, <3>1 DEF TableInv, ServedIsListed
    <3> QED BY <3>2, <3>3 DEF TableInv
  <2> QED BY <2>2, <2>3
<1>8. CASE ReportDisconnected(c)
      BY <1>0, <1>8, TableKept DEF ReportDisconnected, Goto, exceptUi, tableVars
<1>9. CASE DecideReconnect(c)
      BY <1>0, <1>9, TableKept DEF DecideReconnect, Goto, sharedVars, tableVars
<1>10. CASE Reconnect(c)
      BY <1>0, <1>10, TableKept DEF Reconnect, Goto, sharedVars, tableVars
<1>11. CASE ReconnectAnswered(c)
      BY <1>0, <1>11, TableKept DEF ReconnectAnswered, Goto, exceptManual, tableVars
<1> QED BY <1>1, <1>2, <1>3, <1>4, <1>5, <1>6, <1>7, <1>8, <1>9, <1>10, <1>11
        DEF TaskStep

\* A new connection is not handled yet, so it cannot disturb the table.
LEMMA TableSpawn ==
    ASSUME TypeInv, TypeInv', TableInv, UNCHANGED peers,
           NEW c \in Conn, NEW q, NEW a, SpawnConnection(c, q, a)
    PROVE  TableInv'
<1>1. /\ connPc[c] \notin Handled
      /\ connPc'[c] \notin Handled
      /\ \A x \in Conn \ {c} : /\ connPc'[x] = connPc[x]
                               /\ connPeer'[x] = connPeer[x]
                               /\ connOpen'[x] = connOpen[x]
      BY DEF SpawnConnection, TypeInv, ConnInv, ConnTypes, Handled
<1>2. EntryHandled'
      BY <1>1 DEF TableInv, EntryHandled, TypeInv, SharedTypes
<1>3. ServedIsListed'
      BY <1>1 DEF TableInv, ServedIsListed
<1> QED BY <1>2, <1>3 DEF TableInv

LEMMA TableStep == ASSUME TypeInv, TypeInv', TableInv, [Next]_vars
                   PROVE  TableInv'
<1>0. ConnInv /\ ConnTypes
      BY DEF TypeInv, ConnInv
<1>1. CASE UNCHANGED vars
      BY <1>1, TableStutter DEF vars, sharedVars, tableVars
<1>2. CASE AnnounceStep
      BY <1>2, TableStutter DEF AnnounceStep, HandleAnnouncement, ResolveAnnouncement,
                                sharedVars, tableVars
<1>3. ASSUME NEW d \in Dial, DialStep(d)
      PROVE  TableInv'
  <2>1. ASSUME NEW c \in Conn, NEW q \in Peer, DialSucceeds(d, c, q)
        PROVE  TableInv'
        BY <2>1, TableSpawn DEF DialSucceeds, sharedVars, tableVars
  <2>2. CASE \/ CheckPending(d) \/ CheckPeers(d) \/ Reserve(d)
             \/ DialFails(d) \/ EndConnect(d) \/ ReportDialFailure(d)
        BY <2>2, TableStutter
           DEF CheckPending, CheckPeers, Reserve, DialFails, EndConnect,
               ReportDialFailure, sharedVars, exceptPending, exceptUi, tableVars, notDial
  <2> QED BY <1>3, <2>1, <2>2 DEF DialStep
<1>4. ASSUME NEW c \in Conn, ServeStep(c)
      PROVE  TableInv'
  <2>1. CASE \/ ServeSelfAnnouncement(c)
             \/ \E p \in Peer : ServeGossip(c, p)
             \/ \E d \in Conn : Tell(c, d)
    <3>1. UNCHANGED <<peers, connPc, connPeer, connOpen>>
      <4>1. CASE ServeSelfAnnouncement(c)
            BY <4>1 DEF ServeSelfAnnouncement
      <4>2. CASE \E p \in Peer : ServeGossip(c, p)
            BY <4>2 DEF ServeGossip, connVars, tableVars
      <4>3. CASE \E d \in Conn : Tell(c, d)
            BY <4>3 DEF Tell, sharedVars, tableVars
      <4> QED BY <2>1, <4>1, <4>2, <4>3
    <3> QED BY <3>1, TableTold
  <2>2. CASE BadRequest(c)
        BY <1>0, <2>2, TableKept DEF BadRequest, Goto, ConnTypes, Handled, tableVars
  <2> QED BY <1>4, <2>1, <2>2 DEF ServeStep
<1>5. CASE RunStep
  <2>1. ASSUME NEW c \in Conn, NEW q \in Peer, HandshakeSucceeds(c, q)
        PROVE  TableInv'
        BY <2>1, TableSpawn DEF HandshakeSucceeds, sharedVars, tableVars
  <2>2. CASE CloseConnections
        BY <1>0, <2>2, TableKept DEF CloseConnections, ConnTypes, sharedVars, tableVars
  <2>3. CASE \/ \E d \in Dial : \/ \E p \in Peer : DialKnownPeer(d, p)
                                \/ DialDiscovered(d)
             \/ EnterLoop \/ HandshakeFails \/ BeginShutdown
        BY <2>3, TableStutter
           DEF DialKnownPeer, DialDiscovered, EnterLoop, HandshakeFails, BeginShutdown,
               sharedVars, exceptUi, tableVars, notRun
  <2> QED BY <1>5, <2>1, <2>2, <2>3 DEF RunStep
<1>6. ASSUME NEW r \in Req, RequestStep(r)
      PROVE  TableInv'
  <2>1. CASE CloseDisconnected(r)
        BY <1>0, <2>1, TableKept DEF CloseDisconnected, ConnTypes, sharedVars, tableVars
  <2>2. CASE ConnectAnswered(r) \/ SetManual(r) \/ SignalShutDown(r)
        BY <2>2, TableStutter DEF ConnectAnswered, SetManual, SignalShutDown, sharedVars,
                                  exceptManual, tableVars
  <2> QED BY <1>6, <2>1, <2>2 DEF RequestStep
<1>7. CASE EnvironmentStep
  <2>1. ASSUME NEW c \in Conn, ConnectionLost(c)
        PROVE  TableInv'
        BY <1>0, <2>1, TableKept DEF ConnectionLost, ConnTypes, sharedVars, tableVars
  <2>2. CASE \/ \E p \in Peer : DiscoverLocally(p)
             \/ \E a \in Peer \cup {None} : Incoming(a)
             \/ \E r \in Req : \/ \E p \in Peer : CallConnect(r, p) \/ CallDisconnect(r, p)
                               \/ CallShutDown(r)
        BY <2>2, TableStutter
           DEF DiscoverLocally, Incoming, CallConnect, CallDisconnect, CallShutDown,
               sharedVars, tableVars, notRun
  <2> QED BY <1>7, <2>1, <2>2 DEF EnvironmentStep
<1> QED BY <1>1, <1>2, <1>3, <1>4, <1>5, <1>6, <1>7, TableTask DEF Next

LEMMA TableInit == Init => TableInv
BY DEF Init, TableInv, EntryHandled, ServedIsListed, Handled

\* No entry is left behind, and no connection being served is hidden from the
\* table, however connects, disconnects, replacements and teardowns of the same
\* peer interleave (handle_connection, mod.rs).
THEOREM TableCorrect == Spec => []EntryHandled /\ []ServedIsListed
<1>1. TableInv => EntryHandled /\ ServedIsListed
      BY DEF TableInv
<1> QED BY <1>1, TypeInit, TypeStep, TableInit, TableStep, PTL DEF Spec

\* A connection that is being served is the one the table names for its peer, so
\* a request to that peer and disconnect_peer find it (handle_connection and
\* get_peer, mod.rs).
THEOREM ServedListed == Spec => []ServedIsListed
BY TableCorrect, PTL

-----------------------------------------------------------------------------
(* Dials *)

\* A step that leaves pending alone and changes no name or Holding phase.
LEMMA DialsKept ==
    ASSUME OneDialPerName, UNCHANGED pending,
           \A d \in Dial : dialPc'[d] \in Holding <=> dialPc[d] \in Holding,
           \A d \in Dial : dialPc[d] \in Holding => dialName'[d] = dialName[d]
    PROVE  OneDialPerName'
BY DEF OneDialPerName

LEMMA DialsStutter ==
    ASSUME OneDialPerName, UNCHANGED pending, UNCHANGED dialVars
    PROVE  OneDialPerName'
BY DEF OneDialPerName, dialVars

LEMMA DialsDial ==
    ASSUME TypeInv, TypeInv', OneDialPerName, NEW d \in Dial, DialStep(d)
    PROVE  OneDialPerName'
<1>0. DialTypes
      BY DEF TypeInv, DialInv
<1> USE DEF DialTypes, Holding
<1>1. CASE CheckPending(d)
      BY <1>0, <1>1, DialsKept DEF CheckPending, EndDial, DialGoto, sharedVars
<1>2. CASE CheckPeers(d)
      BY <1>0, <1>2, DialsKept DEF CheckPeers, EndDial, DialGoto, sharedVars
<1>3. CASE Reserve(d)
  <2>1. CASE MayReserve(d)
    <3>1. /\ dialPc' = [dialPc EXCEPT ![d] = "connect"]
          /\ pending' = pending \cup {dialName[d]}
          /\ dialName' = dialName
          BY <1>3, <2>1 DEF Reserve, DialGoto
    <3>2. \A e \in Dial : dialPc[e] \in Holding => dialName[e] # dialName[d]
          BY <2>1 DEF MayReserve, OneDialPerName
    <3> QED BY <1>0, <3>1, <3>2 DEF OneDialPerName
  <2>2. CASE ~MayReserve(d)
        BY <1>0, <1>3, <2>2, DialsKept DEF Reserve, EndDial
  <2> QED BY <2>1, <2>2
<1>4. CASE \E c \in Conn, q \in Peer : DialSucceeds(d, c, q)
      BY <1>0, <1>4, DialsKept DEF DialSucceeds, DialGoto, sharedVars
<1>5. CASE DialFails(d)
      BY <1>0, <1>5, DialsKept DEF DialFails, sharedVars
<1>6. CASE EndConnect(d)
  <2>1. /\ pending' = pending \ {dialName[d]}
        /\ dialPc[d] \in Holding
        /\ dialPc'[d] \notin Holding
        /\ \A e \in Dial \ {d} : /\ dialPc'[e] = dialPc[e]
                                 /\ dialName'[e] = dialName[e]
        BY <1>0, <1>6 DEF EndConnect, Release, EndDial, DialGoto
  <2>2. \A e \in Dial \ {d} : dialPc[e] \in Holding => dialName[e] # dialName[d]
        BY <2>1 DEF OneDialPerName
  <2> QED BY <2>1, <2>2 DEF OneDialPerName
<1>7. CASE ReportDialFailure(d)
      BY <1>0, <1>7, DialsKept DEF ReportDialFailure, EndDial, exceptUi
<1> QED BY <1>1, <1>2, <1>3, <1>4, <1>5, <1>6, <1>7 DEF DialStep

LEMMA DialsStep ==
    ASSUME TypeInv, TypeInv', OneDialPerName, [Next]_vars
    PROVE  OneDialPerName'
<1>0. DialTypes
      BY DEF TypeInv, DialInv
<1>1. CASE UNCHANGED vars
      BY <1>1, DialsStutter DEF vars, sharedVars
<1>2. CASE AnnounceStep
      BY <1>2, DialsStutter DEF AnnounceStep, HandleAnnouncement, ResolveAnnouncement,
                                sharedVars
<1>3. ASSUME NEW c \in Conn, TaskStep(c) \/ ServeStep(c)
      PROVE  OneDialPerName'
      BY <1>3, DialsStutter
         DEF TaskStep, CheckManual, RejectDuplicate, Install, ClearManual,
             ReportConnected, AcceptLoopEnds, Teardown, ReportDisconnected,
             DecideReconnect, Reconnect, ReconnectAnswered, ServeStep,
             ServeSelfAnnouncement, ServeGossip, BadRequest, Tell,
             sharedVars, exceptTable, exceptManual, exceptUi, notConn
<1>4. CASE RunStep
  <2>1. ASSUME NEW d \in Dial, NEW p, SpawnDial(d, p), UNCHANGED pending
        PROVE  OneDialPerName'
        BY <1>0, <2>1, DialsKept DEF SpawnDial, DialTypes, Holding
  <2>2. CASE \E d \in Dial : (\E p \in Peer : DialKnownPeer(d, p)) \/ DialDiscovered(d)
        BY <2>1, <2>2 DEF DialKnownPeer, DialDiscovered, sharedVars
  <2>3. CASE \/ EnterLoop \/ HandshakeFails \/ BeginShutdown \/ CloseConnections
             \/ \E c \in Conn, q \in Peer : HandshakeSucceeds(c, q)
        BY <2>3, DialsStutter
           DEF EnterLoop, HandshakeFails, BeginShutdown, CloseConnections,
               HandshakeSucceeds, sharedVars, exceptUi, notRun
  <2> QED BY <1>4, <2>2, <2>3 DEF RunStep
<1>5. CASE (\E r \in Req : RequestStep(r)) \/ EnvironmentStep
      BY <1>5, DialsStutter
         DEF RequestStep, ConnectAnswered, SetManual, CloseDisconnected, SignalShutDown,
             EnvironmentStep, DiscoverLocally, ConnectionLost, Incoming, CallConnect,
             CallDisconnect, CallShutDown, sharedVars, exceptManual, notRun, notConn,
             notReq
<1> QED BY <1>1, <1>2, <1>3, <1>4, <1>5, DialsDial DEF Next

LEMMA DialsInit == Init => OneDialPerName
BY DEF Init, OneDialPerName, Holding

\* The slot of begin_outbound_connect is exclusive although it is checked and
\* taken under locks that are released in between (mod.rs).
THEOREM DialsExclusive == Spec => []OneDialPerName
BY TypeInit, TypeStep, DialsInit, DialsStep, PTL DEF Spec

-----------------------------------------------------------------------------
(* Closed connections *)

\* A connection is open only between its handshake and the end of its accept
\* loop, unless an oversized request ended the loop.
LEMMA ClosedTask ==
    ASSUME TypeInv, NoneLeftOpen, NEW c \in Conn, TaskStep(c) \/ ServeStep(c),
           badRequests' = 0 => badRequests = 0
    PROVE  NoneLeftOpen'
<1>0. ConnTypes /\ SharedTypes
      BY DEF TypeInv, ConnInv
<1> USE DEF NoneLeftOpen, Ended, ConnTypes, Goto
<1>1. CASE CheckManual(c) \/ RejectDuplicate(c)
      BY <1>0, <1>1 DEF CheckManual, RejectDuplicate, CloseRefused
<1>2. CASE Install(c) \/ ClearManual(c) \/ ReportConnected(c) \/ AcceptLoopEnds(c)
      BY <1>0, <1>2 DEF Install, ClearManual, ReportConnected, AcceptLoopEnds
<1>3. CASE Teardown(c)
      BY <1>0, <1>3 DEF Teardown
<1>4. CASE ReportDisconnected(c) \/ DecideReconnect(c)
      BY <1>0, <1>4 DEF ReportDisconnected, DecideReconnect
<1>5. CASE Reconnect(c) \/ ReconnectAnswered(c)
      BY <1>0, <1>5 DEF Reconnect, ReconnectAnswered
<1>6. CASE \/ ServeSelfAnnouncement(c)
           \/ \E p \in Peer : ServeGossip(c, p)
           \/ \E d \in Conn : Tell(c, d)
      BY <1>0, <1>6 DEF ServeSelfAnnouncement, ServeGossip, Tell, connVars
<1>7. CASE BadRequest(c)
      BY <1>0, <1>7 DEF BadRequest, SharedTypes
<1> QED BY <1>1, <1>2, <1>3, <1>4, <1>5, <1>6, <1>7 DEF TaskStep, ServeStep

LEMMA ClosedOther ==
    ASSUME NoneLeftOpen, UNCHANGED connPc,
           badRequests' = 0 => badRequests = 0,
           \A c \in Conn : connOpen'[c] => connOpen[c]
    PROVE  NoneLeftOpen'
BY DEF NoneLeftOpen

\* A bad request is never forgotten.
LEMMA BadRequestsStay ==
    ASSUME TypeInv, [Next]_vars
    PROVE  badRequests' = 0 => badRequests = 0
<1> USE DEF sharedVars, boundVars, exceptTable, exceptManual, exceptPending, exceptUi
<1>1. CASE UNCHANGED vars
      BY <1>1 DEF vars
<1>2. CASE AnnounceStep
      BY <1>2 DEF AnnounceStep, HandleAnnouncement, ResolveAnnouncement
<1>3. CASE \E d \in Dial : DialStep(d)
      BY <1>3 DEF DialStep, CheckPending, CheckPeers, Reserve, DialSucceeds, DialFails,
                  EndConnect, ReportDialFailure
<1>4. CASE \E c \in Conn : TaskStep(c)
      BY <1>4 DEF TaskStep, CheckManual, RejectDuplicate, Install, ClearManual,
                  ReportConnected, AcceptLoopEnds, Teardown, ReportDisconnected,
                  DecideReconnect, Reconnect, ReconnectAnswered
<1>5. CASE \E c \in Conn : ServeStep(c)
      BY <1>5 DEF ServeStep, ServeSelfAnnouncement, ServeGossip, BadRequest, Tell,
                  TypeInv, SharedTypes
<1>6. CASE RunStep
      BY <1>6 DEF RunStep, DialKnownPeer, DialDiscovered, EnterLoop, HandshakeSucceeds,
                  HandshakeFails, BeginShutdown, CloseConnections
<1>7. CASE \E r \in Req : RequestStep(r)
      BY <1>7 DEF RequestStep, ConnectAnswered, SetManual, CloseDisconnected,
                  SignalShutDown
<1>8. CASE EnvironmentStep
      BY <1>8 DEF EnvironmentStep, DiscoverLocally, ConnectionLost, Incoming, CallConnect,
                  CallDisconnect, CallShutDown
<1> QED BY <1>1, <1>2, <1>3, <1>4, <1>5, <1>6, <1>7, <1>8 DEF Next

LEMMA ClosedStep ==
    ASSUME TypeInv, NoneLeftOpen, [Next]_vars
    PROVE  NoneLeftOpen'
<1>0. ConnTypes
      BY DEF TypeInv, ConnInv
<1>b. badRequests' = 0 => badRequests = 0
      BY BadRequestsStay
<1>1. CASE UNCHANGED vars
      BY <1>b, <1>1, ClosedOther DEF vars, connVars
<1>2. CASE AnnounceStep
      BY <1>b, <1>2, ClosedOther DEF AnnounceStep, HandleAnnouncement, ResolveAnnouncement,
                               connVars
<1>3. ASSUME NEW c \in Conn, NEW q, NEW a, SpawnConnection(c, q, a)
      PROVE  NoneLeftOpen'
      BY <1>0, <1>b, <1>3 DEF SpawnConnection, NoneLeftOpen, ConnTypes, Ended
<1>4. CASE \E d \in Dial : DialStep(d)
      BY <1>b, <1>3, <1>4, ClosedOther
         DEF DialStep, CheckPending, CheckPeers, Reserve, DialSucceeds, DialFails,
             EndConnect, ReportDialFailure, notDial, connVars
<1>5. CASE RunStep
  <2>1. CASE CloseConnections
        BY <1>0, <1>b, <2>1, ClosedOther DEF CloseConnections, ConnTypes
  <2>2. CASE \/ \E d \in Dial : (\E p \in Peer : DialKnownPeer(d, p)) \/ DialDiscovered(d)
             \/ EnterLoop \/ HandshakeFails \/ BeginShutdown
        BY <1>b, <2>2, ClosedOther
           DEF DialKnownPeer, DialDiscovered, EnterLoop, HandshakeFails, BeginShutdown,
               notRun, connVars
  <2>3. CASE \E c \in Conn, q \in Peer : HandshakeSucceeds(c, q)
        BY <1>3, <2>3 DEF HandshakeSucceeds
  <2> QED BY <1>5, <2>1, <2>2, <2>3 DEF RunStep
<1>6. ASSUME NEW r \in Req, RequestStep(r)
      PROVE  NoneLeftOpen'
      BY <1>0, <1>b, <1>6, ClosedOther
         DEF RequestStep, ConnectAnswered, SetManual, CloseDisconnected, SignalShutDown,
             connVars, ConnTypes
<1>7. CASE EnvironmentStep
      BY <1>0, <1>b, <1>7, ClosedOther
         DEF EnvironmentStep, DiscoverLocally, ConnectionLost, Incoming, CallConnect,
             CallDisconnect, CallShutDown, notRun, connVars, ConnTypes
<1> QED BY <1>b, <1>1, <1>2, <1>4, <1>5, <1>6, <1>7, ClosedTask DEF Next

\* Every refused connection is closed, and a task that has left its accept loop
\* leaves no open connection behind, unless a request ended the loop (mod.rs).
THEOREM ConnectionsClosed == Spec => []NoneLeftOpen
<1>1. Init => NoneLeftOpen
      BY DEF Init, NoneLeftOpen
<1> QED BY <1>1, TypeInit, TypeStep, ClosedStep, PTL DEF Spec

-----------------------------------------------------------------------------
(* The closed endpoint *)

\* Only the run loop closes the endpoint, and it accepts nothing afterwards.
EndpointInv ==
    /\ ~endpointUp => SharedEndpoint /\ runPc = "drain"
    /\ ClosedForGood

LEMMA EndpointKept ==
    ASSUME EndpointInv, UNCHANGED <<runPc, endpointUp>>,
           \A c \in Conn : connOpen'[c] => connOpen[c]
    PROVE  EndpointInv'
BY DEF EndpointInv, ClosedForGood

LEMMA EndpointStep ==
    ASSUME TypeInv, EndpointInv, [Next]_vars
    PROVE  EndpointInv'
<1>0. ConnTypes
      BY DEF TypeInv, ConnInv
<1> USE DEF runVars, shutVars
<1>1. CASE UNCHANGED vars
      BY <1>1, EndpointKept DEF vars, connVars
<1>2. CASE AnnounceStep
      BY <1>2, EndpointKept DEF AnnounceStep, HandleAnnouncement, ResolveAnnouncement,
                                connVars
<1>3. CASE \E d \in Dial : DialStep(d)
  <2>1. ASSUME NEW d \in Dial, NEW c \in Conn, NEW q \in Peer, DialSucceeds(d, c, q)
        PROVE  EndpointInv'
        BY <2>1 DEF DialSucceeds, CanDial, EndpointInv, ClosedForGood
  <2>2. ASSUME NEW d \in Dial,
               \/ CheckPending(d) \/ CheckPeers(d) \/ Reserve(d)
               \/ DialFails(d) \/ EndConnect(d) \/ ReportDialFailure(d)
        PROVE  EndpointInv'
        BY <2>2, EndpointKept
           DEF CheckPending, CheckPeers, Reserve, DialFails, EndConnect,
               ReportDialFailure, notDial, connVars
  <2> QED BY <1>3, <2>1, <2>2 DEF DialStep
<1>4. ASSUME NEW c \in Conn, TaskStep(c) \/ ServeStep(c)
      PROVE  EndpointInv'
  <2>1. /\ UNCHANGED <<runPc, endpointUp>>
        /\ UNCHANGED connOpen \/ connOpen' = [connOpen EXCEPT ![c] = FALSE]
        BY <1>4 DEF TaskStep, CheckManual, RejectDuplicate, Install, ClearManual,
               ReportConnected, AcceptLoopEnds, Teardown, ReportDisconnected,
               DecideReconnect, Reconnect, ReconnectAnswered, ServeStep,
               ServeSelfAnnouncement, ServeGossip, BadRequest, Tell, Goto, CloseRefused,
               connVars, notConn
  <2> QED BY <1>0, <2>1, EndpointKept DEF ConnTypes
<1>5. CASE RunStep
  <2>1. CASE CloseConnections
        BY <1>0, <2>1 DEF CloseConnections, Closes, EndpointInv, ClosedForGood, ConnTypes
  <2>2. CASE \E d \in Dial : (\E p \in Peer : DialKnownPeer(d, p)) \/ DialDiscovered(d)
        BY <2>2, EndpointKept DEF DialKnownPeer, DialDiscovered, connVars
  <2>3. CASE \/ EnterLoop \/ HandshakeFails \/ BeginShutdown
             \/ \E c \in Conn, q \in Peer : HandshakeSucceeds(c, q)
        BY <2>3 DEF EnterLoop, HandshakeFails, BeginShutdown, HandshakeSucceeds,
                    EndpointInv, ClosedForGood, notRun, connVars
  <2> QED BY <1>5, <2>1, <2>2, <2>3 DEF RunStep
<1>6. ASSUME NEW r \in Req, RequestStep(r)
      PROVE  EndpointInv'
      BY <1>0, <1>6, EndpointKept
         DEF RequestStep, ConnectAnswered, SetManual, CloseDisconnected, SignalShutDown,
             notReq, connVars, ConnTypes
<1>7. CASE EnvironmentStep
  <2>1. CASE \E a \in Peer \cup {None} : Incoming(a)
        BY <2>1 DEF Incoming, EndpointInv, ClosedForGood, notRun, connVars
  <2>2. CASE \/ \E p \in Peer : DiscoverLocally(p)
             \/ \E c \in Conn : ConnectionLost(c)
             \/ \E r \in Req : \/ \E p \in Peer : CallConnect(r, p) \/ CallDisconnect(r, p)
                               \/ CallShutDown(r)
        BY <1>0, <2>2, EndpointKept
           DEF DiscoverLocally, ConnectionLost, CallConnect, CallDisconnect, CallShutDown,
               notRun, notConn, notReq, connVars, ConnTypes
  <2> QED BY <1>7, <2>1, <2>2 DEF EnvironmentStep
<1> QED BY <1>1, <1>2, <1>3, <1>4, <1>5, <1>6, <1>7 DEF Next

\* After the run loop has closed a shared endpoint nothing is open and nothing
\* opens again, whatever was still dialling, installing or answering a
\* disconnect (Hdp::run, shutdown branch, mod.rs).
THEOREM ShutdownCloses == Spec => []ClosedForGood
<1>1. Init => EndpointInv
      BY DEF Init, EndpointInv, ClosedForGood
<1>2. EndpointInv => ClosedForGood
      BY DEF EndpointInv
<1> QED BY <1>1, <1>2, TypeInit, TypeStep, EndpointStep, PTL DEF Spec

-----------------------------------------------------------------------------
(* Connections implements PeerTable *)


\* A step that takes connections out of service and changes nothing else.
LEMMA LosesOnly ==
    ASSUME UNCHANGED peers, Unsettled' = Unsettled, Served' \subseteq Served
    PROVE  [Table!Next]_(Table!vars)
<1> DEFINE lost == Served \ Served'
<1>1. lost \in SUBSET Conn
      BY DEF Served
<1>2. Table!Lose(lost)
      BY DEF Table!Lose
<1> QED BY <1>1, <1>2 DEF Table!Next

\* A step that ends no phase and opens no connection.
LEMMA ClosesOnly ==
    ASSUME UNCHANGED <<peers, connPc>>, \A c \in Conn : connOpen'[c] => connOpen[c]
    PROVE  [Table!Next]_(Table!vars)
BY LosesOnly DEF Served, Unsettled

LEMMA Unmoved ==
    ASSUME UNCHANGED <<peers, connPc, connOpen>>
    PROVE  [Table!Next]_(Table!vars)
BY ClosesOnly

\* A new connection waits to be decided on, as it did before it existed.
LEMMA Spawned ==
    ASSUME ConnTypes, UNCHANGED peers, NEW c \in Conn, NEW q, NEW a, SpawnConnection(c, q, a)
    PROVE  [Table!Next]_(Table!vars)
<1>1. Unsettled' = Unsettled /\ Served' = Served
      BY DEF SpawnConnection, ConnTypes, Unsettled, Served, Handled
<1> QED BY <1>1, LosesOnly

LEMMA Refused ==
    ASSUME ConnTypes, UNCHANGED peers, NEW c \in Conn,
           connPc[c] \in {"checkManual", "install"}, CloseRefused(c)
    PROVE  Table!Next
<1>1. Served' = Served /\ Unsettled' = Unsettled \ {c}
      BY DEF CloseRefused, ConnTypes, Served, Unsettled, Handled
<1>2. Table!Refuse(c)
      BY <1>1 DEF Table!Refuse
<1> QED BY <1>2 DEF Table!Next

LEMMA Listed ==
    ASSUME TypeInv, NEW c \in Conn, Install(c)
    PROVE  Table!Next
<1>0. ConnTypes /\ ConnPhases
      BY DEF TypeInv, ConnInv
<1>1. connPeer[c] \in Peer
      BY <1>0 DEF ConnPhases, Install
<1>2. peers[connPeer[c]] \notin Served
  <2>1. ~OpenEntry(connPeer[c])
        BY DEF Install, MayInstall
  <2> QED BY <2>1, ConnectionsAssumption DEF OpenEntry, Served, ConnectionsAssumption
<1>3. c \in Unsettled /\ Unsettled' = Unsettled \ {c}
      BY <1>0 DEF Install, ConnTypes, Unsettled
<1>4. Served' \in {Served, Served \cup {c}}
      BY <1>0 DEF Install, ConnTypes, Served, Handled
<1>5. peers' = [peers EXCEPT ![connPeer[c]] = c]
      BY DEF Install, EntryName
<1>6. Table!List(connPeer[c], c)
      BY <1>2, <1>3, <1>4, <1>5 DEF Table!List
<1> QED BY <1>1, <1>6 DEF Table!Next

LEMMA Delisted ==
    ASSUME TypeInv, NEW c \in Conn, Teardown(c)
    PROVE  [Table!Next]_(Table!vars)
<1>0. ConnTypes /\ ConnPhases
      BY DEF TypeInv, ConnInv
<1>1. connPeer[c] \in Peer
      BY <1>0 DEF ConnPhases, Teardown
<1>2. Served' = Served /\ Unsettled' = Unsettled
      BY <1>0 DEF Teardown, Goto, ConnTypes, Served, Unsettled, Handled
<1>3. CASE OwnsEntry(c)
  <2>1. peers[connPeer[c]] \notin Served
        BY <1>3 DEF OwnsEntry, Teardown, Served
  <2>2. peers' = [peers EXCEPT ![connPeer[c]] = None]
        BY <1>3 DEF Teardown
  <2>3. Table!Delist(connPeer[c])
        BY <1>2, <2>1, <2>2 DEF Table!Delist
  <2> QED BY <1>1, <2>3 DEF Table!Next
<1>4. CASE ~OwnsEntry(c)
      BY <1>2, <1>4, LosesOnly DEF Teardown, tableVars
<1> QED BY <1>3, <1>4

LEMMA TaskMaps ==
    ASSUME TypeInv, NEW c \in Conn, TaskStep(c) \/ ServeStep(c)
    PROVE  [Table!Next]_(Table!vars)
<1>0. ConnTypes
      BY DEF TypeInv, ConnInv
<1>1. CASE CheckManual(c)
  <2>1. CASE connPeer[c] \in manual
        BY <1>0, <1>1, <2>1, Refused DEF CheckManual, sharedVars, tableVars
  <2>2. CASE connPeer[c] \notin manual
    <3>1. Served' = Served /\ Unsettled' = Unsettled
          BY <1>0, <1>1, <2>2 DEF CheckManual, Goto, ConnTypes, Served, Unsettled, Handled
    <3> QED BY <1>1, <3>1, LosesOnly DEF CheckManual, sharedVars, tableVars
  <2> QED BY <2>1, <2>2
<1>2. CASE RejectDuplicate(c)
      BY <1>0, <1>2, Refused DEF RejectDuplicate, sharedVars, tableVars
<1>3. CASE Install(c)
      BY <1>3, Listed
<1>4. CASE Teardown(c)
      BY <1>4, Delisted
<1>5. CASE \/ ClearManual(c) \/ ReportConnected(c) \/ AcceptLoopEnds(c)
           \/ ReportDisconnected(c) \/ DecideReconnect(c) \/ Reconnect(c)
           \/ ReconnectAnswered(c) \/ BadRequest(c)
  <2>1. UNCHANGED peers
        BY <1>5 DEF ClearManual, ReportConnected, AcceptLoopEnds, ReportDisconnected,
               DecideReconnect, Reconnect, ReconnectAnswered, BadRequest, sharedVars,
               exceptManual, exceptUi, tableVars
  <2>2. /\ UNCHANGED connOpen
        /\ \E phase \in ConnPhase : connPc' = [connPc EXCEPT ![c] = phase]
        /\ connPc[c] \in Handled \cup Ended
        /\ connPc'[c] \in Handled \cup Ended
        /\ connPc[c] \in Ended \/ (connPc[c] = "teardown") => connPc'[c] \in Ended
        BY <1>0, <1>5 DEF ClearManual, ReportConnected, AcceptLoopEnds,
               ReportDisconnected, DecideReconnect, Reconnect, ReconnectAnswered,
               BadRequest, Goto, ConnTypes, ConnPhase, Handled, Ended
  <2>3. Unsettled' = Unsettled
        BY <1>0, <2>2 DEF Unsettled, ConnTypes, Handled, Ended
  <2>4. Served' \subseteq Served
        BY <1>0, <2>2 DEF Served, ConnTypes, Handled, Ended
  <2> QED BY <2>1, <2>3, <2>4, LosesOnly
<1>6. CASE \/ ServeSelfAnnouncement(c)
           \/ \E p \in Peer : ServeGossip(c, p)
           \/ \E d \in Conn : Tell(c, d)
      BY <1>6, Unmoved DEF ServeSelfAnnouncement, ServeGossip, Tell, sharedVars, tableVars,
                           connVars
<1> QED BY <1>1, <1>2, <1>3, <1>4, <1>5, <1>6 DEF TaskStep, ServeStep

LEMMA StepMaps ==
    ASSUME TypeInv, [Next]_vars
    PROVE  [Table!Next]_(Table!vars)
<1>0. ConnTypes
      BY DEF TypeInv, ConnInv
<1>1. CASE UNCHANGED vars
      BY <1>1, Unmoved DEF vars, sharedVars, tableVars, connVars
<1>2. CASE AnnounceStep
      BY <1>2, Unmoved DEF AnnounceStep, HandleAnnouncement, ResolveAnnouncement,
                           sharedVars, tableVars, connVars
<1>3. ASSUME NEW d \in Dial, DialStep(d)
      PROVE  [Table!Next]_(Table!vars)
  <2>1. ASSUME NEW c \in Conn, NEW q \in Peer, DialSucceeds(d, c, q)
        PROVE  [Table!Next]_(Table!vars)
        BY <1>0, <2>1, Spawned DEF DialSucceeds, sharedVars, tableVars
  <2>2. CASE \/ CheckPending(d) \/ CheckPeers(d) \/ Reserve(d)
             \/ DialFails(d) \/ EndConnect(d) \/ ReportDialFailure(d)
        BY <2>2, Unmoved
           DEF CheckPending, CheckPeers, Reserve, DialFails, EndConnect,
               ReportDialFailure, sharedVars, exceptPending, exceptUi, tableVars,
               notDial, connVars
  <2> QED BY <1>3, <2>1, <2>2 DEF DialStep
<1>4. CASE RunStep
  <2>1. ASSUME NEW c \in Conn, NEW q \in Peer, HandshakeSucceeds(c, q)
        PROVE  [Table!Next]_(Table!vars)
        BY <1>0, <2>1, Spawned DEF HandshakeSucceeds, sharedVars, tableVars
  <2>2. CASE CloseConnections
        BY <1>0, <2>2, ClosesOnly DEF CloseConnections, ConnTypes, sharedVars, tableVars
  <2>3. CASE \/ \E d \in Dial : \/ \E p \in Peer : DialKnownPeer(d, p)
                                \/ DialDiscovered(d)
             \/ EnterLoop \/ HandshakeFails \/ BeginShutdown
        BY <2>3, Unmoved
           DEF DialKnownPeer, DialDiscovered, EnterLoop, HandshakeFails, BeginShutdown,
               sharedVars, exceptUi, tableVars, notRun, connVars
  <2> QED BY <1>4, <2>1, <2>2, <2>3 DEF RunStep
<1>5. ASSUME NEW r \in Req, RequestStep(r)
      PROVE  [Table!Next]_(Table!vars)
  <2>1. CASE CloseDisconnected(r)
        BY <1>0, <2>1, ClosesOnly DEF CloseDisconnected, ConnTypes, sharedVars, tableVars
  <2>2. CASE ConnectAnswered(r) \/ SetManual(r) \/ SignalShutDown(r)
        BY <2>2, Unmoved DEF ConnectAnswered, SetManual, SignalShutDown, sharedVars,
                             exceptManual, tableVars, connVars
  <2> QED BY <1>5, <2>1, <2>2 DEF RequestStep
<1>6. CASE EnvironmentStep
  <2>1. ASSUME NEW c \in Conn, ConnectionLost(c)
        PROVE  [Table!Next]_(Table!vars)
        BY <1>0, <2>1, ClosesOnly DEF ConnectionLost, ConnTypes, sharedVars, tableVars
  <2>2. CASE \/ \E p \in Peer : DiscoverLocally(p)
             \/ \E a \in Peer \cup {None} : Incoming(a)
             \/ \E r \in Req : \/ \E p \in Peer : CallConnect(r, p) \/ CallDisconnect(r, p)
                               \/ CallShutDown(r)
        BY <2>2, Unmoved
           DEF DiscoverLocally, Incoming, CallConnect, CallDisconnect, CallShutDown,
               sharedVars, tableVars, notRun, connVars
  <2> QED BY <1>6, <2>1, <2>2 DEF EnvironmentStep
<1> QED BY <1>1, <1>2, <1>3, <1>4, <1>5, <1>6, TaskMaps DEF Next

LEMMA InitMaps == Init => Table!Init
<1> SUFFICES ASSUME Init PROVE Table!Init
    OBVIOUS
<1>1. Served = {} /\ Unsettled = Conn
      BY DEF Init, Served, Unsettled
<1> QED BY <1>1 DEF Init, Table!Init

\* The connection manager implements the peer table: an entry is replaced or
\* removed only once its connection has ended, and a refused or departed
\* connection never comes back (handle_connection, mod.rs).
THEOREM TableImplemented == Spec => ImplementsPeerTable
BY InitMaps, StepMaps, TypeInit, TypeStep, PTL DEF Spec, ImplementsPeerTable, Table!Spec

TableProofs == INSTANCE PeerTableProofs WITH table <- peers, live <- Served, fresh <- Unsettled

\* What the abstract table guarantees holds of the connection manager: a
\* connection is listed under one name at most, and every served one is.
THEOREM TableExclusive == Spec => []Table!OneEntryEach
<1>1. None \notin Conn
      BY ConnectionsAssumption DEF ConnectionsAssumption
<1>2. TableProofs!Spec => []TableProofs!OneEntryEach
      BY <1>1, TableProofs!EntriesExclusive
<1>3. Table!Init => TableProofs!Init
      BY DEF Table!Init, TableProofs!Init
<1>4. [Table!Next]_(Table!vars) => [TableProofs!Next]_(TableProofs!vars)
      BY DEF Table!Next, Table!List, Table!Refuse, Table!Lose, Table!Delist, Table!vars,
             TableProofs!Next, TableProofs!List, TableProofs!Refuse, TableProofs!Lose,
             TableProofs!Delist, TableProofs!vars
<1>5. TableProofs!OneEntryEach => Table!OneEntryEach
      BY DEF TableProofs!OneEntryEach, Table!OneEntryEach
<1> QED BY <1>2, <1>3, <1>4, <1>5, TableImplemented, PTL
        DEF ImplementsPeerTable, Table!Spec, TableProofs!Spec
=============================================================================
