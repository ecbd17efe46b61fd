-------------------------- MODULE PeerTableProofs --------------------------
(* What the abstract peer table guarantees, for any peers and connections. *)
EXTENDS PeerTable, TLAPS

Inv == TypeOK /\ OneEntryEach

LEMMA InvInit == None \notin Conn /\ Init => Inv
BY DEF Init, Inv, TypeOK, OneEntryEach

LEMMA InvStep == None \notin Conn /\ Inv /\ [Next]_vars => Inv'
<1> SUFFICES ASSUME None \notin Conn, Inv, [Next]_vars PROVE Inv'
    OBVIOUS
<1> USE DEF Inv, TypeOK, OneEntryEach
<1>1. ASSUME NEW p \in Peer, NEW c \in Conn, List(p, c)
      PROVE  Inv'
  <2>1. c \notin live /\ \A q \in Peer : table[q] # c
        BY <1>1 DEF List
  <2>2. \A q \in Peer : table'[q] = IF q = p THEN c ELSE table[q]
        BY <1>1 DEF List
  <2>3. live' \subseteq {table'[q] : q \in Peer}
        BY <1>1, <2>2 DEF List
  <2>4. TypeOK'
        BY <1>1 DEF List
  <2> QED BY <1>1, <2>1, <2>2, <2>3, <2>4 DEF List
<1>2. ASSUME NEW c \in Conn, Refuse(c)
      PROVE  Inv'
      BY <1>2 DEF Refuse
<1>3. ASSUME NEW lost \in SUBSET Conn, Lose(lost)
      PROVE  Inv'
      BY <1>3 DEF Lose
<1>4. ASSUME NEW p \in Peer, Delist(p)
      PROVE  Inv'
  <2>1. \A q \in Peer : table'[q] = IF q = p THEN None ELSE table[q]
        BY <1>4 DEF Delist
  <2>2. live' \subseteq {table'[q] : q \in Peer}
        BY <1>4, <2>1 DEF Delist
  <2> QED BY <1>4, <2>1, <2>2 DEF Delist
<1>5. CASE UNCHANGED vars
      BY <1>5 DEF vars
<1> QED BY <1>1, <1>2, <1>3, <1>4, <1>5 DEF Next

\* Every behaviour of the table keeps one entry for a connection and lists the
\* connections being served; with TableImplemented this carries over to
\* handle_connection (mod.rs).
THEOREM EntriesExclusive ==
    ASSUME None \notin Conn
    PROVE  Spec => []OneEntryEach
<1>1. Inv => OneEntryEach
      BY DEF Inv
<1> QED BY <1>1, InvInit, InvStep, PTL DEF Spec
=============================================================================
