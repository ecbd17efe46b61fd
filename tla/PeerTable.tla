----------------------------- MODULE PeerTable -----------------------------
(***************************************************************************)
(* What the peer table promises to the rest of the program: at any moment  *)
(* it lists at most one connection for each peer, every connection that is *)
(* being served is listed, an entry changes hands or goes away only once   *)
(* its connection has ended, and a connection that was refused or has left *)
(* the table never comes back.  Connections implements it.                 *)
(***************************************************************************)
CONSTANTS Peer, Conn, None

VARIABLES
    table,   \* the connection listed for each peer, or None
    live,    \* the connections being served
    fresh    \* the connections that were neither listed nor refused yet

vars == <<table, live, fresh>>

TypeOK ==
    /\ table \in [Peer -> Conn \cup {None}]
    /\ live \in SUBSET Conn
    /\ fresh \in SUBSET Conn

Init ==
    /\ table = [p \in Peer |-> None]
    /\ live = {}
    /\ fresh = Conn

\* A connection may have been lost before it is listed.
List(p, c) ==
    /\ table[p] \notin live
    /\ c \in fresh
    /\ table' = [table EXCEPT ![p] = c]
    /\ live' \in {live, live \cup {c}}
    /\ fresh' = fresh \ {c}

Refuse(c) ==
    /\ fresh' = fresh \ {c}
    /\ UNCHANGED <<table, live>>

Lose(lost) ==
    /\ live' = live \ lost
    /\ UNCHANGED <<table, fresh>>

Delist(p) ==
    /\ table[p] \notin live
    /\ table' = [table EXCEPT ![p] = None]
    /\ UNCHANGED <<live, fresh>>

Next ==
    \/ \E p \in Peer, c \in Conn : List(p, c)
    \/ \E c \in Conn : Refuse(c)
    \/ \E lost \in SUBSET Conn : Lose(lost)
    \/ \E p \in Peer : Delist(p)

Spec == Init /\ [][Next]_vars

\* What handle_connection relies on when it compares stable ids (mod.rs): no
\* connection is listed twice, none is both listed and still to be listed,
\* and a connection is served only while it is listed.
OneEntryEach ==
    /\ \A p, q \in Peer : table[p] = table[q] /\ table[p] # None => p = q
    /\ \A p \in Peer : table[p] \notin fresh
    /\ live \subseteq {table[p] : p \in Peer}
=============================================================================
