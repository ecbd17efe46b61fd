--------------------------- MODULE MCConnections ---------------------------
EXTENDS Connections, TLC

\* Every address is answered by the peer it was announced for.
OwnAddress == [p \in Peer |-> {p}]

\* Addresses may have been reused by another peer.
ReusedAddress == [p \in Peer |-> Peer]

\* Nobody answers at the address of one peer: it can only connect by itself.
OneAnswers == [p \in Peer |-> IF p = CHOOSE q \in Peer : TRUE THEN {p} ELSE {}]

Symmetry == Permutations(Conn) \cup Permutations(Req) \cup Permutations(Dial)
=============================================================================
