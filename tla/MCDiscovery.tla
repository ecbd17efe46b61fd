---------------------------- MODULE MCDiscovery ----------------------------
EXTENDS Discovery, TLC

CONSTANTS hub, a, b

HubFirst == (hub :> 3) @@ (a :> 2) @@ (b :> 1)
HubLast == (hub :> 0) @@ (a :> 1) @@ (b :> 2)
Servers == <<1, 1, 2>>

Nat2(x, y) == (hub :> "NoNat") @@ (a :> x) @@ (b :> y)
BothToHub == {<<a, hub>>, <<b, hub>>}
OneToHub == {<<a, hub>>}
Pair == {<<a, b>>, <<b, a>>}

Apart(x, y, fails) ==
    [nat |-> Nat2(x, y), lan |-> {}, router |-> {}, calls |-> BothToHub, failures |-> fails]
OneHome(x, y, fails) ==
    [nat |-> Nat2(x, y), lan |-> Pair, router |-> Pair, calls |-> OneToHub, failures |-> fails]

\* Two peers and a hub without NAT: both users connect to the hub, or one of them
\* does and the peers find each other on their local network.
ThreeNodes == {hub, a, b}
Meetings == {
    Apart("NoNat", "NoNat", 0), Apart("Symmetric", "Asymmetric", 0), Apart("NoNat", "Asymmetric", 0),
    Apart("Asymmetric", "Asymmetric", 1),
    OneHome("Asymmetric", "Asymmetric", 1),
    [Apart("NoNat", "NoNat", 1) EXCEPT !.calls = OneToHub]}

\* The same at home, when both know the hub and are told of each other by it as well.
FoundTwice == {[OneHome("Asymmetric", "Asymmetric", 0) EXCEPT !.calls = BothToHub]}
=============================================================================
