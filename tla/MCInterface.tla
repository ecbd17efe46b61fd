---------------------------- MODULE MCInterface ----------------------------
EXTENDS Interface, TLC

CONSTANTS ann, bob

\* A directory, one whose name begins with its name, and a file.
D == <<"d">>
E == <<"d", "e">>
F == <<"f">>
InD == <<"d", "/", "a">>
InE == <<"d", "e", "/", "c">>
Mine == <<"m">>
SomeDirs == {Root, D, E, Mine}
Shared ==
    (ann :> (Root :> 2 @@ D :> 1 @@ InD :> 1 @@ E :> 1 @@ InE :> 1))
    @@ (bob :> (Root :> 2 @@ F :> 2)) @@ ("me" :> (Mine :> 1))

Nothing ==
    [arrivals |-> 0, losses |-> 0, drops |-> 0, connects |-> 0, disconnects |-> 0, downloads |-> 0,
     listings |-> 0, shares |-> 0]
Session(open, listing, shares, requested, may) ==
    [open |-> open, listed |-> listing, mine |-> shares, wish |-> requested, left |-> may]
AllSessions ==
    {\* peers come and go
     Session(FALSE, {bob}, {}, <<>>, [Nothing EXCEPT !.arrivals = 1, !.losses = 1, !.connects = 1]),
     Session(FALSE, {bob}, {}, <<>>, [Nothing EXCEPT !.arrivals = 1, !.disconnects = 1, !.connects = 1]),
     Session(FALSE, {bob}, {}, <<>>, [Nothing EXCEPT !.losses = 1, !.disconnects = 1, !.connects = 1, !.drops = 1]),
     \* downloads: a new one, an old one across a loss, two of one name, two of one file
     Session(TRUE, {ann}, {}, <<>>, [Nothing EXCEPT !.downloads = 1, !.listings = 1]),
     Session(TRUE, {bob}, {}, <<<<bob, F>>>>, [Nothing EXCEPT !.arrivals = 1, !.losses = 1]),
     Session(TRUE, {ann}, {}, <<<<ann, D>>, <<ann, E>>>>, Nothing),
     Session(TRUE, {bob}, {}, <<<<bob, F>>>>, [Nothing EXCEPT !.downloads = 1, !.losses = 1]),
     \* shares and searches
     Session(FALSE, {bob}, {Mine}, <<>>, [Nothing EXCEPT !.shares = 2, !.listings = 1]),
     Session(TRUE, {bob}, {}, <<>>, [Nothing EXCEPT !.disconnects = 1, !.listings = 1])}
=============================================================================
