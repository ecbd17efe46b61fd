----------------------------- MODULE MCLibrary -----------------------------
EXTENDS Library

\* Two directories of one name and one whose name begins with it.
First == <<"a", "/", "foo">>
Second == <<"b", "/", "foo">>
Longer == <<"a", "/", "foo", "bar">>
ThreeDirectories == {First, Second, Longer}

File(p, n) == [path |-> p, size |-> n]
Deep == File(<<"sub", "/", "x">>, 1)
Flat == File(<<"y">>, 2)
Walks == (First :> {{Deep, Flat}, {}}) @@ (Second :> {{Flat}}) @@ (Longer :> {{Deep}})

Ranks == (" - " :> 1) @@ ("/" :> 2) @@ ("2" :> 3) @@ ("a" :> 4) @@ ("b" :> 5) @@ ("bar" :> 6)
         @@ ("foo" :> 7) @@ ("sub" :> 8) @@ ("x" :> 9) @@ ("y" :> 10)

Numbers == <<"2">>

Foo == <<"foo">>
FooBar == <<"foo", "bar">>
NoShares == <<>>
TwoShares == (Foo :> [dir |-> First, tree |-> {Deep, Flat}]) @@ (FooBar :> [dir |-> Longer, tree |-> {Deep}])

Ask(p, t, r) == [path |-> p, term |-> t, recursive |-> r]
AllQueries == {Ask(Root, None, FALSE), Ask(Foo, None, FALSE), Ask(Foo, None, TRUE), Ask(Root, "x", TRUE), Ask(<<"b">>, None, FALSE)}
FewQueries == {Ask(Root, None, FALSE), Ask(<<"b">>, None, FALSE)}
SomePortions == {[start |-> 0, end |-> None], [start |-> 1, end |-> 2], [start |-> 2, end |-> 1]}

Session(shared, i, asks, c, r, l, x) ==
    [shared |-> shared, index |-> i, asks |-> asks, calls |-> c, reads |-> r, losses |-> l, closes |-> x]
AllSessions == {
    Session(NoShares, 3, {}, 0, 0, 0, 0), Session(TwoShares, 2, {}, 0, 0, 1, 0),
    Session(TwoShares, 1, {Ask(Foo, None, TRUE)}, 1, 0, 0, 0),
    Session(TwoShares, 0, AllQueries, 1, 0, 1, 0), Session(TwoShares, 0, FewQueries, 2, 0, 1, 1),
    Session(TwoShares, 0, {}, 0, 2, 1, 1), Session(TwoShares, 1, {}, 0, 1, 0, 0)}
=============================================================================
