---------------------------- MODULE MCHolePunch ----------------------------
EXTENDS HolePunch, TLC

CONSTANTS a, b
TwoSides == {a, b}
Opposite == (a :> b) @@ (b :> a)
=============================================================================
