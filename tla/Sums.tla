-------------------------------- MODULE Sums --------------------------------
(***************************************************************************)
(* Laws of the sums over finite sets that the models use, MapThenSumSet of *)
(* FiniteSetsExt.  It is a fold over a set, so they need induction.  The   *)
(* library's induction theorems take the statement as an operator, which   *)
(* the provers cannot instantiate; here it is given as the set of what it  *)
(* holds for, whose complement has no least element.                       *)
(***************************************************************************)
EXTENDS Integers, FiniteSetsExt, FiniteSetTheorems, TLAPS

-----------------------------------------------------------------------------
(* Induction *)

\* What holds of the empty set, and of a set with one more element when it holds
\* of the set, holds of every finite set.
LEMMA FiniteInduction ==
    ASSUME NEW S, IsFiniteSet(S), NEW P \in SUBSET SUBSET S, {} \in P,
           \A T \in P : \A x \in S \ T : T \cup {x} \in P
    PROVE  P = SUBSET S
<1> DEFINE Bad == (SUBSET S) \ P
<1>1. SUFFICES ASSUME Bad # {} PROVE FALSE
      OBVIOUS
<1>2. FiniteSubsetsOf(S) = SUBSET S
      BY FS_FiniteSubsetsOfFinite
<1>3. IsWellFoundedOn(StrictSubsetOrdering(S), FiniteSubsetsOf(S))
      BY FS_StrictSubsetOrderingWellFounded
<1>4. PICK T \in Bad : \A U \in Bad : ~ (<<U, T>> \in StrictSubsetOrdering(S))
  <2>1. Bad \subseteq FiniteSubsetsOf(S)
        BY <1>2
  <2> HIDE DEF Bad
  <2> QED BY <1>1, <1>3, <2>1, WFMin
<1>5. PICK x \in T : TRUE
      BY <1>4
<1>6. T \ {x} \in SUBSET S /\ T \ {x} \subseteq T /\ T \ {x} # T
      BY <1>5
<1>7. T \ {x} \notin Bad
      BY <1>2, <1>4, <1>6 DEF StrictSubsetOrdering
<1>8. (T \ {x}) \cup {x} = T /\ x \in S \ (T \ {x})
      BY <1>5
<1> QED BY <1>6, <1>7, <1>8

LEMMA CountingUp ==
    ASSUME NEW n \in Nat, NEW P \in SUBSET Nat, 0 \in P, \A i \in P : i + 1 \in P
    PROVE  n \in P
<1> DEFINE Q == {T \in SUBSET (1..n) : Cardinality(T) \in P}
<1>1. IsFiniteSet(1..n) /\ Cardinality(1..n) = n
      BY FS_Interval
<1>2. {} \in Q
      BY FS_EmptySet
<1>3. ASSUME NEW T \in Q, NEW x \in (1..n) \ T PROVE T \cup {x} \in Q
  <2>1. IsFiniteSet(T)
        BY <1>1, FS_Subset
  <2>2. Cardinality(T \cup {x}) = Cardinality(T) + 1
        BY <2>1, <1>3, FS_AddElement
  <2> QED BY <2>2
<1>4. Q = SUBSET (1..n)
  <2> HIDE DEF Q
  <2>1. Q \in SUBSET SUBSET (1..n)
        BY DEF Q
  <2> QED BY <1>1, <1>2, <1>3, <2>1, FiniteInduction
<1> QED BY <1>1, <1>4

LEMMA OneLess ==
    ASSUME NEW S, IsFiniteSet(S), NEW T \in SUBSET S, NEW x \in T, NEW i \in Nat,
           Cardinality(T) = i + 1
    PROVE  T \ {x} \in SUBSET S /\ Cardinality(T \ {x}) = i
<1>1. IsFiniteSet(T) /\ Cardinality(T) \in Nat
      BY FS_Subset, FS_CardinalityType
<1>2. Cardinality(T \ {x}) = Cardinality(T) - 1
      BY <1>1, FS_RemoveElement
<1> QED BY <1>2

-----------------------------------------------------------------------------
(* The fold *)

SumOf(f, S) == MapThenSumSet(LAMBDA x : f[x], S)

Step(f, g, s) == IF s = {} THEN 0 ELSE f[CHOOSE x \in s : TRUE] + g[s \ {CHOOSE x \in s : TRUE}]
Iter(f, S) == CHOOSE g : g = [s \in SUBSET S |-> Step(f, g, s)]

LEMMA SumIter == ASSUME NEW f, NEW S PROVE SumOf(f, S) = Iter(f, S)[S]
BY DEF SumOf, MapThenSumSet, MapThenFoldSet, Iter, Step

\* The recursion has a solution: on sets of up to n elements for every n.
Small(S, n) == {s \in SUBSET S : Cardinality(s) <= n}
Solves(f, S, n, g) == g = [s \in Small(S, n) |-> Step(f, g, s)]

LEMMA SmallSolved ==
    ASSUME NEW f, NEW S, IsFiniteSet(S), NEW n \in Nat
    PROVE  \E g : Solves(f, S, n, g)
<1> DEFINE P == {i \in Nat : \E g : Solves(f, S, i, g)}
<1>0. \A s \in SUBSET S : IsFiniteSet(s) /\ Cardinality(s) \in Nat
      BY FS_Subset, FS_CardinalityType
<1>1. 0 \in P
  <2> DEFINE g == [s \in Small(S, 0) |-> 0]
  <2>1. \A s \in Small(S, 0) : s = {}
        BY <1>0, FS_EmptySet DEF Small
  <2>2. g = [s \in Small(S, 0) |-> Step(f, g, s)]
        BY <2>1 DEF Step
  <2> QED BY <2>2 DEF Solves
<1>2. ASSUME NEW i \in P PROVE i + 1 \in P
  <2>1. PICK g : Solves(f, S, i, g)
        OBVIOUS
  <2> DEFINE h == [s \in Small(S, i + 1) |-> Step(f, g, s)]
  <2>2. ASSUME NEW s \in Small(S, i) PROVE s \in Small(S, i + 1) /\ h[s] = g[s]
    <3>1. s \in Small(S, i + 1)
          BY <1>0 DEF Small
    <3>2. g[s] = Step(f, g, s)
          BY <2>1 DEF Solves
    <3> QED BY <3>1, <3>2
  <2>3. ASSUME NEW s \in Small(S, i + 1) PROVE Step(f, g, s) = Step(f, h, s)
    <3>1. CASE s = {}
          BY <3>1 DEF Step
    <3>2. CASE s # {}
      <4> DEFINE x == CHOOSE y \in s : TRUE
      <4>1. x \in s
            BY <3>2
      <4>2. s \ {x} \in SUBSET S /\ Cardinality(s \ {x}) = Cardinality(s) - 1
            BY <1>0, <4>1, FS_RemoveElement DEF Small
      <4>3. s \ {x} \in Small(S, i)
            BY <1>0, <4>2 DEF Small
      <4>4. g[s \ {x}] = h[s \ {x}]
            BY <2>2, <4>3
      <4> QED BY <3>2, <4>4 DEF Step
    <3> QED BY <3>1, <3>2
  <2>4. h = [s \in Small(S, i + 1) |-> Step(f, h, s)]
        BY <2>3
  <2>5. Solves(f, S, i + 1, h)
        BY <2>4 DEF Solves
  <2>6. i + 1 \in Nat
        OBVIOUS
  <2> HIDE DEF h
  <2> QED BY <2>5, <2>6
<1>3. n \in P
  <2> HIDE DEF P
  <2>1. P \in SUBSET Nat
        BY DEF P
  <2> QED BY <1>1, <1>2, <2>1, CountingUp
<1> QED BY <1>3

LEMMA IterStep ==
    ASSUME NEW f, NEW S, IsFiniteSet(S), NEW T \in SUBSET S
    PROVE  Iter(f, S)[T] = Step(f, Iter(f, S), T)
<1>1. \A s \in SUBSET S : Cardinality(s) <= Cardinality(S)
      BY FS_Subset
<1>2. Small(S, Cardinality(S)) = SUBSET S
      BY <1>1 DEF Small
<1>3. Cardinality(S) \in Nat
      BY FS_CardinalityType
<1>4. \E g : g = [s \in SUBSET S |-> Step(f, g, s)]
  <2>1. PICK g : Solves(f, S, Cardinality(S), g)
        BY <1>3, SmallSolved
  <2> QED BY <1>2, <2>1 DEF Solves
<1>5. Iter(f, S) = [s \in SUBSET S |-> Step(f, Iter(f, S), s)]
      BY <1>4 DEF Iter
<1> QED BY <1>5

\* It has one: subsets have the same value in the fold over a smaller set.
LEMMA IterLocal ==
    ASSUME NEW f, NEW S, IsFiniteSet(S), NEW T \in SUBSET S
    PROVE  Iter(f, S)[T] = SumOf(f, T)
<1> DEFINE P == {i \in Nat : \A U \in SUBSET T : Cardinality(U) = i => Iter(f, S)[U] = Iter(f, T)[U]}
<1>0. /\ IsFiniteSet(T)
      /\ \A U \in SUBSET T : IsFiniteSet(U) /\ Cardinality(U) \in Nat
      BY FS_Subset, FS_CardinalityType
<1>1. \A U \in SUBSET T : /\ Iter(f, S)[U] = Step(f, Iter(f, S), U)
                          /\ Iter(f, T)[U] = Step(f, Iter(f, T), U)
      BY <1>0, IterStep
<1>2. 0 \in P
      BY <1>0, <1>1, FS_EmptySet DEF Step
<1>3. ASSUME NEW i \in P PROVE i + 1 \in P
  <2>1. ASSUME NEW U \in SUBSET T, Cardinality(U) = i + 1
        PROVE  Iter(f, S)[U] = Iter(f, T)[U]
    <3> DEFINE x == CHOOSE y \in U : TRUE
    <3>1. U # {}
          BY <1>0, <2>1, FS_EmptySet
    <3>2. x \in U
          BY <3>1
    <3>3. U \ {x} \in SUBSET T /\ Cardinality(U \ {x}) = i
      <4> HIDE DEF x
      <4> QED BY <1>0, <2>1, <3>2, OneLess
    <3>4. Iter(f, S)[U \ {x}] = Iter(f, T)[U \ {x}]
          BY <3>3
    <3> QED BY <1>1, <3>1, <3>4 DEF Step
  <2> QED BY <2>1
<1>4. Cardinality(T) \in P
  <2> HIDE DEF P
  <2>1. P \in SUBSET Nat
        BY DEF P
  <2> QED BY <1>0, <1>2, <1>3, <2>1, CountingUp
<1> QED BY <1>4, SumIter

-----------------------------------------------------------------------------
(* Sums *)

LEMMA SumEmpty == ASSUME NEW f PROVE SumOf(f, {}) = 0
<1>1. IsFiniteSet({}) /\ {} \in SUBSET {}
      BY FS_EmptySet
<1>2. Iter(f, {})[{}] = Step(f, Iter(f, {}), {})
      BY <1>1, IterStep
<1> QED BY <1>2, SumIter DEF Step

\* The fold takes an element of its own choice first.
LEMMA SumChosen ==
    ASSUME NEW f, NEW S, IsFiniteSet(S), S # {}
    PROVE  \E x \in S : SumOf(f, S) = f[x] + SumOf(f, S \ {x})
<1> DEFINE x == CHOOSE y \in S : TRUE
<1>1. x \in S /\ S \ {x} \in SUBSET S
      OBVIOUS
<1>2. Iter(f, S)[S] = f[x] + Iter(f, S)[S \ {x}]
      BY IterStep DEF Step
<1>3. Iter(f, S)[S \ {x}] = SumOf(f, S \ {x})
      BY <1>1, IterLocal
<1> QED BY <1>1, <1>2, <1>3, SumIter

Values(f, S, V) == \A x \in S : f[x] \in V

LEMMA SumType ==
    ASSUME NEW f, NEW S, IsFiniteSet(S), NEW V \in {Nat, Int}, Values(f, S, V)
    PROVE  SumOf(f, S) \in V
<1> DEFINE P == {i \in Nat : \A T \in SUBSET S : Cardinality(T) = i => SumOf(f, T) \in V}
<1>0. \A T \in SUBSET S : IsFiniteSet(T) /\ Cardinality(T) \in Nat
      BY FS_Subset, FS_CardinalityType
<1>1. 0 \in P
      BY <1>0, FS_EmptySet, SumEmpty
<1>2. ASSUME NEW i \in P PROVE i + 1 \in P
  <2>1. ASSUME NEW T \in SUBSET S, Cardinality(T) = i + 1 PROVE SumOf(f, T) \in V
    <3>1. T # {}
          BY <1>0, <2>1, FS_EmptySet
    <3>2. PICK x \in T : SumOf(f, T) = f[x] + SumOf(f, T \ {x})
          BY <1>0, <3>1, SumChosen
    <3>3. T \ {x} \in SUBSET S /\ Cardinality(T \ {x}) = i
          BY <2>1, OneLess
    <3>4. SumOf(f, T \ {x}) \in V /\ f[x] \in V
          BY <3>3 DEF Values
    <3> QED BY <3>2, <3>4
  <2> QED BY <2>1
<1>3. Cardinality(S) \in P
  <2> HIDE DEF P
  <2>1. P \in SUBSET Nat
        BY DEF P
  <2> QED BY <1>0, <1>1, <1>2, <2>1, CountingUp
<1> QED BY <1>3

\* Which element is taken first makes no difference.
LEMMA SumWithout ==
    ASSUME NEW f, NEW S, IsFiniteSet(S), Values(f, S, Int), NEW x \in S
    PROVE  SumOf(f, S) = f[x] + SumOf(f, S \ {x})
<1> DEFINE Splits(T, y) == SumOf(f, T) = f[y] + SumOf(f, T \ {y})
           P == {i \in Nat : \A T \in SUBSET S : Cardinality(T) = i => \A y \in T : Splits(T, y)}
<1>0. \A T \in SUBSET S : IsFiniteSet(T) /\ Cardinality(T) \in Nat
      BY FS_Subset, FS_CardinalityType
<1>1. 0 \in P
      BY <1>0, FS_EmptySet
<1>2. ASSUME NEW i \in P PROVE i + 1 \in P
  <2>1. ASSUME NEW T \in SUBSET S, Cardinality(T) = i + 1, NEW y \in T PROVE Splits(T, y)
    <3>1. PICK z \in T : SumOf(f, T) = f[z] + SumOf(f, T \ {z})
          BY <1>0, SumChosen
    <3>2. CASE z = y
          BY <3>1, <3>2
    <3>3. CASE z # y
      <4>1. /\ T \ {z} \in SUBSET S /\ Cardinality(T \ {z}) = i
            /\ T \ {y} \in SUBSET S /\ Cardinality(T \ {y}) = i
            BY <2>1, OneLess
      <4>2. /\ SumOf(f, T \ {z}) = f[y] + SumOf(f, (T \ {z}) \ {y})
            /\ SumOf(f, T \ {y}) = f[z] + SumOf(f, (T \ {y}) \ {z})
            BY <3>3, <4>1
      <4>3. (T \ {z}) \ {y} = (T \ {y}) \ {z}
            OBVIOUS
      <4>4. f[y] \in Int /\ f[z] \in Int /\ SumOf(f, (T \ {y}) \ {z}) \in Int
            BY <1>0, SumType DEF Values
      <4>5. SumOf(f, T) = f[z] + (f[y] + SumOf(f, (T \ {y}) \ {z}))
            BY <3>1, <4>2, <4>3
      <4>6. SumOf(f, T) = f[y] + (f[z] + SumOf(f, (T \ {y}) \ {z}))
        <5> HIDE DEF P
        <5> QED BY <4>4, <4>5
      <4> QED BY <4>2, <4>6
    <3> QED BY <3>2, <3>3
  <2> QED BY <2>1
<1>3. Cardinality(S) \in P
  <2> HIDE DEF P
  <2>1. P \in SUBSET Nat
        BY DEF P
  <2> QED BY <1>0, <1>1, <1>2, <2>1, CountingUp
<1> QED BY <1>3

\* A further element adds its value.
THEOREM SumAdded ==
    ASSUME NEW f, NEW S, IsFiniteSet(S), NEW x, x \notin S, Values(f, S \cup {x}, Int)
    PROVE  SumOf(f, S \cup {x}) = f[x] + SumOf(f, S)
<1>1. IsFiniteSet(S \cup {x}) /\ (S \cup {x}) \ {x} = S
      BY FS_AddElement
<1> QED BY <1>1, SumWithout

\* The sum depends on the values at the elements only.
LEMMA SumSame ==
    ASSUME NEW f, NEW g, NEW S, IsFiniteSet(S), \A x \in S : f[x] = g[x], Values(f, S, Int)
    PROVE  SumOf(f, S) = SumOf(g, S)
<1> DEFINE P == {T \in SUBSET S : SumOf(f, T) = SumOf(g, T)}
<1>1. {} \in P
      BY SumEmpty
<1>2. ASSUME NEW T \in P, NEW x \in S \ T PROVE T \cup {x} \in P
  <2>1. IsFiniteSet(T) /\ Values(f, T \cup {x}, Int) /\ Values(g, T \cup {x}, Int)
        BY FS_Subset DEF Values
  <2>2. /\ SumOf(f, T \cup {x}) = f[x] + SumOf(f, T)
        /\ SumOf(g, T \cup {x}) = g[x] + SumOf(g, T)
        BY <2>1, SumAdded
  <2> QED BY <2>2
<1>3. P = SUBSET S
  <2> HIDE DEF P
  <2>1. P \in SUBSET SUBSET S
        BY DEF P
  <2> QED BY <1>1, <1>2, <2>1, FiniteInduction
<1> QED BY <1>3

\* Parts of a set add up.
THEOREM SumUnion ==
    ASSUME NEW f, NEW S, NEW T, IsFiniteSet(S), IsFiniteSet(T), S \cap T = {},
           Values(f, S \cup T, Int)
    PROVE  SumOf(f, S \cup T) = SumOf(f, S) + SumOf(f, T)
<1> DEFINE P == {U \in SUBSET T : SumOf(f, S \cup U) = SumOf(f, S) + SumOf(f, U)}
<1>0. SumOf(f, S) \in Int
      BY SumType DEF Values
<1>1. {} \in P
  <2>1. S \cup {} = S
        OBVIOUS
  <2> QED BY <1>0, <2>1, SumEmpty
<1>2. ASSUME NEW U \in P, NEW x \in T \ U PROVE U \cup {x} \in P
  <2>1. /\ IsFiniteSet(U) /\ IsFiniteSet(S \cup U)
        /\ x \notin S \cup U /\ x \notin U /\ S \cup (U \cup {x}) = (S \cup U) \cup {x}
        /\ Values(f, (S \cup U) \cup {x}, Int) /\ Values(f, U \cup {x}, Int)
        BY FS_Subset, FS_Union DEF Values
  <2>2. /\ SumOf(f, (S \cup U) \cup {x}) = f[x] + SumOf(f, S \cup U)
        /\ SumOf(f, U \cup {x}) = f[x] + SumOf(f, U)
        BY <2>1, SumAdded
  <2>3. f[x] \in Int /\ SumOf(f, U) \in Int
        BY <2>1, SumType DEF Values
  <2>4. SumOf(f, S \cup (U \cup {x})) = SumOf(f, S) + SumOf(f, U \cup {x})
    <3>1. SumOf(f, S \cup U) = SumOf(f, S) + SumOf(f, U)
          OBVIOUS
    <3>2. SumOf(f, S \cup (U \cup {x})) = SumOf(f, (S \cup U) \cup {x})
          BY <2>1
    <3>3. SumOf(f, S \cup (U \cup {x})) = f[x] + (SumOf(f, S) + SumOf(f, U))
          BY <2>2, <3>1, <3>2
    <3>4. SumOf(f, S) + SumOf(f, U \cup {x}) = SumOf(f, S) + (f[x] + SumOf(f, U))
          BY <2>2
    <3> HIDE DEF P
    <3>5. f[x] + (SumOf(f, S) + SumOf(f, U)) = SumOf(f, S) + (f[x] + SumOf(f, U))
          BY <1>0, <2>3
    <3> QED BY <3>3, <3>4, <3>5
  <2> QED BY <2>4
<1>3. P = SUBSET T
  <2> HIDE DEF P
  <2>1. P \in SUBSET SUBSET T
        BY DEF P
  <2> QED BY <1>1, <1>2, <2>1, FiniteInduction
<1> QED BY <1>3

\* More elements, or larger values, make no smaller sum.
LEMMA SumGrows ==
    ASSUME NEW f, NEW S, IsFiniteSet(S), Values(f, S, Nat), NEW T \in SUBSET S
    PROVE  SumOf(f, T) <= SumOf(f, S)
<1>1. /\ IsFiniteSet(T) /\ IsFiniteSet(S \ T)
      /\ T \cap (S \ T) = {} /\ T \cup (S \ T) = S
      /\ Values(f, T, Nat) /\ Values(f, S \ T, Nat) /\ Values(f, T \cup (S \ T), Int)
      BY FS_Subset DEF Values
<1>2. SumOf(f, S) = SumOf(f, T) + SumOf(f, S \ T)
  <2>1. PICK R : R = S \ T
        OBVIOUS
  <2>2. IsFiniteSet(T) /\ IsFiniteSet(R) /\ T \cap R = {} /\ Values(f, T \cup R, Int)
        BY <1>1, <2>1
  <2>3. SumOf(f, T \cup R) = SumOf(f, T) + SumOf(f, R)
        BY <2>2, SumUnion
  <2> QED BY <1>1, <2>1, <2>3
<1>3. SumOf(f, T) \in Nat /\ SumOf(f, S \ T) \in Nat
      BY <1>1, SumType
<1> QED BY <1>2, <1>3

\* A part that makes up the whole sum lacks only elements that are worth nothing.
LEMMA SumWhole ==
    ASSUME NEW f, NEW S, IsFiniteSet(S), Values(f, S, Nat), NEW T \in SUBSET S,
           SumOf(f, S) <= SumOf(f, T), NEW x \in S \ T
    PROVE  f[x] = 0
<1>1. IsFiniteSet(T) /\ T \cup {x} \in SUBSET S /\ Values(f, T \cup {x}, Int) /\ f[x] \in Nat
      BY FS_Subset DEF Values
<1>2. SumOf(f, T \cup {x}) = f[x] + SumOf(f, T) /\ SumOf(f, T \cup {x}) <= SumOf(f, S)
      BY <1>1, SumAdded, SumGrows
<1>3. SumOf(f, T) \in Int /\ SumOf(f, S) \in Int
      BY <1>1, SumType DEF Values
<1> QED BY <1>1, <1>2, <1>3

\* Sums compare as their terms do.
LEMMA SumCompares ==
    ASSUME NEW f, NEW g, NEW S, IsFiniteSet(S), Values(f, S, Int), Values(g, S, Int),
           \A x \in S : f[x] <= g[x]
    PROVE  SumOf(f, S) <= SumOf(g, S)
<1> DEFINE P == {T \in SUBSET S : SumOf(f, T) <= SumOf(g, T)}
<1>1. {} \in P
      BY SumEmpty
<1>2. ASSUME NEW T \in P, NEW x \in S \ T PROVE T \cup {x} \in P
  <2>1. /\ IsFiniteSet(T) /\ Values(f, T \cup {x}, Int) /\ Values(g, T \cup {x}, Int)
        /\ Values(f, T, Int) /\ Values(g, T, Int)
        BY FS_Subset DEF Values
  <2>2. /\ SumOf(f, T \cup {x}) = f[x] + SumOf(f, T)
        /\ SumOf(g, T \cup {x}) = g[x] + SumOf(g, T)
        BY <2>1, SumAdded
  <2>3. SumOf(f, T) \in Int /\ SumOf(g, T) \in Int /\ f[x] \in Int /\ g[x] \in Int
        BY <2>1, SumType DEF Values
  <2> QED BY <2>2, <2>3
<1>3. P = SUBSET S
  <2> HIDE DEF P
  <2>1. P \in SUBSET SUBSET S
        BY DEF P
  <2> QED BY <1>1, <1>2, <2>1, FiniteInduction
<1> QED BY <1>3

\* And with the terms the sum can only be as large if every term is.
LEMMA SumTight ==
    ASSUME NEW f, NEW g, NEW S, IsFiniteSet(S), Values(f, S, Int), Values(g, S, Int),
           \A x \in S : f[x] <= g[x], SumOf(g, S) <= SumOf(f, S), NEW x \in S
    PROVE  f[x] = g[x]
<1>1. IsFiniteSet(S \ {x}) /\ Values(f, S \ {x}, Int) /\ Values(g, S \ {x}, Int)
      BY FS_Subset DEF Values
<1>2. SumOf(f, S) = f[x] + SumOf(f, S \ {x}) /\ SumOf(g, S) = g[x] + SumOf(g, S \ {x})
      BY SumWithout
<1>3. SumOf(f, S \ {x}) <= SumOf(g, S \ {x})
      BY <1>1, SumCompares
<1>4. SumOf(f, S \ {x}) \in Int /\ SumOf(g, S \ {x}) \in Int /\ f[x] \in Int /\ g[x] \in Int
      BY <1>1, SumType DEF Values
<1> QED BY <1>2, <1>3, <1>4

\* One term changes.
LEMMA SumChanged ==
    ASSUME NEW f, NEW g, NEW S, IsFiniteSet(S), Values(f, S, Int), Values(g, S, Int),
           NEW x \in S, \A y \in S \ {x} : f[y] = g[y]
    PROVE  SumOf(g, S) = SumOf(f, S) + (g[x] - f[x])
<1>1. IsFiniteSet(S \ {x}) /\ Values(f, S \ {x}, Int)
      BY FS_Subset DEF Values
<1>2. SumOf(f, S) = f[x] + SumOf(f, S \ {x}) /\ SumOf(g, S) = g[x] + SumOf(g, S \ {x})
      BY SumWithout
<1>3. SumOf(f, S \ {x}) = SumOf(g, S \ {x})
      BY <1>1, SumSame
<1>4. SumOf(f, S \ {x}) \in Int /\ f[x] \in Int /\ g[x] \in Int
      BY <1>1, SumType DEF Values
<1> QED BY <1>2, <1>3, <1>4
=============================================================================
