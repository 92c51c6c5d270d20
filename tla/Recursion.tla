------------------------------ MODULE Recursion ------------------------------
(***************************************************************************)
(* Going through a sequence from its first element to its last, as the      *)
(* loops of the program do and FoldLeft says.  What an iteration does (Op)  *)
(* and what holds after so many of them (Inv) are parameters: a module that *)
(* proves something of a loop instantiates this one for it.  The first      *)
(* argument of both stands for whatever else the loop reads.                *)
(***************************************************************************)
EXTENDS Integers, NaturalsInduction, WellFoundedInduction, TLAPS

CONSTANTS Op(_, _, _),      \* Op(p, a, x): the iteration for the element x, which finds a
          Inv(_, _, _)      \* Inv(p, i, a): what a is after i elements

\* FoldLeft, over the sets of places already visited.
Last(S) == CHOOSE x \in S : \A y \in S : x >= y
Fold(p, base, s) ==
    LET it[S \in SUBSET (DOMAIN s)] ==
            IF S = {} THEN base ELSE LET x == Last(S) IN Op(p, it[S \ {x}], s[x])
    IN  it[DOMAIN s]

-----------------------------------------------------------------------------
\* A set of natural numbers that is not empty has a least one.
LEMMA LeastNatural ==
    ASSUME NEW N \in SUBSET Nat, N # {}
    PROVE  \E x \in N : \A y \in N : x =< y
<1> DEFINE R == {p \in Nat \X Nat : p[1] < p[2]}
<1>1. IsWellFoundedOn(R, Nat)
  <2>1. OpToRel(<, Nat) = R  BY DEF OpToRel
  <2> QED  BY <2>1, NatLessThanWellFounded
<1>2. PICK x \in N : \A y \in N : <<y, x>> \notin R
  <2> HIDE DEF R
  <2> QED  BY <1>1, WFMin
<1>3. ASSUME NEW y \in N  PROVE x =< y
  <2>1. x \in Nat /\ y \in Nat  OBVIOUS
  <2>2. y < x => <<y, x>> \in R  BY <2>1
  <2> HIDE DEF R
  <2> QED  BY <1>2, <2>1, <2>2
<1> QED  BY <1>3

Visits(f, p, base, s, n) ==
    f = [S \in SUBSET (1..n) |-> IF S = {} THEN base ELSE Op(p, f[S \ {Last(S)}], s[Last(S)])]

\* The function that Fold looks up is there, by one place at a time.
LEMMA FoldExists ==
    ASSUME NEW p, NEW base, NEW n \in Nat, NEW s
    PROVE  \E f : Visits(f, p, base, s, n)
<1> DEFINE Is(f, k) == Visits(f, p, base, s, k)
           Bad == {k \in Nat : ~ \E f : Is(f, k)}
<1>1. Is([S \in SUBSET (1..0) |-> base], 0)
  <2>1. SUBSET (1..0) = {{}}  OBVIOUS
  <2> QED  BY <2>1 DEF Visits
<1>2. ASSUME NEW k \in Nat, NEW f, Is(f, k)  PROVE \E g : Is(g, k + 1)
  <2> DEFINE g == [S \in SUBSET (1..k + 1) |->
                      IF k + 1 \in S THEN Op(p, f[S \ {k + 1}], s[k + 1]) ELSE f[S]]
  <2>1. ASSUME NEW S \in SUBSET (1..k + 1)
        PROVE  g[S] = IF S = {} THEN base ELSE Op(p, g[S \ {Last(S)}], s[Last(S)])
    <3>1. CASE k + 1 \in S
      <4>1. Last(S) = k + 1
        <5>1. \A y \in S : k + 1 >= y  OBVIOUS
        <5>2. ASSUME NEW x \in S, \A y \in S : x >= y  PROVE x = k + 1  BY <3>1, <5>1, <5>2
        <5> QED  BY <3>1, <5>1, <5>2 DEF Last
      <4>2. g[S \ {k + 1}] = f[S \ {k + 1}]  OBVIOUS
      <4>3. g[S] = Op(p, f[S \ {k + 1}], s[k + 1])  BY <3>1
      <4> HIDE DEF g
      <4> QED  BY <3>1, <4>1, <4>2, <4>3
    <3>2. CASE k + 1 \notin S
      <4>1. S \in SUBSET (1..k) /\ S \ {Last(S)} \in SUBSET (1..k)
        <5>1. \A x \in S : x \in 1..k  BY <3>2
        <5> QED  BY <5>1
      <4>2. f[S] = IF S = {} THEN base ELSE Op(p, f[S \ {Last(S)}], s[Last(S)])
        BY <1>2, <4>1 DEF Visits
      <4>3. g[S] = f[S] /\ g[S \ {Last(S)}] = f[S \ {Last(S)}]  BY <3>2, <4>1
      <4> HIDE DEF g
      <4> QED  BY <4>2, <4>3
    <3> QED  BY <3>1, <3>2
  <2>2. g = [S \in SUBSET (1..k + 1) |-> g[S]]  OBVIOUS
  <2> HIDE DEF g
  <2>3. Is(g, k + 1)  BY <2>1, <2>2 DEF Visits
  <2> QED  BY <2>3
<1>3. Bad = {}
  <2>1. SUFFICES ASSUME Bad # {}  PROVE FALSE  OBVIOUS
  <2>2. PICK k \in Bad : \A j \in Bad : k =< j  BY <2>1, LeastNatural
  <2>3. k # 0  BY <1>1, <2>2
  <2>4. k - 1 \in Nat /\ k - 1 \notin Bad
    <3>1. k \in Nat /\ ~(k =< k - 1)  BY <2>2
    <3> HIDE DEF Bad
    <3> QED  BY <2>2, <2>3, <3>1
  <2>5. PICK f : Is(f, k - 1)  BY <2>4
  <2> HIDE DEF Is
  <2>6. \E g : Is(g, (k - 1) + 1)  BY <1>2, <2>4, <2>5
  <2> QED  BY <2>2, <2>6
<1> QED  BY <1>3

\* What holds before the first element, and is kept by every iteration, holds of the result.
\* It may speak of something (q) that the iterations do not read.
THEOREM FoldInvOf ==
    ASSUME NEW p, NEW q, NEW base, NEW n \in Nat, NEW s, DOMAIN s = 1..n, Inv(q, 0, base),
           \A i \in 1..n : \A a : Inv(q, i - 1, a) => Inv(q, i, Op(p, a, s[i]))
    PROVE  Inv(q, n, Fold(p, base, s))
<1> DEFINE it == CHOOSE f : f = [S \in SUBSET (1..n) |->
                            IF S = {} THEN base ELSE Op(p, f[S \ {Last(S)}], s[Last(S)])]
           Bad == {k \in Nat : k =< n /\ ~ Inv(q, k, it[1..k])}
<1>1. Visits(it, p, base, s, n)
  <2>1. PICK f : Visits(f, p, base, s, n)  BY FoldExists
  <2> QED  BY <2>1 DEF Visits
<1>2. Fold(p, base, s) = it[1..n]  BY DEF Fold
<1> HIDE DEF it
<1>3. Inv(q, 0, it[1..0])
  <2>1. 1..0 = {}  OBVIOUS
  <2>2. it[{}] = base  BY <1>1 DEF Visits
  <2> QED  BY <2>1, <2>2
<1>4. ASSUME NEW k \in 1..n, Inv(q, k - 1, it[1..k - 1])  PROVE Inv(q, k, it[1..k])
  <2>1. Last(1..k) = k  BY DEF Last
  <2>2. (1..k) \ {k} = 1..k - 1 /\ 1..k # {} /\ 1..k \in SUBSET (1..n)  OBVIOUS
  <2>3. it[1..k] = Op(p, it[1..k - 1], s[k])  BY <1>1, <2>1, <2>2 DEF Visits
  <2> QED  BY <1>4, <2>3
<1>5. Bad = {}
  <2>1. SUFFICES ASSUME Bad # {}  PROVE FALSE  OBVIOUS
  <2>2. PICK k \in Bad : \A j \in Bad : k =< j  BY <2>1, LeastNatural
  <2>3. k # 0  BY <1>3, <2>2
  <2>4. k - 1 \in Nat /\ k - 1 \notin Bad
    <3>1. k \in Nat /\ ~(k =< k - 1)  BY <2>2
    <3> HIDE DEF Bad
    <3> QED  BY <2>2, <2>3, <3>1
  <2>5. k \in 1..n /\ Inv(q, k - 1, it[1..k - 1])  BY <2>2, <2>3, <2>4
  <2> QED  BY <1>4, <2>2, <2>5
<1> QED  BY <1>2, <1>5

\* The same, of what the iterations read.
THEOREM FoldInv ==
    ASSUME NEW p, NEW base, NEW n \in Nat, NEW s, DOMAIN s = 1..n, Inv(p, 0, base),
           \A i \in 1..n : \A a : Inv(p, i - 1, a) => Inv(p, i, Op(p, a, s[i]))
    PROVE  Inv(p, n, Fold(p, base, s))
BY FoldInvOf
==============================================================================
