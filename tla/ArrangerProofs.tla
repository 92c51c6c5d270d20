---------------------------- MODULE ArrangerProofs ----------------------------
(***************************************************************************)
(* What the copies of a song are worth although its clips are shared, and   *)
(* that what is remembered by index follows its track, for every song,      *)
(* every place of the mouse and every number of steps.                      *)
(***************************************************************************)
EXTENDS Arranger, FiniteSetTheorems, SequenceTheorems, TLAPS

-----------------------------------------------------------------------------
(* Least and greatest numbers. *)

BiggerOf(p, a, x) == IF x > a THEN x ELSE a
IsBound(p, i, a)  == a \in Nat /\ \A k \in 1..i : p[k] =< a
Bounding == INSTANCE Recursion WITH Op <- BiggerOf, Inv <- IsBound

\* A list of numbers has an upper bound.
LEMMA BoundExists ==
    ASSUME NEW n \in Nat, NEW f, DOMAIN f = 1..n, \A k \in 1..n : f[k] \in Int
    PROVE  \E m \in Nat : \A k \in 1..n : f[k] =< m
<1>1. IsBound(f, 0, 0)  BY DEF IsBound
<1>2. ASSUME NEW i \in 1..n, NEW a, IsBound(f, i - 1, a)  PROVE IsBound(f, i, BiggerOf(f, a, f[i]))
  BY <1>2 DEF IsBound, BiggerOf
<1>3. IsBound(f, n, Bounding!Fold(f, 0, f))  BY <1>1, <1>2, Bounding!FoldInv
<1> QED  BY <1>3 DEF IsBound

LEMMA MinIsLeast ==
    ASSUME NEW N \in SUBSET Nat, N # {}
    PROVE  Min(N) \in N /\ \A y \in N : Min(N) =< y
BY Bounding!LeastNatural DEF Min

LEMMA MaxIsGreatest ==
    ASSUME NEW N \in SUBSET Int, N # {}, NEW m \in Int, \A x \in N : x =< m
    PROVE  Max(N) \in N /\ \A y \in N : y =< Max(N)
<1> DEFINE below == {m - x : x \in N}
<1>1. below \in SUBSET Nat /\ below # {}
  <2>1. \A x \in N : x \in Int /\ x =< m  OBVIOUS
  <2> QED  BY <2>1
<1>2. PICK d \in below : \A e \in below : d =< e
  <2> HIDE DEF below
  <2> QED  BY <1>1, Bounding!LeastNatural
<1>3. PICK x \in N : d = m - x  OBVIOUS
<1>4. ASSUME NEW y \in N  PROVE x >= y
  <2>1. m - y \in below  OBVIOUS
  <2>2. d =< m - y  BY <1>2, <2>1
  <2> QED  BY <1>3, <2>2
<1>5. \E z \in N : \A y \in N : z >= y  BY <1>4
<1>6. Max(N) \in N /\ \A y \in N : Max(N) >= y  BY <1>5 DEF Max
<1> QED  BY <1>6

LEMMA MaxOfTwo ==
    ASSUME NEW a \in Int, NEW b \in Int
    PROVE  Max({a, b}) = IF a >= b THEN a ELSE b
<1>1. Max({a, b}) \in {a, b} /\ \A y \in {a, b} : y =< Max({a, b})
  <2>1. \A x \in {a, b} : x =< IF a >= b THEN a ELSE b  OBVIOUS
  <2> QED  BY <2>1, MaxIsGreatest
<1> QED  BY <1>1

LEMMA MinOfTwo ==
    ASSUME NEW a \in Int, NEW b \in Int
    PROVE  Min({a, b}) = IF a =< b THEN a ELSE b
<1>1. \E x \in {a, b} : \A y \in {a, b} : x =< y  OBVIOUS
<1>2. Min({a, b}) \in {a, b} /\ \A y \in {a, b} : Min({a, b}) =< y  BY <1>1 DEF Min
<1> QED  BY <1>2

\* The greatest of a list of numbers and 0.
LEMMA MaxOfList ==
    ASSUME NEW n \in Nat, NEW f, DOMAIN f = 1..n, \A k \in 1..n : f[k] \in Int
    PROVE  /\ Max({0} \cup {f[k] : k \in 1..n}) \in Nat
           /\ \A k \in 1..n : f[k] =< Max({0} \cup {f[j] : j \in 1..n})
<1> DEFINE N == {0} \cup {f[k] : k \in 1..n}
<1>1. PICK m \in Nat : \A k \in 1..n : f[k] =< m  BY BoundExists
<1>2. N \in SUBSET Int /\ N # {} /\ m \in Int /\ \A x \in N : x =< m  BY <1>1
<1>3. 0 \in N /\ \A k \in 1..n : f[k] \in N  OBVIOUS
<1> HIDE DEF N
<1>4. Max(N) \in N /\ \A y \in N : y =< Max(N)  BY <1>2, MaxIsGreatest
<1>5. Max(N) \in Int /\ Max(N) >= 0  BY <1>2, <1>3, <1>4
<1>6. Max(N) \in Nat /\ \A k \in 1..n : f[k] =< Max(N)  BY <1>3, <1>4, <1>5
<1> QED  BY <1>6 DEF N

-----------------------------------------------------------------------------
(* Lists out of lists. *)

Joined(f, ss, n) == f = [i \in 1..n |-> IF i = 1 THEN ss[i] ELSE f[i - 1] \o ss[i]]

LEMMA JoinedExists ==
    ASSUME NEW ss, NEW n \in Nat \ {0}
    PROVE  \E f : Joined(f, ss, n)
<1> DEFINE Bad == {k \in Nat \ {0} : ~ \E f : Joined(f, ss, k)}
<1>1. Joined([i \in 1..1 |-> ss[1]], ss, 1)  BY DEF Joined
<1>2. ASSUME NEW k \in Nat \ {0}, NEW f, Joined(f, ss, k)  PROVE \E g : Joined(g, ss, k + 1)
  <2> DEFINE g == [i \in 1..k + 1 |-> IF i = k + 1 THEN f[k] \o ss[k + 1] ELSE f[i]]
  <2>1. ASSUME NEW i \in 1..k + 1  PROVE g[i] = IF i = 1 THEN ss[i] ELSE g[i - 1] \o ss[i]
    <3>1. CASE i = k + 1
      <4>1. i - 1 = k /\ i # 1 /\ k # k + 1 /\ k \in 1..k + 1  BY <3>1
      <4>2. g[k] = f[k]  BY <4>1
      <4>3. g[i] = f[k] \o ss[i]  BY <3>1
      <4> HIDE DEF g
      <4> QED  BY <4>1, <4>2, <4>3
    <3>2. CASE i \in 1..k
      <4>1. f[i] = IF i = 1 THEN ss[i] ELSE f[i - 1] \o ss[i]  BY <1>2, <3>2 DEF Joined
      <4>2. g[i] = f[i]  BY <3>2
      <4>3. i # 1 => g[i - 1] = f[i - 1]  BY <3>2
      <4> HIDE DEF g
      <4> QED  BY <4>1, <4>2, <4>3
    <3> QED  BY <3>1, <3>2
  <2>2. g = [i \in 1..k + 1 |-> g[i]]  OBVIOUS
  <2> HIDE DEF g
  <2>3. Joined(g, ss, k + 1)  BY <2>1, <2>2 DEF Joined
  <2> QED  BY <2>3
<1>3. Bad = {}
  <2>1. SUFFICES ASSUME Bad # {}  PROVE FALSE  OBVIOUS
  <2>2. PICK k \in Bad : \A j \in Bad : k =< j
    <3> DEFINE B == Bad
    <3>1. B \in SUBSET Nat /\ B # {}  BY <2>1
    <3> HIDE DEF B
    <3>2. \E x \in B : \A y \in B : x =< y  BY <3>1, Bounding!LeastNatural
    <3> QED  BY <3>2 DEF B
  <2>3. k # 1  BY <1>1, <2>2
  <2>4. k \in Nat \ {0} /\ ~(k =< k - 1)  BY <2>2
  <2>5. k - 1 \in Nat \ {0}  BY <2>3, <2>4
  <2>6. k - 1 \notin Bad
    <3> HIDE DEF Bad
    <3> QED  BY <2>2, <2>4
  <2>7. PICK f : Joined(f, ss, k - 1)  BY <2>5, <2>6
  <2>8. \E g : Joined(g, ss, (k - 1) + 1)  BY <1>2, <2>5, <2>7
  <2> QED  BY <2>2, <2>4, <2>8
<1> QED  BY <1>3

LEMMA FlattenType ==
    ASSUME NEW S, NEW ss \in Seq(Seq(S))
    PROVE  FlattenSeq(ss) \in Seq(S)
<1>1. CASE Len(ss) = 0
  BY <1>1 DEF FlattenSeq
<1>2. CASE Len(ss) # 0
  <2> DEFINE n == Len(ss)
             g == CHOOSE f : f = [i \in 1..n |-> IF i = 1 THEN ss[i] ELSE f[i - 1] \o ss[i]]
             Bad == {k \in Nat : k \in 1..n /\ g[k] \notin Seq(S)}
  <2>1. n \in Nat \ {0} /\ \A k \in 1..n : ss[k] \in Seq(S)  BY <1>2
  <2>2. Joined(g, ss, n)
    <3>1. PICK f : Joined(f, ss, n)  BY <2>1, JoinedExists
    <3> QED  BY <3>1 DEF Joined
  <2>3. FlattenSeq(ss) = g[n]  BY <1>2 DEF FlattenSeq
  <2> HIDE DEF g, n
  <2>4. Bad = {}
    <3>1. SUFFICES ASSUME Bad # {}  PROVE FALSE  OBVIOUS
    <3>2. PICK k \in Bad : \A j \in Bad : k =< j  BY <3>1, Bounding!LeastNatural
    <3>3. g[k] = IF k = 1 THEN ss[k] ELSE g[k - 1] \o ss[k]  BY <2>2, <3>2 DEF Joined
    <3>4. k # 1  BY <2>1, <3>2, <3>3
    <3>5. k - 1 \in 1..n /\ k - 1 \in Nat /\ ~(k =< k - 1)  BY <2>1, <3>2, <3>4
    <3>6. k - 1 \notin Bad  BY <3>2, <3>5
    <3>7. g[k - 1] \in Seq(S)  BY <3>5, <3>6
    <3>8. g[k - 1] \o ss[k] \in Seq(S)  BY <2>1, <3>2, <3>7
    <3> QED  BY <3>2, <3>3, <3>4, <3>8
  <2>5. n \in 1..n  BY <2>1
  <2> QED  BY <2>1, <2>3, <2>4, <2>5
<1> QED  BY <1>1, <1>2

LEMMA ListType ==
    ASSUME NEW S, NEW n \in Nat, NEW f, f = [k \in 1..n |-> f[k]], \A k \in 1..n : f[k] \in S
    PROVE  f \in Seq(S) /\ Len(f) = n
<1>1. f \in [1..n -> S]  OBVIOUS
<1> QED  BY <1>1

LEMMA SortedType ==
    ASSUME NEW S, NEW s \in Seq(S), \A e \in S : e.tick \in Int
    PROVE  ByTick(s) \in Seq(S)
<1> DEFINE f == [k \in 1..Len(s) |-> s[k].tick]
           last == Max({0} \cup {s[k].tick : k \in DOMAIN s})
           At(k) == [j \in DOMAIN s |-> IF s[j].tick = k - 1 THEN <<s[j]>> ELSE <<>>]
           ss == [k \in 1..last + 1 |-> FlattenSeq(At(k))]
<1>1. last \in Nat
  <2>1. \A k \in 1..Len(s) : f[k] \in Int  OBVIOUS
  <2>2. DOMAIN f = 1..Len(s) /\ {f[k] : k \in 1..Len(s)} = {s[k].tick : k \in DOMAIN s}  OBVIOUS
  <2>3. Max({0} \cup {f[k] : k \in 1..Len(s)}) \in Nat
    <3> HIDE DEF f
    <3> QED  BY <2>1, <2>2, MaxOfList
  <2> QED  BY <2>2, <2>3
<1> HIDE DEF last
<1>2. ASSUME NEW k \in 1..last + 1  PROVE FlattenSeq(At(k)) \in Seq(S)
  <2>1. \A j \in 1..Len(s) : At(k)[j] \in Seq(S)  OBVIOUS
  <2>2. At(k) = [j \in 1..Len(s) |-> At(k)[j]]  OBVIOUS
  <2>3. At(k) \in Seq(Seq(S))
    <3> HIDE DEF At
    <3> QED  BY <2>1, <2>2, ListType
  <2> HIDE DEF At
  <2> QED  BY <2>3, FlattenType
<1>3. ss \in Seq(Seq(S))
  <2> HIDE DEF At
  <2> QED  BY <1>1, <1>2
<1>4. ByTick(s) = FlattenSeq(ss)  BY DEF ByTick, Where, last
<1> HIDE DEF ss
<1> QED  BY <1>3, <1>4, FlattenType

LEMMA ClipsSortedType ==
    ASSUME NEW S, NEW s \in Seq(S), \A e \in S : e.start \in Nat
    PROVE  ByStart(s) \in Seq(S)
<1> DEFINE f == [k \in 1..Len(s) |-> s[k].start]
           last == Max({0} \cup {s[k].start : k \in DOMAIN s})
           At(k) == [j \in DOMAIN s |-> IF s[j].start = k - 1 THEN <<s[j]>> ELSE <<>>]
           ss == [k \in 1..last + 1 |-> FlattenSeq(At(k))]
<1>1. last \in Nat
  <2>1. \A k \in 1..Len(s) : f[k] \in Int  OBVIOUS
  <2>2. DOMAIN f = 1..Len(s) /\ {f[k] : k \in 1..Len(s)} = {s[k].start : k \in DOMAIN s}  OBVIOUS
  <2>3. Max({0} \cup {f[k] : k \in 1..Len(s)}) \in Nat
    <3> HIDE DEF f
    <3> QED  BY <2>1, <2>2, MaxOfList
  <2> QED  BY <2>2, <2>3
<1> HIDE DEF last
<1>2. ASSUME NEW k \in 1..last + 1  PROVE FlattenSeq(At(k)) \in Seq(S)
  <2>1. \A j \in 1..Len(s) : At(k)[j] \in Seq(S)  OBVIOUS
  <2>2. At(k) = [j \in 1..Len(s) |-> At(k)[j]]  OBVIOUS
  <2>3. At(k) \in Seq(Seq(S))
    <3> HIDE DEF At
    <3> QED  BY <2>1, <2>2, ListType
  <2> HIDE DEF At
  <2> QED  BY <2>3, FlattenType
<1>3. ss \in Seq(Seq(S))
  <2> HIDE DEF At
  <2> QED  BY <1>1, <1>2
<1>4. ByStart(s) = FlattenSeq(ss)  BY DEF ByStart, Where, last
<1> HIDE DEF ss
<1> QED  BY <1>3, <1>4, FlattenType

LEMMA WithoutType ==
    ASSUME NEW S, NEW s \in Seq(S), NEW I
    PROVE  Without(s, I) \in Seq(S)
<1> DEFINE f == [k \in DOMAIN s |-> IF k \in I THEN <<>> ELSE <<s[k]>>]
<1>1. f \in Seq(Seq(S))
  <2>1. f = [k \in 1..Len(s) |-> f[k]] /\ \A k \in 1..Len(s) : f[k] \in Seq(S)  OBVIOUS
  <2> HIDE DEF f
  <2> QED  BY <2>1, ListType
<1>2. Without(s, I) = FlattenSeq(f)  BY DEF Without
<1> HIDE DEF f
<1> QED  BY <1>1, <1>2, FlattenType

LEMMA RemoveAtIs ==
    ASSUME NEW S, NEW s \in Seq(S), NEW i \in 1..Len(s)
    PROVE  /\ RemoveAt(s, i) \in Seq(S) /\ Len(RemoveAt(s, i)) = Len(s) - 1
           /\ \A k \in 1..Len(s) - 1 : RemoveAt(s, i)[k] = IF k < i THEN s[k] ELSE s[k + 1]
<1> DEFINE p == SubSeq(s, 1, i - 1)
           q == SubSeq(s, i + 1, Len(s))
<1>0. Len(s) \in Nat /\ i \in Nat /\ i # 0 /\ i =< Len(s)  OBVIOUS
<1>1. p \in Seq(S) /\ q \in Seq(S)  OBVIOUS
<1>2. Len(p) = i - 1 /\ Len(q) = Len(s) - i  OBVIOUS
<1>3. \A k \in 1..i - 1 : p[k] = s[k]  OBVIOUS
<1>4. \A k \in 1..Len(s) - i : q[k] = s[k + i]  OBVIOUS
<1> HIDE DEF p, q
<1>5. p \o q \in Seq(S) /\ Len(p \o q) = Len(s) - 1  BY <1>1, <1>2
<1>6. ASSUME NEW k \in 1..Len(s) - 1  PROVE (p \o q)[k] = IF k < i THEN s[k] ELSE s[k + 1]
  <2>1. CASE k < i  BY <1>1, <1>2, <1>3, <2>1
  <2>2. CASE k >= i
    <3>1. (p \o q)[k] = q[k - (i - 1)]  BY <1>1, <1>2, <2>2
    <3>2. k - (i - 1) \in 1..Len(s) - i /\ (k - (i - 1)) + i = k + 1  BY <2>2
    <3> QED  BY <1>4, <2>2, <3>1, <3>2
  <2>3. k < i \/ k >= i  BY <1>0
  <2> QED  BY <2>1, <2>2, <2>3
<1> QED  BY <1>5, <1>6 DEF RemoveAt, p, q

LEMMA InsertAtIs ==
    ASSUME NEW S, NEW s \in Seq(S), NEW i \in 1..Len(s) + 1, NEW x \in S
    PROVE  /\ InsertAt(s, i, x) \in Seq(S) /\ Len(InsertAt(s, i, x)) = Len(s) + 1
           /\ \A k \in 1..Len(s) + 1 :
                 InsertAt(s, i, x)[k] = IF k < i THEN s[k] ELSE IF k = i THEN x ELSE s[k - 1]
<1> DEFINE p == SubSeq(s, 1, i - 1)
           q == SubSeq(s, i, Len(s))
           e == <<x>>
<1>0. Len(s) \in Nat /\ i \in Nat /\ i # 0 /\ i =< Len(s) + 1  OBVIOUS
<1>1. p \in Seq(S) /\ q \in Seq(S) /\ e \in Seq(S)  OBVIOUS
<1>2. Len(p) = i - 1 /\ Len(q) = Len(s) - i + 1 /\ Len(e) = 1 /\ e[1] = x  OBVIOUS
<1>3. \A k \in 1..i - 1 : p[k] = s[k]  OBVIOUS
<1>4. \A k \in 1..Len(s) - i + 1 : q[k] = s[k + i - 1]  OBVIOUS
<1> HIDE DEF p, q, e
<1>5. p \o e \in Seq(S) /\ Len(p \o e) = i
  <2>1. p \o e \in Seq(S)  BY <1>1
  <2>2. Len(p \o e) = Len(p) + Len(e)  BY <1>1
  <2> QED  BY <1>0, <1>2, <2>1, <2>2
<1>6. p \o e \o q \in Seq(S) /\ Len(p \o e \o q) = Len(s) + 1
  <2>1. p \o e \o q \in Seq(S)  BY <1>1, <1>5
  <2>2. Len(p \o e \o q) = Len(p \o e) + Len(q)  BY <1>1, <1>5
  <2> QED  BY <1>0, <1>2, <1>5, <2>1, <2>2
<1>7. ASSUME NEW k \in 1..Len(s) + 1
      PROVE (p \o e \o q)[k] = IF k < i THEN s[k] ELSE IF k = i THEN x ELSE s[k - 1]
  <2>1. CASE k =< i
    <3>1. (p \o e \o q)[k] = (p \o e)[k]  BY <1>1, <1>5, <2>1
    <3>2. (p \o e)[k] = IF k =< Len(p) THEN p[k] ELSE e[k - Len(p)]  BY <1>1, <1>2, <1>5, <2>1
    <3>3. k < i => k =< Len(p) /\ k \in 1..i - 1  BY <1>0, <1>2
    <3>4. ~(k < i) => ~(k =< Len(p)) /\ k - Len(p) = 1 /\ k = i  BY <1>0, <1>2, <2>1
    <3> QED  BY <1>2, <1>3, <3>1, <3>2, <3>3, <3>4
  <2>2. CASE k > i
    <3>1. (p \o e \o q)[k] = q[k - i]  BY <1>1, <1>2, <1>5, <2>2
    <3>2. k - i \in 1..Len(s) - i + 1 /\ (k - i) + i - 1 = k - 1  BY <2>2
    <3> QED  BY <1>4, <2>2, <3>1, <3>2
  <2>3. k =< i \/ k > i  BY <1>0
  <2> QED  BY <2>1, <2>2, <2>3
<1> QED  BY <1>6, <1>7 DEF InsertAt, p, q, e

-----------------------------------------------------------------------------
(* The pieces of sound. *)

LEMMA SpeedType == Speeds \subseteq Nat \ {0} /\ 1 \in Speeds
BY ArrangerAssumption DEF ArrangerAssumption

LEMMA DivIsBelow ==
    ASSUME NEW a \in Nat, NEW b \in Nat \ {0}
    PROVE  /\ a \div b \in Nat
           /\ \A k \in Int : k < a \div b => k * b < a
<1>1. a \div b \in Nat /\ b * (a \div b) =< a  OBVIOUS
<1>2. ASSUME NEW k \in Int, k < a \div b  PROVE k * b < a
  <2>1. b * k =< b * ((a \div b) - 1)  BY <1>1, <1>2
  <2>2. b * ((a \div b) - 1) = b * (a \div b) - b  BY <1>1
  <2>3. k * b = b * k  OBVIOUS
  <2> QED  BY <1>1, <2>1, <2>2, <2>3
<1> QED  BY <1>1, <1>2

LEMMA PlayType ==
    ASSUME NEW c \in ClipSet
    PROVE  /\ PlayLen(c) = c.trimLen /\ PlayLen(c) \in Nat \ {0}
           /\ PlayTicks(c) \in Nat /\ EndTick(c) \in Nat
           /\ \A k \in Int : k < PlayTicks(c) => k * c.speed < PlayLen(c)
<1>1. c.trimLen \in Nat \ {0} /\ c.speed \in Nat \ {0} /\ c.start \in Nat
  BY SpeedType DEF ClipSet
<1>2. PlayLen(c) = c.trimLen  BY <1>1 DEF PlayLen
<1>3. /\ c.trimLen \div c.speed \in Nat
      /\ \A k \in Int : k < c.trimLen \div c.speed => k * c.speed < c.trimLen
  BY <1>1, DivIsBelow
<1> QED  BY <1>1, <1>2, <1>3 DEF PlayTicks, EndTick

LEMMA NewClipType ==
    ASSUME NEW pcm \in Seq(Int), Len(pcm) > 0, NEW start \in Nat
    PROVE  NewClip(pcm, start) \in ClipSet
BY SpeedType DEF NewClip, ClipSet

LEMMA SampleType ==
    ASSUME NEW c \in ClipSet, NEW tick \in Int
    PROVE  SampleAt(c, tick) \in Int
<1> DEFINE d == tick - c.start
           f == c.trimStart + d * c.speed
<1>1. /\ c.trimStart \in Nat /\ c.start \in Nat /\ c.speed \in Nat /\ c.gain \in Int
      /\ c.pcm \in Seq(Int)
  BY SpeedType DEF ClipSet
<1>2. ASSUME c.start =< tick, f < Len(c.pcm)  PROVE c.gain * c.pcm[f + 1] \in Int
  <2>1. d \in Nat  BY <1>1, <1>2
  <2>2. d * c.speed \in Nat
    <3> HIDE DEF d
    <3> QED  BY <1>1, <2>1
  <2>3. f + 1 \in 1..Len(c.pcm)  BY <1>1, <1>2, <2>2
  <2>4. c.pcm[f + 1] \in Int  BY <1>1, <2>3
  <2> QED  BY <1>1, <2>4
<1> QED  BY <1>2 DEF SampleAt

SumStep(tick, sum, c) == sum + SampleAt(c, tick)
SumIsInt(tick, i, sum) == sum \in Int
Summing == INSTANCE Recursion WITH Op <- SumStep, Inv <- SumIsInt

LEMMA SumType ==
    ASSUME NEW n \in Nat, NEW clips, DOMAIN clips = 1..n, \A k \in 1..n : clips[k] \in ClipSet,
           NEW tick \in Int
    PROVE  SumOf(clips, tick) \in Int
<1>1. SumIsInt(tick, 0, 0)  BY DEF SumIsInt
<1>2. ASSUME NEW i \in 1..n, NEW a, SumIsInt(tick, i - 1, a)
      PROVE  SumIsInt(tick, i, SumStep(tick, a, clips[i]))
  BY <1>2, SampleType DEF SumIsInt, SumStep
<1>3. SumIsInt(tick, n, Summing!Fold(tick, 0, clips))  BY <1>1, <1>2, Summing!FoldInv
<1>4. SumOf(clips, tick) = Summing!Fold(tick, 0, clips)
  BY DEF SumOf, SumStep, FoldLeft, MapThenFoldSet, Summing!Fold, Summing!Last, Max
<1> QED  BY <1>3, <1>4 DEF SumIsInt

\* A cut leaves two clips, the left of which is the old object with its sound.
LEMMA CutType ==
    ASSUME NEW c \in ClipSet, NEW at \in Int, CanSplit(c, at)
    PROVE  /\ LeftOf(c, at) \in ClipSet
           /\ LeftOf(c, at).pcm = c.pcm /\ LeftOf(c, at).bounce = c.bounce
           /\ RightOf(c, at) \in ClipSet
<1> DEFINE d == at * c.speed
<1>1. /\ c.trimStart \in Nat /\ c.speed \in Nat \ {0} /\ c.pcm \in Seq(Int)
  BY SpeedType DEF ClipSet
<1>2. at \in Nat \ {0} /\ at < PlayTicks(c) /\ c.trimStart + d < Len(c.pcm)  BY DEF CanSplit
<1>3. d \in Nat \ {0}  BY <1>1, <1>2
<1>4. PlayLen(c) - d \in Nat \ {0}
  <2>1. d < PlayLen(c) /\ PlayLen(c) \in Nat  BY <1>2, PlayType
  <2> QED  BY <1>3, <2>1
<1> HIDE DEF d
<1>5. SubSeq(c.pcm, c.trimStart + d + 1, Len(c.pcm)) \in Seq(Int)  BY <1>1, <1>2, <1>3
<1>6. LeftOf(c, at) = [c EXCEPT !.trimLen = d, !.fadeOut = 0]  BY DEF LeftOf, d
<1>7. RightOf(c, at) = [c EXCEPT !.pcm = SubSeq(c.pcm, c.trimStart + d + 1, Len(c.pcm)),
                                 !.trimStart = 0, !.trimLen = PlayLen(c) - d,
                                 !.fadeIn = 0, !.bounce = FALSE]
  BY DEF RightOf, d
<1>8. d \in Nat /\ d # 0 /\ 0 \in Nat /\ FALSE \in BOOLEAN  BY <1>3
<1>9. LeftOf(c, at) \in ClipSet /\ LeftOf(c, at).pcm = c.pcm /\ LeftOf(c, at).bounce = c.bounce
  BY <1>6, <1>8 DEF ClipSet
<1>10. RightOf(c, at) \in ClipSet  BY <1>4, <1>5, <1>7, <1>8 DEF ClipSet
<1> QED  BY <1>9, <1>10

LEMMA FramesType ==
    ASSUME NEW c \in ClipSet
    PROVE  Frames(c) \in Seq(Int)
<1> DEFINE n == Max({0, Min({PlayLen(c), Len(c.pcm) - c.trimStart})})
<1>1. c.trimStart \in Nat /\ c.pcm \in Seq(Int)  BY DEF ClipSet
<1>2. PlayLen(c) \in Nat  BY PlayType
<1>3. n \in Nat /\ (n > 0 => n =< Len(c.pcm) - c.trimStart)
  <2> DEFINE m == Min({PlayLen(c), Len(c.pcm) - c.trimStart})
  <2>1. Len(c.pcm) - c.trimStart \in Int  BY <1>1
  <2>2. m \in Int /\ m =< Len(c.pcm) - c.trimStart  BY <1>2, <2>1, MinOfTwo
  <2> HIDE DEF m
  <2>3. Max({0, m}) = IF 0 >= m THEN 0 ELSE m  BY <2>2, MaxOfTwo
  <2> QED  BY <2>1, <2>2, <2>3 DEF m
<1> HIDE DEF n
<1>4. \A k \in 1..n : c.pcm[c.trimStart + k] \in Int  BY <1>1, <1>3
<1>5. Frames(c) = [k \in 1..n |-> c.pcm[c.trimStart + k]]  BY DEF Frames, n
<1> QED  BY <1>3, <1>4, <1>5

LEMMA ReversedType ==
    ASSUME NEW c \in ClipSet, CanReverse(c)
    PROVE  Reversed(c) \in ClipSet
<1>1. Frames(c) \in Seq(Int) /\ Len(Frames(c)) >= 2  BY FramesType DEF CanReverse
<1>2. Reverse(Frames(c)) \in Seq(Int) /\ Len(Reverse(Frames(c))) = Len(Frames(c))
  BY <1>1 DEF Reverse
<1>3. NewClip(Reverse(Frames(c)), c.start) \in ClipSet
  <2>1. c.start \in Nat  BY DEF ClipSet
  <2> QED  BY <1>1, <1>2, <2>1, NewClipType
<1>4. c.speed \in Speeds /\ c.gain \in Int /\ c.fadeIn \in Nat /\ c.fadeOut \in Nat  BY DEF ClipSet
<1> QED  BY <1>3, <1>4 DEF Reversed, ClipSet

LEMMA EndsType ==
    ASSUME NEW n \in Nat \ {0}, NEW clips, DOMAIN clips = 1..n, \A k \in 1..n : clips[k] \in ClipSet
    PROVE  /\ From(clips) \in Nat /\ Until(clips) \in Nat
           /\ \A k \in 1..n : From(clips) =< clips[k].start /\ EndTick(clips[k]) =< Until(clips)
<1> DEFINE ends == [k \in 1..n |-> EndTick(clips[k])]
           S == {clips[i].start : i \in DOMAIN clips}
           E == {EndTick(clips[i]) : i \in DOMAIN clips}
<1>1. \A k \in 1..n : clips[k].start \in Nat /\ EndTick(clips[k]) \in Nat  BY PlayType DEF ClipSet
<1>2. S \in SUBSET Nat /\ S # {} /\ \A k \in 1..n : clips[k].start \in S  BY <1>1
<1>3. E \in SUBSET Nat /\ E # {} /\ \A k \in 1..n : EndTick(clips[k]) \in E  BY <1>1
<1>4. PICK m \in Nat : \A x \in E : x =< m
  <2>1. DOMAIN ends = 1..n /\ \A k \in 1..n : ends[k] \in Int  BY <1>1
  <2>2. PICK m \in Nat : \A k \in 1..n : ends[k] =< m
    <3> HIDE DEF ends
    <3> QED  BY <2>1, BoundExists
  <2> QED  BY <2>2
<1> HIDE DEF S, E
<1>5. Min(S) \in S /\ \A y \in S : Min(S) =< y  BY <1>2, MinIsLeast
<1>6. Max(E) \in E /\ \A y \in E : y =< Max(E)
  <2>1. E \in SUBSET Int /\ m \in Int  BY <1>3
  <2> QED  BY <1>3, <1>4, <2>1, MaxIsGreatest
<1>7. From(clips) = Min(S) /\ Until(clips) = Max(E)  BY DEF From, Until, S, E
<1> QED  BY <1>2, <1>3, <1>5, <1>6, <1>7

LEMMA MergedType ==
    ASSUME NEW n \in Nat \ {0}, NEW clips, DOMAIN clips = 1..n,
           \A k \in 1..n : clips[k] \in ClipSet, Until(clips) > From(clips)
    PROVE  Merged(clips) \in ClipSet
<1> DEFINE a == From(clips)
           len == Until(clips) - From(clips)
           pcm == [k \in 1..len |-> SumOf(clips, a + k - 1)]
<1>1. a \in Nat /\ len \in Nat /\ len > 0  BY EndsType
<1> HIDE DEF a, len
<1>2. \A k \in 1..len : SumOf(clips, a + k - 1) \in Int
  <2>1. n \in Nat /\ \A k \in 1..len : a + k - 1 \in Int  BY <1>1
  <2> QED  BY <2>1, SumType
<1>3. pcm \in Seq(Int) /\ Len(pcm) > 0  BY <1>1, <1>2
<1>4. Merged(clips) = NewClip(pcm, a)  BY DEF Merged, a, len
<1> HIDE DEF pcm
<1> QED  BY <1>1, <1>3, <1>4, NewClipType

LEMMA StretchedType ==
    ASSUME NEW c \in ClipSet, NEW num \in Nat \ {0}, NEW den \in Nat \ {0},
           StretchedLen(c, num, den) > 0
    PROVE  Stretched(c, num, den) \in ClipSet
<1> DEFINE fs == Frames(c)
           n == Len(fs)
           len == (n * num) \div den
           pcm == [k \in 1..len |-> fs[((k - 1) * den) \div num + 1]]
<1>1. fs \in Seq(Int)  BY FramesType
<1>2. n \in Nat /\ n * num \in Nat
  <2>1. n \in Nat  BY <1>1
  <2> HIDE DEF n
  <2> QED  BY <2>1
<1>3. len \in Nat /\ len > 0 /\ \A k \in Int : k < len => k * den < n * num
  <2> HIDE DEF n, fs
  <2> QED  BY <1>2, DivIsBelow DEF StretchedLen, n, fs
<1> HIDE DEF len
<1>4. ASSUME NEW k \in 1..len  PROVE ((k - 1) * den) \div num + 1 \in 1..n
  <2> DEFINE j == k - 1
             x == j * den
  <2>1. j \in Nat /\ j < len  BY <1>3
  <2>2. x \in Nat /\ x < n * num
    <3> HIDE DEF j, n
    <3>1. j * den \in Nat  BY <2>1
    <3> QED  BY <1>3, <2>1, <3>1
  <2> HIDE DEF x, n
  <2>3. x \div num \in Nat /\ num * (x \div num) =< x  BY <2>2
  <2>4. x \div num < n
    <3>1. SUFFICES ASSUME x \div num >= n  PROVE FALSE  BY <1>2, <2>3
    <3>2. num * (x \div num) >= num * n  BY <1>2, <2>3, <3>1
    <3>3. num * n = n * num  BY <1>2
    <3> QED  BY <1>2, <2>2, <2>3, <3>2, <3>3
  <2> QED  BY <1>2, <2>3, <2>4 DEF x
<1>5. \A k \in 1..len : fs[((k - 1) * den) \div num + 1] \in Int
  <2> HIDE DEF fs
  <2> QED  BY <1>1, <1>4
<1>6. pcm \in Seq(Int) /\ Len(pcm) > 0
  <2> HIDE DEF fs
  <2> QED  BY <1>3, <1>5
<1>7. c.start \in Nat /\ c.gain \in Int /\ c.fadeIn \in Nat /\ c.fadeOut \in Nat  BY DEF ClipSet
<1>8. NewClip(pcm, c.start) \in ClipSet
  <2> HIDE DEF pcm
  <2> QED  BY <1>6, <1>7, NewClipType
<1>9. Stretched(c, num, den) = [NewClip(pcm, c.start) EXCEPT !.gain = c.gain, !.fadeIn = c.fadeIn,
                                                             !.fadeOut = c.fadeOut]
  BY DEF Stretched, StretchedLen, len
<1> HIDE DEF pcm
<1> QED  BY <1>7, <1>8, <1>9 DEF ClipSet

-----------------------------------------------------------------------------
(* The inductive invariant.  A copy of the song fits the objects when every    *)
(* clip it lists is there with the sound it had, and its place is written down *)
(* whole.  The commands may make objects and may change where one lies, but    *)
(* never its sound, so that what fits once fits ever after.                    *)

IdsDiffer(s, b) ==
    \A j, k \in DOMAIN s.tracks : /\ s.tracks[j].id =< b
                                  /\ j # k => s.tracks[j].id # s.tracks[k].id
SongOk(s, n, b) == s \in SongSet(n) /\ IdsDiffer(s, b)

PlaceSet == [start : Nat, speed : Speeds, trimStart : Nat, trimLen : Nat \ {0}, fadeIn : Nat,
             fadeOut : Nat, gain : Int]
Fits(sn, h) ==
    LET ids == ObjectsOf(sn.song)
    IN  /\ DOMAIN sn.was = DOMAIN ids /\ DOMAIN sn.places = DOMAIN ids
        /\ \A k \in DOMAIN ids :
              /\ sn.places[k] = ClipPlace(sn.was[k])
              /\ sn.was[k].pcm = h[ids[k]].pcm /\ sn.was[k].bounce = h[ids[k]].bounce
              /\ \A j \in DOMAIN ids : ids[j] = ids[k] => sn.was[j] = sn.was[k]
Copies(h, b) ==
    {sn \in [song : SongSet(Len(h)), places : Seq(PlaceSet), was : Seq(ClipSet)] :
        Fits(sn, h) /\ IdsDiffer(sn.song, b)}

HistoryOk(hist, h, b) ==
    /\ hist \in [undo : Seq(Copies(h, b)), redo : Seq(Copies(h, b))]
    /\ Len(hist.undo) + Len(hist.redo) =< MaxDepth
VersionsOk(v, h, b) ==
    v \in [nodes : Seq([id : Nat, parent : Nat, snap : Copies(h, b)]), next : Nat]

WorldOk(w, b) ==
    /\ w = [heap |-> w.heap, song |-> w.song, history |-> w.history]
    /\ w.heap \in Seq(ClipSet)
    /\ SongOk(w.song, Len(w.heap), b)
    /\ HistoryOk(w.history, w.heap, b)

SelSet  == [track : Nat \ {0}, clip : Pairs, midi : Pairs, many : SUBSET Pairs,
            range : [track : Nat, clip : Nat, from : Nat, to : Nat], marker : Nat, tempo : Nat]
HeldSet == [asio : Nat, rec : Nat, at : Nat, vst : Nat, practice : Nat]
DragSet == [mode : Modes, track : Nat, clip : Nat, grab : {0, 1}, down : BOOLEAN, from : ClipSet,
            target : Nat]

CopiesOk == WorldOk(Now, born) /\ VersionsOk(versions, heap, born) /\ born \in Nat
EditorOk ==
    /\ versionCurrent \in Nat /\ sel \in SelSet /\ held \in HeldSet
    /\ clipboard = NoClip \/ clipboard \in ClipSet
    /\ drag = NoDrag \/ drag \in DragSet
IInv == CopiesOk /\ EditorOk

\* Objects are added, and old ones keep their sound.
Grows(h, g) ==
    /\ Len(h) =< Len(g)
    /\ \A id \in DOMAIN h : g[id].pcm = h[id].pcm /\ g[id].bounce = h[id].bounce

-----------------------------------------------------------------------------
(* Songs and copies. *)

LEMMA TracksType ==
    ASSUME NEW n, NEW s \in SongSet(n)
    PROVE  /\ s = [tracks |-> s.tracks, tempo |-> s.tempo, markers |-> s.markers]
           /\ s.tracks \in Seq(TrackSet(n)) /\ s.tempo \in Seq([tick : Nat])
           /\ s.markers \in Seq([tick : Nat, name : Nat])
           /\ \A t \in DOMAIN s.tracks : s.tracks[t] \in TrackSet(n)
<1>1. s.tracks \in Seq(TrackSet(n))  BY DEF SongSet
<1>2. \A t \in DOMAIN s.tracks : s.tracks[t] \in TrackSet(n)  BY <1>1
<1> QED  BY <1>1, <1>2 DEF SongSet

LEMMA TrackType ==
    ASSUME NEW n, NEW t \in TrackSet(n)
    PROVE  /\ t.id \in Nat \ {0} /\ t.channel \in 0..15 /\ t.events \in Seq(EventSet)
           /\ t.clips \in Seq(MidiClipSet) /\ t.stamp \in Nat /\ t.audio \in Seq(1..n)
           /\ t.volAuto \in Seq([tick : Nat, value : Nat]) /\ t.frozen \in BOOLEAN
           /\ t.practice \in BOOLEAN
BY DEF TrackSet

LEMMA ObjectsType ==
    ASSUME NEW n \in Nat, NEW s \in SongSet(n)
    PROVE  ObjectsOf(s) \in Seq(1..n)
<1> DEFINE ss == [t \in DOMAIN s.tracks |-> s.tracks[t].audio]
<1>1. s.tracks \in Seq(TrackSet(n))  BY DEF SongSet
<1>2. \A t \in 1..Len(s.tracks) : ss[t] \in Seq(1..n)  BY <1>1, TracksType, TrackType
<1>3. ss = [t \in 1..Len(s.tracks) |-> ss[t]] /\ Len(s.tracks) \in Nat  BY <1>1
<1>4. ObjectsOf(s) = FlattenSeq(ss)  BY DEF ObjectsOf
<1> HIDE DEF ss
<1>5. ss \in Seq(Seq(1..n))  BY <1>2, <1>3, ListType
<1> QED  BY <1>4, <1>5, FlattenType

LEMMA SongSetGrows ==
    ASSUME NEW n \in Nat, NEW m \in Nat, n =< m
    PROVE  TrackSet(n) \subseteq TrackSet(m) /\ SongSet(n) \subseteq SongSet(m)
<1>1. Seq(1..n) \subseteq Seq(1..m)
  <2>1. 1..n \subseteq 1..m  OBVIOUS
  <2> QED  BY <2>1
<1>2. TrackSet(n) \subseteq TrackSet(m)  BY <1>1 DEF TrackSet
<1>3. Seq(TrackSet(n)) \subseteq Seq(TrackSet(m))  BY <1>2
<1> QED  BY <1>2, <1>3 DEF SongSet

LEMMA CopiesGrow ==
    ASSUME NEW h \in Seq(ClipSet), NEW g \in Seq(ClipSet), Grows(h, g),
           NEW b \in Nat, NEW c \in Nat, b =< c
    PROVE  Copies(h, b) \subseteq Copies(g, c)
<1> SUFFICES ASSUME NEW sn \in Copies(h, b)  PROVE sn \in Copies(g, c)  OBVIOUS
<1>1. /\ sn \in [song : SongSet(Len(h)), places : Seq(PlaceSet), was : Seq(ClipSet)]
      /\ Fits(sn, h) /\ IdsDiffer(sn.song, b)
  BY DEF Copies
<1>2. Len(h) \in Nat /\ Len(g) \in Nat /\ Len(h) =< Len(g) /\ DOMAIN h = 1..Len(h)  BY DEF Grows
<1>3. sn.song \in SongSet(Len(h)) /\ sn.song \in SongSet(Len(g))  BY <1>1, <1>2, SongSetGrows
<1>4. sn \in [song : SongSet(Len(g)), places : Seq(PlaceSet), was : Seq(ClipSet)]  BY <1>1, <1>3
<1>5. \A k \in DOMAIN ObjectsOf(sn.song) : ObjectsOf(sn.song)[k] \in DOMAIN h
  <2>1. ObjectsOf(sn.song) \in Seq(1..Len(h))  BY <1>2, <1>3, ObjectsType
  <2> QED  BY <1>2, <2>1
<1>6. Fits(sn, g)  BY <1>1, <1>5 DEF Fits, Grows
<1>7. IdsDiffer(sn.song, c)
  <2>1. \A j \in DOMAIN sn.song.tracks : sn.song.tracks[j].id \in Nat
    BY <1>3, TracksType, TrackType
  <2> QED  BY <1>1, <2>1 DEF IdsDiffer
<1> QED  BY <1>4, <1>6, <1>7 DEF Copies

LEMMA SnapshotFits ==
    ASSUME NEW h \in Seq(ClipSet), NEW s, NEW b, SongOk(s, Len(h), b)
    PROVE  MakeSongSnapshot(s, h) \in Copies(h, b)
<1> DEFINE ids == ObjectsOf(s)
           sn == MakeSongSnapshot(s, h)
<1>1. s \in SongSet(Len(h)) /\ IdsDiffer(s, b) /\ Len(h) \in Nat  BY DEF SongOk
<1>2. ids \in Seq(1..Len(h))  BY <1>1, ObjectsType
<1>3. sn = [song |-> s, places |-> [k \in DOMAIN ids |-> ClipPlace(h[ids[k]])],
            was |-> [k \in DOMAIN ids |-> h[ids[k]]]]
  BY DEF MakeSongSnapshot
<1> HIDE DEF ids, sn
<1>4. \A k \in DOMAIN ids : h[ids[k]] \in ClipSet  BY <1>2
<1>5. \A k \in DOMAIN ids : ClipPlace(h[ids[k]]) \in PlaceSet
  BY <1>4 DEF ClipSet, PlaceSet, ClipPlace
<1>6. [k \in DOMAIN ids |-> h[ids[k]]] \in Seq(ClipSet)
  BY <1>2, <1>4
<1>7. [k \in DOMAIN ids |-> ClipPlace(h[ids[k]])] \in Seq(PlaceSet)
  BY <1>2, <1>5
<1>8. sn \in [song : SongSet(Len(h)), places : Seq(PlaceSet), was : Seq(ClipSet)]
  BY <1>1, <1>3, <1>6, <1>7
<1>9. Fits(sn, h)  BY <1>3 DEF Fits, ids
<1> QED  BY <1>1, <1>3, <1>8, <1>9 DEF Copies, sn

LEMMA GrowsIsTransitive ==
    ASSUME NEW f \in Seq(ClipSet), NEW h \in Seq(ClipSet), NEW g \in Seq(ClipSet),
           Grows(f, h), Grows(h, g)
    PROVE  Grows(f, g)
BY DEF Grows

LEMMA GrowsNot == ASSUME NEW h \in Seq(ClipSet) PROVE Grows(h, h)
BY DEF Grows

LEMMA HistoryGrows ==
    ASSUME NEW h \in Seq(ClipSet), NEW g \in Seq(ClipSet), Grows(h, g),
           NEW b \in Nat, NEW c \in Nat, b =< c, NEW hist, HistoryOk(hist, h, b)
    PROVE  HistoryOk(hist, g, c)
<1>1. Copies(h, b) \subseteq Copies(g, c)  BY CopiesGrow
<1>2. Seq(Copies(h, b)) \subseteq Seq(Copies(g, c))
  <2> DEFINE A == Copies(h, b)  B == Copies(g, c)
  <2>1. A \subseteq B  BY <1>1
  <2> HIDE DEF A, B
  <2>2. Seq(A) \subseteq Seq(B)  BY <2>1
  <2> QED  BY <2>2 DEF A, B
<1> QED  BY <1>2 DEF HistoryOk

LEMMA VersionsGrow ==
    ASSUME NEW h \in Seq(ClipSet), NEW g \in Seq(ClipSet), Grows(h, g),
           NEW b \in Nat, NEW c \in Nat, b =< c, NEW v, VersionsOk(v, h, b)
    PROVE  VersionsOk(v, g, c)
<1> DEFINE A == [id : Nat, parent : Nat, snap : Copies(h, b)]
           B == [id : Nat, parent : Nat, snap : Copies(g, c)]
<1>1. A \subseteq B  BY CopiesGrow
<1>2. v \in [nodes : Seq(A), next : Nat]  BY DEF VersionsOk
<1> SUFFICES v \in [nodes : Seq(B), next : Nat]  BY DEF VersionsOk
<1> HIDE DEF A, B
<1>3. Seq(A) \subseteq Seq(B)  BY <1>1
<1> QED  BY <1>2, <1>3

\* A place put back over a clip of the same sound gives the clip the place was taken of.
LEMMA PlaceGivesClip ==
    ASSUME NEW c \in ClipSet, NEW d \in ClipSet, d.pcm = c.pcm, d.bounce = c.bounce
    PROVE  [f \in DOMAIN c |-> IF f \in DOMAIN ClipPlace(d) THEN ClipPlace(d)[f] ELSE c[f]] = d
<1> DEFINE F == {"pcm", "start", "speed", "trimStart", "trimLen", "fadeIn", "fadeOut", "gain", "bounce"}
           P == {"start", "speed", "trimStart", "trimLen", "fadeIn", "fadeOut", "gain"}
<1>1. DOMAIN c = F /\ DOMAIN d = F /\ d = [f \in F |-> d[f]]  BY DEF ClipSet
<1>2. DOMAIN ClipPlace(d) = P  BY DEF ClipPlace
<1>3. \A f \in P : ClipPlace(d)[f] = d[f]  BY DEF ClipPlace
<1>4. \A f \in F \ P : c[f] = d[f]  OBVIOUS
<1> HIDE DEF F, P
<1> QED  BY <1>1, <1>2, <1>3, <1>4

LEMMA PlacesAppliedFits ==
    ASSUME NEW h \in Seq(ClipSet), NEW b, NEW sn \in Copies(h, b)
    PROVE  /\ PlacesApplied(sn, h) \in Seq(ClipSet) /\ Grows(h, PlacesApplied(sn, h))
           /\ Len(PlacesApplied(sn, h)) = Len(h)
           /\ \A k \in DOMAIN ObjectsOf(sn.song) :
                 PlacesApplied(sn, h)[ObjectsOf(sn.song)[k]] = sn.was[k]
<1> DEFINE ids == ObjectsOf(sn.song)
           K(id) == {k \in DOMAIN ids : ids[k] = id}
           g == PlacesApplied(sn, h)
<1>1. /\ sn.song \in SongSet(Len(h)) /\ sn.was \in Seq(ClipSet) /\ Fits(sn, h) /\ Len(h) \in Nat
  BY DEF Copies
<1>2. ids \in Seq(1..Len(h)) /\ DOMAIN sn.was = DOMAIN ids
  BY <1>1, ObjectsType DEF Fits
<1>3. \A k \in DOMAIN ids : /\ sn.places[k] = ClipPlace(sn.was[k])
                            /\ sn.was[k].pcm = h[ids[k]].pcm /\ sn.was[k].bounce = h[ids[k]].bounce
                            /\ \A j \in DOMAIN ids : ids[j] = ids[k] => sn.was[j] = sn.was[k]
  BY <1>1 DEF Fits
<1>4. g = [id \in DOMAIN h |->
              IF id \notin ToSet(ids) THEN h[id]
              ELSE [f \in DOMAIN h[id] |-> IF f \in DOMAIN sn.places[Max(K(id))]
                                           THEN sn.places[Max(K(id))][f] ELSE h[id][f]]]
  BY DEF PlacesApplied
<1> HIDE DEF ids, g
<1>5. ASSUME NEW id \in DOMAIN h, id \in ToSet(ids)
      PROVE  Max(K(id)) \in DOMAIN ids /\ ids[Max(K(id))] = id
  <2>1. K(id) # {}  BY <1>5 DEF ToSet
  <2>2. K(id) \in SUBSET Int /\ Len(ids) \in Int /\ \A k \in K(id) : k =< Len(ids)  BY <1>2
  <2>3. Max(K(id)) \in K(id)
    <3> HIDE DEF K
    <3> QED  BY <2>1, <2>2, MaxIsGreatest
  <2> QED  BY <2>3
<1>6. ASSUME NEW id \in DOMAIN h, id \in ToSet(ids)  PROVE g[id] = sn.was[Max(K(id))]
  <2> DEFINE k == Max(K(id))
  <2>1. k \in DOMAIN ids /\ ids[k] = id  BY <1>5, <1>6
  <2>2. g[id] = [f \in DOMAIN h[id] |-> IF f \in DOMAIN sn.places[k]
                                        THEN sn.places[k][f] ELSE h[id][f]]
    BY <1>4, <1>6
  <2> HIDE DEF k
  <2>3. h[id] \in ClipSet /\ sn.was[k] \in ClipSet  BY <1>1, <1>2, <2>1
  <2>4. sn.places[k] = ClipPlace(sn.was[k]) /\ sn.was[k].pcm = h[id].pcm /\ sn.was[k].bounce = h[id].bounce
    BY <1>3, <2>1
  <2>5. g[id] = sn.was[k]  BY <2>2, <2>3, <2>4, PlaceGivesClip
  <2> QED  BY <2>5 DEF k
<1>7. \A id \in DOMAIN h : id \notin ToSet(ids) => g[id] = h[id]  BY <1>4
<1>8. ASSUME NEW id \in DOMAIN h
      PROVE  g[id] \in ClipSet /\ g[id].pcm = h[id].pcm /\ g[id].bounce = h[id].bounce
  <2>1. CASE id \in ToSet(ids)
    <3>1. Max(K(id)) \in DOMAIN ids /\ ids[Max(K(id))] = id  BY <1>5, <2>1
    <3>2. g[id] = sn.was[Max(K(id))]  BY <1>6, <2>1
    <3> HIDE DEF K
    <3> QED  BY <1>1, <1>2, <1>3, <3>1, <3>2
  <2>2. CASE id \notin ToSet(ids)  BY <1>7, <2>2
  <2> QED  BY <2>1, <2>2
<1>9. g = [id \in 1..Len(h) |-> g[id]] /\ DOMAIN h = 1..Len(h)  BY <1>4
<1>10. g \in Seq(ClipSet) /\ Len(g) = Len(h)  BY <1>1, <1>8, <1>9, ListType
<1>11. Grows(h, g)  BY <1>1, <1>8, <1>10 DEF Grows
<1>12. ASSUME NEW k \in DOMAIN ids  PROVE g[ids[k]] = sn.was[k]
  <2>1. ids[k] \in DOMAIN h /\ ids[k] \in ToSet(ids)  BY <1>2, <1>9 DEF ToSet
  <2>2. /\ Max(K(ids[k])) \in DOMAIN ids /\ ids[Max(K(ids[k]))] = ids[k]
        /\ g[ids[k]] = sn.was[Max(K(ids[k]))]
    BY <1>5, <1>6, <2>1
  <2> HIDE DEF K
  <2> QED  BY <1>3, <2>2
<1> QED  BY <1>10, <1>11, <1>12 DEF ids, g

LEMMA CopyIsDeep ==
    ASSUME heap \in Seq(ClipSet), NEW b, NEW sn \in Copies(heap, b)
    PROVE  IsDeep(sn)
BY PlacesAppliedFits DEF IsDeep

-----------------------------------------------------------------------------
(* Commands on worlds. *)

\* The song and the objects may be replaced, if no object loses its sound.
LEMMA Rebased ==
    ASSUME NEW b \in Nat, NEW w, WorldOk(w, b), NEW c \in Nat, b =< c,
           NEW g \in Seq(ClipSet), Grows(w.heap, g), NEW s, SongOk(s, Len(g), c)
    PROVE  WorldOk([heap |-> g, song |-> s, history |-> w.history], c)
<1>1. HistoryOk(w.history, g, c)  BY HistoryGrows DEF WorldOk
<1> QED  BY <1>1 DEF WorldOk

LEMMA RecordFits ==
    ASSUME NEW S, NEW h \in [undo : Seq(S), redo : Seq(S)], Len(h.undo) + Len(h.redo) =< MaxDepth,
           NEW x \in S
    PROVE  /\ Record(h, x) \in [undo : Seq(S), redo : Seq(S)]
           /\ Len(Record(h, x).undo) + Len(Record(h, x).redo) =< MaxDepth
<1>1. MaxDepth \in Nat \ {0}  BY ArrangerAssumption DEF ArrangerAssumption, UndoHistoryAssumption
<1>2. /\ h.undo \in Seq(S) /\ Len(h.undo) \in Nat /\ Len(h.redo) \in Nat /\ Len(h.undo) =< MaxDepth
  BY <1>1
<1>3. CASE Len(h.undo) = MaxDepth
  <2>1. Tail(h.undo) \in Seq(S) /\ Len(Tail(h.undo)) = MaxDepth - 1  BY <1>1, <1>2, <1>3
  <2>2. Append(Tail(h.undo), x) \in Seq(S) /\ Len(Append(Tail(h.undo), x)) = MaxDepth
    BY <1>1, <2>1
  <2>3. Record(h, x) = [undo |-> Append(Tail(h.undo), x), redo |-> <<>>]  BY <1>3 DEF Record
  <2> QED  BY <1>1, <2>2, <2>3
<1>4. CASE Len(h.undo) # MaxDepth
  <2>1. /\ Append(h.undo, x) \in Seq(S) /\ Len(Append(h.undo, x)) = Len(h.undo) + 1
    BY <1>2
  <2>2. Record(h, x) = [undo |-> Append(h.undo, x), redo |-> <<>>]  BY <1>4 DEF Record
  <2> QED  BY <1>1, <1>2, <1>4, <2>1, <2>2
<1> QED  BY <1>3, <1>4

LEMMA CopiedFits ==
    ASSUME NEW b, NEW w, WorldOk(w, b)
    PROVE  WorldOk(Copied(w), b) /\ Copied(w).heap = w.heap /\ Copied(w).song = w.song
<1> DEFINE x == MakeSongSnapshot(w.song, w.heap)
<1>1. x \in Copies(w.heap, b)  BY SnapshotFits DEF WorldOk
<1> HIDE DEF x
<1>2. HistoryOk(Record(w.history, x), w.heap, b)
  <2> DEFINE S == Copies(w.heap, b)
  <2>1. /\ w.history \in [undo : Seq(S), redo : Seq(S)]
        /\ Len(w.history.undo) + Len(w.history.redo) =< MaxDepth /\ x \in S
    BY <1>1 DEF WorldOk, HistoryOk
  <2> HIDE DEF S
  <2>2. /\ Record(w.history, x) \in [undo : Seq(S), redo : Seq(S)]
        /\ Len(Record(w.history, x).undo) + Len(Record(w.history, x).redo) =< MaxDepth
    BY <2>1, RecordFits
  <2> QED  BY <2>2 DEF HistoryOk, S
<1>3. Copied(w) = [w EXCEPT !.history = Record(w.history, x)]  BY DEF Copied, x
<1>4. Copied(w) = [heap |-> w.heap, song |-> w.song, history |-> Record(w.history, x)]
  BY <1>3 DEF WorldOk
<1> QED  BY <1>2, <1>4 DEF WorldOk

\* What a command on clips and notes leaves alone: which tracks there are.
SameTracks(s, u) ==
    /\ DOMAIN u.tracks = DOMAIN s.tracks
    /\ \A k \in DOMAIN s.tracks : u.tracks[k].id = s.tracks[k].id
Leads(w, v, b) == WorldOk(v, b) /\ Grows(w.heap, v.heap) /\ SameTracks(w.song, v.song)

LEMMA LeadsOn ==
    ASSUME NEW b, NEW u, NEW v, NEW w, WorldOk(u, b), Leads(u, v, b), Leads(v, w, b)
    PROVE  Leads(u, w, b)
<1>1. Grows(u.heap, w.heap)  BY GrowsIsTransitive DEF Leads, WorldOk
<1>2. SameTracks(u.song, w.song)  BY DEF Leads, SameTracks
<1> QED  BY <1>1, <1>2 DEF Leads

LEMMA CopiedLeads ==
    ASSUME NEW b, NEW w, WorldOk(w, b)
    PROVE  Leads(w, Copied(w), b) /\ Copied(w).heap = w.heap /\ Copied(w).song = w.song
BY CopiedFits, GrowsNot DEF Leads, SameTracks, WorldOk

LEMMA WorldType ==
    ASSUME NEW b, NEW w, WorldOk(w, b)
    PROVE  /\ w.heap \in Seq(ClipSet) /\ Len(w.heap) \in Nat
           /\ w.song \in SongSet(Len(w.heap)) /\ IdsDiffer(w.song, b)
           /\ w.song.tracks \in Seq(TrackSet(Len(w.heap)))
           /\ \A t \in DOMAIN w.song.tracks :
                 /\ w.song.tracks[t] \in TrackSet(Len(w.heap))
                 /\ w.song.tracks[t].audio \in Seq(1..Len(w.heap))
                 /\ \A i \in DOMAIN w.song.tracks[t].audio :
                       /\ w.song.tracks[t].audio[i] \in DOMAIN w.heap
                       /\ w.heap[w.song.tracks[t].audio[i]] \in ClipSet
<1>1. w.heap \in Seq(ClipSet) /\ w.song \in SongSet(Len(w.heap)) /\ IdsDiffer(w.song, b)
  BY DEF WorldOk, SongOk
<1>2. /\ w.song.tracks \in Seq(TrackSet(Len(w.heap)))
      /\ \A t \in DOMAIN w.song.tracks : /\ w.song.tracks[t] \in TrackSet(Len(w.heap))
                                         /\ w.song.tracks[t].audio \in Seq(1..Len(w.heap))
  BY <1>1, TracksType, TrackType
<1>3. ASSUME NEW t \in DOMAIN w.song.tracks, NEW i \in DOMAIN w.song.tracks[t].audio
      PROVE  /\ w.song.tracks[t].audio[i] \in DOMAIN w.heap
             /\ w.heap[w.song.tracks[t].audio[i]] \in ClipSet
  BY <1>1, <1>2
<1> QED  BY <1>1, <1>2, <1>3

LEMMA TrackPut ==
    ASSUME NEW n \in Nat, NEW m \in Nat, n =< m, NEW b, NEW s, SongOk(s, n, b),
           NEW t \in DOMAIN s.tracks, NEW x \in TrackSet(m), x.id = s.tracks[t].id
    PROVE  /\ SongOk([s EXCEPT !.tracks[t] = x], m, b)
           /\ SameTracks(s, [s EXCEPT !.tracks[t] = x])
           /\ [s EXCEPT !.tracks[t] = x].tracks = [s.tracks EXCEPT ![t] = x]
<1> DEFINE u == [s EXCEPT !.tracks[t] = x]
           ts == [s.tracks EXCEPT ![t] = x]
<1>1. s \in SongSet(n) /\ s \in SongSet(m) /\ IdsDiffer(s, b)  BY SongSetGrows DEF SongOk
<1>2. u = [tracks |-> ts, tempo |-> s.tempo, markers |-> s.markers]
  <2>1. s = [tracks |-> s.tracks, tempo |-> s.tempo, markers |-> s.markers]  BY <1>1, TracksType
  <2>2. u = [s EXCEPT !.tracks = ts]  OBVIOUS
  <2> HIDE DEF ts, u
  <2> QED  BY <2>1, <2>2
<1>3. s.tracks \in Seq(TrackSet(m))  BY <1>1, TracksType
<1>4. /\ ts \in Seq(TrackSet(m)) /\ DOMAIN ts = DOMAIN s.tracks
      /\ \A k \in DOMAIN s.tracks : ts[k].id = s.tracks[k].id
  BY <1>3
<1> HIDE DEF u, ts
<1>5. u \in SongSet(m)  BY <1>1, <1>2, <1>4 DEF SongSet
<1>6. IdsDiffer(u, b) /\ SameTracks(s, u)  BY <1>1, <1>2, <1>4 DEF IdsDiffer, SameTracks
<1> QED  BY <1>2, <1>5, <1>6 DEF SongOk, u, ts

\* A track is changed, and objects may have been added or moved.
LEMMA TrackRebased ==
    ASSUME NEW b \in Nat, NEW w, WorldOk(w, b), NEW g \in Seq(ClipSet), Grows(w.heap, g),
           NEW t \in DOMAIN w.song.tracks, NEW x \in TrackSet(Len(g)), x.id = w.song.tracks[t].id,
           NEW v, v = [heap |-> g, song |-> [w.song EXCEPT !.tracks[t] = x], history |-> w.history]
    PROVE  Leads(w, v, b) /\ v.heap = g /\ v.song.tracks[t] = x
<1>1. Len(w.heap) \in Nat /\ Len(g) \in Nat /\ Len(w.heap) =< Len(g)  BY DEF WorldOk, Grows
<1> DEFINE u == [w.song EXCEPT !.tracks[t] = x]
<1>2. /\ SongOk(u, Len(g), b) /\ SameTracks(w.song, u)
      /\ u.tracks = [w.song.tracks EXCEPT ![t] = x]
  <2>1. SongOk(w.song, Len(w.heap), b)  BY DEF WorldOk
  <2> QED  BY <1>1, <2>1, TrackPut
<1>3. v = [heap |-> g, song |-> u, history |-> w.history]  OBVIOUS
<1> HIDE DEF u
<1>4. WorldOk(v, b)  BY <1>2, <1>3, Rebased
<1>5. v.heap = g /\ v.song = u /\ v.song.tracks[t] = x  BY <1>2, <1>3
<1> QED  BY <1>2, <1>4, <1>5 DEF Leads

LEMMA AudioType ==
    ASSUME NEW n \in Nat, NEW m \in Nat, n =< m, NEW t \in TrackSet(n), NEW a \in Seq(1..m)
    PROVE  [t EXCEPT !.audio = a] \in TrackSet(m) /\ [t EXCEPT !.audio = a].id = t.id
           /\ [t EXCEPT !.audio = a].audio = a
<1>1. t \in TrackSet(m)  BY SongSetGrows
<1> QED  BY <1>1 DEF TrackSet

LEMMA AppendedFits ==
    ASSUME NEW h \in Seq(ClipSet), NEW c \in ClipSet
    PROVE  /\ Append(h, c) \in Seq(ClipSet) /\ Len(Append(h, c)) = Len(h) + 1
           /\ Grows(h, Append(h, c)) /\ Len(h) \in Nat
BY DEF Grows

LEMMA WithClipFits ==
    ASSUME NEW b \in Nat, NEW w, WorldOk(w, b), NEW t \in DOMAIN w.song.tracks, NEW c \in ClipSet
    PROVE  Leads(w, WithClip(w, t, c), b)
<1> DEFINE g == Append(w.heap, c)
           a == Append(w.song.tracks[t].audio, Len(w.heap) + 1)
           x == [w.song.tracks[t] EXCEPT !.audio = a]
           v == WithClip(w, t, c)
<1>1. g \in Seq(ClipSet) /\ Len(g) = Len(w.heap) + 1 /\ Grows(w.heap, g) /\ Len(w.heap) \in Nat
  BY WorldType, AppendedFits
<1>2. a \in Seq(1..Len(g))
  <2>1. w.song.tracks[t].audio \in Seq(1..Len(w.heap))  BY WorldType
  <2>2. w.song.tracks[t].audio \in Seq(1..Len(g)) /\ Len(w.heap) + 1 \in 1..Len(g)
    <3> HIDE DEF g
    <3> QED  BY <1>1, <2>1
  <2> QED  BY <2>2
<1> DEFINE u == [w.song EXCEPT !.tracks[t] = x]
<1>3. v = [heap |-> g, song |-> u, history |-> w.history]
  <2>1. v = [w EXCEPT !.heap = g, !.song = u]  BY DEF WithClip
  <2> HIDE DEF g, u, v
  <2>2. w = [heap |-> w.heap, song |-> w.song, history |-> w.history]  BY DEF WorldOk
  <2> QED  BY <2>1, <2>2
<1> HIDE DEF g, a, u, v
<1>4. x \in TrackSet(Len(g)) /\ x.id = w.song.tracks[t].id
  <2>1. Len(w.heap) =< Len(g) /\ Len(g) \in Nat  BY <1>1
  <2>2. w.song.tracks[t] \in TrackSet(Len(w.heap))  BY WorldType
  <2> DEFINE n == Len(w.heap)
             m == Len(g)
             y == w.song.tracks[t]
  <2>3. n \in Nat /\ m \in Nat /\ n =< m /\ y \in TrackSet(n) /\ a \in Seq(1..m)
    BY <1>1, <1>2, <2>1, <2>2
  <2>4. x = [y EXCEPT !.audio = a]  OBVIOUS
  <2> HIDE DEF n, m, x, y
  <2>5. x \in TrackSet(m) /\ x.id = y.id  BY <2>3, <2>4, AudioType
  <2> QED  BY <2>5 DEF m, y
<1> HIDE DEF x
<1>5. Leads(w, v, b)
  <2>1. v = [heap |-> g, song |-> [w.song EXCEPT !.tracks[t] = x], history |-> w.history]
    BY <1>3 DEF u
  <2>2. g \in Seq(ClipSet) /\ Grows(w.heap, g)  BY <1>1
  <2> QED  BY <1>4, <2>1, <2>2, TrackRebased
<1> QED  BY <1>5 DEF v

LEMMA ReplacedFits ==
    ASSUME NEW b \in Nat, NEW w, WorldOk(w, b), NEW t \in DOMAIN w.song.tracks,
           NEW i \in DOMAIN w.song.tracks[t].audio, NEW c \in ClipSet
    PROVE  Leads(w, Replaced(w, t, i, c), b)
<1> DEFINE g == Append(w.heap, c)
           a == [w.song.tracks[t].audio EXCEPT ![i] = Len(w.heap) + 1]
           x == [w.song.tracks[t] EXCEPT !.audio = a]
           v == Replaced(w, t, i, c)
<1>1. g \in Seq(ClipSet) /\ Len(g) = Len(w.heap) + 1 /\ Grows(w.heap, g) /\ Len(w.heap) \in Nat
  BY WorldType, AppendedFits
<1>2. a \in Seq(1..Len(g))
  <2>1. w.song.tracks[t].audio \in Seq(1..Len(w.heap))  BY WorldType
  <2>2. w.song.tracks[t].audio \in Seq(1..Len(g)) /\ Len(w.heap) + 1 \in 1..Len(g)
    <3> HIDE DEF g
    <3> QED  BY <1>1, <2>1
  <2> QED  BY <2>2
<1> DEFINE u == [w.song EXCEPT !.tracks[t] = x]
<1>3. v = [heap |-> g, song |-> u, history |-> w.history]
  <2>1. v = [w EXCEPT !.heap = g, !.song = u]  BY DEF Replaced
  <2> HIDE DEF g, u, v
  <2>2. w = [heap |-> w.heap, song |-> w.song, history |-> w.history]  BY DEF WorldOk
  <2> QED  BY <2>1, <2>2
<1> HIDE DEF g, a, u, v
<1>4. x \in TrackSet(Len(g)) /\ x.id = w.song.tracks[t].id
  <2>1. Len(w.heap) =< Len(g) /\ Len(g) \in Nat  BY <1>1
  <2>2. w.song.tracks[t] \in TrackSet(Len(w.heap))  BY WorldType
  <2> DEFINE n == Len(w.heap)
             m == Len(g)
             y == w.song.tracks[t]
  <2>3. n \in Nat /\ m \in Nat /\ n =< m /\ y \in TrackSet(n) /\ a \in Seq(1..m)
    BY <1>1, <1>2, <2>1, <2>2
  <2>4. x = [y EXCEPT !.audio = a]  OBVIOUS
  <2> HIDE DEF n, m, x, y
  <2>5. x \in TrackSet(m) /\ x.id = y.id  BY <2>3, <2>4, AudioType
  <2> QED  BY <2>5 DEF m, y
<1> HIDE DEF x
<1>5. Leads(w, v, b)
  <2>1. v = [heap |-> g, song |-> [w.song EXCEPT !.tracks[t] = x], history |-> w.history]
    BY <1>3 DEF u
  <2>2. g \in Seq(ClipSet) /\ Grows(w.heap, g)  BY <1>1
  <2> QED  BY <1>4, <2>1, <2>2, TrackRebased
<1> QED  BY <1>5 DEF v

LEMMA InsertedFits ==
    ASSUME NEW b \in Nat, NEW w, WorldOk(w, b), NEW t \in DOMAIN w.song.tracks,
           NEW i \in 1..Len(w.song.tracks[t].audio) + 1, NEW c \in ClipSet
    PROVE  Leads(w, Inserted(w, t, i, c), b)
<1> DEFINE g == Append(w.heap, c)
           a == InsertAt(w.song.tracks[t].audio, i, Len(w.heap) + 1)
           x == [w.song.tracks[t] EXCEPT !.audio = a]
           v == Inserted(w, t, i, c)
<1>1. g \in Seq(ClipSet) /\ Len(g) = Len(w.heap) + 1 /\ Grows(w.heap, g) /\ Len(w.heap) \in Nat
  BY WorldType, AppendedFits
<1>2. a \in Seq(1..Len(g))
  <2>1. w.song.tracks[t].audio \in Seq(1..Len(w.heap))  BY WorldType
  <2>2. w.song.tracks[t].audio \in Seq(1..Len(g)) /\ Len(w.heap) + 1 \in 1..Len(g)
    <3> HIDE DEF g
    <3> QED  BY <1>1, <2>1
  <2> QED  BY <2>2, InsertAtIs
<1> DEFINE u == [w.song EXCEPT !.tracks[t] = x]
<1>3. v = [heap |-> g, song |-> u, history |-> w.history]
  <2>1. v = [w EXCEPT !.heap = g, !.song = u]  BY DEF Inserted
  <2> HIDE DEF g, u, v
  <2>2. w = [heap |-> w.heap, song |-> w.song, history |-> w.history]  BY DEF WorldOk
  <2> QED  BY <2>1, <2>2
<1> HIDE DEF g, a, u, v
<1>4. x \in TrackSet(Len(g)) /\ x.id = w.song.tracks[t].id
  <2>1. Len(w.heap) =< Len(g) /\ Len(g) \in Nat  BY <1>1
  <2>2. w.song.tracks[t] \in TrackSet(Len(w.heap))  BY WorldType
  <2>3. Len(w.heap) \in Nat  BY <1>1
  <2> DEFINE y == w.song.tracks[t]
  <2>4. y \in TrackSet(Len(w.heap))  BY <2>2
  <2>5. x = [y EXCEPT !.audio = a]  OBVIOUS
  <2> HIDE DEF x, y
  <2>6. x \in TrackSet(Len(g)) /\ x.id = y.id  BY <1>2, <2>1, <2>3, <2>4, <2>5, AudioType
  <2> QED  BY <2>6 DEF y
<1> HIDE DEF x
<1>5. Leads(w, v, b)
  <2>1. v = [heap |-> g, song |-> [w.song EXCEPT !.tracks[t] = x], history |-> w.history]
    BY <1>3 DEF u
  <2>2. g \in Seq(ClipSet) /\ Grows(w.heap, g)  BY <1>1
  <2> QED  BY <1>4, <2>1, <2>2, TrackRebased
<1> QED  BY <1>5 DEF v

LEMMA InTrackFits ==
    ASSUME NEW b \in Nat, NEW w, WorldOk(w, b), NEW t \in DOMAIN w.song.tracks,
           NEW x \in TrackSet(Len(w.heap)), x.id = w.song.tracks[t].id
    PROVE  /\ Leads(w, InTrack(w, t, x), b)
           /\ InTrack(w, t, x).heap = w.heap /\ InTrack(w, t, x).song.tracks[t] = x
<1>1. InTrack(w, t, x) = [heap |-> w.heap, song |-> [w.song EXCEPT !.tracks[t] = x],
                          history |-> w.history]
  BY DEF InTrack, WorldOk
<1>2. w.heap \in Seq(ClipSet) /\ Grows(w.heap, w.heap)  BY WorldType, GrowsNot
<1> QED  BY <1>1, <1>2, TrackRebased

LEMMA DroppedFits ==
    ASSUME NEW b \in Nat, NEW w, WorldOk(w, b), NEW t \in DOMAIN w.song.tracks,
           NEW i \in DOMAIN w.song.tracks[t].audio
    PROVE  /\ Leads(w, Dropped(w, t, i), b) /\ Dropped(w, t, i).heap = w.heap
<1> DEFINE x == [w.song.tracks[t] EXCEPT !.audio = RemoveAt(w.song.tracks[t].audio, i)]
<1>1. RemoveAt(w.song.tracks[t].audio, i) \in Seq(1..Len(w.heap))
  <2>1. w.song.tracks[t].audio \in Seq(1..Len(w.heap))  BY WorldType
  <2>2. i \in 1..Len(w.song.tracks[t].audio)  BY <2>1
  <2> QED  BY <2>1, <2>2, RemoveAtIs
<1>2. x \in TrackSet(Len(w.heap)) /\ x.id = w.song.tracks[t].id
  <2>1. w.song.tracks[t] \in TrackSet(Len(w.heap)) /\ Len(w.heap) \in Nat  BY WorldType
  <2> QED  BY <1>1, <2>1, AudioType
<1>3. Dropped(w, t, i) = InTrack(w, t, x)  BY DEF Dropped, InTrack
<1> HIDE DEF x
<1> QED  BY <1>2, <1>3, InTrackFits

\* A shared object is changed, but not in its sound.
LEMMA TouchedFits ==
    ASSUME NEW b \in Nat, NEW w, WorldOk(w, b), NEW id \in DOMAIN w.heap, NEW c \in ClipSet,
           c.pcm = w.heap[id].pcm, c.bounce = w.heap[id].bounce
    PROVE  /\ Leads(w, Touched(w, id, c), b) /\ Touched(w, id, c).song = w.song
           /\ Touched(w, id, c).heap = [w.heap EXCEPT ![id] = c]
<1> DEFINE g == [w.heap EXCEPT ![id] = c]
<1>1. w.heap \in Seq(ClipSet) /\ SongOk(w.song, Len(w.heap), b)  BY DEF WorldOk
<1>2. g \in Seq(ClipSet) /\ Len(g) = Len(w.heap) /\ Grows(w.heap, g)  BY <1>1 DEF Grows
<1>3. Touched(w, id, c) = [heap |-> g, song |-> w.song, history |-> w.history]
  BY DEF Touched, WorldOk
<1> HIDE DEF g
<1>4. WorldOk(Touched(w, id, c), b)  BY <1>1, <1>2, <1>3, Rebased
<1>5. SameTracks(w.song, w.song)  BY DEF SameTracks
<1> QED  BY <1>2, <1>3, <1>4, <1>5 DEF Leads, g

-----------------------------------------------------------------------------
(* Steps.  A command hands the editor a world that fits; what else it does is  *)
(* to the selection, and to what is held.                                      *)

LEMMA StepFits ==
    ASSUME IInv, NEW w, Becomes(w), born' \in Nat, born =< born', WorldOk(w, born'),
           Grows(heap, w.heap), UNCHANGED versions
    PROVE  CopiesOk'
<1>1. heap \in Seq(ClipSet) /\ VersionsOk(versions, heap, born) /\ born \in Nat
  BY DEF IInv, CopiesOk, WorldOk, Now
<1>2. w.heap \in Seq(ClipSet) /\ w = [heap |-> w.heap, song |-> w.song, history |-> w.history]
  BY DEF WorldOk
<1>3. heap' = w.heap /\ song' = w.song /\ history' = w.history  BY DEF Becomes
<1>4. Now' = w  BY <1>2, <1>3 DEF Now
<1>5. VersionsOk(versions, w.heap, born')  BY <1>1, <1>2, VersionsGrow
<1>6. VersionsOk(versions', heap', born')  BY <1>3, <1>5
<1>7. WorldOk(Now', born')  BY <1>4
<1> QED  BY <1>6, <1>7 DEF CopiesOk

LEMMA LeadsFits ==
    ASSUME IInv, NEW w, Becomes(w), Leads(Now, w, born), UNCHANGED <<versions, born>>
    PROVE  CopiesOk'
<1>1. born \in Nat  BY DEF IInv, CopiesOk
<1>2. born' \in Nat /\ born =< born' /\ WorldOk(w, born')  BY <1>1 DEF Leads
<1>3. Grows(heap, w.heap)  BY DEF Leads, Now
<1> QED  BY <1>2, <1>3, StepFits

\* The song as it stands, and its copy.
LEMMA NowFits ==
    ASSUME IInv
    PROVE  /\ born \in Nat /\ WorldOk(Now, born) /\ heap \in Seq(ClipSet) /\ Len(heap) \in Nat
           /\ Now.heap = heap /\ Now.song = song /\ Now.history = history
           /\ song \in SongSet(Len(heap)) /\ song.tracks \in Seq(TrackSet(Len(heap)))
           /\ Leads(Now, Now, born)
           /\ Leads(Now, Copied(Now), born) /\ Copied(Now).heap = heap /\ Copied(Now).song = song
<1>1. WorldOk(Now, born) /\ born \in Nat  BY DEF IInv, CopiesOk
<1>2. Now.heap = heap /\ Now.song = song /\ Now.history = history  BY DEF Now
<1>3. Leads(Now, Now, born)
  BY <1>1, GrowsNot DEF Leads, SameTracks, WorldOk
<1> QED  BY <1>1, <1>2, <1>3, WorldType, CopiedLeads

LEMMA ClipType ==
    ASSUME IInv, NEW t, NEW i, IsClip(<<t, i>>)
    PROVE  /\ t \in DOMAIN song.tracks /\ i \in DOMAIN song.tracks[t].audio
           /\ t \in Nat \ {0} /\ i \in Nat
           /\ IdAt(t, i) \in DOMAIN heap /\ ClipAt(t, i) \in ClipSet
           /\ ClipAt(t, i) = heap[IdAt(t, i)]
<1>1. t \in DOMAIN song.tracks /\ i \in DOMAIN song.tracks[t].audio
  BY DEF IsClip, Tracks, ClipsOn
<1>2. /\ song.tracks \in Seq(TrackSet(Len(heap))) /\ song.tracks[t].audio \in Seq(1..Len(heap))
      /\ song.tracks[t].audio[i] \in DOMAIN heap /\ heap[song.tracks[t].audio[i]] \in ClipSet
  BY <1>1, NowFits, WorldType
<1> QED  BY <1>1, <1>2 DEF IdAt, ClipAt

LEMMA MaxDepthFits ==
    ASSUME NEW h, NEW b, NEW g, HistoryOk(h, g, b)
    PROVE  Len(h.undo) =< MaxDepth
<1> DEFINE S == Copies(g, b)
<1>1. h \in [undo : Seq(S), redo : Seq(S)] /\ Len(h.undo) + Len(h.redo) =< MaxDepth
  BY DEF HistoryOk
<1> HIDE DEF S
<1>2. Len(h.undo) \in Nat /\ Len(h.redo) \in Nat  BY <1>1
<1>3. MaxDepth \in Nat  BY ArrangerAssumption DEF ArrangerAssumption, UndoHistoryAssumption
<1> QED  BY <1>1, <1>2, <1>3

\* The invariant gives the types and the depth of every copy.
LEMMA InvGives ==
    ASSUME IInv
    PROVE  TypeOK /\ CopiesAreDeep
<1>1. heap \in Seq(ClipSet) /\ song \in SongSet(Len(heap))  BY NowFits
<1>2. HistoryOk(history, heap, born)  BY DEF IInv, CopiesOk, WorldOk, Now
<1>3. TypeOK
  BY <1>1, <1>2, MaxDepthFits DEF IInv, CopiesOk, EditorOk, TypeOK, SelSet, HeldSet, DragSet
<1>4. \A k \in DOMAIN history.undo : IsDeep(history.undo[k])
  <2> DEFINE S == Copies(heap, born)
  <2>1. history.undo \in Seq(S)  BY <1>2 DEF HistoryOk
  <2>2. \A k \in DOMAIN history.undo : history.undo[k] \in S
    <3> HIDE DEF S
    <3> QED  BY <2>1
  <2> QED  BY <1>1, <2>2, CopyIsDeep
<1>5. \A k \in DOMAIN history.redo : IsDeep(history.redo[k])
  <2> DEFINE S == Copies(heap, born)
  <2>1. history.redo \in Seq(S)  BY <1>2 DEF HistoryOk
  <2>2. \A k \in DOMAIN history.redo : history.redo[k] \in S
    <3> HIDE DEF S
    <3> QED  BY <2>1
  <2> QED  BY <1>1, <2>2, CopyIsDeep
<1>6. \A k \in DOMAIN Nodes : IsDeep(Nodes[k].snap)
  <2> DEFINE S == [id : Nat, parent : Nat, snap : Copies(heap, born)]
  <2>1. Nodes \in Seq(S)  BY DEF IInv, CopiesOk, VersionsOk, Nodes
  <2>2. \A k \in DOMAIN Nodes : Nodes[k] \in S
    <3> HIDE DEF S
    <3> QED  BY <2>1
  <2>3. \A k \in DOMAIN Nodes : Nodes[k].snap \in Copies(heap, born)  BY <2>2
  <2> QED  BY <1>1, <2>3, CopyIsDeep
<1> QED  BY <1>3, <1>4, <1>5, <1>6 DEF CopiesAreDeep

-----------------------------------------------------------------------------
(* Tracks. *)

LEMMA SongPut ==
    ASSUME NEW b \in Nat, NEW c \in Nat, b =< c, NEW w, WorldOk(w, b), NEW s,
           SongOk(s, Len(w.heap), c)
    PROVE  /\ WorldOk([w EXCEPT !.song = s], c)
           /\ [w EXCEPT !.song = s].heap = w.heap /\ [w EXCEPT !.song = s].song = s
           /\ Grows(w.heap, [w EXCEPT !.song = s].heap)
<1>1. [w EXCEPT !.song = s] = [heap |-> w.heap, song |-> s, history |-> w.history]  BY DEF WorldOk
<1>2. w.heap \in Seq(ClipSet) /\ Grows(w.heap, w.heap)  BY WorldType, GrowsNot
<1>3. WorldOk([heap |-> w.heap, song |-> s, history |-> w.history], c)  BY <1>2, Rebased
<1> QED  BY <1>1, <1>2, <1>3

LEMMA TracksPut ==
    ASSUME NEW n, NEW b, NEW s \in SongSet(n), NEW ts \in Seq(TrackSet(n)),
           \A j, k \in DOMAIN ts : ts[j].id =< b /\ (j # k => ts[j].id # ts[k].id)
    PROVE  SongOk([s EXCEPT !.tracks = ts], n, b) /\ [s EXCEPT !.tracks = ts].tracks = ts
<1> DEFINE u == [s EXCEPT !.tracks = ts]
<1>1. s = [tracks |-> s.tracks, tempo |-> s.tempo, markers |-> s.markers]  BY TracksType
<1>2. u = [tracks |-> ts, tempo |-> s.tempo, markers |-> s.markers]  BY <1>1
<1> HIDE DEF u
<1>3. u \in SongSet(n)  BY <1>2, TracksType DEF SongSet
<1>4. IdsDiffer(u, b) /\ u.tracks = ts  BY <1>2 DEF IdsDiffer
<1> QED  BY <1>3, <1>4 DEF SongOk, u

LEMMA TrackDropped ==
    ASSUME NEW n, NEW b, NEW s, SongOk(s, n, b), NEW i \in DOMAIN s.tracks
    PROVE  /\ SongOk([s EXCEPT !.tracks = RemoveAt(s.tracks, i)], n, b)
           /\ [s EXCEPT !.tracks = RemoveAt(s.tracks, i)].tracks = RemoveAt(s.tracks, i)
           /\ Len(RemoveAt(s.tracks, i)) = Len(s.tracks) - 1
           /\ \A k \in 1..Len(s.tracks) - 1 :
                 RemoveAt(s.tracks, i)[k] = IF k < i THEN s.tracks[k] ELSE s.tracks[k + 1]
<1> DEFINE ts == RemoveAt(s.tracks, i)
<1>1. s.tracks \in Seq(TrackSet(n)) /\ i \in 1..Len(s.tracks)  BY TracksType DEF SongOk
<1>2. /\ ts \in Seq(TrackSet(n)) /\ Len(ts) = Len(s.tracks) - 1
      /\ \A k \in 1..Len(s.tracks) - 1 : ts[k] = IF k < i THEN s.tracks[k] ELSE s.tracks[k + 1]
  BY <1>1, RemoveAtIs
<1> HIDE DEF ts
<1>3. DOMAIN ts = 1..Len(s.tracks) - 1 /\ DOMAIN s.tracks = 1..Len(s.tracks) /\ Len(s.tracks) \in Nat
  BY <1>1, <1>2
<1>4. \A j, k \in DOMAIN ts : ts[j].id =< b /\ (j # k => ts[j].id # ts[k].id)
  <2>1. SUFFICES ASSUME NEW j \in DOMAIN ts, NEW k \in DOMAIN ts
                 PROVE  ts[j].id =< b /\ (j # k => ts[j].id # ts[k].id)
    OBVIOUS
  <2> DEFINE At(x) == IF x < i THEN x ELSE x + 1
  <2>2. At(j) \in DOMAIN s.tracks /\ At(k) \in DOMAIN s.tracks /\ (j # k => At(j) # At(k))
    BY <1>1, <1>3
  <2>3. ts[j] = s.tracks[At(j)] /\ ts[k] = s.tracks[At(k)]  BY <1>2, <1>3
  <2> HIDE DEF At
  <2> QED  BY <2>2, <2>3 DEF SongOk, IdsDiffer
<1>5. s \in SongSet(n)  BY DEF SongOk
<1>6. SongOk([s EXCEPT !.tracks = ts], n, b) /\ [s EXCEPT !.tracks = ts].tracks = ts
  BY <1>2, <1>4, <1>5, TracksPut
<1> QED  BY <1>2, <1>6 DEF ts

\* Taken out at one place and put in at another, the others close up and make room.
LEMMA TrackMoved ==
    ASSUME NEW n, NEW b, NEW s, SongOk(s, n, b), NEW i \in DOMAIN s.tracks, NEW j \in DOMAIN s.tracks,
           NEW ts, ts = InsertAt(RemoveAt(s.tracks, i), j, s.tracks[i])
    PROVE  /\ SongOk([s EXCEPT !.tracks = ts], n, b) /\ [s EXCEPT !.tracks = ts].tracks = ts
           /\ DOMAIN ts = DOMAIN s.tracks
           /\ \A x \in DOMAIN s.tracks : Along(i, j, x) \in DOMAIN ts /\ ts[Along(i, j, x)] = s.tracks[x]
<1> DEFINE rs == RemoveAt(s.tracks, i)
           From1(k) == IF k < j THEN (IF k < i THEN k ELSE k + 1)
                       ELSE IF k = j THEN i ELSE IF k - 1 < i THEN k - 1 ELSE k
<1>1. /\ s.tracks \in Seq(TrackSet(n)) /\ i \in 1..Len(s.tracks) /\ j \in 1..Len(s.tracks)
      /\ s.tracks[i] \in TrackSet(n) /\ s \in SongSet(n)
  BY TracksType DEF SongOk
<1>2. /\ rs \in Seq(TrackSet(n)) /\ Len(rs) = Len(s.tracks) - 1
      /\ \A k \in 1..Len(s.tracks) - 1 : rs[k] = IF k < i THEN s.tracks[k] ELSE s.tracks[k + 1]
  BY <1>1, RemoveAtIs
<1>3. Len(s.tracks) \in Nat /\ DOMAIN s.tracks = 1..Len(s.tracks)  BY <1>1
<1> DEFINE y == s.tracks[i]
<1>4. ts = InsertAt(rs, j, y) /\ y \in TrackSet(n)  BY <1>1
<1> HIDE DEF rs, y
<1>5. /\ ts \in Seq(TrackSet(n)) /\ Len(ts) = Len(s.tracks)
      /\ \A k \in 1..Len(s.tracks) :
            ts[k] = IF k < j THEN rs[k] ELSE IF k = j THEN y ELSE rs[k - 1]
  <2>1. j \in 1..Len(rs) + 1 /\ Len(rs) + 1 = Len(s.tracks)  BY <1>1, <1>2, <1>3
  <2> DEFINE S == TrackSet(n)
  <2>2. rs \in Seq(S) /\ y \in S  BY <1>2, <1>4
  <2> HIDE DEF S
  <2>3. /\ ts \in Seq(S) /\ Len(ts) = Len(rs) + 1
        /\ \A k \in 1..Len(rs) + 1 : ts[k] = IF k < j THEN rs[k] ELSE IF k = j THEN y ELSE rs[k - 1]
    BY <1>4, <2>1, <2>2, InsertAtIs, SMTT(40)
  <2> QED  BY <2>1, <2>3 DEF S
<1>6. DOMAIN ts = 1..Len(s.tracks)  BY <1>5
<1>7. ASSUME NEW k \in 1..Len(s.tracks)
      PROVE  From1(k) \in 1..Len(s.tracks) /\ ts[k] = s.tracks[From1(k)]
  <2>1. From1(k) \in 1..Len(s.tracks)  BY <1>1, <1>3
  <2>2. CASE k < j
    <3>1. ts[k] = rs[k] /\ k \in 1..Len(s.tracks) - 1  BY <1>1, <1>3, <1>5, <2>2
    <3>2. rs[k] = IF k < i THEN s.tracks[k] ELSE s.tracks[k + 1]  BY <1>2, <3>1
    <3> QED  BY <2>1, <2>2, <3>1, <3>2
  <2>3. CASE k = j  BY <1>5, <2>1, <2>3 DEF y
  <2>4. CASE k > j
    <3>1. ts[k] = rs[k - 1] /\ k - 1 \in 1..Len(s.tracks) - 1 /\ ~(k < j) /\ k # j /\ (k - 1) + 1 = k
      BY <1>1, <1>3, <1>5, <2>4
    <3>2. rs[k - 1] = IF k - 1 < i THEN s.tracks[k - 1] ELSE s.tracks[k]
      <4>1. rs[k - 1] = IF k - 1 < i THEN s.tracks[k - 1] ELSE s.tracks[(k - 1) + 1]  BY <1>2, <3>1
      <4> QED  BY <3>1, <4>1
    <3> QED  BY <2>1, <3>1, <3>2
  <2>5. k < j \/ k = j \/ k > j  BY <1>1, <1>3
  <2> QED  BY <2>2, <2>3, <2>4, <2>5
<1>8. \A k, l \in 1..Len(s.tracks) : k # l => From1(k) # From1(l)  BY <1>1, <1>3
<1>9. \A x \in 1..Len(s.tracks) : Along(i, j, x) \in 1..Len(s.tracks) /\ From1(Along(i, j, x)) = x
  BY <1>1, <1>3 DEF Along
<1> HIDE DEF From1
<1>10. \A k, l \in DOMAIN ts : ts[k].id =< b /\ (k # l => ts[k].id # ts[l].id)
  <2>1. SUFFICES ASSUME NEW k \in 1..Len(s.tracks), NEW l \in 1..Len(s.tracks)
                 PROVE  ts[k].id =< b /\ (k # l => ts[k].id # ts[l].id)
    BY <1>6
  <2>2. From1(k) \in DOMAIN s.tracks /\ From1(l) \in DOMAIN s.tracks /\ (k # l => From1(k) # From1(l))
    BY <1>3, <1>7, <1>8
  <2>3. ts[k] = s.tracks[From1(k)] /\ ts[l] = s.tracks[From1(l)]  BY <1>7
  <2> QED  BY <2>2, <2>3 DEF SongOk, IdsDiffer
<1>11. SongOk([s EXCEPT !.tracks = ts], n, b) /\ [s EXCEPT !.tracks = ts].tracks = ts
  BY <1>1, <1>5, <1>10, TracksPut
<1>12. \A x \in DOMAIN s.tracks : Along(i, j, x) \in DOMAIN ts /\ ts[Along(i, j, x)] = s.tracks[x]
  BY <1>3, <1>6, <1>7, <1>9
<1> QED  BY <1>3, <1>6, <1>11, <1>12

LEMMA NewTrackType ==
    ASSUME NEW n, NEW id \in Nat \ {0}, NEW channel \in 0..15, NEW p \in BOOLEAN
    PROVE  /\ [NewTrack(id, channel) EXCEPT !.practice = p] \in TrackSet(n)
           /\ [NewTrack(id, channel) EXCEPT !.practice = p].id = id
<1>1. /\ <<>> \in Seq(EventSet) /\ <<>> \in Seq(MidiClipSet) /\ <<>> \in Seq(1..n)
      /\ <<>> \in Seq([tick : Nat, value : Nat])
  OBVIOUS
<1>2. NewTrack(id, channel) \in TrackSet(n)  BY <1>1 DEF NewTrack, TrackSet
<1>3. NewTrack(id, channel).id = id  BY DEF NewTrack
<1> QED  BY <1>2, <1>3 DEF TrackSet

LEMMA TakenLeads ==
    ASSUME IInv, NEW b \in Nat, NEW w, WorldOk(w, b)
    PROVE  Leads(w, Taken(w), b)
<1>1. held.at \in Nat  BY DEF IInv, EditorOk, HeldSet
<1>2. NewClip(<<5, 6>>, held.at) \in ClipSet
  <2>1. <<5, 6>> \in Seq(Int) /\ Len(<<5, 6>>) > 0  OBVIOUS
  <2> QED  BY <1>1, <2>1, NewClipType
<1>3. CASE held.rec \in DOMAIN w.song.tracks  BY <1>2, <1>3, WithClipFits DEF Taken
<1>4. CASE held.rec \notin DOMAIN w.song.tracks
  <2>1. Taken(w) = w  BY <1>4 DEF Taken
  <2>2. Grows(w.heap, w.heap)  BY WorldType, GrowsNot
  <2> QED  BY <2>1, <2>2 DEF Leads, SameTracks
<1> QED  BY <1>3, <1>4

LEMMA EditorKept ==
    ASSUME IInv, UNCHANGED <<versionCurrent, clipboard, drag>>, sel' \in SelSet, held' \in HeldSet
    PROVE  EditorOk'
BY DEF IInv, EditorOk

LEMMA AddTrackOk ==
    ASSUME IInv, NEW kind \in {"plain", "drum", "practice"}, AddTrack(kind)
    PROVE  IInv'
<1> DEFINE next    == Len(song.tracks) % 16
           channel == CASE kind = "drum"                   -> 9
                        [] kind = "practice" /\ next = 9   -> 10
                        [] OTHER                           -> next
           t  == [NewTrack(born + 1, channel) EXCEPT !.practice = kind = "practice"]
           v  == Copied(Now)
           ts == Append(v.song.tracks, t)
           u  == [v.song EXCEPT !.tracks = ts]
           n  == Len(heap)
<1>1. /\ born \in Nat /\ WorldOk(v, born) /\ v.heap = heap /\ v.song = song /\ n \in Nat
      /\ song \in SongSet(n) /\ song.tracks \in Seq(TrackSet(n)) /\ IdsDiffer(song, born)
  BY NowFits, WorldType DEF Leads
<1>2. t \in TrackSet(n) /\ t.id = born + 1
  <2>1. next \in 0..15
    <3>1. Len(song.tracks) \in Nat  BY <1>1
    <3>2. \A x \in Nat : x % 16 \in 0..15  OBVIOUS
    <3> QED  BY <3>1, <3>2
  <2>2. channel \in 0..15
    <3> HIDE DEF next
    <3> QED  BY <2>1
  <2>3. born + 1 \in Nat \ {0} /\ (kind = "practice") \in BOOLEAN  BY <1>1
  <2> HIDE DEF channel
  <2> QED  BY <2>2, <2>3, NewTrackType
<1> HIDE DEF t, v, n
<1>3. SongOk(u, n, born + 1)
  <2>1. ts \in Seq(TrackSet(n)) /\ ts = Append(song.tracks, t)  BY <1>1, <1>2
  <2>2. \A k \in DOMAIN song.tracks : song.tracks[k].id \in Nat /\ song.tracks[k].id =< born
    BY <1>1, TracksType, TrackType DEF IdsDiffer
  <2>3. \A j, k \in DOMAIN song.tracks : j # k => song.tracks[j].id # song.tracks[k].id
    BY <1>1 DEF IdsDiffer
  <2>4. \A j, k \in DOMAIN ts : ts[j].id =< born + 1 /\ (j # k => ts[j].id # ts[k].id)
    <3>1. DOMAIN ts = 1..Len(song.tracks) + 1 /\ Len(song.tracks) \in Nat /\ DOMAIN song.tracks = 1..Len(song.tracks)
      BY <1>1, <2>1
    <3>2. \A k \in 1..Len(song.tracks) : ts[k] = song.tracks[k]  BY <1>1, <2>1
    <3>3. ts[Len(song.tracks) + 1] = t  BY <1>1, <2>1
    <3>4. \A j \in DOMAIN ts : j \in DOMAIN song.tracks \/ j = Len(song.tracks) + 1  BY <3>1
    <3> HIDE DEF ts
    <3>5. ASSUME NEW j \in DOMAIN ts, NEW k \in DOMAIN ts, k \in DOMAIN song.tracks
          PROVE  ts[k].id =< born + 1 /\ (j # k => ts[j].id # ts[k].id)
      <4>1. ts[k] = song.tracks[k] /\ ts[k].id \in Nat /\ ts[k].id =< born  BY <2>2, <3>1, <3>2, <3>5
      <4>2. CASE j \in DOMAIN song.tracks  BY <1>1, <2>3, <3>1, <3>2, <3>5, <4>1, <4>2
      <4>3. CASE j = Len(song.tracks) + 1
        <5>1. ts[j].id = born + 1  BY <1>2, <3>3, <4>3
        <5> QED  BY <1>1, <4>1, <5>1
      <4> QED  BY <3>4, <4>2, <4>3
    <3>6. ts[Len(song.tracks) + 1].id =< born + 1  BY <1>1, <1>2, <3>3
    <3> QED  BY <3>4, <3>5, <3>6
  <2>5. u = [song EXCEPT !.tracks = ts]  BY <1>1
  <2> HIDE DEF ts, u
  <2>6. SongOk([song EXCEPT !.tracks = ts], n, born + 1)
    <3>1. song \in SongSet(n) /\ ts \in Seq(TrackSet(n))  BY <1>1, <2>1
    <3> QED  BY <2>4, <3>1, TracksPut
  <2> QED  BY <2>5, <2>6
<1>4. Becomes([v EXCEPT !.song = u])  BY DEF AddTrack, t, v
<1>5. born' = born + 1 /\ UNCHANGED <<versions, versionCurrent, clipboard, drag>>  BY DEF AddTrack
<1> HIDE DEF u
<1>6. CopiesOk'
  <2>1. born' \in Nat /\ born + 1 \in Nat /\ born =< born + 1 /\ born =< born'  BY <1>1, <1>5
  <2>2. WorldOk([v EXCEPT !.song = u], born + 1) /\ Grows(heap, [v EXCEPT !.song = u].heap)
    BY <1>1, <1>3, <2>1, SongPut DEF n
  <2> QED  BY <1>4, <1>5, <2>1, <2>2, StepFits
<1>7. EditorOk'
  <2>1. Len(song.tracks) + 1 \in Nat \ {0} /\ sel \in SelSet /\ held \in HeldSet
    BY <1>1 DEF IInv, EditorOk
  <2>2. sel' = IF kind = "practice" THEN sel ELSE [sel EXCEPT !.track = Len(song.tracks) + 1]
    BY DEF AddTrack
  <2>3. held' = IF kind = "practice" THEN [held EXCEPT !.practice = Len(song.tracks) + 1] ELSE held
    BY DEF AddTrack
  <2>4. sel' \in SelSet  BY <2>1, <2>2 DEF SelSet
  <2>5. held' \in HeldSet  BY <2>1, <2>3 DEF HeldSet
  <2> QED  BY <1>5, <2>4, <2>5, EditorKept
<1> QED  BY <1>6, <1>7 DEF IInv

LEMMA MoveTrackOk ==
    ASSUME IInv, NEW from, NEW to, MoveTrack(from, to)
    PROVE  IInv'
<1> DEFINE v  == Copied(Now)
           ts == InsertAt(RemoveAt(song.tracks, from), to, song.tracks[from])
           u  == [song EXCEPT !.tracks = ts]
           At(x) == IF x = 0 THEN 0 ELSE Along(from, to, x)
<1>1. /\ born \in Nat /\ WorldOk(v, born) /\ v.heap = heap /\ v.song = song
      /\ SongOk(song, Len(heap), born) /\ song.tracks \in Seq(TrackSet(Len(heap)))
  BY NowFits DEF Leads, WorldOk
<1>2. from \in DOMAIN song.tracks /\ to \in DOMAIN song.tracks  BY DEF MoveTrack, Tracks
<1>3. SongOk(u, Len(heap), born)
  <2> HIDE DEF ts
  <2> QED  BY <1>1, <1>2, TrackMoved DEF ts
<1>4. Becomes([v EXCEPT !.song = u]) /\ UNCHANGED Rest
  <2>1. Becomes([v EXCEPT !.song.tracks = InsertAt(RemoveAt(v.song.tracks, from), to, song.tracks[from])])
    BY DEF MoveTrack
  <2>2. [v EXCEPT !.song.tracks = InsertAt(RemoveAt(v.song.tracks, from), to, song.tracks[from])]
        = [v EXCEPT !.song = u]
    <3> HIDE DEF v
    <3> QED  BY <1>1
  <2> QED  BY <2>1, <2>2 DEF MoveTrack
<1> HIDE DEF u, v
<1>5. CopiesOk'
  <2>1. born' = born /\ UNCHANGED versions  BY <1>4 DEF Rest
  <2> DEFINE w == [v EXCEPT !.song = u]
  <2>2. WorldOk(w, born) /\ Grows(heap, w.heap)  BY <1>1, <1>3, SongPut
  <2>3. Becomes(w)  BY <1>4
  <2> HIDE DEF w
  <2> QED  BY <1>1, <2>1, <2>2, <2>3, StepFits
<1>6. \A x \in Nat : At(x) \in Nat /\ (x # 0 => At(x) # 0)
  <2>1. from \in Nat \ {0} /\ to \in Nat \ {0}  BY <1>1, <1>2
  <2> QED  BY <2>1 DEF Along
<1>7. sel \in SelSet /\ held \in HeldSet /\ Remapped(from, to)  BY DEF IInv, EditorOk, MoveTrack
<1>8. sel' \in SelSet /\ held' \in HeldSet
  <2>1. sel' = [sel EXCEPT !.track = At(sel.track), !.clip = [sel.clip EXCEPT ![1] = At(sel.clip[1])],
                  !.range = [sel.range EXCEPT !.track = At(sel.range.track)],
                  !.many = {<<At(p[1]), p[2]>> : p \in sel.many}]
    BY <1>7 DEF Remapped
  <2>2. held' = [held EXCEPT !.asio = At(held.asio), !.rec = At(held.rec), !.vst = At(held.vst)]
    BY <1>7 DEF Remapped
  <2> HIDE DEF At
  <2>3. held' \in HeldSet  BY <1>6, <1>7, <2>2 DEF HeldSet
  <2>4. At(sel.track) \in Nat \ {0}  BY <1>6, <1>7 DEF SelSet
  <2>5. [sel.clip EXCEPT ![1] = At(sel.clip[1])] \in Pairs  BY <1>6, <1>7 DEF SelSet, Pairs
  <2>6. {<<At(p[1]), p[2]>> : p \in sel.many} \in SUBSET Pairs  BY <1>6, <1>7 DEF SelSet, Pairs
  <2>7. [sel.range EXCEPT !.track = At(sel.range.track)]
          \in [track : Nat, clip : Nat, from : Nat, to : Nat]
    BY <1>6, <1>7 DEF SelSet
  <2>8. sel' \in SelSet  BY <1>7, <2>1, <2>4, <2>5, <2>6, <2>7 DEF SelSet
  <2> QED  BY <2>3, <2>8
<1>9. EditorOk'  BY <1>4, <1>8, EditorKept DEF Rest
<1> QED  BY <1>5, <1>9 DEF IInv

\* A take that ends on the track is put down first; the tracks are the same.
LEMMA BeforeDelete ==
    ASSUME IInv, NEW i, DeleteTrack(i),
           NEW v, v = Copied(IF held.rec = i THEN Taken(Copied(Now)) ELSE Now)
    PROVE  /\ WorldOk(v, born) /\ Leads(Now, v, born) /\ SameTracks(song, v.song)
           /\ i \in DOMAIN v.song.tracks
           /\ Becomes([v EXCEPT !.song = [v.song EXCEPT !.tracks = RemoveAt(v.song.tracks, i)]])
<1> DEFINE before == IF held.rec = i THEN Taken(Copied(Now)) ELSE Now
<1>1. born \in Nat /\ WorldOk(Now, born) /\ Leads(Now, Now, born) /\ Leads(Now, Copied(Now), born)
      /\ Now.song = song
  BY NowFits
<1>2. Leads(Now, before, born)
  <2>1. CASE held.rec = i
    <3>1. WorldOk(Copied(Now), born)  BY <1>1 DEF Leads
    <3>2. Leads(Copied(Now), Taken(Copied(Now)), born)  BY <1>1, <3>1, TakenLeads
    <3>3. Leads(Now, Taken(Copied(Now)), born)  BY <1>1, <3>1, <3>2, LeadsOn
    <3> QED  BY <2>1, <3>3
  <2>2. CASE held.rec # i  BY <1>1, <2>2
  <2> QED  BY <2>1, <2>2
<1>3. v = Copied(before)  OBVIOUS
<1>4. Becomes([v EXCEPT !.song = [v.song EXCEPT !.tracks = RemoveAt(v.song.tracks, i)]])
  BY DEF DeleteTrack
<1>5. i \in DOMAIN song.tracks  BY DEF DeleteTrack, Tracks
<1> HIDE DEF before
<1>6. WorldOk(before, born)  BY <1>2 DEF Leads
<1>7. Leads(before, v, born)  BY <1>3, <1>6, CopiedLeads
<1>8. Leads(Now, v, born)  BY <1>1, <1>2, <1>7, LeadsOn
<1> QED  BY <1>1, <1>4, <1>5, <1>8 DEF Leads, SameTracks

LEMMA DeleteTrackOk ==
    ASSUME IInv, NEW i, DeleteTrack(i)
    PROVE  IInv'
<1> DEFINE v == Copied(IF held.rec = i THEN Taken(Copied(Now)) ELSE Now)
           u == [v.song EXCEPT !.tracks = RemoveAt(v.song.tracks, i)]
           At(x)  == IF x < i THEN x ELSE IF x = i THEN 0 ELSE x - 1
           left   == Len(song.tracks) - 1
           track  == At(sel.track)
           many   == {<<At(p[1]), p[2]>> : p \in sel.many}
<1>1. /\ WorldOk(v, born) /\ Leads(Now, v, born) /\ i \in DOMAIN v.song.tracks
      /\ Becomes([v EXCEPT !.song = u])
  BY BeforeDelete
<1>2. i \in DOMAIN song.tracks /\ UNCHANGED Rest  BY DEF DeleteTrack, Tracks
<1>3. born \in Nat /\ song.tracks \in Seq(TrackSet(Len(heap)))  BY NowFits
<1>4. left \in Nat /\ i \in Nat \ {0}  BY <1>2, <1>3
<1>5. sel \in SelSet /\ held \in HeldSet  BY DEF IInv, EditorOk
<1>6. sel' = [sel EXCEPT
             !.track = IF track = 0 THEN 1 ELSE IF track > left THEN Max({1, left}) ELSE track,
             !.clip  = IF At(sel.clip[1]) = 0 THEN NoPair ELSE <<At(sel.clip[1]), sel.clip[2]>>,
             !.midi  = IF At(sel.midi[1]) = 0 THEN NoPair ELSE <<At(sel.midi[1]), sel.midi[2]>>,
             !.range = IF At(sel.range.track) = 0 THEN NoRange
                       ELSE [sel.range EXCEPT !.track = At(sel.range.track)],
             !.many  = {p \in many : p[1] # 0}]
      /\ held' = [held EXCEPT !.asio = At(held.asio), !.rec = At(held.rec), !.vst = At(held.vst)]
  BY DEF DeleteTrack
<1> HIDE DEF v, u
<1>7. CopiesOk'
  <2>1. SongOk(v.song, Len(v.heap), born) /\ v.heap \in Seq(ClipSet)  BY <1>1 DEF WorldOk
  <2>2. SongOk(u, Len(v.heap), born)  BY <1>1, <2>1, TrackDropped DEF u
  <2> DEFINE w == [v EXCEPT !.song = u]
  <2>3. WorldOk(w, born) /\ w.heap = v.heap  BY <1>1, <1>3, <2>2, SongPut, SMTT(40)
  <2>4. Becomes(w)  BY <1>1
  <2> HIDE DEF w
  <2>5. Grows(heap, w.heap)  BY <1>1, <2>3, NowFits DEF Leads
  <2>6. born' \in Nat /\ born' = born /\ UNCHANGED versions  BY <1>2, <1>3 DEF Rest
  <2> QED  BY <1>3, <2>3, <2>4, <2>5, <2>6, StepFits
<1>8. \A x \in Nat : At(x) \in Nat  BY <1>4
<1> HIDE DEF At, left
<1>9. Max({1, left}) \in Nat \ {0}  BY <1>4, MaxOfTwo
<1>10. held' \in HeldSet  BY <1>5, <1>6, <1>8 DEF HeldSet
<1>11. sel' \in SelSet
  <2>1. track \in Nat  BY <1>5, <1>8 DEF SelSet
  <2>2. (IF track = 0 THEN 1 ELSE IF track > left THEN Max({1, left}) ELSE track) \in Nat \ {0}
    <3> HIDE DEF track
    <3> QED  BY <1>9, <2>1
  <2>3. (IF At(sel.clip[1]) = 0 THEN NoPair ELSE <<At(sel.clip[1]), sel.clip[2]>>) \in Pairs
    BY <1>5, <1>8 DEF SelSet, Pairs, NoPair
  <2>4. (IF At(sel.midi[1]) = 0 THEN NoPair ELSE <<At(sel.midi[1]), sel.midi[2]>>) \in Pairs
    BY <1>5, <1>8 DEF SelSet, Pairs, NoPair
  <2>5. (IF At(sel.range.track) = 0 THEN NoRange ELSE [sel.range EXCEPT !.track = At(sel.range.track)])
          \in [track : Nat, clip : Nat, from : Nat, to : Nat]
    BY <1>5, <1>8 DEF SelSet, NoRange
  <2>6. {p \in many : p[1] # 0} \in SUBSET Pairs  BY <1>5, <1>8 DEF SelSet, Pairs
  <2> HIDE DEF track, many
  <2> QED  BY <1>5, <1>6, <2>2, <2>3, <2>4, <2>5, <2>6, ZenonT(40) DEF SelSet
<1>12. EditorOk'  BY <1>2, <1>10, <1>11, EditorKept DEF Rest
<1> QED  BY <1>7, <1>12 DEF IInv

LEMMA StartTakeOk ==
    ASSUME IInv, NEW i, NEW at \in Places, NEW opens \in BOOLEAN, StartTake(i, at, opens)
    PROVE  IInv'
<1>1. born \in Nat /\ WorldOk(Now, born) /\ song.tracks \in Seq(TrackSet(Len(heap)))  BY NowFits
<1>2. Leads(Now, Taken(Now), born)  BY <1>1, TakenLeads
<1>3. Becomes(Taken(Now)) /\ UNCHANGED Rest /\ i \in DOMAIN song.tracks  BY DEF StartTake, Tracks
<1>4. CopiesOk'  BY <1>2, <1>3, LeadsFits DEF Rest
<1>5. i \in Nat \ {0} /\ at \in Nat
  BY <1>1, <1>3, ArrangerAssumption DEF ArrangerAssumption
<1>6. sel \in SelSet /\ held \in HeldSet  BY DEF IInv, EditorOk
<1>7. sel' \in SelSet  BY <1>5, <1>6 DEF StartTake, SelSet
<1>8. held' \in HeldSet  BY <1>5, <1>6 DEF StartTake, HeldSet
<1>9. EditorOk'  BY <1>3, <1>7, <1>8, EditorKept DEF Rest
<1> QED  BY <1>4, <1>9 DEF IInv

LEMMA StopTakeOk ==
    ASSUME IInv, StopTake
    PROVE  IInv'
<1> DEFINE w == IF held.rec \in Tracks THEN Taken(Copied(Now)) ELSE Now
<1>1. born \in Nat /\ WorldOk(Now, born) /\ Leads(Now, Now, born) /\ Leads(Now, Copied(Now), born)
  BY NowFits
<1>2. Leads(Now, w, born)
  <2>1. WorldOk(Copied(Now), born)  BY <1>1 DEF Leads
  <2>2. Leads(Copied(Now), Taken(Copied(Now)), born)  BY <1>1, <2>1, TakenLeads
  <2>3. Leads(Now, Taken(Copied(Now)), born)  BY <1>1, <2>1, <2>2, LeadsOn
  <2> QED  BY <1>1, <2>3
<1>3. Becomes(w) /\ UNCHANGED <<Rest, sel>> /\ held' = [held EXCEPT !.rec = 0]  BY DEF StopTake
<1> HIDE DEF w
<1>4. CopiesOk'  BY <1>2, <1>3, LeadsFits DEF Rest
<1>5. sel' \in SelSet /\ held' \in HeldSet  BY <1>3 DEF IInv, EditorOk, HeldSet
<1>6. EditorOk'  BY <1>3, <1>5, EditorKept DEF Rest
<1> QED  BY <1>4, <1>6 DEF IInv

LEMMA NewSongOk ==
    ASSUME IInv, NewSong
    PROVE  IInv'
<1> DEFINE v == Copied(Now)
           s == [tracks |-> <<>>, tempo |-> <<>>, markers |-> <<>>]
           w == [v EXCEPT !.song = s]
<1>1. born \in Nat /\ WorldOk(v, born) /\ v.heap = heap /\ Len(heap) \in Nat  BY NowFits DEF Leads
<1>2. SongOk(s, Len(heap), born)
  <2>1. <<>> \in Seq(TrackSet(Len(heap))) /\ <<>> \in Seq([tick : Nat]) /\ <<>> \in Seq([tick : Nat, name : Nat])
    OBVIOUS
  <2> QED  BY <2>1 DEF SongOk, SongSet, IdsDiffer
<1>3. Becomes(w) /\ UNCHANGED <<Rest, held>> /\ sel' = [sel EXCEPT !.track = 1]  BY DEF NewSong
<1> HIDE DEF v, s
<1>4. WorldOk(w, born) /\ Grows(heap, w.heap)  BY <1>1, <1>2, SongPut
<1> HIDE DEF w
<1>5. CopiesOk'
  <2>1. born' = born /\ born' \in Nat /\ born =< born' /\ UNCHANGED versions  BY <1>1, <1>3 DEF Rest
  <2> QED  BY <1>3, <1>4, <2>1, StepFits
<1>6. sel' \in SelSet /\ held' \in HeldSet  BY <1>3 DEF IInv, EditorOk, SelSet
<1>7. EditorOk'  BY <1>3, <1>6, EditorKept DEF Rest
<1> QED  BY <1>5, <1>7 DEF IInv

-----------------------------------------------------------------------------
(* Notes. *)

\* Lists made of the elements of a list, or of several from each.
LEMMA PickedType ==
    ASSUME NEW S, NEW n \in Nat, NEW f, f = [k \in 1..n |-> f[k]], \A k \in 1..n : f[k] \in Seq(S)
    PROVE  FlattenSeq(f) \in Seq(S)
<1>1. f \in Seq(Seq(S))  BY ListType
<1> QED  BY <1>1, FlattenType

SpanSet == [start : Int, end : Int, note : Nat, vel : Nat]

NoteStep(p, acc, e) ==
    LET open == {i \in acc.open : acc.spans[i].note = e.note}
    IN  CASE e.kind = "on" ->
               [spans |-> Append(acc.spans, [start |-> e.tick, end |-> e.tick,
                                             note |-> e.note, vel |-> e.vel]),
                open  |-> acc.open \cup {Len(acc.spans) + 1}]
          [] e.kind = "off" /\ open # {} ->
               [spans |-> [acc.spans EXCEPT ![Min(open)].end = e.tick],
                open  |-> acc.open \ {Min(open)}]
          [] OTHER -> acc
NotesFound(p, i, a) == a.spans \in Seq(SpanSet) /\ a.open \subseteq 1..Len(a.spans)
Finding == INSTANCE Recursion WITH Op <- NoteStep, Inv <- NotesFound

LEMMA NoteStepType ==
    ASSUME NEW i, NEW a, NotesFound(0, i, a), NEW e \in EventSet
    PROVE  NotesFound(0, i + 1, NoteStep(0, a, e))
<1> DEFINE open == {j \in a.open : a.spans[j].note = e.note}
           b == NoteStep(0, a, e)
<1>1. a.spans \in Seq(SpanSet) /\ a.open \subseteq 1..Len(a.spans) /\ Len(a.spans) \in Nat
  BY DEF NotesFound
<1>2. e.tick \in Int /\ e.note \in Nat /\ e.vel \in Nat  BY DEF EventSet
<1>3. CASE e.kind = "on"
  <2> DEFINE x == [start |-> e.tick, end |-> e.tick, note |-> e.note, vel |-> e.vel]
  <2>1. b = [spans |-> Append(a.spans, x), open |-> a.open \cup {Len(a.spans) + 1}]
    BY <1>3 DEF NoteStep
  <2>2. x \in SpanSet  BY <1>2 DEF SpanSet
  <2> HIDE DEF x, b
  <2>3. b.spans \in Seq(SpanSet) /\ Len(b.spans) = Len(a.spans) + 1  BY <1>1, <2>1, <2>2
  <2>4. b.open \subseteq 1..Len(b.spans)  BY <1>1, <2>1, <2>3
  <2> QED  BY <2>3, <2>4 DEF NotesFound, b
<1>4. CASE e.kind = "off" /\ open # {}
  <2>1. b = [spans |-> [a.spans EXCEPT ![Min(open)].end = e.tick], open |-> a.open \ {Min(open)}]
    BY <1>4 DEF NoteStep
  <2>2. open \subseteq 1..Len(a.spans) /\ open \in SUBSET Nat  BY <1>1
  <2> HIDE DEF open, b
  <2>3. Min(open) \in open  BY <1>4, <2>2, MinIsLeast
  <2> DEFINE k == Min(open)
  <2>4. k \in 1..Len(a.spans)  BY <2>2, <2>3
  <2> HIDE DEF k
  <2>5. a.spans[k] \in SpanSet  BY <1>1, <2>4
  <2>6. [a.spans[k] EXCEPT !.end = e.tick] \in SpanSet  BY <1>2, <2>5 DEF SpanSet
  <2>7. [a.spans EXCEPT ![k].end = e.tick] \in Seq(SpanSet)
        /\ Len([a.spans EXCEPT ![k].end = e.tick]) = Len(a.spans)
    BY <1>1, <2>4, <2>6
  <2>8. b.spans = [a.spans EXCEPT ![k].end = e.tick] /\ b.open = a.open \ {k}  BY <2>1 DEF k
  <2> QED  BY <1>1, <2>7, <2>8 DEF NotesFound, b
<1>5. CASE e.kind # "on" /\ ~(e.kind = "off" /\ open # {})
  <2>1. b = a  BY <1>5 DEF NoteStep
  <2> QED  BY <2>1 DEF NotesFound
<1> QED  BY <1>3, <1>4, <1>5

LEMMA LengthType ==
    ASSUME NEW t, t.events \in Seq(EventSet)
    PROVE  LengthTicks(t) \in Nat
<1> DEFINE f == [k \in 1..Len(t.events) |-> t.events[k].tick]
<1>0. \A k \in 1..Len(t.events) : t.events[k] \in EventSet  OBVIOUS
<1>1. \A k \in 1..Len(t.events) : f[k] \in Int
  <2>1. \A e \in EventSet : e.tick \in Int  BY DEF EventSet
  <2> QED  BY <1>0, <2>1
<1>2. /\ DOMAIN f = 1..Len(t.events) /\ Len(t.events) \in Nat
      /\ {f[k] : k \in 1..Len(t.events)} = {t.events[k].tick : k \in DOMAIN t.events}
  <2>1. Len(t.events) \in Nat /\ DOMAIN t.events = 1..Len(t.events)  OBVIOUS
  <2>2. {f[k] : k \in 1..Len(t.events)} = {t.events[k].tick : k \in 1..Len(t.events)}  OBVIOUS
  <2> QED  BY <2>1, <2>2
<1>3. Max({0} \cup {f[k] : k \in 1..Len(t.events)}) \in Nat
  <2> HIDE DEF f
  <2> QED  BY <1>1, <1>2, MaxOfList
<1> QED  BY <1>2, <1>3 DEF LengthTicks

LEMMA NotesType ==
    ASSUME NEW t, t.events \in Seq(EventSet)
    PROVE  ExtractNotes(t) \in Seq(SpanSet)
<1> DEFINE base == [spans |-> <<>>, open |-> {}]
           done == Finding!Fold(0, base, t.events)
           n == Len(t.events)
<1>1. NotesFound(0, 0, base)
  <2>1. <<>> \in Seq(SpanSet)  OBVIOUS
  <2> QED  BY <2>1 DEF NotesFound
<1>2. ASSUME NEW i \in 1..n, NEW a, NotesFound(0, i - 1, a)
      PROVE  NotesFound(0, i, NoteStep(0, a, t.events[i]))
  <2>1. t.events[i] \in EventSet  OBVIOUS
  <2>2. NotesFound(0, (i - 1) + 1, NoteStep(0, a, t.events[i]))  BY <1>2, <2>1, NoteStepType
  <2> QED  BY <2>2
<1>3. n \in Nat /\ DOMAIN t.events = 1..n  OBVIOUS
<1>4. NotesFound(0, n, done)
  <2> HIDE DEF base, n
  <2> QED  BY <1>1, <1>2, <1>3, Finding!FoldInv
<1>5. ExtractNotes(t) = [i \in DOMAIN done.spans |->
            IF i \in done.open THEN [done.spans[i] EXCEPT !.end = LengthTicks(t)]
                               ELSE done.spans[i]]
  BY DEF ExtractNotes, NoteStep, FoldLeft, MapThenFoldSet, Finding!Fold, Finding!Last, Max
<1> HIDE DEF done
<1>6. done.spans \in Seq(SpanSet)  BY <1>4 DEF NotesFound
<1>7. LengthTicks(t) \in Int  BY LengthType
<1>8. \A i \in DOMAIN done.spans : [done.spans[i] EXCEPT !.end = LengthTicks(t)] \in SpanSet
  <2>1. \A i \in DOMAIN done.spans : done.spans[i] \in SpanSet  BY <1>6
  <2> QED  BY <1>7, <2>1 DEF SpanSet
<1>9. \A i \in DOMAIN done.spans : ExtractNotes(t)[i] \in SpanSet
  <2>1. \A i \in DOMAIN done.spans : done.spans[i] \in SpanSet  BY <1>6
  <2> QED  BY <1>5, <1>8, <2>1
<1>10. ExtractNotes(t) = [i \in 1..Len(done.spans) |-> ExtractNotes(t)[i]]
       /\ DOMAIN done.spans = 1..Len(done.spans) /\ Len(done.spans) \in Nat
  BY <1>5, <1>6
<1> QED  BY <1>9, <1>10, ListType

LEMMA BounceType ==
    ASSUME NEW t, t.events \in Seq(EventSet)
    PROVE  Bounce(t) \in ClipSet
<1> DEFINE ns == ExtractNotes(t)
           n == LengthTicks(t) + DyingAway
           frames == [k \in 1..n |-> NoteWeight * Cardinality(SoundingIn(ns, k - 1))]
<1>1. ns \in Seq(SpanSet)  BY NotesType
<1>2. n \in Nat /\ n > 0  BY LengthType DEF DyingAway
<1>3. Bounce(t) = [NewClip(frames, 0) EXCEPT !.bounce = TRUE]  BY DEF Bounce
<1> HIDE DEF ns, n
<1>4. ASSUME NEW k \in 1..n  PROVE NoteWeight * Cardinality(SoundingIn(ns, k - 1)) \in Int
  <2>1. SoundingIn(ns, k - 1) \subseteq 1..Len(ns) /\ Len(ns) \in Int  BY <1>1 DEF SoundingIn
  <2>2. IsFiniteSet(1..Len(ns))  BY <2>1, FS_Interval
  <2>3. IsFiniteSet(SoundingIn(ns, k - 1))  BY <2>1, <2>2, FS_Subset
  <2>4. Cardinality(SoundingIn(ns, k - 1)) \in Nat  BY <2>3, FS_CardinalityType
  <2> QED  BY <2>4 DEF NoteWeight
<1>5. frames \in Seq(Int) /\ Len(frames) > 0  BY <1>2, <1>4
<1> HIDE DEF frames
<1>6. NewClip(frames, 0) \in ClipSet  BY <1>5, NewClipType
<1> QED  BY <1>3, <1>6 DEF ClipSet

\* The events of a track may be replaced, and its clips; the track stays the same.
LEMMA EventsType ==
    ASSUME NEW n, NEW t \in TrackSet(n), NEW es \in Seq(EventSet)
    PROVE  [t EXCEPT !.events = es] \in TrackSet(n) /\ [t EXCEPT !.events = es].id = t.id
           /\ [t EXCEPT !.events = es].audio = t.audio /\ [t EXCEPT !.events = es].events = es
           /\ [t EXCEPT !.events = es].clips = t.clips
BY DEF TrackSet

LEMMA MidiClipsType ==
    ASSUME NEW n, NEW t \in TrackSet(n), NEW cs \in Seq(MidiClipSet)
    PROVE  [t EXCEPT !.clips = cs] \in TrackSet(n) /\ [t EXCEPT !.clips = cs].id = t.id
           /\ [t EXCEPT !.clips = cs].audio = t.audio /\ [t EXCEPT !.clips = cs].events = t.events
           /\ [t EXCEPT !.clips = cs].clips = cs
BY DEF TrackSet

LEMMA StampType ==
    ASSUME NEW n, NEW t \in TrackSet(n)
    PROVE  [t EXCEPT !.stamp = t.stamp + 1] \in TrackSet(n)
           /\ [t EXCEPT !.stamp = t.stamp + 1].id = t.id
           /\ [t EXCEPT !.stamp = t.stamp + 1].audio = t.audio
           /\ [t EXCEPT !.stamp = t.stamp + 1].clips = t.clips
<1>1. t.stamp + 1 \in Nat  BY DEF TrackSet
<1> QED  BY <1>1 DEF TrackSet

SameTrack(t, u, n) ==
    u \in TrackSet(n) /\ u.id = t.id /\ u.audio = t.audio /\ Len(u.clips) = Len(t.clips)

LEMMA DisownType ==
    ASSUME NEW n, NEW t \in TrackSet(n), NEW note, NEW tick
    PROVE  SameTrack(t, DisownNote(t, note, tick), n)
<1> DEFINE cs == [i \in DOMAIN t.clips |-> [t.clips[i] EXCEPT !.members = t.clips[i].members \ {<<note, tick>>}]]
<1>1. t.clips \in Seq(MidiClipSet)  BY TrackType
<1>2. \A i \in 1..Len(t.clips) : cs[i] \in MidiClipSet
  <2>1. \A i \in 1..Len(t.clips) : t.clips[i] \in MidiClipSet  BY <1>1
  <2>2. \A c \in MidiClipSet : [c EXCEPT !.members = c.members \ {<<note, tick>>}] \in MidiClipSet
    BY DEF MidiClipSet
  <2> QED  BY <1>1, <2>1, <2>2
<1>3. cs = [i \in 1..Len(t.clips) |-> cs[i]] /\ Len(t.clips) \in Nat  BY <1>1
<1>4. DisownNote(t, note, tick) = [t EXCEPT !.clips = cs]  BY DEF DisownNote
<1> HIDE DEF cs
<1>5. cs \in Seq(MidiClipSet) /\ Len(cs) = Len(t.clips)  BY <1>2, <1>3, ListType
<1> QED  BY <1>4, <1>5, MidiClipsType DEF SameTrack

LEMMA RemoveNoteType ==
    ASSUME NEW n, NEW t \in TrackSet(n), NEW x
    PROVE  SameTrack(t, RemoveNote(t, x), n)
<1> DEFINE es == Without(t.events, FirstOf(OnsOf(t, x)) \cup FirstOf(OffsOf(t, x)))
           rest == [t EXCEPT !.events = es]
           stamped == [rest EXCEPT !.stamp = rest.stamp + 1]
<1>1. es \in Seq(EventSet)
  <2>1. t.events \in Seq(EventSet)  BY TrackType
  <2> QED  BY <2>1, WithoutType
<1>2. RemoveNote(t, x) = IF OnsOf(t, x) = {} THEN rest ELSE DisownNote(stamped, x.note, x.start)
  BY DEF RemoveNote
<1> HIDE DEF es
<1>3. SameTrack(t, rest, n)  BY <1>1, EventsType DEF SameTrack
<1> HIDE DEF rest
<1>4. SameTrack(t, stamped, n)  BY <1>3, StampType DEF SameTrack
<1> HIDE DEF stamped
<1>5. SameTrack(t, DisownNote(stamped, x.note, x.start), n)  BY <1>4, DisownType DEF SameTrack
<1> QED  BY <1>2, <1>3, <1>5

NoteOut(p, t, x) == RemoveNote(t, x)
IsSameTrack(p, i, a) == SameTrack(p.t, a, p.n)
Removing == INSTANCE Recursion WITH Op <- NoteOut, Inv <- IsSameTrack

LEMMA RemoveNotesType ==
    ASSUME NEW n, NEW t \in TrackSet(n), NEW S, NEW notes \in Seq(S)
    PROVE  SameTrack(t, RemoveNotes(t, notes), n)
<1> DEFINE p == [t |-> t, n |-> n]
<1>1. IsSameTrack(p, 0, t)  BY DEF IsSameTrack, SameTrack
<1>2. ASSUME NEW i \in 1..Len(notes), NEW a, IsSameTrack(p, i - 1, a)
      PROVE  IsSameTrack(p, i, NoteOut(p, a, notes[i]))
  <2>1. SameTrack(t, a, n)  BY <1>2 DEF IsSameTrack
  <2>2. SameTrack(a, RemoveNote(a, notes[i]), n)  BY <2>1, RemoveNoteType DEF SameTrack
  <2>3. SameTrack(t, RemoveNote(a, notes[i]), n)  BY <2>1, <2>2 DEF SameTrack
  <2> QED  BY <2>3 DEF IsSameTrack, NoteOut
<1>3. Len(notes) \in Nat /\ DOMAIN notes = 1..Len(notes)  OBVIOUS
<1>4. RemoveNotes(t, notes) = Removing!Fold(p, t, notes)
  BY DEF RemoveNotes, NoteOut, FoldLeft, MapThenFoldSet, Removing!Fold, Removing!Last, Max
<1>5. IsSameTrack(p, Len(notes), Removing!Fold(p, t, notes))
  <2> HIDE DEF p
  <2> QED  BY <1>1, <1>2, <1>3, Removing!FoldInv
<1> QED  BY <1>4, <1>5 DEF IsSameTrack

LEMMA AliveType ==
    ASSUME NEW t, t.events \in Seq(EventSet), NEW c
    PROVE  AliveMembers(t, c) \in Seq(SpanSet)
<1> DEFINE ns == ExtractNotes(t)
           f == [k \in DOMAIN ns |-> IF Key(ns[k]) \in c.members THEN <<ns[k]>> ELSE <<>>]
<1>1. ns \in Seq(SpanSet)  BY NotesType
<1>2. AliveMembers(t, c) = FlattenSeq(f)  BY DEF AliveMembers, Where
<1> HIDE DEF ns
<1>3. f = [k \in 1..Len(ns) |-> f[k]] /\ Len(ns) \in Nat /\ \A k \in 1..Len(ns) : f[k] \in Seq(SpanSet)
  BY <1>1
<1> HIDE DEF f
<1> QED  BY <1>2, <1>3, PickedType

LEMMA DropControlsType ==
    ASSUME NEW n, NEW t \in TrackSet(n), NEW from, NEW to
    PROVE  SameTrack(t, DropControls(t, from, to), n)
           /\ DropControls(t, from, to).clips = t.clips
<1> DEFINE es == t.events
           f == [k \in DOMAIN es |-> IF IsNote(es[k]) \/ es[k].tick < from \/ to =< es[k].tick
                                     THEN <<es[k]>> ELSE <<>>]
<1>1. es \in Seq(EventSet)  BY TrackType
<1>2. DropControls(t, from, to) = [t EXCEPT !.events = FlattenSeq(f)]  BY DEF DropControls, Where
<1> HIDE DEF es
<1>3. f = [k \in 1..Len(es) |-> f[k]] /\ Len(es) \in Nat /\ \A k \in 1..Len(es) : f[k] \in Seq(EventSet)
  BY <1>1
<1> HIDE DEF f
<1>4. FlattenSeq(f) \in Seq(EventSet)  BY <1>3, PickedType
<1> QED  BY <1>2, <1>4, EventsType DEF SameTrack

\* A MIDI clip goes with its notes.
Erased(t, i) == [EraseClip(t, t.clips[i]) EXCEPT !.clips = RemoveAt(@, i)]

LEMMA ErasedType ==
    ASSUME NEW n, NEW t \in TrackSet(n), NEW i \in DOMAIN t.clips
    PROVE  Erased(t, i) \in TrackSet(n) /\ Erased(t, i).id = t.id /\ Erased(t, i).audio = t.audio
<1> DEFINE c == t.clips[i]
           mine == AliveMembers(t, c)
           gone == RemoveNotes(t, mine)
<1>1. t.events \in Seq(EventSet)  BY TrackType
<1>2. mine \in Seq(SpanSet)  BY <1>1, AliveType
<1>3. EraseClip(t, c) = DropControls(gone, c.start, c.end)  BY DEF EraseClip
<1> HIDE DEF mine
<1>4. SameTrack(t, gone, n)  BY <1>2, RemoveNotesType
<1> HIDE DEF gone, c
<1>5. SameTrack(gone, EraseClip(t, c), n)  BY <1>3, <1>4, DropControlsType DEF SameTrack
<1> DEFINE e == EraseClip(t, c)
<1>6. SameTrack(t, e, n)  BY <1>4, <1>5 DEF SameTrack
<1> DEFINE x == Erased(t, i)
<1>7. x = [e EXCEPT !.clips = RemoveAt(e.clips, i)]  BY DEF c, Erased
<1> HIDE DEF x
<1> HIDE DEF e
<1>8. RemoveAt(e.clips, i) \in Seq(MidiClipSet)
  <2>1. t.clips \in Seq(MidiClipSet) /\ e.clips \in Seq(MidiClipSet) /\ Len(e.clips) = Len(t.clips)
    BY <1>6, TrackType DEF SameTrack
  <2>2. i \in 1..Len(e.clips)  BY <2>1
  <2> QED  BY <2>1, <2>2, RemoveAtIs
<1> DEFINE r == RemoveAt(e.clips, i)
<1>9. e \in TrackSet(n) /\ e.id = t.id /\ e.audio = t.audio  BY <1>6 DEF SameTrack
<1>10. x = [e EXCEPT !.clips = r] /\ r \in Seq(MidiClipSet)  BY <1>7, <1>8
<1> HIDE DEF r
<1>11. /\ [e EXCEPT !.clips = r] \in TrackSet(n) /\ [e EXCEPT !.clips = r].id = e.id
       /\ [e EXCEPT !.clips = r].audio = e.audio
  BY <1>9, <1>10, MidiClipsType
<1> QED  BY <1>9, <1>10, <1>11 DEF x

LEMMA Onward ==
    ASSUME IInv, NEW v, Leads(Now, v, born), NEW w, Leads(v, w, born)
    PROVE  Leads(Now, w, born)
<1>1. WorldOk(Now, born)  BY NowFits
<1> QED  BY <1>1, LeadsOn

LEMMA SelType ==
    ASSUME NEW s \in SelSet
    PROVE  /\ Forgotten(s) \in SelSet /\ NoSel \in SelSet /\ NoRange \in [track : Nat, clip : Nat, from : Nat, to : Nat]
           /\ \A t \in Nat \ {0}, i \in Nat : ChosenAt(t, i, s) \in SelSet
           /\ \A t \in Nat \ {0} : [s EXCEPT !.track = t] \in SelSet
<1>1. NoRange \in [track : Nat, clip : Nat, from : Nat, to : Nat]  BY DEF NoRange
<1>2. NoSel \in SelSet  BY <1>1 DEF NoSel, SelSet, NoPair, Pairs
<1>3. Forgotten(s) \in SelSet  BY <1>1 DEF Forgotten, SelSet
<1>4. ASSUME NEW t \in Nat \ {0}, NEW i \in Nat  PROVE ChosenAt(t, i, s) \in SelSet
  <2>1. <<t, i>> \in Pairs /\ {<<t, i>>} \in SUBSET Pairs  BY DEF Pairs
  <2> QED  BY <2>1 DEF ChosenAt, SelSet
<1>5. \A t \in Nat \ {0} : [s EXCEPT !.track = t] \in SelSet  BY DEF SelSet
<1> QED  BY <1>1, <1>2, <1>3, <1>4, <1>5

LEMMA FreezeTrackOk ==
    ASSUME IInv, NEW i, FreezeTrack(i)
    PROVE  IInv'
<1> DEFINE v == Copied(Now)
           a == WithClip(v, i, Bounce(song.tracks[i]))
           x == [a.song.tracks[i] EXCEPT !.frozen = TRUE]
           w == InTrack(a, i, x)
<1>1. /\ born \in Nat /\ WorldOk(v, born) /\ Leads(Now, v, born) /\ v.song = song
      /\ song \in SongSet(Len(heap))
  BY NowFits DEF Leads
<1>2. i \in DOMAIN song.tracks /\ UNCHANGED <<Rest, sel, held>>  BY DEF FreezeTrack, Tracks
<1>3. Bounce(song.tracks[i]) \in ClipSet
  <2>1. song.tracks[i].events \in Seq(EventSet)  BY <1>1, <1>2, TracksType, TrackType
  <2> QED  BY <2>1, BounceType
<1>4. Becomes(w)  BY DEF FreezeTrack, InTrack
<1> HIDE DEF v
<1>5. Leads(v, a, born)  BY <1>1, <1>2, <1>3, WithClipFits
<1> HIDE DEF a
<1>6. WorldOk(a, born) /\ i \in DOMAIN a.song.tracks  BY <1>1, <1>2, <1>5 DEF Leads, SameTracks
<1>7. x \in TrackSet(Len(a.heap)) /\ x.id = a.song.tracks[i].id
  <2>1. a.song.tracks[i] \in TrackSet(Len(a.heap))  BY <1>6, WorldType
  <2> QED  BY <2>1 DEF TrackSet
<1> HIDE DEF x
<1>8. Leads(a, w, born)  BY <1>1, <1>6, <1>7, InTrackFits
<1> HIDE DEF w
<1>9. Leads(Now, a, born)  BY <1>1, <1>5, Onward
<1>10. Leads(Now, w, born)  BY <1>8, <1>9, Onward
<1>11. CopiesOk'  BY <1>2, <1>4, <1>10, LeadsFits DEF Rest
<1>12. EditorOk'  BY <1>2, EditorKept DEF IInv, EditorOk, Rest
<1> QED  BY <1>11, <1>12 DEF IInv

LEMMA UnfreezeTrackOk ==
    ASSUME IInv, NEW i, UnfreezeTrack(i)
    PROVE  IInv'
<1> DEFINE v == Copied(Now)
           x == [v.song.tracks[i] EXCEPT !.frozen = FALSE]
           a == InTrack(v, i, x)
           l == a.song.tracks[i].audio
           f == [k \in DOMAIN l |-> IF ~heap[l[k]].bounce THEN <<l[k]>> ELSE <<>>]
           y == [a.song.tracks[i] EXCEPT !.audio = FlattenSeq(f)]
           w == InTrack(a, i, y)
<1>1. /\ born \in Nat /\ WorldOk(v, born) /\ Leads(Now, v, born) /\ v.song = song
  BY NowFits DEF Leads
<1>2. i \in DOMAIN song.tracks /\ UNCHANGED <<Rest, sel, held>>  BY DEF UnfreezeTrack, Tracks
<1>3. Becomes(w)  BY ZenonT(40) DEF UnfreezeTrack, InTrack, Where
<1> HIDE DEF v
<1>4. x \in TrackSet(Len(v.heap)) /\ x.id = v.song.tracks[i].id
  <2>1. v.song.tracks[i] \in TrackSet(Len(v.heap))  BY <1>1, <1>2, WorldType
  <2> QED  BY <2>1 DEF TrackSet
<1> HIDE DEF x
<1>5. Leads(v, a, born) /\ a.heap = v.heap  BY <1>1, <1>2, <1>4, InTrackFits
<1> HIDE DEF a
<1>6. WorldOk(a, born) /\ i \in DOMAIN a.song.tracks  BY <1>1, <1>2, <1>5 DEF Leads, SameTracks
<1>7. y \in TrackSet(Len(a.heap)) /\ y.id = a.song.tracks[i].id
  <2>1. a.song.tracks[i] \in TrackSet(Len(a.heap)) /\ l \in Seq(1..Len(a.heap)) /\ Len(a.heap) \in Nat
    BY <1>6, WorldType
  <2> DEFINE R == 1..Len(a.heap)
             z == a.song.tracks[i]
             r == FlattenSeq(f)
             n == Len(a.heap)
  <2>2. l \in Seq(R)  BY <2>1
  <2> HIDE DEF l, R
  <2>3. f = [k \in 1..Len(l) |-> f[k]] /\ Len(l) \in Nat /\ \A k \in 1..Len(l) : f[k] \in Seq(R)
    BY <2>2
  <2> HIDE DEF f
  <2>4. r \in Seq(R)  BY <2>3, PickedType
  <2>5. r \in Seq(1..n) /\ z \in TrackSet(n) /\ n \in Nat  BY <2>1, <2>4 DEF R
  <2>6. y = [z EXCEPT !.audio = r]  OBVIOUS
  <2> HIDE DEF y, r, z, n
  <2>7. n =< n  BY <2>5
  <2>8. y \in TrackSet(n) /\ y.id = z.id  BY <2>5, <2>6, <2>7, AudioType
  <2> QED  BY <2>8 DEF n, z
<1> HIDE DEF y, l, f
<1>8. Leads(a, w, born)  BY <1>1, <1>6, <1>7, InTrackFits
<1> HIDE DEF w
<1>9. Leads(Now, a, born)  BY <1>1, <1>5, Onward
<1>10. Leads(Now, w, born)  BY <1>8, <1>9, Onward
<1>11. CopiesOk'  BY <1>2, <1>3, <1>10, LeadsFits DEF Rest
<1>12. EditorOk'  BY <1>2, EditorKept DEF IInv, EditorOk, Rest
<1> QED  BY <1>11, <1>12 DEF IInv

-----------------------------------------------------------------------------
(* Clips under the mouse. *)

LEMMA EditorHolds ==
    ASSUME IInv, UNCHANGED <<versionCurrent, clipboard>>, sel' \in SelSet, held' \in HeldSet,
           drag' = NoDrag \/ drag' \in DragSet
    PROVE  EditorOk'
BY DEF IInv, EditorOk

LEMMA TickType ==
    ASSUME NEW tick \in Places
    PROVE  tick \in Nat
BY ArrangerAssumption DEF ArrangerAssumption

LEMMA DragType ==
    ASSUME IInv, drag.mode # "none"
    PROVE  /\ drag \in DragSet /\ drag.from \in ClipSet /\ drag.track \in Nat /\ drag.clip \in Nat
           /\ drag.grab \in {0, 1} /\ drag.target \in Nat
BY DEF IInv, EditorOk, NoDrag, DragSet

LEMMA SpeedForType ==
    ASSUME NEW c \in ClipSet, NEW ticks \in Nat \ {0}
    PROVE  SpeedFor(c, ticks) \in Speeds
<1> DEFINE near == {s \in Speeds : PlayLen(c) >= s * ticks}
<1>1. near \in SUBSET Int /\ Speeds \in SUBSET Nat /\ Speeds # {}
  <2>1. Speeds \in SUBSET Nat /\ Speeds \in SUBSET Int /\ 1 \in Speeds  BY SpeedType
  <2>2. near \subseteq Speeds  OBVIOUS
  <2> HIDE DEF near
  <2> QED  BY <2>1, <2>2
<1>2. PlayLen(c) \in Int  BY PlayType
<1>3. \A s \in near : s =< PlayLen(c)
  <2>1. ASSUME NEW s \in Nat, PlayLen(c) >= s * ticks  PROVE s =< PlayLen(c)
    <3>1. s * ticks >= s  OBVIOUS
    <3> QED  BY <1>2, <2>1, <3>1
  <2> QED  BY <1>1, <2>1
<1>4. near # {} => Max(near) \in near
  <2> HIDE DEF near
  <2> QED  BY <1>1, <1>2, <1>3, MaxIsGreatest
<1>5. Min(Speeds) \in Speeds  BY <1>1, MinIsLeast
<1> QED  BY <1>4, <1>5 DEF SpeedFor

LEMMA TrimmedLeftType ==
    ASSUME NEW c \in ClipSet, drag.from \in ClipSet, NEW tick \in Nat
    PROVE  /\ TrimmedLeft(c, tick) \in ClipSet /\ TrimmedLeft(c, tick).pcm = c.pcm
           /\ TrimmedLeft(c, tick).bounce = c.bounce
<1> DEFINE from  == drag.from
           right == from.trimStart + PlayLen(from)
           asked == from.trimStart + (tick - from.start) * c.speed
           first == Max({0, Min({right - 1, asked})})
           start == Max({0, from.start + (first - from.trimStart) \div c.speed})
<1>1. /\ from.trimStart \in Nat /\ from.start \in Nat /\ PlayLen(from) \in Nat \ {0}
      /\ c.speed \in Nat \ {0}
  BY PlayType, SpeedType DEF ClipSet
<1>2. right \in Nat \ {0} /\ asked \in Int
  <2>1. (tick - from.start) * c.speed \in Int  BY <1>1
  <2> QED  BY <1>1, <2>1
<1>3. TrimmedLeft(c, tick) = [c EXCEPT !.trimStart = first, !.trimLen = right - first, !.start = start]
  BY DEF TrimmedLeft
<1> HIDE DEF right, asked
<1>4. first \in Nat /\ first < right
  <2> DEFINE m == Min({right - 1, asked})
  <2>1. m \in Int /\ m =< right - 1  BY <1>2, MinOfTwo
  <2> HIDE DEF m
  <2>2. Max({0, m}) = IF 0 >= m THEN 0 ELSE m  BY <2>1, MaxOfTwo
  <2> QED  BY <1>2, <2>1, <2>2 DEF m
<1> HIDE DEF first, from
<1>5. start \in Nat
  <2> DEFINE q == (first - from.trimStart) \div c.speed
  <2>1. q \in Int  BY <1>1, <1>4
  <2> HIDE DEF q
  <2>2. from.start + q \in Int  BY <1>1, <2>1
  <2> QED  BY <2>2, MaxOfTwo DEF q
<1> HIDE DEF start
<1>6. right - first \in Nat \ {0}  BY <1>2, <1>4
<1> QED  BY <1>3, <1>4, <1>5, <1>6 DEF ClipSet

LEMMA PulledType ==
    ASSUME drag \in DragSet, NEW c \in ClipSet, NEW tick \in Nat
    PROVE  /\ Pulled(c, tick) \in ClipSet /\ Pulled(c, tick).pcm = c.pcm
           /\ Pulled(c, tick).bounce = c.bounce
<1> DEFINE ticks == Max({1, tick - c.start})
<1>1. c.start \in Nat /\ c.speed \in Nat \ {0}  BY SpeedType DEF ClipSet
<1>2. drag.mode \in Modes /\ drag.from \in ClipSet /\ drag.grab \in {0, 1}  BY DEF DragSet
<1>3. ticks \in Nat \ {0}
  <2>1. tick - c.start \in Int  BY <1>1
  <2> QED  BY <2>1, MaxOfTwo
<1>4. Pulled(c, tick) = CASE drag.mode = "move"    -> [c EXCEPT !.start = Max({0, tick - drag.grab})]
                          [] drag.mode = "speed"   -> [c EXCEPT !.speed = SpeedFor(c, ticks)]
                          [] drag.mode = "trimR"   -> [c EXCEPT !.trimLen = Max({1, ticks * c.speed})]
                          [] drag.mode = "trimL"   -> TrimmedLeft(c, tick)
                          [] drag.mode = "stretch" -> c
  BY DEF Pulled
<1> HIDE DEF ticks
<1>5. CASE drag.mode = "move"
  <2>1. Pulled(c, tick) = [c EXCEPT !.start = Max({0, tick - drag.grab})]  BY <1>4, <1>5
  <2>2. Max({0, tick - drag.grab}) \in Nat
    <3>1. tick - drag.grab \in Int  BY <1>2
    <3> QED  BY <3>1, MaxOfTwo
  <2> QED  BY <2>1, <2>2 DEF ClipSet
<1>6. CASE drag.mode = "speed"
  <2>1. Pulled(c, tick) = [c EXCEPT !.speed = SpeedFor(c, ticks)]  BY <1>4, <1>6
  <2>2. SpeedFor(c, ticks) \in Speeds  BY <1>3, SpeedForType
  <2> QED  BY <2>1, <2>2 DEF ClipSet
<1>7. CASE drag.mode = "trimR"
  <2>1. Pulled(c, tick) = [c EXCEPT !.trimLen = Max({1, ticks * c.speed})]  BY <1>4, <1>7
  <2>2. Max({1, ticks * c.speed}) \in Nat \ {0}
    <3>1. ticks * c.speed \in Int  BY <1>1, <1>3
    <3> QED  BY <3>1, MaxOfTwo
  <2> QED  BY <2>1, <2>2 DEF ClipSet
<1>8. CASE drag.mode = "trimL"
  <2>1. Pulled(c, tick) = TrimmedLeft(c, tick)  BY <1>4, <1>8
  <2> QED  BY <1>2, <2>1, TrimmedLeftType
<1>9. CASE drag.mode = "stretch"  BY <1>4, <1>9
<1> QED  BY <1>2, <1>5, <1>6, <1>7, <1>8, <1>9 DEF Modes

LEMMA PressClipOk ==
    ASSUME IInv, NEW t, NEW i, NEW mode \in Modes, NEW grab \in {0, 1}, PressClip(t, i, mode, grab)
    PROVE  IInv'
<1>1. IsClip(<<t, i>>) /\ Becomes(Copied(Now))
      /\ UNCHANGED <<held, versions, versionCurrent, clipboard, born>>
  BY DEF PressClip
<1>2. t \in Nat \ {0} /\ i \in Nat /\ ClipAt(t, i) \in ClipSet  BY <1>1, ClipType
<1>3. CopiesOk'  BY <1>1, NowFits, LeadsFits
<1>4. sel \in SelSet /\ held \in HeldSet  BY DEF IInv, EditorOk
<1>5. sel' \in SelSet
  <2>1. <<t, i>> \in Pairs /\ {<<t, i>>} \in SUBSET Pairs  BY <1>2 DEF Pairs
  <2>2. NoRange \in [track : Nat, clip : Nat, from : Nat, to : Nat]  BY <1>4, SelType
  <2> QED  BY <1>2, <1>4, <2>1, <2>2 DEF PressClip, Clicked, SelSet
<1>6. drag' \in DragSet
  <2>1. PlayTicks(ClipAt(t, i)) \in Nat  BY <1>2, PlayType
  <2> QED  BY <1>2, <2>1 DEF PressClip, DragSet
<1>7. EditorOk'  BY <1>1, <1>4, <1>5, <1>6, EditorHolds
<1> QED  BY <1>3, <1>7 DEF IInv

LEMMA DragToOk ==
    ASSUME IInv, NEW tick \in Places, DragTo(tick)
    PROVE  IInv'
<1> DEFINE id == IdAt(drag.track, drag.clip)
           w  == Touched(Now, id, Pulled(heap[id], tick))
<1>1. /\ IsClip(<<drag.track, drag.clip>>) /\ drag.mode # "none" /\ Becomes(w)
      /\ UNCHANGED <<sel, held, versions, versionCurrent, clipboard, born>>
  BY DEF DragTo, Dragging
<1>2. drag \in DragSet /\ tick \in Nat  BY <1>1, DragType, TickType
<1>3. id \in DOMAIN heap /\ heap[id] \in ClipSet /\ ClipAt(drag.track, drag.clip) = heap[id]
  BY <1>1, ClipType
<1>4. born \in Nat /\ WorldOk(Now, born) /\ Now.heap = heap  BY NowFits
<1> HIDE DEF id
<1>5. Leads(Now, w, born)
  <2>1. /\ Pulled(heap[id], tick) \in ClipSet /\ Pulled(heap[id], tick).pcm = heap[id].pcm
        /\ Pulled(heap[id], tick).bounce = heap[id].bounce
    BY <1>2, <1>3, PulledType
  <2> QED  BY <1>3, <1>4, <2>1, TouchedFits
<1> HIDE DEF w
<1>6. CopiesOk'  BY <1>1, <1>5, LeadsFits
<1>7. drag' \in DragSet
  <2>1. Max({1, tick - ClipAt(drag.track, drag.clip).start}) \in Nat
    <3>1. tick - heap[id].start \in Int  BY <1>2, <1>3 DEF ClipSet
    <3> QED  BY <1>3, <3>1, MaxOfTwo
  <2> QED  BY <1>2, <2>1 DEF DragTo, DragSet
<1>8. EditorOk'  BY <1>1, <1>7, EditorHolds DEF IInv, EditorOk
<1> QED  BY <1>6, <1>8 DEF IInv

LEMMA ReleaseOk ==
    ASSUME IInv, NEW lane, Release(lane)
    PROVE  IInv'
<1> DEFINE t == drag.track  i == drag.clip  c == ClipAt(t, i)  p == PlayTicks(c)
           stretched == /\ drag.mode = "stretch" /\ drag.target # p /\ p > 0
                        /\ StretchedLen(c, drag.target, p) > 0
           changed == ~stretched /\ drag.mode = "move" /\ lane \in Tracks \ {t}
           at == <<lane, Len(song.tracks[lane].audio) + 1>>
<1>1. IsClip(<<t, i>>) /\ drag.mode # "none" /\ drag' = NoDrag
      /\ UNCHANGED <<held, versions, versionCurrent, clipboard, born>>
  BY DEF Release, Dragging
<1>2. drag \in DragSet /\ drag.target \in Nat  BY <1>1, DragType
<1>3. /\ t \in DOMAIN song.tracks /\ i \in DOMAIN song.tracks[t].audio
      /\ IdAt(t, i) \in DOMAIN heap /\ c \in ClipSet
  BY <1>1, ClipType
<1>4. born \in Nat /\ WorldOk(Now, born) /\ Now.heap = heap /\ Now.song = song
      /\ Leads(Now, Now, born) /\ song.tracks \in Seq(TrackSet(Len(heap)))
  BY NowFits
<1>5. sel \in SelSet /\ held \in HeldSet  BY DEF IInv, EditorOk
<1>6. CASE stretched
  <2> DEFINE s == Stretched(c, drag.target, p)
             w == Replaced(Now, t, i, s)
  <2>1. Becomes(w) /\ UNCHANGED sel  BY <1>6 DEF Release
  <2>2. s \in ClipSet
    <3>1. p \in Nat \ {0}  BY <1>3, <1>6, PlayType
    <3>2. drag.target # 0
      <4>1. SUFFICES ASSUME drag.target = 0  PROVE FALSE  OBVIOUS
      <4>2. Len(Frames(c)) \in Nat  BY <1>3, FramesType
      <4>3. StretchedLen(c, drag.target, p) = (Len(Frames(c)) * 0) \div p  BY <4>1 DEF StretchedLen
      <4>4. Len(Frames(c)) * 0 = 0 /\ 0 \div p = 0
        <5> HIDE DEF p
        <5> QED  BY <3>1, <4>2
      <4> HIDE DEF p
      <4>5. StretchedLen(c, drag.target, p) = 0  BY <4>3, <4>4
      <4> QED  BY <1>6, <4>5 DEF p
    <3> HIDE DEF p
    <3> QED  BY <1>2, <1>3, <1>6, <3>1, <3>2, StretchedType DEF p
  <2> HIDE DEF s
  <2>3. Leads(Now, w, born)  BY <1>3, <1>4, <2>2, ReplacedFits
  <2> HIDE DEF w
  <2>4. CopiesOk'  BY <1>1, <2>1, <2>3, LeadsFits
  <2>5. EditorOk'  BY <1>1, <1>5, <2>1, EditorHolds
  <2> QED  BY <2>4, <2>5 DEF IInv
<1>7. CASE changed
  <2> DEFINE id == IdAt(t, i)
             a == Dropped(Now, t, i)
             l == Append(a.song.tracks[lane].audio, id)
             x == [a.song.tracks[lane] EXCEPT !.audio = l]
             w == InTrack(a, lane, x)
  <2>1. Becomes(w) /\ sel' = [sel EXCEPT !.track = lane, !.clip = at, !.many = {at}]
    BY <1>7 DEF Release, InTrack
  <2>2. lane \in DOMAIN song.tracks  BY <1>7 DEF Tracks
  <2>3. Leads(Now, a, born) /\ a.heap = heap  BY <1>3, <1>4, DroppedFits
  <2> HIDE DEF a, id
  <2>4. WorldOk(a, born) /\ lane \in DOMAIN a.song.tracks
    BY <1>4, <2>2, <2>3 DEF Leads, SameTracks
  <2>5. x \in TrackSet(Len(a.heap)) /\ x.id = a.song.tracks[lane].id
    <3> DEFINE n == Len(a.heap)
               z == a.song.tracks[lane]
    <3>1. z \in TrackSet(n) /\ z.audio \in Seq(1..n) /\ n \in Nat  BY <2>4, WorldType
    <3>2. id \in 1..n
      <4>1. heap \in Seq(ClipSet)  BY NowFits
      <4> QED  BY <1>3, <2>3, <4>1 DEF id
    <3>3. l \in Seq(1..n)
      <4> HIDE DEF n, z
      <4>1. Append(z.audio, id) \in Seq(1..n)  BY <3>1, <3>2
      <4> QED  BY <4>1 DEF z
    <3>4. x = [z EXCEPT !.audio = l]  OBVIOUS
    <3> HIDE DEF n, z, x, l
    <3>5. n =< n  BY <3>1
    <3>6. x \in TrackSet(n) /\ x.id = z.id  BY <3>1, <3>3, <3>4, <3>5, AudioType
    <3> QED  BY <3>6 DEF n, z
  <2> HIDE DEF x
  <2>6. Leads(a, w, born)  BY <1>4, <2>4, <2>5, InTrackFits
  <2> HIDE DEF w
  <2>7. Leads(Now, w, born)  BY <2>3, <2>6, Onward
  <2>8. CopiesOk'  BY <1>1, <2>1, <2>7, LeadsFits
  <2>9. sel' \in SelSet
    <3>1. lane \in Nat \ {0} /\ Len(song.tracks[lane].audio) \in Nat
      <4>1. song.tracks[lane] \in TrackSet(Len(heap))  BY <1>4, <2>2
      <4>2. song.tracks[lane].audio \in Seq(1..Len(heap))  BY <4>1, TrackType
      <4>3. lane \in 1..Len(song.tracks)  BY <1>4, <2>2
      <4> QED  BY <4>2, <4>3
    <3>2. at \in Pairs /\ {at} \in SUBSET Pairs  BY <3>1 DEF Pairs
    <3> HIDE DEF at
    <3> QED  BY <1>5, <2>1, <3>1, <3>2 DEF SelSet
  <2>10. EditorOk'  BY <1>1, <1>5, <2>9, EditorHolds
  <2> QED  BY <2>8, <2>10 DEF IInv
<1>8. CASE ~stretched /\ ~(drag.mode = "move" /\ lane \in Tracks \ {t})
  <2>1. Becomes(Now) /\ UNCHANGED sel  BY <1>8 DEF Release
  <2>2. CopiesOk'  BY <1>1, <1>4, <2>1, LeadsFits
  <2>3. EditorOk'  BY <1>1, <1>5, <2>1, EditorHolds
  <2> QED  BY <2>2, <2>3 DEF IInv
<1> QED  BY <1>6, <1>7, <1>8

LEMMA NothingMoves ==
    ASSUME IInv, UNCHANGED <<heap, song, history, versions, born>>
    PROVE  CopiesOk'
BY DEF IInv, CopiesOk, Now

LEMMA LetGoOk ==
    ASSUME IInv, LetGo
    PROVE  IInv'
<1>1. drag \in DragSet  BY DragType DEF LetGo
<1>2. drag' \in DragSet  BY <1>1 DEF LetGo, DragSet
<1>3. EditorOk'  BY <1>2 DEF IInv, EditorOk, LetGo
<1>4. CopiesOk'  BY NothingMoves DEF LetGo
<1> QED  BY <1>3, <1>4 DEF IInv

LEMMA SelectsOk ==
    ASSUME IInv, NEW s \in SelSet, Selects(s)
    PROVE  IInv'
<1>1. EditorOk'  BY DEF IInv, EditorOk, Selects
<1>2. CopiesOk'  BY NothingMoves DEF Selects
<1> QED  BY <1>1, <1>2 DEF IInv

LEMMA ClickedType ==
    ASSUME NEW t \in Nat \ {0}, sel \in SelSet
    PROVE  Clicked(t) \in SelSet
BY DEF Clicked, SelSet

LEMMA TrackIndex ==
    ASSUME IInv, NEW t \in Tracks
    PROVE  t \in Nat \ {0} /\ song.tracks[t] \in TrackSet(Len(heap))
           /\ song.tracks[t].audio \in Seq(1..Len(heap)) /\ t \in DOMAIN song.tracks
           /\ t \in DOMAIN Copied(Now).song.tracks
<1>1. song.tracks \in Seq(TrackSet(Len(heap))) /\ t \in DOMAIN song.tracks /\ Copied(Now).song = song
  BY NowFits DEF Tracks
<1>2. song.tracks[t] \in TrackSet(Len(heap)) /\ t \in 1..Len(song.tracks)  BY <1>1
<1> QED  BY <1>1, <1>2, TrackType

LEMMA ShiftClickClipOk ==
    ASSUME IInv, NEW t, NEW i, ShiftClickClip(t, i)
    PROVE  IInv'
<1> DEFINE s == [Clicked(t) EXCEPT !.clip = <<t, i>>,
                  !.many = IF <<t, i>> \in @ THEN @ \ {<<t, i>>} ELSE @ \cup {<<t, i>>}]
<1>1. IsClip(<<t, i>>) /\ Selects(s)  BY DEF ShiftClickClip
<1>2. t \in Nat \ {0} /\ i \in Nat  BY <1>1, ClipType
<1>3. sel \in SelSet  BY DEF IInv, EditorOk
<1>4. Clicked(t) \in SelSet  BY <1>2, <1>3, ClickedType
<1>5. s \in SelSet
  <2>1. <<t, i>> \in Pairs /\ {<<t, i>>} \in SUBSET Pairs  BY <1>2 DEF Pairs
  <2> QED  BY <1>4, <2>1 DEF SelSet
<1> HIDE DEF s
<1> QED  BY <1>1, <1>5, SelectsOk

LEMMA ClickEmptyOk ==
    ASSUME IInv, NEW t, ClickEmpty(t)
    PROVE  IInv'
<1> DEFINE s == [NoSel EXCEPT !.track = t, !.midi = sel.midi]
<1>1. t \in Tracks /\ Selects(s)  BY DEF ClickEmpty
<1>2. t \in Nat \ {0}  BY <1>1, TrackIndex
<1>3. sel \in SelSet  BY DEF IInv, EditorOk
<1>4. NoSel \in SelSet  BY <1>3, SelType
<1>5. s \in SelSet  BY <1>2, <1>3, <1>4 DEF SelSet
<1> HIDE DEF s
<1> QED  BY <1>1, <1>5, SelectsOk

LEMMA SelectMidiOk ==
    ASSUME IInv, NEW t, NEW i, SelectMidi(t, i)
    PROVE  IInv'
<1> DEFINE s == [sel EXCEPT !.midi = <<t, i>>, !.track = t]
<1>1. t \in Tracks /\ i \in DOMAIN song.tracks[t].clips /\ Selects(s)  BY DEF SelectMidi
<1>2. t \in Nat \ {0} /\ song.tracks[t] \in TrackSet(Len(heap))  BY <1>1, TrackIndex
<1>3. i \in Nat
  <2>1. song.tracks[t].clips \in Seq(MidiClipSet)  BY <1>2, TrackType
  <2> QED  BY <1>1, <2>1
<1>4. sel \in SelSet  BY DEF IInv, EditorOk
<1>5. s \in SelSet
  <2>1. <<t, i>> \in Pairs  BY <1>2, <1>3 DEF Pairs
  <2> QED  BY <1>2, <1>4, <2>1 DEF SelSet
<1> HIDE DEF s
<1> QED  BY <1>1, <1>5, SelectsOk

LEMMA WithinType ==
    ASSUME NEW x \in Int, NEW lo \in Nat, NEW hi \in Nat, lo =< hi
    PROVE  Within(x, lo, hi) \in lo..hi
<1> DEFINE m == Min({x, hi})
<1>1. m \in Int /\ m =< hi  BY MinOfTwo
<1> HIDE DEF m
<1>2. Max({lo, m}) \in lo..hi  BY <1>1, MaxOfTwo
<1> QED  BY <1>2 DEF Within, m

LEMMA SelectRangeOk ==
    ASSUME IInv, NEW t, NEW i, NEW from \in Places, NEW to \in Places, SelectRange(t, i, from, to)
    PROVE  IInv'
<1> DEFINE c == ClipAt(t, i)
           a == IF i = 0 THEN from ELSE Within(from, c.start, EndTick(c))
           b == IF i = 0 THEN to ELSE Within(to, c.start, EndTick(c))
           r == IF a = b THEN NoRange ELSE [track |-> t, clip |-> i, from |-> a, to |-> b]
           s == [Clicked(t) EXCEPT !.range = r]
<1>1. t \in Tracks /\ (i = 0 \/ i \in ClipsOn(t)) /\ Selects(s)  BY DEF SelectRange
<1>2. t \in Nat \ {0} /\ from \in Nat /\ to \in Nat  BY <1>1, TrackIndex, TickType
<1>3. sel \in SelSet  BY DEF IInv, EditorOk
<1>4. i # 0 => c \in ClipSet /\ i \in Nat
  <2>1. i # 0 => IsClip(<<t, i>>)  BY <1>1 DEF IsClip
  <2> QED  BY <2>1, ClipType
<1>5. a \in Nat /\ b \in Nat
  <2>1. CASE i = 0  BY <1>2, <2>1
  <2>2. CASE i # 0
    <3>1. c.start \in Nat /\ EndTick(c) \in Nat /\ c.start =< EndTick(c)
      <4>1. c \in ClipSet  BY <1>4, <2>2
      <4> HIDE DEF c
      <4>2. c.start \in Nat /\ PlayTicks(c) \in Nat  BY <4>1, PlayType DEF ClipSet
      <4> QED  BY <4>2 DEF EndTick
    <3> HIDE DEF c
    <3> DEFINE lo == c.start
               hi == EndTick(c)
    <3>2. lo \in Nat /\ hi \in Nat /\ lo =< hi /\ from \in Int /\ to \in Int  BY <1>2, <3>1
    <3>3. a = Within(from, lo, hi) /\ b = Within(to, lo, hi)  BY <2>2
    <3> HIDE DEF a, b, lo, hi
    <3>4. a \in lo..hi /\ b \in lo..hi  BY <3>2, <3>3, WithinType
    <3> QED  BY <3>2, <3>4
  <2> QED  BY <2>1, <2>2
<1> HIDE DEF a, b
<1>6. r \in [track : Nat, clip : Nat, from : Nat, to : Nat]
  <2>1. NoRange \in [track : Nat, clip : Nat, from : Nat, to : Nat]  BY <1>3, SelType
  <2> QED  BY <1>2, <1>4, <1>5, <2>1
<1> HIDE DEF r
<1>7. s \in SelSet
  <2>1. Clicked(t) \in SelSet  BY <1>2, <1>3, ClickedType
  <2> QED  BY <1>6, <2>1 DEF SelSet
<1> HIDE DEF s
<1> QED  BY <1>1, <1>7, SelectsOk

-----------------------------------------------------------------------------
(* Cutting, copying and joining clips. *)

\* The ordinary step of a command on clips: it leads on from the copy, and Rest stays.
LEMMA CommandOk ==
    ASSUME IInv, NEW w, Leads(Copied(Now), w, born), Becomes(w), UNCHANGED Rest,
           sel' \in SelSet, held' \in HeldSet
    PROVE  IInv'
<1>1. Leads(Now, w, born)  BY NowFits, Onward
<1>2. CopiesOk'  BY <1>1, LeadsFits DEF Rest
<1>3. EditorOk'  BY EditorKept DEF Rest
<1> QED  BY <1>2, <1>3 DEF IInv

\* A clip under the copy is where it was in the song.
LEMMA CopyOfClip ==
    ASSUME IInv, NEW t, NEW i, IsClip(<<t, i>>), NEW v, v = Copied(Now)
    PROVE  /\ born \in Nat /\ WorldOk(v, born) /\ v.heap = heap /\ v.song = song /\ Leads(v, v, born)
           /\ t \in DOMAIN v.song.tracks /\ i \in DOMAIN v.song.tracks[t].audio
           /\ IdAt(t, i) \in DOMAIN v.heap /\ v.heap[IdAt(t, i)] = ClipAt(t, i)
           /\ ClipAt(t, i) \in ClipSet /\ t \in Nat \ {0} /\ i \in Nat
           /\ sel \in SelSet /\ held \in HeldSet
<1>1. WorldOk(v, born) /\ v.heap = heap /\ v.song = song /\ born \in Nat
  BY NowFits DEF Leads
<1>2. Leads(v, v, born)  BY <1>1, WorldType, GrowsNot DEF Leads, SameTracks
<1> QED  BY <1>1, <1>2, ClipType DEF IInv, EditorOk

LEMMA DeleteTrackClipOk ==
    ASSUME IInv, NEW t, NEW i, DeleteTrackClip(t, i)
    PROVE  IInv'
<1> DEFINE v == Copied(Now)
           w == Dropped(v, t, i)
<1>1. IsClip(<<t, i>>) /\ Becomes(w) /\ sel' = Forgotten(sel) /\ UNCHANGED <<Rest, held>>
  BY DEF DeleteTrackClip
<1>2. /\ born \in Nat /\ WorldOk(v, born) /\ t \in DOMAIN v.song.tracks
      /\ i \in DOMAIN v.song.tracks[t].audio /\ sel \in SelSet /\ held \in HeldSet
  BY <1>1, CopyOfClip
<1>3. Leads(v, w, born)  BY <1>2, DroppedFits
<1> HIDE DEF w
<1> QED  BY <1>1, <1>2, <1>3, SelType, CommandOk

LEMMA ClipTouched ==
    ASSUME NEW v, NEW b, NEW id, NEW l, NEW a, b \in Nat, WorldOk(v, b), id \in DOMAIN v.heap,
           l \in ClipSet, l.pcm = v.heap[id].pcm, l.bounce = v.heap[id].bounce,
           a = Touched(v, id, l)
    PROVE  Leads(v, a, b) /\ a.song = v.song /\ a.heap = [v.heap EXCEPT ![id] = l]
BY TouchedFits

LEMMA SplitTrackClipOk ==
    ASSUME IInv, NEW t, NEW i, NEW at \in Places, SplitTrackClip(t, i, at)
    PROVE  IInv'
<1> DEFINE v  == Copied(Now)
           c  == ClipAt(t, i)
           d  == at - c.start
           id == IdAt(t, i)
           l  == LeftOf(c, d)
           r  == [RightOf(c, d) EXCEPT !.start = at]
           a  == Touched(v, id, l)
           w  == Inserted(a, t, i + 1, r)
<1>1. IsClip(<<t, i>>) /\ UNCHANGED <<Rest, held>>  BY DEF SplitTrackClip
<1>2. /\ born \in Nat /\ WorldOk(v, born) /\ Leads(v, v, born) /\ t \in DOMAIN v.song.tracks
      /\ i \in DOMAIN v.song.tracks[t].audio /\ id \in DOMAIN v.heap /\ v.heap[id] = c
      /\ c \in ClipSet /\ sel \in SelSet /\ held \in HeldSet
  BY <1>1, CopyOfClip
<1>3. CASE CanSplit(c, d)
  <2>1. Becomes(w) /\ sel' = Forgotten(sel)  BY <1>3 DEF SplitTrackClip
  <2>2. l \in ClipSet /\ l.pcm = c.pcm /\ l.bounce = c.bounce /\ RightOf(c, d) \in ClipSet
    <3>1. c.start \in Nat /\ at \in Nat  BY <1>2, TickType DEF ClipSet
    <3>2. d \in Int  BY <3>1
    <3> HIDE DEF d, c
    <3> QED  BY <1>2, <1>3, <3>2, CutType
  <2>3. r \in ClipSet
    <3>1. at \in Nat  BY TickType
    <3> QED  BY <2>2, <3>1 DEF ClipSet
  <2> HIDE DEF r, l, c, id, v
  <2>4. Leads(v, a, born) /\ a.song = v.song
    <3>1. l.pcm = v.heap[id].pcm  BY <1>2, <2>2
    <3>2. l.bounce = v.heap[id].bounce  BY <1>2, <2>2
    <3>3. l \in ClipSet /\ id \in DOMAIN v.heap  BY <1>2, <2>2
    <3>4. WorldOk(v, born) /\ born \in Nat  BY <1>2
    <3> HIDE DEF a
    <3>5. a = Touched(v, id, l)  BY DEF a
    <3>6. Leads(v, a, born)  BY <3>1, <3>2, <3>3, <3>4, <3>5, ClipTouched
    <3>7. a.song = v.song  BY <3>4, <3>5 DEF Touched, WorldOk
    <3> QED  BY <3>6, <3>7
  <2> HIDE DEF a
  <2>5. WorldOk(a, born) /\ t \in DOMAIN a.song.tracks  BY <1>2, <2>4 DEF Leads
  <2>6. i + 1 \in 1..Len(a.song.tracks[t].audio) + 1
    <3>1. a.song.tracks[t].audio \in Seq(1..Len(a.heap))  BY <2>5, WorldType
    <3>2. i \in DOMAIN a.song.tracks[t].audio  BY <1>2, <2>4
    <3> QED  BY <3>1, <3>2
  <2>7. Leads(a, w, born)  BY <1>2, <2>3, <2>5, <2>6, InsertedFits
  <2> HIDE DEF w
  <2>8. Leads(v, w, born)  BY <1>2, <2>4, <2>7, LeadsOn
  <2> QED  BY <1>1, <1>2, <2>1, <2>8, SelType, CommandOk DEF v
<1>4. CASE ~CanSplit(c, d)
  <2>1. Becomes(v) /\ UNCHANGED sel  BY <1>4 DEF SplitTrackClip
  <2> QED  BY <1>1, <1>2, <2>1, CommandOk
<1> QED  BY <1>3, <1>4

LEMMA ClipsType ==
    ASSUME IInv, NEW t \in Tracks, NEW chosen \in Seq(ClipsOn(t)),
           NEW clips, clips = [k \in DOMAIN chosen |-> ClipAt(t, chosen[k])]
    PROVE  /\ DOMAIN clips = 1..Len(chosen) /\ Len(chosen) \in Nat
           /\ \A k \in 1..Len(chosen) : clips[k] \in ClipSet
<1>1. \A k \in 1..Len(chosen) : chosen[k] \in ClipsOn(t)  OBVIOUS
<1>2. \A i \in ClipsOn(t) : ClipAt(t, i) \in ClipSet
  <2>1. \A i \in ClipsOn(t) : IsClip(<<t, i>>)  BY DEF IsClip
  <2> QED  BY <2>1, ClipType
<1> QED  BY <1>1, <1>2

LEMMA MergeTrackClipsOk ==
    ASSUME IInv, NEW t, NEW I, MergeTrackClips(t, I)
    PROVE  IInv'
<1> DEFINE v == Copied(Now)
           on == [k \in ClipsOn(t) |-> k]
           f  == [k \in DOMAIN on |-> IF on[k] \in I THEN <<on[k]>> ELSE <<>>]
           chosen == FlattenSeq(f)
           clips == [k \in DOMAIN chosen |-> ClipAt(t, chosen[k])]
           left  == Without(song.tracks[t].audio, I)
           x == [v.song.tracks[t] EXCEPT !.audio = left]
           a == InTrack(v, t, x)
           w == WithClip(a, t, Merged(clips))
<1>1. /\ t \in Tracks /\ Len(chosen) >= 2 /\ Until(clips) > From(clips)
      /\ Becomes(w) /\ sel' = ChosenAt(t, Len(left) + 1, Forgotten(sel)) /\ UNCHANGED <<Rest, held>>
  BY DEF MergeTrackClips, Where, InTrack
<1>2. /\ t \in Nat \ {0} /\ song.tracks[t].audio \in Seq(1..Len(heap)) /\ t \in DOMAIN v.song.tracks
      /\ ClipsOn(t) = 1..Len(song.tracks[t].audio)
  BY <1>1, TrackIndex, SMTT(40) DEF ClipsOn
<1>3. /\ born \in Nat /\ WorldOk(v, born) /\ v.heap = heap /\ v.song = song /\ Len(heap) \in Nat
      /\ sel \in SelSet /\ held \in HeldSet
  BY NowFits DEF Leads, IInv, EditorOk
<1>4. chosen \in Seq(ClipsOn(t))
  <2>1. Len(song.tracks[t].audio) \in Nat  BY <1>2
  <2>2. f = [k \in 1..Len(song.tracks[t].audio) |-> f[k]]  BY <1>2
  <2>3. \A k \in 1..Len(song.tracks[t].audio) : f[k] \in Seq(ClipsOn(t))
    <3> DEFINE C == ClipsOn(t)
    <3>1. \A k \in C : on[k] = k /\ f[k] = IF k \in I THEN <<k>> ELSE <<>>  OBVIOUS
    <3> HIDE DEF C, f, on
    <3>2. ASSUME NEW k \in C  PROVE f[k] \in Seq(C)
      <4>1. <<k>> \in Seq(C) /\ <<>> \in Seq(C)  OBVIOUS
      <4> QED  BY <3>1, <4>1
    <3> QED  BY <1>2, <3>2 DEF C
  <2> HIDE DEF f
  <2> QED  BY <2>1, <2>2, <2>3, PickedType
<1> HIDE DEF chosen
<1>5. /\ DOMAIN clips = 1..Len(chosen) /\ Len(chosen) \in Nat
      /\ \A k \in 1..Len(chosen) : clips[k] \in ClipSet
  BY <1>1, <1>4, ClipsType
<1> HIDE DEF clips
<1>6. Merged(clips) \in ClipSet
  <2>1. Len(chosen) \in Nat \ {0}  BY <1>1, <1>5
  <2> QED  BY <1>1, <1>5, <2>1, MergedType
<1>7. left \in Seq(1..Len(heap))  BY <1>2, WithoutType
<1> HIDE DEF left, v
<1>8. x \in TrackSet(Len(v.heap)) /\ x.id = v.song.tracks[t].id
  <2> DEFINE n == Len(v.heap)
             z == v.song.tracks[t]
  <2>1. z \in TrackSet(n) /\ n \in Nat  BY <1>2, <1>3, WorldType
  <2>2. left \in Seq(1..n) /\ n =< n  BY <1>3, <1>7
  <2>3. x = [z EXCEPT !.audio = left]  OBVIOUS
  <2> HIDE DEF n, z, x
  <2>4. x \in TrackSet(n) /\ x.id = z.id  BY <2>1, <2>2, <2>3, AudioType
  <2> QED  BY <2>4 DEF n, z
<1> HIDE DEF x
<1>9. Leads(v, a, born)  BY <1>2, <1>3, <1>8, InTrackFits
<1> HIDE DEF a
<1>10. WorldOk(a, born) /\ t \in DOMAIN a.song.tracks  BY <1>2, <1>9 DEF Leads, SameTracks
<1>11. Leads(a, w, born)  BY <1>3, <1>6, <1>10, WithClipFits
<1> HIDE DEF w
<1>12. Leads(v, w, born)  BY <1>3, <1>9, <1>11, LeadsOn
<1>13. sel' \in SelSet
  <2>1. Len(left) + 1 \in Nat /\ Forgotten(sel) \in SelSet  BY <1>3, <1>7, SelType
  <2> QED  BY <1>1, <1>2, <2>1, SelType
<1> QED  BY <1>1, <1>3, <1>12, <1>13, CommandOk DEF v

LEMMA ClipboardOk ==
    ASSUME IInv, NEW c \in ClipSet, Clipboard(c)
    PROVE  IInv'
<1>1. EditorOk'  BY DEF IInv, EditorOk, Clipboard
<1>2. CopiesOk'  BY NothingMoves DEF Clipboard
<1> QED  BY <1>1, <1>2 DEF IInv

LEMMA CopySelectedOk ==
    ASSUME IInv, CopySelectedClip
    PROVE  IInv'
<1> DEFINE t == sel.clip[1]
           i == sel.clip[2]
<1>1. IsClip(<<t, i>>)  BY DEF CopySelectedClip, IsClip
<1>2. ClipAt(t, i) \in ClipSet
  <2> HIDE DEF t, i
  <2> QED  BY <1>1, ClipType
<1> QED  BY <1>2, ClipboardOk DEF CopySelectedClip

\* The selected range, in the clip's own ticks.
LEMMA RangeType ==
    ASSUME IInv, HasRange, NEW t, t = sel.range.track, NEW i, i = sel.range.clip,
           NEW c, c = ClipAt(t, i)
    PROVE  /\ IsClip(<<t, i>>) /\ c \in ClipSet /\ PlayTicks(c) \in Nat
           /\ RangeIn(c)[1] \in 0..PlayTicks(c) /\ RangeIn(c)[2] \in 0..PlayTicks(c)
           /\ sel.range.from \in Nat /\ sel.range.to \in Nat /\ c.speed \in Nat \ {0}
<1>1. IsClip(<<t, i>>)  BY DEF HasRange
<1>2. c \in ClipSet  BY <1>1, ClipType
<1>3. sel.range.from \in Nat /\ sel.range.to \in Nat  BY DEF IInv, EditorOk, SelSet
<1>4. PlayTicks(c) \in Nat /\ c.start \in Nat /\ c.speed \in Nat \ {0}
  BY <1>2, PlayType, SpeedType DEF ClipSet
<1>5. \A x \in Int, hi \in Nat : Within(x, 0, hi) \in 0..hi
  <2>1. \A hi \in Nat : 0 \in Nat /\ 0 =< hi  OBVIOUS
  <2> QED  BY <2>1, WithinType
<1>6. sel.range.from - c.start \in Int /\ sel.range.to - c.start \in Int  BY <1>3, <1>4
<1> QED  BY <1>1, <1>2, <1>3, <1>4, <1>5, <1>6 DEF RangeIn

LEMMA CopyClipRangeOk ==
    ASSUME IInv, CopyClipRange
    PROVE  IInv'
<1> DEFINE c == ClipAt(sel.range.track, sel.range.clip)
           r == RangeIn(c)
           len == Max({1, (r[2] - r[1]) * c.speed})
           at  == c.trimStart + r[1] * c.speed
           x == [c EXCEPT !.trimStart = at, !.trimLen = len,
                          !.fadeIn = 0, !.fadeOut = 0, !.bounce = FALSE]
<1>1. HasRange /\ r[1] < r[2] /\ Clipboard(x)  BY DEF CopyClipRange
<1>2. /\ c \in ClipSet /\ PlayTicks(c) \in Nat /\ r[1] \in 0..PlayTicks(c)
      /\ r[2] \in 0..PlayTicks(c) /\ c.speed \in Nat \ {0}
  BY <1>1, RangeType
<1>3. len \in Nat \ {0}
  <2>1. r[2] - r[1] \in Int  BY <1>2
  <2> DEFINE m == (r[2] - r[1]) * c.speed
  <2>2. m \in Int  BY <1>2, <2>1
  <2> HIDE DEF m
  <2>3. Max({1, m}) \in Nat \ {0}  BY <2>2, MaxOfTwo
  <2> QED  BY <2>3 DEF m
<1>4. at \in Nat
  <2>1. c.trimStart \in Nat /\ r[1] \in Nat  BY <1>2 DEF ClipSet
  <2> DEFINE q == r[1]
  <2>2. q * c.speed \in Nat
    <3> HIDE DEF r
    <3> QED  BY <1>2, <2>1
  <2> QED  BY <2>1, <2>2
<1> HIDE DEF len, at, c, r
<1>5. x \in ClipSet  BY <1>2, <1>3, <1>4 DEF ClipSet
<1> QED  BY <1>1, <1>5, ClipboardOk

LEMMA PasteClipAtOk ==
    ASSUME IInv, NEW t, NEW tick \in Places, PasteClipAt(t, tick)
    PROVE  IInv'
<1> DEFINE v == Copied(Now)
           p == [clipboard EXCEPT !.start = tick, !.bounce = FALSE]
           w == WithClip(v, t, p)
           n == Len(song.tracks[t].audio) + 1
<1>1. /\ clipboard # NoClip /\ t \in Tracks /\ Becomes(w) /\ UNCHANGED <<Rest, held>>
      /\ sel' = [ChosenAt(t, n, sel) EXCEPT !.track = t]
  BY DEF PasteClipAt
<1>2. t \in Nat \ {0} /\ t \in DOMAIN v.song.tracks /\ n \in Nat  BY <1>1, TrackIndex
<1>3. born \in Nat /\ WorldOk(v, born) /\ sel \in SelSet /\ held \in HeldSet
  BY NowFits DEF Leads, IInv, EditorOk
<1>4. p \in ClipSet
  <2>1. clipboard \in ClipSet  BY <1>1 DEF IInv, EditorOk
  <2>2. tick \in Nat  BY TickType
  <2> QED  BY <2>1, <2>2 DEF ClipSet
<1> HIDE DEF p
<1>5. Leads(v, w, born)  BY <1>2, <1>3, <1>4, WithClipFits
<1> HIDE DEF w, n
<1>6. sel' \in SelSet
  <2> DEFINE s == ChosenAt(t, n, sel)
  <2>1. s \in SelSet  BY <1>2, <1>3, SelType
  <2>2. sel' = [s EXCEPT !.track = t]  BY <1>1
  <2> HIDE DEF s
  <2> QED  BY <1>2, <2>1, <2>2, SelType
<1> QED  BY <1>1, <1>3, <1>5, <1>6, CommandOk

LEMMA ReverseClipOk ==
    ASSUME IInv, NEW t, NEW i, ReverseClip(t, i)
    PROVE  IInv'
<1> DEFINE v == Copied(Now)
           w == Replaced(v, t, i, Reversed(ClipAt(t, i)))
<1>1. IsClip(<<t, i>>) /\ CanReverse(ClipAt(t, i)) /\ Becomes(w) /\ UNCHANGED <<Rest, held, sel>>
  BY DEF ReverseClip
<1>2. /\ born \in Nat /\ WorldOk(v, born) /\ t \in DOMAIN v.song.tracks
      /\ i \in DOMAIN v.song.tracks[t].audio /\ ClipAt(t, i) \in ClipSet /\ sel \in SelSet
      /\ held \in HeldSet
  BY <1>1, CopyOfClip
<1>3. Reversed(ClipAt(t, i)) \in ClipSet  BY <1>1, <1>2, ReversedType
<1>4. Leads(v, w, born)  BY <1>2, <1>3, ReplacedFits
<1> HIDE DEF w
<1> QED  BY <1>1, <1>2, <1>4, CommandOk

LEMMA AdjustClipOk ==
    ASSUME IInv, NEW t, NEW i, NEW c \in ClipSet, AdjustClip(t, i, c),
           c.pcm = ClipAt(t, i).pcm, c.bounce = ClipAt(t, i).bounce
    PROVE  IInv'
<1> DEFINE v == Copied(Now)
           id == IdAt(t, i)
           w == Touched(v, id, c)
<1>1. IsClip(<<t, i>>) /\ Becomes(w) /\ UNCHANGED <<Rest, held, sel>>  BY DEF AdjustClip
<1>2. /\ born \in Nat /\ WorldOk(v, born) /\ id \in DOMAIN v.heap /\ v.heap[id] = ClipAt(t, i)
      /\ sel \in SelSet /\ held \in HeldSet
  BY <1>1, CopyOfClip
<1> HIDE DEF v, id, w
<1>3. w = Touched(v, id, c)  BY DEF w
<1>4. Leads(v, w, born)  BY <1>2, <1>3, ClipTouched
<1> QED  BY <1>1, <1>2, <1>4, CommandOk DEF v

LEMMA NormalType ==
    ASSUME NEW c \in ClipSet
    PROVE  NormalizeGainFor(c) \in Int
<1> DEFINE f == Frames(c)
           m == Max({0} \cup ToSet(f))
<1>1. f \in Seq(Int)  BY FramesType
<1> HIDE DEF f
<1>2. DOMAIN f = 1..Len(f) /\ Len(f) \in Nat /\ \A k \in 1..Len(f) : f[k] \in Int  BY <1>1
<1>3. ToSet(f) = {f[k] : k \in 1..Len(f)}  BY <1>2 DEF ToSet
<1>4. Max({0} \cup {f[k] : k \in 1..Len(f)}) \in Nat  BY <1>2, MaxOfList
<1>5. m \in Nat  BY <1>3, <1>4
<1>6. NormalizeGainFor(c) = IF m = 0 THEN 1 ELSE Peak \div m  BY DEF NormalizeGainFor, f
<1> HIDE DEF m
<1> QED  BY <1>5, <1>6 DEF Peak

\* A cut inside a clip and a new clip beside it, or in its place.
LEMMA CutAndPutFits ==
    ASSUME NEW b \in Nat, NEW v, WorldOk(v, b), NEW t \in DOMAIN v.song.tracks,
           NEW i \in DOMAIN v.song.tracks[t].audio, NEW id, id \in DOMAIN v.heap,
           NEW l, l \in ClipSet, l.pcm = v.heap[id].pcm, l.bounce = v.heap[id].bounce,
           NEW r \in ClipSet
    PROVE  /\ Leads(v, Touched(v, id, l), b)
           /\ Leads(v, Replaced(Touched(v, id, l), t, i, r), b)
           /\ Leads(v, Inserted(Touched(v, id, l), t, i + 1, r), b)
<1> DEFINE a == Touched(v, id, l)
<1>1. Leads(v, a, b)  BY ClipTouched
<1>2. a.song = v.song  BY DEF Touched, WorldOk
<1> HIDE DEF a
<1>3. WorldOk(a, b) /\ t \in DOMAIN a.song.tracks /\ i \in DOMAIN a.song.tracks[t].audio
  BY <1>1, <1>2 DEF Leads
<1>4. i + 1 \in 1..Len(a.song.tracks[t].audio) + 1
  <2>1. a.song.tracks[t].audio \in Seq(1..Len(a.heap))  BY <1>3, WorldType
  <2> QED  BY <1>3, <2>1
<1>5. Leads(a, Replaced(a, t, i, r), b)  BY <1>3, ReplacedFits
<1>6. Leads(a, Inserted(a, t, i + 1, r), b)  BY <1>3, <1>4, InsertedFits
<1>7. Leads(v, Replaced(a, t, i, r), b)  BY <1>1, <1>5, LeadsOn
<1>8. Leads(v, Inserted(a, t, i + 1, r), b)  BY <1>1, <1>6, LeadsOn
<1> QED  BY <1>1, <1>7, <1>8 DEF a

LeftAt(x, d) == IF CanSplit(x, d) THEN LeftOf(x, d) ELSE x

LEMMA LeftAtType ==
    ASSUME NEW c \in ClipSet, NEW d \in Int
    PROVE  /\ LeftAt(c, d) \in ClipSet /\ LeftAt(c, d).pcm = c.pcm
           /\ LeftAt(c, d).bounce = c.bounce /\ LeftAt(c, d).start = c.start
<1>1. CASE CanSplit(c, d)
  <2>1. LeftOf(c, d).start = c.start  BY DEF LeftOf, ClipSet
  <2> QED  BY <1>1, <2>1, CutType DEF LeftAt
<1>2. CASE ~CanSplit(c, d)
  BY <1>2 DEF LeftAt
<1> QED  BY <1>1, <1>2

LEMMA DivOfProduct ==
    ASSUME NEW x \in Nat, NEW s \in Nat \ {0}
    PROVE  (x * s) \div s = x
OBVIOUS

LEMMA LeftLasts ==
    ASSUME NEW c \in ClipSet, NEW d \in Nat \ {0}, PlayTicks(c) > 0
    PROVE  PlayTicks(LeftAt(c, d)) > 0
<1>1. CASE CanSplit(c, d)
  <2> DEFINE l == LeftOf(c, d)
  <2>1. l \in ClipSet  BY <1>1, CutType
  <2>2. l.trimLen = d * c.speed /\ l.speed = c.speed  BY DEF LeftOf, ClipSet
  <2>3. c.speed \in Nat \ {0}  BY SpeedType DEF ClipSet
  <2> HIDE DEF l
  <2>4. PlayTicks(l) = (d * c.speed) \div c.speed  BY <2>1, <2>2, PlayType DEF PlayTicks
  <2>5. PlayTicks(l) = d  BY <2>3, <2>4, DivOfProduct
  <2> QED  BY <1>1, <2>5 DEF LeftAt, l
<1>2. CASE ~CanSplit(c, d)
  BY <1>2 DEF LeftAt
<1> QED  BY <1>1, <1>2

\* What is left of a clip and the part put back after it can be joined.
LEMMA RejoinedType ==
    ASSUME NEW l \in ClipSet, NEW r \in ClipSet, PlayTicks(l) > 0, NEW start \in Nat
    PROVE  [Merged(<<l, r>>) EXCEPT !.start = start] \in ClipSet
<1> DEFINE cs == <<l, r>>
<1>1. DOMAIN cs = 1..2 /\ cs[1] = l /\ cs[2] = r /\ \A k \in 1..2 : cs[k] \in ClipSet  OBVIOUS
<1> HIDE DEF cs
<1>2. 2 \in Nat \ {0}  OBVIOUS
<1>3. /\ From(cs) \in Nat /\ Until(cs) \in Nat
      /\ \A k \in 1..2 : From(cs) =< cs[k].start /\ EndTick(cs[k]) =< Until(cs)
  BY <1>1, <1>2, EndsType
<1>4. From(cs) =< l.start /\ EndTick(l) =< Until(cs)  BY <1>1, <1>3
<1>5. l.start \in Nat /\ PlayTicks(l) \in Nat /\ EndTick(l) = l.start + PlayTicks(l)
  BY PlayType DEF ClipSet, EndTick
<1>6. Until(cs) > From(cs)  BY <1>3, <1>4, <1>5
<1>7. Merged(cs) \in ClipSet  BY <1>1, <1>2, <1>6, MergedType
<1> DEFINE m == Merged(cs)
<1> HIDE DEF m
<1>8. [m EXCEPT !.start = start] \in ClipSet  BY <1>7 DEF m, ClipSet
<1> QED  BY <1>8 DEF m, cs

LEMMA DeleteClipRangeOk ==
    ASSUME IInv, NEW close \in BOOLEAN, DeleteClipRange(close)
    PROVE  IInv'
<1> DEFINE t == sel.range.track  i == sel.range.clip
           v == Copied(Now)
           id == IdAt(t, i)  c == heap[id]
           a == RangeIn(c)[1]  b == RangeIn(c)[2]  p == PlayTicks(c)
           r == [RightOf(c, b) EXCEPT !.start = IF close THEN sel.range.from ELSE sel.range.to]
           l == LeftAt(LeftAt(c, b), a)
           m == [Merged(<<l, r>>) EXCEPT !.start = c.start]
           w == CASE a = 0 /\ b = p -> Dropped(v, t, i)
                  [] a > 0 /\ b = p -> Touched(v, id, LeftAt(c, a))
                  [] a = 0 /\ b < p -> IF CanSplit(c, b) THEN Replaced(Touched(v, id, LeftOf(c, b)), t, i, r)
                                                         ELSE v
                  [] OTHER -> IF ~CanSplit(c, b) THEN Touched(v, id, l)
                              ELSE IF close THEN Replaced(Touched(v, id, l), t, i, m)
                              ELSE Inserted(Touched(v, id, l), t, i + 1, r)
<1>1. HasRange /\ a < b /\ Becomes(w) /\ sel' = Forgotten(sel) /\ UNCHANGED <<Rest, held>>
  BY DEF DeleteClipRange, LeftAt
<1>2. c = ClipAt(t, i)  BY DEF ClipAt
<1>3. /\ IsClip(<<t, i>>) /\ c \in ClipSet /\ p \in Nat /\ a \in 0..p /\ b \in 0..p
      /\ sel.range.from \in Nat /\ sel.range.to \in Nat
  <2> HIDE DEF c
  <2> QED  BY <1>1, <1>2, RangeType
<1>4. a \in Int /\ b \in Int /\ a >= 0 /\ a =< p /\ b =< p /\ b \in Nat \ {0} /\ p > 0
  <2> HIDE DEF a, b, p
  <2> QED  BY <1>1, <1>3
<1>5. /\ born \in Nat /\ WorldOk(v, born) /\ Leads(v, v, born) /\ t \in DOMAIN v.song.tracks
      /\ i \in DOMAIN v.song.tracks[t].audio /\ id \in DOMAIN v.heap /\ v.heap[id] = c
      /\ sel \in SelSet /\ held \in HeldSet
  <2> HIDE DEF t, i, c, id
  <2> QED  BY <1>2, <1>3, CopyOfClip DEF id
<1> HIDE DEF v, t, i, id, c, a, b
<1>6. CanSplit(c, b) => r \in ClipSet /\ LeftOf(c, b) \in ClipSet /\ LeftOf(c, b) = LeftAt(c, b)
  <2>1. CanSplit(c, b) => RightOf(c, b) \in ClipSet /\ LeftOf(c, b) \in ClipSet
    BY <1>3, <1>4, CutType
  <2> QED  BY <1>3, <2>1 DEF ClipSet, LeftAt
<1>7. \A d \in {a, b} : /\ LeftAt(c, d) \in ClipSet /\ LeftAt(c, d).pcm = v.heap[id].pcm
                        /\ LeftAt(c, d).bounce = v.heap[id].bounce
  BY <1>3, <1>4, <1>5, LeftAtType
<1>8. l \in ClipSet /\ l.pcm = v.heap[id].pcm /\ l.bounce = v.heap[id].bounce
  <2> DEFINE x == LeftAt(c, b)
  <2>1. x \in ClipSet /\ x.pcm = v.heap[id].pcm /\ x.bounce = v.heap[id].bounce  BY <1>7
  <2> HIDE DEF x
  <2>2. LeftAt(x, a) \in ClipSet /\ LeftAt(x, a).pcm = x.pcm /\ LeftAt(x, a).bounce = x.bounce
    BY <1>4, <2>1, LeftAtType
  <2> QED  BY <2>1, <2>2 DEF x
<1>9. a > 0 /\ CanSplit(c, b) => m \in ClipSet
  <2> SUFFICES ASSUME a > 0, CanSplit(c, b)  PROVE m \in ClipSet  OBVIOUS
  <2>1. PlayTicks(l) > 0
    <3> DEFINE x == LeftAt(c, b)
    <3>1. x \in ClipSet  BY <1>7
    <3>2. PlayTicks(x) > 0  BY <1>3, <1>4, LeftLasts
    <3> HIDE DEF x
    <3>3. a \in Nat \ {0}  BY <1>4
    <3>4. PlayTicks(LeftAt(x, a)) > 0  BY <3>1, <3>2, <3>3, LeftLasts
    <3> QED  BY <3>4 DEF x
  <2>2. c.start \in Nat /\ r \in ClipSet  BY <1>3, <1>6 DEF ClipSet
  <2> HIDE DEF l, r
  <2> QED  BY <1>8, <2>1, <2>2, RejoinedType
<1> HIDE DEF l, r, m, p
<1>10. Leads(v, w, born)
  <2>1. CASE a = 0 /\ b = p
    <3>1. Leads(v, Dropped(v, t, i), born)  BY <1>5, DroppedFits
    <3>2. w = Dropped(v, t, i)  BY <1>3, <1>4, <2>1
    <3> HIDE DEF w
    <3> QED  BY <3>1, <3>2
  <2>2. CASE a > 0 /\ b = p
    <3>1. Leads(v, Touched(v, id, LeftAt(c, a)), born)  BY <1>5, <1>7, ClipTouched
    <3>2. ~(a = 0 /\ b = p)  BY <1>4, <2>2
    <3> QED  BY <2>2, <3>1, <3>2
  <2>3. CASE a = 0 /\ b < p
    <3>1. w = IF CanSplit(c, b) THEN Replaced(Touched(v, id, LeftOf(c, b)), t, i, r) ELSE v
      BY <1>3, <1>4, <2>3
    <3> HIDE DEF w
    <3>2. CASE CanSplit(c, b)
      <4> DEFINE x == LeftOf(c, b)
      <4>1. x \in ClipSet /\ x.pcm = v.heap[id].pcm /\ x.bounce = v.heap[id].bounce  BY <1>6, <1>7, <3>2
      <4> HIDE DEF x
      <4>2. Leads(v, Replaced(Touched(v, id, x), t, i, r), born)
        BY <1>5, <1>6, <3>2, <4>1, CutAndPutFits
      <4> QED  BY <3>1, <3>2, <4>2 DEF x
    <3>3. CASE ~CanSplit(c, b)
      BY <1>5, <3>1, <3>3
    <3> QED  BY <3>2, <3>3
  <2>4. CASE a > 0 /\ b < p
    <3>1. w = IF ~CanSplit(c, b) THEN Touched(v, id, l)
              ELSE IF close THEN Replaced(Touched(v, id, l), t, i, m)
              ELSE Inserted(Touched(v, id, l), t, i + 1, r)
      BY <1>3, <1>4, <2>4
    <3> HIDE DEF w
    <3>2. CASE ~CanSplit(c, b)
      <4>1. Leads(v, Touched(v, id, l), born)  BY <1>5, <1>8, ClipTouched
      <4> QED  BY <3>1, <3>2, <4>1
    <3>3. CASE CanSplit(c, b)
      <4>1. Leads(v, Replaced(Touched(v, id, l), t, i, m), born)
        BY <1>5, <1>8, <1>9, <2>4, <3>3, CutAndPutFits
      <4>2. Leads(v, Inserted(Touched(v, id, l), t, i + 1, r), born)
        BY <1>5, <1>6, <1>8, <3>3, CutAndPutFits
      <4> QED  BY <3>1, <3>3, <4>1, <4>2
    <3> QED  BY <3>2, <3>3
  <2>5. (a = 0 \/ a > 0) /\ (b = p \/ b < p)  BY <1>3, <1>4
  <2> HIDE DEF w
  <2> QED  BY <2>1, <2>2, <2>3, <2>4, <2>5
<1> HIDE DEF w
<1>11. sel' \in SelSet  BY <1>1, <1>5, SelType
<1> QED  BY <1>1, <1>5, <1>10, <1>11, CommandOk DEF v

\* A clip put elsewhere, and a copy of it put there.
LEMMA ClipPutType ==
    ASSUME NEW c \in ClipSet, NEW x \in Nat
    PROVE  /\ [c EXCEPT !.start = x] \in ClipSet
           /\ [c EXCEPT !.start = x].pcm = c.pcm /\ [c EXCEPT !.start = x].bounce = c.bounce
           /\ [c EXCEPT !.start = x, !.bounce = FALSE] \in ClipSet
BY DEF ClipSet

DupStep(p, w, c) == WithClip(w, c.track, c.clip)
LeadsFrom(p, i, w) == Leads(p.v, w, p.b)
Duplicating == INSTANCE Recursion WITH Op <- DupStep, Inv <- LeadsFrom

\* Copies are made of the clips one after the other.
LEMMA DuplicatedFits ==
    ASSUME NEW b \in Nat, NEW v, WorldOk(v, b), NEW n \in Nat, NEW new, DOMAIN new = 1..n,
           \A k \in 1..n : new[k].track \in DOMAIN v.song.tracks /\ new[k].clip \in ClipSet,
           NEW p, p = [v |-> v, b |-> b]
    PROVE  Leads(v, Duplicating!Fold(p, v, new), b)
<1>1. p.v = v /\ p.b = b  OBVIOUS
<1>2. LeadsFrom(p, 0, v)  BY <1>1, WorldType, GrowsNot DEF LeadsFrom, Leads, SameTracks
<1>3. ASSUME NEW i \in 1..n, NEW w, LeadsFrom(p, i - 1, w)
      PROVE  LeadsFrom(p, i, DupStep(p, w, new[i]))
  <2> DEFINE t == new[i].track
             c == new[i].clip
  <2>1. Leads(v, w, b)  BY <1>1, <1>3 DEF LeadsFrom
  <2>2. c \in ClipSet  OBVIOUS
  <2>3. t \in DOMAIN w.song.tracks /\ WorldOk(w, b)  BY <2>1 DEF Leads, SameTracks
  <2>4. DupStep(p, w, new[i]) = WithClip(w, t, c)  BY DEF DupStep
  <2> HIDE DEF t, c
  <2>5. Leads(w, WithClip(w, t, c), b)  BY <2>2, <2>3, WithClipFits
  <2>6. Leads(v, WithClip(w, t, c), b)  BY <2>1, <2>5, LeadsOn
  <2> QED  BY <1>1, <2>4, <2>6 DEF LeadsFrom
<1>4. LeadsFrom(p, n, Duplicating!Fold(p, v, new))  BY <1>2, <1>3, Duplicating!FoldInv
<1> QED  BY <1>1, <1>4 DEF LeadsFrom

PickedOn(t, picked) ==
    LET on == [i \in ClipsOn(t) |-> <<t, i>>]
    IN  FlattenSeq([k \in DOMAIN on |-> IF on[k] \in picked THEN <<on[k]>> ELSE <<>>])
ClipPairs == {x \in (Nat \ {0}) \X Nat : IsClip(x)}

LEMMA ClipPairsType ==
    ASSUME IInv, NEW picked,
           NEW ps, ps = FlattenSeq([t \in Tracks |-> PickedOn(t, picked)])
    PROVE  ps \in Seq(ClipPairs)
<1> DEFINE Own(t) == [i \in ClipsOn(t) |-> <<t, i>>]
           f(t)   == [i \in DOMAIN Own(t) |-> IF Own(t)[i] \in picked THEN <<Own(t)[i]>> ELSE <<>>]
           g      == [t \in Tracks |-> FlattenSeq(f(t))]
           P      == ClipPairs
<1>1. ps = FlattenSeq(g)  BY DEF PickedOn
<1>2. song.tracks \in Seq(TrackSet(Len(heap)))  BY NowFits
<1>3. Tracks = 1..Len(song.tracks) /\ Len(song.tracks) \in Nat  BY <1>2 DEF Tracks
<1>4. ASSUME NEW t \in Tracks  PROVE FlattenSeq(f(t)) \in Seq(P)
  <2>1. song.tracks[t].audio \in Seq(1..Len(heap)) /\ t \in Nat \ {0}  BY TrackIndex
  <2> DEFINE n == Len(song.tracks[t].audio)
  <2>2. ClipsOn(t) = 1..n /\ n \in Nat  BY <2>1 DEF ClipsOn
  <2>3. f(t) = [i \in 1..n |-> f(t)[i]]  BY <2>2
  <2>4. ASSUME NEW i \in 1..n  PROVE f(t)[i] \in Seq(P)
    <3>1. <<t, i>> \in P  BY <2>1, <2>2 DEF ClipPairs, IsClip
    <3>2. f(t)[i] = IF <<t, i>> \in picked THEN <<<<t, i>>>> ELSE <<>>  BY <2>2
    <3> HIDE DEF f, P
    <3>3. <<<<t, i>>>> \in Seq(P) /\ <<>> \in Seq(P)  BY <3>1
    <3> QED  BY <3>2, <3>3
  <2> HIDE DEF f, P, n
  <2> QED  BY <2>2, <2>3, <2>4, PickedType
<1>5. g = [t \in 1..Len(song.tracks) |-> g[t]] /\ \A t \in 1..Len(song.tracks) : g[t] \in Seq(P)
  BY <1>3, <1>4
<1> HIDE DEF g, P
<1>6. FlattenSeq(g) \in Seq(P)  BY <1>3, <1>5, PickedType
<1> QED  BY <1>1, <1>6 DEF P

LEMMA DuplicateOk ==
    ASSUME IInv, DuplicateSelectedClips
    PROVE  IInv'
<1> DEFINE v == Copied(Now)
           picked == IF sel.many # {} THEN sel.many ELSE {sel.clip}
           ps == FlattenSeq([t \in Tracks |-> PickedOn(t, picked)])
           clips == [k \in DOMAIN ps |-> ClipAt(ps[k][1], ps[k][2])]
           d == Until(clips) - From(clips)
           n == Len(ps)
           new == [k \in DOMAIN ps |->
                     [track |-> ps[k][1],
                      clip  |-> [clips[k] EXCEPT !.start = @ + d, !.bounce = FALSE]]]
           p == [v |-> v, b |-> born]
           w == Duplicating!Fold(p, v, new)
           at == [k \in DOMAIN ps |->
                    <<ps[k][1], Len(song.tracks[ps[k][1]].audio)
                                + Cardinality({j \in 1..k : ps[j][1] = ps[k][1]})>>]
<1>1. ps # <<>> /\ d > 0 /\ UNCHANGED <<Rest, held>>
  BY DEF DuplicateSelectedClips, PickedOn, Where
<1>2. sel' = [sel EXCEPT !.many = ToSet(at), !.clip = at[Len(at)]]
  BY DEF DuplicateSelectedClips, PickedOn, Where
<1>3. Becomes(w)
  BY DEF DuplicateSelectedClips, PickedOn, Where, DupStep, FoldLeft, MapThenFoldSet, Duplicating!Fold,
         Duplicating!Last, Max
<1>4. ps \in Seq(ClipPairs)
  <2> HIDE DEF picked, ps
  <2> QED  BY ClipPairsType DEF ps
<1> HIDE DEF ps, w
<1>5. DOMAIN ps = 1..n /\ n \in Nat \ {0}  BY <1>1, <1>4
<1>6. \A k \in 1..n : /\ ps[k] \in ClipPairs /\ ps[k][1] \in Nat \ {0}
                      /\ IsClip(<<ps[k][1], ps[k][2]>>)
  BY <1>4 DEF ClipPairs, IsClip
<1>7. \A k \in 1..n : /\ ps[k][1] \in DOMAIN v.song.tracks /\ ClipAt(ps[k][1], ps[k][2]) \in ClipSet
                      /\ ps[k][1] \in Tracks
  BY <1>6, ClipType, NowFits DEF Tracks
<1>8. DOMAIN clips = 1..n /\ \A k \in 1..n : clips[k] \in ClipSet  BY <1>5, <1>7
<1> HIDE DEF clips
<1>9. d \in Nat
  <2>1. From(clips) \in Nat /\ Until(clips) \in Nat  BY <1>5, <1>8, EndsType
  <2> QED  BY <1>1, <2>1
<1>10. /\ DOMAIN new = 1..n
       /\ \A k \in 1..n : new[k].track \in DOMAIN v.song.tracks /\ new[k].clip \in ClipSet
  <2>1. ASSUME NEW k \in 1..n  PROVE new[k].track = ps[k][1] /\ new[k].clip \in ClipSet
    <3> DEFINE c == clips[k]
    <3>1. c \in ClipSet  BY <1>8
    <3>2. new[k].track = ps[k][1] /\ new[k].clip = [c EXCEPT !.start = @ + d, !.bounce = FALSE]
      BY <1>5
    <3> HIDE DEF c, new
    <3> HIDE DEF d
    <3>3. c.start + d \in Nat  BY <1>9, <3>1 DEF ClipSet
    <3>4. [c EXCEPT !.start = @ + d, !.bounce = FALSE] \in ClipSet  BY <3>1, <3>3, ClipPutType
    <3> QED  BY <3>2, <3>4
  <2> HIDE DEF v
  <2> QED  BY <1>5, <1>7, <2>1
<1>11. born \in Nat /\ WorldOk(v, born) /\ sel \in SelSet /\ held \in HeldSet
  BY NowFits DEF Leads, IInv, EditorOk
<1> HIDE DEF v, new, d
<1>12. Leads(v, w, born)
  <2>1. n \in Nat  BY <1>5
  <2>2. p = [v |-> v, b |-> born]  OBVIOUS
  <2> HIDE DEF p, n
  <2>3. Leads(v, Duplicating!Fold(p, v, new), born)
    BY <1>10, <1>11, <2>1, <2>2, DuplicatedFits
  <2> QED  BY <2>3 DEF w
<1>13. ASSUME NEW k \in 1..n  PROVE at[k] \in Pairs
  <2> DEFINE J == {j \in 1..k : ps[j][1] = ps[k][1]}
             l == Len(song.tracks[ps[k][1]].audio)
  <2>1. Cardinality(J) \in Nat
    <3>1. IsFiniteSet(1..k)  BY FS_Interval
    <3>2. IsFiniteSet(J)  BY <3>1, FS_Subset
    <3> QED  BY <3>2, FS_CardinalityType
  <2>2. l \in Nat
    <3>1. song.tracks[ps[k][1]].audio \in Seq(1..Len(heap))  BY <1>7, TrackIndex
    <3> QED  BY <3>1
  <2>3. at[k] = <<ps[k][1], l + Cardinality(J)>>  BY <1>5
  <2>4. ps[k][1] \in Nat  BY <1>6
  <2> HIDE DEF J, l, at
  <2> QED  BY <2>1, <2>2, <2>3, <2>4 DEF Pairs
<1>14. DOMAIN at = 1..n /\ Len(at) = n
  <2>1. at = [k \in 1..n |-> at[k]]  BY <1>5
  <2>2. n \in Nat  BY <1>5
  <2> HIDE DEF at, n
  <2> QED  BY <1>13, <2>1, <2>2, ListType
<1> HIDE DEF at
<1>15. sel' \in SelSet
  <2>1. ToSet(at) \subseteq Pairs  BY <1>13, <1>14 DEF ToSet
  <2>2. at[Len(at)] \in Pairs  BY <1>5, <1>13, <1>14
  <2> QED  BY <1>2, <1>11, <2>1, <2>2 DEF SelSet
<1> QED  BY <1>1, <1>3, <1>11, <1>12, <1>15, CommandOk DEF v

-----------------------------------------------------------------------------
(* Points in time: tempo, markers and automation. *)

\* Joining lists loses none of what is in them.
LEMMA FlattenHas ==
    ASSUME NEW S, NEW ss \in Seq(Seq(S)), NEW i \in DOMAIN ss, NEW j \in DOMAIN ss[i]
    PROVE  \E m \in DOMAIN FlattenSeq(ss) : FlattenSeq(ss)[m] = ss[i][j]
<1> DEFINE n == Len(ss)
           g == CHOOSE f : f = [k \in 1..n |-> IF k = 1 THEN ss[k] ELSE f[k - 1] \o ss[k]]
           Has(k) == \A x \in 1..k : \A y \in DOMAIN ss[x] : \E m \in DOMAIN g[k] : g[k][m] = ss[x][y]
           Bad == {k \in Nat : k \in 1..n /\ ~(g[k] \in Seq(S) /\ Has(k))}
<1>1. n \in Nat \ {0} /\ (\A k \in 1..n : ss[k] \in Seq(S)) /\ i \in 1..n  OBVIOUS
<1>2. Joined(g, ss, n)
  <2>1. PICK f : Joined(f, ss, n)  BY <1>1, JoinedExists
  <2> QED  BY <2>1 DEF Joined
<1>3. FlattenSeq(ss) = g[n]  BY <1>1 DEF FlattenSeq
<1> HIDE DEF g, n
<1>4. Bad = {}
  <2>1. SUFFICES ASSUME Bad # {}  PROVE FALSE  OBVIOUS
  <2>2. PICK k \in Bad : \A q \in Bad : k =< q  BY <2>1, Bounding!LeastNatural
  <2>3. g[k] = IF k = 1 THEN ss[k] ELSE g[k - 1] \o ss[k]  BY <1>2, <2>2 DEF Joined
  <2>4. k \in 1..n /\ k \in Nat /\ ss[k] \in Seq(S)  BY <1>1, <2>2
  <2>5. CASE k = 1
    <3>1. g[k] = ss[k]  BY <2>3, <2>5
    <3>2. \A x \in 1..k : x = k  BY <2>5
    <3>3. Has(k)  BY <3>1, <3>2
    <3> QED  BY <2>2, <2>4, <3>1, <3>3
  <2>6. CASE k # 1
    <3> DEFINE p == g[k - 1]
               q == ss[k]
    <3>1. k - 1 \in 1..n /\ k - 1 \in Nat /\ ~(k =< k - 1)  BY <1>1, <2>4, <2>6
    <3>2. k - 1 \notin Bad  BY <2>2, <3>1
    <3>3. p \in Seq(S) /\ Has(k - 1)  BY <3>1, <3>2
    <3>4. g[k] = p \o q /\ q \in Seq(S)  BY <2>3, <2>4, <2>6
    <3>5. ASSUME NEW x \in 1..k, NEW y \in DOMAIN ss[x]  PROVE \E m \in DOMAIN g[k] : g[k][m] = ss[x][y]
      <4> HIDE DEF p, q
      <4>1. CASE x = k
        <5>1. y \in 1..Len(q) /\ ss[x][y] = q[y]  BY <3>4, <4>1 DEF q
        <5>2. Len(p) + y \in DOMAIN (p \o q) /\ (p \o q)[Len(p) + y] = q[y]  BY <3>3, <3>4, <5>1
        <5> QED  BY <3>4, <5>1, <5>2
      <4>2. CASE x # k
        <5>1. x \in 1..k - 1  BY <2>4, <4>2
        <5>2. PICK m \in DOMAIN p : p[m] = ss[x][y]  BY <3>3, <5>1 DEF p
        <5>3. m \in DOMAIN (p \o q) /\ (p \o q)[m] = p[m]  BY <3>3, <3>4, <5>2
        <5> QED  BY <3>4, <5>2, <5>3
      <4> QED  BY <4>1, <4>2
    <3>6. g[k] \in Seq(S)  BY <3>3, <3>4
    <3> QED  BY <2>2, <3>5, <3>6
  <2> QED  BY <2>5, <2>6
<1>5. n \in 1..n /\ n \in Nat  BY <1>1
<1>6. Has(n)
  <2> HIDE DEF Has
  <2> QED  BY <1>4, <1>5
<1> QED  BY <1>1, <1>3, <1>6

\* Sorting by tick keeps every element whose tick is not negative.
LEMMA SortedHas ==
    ASSUME NEW S, NEW s \in Seq(S), \A e \in S : e.tick \in Int, NEW k \in DOMAIN s, s[k].tick >= 0
    PROVE  \E m \in DOMAIN ByTick(s) : ByTick(s)[m] = s[k]
<1> DEFINE f == [i \in 1..Len(s) |-> s[i].tick]
           last == Max({0} \cup {s[i].tick : i \in DOMAIN s})
           At(i) == [j \in DOMAIN s |-> IF s[j].tick = i - 1 THEN <<s[j]>> ELSE <<>>]
           ss == [i \in 1..last + 1 |-> FlattenSeq(At(i))]
           n == Len(s)
           here == s[k].tick + 1
<1>1. last \in Nat /\ s[k].tick =< last
  <2>1. \A i \in 1..n : f[i] \in Int  OBVIOUS
  <2>2. DOMAIN f = 1..n /\ {f[i] : i \in 1..n} = {s[i].tick : i \in DOMAIN s}  OBVIOUS
  <2>3. n \in Nat /\ k \in 1..n /\ f[k] = s[k].tick  OBVIOUS
  <2>4. Max({0} \cup {f[i] : i \in 1..n}) \in Nat /\ \A i \in 1..n : f[i] =< Max({0} \cup {f[j] : j \in 1..n})
    <3> HIDE DEF f, n
    <3> QED  BY <2>1, <2>2, <2>3, MaxOfList
  <2>5. last = Max({0} \cup {f[i] : i \in 1..n})  BY <2>2
  <2> HIDE DEF last, f, n
  <2> QED  BY <2>3, <2>4, <2>5
<1> HIDE DEF last
<1>2. \A i \in 1..last + 1 : At(i) \in Seq(Seq(S))
  <2> SUFFICES ASSUME NEW i \in 1..last + 1  PROVE At(i) \in Seq(Seq(S))  OBVIOUS
  <2>1. \A j \in 1..n : At(i)[j] \in Seq(S)  OBVIOUS
  <2>2. At(i) = [j \in 1..n |-> At(i)[j]] /\ n \in Nat  OBVIOUS
  <2> HIDE DEF At, n
  <2> QED  BY <2>1, <2>2, ListType
<1>3. s[k].tick \in Int /\ here \in 1..last + 1 /\ here - 1 = s[k].tick
  <2>1. s[k].tick \in Int  OBVIOUS
  <2> QED  BY <1>1, <2>1
<1>4. k \in DOMAIN At(here) /\ At(here)[k] = <<s[k]>>  BY <1>3
<1>5. \E m \in DOMAIN FlattenSeq(At(here)) : FlattenSeq(At(here))[m] = At(here)[k][1]
  <2>1. 1 \in DOMAIN At(here)[k]  BY <1>4
  <2>2. At(here) \in Seq(Seq(S))  BY <1>2, <1>3
  <2>3. k \in DOMAIN At(here)  BY <1>4
  <2> HIDE DEF At, here
  <2> QED  BY <2>1, <2>2, <2>3, FlattenHas
<1>6. ss \in Seq(Seq(S)) /\ DOMAIN ss = 1..last + 1 /\ ss[here] = FlattenSeq(At(here))
  <2>1. ASSUME NEW i \in 1..last + 1  PROVE FlattenSeq(At(i)) \in Seq(S)
    <3> HIDE DEF At
    <3> QED  BY <1>2, FlattenType
  <2> HIDE DEF At, here
  <2> QED  BY <1>1, <1>3, <2>1
<1>7. ByTick(s) = FlattenSeq(ss)  BY DEF ByTick, Where, last
<1> HIDE DEF ss
<1>8. PICK m \in DOMAIN ss[here] : ss[here][m] = s[k]
  <2> HIDE DEF At, here
  <2> QED  BY <1>4, <1>5, <1>6
<1>9. \E q \in DOMAIN FlattenSeq(ss) : FlattenSeq(ss)[q] = ss[here][m]
  <2>1. here \in DOMAIN ss /\ ss \in Seq(Seq(S)) /\ m \in DOMAIN ss[here]  BY <1>3, <1>6, <1>8
  <2> HIDE DEF here, At
  <2> QED  BY <2>1, FlattenHas
<1> QED  BY <1>7, <1>8, <1>9

LEMMA FirstType ==
    ASSUME NEW S, NEW s \in Seq(S), \A e \in S : e.tick \in Int, NEW tick \in Nat,
           NEW k \in DOMAIN s, s[k].tick = tick
    PROVE  FirstAt(ByTick(s), tick) \in Nat
<1> DEFINE r == ByTick(s)
           N == {m \in DOMAIN r : r[m].tick = tick}
<1>1. r \in Seq(S)  BY SortedType
<1>2. PICK m \in DOMAIN r : r[m] = s[k]
  <2>1. s[k].tick >= 0  OBVIOUS
  <2> HIDE DEF r
  <2> QED  BY <2>1, SortedHas DEF r
<1> HIDE DEF r
<1>3. m \in N  BY <1>2
<1>4. N \in SUBSET Nat /\ N # {}  BY <1>1, <1>3
<1>5. FirstAt(r, tick) = Min(N)  BY DEF FirstAt
<1> HIDE DEF N
<1>6. Min(N) \in N  BY <1>4, MinIsLeast
<1> QED  BY <1>4, <1>5, <1>6 DEF r

TempoSet  == [tick : Nat]
MarkerSet == [tick : Nat, name : Nat]

\* Other tempo points and markers lead on from a song.
LEMMA PointsFit ==
    ASSUME NEW b \in Nat, NEW w, WorldOk(w, b), NEW tempo \in Seq(TempoSet),
           NEW markers \in Seq(MarkerSet),
           NEW s, s = [tracks |-> w.song.tracks, tempo |-> tempo, markers |-> markers],
           NEW v, v = [w EXCEPT !.song = s]
    PROVE  Leads(w, v, b)
<1>1. SongOk(w.song, Len(w.heap), b)  BY DEF WorldOk
<1>2. w.song.tracks \in Seq(TrackSet(Len(w.heap))) /\ IdsDiffer(w.song, b)
  BY <1>1, TracksType DEF SongOk
<1>3. s \in SongSet(Len(w.heap))  BY <1>2 DEF SongSet, TempoSet, MarkerSet
<1>4. s.tracks = w.song.tracks  OBVIOUS
<1>5. SongOk(s, Len(w.heap), b)  BY <1>2, <1>3, <1>4 DEF SongOk, IdsDiffer
<1>6. b =< b  OBVIOUS
<1>7. WorldOk([w EXCEPT !.song = s], b)  BY <1>5, <1>6, SongPut
<1>8. v.song = s /\ v.heap = w.heap  BY <1>5, <1>6, SongPut
<1>9. Grows(w.heap, v.heap)  BY <1>8, WorldType, GrowsNot
<1> QED  BY <1>4, <1>7, <1>8, <1>9 DEF Leads, SameTracks

LEMMA TempoFits ==
    ASSUME NEW b \in Nat, NEW w, WorldOk(w, b), NEW tempo \in Seq(TempoSet),
           NEW v, v = [w EXCEPT !.song.tempo = tempo]
    PROVE  Leads(w, v, b)
<1> DEFINE s == [w.song EXCEPT !.tempo = tempo]
<1>1. w.song \in SongSet(Len(w.heap))  BY WorldType
<1>2. /\ w.song = [tracks |-> w.song.tracks, tempo |-> w.song.tempo, markers |-> w.song.markers]
      /\ w.song.markers \in Seq(MarkerSet)
  BY <1>1, TracksType DEF MarkerSet
<1>3. s = [tracks |-> w.song.tracks, tempo |-> tempo, markers |-> w.song.markers]  BY <1>2
<1>4. v = [w EXCEPT !.song = s]  OBVIOUS
<1> HIDE DEF s
<1> QED  BY <1>2, <1>3, <1>4, PointsFit

LEMMA MarkersFit ==
    ASSUME NEW b \in Nat, NEW w, WorldOk(w, b), NEW markers \in Seq(MarkerSet),
           NEW v, v = [w EXCEPT !.song.markers = markers]
    PROVE  Leads(w, v, b)
<1> DEFINE s == [w.song EXCEPT !.markers = markers]
<1>1. w.song \in SongSet(Len(w.heap))  BY WorldType
<1>2. /\ w.song = [tracks |-> w.song.tracks, tempo |-> w.song.tempo, markers |-> w.song.markers]
      /\ w.song.tempo \in Seq(TempoSet)
  BY <1>1, TracksType DEF TempoSet
<1>3. s = [tracks |-> w.song.tracks, tempo |-> w.song.tempo, markers |-> markers]  BY <1>2
<1>4. v = [w EXCEPT !.song = s]  OBVIOUS
<1> HIDE DEF s
<1> QED  BY <1>2, <1>3, <1>4, PointsFit

\* The song as the commands on points find it.
LEMMA PointsHere ==
    ASSUME IInv, NEW v, v = Copied(Now)
    PROVE  /\ born \in Nat /\ WorldOk(v, born) /\ v.song = song /\ v.heap = heap
           /\ song.tempo \in Seq(TempoSet) /\ song.markers \in Seq(MarkerSet)
           /\ sel \in SelSet /\ held \in HeldSet /\ WorldOk(Now, born) /\ Now.song = song
           /\ Leads(Now, v, born)
<1>1. song \in SongSet(Len(heap))  BY NowFits
<1>2. song.tempo \in Seq(TempoSet) /\ song.markers \in Seq(MarkerSet)
  BY <1>1, TracksType DEF TempoSet, MarkerSet
<1> QED  BY <1>2, NowFits DEF IInv, EditorOk, Leads

LEMMA TickOfPoint == (\A e \in TempoSet : e.tick \in Int) /\ (\A e \in MarkerSet : e.tick \in Int)
BY DEF TempoSet, MarkerSet

LEMMA AddTempoOk ==
    ASSUME IInv, NEW tick \in Places, AddTempo(tick)
    PROVE  IInv'
<1> DEFINE v == Copied(Now)
           s == Append(song.tempo, [tick |-> tick])
           w == [v EXCEPT !.song.tempo = ByTick(s)]
<1>1. born \in Nat /\ WorldOk(v, born) /\ v.song = song /\ song.tempo \in Seq(TempoSet)
      /\ sel \in SelSet /\ held \in HeldSet
  BY PointsHere
<1>2. Becomes([v EXCEPT !.song.tempo = ByTick(Append(v.song.tempo, [tick |-> tick]))])
      /\ UNCHANGED <<Rest, held, sel>>
  BY DEF AddTempo
<1> HIDE DEF v
<1>3. Becomes(w)  BY <1>1, <1>2
<1>4. s \in Seq(TempoSet)
  <2>1. [tick |-> tick] \in TempoSet  BY TickType DEF TempoSet
  <2> QED  BY <1>1, <2>1
<1> HIDE DEF s
<1>5. ByTick(s) \in Seq(TempoSet)  BY <1>4, SortedType, TickOfPoint
<1>6. Leads(v, w, born)  BY <1>1, <1>5, TempoFits
<1> HIDE DEF w
<1> QED  BY <1>1, <1>2, <1>3, <1>6, CommandOk DEF v

LEMMA AddMarkerOk ==
    ASSUME IInv, NEW tick \in Places, AddMarker(tick)
    PROVE  IInv'
<1> DEFINE v == Copied(Now)
           s == Append(song.markers, [tick |-> tick, name |-> Len(song.markers) + 1])
           w == [v EXCEPT !.song.markers = ByTick(s)]
<1>1. born \in Nat /\ WorldOk(v, born) /\ v.song = song /\ song.markers \in Seq(MarkerSet)
      /\ sel \in SelSet /\ held \in HeldSet
  BY PointsHere
<1>2. Becomes([v EXCEPT !.song.markers =
                  ByTick(Append(v.song.markers, [tick |-> tick, name |-> Len(v.song.markers) + 1]))])
      /\ UNCHANGED <<Rest, held, sel>>
  BY DEF AddMarker
<1> HIDE DEF v
<1>3. Becomes(w)  BY <1>1, <1>2
<1>4. s \in Seq(MarkerSet)
  <2>1. [tick |-> tick, name |-> Len(song.markers) + 1] \in MarkerSet
    <3>1. Len(song.markers) + 1 \in Nat  BY <1>1
    <3> QED  BY <3>1, TickType DEF MarkerSet
  <2> QED  BY <1>1, <2>1
<1> HIDE DEF s
<1>5. ByTick(s) \in Seq(MarkerSet)  BY <1>4, SortedType, TickOfPoint
<1>6. Leads(v, w, born)  BY <1>1, <1>5, MarkersFit
<1> HIDE DEF w
<1> QED  BY <1>1, <1>2, <1>3, <1>6, CommandOk DEF v

LEMMA MoveTempoOk ==
    ASSUME IInv, NEW k, NEW tick \in Places, MoveTempo(k, tick)
    PROVE  IInv'
<1> DEFINE v == Copied(Now)
           s == [song.tempo EXCEPT ![k].tick = tick]
           w == [v EXCEPT !.song.tempo = ByTick(s)]
<1>1. /\ born \in Nat /\ WorldOk(v, born) /\ song.tempo \in Seq(TempoSet)
      /\ sel \in SelSet /\ held \in HeldSet
  BY PointsHere
<1>2. /\ k \in DOMAIN song.tempo /\ Becomes(w) /\ UNCHANGED <<Rest, held>>
      /\ sel' = [sel EXCEPT !.tempo = FirstAt(ByTick(s), tick)]
  BY DEF MoveTempo
<1> HIDE DEF v
<1>3. s \in Seq(TempoSet) /\ k \in DOMAIN s /\ s[k].tick = tick
  <2> DEFINE e == song.tempo[k]
             x == [e EXCEPT !.tick = tick]
  <2>1. e \in TempoSet /\ tick \in Nat  BY <1>1, <1>2, TickType
  <2>2. s = [song.tempo EXCEPT ![k] = x]  OBVIOUS
  <2> HIDE DEF e, s
  <2>3. x \in TempoSet /\ x.tick = tick  BY <2>1 DEF TempoSet
  <2> HIDE DEF x
  <2> QED  BY <1>1, <1>2, <2>2, <2>3
<1> HIDE DEF s
<1>4. ByTick(s) \in Seq(TempoSet)  BY <1>3, SortedType, TickOfPoint
<1>5. FirstAt(ByTick(s), tick) \in Nat  BY <1>3, FirstType, TickOfPoint, TickType
<1>6. Leads(v, w, born)  BY <1>1, <1>4, TempoFits
<1> HIDE DEF w
<1>7. sel' \in SelSet  BY <1>1, <1>2, <1>5 DEF SelSet
<1> QED  BY <1>1, <1>2, <1>6, <1>7, CommandOk DEF v

LEMMA MoveMarkerOk ==
    ASSUME IInv, NEW k, NEW tick \in Places, MoveMarker(k, tick)
    PROVE  IInv'
<1> DEFINE v == IF tick = song.markers[k].tick THEN Now ELSE Copied(Now)
           s == [song.markers EXCEPT ![k].tick = tick]
           w == [v EXCEPT !.song.markers = ByTick(s)]
<1>1. /\ born \in Nat /\ WorldOk(v, born) /\ song.markers \in Seq(MarkerSet)
      /\ sel \in SelSet /\ held \in HeldSet /\ Leads(Now, v, born)
  <2>1. Leads(Now, Now, born) /\ Leads(Now, Copied(Now), born)  BY NowFits
  <2> QED  BY <2>1, PointsHere DEF Leads
<1>2. /\ k \in DOMAIN song.markers /\ Becomes(w) /\ UNCHANGED <<Rest, held>>
      /\ sel' = [sel EXCEPT !.marker = FirstAt(ByTick(s), tick)]
  BY DEF MoveMarker
<1> HIDE DEF v
<1>3. s \in Seq(MarkerSet) /\ k \in DOMAIN s /\ s[k].tick = tick
  <2> DEFINE e == song.markers[k]
             x == [e EXCEPT !.tick = tick]
  <2>1. e \in MarkerSet /\ tick \in Nat  BY <1>1, <1>2, TickType
  <2>2. s = [song.markers EXCEPT ![k] = x]  OBVIOUS
  <2> HIDE DEF e, s
  <2>3. x \in MarkerSet /\ x.tick = tick  BY <2>1 DEF MarkerSet
  <2> HIDE DEF x
  <2> QED  BY <1>1, <1>2, <2>2, <2>3
<1> HIDE DEF s
<1>4. ByTick(s) \in Seq(MarkerSet)  BY <1>3, SortedType, TickOfPoint
<1>5. FirstAt(ByTick(s), tick) \in Nat  BY <1>3, FirstType, TickOfPoint, TickType
<1>6. Leads(v, w, born)  BY <1>1, <1>4, MarkersFit
<1> HIDE DEF w
<1>7. sel' \in SelSet  BY <1>1, <1>2, <1>5 DEF SelSet
<1>8. Leads(Now, w, born)  BY <1>1, <1>6, Onward
<1>9. CopiesOk'  BY <1>2, <1>8, LeadsFits DEF Rest
<1>10. EditorOk'  BY <1>1, <1>2, <1>7, EditorKept DEF Rest
<1> QED  BY <1>9, <1>10 DEF IInv

LEMMA RemoveTempoOk ==
    ASSUME IInv, NEW k, RemoveTempo(k)
    PROVE  IInv'
<1> DEFINE v == Copied(Now)
           s == RemoveAt(song.tempo, k)
           w == [v EXCEPT !.song.tempo = s]
<1>1. born \in Nat /\ WorldOk(v, born) /\ v.song = song /\ song.tempo \in Seq(TempoSet)
      /\ sel \in SelSet /\ held \in HeldSet
  BY PointsHere
<1>2. /\ k \in DOMAIN song.tempo /\ Becomes([v EXCEPT !.song.tempo = RemoveAt(v.song.tempo, k)])
      /\ sel' = [sel EXCEPT !.tempo = 0] /\ UNCHANGED <<Rest, held>>
  BY DEF RemoveTempo
<1> HIDE DEF v
<1>3. Becomes(w)  BY <1>1, <1>2
<1>4. s \in Seq(TempoSet)
  <2>1. k \in 1..Len(song.tempo)  BY <1>1, <1>2
  <2> QED  BY <1>1, <2>1, RemoveAtIs
<1> HIDE DEF s
<1>5. Leads(v, w, born)  BY <1>1, <1>4, TempoFits
<1> HIDE DEF w
<1>6. sel' \in SelSet  BY <1>1, <1>2 DEF SelSet
<1> QED  BY <1>1, <1>2, <1>3, <1>5, <1>6, CommandOk DEF v

LEMMA RemoveMarkerOk ==
    ASSUME IInv, NEW k, RemoveMarker(k)
    PROVE  IInv'
<1> DEFINE v == Copied(Now)
           s == RemoveAt(song.markers, k)
           w == [v EXCEPT !.song.markers = s]
<1>1. born \in Nat /\ WorldOk(v, born) /\ v.song = song /\ song.markers \in Seq(MarkerSet)
      /\ sel \in SelSet /\ held \in HeldSet
  BY PointsHere
<1>2. /\ k \in DOMAIN song.markers /\ Becomes([v EXCEPT !.song.markers = RemoveAt(v.song.markers, k)])
      /\ sel' = [sel EXCEPT !.marker = 0] /\ UNCHANGED <<Rest, held>>
  BY DEF RemoveMarker
<1> HIDE DEF v
<1>3. Becomes(w)  BY <1>1, <1>2
<1>4. s \in Seq(MarkerSet)
  <2>1. k \in 1..Len(song.markers)  BY <1>1, <1>2
  <2> QED  BY <1>1, <2>1, RemoveAtIs
<1> HIDE DEF s
<1>5. Leads(v, w, born)  BY <1>1, <1>4, MarkersFit
<1> HIDE DEF w
<1>6. sel' \in SelSet  BY <1>1, <1>2 DEF SelSet
<1> QED  BY <1>1, <1>2, <1>3, <1>5, <1>6, CommandOk DEF v

PointSet == [tick : Nat, value : Nat]

LEMMA AutoType ==
    ASSUME NEW n, NEW t \in TrackSet(n), NEW a \in Seq(PointSet)
    PROVE  [t EXCEPT !.volAuto = a] \in TrackSet(n) /\ [t EXCEPT !.volAuto = a].id = t.id
           /\ [t EXCEPT !.volAuto = a].audio = t.audio
BY DEF TrackSet, PointSet

\* Another curve for a track leads on from a song.
LEMMA CurveFits ==
    ASSUME IInv, NEW t \in Tracks, NEW a \in Seq(PointSet), NEW v, v = Copied(Now),
           NEW w, w = [v EXCEPT !.song.tracks[t].volAuto = a]
    PROVE  Leads(v, w, born)
<1> DEFINE n == Len(v.heap)
           x == [v.song.tracks[t] EXCEPT !.volAuto = a]
<1>1. born \in Nat /\ WorldOk(v, born)  BY PointsHere
<1>2. t \in DOMAIN v.song.tracks  BY TrackIndex
<1>3. x \in TrackSet(n) /\ x.id = v.song.tracks[t].id
  <2> DEFINE z == v.song.tracks[t]
  <2>1. z \in TrackSet(n)  BY <1>1, <1>2, WorldType
  <2> HIDE DEF z, n
  <2> QED  BY <2>1, AutoType DEF z
<1>4. w = InTrack(v, t, x)  BY DEF InTrack
<1> HIDE DEF x, n
<1>5. x \in TrackSet(Len(v.heap))  BY <1>3 DEF n
<1>6. Leads(v, InTrack(v, t, x), born)  BY <1>1, <1>2, <1>3, <1>5, InTrackFits
<1> QED  BY <1>4, <1>6

LEMMA DrawAutomationOk ==
    ASSUME IInv, NEW t, NEW tick \in Places, NEW value \in Gains, DrawAutomation(t, tick, value)
    PROVE  IInv'
<1> DEFINE v == Copied(Now)
           l == v.song.tracks[t].volAuto
           f == [k \in DOMAIN l |-> IF l[k].tick # tick THEN <<l[k]>> ELSE <<>>]
           s == Append(FlattenSeq(f), [tick |-> tick, value |-> value])
           a == ByTick(s)
           w == [v EXCEPT !.song.tracks[t].volAuto = a]
<1>1. /\ t \in Tracks /\ Becomes(w) /\ sel' = [sel EXCEPT !.track = t] /\ UNCHANGED <<Rest, held>>
  BY DEF DrawAutomation, Where
<1>2. WorldOk(v, born) /\ sel \in SelSet /\ held \in HeldSet  BY PointsHere
<1>3. t \in Nat \ {0} /\ t \in DOMAIN v.song.tracks  BY <1>1, TrackIndex
<1>4. l \in Seq(PointSet)
  <2> DEFINE z == v.song.tracks[t]
             n == Len(v.heap)
  <2>1. z \in TrackSet(n)  BY <1>2, <1>3, WorldType
  <2> HIDE DEF z, n
  <2> QED  BY <2>1, TrackType DEF z, PointSet
<1> HIDE DEF l
<1>5. FlattenSeq(f) \in Seq(PointSet)
  <2> DEFINE n == Len(l)
             P == PointSet
  <2>1. n \in Nat /\ f = [k \in 1..n |-> f[k]]  BY <1>4
  <2>2. ASSUME NEW k \in 1..n  PROVE f[k] \in Seq(P)
    <3>1. l[k] \in P /\ f[k] = IF l[k].tick # tick THEN <<l[k]>> ELSE <<>>  BY <1>4
    <3> HIDE DEF f, P
    <3>2. <<l[k]>> \in Seq(P) /\ <<>> \in Seq(P)  BY <3>1
    <3> QED  BY <3>1, <3>2
  <2> HIDE DEF f, P, n
  <2>3. FlattenSeq(f) \in Seq(P)  BY <2>1, <2>2, PickedType
  <2> QED  BY <2>3 DEF P
<1> HIDE DEF f
<1>6. s \in Seq(PointSet)
  <2>1. [tick |-> tick, value |-> value] \in PointSet
    BY TickType, ArrangerAssumption DEF ArrangerAssumption, PointSet
  <2> QED  BY <1>5, <2>1
<1> HIDE DEF s
<1>7. a \in Seq(PointSet)
  <2>1. \A e \in PointSet : e.tick \in Int  BY DEF PointSet
  <2> QED  BY <1>6, <2>1, SortedType
<1> HIDE DEF a
<1>8. Leads(v, w, born)  BY <1>1, <1>7, CurveFits
<1> HIDE DEF w
<1>9. sel' \in SelSet  BY <1>1, <1>2, <1>3, SelType
<1> QED  BY <1>1, <1>2, <1>8, <1>9, CommandOk

LEMMA ClearAutomationOk ==
    ASSUME IInv, NEW t, ClearAutomation(t)
    PROVE  IInv'
<1> DEFINE v == Copied(Now)
           a == <<>>
           w == [v EXCEPT !.song.tracks[t].volAuto = a]
<1>1. t \in Tracks /\ Becomes(w) /\ UNCHANGED <<Rest, held, sel>>  BY DEF ClearAutomation
<1>2. sel \in SelSet /\ held \in HeldSet  BY PointsHere
<1>3. a \in Seq(PointSet)  OBVIOUS
<1> HIDE DEF a
<1>4. Leads(v, w, born)  BY <1>1, <1>3, CurveFits
<1> HIDE DEF w
<1> QED  BY <1>1, <1>2, <1>4, CommandOk

\* Delete over a MIDI clip: the clip goes with its notes.
LEMMA DeleteMidiClipOk ==
    ASSUME IInv, NEW t \in Tracks, NEW i \in DOMAIN song.tracks[t].clips,
           NEW x, x = [EraseClip(song.tracks[t], song.tracks[t].clips[i]) EXCEPT !.clips = RemoveAt(@, i)],
           Becomes(InTrack(Copied(Now), t, x)),
           sel' = [sel EXCEPT !.midi = NoPair], UNCHANGED <<Rest, held>>
    PROVE  IInv'
<1> DEFINE v == Copied(Now)
           w == InTrack(v, t, x)
<1>1. born \in Nat /\ WorldOk(v, born) /\ v.song = song /\ v.heap = heap /\ sel \in SelSet /\ held \in HeldSet
  BY PointsHere
<1>2. t \in DOMAIN v.song.tracks /\ song.tracks[t] \in TrackSet(Len(heap))  BY TrackIndex
<1>3. x \in TrackSet(Len(v.heap)) /\ x.id = v.song.tracks[t].id
  <2> DEFINE z == song.tracks[t]
             n == Len(heap)
  <2>1. z \in TrackSet(n) /\ i \in DOMAIN z.clips
        /\ x = Erased(z, i)
    BY <1>2 DEF Erased
  <2> HIDE DEF z, n
  <2>2. x \in TrackSet(n) /\ x.id = z.id  BY <2>1, ErasedType, ZenonT(40)
  <2> QED  BY <1>1, <2>2 DEF z, n
<1> HIDE DEF v
<1>4. Leads(v, w, born)  BY <1>1, <1>2, <1>3, InTrackFits
<1> HIDE DEF w
<1>5. sel' \in SelSet  BY <1>1 DEF SelSet, NoPair, Pairs
<1> QED  BY <1>1, <1>4, <1>5, CommandOk DEF v, w

LEMMA DeleteKeyOk ==
    ASSUME IInv, DeleteKey
    PROVE  IInv'
<1>1. CASE HasRange
  <2>1. DeleteClipRange(FALSE) \/ DeleteClipRange(TRUE)  BY <1>1 DEF DeleteKey
  <2> QED  BY <2>1, DeleteClipRangeOk
<1>2. CASE ~HasRange /\ sel.marker \in DOMAIN song.markers
  <2>1. RemoveMarker(sel.marker)  BY <1>2 DEF DeleteKey
  <2> QED  BY <2>1, RemoveMarkerOk
<1>3. CASE ~HasRange /\ sel.marker \notin DOMAIN song.markers /\ sel.tempo \in DOMAIN song.tempo
  <2>1. RemoveTempo(sel.tempo)  BY <1>3 DEF DeleteKey
  <2> QED  BY <2>1, RemoveTempoOk
<1>4. CASE ~HasRange /\ sel.marker \notin DOMAIN song.markers /\ sel.tempo \notin DOMAIN song.tempo
  <2> DEFINE t == sel.midi[1]  i == sel.midi[2]
             last == Len(song.tracks[sel.track].audio)
             x == [EraseClip(song.tracks[t], song.tracks[t].clips[i]) EXCEPT !.clips = RemoveAt(@, i)]
  <2>1. CASE t \in Tracks /\ i \in DOMAIN song.tracks[t].clips
    <3>1. /\ Becomes(InTrack(Copied(Now), t, x))
          /\ sel' = [sel EXCEPT !.midi = NoPair] /\ UNCHANGED <<Rest, held>>
      BY <1>4, <2>1 DEF DeleteKey
    <3> HIDE DEF t, i
    <3> QED  BY <2>1, <3>1, DeleteMidiClipOk
  <2>2. CASE ~(t \in Tracks /\ i \in DOMAIN song.tracks[t].clips) /\ IsClip(sel.clip)
    <3> DEFINE v == Copied(Now)
               a == sel.clip[1]  b == sel.clip[2]
               w == Dropped(v, a, b)
    <3>1. /\ Becomes(w) /\ sel' = [Forgotten(sel) EXCEPT !.clip = NoPair] /\ UNCHANGED <<Rest, held>>
      BY <1>4, <2>2 DEF DeleteKey
    <3>2. IsClip(<<a, b>>)  BY <2>2 DEF IsClip
    <3> HIDE DEF a, b
    <3>3. /\ born \in Nat /\ WorldOk(v, born) /\ a \in DOMAIN v.song.tracks
          /\ b \in DOMAIN v.song.tracks[a].audio /\ sel \in SelSet /\ held \in HeldSet
      BY <3>2, CopyOfClip
    <3>4. Leads(v, w, born)  BY <3>3, DroppedFits
    <3> HIDE DEF w
    <3>5. sel' \in SelSet
      <4> DEFINE s == Forgotten(sel)
      <4>1. s \in SelSet  BY <3>3, SelType
      <4>2. sel' = [s EXCEPT !.clip = NoPair]  BY <3>1
      <4> HIDE DEF s
      <4> QED  BY <4>1, <4>2 DEF SelSet, NoPair, Pairs
    <3> QED  BY <3>1, <3>3, <3>4, <3>5, CommandOk
  <2>3. CASE ~(t \in Tracks /\ i \in DOMAIN song.tracks[t].clips) /\ ~IsClip(sel.clip)
    <3>1. DeleteTrackClip(sel.track, last)  BY <1>4, <2>3 DEF DeleteKey
    <3> HIDE DEF last
    <3> QED  BY <3>1, DeleteTrackClipOk
  <2> QED  BY <2>1, <2>2, <2>3
<1> QED  BY <1>1, <1>2, <1>3, <1>4

-----------------------------------------------------------------------------
(* Sections. *)

LEMMA ContentType ==
    ASSUME IInv
    PROVE  ContentTicks \in Nat
<1> DEFINE ids == ObjectsOf(song)
           n == Len(song.tracks)
           m == Len(ids)
           f == [t \in 1..n |-> LengthTicks(song.tracks[t])]
           g == [k \in 1..m |-> EndTick(heap[ids[k]])]
           N == {0} \cup {LengthTicks(song.tracks[t]) : t \in Tracks}
                    \cup {EndTick(heap[ids[k]]) : k \in DOMAIN ids}
<1>1. song.tracks \in Seq(TrackSet(Len(heap))) /\ song \in SongSet(Len(heap))
      /\ heap \in Seq(ClipSet) /\ Len(heap) \in Nat
  BY NowFits
<1>2. ids \in Seq(1..Len(heap))  BY <1>1, ObjectsType
<1> HIDE DEF ids
<1>3. n \in Nat /\ m \in Nat /\ Tracks = 1..n /\ DOMAIN ids = 1..m  BY <1>1, <1>2 DEF Tracks
<1>4. \A t \in 1..n : LengthTicks(song.tracks[t]) \in Nat
  <2>1. \A t \in 1..n : song.tracks[t].events \in Seq(EventSet)  BY <1>1, TrackType
  <2> QED  BY <2>1, LengthType
<1>5. \A k \in 1..m : EndTick(heap[ids[k]]) \in Nat
  <2>1. \A k \in 1..m : heap[ids[k]] \in ClipSet  BY <1>1, <1>2
  <2> QED  BY <2>1, PlayType
<1>6. PICK a \in Nat : \A t \in 1..n : f[t] =< a
  <2>1. DOMAIN f = 1..n /\ \A t \in 1..n : f[t] \in Int  BY <1>4
  <2> HIDE DEF f, n
  <2> QED  BY <1>3, <2>1, BoundExists
<1>7. PICK b \in Nat : \A k \in 1..m : g[k] =< b
  <2>1. DOMAIN g = 1..m /\ \A k \in 1..m : g[k] \in Int  BY <1>5
  <2> HIDE DEF g, m
  <2> QED  BY <1>3, <2>1, BoundExists
<1>8. N \in SUBSET Nat /\ 0 \in N  BY <1>3, <1>4, <1>5
<1>9. \A x \in N : x =< a + b
  <2>1. ASSUME NEW x \in N  PROVE x =< a + b
    <3>1. CASE x = 0
      BY <3>1
    <3>2. ASSUME NEW t \in 1..n, x = LengthTicks(song.tracks[t])  PROVE x =< a + b
      <4>1. x = f[t] /\ x \in Nat  BY <1>4, <3>2
      <4> HIDE DEF f, n
      <4> QED  BY <1>6, <4>1
    <3>3. ASSUME NEW k \in 1..m, x = EndTick(heap[ids[k]])  PROVE x =< a + b
      <4>1. x = g[k] /\ x \in Nat  BY <1>5, <3>3
      <4> HIDE DEF g, m
      <4> QED  BY <1>7, <4>1
    <3> QED  BY <1>3, <3>1, <3>2, <3>3
  <2> QED  BY <2>1
<1>10. ContentTicks = Max(N)  BY DEF ContentTicks, ids
<1> HIDE DEF N
<1>11. N \in SUBSET Int /\ N # {} /\ a + b \in Int  BY <1>8
<1>12. Max(N) \in N  BY <1>9, <1>11, MaxIsGreatest
<1> QED  BY <1>8, <1>10, <1>12

SpanOf     == [a : Nat, b : Nat]
SectionSet == {s \in SpanOf : s.a < s.b}

LEMMA SectionsType ==
    ASSUME IInv, song.markers # <<>>
    PROVE  BuildSections \in Seq(SectionSet)
<1> DEFINE ms   == song.markers
           n    == Len(ms)
           last == ms[n].tick
           used == IF ContentTicks =< last THEN last + 4 * BarTicks ELSE ContentTicks
           end  == ((used + BarTicks - 1) \div BarTicks) * BarTicks
           all  == [k \in DOMAIN ms |-> [a |-> ms[k].tick, b |-> IF k < n THEN ms[k + 1].tick ELSE end]]
           f    == [k \in DOMAIN all |-> IF all[k].b > all[k].a THEN <<all[k]>> ELSE <<>>]
           S    == SectionSet
<1>1. ms \in Seq(MarkerSet)  BY PointsHere
<1>2. n \in Nat /\ n # 0 /\ DOMAIN ms = 1..n  BY <1>1
<1>3. \A k \in 1..n : ms[k].tick \in Nat
  <2>1. \A e \in MarkerSet : e.tick \in Nat  BY DEF MarkerSet
  <2> QED  BY <1>1, <2>1
<1>4. end \in Nat
  <2>1. BarTicks \in Nat /\ BarTicks > 0  BY ArrangerAssumption DEF ArrangerAssumption
  <2>2. last \in Nat  BY <1>2, <1>3
  <2> HIDE DEF last
  <2>3. used \in Nat  BY <2>1, <2>2, ContentType
  <2> HIDE DEF used
  <2> DEFINE x == used + BarTicks - 1
  <2>4. x \in Nat  BY <2>1, <2>3
  <2> HIDE DEF x
  <2>5. x \div BarTicks \in Nat  BY <2>1, <2>4
  <2> DEFINE y == x \div BarTicks
  <2>6. y * BarTicks \in Nat
    <3> HIDE DEF y
    <3> QED  BY <2>1, <2>5 DEF y
  <2> QED  BY <2>6 DEF x
<1> HIDE DEF end, ms, n
<1>5. BuildSections = FlattenSeq(f)  BY DEF BuildSections, Where, end, ms, n
<1>6. ASSUME NEW k \in 1..n  PROVE f[k] \in Seq(S)
  <2> DEFINE x == IF k < n THEN ms[k + 1].tick ELSE end
             s == [a |-> ms[k].tick, b |-> x]
  <2>1. x \in Nat
    <3>1. k < n => k + 1 \in 1..n  BY <1>2
    <3> QED  BY <1>3, <1>4, <3>1
  <2>2. f[k] = IF s.b > s.a THEN <<s>> ELSE <<>>  BY <1>2
  <2> HIDE DEF x, f
  <2>3. s.b > s.a => s \in S  BY <1>3, <2>1 DEF SectionSet, SpanOf
  <2> HIDE DEF s, S
  <2>4. s \in S => <<s>> \in Seq(S)  OBVIOUS
  <2>5. <<>> \in Seq(S)  OBVIOUS
  <2> QED  BY <2>2, <2>3, <2>4, <2>5
<1>7. f = [k \in 1..n |-> f[k]]  BY <1>2
<1> HIDE DEF f, S
<1>8. FlattenSeq(f) \in Seq(S)  BY <1>2, <1>6, <1>7, PickedType
<1> QED  BY <1>5, <1>8 DEF S

PlanSet == {p \in [sec : SpanOf, to : Nat] : p.sec.a =< p.sec.b}
PutStep(secs, acc, k) ==
    Append(acc, [sec |-> secs[k],
                 to |-> IF acc = <<>> THEN secs[1].a
                        ELSE LET p == acc[Len(acc)] IN p.to + p.sec.b - p.sec.a])
IsPlan(p, i, acc) == acc \in Seq(PlanSet)
Planning == INSTANCE Recursion WITH Op <- PutStep, Inv <- IsPlan

LEMMA PlanType ==
    ASSUME NEW secs \in Seq(SectionSet), secs # <<>>, NEW order \in Seq(DOMAIN secs)
    PROVE  /\ Plan(secs, order) \in Seq(PlanSet) /\ Tail(Plan(secs, order)) \in Seq(PlanSet)
<1> DEFINE rest == Planning!Fold(secs, <<>>, order)
           first == [sec |-> [a |-> 0, b |-> secs[1].a], to |-> 0]
           n == Len(order)
<1>1. \A k \in DOMAIN secs : /\ secs[k] \in SpanOf /\ secs[k].a \in Nat /\ secs[k].b \in Nat
                             /\ secs[k].a =< secs[k].b
  <2>1. \A k \in DOMAIN secs : secs[k] \in SectionSet  OBVIOUS
  <2> QED  BY <2>1 DEF SectionSet, SpanOf
<1>2. 1 \in DOMAIN secs  OBVIOUS
<1>3. first \in PlanSet  BY <1>1, <1>2 DEF PlanSet, SpanOf
<1>4. IsPlan(secs, 0, <<>>)  BY DEF IsPlan
<1>5. ASSUME NEW i \in 1..n, NEW acc, IsPlan(secs, i - 1, acc)
      PROVE  IsPlan(secs, i, PutStep(secs, acc, order[i]))
  <2> DEFINE k == order[i]
             p == acc[Len(acc)]
             to == IF acc = <<>> THEN secs[1].a ELSE p.to + p.sec.b - p.sec.a
  <2>1. k \in DOMAIN secs /\ acc \in Seq(PlanSet)  BY <1>5 DEF IsPlan
  <2>2. to \in Nat
    <3>1. CASE acc = <<>>
      BY <1>1, <1>2, <3>1
    <3>2. CASE acc # <<>>
      <4>1. p \in PlanSet  BY <2>1, <3>2
      <4> HIDE DEF p
      <4>2. p.to \in Nat /\ p.sec \in SpanOf /\ p.sec.a =< p.sec.b  BY <4>1 DEF PlanSet
      <4>3. p.sec.a \in Nat /\ p.sec.b \in Nat  BY <4>2 DEF SpanOf
      <4> QED  BY <3>2, <4>2, <4>3
    <3> QED  BY <3>1, <3>2
  <2>3. PutStep(secs, acc, k) = Append(acc, [sec |-> secs[k], to |-> to])  BY DEF PutStep
  <2> HIDE DEF k, to
  <2>4. [sec |-> secs[k], to |-> to] \in PlanSet  BY <1>1, <2>1, <2>2 DEF PlanSet
  <2> QED  BY <2>1, <2>3, <2>4 DEF IsPlan, k
<1>6. n \in Nat /\ DOMAIN order = 1..n  OBVIOUS
<1>7. IsPlan(secs, n, rest)
  <2> HIDE DEF n, rest
  <2> QED  BY <1>4, <1>5, <1>6, Planning!FoldInv DEF rest
<1>8. Plan(secs, order) = <<first>> \o rest
  BY DEF Plan, PutStep, FoldLeft, MapThenFoldSet, Planning!Fold, Planning!Last, Max
<1> HIDE DEF rest, first
<1>9. rest \in Seq(PlanSet)  BY <1>7 DEF IsPlan
<1>10. <<first>> \o rest \in Seq(PlanSet) /\ <<first>> \o rest # <<>>  BY <1>3, <1>9
<1> QED  BY <1>8, <1>10

\* What lies in a section, and what is put elsewhere.
LEMMA PartType ==
    ASSUME NEW S, NEW s \in Seq(S), NEW sec
    PROVE  PartOf(s, sec) \in Seq({e \in S : Lies(e.tick, sec)})
<1> DEFINE T == {e \in S : Lies(e.tick, sec)}
           f == [k \in DOMAIN s |-> IF Lies(s[k].tick, sec) THEN <<s[k]>> ELSE <<>>]
           n == Len(s)
<1>1. n \in Nat /\ f = [k \in 1..n |-> f[k]]  OBVIOUS
<1>2. ASSUME NEW k \in 1..n  PROVE f[k] \in Seq(T)
  <2>1. s[k] \in S /\ f[k] = IF Lies(s[k].tick, sec) THEN <<s[k]>> ELSE <<>>  OBVIOUS
  <2>2. Lies(s[k].tick, sec) => s[k] \in T  BY <2>1
  <2> HIDE DEF f, T
  <2>3. (s[k] \in T => <<s[k]>> \in Seq(T)) /\ <<>> \in Seq(T)  OBVIOUS
  <2> QED  BY <2>1, <2>2, <2>3
<1>3. PartOf(s, sec) = FlattenSeq(f)  BY DEF PartOf, Where
<1> HIDE DEF f, n, T
<1>4. FlattenSeq(f) \in Seq(T)  BY <1>1, <1>2, PickedType
<1> QED  BY <1>3, <1>4 DEF T

LEMMA ShiftedType ==
    ASSUME NEW T, NEW S, NEW s \in Seq(T), NEW d, \A e \in T : [e EXCEPT !.tick = e.tick + d] \in S
    PROVE  Shifted(s, d) \in Seq(S)
<1> DEFINE n == Len(s)
           g == [k \in DOMAIN s |-> [s[k] EXCEPT !.tick = s[k].tick + d]]
<1>1. n \in Nat /\ g = [k \in 1..n |-> g[k]]  OBVIOUS
<1>2. \A k \in 1..n : s[k] \in T /\ g[k] = [s[k] EXCEPT !.tick = s[k].tick + d]  OBVIOUS
<1>3. Shifted(s, d) = g  BY DEF Shifted
<1> HIDE DEF n, g
<1>4. \A k \in 1..n : g[k] \in S  BY <1>2
<1>5. g \in Seq(S)  BY <1>1, <1>4, ListType
<1> QED  BY <1>3, <1>5

\* A plan takes every point of a section to a tick that is no less than zero.
LEMMA PutThere ==
    ASSUME NEW p \in PlanSet, NEW tick \in Nat, Lies(tick, p.sec)
    PROVE  tick + (p.to - p.sec.a) \in Nat
<1>1. p.to \in Nat /\ p.sec \in SpanOf  BY DEF PlanSet
<1>2. p.sec.a \in Nat  BY <1>1 DEF SpanOf
<1> QED  BY <1>1, <1>2 DEF Lies

LEMMA PointsPutType ==
    ASSUME NEW p \in PlanSet, NEW d, d = p.to - p.sec.a
    PROVE  /\ \A s \in Seq(TempoSet) : Shifted(PartOf(s, p.sec), d) \in Seq(TempoSet)
           /\ \A s \in Seq(MarkerSet) : Shifted(PartOf(s, p.sec), d) \in Seq(MarkerSet)
           /\ \A s \in Seq(PointSet) : Shifted(PartOf(s, p.sec), d) \in Seq(PointSet)
<1>1. \A e \in TempoSet : Lies(e.tick, p.sec) => [e EXCEPT !.tick = e.tick + d] \in TempoSet
  <2> SUFFICES ASSUME NEW e \in TempoSet, Lies(e.tick, p.sec)
               PROVE  [e EXCEPT !.tick = e.tick + d] \in TempoSet  OBVIOUS
  <2>1. e.tick \in Nat  BY DEF TempoSet
  <2>2. e.tick + d \in Nat  BY <2>1, PutThere
  <2> QED  BY <2>2 DEF TempoSet
<1>2. \A e \in MarkerSet : Lies(e.tick, p.sec) => [e EXCEPT !.tick = e.tick + d] \in MarkerSet
  <2> SUFFICES ASSUME NEW e \in MarkerSet, Lies(e.tick, p.sec)
               PROVE  [e EXCEPT !.tick = e.tick + d] \in MarkerSet  OBVIOUS
  <2>1. e.tick \in Nat  BY DEF MarkerSet
  <2>2. e.tick + d \in Nat  BY <2>1, PutThere
  <2> QED  BY <2>2 DEF MarkerSet
<1>3. \A e \in PointSet : Lies(e.tick, p.sec) => [e EXCEPT !.tick = e.tick + d] \in PointSet
  <2> SUFFICES ASSUME NEW e \in PointSet, Lies(e.tick, p.sec)
               PROVE  [e EXCEPT !.tick = e.tick + d] \in PointSet  OBVIOUS
  <2>1. e.tick \in Nat  BY DEF PointSet
  <2>2. e.tick + d \in Nat  BY <2>1, PutThere
  <2> QED  BY <2>2 DEF PointSet
<1>4. ASSUME NEW S, NEW s \in Seq(S),
             \A e \in S : Lies(e.tick, p.sec) => [e EXCEPT !.tick = e.tick + d] \in S
      PROVE  Shifted(PartOf(s, p.sec), d) \in Seq(S)
  <2> DEFINE T == {e \in S : Lies(e.tick, p.sec)}
             r == PartOf(s, p.sec)
  <2>1. r \in Seq(T)  BY PartType
  <2>2. \A e \in T : [e EXCEPT !.tick = e.tick + d] \in S  BY <1>4
  <2> HIDE DEF T, r
  <2>3. Shifted(r, d) \in Seq(S)  BY <2>1, <2>2, ShiftedType
  <2> QED  BY <2>3 DEF r
<1> QED  BY <1>1, <1>2, <1>3, <1>4

LEMMA EventsPutType ==
    ASSUME NEW s \in Seq(EventSet), NEW d \in Int
    PROVE  Shifted(s, d) \in Seq(EventSet)
<1>1. \A e \in EventSet : [e EXCEPT !.tick = e.tick + d] \in EventSet
  <2> SUFFICES ASSUME NEW e \in EventSet  PROVE [e EXCEPT !.tick = e.tick + d] \in EventSet  OBVIOUS
  <2>1. e.tick + d \in Int  BY DEF EventSet
  <2> QED  BY <2>1 DEF EventSet
<1> QED  BY <1>1, ShiftedType

\* The events that are no notes.
Controls(s) == FlattenSeq([k \in DOMAIN s |-> IF ~IsNote(s[k]) THEN <<s[k]>> ELSE <<>>])

LEMMA ControlsType ==
    ASSUME NEW S, NEW s \in Seq(S)
    PROVE  Controls(s) \in Seq(S)
<1> DEFINE f == [k \in DOMAIN s |-> IF ~IsNote(s[k]) THEN <<s[k]>> ELSE <<>>]
           n == Len(s)
<1>1. n \in Nat /\ f = [k \in 1..n |-> f[k]]  OBVIOUS
<1>2. ASSUME NEW k \in 1..n  PROVE f[k] \in Seq(S)
  <2>1. s[k] \in S /\ f[k] = IF ~IsNote(s[k]) THEN <<s[k]>> ELSE <<>>  OBVIOUS
  <2> HIDE DEF f
  <2>2. <<s[k]>> \in Seq(S) /\ <<>> \in Seq(S)  BY <2>1
  <2> QED  BY <2>1, <2>2
<1>3. Controls(s) = FlattenSeq(f)  BY DEF Controls
<1> HIDE DEF f, n
<1> QED  BY <1>1, <1>2, <1>3, PickedType

LEMMA NoteEventsType ==
    ASSUME NEW m \in SpanSet, NEW d \in Int
    PROVE  /\ On(m.start + d, m.note, m.vel) \in EventSet /\ Off(m.end + d, m.note) \in EventSet
<1>1. m.start + d \in Int /\ m.end + d \in Int /\ m.note \in Nat /\ m.vel \in Nat  BY DEF SpanSet
<1> QED  BY <1>1 DEF On, Off, EventSet

LEMMA NotesPutType ==
    ASSUME NEW t, t.events \in Seq(EventSet), NEW sec, NEW d \in Int
    PROVE  NotesOfPart(t, sec, d) \in Seq(EventSet)
<1> DEFINE all == ExtractNotes(t)
           f == [k \in DOMAIN all |-> IF Lies(all[k].start, sec) THEN <<all[k]>> ELSE <<>>]
           ns == FlattenSeq(f)
           g == [k \in DOMAIN ns |-> <<On(ns[k].start + d, ns[k].note, ns[k].vel),
                                       Off(ns[k].end + d, ns[k].note)>>]
<1>1. all \in Seq(SpanSet)  BY NotesType
<1>2. NotesOfPart(t, sec, d) = FlattenSeq(g)  BY DEF NotesOfPart, Where
<1> HIDE DEF all
<1>3. ns \in Seq(SpanSet)
  <2> DEFINE n == Len(all)
             S == SpanSet
  <2>1. n \in Nat /\ f = [k \in 1..n |-> f[k]]  BY <1>1
  <2>2. ASSUME NEW k \in 1..n  PROVE f[k] \in Seq(S)
    <3>1. all[k] \in S /\ f[k] = IF Lies(all[k].start, sec) THEN <<all[k]>> ELSE <<>>  BY <1>1
    <3> HIDE DEF f, S
    <3>2. <<all[k]>> \in Seq(S) /\ <<>> \in Seq(S)  BY <3>1
    <3> QED  BY <3>1, <3>2
  <2> HIDE DEF f, n, S
  <2>3. FlattenSeq(f) \in Seq(S)  BY <2>1, <2>2, PickedType
  <2> QED  BY <2>3 DEF S
<1> HIDE DEF ns
<1>4. ASSUME NEW k \in 1..Len(ns)  PROVE g[k] \in Seq(EventSet)
  <2> DEFINE m == ns[k]
             x == On(m.start + d, m.note, m.vel)
             y == Off(m.end + d, m.note)
  <2>1. m \in SpanSet  BY <1>3
  <2>2. g[k] = <<x, y>>  BY <1>3
  <2> HIDE DEF m, g
  <2>3. x \in EventSet /\ y \in EventSet  BY <2>1, NoteEventsType
  <2> HIDE DEF x, y
  <2> QED  BY <2>2, <2>3
<1>5. Len(ns) \in Nat /\ g = [k \in 1..Len(ns) |-> g[k]]  BY <1>3
<1> HIDE DEF g
<1>6. FlattenSeq(g) \in Seq(EventSet)  BY <1>4, <1>5, PickedType
<1> QED  BY <1>2, <1>6

LEMMA ClipsPutType ==
    ASSUME NEW d \in Int, NEW n \in Nat, NEW cs, cs = [k \in 1..n |-> cs[k]],
           \A k \in 1..n : cs[k] \in MidiClipSet /\ cs[k].start + d \in Nat
    PROVE  ClipsLater(cs, d) \in Seq(MidiClipSet)
<1>1. ASSUME NEW c \in MidiClipSet, c.start + d \in Nat  PROVE ClipLater(c, d) \in MidiClipSet
  <2> DEFINE M == {<<m[1], m[2] + d>> : m \in c.members}
  <2>1. c.end + d \in Int /\ \A m \in c.members : m[1] \in Nat /\ m[2] + d \in Int  BY DEF MidiClipSet
  <2>2. M \subseteq Nat \X Int  BY <2>1
  <2>3. ClipLater(c, d) = [c EXCEPT !.start = c.start + d, !.end = c.end + d, !.members = M]
    BY DEF ClipLater
  <2> HIDE DEF M
  <2> QED  BY <1>1, <2>1, <2>2, <2>3 DEF MidiClipSet
<1> DEFINE g == [k \in DOMAIN cs |-> ClipLater(cs[k], d)]
<1>2. g = [k \in 1..n |-> g[k]] /\ \A k \in 1..n : g[k] \in MidiClipSet  BY <1>1
<1>3. ClipsLater(cs, d) = g  BY DEF ClipsLater
<1> HIDE DEF g
<1> QED  BY <1>2, <1>3, ListType

\* The MIDI clips of a section.
ClipsIn(cs, sec) == FlattenSeq([k \in DOMAIN cs |-> IF Lies(cs[k].start, sec) THEN <<cs[k]>> ELSE <<>>])

LEMMA ClipsInType ==
    ASSUME NEW cs \in Seq(MidiClipSet), NEW sec
    PROVE  ClipsIn(cs, sec) \in Seq({c \in MidiClipSet : Lies(c.start, sec)})
<1> DEFINE T == {c \in MidiClipSet : Lies(c.start, sec)}
           f == [k \in DOMAIN cs |-> IF Lies(cs[k].start, sec) THEN <<cs[k]>> ELSE <<>>]
           n == Len(cs)
<1>1. n \in Nat /\ f = [k \in 1..n |-> f[k]]  OBVIOUS
<1>2. ASSUME NEW k \in 1..n  PROVE f[k] \in Seq(T)
  <2>1. cs[k] \in MidiClipSet /\ f[k] = IF Lies(cs[k].start, sec) THEN <<cs[k]>> ELSE <<>>  OBVIOUS
  <2>2. Lies(cs[k].start, sec) => cs[k] \in T  BY <2>1
  <2> HIDE DEF f, T
  <2>3. (cs[k] \in T => <<cs[k]>> \in Seq(T)) /\ <<>> \in Seq(T)  OBVIOUS
  <2> QED  BY <2>1, <2>2, <2>3
<1>3. ClipsIn(cs, sec) = FlattenSeq(f)  BY DEF ClipsIn
<1> HIDE DEF f, n, T
<1>4. FlattenSeq(f) \in Seq(T)  BY <1>1, <1>2, PickedType
<1> QED  BY <1>3, <1>4 DEF T

-----------------------------------------------------------------------------
(* Sections put in another order. *)

\* What has been put together so far: the clips keep their sound, the track its name.
AccOk(q, i, a) ==
    /\ a = [heap |-> a.heap, track |-> a.track]
    /\ a.heap \in Seq(ClipSet) /\ Len(a.heap) = Len(q.h) /\ Grows(q.h, a.heap)
    /\ a.track \in TrackSet(Len(q.h)) /\ a.track.id = q.id
TakeStep(p, a, id) ==
    IF Lies(a.heap[id].start, p.sec)
    THEN [a EXCEPT !.heap[id].start = @ + p.to - p.sec.a, !.track.audio = Append(@, id)] ELSE a
Taking == INSTANCE Recursion WITH Op <- TakeStep, Inv <- AccOk

LEMMA TakeStepOk ==
    ASSUME NEW q, q.h \in Seq(ClipSet), NEW p \in PlanSet, NEW i, NEW j, NEW a, AccOk(q, i, a),
           NEW id \in 1..Len(q.h)
    PROVE  AccOk(q, j, TakeStep(p, a, id))
<1> DEFINE n == Len(q.h)
           c == a.heap[id]
           x == c.start + p.to - p.sec.a
           d == [c EXCEPT !.start = x]
           g == [a.heap EXCEPT ![id] = d]
           r == Append(a.track.audio, id)
           tr == [a.track EXCEPT !.audio = r]
<1>1. /\ a = [heap |-> a.heap, track |-> a.track] /\ a.heap \in Seq(ClipSet) /\ Len(a.heap) = n
      /\ Grows(q.h, a.heap) /\ a.track \in TrackSet(n) /\ a.track.id = q.id
  BY DEF AccOk
<1>2. n \in Nat /\ id \in 1..n  OBVIOUS
<1> HIDE DEF n
<1>3. id \in DOMAIN a.heap /\ c \in ClipSet  BY <1>1, <1>2
<1>4. CASE ~Lies(c.start, p.sec)
  <2>1. TakeStep(p, a, id) = a  BY <1>4 DEF TakeStep
  <2> QED  BY <2>1 DEF AccOk
<1>5. CASE Lies(c.start, p.sec)
  <2>1. TakeStep(p, a, id) = [a EXCEPT !.heap = g, !.track = tr]  BY <1>5 DEF TakeStep
  <2>2. x \in Nat
    <3> DEFINE s == c.start
    <3>1. s \in Nat  BY <1>3 DEF ClipSet
    <3>2. s + (p.to - p.sec.a) \in Nat  BY <1>5, <3>1, PutThere
    <3>3. p.to \in Nat /\ p.sec.a \in Nat  BY DEF PlanSet, SpanOf
    <3> HIDE DEF s, c
    <3> QED  BY <3>1, <3>2, <3>3 DEF s
  <2> HIDE DEF x, c
  <2>3. d \in ClipSet /\ d.pcm = c.pcm /\ d.bounce = c.bounce  BY <1>3, <2>2, ClipPutType
  <2> HIDE DEF d
  <2>4. g \in Seq(ClipSet) /\ Len(g) = n  BY <1>1, <1>3, <2>3
  <2>5. Grows(a.heap, g)  BY <1>1, <1>3, <2>3, <2>4 DEF Grows, c
  <2> HIDE DEF g
  <2>6. Grows(q.h, g)  BY <1>1, <2>4, <2>5, GrowsIsTransitive
  <2>7. r \in Seq(1..n)
    <3>1. a.track.audio \in Seq(1..n)  BY <1>1, TrackType
    <3> QED  BY <1>2, <3>1
  <2> HIDE DEF r
  <2>8. n =< n  BY <1>2
  <2>9. tr \in TrackSet(n) /\ tr.id = q.id  BY <1>1, <1>2, <2>7, <2>8, AudioType
  <2> HIDE DEF tr
  <2>10. TakeStep(p, a, id) = [heap |-> g, track |-> tr]  BY <1>1, <2>1
  <2> QED  BY <2>4, <2>6, <2>9, <2>10 DEF AccOk, n
<1> QED  BY <1>4, <1>5

LEMMA TakingOk ==
    ASSUME NEW q, q.h \in Seq(ClipSet), NEW p \in PlanSet, NEW i, NEW j, NEW a, AccOk(q, i, a),
           NEW ids \in Seq(1..Len(q.h))
    PROVE  AccOk(q, j, Taking!Fold(p, a, ids))
<1> DEFINE n == Len(ids)
           f == Taking!Fold(p, a, ids)
<1>1. n \in Nat /\ DOMAIN ids = 1..n /\ \A k \in 1..n : ids[k] \in 1..Len(q.h)  OBVIOUS
<1>2. AccOk(q, 0, a)  BY DEF AccOk
<1>3. \A k \in 1..n : \A b : AccOk(q, k - 1, b) => AccOk(q, k, TakeStep(p, b, ids[k]))
  <2> HIDE DEF n
  <2> QED  BY <1>1, TakeStepOk
<1>4. AccOk(q, n, f)
  <2> HIDE DEF n, f
  <2> QED  BY <1>1, <1>2, <1>3, Taking!FoldInvOf DEF f
<1> HIDE DEF f
<1> QED  BY <1>4 DEF AccOk, f

LEMMA EmittedOk ==
    ASSUME NEW q, q.h \in Seq(ClipSet), NEW old \in TrackSet(Len(q.h)), NEW p \in PlanSet,
           NEW i, NEW j, NEW acc, AccOk(q, i, acc)
    PROVE  AccOk(q, j, Emitted(old, acc, p))
<1> DEFINE n    == Len(q.h)
           sec  == p.sec
           d    == p.to - p.sec.a
           took == Taking!Fold(p, acc, old.audio)
           ns   == NotesOfPart(old, sec, d)
           cc   == Shifted(Controls(PartOf(old.events, sec)), d)
           va   == Shifted(PartOf(old.volAuto, sec), d)
           cs   == ClipsLater(ClipsIn(old.clips, sec), d)
           z    == took.track
           tr   == [z EXCEPT !.events = z.events \o ns \o cc, !.volAuto = z.volAuto \o va,
                             !.clips = z.clips \o cs]
<1>1. Emitted(old, acc, p) = [took EXCEPT !.track.events = @ \o ns \o cc,
                                          !.track.volAuto = @ \o va, !.track.clips = @ \o cs]
  BY DEF Emitted, TakeStep, FoldLeft, MapThenFoldSet, Taking!Fold, Taking!Last, Max, Where, Controls,
         ClipsIn
<1>2. old.audio \in Seq(1..n) /\ old.events \in Seq(EventSet) /\ old.clips \in Seq(MidiClipSet)
      /\ old.volAuto \in Seq(PointSet)
  BY TrackType DEF PointSet
<1>3. AccOk(q, j, took)
  <2> HIDE DEF took
  <2> QED  BY <1>2, TakingOk DEF took
<1> HIDE DEF took
<1>4. /\ took = [heap |-> took.heap, track |-> z] /\ z \in TrackSet(n) /\ z.id = q.id
      /\ z.events \in Seq(EventSet) /\ z.clips \in Seq(MidiClipSet) /\ z.volAuto \in Seq(PointSet)
  <2>1. took = [heap |-> took.heap, track |-> z] /\ z \in TrackSet(n) /\ z.id = q.id
    BY <1>3 DEF AccOk
  <2> HIDE DEF z
  <2> QED  BY <2>1, TrackType DEF PointSet
<1>5. d \in Int  BY DEF PlanSet, SpanOf
<1>6. ns \in Seq(EventSet) /\ cc \in Seq(EventSet)
  <2> DEFINE r == Controls(PartOf(old.events, sec))
  <2>1. ns \in Seq(EventSet)
    <3> HIDE DEF sec, d
    <3> QED  BY <1>2, <1>5, NotesPutType
  <2>2. PartOf(old.events, sec) \in Seq(EventSet)
    <3> DEFINE T == {e \in EventSet : Lies(e.tick, sec)}
    <3>1. PartOf(old.events, sec) \in Seq(T)
      <4> HIDE DEF sec
      <4> QED  BY <1>2, PartType
    <3>2. T \subseteq EventSet  OBVIOUS
    <3> HIDE DEF T
    <3> QED  BY <3>1, <3>2
  <2>3. r \in Seq(EventSet)
    <3> HIDE DEF sec
    <3> QED  BY <2>2, ControlsType
  <2> HIDE DEF r, d
  <2>4. Shifted(r, d) \in Seq(EventSet)  BY <1>5, <2>3, EventsPutType
  <2> QED  BY <2>1, <2>4 DEF r
<1>7. va \in Seq(PointSet)
  <2> HIDE DEF d
  <2> QED  BY <1>2, PointsPutType DEF d
<1>8. cs \in Seq(MidiClipSet)
  <2> DEFINE r == ClipsIn(old.clips, sec)
             m == Len(r)
             T == {c \in MidiClipSet : Lies(c.start, sec)}
  <2>1. r \in Seq(T)
    <3> HIDE DEF sec
    <3> QED  BY <1>2, ClipsInType
  <2>2. \A c \in T : c \in MidiClipSet /\ c.start + d \in Nat
    <3> SUFFICES ASSUME NEW c \in T  PROVE c \in MidiClipSet /\ c.start + d \in Nat  OBVIOUS
    <3>1. c.start \in Nat /\ Lies(c.start, p.sec)  BY DEF MidiClipSet
    <3> QED  BY <3>1, PutThere
  <2> HIDE DEF T, r
  <2>3. m \in Nat /\ r = [k \in 1..m |-> r[k]] /\ \A k \in 1..m : r[k] \in T  BY <2>1
  <2>4. \A k \in 1..m : r[k] \in MidiClipSet /\ r[k].start + d \in Nat  BY <2>2, <2>3
  <2> HIDE DEF d, m
  <2>5. ClipsLater(r, d) \in Seq(MidiClipSet)  BY <1>5, <2>3, <2>4, ClipsPutType
  <2> QED  BY <2>5 DEF r
<1> HIDE DEF ns, cc, va, cs
<1>9. Emitted(old, acc, p) = [heap |-> took.heap, track |-> tr]  BY <1>1, <1>4
<1>10. tr \in TrackSet(n) /\ tr.id = q.id
  <2>1. z.events \o ns \o cc \in Seq(EventSet) /\ z.volAuto \o va \in Seq(PointSet)
        /\ z.clips \o cs \in Seq(MidiClipSet)
    BY <1>4, <1>6, <1>7, <1>8
  <2> HIDE DEF z
  <2> QED  BY <1>4, <2>1 DEF TrackSet, PointSet
<1> HIDE DEF tr
<1> QED  BY <1>3, <1>9, <1>10 DEF AccOk

EmitStep(old, acc, p) == Emitted(old, acc, p)
Emitting == INSTANCE Recursion WITH Op <- EmitStep, Inv <- AccOk

LEMMA EmittingOk ==
    ASSUME NEW q, q.h \in Seq(ClipSet), NEW old \in TrackSet(Len(q.h)), NEW plan \in Seq(PlanSet),
           NEW a, AccOk(q, 0, a)
    PROVE  AccOk(q, 0, Emitting!Fold(old, a, plan))
<1> DEFINE n == Len(plan)
           f == Emitting!Fold(old, a, plan)
<1>1. n \in Nat /\ DOMAIN plan = 1..n /\ \A k \in 1..n : plan[k] \in PlanSet  OBVIOUS
<1>2. \A k \in 1..n : \A b : AccOk(q, k - 1, b) => AccOk(q, k, EmitStep(old, b, plan[k]))
  <2> HIDE DEF n
  <2> QED  BY <1>1, EmittedOk DEF EmitStep
<1>3. AccOk(q, n, f)
  <2> HIDE DEF n, f
  <2> QED  BY <1>1, <1>2, Emitting!FoldInvOf DEF f
<1> HIDE DEF f
<1> QED  BY <1>3 DEF AccOk, f

LEMMA SortedTrackType ==
    ASSUME NEW n, NEW t \in TrackSet(n)
    PROVE  SameTrack(t, SortEvents(t), n) /\ SortEvents(t).volAuto = t.volAuto
           /\ SortEvents(t).clips = t.clips
<1> DEFINE es == ByTick(t.events)
<1>1. t.events \in Seq(EventSet) /\ t.stamp + 1 \in Nat  BY TrackType
<1>2. es \in Seq(EventSet)
  <2>1. \A e \in EventSet : e.tick \in Int  BY DEF EventSet
  <2> QED  BY <1>1, <2>1, SortedType
<1>3. SortEvents(t) = [t EXCEPT !.events = es, !.stamp = t.stamp + 1]  BY DEF SortEvents
<1> HIDE DEF es
<1> QED  BY <1>1, <1>2, <1>3 DEF SameTrack, TrackSet

LEMMA RebuiltFits ==
    ASSUME NEW b \in Nat, NEW w, WorldOk(w, b), NEW t \in DOMAIN w.song.tracks,
           NEW plan \in Seq(PlanSet)
    PROVE  Leads(w, Rebuilt(w, t, plan), b)
<1> DEFINE n    == Len(w.heap)
           old  == w.song.tracks[t]
           bare == [old EXCEPT !.events = <<>>, !.clips = <<>>, !.audio = <<>>, !.volAuto = <<>>]
           base == [heap |-> w.heap, track |-> bare]
           q    == [h |-> w.heap, id |-> old.id]
           done == Emitting!Fold(old, base, plan)
           z    == done.track
           s    == SortEvents(z)
           x    == [s EXCEPT !.clips = ByStart(s.clips), !.volAuto = ByTick(s.volAuto)]
           v    == Rebuilt(w, t, plan)
<1>1. v = [w EXCEPT !.heap = done.heap, !.song.tracks[t] = x]
  BY DEF Rebuilt, EmitStep, FoldLeft, MapThenFoldSet, Emitting!Fold, Emitting!Last, Max
<1>2. n \in Nat /\ w.heap \in Seq(ClipSet) /\ old \in TrackSet(n)  BY WorldType
<1> HIDE DEF old, v
<1>3. bare \in TrackSet(n) /\ bare.id = old.id
  <2>1. <<>> \in Seq(EventSet) /\ <<>> \in Seq(MidiClipSet) /\ <<>> \in Seq(1..n)
        /\ <<>> \in Seq([tick : Nat, value : Nat])
    OBVIOUS
  <2> HIDE DEF n
  <2> QED  BY <1>2, <2>1 DEF TrackSet
<1> HIDE DEF bare
<1>4. AccOk(q, 0, base)  BY <1>2, <1>3, GrowsNot DEF AccOk
<1>5. AccOk(q, 0, done)
  <2>1. q.h = w.heap  OBVIOUS
  <2> HIDE DEF q, base, done
  <2> QED  BY <1>2, <1>4, <2>1, EmittingOk DEF done
<1> HIDE DEF done
<1>6. /\ done.heap \in Seq(ClipSet) /\ Len(done.heap) = n /\ Grows(w.heap, done.heap)
      /\ z \in TrackSet(n) /\ z.id = old.id
  BY <1>5 DEF AccOk
<1> HIDE DEF z
<1>7. s \in TrackSet(n) /\ s.id = old.id  BY <1>6, SortedTrackType DEF SameTrack
<1> HIDE DEF s
<1>8. x \in TrackSet(n) /\ x.id = old.id
  <2>1. s.clips \in Seq(MidiClipSet) /\ s.volAuto \in Seq(PointSet)  BY <1>7, TrackType DEF PointSet
  <2>2. ByStart(s.clips) \in Seq(MidiClipSet)
    <3>1. \A e \in MidiClipSet : e.start \in Nat  BY DEF MidiClipSet
    <3> QED  BY <2>1, <3>1, ClipsSortedType
  <2>3. ByTick(s.volAuto) \in Seq(PointSet)
    <3>1. \A e \in PointSet : e.tick \in Int  BY DEF PointSet
    <3> QED  BY <2>1, <3>1, SortedType
  <2> QED  BY <1>7, <2>2, <2>3 DEF TrackSet, PointSet
<1> HIDE DEF x
<1>9. v = [heap |-> done.heap, song |-> [w.song EXCEPT !.tracks[t] = x], history |-> w.history]
  BY <1>1 DEF WorldOk
<1>10. x \in TrackSet(Len(done.heap)) /\ x.id = w.song.tracks[t].id  BY <1>6, <1>8 DEF old
<1> QED  BY <1>6, <1>9, <1>10, TrackRebased DEF v

RebuildStep(plan, w, t) == Rebuilt(w, t, plan)
Rebuilding == INSTANCE Recursion WITH Op <- RebuildStep, Inv <- LeadsFrom

LEMMA RebuildingFits ==
    ASSUME NEW b \in Nat, NEW v, WorldOk(v, b), NEW plan \in Seq(PlanSet),
           NEW n \in Nat, NEW ts, ts = [t \in 1..n |-> t], DOMAIN v.song.tracks = 1..n
    PROVE  Leads(v, Rebuilding!Fold(plan, v, ts), b)
<1> DEFINE q == [v |-> v, b |-> b]
           f == Rebuilding!Fold(plan, v, ts)
<1>1. q.v = v /\ q.b = b /\ DOMAIN ts = 1..n /\ \A k \in 1..n : ts[k] = k  OBVIOUS
<1> HIDE DEF q, f
<1>2. LeadsFrom(q, 0, v)  BY <1>1, WorldType, GrowsNot DEF LeadsFrom, Leads, SameTracks
<1>3. ASSUME NEW i \in 1..n, NEW w, LeadsFrom(q, i - 1, w)
      PROVE  LeadsFrom(q, i, RebuildStep(plan, w, ts[i]))
  <2>1. Leads(v, w, b)  BY <1>1, <1>3 DEF LeadsFrom
  <2>2. i \in DOMAIN w.song.tracks /\ WorldOk(w, b)  BY <2>1 DEF Leads, SameTracks
  <2>3. RebuildStep(plan, w, ts[i]) = Rebuilt(w, i, plan)  BY <1>1 DEF RebuildStep
  <2>4. Leads(w, Rebuilt(w, i, plan), b)  BY <2>2, RebuiltFits
  <2>5. Leads(v, Rebuilt(w, i, plan), b)  BY <2>1, <2>4, LeadsOn
  <2> QED  BY <1>1, <2>3, <2>5 DEF LeadsFrom
<1>4. LeadsFrom(q, n, f)  BY <1>1, <1>2, <1>3, Rebuilding!FoldInvOf DEF f
<1> QED  BY <1>1, <1>4 DEF LeadsFrom, f

LEMMA ReplannedType ==
    ASSUME NEW plan \in Seq(PlanSet)
    PROVE  /\ \A s \in Seq(TempoSet) : Replanned(s, plan) \in Seq(TempoSet)
           /\ \A s \in Seq(MarkerSet) : Replanned(s, plan) \in Seq(MarkerSet)
<1>1. ASSUME NEW S, NEW s \in Seq(S), \A e \in S : e.tick \in Int,
             \A p \in PlanSet : Shifted(PartOf(s, p.sec), p.to - p.sec.a) \in Seq(S)
      PROVE  Replanned(s, plan) \in Seq(S)
  <2> DEFINE n == Len(plan)
             f == [k \in DOMAIN plan |-> Shifted(PartOf(s, plan[k].sec), plan[k].to - plan[k].sec.a)]
             r == FlattenSeq(f)
  <2>1. n \in Nat /\ f = [k \in 1..n |-> f[k]]  OBVIOUS
  <2>2. \A k \in 1..n : f[k] \in Seq(S)
    <3> SUFFICES ASSUME NEW k \in 1..n  PROVE f[k] \in Seq(S)  OBVIOUS
    <3> DEFINE p == plan[k]
    <3>1. p \in PlanSet /\ f[k] = Shifted(PartOf(s, p.sec), p.to - p.sec.a)  OBVIOUS
    <3> HIDE DEF p, f
    <3> QED  BY <1>1, <3>1
  <2>3. Replanned(s, plan) = ByTick(r)  BY DEF Replanned
  <2> HIDE DEF f, n
  <2>4. r \in Seq(S)  BY <2>1, <2>2, PickedType
  <2> HIDE DEF r
  <2> QED  BY <1>1, <2>3, <2>4, SortedType
<1>2. \A p \in PlanSet : /\ \A s \in Seq(TempoSet) : Shifted(PartOf(s, p.sec), p.to - p.sec.a) \in Seq(TempoSet)
                         /\ \A s \in Seq(MarkerSet) : Shifted(PartOf(s, p.sec), p.to - p.sec.a) \in Seq(MarkerSet)
  <2> SUFFICES ASSUME NEW p \in PlanSet
               PROVE  /\ \A s \in Seq(TempoSet) : Shifted(PartOf(s, p.sec), p.to - p.sec.a) \in Seq(TempoSet)
                      /\ \A s \in Seq(MarkerSet) : Shifted(PartOf(s, p.sec), p.to - p.sec.a) \in Seq(MarkerSet)
    OBVIOUS
  <2> DEFINE d == p.to - p.sec.a
  <2>1. d = p.to - p.sec.a  OBVIOUS
  <2> HIDE DEF d
  <2> QED  BY <2>1, PointsPutType
<1> QED  BY <1>1, <1>2, TickOfPoint

\* A new order of the sections leads on to a song that fits.
LEMMA ArrangedOk ==
    ASSUME IInv, NEW order, ApplyArrangement(order),
           (song.markers # <<>> /\ BuildSections # <<>>) => order \in Seq(DOMAIN BuildSections)
    PROVE  IInv'
<1> DEFINE secs == BuildSections
           plan == Plan(secs, order)
           v  == Copied(Now)
           ts == [t \in Tracks |-> t]
           w  == Rebuilding!Fold(plan, v, ts)
           te == Replanned(w.song.tempo, plan)
           ma == Replanned(w.song.markers, Tail(plan))
           x  == [w EXCEPT !.song.tempo = te]
           y  == [x EXCEPT !.song.markers = ma]
<1>1. song.markers # <<>> /\ secs # <<>> /\ UNCHANGED <<Rest, held>>
      /\ sel' = [NoSel EXCEPT !.track = sel.track]
  BY DEF ApplyArrangement
<1>2. Becomes([w EXCEPT !.song.tempo = te, !.song.markers = ma])
  BY DEF ApplyArrangement, RebuildStep, FoldLeft, MapThenFoldSet, Rebuilding!Fold, Rebuilding!Last, Max
<1>3. plan \in Seq(PlanSet) /\ Tail(plan) \in Seq(PlanSet)
  <2>1. secs \in Seq(SectionSet) /\ order \in Seq(DOMAIN secs)  BY <1>1, SectionsType
  <2> HIDE DEF secs
  <2> QED  BY <1>1, <2>1, PlanType
<1> HIDE DEF secs, plan
<1>4. born \in Nat /\ WorldOk(v, born) /\ v.song = song /\ sel \in SelSet /\ held \in HeldSet
  BY NowFits DEF Leads, IInv, EditorOk
<1>5. Leads(v, w, born)
  <2> DEFINE n == Len(song.tracks)
  <2>1. n \in Nat /\ Tracks = 1..n /\ DOMAIN v.song.tracks = 1..n
    <3>1. song.tracks \in Seq(TrackSet(Len(heap)))  BY NowFits
    <3> HIDE DEF v
    <3> QED  BY <1>4, <3>1 DEF Tracks
  <2>2. ts = [t \in 1..n |-> t]  BY <2>1
  <2> HIDE DEF v, ts, n, w
  <2> QED  BY <1>3, <1>4, <2>1, <2>2, RebuildingFits DEF w
<1> HIDE DEF v, w
<1>6. WorldOk(w, born) /\ w.song.tempo \in Seq(TempoSet) /\ w.song.markers \in Seq(MarkerSet)
  <2>1. WorldOk(w, born)  BY <1>5 DEF Leads
  <2>2. w.song \in SongSet(Len(w.heap))  BY <2>1, WorldType
  <2> QED  BY <2>1, <2>2, TracksType DEF TempoSet, MarkerSet
<1>7. te \in Seq(TempoSet) /\ ma \in Seq(MarkerSet)  BY <1>3, <1>6, ReplannedType
<1> HIDE DEF te, ma
<1>8. Leads(w, x, born)  BY <1>4, <1>6, <1>7, TempoFits
<1>9. y = [w EXCEPT !.song.tempo = te, !.song.markers = ma]
  <2>1. w = [heap |-> w.heap, song |-> w.song, history |-> w.history]  BY <1>6 DEF WorldOk
  <2> QED  BY <2>1
<1> HIDE DEF x
<1>10. WorldOk(x, born)  BY <1>8 DEF Leads
<1>11. Leads(x, y, born)  BY <1>4, <1>7, <1>10, MarkersFit
<1> HIDE DEF y
<1>12. Leads(v, y, born)
  <2>1. Leads(v, x, born)  BY <1>4, <1>5, <1>8, LeadsOn
  <2> QED  BY <1>4, <1>11, <2>1, LeadsOn
<1>13. sel' \in SelSet  BY <1>1, <1>4 DEF SelSet, NoSel, NoPair, NoRange, Pairs
<1> QED  BY <1>1, <1>2, <1>4, <1>9, <1>12, <1>13, CommandOk DEF v

LEMMA SectionIndex ==
    ASSUME IInv, NEW k \in Sections
    PROVE  LET n == Cardinality(Sections)
           IN  /\ n \in Nat \ {0} /\ k \in 1..n /\ song.markers # <<>>
               /\ Sections = 1..n /\ DOMAIN BuildSections = 1..n /\ BuildSections \in Seq(SectionSet)
<1> DEFINE m == Len(BuildSections)
<1>1. song.markers # <<>> /\ Sections = DOMAIN BuildSections  BY DEF Sections
<1>2. BuildSections \in Seq(SectionSet)  BY <1>1, SectionsType
<1>3. m \in Nat /\ DOMAIN BuildSections = 1..m  BY <1>2
<1> HIDE DEF m
<1>4. Cardinality(1..m) = m
  <2>1. 1 \in Int /\ m \in Int  BY <1>3
  <2>2. Cardinality(1..m) = IF 1 > m THEN 0 ELSE m - 1 + 1  BY <2>1, FS_Interval
  <2> QED  BY <1>3, <2>2
<1> QED  BY <1>1, <1>2, <1>3, <1>4

LEMMA WithoutOneType ==
    ASSUME NEW n \in Nat \ {0}, NEW k \in 1..n
    PROVE  Without1(n, k) \in Seq(1..n) /\ Len(Without1(n, k)) = n - 1
<1> DEFINE f == [j \in 1..n - 1 |-> IF j < k THEN j ELSE j + 1]
<1>1. f = [j \in 1..n - 1 |-> f[j]] /\ n - 1 \in Nat  OBVIOUS
<1>2. \A j \in 1..n - 1 : f[j] \in 1..n  OBVIOUS
<1>3. Without1(n, k) = f  BY DEF Without1
<1> HIDE DEF f
<1> DEFINE S == 1..n  m == n - 1
<1>4. m \in Nat /\ f = [j \in 1..m |-> f[j]] /\ \A j \in 1..m : f[j] \in S  BY <1>1, <1>2
<1> HIDE DEF S, m
<1>5. f \in Seq(S) /\ Len(f) = m  BY <1>4, ListType
<1> QED  BY <1>3, <1>5 DEF S, m

LEMMA MoveSectionOk ==
    ASSUME IInv, NEW from, NEW onto, MoveSection(from, onto)
    PROVE  IInv'
<1> DEFINE n == Cardinality(Sections)
           at == IF from < onto THEN onto - 1 ELSE onto
           i  == IF from < onto THEN at + 1 ELSE at
           r  == Without1(n, from)
<1>1. from \in Sections /\ onto \in Sections /\ ApplyArrangement(Moved(n, from, onto))
  BY DEF MoveSection
<1>2. n \in Nat \ {0} /\ from \in 1..n /\ onto \in 1..n /\ DOMAIN BuildSections = 1..n
  BY <1>1, SectionIndex
<1> HIDE DEF n
<1>3. Moved(n, from, onto) = InsertAt(r, i, from)  BY DEF Moved
<1>4. r \in Seq(1..n) /\ Len(r) = n - 1  BY <1>2, WithoutOneType
<1>5. i \in 1..n  BY <1>2
<1> HIDE DEF r, i
<1>6. InsertAt(r, i, from) \in Seq(1..n)
  <2> DEFINE S == 1..n
  <2>1. r \in Seq(S) /\ from \in S /\ i \in 1..Len(r) + 1  BY <1>2, <1>4, <1>5
  <2> HIDE DEF S
  <2> QED  BY <2>1, InsertAtIs DEF S
<1>7. Moved(n, from, onto) \in Seq(DOMAIN BuildSections)  BY <1>2, <1>3, <1>6
<1> QED  BY <1>1, <1>7, ArrangedOk

LEMMA DeleteSectionOk ==
    ASSUME IInv, NEW k, DeleteSection(k)
    PROVE  IInv'
<1> DEFINE n == Cardinality(Sections)
<1>1. k \in Sections /\ ApplyArrangement(Without1(n, k))  BY DEF DeleteSection
<1>2. n \in Nat \ {0} /\ k \in 1..n /\ DOMAIN BuildSections = 1..n  BY <1>1, SectionIndex
<1> HIDE DEF n
<1>3. Without1(n, k) \in Seq(DOMAIN BuildSections)  BY <1>2, WithoutOneType
<1> QED  BY <1>1, <1>3, ArrangedOk

-----------------------------------------------------------------------------
(* A section doubled. *)

LEMMA LengthOfSection ==
    ASSUME NEW sec \in SectionSet
    PROVE  sec.a \in Nat /\ sec.b \in Nat /\ sec.b - sec.a \in Nat
<1>1. sec \in SpanOf /\ sec.a < sec.b  BY DEF SectionSet
<1>2. sec.a \in Nat /\ sec.b \in Nat  BY <1>1 DEF SpanOf
<1> QED  BY <1>1, <1>2

LEMMA DoubledType ==
    ASSUME NEW S, NEW s \in Seq(S), NEW sec,
           \A e \in S : [e EXCEPT !.tick = e.tick + (sec.b - sec.a)] \in S
    PROVE  Doubled(s, sec) \in Seq(S)
<1> DEFINE d == sec.b - sec.a
           n == Len(s)
           f == [k \in DOMAIN s |-> IF s[k].tick >= sec.b THEN [s[k] EXCEPT !.tick = s[k].tick + d] ELSE s[k]]
           r == PartOf(s, sec)
<1>1. Doubled(s, sec) = f \o Shifted(r, d)  BY DEF Doubled
<1>2. \A e \in S : [e EXCEPT !.tick = e.tick + d] \in S  OBVIOUS
<1> HIDE DEF d
<1>3. n \in Nat /\ f = [k \in 1..n |-> f[k]] /\ \A k \in 1..n : f[k] \in S  BY <1>2
<1> HIDE DEF f, n
<1>4. f \in Seq(S)  BY <1>3, ListType
<1>5. r \in Seq(S)
  <2> DEFINE T == {e \in S : Lies(e.tick, sec)}
  <2>1. r \in Seq(T)  BY PartType
  <2>2. T \subseteq S  OBVIOUS
  <2> HIDE DEF T, r
  <2> QED  BY <2>1, <2>2
<1> HIDE DEF r
<1>6. Shifted(r, d) \in Seq(S)  BY <1>2, <1>5, ShiftedType
<1> QED  BY <1>1, <1>4, <1>6

LEMMA PointsDoubledType ==
    ASSUME NEW sec \in SectionSet
    PROVE  /\ \A s \in Seq(TempoSet) : Doubled(s, sec) \in Seq(TempoSet)
           /\ \A s \in Seq(MarkerSet) : Doubled(s, sec) \in Seq(MarkerSet)
           /\ \A s \in Seq(PointSet) : Doubled(s, sec) \in Seq(PointSet)
           /\ \A s \in Seq(EventSet) : Doubled(s, sec) \in Seq(EventSet)
<1> DEFINE d == sec.b - sec.a
<1>1. d \in Nat  BY LengthOfSection
<1> HIDE DEF d
<1>2. \A e \in TempoSet : [e EXCEPT !.tick = e.tick + d] \in TempoSet
  <2>1. \A e \in TempoSet : e.tick + d \in Nat  BY <1>1 DEF TempoSet
  <2> QED  BY <2>1 DEF TempoSet
<1>3. \A e \in MarkerSet : [e EXCEPT !.tick = e.tick + d] \in MarkerSet
  <2>1. \A e \in MarkerSet : e.tick + d \in Nat  BY <1>1 DEF MarkerSet
  <2> QED  BY <2>1 DEF MarkerSet
<1>4. \A e \in PointSet : [e EXCEPT !.tick = e.tick + d] \in PointSet
  <2>1. \A e \in PointSet : e.tick + d \in Nat  BY <1>1 DEF PointSet
  <2> QED  BY <2>1 DEF PointSet
<1>5. \A e \in EventSet : [e EXCEPT !.tick = e.tick + d] \in EventSet
  <2>1. \A e \in EventSet : e.tick + d \in Int  BY <1>1 DEF EventSet
  <2> QED  BY <2>1 DEF EventSet
<1> QED  BY <1>2, <1>3, <1>4, <1>5, DoubledType DEF d

\* The MIDI clips from a tick on move by a length.
PushedOn(cs, b, d) == [k \in DOMAIN cs |-> IF cs[k].start >= b THEN ClipLater(cs[k], d) ELSE cs[k]]

LEMMA ClipLaterType ==
    ASSUME NEW c \in MidiClipSet, NEW d \in Nat
    PROVE  ClipLater(c, d) \in MidiClipSet
<1> DEFINE M == {<<m[1], m[2] + d>> : m \in c.members}
<1>1. c.start + d \in Nat /\ c.end + d \in Int /\ \A m \in c.members : m[1] \in Nat /\ m[2] + d \in Int
  BY DEF MidiClipSet
<1>2. M \subseteq Nat \X Int  BY <1>1
<1>3. ClipLater(c, d) = [c EXCEPT !.start = c.start + d, !.end = c.end + d, !.members = M]
  BY DEF ClipLater
<1> HIDE DEF M
<1> QED  BY <1>1, <1>2, <1>3 DEF MidiClipSet

LEMMA ClipsDoubledType ==
    ASSUME NEW cs \in Seq(MidiClipSet), NEW sec \in SectionSet, NEW d, d = sec.b - sec.a
    PROVE  ByStart(PushedOn(cs, sec.b, d) \o ClipsLater(ClipsIn(cs, sec), d)) \in Seq(MidiClipSet)
<1> DEFINE n == Len(cs)
           f == PushedOn(cs, sec.b, d)
           r == ClipsIn(cs, sec)
           m == Len(r)
           T == {c \in MidiClipSet : Lies(c.start, sec)}
<1>1. d \in Nat  BY LengthOfSection
<1>2. n \in Nat /\ f = [k \in 1..n |-> f[k]] /\ \A k \in 1..n : f[k] \in MidiClipSet
  BY <1>1, ClipLaterType DEF PushedOn
<1> HIDE DEF f, n
<1>3. f \in Seq(MidiClipSet)  BY <1>2, ListType
<1>4. r \in Seq(T)  BY ClipsInType
<1>5. \A c \in T : c \in MidiClipSet /\ c.start + d \in Nat  BY <1>1 DEF MidiClipSet
<1> HIDE DEF T, r
<1>6. m \in Nat /\ r = [k \in 1..m |-> r[k]] /\ \A k \in 1..m : r[k] \in T  BY <1>4
<1>7. d \in Int /\ \A k \in 1..m : r[k] \in MidiClipSet /\ r[k].start + d \in Nat  BY <1>1, <1>5, <1>6
<1> HIDE DEF m
<1>8. ClipsLater(r, d) \in Seq(MidiClipSet)  BY <1>6, <1>7, ClipsPutType
<1>9. f \o ClipsLater(r, d) \in Seq(MidiClipSet)  BY <1>3, <1>8
<1> DEFINE all == f \o ClipsLater(r, d)
<1>10. \A c \in MidiClipSet : c.start \in Nat  BY DEF MidiClipSet
<1> HIDE DEF all
<1>11. ByStart(all) \in Seq(MidiClipSet)  BY <1>9, <1>10, ClipsSortedType DEF all
<1> QED  BY <1>11 DEF all, f, r

\* The events that are notes, and the notes from a tick on and in a section.
NoteEvents(s) == FlattenSeq([k \in DOMAIN s |-> IF IsNote(s[k]) THEN <<s[k]>> ELSE <<>>])
NotesFrom(ns, b) == FlattenSeq([k \in DOMAIN ns |-> IF ns[k].start >= b THEN <<ns[k]>> ELSE <<>>])
NotesIn(ns, sec) == FlattenSeq([k \in DOMAIN ns |-> IF Lies(ns[k].start, sec) THEN <<ns[k]>> ELSE <<>>])

LEMMA NotesPickedType ==
    ASSUME NEW S, NEW s \in Seq(S), NEW b, NEW sec
    PROVE  NoteEvents(s) \in Seq(S) /\ NotesFrom(s, b) \in Seq(S) /\ NotesIn(s, sec) \in Seq(S)
<1> DEFINE n == Len(s)
           f == [k \in DOMAIN s |-> IF IsNote(s[k]) THEN <<s[k]>> ELSE <<>>]
           g == [k \in DOMAIN s |-> IF s[k].start >= b THEN <<s[k]>> ELSE <<>>]
           h == [k \in DOMAIN s |-> IF Lies(s[k].start, sec) THEN <<s[k]>> ELSE <<>>]
<1>1. n \in Nat /\ f = [k \in 1..n |-> f[k]] /\ g = [k \in 1..n |-> g[k]] /\ h = [k \in 1..n |-> h[k]]
  OBVIOUS
<1>2. \A k \in 1..n : f[k] \in {<<>>, <<s[k]>>} /\ g[k] \in {<<>>, <<s[k]>>} /\ h[k] \in {<<>>, <<s[k]>>}
  OBVIOUS
<1>3. \A k \in 1..n : <<>> \in Seq(S) /\ <<s[k]>> \in Seq(S)  OBVIOUS
<1>4. NoteEvents(s) = FlattenSeq(f) /\ NotesFrom(s, b) = FlattenSeq(g) /\ NotesIn(s, sec) = FlattenSeq(h)
  BY DEF NoteEvents, NotesFrom, NotesIn
<1> HIDE DEF f, g, h, n
<1>5. \A k \in 1..n : f[k] \in Seq(S) /\ g[k] \in Seq(S) /\ h[k] \in Seq(S)  BY <1>2, <1>3
<1>6. FlattenSeq(f) \in Seq(S)  BY <1>1, <1>5, PickedType
<1>7. FlattenSeq(g) \in Seq(S)  BY <1>1, <1>5, PickedType
<1>8. FlattenSeq(h) \in Seq(S)  BY <1>1, <1>5, PickedType
<1> QED  BY <1>4, <1>6, <1>7, <1>8

\* Notes are put in again, later.
LaterStep(d, t, m) == AddNote(t, m.start + d, Duration(m), m.note, m.vel)
PuttingIn == INSTANCE Recursion WITH Op <- LaterStep, Inv <- IsSameTrack

LEMMA AddedType ==
    ASSUME NEW n, NEW t \in TrackSet(n), NEW m \in SpanSet, NEW d \in Int
    PROVE  SameTrack(t, LaterStep(d, t, m), n)
<1> DEFINE x == On(m.start + d, m.note, m.vel)
           y == Off(m.start + d + Duration(m), m.note)
           es == t.events \o <<x, y>>
<1>1. m.start \in Int /\ m.end \in Int /\ m.note \in Nat /\ m.vel \in Nat  BY DEF SpanSet
<1>2. Duration(m) \in Int  BY <1>1 DEF Duration
<1>3. x \in EventSet /\ y \in EventSet  BY <1>1, <1>2 DEF On, Off, EventSet
<1>4. LaterStep(d, t, m) = [t EXCEPT !.events = es]  BY DEF LaterStep, AddNote
<1>5. t.events \in Seq(EventSet)  BY TrackType
<1> HIDE DEF x, y
<1>6. <<x, y>> \in Seq(EventSet)  BY <1>3
<1> DEFINE z == <<x, y>>
<1> HIDE DEF z
<1>7. t.events \o z \in Seq(EventSet)  BY <1>5, <1>6 DEF z
<1>8. es \in Seq(EventSet)  BY <1>7 DEF z
<1> HIDE DEF es
<1> QED  BY <1>4, <1>8, EventsType DEF SameTrack

LEMMA PutInType ==
    ASSUME NEW n, NEW t \in TrackSet(n), NEW ns \in Seq(SpanSet), NEW d \in Int
    PROVE  SameTrack(t, PuttingIn!Fold(d, t, ns), n)
<1> DEFINE q == [t |-> t, n |-> n]
           m == Len(ns)
           f == PuttingIn!Fold(d, t, ns)
<1>1. q.t = t /\ q.n = n  OBVIOUS
<1>2. m \in Nat /\ DOMAIN ns = 1..m /\ \A k \in 1..m : ns[k] \in SpanSet  OBVIOUS
<1> HIDE DEF q, m
<1>3. IsSameTrack(q, 0, t)  BY <1>1 DEF IsSameTrack, SameTrack
<1>4. ASSUME NEW i \in 1..m, NEW a, IsSameTrack(q, i - 1, a)
      PROVE  IsSameTrack(q, i, LaterStep(d, a, ns[i]))
  <2>1. SameTrack(t, a, n)  BY <1>1, <1>4 DEF IsSameTrack
  <2>2. SameTrack(a, LaterStep(d, a, ns[i]), n)  BY <1>2, <2>1, AddedType DEF SameTrack
  <2>3. SameTrack(t, LaterStep(d, a, ns[i]), n)  BY <2>1, <2>2 DEF SameTrack
  <2> QED  BY <1>1, <2>3 DEF IsSameTrack
<1> HIDE DEF f
<1>5. IsSameTrack(q, m, f)  BY <1>2, <1>3, <1>4, PuttingIn!FoldInvOf DEF f
<1> QED  BY <1>1, <1>5 DEF IsSameTrack, f

\* The notes and controllers of a track whose section is doubled.
EventsDoubled(old, sec, d) ==
    LET keyed == [old EXCEPT !.clips = ByStart(PushedOn(old.clips, sec.b, d)
                                               \o ClipsLater(ClipsIn(old.clips, sec), d))]
        ns    == ExtractNotes(old)
        gone  == RemoveNotes(keyed, NotesFrom(ns, sec.b))
        kept  == [gone EXCEPT !.events = NoteEvents(@) \o Doubled(Controls(gone.events), sec)]
    IN  SortEvents(PuttingIn!Fold(d, kept, NotesFrom(ns, sec.b) \o NotesIn(ns, sec)))

LEMMA EventsDoubledType ==
    ASSUME NEW n, NEW old \in TrackSet(n), NEW sec \in SectionSet, NEW d, d = sec.b - sec.a
    PROVE  EventsDoubled(old, sec, d) \in TrackSet(n) /\ EventsDoubled(old, sec, d).id = old.id
<1> DEFINE cs    == ByStart(PushedOn(old.clips, sec.b, d) \o ClipsLater(ClipsIn(old.clips, sec), d))
           keyed == [old EXCEPT !.clips = cs]
           ns    == ExtractNotes(old)
           late  == NotesFrom(ns, sec.b)
           here  == NotesIn(ns, sec)
           gone  == RemoveNotes(keyed, late)
           es    == NoteEvents(gone.events) \o Doubled(Controls(gone.events), sec)
           kept  == [gone EXCEPT !.events = es]
           put   == PuttingIn!Fold(d, kept, late \o here)
<1>1. EventsDoubled(old, sec, d) = SortEvents(put)  BY DEF EventsDoubled
<1>2. old.clips \in Seq(MidiClipSet) /\ old.events \in Seq(EventSet)  BY TrackType
<1>3. cs \in Seq(MidiClipSet)  BY <1>2, ClipsDoubledType
<1> HIDE DEF cs
<1>4. keyed \in TrackSet(n) /\ keyed.id = old.id  BY <1>3, MidiClipsType
<1> HIDE DEF keyed
<1>5. ns \in Seq(SpanSet)  BY <1>2, NotesType
<1> HIDE DEF ns
<1>6. late \in Seq(SpanSet) /\ here \in Seq(SpanSet)  BY <1>5, NotesPickedType
<1> HIDE DEF late, here
<1>7. SameTrack(keyed, gone, n)  BY <1>4, <1>6, RemoveNotesType
<1> HIDE DEF gone
<1>8. gone \in TrackSet(n) /\ gone.id = old.id  BY <1>4, <1>7 DEF SameTrack
<1>9. es \in Seq(EventSet)
  <2> DEFINE c == Controls(gone.events)
  <2>1. gone.events \in Seq(EventSet)  BY <1>8, TrackType
  <2>2. c \in Seq(EventSet)  BY <2>1, ControlsType
  <2> HIDE DEF c
  <2>3. Doubled(c, sec) \in Seq(EventSet)  BY <2>2, PointsDoubledType
  <2>4. NoteEvents(gone.events) \in Seq(EventSet)  BY <2>1, NotesPickedType
  <2> QED  BY <2>3, <2>4 DEF c
<1> HIDE DEF es
<1>10. kept \in TrackSet(n) /\ kept.id = old.id  BY <1>8, <1>9, EventsType
<1> HIDE DEF kept
<1>11. d \in Int /\ late \o here \in Seq(SpanSet)  BY <1>6, LengthOfSection
<1>12. SameTrack(kept, put, n)  BY <1>10, <1>11, PutInType
<1> HIDE DEF put
<1>13. put \in TrackSet(n) /\ put.id = old.id  BY <1>10, <1>12 DEF SameTrack
<1>14. SameTrack(put, SortEvents(put), n)  BY <1>13, SortedTrackType
<1> QED  BY <1>1, <1>13, <1>14 DEF SameTrack

\* The audio clips of a track that a section doubled has to put in again.
ObjectsIn(h, objs, sec) ==
    FlattenSeq([k \in DOMAIN objs |-> IF Lies(h[objs[k]].start, sec) THEN <<objs[k]>> ELSE <<>>])

AgainStep(t, w, c) == WithClip(w, t, c)
PuttingAgain == INSTANCE Recursion WITH Op <- AgainStep, Inv <- LeadsFrom

LEMMA AgainFits ==
    ASSUME NEW b \in Nat, NEW v, WorldOk(v, b), NEW t \in DOMAIN v.song.tracks,
           NEW new \in Seq(ClipSet)
    PROVE  Leads(v, PuttingAgain!Fold(t, v, new), b)
<1> DEFINE q == [v |-> v, b |-> b]
           n == Len(new)
           f == PuttingAgain!Fold(t, v, new)
<1>1. q.v = v /\ q.b = b /\ n \in Nat /\ DOMAIN new = 1..n /\ \A k \in 1..n : new[k] \in ClipSet
  OBVIOUS
<1> HIDE DEF q, n, f
<1>2. LeadsFrom(q, 0, v)  BY <1>1, WorldType, GrowsNot DEF LeadsFrom, Leads, SameTracks
<1>3. ASSUME NEW i \in 1..n, NEW w, LeadsFrom(q, i - 1, w)
      PROVE  LeadsFrom(q, i, AgainStep(t, w, new[i]))
  <2> DEFINE c == new[i]
  <2>1. Leads(v, w, b)  BY <1>1, <1>3 DEF LeadsFrom
  <2>2. t \in DOMAIN w.song.tracks /\ WorldOk(w, b)  BY <2>1 DEF Leads, SameTracks
  <2>3. c \in ClipSet  BY <1>1
  <2>4. AgainStep(t, w, c) = WithClip(w, t, c)  BY DEF AgainStep
  <2> HIDE DEF c
  <2>5. Leads(w, WithClip(w, t, c), b)  BY <2>2, <2>3, WithClipFits
  <2>6. Leads(v, WithClip(w, t, c), b)  BY <2>1, <2>5, LeadsOn
  <2> QED  BY <1>1, <2>4, <2>6 DEF LeadsFrom, c
<1>4. LeadsFrom(q, n, f)  BY <1>1, <1>2, <1>3, PuttingAgain!FoldInvOf DEF f
<1> QED  BY <1>1, <1>4 DEF LeadsFrom, f

\* Clips that begin later begin later still; none loses its sound.
LEMMA FarMoved ==
    ASSUME NEW h \in Seq(ClipSet), NEW far, NEW d \in Nat,
           NEW g, g = [id \in DOMAIN h |-> IF id \in far THEN [h[id] EXCEPT !.start = h[id].start + d]
                                                         ELSE h[id]]
    PROVE  g \in Seq(ClipSet) /\ Len(g) = Len(h) /\ Grows(h, g)
<1> DEFINE n == Len(h)
<1>1. n \in Nat /\ DOMAIN h = 1..n /\ g = [id \in 1..n |-> g[id]]  OBVIOUS
<1>2. ASSUME NEW id \in 1..n
      PROVE  g[id] \in ClipSet /\ g[id].pcm = h[id].pcm /\ g[id].bounce = h[id].bounce
  <2> DEFINE c == h[id]
             x == c.start + d
             e == [c EXCEPT !.start = x]
  <2>1. c \in ClipSet  BY <1>1
  <2>2. g[id] = IF id \in far THEN e ELSE c  BY <1>1
  <2>3. x \in Nat
    <3>1. \A e1 \in ClipSet : e1.start \in Nat  BY DEF ClipSet
    <3>2. c.start \in Nat  BY <2>1, <3>1
    <3> HIDE DEF c
    <3> QED  BY <3>2
  <2> HIDE DEF c, x
  <2>4. e \in ClipSet /\ e.pcm = c.pcm /\ e.bounce = c.bounce  BY <2>1, <2>3, ClipPutType
  <2> HIDE DEF e
  <2> QED  BY <2>1, <2>2, <2>4 DEF c
<1> HIDE DEF n
<1>3. g \in Seq(ClipSet) /\ Len(g) = n  BY <1>1, <1>2, ListType
<1> QED  BY <1>1, <1>2, <1>3 DEF Grows, n

LEMMA DoubledTrackFits ==
    ASSUME NEW b \in Nat, NEW w, WorldOk(w, b), NEW t \in DOMAIN w.song.tracks, NEW sec \in SectionSet
    PROVE  Leads(w, DoubledTrack(w, t, sec), b)
<1> DEFINE old  == w.song.tracks[t]
           h    == w.heap
           n    == Len(h)
           d    == sec.b - sec.a
           full == EventsDoubled(old, sec, d)
           objs == old.audio
           far  == {objs[k] : k \in {j \in DOMAIN objs : h[objs[j]].start >= sec.b}}
           near == ObjectsIn(h, objs, sec)
           g    == [id \in DOMAIN h |-> IF id \in far THEN [h[id] EXCEPT !.start = h[id].start + d] ELSE h[id]]
           x    == [full EXCEPT !.volAuto = ByTick(Doubled(full.volAuto, sec))]
           moved == [w EXCEPT !.heap = g, !.song.tracks[t] = x]
           again == [k \in DOMAIN near |-> [h[near[k]] EXCEPT !.start = h[near[k]].start + d]]
           v    == DoubledTrack(w, t, sec)
<1>1. v = PuttingAgain!Fold(t, moved, again)
  BY DEF DoubledTrack, AgainStep, FoldLeft, MapThenFoldSet, PuttingAgain!Fold, PuttingAgain!Last, Max,
         LaterStep, PuttingIn!Fold, PuttingIn!Last, EventsDoubled, ObjectsIn, Where, NoteEvents, NotesFrom,
         NotesIn, Controls, PushedOn, ClipsIn
<1> HIDE DEF v
<1>2. h \in Seq(ClipSet) /\ n \in Nat /\ old \in TrackSet(n) /\ d \in Nat /\ d = sec.b - sec.a
  BY WorldType, LengthOfSection
<1>3. objs \in Seq(1..n)  BY <1>2, TrackType
<1>4. full \in TrackSet(n) /\ full.id = old.id
  <2> HIDE DEF d, n, old
  <2> QED  BY <1>2, EventsDoubledType
<1> HIDE DEF full
<1>5. x \in TrackSet(n) /\ x.id = old.id
  <2>1. full.volAuto \in Seq(PointSet)  BY <1>4, TrackType DEF PointSet
  <2> DEFINE r == Doubled(full.volAuto, sec)
  <2>2. r \in Seq(PointSet)  BY <2>1, PointsDoubledType
  <2>3. \A e \in PointSet : e.tick \in Int  BY DEF PointSet
  <2> HIDE DEF r, n
  <2>4. ByTick(r) \in Seq(PointSet)  BY <2>2, <2>3, SortedType
  <2> QED  BY <1>4, <2>4 DEF TrackSet, PointSet, r
<1>6. g \in Seq(ClipSet) /\ Len(g) = n /\ Grows(h, g)
  <2> HIDE DEF far, d, h
  <2> QED  BY <1>2, FarMoved DEF n
<1> HIDE DEF g, x
<1>7. Leads(w, moved, b) /\ t \in DOMAIN moved.song.tracks
  <2> DEFINE u == [w.song EXCEPT !.tracks[t] = x]
  <2>0. /\ w = [heap |-> w.heap, song |-> w.song, history |-> w.history]
        /\ moved = [w EXCEPT !.heap = g, !.song = [[w EXCEPT !.heap = g].song EXCEPT !.tracks[t] = x]]
    BY DEF WorldOk
  <2>4. [w EXCEPT !.heap = g].song = w.song  BY <2>0
  <2>5. moved = [w EXCEPT !.heap = g, !.song = u]  BY <2>0, <2>4
  <2> HIDE DEF u, moved
  <2>1. moved = [heap |-> g, song |-> [w.song EXCEPT !.tracks[t] = x], history |-> w.history]
    BY <2>0, <2>5 DEF u
  <2>2. x \in TrackSet(Len(g)) /\ x.id = w.song.tracks[t].id  BY <1>5, <1>6
  <2> HIDE DEF moved
  <2>3. Leads(w, moved, b)  BY <1>6, <2>1, <2>2, TrackRebased
  <2> QED  BY <2>3 DEF Leads, SameTracks
<1> HIDE DEF moved
<1>8. near \in Seq(1..n)
  <2> DEFINE f == [k \in DOMAIN objs |-> IF Lies(h[objs[k]].start, sec) THEN <<objs[k]>> ELSE <<>>]
             m == Len(objs)
             S == 1..n
  <2>1. m \in Nat /\ f = [k \in 1..m |-> f[k]]  BY <1>3
  <2>2. \A k \in 1..m : f[k] \in {<<>>, <<objs[k]>>} /\ objs[k] \in S  BY <1>3, SMTT(40)
  <2>3. near = FlattenSeq(f)  BY DEF ObjectsIn
  <2> HIDE DEF f, m, S, objs
  <2>4. \A k \in 1..m : <<>> \in Seq(S) /\ <<objs[k]>> \in Seq(S)  BY <2>2
  <2>5. \A k \in 1..m : f[k] \in Seq(S)  BY <2>2, <2>4
  <2>6. FlattenSeq(f) \in Seq(S)  BY <2>1, <2>5, PickedType
  <2> QED  BY <2>3, <2>6 DEF S
<1> HIDE DEF near, d
<1>9. again \in Seq(ClipSet)
  <2> DEFINE m == Len(near)
  <2>1. m \in Nat /\ again = [k \in 1..m |-> again[k]]  BY <1>8
  <2>2. ASSUME NEW k \in 1..m  PROVE again[k] \in ClipSet
    <3> DEFINE c == h[near[k]]
               y == c.start + d
    <3>0. k \in DOMAIN near /\ near[k] \in 1..n
      <4> DEFINE S == 1..n
      <4>1. near \in Seq(S)  BY <1>8
      <4> HIDE DEF S
      <4>2. k \in DOMAIN near /\ near[k] \in S  BY <4>1
      <4> QED  BY <4>2 DEF S
    <3>1. near[k] \in 1..n /\ again[k] = [c EXCEPT !.start = y]  BY <3>0
    <3>2. c \in ClipSet  BY <1>2, <3>1
    <3> HIDE DEF c
    <3>3. y \in Nat  BY <1>2, <3>2 DEF ClipSet
    <3> HIDE DEF y, again
    <3> QED  BY <3>1, <3>2, <3>3, ClipPutType
  <2> HIDE DEF m, again
  <2> QED  BY <2>1, <2>2, ListType
<1> HIDE DEF again
<1>10. WorldOk(moved, b)  BY <1>7 DEF Leads
<1>11. Leads(moved, v, b)  BY <1>1, <1>7, <1>9, <1>10, AgainFits
<1>12. Leads(w, v, b)  BY <1>7, <1>11, LeadsOn
<1> QED  BY <1>12 DEF v

DoubleStep(sec, w, t) == DoubledTrack(w, t, sec)
Doubling == INSTANCE Recursion WITH Op <- DoubleStep, Inv <- LeadsFrom

LEMMA DoublingFits ==
    ASSUME NEW b \in Nat, NEW v, WorldOk(v, b), NEW sec \in SectionSet,
           NEW n \in Nat, NEW ts, ts = [t \in 1..n |-> t], DOMAIN v.song.tracks = 1..n
    PROVE  Leads(v, Doubling!Fold(sec, v, ts), b)
<1> DEFINE q == [v |-> v, b |-> b]
           f == Doubling!Fold(sec, v, ts)
<1>1. q.v = v /\ q.b = b /\ DOMAIN ts = 1..n /\ \A k \in 1..n : ts[k] = k  OBVIOUS
<1> HIDE DEF q, f
<1>2. LeadsFrom(q, 0, v)  BY <1>1, WorldType, GrowsNot DEF LeadsFrom, Leads, SameTracks
<1>3. ASSUME NEW i \in 1..n, NEW w, LeadsFrom(q, i - 1, w)
      PROVE  LeadsFrom(q, i, DoubleStep(sec, w, ts[i]))
  <2>1. Leads(v, w, b)  BY <1>1, <1>3 DEF LeadsFrom
  <2>2. i \in DOMAIN w.song.tracks /\ WorldOk(w, b)  BY <2>1 DEF Leads, SameTracks
  <2>3. DoubleStep(sec, w, ts[i]) = DoubledTrack(w, i, sec)  BY <1>1 DEF DoubleStep
  <2>4. Leads(w, DoubledTrack(w, i, sec), b)  BY <2>2, DoubledTrackFits
  <2>5. Leads(v, DoubledTrack(w, i, sec), b)  BY <2>1, <2>4, LeadsOn
  <2> QED  BY <1>1, <2>3, <2>5 DEF LeadsFrom
<1>4. LeadsFrom(q, n, f)  BY <1>1, <1>2, <1>3, Doubling!FoldInvOf DEF f
<1> QED  BY <1>1, <1>4 DEF LeadsFrom, f

LEMMA DuplicateSectionOk ==
    ASSUME IInv, NEW k, DuplicateSection(k)
    PROVE  IInv'
<1> DEFINE sec == BuildSections[k]
           v  == Copied(Now)
           ts == [t \in Tracks |-> t]
           w  == Doubling!Fold(sec, v, ts)
           te == ByTick(Doubled(w.song.tempo, sec))
           ma == ByTick(Doubled(w.song.markers, sec))
           x  == [w EXCEPT !.song.tempo = te]
           y  == [x EXCEPT !.song.markers = ma]
<1>1. k \in Sections /\ UNCHANGED <<Rest, held>>
      /\ sel' = [sel EXCEPT !.clip = NoPair, !.many = {}, !.range = NoRange]
  BY DEF DuplicateSection
<1>2. Becomes([w EXCEPT !.song.tempo = te, !.song.markers = ma])
  BY DEF DuplicateSection, DoubleStep, FoldLeft, MapThenFoldSet, Doubling!Fold, Doubling!Last, Max
<1>3. sec \in SectionSet
  <2> DEFINE n == Cardinality(Sections)
  <2>1. k \in 1..n /\ DOMAIN BuildSections = 1..n /\ BuildSections \in Seq(SectionSet)
    BY <1>1, SectionIndex
  <2> DEFINE s == BuildSections
  <2>2. s \in Seq(SectionSet) /\ k \in DOMAIN s  BY <2>1
  <2> HIDE DEF s
  <2>3. s[k] \in SectionSet  BY <2>2
  <2> QED  BY <2>3 DEF s
<1> HIDE DEF sec
<1>4. born \in Nat /\ WorldOk(v, born) /\ v.song = song /\ sel \in SelSet /\ held \in HeldSet
  BY NowFits DEF Leads, IInv, EditorOk
<1>5. Leads(v, w, born)
  <2> DEFINE n == Len(song.tracks)
  <2>1. n \in Nat /\ Tracks = 1..n /\ DOMAIN v.song.tracks = 1..n
    <3>1. song.tracks \in Seq(TrackSet(Len(heap)))  BY NowFits
    <3> HIDE DEF v
    <3> QED  BY <1>4, <3>1 DEF Tracks
  <2>2. ts = [t \in 1..n |-> t]  BY <2>1
  <2> HIDE DEF v, ts, n, w
  <2> QED  BY <1>3, <1>4, <2>1, <2>2, DoublingFits DEF w
<1> HIDE DEF v, w
<1>6. WorldOk(w, born) /\ w.song.tempo \in Seq(TempoSet) /\ w.song.markers \in Seq(MarkerSet)
  <2>1. WorldOk(w, born)  BY <1>5 DEF Leads
  <2>2. w.song \in SongSet(Len(w.heap))  BY <2>1, WorldType
  <2> QED  BY <2>1, <2>2, TracksType DEF TempoSet, MarkerSet
<1>7. te \in Seq(TempoSet) /\ ma \in Seq(MarkerSet)
  <2> DEFINE a == Doubled(w.song.tempo, sec)
             c == Doubled(w.song.markers, sec)
  <2>1. a \in Seq(TempoSet) /\ c \in Seq(MarkerSet)  BY <1>3, <1>6, PointsDoubledType
  <2> HIDE DEF a, c
  <2>2. ByTick(a) \in Seq(TempoSet)  BY <2>1, SortedType, TickOfPoint
  <2>3. ByTick(c) \in Seq(MarkerSet)  BY <2>1, SortedType, TickOfPoint
  <2> QED  BY <2>2, <2>3 DEF a, c
<1> HIDE DEF te, ma
<1>8. Leads(w, x, born)  BY <1>4, <1>6, <1>7, TempoFits
<1>9. y = [w EXCEPT !.song.tempo = te, !.song.markers = ma]
  <2>1. w = [heap |-> w.heap, song |-> w.song, history |-> w.history]  BY <1>6 DEF WorldOk
  <2> QED  BY <2>1
<1> HIDE DEF x
<1>10. WorldOk(x, born)  BY <1>8 DEF Leads
<1>11. Leads(x, y, born)  BY <1>4, <1>7, <1>10, MarkersFit
<1> HIDE DEF y
<1>12. Leads(v, y, born)
  <2>1. Leads(v, x, born)  BY <1>4, <1>5, <1>8, LeadsOn
  <2> QED  BY <1>4, <1>11, <2>1, LeadsOn
<1>13. sel' \in SelSet  BY <1>1, <1>4 DEF SelSet, NoPair, NoRange, Pairs
<1> QED  BY <1>1, <1>2, <1>4, <1>9, <1>12, <1>13, CommandOk DEF v

-----------------------------------------------------------------------------
(* Undo and versions. *)

LEMMA ClampedType ==
    ASSUME NEW n \in Nat, NEW t \in Nat \ {0}
    PROVE  Clamped(n, t) \in Nat \ {0}
<1>1. CASE n = 0  BY <1>1 DEF Clamped
<1>2. CASE n # 0
  <2>1. Min({n, t}) \in Nat \ {0}  BY <1>2, MinOfTwo
  <2> QED  BY <1>2, <2>1 DEF Clamped
<1> QED  BY <1>1, <1>2

\* A copy that fits the objects is put back over them.
LEMMA ThawOk ==
    ASSUME IInv, NEW sn \in Copies(heap, born), NEW hist, HistoryOk(hist, heap, born),
           NEW midi \in Pairs, Thaw(sn, hist, midi), versionCurrent' \in Nat,
           UNCHANGED <<held, versions, clipboard, drag, born>>
    PROVE  IInv'
<1> DEFINE g == PlacesApplied(sn, heap)
           w == [heap |-> g, song |-> sn.song, history |-> hist]
<1>1. /\ heap \in Seq(ClipSet) /\ born \in Nat /\ born =< born /\ VersionsOk(versions, heap, born)
  BY NowFits DEF IInv, CopiesOk
<1>2. g \in Seq(ClipSet) /\ Grows(heap, g) /\ Len(g) = Len(heap)  BY <1>1, PlacesAppliedFits
<1>3. song' = sn.song /\ heap' = g /\ history' = hist  BY DEF Thaw
<1>4. sn.song \in SongSet(Len(heap)) /\ IdsDiffer(sn.song, born)  BY DEF Copies
<1> HIDE DEF g
<1>5. SongOk(sn.song, Len(g), born)  BY <1>2, <1>4 DEF SongOk
<1>6. HistoryOk(hist, g, born) /\ VersionsOk(versions, g, born)
  BY <1>1, <1>2, HistoryGrows, VersionsGrow
<1>7. WorldOk(w, born)  BY <1>2, <1>5, <1>6 DEF WorldOk
<1>8. Now' = w  BY <1>3 DEF Now
<1> HIDE DEF w
<1>9. CopiesOk'
  <2>1. born' = born /\ versions' = versions  OBVIOUS
  <2>2. WorldOk(Now', born')  BY <1>7, <1>8, <2>1
  <2>3. VersionsOk(versions', heap', born')  BY <1>3, <1>6, <2>1
  <2> QED  BY <1>1, <2>1, <2>2, <2>3 DEF CopiesOk
<1>10. sel' \in SelSet
  <2>1. sel' = [NoSel EXCEPT !.track = Clamped(Len(sn.song.tracks), sel.track), !.midi = midi]
    BY DEF Thaw
  <2>2. Clamped(Len(sn.song.tracks), sel.track) \in Nat \ {0}
    <3>1. Len(sn.song.tracks) \in Nat
      <4>1. sn.song.tracks \in Seq(TrackSet(Len(heap)))  BY <1>4, TracksType
      <4> QED  BY <4>1
    <3>2. sel.track \in Nat \ {0}  BY DEF IInv, EditorOk, SelSet
    <3> QED  BY <3>1, <3>2, ClampedType
  <2>3. <<0, 0>> \in Pairs  BY DEF Pairs
  <2> QED  BY <2>1, <2>2, <2>3 DEF NoSel, NoRange, NoPair, SelSet
<1>11. EditorOk'  BY <1>10 DEF IInv, EditorOk
<1> QED  BY <1>9, <1>11 DEF IInv

\* One copy leaves a stack and one goes on the other.
LEMMA UndoneFits ==
    ASSUME NEW S, NEW h \in [undo : Seq(S), redo : Seq(S)], Len(h.undo) + Len(h.redo) =< MaxDepth,
           NEW x \in S, CanUndo(h)
    PROVE  /\ Undone(h) \in S /\ AfterUndo(h, x) \in [undo : Seq(S), redo : Seq(S)]
           /\ Len(AfterUndo(h, x).undo) + Len(AfterUndo(h, x).redo) =< MaxDepth
<1> DEFINE u == h.undo  r == h.redo  n == Len(u)
<1>1. u \in Seq(S) /\ r \in Seq(S) /\ u # <<>> /\ MaxDepth \in Nat
  BY ArrangerAssumption DEF CanUndo, ArrangerAssumption, UndoHistoryAssumption
<1>2. AfterUndo(h, x) = [undo |-> SubSeq(u, 1, n - 1), redo |-> Append(r, x)] /\ Undone(h) = u[n]
  BY DEF AfterUndo, Undone
<1> HIDE DEF u, r
<1>3. n \in Nat \ {0} /\ u[n] \in S  BY <1>1
<1>4. SubSeq(u, 1, n - 1) \in Seq(S) /\ Len(SubSeq(u, 1, n - 1)) = n - 1
  <2>1. n - 1 \in Nat /\ n - 1 =< n /\ n = Len(u)  BY <1>3
  <2> HIDE DEF n
  <2>2. SubSeq(u, 1, n - 1) = [k \in 1..n - 1 |-> u[k]]  BY <1>1, <2>1
  <2>3. \A k \in 1..n - 1 : u[k] \in S  BY <1>1, <2>1
  <2> QED  BY <2>1, <2>2, <2>3
<1>5. Append(r, x) \in Seq(S) /\ Len(Append(r, x)) = Len(r) + 1 /\ Len(r) \in Nat  BY <1>1
<1>6. n + Len(r) =< MaxDepth  BY DEF u, r
<1> HIDE DEF n
<1>7. /\ AfterUndo(h, x).undo = SubSeq(u, 1, n - 1) /\ AfterUndo(h, x).redo = Append(r, x)
      /\ AfterUndo(h, x) \in [undo : Seq(S), redo : Seq(S)]
  BY <1>2, <1>4, <1>5
<1> QED  BY <1>1, <1>2, <1>3, <1>4, <1>5, <1>6, <1>7

LEMMA RedoneFits ==
    ASSUME NEW S, NEW h \in [undo : Seq(S), redo : Seq(S)], Len(h.undo) + Len(h.redo) =< MaxDepth,
           NEW x \in S, CanRedo(h)
    PROVE  /\ Redone(h) \in S /\ AfterRedo(h, x) \in [undo : Seq(S), redo : Seq(S)]
           /\ Len(AfterRedo(h, x).undo) + Len(AfterRedo(h, x).redo) =< MaxDepth
<1> DEFINE u == h.undo  r == h.redo  n == Len(r)
<1>1. u \in Seq(S) /\ r \in Seq(S) /\ r # <<>> /\ MaxDepth \in Nat
  BY ArrangerAssumption DEF CanRedo, ArrangerAssumption, UndoHistoryAssumption
<1>2. AfterRedo(h, x) = [undo |-> Append(u, x), redo |-> SubSeq(r, 1, n - 1)] /\ Redone(h) = r[n]
  BY DEF AfterRedo, Redone
<1> HIDE DEF u, r
<1>3. n \in Nat \ {0} /\ r[n] \in S  BY <1>1
<1>4. SubSeq(r, 1, n - 1) \in Seq(S) /\ Len(SubSeq(r, 1, n - 1)) = n - 1
  <2>1. n - 1 \in Nat /\ n - 1 =< n /\ n = Len(r)  BY <1>3
  <2> HIDE DEF n
  <2>2. SubSeq(r, 1, n - 1) = [k \in 1..n - 1 |-> r[k]]  BY <1>1, <2>1
  <2>3. \A k \in 1..n - 1 : r[k] \in S  BY <1>1, <2>1
  <2> QED  BY <2>1, <2>2, <2>3
<1>5. Append(u, x) \in Seq(S) /\ Len(Append(u, x)) = Len(u) + 1 /\ Len(u) \in Nat  BY <1>1
<1>6. Len(u) + n =< MaxDepth  BY DEF u, r
<1> HIDE DEF n
<1>7. /\ AfterRedo(h, x).undo = Append(u, x) /\ AfterRedo(h, x).redo = SubSeq(r, 1, n - 1)
      /\ AfterRedo(h, x) \in [undo : Seq(S), redo : Seq(S)]
  BY <1>2, <1>4, <1>5
<1> QED  BY <1>1, <1>2, <1>3, <1>4, <1>5, <1>6, <1>7

LEMMA NowSnapshot ==
    ASSUME IInv
    PROVE  /\ MakeSongSnapshot(song, heap) \in Copies(heap, born)
           /\ history \in [undo : Seq(Copies(heap, born)), redo : Seq(Copies(heap, born))]
           /\ Len(history.undo) + Len(history.redo) =< MaxDepth
           /\ versions \in [nodes : Seq([id : Nat, parent : Nat, snap : Copies(heap, born)]), next : Nat]
           /\ versionCurrent \in Nat /\ NoPair \in Pairs
<1>1. WorldOk(Now, born) /\ Now.heap = heap /\ Now.song = song /\ Now.history = history
      /\ heap \in Seq(ClipSet)
  BY NowFits
<1>2. SongOk(song, Len(heap), born) /\ HistoryOk(history, heap, born)  BY <1>1 DEF WorldOk
<1>3. MakeSongSnapshot(song, heap) \in Copies(heap, born)  BY <1>1, <1>2, SnapshotFits
<1>4. versionCurrent \in Nat /\ NoPair \in Pairs  BY DEF IInv, EditorOk, NoPair, Pairs
<1>5. VersionsOk(versions, heap, born)  BY DEF IInv, CopiesOk
<1> QED  BY <1>2, <1>3, <1>4, <1>5 DEF HistoryOk, VersionsOk

LEMMA DoUndoOk ==
    ASSUME IInv, DoUndo
    PROVE  IInv'
<1> DEFINE S == Copies(heap, born)
           x == MakeSongSnapshot(song, heap)
           sn == Undone(history)
           hist == AfterUndo(history, x)
<1>1. /\ x \in S /\ history \in [undo : Seq(S), redo : Seq(S)]
      /\ Len(history.undo) + Len(history.redo) =< MaxDepth
      /\ versionCurrent \in Nat /\ NoPair \in Pairs
  BY NowSnapshot
<1>2. CanUndo(history) /\ Thaw(sn, hist, NoPair) /\ UNCHANGED <<Rest, held>>  BY DEF DoUndo
<1> HIDE DEF S, x
<1>3. sn \in S /\ hist \in [undo : Seq(S), redo : Seq(S)] /\ Len(hist.undo) + Len(hist.redo) =< MaxDepth
  BY <1>1, <1>2, UndoneFits
<1> HIDE DEF sn, hist
<1>4. sn \in Copies(heap, born) /\ HistoryOk(hist, heap, born)  BY <1>3 DEF S, HistoryOk
<1>5. versionCurrent' \in Nat /\ UNCHANGED <<held, versions, clipboard, drag, born>>
  BY <1>1, <1>2 DEF Rest
<1> QED  BY <1>1, <1>2, <1>4, <1>5, ThawOk

LEMMA DoRedoOk ==
    ASSUME IInv, DoRedo
    PROVE  IInv'
<1> DEFINE S == Copies(heap, born)
           x == MakeSongSnapshot(song, heap)
           sn == Redone(history)
           hist == AfterRedo(history, x)
<1>1. /\ x \in S /\ history \in [undo : Seq(S), redo : Seq(S)]
      /\ Len(history.undo) + Len(history.redo) =< MaxDepth
      /\ versionCurrent \in Nat /\ NoPair \in Pairs
  BY NowSnapshot
<1>2. CanRedo(history) /\ Thaw(sn, hist, NoPair) /\ UNCHANGED <<Rest, held>>  BY DEF DoRedo
<1> HIDE DEF S, x
<1>3. sn \in S /\ hist \in [undo : Seq(S), redo : Seq(S)] /\ Len(hist.undo) + Len(hist.redo) =< MaxDepth
  BY <1>1, <1>2, RedoneFits
<1> HIDE DEF sn, hist
<1>4. sn \in Copies(heap, born) /\ HistoryOk(hist, heap, born)  BY <1>3 DEF S, HistoryOk
<1>5. versionCurrent' \in Nat /\ UNCHANGED <<held, versions, clipboard, drag, born>>
  BY <1>1, <1>2 DEF Rest
<1> QED  BY <1>1, <1>2, <1>4, <1>5, ThawOk

\* The song stays; what versions there are changes.
LEMMA VersionsOnly ==
    ASSUME IInv, VersionsOk(versions', heap, born), versionCurrent' \in Nat,
           UNCHANGED <<heap, song, history, sel, held, clipboard, drag, born>>
    PROVE  IInv'
<1>1. CopiesOk'  BY DEF IInv, CopiesOk, Now
<1>2. EditorOk'  BY DEF IInv, EditorOk
<1> QED  BY <1>1, <1>2 DEF IInv

LEMMA CheckinVersionOk ==
    ASSUME IInv, CheckinVersion
    PROVE  IInv'
<1> DEFINE S == Copies(heap, born)
           N == [id : Nat, parent : Nat, snap : S]
           x == MakeSongSnapshot(song, heap)
           v == [id |-> versions.next, parent |-> versionCurrent, snap |-> x]
<1>1. x \in S /\ versions \in [nodes : Seq(N), next : Nat] /\ versionCurrent \in Nat
  BY NowSnapshot
<1>2. /\ versions' = [nodes |-> Append(versions.nodes, v), next |-> versions.next + 1]
      /\ versionCurrent' = versions.next
      /\ UNCHANGED <<heap, song, history, sel, held, clipboard, drag, born>>
  BY DEF CheckinVersion, Nodes
<1> HIDE DEF S, x
<1>3. v \in N  BY <1>1
<1> HIDE DEF N, v
<1>4. versions' \in [nodes : Seq(N), next : Nat] /\ versionCurrent' \in Nat  BY <1>1, <1>2, <1>3
<1>5. VersionsOk(versions', heap, born)  BY <1>4 DEF VersionsOk, N, S
<1> QED  BY <1>2, <1>4, <1>5, VersionsOnly

LEMMA CheckoutVersionOk ==
    ASSUME IInv, NEW k, CheckoutVersion(k)
    PROVE  IInv'
<1> DEFINE S == Copies(heap, born)
           N == [id : Nat, parent : Nat, snap : S]
           v == Nodes[k]
           hist == Copied(Now).history
<1>1. versions \in [nodes : Seq(N), next : Nat]  BY NowSnapshot
<1>2. k \in DOMAIN Nodes /\ Thaw(v.snap, hist, sel.midi) /\ versionCurrent' = v.id
      /\ UNCHANGED <<held, versions, clipboard, drag, born>>
  BY DEF CheckoutVersion
<1>3. HistoryOk(hist, heap, born)
  <2>1. WorldOk(Copied(Now), born) /\ Copied(Now).heap = heap  BY NowFits DEF Leads
  <2> QED  BY <2>1 DEF WorldOk
<1>4. sel.midi \in Pairs  BY DEF IInv, EditorOk, SelSet
<1> HIDE DEF hist, S
<1>5. v \in N
  <2> HIDE DEF N
  <2> QED  BY <1>1, <1>2 DEF Nodes
<1>6. v.snap \in S /\ v.id \in Nat  BY <1>5
<1> HIDE DEF v
<1>7. v.snap \in Copies(heap, born) /\ versionCurrent' \in Nat  BY <1>2, <1>6 DEF S
<1> QED  BY <1>2, <1>3, <1>4, <1>7, ThawOk

LEMMA DeleteVersionOk ==
    ASSUME IInv, NEW k, DeleteVersion(k)
    PROVE  IInv'
<1> DEFINE S == Copies(heap, born)
           N == [id : Nat, parent : Nat, snap : S]
           s == versions.nodes
           dead == Below(Nodes[k].id)
           f == [j \in DOMAIN s |-> IF s[j].id \notin dead THEN <<s[j]>> ELSE <<>>]
<1>1. versions \in [nodes : Seq(N), next : Nat] /\ versionCurrent \in Nat  BY NowSnapshot
<1>2. /\ k \in DOMAIN s
      /\ versions' = [versions EXCEPT !.nodes = FlattenSeq(f)]
      /\ versionCurrent' = IF versionCurrent \in dead THEN s[k].parent ELSE versionCurrent
      /\ UNCHANGED <<heap, song, history, sel, held, clipboard, drag, born>>
  BY DEF DeleteVersion, Where, Nodes
<1> HIDE DEF S, dead
<1>3. s[k].parent \in Nat
  <2>1. s[k] \in N
    <3> HIDE DEF N
    <3> QED  BY <1>1, <1>2
  <2> QED  BY <2>1
<1> HIDE DEF N
<1>4. s \in Seq(N)  BY <1>1
<1> HIDE DEF s
<1>5. f = [j \in 1..Len(s) |-> f[j]] /\ \A j \in 1..Len(s) : f[j] \in Seq(N)  BY <1>4
<1> HIDE DEF f
<1>6. FlattenSeq(f) \in Seq(N)
  <2>1. Len(s) \in Nat  BY <1>4
  <2> QED  BY <1>5, <2>1, PickedType
<1>7. versions' \in [nodes : Seq(N), next : Nat] /\ versionCurrent' \in Nat  BY <1>1, <1>2, <1>3, <1>6
<1>8. VersionsOk(versions', heap, born)  BY <1>7 DEF VersionsOk, N, S
<1> QED  BY <1>2, <1>7, <1>8, VersionsOnly

-----------------------------------------------------------------------------
(* Every step keeps the invariant. *)

LEMMA InitOk ==
    ASSUME Init
    PROVE  IInv
<1>1. PICK s \in Songs : /\ heap = s.heap
                         /\ song = [tracks |-> s.tracks, tempo |-> s.tempo, markers |-> s.markers]
  BY DEF Init
<1>2. /\ heap \in Seq(ClipSet) /\ song \in SongSet(Len(heap))
      /\ \A k \in DOMAIN song.tracks : song.tracks[k].id = k
  BY <1>1, SongsAssumption DEF SongsAssumption
<1>3. /\ history = Empty /\ versions = [nodes |-> <<>>, next |-> 1] /\ versionCurrent = 0
      /\ sel = NoSel /\ clipboard = NoClip /\ drag = NoDrag
      /\ held = [asio |-> 0, rec |-> 0, at |-> 0, vst |-> 1, practice |-> 0]
      /\ born = Len(song.tracks)
  BY DEF Init
<1>4. song.tracks \in Seq(TrackSet(Len(heap)))  BY <1>2, TracksType
<1>5. born \in Nat /\ DOMAIN song.tracks = 1..born  BY <1>3, <1>4
<1>6. SongOk(song, Len(heap), born)
  <2>1. \A j \in DOMAIN song.tracks : song.tracks[j].id =< born  BY <1>2, <1>5
  <2> QED  BY <1>2, <2>1 DEF SongOk, IdsDiffer
<1>7. HistoryOk(history, heap, born)
  <2> DEFINE S == Copies(heap, born)
  <2>1. MaxDepth \in Nat  BY ArrangerAssumption DEF ArrangerAssumption, UndoHistoryAssumption
  <2>2. history = [undo |-> <<>>, redo |-> <<>>] /\ <<>> \in Seq(S) /\ Len(<<>>) = 0  BY <1>3 DEF Empty
  <2> HIDE DEF S
  <2>3. history \in [undo : Seq(S), redo : Seq(S)] /\ Len(history.undo) + Len(history.redo) =< MaxDepth
    BY <2>1, <2>2
  <2> QED  BY <2>3 DEF S, HistoryOk
<1>8. VersionsOk(versions, heap, born)
  <2> DEFINE S == [id : Nat, parent : Nat, snap : Copies(heap, born)]
  <2>1. <<>> \in Seq(S)  OBVIOUS
  <2> HIDE DEF S
  <2>2. versions \in [nodes : Seq(S), next : Nat]  BY <1>3, <2>1
  <2> QED  BY <2>2 DEF S, VersionsOk
<1>9. CopiesOk  BY <1>2, <1>5, <1>6, <1>7, <1>8 DEF CopiesOk, WorldOk, Now
<1>10. sel \in SelSet /\ held \in HeldSet
  <2>1. NoPair \in Pairs  BY DEF NoPair, Pairs
  <2> QED  BY <1>3, <2>1 DEF NoSel, NoRange, SelSet, HeldSet
<1>11. EditorOk  BY <1>3, <1>10 DEF EditorOk
<1> QED  BY <1>9, <1>11 DEF IInv

LEMMA TrackwiseOk ==
    ASSUME IInv, Trackwise
    PROVE  IInv'
<1>1. ASSUME NEW kind \in {"plain", "drum", "practice"}, AddTrack(kind)  PROVE IInv'
  BY <1>1, AddTrackOk
<1>2. ASSUME NEW i \in Tracks, DeleteTrack(i)  PROVE IInv'  BY <1>2, DeleteTrackOk
<1>3. ASSUME NEW i \in Tracks, FreezeTrack(i)  PROVE IInv'  BY <1>3, FreezeTrackOk
<1>4. ASSUME NEW i \in Tracks, UnfreezeTrack(i)  PROVE IInv'  BY <1>4, UnfreezeTrackOk
<1>5. ASSUME NEW i \in Tracks, NEW j \in Tracks, MoveTrack(i, j)  PROVE IInv'  BY <1>5, MoveTrackOk
<1>6. ASSUME NEW i \in Tracks, NEW at \in Places, NEW opens \in BOOLEAN, StartTake(i, at, opens)
      PROVE  IInv'
  BY <1>6, StartTakeOk
<1>7. CASE StopTake  BY <1>7, StopTakeOk
<1>8. CASE NewSong  BY <1>8, NewSongOk
<1> QED  BY <1>1, <1>2, <1>3, <1>4, <1>5, <1>6, <1>7, <1>8 DEF Trackwise

LEMMA MouseOk ==
    ASSUME IInv, Mouse
    PROVE  IInv'
<1>1. ASSUME NEW t \in Tracks, NEW i \in ClipsOn(t), NEW mode \in Modes, NEW grab \in {0, 1},
             PressClip(t, i, mode, grab)
      PROVE  IInv'
  BY <1>1, PressClipOk
<1>2. ASSUME NEW t \in Tracks, NEW i \in ClipsOn(t), ShiftClickClip(t, i)  PROVE IInv'
  BY <1>2, ShiftClickClipOk
<1>3. ASSUME NEW tick \in Places, DragTo(tick)  PROVE IInv'  BY <1>3, DragToOk
<1>4. ASSUME NEW lane \in Tracks \cup {0}, Release(lane)  PROVE IInv'  BY <1>4, ReleaseOk
<1>5. CASE LetGo  BY <1>5, LetGoOk
<1>6. ASSUME NEW t \in Tracks, ClickEmpty(t)  PROVE IInv'  BY <1>6, ClickEmptyOk
<1>7. ASSUME NEW t \in Tracks, NEW i \in DOMAIN song.tracks[t].clips, SelectMidi(t, i)  PROVE IInv'
  BY <1>7, SelectMidiOk
<1>8. ASSUME NEW t \in Tracks, NEW c \in {0} \cup ClipsOn(t), NEW a \in Places, NEW b \in Places,
             SelectRange(t, c, a, b)
      PROVE  IInv'
  BY <1>8, SelectRangeOk
<1> QED  BY <1>1, <1>2, <1>3, <1>4, <1>5, <1>6, <1>7, <1>8 DEF Mouse

\* A menu changes a field of the clip that says nothing of its sound.
LEMMA MenuOk ==
    ASSUME IInv, NEW t \in Tracks, NEW i \in ClipsOn(t), NEW c,
           \/ \E g \in Int : c = [ClipAt(t, i) EXCEPT !.gain = g]
           \/ \E f \in Nat : c = [ClipAt(t, i) EXCEPT !.fadeIn = f]
           \/ \E f \in Nat : c = [ClipAt(t, i) EXCEPT !.fadeOut = f],
           AdjustClip(t, i, c)
    PROVE  IInv'
<1> DEFINE d == ClipAt(t, i)
<1>1. d \in ClipSet
  <2>1. IsClip(<<t, i>>)  BY DEF IsClip
  <2> QED  BY <2>1, ClipType
<1> HIDE DEF d
<1>2. \/ \E g \in Int : c = [d EXCEPT !.gain = g]
      \/ \E f \in Nat : c = [d EXCEPT !.fadeIn = f]
      \/ \E f \in Nat : c = [d EXCEPT !.fadeOut = f]
  BY DEF d
<1>3. c \in ClipSet /\ c.pcm = d.pcm /\ c.bounce = d.bounce  BY <1>1, <1>2 DEF ClipSet
<1>4. c.pcm = ClipAt(t, i).pcm /\ c.bounce = ClipAt(t, i).bounce  BY <1>3 DEF d
<1> QED  BY <1>3, <1>4, AdjustClipOk

LEMMA ClipwiseOk ==
    ASSUME IInv, Clipwise
    PROVE  IInv'
<1>1. ASSUME NEW t \in Tracks, NEW i \in ClipsOn(t), NEW at \in Places, SplitTrackClip(t, i, at)
      PROVE  IInv'
  BY <1>1, SplitTrackClipOk
<1>2. ASSUME NEW t \in Tracks, NEW i \in ClipsOn(t), DeleteTrackClip(t, i)  PROVE IInv'
  BY <1>2, DeleteTrackClipOk
<1>3. ASSUME NEW t \in Tracks, NEW i \in ClipsOn(t), ReverseClip(t, i)  PROVE IInv'
  BY <1>3, ReverseClipOk
<1>4. ASSUME NEW t \in Tracks, NEW I, MergeTrackClips(t, I)  PROVE IInv'
  BY <1>4, MergeTrackClipsOk
<1>5. ASSUME NEW t \in Tracks, NEW i \in ClipsOn(t), NEW g \in Gains \cup {NormalizeGainFor(ClipAt(t, i))},
             AdjustClip(t, i, [ClipAt(t, i) EXCEPT !.gain = g])
      PROVE  IInv'
  <2>1. IsClip(<<t, i>>)  BY DEF IsClip
  <2>2. g \in Int  BY <2>1, ClipType, NormalType, ArrangerAssumption DEF ArrangerAssumption
  <2> QED  BY <1>5, <2>2, MenuOk
<1>6. ASSUME NEW t \in Tracks, NEW i \in ClipsOn(t), NEW f \in Fades,
             \/ AdjustClip(t, i, [ClipAt(t, i) EXCEPT !.fadeIn = f])
             \/ AdjustClip(t, i, [ClipAt(t, i) EXCEPT !.fadeOut = f])
      PROVE  IInv'
  <2>1. f \in Nat  BY ArrangerAssumption DEF ArrangerAssumption
  <2> QED  BY <1>6, <2>1, MenuOk
<1>7. CASE CopySelectedClip  BY <1>7, CopySelectedOk
<1>8. CASE CopyClipRange  BY <1>8, CopyClipRangeOk
<1>9. CASE DuplicateSelectedClips  BY <1>9, DuplicateOk
<1>10. ASSUME NEW t \in Tracks, NEW at \in Places, PasteClipAt(t, at)  PROVE IInv'
  BY <1>10, PasteClipAtOk
<1>11. CASE DeleteKey  BY <1>11, DeleteKeyOk
<1> QED  BY <1>1, <1>2, <1>3, <1>4, <1>5, <1>6, <1>7, <1>8, <1>9, <1>10, <1>11 DEF Clipwise

LEMMA SongwiseOk ==
    ASSUME IInv, Songwise
    PROVE  IInv'
<1>1. ASSUME NEW at \in Places, AddTempo(at) \/ AddMarker(at)  PROVE IInv'
  BY <1>1, AddTempoOk, AddMarkerOk
<1>2. ASSUME NEW k, RemoveTempo(k)  PROVE IInv'  BY <1>2, RemoveTempoOk
<1>3. ASSUME NEW k, NEW at \in Places, MoveTempo(k, at)  PROVE IInv'  BY <1>3, MoveTempoOk
<1>4. ASSUME NEW k, RemoveMarker(k)  PROVE IInv'  BY <1>4, RemoveMarkerOk
<1>5. ASSUME NEW k, NEW at \in Places, MoveMarker(k, at)  PROVE IInv'  BY <1>5, MoveMarkerOk
<1>6. ASSUME NEW t, ClearAutomation(t)  PROVE IInv'  BY <1>6, ClearAutomationOk
<1>7. ASSUME NEW t, NEW at \in Places, NEW g \in Gains, DrawAutomation(t, at, g)  PROVE IInv'
  BY <1>7, DrawAutomationOk
<1>8. ASSUME NEW k, DuplicateSection(k)  PROVE IInv'  BY <1>8, DuplicateSectionOk
<1>9. ASSUME NEW k, DeleteSection(k)  PROVE IInv'  BY <1>9, DeleteSectionOk
<1>10. ASSUME NEW k, NEW j, MoveSection(k, j)  PROVE IInv'  BY <1>10, MoveSectionOk
<1>11. CASE DoUndo  BY <1>11, DoUndoOk
<1>12. CASE DoRedo  BY <1>12, DoRedoOk
<1>13. CASE CheckinVersion  BY <1>13, CheckinVersionOk
<1>14. ASSUME NEW k, CheckoutVersion(k)  PROVE IInv'  BY <1>14, CheckoutVersionOk
<1>15. ASSUME NEW k, DeleteVersion(k)  PROVE IInv'  BY <1>15, DeleteVersionOk
<1> QED
  BY <1>1, <1>2, <1>3, <1>4, <1>5, <1>6, <1>7, <1>8, <1>9, <1>10, <1>11, <1>12, <1>13, <1>14, <1>15
  DEF Songwise

LEMMA NextOk ==
    ASSUME IInv, [Next]_vars
    PROVE  IInv'
<1>1. CASE Trackwise  BY <1>1, TrackwiseOk
<1>2. CASE Mouse  BY <1>2, MouseOk
<1>3. CASE Clipwise  BY <1>3, ClipwiseOk
<1>4. CASE Songwise  BY <1>4, SongwiseOk
<1>5. CASE UNCHANGED vars
  <2>1. CopiesOk'  BY <1>5, NothingMoves DEF vars
  <2>2. EditorOk'  BY <1>5 DEF vars, IInv, EditorOk
  <2> QED  BY <2>1, <2>2 DEF IInv
<1> QED  BY <1>1, <1>2, <1>3, <1>4, <1>5 DEF Next, Step

\* The invariant holds of every state.
THEOREM Invariant == Spec => []IInv
<1>1. Init => IInv  BY InitOk
<1>2. IInv /\ [Next]_vars => IInv'  BY NextOk
<1> QED  BY <1>1, <1>2, PTL DEF Spec

\* Every variable has its type, and the undo stack never outgrows its depth
\* (UndoHistory.h, AppState.h).
THEOREM TypeCorrect == Spec => []TypeOK
<1>1. IInv => TypeOK  BY InvGives
<1> QED  BY <1>1, Invariant, PTL

\* Whatever is done to the shared clips after a copy of the song was made, the copy
\* puts back each of them as it was (makeSongSnapshot, applySongSnapshot).
THEOREM Deep == Spec => []CopiesAreDeep
<1>1. IInv => CopiesAreDeep  BY InvGives
<1> QED  BY <1>1, Invariant, PTL

-----------------------------------------------------------------------------
(* What is remembered by index follows its track. *)

Closed(i, x)      == IF x < i THEN x ELSE IF x = i THEN 0 ELSE x - 1
Carried(i, j, x)  == IF x = 0 THEN 0 ELSE Along(i, j, x)

\* Where a track was deleted, an index that is closed up names the same track, or nothing
\* when that track is the one that went.
LEMMA ClosedFollows ==
    ASSUME IInv, NEW i, DeleteTrack(i), NEW x \in Nat
    PROVE  Follows(song, x, song', Closed(i, x)) /\ 0 \notin DOMAIN song'.tracks
<1> DEFINE v == Copied(IF held.rec = i THEN Taken(Copied(Now)) ELSE Now)
           u == [v.song EXCEPT !.tracks = RemoveAt(v.song.tracks, i)]
           n == Len(song.tracks)
<1>1. /\ WorldOk(v, born) /\ SameTracks(song, v.song) /\ i \in DOMAIN v.song.tracks
      /\ Becomes([v EXCEPT !.song = u])
  BY BeforeDelete
<1>2. song.tracks \in Seq(TrackSet(Len(heap))) /\ IdsDiffer(song, born)
  BY NowFits, WorldType
<1>3. n \in Nat /\ DOMAIN song.tracks = 1..n /\ i \in 1..n  BY <1>1, <1>2 DEF SameTracks
<1> HIDE DEF v, n
<1>4. song' = u
  <2> HIDE DEF u
  <2>1. v = [heap |-> v.heap, song |-> v.song, history |-> v.history]  BY <1>1 DEF WorldOk
  <2>2. [v EXCEPT !.song = u].song = u  BY <2>1
  <2> QED  BY <1>1, <2>2 DEF Becomes
<1> DEFINE ts == RemoveAt(v.song.tracks, i)
<1>5. /\ u.tracks = ts /\ Len(ts) = Len(v.song.tracks) - 1 /\ ts \in Seq(TrackSet(Len(v.heap)))
      /\ \A k \in 1..Len(v.song.tracks) - 1 :
            ts[k] = IF k < i THEN v.song.tracks[k] ELSE v.song.tracks[k + 1]
  <2>1. SongOk(v.song, Len(v.heap), born) /\ v.song.tracks \in Seq(TrackSet(Len(v.heap)))
    BY <1>1, WorldType DEF WorldOk
  <2>2. ts \in Seq(TrackSet(Len(v.heap)))
    <3>1. i \in 1..Len(v.song.tracks)  BY <1>1, <2>1
    <3> QED  BY <2>1, <3>1, RemoveAtIs
  <2> DEFINE s == v.song
  <2>3. SongOk(s, Len(v.heap), born) /\ i \in DOMAIN s.tracks  BY <1>1, <2>1
  <2>4. ts = RemoveAt(s.tracks, i) /\ u = [s EXCEPT !.tracks = RemoveAt(s.tracks, i)]  OBVIOUS
  <2> HIDE DEF s, ts, u
  <2>5. u.tracks = ts  BY <2>3, <2>4, TrackDropped
  <2>6. Len(ts) = Len(s.tracks) - 1
    <3>1. s.tracks \in Seq(TrackSet(Len(v.heap))) /\ i \in 1..Len(s.tracks)
      <4>1. v.song.tracks \in Seq(TrackSet(Len(v.heap)))  BY <2>1
      <4> QED  BY <1>1, <4>1 DEF s
    <3>2. Len(RemoveAt(s.tracks, i)) = Len(s.tracks) - 1  BY <3>1, RemoveAtIs
    <3> QED  BY <2>4, <3>2
  <2>7. \A k \in 1..Len(s.tracks) - 1 :
           RemoveAt(s.tracks, i)[k] = IF k < i THEN s.tracks[k] ELSE s.tracks[k + 1]
    BY <2>3, TrackDropped, ZenonT(40)
  <2>8. \A k \in 1..Len(s.tracks) - 1 : ts[k] = IF k < i THEN s.tracks[k] ELSE s.tracks[k + 1]
    BY <2>4, <2>7
  <2> QED  BY <2>2, <2>5, <2>6, <2>8 DEF s
<1>6. Len(v.song.tracks) = n /\ DOMAIN ts = 1..n - 1
  <2>1. v.song.tracks \in Seq(TrackSet(Len(v.heap)))  BY <1>1, WorldType
  <2>2. DOMAIN v.song.tracks = 1..n  BY <1>1, <1>3 DEF SameTracks
  <2>3. Len(v.song.tracks) = n  BY <1>3, <2>1, <2>2
  <2> HIDE DEF ts
  <2> QED  BY <1>3, <1>5, <2>3
<1> HIDE DEF u, ts
<1>7. \A k \in 1..n - 1 : ts[k].id = IF k < i THEN song.tracks[k].id ELSE song.tracks[k + 1].id
  <2>1. SUFFICES ASSUME NEW k \in 1..n - 1
                 PROVE  ts[k].id = IF k < i THEN song.tracks[k].id ELSE song.tracks[k + 1].id
    OBVIOUS
  <2>2. ts[k] = IF k < i THEN v.song.tracks[k] ELSE v.song.tracks[k + 1]  BY <1>5, <1>6
  <2>3. k \in DOMAIN song.tracks /\ k + 1 \in DOMAIN song.tracks  BY <1>3
  <2>4. v.song.tracks[k].id = song.tracks[k].id /\ v.song.tracks[k + 1].id = song.tracks[k + 1].id
    BY <1>1, <2>3 DEF SameTracks
  <2> QED  BY <2>2, <2>4
<1>8. song'.tracks = ts  BY <1>4, <1>5
<1>9. 0 \notin DOMAIN song'.tracks  BY <1>6, <1>8
<1>10. CASE x \notin 1..n
  <2>1. Closed(i, x) \notin 1..n - 1  BY <1>3, <1>10 DEF Closed
  <2>2. NameOf(song, x) = 0 /\ NameOf(song', Closed(i, x)) = 0
    BY <1>3, <1>6, <1>8, <1>10, <2>1 DEF NameOf
  <2> QED  BY <1>9, <2>2 DEF Follows
<1>11. CASE x \in 1..n /\ x < i
  <2>1. Closed(i, x) = x /\ x \in 1..n - 1  BY <1>3, <1>11 DEF Closed
  <2>2. NameOf(song, x) = song.tracks[x].id /\ NameOf(song', x) = song.tracks[x].id
    BY <1>3, <1>6, <1>7, <1>8, <1>11, <2>1 DEF NameOf
  <2> QED  BY <1>9, <2>1, <2>2 DEF Follows
<1>12. CASE x \in 1..n /\ x > i
  <2>1. Closed(i, x) = x - 1 /\ x - 1 \in 1..n - 1 /\ ~(x - 1 < i) /\ (x - 1) + 1 = x
    BY <1>3, <1>12 DEF Closed
  <2>2. ts[x - 1].id = song.tracks[x].id
    <3>1. ts[x - 1].id = song.tracks[(x - 1) + 1].id  BY <1>7, <2>1
    <3> QED  BY <2>1, <3>1
  <2>3. NameOf(song, x) = song.tracks[x].id /\ NameOf(song', x - 1) = song.tracks[x].id
    BY <1>3, <1>6, <1>8, <1>12, <2>1, <2>2 DEF NameOf
  <2> QED  BY <1>9, <2>1, <2>3 DEF Follows
<1>13. CASE x = i
  <2>1. Closed(i, x) = 0 /\ NameOf(song, x) = song.tracks[i].id
    BY <1>3, <1>13 DEF Closed, NameOf
  <2>2. ASSUME NEW k \in 1..n - 1  PROVE ts[k].id # song.tracks[i].id
    <3>1. k \in 1..n /\ k + 1 \in 1..n /\ (k < i => k # i) /\ (~(k < i) => k + 1 # i)  BY <1>3
    <3>2. k # i => song.tracks[k].id # song.tracks[i].id  BY <1>2, <1>3, <3>1 DEF IdsDiffer
    <3>3. k + 1 # i => song.tracks[k + 1].id # song.tracks[i].id  BY <1>2, <1>3, <3>1 DEF IdsDiffer
    <3> QED  BY <1>7, <3>1, <3>2, <3>3
  <2>3. song.tracks[i].id \notin {song'.tracks[k].id : k \in DOMAIN song'.tracks}
    BY <1>6, <1>8, <2>2
  <2> QED  BY <1>9, <2>1, <2>3 DEF Follows, NamesOf
<1>14. x \notin 1..n \/ (x \in 1..n /\ x < i) \/ (x \in 1..n /\ x > i) \/ x = i  BY <1>3
<1> QED  BY <1>10, <1>11, <1>12, <1>13, <1>14, <1>9

\* Where a track was moved, an index that is carried along names the same track.
LEMMA CarriedFollows ==
    ASSUME IInv, NEW i, NEW j, MoveTrack(i, j), NEW x \in Nat
    PROVE  Follows(song, x, song', Carried(i, j, x)) /\ 0 \notin DOMAIN song'.tracks
<1> DEFINE v  == Copied(Now)
           ts == InsertAt(RemoveAt(song.tracks, i), j, song.tracks[i])
           u  == [song EXCEPT !.tracks = ts]
           n  == Len(song.tracks)
<1>1. /\ WorldOk(v, born) /\ v.song = song /\ SongOk(song, Len(heap), born)
      /\ song.tracks \in Seq(TrackSet(Len(heap)))
  BY NowFits DEF Leads, WorldOk
<1>2. i \in DOMAIN song.tracks /\ j \in DOMAIN song.tracks  BY DEF MoveTrack, Tracks
<1>3. n \in Nat /\ DOMAIN song.tracks = 1..n  BY <1>1
<1>4. song' = u
  <2>1. Becomes([v EXCEPT !.song.tracks = InsertAt(RemoveAt(v.song.tracks, i), j, song.tracks[i])])
    BY DEF MoveTrack
  <2>2. v = [heap |-> v.heap, song |-> v.song, history |-> v.history]  BY <1>1 DEF WorldOk
  <2> HIDE DEF v
  <2>3. [v EXCEPT !.song.tracks = InsertAt(RemoveAt(v.song.tracks, i), j, song.tracks[i])].song = u
    BY <1>1, <2>2
  <2> QED  BY <2>1, <2>3 DEF Becomes
<1>5. /\ u.tracks = ts /\ DOMAIN ts = DOMAIN song.tracks
      /\ \A k \in DOMAIN song.tracks : Along(i, j, k) \in DOMAIN ts /\ ts[Along(i, j, k)] = song.tracks[k]
  <2>1. ts = InsertAt(RemoveAt(song.tracks, i), j, song.tracks[i]) /\ u = [song EXCEPT !.tracks = ts]
    OBVIOUS
  <2> HIDE DEF ts, u
  <2> QED  BY <1>1, <1>2, <2>1, TrackMoved
<1> HIDE DEF u, ts, n
<1>6. CASE x \in 1..n
  <2>1. Carried(i, j, x) = Along(i, j, x)  BY <1>3, <1>6 DEF Carried
  <2>2. Along(i, j, x) \in DOMAIN ts /\ ts[Along(i, j, x)] = song.tracks[x]  BY <1>3, <1>5, <1>6
  <2> QED  BY <1>3, <1>4, <1>5, <1>6, <2>1, <2>2 DEF NameOf, Follows
<1>7. CASE x \notin 1..n
  <2>1. Carried(i, j, x) = x  BY <1>2, <1>3, <1>7 DEF Carried, Along
  <2> QED  BY <1>3, <1>4, <1>5, <1>7, <2>1 DEF NameOf, Follows
<1>8. 0 \notin DOMAIN song'.tracks  BY <1>3, <1>4, <1>5
<1> QED  BY <1>6, <1>7, <1>8

\* Every index goes through one map, and what the map gives names what it was given.
LEMMA MapFollows ==
    ASSUME IInv, NEW at, \A x \in Nat : Follows(song, x, song', at[x]), 0 \notin DOMAIN song'.tracks,
           sel'.clip[1] = at[sel.clip[1]], sel'.range.track = at[sel.range.track],
           sel.track \in DOMAIN song.tracks /\ at[sel.track] \in DOMAIN song'.tracks
               => sel'.track = at[sel.track],
           \A f \in {"asio", "rec", "vst"} : held'[f] = at[held[f]],
           \A p \in sel'.many : \E q \in sel.many : p[1] = at[q[1]]
    PROVE  /\ Remains(song, sel.track, song', sel'.track)
           /\ Follows(song, sel.clip[1], song', sel'.clip[1])
           /\ Follows(song, sel.range.track, song', sel'.range.track)
           /\ \A f \in {"asio", "rec", "vst"} : Follows(song, held[f], song', held'[f])
           /\ {NameOf(song', p[1]) : p \in sel'.many} \ {0} \subseteq {NameOf(song, p[1]) : p \in sel.many}
<1>1. sel.clip[1] \in Nat /\ sel.range.track \in Nat /\ \A q \in sel.many : q[1] \in Nat
  BY DEF IInv, EditorOk, SelSet, Pairs
<1>2. \A f \in {"asio", "rec", "vst"} : held[f] \in Nat  BY DEF IInv, EditorOk, HeldSet
<1>3. ASSUME NEW p \in sel'.many, NameOf(song', p[1]) # 0
      PROVE  NameOf(song', p[1]) \in {NameOf(song, q[1]) : q \in sel.many}
  <2>1. PICK q \in sel.many : p[1] = at[q[1]]  OBVIOUS
  <2>2. Follows(song, q[1], song', p[1])  BY <1>1, <2>1
  <2>3. p[1] # 0  BY <1>3 DEF NameOf
  <2>4. NameOf(song', p[1]) = NameOf(song, q[1])  BY <2>2, <2>3 DEF Follows
  <2> QED  BY <2>4
<1>4. Remains(song, sel.track, song', sel'.track)
  <2>1. SUFFICES ASSUME sel.track \in DOMAIN song.tracks, song.tracks[sel.track].id \in NamesOf(song')
                 PROVE  NameOf(song', sel'.track) = song.tracks[sel.track].id
    BY DEF Remains
  <2>2. sel.track \in Nat /\ song.tracks[sel.track].id # 0
    <3>1. song.tracks \in Seq(TrackSet(Len(heap)))  BY NowFits DEF Leads, WorldOk
    <3>2. song.tracks[sel.track] \in TrackSet(Len(heap))  BY <2>1, <3>1
    <3> QED  BY <3>2 DEF TrackSet, IInv, EditorOk, SelSet
  <2>3. NameOf(song, sel.track) = song.tracks[sel.track].id  BY <2>1 DEF NameOf
  <2>4. NameOf(song', at[sel.track]) = song.tracks[sel.track].id  BY <2>1, <2>2, <2>3 DEF Follows
  <2>5. at[sel.track] \in DOMAIN song'.tracks  BY <2>2, <2>4 DEF NameOf
  <2> QED  BY <2>1, <2>4, <2>5
<1> QED  BY <1>1, <1>2, <1>3, <1>4

LEMMA DeleteFollows ==
    ASSUME IInv, NEW i, DeleteTrack(i)
    PROVE  /\ Remains(song, sel.track, song', sel'.track)
           /\ Follows(song, sel.clip[1], song', sel'.clip[1])
           /\ Follows(song, sel.range.track, song', sel'.range.track)
           /\ \A f \in {"asio", "rec", "vst"} : Follows(song, held[f], song', held'[f])
           /\ {NameOf(song', p[1]) : p \in sel'.many} \ {0} \subseteq {NameOf(song, p[1]) : p \in sel.many}
           /\ Follows(song, sel.midi[1], song', sel'.midi[1])
<1> DEFINE at == [x \in Nat |-> Closed(i, x)]
           left  == Len(song.tracks) - 1
           track == Closed(i, sel.track)
           many  == {<<Closed(i, p[1]), p[2]>> : p \in sel.many}
<1>1. sel \in SelSet /\ held \in HeldSet  BY DEF IInv, EditorOk
<1>2. sel' = [sel EXCEPT
             !.track = IF track = 0 THEN 1 ELSE IF track > left THEN Max({1, left}) ELSE track,
             !.clip  = IF Closed(i, sel.clip[1]) = 0 THEN NoPair ELSE <<Closed(i, sel.clip[1]), sel.clip[2]>>,
             !.midi  = IF Closed(i, sel.midi[1]) = 0 THEN NoPair ELSE <<Closed(i, sel.midi[1]), sel.midi[2]>>,
             !.range = IF Closed(i, sel.range.track) = 0 THEN NoRange
                       ELSE [sel.range EXCEPT !.track = Closed(i, sel.range.track)],
             !.many  = {p \in many : p[1] # 0}]
      /\ held' = [held EXCEPT !.asio = Closed(i, held.asio), !.rec = Closed(i, held.rec),
                              !.vst = Closed(i, held.vst)]
  BY DEF DeleteTrack, Closed
<1>3. \A x \in Nat : Follows(song, x, song', at[x])  BY ClosedFollows
<1>4. 0 \notin DOMAIN song'.tracks
  <2>1. 0 \in Nat  OBVIOUS
  <2> QED  BY <2>1, ClosedFollows
<1>5. \A x \in Nat : at[x] = Closed(i, x)  OBVIOUS
<1>11. sel.track \in DOMAIN song.tracks /\ at[sel.track] \in DOMAIN song'.tracks
       => sel'.track = at[sel.track]
  <2>1. ASSUME sel.track \in DOMAIN song.tracks, track # 0  PROVE track <= left
    <3>1. song.tracks \in Seq(TrackSet(Len(heap)))  BY NowFits DEF Leads, WorldOk
    <3>2. i \in DOMAIN song.tracks  BY DEF DeleteTrack, Tracks
    <3> QED  BY <2>1, <3>1, <3>2 DEF Closed
  <2>2. sel.track \in Nat  BY <1>1 DEF SelSet
  <2>3. sel'.track = IF track = 0 THEN 1 ELSE IF track > left THEN Max({1, left}) ELSE track
    BY <1>1, <1>2 DEF SelSet
  <2>4. track \in Nat /\ left \in Int
    <3>1. song.tracks \in Seq(TrackSet(Len(heap)))  BY NowFits DEF Leads, WorldOk
    <3>2. i \in Nat  BY <3>1 DEF DeleteTrack, Tracks
    <3> QED  BY <2>2, <3>1, <3>2 DEF Closed
  <2> HIDE DEF at, track, left
  <2>5. at[sel.track] = track  BY <1>5, <2>2 DEF track
  <2> QED  BY <1>4, <2>1, <2>3, <2>4, <2>5
<1> HIDE DEF at, track, left
<1>6. sel.clip[1] \in Nat /\ sel.range.track \in Nat /\ \A q \in sel.many : q[1] \in Nat
  BY <1>1 DEF SelSet, Pairs
<1>7. sel'.clip[1] = at[sel.clip[1]]
  <2>1. sel'.clip = IF Closed(i, sel.clip[1]) = 0 THEN NoPair ELSE <<Closed(i, sel.clip[1]), sel.clip[2]>>
    BY <1>1, <1>2 DEF SelSet
  <2> QED  BY <1>5, <1>6, <2>1 DEF NoPair
<1>8. sel'.range.track = at[sel.range.track]
  <2>1. sel'.range = IF Closed(i, sel.range.track) = 0 THEN NoRange
                     ELSE [sel.range EXCEPT !.track = Closed(i, sel.range.track)]
    BY <1>1, <1>2 DEF SelSet
  <2>2. sel.range \in [track : Nat, clip : Nat, from : Nat, to : Nat]  BY <1>1 DEF SelSet
  <2> QED  BY <1>5, <1>6, <2>1, <2>2 DEF NoRange
<1>9. \A f \in {"asio", "rec", "vst"} : held'[f] = at[held[f]]
  BY <1>1, <1>2, <1>5 DEF HeldSet
<1>10. \A p \in sel'.many : \E q \in sel.many : p[1] = at[q[1]]
  <2>1. sel'.many = {p \in many : p[1] # 0}  BY <1>1, <1>2 DEF SelSet
  <2> QED  BY <1>5, <1>6, <2>1
<1>12. sel'.midi[1] = at[sel.midi[1]] /\ sel.midi[1] \in Nat
  <2>1. sel'.midi = IF Closed(i, sel.midi[1]) = 0 THEN NoPair ELSE <<Closed(i, sel.midi[1]), sel.midi[2]>>
    BY <1>1, <1>2 DEF SelSet
  <2>2. sel.midi[1] \in Nat  BY <1>1 DEF SelSet, Pairs
  <2> QED  BY <1>5, <2>1, <2>2 DEF NoPair
<1> QED  BY <1>3, <1>4, <1>7, <1>8, <1>9, <1>10, <1>11, <1>12, MapFollows

LEMMA MoveFollows ==
    ASSUME IInv, NEW i, NEW j, MoveTrack(i, j)
    PROVE  /\ Remains(song, sel.track, song', sel'.track)
           /\ Follows(song, sel.clip[1], song', sel'.clip[1])
           /\ Follows(song, sel.range.track, song', sel'.range.track)
           /\ \A f \in {"asio", "rec", "vst"} : Follows(song, held[f], song', held'[f])
           /\ {NameOf(song', p[1]) : p \in sel'.many} \ {0} \subseteq {NameOf(song, p[1]) : p \in sel.many}
<1> DEFINE at == [x \in Nat |-> Carried(i, j, x)]
<1>1. sel \in SelSet /\ held \in HeldSet /\ Remapped(i, j)  BY DEF IInv, EditorOk, MoveTrack
<1>2. sel' = [sel EXCEPT !.track = Carried(i, j, sel.track),
                  !.clip = [sel.clip EXCEPT ![1] = Carried(i, j, sel.clip[1])],
                  !.range = [sel.range EXCEPT !.track = Carried(i, j, sel.range.track)],
                  !.many = {<<Carried(i, j, p[1]), p[2]>> : p \in sel.many}]
      /\ held' = [held EXCEPT !.asio = Carried(i, j, held.asio), !.rec = Carried(i, j, held.rec),
                              !.vst = Carried(i, j, held.vst)]
  BY <1>1 DEF Remapped, Carried
<1>3. \A x \in Nat : Follows(song, x, song', at[x])  BY CarriedFollows
<1>4. 0 \notin DOMAIN song'.tracks
  <2>1. 0 \in Nat  OBVIOUS
  <2> QED  BY <2>1, CarriedFollows
<1>5. \A x \in Nat : at[x] = Carried(i, j, x)  OBVIOUS
<1> HIDE DEF at
<1>6. sel.clip[1] \in Nat /\ sel.range.track \in Nat /\ \A q \in sel.many : q[1] \in Nat
  BY <1>1 DEF SelSet, Pairs
<1>11. sel'.track = at[sel.track]  BY <1>1, <1>2, <1>5 DEF SelSet
<1>7. sel'.clip[1] = at[sel.clip[1]]
  <2>1. sel'.clip = [sel.clip EXCEPT ![1] = Carried(i, j, sel.clip[1])] /\ sel.clip \in Pairs
    BY <1>1, <1>2 DEF SelSet
  <2> QED  BY <1>5, <1>6, <2>1 DEF Pairs
<1>8. sel'.range.track = at[sel.range.track]
  <2>1. sel'.range = [sel.range EXCEPT !.track = Carried(i, j, sel.range.track)]
    BY <1>1, <1>2 DEF SelSet
  <2>2. sel.range \in [track : Nat, clip : Nat, from : Nat, to : Nat]  BY <1>1 DEF SelSet
  <2> QED  BY <1>5, <1>6, <2>1, <2>2
<1>9. \A f \in {"asio", "rec", "vst"} : held'[f] = at[held[f]]
  BY <1>1, <1>2, <1>5 DEF HeldSet
<1>10. \A p \in sel'.many : \E q \in sel.many : p[1] = at[q[1]]
  <2>1. sel'.many = {<<Carried(i, j, p[1]), p[2]>> : p \in sel.many}  BY <1>1, <1>2 DEF SelSet
  <2> QED  BY <1>5, <1>6, <2>1
<1> QED  BY <1>3, <1>4, <1>7, <1>8, <1>9, <1>10, <1>11, MapFollows

\* When tracks are deleted or moved about, the selected track stays selected if it is still
\* there, and the selected clips, the stretch, the input, the take and the instrument's
\* window name the same track or nothing; so does the selected MIDI clip after a deletion
\* (deleteTrack, moveTrackTo).  What moveTrackTo leaves where it was is not said of it.
THEOREM IndicesFollow == Spec => IndicesFollowTheirTracks
<1> DEFINE Ordered == \E i \in Tracks : DeleteTrack(i) \/ \E j \in Tracks : MoveTrack(i, j)
           Deleted == \E i \in Tracks : DeleteTrack(i)
           Followed ==
             /\ Remains(song, sel.track, song', sel'.track)
             /\ Follows(song, sel.clip[1], song', sel'.clip[1])
             /\ Follows(song, sel.range.track, song', sel'.range.track)
             /\ \A f \in {"asio", "rec", "vst"} : Follows(song, held[f], song', held'[f])
             /\ {NameOf(song', p[1]) : p \in sel'.many} \ {0} \subseteq {NameOf(song, p[1]) : p \in sel.many}
           ClipFollowed == Follows(song, sel.midi[1], song', sel'.midi[1])
<1>1. IInv /\ Ordered => Followed
  <2>1. SUFFICES ASSUME IInv, Ordered  PROVE Followed  OBVIOUS
  <2>2. PICK i \in Tracks : DeleteTrack(i) \/ \E j \in Tracks : MoveTrack(i, j)  BY <2>1
  <2> HIDE DEF Ordered, Followed
  <2>3. CASE DeleteTrack(i)  BY <2>1, <2>3, DeleteFollows DEF Followed
  <2>4. ASSUME NEW j \in Tracks, MoveTrack(i, j)  PROVE Followed  BY <2>1, <2>4, MoveFollows DEF Followed
  <2> QED  BY <2>2, <2>3, <2>4
<1>2. IInv /\ Deleted => ClipFollowed
  <2>1. SUFFICES ASSUME IInv, Deleted  PROVE ClipFollowed  OBVIOUS
  <2>2. PICK i \in Tracks : DeleteTrack(i)  BY <2>1
  <2> QED  BY <2>1, <2>2, DeleteFollows
<1>3. IInv /\ [Next]_vars => [(Ordered => Followed) /\ (Deleted => ClipFollowed)]_vars  BY <1>1, <1>2
<1> QED  BY <1>3, Invariant, PTL DEF Spec, IndicesFollowTheirTracks
==============================================================================
