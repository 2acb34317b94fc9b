-------------------------------- MODULE Facts ---------------------------------
(***************************************************************************)
(* What the proofs about several components need: least and greatest       *)
(* elements (the code looks for the nearest timer, the lowest free         *)
(* descriptor, the last used event: the specifications say CHOOSE or Min   *)
(* and Max), lists, and seconds with milliseconds.                         *)
(***************************************************************************)
EXTENDS Integers, Sequences, SequencesExt, FiniteSetTheorems, SequenceTheorems, WellFoundedInduction, TLAPS

(* A finite set of integers that is not empty has a least element: strict  *)
(* inclusion of the sets of what lies below an element is well-founded.    *)
THEOREM LeastOfFinite ==
  ASSUME NEW S, S \subseteq Int, S # {}, IsFiniteSet(S)
  PROVE  \E x \in S : \A y \in S : x <= y
<1> DEFINE upTo(x) == {z \in S : z <= x}
           R == StrictSubsetOrdering(S)
           T == {upTo(x) : x \in S}
<1>1. IsWellFoundedOn(R, SUBSET S)
  BY FS_StrictSubsetOrderingWellFounded, FS_FiniteSubsetsOfFinite
<1>2. T \subseteq SUBSET S /\ T # {}
  OBVIOUS
<1>3. \E t \in T : \A u \in T : ~(<<u, t>> \in R)
  <2> HIDE DEF R, T
  <2> QED
    BY <1>1, <1>2, WFMin, Zenon
<1>4. PICK x \in S : \A y \in S : ~(<<upTo(y), upTo(x)>> \in R)
  BY <1>3
<1>5. ASSUME NEW y \in S, y < x
      PROVE  FALSE
  <2>1. ASSUME NEW z \in upTo(y)
        PROVE  z \in upTo(x)
    <3>1. z \in S /\ z <= y /\ z \in Int /\ x \in Int /\ y \in Int
      OBVIOUS
    <3> QED
      BY <3>1, <1>5
  <2>2. x \in upTo(x) /\ x \notin upTo(y)
    <3>1. x \in Int /\ y \in Int
      OBVIOUS
    <3> QED
      BY <3>1, <1>5
  <2>3. <<upTo(y), upTo(x)>> \in R
    BY <2>1, <2>2 DEF StrictSubsetOrdering
  <2> QED
    BY <2>3, <1>4
<1> QED
  BY <1>5

(* And a greatest one.                                                     *)
THEOREM GreatestOfFinite ==
  ASSUME NEW S, S \subseteq Int, S # {}, IsFiniteSet(S)
  PROVE  \E x \in S : \A y \in S : y <= x
<1> DEFINE f == [x \in S |-> -x]
           T == {f[x] : x \in S}
<1>1. \A x \in S : x \in Int /\ f[x] = -x /\ f[x] \in T
  OBVIOUS
<1>2. T \subseteq Int /\ T # {}
  <2>1. ASSUME NEW y \in T
        PROVE  y \in Int
    <3>1. PICK x \in S : y = f[x]
      OBVIOUS
    <3> QED
      BY <1>1, <3>1
  <2>2. T # {}
    BY <1>1
  <2> QED
    BY <2>1, <2>2
<1>3. f \in Surjection(S, T)
  BY DEF Surjection
<1>4. \E x \in T : \A y \in T : x <= y
  <2>1. IsFiniteSet(T)
    <3> HIDE DEF f, T
    <3> QED
      BY <1>3, FS_Surjection
  <2> HIDE DEF T
  <2> QED
    BY <1>2, <2>1, LeastOfFinite
<1>5. PICK x \in S : \A y \in T : f[x] <= y
  BY <1>4
<1>6. ASSUME NEW y \in S
      PROVE  y <= x
  <2>1. f[x] <= f[y] /\ f[x] = -x /\ f[y] = -y /\ x \in Int /\ y \in Int
    BY <1>1, <1>5
  <2> HIDE DEF f
  <2> QED
    BY <2>1
<1> QED
  BY <1>6

(* The least-number principle: with it, a proof by contradiction is a      *)
(* proof by induction.                                                     *)
THEOREM LeastNatural ==
  ASSUME NEW S, S \subseteq Nat, S # {}
  PROVE  \E x \in S : \A y \in S : x <= y
<1>1. PICK n \in S : n \in Nat
  OBVIOUS
<1> DEFINE T == {x \in S : x <= n}
<1>2. T \subseteq Int /\ T # {}
  <2>1. n \in T /\ \A x \in T : x \in S
    BY <1>1
  <2>2. \A x \in T : x \in Int
    BY <2>1
  <2> HIDE DEF T
  <2> QED
    BY <2>1, <2>2
<1>3. IsFiniteSet(T)
  <2>1. ASSUME NEW x \in T
        PROVE  x \in 0..n
    <3>1. x \in Nat /\ x <= n
      OBVIOUS
    <3> QED
      BY <1>1, <3>1
  <2>2. IsFiniteSet(0..n)
    BY <1>1, FS_Interval
  <2>3. T \in SUBSET (0..n)
    BY <2>1
  <2> QED
    BY <2>2, <2>3, FS_Subset
<1>4. PICK x \in T : \A y \in T : x <= y
  <2> HIDE DEF T
  <2> QED
    BY <1>2, <1>3, LeastOfFinite
<1>5. ASSUME NEW y \in S
      PROVE  x <= y
  <2>1. x \in Nat /\ x <= n /\ y \in Nat
    OBVIOUS
  <2> QED
    BY <1>1, <1>4, <2>1
<1> QED
  BY <1>5

(* The numbers from 1 on.                                                   *)
LEMMA FirstNaturals ==
  ASSUME NEW n \in Nat
  PROVE  IsFiniteSet(1..n) /\ Cardinality(1..n) = n
  BY FS_Interval

(* Induction up to n: what holds of 0 and is passed on holds throughout.   *)
LEMMA Induction ==
  ASSUME NEW n \in Nat, NEW S, 0 \in S, \A i \in 0..(n - 1) : i \in S => i + 1 \in S
  PROVE  0..n \subseteq S
<1> DEFINE T == (0..n) \ S
<1>1. SUFFICES ASSUME T # {}
               PROVE  FALSE
  OBVIOUS
<1>2. T \subseteq Nat
  OBVIOUS
<1>3. PICK x \in T : \A y \in T : x <= y
  <2> HIDE DEF T
  <2> QED
    BY <1>1, <1>2, LeastNatural
<1>4. x \in 0..n /\ x \notin S /\ x # 0
  OBVIOUS
<1>5. x - 1 \in 0..(n - 1) /\ x - 1 \notin T
  BY <1>3, <1>4
<1>6. x - 1 \in S
  BY <1>5
<1> QED
  BY <1>4, <1>5, <1>6

(* A recursive function exists: each value is made of the one before it.   *)
Recursive(f, n, V, a, g) ==
  /\ f \in [1..n -> V]
  /\ \A i \in 1..n : f[i] = IF i = 1 THEN a ELSE g[<<i, f[i - 1]>>]

LEMMA Recursion ==
  ASSUME NEW n, NEW V, NEW a, NEW g,
         n \in Nat, a \in V, g \in [(1..n) \X V -> V]
  PROVE  \E f : Recursive(f, n, V, a, g)
<1> DEFINE Rec(f, k) == \A i \in 1..k : f[i] = IF i = 1 THEN a ELSE g[<<i, f[i - 1]>>]
           S == {k \in 0..n : \E f \in [1..n -> V] : Rec(f, k)}
<1>1. 0 \in S
  <2> DEFINE h == [i \in 1..n |-> a]
  <2>1. h \in [1..n -> V] /\ Rec(h, 0) /\ 0 \in 0..n
    OBVIOUS
  <2> HIDE DEF h, Rec
  <2> QED
    BY <2>1
<1>2. ASSUME NEW k \in 0..(n - 1), k \in S
      PROVE  k + 1 \in S
  <2>1. PICK f \in [1..n -> V] : Rec(f, k)
    BY <1>2
  <2> DEFINE v == IF k = 0 THEN a ELSE g[<<k + 1, f[k]>>]
             h == [f EXCEPT ![k + 1] = v]
  <2>2. v \in V
    <3>1. k + 1 \in 1..n /\ (k # 0 => k \in 1..n)
      OBVIOUS
    <3> QED
      BY <3>1
  <2>3. h \in [1..n -> V] /\ h[k + 1] = v /\ \A i \in 1..k : h[i] = f[i]
    <3> HIDE DEF v
    <3> QED
      BY <2>2
  <2>4. ASSUME NEW i \in 1..(k + 1)
        PROVE  h[i] = IF i = 1 THEN a ELSE g[<<i, h[i - 1]>>]
    <3>1. CASE i = k + 1
      <4>1. k = 0 \/ (k \in 1..k /\ h[k] = f[k])
        BY <2>3
      <4>2. h[i] = v /\ i - 1 = k
        BY <2>3, <3>1
      <4> HIDE DEF h
      <4>3. CASE k = 0
        BY <3>1, <4>2, <4>3
      <4>4. CASE k # 0
        <5>1. h[k] = f[k] /\ i # 1
          BY <3>1, <4>1, <4>4
        <5> QED
          BY <3>1, <4>2, <4>4, <5>1
      <4> QED
        BY <4>3, <4>4
    <3>2. CASE i # k + 1
      <4>1. i \in 1..k /\ (i # 1 => i - 1 \in 1..k)
        BY <3>2
      <4>2. h[i] = f[i] /\ (i # 1 => h[i - 1] = f[i - 1])
        BY <2>3, <4>1
      <4> HIDE DEF h
      <4> QED
        BY <2>1, <4>1, <4>2
    <3> QED
      BY <3>1, <3>2
  <2>5. Rec(h, k + 1) /\ k + 1 \in 0..n
    BY <2>4
  <2> HIDE DEF h, Rec
  <2> QED
    BY <2>3, <2>5
<1>3. n \in S
  <2> HIDE DEF S
  <2>1. 0..n \subseteq S
    BY <1>1, <1>2, Induction
  <2> QED
    BY <2>1
<1> QED
  BY <1>3 DEF Recursive

(* The same for a recursion that starts from 0.                             *)
StartsAtZero(h, n, V, a, g) ==
  h \in [0..n -> V] /\ h[0] = a /\ \A i \in 1..n : h[i] = g[<<i, h[i - 1]>>]

LEMMA RecursionFromZero ==
  ASSUME NEW n, NEW V, NEW a, NEW g,
         n \in Nat, a \in V, g \in [(1..n) \X V -> V]
  PROVE  \E h : StartsAtZero(h, n, V, a, g)
<1> DEFINE m == n + 1
           next(p) == IF p[1] = 1 THEN a ELSE g[<<p[1] - 1, p[2]>>]
           e == [p \in (1..m) \X V |-> next(p)]
<1>1. m \in Nat /\ m - 1 = n
  OBVIOUS
<1>2. e \in [(1..m) \X V -> V]
  <2>1. ASSUME NEW p \in (1..m) \X V
        PROVE  next(p) \in V
    <3>1. p[1] # 1 => <<p[1] - 1, p[2]>> \in (1..n) \X V
      OBVIOUS
    <3>2. p[1] # 1 => g[<<p[1] - 1, p[2]>>] \in V
      BY <3>1
    <3> QED
      BY <3>2
  <2> HIDE DEF next
  <2> QED
    BY <2>1
<1>3. PICK f : Recursive(f, m, V, a, e)
  <2> HIDE DEF e, m
  <2> QED
    BY <1>1, <1>2, Recursion
<1>4. f \in [1..m -> V] /\ \A i \in 1..m : f[i] = IF i = 1 THEN a ELSE e[<<i, f[i - 1]>>]
  BY <1>3 DEF Recursive
<1> DEFINE h == [i \in 0..n |-> f[i + 1]]
<1>5. h \in [0..n -> V]
  BY <1>4
<1>6. h[0] = a
  <2>1. h[0] = f[1] /\ 1 \in 1..m
    OBVIOUS
  <2>2. f[1] = a
    <3> HIDE DEF e, m, h
    <3> QED
      BY <1>4, <2>1
  <2> QED
    BY <2>1, <2>2
<1>7. ASSUME NEW i \in 1..n
      PROVE  h[i] = g[<<i, h[i - 1]>>]
  <2>1. /\ i + 1 \in 1..m /\ i + 1 # 1 /\ (i + 1) - 1 = i /\ i \in 1..m
        /\ i \in 0..n /\ i - 1 \in 0..n /\ (i - 1) + 1 = i
    OBVIOUS
  <2>2. h[i] = f[i + 1] /\ h[i - 1] = f[i]
    BY <2>1
  <2>3. f[i + 1] = e[<<i + 1, f[i]>>]
    <3> HIDE DEF e, m, h
    <3>1. f[i + 1] = IF i + 1 = 1 THEN a ELSE e[<<i + 1, f[(i + 1) - 1]>>]
      BY <1>4, <2>1
    <3> QED
      BY <2>1, <3>1
  <2>4. <<i + 1, f[i]>> \in (1..m) \X V
    BY <1>4, <2>1
  <2>5. e[<<i + 1, f[i]>>] = g[<<i, f[i]>>]
    BY <2>1, <2>4
  <2> QED
    BY <2>2, <2>3, <2>5
<1>8. StartsAtZero(h, n, V, a, g)
  <2> HIDE DEF h
  <2> QED
    BY <1>5, <1>6, <1>7 DEF StartsAtZero
<1> QED
  BY <1>8

(* How FlattenSeq() comes to its result.                                   *)
Flattening(f, ss) ==
  /\ FlattenSeq(ss) = f[Len(ss)]
  /\ \A i \in 1..Len(ss) : f[i] = IF i = 1 THEN ss[1] ELSE f[i - 1] \o ss[i]

LEMMA FlattenSteps ==
  ASSUME NEW S, NEW ss \in Seq(Seq(S)), Len(ss) # 0
  PROVE  \E f \in [1..Len(ss) -> Seq(S)] : Flattening(f, ss)
<1> DEFINE n == Len(ss)
           V == Seq(S)
           a == ss[1]
           g == [x \in (1..n) \X V |-> x[2] \o ss[x[1]]]
           Body(f, i) == IF i = 1 THEN ss[i] ELSE f[i - 1] \o ss[i]
           Good(f) == f = [i \in 1..n |-> Body(f, i)]
<1>1. n \in Nat /\ n # 0 /\ a \in V /\ \A i \in 1..n : ss[i] \in V
  OBVIOUS
<1>2. g \in [(1..n) \X V -> V]
  <2>1. ASSUME NEW x \in (1..n) \X V
        PROVE  x[2] \o ss[x[1]] \in V
    <3>1. x[2] \in Seq(S) /\ ss[x[1]] \in Seq(S)
      BY <1>1
    <3> QED
      BY <3>1
  <2> HIDE DEF n, V
  <2> QED
    BY <2>1
<1>3. PICK h \in [1..n -> V] :
        \A i \in 1..n : h[i] = IF i = 1 THEN a ELSE g[<<i, h[i - 1]>>]
  <2> HIDE DEF n, V, a, g
  <2>1. n \in Nat /\ a \in V
    BY <1>1
  <2>2. \E h : Recursive(h, n, V, a, g)
    BY <2>1, <1>2, Recursion
  <2> QED
    BY <2>2 DEF Recursive
<1>4. ASSUME NEW f \in [1..n -> V], NEW i \in 1..n
      PROVE  g[<<i, f[i - 1]>>] = f[i - 1] \o ss[i] \/ i = 1
  <2>1. CASE i # 1
    <3>1. i - 1 \in 1..n
      BY <1>1, <2>1
    <3>2. f[i - 1] \in V
      BY <3>1
    <3> HIDE DEF n, V
    <3> QED
      BY <3>2
  <2> QED
    BY <2>1
<1>5. Good(h)
  <2>1. \A i \in 1..n : h[i] = Body(h, i)
    <3> HIDE DEF g, n, V
    <3> QED
      BY <1>3, <1>4
  <2> HIDE DEF Body
  <2> QED
    BY <2>1
<1> DEFINE F == CHOOSE f : Good(f)
<1>6. Good(F)
  <2> HIDE DEF Good
  <2> QED
    BY <1>5
<1>7. FlattenSeq(ss) = F[n]
  BY DEF FlattenSeq
<1> HIDE DEF F
<1>8. DOMAIN F = 1..n /\ \A i \in 1..n : F[i] = Body(F, i)
  <2> HIDE DEF Body
  <2> QED
    BY <1>6
<1> DEFINE T == {i \in 0..n : i = 0 \/ F[i] = h[i]}
<1>9. ASSUME NEW i \in 0..(n - 1), i \in T
      PROVE  i + 1 \in T
  <2>1. i + 1 \in 1..n /\ (i # 0 => F[i] = h[i]) /\ (i + 1) - 1 = i
    BY <1>1, <1>9
  <2>2. F[i + 1] = Body(F, i + 1) /\ h[i + 1] = Body(h, i + 1)
    <3> HIDE DEF Body
    <3> QED
      BY <1>5, <1>8, <2>1
  <2>3. F[i + 1] = h[i + 1]
    BY <2>1, <2>2
  <2> QED
    BY <2>1, <2>3
<1>10. 0..n \subseteq T
  <2>1. 0 \in T
    BY <1>1
  <2> HIDE DEF T, n
  <2> QED
    BY <1>1, <1>9, <2>1, Induction
<1>11. F = h
  <2>1. ASSUME NEW i \in 1..n
        PROVE  F[i] = h[i]
    <3>1. i \in 0..n /\ i # 0
      BY <1>1
    <3>2. i \in T
      BY <1>10, <3>1
    <3> QED
      BY <3>1, <3>2
  <2>2. F = [i \in 1..n |-> Body(F, i)] /\ h = [i \in 1..n |-> h[i]]
    BY <1>6
  <2>3. F = [i \in 1..n |-> F[i]]
    <3> HIDE DEF Body
    <3> QED
      BY <2>2
  <2> QED
    <3> HIDE DEF n, Body
    <3> QED
      BY <2>1, <2>2, <2>3
<1>12. \A i \in 1..n : h[i] = IF i = 1 THEN a ELSE h[i - 1] \o ss[i]
  <2> HIDE DEF g, n, V, a
  <2> QED
    BY <1>3, <1>4
<1>13. Flattening(h, ss)
  <2> HIDE DEF g
  <2> QED
    BY <1>7, <1>11, <1>12 DEF Flattening
<1> QED
  BY <1>13

(* Flattening one more sequence, and none.                                 *)
LEMMA Flatten ==
  ASSUME NEW S, NEW ss \in Seq(Seq(S)), NEW s \in Seq(S)
  PROVE  /\ FlattenSeq(ss) \in Seq(S)
         /\ FlattenSeq(<<>>) = <<>>
         /\ FlattenSeq(Append(ss, s)) = FlattenSeq(ss) \o s
<1>1. FlattenSeq(<<>>) = <<>>
  BY DEF FlattenSeq
<1> DEFINE n == Len(ss)
           tt == Append(ss, s)
<1>2. /\ tt \in Seq(Seq(S)) /\ Len(tt) = n + 1 /\ n \in Nat
      /\ tt[n + 1] = s /\ \A i \in 1..n : tt[i] = ss[i] /\ ss[i] \in Seq(S)
  OBVIOUS
<1>3. PICK h \in [1..Len(tt) -> Seq(S)] :
           /\ FlattenSeq(tt) = h[Len(tt)]
           /\ \A i \in 1..Len(tt) : h[i] = IF i = 1 THEN tt[1] ELSE h[i - 1] \o tt[i]
  <2> HIDE DEF tt, n
  <2>1. tt \in Seq(Seq(S)) /\ Len(tt) # 0
    BY <1>2
  <2>2. PICK h \in [1..Len(tt) -> Seq(S)] : Flattening(h, tt)
    BY <2>1, FlattenSteps
  <2> QED
    BY <2>2 DEF Flattening
<1> HIDE DEF tt
<1>4. CASE n = 0
  <2>1. FlattenSeq(ss) = <<>> /\ ss = <<>>
    BY <1>1, <1>4
  <2>2. FlattenSeq(tt) = s
    <3>1. Len(tt) = 1 /\ 1 \in 1..Len(tt) /\ tt[1] = s
      BY <1>2, <1>4
    <3> QED
      BY <1>3, <3>1
  <2>3. <<>> \o s = s /\ <<>> \in Seq(S)
    OBVIOUS
  <2> QED
    BY <1>1, <2>1, <2>2, <2>3 DEF tt
<1>5. CASE n # 0
  <2>1. PICK f \in [1..n -> Seq(S)] :
           /\ FlattenSeq(ss) = f[n]
           /\ \A i \in 1..n : f[i] = IF i = 1 THEN ss[1] ELSE f[i - 1] \o ss[i]
    <3>1. PICK f \in [1..n -> Seq(S)] : Flattening(f, ss)
      BY <1>5, FlattenSteps
    <3> QED
      BY <3>1 DEF Flattening
  <2> DEFINE T == {i \in 0..n : i = 0 \/ f[i] = h[i]}
  <2> HIDE DEF n
  <2>2. ASSUME NEW i \in 0..(n - 1), i \in T
        PROVE  i + 1 \in T
    <3>1. /\ i + 1 \in 1..n /\ i + 1 \in 1..Len(tt) /\ (i # 0 => f[i] = h[i])
          /\ (i + 1) - 1 = i /\ tt[i + 1] = ss[i + 1] /\ tt[1] = ss[1]
      <4>1. i + 1 \in 1..n /\ (i + 1) - 1 = i /\ 1 \in 1..n
        BY <1>2, <1>5
      <4>2. Len(tt) = n + 1 /\ n \in Nat
        BY <1>2
      <4>3. i + 1 \in 1..Len(tt)
        BY <4>1, <4>2
      <4>4. tt[i + 1] = ss[i + 1] /\ tt[1] = ss[1]
        BY <1>2, <4>1
      <4>5. i # 0 => f[i] = h[i]
        BY <2>2
      <4> HIDE DEF T
      <4> QED
        BY <4>1, <4>3, <4>4, <4>5
    <3>2. /\ f[i + 1] = IF i + 1 = 1 THEN ss[1] ELSE f[(i + 1) - 1] \o ss[i + 1]
          /\ h[i + 1] = IF i + 1 = 1 THEN tt[1] ELSE h[(i + 1) - 1] \o tt[i + 1]
      BY <1>3, <2>1, <3>1
    <3>3. f[i + 1] = h[i + 1]
      BY <3>1, <3>2
    <3> QED
      BY <3>1, <3>3
  <2>3. 0..n \subseteq T
    <3>1. 0 \in T
      BY <1>2
    <3> HIDE DEF T
    <3> QED
      BY <1>2, <2>2, <3>1, Induction
  <2>4. n \in 0..n /\ n \in 1..n /\ n + 1 \in 1..Len(tt) /\ (n + 1) - 1 = n /\ n + 1 # 1
    BY <1>2, <1>5
  <2>5. f[n] = h[n]
    <3>1. n \in T /\ n # 0
      BY <1>5, <2>3, <2>4
    <3> QED
      BY <3>1
  <2>6. FlattenSeq(tt) = h[n] \o s
    BY <1>2, <1>3, <2>4
  <2>7. f[n] \in Seq(S)
    BY <2>4
  <2> QED
    BY <1>1, <2>1, <2>5, <2>6, <2>7 DEF tt
<1> QED
  BY <1>4, <1>5

(* Where the first k of the sequences end in the flattened one, and that   *)
(* each of them lies there whole.                                          *)
FlatEnd(ss, k) == Len(FlattenSeq(SubSeq(ss, 1, k)))

LEMMA FlatNext ==
  ASSUME NEW S, NEW ss \in Seq(Seq(S)), NEW k \in 1..Len(ss)
  PROVE  /\ FlattenSeq(SubSeq(ss, 1, k - 1)) \in Seq(S)
         /\ FlattenSeq(SubSeq(ss, 1, k)) = FlattenSeq(SubSeq(ss, 1, k - 1)) \o ss[k]
<1> DEFINE t == SubSeq(ss, 1, k - 1)
           s == ss[k]
<1>1. t \in Seq(Seq(S)) /\ s \in Seq(S)
  OBVIOUS
<1>2. SubSeq(ss, 1, k) = t \o <<s>>
  <2>1. 1 \in 1..Len(ss) /\ k \in 1..Len(ss) /\ ss \in Seq(Seq(S))
    OBVIOUS
  <2> QED
    BY <2>1, SubSeqRecursiveSecond
<1> HIDE DEF t, s
<1>3. Append(t, s) = t \o <<s>>
  BY <1>1, AppendIsConcat
<1>4. FlattenSeq(t) \in Seq(S) /\ FlattenSeq(Append(t, s)) = FlattenSeq(t) \o s
  BY <1>1, Flatten
<1> QED
  BY <1>2, <1>3, <1>4 DEF t, s

LEMMA FlatType ==
  ASSUME NEW S, NEW ss \in Seq(Seq(S)), NEW k \in 0..Len(ss)
  PROVE  FlattenSeq(SubSeq(ss, 1, k)) \in Seq(S)
<1> DEFINE t == SubSeq(ss, 1, k)
<1>1. t \in Seq(Seq(S))
  OBVIOUS
<1> HIDE DEF t
<1>2. <<>> \in Seq(S)
  OBVIOUS
<1>3. FlattenSeq(t) \in Seq(S)
  BY <1>1, <1>2, Flatten
<1> QED
  BY <1>3 DEF t

LEMMA FlatOrder ==
  ASSUME NEW S, NEW ss \in Seq(Seq(S)), NEW j \in 0..Len(ss), NEW k \in j..Len(ss)
  PROVE  LET a == FlattenSeq(SubSeq(ss, 1, j))
             b == FlattenSeq(SubSeq(ss, 1, k))
         IN  Len(a) <= Len(b) /\ \A i \in 1..Len(a) : b[i] = a[i]
<1> DEFINE F(m) == FlattenSeq(SubSeq(ss, 1, m))
           Begins(m) == Len(F(j)) <= Len(F(m)) /\ \A i \in 1..Len(F(j)) : F(m)[i] = F(j)[i]
           n == k - j
           T == {d \in 0..n : Begins(j + d)}
<1>1. n \in Nat /\ j \in Nat /\ j + n = k /\ j + 0 = j
  OBVIOUS
<1>2. \A m \in 0..Len(ss) : F(m) \in Seq(S)
  BY FlatType
<1>3. 0 \in T
  <2>1. F(j) \in Seq(S)
    BY <1>2
  <2>2. Begins(j)
    <3> HIDE DEF F
    <3> QED
      BY <2>1
  <2> HIDE DEF Begins
  <2> QED
    BY <1>1, <2>2
<1>4. ASSUME NEW d \in 0..(n - 1), d \in T
      PROVE  d + 1 \in T
  <2> DEFINE m == j + d
             s == ss[m + 1]
  <2>1. m \in 0..Len(ss) /\ m + 1 \in 1..Len(ss) /\ (m + 1) - 1 = m /\ j + (d + 1) = m + 1
        /\ d + 1 \in 0..n
    BY <1>1
  <2>2. s \in Seq(S)
    BY <2>1
  <2>3. F(m + 1) = F(m) \o s
    <3> HIDE DEF m
    <3>1. FlattenSeq(SubSeq(ss, 1, m + 1)) = FlattenSeq(SubSeq(ss, 1, (m + 1) - 1)) \o ss[m + 1]
      BY <2>1, FlatNext
    <3> QED
      BY <2>1, <3>1
  <2>4. F(m) \in Seq(S) /\ F(j) \in Seq(S)
    BY <1>2, <2>1
  <2>5. Begins(m)
    BY <1>4
  <2> HIDE DEF s, m
  <2>6. Begins(m + 1)
    <3> DEFINE a == F(m)
               b == F(j)
               c == F(m + 1)
    <3>1. a \in Seq(S) /\ b \in Seq(S) /\ c = a \o s /\ Len(b) <= Len(a)
          /\ \A i \in 1..Len(b) : a[i] = b[i]
      BY <2>3, <2>4, <2>5
    <3> HIDE DEF a, b, c
    <3>2. Len(b) <= Len(c) /\ \A i \in 1..Len(b) : c[i] = b[i]
      BY <2>2, <3>1
    <3> QED
      BY <3>2 DEF a, b, c
  <2> HIDE DEF Begins
  <2> QED
    BY <2>1, <2>6
<1>5. n \in T
  <2> HIDE DEF T
  <2>1. 0..n \subseteq T
    BY <1>1, <1>3, <1>4, Induction
  <2> QED
    BY <1>1, <2>1
<1> QED
  BY <1>1, <1>5

LEMMA FlatPart ==
  ASSUME NEW S, NEW ss \in Seq(Seq(S)), NEW k \in 1..Len(ss)
  PROVE  /\ FlatEnd(ss, k - 1) \in Nat
         /\ FlatEnd(ss, k) = FlatEnd(ss, k - 1) + Len(ss[k])
         /\ FlatEnd(ss, k) <= Len(FlattenSeq(ss))
         /\ \A i \in 1..Len(ss[k]) : FlattenSeq(ss)[FlatEnd(ss, k - 1) + i] = ss[k][i]
<1> DEFINE a == FlattenSeq(SubSeq(ss, 1, k - 1))
           b == FlattenSeq(SubSeq(ss, 1, k))
           c == FlattenSeq(ss)
           s == ss[k]
<1>1. a \in Seq(S) /\ b = a \o s
  BY FlatNext
<1>2. s \in Seq(S)
  OBVIOUS
<1>3. Len(b) <= Len(c) /\ \A i \in 1..Len(b) : c[i] = b[i]
  <2> DEFINE n == Len(ss)
  <2>1. n \in k..n /\ k \in 0..n /\ SubSeq(ss, 1, n) = ss
    OBVIOUS
  <2>2. LET u == FlattenSeq(SubSeq(ss, 1, k))
            v == FlattenSeq(SubSeq(ss, 1, n))
        IN  Len(u) <= Len(v) /\ \A i \in 1..Len(u) : v[i] = u[i]
    BY <2>1, FlatOrder
  <2> QED
    BY <2>1, <2>2
<1>4. FlatEnd(ss, k - 1) = Len(a) /\ FlatEnd(ss, k) = Len(b)
  BY DEF FlatEnd
<1> HIDE DEF a, b, c, s
<1>5. /\ Len(a) \in Nat /\ Len(b) = Len(a) + Len(s)
      /\ \A i \in 1..Len(s) : Len(a) + i \in 1..Len(b) /\ b[Len(a) + i] = s[i]
  BY <1>1, <1>2
<1>6. \A i \in 1..Len(s) : c[Len(a) + i] = s[i]
  BY <1>3, <1>5
<1> QED
  BY <1>3, <1>4, <1>5, <1>6 DEF a, b, c, s

LEMMA FlatEnds ==
  ASSUME NEW S, NEW ss \in Seq(Seq(S))
  PROVE  /\ FlatEnd(ss, 0) = 0 /\ FlatEnd(ss, Len(ss)) = Len(FlattenSeq(ss))
         /\ \A j \in 0..Len(ss) : \A k \in j..Len(ss) : FlatEnd(ss, j) <= FlatEnd(ss, k)
<1>1. SubSeq(ss, 1, 0) = <<>> /\ SubSeq(ss, 1, Len(ss)) = ss
  OBVIOUS
<1>2. FlattenSeq(<<>>) = <<>>
  BY DEF FlattenSeq
<1>3. \A j \in 0..Len(ss) : \A k \in j..Len(ss) : FlatEnd(ss, j) <= FlatEnd(ss, k)
  BY FlatOrder DEF FlatEnd
<1>4. FlatEnd(ss, 0) = 0
  <2>1. FlatEnd(ss, 0) = Len(<<>>)
    BY <1>1, <1>2 DEF FlatEnd
  <2> QED
    BY <2>1
<1>5. FlatEnd(ss, Len(ss)) = Len(FlattenSeq(ss))
  BY <1>1 DEF FlatEnd
<1> QED
  BY <1>3, <1>4, <1>5

-----------------------------------------------------------------------------
(* Taking the head off a list, and adding to its end.                      *)
LEMMA HeadTaken ==
  ASSUME NEW S, NEW s \in Seq(S), s # <<>>
  PROVE  /\ Head(s) \in S /\ Head(s) = s[1] /\ 1 \in DOMAIN s
         /\ Tail(s) \in Seq(S)
         /\ \A i \in DOMAIN Tail(s) :
              i + 1 \in DOMAIN s /\ i + 1 # 1 /\ i \in Int /\ Tail(s)[i] = s[i + 1]
         /\ \A i \in DOMAIN s :
              \/ i = 1
              \/ i - 1 \in DOMAIN Tail(s) /\ Tail(s)[i - 1] = s[i]
  OBVIOUS

LEMMA Appended ==
  ASSUME NEW S, NEW s \in Seq(S), NEW e \in S
  PROVE  /\ Append(s, e) \in Seq(S)
         /\ \A i \in DOMAIN s : i \in DOMAIN Append(s, e) /\ Append(s, e)[i] = s[i]
         /\ Len(s) + 1 \in DOMAIN Append(s, e) /\ Append(s, e)[Len(s) + 1] = e
         /\ Len(Append(s, e)) = Len(s) + 1 /\ DOMAIN Append(s, e) = 1..(Len(s) + 1)
         /\ \A i \in DOMAIN Append(s, e) :
              \/ i \in DOMAIN s /\ Append(s, e)[i] = s[i]
              \/ i = Len(s) + 1 /\ Append(s, e)[i] = e
  OBVIOUS

LEMMA LastDropped ==
  ASSUME NEW S, NEW s \in Seq(S), Len(s) > 0
  PROVE  LET t == SubSeq(s, 1, Len(s) - 1) IN
         /\ t \in Seq(S) /\ Len(t) = Len(s) - 1 /\ DOMAIN t = 1..(Len(s) - 1)
         /\ \A i \in DOMAIN t : i \in DOMAIN s /\ i # Len(s) /\ t[i] = s[i]
         /\ \A i \in DOMAIN s : i # Len(s) => i \in DOMAIN t
         /\ t = <<>> <=> Len(s) = 1
<1> DEFINE t == SubSeq(s, 1, Len(s) - 1)
<1>1. /\ t \in Seq(S) /\ Len(t) = Len(s) - 1 /\ DOMAIN t = 1..(Len(s) - 1)
      /\ \A i \in 1..(Len(s) - 1) : t[i] = s[i]
      /\ DOMAIN s = 1..Len(s) /\ Len(s) \in Nat
  <2>1. DOMAIN s = 1..Len(s) /\ Len(s) \in Nat
    OBVIOUS
  <2>2. t \in Seq(S)
    OBVIOUS
  <2>3. Len(t) = Len(s) - 1
    BY <2>1
  <2>4. \A i \in 1..(Len(s) - 1) : t[i] = s[i]
    BY <2>1
  <2> HIDE DEF t
  <2> QED
    BY <2>1, <2>2, <2>3, <2>4
<1> HIDE DEF t
<1>2. t = <<>> <=> Len(s) = 1
  BY <1>1
<1>3. /\ \A i \in DOMAIN t : i \in DOMAIN s /\ i # Len(s) /\ t[i] = s[i]
      /\ \A i \in DOMAIN s : i # Len(s) => i \in DOMAIN t
  BY <1>1
<1> QED
  BY <1>1, <1>2, <1>3 DEF t

(* Taking an element out of a list.                                        *)
LEMMA Removed ==
  ASSUME NEW S, NEW s \in Seq(S), NEW p \in DOMAIN s
  PROVE  LET t == RemoveAt(s, p) IN
         /\ t \in Seq(S)
         /\ \A i \in DOMAIN t :
              \/ i < p /\ i \in DOMAIN s /\ t[i] = s[i]
              \/ i >= p /\ i \in Int /\ i + 1 \in DOMAIN s /\ t[i] = s[i + 1]
         /\ \A i \in DOMAIN s :
              \/ i = p
              \/ i < p /\ i \in DOMAIN t /\ t[i] = s[i]
              \/ i > p /\ i - 1 \in DOMAIN t /\ t[i - 1] = s[i]
<1> DEFINE a == SubSeq(s, 1, p - 1)
           b == SubSeq(s, p + 1, Len(s))
<1>1. /\ a \in Seq(S) /\ Len(a) = p - 1 /\ \A i \in 1..(p - 1) : a[i] = s[i]
      /\ b \in Seq(S) /\ Len(b) = Len(s) - p /\ \A i \in 1..(Len(s) - p) : b[i] = s[p + i]
      /\ p \in 1..Len(s) /\ Len(s) \in Nat /\ DOMAIN s = 1..Len(s)
  OBVIOUS
<1>2. RemoveAt(s, p) = a \o b
  BY DEF RemoveAt
<1> HIDE DEF a, b
<1> DEFINE t == a \o b
<1>3. /\ t \in Seq(S) /\ DOMAIN t = 1..(Len(s) - 1)
      /\ \A i \in 1..(Len(s) - 1) : t[i] = IF i < p THEN s[i] ELSE s[i + 1]
  <2>1. t \in Seq(S) /\ Len(t) = Len(s) - 1 /\ DOMAIN t = 1..(Len(s) - 1)
    <3>1. t \in Seq(S)
      BY <1>1
    <3>2. Len(t) = Len(a) + Len(b)
      BY <1>1
    <3>3. Len(a) + Len(b) = Len(s) - 1
      BY <1>1
    <3> HIDE DEF t
    <3> QED
      BY <3>1, <3>2, <3>3
  <2>2. ASSUME NEW i \in 1..(Len(s) - 1)
        PROVE  t[i] = IF i < p THEN s[i] ELSE s[i + 1]
    <3>1. CASE i < p
      BY <1>1, <3>1
    <3>2. CASE ~(i < p)
      <4>1. t[i] = b[i - (p - 1)] /\ i - (p - 1) \in 1..(Len(s) - p)
        BY <1>1, <3>2
      <4>2. b[i - (p - 1)] = s[p + (i - (p - 1))] /\ p + (i - (p - 1)) = i + 1
        BY <1>1, <4>1
      <4> QED
        BY <3>2, <4>1, <4>2
    <3> QED
      BY <3>1, <3>2
  <2> QED
    BY <2>1, <2>2
<1> HIDE DEF t
<1>4. RemoveAt(s, p) = t
  BY <1>2 DEF t
<1>5. \A i \in DOMAIN t :
        \/ i < p /\ i \in DOMAIN s /\ t[i] = s[i]
        \/ i >= p /\ i \in Int /\ i + 1 \in DOMAIN s /\ t[i] = s[i + 1]
  <2>1. ASSUME NEW i \in DOMAIN t
        PROVE  /\ i \in Int /\ p \in Int /\ i \in DOMAIN s /\ i + 1 \in DOMAIN s
               /\ t[i] = IF i < p THEN s[i] ELSE s[i + 1]
    <3>1. i \in 1..(Len(s) - 1)
      BY <1>3
    <3> QED
      BY <1>1, <1>3, <3>1
  <2> QED
    BY <2>1
<1>6. \A i \in DOMAIN s :
        \/ i = p
        \/ i < p /\ i \in DOMAIN t /\ t[i] = s[i]
        \/ i > p /\ i - 1 \in DOMAIN t /\ t[i - 1] = s[i]
  <2>1. ASSUME NEW i \in DOMAIN s, i < p
        PROVE  i \in DOMAIN t /\ t[i] = s[i]
    BY <1>1, <1>3, <2>1
  <2>2. ASSUME NEW i \in DOMAIN s, i > p
        PROVE  i - 1 \in DOMAIN t /\ t[i - 1] = s[i]
    BY <1>1, <1>3, <2>2
  <2>3. \A i \in DOMAIN s : i \in Int /\ p \in Int
    BY <1>1
  <2> QED
    BY <2>1, <2>2, <2>3
<1> QED
  BY <1>3, <1>4, <1>5, <1>6

-----------------------------------------------------------------------------
(* Seconds and milliseconds of a number of milliseconds.                   *)
LEMMA DivMod ==
  ASSUME NEW t \in Nat, NEW m \in Nat \ {0}
  PROVE  /\ t \div m \in Nat /\ t % m \in 0..(m - 1)
         /\ (t \div m) * m + (t % m) = t
  OBVIOUS

LEMMA DivUnique ==
  ASSUME NEW t \in Nat, NEW m \in Nat \ {0}, NEW a \in Int, NEW x \in 0..(m - 1),
         t = a * m + x
  PROVE  a = t \div m /\ x = t % m
  OBVIOUS

LEMMA DivMonotone ==
  ASSUME NEW t \in Nat, NEW u \in Nat, NEW m \in Nat \ {0}, t <= u
  PROVE  t \div m <= u \div m
  OBVIOUS

(* The earlier second is the earlier time, whatever the milliseconds.      *)
LEMMA SecondsFirst ==
  ASSUME NEW m \in Nat \ {0}, NEW a \in Int, NEW b \in Int,
         NEW x \in 0..(m - 1), NEW y \in 0..(m - 1), a < b
  PROVE  a * m + x < b * m + y
  OBVIOUS

LEMMA Regroup ==
  ASSUME NEW m \in Int, NEW a \in Int, NEW b \in Int, NEW c \in Int,
         NEW x \in Int, NEW y \in Int
  PROVE  (a + b + c) * m + ((x + y) - c * m) = (a * m + x) + (b * m + y)
  OBVIOUS
===============================================================================
