----------------------------- MODULE AdListProofs -----------------------------
(***************************************************************************)
(* Theorems about AdList, for any number of lists and nodes.               *)
(***************************************************************************)
EXTENDS AdList, Facts

(* What a sequence has at a place, NULL beyond its ends.                   *)
At(s, i) == IF i \in 1..Len(s) THEN s[i] ELSE NULL

(* The pointers of a list whose nodes are s.                               *)
Chain(s, h, t, nx, pv) ==
  /\ h = At(s, 1) /\ t = At(s, Len(s))
  /\ \A i \in 1..Len(s) : nx[s[i]] = At(s, i + 1) /\ pv[s[i]] = At(s, i - 1)

(* u is s with n inserted to become the p-th; u is s without its p-th.     *)
Inserted(u, s, p, n) ==
  /\ p \in 1..(Len(s) + 1) /\ Len(u) = Len(s) + 1
  /\ \A i \in 1..Len(u) :
       u[i] = IF i < p THEN s[i] ELSE IF i = p THEN n ELSE s[i - 1]
Dropped(u, s, p) ==
  /\ p \in 1..Len(s) /\ Len(u) = Len(s) - 1
  /\ \A i \in 1..Len(u) : u[i] = IF i < p THEN s[i] ELSE s[i + 1]

-----------------------------------------------------------------------------
(* Sequences, place by place.                                              *)
LEMMA AtNode ==
  ASSUME NEW s \in Seq(Nodes), NEW i \in Int
  PROVE  /\ At(s, i) \in Nodes <=> i \in 1..Len(s)
         /\ At(s, i) # NULL <=> i \in 1..Len(s)
         /\ i \in 1..Len(s) => At(s, i) = s[i]
         /\ i \notin 1..Len(s) => At(s, i) = NULL
<1>1. i \in 1..Len(s) => s[i] \in Nodes /\ s[i] # NULL
  BY AdListAssumption
<1> QED
  BY <1>1, AdListAssumption DEF At

LEMMA AtOnce ==
  ASSUME NEW s \in Seq(Nodes), IsInjective(s), NEW i \in 1..Len(s), NEW j \in Int,
         s[i] = At(s, j)
  PROVE  i = j
<1>1. s[i] \in Nodes
  OBVIOUS
<1>2. j \in 1..Len(s) /\ s[i] = s[j]
  BY <1>1, AtNode
<1> QED
  BY <1>2 DEF IsInjective

LEMMA InsertedAt ==
  ASSUME NEW s \in Seq(Nodes), NEW u \in Seq(Nodes), NEW n \in Nodes, NEW p,
         Inserted(u, s, p, n)
  PROVE  /\ Len(s) \in Nat /\ p \in 1..(Len(s) + 1) /\ Len(u) = Len(s) + 1 /\ p \in Int
         /\ At(u, p) = n
         /\ \A i \in Int : i < p => At(u, i) = At(s, i)
         /\ \A i \in Int : i > p => At(u, i) = At(s, i - 1)
<1>1. Len(s) \in Nat
  OBVIOUS
<1>2. p \in 1..(Len(s) + 1) /\ Len(u) = Len(s) + 1
  BY DEF Inserted
<1>3. p \in Int /\ At(u, p) = n
  BY <1>1, <1>2 DEF Inserted, At
<1>4. ASSUME NEW i \in Int, i < p
      PROVE  At(u, i) = At(s, i)
  <2>1. i \in 1..Len(u) <=> i \in 1..Len(s)
    BY <1>1, <1>2, <1>4
  <2>2. i \in 1..Len(u) => u[i] = s[i]
    BY <1>4 DEF Inserted
  <2> QED
    BY <2>1, <2>2 DEF At
<1>5. ASSUME NEW i \in Int, i > p
      PROVE  At(u, i) = At(s, i - 1)
  <2>1. i \in 1..Len(u) <=> i - 1 \in 1..Len(s)
    BY <1>1, <1>2, <1>5
  <2>2. i \in 1..Len(u) => u[i] = s[i - 1]
    BY <1>2, <1>5 DEF Inserted
  <2> QED
    BY <2>1, <2>2 DEF At
<1> QED
  BY <1>1, <1>2, <1>3, <1>4, <1>5

LEMMA DroppedAt ==
  ASSUME NEW s \in Seq(Nodes), NEW u \in Seq(Nodes), NEW p, Dropped(u, s, p)
  PROVE  /\ Len(s) \in Nat /\ p \in 1..Len(s) /\ Len(u) = Len(s) - 1 /\ p \in Int
         /\ \A i \in Int : i < p => At(u, i) = At(s, i)
         /\ \A i \in Int : i >= p => At(u, i) = At(s, i + 1)
<1>1. Len(s) \in Nat
  OBVIOUS
<1>2. p \in 1..Len(s) /\ Len(u) = Len(s) - 1
  BY DEF Dropped
<1>4. ASSUME NEW i \in Int, i < p
      PROVE  At(u, i) = At(s, i)
  <2>1. i \in 1..Len(u) <=> i \in 1..Len(s)
    BY <1>1, <1>2, <1>4
  <2>2. i \in 1..Len(u) => u[i] = s[i]
    BY <1>4 DEF Dropped
  <2> QED
    BY <2>1, <2>2 DEF At
<1>5. ASSUME NEW i \in Int, i >= p
      PROVE  At(u, i) = At(s, i + 1)
  <2>1. i \in 1..Len(u) <=> i + 1 \in 1..Len(s)
    BY <1>1, <1>2, <1>5
  <2>2. i \in 1..Len(u) => u[i] = s[i + 1]
    BY <1>2, <1>5 DEF Dropped
  <2> QED
    BY <2>1, <2>2 DEF At
<1> QED
  BY <1>1, <1>2, <1>4, <1>5

LEMMA Concatenated ==
  ASSUME NEW a \in Seq(Nodes), NEW b \in Seq(Nodes)
  PROVE  /\ a \o b \in Seq(Nodes) /\ Len(a \o b) = Len(a) + Len(b)
         /\ \A i \in 1..Len(a) : (a \o b)[i] = a[i]
         /\ \A i \in (Len(a) + 1)..(Len(a) + Len(b)) : (a \o b)[i] = b[i - Len(a)]
  OBVIOUS

(* The ways the code makes a sequence of another.                          *)
LEMMA InsertAtInserts ==
  ASSUME NEW s \in Seq(Nodes), NEW n \in Nodes, NEW p \in 1..(Len(s) + 1)
  PROVE  InsertAt(s, p, n) \in Seq(Nodes) /\ Inserted(InsertAt(s, p, n), s, p, n)
<1> DEFINE a == SubSeq(s, 1, p - 1)
           b == SubSeq(s, p, Len(s))
           ab == a \o <<n>>
           u == ab \o b
<1>1. Len(s) \in Nat /\ p \in Nat
  OBVIOUS
<1>2. /\ a \in Seq(Nodes) /\ Len(a) = p - 1 /\ \A i \in 1..(p - 1) : a[i] = s[i]
      /\ b \in Seq(Nodes) /\ Len(b) = Len(s) - p + 1
      /\ \A i \in 1..(Len(s) - p + 1) : b[i] = s[i + p - 1]
  OBVIOUS
<1>3. InsertAt(s, p, n) = u
  BY DEF InsertAt
<1> HIDE DEF a, b
<1>4. /\ ab \in Seq(Nodes) /\ Len(ab) = p /\ ab[p] = n
      /\ \A i \in 1..(p - 1) : ab[i] = s[i]
  <2> DEFINE c == <<n>>
  <2>1. c \in Seq(Nodes) /\ Len(c) = 1 /\ c[1] = n
    OBVIOUS
  <2>2. ab = a \o c /\ a \in Seq(Nodes)
    BY <1>2
  <2> HIDE DEF c, ab
  <2>3. /\ ab \in Seq(Nodes) /\ Len(ab) = Len(a) + Len(c)
        /\ \A i \in 1..Len(a) : ab[i] = a[i]
        /\ \A i \in (Len(a) + 1)..(Len(a) + Len(c)) : ab[i] = c[i - Len(a)]
    BY <2>1, <2>2, Concatenated
  <2>4. p \in (Len(a) + 1)..(Len(a) + Len(c)) /\ p - Len(a) = 1
    BY <1>1, <1>2, <2>1
  <2>5. ab[p] = c[p - Len(a)]
    BY <2>3, <2>4
  <2>6. Len(a) + Len(c) = p
    BY <1>1, <1>2, <2>1
  <2>7. Len(ab) = p /\ ab[p] = n
    BY <2>1, <2>3, <2>4, <2>5, <2>6
  <2>8. \A i \in 1..(p - 1) : ab[i] = s[i]
    BY <1>2, <2>3
  <2> QED
    BY <2>3, <2>7, <2>8
<1> HIDE DEF ab
<1>5. /\ u \in Seq(Nodes) /\ Len(u) = Len(s) + 1
      /\ \A i \in 1..p : u[i] = ab[i]
      /\ \A i \in (p + 1)..(Len(s) + 1) : u[i] = b[i - p]
  <2>1. /\ u \in Seq(Nodes) /\ Len(u) = Len(ab) + Len(b)
        /\ \A i \in 1..Len(ab) : u[i] = ab[i]
        /\ \A i \in (Len(ab) + 1)..(Len(ab) + Len(b)) : u[i] = b[i - Len(ab)]
    BY <1>2, <1>4, Concatenated
  <2>2. Len(ab) + Len(b) = Len(s) + 1
    BY <1>1, <1>2, <1>4
  <2> HIDE DEF u
  <2> QED
    BY <1>4, <2>1, <2>2
<1> HIDE DEF u
<1>6. ASSUME NEW i \in 1..Len(u)
      PROVE  u[i] = IF i < p THEN s[i] ELSE IF i = p THEN n ELSE s[i - 1]
  <2>1. CASE i < p
    BY <1>1, <1>4, <1>5, <2>1
  <2>2. CASE i = p
    BY <1>1, <1>4, <1>5, <2>2
  <2>3. CASE i > p
    <3>1. i \in (p + 1)..(Len(s) + 1) /\ i - p \in 1..(Len(s) - p + 1)
      BY <1>1, <1>5, <2>3
    <3>2. u[i] = b[i - p] /\ b[i - p] = s[(i - p) + p - 1]
      BY <1>2, <1>5, <3>1
    <3>3. (i - p) + p - 1 = i - 1
      BY <1>1, <3>1
    <3> QED
      BY <1>1, <2>3, <3>2, <3>3
  <2> QED
    BY <1>1, <2>1, <2>2, <2>3
<1> QED
  BY <1>3, <1>5, <1>6 DEF Inserted

LEMMA HeadInserts ==
  ASSUME NEW s \in Seq(Nodes), NEW n \in Nodes
  PROVE  <<n>> \o s \in Seq(Nodes) /\ Inserted(<<n>> \o s, s, 1, n)
<1>1. Len(s) \in Nat /\ <<n>> \in Seq(Nodes) /\ Len(<<n>>) = 1
  OBVIOUS
<1> DEFINE u == <<n>> \o s
<1>2. /\ u \in Seq(Nodes) /\ Len(u) = Len(s) + 1 /\ u[1] = n
      /\ \A i \in 2..(Len(s) + 1) : u[i] = s[i - 1]
  BY <1>1
<1> HIDE DEF u
<1> QED
  BY <1>1, <1>2 DEF Inserted, u

LEMMA AppendInserts ==
  ASSUME NEW s \in Seq(Nodes), NEW n \in Nodes
  PROVE  Append(s, n) \in Seq(Nodes) /\ Inserted(Append(s, n), s, Len(s) + 1, n)
  BY DEF Inserted

LEMMA RemoveAtDrops ==
  ASSUME NEW s \in Seq(Nodes), NEW p \in 1..Len(s)
  PROVE  RemoveAt(s, p) \in Seq(Nodes) /\ Dropped(RemoveAt(s, p), s, p)
<1> DEFINE a == SubSeq(s, 1, p - 1)
           b == SubSeq(s, p + 1, Len(s))
           u == a \o b
<1>1. Len(s) \in Nat /\ p \in Nat
  OBVIOUS
<1>2. /\ a \in Seq(Nodes) /\ Len(a) = p - 1 /\ \A i \in 1..(p - 1) : a[i] = s[i]
      /\ b \in Seq(Nodes) /\ Len(b) = Len(s) - p
      /\ \A i \in 1..(Len(s) - p) : b[i] = s[i + p]
  OBVIOUS
<1>3. RemoveAt(s, p) = u
  BY DEF RemoveAt
<1> HIDE DEF a, b
<1>4. /\ u \in Seq(Nodes) /\ Len(u) = Len(s) - 1
      /\ \A i \in 1..(p - 1) : u[i] = a[i]
      /\ \A i \in p..(Len(s) - 1) : u[i] = b[i - (p - 1)]
  <2>1. /\ u \in Seq(Nodes) /\ Len(u) = Len(a) + Len(b)
        /\ \A i \in 1..Len(a) : u[i] = a[i]
        /\ \A i \in (Len(a) + 1)..(Len(a) + Len(b)) : u[i] = b[i - Len(a)]
    BY <1>2, Concatenated
  <2>2. Len(a) + Len(b) = Len(s) - 1 /\ Len(a) + 1 = p /\ Len(a) = p - 1
    BY <1>1, <1>2
  <2> HIDE DEF u
  <2>3. \A i \in p..(Len(s) - 1) : u[i] = b[i - (p - 1)]
    BY <2>1, <2>2
  <2> QED
    BY <2>1, <2>2, <2>3
<1> HIDE DEF u
<1>5. ASSUME NEW i \in 1..Len(u)
      PROVE  u[i] = IF i < p THEN s[i] ELSE s[i + 1]
  <2>1. CASE i < p
    BY <1>1, <1>2, <1>4, <2>1
  <2>2. CASE i >= p
    <3>1. i \in p..(Len(s) - 1) /\ i - (p - 1) \in 1..(Len(s) - p)
      BY <1>1, <1>4, <2>2
    <3>2. u[i] = b[i - (p - 1)] /\ b[i - (p - 1)] = s[(i - (p - 1)) + p]
      BY <1>2, <1>4, <3>1
    <3>3. (i - (p - 1)) + p = i + 1
      BY <1>1, <3>1
    <3> QED
      BY <1>1, <2>2, <3>2, <3>3
  <2> QED
    BY <1>1, <2>1, <2>2
<1> QED
  BY <1>3, <1>4, <1>5 DEF Dropped

LEMMA FrontDrops ==
  ASSUME NEW s \in Seq(Nodes), Len(s) > 0
  PROVE  Front(s) \in Seq(Nodes) /\ Dropped(Front(s), s, Len(s))
<1>1. /\ Front(s) \in Seq(Nodes) /\ Len(Front(s)) = Len(s) - 1
      /\ \A i \in 1..(Len(s) - 1) : Front(s)[i] = s[i]
  BY LastDropped DEF Front
<1> QED
  BY <1>1 DEF Dropped

LEMMA TailDrops ==
  ASSUME NEW s \in Seq(Nodes), Len(s) > 0
  PROVE  Tail(s) \in Seq(Nodes) /\ Dropped(Tail(s), s, 1)
  BY DEF Dropped

-----------------------------------------------------------------------------
(* What the assignments of the code do to the pointers of one list.        *)
LinkedIn(n, x, y, nx, pv, nx2, pv2) ==
  \A m \in Nodes :
    /\ nx2[m] = IF m = n THEN y ELSE IF m = x THEN n ELSE nx[m]
    /\ pv2[m] = IF m = n THEN x ELSE IF m = y THEN n ELSE pv[m]
TakenOut(n, x, y, nx, pv, nx2, pv2) ==
  \A m \in Nodes :
    /\ nx2[m] = IF m = n THEN NULL ELSE IF m = x THEN y ELSE nx[m]
    /\ pv2[m] = IF m = n THEN NULL ELSE IF m = y THEN x ELSE pv[m]
Joined(t, x, nx, pv, nx2, pv2) ==
  \A m \in Nodes : /\ nx2[m] = IF m = t THEN x ELSE nx[m]
                   /\ pv2[m] = IF m = x THEN t ELSE pv[m]
Untouched(s, nx, pv, nx2, pv2) ==
  \A i \in 1..Len(s) : nx2[s[i]] = nx[s[i]] /\ pv2[s[i]] = pv[s[i]]
Apart(s, v) == \A i \in 1..Len(s), j \in 1..Len(v) : s[i] # v[j]

LEMMA ChainInserted ==
  ASSUME NEW s \in Seq(Nodes), NEW u \in Seq(Nodes), NEW n \in Nodes, NEW p,
         Inserted(u, s, p, n), IsInjective(s), n \notin Range(s),
         NEW h, NEW t, NEW nx, NEW pv, Chain(s, h, t, nx, pv),
         NEW nx2, NEW pv2, LinkedIn(n, At(s, p - 1), At(s, p), nx, pv, nx2, pv2)
  PROVE  Chain(u, IF p = 1 THEN n ELSE h, IF p = Len(s) + 1 THEN n ELSE t, nx2, pv2)
<1>1. /\ Len(s) \in Nat /\ p \in 1..(Len(s) + 1) /\ Len(u) = Len(s) + 1 /\ p \in Int
      /\ At(u, p) = n
      /\ \A i \in Int : i < p => At(u, i) = At(s, i)
      /\ \A i \in Int : i > p => At(u, i) = At(s, i - 1)
  BY InsertedAt
<1>2. (IF p = 1 THEN n ELSE h) = At(u, 1)
  BY <1>1 DEF Chain
<1>3. (IF p = Len(s) + 1 THEN n ELSE t) = At(u, Len(u))
  <2>1. p # Len(s) + 1 => p < Len(u) /\ Len(u) - 1 = Len(s) /\ Len(u) \in Int
    BY <1>1
  <2> QED
    BY <1>1, <2>1 DEF Chain
<1>4. ASSUME NEW i \in 1..Len(s)
      PROVE  /\ s[i] \in Nodes /\ s[i] # n /\ s[i] # NULL
             /\ nx[s[i]] = At(s, i + 1) /\ pv[s[i]] = At(s, i - 1)
             /\ \A j \in Int : s[i] = At(s, j) => i = j
  <2>1. s[i] \in Nodes /\ s[i] \in Range(s)
    BY DEF Range
  <2>2. \A j \in Int : s[i] = At(s, j) => i = j
    BY AtOnce
  <2> QED
    BY <2>1, <2>2, AdListAssumption DEF Chain
<1>5. ASSUME NEW j \in 1..Len(u)
      PROVE  nx2[u[j]] = At(u, j + 1) /\ pv2[u[j]] = At(u, j - 1)
  <2>0. j \in Int /\ u[j] = At(u, j) /\ j + 1 \in Int /\ j - 1 \in Int
    BY DEF At
  <2>1. CASE j < p
    <3>1. j \in 1..Len(s) /\ u[j] = s[j]
      BY <1>1, <2>0, <2>1, AtNode
    <3>2. nx2[s[j]] = IF s[j] = At(s, p - 1) THEN n ELSE nx[s[j]]
      BY <1>4, <3>1 DEF LinkedIn
    <3>3. pv2[s[j]] = IF s[j] = At(s, p) THEN n ELSE pv[s[j]]
      BY <1>4, <3>1 DEF LinkedIn
    <3>4. s[j] # At(s, p)
      BY <1>1, <1>4, <2>1, <3>1
    <3>5. CASE j = p - 1
      <4>1. s[j] = At(s, p - 1) /\ j + 1 = p
        BY <1>1, <3>1, <3>5, AtNode
      <4> QED
        BY <1>1, <1>4, <2>0, <2>1, <3>1, <3>2, <3>3, <3>4, <4>1
    <3>6. CASE j # p - 1
      <4>1. s[j] # At(s, p - 1) /\ j + 1 < p /\ j - 1 < p
        BY <1>1, <1>4, <2>1, <3>1, <3>6
      <4> QED
        BY <1>1, <1>4, <2>0, <3>1, <3>2, <3>3, <3>4, <4>1
    <3> QED
      BY <3>5, <3>6
  <2>2. CASE j = p
    <3>1. nx2[n] = At(s, p) /\ pv2[n] = At(s, p - 1)
      BY DEF LinkedIn
    <3>2. At(u, p + 1) = At(s, (p + 1) - 1) /\ At(u, p - 1) = At(s, p - 1) /\ (p + 1) - 1 = p
      BY <1>1
    <3> QED
      BY <1>1, <2>0, <2>2, <3>1, <3>2
  <2>3. CASE j > p
    <3> DEFINE k == j - 1
    <3>1. k \in 1..Len(s) /\ u[j] = s[k] /\ k \in Int /\ k >= p /\ j = k + 1
      BY <1>1, <2>0, <2>3, AtNode
    <3> HIDE DEF k
    <3>2. nx2[s[k]] = IF s[k] = At(s, p - 1) THEN n ELSE nx[s[k]]
      BY <1>4, <3>1 DEF LinkedIn
    <3>3. pv2[s[k]] = IF s[k] = At(s, p) THEN n ELSE pv[s[k]]
      BY <1>4, <3>1 DEF LinkedIn
    <3>4. s[k] # At(s, p - 1)
      BY <1>1, <1>4, <3>1
    <3>5. nx2[s[k]] = At(u, j + 1)
      <4>1. At(u, j + 1) = At(s, (j + 1) - 1) /\ (j + 1) - 1 = k + 1
        BY <1>1, <2>0, <2>3, <3>1
      <4> QED
        BY <1>4, <3>1, <3>2, <3>4, <4>1
    <3>6. pv2[s[k]] = At(u, j - 1)
      <4>1. CASE k = p
        <5>1. At(s, p) = s[k] /\ j - 1 = p
          BY <1>1, <3>1, <4>1, AtNode
        <5> QED
          BY <1>1, <3>3, <5>1
      <4>2. CASE k # p
        <5>1. s[k] # At(s, p) /\ k > p /\ j - 1 = k
          BY <1>1, <1>4, <3>1, <4>2
        <5>2. At(u, k) = At(s, k - 1)
          BY <1>1, <3>1, <5>1
        <5> QED
          BY <1>4, <3>1, <3>3, <5>1, <5>2
      <4> QED
        BY <4>1, <4>2
    <3> QED
      BY <3>1, <3>5, <3>6
  <2> QED
    BY <1>1, <2>0, <2>1, <2>2, <2>3
<1> QED
  BY <1>2, <1>3, <1>5 DEF Chain

LEMMA ChainDropped ==
  ASSUME NEW s \in Seq(Nodes), NEW u \in Seq(Nodes), NEW p,
         Dropped(u, s, p), IsInjective(s),
         NEW h, NEW t, NEW nx, NEW pv, Chain(s, h, t, nx, pv),
         NEW nx2, NEW pv2,
         TakenOut(s[p], At(s, p - 1), At(s, p + 1), nx, pv, nx2, pv2)
  PROVE  Chain(u, IF p = 1 THEN At(s, 2) ELSE h,
               IF p = Len(s) THEN At(s, Len(s) - 1) ELSE t, nx2, pv2)
<1>0. \A i \in 1..Len(s) : At(s, i) = s[i]
  BY DEF At
<1>1. /\ Len(s) \in Nat /\ p \in 1..Len(s) /\ Len(u) = Len(s) - 1 /\ p \in Int
      /\ \A i \in Int : i < p => At(u, i) = At(s, i)
      /\ \A i \in Int : i >= p => At(u, i) = At(s, i + 1)
  BY DroppedAt
<1>6. Len(s) \in Nat /\ p \in 1..Len(s) /\ Len(u) = Len(s) - 1 /\ p \in Int
  BY <1>1
<1>2. (IF p = 1 THEN At(s, 2) ELSE h) = At(u, 1)
  <2>1. CASE p = 1
    <3>1. At(u, 1) = At(s, 1 + 1) /\ 1 + 1 = 2
      BY <1>1, <2>1
    <3> QED
      BY <2>1, <3>1
  <2>2. CASE p # 1
    <3>1. At(u, 1) = At(s, 1)
      BY <1>1, <2>2
    <3> QED
      BY <2>2, <3>1 DEF Chain
  <2> QED
    BY <2>1, <2>2
<1>3. (IF p = Len(s) THEN At(s, Len(s) - 1) ELSE t) = At(u, Len(u))
  <2>1. CASE p = Len(s)
    <3>1. Len(s) - 1 < p /\ Len(s) - 1 \in Int
      BY <1>1, <2>1
    <3> QED
      BY <1>1, <2>1, <3>1
  <2>2. CASE p # Len(s)
    <3>1. Len(s) - 1 >= p /\ Len(s) - 1 \in Int /\ (Len(s) - 1) + 1 = Len(s)
      BY <1>1, <2>2
    <3>2. At(u, Len(s) - 1) = At(s, (Len(s) - 1) + 1)
      BY <1>1, <3>1
    <3>3. t = At(s, Len(s))
      BY DEF Chain
    <3> QED
      BY <1>1, <2>2, <3>1, <3>2, <3>3
  <2> QED
    BY <2>1, <2>2
<1>4. ASSUME NEW i \in 1..Len(s)
      PROVE  /\ s[i] \in Nodes /\ s[i] # NULL /\ (i # p => s[i] # s[p])
             /\ nx[s[i]] = At(s, i + 1) /\ pv[s[i]] = At(s, i - 1)
             /\ \A j \in Int : s[i] = At(s, j) => i = j
  <2>1. s[i] \in Nodes /\ s[i] \in Range(s)
    BY DEF Range
  <2>2. \A j \in Int : s[i] = At(s, j) => i = j
    BY AtOnce
  <2>3. i # p => s[i] # s[p]
    BY <1>0, <1>1, <2>2
  <2> QED
    BY <2>1, <2>2, <2>3, AdListAssumption DEF Chain
<1>5. ASSUME NEW j \in 1..Len(u)
      PROVE  nx2[u[j]] = At(u, j + 1) /\ pv2[u[j]] = At(u, j - 1)
  <2>0. j \in Int /\ u[j] = At(u, j) /\ j + 1 \in Int /\ j - 1 \in Int
    BY DEF At
  <2>1. CASE j < p
    <3>1. j \in 1..Len(s) /\ u[j] = s[j] /\ j # p
      <4>1. j \in 1..Len(s) /\ j # p
        BY <1>6, <2>0, <2>1
      <4> QED
        BY <1>0, <1>1, <2>0, <2>1, <4>1
    <3>2. nx2[s[j]] = IF s[j] = At(s, p - 1) THEN At(s, p + 1) ELSE nx[s[j]]
      BY <1>4, <3>1 DEF TakenOut
    <3>3. pv2[s[j]] = IF s[j] = At(s, p + 1) THEN At(s, p - 1) ELSE pv[s[j]]
      BY <1>4, <3>1 DEF TakenOut
    <3>4. s[j] # At(s, p + 1)
      <4>1. p + 1 \in Int /\ j # p + 1
        BY <1>1, <2>0, <2>1
      <4> QED
        BY <1>4, <3>1, <4>1
    <3>5. pv2[s[j]] = At(u, j - 1)
      <4>1. j - 1 < p
        BY <1>1, <2>0, <2>1
      <4> QED
        BY <1>1, <1>4, <2>0, <3>1, <3>3, <3>4, <4>1
    <3>6. CASE j = p - 1
      <4>1. s[j] = At(s, p - 1) /\ j + 1 = p
        <5>1. s[j] = At(s, j)
          BY <1>0, <3>1
        <5>2. j + 1 = p
          BY <1>6, <2>0, <3>6
        <5> QED
          BY <3>6, <5>1, <5>2
      <4> QED
        BY <1>1, <3>1, <3>2, <3>5, <4>1
    <3>7. CASE j # p - 1
      <4>1. p - 1 \in Int /\ j + 1 < p
        BY <1>1, <2>0, <2>1, <3>7
      <4>2. s[j] # At(s, p - 1)
        BY <1>4, <3>1, <3>7, <4>1
      <4> QED
        BY <1>1, <1>4, <2>0, <3>1, <3>2, <3>5, <4>1, <4>2
    <3> QED
      BY <3>6, <3>7
  <2>2. CASE j >= p
    <3> DEFINE k == j + 1
    <3>1. k \in 1..Len(s) /\ u[j] = s[k] /\ k \in Int /\ k > p /\ j = k - 1 /\ k # p
      BY <1>1, <2>0, <2>2, <1>0
    <3> HIDE DEF k
    <3>2. nx2[s[k]] = IF s[k] = At(s, p - 1) THEN At(s, p + 1) ELSE nx[s[k]]
      BY <1>4, <3>1 DEF TakenOut
    <3>3. pv2[s[k]] = IF s[k] = At(s, p + 1) THEN At(s, p - 1) ELSE pv[s[k]]
      BY <1>4, <3>1 DEF TakenOut
    <3>4. s[k] # At(s, p - 1)
      <4>1. p - 1 \in Int /\ k # p - 1
        BY <1>1, <3>1
      <4> QED
        BY <1>4, <3>1, <4>1
    <3>5. nx2[s[k]] = At(u, j + 1)
      <4>1. At(u, j + 1) = At(s, (j + 1) + 1) /\ (j + 1) + 1 = k + 1
        BY <1>1, <2>0, <2>2, <3>1
      <4> QED
        BY <1>4, <3>1, <3>2, <3>4, <4>1
    <3>6. pv2[s[k]] = At(u, j - 1)
      <4>1. CASE k = p + 1
        <5>1. At(s, p + 1) = s[k] /\ j - 1 = p - 1
          BY <1>1, <3>1, <4>1, <1>0
        <5>2. At(u, p - 1) = At(s, p - 1)
          BY <1>1
        <5> QED
          BY <3>3, <5>1, <5>2
      <4>2. CASE k # p + 1
        <5>1. p + 1 \in Int /\ j - 1 >= p /\ (j - 1) + 1 = k - 1
          BY <1>1, <3>1, <4>2
        <5>2. s[k] # At(s, p + 1)
          BY <1>4, <3>1, <4>2, <5>1
        <5>3. At(u, j - 1) = At(s, (j - 1) + 1)
          BY <1>1, <2>0, <5>1
        <5> QED
          BY <1>4, <3>1, <3>3, <5>1, <5>2, <5>3
      <4> QED
        BY <4>1, <4>2
    <3> QED
      BY <3>1, <3>5, <3>6
  <2> QED
    BY <1>1, <2>0, <2>1, <2>2
<1> QED
  BY <1>2, <1>3, <1>5 DEF Chain

LEMMA ChainJoined ==
  ASSUME NEW s \in Seq(Nodes), NEW v \in Seq(Nodes), IsInjective(s), IsInjective(v),
         Apart(s, v), NEW h, NEW t, NEW x, NEW y, NEW nx, NEW pv,
         Chain(s, h, t, nx, pv), Chain(v, x, y, nx, pv),
         NEW nx2, NEW pv2, Joined(t, x, nx, pv, nx2, pv2)
  PROVE  Chain(s \o v, IF t = NULL THEN x ELSE h, IF y # NULL THEN y ELSE t, nx2, pv2)
<1> USE DEF Apart, Joined
<1> DEFINE w == s \o v
           k == Len(s)
<1>1. /\ k \in Nat /\ Len(v) \in Nat /\ w \in Seq(Nodes) /\ Len(w) = k + Len(v)
      /\ \A i \in 1..k : w[i] = s[i]
      /\ \A i \in (k + 1)..(k + Len(v)) : w[i] = v[i - k]
  BY Concatenated
<1> HIDE DEF w
<1>2. ASSUME NEW i \in Int
      PROVE  At(w, i) = IF i <= k THEN At(s, i) ELSE At(v, i - k)
  <2>1. CASE i <= k
    <3>1. i \in 1..Len(w) <=> i \in 1..k
      BY <1>1, <2>1
    <3> QED
      BY <1>1, <2>1, <3>1 DEF At
  <2>2. CASE i > k
    <3>1. i \in 1..Len(w) <=> i - k \in 1..Len(v)
      BY <1>1, <2>2
    <3>2. i \in 1..Len(w) => i \in (k + 1)..(k + Len(v))
      BY <1>1, <2>2
    <3> QED
      BY <1>1, <2>2, <3>1, <3>2 DEF At
  <2> QED
    BY <1>1, <2>1, <2>2
<1>3. /\ h = At(s, 1) /\ t = At(s, k) /\ x = At(v, 1) /\ y = At(v, Len(v))
      /\ t # NULL <=> k # 0
      /\ y # NULL <=> Len(v) # 0
  <2>1. h = At(s, 1) /\ t = At(s, k) /\ x = At(v, 1) /\ y = At(v, Len(v))
    BY DEF Chain
  <2>2. t # NULL <=> k \in 1..k
    BY <1>1, <2>1, AtNode
  <2>3. y # NULL <=> Len(v) \in 1..Len(v)
    BY <1>1, <2>1, AtNode
  <2> QED
    BY <1>1, <2>1, <2>2, <2>3
<1>4. (IF t = NULL THEN x ELSE h) = At(w, 1)
  <2>1. CASE k = 0
    <3>1. At(w, 1) = At(v, 1 - 0) /\ 1 - 0 = 1
      BY <1>2, <2>1
    <3> QED
      BY <1>3, <2>1, <3>1
  <2>2. CASE k # 0
    BY <1>1, <1>2, <1>3, <2>2
  <2> QED
    BY <2>1, <2>2
<1>5. (IF y # NULL THEN y ELSE t) = At(w, Len(w))
  <2>1. CASE Len(v) = 0
    BY <1>1, <1>2, <1>3, <2>1
  <2>2. CASE Len(v) # 0
    <3>1. Len(w) > k /\ Len(w) - k = Len(v) /\ Len(w) \in Int
      BY <1>1, <2>2
    <3> QED
      BY <1>2, <1>3, <2>2, <3>1
  <2> QED
    BY <2>1, <2>2
<1>6. ASSUME NEW i \in 1..k
      PROVE  nx2[s[i]] = At(w, i + 1) /\ pv2[s[i]] = At(w, i - 1)
  <2>1. s[i] \in Nodes /\ s[i] # NULL
    BY AdListAssumption
  <2>2. nx[s[i]] = At(s, i + 1) /\ pv[s[i]] = At(s, i - 1)
    BY DEF Chain
  <2>3. i \in Int /\ i - 1 \in Int /\ i + 1 \in Int /\ i - 1 <= k
    BY <1>1
  <2>4. s[i] # x
    <3>1. CASE 1 \in 1..Len(v)
      <4>1. x = v[1]
        BY <1>3, <3>1 DEF At
      <4> QED
        BY <3>1, <4>1
    <3>2. CASE 1 \notin 1..Len(v)
      <4>1. x = NULL
        BY <1>3, <3>2 DEF At
      <4> QED
        BY <2>1, <4>1
    <3> QED
      BY <3>1, <3>2
  <2>5. pv2[s[i]] = At(w, i - 1)
    BY <1>2, <2>1, <2>2, <2>3, <2>4
  <2>6. CASE i = k
    <3>1. s[i] = t /\ i + 1 > k /\ (i + 1) - k = 1
      BY <1>1, <1>3, <2>6 DEF At
    <3>2. At(w, i + 1) = At(v, (i + 1) - k)
      BY <1>1, <1>2, <2>3, <3>1
    <3> QED
      BY <1>3, <2>1, <2>5, <3>1, <3>2
  <2>7. CASE i # k
    <3>1. i + 1 <= k
      BY <1>1, <2>7
    <3>2. s[i] # t
      <4>1. s[i] = At(s, k) => i = k
        BY <1>1, AtOnce
      <4> QED
        BY <1>3, <2>7, <4>1
    <3> QED
      BY <1>2, <2>1, <2>2, <2>3, <2>5, <3>1, <3>2
  <2> QED
    BY <2>6, <2>7
<1>7. ASSUME NEW i \in 1..Len(v)
      PROVE  nx2[v[i]] = At(w, k + i + 1) /\ pv2[v[i]] = At(w, k + i - 1)
  <2>1. v[i] \in Nodes /\ v[i] # NULL
    BY AdListAssumption
  <2>2. nx[v[i]] = At(v, i + 1) /\ pv[v[i]] = At(v, i - 1)
    BY DEF Chain
  <2>3. /\ i \in Int /\ k + i + 1 \in Int /\ k + i - 1 \in Int
        /\ k + i + 1 > k /\ (k + i + 1) - k = i + 1
    BY <1>1
  <2>4. v[i] # t
    <3>1. CASE k \in 1..k
      <4>1. t = s[k]
        BY <1>3, <3>1 DEF At
      <4> QED
        BY <3>1, <4>1
    <3>2. CASE k \notin 1..k
      <4>1. t = NULL
        BY <1>3, <3>2 DEF At
      <4> QED
        BY <2>1, <4>1
    <3> QED
      BY <3>1, <3>2
  <2>5. nx2[v[i]] = At(w, k + i + 1)
    <3>1. At(w, k + i + 1) = At(v, i + 1)
      BY <1>1, <1>2, <2>3
    <3> QED
      BY <2>1, <2>2, <2>4, <3>1
  <2>6. CASE i = 1
    <3>1. v[i] = x /\ k + i - 1 = k
      BY <1>1, <1>3, <2>6 DEF At
    <3>2. At(w, k) = At(s, k)
      BY <1>1, <1>2
    <3> QED
      BY <1>3, <2>1, <2>5, <3>1, <3>2
  <2>7. CASE i # 1
    <3>1. k + i - 1 > k /\ (k + i - 1) - k = i - 1
      BY <1>1, <2>7
    <3>2. v[i] # x
      <4>1. v[i] = At(v, 1) => i = 1
        BY AtOnce
      <4> QED
        BY <1>3, <2>7, <4>1
    <3>3. At(w, k + i - 1) = At(v, i - 1)
      BY <1>1, <1>2, <2>3, <3>1
    <3> QED
      BY <2>1, <2>2, <2>5, <3>2, <3>3
  <2> QED
    BY <2>6, <2>7
<1>8. ASSUME NEW j \in 1..Len(w)
      PROVE  nx2[w[j]] = At(w, j + 1) /\ pv2[w[j]] = At(w, j - 1)
  <2>1. CASE j <= k
    <3>1. j \in 1..k
      BY <2>1
    <3> QED
      BY <1>1, <1>6, <3>1
  <2>2. CASE j > k
    <3> DEFINE i == j - k
    <3>1. i \in 1..Len(v) /\ j \in (k + 1)..(k + Len(v)) /\ k + i = j
      BY <1>1, <2>2
    <3>2. w[j] = v[i]
      BY <1>1, <3>1
    <3>3. k + i + 1 = j + 1 /\ k + i - 1 = j - 1
      BY <1>1
    <3> HIDE DEF i
    <3>4. nx2[v[i]] = At(w, k + i + 1) /\ pv2[v[i]] = At(w, k + i - 1)
      BY <1>7, <3>1
    <3> QED
      BY <3>2, <3>3, <3>4
  <2> QED
    BY <1>1, <2>1, <2>2
<1> QED
  BY <1>4, <1>5, <1>8 DEF Chain, w

(* A list none of whose nodes a step touches.                              *)
LEMMA ChainKept ==
  ASSUME NEW s \in Seq(Nodes), NEW h, NEW t, NEW nx, NEW pv, Chain(s, h, t, nx, pv),
         NEW nx2, NEW pv2, Untouched(s, nx, pv, nx2, pv2)
  PROVE  Chain(s, h, t, nx2, pv2)
  BY DEF Chain, Untouched

-----------------------------------------------------------------------------
(* The nodes of the sequences, and their order.                            *)
SameOrder(s, u) ==
  \A i, j \in 1..Len(s), a, b \in 1..Len(u) :
    s[i] = u[a] /\ s[j] = u[b] => (i < j <=> a < b)

LEMMA NodeIn ==
  ASSUME NEW s \in Seq(Nodes)
  PROVE  /\ Range(s) \subseteq Nodes
         /\ \A i \in 1..Len(s) : s[i] \in Range(s)
         /\ \A m \in Range(s) : \E i \in 1..Len(s) : s[i] = m
         /\ IsInjective(s) <=> \A i, j \in 1..Len(s) : s[i] = s[j] => i = j
<1>1. DOMAIN s = 1..Len(s)
  OBVIOUS
<1>2. Range(s) \subseteq Nodes
  BY DEF Range
<1> QED
  BY <1>1, <1>2 DEF Range, IsInjective

LEMMA InsertedNodes ==
  ASSUME NEW s \in Seq(Nodes), NEW u \in Seq(Nodes), NEW n \in Nodes, NEW p,
         Inserted(u, s, p, n), IsInjective(s), n \notin Range(s)
  PROVE  Range(u) = Range(s) \cup {n} /\ IsInjective(u) /\ SameOrder(s, u)
<1>1. /\ Len(s) \in Nat /\ p \in 1..(Len(s) + 1) /\ Len(u) = Len(s) + 1
      /\ \A i \in 1..Len(u) :
           u[i] = IF i < p THEN s[i] ELSE IF i = p THEN n ELSE s[i - 1]
  BY DEF Inserted
<1> DEFINE f(i) == IF i < p THEN i ELSE i - 1
<1>2. ASSUME NEW i \in 1..Len(u), i # p
      PROVE  f(i) \in 1..Len(s) /\ u[i] = s[f(i)] /\ u[i] \in Range(s) /\ u[i] # n
  <2>1. f(i) \in 1..Len(s)
    BY <1>1, <1>2
  <2>2. u[i] = s[f(i)]
    BY <1>1, <1>2
  <2> HIDE DEF f
  <2> QED
    BY <2>1, <2>2, NodeIn
<1>3. \A i, j \in 1..Len(u) : i # p /\ j # p => (f(i) = f(j) <=> i = j)
  BY <1>1
<1>4. \A i, j \in 1..Len(u) : i # p /\ j # p => (f(i) < f(j) <=> i < j)
  BY <1>1
<1>5. p \in 1..Len(u) /\ u[p] = n
  BY <1>1
<1>6. \A i, j \in 1..Len(s) : s[i] = s[j] => i = j
  BY NodeIn
<1>7. ASSUME NEW i \in 1..Len(s)
      PROVE  s[i] \in Range(u)
  <2> DEFINE k == IF i < p THEN i ELSE i + 1
  <2>1. k \in 1..Len(u) /\ u[k] = s[i]
    BY <1>1
  <2> HIDE DEF k
  <2> QED
    BY <2>1, NodeIn
<1> HIDE DEF f
<1>8. Range(u) = Range(s) \cup {n}
  <2>1. ASSUME NEW m \in Range(u)
        PROVE  m \in Range(s) \cup {n}
    <3>1. PICK i \in 1..Len(u) : u[i] = m
      BY NodeIn
    <3> QED
      BY <1>2, <1>5, <3>1
  <2>2. ASSUME NEW m \in Range(s)
        PROVE  m \in Range(u)
    <3>1. PICK i \in 1..Len(s) : s[i] = m
      BY NodeIn
    <3> QED
      BY <1>7, <3>1
  <2>3. n \in Range(u)
    BY <1>5, NodeIn
  <2> QED
    BY <2>1, <2>2, <2>3
<1>9. IsInjective(u)
  <2>1. ASSUME NEW i \in 1..Len(u), NEW j \in 1..Len(u), u[i] = u[j]
        PROVE  i = j
    <3>1. CASE i = p \/ j = p
      BY <1>2, <1>5, <2>1, <3>1
    <3>2. CASE i # p /\ j # p
      BY <1>2, <1>3, <1>6, <2>1, <3>2
    <3> QED
      BY <3>1, <3>2
  <2> QED
    BY <2>1, NodeIn
<1>10. SameOrder(s, u)
  <2>1. ASSUME NEW i \in 1..Len(s), NEW j \in 1..Len(s),
               NEW a \in 1..Len(u), NEW b \in 1..Len(u), s[i] = u[a], s[j] = u[b]
        PROVE  i < j <=> a < b
    <3>1. s[i] \in Range(s) /\ s[j] \in Range(s)
      BY NodeIn
    <3>2. a # p /\ b # p
      BY <1>5, <2>1, <3>1
    <3>3. f(a) = i /\ f(b) = j
      BY <1>2, <1>6, <2>1, <3>2
    <3> QED
      BY <1>4, <3>2, <3>3
  <2> QED
    BY <2>1 DEF SameOrder
<1> QED
  BY <1>8, <1>9, <1>10

LEMMA DroppedNodes ==
  ASSUME NEW s \in Seq(Nodes), NEW u \in Seq(Nodes), NEW p,
         Dropped(u, s, p), IsInjective(s)
  PROVE  /\ Range(u) = Range(s) \ {s[p]} /\ IsInjective(u) /\ SameOrder(s, u)
         /\ s[p] \in Range(s)
<1>1. /\ Len(s) \in Nat /\ p \in 1..Len(s) /\ Len(u) = Len(s) - 1
      /\ \A i \in 1..Len(u) : u[i] = IF i < p THEN s[i] ELSE s[i + 1]
  BY DEF Dropped
<1> DEFINE f(i) == IF i < p THEN i ELSE i + 1
<1>2. ASSUME NEW i \in 1..Len(u)
      PROVE  f(i) \in 1..Len(s) /\ f(i) # p /\ u[i] = s[f(i)]
  <2>1. f(i) \in 1..Len(s) /\ f(i) # p
    BY <1>1
  <2>2. u[i] = s[f(i)]
    BY <1>1
  <2> HIDE DEF f
  <2> QED
    BY <2>1, <2>2
<1>3. \A i, j \in 1..Len(u) : f(i) = f(j) <=> i = j
  BY <1>1
<1>4. \A i, j \in 1..Len(u) : f(i) < f(j) <=> i < j
  BY <1>1
<1>6. \A i, j \in 1..Len(s) : s[i] = s[j] => i = j
  BY NodeIn
<1>7. ASSUME NEW i \in 1..Len(s), i # p
      PROVE  s[i] \in Range(u)
  <2> DEFINE k == IF i < p THEN i ELSE i - 1
  <2>1. k \in 1..Len(u) /\ u[k] = s[i]
    BY <1>1, <1>7
  <2> HIDE DEF k
  <2> QED
    BY <2>1, NodeIn
<1> HIDE DEF f
<1>8. Range(u) = Range(s) \ {s[p]}
  <2>1. ASSUME NEW m \in Range(u)
        PROVE  m \in Range(s) /\ m # s[p]
    <3>1. PICK i \in 1..Len(u) : u[i] = m
      BY NodeIn
    <3>2. m = s[f(i)] /\ f(i) \in 1..Len(s) /\ f(i) # p
      BY <1>2, <3>1
    <3> QED
      BY <1>1, <1>6, <3>2, NodeIn
  <2>2. ASSUME NEW m \in Range(s), m # s[p]
        PROVE  m \in Range(u)
    <3>1. PICK i \in 1..Len(s) : s[i] = m
      BY NodeIn
    <3> QED
      BY <1>7, <2>2, <3>1
  <2> QED
    BY <2>1, <2>2
<1>9. IsInjective(u)
  <2>1. ASSUME NEW i \in 1..Len(u), NEW j \in 1..Len(u), u[i] = u[j]
        PROVE  i = j
    BY <1>2, <1>3, <1>6, <2>1
  <2> QED
    BY <2>1, NodeIn
<1>10. SameOrder(s, u)
  <2>1. ASSUME NEW i \in 1..Len(s), NEW j \in 1..Len(s),
               NEW a \in 1..Len(u), NEW b \in 1..Len(u), s[i] = u[a], s[j] = u[b]
        PROVE  i < j <=> a < b
    <3>3. f(a) = i /\ f(b) = j
      BY <1>2, <1>6, <2>1
    <3> QED
      BY <1>4, <3>3
  <2> QED
    BY <2>1 DEF SameOrder
<1> QED
  BY <1>1, <1>8, <1>9, <1>10, NodeIn

LEMMA JoinedNodes ==
  ASSUME NEW s \in Seq(Nodes), NEW v \in Seq(Nodes), IsInjective(s), IsInjective(v),
         Range(s) \cap Range(v) = {}
  PROVE  /\ s \o v \in Seq(Nodes) /\ Len(s \o v) = Len(s) + Len(v)
         /\ Range(s \o v) = Range(s) \cup Range(v) /\ IsInjective(s \o v)
<1> DEFINE w == s \o v
           k == Len(s)
<1>1. /\ k \in Nat /\ Len(v) \in Nat /\ w \in Seq(Nodes) /\ Len(w) = k + Len(v)
      /\ \A i \in 1..k : w[i] = s[i]
      /\ \A i \in (k + 1)..(k + Len(v)) : w[i] = v[i - k]
  BY Concatenated
<1> HIDE DEF w
<1>2. ASSUME NEW i \in 1..Len(w)
      PROVE  \/ i \in 1..k /\ w[i] = s[i] /\ w[i] \in Range(s)
             \/ i > k /\ i - k \in 1..Len(v) /\ w[i] = v[i - k] /\ w[i] \in Range(v)
  <2>1. CASE i <= k
    <3>1. i \in 1..k
      BY <2>1
    <3> QED
      BY <1>1, <3>1, NodeIn
  <2>2. CASE i > k
    <3>1. i \in (k + 1)..(k + Len(v)) /\ i - k \in 1..Len(v)
      BY <1>1, <2>2
    <3>2. w[i] = v[i - k] /\ v[i - k] \in Range(v)
      BY <1>1, <3>1, NodeIn
    <3> QED
      BY <2>2, <3>1, <3>2
  <2> QED
    BY <1>1, <2>1, <2>2
<1>3. IsInjective(w)
  <2>1. ASSUME NEW i \in 1..Len(w), NEW j \in 1..Len(w), w[i] = w[j]
        PROVE  i = j
    <3>1. \A a, b \in 1..k : s[a] = s[b] => a = b
      BY NodeIn
    <3>2. \A a, b \in 1..Len(v) : v[a] = v[b] => a = b
      BY NodeIn
    <3>3. CASE i \in 1..k /\ j \in 1..k
      BY <1>1, <2>1, <3>1, <3>3
    <3>4. CASE i > k /\ j > k
      <4>1. i - k \in 1..Len(v) /\ j - k \in 1..Len(v) /\ v[i - k] = v[j - k]
        BY <1>1, <1>2, <2>1, <3>4
      <4>2. i - k = j - k
        BY <3>2, <4>1
      <4> QED
        BY <1>1, <4>2
    <3>5. CASE w[i] \in Range(s) /\ w[j] \in Range(v)
      BY <2>1, <3>5
    <3>6. CASE w[i] \in Range(v) /\ w[j] \in Range(s)
      BY <2>1, <3>6
    <3> QED
      BY <1>2, <3>3, <3>4, <3>5, <3>6
  <2> QED
    BY <1>1, <2>1, NodeIn
<1>4. Range(w) = Range(s) \cup Range(v)
  <2>1. ASSUME NEW m \in Range(w)
        PROVE  m \in Range(s) \cup Range(v)
    BY <1>1, <1>2, NodeIn
  <2>2. ASSUME NEW m \in Range(s)
        PROVE  m \in Range(w)
    <3>1. PICK i \in 1..k : s[i] = m
      BY NodeIn
    <3>2. i \in 1..Len(w) /\ w[i] = m
      BY <1>1, <3>1
    <3> QED
      BY <1>1, <3>2, NodeIn
  <2>3. ASSUME NEW m \in Range(v)
        PROVE  m \in Range(w)
    <3>1. PICK i \in 1..Len(v) : v[i] = m
      BY NodeIn
    <3>2. k + i \in (k + 1)..(k + Len(v)) /\ k + i \in 1..Len(w) /\ (k + i) - k = i
      BY <1>1
    <3>3. w[k + i] = v[(k + i) - k]
      BY <1>1, <3>2
    <3>4. w[k + i] = m
      BY <3>1, <3>2, <3>3
    <3> QED
      BY <1>1, <3>2, <3>4, NodeIn
  <2> QED
    BY <2>1, <2>2, <2>3
<1> QED
  BY <1>1, <1>3, <1>4 DEF w

-----------------------------------------------------------------------------
(* The pointers of the lists are those of the sequences q: no node is in   *)
(* two places, and none that is in one is free.                            *)
Typed ==
  /\ head \in [Lists -> Pointers] /\ tail \in [Lists -> Pointers]
  /\ len \in [Lists -> Nat]
  /\ next \in [Nodes -> Pointers] /\ prev \in [Nodes -> Pointers]
  /\ unused \subseteq Nodes

Represents(q) ==
  /\ Typed /\ q \in [Lists -> Seq(Nodes)]
  /\ \A l \in Lists :
       /\ Chain(q[l], head[l], tail[l], next, prev) /\ len[l] = Len(q[l])
       /\ IsInjective(q[l]) /\ Range(q[l]) \cap unused = {}
  /\ \A l, o \in Lists : l # o => Range(q[l]) \cap Range(q[o]) = {}

(* A step that gives one list other nodes and leaves the rest alone.       *)
LEMMA OneChanged ==
  ASSUME NEW q, Represents(q), Typed', NEW l \in Lists, NEW u \in Seq(Nodes), IsInjective(u),
         Chain(u, head'[l], tail'[l], next', prev'),
         \A o \in Lists : o # l => /\ head'[o] = head[o] /\ tail'[o] = tail[o]
                                   /\ len'[o] = len[o],
         len'[l] = Len(u),
         Range(u) \subseteq Range(q[l]) \cup unused, Range(u) \cap unused' = {},
         unused' \subseteq unused \cup Range(q[l]),
         \A m \in Nodes : m \notin Range(q[l]) \cup unused =>
           next'[m] = next[m] /\ prev'[m] = prev[m]
  PROVE  Represents([q EXCEPT ![l] = u])'
<1> DEFINE r == [q EXCEPT ![l] = u]
<1>1. q \in [Lists -> Seq(Nodes)]
  BY DEF Represents
<1>2. /\ r \in [Lists -> Seq(Nodes)] /\ r[l] = u
      /\ \A o \in Lists : o # l => r[o] = q[o]
  BY <1>1
<1> HIDE DEF r
<1>3. ASSUME NEW o \in Lists, o # l
      PROVE  /\ Chain(q[o], head'[o], tail'[o], next', prev')
             /\ Range(q[o]) \cap Range(u) = {} /\ Range(q[o]) \cap unused' = {}
  <2>1. /\ q[o] \in Seq(Nodes) /\ Chain(q[o], head[o], tail[o], next, prev)
        /\ Range(q[o]) \cap unused = {} /\ Range(q[o]) \cap Range(q[l]) = {}
    BY <1>1, <1>3 DEF Represents
  <2>2. ASSUME NEW i \in 1..Len(q[o])
        PROVE  next'[q[o][i]] = next[q[o][i]] /\ prev'[q[o][i]] = prev[q[o][i]]
    <3>1. q[o][i] \in Nodes /\ q[o][i] \in Range(q[o])
      BY <2>1, NodeIn
    <3> QED
      BY <2>1, <3>1
  <2>3. Chain(q[o], head[o], tail[o], next', prev')
    <3>1. Untouched(q[o], next, prev, next', prev')
      BY <2>2 DEF Untouched
    <3> QED
      BY <2>1, <3>1, ChainKept
  <2> QED
    BY <1>3, <2>1, <2>3
<1>4. ASSUME NEW o \in Lists
      PROVE  /\ Chain(r[o], head'[o], tail'[o], next', prev') /\ len'[o] = Len(r[o])
             /\ IsInjective(r[o]) /\ Range(r[o]) \cap unused' = {}
  <2>1. CASE o = l
    BY <1>2, <2>1
  <2>2. CASE o # l
    <3>1. len[o] = Len(q[o]) /\ IsInjective(q[o])
      BY DEF Represents
    <3> QED
      BY <1>2, <1>3, <2>2, <3>1
  <2> QED
    BY <2>1, <2>2
<1>5. ASSUME NEW a \in Lists, NEW b \in Lists, a # b
      PROVE  Range(r[a]) \cap Range(r[b]) = {}
  <2>1. CASE a = l
    BY <1>2, <1>3, <1>5, <2>1
  <2>2. CASE b = l
    BY <1>2, <1>3, <1>5, <2>2
  <2>3. CASE a # l /\ b # l
    BY <1>2, <1>5, <2>3 DEF Represents
  <2> QED
    BY <2>1, <2>2, <2>3
<1> QED
  BY <1>2, <1>4, <1>5 DEF Represents, r

(* One list, in the words of its sequence.                                 *)
LEMMA ListOf ==
  ASSUME NEW q, Represents(q), NEW l \in Lists
  PROVE  /\ q[l] \in Seq(Nodes) /\ IsInjective(q[l]) /\ Range(q[l]) \subseteq Nodes
         /\ Range(q[l]) \cap unused = {} /\ len[l] = Len(q[l]) /\ Len(q[l]) \in Nat
         /\ Chain(q[l], head[l], tail[l], next, prev)
         /\ head[l] = At(q[l], 1) /\ tail[l] = At(q[l], Len(q[l]))
<1>1. q[l] \in Seq(Nodes)
  BY DEF Represents
<1>2. Len(q[l]) \in Nat /\ Range(q[l]) \subseteq Nodes
  BY <1>1, NodeIn
<1> QED
  BY <1>1, <1>2 DEF Represents, Chain

LEMMA AtPointer ==
  ASSUME NEW s \in Seq(Nodes), NEW i
  PROVE  At(s, i) \in Pointers
  BY DEF At, Pointers

(* Inserting a free node, in the form that all four functions share.       *)
LEMMA InsertRepresents ==
  ASSUME NEW q, Represents(q), NEW l \in Lists, NEW n \in unused, NEW u \in Seq(Nodes),
         NEW p, Inserted(u, q[l], p, n), allocate(n),
         head' = IF p = 1 THEN [head EXCEPT ![l] = n] ELSE head,
         tail' = IF p = Len(q[l]) + 1 THEN [tail EXCEPT ![l] = n] ELSE tail,
         link(At(q[l], p - 1), n, At(q[l], p)),
         len' = [len EXCEPT ![l] = @ + 1]
  PROVE  Represents([q EXCEPT ![l] = u])'
<1> DEFINE s == q[l]
           x == At(s, p - 1)
           y == At(s, p)
<1>1. /\ s \in Seq(Nodes) /\ IsInjective(s) /\ Range(s) \subseteq Nodes
      /\ Range(s) \cap unused = {} /\ len[l] = Len(s) /\ Len(s) \in Nat
      /\ Chain(s, head[l], tail[l], next, prev)
  BY ListOf
<1>2. /\ Typed /\ n \in Nodes /\ n \notin Range(s)
      /\ unused' = unused \ {n}
  BY <1>1 DEF Represents, Typed, allocate
<1>3. x \in Pointers /\ y \in Pointers /\ n \in Pointers
  BY <1>1, <1>2, AtPointer DEF Pointers
<1>4. /\ p \in 1..(Len(s) + 1) /\ Len(u) = Len(s) + 1
  BY DEF Inserted
<1>5. Range(u) = Range(s) \cup {n} /\ IsInjective(u)
  BY <1>1, <1>2, InsertedNodes
<1>6. (x = NULL \/ x \in Range(s)) /\ (y = NULL \/ y \in Range(s))
  BY <1>1, NodeIn DEF At
<1> HIDE DEF x, y
<1>7. /\ next' = [m \in Nodes |-> IF m = n THEN y ELSE IF m = x THEN n ELSE next[m]]
      /\ prev' = [m \in Nodes |-> IF m = n THEN x ELSE IF m = y THEN n ELSE prev[m]]
  BY DEF link, x, y
<1>8. LinkedIn(n, x, y, next, prev, next', prev')
  BY <1>7 DEF LinkedIn
<1>9. /\ head'[l] = (IF p = 1 THEN n ELSE head[l])
      /\ tail'[l] = (IF p = Len(s) + 1 THEN n ELSE tail[l])
      /\ len'[l] = Len(u)
      /\ \A o \in Lists : o # l => /\ head'[o] = head[o] /\ tail'[o] = tail[o]
                                   /\ len'[o] = len[o]
  <2>1. head \in [Lists -> Pointers] /\ tail \in [Lists -> Pointers] /\ len \in [Lists -> Nat]
    BY <1>2 DEF Typed
  <2> QED
    BY <1>1, <1>4, <2>1
<1>10. Typed'
  <2>1. /\ head \in [Lists -> Pointers] /\ tail \in [Lists -> Pointers]
        /\ len \in [Lists -> Nat] /\ unused \subseteq Nodes
        /\ next \in [Nodes -> Pointers] /\ prev \in [Nodes -> Pointers]
    BY <1>2 DEF Typed
  <2>2. head' \in [Lists -> Pointers] /\ tail' \in [Lists -> Pointers]
    BY <1>3, <2>1
  <2>3. len' \in [Lists -> Nat]
    BY <2>1
  <2>4. next' \in [Nodes -> Pointers] /\ prev' \in [Nodes -> Pointers]
    BY <1>3, <1>7, <2>1
  <2> QED
    BY <1>2, <2>1, <2>2, <2>3, <2>4 DEF Typed
<1>11. Chain(u, head'[l], tail'[l], next', prev')
  <2>1. Chain(u, IF p = 1 THEN n ELSE head[l],
              IF p = Len(s) + 1 THEN n ELSE tail[l], next', prev')
    <3> HIDE DEF s
    <3> QED
      BY <1>1, <1>2, <1>8, ChainInserted DEF x, y, s
  <2> QED
    BY <1>9, <2>1
<1>12. \A m \in Nodes : m \notin Range(s) \cup unused =>
         next'[m] = next[m] /\ prev'[m] = prev[m]
  BY <1>6, <1>7, AdListAssumption
<1> QED
  BY <1>1, <1>2, <1>5, <1>9, <1>10, <1>11, <1>12, OneChanged

LEMMA AddHeadRepresents ==
  ASSUME NEW q, Represents(q), NEW l \in Lists, listAddNodeHead(l)
  PROVE  \E n \in unused : allocate(n) /\ Represents([q EXCEPT ![l] = <<n>> \o q[l]])'
<1>1. PICK n \in unused :
        /\ allocate(n) /\ len' = [len EXCEPT ![l] = @ + 1]
        /\ head' = [head EXCEPT ![l] = n]
        /\ tail' = IF len[l] = 0 THEN [tail EXCEPT ![l] = n] ELSE tail
        /\ next' = [next EXCEPT ![n] = IF len[l] = 0 THEN NULL ELSE head[l]]
        /\ prev' = [m \in Nodes |-> IF m = n THEN NULL
                                    ELSE IF len[l] # 0 /\ m = head[l] THEN n
                                    ELSE prev[m]]
  BY DEF listAddNodeHead, count
<1> DEFINE s == q[l]
           u == <<n>> \o s
<1>2. /\ s \in Seq(Nodes) /\ len[l] = Len(s) /\ Len(s) \in Nat /\ head[l] = At(s, 1)
      /\ n \in Nodes /\ next \in [Nodes -> Pointers]
  BY ListOf DEF Represents, Typed
<1>3. u \in Seq(Nodes) /\ Inserted(u, s, 1, n)
  BY <1>2, HeadInserts
<1>4. At(s, 1 - 1) = NULL /\ (len[l] = 0 => At(s, 1) = NULL)
  BY <1>2 DEF At
<1>5. link(At(s, 1 - 1), n, At(s, 1))
  <2>1. next' = [m \in Nodes |-> IF m = n THEN At(s, 1) ELSE IF m = At(s, 1 - 1) THEN n ELSE next[m]]
    BY <1>1, <1>2, <1>4, AdListAssumption
  <2>2. prev' = [m \in Nodes |-> IF m = n THEN At(s, 1 - 1) ELSE IF m = At(s, 1) THEN n ELSE prev[m]]
    BY <1>1, <1>2, <1>4, AdListAssumption
  <2> QED
    BY <2>1, <2>2 DEF link
<1>6. tail' = IF 1 = Len(s) + 1 THEN [tail EXCEPT ![l] = n] ELSE tail
  BY <1>1, <1>2
<1>7. Represents([q EXCEPT ![l] = u])'
  <2> HIDE DEF u
  <2> QED
    BY <1>1, <1>3, <1>5, <1>6, InsertRepresents
<1> QED
  BY <1>1, <1>7

LEMMA AddTailRepresents ==
  ASSUME NEW q, Represents(q), NEW l \in Lists, listAddNodeTail(l)
  PROVE  \E n \in unused : allocate(n) /\ Represents([q EXCEPT ![l] = Append(q[l], n)])'
<1>1. PICK n \in unused :
        /\ allocate(n) /\ len' = [len EXCEPT ![l] = @ + 1]
        /\ head' = IF len[l] = 0 THEN [head EXCEPT ![l] = n] ELSE head
        /\ tail' = [tail EXCEPT ![l] = n]
        /\ prev' = [prev EXCEPT ![n] = IF len[l] = 0 THEN NULL ELSE tail[l]]
        /\ next' = [m \in Nodes |-> IF m = n THEN NULL
                                    ELSE IF len[l] # 0 /\ m = tail[l] THEN n
                                    ELSE next[m]]
  BY DEF listAddNodeTail, count
<1> DEFINE s == q[l]
           u == Append(s, n)
           p == Len(s) + 1
<1>2. /\ s \in Seq(Nodes) /\ len[l] = Len(s) /\ Len(s) \in Nat /\ tail[l] = At(s, Len(s))
      /\ n \in Nodes /\ prev \in [Nodes -> Pointers]
  BY ListOf DEF Represents, Typed
<1>3. u \in Seq(Nodes) /\ Inserted(u, s, p, n)
  BY <1>2, AppendInserts
<1>4. At(s, p) = NULL /\ (len[l] = 0 => At(s, Len(s)) = NULL) /\ p - 1 = Len(s)
  BY <1>2 DEF At
<1>5. link(At(s, p - 1), n, At(s, p))
  <2>1. next' = [m \in Nodes |-> IF m = n THEN At(s, p) ELSE IF m = At(s, Len(s)) THEN n ELSE next[m]]
    BY <1>1, <1>2, <1>4, AdListAssumption
  <2>2. prev' = [m \in Nodes |-> IF m = n THEN At(s, Len(s)) ELSE IF m = At(s, p) THEN n ELSE prev[m]]
    BY <1>1, <1>2, <1>4, AdListAssumption
  <2> HIDE DEF p
  <2> QED
    BY <1>4, <2>1, <2>2 DEF link
<1>6. head' = IF p = 1 THEN [head EXCEPT ![l] = n] ELSE head
  BY <1>1, <1>2
<1>7. Represents([q EXCEPT ![l] = u])'
  <2>1. tail' = IF p = Len(s) + 1 THEN [tail EXCEPT ![l] = n] ELSE tail
    BY <1>1
  <2> HIDE DEF u, p
  <2> QED
    BY <1>1, <1>3, <1>5, <1>6, <2>1, InsertRepresents
<1> QED
  BY <1>1, <1>7

(* listIndex(), NodesOf() and the abstract Index() meet here: a node of a  *)
(* list has one place in it.                                               *)
LEMMA InsertNodeRepresents ==
  ASSUME NEW q, Represents(q), NEW l \in Lists, NEW i \in 1..Len(q[l]), NEW n \in unused,
         allocate(n), count(l, 1),
         insertAfter(l, q[l][i], n) \/ insertBefore(l, q[l][i], n)
  PROVE  \/ Represents([q EXCEPT ![l] = InsertAt(q[l], i, n)])'
         \/ Represents([q EXCEPT ![l] = InsertAt(q[l], i + 1, n)])'
<1> DEFINE s == q[l]
           old == s[i]
<1>1. /\ s \in Seq(Nodes) /\ IsInjective(s) /\ len[l] = Len(s) /\ Len(s) \in Nat
      /\ head[l] = At(s, 1) /\ tail[l] = At(s, Len(s)) /\ n \in Nodes /\ i \in 1..Len(s)
      /\ Chain(s, head[l], tail[l], next, prev)
  BY ListOf DEF Represents, Typed
<1>2. /\ next[old] = At(s, i + 1) /\ prev[old] = At(s, i - 1) /\ At(s, i) = old
      /\ \A j \in Int : old = At(s, j) => i = j
  <2> HIDE DEF s
  <2>1. \A j \in Int : s[i] = At(s, j) => i = j
    BY <1>1, AtOnce
  <2> QED
    BY <1>1, <2>1 DEF Chain, At
<1>3. len' = [len EXCEPT ![l] = @ + 1]
  BY DEF count
<1>4. CASE insertAfter(l, old, n)
  <2> DEFINE p == i + 1
             u == InsertAt(s, p, n)
  <2>1. p \in 1..(Len(s) + 1) /\ p - 1 = i /\ p # 1
    BY <1>1
  <2>2. u \in Seq(Nodes) /\ Inserted(u, s, p, n)
    BY <1>1, <2>1, InsertAtInserts
  <2>3. link(At(s, p - 1), n, At(s, p))
    BY <1>2, <1>4, <2>1 DEF insertAfter
  <2>4. tail' = IF p = Len(s) + 1 THEN [tail EXCEPT ![l] = n] ELSE tail
    <3>1. tail[l] = old <=> p = Len(s) + 1
      <4>1. tail[l] = old => i = Len(s)
        <5>1. Len(s) \in Int
          BY <1>1
        <5>2. old = At(s, Len(s)) => i = Len(s)
          BY <1>2, <5>1
        <5> QED
          BY <1>1, <5>2
      <4>2. i = Len(s) => tail[l] = old
        BY <1>1, <1>2
      <4> QED
        BY <1>1, <4>1, <4>2
    <3> QED
      BY <1>4, <3>1 DEF insertAfter
  <2>5. head' = IF p = 1 THEN [head EXCEPT ![l] = n] ELSE head
    BY <1>4, <2>1 DEF insertAfter
  <2>6. Represents([q EXCEPT ![l] = u])'
    <3> HIDE DEF u, p
    <3> QED
      BY <1>3, <2>2, <2>3, <2>4, <2>5, InsertRepresents
  <2> QED
    BY <2>6
<1>5. CASE insertBefore(l, old, n)
  <2> DEFINE u == InsertAt(s, i, n)
  <2>1. i \in 1..(Len(s) + 1) /\ i # Len(s) + 1
    BY <1>1
  <2>2. u \in Seq(Nodes) /\ Inserted(u, s, i, n)
    BY <1>1, <2>1, InsertAtInserts
  <2>3. link(At(s, i - 1), n, At(s, i))
    BY <1>2, <1>5 DEF insertBefore
  <2>4. head' = IF i = 1 THEN [head EXCEPT ![l] = n] ELSE head
    <3>1. head[l] = old <=> i = 1
      BY <1>1, <1>2
    <3> QED
      BY <1>5, <3>1 DEF insertBefore
  <2>5. tail' = IF i = Len(s) + 1 THEN [tail EXCEPT ![l] = n] ELSE tail
    BY <1>5, <2>1 DEF insertBefore
  <2>6. Represents([q EXCEPT ![l] = u])'
    <3> HIDE DEF u
    <3> QED
      BY <1>3, <2>2, <2>3, <2>4, <2>5, InsertRepresents
  <2> QED
    BY <2>6
<1> QED
  BY <1>4, <1>5

LEMMA DeleteRepresents ==
  ASSUME NEW q, Represents(q), NEW l \in Lists, NEW p \in 1..Len(q[l]),
         listDelNode(l, q[l][p])
  PROVE  Represents([q EXCEPT ![l] = RemoveAt(q[l], p)])'
<1> DEFINE s == q[l]
           n == s[p]
           u == RemoveAt(s, p)
           x == At(s, p - 1)
           y == At(s, p + 1)
<1>1. /\ s \in Seq(Nodes) /\ IsInjective(s) /\ Range(s) \subseteq Nodes
      /\ Range(s) \cap unused = {} /\ len[l] = Len(s) /\ Len(s) \in Nat
      /\ Chain(s, head[l], tail[l], next, prev) /\ p \in 1..Len(s) /\ p \in Int
      /\ head[l] = At(s, 1) /\ tail[l] = At(s, Len(s))
  BY ListOf
<1>2. Typed
  BY DEF Represents
<1>3. u \in Seq(Nodes) /\ Dropped(u, s, p) /\ Len(u) = Len(s) - 1
  BY <1>1, RemoveAtDrops DEF Dropped
<1>4. Range(u) = Range(s) \ {n} /\ IsInjective(u) /\ n \in Range(s) /\ n \in Nodes
  <2> HIDE DEF s, u
  <2>1. Range(u) = Range(s) \ {n} /\ IsInjective(u) /\ n \in Range(s)
    BY <1>1, <1>3, DroppedNodes
  <2> QED
    BY <1>1, <2>1
<1>5. next[n] = y /\ prev[n] = x
  BY <1>1 DEF Chain
<1>6. /\ x \in Pointers /\ y \in Pointers
      /\ (x = NULL \/ x \in Range(s)) /\ (y = NULL \/ y \in Range(s))
      /\ x = NULL <=> p = 1
      /\ y = NULL <=> p = Len(s)
      /\ p = 1 => y = At(s, 2)
      /\ p = Len(s) => x = At(s, Len(s) - 1)
  <2> HIDE DEF s
  <2>1. x \in Pointers /\ y \in Pointers
    BY <1>1, AtPointer
  <2>2. p - 1 \in 1..Len(s) <=> p # 1
    BY <1>1
  <2>3. p + 1 \in 1..Len(s) <=> p # Len(s)
    BY <1>1
  <2>4. \A i \in 1..Len(s) : s[i] \in Range(s) /\ s[i] # NULL
    BY <1>1, NodeIn, AdListAssumption
  <2> QED
    BY <1>1, <2>1, <2>2, <2>3, <2>4 DEF At
<1> HIDE DEF x, y
<1>7. /\ unused' = unused \cup {n} /\ len' = [len EXCEPT ![l] = @ - 1]
      /\ next' = [m \in Nodes |-> IF m = n THEN NULL ELSE IF m = x THEN y ELSE next[m]]
      /\ prev' = [m \in Nodes |-> IF m = n THEN NULL ELSE IF m = y THEN x ELSE prev[m]]
      /\ head' = IF x = NULL THEN [head EXCEPT ![l] = y] ELSE head
      /\ tail' = IF y = NULL THEN [tail EXCEPT ![l] = x] ELSE tail
  <2>1. /\ unused' = unused \cup {n} /\ len' = [len EXCEPT ![l] = @ + (-1)]
        /\ unlink(l, n)
    BY DEF listDelNode, count
  <2>2. len' = [len EXCEPT ![l] = @ - 1]
    <3>1. len[l] + (-1) = len[l] - 1
      BY <1>1
    <3> QED
      BY <2>1, <3>1
  <2> HIDE DEF n
  <2> QED
    BY <1>5, <2>1, <2>2 DEF unlink
<1>8. TakenOut(n, x, y, next, prev, next', prev')
  <2> HIDE DEF n
  <2> QED
    BY <1>7 DEF TakenOut
<1>9. /\ head'[l] = (IF p = 1 THEN At(s, 2) ELSE head[l])
      /\ tail'[l] = (IF p = Len(s) THEN At(s, Len(s) - 1) ELSE tail[l])
      /\ len'[l] = Len(u)
      /\ \A o \in Lists : o # l => /\ head'[o] = head[o] /\ tail'[o] = tail[o]
                                   /\ len'[o] = len[o]
  <2>1. head \in [Lists -> Pointers] /\ tail \in [Lists -> Pointers] /\ len \in [Lists -> Nat]
    BY <1>2 DEF Typed
  <2>2. len'[l] = Len(u)
    BY <1>1, <1>3, <1>7, <2>1
  <2> HIDE DEF s, u, n
  <2> QED
    BY <1>6, <1>7, <2>1, <2>2
<1>10. Typed'
  <2>1. /\ head \in [Lists -> Pointers] /\ tail \in [Lists -> Pointers]
        /\ len \in [Lists -> Nat] /\ unused \subseteq Nodes
        /\ next \in [Nodes -> Pointers] /\ prev \in [Nodes -> Pointers]
    BY <1>2 DEF Typed
  <2>2. head' \in [Lists -> Pointers] /\ tail' \in [Lists -> Pointers]
    BY <1>6, <1>7, <2>1
  <2>3. len' \in [Lists -> Nat]
    <3>1. len[l] - 1 \in Nat
      BY <1>1
    <3> QED
      BY <1>7, <2>1, <3>1
  <2>4. next' \in [Nodes -> Pointers] /\ prev' \in [Nodes -> Pointers]
    <3>1. NULL \in Pointers
      BY DEF Pointers
    <3> HIDE DEF n
    <3> QED
      BY <1>6, <1>7, <2>1, <3>1
  <2>5. unused' \subseteq Nodes
    BY <1>4, <1>7, <2>1
  <2> QED
    BY <2>2, <2>3, <2>4, <2>5 DEF Typed
<1>11. Chain(u, head'[l], tail'[l], next', prev')
  <2>1. Chain(u, IF p = 1 THEN At(s, 2) ELSE head[l],
              IF p = Len(s) THEN At(s, Len(s) - 1) ELSE tail[l], next', prev')
    <3>1. TakenOut(s[p], At(s, p - 1), At(s, p + 1), next, prev, next', prev')
      BY <1>8 DEF x, y
    <3> HIDE DEF s, u
    <3> QED
      BY <1>1, <1>3, <3>1, ChainDropped
  <2> QED
    BY <1>9, <2>1
<1>12. \A m \in Nodes : m \notin Range(s) \cup unused =>
         next'[m] = next[m] /\ prev'[m] = prev[m]
  <2> HIDE DEF n, s
  <2> QED
    BY <1>4, <1>6, <1>7, AdListAssumption
<1>13. /\ Range(u) \subseteq Range(s) \cup unused /\ Range(u) \cap unused' = {}
       /\ unused' \subseteq unused \cup Range(s)
  <2> HIDE DEF n, s, u
  <2> QED
    BY <1>1, <1>4, <1>7
<1> HIDE DEF u
<1>14. Represents([q EXCEPT ![l] = u])'
  BY <1>3, <1>4, <1>9, <1>10, <1>11, <1>12, <1>13, OneChanged
<1> QED
  BY <1>14 DEF u

LEMMA EmptyRepresents ==
  ASSUME NEW q, Represents(q), NEW l \in Lists, listEmpty(l), NodesOf(l) = Range(q[l])
  PROVE  Represents([q EXCEPT ![l] = <<>>])'
<1> DEFINE s == q[l]
           u == <<>>
<1>1. /\ s \in Seq(Nodes) /\ IsInjective(s) /\ Range(s) \subseteq Nodes
      /\ Range(s) \cap unused = {}
  BY ListOf
<1>2. Typed
  BY DEF Represents
<1>3. /\ unused' = unused \cup Range(s)
      /\ head' = [head EXCEPT ![l] = NULL] /\ tail' = [tail EXCEPT ![l] = NULL]
      /\ len' = [len EXCEPT ![l] = 0]
      /\ next' = [m \in Nodes |-> IF m \in Range(s) THEN NULL ELSE next[m]]
      /\ prev' = [m \in Nodes |-> IF m \in Range(s) THEN NULL ELSE prev[m]]
  BY DEF listEmpty
<1>4. /\ u \in Seq(Nodes) /\ IsInjective(u) /\ Range(u) = {} /\ Len(u) = 0
  BY DEF IsInjective, Range
<1>5. /\ head'[l] = NULL /\ tail'[l] = NULL /\ len'[l] = 0
      /\ \A o \in Lists : o # l => /\ head'[o] = head[o] /\ tail'[o] = tail[o]
                                   /\ len'[o] = len[o]
  BY <1>2, <1>3 DEF Typed
<1>6. Typed'
  BY <1>1, <1>2, <1>3 DEF Typed, Pointers
<1>7. Chain(u, head'[l], tail'[l], next', prev')
  BY <1>4, <1>5 DEF Chain, At
<1>8. \A m \in Nodes : m \notin Range(s) \cup unused =>
         next'[m] = next[m] /\ prev'[m] = prev[m]
  BY <1>3
<1> HIDE DEF u
<1>9. Represents([q EXCEPT ![l] = u])'
  BY <1>1, <1>3, <1>4, <1>5, <1>6, <1>7, <1>8, OneChanged
<1> QED
  BY <1>9 DEF u

(* A rotation takes a node out at one end and puts it in at the other.     *)
Moved(n, x, y, a, b, nx, pv, nx2, pv2) ==
  \A m \in Nodes :
    /\ nx2[m] = IF m = n THEN b ELSE IF m = a THEN n ELSE IF m = x THEN y ELSE nx[m]
    /\ pv2[m] = IF m = n THEN a ELSE IF m = b THEN n ELSE IF m = y THEN x ELSE pv[m]

LEMMA MovedNodes ==
  ASSUME NEW s \in Seq(Nodes), NEW v \in Seq(Nodes), NEW u \in Seq(Nodes),
         NEW p, NEW k, IsInjective(s),
         Dropped(v, s, p), Inserted(u, v, k, s[p]),
         NEW h, NEW t, NEW nx, NEW pv, Chain(s, h, t, nx, pv),
         NEW nx2, NEW pv2,
         Moved(s[p], At(s, p - 1), At(s, p + 1), At(v, k - 1), At(v, k), nx, pv, nx2, pv2)
  PROVE  /\ Len(u) = Len(s) /\ Range(u) = Range(s) /\ IsInjective(u)
         /\ Chain(u, IF k = 1 THEN s[p] ELSE IF p = 1 THEN At(s, 2) ELSE h,
                  IF k = Len(s) THEN s[p]
                  ELSE IF p = Len(s) THEN At(s, Len(s) - 1) ELSE t, nx2, pv2)
<1> DEFINE n == s[p]
           nx1 == [m \in Nodes |-> IF m = n THEN NULL
                                   ELSE IF m = At(s, p - 1) THEN At(s, p + 1) ELSE nx[m]]
           pv1 == [m \in Nodes |-> IF m = n THEN NULL
                                   ELSE IF m = At(s, p + 1) THEN At(s, p - 1) ELSE pv[m]]
           h1 == IF p = 1 THEN At(s, 2) ELSE h
           t1 == IF p = Len(s) THEN At(s, Len(s) - 1) ELSE t
<1>1. Len(s) \in Nat /\ p \in 1..Len(s) /\ Len(v) = Len(s) - 1 /\ Len(u) = Len(v) + 1
  BY DEF Dropped, Inserted
<1>2. Range(v) = Range(s) \ {n} /\ IsInjective(v) /\ n \in Range(s) /\ n \in Nodes
  <2>1. Range(v) = Range(s) \ {n} /\ IsInjective(v) /\ n \in Range(s)
    BY DroppedNodes
  <2> QED
    BY <1>1, <2>1
<1>3. TakenOut(n, At(s, p - 1), At(s, p + 1), nx, pv, nx1, pv1)
  <2> HIDE DEF n
  <2> QED
    BY DEF TakenOut
<1>4. LinkedIn(n, At(v, k - 1), At(v, k), nx1, pv1, nx2, pv2)
  <2>1. Moved(n, At(s, p - 1), At(s, p + 1), At(v, k - 1), At(v, k), nx, pv, nx2, pv2)
    OBVIOUS
  <2> HIDE DEF n
  <2> QED
    BY <2>1 DEF LinkedIn, Moved
<1>5. Chain(v, h1, t1, nx1, pv1)
  <2>1. TakenOut(s[p], At(s, p - 1), At(s, p + 1), nx, pv, nx1, pv1)
    BY <1>3
  <2> HIDE DEF nx1, pv1
  <2> QED
    BY <2>1, ChainDropped
<1>6. n \notin Range(v) /\ Inserted(u, v, k, n)
  BY <1>2
<1> HIDE DEF n, nx1, pv1, h1, t1
<1>7. Range(u) = Range(v) \cup {n} /\ IsInjective(u)
  BY <1>2, <1>6, InsertedNodes
<1>8. Chain(u, IF k = 1 THEN n ELSE h1, IF k = Len(v) + 1 THEN n ELSE t1, nx2, pv2)
  BY <1>2, <1>4, <1>5, <1>6, ChainInserted
<1>9. Len(v) + 1 = Len(s) /\ Range(u) = Range(s)
  BY <1>1, <1>2, <1>7
<1> QED
  BY <1>1, <1>7, <1>8, <1>9 DEF n, h1, t1

LEMMA RotateTailRepresents ==
  ASSUME NEW q, Represents(q), NEW l \in Lists, listRotateTailToHead(l)
  PROVE  /\ Len(q[l]) > 1
         /\ Represents([q EXCEPT ![l] = <<Last(q[l])>> \o Front(q[l])])'
<1> DEFINE s == q[l]
           k == Len(s)
           v == Front(s)
           n == s[k]
           u == <<n>> \o v
<1>1. /\ s \in Seq(Nodes) /\ IsInjective(s) /\ Range(s) \subseteq Nodes
      /\ Range(s) \cap unused = {} /\ len[l] = k /\ k \in Nat
      /\ Chain(s, head[l], tail[l], next, prev)
      /\ head[l] = At(s, 1) /\ tail[l] = At(s, k)
  BY ListOf
<1>2. Typed /\ k > 1
  BY <1>1 DEF Represents, listRotateTailToHead
<1>3. n \in Nodes /\ tail[l] = n /\ prev[n] = At(s, k - 1)
  <2>1. k \in 1..Len(s)
    BY <1>1, <1>2
  <2>2. tail[l] = n
    BY <1>1, <2>1 DEF At
  <2>3. prev[n] = At(s, k - 1)
    BY <1>1, <2>1 DEF Chain
  <2>4. n \in Nodes
    BY <1>1, <2>1
  <2> QED
    BY <2>2, <2>3, <2>4
<1>4. At(s, k - 1) = s[k - 1] /\ At(s, k - 1) \in Nodes /\ At(s, k - 1) # n
      /\ head[l] = s[1] /\ head[l] \in Nodes /\ head[l] # n /\ At(s, k + 1) = NULL
  <2>1. k \in 1..Len(s) /\ k - 1 \in 1..Len(s) /\ 1 \in 1..Len(s) /\ k + 1 \notin 1..Len(s)
    BY <1>1, <1>2
  <2>2. At(s, k - 1) = s[k - 1] /\ head[l] = s[1] /\ At(s, k + 1) = NULL
    BY <1>1, <2>1 DEF At
  <2>3. \A i, j \in 1..Len(s) : s[i] = s[j] => i = j
    <3> HIDE DEF s
    <3> QED
      BY <1>1, NodeIn
  <2>4. s[k - 1] # n /\ s[1] # n
    <3>1. k - 1 # k /\ 1 # k
      <4> HIDE DEF k, s
      <4> QED
        BY <1>1, <1>2
    <3> QED
      BY <2>1, <2>3, <3>1
  <2> QED
    BY <1>1, <2>1, <2>2, <2>4
<1>5. /\ tail' = [tail EXCEPT ![l] = At(s, k - 1)]
      /\ next' = [next EXCEPT ![At(s, k - 1)] = NULL, ![n] = head[l]]
      /\ prev' = [prev EXCEPT ![head[l]] = n, ![n] = NULL]
      /\ head' = [head EXCEPT ![l] = n]
      /\ len' = len /\ unused' = unused
  <2>1. LET t == tail[l]
        IN /\ tail' = [tail EXCEPT ![l] = prev[t]]
           /\ next' = [next EXCEPT ![prev[t]] = NULL, ![t] = head[l]]
           /\ prev' = [prev EXCEPT ![head[l]] = t, ![t] = NULL]
           /\ head' = [head EXCEPT ![l] = t]
           /\ len' = len /\ unused' = unused
    BY DEF listRotateTailToHead
  <2> HIDE DEF n, k, s
  <2> QED
    BY <1>3, <2>1
<1>6. v \in Seq(Nodes) /\ Dropped(v, s, k)
  BY <1>1, <1>2, FrontDrops
<1>7. At(v, 1) = head[l] /\ At(v, 0) = NULL
  <2>1. At(v, 1) = At(s, 1)
    <3> HIDE DEF v, s
    <3> QED
      BY <1>1, <1>2, <1>6, DroppedAt
  <2>2. At(v, 0) = NULL
    BY DEF At
  <2> QED
    BY <1>1, <2>1, <2>2
<1>8. u \in Seq(Nodes) /\ Inserted(u, v, 1, n)
  <2> HIDE DEF v
  <2> QED
    BY <1>3, <1>6, HeadInserts
<1> HIDE DEF n
<1>9. Moved(n, At(s, k - 1), At(s, k + 1), At(v, 1 - 1), At(v, 1), next, prev, next', prev')
  <2>1. next \in [Nodes -> Pointers] /\ prev \in [Nodes -> Pointers]
    BY <1>2 DEF Typed
  <2>2. At(v, 1 - 1) = NULL
    BY <1>7
  <2>3. ASSUME NEW m \in Nodes
        PROVE  /\ next'[m] = IF m = n THEN head[l]
                             ELSE IF m = At(s, k - 1) THEN NULL ELSE next[m]
               /\ prev'[m] = IF m = n THEN NULL
                             ELSE IF m = head[l] THEN n ELSE prev[m]
    BY <1>3, <1>4, <1>5, <2>1
  <2> HIDE DEF k, s, v
  <2> QED
    BY <1>4, <1>7, <2>2, <2>3, AdListAssumption DEF Moved
<1>10. /\ Len(u) = k /\ Range(u) = Range(s) /\ IsInjective(u)
       /\ Chain(u, n, At(s, k - 1), next', prev')
  <2>1. Moved(s[k], At(s, k - 1), At(s, k + 1), At(v, 1 - 1), At(v, 1), next, prev, next', prev')
    BY <1>9 DEF n
  <2>2. Inserted(u, v, 1, s[k])
    BY <1>8 DEF n
  <2>3. k = Len(s) /\ k # 1
    <3>1. k # 1
      <4> HIDE DEF k
      <4> QED
        BY <1>1, <1>2
    <3> QED
      BY <3>1
  <2> HIDE DEF u, v, k, s
  <2>4. /\ Len(u) = Len(s) /\ Range(u) = Range(s) /\ IsInjective(u)
        /\ Chain(u, IF 1 = 1 THEN s[k] ELSE IF k = 1 THEN At(s, 2) ELSE head[l],
                 IF 1 = Len(s) THEN s[k]
                 ELSE IF k = Len(s) THEN At(s, Len(s) - 1) ELSE tail[l], next', prev')
    <3>1. /\ s \in Seq(Nodes) /\ v \in Seq(Nodes) /\ u \in Seq(Nodes) /\ IsInjective(s)
          /\ Dropped(v, s, k) /\ Inserted(u, v, 1, s[k])
          /\ Chain(s, head[l], tail[l], next, prev)
      BY <1>1, <1>6, <1>8, <2>2
    <3> QED
      BY <3>1, <2>1, MovedNodes
  <2> QED
    BY <2>3, <2>4 DEF n
<1>11. /\ head'[l] = n /\ tail'[l] = At(s, k - 1) /\ len'[l] = Len(u)
       /\ \A o \in Lists : o # l => /\ head'[o] = head[o] /\ tail'[o] = tail[o]
                                    /\ len'[o] = len[o]
  BY <1>1, <1>2, <1>5, <1>10 DEF Typed
<1>12. Typed'
  BY <1>2, <1>3, <1>4, <1>5 DEF Typed, Pointers
<1>13. \A m \in Nodes : m \notin Range(s) \cup unused =>
         next'[m] = next[m] /\ prev'[m] = prev[m]
  <2>1. n \in Range(s) /\ At(s, k - 1) \in Range(s) /\ head[l] \in Range(s)
    <3>1. k \in 1..Len(s) /\ k - 1 \in 1..Len(s) /\ 1 \in 1..Len(s)
      BY <1>1, <1>2
    <3>2. s[k] \in Range(s) /\ s[k - 1] \in Range(s) /\ s[1] \in Range(s)
      BY <1>1, <3>1, NodeIn
    <3> QED
      BY <1>4, <3>2 DEF n
  <2>2. next \in [Nodes -> Pointers] /\ prev \in [Nodes -> Pointers]
    BY <1>2 DEF Typed
  <2> QED
    BY <1>5, <2>1, <2>2
<1>14. Represents([q EXCEPT ![l] = u])'
  <2> HIDE DEF u
  <2> QED
    BY <1>1, <1>5, <1>8, <1>10, <1>11, <1>12, <1>13, OneChanged
<1> QED
  BY <1>2, <1>14 DEF Last, n

LEMMA RotateHeadRepresents ==
  ASSUME NEW q, Represents(q), NEW l \in Lists, listRotateHeadToTail(l)
  PROVE  /\ Len(q[l]) > 1
         /\ Represents([q EXCEPT ![l] = Append(Tail(q[l]), Head(q[l]))])'
<1> DEFINE s == q[l]
           k == Len(s)
           v == Tail(s)
           n == s[1]
           u == Append(v, n)
           y == At(s, 2)
<1>1. /\ s \in Seq(Nodes) /\ IsInjective(s) /\ Range(s) \subseteq Nodes
      /\ Range(s) \cap unused = {} /\ len[l] = k /\ k \in Nat
      /\ Chain(s, head[l], tail[l], next, prev)
      /\ head[l] = At(s, 1) /\ tail[l] = At(s, k)
  BY ListOf
<1>2. Typed /\ k > 1
  BY <1>1 DEF Represents, listRotateHeadToTail
<1>3. n \in Nodes /\ head[l] = n /\ next[n] = y
  <2>1. 1 \in 1..Len(s)
    BY <1>1, <1>2
  <2> QED
    BY <1>1, <2>1 DEF Chain, At
<1>4. y = s[2] /\ y \in Nodes /\ y # n
      /\ tail[l] = s[k] /\ tail[l] \in Nodes /\ tail[l] # n
  <2>1. k \in 1..Len(s) /\ 2 \in 1..Len(s) /\ 1 \in 1..Len(s)
    BY <1>1, <1>2
  <2>2. y = s[2] /\ tail[l] = s[k]
    BY <1>1, <2>1 DEF At
  <2>3. \A i, j \in 1..Len(s) : s[i] = s[j] => i = j
    <3> HIDE DEF s
    <3> QED
      BY <1>1, NodeIn
  <2>4. s[2] # n /\ s[k] # n
    <3>1. 2 # 1 /\ k # 1
      <4> HIDE DEF k, s
      <4> QED
        BY <1>1, <1>2
    <3> QED
      BY <2>1, <2>3, <3>1
  <2> QED
    BY <1>1, <2>1, <2>2, <2>4
<1>5. /\ head' = [head EXCEPT ![l] = y]
      /\ prev' = [prev EXCEPT ![y] = NULL, ![n] = tail[l]]
      /\ next' = [next EXCEPT ![tail[l]] = n, ![n] = NULL]
      /\ tail' = [tail EXCEPT ![l] = n]
      /\ len' = len /\ unused' = unused
  <2>1. LET h == head[l]
        IN /\ head' = [head EXCEPT ![l] = next[h]]
           /\ prev' = [prev EXCEPT ![next[h]] = NULL, ![h] = tail[l]]
           /\ next' = [next EXCEPT ![tail[l]] = h, ![h] = NULL]
           /\ tail' = [tail EXCEPT ![l] = h]
           /\ len' = len /\ unused' = unused
    BY DEF listRotateHeadToTail
  <2> HIDE DEF n, y, k, s
  <2> QED
    BY <1>3, <2>1
<1>6. v \in Seq(Nodes) /\ Dropped(v, s, 1) /\ Len(v) = k - 1
  BY <1>1, <1>2, TailDrops DEF Dropped
<1>7. At(v, k - 1) = tail[l] /\ At(v, k) = NULL /\ At(s, 1 - 1) = NULL
  <2>1. At(v, k - 1) = At(s, (k - 1) + 1) /\ (k - 1) + 1 = k
    <3>1. k - 1 \in Int /\ k - 1 >= 1 /\ (k - 1) + 1 = k
      <4> HIDE DEF k
      <4> QED
        BY <1>1, <1>2
    <3> HIDE DEF v, s, k
    <3> QED
      BY <1>1, <1>6, <3>1, DroppedAt
  <2>2. At(v, k) = NULL /\ At(s, 1 - 1) = NULL
    <3>1. k \notin 1..Len(v)
      <4> HIDE DEF k, v
      <4> QED
        BY <1>1, <1>6
    <3> QED
      BY <3>1 DEF At
  <2> QED
    BY <1>1, <2>1, <2>2
<1>8. u \in Seq(Nodes) /\ Inserted(u, v, k, n)
  <2>1. u \in Seq(Nodes) /\ Inserted(u, v, Len(v) + 1, n)
    <3> HIDE DEF v
    <3> QED
      BY <1>3, <1>6, AppendInserts
  <2>2. Len(v) + 1 = k
    <3> HIDE DEF v, k
    <3> QED
      BY <1>1, <1>6
  <2> QED
    BY <2>1, <2>2
<1> HIDE DEF n
<1>9. Moved(n, At(s, 1 - 1), At(s, 1 + 1), At(v, k - 1), At(v, k), next, prev, next', prev')
  <2>1. next \in [Nodes -> Pointers] /\ prev \in [Nodes -> Pointers]
    BY <1>2 DEF Typed
  <2>2. At(s, 1 + 1) = y
    OBVIOUS
  <2> HIDE DEF y
  <2>3. ASSUME NEW m \in Nodes
        PROVE  /\ next'[m] = IF m = n THEN NULL
                             ELSE IF m = tail[l] THEN n ELSE next[m]
               /\ prev'[m] = IF m = n THEN tail[l]
                             ELSE IF m = y THEN NULL ELSE prev[m]
    BY <1>3, <1>4, <1>5, <2>1
  <2> HIDE DEF k, s, v
  <2> QED
    BY <1>4, <1>7, <2>2, <2>3, AdListAssumption DEF Moved
<1>10. /\ Len(u) = k /\ Range(u) = Range(s) /\ IsInjective(u)
       /\ Chain(u, y, n, next', prev')
  <2> DEFINE p == 1
  <2>1. Moved(s[p], At(s, p - 1), At(s, p + 1), At(v, k - 1), At(v, k), next, prev, next', prev')
    BY <1>9 DEF n
  <2>2. Inserted(u, v, k, s[p]) /\ Dropped(v, s, p)
    BY <1>6, <1>8 DEF n
  <2>3. k = Len(s) /\ k # 1 /\ p = 1
    <3>1. k # 1
      <4> HIDE DEF k
      <4> QED
        BY <1>1, <1>2
    <3> QED
      BY <3>1
  <2> HIDE DEF u, v, k, s, p
  <2>4. /\ Len(u) = Len(s) /\ Range(u) = Range(s) /\ IsInjective(u)
        /\ Chain(u, IF k = 1 THEN s[p] ELSE IF p = 1 THEN At(s, 2) ELSE head[l],
                 IF k = Len(s) THEN s[p]
                 ELSE IF p = Len(s) THEN At(s, Len(s) - 1) ELSE tail[l], next', prev')
    <3>1. /\ s \in Seq(Nodes) /\ v \in Seq(Nodes) /\ u \in Seq(Nodes)
          /\ IsInjective(s) /\ Chain(s, head[l], tail[l], next, prev)
      BY <1>1, <1>6, <1>8
    <3> QED
      BY <2>1, <2>2, <3>1, MovedNodes
  <2> QED
    BY <2>3, <2>4 DEF n
<1> HIDE DEF y
<1>11. /\ head'[l] = y /\ tail'[l] = n /\ len'[l] = Len(u)
       /\ \A o \in Lists : o # l => /\ head'[o] = head[o] /\ tail'[o] = tail[o]
                                    /\ len'[o] = len[o]
  BY <1>1, <1>2, <1>5, <1>10 DEF Typed
<1>12. Typed'
  BY <1>2, <1>3, <1>4, <1>5 DEF Typed, Pointers
<1>13. \A m \in Nodes : m \notin Range(s) \cup unused =>
         next'[m] = next[m] /\ prev'[m] = prev[m]
  <2>1. n \in Range(s) /\ y \in Range(s) /\ tail[l] \in Range(s)
    <3>1. k \in 1..Len(s) /\ 2 \in 1..Len(s) /\ 1 \in 1..Len(s)
      BY <1>1, <1>2
    <3>2. s[k] \in Range(s) /\ s[2] \in Range(s) /\ s[1] \in Range(s)
      BY <1>1, <3>1, NodeIn
    <3> QED
      BY <1>4, <3>2 DEF n
  <2>2. next \in [Nodes -> Pointers] /\ prev \in [Nodes -> Pointers]
    BY <1>2 DEF Typed
  <2> QED
    BY <1>5, <2>1, <2>2
<1>14. Represents([q EXCEPT ![l] = u])'
  <2> HIDE DEF u
  <2> QED
    BY <1>1, <1>5, <1>8, <1>10, <1>11, <1>12, <1>13, OneChanged
<1>15. n = Head(s)
  BY <1>1, <1>2, HeadTaken DEF n
<1> QED
  BY <1>2, <1>14, <1>15

LEMMA JoinRepresents ==
  ASSUME NEW q, Represents(q), NEW l \in Lists, NEW o \in Lists, listJoin(l, o)
  PROVE  /\ l # o
         /\ Represents([q EXCEPT ![l] = @ \o q[o], ![o] = <<>>])'
<1> DEFINE s == q[l]
           v == q[o]
           w == s \o v
           r == [q EXCEPT ![l] = @ \o q[o], ![o] = <<>>]
<1>1. /\ s \in Seq(Nodes) /\ IsInjective(s) /\ Range(s) \subseteq Nodes
      /\ Range(s) \cap unused = {} /\ len[l] = Len(s)
      /\ Chain(s, head[l], tail[l], next, prev)
      /\ head[l] = At(s, 1) /\ tail[l] = At(s, Len(s))
  BY ListOf
<1>2. /\ v \in Seq(Nodes) /\ IsInjective(v) /\ Range(v) \subseteq Nodes
      /\ Range(v) \cap unused = {} /\ len[o] = Len(v)
      /\ Chain(v, head[o], tail[o], next, prev)
      /\ head[o] = At(v, 1) /\ tail[o] = At(v, Len(v))
  BY ListOf
<1>3. /\ Typed /\ l # o /\ Range(s) \cap Range(v) = {} /\ q \in [Lists -> Seq(Nodes)]
  BY DEF Represents, listJoin
<1>4. /\ w \in Seq(Nodes) /\ Len(w) = Len(s) + Len(v)
      /\ Range(w) = Range(s) \cup Range(v) /\ IsInjective(w)
  <2> HIDE DEF s, v
  <2> QED
    BY <1>1, <1>2, <1>3, JoinedNodes
<1>5. /\ prev' = [m \in Nodes |-> IF m = head[o] THEN tail[l] ELSE prev[m]]
      /\ next' = [m \in Nodes |-> IF m = tail[l] THEN head[o] ELSE next[m]]
      /\ head' = [head EXCEPT ![l] = IF tail[l] = NULL THEN head[o] ELSE @,
                              ![o] = NULL]
      /\ tail' = [tail EXCEPT ![l] = IF tail[o] # NULL THEN tail[o] ELSE @,
                              ![o] = NULL]
      /\ len' = [len EXCEPT ![l] = @ + len[o], ![o] = 0]
      /\ unused' = unused
  BY DEF listJoin, joinLinks
<1>6. Chain(w, IF tail[l] = NULL THEN head[o] ELSE head[l],
            IF tail[o] # NULL THEN tail[o] ELSE tail[l], next', prev')
  <2>1. Apart(s, v)
    <3> HIDE DEF s, v
    <3>1. \A i \in 1..Len(s) : s[i] \in Range(s)
      BY <1>1, NodeIn
    <3>2. \A j \in 1..Len(v) : v[j] \in Range(v)
      BY <1>2, NodeIn
    <3> QED
      BY <1>3, <3>1, <3>2 DEF Apart
  <2>2. Joined(tail[l], head[o], next, prev, next', prev')
    BY <1>5 DEF Joined
  <2> HIDE DEF s, v
  <2> QED
    BY <1>1, <1>2, <2>1, <2>2, ChainJoined
<1>7. /\ head'[l] = IF tail[l] = NULL THEN head[o] ELSE head[l]
      /\ tail'[l] = IF tail[o] # NULL THEN tail[o] ELSE tail[l]
      /\ len'[l] = Len(s) + Len(v)
      /\ head'[o] = NULL /\ tail'[o] = NULL /\ len'[o] = 0
      /\ \A a \in Lists : a # l /\ a # o =>
           head'[a] = head[a] /\ tail'[a] = tail[a] /\ len'[a] = len[a]
  <2>1. head \in [Lists -> Pointers] /\ tail \in [Lists -> Pointers] /\ len \in [Lists -> Nat]
    BY <1>3 DEF Typed
  <2> HIDE DEF s, v
  <2> QED
    BY <1>1, <1>2, <1>3, <1>5, <2>1
<1>8. Typed'
  <2>1. /\ head \in [Lists -> Pointers] /\ tail \in [Lists -> Pointers]
        /\ len \in [Lists -> Nat] /\ unused \subseteq Nodes
        /\ next \in [Nodes -> Pointers] /\ prev \in [Nodes -> Pointers]
    BY <1>3 DEF Typed
  <2>2. NULL \in Pointers
    BY DEF Pointers
  <2>3. head' \in [Lists -> Pointers] /\ tail' \in [Lists -> Pointers]
    BY <1>5, <2>1, <2>2
  <2>4. len' \in [Lists -> Nat]
    BY <1>5, <2>1
  <2>5. next' \in [Nodes -> Pointers] /\ prev' \in [Nodes -> Pointers]
    BY <1>5, <2>1
  <2> QED
    BY <1>5, <2>1, <2>3, <2>4, <2>5 DEF Typed
<1>9. r \in [Lists -> Seq(Nodes)] /\ r[l] = w /\ r[o] = <<>>
      /\ \A a \in Lists : a # l /\ a # o => r[a] = q[a]
  <2>1. <<>> \in Seq(Nodes)
    OBVIOUS
  <2> HIDE DEF w
  <2>2. r = [q EXCEPT ![l] = w, ![o] = <<>>]
    BY DEF w
  <2> QED
    BY <1>3, <1>4, <2>1, <2>2
<1>10. /\ Chain(<<>>, NULL, NULL, next', prev') /\ IsInjective(<<>>)
       /\ Range(<<>>) = {} /\ Len(<<>>) = 0
  BY DEF Chain, At, IsInjective, Range
<1>11. ASSUME NEW a \in Lists, a # l, a # o
       PROVE  /\ Chain(q[a], head'[a], tail'[a], next', prev') /\ len'[a] = Len(q[a])
              /\ IsInjective(q[a]) /\ Range(q[a]) \cap unused' = {}
              /\ Range(q[a]) \cap Range(w) = {}
  <2>1. /\ q[a] \in Seq(Nodes) /\ IsInjective(q[a]) /\ len[a] = Len(q[a])
        /\ Range(q[a]) \cap unused = {} /\ Chain(q[a], head[a], tail[a], next, prev)
    BY ListOf
  <2>2. Range(q[a]) \cap Range(s) = {} /\ Range(q[a]) \cap Range(v) = {}
    BY <1>11 DEF Represents
  <2>3. ASSUME NEW i \in 1..Len(q[a])
        PROVE  next'[q[a][i]] = next[q[a][i]] /\ prev'[q[a][i]] = prev[q[a][i]]
    <3>1. q[a][i] \in Nodes /\ q[a][i] \in Range(q[a]) /\ q[a][i] # NULL
      BY <2>1, NodeIn, AdListAssumption
    <3>2. tail[l] = NULL \/ tail[l] \in Range(s)
      <4> HIDE DEF s
      <4> QED
        BY <1>1, NodeIn DEF At
    <3>3. head[o] = NULL \/ head[o] \in Range(v)
      <4> HIDE DEF v
      <4> QED
        BY <1>2, NodeIn DEF At
    <3> HIDE DEF s, v
    <3> QED
      BY <1>5, <2>2, <3>1, <3>2, <3>3
  <2>4. Chain(q[a], head[a], tail[a], next', prev')
    <3>1. Untouched(q[a], next, prev, next', prev')
      BY <2>3 DEF Untouched
    <3> QED
      BY <2>1, <3>1, ChainKept
  <2> HIDE DEF w, s, v
  <2> QED
    BY <1>4, <1>5, <1>7, <1>11, <2>1, <2>2, <2>4
<1> HIDE DEF r, w, s, v
<1>12. ASSUME NEW a \in Lists
       PROVE  /\ Chain(r[a], head'[a], tail'[a], next', prev') /\ len'[a] = Len(r[a])
              /\ IsInjective(r[a]) /\ Range(r[a]) \cap unused' = {}
  <2>1. CASE a = l
    BY <1>1, <1>2, <1>4, <1>5, <1>6, <1>7, <1>9, <2>1
  <2>2. CASE a = o
    BY <1>7, <1>9, <1>10, <2>2
  <2>3. CASE a # l /\ a # o
    BY <1>9, <1>11, <2>3
  <2> QED
    BY <2>1, <2>2, <2>3
<1>13. ASSUME NEW a \in Lists, NEW b \in Lists, a # b
       PROVE  Range(r[a]) \cap Range(r[b]) = {}
  <2>1. CASE a = o \/ b = o
    BY <1>9, <1>10, <2>1
  <2>2. CASE a = l /\ b # o
    BY <1>9, <1>11, <1>13, <2>2
  <2>3. CASE b = l /\ a # o
    BY <1>9, <1>11, <1>13, <2>3
  <2>4. CASE a # l /\ b # l /\ a # o /\ b # o
    BY <1>9, <1>13, <2>4 DEF Represents
  <2> QED
    BY <2>1, <2>2, <2>3, <2>4
<1> QED
  BY <1>3, <1>8, <1>9, <1>12, <1>13 DEF Represents, r

-----------------------------------------------------------------------------
(* Walking the links.                                                      *)
Walk(e, way, start, n) ==
  /\ e = [i \in 1..n |-> e[i]]
  /\ \A i \in 1..n : e[i] = IF i = 1 THEN start
                            ELSE IF e[i - 1] \in Nodes THEN way[e[i - 1]] ELSE NULL

LEMMA FollowIs ==
  ASSUME NEW way, NEW start, NEW n \in Nat, NEW e, Walk(e, way, start, n)
  PROVE  Follow(way, start, n) = e
<1> DEFINE Body(f, i) == IF i = 1 THEN start
                         ELSE IF f[i - 1] \in Nodes THEN way[f[i - 1]] ELSE NULL
           Good(f) == f = [i \in 1..n |-> Body(f, i)]
           F == CHOOSE f : Good(f)
<1>1. Good(e)
  <2>1. e = [i \in 1..n |-> e[i]] /\ \A i \in 1..n : e[i] = Body(e, i)
    BY DEF Walk
  <2> HIDE DEF Body
  <2>2. [i \in 1..n |-> e[i]] = [i \in 1..n |-> Body(e, i)]
    BY <2>1
  <2> QED
    BY <2>1, <2>2
<1>2. Good(F)
  <2> HIDE DEF Good
  <2> QED
    BY <1>1
<1>3. Follow(way, start, n) = F
  BY DEF Follow
<1> HIDE DEF F
<1>4. F = [i \in 1..n |-> F[i]] /\ \A i \in 1..n : F[i] = Body(F, i)
  <2> HIDE DEF Body
  <2>1. F = [i \in 1..n |-> Body(F, i)]
    BY <1>2
  <2>2. \A i \in 1..n : F[i] = Body(F, i)
    BY <2>1
  <2> QED
    BY <2>1, <2>2
<1> HIDE DEF Good
<1> DEFINE S == {k \in 0..n : k = 0 \/ F[k] = e[k]}
<1>5. 0..n \subseteq S
  <2>1. 0 \in S
    OBVIOUS
  <2>2. ASSUME NEW k \in 0..(n - 1), k \in S
        PROVE  k + 1 \in S
    <3>1. k + 1 \in 1..n /\ (k + 1) - 1 = k /\ (k + 1 = 1 <=> k = 0) /\ k + 1 \in 0..n
      OBVIOUS
    <3>2. F[k + 1] = Body(F, k + 1)
      BY <1>4, <3>1
    <3>3. e[k + 1] = Body(e, k + 1)
      BY <3>1 DEF Walk
    <3>4. k = 0 \/ F[k] = e[k]
      BY <2>2
    <3>5. Body(F, k + 1) = Body(e, k + 1)
      BY <3>1, <3>4
    <3> HIDE DEF Body
    <3>6. F[k + 1] = e[k + 1]
      BY <3>2, <3>3, <3>5
    <3> QED
      BY <3>1, <3>6
  <2> HIDE DEF S
  <2> QED
    BY <2>1, <2>2, Induction
<1>6. \A i \in 1..n : F[i] = e[i]
  <2>1. ASSUME NEW i \in 1..n
        PROVE  F[i] = e[i]
    <3>1. i \in 0..n /\ i # 0
      OBVIOUS
    <3>2. i \in S
      BY <1>5, <3>1
    <3> QED
      BY <3>1, <3>2
  <2> QED
    BY <2>1
<1>7. [i \in 1..n |-> F[i]] = [i \in 1..n |-> e[i]]
  BY <1>6
<1> QED
  BY <1>3, <1>4, <1>7 DEF Walk

LEMMA WalkForward ==
  ASSUME NEW q, Represents(q), NEW l \in Lists, NEW n \in Nat
  PROVE  Follow(next, head[l], n) = [i \in 1..n |-> At(q[l], i)]
<1> DEFINE s == q[l]
           e == [i \in 1..n |-> At(s, i)]
<1>1. /\ s \in Seq(Nodes) /\ Len(s) \in Nat /\ head[l] = At(s, 1)
      /\ Chain(s, head[l], tail[l], next, prev)
  BY ListOf
<1>2. ASSUME NEW i \in 1..n
      PROVE  e[i] = IF i = 1 THEN head[l]
                    ELSE IF e[i - 1] \in Nodes THEN next[e[i - 1]] ELSE NULL
  <2>1. e[i] = At(s, i)
    OBVIOUS
  <2>2. CASE i # 1
    <3> DEFINE k == i - 1
    <3>1. k \in 1..n /\ i = k + 1 /\ k \in Int
      BY <2>2
    <3>2. e[k] = At(s, k)
      BY <3>1
    <3> HIDE DEF e, k, s
    <3>3. CASE k \in 1..Len(s)
      <4>1. e[k] = s[k] /\ s[k] \in Nodes
        BY <1>1, <3>1, <3>2, <3>3, AtNode
      <4>2. next[s[k]] = At(s, k + 1)
        BY <1>1, <3>3 DEF Chain
      <4> QED
        BY <2>1, <2>2, <3>1, <4>1, <4>2 DEF k
    <3>4. CASE k \notin 1..Len(s)
      <4>1. e[k] = NULL /\ NULL \notin Nodes
        BY <1>1, <3>1, <3>2, <3>4, AtNode, AdListAssumption
      <4>2. i \notin 1..Len(s)
        BY <1>1, <3>1, <3>4
      <4>3. e[i] = NULL
        BY <2>1, <4>2 DEF At
      <4> QED
        BY <2>2, <4>1, <4>3 DEF k
    <3> QED
      BY <3>3, <3>4
  <2> QED
    BY <1>1, <2>1, <2>2
<1>3. e = [i \in 1..n |-> e[i]]
  OBVIOUS
<1> HIDE DEF e
<1>4. Walk(e, next, head[l], n)
  BY <1>2, <1>3 DEF Walk
<1>5. Follow(next, head[l], n) = e
  BY <1>4, FollowIs
<1> QED
  BY <1>5 DEF e

LEMMA WalkBackward ==
  ASSUME NEW q, Represents(q), NEW l \in Lists, NEW n \in Nat
  PROVE  Follow(prev, tail[l], n) = [i \in 1..n |-> At(q[l], Len(q[l]) + 1 - i)]
<1> DEFINE s == q[l]
           L == Len(s)
           e == [i \in 1..n |-> At(s, L + 1 - i)]
<1>1. /\ s \in Seq(Nodes) /\ L \in Nat /\ tail[l] = At(s, L)
      /\ Chain(s, head[l], tail[l], next, prev)
  BY ListOf
<1>2. ASSUME NEW i \in 1..n
      PROVE  e[i] = IF i = 1 THEN tail[l]
                    ELSE IF e[i - 1] \in Nodes THEN prev[e[i - 1]] ELSE NULL
  <2>1. e[i] = At(s, L + 1 - i)
    OBVIOUS
  <2>2. CASE i # 1
    <3> DEFINE j == i - 1
               k == L + 1 - j
    <3>0. j \in 1..n
      BY <2>2
    <3>1. k \in Int /\ L + 1 - i = k - 1
      <4> HIDE DEF L
      <4> QED
        BY <1>1, <3>0
    <3>2. e[j] = At(s, k)
      BY <3>0
    <3>3. CASE k \in 1..L
      <4> HIDE DEF e, k, j
      <4>1. e[j] = s[k] /\ s[k] \in Nodes
        BY <1>1, <3>1, <3>2, <3>3, AtNode
      <4>2. prev[s[k]] = At(s, k - 1)
        BY <1>1, <3>3 DEF Chain
      <4> QED
        BY <2>1, <2>2, <3>1, <4>1, <4>2 DEF j
    <3>4. CASE k \notin 1..L
      <4>2. L + 1 - i \notin 1..L
        <5> HIDE DEF L
        <5> QED
          BY <1>1, <3>0, <3>4
      <4> HIDE DEF e, k, j
      <4>1. e[j] = NULL /\ NULL \notin Nodes
        BY <1>1, <3>1, <3>2, <3>4, AtNode, AdListAssumption
      <4>3. e[i] = NULL
        BY <2>1, <4>2 DEF At
      <4> QED
        BY <2>2, <4>1, <4>3 DEF j
    <3> QED
      BY <3>3, <3>4
  <2>3. CASE i = 1
    <3>1. L + 1 - 1 = L
      <4> HIDE DEF L
      <4> QED
        BY <1>1
    <3> HIDE DEF e, L, s
    <3> QED
      BY <1>1, <2>1, <2>3, <3>1
  <2> QED
    BY <2>2, <2>3
<1>3. e = [i \in 1..n |-> e[i]]
  OBVIOUS
<1> HIDE DEF e
<1>4. Walk(e, prev, tail[l], n)
  BY <1>2, <1>3 DEF Walk
<1>5. Follow(prev, tail[l], n) = e
  BY <1>4, FollowIs
<1> QED
  BY <1>5 DEF e

(* The sequence a list represents is the one that the model computes.      *)
LEMMA ForwardIs ==
  ASSUME NEW q, Represents(q), NEW l \in Lists
  PROVE  Forward(l) = q[l] /\ NodesOf(l) = Range(q[l])
<1>1. q[l] \in Seq(Nodes) /\ len[l] = Len(q[l]) /\ Len(q[l]) \in Nat
  BY ListOf
<1>2. Forward(l) = [i \in 1..Len(q[l]) |-> At(q[l], i)]
  BY <1>1, WalkForward DEF Forward
<1>3. [i \in 1..Len(q[l]) |-> At(q[l], i)] = q[l]
  BY <1>1 DEF At
<1> QED
  BY <1>2, <1>3 DEF NodesOf

LEMMA SeqIs ==
  ASSUME NEW q, Represents(q)
  PROVE  [l \in Lists |-> Forward(l)] = q
<1>1. q \in [Lists -> Seq(Nodes)]
  BY DEF Represents
<1>2. \A l \in Lists : Forward(l) = q[l]
  BY ForwardIs
<1> QED
  BY <1>1, <1>2

LEMMA RemoveFirstIs ==
  ASSUME NEW s \in Seq(Nodes), NEW n, NEW p \in 1..Len(s), s[p] = n,
         \A i \in 1..Len(s) : s[i] = n => i = p
  PROVE  RemoveFirst(s, n) = RemoveAt(s, p)
<1> DEFINE I == {i \in 1..Len(s) : s[i] = n}
<1>1. I = {p}
  OBVIOUS
<1>2. Min(I) = p
  <2> HIDE DEF I
  <2>1. p \in Int
    OBVIOUS
  <2> QED
    BY <1>1, <2>1 DEF Min
<1>3. SelectInSeq(s, LAMBDA v : v = n) = IF I # {} THEN Min(I) ELSE 0
  BY DEF SelectInSeq
<1>4. SelectInSeq(s, LAMBDA v : v = n) = p
  <2> HIDE DEF I
  <2> QED
   BY <1>1, <1>2, <1>3
<1> QED
  BY <1>4 DEF RemoveFirst

(* A node forgotten.                                                       *)
LEMMA Forgotten ==
  ASSUME NEW s \in Seq(Nodes), IsInjective(s), NEW n
  PROVE  /\ RemoveFirst(s, n) \in Seq(Nodes) /\ IsInjective(RemoveFirst(s, n))
         /\ Range(RemoveFirst(s, n)) = Range(s) \ {n}
<1>1. CASE \E i \in 1..Len(s) : s[i] = n
  <2>1. PICK p \in 1..Len(s) : s[p] = n
    BY <1>1
  <2>2. \A i \in 1..Len(s) : s[i] = n => i = p
    BY <2>1, NodeIn
  <2>3. RemoveFirst(s, n) = RemoveAt(s, p)
    BY <2>1, <2>2, RemoveFirstIs
  <2>4. RemoveAt(s, p) \in Seq(Nodes) /\ Dropped(RemoveAt(s, p), s, p)
    BY RemoveAtDrops
  <2>5. /\ Range(RemoveAt(s, p)) = Range(s) \ {s[p]} /\ IsInjective(RemoveAt(s, p))
    BY <2>4, DroppedNodes
  <2> QED
    BY <2>1, <2>3, <2>4, <2>5
<1>2. CASE ~\E i \in 1..Len(s) : s[i] = n
  <2>1. RemoveFirst(s, n) = s
    BY <1>2 DEF RemoveFirst
  <2>2. n \notin Range(s)
    BY <1>2, NodeIn
  <2> QED
    BY <2>1, <2>2
<1> QED
  BY <1>1, <1>2

-----------------------------------------------------------------------------
(* The iterator.  A node of the list s has been passed when it lies before *)
(* the next one x, in the direction d of the walk.                         *)
Passed(s, x, d, m) ==
  \E i \in 1..Len(s) :
    /\ s[i] = m
    /\ x = NULL \/ \E j \in 1..Len(s) : s[j] = x /\ (IF d = "head" THEN i < j ELSE j < i)

(* The nodes returned have been passed, each once; of those that were in   *)
(* the list from the beginning, all that have been passed were returned.   *)
Iterating(q) ==
  /\ li \in Pointers /\ current \in Pointers /\ dir \in {"head", "tail"}
  /\ list \in Lists \cup {NULL} /\ steady \subseteq Nodes
  /\ seen \in Seq(Nodes) /\ IsInjective(seen)
  /\ list = NULL => li = NULL /\ current = NULL
  /\ list # NULL =>
       /\ li # NULL => li \in Range(q[list])
       /\ current # NULL => Passed(q[list], li, dir, current)
       /\ \A m \in Range(seen) : Passed(q[list], li, dir, m)
       /\ \A m \in steady : /\ m \in Range(q[list])
                            /\ Passed(q[list], li, dir, m) => m \in Range(seen)

IInv == \E q : Represents(q) /\ Iterating(q)

LEMMA PassedIn ==
  ASSUME NEW s \in Seq(Nodes), NEW x, NEW d, NEW m, Passed(s, x, d, m)
  PROVE  m \in Range(s)
  BY NodeIn DEF Passed

LEMMA NotPassed ==
  ASSUME NEW s \in Seq(Nodes), IsInjective(s), NEW x \in Range(s), x # NULL, NEW d
  PROVE  ~Passed(s, x, d, x)
<1> SUFFICES ASSUME Passed(s, x, d, x)
             PROVE  FALSE
  OBVIOUS
<1>1. PICK i \in 1..Len(s), j \in 1..Len(s) :
        s[i] = x /\ s[j] = x /\ (IF d = "head" THEN i < j ELSE j < i)
  BY DEF Passed
<1>2. i = j /\ i \in Int
  BY <1>1, NodeIn
<1> QED
  BY <1>1, <1>2

LEMMA SameItself ==
  ASSUME NEW s \in Seq(Nodes), IsInjective(s)
  PROVE  SameOrder(s, s)
<1>1. \A i, j \in 1..Len(s) : s[i] = s[j] => i = j
  BY NodeIn
<1> QED
  BY <1>1 DEF SameOrder

LEMMA PassedSame ==
  ASSUME NEW s \in Seq(Nodes), NEW u \in Seq(Nodes), SameOrder(s, u),
         NEW m, m \in Range(s), m \in Range(u), NEW d,
         NEW x, x = NULL \/ (x \in Range(s) /\ x \in Range(u))
  PROVE  Passed(s, x, d, m) <=> Passed(u, x, d, m)
<1>1. ASSUME Passed(s, x, d, m)
      PROVE  Passed(u, x, d, m)
  <2>1. PICK a \in 1..Len(u) : u[a] = m
    BY NodeIn
  <2>2. CASE x = NULL
    BY <2>1, <2>2 DEF Passed
  <2>3. CASE x # NULL
    <3>1. PICK b \in 1..Len(u) : u[b] = x
      BY <2>3, NodeIn
    <3>2. PICK i \in 1..Len(s), j \in 1..Len(s) :
            s[i] = m /\ s[j] = x /\ (IF d = "head" THEN i < j ELSE j < i)
      BY <1>1, <2>3 DEF Passed
    <3>3. (i < j <=> a < b) /\ (j < i <=> b < a)
      BY <2>1, <3>1, <3>2 DEF SameOrder
    <3>4. IF d = "head" THEN a < b ELSE b < a
      BY <3>2, <3>3
    <3> QED
      BY <2>1, <3>1, <3>4 DEF Passed
  <2> QED
    BY <2>2, <2>3
<1>2. ASSUME Passed(u, x, d, m)
      PROVE  Passed(s, x, d, m)
  <2>1. PICK a \in 1..Len(s) : s[a] = m
    BY NodeIn
  <2>2. CASE x = NULL
    BY <2>1, <2>2 DEF Passed
  <2>3. CASE x # NULL
    <3>1. PICK b \in 1..Len(s) : s[b] = x
      BY <2>3, NodeIn
    <3>2. PICK i \in 1..Len(u), j \in 1..Len(u) :
            u[i] = m /\ u[j] = x /\ (IF d = "head" THEN i < j ELSE j < i)
      BY <1>2, <2>3 DEF Passed
    <3>3. (a < b <=> i < j) /\ (b < a <=> j < i)
      BY <2>1, <3>1, <3>2 DEF SameOrder
    <3>4. IF d = "head" THEN a < b ELSE b < a
      BY <3>2, <3>3
    <3> QED
      BY <2>1, <3>1, <3>4 DEF Passed
  <2> QED
    BY <2>2, <2>3
<1> QED
  BY <1>1, <1>2

(* What happens to a list does not disturb the iterator, if it adds nodes. *)
LEMMA IteratingKept ==
  ASSUME NEW q, Represents(q), Iterating(q), UNCHANGED iter, NEW r,
         list # NULL => /\ r[list] \in Seq(Nodes) /\ SameOrder(q[list], r[list])
                        /\ Range(q[list]) \subseteq Range(r[list])
  PROVE  Iterating(r)'
<1>1. /\ li' = li /\ current' = current /\ dir' = dir /\ list' = list
      /\ steady' = steady /\ seen' = seen
  BY DEF iter
<1>2. CASE list = NULL
  BY <1>1, <1>2 DEF Iterating
<1>3. CASE list # NULL
  <2> DEFINE s == q[list]
             u == r[list]
  <2>1. /\ list \in Lists /\ s \in Seq(Nodes) /\ u \in Seq(Nodes)
        /\ SameOrder(s, u) /\ Range(s) \subseteq Range(u)
        /\ li = NULL \/ (li \in Range(s) /\ li \in Range(u))
    <3>1. list \in Lists
      BY <1>3 DEF Iterating
    <3>2. s \in Seq(Nodes)
      BY <3>1, ListOf
    <3> QED
      BY <1>3, <3>1, <3>2 DEF Iterating
  <2>2. /\ current # NULL => Passed(s, li, dir, current)
        /\ \A m \in Range(seen) : Passed(s, li, dir, m)
        /\ \A m \in steady : m \in Range(s) /\ (Passed(s, li, dir, m) => m \in Range(seen))
    BY <1>3 DEF Iterating
  <2> HIDE DEF s, u
  <2>3. ASSUME NEW m \in Range(s)
        PROVE  Passed(s, li, dir, m) <=> Passed(u, li, dir, m)
    <3>1. m \in Range(u)
      BY <2>1
    <3> QED
      BY <2>1, <3>1, PassedSame
  <2>4. ASSUME NEW m, Passed(s, li, dir, m)
        PROVE  Passed(u, li, dir, m)
    BY <2>1, <2>3, <2>4, PassedIn
  <2>5. /\ li # NULL => li \in Range(u)
        /\ current # NULL => Passed(u, li, dir, current)
        /\ \A m \in Range(seen) : Passed(u, li, dir, m)
        /\ \A m \in steady : m \in Range(u) /\ (Passed(u, li, dir, m) => m \in Range(seen))
    BY <2>1, <2>2, <2>3, <2>4
  <2> QED
    BY <1>1, <1>3, <2>5 DEF Iterating, u
<1> QED
  BY <1>2, <1>3

(* While a list is iterated only the node just returned is deleted from    *)
(* it: never the one the iterator is about to return.                      *)
LEMMA IteratingDelete ==
  ASSUME NEW q, Represents(q), Iterating(q), NEW l \in Lists, NEW p \in 1..Len(q[l]),
         listDelNode(l, q[l][p])
  PROVE  Iterating([q EXCEPT ![l] = RemoveAt(q[l], p)])'
<1> DEFINE n == q[l][p]
           w == RemoveAt(q[l], p)
           r == [q EXCEPT ![l] = w]
<1>1. /\ q[l] \in Seq(Nodes) /\ IsInjective(q[l]) /\ q \in [Lists -> Seq(Nodes)]
  BY ListOf DEF Represents
<1>2. w \in Seq(Nodes) /\ Dropped(w, q[l], p)
  BY <1>1, RemoveAtDrops
<1>3. /\ Range(w) = Range(q[l]) \ {n} /\ SameOrder(q[l], w) /\ n \in Range(q[l]) /\ n \in Nodes
  <2>1. Range(w) = Range(q[l]) \ {q[l][p]} /\ SameOrder(q[l], w) /\ q[l][p] \in Range(q[l])
    <3> HIDE DEF w
    <3> QED
      BY <1>1, <1>2, DroppedNodes
  <2> QED
    BY <1>1, <2>1
<1>4. r[l] = w /\ \A o \in Lists : o # l => r[o] = q[o]
  BY <1>1
<1> HIDE DEF r, w, n
<1>5. /\ list = l => n = current
      /\ steady' = steady \ {n} /\ seen' = RemoveFirst(seen, n)
      /\ current' = IF current = n THEN NULL ELSE current
      /\ list' = list /\ li' = li /\ dir' = dir
  BY DEF listDelNode, n
<1>6. seen' \in Seq(Nodes) /\ IsInjective(seen') /\ Range(seen') = Range(seen) \ {n}
  BY <1>5, Forgotten DEF Iterating
<1>7. /\ li' \in Pointers /\ current' \in Pointers /\ dir' \in {"head", "tail"}
      /\ list' \in Lists \cup {NULL} /\ steady' \subseteq Nodes
      /\ list' = NULL => li' = NULL /\ current' = NULL
  BY <1>5 DEF Iterating, Pointers
<1>8. ASSUME list = NULL
      PROVE  Iterating(r)'
  BY <1>5, <1>6, <1>7, <1>8 DEF Iterating
<1>9. ASSUME list # NULL
      PROVE  Iterating(r)'
  <2> DEFINE s == q[list]
             u == r[list]
  <2>1. list \in Lists /\ s \in Seq(Nodes) /\ IsInjective(s)
    <3>1. list \in Lists
      BY <1>9 DEF Iterating
    <3> QED
      BY <3>1, ListOf
  <2>2. /\ u \in Seq(Nodes) /\ SameOrder(s, u) /\ Range(u) = Range(s) \ {n}
    <3>1. CASE list = l
      BY <1>2, <1>3, <1>4, <3>1
    <3>2. CASE list # l
      <4>1. u = s
        BY <1>4, <2>1, <3>2
      <4>2. n \notin Range(s)
        BY <1>3, <2>1, <3>2 DEF Represents
      <4> HIDE DEF u, s
      <4> QED
        BY <2>1, <4>1, <4>2, SameItself
    <3> QED
      BY <3>1, <3>2
  <2>3. /\ li # NULL => li \in Range(s)
        /\ current # NULL => Passed(s, li, dir, current)
        /\ \A m \in Range(seen) : Passed(s, li, dir, m)
        /\ \A m \in steady : m \in Range(s) /\ (Passed(s, li, dir, m) => m \in Range(seen))
    BY <1>9 DEF Iterating
  <2>4. n \notin Range(s) \/ n = current
    <3>1. CASE list = l
      BY <1>5, <3>1
    <3>2. CASE list # l
      BY <1>3, <2>1, <3>2 DEF Represents
    <3> QED
      BY <3>1, <3>2
  <2> HIDE DEF s, u
  <2>5. li # NULL => li # n /\ li \in Range(u)
    <3>1. ASSUME li # NULL, li = n
          PROVE  FALSE
      <4>1. li \in Range(s) /\ Passed(s, li, dir, li)
        BY <1>3, <2>3, <2>4, <3>1, AdListAssumption
      <4> QED
        BY <2>1, <3>1, <4>1, NotPassed
    <3> QED
      BY <2>2, <2>3, <3>1
  <2>6. ASSUME NEW m \in Range(s), m # n
        PROVE  m \in Range(u) /\ (Passed(s, li, dir, m) <=> Passed(u, li, dir, m))
    <3>1. m \in Range(u) /\ (li = NULL \/ (li \in Range(s) /\ li \in Range(u)))
      BY <2>2, <2>3, <2>5, <2>6
    <3> QED
      BY <2>1, <2>2, <3>1, PassedSame
  <2>7. ASSUME NEW m, m # n, Passed(s, li, dir, m)
        PROVE  Passed(u, li, dir, m)
    BY <2>1, <2>6, <2>7, PassedIn
  <2>8. /\ li # NULL => li \in Range(u)
        /\ current' # NULL => Passed(u, li, dir, current')
        /\ \A m \in Range(seen') : Passed(u, li, dir, m)
        /\ \A m \in steady' : m \in Range(u) /\ (Passed(u, li, dir, m) => m \in Range(seen'))
    <3>1. current' # NULL => Passed(u, li, dir, current')
      BY <1>5, <2>3, <2>7
    <3>2. \A m \in Range(seen') : Passed(u, li, dir, m)
      BY <1>6, <2>3, <2>7
    <3>3. \A m \in steady' : m \in Range(u) /\ (Passed(u, li, dir, m) => m \in Range(seen'))
      BY <1>5, <1>6, <2>3, <2>6
    <3> QED
      BY <2>5, <3>1, <3>2, <3>3
  <2> QED
    BY <1>5, <1>6, <1>7, <1>9, <2>8 DEF Iterating, u
<1>10. Iterating(r)'
  BY <1>8, <1>9
<1> QED
  BY <1>10 DEF r, w

-----------------------------------------------------------------------------
(* listRewind() and listNext().                                            *)
LEMMA SameLists ==
  ASSUME NEW q, Represents(q), UNCHANGED lists
  PROVE  Represents(q)'
  BY DEF lists, Represents, Typed

LEMMA IteratingRewind ==
  ASSUME NEW q, Represents(q), Iterating(q), NEW l \in Lists,
         listRewind(l) \/ listRewindTail(l)
  PROVE  Iterating(q)'
<1> DEFINE s == q[l]
<1>1. /\ s \in Seq(Nodes) /\ IsInjective(s) /\ Range(s) \subseteq Nodes
      /\ head[l] = At(s, 1) /\ tail[l] = At(s, Len(s)) /\ Len(s) \in Nat
      /\ NodesOf(l) = Range(s)
  BY ListOf, ForwardIs
<1>2. PICK d \in {"head", "tail"} :
        /\ d = dir' /\ li' = (IF d = "head" THEN head[l] ELSE tail[l])
        /\ list' = l /\ current' = NULL /\ steady' = Range(s) /\ seen' = <<>>
  BY <1>1 DEF listRewind, listRewindTail, rewind
<1>3. /\ seen' \in Seq(Nodes) /\ IsInjective(seen') /\ Range(seen') = {}
  BY <1>2 DEF IsInjective, Range
<1>4. l # NULL
  BY AdListAssumption
<1> HIDE DEF s
<1>5. li' \in Pointers /\ (li' # NULL => li' \in Range(s))
  <2>1. At(s, 1) \in Pointers /\ At(s, Len(s)) \in Pointers
    BY <1>1, AtPointer
  <2>2. \A i \in 1..Len(s) : s[i] \in Range(s)
    BY <1>1, NodeIn
  <2> QED
    BY <1>1, <1>2, <2>1, <2>2 DEF At
<1>6. ASSUME NEW m \in Range(s)
      PROVE  ~Passed(s, li', d, m)
  <2> SUFFICES ASSUME Passed(s, li', d, m)
               PROVE  FALSE
    OBVIOUS
  <2>1. \A i, j \in 1..Len(s) : s[i] = s[j] => i = j
    BY <1>1, NodeIn
  <2>2. Len(s) # 0
    BY <1>1 DEF Passed
  <2>3. 1 \in 1..Len(s) /\ Len(s) \in 1..Len(s)
    BY <1>1, <2>2
  <2>4. At(s, 1) = s[1] /\ At(s, Len(s)) = s[Len(s)] /\ s[1] # NULL /\ s[Len(s)] # NULL
    BY <1>1, <2>3, AdListAssumption DEF At
  <2>5. PICK i \in 1..Len(s), j \in 1..Len(s) :
          s[j] = li' /\ (IF d = "head" THEN i < j ELSE j < i)
    BY <1>1, <1>2, <2>4 DEF Passed
  <2>6. CASE d = "head"
    <3>1. j = 1
      BY <1>1, <1>2, <2>1, <2>3, <2>4, <2>5, <2>6
    <3> QED
      BY <2>5, <2>6, <3>1
  <2>7. CASE d # "head"
    <3>1. j = Len(s)
      BY <1>1, <1>2, <2>1, <2>3, <2>4, <2>5, <2>7
    <3> QED
      BY <2>5, <2>7, <3>1
  <2> QED
    BY <2>6, <2>7
<1>7. NULL \in Pointers
  BY DEF Pointers
<1> QED
  BY <1>1, <1>2, <1>3, <1>4, <1>5, <1>6, <1>7 DEF Iterating, s

LEMMA PassedAt ==
  ASSUME NEW s \in Seq(Nodes), IsInjective(s), NEW i \in 1..Len(s), NEW p \in Int, NEW d,
         NEW x, x = At(s, p)
  PROVE  /\ x = NULL => Passed(s, x, d, s[i])
         /\ x # NULL => (Passed(s, x, d, s[i]) <=> IF d = "head" THEN i < p ELSE p < i)
<1>1. \A a, b \in 1..Len(s) : s[a] = s[b] => a = b
  BY NodeIn
<1>2. CASE x = NULL
  BY <1>2 DEF Passed
<1>3. CASE x # NULL
  <2>1. p \in 1..Len(s) /\ x = s[p]
    BY <1>3 DEF At
  <2>2. ASSUME Passed(s, x, d, s[i])
        PROVE  IF d = "head" THEN i < p ELSE p < i
    <3>1. PICK a \in 1..Len(s), j \in 1..Len(s) :
            s[a] = s[i] /\ s[j] = x /\ (IF d = "head" THEN a < j ELSE j < a)
      BY <1>3, <2>2 DEF Passed
    <3>2. a = i /\ j = p
      BY <1>1, <2>1, <3>1
    <3> QED
      BY <3>1, <3>2
  <2>3. ASSUME IF d = "head" THEN i < p ELSE p < i
        PROVE  Passed(s, x, d, s[i])
    BY <2>1, <2>3 DEF Passed
  <2> QED
    BY <1>3, <2>2, <2>3
<1> QED
  BY <1>2, <1>3

(* listNext() passes the node it returns, and no other.                    *)
LEMMA StepPasses ==
  ASSUME NEW q, Represents(q), Iterating(q), list # NULL, li # NULL
  PROVE  /\ list \in Lists /\ li \in Range(q[list]) /\ step \in Pointers
         /\ step # NULL => step \in Range(q[list])
         /\ \A m : Passed(q[list], step, dir, m) <=> m = li \/ Passed(q[list], li, dir, m)
<1> DEFINE s == q[list]
           L == Len(s)
<1>1. list \in Lists /\ li \in Range(s) /\ dir \in {"head", "tail"}
  BY DEF Iterating
<1>2. /\ s \in Seq(Nodes) /\ IsInjective(s) /\ L \in Nat
      /\ Chain(s, head[list], tail[list], next, prev)
  BY <1>1, ListOf
<1> HIDE DEF s
<1>3. PICK p \in 1..L : s[p] = li
  BY <1>1, <1>2, NodeIn
<1> DEFINE k == IF dir = "head" THEN p + 1 ELSE p - 1
<1>4. step = At(s, k) /\ k \in Int
  <2>1. next[s[p]] = At(s, p + 1) /\ prev[s[p]] = At(s, p - 1)
    BY <1>2 DEF Chain
  <2>2. step = IF dir = "head" THEN next[li] ELSE prev[li]
    BY DEF step
  <2> QED
    BY <1>1, <1>3, <2>1, <2>2
<1>5. step \in Pointers /\ (step # NULL => step \in Range(s))
  <2>1. \A i \in 1..L : s[i] \in Range(s)
    BY <1>2, NodeIn
  <2> HIDE DEF k
  <2> QED
    BY <1>2, <1>4, <2>1, AtPointer DEF At
<1>6. ASSUME NEW m \in Range(s)
      PROVE  Passed(s, step, dir, m) <=> m = li \/ Passed(s, li, dir, m)
  <2>1. PICK i \in 1..L : s[i] = m
    BY <1>2, NodeIn
  <2>2. m = li <=> i = p
    <3>1. \A a, b \in 1..L : s[a] = s[b] => a = b
      BY <1>2, NodeIn
    <3> QED
      BY <1>3, <2>1, <3>1
  <2>3. Passed(s, li, dir, m) <=> IF dir = "head" THEN i < p ELSE p < i
    <3>1. li = At(s, p) /\ p \in Int
      BY <1>3 DEF At
    <3> QED
      BY <1>2, <2>1, <3>1, PassedAt
  <2>4. /\ step = NULL => Passed(s, step, dir, m)
        /\ step # NULL => (Passed(s, step, dir, m) <=> IF dir = "head" THEN i < k ELSE k < i)
    <3> HIDE DEF k
    <3> QED
      BY <1>2, <1>4, <2>1, PassedAt
  <2>5. step = NULL => IF dir = "head" THEN p = L ELSE p = 1
    <3>1. step = NULL => k \notin 1..L
      <4> HIDE DEF k, L
      <4> QED
        BY <1>2, <1>4, AtNode DEF L
    <3> HIDE DEF L
    <3> QED
      BY <1>1, <1>2, <3>1
  <2> HIDE DEF L
  <2>6. CASE dir = "head"
    BY <1>2, <2>2, <2>3, <2>4, <2>5, <2>6
  <2>7. CASE dir # "head"
    BY <1>2, <2>2, <2>3, <2>4, <2>5, <2>7
  <2> QED
    BY <2>6, <2>7
<1>7. ASSUME NEW m, Passed(s, step, dir, m) \/ m = li \/ Passed(s, li, dir, m)
      PROVE  m \in Range(s)
  BY <1>1, <1>2, <1>7, PassedIn DEF s
<1>8. ASSUME NEW m
      PROVE  Passed(s, step, dir, m) <=> m = li \/ Passed(s, li, dir, m)
  BY <1>6, <1>7
<1> QED
  BY <1>1, <1>5, <1>8 DEF s

LEMMA IteratingNext ==
  ASSUME NEW q, Represents(q), Iterating(q), listNext
  PROVE  Iterating(q)'
<1>1. /\ list # NULL /\ dir' = dir /\ li' = step /\ current' = li
      /\ seen' = IF li = NULL THEN <<>> ELSE Append(seen, li)
      /\ steady' = IF li = NULL THEN {} ELSE steady
      /\ list' = IF li = NULL THEN NULL ELSE list
  BY DEF listNext
<1>2. NULL \in Pointers
  BY DEF Pointers
<1>3. CASE li = NULL
  <2>1. /\ li' = NULL /\ current' = NULL /\ seen' = <<>> /\ steady' = {} /\ list' = NULL
    BY <1>1, <1>3 DEF step
  <2>2. seen' \in Seq(Nodes) /\ IsInjective(seen')
    BY <2>1 DEF IsInjective
  <2> QED
    BY <1>1, <1>2, <2>1, <2>2 DEF Iterating
<1>4. CASE li # NULL
  <2> DEFINE s == q[list]
  <2>1. /\ list \in Lists /\ li \in Range(s) /\ step \in Pointers
        /\ step # NULL => step \in Range(s)
        /\ \A m : Passed(s, step, dir, m) <=> m = li \/ Passed(s, li, dir, m)
    BY <1>1, <1>4, StepPasses
  <2>2. /\ s \in Seq(Nodes) /\ IsInjective(s) /\ Range(s) \subseteq Nodes
    BY <2>1, ListOf
  <2>3. /\ seen \in Seq(Nodes) /\ IsInjective(seen) /\ dir \in {"head", "tail"}
        /\ steady \subseteq Nodes /\ li \in Pointers
        /\ \A m \in Range(seen) : Passed(s, li, dir, m)
        /\ \A m \in steady : m \in Range(s) /\ (Passed(s, li, dir, m) => m \in Range(seen))
    BY <1>1 DEF Iterating
  <2> HIDE DEF s
  <2>4. li \notin Range(seen) /\ li \in Nodes
    BY <1>4, <2>1, <2>2, <2>3, NotPassed
  <2>5. /\ seen' \in Seq(Nodes) /\ IsInjective(seen') /\ Range(seen') = Range(seen) \cup {li}
    <3>1. /\ Append(seen, li) \in Seq(Nodes)
          /\ Inserted(Append(seen, li), seen, Len(seen) + 1, li)
      BY <2>3, <2>4, AppendInserts
    <3>2. /\ IsInjective(Append(seen, li))
          /\ Range(Append(seen, li)) = Range(seen) \cup {li}
      BY <2>3, <2>4, <3>1, InsertedNodes
    <3> QED
      BY <1>1, <1>4, <3>1, <3>2
  <2>6. /\ current' = li /\ li' = step /\ list' = list /\ steady' = steady /\ dir' = dir
    BY <1>1, <1>4
  <2>7. /\ li' # NULL => li' \in Range(s)
        /\ current' # NULL => Passed(s, li', dir', current')
        /\ \A m \in Range(seen') : Passed(s, li', dir', m)
        /\ \A m \in steady' : m \in Range(s) /\ (Passed(s, li', dir', m) => m \in Range(seen'))
    BY <2>1, <2>3, <2>5, <2>6
  <2> QED
    BY <1>1, <2>1, <2>3, <2>5, <2>6, <2>7 DEF Iterating, s
<1> QED
  BY <1>3, <1>4

-----------------------------------------------------------------------------
(* What the operations do to the sequences, and that the iterator stands   *)
(* it.  The step of a list other than the one iterated does not matter.    *)
LEMMA IteratingChange ==
  ASSUME NEW q, Represents(q), Iterating(q), UNCHANGED iter, NEW l \in Lists,
         NEW u \in Seq(Nodes),
         list = l => SameOrder(q[l], u) /\ Range(q[l]) \subseteq Range(u)
  PROVE  Iterating([q EXCEPT ![l] = u])'
<1> DEFINE r == [q EXCEPT ![l] = u]
<1>1. q \in [Lists -> Seq(Nodes)]
  BY DEF Represents
<1>2. r[l] = u /\ \A o \in Lists : o # l => r[o] = q[o]
  BY <1>1
<1> HIDE DEF r
<1>3. ASSUME list # NULL
      PROVE  /\ r[list] \in Seq(Nodes) /\ SameOrder(q[list], r[list])
             /\ Range(q[list]) \subseteq Range(r[list])
  <2>1. list \in Lists
    BY <1>3 DEF Iterating
  <2>2. CASE list = l
    BY <1>2, <2>2
  <2>3. CASE list # l
    <3>1. r[list] = q[list]
      BY <1>2, <2>1, <2>3
    <3>2. q[list] \in Seq(Nodes) /\ IsInjective(q[list])
      BY <2>1, ListOf
    <3> QED
      BY <3>1, <3>2, SameItself
  <2> QED
    BY <2>2, <2>3
<1>4. Iterating(r)'
  BY <1>3, IteratingKept
<1> QED
  BY <1>4 DEF r

(* The steps that change the lists, in the words of the sequences.         *)
Adds(q, r) ==
  \E l \in Lists, n \in unused :
    \/ r = [q EXCEPT ![l] = <<n>> \o q[l]]
    \/ r = [q EXCEPT ![l] = Append(q[l], n)]
    \/ \E i \in 1..Len(q[l]) : \/ r = [q EXCEPT ![l] = InsertAt(q[l], i, n)]
                               \/ r = [q EXCEPT ![l] = InsertAt(q[l], i + 1, n)]
Deletes(q, r) ==
  \E l \in Lists : \/ \E p \in 1..Len(q[l]) : r = [q EXCEPT ![l] = RemoveAt(q[l], p)]
                   \/ r = [q EXCEPT ![l] = <<>>]
Reorders(q, r) ==
  \/ \E l \in Lists :
       /\ Len(q[l]) > 1
       /\ \/ r = [q EXCEPT ![l] = <<Last(q[l])>> \o Front(q[l])]
          \/ r = [q EXCEPT ![l] = Append(Tail(q[l]), Head(q[l]))]
  \/ \E l \in Lists : \E o \in Lists \ {l} : r = [q EXCEPT ![l] = @ \o q[o], ![o] = <<>>]

(* r is what the lists are after the step.                                 *)
After(q, r) ==
  /\ Represents(r)' /\ Iterating(r)'
  /\ r = q \/ Adds(q, r) \/ Deletes(q, r) \/ Reorders(q, r)

LEMMA AddedAfter ==
  ASSUME NEW q, Represents(q), Iterating(q), UNCHANGED iter, NEW l \in Lists,
         NEW n \in unused, NEW u, NEW p,
         u \in Seq(Nodes) /\ Inserted(u, q[l], p, n)
  PROVE  Iterating([q EXCEPT ![l] = u])'
<1>1. /\ q[l] \in Seq(Nodes) /\ IsInjective(q[l]) /\ n \in Nodes /\ n \notin Range(q[l])
      /\ u \in Seq(Nodes) /\ Inserted(u, q[l], p, n)
  BY ListOf DEF Represents, Typed
<1>2. Range(u) = Range(q[l]) \cup {n} /\ SameOrder(q[l], u)
  BY <1>1, InsertedNodes
<1> QED
  BY <1>1, <1>2, IteratingChange

LEMMA AddHeadAfter ==
  ASSUME NEW q, Represents(q), Iterating(q), NEW l \in Lists, listAddNodeHead(l)
  PROVE  \E r : After(q, r)
<1>1. PICK n \in unused : allocate(n) /\ Represents([q EXCEPT ![l] = <<n>> \o q[l]])'
  BY AddHeadRepresents
<1>2. UNCHANGED iter
  BY DEF listAddNodeHead
<1>3. q[l] \in Seq(Nodes) /\ n \in Nodes
  BY ListOf DEF Represents, Typed
<1>4. <<n>> \o q[l] \in Seq(Nodes) /\ Inserted(<<n>> \o q[l], q[l], 1, n)
  BY <1>3, HeadInserts
<1>5. Iterating([q EXCEPT ![l] = <<n>> \o q[l]])'
  BY <1>2, <1>4, AddedAfter
<1>6. Adds(q, [q EXCEPT ![l] = <<n>> \o q[l]])
  BY DEF Adds
<1> QED
  BY <1>1, <1>5, <1>6 DEF After

LEMMA AddTailAfter ==
  ASSUME NEW q, Represents(q), Iterating(q), NEW l \in Lists, listAddNodeTail(l)
  PROVE  \E r : After(q, r)
<1>1. PICK n \in unused : allocate(n) /\ Represents([q EXCEPT ![l] = Append(q[l], n)])'
  BY AddTailRepresents
<1>2. UNCHANGED iter
  BY DEF listAddNodeTail
<1>3. q[l] \in Seq(Nodes) /\ n \in Nodes
  BY ListOf DEF Represents, Typed
<1>4. Append(q[l], n) \in Seq(Nodes) /\ Inserted(Append(q[l], n), q[l], Len(q[l]) + 1, n)
  BY <1>3, AppendInserts
<1>5. Iterating([q EXCEPT ![l] = Append(q[l], n)])'
  BY <1>2, <1>4, AddedAfter
<1>6. Adds(q, [q EXCEPT ![l] = Append(q[l], n)])
  BY DEF Adds
<1> QED
  BY <1>1, <1>5, <1>6 DEF After

LEMMA InsertAfter ==
  ASSUME NEW q, Represents(q), Iterating(q), NEW l \in Lists, listInsertNode(l)
  PROVE  \E r : After(q, r)
<1>1. PICK old \in NodesOf(l), n \in unused :
        /\ allocate(n) /\ count(l, 1) /\ UNCHANGED iter
        /\ insertAfter(l, old, n) \/ insertBefore(l, old, n)
  BY DEF listInsertNode
<1>2. /\ q[l] \in Seq(Nodes) /\ n \in Nodes /\ NodesOf(l) = Range(q[l]) /\ Len(q[l]) \in Nat
      /\ q \in [Lists -> Seq(Nodes)]
  BY ListOf, ForwardIs DEF Represents, Typed
<1>3. PICK i \in 1..Len(q[l]) : q[l][i] = old
  BY <1>1, <1>2, NodeIn
<1>4. PICK p \in {i, i + 1} : Represents([q EXCEPT ![l] = InsertAt(q[l], p, n)])'
  BY <1>1, <1>3, InsertNodeRepresents
<1>5. p \in 1..(Len(q[l]) + 1)
  BY <1>2, <1>3
<1>6. /\ InsertAt(q[l], p, n) \in Seq(Nodes)
      /\ Inserted(InsertAt(q[l], p, n), q[l], p, n)
  BY <1>2, <1>5, InsertAtInserts
<1>7. Iterating([q EXCEPT ![l] = InsertAt(q[l], p, n)])'
  BY <1>1, <1>6, AddedAfter
<1>8. Adds(q, [q EXCEPT ![l] = InsertAt(q[l], p, n)])
  <2>1. p = i \/ p = i + 1
    OBVIOUS
  <2> QED
    BY <2>1, <1>1, <1>3 DEF Adds
<1> QED
  BY <1>4, <1>7, <1>8 DEF After

LEMMA DeleteAfter ==
  ASSUME NEW q, Represents(q), Iterating(q), NEW l \in Lists, NEW n \in NodesOf(l),
         listDelNode(l, n)
  PROVE  \E r : After(q, r)
<1>1. q[l] \in Seq(Nodes) /\ NodesOf(l) = Range(q[l])
  BY ListOf, ForwardIs
<1>2. PICK p \in 1..Len(q[l]) : q[l][p] = n
  BY <1>1, NodeIn
<1>3. listDelNode(l, q[l][p])
  BY <1>2
<1>4. /\ Represents([q EXCEPT ![l] = RemoveAt(q[l], p)])'
      /\ Iterating([q EXCEPT ![l] = RemoveAt(q[l], p)])'
  BY <1>3, DeleteRepresents, IteratingDelete
<1>5. Deletes(q, [q EXCEPT ![l] = RemoveAt(q[l], p)])
  BY DEF Deletes
<1> QED
  BY <1>4, <1>5 DEF After

LEMMA EmptyAfter ==
  ASSUME NEW q, Represents(q), Iterating(q), NEW l \in Lists, listEmpty(l)
  PROVE  \E r : After(q, r)
<1>1. UNCHANGED iter /\ list # l
  BY DEF listEmpty
<1>2. Represents([q EXCEPT ![l] = <<>>])'
  BY ForwardIs, EmptyRepresents
<1>3. << >> \in Seq(Nodes)
  OBVIOUS
<1>4. Iterating([q EXCEPT ![l] = <<>>])'
  BY <1>1, <1>3, IteratingChange
<1>5. Deletes(q, [q EXCEPT ![l] = <<>>])
  BY DEF Deletes
<1> QED
  BY <1>2, <1>4, <1>5 DEF After

LEMMA RotateTailAfter ==
  ASSUME NEW q, Represents(q), Iterating(q), NEW l \in Lists, listRotateTailToHead(l)
  PROVE  \E r : After(q, r)
<1> DEFINE u == <<Last(q[l])>> \o Front(q[l])
<1>1. UNCHANGED iter /\ list # l
  BY DEF listRotateTailToHead
<1>2. Len(q[l]) > 1 /\ Represents([q EXCEPT ![l] = u])'
  BY RotateTailRepresents
<1>3. u \in Seq(Nodes)
  <2>1. q[l] \in Seq(Nodes) /\ Len(q[l]) \in 1..Len(q[l])
    BY <1>2, ListOf
  <2>2. Last(q[l]) \in Nodes
    BY <2>1 DEF Last
  <2>3. Front(q[l]) \in Seq(Nodes)
    BY <2>1, FrontDrops
  <2> QED
    BY <2>2, <2>3
<1>4. Reorders(q, [q EXCEPT ![l] = u])
  BY <1>2 DEF Reorders
<1> HIDE DEF u
<1>5. Iterating([q EXCEPT ![l] = u])'
  BY <1>1, <1>3, IteratingChange
<1> QED
  BY <1>2, <1>4, <1>5 DEF After

LEMMA RotateHeadAfter ==
  ASSUME NEW q, Represents(q), Iterating(q), NEW l \in Lists, listRotateHeadToTail(l)
  PROVE  \E r : After(q, r)
<1> DEFINE u == Append(Tail(q[l]), Head(q[l]))
<1>1. UNCHANGED iter /\ list # l
  BY DEF listRotateHeadToTail
<1>2. Len(q[l]) > 1 /\ Represents([q EXCEPT ![l] = u])'
  BY RotateHeadRepresents
<1>3. u \in Seq(Nodes)
  <2>1. q[l] \in Seq(Nodes) /\ 1 \in 1..Len(q[l])
    BY <1>2, ListOf
  <2>2. Head(q[l]) \in Nodes
    BY <2>1
  <2>3. Tail(q[l]) \in Seq(Nodes)
    BY <2>1
  <2> QED
    BY <2>2, <2>3
<1>4. Reorders(q, [q EXCEPT ![l] = u])
  BY <1>2 DEF Reorders
<1> HIDE DEF u
<1>5. Iterating([q EXCEPT ![l] = u])'
  BY <1>1, <1>3, IteratingChange
<1> QED
  BY <1>2, <1>4, <1>5 DEF After

LEMMA JoinAfter ==
  ASSUME NEW q, Represents(q), Iterating(q), NEW l \in Lists, NEW o \in Lists, listJoin(l, o)
  PROVE  \E r : After(q, r)
<1> DEFINE r == [q EXCEPT ![l] = @ \o q[o], ![o] = <<>>]
<1>1. UNCHANGED iter /\ list \notin {l, o}
  BY DEF listJoin
<1>2. l # o /\ Represents(r)'
  BY JoinRepresents
<1>3. Reorders(q, r)
  BY <1>2 DEF Reorders
<1>4. q \in [Lists -> Seq(Nodes)]
  BY DEF Represents
<1>5. \A x \in Lists : x \notin {l, o} => r[x] = q[x]
  BY <1>4
<1> HIDE DEF r
<1>6. ASSUME list # NULL
      PROVE  /\ r[list] \in Seq(Nodes) /\ SameOrder(q[list], r[list])
             /\ Range(q[list]) \subseteq Range(r[list])
  <2>1. list \in Lists
    BY <1>6 DEF Iterating
  <2>2. q[list] \in Seq(Nodes) /\ IsInjective(q[list]) /\ r[list] = q[list]
    BY <1>1, <1>5, <2>1, ListOf
  <2> QED
    BY <2>2, SameItself
<1>7. Iterating(r)'
  BY <1>1, <1>6, IteratingKept
<1> QED
  BY <1>2, <1>3, <1>7 DEF After

LEMMA IteratorAfter ==
  ASSUME NEW q, Represents(q), Iterating(q),
         (\E l \in Lists : listRewind(l) \/ listRewindTail(l)) \/ listNext
  PROVE  \E r : After(q, r)
<1>1. UNCHANGED lists
  BY DEF listRewind, listRewindTail, rewind, listNext
<1>2. Represents(q)'
  BY <1>1, SameLists
<1>3. Iterating(q)'
  BY IteratingRewind, IteratingNext
<1> QED
  BY <1>2, <1>3 DEF After

-----------------------------------------------------------------------------
(* The inductive invariant.                                                *)
LEMMA InitIInv == Init => IInv
<1> SUFFICES ASSUME Init
             PROVE  IInv
  OBVIOUS
<1> DEFINE q == [l \in Lists |-> <<>>]
<1>1. /\ head = [l \in Lists |-> NULL] /\ tail = [l \in Lists |-> NULL]
      /\ len = [l \in Lists |-> 0]
      /\ next = [n \in Nodes |-> NULL] /\ prev = [n \in Nodes |-> NULL] /\ unused = Nodes
      /\ list = NULL /\ li = NULL /\ dir = "head" /\ current = NULL
      /\ steady = {} /\ seen = <<>>
  BY DEF Init
<1>2. /\ q \in [Lists -> Seq(Nodes)]
      /\ \A l \in Lists : q[l] = <<>> /\ Len(q[l]) = 0 /\ Range(q[l]) = {} /\ IsInjective(q[l])
  BY DEF Range, IsInjective
<1> HIDE DEF q
<1>3. Typed
  BY <1>1 DEF Typed, Pointers
<1>4. ASSUME NEW l \in Lists
      PROVE  Chain(q[l], head[l], tail[l], next, prev)
  BY <1>1, <1>2 DEF Chain, At
<1>5. Represents(q)
  BY <1>1, <1>2, <1>3, <1>4 DEF Represents
<1>6. IsInjective(seen) /\ seen \in Seq(Nodes)
  BY <1>1 DEF IsInjective
<1>7. Iterating(q)
  BY <1>1, <1>6 DEF Iterating, Pointers
<1> QED
  BY <1>5, <1>7 DEF IInv

LEMMA StepAfter ==
  ASSUME NEW q, Represents(q), Iterating(q), [Next]_vars
  PROVE  \E r : After(q, r)
<1>1. CASE UNCHANGED vars
  <2>1. UNCHANGED lists /\ UNCHANGED iter
    BY <1>1 DEF vars
  <2>2. Represents(q)'
    BY <2>1, SameLists
  <2>3. Iterating(q)'
    BY <2>1 DEF iter, Iterating
  <2> QED
    BY <2>2, <2>3 DEF After
<1>2. CASE \E l \in Lists :
             listAddNodeHead(l) \/ listAddNodeTail(l) \/ listInsertNode(l)
  BY <1>2, AddHeadAfter, AddTailAfter, InsertAfter
<1>3. CASE \E l \in Lists : (\E n \in NodesOf(l) : listDelNode(l, n)) \/ listEmpty(l)
  BY <1>3, DeleteAfter, EmptyAfter
<1>4. CASE \E l \in Lists : listRotateTailToHead(l) \/ listRotateHeadToTail(l)
  BY <1>4, RotateTailAfter, RotateHeadAfter
<1>5. CASE \E l \in Lists : \E o \in Lists : listJoin(l, o)
  BY <1>5, JoinAfter
<1>6. CASE (\E l \in Lists : listRewind(l) \/ listRewindTail(l)) \/ listNext
  BY <1>6, IteratorAfter
<1> QED
  BY <1>1, <1>2, <1>3, <1>4, <1>5, <1>6 DEF Next

LEMMA NextIInv == IInv /\ [Next]_vars => IInv'
<1> SUFFICES ASSUME IInv, [Next]_vars
             PROVE  IInv'
  OBVIOUS
<1>1. PICK q : Represents(q) /\ Iterating(q)
  BY DEF IInv
<1>2. PICK r : After(q, r)
  BY <1>1, StepAfter
<1>3. Represents(r)' /\ Iterating(r)'
  BY <1>2 DEF After
<1> QED
  BY <1>3 DEF IInv

(* The pointers of the lists are at every moment those of sequences of     *)
(* nodes, no node in two places and none of them free, and the iterator    *)
(* has returned exactly the lasting nodes that it has passed: adlist.c.    *)
THEOREM InvariantIInv == Spec => []IInv
<1> QED
  BY InitIInv, NextIInv, PTL DEF Spec

(* A node that stays in the list is returned by a walk that ends, and no   *)
(* node is returned twice, whatever is added and deleted on the way:       *)
(* listNext() with listDelNode().                                          *)
THEOREM CompleteIterator == Spec => IteratorComplete
<1> DEFINE Good == /\ listNext => IsInjective(seen')
                   /\ listNext /\ li = NULL => steady \subseteq Range(seen)
<1>1. IInv /\ [Next]_vars => [Good]_vars
  <2> SUFFICES ASSUME IInv, [Next]_vars
               PROVE  [Good]_vars
    OBVIOUS
  <2>1. PICK q : Represents(q) /\ Iterating(q)
    BY DEF IInv
  <2>2. ASSUME listNext
        PROVE  IsInjective(seen')
    BY <2>1, <2>2, IteratingNext DEF Iterating
  <2>3. ASSUME listNext, li = NULL, NEW m \in steady
        PROVE  m \in Range(seen)
    <3>1. list \in Lists /\ list # NULL
      BY <2>1, <2>3 DEF listNext, Iterating
    <3>2. m \in Range(q[list]) /\ (Passed(q[list], li, dir, m) => m \in Range(seen))
      BY <2>1, <3>1 DEF Iterating
    <3>3. q[list] \in Seq(Nodes)
      BY <2>1, <3>1, ListOf
    <3>4. Passed(q[list], li, dir, m)
      BY <2>3, <3>2, <3>3, NodeIn DEF Passed
    <3> QED
      BY <3>2, <3>4
  <2> QED
    BY <2>2, <2>3
<1> QED
  BY <1>1, InvariantIInv, PTL DEF Spec, IteratorComplete

(* The node the iterator is about to return is always one of its list, so  *)
(* that deleting the node just returned does not free it: beforeSleep().   *)
THEOREM LiveIterator == Spec => []IteratorLive
<1>1. IInv => IteratorLive
  <2> SUFFICES ASSUME IInv, li # NULL, list # NULL
               PROVE  li \in NodesOf(list)
    BY DEF IteratorLive
  <2>1. PICK q : Represents(q) /\ Iterating(q)
    BY DEF IInv
  <2>2. list \in Lists /\ li \in Range(q[list])
    BY <2>1 DEF Iterating
  <2> QED
    BY <2>1, <2>2, ForwardIs
<1> QED
  BY <1>1, InvariantIInv, PTL

-----------------------------------------------------------------------------
(* What listIndex() finds: places are counted from 0, or back from -1.     *)
LEMMA IndexIs ==
  ASSUME NEW q, Represents(q), NEW l \in Lists, NEW i \in Int
  PROVE  listIndex(l, i) = At(q[l], IF i < 0 THEN Len(q[l]) + 1 + i ELSE i + 1)
<1>1. Len(q[l]) \in Nat
  BY ListOf
<1>2. CASE i < 0
  <2>1. -i \in Nat /\ -i \in 1..(-i)
    BY <1>2
  <2>2. Follow(prev, tail[l], -i) = [j \in 1..(-i) |-> At(q[l], Len(q[l]) + 1 - j)]
    BY <2>1, WalkBackward
  <2>3. listIndex(l, i) = Follow(prev, tail[l], -i)[-i]
    BY <1>2 DEF listIndex
  <2>4. listIndex(l, i) = At(q[l], Len(q[l]) + 1 - (-i))
    BY <2>1, <2>2, <2>3
  <2>5. Len(q[l]) + 1 - (-i) = Len(q[l]) + 1 + i
    <3>1. \A k \in Nat, j \in Int : k + 1 - (-j) = k + 1 + j
      OBVIOUS
    <3> QED
      BY <1>1, <3>1
  <2> QED
    BY <1>2, <2>4, <2>5
<1>3. CASE ~(i < 0)
  <2>1. i + 1 \in Nat /\ i + 1 \in 1..(i + 1)
    BY <1>3
  <2>2. Follow(next, head[l], i + 1) = [j \in 1..(i + 1) |-> At(q[l], j)]
    BY <2>1, WalkForward
  <2>3. listIndex(l, i) = Follow(next, head[l], i + 1)[i + 1]
    BY <1>3 DEF listIndex
  <2> QED
    BY <1>3, <2>1, <2>2, <2>3
<1> QED
  BY <1>2, <1>3

LEMMA BackwardIs ==
  ASSUME NEW q, Represents(q), NEW l \in Lists
  PROVE  Backward(l) = Reverse(q[l])
<1> DEFINE s == q[l]
           L == Len(s)
<1>1. s \in Seq(Nodes) /\ L \in Nat /\ len[l] = L
  BY ListOf
<1>2. Backward(l) = [i \in 1..L |-> At(s, L + 1 - i)]
  BY <1>1, WalkBackward DEF Backward
<1> HIDE DEF s
<1>3. ASSUME NEW i \in 1..L
      PROVE  At(s, L + 1 - i) = s[(L - i) + 1]
  <2>1. L + 1 - i \in 1..L /\ L + 1 - i = (L - i) + 1
    BY <1>1
  <2> HIDE DEF L
  <2>2. At(s, L + 1 - i) = s[L + 1 - i]
    BY <2>1 DEF At, L
  <2> QED
    BY <2>1, <2>2
<1>4. [i \in 1..L |-> At(s, L + 1 - i)] = [i \in 1..L |-> s[(L - i) + 1]]
  BY <1>3
<1> QED
  BY <1>2, <1>4 DEF Reverse, s

(* No list is longer than there are nodes.                                 *)
LEMMA LenFits ==
  ASSUME NEW q, Represents(q), NEW l \in Lists
  PROVE  len[l] \in 0..Cardinality(Nodes)
<1> DEFINE s == q[l]
<1>1. s \in Seq(Nodes) /\ IsInjective(s) /\ len[l] = Len(s) /\ Len(s) \in Nat
  BY ListOf
<1> HIDE DEF s
<1>2. s \in Injection(1..Len(s), Nodes)
  <2>1. \A i, j \in 1..Len(s) : s[i] = s[j] => i = j
    BY <1>1, NodeIn
  <2>2. s \in [1..Len(s) -> Nodes]
    BY <1>1
  <2> QED
    BY <2>1, <2>2 DEF Injection, IsInjective
<1>3. /\ Cardinality(1..Len(s)) <= Cardinality(Nodes) /\ Cardinality(Nodes) \in Nat
  BY <1>2, AdListAssumption, FS_Injection, FS_CardinalityType
<1>4. Cardinality(1..Len(s)) = Len(s)
  <2>1. \A k \in Nat : Cardinality(1..k) = k
    <3>1. ASSUME NEW k \in Nat
          PROVE  Cardinality(1..k) = k
      <4>1. Cardinality(1..k) = IF 1 > k THEN 0 ELSE k - 1 + 1
        BY FS_Interval
      <4> QED
        BY <4>1
    <3> QED
      BY <3>1
  <2> QED
    BY <1>1, <2>1
<1> QED
  BY <1>1, <1>3, <1>4

(* Both ways along a list give the same nodes, listIndex() finds them and  *)
(* none beyond the ends, none of them is free, and len counts them.        *)
THEOREM AgreeingLinks == Spec => []LinksAgree
<1>1. IInv => LinksAgree
  <2> SUFFICES ASSUME IInv
               PROVE  LinksAgree
    OBVIOUS
  <2>1. PICK q : Represents(q) /\ Iterating(q)
    BY DEF IInv
  <2>2. TypeOK
    <3>1. \A l \in Lists : len[l] \in 0..Cardinality(Nodes)
      BY <2>1, LenFits
    <3>2. len \in [Lists -> 0..Cardinality(Nodes)]
      BY <2>1, <3>1 DEF Represents, Typed
    <3> QED
      BY <2>1, <3>2 DEF TypeOK, Represents, Typed, Iterating
  <2>3. ASSUME NEW l \in Lists
        PROVE  /\ Backward(l) = Reverse(Forward(l))
               /\ len[l] = 0 => head[l] = NULL /\ tail[l] = NULL
               /\ NodesOf(l) \cap unused = {}
    <3>1. Backward(l) = Reverse(q[l]) /\ Forward(l) = q[l] /\ NodesOf(l) = Range(q[l])
      BY <2>1, BackwardIs, ForwardIs
    <3>2. /\ Range(q[l]) \cap unused = {} /\ len[l] = Len(q[l])
          /\ head[l] = At(q[l], 1) /\ tail[l] = At(q[l], Len(q[l]))
      BY <2>1, ListOf
    <3>3. Len(q[l]) = 0 => At(q[l], 1) = NULL /\ At(q[l], Len(q[l])) = NULL
      BY DEF At
    <3> QED
      BY <3>1, <3>2, <3>3
  <2>4. ASSUME NEW l \in Lists
        PROVE  /\ \A i \in 1..len[l] : /\ listIndex(l, i - 1) = Forward(l)[i]
                                       /\ listIndex(l, i - 1 - len[l]) = Forward(l)[i]
               /\ listIndex(l, len[l]) = NULL /\ listIndex(l, -len[l] - 1) = NULL
    <3> DEFINE L == Len(q[l])
    <3>1. Forward(l) = q[l] /\ len[l] = L /\ L \in Nat
      BY <2>1, ListOf, ForwardIs
    <3>2. \A i \in Int : listIndex(l, i) = At(q[l], IF i < 0 THEN L + 1 + i ELSE i + 1)
      BY <2>1, IndexIs
    <3>3. \A i \in 1..L : At(q[l], i) = q[l][i]
      BY DEF At
    <3>4. At(q[l], L + 1) = NULL /\ At(q[l], 0) = NULL
      BY <3>1 DEF At
    <3> HIDE DEF L
    <3>5. ASSUME NEW i \in 1..L
          PROVE  listIndex(l, i - 1) = q[l][i] /\ listIndex(l, i - 1 - L) = q[l][i]
      <4>1. /\ i - 1 \in Int /\ ~(i - 1 < 0) /\ i - 1 + 1 = i
            /\ i - 1 - L \in Int /\ i - 1 - L < 0 /\ L + 1 + (i - 1 - L) = i
        BY <3>1
      <4>2. listIndex(l, i - 1) = At(q[l], i - 1 + 1)
        BY <3>2, <4>1
      <4>3. listIndex(l, i - 1 - L) = At(q[l], L + 1 + (i - 1 - L))
        BY <3>2, <4>1
      <4> QED
        BY <3>3, <4>1, <4>2, <4>3
    <3>6. listIndex(l, L) = NULL /\ listIndex(l, -L - 1) = NULL
      <4>1. /\ L \in Int /\ ~(L < 0)
            /\ -L - 1 \in Int /\ -L - 1 < 0 /\ L + 1 + (-L - 1) = 0
        BY <3>1
      <4>2. listIndex(l, L) = At(q[l], L + 1)
        BY <3>2, <4>1
      <4>3. listIndex(l, -L - 1) = At(q[l], L + 1 + (-L - 1))
        BY <3>2, <4>1
      <4> QED
        BY <3>4, <4>1, <4>2, <4>3
    <3> QED
      BY <3>1, <3>5, <3>6
  <2> QED
    BY <2>2, <2>3, <2>4 DEF LinksAgree
<1> QED
  BY <1>1, InvariantIInv, PTL

-----------------------------------------------------------------------------
(* The abstract specification.                                             *)
LEMMA SeqNext ==
  ASSUME NEW r
  PROVE  (Represents(r) => [l \in Lists |-> Forward(l)] = r)'
<1>1. Represents(r) => [l \in Lists |-> Forward(l)] = r
  BY SeqIs
<1> QED
  BY <1>1, PTL

(* Its operators on sequences are those of the model.                      *)
LEMMA SameOperators ==
  ASSUME NEW s
  PROVE  /\ Abstract!Range(s) = Range(s)
         /\ Abstract!Last(s) = Last(s) /\ Abstract!Front(s) = Front(s)
         /\ \A p : Abstract!RemoveAt(s, p) = RemoveAt(s, p)
         /\ \A p, n : Abstract!InsertAt(s, p, n) = InsertAt(s, p, n)
<1>1. Abstract!Range(s) = Range(s)
  BY DEF Abstract!Range, Range
<1>2. Abstract!Last(s) = Last(s) /\ Abstract!Front(s) = Front(s)
  BY DEF Abstract!Last, Last, Abstract!Front, Front
<1>3. \A p : Abstract!RemoveAt(s, p) = RemoveAt(s, p)
  BY DEF Abstract!RemoveAt, RemoveAt
<1>4. \A p, n : Abstract!InsertAt(s, p, n) = InsertAt(s, p, n)
  BY DEF Abstract!InsertAt, InsertAt
<1> QED
  BY <1>1, <1>2, <1>3, <1>4

LEMMA IndexOf ==
  ASSUME NEW q, Represents(q), NEW l \in Lists, NEW p \in 1..Len(q[l])
  PROVE  Abstract!Index(l, q[l][p]) = p
<1>1. [o \in Lists |-> Forward(o)][l] = q[l]
  BY ForwardIs
<1>2. q[l] \in Seq(Nodes) /\ IsInjective(q[l])
  BY ListOf
<1>3. DOMAIN q[l] = 1..Len(q[l]) /\ \A i, j \in 1..Len(q[l]) : q[l][i] = q[l][j] => i = j
  BY <1>2, NodeIn
<1> QED
  BY <1>1, <1>3 DEF Abstract!Index

(* Free nodes are those the sequences do not hold.                         *)
LEMMA FreeNodes ==
  ASSUME NEW q, Represents(q)
  PROVE  unused \subseteq Abstract!Unused
<1>1. \A l \in Lists : [o \in Lists |-> Forward(o)][l] = q[l]
  BY ForwardIs
<1>2. unused \subseteq Nodes /\ \A l \in Lists : Range(q[l]) \cap unused = {}
  BY DEF Represents, Typed
<1>3. \A l \in Lists : Abstract!Range([o \in Lists |-> Forward(o)][l]) \cap unused = {}
  BY <1>1, <1>2, SameOperators
<1> QED
  BY <1>2, <1>3 DEF Abstract!Unused

LEMMA AbstractStep ==
  ASSUME NEW q, Represents(q), NEW r, After(q, r), r # q
  PROVE  Abstract!Next
<1>1. [l \in Lists |-> Forward(l)] = q /\ [l \in Lists |-> Forward(l)]' = r
  <2>1. Represents(r)'
    BY DEF After
  <2> QED
    BY <2>1, SeqIs, SeqNext
<1>2. \A l \in Lists : \A i \in 1..Len(q[l]) :
        q[l][i] \in Abstract!Range([o \in Lists |-> Forward(o)][l])
  BY <1>1, ListOf, NodeIn, SameOperators
<1>3. CASE Adds(q, r)
  <2>1. PICK l \in Lists, n \in unused :
          \/ r = [q EXCEPT ![l] = <<n>> \o q[l]]
          \/ r = [q EXCEPT ![l] = Append(q[l], n)]
          \/ \E i \in 1..Len(q[l]) : \/ r = [q EXCEPT ![l] = InsertAt(q[l], i, n)]
                                     \/ r = [q EXCEPT ![l] = InsertAt(q[l], i + 1, n)]
    BY <1>3 DEF Adds
  <2>2. n \in Abstract!Unused
    BY FreeNodes
  <2>3. CASE r = [q EXCEPT ![l] = <<n>> \o q[l]]
    BY <1>1, <2>2, <2>3 DEF Abstract!Next, Abstract!AddHead, Abstract!Becomes
  <2>4. CASE r = [q EXCEPT ![l] = Append(q[l], n)]
    BY <1>1, <2>2, <2>4 DEF Abstract!Next, Abstract!AddTail, Abstract!Becomes
  <2>5. CASE \E i \in 1..Len(q[l]) : \/ r = [q EXCEPT ![l] = InsertAt(q[l], i, n)]
                                     \/ r = [q EXCEPT ![l] = InsertAt(q[l], i + 1, n)]
    <3>1. PICK i \in 1..Len(q[l]) : \/ r = [q EXCEPT ![l] = InsertAt(q[l], i, n)]
                                    \/ r = [q EXCEPT ![l] = InsertAt(q[l], i + 1, n)]
      BY <2>5
    <3>2. Abstract!Index(l, q[l][i]) = i
      BY IndexOf
    <3>3. Abstract!Insert(l, q[l][i], n)
      <4> DEFINE s == [o \in Lists |-> Forward(o)]
      <4>1. s = q /\ s' = r
        BY <1>1
      <4>2. \A m : Abstract!InsertAt(s[l], m, n) = InsertAt(q[l], m, n)
        BY <1>1, SameOperators
      <4>3. Abstract!Insert(l, q[l][i], n) <=>
              \/ s' = [s EXCEPT ![l] = Abstract!InsertAt(s[l], Abstract!Index(l, q[l][i]), n)]
              \/ s' = [s EXCEPT ![l] = Abstract!InsertAt(s[l], Abstract!Index(l, q[l][i]) + 1, n)]
        BY DEF Abstract!Insert, Abstract!Becomes
      <4> HIDE DEF s
      <4> QED
        BY <3>1, <3>2, <4>1, <4>2, <4>3
    <3>4. q[l][i] \in Abstract!Range([o \in Lists |-> Forward(o)][l])
      BY <1>1, <1>2
    <3> QED
      BY <2>2, <3>3, <3>4 DEF Abstract!Next
  <2> QED
    BY <2>1, <2>3, <2>4, <2>5
<1>4. CASE Deletes(q, r)
  <2>1. PICK l \in Lists : \/ \E p \in 1..Len(q[l]) : r = [q EXCEPT ![l] = RemoveAt(q[l], p)]
                           \/ r = [q EXCEPT ![l] = <<>>]
    BY <1>4 DEF Deletes
  <2>2. CASE r = [q EXCEPT ![l] = <<>>]
    BY <1>1, <2>2 DEF Abstract!Next, Abstract!Empty, Abstract!Becomes
  <2>3. CASE \E p \in 1..Len(q[l]) : r = [q EXCEPT ![l] = RemoveAt(q[l], p)]
    <3>1. PICK p \in 1..Len(q[l]) : r = [q EXCEPT ![l] = RemoveAt(q[l], p)]
      BY <2>3
    <3>2. Abstract!Index(l, q[l][p]) = p
      BY IndexOf
    <3>3. Abstract!Delete(l, q[l][p])
      <4> DEFINE s == [o \in Lists |-> Forward(o)]
      <4>1. s = q /\ s' = r
        BY <1>1
      <4>2. Abstract!RemoveAt(s[l], p) = RemoveAt(q[l], p)
        BY <1>1, SameOperators
      <4>3. Abstract!Delete(l, q[l][p]) <=>
              s' = [s EXCEPT ![l] = Abstract!RemoveAt(s[l], Abstract!Index(l, q[l][p]))]
        BY DEF Abstract!Delete, Abstract!Becomes
      <4> HIDE DEF s
      <4> QED
        BY <3>1, <3>2, <4>1, <4>2, <4>3
    <3>4. q[l][p] \in Abstract!Range([o \in Lists |-> Forward(o)][l])
      BY <1>1, <1>2
    <3> QED
      BY <3>3, <3>4 DEF Abstract!Next
  <2> QED
    BY <2>1, <2>2, <2>3
<1>5. CASE Reorders(q, r)
  <2>1. CASE \E l \in Lists : \E o \in Lists \ {l} : r = [q EXCEPT ![l] = @ \o q[o], ![o] = <<>>]
    BY <1>1, <2>1 DEF Abstract!Next, Abstract!Join
  <2>2. CASE \E l \in Lists :
               /\ Len(q[l]) > 1
               /\ \/ r = [q EXCEPT ![l] = <<Last(q[l])>> \o Front(q[l])]
                  \/ r = [q EXCEPT ![l] = Append(Tail(q[l]), Head(q[l]))]
    <3>1. PICK l \in Lists : /\ Len(q[l]) > 1
                             /\ \/ r = [q EXCEPT ![l] = <<Last(q[l])>> \o Front(q[l])]
                                \/ r = [q EXCEPT ![l] = Append(Tail(q[l]), Head(q[l]))]
      BY <2>2
    <3>2. q[l] # <<>>
      BY <3>1
    <3>3. Abstract!RotateTailToHead(l) \/ Abstract!RotateHeadToTail(l)
      BY <1>1, <3>1, <3>2, SameOperators
      DEF Abstract!RotateTailToHead, Abstract!RotateHeadToTail, Abstract!Becomes
    <3> QED
      BY <3>3 DEF Abstract!Next
  <2> QED
    BY <1>5, <2>1, <2>2 DEF Reorders
<1> QED
  BY <1>3, <1>4, <1>5 DEF After

(* Each operation does to the sequence of a list what its comment in       *)
(* adlist.c says, and nothing to the other lists.                          *)
THEOREM ImplementsSequences == Spec => SeqSpec
<1>1. Init => Abstract!Init
  <2> SUFFICES ASSUME Init
               PROVE  Abstract!Init
    OBVIOUS
  <2>1. \A l \in Lists : len[l] = 0
    BY DEF Init
  <2>2. \A l \in Lists : Forward(l) = <<>>
    <3>1. PICK q : Represents(q)
      BY InitIInv DEF IInv
    <3>2. ASSUME NEW l \in Lists
          PROVE  Forward(l) = <<>>
      <4>1. Forward(l) = q[l] /\ q[l] \in Seq(Nodes) /\ Len(q[l]) = 0
        BY <2>1, <3>1, <3>2, ForwardIs, ListOf
      <4> QED
        BY <4>1
    <3> QED
      BY <3>2
  <2> QED
    BY <2>2 DEF Abstract!Init
<1>2. IInv /\ [Next]_vars => [Abstract!Next]_([l \in Lists |-> Forward(l)])
  <2> SUFFICES ASSUME IInv, [Next]_vars
               PROVE  Abstract!Next \/ UNCHANGED [l \in Lists |-> Forward(l)]
    OBVIOUS
  <2>1. PICK q : Represents(q) /\ Iterating(q)
    BY DEF IInv
  <2>2. PICK r : After(q, r)
    BY <2>1, StepAfter
  <2>3. CASE r # q
    BY <2>1, <2>2, <2>3, AbstractStep
  <2>4. CASE r = q
    <3>1. Represents(q)'
      BY <2>2, <2>4 DEF After
    <3>2. [l \in Lists |-> Forward(l)] = q /\ [l \in Lists |-> Forward(l)]' = q
      BY <2>1, <3>1, SeqIs, SeqNext
    <3> QED
      BY <3>2
  <2> QED
    BY <2>3, <2>4
<1> QED
  BY <1>1, <1>2, InvariantIInv, PTL DEF Spec, SeqSpec, Abstract!Spec
===============================================================================
