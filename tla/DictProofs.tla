------------------------------ MODULE DictProofs ------------------------------
(***************************************************************************)
(* Theorems about Dict, for any keys, values and hash function.            *)
(***************************************************************************)
EXTENDS Dict, Facts

(* A chain that may be bucket b of a table of n buckets: its keys hash to  *)
(* b, and each is there once.                                              *)
SoundChain(c, n, b) ==
  /\ c \in Seq(Entry)
  /\ \A i \in DOMAIN c : Hash[c[i].key] % n = b
  /\ \A i, j \in DOMAIN c : c[i].key = c[j].key => i = j

(* A table whose chains are sound and whose counter is right.              *)
SoundTable(t) ==
  /\ t = [size |-> t.size, used |-> t.used, table |-> t.table]
  /\ t.size \in Nat /\ t.used \in Nat
  /\ t.table \in [0..(t.size - 1) -> Seq(Entry)]
  /\ \A b \in 0..(t.size - 1) : SoundChain(t.table[b], t.size, b)
  /\ IsFiniteSet(Places(t)) /\ t.used = Cardinality(Places(t))

-----------------------------------------------------------------------------
(* One chain of a table changes.                                           *)
LEMMA SlotIn ==
  ASSUME NEW k \in Keys, NEW n \in Nat, n # 0
  PROVE  Hash[k] % n \in 0..(n - 1)
<1>1. Hash[k] \in Nat /\ n \in Nat \ {0}
  BY DictTableAssumption
<1> QED
  BY <1>1, DivMod

LEMMA PlacesIn ==
  ASSUME NEW n \in Nat, NEW b
  PROVE  IsFiniteSet({b} \X (1..n)) /\ Cardinality({b} \X (1..n)) = n
<1>1. IsFiniteSet(1..n) /\ Cardinality(1..n) = n
  BY FirstNaturals
<1>2. IsFiniteSet({b}) /\ Cardinality({b}) = 1
  BY FS_Singleton
<1>3. /\ IsFiniteSet({b} \X (1..n))
      /\ Cardinality({b} \X (1..n)) = Cardinality({b}) * Cardinality(1..n)
  BY <1>1, <1>2, FS_Product
<1> QED
  BY <1>1, <1>2, <1>3

(* The chain of a bucket and what the other buckets hold.                  *)
OthersOf(t, b) == UNION {{x} \X DOMAIN t.table[x] : x \in Buckets(t) \ {b}}

LEMMA PlacesSplit ==
  ASSUME NEW t, NEW b \in Buckets(t), t.table[b] \in Seq(Entry), IsFiniteSet(OthersOf(t, b))
  PROVE  /\ IsFiniteSet(Places(t))
         /\ Cardinality(Places(t)) = Cardinality(OthersOf(t, b)) + Len(t.table[b])
<1> DEFINE c == t.table[b]
           here == {b} \X (1..Len(c))
<1>1. DOMAIN c = 1..Len(c) /\ Len(c) \in Nat
  OBVIOUS
<1>2. Places(t) = OthersOf(t, b) \cup here
  <2>1. ASSUME NEW p \in Places(t)
        PROVE  p \in OthersOf(t, b) \cup here
    BY <1>1 DEF Places, OthersOf
  <2>2. ASSUME NEW p \in OthersOf(t, b) \cup here
        PROVE  p \in Places(t)
    BY <1>1 DEF Places, OthersOf
  <2> QED
    BY <2>1, <2>2
<1>3. OthersOf(t, b) \cap here = {}
  BY DEF OthersOf
<1>4. IsFiniteSet(here) /\ Cardinality(here) = Len(c)
  BY <1>1, PlacesIn
<1> HIDE DEF here, c
<1>5. Cardinality(OthersOf(t, b) \cap here) = 0
  BY <1>3, FS_EmptySet
<1>6. /\ IsFiniteSet(OthersOf(t, b) \cup here)
      /\ Cardinality(OthersOf(t, b) \cup here) =
           Cardinality(OthersOf(t, b)) + Cardinality(here)
             - Cardinality(OthersOf(t, b) \cap here)
  BY <1>4, FS_Union
<1>7. Cardinality(OthersOf(t, b)) \in Nat /\ Len(c) \in Nat
  BY <1>1, FS_CardinalityType DEF c
<1>8. Cardinality(Places(t)) = Cardinality(OthersOf(t, b)) + Len(c)
  BY <1>2, <1>4, <1>5, <1>6, <1>7
<1> QED
  BY <1>2, <1>6, <1>8 DEF c

LEMMA OneChain ==
  ASSUME NEW t, SoundTable(t), NEW b \in 0..(t.size - 1), NEW c, SoundChain(c, t.size, b),
         NEW u, u = t.used + Len(c) - Len(t.table[b])
  PROVE  LET n == WithChain(t, b, c, u) IN
         /\ SoundTable(n) /\ n.size = t.size /\ n.used = u
         /\ Entries(n) = (Entries(t) \ Range(t.table[b])) \cup Range(c)
<1> DEFINE n == WithChain(t, b, c, u)
           old == t.table[b]
<1>1. /\ t.size \in Nat /\ t.used \in Nat /\ t.table \in [0..(t.size - 1) -> Seq(Entry)]
      /\ \A x \in 0..(t.size - 1) : SoundChain(t.table[x], t.size, x)
      /\ IsFiniteSet(Places(t)) /\ t.used = Cardinality(Places(t))
  BY DEF SoundTable
<1>2. c \in Seq(Entry) /\ Len(c) \in Nat /\ old \in Seq(Entry) /\ Len(old) \in Nat
  BY <1>1 DEF SoundChain
<1>3. /\ n.size = t.size /\ n.used = u /\ n.table = [t.table EXCEPT ![b] = c]
      /\ n = [size |-> n.size, used |-> n.used, table |-> n.table]
  BY DEF WithChain
<1> HIDE DEF n
<1>4. /\ n.table \in [0..(t.size - 1) -> Seq(Entry)] /\ n.table[b] = c
      /\ \A x \in 0..(t.size - 1) : x # b => n.table[x] = t.table[x]
  BY <1>1, <1>2, <1>3
<1>5. Buckets(n) = 0..(t.size - 1) /\ Buckets(t) = 0..(t.size - 1)
  BY <1>1, <1>4 DEF Buckets
<1>6. \A x \in 0..(t.size - 1) : SoundChain(n.table[x], t.size, x)
  BY <1>1, <1>4
<1>7. OthersOf(n, b) = OthersOf(t, b)
  <2>1. \A x \in (0..(t.size - 1)) \ {b} : n.table[x] = t.table[x]
    BY <1>4
  <2> QED
    BY <2>1, <1>5 DEF OthersOf
<1>8. IsFiniteSet(OthersOf(t, b))
  <2>1. OthersOf(t, b) \in SUBSET Places(t)
    BY DEF OthersOf, Places
  <2> QED
    BY <1>1, <2>1, FS_Subset
<1>9. Cardinality(Places(t)) = Cardinality(OthersOf(t, b)) + Len(old)
  BY <1>2, <1>5, <1>8, PlacesSplit
<1>10. /\ IsFiniteSet(Places(n))
       /\ Cardinality(Places(n)) = Cardinality(OthersOf(t, b)) + Len(c)
  BY <1>2, <1>4, <1>5, <1>7, <1>8, PlacesSplit
<1>11. Cardinality(OthersOf(t, b)) \in Nat
  BY <1>8, FS_CardinalityType
<1>12. u = Cardinality(Places(n)) /\ u \in Nat
  <2> HIDE DEF old
  <2>1. u = t.used + Len(c) - Len(old)
    BY DEF old
  <2>2. t.used = Cardinality(OthersOf(t, b)) + Len(old)
    BY <1>1, <1>9
  <2> QED
    BY <1>2, <1>10, <1>11, <2>1, <2>2
<1>13. SoundTable(n)
  BY <1>1, <1>3, <1>4, <1>6, <1>10, <1>12 DEF SoundTable
<1>14. ASSUME NEW x \in 0..(t.size - 1), x # b
       PROVE  Range(t.table[x]) \cap Range(old) = {}
  <2>1. SUFFICES ASSUME NEW e \in Range(t.table[x]), e \in Range(old)
                 PROVE  FALSE
    OBVIOUS
  <2>2. PICK i \in DOMAIN t.table[x] : t.table[x][i] = e
    BY DEF Range
  <2>3. PICK j \in DOMAIN old : old[j] = e
    BY <2>1 DEF Range
  <2>4. SoundChain(t.table[x], t.size, x) /\ SoundChain(old, t.size, b)
    BY <1>1
  <2>5. Hash[t.table[x][i].key] % t.size = x
    BY <2>2, <2>4 DEF SoundChain
  <2>6. Hash[old[j].key] % t.size = b
    <3> HIDE DEF old
    <3> QED
      BY <2>3, <2>4 DEF SoundChain
  <2> QED
    BY <2>2, <2>3, <2>5, <2>6, <1>14
<1>15. Entries(n) = (Entries(t) \ Range(old)) \cup Range(c)
  <2>1. ASSUME NEW e \in Entries(n)
        PROVE  e \in (Entries(t) \ Range(old)) \cup Range(c)
    <3>1. PICK x \in 0..(t.size - 1) : e \in Range(n.table[x])
      BY <1>5 DEF Entries
    <3>2. CASE x = b
      BY <1>4, <3>1, <3>2
    <3>3. CASE x # b
      <4>1. e \in Range(t.table[x]) /\ e \notin Range(old)
        BY <1>4, <1>14, <3>1, <3>3
      <4>2. e \in Entries(t)
        BY <1>5, <4>1 DEF Entries
      <4> QED
        BY <4>1, <4>2
    <3> QED
      BY <3>2, <3>3
  <2>2. ASSUME NEW e \in Entries(t), e \notin Range(old)
        PROVE  e \in Entries(n)
    <3>1. PICK x \in 0..(t.size - 1) : e \in Range(t.table[x])
      BY <1>5 DEF Entries
    <3>2. x # b
      BY <2>2, <3>1
    <3>3. e \in Range(n.table[x])
      BY <1>4, <3>1, <3>2
    <3> QED
      BY <1>5, <3>3 DEF Entries
  <2>3. ASSUME NEW e \in Range(c)
        PROVE  e \in Entries(n)
    <3>1. e \in Range(n.table[b])
      BY <1>4
    <3> QED
      BY <1>5, <3>1 DEF Entries
  <2> QED
    BY <2>1, <2>2, <2>3
<1> QED
  BY <1>3, <1>13, <1>15 DEF n

-----------------------------------------------------------------------------
(* An entry stands in the chain of its key, and a key has one entry.       *)
LEMMA Standing ==
  ASSUME NEW t, SoundTable(t), NEW e \in Entries(t)
  PROVE  /\ e \in Entry /\ t.size # 0 /\ Slot(e.key, t) \in 0..(t.size - 1)
         /\ \E i \in DOMAIN Chain(t, e.key) : Chain(t, e.key)[i] = e
<1>1. /\ t.size \in Nat /\ t.table \in [0..(t.size - 1) -> Seq(Entry)]
      /\ \A x \in 0..(t.size - 1) : SoundChain(t.table[x], t.size, x)
  BY DEF SoundTable
<1>2. PICK b \in 0..(t.size - 1) : e \in Range(t.table[b])
  BY <1>1 DEF Entries, Buckets
<1>3. PICK i \in DOMAIN t.table[b] : t.table[b][i] = e
  BY <1>2 DEF Range
<1>4. SoundChain(t.table[b], t.size, b)
  BY <1>1
<1>5. e \in Entry
  BY <1>3, <1>4 DEF SoundChain
<1>6. Hash[e.key] % t.size = b
  BY <1>3, <1>4 DEF SoundChain
<1>7. Slot(e.key, t) = b
  BY <1>6 DEF Slot
<1> QED
  BY <1>1, <1>3, <1>5, <1>7 DEF Chain

LEMMA ChainOf ==
  ASSUME NEW t, SoundTable(t), NEW k \in Keys, t.size # 0
  PROVE  /\ Slot(k, t) \in 0..(t.size - 1) /\ SoundChain(Chain(t, k), t.size, Slot(k, t))
         /\ Chain(t, k) = t.table[Slot(k, t)]
         /\ Chain(t, k) \in Seq(Entry)
         /\ Range(Chain(t, k)) \subseteq Entries(t)
<1>1. /\ t.size \in Nat /\ t.table \in [0..(t.size - 1) -> Seq(Entry)]
      /\ \A x \in 0..(t.size - 1) : SoundChain(t.table[x], t.size, x)
  BY DEF SoundTable
<1>2. Slot(k, t) \in 0..(t.size - 1)
  BY <1>1, SlotIn DEF Slot
<1>3. Chain(t, k) = t.table[Slot(k, t)]
  BY DEF Chain
<1>4. Chain(t, k) \in Seq(Entry) /\ SoundChain(Chain(t, k), t.size, Slot(k, t))
  BY <1>1, <1>2, <1>3
<1>5. Range(Chain(t, k)) \subseteq Entries(t)
  BY <1>1, <1>2, <1>3 DEF Entries, Buckets
<1> QED
  BY <1>2, <1>3, <1>4, <1>5

LEMMA OneOfKey ==
  ASSUME NEW t, SoundTable(t), NEW e \in Entries(t), NEW f \in Entries(t), e.key = f.key
  PROVE  e = f
<1>1. PICK i \in DOMAIN Chain(t, e.key) : Chain(t, e.key)[i] = e
  BY Standing
<1>2. PICK j \in DOMAIN Chain(t, e.key) : Chain(t, e.key)[j] = f
  BY Standing
<1>3. e \in Entry /\ t.size # 0
  BY Standing
<1>4. e.key \in Keys
  BY <1>3 DEF Entry
<1>5. SoundChain(Chain(t, e.key), t.size, Slot(e.key, t))
  BY <1>3, <1>4, ChainOf
<1>6. i = j
  BY <1>1, <1>2, <1>5 DEF SoundChain
<1> QED
  BY <1>1, <1>2, <1>6

LEMMA SomeEntry ==
  ASSUME NEW c \in Seq(Entry), c # <<>>
  PROVE  1 \in DOMAIN c /\ DOMAIN c = 1..Len(c) /\ Len(c) \in Nat \ {0}
  OBVIOUS

(* A counter of 0 is an empty table.                                       *)
LEMMA Nothing ==
  ASSUME NEW t, SoundTable(t)
  PROVE  /\ t.used = 0 => Entries(t) = {} /\ \A b \in 0..(t.size - 1) : t.table[b] = <<>>
         /\ Entries(t) = {} => t.used = 0
         /\ t.size = 0 => t.used = 0
<1>1. /\ t.size \in Nat /\ t.table \in [0..(t.size - 1) -> Seq(Entry)]
      /\ IsFiniteSet(Places(t)) /\ t.used = Cardinality(Places(t))
  BY DEF SoundTable
<1>2. t.used = 0 <=> Places(t) = {}
  BY <1>1, FS_EmptySet
<1>3. Places(t) = {} <=> \A b \in 0..(t.size - 1) : t.table[b] = <<>>
  <2>1. ASSUME NEW b \in 0..(t.size - 1), t.table[b] # <<>>
        PROVE  Places(t) # {}
    <3>1. b \in Buckets(t) /\ 1 \in DOMAIN t.table[b]
      BY <1>1, <2>1, SomeEntry DEF Buckets
    <3>2. <<b, 1>> \in Places(t)
      BY <3>1 DEF Places
    <3> QED
      BY <3>2
  <2>2. ASSUME \A b \in 0..(t.size - 1) : t.table[b] = <<>>
        PROVE  Places(t) = {}
    BY <1>1, <2>2 DEF Places, Buckets
  <2> QED
    BY <2>1, <2>2
<1>5. Entries(t) = {} <=> \A b \in 0..(t.size - 1) : t.table[b] = <<>>
  <2>1. ASSUME NEW b \in 0..(t.size - 1), t.table[b] # <<>>
        PROVE  Entries(t) # {}
    <3>1. b \in Buckets(t) /\ 1 \in DOMAIN t.table[b]
      BY <1>1, <2>1, SomeEntry DEF Buckets
    <3>2. t.table[b][1] \in Range(t.table[b])
      BY <3>1 DEF Range
    <3>3. t.table[b][1] \in Entries(t)
      BY <3>1, <3>2 DEF Entries
    <3> QED
      BY <3>3
  <2>2. ASSUME \A b \in 0..(t.size - 1) : t.table[b] = <<>>
        PROVE  Entries(t) = {}
    BY <1>1, <2>2 DEF Entries, Range, Buckets
  <2> QED
    BY <2>1, <2>2
<1>6. t.size = 0 => 0..(t.size - 1) = {}
  OBVIOUS
<1> QED
  BY <1>2, <1>3, <1>5, <1>6

LEMMA EmptyTable ==
  ASSUME NEW n \in Nat
  PROVE  SoundTable(Table(n)) /\ Entries(Table(n)) = {} /\ Table(n).size = n /\ Table(n).used = 0
<1> DEFINE t == Table(n)
<1>1. /\ t = [size |-> t.size, used |-> t.used, table |-> t.table]
      /\ t.size = n /\ t.used = 0 /\ t.table = [i \in 0..(n - 1) |-> <<>>]
  BY DEF Table
<1> HIDE DEF t
<1>2. \A b \in 0..(n - 1) : t.table[b] = <<>>
  BY <1>1
<1>3. t.table \in [0..(n - 1) -> Seq(Entry)]
  BY <1>1
<1>4. \A b \in 0..(n - 1) : SoundChain(t.table[b], n, b)
  <2>1. <<>> \in Seq(Entry) /\ DOMAIN <<>> = {}
    OBVIOUS
  <2>2. \A b : SoundChain(<<>>, n, b)
    BY <2>1, Zenon DEF SoundChain
  <2> QED
    BY <1>2, <2>2
<1>5. Places(t) = {}
  BY <1>2, <1>3 DEF Places, Buckets
<1>6. Entries(t) = {}
  BY <1>2, <1>3 DEF Entries, Buckets, Range
<1>7. SoundTable(t)
  BY <1>1, <1>3, <1>4, <1>5, FS_EmptySet DEF SoundTable
<1> QED
  BY <1>1, <1>6, <1>7 DEF t

-----------------------------------------------------------------------------
(* The ways a chain changes.                                               *)
LEMMA Pushed ==
  ASSUME NEW t, SoundTable(t), t.size # 0, NEW e \in Entry, e.key \notin KeysIn(t)
  PROVE  LET n == Push(t, e) IN
         /\ SoundTable(n) /\ n.size = t.size /\ n.used = t.used + 1
         /\ Entries(n) = Entries(t) \cup {e}
<1> DEFINE b == Slot(e.key, t)
           c == Chain(t, e.key)
           h == <<e>> \o c
<1>1. e.key \in Keys
  BY DEF Entry
<1>2. /\ b \in 0..(t.size - 1) /\ SoundChain(c, t.size, b) /\ c = t.table[b]
      /\ c \in Seq(Entry) /\ Range(c) \subseteq Entries(t)
  BY <1>1, ChainOf
<1>3. t.used \in Nat
  BY DEF SoundTable
<1>4. Push(t, e) = WithChain(t, b, h, t.used + 1)
  BY DEF Push
<1>5. Hash[e.key] % t.size = b
  BY DEF Slot
<1> HIDE DEF b, c
<1>6. /\ h \in Seq(Entry) /\ Len(h) = Len(c) + 1 /\ h[1] = e /\ Len(c) \in Nat
      /\ \A i \in DOMAIN h : i = 1 \/ (i - 1 \in DOMAIN c /\ h[i] = c[i - 1])
      /\ \A i \in DOMAIN c : i + 1 \in DOMAIN h /\ h[i + 1] = c[i]
      /\ 1 \in DOMAIN h
  <2>1. c \in Seq(Entry) /\ Len(c) \in Nat /\ DOMAIN c = 1..Len(c)
    BY <1>2
  <2>2. /\ h \in Seq(Entry) /\ Len(h) = Len(c) + 1 /\ DOMAIN h = 1..Len(h)
        /\ h[1] = e /\ \A i \in 2..(Len(c) + 1) : h[i] = c[i - 1]
    BY <2>1
  <2> HIDE DEF h
  <2> QED
    BY <2>1, <2>2
<1>7. \A i \in DOMAIN c : c[i].key # e.key
  <2>1. ASSUME NEW i \in DOMAIN c
        PROVE  c[i].key # e.key
    <3>1. c[i] \in Entries(t)
      BY <1>2 DEF Range
    <3>2. c[i].key \in KeysIn(t)
      BY <3>1 DEF KeysIn
    <3> QED
      BY <3>2
  <2> QED
    BY <2>1
<1> HIDE DEF h
<1>8. SoundChain(h, t.size, b)
  <2>1. ASSUME NEW i \in DOMAIN h
        PROVE  Hash[h[i].key] % t.size = b
    <3>1. CASE i = 1
      <4>1. h[i] = e
        BY <1>6, <3>1
      <4> QED
        BY <1>5, <4>1
    <3>2. CASE i - 1 \in DOMAIN c /\ h[i] = c[i - 1]
      BY <1>2, <3>2 DEF SoundChain
    <3> QED
      BY <1>6, <3>1, <3>2
  <2>2. ASSUME NEW i \in DOMAIN h, NEW j \in DOMAIN h, h[i].key = h[j].key
        PROVE  i = j
    <3>1. i \in Nat /\ j \in Nat
      BY <1>6
    <3>2. CASE i = 1 \/ j = 1
      BY <1>6, <1>7, <2>2, <3>1, <3>2
    <3>3. CASE i # 1 /\ j # 1
      <4>1. i - 1 \in DOMAIN c /\ j - 1 \in DOMAIN c /\ h[i] = c[i - 1] /\ h[j] = c[j - 1]
        BY <1>6, <3>3
      <4>2. c[i - 1].key = c[j - 1].key
        BY <2>2, <4>1
      <4>3. i - 1 = j - 1
        BY <1>2, <4>1, <4>2 DEF SoundChain
      <4> QED
        BY <3>1, <4>3
    <3> QED
      BY <3>2, <3>3
  <2> QED
    BY <1>6, <2>1, <2>2 DEF SoundChain
<1>9. Range(h) = Range(c) \cup {e}
  <2>1. ASSUME NEW x \in Range(h)
        PROVE  x \in Range(c) \cup {e}
    BY <1>6 DEF Range
  <2>2. ASSUME NEW x \in Range(c)
        PROVE  x \in Range(h)
    BY <1>6 DEF Range
  <2>3. e \in Range(h)
    BY <1>6 DEF Range
  <2> QED
    BY <2>1, <2>2, <2>3
<1> DEFINE u == t.used + 1
<1>10. u = t.used + Len(h) - Len(t.table[b])
  <2>1. Len(h) = Len(c) + 1 /\ Len(c) \in Nat /\ t.table[b] = c
    BY <1>2, <1>6
  <2> QED
    BY <1>3, <2>1
<1> HIDE DEF u
<1>11. LET n == WithChain(t, b, h, u) IN
       /\ SoundTable(n) /\ n.size = t.size /\ n.used = u
       /\ Entries(n) = (Entries(t) \ Range(t.table[b])) \cup Range(h)
  BY <1>2, <1>8, <1>10, OneChain
<1>12. (Entries(t) \ Range(c)) \cup Range(h) = Entries(t) \cup {e}
  BY <1>2, <1>9
<1> QED
  BY <1>2, <1>4, <1>11, <1>12 DEF u

LEMMA Emptied ==
  ASSUME NEW t, SoundTable(t), NEW b \in 0..(t.size - 1)
  PROVE  LET n == WithChain(t, b, <<>>, t.used - Len(t.table[b])) IN
         /\ SoundTable(n) /\ n.size = t.size /\ n.used = t.used - Len(t.table[b])
         /\ Entries(n) = Entries(t) \ Range(t.table[b])
<1> DEFINE u == t.used - Len(t.table[b])
           c == <<>>
<1>1. t.used \in Nat /\ Len(t.table[b]) \in Nat
  BY DEF SoundTable
<1>2. SoundChain(c, t.size, b) /\ Len(c) = 0 /\ Range(c) = {}
  BY DEF SoundChain, Range
<1> HIDE DEF c
<1>3. u = t.used + Len(c) - Len(t.table[b])
  BY <1>1, <1>2
<1> HIDE DEF u
<1>4. LET n == WithChain(t, b, c, u) IN
       /\ SoundTable(n) /\ n.size = t.size /\ n.used = u
       /\ Entries(n) = (Entries(t) \ Range(t.table[b])) \cup Range(c)
  <2>1. SoundChain(c, t.size, b)
    BY <1>2
  <2> QED
    BY <1>3, <2>1, OneChain
<1> DEFINE m == WithChain(t, b, c, u)
<1>5. SoundTable(m) /\ m.size = t.size /\ m.used = u /\ Entries(m) = Entries(t) \ Range(t.table[b])
  <2>1. /\ SoundTable(m) /\ m.size = t.size /\ m.used = u
        /\ Entries(m) = (Entries(t) \ Range(t.table[b])) \cup Range(c)
    BY <1>4
  <2> HIDE DEF m
  <2> QED
    BY <1>2, <2>1
<1> QED
  BY <1>5, Zenon DEF m, u, c

NewVal(t, k, p, v) == [Chain(t, k) EXCEPT ![p] = [key |-> k, val |-> v]]

LEMMA Revalued ==
  ASSUME NEW t, SoundTable(t), t.size # 0, NEW k \in Keys, NEW v \in Vals,
         NEW p \in DOMAIN Chain(t, k), Chain(t, k)[p].key = k
  PROVE  LET n == WithChain(t, Slot(k, t), NewVal(t, k, p, v), t.used) IN
         /\ SoundTable(n) /\ n.size = t.size /\ n.used = t.used
         /\ Entries(n) = {x \in Entries(t) : x.key # k} \cup {[key |-> k, val |-> v]}
<1> DEFINE b == Slot(k, t)
           c == Chain(t, k)
           e == [key |-> k, val |-> v]
           h == [c EXCEPT ![p] = e]
           u == t.used
<1>1. /\ b \in 0..(t.size - 1) /\ SoundChain(c, t.size, b) /\ c = t.table[b]
      /\ c \in Seq(Entry) /\ Range(c) \subseteq Entries(t)
  BY ChainOf
<1>2. e \in Entry /\ e.key = k
  BY DEF Entry
<1> HIDE DEF b, e
<1>3. p \in DOMAIN c /\ c[p].key = k
  OBVIOUS
<1> HIDE DEF c
<1>4. /\ h \in Seq(Entry) /\ Len(h) = Len(c) /\ h[p] = e /\ DOMAIN h = DOMAIN c
      /\ \A i \in DOMAIN c : i # p => h[i] = c[i]
  BY <1>1, <1>2, <1>3
<1> HIDE DEF h
<1>5. \A i \in DOMAIN c : h[i].key = c[i].key
  BY <1>2, <1>3, <1>4
<1>6. SoundChain(h, t.size, b)
  BY <1>1, <1>4, <1>5 DEF SoundChain
<1>7. u = t.used + Len(h) - Len(t.table[b])
  <2>1. Len(h) = Len(c) /\ Len(c) \in Nat /\ t.table[b] = c /\ t.used \in Nat
    BY <1>1, <1>4 DEF SoundTable
  <2> QED
    BY <2>1
<1> HIDE DEF u
<1>8. LET n == WithChain(t, b, h, u) IN
       /\ SoundTable(n) /\ n.size = t.size /\ n.used = u
       /\ Entries(n) = (Entries(t) \ Range(t.table[b])) \cup Range(h)
  BY <1>1, <1>6, <1>7, OneChain
<1>9. (Entries(t) \ Range(c)) \cup Range(h) = {x \in Entries(t) : x.key # k} \cup {e}
  <2>1. c[p] \in Range(c) /\ c[p] \in Entries(t)
    BY <1>1, <1>3 DEF Range
  <2>2. \A x \in Entries(t) : x.key = k => x = c[p]
    BY <1>3, <2>1, OneOfKey
  <2>3. \A x \in Range(h) : x = e \/ (x \in Range(c) /\ x # c[p])
    <3>1. \A i, j \in DOMAIN c : c[i].key = c[j].key => i = j
      BY <1>1 DEF SoundChain
    <3>2. \A i \in DOMAIN c : i # p => c[i] # c[p]
      BY <1>3, <3>1
    <3> QED
      BY <1>4, <3>2 DEF Range
  <2>4. \A x \in Range(c) : x = c[p] \/ x \in Range(h)
    BY <1>4 DEF Range
  <2>5. e \in Range(h)
    BY <1>3, <1>4 DEF Range
  <2>6. \A x \in Range(c) : x \in Entries(t)
    BY <1>1
  <2>7. ASSUME NEW x \in Range(h)
        PROVE  x \in {y \in Entries(t) : y.key # k} \cup {e}
    BY <2>1, <2>2, <2>3, <2>6, OneOfKey
  <2>8. ASSUME NEW x \in Entries(t), x \notin Range(c)
        PROVE  x.key # k
    BY <2>1, <2>2, <2>8
  <2>9. ASSUME NEW x \in Entries(t), x.key # k
        PROVE  x \in (Entries(t) \ Range(c)) \cup Range(h)
    BY <1>3, <2>4, <2>9
  <2> QED
    BY <2>5, <2>7, <2>8, <2>9
<1> QED
  BY <1>1, <1>8, <1>9 DEF b, c, e, h, u, NewVal

LEMMA Unlinked ==
  ASSUME NEW t, SoundTable(t), t.size # 0, NEW k \in Keys,
         NEW p \in DOMAIN Chain(t, k), Chain(t, k)[p].key = k
  PROVE  LET n == WithChain(t, Slot(k, t), RemoveAt(Chain(t, k), p), t.used - 1) IN
         /\ SoundTable(n) /\ n.size = t.size /\ n.used = t.used - 1
         /\ Entries(n) = {x \in Entries(t) : x.key # k}
<1> DEFINE b == Slot(k, t)
           c == Chain(t, k)
           h == RemoveAt(c, p)
           u == t.used - 1
<1>1. /\ b \in 0..(t.size - 1) /\ SoundChain(c, t.size, b) /\ c = t.table[b]
      /\ c \in Seq(Entry) /\ Range(c) \subseteq Entries(t)
  BY ChainOf
<1> HIDE DEF b
<1>2. p \in DOMAIN c /\ c[p].key = k
  OBVIOUS
<1> HIDE DEF c
<1>3. /\ h \in Seq(Entry)
      /\ \A i \in DOMAIN h :
           \/ i < p /\ i \in DOMAIN c /\ h[i] = c[i]
           \/ i >= p /\ i \in Int /\ i + 1 \in DOMAIN c /\ h[i] = c[i + 1]
      /\ \A i \in DOMAIN c :
           \/ i = p
           \/ i < p /\ i \in DOMAIN h /\ h[i] = c[i]
           \/ i > p /\ i - 1 \in DOMAIN h /\ h[i - 1] = c[i]
  <2>1. c \in Seq(Entry) /\ p \in DOMAIN c
    BY <1>1, <1>2
  <2> QED
    BY <2>1, Removed
<1>4. Len(h) = Len(c) - 1
  <2>1. p \in 1..Len(c) /\ Len(c) \in Nat
    BY <1>1, <1>2
  <2>2. SubSeq(c, 1, p - 1) \in Seq(Entry) /\ Len(SubSeq(c, 1, p - 1)) = p - 1
    BY <1>1, <2>1
  <2>3. SubSeq(c, p + 1, Len(c)) \in Seq(Entry) /\ Len(SubSeq(c, p + 1, Len(c))) = Len(c) - p
    BY <1>1, <2>1
  <2>4. Len(h) = Len(SubSeq(c, 1, p - 1)) + Len(SubSeq(c, p + 1, Len(c)))
    BY <2>2, <2>3 DEF RemoveAt
  <2>5. Len(h) = (p - 1) + (Len(c) - p)
    BY <2>2, <2>3, <2>4, Zenon
  <2> HIDE DEF h
  <2>6. \A l, q \in Nat : (q - 1) + (l - q) = l - 1
    OBVIOUS
  <2>7. p \in Nat
    BY <2>1
  <2> QED
    BY <2>1, <2>5, <2>6, <2>7, Zenon
<1> HIDE DEF h
<1>5. DOMAIN c = 1..Len(c) /\ Len(c) \in Nat /\ p \in Nat /\ DOMAIN h = 1..Len(h) /\ Len(h) \in Nat
  BY <1>1, <1>2, <1>3
<1>6. SoundChain(h, t.size, b)
  <2>1. \A i \in DOMAIN h : Hash[h[i].key] % t.size = b
    BY <1>1, <1>3 DEF SoundChain
  <2>2. ASSUME NEW i \in DOMAIN h, NEW j \in DOMAIN h, h[i].key = h[j].key
        PROVE  i = j
    <3> DEFINE at(x) == IF x < p THEN x ELSE x + 1
    <3>1. \A x \in DOMAIN h : at(x) \in DOMAIN c /\ h[x] = c[at(x)]
      BY <1>3, <1>5
    <3>2. c[at(i)].key = c[at(j)].key /\ at(i) \in DOMAIN c /\ at(j) \in DOMAIN c
      BY <2>2, <3>1
    <3>3. at(i) = at(j)
      <4> HIDE DEF at
      <4> QED
        BY <1>1, <3>2 DEF SoundChain
    <3>4. i \in Nat /\ j \in Nat
      BY <1>5
    <3> QED
      BY <1>5, <3>3, <3>4
  <2> QED
    BY <1>3, <2>1, <2>2 DEF SoundChain
<1>7. u = t.used + Len(h) - Len(t.table[b])
  <2>1. Len(h) = Len(c) - 1 /\ Len(c) \in Nat /\ t.table[b] = c /\ t.used \in Nat
    BY <1>1, <1>4, <1>5 DEF SoundTable
  <2> QED
    BY <2>1
<1> HIDE DEF u
<1>8. LET n == WithChain(t, b, h, u) IN
       /\ SoundTable(n) /\ n.size = t.size /\ n.used = u
       /\ Entries(n) = (Entries(t) \ Range(t.table[b])) \cup Range(h)
  BY <1>1, <1>6, <1>7, OneChain
<1>9. (Entries(t) \ Range(c)) \cup Range(h) = {x \in Entries(t) : x.key # k}
  <2>1. c[p] \in Range(c) /\ c[p] \in Entries(t)
    BY <1>1, <1>2 DEF Range
  <2>2. \A x \in Entries(t) : x.key = k => x = c[p]
    BY <1>2, <2>1, OneOfKey
  <2>3. \A x \in Range(h) : x \in Range(c) /\ x # c[p]
    <3>1. \A i, j \in DOMAIN c : c[i].key = c[j].key => i = j
      BY <1>1 DEF SoundChain
    <3>2. \A i \in DOMAIN c : i # p => c[i] # c[p]
      BY <1>2, <3>1
    <3>3. ASSUME NEW i \in DOMAIN h
          PROVE  h[i] \in Range(c) /\ h[i] # c[p]
      <4>1. CASE i < p /\ i \in DOMAIN c /\ h[i] = c[i]
        <5>1. i # p
          BY <1>5, <4>1
        <5> QED
          BY <3>2, <4>1, <5>1 DEF Range
      <4>2. CASE i >= p /\ i \in Int /\ i + 1 \in DOMAIN c /\ h[i] = c[i + 1]
        <5>1. i + 1 # p
          BY <1>5, <4>2
        <5> QED
          BY <3>2, <4>2, <5>1 DEF Range
      <4> QED
        BY <1>3, <4>1, <4>2
    <3> QED
      BY <3>3 DEF Range
  <2>4. \A x \in Range(c) : x = c[p] \/ x \in Range(h)
    BY <1>3 DEF Range
  <2>6. \A x \in Range(c) : x \in Entries(t)
    BY <1>1
  <2>7. ASSUME NEW x \in Range(h)
        PROVE  x \in Entries(t) /\ x.key # k
    BY <2>2, <2>3, <2>6, <2>7
  <2>8. ASSUME NEW x \in Entries(t), x \notin Range(c)
        PROVE  x.key # k
    BY <2>1, <2>2, <2>8
  <2>9. ASSUME NEW x \in Entries(t), x.key # k
        PROVE  x \in (Entries(t) \ Range(c)) \cup Range(h)
    BY <1>2, <2>4, <2>9
  <2> QED
    BY <2>7, <2>8, <2>9
<1> QED
  BY <1>1, <1>8, <1>9 DEF b, c, h, u

-----------------------------------------------------------------------------
(* A chain is received entry by entry.                                     *)
Shaped(n) == [size : {n}, used : Nat, table : [0..(n - 1) -> Seq(Entry)]]

LEMMA PushShaped ==
  ASSUME NEW n \in Nat, n # 0, NEW x \in Shaped(n), NEW e \in Entry
  PROVE  Push(x, e) \in Shaped(n)
<1>1. e.key \in Keys /\ x.size = n /\ x.used + 1 \in Nat /\ x.table \in [0..(n - 1) -> Seq(Entry)]
  <2>1. e.key \in Keys
    BY DEF Entry
  <2>2. x.size = n /\ x.used \in Nat /\ x.table \in [0..(n - 1) -> Seq(Entry)]
    BY DEF Shaped
  <2> QED
    BY <2>1, <2>2
<1>2. Slot(e.key, x) \in 0..(n - 1)
  BY <1>1, SlotIn DEF Slot
<1>3. <<e>> \o Chain(x, e.key) \in Seq(Entry)
  BY <1>1, <1>2 DEF Chain
<1>4. [x.table EXCEPT ![Slot(e.key, x)] = <<e>> \o Chain(x, e.key)] \in [0..(n - 1) -> Seq(Entry)]
  BY <1>1, <1>2, <1>3
<1> QED
  BY <1>1, <1>4 DEF Push, WithChain, Shaped

LEMMA SoundShaped ==
  ASSUME NEW t, SoundTable(t)
  PROVE  t \in Shaped(t.size)
  BY DEF SoundTable, Shaped

LEMMA ReceiveSteps ==
  ASSUME NEW t, SoundTable(t), t.size # 0, NEW c \in Seq(Entry)
  PROVE  \E to : /\ Receive(t, c) = to[Len(c)] /\ to[0] = t
                 /\ \A i \in 1..Len(c) : to[i] = Push(to[i - 1], c[i])
<1> DEFINE m == Len(c)
           V == Shaped(t.size)
           g == [p \in (1..m) \X V |-> Push(p[2], c[p[1]])]
           Body(f, i) == IF i = 0 THEN t ELSE Push(f[i - 1], c[i])
           Good(f) == f = [i \in 0..m |-> Body(f, i)]
           F == CHOOSE f : Good(f)
<1>1. m \in Nat /\ t \in V /\ t.size \in Nat /\ \A i \in 1..m : c[i] \in Entry
  BY SoundShaped DEF SoundTable
<1>2. g \in [(1..m) \X V -> V]
  <2>1. ASSUME NEW p \in (1..m) \X V
        PROVE  Push(p[2], c[p[1]]) \in V
    <3>1. p[2] \in V /\ c[p[1]] \in Entry
      BY <1>1
    <3> QED
      BY <1>1, <3>1, PushShaped
  <2> HIDE DEF m, V
  <2> QED
    BY <2>1
<1>3. PICK h \in [0..m -> V] : h[0] = t /\ \A i \in 1..m : h[i] = g[<<i, h[i - 1]>>]
  <2>1. m \in Nat /\ t \in V
    BY <1>1
  <2> HIDE DEF m, V, g
  <2>2. \E h : StartsAtZero(h, m, V, t, g)
    BY <1>2, <2>1, RecursionFromZero
  <2> QED
    BY <2>2 DEF StartsAtZero
<1>4. Good(h)
  <2>1. ASSUME NEW i \in 0..m
        PROVE  h[i] = Body(h, i)
    <3>1. CASE i = 0
      BY <1>3, <3>1
    <3>2. CASE i # 0
      <4>1. i \in 1..m /\ i - 1 \in 0..m
        BY <1>1, <3>2
      <4>2. h[i - 1] \in V
        BY <1>3, <4>1
      <4>3. h[i] = g[<<i, h[i - 1]>>] /\ <<i, h[i - 1]>> \in (1..m) \X V
        BY <1>3, <4>1, <4>2
      <4>4. g[<<i, h[i - 1]>>] = Push(h[i - 1], c[i])
        <5> HIDE DEF m, V
        <5> QED
          BY <4>3
      <4> QED
        BY <3>2, <4>3, <4>4
    <3> QED
      BY <3>1, <3>2
  <2> HIDE DEF Body, V, g
  <2> QED
    BY <1>3, <2>1
<1>5. Good(F)
  <2> HIDE DEF Good
  <2> QED
    BY <1>4
<1>6. Receive(t, c) = F[m]
  BY DEF Receive
<1> HIDE DEF F
<1>7. \A i \in 0..m : F[i] = Body(F, i)
  <2> HIDE DEF Body
  <2> QED
    BY <1>5
<1>8. F[0] = t
  BY <1>1, <1>7
<1>9. \A i \in 1..m : F[i] = Push(F[i - 1], c[i])
  <2>1. ASSUME NEW i \in 1..m
        PROVE  F[i] = Push(F[i - 1], c[i])
    <3>1. i \in 0..m /\ i # 0
      OBVIOUS
    <3>2. F[i] = Body(F, i)
      BY <1>7, <3>1
    <3> QED
      BY <3>1, <3>2
  <2> QED
    BY <2>1
<1> QED
  BY <1>6, <1>8, <1>9

LEMMA Received ==
  ASSUME NEW t, SoundTable(t), t.size # 0, NEW c \in Seq(Entry),
         \A i, j \in DOMAIN c : c[i].key = c[j].key => i = j,
         \A i \in DOMAIN c : c[i].key \notin KeysIn(t)
  PROVE  LET n == Receive(t, c) IN
         /\ SoundTable(n) /\ n.size = t.size /\ n.used = t.used + Len(c)
         /\ Entries(n) = Entries(t) \cup Range(c)
<1> DEFINE m == Len(c)
           first(i) == {c[j] : j \in 1..i}
<1>1. PICK to : /\ Receive(t, c) = to[m] /\ to[0] = t
                /\ \A i \in 1..m : to[i] = Push(to[i - 1], c[i])
  BY ReceiveSteps
<1> DEFINE Got(i) == /\ SoundTable(to[i]) /\ to[i].size = t.size /\ to[i].used = t.used + i
                     /\ Entries(to[i]) = Entries(t) \cup first(i)
           S == {i \in 0..m : Got(i)}
<1>2. m \in Nat /\ DOMAIN c = 1..m /\ t.used \in Nat /\ \A i \in 1..m : c[i] \in Entry
  BY DEF SoundTable
<1>3. 0 \in S
  BY <1>1, <1>2
<1>4. ASSUME NEW i \in 0..(m - 1), i \in S
      PROVE  i + 1 \in S
  <2>1. i + 1 \in 1..m /\ (i + 1) - 1 = i /\ i + 1 \in 0..m /\ i \in Nat
    BY <1>2
  <2>2. to[i + 1] = Push(to[i], c[i + 1])
    BY <1>1, <2>1
  <2>3. Got(i)
    BY <1>4
  <2>4. c[i + 1] \in Entry /\ c[i + 1].key \notin KeysIn(t)
    BY <1>2, <2>1
  <2>5. \A j \in 1..i : c[j].key # c[i + 1].key
    BY <1>2, <2>1
  <2>6. c[i + 1].key \notin KeysIn(to[i])
    <3>1. SUFFICES ASSUME NEW e \in Entries(to[i]), e.key = c[i + 1].key
                   PROVE  FALSE
      BY DEF KeysIn
    <3>2. e \in Entries(t) \/ e \in first(i)
      BY <2>3
    <3>3. e \notin Entries(t)
      BY <2>4, <3>1 DEF KeysIn
    <3> QED
      BY <2>5, <3>1, <3>2, <3>3
  <2> HIDE DEF first
  <2>7. /\ SoundTable(to[i + 1]) /\ to[i + 1].size = t.size /\ to[i + 1].used = to[i].used + 1
        /\ Entries(to[i + 1]) = Entries(to[i]) \cup {c[i + 1]}
    BY <2>2, <2>3, <2>4, <2>6, Pushed
  <2>8. first(i + 1) = first(i) \cup {c[i + 1]}
    <3>1. 1..(i + 1) = (1..i) \cup {i + 1}
      BY <2>1
    <3> QED
      BY <3>1 DEF first
  <2>9. to[i + 1].used = t.used + (i + 1)
    <3>1. to[i + 1].used = (t.used + i) + 1
      BY <2>3, <2>7
    <3>2. \A x, y \in Nat : (x + y) + 1 = x + (y + 1)
      OBVIOUS
    <3>3. t.used \in Nat /\ i \in Nat
      BY <1>2, <2>1
    <3> QED
      BY <3>1, <3>2, <3>3
  <2>10. Entries(to[i + 1]) = Entries(t) \cup first(i + 1)
    BY <2>3, <2>7, <2>8
  <2>11. Got(i + 1)
    BY <2>7, <2>9, <2>10
  <2> HIDE DEF Got
  <2> QED
    BY <2>1, <2>11
<1>5. m \in S
  <2> HIDE DEF S, m
  <2>1. 0..m \subseteq S
    BY <1>2, <1>3, <1>4, Induction
  <2> QED
    BY <1>2, <2>1
<1>6. first(m) = Range(c)
  BY <1>2 DEF Range
<1>7. Got(m)
  BY <1>5
<1> QED
  BY <1>1, <1>6, <1>7

-----------------------------------------------------------------------------
(* The size of the next table.                                             *)
Doubled(power, n) ==
  power[0] = InitialSize /\ \A i \in 1..n : power[i] = 2 * power[i - 1]

LEMMA NextPowerSteps ==
  ASSUME NEW n \in Nat
  PROVE  \E power : /\ Doubled(power, n)
                    /\ NextPower(n) = Min({p \in {power[i] : i \in 0..n} : p >= n})
<1> DEFINE V == Nat
           a == InitialSize
           g == [p \in (1..n) \X V |-> 2 * p[2]]
           Body(f, i) == IF i = 0 THEN InitialSize ELSE 2 * f[i - 1]
           Good(f) == f = [i \in 0..n |-> Body(f, i)]
           F == CHOOSE f : Good(f)
<1>1. a \in V /\ g \in [(1..n) \X V -> V]
  <2>1. \A p \in (1..n) \X V : 2 * p[2] \in V
    OBVIOUS
  <2> QED
    BY <2>1, DictTableAssumption
<1>2. PICK h : StartsAtZero(h, n, V, a, g)
  <2> HIDE DEF V, a, g
  <2> QED
    BY <1>1, RecursionFromZero
<1>3. h \in [0..n -> V] /\ h[0] = a /\ \A i \in 1..n : h[i] = g[<<i, h[i - 1]>>]
  BY <1>2 DEF StartsAtZero
<1>4. Good(h)
  <2>1. ASSUME NEW i \in 0..n
        PROVE  h[i] = Body(h, i)
    <3>1. CASE i = 0
      BY <1>3, <3>1
    <3>2. CASE i # 0
      <4>1. i \in 1..n /\ i - 1 \in 0..n
        BY <3>2
      <4>2. h[i - 1] \in V
        BY <1>3, <4>1
      <4>3. h[i] = g[<<i, h[i - 1]>>] /\ <<i, h[i - 1]>> \in (1..n) \X V
        BY <1>3, <4>1, <4>2
      <4>4. g[<<i, h[i - 1]>>] = 2 * h[i - 1]
        BY <4>3
      <4> QED
        BY <3>2, <4>3, <4>4
    <3> QED
      BY <3>1, <3>2
  <2> HIDE DEF Body, V, g
  <2> QED
    BY <1>3, <2>1
<1>5. Good(F)
  <2> HIDE DEF Good
  <2> QED
    BY <1>4
<1>6. NextPower(n) = Min({p \in {F[i] : i \in 0..n} : p >= n})
  BY DEF NextPower
<1> HIDE DEF F
<1>7. \A i \in 0..n : F[i] = Body(F, i)
  <2> HIDE DEF Body
  <2> QED
    BY <1>5
<1>8. F[0] = InitialSize
  BY <1>7
<1>9. \A i \in 1..n : F[i] = 2 * F[i - 1]
  <2>1. ASSUME NEW i \in 1..n
        PROVE  F[i] = 2 * F[i - 1]
    <3>1. i \in 0..n /\ i # 0
      OBVIOUS
    <3>2. F[i] = Body(F, i)
      BY <1>7, <3>1
    <3> QED
      BY <3>1, <3>2
  <2> QED
    BY <2>1
<1> QED
  BY <1>6, <1>8, <1>9 DEF Doubled

LEMMA NextPowerIs ==
  ASSUME NEW n \in Nat
  PROVE  NextPower(n) \in Nat \ {0} /\ NextPower(n) >= n
<1>1. PICK power : /\ Doubled(power, n)
                   /\ NextPower(n) = Min({p \in {power[i] : i \in 0..n} : p >= n})
  BY NextPowerSteps
<1> DEFINE S == {i \in 0..n : power[i] \in Nat /\ power[i] > i}
<1>2. 0 \in S
  BY <1>1, DictTableAssumption DEF Doubled
<1>3. ASSUME NEW i \in 0..(n - 1), i \in S
      PROVE  i + 1 \in S
  <2>1. i + 1 \in 1..n /\ (i + 1) - 1 = i /\ i + 1 \in 0..n
    OBVIOUS
  <2>2. power[i + 1] = 2 * power[i]
    BY <1>1, <2>1 DEF Doubled
  <2>3. PICK x \in Nat : x = power[i] /\ x > i
    BY <1>3
  <2>4. 2 * x \in Nat /\ 2 * x > i + 1
    BY <2>3
  <2> QED
    BY <2>1, <2>2, <2>3, <2>4
<1>4. \A i \in 0..n : power[i] \in Nat /\ power[i] > i
  <2>1. 0..n \subseteq S
    <3> HIDE DEF S
    <3> QED
      BY <1>2, <1>3, Induction
  <2> QED
    BY <2>1
<1> DEFINE P == {p \in {power[i] : i \in 0..n} : p >= n}
<1>5. P \subseteq Nat \ {0}
  BY <1>4
<1>6. P # {}
  <2>1. n \in 0..n
    OBVIOUS
  <2>2. power[n] \in Nat /\ power[n] > n
    BY <1>4, <2>1
  <2> QED
    BY <2>1, <2>2
<1>7. \A p \in P : p >= n
  OBVIOUS
<1>8. NextPower(n) = Min(P)
  BY <1>1
<1> HIDE DEF P
<1>9. \E x \in P : \A y \in P : x <= y
  <2>1. P \subseteq Nat
    BY <1>5
  <2> QED
    BY <1>6, <2>1, LeastNatural
<1>10. Min(P) \in P
  BY <1>9 DEF Min
<1> QED
  BY <1>5, <1>7, <1>8, <1>10

-----------------------------------------------------------------------------
(* Both tables.                                                            *)
Content(d) == Entries(d.ht[0]) \cup Entries(d.ht[1])

(* A dictionary between two operations, and what more holds of the table   *)
(* that is left while the entries move.                                    *)
Moving(d) ==
  /\ d.ht[0].size # 0 /\ d.ht[1].size # 0 /\ d.ht[1].size # d.ht[0].size
  /\ d.rehashidx \in 0..d.ht[0].size
  /\ \A b \in 0..(d.ht[0].size - 1) : b < d.rehashidx => d.ht[0].table[b] = <<>>

SoundDict(d) ==
  /\ d = Dictionary(Tables(d.ht[0], d.ht[1]), d.rehashidx, d.iterators)
  /\ d.iterators \in Nat
  /\ SoundTable(d.ht[0]) /\ SoundTable(d.ht[1])
  /\ KeysIn(d.ht[0]) \cap KeysIn(d.ht[1]) = {}
  /\ IF IsRehashing(d) THEN Moving(d) ELSE d.ht[1] = NoTable

Built(r, a, b, x, n) ==
  /\ r.ht[0] = a /\ r.ht[1] = b /\ r.rehashidx = x /\ r.iterators = n
  /\ r = Dictionary(Tables(r.ht[0], r.ht[1]), r.rehashidx, r.iterators)

LEMMA Fields ==
  ASSUME NEW a, NEW b, NEW x, NEW n
  PROVE  Built(Dictionary(Tables(a, b), x, n), a, b, x, n)
<1> DEFINE r == Dictionary(Tables(a, b), x, n)
<1>1. 0 \in 0..1 /\ 1 \in 0..1 /\ 1 # 0
  OBVIOUS
<1>2. Tables(a, b)[0] = a /\ Tables(a, b)[1] = b
  BY <1>1 DEF Tables
<1>3. r.ht = Tables(a, b) /\ r.rehashidx = x /\ r.iterators = n
  BY DEF Dictionary
<1>4. r = Dictionary(Tables(r.ht[0], r.ht[1]), r.rehashidx, r.iterators)
  BY <1>2, <1>3
<1>5. r.ht[0] = a /\ r.ht[1] = b
  BY <1>2, <1>3
<1> HIDE DEF r
<1>6. Built(r, a, b, x, n)
  BY <1>3, <1>4, <1>5 DEF Built
<1> QED
  BY <1>6 DEF r

LEMMA NoTableIs ==
  SoundTable(NoTable) /\ Entries(NoTable) = {} /\ NoTable.size = 0 /\ NoTable.used = 0
  BY EmptyTable DEF NoTable

LEMMA NewDictSound ==
  SoundDict(NewDict) /\ Content(NewDict) = {} /\ NewDict.iterators = 0 /\ dictSize(NewDict) = 0
  /\ ~IsRehashing(NewDict)
<1>1. /\ NewDict.ht[0] = NoTable /\ NewDict.ht[1] = NoTable
      /\ NewDict.rehashidx = -1 /\ NewDict.iterators = 0
      /\ NewDict = Dictionary(Tables(NewDict.ht[0], NewDict.ht[1]), NewDict.rehashidx,
                              NewDict.iterators)
  BY Fields DEF NewDict, Built
<1>2. ~IsRehashing(NewDict)
  BY <1>1 DEF IsRehashing
<1>3. KeysIn(NoTable) = {}
  BY NoTableIs DEF KeysIn
<1>4. 0 \in Nat
  OBVIOUS
<1>5. SoundDict(NewDict)
  BY <1>1, <1>2, <1>3, <1>4, NoTableIs, Zenon DEF SoundDict
<1>6. Content(NewDict) = {}
  BY <1>1, NoTableIs DEF Content
<1>7. dictSize(NewDict) = 0
  BY <1>1, NoTableIs DEF dictSize
<1> QED
  BY <1>1, <1>2, <1>5, <1>6, <1>7

(* The two tables together have one entry for a key.                       *)
LEMMA OneInAll ==
  ASSUME NEW d, SoundDict(d), NEW e \in Content(d), NEW f \in Content(d), e.key = f.key
  PROVE  e = f /\ e \in Entry
<1>1. SoundTable(d.ht[0]) /\ SoundTable(d.ht[1]) /\ KeysIn(d.ht[0]) \cap KeysIn(d.ht[1]) = {}
  BY DEF SoundDict
<1>2. /\ e \in Entries(d.ht[0]) \/ e \in Entries(d.ht[1])
      /\ f \in Entries(d.ht[0]) \/ f \in Entries(d.ht[1])
  BY DEF Content
<1>3. ASSUME NEW x \in Entries(d.ht[0]), NEW y \in Entries(d.ht[1]), x.key = y.key
      PROVE  FALSE
  BY <1>1, <1>3 DEF KeysIn
<1>4. e \in Entry
  BY <1>1, <1>2, Standing
<1>5. e = f
  BY <1>1, <1>2, <1>3, OneOfKey
<1> QED
  BY <1>4, <1>5

-----------------------------------------------------------------------------
(* Another table is made ready, and the entries move to it.                *)
LEMMA ExpandedDict ==
  ASSUME NEW d, SoundDict(d), ~IsRehashing(d), NEW n \in Nat, NextPower(n) # d.ht[0].size
  PROVE  LET r == dictExpand(d, n) IN
         /\ SoundDict(r) /\ Content(r) = Content(d) /\ r.iterators = d.iterators
         /\ dictSize(r) = dictSize(d)
         /\ IF d.ht[0].size = 0 THEN r.ht[0].size = NextPower(n)
            ELSE IsRehashing(r) /\ r.ht[0] = d.ht[0]
<1> DEFINE m == NextPower(n)
           r == dictExpand(d, n)
           t == Table(m)
<1>1. m \in Nat /\ m # 0
  BY NextPowerIs
<1>2. /\ SoundTable(d.ht[0]) /\ d.ht[1] = NoTable /\ d.iterators \in Nat
      /\ KeysIn(d.ht[0]) \cap KeysIn(d.ht[1]) = {}
  BY DEF SoundDict
<1>3. SoundTable(t) /\ Entries(t) = {} /\ t.size = m /\ t.used = 0 /\ KeysIn(t) = {}
  BY <1>1, EmptyTable DEF KeysIn
<1> HIDE DEF m, t
<1>4. CASE d.ht[0].size = 0
  <2>1. r = Dictionary(Tables(t, NoTable), -1, d.iterators)
    BY <1>4 DEF dictExpand, t, m
  <2> HIDE DEF r
  <2>2. /\ r.ht[0] = t /\ r.ht[1] = NoTable /\ r.rehashidx = -1 /\ r.iterators = d.iterators
        /\ r = Dictionary(Tables(r.ht[0], r.ht[1]), r.rehashidx, r.iterators)
    <3>1. Built(r, t, NoTable, -1, d.iterators)
      BY <2>1, Fields
    <3> QED
      BY <3>1 DEF Built
  <2>3. d.ht[0].used = 0 /\ Entries(d.ht[0]) = {}
    BY <1>2, <1>4, Nothing
  <2>4. Content(r) = Content(d) /\ dictSize(r) = dictSize(d)
    BY <1>2, <1>3, <2>2, <2>3, NoTableIs DEF Content, dictSize
  <2>5. ~IsRehashing(r)
    BY <2>2 DEF IsRehashing
  <2>6. SoundDict(r)
    BY <1>2, <1>3, <2>2, <2>5, NoTableIs, Zenon DEF SoundDict
  <2> QED
    BY <1>3, <1>4, <2>2, <2>4, <2>6 DEF r, m
<1>5. CASE d.ht[0].size # 0
  <2>1. r = Dictionary(Tables(d.ht[0], t), 0, d.iterators)
    BY <1>5 DEF dictExpand, t, m
  <2> HIDE DEF r
  <2>2. /\ r.ht[0] = d.ht[0] /\ r.ht[1] = t /\ r.rehashidx = 0 /\ r.iterators = d.iterators
        /\ r = Dictionary(Tables(r.ht[0], r.ht[1]), r.rehashidx, r.iterators)
    <3>1. Built(r, d.ht[0], t, 0, d.iterators)
      BY <2>1, Fields
    <3> QED
      BY <3>1 DEF Built
  <2>3. Content(r) = Content(d) /\ dictSize(r) = dictSize(d)
    BY <1>2, <1>3, <2>2, NoTableIs DEF Content, dictSize
  <2>4. IsRehashing(r)
    BY <2>2 DEF IsRehashing
  <2>5. d.ht[0].size \in Nat /\ 0 \in 0..d.ht[0].size
    BY <1>2 DEF SoundTable
  <2>6. \A b \in 0..(d.ht[0].size - 1) : ~(b < 0)
    BY <2>5
  <2>7. t.size # 0 /\ t.size # d.ht[0].size
    BY <1>1, <1>3 DEF m
  <2>8. Moving(r)
    BY <1>5, <2>2, <2>5, <2>6, <2>7 DEF Moving
  <2>9. KeysIn(r.ht[0]) \cap KeysIn(r.ht[1]) = {}
    BY <1>3, <2>2
  <2>10. SoundDict(r)
    BY <1>2, <1>3, <2>2, <2>4, <2>8, <2>9, Zenon DEF SoundDict
  <2> QED
    BY <1>5, <2>2, <2>3, <2>4, <2>10 DEF r
<1> QED
  BY <1>4, <1>5

(* The old table is empty: the new one takes its place.                    *)
LEMMA Swapped ==
  ASSUME NEW d, SoundDict(d), d.ht[0].used = 0
  PROVE  LET r == SwapIfMoved(d) IN
         /\ SoundDict(r) /\ Content(r) = Content(d) /\ r.iterators = d.iterators
         /\ ~IsRehashing(r) /\ r.ht[0] = d.ht[1]
<1> DEFINE r == SwapIfMoved(d)
<1>1. /\ SoundTable(d.ht[0]) /\ SoundTable(d.ht[1]) /\ d.iterators \in Nat
  BY DEF SoundDict
<1>2. r = Dictionary(Tables(d.ht[1], NoTable), -1, d.iterators)
  BY DEF SwapIfMoved
<1> HIDE DEF r
<1>3. /\ r.ht[0] = d.ht[1] /\ r.ht[1] = NoTable /\ r.rehashidx = -1 /\ r.iterators = d.iterators
      /\ r = Dictionary(Tables(r.ht[0], r.ht[1]), r.rehashidx, r.iterators)
  <2>1. Built(r, d.ht[1], NoTable, -1, d.iterators)
    BY <1>2, Fields
  <2> QED
    BY <2>1 DEF Built
<1>4. Entries(d.ht[0]) = {}
  BY <1>1, Nothing
<1>5. Content(r) = Content(d)
  BY <1>3, <1>4, NoTableIs DEF Content
<1>6. ~IsRehashing(r)
  BY <1>3 DEF IsRehashing
<1>7. KeysIn(NoTable) = {}
  BY NoTableIs DEF KeysIn
<1>8. SoundDict(r)
  BY <1>1, <1>3, <1>6, <1>7, NoTableIs, Zenon DEF SoundDict
<1> QED
  BY <1>3, <1>5, <1>6, <1>8 DEF r

(* Carried(r, d) sums up one call of dictRehash(): nothing is lost, and    *)
(* either rehashidx grew or the new table is the only one.                 *)
Carried(r, d) ==
  /\ SoundDict(r) /\ Content(r) = Content(d) /\ r.iterators = d.iterators
  /\ \/ ~IsRehashing(r) /\ r.ht[0].size = d.ht[1].size
     \/ /\ IsRehashing(r) /\ r.rehashidx > d.rehashidx
        /\ r.ht[0].size = d.ht[0].size

LEMMA BucketMoved ==
  ASSUME NEW d, SoundDict(d), IsRehashing(d), NEW b \in 0..(d.ht[0].size - 1),
         b >= d.rehashidx, \A x \in 0..(d.ht[0].size - 1) : x < b => d.ht[0].table[x] = <<>>
  PROVE  Carried(MoveBucket(d, b), d)
<1> DEFINE t == d.ht[0]
           s == d.ht[1]
           c == t.table[b]
           u == WithChain(t, b, <<>>, t.used - Len(c))
           v == Receive(s, c)
           r == Dictionary(Tables(u, v), b + 1, d.iterators)
<1>1. /\ SoundTable(t) /\ SoundTable(s) /\ d.iterators \in Nat /\ Moving(d)
      /\ KeysIn(t) \cap KeysIn(s) = {}
  BY DEF SoundDict
<1>2. /\ t.size \in Nat /\ t.size # 0 /\ s.size # 0 /\ s.size # t.size /\ d.rehashidx \in Int
      /\ t.table \in [0..(t.size - 1) -> Seq(Entry)] /\ SoundChain(c, t.size, b)
  BY <1>1 DEF Moving, SoundTable
<1>3. MoveBucket(d, b) = SwapIfMoved(r)
  BY DEF MoveBucket
<1>r. r = Dictionary(Tables(u, v), b + 1, d.iterators)
  OBVIOUS
<1> HIDE DEF r
<1>4. /\ SoundTable(u) /\ u.size = t.size /\ Entries(u) = Entries(t) \ Range(c)
  <2>1. b \in 0..(t.size - 1)
    OBVIOUS
  <2> HIDE DEF t
  <2> QED
    BY <1>1, <2>1, Emptied
<1>5. Range(c) \subseteq Entries(t)
  BY <1>2 DEF Entries, Buckets
<1>6. \A i \in DOMAIN c : c[i].key \notin KeysIn(s)
  <2>1. ASSUME NEW i \in DOMAIN c
        PROVE  c[i].key \in KeysIn(t)
    <3>1. c[i] \in Entries(t)
      BY <1>5 DEF Range
    <3> QED
      BY <3>1 DEF KeysIn
  <2> QED
    BY <1>1, <2>1
<1>7. c \in Seq(Entry) /\ \A i, j \in DOMAIN c : c[i].key = c[j].key => i = j
  BY <1>2 DEF SoundChain
<1>8. /\ SoundTable(v) /\ v.size = s.size /\ Entries(v) = Entries(s) \cup Range(c)
  <2> HIDE DEF s, c
  <2> QED
    BY <1>1, <1>2, <1>6, <1>7, Received
<1>9. u.table = [t.table EXCEPT ![b] = <<>>]
  BY DEF WithChain
<1>10. \A x \in 0..(t.size - 1) : x < b + 1 => u.table[x] = <<>>
  <2>1. ASSUME NEW x \in 0..(t.size - 1), x < b + 1
        PROVE  u.table[x] = <<>>
    <3>1. CASE x = b
      <4> HIDE DEF u, t
      <4> QED
        BY <1>2, <1>9, <3>1
    <3>2. CASE x # b
      <4>1. x < b
        BY <1>2, <2>1, <3>2
      <4>2. t.table[x] = <<>>
        BY <4>1
      <4> HIDE DEF u, t
      <4> QED
        BY <1>2, <1>9, <3>2, <4>2
    <3> QED
      BY <3>1, <3>2
  <2> QED
    BY <2>1
<1> HIDE DEF u, v, c
<1>11. KeysIn(u) \cap KeysIn(v) = {}
  <2>1. SUFFICES ASSUME NEW e \in Entries(u), NEW f \in Entries(v), e.key = f.key
                 PROVE  FALSE
    BY DEF KeysIn
  <2>2. e \in Entries(t) /\ e \notin Range(c)
    BY <1>4
  <2>3. CASE f \in Entries(s)
    <3>1. e.key \in KeysIn(t) /\ e.key \in KeysIn(s)
      BY <2>1, <2>2, <2>3 DEF KeysIn
    <3> QED
      BY <1>1, <3>1
  <2>4. CASE f \in Range(c)
    <3>1. f \in Entries(t)
      BY <1>5, <2>4
    <3>2. e = f
      BY <1>1, <2>1, <2>2, <3>1, OneOfKey
    <3> QED
      BY <2>2, <2>4, <3>2
  <2> QED
    BY <1>8, <2>3, <2>4
<1>12. /\ r.ht[0] = u /\ r.ht[1] = v /\ r.rehashidx = b + 1 /\ r.iterators = d.iterators
       /\ r = Dictionary(Tables(r.ht[0], r.ht[1]), r.rehashidx, r.iterators)
  <2>1. Built(r, u, v, b + 1, d.iterators)
    BY <1>r, Fields
  <2> QED
    BY <2>1 DEF Built
<1>13. IsRehashing(r) /\ b + 1 \in 0..t.size /\ b + 1 > d.rehashidx
  BY <1>2, <1>12 DEF IsRehashing
<1>14. Moving(r)
  BY <1>2, <1>4, <1>8, <1>10, <1>12, <1>13 DEF Moving
<1>15. SoundDict(r)
  BY <1>1, <1>4, <1>8, <1>11, <1>12, <1>13, <1>14, Zenon DEF SoundDict
<1>16. Content(r) = Content(d)
  BY <1>4, <1>5, <1>8, <1>12 DEF Content
<1>17. CASE u.used = 0
  <2>1. LET x == SwapIfMoved(r) IN
        /\ SoundDict(x) /\ Content(x) = Content(r) /\ x.iterators = r.iterators
        /\ ~IsRehashing(x) /\ x.ht[0] = r.ht[1]
    BY <1>12, <1>15, <1>17, Swapped
  <2> QED
    BY <1>3, <1>8, <1>12, <1>16, <2>1 DEF Carried
<1>18. CASE u.used # 0
  <2>1. SwapIfMoved(r) = r
    BY <1>12, <1>18 DEF SwapIfMoved
  <2> QED
    BY <1>3, <1>4, <1>12, <1>13, <1>15, <1>16, <2>1 DEF Carried
<1> QED
  BY <1>17, <1>18

(* What is left stands behind rehashidx: the next bucket is found.         *)
LEMMA NextBucketIs ==
  ASSUME NEW d, SoundDict(d), IsRehashing(d), d.ht[0].used # 0
  PROVE  /\ NextBucket(d) \in 0..(d.ht[0].size - 1) /\ NextBucket(d) >= d.rehashidx
         /\ d.rehashidx \in Nat
         /\ \A x \in 0..(d.ht[0].size - 1) : x < NextBucket(d) => d.ht[0].table[x] = <<>>
<1> DEFINE t == d.ht[0]
           B == {b \in d.rehashidx..(t.size - 1) : t.table[b] # <<>>}
<1>1. SoundTable(t) /\ Moving(d)
  BY DEF SoundDict
<1>2. /\ t.size \in Nat /\ d.rehashidx \in 0..t.size
      /\ t.table \in [0..(t.size - 1) -> Seq(Entry)]
      /\ \A b \in 0..(t.size - 1) : b < d.rehashidx => t.table[b] = <<>>
  BY <1>1 DEF Moving, SoundTable
<1>3. NextBucket(d) = Min(B)
  BY DEF NextBucket
<1>4. PICK e \in Entries(t) : TRUE
  BY <1>1, Nothing
<1>5. PICK b \in 0..(t.size - 1) : e \in Range(t.table[b])
  BY <1>2, <1>4 DEF Entries, Buckets
<1>6. t.table[b] # <<>>
  BY <1>5 DEF Range
<1> HIDE DEF t
<1>7. b \in B
  BY <1>2, <1>5, <1>6
<1>8. B \subseteq Nat
  BY <1>2
<1>9. Min(B) \in B /\ \A x \in B : Min(B) <= x
  <2> HIDE DEF B
  <2>1. \E x \in B : \A y \in B : x <= y
    BY <1>7, <1>8, LeastNatural
  <2> QED
    BY <2>1 DEF Min
<1> DEFINE q == Min(B)
<1>10. q \in B /\ \A x \in B : q <= x
  BY <1>9
<1> HIDE DEF q
<1>11. q \in 0..(t.size - 1) /\ q >= d.rehashidx /\ d.rehashidx \in Nat
  BY <1>2, <1>10
<1>12. ASSUME NEW x \in 0..(t.size - 1), x < q
       PROVE  t.table[x] = <<>>
  <2>1. CASE x < d.rehashidx
    BY <1>2, <2>1
  <2>2. CASE ~(x < d.rehashidx)
    <3>1. x \in d.rehashidx..(t.size - 1)
      BY <1>2, <2>2
    <3>2. x \notin B
      BY <1>10, <1>11, <1>12
    <3> QED
      BY <3>1, <3>2
  <2> QED
    BY <2>1, <2>2
<1> QED
  BY <1>3, <1>11, <1>12 DEF q, t

LEMMA Rehashed ==
  ASSUME NEW d, SoundDict(d), IsRehashing(d)
  PROVE  Carried(dictRehash(d), d)
<1>1. CASE d.ht[0].used = 0
  <2>1. dictRehash(d) = SwapIfMoved(d)
    BY <1>1 DEF dictRehash
  <2> QED
    BY <1>1, <2>1, Swapped DEF Carried
<1>2. CASE d.ht[0].used # 0 /\ NextBucket(d) - d.rehashidx >= EmptyVisits
  <2> DEFINE x == d.rehashidx + EmptyVisits
             r == Dictionary(d.ht, x, d.iterators)
  <2>1. dictRehash(d) = r
    BY <1>2 DEF dictRehash
  <2>2. /\ NextBucket(d) \in 0..(d.ht[0].size - 1) /\ NextBucket(d) >= d.rehashidx
        /\ d.rehashidx \in Nat
        /\ \A y \in 0..(d.ht[0].size - 1) : y < NextBucket(d) => d.ht[0].table[y] = <<>>
    BY <1>2, NextBucketIs
  <2>3. /\ SoundTable(d.ht[0]) /\ SoundTable(d.ht[1]) /\ d.iterators \in Nat /\ Moving(d)
        /\ KeysIn(d.ht[0]) \cap KeysIn(d.ht[1]) = {}
    BY DEF SoundDict
  <2>4. d.ht[0].size \in Nat /\ EmptyVisits \in Nat \ {0}
    BY <2>3, DictTableAssumption DEF SoundTable
  <2>5. x \in 0..d.ht[0].size /\ x > d.rehashidx /\ x <= NextBucket(d) /\ x # -1
    BY <1>2, <2>2, <2>4
  <2>6. d.ht = Tables(d.ht[0], d.ht[1])
    <3>1. d = Dictionary(Tables(d.ht[0], d.ht[1]), d.rehashidx, d.iterators)
      BY DEF SoundDict
    <3> QED
      BY <3>1 DEF Dictionary
  <2>7. r = Dictionary(Tables(d.ht[0], d.ht[1]), x, d.iterators)
    BY <2>6
  <2> HIDE DEF r, x
  <2>8. Built(r, d.ht[0], d.ht[1], x, d.iterators)
    BY <2>7, Fields
  <2>9. IsRehashing(r)
    BY <2>5, <2>8 DEF IsRehashing, Built
  <2>10. \A y \in 0..(d.ht[0].size - 1) : y < x => d.ht[0].table[y] = <<>>
    BY <2>2, <2>4, <2>5
  <2>11. Moving(r)
    BY <2>3, <2>5, <2>8, <2>10 DEF Moving, Built
  <2>12. SoundDict(r)
    BY <2>3, <2>8, <2>9, <2>11, Zenon DEF SoundDict, Built
  <2>13. Content(r) = Content(d)
    BY <2>8 DEF Content, Built
  <2> QED
    BY <2>1, <2>5, <2>8, <2>9, <2>12, <2>13 DEF Carried, Built
<1>3. CASE d.ht[0].used # 0 /\ ~(NextBucket(d) - d.rehashidx >= EmptyVisits)
  <2>1. dictRehash(d) = MoveBucket(d, NextBucket(d))
    BY <1>3 DEF dictRehash
  <2>2. /\ NextBucket(d) \in 0..(d.ht[0].size - 1) /\ NextBucket(d) >= d.rehashidx
        /\ \A y \in 0..(d.ht[0].size - 1) : y < NextBucket(d) => d.ht[0].table[y] = <<>>
    BY <1>3, NextBucketIs
  <2> QED
    BY <2>1, <2>2, BucketMoved
<1> QED
  BY <1>1, <1>2, <1>3

(* r is d with some of its rehashing done: what it holds is the same.      *)
Kept(r, d) == SoundDict(r) /\ Content(r) = Content(d) /\ r.iterators = d.iterators

LEMMA RehashStep ==
  ASSUME NEW d, SoundDict(d)
  PROVE  /\ Kept(dictRehashStep(d), d)
         /\ IsRehashing(d) /\ d.iterators = 0 => Carried(dictRehashStep(d), d)
<1>1. CASE IsRehashing(d) /\ d.iterators = 0
  <2>1. dictRehashStep(d) = dictRehash(d)
    BY <1>1 DEF dictRehashStep
  <2>2. Carried(dictRehashStep(d), d)
    BY <1>1, <2>1, Rehashed
  <2> QED
    BY <2>2 DEF Carried, Kept
<1>2. CASE ~(IsRehashing(d) /\ d.iterators = 0)
  <2>1. dictRehashStep(d) = d
    BY <1>2 DEF dictRehashStep
  <2> QED
    BY <1>2, <2>1 DEF Kept
<1> QED
  BY <1>1, <1>2

LEMMA KeptOn ==
  ASSUME NEW d, NEW r, NEW s, Kept(r, d), Kept(s, r)
  PROVE  Kept(s, d)
  BY DEF Kept

(* An empty dictionary has no entry, and the others have a table.          *)
LEMMA SizeIs ==
  ASSUME NEW d, SoundDict(d)
  PROVE  /\ dictSize(d) \in Nat
         /\ dictSize(d) = 0 <=> Content(d) = {}
         /\ dictSize(d) # 0 => d.ht[0].size # 0
<1>1. SoundTable(d.ht[0]) /\ SoundTable(d.ht[1])
  BY DEF SoundDict
<1>2. PICK x \in Nat : x = d.ht[0].used
  BY <1>1 DEF SoundTable
<1>3. PICK y \in Nat : y = d.ht[1].used
  BY <1>1 DEF SoundTable
<1>4. dictSize(d) = x + y
  BY <1>2, <1>3 DEF dictSize
<1>5. x = 0 <=> Entries(d.ht[0]) = {}
  BY <1>1, <1>2, Nothing
<1>6. y = 0 <=> Entries(d.ht[1]) = {}
  BY <1>1, <1>3, Nothing
<1>7. dictSize(d) = 0 <=> Content(d) = {}
  BY <1>4, <1>5, <1>6 DEF Content
<1>8. ASSUME d.ht[0].size = 0
      PROVE  x = 0 /\ y = 0
  <2>1. x = 0
    BY <1>1, <1>2, <1>8, Nothing
  <2>2. ~IsRehashing(d)
    BY <1>8 DEF SoundDict, Moving
  <2>3. d.ht[1] = NoTable
    BY <2>2 DEF SoundDict
  <2> QED
    BY <1>3, <2>1, <2>3, NoTableIs
<1> QED
  BY <1>4, <1>7, <1>8

(* Several steps of rehashing, one after the other.                        *)
AnyDict ==
  [ht : [0..1 -> UNION {Shaped(n) : n \in Nat}], rehashidx : Int, iterators : Nat]

LEMMA DictShaped ==
  ASSUME NEW d, SoundDict(d)
  PROVE  d \in AnyDict
<1>1. /\ d = Dictionary(Tables(d.ht[0], d.ht[1]), d.rehashidx, d.iterators)
      /\ d.iterators \in Nat /\ SoundTable(d.ht[0]) /\ SoundTable(d.ht[1])
  BY DEF SoundDict
<1> DEFINE T == UNION {Shaped(n) : n \in Nat}
<1>2. d.ht[0] \in T /\ d.ht[1] \in T
  <2>1. ASSUME NEW t, SoundTable(t)
        PROVE  t \in T
    <3>1. t \in Shaped(t.size) /\ t.size \in Nat
      BY <2>1, SoundShaped DEF SoundTable
    <3> QED
      BY <3>1
  <2> HIDE DEF T
  <2> QED
    BY <1>1, <2>1
<1> HIDE DEF T
<1>3. d.rehashidx \in Int
  <2>1. CASE IsRehashing(d)
    <3>1. Moving(d) /\ d.ht[0].size \in Nat
      BY <1>1, <2>1 DEF SoundDict, SoundTable
    <3> QED
      BY <3>1 DEF Moving
  <2>2. CASE ~IsRehashing(d)
    BY <2>2 DEF IsRehashing
  <2> QED
    BY <2>1, <2>2
<1>4. Tables(d.ht[0], d.ht[1]) \in [0..1 -> T]
  BY <1>2 DEF Tables
<1>5. Dictionary(Tables(d.ht[0], d.ht[1]), d.rehashidx, d.iterators) \in AnyDict
  BY <1>1, <1>3, <1>4 DEF Dictionary, AnyDict, T
<1> QED
  BY <1>1, <1>5

LEMMA RehashedSeveral ==
  ASSUME NEW d, SoundDict(d), NEW n \in Nat
  PROVE  Kept(RehashedFor(d, n), d)
<1> DEFINE V == {x \in AnyDict : Kept(x, d)}
           g == [p \in (1..n) \X V |-> dictRehashStep(p[2])]
           Body(f, i) == IF i = 0 THEN d ELSE dictRehashStep(f[i - 1])
           Good(f) == f = [i \in 0..n |-> Body(f, i)]
           F == CHOOSE f : Good(f)
<1>1. d \in V
  BY DictShaped DEF Kept
<1>2. ASSUME NEW x \in V
      PROVE  dictRehashStep(x) \in V
  <2>1. Kept(x, d) /\ SoundDict(x)
    BY <1>2 DEF Kept
  <2>2. Kept(dictRehashStep(x), x)
    BY <2>1, RehashStep
  <2>3. Kept(dictRehashStep(x), d)
    BY <2>1, <2>2, KeptOn
  <2>4. dictRehashStep(x) \in AnyDict
    BY <2>2, DictShaped DEF Kept
  <2> QED
    BY <2>3, <2>4
<1> HIDE DEF V
<1>3. g \in [(1..n) \X V -> V]
  <2>1. \A p \in (1..n) \X V : dictRehashStep(p[2]) \in V
    BY <1>2
  <2> QED
    BY <2>1
<1>4. PICK h : StartsAtZero(h, n, V, d, g)
  <2> HIDE DEF g
  <2> QED
    BY <1>1, <1>3, RecursionFromZero
<1>5. h \in [0..n -> V] /\ h[0] = d /\ \A i \in 1..n : h[i] = g[<<i, h[i - 1]>>]
  BY <1>4 DEF StartsAtZero
<1>6. Good(h)
  <2>1. ASSUME NEW i \in 0..n
        PROVE  h[i] = Body(h, i)
    <3>1. CASE i = 0
      BY <1>5, <3>1
    <3>2. CASE i # 0
      <4>1. i \in 1..n /\ i - 1 \in 0..n
        BY <3>2
      <4>2. h[i - 1] \in V
        BY <1>5, <4>1
      <4>3. h[i] = g[<<i, h[i - 1]>>] /\ <<i, h[i - 1]>> \in (1..n) \X V
        BY <1>5, <4>1, <4>2
      <4>4. g[<<i, h[i - 1]>>] = dictRehashStep(h[i - 1])
        BY <4>3
      <4> QED
        BY <3>2, <4>3, <4>4
    <3> QED
      BY <3>1, <3>2
  <2> HIDE DEF Body, g
  <2> QED
    BY <1>5, <2>1
<1>7. Good(F)
  <2> HIDE DEF Good
  <2> QED
    BY <1>6
<1>8. RehashedFor(d, n) = F[n]
  BY DEF RehashedFor
<1> HIDE DEF F
<1>9. \A i \in 0..n : F[i] = Body(F, i)
  <2> HIDE DEF Body
  <2> QED
    BY <1>7
<1> DEFINE S == {i \in 0..n : F[i] \in V}
<1>10. 0 \in S
  BY <1>1, <1>9
<1>11. ASSUME NEW i \in 0..(n - 1), i \in S
       PROVE  i + 1 \in S
  <2>1. i + 1 \in 0..n /\ i + 1 # 0 /\ (i + 1) - 1 = i
    OBVIOUS
  <2>2. F[i + 1] = Body(F, i + 1)
    BY <1>9, <2>1
  <2>3. F[i + 1] = dictRehashStep(F[i])
    BY <2>1, <2>2
  <2>4. F[i] \in V
    BY <1>11
  <2> QED
    BY <1>2, <2>1, <2>3, <2>4
<1>12. n \in S
  <2>1. 0..n \subseteq S
    <3> HIDE DEF S
    <3> QED
      BY <1>10, <1>11, Induction
  <2> QED
    BY <2>1
<1> QED
  BY <1>8, <1>12 DEF V

-----------------------------------------------------------------------------
(* Lookup.                                                                 *)
Has(d, k) == \E e \in Content(d) : e.key = k

LEMMA SearchedIs ==
  ASSUME NEW d, SoundDict(d), d.ht[0].size # 0
  PROVE  /\ Searched(d) \subseteq {0, 1} /\ 0 \in Searched(d)
         /\ \A t \in Searched(d) : SoundTable(d.ht[t]) /\ d.ht[t].size # 0
         /\ Content(d) = UNION {Entries(d.ht[t]) : t \in Searched(d)}
         /\ IsRehashing(d) <=> 1 \in Searched(d)
<1>1. SoundTable(d.ht[0]) /\ SoundTable(d.ht[1])
  BY DEF SoundDict
<1>2. CASE IsRehashing(d)
  <2>1. Searched(d) = {0, 1} /\ Moving(d)
    BY <1>2 DEF Searched, SoundDict
  <2>2. d.ht[1].size # 0
    BY <2>1 DEF Moving
  <2> QED
    BY <1>1, <1>2, <2>1, <2>2 DEF Content
<1>3. CASE ~IsRehashing(d)
  <2>1. Searched(d) = {0} /\ d.ht[1] = NoTable
    BY <1>3 DEF Searched, SoundDict
  <2>2. Entries(d.ht[1]) = {}
    BY <2>1, NoTableIs
  <2> QED
    BY <1>1, <1>3, <2>1, <2>2 DEF Content
<1> QED
  BY <1>2, <1>3

LEMMA HoldersAre ==
  ASSUME NEW d, SoundDict(d), d.ht[0].size # 0, NEW k \in Keys
  PROVE  Holders(d, k) # {} <=> Has(d, k)
<1>1. /\ Searched(d) \subseteq {0, 1}
      /\ \A t \in Searched(d) : SoundTable(d.ht[t]) /\ d.ht[t].size # 0
      /\ Content(d) = UNION {Entries(d.ht[t]) : t \in Searched(d)}
  BY SearchedIs
<1>2. ASSUME NEW t \in Holders(d, k)
      PROVE  Has(d, k)
  <2>1. t \in Searched(d) /\ PosIn(Chain(d.ht[t], k), k) # {}
    BY DEF Holders
  <2>2. PICK i \in DOMAIN Chain(d.ht[t], k) : Chain(d.ht[t], k)[i].key = k
    BY <2>1 DEF PosIn
  <2>3. Range(Chain(d.ht[t], k)) \subseteq Entries(d.ht[t])
    BY <1>1, <2>1, ChainOf
  <2>4. Chain(d.ht[t], k)[i] \in Content(d)
    BY <1>1, <2>1, <2>2, <2>3 DEF Range
  <2> QED
    BY <2>2, <2>4 DEF Has
<1>3. ASSUME Has(d, k)
      PROVE  Holders(d, k) # {}
  <2>1. PICK e \in Content(d) : e.key = k
    BY <1>3 DEF Has
  <2>2. PICK t \in Searched(d) : e \in Entries(d.ht[t])
    BY <1>1
  <2>3. PICK i \in DOMAIN Chain(d.ht[t], k) : Chain(d.ht[t], k)[i] = e
    BY <1>1, <2>1, <2>2, Standing
  <2>4. PosIn(Chain(d.ht[t], k), k) # {}
    BY <2>1, <2>3 DEF PosIn
  <2> QED
    BY <2>4 DEF Holders
<1> QED
  BY <1>2, <1>3

(* Where the search stops.                                                 *)
LEMMA EntryFound ==
  ASSUME NEW d, SoundDict(d), d.ht[0].size # 0, NEW k \in Keys, Has(d, k)
  PROVE  /\ Min(Holders(d, k)) \in Searched(d)
         /\ TableOf(d, k) = d.ht[Min(Holders(d, k))]
         /\ SoundTable(TableOf(d, k)) /\ TableOf(d, k).size # 0
         /\ PosOf(d, k) \in DOMAIN Chain(TableOf(d, k), k)
         /\ EntryOf(d, k) = Chain(TableOf(d, k), k)[PosOf(d, k)]
         /\ EntryOf(d, k).key = k
         /\ EntryOf(d, k) \in Entries(TableOf(d, k)) /\ EntryOf(d, k) \in Content(d)
<1> DEFINE H == Holders(d, k)
           h == Min(H)
           t == d.ht[h]
           P == PosIn(Chain(t, k), k)
<1>1. /\ Searched(d) \subseteq {0, 1}
      /\ \A x \in Searched(d) : SoundTable(d.ht[x]) /\ d.ht[x].size # 0
      /\ Content(d) = UNION {Entries(d.ht[x]) : x \in Searched(d)}
  BY SearchedIs
<1>2. H # {} /\ H \subseteq Searched(d) /\ \A x \in H : PosIn(Chain(d.ht[x], k), k) # {}
  BY HoldersAre DEF Holders
<1>3. h \in H
  <2>1. H \subseteq Nat
    BY <1>1, <1>2
  <2> HIDE DEF H
  <2>2. \E x \in H : \A y \in H : x <= y
    BY <1>2, <2>1, LeastNatural
  <2> QED
    BY <2>2 DEF Min
<1>4. h \in Searched(d) /\ SoundTable(t) /\ t.size # 0 /\ P # {}
  <2> HIDE DEF H, h
  <2> QED
    BY <1>1, <1>2, <1>3
<1> HIDE DEF H, h
<1>5. TableOf(d, k) = t /\ PosOf(d, k) = Min(P)
  BY DEF TableOf, PosOf, h, H
<1>6. Chain(t, k) \in Seq(Entry) /\ Range(Chain(t, k)) \subseteq Entries(t)
  <2> HIDE DEF t
  <2> QED
    BY <1>4, ChainOf
<1>7. P \subseteq DOMAIN Chain(t, k) /\ \A i \in P : Chain(t, k)[i].key = k
  BY DEF PosIn
<1>8. Min(P) \in P
  <2>1. P \subseteq Nat
    BY <1>6, <1>7
  <2> HIDE DEF P
  <2>2. \E x \in P : \A y \in P : x <= y
    BY <1>4, <2>1, LeastNatural
  <2> QED
    BY <2>2 DEF Min
<1>9. EntryOf(d, k) = Chain(TableOf(d, k), k)[PosOf(d, k)]
  BY DEF EntryOf
<1> HIDE DEF P
<1>10. EntryOf(d, k) = Chain(t, k)[Min(P)] /\ Min(P) \in DOMAIN Chain(t, k)
  BY <1>5, <1>7, <1>8, <1>9
<1>11. EntryOf(d, k) \in Entries(t) /\ EntryOf(d, k).key = k
  BY <1>6, <1>7, <1>8, <1>10 DEF Range
<1>12. EntryOf(d, k) \in Content(d)
  BY <1>1, <1>4, <1>11
<1> QED
  BY <1>4, <1>5, <1>9, <1>10, <1>11, <1>12 DEF h, H

-----------------------------------------------------------------------------
(* Update: one table of the two changes, in one chain.                     *)
SameStage(r, d) ==
  /\ r.iterators = d.iterators /\ r.rehashidx = d.rehashidx
  /\ r.ht[0].size = d.ht[0].size

With(d, t, n) == Dictionary([d.ht EXCEPT ![t] = n], d.rehashidx, d.iterators)

LEMMA OneTable ==
  ASSUME NEW d, SoundDict(d), d.ht[0].size # 0, NEW t \in Searched(d),
         NEW n, SoundTable(n), n.size = d.ht[t].size,
         NEW o, o = d.ht[1 - t], KeysIn(n) \cap KeysIn(o) = {},
         IsRehashing(d) /\ t = 0 =>
           \A b \in 0..(n.size - 1) : b < d.rehashidx => n.table[b] = <<>>
  PROVE  /\ SoundDict(With(d, t, n)) /\ Content(With(d, t, n)) = Entries(n) \cup Entries(o)
         /\ Content(d) = Entries(d.ht[t]) \cup Entries(o)
         /\ SameStage(With(d, t, n), d)
<1> DEFINE r == With(d, t, n)
           a == IF t = 0 THEN n ELSE d.ht[0]
           c == IF t = 0 THEN d.ht[1] ELSE n
<1>1. t \in {0, 1} /\ (t = 1 => IsRehashing(d))
  BY SearchedIs
<1>2. /\ d = Dictionary(Tables(d.ht[0], d.ht[1]), d.rehashidx, d.iterators)
      /\ d.iterators \in Nat
      /\ SoundTable(d.ht[0]) /\ SoundTable(d.ht[1])
      /\ IsRehashing(d) => Moving(d)
      /\ ~IsRehashing(d) => d.ht[1] = NoTable
  BY DEF SoundDict
<1>3. d.ht = Tables(d.ht[0], d.ht[1])
  <2>1. Dictionary(Tables(d.ht[0], d.ht[1]), d.rehashidx, d.iterators).ht
          = Tables(d.ht[0], d.ht[1])
    BY DEF Dictionary
  <2> QED
    BY <1>2, <2>1
<1>4. [d.ht EXCEPT ![t] = n] = Tables(a, c)
  BY <1>1, <1>3 DEF Tables
<1>5. r = Dictionary(Tables(a, c), d.rehashidx, d.iterators)
  BY <1>4 DEF With
<1> HIDE DEF r, a, c
<1>6. Built(r, a, c, d.rehashidx, d.iterators)
  BY <1>5, Fields
<1>7. /\ t = 0 => a = n /\ c = o /\ o = d.ht[1] /\ d.ht[t] = d.ht[0]
      /\ t = 1 => a = o /\ c = n /\ o = d.ht[0] /\ d.ht[t] = d.ht[1]
  BY <1>1 DEF a, c
<1>8. SoundTable(a) /\ SoundTable(c) /\ KeysIn(a) \cap KeysIn(c) = {}
  BY <1>1, <1>2, <1>7
<1>9. IsRehashing(r) <=> IsRehashing(d)
  BY <1>6 DEF Built, IsRehashing
<1>10. a.size = d.ht[0].size /\ c.size = d.ht[1].size
  BY <1>1, <1>7
<1>11. ASSUME IsRehashing(d)
       PROVE  Moving(r)
  <2>1. Moving(d)
    BY <1>2, <1>11
  <2>2. \A b \in 0..(a.size - 1) : b < d.rehashidx => a.table[b] = <<>>
    <3>1. CASE t = 0
      BY <1>7, <1>11, <3>1
    <3>2. CASE t = 1
      BY <1>7, <1>11, <2>1, <3>2 DEF Moving
    <3> QED
      BY <1>1, <3>1, <3>2
  <2> QED
    BY <1>6, <1>10, <2>1, <2>2 DEF Built, Moving
<1>12. ~IsRehashing(d) => c = NoTable
  BY <1>1, <1>2, <1>7
<1>13. SoundDict(r)
  BY <1>2, <1>6, <1>8, <1>9, <1>11, <1>12 DEF Built, SoundDict
<1>14. Content(r) = Entries(n) \cup Entries(o)
  BY <1>1, <1>6, <1>7 DEF Built, Content
<1>15. Content(d) = Entries(d.ht[t]) \cup Entries(o)
  BY <1>1, <1>7 DEF Content
<1>16. SameStage(r, d)
  BY <1>6, <1>10 DEF Built, SameStage
<1> QED
  BY <1>13, <1>14, <1>15, <1>16 DEF r

LEMMA SetChainIs ==
  ASSUME NEW d, NEW t \in DOMAIN d.ht, NEW k, NEW c, NEW u
  PROVE  SetChain(d, t, k, c, u) = With(d, t, WithChain(d.ht[t], Slot(k, d.ht[t]), c, u))
  BY DEF SetChain, With

LEMMA BothTables ==
  ASSUME NEW d, SoundDict(d)
  PROVE  DOMAIN d.ht = 0..1 /\ SoundTable(d.ht[0]) /\ SoundTable(d.ht[1])
<1>1. d = Dictionary(Tables(d.ht[0], d.ht[1]), d.rehashidx, d.iterators)
  BY DEF SoundDict
<1>2. Dictionary(Tables(d.ht[0], d.ht[1]), d.rehashidx, d.iterators).ht
        = Tables(d.ht[0], d.ht[1])
  BY DEF Dictionary
<1>3. DOMAIN Tables(d.ht[0], d.ht[1]) = 0..1
  BY DEF Tables
<1>4. d.ht = Tables(d.ht[0], d.ht[1])
  BY <1>1, <1>2
<1> QED
  BY <1>3, <1>4 DEF SoundDict

(* A new entry.                                                            *)
LEMMA InsertedEntry ==
  ASSUME NEW d, SoundDict(d), d.ht[0].size # 0, NEW k \in Keys, NEW v \in Vals, ~Has(d, k)
  PROVE  LET r == Insert(d, k, v) IN
         /\ SoundDict(r) /\ Content(r) = Content(d) \cup {[key |-> k, val |-> v]}
         /\ SameStage(r, d)
<1> DEFINE t == IF IsRehashing(d) THEN 1 ELSE 0
           e == [key |-> k, val |-> v]
           n == Push(d.ht[t], e)
           o == d.ht[1 - t]
           r == With(d, t, n)
<1>1. Insert(d, k, v) = r
  BY BothTables DEF Insert, With
<1>2. t \in Searched(d) /\ (t = 0 => ~IsRehashing(d)) /\ t \in {0, 1}
  BY SearchedIs
<1>3. SoundTable(d.ht[t]) /\ d.ht[t].size # 0
  <2> HIDE DEF t
  <2> QED
    BY <1>2, SearchedIs
<1>4. e \in Entry /\ e.key = k
  BY DEF Entry
<1> HIDE DEF e, t
<1>5. o = d.ht[0] \/ o = d.ht[1]
  BY <1>2
<1>6. \A x \in Entries(d.ht[t]) \cup Entries(o) : x \in Content(d) /\ x.key # k
  <2>1. d.ht[t] = d.ht[0] \/ d.ht[t] = d.ht[1]
    BY <1>2
  <2> HIDE DEF o
  <2> QED
    BY <1>5, <2>1 DEF Content, Has
<1>7. k \notin KeysIn(d.ht[t]) /\ k \notin KeysIn(o)
  BY <1>6 DEF KeysIn
<1>8. /\ SoundTable(n) /\ n.size = d.ht[t].size
      /\ Entries(n) = Entries(d.ht[t]) \cup {e}
  BY <1>3, <1>4, <1>7, Pushed
<1>9. KeysIn(d.ht[t]) \cap KeysIn(o) = {}
  <2>1. KeysIn(d.ht[0]) \cap KeysIn(d.ht[1]) = {}
    BY DEF SoundDict
  <2>2. CASE t = 0
    BY <2>1, <2>2
  <2>3. CASE t = 1
    BY <2>1, <2>3
  <2> QED
    BY <1>2, <2>2, <2>3
<1> DEFINE p == n
<1>10. KeysIn(p) = KeysIn(d.ht[t]) \cup {k}
  BY <1>4, <1>8 DEF KeysIn
<1>11. SoundTable(p) /\ p.size = d.ht[t].size /\ Entries(p) = Entries(d.ht[t]) \cup {e}
  BY <1>8
<1>12. o = d.ht[1 - t] /\ r = With(d, t, p)
  OBVIOUS
<1> HIDE DEF p, o, r
<1>13. KeysIn(p) \cap KeysIn(o) = {}
  BY <1>7, <1>9, <1>10
<1>14. /\ SoundDict(With(d, t, p)) /\ Content(With(d, t, p)) = Entries(p) \cup Entries(o)
       /\ Content(d) = Entries(d.ht[t]) \cup Entries(o)
       /\ SameStage(With(d, t, p), d)
  BY <1>2, <1>11, <1>12, <1>13, OneTable
<1> QED
  BY <1>1, <1>11, <1>12, <1>14 DEF e

(* The chain of an entry that is found, changed in that entry only: E is   *)
(* what comes instead of it, if anything.                                  *)
NewTable(d, k, c, u) == WithChain(TableOf(d, k), Slot(k, TableOf(d, k)), c, u)

LEMMA ChangedEntry ==
  ASSUME NEW d, SoundDict(d), d.ht[0].size # 0, NEW k \in Keys, Has(d, k),
         NEW c, NEW u, NEW E, \A e \in E : e.key = k,
         SoundTable(NewTable(d, k, c, u)), NewTable(d, k, c, u).size = TableOf(d, k).size,
         Entries(NewTable(d, k, c, u)) = {x \in Entries(TableOf(d, k)) : x.key # k} \cup E
  PROVE  LET r == SetChain(d, Min(Holders(d, k)), k, c, u) IN
         /\ SoundDict(r) /\ Content(r) = {x \in Content(d) : x.key # k} \cup E
         /\ SameStage(r, d)
<1> DEFINE t == Min(Holders(d, k))
           s == TableOf(d, k)
           b == Slot(k, s)
           n == NewTable(d, k, c, u)
           o == d.ht[1 - t]
<1>1. /\ t \in Searched(d) /\ s = d.ht[t] /\ SoundTable(s) /\ s.size # 0
      /\ PosOf(d, k) \in DOMAIN Chain(s, k)
      /\ EntryOf(d, k).key = k /\ EntryOf(d, k) \in Entries(s)
  BY EntryFound
<1> HIDE DEF s, t
<1>2. t \in {0, 1} /\ DOMAIN d.ht = 0..1
  BY <1>1, SearchedIs, BothTables
<1>3. SetChain(d, t, k, c, u) = With(d, t, n)
  <2>1. t \in DOMAIN d.ht
    BY <1>2
  <2> QED
    BY <1>1, <2>1, SetChainIs DEF NewTable, s
<1>4. k \in KeysIn(s)
  BY <1>1 DEF KeysIn
<1>5. KeysIn(s) \cap KeysIn(o) = {}
  <2>1. KeysIn(d.ht[0]) \cap KeysIn(d.ht[1]) = {}
    BY DEF SoundDict
  <2>2. CASE t = 0
    BY <1>1, <2>1, <2>2
  <2>3. CASE t = 1
    BY <1>1, <2>1, <2>3
  <2> QED
    BY <1>2, <2>2, <2>3
<1>6. n.size = s.size /\ SoundTable(n) /\ Entries(n) = {x \in Entries(s) : x.key # k} \cup E
  BY DEF s
<1>7. n.table = [s.table EXCEPT ![b] = c]
  BY DEF NewTable, WithChain, s
<1> HIDE DEF n, b
<1>8. KeysIn(n) \subseteq KeysIn(s)
  BY <1>4, <1>6 DEF KeysIn
<1>9. ASSUME IsRehashing(d), t = 0
      PROVE  \A x \in 0..(n.size - 1) : x < d.rehashidx => n.table[x] = <<>>
  <2>1. \A x \in 0..(s.size - 1) : x < d.rehashidx => s.table[x] = <<>>
    BY <1>1, <1>9 DEF SoundDict, Moving
  <2>2. s.table[b] # <<>>
    <3>1. Chain(s, k) = s.table[b]
      BY DEF Chain, b
    <3> QED
      BY <1>1, <3>1
  <2>3. s.table \in [0..(s.size - 1) -> Seq(Entry)]
    BY <1>1 DEF SoundTable
  <2> QED
    BY <1>6, <1>7, <2>1, <2>2, <2>3
<1>10. KeysIn(n) \cap KeysIn(o) = {}
  BY <1>5, <1>8
<1>11. o = d.ht[1 - t] /\ n.size = d.ht[t].size
  BY <1>1, <1>6
<1> HIDE DEF o
<1>12. /\ SoundDict(With(d, t, n)) /\ Content(With(d, t, n)) = Entries(n) \cup Entries(o)
       /\ Content(d) = Entries(d.ht[t]) \cup Entries(o)
       /\ SameStage(With(d, t, n), d)
  BY <1>1, <1>6, <1>9, <1>10, <1>11, OneTable
<1>13. \A x \in Entries(o) : x.key # k
  BY <1>4, <1>5 DEF KeysIn
<1>14. Entries(n) \cup Entries(o) = {x \in Content(d) : x.key # k} \cup E
  BY <1>1, <1>6, <1>12, <1>13
<1> QED
  BY <1>3, <1>12, <1>14 DEF t

LEMMA RevaluedEntry ==
  ASSUME NEW d, SoundDict(d), d.ht[0].size # 0, NEW k \in Keys, NEW v \in Vals, Has(d, k)
  PROVE  LET r == SetVal(d, k, v) IN
         /\ SoundDict(r)
         /\ Content(r) = {x \in Content(d) : x.key # k} \cup {[key |-> k, val |-> v]}
         /\ SameStage(r, d)
<1> DEFINE s == TableOf(d, k)
           c == NewVal(s, k, PosOf(d, k), v)
           u == s.used
           E == {[key |-> k, val |-> v]}
<1>1. /\ SoundTable(s) /\ s.size # 0 /\ PosOf(d, k) \in DOMAIN Chain(s, k)
      /\ Chain(s, k)[PosOf(d, k)].key = k
  BY EntryFound
<1>2. LET n == WithChain(s, Slot(k, s), c, u) IN
      /\ SoundTable(n) /\ n.size = s.size /\ n.used = u
      /\ Entries(n) = {x \in Entries(s) : x.key # k} \cup E
  <2> HIDE DEF s
  <2> QED
    BY <1>1, Revalued
<1>3. SetVal(d, k, v) = SetChain(d, Min(Holders(d, k)), k, c, u)
  BY DEF SetVal, NewVal
<1>4. \A e \in E : e.key = k
  OBVIOUS
<1> HIDE DEF c, u, E
<1>5. /\ SoundTable(NewTable(d, k, c, u)) /\ NewTable(d, k, c, u).size = s.size
      /\ Entries(NewTable(d, k, c, u)) = {x \in Entries(s) : x.key # k} \cup E
  BY <1>2 DEF NewTable
<1>6. LET r == SetChain(d, Min(Holders(d, k)), k, c, u) IN
      /\ SoundDict(r) /\ Content(r) = {x \in Content(d) : x.key # k} \cup E
      /\ SameStage(r, d)
  BY <1>4, <1>5, ChangedEntry
<1> QED
  BY <1>3, <1>6 DEF E

LEMMA UnlinkedEntry ==
  ASSUME NEW d, SoundDict(d), d.ht[0].size # 0, NEW k \in Keys, Has(d, k)
  PROVE  LET r == Unlink(d, k) IN
         /\ SoundDict(r) /\ Content(r) = {x \in Content(d) : x.key # k}
         /\ SameStage(r, d)
<1> DEFINE s == TableOf(d, k)
           c == RemoveAt(Chain(s, k), PosOf(d, k))
           u == s.used - 1
           E == {}
<1>1. /\ SoundTable(s) /\ s.size # 0 /\ PosOf(d, k) \in DOMAIN Chain(s, k)
      /\ Chain(s, k)[PosOf(d, k)].key = k
  BY EntryFound
<1>2. LET n == WithChain(s, Slot(k, s), c, u) IN
      /\ SoundTable(n) /\ n.size = s.size /\ n.used = u
      /\ Entries(n) = {x \in Entries(s) : x.key # k}
  <2> HIDE DEF s
  <2> QED
    BY <1>1, Unlinked
<1>3. Unlink(d, k) = SetChain(d, Min(Holders(d, k)), k, c, u)
  BY DEF Unlink
<1>4. \A e \in E : e.key = k
  OBVIOUS
<1> HIDE DEF c, u
<1>5. /\ SoundTable(NewTable(d, k, c, u)) /\ NewTable(d, k, c, u).size = s.size
      /\ Entries(NewTable(d, k, c, u)) = {x \in Entries(s) : x.key # k} \cup E
  BY <1>2 DEF NewTable
<1> HIDE DEF E
<1>6. LET r == SetChain(d, Min(Holders(d, k)), k, c, u) IN
      /\ SoundDict(r) /\ Content(r) = {x \in Content(d) : x.key # k} \cup E
      /\ SameStage(r, d)
  BY <1>4, <1>5, ChangedEntry
<1> QED
  BY <1>3, <1>6 DEF E

-----------------------------------------------------------------------------
(* dictGetSomeKeys() stores entries the dictionary holds.                  *)
LEMMA LesserOfTwo ==
  ASSUME NEW a \in Nat, NEW b \in Nat
  PROVE  Min({a, b}) \in {a, b} /\ Min({a, b}) <= a /\ Min({a, b}) <= b
<1>1. \E x \in {a, b} : \A y \in {a, b} : x <= y
  BY LeastNatural
<1>2. Min({a, b}) \in {a, b} /\ \A y \in {a, b} : Min({a, b}) <= y
  BY <1>1 DEF Min
<1> QED
  BY <1>2

LEMMA LargestSizeIs ==
  ASSUME NEW d, SoundDict(d), d.ht[0].size # 0
  PROVE  LargestSize(d) \in Nat \ {0}
<1> DEFINE S == {d.ht[t].size : t \in Searched(d)}
<1>1. Searched(d) \subseteq {0, 1} /\ 0 \in Searched(d)
      /\ \A t \in Searched(d) : d.ht[t].size \in Nat \ {0}
  BY SearchedIs DEF SoundTable
<1>2. S \subseteq Nat \ {0} /\ S # {}
  BY <1>1
<1>3. IsFiniteSet(S)
  <2>1. IsFiniteSet({d.ht[0].size} \cup {d.ht[1].size})
    BY FS_Singleton, FS_AddElement
  <2>2. S \in SUBSET ({d.ht[0].size} \cup {d.ht[1].size})
    BY <1>1
  <2> QED
    BY <2>1, <2>2, FS_Subset
<1> HIDE DEF S
<1>4. \E x \in S : \A y \in S : y <= x
  <2>1. S \subseteq Int
    BY <1>2
  <2> QED
    BY <1>2, <1>3, <2>1, GreatestOfFinite
<1>5. \E x \in S : \A y \in S : x >= y
  BY <1>2, <1>4
<1>6. Max(S) \in S
  BY <1>5 DEF Max
<1>7. LargestSize(d) = Max(S)
  BY DEF LargestSize, S
<1> QED
  BY <1>2, <1>6, <1>7

Looking(d) == [i : Nat, empty : Nat, stored : Seq(Content(d))]

LEMMA LookAtIs ==
  ASSUME NEW d, SoundDict(d), d.ht[0].size # 0, NEW n \in Nat, NEW jump \in Nat,
         NEW x \in Looking(d), NEW t
  PROVE  LookAt(d, n, jump, x, t) \in Looking(d)
<1> DEFINE i == IF t = 0 /\ IsRehashing(d) THEN FrontOf(d, x.i) ELSE x.i
           c == d.ht[t].table[i]
<1>1. x.i \in Nat /\ x.empty \in Nat /\ x.stored \in Seq(Content(d))
      /\ x = [i |-> x.i, empty |-> x.empty, stored |-> x.stored]
  BY DEF Looking
<1>2. CASE Len(x.stored) >= n \/ t \notin Searched(d)
  BY <1>2 DEF LookAt
<1>3. CASE ~(Len(x.stored) >= n \/ t \notin Searched(d))
  <2>1. SoundTable(d.ht[t]) /\ Entries(d.ht[t]) \subseteq Content(d)
    BY <1>3, SearchedIs
  <2>2. i \in Nat
    <3>1. CASE IsRehashing(d)
      <4>1. Moving(d) /\ d.ht[0].size \in Nat
        BY <3>1 DEF SoundDict, SoundTable
      <4>2. d.rehashidx \in Nat
        BY <4>1 DEF Moving
      <4> QED
        BY <1>1, <4>2 DEF FrontOf
    <3>2. CASE ~IsRehashing(d)
      BY <1>1, <3>2
    <3> QED
      BY <3>1, <3>2
  <2>3. LookAt(d, n, jump, x, t) =
          IF Outside(d, t, i) THEN [x EXCEPT !.i = i]
          ELSE IF c # <<>> THEN [i |-> i, empty |-> 0, stored |-> x.stored \o c]
          ELSE IF TooManyEmpty(x.empty + 1, n) THEN [i |-> jump, empty |-> 0, stored |-> x.stored]
          ELSE [x EXCEPT !.i = i, !.empty = @ + 1]
    BY <1>3 DEF LookAt
  <2> HIDE DEF i
  <2>4. ASSUME ~Outside(d, t, i)
        PROVE  c \in Seq(Content(d))
    <3>1. d.ht[t].size \in Nat /\ d.ht[t].table \in [0..(d.ht[t].size - 1) -> Seq(Entry)]
      BY <2>1 DEF SoundTable
    <3>2. i \in 0..(d.ht[t].size - 1)
      BY <2>2, <2>4, <3>1 DEF Outside
    <3>3. c \in Seq(Entry) /\ Range(c) \subseteq Entries(d.ht[t])
      BY <3>1, <3>2 DEF Entries, Buckets
    <3> HIDE DEF c
    <3>4. \A j \in 1..Len(c) : c[j] \in Content(d)
      BY <2>1, <3>3 DEF Range
    <3> QED
      BY <3>3, <3>4
  <2> HIDE DEF c
  <2>5. CASE Outside(d, t, i)
    BY <1>1, <2>2, <2>3, <2>5 DEF Looking
  <2>6. CASE ~Outside(d, t, i) /\ c # <<>>
    <3>1. x.stored \o c \in Seq(Content(d))
      BY <1>1, <2>4, <2>6
    <3> QED
      BY <2>2, <2>3, <2>6, <3>1 DEF Looking
  <2>7. CASE ~Outside(d, t, i) /\ ~(c # <<>>) /\ TooManyEmpty(x.empty + 1, n)
    BY <1>1, <2>3, <2>7 DEF Looking
  <2>8. CASE ~Outside(d, t, i) /\ ~(c # <<>>) /\ ~TooManyEmpty(x.empty + 1, n)
    <3>1. x.empty + 1 \in Nat
      BY <1>1
    <3> QED
      BY <1>1, <2>2, <2>3, <2>8, <3>1 DEF Looking
  <2> QED
    BY <2>5, <2>6, <2>7, <2>8
<1> QED
  BY <1>2, <1>3

LEMMA LookOnIs ==
  ASSUME NEW d, SoundDict(d), d.ht[0].size # 0, NEW n \in Nat, NEW jump \in Nat,
         NEW x \in Looking(d)
  PROVE  LookOn(d, n, jump, x) \in Looking(d)
<1> DEFINE y == LookAt(d, n, jump, LookAt(d, n, jump, x, 0), 1)
<1>1. y \in Looking(d)
  BY LookAtIs
<1>2. LookOn(d, n, jump, x) = [y EXCEPT !.i = (@ + 1) % LargestSize(d)]
  BY DEF LookOn
<1> HIDE DEF y
<1>3. (y.i + 1) % LargestSize(d) \in Nat
  <2>1. y.i + 1 \in Nat
    BY <1>1 DEF Looking
  <2>2. (y.i + 1) % LargestSize(d) \in 0..(LargestSize(d) - 1)
    BY <2>1, LargestSizeIs, DivMod
  <2> QED
    BY <2>2, LargestSizeIs
<1> QED
  BY <1>1, <1>2, <1>3 DEF Looking

LEMMA SomeKeys ==
  ASSUME NEW d, SoundDict(d), d.ht[0].size # 0, NEW n \in Nat, NEW start \in Nat,
         NEW jump \in Nat
  PROVE  Range(dictGetSomeKeys(d, n, start, jump)) \subseteq Content(d)
<1> DEFINE m == 10 * n
           V == Looking(d)
           a == [i |-> start, empty |-> 0, stored |-> <<>>]
           g == [p \in (1..m) \X V |-> LookOn(d, n, jump, p[2])]
           Body(f, s) == IF s = 0 THEN [i |-> start, empty |-> 0, stored |-> <<>>]
                         ELSE LookOn(d, n, jump, f[s - 1])
           Good(f) == f = [s \in 0..m |-> Body(f, s)]
           F == CHOOSE f : Good(f)
<1>1. a \in V /\ m \in Nat
  BY DEF Looking
<1>2. g \in [(1..m) \X V -> V]
  <2>1. \A p \in (1..m) \X V : LookOn(d, n, jump, p[2]) \in V
    BY LookOnIs
  <2> HIDE DEF V, m
  <2> QED
    BY <2>1
<1>3. PICK h : StartsAtZero(h, m, V, a, g)
  <2> HIDE DEF g, V, m, a
  <2> QED
    BY <1>1, <1>2, RecursionFromZero
<1>4. h \in [0..m -> V] /\ h[0] = a /\ \A i \in 1..m : h[i] = g[<<i, h[i - 1]>>]
  BY <1>3 DEF StartsAtZero
<1>5. Good(h)
  <2>1. ASSUME NEW i \in 0..m
        PROVE  h[i] = Body(h, i)
    <3>1. CASE i = 0
      BY <1>4, <3>1
    <3>2. CASE i # 0
      <4>1. i \in 1..m /\ i - 1 \in 0..m
        BY <3>2
      <4>2. h[i - 1] \in V
        BY <1>4, <4>1
      <4>3. h[i] = g[<<i, h[i - 1]>>] /\ <<i, h[i - 1]>> \in (1..m) \X V
        BY <1>4, <4>1, <4>2
      <4>4. g[<<i, h[i - 1]>>] = LookOn(d, n, jump, h[i - 1])
        <5> HIDE DEF m, V
        <5> QED
          BY <4>3
      <4> QED
        BY <3>2, <4>3, <4>4
    <3> QED
      BY <3>1, <3>2
  <2> HIDE DEF Body, g, V
  <2> QED
    BY <1>4, <2>1
<1>6. Good(F)
  <2> HIDE DEF Good
  <2> QED
    BY <1>5
<1>7. dictGetSomeKeys(d, n, start, jump) =
        SubSeq(F[m].stored, 1, Min({n, Len(F[m].stored)}))
  BY DEF dictGetSomeKeys
<1> HIDE DEF F
<1>8. \A i \in 0..m : F[i] = Body(F, i)
  <2> HIDE DEF Body, m
  <2> QED
    BY <1>6
<1> DEFINE S == {i \in 0..m : F[i] \in V}
<1>9. 0 \in S
  BY <1>1, <1>8
<1>10. ASSUME NEW i \in 0..(m - 1), i \in S
       PROVE  i + 1 \in S
  <2>1. i + 1 \in 0..m /\ i + 1 # 0 /\ (i + 1) - 1 = i
    BY <1>1
  <2>2. F[i + 1] = Body(F, i + 1)
    BY <1>8, <2>1
  <2>3. F[i + 1] = LookOn(d, n, jump, F[i])
    BY <2>1, <2>2
  <2>4. F[i] \in V
    BY <1>10
  <2>5. F[i + 1] \in V
    BY <2>3, <2>4, LookOnIs
  <2> QED
    BY <2>1, <2>5
<1>11. m \in S
  <2> HIDE DEF S, m
  <2>1. 0..m \subseteq S
    BY <1>1, <1>9, <1>10, Induction
  <2> QED
    BY <1>1, <2>1
<1> DEFINE met == F[m].stored
           k == Min({n, Len(met)})
<1>12. met \in Seq(Content(d))
  BY <1>11 DEF Looking
<1> HIDE DEF met
<1>13. k \in Nat /\ k <= Len(met)
  BY <1>12, LesserOfTwo
<1>14. dictGetSomeKeys(d, n, start, jump) = SubSeq(met, 1, k)
  BY <1>7 DEF met
<1> HIDE DEF k
<1>15. SubSeq(met, 1, k) \in Seq(Content(d))
  BY <1>12, <1>13
<1> QED
  BY <1>14, <1>15 DEF Range

-----------------------------------------------------------------------------
(* The map the entries make.                                               *)
MapOf(S) == [k \in {e.key : e \in S} |-> (CHOOSE e \in S : e.key = k).val]

LEMMA AsMapIs ==
  ASSUME NEW d
  PROVE  AsMap(d) = MapOf(Content(d)) /\ DOMAIN AsMap(d) = {e.key : e \in Content(d)}
  BY DEF AsMap, MapOf, Content

LEMMA MapAt ==
  ASSUME NEW d, SoundDict(d), NEW e \in Content(d)
  PROVE  e \in Entry /\ e.key \in DOMAIN AsMap(d) /\ AsMap(d)[e.key] = e.val
<1>1. e \in Entry /\ e.key \in {f.key : f \in Content(d)}
  BY OneInAll
<1>2. \E f \in Content(d) : f.key = e.key
  OBVIOUS
<1> DEFINE f == CHOOSE x \in Content(d) : x.key = e.key
<1>3. f \in Content(d) /\ f.key = e.key
  BY <1>2
<1>4. f = e
  <2> HIDE DEF f
  <2> QED
    BY <1>3, OneInAll
<1>5. MapOf(Content(d))[e.key] = f.val
  BY <1>1 DEF MapOf
<1> QED
  BY <1>1, <1>4, <1>5, AsMapIs

LEMMA MapKeys ==
  ASSUME NEW d, NEW k
  PROVE  k \in DOMAIN AsMap(d) <=> Has(d, k)
<1>1. DOMAIN AsMap(d) = {e.key : e \in Content(d)}
  BY AsMapIs
<1>2. k \in {e.key : e \in Content(d)} <=> Has(d, k)
  BY DEF Has
<1> QED
  BY <1>1, <1>2

Plus(m, k, v) == [x \in DOMAIN m \cup {k} |-> IF x = k THEN v ELSE m[x]]
Minus(m, k) == [x \in DOMAIN m \ {k} |-> m[x]]

LEMMA MapWith ==
  ASSUME NEW d, SoundDict(d), NEW r, SoundDict(r), NEW k, NEW v,
         Content(r) = {x \in Content(d) : x.key # k} \cup {[key |-> k, val |-> v]}
  PROVE  AsMap(r) = Plus(AsMap(d), k, v)
<1> DEFINE e == [key |-> k, val |-> v]
           m == [x \in DOMAIN AsMap(d) \cup {k} |-> IF x = k THEN v ELSE AsMap(d)[x]]
<1>1. e \in Content(r) /\ e.key = k /\ e.val = v
  OBVIOUS
<1>2. DOMAIN AsMap(r) = DOMAIN AsMap(d) \cup {k}
  <2>1. \A x : x \in DOMAIN AsMap(r) <=> Has(r, x)
    BY MapKeys
  <2>2. \A x : x \in DOMAIN AsMap(d) <=> Has(d, x)
    BY MapKeys
  <2>3. \A x : Has(r, x) <=> Has(d, x) \/ x = k
    BY <1>1 DEF Has
  <2> QED
    BY <2>1, <2>2, <2>3
<1>3. ASSUME NEW x \in DOMAIN AsMap(r)
      PROVE  AsMap(r)[x] = IF x = k THEN v ELSE AsMap(d)[x]
  <2>1. CASE x = k
    BY <1>1, <2>1, MapAt
  <2>2. CASE x # k
    <3>1. PICK f \in Content(r) : f.key = x
      BY <1>3, MapKeys DEF Has
    <3>2. f \in Content(d)
      BY <1>1, <2>2, <3>1
    <3>3. AsMap(r)[x] = f.val /\ AsMap(d)[x] = f.val
      BY <3>1, <3>2, MapAt
    <3> QED
      BY <2>2, <3>3
  <2> QED
    BY <2>1, <2>2
<1>4. AsMap(r) = [x \in DOMAIN AsMap(r) |-> AsMap(r)[x]]
  BY AsMapIs DEF MapOf
<1> QED
  BY <1>2, <1>3, <1>4 DEF Plus

LEMMA MapWithout ==
  ASSUME NEW d, SoundDict(d), NEW r, SoundDict(r), NEW k,
         Content(r) = {x \in Content(d) : x.key # k}
  PROVE  AsMap(r) = Minus(AsMap(d), k)
<1>1. DOMAIN AsMap(r) = DOMAIN AsMap(d) \ {k}
  <2>1. \A x : x \in DOMAIN AsMap(r) <=> Has(r, x)
    BY MapKeys
  <2>2. \A x : x \in DOMAIN AsMap(d) <=> Has(d, x)
    BY MapKeys
  <2>3. \A x : Has(r, x) <=> Has(d, x) /\ x # k
    BY DEF Has
  <2> QED
    BY <2>1, <2>2, <2>3
<1>2. ASSUME NEW x \in DOMAIN AsMap(r)
      PROVE  AsMap(r)[x] = AsMap(d)[x]
  <2>1. PICK f \in Content(r) : f.key = x
    BY <1>2, MapKeys DEF Has
  <2>2. f \in Content(d)
    BY <2>1
  <2> QED
    BY <2>1, <2>2, MapAt
<1>3. AsMap(r) = [x \in DOMAIN AsMap(r) |-> AsMap(r)[x]]
  BY AsMapIs DEF MapOf
<1> QED
  BY <1>1, <1>2, <1>3 DEF Minus

LEMMA NothingLeft ==
  ASSUME NEW d, NEW k, ~Has(d, k)
  PROVE  {x \in Content(d) : x.key # k} = Content(d)
  BY DEF Has

LEMMA HasEntry ==
  ASSUME NEW d, SoundDict(d), NEW k \in Keys, Has(d, k), d.ht[0].size # 0
  PROVE  EntryOf(d, k).val = AsMap(d)[k] /\ EntryOf(d, k).val \in Vals
<1>1. EntryOf(d, k).key = k /\ EntryOf(d, k) \in Content(d)
  BY EntryFound
<1>2. EntryOf(d, k) \in Entry /\ AsMap(d)[k] = EntryOf(d, k).val
  BY <1>1, MapAt
<1> QED
  BY <1>2 DEF Entry

-----------------------------------------------------------------------------
(* What holds between two operations.                                      *)
Replies ==
  {"none", "add", "replace", "delete", "find", "random"} \X
    (Keys \cup {None}) \X (Vals \cup BOOLEAN \cup {None})

IInv ==
  /\ SoundDict(dict) /\ dict.iterators = 0
  /\ can_resize \in BOOLEAN
  /\ reply \in Replies

(* Each stage of a rehashing is nearer its end than dict.                  *)
Ahead(r) ==
  IsRehashing(dict) /\ IsRehashing(r) =>
    r.ht[0].size # dict.ht[0].size \/ r.rehashidx > dict.rehashidx

LEMMA SameAhead ==
  ASSUME NEW d, NEW r, SameStage(r, d), Ahead(d)
  PROVE  Ahead(r)
  BY DEF SameStage, Ahead, IsRehashing

LEMMA SteppedIs ==
  ASSUME IInv
  PROVE  Kept(Stepped, dict) /\ Ahead(Stepped)
<1>1. Kept(Stepped, dict)
  BY RehashStep DEF IInv, Stepped
<1>2. Ahead(Stepped)
  <2>1. SUFFICES ASSUME IsRehashing(dict), IsRehashing(Stepped)
                 PROVE  Stepped.rehashidx > dict.rehashidx
    BY DEF Ahead
  <2>2. Carried(Stepped, dict)
    BY <2>1, RehashStep DEF IInv, Stepped
  <2> QED
    BY <2>1, <2>2 DEF Carried
<1> QED
  BY <1>1, <1>2

LEMMA ExpandedIs ==
  ASSUME IInv
  PROVE  /\ ~ExpandFails
         /\ Kept(Expanded, dict) /\ Expanded.ht[0].size # 0 /\ Ahead(Expanded)
<1> DEFINE s == Stepped
<1>1. /\ Kept(s, dict) /\ Ahead(s) /\ SoundDict(s)
  BY SteppedIs DEF Kept
<1>2. Wanted = WantedSize(s, can_resize)
  BY DEF Wanted
<1>3. ExpandFails <=> Wanted # 0 /\ ~CanExpand(s, Wanted)
  BY DEF ExpandFails
<1>4. Expanded = IF Wanted = 0 \/ ExpandFails THEN s ELSE dictExpand(s, Wanted)
  BY DEF Expanded
<1>5. SoundTable(s.ht[0])
  BY <1>1 DEF SoundDict
<1>6. PICK u \in Nat : u = s.ht[0].used
  BY <1>5 DEF SoundTable
<1>7. PICK z \in Nat : z = s.ht[0].size
  BY <1>5 DEF SoundTable
<1> HIDE DEF s
<1>8. CASE IsRehashing(s)
  <2>1. Wanted = 0
    BY <1>2, <1>8 DEF WantedSize
  <2>2. s.ht[0].size # 0
    BY <1>1, <1>8 DEF SoundDict, Moving
  <2> QED
    BY <1>1, <1>3, <1>4, <2>1, <2>2
<1>9. CASE ~IsRehashing(s) /\ ~Overfull(s.ht[0], can_resize)
  <2>1. Wanted = 0
    BY <1>2, <1>9 DEF WantedSize
  <2>2. z # 0
    BY <1>6, <1>7, <1>9 DEF Overfull
  <2> QED
    BY <1>1, <1>3, <1>4, <1>7, <2>1, <2>2
<1>10. CASE ~IsRehashing(s) /\ Overfull(s.ht[0], can_resize)
  <2>1. Wanted = IF z = 0 THEN InitialSize ELSE u * 2
    BY <1>2, <1>6, <1>7, <1>10 DEF WantedSize
  <2>2. u >= z /\ (z = 0 => u = 0)
    <3>1. u >= z
      BY <1>6, <1>7, <1>10 DEF Overfull
    <3>2. z = 0 => u = 0
      BY <1>5, <1>6, <1>7, Nothing
    <3> QED
      BY <3>1, <3>2
  <2>3. InitialSize \in Nat \ {0}
    BY DictTableAssumption
  <2>4. PICK w \in Nat : w = Wanted /\ w # 0 /\ u <= w /\ w > z
    <3>1. Wanted \in Nat /\ Wanted # 0 /\ u <= Wanted /\ Wanted > z
      BY <2>1, <2>2, <2>3
    <3> QED
      BY <3>1
  <2>5. NextPower(w) \in Nat \ {0} /\ NextPower(w) >= w
    BY NextPowerIs
  <2>6. NextPower(w) # z
    BY <2>4, <2>5
  <2>7. CanExpand(s, w)
    BY <1>6, <1>7, <1>10, <2>4, <2>6 DEF CanExpand
  <2>8. ~ExpandFails /\ Expanded = dictExpand(s, w)
    BY <1>3, <1>4, <2>4, <2>7
  <2>9. LET r == dictExpand(s, w) IN
        /\ SoundDict(r) /\ Content(r) = Content(s) /\ r.iterators = s.iterators
        /\ IF s.ht[0].size = 0 THEN r.ht[0].size = NextPower(w)
           ELSE IsRehashing(r) /\ r.ht[0] = s.ht[0]
    BY <1>1, <1>7, <1>10, <2>6, ExpandedDict
  <2>10. Kept(Expanded, dict)
    BY <1>1, <2>8, <2>9 DEF Kept
  <2>11. Expanded.ht[0].size # 0
    BY <2>5, <2>8, <2>9
  <2>12. ASSUME IsRehashing(dict)
         PROVE  Expanded.ht[0].size # dict.ht[0].size
    <3>1. Carried(s, dict)
      BY <2>12, RehashStep DEF IInv, Stepped, s
    <3>2. s.ht[0].size = dict.ht[1].size
      BY <1>10, <3>1 DEF Carried
    <3>3. dict.ht[1].size # dict.ht[0].size /\ dict.ht[1].size # 0
      BY <2>12 DEF IInv, SoundDict, Moving
    <3>4. Expanded.ht[0] = s.ht[0]
      BY <2>8, <2>9, <3>2, <3>3
    <3> QED
      BY <3>2, <3>3, <3>4
  <2> QED
    BY <2>8, <2>10, <2>11, <2>12 DEF Ahead
<1> QED
  BY <1>8, <1>9, <1>10

LEMMA KeptSame ==
  ASSUME NEW r, NEW d, Kept(r, d)
  PROVE  AsMap(r) = AsMap(d) /\ \A k : Has(r, k) <=> Has(d, k)
  BY AsMapIs DEF Kept, Has

LEMMA PresentIs ==
  ASSUME NEW k
  PROVE  Map!Present(k) <=> Has(dict, k)
  BY MapKeys DEF Map!Present

-----------------------------------------------------------------------------
(* Each operation: r is what becomes of the dictionary.                    *)
Left(r) == SoundDict(r) /\ r.iterators = 0 /\ Ahead(r)

LEMMA AddedEntry ==
  ASSUME IInv, NEW k \in Keys, NEW v \in Vals, Holders(Expanded, k) = {}
  PROVE  LET r == Insert(Expanded, k, v) IN
         Left(r) /\ ~Has(dict, k) /\ AsMap(r) = Map!With(k, v)
<1> DEFINE d == Expanded
           r == Insert(d, k, v)
           e == [key |-> k, val |-> v]
<1>1. /\ Kept(d, dict) /\ SoundDict(d) /\ d.ht[0].size # 0 /\ Ahead(d)
      /\ d.iterators = 0
  BY ExpandedIs DEF Kept, IInv
<1>2. ~Has(d, k) /\ ~Has(dict, k)
  BY <1>1, HoldersAre, KeptSame
<1> HIDE DEF d
<1>3. SoundDict(r) /\ Content(r) = Content(d) \cup {e} /\ SameStage(r, d)
  BY <1>1, <1>2, InsertedEntry
<1> HIDE DEF r
<1>4. Left(r)
  BY <1>1, <1>3, SameAhead DEF Left, SameStage
<1>5. Content(r) = {x \in Content(dict) : x.key # k} \cup {e}
  BY <1>1, <1>2, <1>3, NothingLeft DEF Kept
<1>6. SoundDict(dict)
  BY DEF IInv
<1>7. AsMap(r) = Plus(AsMap(dict), k, v)
  BY <1>3, <1>5, <1>6, MapWith
<1> QED
  BY <1>2, <1>4, <1>7 DEF r, d, Map!With, Plus

LEMMA ReplacedEntry ==
  ASSUME IInv, NEW k \in Keys, NEW v \in Vals, Holders(Expanded, k) # {}
  PROVE  LET r == SetVal(Expanded, k, v) IN
         Left(r) /\ Has(dict, k) /\ AsMap(r) = Map!With(k, v)
<1> DEFINE d == Expanded
           r == SetVal(d, k, v)
           e == [key |-> k, val |-> v]
<1>1. /\ Kept(d, dict) /\ SoundDict(d) /\ d.ht[0].size # 0 /\ Ahead(d)
      /\ d.iterators = 0
  BY ExpandedIs DEF Kept, IInv
<1>2. Has(d, k) /\ Has(dict, k)
  BY <1>1, HoldersAre, KeptSame
<1> HIDE DEF d
<1>3. /\ SoundDict(r) /\ Content(r) = {x \in Content(d) : x.key # k} \cup {e}
      /\ SameStage(r, d)
  BY <1>1, <1>2, RevaluedEntry
<1> HIDE DEF r
<1>4. Left(r)
  BY <1>1, <1>3, SameAhead DEF Left, SameStage
<1>5. Content(r) = {x \in Content(dict) : x.key # k} \cup {e}
  BY <1>1, <1>3 DEF Kept
<1>6. SoundDict(dict)
  BY DEF IInv
<1>7. AsMap(r) = Plus(AsMap(dict), k, v)
  BY <1>3, <1>5, <1>6, MapWith
<1> QED
  BY <1>2, <1>4, <1>7 DEF r, d, Map!With, Plus

LEMMA StillThere ==
  ASSUME IInv, NEW k \in Keys, Holders(Expanded, k) # {}
  PROVE  Left(Expanded) /\ Has(dict, k) /\ AsMap(Expanded) = AsMap(dict)
<1>1. /\ Kept(Expanded, dict) /\ SoundDict(Expanded) /\ Expanded.ht[0].size # 0 /\ Ahead(Expanded)
      /\ Expanded.iterators = 0
  BY ExpandedIs DEF Kept, IInv
<1>2. Has(Expanded, k) /\ Has(dict, k)
  BY <1>1, HoldersAre, KeptSame
<1> QED
  BY <1>1, <1>2, KeptSame DEF Left

(* What a lookup or a deletion searches.  An empty dictionary is left      *)
(* alone, rehashing or not.                                                *)
LEMMA LookedIs ==
  ASSUME IInv, NEW k \in Keys
  PROVE  /\ SoundDict(Looked) /\ Looked.iterators = 0 /\ Kept(Looked, dict)
         /\ dictSize(dict) # 0 => Ahead(Looked)
         /\ Found(k) <=> Has(dict, k)
         /\ Found(k) => Looked.ht[0].size # 0 /\ Has(Looked, k) /\ dictSize(dict) # 0
<1>1. SoundDict(dict) /\ dict.iterators = 0 /\ Kept(dict, dict)
  BY DEF IInv, Kept
<1>2. CASE dictSize(dict) = 0
  <2>1. Looked = dict /\ ~Found(k)
    BY <1>2 DEF Looked, Found
  <2>2. Content(dict) = {}
    BY <1>1, <1>2, SizeIs
  <2> QED
    BY <1>1, <1>2, <2>1, <2>2 DEF Has
<1>3. CASE dictSize(dict) # 0
  <2>1. Looked = Stepped /\ (Found(k) <=> Holders(Stepped, k) # {})
    BY <1>3 DEF Looked, Found
  <2>2. Kept(Stepped, dict) /\ Ahead(Stepped) /\ SoundDict(Stepped) /\ Stepped.iterators = 0
    BY <1>1, SteppedIs DEF Kept
  <2>3. Stepped.ht[0].size # 0
    <3>1. Content(dict) # {}
      BY <1>1, <1>3, SizeIs
    <3>2. Content(Stepped) # {}
      BY <2>2, <3>1 DEF Kept
    <3> QED
      BY <2>2, <3>2, SizeIs
  <2>4. Holders(Stepped, k) # {} <=> Has(Stepped, k)
    BY <2>2, <2>3, HoldersAre
  <2>5. Has(Stepped, k) <=> Has(dict, k)
    BY <2>2, KeptSame
  <2> QED
    BY <1>3, <2>1, <2>2, <2>3, <2>4, <2>5
<1> QED
  BY <1>2, <1>3

LEMMA DeletedEntry ==
  ASSUME IInv, NEW k \in Keys, Found(k)
  PROVE  LET r == Unlink(Looked, k) IN
         Left(r) /\ AsMap(r) = Minus(AsMap(dict), k)
<1> DEFINE d == Looked
           r == Unlink(d, k)
<1>1. /\ Kept(d, dict) /\ SoundDict(d) /\ d.ht[0].size # 0 /\ Ahead(d)
      /\ d.iterators = 0 /\ Has(d, k)
  BY LookedIs
<1> HIDE DEF d
<1>2. SoundDict(r) /\ Content(r) = {x \in Content(d) : x.key # k} /\ SameStage(r, d)
  BY <1>1, UnlinkedEntry
<1> HIDE DEF r
<1>3. Left(r)
  BY <1>1, <1>2, SameAhead DEF Left, SameStage
<1>4. Content(r) = {x \in Content(dict) : x.key # k}
  BY <1>1, <1>2 DEF Kept
<1>5. SoundDict(dict)
  BY DEF IInv
<1>6. AsMap(r) = Minus(AsMap(dict), k)
  BY <1>2, <1>4, <1>5, MapWithout
<1> QED
  BY <1>3, <1>6 DEF r, d

LEMMA NotThere ==
  ASSUME IInv, NEW k, ~Has(dict, k)
  PROVE  AsMap(dict) = Minus(AsMap(dict), k)
<1>1. k \notin DOMAIN AsMap(dict)
  BY MapKeys
<1>2. AsMap(dict) = [x \in DOMAIN AsMap(dict) |-> AsMap(dict)[x]]
  BY AsMapIs DEF MapOf
<1>3. DOMAIN AsMap(dict) \ {k} = DOMAIN AsMap(dict)
  BY <1>1
<1> QED
  BY <1>2, <1>3 DEF Minus

LEMMA ReplyIs ==
  ASSUME NEW o \in {"add", "replace", "delete", "find", "random"},
         NEW k \in Keys \cup {None}, NEW x \in Vals \cup BOOLEAN \cup {None}
  PROVE  <<o, k, x>> \in Replies
  BY DEF Replies

LEMMA LeftBehind ==
  ASSUME IInv, Left(dict'), can_resize' \in BOOLEAN, reply' \in Replies
  PROVE  IInv' /\ Ahead(dict')
  BY DEF Left, IInv, Replies

LEMMA Adding ==
  ASSUME IInv, NEW k \in Keys, NEW v \in Vals, dictAdd(k, v)
  PROVE  IInv' /\ Ahead(dict') /\ Map!Add(k, v)
<1>1. ~ExpandFails
  BY ExpandedIs
<1>2. can_resize' \in BOOLEAN
  BY DEF dictAdd, IInv
<1>3. CASE addEntry(k, v) /\ reply' = <<"add", k, TRUE>>
  <2>1. dict' = Insert(Expanded, k, v) /\ Holders(Expanded, k) = {}
    BY <1>3 DEF addEntry
  <2>2. Left(dict') /\ ~Has(dict, k) /\ AsMap(dict') = Map!With(k, v)
    BY <2>1, AddedEntry
  <2>3. reply' \in Replies
    BY <1>3, ReplyIs
  <2>4. ~Map!Present(k)
    BY <2>2, PresentIs
  <2> QED
    BY <1>2, <1>3, <2>2, <2>3, <2>4, LeftBehind DEF Map!Add
<1>4. CASE addFails(k) /\ reply' = <<"add", k, FALSE>>
  <2>1. dict' = Expanded /\ Holders(Expanded, k) # {}
    BY <1>1, <1>4 DEF addFails
  <2>2. Left(dict') /\ Has(dict, k) /\ AsMap(dict') = AsMap(dict)
    BY <2>1, StillThere
  <2>3. reply' \in Replies
    BY <1>4, ReplyIs
  <2>4. Map!Present(k)
    BY <2>2, PresentIs
  <2> QED
    BY <1>2, <1>4, <2>2, <2>3, <2>4, LeftBehind DEF Map!Add
<1> QED
  BY <1>3, <1>4 DEF dictAdd

LEMMA Replacing ==
  ASSUME IInv, NEW k \in Keys, NEW v \in Vals, dictReplace(k, v)
  PROVE  IInv' /\ Ahead(dict') /\ Map!Replace(k, v)
<1>1. can_resize' \in BOOLEAN
  BY DEF dictReplace, IInv
<1>2. CASE addEntry(k, v) /\ reply' = <<"replace", k, TRUE>>
  <2>1. dict' = Insert(Expanded, k, v) /\ Holders(Expanded, k) = {}
    BY <1>2 DEF addEntry
  <2>2. Left(dict') /\ ~Has(dict, k) /\ AsMap(dict') = Map!With(k, v)
    BY <2>1, AddedEntry
  <2>3. reply' \in Replies
    BY <1>2, ReplyIs
  <2>4. Map!Present(k) <=> FALSE
    BY <2>2, PresentIs
  <2> QED
    BY <1>1, <1>2, <2>2, <2>3, <2>4, LeftBehind DEF Map!Replace
<1>3. CASE /\ Holders(Expanded, k) # {}
           /\ dict' = SetVal(Expanded, k, v)
           /\ reply' = <<"replace", k, FALSE>>
  <2>1. Left(dict') /\ Has(dict, k) /\ AsMap(dict') = Map!With(k, v)
    BY <1>3, ReplacedEntry
  <2>2. reply' \in Replies
    BY <1>3, ReplyIs
  <2>3. Map!Present(k) <=> TRUE
    BY <2>1, PresentIs
  <2> QED
    BY <1>1, <1>3, <2>1, <2>2, <2>3, LeftBehind DEF Map!Replace
<1> QED
  BY <1>2, <1>3 DEF dictReplace

LEMMA LookingOnly ==
  ASSUME IInv, NEW k \in Keys
  PROVE  Looked.iterators = 0 /\ SoundDict(Looked) /\ AsMap(Looked) = AsMap(dict)
         /\ (Map!Present(k) <=> Found(k))
  BY LookedIs, KeptSame, PresentIs

LEMMA Deleting ==
  ASSUME IInv, NEW k \in Keys, dictDelete(k)
  PROVE  IInv' /\ (dictSize(dict) # 0 => Ahead(dict')) /\ Map!Delete(k)
<1>1. /\ dict' = IF Found(k) THEN Unlink(Looked, k) ELSE Looked
      /\ reply' = <<"delete", k, Found(k)>> /\ can_resize' = can_resize
  BY DEF dictDelete
<1>2. Found(k) \in BOOLEAN
  BY DEF Found
<1>3. reply' \in Replies
  BY <1>1, <1>2, ReplyIs
<1>4. SoundDict(dict') /\ dict'.iterators = 0 /\ (dictSize(dict) # 0 => Ahead(dict'))
      /\ AsMap(dict') = Minus(AsMap(dict), k)
  <2>1. CASE Found(k)
    BY <1>1, <2>1, DeletedEntry DEF Left
  <2>2. CASE ~Found(k)
    BY <1>1, <2>2, LookedIs, LookingOnly, NotThere
  <2> QED
    BY <2>1, <2>2
<1>5. AsMap(dict') = Map!Restrict(AsMap(dict), DOMAIN AsMap(dict) \ {k})
  BY <1>4 DEF Minus, Map!Restrict
<1>6. reply' = <<"delete", k, Map!Present(k)>>
  <2>1. Map!Present(k) <=> Found(k)
    BY LookingOnly
  <2>2. Map!Present(k) \in BOOLEAN
    BY DEF Map!Present
  <2>3. Map!Present(k) = Found(k)
    BY <1>2, <2>1, <2>2
  <2> QED
    BY <1>1, <2>3
<1>7. IInv'
  BY <1>1, <1>3, <1>4 DEF IInv, Replies
<1> QED
  BY <1>4, <1>5, <1>6, <1>7 DEF Map!Delete

LEMMA Finding ==
  ASSUME IInv, NEW k \in Keys, dictFind(k)
  PROVE  IInv' /\ (dictSize(dict) # 0 => Ahead(dict')) /\ Map!Find(k)
<1> DEFINE x == IF Found(k) THEN EntryOf(Looked, k).val ELSE None
<1>1. dict' = Looked /\ reply' = <<"find", k, x>> /\ can_resize' = can_resize
  BY DEF dictFind
<1>2. SoundDict(dict') /\ dict'.iterators = 0 /\ (dictSize(dict) # 0 => Ahead(dict'))
      /\ AsMap(dict') = AsMap(dict)
  BY <1>1, LookedIs, LookingOnly
<1>3. Map!Present(k) <=> Found(k)
  BY LookingOnly
<1>4. Found(k) => EntryOf(Looked, k).val = AsMap(dict)[k] /\ EntryOf(Looked, k).val \in Vals
  BY HasEntry, LookedIs, LookingOnly
<1>5. x = IF Map!Present(k) THEN AsMap(dict)[k] ELSE None
  BY <1>3, <1>4
<1>6. x \in Vals \cup BOOLEAN \cup {None}
  BY <1>4
<1> HIDE DEF x
<1>7. reply' \in Replies
  BY <1>1, <1>6, ReplyIs
<1> QED
  BY <1>1, <1>2, <1>5, <1>7 DEF IInv, Map!Find, Replies

(* One entry of a table is drawn.                                          *)
LEMMA Drawn ==
  ASSUME NEW d, SoundDict(d), RandomKeyOf(d)
  PROVE  dict' = d /\ \E e \in Content(d) : reply' = <<"random", e.key, e.val>>
<1>1. dict' = d
  BY DEF RandomKeyOf
<1>2. PICK t \in Searched(d) :
        \E b \in Buckets(d.ht[t]) : \E i \in DOMAIN d.ht[t].table[b] :
          reply' = <<"random", d.ht[t].table[b][i].key, d.ht[t].table[b][i].val>>
  BY DEF RandomKeyOf
<1>3. PICK b \in Buckets(d.ht[t]) : \E i \in DOMAIN d.ht[t].table[b] :
        reply' = <<"random", d.ht[t].table[b][i].key, d.ht[t].table[b][i].val>>
  BY <1>2
<1>4. PICK i \in DOMAIN d.ht[t].table[b] :
        reply' = <<"random", d.ht[t].table[b][i].key, d.ht[t].table[b][i].val>>
  BY <1>3
<1>5. d.ht[t].table[b][i] \in Entries(d.ht[t])
  BY <1>3, <1>4 DEF Entries, Range
<1>6. t = 0 \/ t = 1
  BY <1>2 DEF Searched
<1>7. d.ht[t].table[b][i] \in Content(d)
  BY <1>5, <1>6 DEF Content
<1> QED
  BY <1>1, <1>4, <1>7

LEMMA DrawnReply ==
  ASSUME IInv, NEW d, Kept(d, dict), NEW e \in Content(d), dict' = d,
         reply' = <<"random", e.key, e.val>>, can_resize' = can_resize
  PROVE  IInv' /\ Map!RandomKey
<1>1. SoundDict(d) /\ d.iterators = 0 /\ e \in Content(dict) /\ SoundDict(dict)
  BY DEF Kept, IInv
<1>2. e.key \in Keys /\ e.val \in Vals /\ e.key \in DOMAIN AsMap(dict)
      /\ AsMap(dict)[e.key] = e.val
  BY <1>1, MapAt DEF Entry
<1>3. reply' \in Replies
  BY <1>2, ReplyIs
<1>4. AsMap(dict') = AsMap(dict)
  BY KeptSame
<1>5. \E k \in DOMAIN AsMap(dict) : reply' = <<"random", k, AsMap(dict)[k]>>
  BY <1>2
<1>6. IInv'
  BY <1>1, <1>3 DEF IInv, Replies
<1> QED
  BY <1>4, <1>5, <1>6 DEF Map!RandomKey

LEMMA DrawingOne ==
  ASSUME IInv, dictGetRandomKey
  PROVE  IInv' /\ Map!RandomKey
<1>1. can_resize' = can_resize
  BY DEF dictGetRandomKey
<1>2. CASE dictSize(dict) = 0
  <2>1. reply' = <<"random", None, None>> /\ dict' = dict
    BY <1>2 DEF dictGetRandomKey
  <2>2. Content(dict) = {}
    BY <1>2, SizeIs DEF IInv
  <2>3. DOMAIN AsMap(dict) = {}
    BY <2>2, AsMapIs
  <2>4. reply' \in Replies
    BY <2>1, ReplyIs
  <2>5. IInv'
    BY <1>1, <2>1, <2>4 DEF IInv, Replies
  <2> QED
    BY <2>1, <2>3, <2>5 DEF Map!RandomKey
<1>3. CASE dictSize(dict) # 0
  <2>1. RandomKeyOf(Stepped)
    BY <1>3 DEF dictGetRandomKey
  <2>2. Kept(Stepped, dict) /\ SoundDict(Stepped)
    BY SteppedIs DEF Kept
  <2>3. PICK e \in Content(Stepped) : dict' = Stepped /\ reply' = <<"random", e.key, e.val>>
    BY <2>1, <2>2, Drawn
  <2> QED
    BY <1>1, <2>2, <2>3, DrawnReply
<1> QED
  BY <1>2, <1>3

LEMMA DrawingFairly ==
  ASSUME IInv, dictGetFairRandomKey
  PROVE  IInv' /\ Map!RandomKey
<1> DEFINE n == Min({FairEntries, dictSize(dict)})
           d == RehashedFor(dict, n)
           points == 0..(LargestSize(d) - 1)
           met == {Range(dictGetSomeKeys(d, n, p[1], p[2])) : p \in points \X points}
<1>1. /\ n # 0
      /\ \/ RandomKeyOf(dictRehashStep(d))
         \/ \E e \in UNION met : dict' = d /\ reply' = <<"random", e.key, e.val>>
      /\ can_resize' = can_resize
  BY DEF dictGetFairRandomKey
<1>2. SoundDict(dict) /\ dictSize(dict) \in Nat
  BY SizeIs DEF IInv
<1>3. n \in Nat /\ n <= dictSize(dict)
  BY <1>2, DictAssumption, LesserOfTwo
<1> HIDE DEF n
<1>4. Kept(d, dict) /\ SoundDict(d)
  BY <1>2, <1>3, RehashedSeveral DEF Kept
<1>5. d.ht[0].size # 0
  <2>1. dictSize(dict) # 0
    BY <1>1, <1>2, <1>3
  <2>2. Content(d) # {}
    BY <1>2, <1>4, <2>1, SizeIs DEF Kept
  <2> QED
    BY <1>4, <2>2, SizeIs
<1> HIDE DEF d
<1>6. CASE RandomKeyOf(dictRehashStep(d))
  <2> DEFINE s == dictRehashStep(d)
  <2>1. Kept(s, d)
    BY <1>4, RehashStep
  <2>2. Kept(s, dict) /\ SoundDict(s)
    BY <1>4, <2>1 DEF Kept
  <2> HIDE DEF s
  <2>3. PICK e \in Content(s) : dict' = s /\ reply' = <<"random", e.key, e.val>>
    BY <1>6, <2>2, Drawn DEF s
  <2> QED
    BY <1>1, <2>2, <2>3, DrawnReply
<1>7. CASE \E e \in UNION met : dict' = d /\ reply' = <<"random", e.key, e.val>>
  <2>1. PICK e \in UNION met : dict' = d /\ reply' = <<"random", e.key, e.val>>
    BY <1>7
  <2>2. PICK p \in points \X points : e \in Range(dictGetSomeKeys(d, n, p[1], p[2]))
    BY <2>1
  <2>3. p[1] \in Nat /\ p[2] \in Nat
    BY <2>2
  <2>4. e \in Content(d)
    BY <1>3, <1>4, <1>5, <2>2, <2>3, SomeKeys
  <2> QED
    BY <1>1, <1>4, <2>1, <2>4, DrawnReply
<1> QED
  BY <1>1, <1>6, <1>7

LEMMA Resizing ==
  ASSUME IInv, dictResize
  PROVE  IInv' /\ AsMap(dict') = AsMap(dict) /\ reply' = reply
<1> DEFINE n == Minimal(dict)
           r == dictExpand(dict, n)
<1>1. ~IsRehashing(dict) /\ NextPower(n) # dict.ht[0].size /\ dict' = r
      /\ can_resize' = can_resize /\ reply' = reply
  BY DEF dictResize, CanExpand
<1>2. SoundDict(dict) /\ dict.iterators = 0
  BY DEF IInv
<1>3. n \in Nat
  <2>1. PICK u \in Nat : u = dict.ht[0].used
    BY <1>2 DEF SoundDict, SoundTable
  <2>2. InitialSize \in Nat
    BY DictTableAssumption
  <2>3. \E x \in {u, InitialSize} : \A y \in {u, InitialSize} : x >= y
    BY <2>2
  <2>4. Max({u, InitialSize}) \in {u, InitialSize}
    BY <2>3 DEF Max
  <2> QED
    BY <2>1, <2>2, <2>4 DEF Minimal
<1> HIDE DEF n
<1>4. SoundDict(r) /\ Content(r) = Content(dict) /\ r.iterators = dict.iterators
  BY <1>1, <1>2, <1>3, ExpandedDict
<1> HIDE DEF r
<1>5. Kept(r, dict)
  BY <1>4 DEF Kept
<1>6. IInv'
  BY <1>1, <1>2, <1>4 DEF IInv, Replies
<1> QED
  BY <1>1, <1>5, <1>6, KeptSame

LEMMA Emptying ==
  ASSUME IInv, dictEmpty
  PROVE  IInv' /\ Map!Clear
<1>1. dict' = NewDict /\ can_resize' = can_resize /\ reply' = reply
  BY DEF dictEmpty
<1>2. IInv'
  BY <1>1, NewDictSound DEF IInv, Replies
<1>3. AsMap(NewDict) = [k \in {} |-> None]
  <2>1. AsMap(NewDict) = MapOf({})
    BY AsMapIs, NewDictSound
  <2> QED
    BY <2>1 DEF MapOf
<1> QED
  BY <1>1, <1>2, <1>3 DEF Map!Clear

LEMMA Starting ==
  ASSUME DictInit
  PROVE  IInv /\ Map!Init
<1>1. dict = NewDict /\ can_resize = TRUE /\ reply = <<"none", None, None>>
  BY DEF DictInit
<1>2. AsMap(NewDict) = [k \in {} |-> None]
  <2>1. AsMap(NewDict) = MapOf({})
    BY AsMapIs, NewDictSound
  <2> QED
    BY <2>1 DEF MapOf
<1>3. reply \in Replies
  BY <1>1 DEF Replies
<1> QED
  BY <1>1, <1>2, <1>3, NewDictSound DEF IInv, Map!Init

LEMMA Using ==
  ASSUME IInv, Use
  PROVE  IInv' /\ Map!Next /\ (dictSize(dict) # 0 => Ahead(dict'))
<1>1. PICK k \in Keys :
        dictDelete(k) \/ dictFind(k) \/ \E v \in Vals : dictAdd(k, v) \/ dictReplace(k, v)
  BY DEF Use
<1>2. CASE dictDelete(k)
  BY <1>2, Deleting DEF Map!Next
<1>3. CASE dictFind(k)
  BY <1>3, Finding DEF Map!Next
<1>4. ASSUME NEW v \in Vals, dictAdd(k, v)
      PROVE  IInv' /\ Map!Next /\ (dictSize(dict) # 0 => Ahead(dict'))
  BY <1>4, Adding DEF Map!Next
<1>5. ASSUME NEW v \in Vals, dictReplace(k, v)
      PROVE  IInv' /\ Map!Next /\ (dictSize(dict) # 0 => Ahead(dict'))
  BY <1>5, Replacing DEF Map!Next
<1> QED
  BY <1>1, <1>2, <1>3, <1>4, <1>5

-----------------------------------------------------------------------------
(* Every step keeps the invariant, and is a step of the map or leaves it   *)
(* alone.                                                                  *)
LEMMA Stepping ==
  ASSUME IInv, [DictNext]_dictvars
  PROVE  IInv' /\ (Map!Next \/ UNCHANGED <<AsMap(dict), reply>>)
<1>1. CASE Use
  BY <1>1, Using
<1>2. CASE dictGetRandomKey
  BY <1>2, DrawingOne DEF Map!Next
<1>3. CASE dictGetFairRandomKey
  BY <1>3, DrawingFairly DEF Map!Next
<1>4. CASE dictResize
  BY <1>4, Resizing
<1>5. CASE dictEmpty
  BY <1>5, Emptying DEF Map!Next
<1>6. CASE \E b \in BOOLEAN : setResize(b)
  <2>1. dict' = dict /\ reply' = reply /\ can_resize' \in BOOLEAN
    BY <1>6 DEF setResize
  <2> QED
    BY <2>1 DEF IInv, Replies
<1>7. CASE UNCHANGED dictvars
  <2>1. dict' = dict /\ reply' = reply /\ can_resize' = can_resize
    BY <1>7 DEF dictvars
  <2> QED
    BY <2>1 DEF IInv, Replies
<1> QED
  BY <1>1, <1>2, <1>3, <1>4, <1>5, <1>6, <1>7 DEF DictNext

LEMMA InvariantIInv == DictSpec => []IInv
<1>1. DictInit => IInv
  BY Starting
<1>2. IInv /\ [DictNext]_dictvars => IInv'
  BY Stepping
<1> QED
  BY <1>1, <1>2, PTL DEF DictSpec

LEMMA TablesAgreeThen ==
  ASSUME IInv
  PROVE  TablesAgree
<1>1. SoundDict(dict)
  BY DEF IInv
<1>2. dict.iterators \in Nat /\ SoundTable(dict.ht[0]) /\ SoundTable(dict.ht[1])
      /\ KeysIn(dict.ht[0]) \cap KeysIn(dict.ht[1]) = {}
  BY <1>1 DEF SoundDict
<1>3. \A t \in 0..1 : SoundTable(dict.ht[t])
  <2>1. \A t \in 0..1 : t = 0 \/ t = 1
    OBVIOUS
  <2> QED
    BY <1>2, <2>1
<1>4. \A t \in 0..1 :
        /\ dict.ht[t].used \in Nat /\ dict.ht[t].size \in Nat
        /\ dict.ht[t].table \in [0..(dict.ht[t].size - 1) -> Seq(Entry)]
        /\ dict.ht[t].used = Length(dict.ht[t])
  BY <1>3 DEF SoundTable, Length
<1>5. dict.ht[0].size \in Nat
  BY <1>2 DEF SoundTable
<1>6. dict.rehashidx \in -1..dict.ht[0].size
  BY <1>1, <1>5 DEF SoundDict, Moving, IsRehashing
<1>7. DictionaryType(dict)
  BY <1>2, <1>4, <1>6 DEF DictionaryType
<1>8. DictTypeOK
  BY <1>7 DEF DictTypeOK, IInv, Replies
<1>9. KeysPlaced(dict)
  <2>1. ASSUME NEW t \in 0..1, NEW b \in Buckets(dict.ht[t])
        PROVE  SoundChain(dict.ht[t].table[b], dict.ht[t].size, b)
    <3>1. b \in 0..(dict.ht[t].size - 1)
      BY <1>4 DEF Buckets
    <3> QED
      BY <1>3, <3>1 DEF SoundTable
  <2> QED
    BY <1>2, <2>1 DEF KeysPlaced, SoundChain, Slot
<1>10. UsedCounted(dict)
  BY <1>4 DEF UsedCounted
<1>11. FrontMoved(dict)
  <2>1. Buckets(dict.ht[0]) = 0..(dict.ht[0].size - 1)
    BY <1>2 DEF SoundTable, Buckets
  <2>2. CASE IsRehashing(dict)
    BY <1>1, <2>1, <2>2 DEF SoundDict, Moving, FrontMoved
  <2>3. CASE ~IsRehashing(dict)
    <3>1. dict.ht[1].size = 0
      BY <1>1, <2>3, NoTableIs DEF SoundDict
    <3>2. \A b \in 0..(dict.ht[0].size - 1) : ~(b < dict.rehashidx)
      BY <1>5, <2>3 DEF IsRehashing
    <3> QED
      BY <2>1, <2>3, <3>1, <3>2 DEF FrontMoved
  <2> QED
    BY <2>2, <2>3
<1> QED
  BY <1>8, <1>9, <1>10, <1>11 DEF TablesAgree

(* In every stage of a rehashing, and at every size of the tables: each    *)
(* key has one entry in both of them, in the bucket of its hash, used      *)
(* counts the entries, and no bucket behind rehashidx holds one            *)
(* (dictRehash(), dictAddRaw(), dictGenericDelete()).                      *)
THEOREM TablesAlwaysAgree == DictSpec => []TablesAgree
<1>1. IInv => TablesAgree
  BY TablesAgreeThen
<1> QED
  BY <1>1, InvariantIInv, PTL

(* A call that adds, replaces, deletes or finds never leaves a rehashing   *)
(* where it was, if the dictionary holds an entry (_dictRehashStep()).     *)
THEOREM RehashAlwaysAdvances == DictSpec => RehashAdvances
<1>1. IInv /\ [DictNext]_dictvars => [Stalls => ~Use]_dictvars
  <2> SUFFICES ASSUME IInv, Use, Stalls
               PROVE  FALSE
    OBVIOUS
  <2>1. Ahead(dict')
    BY Using DEF Stalls
  <2>2. IsRehashing(dict) /\ IsRehashing(dict') /\ dict'.ht[0].size = dict.ht[0].size
        /\ dict'.rehashidx <= dict.rehashidx
    BY DEF Stalls
  <2>3. dict'.rehashidx > dict.rehashidx
    BY <2>1, <2>2 DEF Ahead
  <2>4. dict.rehashidx \in Int /\ dict'.rehashidx \in Int
    <3>1. IInv'
      BY Using
    <3>2. SoundDict(dict) /\ SoundDict(dict')
      BY <3>1 DEF IInv
    <3>3. Moving(dict) /\ Moving(dict') /\ SoundTable(dict.ht[0]) /\ SoundTable(dict'.ht[0])
      BY <2>2, <3>2 DEF SoundDict
    <3>4. dict.ht[0].size \in Nat /\ dict'.ht[0].size \in Nat
      BY <3>3 DEF SoundTable
    <3> QED
      BY <3>3, <3>4 DEF Moving
  <2> QED
    BY <2>2, <2>3, <2>4
<1> QED
  BY <1>1, InvariantIInv, PTL DEF DictSpec, RehashAdvances

(* Whatever the tables are doing, each call returns what a finite map      *)
(* would, and changes the map they stand for as its name says: the two     *)
(* tables implement the map of DictMap.                                    *)
THEOREM ImplementsMap == DictSpec => MapSpec
<1>1. DictInit => Map!Init
  BY Starting
<1>2. IInv /\ [DictNext]_dictvars => Map!Next \/ UNCHANGED <<AsMap(dict), reply>>
  BY Stepping
<1> QED
  BY <1>1, <1>2, InvariantIInv, PTL DEF DictSpec, MapSpec, Map!Spec, Map!vars
===============================================================================
