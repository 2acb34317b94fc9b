------------------------------ MODULE DictTable ------------------------------
(***************************************************************************)
(* The hash table of dict.c as operators on its value: two tables of       *)
(* chains, the second one only while the entries move to it, one bucket at *)
(* each lookup or update.  A chain is the sequence of its entries, a table *)
(* of size 0 is a NULL table.                                              *)
(***************************************************************************)
EXTENDS Integers, Sequences, FiniteSets, SequencesExt

CONSTANTS
  Keys, Vals,
  Hash,          \* dictHashKey() of each key
  InitialSize,   \* DICT_HT_INITIAL_SIZE
  EmptyVisits,   \* empty buckets one step of rehashing may pass, n*10
  ForceRatio     \* dict_force_resize_ratio

ASSUME DictTableAssumption ==
  /\ Hash \in [Keys -> Nat]
  /\ InitialSize \in Nat \ {0} /\ EmptyVisits \in Nat \ {0}
  /\ ForceRatio \in Nat

Entry == [key : Keys, val : Vals]

Table(n) == [size |-> n, used |-> 0, table |-> [i \in 0..(n - 1) |-> <<>>]]
NoTable == Table(0)
Tables(t0, t1) == [t \in 0..1 |-> IF t = 0 THEN t0 ELSE t1]
Dictionary(ht, idx, iters) ==
  [ht |-> ht, rehashidx |-> idx, iterators |-> iters]
NewDict == Dictionary(Tables(NoTable, NoTable), -1, 0)

IsRehashing(d) == d.rehashidx # -1
dictSize(d) == d.ht[0].used + d.ht[1].used
Slot(k, t) == Hash[k] % t.size
Chain(t, k) == t.table[Slot(k, t)]

-----------------------------------------------------------------------------
(* Moving to a table of another size.                                      *)

\* InitialSize, doubled until it is at least n.
NextPower(n) ==
  LET power[i \in 0..n] == IF i = 0 THEN InitialSize ELSE 2 * power[i - 1]
  IN Min({p \in {power[i] : i \in 0..n} : p >= n})

CanExpand(d, n) ==
  ~IsRehashing(d) /\ d.ht[0].used <= n /\ NextPower(n) # d.ht[0].size

\* The size dictResize() asks for.
Minimal(d) == Max({d.ht[0].used, InitialSize})

dictExpand(d, n) ==
  IF d.ht[0].size = 0
  THEN Dictionary(Tables(Table(NextPower(n)), NoTable), -1, d.iterators)
  ELSE Dictionary(Tables(d.ht[0], Table(NextPower(n))), 0, d.iterators)

\* The table is full, or so full that it grows although resizing is disabled.
Overfull(t, canResize) ==
  /\ t.used >= t.size
  /\ t.size = 0 \/ canResize \/ t.used \div t.size > ForceRatio

\* The size _dictExpandIfNeeded() asks for, or 0 if it asks for none.
WantedSize(d, canResize) ==
  IF IsRehashing(d) \/ ~Overfull(d.ht[0], canResize) THEN 0
  ELSE IF d.ht[0].size = 0 THEN InitialSize ELSE d.ht[0].used * 2

ReceiveOverwrites(t, chain) ==                            \* mutant
  [size |-> t.size, used |-> t.used + Len(chain),
   table |-> [i \in DOMAIN t.table |->
                IF \E j \in DOMAIN chain : Slot(chain[j].key, t) = i
                THEN SelectSeq(chain, LAMBDA e : Slot(e.key, t) = i)
                ELSE t.table[i]]]

WithChain(t, b, chain, used) ==
  [size |-> t.size, used |-> used, table |-> [t.table EXCEPT ![b] = chain]]

\* An entry goes to the head of its chain.
Push(t, e) == WithChain(t, Slot(e.key, t), <<e>> \o Chain(t, e.key), t.used + 1)

\* The entries of a chain go one by one to their new chains.
Receive(t, chain) ==
  LET to[i \in 0..Len(chain)] == IF i = 0 THEN t ELSE Push(to[i - 1], chain[i])
  IN to[Len(chain)]

SwapIfMoved(d) ==
  IF d.ht[0].used = 0
  THEN Dictionary(Tables(d.ht[1], NoTable), -1, d.iterators) ELSE d

MoveBucket(d, b) ==
  LET chain == d.ht[0].table[b] IN
  SwapIfMoved(
    Dictionary(Tables(WithChain(d.ht[0], b, <<>>, d.ht[0].used - Len(chain)),
                      Receive(d.ht[1], chain)),
               b + 1, d.iterators))

NextBucket(d) ==
  Min({b \in d.rehashidx..(d.ht[0].size - 1) : d.ht[0].table[b] # <<>>})

dictRehashStays(d) ==                                     \* mutant
  IF d.ht[0].used = 0 THEN SwapIfMoved(d)
  ELSE IF NextBucket(d) - d.rehashidx >= EmptyVisits
       THEN d ELSE MoveBucket(d, NextBucket(d))

\* dictRehash(d, 1): one bucket, unless too many empty ones come before it.
dictRehash(d) ==
  IF d.ht[0].used = 0 THEN SwapIfMoved(d)
  ELSE IF NextBucket(d) - d.rehashidx >= EmptyVisits
       THEN Dictionary(d.ht, d.rehashidx + EmptyVisits, d.iterators)
       ELSE MoveBucket(d, NextBucket(d))

dictRehashStepAlways(d) ==                                \* mutant
  IF IsRehashing(d) THEN dictRehash(d) ELSE d

dictRehashStep(d) ==
  IF IsRehashing(d) /\ d.iterators = 0 THEN dictRehash(d) ELSE d

-----------------------------------------------------------------------------
(* Lookup and update.                                                      *)

SearchedOld(d) == {0}                                     \* mutant
Searched(d) == IF IsRehashing(d) THEN {0, 1} ELSE {0}
PosIn(chain, k) == {i \in DOMAIN chain : chain[i].key = k}
Holders(d, k) == {t \in Searched(d) : PosIn(Chain(d.ht[t], k), k) # {}}

\* The search loops stop at the first entry of the first table that has one.
TableOf(d, k) == d.ht[Min(Holders(d, k))]
PosOf(d, k) == Min(PosIn(Chain(TableOf(d, k), k), k))
EntryOf(d, k) == Chain(TableOf(d, k), k)[PosOf(d, k)]

SetChain(d, t, k, chain, used) ==
  Dictionary([d.ht EXCEPT ![t] = WithChain(@, Slot(k, @), chain, used)],
             d.rehashidx, d.iterators)

\* New entries go to the table that will remain, at the head of the chain.
Insert(d, k, v) ==
  LET t == IF IsRehashing(d) THEN 1 ELSE 0
  IN Dictionary([d.ht EXCEPT ![t] = Push(@, [key |-> k, val |-> v])],
                d.rehashidx, d.iterators)

SetVal(d, k, v) ==
  SetChain(d, Min(Holders(d, k)), k,
           [Chain(TableOf(d, k), k) EXCEPT ![PosOf(d, k)] =
              [key |-> k, val |-> v]], TableOf(d, k).used)

Unlink(d, k) ==
  SetChain(d, Min(Holders(d, k)), k,
           RemoveAt(Chain(TableOf(d, k), k), PosOf(d, k)), TableOf(d, k).used - 1)

-----------------------------------------------------------------------------
(* dictGetSomeKeys(): n entries met one after the other from a random      *)
(* index on, in both tables.                                               *)

RehashedFor(d, n) ==
  LET after[i \in 0..n] == IF i = 0 THEN d ELSE dictRehashStep(after[i - 1])
  IN after[n]

LargestSize(d) == Max({d.ht[t].size : t \in Searched(d)})

\* The index looked at in the old table: buckets moved are passed over.
FrontOf(d, i) == IF i < d.rehashidx /\ i >= d.ht[1].size THEN d.rehashidx ELSE i

\* Behind five empty buckets in a row, and more than n, the search goes on at jump.
TooManyEmpty(empty, n) == empty >= 5 /\ empty > n

\* Behind the old table's front nothing is left, beyond a table nothing is.
Outside(d, t, i) == (t = 0 /\ i < d.rehashidx) \/ i >= d.ht[t].size

\* Table t is looked at at x.i: empty counts the empty buckets in a row.
LookAt(d, n, jump, x, t) ==
  IF Len(x.stored) >= n \/ t \notin Searched(d) THEN x
  ELSE LET i == IF t = 0 /\ IsRehashing(d) THEN FrontOf(d, x.i) ELSE x.i
           c == d.ht[t].table[i]
       IN IF Outside(d, t, i) THEN [x EXCEPT !.i = i]
          ELSE IF c # <<>> THEN [i |-> i, empty |-> 0, stored |-> x.stored \o c]
          ELSE IF TooManyEmpty(x.empty + 1, n)
          THEN [i |-> jump, empty |-> 0, stored |-> x.stored]
          ELSE [x EXCEPT !.i = i, !.empty = @ + 1]

LookOn(d, n, jump, x) ==
  LET y == LookAt(d, n, jump, LookAt(d, n, jump, x, 0), 1)
  IN [y EXCEPT !.i = (@ + 1) % LargestSize(d)]

dictGetSomeKeys(d, n, start, jump) ==
  LET look[s \in 0..(10 * n)] ==
        IF s = 0 THEN [i |-> start, empty |-> 0, stored |-> <<>>]
        ELSE LookOn(d, n, jump, look[s - 1])
      met == look[10 * n].stored
  IN SubSeq(met, 1, Min({n, Len(met)}))

-----------------------------------------------------------------------------
(* What the tables hold.                                                   *)

Buckets(t) == DOMAIN t.table
Entries(t) == UNION {Range(t.table[b]) : b \in Buckets(t)}
KeysIn(t) == {e.key : e \in Entries(t)}

AsMap(d) ==
  LET all == Entries(d.ht[0]) \cup Entries(d.ht[1])
  IN [k \in {e.key : e \in all} |-> (CHOOSE e \in all : e.key = k).val]

\* The entries counted where they stand.
Places(t) == UNION {{b} \X DOMAIN t.table[b] : b \in Buckets(t)}
Length(t) == Cardinality(Places(t))

\* Each key is in one place only, and in the bucket its hash names.
KeysPlaced(d) ==
  /\ KeysIn(d.ht[0]) \cap KeysIn(d.ht[1]) = {}
  /\ \A t \in 0..1 : \A b \in Buckets(d.ht[t]) :
       LET c == d.ht[t].table[b] IN
       \A i \in DOMAIN c :
         /\ Slot(c[i].key, d.ht[t]) = b
         /\ \A j \in DOMAIN c : c[i].key = c[j].key => i = j

UsedCounted(d) == \A t \in 0..1 : d.ht[t].used = Length(d.ht[t])

\* Buckets already moved stay empty, so what is left lies at or behind
\* rehashidx; the second table exists while there is rehashing to do.
FrontMoved(d) ==
  /\ IsRehashing(d) <=> d.ht[1].size # 0
  /\ \A b \in Buckets(d.ht[0]) : b < d.rehashidx => d.ht[0].table[b] = <<>>

DictionaryType(d) ==
  /\ d.iterators \in Nat /\ d.rehashidx \in -1..d.ht[0].size
  /\ \A t \in 0..1 :
       /\ d.ht[t].used \in Nat /\ d.ht[t].size \in Nat
       /\ d.ht[t].table \in [0..(d.ht[t].size - 1) -> Seq(Entry)]
==============================================================================
