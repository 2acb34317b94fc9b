------------------------------- MODULE DictWalk -------------------------------
(***************************************************************************)
(* Walks over a dictionary that changes: safe iterators and dictScan() of  *)
(* dict.c.                                                                 *)
(*                                                                         *)
(* From its first dictNext() to its release a safe iterator is counted in  *)
(* the dictionary, which moves no bucket meanwhile.  The only state of a   *)
(* scan is the cursor its caller hands back; it counts in reversed bits,   *)
(* so that the buckets still to come are the same for every size of the    *)
(* table.  Entries are added, deleted and looked up, and the table is      *)
(* resized or emptied, between two calls of either.                        *)
(*                                                                         *)
(* An entry is known by its key: a key has one entry at a time.            *)
(***************************************************************************)
EXTENDS DictTable, FiniteSets

CONSTANTS
  Iters,         \* the iterators
  None,          \* a NULL entry
  W,             \* bits of unsigned long, a power of two
  MaxSize        \* bound on the size of a table

ASSUME DictWalkAssumption ==
  /\ None \notin Keys
  /\ W \in {2^i : i \in 1..6} /\ MaxSize \in 1..(2^W - 1)

VARIABLES
  dict,
  iter,          \* state; table and index; next, the saved nextEntry
  steady,        \* keys present since the iterator's first dictNext()
  seen,          \* how often each of those was returned, at most twice
  cursor,        \* the cursor for the next call of dictScan()
  scanning,      \* a scan has begun and not returned 0 yet
  scanSteady,    \* keys present since the scan began
  scanned        \* those among them that were handed to the callback

walks == <<iter, steady, seen>>
scan == <<cursor, scanning, scanSteady, scanned>>
vars == <<dict, walks, scan>>

Fresh == [state |-> "none", table |-> 0, index |-> -1, next |-> None]

Init ==
  /\ dict = NewDict
  /\ iter = [i \in Iters |-> Fresh]
  /\ steady = [i \in Iters |-> {}]
  /\ seen = [i \in Iters |-> [k \in Keys |-> 0]]
  /\ cursor = 0 /\ scanning = FALSE /\ scanSteady = {} /\ scanned = {}

Active(i) == iter[i].state \in {"active", "done"}
WithIterators(d, n) == Dictionary(d.ht, d.rehashidx, n)
AllKeys == KeysIn(dict.ht[0]) \cup KeysIn(dict.ht[1])

-----------------------------------------------------------------------------
(* Iterators.  One kind of walk is under way at a time.                    *)

dictGetSafeIterator(i) ==
  /\ iter[i].state = "none" /\ ~scanning
  /\ iter' = [iter EXCEPT ![i].state = "new"]
  /\ UNCHANGED <<dict, steady, seen>>

ChainAt(p) == dict.ht[p[1]].table[p[2]]

\* The entry after k in its chain, wherever k is.
After(k) ==
  LET t == dict.ht[Min(Holders(dict, k))]
      c == Chain(t, k)
      n == Min(PosIn(c, k)) + 1
  IN IF n \in DOMAIN c THEN c[n].key ELSE None

\* The buckets still to visit, those of the second table after the first.
Ahead(i) ==
  {p \in {iter[i].table} \X Buckets(dict.ht[iter[i].table]) :
     p[2] > iter[i].index /\ ChainAt(p) # <<>>}
AheadInNew(i) ==
  {p \in {1} \X Buckets(dict.ht[1]) :
     iter[i].table = 0 /\ IsRehashing(dict) /\ ChainAt(p) # <<>>}
NextPlace(i) ==
  LET ps == IF Ahead(i) # {} THEN Ahead(i) ELSE AheadInNew(i)
  IN CHOOSE p \in ps : \A q \in ps : p[2] <= q[2]

returned(i, k) ==
  seen' = [seen EXCEPT ![i][k] =
             IF k \in steady'[i] /\ @ < 2 THEN @ + 1 ELSE @]

startEachTime(i) ==                                       \* mutant
  /\ dict' = WithIterators(dict, dict.iterators + 1)
  /\ IF iter[i].state = "new"
     THEN steady' = [steady EXCEPT ![i] = AllKeys]
     ELSE UNCHANGED steady

\* The first call counts the iterator; it will return what is there now.
start(i) ==
  IF iter[i].state = "new"
  THEN /\ dict' = WithIterators(dict, dict.iterators + 1)
       /\ steady' = [steady EXCEPT ![i] = AllKeys]
  ELSE UNCHANGED <<dict, steady>>

nextInChain(i) ==
  /\ iter[i].state = "active" /\ iter[i].next \in Keys
  /\ UNCHANGED <<dict, steady>>
  /\ iter' = [iter EXCEPT ![i].next = After(iter[i].next)]
  /\ returned(i, iter[i].next)

nextBucket(i) ==
  /\ iter[i].state \in {"new", "active"} /\ iter[i].next = None
  /\ Ahead(i) \cup AheadInNew(i) # {}
  /\ start(i)
  /\ LET p == NextPlace(i)
         k == ChainAt(p)[1].key
     IN /\ iter' = [iter EXCEPT ![i] = [state |-> "active", table |-> p[1],
                                        index |-> p[2], next |-> After(k)]]
        /\ returned(i, k)

nextEnds(i) ==
  /\ iter[i].state \in {"new", "active"} /\ iter[i].next = None
  /\ Ahead(i) \cup AheadInNew(i) = {}
  /\ start(i)
  /\ iter' = [iter EXCEPT ![i].state = "done"]
  /\ UNCHANGED seen

dictNext(i) == nextInChain(i) \/ nextBucket(i) \/ nextEnds(i)

\* The count is unsigned.
dictReleaseIterator(i) ==
  /\ iter[i].state # "none"
  /\ dict' = IF Active(i) THEN WithIterators(dict, (dict.iterators - 1) % 2^W) ELSE dict
  /\ iter' = [iter EXCEPT ![i] = Fresh]
  /\ steady' = [steady EXCEPT ![i] = {}]
  /\ seen' = [seen EXCEPT ![i] = [k \in Keys |-> 0]]

-----------------------------------------------------------------------------
(* Cursors.                                                                *)

Cursors == 0..(2^W - 1)
Bits(v) == [i \in 0..(W - 1) |-> (v \div 2^i) % 2]
Number(bits) == MapThenSumSet(LAMBDA i : bits[i] * 2^i, 0..(W - 1))

\* One round of rev(): the blocks of s bits change places two by two.
SwapBlocks(bits, s) ==
  [i \in DOMAIN bits |->
     IF (i \div s) % 2 = 0 THEN bits[i + s] ELSE bits[i - s]]

rev ==
  [v \in Cursors |->
     LET round[s \in 1..W] ==
           SwapBlocks(IF 2 * s = W THEN Bits(v) ELSE round[2 * s], s)
     IN Number(round[1])]

advancePlainly(v, t) == ((v % t.size) + 1) % t.size             \* mutant

\* v |= ~mask, then v + 1 in reversed bits.
advance(v, t) == rev[(rev[(v % t.size) + (2^W - t.size)] + 1) % 2^W]

KeysAt(t, b) == {t.table[b][i].key : i \in DOMAIN t.table[b]}

-----------------------------------------------------------------------------
(* One call of dictScan(): the keys it hands out and the cursor it returns. *)

scanOneTable(v, t) ==
  [keys |-> KeysAt(t, v % t.size), cursor |-> advance(v, t)]

scanSmallOnly(v, small, large) ==                               \* mutant
  [keys |-> KeysAt(small, v % small.size) \cup KeysAt(large, v % large.size),
   cursor |-> advance(v, small)]

\* The bucket of the smaller table, then the buckets of the larger one that
\* it splits into or was made of.
scanTwoTables(v, small, large) ==
  LET walk[c \in Cursors] ==
        LET n == advance(c, large)
            here == KeysAt(large, c % large.size)
        IN IF (n % large.size) \div small.size # 0
           THEN [keys |-> here \cup walk[n].keys, cursor |-> walk[n].cursor]
           ELSE [keys |-> here, cursor |-> n]
  IN [walk[v] EXCEPT !.keys = @ \cup KeysAt(small, v % small.size)]

Scanned(d, v) ==
  IF dictSize(d) = 0 THEN [keys |-> {}, cursor |-> 0]
  ELSE IF ~IsRehashing(d) THEN scanOneTable(v, d.ht[0])
  ELSE IF d.ht[0].size > d.ht[1].size
       THEN scanTwoTables(v, d.ht[1], d.ht[0])
       ELSE scanTwoTables(v, d.ht[0], d.ht[1])

startScan ==
  /\ ~scanning /\ \A i \in Iters : iter[i].state = "none"
  /\ scanning' = TRUE /\ cursor' = 0
  /\ scanSteady' = AllKeys /\ scanned' = {}
  /\ UNCHANGED dict

dictScan ==
  /\ scanning
  /\ LET r == Scanned(dict, cursor)
     IN /\ cursor' = r.cursor /\ scanning' = (r.cursor # 0)
        /\ scanned' = scanned \cup (r.keys \cap scanSteady)
  /\ UNCHANGED <<dict, scanSteady>>

-----------------------------------------------------------------------------
(* What happens to the dictionary between two calls.                       *)

dictAdd(k, v) ==
  LET s == dictRehashStep(dict)
      n == WantedSize(s, TRUE)
      e == IF n = 0 THEN s ELSE dictExpand(s, n)
  IN /\ n = 0 \/ NextPower(n) <= MaxSize
     /\ dict' = IF Holders(e, k) = {} THEN Insert(e, k, v) ELSE e
     /\ UNCHANGED <<walks, scan>>

\* The code frees the entry also if an iterator saved it to return it next;
\* callers of a safe iterator have to spare it.
dictDelete(k) ==
  LET s == dictRehashStep(dict) IN
  /\ dictSize(dict) # 0 /\ Holders(s, k) # {}
  /\ \A i \in Iters : iter[i].next # k
  /\ dict' = Unlink(s, k)
  /\ steady' = [i \in Iters |-> steady[i] \ {k}]
  /\ seen' = [i \in Iters |-> [seen[i] EXCEPT ![k] = 0]]
  /\ scanSteady' = scanSteady \ {k} /\ scanned' = scanned \ {k}
  /\ UNCHANGED <<iter, cursor, scanning>>

\* A lookup, or a deletion that finds nothing.
dictFind ==
  /\ dictSize(dict) # 0 /\ dict' = dictRehashStep(dict)
  /\ UNCHANGED <<walks, scan>>

\* dictResize(), or a caller's own dictExpand().
resize ==
  \E n \in {Minimal(dict), MaxSize} :
    /\ CanExpand(dict, n)
    /\ dict' = dictExpand(dict, n)
    /\ UNCHANGED <<walks, scan>>

\* The code forgets the count of iterators and frees the entry one of them saved;
\* callers of a safe iterator have to wait for its release.
dictEmpty ==
  /\ \A i \in Iters : ~Active(i)
  /\ dict' = NewDict /\ scanSteady' = {} /\ scanned' = {}
  /\ UNCHANGED <<walks, cursor, scanning>>

Caller ==
  \/ \E k \in Keys : dictDelete(k) \/ \E v \in Vals : dictAdd(k, v)
  \/ dictFind
  \/ resize
  \/ dictEmpty

Iterate(i) == dictGetSafeIterator(i) \/ dictNext(i) \/ dictReleaseIterator(i)

Next ==
  \/ Caller
  \/ \E i \in Iters : Iterate(i) /\ UNCHANGED scan
  \/ (startScan \/ dictScan) /\ UNCHANGED walks

Spec == Init /\ [][Next]_vars

-----------------------------------------------------------------------------
TypeOK ==
  /\ DictionaryType(dict)
  /\ iter \in [Iters -> [state : {"none", "new", "active", "done"}, table : 0..1,
                         index : -1..MaxSize, next : Keys \cup {None}]]
  /\ steady \in [Iters -> SUBSET Keys]
  /\ seen \in [Iters -> [Keys -> 0..2]]
  /\ cursor \in Cursors /\ scanning \in BOOLEAN
  /\ scanned \subseteq scanSteady /\ scanSteady \subseteq Keys

\* An iterator returns every key that is there from its first dictNext() to
\* its last, and none of them twice, whatever else is added and deleted.  The
\* comments of dict.c and dict.h promise it: _dictRehashStep() stands still
\* because "otherwise some element can be missed or duplicated".
EachOnce ==
  \A i \in Iters : \A k \in steady[i] :
    /\ seen[i][k] <= 1
    /\ iter[i].state = "done" => seen[i][k] = 1

\* The dictionary knows how many iterators are under way: the step of rehashing
\* that comes with each use resumes with the release of the last of them, not of
\* the first, and not never (for callers that do not empty it meanwhile).
Counted == TypeOK /\ dict.iterators = Cardinality({i \in Iters : Active(i)})

\* "The function guarantees all elements present in the dictionary get returned
\* between the start and end of the iteration", however often the table was
\* resized on the way.
ScanComplete == ~scanning => scanSteady = scanned

\* Each call brings the scan nearer its end, also when the table was resized
\* since the one before: the reversed cursor grows until it wraps.
CursorAdvances ==
  [][dictScan /\ scanning' => rev[cursor'] > rev[cursor]]_vars
==============================================================================
