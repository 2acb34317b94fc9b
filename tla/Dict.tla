--------------------------------- MODULE Dict ---------------------------------
(***************************************************************************)
(* dict.c as its callers use it between two iterations: every operation,   *)
(* with the step of rehashing and the expansion it may carry out first.    *)
(* The operations are the actions; what a call returned is in reply.       *)
(***************************************************************************)
EXTENDS DictTable

CONSTANTS
  None,          \* a NULL entry
  FairEntries,   \* GETFAIR_NUM_ENTRIES
  MaxSize        \* bound on the size of a table

ASSUME DictAssumption ==
  None \notin Keys \cup Vals /\ FairEntries \in Nat \ {0} /\ MaxSize \in Nat

VARIABLES
  dict,          \* the dict
  can_resize,    \* dict_can_resize
  reply          \* the last call and what it returned

dictvars == <<dict, can_resize, reply>>

DictInit ==
  /\ dict = NewDict /\ can_resize = TRUE
  /\ reply = <<"none", None, None>>

\* _dictKeyIndex() up to its search: the dictionary a new key would go to.
Stepped == dictRehashStep(dict)
Wanted == WantedSize(Stepped, can_resize)
ExpandFails == Wanted # 0 /\ ~CanExpand(Stepped, Wanted)
Expanded ==
  IF Wanted = 0 \/ ExpandFails THEN Stepped ELSE dictExpand(Stepped, Wanted)

\* Whether the bound on the tables allows the call.
Bounded == Wanted = 0 \/ NextPower(Wanted) <= MaxSize

\* dictAddRaw() that returns NULL leaves the table as it was prepared.
addFails(k) ==
  /\ ExpandFails \/ Holders(Expanded, k) # {}
  /\ dict' = Expanded

addEntry(k, v) ==
  /\ ~ExpandFails /\ Holders(Expanded, k) = {}
  /\ dict' = Insert(Expanded, k, v)

dictAdd(k, v) ==
  /\ Bounded
  /\ \/ addEntry(k, v) /\ reply' = <<"add", k, TRUE>>
     \/ addFails(k) /\ reply' = <<"add", k, FALSE>>
  /\ UNCHANGED can_resize

dictReplace(k, v) ==
  /\ Bounded
  /\ \/ addEntry(k, v) /\ reply' = <<"replace", k, TRUE>>
     \/ /\ ~ExpandFails /\ Holders(Expanded, k) # {}
        /\ dict' = SetVal(Expanded, k, v)
        /\ reply' = <<"replace", k, FALSE>>
  /\ UNCHANGED can_resize

\* The dictionary a lookup or a deletion searches: none if it is empty.
Looked == IF dictSize(dict) = 0 THEN dict ELSE Stepped
Found(k) == dictSize(dict) # 0 /\ Holders(Stepped, k) # {}

dictDelete(k) ==
  /\ dict' = IF Found(k) THEN Unlink(Looked, k) ELSE Looked
  /\ reply' = <<"delete", k, Found(k)>>
  /\ UNCHANGED can_resize

dictFind(k) ==
  /\ dict' = Looked
  /\ reply' = <<"find", k, IF Found(k) THEN EntryOf(Looked, k).val ELSE None>>
  /\ UNCHANGED can_resize

\* A bucket that is not empty is drawn first, then one entry of its chain.
RandomKeyOf(d) ==
  /\ dict' = d
  /\ \E t \in Searched(d) : \E b \in Buckets(d.ht[t]) :
       /\ t = 0 => b >= d.rehashidx
       /\ \E i \in DOMAIN d.ht[t].table[b] :
            LET e == d.ht[t].table[b][i]
            IN reply' = <<"random", e.key, e.val>>

dictGetRandomKey ==
  /\ IF dictSize(dict) = 0 THEN reply' = <<"random", None, None>> /\ UNCHANGED dict
     ELSE RandomKeyOf(Stepped)
  /\ UNCHANGED can_resize

\* One of the FairEntries entries met behind a random point, or of as many as there
\* are; if none was met, one dictGetRandomKey() draws, as it does if there are none.
dictGetFairRandomKey ==
  LET n == Min({FairEntries, dictSize(dict)})
      d == RehashedFor(dict, n)
      points == 0..(LargestSize(d) - 1)
      met == {Range(dictGetSomeKeys(d, n, p[1], p[2])) : p \in points \X points}
  IN /\ n # 0
     /\ \/ {} \in met /\ RandomKeyOf(dictRehashStep(d))
        \/ \E e \in UNION met : dict' = d /\ reply' = <<"random", e.key, e.val>>
     /\ UNCHANGED can_resize

dictResize ==
  /\ can_resize /\ CanExpand(dict, Minimal(dict))
  /\ dict' = dictExpand(dict, Minimal(dict))
  /\ UNCHANGED <<can_resize, reply>>

dictEmpty == dict' = NewDict /\ UNCHANGED <<can_resize, reply>>

setResize(b) == can_resize' = b /\ UNCHANGED <<dict, reply>>

Use ==
  \E k \in Keys :
    \/ dictDelete(k)
    \/ dictFind(k)
    \/ \E v \in Vals : dictAdd(k, v) \/ dictReplace(k, v)

DictNext ==
  \/ Use
  \/ dictGetRandomKey
  \/ dictGetFairRandomKey
  \/ dictResize
  \/ dictEmpty
  \/ \E b \in BOOLEAN : setResize(b)

DictSpec == DictInit /\ [][DictNext]_dictvars

-----------------------------------------------------------------------------
DictTypeOK ==
  /\ DictionaryType(dict)
  /\ can_resize \in BOOLEAN
  /\ reply \in {"none", "add", "replace", "delete", "find", "random"} \X
               (Keys \cup {None}) \X (Vals \cup BOOLEAN \cup {None})

\* The tables agree with themselves and each other in every stage of a rehash.
\* Each key has one entry in both together, in the bucket of its hash: a second
\* entry would come back to life when the first is deleted.  used is the number
\* of entries: dictRehash() throws the old table away when its counter is 0.
\* Nothing is left behind rehashidx, so that a step always finds the bucket it
\* looks for and the assertion at its head holds.
TablesAgree == DictTypeOK /\ KeysPlaced(dict) /\ UsedCounted(dict) /\ FrontMoved(dict)

\* Each use of a dictionary that is not empty brings its rehashing nearer its
\* end: rehashidx grows, or the old table is gone, even if the same call starts
\* another rehashing at once.  As rehashidx is bounded by the size of the old
\* table, a rehashing ends if the dictionary goes on being used.
Stalls ==
  /\ IsRehashing(dict) /\ dictSize(dict) # 0
  /\ IsRehashing(dict') /\ dict'.ht[0].size = dict.ht[0].size
  /\ dict'.rehashidx <= dict.rehashidx
RehashAdvances == [][Stalls => ~Use]_dictvars

\* The results are those of a map, whatever the tables are doing.
Map == INSTANCE DictMap WITH map <- AsMap(dict)
MapSpec == Map!Spec
==============================================================================
