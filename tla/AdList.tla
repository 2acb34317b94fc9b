-------------------------------- MODULE AdList --------------------------------
(***************************************************************************)
(* adlist.c: doubly linked lists, their nodes and links as the code keeps  *)
(* them, and an iterator whose list changes between two calls of           *)
(* listNext().  The values of nodes play no part.                          *)
(***************************************************************************)
EXTENDS Integers, FiniteSets, Sequences, SequencesExt

CONSTANTS
  Nodes,         \* what zmalloc() can return
  Lists,
  NULL

ASSUME AdListAssumption == NULL \notin Nodes \cup Lists /\ IsFiniteSet(Nodes)

VARIABLES
  head, tail, len,   \* the lists
  next, prev,        \* the nodes
  unused,            \* nodes not allocated, or freed
  list, li, dir,     \* the list iterated, iter->next, iter->direction
  current,           \* what the last listNext() returned
  steady,            \* nodes in the list since the iterator was set up
  seen               \* the nodes it returned, those freed since left out

lists == <<head, tail, len, next, prev, unused>>
iter == <<list, li, dir, current, steady, seen>>
vars == <<lists, iter>>

Init ==
  /\ head = [l \in Lists |-> NULL] /\ tail = head
  /\ len = [l \in Lists |-> 0]
  /\ next = [n \in Nodes |-> NULL] /\ prev = next /\ unused = Nodes
  /\ list = NULL /\ li = NULL /\ dir = "head" /\ current = NULL
  /\ steady = {} /\ seen = <<>>

-----------------------------------------------------------------------------
(* The nodes of a list, along next and along prev.                         *)

Follow(way, start, n) ==
  LET f[i \in 1..n] ==
        IF i = 1 THEN start
        ELSE IF f[i - 1] \in Nodes THEN way[f[i - 1]] ELSE NULL
  IN f
Forward(l) == Follow(next, head[l], len[l])
Backward(l) == Follow(prev, tail[l], len[l])
NodesOf(l) == Range(Forward(l))

\* The node at an index, counted from the tail if it is negative.
listIndex(l, i) ==
  LET n == IF i < 0 THEN -i ELSE i + 1
      way == IF i < 0 THEN prev ELSE next
  IN Follow(way, IF i < 0 THEN tail[l] ELSE head[l], n)[n]

-----------------------------------------------------------------------------
(* Adding nodes.                                                           *)

allocate(n) == n \in unused /\ unused' = unused \ {n}
count(l, d) == len' = [len EXCEPT ![l] = @ + d]

listAddNodeHead(l) ==
  \E n \in unused :
    /\ allocate(n)
    /\ head' = [head EXCEPT ![l] = n]
    /\ tail' = IF len[l] = 0 THEN [tail EXCEPT ![l] = n] ELSE tail
    /\ next' = [next EXCEPT ![n] = IF len[l] = 0 THEN NULL ELSE head[l]]
    /\ prev' = [m \in Nodes |-> IF m = n THEN NULL
                                ELSE IF len[l] # 0 /\ m = head[l] THEN n
                                ELSE prev[m]]
    /\ count(l, 1) /\ UNCHANGED iter

listAddNodeTail(l) ==
  \E n \in unused :
    /\ allocate(n)
    /\ head' = IF len[l] = 0 THEN [head EXCEPT ![l] = n] ELSE head
    /\ tail' = [tail EXCEPT ![l] = n]
    /\ prev' = [prev EXCEPT ![n] = IF len[l] = 0 THEN NULL ELSE tail[l]]
    /\ next' = [m \in Nodes |-> IF m = n THEN NULL
                                ELSE IF len[l] # 0 /\ m = tail[l] THEN n
                                ELSE next[m]]
    /\ count(l, 1) /\ UNCHANGED iter

\* Links node n between p and q, either of which may be NULL.
link(p, n, q) ==
  /\ next' = [m \in Nodes |-> IF m = n THEN q ELSE IF m = p THEN n ELSE next[m]]
  /\ prev' = [m \in Nodes |-> IF m = n THEN p ELSE IF m = q THEN n ELSE prev[m]]

insertAfterKeepsTail(l, old, n) ==                              \* mutant
  link(old, n, next[old]) /\ UNCHANGED <<head, tail>>

insertAfter(l, old, n) ==
  /\ tail' = IF tail[l] = old THEN [tail EXCEPT ![l] = n] ELSE tail
  /\ link(old, n, next[old])
  /\ UNCHANGED head

insertBefore(l, old, n) ==
  /\ head' = IF head[l] = old THEN [head EXCEPT ![l] = n] ELSE head
  /\ link(prev[old], n, old)
  /\ UNCHANGED tail

listInsertNode(l) ==
  \E old \in NodesOf(l), n \in unused :
    /\ allocate(n)
    /\ insertAfter(l, old, n) \/ insertBefore(l, old, n)
    /\ count(l, 1) /\ UNCHANGED iter

-----------------------------------------------------------------------------
(* Removing and moving nodes.  The links of a freed node are set to NULL   *)
(* here: nothing may read them any more.                                   *)

unlink(l, n) ==
  /\ next' = [m \in Nodes |-> IF m = n THEN NULL
                              ELSE IF m = prev[n] THEN next[n] ELSE next[m]]
  /\ prev' = [m \in Nodes |-> IF m = n THEN NULL
                              ELSE IF m = next[n] THEN prev[n] ELSE prev[m]]
  /\ head' = IF prev[n] = NULL THEN [head EXCEPT ![l] = next[n]] ELSE head
  /\ tail' = IF next[n] = NULL THEN [tail EXCEPT ![l] = prev[n]] ELSE tail

\* While a list is iterated only the node just returned may be deleted.
listDelNode(l, n) ==
  /\ list = l => n = current
  /\ unlink(l, n)
  /\ unused' = unused \cup {n}
  /\ count(l, -1)
  /\ steady' = steady \ {n} /\ seen' = RemoveFirst(seen, n)
  /\ current' = IF current = n THEN NULL ELSE current
  /\ UNCHANGED <<list, li, dir>>

\* The rest is not done to a list that is being iterated.
listEmpty(l) ==
  /\ list # l
  /\ unused' = unused \cup NodesOf(l)
  /\ head' = [head EXCEPT ![l] = NULL] /\ tail' = [tail EXCEPT ![l] = NULL]
  /\ len' = [len EXCEPT ![l] = 0]
  /\ next' = [m \in Nodes |-> IF m \in NodesOf(l) THEN NULL ELSE next[m]]
  /\ prev' = [m \in Nodes |-> IF m \in NodesOf(l) THEN NULL ELSE prev[m]]
  /\ UNCHANGED iter

listRotateTailToHead(l) ==
  /\ list # l /\ len[l] > 1
  /\ LET t == tail[l]
     IN /\ tail' = [tail EXCEPT ![l] = prev[t]]
        /\ next' = [next EXCEPT ![prev[t]] = NULL, ![t] = head[l]]
        /\ prev' = [prev EXCEPT ![head[l]] = t, ![t] = NULL]
        /\ head' = [head EXCEPT ![l] = t]
  /\ UNCHANGED <<len, unused, iter>>

listRotateHeadToTail(l) ==
  /\ list # l /\ len[l] > 1
  /\ LET h == head[l]
     IN /\ head' = [head EXCEPT ![l] = next[h]]
        /\ prev' = [prev EXCEPT ![next[h]] = NULL, ![h] = tail[l]]
        /\ next' = [next EXCEPT ![tail[l]] = h, ![h] = NULL]
        /\ tail' = [tail EXCEPT ![l] = h]
  /\ UNCHANGED <<len, unused, iter>>

joinLinksForwardOnly(l, o) ==                                   \* mutant
  /\ next' = [m \in Nodes |-> IF m = tail[l] THEN head[o] ELSE next[m]]
  /\ UNCHANGED prev

joinLinks(l, o) ==
  /\ prev' = [m \in Nodes |-> IF m = head[o] THEN tail[l] ELSE prev[m]]
  /\ next' = [m \in Nodes |-> IF m = tail[l] THEN head[o] ELSE next[m]]

listJoin(l, o) ==
  /\ l # o /\ list \notin {l, o}
  /\ joinLinks(l, o)
  /\ head' = [head EXCEPT ![l] = IF tail[l] = NULL THEN head[o] ELSE @,
                          ![o] = NULL]
  /\ tail' = [tail EXCEPT ![l] = IF tail[o] # NULL THEN tail[o] ELSE @,
                          ![o] = NULL]
  /\ len' = [len EXCEPT ![l] = @ + len[o], ![o] = 0]
  /\ UNCHANGED <<unused, iter>>

-----------------------------------------------------------------------------
(* Iterators: at most one is in use at a time.                             *)

rewind(l, d, start) ==
  /\ list = NULL
  /\ list' = l /\ dir' = d /\ li' = start /\ current' = NULL
  /\ steady' = NodesOf(l) /\ seen' = <<>>
  /\ UNCHANGED lists

listRewind(l) == rewind(l, "head", head[l])
listRewindTail(l) == rewind(l, "tail", tail[l])

stepHeadOnly == IF li = NULL THEN NULL ELSE next[li]            \* mutant
stepStays == li                                                 \* mutant
step == IF li = NULL THEN NULL ELSE IF dir = "head" THEN next[li] ELSE prev[li]

\* The loop around listNext() ends when it returns NULL.
listNext ==
  /\ list # NULL
  /\ li' = step /\ current' = li
  /\ seen' = IF li = NULL THEN <<>> ELSE Append(seen, li)
  /\ steady' = IF li = NULL THEN {} ELSE steady
  /\ list' = IF li = NULL THEN NULL ELSE list
  /\ UNCHANGED <<lists, dir>>

Next ==
  \/ \E l \in Lists :
       \/ listAddNodeHead(l) \/ listAddNodeTail(l) \/ listInsertNode(l)
       \/ \E n \in NodesOf(l) : listDelNode(l, n)
       \/ listEmpty(l) \/ listRotateTailToHead(l) \/ listRotateHeadToTail(l)
       \/ \E o \in Lists : listJoin(l, o)
       \/ listRewind(l) \/ listRewindTail(l)
  \/ listNext

Spec == Init /\ [][Next]_vars

-----------------------------------------------------------------------------
Pointers == Nodes \cup {NULL}

TypeOK ==
  /\ head \in [Lists -> Pointers] /\ tail \in [Lists -> Pointers]
  /\ len \in [Lists -> 0..Cardinality(Nodes)]
  /\ next \in [Nodes -> Pointers] /\ prev \in [Nodes -> Pointers]
  /\ unused \subseteq Nodes /\ list \in Lists \cup {NULL}
  /\ li \in Pointers /\ current \in Pointers /\ dir \in {"head", "tail"}
  /\ steady \subseteq Nodes /\ seen \in Seq(Nodes)

\* Walked from its tail a list is what it is from its head, turned round, both
\* walks end where len says, and listIndex() finds the same nodes at 0 to len-1
\* and -1 to -len, and nothing one beyond: a link that only one direction knows
\* of would be met by listRewindTail() or by the next deletion.
LinksAgree ==
  TypeOK /\ \A l \in Lists :
    /\ Backward(l) = Reverse(Forward(l))
    /\ \A i \in 1..len[l] :
         /\ listIndex(l, i - 1) = Forward(l)[i]
         /\ listIndex(l, i - 1 - len[l]) = Forward(l)[i]
    /\ listIndex(l, len[l]) = NULL /\ listIndex(l, -len[l] - 1) = NULL
    /\ len[l] = 0 => head[l] = NULL /\ tail[l] = NULL
    /\ len[l] # 0 => NodesOf(l) \cap unused = {}

\* The node an iterator will return next is a node of the list it walks, although
\* the callers of listNext() delete the one it has returned (beforeSleep()).
IteratorLive == li # NULL /\ list # NULL => li \in NodesOf(list)

\* A loop around listNext() meets each node that stays in the list, although
\* nodes are added and met ones deleted on the way, and no node twice.
IteratorComplete ==
  [][/\ listNext => IsInjective(seen')
     /\ listNext /\ li = NULL => steady \subseteq Range(seen)]_vars

\* Each operation does to the sequence of the nodes what its comment says.
Abstract == INSTANCE ListSeq WITH seq <- [l \in Lists |-> Forward(l)]
SeqSpec == Abstract!Spec
==============================================================================
