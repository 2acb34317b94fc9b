------------------------------- MODULE ListSeq -------------------------------
(***************************************************************************)
(* What adlist.c promises: lists are sequences of nodes.                   *)
(***************************************************************************)
EXTENDS Naturals, Sequences, SequencesExt

CONSTANTS Nodes, Lists

VARIABLE seq      \* the nodes of each list, from head to tail

Unused == Nodes \ UNION {Range(seq[l]) : l \in Lists}
Becomes(l, s) == seq' = [seq EXCEPT ![l] = s]
Index(l, n) == CHOOSE i \in DOMAIN seq[l] : seq[l][i] = n

Init == seq = [l \in Lists |-> <<>>]

AddHead(l, n) == Becomes(l, <<n>> \o seq[l])
AddTail(l, n) == Becomes(l, Append(seq[l], n))
Insert(l, old, n) ==
  \/ Becomes(l, InsertAt(seq[l], Index(l, old), n))
  \/ Becomes(l, InsertAt(seq[l], Index(l, old) + 1, n))
Delete(l, n) == Becomes(l, RemoveAt(seq[l], Index(l, n)))
Empty(l) == Becomes(l, <<>>)
RotateTailToHead(l) ==
  seq[l] # <<>> /\ Becomes(l, <<Last(seq[l])>> \o Front(seq[l]))
RotateHeadToTail(l) ==
  seq[l] # <<>> /\ Becomes(l, Append(Tail(seq[l]), Head(seq[l])))
Join(l, o) == seq' = [seq EXCEPT ![l] = @ \o seq[o], ![o] = <<>>]

Next ==
  \E l \in Lists :
    \/ \E n \in Unused :
         \/ AddHead(l, n)
         \/ AddTail(l, n)
         \/ \E old \in Range(seq[l]) : Insert(l, old, n)
    \/ \E n \in Range(seq[l]) : Delete(l, n)
    \/ Empty(l)
    \/ RotateTailToHead(l)
    \/ RotateHeadToTail(l)
    \/ \E o \in Lists \ {l} : Join(l, o)

Spec == Init /\ [][Next]_seq
==============================================================================
