------------------------------ MODULE ByteString ------------------------------
(***************************************************************************)
(* What the dynamic strings of sds.c promise: the content of a string, and *)
(* what each call does to it, whatever the header and the buffer are.      *)
(***************************************************************************)
EXTENDS Integers, Sequences, FiniteSets, SequencesExt

VARIABLE bytes      \* the content, empty while there is no string

UpTo(b, t) == SubSeq(t, 1, SelectInSeq(t \o <<b>>, LAMBDA c : c = b) - 1)

BecomesText(t) == bytes' = t
GetsText(t) == bytes' = bytes \o t
GrowsTo(n) == bytes' = bytes \o [i \in 1..(n - Len(bytes)) |-> 0]
LosesTail(n) == bytes' = SubSeq(bytes, 1, Len(bytes) - n)
Stays == UNCHANGED bytes

\* The bytes from the first to the last one that is not in the set.
LosesEnds(set) ==
  LET keep == {i \in 1..Len(bytes) : bytes[i] \notin set}
  IN bytes' = IF keep = {} THEN <<>> ELSE SubSeq(bytes, Min(keep), Max(keep))

\* The bytes at the indexes first to last, which count from the end if they are
\* negative; an index before the first byte is that of the first byte.
BecomesRange(first, last) ==
  LET at(i) == IF i < 0 THEN Max({Len(bytes) + i, 0}) ELSE i
  IN bytes' = SubSeq(bytes, at(first) + 1, Min({at(last) + 1, Len(bytes)}))

IsMapped(from, to) ==
  bytes' = [i \in 1..Len(bytes) |->
              IF bytes[i] \in Range(from)
              THEN to[SelectInSeq(from, LAMBDA c : c = bytes[i])] ELSE bytes[i]]

\* The 26 letters, without and with the difference between the cases.
Capitals == [i \in 1..26 |-> 64 + i]
Smalls == [i \in 1..26 |-> 96 + i]

EndsAtZero == bytes' = UpTo(0, bytes)
=============================================================================
