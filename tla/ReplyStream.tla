----------------------------- MODULE ReplyStream -----------------------------
(***************************************************************************)
(* What the reply buffers of a client promise: a stream.  Bytes join at    *)
(* its tail in the order they are produced, leave it at its head, and the  *)
(* only way to lose some is to lose the connection with all that is left.  *)
(***************************************************************************)
EXTENDS Integers, Sequences

CONSTANT ReplyLens

VARIABLES pending, sent, open
vars == <<pending, sent, open>>

Init == pending = <<>> /\ sent = <<>> /\ open = TRUE

Produce(n) ==
  /\ open
  /\ pending' = pending \o [i \in 1..n |-> Len(sent) + Len(pending) + i]
  /\ UNCHANGED <<sent, open>>

Send(k) ==
  /\ open
  /\ sent' = sent \o SubSeq(pending, 1, k)
  /\ pending' = SubSeq(pending, k + 1, Len(pending))
  /\ UNCHANGED open

Lose ==
  /\ open
  /\ open' = FALSE
  /\ pending' = <<>>
  /\ UNCHANGED sent

Next == \/ \E n \in ReplyLens : Produce(n)
        \/ \E k \in 1..Len(pending) : Send(k)
        \/ Lose

Spec == Init /\ [][Next]_vars
=============================================================================
