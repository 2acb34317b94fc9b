---------------------------- MODULE CommandStream ----------------------------
(***************************************************************************)
(* What the request parser of resp-server promises a client: the requests  *)
(* it sends are executed one by one, each once and in order, however the   *)
(* network cuts them, and all of them unless the connection ends first.    *)
(***************************************************************************)
EXTENDS Naturals, Sequences

VARIABLES requests, done, open
vars == <<requests, done, open>>

Init == done = <<>> /\ open = TRUE

Execute ==
  /\ open /\ Len(done) < Len(requests)
  /\ done' = Append(done, requests[Len(done) + 1])
  /\ UNCHANGED <<requests, open>>

Hangup == open /\ open' = FALSE /\ UNCHANGED <<requests, done>>

Next == Execute \/ Hangup

Spec == Init /\ [][Next]_vars /\ WF_vars(Execute)
=============================================================================
