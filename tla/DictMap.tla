------------------------------- MODULE DictMap -------------------------------
(***************************************************************************)
(* What dict.c promises: a finite map from keys to values.  How the map is *)
(* kept, and that it is being moved to a table of another size, is not     *)
(* seen in any result.                                                     *)
(***************************************************************************)
EXTENDS Integers, Functions

CONSTANTS Keys, Vals, None

VARIABLES
  map,      \* the value of each key that is present
  reply     \* the last call and what it returned

vars == <<map, reply>>

Present(k) == k \in DOMAIN map
With(k, v) == [x \in DOMAIN map \cup {k} |-> IF x = k THEN v ELSE map[x]]

Init == map = [k \in {} |-> None] /\ reply = <<"none", None, None>>

Add(k, v) ==
  \/ reply' = <<"add", k, TRUE>> /\ ~Present(k) /\ map' = With(k, v)
  \/ reply' = <<"add", k, FALSE>> /\ Present(k) /\ UNCHANGED map

Replace(k, v) == reply' = <<"replace", k, ~Present(k)>> /\ map' = With(k, v)

Delete(k) ==
  /\ reply' = <<"delete", k, Present(k)>>
  /\ map' = Restrict(map, DOMAIN map \ {k})

Find(k) ==
  /\ reply' = <<"find", k, IF Present(k) THEN map[k] ELSE None>>
  /\ UNCHANGED map

RandomKey ==
  /\ \/ \E k \in DOMAIN map : reply' = <<"random", k, map[k]>>
     \/ DOMAIN map = {} /\ reply' = <<"random", None, None>>
  /\ UNCHANGED map

Clear == UNCHANGED reply /\ map' = [k \in {} |-> None]

Next ==
  \/ \E k \in Keys, v \in Vals : Add(k, v) \/ Replace(k, v)
  \/ \E k \in Keys : Delete(k) \/ Find(k)
  \/ RandomKey
  \/ Clear

Spec == Init /\ [][Next]_vars
==============================================================================
