----------------------------- MODULE MCTimersDict -----------------------------
(* The timers and the hash table, which know nothing of each other: each     *)
(* moves while the other has not begun.                                      *)
(*                                                                           *)
(* Keys 1 to 3 share a bucket of two, 1 and 2 one of four.                   *)
EXTENDS TimeEvents, Dict

MCKeys == 1..3
MCHash == <<1, 5, 3>>

MCInit == Init /\ DictInit
MCNext == \/ DictInit /\ Next /\ UNCHANGED dictvars
          \/ Init /\ DictNext /\ UNCHANGED vars
MCSpec == MCInit /\ [][MCNext]_<<vars, dictvars>> /\ Fairness
===============================================================================
