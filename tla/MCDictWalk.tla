------------------------------ MODULE MCDictWalk ------------------------------
(* Keys 1, 2 and 3 share a bucket of two, 1 and 3 one of four.               *)
EXTENDS DictWalk
MCKeys == 1..3
MCHash == <<1, 3, 5>>
MCSymmetry == Permutations(Iters)
==============================================================================
