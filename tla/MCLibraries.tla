----------------------------- MODULE MCLibraries -----------------------------
(* The two libraries that know nothing of the rest, lists and strings: each *)
(* moves while the other has not begun.                                    *)
(*                                                                         *)
(* Header types for lengths below 2, 3, 4 and 7, strings of up to 4 bytes  *)
(* that are edited: room for 3 bytes and more is allocated with 4 to spare, *)
(* in headers of all five types.  Numbers in radix 3 up to 2^20 - 1, of 1 to *)
(* 13 digits, as there are of 1 to 20 in radix 10.                         *)
EXTENDS AdList, Strings

MCLimit == <<2, 3, 4, 7, 1000>>
MCTexts == {<<>>, <<65>>, <<97, 0>>, <<0, 65, 97>>}
MCSets == {{65}, {65, 97}}
MCSeparators == {<<65>>, <<0>>, <<65, 97>>, <<97, 97>>}

MCMax == 2 ^ 20 - 1
Powers == {Radix ^ k : k \in 0..12}
MCValues == {0, MCMax, -MCMax, -MCMax - 1} \cup Powers \cup {p - 1 : p \in Powers}
              \cup {-p : p \in Powers} \cup {1 - p : p \in Powers}

\* Numbers out of range, and texts that are no number.
Big == {ll2string(64, v) \o d : v \in {MCMax, -MCMax, MCMax - 1, MCMax \div 3, -(MCMax \div 3), MCMax + 1,
                             (2 * MCMax + 1) \div 3, 2 * MCMax + 1}, d \in {<<>>, <<48>>, <<49>>, <<50>>}}
NoNumbers == {<<45>>, <<45, 48>>, <<48, 49>>, <<49, 65>>, <<32, 49>>, <<43, 49>>,
              <<45, 45, 49>>, <<49, 51>>, <<51>>, <<45, 48, 49>>, <<47>>}
\* What is special in quotes and around arguments.
Special == {0, 10, 32, 34, 39, 92, 120, 110, 49, 200}
MCSamples == Big \cup NoNumbers \cup UNION {[1..n -> Special] : n \in 1..3}

Pieces == {<<65>>, <<97, 97>>, <<>>}
MCFormats == {[fmtlen |-> 1, pieces |-> <<<<65>>>>], [fmtlen |-> 0, pieces |-> <<>>],
              [fmtlen |-> 3, pieces |-> <<<<97, 65, 97, 65, 97>>, <<65>>>>],
              [fmtlen |-> 3, pieces |-> <<<<65>>, sdsll2str(-3)>>]}

MCDirectories == {<<47>>, <<47, 98>>, <<47, 98, 98, 47, 99>>, <<47, 98, 47>>}
MCFiles == {b \o FlattenSeq([i \in 1..k |-> Up]) \o r :
              b \in {<<>>, <<32, 9>>, <<47>>}, k \in 0..3,
              r \in {<<>>, <<99>>, <<46, 46>>, <<99, 47, 46, 46, 47, 98, 10>>}}

MCSymmetry == Permutations(Nodes)
MCInit == Init /\ StrInit
MCNext == \/ StrInit /\ Next /\ UNCHANGED strvars
          \/ Init /\ StringsNext /\ UNCHANGED vars
MCSpec == MCInit /\ [][MCNext]_<<vars, strvars>>
=============================================================================
