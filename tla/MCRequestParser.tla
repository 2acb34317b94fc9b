--------------------------- MODULE MCRequestParser ---------------------------
(* Reads of up to 11 bytes, so that one read may bring the end of a        *)
(* request and a whole other one; an argument of 12 bytes is a big one, 13 *)
(* are too many; 5 bytes without a CR are too long a line.  Arguments hold *)
(* CR, LF and what looks like a request.                                   *)
EXTENDS RequestParser, TLC

MCDigits == ("-1" :> -1) @@ ("0" :> 0) @@ ("1" :> 1) @@ ("2" :> 2) @@ ("3" :> 3)
              @@ ("4" :> 4) @@ ("12" :> 12) @@ ("13" :> 13)

\* "a" is the name of a command, "b" and "1" of others.
MCLowerCase == "A" :> "a"
Entry(arity, proc) == [arity |-> arity, proc |-> proc]
MCCommandTable == (<<"a">> :> Entry(-1, "command")) @@ (<<"1">> :> Entry(2, "ping"))
   @@ (<<"p">> :> Entry(0, "ping")) @@ (<<"s">> :> Entry(0, "set"))
   @@ (<<"g">> :> Entry(0, "get")) @@ (<<"t">> :> Entry(0, "test"))
   @@ (<<"u">> :> Entry(0, "test1"))

Big == <<"*", "1", "CR", "LF", "$", "1", "CR", "LF", "a", "CR", "LF", "a">>
Requests1 == { <<<<>>>>, <<Big>>, <<<<"CR">>, Big>>, <<Big, <<>>>> }
RequestLists == {<<>>} \cup {<<r>> : r \in Requests1}
                 \cup {<<r, s>> : r \in Requests1, s \in {<<<<>>>>, <<Big>>}}
                 \cup {<<<<<<>>>>, <<<<>>>>, <<<<>>>>>>}

Ping == <<"*", "1", "CR", "LF", "$", "1", "CR", "LF", "a", "CR", "LF">>

(* What may follow the requests: nothing; part of a request; a bad count,  *)
(* a bad length, a missing "$", each with sound requests behind it; a line *)
(* that never ends; a request of no arguments; an inline request.          *)
Tails ==
  { <<>>, SubSeq(Ping, 1, 3), SubSeq(Ping, 1, 9),
    <<"*", "a", "CR", "LF">> \o Ping \o Ping \o Ping,
    <<"*", "4", "CR", "LF">> \o Ping,
    <<"*", "1", "CR", "LF", "$", "13", "CR", "LF">> \o Ping,
    <<"*", "1", "CR", "LF", "$", "-1", "CR", "LF">> \o Ping,
    <<"*", "2", "CR", "LF", "*", "1", "CR", "LF">> \o Ping,
    <<"*", "2", "CR", "LF", "CR", "LF">> \o Ping,
    <<"*", "1", "1", "1", "1", "1", "1">>,
    <<"*", "1", "CR", "LF", "$", "NUL", "1", "CR", "LF", "1", "1", "1">>,
    <<"*", "0", "CR", "LF">>, <<"*", "-1", "CR", "LF">>,
    <<"a", "CR", "LF">> }

\* One command each: those of the table, letters of either case, numbers of
\* arguments right and wrong, a name with a zero byte, unknown ones with ends of
\* lines and with more arguments than an error repeats.
Single ==
  { <<<<"A">>>>, <<<<"1">>>>, <<<<"1">>, <<"CR">>>>, <<<<"p">>>>, <<<<"s">>, <<"LF">>>>,
    <<<<"g">>>>, <<<<"t">>>>, <<<<"u">>>>, <<<<"a", "NUL">>>>, <<<<"CR", "LF">>>>,
    <<<<"LF", "-">>, <<"CR", "LF", "+", "CR">>>>, <<<<"b">>, <<"a", "CR", "LF", "a">>, <<"NUL">>>> }

MCInputs == {[requests |-> r, tail |-> t] : r \in RequestLists, t \in Tails}
              \cup {[requests |-> <<r>>, tail |-> <<>>] : r \in Single}
=============================================================================
