------------------------------- MODULE Commands -------------------------------
(***************************************************************************)
(* What processCommand() of server.c answers: the command table, the test  *)
(* of the number of arguments, the error of an unknown command, the        *)
(* commands of main.c, and the RESP replies of reply.c they are made with. *)
(*                                                                         *)
(* A text is a sequence of bytes of a small alphabet, a number one byte; a *)
(* word of a fixed text counts as one byte of it.                          *)
(***************************************************************************)
EXTENDS Integers, Sequences, SequencesExt

CONSTANTS
  Digits,        \* a function: byte -> the number it stands for
  LowerCase,     \* a function: upper case letter -> lower case letter
  CommandTable,  \* a function: name in lower case -> record [arity, proc]
  ErrorArgsMax   \* 128, of the arguments an error reply repeats

CRLF == <<"CR", "LF">>
DigitOf(n) == CHOOSE b \in DOMAIN Digits : Digits[b] = n
CString(t) == SubSeq(t, 1, SelectInSeq(Append(t, "NUL"), LAMBDA b : b = "NUL") - 1)

-----------------------------------------------------------------------------
(* Replies.                                                                *)

addReplyStatus(t) == <<"+">> \o t \o CRLF
addReplyLongLongWithPrefix(n, prefix) == <<prefix, DigitOf(n)>> \o CRLF
addReplyArrayLen(n) == addReplyLongLongWithPrefix(n, "*")
addReplyBulk(t) == addReplyLongLongWithPrefix(Len(t), "$") \o t \o CRLF

addReplyErrorLength(t) ==
  (IF t = <<>> \/ t[1] # "-" THEN <<"-", "ERR">> ELSE <<>>) \o t \o CRLF

errorTextAsItIs(t) == t                                    \* mutant
\* No end of line at either end or within the text; what the text is made of are
\* C strings.
OnOneLine[t \in Seq(STRING)] ==
  LET ends == {"CR", "LF"}
      keep == {i \in 1..Len(t) : t[i] \notin ends}
  IN IF keep = {} THEN <<>>
     ELSE [i \in 1..(Max(keep) - Min(keep) + 1) |->
             IF t[Min(keep) + i - 1] \in ends THEN "SP" ELSE t[Min(keep) + i - 1]]
errorText(t) == OnOneLine[t]

addReplyErrorFormat(t) == addReplyErrorLength(errorText(t))

-----------------------------------------------------------------------------
(* The commands of main.c.                                                 *)

Run(proc) ==
  CASE proc = "command" -> addReplyStatus(<<"OK">>)
    [] proc = "ping" -> addReplyStatus(<<"PONG">>)
    [] proc = "set" -> addReplyBulk(<<"set", "command">>)
    [] proc = "get" -> addReplyBulk(<<"get", "command">>)
    [] proc = "test" -> addReplyArrayLen(4) \o addReplyBulk(<<"1">>) \o addReplyBulk(<<"2">>)
                          \o addReplyBulk(<<"3">>) \o addReplyBulk(<<"4">>)
    [] proc = "test1" -> addReplyArrayLen(4) \o addReplyBulk(<<"yukino">>)
                           \o addReplyBulk(<<"mashiro">>) \o addReplyBulk(<<"hachiman">>)
                           \o addReplyBulk(<<"hanser">>)

-----------------------------------------------------------------------------
(* processCommand().                                                       *)

Lowered(t) == [i \in 1..Len(t) |->
                 IF t[i] \in DOMAIN LowerCase THEN LowerCase[t[i]] ELSE t[i]]

\* What lookupCommand() may find.  The hash is of all bytes of the name, but names
\* are compared up to a zero byte: one with more behind it is found if the hashes
\* happen to share a bucket.
lookupCommand(name) ==
  LET hits == {Lowered(name), Lowered(CString(name))} \cap DOMAIN CommandTable
  IN {CommandTable[k] : k \in hits}
MayMiss(name) == Lowered(name) \notin DOMAIN CommandTable

\* Arguments are repeated until the text is long enough.
RepeatArgs(args) ==
  LET from[i \in 1..Len(args) + 1, t \in Seq(STRING)] ==
        IF i > Len(args) \/ Len(t) >= ErrorArgsMax THEN t
        ELSE LET a == CString(args[i])
                 room == ErrorArgsMax - Len(t)
             IN from[i + 1, t \o <<"tick">> \o SubSeq(a, 1, IF Len(a) < room THEN Len(a) ELSE room)
                              \o <<"tick", ",">>]
  IN from[1, <<>>]

unknownCommand(argv) ==
  addReplyErrorFormat(<<"unknown", "command", "tick">> \o CString(argv[1])
                        \o <<"tick", "with", "args">> \o RepeatArgs(Tail(argv)) \o CRLF)

\* What may be answered to a command, a record of the reply and of how many replies
\* it is: a wrong number of arguments is only logged.
NoReply == [text |-> <<>>, count |-> 0]
Reply(t) == [text |-> t, count |-> 1]
WrongArity(cmd, argc) == (cmd.arity > 0 /\ cmd.arity # argc) \/ argc < -cmd.arity

processCommand(argv) ==
  {IF WrongArity(cmd, Len(argv)) THEN NoReply ELSE Reply(Run(cmd.proc)) :
     cmd \in lookupCommand(argv[1])}
  \cup (IF MayMiss(argv[1]) THEN {Reply(unknownCommand(argv))} ELSE {})

-----------------------------------------------------------------------------
(* How a client reads replies (RESP).                                      *)

\* Where the reply that begins at i ends, 0 if what is there is no reply.
LineEnd(t, i) ==
  LET from[j \in i..Len(t) + 1] ==
        IF j >= Len(t) \/ t[j] = "LF" THEN 0
        ELSE IF t[j] # "CR" THEN from[j + 1]
        ELSE IF t[j + 1] = "LF" THEN j + 1 ELSE 0
  IN from[i]

ReplyEnd(t, i) ==
  LET number(j) == IF j < Len(t) /\ t[j] \in DOMAIN Digits THEN Digits[t[j]] ELSE -1
      line(j) == IF j <= Len(t) /\ t[j] \in {"+", "-", ":"} THEN LineEnd(t, j) ELSE 0
      bulk(j) == IF j <= Len(t) - 3 /\ t[j] = "$" /\ number(j + 1) >= 0
                    /\ LineEnd(t, j) = j + 3
                    /\ j + 5 + number(j + 1) <= Len(t)
                    /\ SubSeq(t, j + 4 + number(j + 1), j + 5 + number(j + 1)) = CRLF
                 THEN j + 5 + number(j + 1) ELSE 0
      one(j) == IF bulk(j) # 0 THEN bulk(j) ELSE line(j)
      next(j, k) == IF j = 0 THEN 0 ELSE one(j + 1)
  IN IF t[i] = "*" /\ LineEnd(t, i) = i + 3 /\ number(i + 1) >= 0
     THEN FoldLeft(next, i + 3, [k \in 1..number(i + 1) |-> k])
     ELSE one(i)

\* How many replies a text is, -1 if it is not a sequence of replies.
CountReplies(t) ==
  LET from[i \in 1..Len(t) + 1, n \in 0..Len(t)] ==
        IF i = Len(t) + 1 THEN n
        ELSE IF ReplyEnd(t, i) = 0 THEN -1 ELSE from[ReplyEnd(t, i) + 1, n + 1]
  IN from[1, 0]
=============================================================================
