---------------------------- MODULE RequestParser ----------------------------
(***************************************************************************)
(* The input side of one client of resp-server: readQueryFromClient(),     *)
(* processInputBuffer() and processMultibulkBuffer() of server.c.  The     *)
(* client sends RESP requests; read(2) hands them to the server in pieces  *)
(* of any length up to readlen, cut anywhere.                              *)
(*                                                                         *)
(* A byte is a member of a small alphabet; a number of a header is one     *)
(* byte, a member of Digits, and string2ll() reads it (its own algorithm   *)
(* is not part of this module).                                            *)
(***************************************************************************)
EXTENDS Commands

CONSTANTS
  IobufLen,      \* PROTO_IOBUF_LEN
  BigArg,        \* PROTO_MBULK_BIG_ARG
  InlineMax,     \* PROTO_INLINE_MAX_SIZE
  MaxMultibulk,  \* 1024*1024, the limit on the count of a request
  MaxBulkLen,    \* server.proto_max_bulk_len
  MaxQuerybuf,   \* server.client_max_querybuf_len
  Inputs         \* records [requests, tail]: what a client may send

ASSUME SizesAssumption ==
  /\ IobufLen \in Nat \ {0} /\ BigArg > IobufLen
  /\ {BigArg, InlineMax, MaxMultibulk, MaxBulkLen, MaxQuerybuf} \subseteq Nat

(* A digit is no end of line and no end of a string.                       *)
ASSUME DigitsAssumption ==
  /\ DOMAIN Digits \subseteq STRING
  /\ DOMAIN Digits \cap {"CR", "LF", "NUL"} = {}
  /\ Digits \in [DOMAIN Digits -> Int]

Written == {Digits[b] : b \in DOMAIN Digits}

(* The requests of an input are well-formed ones of at least one argument, *)
(* within the limits of the server; the tail is any bytes.                 *)
ASSUME InputsAssumption ==
  \A in \in Inputs :
    /\ in.requests \in Seq(Seq(Seq(STRING))) /\ in.tail \in Seq(STRING)
    /\ \A i \in 1..Len(in.requests) :
         /\ Len(in.requests[i]) \in Written \cap (1..MaxMultibulk)
         /\ \A j \in 1..Len(in.requests[i]) :
              Len(in.requests[i][j]) \in Written \cap (0..MaxBulkLen)

VARIABLES
  requests,      \* the well-formed requests the client sends first
  stream,        \* all its bytes: the requests, then the tail
  recvd,         \* how many of them read(2) has delivered
  querybuf,      \* c->querybuf
  qb_pos,        \* c->qb_pos
  reqtype,       \* c->reqtype: "none", "inline", "multibulk"
  multibulklen,  \* c->multibulklen
  bulklen,       \* c->bulklen
  argv,          \* c->argv[0 .. c->argc)
  argvCap,       \* entries allocated for c->argv, 0 while it is NULL
  executed,      \* the commands handed to processCommand(), with arguments
  reply,         \* the last answer: a record of its bytes and how many replies
                 \* they should be
  ghost,         \* processCommand() went on with a stale argv[0]
  pc             \* "poll": waiting for the socket; "loop": the while of
                 \* processInputBuffer(); "count", "args": the two parts of
                 \* processMultibulkBuffer(); "exec"; "trim"; "closed"; "crashed"

input == <<requests, stream>>
parse == <<reqtype, multibulklen, bulklen, argv, argvCap>>
vars == <<input, recvd, querybuf, qb_pos, parse, executed, reply, ghost, pc>>

-----------------------------------------------------------------------------
(* What a client sends.                                                    *)
EncodeArg(arg) == <<"$", DigitOf(Len(arg))>> \o CRLF \o arg \o CRLF
Encode(req) ==
  <<"*", DigitOf(Len(req))>> \o CRLF
    \o FlattenSeq([i \in 1..Len(req) |-> EncodeArg(req[i])])
EncodeAll(reqs) == FlattenSeq([i \in 1..Len(reqs) |-> Encode(reqs[i])])

Init ==
  /\ \E in \in Inputs :
       requests = in.requests /\ stream = EncodeAll(in.requests) \o in.tail
  /\ recvd = 0 /\ querybuf = <<>> /\ qb_pos = 0
  /\ reqtype = "none" /\ multibulklen = 0 /\ bulklen = -1
  /\ argv = <<>> /\ argvCap = 0
  /\ executed = <<>> /\ reply = NoReply /\ ghost = FALSE /\ pc = "poll"

-----------------------------------------------------------------------------
(* readQueryFromClient().                                                  *)
readlenUnlimited == IobufLen                               \* mutant
(* While a big argument is awaited, no byte past its end is read.          *)
readlen ==
  LET remaining == bulklen + 2 - Len(querybuf) IN
  IF /\ reqtype = "multibulk" /\ multibulklen # 0 /\ bulklen >= BigArg
     /\ remaining > 0 /\ remaining < IobufLen
    THEN remaining ELSE IobufLen

readQuery ==
  /\ pc = "poll" /\ recvd < Len(stream)
  /\ \E n \in 1..readlen :
       /\ recvd + n <= Len(stream)
       /\ recvd' = recvd + n
       /\ querybuf' = querybuf \o SubSeq(stream, recvd + 1, recvd + n)
       /\ pc' = IF Len(querybuf) + n > MaxQuerybuf THEN "closed" ELSE "loop"
  /\ UNCHANGED <<input, qb_pos, parse, executed, reply, ghost>>

(* read(2) returns 0 after the last byte, or an error at any time: the     *)
(* connection is closed.                                                   *)
readEnds ==
  /\ pc = "poll"
  /\ pc' = "closed"
  /\ UNCHANGED <<input, recvd, querybuf, qb_pos, parse, executed, reply,
                 ghost>>

-----------------------------------------------------------------------------
(* processInputBuffer(): the test of its loop and the request type.        *)
loopTest ==
  /\ pc = "loop"
  /\ IF qb_pos >= Len(querybuf)
       THEN pc' = "trim" /\ UNCHANGED reqtype
       ELSE LET type == IF reqtype # "none" THEN reqtype
                        ELSE IF querybuf[qb_pos + 1] = "*" THEN "multibulk"
                        ELSE "inline"
            IN  /\ reqtype' = type
                /\ pc' = IF type = "multibulk" THEN "count" ELSE "exec"
  /\ UNCHANGED <<input, recvd, querybuf, qb_pos, multibulklen, bulklen, argv,
                 argvCap, executed, reply, ghost>>

(* "Trim to pos" at its end.                                               *)
trimToPos ==
  /\ pc = "trim"
  /\ querybuf' = SubSeq(querybuf, qb_pos + 1, Len(querybuf))
  /\ qb_pos' = 0
  /\ pc' = "poll"
  /\ UNCHANGED <<input, recvd, parse, executed, reply, ghost>>

-----------------------------------------------------------------------------
(* processMultibulkBuffer().                                               *)
Unread == Len(querybuf) - qb_pos

(* Offset of the first CR from qb_pos on, -1 if strchr() finds none: it    *)
(* stops at a zero byte.                                                   *)
Newline ==
  LET stops == {i \in qb_pos..(Len(querybuf) - 1) :
                  querybuf[i + 1] \in {"CR", "NUL"}}
      first == CHOOSE i \in stops : \A j \in stops : i <= j
  IN  IF stops = {} \/ querybuf[first + 1] = "NUL" THEN -1 ELSE first

LineCompleteAtCR == TRUE                                   \* mutant
(* The LF has arrived as well.                                             *)
LineComplete == Newline - qb_pos <= Unread - 2

(* string2ll() on what lies between the first byte of the line and its CR. *)
LineNumber == SubSeq(querybuf, qb_pos + 2, Newline)
IsNumber(s) == Len(s) = 1 /\ s[1] \in DOMAIN Digits
string2ll(s) == Digits[s[1]]

ReturnFailed == pc' = "trim"

waitForLine ==
  /\ Newline = -1 \/ ~LineComplete
  /\ IF Newline = -1 /\ Unread > InlineMax
       THEN reply' = Reply(addReplyErrorLength(<<"too", "big">>)) ELSE UNCHANGED reply
  /\ ReturnFailed
  /\ UNCHANGED <<querybuf, qb_pos, multibulklen, bulklen, argv, argvCap>>

(* An error reply; neither the position nor the request moves on.          *)
protocolError(text) ==
  /\ reply' = Reply(text)
  /\ ReturnFailed
  /\ UNCHANGED <<querybuf, qb_pos, multibulklen, bulklen, argv, argvCap>>

newArgvKeepsOld(n) == argvCap' = IF argvCap = 0 THEN n ELSE argvCap \* mutant
(* The array of the last request makes way for one of n entries.           *)
newArgv(n) == argvCap' = n

(* "*<count>\r\n"; a count of zero or less returns success at once.        *)
parseCount ==
  /\ pc = "count"
  /\ \/ /\ multibulklen # 0
        /\ pc' = "args"
        /\ UNCHANGED <<querybuf, qb_pos, multibulklen, bulklen, argv, argvCap,
                       reply>>
     \/ multibulklen = 0 /\ waitForLine
     \/ /\ multibulklen = 0 /\ Newline # -1 /\ LineComplete
        /\ IF ~IsNumber(LineNumber) \/ string2ll(LineNumber) > MaxMultibulk
           THEN protocolError(addReplyErrorLength(<<"invalid", "count">>))
           ELSE LET ll == string2ll(LineNumber) IN
             /\ qb_pos' = Newline + 2
             /\ IF ll <= 0
                  THEN pc' = "exec" /\ UNCHANGED <<multibulklen, argvCap>>
                  ELSE pc' = "args" /\ multibulklen' = ll /\ newArgv(ll)
             /\ UNCHANGED <<querybuf, bulklen, argv, reply>>
  /\ UNCHANGED <<input, recvd, reqtype, executed, ghost>>

(* The header of a big argument that has not arrived whole, or just so, is *)
(* cut off: the buffer begins with the argument.                           *)
startBulk(ll) ==
  LET pos == Newline + 2
      rest == Len(querybuf) - pos
  IN  /\ bulklen' = ll
      /\ IF ll >= BigArg /\ rest <= ll + 2
           THEN querybuf' = SubSeq(querybuf, pos + 1, Len(querybuf))
                /\ qb_pos' = 0
           ELSE qb_pos' = pos /\ UNCHANGED querybuf

(* "$<length>\r\n".                                                        *)
parseBulkHeader ==
  /\ pc = "args" /\ multibulklen # 0 /\ bulklen = -1
  /\ \/ waitForLine
     \/ /\ Newline # -1 /\ LineComplete
        /\ IF querybuf[qb_pos + 1] # "$"
           THEN protocolError(addReplyErrorFormat(
                  <<"expected", "$">> \o CString(<<querybuf[qb_pos + 1]>>)))
           ELSE IF ~IsNumber(LineNumber) \/ string2ll(LineNumber) \notin 0..MaxBulkLen
           THEN protocolError(addReplyErrorLength(<<"invalid", "length">>))
           ELSE /\ startBulk(string2ll(LineNumber))
                /\ UNCHANGED <<multibulklen, argv, argvCap, reply, pc>>
  /\ UNCHANGED <<input, recvd, reqtype, executed, ghost>>

waitForBulk ==
  /\ pc = "args" /\ multibulklen # 0 /\ bulklen # -1
  /\ Unread < bulklen + 2
  /\ ReturnFailed
  /\ UNCHANGED <<input, recvd, querybuf, qb_pos, parse, executed, reply, ghost>>

(* The argument is there with its CRLF, which nobody looks at.  A big one  *)
(* alone in the buffer takes the buffer over, any other one is copied.     *)
takeBulk ==
  /\ pc = "args" /\ multibulklen # 0 /\ bulklen # -1
  /\ Unread >= bulklen + 2
  /\ argv' = Append(argv, SubSeq(querybuf, qb_pos + 1, qb_pos + bulklen))
  /\ IF qb_pos = 0 /\ bulklen >= BigArg /\ Len(querybuf) = bulklen + 2
       THEN querybuf' = <<>> /\ UNCHANGED qb_pos
       ELSE qb_pos' = qb_pos + bulklen + 2 /\ UNCHANGED querybuf
  /\ bulklen' = -1
  /\ multibulklen' = multibulklen - 1
  /\ UNCHANGED <<input, recvd, reqtype, argvCap, executed, reply, ghost, pc>>

argsComplete ==
  /\ pc = "args" /\ multibulklen = 0
  /\ pc' = "exec"
  /\ UNCHANGED <<input, recvd, querybuf, qb_pos, parse, executed, reply, ghost>>

-----------------------------------------------------------------------------
(* processCommand(): looks argv[0] up, runs the command, resets the client.*)
resetClient ==
  /\ argv' = <<>> /\ reqtype' = "none" /\ multibulklen' = 0 /\ bulklen' = -1
  /\ UNCHANGED argvCap

NextPhaseOnce == "trim"                                    \* mutant
(* The loop goes on with the bytes that are left.                          *)
NextPhase == "loop"

execCommand ==
  /\ pc = "exec" /\ argv # <<>>
  /\ executed' = Append(executed, argv)
  /\ reply' \in processCommand(argv)
  /\ resetClient
  /\ pc' = NextPhase
  /\ UNCHANGED <<input, recvd, querybuf, qb_pos, ghost>>

(* A request of no arguments: argv[0] is read all the same.  A NULL argv   *)
(* ends the process; the array of an earlier request holds pointers to     *)
(* freed objects, and reading one crashes or finds what is left there; the *)
(* reply to that is left out.                                              *)
execWithoutArguments ==
  /\ pc = "exec" /\ argv = <<>>
  /\ \/ /\ pc' = "crashed"
        /\ UNCHANGED <<parse, ghost>>
     \/ /\ argvCap # 0
        /\ ghost' = TRUE
        /\ resetClient
        /\ pc' = NextPhase
  /\ UNCHANGED <<input, recvd, querybuf, qb_pos, executed, reply>>

-----------------------------------------------------------------------------
Parse == \/ loopTest \/ trimToPos \/ parseCount \/ parseBulkHeader
         \/ waitForBulk \/ takeBulk \/ argsComplete \/ execCommand
         \/ execWithoutArguments

Next == readQuery \/ readEnds \/ Parse

(* The handler runs to its end, and what the client sent is read unless    *)
(* the connection ends.                                                    *)
Spec == Init /\ [][Next]_vars /\ WF_vars(Parse) /\ WF_vars(readQuery)

-----------------------------------------------------------------------------
TypeOK ==
  /\ recvd \in 0..Len(stream)
  /\ qb_pos \in 0..Len(querybuf)
  /\ reqtype \in {"none", "inline", "multibulk"}
  /\ multibulklen \in 0..MaxMultibulk
  /\ bulklen \in -1..MaxBulkLen
  /\ argvCap \in 0..MaxMultibulk
  /\ reply.count \in 0..1
  /\ ghost \in BOOLEAN
  /\ pc \in {"poll", "loop", "count", "args", "exec", "trim", "closed",
             "crashed"}

CompleteRequests(n) ==
  Max({k \in 0..Len(requests) : Len(EncodeAll(SubSeq(requests, 1, k))) <= n})

(* However the bytes were cut: whenever the server goes back to the poll,  *)
(* it has executed just the requests that have arrived whole, with the     *)
(* arguments the client sent.  The parser does not resynchronise: after a  *)
(* protocol error no byte of the connection is ever executed.              *)
CommandsExact ==
  pc = "poll" => executed = SubSeq(requests, 1, CompleteRequests(recvd))

(* A big argument that comes in several reads has the buffer for itself:   *)
(* read(2) asks for what is missing of it and no more.                     *)
BigArgAlone ==
  [][pc = "poll" /\ pc' = "loop" /\ bulklen >= BigArg =>
       /\ Len(querybuf) < bulklen + 2 /\ Len(querybuf') <= bulklen + 2]_vars

(* argv has one entry for each argument parsed and to be parsed, and the   *)
(* assertions of processMultibulkBuffer() hold (server.c:79, 91, 115).     *)
AssertionsHold ==
  /\ pc = "count" /\ multibulklen = 0 =>
       argv = <<>> /\ querybuf[qb_pos + 1] = "*"
  /\ pc = "args" /\ bulklen # -1 => multibulklen > 0

ArgvFits == TypeOK /\ AssertionsHold /\ Len(argv) + multibulklen <= argvCap

(* Whatever bytes the names and arguments of its requests hold, a client   *)
(* reads one well-formed reply for each command that was executed with a   *)
(* right number of arguments and for each protocol error.                  *)
RepliesFramed == CountReplies(reply.text) = reply.count

(* server.c:274: when processCommand() runs, argv[0] is the command name.  *)
HasCommandName == pc = "exec" => argv # <<>>

Commands == INSTANCE CommandStream WITH
              done <- executed,
              open <- pc \notin {"closed", "crashed"}

(* The parser implements the stream of commands, and executes them all.    *)
CommandsSpec == Commands!Spec
=============================================================================
