----------------------------- MODULE ReplyBuffer -----------------------------
(***************************************************************************)
(* The output side of one client of resp-server: the fixed reply buffer    *)
(* c->buf, the overflow list c->reply, the counters kept about them, and   *)
(* the way beforeSleep() pushes them into the socket (reply.c, server.c).  *)
(*                                                                         *)
(* Reply bytes are numbered 1, 2, 3, ... in the order the commands produce *)
(* them, so the wire carries the replies intact exactly when it reads      *)
(* 1, 2, 3, ...                                                            *)
(***************************************************************************)
EXTENDS Integers, Sequences, SequencesExt

CONSTANTS
  ChunkBytes,    \* PROTO_REPLY_CHUNK_BYTES: sizeof(c->buf), smallest block
  MaxWrites,     \* NET_MAX_WRITES_PER_EVENT
  ReplyLens,     \* the lengths commands pass to addReply()
  Slacks,        \* extra usable bytes malloc may hand out for a block
  SndBuf,        \* capacity of the kernel's send buffer of the connection
  MaxProduced    \* bound on the bytes a behaviour produces

(* The callers in main.c and reply.c never add an empty reply: shared      *)
(* strings, bulk headers and non-empty literals only.                      *)
ASSUME ReplyLensAssumption == ReplyLens \subseteq Nat \ {0}
ASSUME SizesAssumption ==
  /\ ChunkBytes \in Nat \ {0}
  /\ SndBuf \in Nat \ {0}
  /\ MaxWrites \in Nat
  /\ MaxProduced \in Nat
  /\ Slacks \subseteq Nat

VARIABLES
  produced,      \* bytes passed to addReply() so far
  buf,           \* c->buf[0 .. c->bufpos)
  reply,         \* c->reply, a list of blocks [size, data], used = Len(data)
  reply_bytes,   \* c->reply_bytes
  sentlen,       \* c->sentlen
  queued,        \* nodes of server.clients_pending_write that hold c
  handler,       \* EVENT_WRITABLE is registered for c->conn->fd
  closing,       \* nodes of server.clients_to_close that hold c
  totwritten,    \* local of writeToClient()
  wire,          \* the bytes write(2) accepted
  taken,         \* how many of them the peer has acknowledged
  peer,          \* "open", or "gone" once its RST has arrived
  pc             \* "dispatch": the loop runs handlers; "write": inside
                 \* writeToClient(); "written": after its loop; "reap":
                 \* freeClientsInAsyncFreeQueue(); "freed"; "crashed"

contents == <<produced, buf, reply, reply_bytes>>
vars == <<contents, sentlen, queued, handler, closing, totwritten, wire,
          taken, peer, pc>>

clientHasPendingReplies == buf # <<>> \/ reply # <<>>

(* The reply bytes after the m-th, n of them.                              *)
Bytes(m, n) == [i \in 1..n |-> m + i]

MinOf(a, b) == IF a < b THEN a ELSE b
MaxOf(a, b) == IF a < b THEN b ELSE a

Init ==
  /\ produced = 0 /\ buf = <<>> /\ reply = <<>> /\ reply_bytes = 0
  /\ sentlen = 0 /\ queued = 0 /\ handler = FALSE /\ closing = 0
  /\ totwritten = 0 /\ wire = <<>> /\ taken = 0 /\ peer = "open"
  /\ pc = "dispatch"

-----------------------------------------------------------------------------
(* addReply() and its relatives: one call with a string of n bytes.        *)

prepareClientToWriteUnguarded == queued' = queued + 1      \* mutant
(* The client is queued only by the first reply since it had none.         *)
prepareClientToWrite ==
  queued' = IF clientHasPendingReplies THEN queued ELSE queued + 1

FitsInBufOnly(n) == n <= ChunkBytes - Len(buf)             \* mutant
(* The fixed buffer takes the string only while the list is empty.         *)
FitsInBuf(n) == reply = <<>> /\ n <= ChunkBytes - Len(buf)

addReplyToBuffer(n) ==
  /\ FitsInBuf(n)
  /\ buf' = buf \o Bytes(produced, n)
  /\ UNCHANGED <<reply, reply_bytes>>

(* Room left in the tail block of the list.                                *)
TailAvail ==
  IF reply = <<>> THEN 0
  ELSE reply[Len(reply)].size - Len(reply[Len(reply)].data)

ToppedUp(copy) ==
  IF copy = 0 THEN reply
  ELSE [reply EXCEPT ![Len(reply)] =
          [size |-> @.size, data |-> @.data \o Bytes(produced, copy)]]

BlockSizeOfChunk(len) == ChunkBytes                        \* mutant
(* What zmalloc() is asked for: at least a chunk.                          *)
BlockSize(len) == MaxOf(len, ChunkBytes)

newBlockRestart(copy, n) ==                                \* mutant
  \E slack \in Slacks :
    LET size == BlockSize(n - copy) + slack IN
    /\ reply' = Append(ToppedUp(copy),
                  [size |-> size, data |-> Bytes(produced, n - copy)])
    /\ reply_bytes' = reply_bytes + size

newBlockUncounted(copy, n) ==                              \* mutant
  \E slack \in Slacks :
    LET size == BlockSize(n - copy) + slack IN
    /\ reply' = Append(ToppedUp(copy),
                  [size |-> size, data |-> Bytes(produced + copy, n - copy)])
    /\ reply_bytes' = reply_bytes + BlockSize(n - copy)

(* What does not fit in the tail opens a new block, as large as the        *)
(* allocator made usable.                                                  *)
newBlock(copy, n) ==
  \E slack \in Slacks :
    LET size == BlockSize(n - copy) + slack IN
    /\ reply' = Append(ToppedUp(copy),
                  [size |-> size, data |-> Bytes(produced + copy, n - copy)])
    /\ reply_bytes' = reply_bytes + size

addReplyProtoToList(n) ==
  /\ ~FitsInBuf(n)
  /\ LET copy == MinOf(TailAvail, n) IN
       IF n = copy THEN reply' = ToppedUp(copy) /\ UNCHANGED reply_bytes
                   ELSE newBlock(copy, n)
  /\ UNCHANGED buf

(* A command running in the client's read handler adds a reply.  Once the  *)
(* write handler is installed no read handler of this client runs to its   *)
(* end (see WriteHandlerFires), and none after the peer's reset.           *)
addReply(n) ==
  /\ pc = "dispatch" /\ ~handler /\ peer = "open"
  /\ produced + n <= MaxProduced
  /\ prepareClientToWrite
  /\ addReplyToBuffer(n) \/ addReplyProtoToList(n)
  /\ produced' = produced + n
  /\ UNCHANGED <<sentlen, handler, closing, totwritten, wire, taken, peer, pc>>

-----------------------------------------------------------------------------
(* beforeSleep(): handleClientsWithPendingWrites() takes the client off    *)
(* the queue and calls writeToClient(c, 0), one connWrite() per step.      *)

startWrite ==
  /\ pc = "dispatch" /\ queued > 0
  /\ queued' = queued - 1
  /\ totwritten' = 0
  /\ pc' = "write"
  /\ UNCHANGED <<contents, sentlen, handler, closing, wire, taken, peer>>

(* What write(2) takes of a string: all that fits in the send buffer, or   *)
(* less.                                                                   *)
SndFree == SndBuf - (Len(wire) - taken)
connWriteAccepts(len, k) == peer = "open" /\ k \in 1..MinOf(len, SndFree)

(* The bookkeeping after a write of k > 0 bytes.                           *)
accountWritten(k) ==
  /\ totwritten' = totwritten + k
  /\ pc' = IF totwritten + k > MaxWrites THEN "written" ELSE "write"

writeBuf ==
  /\ pc = "write" /\ buf # <<>>
  /\ \E k \in 1..Len(buf) :
       /\ connWriteAccepts(Len(buf) - sentlen, k)
       /\ wire' = wire \o SubSeq(buf, sentlen + 1, sentlen + k)
       /\ accountWritten(k)
       /\ IF sentlen + k = Len(buf)
            THEN buf' = <<>> /\ sentlen' = 0
            ELSE sentlen' = sentlen + k /\ UNCHANGED buf
  /\ UNCHANGED <<produced, reply, reply_bytes, queued, handler, closing,
                 taken, peer>>

(* The head block is fully sent: go to the next one.                       *)
dropHeadBlock ==
  /\ reply' = Tail(reply)
  /\ reply_bytes' = reply_bytes - reply[1].size
  /\ sentlen' = 0

(* No block of the list is empty, so the branch that skips one is dead.    *)
writeHeadBlock ==
  /\ pc = "write" /\ buf = <<>> /\ reply # <<>>
  /\ \E k \in 1..Len(reply[1].data) :
       /\ connWriteAccepts(Len(reply[1].data) - sentlen, k)
       /\ wire' = wire \o SubSeq(reply[1].data, sentlen + 1, sentlen + k)
       /\ accountWritten(k)
       /\ IF sentlen + k = Len(reply[1].data)
            THEN dropHeadBlock
            ELSE sentlen' = sentlen + k /\ UNCHANGED <<reply, reply_bytes>>
  /\ UNCHANGED <<produced, buf, queued, handler, closing, taken, peer>>

(* After C_ERR the caller goes on to the next client of its list.          *)
PhaseAfterError == "reap"

(* write(2) returns -1: EAGAIN with a full send buffer, ECONNRESET after   *)
(* the reset.  The state of an accepted connection is never CONNECTED, so  *)
(* either errno frees the client, and the caller skips createFileEvent().  *)
writeFailed ==
  /\ pc = "write" /\ clientHasPendingReplies
  /\ peer = "gone" \/ SndFree = 0
  /\ closing' = closing + 1
  /\ pc' = PhaseAfterError
  /\ UNCHANGED <<contents, sentlen, queued, handler, totwritten, wire, taken,
                 peer>>

(* EPIPE instead of ECONNRESET: SIGPIPE is never ignored, its default      *)
(* action ends the process.                                                *)
writeKilled ==
  /\ pc = "write" /\ clientHasPendingReplies /\ peer = "gone"
  /\ pc' = "crashed"
  /\ UNCHANGED <<contents, sentlen, queued, handler, closing, totwritten,
                 wire, taken, peer>>

LoopEnded == pc = "written" \/ (pc = "write" /\ ~clientHasPendingReplies)

installWriteHandlerNever == UNCHANGED handler              \* mutant
(* createFileEvent(el, fd, EVENT_WRITABLE, sendReplyToClient, NULL).       *)
installWriteHandler == handler' = TRUE

(* The end of writeToClient() and of the caller's iteration: what is left  *)
(* waits for sendReplyToClient(), and if epoll_ctl() refuses, the client   *)
(* is freed.                                                               *)
finishWrite ==
  /\ LoopEnded
  /\ pc' = "reap"
  /\ \/ /\ ~clientHasPendingReplies
        /\ sentlen' = 0
        /\ UNCHANGED <<handler, closing>>
     \/ /\ clientHasPendingReplies
        /\ installWriteHandler
        /\ UNCHANGED <<sentlen, closing>>
     \/ /\ clientHasPendingReplies
        /\ closing' = closing + 1
        /\ UNCHANGED <<sentlen, handler>>
  /\ UNCHANGED <<contents, queued, totwritten, wire, taken, peer>>

(* freeClientsInAsyncFreeQueue(), one iteration or its end.                *)
reapClient ==
  /\ pc = "reap"
  /\ IF closing > 0
       THEN /\ closing' = closing - 1
            /\ buf' = <<>> /\ reply' = <<>> /\ reply_bytes' = 0
            /\ sentlen' = 0
            /\ handler' = FALSE
            /\ pc' = "freed"
       ELSE /\ pc' = "dispatch"
            /\ UNCHANGED <<buf, reply, reply_bytes, sentlen, handler, closing>>
  /\ UNCHANGED <<produced, queued, totwritten, wire, taken, peer>>

(* The next event of the descriptor.  createFileEvent() registered the     *)
(* write handler with clientData NULL, and the read handler shares it: a   *)
(* readable event fails serverAssert(NULL != conn).  A writable one passes *)
(* the event loop to sendReplyToClient(connection* ), whose private_data   *)
(* is the loop's epData; reading a client there runs past that object and  *)
(* follows what it finds: the build crashes.                               *)
handlerFires ==
  /\ pc = "dispatch" /\ handler
  /\ pc' = "crashed"
  /\ UNCHANGED <<contents, sentlen, queued, handler, closing, totwritten,
                 wire, taken, peer>>

-----------------------------------------------------------------------------
(* The other end and the network.                                          *)

Live == pc \notin {"freed", "crashed"}

peerAcks ==
  /\ Live /\ peer = "open" /\ taken < Len(wire)
  /\ taken' = taken + 1
  /\ UNCHANGED <<contents, sentlen, queued, handler, closing, totwritten,
                 wire, peer, pc>>

peerResets ==
  /\ Live /\ peer = "open"
  /\ peer' = "gone"
  /\ UNCHANGED <<contents, sentlen, queued, handler, closing, totwritten,
                 wire, taken, pc>>

-----------------------------------------------------------------------------
Write == \/ startWrite \/ writeBuf \/ writeHeadBlock \/ writeFailed
         \/ writeKilled \/ finishWrite \/ reapClient

Next == \/ \E n \in ReplyLens : addReply(n)
        \/ Write \/ handlerFires \/ peerAcks \/ peerResets

(* The loop never stops calling processEvents(): once c is queued,         *)
(* beforeSleep() runs to its end.  Nothing is assumed of the peer.         *)
Spec == Init /\ [][Next]_vars
FairSpec == Spec /\ WF_vars(Write)

-----------------------------------------------------------------------------
Block == [size : Nat, data : Seq(Nat)]

Typed ==
  /\ produced \in Nat
  /\ buf \in Seq(Nat)
  /\ reply \in Seq(Block)
  /\ reply_bytes \in Int
  /\ sentlen \in Nat
  /\ queued \in Nat
  /\ handler \in BOOLEAN
  /\ closing \in Nat
  /\ totwritten \in Nat
  /\ wire \in Seq(Nat)
  /\ taken \in Nat
  /\ peer \in {"open", "gone"}
  /\ pc \in {"dispatch", "write", "written", "reap", "freed", "crashed"}

(* Every variable holds a value of its kind, and no list holds the client  *)
(* twice.                                                                  *)
TypeOK == Typed /\ queued \in {0, 1} /\ closing \in {0, 1}

(* The socket receives the reply bytes in the order the commands produced  *)
(* them, none lost, none twice, whatever mix of fixed buffer, topped-up    *)
(* blocks, partial writes and budget breaks they went through.             *)
WireInOrder == \A i \in 1..Len(wire) : wire[i] = i

(* addReplyProtoToList() never copies past the end of a block, nor         *)
(* addReplyToBuffer() past the end of c->buf.                              *)
NoOverflow ==
  /\ Len(buf) <= ChunkBytes
  /\ \A j \in 1..Len(reply) : Len(reply[j].data) <= reply[j].size

(* reply_bytes is the sum of the sizes of the listed blocks: the assertion *)
(* of writeToClient() that it is zero with the list empty cannot fail.     *)
ReplyBytesExact ==
  reply_bytes = FoldLeft(LAMBDA sum, block : sum + block.size, 0, reply)

(* sentlen always counts bytes of the buffer that is being sent, and is    *)
(* short of its end: connWrite() is never called with a length of zero or  *)
(* below, and a new head block starts from its first byte.                 *)
HeadLen == IF buf # <<>> THEN Len(buf)
           ELSE IF reply # <<>> THEN Len(reply[1].data) ELSE 0
SentlenInHead == IF clientHasPendingReplies THEN sentlen < HeadLen
                                            ELSE sentlen = 0

(* Between two flushes a client with unsent bytes is waited for exactly    *)
(* once: one node in clients_pending_write (a second would be a dangling   *)
(* one after the first is freed) or the write handler.                     *)
ScheduledOnce ==
  pc = "dispatch" =>
    queued + (IF handler THEN 1 ELSE 0) =
      (IF clientHasPendingReplies THEN 1 ELSE 0)

(* The client is put on clients_to_close at most once: freeClient() never  *)
(* runs twice.                                                             *)
FreedOnce == closing <= 1 /\ (pc = "freed" => closing = 0)

(* Every reply byte reaches the socket, unless the client is freed, the    *)
(* process dies, or the rest was handed to the write handler.              *)
Flushed ==
  \A i \in 1..MaxProduced :
    produced >= i ~> Len(wire) >= i \/ handler \/ ~Live

(* server.c:739-744: what the TCP buffer does not take now is sent when it *)
(* is writable again.  While it writes, the server gives up a client only  *)
(* because its peer is gone, never because it reads slowly.                *)
SlowPeerKept ==
  [][pc = "write" /\ closing' > closing => peer = "gone"]_vars

-----------------------------------------------------------------------------
(* The client as its peer sees it: a stream of bytes (module ReplyStream). *)
Unsent == LET all == buf \o FlattenSeq([j \in 1..Len(reply) |-> reply[j].data])
          IN  SubSeq(all, sentlen + 1, Len(all))

Stream == INSTANCE ReplyStream WITH
            pending <- IF Live THEN Unsent ELSE <<>>,
            sent <- wire,
            open <- Live

(* The buffers implement the stream.                                       *)
StreamSpec == Stream!Spec
=============================================================================
