-------------------------------- MODULE Server --------------------------------
(***************************************************************************)
(* The life of the connections of resp-server: the single-threaded event   *)
(* loop of event.c with the handlers server.c registers in it.             *)
(*                                                                         *)
(* One turn of the loop: beforeSleep() flushes the clients that have       *)
(* replies and frees the ones given up ("flush", "reap"), epoll_wait()     *)
(* collects ready descriptors ("poll"), and their handlers run one after   *)
(* the other ("dispatch", with "accept" inside acceptTcpHandler()).        *)
(* Peers connect, send, hang up and reset at any moment in between.        *)
(*                                                                         *)
(* The bytes are the business of RequestParser and ReplyBuffer: here a     *)
(* request is well-formed and counted, and so are the unsent replies.      *)
(***************************************************************************)
EXTENDS Integers, Sequences, FiniteSets, SequencesExt

CONSTANTS
  maxClient,     \* server.maxClient
  FdsetIncr,     \* CONFIG_FDSET_INCR
  BaseFds,       \* descriptors 0..BaseFds-1 are open before any client; the
                 \* last one listens
  Peers,         \* bound on the connections peers open
  MaxReq,        \* bound on the requests a peer sends
  MaxAccepts,    \* MAX_ACCEPTS_PER_CALL
  SyscallsFail   \* whether epoll_ctl() and accept() may fail

ASSUME ServerAssumption ==
  /\ maxClient \in Nat \ {0} /\ MaxReq \in Nat /\ Peers \in Nat
  /\ BaseFds \in Nat \ {0} /\ FdsetIncr \in Nat /\ BaseFds <= FdsetIncr
  /\ MaxAccepts \in Nat \ {0} /\ SyscallsFail \in BOOLEAN

sizeOfClients == maxClient            \* mutant
size == maxClient + FdsetIncr        \* el->size, set by createEventLoop()
ipFd == BaseFds - 1
Clients == 1..Peers                  \* client ids, in the order of accept()
Fds == 0..(BaseFds + Peers)
NULL == 0

VARIABLES
  clients,       \* server.clients
  conn,          \* c->conn: "none" before accept; "open"; "dangling" once
                 \* the connection object is freed; "freed" with the client
  fd,            \* conn->fd
  mask,          \* el->fileEvents[fd].mask, a subset of {"R", "W"}
  clientData,    \* el->fileEvents[fd].clientData: the client whose connection
                 \* it is, or NULL
  interest,      \* what the kernel watches each descriptor for
  maxfd,         \* el->maxfd
  fired,         \* el->firedFileEvents[] still to be dispatched; "of" records
                 \* whose descriptor it was when the kernel reported it
  max,           \* accepts left in this call of acceptTcpHandler()
  pending_write, \* server.clients_pending_write
  to_close,      \* server.clients_to_close
  current,       \* server.current_client
  out,           \* unsent replies of a client; two are more than a flush sends
  backlog,       \* connections waiting for accept()
  dialled,       \* connections opened by peers so far
  inbox,         \* requests waiting in the socket
  asked,         \* requests sent by the peer so far
  peer,          \* "open", "eof" after a shutdown, "gone" after a reset
  phase

events == <<mask, clientData, interest, maxfd>>
lists == <<clients, pending_write, to_close, current>>
net == <<backlog, dialled, inbox, asked, peer>>
vars == <<lists, conn, fd, events, fired, max, out, net, phase>>

Init ==
  /\ clients = {} /\ pending_write = <<>> /\ to_close = <<>> /\ current = NULL
  /\ conn = [c \in Clients |-> "none"] /\ fd = [c \in Clients |-> -1]
  /\ mask = [f \in Fds |-> IF f = ipFd THEN {"R"} ELSE {}]
  /\ clientData = [f \in Fds |-> NULL]
  /\ interest = mask
  /\ maxfd = ipFd /\ fired = <<>> /\ max = 0
  /\ out = [c \in Clients |-> 0]
  /\ backlog = 0 /\ dialled = 0
  /\ inbox = [c \in Clients |-> 0] /\ asked = [c \in Clients |-> 0]
  /\ peer = [c \in Clients |-> "open"]
  /\ phase = "flush"

Open(c) == conn[c] = "open"
OpenFds == {fd[c] : c \in {d \in Clients : Open(d)}}

-----------------------------------------------------------------------------
(* event.c: registering and removing file events.                          *)

createFileEventReplaces(f, m, data) ==                     \* mutant
  /\ f < size
  /\ mask' = [mask EXCEPT ![f] = @ \cup m]
  /\ interest' = [interest EXCEPT ![f] = m]
  /\ clientData' = [clientData EXCEPT ![f] = data]
  /\ maxfd' = IF f > maxfd THEN f ELSE maxfd

(* It succeeds: epoll_ctl() adds or modifies the interest, the one         *)
(* clientData of the descriptor is overwritten.                            *)
createFileEvent(f, m, data) ==
  /\ f < size
  /\ mask' = [mask EXCEPT ![f] = @ \cup m]
  /\ interest' = [interest EXCEPT ![f] = mask[f] \cup m]
  /\ clientData' = [clientData EXCEPT ![f] = data]
  /\ maxfd' = IF f > maxfd THEN f ELSE maxfd

createFileEventFails(f) ==
  /\ f >= size \/ SyscallsFail
  /\ UNCHANGED events

(* The loop of deleteFileEvent() that lowers maxfd: past the empty entries *)
(* below, and one short of the first used one.                             *)
LowerMaxfd(masks) ==
  LET used == {j \in 0..(maxfd - 1) : masks[j] # {}}
  IN  IF used = {} THEN 0 ELSE Max(used) + 1

(* connSocketClose(): both events go, close(2) takes the descriptor off    *)
(* the kernel's list; clientData keeps its value.                          *)
deleteFileEvents(f) ==
  IF f >= size \/ mask[f] = {}
    THEN UNCHANGED events
    ELSE LET masks == [mask EXCEPT ![f] = {}] IN
         /\ mask' = masks
         /\ interest' = [interest EXCEPT ![f] = {}]
         /\ maxfd' = IF f = maxfd THEN LowerMaxfd(masks) ELSE maxfd
         /\ UNCHANGED clientData

-----------------------------------------------------------------------------
(* beforeSleep(), first part: one node of clients_pending_write is removed *)
(* and its client written to.                                              *)

AddToClose(c) == to_close' = Append(to_close, c)

registrationFailsUnchecked(c) ==                           \* mutant
  createFileEventFails(fd[c]) /\ UNCHANGED to_close
registrationFails(c) == createFileEventFails(fd[c]) /\ AddToClose(c)

(* writeToClient() sends everything; one reply more than the budget or the *)
(* socket takes stays behind and a write handler is asked for; write(2)    *)
(* fails; or the reset peer's EPIPE kills the process with SIGPIPE.        *)
flushClient(c) ==
  LET left == [out EXCEPT ![c] = @ - 1] IN
  \/ /\ peer[c] # "gone"
     /\ out' = [out EXCEPT ![c] = 0]
     /\ UNCHANGED <<to_close, events, phase>>
  \/ /\ peer[c] # "gone" /\ out[c] > 1
     /\ out' = left
     /\ createFileEvent(fd[c], {"W"}, NULL)
     /\ UNCHANGED <<to_close, phase>>
  \/ /\ peer[c] # "gone" /\ out[c] > 1
     /\ out' = left
     /\ registrationFails(c)
     /\ UNCHANGED phase
  \/ /\ AddToClose(c)
     /\ UNCHANGED <<out, events, phase>>
  \/ /\ peer[c] = "gone"
     /\ phase' = "crashed"
     /\ UNCHANGED <<out, to_close, events>>

handleClientsWithPendingWrites ==
  /\ phase = "flush"
  /\ IF pending_write = <<>>
       THEN /\ phase' = "reap"
            /\ UNCHANGED <<pending_write, out, to_close, events>>
       ELSE /\ pending_write' = Tail(pending_write)
            /\ flushClient(Head(pending_write))
  /\ UNCHANGED <<clients, current, conn, fd, fired, max, net>>

unlinkClient(c) ==
  /\ clients' = clients \ {c}
  /\ current' = IF current = c THEN NULL ELSE current

(* Second part: a client of clients_to_close is freed and its connection   *)
(* closed.                                                                 *)
freeClientsInAsyncFreeQueue ==
  /\ phase = "reap"
  /\ IF to_close = <<>>
       THEN /\ phase' = "poll"
            /\ UNCHANGED <<clients, current, to_close, conn, out, events>>
       ELSE LET c == Head(to_close) IN
            /\ unlinkClient(c)
            /\ to_close' = Tail(to_close)
            /\ conn' = [conn EXCEPT ![c] = "freed"]
            /\ out' = [out EXCEPT ![c] = 0]
            /\ deleteFileEvents(fd[c])
            /\ UNCHANGED phase
  /\ UNCHANGED <<pending_write, fd, fired, max, net>>

-----------------------------------------------------------------------------
(* epoll_wait().                                                           *)
OwnerOf(f) == CHOOSE c \in Clients : Open(c) /\ fd[c] = f

(* What the kernel reports of a descriptor; an error reports both.         *)
Ready(f) ==
  IF interest[f] = {} THEN {}
  ELSE IF f = ipFd THEN IF backlog > 0 THEN {"R"} ELSE {}
  ELSE LET c == OwnerOf(f) IN
       IF peer[c] = "gone" THEN {"R", "W"}
       ELSE interest[f] \cap
              ((IF inbox[c] > 0 \/ peer[c] = "eof" THEN {"R"} ELSE {})
                 \cup {"W"})

ReadyFds == {f \in OpenFds \cup {ipFd} : Ready(f) # {}}

(* All ready descriptors, in any order.  With nothing ready the call       *)
(* blocks; the one timer only makes the first calls return with nothing.   *)
eventPoll ==
  /\ phase = "poll" /\ ReadyFds # {}
  /\ \E order \in SetToSeqs(ReadyFds) :
       fired' = [i \in DOMAIN order |->
                   [fd |-> order[i], mask |-> Ready(order[i]),
                    of |-> IF order[i] = ipFd THEN NULL ELSE OwnerOf(order[i])]]
  /\ phase' = "dispatch"
  /\ UNCHANGED <<lists, conn, fd, events, max, out, net>>

dispatchEndsBusy ==                                        \* mutant
  /\ phase = "dispatch" /\ fired = <<>>
  /\ phase' = "poll"
  /\ UNCHANGED <<lists, conn, fd, events, fired, max, out, net>>

dispatchEnds ==
  /\ phase = "dispatch" /\ fired = <<>>
  /\ phase' = "flush"
  /\ UNCHANGED <<lists, conn, fd, events, fired, max, out, net>>

(* processEvents(): the first fired descriptor; its read handler runs      *)
(* before its write handler, each if its event is still registered.        *)
FiredNow(m) ==
  /\ phase = "dispatch" /\ fired # <<>>
  /\ m \in Head(fired).mask \cap mask[Head(fired).fd]
readHandlerRuns == fired' = [fired EXCEPT ![1].mask = @ \ {"R"}]

nextFired ==
  /\ phase = "dispatch" /\ fired # <<>>
  /\ ~FiredNow("R") /\ ~FiredNow("W")
  /\ fired' = Tail(fired)
  /\ UNCHANGED <<lists, conn, fd, events, max, out, net, phase>>

-----------------------------------------------------------------------------
(* acceptTcpHandler().                                                     *)
startAccept ==
  /\ FiredNow("R") /\ Head(fired).fd = ipFd
  /\ readHandlerRuns
  /\ max' = MaxAccepts
  /\ phase' = "accept"
  /\ UNCHANGED <<lists, conn, fd, events, out, net>>

acceptEndsPausing ==                                       \* mutant
  /\ phase = "accept" /\ (backlog = 0 \/ max = 0 \/ SyscallsFail)
  /\ phase' = "dispatch"
  /\ IF backlog > 0 THEN deleteFileEvents(ipFd) ELSE UNCHANGED events
  /\ UNCHANGED <<lists, conn, fd, fired, max, out, net>>

acceptEnds ==
  /\ phase = "accept" /\ (backlog = 0 \/ max = 0 \/ SyscallsFail)
  /\ phase' = "dispatch"
  /\ UNCHANGED <<lists, conn, fd, events, fired, max, out, net>>

AtLimitOneLate == Cardinality(clients) > maxClient         \* mutant
AtLimit == Cardinality(clients) >= maxClient

acceptNextUnchecked ==                                     \* mutant
  /\ phase = "accept" /\ max > 0
  /\ backlog' = backlog - 1
  /\ UNCHANGED <<dialled, inbox, asked, peer>>

acceptNext ==
  /\ phase = "accept" /\ backlog > 0 /\ max > 0
  /\ backlog' = backlog - 1
  /\ UNCHANGED <<dialled, inbox, asked, peer>>

refuseEvictingInstead ==                                   \* mutant
  /\ phase = "accept" /\ backlog > 0 /\ max > 0 /\ AtLimit
  /\ \E c \in {d \in Clients : Open(d)} :
       /\ conn' = [conn EXCEPT ![c] = "freed"]
       /\ clients' = clients \ {c}
       /\ deleteFileEvents(fd[c])
  /\ UNCHANGED <<pending_write, to_close, current, fd, fired, max, out, phase, net>>

(* The new connection is told so and closed, and the handler returns.      *)
refuse ==
  /\ acceptNext /\ AtLimit
  /\ phase' = "dispatch"
  /\ UNCHANGED <<lists, conn, fd, events, fired, max, out>>

(* accept(2) gives the lowest free descriptor.  Nobody looks at what       *)
(* createFileEvent() returns.                                              *)
accept ==
  LET c == 1 + Cardinality({d \in Clients : conn[d] # "none"})
      f == Min(Fds \ (OpenFds \cup 0..ipFd)) IN
  /\ acceptNext /\ ~AtLimit
  /\ max' = max - 1
  /\ conn' = [conn EXCEPT ![c] = "open"]
  /\ fd' = [fd EXCEPT ![c] = f]
  /\ clients' = clients \cup {c}
  /\ (createFileEvent(f, {"R"}, c) \/ createFileEventFails(f))
  /\ UNCHANGED <<pending_write, to_close, current, fired, out, phase>>

-----------------------------------------------------------------------------
(* readQueryFromClient() and the handler of writable events.               *)
Reading(c) ==
  /\ FiredNow("R") /\ Head(fired).fd # ipFd
  /\ c = clientData[Head(fired).fd]
  /\ readHandlerRuns

(* serverAssert(NULL != conn).                                             *)
readWithoutConn ==
  /\ Reading(NULL)
  /\ phase' = "crashed"
  /\ UNCHANGED <<lists, conn, fd, events, max, out, net>>

(* prepareClientToWrite() queues a client that had nothing to send, at the *)
(* head of the list.                                                       *)
addReplies(c, n) ==
  /\ out' = [out EXCEPT ![c] = @ + n]
  /\ pending_write' = IF n > 0 /\ out[c] = 0 THEN <<c>> \o pending_write
                                             ELSE pending_write

(* One read(2) brings some of the requests; a command may reply or not.    *)
readRequests(c) ==
  /\ Reading(c) /\ inbox[c] > 0
  /\ current' = c
  /\ \E n \in 1..inbox[c] :
       /\ inbox' = [inbox EXCEPT ![c] = @ - n]
       /\ \E replies \in 0..n : addReplies(c, replies)
  /\ UNCHANGED <<clients, to_close, conn, fd, events, max, backlog, dialled,
                 asked, peer, phase>>

(* End of file or an error: the connection is closed and freed, the client *)
(* keeps its pointer to it and its place in server.clients.                *)
readEnds(c) ==
  /\ Reading(c)
  /\ (peer[c] = "eof" /\ inbox[c] = 0) \/ peer[c] = "gone"
  /\ conn' = [conn EXCEPT ![c] = "dangling"]
  /\ inbox' = [inbox EXCEPT ![c] = 0]
  /\ deleteFileEvents(fd[c])
  /\ UNCHANGED <<lists, fd, max, out, backlog, dialled, asked, peer, phase>>

(* sendReplyToClient() takes its first argument, the event loop, for the   *)
(* connection and dereferences what it finds in it.                        *)
sendReplyToClient ==
  /\ FiredNow("W") /\ ~FiredNow("R")
  /\ phase' = "crashed"
  /\ UNCHANGED <<lists, conn, fd, events, fired, max, out, net>>

-----------------------------------------------------------------------------
(* The peers.                                                              *)
server == <<lists, conn, fd, events, fired, max, out, phase>>

dial ==
  /\ dialled < Peers
  /\ dialled' = dialled + 1 /\ backlog' = backlog + 1
  /\ UNCHANGED <<server, inbox, asked, peer>>

send(c) ==
  /\ Open(c) /\ peer[c] = "open" /\ asked[c] < MaxReq
  /\ asked' = [asked EXCEPT ![c] = @ + 1]
  /\ inbox' = [inbox EXCEPT ![c] = @ + 1]
  /\ UNCHANGED <<server, backlog, dialled, peer>>

hangUp(c, how) ==
  /\ Open(c) /\ peer[c] \in {"open", "eof"} \ {how}
  /\ peer' = [peer EXCEPT ![c] = how]
  /\ UNCHANGED <<server, backlog, dialled, inbox, asked>>

beforeSleep == handleClientsWithPendingWrites \/ freeClientsInAsyncFreeQueue
acceptTcpHandler == startAccept \/ acceptEnds \/ refuse \/ accept
readQueryFromClient ==
  \/ readWithoutConn
  \/ \E c \in Clients : readRequests(c) \/ readEnds(c)
processEvents ==
  \/ beforeSleep \/ eventPoll \/ dispatchEnds \/ nextFired
  \/ acceptTcpHandler \/ readQueryFromClient \/ sendReplyToClient
Peer ==
  \/ dial
  \/ \E c \in Clients : send(c) \/ hangUp(c, "eof") \/ hangUp(c, "gone")

Next == processEvents \/ Peer
Spec == Init /\ [][Next]_vars

(* eventMain() runs the loop for ever; peers owe the server nothing.       *)
FairSpec == Spec /\ WF_vars(processEvents)

-----------------------------------------------------------------------------
TypeOK ==
  /\ clients \subseteq Clients /\ current \in Clients \cup {NULL}
  /\ pending_write \in Seq(Clients) /\ to_close \in Seq(Clients)
  /\ conn \in [Clients -> {"none", "open", "dangling", "freed"}]
  /\ fd \in [Clients -> Fds \cup {-1}]
  /\ mask \in [Fds -> SUBSET {"R", "W"}]
  /\ clientData \in [Fds -> Clients \cup {NULL}]
  /\ interest \in [Fds -> SUBSET {"R", "W"}]
  /\ maxfd \in Fds /\ max \in 0..MaxAccepts
  /\ fired \in Seq([fd : Fds, mask : SUBSET {"R", "W"}, of : Clients \cup {NULL}])
  /\ out \in [Clients -> Nat]
  /\ backlog \in 0..Peers /\ dialled \in 0..Peers
  /\ inbox \in [Clients -> 0..MaxReq] /\ asked \in [Clients -> 0..MaxReq]
  /\ peer \in [Clients -> {"open", "eof", "gone"}]
  /\ phase \in {"flush", "reap", "poll", "dispatch", "accept", "crashed"}

(* A client on clients_pending_write or clients_to_close is on one of them *)
(* once and its connection is there: beforeSleep(), which runs after other *)
(* handlers closed connections, never follows the dangling c->conn.  And   *)
(* server.current_client is never a freed client.                          *)
PointersLive ==
  LET listed == pending_write \o to_close IN
  /\ IsInjective(listed)
  /\ \A i \in DOMAIN listed : Open(listed[i])
  /\ current # NULL => conn[current] \in {"open", "dangling"}

(* Replies of a live connection are never stranded: the client is on a     *)
(* list beforeSleep() will visit or waits for its descriptor to be         *)
(* writable.                                                               *)
RepliesScheduled ==
  phase # "crashed" =>
    \A c \in Clients : Open(c) /\ out[c] > 0 =>
      \/ c \in Range(pending_write) \cup Range(to_close)
      \/ "W" \in mask[fd[c]]

(* The three records of what is watched agree through every accept, close  *)
(* and reuse of a descriptor: fileEvents[].mask with the kernel's interest *)
(* list, both with the open connections, and maxfd bounds them.            *)
EventsInSync ==
  /\ interest = mask
  /\ \A f \in Fds : mask[f] # {} =>
       /\ f <= maxfd /\ f < size
       /\ f = ipFd \/ \E c \in Clients :
            /\ Open(c) /\ fd[c] = f
            /\ clientData[f] = IF "W" \in mask[f] THEN NULL ELSE c
  /\ \A c, d \in Clients : Open(c) /\ Open(d) /\ fd[c] = fd[d] => c = d

(* An event epoll_wait() reported is dispatched to the connection it was   *)
(* reported of, although handlers that run before it close connections and *)
(* accept() reuses their descriptors at once.                              *)
NoStaleEvent ==
  \A i \in DOMAIN fired :
    fired[i].fd # ipFd /\ mask[fired[i].fd] # {} /\ fired[i].mask # {} =>
      Open(fired[i].of) /\ fd[fired[i].of] = fired[i].fd

(* Every client whose memory is held, with or without a connection, counts *)
(* against maxClient and no more exist.                                    *)
ClientLimit ==
  /\ Cardinality(clients) <= maxClient
  /\ clients = {c \in Clients : conn[c] \in {"open", "dangling"}}

(* The assertion at server.c:459: a connection comes with every readable   *)
(* event of a client.                                                      *)
ReadHasConn ==
  FiredNow("R") /\ Head(fired).fd # ipFd => clientData[Head(fired).fd] # NULL

(* A peer is refused only while maxClient clients are connected            *)
(* (server.h:75 "maximum number of clients").                              *)
RefusedOnlyWhenFull ==
  [][phase = "accept" /\ backlog' < backlog /\ conn' = conn
       => Cardinality({c \in Clients : Open(c)}) >= maxClient]_vars

(* A request a peer has sent is read unless its connection ends first.     *)
RequestsRead ==
  \A c \in Clients :
    Open(c) /\ inbox[c] > 0 ~> inbox[c] = 0 \/ ~Open(c) \/ phase = "crashed"

(* A peer that connects is accepted or refused, however many come at once. *)
BacklogDrained == backlog > 0 ~> backlog = 0 \/ phase = "crashed"
=============================================================================
