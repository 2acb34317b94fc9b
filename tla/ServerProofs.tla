------------------------------ MODULE ServerProofs ------------------------------
(***************************************************************************)
(* Theorems about Server, for any number of peers, requests and places,    *)
(* with system calls that fail and with ones that do not.                  *)
(***************************************************************************)
EXTENDS Server, Facts

(* The two lists of beforeSleep() hold open connections, each once, and    *)
(* the first one those that have replies to send.                          *)
Listed ==
  /\ \A i, j \in DOMAIN pending_write : pending_write[i] = pending_write[j] => i = j
  /\ \A i, j \in DOMAIN to_close : to_close[i] = to_close[j] => i = j
  /\ \A i \in DOMAIN pending_write, j \in DOMAIN to_close :
       pending_write[i] # to_close[j]
  /\ \A i \in DOMAIN pending_write : Open(pending_write[i]) /\ out[pending_write[i]] > 0
  /\ \A i \in DOMAIN to_close : Open(to_close[i])
  /\ current # NULL => conn[current] \in {"open", "dangling"}

(* What is left to do in each part of a turn of the loop.                  *)
Turn ==
  /\ phase \in {"reap", "poll"} => pending_write = <<>>
  /\ phase \in {"poll", "dispatch", "accept"} => to_close = <<>>
  /\ phase \in {"flush", "reap", "poll"} => fired = <<>>
  /\ phase = "accept" => fired # <<>> /\ fired[1].fd = ipFd

(* An event that waits behind the first one is still that of the open      *)
(* connection it was reported of; the first one until it is removed.  A    *)
(* client that has replied in this turn is not read from again.            *)
Reported ==
  /\ \A i, j \in DOMAIN fired : fired[i].fd = fired[j].fd => i = j
  /\ \A i \in DOMAIN fired :
       fired[i].fd # ipFd /\ (i > 1 \/ mask[fired[i].fd] # {}) =>
         /\ fired[i].of \in Clients
         /\ Open(fired[i].of) /\ fd[fired[i].of] = fired[i].fd
  /\ \A i \in DOMAIN fired, k \in DOMAIN pending_write :
       "R" \in fired[i].mask => fired[i].fd # fd[pending_write[k]]

(* Clients are numbered in the order of accept(); each took one of the     *)
(* connections opened.                                                     *)
Numbered ==
  /\ \E n \in 0..Peers :
       /\ \A c \in Clients : conn[c] # "none" <=> c <= n
       /\ n + backlog <= dialled
  /\ \A c \in Clients : /\ inbox[c] <= asked[c]
                        /\ conn[c] = "none" => out[c] = 0
                        /\ Open(c) => fd[c] > ipFd

IInv ==
  /\ TypeOK /\ Listed /\ Turn /\ Reported /\ Numbered
  /\ RepliesScheduled /\ EventsInSync /\ ClientLimit

-----------------------------------------------------------------------------
(* Clients and descriptors are finitely many.                              *)
LEMMA FiniteSubset ==
  ASSUME NEW S, S \subseteq Clients \/ S \subseteq Fds
  PROVE  IsFiniteSet(S) /\ Cardinality(S) \in Nat
<1>1. IsFiniteSet(Clients) /\ IsFiniteSet(Fds)
  BY FS_Interval, ServerAssumption DEF Clients, Fds
<1>2. S \in SUBSET Clients \/ S \in SUBSET Fds
  OBVIOUS
<1>3. IsFiniteSet(S)
  BY <1>1, <1>2, FS_Subset
<1> QED
  BY <1>3, FS_CardinalityType

(* The types of the descriptor events alone.                               *)
EventTypes ==
  /\ mask \in [Fds -> SUBSET {"R", "W"}]
  /\ clientData \in [Fds -> Clients \cup {NULL}]
  /\ interest \in [Fds -> SUBSET {"R", "W"}]
  /\ maxfd \in Fds

ConnTypes ==
  /\ conn \in [Clients -> {"none", "open", "dangling", "freed"}]
  /\ fd \in [Clients -> Fds \cup {-1}]

(* Asking for a write event of an open connection: its entry now belongs   *)
(* to nobody, as a writable one does.                                      *)
LEMMA WriteEventSync ==
  ASSUME EventTypes, ConnTypes, EventsInSync,
         NEW c \in Clients, Open(c), fd[c] \in Fds, fd[c] > ipFd,
         createFileEvent(fd[c], {"W"}, NULL), UNCHANGED <<conn, fd>>
  PROVE  /\ EventTypes' /\ EventsInSync'
         /\ "W" \in mask'[fd[c]]
         /\ \A f \in Fds : f # fd[c] => mask'[f] = mask[f]
<1> DEFINE e == fd[c]
<1>0. e \in Fds /\ e \in Int /\ maxfd \in Int
  BY ServerAssumption DEF Fds, EventTypes
<1>1. /\ e < size /\ mask' = [mask EXCEPT ![e] = @ \cup {"W"}]
      /\ interest' = [interest EXCEPT ![e] = mask[e] \cup {"W"}]
      /\ clientData' = [clientData EXCEPT ![e] = NULL]
      /\ maxfd' = IF e > maxfd THEN e ELSE maxfd
  BY DEF createFileEvent
<1>2. EventTypes'
  BY <1>0, <1>1 DEF EventTypes
<1>3. /\ mask'[e] = mask[e] \cup {"W"} /\ clientData'[e] = NULL
      /\ \A f \in Fds : f # e => mask'[f] = mask[f] /\ clientData'[f] = clientData[f]
  BY <1>0, <1>1 DEF EventTypes
<1>4. interest' = mask'
  BY <1>0, <1>1 DEF EventTypes, EventsInSync
<1>5. ASSUME NEW f \in Fds, mask'[f] # {}
      PROVE  /\ f <= maxfd' /\ f < size
             /\ f = ipFd \/ \E d \in Clients :
                  /\ conn'[d] = "open" /\ fd'[d] = f
                  /\ clientData'[f] = IF "W" \in mask'[f] THEN NULL ELSE d
  <2>1. f \in Int
    BY ServerAssumption DEF Fds
  <2>2. CASE f = e
    BY <1>0, <1>1, <1>3, <2>1, <2>2 DEF Open
  <2>3. CASE f # e
    <3>1. mask[f] # {} /\ mask'[f] = mask[f] /\ clientData'[f] = clientData[f]
      BY <1>3, <1>5, <2>3
    <3>2. /\ f <= maxfd /\ f < size
          /\ f = ipFd \/ \E d \in Clients :
               /\ Open(d) /\ fd[d] = f
               /\ clientData[f] = IF "W" \in mask[f] THEN NULL ELSE d
      BY <3>1 DEF EventsInSync
    <3> QED
      BY <1>0, <1>1, <2>1, <3>1, <3>2 DEF Open
  <2> QED
    BY <2>2, <2>3
<1>6. \A a, b \in Clients : Open(a)' /\ Open(b)' /\ fd'[a] = fd'[b] => a = b
  BY DEF EventsInSync, Open
<1> QED
  BY <1>2, <1>3, <1>4, <1>5, <1>6 DEF EventsInSync, Open, size, ipFd

(* Lowering maxfd passes no descriptor that is still watched.              *)
LEMMA MaxfdLowered ==
  ASSUME maxfd \in Nat, NEW m
  PROVE  /\ LowerMaxfd(m) \in 0..maxfd
         /\ \A j \in 0..(maxfd - 1) : m[j] # {} => j <= LowerMaxfd(m)
<1> DEFINE used == {j \in 0..(maxfd - 1) : m[j] # {}}
<1>1. CASE used = {}
  BY <1>1 DEF LowerMaxfd
<1>2. CASE used # {}
  <2>1. \A j \in used : j \in 0..(maxfd - 1)
    OBVIOUS
  <2>2. used \subseteq Int /\ IsFiniteSet(used)
    <3>1. IsFiniteSet(0..(maxfd - 1))
      BY FS_Interval
    <3> HIDE DEF used
    <3> QED
      BY <2>1, <3>1, FS_Subset
  <2>3. Max(used) \in used /\ \A j \in used : Max(used) >= j
    <3> HIDE DEF used
    <3>1. \E x \in used : \A j \in used : x >= j
      <4>1. PICK x \in used : \A j \in used : j <= x
        BY <1>2, <2>2, GreatestOfFinite
      <4>2. \A j \in used : j \in Int
        BY <2>2
      <4> QED
        BY <4>1, <4>2
    <3> QED
      BY <3>1 DEF Max
  <2>4. LowerMaxfd(m) = Max(used) + 1
    BY <1>2 DEF LowerMaxfd
  <2>5. \A j \in 0..(maxfd - 1) : m[j] # {} => j \in used
    OBVIOUS
  <2> HIDE DEF used
  <2>6. Max(used) \in 0..(maxfd - 1)
    BY <2>1, <2>3
  <2>7. ASSUME NEW j \in 0..(maxfd - 1), m[j] # {}
        PROVE  j <= LowerMaxfd(m)
    BY <2>3, <2>4, <2>5, <2>6, <2>7
  <2> QED
    BY <2>4, <2>6, <2>7
<1> QED
  BY <1>1, <1>2

(* Closing an open connection: nothing is watched of its descriptor, the   *)
(* others are as they were.                                                *)
LEMMA CloseSync ==
  ASSUME EventTypes, ConnTypes, EventsInSync,
         NEW c \in Clients, Open(c), fd[c] \in Fds, fd[c] > ipFd,
         deleteFileEvents(fd[c]),
         NEW x \in {"dangling", "freed"},
         conn' = [conn EXCEPT ![c] = x], fd' = fd
  PROVE  /\ EventTypes' /\ EventsInSync'
         /\ mask'[fd[c]] = {}
         /\ \A f \in Fds : f # fd[c] => mask'[f] = mask[f]
<1> DEFINE e == fd[c]
<1>0. /\ e \in Fds /\ maxfd \in Fds /\ \A f \in Fds : f \in Nat
      /\ \A f \in Nat : f <= maxfd => f \in Fds
  BY ServerAssumption DEF Fds, EventTypes
<1>1. /\ mask' = [mask EXCEPT ![e] = {}]
      /\ interest' = mask'
      /\ clientData' = clientData
      /\ maxfd' \in 0..maxfd
      /\ \A f \in Fds : f <= maxfd /\ mask'[f] # {} => f <= maxfd'
  <2>1. CASE e >= size \/ mask[e] = {}
    <3>1. mask[e] = {}
      BY <1>0, <2>1, ServerAssumption DEF EventsInSync, size
    <3>2. UNCHANGED events
      BY <2>1 DEF deleteFileEvents
    <3> QED
      BY <1>0, <3>1, <3>2 DEF events, EventTypes, EventsInSync
  <2>2. CASE ~(e >= size \/ mask[e] = {})
    <3> DEFINE m == [mask EXCEPT ![e] = {}]
    <3>1. /\ mask' = m /\ interest' = [interest EXCEPT ![e] = {}]
          /\ maxfd' = IF e = maxfd THEN LowerMaxfd(m) ELSE maxfd
          /\ clientData' = clientData
      BY <2>2 DEF deleteFileEvents
    <3>2. m[e] = {}
      BY <1>0 DEF EventTypes
    <3> HIDE DEF m
    <3>3. /\ LowerMaxfd(m) \in 0..maxfd
          /\ \A j \in 0..(maxfd - 1) : m[j] # {} => j <= LowerMaxfd(m)
      BY <1>0, MaxfdLowered
    <3>4. maxfd' \in 0..maxfd
      BY <1>0, <3>1, <3>3
    <3>5. ASSUME NEW f \in Fds, f <= maxfd, m[f] # {}
          PROVE  f <= maxfd'
      BY <1>0, <3>1, <3>2, <3>3, <3>5
    <3>6. interest' = m
      BY <3>1 DEF m, EventsInSync
    <3> QED
      BY <3>1, <3>4, <3>5, <3>6 DEF m
  <2> QED
    BY <2>1, <2>2
<1>2. /\ mask'[e] = {} /\ \A f \in Fds : f # e => mask'[f] = mask[f]
  BY <1>0, <1>1 DEF EventTypes
<1>3. EventTypes'
  BY <1>0, <1>1 DEF EventTypes
<1>4. \A d \in Clients : Open(d)' <=> Open(d) /\ d # c
  BY DEF Open, ConnTypes
<1>5. ASSUME NEW f \in Fds, mask'[f] # {}
      PROVE  /\ f <= maxfd' /\ f < size
             /\ f = ipFd \/ \E d \in Clients :
                  /\ Open(d)' /\ fd'[d] = f
                  /\ clientData'[f] = IF "W" \in mask'[f] THEN NULL ELSE d
  <2>1. f # e /\ mask[f] # {} /\ mask'[f] = mask[f]
    BY <1>2, <1>5
  <2>2. /\ f <= maxfd /\ f < size
        /\ f = ipFd \/ \E d \in Clients :
             /\ Open(d) /\ fd[d] = f
             /\ clientData[f] = IF "W" \in mask[f] THEN NULL ELSE d
    BY <2>1 DEF EventsInSync
  <2> QED
    BY <1>1, <1>4, <1>5, <2>1, <2>2
<1>6. \A a, b \in Clients : Open(a)' /\ Open(b)' /\ fd'[a] = fd'[b] => a = b
  BY <1>4 DEF EventsInSync
<1> QED
  BY <1>1, <1>2, <1>3, <1>5, <1>6 DEF EventsInSync, size, ipFd

(* A new connection on a descriptor nobody has, watched or, when           *)
(* epoll_ctl() failed, not.                                                *)
LEMMA AcceptSync ==
  ASSUME EventTypes, ConnTypes, EventsInSync,
         NEW c \in Clients, conn[c] = "none",
         NEW e \in Fds, e > ipFd, \A d \in Clients : Open(d) => fd[d] # e,
         createFileEvent(e, {"R"}, c) \/ createFileEventFails(e),
         conn' = [conn EXCEPT ![c] = "open"], fd' = [fd EXCEPT ![c] = e]
  PROVE  /\ EventTypes' /\ ConnTypes' /\ EventsInSync'
         /\ \A f \in Fds : f # e => mask'[f] = mask[f]
<1>0. /\ maxfd \in Fds /\ \A f \in Fds : f \in Nat
  BY ServerAssumption DEF Fds, EventTypes
<1>1. ConnTypes' /\ \A d \in Clients : /\ Open(d)' <=> Open(d) \/ d = c
                                       /\ fd'[d] = IF d = c THEN e ELSE fd[d]
  BY DEF ConnTypes, Open
<1>2. mask[e] = {}
  BY <1>0, ServerAssumption DEF EventsInSync, ipFd
<1>3. /\ \A a, b \in Clients : Open(a)' /\ Open(b)' /\ fd'[a] = fd'[b] => a = b
  BY <1>1 DEF EventsInSync
<1>4. CASE createFileEventFails(e)
  <2>1. UNCHANGED events
    BY <1>4 DEF createFileEventFails
  <2>2. \A d \in Clients : Open(d) => Open(d)' /\ fd'[d] = fd[d]
    BY <1>1 DEF Open
  <2> QED
    BY <1>1, <1>3, <2>1, <2>2 DEF events, EventTypes, EventsInSync, size, ipFd
<1>5. CASE createFileEvent(e, {"R"}, c)
  <2>1. /\ e < size /\ mask' = [mask EXCEPT ![e] = {"R"}]
        /\ interest' = mask'
        /\ clientData' = [clientData EXCEPT ![e] = c]
        /\ maxfd' = IF e > maxfd THEN e ELSE maxfd
    BY <1>2, <1>5 DEF createFileEvent, EventTypes, EventsInSync
  <2>2. EventTypes'
    BY <1>0, <2>1 DEF EventTypes
  <2>3. \A f \in Fds : /\ mask'[f] = IF f = e THEN {"R"} ELSE mask[f]
                       /\ clientData'[f] = IF f = e THEN c ELSE clientData[f]
    BY <2>1 DEF EventTypes
  <2>4. ASSUME NEW f \in Fds, mask'[f] # {}
        PROVE  /\ f <= maxfd' /\ f < size
               /\ f = ipFd \/ \E d \in Clients :
                    /\ Open(d)' /\ fd'[d] = f
                    /\ clientData'[f] = IF "W" \in mask'[f] THEN NULL ELSE d
    <3>1. CASE f = e
      BY <1>0, <1>1, <2>1, <2>3, <3>1
    <3>2. CASE f # e
      <4>1. mask[f] # {} /\ mask'[f] = mask[f] /\ clientData'[f] = clientData[f]
        BY <2>3, <2>4, <3>2
      <4>2. /\ f <= maxfd /\ f < size
            /\ f = ipFd \/ \E d \in Clients :
                 /\ Open(d) /\ fd[d] = f
                 /\ clientData[f] = IF "W" \in mask[f] THEN NULL ELSE d
        BY <4>1 DEF EventsInSync
      <4>3. \A d \in Clients : Open(d) => Open(d)' /\ fd'[d] = fd[d]
        BY <1>1 DEF Open
      <4>4. f <= maxfd'
        BY <1>0, <2>1, <4>2
      <4> QED
        BY <4>1, <4>2, <4>3, <4>4
    <3> QED
      BY <3>1, <3>2
  <2> QED
    BY <1>1, <1>3, <2>1, <2>2, <2>3, <2>4 DEF EventsInSync, size, ipFd
<1> QED
  BY <1>4, <1>5

-----------------------------------------------------------------------------
(* The server starts with the listening socket alone.                      *)
LEMMA InitIInv == Init => IInv
<1> SUFFICES ASSUME Init PROVE IInv
  OBVIOUS
<1>0. /\ ipFd \in Fds /\ ipFd < size /\ ipFd \in Nat /\ 0 \in 0..Peers
      /\ \A c \in Clients : c \in Int /\ c > 0
  BY ServerAssumption DEF ipFd, Fds, size, Clients
<1>1. TypeOK
  <2>1. /\ pending_write \in Seq(Clients) /\ to_close \in Seq(Clients)
        /\ fired \in Seq([fd : Fds, mask : SUBSET {"R", "W"}, of : Clients \cup {NULL}])
    BY DEF Init
  <2>2. mask \in [Fds -> SUBSET {"R", "W"}] /\ clientData \in [Fds -> Clients \cup {NULL}]
    BY DEF Init
  <2>3. /\ out \in [Clients -> Nat] /\ inbox \in [Clients -> 0..MaxReq]
        /\ asked \in [Clients -> 0..MaxReq]
    BY ServerAssumption DEF Init
  <2> QED
    BY <1>0, <2>1, <2>2, <2>3, ServerAssumption DEF Init, TypeOK
<1>2. Listed /\ Turn /\ Reported
  BY DEF Init, Listed, Turn, Reported
<1>3. Numbered
  BY <1>0, ServerAssumption DEF Init, Numbered, Open
<1>4. RepliesScheduled
  BY DEF Init, RepliesScheduled, Open
<1>5. EventsInSync
  BY <1>0 DEF Init, EventsInSync, Open
<1>6. ClientLimit
  BY FS_EmptySet, ServerAssumption DEF Init, ClientLimit
<1> QED
  BY <1>1, <1>2, <1>3, <1>4, <1>5, <1>6 DEF IInv

(* What the peers do changes nothing the server keeps.                     *)
LEMMA PeerIInv ==
  ASSUME IInv, Peer
  PROVE  IInv'
<1>1. UNCHANGED server
  BY DEF Peer, dial, send, hangUp
<1>2. UNCHANGED <<clients, pending_write, to_close, current, conn, fd, mask,
                  clientData, interest, maxfd, fired, max, out, phase>>
  BY <1>1 DEF server, lists, events
<1> DEFINE counts ==
      /\ backlog' \in 0..Peers /\ dialled' \in 0..Peers
      /\ inbox' \in [Clients -> 0..MaxReq] /\ asked' \in [Clients -> 0..MaxReq]
      /\ peer' \in [Clients -> {"open", "eof", "gone"}]
      /\ \A c \in Clients : inbox'[c] <= asked'[c]
      /\ \/ backlog' = backlog /\ dialled' = dialled
         \/ backlog' = backlog + 1 /\ dialled' = dialled + 1
<1>3. counts
  <2>0. /\ backlog \in 0..Peers /\ dialled \in 0..Peers /\ backlog <= dialled
        /\ inbox \in [Clients -> 0..MaxReq] /\ asked \in [Clients -> 0..MaxReq]
        /\ peer \in [Clients -> {"open", "eof", "gone"}]
        /\ \A c \in Clients : inbox[c] <= asked[c]
        /\ Peers \in Nat /\ MaxReq \in Nat
    BY ServerAssumption DEF IInv, TypeOK, Numbered
  <2>1. CASE dial
    BY <2>0, <2>1 DEF dial
  <2>2. ASSUME NEW c \in Clients, send(c)
        PROVE  counts
    BY <2>0, <2>2 DEF send
  <2>3. ASSUME NEW c \in Clients, NEW how \in {"eof", "gone"}, hangUp(c, how)
        PROVE  counts
    BY <2>0, <2>3 DEF hangUp
  <2> QED
    BY <2>1, <2>2, <2>3 DEF Peer
<1> HIDE DEF counts
<1>4. TypeOK'
  BY <1>2, <1>3 DEF IInv, TypeOK, counts
<1>5. Numbered'
  <2>1. PICK n \in 0..Peers : /\ \A c \in Clients : conn[c] # "none" <=> c <= n
                              /\ n + backlog <= dialled
    BY DEF IInv, Numbered
  <2>2. n + backlog' <= dialled'
    <3>1. /\ backlog \in Int /\ dialled \in Int /\ n \in Int
          /\ backlog' \in Int /\ dialled' \in Int
      BY <1>3, ServerAssumption DEF IInv, TypeOK, counts
    <3>2. n + backlog <= dialled
      BY <2>1
    <3>3. CASE backlog' = backlog /\ dialled' = dialled
      BY <3>1, <3>2, <3>3
    <3>4. CASE backlog' = backlog + 1 /\ dialled' = dialled + 1
      BY <3>1, <3>2, <3>4
    <3> QED
      BY <1>3, <3>3, <3>4 DEF counts
  <2> QED
    BY <1>2, <1>3, <2>1, <2>2 DEF IInv, Numbered, Open, counts
<1>6. Listed' /\ Turn' /\ Reported'
  BY <1>2 DEF IInv, Listed, Turn, Reported, Open
<1>7. RepliesScheduled' /\ EventsInSync' /\ ClientLimit'
  BY <1>2 DEF IInv, RepliesScheduled, EventsInSync, ClientLimit, Open
<1> QED
  BY <1>4, <1>5, <1>6, <1>7 DEF IInv

(* Facts about the lists that hold in every state of IInv.                 *)
LEMMA Typed ==
  ASSUME IInv
  PROVE  /\ EventTypes /\ ConnTypes
         /\ pending_write \in Seq(Clients) /\ to_close \in Seq(Clients)
         /\ out \in [Clients -> Nat]
         /\ \A c \in Clients : Open(c) => fd[c] \in Fds /\ fd[c] > ipFd
<1>1. \A f \in Fds \cup {-1} : f > ipFd => f \in Fds
  BY ServerAssumption DEF Fds, ipFd
<1> QED
  BY <1>1 DEF IInv, TypeOK, EventTypes, ConnTypes, Numbered

(* beforeSleep(), first part: the head of clients_pending_write is written *)
(* to.  It is an open connection, so its descriptor is its own.            *)
LEMMA FlushIInv ==
  ASSUME IInv, handleClientsWithPendingWrites
  PROVE  IInv'
<1>0. /\ phase = "flush"
      /\ UNCHANGED <<clients, current, conn, fd, fired, max, backlog, dialled,
                     inbox, asked, peer>>
      /\ EventTypes /\ ConnTypes
      /\ pending_write \in Seq(Clients) /\ to_close \in Seq(Clients)
      /\ out \in [Clients -> Nat]
      /\ fired = <<>>
  BY Typed DEF handleClientsWithPendingWrites, net, IInv, Turn
<1>1. CASE pending_write = <<>>
  <2>1. phase' = "reap" /\ UNCHANGED <<pending_write, out, to_close, mask,
                                       clientData, interest, maxfd>>
    BY <1>1 DEF handleClientsWithPendingWrites, events
  <2>2. TypeOK'
    BY <1>0, <2>1 DEF IInv, TypeOK
  <2>3. Listed' /\ Turn' /\ Reported' /\ Numbered'
    BY <1>0, <1>1, <2>1 DEF IInv, Listed, Turn, Reported, Numbered, Open
  <2>4. RepliesScheduled' /\ EventsInSync' /\ ClientLimit'
    BY <1>0, <2>1 DEF IInv, RepliesScheduled, EventsInSync, ClientLimit, Open
  <2> QED
    BY <2>2, <2>3, <2>4 DEF IInv
<1>2. CASE pending_write # <<>>
  <2> DEFINE c == Head(pending_write)
  <2>0. /\ pending_write' = Tail(pending_write) /\ flushClient(c)
        /\ c \in Clients /\ c = pending_write[1] /\ 1 \in DOMAIN pending_write
        /\ pending_write' \in Seq(Clients)
        /\ \A i \in DOMAIN pending_write' :
             /\ i + 1 \in DOMAIN pending_write /\ i + 1 # 1
             /\ pending_write'[i] = pending_write[i + 1]
        /\ \A i \in DOMAIN pending_write :
             i = 1 \/ /\ i - 1 \in DOMAIN pending_write'
                      /\ pending_write'[i - 1] = pending_write[i]
    <3>1. pending_write' = Tail(pending_write) /\ flushClient(c)
      BY <1>2 DEF handleClientsWithPendingWrites
    <3> QED
      BY <1>0, <1>2, <3>1, HeadTaken
  <2> HIDE DEF c
  <2>1. /\ Open(c) /\ out[c] > 0 /\ fd[c] \in Fds /\ fd[c] > ipFd
        /\ \A i \in DOMAIN to_close : to_close[i] # c
        /\ \A i \in DOMAIN pending_write' : pending_write'[i] # c
    BY <1>0, <2>0, Typed DEF IInv, Listed
  <2>2. to_close' \in {to_close, Append(to_close, c)}
    BY <2>0 DEF flushClient, AddToClose, registrationFails
  <2>3. out' \in [Clients -> Nat] /\ \A d \in Clients : d # c => out'[d] = out[d]
    BY <1>0, <2>0, <2>1 DEF flushClient
  <2>4. /\ EventTypes' /\ EventsInSync'
        /\ \A f \in Fds : f # fd[c] => mask'[f] = mask[f]
    <3>1. CASE UNCHANGED events
      BY <1>0, <3>1 DEF IInv, events, EventTypes, EventsInSync, Open
    <3>2. CASE createFileEvent(fd[c], {"W"}, NULL)
      BY <1>0, <2>0, <2>1, <3>2, WriteEventSync DEF IInv
    <3> QED
      BY <2>0, <3>1, <3>2 DEF flushClient, registrationFails, createFileEventFails
  <2>5. phase' \in {"flush", "crashed"}
    BY <1>0, <2>0 DEF flushClient
  <2>6. TypeOK'
    <3>1. to_close' \in Seq(Clients)
      <4>1. Append(to_close, c) \in Seq(Clients)
        BY <1>0, <2>0, Appended
      <4> QED
        BY <1>0, <2>2, <4>1
    <3> QED
      BY <1>0, <2>0, <2>3, <2>4, <2>5, <3>1 DEF IInv, TypeOK, EventTypes
  <2>7. /\ \A i \in DOMAIN to_close' :
             \/ to_close'[i] = c
             \/ i \in DOMAIN to_close /\ to_close'[i] = to_close[i]
        /\ \A i, j \in DOMAIN to_close' : to_close'[i] = to_close'[j] => i = j
        /\ \A i \in DOMAIN to_close : i \in DOMAIN to_close' /\ to_close'[i] = to_close[i]
    <3>1. CASE to_close' = to_close
      BY <3>1 DEF IInv, Listed
    <3>2. CASE to_close' = Append(to_close, c)
      BY <1>0, <2>0, <2>1, <3>2, Appended DEF IInv, Listed
    <3> QED
      BY <2>2, <3>1, <3>2
  <2>8. Listed'
    <3>1. \A i, j \in DOMAIN pending_write' :
            pending_write'[i] = pending_write'[j] => i = j
      BY <1>0, <2>0 DEF IInv, Listed
    <3>2. \A i \in DOMAIN pending_write', j \in DOMAIN to_close' :
            pending_write'[i] # to_close'[j]
      BY <1>0, <2>0, <2>1, <2>7 DEF IInv, Listed
    <3>3. \A i \in DOMAIN pending_write' :
            conn'[pending_write'[i]] = "open" /\ out'[pending_write'[i]] > 0
      BY <1>0, <2>0, <2>1, <2>3 DEF IInv, Listed, Open
    <3>4. \A i \in DOMAIN to_close' : conn'[to_close'[i]] = "open"
      BY <1>0, <2>1, <2>7 DEF IInv, Listed, Open
    <3>5. current' # NULL => conn'[current'] \in {"open", "dangling"}
      BY <1>0 DEF IInv, Listed
    <3> QED
      BY <2>7, <3>1, <3>2, <3>3, <3>4, <3>5 DEF Listed, NULL, Open
  <2>9. Turn' /\ Reported' /\ Numbered'
    <3>1. Turn' /\ Reported'
      BY <1>0, <2>5 DEF Turn, Reported
    <3>2. Numbered'
      BY <1>0, <2>1, <2>3 DEF IInv, Numbered, Open
    <3> QED
      BY <3>1, <3>2
  <2>10. RepliesScheduled'
    <3> SUFFICES ASSUME phase' # "crashed", NEW d \in Clients, Open(d), out'[d] > 0
                 PROVE  \/ d \in Range(pending_write') \cup Range(to_close')
                        \/ "W" \in mask'[fd[d]]
      BY <1>0 DEF RepliesScheduled, Open
    <3>1. CASE d = c
      <4>1. CASE to_close' = Append(to_close, c)
        BY <1>0, <2>1, <3>1, <4>1 DEF Range
      <4>2. CASE to_close' # Append(to_close, c)
        <5>1. createFileEvent(fd[c], {"W"}, NULL)
          BY <1>0, <2>0, <2>1, <3>1, <4>2 DEF flushClient, AddToClose, registrationFails
        <5>2. "W" \in mask'[fd[c]]
          BY <1>0, <2>0, <2>1, <5>1, WriteEventSync DEF IInv
        <5> QED
          BY <3>1, <5>2
      <4> QED
        BY <4>1, <4>2
    <3>2. CASE d # c
      <4>1. \/ d \in Range(pending_write) \cup Range(to_close)
            \/ "W" \in mask[fd[d]]
        BY <1>0, <2>3, <3>2 DEF IInv, RepliesScheduled
      <4>2. CASE d \in Range(pending_write)
        BY <2>0, <3>2, <4>2 DEF Range
      <4>3. CASE d \in Range(to_close)
        BY <2>7, <4>3 DEF Range
      <4>4. CASE "W" \in mask[fd[d]]
        <5>1. fd[d] # fd[c] /\ fd[d] \in Fds
          BY <2>1, <2>0, <3>2, Typed DEF IInv, EventsInSync
        <5> QED
          BY <2>4, <4>4, <5>1
      <4> QED
        BY <4>1, <4>2, <4>3, <4>4
    <3> QED
      BY <3>1, <3>2
  <2>11. ClientLimit'
    BY <1>0 DEF IInv, ClientLimit
  <2> QED
    BY <2>4, <2>6, <2>8, <2>9, <2>10, <2>11 DEF IInv
<1> QED
  BY <1>1, <1>2

(* beforeSleep(), second part: an open connection is closed with its       *)
(* client; clients_pending_write is empty by then.                         *)
LEMMA ReapIInv ==
  ASSUME IInv, freeClientsInAsyncFreeQueue
  PROVE  IInv'
<1>0. /\ phase = "reap"
      /\ UNCHANGED <<pending_write, fd, fired, max, backlog, dialled, inbox,
                     asked, peer>>
      /\ EventTypes /\ ConnTypes
      /\ pending_write = <<>> /\ to_close \in Seq(Clients)
      /\ out \in [Clients -> Nat]
      /\ fired = <<>>
  BY Typed DEF freeClientsInAsyncFreeQueue, net, IInv, Turn
<1>1. CASE to_close = <<>>
  <2>1. phase' = "poll" /\ UNCHANGED <<clients, current, to_close, conn, out, mask,
                                       clientData, interest, maxfd>>
    BY <1>1 DEF freeClientsInAsyncFreeQueue, events
  <2>2. TypeOK'
    BY <1>0, <2>1 DEF IInv, TypeOK
  <2>3. Listed' /\ Turn' /\ Reported' /\ Numbered'
    BY <1>0, <1>1, <2>1 DEF IInv, Listed, Turn, Reported, Numbered, Open
  <2>4. RepliesScheduled' /\ EventsInSync' /\ ClientLimit'
    BY <1>0, <2>1 DEF IInv, RepliesScheduled, EventsInSync, ClientLimit, Open
  <2> QED
    BY <2>2, <2>3, <2>4 DEF IInv
<1>2. CASE to_close # <<>>
  <2> DEFINE c == Head(to_close)
  <2>0. /\ c \in Clients /\ c = to_close[1] /\ 1 \in DOMAIN to_close
        /\ to_close' = Tail(to_close) /\ to_close' \in Seq(Clients)
        /\ \A i \in DOMAIN to_close' :
             i + 1 \in DOMAIN to_close /\ i + 1 # 1 /\ to_close'[i] = to_close[i + 1]
        /\ \A i \in DOMAIN to_close :
             \/ i = 1
             \/ i - 1 \in DOMAIN to_close' /\ to_close'[i - 1] = to_close[i]
    <3>1. to_close' = Tail(to_close)
      BY <1>2 DEF freeClientsInAsyncFreeQueue
    <3> QED
      BY <1>0, <1>2, <3>1, HeadTaken
  <2>1. /\ clients' = clients \ {c}
        /\ current' = IF current = c THEN NULL ELSE current
        /\ conn' = [conn EXCEPT ![c] = "freed"]
        /\ out' = [out EXCEPT ![c] = 0]
        /\ deleteFileEvents(fd[c]) /\ UNCHANGED phase
    BY <1>2 DEF freeClientsInAsyncFreeQueue, unlinkClient
  <2> HIDE DEF c
  <2>2. /\ Open(c) /\ fd[c] \in Fds /\ fd[c] > ipFd
        /\ \A i \in DOMAIN to_close' : to_close'[i] # c
    BY <1>0, <2>0, Typed DEF IInv, Listed
  <2>3. /\ EventTypes' /\ EventsInSync'
        /\ \A f \in Fds : f # fd[c] => mask'[f] = mask[f]
    BY <1>0, <2>0, <2>1, <2>2, CloseSync DEF IInv
  <2>4. \A d \in Clients : /\ conn'[d] = IF d = c THEN "freed" ELSE conn[d]
                           /\ out'[d] = IF d = c THEN 0 ELSE out[d]
    BY <1>0, <2>1 DEF ConnTypes
  <2>5. TypeOK'
    BY <1>0, <2>0, <2>1, <2>3 DEF IInv, TypeOK, EventTypes, NULL
  <2>6. Listed'
    <3>1. \A i, j \in DOMAIN to_close' : to_close'[i] = to_close'[j] => i = j
      BY <1>0, <2>0 DEF IInv, Listed
    <3>2. \A i \in DOMAIN to_close' : conn'[to_close'[i]] = "open"
      <4> SUFFICES ASSUME NEW i \in DOMAIN to_close'
                   PROVE  conn'[to_close'[i]] = "open"
        OBVIOUS
      <4>1. /\ i + 1 \in DOMAIN to_close /\ to_close'[i] = to_close[i + 1]
            /\ to_close'[i] # c
        BY <2>0, <2>2
      <4>2. to_close[i + 1] \in Clients /\ Open(to_close[i + 1])
        BY <1>0, <4>1 DEF IInv, Listed
      <4> QED
        BY <2>4, <4>1, <4>2 DEF Open
    <3>3. current' # NULL => conn'[current'] \in {"open", "dangling"}
      BY <2>1, <2>4 DEF IInv, TypeOK, Listed
    <3> QED
      BY <1>0, <3>1, <3>2, <3>3 DEF Listed, NULL, Open
  <2>7. Turn' /\ Reported'
    BY <1>0, <2>1 DEF Turn, Reported
  <2>8. Numbered'
    BY <1>0, <2>2, <2>4 DEF IInv, Numbered, Open
  <2>9. RepliesScheduled'
    <3> SUFFICES ASSUME NEW d \in Clients, conn'[d] = "open", out'[d] > 0
                 PROVE  d \in Range(to_close') \/ "W" \in mask'[fd[d]]
      BY <1>0 DEF RepliesScheduled, Open
    <3>1. d # c /\ Open(d) /\ out[d] > 0
      BY <2>4 DEF Open
    <3>2. d \in Range(to_close) \/ "W" \in mask[fd[d]]
      BY <1>0, <3>1 DEF IInv, RepliesScheduled, Range
    <3>3. CASE d \in Range(to_close)
      <4>1. PICK i \in DOMAIN to_close : to_close[i] = d
        BY <3>3 DEF Range
      <4>2. i - 1 \in DOMAIN to_close' /\ to_close'[i - 1] = d
        BY <2>0, <3>1, <4>1
      <4> QED
        BY <4>2 DEF Range
    <3>4. CASE "W" \in mask[fd[d]]
      <4>1. fd[d] # fd[c] /\ fd[d] \in Fds
        BY <2>0, <2>2, <3>1, Typed DEF IInv, EventsInSync
      <4> QED
        BY <2>3, <3>4, <4>1
    <3> QED
      BY <3>2, <3>3, <3>4
  <2>10. ClientLimit'
    <3>1. IsFiniteSet(clients) /\ Cardinality(clients) \in Nat
      BY FiniteSubset DEF IInv, TypeOK
    <3>2. Cardinality(clients') <= Cardinality(clients) /\ Cardinality(clients') \in Nat
      <4>1. clients' \in SUBSET clients
        BY <2>1
      <4> QED
        BY <3>1, <4>1, FS_Subset, FS_CardinalityType
    <3>3. Cardinality(clients') <= maxClient
      BY <3>1, <3>2, ServerAssumption DEF IInv, ClientLimit
    <3>4. clients' = {d \in Clients : conn'[d] \in {"open", "dangling"}}
      BY <2>1, <2>4 DEF IInv, ClientLimit
    <3> QED
      BY <3>3, <3>4 DEF ClientLimit
  <2> QED
    BY <2>3, <2>5, <2>6, <2>7, <2>8, <2>9, <2>10 DEF IInv
<1> QED
  BY <1>1, <1>2

(* epoll_wait() reports each ready descriptor once, with its owner.        *)
LEMMA PollIInv ==
  ASSUME IInv, eventPoll
  PROVE  IInv'
<1>0. /\ phase = "poll" /\ phase' = "dispatch"
      /\ pending_write = <<>> /\ to_close = <<>>
      /\ UNCHANGED <<clients, pending_write, to_close, current, conn, fd, mask,
                     clientData, interest, maxfd, max, out, backlog, dialled,
                     inbox, asked, peer>>
      /\ EventTypes /\ ConnTypes
  BY Typed DEF eventPoll, lists, events, net, IInv, Turn
<1>1. PICK order \in SetToSeqs(ReadyFds) :
        fired' = [i \in DOMAIN order |->
                   [fd |-> order[i], mask |-> Ready(order[i]),
                    of |-> IF order[i] = ipFd THEN NULL ELSE OwnerOf(order[i])]]
  BY DEF eventPoll
<1>2. /\ ReadyFds \subseteq Fds
      /\ \A f \in ReadyFds : f # ipFd =>
           OwnerOf(f) \in Clients /\ Open(OwnerOf(f)) /\ fd[OwnerOf(f)] = f
      /\ \A f \in ReadyFds : Ready(f) \in SUBSET {"R", "W"}
  <2>1. ipFd \in Fds
    BY ServerAssumption DEF ipFd, Fds
  <2>2. \A f \in ReadyFds : f = ipFd \/ \E c \in Clients : Open(c) /\ fd[c] = f
    BY DEF ReadyFds, OpenFds
  <2>3. ReadyFds \subseteq Fds
    BY <2>1, <2>2, Typed
  <2>4. \A f \in ReadyFds : f # ipFd =>
          OwnerOf(f) \in Clients /\ Open(OwnerOf(f)) /\ fd[OwnerOf(f)] = f
    BY <2>2 DEF OwnerOf
  <2>5. \A f \in Fds : Ready(f) \in SUBSET {"R", "W"}
    BY <1>0 DEF Ready, EventTypes
  <2> QED
    BY <2>3, <2>4, <2>5
<1>3. PICK n \in Nat : /\ order \in [1..n -> ReadyFds]
                       /\ \A i, j \in 1..n : i # j => order[i] # order[j]
  <2>2. Cardinality(ReadyFds) \in Nat
    BY <1>2, FiniteSubset
  <2> QED
    BY <2>2 DEF SetToSeqs
<1>4. /\ DOMAIN fired' = 1..n
      /\ \A i \in 1..n : /\ order[i] \in ReadyFds
                         /\ fired'[i].fd = order[i]
                         /\ fired'[i].mask = Ready(order[i])
                         /\ fired'[i].of = IF order[i] = ipFd THEN NULL
                                                              ELSE OwnerOf(order[i])
  BY <1>1, <1>3
<1>5. TypeOK'
  <2> DEFINE Event == [fd : Fds, mask : SUBSET {"R", "W"}, of : Clients \cup {NULL}]
  <2>1. \A i \in 1..n : fired'[i] \in Event
    BY <1>1, <1>2, <1>3
  <2>2. fired' \in Seq(Event)
    <3> HIDE DEF Event
    <3>1. fired' = [i \in 1..n |-> fired'[i]]
      BY <1>1, <1>3
    <3> QED
      BY <2>1, <3>1
  <2> QED
    BY <1>0, <2>2 DEF IInv, TypeOK
<1>6. Reported'
  <2>1. \A i, j \in DOMAIN fired' : fired'[i].fd = fired'[j].fd => i = j
    BY <1>3, <1>4
  <2>2. \A i \in DOMAIN fired' : fired'[i].fd # ipFd =>
          /\ fired'[i].of \in Clients
          /\ conn'[fired'[i].of] = "open" /\ fd'[fired'[i].of] = fired'[i].fd
    BY <1>0, <1>2, <1>4 DEF Open
  <2> QED
    BY <1>0, <2>1, <2>2 DEF Reported, Open, ipFd
<1>7. Listed' /\ Turn' /\ Numbered'
  BY <1>0 DEF IInv, Listed, Turn, Numbered, Open
<1>8. RepliesScheduled' /\ EventsInSync' /\ ClientLimit'
  BY <1>0 DEF IInv, RepliesScheduled, EventsInSync, ClientLimit, Open
<1> QED
  BY <1>5, <1>6, <1>7, <1>8 DEF IInv

(* Calling a read handler takes the read event from the first descriptor.  *)
LEMMA ReadTaken ==
  ASSUME IInv, fired # <<>>, readHandlerRuns
  PROVE  /\ fired' \in Seq([fd : Fds, mask : SUBSET {"R", "W"}, of : Clients \cup {NULL}])
         /\ DOMAIN fired' = DOMAIN fired /\ 1 \in DOMAIN fired /\ Head(fired) = fired[1]
         /\ \A i \in DOMAIN fired : /\ fired'[i].fd = fired[i].fd
                                    /\ fired'[i].of = fired[i].of
                                    /\ "R" \in fired'[i].mask =>
                                         i # 1 /\ "R" \in fired[i].mask
<1> DEFINE Event == [fd : Fds, mask : SUBSET {"R", "W"}, of : Clients \cup {NULL}]
           e == [fired[1] EXCEPT !.mask = @ \ {"R"}]
<1>1. fired \in Seq(Event) /\ fired[1] \in Event /\ 1 \in DOMAIN fired /\ Head(fired) = fired[1]
  <2>1. fired \in Seq(Event)
    BY DEF IInv, TypeOK
  <2> HIDE DEF Event
  <2> QED
    BY <2>1, HeadTaken
<1>2. e \in Event /\ e.fd = fired[1].fd /\ e.of = fired[1].of /\ "R" \notin e.mask
  BY <1>1
<1>3. fired' = [fired EXCEPT ![1] = e]
  BY <1>1 DEF readHandlerRuns
<1> HIDE DEF e, Event
<1>4. fired' \in Seq(Event) /\ DOMAIN fired' = DOMAIN fired
  BY <1>1, <1>2, <1>3
<1>5. \A i \in DOMAIN fired : fired'[i] = IF i = 1 THEN e ELSE fired[i]
  BY <1>1, <1>3
<1> QED
  BY <1>1, <1>2, <1>4, <1>5 DEF Event

(* The steps of the dispatch loop that touch neither a connection nor an   *)
(* event registered.                                                       *)
LEMMA DispatchIInv ==
  ASSUME IInv,
         \/ dispatchEnds \/ nextFired \/ startAccept \/ acceptEnds \/ refuse
         \/ readWithoutConn \/ sendReplyToClient
  PROVE  IInv'
<1> DEFINE Event == [fd : Fds, mask : SUBSET {"R", "W"}, of : Clients \cup {NULL}]
<1>0. /\ UNCHANGED <<clients, pending_write, to_close, current, conn, fd, mask,
                     clientData, interest, maxfd, out, dialled, inbox, asked, peer>>
      /\ phase # "crashed"
  BY DEF dispatchEnds, nextFired, startAccept, acceptEnds, refuse, acceptNext,
         readWithoutConn, sendReplyToClient, Reading, FiredNow, lists, events, net
<1>1. /\ backlog' \in Nat /\ backlog' <= backlog /\ backlog \in 0..Peers
      /\ max' \in 0..MaxAccepts
      /\ backlog' = backlog \/ backlog' = backlog - 1
  <2>1. backlog \in 0..Peers /\ max \in 0..MaxAccepts /\ Peers \in Nat /\ MaxAccepts \in Nat
    BY ServerAssumption DEF IInv, TypeOK
  <2>2. max' \in {max, MaxAccepts} /\ (backlog' = backlog \/ (backlog > 0 /\ backlog' = backlog - 1))
    BY DEF dispatchEnds, nextFired, startAccept, acceptEnds, refuse, acceptNext,
           readWithoutConn, sendReplyToClient, net
  <2>3. backlog' \in Nat /\ backlog' <= backlog
    BY <2>1, <2>2
  <2> QED
    BY <2>1, <2>2, <2>3
<1>2. /\ fired' \in Seq(Event)
      /\ phase' \in {"flush", "dispatch", "accept", "crashed"}
      /\ Turn'
      /\ \/ \A i \in DOMAIN fired' :
              /\ i \in DOMAIN fired
              /\ fired'[i].fd = fired[i].fd /\ fired'[i].of = fired[i].of
              /\ "R" \in fired'[i].mask => "R" \in fired[i].mask
         \/ \A i \in DOMAIN fired' :
              i + 1 \in DOMAIN fired /\ i + 1 > 1 /\ i \in Int /\ fired'[i] = fired[i + 1]
  <2>0. fired \in Seq(Event)
    BY DEF IInv, TypeOK
  <2>1. CASE \/ dispatchEnds \/ acceptEnds \/ refuse \/ sendReplyToClient
    <3>1. fired' = fired
      BY <2>1 DEF dispatchEnds, acceptEnds, refuse, sendReplyToClient
    <3>2. /\ phase' \in {"flush", "dispatch", "crashed"}
          /\ phase \in {"dispatch", "accept"}
          /\ phase' = "flush" => fired = <<>>
      BY <2>1 DEF dispatchEnds, acceptEnds, refuse, acceptNext, sendReplyToClient, FiredNow
    <3> QED
      BY <1>0, <2>0, <3>1, <3>2 DEF IInv, Turn
  <2>2. CASE nextFired
    <3>1. fired' = Tail(fired) /\ fired # <<>> /\ phase = "dispatch" /\ phase' = "dispatch"
      BY <2>2 DEF nextFired
    <3>2. /\ Tail(fired) \in Seq(Event)
          /\ \A i \in DOMAIN Tail(fired) :
               /\ i + 1 \in DOMAIN fired /\ i + 1 > 1 /\ i \in Int
               /\ Tail(fired)[i] = fired[i + 1]
      <4> HIDE DEF Event
      <4> QED
        BY <2>0, <3>1
    <3> QED
      BY <1>0, <3>1, <3>2 DEF IInv, Turn
  <2>3. CASE startAccept \/ readWithoutConn
    <3>1. /\ fired # <<>> /\ readHandlerRuns /\ phase = "dispatch"
          /\ \/ phase' = "accept" /\ Head(fired).fd = ipFd
             \/ phase' = "crashed"
      BY <2>3 DEF startAccept, readWithoutConn, Reading, FiredNow
    <3>2. /\ fired' \in Seq(Event)
          /\ DOMAIN fired' = DOMAIN fired /\ 1 \in DOMAIN fired /\ Head(fired) = fired[1]
          /\ \A i \in DOMAIN fired :
               /\ fired'[i].fd = fired[i].fd /\ fired'[i].of = fired[i].of
               /\ "R" \in fired'[i].mask => "R" \in fired[i].mask
      BY <3>1, ReadTaken
    <3>3. fired' # <<>>
      <4> HIDE DEF Event
      <4> QED
        BY <3>2
    <3>4. Turn'
      BY <1>0, <3>1, <3>2, <3>3 DEF IInv, Turn, ipFd
    <3> QED
      BY <3>1, <3>2, <3>4
  <2> QED
    BY <2>1, <2>2, <2>3
<1>3. TypeOK'
  <2>1. backlog' \in 0..Peers
    BY <1>1, ServerAssumption
  <2> QED
    BY <1>0, <1>1, <1>2, <2>1 DEF IInv, TypeOK
<1> HIDE DEF Event
<1>4. Reported'
  <2>1. CASE \A i \in DOMAIN fired' :
               /\ i \in DOMAIN fired
               /\ fired'[i].fd = fired[i].fd /\ fired'[i].of = fired[i].of
               /\ "R" \in fired'[i].mask => "R" \in fired[i].mask
    <3>1. \A i, j \in DOMAIN fired' : fired'[i].fd = fired'[j].fd => i = j
      BY <2>1 DEF IInv, Reported
    <3>2. \A i \in DOMAIN fired' :
            fired'[i].fd # ipFd /\ (i > 1 \/ mask[fired'[i].fd] # {}) =>
              /\ fired'[i].of \in Clients
              /\ conn[fired'[i].of] = "open" /\ fd[fired'[i].of] = fired'[i].fd
      BY <2>1 DEF IInv, Reported, Open
    <3>3. \A i \in DOMAIN fired', k \in DOMAIN pending_write :
            "R" \in fired'[i].mask => fired'[i].fd # fd[pending_write[k]]
      BY <2>1 DEF IInv, Reported
    <3> QED
      BY <1>0, <3>1, <3>2, <3>3 DEF Reported, Open, ipFd
  <2>2. CASE \A i \in DOMAIN fired' :
               i + 1 \in DOMAIN fired /\ i + 1 > 1 /\ i \in Int /\ fired'[i] = fired[i + 1]
    <3>1. \A i, j \in DOMAIN fired' : fired'[i].fd = fired'[j].fd => i = j
      <4> SUFFICES ASSUME NEW i \in DOMAIN fired', NEW j \in DOMAIN fired',
                          fired'[i].fd = fired'[j].fd
                   PROVE  i = j
        OBVIOUS
      <4>1. i + 1 = j + 1
        BY <2>2 DEF IInv, Reported
      <4> QED
        BY <2>2, <4>1
    <3>2. \A i \in DOMAIN fired' : fired'[i].fd # ipFd =>
            /\ fired'[i].of \in Clients
            /\ conn[fired'[i].of] = "open" /\ fd[fired'[i].of] = fired'[i].fd
      BY <2>2 DEF IInv, Reported, Open
    <3>3. \A i \in DOMAIN fired', k \in DOMAIN pending_write :
            "R" \in fired'[i].mask => fired'[i].fd # fd[pending_write[k]]
      BY <2>2 DEF IInv, Reported
    <3> QED
      BY <1>0, <3>1, <3>2, <3>3 DEF Reported, Open, ipFd
  <2> QED
    BY <1>2, <2>1, <2>2
<1>5. Numbered'
  <2>1. PICK n \in 0..Peers : /\ \A c \in Clients : conn[c] # "none" <=> c <= n
                              /\ n + backlog <= dialled
    BY DEF IInv, Numbered
  <2>2. n + backlog' <= dialled'
    <3>1. n \in Int /\ dialled \in Int /\ backlog \in Int /\ n + backlog <= dialled
      BY <2>1, ServerAssumption DEF IInv, TypeOK
    <3>2. CASE backlog' = backlog
      BY <1>0, <3>1, <3>2
    <3>3. CASE backlog' = backlog - 1
      BY <1>0, <3>1, <3>3
    <3> QED
      BY <1>1, <3>2, <3>3
  <2> QED
    BY <1>0, <2>1, <2>2 DEF IInv, Numbered, Open, ipFd
<1>6. Listed'
  BY <1>0 DEF IInv, Listed, Open
<1>7. RepliesScheduled' /\ EventsInSync' /\ ClientLimit'
  BY <1>0 DEF IInv, RepliesScheduled, EventsInSync, ClientLimit, Open
<1> QED
  BY <1>2, <1>3, <1>4, <1>5, <1>6, <1>7 DEF IInv

(* There is a descriptor for a new connection: fewer connections are open  *)
(* than there are descriptors above the listening one.                     *)
LEMMA FreeDescriptor ==
  ASSUME IInv, NEW f, f = Min(Fds \ (OpenFds \cup 0..ipFd))
  PROVE  f \in Fds /\ f > ipFd /\ \A c \in Clients : Open(c) => fd[c] # f
<1> DEFINE free == Fds \ (OpenFds \cup 0..ipFd)
           high == BaseFds..(BaseFds + Peers)
<1>0. BaseFds \in Nat /\ Peers \in Nat /\ ipFd = BaseFds - 1
  BY ServerAssumption DEF ipFd
<1>1. free # {}
  <2> SUFFICES ASSUME free = {}
               PROVE  FALSE
    OBVIOUS
  <2> DEFINE owner == [x \in high |-> OwnerOf(x)]
  <2>1. \A x \in high : x \in Fds /\ x \notin 0..ipFd
    BY <1>0 DEF Fds
  <2>2. \A x \in high : \E c \in Clients : Open(c) /\ fd[c] = x
    BY <2>1 DEF OpenFds
  <2>3. \A x \in high : OwnerOf(x) \in Clients /\ fd[OwnerOf(x)] = x
    BY <2>2 DEF OwnerOf
  <2>4. /\ IsFiniteSet(high) /\ Cardinality(high) = Peers + 1
        /\ IsFiniteSet(Clients) /\ Cardinality(Clients) = Peers
    <3>1. Cardinality(high) = BaseFds + Peers - BaseFds + 1 /\ IsFiniteSet(high)
      BY <1>0, FS_Interval
    <3>2. Cardinality(1..Peers) = Peers /\ IsFiniteSet(1..Peers)
      BY <1>0, FS_Interval
    <3> QED
      BY <1>0, <3>1, <3>2 DEF Clients
  <2>5. owner \in [high -> Clients]
    BY <2>3
  <2>6. PICK x, y \in high : x # y /\ owner[x] = owner[y]
    <3>1. Cardinality(Clients) < Cardinality(high)
      BY <1>0, <2>4
    <3> HIDE DEF owner, high
    <3> QED
      BY <2>4, <2>5, <3>1, FS_PigeonHole
  <2> QED
    BY <2>3, <2>6
<1>2. \A x \in free : x \in Fds /\ x \in Int /\ x > ipFd /\ x \notin OpenFds
  BY <1>0 DEF Fds
<1>3. IsFiniteSet(free) /\ free \subseteq Int
  <2>1. free \subseteq Fds
    OBVIOUS
  <2> HIDE DEF free
  <2> QED
    BY <1>2, <2>1, FiniteSubset
<1>4. f \in free
  <2>1. f = Min(free)
    OBVIOUS
  <2> HIDE DEF free
  <2>2. \E x \in free : \A y \in free : x <= y
    BY <1>1, <1>3, LeastOfFinite
  <2> QED
    BY <2>1, <2>2 DEF Min
<1> HIDE DEF free
<1> QED
  BY <1>2, <1>4 DEF OpenFds

(* accept(2) of the next connection in the backlog: the next client number *)
(* is free, and so is the descriptor, which no fired event can name.       *)
LEMMA AcceptIInv ==
  ASSUME IInv, accept
  PROVE  IInv'
<1> DEFINE c == 1 + Cardinality({d \in Clients : conn[d] # "none"})
           f == Min(Fds \ (OpenFds \cup 0..ipFd))
<1>0. /\ phase = "accept" /\ max > 0 /\ backlog > 0
      /\ backlog' = backlog - 1 /\ max' = max - 1
      /\ conn' = [conn EXCEPT ![c] = "open"]
      /\ fd' = [fd EXCEPT ![c] = f]
      /\ clients' = clients \cup {c}
      /\ createFileEvent(f, {"R"}, c) \/ createFileEventFails(f)
      /\ ~AtLimit
      /\ UNCHANGED <<pending_write, to_close, current, fired, out, phase, dialled,
                     inbox, asked, peer>>
  BY DEF accept, acceptNext
<1>1. f \in Fds /\ f > ipFd /\ \A d \in Clients : Open(d) => fd[d] # f
  BY FreeDescriptor
<1> HIDE DEF f
<1>2. PICK n \in 0..Peers : /\ \A d \in Clients : conn[d] # "none" <=> d <= n
                            /\ n + backlog <= dialled
  BY DEF IInv, Numbered
<1>3. c = n + 1 /\ c \in Clients /\ conn[c] = "none" /\ c \in 0..Peers
  <2>1. n \in Nat /\ n < Peers /\ Peers \in Nat
    BY <1>0, <1>2, ServerAssumption DEF IInv, TypeOK
  <2>2. {d \in Clients : conn[d] # "none"} = 1..n
    BY <1>2, <2>1 DEF Clients
  <2>3. Cardinality(1..n) = n
    BY <2>1, FS_Interval
  <2>4. c = n + 1
    <3> DEFINE taken == {d \in Clients : conn[d] # "none"}
    <3>1. taken = 1..n
      BY <2>2
    <3> HIDE DEF taken
    <3>2. Cardinality(taken) = n
      BY <2>3, <3>1
    <3>3. c = 1 + Cardinality(taken)
      BY DEF taken
    <3> HIDE DEF c
    <3> QED
      BY <2>1, <3>2, <3>3
  <2>5. n + 1 \in Clients /\ ~(n + 1 <= n)
    BY <2>1 DEF Clients
  <2> HIDE DEF c
  <2>6. conn[c] = "none"
    BY <1>2, <2>4, <2>5, Typed DEF ConnTypes
  <2> QED
    BY <2>1, <2>4, <2>5, <2>6
<1> HIDE DEF c
<1>4. /\ EventTypes' /\ ConnTypes' /\ EventsInSync'
      /\ \A g \in Fds : g # f => mask'[g] = mask[g]
  BY <1>0, <1>1, <1>3, Typed, AcceptSync DEF IInv
<1>5. \A d \in Clients : /\ conn'[d] = IF d = c THEN "open" ELSE conn[d]
                         /\ fd'[d] = IF d = c THEN f ELSE fd[d]
  BY <1>0, Typed DEF ConnTypes
<1>6. \A d \in Clients : Open(d) => d # c /\ fd[d] # f /\ fd[d] \in Fds
  BY <1>1, <1>3, Typed DEF Open
<1>7. TypeOK'
  <2>1. max' \in 0..MaxAccepts /\ backlog' \in 0..Peers
    BY <1>0, ServerAssumption DEF IInv, TypeOK
  <2>2. clients' \subseteq Clients
    BY <1>0, <1>3 DEF IInv, TypeOK
  <2> QED
    BY <1>0, <1>4, <2>1, <2>2 DEF IInv, TypeOK, EventTypes, ConnTypes
<1>8. /\ \A i \in DOMAIN pending_write : pending_write[i] \in Clients /\ Open(pending_write[i])
      /\ \A i \in DOMAIN to_close : to_close[i] \in Clients /\ Open(to_close[i])
  BY Typed DEF IInv, Listed
<1>9. Listed'
  <2>1. /\ \A i \in DOMAIN pending_write : conn'[pending_write[i]] = "open"
        /\ \A i \in DOMAIN to_close : conn'[to_close[i]] = "open"
    BY <1>5, <1>6, <1>8 DEF Open
  <2>2. current # NULL => conn'[current] \in {"open", "dangling"}
    BY <1>5 DEF IInv, TypeOK, Listed
  <2> QED
    BY <1>0, <2>1, <2>2 DEF IInv, Listed, Open, NULL
<1>10. Reported'
  <2>1. \A i \in DOMAIN fired : fired[i].fd # ipFd =>
          /\ fired[i].of \in Clients
          /\ Open(fired[i].of) /\ fd[fired[i].of] = fired[i].fd
    <3> SUFFICES ASSUME NEW i \in DOMAIN fired, fired[i].fd # ipFd
                 PROVE  /\ fired[i].of \in Clients
                        /\ Open(fired[i].of) /\ fd[fired[i].of] = fired[i].fd
      OBVIOUS
    <3>1. fired[1].fd = ipFd
      BY <1>0 DEF IInv, Turn
    <3>2. i \in Int /\ i >= 1
      BY DEF IInv, TypeOK
    <3>3. i > 1
      BY <3>1, <3>2
    <3> QED
      BY <3>3 DEF IInv, Reported
  <2>2. \A i \in DOMAIN fired : fired[i].fd # ipFd =>
          /\ fired[i].of \in Clients
          /\ conn'[fired[i].of] = "open" /\ fd'[fired[i].of] = fired[i].fd
    BY <1>5, <1>6, <2>1 DEF Open
  <2>3. \A k \in DOMAIN pending_write : fd'[pending_write[k]] = fd[pending_write[k]]
    BY <1>5, <1>6, <1>8
  <2>4. \A i, j \in DOMAIN fired : fired[i].fd = fired[j].fd => i = j
    BY DEF IInv, Reported
  <2>5. \A i \in DOMAIN fired, k \in DOMAIN pending_write :
          "R" \in fired[i].mask => fired[i].fd # fd'[pending_write[k]]
    BY <2>3 DEF IInv, Reported
  <2> QED
    BY <1>0, <2>2, <2>4, <2>5 DEF Reported, Open, ipFd
<1>11. Turn'
  BY <1>0 DEF IInv, Turn, ipFd
<1>12. Numbered'
  <2>1. \A d \in Clients : conn'[d] # "none" <=> d <= c
    BY <1>2, <1>3, <1>5 DEF Clients
  <2>2. c + backlog' <= dialled'
    BY <1>0, <1>2, <1>3, ServerAssumption DEF IInv, TypeOK
  <2>3. \A d \in Clients : /\ inbox[d] <= asked[d]
                           /\ conn'[d] = "none" => out[d] = 0
                           /\ conn'[d] = "open" => fd'[d] > ipFd
    BY <1>1, <1>5 DEF IInv, Numbered, Open
  <2> QED
    BY <1>0, <1>3, <2>1, <2>2, <2>3 DEF Numbered, Open, ipFd, Clients
<1>13. RepliesScheduled'
  <2> SUFFICES ASSUME NEW d \in Clients, conn'[d] = "open", out[d] > 0
               PROVE  \/ d \in Range(pending_write) \cup Range(to_close)
                      \/ "W" \in mask'[fd'[d]]
    BY <1>0 DEF RepliesScheduled, Open
  <2>1. d # c
    BY <1>3 DEF IInv, Numbered
  <2>2. Open(d) /\ fd'[d] = fd[d]
    BY <1>5, <2>1 DEF Open
  <2>3. \/ d \in Range(pending_write) \cup Range(to_close)
        \/ "W" \in mask[fd[d]]
    BY <1>0, <2>2 DEF IInv, RepliesScheduled
  <2> QED
    BY <1>4, <1>6, <2>2, <2>3
<1>14. ClientLimit'
  <2>1. IsFiniteSet(clients) /\ Cardinality(clients) \in Nat
    BY FiniteSubset DEF IInv, TypeOK
  <2>2. c \notin clients
    BY <1>3 DEF IInv, ClientLimit
  <2>3. Cardinality(clients') = Cardinality(clients) + 1
    BY <1>0, <2>1, <2>2, FS_AddElement
  <2>4. Cardinality(clients') <= maxClient
    BY <1>0, <2>1, <2>3, ServerAssumption DEF AtLimit
  <2>5. clients' = {d \in Clients : conn'[d] \in {"open", "dangling"}}
    BY <1>0, <1>3, <1>5 DEF IInv, ClientLimit
  <2> QED
    BY <2>4, <2>5 DEF ClientLimit
<1> QED
  BY <1>4, <1>7, <1>9, <1>10, <1>11, <1>12, <1>13, <1>14 DEF IInv

(* A read handler runs for the open connection of the first descriptor,    *)
(* which has no replies queued in this turn.                               *)
LEMMA ReadingClient ==
  ASSUME IInv, NEW c \in Clients, Reading(c)
  PROVE  /\ phase = "dispatch" /\ fired # <<>> /\ readHandlerRuns
         /\ 1 \in DOMAIN fired /\ fired[1].fd # ipFd /\ fired[1].fd \in Fds
         /\ Open(c) /\ fd[c] = fired[1].fd /\ mask[fd[c]] # {}
         /\ to_close = <<>>
         /\ \A k \in DOMAIN pending_write : pending_write[k] # c
<1>1. /\ phase = "dispatch" /\ fired # <<>> /\ readHandlerRuns
      /\ Head(fired).fd # ipFd /\ c = clientData[Head(fired).fd]
      /\ "R" \in Head(fired).mask /\ mask[Head(fired).fd] # {}
  BY DEF Reading, FiredNow
<1>2. Head(fired) = fired[1] /\ 1 \in DOMAIN fired /\ fired[1].fd \in Fds
  <2> DEFINE Event == [fd : Fds, mask : SUBSET {"R", "W"}, of : Clients \cup {NULL}]
  <2>1. fired \in Seq(Event)
    BY DEF IInv, TypeOK
  <2>2. Head(fired) = fired[1] /\ 1 \in DOMAIN fired /\ fired[1] \in Event
    <3> HIDE DEF Event
    <3> QED
      BY <1>1, <2>1, HeadTaken
  <2> QED
    BY <2>2
<1>3. Open(c) /\ fd[c] = fired[1].fd
  <2>1. PICK d \in Clients : /\ Open(d) /\ fd[d] = fired[1].fd
                             /\ c = IF "W" \in mask[fired[1].fd] THEN NULL ELSE d
    BY <1>1, <1>2 DEF IInv, EventsInSync
  <2>2. c # NULL
    BY ServerAssumption DEF Clients, NULL
  <2> QED
    BY <2>1, <2>2
<1>4. to_close = <<>>
  BY <1>1 DEF IInv, Turn
<1>5. \A k \in DOMAIN pending_write : pending_write[k] # c
  BY <1>1, <1>2, <1>3 DEF IInv, Reported
<1> QED
  BY <1>1, <1>2, <1>3, <1>4, <1>5

(* Requests are read and answered: the client is queued unless it already  *)
(* had replies, and then it waits to become writable.                      *)
LEMMA ReadRequestsIInv ==
  ASSUME IInv, NEW c \in Clients, readRequests(c)
  PROVE  IInv'
<1>0. /\ Reading(c) /\ inbox[c] > 0 /\ current' = c
      /\ UNCHANGED <<clients, to_close, conn, fd, mask, clientData, interest, maxfd,
                     max, backlog, dialled, asked, peer, phase>>
  BY DEF readRequests, events
<1>0a. PICK m \in 1..inbox[c] :
        /\ inbox' = [inbox EXCEPT ![c] = @ - m]
        /\ \E replies \in 0..m : addReplies(c, replies)
  BY DEF readRequests
<1>1. PICK replies \in 0..m : addReplies(c, replies)
  BY <1>0a
<1>2. /\ phase = "dispatch" /\ fired # <<>> /\ readHandlerRuns
      /\ 1 \in DOMAIN fired /\ fired[1].fd # ipFd /\ fired[1].fd \in Fds
      /\ Open(c) /\ fd[c] = fired[1].fd
      /\ to_close = <<>>
      /\ \A k \in DOMAIN pending_write : pending_write[k] # c
  BY <1>0, ReadingClient
<1>3. /\ pending_write \in Seq(Clients) /\ out \in [Clients -> Nat]
      /\ inbox' = [inbox EXCEPT ![c] = @ - m]
      /\ replies \in Nat /\ inbox[c] \in Nat /\ m \in Nat /\ m <= inbox[c]
      /\ inbox \in [Clients -> 0..MaxReq] /\ MaxReq \in Nat
  BY <1>0a, <1>1, Typed, ServerAssumption DEF IInv, TypeOK
<1>4. /\ out' = [out EXCEPT ![c] = @ + replies]
      /\ \A d \in Clients : out'[d] = IF d = c THEN out[c] + replies ELSE out[d]
      /\ out' \in [Clients -> Nat]
  BY <1>1, <1>3 DEF addReplies
<1>5. \/ pending_write' = pending_write /\ (out[c] > 0 \/ out'[c] = 0)
      \/ pending_write' = <<c>> \o pending_write /\ out'[c] > 0
  BY <1>1, <1>3, <1>4 DEF addReplies
<1>6. /\ pending_write' \in Seq(Clients)
      /\ \A i \in DOMAIN pending_write' :
           \/ pending_write'[i] = c /\ out'[c] > 0
           \/ \E k \in DOMAIN pending_write : pending_write'[i] = pending_write[k]
      /\ \A i, j \in DOMAIN pending_write' : pending_write'[i] = pending_write'[j] => i = j
      /\ \A i \in DOMAIN pending_write :
           \E k \in DOMAIN pending_write' : pending_write'[k] = pending_write[i]
      /\ out'[c] > 0 /\ ~(out[c] > 0) =>
           \E k \in DOMAIN pending_write' : pending_write'[k] = c
  <2>1. CASE pending_write' = pending_write /\ (out[c] > 0 \/ out'[c] = 0)
    BY <1>3, <2>1 DEF IInv, Listed
  <2>2. CASE pending_write' = <<c>> \o pending_write /\ out'[c] > 0
    <3>1. /\ pending_write' \in Seq(Clients)
          /\ 1 \in DOMAIN pending_write' /\ pending_write'[1] = c
          /\ \A i \in DOMAIN pending_write' :
               \/ i = 1 /\ pending_write'[i] = c
               \/ /\ i - 1 \in DOMAIN pending_write /\ i \in Int
                  /\ pending_write'[i] = pending_write[i - 1]
          /\ \A i \in DOMAIN pending_write :
               i + 1 \in DOMAIN pending_write' /\ pending_write'[i + 1] = pending_write[i]
      <4> DEFINE q == <<c>> \o pending_write
      <4>1. /\ q \in Seq(Clients)
            /\ 1 \in DOMAIN q /\ q[1] = c
            /\ \A i \in DOMAIN q :
                 \/ i = 1 /\ q[i] = c
                 \/ i - 1 \in DOMAIN pending_write /\ i \in Int /\ q[i] = pending_write[i - 1]
            /\ \A i \in DOMAIN pending_write :
                 i + 1 \in DOMAIN q /\ q[i + 1] = pending_write[i]
        <5>1. c \in Clients /\ pending_write \in Seq(Clients)
          BY <1>3
        <5> QED
          BY <5>1
      <4>2. pending_write' = q
        BY <2>2
      <4> HIDE DEF q
      <4> QED
        BY <4>1, <4>2
    <3>2. \A i, j \in DOMAIN pending_write' : pending_write'[i] = pending_write'[j] => i = j
      <4> SUFFICES ASSUME NEW i \in DOMAIN pending_write', NEW j \in DOMAIN pending_write',
                          pending_write'[i] = pending_write'[j], i # j
                   PROVE  FALSE
        OBVIOUS
      <4>1. i # 1 /\ j # 1
        BY <1>2, <3>1
      <4>2. i - 1 = j - 1
        BY <3>1, <4>1 DEF IInv, Listed
      <4> QED
        BY <3>1, <4>1, <4>2
    <3> QED
      BY <2>2, <3>1, <3>2
  <2> QED
    BY <1>5, <2>1, <2>2
<1>7. /\ fired' \in Seq([fd : Fds, mask : SUBSET {"R", "W"}, of : Clients \cup {NULL}])
      /\ DOMAIN fired' = DOMAIN fired
      /\ \A i \in DOMAIN fired : /\ fired'[i].fd = fired[i].fd
                                 /\ fired'[i].of = fired[i].of
                                 /\ "R" \in fired'[i].mask =>
                                      i # 1 /\ "R" \in fired[i].mask
  BY <1>2, ReadTaken
<1>8. /\ inbox' \in [Clients -> 0..MaxReq]
      /\ \A d \in Clients : inbox'[d] = IF d = c THEN inbox[c] - m ELSE inbox[d]
  BY <1>3
<1>9. TypeOK'
  BY <1>0, <1>4, <1>6, <1>7, <1>8 DEF IInv, TypeOK
<1>10. Listed'
  <2>1. \A i \in DOMAIN pending_write' :
          conn[pending_write'[i]] = "open" /\ out'[pending_write'[i]] > 0
    <3> SUFFICES ASSUME NEW i \in DOMAIN pending_write'
                 PROVE  conn[pending_write'[i]] = "open" /\ out'[pending_write'[i]] > 0
      OBVIOUS
    <3>1. CASE pending_write'[i] = c /\ out'[c] > 0
      BY <1>2, <3>1 DEF Open
    <3>2. CASE \E k \in DOMAIN pending_write : pending_write'[i] = pending_write[k]
      <4>1. PICK k \in DOMAIN pending_write : pending_write'[i] = pending_write[k]
        BY <3>2
      <4>2. pending_write[k] \in Clients /\ pending_write[k] # c
        BY <1>2, <1>3
      <4>3. Open(pending_write[k]) /\ out[pending_write[k]] > 0
        BY DEF IInv, Listed
      <4>4. out'[pending_write[k]] > 0
        BY <1>4, <4>2, <4>3
      <4> QED
        BY <4>1, <4>3, <4>4 DEF Open
    <3> QED
      BY <1>6, <3>1, <3>2
  <2> QED
    BY <1>0, <1>2, <1>6, <2>1 DEF Listed, Open, NULL
<1>11. Turn'
  BY <1>0, <1>2 DEF Turn
<1>12. Reported'
  <2>1. \A i, j \in DOMAIN fired' : fired'[i].fd = fired'[j].fd => i = j
    BY <1>7 DEF IInv, Reported
  <2>2. \A i \in DOMAIN fired' :
          fired'[i].fd # ipFd /\ (i > 1 \/ mask[fired'[i].fd] # {}) =>
            /\ fired'[i].of \in Clients
            /\ conn[fired'[i].of] = "open" /\ fd[fired'[i].of] = fired'[i].fd
    BY <1>7 DEF IInv, Reported, Open
  <2>3. ASSUME NEW i \in DOMAIN fired', NEW k \in DOMAIN pending_write',
               "R" \in fired'[i].mask
        PROVE  fired'[i].fd # fd[pending_write'[k]]
    <3>1. i \in DOMAIN fired /\ i # 1 /\ "R" \in fired[i].mask /\ fired'[i].fd = fired[i].fd
      BY <1>7, <2>3
    <3>2. fired[i].fd # fd[c]
      BY <1>2, <3>1 DEF IInv, Reported
    <3>3. \A j \in DOMAIN pending_write : fired[i].fd # fd[pending_write[j]]
      BY <3>1 DEF IInv, Reported
    <3> QED
      BY <1>6, <3>1, <3>2, <3>3
  <2> QED
    BY <1>0, <2>1, <2>2, <2>3 DEF Reported, Open, ipFd
<1>13. Numbered'
  <2>1. \A d \in Clients : /\ inbox'[d] <= asked[d]
                           /\ conn[d] = "none" => out'[d] = 0
    <3> SUFFICES ASSUME NEW d \in Clients
                 PROVE  inbox'[d] <= asked[d] /\ (conn[d] = "none" => out'[d] = 0)
      OBVIOUS
    <3>1. inbox[d] <= asked[d] /\ asked[d] \in Nat /\ inbox[d] \in Nat
      BY ServerAssumption DEF IInv, TypeOK, Numbered
    <3>2. inbox'[d] <= asked[d]
      BY <1>3, <1>8, <3>1
    <3>3. conn[d] = "none" => out'[d] = 0
      BY <1>2, <1>4 DEF IInv, Numbered, Open
    <3> QED
      BY <3>2, <3>3
  <2> QED
    BY <1>0, <2>1 DEF IInv, Numbered, Open, ipFd
<1>14. RepliesScheduled'
  <2> SUFFICES ASSUME NEW d \in Clients, Open(d), out'[d] > 0
               PROVE  \/ d \in Range(pending_write') \cup Range(to_close)
                      \/ "W" \in mask[fd[d]]
    BY <1>0 DEF RepliesScheduled, Open
  <2>1. CASE d = c /\ ~(out[c] > 0)
    BY <1>6, <2>1 DEF Range
  <2>2. CASE out[d] > 0
    <3>1. \/ d \in Range(pending_write) \cup Range(to_close)
          \/ "W" \in mask[fd[d]]
      BY <1>2, <2>2 DEF IInv, RepliesScheduled
    <3>2. d \in Range(pending_write) => d \in Range(pending_write')
      BY <1>6 DEF Range
    <3> QED
      BY <3>1, <3>2
  <2> QED
    BY <1>4, <2>1, <2>2
<1>15. EventsInSync' /\ ClientLimit'
  BY <1>0 DEF IInv, EventsInSync, ClientLimit, Open
<1> QED
  BY <1>9, <1>10, <1>11, <1>12, <1>13, <1>14, <1>15 DEF IInv

(* The connection ends: its client is on no list, and no other event that  *)
(* was reported is of its descriptor.                                      *)
LEMMA ReadEndsIInv ==
  ASSUME IInv, NEW c \in Clients, readEnds(c)
  PROVE  IInv'
<1>0. /\ Reading(c)
      /\ conn' = [conn EXCEPT ![c] = "dangling"]
      /\ inbox' = [inbox EXCEPT ![c] = 0]
      /\ deleteFileEvents(fd[c])
      /\ UNCHANGED <<clients, pending_write, to_close, current, fd, max, out, backlog,
                     dialled, asked, peer, phase>>
  BY DEF readEnds, lists
<1>1. /\ phase = "dispatch" /\ fired # <<>> /\ readHandlerRuns
      /\ 1 \in DOMAIN fired /\ fired[1].fd # ipFd /\ fired[1].fd \in Fds
      /\ Open(c) /\ fd[c] = fired[1].fd
      /\ to_close = <<>>
      /\ \A k \in DOMAIN pending_write : pending_write[k] # c
  BY <1>0, ReadingClient
<1>2. /\ EventTypes' /\ EventsInSync' /\ mask'[fd[c]] = {}
      /\ \A f \in Fds : f # fd[c] => mask'[f] = mask[f]
  BY <1>0, <1>1, Typed, CloseSync DEF IInv
<1>3. \A d \in Clients : conn'[d] = IF d = c THEN "dangling" ELSE conn[d]
  BY <1>0, Typed DEF ConnTypes
<1>4. /\ fired' \in Seq([fd : Fds, mask : SUBSET {"R", "W"}, of : Clients \cup {NULL}])
      /\ DOMAIN fired' = DOMAIN fired
      /\ \A i \in DOMAIN fired : /\ fired'[i].fd = fired[i].fd
                                 /\ fired'[i].of = fired[i].of
                                 /\ "R" \in fired'[i].mask => "R" \in fired[i].mask
  BY <1>1, ReadTaken
<1>5. TypeOK'
  <2>1. /\ conn' \in [Clients -> {"none", "open", "dangling", "freed"}]
        /\ inbox' \in [Clients -> 0..MaxReq]
    BY <1>0, ServerAssumption DEF IInv, TypeOK
  <2> QED
    BY <1>0, <1>2, <1>4, <2>1 DEF IInv, TypeOK, EventTypes
<1>6. Listed'
  <2>1. \A i \in DOMAIN pending_write : conn'[pending_write[i]] = "open"
    <3>1. \A i \in DOMAIN pending_write : pending_write[i] \in Clients
      BY Typed
    <3> QED
      BY <1>1, <1>3, <3>1 DEF IInv, Listed, Open
  <2>2. current # NULL => conn'[current] \in {"open", "dangling"}
    BY <1>3 DEF IInv, TypeOK, Listed
  <2> QED
    BY <1>0, <1>1, <2>1, <2>2 DEF IInv, Listed, Open, NULL
<1>7. Turn'
  BY <1>0, <1>1 DEF Turn
<1>8. Reported'
  <2>1. \A i, j \in DOMAIN fired : fired[i].fd = fired[j].fd => i = j
    BY DEF IInv, Reported
  <2>2. ASSUME NEW i \in DOMAIN fired, fired[i].fd # ipFd,
               i > 1 \/ mask'[fired[i].fd] # {}
        PROVE  /\ fired[i].of \in Clients
               /\ conn'[fired[i].of] = "open" /\ fd[fired[i].of] = fired[i].fd
    <3>1. i # 1
      BY <1>1, <1>2, <2>2
    <3>2. i > 1 /\ fired[i].fd # fd[c]
      <4>1. i \in Int /\ i >= 1
        BY DEF IInv, TypeOK
      <4> QED
        BY <1>1, <2>1, <3>1, <4>1
    <3>3. /\ fired[i].of \in Clients
          /\ Open(fired[i].of) /\ fd[fired[i].of] = fired[i].fd
      BY <2>2, <3>2 DEF IInv, Reported
    <3> QED
      BY <1>3, <3>2, <3>3 DEF Open
  <2>3. \A i \in DOMAIN fired, k \in DOMAIN pending_write :
          "R" \in fired[i].mask => fired[i].fd # fd[pending_write[k]]
    BY DEF IInv, Reported
  <2>4. \A i \in DOMAIN fired' :
          fired'[i].fd # ipFd /\ (i > 1 \/ mask'[fired'[i].fd] # {}) =>
            /\ fired'[i].of \in Clients
            /\ conn'[fired'[i].of] = "open" /\ fd[fired'[i].of] = fired'[i].fd
    BY <1>4, <2>2
  <2>5. /\ \A i, j \in DOMAIN fired' : fired'[i].fd = fired'[j].fd => i = j
        /\ \A i \in DOMAIN fired', k \in DOMAIN pending_write :
             "R" \in fired'[i].mask => fired'[i].fd # fd[pending_write[k]]
    BY <1>4, <2>1, <2>3
  <2> QED
    BY <1>0, <2>4, <2>5 DEF Reported, Open, ipFd
<1>9. Numbered'
  <2>1. \A d \in Clients : /\ inbox'[d] <= asked[d]
                           /\ conn'[d] = "none" => out[d] = 0
                           /\ conn'[d] = "open" => fd[d] > ipFd
    <3> SUFFICES ASSUME NEW d \in Clients
                 PROVE  /\ inbox'[d] <= asked[d]
                        /\ conn'[d] = "none" => out[d] = 0
                        /\ conn'[d] = "open" => fd[d] > ipFd
      OBVIOUS
    <3>1. /\ inbox[d] <= asked[d] /\ asked[d] \in Nat
          /\ inbox'[d] = IF d = c THEN 0 ELSE inbox[d]
      BY <1>0, ServerAssumption DEF IInv, TypeOK, Numbered
    <3> QED
      BY <1>3, <3>1 DEF IInv, Numbered, Open
  <2>2. \A d \in Clients : conn'[d] # "none" <=> conn[d] # "none"
    BY <1>1, <1>3 DEF Open
  <2> QED
    BY <1>0, <2>1, <2>2 DEF IInv, Numbered, Open, ipFd
<1>10. RepliesScheduled'
  <2> SUFFICES ASSUME NEW d \in Clients, conn'[d] = "open", out[d] > 0
               PROVE  \/ d \in Range(pending_write) \cup Range(to_close)
                      \/ "W" \in mask'[fd[d]]
    BY <1>0 DEF RepliesScheduled, Open
  <2>1. d # c /\ Open(d)
    BY <1>3 DEF Open
  <2>2. \/ d \in Range(pending_write) \cup Range(to_close)
        \/ "W" \in mask[fd[d]]
    BY <1>1, <2>1 DEF IInv, RepliesScheduled
  <2>3. fd[d] # fd[c] /\ fd[d] \in Fds
    BY <1>1, <2>1, Typed DEF IInv, EventsInSync
  <2> QED
    BY <1>2, <2>2, <2>3
<1>11. ClientLimit'
  <2>1. clients = {d \in Clients : conn'[d] \in {"open", "dangling"}}
    BY <1>1, <1>3 DEF IInv, ClientLimit, Open
  <2> QED
    BY <1>0, <2>1 DEF IInv, ClientLimit
<1> QED
  BY <1>2, <1>5, <1>6, <1>7, <1>8, <1>9, <1>10, <1>11 DEF IInv

(* Nothing changes.                                                        *)
LEMMA StutterIInv ==
  ASSUME IInv, UNCHANGED vars
  PROVE  IInv'
<1>1. UNCHANGED <<clients, pending_write, to_close, current, conn, fd, mask,
                  clientData, interest, maxfd, fired, max, out, backlog, dialled,
                  inbox, asked, peer, phase>>
  BY DEF vars, lists, events, net
<1>2. Listed' /\ Turn'
  BY <1>1 DEF IInv, Listed, Turn, Open, NULL, ipFd
<1>5. TypeOK'
  BY <1>1 DEF IInv, TypeOK
<1>4. Reported' /\ Numbered'
  BY <1>1 DEF IInv, Reported, Numbered, Open, ipFd
<1>3. RepliesScheduled' /\ EventsInSync' /\ ClientLimit'
  BY <1>1 DEF IInv, RepliesScheduled, EventsInSync, ClientLimit, Open
<1> QED
  BY <1>2, <1>3, <1>4, <1>5 DEF IInv

(* Every step of the loop and of the peers keeps the invariant.            *)
LEMMA NextIInv == IInv /\ [Next]_vars => IInv'
<1> SUFFICES ASSUME IInv, [Next]_vars
             PROVE  IInv'
  OBVIOUS
<1>1. CASE beforeSleep
  BY <1>1, FlushIInv, ReapIInv DEF beforeSleep
<1>2. CASE eventPoll
  BY <1>2, PollIInv
<1>3. CASE dispatchEnds \/ nextFired \/ sendReplyToClient \/ readWithoutConn
  BY <1>3, DispatchIInv
<1>4. CASE acceptTcpHandler
  BY <1>4, DispatchIInv, AcceptIInv DEF acceptTcpHandler
<1>5. ASSUME NEW c \in Clients, readRequests(c) \/ readEnds(c)
      PROVE  IInv'
  BY <1>5, ReadRequestsIInv, ReadEndsIInv
<1>6. CASE Peer
  BY <1>6, PeerIInv
<1>7. CASE UNCHANGED vars
  BY <1>7, StutterIInv
<1> QED
  BY <1>1, <1>2, <1>3, <1>4, <1>5, <1>6, <1>7
  DEF Next, processEvents, readQueryFromClient

-----------------------------------------------------------------------------
(* The inductive invariant of the event loop.                              *)
THEOREM InvariantIInv == Spec => []IInv
<1> QED
  BY InitIInv, NextIInv, PTL DEF Spec

(* Every variable keeps its type, the counters of the bounds included.     *)
THEOREM TypesKept == Spec => []TypeOK
<1>1. IInv => TypeOK
  BY DEF IInv
<1> QED
  BY <1>1, InvariantIInv, PTL

(* A client on a list of beforeSleep() is on one of them, once, and its    *)
(* connection is there: the lists never lead to a dangling c->conn.        *)
THEOREM ListedClientsLive == Spec => []PointersLive
<1>1. IInv => PointersLive
  <2> SUFFICES ASSUME IInv
               PROVE  PointersLive
    OBVIOUS
  <2> DEFINE listed == pending_write \o to_close
             n == Len(pending_write)
  <2>1. /\ pending_write \in Seq(Clients) /\ to_close \in Seq(Clients) /\ n \in Nat
        /\ DOMAIN pending_write = 1..n /\ DOMAIN to_close = 1..Len(to_close)
    BY Typed
  <2>2. \A i \in DOMAIN listed :
          /\ i \in Int
          /\ \/ i \in DOMAIN pending_write /\ listed[i] = pending_write[i]
             \/ i - n \in DOMAIN to_close /\ listed[i] = to_close[i - n]
    BY <2>1
  <2> HIDE DEF listed, n
  <2>3. ASSUME NEW i \in DOMAIN listed, NEW j \in DOMAIN listed, listed[i] = listed[j]
        PROVE  i = j
    <3>1. CASE i \in DOMAIN pending_write /\ listed[i] = pending_write[i]
      BY <2>2, <2>3, <3>1 DEF IInv, Listed
    <3>2. CASE i - n \in DOMAIN to_close /\ listed[i] = to_close[i - n]
      <4>1. j - n \in DOMAIN to_close /\ listed[j] = to_close[j - n]
        BY <2>2, <2>3, <3>2 DEF IInv, Listed
      <4>2. i - n = j - n
        BY <2>3, <3>2, <4>1 DEF IInv, Listed
      <4> QED
        BY <2>1, <2>2, <4>2
    <3> QED
      BY <2>2, <3>1, <3>2
  <2>4. \A i \in DOMAIN listed : Open(listed[i])
    BY <2>2 DEF IInv, Listed
  <2> QED
    BY <2>3, <2>4 DEF PointersLive, IsInjective, IInv, Listed, listed
<1> QED
  BY <1>1, InvariantIInv, PTL

(* Replies of a live connection are never stranded.                        *)
THEOREM RepliesKept == Spec => []RepliesScheduled
<1>1. IInv => RepliesScheduled
  BY DEF IInv
<1> QED
  BY <1>1, InvariantIInv, PTL

(* The loop's table, the kernel's interest list and the open connections   *)
(* agree, whatever descriptors are closed and reused.                      *)
THEOREM EventsAgree == Spec => []EventsInSync
<1>1. IInv => EventsInSync
  BY DEF IInv
<1> QED
  BY <1>1, InvariantIInv, PTL

(* No event is dispatched to a connection it was not reported of.          *)
THEOREM EventsFresh == Spec => []NoStaleEvent
<1>1. IInv => NoStaleEvent
  BY DEF IInv, Reported, NoStaleEvent
<1> QED
  BY <1>1, InvariantIInv, PTL

(* At most maxClient clients exist, with or without a connection.          *)
THEOREM ClientsLimited == Spec => []ClientLimit
<1>1. IInv => ClientLimit
  BY DEF IInv
<1> QED
  BY <1>1, InvariantIInv, PTL
================================================================================
