# A TLA+ model of resp-server

`resp-server` (C, one thread) is the network half of a Redis-like server: it
accepts TCP connections, parses RESP2 requests, looks the command up in a table
the embedding program supplies, and sends the replies the command adds. This
directory models that code, checks the models with TLC on small instances, and
proves with TLAPS, for every size, the safety of what a connection goes through:
the request parser, the reply buffers, the event loop with its clients and
descriptors, the timers, and the libraries below them: linked lists, the hash
table and dynamic strings.

Paths below are relative to the repository's `src/`.

## The system

| component | code | state | operations |
|---|---|---|---|
| configuration and start | `server.c` 397-419, 783-842 | `server`, the event loop, the listening socket | `respInitOptions`, `initServer`, `respListenEvent` |
| file events | `event.c` 13-206, 360-437 | `fileEvents[]` (mask, two handlers, one clientData), `firedFileEvents[]`, `maxfd`, the epoll instance | `createFileEvent`, `deleteFileEvent`, `eventPoll`, `processEvents` |
| time events | `event.c` 212-358 | `timeEventHead`, ids, reference counts, `lastTime` | `createTimeEvent`, `searchNearestTimer`, `processTimeEvents` |
| connections | `connection.c` | fd, state, last errno, private data | accept, read, write, close |
| client life cycle | `server.c` 67-70, 299-325, 525-644, 758-771 | `server.clients`, `clients_pending_write`, `clients_to_close`, `current_client` | `acceptTcpHandler`, `createClient`, `unlinkClient`, `freeClient(Async)` |
| request parser | `server.c` 72-242, 422-523 | `querybuf`, `qb_pos`, `reqtype`, `multibulklen`, `bulklen`, `argv` | `readQueryFromClient`, `processInputBuffer`, `processMultibulkBuffer` |
| command dispatch | `server.c` 27-35, 233-297, `main.c` | the command table, `c->cmd` | `lookupCommand`, `processCommand` |
| reply buffers and flush | `reply.c`, `server.c` 646-781 | `buf`/`bufpos`, `reply`, `reply_bytes`, `sentlen` | the `addReply` family, `writeToClient`, `beforeSleep` |
| hash table | `dict.c` | two tables of chains, `rehashidx`, the count of safe iterators | add, replace, delete, find, resize, `dictRehash`, iterators, `dictScan` |
| linked list | `adlist.c` | `head`, `tail`, `len`, the links of the nodes, iterators | add, insert, delete, rotate, join, `listNext` |
| dynamic strings | `sds.c`, `sds.h` | header type, `len`, `alloc`, the block | create, append, copy, trim, cut, make and remove room, formats, split, join |
| numbers, objects | `util.c`, `object.c` | none of their own | `string2ll`, `ll2string`, `createStringObject`, `getAbsolutePath` |
| the rest | `log.c`, `zmalloc.c`, `siphash.c`, `endianconv.c` | | |

How they interact: everything runs in `eventMain()`. A turn of the loop calls
`beforeSleep()`, which first flushes the clients of `clients_pending_write` and
then frees those of `clients_to_close`; then `epoll_wait()`; then the handlers
of the ready descriptors in the order the kernel gave. The read handler of a
client parses, executes, and lets commands fill the reply buffers; the first
reply puts the client on `clients_pending_write`. There is no other thread: the
hard behaviours come from the outside (reads cut anywhere, partial and failing
writes, peers that hang up or reset between any two steps, descriptors reused
at once) meeting state that is kept from one turn to the next.

What makes each part correct, and how it is checked:

* parser: what is executed is what was sent, however it was cut (`CommandsExact`,
  `CommandsSpec`); a rejected request is never resumed;
* replies: the wire carries the bytes in order, once each (`WireInOrder`,
  `StreamSpec`), no buffer overflows, counters agree, everything is flushed;
* clients and events: lists name live connections only, each unsent reply is
  waited for, the kernel, the event table and the connections agree, no event
  reaches another connection than its own, the limit holds, nobody starves;
* timers: none is called early, after it answered `EVENT_NOMORE` or through a
  freed node, the loop sleeps past none but by what `beforeSleep()` took, each is
  called and freed in the end;
* hash table: the results are those of a map in every stage of a rehash, which
  ends; an iterator or a scan meets every key that stays;
* lists: the links implement sequences, also when a walk deletes what it meets;
* replies as a client reads them: one well-formed reply to every command and
  error, whatever bytes of the request it repeats (`RepliesFramed`);
* strings: header, block and content agree after any calls, and each call does to
  the content what it promises (`HeaderFits`, `ContentExact`); numbers, quoted
  text and tokens come back as they were (`NumbersExact`, `ReprRoundTrip`,
  `SplitJoins`).

## Modules

| module | what it is |
|---|---|
| `ReplyStream` | abstract: a stream of bytes that may be lost only with the connection |
| `ReplyBuffer` | the output side of one client: `c->buf`, `c->reply`, counters, flush, free |
| `ReplyBufferProofs` | theorems about `ReplyBuffer` |
| `CommandStream` | abstract: requests are executed once each, in order, and all of them |
| `Commands` | what `processCommand()` answers, and how a client reads it; no state of its own |
| `RequestParser` | the input side of one client: reading, parsing, `processCommand()` as a step |
| `RequestParserProofs` | theorems about `RequestParser` |
| `Server` | several clients: event loop, accept, read, close, flush, free, file events |
| `ServerProofs` | theorems about `Server` |
| `TimeEvents` | the timers of the event loop |
| `TimeEventsProofs` | theorems about `TimeEvents` |
| `DictMap` | abstract: a finite map |
| `DictTable` | the hash table as a value: size, expansion, a step of rehashing, search, insertion, removal; no state of its own |
| `Dict` | the operations of `dict.c` as actions on one dictionary |
| `DictProofs` | theorems about `Dict` |
| `DictWalk` | two safe iterators, or a scan by cursor, over a dictionary that changes |
| `ListSeq` | abstract: lists are sequences |
| `AdList` | `adlist.c` with its pointers, and an iterator |
| `AdListProofs` | theorems about `AdList` |
| `ByteString` | abstract: a string of bytes and what the calls do to it |
| `Sds` | one dynamic string with its header and its block |
| `SdsProofs` | theorems about `Sds` |
| `Numbers` | numbers and their texts |
| `SdsText` | strings made of formats, numbers and quoted text, and taken apart |
| `Strings` | the string library as a whole, string objects and file names |
| `Facts` | lemmas the proofs share; nothing of the code |
| `MC...` | values of the constants for TLC |

`Dict` and `DictWalk` share `DictTable`; `RequestParser` extends `Commands`;
`Strings` extends `SdsText`, which extends `Sds` (and with it `ByteString`) and
`Numbers`. `ReplyBuffer` and `Server` use lists as sequences, which `AdList`
justifies (`AdListProofs` for every size), `Commands` and `RequestParser` use
strings as sequences (`SdsProofs` for every size) and `string2ll()` as a
function, which `Numbers` justifies, and the command table as a function, as
`DictProofs` justifies.

### ReplyBuffer

Reply bytes are numbered in the order the commands produce them, so a buffer is
a sequence of numbers and the wire is right when it reads 1, 2, 3, ... A block
of the list is `[size, data]`, `used` being the length of `data`.

| action | code |
|---|---|
| `addReply(n)` | one call of `addReply()`/`addReplyProto()`/`addReplySds()` with n bytes: queueing, fixed buffer, topping up the tail block, new block (`reply.c` 12-148); the other functions of `reply.c` are several such calls |
| `startWrite` | the client is taken off `clients_pending_write`, `writeToClient()` begins |
| `writeBuf`, `writeHeadBlock` | one `connWrite()` of 1 to all bytes the send buffer takes, and the bookkeeping after it |
| `writeFailed`, `writeKilled` | `write(2)` fails (EAGAIN, ECONNRESET); EPIPE raises SIGPIPE |
| `finishWrite` | the end of `writeToClient()` and of the caller's iteration: all sent, or the write handler is asked for, or that fails and the client is given up |
| `reapClient` | `freeClientsInAsyncFreeQueue()` |
| `handlerFires` | the next event of a descriptor with the write handler |
| `peerAcks`, `peerResets` | the other end |

A command never adds an empty reply as its first one (constants and literals in
`reply.c` and `main.c`); that is `ReplyLensAssumption`.

### RequestParser

Bytes are members of a small alphabet and a number in a header is one byte, of
which `Digits` gives the value (it may be negative or not a number at all); the
algorithm of `string2ll()` is that of `Numbers`. `Inputs` lists what
a client sends: well-formed requests and then a tail, possibly malformed. `reply`
is the last answer with the number of replies it should be: `Commands` makes it,
from the command table (`CommandTable`, names in lower case), the commands of
`main.c` and the error texts, of which the words count as one byte each. A
sequence of answers that are well-formed each is well-formed as a whole, because
a reply says itself where it ends. A name with a zero byte in it may or may not
be found: the hash takes all its bytes, the comparison stops at the zero.

| action | code |
|---|---|
| `readQuery`, `readEnds` | `readQueryFromClient()` with a read of any length up to `readlen`, end of file or error |
| `loopTest`, `trimToPos` | the loop of `processInputBuffer()` |
| `parseCount` | `*<count>` (`server.c` 78-115) |
| `parseBulkHeader`, `waitForBulk`, `takeBulk`, `argsComplete` | the loop over the arguments, with the hand-over of a big argument (118-221) |
| `execCommand`, `execWithoutArguments` | `processCommand()` and `resetClient()`; reading `argv[0]` of a request of no arguments is undefined: it crashes or goes on with what is left there |

### Strings

`s` is the string: its header type, the values of the `len` and `alloc` fields,
the size of its heap block, and the bytes behind the header, of which those
behind the terminator are forgotten after each call (`Settled`). A byte nobody
wrote is `Garbage`. The length fields are as wide as `Limit` says, and what is
stored in one is cut to its width (`Field`). `bytes` is the content the string
should have: each step is one call, as the code does it to `s` and, in
`ByteString`, as it promises to do it to `bytes`.

| action | code |
|---|---|
| `Create` | `sdsnewlen()` of a text or with `SDS_NOINIT` and `sdsclear()` |
| `Extend` | `sdscatlen()`; `sdsMakeRoomFor()`, a write by the caller and `sdsIncrLen()`, as in `readQueryFromClient()`; `sdsgrowzero()` |
| `Change` | `sdscpylen()`, `sdsIncrLen()` with a negative number, `sdstrim()`, `sdsrange()`, `sdsmapchars()`, `sdstolower()`, `sdstoupper()`, `sdsclear()`, `sdsupdatelen()` |
| `Space` | `sdsMakeRoomFor()`, `sdsRemoveFreeSpace()`, `sdsdup()`: the content stays |
| `FromNumber`, `Sample` | `sdsfromlonglong()`, `createStringObject()`, `getAbsolutePath()` |
| `Format` | `sdscatfmt()`, `sdscatvprintf()`, `sdscatrepr()` |
| `sdsfree` | the function of this name |

The steps are what callers may do in any order. `sdssplitargs()`, `sdssplitlen()`,
`sdsjoinsds()`, `string2ll()` and `ll2string()` change no string: the invariants
apply them to every content reached. `Numbers` has the radix as a constant; the
thresholds of `digits10()` are powers of it, the pairs of digits of `ll2string()`
are of two of its digits. Unsigned arithmetic wraps at `ULLONG_MAX`, and `-value`
of `LLONG_MIN` in `sdsll2str()`, which C leaves undefined, gives what two's
complement gives.

### Server

Requests and replies are counted here, not spelt. A client is numbered by its
accept, a descriptor is the lowest free one, as in the kernel.

| action | code |
|---|---|
| `handleClientsWithPendingWrites` | one node of `clients_pending_write`: `writeToClient()` sends all, leaves a rest (then `createFileEvent(EVENT_WRITABLE)` or, if that fails, the client is given up), fails, or dies by SIGPIPE |
| `freeClientsInAsyncFreeQueue` | one node of `clients_to_close`: `freeClient()`, `unlinkClient()`, `connClose()` |
| `eventPoll` | the ready descriptors in any order; error and hang-up report both events |
| `startAccept`, `accept`, `refuse`, `acceptEnds` | `acceptTcpHandler()` |
| `readRequests`, `readEnds`, `readWithoutConn` | `readQueryFromClient()` |
| `sendReplyToClient` | the write handler: it is called with the event loop as its connection |
| `nextFired`, `dispatchEnds` | the loop of `processEvents()` |
| `dial`, `send`, `hangUp` | the peers |

`conn[c]` is `"dangling"` from the moment the read handler closed the
connection: the client and its pointer stay.

### TimeEvents

The clock counts milliseconds, `MsPerSec` to a second, and may be set back. A
call of `processTimeEvents()` under way is a member of `frames`: a callback may
process events itself, which is what `refcount` of a timer is for (`event.h`
59-60). The timers of the list are kept in order, known by their first id.

| action | code |
|---|---|
| `createTimeEvent` | before the loop, in a handler or in a callback |
| `searchTimeout` | `processEvents()` computes the timeout: none, or until the timer of `searchNearestTimer()` |
| `eventPoll` | `beforeSleep()` is over and `epoll_wait()` begins, with the timeout as it was computed |
| `wakeUp` | `epoll_wait()` returns, early if a descriptor is ready |
| `processTimeEvents` | its beginning: the test for a clock set back, `maxId` |
| `removeDeleted`, `skip`, `callTimeProc`, `timeProcReturns`, `walkEnds` | one timer of the walk; a callback asks to be called again or answers `EVENT_NOMORE` |
| `tick`, `setBack` | the clock |

Time passes in every phase. `late` is what passed between the computation of the
timeout and `epoll_wait()`, while `beforeSleep()` flushed and freed clients; it
creates no timer. Timers have no finalizer here: `finalized` counts where one
would be called.

### Dict and DictWalk

A chain is the sequence of its entries from the head on; a table that is NULL has
size 0. `Hash` gives `dictHashKey()` of each key, chosen to make keys collide in
the smaller tables. In `Dict` an operation is one action, with the step of
rehashing and the expansion it performs first; what it returned is in `reply`,
so that `MapSpec` compares results with those of a map. `EmptyVisits` is the
`n*10` of `dictRehash(d, 1)`, `InitialSize` and `ForceRatio` are 4 and 5 in the code.

In `DictWalk` an entry is known by its key. `steady` and `seen` record the keys
that have been there since an iterator's first `dictNext()` and how often they
were returned, `scanSteady` and `scanned` the same of a scan. The bits of the
cursor and the rounds of `rev()` are those of the code, in words of `W` bits;
the callback of a scan does not change the dictionary, and a scan and iterators
are not under way together.

| action | code |
|---|---|
| `dictGetSafeIterator`, `dictNext` (`nextInChain`, `nextBucket`, `nextEnds`), `dictReleaseIterator` | the functions of these names |
| `startScan`, `dictScan` | a call of `dictScan()` with cursor 0, and with the cursor returned |
| `dictAdd`, `dictDelete`, `dictFind`, `resize`, `dictEmpty` | what callers do in between |

Callers keep three rules of which `dict.h` says nothing: an entry an iterator has
saved as its next is not deleted;
`dictRehashMilliseconds()`, which does not look at the iterators, is not called
while one is under way; and the dictionary is not emptied while one is under way,
because `dictEmpty()` forgets their count.

### AdList

Nodes are model values with `next` and `prev`; a freed node is in `unused`. Every
function is one action that assigns the pointers the code assigns. While a list
is iterated only the node just returned is deleted (`adlist.c` 217-218), and the
list is not emptied, rotated or joined.

## Runs

| run | shows |
|---|---|
| `reply_buffer` | all invariants, `Flushed` (liveness) and the refinement of `ReplyStream` |
| `reply_slow_peer` | counterexample: a slow reader is disconnected |
| `request_parser` | all invariants, `BigArgAlone`, the refinement of `CommandStream`, and one well-formed reply to each command and error |
| `request_without_name` | counterexample: `processCommand()` without a command name |
| `server_loop` | nobody starves, with system calls that succeed |
| `server_faults` | the safety invariants with every system call that may fail failing |
| `server_null_conn` | counterexample: the assertion of the read handler |
| `server_limit` | counterexample: refused with a place free |
| `timers_and_dict` | safety of the timers, nested walks, a slow `beforeSleep()` and a clock set back included; every timer is called in the end, and freed when told off; consistency and progress of the hash table and the refinement of `DictMap` (two parts that know nothing of each other: each moves only while the other has not begun) |
| `dict_walk` | safe iterators return each key that stays exactly once and are counted; a scan meets each key that stays, and ends |
| `libraries` | lists: links, indexes, iteration and the refinement of `ListSeq`; strings: header, block and content after any sequence of calls; numbers at the limits of their width; quoted text read back; tokens joined again |
| `split_empty` | counterexample: `sdssplitlen()` of an empty string is not NULL |

Bounds, and why they are enough:

* `ReplyBuffer`: `ChunkBytes` 3 with replies of 1, 2 and 5 bytes gives replies
  that fit, just fit, top up, split and need a block larger than a chunk;
  `MaxWrites` 4 lets a flush stop after one or several buffers; `SndBuf` 6 lets
  the socket fill; 9 bytes in all (`MaxProduced`) make up to three blocks. The
  theorems lift every one of these bounds for the safety properties they name.
* `RequestParser`: reads of 11 bytes can hold the end of one request and a whole
  next one; a big argument has 12 bytes, so it always needs two reads, as in
  the code (32 KB against 16 KB); two or three requests and fourteen tails cover
  every return of the parser. Twelve single commands run every entry of a table,
  names in either case, right and wrong numbers of arguments, and unknown names
  and arguments with ends of lines and zero bytes in them.
* `Server`: two clients fill the server, a third peer is refused or reuses the
  place and the descriptor of one that left; two requests make a reply longer
  than a flush. Liveness is checked with one request each.
* `TimeEvents`: seconds of two milliseconds, delays of none and three, so
  that carries and equal seconds happen; two timers, of which callbacks create
  the second and tell off either, and walks nested twice. The clock ends at 4, and
  `beforeSleep()` takes no longer than leaves time for the sleep after it: a timer
  of three milliseconds can be missed by one.
* `Dict`, `DictWalk`: tables start at size 1 instead of 4; three keys pass every
  stage of two expansions and of a shrinking, and `resize` also asks for 8
  buckets at once; two empty buckets end a step, so steps end both ways.
  `FairEntries` is 15, as in the code. All jumps of one `dictGetSomeKeys()` go to
  the same random index.
  `ForceRatio` 1 lets a table grow although resizing is disabled. Words have four
  bits, a power of two as `rev()` needs and one more than the largest table uses.
* `Sds`: headers for lengths below 2, 3, 4 and 7 instead of 32, 2^8, 2^16 and 2^32,
  so that strings of up to four bytes, with the space allocated ahead for them,
  pass through all five header types in both directions; texts hold zero bytes
  and letters of both cases. `StaticBuf` 4 and `Slots` 2 make the buffer of
  `sdscatvprintf()` and the array of `sdssplitlen()` too small.
* `Numbers`: radix 3 up to 2^20 - 1 has texts of 1 to 13 digits and reaches
  every branch of `digits10()`; the values are zero, the limits and the powers
  of the radix with their neighbours, the texts those of numbers just in and out
  of range, of texts that are no number, and all texts of up to three bytes that
  mean something in quotes.
* `AdList`: five nodes in two lists make heads, tails, middles and empty lists
  for every function; nodes are symmetric.

Fairness: `eventMain()` never stops calling `processEvents()`, and the process
is one thread, so a step that is possible is taken: `WF` of the flush in
`ReplyBuffer`, of the parse and the read in `RequestParser` and of the loop in
`Server`. Peers are never assumed to do anything (in `RequestParser` the bytes
are already sent). In `TimeEvents` the loop goes on, `epoll_wait()` returns when
its time is over, callbacks return and time passes. Strong fairness of `tick`:
time goes on also where every turn of the loop passes the point at which the
bound on the clock stops it (in `beforeSleep()`, before a sleep to the end of the
clock). The strong fairness of the outermost callback says that it does return,
however many walks it starts. That a rehash ends needs no fairness: `RehashAdvances` says that no
use of the dictionary leaves it where it was. Deadlock is not checked where a freed client, a closed
connection or a dead process rightly take no step, and where an idle server
blocks in `epoll_wait()`.

## Proofs

Each component's theorems are in its own module, and every safety invariant that
its run checks is among them, except where the end of this section says so. The
constants are bound only by the assumptions of the modules: sizes are numbers,
replies are not empty (`ReplyLensAssumption`), a digit is no end of a line
(`DigitsAssumption`), a client's requests have an argument and keep the limits
(`InputsAssumption`), descriptors below the first connection's fit the event
table (`ServerAssumption`), memory holds finitely many nodes
(`AdListAssumption`), every key has a hash and tables start with a bucket
(`DictTableAssumption`, `DictAssumption`), and the limits of the header types
increase, texts are bytes, and no string, with the space allocated ahead for it,
outgrows the largest header (`SdsAssumption`; in the code that header has 64-bit
fields).

### ReplyBufferProofs

For all chunk sizes, budgets, send buffers, reply lengths and allocator slacks:
`TypeOK`, `WireInOrder`, `SentlenInHead`, `NoOverflow`, `ScheduledOnce`,
`FreedOnce`, and the refinement `StreamSpec`. Of these
`SentlenInHead` and `FreedOnce` have no run: the first is part of the inductive
invariant of the others, the second a consequence of it.

`WireInOrder` alone is not inductive: that the next write continues the wire
depends on what lies in the buffers. `IInv` says where every unsent byte is.
The buffer being sent starts after byte number `Base = Len(wire) - sentlen`;
every block continues where the one before it ends (`Linked`); the first block
continues the fixed buffer; the last one ends at the last byte produced
(`LastByte`). `NextIInv` shows that each action keeps this: a reply is appended
behind `LastByte` (`AddReplyIInv`, with `TopUp` for the tail block), a write
takes the bytes after `Base + sentlen` (`WriteBufIInv`, `WriteHeadBlockIInv`),
the rest moves nothing (`OtherIInv`, `ReapIInv`, `StutterIInv`). `Listed` is the
corresponding invariant for the lists: on how many of them the client is in
each phase of the turn.

The refinement follows: what is unsent is exactly the bytes from `Len(wire) + 1`
to `produced` (`UnsentBytes`), so a step produces, sends the next ones, loses
all with the connection, or does nothing the abstract stream sees (`StreamStep`).

### RequestParserProofs

For any requests, any bytes after them, any lengths of the reads and any limits.

`ParserInv` is the invariant of the parser's own state: what a request that has
begun has left behind in each phase of the handler. Between two requests only
the `*` that told the type may have been looked at and must still be unread; an
argument is awaited only within a multibulk request; and what the handler leaves
in the buffer when it waits for an argument is less than that argument. It gives
`ArgumentsFit` (with the assertions of `processMultibulkBuffer()`) and
`BigArgumentAlone`.

`ExactInv` adds where the parser is in what was sent. The buffer is a window on
the stream, up to the last byte received (`Window`), whether it was trimmed,
handed over or read into; the position in it is, in the encoding of the request
that is next, at its start, at an argument or behind the last one, with the
arguments before it in `argv`; and the handler returns only where the rest of
that request has not come (`Progress`: `AtStart`, `AtArgument`, `AtEnd`). The
lemmas on the layout say at which byte of the stream a request, its header and
its arguments lie (`ReqEnd`, `ArgAt`, `StreamLayout`); `LineRead`, `HeaderRead`
and `NumberRead` that the search for the end of a line finds that of the header.

`RequestsFirst` is `CommandsExact` until as many commands have been executed as
requests were sent: what follows the requests is any bytes and may hold further
requests, which are executed too. For a client that sends requests only,
`CommandsAreRequests` is the invariant as the run checks it and
`ImplementsCommands` the safety part of `CommandsSpec`; both need that nothing
is left when the last request has been executed (`Exhausted`).

### ServerProofs

For any number of peers, places and requests, and system calls that fail or do
not: `PointersLive`, `RepliesScheduled`, `EventsInSync`, `NoStaleEvent`,
`ClientLimit` and `TypeOK`. `IInv` joins them, for none holds by itself:

* `Listed` - the lists hold open connections, no client twice; a client is freed
  while the code walks one of them, so this is what keeps the walk off freed memory;
* `Turn` - what each part of a turn of the loop has left empty;
* `Reported` - a fired event still belongs to the connection it was reported of:
  a descriptor closed in this turn is not reused before its event is gone,
  because only the first event of the queue can close one, and it is its own;
* `Numbered` - clients are numbered by their accepts.

That a free descriptor exists is a pigeonhole argument (`FreeDescriptor`:
descriptors outnumber peers); that `accept()` may take the lowest one and that a
close takes all traces of it is `AcceptSync` and `CloseSync`, with `MaxfdLowered`
for the search of the new `maxfd`.

### TimeEventsProofs

For any number of timers, delays, resolution of the clock and depth of nested
walks: `FramesLive`, `SleepsInTime` and `CallsRight`. `IInv` says that each call
of `processTimeEvents()` but the innermost waits for a callback and stands on a
timer of the list (`Nested`), that the list holds created timers once
(`Linked`), that `refcount` is the number of calls running that timer's callback
(`Counted`), hence that a timer a walk stands on is not freed, and that a timer
is due no earlier than asked, and exactly then while the clock was never set back
(`Meant`). That the sleep ends in time, up to what `beforeSleep()` took, needs the
nearest timer to exist and the order of seconds and milliseconds to be that of
time (`NearestFound`, `SecondsFirst`).

### AdListProofs

For any number of lists and nodes: `LinksAgree` (with `TypeOK`), `IteratorLive`,
`IteratorComplete`, and the refinement `SeqSpec`, which is what lets the other
modules write a list as a sequence.

`LinksAgree` speaks of walks along the pointers and says nothing of two lists
sharing a node, so it is not inductive. `IInv` says that there are sequences
`q[l]` which the pointers represent (`Represents`): `head` and `tail` are their
ends, `next` and `prev` the neighbours (`Chain`), `len` the length, no node is in
two places and none that is in one is free. For each operation one lemma
(`AddHeadRepresents` to `JoinRepresents`) finds the sequences after it; what its
assignments do to one chain is said once, by `ChainInserted`, `ChainDropped`,
`MovedNodes` and `ChainJoined`, and that the others are left alone by
`OneChanged`. Walks return the sequence (`WalkForward`, `WalkBackward`), so it is
the one the refinement computes (`SeqIs`), and `After` is the abstract step.

The iterator needs its own part, `Iterating`: a node is `Passed` when it lies
before `iter->next` in the direction of the walk; the nodes returned are passed,
and of the nodes in the list from the start those passed have been returned. An
insertion or a deletion elsewhere keeps the order of the rest (`SameOrder`), so
it keeps this; deleting the node just returned does, because it is passed and
`iter->next` is not (`NotPassed`).

### DictProofs

For any keys, hashes (all keys may have the same), size of the first tables,
visits of empty buckets and force ratio: `TablesAgree` (with `TypeOK`),
`RehashAdvances`, and the refinement `MapSpec`, which is what lets the parser
look a command up as in a function.

`IInv` says that the dictionary is a `SoundDict`. Each table is a `SoundTable`:
every entry in the bucket of its hash, no key twice, and `used` the number of
`Places`, pairs of a bucket and a position in its chain. The tables share no key;
without a rehashing the second one is empty; and during one (`Moving`) both exist
in different sizes and no bucket before `rehashidx` holds an entry. The last part
is what `TablesAgree` needs of the past: it makes the bucket `dictRehash()` looks
for exist while `used` is not zero.

Nearly every operation gives one chain of one table another value, so `OneChain`
says once what that does to a table: it stays sound if the new chain is, and
`used` changes by the difference in length. Moving a bucket during a rehashing
(`BucketMoved`, `Rehashed`) is one chain emptied and its entries received one by
one (`Received`); the content is the same before and after (`Kept`). The loops
of the code are recursive functions, and each is met once by induction up to a
bound: `NextPowerIs`, `NextBucketIs`, `Received`, and `LookAtIs` and `LookOnIs`
for `dictGetSomeKeys()`, whose samples are entries of the dictionary however the
tables look.

`Ahead` is the second half of each step: after the step of rehashing that comes
with every use, `rehashidx` is larger or the old table is gone, and what the
operation itself does leaves that so (`SameAhead`). The refinement maps the tables
to `MapOf(Content)`; as no key is in both tables, insertion, change and removal of
an entry are those of a map (`MapWith`, `MapWithout`), and a search finds what
the map has (`EntryFound`, `LookedIs`), so `Adding` to `Drawing...` each give the
abstract step.

### SdsProofs

For any limits of the five header types, any preallocation, any texts, any sets
to trim and any length of strings: `HeaderFits` and `ContentExact`.

Neither is inductive: `HeaderFits` does not say that a length fits its field
(stored in a smaller one it would be cut), and `ContentExact` nothing of the
space a next call relies on. `IInv` says that the string `Holds` the promised
content: it is `Housed`, which is to say that both fields are below the limit of
the header type, and the block has room for `alloc` bytes and a terminator
(in the smallest type, which has no `alloc`, for `len` bytes at least); the
content is in front of the buffer and the terminator behind it; and that the
content is made of bytes and not of cells nobody wrote.

There is one lemma for each call (`NewIs`, `RoomIs`, `Tightened`, `Catted`,
`Copied`, `Grown`, `ReadIn`, `Shortened`, `CutOut`, `Ranged`, `Trimmed`,
`Replaced`, `Lowered`, `Cleared`, `Updated`, `Duplicated`): from a string that
holds `c` it makes one that holds what the call promises of `c`. They rest on
what is written where (`Written`, `Ended`, `Rewritten`), on a new block in
another header (`MovedIs`), and on the choice of the header: `sdsReqType()`
gives one that can tell the length (`ReqTypeIs`), and `sdsMakeRoomFor()` room for
all that is to be added (`Roomy`). The two loops of `sdstrim()` are recursive
functions of an index, shown to stop at the first and the last byte that stays
(`FirstLeft`, `LastLeft`).

### Facts

Least and greatest elements, behind the `CHOOSE`, `Min` and `Max` of the models;
induction and recursion on numbers as facts about sets and functions
(`Induction`, `Recursion`, `RecursionFromZero`), derived from the least element, because the provers
cannot instantiate the theorems of the library that take a predicate; `Flatten`,
what `FlattenSeq` makes of a sequence of sequences; lists with
an element added, dropped or removed.

### Only model-checked

* Everything temporal under fairness, which the provers have no rules for:
  `Flushed`, `RequestsRead`, `BacklogDrained`, `TimersServed`, and the fairness
  of `CommandsSpec`.
* `ReplyBytesExact` and `RepliesFramed`, folds and recursion over data.
* `DictWalk`: that `dictScan()` meets every key rests on the order in which its
  cursor counts with reversed bits, and the iterators on the same tables as
  `Dict`, but on the rules their callers keep.
* `Numbers` and `Strings`: conversions, which are recursion over digits and bytes.

## Where the code and its documents disagree

* A connection accepted by `connCreateAcceptedSocket()` stays in state
  `ACCEPTING`, so `EAGAIN` counts as an error: on a write the client is freed,
  although the comment at `server.c` 739-744 says that the rest is sent when the
  socket is writable again (`SlowPeerKept`).
* The write handler is registered with `clientData` NULL and another signature:
  the next event of that descriptor ends the process or fails the assertion of
  the read handler (`ReadHasConn`), so the rest of a long reply is never sent.
* A request without arguments reaches `processCommand()`, which reads `argv[0]`
  (`HasCommandName`).
* `acceptTcpHandler()` ignores a failed `createFileEvent()` of a new connection:
  the client stays in `server.clients` and is never served. No run shows it:
  `server_loop` takes system calls to succeed, `server_faults` checks safety.
* A client whose peer left is not unlinked and counts against the limit for ever
  (`RefusedOnlyWhenFull`).
* During a safe iteration `dict.h` 84-87 allows `dictAdd()`, `dictFind()` "and
  other functions"; deleting the entry saved in `nextEntry` leaves the iterator
  with a freed entry, and `dictRehashMilliseconds()` moves buckets under it,
  unlike `_dictRehashStep()`; and `dictEmpty()` sets `iterators` to 0 (`dict.c`
  1056), so that the release takes the unsigned count to its maximum and the
  dictionary never rehashes again. `DictWalk` assumes callers that do none of these.
* The comment at `sds.c` 808-809 says that `sdssplitlen()` returns NULL for a "zero
  length string"; it returns an empty array (`EmptySplitsToNull`). `SplitJoins`
  speaks of the other strings.

## Oddities of the code the models follow

No document of the repository says otherwise, so they are no findings.

* A command with a wrong number of arguments is logged and gets no reply. With
  the table of `main.c`, arities 0 and -1, no request has one.
* `sdstrim()` looks its bytes up with `strchr()`, which finds the terminator of
  the set as well: zero bytes are always trimmed.
* `processEvents()` computes its timeout before it calls `beforeSleep()` and does
  not shorten it by the time that takes, so the loop can sleep past a timer.
* `sdscatfmt()` asks for room for `initlen` bytes more than it needs; a format
  that ends in `%` would make it read past the format's end, so `Formats` has none.
* `decrRefCount()` frees an object that is referenced once and leaves any other
  count as it is; `setCommand()` and `getCommand()` drop the object they reply with.

## Not modelled

Logging, the allocator, the hash function and byte-order helpers (no state the
rest depends on, or pure arithmetic). Of `dict.c`: the fingerprint of unsafe
iterators, `dictUnlink()` and the statistics; of `adlist.c`: `listDup()`,
`listSearchKey()`, `listRelease()`; of `util.c`: glob patterns, memory sizes, time
zones and floating point, none of which the server calls, and `string2ull()` and
`string2l()`, which call `string2ll()`; of `sds.c`: `sdscmp()`. Reference counts: no
object but the shared ones, which are never freed, has two owners. Failure of
`malloc()` (of `sds.c`'s callers some test for it and some, like `sdscatfmt()`, do
not), of `bind()`, of `listen()` and of `getcwd()` in
`getAbsolutePath()`. `fileEvents` is allocated without being
cleared; the models start it from zero, which is what a fresh mapping of its size
reads as. Descriptors are taken to be usable by `epoll_ctl()` unless `SyscallsFail`.

## Plan

1. Done: the reply path with its proofs, the request parser with the command
   table and the replies, the server loop, the timers, the hash table, the list,
   strings and numbers.
2. Parser, objects and reply buffers of one client in one module: the replies of
   `Commands` as the bytes of `ReplyBuffer`.
3. Proofs, done: the reply path, the parser, the server loop, the timers, the
   lists, the hash table and the strings, with four refinements. Left: the safe
   iterators of `DictWalk`, `ReplyBytesExact`.
