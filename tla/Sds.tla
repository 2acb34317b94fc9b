--------------------------------- MODULE Sds ---------------------------------
(***************************************************************************)
(* sds.c and sds.h: a dynamic string, its header and its buffer byte for   *)
(* byte.  The header has one of five types, by the width of its length     *)
(* fields, and changes its type as the string grows and shrinks.           *)
(***************************************************************************)
EXTENDS ByteString

CONSTANTS
  Limit,          \* for each header type, the first length it cannot hold
                  \* (2^5, 2^8, 2^16, 2^32 and 2^64 in the code)
  MaxPrealloc,    \* SDS_MAX_PREALLOC
  Texts,          \* what the callers append, copy and put in a new string
  Sets,           \* the sets of bytes of sdstrim()
  MaxLen          \* longest string considered

ASSUME SdsAssumption ==
  /\ Len(Limit) = 5 /\ \A t \in 1..5 : Limit[t] \in Nat \ {0}
  /\ \A t \in 1..4 : Limit[t] < Limit[t + 1]
  /\ MaxPrealloc \in Nat \ {0} /\ MaxLen \in Nat /\ 2 * MaxLen + MaxPrealloc < Limit[5]
  /\ \A t \in Texts : t \in Seq(0..255) /\ Len(t) <= MaxLen

VARIABLES
  s       \* the string: header type, len and alloc fields, the size of its
          \* heap block and the bytes of it after the header

strvars == <<s, bytes>>

Garbage == -1                           \* a byte nobody wrote
Str(type, len, alloc, heap, buf) ==
  [type |-> type, len |-> len, alloc |-> alloc, heap |-> heap, buf |-> buf]
Null == Str(-1, 0, 0, 0, <<>>)
Aborted == Str(-2, 0, 0, 0, <<>>)       \* an assertion failed

-----------------------------------------------------------------------------
(* The header.                                                             *)

sdsHdrSize(t) == <<1, 3, 5, 9, 17>>[t + 1]
sdsReqTypeAtLimit(n) == Cardinality({t \in 0..3 : n > Limit[t + 1]}) \* mutant
sdsReqType(n) == Cardinality({t \in 0..3 : n >= Limit[t + 1]})

\* A value stored in the length field of a header.
Field(x, n) == n % Limit[x.type + 1]

sdsavail(x) == IF x.type = 0 THEN 0 ELSE x.alloc - x.len
sdsalloc(x) == IF x.type = 0 THEN x.len ELSE x.alloc
sdssetlen(x, n) == Str(x.type, Field(x, n), x.alloc, x.heap, x.buf)
sdsinclen(x, n) == sdssetlen(x, x.len + n)
sdssetalloc(x, n) == IF x.type = 0 THEN x
                     ELSE Str(x.type, x.len, Field(x, n), x.heap, x.buf)
sdsAllocSize(x) == sdsHdrSize(x.type) + sdsalloc(x) + 1

-----------------------------------------------------------------------------
(* The buffer.  Offsets count from zero, as in C; a write beyond the end of *)
(* the block makes buf longer than the block.                              *)

Write(x, i, t) ==
  LET end == i + Len(t)
      old == [j \in 1..Max({end, Len(x.buf)}) |->
                IF j <= Len(x.buf) THEN x.buf[j] ELSE Garbage]
  IN Str(x.type, x.len, x.alloc, x.heap,
         [j \in DOMAIN old |-> IF j > i /\ j <= end THEN t[j - i] ELSE old[j]])
End(x, n) == sdssetlen(Write(x, n, <<0>>), n)

\* A block from malloc() with the first bytes of a buffer in it.
Block(t, len, alloc, heap, b) ==
  Str(t, len, alloc, heap,
      [j \in 1..(heap - sdsHdrSize(t)) |-> IF j <= Len(b) THEN b[j] ELSE Garbage])

Content(x) == SubSeq(x.buf, 1, x.len)
strlen(x) == SelectInSeq(x.buf, LAMBDA c : c = 0) - 1

\* Nothing reads what a string keeps beyond its terminator.
Settled(x) ==
  Str(x.type, x.len, x.alloc, x.heap,
      [j \in 1..Len(x.buf) |-> IF j <= x.len + 1 THEN x.buf[j] ELSE Garbage])

-----------------------------------------------------------------------------
(* The calls, as functions of the string.                                  *)

sdsnewlen(b) ==
  LET n == Len(b)
      t == IF n = 0 THEN 1 ELSE sdsReqType(n)
      h == sdsHdrSize(t) + n + 1
  IN End(sdssetalloc(sdssetlen(Block(t, 0, 0, h, b), n), n), n)

\* realloc() keeps the header where it is, malloc() makes a new one.
Moved(x, t, n) ==
  LET heap == sdsHdrSize(t) + n + 1
  IN IF t = x.type THEN Block(t, x.len, x.alloc, heap, x.buf)
     ELSE sdssetlen(Block(t, 0, 0, heap, SubSeq(x.buf, 1, x.len + 1)), x.len)

HasRoomForAllButOne(x, add) == sdsavail(x) + 1 >= add      \* mutant
HasRoom(x, add) == sdsavail(x) >= add

sdsMakeRoomFor(x, add) ==
  IF HasRoom(x, add) THEN x
  ELSE LET need == x.len + add
           new == IF need < MaxPrealloc THEN need * 2 ELSE need + MaxPrealloc
       IN sdssetalloc(Moved(x, Max({1, sdsReqType(new)}), new), new)

sdsRemoveFreeSpace(x) ==
  IF sdsavail(x) = 0 THEN x
  ELSE LET t == sdsReqType(x.len)
       IN sdssetalloc(Moved(x, IF t > 1 THEN x.type ELSE t, x.len), x.len)

sdscatlen(x, t) ==
  End(Write(sdsMakeRoomFor(x, Len(t)), x.len, t), x.len + Len(t))

sdscpylen(x, t) ==
  LET y == IF sdsalloc(x) < Len(t) THEN sdsMakeRoomFor(x, Len(t) - x.len) ELSE x
  IN End(Write(y, 0, t), Len(t))

sdsgrowzero(x, n) ==
  IF n <= x.len THEN x
  ELSE sdssetlen(Write(sdsMakeRoomFor(x, n - x.len), x.len,
                       [j \in 1..(n - x.len + 1) |-> 0]), n)

IncrLenAsserted(x, n) ==
  IF x.type = 0
  THEN (n > 0 /\ x.len + n < Limit[1]) \/ (n < 0 /\ x.len >= -n)
  ELSE (n >= 0 /\ x.alloc - x.len >= n) \/ (n < 0 /\ x.len >= -n)
sdsIncrLen(x, n) == IF IncrLenAsserted(x, n) THEN End(x, x.len + n) ELSE Aborted

\* strchr() finds the terminator of the set too, so zero bytes are trimmed.
Trims(set, c) == c \in set \cup {0}
sdstrim(x, set) ==
  LET sp[i \in 0..x.len] == IF i < x.len /\ Trims(set, x.buf[i + 1]) THEN sp[i + 1] ELSE i
      ep[i \in -1..x.len] == IF i > sp[0] /\ Trims(set, x.buf[i + 1]) THEN ep[i - 1] ELSE i
      n == IF sp[0] > ep[x.len - 1] THEN 0 ELSE ep[x.len - 1] - sp[0] + 1
  IN End(Write(x, 0, SubSeq(x.buf, sp[0] + 1, sp[0] + n)), n)

sdsrange(x, first, last) ==
  LET at(i) == IF i < 0 THEN Max({x.len + i, 0}) ELSE i
      e == Min({at(last), x.len - 1})
      n == IF at(first) > at(last) \/ at(first) >= x.len THEN 0 ELSE e - at(first) + 1
  IN IF x.len = 0 THEN x
     ELSE End(Write(x, 0, SubSeq(x.buf, at(first) + 1, at(first) + n)), n)

sdsmapchars(x, from, to) ==
  LET new(c) == LET hit == {i \in 1..Len(from) : from[i] = c}
                IN IF hit = {} THEN c ELSE to[Min(hit)]
  IN Write(x, 0, [i \in 1..x.len |-> new(x.buf[i])])

tolower(c) == IF c \in 65..90 THEN c + 32 ELSE c
toupper(c) == IF c \in 97..122 THEN c - 32 ELSE c
sdstolower(x) == Write(x, 0, [i \in 1..x.len |-> tolower(x.buf[i])])
sdstoupper(x) == Write(x, 0, [i \in 1..x.len |-> toupper(x.buf[i])])

sdsclear(x) == Write(sdssetlen(x, 0), 0, <<0>>)
sdsupdatelen(x) == sdssetlen(x, strlen(x))
sdsdup(x) == sdsnewlen(Content(x))

-----------------------------------------------------------------------------
(* The calls as steps: the code makes the string, the promise the content  *)
(* it should have.  sdsnew(), sdscat(), sdscpy() and sdscatsds() are those  *)
(* with a length, which they take from their argument.                     *)

StrInit == s = Null /\ bytes = <<>>

alive == s.type >= 0
Did(x) == s' = Settled(x)
Room == MaxLen - s.len

Create ==
  /\ ~alive
  /\ \/ \E t \in Texts : BecomesText(t) /\ Did(sdsnewlen(t))
     \* a buffer for a large argument, SDS_NOINIT (processMultibulkBuffer)
     \/ \E n \in 1..MaxLen :
          BecomesText(<<>>) /\ Did(sdsclear(sdsnewlen([i \in 1..n |-> Garbage])))

Extend ==
  \/ \E t \in Texts : Len(t) <= Room /\ GetsText(t) /\ Did(sdscatlen(s, t))
  \* what read() left in the room made for it (readQueryFromClient)
  \/ \E t \in Texts \ {<<>>} : \E n \in Len(t)..Room :
       /\ GetsText(t)
       /\ LET y == sdsMakeRoomFor(s, n)
          IN Did(sdsIncrLen(Write(y, y.len, t), Len(t)))
  \/ \E n \in s.len..MaxLen : GrowsTo(n) /\ Did(sdsgrowzero(s, n))

Change ==
  \/ \E t \in Texts : BecomesText(t) /\ Did(sdscpylen(s, t))
  \* the CR LF after an argument is cut off (processMultibulkBuffer)
  \/ \E n \in 1..s.len : LosesTail(n) /\ Did(sdsIncrLen(s, -n))
  \/ \E set \in Sets : LosesEnds(set \cup {0}) /\ Did(sdstrim(s, set))
  \/ \E i, j \in -(s.len + 1)..s.len : BecomesRange(i, j) /\ Did(sdsrange(s, i, j))
  \/ IsMapped(<<97, 0>>, <<65, 97>>) /\ Did(sdsmapchars(s, <<97, 0>>, <<65, 97>>))
  \/ IsMapped(Capitals, Smalls) /\ Did(sdstolower(s))
  \/ IsMapped(Smalls, Capitals) /\ Did(sdstoupper(s))
  \/ BecomesText(<<>>) /\ Did(sdsclear(s))
  \/ EndsAtZero /\ Did(sdsupdatelen(s))

Space ==
  /\ Stays
  /\ \/ \E n \in 0..Room : Did(sdsMakeRoomFor(s, n))
     \/ Did(sdsRemoveFreeSpace(s))
     \/ Did(sdsdup(s))

sdsfree == s' = Null /\ BecomesText(<<>>)

StrNext == Create \/ (alive /\ (Extend \/ Change \/ Space \/ sdsfree))

StrSpec == StrInit /\ [][StrNext]_strvars

-----------------------------------------------------------------------------
\* Whatever calls made the string what it is: its length is within what the
\* header says is allocated, and that within the heap block (exactly, unless the
\* header is the smallest, which has no alloc field); no call wrote beyond the
\* block, a zero byte ends the content, and every byte of the content was written.
HeaderFits ==
  alive =>
    /\ s.type \in 0..4 /\ s.len <= sdsalloc(s)
    /\ sdsHdrSize(s.type) + Len(s.buf) = s.heap
    /\ sdsAllocSize(s) <= s.heap /\ (s.type # 0 => sdsAllocSize(s) = s.heap)
    /\ s.buf[s.len + 1] = 0
    /\ Garbage \notin Range(Content(s))

\* Each call does to the content what its comment says, in whatever header and
\* buffer the calls before it left the string, and no assertion fails.
ContentExact == s # Aborted /\ Content(s) = bytes
=============================================================================
