-------------------------- MODULE ReplyBufferProofs --------------------------
(***************************************************************************)
(* Theorems about ReplyBuffer, for all sizes of chunk, block, socket       *)
(* buffer and reply.                                                       *)
(*                                                                         *)
(* The invariant gives every unsent byte its place.  The buffer under way  *)
(* starts after byte number Base; every block continues where the one      *)
(* before it ends; the last one ends at the last byte produced.            *)
(***************************************************************************)
EXTENDS ReplyBuffer, SequenceTheorems, Facts

(* The sequence s holds the bytes after the m-th.                          *)
InOrder(s, m) == \A i \in 1..Len(s) : s[i] = m + i

(* The byte before the first one of the buffer that is being sent.         *)
Base == Len(wire) - sentlen

First(j) == reply[j].data[1]

(* What follows the blocks 1..Len(reply), or the fixed buffer if none.     *)
LastByte ==
  IF reply = <<>> THEN Base + Len(buf)
  ELSE First(Len(reply)) + Len(reply[Len(reply)].data) - 1

BlockOK(j) ==
  /\ reply[j].data # <<>>
  /\ Len(reply[j].data) <= reply[j].size
  /\ InOrder(reply[j].data, First(j) - 1)

Linked(j) == First(j + 1) = First(j) + Len(reply[j].data)

Placed ==
  /\ InOrder(buf, Base)
  /\ Len(buf) <= ChunkBytes
  /\ \A j \in 1..Len(reply) : BlockOK(j)
  /\ \A j \in 1..(Len(reply) - 1) : Linked(j)
  /\ reply # <<>> => First(1) = Base + Len(buf) + 1
  /\ produced = LastByte

IInv ==
  /\ Typed
  /\ WireInOrder
  /\ SentlenInHead
  /\ sentlen <= Len(wire)
  /\ pc # "freed" => Placed
  /\ pc = "freed" => buf = <<>> /\ reply = <<>>

-----------------------------------------------------------------------------
(* The bytes a reply adds are numbered on from the last one.               *)
LEMMA BytesType ==
  ASSUME NEW m \in Nat, NEW n \in Nat
  PROVE  /\ Bytes(m, n) \in Seq(Nat)
         /\ Len(Bytes(m, n)) = n
         /\ InOrder(Bytes(m, n), m)
<1>1. \A i \in 1..n : m + i \in Nat
  OBVIOUS
<1>2. Bytes(m, n) \in Seq(Nat)
  BY <1>1 DEF Bytes
<1>3. Len(Bytes(m, n)) = n
  BY DEF Bytes
<1> QED
  BY <1>2, <1>3 DEF Bytes, InOrder

(* Appending what comes next keeps a sequence in order.                    *)
LEMMA InOrderConcat ==
  ASSUME NEW s \in Seq(Nat), NEW t \in Seq(Nat), NEW m \in Int,
         InOrder(s, m), InOrder(t, m + Len(s))
  PROVE  InOrder(s \o t, m)
<1> SUFFICES ASSUME NEW i \in 1..Len(s \o t)
             PROVE  (s \o t)[i] = m + i
  BY DEF InOrder
<1>1. CASE i <= Len(s)
  BY <1>1 DEF InOrder
<1>2. CASE i > Len(s)
  <2>1. i - Len(s) \in 1..Len(t) /\ (s \o t)[i] = t[i - Len(s)]
    BY <1>2
  <2> QED
    BY <2>1, <1>2 DEF InOrder
<1> QED
  BY <1>1, <1>2

(* So does taking a piece out of it.                                       *)
LEMMA InOrderSubSeq ==
  ASSUME NEW s \in Seq(Nat), NEW m \in Int, InOrder(s, m),
         NEW a \in Nat, NEW k \in Nat, a + k <= Len(s)
  PROVE  /\ SubSeq(s, a + 1, a + k) \in Seq(Nat)
         /\ Len(SubSeq(s, a + 1, a + k)) = k
         /\ InOrder(SubSeq(s, a + 1, a + k), m + a)
  BY DEF InOrder

-----------------------------------------------------------------------------
(* A new client (createClient()) has nothing buffered and nothing sent.    *)
LEMMA InitIInv == Init => IInv
<1> SUFFICES ASSUME Init PROVE IInv
  OBVIOUS
<1>1. Typed
  <2>1. buf \in Seq(Nat) /\ reply \in Seq(Block) /\ wire \in Seq(Nat)
    BY DEF Init
  <2>2. handler \in BOOLEAN
    BY DEF Init
  <2> QED
    BY <2>1, <2>2 DEF Init, Typed
<1>2. WireInOrder /\ SentlenInHead /\ sentlen <= Len(wire)
  BY DEF Init, WireInOrder, SentlenInHead, clientHasPendingReplies
<1>3. Placed
  BY SizesAssumption DEF Init, Placed, InOrder, Base, LastByte
<1> QED
  BY <1>1, <1>2, <1>3 DEF IInv, Init

(* Topping up the tail block: the list keeps its shape, its last byte      *)
(* moves on by what was copied.                                            *)
LEMMA TopUp ==
  ASSUME IInv, pc # "freed", NEW copy \in Nat, copy <= TailAvail,
         NEW r, r = ToppedUp(copy)
  PROVE  /\ r \in Seq(Block) /\ Len(r) = Len(reply)
         /\ \A j \in 1..Len(r) :
              /\ r[j].size = reply[j].size
              /\ j < Len(r) => r[j].data = reply[j].data
              /\ r[j].data \in Seq(Nat) /\ r[j].data # <<>>
              /\ r[j].data[1] = First(j)
              /\ Len(r[j].data) <= r[j].size
              /\ InOrder(r[j].data, First(j) - 1)
         /\ reply # <<>> =>
              Len(r[Len(r)].data) = Len(reply[Len(reply)].data) + copy
<1> DEFINE N == Len(reply)
<1>1. /\ reply \in Seq(Block) /\ produced \in Nat /\ N \in Nat
      /\ \A j \in 1..N : /\ reply[j] \in Block
                         /\ reply[j].data \in Seq(Nat)
                         /\ reply[j].size \in Nat
  <2>1. reply \in Seq(Block) /\ produced \in Nat
    BY DEF IInv, Typed
  <2>2. \A j \in 1..N : reply[j] \in Block
    BY <2>1
  <2> QED
    BY <2>1, <2>2 DEF Block
<1>2. \A j \in 1..N : BlockOK(j)
  BY DEF IInv, Placed
<1>3. CASE copy = 0
  <2>1. r = reply
    BY <1>3 DEF ToppedUp
  <2> QED
    BY <1>1, <1>2, <1>3, <2>1 DEF BlockOK, First
<1>4. CASE copy # 0
  <2>1. reply # <<>> /\ N \in 1..N
    BY <1>1, <1>4 DEF TailAvail
  <2> DEFINE d == reply[N].data
             e == d \o Bytes(produced, copy)
  <2>2. /\ d \in Seq(Nat) /\ d # <<>> /\ InOrder(d, First(N) - 1)
        /\ copy <= reply[N].size - Len(d)
    BY <1>1, <1>2, <2>1 DEF BlockOK, TailAvail
  <2>3. First(N) \in Nat /\ produced = First(N) + Len(d) - 1
    BY SMTT(30), <1>1, <2>1, <2>2 DEF IInv, Placed, LastByte, First
  <2>4. /\ Bytes(produced, copy) \in Seq(Nat)
        /\ Len(Bytes(produced, copy)) = copy
        /\ InOrder(Bytes(produced, copy), produced)
    BY <1>1, BytesType
  <2>5. e \in Seq(Nat) /\ Len(e) = Len(d) + copy /\ e # <<>> /\ e[1] = d[1]
    <3>1. Len(d) \in Nat /\ Len(d) >= 1
      BY <2>2
    <3> HIDE DEF d
    <3> QED
      BY <2>2, <2>4, <3>1
  <2>6. InOrder(e, First(N) - 1)
    <3> DEFINE m == First(N) - 1
               t == Bytes(produced, copy)
    <3>0. Len(d) \in Nat
      BY <2>2
    <3> HIDE DEF d
    <3>1. m \in Int /\ produced = m + Len(d)
      BY <2>2, <2>3, <3>0
    <3>2. InOrder(d, m) /\ InOrder(t, m + Len(d))
      BY <2>2, <2>4, <3>1
    <3>3. d \in Seq(Nat) /\ t \in Seq(Nat)
      BY <2>2, <2>4
    <3> HIDE DEF m, t
    <3>4. InOrder(d \o t, m)
      BY <3>1, <3>2, <3>3, InOrderConcat
    <3> QED
      BY <3>4 DEF m, t
  <2> DEFINE b == [size |-> reply[N].size, data |-> e]
  <2>7. r = [reply EXCEPT ![N] = b]
    BY <1>4 DEF ToppedUp
  <2>8. /\ Len(r) = N /\ r \in Seq(Block)
        /\ \A j \in 1..N : r[j] = IF j = N THEN b ELSE reply[j]
    <3>1. b \in Block
      BY <1>1, <2>1, <2>5 DEF Block
    <3> HIDE DEF b
    <3> QED
      BY <1>1, <2>1, <2>7, <3>1
  <2> HIDE DEF e
  <2>9. r[N].data = e /\ r[N].size = reply[N].size
    BY <2>1, <2>8
  <2>10. ASSUME NEW j \in 1..N
         PROVE  /\ r[j].size = reply[j].size
                /\ j < N => r[j].data = reply[j].data
                /\ r[j].data \in Seq(Nat) /\ r[j].data # <<>>
                /\ r[j].data[1] = First(j)
                /\ Len(r[j].data) <= r[j].size
                /\ InOrder(r[j].data, First(j) - 1)
    <3>1. CASE j = N
      <4>1. Len(e) <= reply[N].size
        <5>1. Len(d) \in Nat /\ copy \in Nat
          BY <1>1, <2>2
        <5>2. reply[N].size \in Nat
          BY <1>1, <2>1 DEF Block
        <5> HIDE DEF d
        <5> QED
          BY <2>2, <2>5, <5>1, <5>2
      <4>2. e[1] = First(N)
        <5>1. 1 \in 1..Len(d) /\ d[1] = (First(N) - 1) + 1
          BY <2>2 DEF InOrder
        <5> HIDE DEF d
        <5> QED
          BY <2>3, <2>5, <5>1
      <4> HIDE DEF d
      <4> QED
        <5>1. r[j].data = e /\ r[j].size = reply[N].size /\ reply[j].size = reply[N].size
          BY <3>1, <2>9
        <5>2. j = N /\ ~(j < N) /\ First(j) = First(N)
          BY <1>1, <3>1
        <5> HIDE DEF e
        <5> QED
          BY <2>5, <2>6, <4>1, <4>2, <5>1, <5>2
    <3>2. CASE j # N
      BY <3>2, <2>8, <1>1, <1>2 DEF BlockOK, First
    <3> QED
      BY <3>1, <3>2
  <2> QED
    BY <2>1, <2>5, <2>8, <2>9, <2>10
<1> QED
  BY <1>3, <1>4

(* A call of addReply() puts its bytes behind all the others.              *)
LEMMA AddReplyIInv ==
  ASSUME IInv, NEW n \in ReplyLens, addReply(n)
  PROVE  IInv'
<1>1. /\ n \in Nat \ {0} /\ produced \in Nat /\ buf \in Seq(Nat)
      /\ reply \in Seq(Block) /\ reply_bytes \in Int
      /\ sentlen \in Nat /\ wire \in Seq(Nat) /\ queued \in Nat
      /\ sentlen <= Len(wire) /\ Len(wire) \in Nat /\ Len(buf) \in Nat
  BY ReplyLensAssumption DEF IInv, Typed
<1>2. /\ pc = "dispatch" /\ pc' = "dispatch" /\ produced' = produced + n
      /\ UNCHANGED <<sentlen, wire>> /\ Base' = Base /\ Base \in Nat
  BY <1>1 DEF addReply, Base
<1>3. Placed
  BY <1>2 DEF IInv
<1>4. /\ produced' \in Nat /\ queued' \in Nat /\ handler' = handler
      /\ UNCHANGED <<closing, totwritten, taken, peer>>
  BY <1>1 DEF addReply, prepareClientToWrite
<1>5. WireInOrder' /\ (sentlen <= Len(wire))'
  BY <1>2 DEF IInv, WireInOrder
<1> DEFINE t == Bytes(produced, n)
<1>6. SUFFICES /\ buf' \in Seq(Nat) /\ reply' \in Seq(Block)
               /\ reply_bytes' \in Int
               /\ SentlenInHead' /\ Placed'
  <2>1. handler' \in BOOLEAN
    BY <1>4 DEF IInv, Typed
  <2> QED
    BY <1>1, <1>2, <1>4, <1>5, <2>1 DEF IInv, Typed, Block
<1>7. CASE addReplyToBuffer(n)
  <2>1. /\ reply = <<>> /\ reply' = <<>> /\ reply_bytes' = reply_bytes
        /\ n <= ChunkBytes - Len(buf) /\ buf' = buf \o t
    BY <1>7 DEF addReplyToBuffer, FitsInBuf
  <2>2. t \in Seq(Nat) /\ Len(t) = n /\ InOrder(t, produced)
    BY <1>1, BytesType
  <2>3. produced = Base + Len(buf) /\ InOrder(buf, Base)
    BY <1>3, <2>1 DEF Placed, LastByte
  <2>4. buf' \in Seq(Nat) /\ Len(buf') = Len(buf) + n
    <3>0. buf \in Seq(Nat)
      BY <1>1
    <3>1. buf \o t \in Seq(Nat) /\ Len(buf \o t) = Len(buf) + Len(t)
      BY SMTT(30), <2>2, <3>0
    <3> QED
      BY <2>1, <2>2, <3>1
  <2> HIDE DEF t
  <2>5. InOrder(buf', Base)
    BY <1>1, <1>2, <2>1, <2>2, <2>3, InOrderConcat
  <2>6. InOrder(buf', Base')
    BY <1>2, <2>5
  <2>7. buf' # <<>> /\ SentlenInHead'
    BY <1>1, <1>2, <2>1, <2>4
    DEF IInv, SentlenInHead, HeadLen, clientHasPendingReplies
  <2>8. produced' = LastByte'
    BY <1>1, <1>2, <2>1, <2>3, <2>4 DEF LastByte
  <2>9. Placed'
    BY <1>1, <1>2, <2>1, <2>4, <2>6, <2>8, SizesAssumption
    DEF Placed, InOrder
  <2> QED
    BY <1>1, <2>1, <2>4, <2>7, <2>9
<1>8. CASE addReplyProtoToList(n)
  <2>0. PICK N \in Nat : N = Len(reply)
    BY <1>1
  <2> DEFINE copy == MinOf(TailAvail, n)
             r == ToppedUp(copy)
             u == Bytes(produced + copy, n - copy)
  <2>1. buf' = buf
    BY <1>8 DEF addReplyProtoToList
  <2>2. copy \in Nat /\ copy <= TailAvail /\ copy <= n
        /\ (reply = <<>> => copy = 0)
    <3>1. CASE reply = <<>>
      BY <1>1, <3>1 DEF MinOf, TailAvail
    <3>2. CASE reply # <<>>
      <4>1. N \in 1..N /\ reply[N] \in Block /\ N = Len(reply)
        BY <1>1, <2>0, <3>2
      <4>2. reply[N].data \in Seq(Nat) /\ reply[N].size \in Nat
        BY <4>1 DEF Block
      <4>3. Len(reply[N].data) <= reply[N].size
        BY <1>3, <2>0, <4>1 DEF Placed, BlockOK
      <4>4. TailAvail \in Nat
        BY <2>0, <3>2, <4>2, <4>3 DEF TailAvail
      <4> QED
        BY <1>1, <3>2, <4>4 DEF MinOf
    <3> QED
      BY <3>1, <3>2
  <2> HIDE DEF copy
  <2>3. /\ r \in Seq(Block) /\ Len(r) = N
        /\ \A j \in 1..Len(r) :
             /\ r[j].size = reply[j].size
             /\ j < Len(r) => r[j].data = reply[j].data
             /\ r[j].data \in Seq(Nat) /\ r[j].data # <<>>
             /\ r[j].data[1] = First(j)
             /\ Len(r[j].data) <= r[j].size
             /\ InOrder(r[j].data, First(j) - 1)
        /\ reply # <<>> => Len(r[N].data) = Len(reply[N].data) + copy
    <3>1. pc # "freed"
      BY <1>2
    <3> QED
      BY <2>0, <2>2, <3>1, TopUp
  <2>4. N \in Nat /\ N = Len(reply)
    BY <2>0
  <2> DEFINE lastdata == reply[N].data
  <2>10. ASSUME reply # <<>>
         PROVE  /\ First(N) \in Nat /\ Len(lastdata) \in Nat
                /\ lastdata \in Seq(Nat) /\ lastdata # <<>>
                /\ produced = First(N) + Len(lastdata) - 1
    <3>1. N \in 1..N /\ reply[N] \in Block
      BY <1>1, <2>4, <2>10
    <3>2. lastdata \in Seq(Nat) /\ lastdata # <<>>
      BY <1>3, <2>4, <3>1 DEF Block, Placed, BlockOK
    <3> QED
      BY <1>3, <2>4, <2>10, <3>2 DEF Placed, LastByte, First
  <2> HIDE DEF lastdata
  <2>11. ASSUME reply # <<>>
         PROVE  /\ Len(r[1].data) >= Len(reply[1].data)
                /\ Len(r[1].data) \in Nat /\ Len(reply[1].data) \in Nat
    <3>1. 1 \in 1..N /\ N \in 1..N /\ reply[1] \in Block
      BY <1>1, <2>4, <2>11
    <3>2. r[1].data \in Seq(Nat) /\ reply[1].data \in Seq(Nat)
      BY <2>3, <3>1 DEF Block
    <3>3. CASE N = 1
      BY <2>2, <2>3, <2>4, <2>11, <3>2, <3>3
    <3>4. CASE N # 1
      BY SMTT(30), <2>3, <2>4, <3>1, <3>2, <3>4
    <3> QED
      BY <3>3, <3>4
  <2> HIDE DEF r
  <2>5. CASE n = copy
    <3>1. reply' = r /\ reply_bytes' = reply_bytes /\ reply # <<>>
      BY <1>1, <1>8, <2>2, <2>5 DEF addReplyProtoToList, copy, r
    <3>2. /\ reply' # <<>> /\ Len(reply') = N /\ N >= 1
          /\ N \in 1..N
      BY <1>1, <2>3, <2>4, <3>1
    <3>3. SentlenInHead'
      BY <1>1, <1>2, <2>1, <2>11, <3>1, <3>2
      DEF IInv, SentlenInHead, HeadLen, clientHasPendingReplies
    <3>4. \A j \in 1..N : First(j)' = First(j)
      BY <2>3, <2>4, <3>1 DEF First
    <3>5. \A j \in 1..Len(reply') : BlockOK(j)'
      BY <2>3, <3>1, <3>2, <3>4 DEF BlockOK, InOrder
    <3>6. ASSUME NEW j \in 1..(Len(reply') - 1)
          PROVE  Linked(j)'
      <4>1. j \in 1..N /\ j + 1 \in 1..N /\ j < N /\ j \in 1..(N - 1)
        BY <2>4, <3>2
      <4>2. First(j + 1) = First(j) + Len(reply[j].data)
        BY <1>3, <2>4, <4>1 DEF Placed, Linked
      <4> QED
        BY <2>3, <3>1, <3>4, <4>1, <4>2 DEF Linked
    <3>7. produced' = LastByte'
      <4>1. LastByte' = First(N)' + Len(r[N].data) - 1
        BY <3>1, <3>2 DEF LastByte
      <4>2. Len(r[N].data) = Len(lastdata) + copy
        BY <2>3, <3>1 DEF lastdata
      <4> QED
        BY <1>2, <2>2, <2>5, <2>10, <3>1, <3>2, <3>4, <4>1, <4>2
    <3>8. First(1)' = (Base + Len(buf) + 1)'
      BY <1>2, <1>3, <2>1, <3>1, <3>2, <3>4 DEF Placed
    <3>9. (InOrder(buf, Base) /\ Len(buf) <= ChunkBytes)'
      BY <1>2, <1>3, <2>1 DEF Placed, InOrder
    <3>10. Placed'
      BY <3>5, <3>6, <3>7, <3>8, <3>9 DEF Placed
    <3> QED
      BY <1>1, <2>1, <2>3, <3>1, <3>3, <3>10
  <2>6. CASE n # copy
    <3>1. PICK slack \in Slacks :
            LET size == BlockSize(n - copy) + slack IN
            /\ reply' = Append(r, [size |-> size, data |-> u])
            /\ reply_bytes' = reply_bytes + size
      BY <1>8, <2>6 DEF addReplyProtoToList, newBlock, copy, r
    <3> DEFINE size == BlockSize(n - copy) + slack
               blk == [size |-> size, data |-> u]
    <3>2. /\ n - copy \in Nat /\ n - copy >= 1
          /\ size \in Nat /\ size >= n - copy
      BY <1>1, <2>2, <2>6, SizesAssumption DEF BlockSize, MaxOf
    <3>3. u \in Seq(Nat) /\ Len(u) = n - copy /\ InOrder(u, produced + copy)
      <4>1. produced + copy \in Nat
        BY <1>1, <2>2
      <4> QED
        BY <3>2, <4>1, BytesType
    <3> HIDE DEF size, u
    <3>4. blk \in Block /\ blk.size = size /\ blk.data = u
      BY <3>2, <3>3 DEF Block
    <3>5. reply' = Append(r, blk) /\ reply_bytes' = reply_bytes + size
      BY <3>1 DEF size
    <3> HIDE DEF blk
    <3>6. /\ reply' \in Seq(Block) /\ Len(reply') = N + 1 /\ reply' # <<>>
          /\ \A j \in 1..N : reply'[j] = r[j]
          /\ reply'[N + 1] = blk
      BY <2>3, <2>4, <3>4, <3>5
    <3>7. First(N + 1)' = produced + copy + 1
      BY <1>1, <2>2, <3>2, <3>3, <3>4, <3>6 DEF First, InOrder
    <3>8. \A j \in 1..N : First(j)' = First(j)
      BY <2>3, <2>4, <3>6 DEF First
    <3>9. SentlenInHead'
      <4>1. CASE reply = <<>>
        <5>1. N = 0 /\ reply'[1].data = u
          BY <2>4, <3>4, <3>6, <4>1
        <5> QED
          BY <1>1, <1>2, <2>1, <3>2, <3>3, <3>6, <4>1, <5>1
          DEF IInv, SentlenInHead, HeadLen, clientHasPendingReplies
      <4>2. CASE reply # <<>>
        <5>1. 1 \in 1..N /\ reply'[1] = r[1]
          BY <1>1, <2>4, <3>6, <4>2
        <5>2. clientHasPendingReplies /\ clientHasPendingReplies'
          BY <3>6, <4>2 DEF clientHasPendingReplies
        <5>3. sentlen < HeadLen
          BY <1>1, <5>2 DEF IInv, SentlenInHead
        <5>4. HeadLen' >= HeadLen /\ HeadLen' \in Nat /\ HeadLen \in Nat
          <6>1. buf' = buf /\ reply' # <<>> /\ Len(buf) \in Nat
            BY <1>1, <2>1, <3>6
          <6> QED
            BY <2>11, <4>2, <5>1, <6>1 DEF HeadLen
        <5>5. sentlen' = sentlen /\ sentlen \in Nat
          BY <1>1, <1>2, <2>1
        <5> QED
          BY <5>2, <5>3, <5>4, <5>5 DEF SentlenInHead
      <4> QED
        BY <4>1, <4>2
    <3>10. ASSUME NEW j \in 1..Len(reply')
           PROVE  BlockOK(j)'
      <4>1. CASE j \in 1..N
        BY <2>3, <3>6, <3>8, <4>1 DEF BlockOK, InOrder
      <4>2. CASE j = N + 1
        <5>1. u # <<>> /\ Len(u) <= size
          BY <3>2, <3>3
        <5>2. InOrder(u, First(N + 1)' - 1)
          BY <1>1, <2>2, <3>3, <3>7
        <5> QED
          BY <3>4, <3>6, <4>2, <5>1, <5>2 DEF BlockOK, InOrder
      <4> QED
        BY <2>4, <3>6, <4>1, <4>2
    <3>11. ASSUME NEW j \in 1..(Len(reply') - 1)
           PROVE  Linked(j)'
      <4>1. j \in 1..N
        BY <2>4, <3>6
      <4>2. CASE j < N
        <5>1. j + 1 \in 1..N /\ j \in 1..(N - 1)
          BY <2>4, <4>1, <4>2
        <5>2. First(j + 1) = First(j) + Len(reply[j].data)
          BY <1>3, <2>4, <5>1 DEF Placed, Linked
        <5> QED
          BY <2>3, <3>6, <3>8, <4>1, <4>2, <5>1, <5>2 DEF Linked
      <4>3. CASE j = N
        <5>1. reply # <<>>
          BY <1>1, <2>4, <4>1, <4>3
        <5>2. Len(r[N].data) = Len(lastdata) + copy
          BY <2>3, <5>1 DEF lastdata
        <5>3. First(N)' = First(N) /\ reply'[N] = r[N]
          BY <3>6, <3>8, <4>1, <4>3
        <5>4. First(N) + Len(r[N].data) = produced + copy + 1
          BY <2>2, <2>10, <4>3, <5>1, <5>2, <5>3
        <5> QED
          BY <2>2, <2>10, <3>7, <4>3, <5>1, <5>2, <5>3, <5>4 DEF Linked
      <4> QED
        BY <2>4, <4>1, <4>2, <4>3
    <3>12. produced' = LastByte'
      <4>1. LastByte' = First(N + 1)' + Len(u) - 1
        BY <2>4, <3>4, <3>6 DEF LastByte
      <4> QED
        BY <1>1, <1>2, <2>2, <3>2, <3>3, <3>7, <4>1
    <3>13. First(1)' = (Base + Len(buf) + 1)'
      <4>1. CASE reply = <<>>
        <5>1. N = 0 /\ copy = 0
          BY <2>2, <2>4, <4>1
        <5> QED
          BY <1>1, <1>2, <1>3, <2>1, <3>7, <4>1, <5>1 DEF Placed, LastByte
      <4>2. CASE reply # <<>>
        <5>1. 1 \in 1..N
          BY <1>1, <2>4, <4>2
        <5> QED
          BY <1>2, <1>3, <2>1, <3>8, <4>2, <5>1 DEF Placed
      <4> QED
        BY <4>1, <4>2
    <3>14. (InOrder(buf, Base) /\ Len(buf) <= ChunkBytes)'
      BY <1>2, <1>3, <2>1 DEF Placed, InOrder
    <3>15. Placed'
      BY <3>10, <3>11, <3>12, <3>13, <3>14 DEF Placed
    <3>16. reply_bytes' \in Int
      BY <1>1, <3>2, <3>5
    <3> QED
      BY <1>1, <2>1, <3>6, <3>9, <3>15, <3>16
  <2> QED
    BY <2>5, <2>6
<1> QED
  BY <1>7, <1>8 DEF addReply

-----------------------------------------------------------------------------
(* A write takes bytes Base + sentlen + 1, ... off the buffer under way,   *)
(* and they are the ones that continue the wire.                           *)
LEMMA WireExtends ==
  ASSUME NEW w \in Seq(Nat), NEW s \in Seq(Nat), NEW sent \in Nat,
         NEW k \in Nat, sent <= Len(w), sent + k <= Len(s),
         InOrder(w, 0), InOrder(s, Len(w) - sent)
  PROVE  LET w2 == w \o SubSeq(s, sent + 1, sent + k) IN
           w2 \in Seq(Nat) /\ Len(w2) = Len(w) + k /\ InOrder(w2, 0)
<1>1. Len(w) \in Nat /\ Len(s) \in Nat
  OBVIOUS
<1>2. PICK m \in Int : m = Len(w) - sent
  <2>1. Len(w) - sent \in Int
    BY <1>1
  <2> QED
    BY <2>1
<1>3. PICK t : t = SubSeq(s, sent + 1, sent + k)
  OBVIOUS
<1>4. t \in Seq(Nat) /\ Len(t) = k /\ InOrder(t, m + sent)
  BY <1>2, <1>3, InOrderSubSeq
<1>5. InOrder(t, 0 + Len(w))
  BY <1>1, <1>2, <1>4
<1>6. InOrder(w \o t, 0)
  BY <1>4, <1>5, InOrderConcat
<1>7. w \o t \in Seq(Nat) /\ Len(w \o t) = Len(w) + k
  <2>1. t \in Seq(Nat) /\ Len(t) = k
    BY <1>4
  <2>2. w \o t \in Seq(Nat) /\ Len(w \o t) = Len(w) + Len(t)
    BY <2>1, ConcatProperties
  <2> QED
    BY <2>1, <2>2
<1> QED
  BY <1>3, <1>6, <1>7

(* What the socket accepts of n bytes is at least one and at most n.       *)
LEMMA AcceptedBound ==
  ASSUME NEW n \in Int, NEW k, SndFree \in Int, connWriteAccepts(n, k)
  PROVE  k \in Nat /\ k >= 1 /\ k <= n
<1>1. k \in 1..MinOf(n, SndFree)
  BY DEF connWriteAccepts
<1>2. MinOf(n, SndFree) \in Int /\ MinOf(n, SndFree) <= n
  BY DEF MinOf
<1> QED
  BY <1>1, <1>2

(* Writing from the fixed buffer.                                          *)
LEMMA WriteBufIInv ==
  ASSUME IInv, writeBuf
  PROVE  IInv'
<1>1. /\ produced \in Nat /\ buf \in Seq(Nat) /\ reply \in Seq(Block)
      /\ sentlen \in Nat /\ wire \in Seq(Nat) /\ totwritten \in Nat
      /\ sentlen <= Len(wire) /\ Len(wire) \in Nat /\ Len(buf) \in Nat
  BY DEF IInv, Typed
<1>2. pc = "write" /\ buf # <<>> /\ Placed
  BY DEF writeBuf, IInv
<1>3. PICK k \in 1..Len(buf) :
        /\ connWriteAccepts(Len(buf) - sentlen, k)
        /\ wire' = wire \o SubSeq(buf, sentlen + 1, sentlen + k)
        /\ accountWritten(k)
        /\ IF sentlen + k = Len(buf)
             THEN buf' = <<>> /\ sentlen' = 0
             ELSE sentlen' = sentlen + k /\ UNCHANGED buf
  BY DEF writeBuf
<1>4. UNCHANGED <<produced, reply, reply_bytes, queued, handler, closing,
                  taken, peer>>
  BY DEF writeBuf
<1>5. k \in Nat /\ k >= 1 /\ sentlen + k <= Len(buf)
  <2>1. SndFree \in Int
    BY <1>1, SizesAssumption DEF SndFree, IInv, Typed
  <2>2. connWriteAccepts(Len(buf) - sentlen, k)
    BY <1>3
  <2>3. Len(buf) - sentlen \in Int
    BY <1>1
  <2>4. k \in Nat /\ k >= 1 /\ k <= Len(buf) - sentlen
    BY <2>1, <2>2, <2>3, AcceptedBound
  <2> QED
    BY <1>1, <2>4
<1>6. InOrder(wire, 0) /\ InOrder(buf, Len(wire) - sentlen)
  BY <1>1, <1>2 DEF IInv, WireInOrder, InOrder, Placed, Base
<1>7. wire' \in Seq(Nat) /\ Len(wire') = Len(wire) + k /\ InOrder(wire', 0)
  <2>1. buf \in Seq(Nat) /\ wire \in Seq(Nat) /\ sentlen \in Nat
    BY <1>1
  <2>2. k \in Nat /\ sentlen <= Len(wire) /\ sentlen + k <= Len(buf)
    BY <1>1, <1>5
  <2>3. wire' = wire \o SubSeq(buf, sentlen + 1, sentlen + k)
    BY <1>3
  <2> QED
    BY <1>5, <1>6, <2>1, <2>2, <2>3, WireExtends
<1>8. WireInOrder'
  BY <1>7 DEF WireInOrder, InOrder
<1>9. totwritten' \in Nat /\ pc' \in {"write", "written"}
  BY <1>1, <1>3, <1>5 DEF accountWritten
<1>10. handler' \in BOOLEAN
  BY <1>4 DEF IInv, Typed
<1>11. \A j : First(j)' = First(j) /\ (BlockOK(j)' <=> BlockOK(j))
                                  /\ (Linked(j)' <=> Linked(j))
  BY <1>4 DEF First, BlockOK, Linked, InOrder
<1>12. SUFFICES /\ buf' \in Seq(Nat) /\ sentlen' \in Nat
                /\ sentlen' <= Len(wire')
                /\ SentlenInHead' /\ Placed'
  BY <1>1, <1>4, <1>7, <1>8, <1>9, <1>10 DEF IInv, Typed, Block
<1>13. CASE sentlen + k = Len(buf)
  <2>1. buf' = <<>> /\ sentlen' = 0 /\ reply' = reply
    BY <1>3, <1>4, <1>13
  <2>2. Base' = Base + Len(buf) /\ Base \in Int
    <3>1. Len(wire') = Len(wire) + k /\ sentlen + k = Len(buf)
      BY <1>7, <1>13
    <3>2. Base' = Len(wire')
      BY <1>1, <2>1, <3>1 DEF Base
    <3>3. Base = Len(wire) - sentlen
      BY DEF Base
    <3>4. /\ Len(wire) \in Nat /\ sentlen \in Nat /\ k \in Nat
          /\ Len(buf) \in Nat
      BY <1>1, <1>5
    <3> QED
      BY <3>1, <3>2, <3>3, <3>4
  <2>3. SentlenInHead'
    <3>1. CASE reply = <<>>
      BY <2>1, <3>1 DEF SentlenInHead, clientHasPendingReplies
    <3>2. CASE reply # <<>>
      <4>1. 1 \in 1..Len(reply) /\ reply[1] \in Block
        BY <1>1, <3>2
      <4>2. reply[1].data \in Seq(Nat) /\ reply[1].data # <<>>
        BY <1>2, <4>1 DEF Block, Placed, BlockOK
      <4> QED
        BY <2>1, <3>2, <4>2 DEF SentlenInHead, HeadLen, clientHasPendingReplies
    <3> QED
      BY <3>1, <3>2
  <2>4. produced' = LastByte'
    BY SMTT(30), <1>1, <1>2, <1>4, <1>11, <2>1, <2>2 DEF LastByte, Placed, Base
  <2>5. Placed'
    <3>1. reply # <<>> => First(1) = Base' + 1
      BY <1>2, <2>2 DEF Placed
    <3>2. (InOrder(buf, Base) /\ Len(buf) <= ChunkBytes)'
      BY <2>1, SizesAssumption DEF InOrder
    <3>3. (reply # <<>> => First(1) = Base + Len(buf) + 1)'
      BY <1>11, <2>1, <2>2, <3>1, <1>1
    <3> QED
      BY <1>2, <1>11, <2>1, <2>4, <3>2, <3>3 DEF Placed
  <2> QED
    BY <1>7, <1>1, <2>1, <2>3, <2>5
<1>14. CASE sentlen + k # Len(buf)
  <2>1. buf' = buf /\ sentlen' = sentlen + k /\ reply' = reply
    BY <1>3, <1>4, <1>14
  <2>2. Base' = Base
    BY <1>1, <1>5, <1>7, <2>1 DEF Base
  <2>3. SentlenInHead'
    BY <1>1, <1>2, <1>5, <1>14, <2>1
    DEF SentlenInHead, HeadLen, clientHasPendingReplies
  <2>4. Placed'
    BY <1>2, <1>4, <1>11, <2>1, <2>2 DEF Placed, InOrder, LastByte
  <2> QED
    BY <1>1, <1>5, <1>7, <2>1, <2>3, <2>4
<1> QED
  BY <1>13, <1>14

(* Writing from the head block of the list.                                *)
LEMMA WriteHeadBlockIInv ==
  ASSUME IInv, writeHeadBlock
  PROVE  IInv'
<1>1. /\ produced \in Nat /\ reply \in Seq(Block) /\ reply_bytes \in Int
      /\ sentlen \in Nat /\ wire \in Seq(Nat) /\ totwritten \in Nat
      /\ sentlen <= Len(wire) /\ Len(wire) \in Nat /\ Len(reply) \in Nat
  BY DEF IInv, Typed
<1>2. pc = "write" /\ buf = <<>> /\ reply # <<>> /\ Placed
  BY DEF writeHeadBlock, IInv
<1>3. 1 \in 1..Len(reply) /\ reply[1] \in Block
  BY <1>1, <1>2
<1>4. PICK d \in Seq(Nat) : d = reply[1].data
  BY <1>3 DEF Block
<1>5. reply[1].size \in Nat
  BY <1>3 DEF Block
<1>6. PICK k \in 1..Len(d) :
        /\ connWriteAccepts(Len(d) - sentlen, k)
        /\ wire' = wire \o SubSeq(d, sentlen + 1, sentlen + k)
        /\ accountWritten(k)
        /\ IF sentlen + k = Len(d)
             THEN /\ reply' = Tail(reply)
                  /\ reply_bytes' = reply_bytes - reply[1].size
                  /\ sentlen' = 0
             ELSE sentlen' = sentlen + k /\ UNCHANGED <<reply, reply_bytes>>
  BY <1>4 DEF writeHeadBlock, dropHeadBlock
<1>7. UNCHANGED <<produced, buf, queued, handler, closing, taken, peer>>
  BY DEF writeHeadBlock
<1>8. /\ k \in Nat /\ k >= 1 /\ sentlen + k <= Len(d) /\ Len(d) \in Nat
  <2>1. SndFree \in Int
    BY <1>1, SizesAssumption DEF SndFree, IInv, Typed
  <2>2. connWriteAccepts(Len(d) - sentlen, k)
    BY <1>6
  <2>3. d \in Seq(Nat)
    OBVIOUS
  <2>4. Len(d) \in Nat
    BY <2>3
  <2>5. Len(d) - sentlen \in Int
    BY <1>1, <2>4
  <2>6. k \in Nat /\ k >= 1 /\ k <= Len(d) - sentlen
    BY <2>1, <2>2, <2>5, AcceptedBound
  <2> QED
    BY <1>1, <2>4, <2>6
<1>9. First(1) = Base + 1 /\ Base \in Nat /\ InOrder(d, Base)
  <2>1. Len(buf) = 0
    BY <1>2
  <2>2. First(1) = Base + 1 /\ Base \in Nat
    BY <1>1, <1>2, <2>1 DEF Placed, Base
  <2> QED
    BY <1>2, <1>3, <1>4, <2>2 DEF Placed, BlockOK
<1>10. wire' \in Seq(Nat) /\ Len(wire') = Len(wire) + k /\ InOrder(wire', 0)
  <2>1. InOrder(wire, 0) /\ InOrder(d, Len(wire) - sentlen)
    BY <1>1, <1>9 DEF IInv, WireInOrder, InOrder, Base
  <2>2. d \in Seq(Nat) /\ wire \in Seq(Nat) /\ sentlen \in Nat
    BY <1>1
  <2>3. k \in Nat /\ sentlen <= Len(wire) /\ sentlen + k <= Len(d)
    BY <1>1, <1>8
  <2> QED
    BY <1>6, <1>8, <2>1, <2>2, <2>3, WireExtends
<1>11. WireInOrder'
  BY <1>10 DEF WireInOrder, InOrder
<1>12. totwritten' \in Nat /\ pc' \in {"write", "written"}
  BY <1>1, <1>6, <1>8 DEF accountWritten
<1>13. handler' \in BOOLEAN
  BY <1>7 DEF IInv, Typed
<1>14. SUFFICES /\ reply' \in Seq(Block) /\ reply_bytes' \in Int
                /\ sentlen' \in Nat /\ sentlen' <= Len(wire')
                /\ SentlenInHead' /\ Placed'
  BY <1>1, <1>7, <1>10, <1>11, <1>12, <1>13 DEF IInv, Typed, Block
<1>15. CASE sentlen + k = Len(d)
  <2>1. /\ reply' = Tail(reply) /\ sentlen' = 0 /\ buf' = <<>>
        /\ reply_bytes' = reply_bytes - reply[1].size
    BY <1>2, <1>6, <1>7, <1>15
  <2>2. PICK N \in Nat : N = Len(reply) - 1
    <3>1. Len(reply) - 1 \in Nat
      BY <1>1, <1>3
    <3> QED
      BY <3>1
  <2>3. /\ reply' \in Seq(Block) /\ Len(reply') = N
        /\ \A j \in 1..N : reply'[j] = reply[j + 1]
    BY <1>1, <1>2, <2>1, <2>2
  <2>4. Base' = Base + Len(d)
    <3>1. Len(wire') = Len(wire) + k /\ sentlen + k = Len(d)
      BY <1>10, <1>15
    <3>2. Base' = Len(wire')
      BY <1>1, <2>1, <3>1 DEF Base
    <3>3. Base = Len(wire) - sentlen
      BY DEF Base
    <3>4. /\ Len(wire) \in Nat /\ sentlen \in Nat /\ k \in Nat
          /\ Len(d) \in Nat
      BY <1>1, <1>8
    <3> QED
      BY SMTT(30), <3>1, <3>2, <3>3, <3>4
  <2>5. \A j \in 1..N : j + 1 \in 1..Len(reply) /\ First(j)' = First(j + 1)
    BY <1>1, <2>2, <2>3 DEF First
  <2>6. ASSUME NEW j \in 1..N
        PROVE  BlockOK(j)'
    <3>1. BlockOK(j + 1)
      BY <1>2, <2>5 DEF Placed
    <3>2. reply'[j] = reply[j + 1] /\ First(j)' = First(j + 1)
      BY <2>3, <2>5
    <3> QED
      BY <3>1, <3>2 DEF BlockOK, InOrder
  <2>7. ASSUME NEW j \in 1..(N - 1)
        PROVE  Linked(j)'
    <3>1. /\ j \in 1..N /\ j + 1 \in 1..N
          /\ j + 1 \in 1..(Len(reply) - 1)
      BY <2>2
    <3>2. First(j + 2) = First(j + 1) + Len(reply[j + 1].data)
      <4>1. (j + 1) + 1 = j + 2
        OBVIOUS
      <4> QED
        BY <1>2, <3>1, <4>1 DEF Placed, Linked
    <3>3. First(j + 1)' = First(j + 2)
      <4>1. (j + 1) + 1 = j + 2
        OBVIOUS
      <4> QED
        BY <2>5, <3>1, <4>1
    <3> QED
      BY <2>3, <2>5, <3>1, <3>2, <3>3 DEF Linked
  <2>8. CASE N = 0
    <3>1. reply' = <<>> /\ Len(reply) = 1 /\ Len(reply') = 0 /\ Len(buf') = 0
      <4>1. Len(reply) = 1 /\ Len(reply') = 0
        BY <1>1, <2>2, <2>3, <2>8
      <4>2. reply' = <<>>
        BY <2>3, <4>1
      <4>3. Len(buf') = 0
        BY <2>1
      <4> QED
        BY <4>1, <4>2, <4>3
    <3>2. SentlenInHead'
      BY <2>1, <3>1 DEF SentlenInHead, clientHasPendingReplies
    <3>3. produced = First(1) + Len(d) - 1
      BY <1>2, <1>4, <3>1 DEF Placed, LastByte
    <3>4. produced' = LastByte'
      BY <1>7, <1>8, <1>9, <2>4, <3>1, <3>3 DEF LastByte
    <3>5. Placed'
      <4>1. (InOrder(buf, Base) /\ Len(buf) <= ChunkBytes)'
        BY <3>1, SizesAssumption DEF InOrder
      <4> QED
        BY <3>1, <3>4, <4>1 DEF Placed
    <3> QED
      BY SMTT(30), <1>1, <1>5, <1>10, <2>1, <2>3, <3>2, <3>5
  <2>9. CASE N # 0
    <3>1. /\ reply' # <<>> /\ 1 \in 1..N /\ N \in 1..N
          /\ Len(reply) = N + 1
      BY <1>1, <2>2, <2>3, <2>9
    <3>2. SentlenInHead'
      <4>1. reply'[1] \in Block /\ reply'[1].data # <<>>
        BY <2>3, <2>6, <3>1 DEF BlockOK
      <4>2. Len(reply'[1].data) > 0
        BY <4>1 DEF Block
      <4> QED
        BY <2>1, <3>1, <4>2 DEF SentlenInHead, HeadLen, clientHasPendingReplies
    <3>3. First(1)' = (Base + Len(buf) + 1)'
      <4>1. First(2) = First(1) + Len(d)
        <5>1. 1 \in 1..(Len(reply) - 1) /\ 1 + 1 = 2
          BY <3>1
        <5> QED
          BY <1>2, <1>4, <5>1 DEF Placed, Linked
      <4>2. First(1)' = First(2)
        BY <2>5, <3>1
      <4>3. Len(buf') = 0
        BY <2>1
      <4> QED
        BY <1>8, <1>9, <2>4, <4>1, <4>2, <4>3
    <3>4. produced' = LastByte'
      <4>1. produced = First(N + 1) + Len(reply[N + 1].data) - 1
        BY <1>2, <3>1 DEF Placed, LastByte
      <4>2. LastByte' = First(N)' + Len(reply'[N].data) - 1
        BY <2>3, <3>1 DEF LastByte
      <4>3. First(N)' = First(N + 1) /\ reply'[N] = reply[N + 1]
        BY <2>3, <2>5, <3>1
      <4> QED
        BY <1>7, <4>1, <4>2, <4>3
    <3>5. Placed'
      BY <2>1, <2>3, <2>6, <2>7, <3>3, <3>4, SizesAssumption DEF Placed, InOrder
    <3> QED
      BY SMTT(30), <1>1, <1>5, <1>10, <2>1, <2>3, <3>2, <3>5
  <2> QED
    BY <2>8, <2>9
<1>16. CASE sentlen + k # Len(d)
  <2>1. reply' = reply /\ sentlen' = sentlen + k /\ reply_bytes' = reply_bytes
    BY <1>6, <1>16
  <2>2. Base' = Base
    BY <1>1, <1>8, <1>10, <2>1 DEF Base
  <2>3. SentlenInHead'
    <3>1. buf' = <<>> /\ reply' # <<>> /\ reply'[1].data = d
      BY <1>2, <1>4, <1>7, <2>1
    <3>2. sentlen' < Len(d)
      BY <1>1, <1>8, <1>16, <2>1
    <3> QED
      BY <3>1, <3>2 DEF SentlenInHead, HeadLen, clientHasPendingReplies
  <2>4. Placed'
    BY <1>2, <1>7, <2>1, <2>2
    DEF Placed, InOrder, LastByte, BlockOK, Linked, First
  <2> QED
    BY <1>1, <1>8, <1>10, <2>1, <2>3, <2>4
<1> QED
  BY <1>15, <1>16

-----------------------------------------------------------------------------
(* A step that touches neither the buffers nor the wire keeps the bytes in *)
(* their places.                                                           *)
LEMMA BuffersKept ==
  ASSUME IInv, UNCHANGED <<contents, sentlen, wire>>,
         pc # "freed", pc' # "freed", Typed'
  PROVE  IInv'
<1>1. UNCHANGED <<produced, buf, reply, reply_bytes>>
  BY DEF contents
<1>2. Base' = Base /\ LastByte' = LastByte
  BY <1>1 DEF Base, LastByte, First
<1>3. \A j : First(j)' = First(j) /\ (BlockOK(j)' <=> BlockOK(j))
                                 /\ (Linked(j)' <=> Linked(j))
  BY <1>1 DEF First, BlockOK, Linked, InOrder
<1>4. Placed'
  BY <1>1, <1>2, <1>3 DEF IInv, Placed, InOrder
<1>5. WireInOrder' /\ SentlenInHead' /\ (sentlen <= Len(wire))'
  BY <1>1
  DEF IInv, WireInOrder, SentlenInHead, HeadLen, clientHasPendingReplies
<1> QED
  BY <1>4, <1>5 DEF IInv

(* The steps of the flush around the writes, and those of the peer.        *)
LEMMA OtherIInv ==
  ASSUME IInv,
         \/ startWrite \/ writeFailed \/ writeKilled \/ finishWrite
         \/ handlerFires \/ peerAcks \/ peerResets
  PROVE  IInv'
<1>1. Typed /\ SentlenInHead
  BY DEF IInv
<1>2. CASE startWrite
  <2>1. Typed'
    BY <1>1, <1>2 DEF startWrite, Typed, contents, Block
  <2> QED
    BY <1>2, <2>1, BuffersKept DEF startWrite
<1>3. CASE writeFailed
  <2>1. Typed'
    BY <1>1, <1>3 DEF writeFailed, PhaseAfterError, Typed, contents, Block
  <2> QED
    BY <1>3, <2>1, BuffersKept DEF writeFailed, PhaseAfterError
<1>4. CASE writeKilled
  <2>1. Typed'
    BY <1>1, <1>4 DEF writeKilled, Typed, contents, Block
  <2> QED
    BY <1>4, <2>1, BuffersKept DEF writeKilled
<1>5. CASE finishWrite
  <2>1. UNCHANGED <<contents, queued, totwritten, wire, taken, peer>>
    BY <1>5 DEF finishWrite
  <2>2. sentlen' = sentlen /\ pc' = "reap" /\ pc # "freed"
    BY <1>1, <1>5 DEF finishWrite, LoopEnded, SentlenInHead
  <2>3. handler' \in BOOLEAN
    BY <1>1, <1>5 DEF finishWrite, installWriteHandler, Typed
  <2>4. closing' \in Nat
    BY <1>1, <1>5 DEF finishWrite, installWriteHandler, Typed
  <2>5. Typed'
    BY <1>1, <2>1, <2>2, <2>3, <2>4 DEF Typed, contents, Block
  <2> QED
    BY <2>1, <2>2, <2>5, BuffersKept
<1>6. CASE handlerFires
  <2>1. Typed'
    BY <1>1, <1>6 DEF handlerFires, Typed, contents, Block
  <2> QED
    BY <1>6, <2>1, BuffersKept DEF handlerFires
<1>7. CASE peerAcks
  <2>1. Typed'
    BY <1>1, <1>7 DEF peerAcks, Typed, contents, Block
  <2> QED
    BY <1>7, <2>1, BuffersKept DEF peerAcks, Live
<1>8. CASE peerResets
  <2>1. Typed'
    BY <1>1, <1>8 DEF peerResets, Typed, contents, Block
  <2> QED
    BY <1>8, <2>1, BuffersKept DEF peerResets, Live
<1> QED
  BY <1>2, <1>3, <1>4, <1>5, <1>6, <1>7, <1>8

(* Freeing the client empties both buffers; sparing it changes no byte.    *)
LEMMA ReapIInv ==
  ASSUME IInv, reapClient
  PROVE  IInv'
<1>1. Typed /\ pc = "reap" /\ UNCHANGED <<produced, queued, totwritten, wire,
                                         taken, peer>>
  BY DEF IInv, reapClient
<1>2. CASE closing > 0
  <2>1. /\ closing' = closing - 1 /\ buf' = <<>> /\ reply' = <<>>
        /\ reply_bytes' = 0 /\ sentlen' = 0 /\ handler' = FALSE
        /\ pc' = "freed"
    BY <1>2 DEF reapClient
  <2>2. handler' \in BOOLEAN
    BY <2>1
  <2>3. Typed'
    BY <1>1, <1>2, <2>1, <2>2 DEF Typed, Block
  <2>4. WireInOrder' /\ SentlenInHead' /\ (sentlen <= Len(wire))'
    BY <1>1, <2>1
    DEF IInv, Typed, WireInOrder, SentlenInHead, clientHasPendingReplies
  <2> QED
    BY <2>1, <2>3, <2>4 DEF IInv
<1>3. CASE ~(closing > 0)
  <2>1. UNCHANGED <<contents, sentlen, wire, handler, closing>>
        /\ pc' = "dispatch"
    BY <1>1, <1>3 DEF reapClient, contents
  <2>2. Typed'
    BY <1>1, <2>1 DEF Typed, contents, Block
  <2> QED
    BY <1>1, <2>1, <2>2, BuffersKept
<1> QED
  BY <1>2, <1>3

(* A step of something else leaves the client as it is.                    *)
LEMMA StutterIInv == IInv /\ UNCHANGED vars => IInv'
<1> SUFFICES ASSUME IInv, UNCHANGED vars PROVE IInv'
  OBVIOUS
<1>1. Typed' /\ UNCHANGED <<contents, sentlen, wire, pc>>
  BY DEF IInv, Typed, Block, vars, contents
<1>2. CASE pc # "freed"
  BY <1>1, <1>2, BuffersKept
<1>3. CASE pc = "freed"
  BY <1>1, <1>3
  DEF IInv, contents, WireInOrder, SentlenInHead, HeadLen,
      clientHasPendingReplies
<1> QED
  BY <1>2, <1>3

(* No step of the output side moves a byte out of its place: the places    *)
(* are what makes the order of the wire inductive.                         *)
THEOREM NextIInv == IInv /\ [Next]_vars => IInv'
<1> SUFFICES ASSUME IInv, [Next]_vars PROVE IInv'
  OBVIOUS
<1>1. CASE \E n \in ReplyLens : addReply(n)
  BY <1>1, AddReplyIInv
<1>2. CASE writeBuf
  BY <1>2, WriteBufIInv
<1>3. CASE writeHeadBlock
  BY <1>3, WriteHeadBlockIInv
<1>4. CASE reapClient
  BY <1>4, ReapIInv
<1>5. CASE \/ startWrite \/ writeFailed \/ writeKilled \/ finishWrite
           \/ handlerFires \/ peerAcks \/ peerResets
  BY <1>5, OtherIInv
<1>6. CASE UNCHANGED vars
  BY <1>6, StutterIInv
<1> QED
  BY <1>1, <1>2, <1>3, <1>4, <1>5, <1>6 DEF Next, Write

(* In every behaviour each unsent byte of c->buf and c->reply is where the *)
(* count of bytes sent so far says it must be.                             *)
THEOREM InvariantIInv == Spec => []IInv
  BY InitIInv, NextIInv, PTL DEF Spec

(* Every variable holds a value of its kind.                               *)
LEMMA TypedCorrect == Spec => []Typed
<1>1. IInv => Typed
  BY DEF IInv
<1> QED
  BY <1>1, InvariantIInv, PTL

(* The socket carries the replies of the client in order, whole, each byte *)
(* once: the promise of writeToClient() and of the addReply() family.      *)
THEOREM RepliesInOrder == Spec => []WireInOrder
<1>1. IInv => WireInOrder
  BY DEF IInv
<1> QED
  BY <1>1, InvariantIInv, PTL

(* writeToClient() never asks the socket to write nothing, nor resumes a   *)
(* buffer at the position another one was left at.                         *)
THEOREM SentlenCorrect == Spec => []SentlenInHead
<1>1. IInv => SentlenInHead
  BY DEF IInv
<1> QED
  BY <1>1, InvariantIInv, PTL

(* memcpy() into c->buf and into the blocks stays inside them.             *)
THEOREM NoBufferOverflow == Spec => []NoOverflow
<1>1. IInv => NoOverflow
  BY SizesAssumption DEF IInv, Typed, Placed, BlockOK, NoOverflow
<1> QED
  BY <1>1, InvariantIInv, PTL

-----------------------------------------------------------------------------
(* The places where the client is listed, by phase of the loop: nowhere    *)
(* while it is being flushed, in clients_to_close at most once after it,   *)
(* and in the pending list or behind the write handler when it waits.      *)
Listed ==
  /\ pc = "dispatch" =>
       /\ closing = 0
       /\ clientHasPendingReplies =>
            (queued = 1 /\ ~handler) \/ (queued = 0 /\ handler)
       /\ ~clientHasPendingReplies => queued = 0 /\ ~handler
  /\ pc \in {"write", "written"} => queued = 0 /\ ~handler /\ closing = 0
  /\ pc = "reap" =>
       /\ queued = 0 /\ closing \in {0, 1}
       /\ closing = 0 => (handler <=> clientHasPendingReplies)
  /\ pc = "freed" => closing = 0 /\ queued = 0
  /\ pc = "crashed" => closing \in {0, 1} /\ queued \in {0, 1}

(* After an addReply() there is a reply to send.                           *)
LEMMA AddReplyPending ==
  ASSUME Typed, NEW n \in ReplyLens, addReply(n)
  PROVE  clientHasPendingReplies'
<1>1. n \in Nat \ {0} /\ produced \in Nat /\ buf \in Seq(Nat)
      /\ reply \in Seq(Block)
  BY ReplyLensAssumption DEF Typed
<1>2. CASE addReplyToBuffer(n)
  <2>1. PICK t \in Seq(Nat) : t = Bytes(produced, n) /\ Len(t) = n
    BY <1>1, BytesType
  <2>2. buf' = buf \o t
    BY <1>2, <2>1 DEF addReplyToBuffer
  <2>3. Len(buf \o t) = Len(buf) + n /\ Len(buf) \in Nat
    BY <1>1, <2>1, ConcatProperties
  <2>4. Len(buf') # 0
    BY <1>1, <2>2, <2>3
  <2> QED
    BY <2>4 DEF clientHasPendingReplies
<1>3. CASE addReplyProtoToList(n)
  <2> DEFINE copy == MinOf(TailAvail, n)
             r == ToppedUp(copy)
  <2>1. CASE n = copy
    <3>1. reply' = r
      BY <1>3, <2>1 DEF addReplyProtoToList
    <3>2. reply # <<>>
      BY <1>1, <2>1 DEF MinOf, TailAvail
    <3>3. DOMAIN r = DOMAIN reply
      BY <1>1, <3>2 DEF ToppedUp
    <3> QED
      BY <1>1, <3>1, <3>2, <3>3 DEF clientHasPendingReplies
  <2>2. CASE n # copy
    <3>1. \E b : reply' = Append(r, b)
      BY <1>3, <2>2 DEF addReplyProtoToList, newBlock
    <3> QED
      BY <3>1 DEF clientHasPendingReplies
  <2> QED
    BY <2>1, <2>2
<1> QED
  BY <1>2, <1>3 DEF addReply

(* No step of the flush changes on how many of the two lists of the server *)
(* the client must be in that phase.                                       *)
THEOREM NextListed == Typed /\ Listed /\ [Next]_vars => Listed'
<1> SUFFICES ASSUME Typed, Listed, [Next]_vars PROVE Listed'
  OBVIOUS
<1> USE DEF Listed
<1>1. ASSUME NEW n \in ReplyLens, addReply(n)
      PROVE  Listed'
  <2>1. pc = "dispatch" /\ pc' = "dispatch" /\ ~handler /\ ~handler'
        /\ closing' = closing
    BY <1>1 DEF addReply
  <2>2. queued' = 1
    BY <1>1, <2>1 DEF addReply, prepareClientToWrite
  <2> QED
    BY <1>1, <2>1, <2>2, AddReplyPending
<1>2. CASE startWrite
  BY <1>2 DEF startWrite, Typed
<1>3. CASE writeBuf
  <2>1. pc = "write" /\ UNCHANGED <<queued, handler, closing>>
        /\ pc' \in {"write", "written"}
    BY <1>3 DEF writeBuf, accountWritten
  <2> QED
    BY <2>1
<1>4. CASE writeHeadBlock
  <2>1. pc = "write" /\ UNCHANGED <<queued, handler, closing>>
        /\ pc' \in {"write", "written"}
    BY <1>4 DEF writeHeadBlock, accountWritten
  <2> QED
    BY <2>1
<1>5. CASE writeFailed
  BY <1>5 DEF writeFailed, PhaseAfterError
<1>6. CASE writeKilled
  BY <1>6 DEF writeKilled
<1>7. CASE finishWrite
  <2>1. pc \in {"write", "written"} /\ pc' = "reap" /\ queued' = queued
        /\ (clientHasPendingReplies' <=> clientHasPendingReplies)
    BY <1>7 DEF finishWrite, LoopEnded, contents, clientHasPendingReplies
  <2>2. \/ ~clientHasPendingReplies /\ closing' = 0 /\ ~handler'
        \/ clientHasPendingReplies /\ closing' = 0 /\ handler'
        \/ closing' = 1
    BY <1>7, <2>1 DEF finishWrite, installWriteHandler
  <2> QED
    BY <2>1, <2>2
<1>8. CASE reapClient
  <2>1. CASE closing > 0
    BY <1>8, <2>1 DEF reapClient
  <2>2. CASE ~(closing > 0)
    <3>1. /\ pc = "reap" /\ pc' = "dispatch" /\ closing = 0
          /\ UNCHANGED <<queued, handler, closing>>
          /\ (clientHasPendingReplies' <=> clientHasPendingReplies)
      BY <1>8, <2>2 DEF reapClient, clientHasPendingReplies
    <3> QED
      BY <3>1
  <2> QED
    BY <2>1, <2>2
<1>9. CASE handlerFires
  BY <1>9 DEF handlerFires
<1>10. CASE peerAcks \/ peerResets \/ UNCHANGED vars
  <2>1. UNCHANGED <<queued, handler, closing, pc>>
        /\ (clientHasPendingReplies' <=> clientHasPendingReplies)
    BY <1>10
    DEF peerAcks, peerResets, vars, contents, clientHasPendingReplies
  <2> QED
    BY <2>1
<1> QED
  BY <1>1, <1>2, <1>3, <1>4, <1>5, <1>6, <1>7, <1>8, <1>9, <1>10
  DEF Next, Write

(* In every behaviour the client is on the lists of the server just where  *)
(* its phase says.                                                         *)
THEOREM InvariantListed == Spec => []Listed
<1>1. Init => Listed
  BY DEF Init, Listed, clientHasPendingReplies
<1> QED
  BY <1>1, NextListed, TypedCorrect, PTL DEF Spec

(* Every variable stays in its range; no list ever holds the client twice. *)
THEOREM TypeCorrect == Spec => []TypeOK
<1>1. Typed /\ Listed => TypeOK
  BY DEF Typed, Listed, TypeOK
<1> QED
  BY <1>1, TypedCorrect, InvariantListed, PTL

(* A client that waits to send is in clients_pending_write once, or has    *)
(* the write handler, never both and never neither.                        *)
THEOREM ScheduledExactlyOnce == Spec => []ScheduledOnce
<1>1. Listed => ScheduledOnce
  BY DEF Listed, ScheduledOnce
<1> QED
  BY <1>1, InvariantListed, PTL

(* No client is freed twice.                                               *)
THEOREM NoDoubleFree == Spec => []FreedOnce
<1>1. Typed /\ Listed => FreedOnce
  BY DEF Typed, Listed, FreedOnce
<1> QED
  BY <1>1, TypedCorrect, InvariantListed, PTL

-----------------------------------------------------------------------------
(* A sequence in order is determined by its length; joining, taking and    *)
(* dropping numbered bytes.                                                *)
LEMMA InOrderBytes ==
  ASSUME NEW s \in Seq(Nat), NEW m \in Nat, InOrder(s, m)
  PROVE  s = Bytes(m, Len(s))
<1>1. s = [i \in 1..Len(s) |-> s[i]]
  OBVIOUS
<1> QED
  BY <1>1 DEF InOrder, Bytes

LEMMA InOrderParts ==
  ASSUME NEW s \in Seq(Nat), NEW t \in Seq(Nat), NEW m \in Nat,
         InOrder(s, m), InOrder(t, m + Len(s))
  PROVE  s \o t = Bytes(m, Len(s) + Len(t))
<1>1. s \o t \in Seq(Nat) /\ Len(s \o t) = Len(s) + Len(t)
  OBVIOUS
<1>2. InOrder(s \o t, m)
  BY InOrderConcat
<1> QED
  BY <1>1, <1>2, InOrderBytes

LEMMA BytesJoin ==
  ASSUME NEW m \in Nat, NEW a \in Nat, NEW b \in Nat
  PROVE  Bytes(m, a) \o Bytes(m + a, b) = Bytes(m, a + b)
<1> DEFINE u == Bytes(m, a)
           v == Bytes(m + a, b)
<1>1. m + a \in Nat
  OBVIOUS
<1>2. u \in Seq(Nat) /\ Len(u) = a /\ InOrder(u, m)
  BY BytesType
<1>3. v \in Seq(Nat) /\ Len(v) = b /\ InOrder(v, m + a)
  BY <1>1, BytesType
<1> HIDE DEF u, v
<1>4. u \o v = Bytes(m, Len(u) + Len(v))
  BY <1>2, <1>3, InOrderParts
<1> QED
  BY <1>2, <1>3, <1>4 DEF u, v

LEMMA BytesTake ==
  ASSUME NEW m \in Nat, NEW a \in Nat, NEW b \in Nat
  PROVE  SubSeq(Bytes(m, a + b), 1, a) = Bytes(m, a)
<1> DEFINE u == Bytes(m, a + b)
<1>1. a + b \in Nat
  OBVIOUS
<1>2. u \in Seq(Nat) /\ InOrder(u, m) /\ a <= Len(u)
  BY <1>1, BytesType
<1> HIDE DEF u
<1>3. /\ SubSeq(u, 1, a) \in Seq(Nat) /\ Len(SubSeq(u, 1, a)) = a
      /\ InOrder(SubSeq(u, 1, a), m)
  BY <1>2 DEF InOrder
<1>4. SubSeq(u, 1, a) = Bytes(m, a)
  BY <1>3, InOrderBytes
<1> QED
  BY <1>4 DEF u

LEMMA BytesDrop ==
  ASSUME NEW m \in Nat, NEW a \in Nat, NEW b \in Nat
  PROVE  SubSeq(Bytes(m, a + b), a + 1, a + b) = Bytes(m + a, b)
<1> DEFINE u == Bytes(m, a + b)
           v == SubSeq(u, a + 1, a + b)
<1>1. a + b \in Nat /\ m + a \in Nat /\ m \in Int
  OBVIOUS
<1>2. u \in Seq(Nat) /\ InOrder(u, m) /\ a + b <= Len(u)
  BY <1>1, BytesType
<1> HIDE DEF u
<1>3. v \in Seq(Nat) /\ Len(v) = b /\ InOrder(v, m + a)
  BY <1>1, <1>2, InOrderSubSeq
<1> HIDE DEF v
<1>4. v = Bytes(m + a, b)
  BY <1>1, <1>3, InOrderBytes
<1> QED
  BY <1>4 DEF u, v

(* The reply bytes that are not on the wire yet, in the order in which they *)
(* lie in the buffers.                                                     *)
LEMMA UnsentBytes ==
  ASSUME IInv, Live
  PROVE  /\ produced - Len(wire) \in Nat
         /\ Unsent = Bytes(Len(wire), produced - Len(wire))
<1> DEFINE N == Len(reply)
           dd == [j \in 1..N |-> reply[j].data]
           m == Base + Len(buf)
           End(k) == IF k = 0 THEN m ELSE First(k) + Len(reply[k].data) - 1
           T == {k \in 0..N : /\ End(k) - m \in Nat
                              /\ k # 0 => End(k) - m >= Len(reply[1].data)
                              /\ FlattenSeq(SubSeq(dd, 1, k)) = Bytes(m, End(k) - m)}
<1>1. Placed /\ Typed /\ SentlenInHead /\ sentlen <= Len(wire)
  BY DEF IInv, Live
<1>2. /\ N \in Nat /\ wire \in Seq(Nat) /\ Len(wire) \in Nat /\ sentlen \in Nat
      /\ buf \in Seq(Nat) /\ Len(buf) \in Nat /\ Base \in Nat /\ m \in Nat
      /\ \A j \in 1..N : reply[j].data \in Seq(Nat)
  <2>1. /\ wire \in Seq(Nat) /\ sentlen \in Nat /\ buf \in Seq(Nat) /\ reply \in Seq(Block)
    BY <1>1 DEF Typed
  <2>2. Len(wire) \in Nat /\ Len(buf) \in Nat
    BY <2>1
  <2>3. Base \in Nat /\ m \in Nat
    BY <1>1, <2>1, <2>2 DEF Base
  <2>4. N \in Nat /\ \A j \in 1..N : reply[j] \in Block
    <3> HIDE DEF Block
    <3> QED
      BY <2>1
  <2> QED
    BY <2>1, <2>2, <2>3, <2>4 DEF Block
<1>3. dd \in Seq(Seq(Nat)) /\ Len(dd) = N /\ \A j \in 1..N : dd[j] = reply[j].data
  BY <1>2
<1> HIDE DEF N, dd, m
<1>4. ASSUME NEW k \in 0..(N - 1), k \in T
      PROVE  k + 1 \in T
  <2> DEFINE s == SubSeq(dd, 1, k)
             d == reply[k + 1].data
  <2>1. k + 1 \in 1..N /\ k \in Nat /\ d \in Seq(Nat) /\ d = dd[k + 1]
    BY <1>2, <1>3
  <2>2. s \in Seq(Seq(Nat)) /\ SubSeq(dd, 1, k + 1) = Append(s, dd[k + 1])
    <3>1. k + 1 \in 1..Len(dd)
      BY <1>3, <2>1
    <3>2. s \in Seq(Seq(Nat)) /\ Len(s) = k /\ \A i \in 1..k : s[i] = dd[i]
      BY <1>3, <2>1, <3>1
    <3> DEFINE t == SubSeq(dd, 1, k + 1)
    <3>3. t \in Seq(Seq(Nat)) /\ Len(t) = k + 1 /\ \A i \in 1..(k + 1) : t[i] = dd[i]
      BY <1>3, <2>1, <3>1
    <3> HIDE DEF s, t
    <3> DEFINE x == dd[k + 1]
               w == Append(s, x)
    <3>4. t = w
      <4>1. x \in Seq(Nat) /\ t[k + 1] = x
        BY <2>1, <3>3
      <4> HIDE DEF x
      <4>2. w \in Seq(Seq(Nat)) /\ Len(w) = k + 1 /\ w[k + 1] = x
            /\ \A i \in 1..k : w[i] = s[i]
        BY <2>1, <3>2, <4>1
      <4> HIDE DEF w
      <4>3. ASSUME NEW i \in 1..(k + 1)
            PROVE  t[i] = w[i]
        <5>1. i = k + 1 \/ i \in 1..k
          BY <2>1
        <5>2. i \in 1..k => t[i] = w[i]
          BY <3>2, <3>3, <4>2
        <5> QED
          BY <4>1, <4>2, <5>1, <5>2
      <4>4. t = [i \in 1..(k + 1) |-> t[i]] /\ w = [i \in 1..(k + 1) |-> w[i]]
        BY <3>3, <4>2
      <4> QED
        BY <4>3, <4>4
    <3> QED
      BY <3>2, <3>4 DEF t
  <2>3. FlattenSeq(SubSeq(dd, 1, k + 1)) = FlattenSeq(s) \o d
    <3> HIDE DEF s, d
    <3>1. FlattenSeq(Append(s, d)) = FlattenSeq(s) \o d
      BY <2>1, <2>2, Flatten
    <3> QED
      BY <2>1, <2>2, <3>1
  <2>4. First(k + 1) = End(k) + 1
    <3>1. CASE k = 0
      BY <1>1, <1>2, <2>1, <3>1 DEF Placed, N, m
    <3>2. CASE k # 0
      <4>1. k \in 1..(N - 1)
        BY <1>2, <3>2
      <4>2. First(k + 1) = First(k) + Len(reply[k].data)
        BY <1>1, <4>1 DEF Placed, Linked, N
      <4>3. First(k) \in Int /\ Len(reply[k].data) \in Nat
        <5>1. k \in 1..N /\ BlockOK(k)
          BY <1>1, <1>2, <4>1 DEF Placed, N
        <5> QED
          BY <1>2, <5>1 DEF BlockOK, First
      <4> QED
        BY <3>2, <4>2, <4>3
    <3> QED
      BY <3>1, <3>2
  <2>5. End(k) \in Nat /\ End(k) - m \in Nat /\ m + (End(k) - m) = End(k)
    <3>1. End(k) - m \in Nat
      BY <1>4
    <3>2. End(k) \in Int
      <4>1. k # 0 => k \in 1..N
        BY <1>2, <2>1
      <4>2. k # 0 => First(k) \in Int /\ Len(reply[k].data) \in Nat
        <5>1. k # 0 => BlockOK(k)
          BY <1>1, <4>1 DEF Placed, N
        <5> QED
          BY <1>2, <4>1, <5>1 DEF BlockOK, First
      <4>3. CASE k = 0
        BY <1>2, <4>3
      <4>4. CASE k # 0
        BY <4>2, <4>4
      <4> QED
        BY <4>3, <4>4
    <3> HIDE DEF End
    <3> QED
      BY <1>2, <3>1, <3>2
  <2>6. d = Bytes(End(k), Len(d))
    <3>1. InOrder(d, First(k + 1) - 1)
      BY <1>1, <2>1 DEF Placed, BlockOK, N
    <3> HIDE DEF End, d
    <3>2. First(k + 1) - 1 = End(k)
      BY <2>4, <2>5
    <3> QED
      BY <2>1, <2>5, <3>1, <3>2, InOrderBytes
  <2>7. FlattenSeq(s) \o d = Bytes(m, (End(k) - m) + Len(d))
    <3>1. FlattenSeq(s) = Bytes(m, End(k) - m)
      BY <1>4
    <3>2. Len(d) \in Nat
      BY <2>1
    <3> DEFINE x == End(k) - m
               y == Len(d)
    <3>4. x \in Nat /\ y \in Nat
      BY <2>5, <3>2
    <3> HIDE DEF s, d, End, x, y
    <3>5. Bytes(m, x) \o Bytes(m + x, y) = Bytes(m, x + y)
      BY <1>2, <3>4, BytesJoin
    <3>3. Bytes(m, End(k) - m) \o Bytes(m + (End(k) - m), Len(d))
            = Bytes(m, (End(k) - m) + Len(d))
      BY <3>5 DEF x, y
    <3> QED
      BY <2>5, <2>6, <3>1, <3>3
  <2>8. End(k + 1) = End(k) + Len(d) /\ Len(d) \in Nat
    <3>1. End(k + 1) = First(k + 1) + Len(d) - 1
      BY <2>1
    <3>2. Len(d) \in Nat
      BY <2>1
    <3> HIDE DEF End, d
    <3> QED
      BY <2>4, <2>5, <3>1, <3>2
  <2>9. End(k + 1) - m = (End(k) - m) + Len(d) /\ End(k + 1) - m \in Nat
    <3> HIDE DEF End, d
    <3> QED
      BY <1>2, <2>5, <2>8
  <2>10. End(k + 1) - m >= Len(reply[1].data)
    <3>1. CASE k = 0
      <4>1. End(k) = m /\ d = reply[1].data
        BY <3>1
      <4> HIDE DEF End
      <4> QED
        BY <1>2, <2>8, <2>9, <4>1
    <3>2. CASE k # 0
      <4>1. End(k) - m >= Len(reply[1].data) /\ Len(reply[1].data) \in Nat
        <5>1. 1 \in 1..N
          BY <1>2, <2>1, <3>2
        <5> QED
          BY <1>2, <1>4, <3>2, <5>1
      <4>2. End(k) - m \in Nat /\ Len(d) \in Nat
        BY <2>5, <2>8
      <4> HIDE DEF End, d
      <4> QED
        BY <2>9, <4>1, <4>2
    <3> QED
      BY <3>1, <3>2
  <2> HIDE DEF s, d, End
  <2> QED
    BY <2>1, <2>3, <2>7, <2>9, <2>10
<1>5. N \in T
  <2>1. 0 \in T
    <3>1. SubSeq(dd, 1, 0) = <<>> /\ End(0) - m = 0 /\ 0 \in 0..N
      BY <1>2, <1>3
    <3>2. FlattenSeq(<<>>) = <<>> /\ Bytes(m, 0) = <<>>
      BY DEF FlattenSeq, Bytes
    <3> DEFINE x == End(0) - m
    <3>3. x = 0
      BY <3>1
    <3>4. FlattenSeq(SubSeq(dd, 1, 0)) = Bytes(m, x)
      <4> HIDE DEF x
      <4> QED
        BY <3>1, <3>2, <3>3
    <3> HIDE DEF End
    <3> QED
      BY <3>1, <3>3, <3>4
  <2> HIDE DEF T
  <2>2. 0..N \subseteq T
    BY <1>2, <1>4, <2>1, Induction
  <2> QED
    BY <1>2, <2>2
<1>6. FlattenSeq(dd) = Bytes(m, produced - m) /\ produced - m \in Nat
  <2>1. SubSeq(dd, 1, N) = dd
    BY <1>2, <1>3
  <2>2. End(N) = produced
    BY <1>1, <1>2 DEF Placed, LastByte, N, m
  <2> HIDE DEF End
  <2> QED
    BY <1>5, <2>1, <2>2
<1>7. buf \o FlattenSeq(dd) = Bytes(Base, produced - Base) /\ produced - Base \in Nat
  <2>1. buf = Bytes(Base, Len(buf))
    BY <1>1, <1>2, InOrderBytes DEF Placed
  <2>2. produced \in Int /\ (produced - m) + Len(buf) = produced - Base
    BY <1>1, <1>2 DEF Typed, m
  <2>3. Bytes(Base, Len(buf)) \o Bytes(Base + Len(buf), produced - m)
          = Bytes(Base, Len(buf) + (produced - m))
    <3> DEFINE a == Len(buf)
               b == produced - m
    <3>1. Base \in Nat /\ a \in Nat /\ b \in Nat
      BY <1>2, <1>6
    <3> HIDE DEF a, b
    <3>2. Bytes(Base, a) \o Bytes(Base + a, b) = Bytes(Base, a + b)
      BY <3>1, BytesJoin
    <3> QED
      BY <3>2 DEF a, b
  <2>4. produced - Base \in Nat
    BY <1>2, <1>6, <2>2
  <2>5. buf \o Bytes(m, produced - m) = Bytes(Base, (produced - m) + Len(buf))
    <3>1. Len(buf) + (produced - m) = (produced - m) + Len(buf)
      BY <1>2, <1>6
    <3> QED
      BY <2>1, <2>3, <3>1, Zenon DEF m
  <2> QED
    BY <1>6, <2>2, <2>4, <2>5, Zenon
<1>8. sentlen <= produced - Base
  <2>1. produced - Base = (produced - m) + Len(buf) /\ produced \in Int
    BY <1>1, <1>2 DEF Typed, m
  <2>2. CASE buf # <<>>
    <3>1. sentlen < Len(buf)
      BY <1>1, <2>2 DEF SentlenInHead, HeadLen, clientHasPendingReplies
    <3> QED
      BY <1>2, <1>6, <2>1, <3>1
  <2>3. CASE buf = <<>> /\ reply # <<>>
    <3>1. sentlen < Len(reply[1].data)
      BY <1>1, <2>3 DEF SentlenInHead, HeadLen, clientHasPendingReplies
    <3>2. N # 0 /\ 1 \in 1..N
      <4>1. reply \in Seq(Block)
        BY <1>1 DEF Typed
      <4> HIDE DEF Block
      <4> QED
        BY <2>3, <4>1 DEF N
    <3>3. produced - m >= Len(reply[1].data) /\ Len(reply[1].data) \in Nat
      <4>1. End(N) = produced
        BY <1>1, <1>2, <3>2 DEF Placed, LastByte, N
      <4>2. N # 0 => End(N) - m >= Len(reply[1].data)
        BY <1>5
      <4> HIDE DEF End
      <4> QED
        BY <1>2, <3>2, <4>1, <4>2
    <3> QED
      BY <1>2, <1>6, <2>1, <3>1, <3>3
  <2>4. CASE buf = <<>> /\ reply = <<>>
    <3>1. sentlen = 0
      BY <1>1, <2>4 DEF SentlenInHead, clientHasPendingReplies
    <3> QED
      BY <1>7, <3>1
  <2> QED
    BY <2>2, <2>3, <2>4
<1>9. Unsent = SubSeq(buf \o FlattenSeq(dd), sentlen + 1, Len(buf \o FlattenSeq(dd)))
  BY DEF Unsent, dd, N
<1>10. Base + sentlen = Len(wire)
  BY <1>2 DEF Base
<1> DEFINE rest == (produced - Base) - sentlen
<1>11. rest \in Nat /\ sentlen + rest = produced - Base /\ rest = produced - Len(wire)
  <2> DEFINE b == Base
  <2>1. produced \in Int /\ b \in Nat /\ sentlen \in Nat
    BY <1>1, <1>2 DEF Typed
  <2>2. sentlen <= produced - b /\ b + sentlen = Len(wire)
    BY <1>8, <1>10
  <2>3. rest = (produced - b) - sentlen /\ b = Base
    OBVIOUS
  <2> HIDE DEF b, rest
  <2>4. rest \in Nat /\ sentlen + rest = produced - b /\ rest = produced - Len(wire)
    BY <2>1, <2>2, <2>3
  <2> QED
    BY <2>3, <2>4
<1>12. Len(Bytes(Base, produced - Base)) = produced - Base
  BY <1>2, <1>7, BytesType
<1> HIDE DEF rest
<1>13. SubSeq(Bytes(Base, sentlen + rest), sentlen + 1, sentlen + rest)
         = Bytes(Base + sentlen, rest)
  <2> DEFINE a == sentlen
             b == Base
  <2>1. a \in Nat /\ b \in Nat /\ rest \in Nat
    BY <1>2, <1>11
  <2> HIDE DEF a, b
  <2>2. SubSeq(Bytes(b, a + rest), a + 1, a + rest) = Bytes(b + a, rest)
    BY <2>1, BytesDrop
  <2> QED
    BY <2>2 DEF a, b
<1> QED
  BY <1>7, <1>9, <1>10, <1>11, <1>12, <1>13

(* What the step of the buffers is to their client.                        *)
LEMMA StreamStep ==
  ASSUME IInv, [Next]_vars
  PROVE  \/ /\ Live /\ Live' /\ wire' = wire
            /\ \E n \in ReplyLens : produced' = produced + n
         \/ /\ Live /\ Live' /\ produced' = produced
            /\ Len(wire') \in Nat /\ Len(wire') > Len(wire)
         \/ Live /\ ~Live' /\ wire' = wire
         \/ Live' = Live /\ wire' = wire /\ produced' = produced
<1>0. Typed
  BY DEF IInv
<1>1. CASE \E n \in ReplyLens : addReply(n)
  BY <1>1 DEF addReply, Live
<1>2. CASE writeBuf \/ writeHeadBlock
  <2>1. /\ wire \in Seq(Nat) /\ sentlen \in Nat /\ SndFree \in Int
        /\ buf \in Seq(Nat) /\ (reply # <<>> => reply[1].data \in Seq(Nat))
    <3>1. wire \in Seq(Nat) /\ sentlen \in Nat /\ buf \in Seq(Nat) /\ reply \in Seq(Block)
      BY <1>0 DEF Typed
    <3>2. SndFree \in Int
      BY <1>0, SizesAssumption DEF SndFree, Typed
    <3>3. reply # <<>> => reply[1] \in Block
      <4> HIDE DEF Block
      <4> QED
        BY <3>1
    <3> QED
      BY <3>1, <3>2, <3>3 DEF Block
  <2>2. PICK s \in {buf, reply[1].data} : \E k \in 1..Len(s) :
          /\ s \in Seq(Nat) /\ connWriteAccepts(Len(s) - sentlen, k)
          /\ wire' = wire \o SubSeq(s, sentlen + 1, sentlen + k)
          /\ accountWritten(k)
    BY <1>2, <2>1 DEF writeBuf, writeHeadBlock
  <2>3. PICK k \in 1..Len(s) :
          /\ s \in Seq(Nat) /\ connWriteAccepts(Len(s) - sentlen, k)
          /\ wire' = wire \o SubSeq(s, sentlen + 1, sentlen + k)
          /\ accountWritten(k)
    BY <2>2
  <2>4. k \in Nat /\ k >= 1 /\ k <= Len(s) - sentlen
    <3>1. Len(s) - sentlen \in Int
      BY <2>1, <2>3
    <3> QED
      BY <2>1, <2>3, <3>1, AcceptedBound
  <2>5. Len(wire') = Len(wire) + k /\ Len(wire) \in Nat
    <3>1. Len(SubSeq(s, sentlen + 1, sentlen + k)) = k
      BY <2>1, <2>3, <2>4
    <3>2. SubSeq(s, sentlen + 1, sentlen + k) \in Seq(Nat)
      BY <2>1, <2>3, <2>4
    <3> QED
      BY <2>1, <2>3, <3>1, <3>2
  <2>6. Live /\ Live' /\ produced' = produced
    BY <1>2, <2>3 DEF writeBuf, writeHeadBlock, accountWritten, Live
  <2> QED
    BY <2>4, <2>5, <2>6
<1>3. CASE startWrite \/ peerAcks \/ peerResets \/ UNCHANGED vars
  BY <1>3 DEF startWrite, peerAcks, peerResets, vars, contents, Live
<1>4. CASE writeFailed \/ writeKilled \/ finishWrite \/ handlerFires
  BY <1>4 DEF writeFailed, writeKilled, finishWrite, handlerFires, contents, Live,
              PhaseAfterError, LoopEnded
<1>5. CASE reapClient
  BY <1>5 DEF reapClient, Live
<1> QED
  BY <1>1, <1>2, <1>3, <1>4, <1>5 DEF Next, Write

(* The buffers of a client are a stream of bytes: each step of the code    *)
(* adds bytes at its tail, takes some off its head, loses the connection   *)
(* with all of it, or leaves it as it is.                                  *)
THEOREM ImplementsStream == Spec => StreamSpec
<1> DEFINE rest == produced - Len(wire)
           pend == IF Live THEN Unsent ELSE <<>>
<1>1. Init => Stream!Init
  <2> SUFFICES ASSUME Init PROVE Stream!Init
    OBVIOUS
  <2>1. Live /\ wire = <<>>
    BY DEF Init, Live
  <2>2. Unsent = <<>>
    <3>1. produced - Len(wire) = 0
      <4>1. produced = 0 /\ Len(wire) = 0
        BY DEF Init
      <4> QED
        BY <4>1
    <3>2. Unsent = Bytes(Len(wire), produced - Len(wire))
      BY <2>1, InitIInv, UnsentBytes
    <3> QED
      BY <3>1, <3>2 DEF Bytes
  <2> QED
    BY <2>1, <2>2 DEF Stream!Init
<1> DEFINE Rest ==
             IInv /\ Live => /\ rest \in Nat /\ Len(wire) + rest = produced
                             /\ pend = Bytes(Len(wire), rest)
<1>0. Rest
  <2>1. ASSUME IInv, Live
        PROVE  /\ rest \in Nat /\ Len(wire) + rest = produced
               /\ pend = Bytes(Len(wire), rest)
    <3>1. rest \in Nat /\ Unsent = Bytes(Len(wire), rest)
      BY <2>1, UnsentBytes
    <3>2. Len(wire) \in Nat /\ produced \in Nat
      <4>1. wire \in Seq(Nat) /\ produced \in Nat
        BY <2>1 DEF IInv, Typed
      <4> QED
        BY <4>1
    <3> QED
      BY <2>1, <3>1, <3>2
  <2> QED
    BY <2>1
<1>4. Rest'
  <2> HIDE DEF Rest
  <2> QED
    BY <1>0, PTL
<1>2. IInv /\ IInv' /\ [Next]_vars => [Stream!Next]_(Stream!vars)
  <2> SUFFICES ASSUME IInv, IInv', [Next]_vars
               PROVE  [Stream!Next]_(Stream!vars)
    OBVIOUS
  <2>1. /\ Len(wire) \in Nat /\ wire \in Seq(Nat) /\ wire = Bytes(0, Len(wire))
        /\ produced \in Nat
    <3>1. wire \in Seq(Nat) /\ produced \in Nat /\ InOrder(wire, 0)
      BY DEF IInv, Typed, WireInOrder, InOrder
    <3> QED
      BY <3>1, InOrderBytes
  <2>2. /\ Len(wire') \in Nat /\ wire' = Bytes(0, Len(wire'))
    <3>1. wire' \in Seq(Nat) /\ InOrder(wire', 0)
      BY DEF IInv, Typed, WireInOrder, InOrder
    <3> QED
      BY <3>1, InOrderBytes
  <2>3. Live => /\ rest \in Nat /\ Len(wire) + rest = produced
                /\ pend = Bytes(Len(wire), rest) /\ Len(pend) = rest
    BY <1>0, <2>1, BytesType
  <2>4. Live' => /\ rest' \in Nat /\ Len(wire') + rest' = produced'
                 /\ pend' = Bytes(Len(wire'), rest')
    BY <1>4
  <2> HIDE DEF rest
  <2>5. CASE /\ Live /\ Live' /\ wire' = wire
             /\ \E n \in ReplyLens : produced' = produced + n
    <3>1. PICK n \in ReplyLens : produced' = produced + n
      BY <2>5
    <3>2. n \in Nat /\ rest' = rest + n
      <4>1. n \in Nat
        BY ReplyLensAssumption
      <4>2. Len(wire) + rest = produced /\ rest \in Nat /\ rest' \in Nat
        BY <2>3, <2>4, <2>5
      <4>3. Len(wire) + rest' = produced + n
        BY <2>4, <2>5, <3>1
      <4> QED
        BY <2>1, <4>1, <4>2, <4>3
    <3>3. Bytes(Len(wire), rest) \o Bytes(Len(wire) + rest, n) = Bytes(Len(wire), rest + n)
      BY <2>1, <2>3, <2>5, <3>2, BytesJoin
    <3>4. [i \in 1..n |-> Len(wire) + Len(pend) + i] = Bytes(Len(wire) + rest, n)
      BY <2>3, <2>5 DEF Bytes
    <3> HIDE DEF pend
    <3>5. pend' = pend \o [i \in 1..n |-> Len(wire) + Len(pend) + i]
      BY <2>3, <2>4, <2>5, <3>2, <3>3, <3>4
    <3>6. Stream!Produce(n)
      BY <2>5, <3>5 DEF Stream!Produce, pend
    <3> QED
      BY <3>6 DEF Stream!Next
  <2>6. CASE /\ Live /\ Live' /\ produced' = produced
             /\ Len(wire') \in Nat /\ Len(wire') > Len(wire)
    <3> DEFINE d == Len(wire') - Len(wire)
    <3>0. d \in Nat \ {0} /\ Len(wire') = Len(wire) + d
      BY <2>1, <2>6
    <3> HIDE DEF d
    <3>1. PICK k \in Nat \ {0} : Len(wire') = Len(wire) + k
      BY <3>0
    <3>2. rest = k + rest' /\ rest' \in Nat /\ rest \in Nat /\ k \in 1..rest
      BY <2>1, <2>3, <2>4, <2>6, <3>1
    <3> DEFINE m == Len(wire)
               r == rest'
    <3>6. m \in Nat /\ r \in Nat /\ k \in Nat /\ 0 \in Nat
      BY <2>1, <3>2
    <3>7. /\ SubSeq(Bytes(m, k + r), 1, k) = Bytes(m, k)
          /\ SubSeq(Bytes(m, k + r), k + 1, k + r) = Bytes(m + k, r)
          /\ Bytes(0, m) \o Bytes(0 + m, k) = Bytes(0, m + k)
      <4> HIDE DEF m, r
      <4>1. SubSeq(Bytes(m, k + r), 1, k) = Bytes(m, k)
        BY <3>6, BytesTake
      <4>2. SubSeq(Bytes(m, k + r), k + 1, k + r) = Bytes(m + k, r)
        BY <3>6, BytesDrop
      <4>3. Bytes(0, m) \o Bytes(0 + m, k) = Bytes(0, m + k)
        BY <3>6, BytesJoin
      <4> QED
        BY <4>1, <4>2, <4>3
    <3>8. pend = Bytes(m, k + r) /\ Len(pend) = k + r /\ 0 + m = m
      <4>1. rest = k + r /\ m = Len(wire)
        BY <3>2
      <4> HIDE DEF r, pend
      <4> QED
        BY <2>3, <2>6, <3>6, <4>1
    <3>9. pend' = Bytes(m + k, r) /\ wire' = Bytes(0, m + k) /\ wire = Bytes(0, m)
      BY <2>1, <2>2, <2>4, <2>6, <3>1
    <3> HIDE DEF pend, m, r
    <3>3. wire' = wire \o SubSeq(pend, 1, k)
      BY <3>7, <3>8, <3>9
    <3>4. pend' = SubSeq(pend, k + 1, Len(pend))
      BY <3>7, <3>8, <3>9
    <3>5. Stream!Send(k)
      BY <2>6, <3>3, <3>4 DEF Stream!Send, pend
    <3>10. k \in 1..Len(pend)
      BY <2>3, <2>6, <3>2
    <3> QED
      BY <3>5, <3>10 DEF Stream!Next, pend
  <2>7. CASE Live /\ ~Live' /\ wire' = wire
    BY <2>7 DEF Stream!Lose, Stream!Next
  <2>8. CASE Live' = Live /\ wire' = wire /\ produced' = produced
    <3>1. pend' = pend
      BY <2>1, <2>3, <2>4, <2>8 DEF rest
    <3> QED
      BY <2>8, <3>1 DEF Stream!vars
  <2> QED
    BY <2>5, <2>6, <2>7, <2>8, StreamStep
<1>3. Spec => []IInv
  BY InvariantIInv
<1> QED
  <2> HIDE DEF IInv
  <2> QED
    BY <1>1, <1>2, <1>3, PTL DEF Spec, StreamSpec, Stream!Spec

=============================================================================
