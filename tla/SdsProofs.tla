------------------------------ MODULE SdsProofs ------------------------------
(***************************************************************************)
(* Theorems about Sds: a string is well housed and its content is what was *)
(* promised, for any limits of the headers, any texts and any calls.       *)
(***************************************************************************)
EXTENDS Sds, Facts

Byte == 0..255
Cell == -1..255

(* A string in its header and its block; and with content c, its           *)
(* terminator behind it.                                                   *)
Housed(x) ==
  /\ x.type \in 0..4 /\ x.len \in Nat /\ x.len < Limit[x.type + 1]
  /\ x.buf \in Seq(Cell) /\ x.len < Len(x.buf)
  /\ x.heap = sdsHdrSize(x.type) + Len(x.buf)
  /\ x.type # 0 =>
       x.alloc \in Nat /\ x.alloc < Limit[x.type + 1] /\ Len(x.buf) = x.alloc + 1

Holds(x, c) ==
  /\ Housed(x) /\ c \in Seq(Cell) /\ Len(c) = x.len
  /\ \A j \in 1..Len(c) : x.buf[j] = c[j]
  /\ x.buf[x.len + 1] = 0

LEMMA Fields ==
  ASSUME NEW t, NEW l, NEW a, NEW h, NEW b
  PROVE  LET x == Str(t, l, a, h, b) IN
         x.type = t /\ x.len = l /\ x.alloc = a /\ x.heap = h /\ x.buf = b
  BY DEF Str

-----------------------------------------------------------------------------
(* The header.                                                             *)
LEMMA Limits ==
  /\ \A t \in 0..4 : Limit[t + 1] \in Nat \ {0}
  /\ Limit[1] < Limit[2] /\ Limit[2] < Limit[3] /\ Limit[3] < Limit[4] /\ Limit[4] < Limit[5]
  /\ MaxLen \in Nat /\ MaxPrealloc \in Nat \ {0}
  /\ 2 * MaxLen < Limit[5] /\ MaxLen + MaxPrealloc < Limit[5]
<1>1. \A t \in 1..5 : Limit[t] \in Nat \ {0}
  BY SdsAssumption
<1>2. \A t \in 0..4 : t + 1 \in 1..5
  OBVIOUS
<1>3. \A t \in 1..4 : Limit[t] < Limit[t + 1]
  BY SdsAssumption
<1>4. Limit[1] < Limit[2] /\ Limit[2] < Limit[3] /\ Limit[3] < Limit[4] /\ Limit[4] < Limit[5]
  BY <1>3
<1>5. PICK m \in Nat : m = MaxLen
  BY SdsAssumption
<1>6. PICK p \in Nat \ {0} : p = MaxPrealloc
  BY SdsAssumption
<1>7. 2 * m + p < Limit[5] /\ Limit[5] \in Nat
  BY <1>1, <1>5, <1>6, SdsAssumption
<1>8. 2 * m < Limit[5] /\ m + p < Limit[5]
  BY <1>7
<1> QED
  BY <1>1, <1>2, <1>4, <1>5, <1>6, <1>8

LEMMA HdrSizeIs ==
  ASSUME NEW t \in 0..4
  PROVE  sdsHdrSize(t) \in Nat
  BY DEF sdsHdrSize

LEMMA SmallSets ==
  /\ Cardinality({}) = 0 /\ Cardinality({0}) = 1 /\ Cardinality({0} \cup {1}) = 2
  /\ Cardinality({0} \cup {1} \cup {2}) = 3
  /\ Cardinality({0} \cup {1} \cup {2} \cup {3}) = 4
<1>1. Cardinality({}) = 0
  BY FS_EmptySet
<1>2. IsFiniteSet({0}) /\ Cardinality({0}) = 1
  BY FS_Singleton
<1>3. IsFiniteSet({0} \cup {1}) /\ Cardinality({0} \cup {1}) = 2
  BY <1>2, FS_AddElement
<1>4. IsFiniteSet({0} \cup {1} \cup {2}) /\ Cardinality({0} \cup {1} \cup {2}) = 3
  BY <1>3, FS_AddElement
<1>5. Cardinality({0} \cup {1} \cup {2} \cup {3}) = 4
  BY <1>4, FS_AddElement
<1> QED
  BY <1>1, <1>2, <1>3, <1>4, <1>5

LEMMA ReqTypeIs ==
  ASSUME NEW n \in Nat, n < Limit[5]
  PROVE  sdsReqType(n) \in 0..4 /\ n < Limit[sdsReqType(n) + 1]
<1> DEFINE S == {t \in 0..3 : n >= Limit[t + 1]}
<1>1. sdsReqType(n) = Cardinality(S)
  BY DEF sdsReqType
<1>2. PICK a \in Nat : a = Limit[1]
  BY Limits
<1>3. PICK b \in Nat : b = Limit[2]
  BY Limits
<1>4. PICK c \in Nat : c = Limit[3]
  BY Limits
<1>5. PICK d \in Nat : d = Limit[4]
  BY Limits
<1>6. a < b /\ b < c /\ c < d
  BY <1>2, <1>3, <1>4, <1>5, Limits
<1>7. \A t : t \in S <=>
        (t = 0 /\ n >= a) \/ (t = 1 /\ n >= b) \/ (t = 2 /\ n >= c) \/ (t = 3 /\ n >= d)
  BY <1>2, <1>3, <1>4, <1>5
<1> HIDE DEF S
<1>8. CASE n < a
  <2>1. S = {}
    BY <1>6, <1>7, <1>8
  <2> QED
    BY <1>1, <1>2, <1>8, <2>1, SmallSets
<1>9. CASE n >= a /\ n < b
  <2>1. S = {0}
    BY <1>6, <1>7, <1>9
  <2> QED
    BY <1>1, <1>3, <1>9, <2>1, SmallSets
<1>10. CASE n >= b /\ n < c
  <2>1. S = {0} \cup {1}
    BY <1>6, <1>7, <1>10
  <2> QED
    BY <1>1, <1>4, <1>10, <2>1, SmallSets
<1>11. CASE n >= c /\ n < d
  <2>1. S = {0} \cup {1} \cup {2}
    BY <1>6, <1>7, <1>11
  <2> QED
    BY <1>1, <1>5, <1>11, <2>1, SmallSets
<1>12. CASE n >= d
  <2>1. S = {0} \cup {1} \cup {2} \cup {3}
    BY <1>6, <1>7, <1>12
  <2> QED
    BY <1>1, <2>1, SmallSets
<1> QED
  BY <1>8, <1>9, <1>10, <1>11, <1>12

LEMMA FieldIs ==
  ASSUME NEW x, x.type \in 0..4, NEW n \in Nat, n < Limit[x.type + 1]
  PROVE  Field(x, n) = n
<1>1. PICK m \in Nat \ {0} : m = Limit[x.type + 1]
  BY Limits
<1>2. n % m = n
  BY <1>1
<1> QED
  BY <1>1, <1>2 DEF Field

LEMMA SetLen ==
  ASSUME NEW x, Housed(x), NEW n \in Nat, n < Limit[x.type + 1], n < Len(x.buf)
  PROVE  LET y == sdssetlen(x, n) IN
         /\ Housed(y) /\ y.len = n /\ y.buf = x.buf /\ y.type = x.type /\ y.alloc = x.alloc
<1> DEFINE y == sdssetlen(x, n)
<1>1. x.type \in 0..4
  BY DEF Housed
<1>2. y = Str(x.type, n, x.alloc, x.heap, x.buf)
  BY <1>1, FieldIs DEF sdssetlen
<1> HIDE DEF y
<1>3. /\ y.type = x.type /\ y.len = n /\ y.alloc = x.alloc /\ y.heap = x.heap
      /\ y.buf = x.buf
  BY <1>2, Fields
<1>4. Housed(y)
  BY <1>3 DEF Housed
<1> QED
  BY <1>3, <1>4 DEF y

-----------------------------------------------------------------------------
(* The buffer.                                                             *)
LEMMA Written ==
  ASSUME NEW x, Housed(x), NEW i \in Nat, NEW t \in Seq(Cell), i + Len(t) <= Len(x.buf)
  PROVE  LET y == Write(x, i, t) IN
         /\ Housed(y) /\ y.len = x.len /\ y.type = x.type /\ y.alloc = x.alloc
         /\ Len(y.buf) = Len(x.buf)
         /\ \A j \in 1..Len(x.buf) :
              y.buf[j] = IF j > i /\ j <= i + Len(t) THEN t[j - i] ELSE x.buf[j]
<1> DEFINE end == i + Len(t)
           b == x.buf
           m == Max({end, Len(b)})
           old == [j \in 1..m |-> IF j <= Len(b) THEN b[j] ELSE Garbage]
           new == [j \in DOMAIN old |-> IF j > i /\ j <= end THEN t[j - i] ELSE old[j]]
           y == Write(x, i, t)
<1>1. b \in Seq(Cell) /\ Len(b) \in Nat /\ DOMAIN b = 1..Len(b)
  BY DEF Housed
<1>2. Len(t) \in Nat /\ end \in Nat /\ end <= Len(b)
  BY <1>1
<1> HIDE DEF b, end
<1>3. m = Len(b)
  <2>1. \E p \in {end, Len(b)} : \A q \in {end, Len(b)} : p >= q
    BY <1>1, <1>2
  <2>2. m \in {end, Len(b)} /\ \A q \in {end, Len(b)} : m >= q
    BY <2>1 DEF Max
  <2> QED
    BY <1>1, <1>2, <2>2
<1>4. y = Str(x.type, x.len, x.alloc, x.heap, new)
  BY DEF Write, b, end
<1> HIDE DEF y, m
<1>5. old \in [1..Len(b) -> Cell] /\ \A j \in 1..Len(b) : old[j] = b[j]
  BY <1>1, <1>3
<1> HIDE DEF old
<1>6. \A j \in 1..Len(b) : j > i /\ j <= end => j - i \in 1..Len(t)
  BY <1>1, <1>2 DEF end
<1> DEFINE V(j) == IF j > i /\ j <= end THEN t[j - i] ELSE old[j]
<1>7. \A j \in 1..Len(b) : V(j) \in Cell
  BY <1>5, <1>6
<1>8. /\ new \in [1..Len(b) -> Cell]
      /\ \A j \in 1..Len(b) : new[j] = IF j > i /\ j <= end THEN t[j - i] ELSE b[j]
  <2>1. DOMAIN old = 1..Len(b)
    BY <1>5
  <2>2. new = [j \in 1..Len(b) |-> V(j)]
    BY <2>1
  <2>3. \A j \in 1..Len(b) : V(j) = IF j > i /\ j <= end THEN t[j - i] ELSE b[j]
    BY <1>5
  <2>4. new \in [1..Len(b) -> Cell]
    <3> HIDE DEF V
    <3> QED
      BY <1>7, <2>2
  <2>5. \A j \in 1..Len(b) : new[j] = V(j)
    <3> HIDE DEF V
    <3> QED
      BY <2>2
  <2> HIDE DEF new, V
  <2> QED
    BY <2>3, <2>4, <2>5
<1> HIDE DEF new
<1>9. new \in Seq(Cell) /\ Len(new) = Len(b)
  <2>1. Len(b) \in Nat /\ new \in [1..Len(b) -> Cell]
    BY <1>1, <1>8
  <2> HIDE DEF b
  <2> QED
    BY <2>1
<1>10. /\ y.type = x.type /\ y.len = x.len /\ y.alloc = x.alloc /\ y.heap = x.heap
       /\ y.buf = new
  BY <1>4, Fields
<1>11. Housed(y)
  BY <1>9, <1>10 DEF Housed, b
<1> QED
  BY <1>8, <1>9, <1>10, <1>11 DEF y, b, end

LEMMA Ended ==
  ASSUME NEW x, Housed(x), NEW c \in Seq(Cell), Len(c) < Limit[x.type + 1],
         Len(c) < Len(x.buf), \A j \in 1..Len(c) : x.buf[j] = c[j]
  PROVE  LET y == End(x, Len(c)) IN Holds(y, c) /\ y.type = x.type /\ Len(y.buf) = Len(x.buf)
<1> DEFINE n == Len(c)
           e == <<0>>
           w == Write(x, n, e)
           y == sdssetlen(w, n)
<1>1. n \in Nat /\ e \in Seq(Cell) /\ Len(e) = 1 /\ e[1] = 0
  BY DEF Cell
<1>2. x.buf \in Seq(Cell) /\ Len(x.buf) \in Nat
  BY DEF Housed
<1>3. n + 1 <= Len(x.buf) /\ n + Len(e) <= Len(x.buf)
  BY <1>1, <1>2
<1> HIDE DEF n, e
<1>4. /\ Housed(w) /\ w.type = x.type /\ Len(w.buf) = Len(x.buf)
      /\ \A j \in 1..Len(x.buf) :
           w.buf[j] = IF j > n /\ j <= n + Len(e) THEN e[j - n] ELSE x.buf[j]
  BY <1>1, <1>3, Written
<1> HIDE DEF w
<1>5. Housed(y) /\ y.len = n /\ y.buf = w.buf /\ y.type = w.type
  BY <1>1, <1>2, <1>3, <1>4, SetLen DEF n
<1> HIDE DEF y
<1>6. w.buf[n + 1] = 0
  BY <1>1, <1>2, <1>3, <1>4
<1>7. \A j \in 1..n : w.buf[j] = c[j]
  <2>1. \A j \in 1..n : j \in 1..Len(x.buf) /\ ~(j > n)
    BY <1>1, <1>2, <1>3
  <2> QED
    BY <1>4, <2>1 DEF n
<1>8. Holds(y, c)
  BY <1>5, <1>6, <1>7 DEF Holds, n
<1> QED
  BY <1>4, <1>5, <1>8 DEF End, y, w, n, e

(* A block of n cells and one more for the terminator, with what came in   *)
(* from a buffer b.                                                        *)
LEMMA BlockIs ==
  ASSUME NEW t \in 0..4, NEW l, NEW a, NEW n \in Nat, NEW b \in Seq(Cell)
  PROVE  LET y == Block(t, l, a, sdsHdrSize(t) + n + 1, b) IN
         /\ y.type = t /\ y.len = l /\ y.alloc = a
         /\ y.heap = sdsHdrSize(t) + Len(y.buf)
         /\ y.buf \in Seq(Cell) /\ Len(y.buf) = n + 1
         /\ \A j \in 1..(n + 1) : j <= Len(b) => y.buf[j] = b[j]
<1> DEFINE h == sdsHdrSize(t) + n + 1
           m == h - sdsHdrSize(t)
           new == [j \in 1..m |-> IF j <= Len(b) THEN b[j] ELSE Garbage]
           y == Block(t, l, a, h, b)
<1>1. sdsHdrSize(t) \in Nat
  BY HdrSizeIs
<1>2. m = n + 1
  BY <1>1
<1>3. y = Str(t, l, a, h, new)
  BY DEF Block
<1> HIDE DEF y, m
<1>4. \A j \in 1..(n + 1) : (IF j <= Len(b) THEN b[j] ELSE Garbage) \in Cell
  <2>1. Garbage \in Cell
    BY DEF Cell, Garbage
  <2>2. \A j \in 1..(n + 1) : j <= Len(b) => b[j] \in Cell
    OBVIOUS
  <2> QED
    BY <2>1, <2>2
<1>5. /\ new \in [1..(n + 1) -> Cell]
      /\ \A j \in 1..(n + 1) : j <= Len(b) => new[j] = b[j]
  BY <1>2, <1>4
<1> HIDE DEF new
<1>6. new \in Seq(Cell) /\ Len(new) = n + 1
  BY <1>5
<1>7. y.type = t /\ y.len = l /\ y.alloc = a /\ y.heap = h /\ y.buf = new
  BY <1>3, Fields
<1>8. h = sdsHdrSize(t) + Len(new)
  BY <1>1, <1>6
<1> HIDE DEF h
<1>9. /\ y.type = t /\ y.len = l /\ y.alloc = a
      /\ y.heap = sdsHdrSize(t) + Len(y.buf)
      /\ y.buf \in Seq(Cell) /\ Len(y.buf) = n + 1
      /\ \A j \in 1..(n + 1) : j <= Len(b) => y.buf[j] = b[j]
  BY <1>5, <1>6, <1>7, <1>8
<1> QED
  BY <1>9 DEF y, h

(* Nothing else than the alloc field of a new block.                       *)
LEMMA SetAlloc ==
  ASSUME NEW x, x.type \in 0..4, NEW n \in Nat, n < Limit[x.type + 1],
         x.len \in Nat, x.len <= n, x.buf \in Seq(Cell), Len(x.buf) = n + 1,
         x.heap = sdsHdrSize(x.type) + Len(x.buf)
  PROVE  LET y == sdssetalloc(x, n) IN
         /\ Housed(y) /\ y.len = x.len /\ y.type = x.type /\ y.buf = x.buf
<1> DEFINE y == sdssetalloc(x, n)
<1>1. PICK m \in Nat : m = Limit[x.type + 1]
  BY Limits
<1>2. x.len < Limit[x.type + 1] /\ x.len < Len(x.buf)
  BY <1>1
<1>3. CASE x.type = 0
  <2>1. y = x
    BY <1>3 DEF sdssetalloc
  <2> QED
    BY <1>2, <1>3, <2>1 DEF Housed
<1>4. CASE x.type # 0
  <2>1. y = Str(x.type, x.len, n, x.heap, x.buf)
    BY <1>4, FieldIs DEF sdssetalloc
  <2> HIDE DEF y
  <2>2. /\ y.type = x.type /\ y.len = x.len /\ y.alloc = n /\ y.heap = x.heap
        /\ y.buf = x.buf
    BY <2>1, Fields
  <2>3. Housed(y)
    BY <1>2, <2>2 DEF Housed
  <2> QED
    BY <2>2, <2>3 DEF y
<1> QED
  BY <1>3, <1>4

LEMMA NewLen ==
  ASSUME NEW x, x.type \in 0..4, NEW n \in Nat, n < Limit[x.type + 1]
  PROVE  LET y == sdssetlen(x, n) IN
         /\ y.len = n /\ y.type = x.type /\ y.alloc = x.alloc /\ y.heap = x.heap
         /\ y.buf = x.buf
<1> DEFINE y == sdssetlen(x, n)
<1>1. y = Str(x.type, n, x.alloc, x.heap, x.buf)
  BY FieldIs DEF sdssetlen
<1> HIDE DEF y
<1>2. /\ y.len = n /\ y.type = x.type /\ y.alloc = x.alloc /\ y.heap = x.heap
      /\ y.buf = x.buf
  BY <1>1, Fields
<1> QED
  BY <1>2 DEF y

(* The string of a text, which may be one of bytes nobody wrote.           *)
LEMMA NewIs ==
  ASSUME NEW b \in Seq(Cell), Len(b) <= MaxLen
  PROVE  Holds(sdsnewlen(b), b)
<1> DEFINE n == Len(b)
           t == IF n = 0 THEN 1 ELSE sdsReqType(n)
           x == Block(t, 0, 0, sdsHdrSize(t) + n + 1, b)
           y == sdssetlen(x, n)
           z == sdssetalloc(y, n)
<1>1. n \in Nat
  OBVIOUS
<1>2. t \in 0..4 /\ n < Limit[t + 1]
  <2>1. n < Limit[5]
    <3>1. PICK m \in Nat : m = MaxLen
      BY Limits
    <3>2. PICK l \in Nat : l = Limit[5]
      BY Limits
    <3>3. 2 * m < l
      BY <3>1, <3>2, Limits
    <3> QED
      BY <1>1, <3>1, <3>2, <3>3
  <2>2. CASE n = 0
    <3>1. Limit[2] \in Nat \ {0}
      BY Limits
    <3> QED
      BY <2>2, <3>1
  <2>3. CASE n # 0
    BY <1>1, <2>1, <2>3, ReqTypeIs
  <2> QED
    BY <2>2, <2>3
<1>3. sdsnewlen(b) = End(z, n)
  BY DEF sdsnewlen
<1> HIDE DEF t, n
<1>4. /\ x.type = t /\ x.heap = sdsHdrSize(t) + Len(x.buf) /\ x.buf \in Seq(Cell)
      /\ Len(x.buf) = n + 1 /\ \A j \in 1..(n + 1) : j <= Len(b) => x.buf[j] = b[j]
  BY <1>1, <1>2, BlockIs
<1> HIDE DEF x
<1>5. y.len = n /\ y.type = x.type /\ y.heap = x.heap /\ y.buf = x.buf
  BY <1>1, <1>2, <1>4, NewLen
<1> HIDE DEF y
<1>6. Housed(z) /\ z.type = t /\ z.buf = x.buf
  BY <1>1, <1>2, <1>4, <1>5, SetAlloc
<1> HIDE DEF z
<1>7. \A j \in 1..Len(b) : z.buf[j] = b[j]
  <2>1. \A j \in 1..Len(b) : j \in 1..(n + 1) /\ j <= Len(b)
    BY <1>1 DEF n
  <2> QED
    BY <1>4, <1>6, <2>1
<1>8. Len(b) < Len(z.buf) /\ Len(b) < Limit[z.type + 1]
  BY <1>1, <1>2, <1>4, <1>6 DEF n
<1>9. Holds(End(z, Len(b)), b)
  BY <1>6, <1>7, <1>8, Ended
<1> QED
  BY <1>3, <1>9 DEF n

(* A string in a block of its own header or another.                       *)
LEMMA MovedIs ==
  ASSUME NEW x, NEW c, Holds(x, c), NEW t \in 0..4, NEW n \in Nat,
         Len(c) <= n, n < Limit[t + 1]
  PROVE  LET y == sdssetalloc(Moved(x, t, n), n) IN
         Holds(y, c) /\ y.type = t /\ Len(y.buf) = n + 1
<1> DEFINE h == sdsHdrSize(t) + n + 1
           b == SubSeq(x.buf, 1, x.len + 1)
           m == Moved(x, t, n)
           y == sdssetalloc(m, n)
<1>1. /\ x.buf \in Seq(Cell) /\ Len(x.buf) \in Nat /\ x.len < Len(x.buf) /\ x.len \in Nat
      /\ x.len = Len(c) /\ c \in Seq(Cell)
      /\ \A j \in 1..Len(c) : x.buf[j] = c[j]
      /\ x.buf[x.len + 1] = 0
  BY DEF Holds, Housed
<1>2. /\ m.type = t /\ m.len = x.len /\ m.heap = sdsHdrSize(t) + Len(m.buf)
      /\ m.buf \in Seq(Cell) /\ Len(m.buf) = n + 1
      /\ \A j \in 1..(x.len + 1) : m.buf[j] = x.buf[j]
  <2>1. \A j \in 1..(x.len + 1) : j \in 1..(n + 1) /\ j <= Len(x.buf)
    BY <1>1
  <2>2. CASE t = x.type
    <3> DEFINE z == Block(t, x.len, x.alloc, h, x.buf)
    <3>1. m = z
      BY <2>2 DEF Moved
    <3>2. /\ z.type = t /\ z.len = x.len /\ z.heap = sdsHdrSize(t) + Len(z.buf)
          /\ z.buf \in Seq(Cell) /\ Len(z.buf) = n + 1
          /\ \A j \in 1..(n + 1) : j <= Len(x.buf) => z.buf[j] = x.buf[j]
      <4>1. PICK q \in Seq(Cell) : q = x.buf
        BY <1>1
      <4> DEFINE o == Block(t, x.len, x.alloc, h, q)
      <4>2. /\ o.type = t /\ o.len = x.len /\ o.heap = sdsHdrSize(t) + Len(o.buf)
            /\ o.buf \in Seq(Cell) /\ Len(o.buf) = n + 1
            /\ \A j \in 1..(n + 1) : j <= Len(q) => o.buf[j] = q[j]
        BY BlockIs
      <4> HIDE DEF o
      <4>3. z = o
        BY <4>1 DEF o
      <4> HIDE DEF z
      <4> QED
        BY <4>1, <4>2, <4>3
    <3> HIDE DEF z, m
    <3> QED
      BY <2>1, <3>1, <3>2
  <2>3. CASE t # x.type
    <3> DEFINE z == Block(t, 0, 0, h, b)
    <3>1. m = sdssetlen(z, x.len)
      BY <2>3 DEF Moved
    <3>2. /\ b \in Seq(Cell) /\ Len(b) = x.len + 1
          /\ \A j \in 1..(x.len + 1) : b[j] = x.buf[j]
      BY <1>1
    <3> HIDE DEF b
    <3>3. /\ z.type = t /\ z.heap = sdsHdrSize(t) + Len(z.buf)
          /\ z.buf \in Seq(Cell) /\ Len(z.buf) = n + 1
          /\ \A j \in 1..(n + 1) : j <= Len(b) => z.buf[j] = b[j]
      BY <3>2, BlockIs
    <3> HIDE DEF z, m
    <3>4. x.len < Limit[t + 1]
      <4>1. PICK l \in Nat : l = Limit[t + 1]
        BY Limits
      <4> QED
        BY <1>1, <4>1
    <3>5. m.len = x.len /\ m.type = t /\ m.heap = z.heap /\ m.buf = z.buf
      BY <1>1, <3>1, <3>3, <3>4, NewLen
    <3> QED
      BY <2>1, <3>2, <3>3, <3>5
  <2> QED
    BY <2>2, <2>3
<1> HIDE DEF m
<1>3. Housed(y) /\ y.len = x.len /\ y.type = t /\ y.buf = m.buf
  <2>1. /\ m.type \in 0..4 /\ n < Limit[m.type + 1] /\ m.len \in Nat /\ m.len <= n
        /\ m.buf \in Seq(Cell) /\ Len(m.buf) = n + 1
        /\ m.heap = sdsHdrSize(m.type) + Len(m.buf)
    BY <1>1, <1>2
  <2>2. Housed(y) /\ y.len = m.len /\ y.type = m.type /\ y.buf = m.buf
    BY <2>1, SetAlloc
  <2> QED
    BY <1>2, <2>2
<1> HIDE DEF y
<1>4. \A j \in 1..Len(c) : j \in 1..(x.len + 1)
  BY <1>1
<1>5. x.len + 1 \in 1..(x.len + 1)
  BY <1>1
<1>6. Holds(y, c)
  BY <1>1, <1>2, <1>3, <1>4, <1>5 DEF Holds
<1> QED
  BY <1>2, <1>3, <1>6 DEF y, m

LEMMA GreaterOfTwo ==
  ASSUME NEW a \in Int, NEW b \in Int
  PROVE  Max({a, b}) \in {a, b} /\ Max({a, b}) >= a /\ Max({a, b}) >= b
<1>1. \E x \in {a, b} : \A y \in {a, b} : x >= y
  OBVIOUS
<1>2. Max({a, b}) \in {a, b} /\ \A y \in {a, b} : Max({a, b}) >= y
  BY <1>1 DEF Max
<1> QED
  BY <1>2

LEMMA LesserOfTwo ==
  ASSUME NEW a \in Int, NEW b \in Int
  PROVE  Min({a, b}) \in {a, b} /\ Min({a, b}) <= a /\ Min({a, b}) <= b
<1>1. \E x \in {a, b} : \A y \in {a, b} : x <= y
  OBVIOUS
<1>2. Min({a, b}) \in {a, b} /\ \A y \in {a, b} : Min({a, b}) <= y
  BY <1>1 DEF Min
<1> QED
  BY <1>2

(* Room for what is to be added, in a header that can tell the length.     *)
Roomy(y, add) ==
  /\ y.len + add < Len(y.buf) /\ y.len + add < Limit[y.type + 1]
  /\ add # 0 => y.type # 0

LEMMA NewSize ==
  ASSUME NEW need \in Nat, need <= MaxLen
  PROVE  LET new == IF need < MaxPrealloc THEN need * 2 ELSE need + MaxPrealloc
             t == Max({1, sdsReqType(new)})
         IN new \in Nat /\ need <= new /\ t \in 1..4 /\ new < Limit[t + 1]
<1> DEFINE new == IF need < MaxPrealloc THEN need * 2 ELSE need + MaxPrealloc
           r == sdsReqType(new)
           t == Max({1, r})
<1>1. PICK m \in Nat : m = MaxLen
  BY Limits
<1>2. PICK p \in Nat : p = MaxPrealloc
  BY Limits
<1>3. PICK l \in Nat : l = Limit[5]
  BY Limits
<1>4. 2 * m < l /\ m + p < l
  BY <1>1, <1>2, <1>3, Limits
<1>5. new \in Nat /\ need <= new /\ new < l
  <2>1. new = IF need < p THEN need * 2 ELSE need + p
    BY <1>2
  <2> HIDE DEF new
  <2>2. need <= m
    BY <1>1
  <2> QED
    BY <1>4, <2>1, <2>2
<1> HIDE DEF new
<1>6. r \in 0..4 /\ new < Limit[r + 1]
  BY <1>3, <1>5, ReqTypeIs
<1> HIDE DEF r
<1>7. t \in {1, r} /\ t >= 1 /\ t >= r
  <2>1. 1 \in Int /\ r \in Int
    BY <1>6
  <2> QED
    BY <2>1, GreaterOfTwo
<1>8. t \in 1..4
  BY <1>6, <1>7
<1>9. new < Limit[t + 1]
  <2>1. CASE t = r
    BY <1>6, <2>1
  <2>2. CASE t = 1 /\ r = 0
    <3>1. PICK a \in Nat : a = Limit[1]
      BY Limits
    <3>2. PICK b \in Nat : b = Limit[2]
      BY Limits
    <3>3. a < b /\ new < a
      BY <1>6, <2>2, <3>1, <3>2, Limits
    <3> QED
      BY <1>5, <2>2, <3>2, <3>3
  <2> QED
    BY <1>6, <1>7, <2>1, <2>2
<1> QED
  BY <1>5, <1>8, <1>9 DEF new, r, t

LEMMA RoomIs ==
  ASSUME NEW x, NEW c, Holds(x, c), NEW add \in Nat, Len(c) + add <= MaxLen
  PROVE  LET y == sdsMakeRoomFor(x, add) IN Holds(y, c) /\ Roomy(y, add)
<1> DEFINE need == x.len + add
           new == IF need < MaxPrealloc THEN need * 2 ELSE need + MaxPrealloc
           t == Max({1, sdsReqType(new)})
           y == sdsMakeRoomFor(x, add)
<1>1. x.len = Len(c) /\ Len(c) \in Nat /\ Housed(x)
  BY DEF Holds
<1>2. CASE HasRoom(x, add)
  <2>1. y = x
    BY <1>2 DEF sdsMakeRoomFor
  <2>2. /\ x.type \in 0..4 /\ Len(x.buf) \in Nat /\ x.len < Len(x.buf)
        /\ x.len < Limit[x.type + 1] /\ x.len \in Nat
    BY <1>1 DEF Housed
  <2>3. CASE x.type = 0
    <3>1. add = 0
      BY <1>2, <2>3 DEF HasRoom, sdsavail
    <3> QED
      BY <2>1, <2>2, <3>1 DEF Roomy
  <2>4. CASE x.type # 0
    <3>1. PICK a \in Nat : a = x.alloc
      BY <1>1, <2>4 DEF Housed
    <3>2. Len(x.buf) = a + 1
      BY <1>1, <2>4, <3>1 DEF Housed
    <3>3. a - x.len >= add
      BY <1>2, <2>4, <3>1 DEF HasRoom, sdsavail
    <3>4. PICK l \in Nat : l = Limit[x.type + 1]
      BY <2>2, Limits
    <3>5. a < l
      BY <1>1, <2>4, <3>1, <3>4 DEF Housed
    <3>6. x.len + add < Len(x.buf) /\ x.len + add < l
      BY <2>2, <3>2, <3>3, <3>5
    <3>7. Roomy(x, add)
      BY <2>4, <3>4, <3>6 DEF Roomy
    <3> QED
      BY <2>1, <3>7
  <2> QED
    BY <2>3, <2>4
<1>3. CASE ~HasRoom(x, add)
  <2>1. y = sdssetalloc(Moved(x, t, new), new)
    BY <1>3 DEF sdsMakeRoomFor
  <2>2. need \in Nat /\ need <= MaxLen
    BY <1>1
  <2> HIDE DEF need
  <2>3. new \in Nat /\ need <= new /\ t \in 1..4 /\ new < Limit[t + 1]
    BY <2>2, NewSize
  <2> HIDE DEF new, t
  <2>4. Len(c) <= new /\ t \in 0..4 /\ t # 0
    BY <1>1, <2>2, <2>3 DEF need
  <2>5. LET z == sdssetalloc(Moved(x, t, new), new) IN
        Holds(z, c) /\ z.type = t /\ Len(z.buf) = new + 1
    BY <2>3, <2>4, MovedIs
  <2>6. Holds(y, c) /\ y.type = t /\ Len(y.buf) = new + 1 /\ y.len = x.len
    BY <1>1, <2>1, <2>5 DEF Holds
  <2> HIDE DEF y
  <2>7. PICK l \in Nat : l = Limit[t + 1]
    BY <2>4, Limits
  <2>8. x.len + add = need /\ need < new + 1 /\ need < l
    BY <2>2, <2>3, <2>7 DEF need
  <2>9. Roomy(y, add)
    BY <2>4, <2>6, <2>7, <2>8 DEF Roomy
  <2> QED
    BY <2>6, <2>9 DEF y
<1> QED
  BY <1>2, <1>3

(* What has been written behind or over the content is the content then.   *)
LEMMA Rewritten ==
  ASSUME NEW x, Housed(x), NEW c \in Seq(Cell), Len(c) <= x.len, \A j \in 1..Len(c) : x.buf[j] = c[j],
         NEW t \in Seq(Cell), Len(c) + Len(t) < Len(x.buf), Len(c) + Len(t) < Limit[x.type + 1]
  PROVE  LET y == Write(x, Len(c), t) IN
         /\ Housed(y) /\ y.type = x.type /\ y.len = x.len /\ y.alloc = x.alloc
         /\ Len(y.buf) = Len(x.buf)
         /\ \A j \in 1..Len(c \o t) : y.buf[j] = (c \o t)[j]
         /\ Holds(End(y, Len(c) + Len(t)), c \o t)
<1> DEFINE y == Write(x, Len(c), t)
           d == c \o t
<1>1. Len(c) \in Nat /\ Len(t) \in Nat /\ Len(x.buf) \in Nat
  BY DEF Housed
<1>2. /\ d \in Seq(Cell) /\ Len(d) = Len(c) + Len(t)
      /\ \A j \in 1..Len(d) : d[j] = IF j <= Len(c) THEN c[j] ELSE t[j - Len(c)]
  BY <1>1
<1>3. Len(c) + Len(t) <= Len(x.buf)
  BY <1>1
<1>4. /\ Housed(y) /\ y.type = x.type /\ y.len = x.len /\ y.alloc = x.alloc
      /\ Len(y.buf) = Len(x.buf)
      /\ \A j \in 1..Len(x.buf) :
           y.buf[j] = IF j > Len(c) /\ j <= Len(c) + Len(t) THEN t[j - Len(c)] ELSE x.buf[j]
  BY <1>1, <1>3, Written
<1> HIDE DEF y, d
<1>5. ASSUME NEW j \in 1..Len(d)
      PROVE  y.buf[j] = d[j]
  <2>1. j \in 1..Len(x.buf) /\ j <= Len(c) + Len(t)
    BY <1>1, <1>2
  <2>2. CASE j <= Len(c)
    <3>1. j \in 1..Len(c) /\ ~(j > Len(c))
      BY <1>1, <2>2
    <3>2. y.buf[j] = x.buf[j]
      BY <1>4, <2>1, <3>1
    <3>3. d[j] = c[j]
      BY <1>2, <2>2
    <3> QED
      BY <3>1, <3>2, <3>3
  <2>3. CASE j > Len(c)
    <3>1. y.buf[j] = t[j - Len(c)]
      BY <1>4, <2>1, <2>3
    <3>2. ~(j <= Len(c))
      BY <1>1, <2>3
    <3>3. d[j] = t[j - Len(c)]
      BY <1>2, <3>2
    <3> QED
      BY <3>1, <3>3
  <2> QED
    BY <1>1, <2>2, <2>3
<1>6. Holds(End(y, Len(d)), d)
  <2>1. Len(d) < Limit[y.type + 1] /\ Len(d) < Len(y.buf)
    BY <1>2, <1>4
  <2> QED
    BY <1>2, <1>4, <1>5, <2>1, Ended
<1> QED
  BY <1>2, <1>4, <1>5, <1>6 DEF y, d

LEMMA HoldsIs ==
  ASSUME NEW x, NEW c, Holds(x, c)
  PROVE  /\ Housed(x) /\ c \in Seq(Cell) /\ x.len = Len(c) /\ Len(c) \in Nat
         /\ Len(x.buf) \in Nat /\ Len(c) < Len(x.buf) /\ Len(c) < Limit[x.type + 1]
         /\ x.type \in 0..4 /\ Limit[x.type + 1] \in Nat
         /\ \A j \in 1..Len(c) : x.buf[j] = c[j]
         /\ x.buf[Len(c) + 1] = 0
<1>1. /\ Housed(x) /\ c \in Seq(Cell) /\ x.len = Len(c)
      /\ \A j \in 1..Len(c) : x.buf[j] = c[j]
      /\ x.buf[Len(c) + 1] = 0
  BY DEF Holds
<1>2. /\ x.buf \in Seq(Cell) /\ x.len < Len(x.buf) /\ x.len < Limit[x.type + 1]
      /\ x.type \in 0..4
  BY <1>1 DEF Housed
<1>3. Limit[x.type + 1] \in Nat
  BY <1>2, Limits
<1> QED
  BY <1>1, <1>2, <1>3

-----------------------------------------------------------------------------
(* Each call leaves the content it promises.                               *)
LEMMA Catted ==
  ASSUME NEW x, NEW c, Holds(x, c), NEW t \in Seq(Cell), Len(c) + Len(t) <= MaxLen
  PROVE  Holds(sdscatlen(x, t), c \o t)
<1> DEFINE y == sdsMakeRoomFor(x, Len(t))
<1>1. Holds(y, c) /\ Roomy(y, Len(t)) /\ x.len = Len(c)
  BY RoomIs, HoldsIs
<1>2. sdscatlen(x, t) = End(Write(y, Len(c), t), Len(c) + Len(t))
  BY <1>1 DEF sdscatlen
<1> HIDE DEF y
<1>3. /\ Housed(y) /\ c \in Seq(Cell) /\ Len(c) <= y.len
      /\ \A j \in 1..Len(c) : y.buf[j] = c[j]
      /\ Len(c) + Len(t) < Len(y.buf) /\ Len(c) + Len(t) < Limit[y.type + 1]
  BY <1>1, HoldsIs DEF Roomy
<1> QED
  BY <1>2, <1>3, Rewritten

LEMMA Copied ==
  ASSUME NEW x, NEW c, Holds(x, c), NEW t \in Seq(Cell), Len(t) <= MaxLen
  PROVE  Holds(sdscpylen(x, t), t)
<1> DEFINE y == IF sdsalloc(x) < Len(t) THEN sdsMakeRoomFor(x, Len(t) - x.len) ELSE x
<1>1. /\ Housed(x) /\ x.len = Len(c) /\ Len(c) \in Nat /\ Len(x.buf) \in Nat
      /\ Len(c) < Len(x.buf) /\ Len(c) < Limit[x.type + 1] /\ Limit[x.type + 1] \in Nat
  BY HoldsIs
<1>2. sdscpylen(x, t) = End(Write(y, 0, t), Len(t))
  BY DEF sdscpylen
<1>3. Housed(y) /\ Len(t) < Len(y.buf) /\ Len(t) < Limit[y.type + 1]
  <2>1. CASE sdsalloc(x) < Len(t)
    <3>1. y = sdsMakeRoomFor(x, Len(t) - x.len)
      BY <2>1
    <3> HIDE DEF y
    <3>2. PICK add \in Nat : add = Len(t) - x.len /\ Len(c) + add = Len(t)
      <4>1. x.len <= sdsalloc(x)
        BY <1>1 DEF sdsalloc, Housed
      <4>2. sdsalloc(x) \in Int
        BY <1>1 DEF sdsalloc, Housed
      <4> QED
        BY <1>1, <2>1, <4>1, <4>2
    <3>3. Holds(y, c) /\ Roomy(y, add)
      BY <3>1, <3>2, RoomIs
    <3>4. y.len + add = Len(t) /\ Housed(y)
      BY <3>2, <3>3, HoldsIs
    <3> QED
      BY <3>3, <3>4 DEF Roomy
  <2>2. CASE ~(sdsalloc(x) < Len(t)) /\ x.type = 0
    <3>1. y = x /\ Len(t) <= Len(c)
      BY <1>1, <2>2 DEF sdsalloc
    <3> HIDE DEF y
    <3> QED
      BY <1>1, <3>1
  <2>3. CASE ~(sdsalloc(x) < Len(t)) /\ x.type # 0
    <3>1. y = x
      BY <2>3
    <3> HIDE DEF y
    <3>2. PICK a \in Nat : a = x.alloc
      BY <1>1, <2>3 DEF Housed
    <3>3. a < Limit[x.type + 1] /\ Len(x.buf) = a + 1
      BY <1>1, <2>3, <3>2 DEF Housed
    <3>4. Len(t) <= a
      BY <2>3, <3>2 DEF sdsalloc
    <3> QED
      BY <1>1, <3>1, <3>3, <3>4
  <2> QED
    BY <2>1, <2>2, <2>3
<1> HIDE DEF y
<1> DEFINE e == <<>>
<1>4. e \in Seq(Cell) /\ Len(e) = 0 /\ e \o t = t /\ 1..Len(e) = {} /\ 0 + Len(t) = Len(t)
  OBVIOUS
<1>5. y.len \in Nat
  BY <1>3 DEF Housed
<1> HIDE DEF e
<1>6. Len(e) <= y.len /\ \A j \in 1..Len(e) : y.buf[j] = e[j]
  BY <1>4, <1>5
<1>7. Holds(End(Write(y, Len(e), t), Len(e) + Len(t)), e \o t)
  BY <1>3, <1>4, <1>6, Rewritten
<1> QED
  BY <1>2, <1>4, <1>7

LEMMA Grown ==
  ASSUME NEW x, NEW c, Holds(x, c), NEW n \in Nat, Len(c) <= n, n <= MaxLen
  PROVE  Holds(sdsgrowzero(x, n), c \o [i \in 1..(n - Len(c)) |-> 0])
<1> DEFINE z == [i \in 1..(n - Len(c)) |-> 0]
           w == [i \in 1..(n - Len(c) + 1) |-> 0]
<1>1. x.len = Len(c) /\ Len(c) \in Nat /\ c \in Seq(Cell)
  BY HoldsIs
<1>2. PICK add \in Nat : add = n - Len(c) /\ Len(c) + add = n
  BY <1>1
<1>3. z = [i \in 1..add |-> 0] /\ w = [i \in 1..(add + 1) |-> 0]
  BY <1>2
<1> HIDE DEF z, w
<1>4. /\ z \in Seq(Cell) /\ Len(z) = add
      /\ w \in Seq(Cell) /\ Len(w) = add + 1 /\ \A i \in 1..(add + 1) : w[i] = 0
  <2>1. 0 \in Cell
    BY DEF Cell
  <2> HIDE DEF Cell
  <2>2. z \in [1..add -> Cell] /\ w \in [1..(add + 1) -> Cell]
    BY <1>3, <2>1
  <2> QED
    BY <1>3, <2>2
<1>5. CASE n <= x.len
  <2>1. add = 0
    BY <1>1, <1>2, <1>5
  <2>2. c \o z = c
    BY <1>1, <1>4, <2>1
  <2>3. sdsgrowzero(x, n) = x
    BY <1>5 DEF sdsgrowzero
  <2> QED
    BY <2>2, <2>3 DEF z
<1>6. CASE ~(n <= x.len)
  <2> DEFINE y == sdsMakeRoomFor(x, add)
             v == Write(y, Len(c), w)
             r == sdssetlen(v, n)
  <2>1. sdsgrowzero(x, n) = r
    <3>1. n - x.len = add
      BY <1>1, <1>2
    <3> QED
      BY <1>1, <1>2, <1>6, <3>1 DEF sdsgrowzero, w
  <2>2. Holds(y, c) /\ Roomy(y, add)
    BY <1>2, RoomIs
  <2> HIDE DEF y
  <2>3. /\ Housed(y) /\ y.len = Len(c) /\ Len(y.buf) \in Nat
        /\ \A j \in 1..Len(c) : y.buf[j] = c[j]
    BY <2>2, HoldsIs
  <2>4. n < Len(y.buf) /\ n < Limit[y.type + 1]
    BY <1>2, <2>2, <2>3 DEF Roomy
  <2>5. Len(c) + Len(w) <= Len(y.buf) /\ Len(c) + Len(w) = n + 1
    BY <1>1, <1>2, <1>4, <2>3, <2>4
  <2>6. Housed(y) /\ Len(c) \in Nat /\ w \in Seq(Cell)
    BY <1>1, <1>4, <2>3
  <2>7. /\ Housed(v) /\ v.type = y.type /\ Len(v.buf) = Len(y.buf)
        /\ \A j \in 1..Len(y.buf) :
             v.buf[j] = IF j > Len(c) /\ j <= Len(c) + Len(w) THEN w[j - Len(c)] ELSE y.buf[j]
    BY <2>5, <2>6, Written
  <2> HIDE DEF v
  <2>8. Housed(r) /\ r.len = n /\ r.buf = v.buf
    BY <2>4, <2>7, SetLen
  <2> HIDE DEF r
  <2>9. \A j \in 1..Len(c) : v.buf[j] = c[j]
    <3>1. \A j \in 1..Len(c) : j \in 1..Len(y.buf) /\ ~(j > Len(c))
      BY <1>1, <2>3, <2>5, <1>4
    <3> QED
      BY <2>3, <2>7, <3>1
  <2>10. ASSUME NEW j \in (Len(c) + 1)..(n + 1)
        PROVE  v.buf[j] = 0
    <3>1. j \in 1..Len(y.buf) /\ j > Len(c) /\ j <= Len(c) + Len(w) /\ j - Len(c) \in 1..(add + 1)
      BY <1>1, <1>2, <2>3, <2>4, <2>5
    <3> QED
      BY <1>4, <2>7, <3>1
  <2>11. /\ c \o z \in Seq(Cell) /\ Len(c \o z) = n
         /\ \A j \in 1..n : (c \o z)[j] = IF j <= Len(c) THEN c[j] ELSE z[j - Len(c)]
    BY <1>1, <1>2, <1>4
  <2>12. ASSUME NEW j \in 1..n
         PROVE  v.buf[j] = (c \o z)[j]
    <3>1. CASE j <= Len(c)
      <4>1. j \in 1..Len(c)
        BY <1>1, <3>1
      <4> QED
        BY <2>9, <2>11, <3>1, <4>1
    <3>2. CASE ~(j <= Len(c))
      <4>1. j \in (Len(c) + 1)..(n + 1) /\ j - Len(c) \in 1..add
        BY <1>1, <1>2, <3>2
      <4>2. z[j - Len(c)] = 0
        BY <1>3, <4>1
      <4> QED
        BY <2>10, <2>11, <3>2, <4>1, <4>2
    <3> QED
      BY <3>1, <3>2
  <2>13. n + 1 \in (Len(c) + 1)..(n + 1)
    BY <1>1
  <2>14. Holds(r, c \o z)
    BY <2>8, <2>10, <2>11, <2>12, <2>13 DEF Holds
  <2> QED
    BY <2>1, <2>14 DEF z
<1> QED
  BY <1>5, <1>6

(* read() left t in room made for more, sdsIncrLen() counts it.            *)
LEMMA ReadIn ==
  ASSUME NEW x, NEW c, Holds(x, c), NEW t \in Seq(Cell), Len(t) # 0,
         NEW n \in Nat, Len(t) <= n, Len(c) + n <= MaxLen
  PROVE  LET y == sdsMakeRoomFor(x, n)
         IN  Holds(sdsIncrLen(Write(y, y.len, t), Len(t)), c \o t)
<1> DEFINE y == sdsMakeRoomFor(x, n)
           w == Write(y, Len(c), t)
<1>1. Holds(y, c) /\ Roomy(y, n)
  BY RoomIs
<1> HIDE DEF y
<1>2. /\ Housed(y) /\ c \in Seq(Cell) /\ y.len = Len(c) /\ Len(c) \in Nat
      /\ \A j \in 1..Len(c) : y.buf[j] = c[j]
      /\ Len(y.buf) \in Nat /\ y.type \in 0..4 /\ Limit[y.type + 1] \in Nat
  BY <1>1, HoldsIs
<1>3. y.type # 0 /\ Len(c) + n < Len(y.buf) /\ Len(c) + n < Limit[y.type + 1]
  <2>1. n # 0
    OBVIOUS
  <2> QED
    BY <1>1, <1>2, <2>1 DEF Roomy
<1>4. Len(c) + Len(t) < Len(y.buf) /\ Len(c) + Len(t) < Limit[y.type + 1] /\ Len(c) <= y.len
  <2>1. Len(t) \in Nat /\ n \in Nat /\ Len(c) \in Nat /\ Len(y.buf) \in Nat
    BY <1>2
  <2>2. Len(c) + Len(t) <= Len(c) + n
    BY <2>1
  <2>3. PICK m \in Nat : m = Limit[y.type + 1] /\ Len(c) + n < m
    BY <1>2, <1>3
  <2>4. Len(c) + Len(t) < m
    BY <2>1, <2>2, <2>3
  <2>5. Len(c) + Len(t) < Len(y.buf)
    <3>1. PICK h \in Nat : h = Len(y.buf) /\ Len(c) + n < h
      BY <1>3, <2>1
    <3>2. Len(c) + Len(t) < h
      BY <2>1, <2>2, <3>1
    <3> QED
      BY <3>1, <3>2
  <2> QED
    BY <1>2, <2>1, <2>3, <2>4, <2>5
<1>5. /\ w.type = y.type /\ w.len = Len(c) /\ w.alloc = y.alloc
      /\ Holds(End(w, Len(c) + Len(t)), c \o t)
  BY <1>2, <1>4, Rewritten
<1> HIDE DEF w
<1>6. IncrLenAsserted(w, Len(t))
  <2>1. PICK a \in Nat : a = y.alloc /\ Len(y.buf) = a + 1
    BY <1>2, <1>3 DEF Housed
  <2>2. a - Len(c) >= Len(t)
    <3>1. PICK h \in Nat : h = Len(t)
      OBVIOUS
    <3>2. PICK k \in Nat : k = Len(c)
      BY <1>2
    <3>3. k + h < a + 1
      BY <1>4, <2>1, <3>1, <3>2
    <3>4. a - k >= h
      BY <3>3
    <3> QED
      BY <3>1, <3>2, <3>4
  <2> QED
    BY <1>3, <1>5, <2>1, <2>2 DEF IncrLenAsserted
<1>7. sdsIncrLen(w, Len(t)) = End(w, Len(c) + Len(t))
  BY <1>5, <1>6 DEF sdsIncrLen
<1> QED
  BY <1>2, <1>5, <1>7 DEF y, w

LEMMA Shortened ==
  ASSUME NEW x, NEW c, Holds(x, c), NEW n \in 1..Len(c)
  PROVE  Holds(sdsIncrLen(x, -n), SubSeq(c, 1, Len(c) - n))
<1> DEFINE d == SubSeq(c, 1, Len(c) - n)
<1>1. /\ Housed(x) /\ c \in Seq(Cell) /\ x.len = Len(c) /\ Len(c) \in Nat
      /\ Len(x.buf) \in Nat /\ Len(c) < Len(x.buf) /\ Len(c) < Limit[x.type + 1]
      /\ Limit[x.type + 1] \in Nat
      /\ \A j \in 1..Len(c) : x.buf[j] = c[j]
  BY HoldsIs
<1>2. d \in Seq(Cell) /\ Len(d) = Len(c) - n /\ \A j \in 1..Len(d) : d[j] = c[j]
  BY <1>1
<1> HIDE DEF d
<1>3. IncrLenAsserted(x, -n)
  BY <1>1 DEF IncrLenAsserted
<1>4. sdsIncrLen(x, -n) = End(x, Len(d))
  <2>1. x.len + (-n) = Len(d)
    BY <1>1, <1>2
  <2> QED
    BY <1>3, <2>1 DEF sdsIncrLen
<1>5. /\ Len(d) < Limit[x.type + 1] /\ Len(d) < Len(x.buf)
      /\ \A j \in 1..Len(d) : x.buf[j] = d[j]
  BY <1>1, <1>2
<1>6. Holds(End(x, Len(d)), d)
  BY <1>1, <1>2, <1>5, Ended
<1> QED
  BY <1>4, <1>6 DEF d

(* The bytes a + 1 to a + n are moved to the front.                        *)
LEMMA CutOut ==
  ASSUME NEW x, NEW c, Holds(x, c), NEW a \in Nat, NEW n \in Nat, a + n <= Len(c)
  PROVE  Holds(End(Write(x, 0, SubSeq(x.buf, a + 1, a + n)), n), SubSeq(c, a + 1, a + n))
<1> DEFINE t == SubSeq(c, a + 1, a + n)
           u == SubSeq(x.buf, a + 1, a + n)
           e == <<>>
<1>1. /\ Housed(x) /\ c \in Seq(Cell) /\ x.len = Len(c) /\ Len(c) \in Nat
      /\ Len(x.buf) \in Nat /\ Len(c) < Len(x.buf) /\ Len(c) < Limit[x.type + 1]
      /\ Limit[x.type + 1] \in Nat
      /\ \A j \in 1..Len(c) : x.buf[j] = c[j]
  BY HoldsIs
<1>2. x.buf \in Seq(Cell)
  BY <1>1 DEF Housed
<1>3. t \in Seq(Cell) /\ Len(t) = n /\ \A j \in 1..n : t[j] = c[a + j]
  BY <1>1
<1>4. u \in Seq(Cell) /\ Len(u) = n /\ \A j \in 1..n : u[j] = x.buf[a + j]
  BY <1>1, <1>2
<1> HIDE DEF t, u
<1>5. u = t
  <2>1. ASSUME NEW j \in 1..n
        PROVE  u[j] = t[j]
    <3>1. a + j \in 1..Len(c)
      BY <1>1
    <3> QED
      BY <1>1, <1>3, <1>4, <3>1
  <2> QED
    BY <1>3, <1>4, <2>1
<1>6. /\ e \in Seq(Cell) /\ Len(e) = 0 /\ e \o t = t /\ Len(e) <= x.len
      /\ \A j \in 1..Len(e) : x.buf[j] = e[j]
      /\ Len(e) + Len(t) < Len(x.buf) /\ Len(e) + Len(t) < Limit[x.type + 1]
      /\ Len(e) + Len(t) = n
  BY <1>1, <1>3
<1> HIDE DEF e
<1>7. Holds(End(Write(x, Len(e), t), Len(e) + Len(t)), e \o t)
  BY <1>1, <1>3, <1>6, Rewritten
<1> QED
  BY <1>5, <1>6, <1>7 DEF t, u

LEMMA Cleared ==
  ASSUME NEW x, NEW c, Holds(x, c)
  PROVE  Holds(sdsclear(x), <<>>)
<1> DEFINE y == sdssetlen(x, 0)
           z == Write(y, 0, <<0>>)
<1>1. /\ Housed(x) /\ Len(c) \in Nat /\ Len(x.buf) \in Nat /\ Len(c) < Len(x.buf)
      /\ Len(c) < Limit[x.type + 1] /\ Limit[x.type + 1] \in Nat
  BY HoldsIs
<1>2. 0 < Limit[x.type + 1] /\ 0 < Len(x.buf)
  BY <1>1
<1>3. Housed(y) /\ y.len = 0 /\ y.buf = x.buf
  BY <1>1, <1>2, SetLen
<1> HIDE DEF y
<1> DEFINE e == <<0>>
<1>4. e \in Seq(Cell) /\ Len(e) = 1 /\ e[1] = 0
  BY DEF Cell
<1> HIDE DEF e
<1>5. PICK i \in Nat : i = 0
  OBVIOUS
<1>6. i + Len(e) <= Len(y.buf)
  BY <1>1, <1>2, <1>3, <1>4, <1>5
<1> DEFINE w == Write(y, i, e)
<1>7. Housed(w) /\ w.len = 0 /\ w.buf[1] = 0
  <2>1. /\ Housed(w) /\ w.len = y.len
        /\ \A j \in 1..Len(y.buf) :
             w.buf[j] = IF j > i /\ j <= i + Len(e) THEN e[j - i] ELSE y.buf[j]
    BY <1>3, <1>4, <1>6, Written
  <2> HIDE DEF w
  <2>2. 1 \in 1..Len(y.buf) /\ 1 > i /\ 1 <= i + Len(e) /\ 1 - i = 1
    BY <1>1, <1>2, <1>3, <1>4, <1>5
  <2> QED
    BY <1>3, <1>4, <2>1, <2>2
<1>8. Housed(z) /\ z.len = 0 /\ z.buf[1] = 0
  BY <1>5, <1>7, Zenon DEF e, w, z
<1> HIDE DEF z
<1> DEFINE d == <<>>
<1>9. d \in Seq(Cell) /\ Len(d) = 0 /\ 1..Len(d) = {}
  OBVIOUS
<1> HIDE DEF d
<1>10. Holds(z, d)
  <2>1. Len(d) = z.len /\ z.buf[z.len + 1] = 0 /\ \A j \in 1..Len(d) : z.buf[j] = d[j]
    BY <1>8, <1>9
  <2> QED
    BY <1>8, <1>9, <2>1 DEF Holds
<1> QED
  BY <1>10 DEF sdsclear, z, y, d

LEMMA Tightened ==
  ASSUME NEW x, NEW c, Holds(x, c)
  PROVE  Holds(sdsRemoveFreeSpace(x), c)
<1>1. /\ Housed(x) /\ x.len = Len(c) /\ Len(c) \in Nat /\ x.type \in 0..4
      /\ Len(c) < Limit[x.type + 1] /\ Limit[x.type + 1] \in Nat
  BY HoldsIs
<1>2. CASE sdsavail(x) = 0
  BY <1>2 DEF sdsRemoveFreeSpace
<1>3. CASE sdsavail(x) # 0
  <2> DEFINE r == sdsReqType(x.len)
             t == IF r > 1 THEN x.type ELSE r
  <2>1. x.len < Limit[5]
    <3>1. PICK a \in Nat : a = Limit[1]
      BY Limits
    <3>2. PICK b \in Nat : b = Limit[2]
      BY Limits
    <3>3. PICK d \in Nat : d = Limit[3]
      BY Limits
    <3>4. PICK f \in Nat : f = Limit[4]
      BY Limits
    <3>5. PICK g \in Nat : g = Limit[5]
      BY Limits
    <3>6. a < b /\ b < d /\ d < f /\ f < g
      BY <3>1, <3>2, <3>3, <3>4, <3>5, Limits
    <3>7. Limit[x.type + 1] \in {a, b, d, f, g}
      <4>1. x.type + 1 \in {1, 2, 3, 4, 5}
        BY <1>1
      <4>2. \A k \in {1, 2, 3, 4, 5} : Limit[k] \in {a, b, d, f, g}
        BY <3>1, <3>2, <3>3, <3>4, <3>5
      <4> QED
        BY <4>1, <4>2
    <3>8. \A h \in {a, b, d, f, g} : h <= g
      BY <3>6
    <3>9. PICK h \in Nat : h = Limit[x.type + 1]
      BY <1>1
    <3>10. x.len \in Nat /\ x.len < h /\ h <= g
      BY <1>1, <3>7, <3>8, <3>9
    <3> QED
      BY <3>5, <3>10
  <2>2. r \in 0..4 /\ x.len < Limit[r + 1]
    BY <1>1, <2>1, ReqTypeIs
  <2>3. sdsRemoveFreeSpace(x) = sdssetalloc(Moved(x, t, x.len), x.len)
    BY <1>3 DEF sdsRemoveFreeSpace
  <2> HIDE DEF r
  <2>4. t \in 0..4 /\ x.len < Limit[t + 1]
    BY <1>1, <2>2
  <2> HIDE DEF t
  <2>5. Len(c) <= x.len /\ x.len \in Nat
    BY <1>1
  <2> QED
    BY <2>3, <2>4, <2>5, MovedIs
<1> QED
  BY <1>2, <1>3

LEMMA ContentIs ==
  ASSUME NEW x, NEW c, Holds(x, c)
  PROVE  Content(x) = c
<1>1. /\ x.buf \in Seq(Cell) /\ Len(x.buf) \in Nat /\ Len(c) < Len(x.buf)
      /\ c \in Seq(Cell) /\ x.len = Len(c) /\ Len(c) \in Nat
      /\ \A j \in 1..Len(c) : x.buf[j] = c[j]
  BY HoldsIs DEF Housed
<1> DEFINE u == SubSeq(x.buf, 1, Len(c))
<1>2. u \in Seq(Cell) /\ Len(u) = Len(c) /\ \A j \in 1..Len(c) : u[j] = x.buf[j]
  BY <1>1
<1> HIDE DEF u
<1>3. u = c
  BY <1>1, <1>2
<1> QED
  BY <1>1, <1>3 DEF Content, u

LEMMA Duplicated ==
  ASSUME NEW x, NEW c, Holds(x, c), Len(c) <= MaxLen
  PROVE  Holds(sdsdup(x), c)
  BY ContentIs, HoldsIs, NewIs DEF sdsdup

LEMMA SettledIs ==
  ASSUME NEW x, NEW c, Holds(x, c)
  PROVE  Holds(Settled(x), c)
<1> DEFINE b == [j \in 1..Len(x.buf) |-> IF j <= x.len + 1 THEN x.buf[j] ELSE Garbage]
           y == Settled(x)
<1>1. /\ Housed(x) /\ c \in Seq(Cell) /\ x.len = Len(c) /\ Len(c) \in Nat
      /\ Len(x.buf) \in Nat /\ Len(c) < Len(x.buf)
      /\ \A j \in 1..Len(c) : x.buf[j] = c[j]
      /\ x.buf[Len(c) + 1] = 0
  BY HoldsIs
<1>2. x.buf \in Seq(Cell)
  BY <1>1 DEF Housed
<1>3. y = Str(x.type, x.len, x.alloc, x.heap, b)
  BY DEF Settled
<1> HIDE DEF y
<1>4. Garbage \in Cell
  BY DEF Garbage, Cell
<1>5. b \in [1..Len(x.buf) -> Cell] /\ \A j \in 1..Len(x.buf) : j <= x.len + 1 => b[j] = x.buf[j]
  BY <1>2, <1>4
<1> HIDE DEF b
<1>6. b \in Seq(Cell) /\ Len(b) = Len(x.buf)
  BY <1>1, <1>5
<1>7. /\ y.type = x.type /\ y.len = x.len /\ y.alloc = x.alloc /\ y.heap = x.heap
      /\ y.buf = b
  BY <1>3, Fields
<1>8. Housed(y)
  BY <1>1, <1>6, <1>7 DEF Housed
<1>9. \A j \in 1..(Len(c) + 1) : b[j] = x.buf[j]
  <2>1. \A j \in 1..(Len(c) + 1) : j \in 1..Len(x.buf) /\ j <= x.len + 1
    BY <1>1
  <2> QED
    BY <1>5, <2>1
<1>10. Len(c) + 1 \in 1..(Len(c) + 1) /\ \A j \in 1..Len(c) : j \in 1..(Len(c) + 1)
  BY <1>1
<1>11. Holds(y, c)
  BY <1>1, <1>7, <1>8, <1>9, <1>10 DEF Holds
<1> QED
  BY <1>11 DEF y

-----------------------------------------------------------------------------
(* Parts of a string.                                                      *)
At(c, i) == IF i < 0 THEN Max({Len(c) + i, 0}) ELSE i

Within(d, c) == Len(d) <= Len(c) /\ \A j \in 1..Len(d) : \E i \in 1..Len(c) : d[j] = c[i]

LEMMA WithinIs ==
  ASSUME NEW c \in Seq(Cell), NEW a \in Nat, NEW n \in Nat, a + n <= Len(c)
  PROVE  Within(SubSeq(c, a + 1, a + n), c)
<1> DEFINE t == SubSeq(c, a + 1, a + n)
<1>1. Len(t) = n /\ \A j \in 1..n : t[j] = c[a + j]
  <2>1. Len(t) = n
    OBVIOUS
  <2>2. ASSUME NEW j \in 1..n
        PROVE  t[j] = c[a + j]
    <3>1. t[j] = c[(a + 1) + j - 1]
      BY SMTT(15)
    <3>2. (a + 1) + j - 1 = a + j
      OBVIOUS
    <3> HIDE DEF t
    <3> QED
      BY <3>1, <3>2
  <2> QED
    BY <2>1, <2>2
<1>2. \A j \in 1..n : a + j \in 1..Len(c)
  OBVIOUS
<1>3. n <= Len(c)
  OBVIOUS
<1> HIDE DEF t
<1>4. \A j \in 1..n : \E i \in 1..Len(c) : t[j] = c[i]
  BY <1>1, <1>2
<1>5. Within(t, c)
  BY <1>1, <1>3, <1>4 DEF Within
<1> QED
  BY <1>5 DEF t

LEMMA EmptyPart ==
  ASSUME NEW s1 \in Seq(Cell), NEW m \in Int, NEW n \in Int, n < m
  PROVE  SubSeq(s1, m, n) = <<>>
  OBVIOUS

LEMMA Ranged ==
  ASSUME NEW x, NEW c, Holds(x, c), NEW i \in Int, NEW j \in Int
  PROVE  LET d == SubSeq(c, At(c, i) + 1, Min({At(c, j) + 1, Len(c)}))
         IN  Holds(sdsrange(x, i, j), d) /\ Within(d, c)
<1> DEFINE a == At(c, i)
           b == At(c, j)
           e == Min({b, Len(c) - 1})
           n == IF a > b \/ a >= Len(c) THEN 0 ELSE e - a + 1
           m == Min({b + 1, Len(c)})
<1>1. x.len = Len(c) /\ Len(c) \in Nat /\ c \in Seq(Cell) /\ x.buf \in Seq(Cell)
  BY HoldsIs DEF Housed
<1>2. a \in Nat /\ b \in Nat
  <2>1. \A k \in Int : Max({Len(c) + k, 0}) \in Nat
    <3>1. \A k \in Int : Len(c) + k \in Int
      BY <1>1
    <3>2. \A k \in Int : Max({k, 0}) \in {k, 0} /\ Max({k, 0}) >= 0
      BY GreaterOfTwo
    <3> QED
      BY <3>1, <3>2
  <2> QED
    BY <2>1 DEF At
<1> HIDE DEF a, b
<1>3. e \in Int /\ e <= b /\ e <= Len(c) - 1 /\ (e = b \/ e = Len(c) - 1)
  <2>1. b \in Int /\ Len(c) - 1 \in Int
    BY <1>1, <1>2
  <2>2. e \in {b, Len(c) - 1} /\ e <= b /\ e <= Len(c) - 1
    BY <2>1, LesserOfTwo
  <2> HIDE DEF e
  <2> QED
    BY <2>1, <2>2
<1>4. m \in Int /\ m <= b + 1 /\ m <= Len(c) /\ (m = b + 1 \/ m = Len(c))
  <2>1. b + 1 \in Int /\ Len(c) \in Int
    BY <1>1, <1>2
  <2>2. m \in {b + 1, Len(c)} /\ m <= b + 1 /\ m <= Len(c)
    BY <2>1, LesserOfTwo
  <2> HIDE DEF m
  <2> QED
    BY <2>1, <2>2
<1> HIDE DEF e, m
<1>5. m = e + 1
  BY <1>1, <1>2, <1>3, <1>4
<1>6. CASE Len(c) = 0
  <2>1. sdsrange(x, i, j) = x
    BY <1>1, <1>6 DEF sdsrange
  <2>2. SubSeq(c, a + 1, m) = <<>>
    BY <1>1, <1>2, <1>4, <1>6, EmptyPart
  <2>3. c = <<>>
    BY <1>1, <1>6
  <2>4. Within(c, c)
    BY <1>1, <1>6 DEF Within
  <2> QED
    BY <2>1, <2>2, <2>3, <2>4 DEF a, b, m
<1>7. CASE Len(c) # 0
  <2>1. sdsrange(x, i, j) = End(Write(x, 0, SubSeq(x.buf, a + 1, a + n)), n)
    BY <1>1, <1>7 DEF sdsrange, a, b, e, At
  <2>2. CASE a > b \/ a >= Len(c)
    <3>1. n = 0
      BY <2>2
    <3> HIDE DEF n
    <3>2. SubSeq(x.buf, a + 1, a + n) = <<>> /\ SubSeq(x.buf, 0 + 1, 0 + 0) = <<>>
      BY <1>1, <1>2, <3>1, EmptyPart
    <3>3. SubSeq(c, a + 1, m) = <<>> /\ SubSeq(c, 0 + 1, 0 + 0) = <<>>
      BY <1>1, <1>2, <1>4, <2>2, EmptyPart
    <3>4. Holds(End(Write(x, 0, SubSeq(x.buf, 0 + 1, 0 + 0)), 0), SubSeq(c, 0 + 1, 0 + 0))
      <4>1. 0 \in Nat /\ 0 + 0 <= Len(c)
        BY <1>1
      <4> QED
        BY <4>1, CutOut
    <3>5. Within(SubSeq(c, 0 + 1, 0 + 0), c)
      <4>1. 0 \in Nat /\ 0 + 0 <= Len(c)
        BY <1>1
      <4> QED
        BY <1>1, <4>1, WithinIs
    <3> QED
      BY <2>1, <3>1, <3>2, <3>3, <3>4, <3>5 DEF a, b, m
  <2>3. CASE ~(a > b \/ a >= Len(c))
    <3>1. n = e - a + 1
      BY <2>3
    <3> HIDE DEF n
    <3>2. n \in Nat /\ a + n = m /\ a + n <= Len(c)
      BY <1>1, <1>2, <1>3, <1>4, <1>5, <2>3, <3>1
    <3>3. Holds(End(Write(x, 0, SubSeq(x.buf, a + 1, a + n)), n), SubSeq(c, a + 1, a + n))
      BY <1>2, <3>2, CutOut
    <3>4. Within(SubSeq(c, a + 1, a + n), c)
      BY <1>1, <1>2, <3>2, WithinIs
    <3> QED
      BY <2>1, <3>2, <3>3, <3>4 DEF a, b, m
  <2> QED
    BY <2>2, <2>3
<1> QED
  BY <1>6, <1>7

(* The first loop of sdstrim() stops at the first byte to keep.            *)
LEMMA FirstLeft ==
  ASSUME NEW n \in Nat, NEW b, NEW Z
  PROVE  LET sp[i \in 0..n] == IF i < n /\ b[i + 1] \in Z THEN sp[i + 1] ELSE i
             k == sp[0]
         IN /\ k \in 0..n /\ \A j \in 0..(k - 1) : b[j + 1] \in Z
            /\ k = n \/ b[k + 1] \notin Z
<1> DEFINE Body(f, i) == IF i < n /\ b[i + 1] \in Z THEN f[i + 1] ELSE i
           Good(f) == f = [i \in 0..n |-> Body(f, i)]
           F == CHOOSE f : Good(f)
           A(i) == {j \in i..n : ~(j < n /\ b[j + 1] \in Z)}
           h == [i \in 0..n |-> Min(A(i))]
<1>1. ASSUME NEW i \in 0..n
      PROVE  Min(A(i)) \in A(i) /\ \A j \in A(i) : Min(A(i)) <= j
  <2>1. n \in A(i) /\ A(i) \subseteq Nat
    OBVIOUS
  <2> HIDE DEF A
  <2>2. \E j \in A(i) : \A l \in A(i) : j <= l
    BY <2>1, LeastNatural
  <2> QED
    BY <2>2 DEF Min
<1>2. Good(h)
  <2>1. ASSUME NEW i \in 0..n
        PROVE  Min(A(i)) = Body(h, i)
    <3>1. CASE i < n /\ b[i + 1] \in Z
      <4>1. i + 1 \in 0..n
        BY <3>1
      <4>2. A(i) = A(i + 1)
        BY <3>1
      <4> QED
        BY <3>1, <4>1, <4>2
    <3>2. CASE ~(i < n /\ b[i + 1] \in Z)
      <4>1. i \in A(i)
        BY <3>2
      <4>2. Min(A(i)) \in A(i) /\ Min(A(i)) <= i
        BY <1>1, <4>1
      <4> DEFINE v == Min(A(i))
      <4>3. v \in i..n /\ v <= i
        BY <4>2
      <4> HIDE DEF v
      <4>4. v = i
        BY <4>3
      <4> QED
        BY <3>2, <4>4 DEF v
    <3> QED
      BY <3>1, <3>2
  <2> HIDE DEF A, Body
  <2> QED
    BY <2>1
<1>3. Good(F)
  <2> HIDE DEF Good
  <2> QED
    BY <1>2
<1> HIDE DEF F
<1>4. \A i \in 0..n : F[i] = Body(F, i)
  <2> HIDE DEF Body
  <2> QED
    BY <1>3
<1> DEFINE Right(i) == F[i] \in i..n /\ (\A j \in i..(F[i] - 1) : b[j + 1] \in Z)
                         /\ (F[i] = n \/ b[F[i] + 1] \notin Z)
           S == {q \in 0..n : Right(n - q)}
<1>5. 0 \in S
  <2>1. F[n] = n /\ n - 0 = n
    BY <1>4
  <2> QED
    BY <2>1
<1>6. ASSUME NEW q \in 0..(n - 1), q \in S
      PROVE  q + 1 \in S
  <2> DEFINE i == n - (q + 1)
  <2>1. i \in 0..n /\ i + 1 \in 0..n /\ i + 1 = n - q /\ i < n /\ q + 1 \in 0..n
    OBVIOUS
  <2>2. Right(i + 1)
    BY <1>6, <2>1
  <2> HIDE DEF i
  <2>3. CASE b[i + 1] \in Z
    <3>1. F[i] = F[i + 1]
      BY <1>4, <2>1, <2>3
    <3>2. PICK k \in (i + 1)..n : k = F[i + 1]
      BY <2>2
    <3>3. \A j \in i..(k - 1) : j = i \/ j \in (i + 1)..(k - 1)
      BY <2>1
    <3>4. \A j \in i..(k - 1) : b[j + 1] \in Z
      BY <2>2, <2>3, <3>2, <3>3
    <3>5. k \in i..n
      BY <2>1
    <3>6. Right(i)
      BY <2>2, <3>1, <3>2, <3>4, <3>5
    <3> HIDE DEF Right
    <3> QED
      BY <2>1, <3>6 DEF i
  <2>4. CASE b[i + 1] \notin Z
    <3>1. F[i] = i
      BY <1>4, <2>1, <2>4
    <3>2. i..(i - 1) = {}
      BY <2>1
    <3>3. Right(i)
      BY <2>1, <2>4, <3>1, <3>2
    <3> HIDE DEF Right
    <3> QED
      BY <2>1, <3>3 DEF i
  <2> QED
    BY <2>3, <2>4
<1>7. n \in S
  <2> HIDE DEF S
  <2>1. 0..n \subseteq S
    BY <1>5, <1>6, Induction
  <2> QED
    BY <2>1
<1>8. Right(0)
  <2>1. n - n = 0
    OBVIOUS
  <2> HIDE DEF Right
  <2> QED
    BY <1>7, <2>1
<1> QED
  BY <1>8 DEF F

LastByte(n, b, Z, k) ==
  LET ep[i \in -1..n] == IF i > k /\ b[i + 1] \in Z THEN ep[i - 1] ELSE i
  IN  ep[n - 1]

(* The second loop, from the last byte on, stops at the last byte to keep, *)
(* or at byte k.                                                           *)
LEMMA LastLeft ==
  ASSUME NEW n \in Nat, NEW b, NEW Z, NEW k \in 0..n
  PROVE  LET e == LastByte(n, b, Z, k)
         IN /\ e \in -1..(n - 1) /\ \A j \in (e + 1)..(n - 1) : j > k /\ b[j + 1] \in Z
            /\ e <= k \/ b[e + 1] \notin Z
<1> DEFINE Body(f, i) == IF i > k /\ b[i + 1] \in Z THEN f[i - 1] ELSE i
           Good(f) == f = [i \in -1..n |-> Body(f, i)]
           F == CHOOSE f : Good(f)
           A(i) == {j \in -1..i : ~(j > k /\ b[j + 1] \in Z)}
           h == [i \in -1..n |-> Max(A(i))]
<1>1. ASSUME NEW i \in -1..n
      PROVE  Max(A(i)) \in A(i) /\ \A j \in A(i) : Max(A(i)) >= j
  <2>1. -1 \in A(i) /\ A(i) \subseteq Int /\ A(i) \subseteq -1..n
    OBVIOUS
  <2>2. IsFiniteSet(A(i))
    <3>1. IsFiniteSet(-1..n)
      BY FS_Interval
    <3> HIDE DEF A
    <3> QED
      BY <2>1, <3>1, FS_Subset
  <2> HIDE DEF A
  <2>3. \E j \in A(i) : \A l \in A(i) : l <= j
    BY <2>1, <2>2, GreatestOfFinite
  <2>4. \E j \in A(i) : \A l \in A(i) : j >= l
    BY <2>1, <2>3
  <2> QED
    BY <2>4 DEF Max
<1>2. Good(h)
  <2>1. ASSUME NEW i \in -1..n
        PROVE  Max(A(i)) = Body(h, i)
    <3>1. CASE i > k /\ b[i + 1] \in Z
      <4>1. i - 1 \in -1..n
        BY <3>1
      <4>2. A(i) = A(i - 1)
        BY <3>1
      <4> QED
        BY <3>1, <4>1, <4>2
    <3>2. CASE ~(i > k /\ b[i + 1] \in Z)
      <4>1. i \in A(i)
        BY <3>2
      <4>2. Max(A(i)) \in A(i) /\ Max(A(i)) >= i
        BY <1>1, <4>1
      <4> DEFINE v == Max(A(i))
      <4>3. v \in -1..i /\ v >= i
        BY <4>2
      <4> HIDE DEF v
      <4>4. v = i
        BY <4>3
      <4> QED
        BY <3>2, <4>4 DEF v
    <3> QED
      BY <3>1, <3>2
  <2> HIDE DEF A, Body
  <2> QED
    BY <2>1
<1>3. Good(F)
  <2> HIDE DEF Good
  <2> QED
    BY <1>2
<1> HIDE DEF F
<1>4. \A i \in -1..n : F[i] = Body(F, i)
  <2> HIDE DEF Body
  <2> QED
    BY <1>3
<1> DEFINE Right(i) == F[i] \in -1..i /\ (\A j \in (F[i] + 1)..i : j > k /\ b[j + 1] \in Z)
                         /\ (F[i] <= k \/ b[F[i] + 1] \notin Z)
           S == {q \in 0..n : Right(q - 1)}
<1>5. 0 \in S
  <2>1. F[-1] = -1 /\ 0 - 1 = -1 /\ -1 \in -1..(-1) /\ (-1 + 1)..(-1) = {} /\ -1 <= k
    BY <1>4
  <2>2. Right(-1)
    BY <2>1
  <2> HIDE DEF Right
  <2> QED
    BY <2>1, <2>2
<1>6. ASSUME NEW q \in 0..(n - 1), q \in S
      PROVE  q + 1 \in S
  <2> DEFINE i == q
  <2>1. i \in -1..n /\ i - 1 \in -1..n /\ (q + 1) - 1 = i /\ q + 1 \in 0..n
    OBVIOUS
  <2>2. Right(i - 1)
    BY <1>6
  <2> HIDE DEF i
  <2>3. CASE i > k /\ b[i + 1] \in Z
    <3>1. F[i] = F[i - 1]
      BY <1>4, <2>1, <2>3
    <3>2. PICK e \in -1..(i - 1) : e = F[i - 1]
      BY <2>2
    <3>3. \A j \in (e + 1)..i : j = i \/ j \in (e + 1)..(i - 1)
      BY <2>1
    <3>4. \A j \in (e + 1)..i : j > k /\ b[j + 1] \in Z
      BY <2>2, <2>3, <3>2, <3>3
    <3>5. e \in -1..i
      BY <2>1
    <3>6. Right(i)
      BY <2>2, <3>1, <3>2, <3>4, <3>5
    <3> HIDE DEF Right
    <3> QED
      BY <2>1, <3>6
  <2>4. CASE ~(i > k /\ b[i + 1] \in Z)
    <3>1. F[i] = i
      BY <1>4, <2>1, <2>4
    <3>2. (i + 1)..i = {} /\ i \in -1..i /\ (i <= k \/ i > k)
      BY <2>1
    <3>3. Right(i)
      BY <2>1, <2>4, <3>1, <3>2
    <3> HIDE DEF Right
    <3> QED
      BY <2>1, <3>3
  <2> QED
    BY <2>3, <2>4
<1>7. n \in S
  <2> HIDE DEF S
  <2>1. 0..n \subseteq S
    BY <1>5, <1>6, Induction
  <2> QED
    BY <2>1
<1> QED
  BY <1>7 DEF F, LastByte

LEMMA Trimmed ==
  ASSUME NEW x, NEW c, Holds(x, c), NEW set
  PROVE  LET keep == {i \in 1..Len(c) : c[i] \notin set \cup {0}}
             d == IF keep = {} THEN <<>> ELSE SubSeq(c, Min(keep), Max(keep))
         IN  Holds(sdstrim(x, set), d) /\ Within(d, c)
<1> DEFINE Z == set \cup {0}
           l == x.len
           b == x.buf
           sp == CHOOSE f : f = [i \in 0..l |-> IF i < l /\ b[i + 1] \in Z THEN f[i + 1] ELSE i]
           k == sp[0]
           e == LastByte(l, b, Z, k)
           n == IF k > e THEN 0 ELSE e - k + 1
           keep == {i \in 1..Len(c) : c[i] \notin Z}
<1>1. l = Len(c) /\ l \in Nat /\ c \in Seq(Cell) /\ \A j \in 1..l : b[j] = c[j]
  BY HoldsIs
<1>2. sdstrim(x, set) = End(Write(x, 0, SubSeq(b, k + 1, k + n)), n)
  BY DEF sdstrim, Trims, LastByte
<1>3. /\ k \in 0..l /\ \A j \in 0..(k - 1) : b[j + 1] \in Z
      /\ k = l \/ b[k + 1] \notin Z
  <2> HIDE DEF l, b, Z
  <2> QED
    BY <1>1, FirstLeft
<1> HIDE DEF sp
<1>4. /\ e \in -1..(l - 1) /\ \A j \in (e + 1)..(l - 1) : j > k /\ b[j + 1] \in Z
      /\ e <= k \/ b[e + 1] \notin Z
  <2>1. k \in 0..l
    BY <1>3
  <2> HIDE DEF l, b, Z, k
  <2> QED
    BY <1>1, <2>1, LastLeft
<1> HIDE DEF k, e, Z, b, l
<1>5. CASE k = l
  <2>1. keep = {}
    <3>1. ASSUME NEW i \in 1..Len(c)
          PROVE  c[i] \in Z
      <4>1. i - 1 \in 0..(k - 1) /\ (i - 1) + 1 = i /\ i \in 1..l
        BY <1>1, <1>5
      <4>2. b[i] \in Z
        BY <1>3, <4>1
      <4> QED
        BY <1>1, <4>1, <4>2
    <3> QED
      BY <3>1
  <2>2. n = 0
    BY <1>3, <1>4, <1>5
  <2> HIDE DEF n
  <2>3. SubSeq(c, k + 1, k + n) = <<>>
    BY <1>1, <1>3, <2>2, EmptyPart
  <2>4. k \in Nat /\ n \in Nat /\ k + n <= Len(c)
    BY <1>1, <1>3, <1>5, <2>2
  <2>5. Holds(End(Write(x, 0, SubSeq(b, k + 1, k + n)), n), SubSeq(c, k + 1, k + n))
    BY <2>4, CutOut DEF b
  <2>6. Within(SubSeq(c, k + 1, k + n), c)
    BY <1>1, <2>4, WithinIs
  <2> QED
    BY <1>2, <2>1, <2>3, <2>5, <2>6 DEF Z
<1>6. CASE k < l
  <2>1. b[k + 1] \notin Z
    BY <1>3, <1>6
  <2>2. e >= k
    <3>1. ~(k \in (e + 1)..(l - 1))
      BY <1>3, <1>4
    <3> QED
      BY <1>1, <1>3, <1>4, <1>6, <3>1
  <2>3. b[e + 1] \notin Z
    <3>1. CASE e = k
      BY <2>1, <3>1
    <3>2. CASE e # k
      BY <1>1, <1>3, <1>4, <2>2, <3>2
    <3> QED
      BY <3>1, <3>2
  <2>4. k + 1 \in keep /\ \A i \in keep : k + 1 <= i
    <3>1. k + 1 \in 1..l /\ c[k + 1] \notin Z
      BY <1>1, <1>3, <1>6, <2>1
    <3>2. ASSUME NEW i \in 1..l, i < k + 1
          PROVE  c[i] \in Z
      <4>1. i - 1 \in 0..(k - 1) /\ (i - 1) + 1 = i
        BY <1>1, <1>3, <3>2
      <4> QED
        BY <1>1, <1>3, <4>1
    <3>3. ASSUME NEW i \in 1..l, c[i] \notin Z
          PROVE  k + 1 <= i
      BY <1>1, <1>3, <3>2, <3>3
    <3> QED
      BY <1>1, <3>1, <3>3
  <2>5. e + 1 \in keep /\ \A i \in keep : e + 1 >= i
    <3>1. e + 1 \in 1..l /\ c[e + 1] \notin Z
      BY <1>1, <1>3, <1>4, <2>2, <2>3
    <3>2. ASSUME NEW i \in 1..l, i > e + 1
          PROVE  c[i] \in Z
      <4>1. i - 1 \in (e + 1)..(l - 1) /\ (i - 1) + 1 = i
        BY <1>1, <1>4, <3>2
      <4> QED
        BY <1>1, <1>4, <4>1
    <3>3. ASSUME NEW i \in 1..l, c[i] \notin Z
          PROVE  e + 1 >= i
      BY <1>1, <1>4, <3>2, <3>3
    <3> QED
      BY <1>1, <3>1, <3>3
  <2>6. keep \subseteq Int
    OBVIOUS
  <2> HIDE DEF keep
  <2>7. Min(keep) = k + 1
    <3>1. Min(keep) \in keep /\ \A i \in keep : Min(keep) <= i
      BY <2>4 DEF Min
    <3>2. Min(keep) <= k + 1 /\ k + 1 <= Min(keep) /\ Min(keep) \in Int /\ k + 1 \in Int
      BY <2>4, <2>6, <3>1
    <3> QED
      BY <3>2
  <2>8. Max(keep) = e + 1
    <3>1. Max(keep) \in keep /\ \A i \in keep : Max(keep) >= i
      BY <2>5 DEF Max
    <3>2. Max(keep) <= e + 1 /\ e + 1 <= Max(keep) /\ Max(keep) \in Int /\ e + 1 \in Int
      BY <2>5, <2>6, <3>1
    <3> QED
      BY <3>2
  <2>9. n \in Nat /\ k \in Nat /\ k + n = e + 1 /\ k + n <= Len(c)
    BY <1>1, <1>3, <1>4, <2>2
  <2> HIDE DEF n
  <2>10. Holds(End(Write(x, 0, SubSeq(b, k + 1, k + n)), n), SubSeq(c, k + 1, k + n))
    BY <2>9, CutOut DEF b
  <2>11. keep # {}
    BY <2>4
  <2>12. Within(SubSeq(c, k + 1, k + n), c)
    BY <1>1, <2>9, WithinIs
  <2> QED
    BY <1>2, <2>7, <2>8, <2>9, <2>10, <2>11, <2>12 DEF keep, Z
<1> QED
  BY <1>1, <1>3, <1>5, <1>6

(* The first zero byte of the buffer is that of the content, or ends it.   *)
LEMMA Updated ==
  ASSUME NEW x, NEW c, Holds(x, c)
  PROVE  Holds(sdsupdatelen(x), UpTo(0, c)) /\ Within(UpTo(0, c), c)
<1> DEFINE t == c \o <<0>>
           I == {i \in 1..Len(x.buf) : x.buf[i] = 0}
           J == {i \in 1..Len(t) : t[i] = 0}
           l == Len(c)
<1>1. /\ Housed(x) /\ c \in Seq(Cell) /\ x.len = l /\ l \in Nat
      /\ Len(x.buf) \in Nat /\ l < Len(x.buf) /\ l < Limit[x.type + 1]
      /\ Limit[x.type + 1] \in Nat
      /\ \A j \in 1..l : x.buf[j] = c[j]
      /\ x.buf[l + 1] = 0
  BY HoldsIs
<1>2. /\ Len(t) = l + 1 /\ t[l + 1] = 0 /\ \A j \in 1..l : t[j] = c[j]
  BY <1>1
<1> HIDE DEF t, l
<1>3. l + 1 \in I /\ l + 1 \in J /\ I \subseteq Nat /\ J \subseteq Nat
  BY <1>1, <1>2
<1>4. \A i \in 1..(l + 1) : i \in I <=> i \in J
  <2>1. \A i \in 1..(l + 1) : i \in 1..l \/ i = l + 1
    BY <1>1
  <2>2. \A i \in 1..(l + 1) : x.buf[i] = t[i]
    BY <1>1, <1>2, <2>1
  <2>3. \A i \in 1..(l + 1) : i \in 1..Len(x.buf) /\ i \in 1..Len(t)
    BY <1>1, <1>2
  <2> QED
    BY <2>2, <2>3
<1>5. J \subseteq 1..(l + 1) /\ I \subseteq 1..Len(x.buf)
  BY <1>2
<1>6. SelectInSeq(x.buf, LAMBDA a : a = 0) = IF I # {} THEN Min(I) ELSE 0
  BY DEF SelectInSeq
<1>7. SelectInSeq(t, LAMBDA a : a = 0) = IF J # {} THEN Min(J) ELSE 0
  BY DEF SelectInSeq
<1> HIDE DEF I, J
<1>8. Min(I) \in I /\ \A i \in I : Min(I) <= i
  <2>1. \E p \in I : \A i \in I : p <= i
    BY <1>3, LeastNatural
  <2> QED
    BY <2>1 DEF Min
<1>9. Min(J) \in J /\ \A i \in J : Min(J) <= i
  <2>1. \E p \in J : \A i \in J : p <= i
    BY <1>3, LeastNatural
  <2> QED
    BY <2>1 DEF Min
<1> DEFINE p == Min(I)
           q == Min(J)
<1>10. p \in 1..(l + 1) /\ q \in 1..(l + 1)
  <2>1. p <= l + 1 /\ p \in 1..Len(x.buf) /\ q \in 1..(l + 1)
    BY <1>3, <1>5, <1>8, <1>9
  <2> HIDE DEF p
  <2> QED
    BY <1>1, <2>1
<1>11. p = q
  <2>1. p \in J /\ q \in I
    BY <1>4, <1>8, <1>9, <1>10
  <2>2. q <= p /\ p <= q
    BY <1>8, <1>9, <2>1
  <2> HIDE DEF p, q
  <2> QED
    BY <1>10, <2>2
<1>12. x.buf[p] = 0
  BY <1>8 DEF I
<1>13. strlen(x) = p - 1
  BY <1>3, <1>6 DEF strlen
<1>14. UpTo(0, c) = SubSeq(c, 1, p - 1)
  BY <1>3, <1>7, <1>11 DEF UpTo, t
<1> HIDE DEF p, q
<1> DEFINE d == SubSeq(c, 1, p - 1)
           y == sdssetlen(x, p - 1)
<1>15. p - 1 \in Nat /\ p - 1 < Limit[x.type + 1] /\ p - 1 < Len(x.buf) /\ p - 1 <= l
  BY <1>1, <1>10
<1>16. d \in Seq(Cell) /\ Len(d) = p - 1 /\ \A j \in 1..(p - 1) : d[j] = c[j]
  BY <1>1, <1>15 DEF l
<1> HIDE DEF d
<1>17. Housed(y) /\ y.len = p - 1 /\ y.buf = x.buf
  BY <1>1, <1>15, SetLen
<1> HIDE DEF y
<1>18. /\ y.buf[y.len + 1] = 0
       /\ \A j \in 1..Len(d) : y.buf[j] = d[j]
  <2>1. (p - 1) + 1 = p /\ \A j \in 1..(p - 1) : j \in 1..l
    BY <1>1, <1>10
  <2> QED
    BY <1>1, <1>12, <1>16, <1>17, <2>1
<1>19. Holds(y, d)
  BY <1>16, <1>17, <1>18 DEF Holds
<1>20. Within(d, c)
  <2>1. Len(d) <= Len(c) /\ \A j \in 1..Len(d) : j \in 1..Len(c)
    BY <1>1, <1>15, <1>16 DEF l
  <2> QED
    BY <1>16, <2>1 DEF Within
<1> QED
  BY <1>13, <1>14, <1>19, <1>20 DEF sdsupdatelen, y, d

-----------------------------------------------------------------------------
(* A byte for a byte.                                                      *)
LEMMA Overwritten ==
  ASSUME NEW x, NEW c, Holds(x, c), NEW d \in Seq(Cell), Len(d) = Len(c)
  PROVE  Holds(Write(x, 0, d), d)
<1> DEFINE y == Write(x, 0, d)
<1>1. /\ Housed(x) /\ x.len = Len(c) /\ Len(c) \in Nat /\ Len(x.buf) \in Nat
      /\ Len(c) < Len(x.buf) /\ x.buf[Len(c) + 1] = 0
  BY HoldsIs
<1>2. PICK z \in Nat : z = 0
  OBVIOUS
<1>3. z + Len(d) = Len(c) /\ z + Len(d) <= Len(x.buf)
  BY <1>1, <1>2
<1>4. /\ Housed(y) /\ y.len = x.len /\ Len(y.buf) = Len(x.buf)
      /\ \A j \in 1..Len(x.buf) :
           y.buf[j] = IF j > z /\ j <= z + Len(d) THEN d[j - z] ELSE x.buf[j]
  BY <1>1, <1>2, <1>3, Written
<1> HIDE DEF y
<1>5. y.buf[Len(c) + 1] = 0
  BY <1>1, <1>3, <1>4
<1>6. \A j \in 1..Len(d) : y.buf[j] = d[j]
  <2>1. ASSUME NEW j \in 1..Len(d)
        PROVE  y.buf[j] = d[j]
    <3>1. j \in 1..Len(x.buf) /\ j > z /\ j <= z + Len(d) /\ j - z = j
      BY <1>1, <1>2, <1>3
    <3> QED
      BY <1>4, <3>1
  <2> QED
    BY <2>1
<1>7. Holds(y, d)
  BY <1>1, <1>4, <1>5, <1>6 DEF Holds
<1> QED
  BY <1>7 DEF y

Hits(from, v) == {i \in 1..Len(from) : from[i] = v}
Turned(from, to, v) == IF v \in Range(from) THEN to[SelectInSeq(from, LAMBDA c : c = v)] ELSE v
Mapped(c, from, to) == [i \in 1..Len(c) |-> Turned(from, to, c[i])]

LEMMA TurnedIs ==
  ASSUME NEW from, NEW to, NEW v, DOMAIN from = 1..Len(from)
  PROVE  Turned(from, to, v) = IF Hits(from, v) = {} THEN v ELSE to[Min(Hits(from, v))]
<1>1. v \in Range(from) <=> Hits(from, v) # {}
  BY DEF Range, Hits
<1>2. SelectInSeq(from, LAMBDA c : c = v)
        = IF Hits(from, v) # {} THEN Min(Hits(from, v)) ELSE 0
  BY DEF SelectInSeq, Hits
<1> QED
  BY <1>1, <1>2 DEF Turned

LEMMA OneHit ==
  ASSUME NEW i \in Int
  PROVE  Min({i}) = i
<1>1. \E p \in {i} : \A q \in {i} : p <= q
  OBVIOUS
<1>2. Min({i}) \in {i}
  BY <1>1 DEF Min
<1> QED
  BY <1>2

LEMMA MappedIs ==
  ASSUME NEW c \in Seq(Cell), NEW from, NEW to,
         \A v \in Cell : Turned(from, to, v) \in Cell
  PROVE  Mapped(c, from, to) \in Seq(Cell) /\ Len(Mapped(c, from, to)) = Len(c)
<1>1. \A i \in 1..Len(c) : Turned(from, to, c[i]) \in Cell
  OBVIOUS
<1>2. Mapped(c, from, to) \in [1..Len(c) -> Cell]
  BY <1>1 DEF Mapped
<1> QED
  BY <1>2


LEMMA ReplacedByte ==
  /\ \A v \in Cell : Turned(<<97, 0>>, <<65, 97>>, v) \in Cell
  /\ \A v \in Byte : Turned(<<97, 0>>, <<65, 97>>, v) \in Byte
<1> DEFINE from == <<97, 0>>
           to == <<65, 97>>
<1>1. DOMAIN from = 1..Len(from) /\ Len(from) = 2 /\ from[1] = 97 /\ from[2] = 0
  OBVIOUS
<1>2. to[1] = 65 /\ to[2] = 97
  OBVIOUS
<1> HIDE DEF from, to
<1>3. ASSUME NEW v \in Cell
      PROVE  Turned(from, to, v) \in {v, 65, 97}
  <2>1. Turned(from, to, v) = IF Hits(from, v) = {} THEN v ELSE to[Min(Hits(from, v))]
    BY <1>1, TurnedIs
  <2>2. CASE v = 97
    <3>1. Hits(from, v) = {1}
      BY <1>1, <2>2 DEF Hits
    <3>2. Min(Hits(from, v)) = 1
      BY <3>1, OneHit
    <3> QED
      BY <1>2, <2>1, <3>1, <3>2
  <2>3. CASE v = 0
    <3>1. Hits(from, v) = {2}
      BY <1>1, <2>3 DEF Hits
    <3>2. Min(Hits(from, v)) = 2
      BY <3>1, OneHit
    <3> QED
      BY <1>2, <2>1, <3>1, <3>2
  <2>4. CASE v # 97 /\ v # 0
    <3>1. Hits(from, v) = {}
      BY <1>1, <2>4 DEF Hits
    <3> QED
      BY <2>1, <3>1
  <2> QED
    BY <2>2, <2>3, <2>4
<1>4. Byte \subseteq Cell /\ 65 \in Byte /\ 97 \in Byte
  BY DEF Byte, Cell
<1>5. /\ \A v \in Cell : Turned(from, to, v) \in Cell
      /\ \A v \in Byte : Turned(from, to, v) \in Byte
  BY <1>3, <1>4
<1> QED
  BY <1>5 DEF from, to

LEMMA Replaced ==
  ASSUME NEW x, NEW c, Holds(x, c)
  PROVE  Holds(sdsmapchars(x, <<97, 0>>, <<65, 97>>), Mapped(c, <<97, 0>>, <<65, 97>>))
<1> DEFINE from == <<97, 0>>
           to == <<65, 97>>
           d == Mapped(c, from, to)
           w == [i \in 1..x.len |-> IF Hits(from, x.buf[i]) = {} THEN x.buf[i]
                                    ELSE to[Min(Hits(from, x.buf[i]))]]
<1>1. x.len = Len(c) /\ Len(c) \in Nat /\ c \in Seq(Cell) /\ \A i \in 1..Len(c) : x.buf[i] = c[i]
  BY HoldsIs
<1>2. sdsmapchars(x, from, to) = Write(x, 0, w)
  BY DEF sdsmapchars, Hits
<1>3. DOMAIN from = 1..Len(from) /\ Len(from) = 2 /\ from[1] = 97 /\ from[2] = 0
  OBVIOUS
<1> HIDE DEF from, to
<1>4. w = d
  <2>1. ASSUME NEW i \in 1..Len(c)
        PROVE  Turned(from, to, c[i]) = IF Hits(from, x.buf[i]) = {} THEN x.buf[i]
                                        ELSE to[Min(Hits(from, x.buf[i]))]
    <3>1. x.buf[i] = c[i]
      BY <1>1
    <3> QED
      BY <1>3, <3>1, TurnedIs
  <2> QED
    BY <1>1, <2>1 DEF Mapped
<1> HIDE DEF w
<1>5. \A v \in Cell : Turned(from, to, v) \in Cell
  BY ReplacedByte DEF from, to
<1>6. d \in Seq(Cell) /\ Len(d) = Len(c)
  BY <1>1, <1>5, MappedIs
<1> HIDE DEF d
<1>7. Holds(Write(x, 0, d), d)
  BY <1>6, Overwritten
<1> QED
  BY <1>2, <1>4, <1>7 DEF d, from, to

LEMMA LettersAre ==
  /\ Len(Capitals) = 26 /\ DOMAIN Capitals = 1..26 /\ \A i \in 1..26 : Capitals[i] = 64 + i
  /\ Len(Smalls) = 26 /\ DOMAIN Smalls = 1..26 /\ \A i \in 1..26 : Smalls[i] = 96 + i
<1>1. Capitals \in Seq(Int) /\ Smalls \in Seq(Int)
  <2>1. Capitals \in [1..26 -> Int]
    BY DEF Capitals
  <2>2. Smalls \in [1..26 -> Int]
    BY DEF Smalls
  <2>3. \A n \in Nat : \A f \in [1..n -> Int] : f \in Seq(Int)
    OBVIOUS
  <2>4. 26 \in Nat
    OBVIOUS
  <2> HIDE DEF Capitals, Smalls
  <2> QED
    BY <2>1, <2>2, <2>3, <2>4
<1>2. DOMAIN Capitals = 1..26 /\ \A i \in 1..26 : Capitals[i] = 64 + i
  BY DEF Capitals
<1>3. DOMAIN Smalls = 1..26 /\ \A i \in 1..26 : Smalls[i] = 96 + i
  BY DEF Smalls
<1>4. Len(Capitals) = 26 /\ Len(Smalls) = 26
  BY <1>1, <1>2, <1>3
<1> QED
  BY <1>2, <1>3, <1>4

LEMMA CaseIs ==
  ASSUME NEW v \in Cell
  PROVE  /\ Turned(Capitals, Smalls, v) = tolower(v) /\ tolower(v) \in Cell
         /\ Turned(Smalls, Capitals, v) = toupper(v) /\ toupper(v) \in Cell
<1>1. tolower(v) \in Cell /\ toupper(v) \in Cell
  BY DEF tolower, toupper, Cell
<1>2. Turned(Capitals, Smalls, v) = tolower(v)
  <2>1. Turned(Capitals, Smalls, v)
          = IF Hits(Capitals, v) = {} THEN v ELSE Smalls[Min(Hits(Capitals, v))]
    <3>1. DOMAIN Capitals = 1..Len(Capitals)
      BY LettersAre
    <3> QED
      BY <3>1, TurnedIs
  <2>2. CASE v \in 65..90
    <3>1. PICK i \in 1..26 : v = 64 + i
      <4>1. v - 64 \in 1..26 /\ v = 64 + (v - 64)
        BY <2>2
      <4> QED
        BY <4>1
    <3>2. Hits(Capitals, v) = {i}
      BY <3>1, LettersAre DEF Hits
    <3>3. Min(Hits(Capitals, v)) = i
      BY <3>2, OneHit
    <3>4. Smalls[i] = v + 32
      BY <3>1, LettersAre
    <3> QED
      BY <2>1, <2>2, <3>2, <3>3, <3>4 DEF tolower
  <2>3. CASE v \notin 65..90
    <3>1. Hits(Capitals, v) = {}
      BY <2>3, LettersAre DEF Hits
    <3> QED
      BY <2>1, <2>3, <3>1 DEF tolower
  <2> QED
    BY <2>2, <2>3
<1>3. Turned(Smalls, Capitals, v) = toupper(v)
  <2>1. Turned(Smalls, Capitals, v)
          = IF Hits(Smalls, v) = {} THEN v ELSE Capitals[Min(Hits(Smalls, v))]
    <3>1. DOMAIN Smalls = 1..Len(Smalls)
      BY LettersAre
    <3> QED
      BY <3>1, TurnedIs
  <2>2. CASE v \in 97..122
    <3>1. PICK i \in 1..26 : v = 96 + i
      <4>1. v - 96 \in 1..26 /\ v = 96 + (v - 96)
        BY <2>2
      <4> QED
        BY <4>1
    <3>2. Hits(Smalls, v) = {i}
      BY <3>1, LettersAre DEF Hits
    <3>3. Min(Hits(Smalls, v)) = i
      BY <3>2, OneHit
    <3>4. Capitals[i] = v - 32
      BY <3>1, LettersAre
    <3> QED
      BY <2>1, <2>2, <3>2, <3>3, <3>4 DEF toupper
  <2>3. CASE v \notin 97..122
    <3>1. Hits(Smalls, v) = {}
      BY <2>3, LettersAre DEF Hits
    <3> QED
      BY <2>1, <2>3, <3>1 DEF toupper
  <2> QED
    BY <2>2, <2>3
<1> QED
  BY <1>1, <1>2, <1>3

LEMMA CaseOfByte ==
  /\ \A v \in Byte : Turned(Capitals, Smalls, v) \in Byte
  /\ \A v \in Byte : Turned(Smalls, Capitals, v) \in Byte
<1>1. \A v \in Byte : v \in Cell /\ tolower(v) \in Byte /\ toupper(v) \in Byte
  BY DEF tolower, toupper, Byte, Cell
<1> QED
  BY <1>1, CaseIs

LEMMA Lowered ==
  ASSUME NEW x, NEW c, Holds(x, c)
  PROVE  /\ Holds(sdstolower(x), Mapped(c, Capitals, Smalls))
         /\ Holds(sdstoupper(x), Mapped(c, Smalls, Capitals))
<1> DEFINE d == Mapped(c, Capitals, Smalls)
           u == Mapped(c, Smalls, Capitals)
<1>1. x.len = Len(c) /\ Len(c) \in Nat /\ c \in Seq(Cell) /\ \A i \in 1..Len(c) : x.buf[i] = c[i]
  BY HoldsIs
<1>2. \A v \in Cell : Turned(Capitals, Smalls, v) = tolower(v)
                        /\ Turned(Smalls, Capitals, v) = toupper(v)
  BY CaseIs
<1>3. [i \in 1..x.len |-> tolower(x.buf[i])] = d
  <2>1. \A i \in 1..Len(c) : tolower(x.buf[i]) = Turned(Capitals, Smalls, c[i])
    BY <1>1, <1>2
  <2> QED
    BY <1>1, <2>1 DEF Mapped
<1>4. [i \in 1..x.len |-> toupper(x.buf[i])] = u
  <2>1. \A i \in 1..Len(c) : toupper(x.buf[i]) = Turned(Smalls, Capitals, c[i])
    BY <1>1, <1>2
  <2> QED
    BY <1>1, <2>1 DEF Mapped
<1>5. d \in Seq(Cell) /\ Len(d) = Len(c) /\ u \in Seq(Cell) /\ Len(u) = Len(c)
  BY <1>1, CaseIs, MappedIs
<1> HIDE DEF d, u
<1>6. Holds(Write(x, 0, d), d) /\ Holds(Write(x, 0, u), u)
  BY <1>5, Overwritten
<1> QED
  BY <1>3, <1>4, <1>6 DEF sdstolower, sdstoupper, d, u


-----------------------------------------------------------------------------
(* The steps.                                                              *)

(* Either there is no string, or there is one whose content is what was    *)
(* promised, and was all written.                                          *)
Sound(x, c) == Holds(x, c) /\ c \in Seq(Byte) /\ Len(c) <= MaxLen
IInv == (s = Null /\ bytes = <<>>) \/ Sound(s, bytes)

LEMMA BytesAreCells ==
  ASSUME NEW c \in Seq(Byte)
  PROVE  c \in Seq(Cell)
  BY DEF Cell, Byte

LEMMA PartOfBytes ==
  ASSUME NEW c \in Seq(Byte), Len(c) <= MaxLen, NEW d \in Seq(Cell), Within(d, c)
  PROVE  d \in Seq(Byte) /\ Len(d) <= MaxLen
<1>1. \A i \in 1..Len(c) : c[i] \in Byte
  OBVIOUS
<1>2. Len(d) <= Len(c) /\ Len(d) \in Nat /\ Len(c) \in Nat
  BY DEF Within
<1>3. \A j \in 1..Len(d) : d[j] \in Byte
  BY <1>1 DEF Within
<1>4. d \in Seq(Byte)
  <2>1. DOMAIN d = 1..Len(d) /\ d = [j \in DOMAIN d |-> d[j]]
    OBVIOUS
  <2>2. d \in [1..Len(d) -> Byte]
    BY <1>3, <2>1
  <2> QED
    BY <1>2, <2>2
<1>5. PICK m \in Nat : m = MaxLen
  BY Limits
<1> QED
  BY <1>2, <1>4, <1>5

LEMMA Settles ==
  ASSUME NEW x, NEW c, Holds(x, c), c \in Seq(Byte), Len(c) <= MaxLen,
         bytes' = c, Did(x)
  PROVE  IInv'
<1>1. Holds(s', c)
  BY SettledIs DEF Did
<1>2. Sound(s', bytes')
  BY <1>1 DEF Sound
<1> QED
  BY <1>2 DEF IInv

LEMMA KindsOfString ==
  /\ ~(Null.type >= 0) /\ Aborted.type < 0 /\ Aborted # Null
  /\ \A x, c : Holds(x, c) => x.type \in 0..4 /\ x # Null /\ x # Aborted
<1>1. Null.type = -1 /\ Aborted.type = -2
  BY Fields DEF Null, Aborted
<1>2. \A x, c : Holds(x, c) => x.type \in 0..4
  BY DEF Holds, Housed
<1> HIDE DEF Null, Aborted
<1> QED
  BY <1>1, <1>2

LEMMA Creates ==
  ASSUME Create
  PROVE  IInv'
<1>1. CASE \E t \in Texts : BecomesText(t) /\ Did(sdsnewlen(t))
  <2>1. PICK t \in Texts : bytes' = t /\ Did(sdsnewlen(t))
    BY <1>1 DEF BecomesText
  <2>2. t \in Seq(Byte) /\ Len(t) <= MaxLen
    BY SdsAssumption DEF Byte
  <2>3. Holds(sdsnewlen(t), t)
    BY <2>2, BytesAreCells, NewIs
  <2> QED
    BY <2>1, <2>2, <2>3, Settles
<1>2. CASE \E n \in 1..MaxLen :
             BecomesText(<<>>) /\ Did(sdsclear(sdsnewlen([i \in 1..n |-> Garbage])))
  <2>1. PICK n \in 1..MaxLen :
          bytes' = <<>> /\ Did(sdsclear(sdsnewlen([i \in 1..n |-> Garbage])))
    BY <1>2 DEF BecomesText
  <2> DEFINE b == [i \in 1..n |-> Garbage]
  <2>2. n \in Nat /\ n <= MaxLen
    BY Limits
  <2>3. b \in Seq(Cell) /\ Len(b) = n
    <3>1. b \in [1..n -> Cell]
      BY DEF Garbage, Cell
    <3> HIDE DEF b
    <3> QED
      BY <2>2, <3>1
  <2> HIDE DEF b
  <2>4. Holds(sdsclear(sdsnewlen(b)), <<>>)
    BY <2>2, <2>3, NewIs, Cleared
  <2>5. <<>> \in Seq(Byte) /\ Len(<<>>) <= MaxLen
    BY Limits
  <2>6. bytes' = <<>> /\ Did(sdsclear(sdsnewlen(b)))
    BY <2>1 DEF b
  <2> QED
    BY <2>4, <2>5, <2>6, Settles
<1> QED
  BY <1>1, <1>2 DEF Create

LEMMA SoundIs ==
  ASSUME NEW x, NEW c, Sound(x, c)
  PROVE  /\ Holds(x, c) /\ c \in Seq(Byte) /\ c \in Seq(Cell) /\ x.len = Len(c)
         /\ Len(c) \in Nat /\ Len(c) <= MaxLen /\ MaxLen \in Nat
  BY HoldsIs, BytesAreCells, Limits DEF Sound

(* Two contents end to end.                                                *)
LEMMA Joined ==
  ASSUME NEW c \in Seq(Byte), NEW t \in Seq(Byte), Len(c) + Len(t) <= MaxLen
  PROVE  c \o t \in Seq(Byte) /\ Len(c \o t) <= MaxLen
  OBVIOUS

LEMMA Extends ==
  ASSUME Sound(s, bytes), Extend
  PROVE  IInv'
<1>1. /\ Holds(s, bytes) /\ bytes \in Seq(Byte) /\ s.len = Len(bytes) /\ Len(bytes) \in Nat
      /\ Len(bytes) <= MaxLen /\ MaxLen \in Nat
  BY SoundIs
<1>2. \A t \in Texts : t \in Seq(Byte) /\ t \in Seq(Cell) /\ Len(t) \in Nat
  BY SdsAssumption, BytesAreCells DEF Byte
<1>3. CASE \E t \in Texts : Len(t) <= Room /\ GetsText(t) /\ Did(sdscatlen(s, t))
  <2>1. PICK t \in Texts : /\ Len(t) <= MaxLen - Len(bytes)
                           /\ bytes' = bytes \o t /\ Did(sdscatlen(s, t))
    BY <1>1, <1>3 DEF Room, GetsText
  <2>2. t \in Seq(Byte) /\ t \in Seq(Cell) /\ Len(bytes) + Len(t) <= MaxLen
    BY <1>1, <1>2, <2>1
  <2>3. Holds(sdscatlen(s, t), bytes \o t)
    BY <1>1, <2>2, Catted
  <2>4. bytes \o t \in Seq(Byte) /\ Len(bytes \o t) <= MaxLen
    BY <1>1, <2>2, Joined
  <2> QED
    BY <2>1, <2>3, <2>4, Settles
<1>4. CASE \E t \in Texts \ {<<>>} : \E n \in Len(t)..Room :
             /\ GetsText(t)
             /\ LET y == sdsMakeRoomFor(s, n)
                IN  Did(sdsIncrLen(Write(y, y.len, t), Len(t)))
  <2>1. PICK t \in Texts \ {<<>>} : \E n \in Len(t)..(MaxLen - Len(bytes)) :
             /\ bytes' = bytes \o t
             /\ LET y == sdsMakeRoomFor(s, n)
                IN  Did(sdsIncrLen(Write(y, y.len, t), Len(t)))
    BY <1>1, <1>4 DEF Room, GetsText
  <2>2. PICK n \in Len(t)..(MaxLen - Len(bytes)) :
             /\ bytes' = bytes \o t
             /\ LET y == sdsMakeRoomFor(s, n)
                IN  Did(sdsIncrLen(Write(y, y.len, t), Len(t)))
    BY <2>1
  <2> DEFINE z == LET y == sdsMakeRoomFor(s, n) IN sdsIncrLen(Write(y, y.len, t), Len(t))
  <2>3. bytes' = bytes \o t /\ Did(z)
    BY <2>2
  <2>4. t \in Seq(Byte) /\ t \in Seq(Cell) /\ Len(t) \in Nat
    BY <1>2
  <2>5. Len(t) # 0
    BY <2>4
  <2>6. /\ n \in Nat /\ Len(t) <= n /\ Len(bytes) + n <= MaxLen
        /\ Len(bytes) + Len(t) <= MaxLen
    BY <1>1, <2>4
  <2>7. Holds(z, bytes \o t)
    BY <1>1, <2>4, <2>5, <2>6, ReadIn
  <2> HIDE DEF z
  <2>8. bytes \o t \in Seq(Byte) /\ Len(bytes \o t) <= MaxLen
    BY <1>1, <2>4, <2>6, Joined
  <2> QED
    BY <2>3, <2>7, <2>8, Settles
<1>5. CASE \E n \in s.len..MaxLen : GrowsTo(n) /\ Did(sdsgrowzero(s, n))
  <2>1. PICK n \in Len(bytes)..MaxLen :
          /\ bytes' = bytes \o [i \in 1..(n - Len(bytes)) |-> 0] /\ Did(sdsgrowzero(s, n))
    BY <1>1, <1>5 DEF GrowsTo
  <2> DEFINE z == [i \in 1..(n - Len(bytes)) |-> 0]
  <2>2. n \in Nat /\ Len(bytes) <= n /\ n <= MaxLen
    BY <1>1
  <2>3. Holds(sdsgrowzero(s, n), bytes \o z)
    BY <1>1, <2>2, Grown
  <2>4. z \in Seq(Byte) /\ Len(bytes) + Len(z) <= MaxLen
    <3>1. PICK m \in Nat : m = n - Len(bytes)
      BY <1>1, <2>2
    <3>2. z \in [1..m -> Byte]
      BY <3>1 DEF Byte
    <3> HIDE DEF z
    <3>3. z \in Seq(Byte) /\ Len(z) = m
      BY <3>2
    <3> QED
      BY <1>1, <2>2, <3>1, <3>3
  <2> HIDE DEF z
  <2>5. bytes \o z \in Seq(Byte) /\ Len(bytes \o z) <= MaxLen
    BY <1>1, <2>4, Joined
  <2>6. bytes' = bytes \o z /\ Did(sdsgrowzero(s, n))
    BY <2>1 DEF z
  <2> QED
    BY <2>3, <2>5, <2>6, Settles
<1> QED
  BY <1>3, <1>4, <1>5 DEF Extend


LEMMA Changes ==
  ASSUME Sound(s, bytes), Change
  PROVE  IInv'
<1>1. /\ Holds(s, bytes) /\ bytes \in Seq(Byte) /\ bytes \in Seq(Cell)
      /\ s.len = Len(bytes) /\ Len(bytes) \in Nat
      /\ Len(bytes) <= MaxLen /\ MaxLen \in Nat
  BY SoundIs
\* A part of the content is made of its bytes.
<1>2. ASSUME NEW d, NEW x, Holds(x, d), Within(d, bytes), bytes' = d, Did(x)
      PROVE  IInv'
  <2>1. d \in Seq(Cell)
    BY <1>2, HoldsIs
  <2>2. d \in Seq(Byte) /\ Len(d) <= MaxLen
    BY <1>1, <1>2, <2>1, PartOfBytes
  <2> QED
    BY <1>2, <2>2, Settles
<1>3. CASE \E t \in Texts : BecomesText(t) /\ Did(sdscpylen(s, t))
  <2>1. PICK t \in Texts : bytes' = t /\ Did(sdscpylen(s, t))
    BY <1>3 DEF BecomesText
  <2>2. t \in Seq(Byte) /\ t \in Seq(Cell) /\ Len(t) <= MaxLen
    BY SdsAssumption, BytesAreCells DEF Byte
  <2>3. Holds(sdscpylen(s, t), t)
    BY <1>1, <2>2, Copied
  <2> QED
    BY <2>1, <2>2, <2>3, Settles
<1>4. CASE \E n \in 1..s.len : LosesTail(n) /\ Did(sdsIncrLen(s, -n))
  <2>1. PICK n \in 1..Len(bytes) :
          bytes' = SubSeq(bytes, 1, Len(bytes) - n) /\ Did(sdsIncrLen(s, -n))
    BY <1>1, <1>4 DEF LosesTail
  <2>2. Holds(sdsIncrLen(s, -n), SubSeq(bytes, 1, Len(bytes) - n))
    BY <1>1, Shortened
  <2>3. PICK z \in Nat : z = 0
    OBVIOUS
  <2>4. PICK k \in Nat : k = Len(bytes) - n
    <3>1. Len(bytes) - n \in Nat
      BY <1>1
    <3> QED
      BY <3>1
  <2>5. z + k <= Len(bytes) /\ z + 1 = 1 /\ z + k = Len(bytes) - n
    BY <1>1, <2>3, <2>4
  <2>6. Within(SubSeq(bytes, z + 1, z + k), bytes)
    BY <1>1, <2>5, WithinIs
  <2> QED
    BY <1>2, <2>1, <2>2, <2>5, <2>6
<1>5. CASE \E set \in Sets : LosesEnds(set \cup {0}) /\ Did(sdstrim(s, set))
  <2>1. PICK set \in Sets : LosesEnds(set \cup {0}) /\ Did(sdstrim(s, set))
    BY <1>5
  <2> DEFINE keep == {i \in 1..Len(bytes) : bytes[i] \notin set \cup {0}}
             d == IF keep = {} THEN <<>> ELSE SubSeq(bytes, Min(keep), Max(keep))
  <2>2. bytes' = d
    BY <2>1 DEF LosesEnds
  <2>3. Holds(sdstrim(s, set), d) /\ Within(d, bytes)
    BY <1>1, Trimmed
  <2> HIDE DEF d
  <2> QED
    BY <1>2, <2>1, <2>2, <2>3
<1>6. CASE \E i, j \in -(s.len + 1)..s.len : BecomesRange(i, j) /\ Did(sdsrange(s, i, j))
  <2>1. PICK i, j \in -(s.len + 1)..s.len : BecomesRange(i, j) /\ Did(sdsrange(s, i, j))
    BY <1>6
  <2>2. i \in Int /\ j \in Int
    BY <1>1
  <2> DEFINE d == SubSeq(bytes, At(bytes, i) + 1, Min({At(bytes, j) + 1, Len(bytes)}))
  <2>3. bytes' = d
    BY <2>1 DEF BecomesRange, At
  <2>4. Holds(sdsrange(s, i, j), d) /\ Within(d, bytes)
    BY <1>1, <2>2, Ranged
  <2> HIDE DEF d
  <2> QED
    BY <1>2, <2>1, <2>3, <2>4
\* Every byte of a mapped content is one.
<1>7. ASSUME NEW from, NEW to, NEW x, Holds(x, Mapped(bytes, from, to)),
             \A v \in Byte : Turned(from, to, v) \in Byte,
             IsMapped(from, to), Did(x)
      PROVE  IInv'
  <2> DEFINE d == Mapped(bytes, from, to)
  <2>1. bytes' = d
    BY <1>7 DEF IsMapped, Mapped, Turned
  <2>2. \A i \in 1..Len(bytes) : Turned(from, to, bytes[i]) \in Byte
    BY <1>1, <1>7
  <2>3. d \in [1..Len(bytes) -> Byte]
    BY <2>2 DEF Mapped
  <2> HIDE DEF d
  <2>4. d \in Seq(Byte) /\ Len(d) = Len(bytes)
    BY <1>1, <2>3
  <2>5. Holds(x, d)
    BY <1>7 DEF d
  <2> QED
    BY <1>1, <1>7, <2>1, <2>4, <2>5, Settles
<1>8. CASE IsMapped(<<97, 0>>, <<65, 97>>) /\ Did(sdsmapchars(s, <<97, 0>>, <<65, 97>>))
  <2>1. Holds(sdsmapchars(s, <<97, 0>>, <<65, 97>>), Mapped(bytes, <<97, 0>>, <<65, 97>>))
    BY <1>1, Replaced
  <2> QED
    BY <1>7, <1>8, <2>1, ReplacedByte
<1>9. CASE IsMapped(Capitals, Smalls) /\ Did(sdstolower(s))
  <2>1. Holds(sdstolower(s), Mapped(bytes, Capitals, Smalls))
    BY <1>1, Lowered
  <2> QED
    BY <1>7, <1>9, <2>1, CaseOfByte
<1>10. CASE IsMapped(Smalls, Capitals) /\ Did(sdstoupper(s))
  <2>1. Holds(sdstoupper(s), Mapped(bytes, Smalls, Capitals))
    BY <1>1, Lowered
  <2> QED
    BY <1>7, <1>10, <2>1, CaseOfByte
<1>11. CASE BecomesText(<<>>) /\ Did(sdsclear(s))
  <2>1. bytes' = <<>> /\ Did(sdsclear(s))
    BY <1>11 DEF BecomesText
  <2>2. Holds(sdsclear(s), <<>>)
    BY <1>1, Cleared
  <2>3. <<>> \in Seq(Byte) /\ Len(<<>>) <= MaxLen
    BY <1>1
  <2> QED
    BY <2>1, <2>2, <2>3, Settles
<1>12. CASE EndsAtZero /\ Did(sdsupdatelen(s))
  <2>1. bytes' = UpTo(0, bytes) /\ Did(sdsupdatelen(s))
    BY <1>12 DEF EndsAtZero
  <2>2. Holds(sdsupdatelen(s), UpTo(0, bytes)) /\ Within(UpTo(0, bytes), bytes)
    BY <1>1, Updated
  <2> QED
    BY <1>2, <2>1, <2>2
<1> QED
  BY <1>3, <1>4, <1>5, <1>6, <1>8, <1>9, <1>10, <1>11, <1>12 DEF Change


LEMMA Spaces ==
  ASSUME Sound(s, bytes), Space
  PROVE  IInv'
<1>1. /\ Holds(s, bytes) /\ bytes \in Seq(Byte) /\ s.len = Len(bytes) /\ Len(bytes) \in Nat
      /\ Len(bytes) <= MaxLen /\ MaxLen \in Nat
  BY SoundIs
<1>2. bytes' = bytes
  BY DEF Space, Stays
<1>3. CASE \E n \in 0..Room : Did(sdsMakeRoomFor(s, n))
  <2>1. PICK n \in 0..(MaxLen - Len(bytes)) : Did(sdsMakeRoomFor(s, n))
    BY <1>1, <1>3 DEF Room
  <2>2. n \in Nat /\ Len(bytes) + n <= MaxLen
    BY <1>1
  <2>3. Holds(sdsMakeRoomFor(s, n), bytes)
    BY <1>1, <2>2, RoomIs
  <2> QED
    BY <1>1, <1>2, <2>1, <2>3, Settles
<1>4. CASE Did(sdsRemoveFreeSpace(s))
  <2>1. Holds(sdsRemoveFreeSpace(s), bytes)
    BY <1>1, Tightened
  <2> QED
    BY <1>1, <1>2, <1>4, <2>1, Settles
<1>5. CASE Did(sdsdup(s))
  <2>1. Holds(sdsdup(s), bytes)
    BY <1>1, Duplicated
  <2> QED
    BY <1>1, <1>2, <1>5, <2>1, Settles
<1> QED
  BY <1>3, <1>4, <1>5 DEF Space

LEMMA InitIInv ==
  ASSUME StrInit
  PROVE  IInv
  BY DEF StrInit, IInv

LEMMA NextIInv ==
  ASSUME IInv, [StrNext]_strvars
  PROVE  IInv'
<1>1. CASE UNCHANGED strvars
  <2>1. s' = s /\ bytes' = bytes
    BY <1>1 DEF strvars
  <2> QED
    BY <2>1 DEF IInv
<1>2. CASE Create
  BY <1>2, Creates
<1>3. CASE alive /\ (Extend \/ Change \/ Space \/ sdsfree)
  <2>1. Sound(s, bytes)
    <3>1. s # Null
      BY <1>3, KindsOfString DEF alive
    <3> QED
      BY <3>1 DEF IInv
  <2>2. CASE sdsfree
    BY <2>2 DEF sdsfree, BecomesText, IInv
  <2> QED
    BY <1>3, <2>1, <2>2, Extends, Changes, Spaces
<1> QED
  BY <1>1, <1>2, <1>3 DEF StrNext

LEMMA InvariantIInv == StrSpec => []IInv
<1>1. StrInit => IInv
  BY InitIInv
<1>2. IInv /\ [StrNext]_strvars => IInv'
  BY NextIInv
<1> QED
  BY <1>1, <1>2, PTL DEF StrSpec

(* A string that exists sits in its header and its block as sds.h wants:   *)
(* its length is within what the header says is allocated, that is what    *)
(* the block has, nothing was written behind it, the terminator is where   *)
(* the content ends, and all of the content was written, whatever calls of *)
(* sds.c made it and changed it.                                           *)
THEOREM HeaderAlwaysFits == StrSpec => []HeaderFits
<1>1. ASSUME Sound(s, bytes)
      PROVE  HeaderFits
  <2>1. /\ Holds(s, bytes) /\ Housed(s) /\ bytes \in Seq(Byte)
        /\ s.len = Len(bytes) /\ Len(bytes) \in Nat
        /\ Len(s.buf) \in Nat /\ Len(bytes) < Len(s.buf)
        /\ s.buf[Len(bytes) + 1] = 0 /\ s.type \in 0..4
    BY <1>1, SoundIs, HoldsIs
  <2>2. sdsHdrSize(s.type) \in Nat
    BY <2>1, HdrSizeIs
  <2>3. /\ s.heap = sdsHdrSize(s.type) + Len(s.buf)
        /\ s.type # 0 => s.alloc \in Nat /\ Len(s.buf) = s.alloc + 1
    BY <2>1 DEF Housed
  <2>4. sdsHdrSize(s.type) + Len(s.buf) = s.heap
    BY <2>3
  <2>5. /\ s.len <= sdsalloc(s) /\ sdsAllocSize(s) <= s.heap
        /\ s.type # 0 => sdsAllocSize(s) = s.heap
    <3>1. CASE s.type = 0
      BY <2>1, <2>2, <2>3, <3>1 DEF sdsalloc, sdsAllocSize
    <3>2. CASE s.type # 0
      BY <2>1, <2>2, <2>3, <3>2 DEF sdsalloc, sdsAllocSize
    <3> QED
      BY <3>1, <3>2
  <2>6. Garbage \notin Range(Content(s))
    <3>1. Content(s) = bytes
      BY <2>1, ContentIs
    <3>2. \A i \in DOMAIN bytes : bytes[i] \in Byte
      BY <2>1
    <3>3. Garbage \notin Byte
      BY DEF Garbage, Byte
    <3> QED
      BY <3>1, <3>2, <3>3 DEF Range
  <2> QED
    BY <2>1, <2>4, <2>5, <2>6 DEF HeaderFits
<1>2. ASSUME s = Null
      PROVE  HeaderFits
  <2>1. ~alive
    BY <1>2, KindsOfString DEF alive
  <2> QED
    BY <2>1 DEF HeaderFits
<1>3. IInv => HeaderFits
  BY <1>1, <1>2 DEF IInv
<1> QED
  BY <1>3, InvariantIInv, PTL

(* The content of the string is what the calls so far promise, byte for    *)
(* byte, and the assertions of sdsIncrLen() hold: what the comments of     *)
(* sds.c say of each call is true in every header and with every spare     *)
(* space the calls before it may have left.                                *)
THEOREM ContentAlwaysExact == StrSpec => []ContentExact
<1>1. ASSUME Sound(s, bytes)
      PROVE  ContentExact
  <2>1. Holds(s, bytes)
    BY <1>1 DEF Sound
  <2>2. Content(s) = bytes /\ s # Aborted
    BY <2>1, ContentIs, KindsOfString
  <2> QED
    BY <2>2 DEF ContentExact
<1>2. ASSUME s = Null, bytes = <<>>
      PROVE  ContentExact
  <2>1. s # Aborted
    BY <1>2, KindsOfString
  <2>2. s.buf = <<>> /\ s.len = 0
    BY <1>2, Fields DEF Null
  <2>3. Content(s) = <<>>
    BY <2>2 DEF Content
  <2> QED
    BY <1>2, <2>1, <2>3 DEF ContentExact
<1>3. IInv => ContentExact
  BY <1>1, <1>2 DEF IInv
<1> QED
  BY <1>3, InvariantIInv, PTL
===============================================================================
