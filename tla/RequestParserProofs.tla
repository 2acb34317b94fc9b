------------------------- MODULE RequestParserProofs -------------------------
(***************************************************************************)
(* Theorems about the request parser.                                      *)
(***************************************************************************)
EXTENDS RequestParser, SequenceTheorems, Facts

(* All strings; the provers do not know that these are some.               *)
Byte == STRING \cup {"*", "$", "CR", "LF"}

WellFormed(reqs) ==
  /\ reqs \in Seq(Seq(Seq(STRING)))
  /\ \A i \in 1..Len(reqs) :
       /\ Len(reqs[i]) \in Written \cap (1..MaxMultibulk)
       /\ \A j \in 1..Len(reqs[i]) : Len(reqs[i][j]) \in Written \cap (0..MaxBulkLen)

-----------------------------------------------------------------------------
(* How an argument, a request and all requests are laid out.               *)
LEMMA WrittenDigit ==
  ASSUME NEW n \in Written
  PROVE  DigitOf(n) \in DOMAIN Digits /\ Digits[DigitOf(n)] = n /\ DigitOf(n) \in Byte
<1>1. DigitOf(n) \in DOMAIN Digits /\ Digits[DigitOf(n)] = n
  BY DEF Written, DigitOf
<1> QED
  BY <1>1, DigitsAssumption DEF Byte

LEMMA ByteSeq ==
  ASSUME NEW s \in Seq(STRING)
  PROVE  s \in Seq(Byte)
<1>1. \A i \in 1..Len(s) : s[i] \in Byte
  BY DEF Byte
<1> QED
  BY <1>1

LEMMA Joined ==
  ASSUME NEW s \in Seq(Byte), NEW t \in Seq(Byte)
  PROVE  /\ s \o t \in Seq(Byte) /\ Len(s \o t) = Len(s) + Len(t)
         /\ \A i \in 1..Len(s) : (s \o t)[i] = s[i]
         /\ \A i \in 1..Len(t) : (s \o t)[Len(s) + i] = t[i]
  OBVIOUS

LEMMA Pair ==
  ASSUME NEW S, NEW a \in S, NEW b \in S
  PROVE  <<a, b>> \in Seq(S) /\ Len(<<a, b>>) = 2 /\ <<a, b>>[1] = a /\ <<a, b>>[2] = b
  OBVIOUS

(* What begins with a header and goes on with t.                           *)
LEMMA HeaderLayout ==
  ASSUME NEW b \in Byte, NEW n \in Written, NEW t \in Seq(Byte)
  PROVE  LET e == <<b, DigitOf(n)>> \o CRLF \o t IN
         /\ e \in Seq(Byte) /\ Len(e) = 4 + Len(t)
         /\ e[1] = b /\ e[2] = DigitOf(n) /\ e[3] = "CR"
         /\ \A i \in 1..Len(t) : e[4 + i] = t[i]
<1> DEFINE d == DigitOf(n)
           h == <<b, d>> \o CRLF
           e == h \o t
<1>1. d \in Byte /\ "CR" \in Byte /\ "LF" \in Byte
  BY WrittenDigit DEF Byte
<1> HIDE DEF d
<1>2. CRLF \in Seq(Byte) /\ Len(CRLF) = 2 /\ CRLF[1] = "CR"
  BY <1>1, Pair DEF CRLF
<1>3. h \in Seq(Byte) /\ Len(h) = 4 /\ h[1] = b /\ h[2] = d /\ h[3] = "CR"
  <2> DEFINE p == <<b, d>>
  <2>1. p \in Seq(Byte) /\ Len(p) = 2 /\ p[1] = b /\ p[2] = d
    BY <1>1, Pair
  <2> HIDE DEF p
  <2> DEFINE q == p \o CRLF
  <2>2. /\ q \in Seq(Byte) /\ Len(q) = Len(p) + Len(CRLF)
        /\ \A i \in 1..Len(p) : q[i] = p[i]
        /\ \A i \in 1..Len(CRLF) : q[Len(p) + i] = CRLF[i]
    BY <1>2, <2>1, Joined
  <2> HIDE DEF q
  <2>3. q \in Seq(Byte) /\ Len(q) = 4 /\ q[1] = b /\ q[2] = d /\ q[2 + 1] = "CR"
    BY <1>2, <2>1, <2>2
  <2> QED
    BY <2>3 DEF p, q
<1> HIDE DEF h
<1>4. /\ e \in Seq(Byte) /\ Len(e) = 4 + Len(t)
      /\ e[1] = b /\ e[2] = d /\ e[3] = "CR"
      /\ \A i \in 1..Len(t) : e[4 + i] = t[i]
  <2>1. /\ e \in Seq(Byte) /\ Len(e) = Len(h) + Len(t)
        /\ \A i \in 1..Len(h) : e[i] = h[i]
        /\ \A i \in 1..Len(t) : e[Len(h) + i] = t[i]
    BY <1>3, Joined
  <2> HIDE DEF e
  <2> QED
    BY <1>3, <2>1
<1> QED
  BY <1>4 DEF h, d

LEMMA ArgLayout ==
  ASSUME NEW arg \in Seq(STRING), Len(arg) \in Written
  PROVE  LET e == EncodeArg(arg) IN
         /\ e \in Seq(Byte) /\ Len(e) = Len(arg) + 6
         /\ e[1] = "$" /\ e[2] = DigitOf(Len(arg)) /\ e[3] = "CR"
         /\ \A i \in 1..Len(arg) : e[4 + i] = arg[i]
<1> DEFINE h == <<"$", DigitOf(Len(arg))>>
           t == arg \o CRLF
<1>1. "CR" \in Byte /\ "LF" \in Byte /\ "$" \in Byte /\ arg \in Seq(Byte)
  BY ByteSeq DEF Byte
<1>2. CRLF \in Seq(Byte) /\ Len(CRLF) = 2
  BY <1>1 DEF CRLF
<1>3. t \in Seq(Byte) /\ Len(t) = Len(arg) + 2 /\ \A i \in 1..Len(arg) : t[i] = arg[i]
  <2>1. /\ t \in Seq(Byte) /\ Len(t) = Len(arg) + Len(CRLF)
        /\ \A i \in 1..Len(arg) : t[i] = arg[i]
    BY <1>1, <1>2, Joined
  <2> HIDE DEF t
  <2> QED
    BY <1>2, <2>1
<1>4. h \in Seq(Byte)
  BY <1>1, WrittenDigit, Pair
<1>5. EncodeArg(arg) = h \o CRLF \o t
  <2>1. EncodeArg(arg) = ((h \o CRLF) \o arg) \o CRLF
    BY DEF EncodeArg
  <2>2. h \o CRLF \in Seq(Byte)
    BY <1>2, <1>4
  <2> HIDE DEF h
  <2> QED
    <3> DEFINE u == h \o CRLF
    <3>1. (u \o arg) \o CRLF = u \o (arg \o CRLF)
      <4>1. u \in Seq(Byte)
        BY <2>2
      <4> HIDE DEF u
      <4> QED
        <5>1. arg \in Seq(Byte) /\ CRLF \in Seq(Byte)
          BY <1>1, <1>2
        <5> QED
          BY <4>1, <5>1, ConcatAssociative
    <3> QED
      BY <2>1, <3>1
<1> HIDE DEF t
<1>6. LET e == <<"$", DigitOf(Len(arg))>> \o CRLF \o t IN
      /\ e \in Seq(Byte) /\ Len(e) = 4 + Len(t)
      /\ e[1] = "$" /\ e[2] = DigitOf(Len(arg)) /\ e[3] = "CR"
      /\ \A i \in 1..Len(t) : e[4 + i] = t[i]
  <2> DEFINE b == "$"
             n == Len(arg)
             e == <<b, DigitOf(n)>> \o CRLF \o t
  <2>1. b \in Byte /\ n \in Written /\ t \in Seq(Byte)
    BY <1>1, <1>3
  <2> HIDE DEF b, n
  <2>2. /\ e \in Seq(Byte) /\ Len(e) = 4 + Len(t)
        /\ e[1] = b /\ e[2] = DigitOf(n) /\ e[3] = "CR"
        /\ \A i \in 1..Len(t) : e[4 + i] = t[i]
    BY <2>1, HeaderLayout
  <2> QED
    BY <2>2 DEF b, n
<1>7. \A i \in 1..Len(arg) : i \in 1..Len(t)
  BY <1>1, <1>3
<1>8. Len(arg) \in Nat
  OBVIOUS
<1> QED
  BY <1>3, <1>5, <1>6, <1>7, <1>8

ArgEnd(req, a) == FlatEnd([j \in 1..Len(req) |-> EncodeArg(req[j])], a)
ReqEnd(reqs, k) == FlatEnd([i \in 1..Len(reqs) |-> Encode(reqs[i])], k)

WellFormedRequest(req) ==
  /\ req \in Seq(Seq(STRING)) /\ Len(req) \in Written
  /\ \A j \in 1..Len(req) : Len(req[j]) \in Written

LEMMA ArgsLayout ==
  ASSUME NEW req, WellFormedRequest(req)
  PROVE  LET t == FlattenSeq([j \in 1..Len(req) |-> EncodeArg(req[j])]) IN
         /\ t \in Seq(Byte) /\ Len(t) = ArgEnd(req, Len(req)) /\ ArgEnd(req, 0) = 0
         /\ \A a \in 1..Len(req) :
              /\ ArgEnd(req, a - 1) \in Nat
              /\ ArgEnd(req, a) = ArgEnd(req, a - 1) + Len(EncodeArg(req[a]))
              /\ ArgEnd(req, a) <= Len(t)
              /\ \A i \in 1..Len(EncodeArg(req[a])) :
                   t[ArgEnd(req, a - 1) + i] = EncodeArg(req[a])[i]
<1> DEFINE n == Len(req)
           ss == [j \in 1..n |-> EncodeArg(req[j])]
<1>1. n \in Nat /\ \A j \in 1..n : req[j] \in Seq(STRING) /\ Len(req[j]) \in Written
  BY DEF WellFormedRequest
<1>2. \A j \in 1..n : EncodeArg(req[j]) \in Seq(Byte)
  BY <1>1, ArgLayout
<1>3. ss \in Seq(Seq(Byte)) /\ Len(ss) = n /\ \A j \in 1..n : ss[j] = EncodeArg(req[j])
  BY <1>1, <1>2
<1> HIDE DEF ss
<1>4. \A a \in 0..n : ArgEnd(req, a) = FlatEnd(ss, a)
  BY DEF ArgEnd, ss
<1>5. ArgEnd(req, 0) = 0 /\ ArgEnd(req, n) = Len(FlattenSeq(ss))
  BY <1>1, <1>3, <1>4, FlatEnds
<1>6. FlattenSeq(ss) \in Seq(Byte)
  <2>1. SubSeq(ss, 1, n) = ss /\ n \in 0..Len(ss)
    BY <1>1, <1>3
  <2> QED
    BY <1>3, <2>1, FlatType
<1>7. ASSUME NEW a \in 1..n
      PROVE  /\ ArgEnd(req, a - 1) \in Nat
             /\ ArgEnd(req, a) = ArgEnd(req, a - 1) + Len(EncodeArg(req[a]))
             /\ ArgEnd(req, a) <= Len(FlattenSeq(ss))
             /\ \A i \in 1..Len(EncodeArg(req[a])) :
                  FlattenSeq(ss)[ArgEnd(req, a - 1) + i] = EncodeArg(req[a])[i]
  <2>1. a \in 0..n /\ a - 1 \in 0..n /\ a \in 1..Len(ss) /\ ss[a] = EncodeArg(req[a])
    BY <1>1, <1>3
  <2>2. /\ FlatEnd(ss, a - 1) \in Nat
        /\ FlatEnd(ss, a) = FlatEnd(ss, a - 1) + Len(ss[a])
        /\ FlatEnd(ss, a) <= Len(FlattenSeq(ss))
        /\ \A i \in 1..Len(ss[a]) : FlattenSeq(ss)[FlatEnd(ss, a - 1) + i] = ss[a][i]
    BY <1>3, <2>1, FlatPart
  <2>3. ArgEnd(req, a - 1) = FlatEnd(ss, a - 1) /\ ArgEnd(req, a) = FlatEnd(ss, a)
    BY <1>4, <2>1
  <2> QED
    BY <2>1, <2>2, <2>3
<1>8. FlattenSeq([j \in 1..Len(req) |-> EncodeArg(req[j])]) = FlattenSeq(ss)
  BY DEF ss
<1> QED
  BY <1>5, <1>6, <1>7, <1>8

LEMMA RequestLayout ==
  ASSUME NEW req, WellFormedRequest(req)
  PROVE  LET e == Encode(req) IN
         /\ e \in Seq(Byte) /\ Len(e) = 4 + ArgEnd(req, Len(req)) /\ ArgEnd(req, 0) = 0
         /\ e[1] = "*" /\ e[2] = DigitOf(Len(req)) /\ e[3] = "CR"
         /\ \A a \in 1..Len(req) :
              /\ ArgEnd(req, a - 1) \in Nat
              /\ ArgEnd(req, a) = ArgEnd(req, a - 1) + Len(EncodeArg(req[a]))
              /\ 4 + ArgEnd(req, a) <= Len(e)
              /\ \A i \in 1..Len(EncodeArg(req[a])) :
                   e[4 + (ArgEnd(req, a - 1) + i)] = EncodeArg(req[a])[i]
<1> DEFINE t == FlattenSeq([j \in 1..Len(req) |-> EncodeArg(req[j])])
           b == "*"
           n == Len(req)
           e == <<b, DigitOf(n)>> \o CRLF \o t
<1>1. /\ t \in Seq(Byte) /\ Len(t) = ArgEnd(req, Len(req)) /\ ArgEnd(req, 0) = 0
      /\ \A a \in 1..Len(req) :
              /\ ArgEnd(req, a - 1) \in Nat
              /\ ArgEnd(req, a) = ArgEnd(req, a - 1) + Len(EncodeArg(req[a]))
              /\ ArgEnd(req, a) <= Len(t)
              /\ \A i \in 1..Len(EncodeArg(req[a])) :
                   t[ArgEnd(req, a - 1) + i] = EncodeArg(req[a])[i]
  BY ArgsLayout
<1>2. b \in Byte /\ n \in Written
  BY DEF Byte, WellFormedRequest
<1>3. Encode(req) = e
  BY DEF Encode
<1> HIDE DEF t, b, n
<1>4. /\ e \in Seq(Byte) /\ Len(e) = 4 + Len(t)
      /\ e[1] = b /\ e[2] = DigitOf(n) /\ e[3] = "CR"
      /\ \A i \in 1..Len(t) : e[4 + i] = t[i]
  <2>1. t \in Seq(Byte)
    BY <1>1
  <2> QED
    BY <1>2, <2>1, HeaderLayout
<1> HIDE DEF e
<1>5. ASSUME NEW a \in 1..Len(req)
      PROVE  /\ 4 + ArgEnd(req, a) <= Len(e)
             /\ \A i \in 1..Len(EncodeArg(req[a])) :
                  e[4 + (ArgEnd(req, a - 1) + i)] = EncodeArg(req[a])[i]
  <2> DEFINE x == ArgEnd(req, a - 1)
             l == Len(EncodeArg(req[a]))
  <2>1. Len(t) \in Nat /\ l \in Nat
    <3>1. EncodeArg(req[a]) \in Seq(Byte)
      BY ArgLayout DEF WellFormedRequest
    <3> QED
      BY <1>1, <3>1
  <2>2. x \in Nat /\ ArgEnd(req, a) = x + l /\ x + l <= Len(t)
        /\ \A i \in 1..l : t[x + i] = EncodeArg(req[a])[i]
    BY <1>1
  <2> HIDE DEF x, l
  <2>3. \A i \in 1..l : e[4 + (x + i)] = t[x + i]
    BY <1>4, <2>1, <2>2
  <2>4. 4 + ArgEnd(req, a) <= Len(e)
    BY <1>4, <2>1, <2>2
  <2> QED
    BY <2>2, <2>3, <2>4 DEF x, l
<1> QED
  BY <1>1, <1>3, <1>4, <1>5 DEF b, n

(* All of it, as places in the stream: a header, the bytes of an argument. *)
ArgAt(reqs, k, a) == ReqEnd(reqs, k - 1) + (4 + ArgEnd(reqs[k], a - 1))

HeaderAt(s, b, n, at) ==
  /\ at \in Nat /\ at + 4 <= Len(s)
  /\ s[at + 1] = b /\ s[at + 2] = DigitOf(n) /\ s[at + 3] = "CR"

ArgLies(s, reqs, k, a) ==
  LET arg == reqs[k][a]
      at == ArgAt(reqs, k, a)
  IN  /\ HeaderAt(s, "$", Len(arg), at)
      /\ ArgAt(reqs, k, a + 1) = at + (Len(arg) + 6)
      /\ ArgAt(reqs, k, a + 1) <= ReqEnd(reqs, k)
      /\ \A i \in 1..Len(arg) : s[at + (4 + i)] = arg[i]

RequestLies(s, reqs, k) ==
  /\ HeaderAt(s, "*", Len(reqs[k]), ReqEnd(reqs, k - 1))
  /\ ReqEnd(reqs, k) \in Nat /\ ReqEnd(reqs, k) <= Len(s)
  /\ ReqEnd(reqs, k - 1) + 4 <= ReqEnd(reqs, k)
  /\ ArgAt(reqs, k, 1) = ReqEnd(reqs, k - 1) + 4
  /\ ArgAt(reqs, k, Len(reqs[k]) + 1) = ReqEnd(reqs, k)
  /\ \A a \in 1..Len(reqs[k]) : ArgLies(s, reqs, k, a)

LEMMA EachWellFormed ==
  ASSUME NEW reqs, WellFormed(reqs)
  PROVE  Len(reqs) \in Nat /\ \A k \in 1..Len(reqs) : WellFormedRequest(reqs[k])
<1>1. reqs \in Seq(Seq(Seq(STRING)))
  BY DEF WellFormed
<1>2. \A k \in 1..Len(reqs) : reqs[k] \in Seq(Seq(STRING))
  BY <1>1
<1>3. ASSUME NEW k \in 1..Len(reqs)
      PROVE  WellFormedRequest(reqs[k])
  <2>1. Len(reqs[k]) \in Written /\ \A j \in 1..Len(reqs[k]) : Len(reqs[k][j]) \in Written
    BY DEF WellFormed
  <2> QED
    BY <1>2, <2>1 DEF WellFormedRequest
<1> QED
  BY <1>1, <1>3

LEMMA AllLayout ==
  ASSUME NEW reqs, WellFormed(reqs), NEW tail \in Seq(STRING)
  PROVE  LET s == EncodeAll(reqs) \o tail IN
         /\ s \in Seq(Byte) /\ ReqEnd(reqs, 0) = 0
         /\ ReqEnd(reqs, Len(reqs)) = Len(EncodeAll(reqs))
         /\ \A k \in 1..Len(reqs) :
              /\ ReqEnd(reqs, k - 1) \in Nat
              /\ ReqEnd(reqs, k) = ReqEnd(reqs, k - 1) + Len(Encode(reqs[k]))
              /\ ReqEnd(reqs, k) <= Len(s)
              /\ \A i \in 1..Len(Encode(reqs[k])) :
                   s[ReqEnd(reqs, k - 1) + i] = Encode(reqs[k])[i]
         /\ \A j \in 0..Len(reqs) : \A k \in j..Len(reqs) : ReqEnd(reqs, j) <= ReqEnd(reqs, k)
         /\ \A k \in 0..Len(reqs) : Len(EncodeAll(SubSeq(reqs, 1, k))) = ReqEnd(reqs, k)
<1> DEFINE n == Len(reqs)
           ss == [j \in 1..n |-> Encode(reqs[j])]
           s == EncodeAll(reqs) \o tail
<1>1. n \in Nat /\ \A j \in 1..n : WellFormedRequest(reqs[j])
  BY EachWellFormed
<1>2. \A j \in 1..n : Encode(reqs[j]) \in Seq(Byte)
  BY <1>1, RequestLayout
<1>3. ss \in Seq(Seq(Byte)) /\ Len(ss) = n /\ \A j \in 1..n : ss[j] = Encode(reqs[j])
  BY <1>1, <1>2
<1>4. EncodeAll(reqs) = FlattenSeq(ss)
  BY DEF EncodeAll
<1>5. ASSUME NEW k \in 0..n
      PROVE  Len(EncodeAll(SubSeq(reqs, 1, k))) = ReqEnd(reqs, k)
  <2> DEFINE r == SubSeq(reqs, 1, k)
  <2>1. Len(r) = k /\ \A j \in 1..k : r[j] = reqs[j]
    BY DEF WellFormed
  <2>2. [j \in 1..Len(r) |-> Encode(r[j])] = SubSeq(ss, 1, k)
    <3>1. SubSeq(ss, 1, k) = [j \in 1..k |-> ss[j]]
      BY <1>1, <1>3
    <3>2. \A j \in 1..k : ss[j] = Encode(r[j])
      BY <1>1, <1>3, <2>1
    <3> HIDE DEF r, ss
    <3> QED
      BY <2>1, <3>1, <3>2
  <2> HIDE DEF r
  <2>3. EncodeAll(r) = FlattenSeq(SubSeq(ss, 1, k))
    BY <2>2 DEF EncodeAll
  <2> QED
    BY <2>3 DEF r, ReqEnd, FlatEnd
<1> HIDE DEF ss
<1>6. \A k \in 0..n : ReqEnd(reqs, k) = FlatEnd(ss, k)
  BY DEF ReqEnd, ss
<1>7. /\ ReqEnd(reqs, 0) = 0 /\ ReqEnd(reqs, n) = Len(FlattenSeq(ss))
      /\ \A j \in 0..n : \A k \in j..n : ReqEnd(reqs, j) <= ReqEnd(reqs, k)
  <2>1. /\ FlatEnd(ss, 0) = 0 /\ FlatEnd(ss, n) = Len(FlattenSeq(ss))
        /\ \A j \in 0..n : \A k \in j..n : FlatEnd(ss, j) <= FlatEnd(ss, k)
    BY <1>3, FlatEnds
  <2>2. \A j \in 0..n : \A k \in j..n : k \in 0..n
    BY <1>1
  <2> QED
    BY <1>1, <1>6, <2>1, <2>2
<1> DEFINE f == FlattenSeq(ss)
<1>8. f \in Seq(Byte) /\ tail \in Seq(Byte)
  <2>1. SubSeq(ss, 1, n) = ss /\ n \in 0..Len(ss)
    BY <1>1, <1>3
  <2>2. f \in Seq(Byte)
    BY <1>3, <2>1, FlatType
  <2> QED
    BY <2>2, ByteSeq
<1>9. s = f \o tail
  BY <1>4
<1> HIDE DEF f, s
<1>10. s \in Seq(Byte) /\ Len(f) <= Len(s) /\ \A i \in 1..Len(f) : s[i] = f[i]
  <2>1. /\ f \o tail \in Seq(Byte) /\ Len(f \o tail) = Len(f) + Len(tail)
        /\ \A i \in 1..Len(f) : (f \o tail)[i] = f[i]
    BY <1>8, Joined
  <2> QED
    BY <1>8, <1>9, <2>1
<1>11. ASSUME NEW k \in 1..n
       PROVE  /\ ReqEnd(reqs, k - 1) \in Nat
              /\ ReqEnd(reqs, k) = ReqEnd(reqs, k - 1) + Len(Encode(reqs[k]))
              /\ ReqEnd(reqs, k) <= Len(s)
              /\ \A i \in 1..Len(Encode(reqs[k])) :
                   s[ReqEnd(reqs, k - 1) + i] = Encode(reqs[k])[i]
  <2> DEFINE e == Encode(reqs[k])
             x == FlatEnd(ss, k - 1)
  <2>1. k \in 0..n /\ k - 1 \in 0..n /\ k \in 1..Len(ss) /\ ss[k] = e /\ e \in Seq(Byte)
    BY <1>1, <1>2, <1>3
  <2>2. /\ FlatEnd(ss, k - 1) \in Nat
        /\ FlatEnd(ss, k) = FlatEnd(ss, k - 1) + Len(ss[k])
        /\ FlatEnd(ss, k) <= Len(FlattenSeq(ss))
        /\ \A i \in 1..Len(ss[k]) : FlattenSeq(ss)[FlatEnd(ss, k - 1) + i] = ss[k][i]
    BY <1>3, <2>1, FlatPart
  <2>3. ReqEnd(reqs, k - 1) = x /\ ReqEnd(reqs, k) = FlatEnd(ss, k)
    BY <1>6, <2>1
  <2>4. x \in Nat /\ FlatEnd(ss, k) = x + Len(e) /\ x + Len(e) <= Len(f)
        /\ \A i \in 1..Len(e) : f[x + i] = e[i]
    BY <2>1, <2>2 DEF f
  <2> HIDE DEF e, x
  <2>5. \A i \in 1..Len(e) : x + i \in 1..Len(f)
    BY <1>8, <2>1, <2>4
  <2>6. x + Len(e) <= Len(s)
    BY <1>8, <1>10, <2>1, <2>4
  <2> QED
    BY <1>10, <2>3, <2>4, <2>5, <2>6 DEF e
<1>12. ReqEnd(reqs, Len(reqs)) = Len(EncodeAll(reqs))
  BY <1>4, <1>7
<1> QED
  BY <1>5, <1>7, <1>10, <1>11, <1>12 DEF s

LEMMA StreamLayout ==
  ASSUME NEW reqs, WellFormed(reqs), NEW tail \in Seq(STRING), NEW k \in 1..Len(reqs)
  PROVE  RequestLies(EncodeAll(reqs) \o tail, reqs, k)
<1> DEFINE s == EncodeAll(reqs) \o tail
           r == reqs[k]
           e == Encode(r)
           o == ReqEnd(reqs, k - 1)
<1>1. WellFormedRequest(r)
  BY EachWellFormed
<1>2. /\ s \in Seq(Byte) /\ o \in Nat /\ ReqEnd(reqs, k) = o + Len(e)
      /\ ReqEnd(reqs, k) <= Len(s) /\ \A i \in 1..Len(e) : s[o + i] = e[i]
  BY AllLayout
<1>3. /\ e \in Seq(Byte) /\ Len(e) = 4 + ArgEnd(r, Len(r)) /\ ArgEnd(r, 0) = 0
      /\ e[1] = "*" /\ e[2] = DigitOf(Len(r)) /\ e[3] = "CR"
      /\ \A a \in 1..Len(r) :
           /\ ArgEnd(r, a - 1) \in Nat
           /\ ArgEnd(r, a) = ArgEnd(r, a - 1) + Len(EncodeArg(r[a]))
           /\ 4 + ArgEnd(r, a) <= Len(e)
           /\ \A i \in 1..Len(EncodeArg(r[a])) :
                e[4 + (ArgEnd(r, a - 1) + i)] = EncodeArg(r[a])[i]
  <2> HIDE DEF r
  <2> QED
    BY <1>1, RequestLayout
<1>4. Len(r) \in Nat /\ ArgEnd(r, Len(r)) \in Int /\ Len(e) \in Nat /\ Len(s) \in Nat
  <2>1. Len(e) \in Nat /\ Len(s) \in Nat
    BY <1>2, <1>3
  <2>2. Len(r) \in Nat
    BY <1>1 DEF WellFormedRequest
  <2>3. CASE Len(r) = 0
    BY <1>3, <2>1, <2>2, <2>3
  <2>4. CASE Len(r) # 0
    <3>1. Len(r) \in 1..Len(r)
      BY <2>2, <2>4
    <3>2. EncodeArg(r[Len(r)]) \in Seq(Byte)
      BY <1>1, <3>1, ArgLayout DEF WellFormedRequest
    <3>3. Len(EncodeArg(r[Len(r)])) \in Nat
      BY <3>2
    <3>4. /\ ArgEnd(r, Len(r) - 1) \in Nat
          /\ ArgEnd(r, Len(r)) = ArgEnd(r, Len(r) - 1) + Len(EncodeArg(r[Len(r)]))
      <4> HIDE DEF e, r
      <4> QED
        BY <1>3, <3>1
    <3> QED
      BY <2>1, <2>2, <3>3, <3>4
  <2> QED
    BY <2>1, <2>2, <2>3, <2>4
<1>5. Len(e) >= 4
  <2>1. CASE Len(r) = 0
    BY <1>3, <2>1
  <2>2. CASE Len(r) # 0
    <3>1. Len(r) \in 1..Len(r)
      BY <1>4, <2>2
    <3>2. EncodeArg(r[Len(r)]) \in Seq(Byte)
      BY <1>1, <3>1, ArgLayout DEF WellFormedRequest
    <3>3. Len(EncodeArg(r[Len(r)])) \in Nat
      BY <3>2
    <3> QED
      BY <1>3, <1>4, <3>1, <3>3
  <2> QED
    BY <2>1, <2>2
<1> HIDE DEF s, e, o
<1>6. HeaderAt(s, "*", Len(r), o)
  <2>1. 1 \in 1..Len(e) /\ 2 \in 1..Len(e) /\ 3 \in 1..Len(e)
    BY <1>4, <1>5
  <2>2. o + 4 <= Len(s)
    BY <1>2, <1>4, <1>5
  <2>3. o \in Nat /\ s[o + 1] = e[1] /\ s[o + 2] = e[2] /\ s[o + 3] = e[3]
    BY <1>2, <2>1
  <2>4. e[1] = "*" /\ e[2] = DigitOf(Len(r)) /\ e[3] = "CR"
    BY <1>3
  <2> QED
    BY <2>2, <2>3, <2>4 DEF HeaderAt
<1>7. ASSUME NEW a \in 1..Len(r)
      PROVE  ArgLies(s, reqs, k, a)
  <2> DEFINE arg == r[a]
             x == EncodeArg(arg)
             at == ArgAt(reqs, k, a)
             b == ArgEnd(r, a - 1)
  <2>1. /\ x \in Seq(Byte) /\ Len(x) = Len(arg) + 6
        /\ x[1] = "$" /\ x[2] = DigitOf(Len(arg)) /\ x[3] = "CR"
        /\ \A i \in 1..Len(arg) : x[4 + i] = arg[i]
    <3>1. arg \in Seq(STRING) /\ Len(arg) \in Written
      BY <1>1 DEF WellFormedRequest
    <3> HIDE DEF arg
    <3> QED
      BY <3>1, ArgLayout
  <2>2. Len(arg) \in Nat
    BY <1>1 DEF WellFormedRequest
  <2>3. /\ b \in Nat /\ ArgEnd(r, a) = b + Len(x) /\ 4 + ArgEnd(r, a) <= Len(e)
        /\ \A i \in 1..Len(x) : e[4 + (b + i)] = x[i]
    BY <1>3
  <2>4. at = o + (4 + b) /\ ArgAt(reqs, k, a + 1) = o + (4 + ArgEnd(r, a))
    <3>1. (a + 1) - 1 = a
      BY <1>4
    <3> QED
      BY <3>1 DEF ArgAt, o
  <2> HIDE DEF arg, x, at, b
  <2>5. \A i \in 1..Len(x) : s[at + i] = x[i]
    <3>1. ASSUME NEW i \in 1..Len(x)
          PROVE  s[at + i] = x[i]
      <4>1. 4 + (b + i) \in 1..Len(e)
        BY <1>4, <2>1, <2>2, <2>3
      <4>2. at + i = o + (4 + (b + i))
        BY <1>2, <2>2, <2>1, <2>3, <2>4
      <4> QED
        BY <1>2, <2>3, <4>1, <4>2
    <3> QED
      BY <3>1
  <2>6. at \in Nat /\ at + (Len(arg) + 6) = ArgAt(reqs, k, a + 1)
    BY <1>2, <2>1, <2>2, <2>3, <2>4
  <2>7. ArgAt(reqs, k, a + 1) <= ReqEnd(reqs, k)
    BY <1>2, <1>4, <2>1, <2>2, <2>3, <2>4
  <2>8. at + 4 <= Len(s)
    BY <1>2, <1>4, <2>2, <2>6, <2>7
  <2>9. s[at + 1] = "$" /\ s[at + 2] = DigitOf(Len(arg)) /\ s[at + 3] = "CR"
    <3>1. 1 \in 1..Len(x) /\ 2 \in 1..Len(x) /\ 3 \in 1..Len(x)
      BY <2>1, <2>2
    <3> QED
      BY <2>1, <2>5, <3>1
  <2>10. \A i \in 1..Len(arg) : s[at + (4 + i)] = arg[i]
    <3>1. \A i \in 1..Len(arg) : 4 + i \in 1..Len(x)
      BY <2>1, <2>2
    <3> QED
      BY <2>1, <2>5, <3>1
  <2> QED
    BY <2>6, <2>7, <2>8, <2>9, <2>10 DEF ArgLies, HeaderAt, arg, at
<1>8. ArgAt(reqs, k, 1) = o + 4 /\ ArgAt(reqs, k, Len(r) + 1) = ReqEnd(reqs, k)
  <2>1. (Len(r) + 1) - 1 = Len(r) /\ 1 - 1 = 0
    BY <1>4
  <2> QED
    BY <1>2, <1>3, <2>1 DEF ArgAt, o
<1>9. ReqEnd(reqs, k) \in Nat /\ o + 4 <= ReqEnd(reqs, k)
  BY <1>2, <1>4, <1>5
<1> QED
  BY <1>2, <1>6, <1>7, <1>8, <1>9 DEF RequestLies, s, o

-----------------------------------------------------------------------------
(* Type correctness.                                                       *)
Sent ==
  /\ WellFormed(requests)
  /\ \E tail \in Seq(STRING) : stream = EncodeAll(requests) \o tail

BufferOK ==
  /\ stream \in Seq(Byte) /\ recvd \in 0..Len(stream)
  /\ querybuf \in Seq(Byte) /\ qb_pos \in 0..Len(querybuf)

RequestOK ==
  /\ multibulklen \in 0..MaxMultibulk
  /\ bulklen \in -1..MaxBulkLen
  /\ argv \in Seq(Seq(Byte)) /\ argvCap \in 0..MaxMultibulk
  /\ executed \in Seq(Seq(Seq(Byte)))

FlagsOK ==
  /\ reqtype \in {"none", "inline", "multibulk"}
  /\ reply.count \in 0..1
  /\ ghost \in BOOLEAN
  /\ pc \in {"poll", "loop", "count", "args", "exec", "trim", "closed", "crashed"}

Typed == Sent /\ BufferOK /\ RequestOK /\ FlagsOK

(* A request that has not begun has left nothing behind but the byte that  *)
(* told its type; one within an argument is a multibulk one; what the      *)
(* handler leaves in the buffer when it returns is less than an argument.  *)
RequestState ==
  /\ Len(argv) + multibulklen <= argvCap
  /\ multibulklen # 0 => reqtype = "multibulk" /\ pc \notin {"exec", "crashed"}
  /\ bulklen # -1 => multibulklen # 0
  /\ multibulklen = 0 /\ pc \in {"poll", "loop", "count", "trim"} =>
       /\ argv = <<>>
       /\ reqtype = "multibulk" => qb_pos < Len(querybuf) /\ querybuf[qb_pos + 1] = "*"
  /\ pc = "count" => reqtype = "multibulk"
  /\ pc = "args" => reqtype = "multibulk"
  /\ pc \in {"trim", "poll"} /\ bulklen # -1 => Unread < bulklen + 2
  /\ pc = "poll" => qb_pos = 0

ParserInv == Typed /\ RequestState

LEMMA StreamType == Sent => stream \in Seq(Byte)
  BY AllLayout DEF Sent

LEMMA InitTyped == Init => ParserInv
<1> SUFFICES ASSUME Init
             PROVE  ParserInv
  OBVIOUS
<1>1. PICK in \in Inputs : requests = in.requests /\ stream = EncodeAll(in.requests) \o in.tail
  BY DEF Init
<1>2. Sent
  <2>1. WellFormed(in.requests) /\ in.tail \in Seq(STRING)
    BY InputsAssumption DEF WellFormed
  <2> QED
    BY <1>1, <2>1 DEF Sent
<1>3. stream \in Seq(Byte)
  BY <1>2, StreamType
<1>4. MaxMultibulk \in Nat /\ MaxBulkLen \in Nat
  BY SizesAssumption
<1>5. <<>> \in Seq(Byte) /\ <<>> \in Seq(Seq(Byte)) /\ <<>> \in Seq(Seq(Seq(Byte)))
      /\ Len(<<>>) = 0
  OBVIOUS
<1>6. reply.count = 0
  BY DEF Init, NoReply
<1>7. /\ recvd = 0 /\ querybuf = <<>> /\ qb_pos = 0 /\ reqtype = "none" /\ multibulklen = 0
      /\ bulklen = -1 /\ argv = <<>> /\ argvCap = 0 /\ executed = <<>> /\ ghost = FALSE
      /\ pc = "poll"
  BY DEF Init
<1>8. BufferOK
  BY <1>3, <1>5, <1>7 DEF BufferOK
<1>9. RequestOK
  BY <1>4, <1>5, <1>7 DEF RequestOK
<1>10. FlagsOK
  <2>1. reply.count \in 0..1
    BY <1>6
  <2> QED
    BY <1>7, <2>1, Zenon DEF FlagsOK
<1> QED
  BY <1>2, <1>5, <1>7, <1>8, <1>9, <1>10 DEF ParserInv, Typed, RequestState

(* Where strchr() finds the end of the line.                               *)
LEMMA NewlineFound ==
  ASSUME Typed, Newline # -1
  PROVE  Newline \in qb_pos..(Len(querybuf) - 1) /\ querybuf[Newline + 1] = "CR"
<1> DEFINE stops == {i \in qb_pos..(Len(querybuf) - 1) : querybuf[i + 1] \in {"CR", "NUL"}}
           first == CHOOSE i \in stops : \A j \in stops : i <= j
<1>1. Newline = IF stops = {} \/ querybuf[first + 1] = "NUL" THEN -1 ELSE first
  BY DEF Newline
<1>2. stops # {} /\ querybuf[first + 1] # "NUL" /\ Newline = first
  BY <1>1
<1>3. stops \subseteq Nat
  BY DEF Typed, BufferOK
<1>4. \E i \in stops : \A j \in stops : i <= j
  <2> HIDE DEF stops
  <2> QED
    BY <1>2, <1>3, LeastNatural
<1>5. first \in stops
  <2> HIDE DEF stops
  <2> QED
    BY <1>4
<1> HIDE DEF first
<1> QED
  BY <1>2, <1>5

LEMMA NewlineIs ==
  ASSUME Typed, NEW i \in qb_pos..(Len(querybuf) - 1), querybuf[i + 1] = "CR",
         \A j \in qb_pos..(i - 1) : querybuf[j + 1] \notin {"CR", "NUL"}
  PROVE  Newline = i
<1> DEFINE stops == {j \in qb_pos..(Len(querybuf) - 1) : querybuf[j + 1] \in {"CR", "NUL"}}
           first == CHOOSE j \in stops : \A k \in stops : j <= k
<1>1. Newline = IF stops = {} \/ querybuf[first + 1] = "NUL" THEN -1 ELSE first
  BY DEF Newline
<1>2. i \in stops /\ i \in Int
  BY DEF Typed, BufferOK
<1>3. ASSUME NEW j \in stops
      PROVE  i <= j /\ j \in Int
  <2>1. j \in Int /\ j >= qb_pos /\ qb_pos \in Int /\ querybuf[j + 1] \in {"CR", "NUL"}
    BY DEF Typed, BufferOK
  <2> QED
    BY <1>2, <2>1
<1>4. first = i
  <2> HIDE DEF stops
  <2>1. first \in stops /\ \A k \in stops : first <= k
    BY <1>2, <1>3
  <2> HIDE DEF first
  <2> QED
    BY <1>2, <1>3, <2>1
<1> QED
  BY <1>1, <1>2, <1>4

(* A whole line.                                                           *)
LEMMA LineRead ==
  ASSUME Typed, Newline # -1, LineComplete
  PROVE  /\ Newline \in Nat /\ qb_pos <= Newline /\ Newline + 2 <= Len(querybuf)
         /\ qb_pos < Len(querybuf)
<1>1. Newline \in qb_pos..(Len(querybuf) - 1)
  BY NewlineFound
<1>2. Newline - qb_pos <= (Len(querybuf) - qb_pos) - 2
  BY DEF LineComplete, Unread
<1>3. qb_pos \in Nat /\ Len(querybuf) \in Nat /\ qb_pos <= Len(querybuf)
  BY DEF Typed, BufferOK
<1> HIDE DEF Newline
<1> QED
  BY <1>1, <1>2, <1>3

LEMMA NumberRead ==
  ASSUME NEW s, IsNumber(s)
  PROVE  string2ll(s) \in Int
  BY DigitsAssumption DEF IsNumber, string2ll

(* Every answer is one reply or none.                                      *)
LEMMA AnswerCounts ==
  /\ \A t : Reply(t).count = 1
  /\ \A args : \A r \in processCommand(args) : r.count \in 0..1
<1>1. \A t : Reply(t).count = 1
  BY DEF Reply
<1>2. NoReply.count = 0
  BY DEF NoReply
<1>3. ASSUME NEW args, NEW r \in processCommand(args)
      PROVE  r.count \in 0..1
  <2>1. r = NoReply \/ \E t : r = Reply(t)
    BY DEF processCommand
  <2> QED
    BY <1>1, <1>2, <2>1
<1> QED
  BY <1>1, <1>3

(* What the client sends is fixed from the beginning.                      *)
LEMMA SentKept == Sent /\ UNCHANGED input => Sent'
  BY DEF Sent, input

LEMMA readQueryInv == ParserInv /\ readQuery => ParserInv'
<1> SUFFICES ASSUME ParserInv, readQuery
             PROVE  ParserInv'
  OBVIOUS
<1>1. /\ BufferOK /\ RequestOK /\ FlagsOK /\ RequestState /\ Sent
      /\ pc = "poll" /\ recvd < Len(stream)
      /\ UNCHANGED <<input, qb_pos, parse, executed, reply, ghost>>
  BY DEF ParserInv, Typed, readQuery
<1>2. PICK n \in 1..readlen :
        /\ recvd + n <= Len(stream)
        /\ recvd' = recvd + n
        /\ querybuf' = querybuf \o SubSeq(stream, recvd + 1, recvd + n)
        /\ pc' = IF Len(querybuf) + n > MaxQuerybuf THEN "closed" ELSE "loop"
  BY DEF readQuery
<1>3. n \in Nat /\ n >= 1
  BY DEF readlen
<1> DEFINE t == SubSeq(stream, recvd + 1, recvd + n)
<1>4. t \in Seq(Byte) /\ Len(t) = n
  BY <1>1, <1>2, <1>3 DEF BufferOK
<1> HIDE DEF t
<1>5. /\ querybuf' \in Seq(Byte) /\ Len(querybuf') = Len(querybuf) + n
      /\ \A i \in 1..Len(querybuf) : querybuf'[i] = querybuf[i]
      /\ Len(querybuf) \in Nat
  <2>1. querybuf \in Seq(Byte) /\ querybuf' = querybuf \o t
    BY <1>1, <1>2 DEF BufferOK, t
  <2>2. /\ querybuf \o t \in Seq(Byte) /\ Len(querybuf \o t) = Len(querybuf) + Len(t)
        /\ \A i \in 1..Len(querybuf) : (querybuf \o t)[i] = querybuf[i]
    BY <1>4, <2>1, Joined
  <2>3. Len(querybuf) \in Nat
    BY <2>1
  <2> QED
    BY <1>4, <2>1, <2>2, <2>3
<1>6. BufferOK'
  BY <1>1, <1>2, <1>3, <1>5 DEF BufferOK, input
<1>7. RequestOK'
  BY <1>1 DEF RequestOK, parse
<1>8. FlagsOK'
  <2>1. reqtype' = reqtype /\ reply' = reply /\ ghost' = ghost /\ pc' \in {"closed", "loop"}
    BY <1>1, <1>2 DEF parse
  <2> QED
    BY <1>1, <2>1, Zenon DEF FlagsOK
<1>9. RequestState'
  <2>1. /\ multibulklen' = multibulklen /\ bulklen' = bulklen /\ argv' = argv
        /\ argvCap' = argvCap /\ reqtype' = reqtype /\ qb_pos' = qb_pos
        /\ pc' \in {"closed", "loop"}
    BY <1>1, <1>2 DEF parse
  <2>2. qb_pos \in Nat
    BY <1>1 DEF BufferOK
  <2>3. qb_pos < Len(querybuf) =>
          qb_pos < Len(querybuf') /\ querybuf'[qb_pos + 1] = querybuf[qb_pos + 1]
    BY <1>3, <1>5, <2>2
  <2> QED
    BY <1>1, <2>1, <2>3 DEF RequestState
<1> QED
  BY <1>1, <1>6, <1>7, <1>8, <1>9, SentKept DEF ParserInv, Typed

LEMMA loopInv == ParserInv /\ (readEnds \/ loopTest \/ argsComplete) => ParserInv'
<1> SUFFICES ASSUME ParserInv, readEnds \/ loopTest \/ argsComplete
             PROVE  ParserInv'
  OBVIOUS
<1>1. BufferOK /\ RequestOK /\ FlagsOK /\ RequestState /\ Sent
  BY DEF ParserInv, Typed
<1>2. /\ UNCHANGED <<input, recvd, querybuf, qb_pos, multibulklen, bulklen, argv,
                     argvCap, executed, reply, ghost>>
      /\ \/ pc = "poll" /\ pc' = "closed" /\ reqtype' = reqtype
         \/ pc = "loop" /\ qb_pos >= Len(querybuf) /\ pc' = "trim" /\ reqtype' = reqtype
         \/ /\ pc = "loop" /\ qb_pos < Len(querybuf)
            /\ \/ reqtype # "none" /\ reqtype' = reqtype
               \/ reqtype = "none" /\ querybuf[qb_pos + 1] = "*" /\ reqtype' = "multibulk"
               \/ reqtype = "none" /\ reqtype' = "inline"
            /\ pc' = IF reqtype' = "multibulk" THEN "count" ELSE "exec"
         \/ /\ pc = "args" /\ multibulklen = 0 /\ pc' = "exec" /\ reqtype' = reqtype
  <2>1. Len(querybuf) \in Nat /\ qb_pos \in Nat
    BY <1>1 DEF BufferOK
  <2> QED
    BY <2>1 DEF readEnds, loopTest, argsComplete, parse
<1>3. BufferOK' /\ RequestOK'
  BY <1>1, <1>2 DEF BufferOK, RequestOK, input
<1>4. FlagsOK'
  <2>1. reply' = reply /\ ghost' = ghost /\ pc' \in {"closed", "trim", "count", "exec"}
        /\ reqtype' \in {reqtype, "multibulk", "inline"}
    BY <1>2
  <2> QED
    BY <1>1, <2>1, Zenon DEF FlagsOK
<1>5. RequestState'
  <2>1. Unread' = Unread /\ Unread = Len(querybuf) - qb_pos
    BY <1>2 DEF Unread
  <2>2. Len(querybuf) \in Nat /\ qb_pos \in Nat /\ bulklen \in Int /\ bulklen >= -1
    BY <1>1, SizesAssumption DEF BufferOK, RequestOK
  <2> QED
    BY <1>1, <1>2, <2>1, <2>2 DEF RequestState
<1> QED
  BY <1>1, <1>2, <1>3, <1>4, <1>5, SentKept DEF ParserInv, Typed

LEMMA trimInv == ParserInv /\ trimToPos => ParserInv'
<1> SUFFICES ASSUME ParserInv, trimToPos
             PROVE  ParserInv'
  OBVIOUS
<1>1. BufferOK /\ RequestOK /\ FlagsOK /\ RequestState /\ Sent
  BY DEF ParserInv, Typed
<1>2. /\ pc = "trim" /\ pc' = "poll" /\ qb_pos' = 0
      /\ querybuf' = SubSeq(querybuf, qb_pos + 1, Len(querybuf))
      /\ UNCHANGED <<input, recvd, parse, executed, reply, ghost>>
  BY DEF trimToPos
<1>3. Len(querybuf) \in Nat /\ qb_pos \in Nat /\ qb_pos <= Len(querybuf)
  BY <1>1 DEF BufferOK
<1>4. /\ querybuf' \in Seq(Byte) /\ Len(querybuf') = Len(querybuf) - qb_pos
      /\ qb_pos < Len(querybuf) => querybuf'[0 + 1] = querybuf[qb_pos + 1]
  BY <1>1, <1>2, <1>3 DEF BufferOK
<1>5. BufferOK' /\ RequestOK'
  BY <1>1, <1>2, <1>3, <1>4 DEF BufferOK, RequestOK, input, parse
<1>6. FlagsOK'
  <2>1. reply' = reply /\ ghost' = ghost /\ reqtype' = reqtype
    BY <1>2 DEF parse
  <2> QED
    BY <1>1, <1>2, <2>1, Zenon DEF FlagsOK
<1>7. RequestState'
  <2>1. Unread' = Unread
    BY <1>2, <1>3, <1>4 DEF Unread
  <2>2. /\ multibulklen' = multibulklen /\ bulklen' = bulklen /\ argv' = argv
        /\ argvCap' = argvCap /\ reqtype' = reqtype
    BY <1>2 DEF parse
  <2>3. qb_pos < Len(querybuf) => 0 < Len(querybuf')
    BY <1>3, <1>4
  <2> QED
    BY <1>1, <1>2, <1>4, <2>1, <2>2, <2>3 DEF RequestState
<1> QED
  BY <1>1, <1>2, <1>5, <1>6, <1>7, SentKept DEF ParserInv, Typed

(* The handler returns and waits, or sends an error.                       *)
Returns ==
  /\ pc' = "trim" /\ (pc = "count" \/ (pc = "args" /\ multibulklen # 0))
  /\ bulklen # -1 => Unread < bulklen + 2
  /\ UNCHANGED <<input, recvd, querybuf, qb_pos, parse, executed, ghost>>
  /\ reply'.count \in 0..1

LEMMA returnsInv == ParserInv /\ Returns => ParserInv'
<1> SUFFICES ASSUME ParserInv, Returns
             PROVE  ParserInv'
  OBVIOUS
<1>1. BufferOK /\ RequestOK /\ FlagsOK /\ RequestState /\ Sent
  BY DEF ParserInv, Typed
<1>2. /\ pc' = "trim" /\ (pc = "count" \/ (pc = "args" /\ multibulklen # 0))
      /\ bulklen # -1 => Unread < bulklen + 2
      /\ UNCHANGED <<input, recvd, querybuf, qb_pos, executed, ghost>>
      /\ multibulklen' = multibulklen /\ bulklen' = bulklen /\ argv' = argv
      /\ argvCap' = argvCap /\ reqtype' = reqtype
      /\ reply'.count \in 0..1
  BY DEF Returns, parse
<1>3. BufferOK' /\ RequestOK'
  BY <1>1, <1>2 DEF BufferOK, RequestOK, input
<1>4. FlagsOK'
  BY <1>1, <1>2, Zenon DEF FlagsOK
<1>5. RequestState'
  <2>1. Unread' = Unread
    BY <1>2 DEF Unread
  <2> QED
    BY <1>1, <1>2, <2>1 DEF RequestState
<1> QED
  BY <1>1, <1>2, <1>3, <1>4, <1>5, SentKept DEF ParserInv, Typed

(* What each part of processMultibulkBuffer() may do.                      *)
LEMMA ErrorReturns ==
  ASSUME NEW text, protocolError(text), pc = "count" \/ (pc = "args" /\ multibulklen # 0),
         bulklen = -1,
         UNCHANGED <<input, recvd, reqtype, executed, ghost>>
  PROVE  Returns
  BY AnswerCounts DEF protocolError, ReturnFailed, Returns, parse

LEMMA WaitReturns ==
  ASSUME FlagsOK, waitForLine, pc = "count" \/ (pc = "args" /\ multibulklen # 0),
         bulklen = -1,
         UNCHANGED <<input, recvd, reqtype, executed, ghost>>
  PROVE  Returns
  BY AnswerCounts DEF waitForLine, ReturnFailed, Returns, parse, FlagsOK

CountParsed ==
  /\ pc = "count" /\ multibulklen = 0 /\ Newline # -1 /\ LineComplete
  /\ qb_pos' = Newline + 2
  /\ \/ pc' = "exec" /\ UNCHANGED <<multibulklen, argvCap>>
     \/ /\ pc' = "args" /\ multibulklen' \in 1..MaxMultibulk
        /\ argvCap' = multibulklen'
  /\ UNCHANGED <<input, recvd, querybuf, reqtype, bulklen, argv, executed, reply, ghost>>

LEMMA parseCountSteps ==
  ASSUME ParserInv, parseCount
  PROVE  \/ Returns
         \/ CountParsed
         \/ /\ pc = "count" /\ multibulklen # 0 /\ pc' = "args"
            /\ UNCHANGED <<input, recvd, querybuf, qb_pos, parse, executed, reply, ghost>>
<1>1. FlagsOK /\ RequestState /\ pc = "count" /\ UNCHANGED <<input, recvd, reqtype, executed, ghost>>
  BY DEF ParserInv, Typed, parseCount
<1>2. CASE multibulklen # 0
  BY <1>1, <1>2 DEF parseCount, parse
<1>3. CASE multibulklen = 0 /\ waitForLine
  <2>1. bulklen = -1
    BY <1>1, <1>3 DEF RequestState
  <2> QED
    BY <1>1, <1>3, <2>1, WaitReturns
<1> DEFINE n == string2ll(LineNumber)
<1>4. CASE /\ multibulklen = 0 /\ Newline # -1 /\ LineComplete
           /\ ~IsNumber(LineNumber) \/ n > MaxMultibulk
           /\ protocolError(addReplyErrorLength(<<"invalid", "count">>))
  <2>1. bulklen = -1
    BY <1>1, <1>4 DEF RequestState
  <2> QED
    BY <1>1, <1>4, <2>1, ErrorReturns
<1>5. CASE /\ multibulklen = 0 /\ Newline # -1 /\ LineComplete
           /\ IsNumber(LineNumber) /\ ~(n > MaxMultibulk)
           /\ qb_pos' = Newline + 2
           /\ IF n <= 0
                THEN pc' = "exec" /\ UNCHANGED <<multibulklen, argvCap>>
                ELSE pc' = "args" /\ multibulklen' = n /\ newArgv(n)
           /\ UNCHANGED <<querybuf, bulklen, argv, reply>>
  <2>1. n \in Int
    BY <1>5, NumberRead
  <2> HIDE DEF n
  <2>2. \/ pc' = "exec" /\ UNCHANGED <<multibulklen, argvCap>>
        \/ pc' = "args" /\ multibulklen' \in 1..MaxMultibulk /\ argvCap' = multibulklen'
    <3>1. CASE n <= 0
      BY <1>5, <3>1
    <3>2. CASE ~(n <= 0)
      BY <1>5, <2>1, <3>2, SizesAssumption DEF newArgv
    <3> QED
      BY <3>1, <3>2
  <2> QED
    BY <1>1, <1>5, <2>2 DEF CountParsed
<1> QED
  <2> HIDE DEF n
  <2>1. \/ multibulklen # 0
        \/ multibulklen = 0 /\ waitForLine
        \/ /\ multibulklen = 0 /\ Newline # -1 /\ LineComplete
           /\ IF ~IsNumber(LineNumber) \/ n > MaxMultibulk
              THEN protocolError(addReplyErrorLength(<<"invalid", "count">>))
              ELSE
                /\ qb_pos' = Newline + 2
                /\ IF n <= 0
                     THEN pc' = "exec" /\ UNCHANGED <<multibulklen, argvCap>>
                     ELSE pc' = "args" /\ multibulklen' = n /\ newArgv(n)
                /\ UNCHANGED <<querybuf, bulklen, argv, reply>>
    <3>1. pc = "count" /\ parseCount
      BY <1>1
    <3> QED
      BY <3>1, Zenon DEF parseCount, n
  <2> QED
    BY <1>2, <1>3, <1>4, <1>5, <2>1, Zenon

LEMMA countParsedInv == ParserInv /\ CountParsed => ParserInv'
<1> SUFFICES ASSUME ParserInv, CountParsed
             PROVE  ParserInv'
  OBVIOUS
<1>1. BufferOK /\ RequestOK /\ FlagsOK /\ RequestState /\ Sent
  BY DEF ParserInv, Typed
<1>2. /\ pc = "count" /\ multibulklen = 0 /\ bulklen = -1 /\ argv = <<>> /\ reqtype = "multibulk"
      /\ \/ pc' = "exec" /\ UNCHANGED <<multibulklen, argvCap>>
         \/ pc' = "args" /\ multibulklen' \in 1..MaxMultibulk /\ argvCap' = multibulklen'
      /\ UNCHANGED <<input, recvd, querybuf, reqtype, bulklen, argv, executed, reply, ghost>>
  BY <1>1 DEF CountParsed, RequestState
<1>3. qb_pos' \in 0..Len(querybuf)
  <2>1. Newline \in Nat /\ Newline + 2 <= Len(querybuf) /\ qb_pos' = Newline + 2
    BY LineRead DEF ParserInv, CountParsed
  <2>2. Len(querybuf) \in Nat
    BY <1>1 DEF BufferOK
  <2> HIDE DEF Newline
  <2> QED
    BY <2>1, <2>2
<1>4. BufferOK' /\ RequestOK'
  <2>1. BufferOK'
    BY <1>1, <1>2, <1>3 DEF BufferOK, input
  <2>2. multibulklen' \in 0..MaxMultibulk /\ argvCap' \in 0..MaxMultibulk
    BY <1>1, <1>2, SizesAssumption DEF RequestOK
  <2> QED
    BY <1>1, <1>2, <2>1, <2>2 DEF RequestOK
<1>5. FlagsOK'
  <2>1. pc' \in {"exec", "args"}
    BY <1>2
  <2> QED
    BY <1>1, <1>2, <2>1, Zenon DEF FlagsOK
<1>6. RequestState'
  <2>1. Len(<<>>) = 0 /\ multibulklen' \in Nat
    BY <1>2
  <2> QED
    BY <1>1, <1>2, <2>1 DEF RequestState
<1> QED
  BY <1>1, <1>2, <1>4, <1>5, <1>6, SentKept DEF ParserInv, Typed

LEMMA parseCountInv == ParserInv /\ parseCount => ParserInv'
<1> SUFFICES ASSUME ParserInv, parseCount
             PROVE  ParserInv'
  OBVIOUS
<1>1. CASE Returns
  BY <1>1, returnsInv
<1>2. CASE CountParsed
  BY <1>2, countParsedInv
<1>3. CASE /\ pc = "count" /\ multibulklen # 0 /\ pc' = "args"
           /\ UNCHANGED <<input, recvd, querybuf, qb_pos, parse, executed, reply, ghost>>
  <2>1. BufferOK /\ RequestOK /\ FlagsOK /\ RequestState /\ Sent
    BY DEF ParserInv, Typed
  <2>2. /\ multibulklen' = multibulklen /\ bulklen' = bulklen /\ argv' = argv
        /\ argvCap' = argvCap /\ reqtype' = reqtype
    BY <1>3 DEF parse
  <2>3. BufferOK' /\ RequestOK'
    BY <1>3, <2>1, <2>2 DEF BufferOK, RequestOK, input
  <2>4. FlagsOK'
    BY <1>3, <2>1, <2>2, Zenon DEF FlagsOK
  <2>5. RequestState'
    BY <1>3, <2>1, <2>2 DEF RequestState
  <2> QED
    BY <1>3, <2>1, <2>3, <2>4, <2>5, SentKept DEF ParserInv, Typed
<1> QED
  BY <1>1, <1>2, <1>3, parseCountSteps

BulkHeaderParsed ==
  /\ pc = "args" /\ multibulklen # 0 /\ bulklen = -1 /\ Newline # -1 /\ LineComplete
  /\ \E ll \in 0..MaxBulkLen : ll = string2ll(LineNumber) /\ startBulk(ll)
  /\ UNCHANGED <<input, recvd, reqtype, multibulklen, argv, argvCap, executed, reply, ghost, pc>>

LEMMA parseBulkHeaderSteps ==
  ASSUME ParserInv, parseBulkHeader
  PROVE  Returns \/ BulkHeaderParsed
<1>1. /\ FlagsOK /\ pc = "args" /\ multibulklen # 0 /\ bulklen = -1
      /\ UNCHANGED <<input, recvd, reqtype, executed, ghost>>
  BY DEF ParserInv, Typed, parseBulkHeader
<1> DEFINE n == string2ll(LineNumber)
           text == addReplyErrorFormat(
                     <<"expected", "$">> \o CString(<<querybuf[qb_pos + 1]>>))
           bad == addReplyErrorLength(<<"invalid", "length">>)
<1>2. \/ waitForLine
      \/ protocolError(text)
      \/ protocolError(bad)
      \/ /\ Newline # -1 /\ LineComplete /\ n \in 0..MaxBulkLen /\ startBulk(n)
         /\ UNCHANGED <<multibulklen, argv, argvCap, reply, pc>>
  BY DEF parseBulkHeader
<1> HIDE DEF n, text, bad
<1>3. CASE waitForLine
  BY <1>1, <1>3, WaitReturns
<1>4. CASE protocolError(text) \/ protocolError(bad)
  BY <1>1, <1>4, ErrorReturns
<1>5. CASE /\ Newline # -1 /\ LineComplete /\ n \in 0..MaxBulkLen /\ startBulk(n)
           /\ UNCHANGED <<multibulklen, argv, argvCap, reply, pc>>
  <2>1. \E ll \in 0..MaxBulkLen : ll = string2ll(LineNumber) /\ startBulk(ll)
    BY <1>5 DEF n
  <2> QED
    BY <1>1, <1>5, <2>1 DEF BulkHeaderParsed
<1> QED
  BY <1>2, <1>3, <1>4, <1>5

LEMMA bulkHeaderParsedInv == ParserInv /\ BulkHeaderParsed => ParserInv'
<1> SUFFICES ASSUME ParserInv, BulkHeaderParsed
             PROVE  ParserInv'
  OBVIOUS
<1>1. BufferOK /\ RequestOK /\ FlagsOK /\ RequestState /\ Sent
  BY DEF ParserInv, Typed
<1>2. /\ pc = "args" /\ multibulklen # 0
      /\ UNCHANGED <<input, recvd, reqtype, multibulklen, argv, argvCap, executed, reply, ghost, pc>>
  BY DEF BulkHeaderParsed
<1>3. PICK ll \in 0..MaxBulkLen : startBulk(ll)
  BY DEF BulkHeaderParsed
<1> DEFINE pos == Newline + 2
           rest == SubSeq(querybuf, pos + 1, Len(querybuf))
<1>4. pos \in Nat /\ pos <= Len(querybuf) /\ Len(querybuf) \in Nat
  <2>1. Newline \in Nat /\ Newline + 2 <= Len(querybuf)
    BY LineRead DEF ParserInv, BulkHeaderParsed
  <2>2. Len(querybuf) \in Nat
    BY <1>1 DEF BufferOK
  <2> HIDE DEF Newline
  <2> QED
    BY <2>1, <2>2
<1>5. /\ bulklen' = ll
      /\ \/ querybuf' = rest /\ qb_pos' = 0
         \/ qb_pos' = pos /\ querybuf' = querybuf
  BY <1>3 DEF startBulk
<1>6. querybuf' \in Seq(Byte) /\ qb_pos' \in 0..Len(querybuf')
  <2> HIDE DEF pos
  <2>1. querybuf \in Seq(Byte) /\ rest \in Seq(Byte)
    BY <1>1, <1>4 DEF BufferOK
  <2> HIDE DEF rest
  <2> QED
    BY <1>4, <1>5, <2>1
<1>7. BufferOK' /\ RequestOK'
  <2>1. MaxBulkLen \in Nat
    BY SizesAssumption
  <2> QED
    BY <1>1, <1>2, <1>5, <1>6, <2>1 DEF BufferOK, RequestOK, input
<1>8. FlagsOK'
  BY <1>1, <1>2, Zenon DEF FlagsOK
<1>9. RequestState'
  BY <1>1, <1>2 DEF RequestState
<1> QED
  BY <1>1, <1>2, <1>7, <1>8, <1>9, SentKept DEF ParserInv, Typed

LEMMA waitForBulkInv == ParserInv /\ waitForBulk => ParserInv'
<1> SUFFICES ASSUME ParserInv, waitForBulk
             PROVE  ParserInv'
  OBVIOUS
<1>1. Returns
  BY DEF waitForBulk, Returns, ReturnFailed, ParserInv, Typed, FlagsOK
<1> QED
  BY <1>1, returnsInv

LEMMA takeBulkInv == ParserInv /\ takeBulk => ParserInv'
<1> SUFFICES ASSUME ParserInv, takeBulk
             PROVE  ParserInv'
  OBVIOUS
<1>1. BufferOK /\ RequestOK /\ FlagsOK /\ RequestState /\ Sent
  BY DEF ParserInv, Typed
<1> DEFINE arg == SubSeq(querybuf, qb_pos + 1, qb_pos + bulklen)
<1>2. /\ pc = "args" /\ multibulklen # 0 /\ bulklen # -1 /\ Unread >= bulklen + 2
      /\ argv' = Append(argv, arg)
      /\ \/ qb_pos = 0 /\ querybuf' = <<>> /\ qb_pos' = qb_pos
         \/ qb_pos' = qb_pos + bulklen + 2 /\ querybuf' = querybuf
      /\ bulklen' = -1 /\ multibulklen' = multibulklen - 1
      /\ UNCHANGED <<input, recvd, reqtype, argvCap, executed, reply, ghost, pc>>
  BY DEF takeBulk
<1>3. /\ Len(querybuf) \in Nat /\ qb_pos \in Nat /\ bulklen \in Nat
      /\ qb_pos + bulklen + 2 <= Len(querybuf)
  <2>1. /\ Len(querybuf) \in Nat /\ qb_pos \in Nat /\ bulklen \in Int /\ bulklen >= -1
    BY <1>1, SizesAssumption DEF BufferOK, RequestOK
  <2> QED
    BY <1>2, <2>1 DEF Unread
<1>4. arg \in Seq(Byte)
  BY <1>1, <1>3 DEF BufferOK
<1> HIDE DEF arg
<1>5. argv' \in Seq(Seq(Byte)) /\ Len(argv') = Len(argv) + 1 /\ Len(argv) \in Nat
  BY <1>1, <1>2, <1>4 DEF RequestOK
<1>6. BufferOK'
  <2>1. <<>> \in Seq(Byte) /\ Len(<<>>) = 0
    OBVIOUS
  <2>2. CASE querybuf' = querybuf
    BY <1>1, <1>2, <1>3, <2>1, <2>2 DEF BufferOK, input
  <2>3. CASE querybuf' # querybuf
    <3>1. querybuf' = <<>> /\ qb_pos' = 0
      BY <1>2, <2>3
    <3> QED
      BY <1>1, <1>2, <2>1, <3>1 DEF BufferOK, input
  <2> QED
    BY <2>2, <2>3
<1>7. RequestOK'
  BY <1>1, <1>2, <1>5, SizesAssumption DEF RequestOK
<1>8. FlagsOK'
  BY <1>1, <1>2, Zenon DEF FlagsOK
<1>9. RequestState'
  <2>1. multibulklen \in Nat /\ argvCap \in Nat
    BY <1>1, SizesAssumption DEF RequestOK
  <2> QED
    BY <1>1, <1>2, <1>5, <2>1 DEF RequestState
<1> QED
  BY <1>1, <1>2, <1>6, <1>7, <1>8, <1>9, SentKept DEF ParserInv, Typed

LEMMA execInv == ParserInv /\ (execCommand \/ execWithoutArguments) => ParserInv'
<1> SUFFICES ASSUME ParserInv, execCommand \/ execWithoutArguments
             PROVE  ParserInv'
  OBVIOUS
<1>1. BufferOK /\ RequestOK /\ FlagsOK /\ RequestState /\ Sent
  BY DEF ParserInv, Typed
<1>2. /\ pc = "exec" /\ pc' \in {"loop", "crashed"} /\ UNCHANGED <<input, recvd, querybuf, qb_pos>>
      /\ ghost' \in {ghost, TRUE}
      /\ reply'.count \in 0..1
      /\ executed' \in Seq(Seq(Seq(Byte)))
  <2>1. CASE execCommand
    <3>1. reply' \in processCommand(argv)
      BY <2>1 DEF execCommand
    <3>2. executed' \in Seq(Seq(Seq(Byte)))
      BY <1>1, <2>1 DEF execCommand, RequestOK
    <3> QED
      BY <2>1, <3>1, <3>2, AnswerCounts DEF execCommand, NextPhase
  <2>2. CASE execWithoutArguments
    BY <1>1, <2>2 DEF execWithoutArguments, NextPhase, FlagsOK, RequestOK
  <2> QED
    BY <2>1, <2>2
<1>3. \/ /\ argv' = <<>> /\ reqtype' = "none" /\ multibulklen' = 0 /\ bulklen' = -1
         /\ argvCap' = argvCap /\ pc' = "loop"
      \/ UNCHANGED parse /\ pc' = "crashed"
  BY DEF execCommand, execWithoutArguments, resetClient, NextPhase
<1>4. Len(<<>>) = 0 /\ <<>> \in Seq(Seq(Byte))
  OBVIOUS
<1>5. BufferOK' /\ RequestOK'
  <2>1. 0 \in 0..MaxMultibulk /\ -1 \in -1..MaxBulkLen
    BY SizesAssumption
  <2>2. BufferOK'
    BY <1>1, <1>2 DEF BufferOK, input
  <2>3. CASE UNCHANGED parse
    BY <1>1, <1>2, <2>2, <2>3 DEF RequestOK, parse
  <2>4. CASE ~UNCHANGED parse
    BY <1>1, <1>2, <1>3, <1>4, <2>1, <2>2, <2>4 DEF RequestOK
  <2> QED
    BY <2>3, <2>4
<1>6. FlagsOK'
  <2>1. reqtype' \in {reqtype, "none"}
    BY <1>3 DEF parse
  <2> QED
    BY <1>1, <1>2, <2>1, Zenon DEF FlagsOK
<1>7. RequestState'
  <2>1. argvCap \in Nat
    BY <1>1, SizesAssumption DEF RequestOK
  <2> QED
    BY <1>1, <1>2, <1>3, <1>4, <2>1 DEF RequestState, parse
<1> QED
  BY <1>1, <1>2, <1>5, <1>6, <1>7, SentKept DEF ParserInv, Typed

LEMMA ParserStep == ParserInv /\ [Next]_vars => ParserInv'
<1> SUFFICES ASSUME ParserInv, [Next]_vars
             PROVE  ParserInv'
  OBVIOUS
<1>1. CASE UNCHANGED vars
  <2>1. /\ UNCHANGED <<input, recvd, querybuf, qb_pos, executed, reply, ghost, pc>>
        /\ UNCHANGED <<reqtype, multibulklen, bulklen, argv, argvCap>>
    BY <1>1 DEF vars, parse
  <2>2. BufferOK' /\ RequestOK'
    BY <2>1 DEF ParserInv, Typed, BufferOK, RequestOK, input
  <2>3. FlagsOK'
    BY <2>1, Zenon DEF ParserInv, Typed, FlagsOK
  <2>4. RequestState'
    BY <2>1 DEF ParserInv, RequestState, Unread
  <2> QED
    BY <2>1, <2>2, <2>3, <2>4, SentKept DEF ParserInv, Typed
<1>2. CASE Next
  BY <1>2, readQueryInv, loopInv, trimInv, parseCountInv, parseBulkHeaderSteps,
     bulkHeaderParsedInv, returnsInv, waitForBulkInv, takeBulkInv, execInv
  DEF Next, Parse
<1> QED
  BY <1>1, <1>2

(* The parser keeps its request consistent.                                *)
THEOREM InvariantParser == Spec => []ParserInv
  BY InitTyped, ParserStep, PTL DEF Spec

(* argv has room for every argument parsed and to be parsed, and the       *)
(* assertions of processMultibulkBuffer() hold.                            *)
THEOREM ArgumentsFit == Spec => []ArgvFits
<1>1. ParserInv => ArgvFits
  <2> SUFFICES ASSUME ParserInv
               PROVE  ArgvFits
    OBVIOUS
  <2>1. TypeOK
    <3>1. /\ recvd \in 0..Len(stream) /\ qb_pos \in 0..Len(querybuf)
          /\ multibulklen \in 0..MaxMultibulk /\ bulklen \in -1..MaxBulkLen
          /\ argvCap \in 0..MaxMultibulk /\ reply.count \in 0..1
      BY DEF ParserInv, Typed, BufferOK, RequestOK, FlagsOK
    <3>2. /\ ghost \in BOOLEAN /\ reqtype \in {"none", "inline", "multibulk"}
          /\ pc \in {"poll", "loop", "count", "args", "exec", "trim", "closed", "crashed"}
      BY Zenon DEF ParserInv, Typed, FlagsOK
    <3> QED
      BY <3>1, <3>2, Zenon DEF TypeOK
  <2>2. AssertionsHold
    <3>1. multibulklen \in Nat
      BY SizesAssumption DEF ParserInv, Typed, RequestOK
    <3> QED
      BY <3>1 DEF ParserInv, RequestState, AssertionsHold
  <2> QED
    BY <2>1, <2>2 DEF ParserInv, RequestState, ArgvFits
<1> QED
  BY <1>1, InvariantParser, PTL

(* While a big argument is awaited nothing past its end is read.           *)
THEOREM BigArgumentAlone == Spec => BigArgAlone
<1> DEFINE A == pc = "poll" /\ pc' = "loop" /\ bulklen >= BigArg =>
                  Len(querybuf) < bulklen + 2 /\ Len(querybuf') <= bulklen + 2
<1>1. ParserInv /\ [Next]_vars => [A]_vars
  <2> SUFFICES ASSUME ParserInv, Next, pc = "poll", pc' = "loop", bulklen >= BigArg
               PROVE  Len(querybuf) < bulklen + 2 /\ Len(querybuf') <= bulklen + 2
    OBVIOUS
  <2>1. readQuery
    BY DEF Next, Parse, readEnds, loopTest, trimToPos, parseCount, parseBulkHeader, waitForBulk,
           takeBulk, argsComplete, execCommand, execWithoutArguments
  <2>2. PICK n \in 1..readlen :
          /\ recvd + n <= Len(stream)
          /\ querybuf' = querybuf \o SubSeq(stream, recvd + 1, recvd + n)
    BY <2>1 DEF readQuery
  <2>3. /\ BufferOK /\ IobufLen \in Nat /\ BigArg \in Nat /\ bulklen \in Int /\ multibulklen \in Nat
        /\ Len(querybuf) \in Nat
    BY SizesAssumption DEF ParserInv, Typed, BufferOK, RequestOK
  <2>4. multibulklen # 0 /\ reqtype = "multibulk" /\ Len(querybuf) < bulklen + 2
    <3>1. bulklen # -1
      BY <2>3
    <3> QED
      BY <2>3, <3>1 DEF ParserInv, RequestState, Unread
  <2>5. readlen \in Int /\ readlen <= bulklen + 2 - Len(querybuf)
    BY <2>3, <2>4 DEF readlen
  <2>6. n \in Nat /\ n >= 1 /\ n <= bulklen + 2 - Len(querybuf)
    <3> DEFINE l == readlen
               x == bulklen + 2 - Len(querybuf)
    <3>1. n \in 1..l /\ l \in Int /\ l <= x /\ x \in Int
      BY <2>3, <2>5
    <3> HIDE DEF l, x
    <3>2. n \in Nat /\ n >= 1 /\ n <= x
      BY <3>1
    <3> QED
      BY <3>2 DEF x
  <2> DEFINE t == SubSeq(stream, recvd + 1, recvd + n)
  <2>7. t \in Seq(Byte) /\ Len(t) = n /\ querybuf \in Seq(Byte)
    BY <2>2, <2>3, <2>6 DEF BufferOK
  <2>8. Len(querybuf') = Len(querybuf) + Len(t)
    <3> HIDE DEF t
    <3> QED
      BY <2>2, <2>7, Joined DEF t
  <2> HIDE DEF t
  <2> QED
    BY <2>3, <2>4, <2>6, <2>7, <2>8
<1> QED
  BY <1>1, InvariantParser, PTL DEF Spec, BigArgAlone

-----------------------------------------------------------------------------
(* The commands executed are the requests sent.  The buffer is a window on *)
(* the stream; the position of the parser is a place in it, and tells what *)
(* the parser has read of the request it is at.                            *)
Start == recvd - Len(querybuf)
Pos == Start + qb_pos

Window ==
  /\ Start \in Nat
  /\ \A i \in 1..Len(querybuf) : querybuf[i] = stream[Start + i]

AtStart(k) ==
  /\ multibulklen = 0 /\ argv = <<>> /\ pc \in {"poll", "loop", "count", "trim"}
  /\ reqtype # "inline" /\ Pos = ReqEnd(requests, k - 1)

AtArgument(k) ==
  LET a == Len(argv) + 1 IN
  /\ multibulklen # 0 /\ Len(argv) + multibulklen = Len(requests[k])
  /\ pc \in {"poll", "loop", "count", "args", "trim"}
  /\ \/ bulklen = -1 /\ Pos = ArgAt(requests, k, a)
     \/ bulklen = Len(requests[k][a]) /\ Pos = ArgAt(requests, k, a) + 4

AtEnd(k) ==
  /\ multibulklen = 0 /\ Len(argv) = Len(requests[k]) /\ pc \in {"args", "exec"}
  /\ Pos = ReqEnd(requests, k)

(* The parser is at the k-th request, and waits only for the rest of it.   *)
AtRequest(k) ==
  /\ \A i \in 1..Len(argv) : argv[i] = requests[k][i]
  /\ AtStart(k) \/ AtArgument(k) \/ AtEnd(k)
  /\ pc \in {"trim", "poll"} => recvd < ReqEnd(requests, k)

(* After the last request, the parser has read them all.                   *)
Progress ==
  /\ \A i \in 1..Len(executed) : i <= Len(requests) => executed[i] = requests[i]
  /\ Len(executed) < Len(requests) /\ pc # "closed" => AtRequest(Len(executed) + 1)
  /\ Len(executed) >= Len(requests) => ReqEnd(requests, Len(requests)) <= recvd

ExactInv == ParserInv /\ Window /\ Progress

LEMMA RequestPlace ==
  ASSUME Sent, NEW k \in 1..Len(requests)
  PROVE  /\ RequestLies(stream, requests, k)
         /\ Len(requests[k]) \in Written /\ Len(requests[k]) \in 1..MaxMultibulk
         /\ ReqEnd(requests, k - 1) \in Nat
<1>1. PICK tail \in Seq(STRING) : stream = EncodeAll(requests) \o tail
  BY DEF Sent
<1>2. RequestLies(stream, requests, k)
  BY <1>1, StreamLayout DEF Sent
<1>3. ReqEnd(requests, k - 1) \in Nat
  BY <1>2 DEF RequestLies, HeaderAt
<1> QED
  BY <1>2, <1>3 DEF Sent, WellFormed

LEMMA ArgPlace ==
  ASSUME Sent, NEW k \in 1..Len(requests), NEW a \in 1..Len(requests[k])
  PROVE  /\ ArgLies(stream, requests, k, a)
         /\ Len(requests[k][a]) \in Written /\ Len(requests[k][a]) \in 0..MaxBulkLen
         /\ requests[k][a] \in Seq(STRING)
         /\ ArgAt(requests, k, a) \in Nat /\ ReqEnd(requests, k) \in Nat
<1>1. RequestLies(stream, requests, k)
  BY RequestPlace
<1>2. ArgLies(stream, requests, k, a)
  BY <1>1 DEF RequestLies
<1>3. ArgAt(requests, k, a) \in Nat
  BY <1>2 DEF ArgLies, HeaderAt
<1>4. WellFormedRequest(requests[k])
  BY EachWellFormed DEF Sent
<1>5. requests[k][a] \in Seq(STRING)
  BY <1>4 DEF WellFormedRequest
<1>6. Len(requests[k][a]) \in Written /\ Len(requests[k][a]) \in 0..MaxBulkLen
  BY DEF Sent, WellFormed
<1> QED
  BY <1>1, <1>2, <1>3, <1>5, <1>6 DEF RequestLies

LEMMA Ends ==
  ASSUME Sent
  PROVE  /\ Len(requests) \in Nat /\ ReqEnd(requests, 0) = 0
         /\ \A j \in 0..Len(requests) : \A k \in j..Len(requests) :
              ReqEnd(requests, j) <= ReqEnd(requests, k)
         /\ \A k \in 0..Len(requests) :
              Len(EncodeAll(SubSeq(requests, 1, k))) = ReqEnd(requests, k)
<1>1. PICK tail \in Seq(STRING) : stream = EncodeAll(requests) \o tail
  BY DEF Sent
<1>2. Len(requests) \in Nat
  BY EachWellFormed DEF Sent
<1> QED
  BY <1>1, <1>2, AllLayout DEF Sent

(* A header that lies where the parser is, is read for what it is.         *)
LEMMA HeaderRead ==
  ASSUME Typed, Window, NEW b \in {"*", "$"}, NEW n \in Written, HeaderAt(stream, b, n, Pos)
  PROVE  /\ Newline = -1 \/ ~LineComplete => recvd < Pos + 4
         /\ Newline # -1 /\ LineComplete =>
              /\ Newline = qb_pos + 2 /\ querybuf[qb_pos + 1] = b
              /\ IsNumber(LineNumber) /\ string2ll(LineNumber) = n
<1> DEFINE L == Len(querybuf)
           d == DigitOf(n)
<1>1. L \in Nat /\ qb_pos \in Nat /\ qb_pos <= L /\ Start \in Nat /\ recvd \in Nat
  BY DEF Typed, BufferOK, Window
<1>2. recvd = Start + L /\ Pos = Start + qb_pos /\ Unread = L - qb_pos
  <2>1. Start = recvd - L /\ Pos = Start + qb_pos /\ Unread = L - qb_pos
    BY DEF Start, Pos, Unread
  <2> HIDE DEF L
  <2> QED
    BY <1>1, <2>1
<1>3. d \in DOMAIN Digits /\ Digits[d] = n /\ d \notin {"CR", "NUL"}
  BY WrittenDigit, DigitsAssumption
<1>4. stream[Pos + 1] = b /\ stream[Pos + 2] = d /\ stream[Pos + 3] = "CR"
  BY DEF HeaderAt
<1>5. ASSUME NEW i \in 1..3, qb_pos + i <= L
      PROVE  querybuf[qb_pos + i] = stream[Pos + i]
  <2>1. qb_pos + i \in 1..L
    BY <1>1, <1>5
  <2>2. Start + (qb_pos + i) = Pos + i
    BY <1>1, <1>2
  <2> QED
    BY <2>1, <2>2 DEF Window
<1> HIDE DEF L, d
<1>6. b \notin {"CR", "NUL"}
  OBVIOUS
<1>7. CASE L - qb_pos >= 3
  <2>1. /\ querybuf[qb_pos + 1] = b /\ querybuf[qb_pos + 2] = d /\ querybuf[qb_pos + 3] = "CR"
    <3>1. qb_pos + 1 <= L /\ qb_pos + 2 <= L /\ qb_pos + 3 <= L
      BY <1>1, <1>7
    <3> QED
      BY <1>4, <1>5, <3>1
  <2>2. Newline = qb_pos + 2
    <3> DEFINE i == qb_pos + 2
    <3>1. i \in qb_pos..(Len(querybuf) - 1) /\ i + 1 = qb_pos + 3
      BY <1>1, <1>7 DEF L
    <3>2. ASSUME NEW j \in qb_pos..(i - 1)
          PROVE  querybuf[j + 1] \notin {"CR", "NUL"}
      <4>1. j = qb_pos \/ j = qb_pos + 1
        BY <1>1
      <4>2. j + 1 = qb_pos + 1 \/ j + 1 = qb_pos + 2
        BY <1>1, <4>1
      <4> QED
        BY <1>3, <1>6, <2>1, <4>2
    <3>3. querybuf[i + 1] = "CR"
      BY <2>1, <3>1
    <3> HIDE DEF i
    <3> QED
      BY <3>1, <3>2, <3>3, NewlineIs DEF i
  <2>3. LineComplete <=> L - qb_pos >= 4
    <3>1. LineComplete <=> Newline - qb_pos <= Unread - 2
      BY DEF LineComplete
    <3> HIDE DEF Newline
    <3> QED
      BY <1>1, <1>2, <2>2, <3>1
  <2>4. Len(LineNumber) = 1 /\ LineNumber[1] = d
    <3> DEFINE m == qb_pos + 2
    <3>1. LineNumber = SubSeq(querybuf, m, m)
      BY <2>2 DEF LineNumber
    <3>2. m \in 1..Len(querybuf) /\ querybuf[m] = d /\ querybuf \in Seq(Byte)
      BY <1>1, <1>7, <2>1 DEF Typed, BufferOK, L
    <3> HIDE DEF m
    <3>3. Len(SubSeq(querybuf, m, m)) = 1 /\ SubSeq(querybuf, m, m)[1] = querybuf[m]
      BY <3>2
    <3> QED
      BY <3>1, <3>2, <3>3
  <2>5. IsNumber(LineNumber) /\ string2ll(LineNumber) = n
    BY <1>3, <2>4 DEF IsNumber, string2ll
  <2>6. Newline # -1
    <3> HIDE DEF Newline
    <3> QED
      BY <1>1, <2>2
  <2>7. ~LineComplete => recvd < Pos + 4
    BY <1>1, <1>2, <2>3
  <2> QED
    BY <2>1, <2>2, <2>5, <2>6, <2>7
<1>8. CASE ~(L - qb_pos >= 3)
  <2>1. recvd < Pos + 4
    BY <1>1, <1>2, <1>8
  <2>2. ASSUME Newline # -1, LineComplete
        PROVE  FALSE
    <3>1. Newline \in qb_pos..(L - 1) /\ querybuf[Newline + 1] = "CR" /\ Newline + 2 <= L
      BY <2>2, NewlineFound, LineRead DEF L
    <3>2. Newline = qb_pos /\ qb_pos + 1 <= L
      <4> HIDE DEF Newline
      <4> QED
        BY <1>1, <1>8, <3>1
    <3>3. querybuf[qb_pos + 1] = b
      BY <1>4, <1>5, <3>2
    <3> QED
      BY <1>6, <3>1, <3>2, <3>3
  <2> QED
    BY <2>1, <2>2
<1> QED
  BY <1>7, <1>8

(* How a step moves the window.                                            *)
LEMMA Place ==
  ASSUME Typed, Window
  PROVE  /\ Len(querybuf) \in Nat /\ qb_pos \in Nat /\ qb_pos <= Len(querybuf)
         /\ Start \in Nat /\ recvd \in Nat /\ Pos \in Nat
         /\ recvd = Start + Len(querybuf) /\ Pos = Start + qb_pos
         /\ Unread = Len(querybuf) - qb_pos
<1> DEFINE L == Len(querybuf)
<1>1. L \in Nat /\ qb_pos \in Nat /\ qb_pos <= L /\ Start \in Nat /\ recvd \in Nat
  BY DEF Typed, BufferOK, Window
<1>2. Start = recvd - L /\ Pos = Start + qb_pos /\ Unread = L - qb_pos
  BY DEF Start, Pos, Unread
<1> HIDE DEF L
<1>3. recvd = Start + L /\ Pos \in Nat
  BY <1>1, <1>2
<1> QED
  BY <1>1, <1>2, <1>3 DEF L

LEMMA SameBuffer ==
  ASSUME Window, UNCHANGED <<stream, recvd, querybuf>>
  PROVE  Window' /\ Start' = Start
<1>1. Start' = Start
  BY DEF Start
<1> QED
  BY <1>1 DEF Window

LEMMA BufferGrows ==
  ASSUME Typed, Window, readQuery
  PROVE  Window' /\ Pos' = Pos /\ recvd' \in Nat /\ recvd < recvd'
<1>1. /\ BufferOK /\ UNCHANGED <<input, qb_pos>>
      /\ \E n \in 1..readlen :
        /\ recvd + n <= Len(stream) /\ recvd' = recvd + n
        /\ querybuf' = querybuf \o SubSeq(stream, recvd + 1, recvd + n)
  BY DEF readQuery, Typed
<1>2. PICK n \in 1..readlen :
        /\ recvd + n <= Len(stream) /\ recvd' = recvd + n
        /\ querybuf' = querybuf \o SubSeq(stream, recvd + 1, recvd + n)
  BY <1>1
<1>3. n \in Nat /\ n >= 1
  BY DEF readlen
<1> DEFINE t == SubSeq(stream, recvd + 1, recvd + n)
           L == Len(querybuf)
<1>4. t \in Seq(Byte) /\ Len(t) = n /\ \A i \in 1..n : t[i] = stream[recvd + i]
  BY <1>1, <1>2, <1>3 DEF BufferOK
<1>5. L \in Nat /\ Start \in Nat /\ recvd = Start + L /\ recvd \in Nat
  BY Place
<1> HIDE DEF t
<1>6. /\ Len(querybuf') = L + n
      /\ \A i \in 1..L : querybuf'[i] = querybuf[i]
      /\ \A i \in 1..n : querybuf'[L + i] = t[i]
  <2>1. querybuf \in Seq(Byte) /\ querybuf' = querybuf \o t
    BY <1>1, <1>2 DEF BufferOK, t
  <2>2. /\ Len(querybuf \o t) = Len(querybuf) + Len(t)
        /\ \A i \in 1..Len(querybuf) : (querybuf \o t)[i] = querybuf[i]
        /\ \A i \in 1..Len(t) : (querybuf \o t)[Len(querybuf) + i] = t[i]
    BY <1>4, <2>1, Joined
  <2> QED
    BY <1>4, <2>1, <2>2
<1> HIDE DEF L
<1>7. Start' = Start
  <2>1. Start' = recvd' - Len(querybuf')
    BY DEF Start
  <2> QED
    BY <1>2, <1>3, <1>5, <1>6, <2>1
<1>8. \A i \in 1..Len(querybuf') : querybuf'[i] = stream[Start + i]
  <2> SUFFICES ASSUME NEW i \in 1..(L + n)
               PROVE  querybuf'[i] = stream[Start + i]
    BY <1>6
  <2>1. CASE i <= L
    <3>1. i \in 1..L
      BY <1>5, <2>1
    <3> QED
      BY <1>6, <3>1 DEF Window, L
  <2>2. CASE ~(i <= L)
    <3> DEFINE j == i - L
    <3>1. j \in 1..n /\ i = L + j /\ recvd + j = Start + i
      BY <1>3, <1>5, <2>2
    <3> HIDE DEF j
    <3>2. querybuf'[L + j] = t[j] /\ t[j] = stream[recvd + j]
      BY <1>4, <1>6, <3>1
    <3> QED
      BY <3>1, <3>2
  <2> QED
    BY <2>1, <2>2
<1>9. stream' = stream /\ qb_pos' = qb_pos
  BY <1>1 DEF input
<1>10. Window' /\ Pos' = Pos
  BY <1>5, <1>7, <1>8, <1>9 DEF Window, Pos
<1> QED
  BY <1>2, <1>3, <1>5, <1>10

(* Cutting the first p bytes of the buffer off.                            *)
LEMMA BufferCut ==
  ASSUME Typed, Window, NEW p \in 0..Len(querybuf), UNCHANGED <<stream, recvd>>,
         querybuf' = SubSeq(querybuf, p + 1, Len(querybuf))
  PROVE  Window' /\ Start' = Start + p
<1> DEFINE L == Len(querybuf)
<1>1. L \in Nat /\ Start \in Nat /\ recvd = Start + L /\ recvd \in Nat /\ p \in Nat /\ p <= L
  BY Place
<1>2. Len(querybuf') = L - p /\ \A i \in 1..(L - p) : querybuf'[i] = querybuf[p + i]
  BY DEF Typed, BufferOK
<1> HIDE DEF L
<1>3. Start' = Start + p
  <2>1. Start' = recvd' - Len(querybuf')
    BY DEF Start
  <2> QED
    BY <1>1, <1>2, <2>1
<1>4. ASSUME NEW i \in 1..Len(querybuf')
      PROVE  querybuf'[i] = stream[(Start + p) + i]
  <2>1. p + i \in 1..L /\ i \in 1..(L - p) /\ (Start + p) + i = Start + (p + i)
    BY <1>1, <1>2
  <2> QED
    BY <1>2, <2>1 DEF Window, L
<1>5. Start + p \in Nat
  BY <1>1
<1> QED
  BY <1>3, <1>4, <1>5 DEF Window

(* The parser within a request, and the argument it is at.                 *)
LEMMA ArgumentAwaited ==
  ASSUME ParserInv, NEW k \in 1..Len(requests), AtArgument(k)
  PROVE  LET a == Len(argv) + 1 IN
         /\ a \in 1..Len(requests[k]) /\ Len(argv) \in Nat /\ Len(requests[k]) \in Nat
         /\ multibulklen \in Nat /\ multibulklen >= 1
         /\ ArgLies(stream, requests, k, a) /\ ArgAt(requests, k, a) \in Nat
         /\ Len(requests[k][a]) \in Written /\ Len(requests[k][a]) \in 0..MaxBulkLen
         /\ Len(requests[k][a]) \in Nat
         /\ ReqEnd(requests, k) \in Nat
         /\ ArgAt(requests, k, a) + (Len(requests[k][a]) + 6) <= ReqEnd(requests, k)
<1> DEFINE a == Len(argv) + 1
<1>1. /\ Sent /\ multibulklen \in Nat /\ multibulklen # 0 /\ Len(argv) \in Nat
      /\ Len(argv) + multibulklen = Len(requests[k])
  BY SizesAssumption DEF ParserInv, Typed, RequestOK, AtArgument
<1>2. a \in 1..Len(requests[k])
  BY <1>1
<1> HIDE DEF a
<1>3. /\ ArgLies(stream, requests, k, a)
      /\ Len(requests[k][a]) \in Written /\ Len(requests[k][a]) \in 0..MaxBulkLen
      /\ requests[k][a] \in Seq(STRING)
      /\ ArgAt(requests, k, a) \in Nat /\ ReqEnd(requests, k) \in Nat
  BY <1>1, <1>2, ArgPlace
<1>4. Len(requests[k][a]) \in Nat
  BY <1>3
<1>5. ArgAt(requests, k, a) + (Len(requests[k][a]) + 6) <= ReqEnd(requests, k)
  BY <1>3 DEF ArgLies
<1>6. Len(requests[k]) \in Nat /\ multibulklen >= 1
  BY <1>1
<1> QED
  BY <1>1, <1>2, <1>3, <1>4, <1>5, <1>6 DEF a

LEMMA StartOfRequest ==
  ASSUME ParserInv, NEW k \in 1..Len(requests), AtStart(k)
  PROVE  /\ HeaderAt(stream, "*", Len(requests[k]), Pos) /\ Pos \in Nat
         /\ ArgAt(requests, k, 1) = Pos + 4 /\ Pos + 4 <= ReqEnd(requests, k)
         /\ Len(requests[k]) \in Written /\ Len(requests[k]) \in 1..MaxMultibulk
         /\ ReqEnd(requests, k) \in Nat
<1>1. /\ RequestLies(stream, requests, k) /\ Len(requests[k]) \in Written
      /\ Len(requests[k]) \in 1..MaxMultibulk /\ ReqEnd(requests, k - 1) \in Nat
  BY RequestPlace DEF ParserInv, Typed
<1>2. Pos = ReqEnd(requests, k - 1)
  BY DEF AtStart
<1> QED
  BY <1>1, <1>2 DEF RequestLies

(* What waits for bytes has not been sent them.                            *)
LEMMA readQueryAt ==
  ASSUME ExactInv, NEW k \in 1..Len(requests), AtRequest(k), readQuery
  PROVE  pc' = "closed" \/ AtRequest(k)'
<1>1. /\ pc = "poll" /\ pc' \in {"closed", "loop"}
      /\ UNCHANGED <<requests, multibulklen, bulklen, argv, reqtype>>
  BY DEF readQuery, input, parse
<1>2. Pos' = Pos
  BY BufferGrows DEF ExactInv, ParserInv
<1>3. AtStart(k) \/ AtArgument(k)
  BY <1>1 DEF AtRequest, AtEnd
<1> SUFFICES ASSUME pc' = "loop"
             PROVE  AtRequest(k)'
  BY <1>1
<1>4. AtStart(k)' \/ AtArgument(k)'
  BY <1>1, <1>2, <1>3 DEF AtStart, AtArgument
<1> QED
  BY <1>1, <1>4 DEF AtRequest

LEMMA trimPos ==
  ASSUME Typed, Window, trimToPos
  PROVE  Pos' = Pos
<1>1. qb_pos \in 0..Len(querybuf) /\ UNCHANGED <<stream, recvd>> /\ qb_pos' = 0
      /\ querybuf' = SubSeq(querybuf, qb_pos + 1, Len(querybuf))
  BY DEF Typed, BufferOK, trimToPos, input
<1>2. Start' = Start + qb_pos
  BY <1>1, BufferCut
<1>3. Pos' = Start' + qb_pos' /\ Pos = Start + qb_pos
  BY DEF Pos
<1>4. Start \in Nat /\ qb_pos \in Nat
  BY Place
<1> QED
  BY <1>1, <1>2, <1>3, <1>4

LEMMA trimAt ==
  ASSUME ExactInv, NEW k \in 1..Len(requests), AtRequest(k), trimToPos
  PROVE  AtRequest(k)'
<1>1. /\ pc = "trim" /\ pc' = "poll"
      /\ UNCHANGED <<requests, recvd, multibulklen, bulklen, argv, reqtype>>
  BY DEF trimToPos, input, parse
<1>2. Pos' = Pos
  BY trimPos DEF ExactInv, ParserInv
<1>3. AtStart(k) \/ AtArgument(k)
  BY <1>1 DEF AtRequest, AtEnd
<1>4. AtStart(k)' \/ AtArgument(k)'
  BY <1>1, <1>2, <1>3 DEF AtStart, AtArgument
<1>5. recvd' < ReqEnd(requests', k)
  BY <1>1 DEF AtRequest
<1> QED
  BY <1>1, <1>4, <1>5 DEF AtRequest

LEMMA loopTestAt ==
  ASSUME ExactInv, NEW k \in 1..Len(requests), AtRequest(k), loopTest
  PROVE  AtRequest(k)'
<1> DEFINE L == Len(querybuf)
<1>1. /\ pc = "loop"
      /\ UNCHANGED <<requests, stream, recvd, querybuf, qb_pos, multibulklen, bulklen, argv>>
  BY DEF loopTest, input
<1>2. AtStart(k) \/ AtArgument(k)
  BY <1>1 DEF AtRequest, AtEnd
<1>3. Pos' = Pos
  BY <1>1 DEF Pos, Start
<1>4. /\ L \in Nat /\ qb_pos \in Nat /\ Start \in Nat /\ recvd = Start + L
      /\ Pos = Start + qb_pos /\ Pos \in Nat /\ qb_pos <= L
  BY Place DEF ExactInv, ParserInv
<1>5. Pos < ReqEnd(requests, k)
  <2>1. CASE AtStart(k)
    BY <1>4, <2>1, StartOfRequest DEF ExactInv
  <2>2. CASE AtArgument(k)
    <3> DEFINE a == Len(argv) + 1
               l == Len(requests[k][a])
    <3>1. /\ l \in Nat /\ ArgAt(requests, k, a) \in Nat /\ ReqEnd(requests, k) \in Nat
          /\ ArgAt(requests, k, a) + (l + 6) <= ReqEnd(requests, k)
      BY <2>2, ArgumentAwaited DEF ExactInv
    <3>2. Pos = ArgAt(requests, k, a) \/ Pos = ArgAt(requests, k, a) + 4
      BY <2>2 DEF AtArgument
    <3> HIDE DEF a, l
    <3> QED
      BY <3>1, <3>2
  <2> QED
    BY <1>2, <2>1, <2>2
<1> HIDE DEF L
<1>6. CASE qb_pos >= L
  <2>1. pc' = "trim" /\ reqtype' = reqtype
    BY <1>6 DEF loopTest, L
  <2>2. recvd' < ReqEnd(requests', k)
    <3>1. recvd = Pos
      BY <1>4, <1>6
    <3> QED
      BY <1>1, <1>5, <3>1
  <2>3. AtStart(k)' \/ AtArgument(k)'
    BY <1>1, <1>2, <1>3, <2>1 DEF AtStart, AtArgument
  <2> QED
    BY <1>1, <2>1, <2>2, <2>3 DEF AtRequest
<1>7. CASE ~(qb_pos >= L)
  <2>1. reqtype = "multibulk" \/ (reqtype = "none" /\ querybuf[qb_pos + 1] = "*")
    <3>1. CASE AtStart(k)
      <4>1. stream[Pos + 1] = "*"
        BY <3>1, StartOfRequest DEF ExactInv, HeaderAt
      <4>2. qb_pos + 1 \in 1..L /\ Start + (qb_pos + 1) = Pos + 1
        BY <1>4, <1>7
      <4>3. querybuf[qb_pos + 1] = "*"
        BY <4>1, <4>2 DEF ExactInv, Window, L
      <4>4. reqtype \in {"none", "multibulk"}
        BY <3>1 DEF ExactInv, ParserInv, Typed, FlagsOK, AtStart
      <4> QED
        BY <4>3, <4>4
    <3>2. CASE AtArgument(k)
      BY <3>2 DEF AtArgument, ExactInv, ParserInv, RequestState
    <3> QED
      BY <1>2, <3>1, <3>2
  <2>2. reqtype' = "multibulk" /\ pc' = "count"
    BY <1>7, <2>1 DEF loopTest, L
  <2>3. AtStart(k)' \/ AtArgument(k)'
    BY <1>1, <1>2, <1>3, <2>2 DEF AtStart, AtArgument
  <2> QED
    BY <1>1, <2>2, <2>3 DEF AtRequest
<1> QED
  BY <1>6, <1>7

(* The parser returns before the request is complete.                      *)
LEMMA waitAt ==
  ASSUME NEW k \in 1..Len(requests), AtRequest(k), AtStart(k) \/ AtArgument(k),
         UNCHANGED <<input, recvd, querybuf, qb_pos, parse>>,
         pc' = "trim", recvd < ReqEnd(requests, k)
  PROVE  AtRequest(k)'
<1>1. UNCHANGED <<requests, recvd, multibulklen, bulklen, argv, reqtype>> /\ Pos' = Pos
  BY DEF input, parse, Pos, Start
<1>2. AtStart(k)' \/ AtArgument(k)'
  BY <1>1 DEF AtStart, AtArgument
<1> QED
  BY <1>1, <1>2 DEF AtRequest

(* The count of the request is read for what it is.                        *)
LEMMA parseCountAt ==
  ASSUME ExactInv, NEW k \in 1..Len(requests), AtRequest(k), parseCount
  PROVE  AtRequest(k)'
<1> DEFINE n == Len(requests[k])
<1>1. /\ pc = "count" /\ UNCHANGED <<requests, stream, recvd, reqtype, executed, ghost>>
      /\ UNCHANGED input
  BY DEF parseCount, input
<1>2. AtStart(k) \/ AtArgument(k)
  BY <1>1 DEF AtRequest, AtEnd
<1>3. CASE multibulklen # 0
  <2>1. pc' = "args" /\ UNCHANGED <<querybuf, qb_pos, multibulklen, bulklen, argv>>
    BY <1>3 DEF parseCount
  <2>2. Pos' = Pos
    BY <1>1, <2>1 DEF Pos, Start
  <2>3. AtArgument(k)
    BY <1>2, <1>3 DEF AtStart
  <2>4. AtArgument(k)'
    BY <1>1, <2>1, <2>2, <2>3 DEF AtArgument
  <2> QED
    BY <1>1, <2>1, <2>4 DEF AtRequest
<1>4. CASE multibulklen = 0
  <2>1. AtStart(k) /\ bulklen = -1 /\ argv = <<>>
    BY <1>2, <1>4 DEF AtArgument, AtStart, ExactInv, ParserInv, RequestState
  <2>2. /\ HeaderAt(stream, "*", n, Pos) /\ Pos \in Nat
        /\ ArgAt(requests, k, 1) = Pos + 4 /\ Pos + 4 <= ReqEnd(requests, k)
        /\ n \in Written /\ n \in 1..MaxMultibulk /\ ReqEnd(requests, k) \in Nat
    BY <2>1, StartOfRequest DEF ExactInv
  <2>3. /\ Newline = -1 \/ ~LineComplete => recvd < Pos + 4
        /\ Newline # -1 /\ LineComplete =>
             /\ Newline = qb_pos + 2 /\ IsNumber(LineNumber) /\ string2ll(LineNumber) = n
    BY <2>2, HeaderRead DEF ExactInv, ParserInv
  <2>4. CASE waitForLine
    <3>1. /\ UNCHANGED <<querybuf, qb_pos, parse>> /\ pc' = "trim"
          /\ Newline = -1 \/ ~LineComplete
      BY <1>1, <2>4 DEF waitForLine, ReturnFailed, parse
    <3>2. recvd < ReqEnd(requests, k)
      <4>1. recvd < Pos + 4
        BY <2>3, <3>1
      <4>2. recvd \in Nat
        BY Place DEF ExactInv, ParserInv
      <4> QED
        BY <2>2, <4>1, <4>2
    <3> QED
      BY <1>1, <1>2, <3>1, <3>2, waitAt
  <2>5. CASE ~waitForLine
    <3>1. /\ Newline # -1 /\ LineComplete
          /\ IF ~IsNumber(LineNumber) \/ string2ll(LineNumber) > MaxMultibulk
             THEN protocolError(addReplyErrorLength(<<"invalid", "count">>))
             ELSE
               /\ qb_pos' = Newline + 2
               /\ IF string2ll(LineNumber) <= 0
                    THEN pc' = "exec" /\ UNCHANGED <<multibulklen, argvCap>>
                    ELSE /\ pc' = "args" /\ multibulklen' = string2ll(LineNumber)
                         /\ newArgv(string2ll(LineNumber))
               /\ UNCHANGED <<querybuf, bulklen, argv, reply>>
      BY <1>4, <2>5 DEF parseCount
    <3>2. IsNumber(LineNumber) /\ string2ll(LineNumber) = n /\ Newline = qb_pos + 2
      BY <2>3, <3>1
    <3>3. n \in Nat /\ ~(n > MaxMultibulk) /\ ~(n <= 0)
      BY <2>2, SizesAssumption
    <3>4. /\ qb_pos' = Newline + 2 /\ pc' = "args" /\ multibulklen' = n
          /\ UNCHANGED <<querybuf, bulklen, argv>>
      <4> HIDE DEF n
      <4> QED
        BY <3>1, <3>2, <3>3
    <3>5. Pos' = Pos + 4
      <4>1. qb_pos' = qb_pos + 2 + 2 /\ Start' = Start
        BY <1>1, <3>2, <3>4 DEF Start
      <4>2. Pos' = Start' + qb_pos' /\ Pos = Start + qb_pos /\ Start \in Nat /\ qb_pos \in Nat
        BY Place DEF Pos, ExactInv, ParserInv
      <4> QED
        BY <4>1, <4>2
    <3>6. AtArgument(k)'
      <4>1. Len(argv') = 0 /\ argv' = <<>> /\ bulklen' = -1 /\ requests' = requests
        BY <1>1, <2>1, <3>4
      <4>2. Pos' = ArgAt(requests', k, Len(argv') + 1)
        BY <2>2, <3>5, <4>1
      <4> QED
        BY <3>3, <3>4, <4>1, <4>2 DEF AtArgument
    <3> QED
      BY <1>1, <2>1, <3>4, <3>6 DEF AtRequest
  <2> QED
    BY <2>4, <2>5
<1> QED
  BY <1>3, <1>4

(* A place in the buffer within reach.                                     *)
LEMMA parseBulkHeaderAt ==
  ASSUME ExactInv, NEW k \in 1..Len(requests), AtRequest(k), parseBulkHeader
  PROVE  AtRequest(k)'
<1> DEFINE a == Len(argv) + 1
           l == Len(requests[k][a])
           at == ArgAt(requests, k, a)
<1>1. /\ pc = "args" /\ multibulklen # 0 /\ bulklen = -1
      /\ UNCHANGED <<requests, stream, recvd, reqtype, executed, ghost>> /\ UNCHANGED input
  BY DEF parseBulkHeader, input
<1>2. AtArgument(k)
  BY <1>1 DEF AtRequest, AtEnd, AtStart
<1>3. /\ a \in 1..Len(requests[k]) /\ ArgLies(stream, requests, k, a) /\ at \in Nat
      /\ l \in Written /\ l \in 0..MaxBulkLen /\ l \in Nat /\ ReqEnd(requests, k) \in Nat
      /\ at + (l + 6) <= ReqEnd(requests, k)
  BY <1>2, ArgumentAwaited DEF ExactInv
<1>4. Pos = at
  <2>1. bulklen # l
    <3> HIDE DEF l
    <3> QED
      BY <1>1, <1>3
  <2> QED
    BY <1>2, <2>1 DEF AtArgument
<1>5. HeaderAt(stream, "$", l, Pos)
  BY <1>3, <1>4 DEF ArgLies
<1> HIDE DEF l, at
<1>6. /\ Newline = -1 \/ ~LineComplete => recvd < Pos + 4
      /\ Newline # -1 /\ LineComplete =>
           /\ Newline = qb_pos + 2 /\ querybuf[qb_pos + 1] = "$"
           /\ IsNumber(LineNumber) /\ string2ll(LineNumber) = l
  BY <1>3, <1>5, HeaderRead DEF ExactInv, ParserInv
<1>7. CASE waitForLine
  <2>1. /\ UNCHANGED <<querybuf, qb_pos, parse>> /\ pc' = "trim"
        /\ Newline = -1 \/ ~LineComplete
    BY <1>1, <1>7 DEF waitForLine, ReturnFailed, parse
  <2>2. recvd < ReqEnd(requests, k)
    <3>1. recvd < Pos + 4
      BY <1>6, <2>1
    <3>2. recvd \in Nat
      BY Place DEF ExactInv, ParserInv
    <3> QED
      BY <1>3, <1>4, <3>1, <3>2
  <2> QED
    BY <1>1, <1>2, <2>1, <2>2, waitAt
<1>8. CASE ~waitForLine
  <2>1. /\ Newline # -1 /\ LineComplete
        /\ IF querybuf[qb_pos + 1] # "$"
           THEN protocolError(addReplyErrorFormat(
                  <<"expected", "$">> \o CString(<<querybuf[qb_pos + 1]>>)))
           ELSE IF ~IsNumber(LineNumber) \/ string2ll(LineNumber) \notin 0..MaxBulkLen
           THEN protocolError(addReplyErrorLength(<<"invalid", "length">>))
           ELSE /\ startBulk(string2ll(LineNumber))
                /\ UNCHANGED <<multibulklen, argv, argvCap, reply, pc>>
    BY <1>8 DEF parseBulkHeader
  <2>2. /\ Newline = qb_pos + 2 /\ querybuf[qb_pos + 1] = "$"
        /\ IsNumber(LineNumber) /\ string2ll(LineNumber) = l
    BY <1>6, <2>1
  <2>3. startBulk(l) /\ UNCHANGED <<multibulklen, argv, argvCap, reply, pc>>
    BY <1>3, <2>1, <2>2
  <2> DEFINE pos == qb_pos + 4
             L == Len(querybuf)
  <2>4. /\ bulklen' = l
        /\ \/ querybuf' = SubSeq(querybuf, pos + 1, Len(querybuf)) /\ qb_pos' = 0
           \/ qb_pos' = pos /\ querybuf' = querybuf
    <3>1. Newline + 2 = pos
      <4>1. qb_pos \in Nat
        BY Place DEF ExactInv, ParserInv
      <4> QED
        BY <2>2, <4>1
    <3> HIDE DEF pos
    <3> QED
      BY <2>3, <3>1 DEF startBulk
  <2>5. pos \in 0..Len(querybuf)
    <3>1. Newline + 2 <= Len(querybuf)
      BY <2>1, LineRead DEF ExactInv, ParserInv
    <3>2. qb_pos \in Nat /\ Len(querybuf) \in Nat
      BY Place DEF ExactInv, ParserInv
    <3> QED
      BY <2>2, <3>1, <3>2
  <2>6. Pos' = Pos + 4
    <3>1. /\ Pos' = Start' + qb_pos' /\ Pos = Start + qb_pos /\ Start \in Nat /\ qb_pos \in Nat
      BY Place DEF Pos, ExactInv, ParserInv
    <3>2. CASE qb_pos' = pos /\ querybuf' = querybuf
      <4>1. Start' = Start
        BY <1>1, <3>2 DEF Start
      <4> QED
        BY <3>1, <3>2, <4>1
    <3>3. CASE querybuf' = SubSeq(querybuf, pos + 1, Len(querybuf)) /\ qb_pos' = 0
      <4>1. Start' = Start + pos
        <5> HIDE DEF pos
        <5> QED
          BY <1>1, <2>5, <3>3, BufferCut DEF ExactInv, ParserInv
      <4> QED
        BY <3>1, <3>3, <4>1
    <3> QED
      BY <2>4, <3>2, <3>3
  <2>7. AtArgument(k)'
    <3>1. /\ Len(argv') + 1 = a /\ requests' = requests /\ multibulklen' = multibulklen
          /\ argv' = argv /\ pc' = pc
      BY <1>1, <2>3
    <3>2. Pos' = at + 4 /\ bulklen' = l
      BY <1>4, <2>4, <2>6
    <3> QED
      BY <1>1, <1>2, <3>1, <3>2 DEF AtArgument, at, l
  <2> QED
    BY <1>1, <2>3, <2>7 DEF AtRequest
<1> QED
  BY <1>7, <1>8

LEMMA waitForBulkAt ==
  ASSUME ExactInv, NEW k \in 1..Len(requests), AtRequest(k), waitForBulk
  PROVE  AtRequest(k)'
<1> DEFINE a == Len(argv) + 1
           l == Len(requests[k][a])
           at == ArgAt(requests, k, a)
<1>1. /\ pc = "args" /\ multibulklen # 0 /\ bulklen # -1 /\ Unread < bulklen + 2 /\ pc' = "trim"
      /\ UNCHANGED <<input, recvd, querybuf, qb_pos, parse>>
  BY DEF waitForBulk, ReturnFailed
<1>2. AtArgument(k)
  BY <1>1 DEF AtRequest, AtEnd, AtStart
<1>3. at \in Nat /\ l \in Nat /\ ReqEnd(requests, k) \in Nat /\ at + (l + 6) <= ReqEnd(requests, k)
  BY <1>2, ArgumentAwaited DEF ExactInv
<1>4. bulklen = l /\ Pos = at + 4
  BY <1>1, <1>2 DEF AtArgument
<1>5. recvd < ReqEnd(requests, k)
  <2>1. /\ Len(querybuf) \in Nat /\ qb_pos \in Nat /\ Start \in Nat
        /\ recvd = Start + Len(querybuf) /\ Pos = Start + qb_pos
        /\ Unread = Len(querybuf) - qb_pos
    BY Place DEF ExactInv, ParserInv
  <2> HIDE DEF l, at
  <2> QED
    BY <1>1, <1>3, <1>4, <2>1
<1> QED
  BY <1>1, <1>2, <1>5, waitAt

(* Taking an argument, the parser goes past it.                            *)
LEMMA takeWindow ==
  ASSUME ParserInv, Window, takeBulk
  PROVE  Window' /\ Pos' = Pos + (bulklen + 2) /\ bulklen \in Nat /\ Pos \in Nat
<1> DEFINE L == Len(querybuf)
<1>1. /\ bulklen # -1 /\ Unread >= bulklen + 2 /\ UNCHANGED <<stream, recvd>>
      /\ \/ qb_pos = 0 /\ Len(querybuf) = bulklen + 2 /\ querybuf' = <<>> /\ qb_pos' = qb_pos
         \/ qb_pos' = qb_pos + bulklen + 2 /\ querybuf' = querybuf
  BY DEF takeBulk, input
<1>2. /\ L \in Nat /\ qb_pos \in Nat /\ Start \in Nat /\ recvd \in Nat /\ Pos \in Nat
      /\ recvd = Start + L /\ Pos = Start + qb_pos
  BY Place DEF ParserInv
<1>3. bulklen \in Nat
  <2>1. bulklen \in -1..MaxBulkLen /\ MaxBulkLen \in Nat
    BY SizesAssumption DEF ParserInv, Typed, RequestOK
  <2> QED
    BY <1>1, <2>1
<1>4. Start' = recvd' - Len(querybuf') /\ Pos' = Start' + qb_pos'
  BY DEF Start, Pos
<1>5. CASE qb_pos = 0 /\ L = bulklen + 2 /\ querybuf' = <<>> /\ qb_pos' = qb_pos
  <2>1. Len(querybuf') = 0
    BY <1>5
  <2>2. Start' \in Nat /\ Pos' = Pos + (bulklen + 2)
    <3> HIDE DEF L
    <3> QED
      BY <1>1, <1>2, <1>3, <1>4, <1>5, <2>1
  <2>3. Window'
    BY <2>1, <2>2 DEF Window
  <2> QED
    BY <1>2, <1>3, <2>2, <2>3
<1>6. CASE qb_pos' = qb_pos + bulklen + 2 /\ querybuf' = querybuf
  <2>1. Window' /\ Start' = Start
    BY <1>1, <1>6, SameBuffer
  <2> QED
    BY <1>2, <1>3, <1>4, <1>6, <2>1
<1> QED
  BY <1>1, <1>5, <1>6

(* The argument taken is the one sent.                                     *)
LEMMA takeBulkAt ==
  ASSUME ExactInv, NEW k \in 1..Len(requests), AtRequest(k), takeBulk
  PROVE  AtRequest(k)'
<1> DEFINE a == Len(argv) + 1
           arg == requests[k][a]
           l == Len(arg)
           at == ArgAt(requests, k, a)
           taken == SubSeq(querybuf, qb_pos + 1, qb_pos + bulklen)
<1>1. /\ pc = "args" /\ pc' = pc /\ multibulklen # 0 /\ bulklen # -1 /\ Unread >= bulklen + 2
      /\ argv' = Append(argv, taken) /\ bulklen' = -1 /\ multibulklen' = multibulklen - 1
      /\ UNCHANGED <<requests, stream, recvd, reqtype>>
  BY DEF takeBulk, input
<1>2. AtArgument(k)
  BY <1>1 DEF AtRequest, AtEnd, AtStart
<1>3. /\ a \in 1..Len(requests[k]) /\ ArgLies(stream, requests, k, a) /\ at \in Nat
      /\ l \in Nat /\ Len(argv) \in Nat /\ Len(requests[k]) \in Nat /\ multibulklen \in Nat
  BY <1>2, ArgumentAwaited DEF ExactInv
<1>4. bulklen = l /\ Pos = at + 4
  BY <1>1, <1>2 DEF AtArgument
<1>5. taken = arg
  <2>1. /\ Len(querybuf) \in Nat /\ qb_pos \in Nat /\ Start \in Nat
        /\ Pos = Start + qb_pos /\ Unread = Len(querybuf) - qb_pos
    BY Place DEF ExactInv, ParserInv
  <2>2. arg \in Seq(STRING)
    BY <1>3, ArgPlace DEF ExactInv, ParserInv, Typed
  <2>3. \A i \in 1..l : stream[at + (4 + i)] = arg[i]
    BY <1>3 DEF ArgLies
  <2> HIDE DEF arg, l, at
  <2>4. ASSUME NEW i \in 1..l
        PROVE  querybuf[qb_pos + i] = arg[i]
    <3>1. qb_pos + i \in 1..Len(querybuf) /\ Start + (qb_pos + i) = at + (4 + i)
      BY <1>1, <1>3, <1>4, <2>1
    <3>2. querybuf[qb_pos + i] = stream[at + (4 + i)]
      BY <3>1 DEF ExactInv, Window
    <3> QED
      BY <2>3, <3>2
  <2>5. Len(taken) = l /\ taken \in Seq(Byte) /\ \A i \in 1..l : taken[i] = querybuf[qb_pos + i]
    BY <1>1, <1>3, <1>4, <2>1 DEF ExactInv, ParserInv, Typed, BufferOK
  <2>6. arg \in Seq(Byte) /\ Len(arg) = l
    BY <2>2, ByteSeq DEF l
  <2> HIDE DEF taken
  <2>7. \A i \in 1..Len(taken) : taken[i] = arg[i]
    BY <2>4, <2>5
  <2> QED
    BY <2>5, <2>6, <2>7, SeqEqual
<1>6. /\ Len(argv') = a /\ argv'[a] = arg
      /\ \A i \in 1..Len(argv) : argv'[i] = requests[k][i]
  <2>1. argv \in Seq(Seq(Byte)) /\ taken \in Seq(Byte)
    <3>1. taken \in Seq(Byte)
      BY <1>5, <1>3, ArgPlace, ByteSeq DEF ExactInv, ParserInv, Typed
    <3> QED
      BY <3>1 DEF ExactInv, ParserInv, Typed, RequestOK
  <2>2. \A i \in 1..Len(argv) : argv[i] = requests[k][i]
    BY DEF AtRequest
  <2> HIDE DEF taken, arg
  <2> QED
    BY <1>1, <1>5, <2>1, <2>2
<1>7. \A i \in 1..Len(argv') : argv'[i] = requests[k][i]
  <2>1. \A i \in 1..a : i = a \/ i \in 1..Len(argv)
    BY <1>3
  <2> QED
    BY <1>6, <2>1
<1>8. Len(argv') + multibulklen' = Len(requests[k])
  <2>1. Len(argv) + multibulklen = Len(requests[k])
    BY <1>2 DEF AtArgument
  <2>2. /\ Len(argv') = Len(argv) + 1 /\ multibulklen' = multibulklen - 1
        /\ Len(argv) \in Nat /\ multibulklen \in Nat
    BY <1>1, <1>3, <1>6
  <2> HIDE DEF a, taken
  <2> QED
    BY <2>1, <2>2
<1>9. Pos' = ArgAt(requests, k, a + 1)
  <2>1. Pos' = Pos + (bulklen + 2)
    BY takeWindow DEF ExactInv
  <2>2. ArgAt(requests, k, a + 1) = at + (l + 6)
    BY <1>3 DEF ArgLies
  <2> HIDE DEF at, l
  <2> QED
    BY <1>3, <1>4, <2>1, <2>2
<1> HIDE DEF a
<1>10. CASE multibulklen' # 0
  <2>1. AtArgument(k)'
    BY <1>1, <1>6, <1>8, <1>9, <1>10 DEF AtArgument
  <2> QED
    BY <1>1, <1>7, <2>1 DEF AtRequest
<1>11. CASE multibulklen' = 0
  <2>1. Len(argv') = Len(requests[k])
    BY <1>3, <1>6, <1>8, <1>11 DEF a
  <2>2. Pos' = ReqEnd(requests, k)
    <3>1. ArgAt(requests, k, Len(requests[k]) + 1) = ReqEnd(requests, k)
      BY RequestPlace DEF ExactInv, ParserInv, Typed, RequestLies
    <3> QED
      BY <1>6, <1>9, <2>1, <3>1
  <2>3. AtEnd(k)'
    BY <1>1, <1>11, <2>1, <2>2 DEF AtEnd
  <2> QED
    BY <1>1, <1>7, <2>3 DEF AtRequest
<1> QED
  BY <1>10, <1>11

LEMMA argsCompleteAt ==
  ASSUME NEW k \in 1..Len(requests), AtRequest(k), argsComplete
  PROVE  AtRequest(k)'
<1>1. /\ multibulklen = 0 /\ pc = "args" /\ pc' = "exec"
      /\ UNCHANGED <<requests, recvd, querybuf, qb_pos, multibulklen, argv>>
  BY DEF argsComplete, input, parse
<1>2. AtEnd(k) /\ Pos' = Pos
  BY <1>1 DEF AtRequest, AtArgument, AtStart, Pos, Start
<1>3. AtEnd(k)'
  BY <1>1, <1>2 DEF AtEnd
<1> QED
  BY <1>1, <1>3 DEF AtRequest

(* At the end of a request argv holds it.                                  *)
LEMMA ReadyToExecute ==
  ASSUME ExactInv, NEW k \in 1..Len(requests), AtRequest(k), pc = "exec"
  PROVE  /\ argv = requests[k] /\ argv # <<>> /\ Pos = ReqEnd(requests, k) /\ Pos \in Nat
         /\ Pos <= recvd /\ recvd \in Nat
<1>1. AtEnd(k)
  BY DEF AtRequest, AtStart, AtArgument
<1>2. Len(requests[k]) \in 1..MaxMultibulk /\ WellFormedRequest(requests[k])
  BY RequestPlace, EachWellFormed DEF ExactInv, ParserInv, Typed, Sent
<1>3. requests[k] \in Seq(Seq(STRING)) /\ argv \in Seq(Seq(Byte))
  BY <1>2 DEF WellFormedRequest, ExactInv, ParserInv, Typed, RequestOK
<1>4. requests[k] \in Seq(Seq(Byte))
  <2>1. \A i \in 1..Len(requests[k]) : requests[k][i] \in Seq(Byte)
    BY <1>3, ByteSeq
  <2> DEFINE S == Seq(STRING)
             T == Seq(Byte)
             r == requests[k]
  <2>2. r \in Seq(S) /\ \A i \in 1..Len(r) : r[i] \in T
    BY <1>3, <2>1
  <2> HIDE DEF S, T, r
  <2>3. r \in Seq(T)
    BY <2>2
  <2> QED
    BY <2>3 DEF r, T
<1>5. argv = requests[k]
  BY <1>1, <1>3, <1>4, SeqEqual DEF AtEnd, AtRequest
<1>6. argv # <<>>
  BY <1>2, <1>5, SizesAssumption
<1>7. Pos \in Nat /\ Pos <= recvd /\ recvd \in Nat
  <2>1. /\ Len(querybuf) \in Nat /\ qb_pos \in Nat /\ qb_pos <= Len(querybuf)
        /\ Start \in Nat /\ recvd \in Nat /\ Pos \in Nat
        /\ recvd = Start + Len(querybuf) /\ Pos = Start + qb_pos
    BY Place DEF ExactInv, ParserInv
  <2> QED
    BY <2>1
<1> QED
  BY <1>1, <1>5, <1>6, <1>7 DEF AtEnd

(* The buffer stays a window on the stream.                                *)
LEMMA windowStep ==
  ASSUME ParserInv, Window, Next
  PROVE  Window' /\ recvd' \in Nat /\ recvd <= recvd'
<1>1. Typed /\ recvd \in Nat
  BY Place DEF ParserInv
<1>2. CASE readQuery
  BY <1>1, <1>2, BufferGrows
<1>3. CASE trimToPos
  <2>1. /\ qb_pos \in 0..Len(querybuf) /\ UNCHANGED <<stream, recvd>>
        /\ querybuf' = SubSeq(querybuf, qb_pos + 1, Len(querybuf))
    BY <1>1, <1>3 DEF Typed, BufferOK, trimToPos, input
  <2> QED
    BY <1>1, <2>1, BufferCut
<1>4. CASE takeBulk
  <2>1. recvd' = recvd
    BY <1>4 DEF takeBulk
  <2> QED
    BY <1>1, <1>4, <2>1, takeWindow
<1>5. CASE UNCHANGED <<stream, recvd, querybuf>>
  BY <1>1, <1>5, SameBuffer
<1>6. CASE BulkHeaderParsed
  <2>1. /\ Newline \in Nat /\ Newline + 2 <= Len(querybuf) /\ UNCHANGED <<stream, recvd>>
        /\ \E ll \in 0..MaxBulkLen : startBulk(ll)
    BY <1>1, <1>6, LineRead DEF BulkHeaderParsed, input
  <2> DEFINE p == Newline + 2
  <2>2. \/ querybuf' = SubSeq(querybuf, p + 1, Len(querybuf))
        \/ querybuf' = querybuf
    BY <2>1 DEF startBulk
  <2>3. p \in 0..Len(querybuf)
    <3> HIDE DEF Newline
    <3>1. Len(querybuf) \in Nat
      BY <1>1 DEF Typed, BufferOK
    <3> QED
      BY <2>1, <3>1
  <2> HIDE DEF p
  <2> QED
    BY <1>1, <1>5, <2>1, <2>2, <2>3, BufferCut
<1>7. CASE parseCount
  <2>1. UNCHANGED <<stream, recvd, querybuf>>
    BY <1>7, parseCountSteps DEF Returns, CountParsed, input
  <2> QED
    BY <1>5, <2>1
<1>8. CASE parseBulkHeader
  <2>1. BulkHeaderParsed \/ UNCHANGED <<stream, recvd, querybuf>>
    BY <1>8, parseBulkHeaderSteps DEF Returns, input
  <2> QED
    BY <1>5, <1>6, <2>1
<1>9. CASE readEnds \/ loopTest \/ waitForBulk \/ argsComplete \/ execCommand \/ execWithoutArguments
  <2>1. UNCHANGED <<stream, recvd, querybuf>>
    BY <1>9 DEF readEnds, loopTest, waitForBulk, argsComplete, execCommand, execWithoutArguments,
                input
  <2> QED
    BY <1>5, <2>1
<1> QED
  BY <1>2, <1>3, <1>4, <1>7, <1>8, <1>9 DEF Next, Parse

Executes == execCommand \/ execWithoutArguments

(* The parser goes on with the request it is at.                           *)
LEMMA atStep ==
  ASSUME ExactInv, NEW k \in 1..Len(requests), AtRequest(k), Next, ~Executes
  PROVE  pc' = "closed" \/ AtRequest(k)'
<1>1. CASE readEnds
  BY <1>1 DEF readEnds
<1> QED
  BY <1>1, readQueryAt, trimAt, loopTestAt, parseCountAt, parseBulkHeaderAt, waitForBulkAt,
     takeBulkAt, argsCompleteAt
  DEF Next, Parse, Executes

LEMMA StepKeeps ==
  ASSUME ParserInv, Next
  PROVE  /\ requests' = requests /\ pc # "closed"
         /\ ~Executes => executed' = executed
<1>1. CASE parseCount
  BY <1>1 DEF parseCount, input
<1>2. CASE parseBulkHeader
  BY <1>2 DEF parseBulkHeader, input
<1>3. CASE Executes
  BY <1>3 DEF Executes, execCommand, execWithoutArguments, input
<1>4. CASE readQuery \/ readEnds \/ loopTest \/ trimToPos \/ waitForBulk \/ takeBulk \/ argsComplete
  BY <1>4 DEF readQuery, readEnds, loopTest, trimToPos, waitForBulk, takeBulk, argsComplete, input
<1> QED
  BY <1>1, <1>2, <1>3, <1>4 DEF Next, Parse, Executes

LEMMA executeStep ==
  ASSUME ExactInv, Executes
  PROVE  Progress'
<1> DEFINE m == Len(executed)
           n == Len(requests)
<1>1. /\ pc = "exec" /\ UNCHANGED <<requests, recvd, querybuf, qb_pos>>
      /\ \/ execCommand /\ argv # <<>> /\ executed' = Append(executed, argv)
         \/ argv = <<>> /\ executed' = executed
  BY DEF Executes, execCommand, execWithoutArguments, input
<1>2. m \in Nat /\ n \in Nat /\ recvd \in Nat /\ executed \in Seq(Seq(Seq(Byte)))
      /\ argv \in Seq(Seq(Byte))
  <2>1. n \in Nat
    BY Ends DEF ExactInv, ParserInv, Typed
  <2> QED
    BY <2>1, Place DEF ExactInv, ParserInv, Typed, RequestOK
<1>3. /\ Len(executed') \in {m, m + 1}
      /\ \A i \in 1..m : executed'[i] = executed[i]
  <2>1. CASE executed' = Append(executed, argv)
    <3> DEFINE S == Seq(Seq(Byte))
    <3>1. executed \in Seq(S) /\ argv \in S
      BY <1>2
    <3> HIDE DEF S
    <3> QED
      BY <2>1, <3>1
  <2>2. CASE executed' = executed
    BY <2>2
  <2> QED
    BY <1>1, <2>1, <2>2
<1>4. /\ \A i \in 1..m : i <= n => executed[i] = requests[i]
      /\ m < n => AtRequest(m + 1)
      /\ m >= n => ReqEnd(requests, n) <= recvd
  BY <1>1 DEF ExactInv, Progress
<1>5. CASE m >= n
  <2>1. Len(executed') >= n /\ Len(requests') = n /\ Len(executed') \in Nat
    BY <1>1, <1>2, <1>3, <1>5
  <2>2. ASSUME NEW i \in 1..Len(executed'), i <= n
        PROVE  executed'[i] = requests'[i]
    <3>1. i \in 1..m
      <4> HIDE DEF m, n
      <4> QED
        BY <1>2, <1>5, <2>1, <2>2
    <3> QED
      BY <1>1, <1>3, <1>4, <2>2, <3>1
  <2>3. ReqEnd(requests', n) <= recvd'
    BY <1>1, <1>4, <1>5
  <2>4. ~(Len(executed') < n)
    <3> HIDE DEF n
    <3> QED
      BY <1>2, <2>1
  <2> QED
    BY <2>1, <2>2, <2>3, <2>4 DEF Progress
<1>6. CASE m < n
  <2>0. PICK k \in 1..n : k = m + 1
    <3>1. m + 1 \in 1..n
      <4> HIDE DEF m, n
      <4> QED
        BY <1>2, <1>6
    <3> QED
      BY <3>1
  <2>1. k \in Nat /\ k \in 1..Len(requests) /\ AtRequest(k)
    BY <1>2, <1>4, <1>6, <2>0
  <2>2. /\ argv = requests[k] /\ argv # <<>> /\ Pos = ReqEnd(requests, k)
        /\ Pos \in Nat /\ Pos <= recvd
    BY <1>1, <2>1, ReadyToExecute
  <2>3. executed' = Append(executed, argv) /\ resetClient /\ pc' = "loop"
    BY <1>1, <2>2 DEF execCommand, NextPhase
  <2>4. Len(executed') = k /\ executed'[k] = requests[k]
    <3> DEFINE S == Seq(Seq(Byte))
    <3>1. executed \in Seq(S) /\ argv \in S /\ Len(executed) + 1 = k
      BY <1>2, <2>0
    <3> HIDE DEF S, m, n
    <3> QED
      BY <2>2, <2>3, <3>1
  <2>5. ASSUME NEW i \in 1..k, i <= n
        PROVE  executed'[i] = requests'[i]
    <3>1. i = k \/ i \in 1..m
      <4> HIDE DEF m, n
      <4> QED
        BY <1>2, <2>0
    <3>2. CASE i = k
      BY <1>1, <2>4, <3>2
    <3>3. CASE i \in 1..m
      BY <1>1, <1>3, <1>4, <2>5, <3>3
    <3> QED
      BY <3>1, <3>2, <3>3
  <2>6. CASE k < n
    <3>1. AtStart(k + 1)'
      <4>1. Pos' = Pos /\ (k + 1) - 1 = k
        BY <1>1, <2>1 DEF Pos, Start
      <4>2. Pos' = ReqEnd(requests', (k + 1) - 1)
        BY <1>1, <2>2, <4>1
      <4> QED
        BY <2>3, <4>2 DEF AtStart, resetClient
    <3>2. Len(argv') = 0
      BY <2>3 DEF resetClient
    <3>3. AtRequest(k + 1)'
      <4>1. pc' = "loop"
        BY <2>3
      <4>2. (\A i \in 1..Len(argv) : argv[i] = requests[k + 1][i])'
        BY <3>2
      <4> QED
        BY <3>1, <4>1, <4>2 DEF AtRequest
    <3>4. ~(k >= n)
      <4> HIDE DEF n, m
      <4> QED
        BY <1>2, <2>1, <2>6
    <3> QED
      BY <1>1, <2>4, <2>5, <3>3, <3>4 DEF Progress
  <2>7. CASE ~(k < n)
    <3>1. k = n
      <4> HIDE DEF n
      <4> QED
        BY <1>2, <2>1, <2>7
    <3>2. ReqEnd(requests', n) <= recvd'
      BY <1>1, <2>2, <3>1
    <3> QED
      BY <1>1, <2>4, <2>5, <2>7, <3>2 DEF Progress
  <2> QED
    BY <2>6, <2>7
<1> QED
  <2> HIDE DEF m, n
  <2> QED
    BY <1>2, <1>5, <1>6

LEMMA progressStep == ExactInv /\ Next => Progress'
<1> SUFFICES ASSUME ExactInv, Next, ~Executes
             PROVE  Progress'
  BY executeStep
<1> DEFINE m == Len(executed)
           n == Len(requests)
<1>1. requests' = requests /\ executed' = executed /\ pc # "closed"
  BY StepKeeps DEF ExactInv
<1>2. m \in Nat /\ n \in Nat
  BY Ends DEF ExactInv, ParserInv, Typed, RequestOK
<1>3. m < n /\ pc' # "closed" => AtRequest(m + 1)'
  <2> SUFFICES ASSUME m < n, pc' # "closed"
               PROVE  AtRequest(m + 1)'
    OBVIOUS
  <2>1. PICK k \in 1..n : k = m + 1
    <3>1. m + 1 \in 1..n
      <4> HIDE DEF m, n
      <4> QED
        BY <1>2
    <3> QED
      BY <3>1
  <2>2. AtRequest(k)
    BY <1>1, <2>1 DEF ExactInv, Progress
  <2>3. AtRequest(k)'
    BY <2>1, <2>2, atStep
  <2> QED
    BY <1>1, <2>1, <2>3
<1>4. m >= n => ReqEnd(requests', n) <= recvd'
  <2> SUFFICES ASSUME m >= n
               PROVE  ReqEnd(requests, n) <= recvd'
    BY <1>1
  <2>1. ReqEnd(requests, n) <= recvd
    BY DEF ExactInv, Progress
  <2>2. recvd \in Nat /\ recvd' \in Nat /\ recvd <= recvd' /\ ReqEnd(requests, n) \in Nat
    <3>1. ReqEnd(requests, n) \in Nat
      <4>1. CASE n = 0
        BY <4>1, Ends DEF ExactInv, ParserInv, Typed
      <4>2. CASE n # 0
        <5>1. n \in 1..n
          BY <1>2, <4>2
        <5> QED
          BY <5>1, RequestPlace DEF ExactInv, ParserInv, Typed, RequestLies
      <4> QED
        BY <4>1, <4>2
    <3> QED
      BY <3>1, windowStep, Place DEF ExactInv, ParserInv
  <2> QED
    BY <2>1, <2>2
<1>5. \A i \in 1..m : i <= n => executed'[i] = requests'[i]
  BY <1>1 DEF ExactInv, Progress
<1> QED
  BY <1>1, <1>3, <1>4, <1>5 DEF Progress

LEMMA InitExact == Init => ExactInv
<1> SUFFICES ASSUME Init
             PROVE  ExactInv
  OBVIOUS
<1>1. ParserInv /\ Sent
  BY InitTyped DEF ParserInv, Typed
<1>2. /\ recvd = 0 /\ querybuf = <<>> /\ qb_pos = 0 /\ reqtype = "none" /\ multibulklen = 0
      /\ argv = <<>> /\ executed = <<>> /\ pc = "poll"
  BY DEF Init
<1>3. Len(<<>>) = 0
  OBVIOUS
<1>4. Start = 0 /\ Pos = 0
  <2> DEFINE L == Len(querybuf)
  <2>1. L = 0 /\ recvd = 0 /\ Start = recvd - L
    BY <1>2, <1>3 DEF Start
  <2> HIDE DEF L
  <2>2. Start = 0
    BY <2>1
  <2> QED
    BY <1>2, <2>2 DEF Pos
<1>5. Window
  BY <1>2, <1>3, <1>4 DEF Window
<1>6. Len(requests) \in Nat /\ ReqEnd(requests, 0) = 0
  BY <1>1, Ends
<1>7. ASSUME 0 < Len(requests)
      PROVE  AtRequest(1)
  <2>1. 1 \in 1..Len(requests) /\ 1 - 1 = 0
    BY <1>6, <1>7
  <2>2. ReqEnd(requests, 1) \in Nat /\ ReqEnd(requests, 1 - 1) + 4 <= ReqEnd(requests, 1)
    BY <1>1, <2>1, RequestPlace DEF RequestLies
  <2>3. AtStart(1)
    BY <1>2, <1>4, <1>6, <2>1 DEF AtStart
  <2>4. recvd < ReqEnd(requests, 1)
    BY <1>2, <1>6, <2>1, <2>2
  <2> QED
    BY <1>2, <1>3, <2>3, <2>4 DEF AtRequest
<1>8. Progress
  <2>1. Len(executed) = 0
    BY <1>2, <1>3
  <2>2. Len(executed) >= Len(requests) => Len(requests) = 0
    BY <1>6, <2>1
  <2>3. ReqEnd(requests, 0) <= recvd
    BY <1>2, <1>6
  <2>4. 0 + 1 = 1
    OBVIOUS
  <2> QED
    BY <1>7, <2>1, <2>2, <2>3, <2>4 DEF Progress
<1> QED
  BY <1>1, <1>5, <1>8 DEF ExactInv

LEMMA ExactStep == ExactInv /\ [Next]_vars => ExactInv'
<1> SUFFICES ASSUME ExactInv, [Next]_vars
             PROVE  ExactInv'
  OBVIOUS
<1>1. ParserInv'
  BY ParserStep DEF ExactInv
<1>2. CASE Next
  BY <1>1, <1>2, windowStep, progressStep DEF ExactInv
<1>3. CASE UNCHANGED vars
  <2>1. /\ UNCHANGED <<requests, stream, recvd, querybuf, qb_pos, executed, pc>>
        /\ UNCHANGED <<reqtype, multibulklen, bulklen, argv>>
    BY <1>3 DEF vars, parse, input
  <2>2. Window' /\ Pos' = Pos
    BY <2>1, SameBuffer DEF ExactInv, Pos, Start
  <2>3. Progress'
    BY <2>1, <2>2 DEF ExactInv, Progress, AtRequest, AtStart, AtArgument, AtEnd
  <2> QED
    BY <1>1, <2>2, <2>3 DEF ExactInv
<1> QED
  BY <1>2, <1>3

(* The parser is at a place of the request it should be at.                *)
THEOREM InvariantExact == Spec => []ExactInv
  BY InitExact, ExactStep, PTL DEF Spec

(* Waiting, the parser has read every request that has arrived whole.      *)
LEMMA Arrived ==
  ASSUME ExactInv, pc = "poll", Len(executed) <= Len(requests)
  PROVE  CompleteRequests(recvd) = Len(executed)
<1> DEFINE m == Len(executed)
           n == Len(requests)
           whole == {k \in 0..n : Len(EncodeAll(SubSeq(requests, 1, k))) <= recvd}
<1>1. Sent /\ m \in Nat /\ n \in Nat /\ recvd \in Nat /\ m <= n
  BY Ends, Place DEF ExactInv, ParserInv, Typed, RequestOK
<1>2. /\ \A j \in 0..n : \A k \in j..n : ReqEnd(requests, j) <= ReqEnd(requests, k)
      /\ \A k \in 0..n : Len(EncodeAll(SubSeq(requests, 1, k))) = ReqEnd(requests, k)
  BY <1>1, Ends
<1>3. \A k \in 0..n : ReqEnd(requests, k) \in Nat
  <2> SUFFICES ASSUME NEW k \in 0..n
               PROVE  ReqEnd(requests, k) \in Nat
    OBVIOUS
  <2>1. CASE k = 0
    BY <1>1, <2>1, Ends
  <2>2. CASE k # 0
    <3>1. k \in 1..n
      BY <1>1, <2>2
    <3> QED
      BY <1>1, <3>1, RequestPlace DEF RequestLies
  <2> QED
    BY <2>1, <2>2
<1>4. ReqEnd(requests, m) <= recvd
  <2>1. CASE m = n
    <3>1. m >= n
      BY <1>1, <2>1
    <3> QED
      BY <2>1, <3>1 DEF ExactInv, Progress
  <2>2. CASE m < n
    <3>1. PICK k \in 1..n : k = m + 1
      <4>1. m + 1 \in 1..n
        <5> HIDE DEF m, n
        <5> QED
          BY <1>1, <2>2
      <4> QED
        BY <4>1
    <3>2. AtRequest(k) /\ k - 1 = m
      BY <1>1, <2>2, <3>1 DEF ExactInv, Progress
    <3>3. Pos <= recvd /\ Pos \in Nat
      <4>1. /\ Len(querybuf) \in Nat /\ qb_pos \in Nat /\ qb_pos <= Len(querybuf)
            /\ Start \in Nat /\ recvd = Start + Len(querybuf) /\ Pos = Start + qb_pos
        BY Place DEF ExactInv, ParserInv
      <4> QED
        BY <4>1
    <3>4. CASE AtStart(k)
      BY <3>2, <3>3, <3>4 DEF AtStart
    <3>5. CASE AtArgument(k)
      <4> DEFINE a == Len(argv) + 1
      <4>1. a \in 1..Len(requests[k]) /\ ArgAt(requests, k, a) \in Nat
        BY <3>5, ArgumentAwaited DEF ExactInv
      <4>2. WellFormedRequest(requests[k])
        BY <1>1, EachWellFormed DEF Sent
      <4>3. ReqEnd(requests, m) <= ArgAt(requests, k, a)
        <5>1. ArgAt(requests, k, a) = ReqEnd(requests, m) + (4 + ArgEnd(requests[k], a - 1))
          BY <3>2 DEF ArgAt
        <5>2. ArgEnd(requests[k], a - 1) \in Nat
          <6> HIDE DEF a
          <6> QED
            BY <4>1, <4>2, RequestLayout
        <5>3. ReqEnd(requests, m) \in Nat
          BY <1>1, <1>3
        <5> HIDE DEF a, m
        <5> QED
          BY <5>1, <5>2, <5>3
      <4>4. Pos = ArgAt(requests, k, a) \/ Pos = ArgAt(requests, k, a) + 4
        BY <3>5 DEF AtArgument
      <4>5. ReqEnd(requests, m) \in Nat
        BY <1>1, <1>3
      <4> HIDE DEF a, m
      <4> QED
        BY <1>1, <3>3, <4>1, <4>3, <4>4, <4>5
    <3> QED
      BY <3>2, <3>4, <3>5 DEF AtRequest, AtEnd
  <2> HIDE DEF m, n
  <2> QED
    BY <1>1, <2>1, <2>2
<1>5. ASSUME NEW k \in 0..n, m < k
      PROVE  recvd < ReqEnd(requests, k)
  <2>1. m < n
    <3> HIDE DEF m, n
    <3> QED
      BY <1>1, <1>5
  <2>2. recvd < ReqEnd(requests, m + 1)
    BY <2>1 DEF ExactInv, Progress, AtRequest
  <2>3. ReqEnd(requests, m + 1) <= ReqEnd(requests, k)
    <3>1. m + 1 \in 0..n /\ k \in (m + 1)..n
      <4> HIDE DEF m, n
      <4> QED
        BY <1>1, <1>5
    <3> QED
      BY <1>2, <3>1
  <2>4. ReqEnd(requests, m + 1) \in Nat /\ ReqEnd(requests, k) \in Nat
    <3>1. m + 1 \in 0..n
      <4> HIDE DEF m, n
      <4> QED
        BY <1>1, <1>5
    <3> QED
      BY <1>3, <3>1
  <2> HIDE DEF m
  <2> QED
    BY <1>1, <2>2, <2>3, <2>4
<1>6. m \in whole
  <2>1. m \in 0..n
    <3> HIDE DEF m, n
    <3> QED
      BY <1>1
  <2> QED
    BY <1>2, <1>4, <2>1
<1>7. ASSUME NEW k \in whole
      PROVE  k \in Nat /\ k <= m
  <2>1. k \in 0..n /\ ReqEnd(requests, k) <= recvd /\ ReqEnd(requests, k) \in Nat
    BY <1>2, <1>3
  <2>2. ~(m < k)
    BY <1>1, <1>5, <2>1
  <2> HIDE DEF m, n
  <2> QED
    BY <1>1, <2>1, <2>2
<1>8. Max(whole) = m
  <2> HIDE DEF whole, m
  <2>1. \A y \in whole : m >= y
    BY <1>1, <1>7
  <2>2. PICK x \in whole : x = Max(whole) /\ \A y \in whole : x >= y
    BY <1>6, <2>1 DEF Max
  <2> QED
    BY <1>1, <1>6, <1>7, <2>2
<1> QED
  BY <1>8 DEF CompleteRequests

LEMMA ArrivedExact == ExactInv /\ Len(executed) <= Len(requests) => CommandsExact
<1> SUFFICES ASSUME ExactInv, Len(executed) <= Len(requests), pc = "poll"
             PROVE  executed = SubSeq(requests, 1, Len(executed))
  BY Arrived DEF CommandsExact
<1> DEFINE S == Seq(Seq(Byte))
           m == Len(executed)
<1>1. executed \in Seq(S) /\ m \in Nat /\ Len(requests) \in Nat
  BY Ends DEF ExactInv, ParserInv, Typed, RequestOK
<1>2. \A i \in 1..m : executed[i] = requests[i]
  BY <1>1 DEF ExactInv, Progress
<1>3. requests \in Seq(Seq(Seq(STRING)))
  BY DEF ExactInv, ParserInv, Typed, Sent, WellFormed
<1> DEFINE r == SubSeq(requests, 1, m)
<1>4. Len(r) = m /\ r \in Seq(Seq(Seq(STRING))) /\ \A i \in 1..m : r[i] = requests[i]
  <2> DEFINE U == Seq(Seq(STRING))
  <2>1. requests \in Seq(U)
    BY <1>3
  <2> HIDE DEF U, m
  <2>2. Len(r) = m /\ r \in Seq(U) /\ \A i \in 1..m : r[i] = requests[i]
    BY <1>1, <2>1 DEF m
  <2> QED
    BY <2>2 DEF U
<1>5. r \in Seq(S)
  <2> DEFINE U == Seq(Seq(STRING))
  <2>1. \A i \in 1..Len(r) : r[i] \in S
    <3>1. \A i \in 1..m : executed[i] \in S
      <4> HIDE DEF S
      <4> QED
        BY <1>1
    <3> HIDE DEF S, r
    <3> QED
      BY <1>2, <1>4, <3>1
  <2>2. r \in Seq(U)
    BY <1>4
  <2> HIDE DEF U, S, r
  <2> QED
    BY <2>1, <2>2
<1> HIDE DEF S, r
<1> QED
  BY <1>1, <1>2, <1>4, <1>5, SeqEqual DEF r

(* Whatever comes after them, the requests sent are executed first, each   *)
(* when it has arrived whole, with the arguments sent.                     *)
THEOREM RequestsFirst == Spec => [](Len(executed) <= Len(requests) => CommandsExact)
  BY InvariantExact, ArrivedExact, PTL

-----------------------------------------------------------------------------
(* A client that sends nothing but the requests: after the last of them    *)
(* there is nothing to read.                                               *)
Exhausted ==
  /\ stream = EncodeAll(requests) /\ Len(executed) <= Len(requests)
  /\ Len(executed) = Len(requests) =>
       Pos = recvd /\ pc \in {"loop", "trim", "poll", "closed"}

LEMMA LastEnd ==
  ASSUME Sent, stream = EncodeAll(requests)
  PROVE  ReqEnd(requests, Len(requests)) = Len(stream)
<1>1. PICK tail \in Seq(STRING) : stream = EncodeAll(requests) \o tail
  BY DEF Sent
<1> QED
  BY <1>1, AllLayout DEF Sent

LEMMA exhaustedStep == ExactInv /\ Exhausted /\ Next => Exhausted'
<1> SUFFICES ASSUME ExactInv, Exhausted, Next
             PROVE  Exhausted'
  OBVIOUS
<1> DEFINE m == Len(executed)
           n == Len(requests)
<1>1. /\ Sent /\ m \in Nat /\ n \in Nat /\ m <= n /\ recvd \in Nat /\ Len(stream) \in Nat
      /\ recvd <= Len(stream) /\ Pos \in Nat /\ Pos <= recvd
  <2>1. /\ Len(querybuf) \in Nat /\ qb_pos \in Nat /\ qb_pos <= Len(querybuf)
        /\ Start \in Nat /\ recvd = Start + Len(querybuf) /\ Pos = Start + qb_pos
    BY Place DEF ExactInv, ParserInv
  <2>2. Pos \in Nat /\ Pos <= recvd /\ recvd \in Nat
    BY <2>1
  <2>3. Sent /\ m \in Nat /\ n \in Nat
    BY Ends DEF ExactInv, ParserInv, Typed, RequestOK
  <2>4. Len(stream) \in Nat /\ recvd <= Len(stream)
    BY DEF ExactInv, ParserInv, Typed, BufferOK
  <2> QED
    BY <2>2, <2>3, <2>4 DEF Exhausted
<1>2. ReqEnd(requests, n) = Len(stream)
  BY <1>1, LastEnd DEF Exhausted
<1>3. requests' = requests /\ stream' = stream
  <2>1. UNCHANGED input
    <3>1. CASE parseCount
      BY <3>1 DEF parseCount
    <3>2. CASE parseBulkHeader
      BY <3>2 DEF parseBulkHeader
    <3>3. CASE ~parseCount /\ ~parseBulkHeader
      BY <3>3 DEF Next, Parse, readQuery, readEnds, loopTest, trimToPos, waitForBulk, takeBulk,
                  argsComplete, execCommand, execWithoutArguments
    <3> QED
      BY <3>1, <3>2, <3>3
  <2> QED
    BY <2>1 DEF input
<1>4. CASE m = n
  <2>1. Pos = recvd /\ pc \in {"loop", "trim", "poll", "closed"} /\ recvd = Len(stream)
    <3>1. ReqEnd(requests, n) <= recvd
      <4>1. m >= n
        BY <1>1, <1>4
      <4> QED
        BY <4>1 DEF ExactInv, Progress
    <3> HIDE DEF m, n
    <3>2. recvd = Len(stream)
      BY <1>1, <1>2, <3>1
    <3> QED
      BY <1>4, <3>2 DEF Exhausted, m, n
  <2>2. readEnds \/ loopTest \/ trimToPos
    <3>1. ~readQuery
      BY <1>1, <2>1 DEF readQuery
    <3> QED
      BY <2>1, <3>1 DEF Next, Parse, parseCount, parseBulkHeader, waitForBulk, takeBulk,
                        argsComplete, execCommand, execWithoutArguments
  <2>3. executed' = executed /\ recvd' = recvd
    BY <2>2 DEF readEnds, loopTest, trimToPos
  <2>4. CASE readEnds
    <3>1. Pos' = Pos /\ pc' = "closed"
      BY <2>4 DEF readEnds, Pos, Start
    <3> QED
      BY <1>3, <2>1, <2>3, <3>1 DEF Exhausted
  <2>5. CASE loopTest
    <3>1. qb_pos >= Len(querybuf)
      <4>1. /\ Len(querybuf) \in Nat /\ qb_pos \in Nat /\ Start \in Nat
            /\ recvd = Start + Len(querybuf) /\ Pos = Start + qb_pos
        BY Place DEF ExactInv, ParserInv
      <4> QED
        BY <2>1, <4>1
    <3>2. Pos' = Pos /\ pc' = "trim"
      BY <2>5, <3>1 DEF loopTest, Pos, Start
    <3> QED
      BY <1>3, <2>1, <2>3, <3>2 DEF Exhausted
  <2>6. CASE trimToPos
    <3>1. Pos' = Pos
      BY <2>6, trimPos DEF ExactInv, ParserInv
    <3>2. pc' = "poll"
      BY <2>6 DEF trimToPos
    <3> QED
      BY <1>3, <2>1, <2>3, <3>1, <3>2 DEF Exhausted
  <2> QED
    BY <2>2, <2>4, <2>5, <2>6
<1>5. CASE m < n /\ ~Executes
  <2>1. executed' = executed
    BY <1>5, StepKeeps DEF ExactInv
  <2>2. Len(executed') < Len(requests')
    BY <1>3, <1>5, <2>1
  <2>3. Len(executed') <= Len(requests') /\ Len(executed') # Len(requests')
    <3> HIDE DEF m, n
    <3>1. Len(executed') = m /\ Len(requests') = n
      BY <1>3, <2>1 DEF m, n
    <3> QED
      BY <1>1, <1>5, <3>1
  <2> QED
    BY <1>3, <2>3 DEF Exhausted
<1>6. CASE m < n /\ Executes
  <2>1. PICK k \in 1..n : k = m + 1
    <3>1. m + 1 \in 1..n
      <4> HIDE DEF m, n
      <4> QED
        BY <1>1, <1>6
    <3> QED
      BY <3>1
  <2>2. pc = "exec" /\ UNCHANGED <<recvd, querybuf, qb_pos>>
    BY <1>6 DEF Executes, execCommand, execWithoutArguments
  <2>3. AtRequest(k)
    BY <1>6, <2>1, <2>2 DEF ExactInv, Progress
  <2>4. argv # <<>> /\ Pos = ReqEnd(requests, k)
    BY <2>2, <2>3, ReadyToExecute
  <2>5. executed' = Append(executed, argv) /\ pc' = "loop"
    BY <1>6, <2>4 DEF Executes, execCommand, execWithoutArguments, NextPhase
  <2>6. Len(executed') = k
    <3>1. Len(executed') = m + 1
      BY <2>5 DEF ExactInv, ParserInv, Typed, RequestOK
    <3> QED
      BY <2>1, <3>1
  <2>7. Pos' = Pos
    BY <2>2 DEF Pos, Start
  <2>8. k = n => Pos = recvd
    BY <1>1, <1>2, <2>4
  <2> HIDE DEF m, n
  <2>9. k <= n
    BY <1>1, <2>1
  <2> QED
    BY <1>3, <2>2, <2>5, <2>6, <2>7, <2>8, <2>9 DEF Exhausted, n
<1> QED
  <2> HIDE DEF m, n
  <2> QED
    BY <1>1, <1>4, <1>5, <1>6

LEMMA InitExhausted == Init /\ stream = EncodeAll(requests) => Exhausted
<1> SUFFICES ASSUME Init, stream = EncodeAll(requests)
             PROVE  Exhausted
  OBVIOUS
<1>1. ExactInv /\ Len(requests) \in Nat
  BY InitExact, Ends DEF ExactInv, ParserInv, Typed
<1> DEFINE L == Len(querybuf)
<1>2. recvd = 0 /\ L = 0 /\ qb_pos = 0 /\ Len(executed) = 0 /\ pc = "poll"
  BY DEF Init
<1>3. Start = recvd - L /\ Pos = Start + qb_pos
  BY DEF Start, Pos
<1> HIDE DEF L
<1>4. Pos = recvd
  BY <1>2, <1>3
<1> QED
  BY <1>1, <1>2, <1>4 DEF Exhausted

LEMMA ExhaustedKept ==
  Spec /\ stream = EncodeAll(requests) => [](ExactInv /\ Exhausted)
<1>1. ExactInv /\ Exhausted /\ [Next]_vars => Exhausted'
  <2>1. CASE UNCHANGED vars
    BY <2>1 DEF vars, input, Exhausted, Pos, Start
  <2> QED
    BY <2>1, exhaustedStep
<1> QED
  BY <1>1, InitExhausted, InvariantExact, PTL DEF Spec

(* A client that sends nothing but requests has each of them executed as   *)
(* soon as it has arrived whole, and nothing else.                         *)
THEOREM CommandsAreRequests ==
  Spec /\ stream = EncodeAll(requests) => []CommandsExact
<1>1. ExactInv /\ Exhausted => CommandsExact
  BY ArrivedExact DEF Exhausted
<1> QED
  BY <1>1, ExhaustedKept, PTL

(* The parser implements the safety part of the stream of commands.        *)
THEOREM ImplementsCommands ==
  Spec /\ stream = EncodeAll(requests) =>
    Commands!Init /\ [][Commands!Next]_(Commands!vars)
<1> DEFINE opened == pc \notin {"closed", "crashed"}
<1>1. Init => Commands!Init
  BY DEF Init, Commands!Init
<1>2. ExactInv /\ Exhausted /\ [Next]_vars => [Commands!Next]_(Commands!vars)
  <2> SUFFICES ASSUME ExactInv, Exhausted, [Next]_vars
               PROVE  Commands!Next \/ UNCHANGED Commands!vars
    OBVIOUS
  <2>1. CASE UNCHANGED vars
    BY <2>1 DEF vars, input, Commands!vars
  <2>2. CASE Next /\ ~Executes
    <3>1. requests' = requests /\ executed' = executed
      BY <2>2, StepKeeps DEF ExactInv
    <3>2. opened
      <4>1. pc \notin {"closed", "crashed"}
        BY <2>2 DEF Next, Parse, readQuery, readEnds, loopTest, trimToPos, parseCount,
                    parseBulkHeader, waitForBulk, takeBulk, argsComplete, Executes
      <4> QED
        BY <4>1
    <3>3. CASE opened'
      BY <3>1, <3>2, <3>3 DEF Commands!vars
    <3>4. CASE ~opened'
      <4>1. (pc \notin {"closed", "crashed"}) = TRUE /\ (pc' \notin {"closed", "crashed"}) = FALSE
        BY <3>2, <3>4
      <4> QED
        BY <3>1, <4>1 DEF Commands!Next, Commands!Hangup
    <3> QED
      BY <3>3, <3>4
  <2>3. CASE Executes
    <3>1. pc = "exec" /\ requests' = requests
      BY <2>3 DEF Executes, execCommand, execWithoutArguments, input
    <3>2. Len(executed) \in Nat /\ Len(requests) \in Nat
      BY Ends DEF ExactInv, ParserInv, Typed, RequestOK
    <3>3. Len(executed) < Len(requests)
      BY <3>1, <3>2 DEF Exhausted
    <3>4. PICK k \in 1..Len(requests) : k = Len(executed) + 1
      <4>1. Len(executed) + 1 \in 1..Len(requests)
        BY <3>2, <3>3
      <4> QED
        BY <4>1
    <3>5. AtRequest(k)
      BY <3>1, <3>3, <3>4 DEF ExactInv, Progress
    <3>6. argv = requests[k] /\ argv # <<>>
      BY <3>1, <3>5, ReadyToExecute
    <3>7. executed' = Append(executed, requests[Len(executed) + 1]) /\ pc' = "loop"
      BY <2>3, <3>4, <3>6 DEF Executes, execCommand, execWithoutArguments, NextPhase
    <3>8. (pc \notin {"closed", "crashed"}) = TRUE /\ (pc' \notin {"closed", "crashed"}) = TRUE
      BY <3>1, <3>7
    <3> QED
      BY <3>1, <3>3, <3>7, <3>8 DEF Commands!Next, Commands!Execute
  <2> QED
    BY <2>1, <2>2, <2>3
<1> QED
  BY <1>1, <1>2, ExhaustedKept, PTL DEF Spec
=============================================================================
