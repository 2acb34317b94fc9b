------------------------------- MODULE Numbers -------------------------------
(***************************************************************************)
(* Numbers and their texts: digits10(), ll2string() and string2ll() of     *)
(* util.c, sdsll2str() of sds.c.  The radix is a parameter, so that all    *)
(* the digit counts a 64 bit number has occur with small numbers.          *)
(***************************************************************************)
EXTENDS Integers, Sequences, SequencesExt

CONSTANTS
  Radix,        \* 10
  LLONG_MAX     \* 2^63 - 1

ASSUME NumbersAssumption == Radix \in 2..10 /\ LLONG_MAX \in Nat /\ LLONG_MAX % 2 = 1

LLONG_MIN == -LLONG_MAX - 1
ULLONG_MAX == 2 * LLONG_MAX + 1
Minus == 45
Digit(d) == 48 + d
IsDigit(c) == c \in 48..(47 + Radix)

-----------------------------------------------------------------------------
(* Counting digits.  The steps of the search are those of the code.        *)

digits10[v \in Nat] ==
  LET R(k) == Radix ^ k
      Two(n, k) == IF v >= R(k) THEN n + 1 ELSE n
  IN IF v < R(1) THEN 1 ELSE IF v < R(2) THEN 2 ELSE IF v < R(3) THEN 3
     ELSE IF v >= R(12) THEN 12 + digits10[v \div R(12)]
     ELSE IF v < R(4) THEN 4 ELSE IF v < R(6) THEN Two(5, 5)
     ELSE IF v < R(8) THEN Two(7, 7)
     ELSE IF v < R(10) THEN Two(9, 9) ELSE Two(11, 11)

\* The absolute value as an unsigned number: -v may not be a signed one.
Magnitude(v) ==
  IF v >= 0 THEN v ELSE IF v # LLONG_MIN THEN -v ELSE LLONG_MAX + 1

sdigits10(v) == digits10[Magnitude(v)] + (IF v < 0 THEN 1 ELSE 0)

-----------------------------------------------------------------------------
(* From a number to its text.                                              *)

\* Two digits at a time, from the end of a text as long as digits10() says;
\* 0 is what the text holds where no digit was put.
PairsFrom[v \in Nat] ==
  LET pair(w) == <<Digit(w \div Radix), Digit(w % Radix)>>
  IN IF v >= Radix * Radix
     THEN PairsFrom[v \div (Radix * Radix)] \o pair(v % (Radix * Radix))
     ELSE IF v < Radix THEN <<Digit(v)>> ELSE pair(v)

ll2string(dstlen, v) ==
  LET length == sdigits10(v)
      digits == PairsFrom[Magnitude(v)]
      gap == length - Len(digits)
  IN IF length >= dstlen THEN <<>>
     ELSE [i \in 1..length |-> IF i > gap THEN digits[i - gap]
                               ELSE IF v < 0 /\ i = 1 THEN Minus ELSE 0]

\* One digit at a time, the last one first; then the text is turned round.
Reversed[v \in Nat] ==
  <<Digit(v % Radix)>> \o (IF v < Radix THEN <<>> ELSE Reversed[v \div Radix])

sdsull2str(v) == Reverse(Reversed[v])
\* -value, an overflow for LLONG_MIN, wraps round in two's complement.
sdsll2str(v) ==
  Reverse(IF v < 0 THEN Reversed[(-v) % (ULLONG_MAX + 1)] \o <<Minus>> ELSE Reversed[v])

-----------------------------------------------------------------------------
(* From a text to the number: a sequence of one number, or none.           *)

OverflowsTimesRadix(v, d) == v > ULLONG_MAX \div Radix       \* mutant
\* No unsigned number is v with the digit d behind it.
Overflows(v, d) == v > ULLONG_MAX \div Radix \/ v * Radix > ULLONG_MAX - d

\* One more digit; a number beyond the unsigned ones is none.
AddDigit(acc, c) ==
  IF acc = <<>> \/ ~IsDigit(c) \/ Overflows(acc[1], c - 48) THEN <<>>
  ELSE <<(acc[1] * Radix + c - 48) % (ULLONG_MAX + 1)>>

Signed(v, negative) ==
  IF v = <<>> \/ v[1] > (IF negative THEN LLONG_MAX + 1 ELSE LLONG_MAX) THEN <<>>
  ELSE IF negative THEN <<-v[1]>> ELSE v

string2ll(t) ==
  LET negative == t # <<>> /\ t[1] = Minus
      p == IF negative THEN Tail(t) ELSE t
  IN IF t = <<Digit(0)>> THEN <<0>>
     ELSE IF p = <<>> \/ ~IsDigit(p[1]) \/ p[1] = Digit(0) THEN <<>>
     ELSE Signed(FoldLeft(AddDigit, <<p[1] - 48>>, Tail(p)), negative)

-----------------------------------------------------------------------------
(* The texts of numbers as one writes them: no zero in front, no other byte *)
(* before, between or after the digits.                                    *)

ValueOf(t) == FoldLeft(LAMBDA acc, c : acc * Radix + (c - 48), 0, t)

\* The number a text is the decimal text of, if it is one of 64 bits.
NumberOf(t) ==
  LET p == IF t # <<>> /\ t[1] = Minus THEN Tail(t) ELSE t
      v == IF p = t THEN ValueOf(p) ELSE -ValueOf(p)
  IN IF /\ p # <<>> /\ \A i \in 1..Len(p) : IsDigit(p[i])
        /\ p[1] = Digit(0) => t = <<Digit(0)>>
        /\ v \in LLONG_MIN..LLONG_MAX
     THEN <<v>> ELSE <<>>
=============================================================================
