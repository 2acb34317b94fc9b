------------------------------- MODULE SdsText -------------------------------
(***************************************************************************)
(* sds.c: the calls that make strings of other things and take strings     *)
(* apart: formats, quoted representations, arguments of a line, tokens     *)
(* between separators.  Bytes are their ASCII codes.                       *)
(***************************************************************************)
EXTENDS Sds, Numbers

CONSTANTS
  StaticBuf,    \* the buffer of sdscatvprintf(), 1024
  Slots         \* the tokens sdssplitlen() first has room for, 5

ASSUME SdsTextAssumption == StaticBuf \in Nat \ {0, 1} /\ Slots \in Nat \ {0}

CString(t) == UpTo(0, t)

sdsempty == sdsnewlen(<<>>)
sdsfromlonglong(v) == sdsnewlen(sdsll2str(v))

-----------------------------------------------------------------------------
(* Formats.                                                                *)

\* vsnprintf() puts as much of the text in a buffer as it has room for; a buffer
\* that is full is given up for one of twice its size.
Printed(t, fmtlen) ==
  LET fit[n \in Nat] == IF Len(t) >= n - 1 /\ t[n - 1] # 0 THEN fit[2 * n]
                        ELSE SubSeq(t, 1, Min({Len(t), n - 1}))
  IN fit[Max({2 * fmtlen, StaticBuf})]

sdscatvprintf(x, fmtlen, t) == sdscatlen(x, CString(Printed(t, fmtlen)))

\* What sdscatfmt() copies for one byte of its format or one conversion.
CatPiece(x, piece) ==
  LET y == IF sdsavail(x) = 0 THEN sdsMakeRoomFor(x, 1) ELSE x
      z == IF sdsavail(y) < Len(piece) THEN sdsMakeRoomFor(y, Len(piece)) ELSE y
  IN sdsinclen(Write(z, z.len, piece), Len(piece))

sdscatfmt(x, fmtlen, pieces) ==
  LET y == FoldLeft(CatPiece, sdsMakeRoomFor(x, x.len + 2 * fmtlen), pieces)
  IN Write(y, y.len, <<0>>)

-----------------------------------------------------------------------------
(* Quoted representations, and the arguments of a line.                    *)

Quote == 34
Apostrophe == 39
Backslash == 92
isprint(c) == c \in 32..126
isspace(c) == c \in 9..13 \cup {32}
HexDigit(d) == IF d < 10 THEN 48 + d ELSE 87 + d

\* The letters after a backslash, and the control characters they stand for.
Letters == <<110, 114, 116, 97, 98>>
Controls == <<10, 13, 9, 7, 8>>
Swap(c, from, to) ==
  IF c \in Range(from) THEN to[SelectInSeq(from, LAMBDA f : f = c)] ELSE c

EscapedNoQuote == {Backslash}                              \* mutant
Escaped == {Backslash, Quote}

Repr(c) ==
  IF c \in Escaped THEN <<Backslash, c>>
  ELSE IF c \in Range(Controls) THEN <<Backslash, Swap(c, Controls, Letters)>>
  ELSE IF isprint(c) THEN <<c>>
  ELSE <<Backslash, 120, HexDigit(c \div 16), HexDigit(c % 16)>>

sdscatrepr(x, t) ==
  LET cat(y, c) == sdscatlen(y, Repr(c))
  IN sdscatlen(FoldLeft(cat, sdscatlen(x, <<Quote>>), t), <<Quote>>)

is_hex_digit(c) == c \in 48..57 \cup 97..102 \cup 65..70
hex_digit_to_int(c) ==
  IF c \in 48..57 THEN c - 48 ELSE IF c \in 97..102 THEN c - 87 ELSE c - 55

Error == <<<<-1>>>>
\* c before the first of some tokens.
Put(c, tokens) == IF tokens = Error THEN Error
                  ELSE <<<<c>> \o tokens[1]>> \o Tail(tokens)

\* The tokens from a position of the line on: between tokens, or with what is left
\* of a token first, in plain text or in quotes of either kind.
sdssplitargs(t) ==
  LET line == CString(t) \o <<0>>
      at(i) == IF i <= Len(line) THEN line[i] ELSE 0
      f[i \in 1..Len(line), mode \in {"blank", "token", "inq", "insq"}] ==
        LET c == at(i)
            After(n) == LET rest == f[n, "blank"]
                        IN IF rest = Error THEN Error ELSE <<<<>>>> \o rest
            Closed == IF at(i + 1) # 0 /\ ~isspace(at(i + 1)) THEN Error ELSE After(i + 1)
        IN CASE mode = "blank" ->
                  IF isspace(c) THEN f[i + 1, "blank"]
                  ELSE IF c = 0 THEN <<>> ELSE f[i, "token"]
             [] mode = "token" ->
                  IF c = 0 THEN After(i)
                  ELSE IF c \in {32, 10, 13, 9} THEN After(i + 1)
                  ELSE IF c = Quote THEN f[i + 1, "inq"]
                  ELSE IF c = Apostrophe THEN f[i + 1, "insq"]
                  ELSE Put(c, f[i + 1, "token"])
             [] mode = "inq" ->
                  IF c = Backslash /\ at(i + 1) = 120 /\ is_hex_digit(at(i + 2))
                     /\ is_hex_digit(at(i + 3))
                  THEN Put(hex_digit_to_int(at(i + 2)) * 16 + hex_digit_to_int(at(i + 3)),
                           f[i + 4, "inq"])
                  ELSE IF c = Backslash /\ at(i + 1) # 0
                  THEN Put(Swap(at(i + 1), Letters, Controls), f[i + 2, "inq"])
                  ELSE IF c = Quote THEN Closed
                  ELSE IF c = 0 THEN Error ELSE Put(c, f[i + 1, "inq"])
             [] mode = "insq" ->
                  IF c = Backslash /\ at(i + 1) = Apostrophe
                  THEN Put(Apostrophe, f[i + 2, "insq"])
                  ELSE IF c = Apostrophe THEN Closed
                  ELSE IF c = 0 THEN Error ELSE Put(c, f[i + 1, "insq"])
  IN f[1, "blank"]

-----------------------------------------------------------------------------
(* Tokens between separators.                                              *)

MoreSlotsLate(slots, n) == IF slots < n THEN 2 * slots ELSE slots \* mutant
\* There is a slot for the next token and one for the last.
MoreSlots(slots, n) == IF slots < n + 2 THEN 2 * slots ELSE slots

\* NULL: no array.
NoTokens == [tokens |-> <<>>, slots |-> 0]

\* The tokens, and the slots of the array they are in.
sdssplitlen(t, sep) ==
  LET n == Len(sep)
      f[j \in 0..Len(t) + n, start \in 0..Len(t) + n, found \in Seq(Seq(Int)), slots \in Nat] ==
        LET more == MoreSlots(slots, Len(found))
        IN IF j >= Len(t) - (n - 1)
           THEN [tokens |-> Append(found, SubSeq(t, start + 1, Len(t))), slots |-> slots]
           ELSE IF SubSeq(t, j + 1, j + n) = sep
           THEN f[j + n, j + n, Append(found, SubSeq(t, start + 1, j)), more]
           ELSE f[j + 1, start, found, more]
  IN IF sep = <<>> THEN NoTokens
     ELSE IF t = <<>> THEN [tokens |-> <<>>, slots |-> Slots]
     ELSE f[0, 0, <<>>, Slots]

sdsjoinsds(tokens, sep) ==
  LET cat(x, i) == LET y == sdscatlen(x, tokens[i])
                   IN IF i = Len(tokens) THEN y ELSE sdscatlen(y, sep)
  IN FoldLeft(cat, sdsempty, [i \in 1..Len(tokens) |-> i])
=============================================================================
