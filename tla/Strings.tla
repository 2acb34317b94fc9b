------------------------------- MODULE Strings -------------------------------
(***************************************************************************)
(* The string library as a whole: a string that is edited (Sds), made of   *)
(* numbers, formats and quoted text, and taken apart (SdsText, Numbers);   *)
(* the string objects of object.c and getAbsolutePath() of util.c, which   *)
(* are made with it.                                                       *)
(***************************************************************************)
EXTENDS SdsText

CONSTANTS
  Values,       \* numbers turned into strings
  Formats,      \* of sdscatfmt(): records [fmtlen, pieces]
  Samples,      \* texts to take apart
  Separators,   \* of sdssplitlen()
  EmbstrLimit,  \* OBJ_ENCODING_EMBSTR_SIZE_LIMIT
  Directories,  \* what getcwd() may return
  Files         \* file names

ASSUME StringsAssumption ==
  /\ Values \subseteq LLONG_MIN..LLONG_MAX /\ <<>> \notin Separators
  /\ EmbstrLimit < Limit[2]

Alphabet == UNION {Range(t) : t \in Texts}

-----------------------------------------------------------------------------
(* Objects: a short string shares the block of its object.                 *)

createEmbeddedStringObject(t) ==
  Write(Block(1, Len(t), Len(t), sdsHdrSize(1) + Len(t) + 1, t), Len(t), <<0>>)
createStringObject(t) ==
  IF Len(t) <= EmbstrLimit THEN createEmbeddedStringObject(t) ELSE sdsnewlen(t)

-----------------------------------------------------------------------------
(* File names.                                                             *)

Slash == 47
Blanks == {32, 13, 10, 9}
Up == <<46, 46, Slash>>
Ups(t) == Max({k \in 0..Len(t) : 3 * k <= Len(t) /\
                 \A i \in 0..k - 1 : SubSeq(t, 3 * i + 1, 3 * i + 3) = Up})

\* One "../" less in front of the path, and one directory less.
GoUp(p) ==
  LET last == Max({i \in 1..(p.abspath.len - 1) : p.abspath.buf[i] = Slash})
      trimlen == p.abspath.len - last
  IN [relpath |-> sdsrange(p.relpath, 3, -1),
      abspath |-> IF p.abspath.len > 1 THEN sdsrange(p.abspath, 0, -(trimlen + 1))
                  ELSE p.abspath]

getAbsolutePath(cwd, filename) ==
  LET relpath == sdstrim(sdsnewlen(filename), Blanks)
      dir == sdsnewlen(cwd)
      abspath == IF cwd[Len(cwd)] # Slash THEN sdscatlen(dir, <<Slash>>) ELSE dir
      step(p, i) == GoUp(p)
      done == FoldLeft(step, [relpath |-> relpath, abspath |-> abspath],
                       [i \in 1..Ups(Content(relpath)) |-> i])
  IN IF relpath.buf[1] = Slash THEN relpath
     ELSE sdscatlen(done.abspath, Content(done.relpath))

\* The path it is to return: without the blanks around it, and unless it begins
\* with a slash behind as many directories as are left of the current one.
Resolved(cwd, filename) ==
  LET t == SelectSeq(filename, LAMBDA c : c \notin Blanks)
      base == IF cwd[Len(cwd)] = Slash THEN cwd ELSE Append(cwd, Slash)
      ends == SetToSortSeq({i \in 1..Len(base) : base[i] = Slash}, <)
  IN IF t # <<>> /\ t[1] = Slash THEN t
     ELSE SubSeq(base, 1, ends[Max({1, Len(ends) - Ups(t)})])
            \o SubSeq(t, 3 * Ups(t) + 1, Len(t))

-----------------------------------------------------------------------------
\* A string the calls of Sds are tried on; any other one is only freed.
Edited ==
  s.len <= MaxLen /\ Range(Content(s)) \subseteq Alphabet

FromNumber == ~alive /\ \E v \in Values : BecomesText(ll2string(64, v)) /\ Did(sdsfromlonglong(v))
Sample ==
  /\ ~alive
  /\ \/ \E t \in Samples : ~(Range(t) \subseteq Alphabet) /\ BecomesText(t) /\ Did(createStringObject(t))
     \/ \E cwd \in Directories, f \in Files :
          BecomesText(Resolved(cwd, f)) /\ Did(getAbsolutePath(cwd, f))

Format ==
  /\ alive /\ Edited
  /\ \/ \E f \in Formats :
          GetsText(FlattenSeq(f.pieces)) /\ Did(sdscatfmt(s, f.fmtlen, f.pieces))
     \/ \E t \in Texts, n \in {1, StaticBuf} :
          GetsText(CString(t)) /\ Did(sdscatvprintf(s, n, CString(t)))
     \/ \E t \in Texts :
          /\ GetsText(<<Quote>> \o FlattenSeq([i \in 1..Len(t) |-> Repr(t[i])]) \o <<Quote>>)
          /\ Did(sdscatrepr(s, t))

StringsNext ==
  \/ Edited /\ StrNext
  \/ FromNumber \/ Sample \/ Format
  \/ alive /\ sdsfree

StringsSpec == StrInit /\ [][StringsNext]_strvars

-----------------------------------------------------------------------------
\* string2ll() takes the decimal texts of the 64 bit numbers and nothing else, and
\* both ways to write the number give the text back: no digit is lost or made up at
\* the limits of 64 bits, where the digit count changes, or at LLONG_MIN.
NumbersExact ==
  alive =>
    LET t == Content(s) v == string2ll(t)
    IN /\ v = NumberOf(t)
       /\ v # <<>> => /\ ll2string(Len(t) + 1, v[1]) = t /\ sdsll2str(v[1]) = t
                      /\ v[1] >= 0 => sdsull2str(v[1]) = t

\* The quoted representation of any bytes is a line of one argument: those bytes.
ReprRoundTrip ==
  alive => \A quoted \in {Content(sdscatrepr(sdsempty, Content(s)))} :
             sdssplitargs(quoted) = <<Content(s)>>

Holds(t, sep) == \E j \in 0..Len(t) - Len(sep) : SubSeq(t, j + 1, j + Len(sep)) = sep

\* The tokens of a string that is not empty, joined with their separator, are the
\* string again, none of them holds the separator, and they fit in the array
\* allocated for them.
SplitJoins ==
  alive /\ Content(s) # <<>> =>
    \A sep \in Separators :
      LET r == sdssplitlen(Content(s), sep)
      IN /\ Content(sdsjoinsds(r.tokens, sep)) = Content(s)
         /\ \A i \in 1..Len(r.tokens) : ~Holds(r.tokens[i], sep)
         /\ Len(r.tokens) <= r.slots

\* "On out of memory, zero length string, zero length separator, NULL is
\* returned", says the comment on sdssplitlen().
EmptySplitsToNull ==
  alive => \A sep \in Separators \cup {<<>>} :
    Content(s) = <<>> \/ sep = <<>> => sdssplitlen(Content(s), sep) = NoTokens
=============================================================================
