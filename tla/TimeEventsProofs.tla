--------------------------- MODULE TimeEventsProofs ---------------------------
(***************************************************************************)
(* Theorems about TimeEvents, for any number of timers, any delays, any    *)
(* depth of nested calls, a clock of any resolution that is set back at    *)
(* any moment.                                                             *)
(***************************************************************************)
EXTENDS TimeEvents, Facts

(* The calls of processTimeEvents() under way: all but the innermost wait  *)
(* for a callback, and each stands on a timer of the list or at its end.   *)
Nested ==
  /\ Len(frames) <= MaxDepth
  /\ frames = <<>> <=> phase # "walk"
  /\ \A f \in DOMAIN frames :
       /\ frames[f].te \in Range(timeEvents) \cup {NULL}
       /\ f # Len(frames) => frames[f].calling
       /\ frames[f].calling => frames[f].te # NULL

(* The list holds created timers, each once, that are not finalized.       *)
Linked ==
  /\ \A p, q \in DOMAIN timeEvents : timeEvents[p] = timeEvents[q] => p = q
  /\ \A p \in DOMAIN timeEvents :
       timeEvents[p] < nextId /\ finalized[timeEvents[p]] = 0
  /\ \A i \in Ids : i >= nextId => finalized[i] = 0

(* te->refcount is the number of calls that run te's callback.             *)
CallsOf(i) == {f \in DOMAIN frames : frames[f].calling /\ frames[f].te = i}
Counted == \A i \in Ids : refcount[i] = Cardinality(CallsOf(i))

(* A timer is due no earlier than it asked to be, and, while the clock has *)
(* never been set back, exactly then.                                      *)
At(i) == when_sec[i] * MsPerSec + when_ms[i]
Meant ==
  /\ \A i \in Ids : /\ asked[i] <= At(i) /\ At(i) <= MaxTime
                    /\ back = 0 => asked[i] = At(i)
  /\ back = 0 => lastTime <= Sec(now)

IInv == TypeOK /\ Nested /\ Linked /\ Counted /\ Meant /\ SleepsInTime

-----------------------------------------------------------------------------
Frame == [te : Ids \cup {NULL}, maxId : -1..(MaxTimers - 1), calling : BOOLEAN]

(* The innermost call, and a step that changes its record.                 *)
LEMMA TopFrame ==
  ASSUME frames \in Seq(Frame), frames # <<>>
  PROVE  /\ Len(frames) \in DOMAIN frames /\ Top = frames[Len(frames)] /\ Top \in Frame
         /\ \A f \in Frame : SetTop(f) =>
              /\ frames' \in Seq(Frame) /\ Len(frames') = Len(frames)
              /\ DOMAIN frames' = DOMAIN frames
              /\ \A g \in DOMAIN frames :
                   frames'[g] = IF g = Len(frames) THEN f ELSE frames[g]
<1> HIDE DEF Frame
<1>1. Len(frames) \in DOMAIN frames /\ Top = frames[Len(frames)] /\ Top \in Frame
  BY DEF Top, Last
<1>2. ASSUME NEW f \in Frame, SetTop(f)
      PROVE  /\ frames' \in Seq(Frame) /\ Len(frames') = Len(frames)
             /\ DOMAIN frames' = DOMAIN frames
             /\ \A g \in DOMAIN frames :
                  frames'[g] = IF g = Len(frames) THEN f ELSE frames[g]
  BY <1>1, <1>2 DEF SetTop
<1> QED
  BY <1>1, <1>2

(* What TypeOK says, in the terms of this module.                          *)
LEMMA Typed ==
  ASSUME IInv
  PROVE  /\ now \in Nat /\ now <= MaxTime /\ MaxTime \in Nat /\ MsPerSec \in Nat \ {0}
         /\ timeEvents \in Seq(Ids) /\ nextId \in 0..MaxTimers /\ MaxTimers \in Nat
         /\ frames \in Seq(Frame) /\ Len(frames) \in Nat /\ Len(frames) <= MaxDepth
         /\ MaxDepth \in Nat \ {0}
         /\ DOMAIN frames = 1..Len(frames)
         /\ \A i \in Ids : i \in Nat /\ i # NULL
         /\ Range(timeEvents) \subseteq Ids
<1>1. now \in Nat /\ now <= MaxTime /\ MaxTime \in Nat /\ MsPerSec \in Nat \ {0}
  BY TimeEventsAssumption DEF IInv, TypeOK
<1>2. timeEvents \in Seq(Ids) /\ nextId \in 0..MaxTimers /\ frames \in Seq(Frame)
  BY DEF IInv, TypeOK, Frame
<1>3. \A i \in Ids : i \in Nat /\ i # NULL
  BY TimeEventsAssumption DEF Ids, NULL
<1>4. Len(frames) \in Nat /\ DOMAIN frames = 1..Len(frames)
  <2> HIDE DEF Frame
  <2> QED
    BY <1>2
<1>5. Range(timeEvents) \subseteq Ids
  BY <1>2 DEF Range
<1> QED
  BY <1>1, <1>2, <1>3, <1>4, <1>5, TimeEventsAssumption DEF IInv, Nested

(* The clock in seconds and milliseconds.                                  *)
LEMMA Seconds ==
  ASSUME IInv
  PROVE  /\ Sec(now) \in Nat /\ Ms(now) \in 0..(MsPerSec - 1)
         /\ Sec(now) * MsPerSec + Ms(now) = now
         /\ Sec(MaxTime) \in Nat /\ Sec(now) <= Sec(MaxTime)
<1>1. now \in Nat /\ MaxTime \in Nat /\ now <= MaxTime /\ MsPerSec \in Nat \ {0}
  BY Typed
<1>2. /\ Sec(now) \in Nat /\ Ms(now) \in 0..(MsPerSec - 1)
      /\ Sec(now) * MsPerSec + Ms(now) = now
  BY <1>1, DivMod DEF Sec, Ms
<1>3. Sec(MaxTime) \in Nat
  BY <1>1, DivMod DEF Sec
<1>4. Sec(now) <= Sec(MaxTime)
  BY <1>1, DivMonotone DEF Sec
<1> QED
  BY <1>2, <1>3, <1>4

(* The calls on a timer are finitely many.                                 *)
LEMMA CallsFinite ==
  ASSUME IInv, NEW i \in Ids
  PROVE  /\ CallsOf(i) \subseteq 1..Len(frames)
         /\ IsFiniteSet(CallsOf(i)) /\ Cardinality(CallsOf(i)) \in Nat
         /\ Cardinality(CallsOf(i)) <= Len(frames)
<1>1. Len(frames) \in Nat /\ CallsOf(i) \in SUBSET (1..Len(frames))
  BY Typed DEF CallsOf
<1>2. IsFiniteSet(1..Len(frames)) /\ Cardinality(1..Len(frames)) = Len(frames)
  BY <1>1, FirstNaturals
<1> QED
  BY <1>1, <1>2, FS_Subset, FS_CardinalityType

(* A timer of the list has one place in it, and its successor is another.  *)
LEMMA NextTimer ==
  ASSUME IInv, NEW i \in Range(timeEvents)
  PROVE  /\ PlaceOf(i) \in DOMAIN timeEvents /\ timeEvents[PlaceOf(i)] = i
         /\ NextOf(i) \in (Range(timeEvents) \ {i}) \cup {NULL}
         /\ NextOf(i) \in Ids \cup {NULL}
<1>1. \E p \in DOMAIN timeEvents : timeEvents[p] = i
  BY DEF Range
<1>2. PlaceOf(i) \in DOMAIN timeEvents /\ timeEvents[PlaceOf(i)] = i
  BY <1>1 DEF PlaceOf
<1>3. timeEvents \in Seq(Ids) /\ Range(timeEvents) \subseteq Ids
  BY Typed
<1>4. ASSUME PlaceOf(i) < Len(timeEvents)
      PROVE  NextOf(i) \in Range(timeEvents) \ {i}
  <2>1. PlaceOf(i) + 1 \in DOMAIN timeEvents /\ PlaceOf(i) + 1 # PlaceOf(i)
    BY <1>2, <1>3, <1>4
  <2>2. timeEvents[PlaceOf(i) + 1] # i
    BY <1>2, <2>1 DEF IInv, Linked
  <2>3. NextOf(i) = timeEvents[PlaceOf(i) + 1]
    BY <1>4 DEF NextOf
  <2> QED
    BY <2>1, <2>2, <2>3 DEF Range
<1>5. ~(PlaceOf(i) < Len(timeEvents)) => NextOf(i) = NULL
  BY DEF NextOf
<1> QED
  BY <1>2, <1>3, <1>4, <1>5

(* A timer is due when it asked to be, to the millisecond.                 *)
LEMMA Rearmed ==
  ASSUME IInv, NEW i \in Ids, NEW d \in Delays, now + d <= MaxTime,
         addMillisecondsToNow(i, d)
  PROVE  /\ when_sec' \in [Ids -> 0..Sec(MaxTime)] /\ when_ms' \in [Ids -> 0..(MsPerSec - 1)]
         /\ asked' \in [Ids -> 0..MaxTime]
         /\ asked'[i] = now + d /\ when_sec'[i] * MsPerSec + when_ms'[i] = now + d
         /\ \A j \in Ids : j # i => /\ when_sec'[j] = when_sec[j]
                                    /\ when_ms'[j] = when_ms[j] /\ asked'[j] = asked[j]
<1> DEFINE ms == Ms(now) + (d % MsPerSec)
           carry == IF ms >= MsPerSec THEN 1 ELSE 0
           s == Sec(now) + (d \div MsPerSec) + carry
           rest == ms - carry * MsPerSec
<1>1. /\ when_sec' = [when_sec EXCEPT ![i] = s]
      /\ when_ms' = [when_ms EXCEPT ![i] = rest]
      /\ asked' = [asked EXCEPT ![i] = now + d]
  BY DEF addMillisecondsToNow
<1>2. /\ now \in Nat /\ d \in Nat /\ MsPerSec \in Nat \ {0} /\ MaxTime \in Nat
  BY Typed, TimeEventsAssumption
<1>3. /\ Sec(now) \in Nat /\ Ms(now) \in 0..(MsPerSec - 1)
      /\ Sec(now) * MsPerSec + Ms(now) = now
      /\ d \div MsPerSec \in Nat /\ d % MsPerSec \in 0..(MsPerSec - 1)
      /\ (d \div MsPerSec) * MsPerSec + (d % MsPerSec) = d
  BY <1>2, Seconds, DivMod
<1>4. s \in Nat /\ rest \in 0..(MsPerSec - 1) /\ carry \in {0, 1} /\ ms \in Nat
  BY <1>2, <1>3
<1>5. s * MsPerSec + rest = now + d
  <2> DEFINE a == Sec(now)
             b == d \div MsPerSec
             x == Ms(now)
             y == d % MsPerSec
  <2>1. /\ a \in Int /\ b \in Int /\ x \in Int /\ y \in Int /\ carry \in Int
        /\ MsPerSec \in Int
        /\ a * MsPerSec + x = now /\ b * MsPerSec + y = d
    BY <1>2, <1>3, <1>4
  <2>2. s = a + b + carry /\ rest = (x + y) - carry * MsPerSec
    OBVIOUS
  <2> HIDE DEF a, b, x, y, carry, s, rest
  <2>3. s * MsPerSec + rest = (a * MsPerSec + x) + (b * MsPerSec + y)
    BY <2>1, <2>2, Regroup
  <2> QED
    BY <2>1, <2>3
<1> HIDE DEF s, rest, ms, carry
<1>6. s <= Sec(MaxTime)
  <2>1. s = (now + d) \div MsPerSec
    BY <1>2, <1>4, <1>5, DivUnique
  <2> QED
    BY <1>2, <2>1, DivMonotone DEF Sec
<1>7. s \in 0..Sec(MaxTime) /\ now + d \in 0..MaxTime
  BY <1>2, <1>4, <1>6, Seconds
<1>8. /\ when_sec \in [Ids -> 0..Sec(MaxTime)] /\ when_ms \in [Ids -> 0..(MsPerSec - 1)]
      /\ asked \in [Ids -> 0..MaxTime]
  BY DEF IInv, TypeOK
<1> QED
  BY <1>1, <1>4, <1>5, <1>7, <1>8

-----------------------------------------------------------------------------
(* No timers, no calls.                                                    *)
LEMMA InitIInv == Init => IInv
<1> SUFFICES ASSUME Init PROVE IInv
  OBVIOUS
<1>0. /\ MsPerSec \in Nat \ {0} /\ MaxTime \in Nat /\ MaxTimers \in Nat /\ MaxDepth \in Nat \ {0}
      /\ MaxBack \in Nat /\ Sec(MaxTime) \in Nat /\ Sec(0) \in Nat
  BY TimeEventsAssumption, DivMod DEF Sec
<1>1. TypeOK
  <2>1. timeEvents \in Seq(Ids) /\ frames \in Seq(Frame)
    <3> HIDE DEF Frame
    <3> QED
      BY DEF Init
  <2>2. /\ when_sec \in [Ids -> 0..Sec(MaxTime)] /\ when_ms \in [Ids -> 0..(MsPerSec - 1)]
        /\ refcount \in [Ids -> 0..MaxDepth] /\ asked \in [Ids -> 0..MaxTime]
        /\ finalized \in [Ids -> 0..1]
    BY <1>0 DEF Init
  <2> QED
    BY <1>0, <2>1, <2>2 DEF Init, TypeOK, Frame, Forever
<1>2. Nested /\ Linked
  BY <1>0 DEF Init, Nested, Linked
<1>3. Counted
  <2>1. \A i \in Ids : CallsOf(i) = {}
    BY DEF Init, CallsOf
  <2> QED
    BY <2>1, FS_EmptySet DEF Init, Counted
<1>4. Meant
  <2>1. \A i \in Ids : At(i) = 0
    BY <1>0 DEF Init, At
  <2> QED
    BY <1>0, <2>1 DEF Init, Meant
<1>5. SleepsInTime
  BY DEF Init, SleepsInTime
<1> QED
  BY <1>1, <1>2, <1>3, <1>4, <1>5 DEF IInv

(* Steps that change neither a timer nor a call.                           *)
LEMMA TimersKept ==
  ASSUME IInv, UNCHANGED <<timeEvents, nextId, refcount, finalized, frames>>,
         phase' = "walk" <=> phase = "walk"
  PROVE  Nested' /\ Linked' /\ Counted'
<1>1. Nested' /\ Linked'
  BY DEF IInv, Nested, Linked
<1>2. \A i \in Ids : CallsOf(i)' = CallsOf(i)
  BY DEF CallsOf
<1> QED
  BY <1>1, <1>2 DEF IInv, Counted

(* Time passes, or the clock is set back.                                  *)
LEMMA ClockIInv ==
  ASSUME IInv, tick \/ setBack
  PROVE  IInv'
<1>0. UNCHANGED <<lastTime, timeEvents, nextId, when_sec, when_ms, refcount, deleted,
                  asked, finalized, frames, phase>>
  BY DEF tick, setBack, timers
<1>1. /\ now' \in 0..MaxTime /\ back' \in 0..MaxBack /\ timeout' \in Forever..MaxTime
      /\ late' \in Nat
      /\ back' = 0 => back = 0 /\ now' = now + 1 /\ tick
  <2>1. /\ now \in Nat /\ now <= MaxTime /\ MaxTime \in Nat /\ MaxBack \in Nat
        /\ back \in 0..MaxBack /\ timeout \in Forever..MaxTime /\ late \in Nat
        /\ Forever = -1
    BY Typed, TimeEventsAssumption DEF IInv, TypeOK, Forever
  <2>2. CASE tick
    BY <2>1, <2>2 DEF tick
  <2>3. CASE setBack
    BY <2>1, <2>3 DEF setBack, sleep
  <2> QED
    BY <2>2, <2>3
<1>2. TypeOK'
  BY <1>0, <1>1 DEF IInv, TypeOK
<1>3. Nested' /\ Linked' /\ Counted'
  BY <1>0, TimersKept
<1>4. Meant'
  <2>1. \A i \in Ids : At(i)' = At(i)
    BY <1>0 DEF At
  <2>2. ASSUME back' = 0
        PROVE  lastTime <= Sec(now)'
    <3>1. /\ now \in Nat /\ now + 1 \in Nat /\ now <= now + 1 /\ MsPerSec \in Nat \ {0}
      BY Typed
    <3>2. Sec(now) <= Sec(now)' /\ Sec(now) \in Nat /\ Sec(now)' \in Nat
      BY <1>1, <2>2, <3>1, DivMonotone, DivMod DEF Sec
    <3>3. lastTime <= Sec(now) /\ lastTime \in Int
      BY <1>1, <2>2 DEF IInv, Meant, TypeOK
    <3> QED
      BY <3>2, <3>3
  <2> QED
    BY <1>0, <1>1, <2>1, <2>2 DEF IInv, Meant
<1>5. SleepsInTime'
  <2> SUFFICES ASSUME phase \in {"beforeSleep", "asleep"}, back' = 0, NEW i \in Live
               PROVE  timeout' # Forever /\ (timeout' = 0 \/ now' + timeout' <= asked[i] + late')
    BY <1>0 DEF SleepsInTime, Live
  <2>1. /\ now' = now + 1
        /\ timeout' = IF phase = "asleep" /\ timeout > 0 THEN timeout - 1 ELSE timeout
        /\ late' = IF phase = "beforeSleep" THEN late + 1 ELSE late
    BY <1>1 DEF tick
  <2>2. /\ timeout # Forever /\ (timeout = 0 \/ now + timeout <= asked[i] + late)
        /\ timeout \in Int /\ now \in Int /\ late \in Int /\ timeout >= -1
    BY <1>1, Typed DEF IInv, SleepsInTime, TypeOK, Forever
  <2>3. asked[i] \in Int
    <3>1. i \in Ids
      BY Typed DEF Live
    <3> QED
      BY <3>1 DEF IInv, TypeOK
  <2>4. CASE phase = "beforeSleep"
    BY <2>1, <2>2, <2>3, <2>4 DEF Forever
  <2>5. CASE phase = "asleep"
    BY <2>1, <2>2, <2>3, <2>5 DEF Forever
  <2> QED
    BY <2>4, <2>5
<1> QED
  BY <1>2, <1>3, <1>4, <1>5 DEF IInv

(* Comparing seconds, then milliseconds, compares times.                   *)
LEMMA SoonerIsEarlier ==
  ASSUME IInv, NEW i \in Ids, NEW j \in Ids
  PROVE  /\ Sooner(i, j) <=> At(i) < At(j)
         /\ At(i) \in Nat /\ when_sec[i] \in Nat /\ when_ms[i] \in 0..(MsPerSec - 1)
<1>1. /\ when_sec[i] \in Nat /\ when_ms[i] \in 0..(MsPerSec - 1)
      /\ when_sec[j] \in Nat /\ when_ms[j] \in 0..(MsPerSec - 1)
      /\ MsPerSec \in Nat \ {0}
  <2>1. /\ when_sec \in [Ids -> 0..Sec(MaxTime)] /\ when_ms \in [Ids -> 0..(MsPerSec - 1)]
    BY DEF IInv, TypeOK
  <2> QED
    BY <2>1, TimeEventsAssumption
<1>2. \A m \in Nat \ {0} : \A x, y \in 0..(m - 1), a, b \in Int :
        a < b => a * m + x < b * m + y
  BY SecondsFirst
<1>3. /\ when_sec[i] < when_sec[j] => At(i) < At(j)
      /\ when_sec[j] < when_sec[i] => At(j) < At(i)
  <2>1. when_sec[i] \in Int /\ when_sec[j] \in Int
    BY <1>1
  <2> QED
    BY <1>1, <1>2, <2>1, Zenon DEF At
<1>4. At(i) \in Nat /\ At(j) \in Nat
  BY <1>1 DEF At
<1>5. when_sec[i] = when_sec[j] => (At(i) < At(j) <=> when_ms[i] < when_ms[j])
  BY <1>1 DEF At
<1> QED
  BY <1>1, <1>3, <1>4, <1>5 DEF Sooner

(* searchNearestTimer() finds a timer of the list none is due before.      *)
LEMMA NearestFound ==
  ASSUME IInv, timeEvents # <<>>
  PROVE  /\ searchNearestTimer \in Range(timeEvents)
         /\ \A i \in Range(timeEvents) : At(searchNearestTimer) <= At(i)
<1> DEFINE P(p) == \A q \in DOMAIN timeEvents :
                     /\ ~Sooner(timeEvents[q], timeEvents[p])
                     /\ q < p => Sooner(timeEvents[p], timeEvents[q])
           times == {At(timeEvents[q]) : q \in DOMAIN timeEvents}
<1>0. /\ timeEvents \in Seq(Ids) /\ 1 \in DOMAIN timeEvents
      /\ \A q \in DOMAIN timeEvents : /\ q \in Nat /\ timeEvents[q] \in Ids
                                      /\ At(timeEvents[q]) \in Nat
  <2>1. /\ timeEvents \in Seq(Ids) /\ \A q \in DOMAIN timeEvents : q \in Nat
        /\ 1 \in DOMAIN timeEvents
    BY Typed
  <2> QED
    BY <2>1, SoonerIsEarlier
<1>1. PICK t \in times : \A u \in times : t <= u
  <2>1. times \subseteq Nat /\ times # {}
    BY <1>0
  <2> HIDE DEF times
  <2> QED
    BY <2>1, LeastNatural
<1> DEFINE first == {q \in DOMAIN timeEvents : At(timeEvents[q]) = t}
<1>2. PICK p \in first : \A q \in first : p <= q
  <2>1. first \subseteq Nat /\ first # {}
    BY <1>0
  <2> HIDE DEF first
  <2> QED
    BY <2>1, LeastNatural
<1>3. \A q \in DOMAIN timeEvents : /\ At(timeEvents[p]) <= At(timeEvents[q])
                                   /\ q < p => At(timeEvents[p]) < At(timeEvents[q])
  <2> SUFFICES ASSUME NEW q \in DOMAIN timeEvents
               PROVE  /\ At(timeEvents[p]) <= At(timeEvents[q])
                      /\ q < p => At(timeEvents[p]) < At(timeEvents[q])
    OBVIOUS
  <2>1. At(timeEvents[p]) = t /\ p \in DOMAIN timeEvents
    OBVIOUS
  <2>2. t <= At(timeEvents[q]) /\ t \in Nat
    BY <1>0, <1>1
  <2>3. q < p => At(timeEvents[q]) # t
    BY <1>0, <1>2, <2>1
  <2> QED
    BY <1>0, <2>1, <2>2, <2>3
<1>4. P(p) /\ p \in DOMAIN timeEvents
  BY <1>0, <1>3, SoonerIsEarlier
<1> DEFINE found == CHOOSE x \in DOMAIN timeEvents : P(x)
<1>5. found \in DOMAIN timeEvents /\ P(found)
  <2> HIDE DEF P
  <2> QED
    BY <1>4
<1>6. searchNearestTimer = timeEvents[found]
  BY DEF searchNearestTimer
<1> HIDE DEF found
<1>7. \A q \in DOMAIN timeEvents : At(timeEvents[found]) <= At(timeEvents[q])
  BY <1>0, <1>5, SoonerIsEarlier
<1> QED
  BY <1>5, <1>6, <1>7 DEF Range

(* The computed sleep ends when the nearest timer is due, or at once; what *)
(* beforeSleep() takes after that is late.                                 *)
LEMMA PollIInv ==
  ASSUME IInv, searchTimeout \/ eventPoll \/ wakeUp
  PROVE  IInv'
<1>0. UNCHANGED <<now, back, lastTime, timeEvents, nextId, when_sec, when_ms, refcount,
                  deleted, asked, finalized, frames>>
  BY DEF searchTimeout, eventPoll, wakeUp, clock, sleep, timers
<1>1. /\ phase \in {"poll", "beforeSleep", "asleep"}
      /\ phase' \in {"beforeSleep", "asleep", "handlers"}
      /\ late' \in Nat
  <2>1. late \in Nat
    BY DEF IInv, TypeOK
  <2> QED
    BY <2>1 DEF searchTimeout, eventPoll, wakeUp, sleep
<1>2. /\ timeout' \in Forever..MaxTime
      /\ searchTimeout => \A i \in Range(timeEvents) :
           timeout' # Forever /\ (timeout' = 0 \/ now + timeout' <= At(i))
  <2>1. CASE eventPoll \/ wakeUp
    <3>1. timeout \in Forever..MaxTime /\ Forever \in Forever..MaxTime
      BY Typed DEF IInv, TypeOK, Forever
    <3> QED
      BY <2>1, <3>1 DEF searchTimeout, eventPoll, wakeUp, sleep
  <2>2. CASE searchTimeout /\ timeEvents = <<>>
    <3>1. timeout' = Forever /\ Range(timeEvents) = {}
      BY <2>2 DEF searchTimeout, Range
    <3> QED
      BY <3>1, Typed DEF Forever
  <2>3. CASE searchTimeout /\ timeEvents # <<>>
    <3> DEFINE i == searchNearestTimer
    <3>1. /\ i \in Ids /\ \A j \in Range(timeEvents) : At(i) <= At(j) /\ j \in Ids
      BY <2>3, NearestFound, Typed
    <3>2. timeout' = SleepTime
      BY <2>3 DEF searchTimeout
    <3>3. SleepTime = IF At(i) - now > 0 THEN At(i) - now ELSE 0
      <4> DEFINE ms == (when_sec[i] - Sec(now)) * MsPerSec + when_ms[i] - Ms(now)
      <4>1. SleepTime = IF ms > 0 THEN ms ELSE 0
        BY DEF SleepTime
      <4>2. /\ when_sec[i] \in Nat /\ when_ms[i] \in 0..(MsPerSec - 1)
            /\ Sec(now) \in Nat /\ Ms(now) \in 0..(MsPerSec - 1)
            /\ Sec(now) * MsPerSec + Ms(now) = now /\ MsPerSec \in Nat \ {0}
        BY <3>1, SoonerIsEarlier, Typed, Seconds
      <4> HIDE DEF i
      <4>3. ms = At(i) - now
        BY <4>2 DEF At
      <4> QED
        BY <4>1, <4>3
    <3>4. \A j \in Range(timeEvents) : At(j) \in Nat
      BY <3>1, SoonerIsEarlier
    <3>5. At(i) \in Nat /\ At(i) <= MaxTime
      BY <3>1, SoonerIsEarlier DEF IInv, Meant
    <3>6. now \in Nat /\ MaxTime \in Nat
      BY Typed
    <3> HIDE DEF i
    <3> QED
      BY <3>1, <3>2, <3>3, <3>4, <3>5, <3>6 DEF Forever
  <2> QED
    BY <2>1, <2>2, <2>3
<1>3. TypeOK'
  BY <1>0, <1>1, <1>2 DEF IInv, TypeOK
<1>4. Nested' /\ Linked' /\ Counted'
  BY <1>0, <1>1, TimersKept
<1>5. Meant'
  BY <1>0 DEF IInv, Meant, At, Sec
<1>6. SleepsInTime'
  <2>1. CASE wakeUp
    BY <2>1 DEF wakeUp, SleepsInTime
  <2>2. CASE eventPoll
    BY <2>2 DEF eventPoll, sleep, clock, timers, IInv, SleepsInTime, Live
  <2>3. CASE searchTimeout
    <3> SUFFICES ASSUME back = 0, NEW i \in Live
                 PROVE  timeout' # Forever /\ (timeout' = 0 \/ now + timeout' <= asked[i] + late')
      BY <1>0 DEF SleepsInTime, Live
    <3>1. i \in Range(timeEvents) /\ i \in Ids
      BY Typed DEF Live
    <3>2. asked[i] = At(i)
      BY <3>1 DEF IInv, Meant
    <3>3. late' = 0 /\ asked[i] \in Int
      BY <2>3, <3>1 DEF searchTimeout, IInv, TypeOK
    <3>4. asked[i] + late' = At(i)
      BY <3>2, <3>3
    <3> QED
      BY <1>2, <2>3, <3>1, <3>4
  <2> QED
    BY <2>1, <2>2, <2>3
<1> QED
  BY <1>3, <1>4, <1>5, <1>6 DEF IInv

(* A new timer is put in front of the list; no walk has it to visit, and   *)
(* nobody sleeps.                                                          *)
LEMMA CreateIInv ==
  ASSUME IInv, createTimeEvent
  PROVE  IInv'
<1>0. /\ nextId \in Ids /\ nextId \in Nat /\ nextId' = nextId + 1 /\ nextId' \in 0..MaxTimers
      /\ timeEvents' = <<nextId>> \o timeEvents /\ phase \notin {"beforeSleep", "asleep"}
      /\ UNCHANGED <<refcount, deleted, finalized, now, back, lastTime, frames, phase, timeout, late>>
  <2>1. nextId < MaxTimers /\ nextId \in 0..MaxTimers /\ MaxTimers \in Nat
    BY Typed DEF createTimeEvent
  <2>2. phase \notin {"beforeSleep", "asleep"}
    BY DEF createTimeEvent, IInv, Nested
  <2> QED
    BY <2>1, <2>2 DEF createTimeEvent, Ids, clock, sleep
<1>1. PICK d \in Delays : now + d <= MaxTime /\ addMillisecondsToNow(nextId, d)
  BY DEF createTimeEvent
<1>2. /\ when_sec' \in [Ids -> 0..Sec(MaxTime)] /\ when_ms' \in [Ids -> 0..(MsPerSec - 1)]
      /\ asked' \in [Ids -> 0..MaxTime]
      /\ asked'[nextId] = now + d
      /\ when_sec'[nextId] * MsPerSec + when_ms'[nextId] = now + d
      /\ \A j \in Ids : j # nextId => /\ when_sec'[j] = when_sec[j]
                                      /\ when_ms'[j] = when_ms[j] /\ asked'[j] = asked[j]
  BY <1>0, <1>1, Rearmed
<1>3. /\ timeEvents' \in Seq(Ids)
      /\ 1 \in DOMAIN timeEvents' /\ timeEvents'[1] = nextId
      /\ \A p \in DOMAIN timeEvents' :
           \/ p = 1 /\ timeEvents'[p] = nextId
           \/ p - 1 \in DOMAIN timeEvents /\ p \in Int /\ timeEvents'[p] = timeEvents[p - 1]
      /\ \A p \in DOMAIN timeEvents :
           p + 1 \in DOMAIN timeEvents' /\ timeEvents'[p + 1] = timeEvents[p]
  <2>1. /\ timeEvents \in Seq(Ids) /\ nextId \in Ids
        /\ timeEvents' = <<nextId>> \o timeEvents
    BY <1>0, Typed
  <2>2. timeEvents' \in Seq(Ids) /\ Len(timeEvents') = Len(timeEvents) + 1
    BY <2>1
  <2>3. timeEvents'[1] = nextId
    BY <2>1
  <2>4. \A p \in 1..Len(timeEvents) : timeEvents'[p + 1] = timeEvents[p]
    BY <2>1
  <2>5. \A p \in 2..(Len(timeEvents) + 1) : timeEvents'[p] = timeEvents[p - 1]
    BY <2>1
  <2>6. /\ DOMAIN timeEvents = 1..Len(timeEvents) /\ Len(timeEvents) \in Nat
        /\ DOMAIN timeEvents' = 1..(Len(timeEvents) + 1)
    BY <2>1, <2>2
  <2> QED
    BY <2>2, <2>3, <2>4, <2>5, <2>6
<1>4. TypeOK'
  BY <1>0, <1>2, <1>3 DEF IInv, TypeOK
<1>5. Nested'
  <2>1. Range(timeEvents) \subseteq Range(timeEvents')
    BY <1>3 DEF Range
  <2> QED
    BY <1>0, <2>1 DEF IInv, Nested, NULL
<1>6. Linked'
  <2>1. \A p \in DOMAIN timeEvents :
          /\ timeEvents[p] < nextId /\ finalized[timeEvents[p]] = 0 /\ timeEvents[p] \in Nat
    BY Typed DEF IInv, Linked
  <2>2. finalized[nextId] = 0
    BY <1>0 DEF IInv, Linked
  <2>3. \A p \in DOMAIN timeEvents' :
          timeEvents'[p] < nextId + 1 /\ finalized[timeEvents'[p]] = 0
    BY <1>0, <1>3, <2>1, <2>2
  <2>4. ASSUME NEW p \in DOMAIN timeEvents', NEW q \in DOMAIN timeEvents',
               timeEvents'[p] = timeEvents'[q], p # q
        PROVE  FALSE
    <3>1. p # 1 /\ q # 1
      BY <1>0, <1>3, <2>1, <2>4
    <3>2. p - 1 = q - 1
      BY <1>3, <2>4, <3>1 DEF IInv, Linked
    <3> QED
      BY <1>3, <2>4, <3>1, <3>2
  <2>5. \A i \in Ids : i >= nextId + 1 => finalized[i] = 0
    <3>1. \A i \in Ids : i >= nextId + 1 => i >= nextId
      BY <1>0, Typed
    <3> QED
      BY <3>1 DEF IInv, Linked
  <2> QED
    BY <1>0, <2>3, <2>4, <2>5 DEF Linked
<1>7. Counted'
  <2>1. \A i \in Ids : CallsOf(i)' = CallsOf(i)
    BY <1>0 DEF CallsOf
  <2> QED
    BY <1>0, <2>1 DEF IInv, Counted
<1>8. Meant'
  <2>1. ASSUME NEW i \in Ids
        PROVE  /\ asked'[i] <= At(i)' /\ At(i)' <= MaxTime
               /\ back = 0 => asked'[i] = At(i)'
    <3>1. CASE i = nextId
      BY <1>1, <1>2, <3>1, Typed, TimeEventsAssumption DEF At
    <3>2. CASE i # nextId
      <4>1. asked'[i] = asked[i] /\ At(i)' = At(i)
        BY <1>2, <3>2 DEF At
      <4> QED
        BY <4>1 DEF IInv, Meant
    <3> QED
      BY <3>1, <3>2
  <2> QED
    BY <1>0, <2>1 DEF IInv, Meant, Sec
<1>9. SleepsInTime'
  BY <1>0 DEF SleepsInTime
<1> QED
  BY <1>4, <1>5, <1>6, <1>7, <1>8, <1>9 DEF IInv

(* processTimeEvents() is called, from the loop or from a callback: every  *)
(* other call waits for its callback.                                      *)
LEMMA EnterIInv ==
  ASSUME IInv, processTimeEvents
  PROVE  IInv'
<1> DEFINE new == [te |-> IF timeEvents = <<>> THEN NULL ELSE Head(timeEvents),
                   maxId |-> nextId - 1, calling |-> FALSE]
<1>0. /\ phase' = "walk" /\ checkClock /\ frames' = Append(frames, new)
      /\ UNCHANGED <<now, back, timeEvents, nextId, when_ms, refcount, deleted,
                     finalized, timeout, late>>
  BY DEF processTimeEvents, clock, sleep
<1>1. /\ Len(frames) < MaxDepth
      /\ \A f \in DOMAIN frames : frames[f].calling
  <2>1. CASE phase = "handlers"
    <3>1. frames = <<>>
      BY <2>1 DEF IInv, Nested
    <3> QED
      BY <3>1, Typed
  <2>2. CASE phase = "walk" /\ Top.calling /\ Len(frames) < MaxDepth
    <3>1. frames # <<>> /\ frames \in Seq(Frame)
      BY <2>2, Typed DEF IInv, Nested
    <3>2. frames[Len(frames)].calling
      BY <2>2, <3>1, TopFrame
    <3> QED
      BY <2>2, <3>2 DEF IInv, Nested
  <2> QED
    BY <2>1, <2>2 DEF processTimeEvents
<1>2. new \in Frame /\ new.te \in Range(timeEvents) \cup {NULL} /\ new.calling = FALSE
  <2>1. timeEvents # <<>> => Head(timeEvents) \in Ids /\ Head(timeEvents) \in Range(timeEvents)
    <3>1. timeEvents # <<>> => Head(timeEvents) = timeEvents[1] /\ 1 \in DOMAIN timeEvents
      BY Typed
    <3> QED
      BY <3>1, Typed DEF Range
  <2>2. nextId - 1 \in -1..(MaxTimers - 1)
    BY Typed
  <2> QED
    BY <2>1, <2>2 DEF Frame
<1> HIDE DEF new
<1>3. /\ frames' \in Seq(Frame) /\ Len(frames') = Len(frames) + 1 /\ frames' # <<>>
      /\ DOMAIN frames' = 1..(Len(frames) + 1)
      /\ \A f \in DOMAIN frames' :
           \/ f \in DOMAIN frames /\ frames'[f] = frames[f]
           \/ f = Len(frames) + 1 /\ frames'[f] = new
      /\ \A f \in DOMAIN frames : f \in DOMAIN frames' /\ frames'[f] = frames[f]
  <2> HIDE DEF Frame
  <2>1. frames' = Append(frames, new) /\ frames \in Seq(Frame) /\ new \in Frame
    BY <1>0, <1>2, Typed
  <2>2. Len(frames) \in Nat /\ DOMAIN frames = 1..Len(frames)
    BY <2>1
  <2>3. frames' \in Seq(Frame) /\ Len(frames') = Len(frames) + 1 /\ DOMAIN frames' = 1..(Len(frames) + 1)
    BY <2>1, Appended
  <2>4. /\ \A f \in DOMAIN frames' :
             \/ f \in DOMAIN frames /\ frames'[f] = frames[f]
             \/ f = Len(frames) + 1 /\ frames'[f] = new
        /\ \A f \in DOMAIN frames : f \in DOMAIN frames' /\ frames'[f] = frames[f]
    BY <2>1, Appended
  <2>5. frames' # <<>>
    BY <2>2, <2>3
  <2> QED
    BY <2>3, <2>4, <2>5
<1>4. /\ when_sec' \in [Ids -> 0..Sec(MaxTime)] /\ asked' \in [Ids -> 0..MaxTime]
      /\ lastTime' = Sec(now) /\ lastTime' \in 0..Sec(MaxTime)
      /\ \A i \in Ids :
           \/ when_sec'[i] = when_sec[i] /\ asked'[i] = asked[i]
           \/ when_sec'[i] = 0 /\ asked'[i] = 0 /\ Sec(now) < lastTime
  <2>1. Sec(now) \in Nat /\ Sec(MaxTime) \in Nat /\ Sec(now) <= Sec(MaxTime)
    BY Seconds
  <2>2. /\ when_sec \in [Ids -> 0..Sec(MaxTime)] /\ asked \in [Ids -> 0..MaxTime]
        /\ MaxTime \in Nat
    BY Typed DEF IInv, TypeOK
  <2>3. CASE Sec(now) < lastTime
    BY <1>0, <2>1, <2>2, <2>3 DEF checkClock
  <2>4. CASE ~(Sec(now) < lastTime)
    BY <1>0, <2>1, <2>2, <2>4 DEF checkClock
  <2> QED
    BY <2>3, <2>4
<1>5. TypeOK'
  BY <1>0, <1>3, <1>4 DEF IInv, TypeOK, Frame
<1>6. Nested'
  <2>1. Len(frames') <= MaxDepth
    BY <1>1, <1>3, Typed
  <2>2. ASSUME NEW f \in DOMAIN frames'
        PROVE  /\ frames'[f].te \in Range(timeEvents) \cup {NULL}
               /\ f # Len(frames') => frames'[f].calling
               /\ frames'[f].calling => frames'[f].te # NULL
    BY <1>1, <1>2, <1>3 DEF IInv, Nested
  <2> QED
    BY <1>0, <1>3, <2>1, <2>2 DEF Nested, NULL
<1>7. Linked'
  BY <1>0 DEF IInv, Linked
<1>8. Counted'
  <2>1. \A i \in Ids : CallsOf(i)' = CallsOf(i)
    BY <1>2, <1>3 DEF CallsOf
  <2> QED
    BY <1>0, <2>1 DEF IInv, Counted
<1>9. Meant'
  <2>1. ASSUME NEW i \in Ids
        PROVE  /\ asked'[i] <= At(i)' /\ At(i)' <= MaxTime
               /\ back = 0 => asked'[i] = At(i)'
    <3>1. CASE when_sec'[i] = when_sec[i] /\ asked'[i] = asked[i]
      <4>1. At(i)' = At(i)
        BY <1>0, <3>1 DEF At
      <4> QED
        BY <3>1, <4>1 DEF IInv, Meant
    <3>2. CASE when_sec'[i] = 0 /\ asked'[i] = 0 /\ Sec(now) < lastTime
      <4>1. /\ when_sec[i] \in Nat /\ when_ms[i] \in Nat /\ MsPerSec \in Nat
        BY SoonerIsEarlier, Typed
      <4>2. At(i)' = when_ms[i] /\ when_ms[i] <= At(i)
        BY <1>0, <3>2, <4>1 DEF At
      <4>3. back # 0
        <5>1. Sec(now) \in Int /\ lastTime \in Int
          BY Seconds DEF IInv, TypeOK
        <5> QED
          BY <3>2, <5>1 DEF IInv, Meant
      <4>4. At(i) <= MaxTime /\ At(i) \in Nat /\ MaxTime \in Nat
        BY SoonerIsEarlier, Typed DEF IInv, Meant
      <4> QED
        BY <3>2, <4>1, <4>2, <4>3, <4>4
    <3> QED
      BY <1>4, <3>1, <3>2
  <2>2. lastTime' <= Sec(now)'
    BY <1>0, <1>4, Seconds
  <2> QED
    BY <1>0, <2>1, <2>2 DEF Meant
<1>10. SleepsInTime'
  BY <1>0 DEF SleepsInTime
<1> QED
  BY <1>5, <1>6, <1>7, <1>8, <1>9, <1>10 DEF IInv

(* A walk ends; the one that waits for the callback it ran in goes on.     *)
LEMMA WalkEndsIInv ==
  ASSUME IInv, walkEnds
  PROVE  IInv'
<1>0. /\ frames # <<>> /\ ~Top.calling /\ frames' = Front(frames)
      /\ phase' = IF Len(frames) = 1 THEN "poll" ELSE phase
      /\ UNCHANGED <<now, back, lastTime, timeEvents, nextId, when_sec, when_ms, refcount,
                     deleted, asked, finalized, timeout, late>>
  BY DEF walkEnds, Walking, clock, sleep, timers
<1>1. /\ frames \in Seq(Frame) /\ Len(frames) \in Nat /\ Len(frames) <= MaxDepth
      /\ MaxDepth \in Nat /\ phase = "walk"
      /\ ~frames[Len(frames)].calling
  BY <1>0, Typed, TopFrame DEF IInv, Nested
<1>2. /\ frames' \in Seq(Frame) /\ Len(frames') = Len(frames) - 1
      /\ DOMAIN frames' = 1..(Len(frames) - 1)
      /\ \A f \in DOMAIN frames' :
           f \in DOMAIN frames /\ f # Len(frames) /\ frames'[f] = frames[f]
      /\ \A f \in DOMAIN frames : f # Len(frames) => f \in DOMAIN frames'
      /\ frames' = <<>> <=> Len(frames) = 1
  <2> HIDE DEF Frame
  <2>1. frames' = SubSeq(frames, 1, Len(frames) - 1) /\ Len(frames) > 0
    BY <1>0, <1>1 DEF Front
  <2> QED
    BY <1>1, <2>1, LastDropped
<1>3. TypeOK'
  BY <1>0, <1>1, <1>2 DEF IInv, TypeOK, Frame
<1>4. Nested'
  <2>1. Len(frames') <= MaxDepth
    BY <1>1, <1>2
  <2> QED
    BY <1>0, <1>1, <1>2, <2>1 DEF IInv, Nested, NULL
<1>5. Linked'
  BY <1>0 DEF IInv, Linked
<1>6. Counted'
  <2>1. \A i \in Ids : CallsOf(i)' = CallsOf(i)
    BY <1>1, <1>2 DEF CallsOf
  <2> QED
    BY <1>0, <2>1 DEF IInv, Counted
<1>7. Meant' /\ SleepsInTime'
  BY <1>0, <1>1 DEF IInv, Meant, SleepsInTime, At, Sec
<1> QED
  BY <1>3, <1>4, <1>5, <1>6, <1>7 DEF IInv

(* The innermost call moves on or starts or ends a callback, the others    *)
(* stay where they are.                                                    *)
LEMMA TopMoved ==
  ASSUME IInv, frames # <<>>, NEW f \in Frame, SetTop(f), phase' = phase,
         f.te \in Range(timeEvents') \cup {NULL}, f.calling => f.te # NULL,
         \A g \in DOMAIN frames :
           g # Len(frames) => frames[g].te \in Range(timeEvents') \cup {NULL}
  PROVE  /\ frames' \in Seq(Frame) /\ Nested' /\ phase = "walk"
         /\ \A i \in Ids :
              CallsOf(i)' = (CallsOf(i) \ {Len(frames)}) \cup
                            (IF f.calling /\ f.te = i THEN {Len(frames)} ELSE {})
<1>1. /\ frames \in Seq(Frame) /\ Len(frames) \in DOMAIN frames
      /\ frames' \in Seq(Frame) /\ Len(frames') = Len(frames)
      /\ DOMAIN frames' = DOMAIN frames /\ frames' # <<>>
      /\ \A g \in DOMAIN frames :
           frames'[g] = IF g = Len(frames) THEN f ELSE frames[g]
  <2>1. frames \in Seq(Frame) /\ Len(frames) \in Nat \ {0}
    <3>1. frames \in Seq(Frame)
      BY Typed
    <3> HIDE DEF Frame
    <3> QED
      BY <3>1
  <2>2. /\ Len(frames) \in DOMAIN frames
        /\ frames' \in Seq(Frame) /\ Len(frames') = Len(frames)
        /\ DOMAIN frames' = DOMAIN frames
        /\ \A g \in DOMAIN frames :
             frames'[g] = IF g = Len(frames) THEN f ELSE frames[g]
    BY <2>1, TopFrame
  <2>3. frames' # <<>>
    <3> HIDE DEF Frame
    <3> QED
      BY <2>1, <2>2
  <2> QED
    BY <2>1, <2>2, <2>3
<1>2. phase = "walk"
  BY DEF IInv, Nested
<1>3. Nested'
  <2>1. ASSUME NEW g \in DOMAIN frames'
        PROVE  /\ frames'[g].te \in Range(timeEvents') \cup {NULL}
               /\ g # Len(frames') => frames'[g].calling
               /\ frames'[g].calling => frames'[g].te # NULL
    BY <1>1 DEF IInv, Nested
  <2> QED
    BY <1>1, <1>2, <2>1 DEF IInv, Nested, NULL
<1>4. ASSUME NEW i \in Ids
      PROVE  CallsOf(i)' = (CallsOf(i) \ {Len(frames)}) \cup
                           (IF f.calling /\ f.te = i THEN {Len(frames)} ELSE {})
  <2>1. \A g : g \in CallsOf(i)' <=>
          g \in DOMAIN frames /\ frames'[g].calling /\ frames'[g].te = i
    BY <1>1 DEF CallsOf
  <2>2. \A g : g \in CallsOf(i) <=>
          g \in DOMAIN frames /\ frames[g].calling /\ frames[g].te = i
    BY DEF CallsOf
  <2>3. CASE f.calling /\ f.te = i
    BY <1>1, <2>1, <2>2, <2>3
  <2>4. CASE ~(f.calling /\ f.te = i)
    BY <1>1, <2>1, <2>2, <2>4
  <2> QED
    BY <2>3, <2>4
<1> QED
  BY <1>1, <1>2, <1>3, <1>4

(* The timer the innermost call stands on.                                 *)
LEMMA TopTimer ==
  ASSUME IInv, frames # <<>>, Top.te # NULL
  PROVE  /\ Top \in Frame /\ Top = frames[Len(frames)] /\ Len(frames) \in DOMAIN frames
         /\ Top.te \in Range(timeEvents) /\ Top.te \in Ids
         /\ NextOf(Top.te) \in (Range(timeEvents) \ {Top.te}) \cup {NULL}
         /\ NextOf(Top.te) \in Ids \cup {NULL}
         /\ [Top EXCEPT !.te = NextOf(Top.te)] \in Frame
         /\ [Top EXCEPT !.te = NextOf(Top.te), !.calling = FALSE] \in Frame
         /\ [Top EXCEPT !.calling = TRUE] \in Frame
<1>1. Top \in Frame /\ Top = frames[Len(frames)] /\ Len(frames) \in DOMAIN frames
  BY Typed, TopFrame
<1>2. Top.te \in Range(timeEvents) /\ Top.te \in Ids
  BY <1>1, Typed DEF IInv, Nested
<1>3. /\ NextOf(Top.te) \in (Range(timeEvents) \ {Top.te}) \cup {NULL}
      /\ NextOf(Top.te) \in Ids \cup {NULL}
  BY <1>2, NextTimer
<1>4. /\ [Top EXCEPT !.te = NextOf(Top.te)] \in Frame
      /\ [Top EXCEPT !.te = NextOf(Top.te), !.calling = FALSE] \in Frame
      /\ [Top EXCEPT !.calling = TRUE] \in Frame
  BY <1>1, <1>3 DEF Frame
<1> QED
  BY <1>1, <1>2, <1>3, <1>4

(* A deleted timer nobody uses leaves the list: no call stands on it, the  *)
(* innermost one goes on to its successor.                                 *)
LEMMA RemoveIInv ==
  ASSUME IInv, removeDeleted
  PROVE  IInv'
<1> DEFINE i == Top.te
           f == [Top EXCEPT !.te = NextOf(Top.te)]
<1>0. /\ frames # <<>> /\ ~Top.calling /\ i # NULL /\ refcount[i] = 0
      /\ timeEvents' = RemoveAt(timeEvents, PlaceOf(i))
      /\ finalized' = [finalized EXCEPT ![i] = @ + 1]
      /\ SetTop(f)
      /\ UNCHANGED <<now, back, lastTime, nextId, when_sec, when_ms, refcount, deleted,
                     asked, phase, timeout, late>>
  BY DEF removeDeleted, Walking, Removable, clock, sleep
<1>1. /\ i \in Range(timeEvents) /\ i \in Ids /\ f \in Frame
      /\ f.te \in (Range(timeEvents) \ {i}) \cup {NULL} /\ f.calling = FALSE
      /\ Len(frames) \in DOMAIN frames /\ Top = frames[Len(frames)]
  <2>1. /\ i \in Range(timeEvents) /\ i \in Ids /\ f \in Frame /\ Top \in Frame
        /\ NextOf(i) \in (Range(timeEvents) \ {i}) \cup {NULL}
        /\ Len(frames) \in DOMAIN frames /\ Top = frames[Len(frames)]
    BY <1>0, TopTimer
  <2>2. f.te = NextOf(i) /\ f.calling = Top.calling
    BY <2>1 DEF Frame
  <2>3. Top.calling \in BOOLEAN
    BY <2>1 DEF Frame
  <2> QED
    BY <1>0, <2>1, <2>2, <2>3
<1> HIDE DEF i, f
<1>2. \A g \in DOMAIN frames : g # Len(frames) => frames[g].te # i
  <2>1. CallsOf(i) = {}
    BY <1>0, <1>1, CallsFinite, FS_EmptySet DEF IInv, Counted
  <2> QED
    BY <2>1 DEF IInv, Nested, CallsOf
<1>3. /\ timeEvents' \in Seq(Ids)
      /\ \A p \in DOMAIN timeEvents' :
           \/ p < PlaceOf(i) /\ p \in DOMAIN timeEvents /\ timeEvents'[p] = timeEvents[p]
           \/ /\ p >= PlaceOf(i) /\ p \in Int /\ p + 1 \in DOMAIN timeEvents
              /\ timeEvents'[p] = timeEvents[p + 1]
      /\ \A p \in DOMAIN timeEvents :
           \/ p = PlaceOf(i)
           \/ p < PlaceOf(i) /\ p \in DOMAIN timeEvents' /\ timeEvents'[p] = timeEvents[p]
           \/ p > PlaceOf(i) /\ p - 1 \in DOMAIN timeEvents' /\ timeEvents'[p - 1] = timeEvents[p]
      /\ PlaceOf(i) \in DOMAIN timeEvents /\ timeEvents[PlaceOf(i)] = i
      /\ PlaceOf(i) \in Int
  <2>1. PlaceOf(i) \in DOMAIN timeEvents /\ timeEvents[PlaceOf(i)] = i
    BY <1>1, NextTimer
  <2>2. timeEvents \in Seq(Ids)
    BY Typed
  <2> QED
    BY <1>0, <2>1, <2>2, Removed
<1>4. /\ \A j \in Range(timeEvents) : j # i => j \in Range(timeEvents')
      /\ \A p \in DOMAIN timeEvents' : timeEvents'[p] # i
      /\ \A p \in DOMAIN timeEvents' : timeEvents'[p] \in Range(timeEvents)
  <2>1. \A j \in Range(timeEvents) : j # i => j \in Range(timeEvents')
    BY <1>3 DEF Range
  <2>2. ASSUME NEW p \in DOMAIN timeEvents'
        PROVE  timeEvents'[p] # i /\ timeEvents'[p] \in Range(timeEvents)
    <3>1. PICK q \in DOMAIN timeEvents : q # PlaceOf(i) /\ timeEvents'[p] = timeEvents[q]
      BY <1>3
    <3> QED
      BY <1>3, <3>1 DEF IInv, Linked, Range
  <2> QED
    BY <2>1, <2>2
<1>5. /\ frames' \in Seq(Frame) /\ Nested' /\ phase = "walk"
      /\ \A j \in Ids : CallsOf(j)' = CallsOf(j) \ {Len(frames)}
  <2>1. /\ f.te \in Range(timeEvents') \cup {NULL}
        /\ \A g \in DOMAIN frames :
             g # Len(frames) => frames[g].te \in Range(timeEvents') \cup {NULL}
    BY <1>1, <1>2, <1>4 DEF IInv, Nested
  <2>2. /\ frames' \in Seq(Frame) /\ Nested' /\ phase = "walk"
        /\ \A j \in Ids :
             CallsOf(j)' = (CallsOf(j) \ {Len(frames)}) \cup
                           (IF f.calling /\ f.te = j THEN {Len(frames)} ELSE {})
    BY <1>0, <1>1, <2>1, TopMoved
  <2> QED
    BY <1>1, <2>2
<1>6. \A p \in DOMAIN timeEvents : finalized[timeEvents[p]] = 0
  BY DEF IInv, Linked
<1>7. /\ finalized[i] = 0 /\ finalized' \in [Ids -> 0..1]
      /\ \A j \in Ids : j # i => finalized'[j] = finalized[j]
  <2>1. finalized[i] = 0
    BY <1>3, <1>6
  <2> QED
    BY <1>0, <1>1, <2>1 DEF IInv, TypeOK
<1>8. TypeOK'
  BY <1>0, <1>3, <1>5, <1>7 DEF IInv, TypeOK, Frame
<1>9. Linked'
  <2>1. \A p \in DOMAIN timeEvents' :
          timeEvents'[p] < nextId /\ finalized'[timeEvents'[p]] = 0
    <3> SUFFICES ASSUME NEW p \in DOMAIN timeEvents'
                 PROVE  timeEvents'[p] < nextId /\ finalized'[timeEvents'[p]] = 0
      OBVIOUS
    <3>1. PICK q \in DOMAIN timeEvents : timeEvents'[p] = timeEvents[q]
      BY <1>4 DEF Range
    <3>2. timeEvents[q] # i /\ timeEvents[q] \in Ids
      BY <1>4, <3>1, Typed
    <3> QED
      BY <1>7, <3>1, <3>2 DEF IInv, Linked
  <2>2. ASSUME NEW p \in DOMAIN timeEvents', NEW q \in DOMAIN timeEvents',
               timeEvents'[p] = timeEvents'[q]
        PROVE  p = q
    <3>1. /\ p \in Int /\ q \in Int
          /\ \/ p < PlaceOf(i) /\ p \in DOMAIN timeEvents /\ timeEvents'[p] = timeEvents[p]
             \/ /\ p >= PlaceOf(i) /\ p + 1 \in DOMAIN timeEvents
                /\ timeEvents'[p] = timeEvents[p + 1]
          /\ \/ q < PlaceOf(i) /\ q \in DOMAIN timeEvents /\ timeEvents'[q] = timeEvents[q]
             \/ /\ q >= PlaceOf(i) /\ q + 1 \in DOMAIN timeEvents
                /\ timeEvents'[q] = timeEvents[q + 1]
      BY <1>3
    <3>2. \A x, y \in DOMAIN timeEvents : timeEvents[x] = timeEvents[y] => x = y
      BY DEF IInv, Linked
    <3> QED
      BY <1>3, <2>2, <3>1, <3>2
  <2>3. ASSUME NEW j \in Ids, j >= nextId
        PROVE  finalized'[j] = 0
    <3>1. i < nextId /\ i \in Nat /\ j \in Nat /\ nextId \in Nat
      BY <1>1, <1>3, Typed DEF IInv, Linked
    <3> QED
      BY <1>7, <2>3, <3>1 DEF IInv, Linked
  <2> QED
    BY <1>0, <2>1, <2>2, <2>3 DEF Linked
<1>10. Counted'
  <2>1. \A j \in Ids : Len(frames) \notin CallsOf(j)
    BY <1>0, <1>1 DEF CallsOf
  <2>2. \A j \in Ids : CallsOf(j)' = CallsOf(j)
    BY <1>5, <2>1
  <2> QED
    BY <1>0, <2>2 DEF IInv, Counted
<1>11. Meant' /\ SleepsInTime'
  BY <1>0, <1>5 DEF IInv, Meant, SleepsInTime, At, Sec
<1> QED
  BY <1>5, <1>8, <1>9, <1>10, <1>11 DEF IInv

(* A walk passes over a timer.                                             *)
LEMMA SkipIInv ==
  ASSUME IInv, skip
  PROVE  IInv'
<1> DEFINE f == [Top EXCEPT !.te = NextOf(Top.te)]
<1>0. /\ frames # <<>> /\ ~Top.calling /\ Top.te # NULL /\ SetTop(f)
      /\ UNCHANGED <<now, back, lastTime, timeEvents, nextId, when_sec, when_ms, refcount,
                     deleted, asked, finalized, phase, timeout, late>>
  BY DEF skip, Walking, clock, sleep, timers
<1>1. /\ f \in Frame /\ f.te \in Range(timeEvents) \cup {NULL} /\ f.calling = FALSE
      /\ Top = frames[Len(frames)]
  <2>1. /\ f \in Frame /\ Top \in Frame /\ Top = frames[Len(frames)]
        /\ NextOf(Top.te) \in Range(timeEvents) \cup {NULL}
    BY <1>0, TopTimer
  <2>2. f.te = NextOf(Top.te) /\ f.calling = Top.calling /\ Top.calling \in BOOLEAN
    BY <2>1 DEF Frame
  <2> QED
    BY <1>0, <2>1, <2>2
<1> HIDE DEF f
<1>2. /\ frames' \in Seq(Frame) /\ Nested' /\ phase = "walk"
      /\ \A j \in Ids : CallsOf(j)' = CallsOf(j) \ {Len(frames)}
  <2>1. \A g \in DOMAIN frames : frames[g].te \in Range(timeEvents') \cup {NULL}
    BY <1>0 DEF IInv, Nested
  <2>2. /\ frames' \in Seq(Frame) /\ Nested' /\ phase = "walk"
        /\ \A j \in Ids :
             CallsOf(j)' = (CallsOf(j) \ {Len(frames)}) \cup
                           (IF f.calling /\ f.te = j THEN {Len(frames)} ELSE {})
    BY <1>0, <1>1, <2>1, TopMoved
  <2> QED
    BY <1>1, <2>2
<1>3. TypeOK'
  BY <1>0, <1>2 DEF IInv, TypeOK, Frame
<1>4. Linked'
  BY <1>0 DEF IInv, Linked
<1>5. Counted'
  <2>1. \A j \in Ids : Len(frames) \notin CallsOf(j)
    BY <1>0, <1>1 DEF CallsOf
  <2>2. \A j \in Ids : CallsOf(j)' = CallsOf(j)
    BY <1>2, <2>1
  <2> QED
    BY <1>0, <2>2 DEF IInv, Counted
<1>6. Meant' /\ SleepsInTime'
  BY <1>0, <1>2 DEF IInv, Meant, SleepsInTime, At, Sec
<1> QED
  BY <1>2, <1>3, <1>4, <1>5, <1>6 DEF IInv

(* A callback starts: one more call runs it, and there are never more than *)
(* calls under way.                                                        *)
LEMMA CallIInv ==
  ASSUME IInv, callTimeProc
  PROVE  IInv'
<1> DEFINE f == [Top EXCEPT !.calling = TRUE]
           n == Len(frames)
<1>01. PICK i \in Ids : i = Top.te
  BY TopTimer DEF callTimeProc, Walking
<1>0. /\ frames # <<>> /\ ~Top.calling /\ Top.te # NULL /\ SetTop(f)
      /\ refcount' = [refcount EXCEPT ![i] = @ + 1]
      /\ UNCHANGED <<now, back, lastTime, timeEvents, nextId, when_sec, when_ms,
                     deleted, asked, finalized, phase, timeout, late>>
  BY <1>01 DEF callTimeProc, Walking, clock, sleep
<1>1. /\ f \in Frame /\ i \in Ids /\ f.te = i /\ i # NULL /\ f.calling /\ i \in Range(timeEvents)
      /\ n \in DOMAIN frames /\ Top = frames[n]
  <2>1. f \in Frame /\ Top \in Frame /\ i = Top.te /\ i \in Range(timeEvents)
        /\ n \in DOMAIN frames /\ Top = frames[n]
    BY <1>01, <1>0, TopTimer
  <2> QED
    BY <1>01, <1>0, <2>1 DEF Frame
<1> HIDE DEF f
<1>2. /\ frames' \in Seq(Frame) /\ Nested' /\ phase = "walk"
      /\ \A j \in Ids : CallsOf(j)' = (CallsOf(j) \ {n}) \cup (IF i = j THEN {n} ELSE {})
  <2>1. \A g \in DOMAIN frames : frames[g].te \in Range(timeEvents') \cup {NULL}
    BY <1>0 DEF IInv, Nested
  <2>2. /\ frames' \in Seq(Frame) /\ Nested' /\ phase = "walk"
        /\ \A j \in Ids :
             CallsOf(j)' = (CallsOf(j) \ {n}) \cup
                           (IF f.calling /\ f.te = j THEN {n} ELSE {})
    BY <1>0, <1>1, <2>1, TopMoved
  <2> QED
    BY <1>1, <2>2
<1>3. \A j \in Ids : n \notin CallsOf(j)
  BY <1>0, <1>1 DEF CallsOf
<1>4. /\ CallsOf(i)' = CallsOf(i) \cup {n}
      /\ \A j \in Ids : j # i => CallsOf(j)' = CallsOf(j)
  <2>1. CallsOf(i)' = CallsOf(i) \cup {n}
    BY <1>2, <1>3
  <2>2. ASSUME NEW j \in Ids, j # i
        PROVE  CallsOf(j)' = CallsOf(j)
    BY <1>2, <1>3, <2>2
  <2> QED
    BY <2>1, <2>2
<1>5. /\ Cardinality(CallsOf(i)') = Cardinality(CallsOf(i)) + 1
      /\ Cardinality(CallsOf(i)) \in Nat /\ Cardinality(CallsOf(i)) + 1 <= MaxDepth
  <2>1. /\ IsFiniteSet(CallsOf(i)) /\ Cardinality(CallsOf(i)) \in Nat
        /\ CallsOf(i) \subseteq 1..n
    BY <1>1, CallsFinite
  <2>2. Cardinality(CallsOf(i)') = Cardinality(CallsOf(i)) + 1
    BY <1>1, <1>3, <1>4, <2>1, FS_AddElement
  <2>3. CallsOf(i)' \in SUBSET (1..n) /\ n \in Nat /\ n <= MaxDepth
    BY <1>1, <1>4, <2>1, Typed
  <2>4. Cardinality(CallsOf(i)') <= n
    BY <2>3, FirstNaturals, FS_Subset
  <2> QED
    BY <2>1, <2>2, <2>3, <2>4, Typed
<1>6. /\ refcount[i] = Cardinality(CallsOf(i)) /\ refcount' \in [Ids -> 0..MaxDepth]
      /\ \A j \in Ids : refcount'[j] = IF j = i THEN refcount[i] + 1 ELSE refcount[j]
  <2>1. refcount[i] = Cardinality(CallsOf(i)) /\ refcount \in [Ids -> 0..MaxDepth]
    BY <1>1 DEF IInv, Counted, TypeOK
  <2>2. refcount[i] + 1 \in 0..MaxDepth
    BY <1>5, <2>1, Typed
  <2> QED
    BY <1>0, <1>1, <2>1, <2>2
<1>7. TypeOK'
  BY <1>0, <1>2, <1>6 DEF IInv, TypeOK, Frame
<1>8. Linked'
  BY <1>0 DEF IInv, Linked
<1>9. Counted'
  BY <1>4, <1>5, <1>6 DEF IInv, Counted
<1>10. Meant' /\ SleepsInTime'
  BY <1>0, <1>2 DEF IInv, Meant, SleepsInTime, At, Sec
<1> QED
  BY <1>2, <1>7, <1>8, <1>9, <1>10 DEF IInv

(* A callback returns: its call was counted, and its timer is still there  *)
(* to be rearmed and followed to its successor.                            *)
LEMMA ReturnIInv ==
  ASSUME IInv, timeProcReturns
  PROVE  IInv'
<1> DEFINE f == [Top EXCEPT !.te = NextOf(Top.te), !.calling = FALSE]
           n == Len(frames)
<1>02. Top.te # NULL /\ Top.te \in Ids
  <2>1. frames # <<>> /\ Top.calling
    BY DEF timeProcReturns
  <2>2. Top.te # NULL
    BY <2>1, TopFrame, Typed DEF IInv, Nested
  <2> QED
    BY <2>1, <2>2, TopTimer
<1>01. PICK i \in Ids : i = Top.te
  BY <1>02
<1>0. /\ frames # <<>> /\ Top.calling /\ SetTop(f)
      /\ refcount' = [refcount EXCEPT ![i] = @ - 1]
      /\ rearm(i) \/ noMore(i)
      /\ UNCHANGED <<now, back, lastTime, timeEvents, nextId, finalized, phase, timeout, late>>
  BY <1>01 DEF timeProcReturns, release, clock, sleep
<1>1. /\ f \in Frame /\ i \in Ids /\ f.te \in Range(timeEvents) \cup {NULL}
      /\ f.calling = FALSE /\ n \in DOMAIN frames /\ n \in CallsOf(i)
  <2>1. /\ f \in Frame /\ Top \in Frame /\ i = Top.te
        /\ NextOf(i) \in Range(timeEvents) \cup {NULL}
        /\ n \in DOMAIN frames /\ Top = frames[n]
    BY <1>01, <1>02, <1>0, TopTimer
  <2>2. f.te = NextOf(i) /\ f.calling = FALSE
    BY <2>1 DEF Frame
  <2>3. n \in CallsOf(i)
    BY <1>0, <2>1 DEF CallsOf
  <2> QED
    BY <2>1, <2>2, <2>3
<1>2. \A j \in Ids : j # i => n \notin CallsOf(j)
  BY <1>01, <1>0, TopFrame, Typed DEF CallsOf
<1> HIDE DEF f
<1>3. /\ frames' \in Seq(Frame) /\ Nested' /\ phase = "walk"
      /\ \A j \in Ids : CallsOf(j)' = CallsOf(j) \ {n}
  <2>1. \A g \in DOMAIN frames : frames[g].te \in Range(timeEvents') \cup {NULL}
    BY <1>0 DEF IInv, Nested
  <2>2. /\ frames' \in Seq(Frame) /\ Nested' /\ phase = "walk"
        /\ \A j \in Ids :
             CallsOf(j)' = (CallsOf(j) \ {n}) \cup
                           (IF f.calling /\ f.te = j THEN {n} ELSE {})
    BY <1>0, <1>1, <2>1, TopMoved
  <2> QED
    BY <1>1, <2>2
<1>4. /\ Cardinality(CallsOf(i)') = Cardinality(CallsOf(i)) - 1
      /\ Cardinality(CallsOf(i)) \in Nat /\ Cardinality(CallsOf(i)) - 1 \in Nat
  <2>1. IsFiniteSet(CallsOf(i)) /\ Cardinality(CallsOf(i)) \in Nat
    BY <1>1, CallsFinite
  <2>2. Cardinality(CallsOf(i)) # 0
    BY <1>1, <2>1, FS_EmptySet
  <2>3. CallsOf(i)' = CallsOf(i) \ {n}
    BY <1>1, <1>3
  <2>4. Cardinality(CallsOf(i)') = Cardinality(CallsOf(i)) - 1
    <3> DEFINE S == CallsOf(i)
    <3>1. IsFiniteSet(S) /\ n \in S
      BY <1>1, <2>1
    <3> HIDE DEF S
    <3>2. Cardinality(S \ {n}) = Cardinality(S) - 1
      BY <3>1, FS_RemoveElement
    <3> QED
      BY <2>3, <3>2 DEF S
  <2> QED
    BY <2>1, <2>2, <2>4
<1>5. /\ refcount[i] = Cardinality(CallsOf(i)) /\ refcount' \in [Ids -> 0..MaxDepth]
      /\ \A j \in Ids : refcount'[j] = IF j = i THEN refcount[i] - 1 ELSE refcount[j]
  <2>1. refcount[i] = Cardinality(CallsOf(i)) /\ refcount \in [Ids -> 0..MaxDepth]
    BY <1>1 DEF IInv, Counted, TypeOK
  <2>2. refcount[i] - 1 \in 0..MaxDepth
    BY <1>1, <1>4, <2>1, Typed
  <2> QED
    BY <1>0, <1>1, <2>1, <2>2
<1>6. /\ deleted' \subseteq Ids
      /\ when_sec' \in [Ids -> 0..Sec(MaxTime)] /\ when_ms' \in [Ids -> 0..(MsPerSec - 1)]
      /\ asked' \in [Ids -> 0..MaxTime]
      /\ \A j \in Ids : /\ asked'[j] <= At(j)' /\ At(j)' <= MaxTime
                        /\ back = 0 => asked'[j] = At(j)'
  <2>0. /\ deleted \subseteq Ids
        /\ when_sec \in [Ids -> 0..Sec(MaxTime)] /\ when_ms \in [Ids -> 0..(MsPerSec - 1)]
        /\ asked \in [Ids -> 0..MaxTime]
        /\ \A j \in Ids : /\ asked[j] <= At(j) /\ At(j) <= MaxTime
                          /\ back = 0 => asked[j] = At(j)
    BY DEF IInv, TypeOK, Meant
  <2>1. CASE noMore(i)
    BY <1>1, <2>0, <2>1 DEF noMore, At
  <2>2. CASE rearm(i)
    <3>1. PICK d \in Delays : now + d <= MaxTime /\ addMillisecondsToNow(i, d)
      BY <2>2 DEF rearm
    <3>2. /\ when_sec' \in [Ids -> 0..Sec(MaxTime)] /\ when_ms' \in [Ids -> 0..(MsPerSec - 1)]
          /\ asked' \in [Ids -> 0..MaxTime]
          /\ asked'[i] = now + d /\ when_sec'[i] * MsPerSec + when_ms'[i] = now + d
          /\ \A j \in Ids : j # i => /\ when_sec'[j] = when_sec[j]
                                     /\ when_ms'[j] = when_ms[j] /\ asked'[j] = asked[j]
      BY <1>1, <3>1, Rearmed
    <3>3. /\ asked'[i] <= At(i)' /\ At(i)' <= MaxTime /\ asked'[i] = At(i)'
      BY <3>1, <3>2, Typed, TimeEventsAssumption DEF At
    <3>4. \A j \in Ids : j # i => asked'[j] = asked[j] /\ At(j)' = At(j)
      BY <3>2 DEF At
    <3> QED
      BY <2>0, <2>2, <3>2, <3>3, <3>4 DEF rearm
  <2> QED
    BY <1>0, <2>1, <2>2
<1>7. TypeOK'
  BY <1>0, <1>3, <1>5, <1>6 DEF IInv, TypeOK, Frame
<1>8. Linked'
  BY <1>0 DEF IInv, Linked
<1>9. Counted'
  <2>1. \A j \in Ids : j # i => CallsOf(j)' = CallsOf(j)
    BY <1>2, <1>3
  <2> QED
    BY <1>4, <1>5, <2>1 DEF IInv, Counted
<1>10. Meant' /\ SleepsInTime'
  BY <1>0, <1>3, <1>6 DEF IInv, Meant, SleepsInTime, Sec
<1> QED
  BY <1>3, <1>7, <1>8, <1>9, <1>10 DEF IInv

(* Nothing changes.                                                        *)
LEMMA StutterIInv ==
  ASSUME IInv, UNCHANGED vars
  PROVE  IInv'
<1>1. UNCHANGED <<now, back, lastTime, timeEvents, nextId, when_sec, when_ms, refcount,
                  deleted, asked, finalized, frames, phase, timeout, late>>
  BY DEF vars, clock, sleep, timers
<1>2. TypeOK'
  BY <1>1 DEF IInv, TypeOK
<1>3. Nested' /\ Linked' /\ Counted'
  BY <1>1, TimersKept
<1>4. Meant' /\ SleepsInTime'
  BY <1>1 DEF IInv, Meant, SleepsInTime, At, Sec, Live
<1> QED
  BY <1>2, <1>3, <1>4 DEF IInv

(* Every step of the loop, of a handler and of the clock keeps the         *)
(* invariant.                                                              *)
LEMMA NextIInv == IInv /\ [Next]_vars => IInv'
<1> SUFFICES ASSUME IInv, [Next]_vars
             PROVE  IInv'
  OBVIOUS
<1>1. CASE searchTimeout \/ eventPoll \/ wakeUp
  BY <1>1, PollIInv
<1>2. CASE processTimeEvents
  BY <1>2, EnterIInv
<1>3. CASE walkEnds \/ removeDeleted \/ skip
  BY <1>3, WalkEndsIInv, RemoveIInv, SkipIInv
<1>4. CASE callTimeProc \/ timeProcReturns
  BY <1>4, CallIInv, ReturnIInv
<1>5. CASE createTimeEvent
  BY <1>5, CreateIInv
<1>6. CASE tick \/ setBack
  BY <1>6, ClockIInv
<1>7. CASE UNCHANGED vars
  BY <1>7, StutterIInv
<1> QED
  BY <1>1, <1>2, <1>3, <1>4, <1>5, <1>6, <1>7 DEF Next, Loop

-----------------------------------------------------------------------------
(* The inductive invariant of the timers.                                  *)
THEOREM InvariantIInv == Spec => []IInv
<1> QED
  BY InitIInv, NextIInv, PTL DEF Spec

(* No walk of processTimeEvents() stands on a freed timer, however deep    *)
(* callbacks and walks nest.                                               *)
THEOREM WalksLive == Spec => []FramesLive
<1>1. IInv => FramesLive
  BY DEF IInv, Nested, FramesLive
<1> QED
  BY <1>1, InvariantIInv, PTL

(* processEvents() sleeps past the time a wanted timer is due by no more    *)
(* than beforeSleep() took, and not at all if the timer was due when the   *)
(* timeout was computed.                                                   *)
THEOREM SleepsBounded == Spec => []SleepsInTime
<1>1. IInv => SleepsInTime
  BY DEF IInv
<1> QED
  BY <1>1, InvariantIInv, PTL

(* No callback runs before its time or after its timer was told off.       *)
THEOREM CallbacksRight == Spec => CallsRight
<1>1. ASSUME IInv, callTimeProc
      PROVE  now >= asked[Top.te] /\ Top.te \notin deleted
  <2> DEFINE i == Top.te
  <2>1. /\ frames # <<>> /\ i # NULL /\ i \notin deleted /\ Due(i)
    BY <1>1 DEF callTimeProc, Walking, Callable
  <2>2. i \in Ids
    BY <1>1, <2>1, TopTimer
  <2> HIDE DEF i
  <2>3. /\ when_sec[i] \in Nat /\ when_ms[i] \in 0..(MsPerSec - 1) /\ At(i) \in Nat
        /\ Sec(now) \in Nat /\ Ms(now) \in 0..(MsPerSec - 1)
        /\ Sec(now) * MsPerSec + Ms(now) = now
        /\ now \in Nat /\ MsPerSec \in Nat \ {0}
    BY <1>1, <2>2, SoonerIsEarlier, Typed, Seconds
  <2>4. At(i) <= now
    <3>1. CASE Sec(now) > when_sec[i]
      <4> DEFINE a == when_sec[i]
                 b == Sec(now)
                 x == when_ms[i]
                 y == Ms(now)
      <4>1. a \in Int /\ b \in Int /\ a < b /\ x \in 0..(MsPerSec - 1) /\ y \in 0..(MsPerSec - 1)
        BY <2>3, <3>1
      <4> HIDE DEF a, b, x, y
      <4>2. a * MsPerSec + x < b * MsPerSec + y
        BY <2>3, <4>1, SecondsFirst
      <4> QED
        BY <2>3, <4>2 DEF a, b, x, y, At
    <3>2. CASE Sec(now) = when_sec[i] /\ Ms(now) >= when_ms[i]
      BY <2>3, <3>2 DEF At
    <3> QED
      BY <2>1, <3>1, <3>2 DEF Due
  <2>5. asked[i] <= At(i) /\ asked[i] \in Int
    BY <1>1, <2>2 DEF IInv, Meant, TypeOK
  <2>6. now >= asked[i]
    BY <2>3, <2>4, <2>5
  <2> QED
    BY <2>1, <2>6 DEF i
<1>2. IInv /\ [Next]_vars => [callTimeProc => now >= asked[Top.te] /\ Top.te \notin deleted]_vars
  BY <1>1
<1> QED
  BY <1>2, InvariantIInv, PTL DEF Spec, CallsRight
=============================================================================
