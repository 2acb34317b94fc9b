------------------------------ MODULE TimeEvents ------------------------------
(***************************************************************************)
(* The timers of event.c: the list of time events, the sleep their nearest *)
(* one limits, and the walk of processTimeEvents() during whose callbacks  *)
(* timers are created and the event loop may be entered again.             *)
(*                                                                         *)
(* Time passes in milliseconds, of which MsPerSec make a second; the clock *)
(* may be set back.                                                        *)
(***************************************************************************)
EXTENDS Integers, Sequences, SequencesExt

CONSTANTS
  MaxTimers,     \* bound on the timers ever created
  Delays,        \* milliseconds a timer is created with or asks for again
  MsPerSec,
  MaxTime,       \* bound on the clock
  MaxDepth,      \* bound on the nesting of processTimeEvents()
  MaxBack        \* bound on how often the clock is set back

ASSUME TimeEventsAssumption ==
  /\ MaxTimers \in Nat /\ Delays \subseteq Nat /\ MaxTime \in Nat
  /\ MsPerSec \in Nat \ {0} /\ MaxDepth \in Nat \ {0} /\ MaxBack \in Nat

Ids == 0..(MaxTimers - 1)
NULL == -1
Forever == -1

VARIABLES
  now, back,     \* the clock, and how often it was set back
  lastTime,      \* el->lastTime, in seconds
  timeEvents,    \* the timers from el->timeEventHead on, by their first id
  nextId,        \* el->timeEventNextId
  when_sec, when_ms, refcount,
  deleted,       \* timers whose id is EVENT_DELETED_EVENT_ID
  asked,         \* the time each timer was meant for
  finalized,     \* how often a timer was finalized and freed
  frames,        \* the calls of processTimeEvents() under way: te, maxId and
                 \* whether te's callback is running
  phase,         \* where processEvents() is
  timeout,       \* the sleep it computed; asleep, what is left of it
  late           \* the time beforeSleep() took after that

clock == <<now, back>>
timers == <<timeEvents, nextId, when_sec, when_ms, refcount, deleted, asked, finalized>>
sleep == <<timeout, late>>
vars == <<clock, lastTime, timers, frames, phase, sleep>>

Init ==
  /\ now = 0 /\ back = 0 /\ lastTime = 0
  /\ timeEvents = <<>> /\ nextId = 0
  /\ when_sec = [i \in Ids |-> 0] /\ when_ms = when_sec /\ asked = when_sec
  /\ refcount = when_sec /\ finalized = when_sec /\ deleted = {}
  /\ frames = <<>> /\ phase = "poll" /\ timeout = Forever /\ late = 0

Sec(t) == t \div MsPerSec
Ms(t) == t % MsPerSec
Live == Range(timeEvents) \ deleted
Top == Last(frames)
SetTop(f) == frames' = [frames EXCEPT ![Len(frames)] = f]

\* The place of a timer in the list, and te->next.
PlaceOf(i) == CHOOSE p \in DOMAIN timeEvents : timeEvents[p] = i
NextOf(i) ==
  IF PlaceOf(i) < Len(timeEvents) THEN timeEvents[PlaceOf(i) + 1] ELSE NULL

\* addMillisecondsToNow() for timer i.
addMillisecondsToNow(i, d) ==
  LET ms == Ms(now) + (d % MsPerSec)
      carry == IF ms >= MsPerSec THEN 1 ELSE 0
  IN /\ when_sec' = [when_sec EXCEPT ![i] = Sec(now) + (d \div MsPerSec) + carry]
     /\ when_ms' = [when_ms EXCEPT ![i] = ms - carry * MsPerSec]
     /\ asked' = [asked EXCEPT ![i] = now + d]

-----------------------------------------------------------------------------
(* Creating timers: before the loop, in a handler or in a callback.        *)

createTimeEvent ==
  /\ phase \in {"poll", "handlers"} \/ (frames # <<>> /\ Top.calling)
  /\ nextId < MaxTimers
  /\ \E d \in Delays : now + d <= MaxTime /\ addMillisecondsToNow(nextId, d)
  /\ timeEvents' = <<nextId>> \o timeEvents
  /\ nextId' = nextId + 1
  /\ UNCHANGED <<refcount, deleted, finalized, clock, lastTime, frames, phase, sleep>>

-----------------------------------------------------------------------------
(* processEvents(): sleeping until the nearest timer.                      *)

SoonerBySecond(i, j) == when_sec[i] < when_sec[j]               \* mutant
Sooner(i, j) ==
  \/ when_sec[i] < when_sec[j]
  \/ when_sec[i] = when_sec[j] /\ when_ms[i] < when_ms[j]

\* The first timer of the list none is sooner than; it may be a deleted one.
searchNearestTimer ==
  timeEvents[CHOOSE p \in DOMAIN timeEvents :
    \A q \in DOMAIN timeEvents :
      /\ ~Sooner(timeEvents[q], timeEvents[p])
      /\ q < p => Sooner(timeEvents[p], timeEvents[q])]

SleepTime ==
  LET i == searchNearestTimer
      ms == (when_sec[i] - Sec(now)) * MsPerSec + when_ms[i] - Ms(now)
  IN IF ms > 0 THEN ms ELSE 0

\* The timeout is computed, then the hook beforeSleep() runs.
searchTimeout ==
  /\ phase = "poll" /\ phase' = "beforeSleep"
  /\ timeout' = IF timeEvents = <<>> THEN Forever ELSE SleepTime
  /\ late' = 0
  /\ UNCHANGED <<clock, lastTime, timers, frames>>

\* epoll_wait() gets the timeout as it was before beforeSleep().
eventPoll ==
  /\ phase = "beforeSleep" /\ phase' = "asleep"
  /\ UNCHANGED <<clock, lastTime, timers, frames, sleep>>

wakeUp ==
  /\ phase = "asleep" /\ phase' = "handlers"
  /\ timeout' = Forever /\ late' = 0
  /\ UNCHANGED <<clock, lastTime, timers, frames>>

-----------------------------------------------------------------------------
(* processTimeEvents().                                                    *)

\* The clock was set back: every timer is due at once.
checkClock ==
  /\ when_sec' = IF Sec(now) < lastTime
                 THEN [i \in Ids |-> IF i \in Range(timeEvents) THEN 0 ELSE when_sec[i]]
                 ELSE when_sec
  /\ asked' = IF Sec(now) < lastTime
              THEN [i \in Ids |-> IF i \in Range(timeEvents) THEN 0 ELSE asked[i]]
              ELSE asked
  /\ lastTime' = Sec(now)

processTimeEvents ==
  /\ \/ phase = "handlers"
     \/ phase = "walk" /\ Top.calling /\ Len(frames) < MaxDepth
  /\ phase' = "walk"
  /\ checkClock
  /\ frames' = Append(frames,
       [te |-> IF timeEvents = <<>> THEN NULL ELSE Head(timeEvents),
        maxId |-> nextId - 1, calling |-> FALSE])
  /\ UNCHANGED <<clock, timeEvents, nextId, when_ms, refcount, deleted,
                 finalized, sleep>>

Walking == frames # <<>> /\ ~Top.calling

walkEnds ==
  /\ Walking /\ Top.te = NULL
  /\ frames' = Front(frames)
  /\ phase' = IF Len(frames) = 1 THEN "poll" ELSE phase
  /\ UNCHANGED <<clock, lastTime, timers, sleep>>

RemovableAlways(i) == i \in deleted                             \* mutant
Removable(i) == i \in deleted /\ refcount[i] = 0

removeDeleted ==
  /\ Walking /\ Top.te # NULL /\ Removable(Top.te)
  /\ timeEvents' = RemoveAt(timeEvents, PlaceOf(Top.te))
  /\ finalized' = [finalized EXCEPT ![Top.te] = @ + 1]
  /\ SetTop([Top EXCEPT !.te = NextOf(Top.te)])
  /\ UNCHANGED <<clock, lastTime, nextId, when_sec, when_ms, refcount, deleted,
                 asked, phase, sleep>>

DueBySecond(i) == Sec(now) >= when_sec[i]                       \* mutant
Due(i) ==
  \/ Sec(now) > when_sec[i]
  \/ Sec(now) = when_sec[i] /\ Ms(now) >= when_ms[i]

Callable(i) == i \notin deleted /\ i <= Top.maxId /\ Due(i)

\* In use though deleted, created during this walk, or not due yet.
skip ==
  /\ Walking /\ Top.te # NULL
  /\ ~Removable(Top.te) /\ ~Callable(Top.te)
  /\ SetTop([Top EXCEPT !.te = NextOf(Top.te)])
  /\ UNCHANGED <<clock, lastTime, timers, phase, sleep>>

callTimeProc ==
  /\ Walking /\ Top.te # NULL /\ Callable(Top.te)
  /\ refcount' = [refcount EXCEPT ![Top.te] = @ + 1]
  /\ SetTop([Top EXCEPT !.calling = TRUE])
  /\ UNCHANGED <<clock, lastTime, timeEvents, nextId, when_sec, when_ms, deleted,
                 asked, finalized, phase, sleep>>

\* A callback that asks to be called again, or EVENT_NOMORE.
rearm(i) ==
  /\ \E d \in Delays : now + d <= MaxTime /\ addMillisecondsToNow(i, d)
  /\ UNCHANGED deleted

noMore(i) ==
  /\ deleted' = deleted \cup {i}
  /\ UNCHANGED <<when_sec, when_ms, asked>>

releaseWanted(i) ==                                             \* mutant
  IF i \in deleted THEN refcount ELSE [refcount EXCEPT ![i] = @ - 1]
release(i) == [refcount EXCEPT ![i] = @ - 1]

timeProcReturns ==
  /\ frames # <<>> /\ Top.calling
  /\ refcount' = release(Top.te)
  /\ rearm(Top.te) \/ noMore(Top.te)
  /\ SetTop([Top EXCEPT !.te = NextOf(Top.te), !.calling = FALSE])
  /\ UNCHANGED <<clock, lastTime, timeEvents, nextId, finalized, phase, sleep>>

-----------------------------------------------------------------------------
(* The clock.                                                              *)

\* The bound on the clock leaves room for the sleep that follows beforeSleep().
tick ==
  /\ now < MaxTime /\ now' = now + 1
  /\ phase = "beforeSleep" => now + timeout < MaxTime
  /\ timeout' = IF phase = "asleep" /\ timeout > 0 THEN timeout - 1 ELSE timeout
  /\ late' = IF phase = "beforeSleep" THEN late + 1 ELSE late
  /\ UNCHANGED <<back, lastTime, timers, frames, phase>>

setBack ==
  /\ back < MaxBack /\ back' = back + 1
  /\ \E t \in 0..(now - 1) : now' = t
  /\ UNCHANGED <<lastTime, timers, frames, phase, sleep>>

Loop ==
  \/ searchTimeout \/ eventPoll
  \/ processTimeEvents
  \/ walkEnds \/ removeDeleted \/ skip \/ callTimeProc \/ timeProcReturns

Next == Loop \/ wakeUp \/ createTimeEvent \/ tick \/ setBack

Spec == Init /\ [][Next]_vars

\* The loop goes on, epoll_wait() returns when its time is over, callbacks
\* return, and time passes.
Fairness ==
  /\ WF_vars(searchTimeout) /\ WF_vars(eventPoll)
  /\ WF_vars(wakeUp /\ timeout = 0)
  /\ WF_vars(processTimeEvents /\ phase = "handlers")
  /\ WF_vars(walkEnds \/ removeDeleted \/ skip \/ callTimeProc)
  /\ SF_vars(timeProcReturns /\ Len(frames) = 1)
  /\ WF_vars(timeProcReturns)
  /\ SF_vars(tick)

FairSpec == Spec /\ Fairness

-----------------------------------------------------------------------------
TypeOK ==
  /\ now \in 0..MaxTime /\ back \in 0..MaxBack /\ lastTime \in 0..Sec(MaxTime)
  /\ timeEvents \in Seq(Ids) /\ nextId \in 0..MaxTimers
  /\ when_sec \in [Ids -> 0..Sec(MaxTime)] /\ when_ms \in [Ids -> 0..(MsPerSec - 1)]
  /\ refcount \in [Ids -> 0..MaxDepth] /\ deleted \subseteq Ids
  /\ asked \in [Ids -> 0..MaxTime] /\ finalized \in [Ids -> 0..1]
  /\ frames \in Seq([te : Ids \cup {NULL}, maxId : -1..(MaxTimers - 1),
                     calling : BOOLEAN])
  /\ phase \in {"poll", "beforeSleep", "asleep", "handlers", "walk"}
  /\ timeout \in Forever..MaxTime /\ late \in Nat

\* No walk stands on a freed timer, however deep the callbacks nest: after
\* the callback te is decremented, rearmed and followed to its successor.
FramesLive ==
  TypeOK /\ \A f \in DOMAIN frames : frames[f].te \in Range(timeEvents) \cup {NULL}

\* No callback runs before the time it asked for, unless the clock was found
\* set back, nor after it has answered EVENT_NOMORE, although the answer may
\* come from a nested call while the outer one still asks for more.
CallsRight ==
  [][callTimeProc => now >= asked[Top.te] /\ Top.te \notin deleted]_vars

\* The sleep outlasts no wanted timer by more than the time beforeSleep() took
\* after the timeout was computed, and there is none if a timer was due then
\* (as long as the clock is not set back while it is computed or slept).
SleepsInTime ==
  phase \in {"beforeSleep", "asleep"} /\ back = 0 =>
    \A i \in Live : timeout # Forever /\ (timeout = 0 \/ now + timeout <= asked[i] + late)

\* A timer that is wanted is called in the end, and one that was told off is
\* taken from the list and finalized, be it in use when that happened.
TimersServed ==
  \A i \in Ids :
    /\ i \in Live ~> (\E f \in DOMAIN frames : frames[f].calling /\ frames[f].te = i)
    /\ i \in deleted ~> finalized[i] = 1
==============================================================================
