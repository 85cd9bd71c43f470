------------------------------ MODULE TickClock ------------------------------
(***************************************************************************)
(* lib/TimeHandler.h: the clock that extrapolates from a point, the time   *)
(* of day and the CPU's tick counter read together, by the frequency of    *)
(* the counter.  update_time sets a new point in the next place of a ring  *)
(* and then the index that get_time_usecs reads the current point by, so   *)
(* that threads may read the clock while one of them updates it.           *)
(*                                                                         *)
(* `published' and `meant' are not in the code: the point that was last    *)
(* completed, and the one that was when a reader loaded the index.         *)
(***************************************************************************)
EXTENDS Integers

CONSTANTS Readers,      \* the threads that read the clock
          Size,         \* number of elements of timedatas
          Second,       \* USECS_IN_SECS
          Rate,         \* ticks of the counter in a second
          MaxFreq,      \* what CPU_MAX_FREQ_FIL says the rate is
          Word,         \* the int64_t of the multiplication: -Word .. Word - 1
          MaxStall,     \* bound: updates completed while one reader copies a point
          MaxRead,      \* bound: ticks while set_current_timepoint reads its three clocks
          Horizon       \* bound: ticks

ASSUME SizeAssumption == Size \in Nat \ {0, 1} /\ MaxStall \in Nat /\ MaxRead \in Nat
ASSUME RateAssumption == Second \in Nat \ {0} /\ Rate \in Nat /\ Rate >= Second /\ MaxFreq \in Nat \ {0}

VARIABLES now,          \* the CPU's tick counter
          timedatas,    \* timedatas[]
          index,        \* index
          upd,          \* where update_time is, or "idle"
          next,         \* its update_index and its point: tp's readings, then what it stores
          prev,         \* its `prev', or NoTime before the first call
          doing, place, copy, ticks,  \* where each reader is, its index, td and cpu_ticks
          published, meant, stall

updater == <<upd, next, prev>>
readers == <<doing, place, copy, ticks>>
clockVars == <<now, timedatas, index, updater, readers, published, meant, stall>>

------------------------------------------------------------------------------
(* gettimeofday, when the counter stands at t                              *)
TimeOfDay(t) == (t * Second) \div Rate

(* What is left of a number in a signed word, and C's division.            *)
Signed(x) == ((x + Word) % (2 * Word)) - Word
Quotient(x, y) == IF x >= 0 THEN x \div y ELSE -((-x) \div y)

(* Mutant: the difference is taken of seconds already.                     *)
get_time_implCoarse(p, t) == p.usecs + Second * Quotient(Signed(t - p.ticks), p.freq)

get_time_impl(p, t) == p.usecs + Quotient(Signed((t - p.ticks) * Second), p.freq)

(* set_current_timepoint: the mean of the ticks before and after.          *)
MeanTicks(before, after) == before \div 2 + after \div 2

(* Mutant: only the new frequency is halved.                               *)
MeanFreqPrecedence(old, new) == old + new \div 2

MeanFreq(old, new) == (old + new) \div 2

(* The next point after p, from what was read; the product is unsigned.    *)
NewPoint(p, usecs, tks) ==
    [usecs |-> usecs, ticks |-> tks,
     freq |-> MeanFreq(p.freq, (((tks - p.ticks) * Second) % (2 * Word)) \div (usecs - p.usecs))]

(* A point is stored, and copied, a field after the other.                 *)
Fields == {"usecs", "ticks", "freq"}
After(f, end) == CASE f = "usecs" -> "ticks" [] f = "ticks" -> "freq" [] f = "freq" -> end

(* The constructor's point: the counter stands at 0 when it reads it, at   *)
(* g when it reads the time of day and at t when it reads it again.        *)
FirstPoint(g, t) == [usecs |-> TimeOfDay(g), ticks |-> MeanTicks(0, t), freq |-> MaxFreq]
Unset == [usecs |-> 0, ticks |-> 0, freq |-> 1]
NoTime == -1

ClockInit ==
    \E t \in 0 .. MaxRead : \E g \in 0 .. t :
       /\ now = t
       /\ timedatas = [i \in 0 .. Size - 1 |-> IF i = 0 THEN FirstPoint(g, t) ELSE Unset]
       /\ index = 0
       /\ upd = "idle" /\ next = [index |-> 0, point |-> Unset]
       /\ prev = NoTime
       /\ doing = [r \in Readers |-> "idle"] /\ place = [r \in Readers |-> 0]
       /\ copy = [r \in Readers |-> Unset] /\ ticks = [r \in Readers |-> 0]
       /\ published = FirstPoint(g, t)
       /\ meant = [r \in Readers |-> FirstPoint(g, t)]
       /\ stall = [r \in Readers |-> 0]

CounterTick == /\ now < Horizon
               /\ upd \in {"day", "after"} => now < next.point.ticks + MaxRead
               /\ now' = now + 1
               /\ UNCHANGED <<timedatas, index, updater, readers, published, meant, stall>>

------------------------------------------------------------------------------
(* Mutant: the ring has one place.                                         *)
NextIndexSame == index

NextIndex == IF index + 1 >= Size THEN 0 ELSE index + 1

(* The first call of update_time only sets its static `prev'.              *)
UpdateFirst == /\ upd = "idle" /\ prev = NoTime
               /\ prev' = get_time_impl(timedatas[index], now)
               /\ UNCHANGED <<now, timedatas, index, upd, next, readers, published, meant, stall>>

(* update_time finds that a second has passed.  The last conjunct is no    *)
(* test of the code: it says how long a reader may take.                   *)
UpdateBegin == /\ upd = "idle" /\ prev # NoTime
               /\ get_time_impl(timedatas[index], now) - prev >= Second
               /\ next' = [index |-> NextIndex, point |-> Unset]
               /\ upd' = "before"
               /\ UNCHANGED <<now, timedatas, index, prev, readers, published, meant, stall>>
               /\ \A r \in Readers : doing[r] \in Fields => stall[r] < MaxStall

(* set_current_timepoint: the ticks, the time of day and the ticks again;  *)
(* then the point is computed.                                             *)
UpdateBefore == /\ upd = "before"
                /\ next' = [next EXCEPT !.point.ticks = now]
                /\ upd' = "day"
                /\ UNCHANGED <<now, timedatas, index, prev, readers, published, meant, stall>>
UpdateDay == /\ upd = "day"
             /\ next' = [next EXCEPT !.point.usecs = TimeOfDay(now)]
             /\ upd' = "after"
             /\ UNCHANGED <<now, timedatas, index, prev, readers, published, meant, stall>>
UpdateAfter == /\ upd = "after"
               /\ next' = [next EXCEPT !.point = NewPoint(timedatas[index], next.point.usecs,
                                                         MeanTicks(next.point.ticks, now))]
               /\ upd' = "usecs"
               /\ UNCHANGED <<now, timedatas, index, prev, readers, published, meant, stall>>

(* timedatas[update_index] = { tp, freq }, a field at a time.              *)
UpdateStore == /\ upd \in Fields
               /\ timedatas' = [timedatas EXCEPT ![next.index][upd] = next.point[upd]]
               /\ upd' = After(upd, "index")
               /\ UNCHANGED <<now, index, next, prev, readers, published, meant, stall>>

UpdatePublish == /\ upd = "index"
                 /\ index' = next.index
                 /\ upd' = "prev"
                 /\ published' = next.point
                 /\ stall' = [r \in Readers |-> IF doing[r] \in Fields THEN stall[r] + 1 ELSE 0]
                 /\ UNCHANGED <<now, timedatas, next, prev, readers, meant>>

UpdateEnd == /\ upd = "prev"
             /\ upd' = "idle"
             /\ prev' = get_time_impl(timedatas[index], now)
             /\ UNCHANGED <<now, timedatas, index, next, readers, published, meant, stall>>

------------------------------------------------------------------------------
(* get_time_usecs: its argument rdtsc() is evaluated before it is called.  *)
ReadTicks(r) == /\ doing[r] = "idle"
                /\ doing' = [doing EXCEPT ![r] = "index"]
                /\ ticks' = [ticks EXCEPT ![r] = now]
                /\ UNCHANGED <<now, timedatas, index, updater, place, copy, published, meant, stall>>

LoadIndex(r) == /\ doing[r] = "index"
                /\ doing' = [doing EXCEPT ![r] = "usecs"]
                /\ place' = [place EXCEPT ![r] = index]
                /\ meant' = [meant EXCEPT ![r] = published]
                /\ stall' = [stall EXCEPT ![r] = 0]
                /\ UNCHANGED <<now, timedatas, index, updater, copy, ticks, published>>

(* TimeData td = timedatas[index.load()], a field at a time.               *)
CopyField(r) == /\ doing[r] \in Fields
                /\ copy' = [copy EXCEPT ![r][doing[r]] = timedatas[place[r]][doing[r]]]
                /\ doing' = [doing EXCEPT ![r] = After(@, "copied")]
                /\ UNCHANGED <<now, timedatas, index, updater, place, ticks, published, meant, stall>>

(* get_time_impl's result, which the caller gets.                          *)
Time(r) == get_time_impl(copy[r], ticks[r])

(* The call returns it; its locals are gone.                               *)
Extrapolate(r) == /\ doing[r] = "copied"
                  /\ doing' = [doing EXCEPT ![r] = "idle"]
                  /\ place' = [place EXCEPT ![r] = 0]
                  /\ copy' = [copy EXCEPT ![r] = Unset]
                  /\ ticks' = [ticks EXCEPT ![r] = 0]
                  /\ UNCHANGED <<now, timedatas, index, updater, published, meant, stall>>

------------------------------------------------------------------------------
Update == \/ UpdateFirst \/ UpdateBegin \/ UpdateBefore \/ UpdateDay \/ UpdateAfter
          \/ UpdateStore \/ UpdatePublish \/ UpdateEnd
Read(r) == ReadTicks(r) \/ LoadIndex(r) \/ CopyField(r) \/ Extrapolate(r)

ClockNext == CounterTick \/ Update \/ \E r \in Readers : Read(r)

ClockSpec == ClockInit /\ [][ClockNext]_clockVars

------------------------------------------------------------------------------
(* A reader computes with the point that was current when it loaded the    *)
(* index, whole: never with a field of one update and a field of another,  *)
(* nor with a place that no update has filled.                             *)
WholePoint == \A r \in Readers : doing[r] = "copied" => copy[r] = meant[r]

Off(x) == IF x >= 0 THEN x ELSE -x

(* Twice what a point may be off the time of day, times Rate: the ticks    *)
(* are those of the middle of the reading, or one less, and the time of    *)
(* day is in whole microseconds, which are no shorter than a tick.         *)
PointNoise == MaxRead * Second + 2 * Rate

(* What a thread reads is the time at which the ticks were what it found,  *)
(* but for how long the point's clocks took to read, for the roundings, and *)
(* for the drift of the frequency since that point.                        *)
NearTruth == \A r \in Readers :
                doing[r] = "copied" =>
                   LET f == copy[r].freq
                   IN  2 * f * Off(Time(r) * Rate - ticks[r] * Second)
                         <= f * (PointNoise + 2 * Rate)
                            + 2 * Off(ticks[r] - copy[r].ticks) * Second * Off(Rate - f)

(* An update halves how far the frequency is off the counter's rate, but   *)
(* for what the clocks of the two points may be off and for the roundings. *)
FrequencyNears ==
    [][published' # published =>
          LET gap == published'.usecs - published.usecs
          IN  2 * gap * Off(published'.freq - Rate)
                <= gap * Off(published.freq - Rate) + PointNoise + 2 * gap]_clockVars
==============================================================================
