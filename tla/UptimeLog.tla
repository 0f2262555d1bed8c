------------------------------ MODULE UptimeLog ------------------------------
(***************************************************************************)
(* The uptime log (core/uptime_log.py): the idle watchdog's process marks  *)
(* every second it runs, in a file per UTC day with a bit per second, and  *)
(* the admin's pages count the bits.  Seconds are numbered from the first  *)
(* of the first day.  A call of record() is one step, from reading the     *)
(* clock to the watchdog's handling of its failure, since nothing else     *)
(* writes there; the pages read at any time.                               *)
(***************************************************************************)
EXTENDS Integers, FiniteSets, FiniteSetsExt, Functions

CONSTANTS
  SecondsPerDay, Days, Byte,  \* seconds in a day, days, seconds in a byte
  MaxFilledGap, MaxBackfill,  \* MAX_FILLED_GAP_SECONDS, MAX_BOOT_BACKFILL_SECONDS
  Unset,
  MaxLaunches, MaxSteps       \* bounds on starts, and on stalls and clock changes

ASSUME UptimeLogAssumption ==
  /\ {SecondsPerDay, Days, Byte, MaxFilledGap} \subseteq Nat \ {0}
  /\ SecondsPerDay % Byte = 0
  /\ MaxBackfill \in Nat /\ Unset \notin Int

Seconds == 0 .. SecondsPerDay * Days - 1
DayOf(second) == second \div SecondsPerDay
OfDay(d) == d * SecondsPerDay .. (d + 1) * SecondsPerDay - 1

VARIABLES
  running,     \* whether there is a watchdog
  now,         \* the second its clock was in when it last woke
  day, data,   \* UptimeLog.day and .data, as the set of the seconds marked
  lastSecond, unrecordedFrom,
  since,       \* _Loop.since
  up, whole,   \* the seconds marked in the files; the days with a whole file
  synced,      \* the seconds that would outlast a crash of the Machine
  \* Since the last call that succeeded, or the start:
  lived,       \* the seconds the process, or the boot before it, was running
  called,      \* the seconds it has called record() in
  back, fell,  \* the clock went back; it went far ahead after a failed call
  launches, steps

dayFiles == <<up, whole, synced>>
uptimeVars == <<running, now, day, data, lastSecond, unrecordedFrom, since, up, whole, synced,
                lived, called, back, fell, launches, steps>>

UptimeInit ==
  /\ running = FALSE /\ now = 0
  /\ day = Unset /\ data = {} /\ lastSecond = Unset /\ unrecordedFrom = Unset /\ since = Unset
  /\ up = {} /\ whole = {} /\ synced = {}
  /\ lived = {} /\ called = {} /\ back = FALSE /\ fell = FALSE
  /\ launches = 0 /\ steps = 0

\* A Machine that has been up for long doesn't count the time before.
StartRecording ==
  /\ ~running /\ launches < MaxLaunches
  /\ running' = TRUE /\ launches' = launches + 1
  /\ now' \in {second \in Seconds : second >= now}
  /\ \E booted \in 0 .. MaxBackfill + 1 :
       since' = IF booted <= MaxBackfill /\ now' - booted \in Seconds THEN now' - booted ELSE Unset
  /\ lived' = IF since' = Unset THEN {now'} ELSE since' .. now'
  /\ UNCHANGED <<day, data, lastSecond, unrecordedFrom, dayFiles, called, back, fell, steps>>

------------------------------------------------------------------------------
(* record(second, since) *)
Least(a, b) == IF b = Unset THEN a ELSE IF a < b THEN a ELSE b
\* Mutant of Filled: a gap of any length.
FilledAnyGap(second) ==
  IF lastSecond # Unset /\ second > lastSecond THEN lastSecond + 1 ELSE second
Filled(second) ==
  IF lastSecond # Unset /\ second > lastSecond /\ second - lastSecond <= MaxFilledGap
  THEN lastSecond + 1 ELSE second
First(second) ==
  Least(IF since # Unset THEN Least(second, since) ELSE Filled(second), unrecordedFrom)

\* The days a call marks, in order; it may fail in any of them.
DaysOf(second) == DayOf(First(second)) .. DayOf(second)
\* Mutant of Marks: on past midnight.
MarksUnclipped(second, d) == First(second) .. second
Marks(second, d) == (First(second) .. second) \cap OfDay(d)
Bytes(seconds) ==
  UNION {(s \div Byte) * Byte .. (s \div Byte) * Byte + Byte - 1 : s \in seconds}

\* sync(), of the day a call leaves: what is in memory goes to the file only
\* if that isn't whole.
Leaves(second) == day # Unset /\ DayOf(First(second)) # day
UpBefore(second) ==
  IF Leaves(second) /\ day \notin whole THEN (up \ OfDay(day)) \cup data ELSE up

\* Mutant of Loaded: a day begun with none of its seconds marked.
LoadedEmpty(second, d) == IF d = day /\ ~Leaves(second) THEN data ELSE {}
\* A day's seconds, in memory if it is the day in hand, else in its file.
Loaded(second, d) ==
  IF d = day /\ ~Leaves(second) THEN data ELSE UpBefore(second) \cap OfDay(d)

\* The bytes the marks are in are written, or all of a file that isn't whole.
Part(second, d) == IF d \in whole THEN Bytes(Marks(second, d)) ELSE OfDay(d)
UpAfter(second, written) ==
  LET part == UNION {Part(second, d) : d \in written}
      bits == UNION {Loaded(second, d) \cup Marks(second, d) : d \in written}
  IN (UpBefore(second) \ part) \cup (bits \cap part)

\* Whether the process has yet to make up for a call, or for the boot, or to
\* write what it has in memory.
Pending == {unrecordedFrom, since} # {Unset} \/ ~(data \subseteq up)
Gap(second) == second - now > MaxFilledGap
\* It wakes every second, unless it stalls or the clock is set.
WakeAt(second) ==
  /\ running /\ second \in Seconds
  /\ second = now + 1 \/ steps < MaxSteps
  /\ steps' = IF second = now + 1 THEN steps ELSE steps + 1
  /\ now' = second
  /\ lived' = (IF Pending THEN lived ELSE {}) \cup {second}
                 \cup (IF Gap(second) THEN {} ELSE now .. second)
  /\ called' = (IF Pending THEN called ELSE {}) \cup {second}
  /\ back' = (second < now \/ (Pending /\ back))
  /\ fell' = (Pending /\ (fell \/ Gap(second)))
  /\ UNCHANGED <<running, launches>>

\* Mutant of MadeUpFrom: nothing is made up for.
MadeUpFromNone(second) == Unset
MadeUpFrom(second) == First(second)

\* The call succeeds; the check interval's sync() is due or not, and may fail.
RecordSecond(second) ==
  /\ WakeAt(second)
  /\ up' = UpAfter(second, DaysOf(second))
  /\ whole' = whole \cup DaysOf(second) \cup (IF Leaves(second) THEN {day} ELSE {})
  /\ day' = DayOf(second) /\ data' = Loaded(second, day') \cup Marks(second, day')
  /\ lastSecond' = second /\ unrecordedFrom' = Unset
  /\ LET left == UNION {OfDay(d) : d \in (DaysOf(second) \cup {day}) \ {Unset, day'}}
     IN \/ synced' = synced \cup (up' \cap left) /\ since' = Unset
        \/ synced' = synced \cup (up' \cap (left \cup OfDay(day'))) /\ since' = Unset
        \/ synced' = synced \cup (up' \cap left) /\ UNCHANGED since

\* It fails in one of its days: as that is opened, or as it is written, which
\* leaves its seconds marked in memory only.
FailIn(second, d, opened) ==
  LET written == {e \in DaysOf(second) : e < d}
      left == (written \cup (IF Leaves(second) THEN {day} ELSE {}))
      reached == written # {} \/ opened
  IN /\ WakeAt(second)
     /\ up' = IF reached THEN UpAfter(second, written) ELSE up
     /\ whole' = IF reached THEN whole \cup left ELSE whole
     /\ day' = IF opened THEN d ELSE IF written # {} THEN d - 1 ELSE day
     /\ data' = IF reached THEN Loaded(second, day') \cup Marks(second, day') ELSE data
     /\ unrecordedFrom' = MadeUpFrom(second)
     /\ synced' = IF reached THEN synced \cup (up' \cap UNION {OfDay(e) : e \in left \ {day'}})
                  ELSE synced
     /\ UNCHANGED <<lastSecond, since>>
Fail(second) == \E d \in DaysOf(second), opened \in BOOLEAN : FailIn(second, d, opened)

------------------------------------------------------------------------------
Gone ==
  /\ running /\ running' = FALSE
  /\ day' = Unset /\ data' = {} /\ lastSecond' = Unset /\ unrecordedFrom' = Unset /\ since' = Unset
  /\ lived' = {} /\ called' = {} /\ back' = FALSE /\ fell' = FALSE
  /\ UNCHANGED <<now, launches, steps>>

\* The process ends; what it wrote is in the kernel's page cache.
ProcessEnds == Gone /\ UNCHANGED dayFiles

\* The Machine crashes: what wasn't synced of a day may be lost.
Crash ==
  /\ Gone
  /\ \E kept \in SUBSET (0 .. Days - 1) : up' = synced \cup (up \cap UNION {OfDay(d) : d \in kept})
  /\ whole' = {d \in whole : up' \cap OfDay(d) # {}}
  /\ UNCHANGED synced

UptimeNext ==
  \/ StartRecording \/ \E second \in Seconds : RecordSecond(second) \/ Fail(second)
  \/ ProcessEnds \/ Crash
UptimeSpec == UptimeInit /\ [][UptimeNext]_uptimeVars

------------------------------------------------------------------------------
(* The reports *)
ActiveSeconds(bits) == Cardinality(bits)
StartCount(bits) == Cardinality(bits \ {s + 1 : s \in bits})
UpPeriods(bits) ==
  {<<start, Max({end \in bits : start .. end \subseteq bits})>> :
     start \in {s \in bits : s - 1 \notin bits}}
DayBits(d) == up \cap OfDay(d)
\* Mutant of FromPreviousDay: the day's own first second not looked at.
UpBeforeMidnight(d) == d > 0 /\ d * SecondsPerDay - 1 \in DayBits(d - 1)
FromPreviousDay(d) ==
  /\ \E period \in UpPeriods(DayBits(d)) : period[1] = d * SecondsPerDay
  /\ d > 0 /\ d * SecondsPerDay - 1 \in DayBits(d - 1)
IntoNextDay(d) ==
  /\ \E period \in UpPeriods(DayBits(d)) : period[2] = (d + 1) * SecondsPerDay - 1
  /\ (d + 1) * SecondsPerDay \in DayBits(d + 1)
Ongoing(d, at) ==
  /\ d = DayOf(at)
  /\ \E period \in UpPeriods(DayBits(d)) : period[2] >= at - 1 - MaxFilledGap

------------------------------------------------------------------------------
\* Every value has its type: memory holds seconds of its day only, and all of
\* those in its file if that is whole.
UptimeTypeOK ==
  /\ now \in Seconds /\ up \subseteq Seconds /\ synced \subseteq up
  /\ {lastSecond, unrecordedFrom, since} \subseteq Seconds \cup {Unset}
  /\ day \in {Unset} \cup 0 .. Days - 1
  /\ data \subseteq (IF day = Unset THEN {} ELSE OfDay(day))
  /\ running /\ day # Unset => up \cap OfDay(day) \subseteq data

\* After a call that succeeds, every second this process has called in is
\* marked, those of calls that failed too, if the clock has not gone back.
CallsAreMarked ==
  running /\ unrecordedFrom = Unset /\ ~back => called \subseteq up

\* A second is only marked if the process, or the boot before it, was running
\* then, or in a stall too short to tell; unless the clock went back, or far
\* ahead after a call that failed, when the next one marks all between.  No
\* call, whether it fails or not, unmarks a second: only a crash does.
MarksAreTrue ==
  [][/\ ~fell' /\ ~back' => up' \ up \subseteq lived'
     /\ running' => up \subseteq up']_uptimeVars

\* A day has as many periods as starts, and they have its up seconds; the runs
\* of up seconds are the periods of all the days but for those that go on from
\* the day before, which are the ones the day before says go on; and the last
\* one is ongoing as long as the process may yet fill the gap after it.
PeriodsAddUp ==
  /\ \A d \in 0 .. Days - 1 :
       /\ Cardinality(UpPeriods(DayBits(d))) = StartCount(DayBits(d))
       /\ SumFunction([p \in UpPeriods(DayBits(d)) |-> p[2] - p[1] + 1])
            = ActiveSeconds(DayBits(d))
       /\ d > 0 => (FromPreviousDay(d) <=> IntoNextDay(d - 1))
  /\ Cardinality(UpPeriods(up)) + Cardinality({d \in 0 .. Days - 1 : FromPreviousDay(d)})
       = SumFunction([d \in 0 .. Days - 1 |-> StartCount(DayBits(d))])
  /\ running /\ lastSecond # Unset /\ unrecordedFrom = Unset =>
       Ongoing(DayOf(now), Min({now + MaxFilledGap + 1, (DayOf(now) + 1) * SecondsPerDay - 1}))
=============================================================================
