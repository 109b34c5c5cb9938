-------------------------------- MODULE Calendar -------------------------------
(***************************************************************************)
(* The calendar of a run (collect/buckets.py): the UTC window of a range   *)
(* of local days, the grain its slots have, the local day of each slot,    *)
(* and the months of a trend.                                              *)
(*                                                                         *)
(* Time is counted in quarters of an hour, days and months by their place. *)
(* A zone is the offset it starts with and the transitions after that, in  *)
(* their order: [start, trans], a transition is [at, offset].              *)
(***************************************************************************)
EXTENDS Integers, Sequences, FiniteSets, FiniteSetsExt

CONSTANTS
  HoursPerDay,
  Months   \* the day that opens each month, and the day after the last of them

QuartersPerHour == 4
QuartersPerDay == HoursPerDay * QuartersPerHour

\* PT1H and PT15M.
BaseGrain == QuartersPerHour
FallbackGrain == 1

Month == 1 .. Len(Months) - 1

\* What the constants may be.
CalendarFits ==
  /\ HoursPerDay \in Nat \ {0}
  /\ Months \in Seq(Int) /\ Month # {}
  /\ \A i, j \in DOMAIN Months : i < j => Months[i] < Months[j]

-------------------------------------------------------------------------------
(***************************************************************************)
(* What Python's zoneinfo makes of a zone.                                 *)
(***************************************************************************)

IsWholeHour(offset) == offset % QuartersPerHour = 0

OffsetBefore(z, i) == IF i = 1 THEN z.start ELSE z.trans[i - 1].offset

\* What the wall clock reads, before or after, as it is changed.
Earlier(z, i) == z.trans[i].at + Min({OffsetBefore(z, i), z.trans[i].offset})
Later(z, i) == z.trans[i].at + Max({OffsetBefore(z, i), z.trans[i].offset})

\* What is asked of a zone, and true of those in use today: offsets of less than a day,
\* changes days apart, no day that is skipped, no clock that is changed across midnight or
\* noon, and none that is set forward at midnight by a part of an hour.
ZoneFits(z) ==
  LET Offset == 1 - QuartersPerDay .. QuartersPerDay - 1 IN
  /\ z.start \in Offset /\ z.trans \in Seq([at : Int, offset : Offset])
  /\ \A i, j \in DOMAIN z.trans : i < j => z.trans[j].at - z.trans[i].at >= 2 * QuartersPerDay
  /\ \A i \in DOMAIN z.trans :
       /\ Later(z, i) - Earlier(z, i) < QuartersPerDay
       /\ \A wall \in Earlier(z, i) .. Later(z, i) :
            /\ wall % QuartersPerDay = 0 => wall \in {Earlier(z, i), Later(z, i)}
            /\ wall % QuartersPerDay = QuartersPerDay \div 2 => wall = Later(z, i)
       /\ LET forward == z.trans[i].offset - OffsetBefore(z, i) IN
          forward > 0 /\ Earlier(z, i) % QuartersPerDay = 0 => IsWholeHour(forward)

\* The offset after the last of these transitions.
After(z, passed) == IF passed = {} THEN z.start ELSE z.trans[Max(passed)].offset

UtcOffset(z, instant) == After(z, {i \in DOMAIN z.trans : z.trans[i].at <= instant})

Local(z, instant) == instant + UtcOffset(z, instant)

\* A wall time that occurs twice is the first of the two; one that is skipped is read
\* with the offset before the transition (fold=0).
UtcOf(z, wall) ==
  wall - After(z, {i \in DOMAIN z.trans : wall >= Later(z, i)})

-------------------------------------------------------------------------------
(***************************************************************************)
(* Windows, grain and buckets.                                             *)
(***************************************************************************)

\* The local day that holds an instant.
LocalDay(z, instant) == Local(z, instant) \div QuartersPerDay

\* The hour of that day.
LocalHour(z, instant) == (Local(z, instant) % QuartersPerDay) \div QuartersPerHour

\* From midnight of the first day to midnight after the last, both local.
ResolveWindow(z, first, last) ==
  [first |-> first, last |-> last,
   start |-> UtcOf(z, first * QuartersPerDay), end |-> UtcOf(z, (last + 1) * QuartersPerDay)]

\* At the start, at each hour after it, and at the end.
OffsetsAcross(z, w) ==
  {UtcOffset(z, t) : t \in {w.end} \cup
     {t \in w.start .. w.end - 1 : (t - w.start) % QuartersPerHour = 0}}

ChooseGrain(z, w) ==
  IF \A offset \in OffsetsAcross(z, w) : IsWholeHour(offset) THEN BaseGrain ELSE FallbackGrain

\* Where the slots of a window start.
Slots(w, grain) == {t \in w.start .. w.end - 1 : (t - w.start) % grain = 0}

\* The local days with a slot in the window, and how many slots each has.
DayBuckets(z, w, grain) ==
  LET slots == Slots(w, grain)
      held(d) == {t \in slots : LocalDay(z, t) = d}
  IN  [d \in {LocalDay(z, t) : t \in slots} |-> Cardinality(held(d))]

-------------------------------------------------------------------------------
(***************************************************************************)
(* The months of a trend.                                                  *)
(***************************************************************************)

FirstOfMonth(m) == Months[m]
LastOfMonth(m) == Months[m + 1] - 1

DaysOfMonth(m) == FirstOfMonth(m) .. LastOfMonth(m)

MonthOf(d) == CHOOSE m \in Month : d \in DaysOfMonth(m)

\* The window of a month; one that has not finished ends today.
MonthWindow(z, m, today) ==
  ResolveWindow(z, FirstOfMonth(m),
    IF today < LastOfMonth(m) THEN Max({FirstOfMonth(m), today}) ELSE LastOfMonth(m))

\* The month the window ends in, and those before it.
TrendMonths(w, count) ==
  LET anchor == MonthOf(w.last) IN {m \in Month : m <= anchor /\ m > anchor - count}
================================================================================
