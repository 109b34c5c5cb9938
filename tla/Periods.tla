--------------------------------- MODULE Periods --------------------------------
(***************************************************************************)
(* The period of a run: a rule of the preset is resolved to local days     *)
(* when the run is enqueued (lib/templates/period.ts), the agent turns the *)
(* days into a window of UTC instants and a grain (collect/pipeline.py,    *)
(* collect/buckets.py), and collects the months of the trend one by one.   *)
(*                                                                         *)
(* The two never exchange an instant: only the days and the zone's name    *)
(* go from the one to the other, and each has a calendar of its own.       *)
(***************************************************************************)
EXTENDS Calendar

CONSTANTS
  Zones, NoZone,  \* the zones both can resolve, and a name neither can
  Instants,       \* when a run may be enqueued
  Delays,         \* how much later the agent may look at the clock
  Customs,        \* the ranges of days written by hand
  NoDate,         \* a day that does not exist
  ShortSpan, LongSpan, MaxSpan,  \* 7, 30 and 31 days
  SeedMonths,     \* how many months the trend asks for
  Retention       \* how long the metrics API keeps an interval

VARIABLES
  zone, clock,
  workspace,  \* whether the connector has a workspace with exported metrics
  asked,      \* the rule
  period,     \* what it was resolved to, and when
  plan,       \* the agent's window and grain
  today, horizon,  \* what the agent makes of its clock, once, before the trend
  trend       \* per month dealt with: its window, its slots and where its values are from

vars == <<zone, clock, workspace, asked, period, plan, today, horizon, trend>>

\* What the constants may be.
ConstantsFit ==
  /\ CalendarFits
  /\ NoZone \notin Zones /\ \A z \in Zones : ZoneFits(z)
  /\ Instants \subseteq Nat /\ Delays \subseteq Nat
  /\ \A z \in Zones, at \in Instants : \E m \in Month \ {1} : LocalDay(z, at) \in DaysOfMonth(m)
  /\ \A c \in Customs, i \in {1, 2} : c[i] = NoDate \/ \E m \in Month : c[i] \in DaysOfMonth(m)
  /\ MaxSpan \in Nat /\ LongSpan \in 1 .. MaxSpan /\ ShortSpan \in 1 .. LongSpan
  /\ SeedMonths \in Nat \ {0} /\ Retention \in Nat

None == [code |-> "none"]

Kinds == {"last_24h", "last_7d", "last_30d", "last_full_month", "mtd"}

\* The rule of a stored version may be none of the six, and its days may not exist.
Specs ==
  {[kind |-> k] : k \in Kinds \cup {"unrecognized"}}
    \cup {[kind |-> "custom", first |-> c[1], last |-> c[2]] : c \in Customs}

TypeOK ==
  /\ zone \in Zones \cup {NoZone} /\ clock \in Nat /\ workspace \in BOOLEAN
  /\ asked \in Specs \cup {None}
  /\ period.code = "ok" => period.days \in 1 .. MaxSpan
  /\ plan = None \/ plan.grain \in {BaseGrain, FallbackGrain}
  /\ DOMAIN trend \subseteq Month
  /\ \A m \in DOMAIN trend :
       trend[m].from \in {"period", "live", "failed", "workspace", "nowhere"}

Init ==
  /\ zone \in Zones \cup {NoZone} /\ clock \in Instants /\ workspace \in BOOLEAN
  /\ asked = None /\ period = None /\ plan = None
  /\ today = 0 /\ horizon = 0 /\ trend = <<>>

-------------------------------------------------------------------------------
(***************************************************************************)
(* lib/templates/period.ts.                                                *)
(***************************************************************************)

\* The offset on a day: from the middle of the UTC day, corrected twice.
UtcOffsetOn(z, d) ==
  LET noon == d * QuartersPerDay + QuartersPerDay \div 2
      first == UtcOffset(z, noon)
      second == UtcOffset(z, noon - first)
  IN  UtcOffset(z, noon - second)

\* The days a rule means; the day before the current one is the last that is complete.
DaysOf(spec, current) ==
  LET latest == current - 1
      month == MonthOf(current)
  IN  CASE spec.kind = "last_24h" -> <<latest, latest>>
        [] spec.kind = "last_7d" -> <<latest - (ShortSpan - 1), latest>>
        [] spec.kind = "last_30d" -> <<latest - (LongSpan - 1), latest>>
        [] spec.kind = "last_full_month" -> <<FirstOfMonth(month - 1), LastOfMonth(month - 1)>>
        [] spec.kind = "mtd" -> <<FirstOfMonth(month), latest>>
        [] spec.kind = "custom" -> <<spec.first, spec.last>>

\* The span is judged before the end, since an empty range has no end to speak of.
JudgeDays(z, at, d) ==
  LET days == d[2] - d[1] + 1
      current == LocalDay(z, at)
  IN
  CASE days < 1 -> [code |-> "no_complete_local_day"]
    [] days > MaxSpan -> [code |-> "exceeds_maximum_days"]
    [] days \in 1 .. MaxSpan /\ d[2] >= current -> [code |-> "ends_after_yesterday"]
    [] days \in 1 .. MaxSpan /\ d[2] < current ->
         [code |-> "ok", at |-> at, first |-> d[1], last |-> d[2], days |-> days,
          offset |-> UtcOffsetOn(z, d[1])]

ResolvePeriod(spec, at, z) ==
  IF z = NoZone THEN [code |-> "unresolvable_timezone"]
  ELSE IF spec.kind = "unrecognized" THEN [code |-> "unrecognized_period"]
  ELSE IF spec.kind = "custom" /\ NoDate \in {spec.first, spec.last}
    THEN [code |-> "invalid_custom_dates"]
  ELSE JudgeDays(z, at, DaysOf(spec, LocalDay(z, at)))

\* The rule is resolved at the instant of the enqueue, and never again.
Enqueue(spec) ==
  /\ period = None
  /\ asked' = spec
  /\ period' = ResolvePeriod(spec, clock, zone)
  /\ UNCHANGED <<zone, clock, workspace, plan, today, horizon, trend>>

-------------------------------------------------------------------------------
(***************************************************************************)
(* collect/pipeline.py.                                                    *)
(***************************************************************************)

\* The agent reads its plan from the invocation, and after the period has been collected
\* looks at the clock, once, to see which months the trend has.
Start(later) ==
  /\ period.code = "ok" /\ plan = None
  /\ plan' = LET w == ResolveWindow(zone, period.first, period.last)
             IN  [code |-> "planned", window |-> w, grain |-> ChooseGrain(zone, w)]
  /\ clock' = clock + later
  /\ today' = LocalDay(zone, clock')
  /\ horizon' = clock' - Retention
  /\ UNCHANGED <<zone, workspace, asked, period, trend>>

\* The oldest month that has not been dealt with.
NextMonth == Min(TrendMonths(plan.window, SeedMonths) \ DOMAIN trend)

SlotCount(w) == Cardinality(Slots(w, plan.grain))

\* The months' slots have the grain of the period.
Record(from) ==
  LET w == MonthWindow(zone, NextMonth, today)
  IN  /\ trend' = [m \in DOMAIN trend \cup {NextMonth} |->
                      IF m = NextMonth THEN [window |-> w, slots |-> SlotCount(w), from |-> from]
                      ELSE trend[m]]
      /\ UNCHANGED <<zone, clock, workspace, asked, period, plan, today, horizon>>

Unfinished == plan # None /\ TrendMonths(plan.window, SeedMonths) # DOMAIN trend
OwnWindow == MonthWindow(zone, NextMonth, today) = plan.window
TooOld == MonthWindow(zone, NextMonth, today).end <= horizon

\* The period's own values.
Reuse == Unfinished /\ OwnWindow /\ Record("period")

\* One query for a month that the metrics API no longer has, or none without a workspace.
AskWorkspace ==
  /\ Unfinished /\ ~OwnWindow /\ TooOld
  /\ Record(IF workspace THEN "workspace" ELSE "nowhere")

\* A pass over the estate, whose failure costs the trend this month.
AskLive ==
  /\ Unfinished /\ ~OwnWindow /\ ~TooOld
  /\ \E from \in {"live", "failed"} : Record(from)

-------------------------------------------------------------------------------
Next ==
  \/ \E spec \in Specs : Enqueue(spec)
  \/ \E later \in Delays : Start(later)
  \/ Reuse
  \/ AskWorkspace
  \/ AskLive

Spec == Init /\ [][Next]_vars

-------------------------------------------------------------------------------
(***************************************************************************)
(* Properties.                                                             *)
(***************************************************************************)

\* The agent's window was over when the app accepted the days: no interval of the current
\* local day is in it, whatever the zone did to its midnights.
WindowIsPast == plan # None => plan.window.end <= period.at

\* Each slot lies in one local day, the days with slots are those that were asked for, and
\* each has as many as it has time, the days of 23 and of 25 hours too.
DaysAreWhole ==
  plan # None =>
    LET w == plan.window
        buckets == DayBuckets(zone, w, plan.grain)
    IN  /\ \A t \in Slots(w, plan.grain) : LocalDay(zone, t) = LocalDay(zone, t + plan.grain - 1)
        /\ DOMAIN buckets = w.first .. w.last
        /\ \A d \in DOMAIN buckets :
             LET day == ResolveWindow(zone, d, d)
             IN  buckets[d] * plan.grain = day.end - day.start

\* The offset shown for a rule is the one that holds at noon of its first day, although the
\* zone's offset is asked for at an instant that may lie before the day's change of clocks.
OffsetIsOfNoon ==
  period.code = "ok" =>
    period.offset = UtcOffset(zone, UtcOf(zone, period.first * QuartersPerDay + QuartersPerDay \div 2))

\* A report about a whole month takes that month of its trend from what it has measured
\* for the period, and no other is taken for it.
OwnMonthOnce ==
  /\ \A m \in DOMAIN trend : trend[m].from = "period" => trend[m].window = plan.window
  /\ plan # None /\ asked.kind = "last_full_month" /\ ~Unfinished =>
       trend[MonthOf(plan.window.last)].from = "period"

\* The months of a trend meet: no instant between the first and the last is in two of
\* them, or in none.
MonthsMeet ==
  \A m \in DOMAIN trend : m + 1 \in DOMAIN trend =>
    trend[m].window.end = trend[m + 1].window.start

\* Refuted: no month of the trend reaches past the clock.
TrendIsPast == \A m \in DOMAIN trend : trend[m].window.end <= clock

\* Refuted: the slots of a month lie in one local day each, as those of the period do.
MonthDaysAreWhole ==
  \A m \in DOMAIN trend : \A t \in Slots(trend[m].window, plan.grain) :
    LocalDay(zone, t) = LocalDay(zone, t + plan.grain - 1)

\* Refuted: the offset shown for a rule is the one the snapshot records.
OffsetsAgree == plan # None => period.offset = UtcOffset(zone, plan.window.start)

\* Refuted: the trend's point for the month of the report rests on the report's own days.
OwnPointIsThePeriods ==
  plan # None /\ asked.kind = "mtd" /\ ~Unfinished =>
    trend[MonthOf(plan.window.last)].window = plan.window
================================================================================
