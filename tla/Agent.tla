--------------------------------- MODULE Agent ---------------------------------
(***************************************************************************)
(* Parts of a run inside the agent: how metrics are requested in batches   *)
(* from Azure, or in calls from AWS, what becomes of one metric's samples, *)
(* and how the run's stream is kept alive.  They share no state, so what   *)
(* is promised of them is promised of each by itself.                      *)
(***************************************************************************)

CONSTANTS
  Groups, PointsBudget, Intervals, Permits, MaxConsecutive429,      \* MetricBatches
  Interval, MaxCatchUp, Lag, MaxEvents, MaxTime,                    \* Heartbeat
  HoursPerDay, Months,                                              \* Calendar
  Absent, SeriesZone, Starts, Leaves, Capacities,                   \* SeriesFold
  Runs, Days, Lookbacks, MaxFailures,                               \* TrendSelection
  Zones, NoZone, Instants, Delays, Customs, NoDate,                 \* Periods
  ShortSpan, LongSpan, MaxSpan, SeedMonths, Retention,
  Areas, Named, MaxQueries                                          \* CloudWatch

VARIABLES
  part,  \* what a behaviour is about, where it is about one of them
  outcome, group, tasks, fallbackOnly, requested, unreachable, folded, gaps, archive,
  now, pump, ticker, queue, consumer, given,
  kind, excluded, answer, leaves, capacity, pending, window, byDay, byHour, recorded, finalized,
  made, answering, answers, silent, filed, summed, missed, verdict,
  prior, step, toRead, got, chosen, points, replayed, failures,
  zone, clock, workspace, asked, period, plan, today, horizon, trend

B == INSTANCE MetricBatches
H == INSTANCE Heartbeat
C == INSTANCE CloudWatch
Series == INSTANCE SeriesFold
Selection == INSTANCE TrendSelection
P == INSTANCE Periods

-------------------------------------------------------------------------------
\* Each resource's metric is folded or reported once, never both, and an archive that
\* calls itself complete replays what was folded (azure/metrics.py, aws/metrics.py,
\* collect/archive.py); and what was folded has a statistic, or a gap that says why not
\* (collect/finalize.py).
PairsAccounted ==
  /\ part = "batches" => B!TypeOK /\ B!EachPairOnce /\ B!ReplayFoldsTheSame
  /\ part = "cloudwatch" => C!TypeOK /\ C!EachPairOnce /\ C!ReplayFoldsTheSame
  /\ part = "series" => Series!AbsenceIsExplained

\* A client that waits is told something in time (heartbeat.py).
ToldInTime == part = "heartbeat" => H!TypeOK /\ H!ToldInTime

\* The client gets every event, once and in order, none after done (heartbeat.py).
ForwardedInOrder == H!ForwardedInOrder

\* A figure is made of what it is said to be made of.  Of runs that hang together by overlaps
\* a trend plots the newest, and the verifier's gate accepts whatever was selected
\* (compile/historical.py, verify/historical.py); the days a run and its trend are about are
\* over, whole, and met end to end, whatever the clocks do (lib/templates/period.ts,
\* collect/buckets.py); and what was folded of a metric agrees between the window, the days
\* and the hours, and so do the values derived from it (collect/accumulate.py,
\* collect/dayfold.py, collect/finalize.py).
FiguresAreSound ==
  /\ part = "trend" => Selection!TypeOK /\ Selection!KeepsNewest /\ Selection!GateAccepts
  /\ part = "periods" =>
       /\ P!TypeOK /\ P!WindowIsPast /\ P!DaysAreWhole
       /\ P!OffsetIsOfNoon /\ P!OwnMonthOnce /\ P!MonthsMeet
  /\ part = "series" => Series!TypeOK /\ Series!FoldsAgree /\ Series!DerivedInOrder
================================================================================
