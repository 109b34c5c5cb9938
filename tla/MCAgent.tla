-------------------------------- MODULE MCAgent --------------------------------
(***************************************************************************)
(* Six parts of a run that share no state: how metrics are requested in    *)
(* batches from Azure, or in calls from AWS, what becomes of one metric's  *)
(* samples, which days a run is about, how its stream is kept alive, and   *)
(* which prior runs a trend plots.  A behaviour is about one of them and   *)
(* the others stay as they start, since all of them at once would only     *)
(* multiply their states.                                                  *)
(***************************************************************************)
EXTENDS Agent, Integers, Sequences, TLC

CONSTANTS
  east, west, cpu, mem, all

ASSUME B!ConstantsFit /\ H!ConstantsFit /\ Selection!ConstantsFit
ASSUME P!ConstantsFit /\ Series!ConstantsFit /\ C!ConstantsFit

-------------------------------------------------------------------------------
\* Two resources of one type with two metrics asked for together, in one batch; and one
\* elsewhere, whose two metrics ask for different aggregations, in two.
TwoLocations ==
  <<[location |-> east, size |-> 2, metrics |-> <<cpu, mem>>,
     aggs |-> [m \in {cpu, mem} |-> all]],
    [location |-> west, size |-> 1, metrics |-> <<cpu, mem>>, aggs |-> [m \in {cpu, mem} |-> m]]>>

\* The lookbacks of two trend blocks.
TwoBlocks == <<1, 2>>

\* A year of five months in days of eight hours.
FiveMonths == <<0, 2, 4, 7, 9, 11>>

\* A zone of whole hours, one of quarters, and three that change: in the small hours, at
\* midnight, and by half an hour.
FiveZones ==
  {[start |-> 8, trans |-> <<>>],
   [start |-> 5, trans |-> <<>>],
   [start |-> -12, trans |-> <<[at |-> 148, offset |-> -8], [at |-> 240, offset |-> -12]>>],
   [start |-> 0, trans |-> <<[at |-> 160, offset |-> 4], [at |-> 224, offset |-> 0]>>],
   [start |-> 6, trans |-> <<[at |-> 126, offset |-> 8], [at |-> 224, offset |-> 6]>>]}

\* Every second quarter of the third month and of half the fourth.
HalfHours == {t \in 136 .. 256 : t % 2 = 0}

\* Ranges within a month and across two, with the changes of the clock at either end,
\* one that is empty, one too long, and one with a day that does not exist.
EightRanges ==
  {<<2, 3>>, <<4, 6>>, <<3, 2>>, <<2, 6>>, <<4, 4>>, <<5, 5>>, <<7, 7>>, <<NoDate, 4>>}

\* A clock set back between the first two intervals, and another day for the third.
SetBack == [start |-> 0, trans |-> <<[at |-> 16, offset |-> -4]>>]
ThreeStarts == <<12, 16, 36>>

Leaf(total, count, minimum, maximum, stamped) ==
  [total |-> total, count |-> count, minimum |-> minimum, maximum |-> maximum,
   stamped |-> stamped]

\* Two intervals with all, one without samples, one without a count, one that
\* counts down, one without totals, and one with no readable start.
SevenLeaves ==
  {Leaf(4, 2, 1, 3, TRUE), Leaf(6, 1, 6, 6, TRUE), Leaf(0, 0, Absent, Absent, TRUE),
   Leaf(4, Absent, 1, 3, TRUE), Leaf(3, -1, 3, 3, TRUE), Leaf(Absent, Absent, 2, 5, TRUE),
   Leaf(5, 2, 2, 3, FALSE)}

\* Two groups of one region and one of another.  With two queries per resource and four
\* per call the first takes two calls, and the second has as many for its one resource.
ThreeAreas ==
  <<[region |-> east, resources |-> <<1, 2, 6, 3>>, metrics |-> {cpu}, statistics |-> 2],
    [region |-> east, resources |-> <<4>>, metrics |-> {cpu, mem}, statistics |-> 2],
    [region |-> west, resources |-> <<5>>, metrics |-> {cpu}, statistics |-> 2]>>

-------------------------------------------------------------------------------
batchesVars ==
  <<outcome, group, tasks, fallbackOnly, requested, unreachable, folded, gaps, archive>>
heartbeatVars == <<now, pump, ticker, queue, consumer, given>>
trendVars == <<prior, step, toRead, got, chosen, points, replayed, failures>>
periodsVars == <<zone, clock, workspace, asked, period, plan, today, horizon, trend>>
seriesVars ==
  <<kind, excluded, answer, leaves, capacity, pending, window, byDay, byHour, recorded, finalized>>
cloudwatchVars == <<made, answering, answers, silent, filed, summed, missed, verdict>>

Init ==
  /\ part \in {"batches", "heartbeat", "trend", "periods", "series", "cloudwatch"}
  /\ part = "trend" \/ prior = [i \in Selection!Run |-> CHOOSE c \in Selection!Candidate : TRUE]
  /\ part = "periods" \/ (zone = NoZone /\ clock = 136 /\ workspace = FALSE)
  /\ part = "series"
       \/ /\ kind = "totals" /\ excluded = TRUE /\ answer = "silent" /\ capacity = Absent
          /\ leaves = [i \in Series!Sample |-> Leaf(4, 2, 1, 3, TRUE)]
  /\ B!Init /\ H!Init /\ Selection!Init /\ P!Init /\ Series!Init /\ C!Init

Batches ==
  /\ part = "batches" /\ B!Next
  /\ UNCHANGED <<part, heartbeatVars, trendVars, periodsVars, seriesVars, cloudwatchVars>>
Heartbeat ==
  /\ part = "heartbeat" /\ H!Next
  /\ UNCHANGED <<part, batchesVars, trendVars, periodsVars, seriesVars, cloudwatchVars>>
Trend ==
  /\ part = "trend" /\ Selection!Next
  /\ UNCHANGED <<part, batchesVars, heartbeatVars, periodsVars, seriesVars, cloudwatchVars>>
Periods ==
  /\ part = "periods" /\ P!Next
  /\ UNCHANGED <<part, batchesVars, heartbeatVars, trendVars, seriesVars, cloudwatchVars>>
Samples ==
  /\ part = "series" /\ Series!Next
  /\ UNCHANGED <<part, batchesVars, heartbeatVars, trendVars, periodsVars, cloudwatchVars>>
CloudWatch ==
  /\ part = "cloudwatch" /\ C!Next
  /\ UNCHANGED <<part, batchesVars, heartbeatVars, trendVars, periodsVars, seriesVars>>

Next == Batches \/ Heartbeat \/ Trend \/ Periods \/ Samples \/ CloudWatch

vars ==
  <<part, batchesVars, heartbeatVars, trendVars, periodsVars, seriesVars, cloudwatchVars>>

\* Of these parts only the batches are relied upon to go on.
Spec == Init /\ [][Next]_vars /\ WF_batchesVars(part = "batches" /\ B!Next)

-------------------------------------------------------------------------------
\* Throttled, halved, split and refused requests come to an end (azure/metrics.py).
CollectionEnds == part = "batches" => B!CollectionEnds

\* Refuted (README, section 11).
FallbackIsFolded == B!FallbackIsFolded
UnreachableFoldedNothing == B!UnreachableFoldedNothing
RefusalIsNoGap == B!RefusalIsNoGap
EveryEligibleSelected == Selection!EveryEligibleSelected
ReplayReproduces == Selection!ReplayReproduces
TrendIsPast == P!TrendIsPast
MonthDaysAreWhole == P!MonthDaysAreWhole
OffsetsAgree == P!OffsetsAgree
OwnPointIsThePeriods == P!OwnPointIsThePeriods
SomethingIsSaid == Series!SomethingIsSaid
ExcludedHasNoDays == Series!ExcludedHasNoDays
ExcludedIsSilent == Series!ExcludedIsSilent
SilentFoldedNothing == C!SilentFoldedNothing
UnreachableHasNothing == C!UnreachableHasNothing
================================================================================
