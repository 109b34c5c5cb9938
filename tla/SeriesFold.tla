-------------------------------- MODULE SeriesFold ------------------------------
(***************************************************************************)
(* One metric of one resource, from the response to the snapshot: the      *)
(* intervals are screened (azure/metrics.py) and folded as they arrive     *)
(* into the window (collect/accumulate.py), their local day and their hour *)
(* of the week (collect/dayfold.py), and what was folded is finalized into *)
(* statistics and a derived one (collect/finalize.py).                     *)
(*                                                                         *)
(* Decimals are integers here and an average is its total and its count;   *)
(* the percentile sketch is left out.                                      *)
(***************************************************************************)
EXTENDS Calendar

CONSTANTS
  Absent,      \* what a leaf holds that the response leaves out
  SeriesZone,
  Starts,      \* when the intervals of the window start, in their order
  Leaves,      \* what an interval may hold: total, count, minimum, maximum, stamped
  Capacities   \* the capability a derived statistic relates the metric to

VARIABLES
  kind,      \* which aggregations the catalog has for the metric
  excluded,  \* the resource is stopped, or nobody knows
  answer,    \* what the response has for the resource and the metric
  leaves, capacity,
  pending,   \* the intervals not folded yet
  window, byDay, byHour,
  recorded,  \* the gaps of the pair, with the interval where there is one
  finalized  \* the statistics and the derived values, once there are any

vars ==
  <<kind, excluded, answer, leaves, capacity, pending, window, byDay, byHour, recorded, finalized>>

Sample == DOMAIN Starts

\* What is asked of an interval: it has both extremes or neither, in their order, and where
\* it has samples its average lies between them.
LeafFits(p) ==
  /\ p.stamped \in BOOLEAN
  /\ \A leaf \in {"total", "count", "minimum", "maximum"} : p[leaf] = Absent \/ p[leaf] \in Int
  /\ p.minimum = Absent <=> p.maximum = Absent
  /\ p.minimum # Absent => p.minimum <= p.maximum
  /\ p.total # Absent /\ p.count # Absent /\ p.count > 0 =>
       /\ p.minimum # Absent
       /\ p.minimum * p.count <= p.total /\ p.total <= p.maximum * p.count

\* What the constants may be.
ConstantsFit ==
  /\ CalendarFits
  /\ Starts \in Seq(Int) /\ \A i \in Sample : i + 1 \in Sample => Starts[i] < Starts[i + 1]
  /\ \A p \in Leaves : LeafFits(p)
  /\ Capacities \subseteq Nat /\ Absent \notin Capacities

Aggregations(k) ==
  CASE k = "averages" -> {"total", "count", "minimum", "maximum"}
    [] k = "totals" -> {"total"}
    [] k = "extremes" -> {"minimum", "maximum"}

Kinds == {"averages", "totals", "extremes"}
Nothing == <<>>
Directions == {"avg", "min", "max"}
None == [state |-> "none"]

Empty == [total |-> 0, count |-> 0, minimum |-> Absent, maximum |-> Absent, folded |-> 0]

TypeOK ==
  /\ kind \in Kinds /\ excluded \in BOOLEAN
  /\ answer \in {"answered", "omitted", "error", "silent"}
  /\ leaves \in [Sample -> Leaves] /\ capacity \in Capacities \cup {Absent}
  /\ pending \subseteq Sample
  /\ window.folded \in 0 .. Cardinality(Sample)
  /\ \A g \in recorded : g.at \in Sample \cup {Absent}
  /\ finalized = None \/ DOMAIN finalized.derived \subseteq Directions

Init ==
  /\ kind \in Kinds /\ excluded \in BOOLEAN
  /\ answer \in {"answered", "omitted", "error", "silent"}
  /\ leaves \in [Sample -> Leaves] /\ capacity \in Capacities \cup {Absent}
  /\ pending = Sample
  /\ window = Empty /\ byDay = Nothing /\ byHour = Nothing
  /\ recorded = {} /\ finalized = None

Gap(type, at) == [type |-> type, at |-> at]

-------------------------------------------------------------------------------
(***************************************************************************)
(* collect/accumulate.py.                                                  *)
(***************************************************************************)

AsksTotal(aggs) == aggs \cap {"total", "count"} # {}
AsksCount(aggs) == "count" \in aggs

\* Of what is a number only a negative count is malformed.
Malformed(p, aggs) ==
  \/ AsksTotal(aggs) /\ p.total = Absent
  \/ AsksCount(aggs) /\ (p.count = Absent \/ p.count < 0)

Lower(a, b) == IF a = Absent THEN b ELSE IF b = Absent THEN a ELSE Min({a, b})
Higher(a, b) == IF a = Absent THEN b ELSE IF b = Absent THEN a ELSE Max({a, b})

\* An interval without samples moves nothing.
FoldInterval(acc, p, aggs) ==
  IF Malformed(p, aggs) \/ (AsksCount(aggs) /\ p.count = 0) THEN acc
  ELSE [total |-> acc.total + (IF AsksTotal(aggs) THEN p.total ELSE 0),
        count |-> acc.count + (IF AsksCount(aggs) THEN p.count ELSE 0),
        minimum |-> Lower(acc.minimum, p.minimum),
        maximum |-> Higher(acc.maximum, p.maximum),
        folded |-> acc.folded + 1]

-------------------------------------------------------------------------------
(***************************************************************************)
(* collect/dayfold.py.                                                     *)
(***************************************************************************)

DayOf(i) == LocalDay(SeriesZone, Starts[i])
CellOf(i) == <<DayOf(i) % 7, LocalHour(SeriesZone, Starts[i])>>

FoldUnder(accs, key, p, aggs) ==
  [k \in DOMAIN accs \cup {key} |->
     IF k = key THEN FoldInterval(IF key \in DOMAIN accs THEN accs[key] ELSE Empty, p, aggs)
     ELSE accs[k]]

\* With the aggregations of the window.  An interval whose start cannot be read has no
\* day, and a resource that is excluded no hour of the week.
FoldDay(i, aggs) ==
  /\ byDay' = IF leaves[i].stamped THEN FoldUnder(byDay, DayOf(i), leaves[i], aggs) ELSE byDay
  /\ byHour' = IF leaves[i].stamped /\ ~excluded
                 THEN FoldUnder(byHour, CellOf(i), leaves[i], aggs) ELSE byHour

-------------------------------------------------------------------------------
(***************************************************************************)
(* azure/metrics.py.                                                       *)
(***************************************************************************)

\* The resource is not in the response, or the metric has an error code in it, or nothing.
Unanswered ==
  /\ answer # "answered" /\ pending # {}
  /\ pending' = {}
  /\ recorded' = recorded \cup (CASE answer = "omitted" -> {Gap("resource_absent_from_response", Absent)}
                          [] answer = "error" -> {Gap("metric_error", Absent)}
                          [] answer = "silent" -> {})
  /\ UNCHANGED <<kind, excluded, answer, leaves, capacity, window, byDay, byHour, finalized>>

\* A leaf that was asked for and is not there.
CountsMissing(p, aggs) ==
  \/ AsksTotal(aggs) /\ p.total = Absent
  \/ AsksCount(aggs) /\ p.count = Absent

Screen(i) ==
  LET aggs == Aggregations(kind) IN
  /\ answer = "answered" /\ i \in pending /\ CountsMissing(leaves[i], aggs)
  /\ pending' = pending \ {i}
  /\ recorded' = recorded \cup {Gap("interval_counts_missing", i)}
  /\ UNCHANGED <<kind, excluded, answer, leaves, capacity, window, byDay, byHour, finalized>>

\* The interval goes into the window, unless the resource is excluded, and into its day.
Fold(i) ==
  LET p == leaves[i]
      aggs == Aggregations(kind)
  IN  /\ answer = "answered" /\ i \in pending /\ ~CountsMissing(p, aggs)
      /\ pending' = pending \ {i}
      /\ window' = IF excluded THEN window ELSE FoldInterval(window, p, aggs)
      /\ recorded' = IF ~excluded /\ Malformed(p, aggs)
                   THEN recorded \cup {Gap("interval_malformed", i)} ELSE recorded
      /\ FoldDay(i, aggs)
      /\ UNCHANGED <<kind, excluded, answer, leaves, capacity, finalized>>

-------------------------------------------------------------------------------
(***************************************************************************)
(* collect/finalize.py.                                                    *)
(***************************************************************************)

\* The statistics of what was folded: an average has its total and its count.
Statistics(acc) ==
  LET given == {s \in {"avg", "min", "max", "sum"} :
                  CASE s = "avg" -> acc.count > 0
                    [] s = "min" -> acc.minimum # Absent
                    [] s = "max" -> acc.maximum # Absent
                    [] s = "sum" -> kind = "totals"}
  IN  [s \in given |-> CASE s = "avg" -> <<acc.total, acc.count>>
                         [] s = "min" -> <<acc.minimum, 1>>
                         [] s = "max" -> <<acc.maximum, 1>>
                         [] s = "sum" -> <<acc.total, 1>>]

\* What is used of a capacity is most where what is available is least.
SourceOf(direction) ==
  CASE direction = "avg" -> "avg" [] direction = "min" -> "max" [] direction = "max" -> "min"

\* The share of the capacity that is used, over the metric's own denominator.
Used(value) == <<capacity * value[2] - value[1], capacity * value[2]>>
IsPercent(value) == 0 <= value[1] /\ value[1] <= value[2]

\* Nothing is derived for a resource none of whose metrics has a result, nor without its
\* capacity; a direction whose source is missing is left out, one out of range reported.
Derive(result) ==
  LET bound == {d \in Directions : SourceOf(d) \in DOMAIN result}
      used(d) == Used(result[SourceOf(d)])
      fits == {d \in bound : IsPercent(used(d))}
  IN  IF capacity \in {Absent, 0}
        THEN [values |-> Nothing, gaps |-> {Gap("sku_capability_missing", Absent)}]
        ELSE [values |-> [d \in fits |-> used(d)],
              gaps |-> IF bound = fits THEN {} ELSE {Gap("metric_error", Absent)}]

Close(result, derived, more) ==
  /\ finalized' = [state |-> "given", statistics |-> result, derived |-> derived]
  /\ recorded' = recorded \cup more
  /\ UNCHANGED <<kind, excluded, answer, leaves, capacity, pending, window, byDay, byHour>>

FinalizeNothing ==
  /\ pending = {} /\ finalized = None /\ (excluded \/ window.folded = 0)
  /\ Close(Nothing, Nothing, IF excluded THEN {} ELSE {Gap("no_samples", Absent)})

Finalize ==
  /\ pending = {} /\ finalized = None /\ ~excluded /\ window.folded > 0
  /\ LET result == Statistics(window)
         derived == Derive(result)
     IN  Close(result, derived.values, derived.gaps)

Next ==
  \/ Unanswered
  \/ \E i \in Sample : Screen(i) \/ Fold(i)
  \/ FinalizeNothing
  \/ Finalize

Spec == Init /\ [][Next]_vars

-------------------------------------------------------------------------------
(***************************************************************************)
(* Properties.                                                             *)
(***************************************************************************)

\* The intervals that were answered with all that was asked for and have samples.
Sampled(i) ==
  /\ answer = "answered" /\ i \notin pending
  /\ "total" \in Aggregations(kind) => leaves[i].total # Absent
  /\ "count" \in Aggregations(kind) => leaves[i].count # Absent /\ leaves[i].count > 0

\* The sum over these intervals.
SumOf(leaf, intervals) ==
  LET upTo[n \in Nat] ==
        IF n = 0 THEN 0 ELSE upTo[n - 1] + (IF n \in intervals THEN leaves[n][leaf] ELSE 0)
  IN  upTo[Len(Starts)]

\* What folding these intervals comes to, in whatever order they arrived.
Adds(acc, intervals) ==
  LET known(leaf) == {leaves[i][leaf] : i \in intervals} \ {Absent}
  IN  /\ acc.folded = Cardinality(intervals)
      /\ acc.total = IF kind = "extremes" THEN 0 ELSE SumOf("total", intervals)
      /\ acc.count = IF kind = "averages" THEN SumOf("count", intervals) ELSE 0
      /\ acc.minimum = IF known("minimum") = {} THEN Absent ELSE Min(known("minimum"))
      /\ acc.maximum = IF known("maximum") = {} THEN Absent ELSE Max(known("maximum"))

\* The window, each day and each hour of the week hold exactly the intervals that belong to
\* them, whatever the order they came in, and a day is never judged by other rules than
\* the window: what one of them counts the other does too.
FoldsAgree ==
  /\ Adds(window, IF excluded THEN {} ELSE {i \in Sample : Sampled(i)})
  /\ \A d \in DOMAIN byDay :
       Adds(byDay[d], {i \in Sample : Sampled(i) /\ leaves[i].stamped /\ DayOf(i) = d})
  /\ \A c \in DOMAIN byHour :
       Adds(byHour[c], {i \in Sample : Sampled(i) /\ leaves[i].stamped /\ CellOf(i) = c})
  /\ \A i \in Sample : Sampled(i) /\ leaves[i].stamped =>
       DayOf(i) \in DOMAIN byDay /\ (excluded \/ CellOf(i) \in DOMAIN byHour)

\* A pair without a statistic has a gap that says why, where the request asks for totals,
\* and a pair of an excluded resource has neither a statistic nor a gap of its own for it.
AbsenceIsExplained ==
  finalized # None =>
    /\ ~excluded /\ kind # "extremes" /\ finalized.statistics = Nothing => recorded # {}
    /\ excluded => /\ finalized.statistics = Nothing /\ byHour = Nothing
                   /\ \A g \in recorded : g.type \notin {"no_samples", "sku_capability_missing"}

AtMost(a, b) == a[1] * b[2] <= b[1] * a[2]

\* The derived values are shares of the capacity and in their order, although the least of
\* the metric makes the most of them.
DerivedInOrder ==
  finalized # None =>
    LET v == finalized.derived IN
    /\ \A d \in DOMAIN v : IsPercent(v[d])
    /\ \A a, b \in DOMAIN v : <<a, b>> \in {<<"min", "avg">>, <<"avg", "max">>, <<"min", "max">>}
         => AtMost(v[a], v[b])

\* Refuted: a pair has a statistic, or a gap, or is excluded.
SomethingIsSaid ==
  finalized # None /\ ~excluded => finalized.statistics # Nothing \/ recorded # {}

\* Refuted: a resource that is excluded has no day values.
ExcludedHasNoDays == excluded => byDay = Nothing

\* Refuted: a pair that is excluded is not said to be malformed.
ExcludedIsSilent == excluded => \A g \in recorded : g.type # "interval_counts_missing"
================================================================================
