---------------------------- MODULE TrendSelection -----------------------------
(***************************************************************************)
(* Which earlier runs a report's historical_trend blocks plot.  For each   *)
(* block in turn the agent loads snapshots of prior runs, of which any     *)
(* read may fail, and selects; then it reads the selected ones again to    *)
(* compile, gates the points, and keeps the selection.  A later            *)
(* verify_report reads them once more and compiles the same selection.     *)
(* The report's own snapshot has no monthly series, which would be plotted *)
(* in their place.                                                         *)
(*                                                                         *)
(* The candidates are numbered as the app's query returns them: by period  *)
(* end, then by the instant of the latest verification, then by id, each   *)
(* descending, which are also the selector's tie-breaks.                   *)
(***************************************************************************)
EXTENDS Integers, Sequences, FiniteSets

CONSTANTS
  Runs,        \* bound: the number of prior runs
  Days,        \* bound: the days their periods lie in
  Lookbacks,   \* the lookback of each historical_trend block
  MaxFailures  \* bound: reads of the object store that fail

\* What the constants may be.
ConstantsFit ==
  /\ Runs \in Nat \ {0} /\ Days \in Nat \ {0} /\ MaxFailures \in Nat
  /\ Lookbacks \in Seq(Nat \ {0}) /\ Lookbacks # <<>>

VARIABLES
  prior,     \* the candidates, which do not change
  step,      \* what the agent is doing
  toRead,    \* the snapshots this step has yet to read
  got,       \* those it has read
  chosen,    \* what became of each candidate, for each block selected so far
  points,    \* the runs the report plots in each block
  replayed,  \* those a re-verification plots
  failures

vars == <<prior, step, toRead, got, chosen, points, replayed, failures>>

Run == 1..Runs

Candidate ==
  {c \in [start : 1..Days, end : 1..Days, standing : {"unfinished", "unverified", "verified"},
          snapshot : {"carries", "no_metric", "other_tier"}] :
     c.start <= c.end /\ (c.standing # "verified" => c.snapshot = "carries")}

Newer(i, j) == i < j

-------------------------------------------------------------------------------
(***************************************************************************)
(* compile/historical.py.                                                  *)
(***************************************************************************)

Overlaps(earlier, later) == prior[later].start <= prior[earlier].end

Latest(kept) == kept[Len(kept)]

\* A slip: each is compared with the first that was retained.
SweepAgainstFirst(kept, c) ==
  IF kept = <<>> \/ ~Overlaps(kept[1], c) THEN Append(kept, c)
  ELSE IF Newer(c, kept[1]) THEN [kept EXCEPT ![1] = c]
  ELSE kept

Sweep(kept, c) ==
  IF kept = <<>> \/ ~Overlaps(Latest(kept), c) THEN Append(kept, c)
  ELSE IF Newer(c, Latest(kept)) THEN [kept EXCEPT ![Len(kept)] = c]
  ELSE kept

\* By period start; among equal starts the newest comes last.
StartsBefore(i, j) ==
  \/ prior[i].start < prior[j].start
  \/ prior[i].start = prior[j].start /\ Newer(j, i)

First(S) == CHOOSE i \in S : \A j \in S \ {i} : StartsBefore(i, j)

SweepFirst(s) ==
  IF s.left = {} THEN s
  ELSE [kept |-> Sweep(s.kept, First(s.left)), left |-> s.left \ {First(s.left)}]

Verified == {i \in Run : prior[i].standing = "verified"}

\* _resolve_overlaps, run after run from the first.
Retained ==
  LET swept[n \in Nat] ==
        IF n = 0 THEN [kept |-> <<>>, left |-> Verified] ELSE SweepFirst(swept[n - 1])
      kept == swept[Runs].kept
  IN  {kept[k] : k \in DOMAIN kept}

NewestOf(S, n) == {i \in S : Cardinality({j \in S : Newer(j, i)}) < n}

\* select, with the snapshots that snapshot_for finds.
Select(lookback, found) ==
  [i \in Run |->
     CASE prior[i].standing = "unfinished"                          -> "status_not_completed"
       [] prior[i].standing = "unverified"                          -> "verification_not_passed"
       [] i \in Verified \ Retained                                 -> "period_overlapping"
       [] i \in Retained \ NewestOf(Retained, lookback)             -> "beyond_lookback"
       [] OTHER ->
            IF i \notin found \/ prior[i].snapshot = "no_metric" THEN "metric_absent_in_snapshot"
            ELSE IF prior[i].snapshot = "other_tier" THEN "fidelity_tier_differs"
            ELSE "selected"]

Selected(b) == {i \in Run : chosen[b][i] = "selected"}

SelectedByAny(choices) == {i \in Run : \E b \in DOMAIN choices : choices[b][i] = "selected"}

-------------------------------------------------------------------------------
(***************************************************************************)
(* report_pipeline.py.                                                     *)
(***************************************************************************)

\* _load_historical_snapshots: the first two filters, then the bound.
Loads(b) == NewestOf(Verified, Lookbacks[b])

Init ==
  /\ prior \in [Run -> Candidate]
  /\ \A i, j \in Run : Newer(i, j) => prior[i].end >= prior[j].end
  /\ step = "select" /\ toRead = Loads(1) /\ got = {}
  /\ chosen = <<>> /\ points = <<>> /\ replayed = <<>>
  /\ failures = 0

\* get_json of one prior snapshot: a failure is logged, or passed over.
Read ==
  /\ \E i \in toRead :
       /\ toRead' = toRead \ {i}
       /\ \/ got' = got \cup {i} /\ UNCHANGED failures
          \/ failures < MaxFailures /\ failures' = failures + 1 /\ UNCHANGED got
  /\ UNCHANGED <<prior, step, chosen, points, replayed>>

\* The selection of one block; after the last, the selected ones are read again.
SelectBlock ==
  /\ step = "select" /\ toRead = {}
  /\ chosen' = Append(chosen, Select(Lookbacks[Len(chosen) + 1], got))
  /\ IF Len(chosen') < Len(Lookbacks)
     THEN toRead' = Loads(Len(chosen') + 1) /\ UNCHANGED step
     ELSE toRead' = SelectedByAny(chosen') /\ step' = "compile"
  /\ got' = {}
  /\ UNCHANGED <<prior, points, replayed, failures>>

\* A point for each selected run that could be read again.
Plotted == [b \in DOMAIN Lookbacks |-> Selected(b) \cap got]

Compile ==
  /\ step = "compile" /\ toRead = {}
  /\ points' = Plotted
  /\ step' = "replay" /\ toRead' = SelectedByAny(chosen) /\ got' = {}
  /\ UNCHANGED <<prior, chosen, replayed, failures>>

\* verify_report, from the selection that was kept.
Recompile ==
  /\ step = "replay" /\ toRead = {}
  /\ replayed' = Plotted
  /\ step' = "done" /\ got' = {}
  /\ UNCHANGED <<prior, toRead, chosen, points, failures>>

Next == Read \/ SelectBlock \/ Compile \/ Recompile

Spec == Init /\ [][Next]_vars

-------------------------------------------------------------------------------
\* The values the variables take; no more is selected than a block looks back.
TypeOK ==
  /\ prior \in [Run -> Candidate]
  /\ step \in {"select", "compile", "replay", "done"}
  /\ toRead \subseteq Run /\ got \subseteq Run /\ toRead \cap got = {}
  /\ Len(chosen) <= Len(Lookbacks)
  /\ \A b \in DOMAIN chosen : Cardinality(Selected(b)) <= Lookbacks[b]
  /\ failures \in 0..MaxFailures

\* Periods that share a day, and what hangs together through such pairs: whatever has
\* the one and all that touch what it has, has the other.
Touching(i, j) == prior[i].start <= prior[j].end /\ prior[j].start <= prior[i].end
Together(i, j) ==
  \A S \in SUBSET Verified :
    i \in S /\ (\A x \in S, y \in Verified : Touching(x, y) => y \in S) => j \in S

\* "Among overlapping runs, retain the one whose period end is later" (select, step 3):
\* of the runs that hang together by overlaps the newest stays and no other, whatever
\* the order of the sweep.
KeepsNewest ==
  \A b \in DOMAIN chosen : \A i \in Verified :
    chosen[b][i] = "period_overlapping" <=> \E j \in Verified : Newer(j, i) /\ Together(i, j)

\* check_historical: periods are half-open there, and the points of all blocks are
\* taken together.
GateOverlap(i, j) == prior[i].start < prior[j].end /\ prior[j].start < prior[i].end

\* The verifier's gate withholds no report for what the selector chose.
GateAccepts ==
  \A b, c \in DOMAIN points : \A i \in points[b], j \in points[c] :
    i # j => ~GateOverlap(i, j)

\* Refuted: what is loaded is bounded before overlaps are resolved.  "For all sets
\* containing fewer eligible runs than the lookback, [it] SHALL select every eligible
\* run" (requirements, Property 3.7).
Eligible == {i \in Retained : prior[i].snapshot = "carries"}
EveryEligibleSelected ==
  failures = 0 =>
    \A b \in DOMAIN chosen : Cardinality(Eligible) <= Lookbacks[b] => Eligible \subseteq Selected(b)

\* Refuted: a read that fails in one compile and not in the other.  "A compile is a pure
\* function of (template version, snapshot, prose bundle, historical selection)"
\* (_historical_bundle), and so a re-verification finds the points of the report.
ReplayReproduces == step = "done" => replayed = points
================================================================================
