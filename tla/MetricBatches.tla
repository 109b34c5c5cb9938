------------------------------ MODULE MetricBatches ----------------------------
(***************************************************************************)
(* How a run collects its metrics from Azure.  Its groups of resources are *)
(* requested one after the other; a group's batches all at once, under the *)
(* subscription's semaphore.  A batch is halved when its answer would be   *)
(* too large, split by metric at one resource, retried when throttled, and *)
(* sent resource by resource to the control plane when its location's data *)
(* plane does not resolve or refuses.  A pair is one resource's metric.    *)
(* What an answer holds for its pairs, and so the gaps found inside it and *)
(* the gate on an empty result, are left out.                              *)
(***************************************************************************)
EXTENDS Integers, Sequences, FiniteSets

CONSTANTS
  Groups,            \* a sequence of [location, size, metrics, aggs]
  PointsBudget,      \* POINTS_BUDGET
  Intervals,         \* interval_count
  Permits,           \* MAX_CONCURRENCY_PER_SUBSCRIPTION
  MaxConsecutive429  \* MAX_CONSECUTIVE_429

\* What the constants may be.
ConstantsFit ==
  /\ PointsBudget \in Nat /\ Intervals \in Nat \ {0}
  /\ Permits \in Nat \ {0} /\ MaxConsecutive429 \in Nat \ {0}
  /\ Groups \in Seq({Groups[g] : g \in DOMAIN Groups}) /\ Groups # <<>>
  /\ \A g \in DOMAIN Groups :
       /\ Groups[g].size \in Nat \ {0}
       /\ Groups[g].metrics \in Seq(DOMAIN Groups[g].aggs) /\ Groups[g].metrics # <<>>
       /\ \A i, j \in DOMAIN Groups[g].metrics :
            Groups[g].metrics[i] = Groups[g].metrics[j] => i = j

VARIABLES
  outcome,       \* how the collection stands
  group,         \* the group it is at
  tasks,         \* the requests of the gathers, each a leaf of its batch's tree
  fallbackOnly,  \* RegionResolver: the locations whose data plane is not used,
  requested,     \*   those asked about,
  unreachable,   \*   and those whose last request no path answered
  folded,        \* how often each pair was folded
  gaps,          \* how often each pair was recorded as a gap
  archive        \* the pairs archived, and whether a write failed

vars == <<outcome, group, tasks, fallbackOnly, requested, unreachable, folded, gaps, archive>>

Location == {Groups[g].location : g \in DOMAIN Groups}
Resources(g) == 1 .. Groups[g].size
Names(seq) == {seq[i] : i \in DOMAIN seq}
Pairs == UNION {{g} \X Resources(g) \X Names(Groups[g].metrics) : g \in DOMAIN Groups}

Task(g, resources, todo, split) ==
  [group |-> g, resources |-> resources, todo |-> todo, split |-> split,
   pc |-> "ready", throttled |-> 0, answered |-> {}]

\* The metrics for each set of aggregations.
PartitionByAggregations(g) ==
  LET aggs == Groups[g].aggs
      metrics == Names(Groups[g].metrics)
  IN  {{m \in metrics : aggs[m] = set} : set \in {aggs[m] : m \in metrics}}

Capacity(names) ==
  LET fits == PointsBudget \div (Cardinality(names) * Intervals) IN IF fits = 0 THEN 1 ELSE fits

Chunks(g, size) ==
  {{r \in Resources(g) : first <= r /\ r < first + size} :
     first \in {r \in Resources(g) : (r - 1) % size = 0}}

PlanBatches(g) ==
  UNION {{Task(g, chunk, names, FALSE) : chunk \in Chunks(g, Capacity(names))} :
           names \in PartitionByAggregations(g)}

Init ==
  /\ outcome = "collecting"
  /\ group = 1
  /\ tasks = PlanBatches(1)
  /\ fallbackOnly = {} /\ requested = {} /\ unreachable = {}
  /\ folded = [p \in Pairs |-> 0]
  /\ gaps = [p \in Pairs |-> 0]
  /\ archive = [pairs |-> {}, incomplete |-> FALSE]

-------------------------------------------------------------------------------
(***************************************************************************)
(* What a request covers, and how it leaves its task.                      *)
(***************************************************************************)

\* The first of these metrics, in the catalog's order.
First(g, names) ==
  {Groups[g].metrics[i] : i \in {i \in DOMAIN Groups[g].metrics :
     /\ Groups[g].metrics[i] \in names
     /\ \A j \in 1 .. i - 1 : Groups[g].metrics[j] \notin names}}

\* One metric at a time once it is split.
Asked(t) == IF t.split THEN First(t.group, t.todo) ELSE t.todo
Covered(t, resources) == {t.group} \X resources \X Asked(t)

Once(count, pairs) == [p \in DOMAIN count |-> IF p \in pairs THEN count[p] + 1 ELSE count[p]]

Becomes(t, next) == tasks' = (tasks \ {t}) \cup next

\* The next metric of a split, or nothing: _collect_batch returns.
Onward(t) ==
  IF t.split /\ t.todo # Asked(t)
  THEN {Task(t.group, t.resources, t.todo \ Asked(t), TRUE)} ELSE {}

\* The exception leaves every gather above it; their other requests go on.
Raise(t, as) ==
  /\ Becomes(t, {})
  /\ outcome' = IF outcome = "collecting" THEN as ELSE outcome

Halves(t) ==
  LET half == Cardinality(t.resources) \div 2
      first == {r \in t.resources : Cardinality({q \in t.resources : q < r}) < half}
  IN  {Task(t.group, first, t.todo, FALSE), Task(t.group, t.resources \ first, t.todo, FALSE)}

-------------------------------------------------------------------------------
(***************************************************************************)
(* One request.                                                            *)
(***************************************************************************)

Holds(t) == t.pc \in {"batch", "fallback"}

\* request_batch_or_fallback, once a permit is had: the route is chosen.
Request(t) ==
  /\ t.pc = "ready"
  /\ Cardinality({u \in tasks : Holds(u)}) < Permits
  /\ LET location == Groups[t.group].location IN
       /\ requested' = requested \cup {location}
       /\ Becomes(t, {[t EXCEPT !.pc = IF location \in fallbackOnly THEN "fallback" ELSE "batch"]})
  /\ UNCHANGED <<outcome, group, fallbackOnly, unreachable, folded, gaps, archive>>

Waits(t) == {[t EXCEPT !.pc = "waiting", !.throttled = @ + 1]}

Throttled(t) ==
  /\ IF t.throttled + 1 >= MaxConsecutive429
     THEN Raise(t, "throttled")
     ELSE Becomes(t, Waits(t)) /\ UNCHANGED outcome
  /\ UNCHANGED <<fallbackOnly, gaps>>

\* Halved; at one resource split by metric; at one metric a gap.
TooLarge(t) ==
  /\ IF t.split
     THEN gaps' = Once(gaps, Covered(t, t.resources)) /\ Becomes(t, Onward(t))
     ELSE /\ Becomes(t, IF Cardinality(t.resources) > 1
                        THEN Halves(t)
                        ELSE {Task(t.group, t.resources, t.todo, TRUE)})
          /\ UNCHANGED gaps
  /\ UNCHANGED <<outcome, fallbackOnly>>

\* A gap for every resource asked for; under a split, for the metric.
Failed(t) ==
  /\ gaps' = Once(gaps, Covered(t, t.resources))
  /\ Becomes(t, Onward(t))
  /\ UNCHANGED <<outcome, fallbackOnly>>

\* A slip: the request is sent again and the location not remembered.
RefusedForgotten(t) ==
  /\ Becomes(t, {Task(t.group, t.resources, t.todo, t.split)})
  /\ UNCHANGED <<outcome, fallbackOnly, gaps>>

\* A batch is sent again, down the other road; a split takes it for an error.
Refused(t) ==
  IF t.split
  THEN Failed(t)
  ELSE /\ fallbackOnly' = fallbackOnly \cup {Groups[t.group].location}
       /\ Becomes(t, {Task(t.group, t.resources, t.todo, FALSE)})
       /\ UNCHANGED <<outcome, gaps>>

Answered(t) ==
  /\ Becomes(t, {[t EXCEPT !.pc = "archiving", !.answered = t.resources]})
  /\ UNCHANGED <<outcome, fallbackOnly, gaps>>

BatchAnswers(t) ==
  /\ t.pc = "batch"
  /\ unreachable' = unreachable \ {Groups[t.group].location}
  /\ Answered(t) \/ Throttled(t) \/ TooLarge(t) \/ Refused(t) \/ Failed(t)
  /\ UNCHANGED <<group, requested, folded, archive>>

\* The host does not resolve: the same call goes on to the fallback.
DnsFails(t) ==
  /\ t.pc = "batch"
  /\ fallbackOnly' = fallbackOnly \cup {Groups[t.group].location}
  /\ Becomes(t, {[t EXCEPT !.pc = "fallback"]})
  /\ UNCHANGED <<outcome, group, requested, unreachable, folded, gaps, archive>>

TransportFails(t) ==
  /\ t.pc = "batch"
  /\ Raise(t, "failed")
  /\ UNCHANGED <<group, fallbackOnly, requested, unreachable, folded, gaps, archive>>

WaitEnds(t) ==
  /\ t.pc = "waiting"
  /\ Becomes(t, {[t EXCEPT !.pc = "ready"]})
  /\ UNCHANGED <<outcome, group, fallbackOnly, requested, unreachable, folded, gaps, archive>>

\* Every resource was asked for by itself.  A split calls _handle_fallback without
\* the day fold it requires, which raises.
FallbackAnswers(t, answered) ==
  /\ t.pc = "fallback"
  /\ LET location == Groups[t.group].location IN
       unreachable' = IF answered = {} THEN unreachable \cup {location} ELSE unreachable \ {location}
  /\ IF t.split
     THEN Raise(t, "type_error") /\ UNCHANGED gaps
     ELSE /\ gaps' = Once(gaps, Covered(t, t.resources \ answered))
          /\ Becomes(t, IF answered = {} THEN {}
                        ELSE {[t EXCEPT !.pc = "archiving", !.answered = answered]})
          /\ UNCHANGED outcome
  /\ UNCHANGED <<group, fallbackOnly, requested, folded, archive>>

\* A slip: what could not be archived is lost to the replay without a word.
WrittenSilently(t, wrote) ==
  archive' = [archive EXCEPT !.pairs = IF wrote THEN @ \cup Covered(t, t.answered) ELSE @]

\* ArchiveWriter.write: it may fail, and then says so for good.
Written(t, wrote) ==
  archive' = [pairs      |-> IF wrote THEN archive.pairs \cup Covered(t, t.answered) ELSE archive.pairs,
              incomplete |-> archive.incomplete \/ ~wrote]

\* Write first, fold second, whether or not the write succeeded.
Fold(t, wrote) ==
  /\ t.pc = "archiving"
  /\ Written(t, wrote)
  /\ folded' = Once(folded, Covered(t, t.answered))
  /\ Becomes(t, Onward(t))
  /\ UNCHANGED <<outcome, group, fallbackOnly, requested, unreachable, gaps>>

-------------------------------------------------------------------------------
(***************************************************************************)
(* The collection.                                                         *)
(***************************************************************************)

\* assert_some_location_reachable
EveryLocationUnreachable == requested \subseteq unreachable

\* The group's gather returns: the next group, or the end of collect and its gate.
GroupReturns ==
  /\ outcome = "collecting" /\ tasks = {}
  /\ IF group < Len(Groups)
     THEN /\ group' = group + 1
          /\ tasks' = PlanBatches(group + 1)
          /\ UNCHANGED outcome
     ELSE /\ outcome' = IF EveryLocationUnreachable THEN "unreachable" ELSE "collected"
          /\ UNCHANGED <<group, tasks>>
  /\ UNCHANGED <<fallbackOnly, requested, unreachable, folded, gaps, archive>>

TaskNext(t) ==
  \/ Request(t) \/ BatchAnswers(t) \/ DnsFails(t) \/ TransportFails(t) \/ WaitEnds(t)
  \/ \E answered \in SUBSET t.resources : FallbackAnswers(t, answered)
  \/ \E wrote \in BOOLEAN : Fold(t, wrote)

Next == GroupReturns \/ \E t \in tasks : TaskNext(t)

\* Every request is answered or fails, every wait ends, and the loop goes on.
Spec == Init /\ [][Next]_vars /\ WF_vars(Next)

-------------------------------------------------------------------------------
\* The values the variables take.
TypeOK ==
  /\ outcome \in {"collecting", "collected", "unreachable", "throttled", "failed", "type_error"}
  /\ group \in DOMAIN Groups
  /\ \A t \in tasks :
       /\ t.group \in 1 .. group
       /\ t.resources \in (SUBSET Resources(t.group)) \ {{}}
       /\ t.answered \subseteq t.resources
       /\ t.todo \in (SUBSET Names(Groups[t.group].metrics)) \ {{}}
       /\ t.split \in BOOLEAN
       /\ t.pc \in {"ready", "batch", "fallback", "waiting", "archiving"}
       /\ t.throttled \in 0 .. MaxConsecutive429 - 1
  /\ fallbackOnly \cup requested \cup unreachable \subseteq Location
  /\ folded \in [Pairs -> Nat] /\ gaps \in [Pairs -> Nat]
  /\ archive \in [pairs : SUBSET Pairs, incomplete : BOOLEAN]

\* A request that still has the pair to answer for.
Has(t, p) ==
  /\ p[1] = t.group /\ p[2] \in t.resources /\ p[3] \in t.todo
  /\ t.pc = "archiving" /\ p[3] \in Asked(t) => p[2] \in t.answered

\* However its batch was halved, split, retried or sent again, no pair is folded
\* into its accumulator twice, nor folded and reported as a gap, nor forgotten
\* unless a request has raised.
EachPairOnce ==
  \A p \in Pairs : p[1] <= group =>
    LET times == folded[p] + gaps[p] + Cardinality({t \in tasks : Has(t, p)})
    IN  times <= 1 /\ (times = 0 => outcome \in {"throttled", "failed", "type_error"})

\* An archive that is not marked incomplete holds what was folded and nothing else,
\* so a replay of it folds the same.
ReplayFoldsTheSame ==
  ~archive.incomplete => \A p \in Pairs : (p \in archive.pairs) <=> folded[p] > 0

\* The collection ends, and so does every request it started.
CollectionEnds == <>(outcome # "collecting" /\ tasks = {})

\* Stated by _handle_fallback, "archive and fold every per-resource ARM fallback
\* response": a fallback that answered does not end the run.
FallbackIsFolded == outcome # "type_error"

\* Stated by assert_some_location_reachable, "so no statistic was collected": a run
\* that ends unreachable folded nothing.
UnreachableFoldedNothing ==
  outcome = "unreachable" => \A p \in Pairs : folded[p] = 0

\* Refuted.  "Treating it as a gap instead ... turns a collectable subscription
\* into NO_STATISTICS" (azure/metrics.py): under a split a refusal is a gap.
RefusalIsNoGap ==
  [][\A t \in tasks : t.split /\ t.pc = "batch" /\ Refused(t) => gaps' = gaps]_vars
================================================================================
