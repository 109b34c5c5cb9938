-------------------------------- MODULE CloudWatch ------------------------------
(***************************************************************************)
(* How a run collects its metrics from AWS (aws/metrics.py and the         *)
(* provider's collect): the groups of a region and a type all at once,     *)
(* each group's calls one after the other.  A call holds the series of     *)
(* several resources, and of each resource all of them; its answer is      *)
(* archived, then folded, series by series of each pair.  A pair is one    *)
(* resource's metric.                                                      *)
(***************************************************************************)
EXTENDS Integers, Sequences, FiniteSets, FiniteSetsExt

CONSTANTS
  Areas,         \* a function from groups to [region, resources, metrics, statistics]
  Named,         \* the resources whose ARN says how CloudWatch calls them
  MaxQueries     \* MAX_QUERIES_PER_CALL

Group == DOMAIN Areas
Region == {Areas[g].region : g \in Group}
Members(seq) == {seq[i] : i \in DOMAIN seq}
PairsOf(g, resources) == {g} \X resources \X Areas[g].metrics
Pair == UNION {PairsOf(g, Members(Areas[g].resources)) : g \in Group}

\* What the constants may be.
ConstantsFit ==
  /\ MaxQueries \in Nat \ {0} /\ Group # {}
  /\ \A g \in Group :
       LET resources == Areas[g].resources IN
       /\ resources \in Seq(Members(resources))
       /\ \A i, j \in DOMAIN resources : resources[i] = resources[j] => i = j
       /\ IsFiniteSet(Areas[g].metrics) /\ Areas[g].metrics # {}
       /\ Areas[g].statistics \in Nat \ {0}

VARIABLES
  made,        \* how many of its calls a group has behind it
  answering,   \* the resources of the call that is being archived
  answers,     \* what CloudWatch said of each pair
  silent,      \* the regions that did not answer some call
  filed,       \* the pairs in the archive, and whether a write failed
  summed,      \* how often a pair was folded
  missed,      \* how often a call, or the fold of its answer, reported a pair
  verdict

vars == <<made, answering, answers, silent, filed, summed, missed, verdict>>

\* An answer of a pair: its points, no points, or a status that is not Complete, all of
\* which are alike to it.
Status == {"points", "nothing", "refused"}

Init ==
  /\ made = [g \in Group |-> 0]
  /\ answering = [g \in Group |-> {}]
  /\ answers = [p \in Pair |-> "due"]
  /\ silent = {}
  /\ filed = [pairs |-> {}, complete |-> TRUE]
  /\ summed = [p \in Pair |-> 0] /\ missed = [p \in Pair |-> 0]
  /\ verdict = "collecting"

-------------------------------------------------------------------------------
(***************************************************************************)
(* The calls of a group: as many resources as fit, in their order.         *)
(***************************************************************************)

\* Where in the group's inventory they stand.
Askable(g) == {i \in DOMAIN Areas[g].resources : Areas[g].resources[i] \in Named}

QueriesPerResource(g) == Cardinality(Areas[g].metrics) * Areas[g].statistics

\* A resource that alone is above the limit is a call of its own.
PerCall(g) == Max({1, MaxQueries \div QueriesPerResource(g)})

Calls(g) == (Cardinality(Askable(g)) + PerCall(g) - 1) \div PerCall(g)

CallOf(g, i) == Cardinality({j \in Askable(g) : j < i}) \div PerCall(g) + 1

Call(g, n) == {Areas[g].resources[i] : i \in {i \in Askable(g) : CallOf(g, i) = n}}

Once(count, pairs) == [p \in Pair |-> IF p \in pairs THEN count[p] + 1 ELSE count[p]]

-------------------------------------------------------------------------------
Due(g) == verdict = "collecting" /\ answering[g] = {} /\ made[g] < Calls(g)

\* The call is refused or gets no answer: a gap for each of its resources, and the region
\* is not reachable, whatever became of its other calls.
Fails(g) ==
  /\ Due(g)
  /\ made' = [made EXCEPT ![g] = @ + 1]
  /\ silent' = silent \cup {Areas[g].region}
  /\ missed' = Once(missed, PairsOf(g, Call(g, made[g] + 1)))
  /\ UNCHANGED <<answering, answers, filed, summed, verdict>>

\* All pages are there, and a document is made of them.
Answers(g) ==
  LET resources == Call(g, made[g] + 1) IN
  /\ Due(g)
  /\ \E said \in [PairsOf(g, resources) -> Status] :
       answers' = [p \in Pair |-> IF p \in DOMAIN said THEN said[p] ELSE answers[p]]
  /\ answering' = [answering EXCEPT ![g] = resources]
  /\ UNCHANGED <<made, silent, filed, summed, missed, verdict>>

\* fold_cloudwatch_document: a pair all of whose series are complete.
Foldable(pairs) == {p \in pairs : answers[p] = "points"}
Refused(pairs) == {p \in pairs : answers[p] = "refused"}

\* The document is written, which may fail, and folded, whether it did or not.
Folds(g) ==
  /\ answering[g] # {}
  /\ LET pairs == PairsOf(g, answering[g]) IN
       /\ \E wrote \in BOOLEAN :
            filed' = [pairs |-> IF wrote THEN filed.pairs \cup Foldable(pairs) ELSE filed.pairs,
                      complete |-> filed.complete /\ wrote]
       /\ summed' = Once(summed, Foldable(pairs))
       /\ missed' = Once(missed, Refused(pairs))
  /\ answering' = [answering EXCEPT ![g] = {}]
  /\ made' = [made EXCEPT ![g] = @ + 1]
  /\ UNCHANGED <<answers, silent, verdict>>

\* assert_some_location_reachable, then assert_some_statistic.
Gate ==
  /\ verdict = "collecting"
  /\ \A g \in Group : made[g] = Calls(g)
  /\ verdict' = IF Region \subseteq silent THEN "unreachable"
                ELSE IF \A p \in Pair : summed[p] = 0 THEN "no_statistics" ELSE "collected"
  /\ UNCHANGED <<made, answering, answers, silent, filed, summed, missed>>

Next == Gate \/ \E g \in Group : Fails(g) \/ Answers(g) \/ Folds(g)

Spec == Init /\ [][Next]_vars

-------------------------------------------------------------------------------
TypeOK ==
  /\ \A g \in Group : made[g] \in 0 .. Calls(g) /\ answering[g] \subseteq Members(Areas[g].resources)
  /\ answers \in [Pair -> Status \cup {"due"}]
  /\ silent \subseteq Region /\ filed.pairs \subseteq Pair
  /\ summed \in [Pair -> Nat] /\ missed \in [Pair -> Nat]
  /\ verdict \in {"collecting", "collected", "unreachable", "no_statistics"}

\* Whether a call is in order: within the limit, unless one resource alone is above it.
InLimit(g, n) ==
  Cardinality(Call(g, n)) * QueriesPerResource(g) <= MaxQueries \/ Cardinality(Call(g, n)) = 1

\* The calls of a group are within the limit and hold each of its resources once, so that
\* at the end each pair that can be asked for is folded, reported by its call, or known to
\* have no points, and only one of these.
EachPairOnce ==
  /\ \A g \in Group : \A n \in 1 .. Calls(g) : InLimit(g, n)
  /\ \A p \in Pair :
       LET times == summed[p] + missed[p] + (IF answers[p] = "nothing" THEN 1 ELSE 0)
       IN  times <= 1 /\ (verdict # "collecting" /\ p[2] \in Named => times = 1)

\* An archive that is not incomplete holds the pairs that were folded, and no others.
ReplayFoldsTheSame == filed.complete => filed.pairs = {p \in Pair : summed[p] > 0}

\* Refuted: a region that is said not to answer has folded nothing.
SilentFoldedNothing ==
  \A p \in Pair : Areas[p[1]].region \in silent => summed[p] = 0

\* Refuted: a run that ends unreachable has collected nothing.
UnreachableHasNothing == verdict = "unreachable" => \A p \in Pair : summed[p] = 0
================================================================================
