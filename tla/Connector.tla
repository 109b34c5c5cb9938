-------------------------------- MODULE Connector ------------------------------
(***************************************************************************)
(* The row of one connector, its verdict and its listings.  A rotation     *)
(* (Azure) or a verification (AWS) asks the runtime for a preflight, which *)
(* takes seconds, and then writes the row in one statement.  The pickers   *)
(* of the editor ask for the connector's inventory, which one process      *)
(* caches against the `updated_at` it has read.                            *)
(***************************************************************************)
EXTENDS Naturals, FiniteSets

CONSTANTS
  Writer,     \* the requests that rotate or verify, each with a secret of its own
  Lister,     \* the requests for the inventory
  TTL,        \* INVENTORY_CACHE_TTL_MS, in ticks
  None,
  MaxClock,   \* bound: the instants
  MaxChanges, \* bound: the times the customer grants or withdraws the role
  MaxFailures, \* bound: the preflights that fail for a reason of their own, and the deaths
  Distinct    \* whether each write of the row has an instant of its own

\* What the constants may be.
ConstantsFit ==
  /\ TTL \in Nat /\ MaxClock \in Nat /\ MaxChanges \in Nat /\ MaxFailures \in Nat
  /\ Distinct \in BOOLEAN /\ None \notin Writer

VARIABLES
  provider, \* "azure" or "aws", for good
  row,      \* connected_subscriptions: secret, verified, status, updated_at
  writer,   \* how far each rotation or verification is, and the verdict it got
  granted,  \* whether the customer's role grants what the preflight asserts
  passed,   \* the secrets a preflight has passed with
  lister,   \* how far each request for the inventory is, and what it holds
  cache,    \* the entry of this connector in the process's map, or None
  clock, changes, failures

vars == <<provider, row, writer, granted, passed, lister, cache, clock, changes, failures>>

First == None  \* the secret the connector was created with; an AWS role has no other

\* statusFor
StatusFor(verified) == IF verified THEN "active" ELSE "pending"

\* A connector as some history has left it: active, or pending since it was created or
\* since a preflight refused.
Init ==
  /\ provider \in {"azure", "aws"}
  /\ \E v \in BOOLEAN :
       /\ row = [secret |-> First, verified |-> v, status |-> StatusFor(v), updatedAt |-> 0]
       /\ granted = v /\ passed = (IF v THEN {First} ELSE {})
  /\ writer = [w \in Writer |-> [pc |-> "idle"]]
  /\ lister = [l \in Lister |-> [pc |-> "idle"]]
  /\ cache = None
  /\ clock = 0 /\ changes = 0 /\ failures = 0

-------------------------------------------------------------------------------
(***************************************************************************)
(* Rotation and verification.                                              *)
(***************************************************************************)

Tick ==
  /\ clock < MaxClock /\ clock' = clock + 1
  /\ UNCHANGED <<provider, row, writer, granted, passed, lister, cache, changes, failures>>

\* The customer deploys the role, or removes it.
Change ==
  /\ changes < MaxChanges /\ changes' = changes + 1
  /\ granted' = ~granted
  /\ UNCHANGED <<provider, row, writer, passed, lister, cache, clock, failures>>

\* resolveSubscriptionIdentity or readAwsConnectorSetup, and the invocation.
Ask(w) ==
  /\ writer[w].pc = "idle"
  /\ writer' = [writer EXCEPT ![w] = [pc |-> "asking"]]
  /\ UNCHANGED <<provider, row, granted, passed, lister, cache, clock, changes, failures>>

Tested(w) == IF provider = "azure" THEN w ELSE First

\* runPreflight, runAwsPreflight: what the runtime finds at that moment.
Answer(w) ==
  /\ writer[w].pc = "asking"
  /\ writer' = [writer EXCEPT ![w] = [pc |-> "answered", verdict |-> granted]]
  /\ passed' = IF granted THEN passed \cup {Tested(w)} ELSE passed
  /\ UNCHANGED <<provider, row, granted, lister, cache, clock, changes, failures>>

\* The runtime does not answer, or is throttled: the scope is not proved.
Fail(w) ==
  /\ writer[w].pc = "asking" /\ failures < MaxFailures
  /\ failures' = failures + 1
  /\ writer' = [writer EXCEPT ![w] = [pc |-> "answered", verdict |-> FALSE]]
  /\ UNCHANGED <<provider, row, granted, passed, lister, cache, clock, changes>>

\* The process dies, and nothing is recorded.
Die(w) ==
  /\ writer[w].pc # "idle" /\ failures < MaxFailures
  /\ failures' = failures + 1
  /\ writer' = [writer EXCEPT ![w] = [pc |-> "idle"]]
  /\ UNCHANGED <<provider, row, granted, passed, lister, cache, clock, changes>>

Instant == Distinct => clock > row.updatedAt

\* A slip: a pass does not clear the refusal before it.
RecordUncleared(w) ==
  /\ writer[w].pc = "answered" /\ Instant
  /\ LET v == row.verified /\ writer[w].verdict
     IN  row' = [secret |-> Tested(w), verified |-> v, status |-> StatusFor(v), updatedAt |-> clock]
  /\ writer' = [writer EXCEPT ![w] = [pc |-> "idle"]]
  /\ UNCHANGED <<provider, granted, passed, lister, cache, clock, changes, failures>>

\* rotateClientSecret or recordAwsPreflight: one statement, whatever the row has become.
Record(w) ==
  /\ writer[w].pc = "answered" /\ Instant
  /\ row' = [secret |-> Tested(w), verified |-> writer[w].verdict,
             status |-> StatusFor(writer[w].verdict), updatedAt |-> clock]
  /\ writer' = [writer EXCEPT ![w] = [pc |-> "idle"]]
  /\ UNCHANGED <<provider, granted, passed, lister, cache, clock, changes, failures>>

-------------------------------------------------------------------------------
(***************************************************************************)
(* The inventory, and its cache.                                           *)
(***************************************************************************)

\* readSubscriptionRowState; a row that is not active is answered with its status.
ReadRow(l) ==
  /\ lister[l].pc = "idle" /\ row.status = "active"
  /\ lister' = [lister EXCEPT ![l] = [pc |-> "read", seen |-> row.updatedAt]]
  /\ UNCHANGED <<provider, row, writer, granted, passed, cache, clock, changes, failures>>

\* readInventoryCache
Hit(l) ==
  /\ cache # None /\ cache.rowUpdatedAt = lister[l].seen
  /\ clock >= cache.at /\ clock - cache.at <= TTL

Serve(l) ==
  /\ lister[l].pc = "read" /\ Hit(l)
  /\ lister' = [lister EXCEPT ![l] = [pc |-> "served", seen |-> lister[l].seen, by |-> cache.by]]
  /\ UNCHANGED <<provider, row, writer, granted, passed, cache, clock, changes, failures>>

\* resolveConnectorCredentials: the row is read again; `by` is the credential, by its instant.
Resolve(l) ==
  /\ lister[l].pc = "read" /\ ~Hit(l)
  /\ lister' = [lister EXCEPT ![l] = [pc |-> "listing", seen |-> lister[l].seen, by |-> row.updatedAt]]
  /\ UNCHANGED <<provider, row, writer, granted, passed, cache, clock, changes, failures>>

\* A slip: the entry is stored against the row as it is by then.
StoreAgainstCurrent(l) ==
  /\ lister[l].pc = "listing"
  /\ cache' = [at |-> clock, rowUpdatedAt |-> row.updatedAt, by |-> lister[l].by]
  /\ lister' = [lister EXCEPT ![l] = [pc |-> "idle"]]
  /\ UNCHANGED <<provider, row, writer, granted, passed, clock, changes, failures>>

\* listInventory answers, and writeInventoryCache stores it against what was read first.
Store(l) ==
  /\ lister[l].pc = "listing"
  /\ cache' = [at |-> clock, rowUpdatedAt |-> lister[l].seen, by |-> lister[l].by]
  /\ lister' = [lister EXCEPT ![l] = [pc |-> "idle"]]
  /\ UNCHANGED <<provider, row, writer, granted, passed, clock, changes, failures>>

\* The listing is not available (nothing is stored), or the answer has been read.
Leave(l) ==
  /\ lister[l].pc \in {"listing", "served"}
  /\ lister' = [lister EXCEPT ![l] = [pc |-> "idle"]]
  /\ UNCHANGED <<provider, row, writer, granted, passed, cache, clock, changes, failures>>

Next ==
  \/ Tick \/ Change
  \/ \E w \in Writer : Ask(w) \/ Answer(w) \/ Fail(w) \/ Die(w) \/ Record(w)
  \/ \E l \in Lister : ReadRow(l) \/ Serve(l) \/ Resolve(l) \/ Store(l) \/ Leave(l)

(***************************************************************************)
(* A request that is running goes on, and whoever finds the connector      *)
(* pending presses Verify (again).                                         *)
(***************************************************************************)
Fairness ==
  \A w \in Writer :
    /\ WF_vars(Answer(w) \/ Record(w)) /\ WF_vars(row.status = "pending" /\ Ask(w))

Spec == Init /\ [][Next]_vars /\ Fairness

-------------------------------------------------------------------------------
\* The values the variables take; the cache holds nothing from beyond the row's history.
TypeOK ==
  /\ provider \in {"azure", "aws"} /\ granted \in BOOLEAN /\ passed \subseteq Writer \cup {First}
  /\ row.secret \in Writer \cup {First} /\ row.verified \in BOOLEAN
  /\ row.status = StatusFor(row.verified) /\ row.updatedAt <= clock
  /\ \A w \in Writer : writer[w].pc = "answered" => writer[w].verdict \in BOOLEAN
  /\ cache # None => cache.at <= clock /\ cache.rowUpdatedAt <= row.updatedAt /\ cache.by <= row.updatedAt
  /\ clock \in 0 .. MaxClock /\ changes \in 0 .. MaxChanges /\ failures \in 0 .. MaxFailures

\* "No `active` row without a `scope_verified: true` preflight" (statusFor), of the secret the
\* row holds, whichever rotations overlapped.
ActiveIsProven == row.status = "active" => row.secret \in passed

\* "A rotated credential ... [lists] the subscription again rather than serve the answer the
\* previous credential produced" (inventory-cache.ts), a rotation during the listing included.
NeverServedByPrevious == \A l \in Lister : lister[l].pc = "served" => lister[l].by >= lister[l].seen

\* An active connector holds a secret that has passed, and no listing is served that an
\* earlier credential produced (subscriptions/store.ts, inventory-cache.ts).
ConnectorIsSound == TypeOK /\ ActiveIsProven /\ NeverServedByPrevious

\* "A customer who fixes the role can simply verify again" (verify/route.ts): once the role
\* stays granted, the connector comes to be active for good, refusals in flight included.
FixedRoleActivates == <>[]granted => <>[](row.status = "active")
================================================================================
