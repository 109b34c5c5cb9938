------------------------------- MODULE Collections -----------------------------
(***************************************************************************)
(* The collections run inside a request: the scan of a connector and the   *)
(* live pull of its machines.  A request keeps a row, asks the runtime,    *)
(* reads its events to the last one, and writes how it ended.              *)
(***************************************************************************)
EXTENDS Naturals, FiniteSets

CONSTANTS
  Job,       \* the requests, in the order their rows are created
  Scan,      \* those that scan; the others pull
  Mortal,    \* whether a request may die
  MaxEvents, \* bound: the events the runtime sends before its last
  None

\* What the constants may be.
ConstantsFit ==
  /\ Scan \subseteq Job /\ Job \subseteq Nat
  /\ Mortal \in BOOLEAN /\ MaxEvents \in Nat /\ None \notin Job

VARIABLES
  row,      \* subscription_scans, live_metric_pulls: each row's status, or "none"
  job,      \* how far each request is, and what it has heard
  runtime,  \* what the runtime has really done for each
  readable  \* whether the connector's secret can be decrypted

vars == <<row, job, runtime, readable>>

Unheard == [error |-> FALSE, snapshot |-> FALSE]
NotRun == [events |-> 0, failed |-> FALSE, snapshot |-> FALSE, done |-> FALSE]

Init ==
  /\ row = [j \in Job |-> "none"]
  /\ job = [j \in Job |-> [pc |-> "idle", heard |-> Unheard, outcome |-> None]]
  /\ runtime = [j \in Job |-> NotRun]
  /\ readable \in BOOLEAN

Moves(j, from, to) == job[j].pc = from /\ job' = [job EXCEPT ![j].pc = to]

-------------------------------------------------------------------------------
\* The secret is rotated to one that can be decrypted, or its key is lost.
Rotate ==
  /\ readable' = ~readable
  /\ UNCHANGED <<row, job, runtime>>

\* A pull resolves the connector's credentials first; a refusal leaves no row.
PullResolve(j) ==
  /\ j \notin Scan /\ readable /\ Moves(j, "idle", "resolved")
  /\ UNCHANGED <<row, runtime, readable>>

\* createLivePull
PullCreate(j) ==
  /\ Moves(j, "resolved", "ready")
  /\ row' = [row EXCEPT ![j] = "queued"]
  /\ UNCHANGED <<runtime, readable>>

\* createScan, once the connector is verified and its secret has not expired.
ScanCreate(j) ==
  /\ j \in Scan /\ Moves(j, "idle", "created")
  /\ row' = [row EXCEPT ![j] = "queued"]
  /\ UNCHANGED <<runtime, readable>>

\* A scan resolves the credentials after its row is there: SECRET_UNREADABLE is answered, and
\* the row stays.
ScanResolve(j) ==
  /\ Moves(j, "created", IF readable THEN "ready" ELSE "refused")
  /\ UNCHANGED <<row, runtime, readable>>

\* executeScan, executeLivePull: the row says so before the runtime is asked.
Run(j) ==
  /\ Moves(j, "ready", "invoking")
  /\ row' = [row EXCEPT ![j] = "running"]
  /\ UNCHANGED <<runtime, readable>>

Ends(j, stage, outcome) == [job[j] EXCEPT !.pc = stage, !.outcome = outcome]

\* invokeAgentRuntime, which no deadline is raced against: the runtime answers with a stream,
Invoked(j) ==
  /\ Moves(j, "invoking", "reading")
  /\ UNCHANGED <<row, runtime, readable>>

\* or the call raises, and there is no stream to release.
InvokeFails(j) ==
  /\ job[j].pc = "invoking"
  /\ job' = [job EXCEPT ![j] = Ends(j, "writing", "failed")]
  /\ UNCHANGED <<row, runtime, readable>>

-------------------------------------------------------------------------------
(***************************************************************************)
(* The events.                                                             *)
(***************************************************************************)

Reading(j) == job[j].pc = "reading" /\ ~runtime[j].done

\* snapshot_ready: only a pull's runtime writes a snapshot.
Snapshot(j) ==
  /\ Reading(j) /\ j \notin Scan /\ runtime[j].events < MaxEvents
  /\ runtime' = [runtime EXCEPT ![j].events = @ + 1, ![j].snapshot = TRUE]
  /\ job' = [job EXCEPT ![j].heard.snapshot = TRUE]
  /\ UNCHANGED <<row, readable>>

\* An error: a scan heeds each, a pull only those that end it.
Error(j) ==
  /\ Reading(j) /\ runtime[j].events < MaxEvents
  /\ \E terminal \in BOOLEAN :
       /\ runtime' = [runtime EXCEPT ![j].events = @ + 1, ![j].failed = @ \/ terminal]
       /\ job' = [job EXCEPT ![j].heard.error = @ \/ terminal \/ j \in Scan]
  /\ UNCHANGED <<row, readable>>

\* A slip: a pull that has its snapshot is complete, whatever error came with it.
JudgeBySnapshot(j) ==
  IF IF j \in Scan THEN ~job[j].heard.error ELSE job[j].heard.snapshot THEN "complete" ELSE "failed"

Judge(j) ==
  IF ~job[j].heard.error /\ (j \in Scan \/ job[j].heard.snapshot) THEN "complete" ELSE "failed"

\* done, after which nothing is read.
Done(j) ==
  /\ Reading(j)
  /\ runtime' = [runtime EXCEPT ![j].done = TRUE]
  /\ job' = [job EXCEPT ![j] = Ends(j, "releasing", Judge(j))]
  /\ UNCHANGED <<row, readable>>

\* A slip: a stream that breaks is thrown past the write.
BreakUncaught(j) ==
  /\ Moves(j, "reading", "refused")
  /\ UNCHANGED <<row, runtime, readable>>

\* The stream fails or ends early, or the time is up, which is raced against each read.
Break(j) ==
  /\ job[j].pc = "reading"
  /\ job' = [job EXCEPT ![j] = Ends(j, "releasing", "failed")]
  /\ UNCHANGED <<row, runtime, readable>>

\* releaseIterator, awaited before the row is written: the stream lets go, or raises.
Release(j) ==
  /\ Moves(j, "releasing", "writing")
  /\ UNCHANGED <<row, runtime, readable>>

Write(j) ==
  /\ Moves(j, "writing", "over")
  /\ row' = [row EXCEPT ![j] = job[j].outcome]
  /\ UNCHANGED <<runtime, readable>>

\* The process dies, or the last write fails.
Die(j) ==
  /\ Mortal /\ job[j].pc \notin {"idle", "refused", "over", "dead"}
  /\ job' = [job EXCEPT ![j].pc = "dead"]
  /\ UNCHANGED <<row, runtime, readable>>

\* The request's own steps, its deadline among them,
Own(j) == PullCreate(j) \/ ScanResolve(j) \/ Run(j) \/ Break(j) \/ Write(j)

\* and those it waits for the runtime to make.
Answer(j) ==
  Invoked(j) \/ InvokeFails(j) \/ Snapshot(j) \/ Error(j) \/ Done(j) \/ Release(j)

Next ==
  \/ Rotate
  \/ \E j \in Job : PullResolve(j) \/ ScanCreate(j) \/ Own(j) \/ Answer(j) \/ Die(j)

\* A request that is not dead takes its own steps.  The runtime need not take any: a read has
\* its deadline, but neither the invocation nor the release of the stream has one.
Fairness == \A j \in Job : WF_vars(Own(j))

Spec == Init /\ [][Next]_vars /\ Fairness

-------------------------------------------------------------------------------
Status == {"none", "queued", "running", "complete", "failed"}

\* The values the variables take, and the status of a row while its request is on its way.
TypeOK ==
  /\ row \in [Job -> Status] /\ readable \in BOOLEAN
  /\ \A j \in Job :
       /\ job[j].outcome \in {None, "complete", "failed"}
       /\ job[j].pc \in {"idle", "resolved"} => row[j] = "none"
       /\ job[j].pc \in {"created", "ready"} => row[j] = "queued"
       /\ job[j].pc \in {"invoking", "reading", "releasing", "writing"} => row[j] = "running"
       /\ job[j].pc = "over" => row[j] \in {"complete", "failed"}

\* A row is complete only when the runtime was: it said so, no error had ended it, and a
\* pull's snapshot is there to be cited (executeLivePull).
CompleteIsTrue ==
  \A j \in Job :
    row[j] = "complete" =>
      runtime[j].done /\ ~runtime[j].failed /\ (j \in Scan \/ runtime[j].snapshot)

\* Where nothing but the runtime moves a request: before the first read, and after the last.
AwaitsRuntime(j) == job[j].pc \in {"invoking", "releasing"}

\* "A failure MUST write the row to `failed`" (scans/execute.ts): whatever the stream brings, or
\* does not bring, the running row of a request that lives comes to its end, unless the runtime
\* leaves the invocation unanswered or the stream unreleased for ever.
RunningEnds ==
  \A j \in Job :
    (row[j] = "running") ~>
      (row[j] \in {"complete", "failed"} \/ job[j].pc = "dead" \/ []AwaitsRuntime(j))

\* "The scan is still running. Its counts appear here when it finishes."
\* (connector-inventory.tsx): the latest scan, if it is not over, comes to be over or a
\* later one is asked for.
LatestFinishes ==
  \A j \in Scan :
    (row[j] # "none") ~>
      (row[j] \in {"complete", "failed"} \/ \E k \in Scan : k > j /\ row[k] # "none")

\* Refuted (README, section 11), of a request that dies and of one that lives: "NEVER leave it
\* `running`" (scans/execute.ts).
NeverLeftRunning == \A j \in Job : (row[j] = "running") ~> (row[j] \in {"complete", "failed"})
================================================================================
