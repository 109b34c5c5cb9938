-------------------------------- MODULE Reaper --------------------------------
(***************************************************************************)
(* The scheduler tick over many runs: overlapping POST /api/cron/tick      *)
(* requests sweep expired rows, claim queued ones with FOR UPDATE SKIP     *)
(* LOCKED, gate each claimed row and start its agent, while submissions,   *)
(* agent callbacks, the clock and dying requests interleave.               *)
(*                                                                         *)
(* A deadline is kept as the time left before it.  A statement that takes  *)
(* row locks is two steps, the select and the commit: between them other   *)
(* statements read the old row and writers wait.  A callback is one step   *)
(* here: its decision depends on the status alone and its write is guarded *)
(* by that status (RunCallbacks takes it apart).                           *)
(***************************************************************************)
EXTENDS RunStates, Integers, FiniteSets

CONSTANTS
  Run,          \* rows, numbered in created_at order
  Tick,         \* concurrent tick requests
  NoDeadline,   \* phase_deadline IS NULL
  Budget,       \* PHASE_DEADLINE_SECONDS, in units of the clock
  ClaimLimit,   \* CLAIM_LIMIT
  SweepLimit,   \* SWEEP_LIMIT
  MaxOverdue,   \* how far past its deadline a row is still told apart
  MaxReports,   \* bound: accepted agent callbacks
  MaxCrashes    \* bound: tick requests that die

ASSUME RunAssumption == Run \subseteq Nat
ASSUME DeadlineAssumption == NoDeadline \notin Int
ASSUME BudgetAssumption == Budget \in [LiveStatus -> Nat]
ASSUME LimitAssumption ==
  /\ ClaimLimit \in Nat \ {0}
  /\ SweepLimit \in Nat \ {0}
  /\ MaxOverdue \in Nat \ {0}

VARIABLES
  status, errorCode,
  left,      \* phase_deadline - now, or NoDeadline
  pc,        \* what each tick request is doing
  batch,     \* the rows whose locks each tick's open statement holds
  job,       \* job[t][r]: how far tick t has brought run r to its invocation
  invoked,   \* runs' invocation requests so far
  agent,     \* the runs an agent was ever started for
  reports, crashes

rowVars == <<status, errorCode, left>>
tickVars == <<pc, batch, job>>
vars == <<rowVars, tickVars, invoked, agent, reports, crashes>>

TickPc == {"idle", "sweep", "sweeping", "claim", "claiming", "start"}
Stage == {"none", "gate", "reread", "pinned", "invoke"}

\* The codes the gate and the tick fail a claimed row with.
GateCodes == {"SCOPE_UNVERIFIED", "AUTH_EXPIRED", UnreadableCode}

Init ==
  /\ status = [r \in Run |-> "absent"]
  /\ errorCode = [r \in Run |-> NoCode]
  /\ left = [r \in Run |-> NoDeadline]
  /\ pc = [t \in Tick |-> "idle"]
  /\ batch = [t \in Tick |-> {}]
  /\ job = [t \in Tick |-> [r \in Run |-> "none"]]
  /\ invoked = [r \in Run |-> 0]
  /\ agent = {}
  /\ reports = 0 /\ crashes = 0

Locked(r) == \E t \in Tick : r \in batch[t]

Overdue(r) == left[r] # NoDeadline /\ left[r] < 0

-------------------------------------------------------------------------------
(***************************************************************************)
(* The environment: submissions and the clock.                             *)
(***************************************************************************)

\* The insert of enqueueRun (or of the tick's schedules).
Enqueue(r) ==
  /\ status[r] = "absent"
  /\ \A q \in Run : q < r => status[q] # "absent"
  /\ status' = [status EXCEPT ![r] = "queued"]
  /\ left' = [left EXCEPT ![r] = Budget["queued"]]
  /\ UNCHANGED <<errorCode, tickVars, invoked, agent, reports, crashes>>

Elapse ==
  /\ \E r \in Run : left[r] # NoDeadline /\ left[r] > -MaxOverdue
  /\ left' = [r \in Run |-> IF left[r] # NoDeadline /\ left[r] > -MaxOverdue
                              THEN left[r] - 1 ELSE left[r]]
  /\ UNCHANGED <<status, errorCode, tickVars, invoked, agent, reports, crashes>>

-------------------------------------------------------------------------------
(***************************************************************************)
(* One tick request.                                                       *)
(***************************************************************************)

BeginTick(t) ==
  /\ pc[t] = "idle"
  /\ pc' = [pc EXCEPT ![t] = "sweep"]
  /\ UNCHANGED <<rowVars, batch, job, invoked, agent, reports, crashes>>

\* A slip: SWEEPABLE forgets the phase between the claim and the first callback.
DueForgettingClaimed ==
  {r \in Run : status[r] \in LiveStatus \ {"claimed"} /\ Overdue(r) /\ ~Locked(r)}

\* The rows of the sweep's CTE, before ORDER BY and LIMIT.
Due == {r \in Run : status[r] \in LiveStatus /\ Overdue(r) /\ ~Locked(r)}

\* The locking half of sweepExpiredRuns: the most overdue first.
SweepSelect(t) ==
  /\ pc[t] = "sweep"
  /\ \E S \in SUBSET Due :
       /\ Cardinality(S) <= SweepLimit
       /\ (S = Due \/ Cardinality(S) = SweepLimit)
       /\ \A r \in S, q \in Due \ S : left[r] <= left[q]
       /\ batch' = [batch EXCEPT ![t] = S]
  /\ pc' = [pc EXCEPT ![t] = "sweeping"]
  /\ UNCHANGED <<rowVars, job, invoked, agent, reports, crashes>>

SweepCommit(t) ==
  /\ pc[t] = "sweeping"
  /\ status' = [r \in Run |-> IF r \in batch[t] THEN "failed" ELSE status[r]]
  /\ errorCode' =
       [r \in Run |-> IF r \in batch[t] THEN TimeoutCode ELSE errorCode[r]]
  /\ left' = [r \in Run |-> IF r \in batch[t] THEN NoDeadline ELSE left[r]]
  /\ batch' = [batch EXCEPT ![t] = {}]
  /\ pc' = [pc EXCEPT ![t] = "claim"]
  /\ UNCHANGED <<job, invoked, agent, reports, crashes>>

\* A slip: a plain SELECT ... LIMIT, which hands two ticks the same rows.
ClaimablePlain == {r \in Run : status[r] = "queued"}

\* The rows of the claim's subquery, before ORDER BY and LIMIT.
Claimable == {r \in Run : status[r] = "queued" /\ ~Locked(r)}

\* The locking half of claimQueuedRuns: the oldest first.
ClaimSelect(t) ==
  /\ pc[t] = "claim"
  /\ \E S \in SUBSET Claimable :
       /\ Cardinality(S) <= ClaimLimit
       /\ (S = Claimable \/ Cardinality(S) = ClaimLimit)
       /\ \A r \in S, q \in Claimable \ S : r < q
       /\ batch' = [batch EXCEPT ![t] = S]
  /\ pc' = [pc EXCEPT ![t] = "claiming"]
  /\ UNCHANGED <<rowVars, job, invoked, agent, reports, crashes>>

ClaimCommit(t) ==
  /\ pc[t] = "claiming"
  /\ status' = [r \in Run |-> IF r \in batch[t] THEN "claimed" ELSE status[r]]
  /\ left' = [r \in Run |-> IF r \in batch[t] THEN Budget["claimed"] ELSE left[r]]
  /\ job' = [job EXCEPT ![t] = [r \in Run |-> IF r \in batch[t]
                                                THEN "gate" ELSE "none"]]
  /\ batch' = [batch EXCEPT ![t] = {}]
  /\ pc' = [pc EXCEPT ![t] = "start"]
  /\ UNCHANGED <<errorCode, invoked, agent, reports, crashes>>

\* A slip: the UPDATE guarded by the row's id alone.
FailRunUnguarded(r, code) ==
  /\ ~Locked(r)
  /\ status' = [status EXCEPT ![r] = "failed"]
  /\ errorCode' = [errorCode EXCEPT ![r] = code]
  /\ left' = [left EXCEPT ![r] = NoDeadline]

\* failClaimedRun: an UPDATE guarded by status = 'claimed', whose outcome its
\* callers ignore.
FailClaimedRun(r, code) ==
  /\ ~Locked(r)
  /\ IF status[r] = "claimed"
       THEN /\ status' = [status EXCEPT ![r] = "failed"]
            /\ errorCode' = [errorCode EXCEPT ![r] = code]
            /\ left' = [left EXCEPT ![r] = NoDeadline]
       ELSE UNCHANGED rowVars

GoOn(t, r, stage) == job' = [job EXCEPT ![t][r] = stage]

\* The gate of startRunInvocation and the credentials it unseals: refused,
\* raised (the row is left for the sweep), or passed.
Gate(t, r) ==
  /\ job[t][r] = "gate"
  /\ \/ GoOn(t, r, "reread") /\ UNCHANGED rowVars
     \/ GoOn(t, r, "none") /\ UNCHANGED rowVars
     \/ /\ \E code \in GateCodes : FailClaimedRun(r, code)
        /\ GoOn(t, r, "none")
  /\ UNCHANGED <<pc, batch, invoked, agent, reports, crashes>>

\* readRunStatus: a plain read, which waits for no lock.
Reread(t, r) ==
  /\ job[t][r] = "reread"
  /\ GoOn(t, r, IF status[r] = "claimed" THEN "pinned" ELSE "none")
  /\ UNCHANGED <<rowVars, pc, batch, invoked, agent, reports, crashes>>

\* The pinned version and the run's other inputs are read: found, missing, or
\* the read raises.
ReadPinned(t, r) ==
  /\ job[t][r] = "pinned"
  /\ \/ GoOn(t, r, "invoke") /\ UNCHANGED rowVars
     \/ GoOn(t, r, "none") /\ UNCHANGED rowVars
     \/ FailClaimedRun(r, "TEMPLATE_INVALID") /\ GoOn(t, r, "none")
  /\ UNCHANGED <<pc, batch, invoked, agent, reports, crashes>>

\* invokeAgentRuntime under startWithin: whatever the tick is told (a stream,
\* a timeout, an error), an agent may or may not have been started.
Invoke(t, r) ==
  /\ job[t][r] = "invoke"
  /\ GoOn(t, r, "none")
  /\ invoked' = [invoked EXCEPT ![r] = @ + 1]
  /\ \/ agent' = agent \cup {r}
     \/ UNCHANGED agent
  /\ UNCHANGED <<rowVars, pc, batch, reports, crashes>>

EndTick(t) ==
  /\ pc[t] = "start"
  /\ \A r \in Run : job[t][r] = "none"
  /\ pc' = [pc EXCEPT ![t] = "idle"]
  /\ UNCHANGED <<rowVars, batch, job, invoked, agent, reports, crashes>>

\* The request dies at any point (its function is killed, the connection to
\* the database drops): an open statement rolls back, and nothing remembers
\* what was still to be started.
CrashTick(t) ==
  /\ pc[t] # "idle"
  /\ crashes < MaxCrashes
  /\ crashes' = crashes + 1
  /\ pc' = [pc EXCEPT ![t] = "idle"]
  /\ batch' = [batch EXCEPT ![t] = {}]
  /\ job' = [job EXCEPT ![t] = [r \in Run |-> "none"]]
  /\ UNCHANGED <<rowVars, invoked, agent, reports>>

-------------------------------------------------------------------------------
(***************************************************************************)
(* The agents, seen from the row: an accepted progress callback.           *)
(***************************************************************************)

\* A slip: the sweep's select takes no row locks, so a callback writes between
\* its two halves.
AgentReportsUnlocked(r, target) ==
  /\ r \in agent
  /\ target \in AcceptedTargets(status[r]) \cap AgentPhases
  /\ reports < MaxReports
  /\ reports' = reports + 1
  /\ status' = [status EXCEPT ![r] = target]
  /\ errorCode' = [errorCode EXCEPT
                     ![r] = IF target = "failed" THEN "AGENT_FAILURE" ELSE NoCode]
  /\ left' = [left EXCEPT
                ![r] = IF target \in Terminal THEN NoDeadline ELSE Budget[target]]
  /\ UNCHANGED <<tickVars, invoked, agent, crashes>>

AgentReports(r, target) ==
  /\ r \in agent
  /\ ~Locked(r)
  /\ target \in AcceptedTargets(status[r]) \cap AgentPhases
  /\ reports < MaxReports
  /\ reports' = reports + 1
  /\ status' = [status EXCEPT ![r] = target]
  /\ errorCode' = [errorCode EXCEPT
                     ![r] = IF target = "failed" THEN "AGENT_FAILURE" ELSE NoCode]
  /\ left' = [left EXCEPT
                ![r] = IF target \in Terminal THEN NoDeadline ELSE Budget[target]]
  /\ UNCHANGED <<tickVars, invoked, agent, crashes>>

-------------------------------------------------------------------------------
StartRun(t, r) == Gate(t, r) \/ Reread(t, r) \/ ReadPinned(t, r) \/ Invoke(t, r)

RunTick(t) ==
  \/ BeginTick(t)
  \/ SweepSelect(t) \/ SweepCommit(t)
  \/ ClaimSelect(t) \/ ClaimCommit(t)
  \/ \E r \in Run : StartRun(t, r)
  \/ EndTick(t)

Next ==
  \/ Elapse
  \/ \E r \in Run : Enqueue(r)
  \/ \E t \in Tick : RunTick(t) \/ CrashTick(t)
  \/ \E r \in Run, target \in AgentPhases : AgentReports(r, target)

Spec == Init /\ [][Next]_vars

\* The clock advances, the schedule keeps calling the tick and a running tick
\* finishes.  Nothing is assumed of submissions, agents or crashes.
Fairness ==
  /\ WF_vars(Elapse)
  /\ \A t \in Tick : WF_vars(RunTick(t))

FairSpec == Spec /\ Fairness

-------------------------------------------------------------------------------
(***************************************************************************)
(* Properties.                                                             *)
(***************************************************************************)

\* Every value is in range, and row locks are held by open statements only: a
\* request that ended or died left no row locked for later ticks to skip.
TypeOK ==
  /\ status \in [Run -> Status \cup {"absent"}]
  /\ errorCode \in [Run -> RowErrorCodes \cup {NoCode}]
  /\ left \in [Run -> Int \cup {NoDeadline}]
  /\ pc \in [Tick -> TickPc]
  /\ batch \in [Tick -> SUBSET Run]
  /\ job \in [Tick -> [Run -> Stage]]
  /\ invoked \in [Run -> Nat]
  /\ agent \in SUBSET Run
  /\ reports \in Nat /\ crashes \in Nat
  /\ \A t \in Tick : batch[t] # {} => pc[t] \in {"sweeping", "claiming"}

\* Row locks exclude: no two open statements hold one row, and what a statement
\* selected is still true of the rows it holds when it commits.
LocksExclude ==
  \A t \in Tick, r \in Run : r \in batch[t] =>
    /\ \A u \in Tick : u # t => r \notin batch[u]
    /\ pc[t] = "sweeping" => status[r] \in LiveStatus /\ Overdue(r)
    /\ pc[t] = "claiming" => status[r] = "queued"

\* A claimed run is one tick's to start: while it is, no agent was started for
\* it and nobody but the sweep can have failed it.
OneStarter ==
  \A t \in Tick, r \in Run : job[t][r] # "none" =>
    /\ pc[t] = "start"
    /\ \A u \in Tick : u # t => job[u][r] = "none"
    /\ status[r] \notin {"absent", "queued"}
    /\ errorCode[r] \in {NoCode, TimeoutCode}
    /\ invoked[r] = 0 /\ r \notin agent

\* Nothing was invoked before the claim, or more than once after it.
InvokedAfterClaim ==
  \A r \in Run :
    /\ status[r] \in {"absent", "queued"} => invoked[r] = 0
    /\ r \in agent => invoked[r] = 1
    /\ invoked[r] \in {0, 1}
    /\ errorCode[r] \in GateCodes \cup {"TEMPLATE_INVALID"} => invoked[r] = 0

\* An error code exactly while failed, a deadline exactly while live.
RowConsistent ==
  \A r \in Run :
    /\ (status[r] = "failed") <=> (errorCode[r] # NoCode)
    /\ (left[r] # NoDeadline) <=> (status[r] \in LiveStatus)

\* The inductive invariant: why the ticks' statements cannot harm each other.
Inv == TypeOK /\ LocksExclude /\ OneStarter /\ InvokedAfterClaim /\ RowConsistent

\* Whatever ticks, agents and crashes interleave, every row behaves as the run
\* machine promises: claimQueuedRuns, sweepExpiredRuns, failClaimedRun and the
\* progress write never move a row along an edge DRIVEN does not list, never
\* revive a terminal row and never leave a live row without a deadline.
Machine == INSTANCE RunMachine
             WITH armed <- [r \in Run |-> left[r] # NoDeadline]
Refines == Machine!Spec

\* Overlapping ticks start no run twice: the invocation request of a run is
\* made at most once in its life (FOR UPDATE SKIP LOCKED in claimQueuedRuns,
\* and the re-read before the invocation).
AtMostOneInvocation == \A r \in Run : invoked[r] <= 1

\* A row failed at the gate says "no collection was attempted", and none was:
\* startRunInvocation never goes on to the agent after failClaimedRun.
GatedNeverInvoked ==
  \A r \in Run :
    errorCode[r] \in GateCodes \cup {"TEMPLATE_INVALID"} =>
      invoked[r] = 0 /\ r \notin agent

\* The sweep never times out a run that is on time: a callback that re-armed
\* the deadline cannot slip between the sweep's select and its update.
ReapedOnlyWhenOverdue ==
  [][\A r \in Run :
       errorCode[r] # TimeoutCode /\ errorCode'[r] = TimeoutCode => Overdue(r)]_vars

\* Refuted (README, section 11): "a queued row past its deadline must be failed
\* rather than claimed" (claim.ts).
ExpiredQueuedNeverClaimed ==
  [][\A r \in Run :
       status[r] = "queued" /\ status'[r] = "claimed" => ~Overdue(r)]_vars

\* Every submitted run ends, whether its tick died, its agent never started or
\* fell silent: as long as ticks keep coming, the deadline finds it.
EventuallyTerminal ==
  \A r \in Run : status[r] = "queued" ~> status[r] \in Terminal
===============================================================================
