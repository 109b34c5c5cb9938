----------------------------- MODULE RunCallbacks -----------------------------
(***************************************************************************)
(* One claimed run, from the agent's first callback to its last: the       *)
(* agent's pipeline and its progress reporter, requests in flight, the two *)
(* internal endpoints that read the row and then write it, and the sweep.  *)
(*                                                                         *)
(* A request is read and answered in two steps, so that the row may change *)
(* between them.  With Lossy, a request may be lost, its reply may be lost,*)
(* or it may be given up on after its timeout while the app still works on *)
(* it: it is then late, and lands whenever it likes.                       *)
(***************************************************************************)
EXTENDS RunStates, Naturals, Sequences, FiniteSets

CONSTANTS
  Lossy,        \* whether requests may be lost, late or cut off
  Total,        \* the inventory's size, the count a full collection reports
  MaxResends,   \* Len(TERMINAL_REFUSED_RETRY_DELAYS_S)
  MaxLate,      \* bound: late requests at any time
  NoCount,      \* a count that is absent, or a progress column that is NULL
  Idle,         \* no request in flight
  Unread        \* the endpoint has not read the row yet

ASSUME LossyAssumption == Lossy \in BOOLEAN
ASSUME CountAssumption == Total \in Nat \ {0} /\ NoCount \notin Nat
ASSUME BoundAssumption == MaxResends \in Nat /\ MaxLate \in Nat

\* PROGRESS_MAX_ATTEMPTS
MaxAttempts == 2

Count == 0 .. Total
Body == [phase : AgentPhases \cup {"verification"}, count : Count \cup {NoCount}]
Seen == [status : Status, progress : Count \cup {NoCount}]
Request == [body : Body, seen : Seen \cup {Unread}]
Post == [body : Body, seen : Seen \cup {Unread}, attempt : 1 .. MaxAttempts]

ASSUME IdleAssumption == Idle \notin Post /\ Unread \notin Seen

\* The chain of intermediate callbacks, and the calls the pipeline awaits.
Channel == {"chain", "main"}

VARIABLES
  status, errorCode, progress,  \* the row; progress is progress_current
  deadline,                     \* phase_deadline: "none", "live" or "past"
  proof,                        \* the stored report_verifications row's status
  pinned,                       \* template_version_id IS NOT NULL
  pc,                           \* where the agent is
  result,                       \* the verdict the agent's verifier reached
  outcome,                      \* the terminal phase the agent settled on
  chain,                        \* scheduled callbacks not yet sent, in order
  post,                         \* the request in flight on each channel
  last,                         \* what _deliver returned for the terminal callback
  resends,                      \* terminal deliveries repeated so far
  late                          \* requests the agent no longer waits for

row == <<status, errorCode, progress, deadline>>
agentVars == <<pc, result, outcome>>
vars == <<row, proof, pinned, agentVars, chain, post, last, resends, late>>

Working == {"start", "inventory", "metrics", "collected", "compiling",
            "rendering", "verifying", "recording", "uploading"}
Pc == Working \cup {"closing", "terminal", "done", "gone"}

Init ==
  /\ status = "claimed" /\ errorCode = NoCode
  /\ progress = NoCount /\ deadline = "live"
  /\ proof = "none"
  /\ pinned \in BOOLEAN
  /\ pc = "start" /\ result = "none" /\ outcome = "none"
  /\ chain = <<>>
  /\ post = [c \in Channel |-> Idle]
  /\ last = "none" /\ resends = 0
  /\ late = {}

-------------------------------------------------------------------------------
(***************************************************************************)
(* The agent's pipeline.                                                   *)
(***************************************************************************)

Callback(phase, count) == [phase |-> phase, count |-> count]

\* ProgressReporter.report: scheduled behind the callback before it.
Report(phase, count) == chain' = Append(chain, Callback(phase, count))

GoTo(next) == pc' = next /\ UNCHANGED <<result, outcome>>

\* Either run_collection announces `collecting`, or the snapshot a pinned run
\* was asked to reuse is announced in its place.
Begin ==
  /\ pc = "start"
  /\ Report("collecting", NoCount)
  /\ \/ GoTo("inventory")
     \/ pinned /\ GoTo("collected")
  /\ UNCHANGED <<row, proof, pinned, post, last, resends, late>>

\* A refresh inside the phase, which the throttle may drop.
Inventory ==
  /\ pc = "inventory"
  /\ GoTo("metrics")
  /\ \/ Report("collecting", 0)
     \/ UNCHANGED chain
  /\ UNCHANGED <<row, proof, pinned, post, last, resends, late>>

\* The refresh that completes the count is never throttled.
Metrics ==
  /\ pc = "metrics"
  /\ GoTo("collected")
  /\ Report("collecting", Total)
  /\ UNCHANGED <<row, proof, pinned, post, last, resends, late>>

\* With nothing pinned the snapshot is the deliverable.
Collected ==
  /\ pc = "collected"
  /\ \/ /\ pinned
        /\ Report("compiling", 0)
        /\ GoTo("compiling")
     \/ /\ ~pinned
        /\ pc' = "closing" /\ outcome' = "completed"
        /\ UNCHANGED <<result, chain>>
  /\ UNCHANGED <<row, proof, pinned, post, last, resends, late>>

Compiled ==
  /\ pc = "compiling"
  /\ Report("rendering", 0)
  /\ GoTo("rendering")
  /\ UNCHANGED <<row, proof, pinned, post, last, resends, late>>

Rendered ==
  /\ pc = "rendering"
  /\ Report("verifying", NoCount)
  /\ GoTo("verifying")
  /\ UNCHANGED <<row, proof, pinned, post, last, resends, late>>

Send(ch, body) ==
  post' = [post EXCEPT ![ch] = [body |-> body, seen |-> Unread, attempt |-> 1]]

\* The result is written, then report_verification is awaited.
Verified ==
  /\ pc = "verifying"
  /\ result' \in {"pass", "fail"}
  /\ pc' = "recording"
  /\ Send("main", Callback("verification", NoCount))
  /\ UNCHANGED <<row, proof, pinned, outcome, chain, last, resends, late>>

\* A slip: the verdict is recorded and then forgotten.
RecordedIgnoringVerdict ==
  /\ pc = "recording" /\ post["main"] = Idle
  /\ pc' = "uploading" /\ UNCHANGED outcome
  /\ UNCHANGED <<row, proof, pinned, result, chain, post, last, resends, late>>

\* The upload happens after the pass and never before.
Recorded ==
  /\ pc = "recording" /\ post["main"] = Idle
  /\ \/ result = "pass" /\ pc' = "uploading" /\ UNCHANGED outcome
     \/ result = "fail" /\ pc' = "closing" /\ outcome' = "failed"
  /\ UNCHANGED <<row, proof, pinned, result, chain, post, last, resends, late>>

Uploaded ==
  /\ pc = "uploading"
  /\ pc' = "closing" /\ outcome' = "completed"
  /\ UNCHANGED <<row, proof, pinned, result, chain, post, last, resends, late>>

\* Anything but a callback may raise, and run_invocation's tail then reports
\* the failure.
Raise ==
  /\ pc \in Working \ {"recording"}
  /\ pc' = "closing" /\ outcome' = "failed"
  /\ UNCHANGED <<row, proof, pinned, result, chain, post, last, resends, late>>

ChainSettled == chain = <<>> /\ post["chain"] = Idle

\* A slip: the terminal callback is not ordered behind the chain.
TerminalOvertakes ==
  /\ pc = "closing"
  /\ Send("main", Callback(outcome, NoCount))
  /\ GoTo("terminal")
  /\ UNCHANGED <<row, proof, pinned, chain, last, resends, late>>

\* report_terminal waits for the chain, at most TERMINAL_ORDERING_BUDGET_S: it
\* gives up only on a callback that is still in flight.
ReportTerminal ==
  /\ pc = "closing"
  /\ ChainSettled \/ (Lossy /\ post["chain"] # Idle)
  /\ Send("main", Callback(outcome, NoCount))
  /\ GoTo("terminal")
  /\ UNCHANGED <<row, proof, pinned, chain, last, resends, late>>

\* A slip: `while outcome == "refused"`.
ResendForever ==
  /\ pc = "terminal" /\ post["main"] = Idle
  /\ outcome = "completed" /\ last = "refused"
  /\ Send("main", Callback(outcome, NoCount))
  /\ UNCHANGED <<row, proof, pinned, agentVars, chain, last, resends, late>>

\* Only an answered refusal of `completed` is asked again.
Resend ==
  /\ pc = "terminal" /\ post["main"] = Idle
  /\ outcome = "completed" /\ last = "refused" /\ resends < MaxResends
  /\ resends' = resends + 1
  /\ Send("main", Callback(outcome, NoCount))
  /\ UNCHANGED <<row, proof, pinned, agentVars, chain, last, late>>

\* A request cut off in flight is still worked on by the app, or never was.
CutOff(ch, becomes) ==
  LET p == post[ch] IN
    /\ post' = [post EXCEPT ![ch] = becomes]
    /\ \/ UNCHANGED late
       \/ /\ p # Idle /\ Cardinality(late) < MaxLate
          /\ late' = late \cup {[body |-> p.body, seen |-> p.seen]}

\* aclose: what is still pending on the chain is cancelled.
Close ==
  /\ pc = "terminal" /\ post["main"] = Idle
  /\ \/ outcome = "failed" \/ last # "refused" \/ resends = MaxResends
  /\ GoTo("done")
  /\ chain' = <<>>
  /\ CutOff("chain", Idle)
  /\ UNCHANGED <<row, proof, pinned, last, resends>>

\* The consumer goes away: an awaited call is cut off and nothing terminal is
\* reported, but callbacks already scheduled are still delivered by their tasks.
Cancelled ==
  /\ pc \in Working
  /\ Lossy \/ post["main"] = Idle
  /\ GoTo("gone")
  /\ CutOff("main", Idle)
  /\ UNCHANGED <<row, proof, pinned, chain, last, resends>>

InFlight ==
  {[body |-> post[c].body, seen |-> post[c].seen] :
     c \in {d \in Channel : post[d] # Idle}}

\* The container dies, with whatever was in flight.
AgentDies ==
  /\ Lossy
  /\ pc \in Working \cup {"closing", "terminal"}
  /\ GoTo("gone")
  /\ chain' = <<>>
  /\ post' = [c \in Channel |-> Idle]
  /\ \E L \in SUBSET InFlight :
       /\ late' = late \cup L
       /\ Cardinality(late') <= MaxLate
  /\ UNCHANGED <<row, proof, pinned, last, resends>>

-------------------------------------------------------------------------------
(***************************************************************************)
(* Delivery: _deliver_in_order and _deliver.                               *)
(***************************************************************************)

\* A slip: independent tasks, sent in whatever order the network settles.
DispatchAny ==
  /\ post["chain"] = Idle
  /\ \E i \in 1 .. Len(chain) :
       /\ Send("chain", chain[i])
       /\ chain' = SubSeq(chain, 1, i - 1) \o SubSeq(chain, i + 1, Len(chain))
  /\ UNCHANGED <<row, proof, pinned, agentVars, last, resends, late>>

\* Waiting on the predecessor's completion, not on its success.
Dispatch ==
  /\ chain # <<>> /\ post["chain"] = Idle
  /\ Send("chain", Head(chain))
  /\ chain' = Tail(chain)
  /\ UNCHANGED <<row, proof, pinned, agentVars, last, resends, late>>

\* What _deliver does once an attempt has come to `got`.
NextAttempt(ch, got) ==
  IF got # "delivered" /\ post[ch].attempt < MaxAttempts
    THEN [body |-> post[ch].body, seen |-> Unread,
          attempt |-> post[ch].attempt + 1]
    ELSE Idle

Noted(ch, got) ==
  last' = IF ch = "main" /\ pc = "terminal" THEN got ELSE last

-------------------------------------------------------------------------------
(***************************************************************************)
(* The progress endpoint and the verification endpoint.                    *)
(***************************************************************************)

\* readRunForTokenHolder
SeenNow == [status |-> status, progress |-> progress]

\* decideTransition, on the row as it was read.
Decides(seen, body) == body.phase \in AcceptedTargets(seen.status)

NeedsProof(seen, body) == seen.status = "verifying" /\ body.phase = "completed"

\* A slip: the completing write without the proof beside it.
LandsUnproved(seen, body) == Decides(seen, body) /\ status = seen.status

\* A slip: the write guarded by the row's id alone.
LandsUnguarded(seen, body) ==
  Decides(seen, body) /\ (NeedsProof(seen, body) => proof = "pass")

\* applyRunWriteIfStatus, and applyVerifiedCompletion where a proof is needed.
Lands(seen, body) ==
  /\ Decides(seen, body)
  /\ status = seen.status
  /\ NeedsProof(seen, body) => proof = "pass"

\* progressColumns: a count lower than the one read leaves the columns alone.
ProgressAfter(seen, body) ==
  IF /\ body.phase = seen.status
     /\ body.count # NoCount /\ seen.progress # NoCount
     /\ body.count < seen.progress
    THEN progress ELSE body.count

\* The columns decideTransition hands to the write.
Write(seen, body) ==
  /\ status' = body.phase
  /\ errorCode' = IF body.phase = "failed" THEN "AGENT_FAILURE" ELSE NoCode
  /\ deadline' = IF body.phase \in Terminal THEN "none" ELSE "live"
  /\ progress' = IF body.phase \in Terminal THEN NoCount ELSE ProgressAfter(seen, body)

IsVerification(body) == body.phase = "verification"

\* What the app does with a request, and what it answers.  insertVerification
\* answers a repeated attempt with the row it already holds; an artifact the app
\* cannot read back is refused, and leaves what an attempt that timed out leaves.
Handle(seen, body, got) ==
  \/ /\ IsVerification(body)
     /\ proof' = result /\ got = "delivered"
     /\ UNCHANGED row
  \/ /\ ~IsVerification(body) /\ Lands(seen, body)
     /\ Write(seen, body) /\ got = "delivered"
     /\ UNCHANGED proof
  \/ /\ ~IsVerification(body) /\ ~Lands(seen, body)
     /\ got = "refused"
     /\ UNCHANGED <<row, proof>>

Read(ch) ==
  /\ post[ch] # Idle
  /\ post[ch].seen = Unread /\ ~IsVerification(post[ch].body)
  /\ post' = [post EXCEPT ![ch].seen = SeenNow]
  /\ UNCHANGED <<row, proof, pinned, agentVars, chain, last, resends, late>>

Answer(ch) ==
  /\ post[ch] # Idle
  /\ post[ch].seen # Unread \/ IsVerification(post[ch].body)
  /\ \E got \in {"delivered", "refused"} :
       /\ Handle(post[ch].seen, post[ch].body, got)
       /\ \E heard \in {got} \cup (IF Lossy THEN {"unanswered"} ELSE {}) :
            /\ post' = [post EXCEPT ![ch] = NextAttempt(ch, heard)]
            /\ Noted(ch, heard)
  /\ UNCHANGED <<pinned, agentVars, chain, resends, late>>

\* The attempt times out, or never connects.
TimesOut(ch) ==
  /\ Lossy /\ post[ch] # Idle
  /\ CutOff(ch, NextAttempt(ch, "unanswered"))
  /\ Noted(ch, "unanswered")
  /\ UNCHANGED <<row, proof, pinned, agentVars, chain, resends>>

LateRead(q) ==
  /\ q.seen = Unread /\ ~IsVerification(q.body)
  /\ late' = (late \ {q}) \cup {[q EXCEPT !.seen = SeenNow]}
  /\ UNCHANGED <<row, proof, pinned, agentVars, chain, post, last, resends>>

LateAnswer(q) ==
  /\ q.seen # Unread \/ IsVerification(q.body)
  /\ \E got \in {"delivered", "refused"} : Handle(q.seen, q.body, got)
  /\ late' = late \ {q}
  /\ UNCHANGED <<pinned, agentVars, chain, post, last, resends>>

-------------------------------------------------------------------------------
(***************************************************************************)
(* The clock and the sweep.                                                *)
(***************************************************************************)

Expire ==
  /\ deadline = "live" /\ deadline' = "past"
  /\ UNCHANGED <<status, errorCode, progress, proof, pinned, agentVars, chain,
                 post, last, resends, late>>

\* sweepExpiredRuns, as this row sees it.
Sweep ==
  /\ deadline = "past" /\ status \in LiveStatus
  /\ status' = "failed" /\ errorCode' = TimeoutCode
  /\ progress' = NoCount /\ deadline' = "none"
  /\ UNCHANGED <<proof, pinned, agentVars, chain, post, last, resends, late>>

-------------------------------------------------------------------------------
Pipeline ==
  \/ Begin \/ Inventory \/ Metrics \/ Collected \/ Compiled \/ Rendered
  \/ Verified \/ Recorded \/ Uploaded
  \/ ReportTerminal \/ Resend \/ Close

Delivery(ch) == Read(ch) \/ Answer(ch) \/ TimesOut(ch)

Next ==
  \/ Pipeline
  \/ Raise \/ Cancelled \/ AgentDies
  \/ Dispatch
  \/ \E ch \in Channel : Delivery(ch)
  \/ \E q \in late : LateRead(q) \/ LateAnswer(q)
  \/ Expire \/ Sweep

Spec == Init /\ [][Next]_vars

\* A live agent keeps working and each attempt ends by its timeout; the clock
\* runs and the tick keeps sweeping.  Nothing is assumed of late requests.
Fairness ==
  /\ WF_vars(Pipeline)
  /\ WF_vars(Dispatch)
  /\ \A ch \in Channel : WF_vars(Delivery(ch))
  /\ WF_vars(Expire) /\ WF_vars(Sweep)

FairSpec == Spec /\ Fairness

-------------------------------------------------------------------------------
(***************************************************************************)
(* Properties.                                                             *)
(***************************************************************************)

TypeOK ==
  /\ status \in Status \ {"queued"}
  /\ errorCode \in RowErrorCodes \cup {NoCode}
  /\ progress \in Count \cup {NoCount}
  /\ deadline \in {"none", "live", "past"}
  /\ proof \in {"none", "pass", "fail"}
  /\ pinned \in BOOLEAN
  /\ pc \in Pc
  /\ result \in {"none", "pass", "fail"}
  /\ outcome \in {"none", "completed", "failed"}
  /\ chain \in Seq(Body)
  /\ post \in [Channel -> Post \cup {Idle}]
  /\ last \in {"none", "delivered", "refused", "unanswered"}
  /\ resends \in 0 .. MaxResends
  /\ late \in SUBSET Request

\* An error code exactly while failed, a deadline exactly while live.
RowConsistent ==
  /\ (status = "failed") <=> (errorCode # NoCode)
  /\ (deadline # "none") <=> (status \in LiveStatus)

\* A terminal phase is presented by nothing but the agent's one decision to end,
\* and a pinned run is ended as completed by nothing but a passing verdict.
TerminalIsTheOutcome ==
  /\ \A i \in DOMAIN chain : chain[i].phase \notin Terminal
  /\ \A ch \in Channel :
       post[ch] # Idle /\ post[ch].body.phase \in Terminal =>
         post[ch].body.phase = outcome
  /\ \A q \in late : q.body.phase \in Terminal => q.body.phase = outcome
  /\ pc \in Working => outcome = "none"
  /\ pc \in {"closing", "terminal"} => outcome # "none"
  /\ pc = "uploading" => result = "pass"
  /\ outcome = "completed" /\ pinned => result = "pass"

\* Whatever is lost, repeated, late or decided on a stale read, the row behaves
\* as the run machine promises: the writes of the progress endpoint are guarded
\* by the status they were decided on, so no straggler revives a failed run,
\* skips a phase or strips a live row of its deadline.
Machine == INSTANCE RunMachine
             WITH Run <- {"run"},
                  status <- [r \in {"run"} |-> status],
                  errorCode <- [r \in {"run"} |-> errorCode],
                  armed <- [r \in {"run"} |-> deadline # "none"]
Refines == Machine!Spec

\* A row leaves `verifying` for `completed` only when a passing verification of
\* the run is stored (applyVerifiedCompletion, in one transaction).
ProofBeforeVerifiedCompletion ==
  [][status = "verifying" /\ status' = "completed" => proof = "pass"]_vars

\* The row ends as the agent ended, or as TIMEOUT: a report whose verification
\* failed is never completed, and a late callback never changes the verdict.
OutcomeAgrees ==
  /\ status = "completed" =>
       outcome = "completed" /\ (pinned => result = "pass")
  /\ status = "failed" /\ errorCode # TimeoutCode => outcome = "failed"

\* The inductive invariant behind OutcomeAgrees and Refines.
Inv == TypeOK /\ RowConsistent /\ TerminalIsTheOutcome /\ OutcomeAgrees

\* With every request answered in time, an intermediate callback finds the row
\* in the phase before its own: the chain never skips a link, so the endpoint
\* refuses it only once the row is terminal.
NextInLine ==
  \A ch \in Channel :
    post[ch] # Idle =>
      LET p == post[ch] IN
        p.seen = Unread \/ p.seen.status \in Terminal \/ Decides(p.seen, p.body)

\* With every request answered in time, the count a viewer sees within a phase
\* never falls and never vanishes.
ProgressMonotonic ==
  [][status' = status /\ progress # NoCount =>
       progress' # NoCount /\ progress' >= progress]_vars

\* Refuted when requests are late (README, section 11): "the row enforces
\* monotonicity rather than trusting the caller to" (progress.ts).
CountNeverFalls ==
  [][status' = status /\ progress # NoCount /\ progress' # NoCount =>
       progress' >= progress]_vars

\* With every request answered in time, a report the agent finished is a
\* completed run, unless the sweep had already timed it out.
SuccessLands ==
  pc = "done" /\ outcome = "completed" =>
    status = "completed" \/ errorCode = TimeoutCode

\* "No ordering exists in which a run reports success before its proof is
\* stored", for a run that renders a report.
CompletedReportHasProof == status = "completed" /\ pinned => proof = "pass"

\* The row ends whatever becomes of the agent.
EventuallyTerminal == <>(status \in Terminal)

\* Reporting never keeps the container: the agent's last call returns.
AgentExits == <>(pc \in {"done", "gone"})

\* The row ends and the agent leaves, neither waiting for the other.
RunAndAgentEnd == EventuallyTerminal /\ AgentExits
===============================================================================
