----------------------------- MODULE ReaperProofs -----------------------------
(***************************************************************************)
(* Reaper's safety for every set of runs, every number of overlapping      *)
(* ticks and every limit: Inv is inductive, and the properties follow.     *)
(***************************************************************************)
EXTENDS Reaper, TLAPS

LEMMA BudgetIsNoNull ==
  /\ \A s \in LiveStatus : Budget[s] \in Int /\ Budget[s] # NoDeadline
  /\ \A i \in Int : i # NoDeadline
  BY BudgetAssumption, DeadlineAssumption

LEMMA StatusFacts ==
  /\ LiveStatus \subseteq Status /\ Terminal \subseteq Status
  /\ "absent" \notin Status
  /\ \A s \in Status : s \in LiveStatus <=> s \notin Terminal
  /\ {"queued", "claimed"} \subseteq LiveStatus
  /\ {"completed", "failed"} = Terminal
  BY DEF Status, LiveStatus, Terminal

LEMMA CodeFacts ==
  /\ NoCode \notin RowErrorCodes
  /\ GateCodes \cup {"TEMPLATE_INVALID", TimeoutCode, "AGENT_FAILURE"}
       \subseteq RowErrorCodes
  /\ NoCode \notin GateCodes /\ TimeoutCode \notin GateCodes
  /\ "AGENT_FAILURE" \notin GateCodes
  /\ NoCode # "TEMPLATE_INVALID" /\ TimeoutCode # "TEMPLATE_INVALID"
  /\ TimeoutCode # NoCode /\ TimeoutCode # "AGENT_FAILURE"
  BY DEF NoCode, TimeoutCode, RowErrorCodes, AppWrittenCodes, AgentErrorCodes,
     GateCodes, UnreadableCode

\* What an accepted callback may present: no way out of a terminal status, and
\* no way back to the two the app writes.
LEMMA AcceptedFacts ==
  ASSUME NEW s \in Status \cup {"absent"}, NEW t \in AcceptedTargets(s) \cap AgentPhases
  PROVE  /\ t \in Status /\ t \notin {"absent", "queued", "claimed"}
         /\ s \notin Terminal
         /\ s # t => <<s, t>> \in DRIVEN
  BY DEF AcceptedTargets, AgentPhases, Driven, Status, LiveStatus, Terminal

-------------------------------------------------------------------------------
LEMMA InitInv == Init => Inv
  BY StatusFacts, CodeFacts DEF Init, Inv, TypeOK, LocksExclude, OneStarter,
     InvokedAfterClaim, RowConsistent, TickPc, Stage, GateCodes, NoCode

LEMMA EnqueueInv ==
  ASSUME Inv, NEW r \in Run, Enqueue(r) PROVE Inv'
<1> USE DEF Enqueue, tickVars, Inv
<1>1. TypeOK'
  BY BudgetIsNoNull, StatusFacts DEF TypeOK
<1>2. LocksExclude'
  BY StatusFacts DEF TypeOK, LocksExclude, Overdue
<1>3. OneStarter'
  BY DEF TypeOK, OneStarter
<1>4. InvokedAfterClaim'
  BY DEF TypeOK, InvokedAfterClaim
<1>5. RowConsistent'
  BY BudgetIsNoNull, StatusFacts DEF TypeOK, RowConsistent
<1>6. QED
  BY <1>1, <1>2, <1>3, <1>4, <1>5

LEMMA ElapseInv ==
  ASSUME Inv, Elapse PROVE Inv'
<1> USE DEF Elapse, tickVars, Inv
<1>1. \A r \in Run : left[r] # NoDeadline =>
        left[r] \in Int /\ left'[r] \in Int /\ left'[r] <= left[r]
  BY LimitAssumption, BudgetIsNoNull DEF TypeOK
<1>2. \A r \in Run : left[r] = NoDeadline => left'[r] = NoDeadline
  BY DEF TypeOK
<1>3. TypeOK'
  BY <1>1, <1>2 DEF TypeOK
<1>4. LocksExclude'
  BY <1>1, BudgetIsNoNull DEF TypeOK, LocksExclude, Overdue
<1>5. OneStarter' /\ InvokedAfterClaim'
  BY DEF OneStarter, InvokedAfterClaim
<1>6. RowConsistent'
  BY <1>1, <1>2, BudgetIsNoNull DEF RowConsistent
<1>7. QED
  BY <1>3, <1>4, <1>5, <1>6

\* The three steps that only move a request's own control point: nothing about
\* a row changes.
LEMMA BeginTickInv ==
  ASSUME Inv, NEW t \in Tick, BeginTick(t) PROVE Inv'
<1> USE DEF BeginTick, rowVars, Inv
<1>1. TypeOK'
  BY DEF TypeOK, TickPc
<1>2. LocksExclude' /\ OneStarter'
  BY DEF TypeOK, LocksExclude, OneStarter, Overdue
<1>3. InvokedAfterClaim' /\ RowConsistent'
  BY DEF InvokedAfterClaim, RowConsistent
<1>4. QED
  BY <1>1, <1>2, <1>3

LEMMA EndTickInv ==
  ASSUME Inv, NEW t \in Tick, EndTick(t) PROVE Inv'
<1> USE DEF EndTick, rowVars, Inv
<1>1. TypeOK'
  BY DEF TypeOK, TickPc
<1>2. LocksExclude' /\ OneStarter'
  BY DEF TypeOK, LocksExclude, OneStarter, Overdue
<1>3. InvokedAfterClaim' /\ RowConsistent'
  BY DEF InvokedAfterClaim, RowConsistent
<1>4. QED
  BY <1>1, <1>2, <1>3

LEMMA CrashTickInv ==
  ASSUME Inv, NEW t \in Tick, CrashTick(t) PROVE Inv'
<1> USE DEF CrashTick, rowVars, Inv
<1>1. TypeOK'
  BY DEF TypeOK, TickPc, Stage
<1>2. LocksExclude' /\ OneStarter'
  BY DEF TypeOK, LocksExclude, OneStarter, Overdue
<1>3. InvokedAfterClaim' /\ RowConsistent'
  BY DEF InvokedAfterClaim, RowConsistent
<1>4. QED
  BY <1>1, <1>2, <1>3

\* A select takes only rows nobody holds: this is where SKIP LOCKED is needed.
LEMMA SweepSelectInv ==
  ASSUME Inv, NEW t \in Tick, SweepSelect(t) PROVE Inv'
<1> USE DEF SweepSelect, rowVars, Inv
<1>1. PICK S \in SUBSET Due : batch' = [batch EXCEPT ![t] = S]
  OBVIOUS
<1>2. \A r \in S : /\ r \in Run /\ status[r] \in LiveStatus /\ Overdue(r)
                   /\ \A u \in Tick : r \notin batch[u]
  BY DEF Due, Locked
<1>3. TypeOK'
  BY <1>1, <1>2 DEF TypeOK, TickPc
<1>4. LocksExclude'
  BY <1>1, <1>2 DEF TypeOK, LocksExclude, Overdue
<1>5. OneStarter'
  BY DEF TypeOK, OneStarter
<1>6. InvokedAfterClaim' /\ RowConsistent'
  BY DEF InvokedAfterClaim, RowConsistent
<1>7. QED
  BY <1>3, <1>4, <1>5, <1>6

LEMMA ClaimSelectInv ==
  ASSUME Inv, NEW t \in Tick, ClaimSelect(t) PROVE Inv'
<1> USE DEF ClaimSelect, rowVars, Inv
<1>1. PICK S \in SUBSET Claimable : batch' = [batch EXCEPT ![t] = S]
  OBVIOUS
<1>2. \A r \in S : /\ r \in Run /\ status[r] = "queued"
                   /\ \A u \in Tick : r \notin batch[u]
  BY DEF Claimable, Locked
<1>3. TypeOK'
  BY <1>1, <1>2 DEF TypeOK, TickPc
<1>4. LocksExclude'
  BY <1>1, <1>2 DEF TypeOK, LocksExclude, Overdue
<1>5. OneStarter'
  BY DEF TypeOK, OneStarter
<1>6. InvokedAfterClaim' /\ RowConsistent'
  BY DEF InvokedAfterClaim, RowConsistent
<1>7. QED
  BY <1>3, <1>4, <1>5, <1>6

LEMMA SweepCommitInv ==
  ASSUME Inv, NEW t \in Tick, SweepCommit(t) PROVE Inv'
<1> USE DEF SweepCommit, Inv
<1>1. \A r \in batch[t] : r \in Run /\ status[r] \in LiveStatus
  BY DEF TypeOK, LocksExclude
<1>2. TypeOK'
  BY StatusFacts, CodeFacts DEF TypeOK, TickPc
<1>3. LocksExclude'
  BY DEF TypeOK, LocksExclude, Overdue
<1>4. OneStarter'
  BY CodeFacts DEF TypeOK, OneStarter
<1>5. InvokedAfterClaim'
  BY CodeFacts DEF TypeOK, InvokedAfterClaim
<1>6. RowConsistent'
  BY <1>1, StatusFacts, CodeFacts DEF TypeOK, RowConsistent
<1>7. QED
  BY <1>2, <1>3, <1>4, <1>5, <1>6

LEMMA ClaimCommitInv ==
  ASSUME Inv, NEW t \in Tick, ClaimCommit(t) PROVE Inv'
<1> USE DEF ClaimCommit, Inv
<1>1. \A r \in batch[t] : r \in Run /\ status[r] = "queued"
  BY DEF TypeOK, LocksExclude
<1>2. \A r \in batch[t] : /\ \A u \in Tick : job[u][r] = "none"
                          /\ errorCode[r] = NoCode
                          /\ invoked[r] = 0 /\ r \notin agent
  BY <1>1, StatusFacts DEF OneStarter, InvokedAfterClaim, RowConsistent
<1>3. TypeOK'
  BY BudgetIsNoNull, StatusFacts DEF TypeOK, TickPc, Stage
<1>4. LocksExclude'
  BY DEF TypeOK, LocksExclude, Overdue
<1>5. OneStarter'
  BY <1>1, <1>2 DEF TypeOK, OneStarter, Stage
<1>6. InvokedAfterClaim'
  BY <1>1, <1>2 DEF TypeOK, InvokedAfterClaim
<1>7. RowConsistent'
  BY <1>1, BudgetIsNoNull, StatusFacts DEF TypeOK, RowConsistent
<1>8. QED
  BY <1>3, <1>4, <1>5, <1>6, <1>7

\* Failing a row one is about to start: the row is nobody else's, so the code
\* it gets is the gate's and no agent knows it.
LEMMA FailClaimedRunInv ==
  ASSUME Inv, NEW t \in Tick, NEW r \in Run, NEW code \in RowErrorCodes,
         job[t][r] # "none", GoOn(t, r, "none"), FailClaimedRun(r, code),
         UNCHANGED <<pc, batch, invoked, agent, reports, crashes>>
  PROVE  Inv'
<1> USE DEF FailClaimedRun, GoOn, rowVars, Inv
<1>1. /\ invoked[r] = 0 /\ r \notin agent
      /\ \A u \in Tick : u # t => job[u][r] = "none"
  BY DEF OneStarter
<1>2. \A u \in Tick : r \notin batch[u]
  BY DEF Locked
<1>3. TypeOK'
  <2>1. /\ status' \in [Run -> Status \cup {"absent"}]
        /\ errorCode' \in [Run -> RowErrorCodes \cup {NoCode}]
        /\ left' \in [Run -> Int \cup {NoDeadline}]
    BY StatusFacts DEF TypeOK
  <2>2. job' \in [Tick -> [Run -> Stage]]
    BY DEF TypeOK, Stage
  <2>3. QED
    BY <2>1, <2>2 DEF TypeOK
<1>4. LocksExclude'
  BY <1>2 DEF TypeOK, LocksExclude, Overdue
<1>5. OneStarter'
  BY <1>1 DEF TypeOK, OneStarter, Stage
<1>6. InvokedAfterClaim'
  BY <1>1 DEF TypeOK, InvokedAfterClaim
<1>7. RowConsistent'
  BY StatusFacts, CodeFacts DEF TypeOK, RowConsistent
<1>8. QED
  BY <1>3, <1>4, <1>5, <1>6, <1>7

\* Going on to another stage, or dropping the job, with the row as it was.
LEMMA GoOnInv ==
  ASSUME Inv, NEW t \in Tick, NEW r \in Run, NEW stage \in Stage,
         job[t][r] # "none", GoOn(t, r, stage),
         UNCHANGED <<rowVars, pc, batch, invoked, agent, reports, crashes>>
  PROVE  Inv'
<1> USE DEF GoOn, rowVars, Inv
<1>1. TypeOK'
  BY DEF TypeOK
<1>2. LocksExclude'
  BY DEF TypeOK, LocksExclude, Overdue
<1>3. OneStarter'
  BY DEF TypeOK, OneStarter, Stage
<1>4. InvokedAfterClaim' /\ RowConsistent'
  BY DEF InvokedAfterClaim, RowConsistent
<1>5. QED
  BY <1>1, <1>2, <1>3, <1>4

LEMMA GateInv ==
  ASSUME Inv, NEW t \in Tick, NEW r \in Run, Gate(t, r) PROVE Inv'
<1>1. CASE GoOn(t, r, "reread") /\ UNCHANGED rowVars
  BY <1>1, GoOnInv DEF Gate, Stage
<1>2. CASE GoOn(t, r, "none") /\ UNCHANGED rowVars
  BY <1>2, GoOnInv DEF Gate, Stage
<1>3. ASSUME NEW code \in GateCodes, FailClaimedRun(r, code), GoOn(t, r, "none")
      PROVE  Inv'
  BY <1>3, FailClaimedRunInv, CodeFacts DEF Gate
<1>4. QED
  BY <1>1, <1>2, <1>3 DEF Gate

LEMMA RereadInv ==
  ASSUME Inv, NEW t \in Tick, NEW r \in Run, Reread(t, r) PROVE Inv'
  BY GoOnInv DEF Reread, Stage

LEMMA ReadPinnedInv ==
  ASSUME Inv, NEW t \in Tick, NEW r \in Run, ReadPinned(t, r) PROVE Inv'
<1>1. CASE GoOn(t, r, "invoke") /\ UNCHANGED rowVars
  BY <1>1, GoOnInv DEF ReadPinned, Stage
<1>2. CASE GoOn(t, r, "none") /\ UNCHANGED rowVars
  BY <1>2, GoOnInv DEF ReadPinned, Stage
<1>3. CASE FailClaimedRun(r, "TEMPLATE_INVALID") /\ GoOn(t, r, "none")
  BY <1>3, FailClaimedRunInv, CodeFacts DEF ReadPinned
<1>4. QED
  BY <1>1, <1>2, <1>3 DEF ReadPinned

\* The one step that starts an agent gives the right to start one up.
LEMMA InvokeInv ==
  ASSUME Inv, NEW t \in Tick, NEW r \in Run, Invoke(t, r) PROVE Inv'
<1> USE DEF Invoke, GoOn, rowVars, Inv
<1>1. /\ invoked[r] = 0 /\ status[r] \notin {"absent", "queued"}
      /\ errorCode[r] \in {NoCode, TimeoutCode}
      /\ \A u \in Tick : u # t => job[u][r] = "none"
  BY DEF OneStarter
<1>2. TypeOK'
  BY DEF TypeOK, Stage
<1>3. LocksExclude'
  BY DEF TypeOK, LocksExclude, Overdue
<1>4. OneStarter'
  BY <1>1 DEF TypeOK, OneStarter, Stage
<1>5. InvokedAfterClaim'
  BY <1>1, CodeFacts DEF TypeOK, InvokedAfterClaim
<1>6. RowConsistent'
  BY DEF RowConsistent
<1>7. QED
  BY <1>2, <1>3, <1>4, <1>5, <1>6

LEMMA AgentReportsInv ==
  ASSUME Inv, NEW r \in Run, NEW target \in AgentPhases, AgentReports(r, target)
  PROVE  Inv'
<1> USE DEF AgentReports, tickVars, Inv
<1>1. /\ target \in Status /\ target \notin {"absent", "queued", "claimed"}
      /\ status[r] \notin Terminal
  BY AcceptedFacts DEF TypeOK
<1>2. \A t \in Tick : job[t][r] = "none" /\ r \notin batch[t]
  BY DEF OneStarter, Locked
<1>3. TypeOK'
  BY <1>1, BudgetIsNoNull, StatusFacts, CodeFacts DEF TypeOK
<1>4. LocksExclude'
  BY <1>2 DEF TypeOK, LocksExclude, Overdue
<1>5. OneStarter'
  BY <1>1, <1>2 DEF TypeOK, OneStarter
<1>6. InvokedAfterClaim'
  BY <1>1, CodeFacts DEF TypeOK, InvokedAfterClaim
<1>7. RowConsistent'
  BY <1>1, BudgetIsNoNull, StatusFacts, CodeFacts DEF TypeOK, RowConsistent
<1>8. QED
  BY <1>3, <1>4, <1>5, <1>6, <1>7

\* Inv is inductive: one case per action.
LEMMA NextInv == Inv /\ [Next]_vars => Inv'
<1> SUFFICES ASSUME Inv, [Next]_vars
             PROVE  Inv'
  OBVIOUS
<1>1. CASE Elapse
  BY <1>1, ElapseInv
<1>2. ASSUME NEW r \in Run, Enqueue(r) PROVE Inv'
  BY <1>2, EnqueueInv
<1>3. ASSUME NEW t \in Tick, RunTick(t) PROVE Inv'
  <2>1. ASSUME NEW r \in Run, StartRun(t, r) PROVE Inv'
    BY <2>1, GateInv, RereadInv, ReadPinnedInv, InvokeInv DEF StartRun
  <2>2. QED
    BY <1>3, <2>1, BeginTickInv, SweepSelectInv, SweepCommitInv, ClaimSelectInv,
       ClaimCommitInv, EndTickInv DEF RunTick
<1>4. ASSUME NEW t \in Tick, CrashTick(t) PROVE Inv'
  BY <1>4, CrashTickInv
<1>5. ASSUME NEW r \in Run, NEW target \in AgentPhases, AgentReports(r, target)
      PROVE  Inv'
  BY <1>5, AgentReportsInv
<1>6. CASE UNCHANGED vars
  BY <1>6 DEF vars, rowVars, tickVars, Inv, TypeOK, LocksExclude, OneStarter,
     InvokedAfterClaim, RowConsistent, Overdue
<1>7. QED
  BY <1>1, <1>2, <1>3, <1>4, <1>5, <1>6 DEF Next

\* The invariant that says why overlapping ticks are safe.
THEOREM Invariance == Spec => []Inv
  BY InitInv, NextInv, PTL DEF Spec

\* Every value stays in range and no lock outlives its statement.
THEOREM TypeCorrectness == Spec => []TypeOK
<1>1. Inv => TypeOK
  BY DEF Inv
<1>2. QED
  BY <1>1, Invariance, PTL

\* No run is started twice, however many ticks overlap.
THEOREM OneInvocation == Spec => []AtMostOneInvocation
<1>1. Inv => AtMostOneInvocation
  BY DEF Inv, InvokedAfterClaim, AtMostOneInvocation
<1>2. QED
  BY <1>1, Invariance, PTL

\* A run the gate failed was never started.
THEOREM GateHolds == Spec => []GatedNeverInvoked
<1>1. Inv => GatedNeverInvoked
  BY DEF Inv, InvokedAfterClaim, GatedNeverInvoked
<1>2. QED
  BY <1>1, Invariance, PTL

-------------------------------------------------------------------------------
(***************************************************************************)
(* The sweep times nobody out early.                                       *)
(***************************************************************************)

\* Only the commit of a sweep writes TIMEOUT, and LocksExclude keeps what its
\* select saw true until then.
THEOREM ReapsOnlyOverdue == Spec => ReapedOnlyWhenOverdue
<1>1. ASSUME Inv, [Next]_vars
      PROVE  [\A r \in Run : errorCode[r] # TimeoutCode /\ errorCode'[r] = TimeoutCode
                               => Overdue(r)]_vars
  <2> SUFFICES ASSUME NEW r \in Run, errorCode[r] # TimeoutCode,
                      errorCode'[r] = TimeoutCode
               PROVE  Overdue(r)
    OBVIOUS
  <2>1. CASE UNCHANGED errorCode
    BY <2>1
  <2>2. ASSUME NEW t \in Tick, SweepCommit(t) PROVE Overdue(r)
    <3>1. r \in batch[t]
      BY <2>2 DEF SweepCommit
    <3>2. QED
      BY <1>1, <2>2, <3>1 DEF SweepCommit, Inv, LocksExclude
  <2>3. ASSUME NEW q \in Run, NEW code, code # TimeoutCode,
               FailClaimedRun(q, code)
        PROVE  Overdue(r)
    BY <1>1, <2>3 DEF FailClaimedRun, rowVars, Inv, TypeOK
  <2>4. ASSUME NEW q \in Run, NEW target \in AgentPhases, AgentReports(q, target)
        PROVE  Overdue(r)
    BY <1>1, <2>4, CodeFacts DEF AgentReports, Inv, TypeOK
  <2>5. ASSUME NEW t \in Tick, RunTick(t) PROVE Overdue(r)
    <3>1. ASSUME NEW q \in Run, Gate(t, q) PROVE Overdue(r)
      BY <3>1, <2>1, <2>3, CodeFacts DEF Gate, rowVars
    <3>2. ASSUME NEW q \in Run, ReadPinned(t, q) PROVE Overdue(r)
      BY <3>2, <2>1, <2>3, CodeFacts DEF ReadPinned, rowVars
    <3>3. ASSUME NEW q \in Run, Reread(t, q) \/ Invoke(t, q) PROVE Overdue(r)
      BY <3>3, <2>1 DEF Reread, Invoke, rowVars
    <3>4. CASE BeginTick(t) \/ SweepSelect(t) \/ ClaimSelect(t) \/ ClaimCommit(t)
               \/ EndTick(t)
      BY <3>4, <2>1 DEF BeginTick, SweepSelect, ClaimSelect, ClaimCommit, EndTick,
         rowVars
    <3>5. QED
      BY <2>2, <2>5, <3>1, <3>2, <3>3, <3>4 DEF RunTick, StartRun
  <2>6. QED
    BY <1>1, <2>1, <2>4, <2>5
       DEF Next, Elapse, Enqueue, CrashTick, vars, rowVars
<1>2. QED
  BY <1>1, Invariance, PTL DEF Spec, ReapedOnlyWhenOverdue

-------------------------------------------------------------------------------
(***************************************************************************)
(* Reaper implements RunMachine.                                           *)
(***************************************************************************)

\* The instance has its own copy of the vocabulary.
LEMMA SameVocabulary ==
  /\ Machine!Status = Status /\ Machine!DRIVEN = DRIVEN
  /\ Machine!RowErrorCodes = RowErrorCodes /\ Machine!NoCode = NoCode
  BY DEF Machine!Status, Status, Machine!LiveStatus, LiveStatus,
     Machine!Terminal, Terminal, Machine!DRIVEN, DRIVEN,
     Machine!RowErrorCodes, RowErrorCodes, Machine!AppWrittenCodes,
     AppWrittenCodes, Machine!AgentErrorCodes, AgentErrorCodes,
     Machine!TimeoutCode, TimeoutCode, Machine!UnreadableCode, UnreadableCode,
     Machine!NoCode, NoCode

LEMMA InitRefines == Init => Machine!Init
  BY SameVocabulary DEF Init, Machine!Init

\* A row whose three columns a step leaves alone stutters in the machine.
LEMMA RowStays ==
  ASSUME NEW r \in Run, status'[r] = status[r], errorCode'[r] = errorCode[r],
         left'[r] = left[r]
  PROVE  Machine!Stays(r)
  BY DEF Machine!Stays

RowMoves(r) ==
  Machine!Stays(r) \/ Machine!Submitted(r) \/ Machine!Advanced(r) \/ Machine!Failed(r)

LEMMA EdgeFacts ==
  /\ <<"queued", "claimed">> \in DRIVEN
  /\ \A s \in LiveStatus : <<s, "failed">> \in DRIVEN
  BY DEF DRIVEN, LiveStatus

LEMMA FailClaimedRunRefines ==
  ASSUME Inv, NEW q \in Run, NEW code \in RowErrorCodes, FailClaimedRun(q, code),
         NEW r \in Run
  PROVE  RowMoves(r)
<1>1. CASE UNCHANGED rowVars \/ r # q
  BY <1>1, RowStays DEF FailClaimedRun, rowVars, RowMoves, Inv, TypeOK
<1>2. CASE r = q /\ ~ UNCHANGED rowVars
  BY <1>2, EdgeFacts, StatusFacts, SameVocabulary
     DEF FailClaimedRun, rowVars, RowMoves, Machine!Failed, Inv, TypeOK
<1>3. QED
  BY <1>1, <1>2

\* An accepted callback follows an edge, or refreshes the phase it is in.
LEMMA AgentReportsRefines ==
  ASSUME Inv, NEW q \in Run, NEW target \in AgentPhases, AgentReports(q, target),
         NEW r \in Run
  PROVE  RowMoves(r)
<1>1. CASE r # q
  BY <1>1, RowStays DEF AgentReports, RowMoves, Inv, TypeOK
<1>2. CASE r = q
  <2>1. /\ target \in Status /\ target \notin {"absent", "queued", "claimed"}
        /\ status[q] \notin Terminal
        /\ status[q] # target => <<status[q], target>> \in DRIVEN
    BY AcceptedFacts DEF AgentReports, Inv, TypeOK
  <2>2. /\ status'[q] = target
        /\ errorCode'[q] = IF target = "failed" THEN "AGENT_FAILURE" ELSE NoCode
        /\ left'[q] = IF target \in Terminal THEN NoDeadline ELSE Budget[target]
    BY DEF AgentReports, Inv, TypeOK
  <2>3. status[q] \in LiveStatus
    BY <2>1 DEF Inv, TypeOK, InvokedAfterClaim, AgentReports, AcceptedTargets,
       AgentPhases, Status, LiveStatus, Terminal
  <2>4. errorCode[q] = NoCode /\ left[q] # NoDeadline
    BY <2>3, StatusFacts DEF Inv, RowConsistent
  <2>5. CASE target = status[q]
    BY <1>2, <2>1, <2>2, <2>3, <2>4, <2>5, StatusFacts, BudgetIsNoNull
       DEF RowMoves, Machine!Stays
  <2>6. CASE target # status[q] /\ target = "failed"
    BY <1>2, <2>1, <2>2, <2>6, StatusFacts, CodeFacts,
       SameVocabulary
       DEF RowMoves, Machine!Failed
  <2>7. CASE target # status[q] /\ target # "failed"
    BY <1>2, <2>1, <2>2, <2>4, <2>7, StatusFacts, BudgetIsNoNull, SameVocabulary
       DEF RowMoves, Machine!Advanced
  <2>8. QED
    BY <2>5, <2>6, <2>7
<1>3. QED
  BY <1>1, <1>2

LEMMA TickRefines ==
  ASSUME Inv, NEW t \in Tick, RunTick(t), NEW r \in Run
  PROVE  RowMoves(r)
<1>1. CASE UNCHANGED rowVars
  BY <1>1, RowStays DEF rowVars, RowMoves
<1>2. CASE SweepCommit(t)
  <2>1. CASE r \in batch[t]
    BY <1>2, <2>1, EdgeFacts, CodeFacts, SameVocabulary
       DEF SweepCommit, RowMoves, Machine!Failed, Inv, LocksExclude
  <2>2. CASE r \notin batch[t]
    BY <1>2, <2>2, RowStays DEF SweepCommit, RowMoves
  <2>3. QED
    BY <2>1, <2>2
<1>3. CASE ClaimCommit(t)
  <2>1. CASE r \in batch[t]
    BY <1>3, <2>1, EdgeFacts, StatusFacts, BudgetIsNoNull, SameVocabulary
       DEF ClaimCommit, RowMoves, Machine!Advanced, Inv, LocksExclude
  <2>2. CASE r \notin batch[t]
    BY <1>3, <2>2, RowStays DEF ClaimCommit, RowMoves
  <2>3. QED
    BY <2>1, <2>2
<1>4. ASSUME NEW q \in Run, Gate(t, q) PROVE RowMoves(r)
  BY <1>1, <1>4, FailClaimedRunRefines, CodeFacts DEF Gate
<1>5. ASSUME NEW q \in Run, ReadPinned(t, q) PROVE RowMoves(r)
  BY <1>1, <1>5, FailClaimedRunRefines, CodeFacts DEF ReadPinned
<1>6. QED
  BY <1>1, <1>2, <1>3, <1>4, <1>5
     DEF RunTick, StartRun, BeginTick, SweepSelect, ClaimSelect, Reread, Invoke, EndTick

LEMMA NextRefines == Inv /\ Inv' /\ [Next]_vars => [Machine!Next]_(Machine!vars)
<1> SUFFICES ASSUME Inv, Inv', Next
             PROVE  Machine!Next
  BY DEF vars, rowVars, Machine!vars
<1>1. Machine!TypeOK'
  <2>1. TypeOK'
    BY DEF Inv
  <2>2. QED
    BY <2>1, SameVocabulary DEF TypeOK, Machine!TypeOK
<1>2. ASSUME NEW r \in Run PROVE RowMoves(r)
  <2>1. CASE Elapse
    BY <2>1, LimitAssumption, BudgetIsNoNull
       DEF Elapse, RowMoves, Machine!Stays, Inv, TypeOK
  <2>2. ASSUME NEW q \in Run, Enqueue(q) PROVE RowMoves(r)
    <3>1. CASE r = q
      BY <2>2, <3>1, BudgetIsNoNull, StatusFacts
         DEF Enqueue, RowMoves, Machine!Submitted, Inv, TypeOK
    <3>2. CASE r # q
      BY <2>2, <3>2, RowStays DEF Enqueue, RowMoves, Inv, TypeOK
    <3>3. QED
      BY <3>1, <3>2
  <2>3. ASSUME NEW t \in Tick, CrashTick(t) PROVE RowMoves(r)
    BY <2>3, RowStays DEF CrashTick, rowVars, RowMoves
  <2>4. QED
    BY <2>1, <2>2, <2>3, TickRefines, AgentReportsRefines DEF Next
<1>3. QED
  BY <1>1, <1>2 DEF Machine!Next, RowMoves

\* Every row, whatever interleaves, follows the run machine.
THEOREM Refinement == Spec => Refines
<1>1. Spec => []Inv
  BY Invariance
<1>2. QED
  BY <1>1, InitRefines, NextRefines, PTL DEF Spec, Refines, Machine!Spec

\* Whatever writes them, the rows satisfy the CHECK report_runs_error_code_ck and
\* no live row is without a deadline.
THEOREM RowsConsistent == Spec => [](Machine!ErrorIffFailed /\ Machine!ArmedIffLive)
<1>1. Machine!LiveStatus = LiveStatus
  BY DEF Machine!LiveStatus, LiveStatus
<1>2. Inv => Machine!ErrorIffFailed /\ Machine!ArmedIffLive
  BY <1>1, SameVocabulary DEF Inv, RowConsistent, Machine!ErrorIffFailed, Machine!ArmedIffLive
<1>3. QED
  BY <1>2, Invariance, PTL
===============================================================================
