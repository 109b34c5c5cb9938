-------------------------- MODULE RunCallbacksProofs --------------------------
(***************************************************************************)
(* RunCallbacks' safety for every inventory size, every bound on resends   *)
(* and stragglers, and both kinds of network; and, where every request is  *)
(* answered in time, that the callbacks arrive as one unbroken line.       *)
(***************************************************************************)
EXTENDS RunCallbacks, TLAPS

LEMMA StatusFacts ==
  /\ Terminal = {"completed", "failed"}
  /\ \A s \in Status : s \in LiveStatus <=> s \notin Terminal
  /\ "verification" \notin AgentPhases /\ "verification" \notin Terminal
  /\ AgentPhases \subseteq Status \ {"queued", "claimed"}
  /\ Terminal \subseteq AgentPhases
  /\ {"collecting", "compiling", "rendering", "verifying"} \subseteq AgentPhases
  /\ {"collecting", "compiling", "rendering", "verifying"} \cap Terminal = {}
  BY DEF Status, LiveStatus, Terminal, AgentPhases

LEMMA CodeFacts ==
  /\ NoCode \notin RowErrorCodes
  /\ "AGENT_FAILURE" \in RowErrorCodes /\ TimeoutCode \in RowErrorCodes
  /\ TimeoutCode # "AGENT_FAILURE"
  BY DEF NoCode, TimeoutCode, RowErrorCodes, AppWrittenCodes, AgentErrorCodes,
     UnreadableCode

\* What decideTransition may decide: a refresh, or an edge.
LEMMA DecidesFacts ==
  ASSUME NEW seen \in Seen, NEW body \in Body, Decides(seen, body)
  PROVE  /\ seen.status \in LiveStatus
         /\ body.phase = seen.status \/ <<seen.status, body.phase>> \in DRIVEN
  BY DEF Decides, AcceptedTargets, Driven, Seen, Status

LEMMA CallbackType ==
  ASSUME NEW phase \in AgentPhases \cup {"verification"},
         NEW count \in Count \cup {NoCount}
  PROVE  /\ Callback(phase, count) \in Body
         /\ Callback(phase, count).phase = phase
  BY DEF Callback, Body

LEMMA CountType == 0 \in Count /\ Total \in Count /\ Count \subseteq Nat
  BY CountAssumption DEF Count

-------------------------------------------------------------------------------
(***************************************************************************)
(* The two ways a step touches what is in flight.                          *)
(***************************************************************************)

PostsOK == /\ post \in [Channel -> Post \cup {Idle}]
           /\ \A ch \in Channel :
                post[ch] # Idle /\ post[ch].body.phase \in Terminal =>
                  post[ch].body.phase = outcome

LateOK == /\ late \in SUBSET Request
          /\ \A q \in late : q.body.phase \in Terminal => q.body.phase = outcome

\* A new request may present a terminal phase only if it is the outcome.
LEMMA SendPosts ==
  ASSUME PostsOK, NEW ch \in Channel, NEW body \in Body, Send(ch, body),
         UNCHANGED outcome, body.phase \in Terminal => body.phase = outcome
  PROVE  PostsOK'
<1>1. [body |-> body, seen |-> Unread, attempt |-> 1] \in Post
  BY DEF Post, MaxAttempts
<1>2. QED
  BY <1>1 DEF PostsOK, Send

LEMMA RequestOfPost ==
  ASSUME PostsOK, NEW ch \in Channel, post[ch] # Idle
  PROVE  /\ post[ch] \in Post
         /\ [body |-> post[ch].body, seen |-> post[ch].seen] \in Request
  BY DEF PostsOK, Post, Request

\* The next attempt carries the same body.
LEMMA NextAttemptType ==
  ASSUME PostsOK, NEW ch \in Channel, post[ch] # Idle, NEW got
  PROVE  /\ NextAttempt(ch, got) \in Post \cup {Idle}
         /\ NextAttempt(ch, got) # Idle =>
              NextAttempt(ch, got).body = post[ch].body
<1>1. post[ch] \in Post
  BY DEF PostsOK
<1>2. CASE got # "delivered" /\ post[ch].attempt < MaxAttempts
  <2>1. [body |-> post[ch].body, seen |-> Unread, attempt |-> post[ch].attempt + 1]
          \in Post
    BY <1>1, <1>2 DEF Post, MaxAttempts
  <2>2. QED
    BY <1>1, <1>2, <2>1 DEF NextAttempt, Post
<1>3. CASE ~(got # "delivered" /\ post[ch].attempt < MaxAttempts)
  BY <1>3 DEF NextAttempt
<1>4. QED
  BY <1>2, <1>3

LEMMA CutOffKeeps ==
  ASSUME PostsOK, LateOK, NEW ch \in Channel, NEW becomes \in Post \cup {Idle},
         CutOff(ch, becomes), UNCHANGED outcome,
         becomes # Idle => post[ch] # Idle /\ becomes.body = post[ch].body
  PROVE  PostsOK' /\ LateOK'
<1>1. PostsOK'
  BY DEF PostsOK, CutOff
<1>2. LateOK'
  <2>1. CASE UNCHANGED late
    BY <2>1 DEF LateOK
  <2>2. CASE post[ch] # Idle
    <3>1. [body |-> post[ch].body, seen |-> post[ch].seen] \in Request
      BY <2>2, RequestOfPost
    <3>2. QED
      BY <2>2, <3>1 DEF LateOK, PostsOK, CutOff
  <2>3. QED
    BY <2>1, <2>2 DEF CutOff
<1>3. QED
  BY <1>1, <1>2

-------------------------------------------------------------------------------
(***************************************************************************)
(* Inv, rearranged by what a step touches.                                 *)
(***************************************************************************)

RowOK == /\ status \in Status \ {"queued"}
         /\ errorCode \in RowErrorCodes \cup {NoCode}
         /\ progress \in Count \cup {NoCount}
         /\ deadline \in {"none", "live", "past"}
         /\ proof \in {"none", "pass", "fail"}
         /\ RowConsistent

AgentOK == /\ pinned \in BOOLEAN
           /\ pc \in Pc
           /\ result \in {"none", "pass", "fail"}
           /\ outcome \in {"none", "completed", "failed"}
           /\ pc \in Working => outcome = "none"
           /\ pc \in {"closing", "terminal"} => outcome # "none"
           /\ pc = "uploading" => result = "pass"
           /\ outcome = "completed" /\ pinned => result = "pass"

ChainOK == /\ chain \in Seq(Body)
           /\ \A i \in DOMAIN chain : chain[i].phase \notin Terminal

CountersOK == /\ last \in {"none", "delivered", "refused", "unanswered"}
              /\ resends \in 0 .. MaxResends

LEMMA InvParts ==
  Inv <=> RowOK /\ AgentOK /\ ChainOK /\ PostsOK /\ LateOK /\ CountersOK /\ OutcomeAgrees
  BY DEF Inv, TypeOK, TerminalIsTheOutcome, RowOK, AgentOK, ChainOK, PostsOK,
     LateOK, CountersOK

LEMMA InvPartsNext ==
  Inv' <=> RowOK' /\ AgentOK' /\ ChainOK' /\ PostsOK' /\ LateOK' /\ CountersOK'
           /\ OutcomeAgrees'
  BY DEF Inv, TypeOK, TerminalIsTheOutcome, RowOK, AgentOK, ChainOK, PostsOK,
     LateOK, CountersOK

LEMMA InitInv == Init => Inv
  BY StatusFacts, CodeFacts, BoundAssumption
     DEF Init, Inv, TypeOK, RowConsistent, TerminalIsTheOutcome, OutcomeAgrees,
     Status, LiveStatus, Pc, Working, Post, Request

\* What a step leaves alone keeps its part.
LEMMA KeepRow == RowOK /\ UNCHANGED <<row, proof>> => RowOK'
  BY DEF row, RowOK, RowConsistent
LEMMA KeepAgent == AgentOK /\ UNCHANGED <<agentVars, pinned>> => AgentOK'
  BY DEF agentVars, AgentOK
LEMMA KeepChain == ChainOK /\ UNCHANGED chain => ChainOK'
  BY DEF ChainOK
LEMMA KeepPosts == PostsOK /\ UNCHANGED <<post, outcome>> => PostsOK'
  BY DEF PostsOK
LEMMA KeepLate == LateOK /\ UNCHANGED <<late, outcome>> => LateOK'
  BY DEF LateOK
LEMMA KeepCounters == CountersOK /\ UNCHANGED <<last, resends>> => CountersOK'
  BY DEF CountersOK
LEMMA KeepAgreement ==
  OutcomeAgrees /\ UNCHANGED <<status, errorCode, pinned, outcome, result>> =>
    OutcomeAgrees'
  BY DEF OutcomeAgrees

\* Before the agent has settled, nothing terminal is in flight and the row is
\* not ended but by the sweep: settling disturbs none of them.
LEMMA Settling ==
  ASSUME PostsOK, LateOK, OutcomeAgrees, outcome = "none",
         UNCHANGED <<post, late, status, errorCode, pinned>>
  PROVE  PostsOK' /\ LateOK' /\ OutcomeAgrees'
  BY StatusFacts DEF PostsOK, LateOK, OutcomeAgrees

\* A callback is scheduled.
LEMMA Scheduled ==
  ASSUME ChainOK, NEW phase \in AgentPhases \ Terminal,
         NEW count \in Count \cup {NoCount}, Report(phase, count)
  PROVE  ChainOK'
<1>1. Callback(phase, count) \in Body /\ Callback(phase, count).phase = phase
  BY CallbackType
<1>2. QED
  BY <1>1 DEF ChainOK, Report

-------------------------------------------------------------------------------
(***************************************************************************)
(* The agent's steps.                                                      *)
(***************************************************************************)

\* The steps that schedule a callback (or, throttled, do not) and go on.
LEMMA SchedulingInv ==
  ASSUME Inv, Begin \/ Inventory \/ Metrics \/ Compiled \/ Rendered
  PROVE  Inv'
<1>1. UNCHANGED <<row, proof, pinned, post, last, resends, late, result, outcome>>
  BY DEF Begin, Inventory, Metrics, Compiled, Rendered, GoTo
<1>2. ChainOK'
  <2>1. CASE UNCHANGED chain
    BY <2>1, InvParts, KeepChain
  <2>2. ASSUME NEW phase \in {"collecting", "rendering", "verifying"},
               NEW count \in {0, Total, NoCount}, Report(phase, count)
        PROVE  ChainOK'
    BY <2>2, InvParts, Scheduled, StatusFacts, CountType
  <2>3. QED
    BY <2>1, <2>2 DEF Begin, Inventory, Metrics, Compiled, Rendered
<1>3. AgentOK'
  BY <1>1, InvParts
     DEF AgentOK, Begin, Inventory, Metrics, Compiled, Rendered, GoTo, Pc, Working
<1>4. QED
  BY <1>1, <1>2, <1>3, InvParts, InvPartsNext, KeepRow, KeepPosts, KeepLate,
     KeepCounters, KeepAgreement DEF row

LEMMA CollectedInv ==
  ASSUME Inv, Collected PROVE Inv'
<1>1. AgentOK' /\ outcome = "none"
  BY InvParts DEF AgentOK, Collected, GoTo, Pc, Working
<1>2. ChainOK'
  <2>1. CASE UNCHANGED chain
    BY <2>1, InvParts, KeepChain
  <2>2. CASE Report("compiling", 0)
    BY <2>2, InvParts, Scheduled, StatusFacts, CountType
  <2>3. QED
    BY <2>1, <2>2 DEF Collected
<1>3. RowOK' /\ CountersOK'
  BY InvParts, KeepRow, KeepCounters DEF Collected
<1>4. PostsOK' /\ LateOK' /\ OutcomeAgrees'
  BY <1>1, InvParts, Settling DEF Collected, row
<1>5. QED
  BY <1>1, <1>2, <1>3, <1>4, InvPartsNext

\* The steps on which the agent settles, or is about to.
LEMMA SettlingInv ==
  ASSUME Inv, Recorded \/ Uploaded \/ Raise PROVE Inv'
<1>1. AgentOK' /\ outcome = "none"
  BY InvParts DEF AgentOK, Recorded, Uploaded, Raise, Pc, Working
<1>2. UNCHANGED <<row, proof, pinned, chain, post, last, resends, late>>
  BY DEF Recorded, Uploaded, Raise
<1>3. RowOK' /\ CountersOK' /\ ChainOK'
  BY <1>2, InvParts, KeepRow, KeepCounters, KeepChain
<1>4. PostsOK' /\ LateOK' /\ OutcomeAgrees'
  BY <1>1, <1>2, InvParts, Settling DEF row
<1>5. QED
  BY <1>1, <1>3, <1>4, InvPartsNext

LEMMA VerifiedInv ==
  ASSUME Inv, Verified PROVE Inv'
<1>1. AgentOK' /\ outcome = "none" /\ outcome' = "none"
  BY InvParts DEF AgentOK, Verified, Pc, Working
<1>2. PostsOK'
  <2>1. /\ Callback("verification", NoCount) \in Body
        /\ Callback("verification", NoCount).phase \notin Terminal
    BY CallbackType, StatusFacts
  <2>2. QED
    BY <1>1, <2>1, InvParts, SendPosts DEF Verified, Channel
<1>3. LateOK' /\ ChainOK' /\ RowOK' /\ CountersOK'
  BY InvParts, KeepLate, KeepChain, KeepRow, KeepCounters DEF Verified
<1>4. OutcomeAgrees'
  BY <1>1, InvParts DEF OutcomeAgrees, Verified, row
<1>5. QED
  BY <1>1, <1>2, <1>3, <1>4, InvPartsNext

LEMMA TerminalCallInv ==
  ASSUME Inv, ReportTerminal \/ Resend PROVE Inv'
<1>1. outcome \in Terminal /\ AgentOK'
  BY InvParts, StatusFacts
     DEF AgentOK, ReportTerminal, Resend, GoTo, agentVars, Pc, Working
<1>2. PostsOK'
  <2>1. /\ Callback(outcome, NoCount) \in Body
        /\ Callback(outcome, NoCount).phase = outcome
    BY <1>1, CallbackType, StatusFacts
  <2>2. QED
    BY <2>1, InvParts, SendPosts DEF ReportTerminal, Resend, Channel, GoTo, agentVars
<1>3. LateOK' /\ ChainOK' /\ RowOK'
  BY InvParts, KeepLate, KeepChain, KeepRow
     DEF ReportTerminal, Resend, GoTo, agentVars
<1>4. CountersOK'
  BY InvParts, BoundAssumption DEF CountersOK, ReportTerminal, Resend
<1>5. OutcomeAgrees'
  BY InvParts, KeepAgreement DEF ReportTerminal, Resend, GoTo, agentVars, row
<1>6. QED
  BY <1>1, <1>2, <1>3, <1>4, <1>5, InvPartsNext

\* Ending without a word, or after the last one.
LEMMA EndingInv ==
  ASSUME Inv, Close \/ Cancelled PROVE Inv'
<1>1. AgentOK'
  BY InvParts DEF AgentOK, Close, Cancelled, GoTo, Pc, Working
<1>2. ChainOK'
  <2>1. CASE chain' = <<>>
    BY <2>1 DEF ChainOK
  <2>2. CASE UNCHANGED chain
    BY <2>2, InvParts, KeepChain
  <2>3. QED
    BY <2>1, <2>2 DEF Close, Cancelled
<1>3. PostsOK' /\ LateOK'
  BY InvParts, CutOffKeeps DEF Close, Cancelled, Channel, GoTo
<1>4. RowOK' /\ CountersOK' /\ OutcomeAgrees'
  BY InvParts, KeepRow, KeepCounters, KeepAgreement DEF Close, Cancelled, GoTo, row
<1>5. QED
  BY <1>1, <1>2, <1>3, <1>4, InvPartsNext

LEMMA AgentDiesInv ==
  ASSUME Inv, AgentDies PROVE Inv'
<1>1. AgentOK'
  BY InvParts DEF AgentOK, AgentDies, GoTo, Pc, Working
<1>2. ChainOK' /\ PostsOK'
  BY InvParts DEF ChainOK, PostsOK, AgentDies
<1>3. LateOK'
  <2>1. \A q \in InFlight : q \in Request /\ (q.body.phase \in Terminal =>
                                                q.body.phase = outcome)
    BY InvParts, RequestOfPost DEF InFlight, PostsOK
  <2>2. QED
    BY <2>1, InvParts DEF LateOK, AgentDies, GoTo
<1>4. RowOK' /\ CountersOK' /\ OutcomeAgrees'
  BY InvParts, KeepRow, KeepCounters, KeepAgreement DEF AgentDies, GoTo, row
<1>5. QED
  BY <1>1, <1>2, <1>3, <1>4, InvPartsNext

LEMMA DispatchInv ==
  ASSUME Inv, Dispatch PROVE Inv'
<1>1. Head(chain) \in Body /\ Head(chain).phase \notin Terminal
  BY InvParts DEF ChainOK, Dispatch
<1>2. PostsOK'
  BY <1>1, InvParts, SendPosts DEF Dispatch, Channel, agentVars
<1>3. ChainOK'
  BY InvParts DEF ChainOK, Dispatch
<1>4. LateOK' /\ RowOK' /\ AgentOK' /\ CountersOK' /\ OutcomeAgrees'
  BY InvParts, KeepLate, KeepRow, KeepAgent, KeepCounters, KeepAgreement
     DEF Dispatch, agentVars, row
<1>5. QED
  BY <1>2, <1>3, <1>4, InvPartsNext

-------------------------------------------------------------------------------
(***************************************************************************)
(* The endpoints' steps.                                                   *)
(***************************************************************************)

\* What handling a request does to the row, whoever still waits for it.
LEMMA HandleInv ==
  ASSUME RowOK, AgentOK, OutcomeAgrees, NEW seen, NEW body \in Body,
         IsVerification(body) \/ seen \in Seen,
         body.phase \in Terminal => body.phase = outcome,
         NEW got, Handle(seen, body, got), UNCHANGED <<agentVars, pinned>>
  PROVE  RowOK' /\ OutcomeAgrees'
<1>1. CASE IsVerification(body)
  BY <1>1 DEF Handle, row, RowOK, RowConsistent, OutcomeAgrees, AgentOK, agentVars
<1>2. CASE ~IsVerification(body) /\ ~Lands(seen, body)
  BY <1>2 DEF Handle, row, RowOK, RowConsistent, OutcomeAgrees, agentVars
<1>3. CASE ~IsVerification(body) /\ Lands(seen, body)
  <2>1. seen \in Seen /\ body.phase \in AgentPhases
    BY <1>3 DEF IsVerification, Body
  <2>2. status \in LiveStatus /\ status = seen.status
    BY <1>3, <2>1, DecidesFacts DEF Lands
  <2>3. Write(seen, body) /\ UNCHANGED proof
    BY <1>3 DEF Handle
  <2>4. ProgressAfter(seen, body) \in Count \cup {NoCount}
    BY DEF ProgressAfter, RowOK, Body
  <2>5. RowOK'
    BY <2>1, <2>3, <2>4, StatusFacts, CodeFacts DEF Write, RowOK, RowConsistent
  <2>6. OutcomeAgrees'
    BY <2>1, <2>3, StatusFacts, CodeFacts DEF Write, OutcomeAgrees, AgentOK, agentVars
  <2>7. QED
    BY <2>5, <2>6
<1>4. QED
  BY <1>1, <1>2, <1>3

LEMMA SeenNowType == RowOK => SeenNow \in Seen
  BY DEF RowOK, SeenNow, Seen

LEMMA ReadInv ==
  ASSUME Inv, NEW ch \in Channel, Read(ch) PROVE Inv'
<1>1. PostsOK'
  <2>1. SeenNow \in Seen
    BY InvParts, SeenNowType
  <2>2. post[ch] \in Post
    BY InvParts DEF PostsOK, Read
  <2>3. post' = [post EXCEPT ![ch] = [post[ch] EXCEPT !.seen = SeenNow]]
    BY DEF Read
  <2>4. /\ [post[ch] EXCEPT !.seen = SeenNow] \in Post
        /\ [post[ch] EXCEPT !.seen = SeenNow].body = post[ch].body
    BY <2>1, <2>2 DEF Post
  <2>5. QED
    BY <2>3, <2>4, InvParts DEF PostsOK, Read, agentVars
<1>2. /\ LateOK' /\ RowOK' /\ AgentOK' /\ ChainOK' /\ CountersOK'
      /\ OutcomeAgrees'
  BY InvParts, KeepLate, KeepRow, KeepAgent, KeepChain, KeepCounters, KeepAgreement
     DEF Read, agentVars, row
<1>3. QED
  BY <1>1, <1>2, InvPartsNext

LEMMA AnswerInv ==
  ASSUME Inv, NEW ch \in Channel, Answer(ch) PROVE Inv'
<1>1. /\ post[ch] \in Post /\ post[ch] # Idle
      /\ post[ch].body.phase \in Terminal => post[ch].body.phase = outcome
  BY InvParts DEF PostsOK, Answer
<1>2. PICK got \in {"delivered", "refused"} :
        /\ Handle(post[ch].seen, post[ch].body, got)
        /\ \E heard \in {got} \cup (IF Lossy THEN {"unanswered"} ELSE {}) :
             /\ post' = [post EXCEPT ![ch] = NextAttempt(ch, heard)]
             /\ Noted(ch, heard)
  BY DEF Answer
<1>3. PICK heard \in {got, "unanswered"} :
        post' = [post EXCEPT ![ch] = NextAttempt(ch, heard)] /\ Noted(ch, heard)
  BY <1>2
<1>4. RowOK' /\ OutcomeAgrees'
  <2>1. post[ch].body \in Body /\ post[ch].seen \in Seen \cup {Unread}
    BY <1>1 DEF Post
  <2>2. QED
    BY <1>1, <1>2, <2>1, InvParts, HandleInv DEF Answer
<1>5. PostsOK'
  BY <1>1, <1>3, InvParts, NextAttemptType DEF PostsOK, Answer, agentVars
<1>6. CountersOK'
  BY <1>2, <1>3, InvParts DEF CountersOK, Noted, Answer
<1>7. LateOK' /\ AgentOK' /\ ChainOK'
  BY InvParts, KeepLate, KeepAgent, KeepChain DEF Answer, agentVars
<1>8. QED
  BY <1>4, <1>5, <1>6, <1>7, InvPartsNext

LEMMA TimesOutInv ==
  ASSUME Inv, NEW ch \in Channel, TimesOut(ch) PROVE Inv'
<1>1. PostsOK' /\ LateOK'
  BY InvParts, NextAttemptType, CutOffKeeps DEF TimesOut, agentVars
<1>2. CountersOK'
  BY InvParts DEF CountersOK, Noted, TimesOut
<1>3. RowOK' /\ AgentOK' /\ ChainOK' /\ OutcomeAgrees'
  BY InvParts, KeepRow, KeepAgent, KeepChain, KeepAgreement
     DEF TimesOut, agentVars, row
<1>4. QED
  BY <1>1, <1>2, <1>3, InvPartsNext

LEMMA LateReadInv ==
  ASSUME Inv, NEW q \in late, LateRead(q) PROVE Inv'
<1>1. LateOK'
  <2>1. /\ q \in Request /\ SeenNow \in Seen
        /\ q.body.phase \in Terminal => q.body.phase = outcome
    BY InvParts, SeenNowType DEF LateOK
  <2>2. /\ [q EXCEPT !.seen = SeenNow] \in Request
        /\ [q EXCEPT !.seen = SeenNow].body = q.body
    BY <2>1 DEF Request
  <2>3. QED
    BY <2>1, <2>2, InvParts DEF LateOK, LateRead, agentVars
<1>2. /\ PostsOK' /\ RowOK' /\ AgentOK' /\ ChainOK' /\ CountersOK'
      /\ OutcomeAgrees'
  BY InvParts, KeepPosts, KeepRow, KeepAgent, KeepChain, KeepCounters, KeepAgreement
     DEF LateRead, agentVars, row
<1>3. QED
  BY <1>1, <1>2, InvPartsNext

LEMMA LateAnswerInv ==
  ASSUME Inv, NEW q \in late, LateAnswer(q) PROVE Inv'
<1>1. /\ q.body \in Body /\ q.seen \in Seen \cup {Unread}
      /\ q.body.phase \in Terminal => q.body.phase = outcome
  BY InvParts DEF LateOK, Request
<1>2. RowOK' /\ OutcomeAgrees'
  BY <1>1, InvParts, HandleInv DEF LateAnswer
<1>3. LateOK'
  BY InvParts DEF LateOK, LateAnswer, agentVars
<1>4. PostsOK' /\ AgentOK' /\ ChainOK' /\ CountersOK'
  BY InvParts, KeepPosts, KeepAgent, KeepChain, KeepCounters
     DEF LateAnswer, agentVars
<1>5. QED
  BY <1>2, <1>3, <1>4, InvPartsNext

LEMMA ClockInv ==
  ASSUME Inv, Expire \/ Sweep PROVE Inv'
<1>1. RowOK'
  BY InvParts, StatusFacts, CodeFacts DEF RowOK, RowConsistent, Expire, Sweep
<1>2. OutcomeAgrees'
  BY InvParts DEF OutcomeAgrees, Expire, Sweep, agentVars
<1>3. PostsOK' /\ LateOK' /\ AgentOK' /\ ChainOK' /\ CountersOK'
  BY InvParts, KeepPosts, KeepLate, KeepAgent, KeepChain, KeepCounters
     DEF Expire, Sweep, agentVars
<1>4. QED
  BY <1>1, <1>2, <1>3, InvPartsNext

\* Inv is inductive: one case per action.
LEMMA NextInv == Inv /\ [Next]_vars => Inv'
<1> SUFFICES ASSUME Inv, [Next]_vars
             PROVE  Inv'
  OBVIOUS
<1>1. CASE Pipeline
  BY <1>1, SchedulingInv, CollectedInv, VerifiedInv, SettlingInv, TerminalCallInv,
     EndingInv DEF Pipeline
<1>2. CASE Raise \/ Cancelled \/ AgentDies \/ Dispatch
  BY <1>2, SettlingInv, EndingInv, AgentDiesInv, DispatchInv
<1>3. ASSUME NEW ch \in Channel, Delivery(ch) PROVE Inv'
  BY <1>3, ReadInv, AnswerInv, TimesOutInv DEF Delivery
<1>4. ASSUME NEW q \in late, LateRead(q) \/ LateAnswer(q) PROVE Inv'
  BY <1>4, LateReadInv, LateAnswerInv
<1>5. CASE Expire \/ Sweep
  BY <1>5, ClockInv
<1>6. CASE UNCHANGED vars
  BY <1>6, InvParts, InvPartsNext, KeepPosts, KeepLate, KeepRow, KeepAgent, KeepChain,
     KeepCounters, KeepAgreement DEF vars, row, agentVars
<1>7. QED
  BY <1>1, <1>2, <1>3, <1>4, <1>5, <1>6 DEF Next

\* The invariant of the run's callbacks.
THEOREM Invariance == Spec => []Inv
  BY InitInv, NextInv, PTL DEF Spec

\* Every value stays in range, whatever the network does.
THEOREM TypeCorrectness == Spec => []TypeOK
<1>1. Inv => TypeOK
  BY DEF Inv
<1>2. QED
  BY <1>1, Invariance, PTL

\* The row ends as its agent ended, or as TIMEOUT.
THEOREM Agreement == Spec => []OutcomeAgrees
<1>1. Inv => OutcomeAgrees
  BY DEF Inv
<1>2. QED
  BY <1>1, Invariance, PTL

-------------------------------------------------------------------------------
(***************************************************************************)
(* What a step does to the row.                                            *)
(***************************************************************************)

\* A step leaves the row's status alone, answers a callback that lands, or is
\* the sweep.
LEMMA RowSteps ==
  ASSUME Inv, [Next]_vars
  PROVE  \/ UNCHANGED <<status, errorCode>> /\ (deadline' # "none" <=> deadline # "none")
         \/ \E seen \in Seen, body \in Body :
              body.phase \in AgentPhases /\ Lands(seen, body) /\ Write(seen, body)
         \/ Sweep
<1> DEFINE Still == UNCHANGED <<status, errorCode>>
                      /\ (deadline' # "none" <=> deadline # "none")
<1> DEFINE Landing == \E seen \in Seen, body \in Body :
             body.phase \in AgentPhases /\ Lands(seen, body) /\ Write(seen, body)
<1>1. CASE UNCHANGED row
  BY <1>1 DEF row
<1>2. ASSUME NEW seen \in Seen \cup {Unread}, NEW body \in Body, NEW got,
             IsVerification(body) \/ seen \in Seen, Handle(seen, body, got)
      PROVE  UNCHANGED row \/ Landing
  BY <1>2 DEF Handle, IsVerification, Body
<1>3. ASSUME NEW ch \in Channel, Answer(ch) PROVE UNCHANGED row \/ Landing
  <2>1. post[ch] \in Post
    BY <1>3, InvParts DEF PostsOK, Answer
  <2>2. post[ch].body \in Body /\ post[ch].seen \in Seen \cup {Unread}
    BY <2>1 DEF Post
  <2>3. QED
    BY <1>2, <1>3, <2>2 DEF Answer
<1>4. ASSUME NEW q \in late, LateAnswer(q) PROVE UNCHANGED row \/ Landing
  <2>1. q.body \in Body /\ q.seen \in Seen \cup {Unread}
    BY InvParts DEF LateOK, Request
  <2>2. QED
    BY <1>2, <1>4, <2>1 DEF LateAnswer
<1>5. CASE Expire
  BY <1>5 DEF Expire
<1>6. CASE Pipeline \/ Raise \/ Cancelled \/ AgentDies \/ Dispatch
  BY <1>1, <1>6 DEF Pipeline, Begin, Inventory, Metrics, Collected, Compiled, Rendered,
     Verified, Recorded, Uploaded, ReportTerminal, Resend, Close, Raise, Cancelled,
     AgentDies, Dispatch
<1>7. ASSUME NEW ch \in Channel, Read(ch) \/ TimesOut(ch) PROVE UNCHANGED row
  BY <1>7 DEF Read, TimesOut
<1>8. ASSUME NEW q \in late, LateRead(q) PROVE UNCHANGED row
  BY <1>8 DEF LateRead
<1>9. CASE UNCHANGED vars
  BY <1>1, <1>9 DEF vars
<1>10. QED
  BY <1>1, <1>3, <1>4, <1>5, <1>6, <1>7, <1>8, <1>9 DEF Next, Delivery

\* A row found verifying is completed only beside a passing proof.
THEOREM NoUnprovedCompletion == Spec => ProofBeforeVerifiedCompletion
<1>1. ASSUME Inv, [Next]_vars
      PROVE  [status = "verifying" /\ status' = "completed" => proof = "pass"]_vars
  <2> SUFFICES ASSUME status = "verifying", status' = "completed"
               PROVE  proof = "pass"
    OBVIOUS
  <2>1. ~Sweep
    BY DEF Sweep
  <2>2. PICK seen \in Seen, body \in Body : Lands(seen, body) /\ Write(seen, body)
    BY <1>1, <2>1, RowSteps
  <2>3. QED
    BY <2>2 DEF Lands, Write, NeedsProof
<1>2. QED
  BY <1>1, Invariance, PTL DEF Spec, ProofBeforeVerifiedCompletion

-------------------------------------------------------------------------------
(***************************************************************************)
(* RunCallbacks implements RunMachine.                                     *)
(***************************************************************************)

\* The instance has its own copy of the vocabulary.
LEMMA SameVocabulary ==
  /\ Machine!Status = Status /\ Machine!DRIVEN = DRIVEN
  /\ Machine!RowErrorCodes = RowErrorCodes /\ Machine!NoCode = NoCode
  BY DEF Machine!Status, Status, Machine!LiveStatus, LiveStatus,
     Machine!Terminal, Terminal, Machine!DRIVEN, DRIVEN,
     Machine!RowErrorCodes, RowErrorCodes, Machine!AppWrittenCodes,
     AppWrittenCodes, Machine!AgentErrorCodes, AgentErrorCodes,
     Machine!TimeoutCode, TimeoutCode, Machine!UnreadableCode, UnreadableCode,
     Machine!NoCode, NoCode

LEMMA InitRefines == Init => Machine!Init
  BY SameVocabulary DEF Init, Machine!Init

LEMMA NextRefines == Inv /\ Inv' /\ [Next]_vars => [Machine!Next]_(Machine!vars)
<1> SUFFICES ASSUME Inv, Inv', [Next]_vars
             PROVE  Machine!Next
  OBVIOUS
<1>1. Machine!TypeOK'
  BY InvPartsNext, SameVocabulary DEF RowOK, Machine!TypeOK
<1> DEFINE r == "run"
<1>2. Machine!Stays(r) \/ Machine!Advanced(r) \/ Machine!Failed(r)
  <2>1. CASE UNCHANGED <<status, errorCode>> /\ (deadline' # "none" <=> deadline # "none")
    BY <2>1 DEF Machine!Stays
  <2>2. CASE Sweep
    <3>1. <<status, "failed">> \in DRIVEN
      BY <2>2 DEF Sweep, DRIVEN, LiveStatus
    <3>2. QED
      BY <2>2, <3>1, CodeFacts, SameVocabulary DEF Sweep, Machine!Failed
  <2>3. ASSUME NEW seen \in Seen, NEW body \in Body, body.phase \in AgentPhases,
               Lands(seen, body), Write(seen, body)
        PROVE  Machine!Stays(r) \/ Machine!Advanced(r) \/ Machine!Failed(r)
    <3>1. /\ status = seen.status /\ status \in LiveStatus
          /\ body.phase = status \/ <<status, body.phase>> \in DRIVEN
      BY <2>3, DecidesFacts DEF Lands
    <3>2. errorCode = NoCode /\ deadline # "none"
      BY <3>1, InvParts, StatusFacts DEF RowOK, RowConsistent
    <3>3. CASE body.phase = status
      BY <2>3, <3>1, <3>2, <3>3, StatusFacts DEF Write, Machine!Stays, RowOK
    <3>4. CASE body.phase = "failed"
      BY <2>3, <3>1, <3>4, StatusFacts, CodeFacts, SameVocabulary
         DEF Write, Machine!Failed
    <3>5. CASE body.phase # status /\ body.phase # "failed"
      BY <2>3, <3>1, <3>2, <3>5, StatusFacts, SameVocabulary
         DEF Write, Machine!Advanced
    <3>6. QED
      BY <3>3, <3>4, <3>5
  <2>4. QED
    BY <2>1, <2>2, <2>3, RowSteps
<1>3. QED
  BY <1>1, <1>2 DEF Machine!Next

\* However callbacks are lost, repeated or late, the row follows the machine.
THEOREM Refinement == Spec => Refines
<1>1. Spec => []Inv
  BY Invariance
<1>2. QED
  BY <1>1, InitRefines, NextRefines, PTL DEF Spec, Refines, Machine!Spec
-------------------------------------------------------------------------------
(***************************************************************************)
(* With every request answered in time.                                    *)
(*                                                                         *)
(* What the row has been told, what is in flight and what is scheduled is  *)
(* then one line of phases from the row's to the agent's, each following   *)
(* the one before it by an edge of DRIVEN or as a refresh: the stronger    *)
(* invariant RInv says so, with what each channel may carry.  It is lost   *)
(* only when the sweep ends the row, which then refuses everything.        *)
(***************************************************************************)

Intermediate == AgentPhases \ Terminal

\* Callback b may come where the row, or the callback before it, is in phase s.
Follows(s, b) ==
  \/ b.phase = s /\ s = "collecting" /\ b.count # NoCount
  \/ b.phase # s /\ b.phase \in Intermediate /\ <<s, b.phase>> \in DRIVEN

\* The phase the first scheduled callback will find, and the one they lead to.
Before == IF post["chain"] # Idle THEN post["chain"].body.phase ELSE status
Front == IF chain = <<>> THEN Before ELSE chain[Len(chain)].phase

\* Where the callbacks lead, for an agent that works or has succeeded.
Ahead ==
  CASE pc = "start" -> "claimed"
    [] pc \in {"inventory", "metrics", "collected"} -> "collecting"
    [] pc = "compiling" -> "compiling"
    [] pc = "rendering" -> "rendering"
    [] pc \in {"verifying", "recording", "uploading"} -> "verifying"
    [] OTHER -> IF pinned THEN "verifying" ELSE "collecting"

\* While the row is live its callbacks are a line without a gap, from the row's own
\* phase to the agent's.
Linked ==
  /\ post["chain"] # Idle => Follows(status, post["chain"].body)
  /\ chain # <<>> => Follows(Before, chain[1])
  /\ \A i \in 1 .. Len(chain) : i + 1 \in 1 .. Len(chain) => Follows(chain[i].phase, chain[i + 1])

InLine ==
  /\ Linked
  /\ pc \in Working \/ outcome = "completed" => Front = Ahead

\* What each channel carries, and when.
Carried ==
  /\ late = {}
  /\ \A i \in 1 .. Len(chain) : chain[i].phase \in Intermediate
  /\ post["chain"] # Idle => post["chain"].body.phase \in Intermediate
  /\ post["main"] # Idle =>
       \/ pc = "recording" /\ post["main"].body.phase = "verification" /\ post["main"].seen = Unread
       \/ pc = "terminal" /\ post["main"].body.phase = outcome
  /\ pc \in {"terminal", "done"} => chain = <<>> /\ post["chain"] = Idle
  /\ pc = "done" => post["main"] = Idle

\* A request holds the row as it is, unless the row has ended since.
SeenIsCurrent ==
  \A ch \in Channel :
    post[ch] # Idle /\ post[ch].seen # Unread => status \in Terminal \/ post[ch].seen = SeenNow

\* A verdict is recorded before the agent acts on it, and success waits for its answer.
Recording ==
  /\ pc \in {"compiling", "rendering", "verifying", "recording", "uploading"} => pinned
  /\ pc = "recording" /\ post["main"] = Idle => proof = result
  /\ pc = "uploading" => proof = "pass"
  /\ outcome = "completed" /\ pinned => proof = "pass"
  /\ pc \in {"terminal", "done"} /\ outcome = "completed" /\ post["main"] = Idle =>
       status \in Terminal

RInv ==
  /\ Inv /\ Carried /\ SeenIsCurrent /\ Recording /\ NextInLine
  /\ status \notin Terminal => InLine

LEMMA IntermediateFacts ==
  /\ Intermediate = {"collecting", "compiling", "rendering", "verifying"}
  /\ "verification" \notin Intermediate
  BY DEF Intermediate, AgentPhases, Terminal

\* What follows a phase may be decided on by a row in that phase.
LEMMA FollowsDecides ==
  ASSUME NEW s \in LiveStatus, NEW b \in Body, NEW seen, seen.status = s, Follows(s, b)
  PROVE  Decides(seen, b) /\ ~NeedsProof(seen, b)
<1>1. s \notin Terminal /\ b.phase \in Intermediate /\ b.phase \in Status
  BY IntermediateFacts, StatusFacts DEF Follows, LiveStatus, Terminal, Status
<1>2. b.phase \in {s} \cup Driven(s)
  BY <1>1 DEF Follows, Driven
<1> QED BY <1>1, <1>2, IntermediateFacts DEF Decides, AcceptedTargets, NeedsProof

\* One more callback, that may follow the last, leaves no gap.
LEMMA ReportLinks ==
  ASSUME NEW phase \in Intermediate, NEW count \in Count \cup {NoCount},
         Linked, chain \in Seq(Body), Report(phase, count), UNCHANGED <<post, status>>,
         Follows(Front, Callback(phase, count))
  PROVE  Linked' /\ Front' = phase
<1> DEFINE b == Callback(phase, count)
<1>1. b \in Body /\ b.phase = phase
  BY CallbackType, IntermediateFacts, StatusFacts DEF Intermediate
<1> HIDE DEF b
<1>2. /\ chain' = Append(chain, b) /\ chain' \in Seq(Body) /\ Len(chain') = Len(chain) + 1
      /\ Len(chain) \in Nat /\ chain'[Len(chain) + 1] = b
      /\ \A i \in 1 .. Len(chain) : chain'[i] = chain[i]
  BY <1>1 DEF Report, b
<1>3. Before' = Before /\ chain' # <<>>
  BY <1>2 DEF Before
<1>4. Front' = phase
  BY <1>1, <1>2, <1>3 DEF Front
<1>5. Follows(Before, chain'[1])
  <2>1. CASE chain = <<>>
    BY <1>2, <2>1 DEF Front, b
  <2>2. CASE chain # <<>>
    <3>1. 1 \in 1 .. Len(chain)
      BY <2>2, <1>2
    <3> QED BY <1>2, <2>2, <3>1 DEF Linked
  <2> QED BY <2>1, <2>2
<1>6. ASSUME NEW i \in 1 .. Len(chain'), i + 1 \in 1 .. Len(chain')
      PROVE  Follows(chain'[i].phase, chain'[i + 1])
  <2>1. i \in 1 .. Len(chain) /\ chain'[i] = chain[i] /\ chain # <<>>
    BY <1>2, <1>6
  <2>2. CASE i + 1 \in 1 .. Len(chain)
    BY <1>2, <2>1, <2>2 DEF Linked
  <2>3. CASE i = Len(chain)
    <3>1. Front = chain[i].phase /\ chain'[i + 1] = b
      BY <1>2, <2>1, <2>3 DEF Front
    <3> QED BY <2>1, <3>1 DEF b
  <2> QED BY <1>2, <1>6, <2>1, <2>2, <2>3
<1>7. post["chain"]' # Idle => Follows(status', post["chain"].body')
  BY DEF Linked
<1>8. Follows(Before', chain'[1])
  BY <1>3, <1>5
<1>9. Linked'
  <2> HIDE DEF Follows
  <2> QED BY <1>3, <1>6, <1>7, <1>8 DEF Linked, Follows
<1> QED BY <1>4, <1>9

\* The parts that a step with the requests and the row at rest leaves alone.
LEMMA AtRest ==
  ASSUME RInv, UNCHANGED <<row, post, late, proof>>
  PROVE  /\ SeenIsCurrent' /\ NextInLine' /\ late' = {}
         /\ post["chain"]' # Idle => post["chain"].body.phase' \in Intermediate
<1>1. SeenNow' = SeenNow /\ status' = status /\ post' = post
  BY DEF SeenNow, row
<1> QED BY <1>1 DEF RInv, SeenIsCurrent, NextInLine, Carried, Decides

\* The steps that schedule the next callback, or go on without one.
LEMMA SchedulingRInv ==
  ASSUME RInv, Begin \/ Inventory \/ Metrics \/ Compiled \/ Rendered \/ Collected
  PROVE  RInv'
<1>1. UNCHANGED <<row, proof, pinned, post, last, resends, late, result>>
  BY DEF Begin, Inventory, Metrics, Compiled, Rendered, Collected, GoTo
<1>2. Inv' /\ chain \in Seq(Body)
  BY NextInv DEF RInv, Next, Pipeline, Inv, TypeOK
<1>3. /\ pc \in Working /\ outcome = "none" /\ pinned \in BOOLEAN
      /\ pc' \in Working \cup {"closing"}
      /\ pc' \notin {"recording", "uploading", "terminal", "done"}
      /\ pc \notin {"recording", "uploading", "terminal", "done"}
  BY InvParts DEF RInv, AgentOK, Begin, Inventory, Metrics, Compiled, Rendered, Collected, GoTo, Working
<1>4. post["main"] = Idle
  BY <1>3 DEF RInv, Carried
<1>5. Recording'
  BY <1>1, <1>3, <1>4 DEF RInv, Recording, Begin, Inventory, Metrics, Compiled, Rendered, Collected, GoTo, Working
<1>6. \/ /\ UNCHANGED chain /\ Front' = Front
         /\ \/ pc = "inventory" /\ pc' = "metrics" /\ outcome' = "none"
            \/ pc = "collected" /\ ~pinned /\ pc' = "closing" /\ outcome' = "completed"
      \/ \E phase \in Intermediate, count \in Count \cup {NoCount} :
           /\ Report(phase, count) /\ outcome' = "none"
           /\ status \notin Terminal => Follows(Front, Callback(phase, count)) /\ Ahead' = phase
  <2> DEFINE Reported(phase, count) ==
        /\ phase \in Intermediate /\ count \in Count \cup {NoCount}
        /\ Report(phase, count) /\ outcome' = "none"
        /\ status \notin Terminal => Follows(Front, Callback(phase, count)) /\ Ahead' = phase
  <2>1. status \notin Terminal => Front = Ahead
    BY <1>3 DEF RInv, InLine
  <2>2. outcome = "none" /\ pinned \in BOOLEAN /\ pinned' = pinned
    BY <1>1, <1>3
  <2>3. UNCHANGED chain => Front' = Front
    BY <1>1 DEF Front, Before, row
  <2>4. 0 \in Count /\ Total \in Count /\ 0 # NoCount /\ Total # NoCount
    BY CountType, CountAssumption
  <2>5. CASE Begin
    <3>1. Reported("collecting", NoCount)
      BY <2>1, <2>2, <2>5, IntermediateFacts
         DEF Begin, GoTo, Follows, Callback, Ahead, DRIVEN
    <3> QED BY <3>1
  <2>6. CASE Inventory
    <3>1. Report("collecting", 0) => Reported("collecting", 0)
      BY <2>1, <2>2, <2>4, <2>6, IntermediateFacts
         DEF Inventory, GoTo, Follows, Callback, Ahead
    <3> QED BY <2>2, <2>3, <2>6, <3>1 DEF Inventory, GoTo
  <2>7. CASE Metrics
    <3>1. Reported("collecting", Total)
      BY <2>1, <2>2, <2>4, <2>7, IntermediateFacts
         DEF Metrics, GoTo, Follows, Callback, Ahead
    <3> QED BY <3>1
  <2>8. CASE Collected
    <3>1. Report("compiling", 0) => Reported("compiling", 0)
      BY <2>1, <2>2, <2>4, <2>8, IntermediateFacts
         DEF Collected, GoTo, Follows, Callback, Ahead, DRIVEN, Report
    <3> QED BY <2>2, <2>3, <2>8, <3>1 DEF Collected
  <2>9. CASE Compiled
    <3>1. Reported("rendering", 0)
      BY <2>1, <2>2, <2>4, <2>9, IntermediateFacts
         DEF Compiled, GoTo, Follows, Callback, Ahead, DRIVEN
    <3> QED BY <3>1
  <2>10. CASE Rendered
    <3>1. Reported("verifying", NoCount)
      BY <2>1, <2>2, <2>10, IntermediateFacts
         DEF Rendered, GoTo, Follows, Callback, Ahead, DRIVEN
    <3> QED BY <3>1
  <2> QED BY <2>5, <2>6, <2>7, <2>8, <2>9, <2>10
<1>7. CASE UNCHANGED chain
  <2>1. Linked' <=> Linked
    BY <1>1, <1>7 DEF Linked, Before, row
  <2>2. status' \notin Terminal => InLine'
    BY <1>1, <1>3, <1>6, <1>7, <2>1 DEF RInv, InLine, Ahead, row, Report
  <2>3. Carried'
    BY <1>1, <1>3, <1>4, <1>7 DEF RInv, Carried
  <2> QED BY <1>1, <1>2, <1>5, <2>2, <2>3, AtRest DEF RInv
<1>8. ASSUME NEW phase \in Intermediate, NEW count \in Count \cup {NoCount},
             Report(phase, count), outcome' = "none",
             status \notin Terminal => Follows(Front, Callback(phase, count)) /\ Ahead' = phase
      PROVE  RInv'
  <2>1. status' = status /\ post' = post
    BY <1>1 DEF row
  <2>2. status' \notin Terminal => InLine'
    BY <1>2, <1>8, <2>1, ReportLinks DEF RInv, InLine
  <2>3. \A i \in 1 .. Len(chain') : chain'[i].phase \in Intermediate
    <3>1. Callback(phase, count).phase = phase
      BY DEF Callback
    <3> QED BY <1>2, <1>8, <3>1 DEF Report, RInv, Carried
  <2>4. Carried'
    BY <1>1, <1>3, <1>4, <2>1, <2>3 DEF RInv, Carried
  <2> QED BY <1>1, <1>2, <1>5, <2>2, <2>4, AtRest DEF RInv
<1> QED BY <1>6, <1>7, <1>8

LEMMA InitRInv == Init => RInv
<1> SUFFICES ASSUME Init PROVE RInv
  OBVIOUS
<1>1. Inv
  BY InitInv
<1>2. /\ \A ch \in Channel : post[ch] = Idle
      /\ chain = <<>> /\ status = "claimed" /\ pc = "start" /\ outcome = "none"
  BY DEF Init
<1>3. post["chain"] = Idle /\ post["main"] = Idle
  BY <1>2 DEF Channel
<1>4. Front = "claimed" /\ Ahead = "claimed" /\ Linked
  BY <1>2, <1>3 DEF Front, Before, Ahead, Linked
<1>5. Carried
  BY <1>2, <1>3 DEF Init, Carried
<1> QED BY <1>1, <1>2, <1>4, <1>5 DEF RInv, InLine, SeenIsCurrent, NextInLine, Recording

\* What RInv says of the agent and of each channel's request, at hand for every step.
LEMMA RFacts ==
  ASSUME RInv
  PROVE  /\ pc \in Pc /\ pinned \in BOOLEAN /\ outcome \in {"none", "completed", "failed"}
         /\ pc \in Working => outcome = "none"
         /\ pc \in {"closing", "terminal"} => outcome \in {"completed", "failed"}
         /\ status \in Status \ {"queued"}
         /\ chain \in Seq(Body) /\ post \in [Channel -> Post \cup {Idle}]
         /\ \A ch \in Channel : post[ch] # Idle =>
              /\ post[ch].body \in Body /\ post[ch].seen \in Seen \cup {Unread}
              /\ post[ch].body.phase \in AgentPhases \cup {"verification"}
<1>1. RowOK /\ AgentOK /\ ChainOK /\ PostsOK
  BY InvParts DEF RInv
<1>2. \A ch \in Channel : post[ch] # Idle => post[ch] \in Post
  BY <1>1 DEF PostsOK
<1> QED BY <1>1, <1>2 DEF RowOK, AgentOK, ChainOK, PostsOK, Post, Body

\* What is said of the line depends on the row and the chain's request alone.
LEMMA SameLine ==
  ASSUME UNCHANGED <<status, chain>>, UNCHANGED (post["chain"])
  PROVE  (Linked' <=> Linked) /\ Front' = Front /\ Before' = Before
  BY DEF Linked, Front, Before

LEMMA SendFacts ==
  ASSUME post \in [Channel -> Post \cup {Idle}], NEW ch \in Channel, NEW body \in Body,
         Send(ch, body)
  PROVE  /\ post'[ch] # Idle /\ post'[ch].body = body /\ post'[ch].seen = Unread
         /\ \A other \in Channel \ {ch} : post'[other] = post[other]
<1>1. [body |-> body, seen |-> Unread, attempt |-> 1] \in Post
  BY DEF Post, MaxAttempts
<1> QED BY <1>1, IdleAssumption DEF Send

\* A new request has read nothing yet.
LEMMA SendSeen ==
  ASSUME RInv, NEW ch \in Channel, NEW body \in Body, Send(ch, body), UNCHANGED row
  PROVE  SeenIsCurrent' /\ NextInLine'
<1>1. /\ post'[ch].seen = Unread
      /\ \A other \in Channel \ {ch} : post'[other] = post[other]
  BY RFacts, SendFacts
<1>2. SeenNow' = SeenNow /\ status' = status
  BY DEF SeenNow, row
<1>3. SeenIsCurrent'
  BY <1>1, <1>2 DEF RInv, SeenIsCurrent
<1>4. NextInLine'
  BY <1>1 DEF RInv, NextInLine, Decides
<1> QED BY <1>3, <1>4

\* The agent hands the verdict over to be recorded.
LEMMA VerifiedRInv ==
  ASSUME RInv, Verified PROVE RInv'
<1>1. Inv'
  BY NextInv DEF RInv, Next, Pipeline
<1>2. Callback("verification", NoCount) \in Body /\ Callback("verification", NoCount).phase = "verification"
  BY CallbackType
<1>3. /\ post'["main"] # Idle /\ post'["main"].body.phase = "verification"
      /\ post'["main"].seen = Unread /\ post'["chain"] = post["chain"]
  BY <1>2, RFacts, SendFacts DEF Verified, Channel
<1>4. SeenIsCurrent' /\ NextInLine'
  BY <1>2, SendSeen DEF Verified, Channel
<1>5. Carried'
  BY <1>3 DEF RInv, Carried, Verified
<1>6. Recording'
  BY <1>3, RFacts DEF RInv, Recording, Verified, Working
<1>7. status' \notin Terminal => InLine'
  BY <1>3, RFacts, SameLine DEF RInv, InLine, Verified, Working, Ahead, row
<1> QED BY <1>1, <1>4, <1>5, <1>6, <1>7 DEF RInv

\* The agent acts on the recorded verdict, or settles.
LEMMA SettlingRInv ==
  ASSUME RInv, Recorded \/ Uploaded \/ Raise PROVE RInv'
<1>1. Inv'
  BY NextInv DEF RInv, Next, Pipeline
<1>2. UNCHANGED <<row, post, late, proof, pinned, chain>>
  BY DEF Recorded, Uploaded, Raise
<1>3. /\ pc \in Working /\ pc' \in {"uploading", "closing"} /\ outcome = "none"
      /\ post["main"] = Idle
  BY RFacts DEF RInv, Carried, Recorded, Uploaded, Raise, Working
<1>4. SeenIsCurrent' /\ NextInLine'
  BY <1>2, AtRest
<1>5. Carried'
  BY <1>2, <1>3 DEF RInv, Carried
<1>6. Recording'
  BY <1>2, <1>3 DEF RInv, Recording, Recorded, Uploaded, Raise
<1>7. status' \notin Terminal => InLine'
  <2>1. Linked' <=> Linked
    BY <1>2, SameLine DEF row
  <2>2. Front' = Front
    BY <1>2, SameLine DEF row
  <2>3. pc' \in Working \/ outcome' = "completed" => Ahead' = Ahead
    BY <1>2, <1>3 DEF RInv, Recording, Recorded, Uploaded, Raise, Ahead, Working
  <2> QED BY <1>2, <1>3, <2>1, <2>2, <2>3 DEF RInv, InLine, row
<1> QED BY <1>1, <1>4, <1>5, <1>6, <1>7 DEF RInv

\* The terminal callback, sent behind a settled chain.
LEMMA TerminalRInv ==
  ASSUME RInv, Lossy = FALSE, ReportTerminal \/ Resend PROVE RInv'
<1>1. Inv'
  BY NextInv DEF RInv, Next, Pipeline
<1>2. /\ pc \in {"closing", "terminal"} /\ pc' = "terminal"
      /\ outcome \in {"completed", "failed"}
      /\ UNCHANGED <<row, late, proof, pinned, chain, outcome, result>>
      /\ chain = <<>> /\ post["chain"] = Idle
  BY RFacts DEF RInv, Carried, ReportTerminal, Resend, GoTo, agentVars, ChainSettled
<1>3. Callback(outcome, NoCount) \in Body /\ Callback(outcome, NoCount).phase = outcome
  BY <1>2, CallbackType, StatusFacts
<1>4. Send("main", Callback(outcome, NoCount))
  BY DEF ReportTerminal, Resend
<1>5. /\ post'["main"] # Idle /\ post'["main"].body.phase = outcome
      /\ post'["chain"] = post["chain"]
  BY <1>3, <1>4, RFacts, SendFacts DEF Channel
<1>6. SeenIsCurrent' /\ NextInLine'
  BY <1>2, <1>3, <1>4, SendSeen DEF Channel
<1>7. Carried'
  BY <1>2, <1>5 DEF RInv, Carried
<1>8. Recording'
  BY <1>2, <1>5 DEF RInv, Recording
<1>9. status' \notin Terminal => InLine'
  BY <1>2, <1>5, SameLine DEF RInv, InLine, Ahead, row, Working
<1> QED BY <1>1, <1>6, <1>7, <1>8, <1>9 DEF RInv

\* The agent leaves, with nothing of its own in flight.
LEMMA EndingRInv ==
  ASSUME RInv, Lossy = FALSE, Close \/ Cancelled PROVE RInv'
<1>1. Inv'
  BY NextInv DEF RInv, Next, Pipeline
<1>2. /\ post' = post /\ late' = late /\ chain' = chain
      /\ UNCHANGED <<row, proof, pinned, outcome, result>> /\ post["main"] = Idle
  <2>1. CASE Close
    <3>1. post["chain"] = Idle /\ chain = <<>>
      BY <2>1 DEF Close, RInv, Carried
    <3> QED BY <2>1, <3>1, RFacts DEF Close, CutOff, GoTo, Channel
  <2>2. CASE Cancelled
    <3>1. post["main"] = Idle
      BY <2>2 DEF Cancelled
    <3> QED BY <2>2, <3>1, RFacts DEF Cancelled, CutOff, GoTo, Channel
  <2> QED BY <2>1, <2>2
<1>3. \/ pc = "terminal" /\ pc' = "done"
      \/ pc \in Working /\ pc' = "gone" /\ outcome = "none"
  BY RFacts DEF Close, Cancelled, GoTo
<1>4. SeenIsCurrent' /\ NextInLine'
  BY <1>2, AtRest
<1>5. Carried'
  BY <1>2, <1>3 DEF RInv, Carried
<1>6. Recording'
  BY <1>2, <1>3 DEF RInv, Recording, row
<1>7. status' \notin Terminal => InLine'
  BY <1>2, <1>3, SameLine DEF RInv, InLine, Ahead, row, Working
<1> QED BY <1>1, <1>4, <1>5, <1>6, <1>7 DEF RInv

\* The first scheduled callback is sent.
LEMMA DispatchRInv ==
  ASSUME RInv, Dispatch PROVE RInv'
<1>1. Inv'
  BY NextInv DEF RInv, Next
<1>2. /\ UNCHANGED <<row, late, proof, pinned, pc, outcome, result>>
      /\ post["chain"] = Idle /\ chain # <<>> /\ chain' = Tail(chain)
      /\ Send("chain", Head(chain))
  BY DEF Dispatch, agentVars
<1>3. /\ Head(chain) = chain[1] /\ chain[1] \in Body /\ chain[1].phase \in Intermediate
      /\ Len(chain) \in Nat \ {0} /\ Len(chain') = Len(chain) - 1
      /\ chain' = <<>> <=> Len(chain) = 1
      /\ \A i \in 1 .. Len(chain') : chain'[i] = chain[i + 1] /\ i + 1 \in 1 .. Len(chain)
  <2>1. chain \in Seq(Body) /\ \A i \in 1 .. Len(chain) : chain[i].phase \in Intermediate
    BY RFacts DEF RInv, Carried
  <2>2. Len(chain) \in Nat \ {0} /\ Head(chain) = chain[1] /\ 1 \in 1 .. Len(chain)
    BY <1>2, <2>1
  <2>3. chain[1] \in Body /\ chain[1].phase \in Intermediate
    BY <2>1, <2>2
  <2>4. /\ Tail(chain) \in Seq(Body) /\ Len(Tail(chain)) = Len(chain) - 1
        /\ \A i \in 1 .. Len(Tail(chain)) : Tail(chain)[i] = chain[i + 1]
    BY <1>2, <2>1, <2>2
  <2>5. chain' = <<>> <=> Len(chain) = 1
    <3>1. \A t \in Seq(Body) : t = <<>> <=> Len(t) = 0
      OBVIOUS
    <3>2. Tail(chain) = <<>> <=> Len(Tail(chain)) = 0
      BY <2>4, <3>1
    <3>3. Len(Tail(chain)) = 0 <=> Len(chain) = 1
      BY <2>2, <2>4
    <3> QED BY <1>2, <3>2, <3>3
  <2> QED BY <1>2, <2>2, <2>3, <2>4, <2>5
<1>4. /\ post'["chain"] # Idle /\ post'["chain"].body = chain[1]
      /\ post'["main"] = post["main"]
  BY <1>2, <1>3, RFacts, SendFacts DEF Channel
<1>5. SeenIsCurrent' /\ NextInLine'
  BY <1>2, <1>3, SendSeen DEF Channel
<1>6. Carried'
  BY <1>2, <1>3, <1>4 DEF RInv, Carried
<1>7. Recording'
  BY <1>2, <1>4 DEF RInv, Recording, row
<1>8. Before' = chain[1].phase /\ Before = status
  BY <1>2, <1>4 DEF Before
<1>9. ASSUME Linked PROVE Linked'
  <2>1. Follows(status, chain[1])
    BY <1>2, <1>8, <1>9 DEF Linked
  <2>2. post'["chain"] # Idle => Follows(status', post'["chain"].body)
    BY <1>2, <1>4, <2>1 DEF row
  <2>3. ASSUME NEW i \in 1 .. Len(chain), i + 1 \in 1 .. Len(chain)
        PROVE  Follows(chain[i].phase, chain[i + 1])
    BY <1>9, <2>3 DEF Linked
  <2>4. chain' # <<>> => Follows(Before', chain'[1])
    <3>1. CASE chain' # <<>>
      <4>1. 1 \in 1 .. Len(chain) /\ 1 + 1 \in 1 .. Len(chain) /\ chain'[1] = chain[1 + 1]
        BY <1>3, <3>1
      <4> QED BY <1>8, <2>3, <4>1
    <3> QED BY <3>1
  <2>5. ASSUME NEW i \in 1 .. Len(chain'), i + 1 \in 1 .. Len(chain')
        PROVE  Follows(chain'[i].phase, chain'[i + 1])
    BY <1>3, <2>3, <2>5
  <2> HIDE DEF Follows
  <2> QED BY <2>2, <2>4, <2>5 DEF Linked
<1>10. Front' = Front
  BY <1>2, <1>3, <1>8 DEF Front
<1>11. status' \notin Terminal => InLine'
  BY <1>2, <1>9, <1>10 DEF RInv, InLine, Ahead, row
<1> QED BY <1>1, <1>5, <1>6, <1>7, <1>11 DEF RInv

\* A live row may still end as its agent ends: the line has come to its end.
LEMMA OutcomeDecides ==
  ASSUME RInv, status \notin Terminal, pc = "terminal", NEW b \in Body, b.phase = outcome,
         NEW seen, seen.status = status
  PROVE  Decides(seen, b) /\ (NeedsProof(seen, b) => pinned)
<1>1. outcome \in {"completed", "failed"} /\ status \in Status \ {"queued"}
  BY RFacts
<1>2. CASE outcome = "failed"
  BY <1>1, <1>2 DEF Decides, NeedsProof, AcceptedTargets, Driven, DRIVEN, Status, LiveStatus, Terminal
<1>3. CASE outcome = "completed"
  <2>1. status = Ahead
    BY <1>3 DEF RInv, InLine, Carried, Front, Before
  <2>2. status = IF pinned THEN "verifying" ELSE "collecting"
    BY <2>1 DEF Ahead
  <2> QED BY <1>3, <2>2 DEF Decides, NeedsProof, AcceptedTargets, Driven, DRIVEN, Status,
             LiveStatus, Terminal
<1> QED BY <1>1, <1>2, <1>3

\* The endpoint reads the row.
LEMMA ReadRInv ==
  ASSUME RInv, NEW ch \in Channel, Read(ch) PROVE RInv'
<1>1. Inv'
  BY NextInv DEF RInv, Next, Delivery
<1>2. /\ UNCHANGED <<row, late, proof, pinned, pc, outcome, result, chain>>
      /\ post[ch] # Idle /\ ~IsVerification(post[ch].body)
      /\ post' = [post EXCEPT ![ch].seen = SeenNow]
  BY DEF Read, agentVars
<1>3. SeenNow \in Seen /\ SeenNow' = SeenNow /\ SeenNow.status = status /\ status' = status
  BY <1>2, InvParts, SeenNowType DEF RInv, SeenNow, row
<1>4. /\ post'[ch] # Idle /\ post'[ch].body = post[ch].body /\ post'[ch].seen = SeenNow
      /\ \A other \in Channel \ {ch} : post'[other] = post[other]
  <2>1. post \in [Channel -> Post \cup {Idle}] /\ post[ch] \in Post
    BY <1>2, RFacts
  <2>2. post'[ch] = [post[ch] EXCEPT !.seen = SeenNow]
    BY <1>2, <2>1
  <2>3. post'[ch] \in Post /\ post'[ch].body = post[ch].body /\ post'[ch].seen = SeenNow
    BY <1>3, <2>1, <2>2 DEF Post
  <2> QED BY <1>2, <2>1, <2>3, IdleAssumption
<1>5. SeenIsCurrent'
  BY <1>3, <1>4 DEF RInv, SeenIsCurrent
<1>6. status \in Terminal \/ Decides(SeenNow, post[ch].body)
  <2>1. CASE status \notin Terminal /\ ch = "chain"
    <3>1. Follows(status, post[ch].body) /\ post[ch].body \in Body
      BY <1>2, <2>1, RFacts DEF RInv, InLine, Linked
    <3>2. status \in LiveStatus
      BY <2>1, RFacts, StatusFacts
    <3> QED BY <1>3, <3>1, <3>2, FollowsDecides
  <2>2. CASE status \notin Terminal /\ ch = "main"
    <3>1. pc = "terminal" /\ post[ch].body.phase = outcome /\ post[ch].body \in Body
      BY <1>2, <2>2, RFacts DEF RInv, Carried, IsVerification
    <3> QED BY <1>3, <2>2, <3>1, OutcomeDecides
  <2> QED BY <2>1, <2>2 DEF Channel
<1>7. NextInLine'
  BY <1>3, <1>4, <1>6 DEF RInv, NextInLine, Decides
<1>8. Carried'
  BY <1>2, <1>4 DEF RInv, Carried, IsVerification, Channel
<1>9. Recording'
  BY <1>2, <1>3, <1>4 DEF RInv, Recording, Channel
<1>10. status' \notin Terminal => InLine'
  <2>1. (post["chain"]' # Idle <=> post["chain"] # Idle)
        /\ (post["chain"] # Idle => post["chain"]'.body = post["chain"].body)
    BY <1>2, <1>4 DEF Channel
  <2>2. Before' = Before
    BY <1>3, <2>1 DEF Before
  <2>3. Front' = Front /\ (Linked => Linked')
    BY <1>2, <1>3, <2>1, <2>2 DEF Front, Linked
  <2> QED BY <1>2, <1>3, <2>3 DEF RInv, InLine, Ahead
<1> QED BY <1>1, <1>5, <1>7, <1>8, <1>9, <1>10 DEF RInv

\* With every answer heard, an answer is what the handler says.
LEMMA Answered ==
  ASSUME RInv, Lossy = FALSE, NEW ch \in Channel, Answer(ch)
  PROVE  /\ post[ch] # Idle
         /\ post[ch].seen # Unread \/ IsVerification(post[ch].body)
         /\ post[ch].body \in Body
         /\ UNCHANGED <<late, pinned, pc, outcome, result, chain>>
         /\ \A other \in Channel : other # ch => post'[other] = post[other]
         /\ \E got \in {"delivered", "refused"} :
              /\ Handle(post[ch].seen, post[ch].body, got)
              /\ got = "delivered" => post'[ch] = Idle
              /\ post'[ch] # Idle => post'[ch].body = post[ch].body /\ post'[ch].seen = Unread
<1>1. post[ch] # Idle /\ post \in [Channel -> Post \cup {Idle}] /\ post[ch].body \in Body
  BY RFacts DEF Answer
<1>2. PICK got \in {"delivered", "refused"} :
        /\ Handle(post[ch].seen, post[ch].body, got)
        /\ post' = [post EXCEPT ![ch] = NextAttempt(ch, got)]
  BY DEF Answer
<1>3. /\ post'[ch] = NextAttempt(ch, got)
      /\ \A other \in Channel : other # ch => post'[other] = post[other]
  BY <1>1, <1>2
<1>4. NextAttempt(ch, got) # Idle =>
        /\ got # "delivered" /\ NextAttempt(ch, got).body = post[ch].body
        /\ NextAttempt(ch, got).seen = Unread
  BY DEF NextAttempt
<1> QED BY <1>1, <1>2, <1>3, <1>4 DEF Answer, agentVars

\* The stored proof follows the agent's result, or stays as it is.
LEMMA VerificationRInv ==
  ASSUME RInv, Lossy = FALSE, NEW ch \in Channel, Answer(ch), IsVerification(post[ch].body)
  PROVE  RInv'
<1>1. Inv'
  BY NextInv DEF RInv, Next, Delivery
<1>2. ch = "main" /\ pc = "recording"
  <2>1. post[ch] # Idle /\ post[ch].body.phase = "verification"
    BY DEF Answer, IsVerification
  <2>2. ch # "chain"
    BY <2>1, IntermediateFacts DEF RInv, Carried
  <2>3. outcome # "verification"
    BY RFacts
  <2> QED BY <2>1, <2>2, <2>3 DEF RInv, Carried, Channel
<1>3. outcome = "none"
  BY <1>2, RFacts DEF Working
<1>4. /\ proof' = result /\ UNCHANGED row /\ post'["main"] = Idle
      /\ post'["chain"] = post["chain"]
      /\ UNCHANGED <<late, pinned, pc, outcome, result, chain>>
  BY <1>2, Answered DEF Handle, Channel
<1>5. SeenIsCurrent' /\ NextInLine'
  BY <1>4 DEF RInv, SeenIsCurrent, NextInLine, Channel, Decides, SeenNow, row
<1>6. Carried'
  BY <1>4 DEF RInv, Carried
<1>7. Recording'
  BY <1>2, <1>3, <1>4 DEF RInv, Recording
<1>8. status' \notin Terminal => InLine'
  BY <1>4, SameLine DEF RInv, InLine, Ahead, row
<1> QED BY <1>1, <1>5, <1>6, <1>7, <1>8 DEF RInv

\* A row that has ended refuses; what was sent may be sent again.
LEMMA RefusedRInv ==
  ASSUME RInv, Lossy = FALSE, NEW ch \in Channel, Answer(ch),
         ~IsVerification(post[ch].body), status \in Terminal
  PROVE  RInv'
<1>1. Inv'
  BY NextInv DEF RInv, Next, Delivery
<1>2. ~Lands(post[ch].seen, post[ch].body)
  BY DEF Lands, Decides, AcceptedTargets
<1>3. /\ UNCHANGED <<row, proof, late, pinned, pc, outcome, result, chain>>
      /\ \A other \in Channel : other # ch => post'[other] = post[other]
      /\ post'[ch] # Idle => post'[ch].body = post[ch].body /\ post'[ch].seen = Unread
      /\ post[ch] # Idle
  BY <1>2, Answered DEF Handle
<1>4. status' \in Terminal
  BY <1>3 DEF row
<1>5. SeenIsCurrent'
  BY <1>4 DEF SeenIsCurrent
<1>6. NextInLine'
  BY <1>3 DEF RInv, NextInLine, Decides
<1>7. Carried'
  BY <1>3 DEF RInv, Carried, Channel
<1>8. Recording'
  <2>1. pc = "recording" => ch # "main"
    BY <1>3, RFacts DEF RInv, Carried, IsVerification, Working
  <2> QED BY <1>3, <1>4, <2>1 DEF RInv, Recording, Channel
<1> QED BY <1>1, <1>4, <1>5, <1>6, <1>7, <1>8 DEF RInv

\* A live row takes the chain's callback and is where the next one starts.
LEMMA ChainLandsRInv ==
  ASSUME RInv, Lossy = FALSE, Answer("chain"), status \notin Terminal
  PROVE  RInv'
<1> DEFINE p == post["chain"]
<1>1. Inv' /\ "chain" \in Channel /\ "main" \in Channel
  BY NextInv DEF RInv, Next, Delivery, Channel
<1>2. /\ p # Idle /\ p.body \in Body /\ p.body.phase \in Intermediate
      /\ ~IsVerification(p.body) /\ p.seen # Unread
  <2>1. p # Idle /\ p.body \in Body /\ (p.seen # Unread \/ IsVerification(p.body))
    BY <1>1, RFacts DEF Answer
  <2> QED BY <2>1, IntermediateFacts DEF RInv, Carried, IsVerification
<1>3. p.seen = SeenNow /\ Follows(status, p.body) /\ p.seen.status = status
  BY <1>1, <1>2 DEF RInv, SeenIsCurrent, InLine, Linked, SeenNow
<1>4. Lands(p.seen, p.body)
  BY <1>2, <1>3, RFacts, StatusFacts, FollowsDecides DEF Lands
<1>5. /\ status' = p.body.phase /\ UNCHANGED proof
      /\ post'["chain"] = Idle /\ post'["main"] = post["main"]
      /\ UNCHANGED <<late, pinned, pc, outcome, result, chain>>
  <2>1. PICK got \in {"delivered", "refused"} :
          Handle(p.seen, p.body, got) /\ (got = "delivered" => post'["chain"] = Idle)
    <3>1. \E got \in {"delivered", "refused"} :
            /\ Handle(p.seen, p.body, got)
            /\ got = "delivered" => post'["chain"] = Idle
            /\ post'["chain"] # Idle => post'["chain"].body = p.body /\ post'["chain"].seen = Unread
      BY <1>1, Answered
    <3> QED BY <3>1
  <2>2. got = "delivered" /\ Write(p.seen, p.body) /\ UNCHANGED proof
    BY <1>2, <1>4, <2>1 DEF Handle, IsVerification
  <2>3. post'["main"] = post["main"]
    <3>1. \A other \in Channel : other # "chain" => post'[other] = post[other]
      BY <1>1, Answered
    <3> QED BY <1>1, <3>1
  <2> QED BY <1>1, <1>2, <2>1, <2>2, <2>3, Answered DEF Write
<1>6. pc \notin {"terminal", "done"} /\ (post["main"] # Idle => post["main"].seen = Unread)
  BY <1>2 DEF RInv, Carried
<1>7. SeenIsCurrent' /\ NextInLine'
  BY <1>5, <1>6 DEF SeenIsCurrent, NextInLine, Channel
<1>8. Carried'
  BY <1>5 DEF RInv, Carried
<1>9. Recording'
  BY <1>5, <1>6 DEF RInv, Recording
<1>10. Before' = Before
  BY <1>2, <1>5 DEF Before
<1>11. Linked' /\ Front' = Front
  BY <1>5, <1>10 DEF RInv, InLine, Linked, Front
<1>12. InLine'
  BY <1>5, <1>11 DEF RInv, InLine, Ahead
<1> QED BY <1>1, <1>7, <1>8, <1>9, <1>12 DEF RInv

\* A live row takes the agent's last word.
LEMMA OutcomeLandsRInv ==
  ASSUME RInv, Lossy = FALSE, Answer("main"), ~IsVerification(post["main"].body),
         status \notin Terminal
  PROVE  RInv'
<1> DEFINE p == post["main"]
<1>1. Inv' /\ "chain" \in Channel /\ "main" \in Channel
  BY NextInv DEF RInv, Next, Delivery, Channel
<1>2. /\ p # Idle /\ p.body \in Body /\ p.seen # Unread
      /\ pc = "terminal" /\ p.body.phase = outcome /\ outcome \in {"completed", "failed"}
  BY <1>1, Answered, RFacts DEF RInv, Carried, IsVerification
<1>3. p.seen = SeenNow /\ p.seen.status = status
  BY <1>1, <1>2 DEF RInv, SeenIsCurrent, SeenNow
<1>4. Lands(p.seen, p.body)
  <2>1. Decides(p.seen, p.body) /\ (NeedsProof(p.seen, p.body) => pinned)
    BY <1>2, <1>3, OutcomeDecides
  <2>2. NeedsProof(p.seen, p.body) => outcome = "completed"
    BY <1>2 DEF NeedsProof
  <2> QED BY <1>3, <2>1, <2>2 DEF RInv, Recording, Lands
<1>5. /\ status' = outcome /\ UNCHANGED proof
      /\ post'["main"] = Idle /\ post'["chain"] = post["chain"]
      /\ UNCHANGED <<late, pinned, pc, outcome, result, chain>>
  <2>1. PICK got \in {"delivered", "refused"} :
          Handle(p.seen, p.body, got) /\ (got = "delivered" => post'["main"] = Idle)
    BY <1>1, Answered
  <2>2. got = "delivered" /\ Write(p.seen, p.body) /\ UNCHANGED proof
    BY <1>2, <1>4, <2>1 DEF Handle, IsVerification
  <2>3. post'["chain"] = post["chain"]
    BY <1>1, Answered
  <2> QED BY <1>1, <1>2, <2>1, <2>2, <2>3, Answered DEF Write
<1>6. status' \in Terminal
  BY <1>2, <1>5, StatusFacts
<1>7. SeenIsCurrent'
  BY <1>6 DEF SeenIsCurrent
<1>8. NextInLine'
  BY <1>5 DEF RInv, NextInLine, Channel, Decides
<1>9. Carried'
  BY <1>5 DEF RInv, Carried
<1>10. Recording'
  BY <1>2, <1>5, <1>6 DEF RInv, Recording
<1> QED BY <1>1, <1>6, <1>7, <1>8, <1>9, <1>10 DEF RInv

LEMMA AnswerRInv ==
  ASSUME RInv, Lossy = FALSE, NEW ch \in Channel, Answer(ch) PROVE RInv'
<1>1. CASE IsVerification(post[ch].body)
  BY <1>1, VerificationRInv
<1>2. CASE ~IsVerification(post[ch].body) /\ status \in Terminal
  BY <1>2, RefusedRInv
<1>3. CASE ~IsVerification(post[ch].body) /\ status \notin Terminal
  BY <1>3, ChainLandsRInv, OutcomeLandsRInv DEF Channel
<1> QED BY <1>1, <1>2, <1>3

\* A row the sweep has ended is out of line for good.
LEMMA ClockRInv ==
  ASSUME RInv, Expire \/ Sweep PROVE RInv'
<1>1. Inv'
  BY NextInv DEF RInv, Next
<1>2. /\ UNCHANGED <<post, late, proof, pinned, pc, outcome, result, chain>>
      /\ UNCHANGED <<status, progress>> \/ status' \in Terminal
  BY StatusFacts DEF Expire, Sweep, agentVars
<1>3. SeenIsCurrent' /\ NextInLine'
  BY <1>2 DEF RInv, SeenIsCurrent, NextInLine, Decides, SeenNow
<1>4. Carried'
  BY <1>2 DEF RInv, Carried
<1>5. Recording'
  BY <1>2 DEF RInv, Recording
<1>6. status' \notin Terminal => InLine'
  <2>1. status' \notin Terminal => status' = status
    BY <1>2
  <2> QED BY <1>2, <2>1, SameLine DEF RInv, InLine, Ahead
<1> QED BY <1>1, <1>3, <1>4, <1>5, <1>6 DEF RInv

\* Answered in time, no request is ever cut off or late: one case per action.
LEMMA NextRInv == Lossy = FALSE /\ RInv /\ [Next]_vars => RInv'
<1> SUFFICES ASSUME Lossy = FALSE, RInv, [Next]_vars PROVE RInv'
  OBVIOUS
<1>1. CASE Pipeline
  BY <1>1, SchedulingRInv, VerifiedRInv, SettlingRInv, TerminalRInv, EndingRInv DEF Pipeline
<1>2. CASE Raise \/ Cancelled \/ Dispatch
  BY <1>2, SettlingRInv, EndingRInv, DispatchRInv
<1>3. ~AgentDies /\ (\A ch \in Channel : ~TimesOut(ch)) /\ late = {}
  BY DEF AgentDies, TimesOut, RInv, Carried
<1>4. ASSUME NEW ch \in Channel, Delivery(ch) PROVE RInv'
  BY <1>3, <1>4, ReadRInv, AnswerRInv DEF Delivery
<1>5. CASE Expire \/ Sweep
  BY <1>5, ClockRInv
<1>6. CASE UNCHANGED vars
  <2>1. Inv' /\ UNCHANGED <<row, post, late, proof, pinned, pc, outcome, result, chain>>
    BY <1>6, NextInv DEF RInv, vars, agentVars
  <2>2. SeenIsCurrent' /\ NextInLine'
    BY <2>1, AtRest
  <2>3. Carried' /\ Recording'
    BY <2>1 DEF RInv, Carried, Recording, row
  <2>4. status' \notin Terminal => InLine'
    BY <2>1, SameLine DEF RInv, InLine, Ahead, row
  <2> QED BY <2>1, <2>2, <2>3, <2>4 DEF RInv
<1> QED BY <1>1, <1>2, <1>3, <1>4, <1>5, <1>6 DEF Next

\* With every request answered in time, the callbacks from the row's phase to the
\* agent's never skip a link while the row is live (RInv is inductive).
THEOREM LineInvariance == ASSUME Lossy = FALSE PROVE Spec => []RInv
<1>1. RInv /\ [Next]_vars => RInv'
  BY NextRInv
<1> QED BY <1>1, InitRInv, PTL DEF Spec

\* With every request answered in time, the endpoint refuses a callback only of a row
\* that has ended: decideTransition accepts every other one as it was read.
THEOREM CallbacksInLine == ASSUME Lossy = FALSE PROVE Spec => []NextInLine
<1>1. RInv => NextInLine
  BY DEF RInv
<1> QED BY <1>1, LineInvariance, PTL

\* With every request answered in time, a report the agent finished is a completed
\* run, or one the sweep had timed out.
THEOREM FinishedIsCompleted == ASSUME Lossy = FALSE PROVE Spec => []SuccessLands
<1>1. RInv => SuccessLands
  <2> SUFFICES ASSUME RInv, pc = "done", outcome = "completed"
               PROVE  status = "completed" \/ errorCode = TimeoutCode
    BY DEF SuccessLands
  <2>1. status \in {"completed", "failed"}
    BY StatusFacts DEF RInv, Carried, Recording
  <2>2. status = "failed" => errorCode = TimeoutCode
    BY DEF RInv, Inv, OutcomeAgrees
  <2> QED BY <2>1, <2>2
<1> QED BY <1>1, LineInvariance, PTL

\* With every request answered in time, the count progressColumns keeps within a phase
\* never falls and never vanishes.
THEOREM CountsRise == ASSUME Lossy = FALSE PROVE Spec => ProgressMonotonic
<1>1. ASSUME RInv, [Next]_vars
      PROVE  [status' = status /\ progress # NoCount =>
                progress' # NoCount /\ progress' >= progress]_vars
  <2> SUFFICES ASSUME Next, status' = status, progress # NoCount
               PROVE  progress' # NoCount /\ progress' >= progress
    BY <1>1
  <2>1. progress \in Nat /\ progress \in Count
    BY <1>1, InvParts, CountType DEF RInv, RowOK
  <2>2. CASE UNCHANGED progress
    BY <2>1, <2>2
  <2>3. CASE ~UNCHANGED progress
    <3>1. PICK ch \in Channel : Answer(ch)
      <4>1. ~Sweep
        BY <1>1, StatusFacts DEF Sweep
      <4>2. late = {}
        BY <1>1 DEF RInv, Carried
      <4> QED BY <2>3, <4>1, <4>2 DEF Next, Pipeline, Delivery, Begin, Inventory, Metrics,
              Collected, Compiled, Rendered, Verified, Recorded, Uploaded, ReportTerminal,
              Resend, Close, Raise, Cancelled, AgentDies, Dispatch, Read, TimesOut, Expire, row
    <3> DEFINE seen == post[ch].seen
               body == post[ch].body
    <3>2. Lands(seen, body) /\ Write(seen, body) /\ body \in Body /\ seen \in Seen
      BY <1>1, <2>3, <3>1, Answered, RFacts DEF Handle, row
    <3>3. status \in LiveStatus /\ seen.status = status /\ body.phase = status
      BY <3>2, DecidesFacts DEF Lands, Write
    <3>4. seen = SeenNow /\ seen.progress = progress
      BY <1>1, <3>1, <3>2, <3>3, StatusFacts, IdleAssumption
         DEF RInv, SeenIsCurrent, SeenNow, Answer
    <3>5. ch = "chain" /\ body.count # NoCount
      <4>1. body.phase \notin Terminal /\ body.phase # "verification"
        BY <3>3, StatusFacts DEF LiveStatus
      <4>2. ch = "chain"
        BY <1>1, <3>1, <4>1, RFacts, StatusFacts DEF RInv, Carried, Channel, Answer
      <4> QED BY <1>1, <3>1, <3>3, <4>1, <4>2 DEF RInv, InLine, Linked, Follows, Answer
    <3>6. body.count \in Nat
      BY <3>2, <3>5, CountType DEF Body
    <3> QED BY <2>1, <3>2, <3>3, <3>4, <3>5, <3>6, StatusFacts DEF Write, ProgressAfter
  <2> QED BY <2>2, <2>3
<1> QED BY <1>1, LineInvariance, PTL DEF Spec, ProgressMonotonic

===============================================================================
