------------------------------- MODULE RunStream -------------------------------
(***************************************************************************)
(* A browser watching one run.  A relay polls the row, derives events from *)
(* what changed since its cursor and closes after an idle window; the      *)
(* client applies them to what it shows, and after every close re-reads    *)
(* the row before it opens another stream.  The row moves by itself.       *)
(*                                                                         *)
(* Heartbeat frames carry a time, and the client ignores them: they are    *)
(* left out.  The total and the label of a progress triple do not vary.    *)
(***************************************************************************)
EXTENDS RunStates, Integers, Sequences

CONSTANTS
  MaxCount,   \* bound: resources counted
  IdlePolls,  \* polls without an event in RELAY_IDLE_CLOSE_MS
  MaxWire     \* bound: frames still in flight when the relay polls again

ASSUME BoundAssumption ==
  MaxCount \in Nat /\ IdlePolls \in Nat \ {0} /\ MaxWire \in Nat

NoStep == "none"
NoCount == -1
Count == 0 .. MaxCount

VARIABLES
  row,      \* the run's status and progress_current, as stored
  relay,    \* the stream request being served: open or closed, its cursor, idle polls
  wire,     \* frames sent and not yet received
  client,   \* what the hook does
  shown,    \* the status, the steps that run and the bar, as rendered
  fetches,  \* re-reads of the row in flight
  heard     \* what the current connection has told the client

vars == <<row, relay, wire, client, shown, fetches, heard>>


Events == INSTANCE RunEvents WITH
  open <- heard.open, last <- heard.last, said <- heard.said, ended <- heard.ended
Rank == Events!Rank

Tool(phase, s) == [type |-> "tool", phase |-> phase, id |-> s, done |-> NoCount]
ProgressEvent(s, n) == [type |-> "progress", phase |-> "", id |-> s, done |-> n]
Closing(type) == [type |-> type, phase |-> "", id |-> NoStep, done |-> NoCount]

EmptyCursor == [openStep |-> NoStep, lastDone |-> NoCount,
                lastProgress |-> NoCount, finished |-> FALSE]
NewRelay == [pc |-> "open", cursor |-> EmptyCursor, idle |-> 0]
NewHeard == [open |-> NoStep, last |-> -1, said |-> 0, ended |-> "no"]

Init ==
  /\ \E s \in Status, n \in Count \cup {NoCount} :
       /\ s # "collecting" => n = NoCount
       /\ row = [status |-> s, count |-> n]
  /\ relay = IF row.status \in Terminal THEN [NewRelay EXCEPT !.pc = "closed"]
                                        ELSE NewRelay
  /\ wire = <<>>
  /\ client = IF row.status \in Terminal THEN "finished" ELSE "streaming"
  /\ shown = [status |-> row.status, running |-> {}, bar |-> NoCount]
  /\ fetches = {}
  /\ heard = NewHeard

-------------------------------------------------------------------------------
(***************************************************************************)
(* The row, moved by the tick and the agent's callbacks.                   *)
(***************************************************************************)

\* A transition writes the counts it presents, none outside collecting.  A terminal
\* callback clears them; the sweep leaves them.
RowMoves(s) ==
  /\ s \in Driven(row.status)
  /\ \E n \in Count \cup {NoCount} :
       /\ s # "collecting" =>
            n \in IF s \in Terminal THEN {NoCount, row.count} ELSE {NoCount}
       /\ row' = [status |-> s, count |-> n]
  /\ UNCHANGED <<relay, wire, client, shown, fetches, heard>>

\* A refresh of the counts.  A late callback may store a smaller one, or none.
RowCounts(n) ==
  /\ row.status = "collecting"
  /\ row' = [row EXCEPT !.count = n]
  /\ UNCHANGED <<relay, wire, client, shown, fetches, heard>>

-------------------------------------------------------------------------------
(***************************************************************************)
(* The relay.                                                              *)
(***************************************************************************)

\* closeStep.  Every non-terminal phase has an entry in PHASE_TOOL_STEP.
CloseStep(c) == IF c.openStep = NoStep THEN <<>> ELSE <<Tool("end", c.openStep)>>

\* A slip: the step that was open is never ended.
TerminalEventsUnclosed(c, r) ==
  << Closing(IF r.status = "completed" THEN "snapshot_ready" ELSE "error"),
     Closing("done") >>

\* The events of a terminal row.
TerminalEvents(c, r) ==
  CloseStep(c) \o
    << Closing(IF r.status = "completed" THEN "snapshot_ready" ELSE "error"),
       Closing("done") >>

StepEvents(c, r) ==
  IF c.openStep = r.status THEN <<>>
  ELSE CloseStep(c) \o <<Tool("start", r.status)>>

\* Only collecting has a unit.  A lower count and an unchanged one say nothing.
SaysProgress(c, r) ==
  /\ r.status = "collecting" /\ r.count # NoCount
  /\ r.count >= c.lastDone
  /\ r.count # c.lastProgress

\* deriveRelayEvents, for a row that is not terminal.
LiveEvents(c, r) ==
  StepEvents(c, r) \o
    IF SaysProgress(c, r) THEN <<ProgressEvent(r.status, r.count)>> ELSE <<>>
LiveCursor(c, r) ==
  LET d == IF SaysProgress(c, r) THEN r.count ELSE c.lastDone
      p == IF SaysProgress(c, r) THEN r.count ELSE c.lastProgress
  IN  [c EXCEPT !.openStep = r.status, !.lastDone = d, !.lastProgress = p]

\* One poll: the row is read, what it says is sent, and the relay goes on unless
\* the run has ended or the idle window is over.
PollTerminal ==
  /\ relay.pc = "open" /\ row.status \in Terminal /\ Len(wire) <= MaxWire
  /\ wire' = wire \o TerminalEvents(relay.cursor, row)
  /\ relay' = [relay EXCEPT !.pc = "closed", !.cursor.openStep = NoStep,
                            !.cursor.finished = TRUE]
  /\ UNCHANGED <<row, client, shown, fetches, heard>>

PollLive ==
  /\ relay.pc = "open" /\ row.status \notin Terminal /\ Len(wire) <= MaxWire
  /\ LET events == LiveEvents(relay.cursor, row)
         idle == IF events = <<>> THEN relay.idle + 1 ELSE 0
     IN  /\ wire' = wire \o events
         /\ relay' = [pc |-> IF idle >= IdlePolls THEN "closed" ELSE "open",
                      cursor |-> LiveCursor(relay.cursor, row), idle |-> idle]
  /\ UNCHANGED <<row, client, shown, fetches, heard>>

\* A poll throws, or the instance goes away.
RelayStops ==
  /\ relay.pc = "open"
  /\ relay' = [relay EXCEPT !.pc = "closed"]
  /\ UNCHANGED <<row, wire, client, shown, fetches, heard>>

\* The connection is cut: what was in flight is lost.
ConnectionLost ==
  /\ client = "streaming"
  /\ relay' = [relay EXCEPT !.pc = "closed"]
  /\ wire' = <<>>
  /\ UNCHANGED <<row, client, shown, fetches, heard>>

-------------------------------------------------------------------------------
(***************************************************************************)
(* The client's hook.                                                      *)
(***************************************************************************)

Unread == "unread"
Fetch(why, answer) == [why |-> why, answer |-> answer]

\* advances: forward only, and never out of a terminal status.
Advances(s, t) == s \notin Terminal /\ Rank[t] > Rank[s]
StatusAfter(e, s) ==
  IF e.type \in {"tool", "progress"} /\ Advances(s, e.id) THEN e.id ELSE s

MaxOf(a, b) == IF a > b THEN a ELSE b

\* applyEvent: the steps that spin, and the bar.  A step that is complete and one
\* never shown are not told apart: the relay ends, and counts, open steps only.
RunningAfter(e, running) ==
  IF e.type # "tool" THEN running
  ELSE IF e.phase = "start" THEN running \cup {e.id} ELSE running \ {e.id}
BarAfter(e, bar, running) ==
  IF e.type = "progress" /\ e.id \in running THEN MaxOf(e.done, bar) ELSE bar

\* What the connection has said, whatever the client makes of it.
HeardAfter(e, h) ==
  CASE e.type = "tool" /\ e.phase = "start" ->
         [open |-> e.id, last |-> Rank[e.id], said |-> 0, ended |-> h.ended]
    [] e.type = "tool" /\ e.phase = "end" -> [h EXCEPT !.open = NoStep]
    [] e.type = "progress" -> [h EXCEPT !.said = e.done]
    [] e.type = "done" -> [h EXCEPT !.ended = "done"]
    [] OTHER -> [h EXCEPT !.ended = "outcome"]

Receive ==
  /\ client = "streaming" /\ wire # <<>>
  /\ LET e == Head(wire)
     IN  /\ heard' = HeardAfter(e, heard)
         /\ shown' = [status |-> StatusAfter(e, shown.status),
                      running |-> RunningAfter(e, shown.running),
                      bar |-> BarAfter(e, shown.bar, shown.running)]
         /\ fetches' = IF e.type = "done"
                       THEN fetches \cup {Fetch("done", Unread)} ELSE fetches
  /\ wire' = Tail(wire)
  /\ UNCHANGED <<row, relay, client>>

\* onerror: the relay has closed, or the connection was cut.
StreamEnds ==
  /\ client = "streaming" /\ relay.pc = "closed" /\ wire = <<>>
  /\ client' = "waiting"
  /\ UNCHANGED <<row, relay, wire, shown, fetches, heard>>

\* A slip: the stream is opened while the re-read is still on its way.
TimerFiresAndOpens ==
  /\ client = "waiting"
  /\ client' = "streaming"
  /\ fetches' = fetches \cup {Fetch("done", Unread)}
  /\ relay' = NewRelay /\ wire' = <<>> /\ heard' = NewHeard
  /\ UNCHANGED <<row, shown>>

\* RELAY_REOPEN_MS later: the row is re-read before anything is opened.
TimerFires ==
  /\ client = "waiting"
  /\ client' = "reading"
  /\ fetches' = fetches \cup {Fetch("reopen", Unread)}
  /\ UNCHANGED <<row, relay, wire, shown, heard>>

RowRead(f) ==
  /\ f \in fetches /\ f.answer = Unread
  /\ fetches' = (fetches \ {f}) \cup {Fetch(f.why, row.status)}
  /\ UNCHANGED <<row, relay, wire, client, shown, heard>>

\* open(), unless the effect was disposed of meanwhile.
Opens == client' = "streaming" /\ relay' = NewRelay /\ wire' = <<>> /\ heard' = NewHeard
OpensNothing == UNCHANGED <<relay, wire, client, heard>>

\* The row's status replaces the one shown.  A terminal one ends the effect:
\* the stream is closed, the timer cleared.
FetchArrives(f) ==
  /\ f \in fetches /\ f.answer # Unread
  /\ fetches' = fetches \ {f}
  /\ shown' = [shown EXCEPT !.status = f.answer]
  /\ CASE f.answer \in Terminal ->
            /\ client' = "finished"
            /\ relay' = [relay EXCEPT !.pc = "closed"] /\ wire' = <<>>
            /\ UNCHANGED heard
       [] f.answer \notin Terminal /\ f.why = "reopen" /\ client = "reading" -> Opens
       [] OTHER -> OpensNothing
  /\ UNCHANGED row

\* A slip: a failed re-read is the end of the matter.
FetchFailsForGood(f) ==
  /\ f \in fetches
  /\ fetches' = fetches \ {f}
  /\ OpensNothing
  /\ UNCHANGED <<row, shown>>

\* The request, its answer or the parsing of it fails: not terminal, as far as
\* the hook knows.
FetchFails(f) ==
  /\ f \in fetches
  /\ fetches' = fetches \ {f}
  /\ IF f.why = "reopen" /\ client = "reading" THEN Opens ELSE OpensNothing
  /\ UNCHANGED <<row, shown>>

Next ==
  \/ \E s \in Status : RowMoves(s)
  \/ \E n \in Count \cup {NoCount} : RowCounts(n)
  \/ PollTerminal \/ PollLive \/ RelayStops \/ ConnectionLost
  \/ Receive \/ StreamEnds \/ TimerFires
  \/ \E f \in fetches : RowRead(f) \/ FetchArrives(f) \/ FetchFails(f)

Spec == Init /\ [][Next]_vars

\* The relay's loop and the browser's go on.  A re-read may fail again and again,
\* but not for ever.
FairSpec ==
  /\ Spec
  /\ WF_vars(PollTerminal \/ PollLive) /\ WF_vars(Receive)
  /\ WF_vars(StreamEnds) /\ WF_vars(TimerFires)
  /\ \A w \in {"done", "reopen"} :
       /\ SF_vars(RowRead(Fetch(w, Unread)))
       /\ SF_vars(\E s \in Status : FetchArrives(Fetch(w, s)))

-------------------------------------------------------------------------------
EventType == [type : {"tool"}, phase : {"start", "end"}, id : LiveStatus, done : {NoCount}]
  \cup [type : {"progress"}, phase : {""}, id : {"collecting"}, done : Count]
  \cup [type : {"snapshot_ready", "error", "done"}, phase : {""}, id : {NoStep},
        done : {NoCount}]

\* The values the variables take.
TypeOK ==
  /\ row \in [status : Status, count : Count \cup {NoCount}]
  /\ relay \in [pc : {"open", "closed"}, idle : 0 .. IdlePolls,
       cursor : [openStep : LiveStatus \cup {NoStep},
                 lastDone : Count \cup {NoCount}, lastProgress : Count \cup {NoCount},
                 finished : BOOLEAN]]
  /\ wire \in Seq(EventType)
  /\ client \in {"streaming", "waiting", "reading", "finished"}
  /\ shown \in [status : Status, running : SUBSET LiveStatus, bar : Count \cup {NoCount}]
  /\ fetches \subseteq [why : {"done", "reopen"}, answer : Status \cup {Unread}]
  /\ heard \in [open : LiveStatus \cup {NoStep}, last : -1 .. 6, said : Count,
                ended : {"no", "outcome", "done"}]

\* The status shown never goes back, over any number of dropped streams and of
\* re-reads answered late or not at all (useRunStream.ts: advances, setRun).
ShownNeverGoesBack ==
  [][Advances(shown.status, shown'.status) \/ shown'.status = shown.status]_vars

\* What a connection says, as the client receives it, is what RunEvents allows:
\* relay.ts promises the order to the timeline.
SaysInOrder == Events!Spec

\* A run that has ended is at last shown as ended, with no event to rely on.
EndIsShown ==
  \A s \in Terminal : row.status = s ~> client = "finished" /\ shown.status = s
================================================================================
