---------------------------- MODULE RunStreamProofs ----------------------------
(***************************************************************************)
(* The status a watching client shows never goes back, for any bounds.     *)
(* Nothing that can still reach the client is behind what it shows: frames *)
(* stop before a re-read is asked for, and the re-read asked for at "done" *)
(* can only find the row where it ended.  And the relay and the hook       *)
(* implement RunEvents: what a connection says is in order.                *)
(***************************************************************************)
EXTENDS RunStream, SequenceTheorems, TLAPS

Behind(s, t) == s = t \/ Advances(s, t)

\* What a frame in flight says has happened to the row.
Fits(e, s) ==
  /\ e.type \in {"tool", "progress"} => Behind(e.id, s)
  /\ e.type = "done" => s \in Terminal

Frames(s) == {e \in EventType : Fits(e, s)}
Answered == {f \in fetches : f.answer # Unread}
Reopening == {f \in fetches : f.why = "reopen"}

CursorType == [openStep : LiveStatus \cup {NoStep}, lastDone : Int,
               lastProgress : Int, finished : BOOLEAN]

Shapes ==
  /\ row \in [status : Status, count : Count \cup {NoCount}]
  /\ relay \in [pc : {"open", "closed"}, idle : Int, cursor : CursorType]
  /\ client \in {"streaming", "waiting", "reading", "finished"}
  /\ shown.status \in Status
  /\ fetches \subseteq [why : {"done", "reopen"}, answer : Status \cup {Unread}]

ShownBehindRow == Behind(shown.status, row.status)
CursorBehindRow ==
  relay.cursor.openStep # NoStep => Behind(relay.cursor.openStep, row.status)
AnswersBetween ==
  \A f \in Answered : Behind(shown.status, f.answer) /\ Behind(f.answer, row.status)
ReopensAlone ==
  /\ Reopening # {} => client \in {"reading", "finished"}
  /\ \A f, g \in Reopening : f = g
DoneIsFinal ==
  (\E f \in fetches : f.why = "done") =>
    row.status \in Terminal /\ \A g \in Answered : g.answer = row.status

WireFits == wire \in Seq(Frames(row.status))

SInv ==
  /\ Shapes /\ WireFits /\ ShownBehindRow /\ CursorBehindRow
  /\ AnswersBetween /\ ReopensAlone /\ DoneIsFinal

-------------------------------------------------------------------------------
LEMMA RankValues ==
  /\ Rank["queued"] = 0 /\ Rank["claimed"] = 1 /\ Rank["collecting"] = 2
  /\ Rank["compiling"] = 3 /\ Rank["rendering"] = 4 /\ Rank["verifying"] = 5
  /\ Rank["completed"] = 6 /\ Rank["failed"] = 6
BY DEF Rank, Events!Rank, Events!Status, Events!LiveStatus, Events!Terminal

\* Behind is transitive: a terminal status is behind itself alone.
LEMMA BehindTransitive ==
  ASSUME NEW s \in Status, NEW t \in Status, NEW u \in Status,
         Behind(s, t), Behind(t, u)
  PROVE  Behind(s, u)
BY RankValues DEF Behind, Advances, Status, LiveStatus, Terminal

LEMMA DrivenAdvances ==
  ASSUME NEW s \in Status, NEW t \in Driven(s)
  PROVE  t \in Status /\ Advances(s, t) /\ s \notin Terminal
BY RankValues DEF Driven, DRIVEN, Advances, Status, LiveStatus, Terminal

\* A frame that fits a row fits it after the row has moved on.
LEMMA FramesGrow ==
  ASSUME NEW s \in Status, NEW t \in Status, Advances(s, t)
  PROVE  Seq(Frames(s)) \subseteq Seq(Frames(t))
<1>1. Frames(s) \subseteq Frames(t)
  <2>1. SUFFICES ASSUME NEW e \in Frames(s) PROVE Fits(e, t)
    BY DEF Frames
  <2>2. CASE e.type \in {"tool", "progress"}
    <3>1. e.id \in Status /\ Behind(e.id, s)
      BY <2>2 DEF Frames, Fits, EventType, Status, LiveStatus
    <3>2. Behind(e.id, t)
      BY <3>1, BehindTransitive DEF Behind
    <3> QED BY <2>2, <3>2 DEF Fits
  <2>3. CASE e.type \notin {"tool", "progress"}
    BY <2>3 DEF Frames, Fits, Advances
  <2> QED BY <2>2, <2>3
<1> QED BY <1>1

LEMMA InitHolds == Init => SInv
<1> SUFFICES ASSUME Init PROVE SInv
  OBVIOUS
<1>1. row \in [status : Status, count : Count \cup {NoCount}]
  BY DEF Init
<1>2. /\ relay.cursor = EmptyCursor /\ relay.idle = 0
      /\ relay \in {NewRelay, [NewRelay EXCEPT !.pc = "closed"]}
  BY DEF Init, NewRelay
<1>3. EmptyCursor \in CursorType
  BY DEF EmptyCursor, CursorType, NoCount
<1>4. relay \in [pc : {"open", "closed"}, idle : Int, cursor : CursorType]
  BY <1>2, <1>3 DEF NewRelay
<1>5. Shapes /\ ShownBehindRow
  BY <1>1, <1>4 DEF Init, Shapes, ShownBehindRow, Behind
<1>6. CursorBehindRow
  BY <1>2 DEF CursorBehindRow, EmptyCursor
<1>7. WireFits
  BY DEF Init, WireFits
<1>8. AnswersBetween /\ ReopensAlone /\ DoneIsFinal
  BY DEF Init, AnswersBetween, ReopensAlone, DoneIsFinal, Answered, Reopening
<1> QED BY <1>5, <1>6, <1>7, <1>8 DEF SInv

-------------------------------------------------------------------------------
(***************************************************************************)
(* One lemma per group of actions.                                         *)
(***************************************************************************)

LEMMA RowKeeps ==
  SInv /\ ((\E s \in Status : RowMoves(s)) \/ (\E n \in Count \cup {NoCount} : RowCounts(n))) => SInv'
<1> SUFFICES ASSUME SInv,
                    (\E s \in Status : RowMoves(s)) \/ (\E n \in Count \cup {NoCount} : RowCounts(n))
             PROVE  SInv'
  OBVIOUS
<1> USE DEF SInv
<1>1. ASSUME NEW s \in Status, RowMoves(s) PROVE SInv'
  <2>1. row.status \in Status /\ row'.status = s /\ Advances(row.status, s)
        /\ row.status \notin Terminal
    BY <1>1, DrivenAdvances DEF RowMoves, Shapes
  <2>2. \A t \in Status : Behind(t, row.status) => Behind(t, s)
    BY <2>1, BehindTransitive DEF Behind
  <2>3. Shapes'
    BY <1>1 DEF RowMoves, Shapes, NoCount
  <2>4. WireFits'
    BY <1>1, <2>1, FramesGrow DEF RowMoves, WireFits
  <2>5. ShownBehindRow' /\ CursorBehindRow'
    BY <1>1, <2>1, <2>2 DEF RowMoves, ShownBehindRow, CursorBehindRow, Shapes, Status,
                            CursorType
  <2>6. AnswersBetween'
    BY <1>1, <2>1, <2>2 DEF RowMoves, AnswersBetween, Answered, Shapes
  <2>7. ReopensAlone' /\ DoneIsFinal'
    BY <1>1, <2>1 DEF RowMoves, ReopensAlone, DoneIsFinal, Reopening
  <2> QED BY <2>3, <2>4, <2>5, <2>6, <2>7
<1>2. ASSUME NEW n \in Count \cup {NoCount}, RowCounts(n) PROVE SInv'
  <2>1. row'.status = row.status /\ row' \in [status : Status, count : Count \cup {NoCount}]
    BY <1>2 DEF RowCounts, Shapes
  <2> QED
    BY <1>2, <2>1 DEF RowCounts, Shapes, WireFits, ShownBehindRow, CursorBehindRow,
                      AnswersBetween, Answered, ReopensAlone, Reopening, DoneIsFinal
<1> QED BY <1>1, <1>2

LEMMA RelayKeeps ==
  SInv /\ (PollTerminal \/ PollLive \/ RelayStops \/ ConnectionLost) => SInv'
<1> SUFFICES ASSUME SInv, PollTerminal \/ PollLive \/ RelayStops \/ ConnectionLost
             PROVE  SInv'
  OBVIOUS
<1> USE DEF SInv
<1>1. UNCHANGED <<row, client, shown, fetches>>
  BY DEF PollTerminal, PollLive, RelayStops, ConnectionLost
<1>2. ShownBehindRow' /\ AnswersBetween' /\ ReopensAlone' /\ DoneIsFinal'
  BY <1>1 DEF ShownBehindRow, AnswersBetween, ReopensAlone, DoneIsFinal, Answered,
              Reopening
<1>3. SUFFICES Shapes' /\ CursorBehindRow' /\ WireFits'
  BY <1>2
<1>4. CloseStep(relay.cursor) \in Seq(Frames(row.status))
  <2>1. CASE relay.cursor.openStep = NoStep
    BY <2>1 DEF CloseStep
  <2>2. CASE relay.cursor.openStep # NoStep
    <3>1. Tool("end", relay.cursor.openStep) \in Frames(row.status)
      BY <2>2 DEF Tool, Frames, Fits, EventType, Shapes, CursorType, CursorBehindRow
    <3> QED BY <2>2, <3>1 DEF CloseStep
  <2> QED BY <2>1, <2>2
<1>5. CASE PollTerminal
  <2>1. /\ Closing("done") \in Frames(row.status)
        /\ Closing("snapshot_ready") \in Frames(row.status)
        /\ Closing("error") \in Frames(row.status)
    BY <1>5 DEF PollTerminal, Closing, Frames, Fits, EventType
  <2>2. TerminalEvents(relay.cursor, row) \in Seq(Frames(row.status))
    BY <1>4, <2>1 DEF TerminalEvents
  <2>3. WireFits'
    BY <1>1, <1>5, <2>2 DEF PollTerminal, WireFits
  <2>4. relay'.cursor.openStep = NoStep
        /\ relay' \in [pc : {"open", "closed"}, idle : Int, cursor : CursorType]
    BY <1>5 DEF PollTerminal, Shapes, CursorType
  <2> QED BY <1>1, <2>3, <2>4 DEF Shapes, CursorBehindRow
<1>6. CASE PollLive
  <2>1. row.status \in LiveStatus
    BY <1>6 DEF PollLive, Shapes, Status
  <2>2. Tool("start", row.status) \in Frames(row.status)
    BY <2>1 DEF Tool, Frames, Fits, EventType, Behind
  <2>3. StepEvents(relay.cursor, row) \in Seq(Frames(row.status))
    <3> DEFINE F == Frames(row.status)
    <3>1. <<Tool("start", row.status)>> \in Seq(F) /\ <<>> \in Seq(F)
      BY <2>2
    <3>2. CloseStep(relay.cursor) \in Seq(F)
      BY <1>4
    <3>3. \A s, t \in Seq(F) : s \o t \in Seq(F)
      OBVIOUS
    <3> HIDE DEF F
    <3>4. CloseStep(relay.cursor) \o <<Tool("start", row.status)>> \in Seq(F)
      BY <3>1, <3>2, <3>3
    <3> QED BY <3>1, <3>4 DEF StepEvents, F
  <2>4. SaysProgress(relay.cursor, row) =>
          ProgressEvent(row.status, row.count) \in Frames(row.status)
    BY DEF SaysProgress, ProgressEvent, Frames, Fits, EventType, Behind, Shapes
  <2>5. LiveEvents(relay.cursor, row) \in Seq(Frames(row.status))
    <3> DEFINE F == Frames(row.status)
               P == IF SaysProgress(relay.cursor, row)
                    THEN <<ProgressEvent(row.status, row.count)>> ELSE <<>>
    <3>1. P \in Seq(F)
      <4>1. CASE SaysProgress(relay.cursor, row)
        <5>1. ProgressEvent(row.status, row.count) \in F
          BY <2>4, <4>1
        <5>2. P = <<ProgressEvent(row.status, row.count)>>
          BY <4>1
        <5> HIDE DEF F, P
        <5> QED BY <5>1, <5>2
      <4>2. CASE ~SaysProgress(relay.cursor, row)
        BY <4>2
      <4> QED BY <4>1, <4>2
    <3>2. StepEvents(relay.cursor, row) \in Seq(F)
      BY <2>3
    <3>3. \A s, t \in Seq(F) : s \o t \in Seq(F)
      OBVIOUS
    <3>4. LiveEvents(relay.cursor, row) = StepEvents(relay.cursor, row) \o P
      BY DEF LiveEvents
    <3> HIDE DEF F, P
    <3>5. LiveEvents(relay.cursor, row) \in Seq(F)
      BY <3>1, <3>2, <3>3, <3>4
    <3> QED BY <3>5 DEF F
  <2>6. WireFits'
    BY <1>1, <1>6, <2>5 DEF PollLive, WireFits
  <2>7. LiveCursor(relay.cursor, row) \in CursorType
        /\ LiveCursor(relay.cursor, row).openStep = row.status
    <3>1. PICK d, p \in Int : LiveCursor(relay.cursor, row) =
            [relay.cursor EXCEPT !.openStep = row.status, !.lastDone = d,
                                 !.lastProgress = p]
      <4>1. row.count \in Int
        BY BoundAssumption DEF Shapes, NoCount, Count
      <4>2. relay.cursor.lastDone \in Int /\ relay.cursor.lastProgress \in Int
        BY DEF Shapes, CursorType
      <4> QED BY <4>1, <4>2 DEF LiveCursor
    <3>2. relay.cursor \in CursorType
      BY DEF Shapes
    <3> QED BY <2>1, <3>1, <3>2 DEF CursorType
  <2>8. relay' \in [pc : {"open", "closed"}, idle : Int, cursor : CursorType]
        /\ relay'.cursor.openStep = row.status
    BY <1>6, <2>7 DEF PollLive, Shapes
  <2> QED BY <1>1, <2>6, <2>8 DEF Shapes, CursorBehindRow, Behind
<1>7. CASE RelayStops
  BY <1>7 DEF RelayStops, Shapes, CursorBehindRow, WireFits
<1>8. CASE ConnectionLost
  BY <1>8 DEF ConnectionLost, Shapes, CursorBehindRow, WireFits
<1> QED BY <1>5, <1>6, <1>7, <1>8

LEMMA ClientKeeps ==
  SInv /\ (Receive \/ StreamEnds \/ TimerFires) => SInv'
<1> SUFFICES ASSUME SInv, Receive \/ StreamEnds \/ TimerFires PROVE SInv'
  OBVIOUS
<1> USE DEF SInv
<1>1. CASE Receive
  <2> DEFINE e == Head(wire)
  <2>1. e \in Frames(row.status) /\ Tail(wire) \in Seq(Frames(row.status))
    BY <1>1, HeadTailProperties DEF Receive, WireFits
  <2>2. e \in EventType /\ Fits(e, row.status)
    BY <2>1 DEF Frames
  <2> HIDE DEF e
  <2>3. shown'.status = StatusAfter(e, shown.status) /\ client' = client
        /\ client = "streaming" /\ UNCHANGED <<row, relay>>
        /\ fetches' = IF e.type = "done" THEN fetches \cup {Fetch("done", Unread)}
                      ELSE fetches
    BY <1>1 DEF Receive, e
  <2>4. StatusAfter(e, shown.status) \in Status
        /\ Behind(StatusAfter(e, shown.status), row.status)
    <3>1. e.type \in {"tool", "progress"} => e.id \in Status
      BY <2>2 DEF EventType, Status, LiveStatus
    <3> QED BY <2>2, <3>1 DEF StatusAfter, Fits, Shapes, ShownBehindRow
  <2>5. Reopening = {}
    BY <2>3 DEF ReopensAlone
  <2>6. fetches # {} => row.status \in Terminal /\ \A g \in Answered : g.answer = row.status
    BY <2>5 DEF DoneIsFinal, Reopening, Shapes
  <2>7. Shapes'
    BY <2>3, <2>4 DEF Shapes, Fetch
  <2>8. WireFits'
    BY <1>1, <2>1, <2>3 DEF Receive, WireFits, e
  <2>9. ShownBehindRow' /\ CursorBehindRow'
    BY <2>3, <2>4 DEF ShownBehindRow, CursorBehindRow
  <2>10. Answered' = Answered
    BY <2>3 DEF Answered, Fetch
  <2>11. AnswersBetween'
    BY <2>3, <2>4, <2>6, <2>10 DEF AnswersBetween, Answered, Behind
  <2>12. ReopensAlone'
    BY <2>3, <2>5 DEF ReopensAlone, Reopening, Fetch
  <2>13. DoneIsFinal'
    <3>1. CASE e.type = "done"
      <4>1. row.status \in Terminal
        BY <2>2, <3>1 DEF Fits
      <4> QED BY <2>3, <2>6, <2>10, <4>1 DEF DoneIsFinal, Answered
    <3>2. CASE e.type # "done"
      BY <2>3, <2>10, <3>2 DEF DoneIsFinal
    <3> QED BY <3>1, <3>2
  <2> QED BY <2>7, <2>8, <2>9, <2>11, <2>12, <2>13
<1>2. CASE StreamEnds
  BY <1>2 DEF StreamEnds, Shapes, WireFits, ShownBehindRow, CursorBehindRow,
              AnswersBetween, Answered, ReopensAlone, Reopening, DoneIsFinal
<1>3. CASE TimerFires
  <2>1. Answered' = Answered
    BY <1>3 DEF TimerFires, Answered, Fetch
  <2>2. Reopening = {} /\ Reopening' = {Fetch("reopen", Unread)}
    BY <1>3 DEF TimerFires, ReopensAlone, Reopening, Fetch
  <2>3. Shapes'
    BY <1>3 DEF TimerFires, Shapes, Fetch
  <2>4. ReopensAlone'
    BY <1>3, <2>2 DEF TimerFires, ReopensAlone
  <2>5. DoneIsFinal'
    BY <1>3, <2>1 DEF TimerFires, DoneIsFinal, Fetch
  <2> QED BY <1>3, <2>1, <2>3, <2>4, <2>5
          DEF TimerFires, WireFits, ShownBehindRow, CursorBehindRow, AnswersBetween
<1> QED BY <1>1, <1>2, <1>3

\* The fetches other than one that was answered or failed.
LEMMA FetchGone ==
  ASSUME SInv, NEW f \in fetches, fetches' = fetches \ {f}, row' = row
  PROVE  /\ Answered' \subseteq Answered /\ Reopening' \subseteq Reopening
         /\ DoneIsFinal' /\ (f.why = "reopen" => Reopening' = {})
BY DEF SInv, Answered, Reopening, DoneIsFinal, ReopensAlone

LEMMA RelayAfterFetch ==
  ASSUME SInv, UNCHANGED row,
         Opens \/ OpensNothing \/ (relay' = [relay EXCEPT !.pc = "closed"] /\ wire' = <<>>)
  PROVE  /\ relay' \in [pc : {"open", "closed"}, idle : Int, cursor : CursorType]
         /\ CursorBehindRow' /\ WireFits'
<1> USE DEF SInv
<1>1. CASE Opens
  <2>1. EmptyCursor \in CursorType /\ EmptyCursor.openStep = NoStep
    BY DEF EmptyCursor, CursorType, NoCount
  <2> QED BY <1>1, <2>1 DEF Opens, NewRelay, CursorBehindRow, WireFits
<1>2. CASE OpensNothing
  BY <1>2 DEF OpensNothing, CursorBehindRow, WireFits, Shapes
<1>3. CASE relay' = [relay EXCEPT !.pc = "closed"] /\ wire' = <<>>
  BY <1>3 DEF CursorBehindRow, WireFits, Shapes
<1> QED BY <1>1, <1>2, <1>3

LEMMA FetchKeeps ==
  ASSUME SInv, NEW f \in fetches, RowRead(f) \/ FetchArrives(f) \/ FetchFails(f)
  PROVE  SInv' /\ Behind(shown.status, shown'.status)
<1> USE DEF SInv
<1>1. CASE RowRead(f)
  <2>1. /\ UNCHANGED <<row, relay, wire, client, shown>>
        /\ fetches' = (fetches \ {f}) \cup {Fetch(f.why, row.status)}
        /\ f.why \in {"done", "reopen"}
    BY <1>1 DEF RowRead, Shapes
  <2>2. Shapes'
    BY <2>1 DEF Shapes, Fetch
  <2>3. \A g \in Answered' : g \in Answered \/ g.answer = row.status
    BY <2>1 DEF Answered, Fetch
  <2>4. AnswersBetween'
    BY <2>1, <2>3 DEF AnswersBetween, Behind, ShownBehindRow
  <2>5. ReopensAlone'
    <3>1. CASE f.why = "reopen"
      BY <2>1, <3>1 DEF ReopensAlone, Reopening, Fetch
    <3>2. CASE f.why = "done"
      BY <2>1, <3>2 DEF ReopensAlone, Reopening, Fetch
    <3> QED BY <2>1, <3>1, <3>2
  <2>6. DoneIsFinal'
    BY <2>1, <2>3 DEF DoneIsFinal, Fetch
  <2> QED
    BY <2>1, <2>2, <2>4, <2>5, <2>6 DEF WireFits, ShownBehindRow, CursorBehindRow, Behind
<1>2. CASE FetchArrives(f)
  <2>1. /\ f.answer \in Status /\ f \in Answered
        /\ fetches' = fetches \ {f} /\ row' = row /\ shown'.status = f.answer
    BY <1>2 DEF FetchArrives, Answered, Shapes, Unread
  <2>2. Behind(shown.status, shown'.status) /\ ShownBehindRow'
    BY <2>1 DEF AnswersBetween, ShownBehindRow
  <2>3. \A g \in Answered : g # f => g.answer = row.status
    BY <2>1 DEF DoneIsFinal, ReopensAlone, Reopening, Shapes, Answered
  <2>4. AnswersBetween'
    BY <2>1, <2>2, <2>3 DEF AnswersBetween, Answered, ShownBehindRow, Behind
  <2>5. DoneIsFinal' /\ Reopening' \subseteq Reopening /\ (f.why = "reopen" => Reopening' = {})
    BY <2>1, FetchGone
  <2>6. \/ /\ client' = "finished" /\ relay' = [relay EXCEPT !.pc = "closed"] /\ wire' = <<>>
        \/ f.why = "reopen" /\ Opens
        \/ OpensNothing
    BY <1>2 DEF FetchArrives
  <2>7. client' \in {"streaming", "waiting", "reading", "finished"} /\ ReopensAlone'
    BY <2>5, <2>6 DEF ReopensAlone, Opens, OpensNothing, Shapes
  <2>8. /\ relay' \in [pc : {"open", "closed"}, idle : Int, cursor : CursorType]
        /\ CursorBehindRow' /\ WireFits'
    BY <2>1, <2>6, RelayAfterFetch
  <2>9. Shapes'
    BY <2>1, <2>7, <2>8 DEF Shapes
  <2> QED BY <2>2, <2>4, <2>5, <2>7, <2>8, <2>9
<1>3. CASE FetchFails(f)
  <2>1. fetches' = fetches \ {f} /\ UNCHANGED <<row, shown>>
    BY <1>3 DEF FetchFails
  <2>2. /\ Answered' \subseteq Answered /\ Reopening' \subseteq Reopening
        /\ DoneIsFinal' /\ (f.why = "reopen" => Reopening' = {})
    BY <2>1, FetchGone
  <2>3. (f.why = "reopen" /\ Opens) \/ OpensNothing
    BY <1>3 DEF FetchFails
  <2>4. client' \in {"streaming", "waiting", "reading", "finished"} /\ ReopensAlone'
    BY <2>2, <2>3 DEF ReopensAlone, Opens, OpensNothing, Shapes
  <2>5. /\ relay' \in [pc : {"open", "closed"}, idle : Int, cursor : CursorType]
        /\ CursorBehindRow' /\ WireFits'
    BY <2>1, <2>3, RelayAfterFetch
  <2>6. Shapes'
    BY <2>1, <2>4, <2>5 DEF Shapes
  <2> QED
    BY <2>1, <2>2, <2>4, <2>5, <2>6 DEF AnswersBetween, ShownBehindRow, Behind
<1> QED BY <1>1, <1>2, <1>3

-------------------------------------------------------------------------------
\* Whatever reaches the client is no older than what it shows.
THEOREM StreamInvariance == Spec => []SInv
<1>1. SInv /\ [Next]_vars => SInv'
  <2> SUFFICES ASSUME SInv, [Next]_vars PROVE SInv'
    OBVIOUS
  <2>1. CASE UNCHANGED vars
    BY <2>1 DEF vars, SInv, Shapes, WireFits, ShownBehindRow, CursorBehindRow,
                AnswersBetween, Answered, ReopensAlone, Reopening, DoneIsFinal
  <2>2. CASE Next
    BY <2>2, RowKeeps, RelayKeeps, ClientKeeps, FetchKeeps DEF Next
  <2> QED BY <2>1, <2>2
<1> QED BY <1>1, InitHolds, PTL DEF Spec

\* The status shown never goes back, however streams drop and re-reads are
\* answered (useRunStream.ts: advances, setRun).
THEOREM StatusShownNeverGoesBack == Spec => ShownNeverGoesBack
<1>1. SInv /\ [Next]_vars =>
        [Advances(shown.status, shown'.status) \/ shown'.status = shown.status]_vars
  <2> SUFFICES ASSUME SInv, Next
               PROVE  Advances(shown.status, shown'.status) \/ shown'.status = shown.status
    OBVIOUS
  <2>1. CASE Receive
    BY <2>1 DEF Receive, StatusAfter
  <2>2. CASE \E f \in fetches : RowRead(f) \/ FetchArrives(f) \/ FetchFails(f)
    BY <2>2, FetchKeeps DEF Behind
  <2>3. CASE ~Receive /\ ~\E f \in fetches : RowRead(f) \/ FetchArrives(f) \/ FetchFails(f)
    BY <2>3 DEF Next, RowMoves, RowCounts, PollTerminal, PollLive, RelayStops,
                ConnectionLost, StreamEnds, TimerFires
  <2> QED BY <2>1, <2>2, <2>3
<1> QED BY <1>1, StreamInvariance, PTL DEF ShownNeverGoesBack, Spec
-------------------------------------------------------------------------------
(***************************************************************************)
(* What a connection says is in order.  Each frame in flight is one that   *)
(* may follow the frame before it, the first may follow what was heard,    *)
(* and the cursor of an open relay stands where the last one leads.        *)
(***************************************************************************)

\* Where a frame leaves whoever hears it.
AfterFrame(e) ==
  [open  |-> IF e.type = "progress" \/ (e.type = "tool" /\ e.phase = "start") THEN e.id ELSE NoStep,
   last  |-> IF e.type \in {"tool", "progress"} THEN Rank[e.id] ELSE 6,
   said  |-> IF e.type = "progress" THEN e.done ELSE 0,
   ended |-> CASE e.type \in {"tool", "progress"} -> "no"
               [] e.type = "done"                 -> "done"
               [] OTHER                           -> "outcome"]

\* What may be said to whoever has heard h.
MayFollow(h, e) ==
  /\ e.type = "tool" /\ e.phase = "start" =>
       h.open = NoStep /\ h.ended = "no" /\ Rank[e.id] > h.last
  /\ (e.type = "tool" /\ e.phase = "end") \/ e.type = "progress" =>
       h.open = e.id /\ h.ended = "no" /\ h.last = Rank[e.id]
  /\ e.type = "progress" => e.done >= h.said
  /\ e.type \in {"snapshot_ready", "error"} => h.open = NoStep /\ h.ended = "no"
  /\ e.type = "done" => h.open = NoStep /\ h.ended = "outcome"

\* As far as what may follow is concerned.
Same(h, g) ==
  /\ h.open = g.open /\ h.ended = g.ended
  /\ h.ended = "no" => h.last = g.last
  /\ h.open # NoStep => h.said = g.said

Orderly(h, w) ==
  /\ w # <<>> => MayFollow(h, w[1])
  /\ \A i \in 1 .. Len(w) - 1 : MayFollow(AfterFrame(w[i]), w[i + 1])

AtEnd(h, w) == IF w = <<>> THEN h ELSE AfterFrame(w[Len(w)])

\* An open relay's cursor c fits what a listener g will have heard.
CursorFits(c, g) ==
  /\ g.open = c.openStep /\ g.ended = "no"
  /\ g.open = NoStep => g.last = -1
  /\ g.open # NoStep => g.last = Rank[g.open]
  /\ g.open = "collecting" => g.said \in Nat /\ (g.said = 0 \/ g.said <= c.lastDone)

OInv ==
  /\ Orderly(heard, wire)
  /\ relay.pc = "open" => CursorFits(relay.cursor, AtEnd(heard, wire))

LEMMA OneMore ==
  ASSUME NEW h, NEW w \in Seq(EventType), NEW e \in EventType,
         Orderly(h, w), MayFollow(AtEnd(h, w), e)
  PROVE  /\ Append(w, e) \in Seq(EventType)
         /\ Orderly(h, Append(w, e)) /\ AtEnd(h, Append(w, e)) = AfterFrame(e)
<1> DEFINE v == Append(w, e)
<1>1. /\ v \in Seq(EventType) /\ Len(v) = Len(w) + 1 /\ v[Len(w) + 1] = e
      /\ \A i \in 1 .. Len(w) : v[i] = w[i]
  OBVIOUS
<1>2. Len(w) \in Nat /\ (w = <<>> <=> Len(w) = 0) /\ v # <<>>
  BY <1>1, EmptySeq
<1> HIDE DEF v
<1>3. MayFollow(h, v[1])
  <2>1. CASE w = <<>>
    BY <1>1, <1>2, <2>1 DEF AtEnd
  <2>2. CASE w # <<>>
    BY <1>1, <1>2, <2>2 DEF Orderly
  <2> QED BY <2>1, <2>2
<1>4. ASSUME NEW i \in 1 .. Len(v) - 1 PROVE MayFollow(AfterFrame(v[i]), v[i + 1])
  <2>1. CASE i = Len(w)
    BY <1>1, <1>2, <2>1 DEF AtEnd
  <2>2. CASE i # Len(w)
    <3>1. i \in 1 .. Len(w) - 1 /\ v[i] = w[i] /\ v[i + 1] = w[i + 1]
      BY <1>1, <1>2, <2>2
    <3> QED BY <3>1 DEF Orderly
  <2> QED BY <2>1, <2>2
<1>5. AtEnd(h, v) = AfterFrame(e)
  BY <1>1, <1>2 DEF AtEnd
<1>6. Orderly(h, v)
  BY <1>3, <1>4 DEF Orderly
<1> QED BY <1>1, <1>5, <1>6 DEF v

LEMMA SameMayFollow ==
  ASSUME NEW g, NEW h, Same(g, h), NEW e \in EventType, MayFollow(h, e)
  PROVE  MayFollow(g, e)
BY DEF Same, MayFollow, EventType, NoStep

\* Frames heard one by one.
LEMMA OneHeard ==
  ASSUME NEW h, NEW w \in Seq(EventType), w # <<>>, Orderly(h, w),
         NEW g, Same(g, AfterFrame(Head(w)))
  PROVE  /\ Orderly(g, Tail(w))
         /\ AtEnd(g, Tail(w)) = AtEnd(h, w) \/ (Tail(w) = <<>> /\ Same(g, AtEnd(h, w)))
<1> DEFINE v == Tail(w)
<1>1. /\ Len(w) \in Nat \ {0} /\ v \in Seq(EventType) /\ Len(v) = Len(w) - 1
      /\ Head(w) = w[1] /\ \A i \in 1 .. Len(v) : v[i] = w[i + 1]
      /\ \A i \in 1 .. Len(w) : w[i] \in EventType
  BY EmptySeq
<1>2. v = <<>> <=> Len(v) = 0
  BY <1>1, EmptySeq
<1> HIDE DEF v
<1>3. CASE v = <<>>
  <2>1. Len(w) = 1
    BY <1>1, <1>2, <1>3
  <2>2. AtEnd(h, w) = AfterFrame(w[1])
    BY <2>1 DEF AtEnd
  <2>3. Orderly(g, v)
    BY <1>1, <1>2, <1>3 DEF Orderly
  <2> QED BY <1>1, <1>3, <2>2, <2>3 DEF v, AtEnd
<1>4. CASE v # <<>>
  <2>1. Len(w) - 1 \in Nat \ {0} /\ v[1] = w[2] /\ v[Len(v)] = w[Len(w)]
    BY <1>1, <1>2, <1>4
  <2>2. MayFollow(AfterFrame(w[1]), w[2])
    BY <1>1, <2>1 DEF Orderly
  <2>3. MayFollow(g, v[1])
    BY <1>1, <2>1, <2>2, SameMayFollow
  <2>4. ASSUME NEW i \in 1 .. Len(v) - 1 PROVE MayFollow(AfterFrame(v[i]), v[i + 1])
    <3>1. i + 1 \in 1 .. Len(w) - 1 /\ v[i] = w[i + 1] /\ v[i + 1] = w[(i + 1) + 1]
      BY <1>1
    <3> QED BY <3>1 DEF Orderly
  <2>5. AtEnd(g, v) = AtEnd(h, w)
    BY <1>1, <1>4, <2>1 DEF AtEnd
  <2> QED BY <2>3, <2>4, <2>5 DEF Orderly, v
<1> QED BY <1>3, <1>4

\* Hearing a frame that may follow leads where the frame does.
LEMMA Hears ==
  ASSUME NEW h, NEW e \in EventType, MayFollow(h, e),
         h = [open |-> h.open, last |-> h.last, said |-> h.said, ended |-> h.ended]
  PROVE  Same(HeardAfter(e, h), AfterFrame(e))
BY DEF HeardAfter, AfterFrame, Same, MayFollow, EventType, NoStep, LiveStatus

-------------------------------------------------------------------------------
LEMMA WireOfEvents == SInv => wire \in Seq(EventType)
BY DEF SInv, WireFits, Frames

LEMMA CursorOfInts ==
  SInv => /\ row.status \in Status /\ row.count \in Count \cup {NoCount}
          /\ relay.cursor.openStep \in LiveStatus \cup {NoStep}
          /\ relay.cursor.lastDone \in Int /\ relay.cursor.lastProgress \in Int
BY DEF SInv, Shapes, CursorType

\* closeStep: no step is open any more.
LEMMA ClosesStep ==
  ASSUME SInv, OInv, relay.pc = "open"
  PROVE  LET w == wire \o CloseStep(relay.cursor)
             g == AtEnd(heard, w)
         IN  /\ w \in Seq(EventType) /\ Orderly(heard, w)
             /\ g.open = NoStep /\ g.ended = "no"
             /\ g.last = IF relay.cursor.openStep = NoStep THEN -1
                         ELSE Rank[relay.cursor.openStep]
<1> DEFINE s == relay.cursor.openStep
           e == Tool("end", s)
<1>1. /\ wire \in Seq(EventType) /\ s \in LiveStatus \cup {NoStep}
      /\ Orderly(heard, wire) /\ CursorFits(relay.cursor, AtEnd(heard, wire))
  BY WireOfEvents, CursorOfInts DEF OInv
<1>2. CASE s = NoStep
  <2>1. wire \o CloseStep(relay.cursor) = wire
    BY <1>1, <1>2, ConcatEmptySeq DEF CloseStep
  <2> QED BY <1>1, <1>2, <2>1 DEF CursorFits
<1>3. CASE s # NoStep
  <2>1. e \in EventType /\ e.type = "tool" /\ e.phase = "end" /\ e.id = s
    BY <1>1, <1>3 DEF Tool, EventType
  <2>2. wire \o CloseStep(relay.cursor) = Append(wire, e)
    BY <1>1, <1>3, <2>1, AppendIsConcat DEF CloseStep
  <2>3. MayFollow(AtEnd(heard, wire), e)
    BY <1>1, <1>3, <2>1 DEF MayFollow, CursorFits
  <2>4. /\ AfterFrame(e).open = NoStep /\ AfterFrame(e).ended = "no"
        /\ AfterFrame(e).last = Rank[s]
    BY <2>1 DEF AfterFrame
  <2> HIDE DEF e
  <2> QED BY <1>1, <1>3, <2>1, <2>2, <2>3, <2>4, OneMore
<1> QED BY <1>2, <1>3

\* The outcome, then done, once the step is closed.
LEMMA TerminalPollSays == SInv /\ OInv /\ PollTerminal => OInv'
<1> SUFFICES ASSUME SInv, OInv, PollTerminal PROVE OInv'
  OBVIOUS
<1> DEFINE w == wire \o CloseStep(relay.cursor)
           a == Closing(IF row.status = "completed" THEN "snapshot_ready" ELSE "error")
           b == Closing("done")
<1>1. w \in Seq(EventType) /\ Orderly(heard, w)
      /\ AtEnd(heard, w).open = NoStep /\ AtEnd(heard, w).ended = "no"
  BY ClosesStep DEF PollTerminal
<1>2. a \in EventType /\ a.type \in {"snapshot_ready", "error"}
      /\ b \in EventType /\ b.type = "done"
  BY DEF Closing, EventType
<1>3. AfterFrame(a).open = NoStep /\ AfterFrame(a).ended = "outcome"
  BY <1>2 DEF AfterFrame
<1>4. wire \in Seq(EventType) /\ CloseStep(relay.cursor) \in Seq(EventType)
  <2>1. relay.cursor.openStep # NoStep => Tool("end", relay.cursor.openStep) \in EventType
    BY CursorOfInts DEF Tool, EventType
  <2> QED BY <2>1, WireOfEvents DEF CloseStep
<1>5. wire' = wire \o (CloseStep(relay.cursor) \o <<a, b>>)
  BY DEF PollTerminal, TerminalEvents
<1> HIDE DEF a, b
<1>6. wire' = w \o <<a, b>>
  BY <1>2, <1>4, <1>5, ConcatAssociative
<1> HIDE DEF w
<1>7. w \o <<a, b>> = Append(Append(w, a), b)
  BY <1>1, <1>2
<1>8. MayFollow(AtEnd(heard, w), a) /\ MayFollow(AfterFrame(a), b)
  BY <1>1, <1>2, <1>3 DEF MayFollow
<1>9. Append(w, a) \in Seq(EventType) /\ Orderly(heard, Append(w, a))
      /\ AtEnd(heard, Append(w, a)) = AfterFrame(a)
  BY <1>1, <1>2, <1>8, OneMore
<1>10. Orderly(heard, Append(Append(w, a), b))
  BY <1>2, <1>8, <1>9, OneMore
<1>11. heard' = heard /\ relay'.pc = "closed"
  BY DEF PollTerminal, SInv, Shapes
<1> QED BY <1>6, <1>7, <1>10, <1>11 DEF OInv

\* The step of a row that is not terminal is opened behind the one before it.
LEMMA StepSays ==
  ASSUME SInv, OInv, relay.pc = "open", row.status \notin Terminal
  PROVE  LET w == wire \o StepEvents(relay.cursor, row)
             g == AtEnd(heard, w)
         IN  /\ w \in Seq(EventType) /\ Orderly(heard, w)
             /\ g.open = row.status /\ g.ended = "no" /\ g.last = Rank[row.status]
             /\ row.status = "collecting" =>
                  g.said \in Nat /\ (g.said = 0 \/ g.said <= relay.cursor.lastDone)
<1> DEFINE s == relay.cursor.openStep
           e == Tool("start", row.status)
           v == wire \o CloseStep(relay.cursor)
<1>1. /\ wire \in Seq(EventType) /\ s \in LiveStatus \cup {NoStep}
      /\ Orderly(heard, wire) /\ CursorFits(relay.cursor, AtEnd(heard, wire))
  BY WireOfEvents, CursorOfInts DEF OInv
<1>2. row.status \in LiveStatus
  BY CursorOfInts DEF Status
<1>3. CASE s = row.status
  <2>1. wire \o StepEvents(relay.cursor, row) = wire
    BY <1>1, <1>3, ConcatEmptySeq DEF StepEvents
  <2>2. row.status # NoStep
    BY <1>2 DEF LiveStatus, NoStep
  <2> QED BY <1>1, <1>3, <2>1, <2>2 DEF CursorFits
<1>4. CASE s # row.status
  <2>1. /\ v \in Seq(EventType) /\ Orderly(heard, v)
        /\ AtEnd(heard, v).open = NoStep /\ AtEnd(heard, v).ended = "no"
        /\ AtEnd(heard, v).last = IF s = NoStep THEN -1 ELSE Rank[s]
    BY ClosesStep
  <2>2. e \in EventType /\ e.type = "tool" /\ e.phase = "start" /\ e.id = row.status
    BY <1>2 DEF Tool, EventType
  <2>3. Rank[row.status] > AtEnd(heard, v).last
    <3>1. CASE s = NoStep
      BY <1>2, <2>1, <3>1, RankValues DEF LiveStatus
    <3>2. CASE s # NoStep
      BY <1>4, <2>1, <3>2 DEF SInv, CursorBehindRow, Behind, Advances
    <3> QED BY <3>1, <3>2
  <2>4. CloseStep(relay.cursor) \in Seq(EventType)
    <3>1. s # NoStep => Tool("end", s) \in EventType
      BY <1>1 DEF Tool, EventType
    <3> QED BY <3>1 DEF CloseStep
  <2>5. wire \o StepEvents(relay.cursor, row) = wire \o (CloseStep(relay.cursor) \o <<e>>)
    BY <1>4 DEF StepEvents
  <2>6. /\ AfterFrame(e).open = row.status /\ AfterFrame(e).ended = "no"
        /\ AfterFrame(e).last = Rank[row.status] /\ AfterFrame(e).said = 0
    BY <2>2 DEF AfterFrame
  <2> HIDE DEF e
  <2>7. wire \o (CloseStep(relay.cursor) \o <<e>>) = v \o <<e>>
    BY <1>1, <2>2, <2>4, ConcatAssociative
  <2>8. MayFollow(AtEnd(heard, v), e)
    BY <2>1, <2>2, <2>3 DEF MayFollow
  <2> HIDE DEF v
  <2>9. v \o <<e>> = Append(v, e)
    BY <2>1, <2>2, AppendIsConcat
  <2>10. wire \o StepEvents(relay.cursor, row) = Append(v, e)
    BY <2>5, <2>7, <2>9
  <2>11. /\ Append(v, e) \in Seq(EventType) /\ Orderly(heard, Append(v, e))
         /\ AtEnd(heard, Append(v, e)) = AfterFrame(e)
    BY <2>1, <2>2, <2>8, OneMore
  <2> QED BY <2>6, <2>10, <2>11
<1> QED BY <1>3, <1>4

\* A count is said of the open step, and is no lower than the last.
LEMMA LivePollSays == SInv /\ OInv /\ PollLive => OInv'
<1> SUFFICES ASSUME SInv, OInv, PollLive PROVE OInv'
  OBVIOUS
<1> DEFINE w == wire \o StepEvents(relay.cursor, row)
           e == ProgressEvent(row.status, row.count)
           says == SaysProgress(relay.cursor, row)
<1>1. /\ w \in Seq(EventType) /\ Orderly(heard, w)
      /\ AtEnd(heard, w).open = row.status /\ AtEnd(heard, w).ended = "no"
      /\ AtEnd(heard, w).last = Rank[row.status]
      /\ row.status = "collecting" =>
           /\ AtEnd(heard, w).said \in Nat
           /\ AtEnd(heard, w).said = 0 \/ AtEnd(heard, w).said <= relay.cursor.lastDone
  BY StepSays DEF PollLive
<1>2. /\ relay'.cursor = LiveCursor(relay.cursor, row) /\ heard' = heard
      /\ wire' = wire \o (StepEvents(relay.cursor, row) \o IF says THEN <<e>> ELSE <<>>)
      /\ row.status \in LiveStatus
  BY CursorOfInts DEF PollLive, LiveEvents, Status
<1>3. StepEvents(relay.cursor, row) \in Seq(EventType) /\ wire \in Seq(EventType)
  <2>1. relay.cursor.openStep # NoStep => Tool("end", relay.cursor.openStep) \in EventType
    BY CursorOfInts DEF Tool, EventType
  <2>2. Tool("start", row.status) \in EventType
    BY <1>2 DEF Tool, EventType
  <2>3. CloseStep(relay.cursor) \in Seq(EventType) /\ <<Tool("start", row.status)>> \in Seq(EventType)
    BY <2>1, <2>2 DEF CloseStep
  <2> QED BY <2>3, WireOfEvents, ConcatProperties DEF StepEvents
<1>4. /\ relay'.cursor.openStep = row.status
      /\ relay'.cursor.lastDone = IF says THEN row.count ELSE relay.cursor.lastDone
  BY <1>2, CursorOfInts DEF LiveCursor, SInv, Shapes, CursorType
<1>5. CASE ~says
  <2>1. wire' = w
    BY <1>2, <1>3, <1>5, ConcatEmptySeq
  <2>2. row.status # NoStep
    BY <1>2 DEF LiveStatus, NoStep
  <2>3. CursorFits(relay'.cursor, AtEnd(heard, w))
    BY <1>1, <1>4, <1>5, <2>2 DEF CursorFits
  <2> QED BY <1>1, <1>2, <2>1, <2>3 DEF OInv
<1>6. CASE says
  <2>1. /\ row.status = "collecting" /\ row.count \in Nat /\ row.count >= relay.cursor.lastDone
        /\ row.count \in Count /\ relay.cursor.lastDone \in Int
    BY <1>6, CursorOfInts, BoundAssumption DEF SaysProgress, Count
  <2>2. /\ e \in EventType /\ e.type = "progress" /\ e.id = row.status
        /\ e.done = row.count
    BY <2>1 DEF ProgressEvent, EventType
  <2>3. /\ AfterFrame(e).open = row.status /\ AfterFrame(e).ended = "no"
        /\ AfterFrame(e).last = Rank[row.status] /\ AfterFrame(e).said = row.count
    BY <2>2 DEF AfterFrame
  <2> HIDE DEF e
  <2>4. MayFollow(AtEnd(heard, w), e)
    BY <1>1, <2>1, <2>2 DEF MayFollow
  <2>5. wire' = w \o <<e>>
    BY <1>2, <1>3, <1>6, <2>2, ConcatAssociative
  <2> HIDE DEF w
  <2>6. w \o <<e>> = Append(w, e)
    BY <1>1, <2>2, AppendIsConcat
  <2>7. Orderly(heard, Append(w, e)) /\ AtEnd(heard, Append(w, e)) = AfterFrame(e)
    BY <1>1, <2>2, <2>4, OneMore
  <2>8. CursorFits(relay'.cursor, AfterFrame(e))
    BY <1>4, <1>6, <2>1, <2>3 DEF CursorFits, NoStep
  <2> QED BY <1>2, <2>5, <2>6, <2>7, <2>8 DEF OInv
<1> QED BY <1>5, <1>6

HeardType == [open : LiveStatus \cup {NoStep}, last : Int, said : Int,
              ended : {"no", "outcome", "done"}]

LEMMA ReceiptKeepsOrder ==
  ASSUME SInv, OInv, heard \in HeardType, Receive
  PROVE  OInv' /\ heard' \in HeardType /\ MayFollow(heard, Head(wire)) /\ Head(wire) \in EventType
<1> DEFINE e == Head(wire)
<1>1. /\ wire \in Seq(EventType) /\ wire # <<>> /\ Orderly(heard, wire)
      /\ relay.pc = "open" => CursorFits(relay.cursor, AtEnd(heard, wire))
  BY WireOfEvents DEF OInv, Receive
<1>2. e \in EventType /\ e = wire[1]
  BY <1>1
<1>3. MayFollow(heard, e)
  BY <1>1, <1>2 DEF Orderly
<1> HIDE DEF e
<1>4. heard' = HeardAfter(e, heard) /\ wire' = Tail(wire) /\ UNCHANGED relay
  BY DEF Receive, e
<1>5. heard' \in HeardType
  <2>1. \A s \in LiveStatus : Rank[s] \in Int
    BY RankValues DEF LiveStatus
  <2>2. CASE e.type = "tool" /\ e.phase = "start"
    <3>1. e.id \in LiveStatus
      BY <1>2, <2>2 DEF EventType
    <3>2. heard' = [open |-> e.id, last |-> Rank[e.id], said |-> 0, ended |-> heard.ended]
      BY <1>4, <2>2 DEF HeardAfter
    <3> QED BY <2>1, <3>1, <3>2 DEF HeardType
  <2>3. CASE e.type = "tool" /\ e.phase = "end"
    <3>1. heard' = [heard EXCEPT !.open = NoStep]
      BY <1>4, <2>3 DEF HeardAfter
    <3> QED BY <3>1 DEF HeardType
  <2>4. CASE e.type = "progress"
    <3>1. e.done \in Int
      <4>1. e.done \in Count
        BY <1>2, <2>4 DEF EventType
      <4> QED BY <4>1, BoundAssumption DEF Count
    <3>2. heard' = [heard EXCEPT !.said = e.done]
      BY <1>4, <2>4 DEF HeardAfter
    <3> QED BY <3>1, <3>2 DEF HeardType
  <2>5. CASE e.type \in {"snapshot_ready", "error", "done"}
    BY <1>2, <1>4, <2>5 DEF HeardAfter, HeardType
  <2> QED BY <1>2, <2>2, <2>3, <2>4, <2>5 DEF EventType
<1>6. Same(heard', AfterFrame(e))
  <2>1. heard = [open |-> heard.open, last |-> heard.last, said |-> heard.said, ended |-> heard.ended]
    BY DEF HeardType
  <2> QED BY <1>2, <1>3, <1>4, <2>1, Hears
<1>7. /\ Orderly(heard', wire')
      /\ \/ AtEnd(heard', wire') = AtEnd(heard, wire)
         \/ wire' = <<>> /\ Same(heard', AtEnd(heard, wire))
  BY <1>1, <1>4, <1>6, OneHeard DEF e
<1>8. ASSUME relay.pc = "open" PROVE CursorFits(relay.cursor, AtEnd(heard', wire'))
  <2>1. CursorFits(relay.cursor, AtEnd(heard, wire))
    BY <1>1, <1>8
  <2>2. ASSUME NEW g, NEW h, Same(g, h), CursorFits(relay.cursor, h)
        PROVE  CursorFits(relay.cursor, g)
    BY <2>2 DEF Same, CursorFits, NoStep
  <2>3. CASE AtEnd(heard', wire') = AtEnd(heard, wire)
    BY <2>1, <2>3
  <2>4. CASE wire' = <<>> /\ Same(heard', AtEnd(heard, wire))
    BY <2>1, <2>2, <2>4 DEF AtEnd
  <2> QED BY <1>7, <2>3, <2>4
<1> QED BY <1>2, <1>3, <1>4, <1>5, <1>7, <1>8 DEF OInv, e

LEMMA NewStreamInOrder ==
  ASSUME relay' = NewRelay, wire' = <<>>, heard' = NewHeard
  PROVE  OInv' /\ heard' \in HeardType
BY DEF NewRelay, NewHeard, EmptyCursor, OInv, Orderly, AtEnd, CursorFits, HeardType, NoStep

LEMMA StreamKeepsOrder ==
  ASSUME SInv, OInv, heard \in HeardType, [Next]_vars
  PROVE  OInv' /\ heard' \in HeardType
<1>1. CASE UNCHANGED <<relay, wire, heard>>
  BY <1>1 DEF OInv, AtEnd
<1>2. CASE PollTerminal
  BY <1>2, TerminalPollSays DEF PollTerminal
<1>3. CASE PollLive
  BY <1>3, LivePollSays DEF PollLive
<1>4. CASE RelayStops
  <2>1. relay'.pc = "closed" /\ UNCHANGED <<wire, heard>>
    BY <1>4 DEF RelayStops, SInv, Shapes
  <2> QED BY <2>1 DEF OInv
<1>5. CASE relay' = [relay EXCEPT !.pc = "closed"] /\ wire' = <<>> /\ UNCHANGED heard
  <2>1. relay'.pc = "closed"
    BY <1>5 DEF SInv, Shapes
  <2>2. Orderly(heard', wire')
    BY <1>5 DEF Orderly
  <2> QED BY <1>5, <2>1, <2>2 DEF OInv
<1>6. CASE Receive
  BY <1>6, ReceiptKeepsOrder
<1>7. CASE Opens
  BY <1>7, NewStreamInOrder DEF Opens
<1>8. CASE \E f \in fetches : RowRead(f) \/ FetchArrives(f) \/ FetchFails(f)
  BY <1>1, <1>5, <1>7, <1>8 DEF RowRead, FetchArrives, FetchFails, OpensNothing
<1>9. CASE UNCHANGED vars
  BY <1>1, <1>9 DEF vars
<1> QED
  BY <1>1, <1>2, <1>3, <1>4, <1>5, <1>6, <1>8, <1>9
  DEF Next, RowMoves, RowCounts, StreamEnds, TimerFires, ConnectionLost

\* What a client hears on one connection is what RunEvents allows, for any number of
\* counts, polls and frames in flight (relay.ts: deriveRelayEvents).
THEOREM ConnectionsSayInOrder == Spec => SaysInOrder
<1>1. Init => Events!Init
  BY DEF Init, NewHeard, Events!Init, Events!NoStep, NoStep
<1>2. Init => OInv /\ heard \in HeardType
  <2> SUFFICES ASSUME Init PROVE OInv /\ heard \in HeardType
    OBVIOUS
  <2>1. /\ wire = <<>> /\ heard = NewHeard /\ relay.cursor = EmptyCursor
    BY DEF Init, NewRelay
  <2> QED BY <2>1 DEF NewHeard, EmptyCursor, OInv, Orderly, AtEnd, CursorFits, HeardType, NoStep
<1>3. SInv /\ OInv /\ heard \in HeardType /\ [Next]_vars => [Events!Next]_(Events!vars)
  <2> SUFFICES ASSUME SInv, OInv, heard \in HeardType, [Next]_vars
               PROVE  Events!Next \/ UNCHANGED Events!vars
    BY DEF Events!vars
  <2>1. CASE UNCHANGED heard
    BY <2>1 DEF Events!vars
  <2>2. CASE heard' = NewHeard
    BY <2>2 DEF NewHeard, Events!Next, Events!Connect, Events!NoStep, NoStep
  <2>3. CASE Receive
    <3> DEFINE e == Head(wire)
    <3>1. e \in EventType /\ MayFollow(heard, e)
      BY <2>3, ReceiptKeepsOrder
    <3>2. heard' = HeardAfter(e, heard)
      BY <2>3 DEF Receive
    <3> HIDE DEF e
    <3>3. CASE e.type = "tool" /\ e.phase = "start"
      <4>1. e.id \in LiveStatus /\ heard' = [open |-> e.id, last |-> Rank[e.id], said |-> 0, ended |-> heard.ended]
        BY <3>1, <3>2, <3>3 DEF HeardAfter, EventType
      <4>2. heard.ended = "no" /\ heard.open = NoStep /\ Rank[e.id] > heard.last
        BY <3>1, <3>3 DEF MayFollow
      <4>3. Events!Start(e.id)
        BY <4>1, <4>2 DEF Events!Start, Events!NoStep, NoStep, Rank
      <4> QED BY <4>1, <4>3 DEF Events!Next, Events!LiveStatus, LiveStatus
    <3>4. CASE e.type = "tool" /\ e.phase = "end"
      <4>1. heard' = [heard EXCEPT !.open = NoStep] /\ heard.open # NoStep
        BY <3>1, <3>2, <3>4 DEF HeardAfter, EventType, MayFollow, LiveStatus, NoStep
      <4>2. Events!End
        BY <4>1 DEF Events!End, Events!NoStep, NoStep, HeardType
      <4> QED BY <4>2 DEF Events!Next
    <3>5. CASE e.type = "progress"
      <4>1. /\ heard' = [heard EXCEPT !.said = e.done] /\ heard.open # NoStep
            /\ e.done >= heard.said /\ e.done \in 0 .. MaxCount
        BY <3>1, <3>2, <3>5 DEF HeardAfter, EventType, MayFollow, NoStep, Count
      <4>2. Events!Progress(e.done)
        BY <4>1 DEF Events!Progress, Events!NoStep, NoStep, HeardType
      <4> QED BY <4>1, <4>2 DEF Events!Next
    <3>6. CASE e.type \in {"snapshot_ready", "error"}
      <4>1. heard' = [heard EXCEPT !.ended = "outcome"] /\ heard.open = NoStep /\ heard.ended = "no"
        BY <3>1, <3>2, <3>6 DEF HeardAfter, MayFollow
      <4>2. Events!Outcome
        BY <4>1 DEF Events!Outcome, Events!NoStep, NoStep, HeardType
      <4> QED BY <4>2 DEF Events!Next
    <3>7. CASE e.type = "done"
      <4>1. heard' = [heard EXCEPT !.ended = "done"] /\ heard.ended = "outcome"
        BY <3>1, <3>2, <3>7 DEF HeardAfter, MayFollow
      <4>2. Events!Done
        BY <4>1 DEF Events!Done, HeardType
      <4> QED BY <4>2 DEF Events!Next
    <3> QED BY <3>1, <3>3, <3>4, <3>5, <3>6, <3>7 DEF EventType
  <2>4. Receive \/ heard' = NewHeard \/ UNCHANGED heard
    BY DEF Next, vars, RowMoves, RowCounts, PollTerminal, PollLive, RelayStops, ConnectionLost,
           StreamEnds, TimerFires, RowRead, FetchArrives, FetchFails, Opens, OpensNothing
  <2> QED BY <2>1, <2>2, <2>3, <2>4
<1>4. SInv /\ OInv /\ heard \in HeardType /\ [Next]_vars => (OInv /\ heard \in HeardType)'
  BY StreamKeepsOrder
<1> QED BY <1>1, <1>2, <1>3, <1>4, StreamInvariance, PTL DEF SaysInOrder, Events!Spec, Spec

-------------------------------------------------------------------------------
(***************************************************************************)
(* Types.                                                                  *)
(***************************************************************************)

Cursor == [openStep : LiveStatus \cup {NoStep}, lastDone : Count \cup {NoCount},
           lastProgress : Count \cup {NoCount}, finished : BOOLEAN]

\* An open relay is within its idle window.
RelayTyped ==
  /\ relay \in [pc : {"open", "closed"}, idle : 0 .. IdlePolls, cursor : Cursor]
  /\ relay.pc = "open" => relay.idle < IdlePolls

ShownTyped == shown \in [status : Status, running : SUBSET LiveStatus, bar : Count \cup {NoCount}]

HeardTyped ==
  heard \in [open : LiveStatus \cup {NoStep}, last : -1 .. 6, said : Count,
             ended : {"no", "outcome", "done"}]

LEMMA FreshTyped ==
  NewRelay \in [pc : {"open", "closed"}, idle : 0 .. IdlePolls, cursor : Cursor]
  /\ NewRelay.idle < IdlePolls /\ NewHeard.said \in Count
BY BoundAssumption DEF NewRelay, EmptyCursor, Cursor, NewHeard, Count

LEMMA RelayStaysTyped ==
  ASSUME SInv, RelayTyped, [Next]_vars
  PROVE  RelayTyped'
<1>1. CASE UNCHANGED relay
  BY <1>1 DEF RelayTyped
<1>2. CASE relay' = NewRelay
  BY <1>2, FreshTyped DEF RelayTyped
<1>3. CASE relay' = [relay EXCEPT !.pc = "closed"]
  BY <1>3 DEF RelayTyped
<1>4. CASE PollTerminal
  <2>1. relay' = [relay EXCEPT !.pc = "closed", !.cursor.openStep = NoStep, !.cursor.finished = TRUE]
    BY <1>4 DEF PollTerminal
  <2> QED BY <2>1 DEF RelayTyped, Cursor
<1>5. CASE PollLive
  <2> DEFINE events == LiveEvents(relay.cursor, row)
             idle == IF events = <<>> THEN relay.idle + 1 ELSE 0
  <2>1. /\ relay' = [pc |-> IF idle >= IdlePolls THEN "closed" ELSE "open",
                     cursor |-> LiveCursor(relay.cursor, row), idle |-> idle]
        /\ relay.pc = "open"
    BY <1>5 DEF PollLive
  <2>2. row.status \in LiveStatus /\ row.count \in Count \cup {NoCount}
    BY <1>5, CursorOfInts DEF PollLive, Status
  <2>3. LiveCursor(relay.cursor, row) \in Cursor
    <3>1. PICK d, p \in Count \cup {NoCount} : LiveCursor(relay.cursor, row) =
            [relay.cursor EXCEPT !.openStep = row.status, !.lastDone = d, !.lastProgress = p]
      BY <2>2 DEF LiveCursor, RelayTyped, Cursor
    <3>2. relay.cursor \in Cursor
      BY DEF RelayTyped
    <3> QED BY <2>2, <3>1, <3>2 DEF Cursor
  <2> HIDE DEF events
  <2>4. idle \in 0 .. IdlePolls
    BY <2>1, BoundAssumption DEF RelayTyped
  <2> HIDE DEF idle
  <2>5. relay' \in [pc : {"open", "closed"}, idle : 0 .. IdlePolls, cursor : Cursor]
    BY <2>1, <2>3, <2>4
  <2>6. relay'.pc = "open" => relay'.idle < IdlePolls
    BY <2>1, <2>4, BoundAssumption
  <2> QED BY <2>5, <2>6 DEF RelayTyped
<1>6. CASE \E f \in fetches : RowRead(f) \/ FetchArrives(f) \/ FetchFails(f)
  BY <1>1, <1>2, <1>3, <1>6 DEF RowRead, FetchArrives, FetchFails, Opens, OpensNothing
<1> QED
  BY <1>1, <1>2, <1>3, <1>4, <1>5, <1>6
  DEF Next, vars, RowMoves, RowCounts, RelayStops, ConnectionLost, Receive, StreamEnds, TimerFires

LEMMA ReceivedStaysTyped ==
  ASSUME SInv, ShownTyped, HeardTyped, Receive
  PROVE  ShownTyped' /\ HeardTyped'
<1> DEFINE e == Head(wire)
<1>1. e \in EventType
  BY WireOfEvents DEF Receive
<1>2. /\ heard' = HeardAfter(e, heard)
      /\ shown' = [status |-> StatusAfter(e, shown.status),
                   running |-> RunningAfter(e, shown.running),
                   bar |-> BarAfter(e, shown.bar, shown.running)]
  BY DEF Receive
<1> HIDE DEF e
<1>3. /\ e.type \in {"tool", "progress"} => e.id \in LiveStatus
      /\ e.type = "progress" => e.done \in Count
  BY <1>1 DEF EventType, LiveStatus
<1>4. ShownTyped'
  <2>1. StatusAfter(e, shown.status) \in Status
    BY <1>3 DEF StatusAfter, ShownTyped, Status
  <2>2. RunningAfter(e, shown.running) \in SUBSET LiveStatus
    BY <1>3 DEF RunningAfter, ShownTyped
  <2>3. BarAfter(e, shown.bar, shown.running) \in Count \cup {NoCount}
    BY <1>3 DEF BarAfter, MaxOf, ShownTyped
  <2> QED BY <1>2, <2>1, <2>2, <2>3 DEF ShownTyped
<1>5. HeardTyped'
  <2>1. \A s \in LiveStatus : Rank[s] \in -1 .. 6
    BY RankValues DEF LiveStatus
  <2>2. 0 \in Count
    BY BoundAssumption DEF Count
  <2>3. CASE e.type = "tool" /\ e.phase = "start"
    <3>1. heard' = [open |-> e.id, last |-> Rank[e.id], said |-> 0, ended |-> heard.ended]
      BY <1>2, <2>3 DEF HeardAfter
    <3> QED BY <1>3, <2>1, <2>2, <2>3, <3>1 DEF HeardTyped
  <2>4. CASE e.type = "tool" /\ e.phase = "end"
    <3>1. heard' = [heard EXCEPT !.open = NoStep]
      BY <1>2, <2>4 DEF HeardAfter
    <3> QED BY <3>1 DEF HeardTyped
  <2>5. CASE e.type = "progress"
    <3>1. heard' = [heard EXCEPT !.said = e.done]
      BY <1>2, <2>5 DEF HeardAfter
    <3> QED BY <1>3, <2>5, <3>1 DEF HeardTyped
  <2>6. CASE e.type \in {"snapshot_ready", "error", "done"}
    BY <1>2, <2>6 DEF HeardAfter, HeardTyped
  <2> QED BY <1>1, <2>3, <2>4, <2>5, <2>6 DEF EventType
<1> QED BY <1>4, <1>5

LEMMA ClientStaysTyped ==
  ASSUME SInv, ShownTyped, HeardTyped, [Next]_vars
  PROVE  ShownTyped' /\ HeardTyped'
<1>1. CASE UNCHANGED <<shown, heard>>
  BY <1>1 DEF ShownTyped, HeardTyped
<1>2. CASE Receive
  BY <1>2, ReceivedStaysTyped
<1>3. ASSUME NEW f \in fetches, FetchArrives(f) \/ FetchFails(f)
      PROVE  ShownTyped' /\ HeardTyped'
  <2>1. heard' = heard \/ heard' = NewHeard
    BY <1>3 DEF FetchArrives, FetchFails, Opens, OpensNothing
  <2>2. HeardTyped'
    BY <2>1, FreshTyped DEF HeardTyped, NewHeard, NoStep
  <2>3. shown' = shown \/ (f.answer \in Status /\ shown' = [shown EXCEPT !.status = f.answer])
    BY <1>3 DEF FetchArrives, FetchFails, SInv, Shapes
  <2> QED BY <2>2, <2>3 DEF ShownTyped
<1> QED
  BY <1>1, <1>2, <1>3
  DEF Next, vars, RowMoves, RowCounts, PollTerminal, PollLive, RelayStops, ConnectionLost,
      StreamEnds, TimerFires, RowRead

\* The values of the row, the relay, the wire and what is shown.
THEOREM StreamTypes == Spec => []TypeOK
<1> DEFINE T == RelayTyped /\ ShownTyped /\ HeardTyped
<1>1. Init => T
  <2> SUFFICES ASSUME Init PROVE T
    OBVIOUS
  <2>1. relay \in {NewRelay, [NewRelay EXCEPT !.pc = "closed"]} /\ heard = NewHeard
    BY DEF Init
  <2>2. RelayTyped
    BY <2>1, FreshTyped DEF RelayTyped
  <2>3. HeardTyped
    BY <2>1, FreshTyped DEF HeardTyped, NewHeard, NoStep
  <2>4. ShownTyped
    BY DEF Init, ShownTyped
  <2> QED BY <2>2, <2>3, <2>4
<1>2. SInv /\ T /\ [Next]_vars => T'
  BY RelayStaysTyped, ClientStaysTyped
<1>3. SInv /\ T => TypeOK
  BY WireOfEvents DEF SInv, Shapes, RelayTyped, ShownTyped, HeardTyped, Cursor, TypeOK
<1> HIDE DEF T
<1> QED BY <1>1, <1>2, <1>3, StreamInvariance, PTL DEF Spec
================================================================================
