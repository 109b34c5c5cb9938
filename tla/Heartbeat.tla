------------------------------- MODULE Heartbeat -------------------------------
(***************************************************************************)
(* merge_with_heartbeat: a pump drains the pipeline's events into a queue, *)
(* a ticker puts a beat there each interval, and a consumer yields what it *)
(* takes to the client.  The three are tasks of one event loop: a task     *)
(* that is ready runs some time later, at most Lag, and to its next await. *)
(* The clock is monotonic; what a beat says is left out.                   *)
(***************************************************************************)
EXTENDS Integers, Sequences

CONSTANTS
  Interval,    \* HEARTBEAT_INTERVAL_S
  MaxCatchUp,  \* MAX_CATCH_UP_TICKS
  Lag,         \* how long a task that is ready waits for its turn
  MaxEvents,   \* bound: events of the pipeline
  MaxTime      \* bound: the clock

\* What the constants may be.
ConstantsFit ==
  /\ Interval \in Nat \ {0} /\ MaxCatchUp \in Nat \ {0} /\ Lag \in Nat
  /\ MaxEvents \in Nat /\ MaxTime \in Nat

VARIABLES
  now,
  pump,      \* whether it runs, what the pipeline yielded, and the failure it keeps
  ticker,    \* where it is, its next deadline, its turn, and the beats it catches up
  queue,
  consumer,  \* where it is, when it was asked and since when it has had an item
  given      \* the pipeline's events yielded so far

vars == <<now, pump, ticker, queue, consumer, given>>

Event(n) == [type |-> "event", n |-> n]
DoneEvent(n) == [type |-> "done", n |-> n]
Beat == [type |-> "heartbeat", n |-> 0]
Exhausted == [type |-> "exhausted", n |-> 0]

Init ==
  /\ now = 0
  /\ pump = [pc |-> "running", yielded |-> 0, failure |-> FALSE]
  /\ ticker = [pc |-> "turn", due |-> Interval, ready |-> 0, caught |-> 0]
  /\ queue = <<>>
  /\ consumer = [pc |-> "getting", asked |-> 0, since |-> 0]
  /\ given = 0

\* put_nowait: an item on an empty queue readies the consumer.
Put(item) ==
  /\ queue' = Append(queue, item)
  /\ consumer' = IF queue = <<>> THEN [consumer EXCEPT !.since = now] ELSE consumer

\* The clock passes while everyone waits, or some task is slow to leave the loop.
TimePasses ==
  /\ now < MaxTime
  /\ ticker.pc \in {"turn", "sleeping"} => now < ticker.ready + Lag
  /\ consumer.pc = "getting" /\ queue # <<>> => now < consumer.since + Lag
  /\ now' = now + 1
  /\ UNCHANGED <<pump, ticker, queue, consumer, given>>

-------------------------------------------------------------------------------
(***************************************************************************)
(* The pump.                                                               *)
(***************************************************************************)

PumpEvent(item) ==
  /\ pump.pc = "running" /\ pump.yielded < MaxEvents
  /\ item \in {Event(pump.yielded + 1), DoneEvent(pump.yielded + 1)}
  /\ Put(item)
  /\ pump' = [pump EXCEPT !.yielded = @ + 1]
  /\ UNCHANGED <<now, ticker, given>>

\* A slip: a failure is told before what was yielded earlier.
PumpEndsAtOnce(failure) ==
  /\ pump.pc = "running"
  /\ queue' = IF failure THEN <<Exhausted>> ELSE Append(queue, Exhausted)
  /\ consumer' = IF queue = <<>> THEN [consumer EXCEPT !.since = now] ELSE consumer
  /\ pump' = [pump EXCEPT !.pc = "ended", !.failure = failure]
  /\ UNCHANGED <<now, ticker, given>>

\* The pipeline is exhausted, or raises: the failure is kept for the end.
PumpEnds(failure) ==
  /\ pump.pc = "running"
  /\ Put(Exhausted)
  /\ pump' = [pump EXCEPT !.pc = "ended", !.failure = failure]
  /\ UNCHANGED <<now, ticker, given>>

-------------------------------------------------------------------------------
(***************************************************************************)
(* The ticker.                                                             *)
(***************************************************************************)

\* A slip: the interval is slept from now, not to the deadline.
WakeAfterInterval == now + Interval

\* The end of sleep(next_due - now).
WakeAt == ticker.due

\* One turn of the ticker: sleep until the deadline, or beat.  After MaxCatchUp
\* beats in a row it gives up on the intervals it has missed.
TickerTurn ==
  /\ ticker.pc = "turn"
  /\ \/ /\ now < ticker.due
        /\ ticker' = [ticker EXCEPT !.pc = "sleeping", !.ready = WakeAt, !.caught = 0]
        /\ UNCHANGED <<queue, consumer>>
     \/ /\ now >= ticker.due
        /\ Put(Beat)
        /\ LET due == ticker.due + Interval
               givesUp == ticker.caught + 1 >= MaxCatchUp /\ due <= now
           IN  ticker' = [pc |-> "turn", ready |-> now,
                          due |-> IF givesUp THEN now + Interval ELSE due,
                          caught |-> IF givesUp THEN 0 ELSE ticker.caught + 1]
  /\ UNCHANGED <<now, pump, given>>

\* The sleep is over; the turn comes after one more round of the loop.
TickerWakes ==
  /\ ticker.pc = "sleeping" /\ now >= ticker.ready
  /\ ticker' = [ticker EXCEPT !.pc = "turn", !.ready = now]
  /\ UNCHANGED <<now, pump, queue, consumer, given>>

\* The clock or the sleep raises: logged, and the run goes on without beats.
TickerFails ==
  /\ ticker.pc \in {"turn", "sleeping"}
  /\ ticker' = [ticker EXCEPT !.pc = "stopped"]
  /\ UNCHANGED <<now, pump, queue, consumer, given>>

-------------------------------------------------------------------------------
(***************************************************************************)
(* The consumer and its client.                                            *)
(***************************************************************************)

\* Both tasks are cancelled, and a failure of the pipeline is raised.
Close ==
  /\ consumer' = [consumer EXCEPT !.pc = IF pump.failure THEN "raised" ELSE "closed"]
  /\ ticker' = [ticker EXCEPT !.pc = "stopped"]
  /\ pump' = [pump EXCEPT !.pc = "ended"]

Take ==
  /\ consumer.pc = "getting" /\ queue # <<>>
  /\ queue' = Tail(queue)
  /\ LET item == Head(queue) IN
       \/ /\ item = Exhausted
          /\ Close /\ UNCHANGED given
       \/ /\ item # Exhausted
          /\ consumer' = [consumer EXCEPT
               !.pc = IF item.type = "done" THEN "yielded_done" ELSE "yielded"]
          /\ given' = IF item = Beat THEN given ELSE item.n
          /\ UNCHANGED <<pump, ticker>>
  /\ UNCHANGED now

\* The client asks for more: of the queue, unless it was given done.
ClientAsks ==
  /\ \/ /\ consumer.pc = "yielded"
        /\ consumer' = [pc |-> "getting", asked |-> now, since |-> now]
        /\ UNCHANGED <<pump, ticker>>
     \/ /\ consumer.pc = "yielded_done"
        /\ Close
  /\ UNCHANGED <<now, queue, given>>

\* The client goes away at a yield, or its task is cancelled while it waits: no
\* failure is raised to it.
ClientLeaves ==
  /\ consumer.pc \in {"getting", "yielded", "yielded_done"}
  /\ consumer' = [consumer EXCEPT !.pc = "left"]
  /\ ticker' = [ticker EXCEPT !.pc = "stopped"]
  /\ pump' = [pump EXCEPT !.pc = "ended"]
  /\ UNCHANGED <<now, queue, given>>

-------------------------------------------------------------------------------
Next ==
  \/ TimePasses
  \/ \E item \in {Event(n) : n \in 1 .. MaxEvents} \cup {DoneEvent(n) : n \in 1 .. MaxEvents} :
       PumpEvent(item)
  \/ \E failure \in BOOLEAN : PumpEnds(failure)
  \/ TickerTurn \/ TickerWakes \/ TickerFails
  \/ Take \/ ClientAsks \/ ClientLeaves

Spec == Init /\ [][Next]_vars

-------------------------------------------------------------------------------
ItemType == [type : {"event", "done"}, n : 1 .. MaxEvents] \cup {Beat, Exhausted}

\* The values the variables take.
TypeOK ==
  /\ now \in 0 .. MaxTime
  /\ pump \in [pc : {"running", "ended"}, yielded : 0 .. MaxEvents, failure : BOOLEAN]
  /\ ticker \in [pc : {"turn", "sleeping", "stopped"}, due : 0 .. MaxTime + Interval,
                 ready : 0 .. MaxTime + Interval, caught : Nat]
  /\ queue \in Seq(ItemType)
  /\ consumer \in [pc : {"getting", "yielded", "yielded_done", "closed", "raised", "left"},
                   asked : 0 .. MaxTime, since : 0 .. MaxTime]
  /\ given \in 0 .. MaxEvents

\* As long as the ticker lives a client that waits is told something within the
\* interval and three turns of the loop: its waking, its turn and the consumer's.
\* It bounds the gap the relay's window is computed from (MAX_EVENT_GAP_S).
ToldInTime ==
  consumer.pc = "getting" /\ ticker.pc # "stopped" =>
    now - consumer.asked <= Interval + 3 * Lag

\* The client gets the pipeline's events one by one, none after done, and all
\* that were yielded before the pipeline ended or raised when the merge closes
\* without a done ("re-raised after the queue has drained").
ForwardedInOrder ==
  [][/\ given' # given => given' = given + 1 /\ consumer.pc = "getting"
     /\ consumer.pc = "getting" /\ consumer'.pc \in {"closed", "raised"} =>
          given = pump.yielded]_vars
================================================================================
