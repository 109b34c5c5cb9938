------------------------------- MODULE RunEvents -------------------------------
(***************************************************************************)
(* What one connection to a run's event stream may say, in the order it    *)
(* says it: a step is opened and ended, progress belongs to the open step  *)
(* and never falls, the outcome comes once no step is open, done is last.  *)
(* The connection may be lost and another one opened at any point.         *)
(***************************************************************************)
EXTENDS RunStates, Integers

CONSTANT MaxCount

VARIABLES
  open,   \* the step that is open, or NoStep
  last,   \* the rank of the last step opened on this connection, -1 if none
  said,   \* the last count of the open step's progress
  ended   \* "no", "outcome" or "done"

vars == <<open, last, said, ended>>

NoStep == "none"

\* The order a run passes its statuses in; both terminal ones are last.
Rank == [s \in Status |->
  CASE s = "queued" -> 0 [] s = "claimed" -> 1 [] s = "collecting" -> 2
    [] s = "compiling" -> 3 [] s = "rendering" -> 4 [] s = "verifying" -> 5
    [] OTHER -> 6]

Init == open = NoStep /\ last = -1 /\ said = 0 /\ ended = "no"

Connect == open' = NoStep /\ last' = -1 /\ said' = 0 /\ ended' = "no"

Start(s) ==
  /\ ended = "no" /\ open = NoStep /\ Rank[s] > last
  /\ open' = s /\ last' = Rank[s] /\ said' = 0
  /\ UNCHANGED ended

End ==
  /\ open # NoStep
  /\ open' = NoStep
  /\ UNCHANGED <<last, said, ended>>

Progress(n) ==
  /\ open # NoStep /\ n >= said
  /\ said' = n
  /\ UNCHANGED <<open, last, ended>>

Outcome ==
  /\ open = NoStep /\ ended = "no"
  /\ ended' = "outcome"
  /\ UNCHANGED <<open, last, said>>

Done ==
  /\ ended = "outcome"
  /\ ended' = "done"
  /\ UNCHANGED <<open, last, said>>

Next ==
  \/ Connect \/ End \/ Outcome \/ Done
  \/ \E s \in LiveStatus : Start(s)
  \/ \E n \in 0 .. MaxCount : Progress(n)

Spec == Init /\ [][Next]_vars
================================================================================
