------------------------------ MODULE RunMachine ------------------------------
(***************************************************************************)
(* What a report run promises whoever reads its row, whoever wrote it: a   *)
(* run enters once, follows DRIVEN, never leaves a terminal status, names  *)
(* an error code exactly while it is failed, and has a deadline for the    *)
(* sweep to find exactly while it is not terminal.  Reaper and             *)
(* RunCallbacks each implement it.                                         *)
(***************************************************************************)
EXTENDS RunStates

CONSTANT Run    \* the rows

VARIABLES
  status,     \* report_runs.status, "absent" before the insert
  errorCode,  \* report_runs.error_code
  armed       \* phase_deadline IS NOT NULL

vars == <<status, errorCode, armed>>

TypeOK ==
  /\ status \in [Run -> Status \cup {"absent"}]
  /\ errorCode \in [Run -> RowErrorCodes \cup {NoCode}]
  /\ armed \in [Run -> BOOLEAN]

\* The account of a row starts before its insert, or once it is claimed.
Init ==
  /\ status \in [Run -> {"absent", "claimed"}]
  /\ errorCode = [r \in Run |-> NoCode]
  /\ armed = [r \in Run |-> status[r] = "claimed"]

\* What one statement may do to the row r.
Stays(r) ==
  /\ status'[r] = status[r]
  /\ errorCode'[r] = errorCode[r]
  /\ armed'[r] = armed[r]

Submitted(r) ==
  /\ status[r] = "absent" /\ status'[r] = "queued"
  /\ errorCode'[r] = errorCode[r]
  /\ armed'[r] = TRUE

Advanced(r) ==
  /\ <<status[r], status'[r]>> \in DRIVEN
  /\ status'[r] # "failed"
  /\ errorCode'[r] = errorCode[r]
  /\ armed'[r] = (status'[r] # "completed")

Failed(r) ==
  /\ <<status[r], "failed">> \in DRIVEN
  /\ status'[r] = "failed"
  /\ errorCode'[r] \in RowErrorCodes
  /\ armed'[r] = FALSE

\* One statement may touch several rows: the sweep and the claim do.
Next ==
  /\ TypeOK'
  /\ \A r \in Run : Stays(r) \/ Submitted(r) \/ Advanced(r) \/ Failed(r)

Spec == Init /\ [][Next]_vars

-------------------------------------------------------------------------------
(***************************************************************************)
(* What follows from the promise, and so holds of every implementation.    *)
(***************************************************************************)

\* A row names an error code exactly while it is failed: what the CHECK
\* report_runs_error_code_ck demands of every write, whoever makes it.
ErrorIffFailed ==
  \A r \in Run : (status[r] = "failed") <=> (errorCode[r] # NoCode)

\* The sweep can find a row exactly while somebody still has to end it.
ArmedIffLive == \A r \in Run : armed[r] <=> status[r] \in LiveStatus
===============================================================================
