------------------------------- MODULE MCReaper -------------------------------
(***************************************************************************)
(* Reaper on a small instance: two runs and two overlapping ticks, with a  *)
(* sweep that takes fewer rows than there are and a claim that takes all.  *)
(***************************************************************************)
EXTENDS Reaper

\* Budgets in clock units: the queue is given longer than a phase, as
\* PHASE_DEADLINE_SECONDS does.
MCBudget == [s \in LiveStatus |-> IF s = "queued" THEN 1 ELSE 0]
===============================================================================
