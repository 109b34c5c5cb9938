----------------------------- MODULE MCSubmission -----------------------------
(***************************************************************************)
(* Submission on a small instance: two months of two units, and two        *)
(* presets of one customer that ask for the same scope.                    *)
(***************************************************************************)
EXTENDS Submission

MCScopeOf == [f \in Preset |-> "compute"]
===============================================================================
