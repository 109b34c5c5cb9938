---------------------------- MODULE MCRunCallbacks ----------------------------
(***************************************************************************)
(* RunCallbacks on a small instance: one run, pinned or not, whose count   *)
(* has three values (absent, none yet, all).                               *)
(***************************************************************************)
EXTENDS RunCallbacks
===============================================================================
