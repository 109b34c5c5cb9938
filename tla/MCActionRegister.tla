--------------------------- MODULE MCActionRegister ---------------------------
(***************************************************************************)
(* ActionRegister on a small instance.                                     *)
(***************************************************************************)
EXTENDS ActionRegister, TLC

Symmetric == Permutations(Run) \cup Permutations(Key)
===============================================================================
