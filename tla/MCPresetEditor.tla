---------------------------- MODULE MCPresetEditor ----------------------------
(***************************************************************************)
(* PresetEditor on a small instance.                                       *)
(***************************************************************************)
EXTENDS PresetEditor, TLC

Symmetric == Permutations(Tab) \cup Permutations(Call)
===============================================================================
