---------------------------- MODULE MCConversation ----------------------------
(***************************************************************************)
(* Conversation on a small instance.                                       *)
(***************************************************************************)
EXTENDS Conversation, TLC

Symmetric == Permutations(Turn) \cup Permutations(Act) \cup Permutations(Scope)
===============================================================================
