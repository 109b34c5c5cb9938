------------------------------ MODULE MCCredential -----------------------------
(***************************************************************************)
(* An instance of Credential for TLC.  The configuration gives the         *)
(* executor as many workers as there are calls that keep one.              *)
(***************************************************************************)
EXTENDS Credential

CONSTANTS r1, r2, r3, p1, arm, metrics

\* Three requests and the preflight's own, at two audiences.
Calls == {r1, r2, r3, p1}
ScopeOfCalls == [c \in Calls |-> IF c \in {r1, p1} THEN arm ELSE metrics]
================================================================================
