------------------------------ MODULE RunStates ------------------------------
(***************************************************************************)
(* The vocabulary of report_runs.status shared by every module about a     *)
(* run: the statuses, the DRIVEN table of lib/runs/state.ts, the targets a *)
(* progress callback may present, and who may write which error code.      *)
(***************************************************************************)

\* The phases that carry a deadline budget, and the two that do not.
LiveStatus == {"queued", "claimed", "collecting", "compiling", "rendering",
               "verifying"}
Terminal == {"completed", "failed"}
Status == LiveStatus \cup Terminal

\* DRIVEN, as a set of edges.  No edge leaves a terminal status.
DRIVEN ==
  {<<"queued", "claimed">>, <<"queued", "failed">>,
   <<"claimed", "collecting">>, <<"claimed", "failed">>,
   <<"collecting", "compiling">>, <<"collecting", "completed">>,
   <<"collecting", "failed">>,
   <<"compiling", "rendering">>, <<"compiling", "failed">>,
   <<"rendering", "verifying">>, <<"rendering", "failed">>,
   <<"verifying", "completed">>, <<"verifying", "failed">>}

Driven(s) == {t \in Status : <<s, t>> \in DRIVEN}

\* acceptedTargets: a row accepts its own status again (a refresh), the
\* statuses it drives to, and nothing at all once it is terminal.
AcceptedTargets(s) == IF s \in Terminal THEN {} ELSE {s} \cup Driven(s)

\* AGENT_PHASES: queued and claimed are written by the app alone.
AgentPhases == {"collecting", "compiling", "rendering", "verifying",
                "completed", "failed"}

\* Error codes by writer.  The codes the agent presents are one member: no
\* transition tells them apart.
TimeoutCode == "TIMEOUT"
UnreadableCode == "SECRET_UNREADABLE"
AppWrittenCodes == {TimeoutCode, UnreadableCode}
AgentErrorCodes == {"SCOPE_UNVERIFIED", "AUTH_EXPIRED", "TEMPLATE_INVALID",
                    "AGENT_FAILURE"}
RowErrorCodes == AppWrittenCodes \cup AgentErrorCodes
NoCode == "none"
==============================================================================
