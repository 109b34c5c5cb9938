-------------------------------- MODULE Feedback -------------------------------
(***************************************************************************)
(* Send feedback: a member's message is saved, then emailed to the team;   *)
(* the administrators email it again for as long as its row does not read  *)
(* "sent".  Every request may die between two of its steps.                *)
(***************************************************************************)
EXTENDS Naturals, FiniteSets

CONSTANTS
  Message,   \* the messages one member sends within an hour
  Limit,     \* FEEDBACK_HOURLY_LIMIT
  Admin,     \* the requests of administrators, repeated
  MaxLosses  \* bound: the messages refused, and the requests that die

\* What the constants may be.
ConstantsFit == Limit \in Nat /\ MaxLosses \in Nat /\ Message \cap Admin = {}

Request == Message \cup Admin

VARIABLES
  row,      \* feedback: each message's emailStatus, or "none" before it is saved
  done,     \* the messages marked done (resolvedAt)
  request,  \* how far each request is, the message it is about, and the answer it got
  mailed,   \* the messages the provider has sent to the team
  losses

vars == <<row, done, request, mailed, losses>>

Idle == [pc |-> "idle"]
Dead == [pc |-> "dead"]

Init ==
  /\ row = [m \in Message |-> "none"]
  /\ done = {}
  /\ request = [q \in Request |-> Idle]
  /\ mailed = {}
  /\ losses = 0

Saved == {m \in Message : row[m] # "none"}

-------------------------------------------------------------------------------
\* submitFeedback reads how many messages of the hour are saved.
Submit(m) ==
  /\ request[m] = Idle /\ row[m] = "none" /\ Cardinality(Saved) < Limit
  /\ request' = [request EXCEPT ![m] = [pc |-> "saving", of |-> m]]
  /\ UNCHANGED <<row, done, mailed, losses>>

\* The insert: pending.
Save(m) ==
  /\ request[m].pc = "saving"
  /\ row' = [row EXCEPT ![m] = "pending"]
  /\ request' = [request EXCEPT ![m] = [pc |-> "emailing", of |-> m]]
  /\ UNCHANGED <<done, mailed, losses>>

\* resendFeedback, which the page offers for a row that does not read "sent".
Resend(a, m) ==
  /\ request[a] = Idle /\ row[m] \in {"pending", "failed"}
  /\ request' = [request EXCEPT ![a] = [pc |-> "emailing", of |-> m]]
  /\ UNCHANGED <<row, done, mailed, losses>>

\* deliver: the provider takes the message and says so.
Mail(q) ==
  /\ request[q].pc = "emailing"
  /\ mailed' = mailed \cup {request[q].of}
  /\ request' = [request EXCEPT ![q].pc = "sent"]
  /\ UNCHANGED <<row, done, losses>>

\* It refuses, cannot be reached, or its answer is lost; or email is not configured.
MailFails(q) ==
  /\ request[q].pc = "emailing" /\ losses < MaxLosses
  /\ \E taken \in BOOLEAN : mailed' = IF taken THEN mailed \cup {request[q].of} ELSE mailed
  /\ request' = [request EXCEPT ![q].pc = "failed"]
  /\ losses' = losses + 1
  /\ UNCHANGED <<row, done>>

\* A slip: the row reads "sent" whatever the answer was.
NoteOptimistically(q) ==
  /\ request[q].pc \in {"sent", "failed"}
  /\ row' = [row EXCEPT ![request[q].of] = "sent"]
  /\ request' = [request EXCEPT ![q] = Idle]
  /\ UNCHANGED <<done, mailed, losses>>

\* The update of emailStatus, by the row's id alone.
Note(q) ==
  /\ request[q].pc \in {"sent", "failed"}
  /\ row' = [row EXCEPT ![request[q].of] = request[q].pc]
  /\ request' = [request EXCEPT ![q] = Idle]
  /\ UNCHANGED <<done, mailed, losses>>

\* setFeedbackDone.
MarkDone(m) ==
  /\ row[m] # "none"
  /\ done' = IF m \in done THEN done \ {m} ELSE done \cup {m}
  /\ UNCHANGED <<row, request, mailed, losses>>

\* A member's request that dies is not repeated: its dialog may only submit a new message.
Die(q) ==
  /\ request[q].pc \notin {"idle", "dead"} /\ losses < MaxLosses
  /\ request' = [request EXCEPT ![q] = IF q \in Admin THEN Idle ELSE Dead]
  /\ losses' = losses + 1
  /\ UNCHANGED <<row, done, mailed>>

Next ==
  \/ \E m \in Message : Submit(m) \/ Save(m) \/ MarkDone(m) \/ \E a \in Admin : Resend(a, m)
  \/ \E q \in Request : Mail(q) \/ MailFails(q) \/ Note(q) \/ Die(q)

(***************************************************************************)
(* A request that is running goes on, and somebody opens the page and      *)
(* presses "Send again" on what was not sent.                              *)
(***************************************************************************)
Fairness ==
  /\ \A m \in Message : WF_vars(Save(m)) /\ WF_vars(\E a \in Admin : Resend(a, m))
  /\ \A q \in Request : WF_vars(Mail(q) \/ MailFails(q) \/ Note(q))

Spec == Init /\ [][Next]_vars /\ Fairness

-------------------------------------------------------------------------------
\* The values the variables take; only a saved message is done.
TypeOK ==
  /\ row \in [Message -> {"none", "pending", "sent", "failed"}]
  /\ done \subseteq Saved /\ mailed \subseteq Message
  /\ \A q \in Request :
       /\ request[q].pc \in {"idle", "saving", "emailing", "sent", "failed", "dead"}
       /\ request[q] \notin {Idle, Dead} => request[q].of \in Message
  /\ losses \in 0 .. MaxLosses

\* "The row is written before the email goes out, so a refusal ... loses nothing"
\* (feedback/store.ts): what was mailed is saved, and what reads "sent" was mailed.
NothingUnsaved ==
  /\ mailed \subseteq Saved
  /\ \A m \in Message : row[m] = "sent" => m \in mailed

\* What the rows say of feedback is true: which of it was mailed (feedback/store.ts).
FeedbackIsTrue == TypeOK /\ NothingUnsaved

\* "The Admin page can send it again": once the provider refuses no more and no request dies,
\* every saved message has reached the team, and its row comes to say so for good.
SavedReachesTheTeam ==
  \A m \in Message : (row[m] # "none") ~> [](m \in mailed /\ row[m] = "sent")

\* "One account sends at most the hourly limit" (feedback.integration.test.ts).
HourlyLimit == Cardinality(Saved) <= Limit

\* Refuted (README, section 11): a message that reads "sent" stays sent.
SentStays == [][\A m \in Message : row[m] = "sent" => row'[m] = "sent"]_vars
================================================================================
