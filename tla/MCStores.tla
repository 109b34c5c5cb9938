-------------------------------- MODULE MCStores -------------------------------
(***************************************************************************)
(* The stores of the app, where a behaviour is about one of them and the   *)
(* others stay as they start, since together they would only multiply      *)
(* their states.  "verify" is the connector again, with constants of its   *)
(* own.                                                                    *)
(***************************************************************************)
EXTENDS Stores, Naturals

CONSTANTS Verifier, MaxGrants, MaxRefusals  \* of "verify"

V == INSTANCE Connector WITH None <- Null, row <- connector, Writer <- Verifier, Lister <- {},
       MaxClock <- 0, MaxChanges <- MaxGrants, MaxFailures <- MaxRefusals, Distinct <- FALSE

ASSUME
  /\ M!ConstantsFit /\ D!ConstantsFit /\ F!ConstantsFit
  /\ C!ConstantsFit /\ V!ConstantsFit /\ S!ConstantsFit

-------------------------------------------------------------------------------
teamVars == <<role, invitation, teamLock, tx, admitted>>
deliveryVars == <<contacts, adding, sending, mailedTo, deliveries, visit, visits>>
feedbackVars == <<feedback, done, request, mailed, losses>>
connectorVars ==
  <<provider, connector, writer, granted, passed, lister, cache, clock, changes, failures>>
collectionVars == <<collections, job, runtime, readable>>
vars == <<part, teamVars, deliveryVars, feedbackVars, connectorVars, collectionVars>>

Init ==
  /\ part \in {"team", "delivery", "feedback", "connector", "verify", "collections"}
  /\ M!Init /\ D!Init /\ F!Init /\ S!Init
  /\ IF part = "verify" THEN V!Init ELSE C!Init
  /\ part = "delivery" \/ contacts = {}
  /\ part \in {"connector", "verify"} \/ (provider = "azure" /\ ~connector.verified)
  /\ part = "collections" \/ readable

Next ==
  \/ /\ part = "team" /\ M!Next
     /\ UNCHANGED <<part, deliveryVars, feedbackVars, connectorVars, collectionVars>>
  \/ /\ part = "delivery" /\ D!Next
     /\ UNCHANGED <<part, teamVars, feedbackVars, connectorVars, collectionVars>>
  \/ /\ part = "feedback" /\ F!Next
     /\ UNCHANGED <<part, teamVars, deliveryVars, connectorVars, collectionVars>>
  \/ /\ part = "connector" /\ C!Next
     /\ UNCHANGED <<part, teamVars, deliveryVars, feedbackVars, collectionVars>>
  \/ /\ part = "verify" /\ V!Next
     /\ UNCHANGED <<part, teamVars, deliveryVars, feedbackVars, collectionVars>>
  \/ /\ part = "collections" /\ S!Next
     /\ UNCHANGED <<part, teamVars, deliveryVars, feedbackVars, connectorVars>>

\* The fairness of each module, for its own behaviours.
Fairness ==
  /\ \A m \in Message :
       /\ WF_feedbackVars(part = "feedback" /\ F!Save(m))
       /\ WF_feedbackVars(part = "feedback" /\ \E a \in Admin : F!Resend(a, m))
  /\ \A q \in Message \cup Admin :
       WF_feedbackVars(part = "feedback" /\ (F!Mail(q) \/ F!MailFails(q) \/ F!Note(q)))
  /\ \A w \in Verifier :
       /\ WF_connectorVars(part = "verify" /\ (V!Answer(w) \/ V!Record(w)))
       /\ WF_connectorVars(part = "verify" /\ connector.status = "pending" /\ V!Ask(w))
  /\ \A j \in Job : WF_collectionVars(part = "collections" /\ S!Own(j))

Spec == Init /\ [][Next]_vars /\ Fairness

-------------------------------------------------------------------------------
\* Saved feedback comes to be mailed, and its row to say so (feedback/store.ts).
SavedReachesTheTeam == F!SavedReachesTheTeam

\* Once the role stays granted the connector is at last active for good (verify/route.ts).
FixedRoleActivates == part = "verify" => V!FixedRoleActivates

\* A running row of a request that lives comes to its end, unless the runtime leaves it waiting
\* for the invocation or the release of its stream (scans/execute.ts).
RunningEnds == S!RunningEnds

\* Refuted (README, section 11).
AtMostMaxContacts == D!AtMostMaxContacts
MailedIsRecorded == D!MailedIsRecorded
FailedReachedNobody == D!FailedReachedNobody
FirstOpeningStays == D!FirstOpeningStays
HourlyLimit == F!HourlyLimit
SentStays == F!SentStays
LatestFinishes == S!LatestFinishes
NeverLeftRunning == S!NeverLeftRunning
================================================================================
