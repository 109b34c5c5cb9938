------------------------------ MODULE PresetEditor -----------------------------
(***************************************************************************)
(* One preset (a report template) edited in several browser tabs.  A tab   *)
(* saves the draft a moment after the last change, with the revision it    *)
(* was based on; publishing inserts the next version.  Meanwhile the       *)
(* preset may be deleted.                                                  *)
(*                                                                         *)
(* A definition is abstracted to the edits it has taken in.                *)
(***************************************************************************)
EXTENDS Integers, Sequences, FiniteSets

CONSTANTS
  Tab,            \* one opening of the builder each: a reload is another tab
  Call,           \* the calls of save() a tab may have unfinished
  MaxEdits,       \* edits of a tab
  MaxPublishes,   \* publications of a tab
  None

ASSUME ConstantsAssumption ==
  MaxEdits \in Nat /\ MaxPublishes \in Nat /\ None \notin Call

VARIABLES
  row,    \* report_templates and its report_template_versions
  tab,    \* the builder, use-autosave and the top bar in each tab
  call,   \* the calls of save() of each tab
  post    \* the publication of each tab

vars == <<row, tab, call, post>>

Edits == Tab \X (1..MaxEdits)

NoCall == [pc |-> "free", on |-> None, publish |-> FALSE, defn |-> {}, rev |-> 0,
           told |-> FALSE]
NoPost == [pc |-> "idle", defn |-> {}, rev |-> 0]

Init ==
  /\ row = [draft |-> {}, rev |-> 0, versions |-> <<>>, current |-> 0, gone |-> FALSE]
  /\ tab = [t \in Tab |-> [pc |-> "new", defn |-> {}, rev |-> 0, told |-> FALSE,
                           timer |-> FALSE, inFlight |-> None, failed |-> FALSE,
                           edits |-> 0, publishes |-> 0]]
  /\ call = [t \in Tab |-> [c \in Call |-> NoCall]]
  /\ post = [t \in Tab |-> NoPost]

-------------------------------------------------------------------------------
(***************************************************************************)
(* The tab.                                                                *)
(***************************************************************************)

\* The page reads the draft and its revision from one row.
Open(t) ==
  /\ tab[t].pc = "new" /\ ~row.gone
  /\ tab' = [tab EXCEPT ![t].pc = "open", ![t].defn = row.draft, ![t].rev = row.rev]
  /\ UNCHANGED <<row, call, post>>

\* Every change sets the timer again.
Edit(t) ==
  /\ tab[t].pc = "open" /\ tab[t].edits < MaxEdits
  /\ tab' = [tab EXCEPT ![t].defn = @ \cup {<<t, tab[t].edits + 1>>},
                        ![t].edits = @ + 1, ![t].timer = TRUE]
  /\ UNCHANGED <<row, call, post>>

\* The request takes the definition and the revision the tab holds when it leaves.
Request(t, publish) ==
  [pc |-> "flies", on |-> None, publish |-> publish, defn |-> tab[t].defn,
   rev |-> tab[t].rev, told |-> tab[t].told]

\* save(): the timer is cleared; a call that finds another in flight waits for it.
Save(t, c, publish) ==
  /\ call[t][c].pc = "free"
  /\ IF tab[t].inFlight = None
     THEN /\ call' = [call EXCEPT ![t][c] = Request(t, publish)]
          /\ tab' = [tab EXCEPT ![t].timer = FALSE, ![t].inFlight = c,
                                ![t].failed = FALSE,
                                ![t].publishes = @ + (IF publish THEN 1 ELSE 0)]
     ELSE /\ call' = [call EXCEPT ![t][c] =
                        [NoCall EXCEPT !.pc = "waits", !.on = tab[t].inFlight,
                                       !.publish = publish]]
          /\ tab' = [tab EXCEPT ![t].timer = FALSE,
                                ![t].publishes = @ + (IF publish THEN 1 ELSE 0)]

TimerFires(t) ==
  /\ tab[t].pc = "open" /\ tab[t].timer
  /\ \E c \in Call : Save(t, c, FALSE)
  /\ UNCHANGED <<row, post>>

\* publish() saves first; its button is disabled until it ends.
Publish(t) ==
  /\ tab[t].pc = "open" /\ post[t].pc = "idle" /\ tab[t].publishes < MaxPublishes
  /\ \E c \in Call : Save(t, c, TRUE)
  /\ post' = [post EXCEPT ![t].pc = "saving"]
  /\ UNCHANGED row

Waiting(t, c) == {d \in Call : call[t][d].pc = "waits" /\ call[t][d].on = c}

\* What the tab holds once the answer to a call is in.
Heard(t, c) ==
  IF call[t][c].pc = "saved"
  THEN [tab[t] EXCEPT !.rev = call[t][c].rev, !.told = FALSE, !.failed = FALSE]
  ELSE [tab[t] EXCEPT !.failed = TRUE]

\* The answer to a call, or the news that there is none; no call is in flight any
\* more, even when another is.  Before anything else runs in the tab, every call
\* that waited for this one sends, and the publication it was made for sends too,
\* or gives up.
Answer(t, c) ==
  LET heard == Heard(t, c)
      sends(publish) == [pc |-> "flies", on |-> None, publish |-> publish,
                         defn |-> heard.defn, rev |-> heard.rev, told |-> heard.told]
  IN
  /\ tab[t].pc = "open" /\ call[t][c].pc \in {"saved", "refused"}
  /\ call' = [call EXCEPT ![t] = [d \in Call |->
       IF d = c THEN NoCall
       ELSE IF d \in Waiting(t, c) THEN sends(call[t][d].publish) ELSE call[t][d]]]
  /\ IF Waiting(t, c) = {} THEN tab' = [tab EXCEPT ![t] = [heard EXCEPT !.inFlight = None]]
     ELSE \E last \in Waiting(t, c) :
            tab' = [tab EXCEPT ![t] = [heard EXCEPT !.inFlight = last, !.failed = FALSE]]
  /\ post' = IF ~call[t][c].publish THEN post
             ELSE [post EXCEPT ![t] = IF call[t][c].pc = "saved"
               THEN [pc |-> "flies", defn |-> heard.defn, rev |-> heard.rev] ELSE NoPost]
  /\ UNCHANGED row

\* The revision that comes with a publication replaces the tab's.
PublishAnswer(t) ==
  /\ tab[t].pc = "open" /\ post[t].pc \in {"published", "refused"}
  /\ tab' = IF post[t].pc = "published"
            THEN [tab EXCEPT ![t].rev = post[t].rev, ![t].told = TRUE] ELSE tab
  /\ post' = [post EXCEPT ![t] = NoPost]
  /\ UNCHANGED <<row, call>>

\* Leaving the page: a pending save goes out, if none is in flight.  Nobody is
\* there to hear an answer any more.
Close(t) ==
  /\ tab[t].pc = "open"
  /\ \/ /\ tab[t].timer /\ tab[t].inFlight = None
        /\ \E c \in Call : call[t][c].pc = "free"
                            /\ call' = [call EXCEPT ![t][c] = Request(t, FALSE)]
     \/ call' = call
  /\ tab' = [tab EXCEPT ![t].pc = "closed", ![t].timer = FALSE]
  /\ UNCHANGED <<row, post>>

-------------------------------------------------------------------------------
(***************************************************************************)
(* The server.                                                             *)
(***************************************************************************)

\* A slip: the update names the row by its id and nothing else.
MatchesAny(rev) == ~row.gone

Matches(rev) == ~row.gone /\ row.rev = rev

\* patchTemplate: one update guarded by the revision.
PatchArrives(t, c) ==
  /\ call[t][c].pc = "flies"
  /\ IF Matches(call[t][c].rev)
     THEN /\ row' = [row EXCEPT !.draft = call[t][c].defn, !.rev = @ + 1]
          /\ call' = [call EXCEPT ![t][c].pc = "saved", ![t][c].rev = row.rev + 1]
     ELSE /\ call' = [call EXCEPT ![t][c].pc = "refused"]
          /\ row' = row
  /\ UNCHANGED <<tab, post>>

\* A slip: a version is inserted though nothing changed.
InsertedAlways(defn) ==
  [row EXCEPT !.versions = Append(@, defn), !.current = Len(row.versions) + 1,
              !.rev = @ + 1]

\* attemptInsertVersion: what equals the highest version inserts none and writes
\* nothing.
Inserted(defn) ==
  IF row.versions # <<>> /\ row.versions[Len(row.versions)] = defn THEN row
  ELSE [row EXCEPT !.versions = Append(@, defn), !.current = Len(row.versions) + 1,
                   !.rev = @ + 1]

\* The row is locked for the whole transaction, so two of them never compute the
\* same version.
PostArrives(t) ==
  /\ post[t].pc = "flies"
  /\ IF Matches(post[t].rev)
     THEN row' = Inserted(post[t].defn) /\ post' = [post EXCEPT ![t].pc = "committed"]
     ELSE row' = row /\ post' = [post EXCEPT ![t].pc = "refused"]
  /\ UNCHANGED <<tab, call>>

\* The revision the answer carries is read after the transaction.
PostReads(t) ==
  /\ post[t].pc = "committed"
  /\ post' = [post EXCEPT ![t] = IF row.gone THEN [@ EXCEPT !.pc = "refused"]
                                 ELSE [@ EXCEPT !.pc = "published", !.rev = row.rev]]
  /\ UNCHANGED <<row, tab, call>>

\* A request or its answer is lost: to the tab the same as a refusal.
Lost(t) ==
  /\ \/ \E c \in Call : /\ call[t][c].pc \in {"flies", "saved"}
                        /\ call' = [call EXCEPT ![t][c].pc = "refused"]
                        /\ post' = post
     \/ /\ post[t].pc \in {"flies", "committed", "published"}
        /\ post' = [post EXCEPT ![t].pc = "refused"]
        /\ call' = call
  /\ UNCHANGED <<row, tab>>

\* deleteTemplate: the row and its versions in one transaction; when a run pins one
\* of them, its foreign key refuses all of it and nothing changes.
Delete ==
  /\ ~row.gone
  /\ row' = [row EXCEPT !.gone = TRUE, !.versions = <<>>, !.current = 0, !.draft = {}]
  /\ UNCHANGED <<tab, call, post>>

-------------------------------------------------------------------------------
Next ==
  \/ \E t \in Tab : \/ Open(t) \/ Edit(t) \/ TimerFires(t) \/ Publish(t)
                    \/ PublishAnswer(t) \/ Close(t)
                    \/ PostArrives(t) \/ PostReads(t) \/ Lost(t)
  \/ \E t \in Tab, c \in Call : Answer(t, c) \/ PatchArrives(t, c)
  \/ Delete

Spec == Init /\ [][Next]_vars

-------------------------------------------------------------------------------
TabType == [pc : {"new", "open", "closed"}, defn : SUBSET Edits, rev : Nat,
            told : BOOLEAN, timer : BOOLEAN, inFlight : Call \cup {None},
            failed : BOOLEAN,
            edits : 0..MaxEdits, publishes : 0..MaxPublishes]
CallType == [pc : {"free", "waits", "flies", "saved", "refused"}, on : Call \cup {None},
             publish : BOOLEAN, defn : SUBSET Edits, rev : Nat, told : BOOLEAN]
PostType == [pc : {"idle", "saving", "flies", "committed", "published", "refused"},
             defn : SUBSET Edits, rev : Nat]
RowType == [draft : SUBSET Edits, rev : Nat, versions : Seq(SUBSET Edits),
            current : Nat, gone : BOOLEAN]

\* The values the variables take.
TypeOK ==
  /\ row \in RowType /\ tab \in [Tab -> TabType]
  /\ call \in [Tab -> [Call -> CallType]] /\ post \in [Tab -> PostType]

\* No save removes an edit that its tab has not seen (use-autosave.ts: "an edit
\* made elsewhere is refused rather than overwritten").
EditElsewhereKept == [][row'.gone \/ row.draft \subseteq row'.draft]_vars

\* What the revision does keep, whichever calls race and answers are lost: only a
\* save sent with the revision of a publication, which may be that of somebody
\* else's save, removes an edit its tab has not seen.
OverwrittenOnlyAfterPublishing ==
  [][\/ row'.gone \/ row.draft \subseteq row'.draft
     \/ \E t \in Tab, c \in Call : call[t][c].pc = "flies" /\ call[t][c].told]_vars

\* A publication that changes nothing makes no version, whichever tab sent it and
\* however often (store.ts: "a save that changed nothing creates no version").
VersionsDiffer ==
  \A n \in DOMAIN row.versions : n > 1 => row.versions[n] # row.versions[n - 1]
================================================================================
