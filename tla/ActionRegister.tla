---------------------------- MODULE ActionRegister ----------------------------
(***************************************************************************)
(* One connector's action register.  Each verified completion syncs the    *)
(* findings of its run into the items in one transaction, while other      *)
(* completions do the same and people edit the items.  Postgres runs the   *)
(* transactions at READ COMMITTED: a statement sees what has committed,    *)
(* and the row it changes stays locked until its transaction ends.         *)
(***************************************************************************)
EXTENDS Integers, Sequences, FiniteSets

CONSTANTS
  Key,       \* findings a run may make
  Run,       \* verified completions
  Person,    \* edits
  None

ASSUME NoneAssumption == None \notin Run

VARIABLES
  verdict,   \* what each run says of each key: its actions.json
  item,      \* action_items as committed
  lock,      \* the transaction that holds a row or its unique key
  sync,      \* syncActionRegister of each run, and the others it overlapped
  edit,      \* updateActionItem of each person
  log        \* the runs whose sync has committed, in order

vars == <<verdict, item, lock, sync, edit, log>>

Absent == [status |-> "absent", first |-> None, seen |-> None, cited |-> None]
EditableStatus == {"open", "accepted", "wont_do"}

NoSync == [pc |-> "ready", read |-> [k \in Key |-> "absent"], done |-> {},
           rows |-> [k \in Key |-> Absent], met |-> {}]
NoEdit == [pc |-> "idle", key |-> None, to |-> "open"]

\* A key is found, checked and found clear (an advisor finding when the advisor
\* answered, any other when it is listed), or not checked.
Init ==
  /\ verdict \in [Run -> [Key -> {"found", "clear", "unchecked"}]]
  /\ item = [k \in Key |-> Absent]
  /\ lock = [k \in Key |-> None]
  /\ sync = [r \in Run |-> NoSync]
  /\ edit = [p \in Person |-> NoEdit]
  /\ log = <<>>

-------------------------------------------------------------------------------
(***************************************************************************)
(* syncActionRegister.                                                     *)
(***************************************************************************)

Syncing == {r \in Run : sync[r].pc = "syncing"}

\* A slip: whatever a run does not find is resolved, checked or not.
PlanUnchecked(r, k, status) ==
  IF verdict[r][k] = "found" THEN IF status = "absent" THEN "add" ELSE "see"
  ELSE IF status \notin {"absent", "resolved"} THEN "resolve" ELSE "leave"

\* planSync, for one key.
Plan(r, k, status) ==
  IF verdict[r][k] = "found" THEN IF status = "absent" THEN "add" ELSE "see"
  ELSE IF verdict[r][k] = "clear" /\ status \notin {"absent", "resolved"}
       THEN "resolve" ELSE "leave"

Planned(r, what) == {k \in Key \ sync[r].done : Plan(r, k, sync[r].read[k]) = what}

\* The inserts come first, then the updates of what is seen again, then those of
\* what is resolved.
Upcoming(r) ==
  IF Planned(r, "add") # {} THEN Planned(r, "add")
  ELSE IF Planned(r, "see") # {} THEN Planned(r, "see")
  ELSE Planned(r, "resolve")

\* The artifact cannot be read or parsed, or the instance dies before the sync:
\* nothing runs it again.
Skip(r) ==
  /\ sync[r].pc = "ready"
  /\ sync' = [sync EXCEPT ![r].pc = "failed"]
  /\ UNCHANGED <<verdict, item, lock, edit, log>>

\* The transaction begins by reading the connector's items.
Read(r) ==
  /\ sync[r].pc = "ready"
  /\ sync' = [q \in Run |->
       IF q = r THEN [NoSync EXCEPT !.pc = "syncing", !.met = Syncing,
                                    !.read = [k \in Key |-> item[k].status]]
       ELSE IF q \in Syncing THEN [sync[q] EXCEPT !.met = @ \cup {r}] ELSE sync[q]]
  /\ UNCHANGED <<verdict, item, lock, edit, log>>

Added(r) == [status |-> "open", first |-> r, seen |-> r, cited |-> None]

\* A slip: seen again, but a resolved item stays resolved.
SeenOnly(r, k) == [item[k] EXCEPT !.seen = r]

\* Seen again: the status read, not the one stored, decides whether it reopens.
Seen(r, k) ==
  IF sync[r].read[k] = "resolved"
  THEN [item[k] EXCEPT !.seen = r, !.status = "open", !.cited = None]
  ELSE [item[k] EXCEPT !.seen = r]

Resolved(r, k) == [item[k] EXCEPT !.status = "resolved", !.cited = r]

\* One row of the statement that is running, once nobody else holds it.
Write(r, k) ==
  /\ sync[r].pc = "syncing" /\ k \in Upcoming(r) /\ lock[k] = None
  /\ LET what == Plan(r, k, sync[r].read[k])
     IN  /\ what = "add" => item[k] = Absent
         /\ sync' = [sync EXCEPT ![r].done = @ \cup {k},
              ![r].rows[k] = CASE what = "add" -> Added(r)
                               [] what = "see" -> Seen(r, k)
                               [] OTHER -> Resolved(r, k)]
  /\ lock' = [lock EXCEPT ![k] = r]
  /\ UNCHANGED <<verdict, item, edit, log>>

Released(r) == [k \in Key |-> IF lock[k] = r THEN None ELSE lock[k]]

Commit(r) ==
  /\ sync[r].pc = "syncing" /\ Upcoming(r) = {}
  /\ item' = [k \in Key |-> IF k \in sync[r].done THEN sync[r].rows[k] ELSE item[k]]
  /\ lock' = Released(r)
  /\ sync' = [sync EXCEPT ![r].pc = "committed"]
  /\ log' = Append(log, r)
  /\ UNCHANGED <<verdict, edit>>

\* Rolled back: a key inserted by another transaction meanwhile, a deadlock, a
\* lost connection.  The error is logged and the completion stands.
Fail(r) ==
  /\ sync[r].pc = "syncing"
  /\ lock' = Released(r)
  /\ sync' = [sync EXCEPT ![r].pc = "failed"]
  /\ UNCHANGED <<verdict, item, edit, log>>

-------------------------------------------------------------------------------
(***************************************************************************)
(* updateActionItem.                                                       *)
(***************************************************************************)

\* The row is read; a resolved one is refused.
EditRead(p, k, to) ==
  /\ edit[p].pc = "idle"
  /\ item[k].status \in EditableStatus
  /\ edit' = [edit EXCEPT ![p] = [pc |-> "read", key |-> k, to |-> to]]
  /\ UNCHANGED <<verdict, item, lock, sync, log>>

\* The update names the row by its id and nothing else.
EditWrite(p) ==
  /\ edit[p].pc = "read" /\ lock[edit[p].key] = None
  /\ item' = [item EXCEPT ![edit[p].key].status = edit[p].to]
  /\ edit' = [edit EXCEPT ![p].pc = "done"]
  /\ UNCHANGED <<verdict, lock, sync, log>>

Next ==
  \/ \E r \in Run : Skip(r) \/ Read(r) \/ Commit(r) \/ Fail(r)
  \/ \E r \in Run, k \in Key : Write(r, k)
  \/ \E p \in Person, k \in Key, to \in EditableStatus : EditRead(p, k, to)
  \/ \E p \in Person : EditWrite(p)

Spec == Init /\ [][Next]_vars

-------------------------------------------------------------------------------
ItemStatus == EditableStatus \cup {"absent", "resolved"}
ItemType == [status : ItemStatus, first : Run \cup {None}, seen : Run \cup {None},
             cited : Run \cup {None}]

SyncType == [pc : {"ready", "syncing", "committed", "failed"},
             read : [Key -> ItemStatus], done : SUBSET Key, rows : [Key -> ItemType],
             met : SUBSET Run]
EditType == [pc : {"idle", "read", "done"}, key : Key \cup {None}, to : EditableStatus]

\* The values the variables take.
TypeOK ==
  /\ verdict \in [Run -> [Key -> {"found", "clear", "unchecked"}]]
  /\ item \in [Key -> ItemType]
  /\ lock \in [Key -> Run \cup {None}]
  /\ sync \in [Run -> SyncType]
  /\ edit \in [Person -> EditType]
  /\ log \in Seq(Run)

\* Whatever the syncs and edits race, an item resolved cites a run that checked it
\* and found it clear, and one that says who saw it last names a run that found
\* it; both have committed (sync.ts: resolution on evidence).
OnEvidence ==
  \A k \in Key :
    /\ item[k].status = "resolved" =>
         item[k].cited \in Run /\ verdict[item[k].cited][k] = "clear"
    /\ \A r \in {item[k].first, item[k].seen} \ {None} : verdict[r][k] = "found"

\* A sync that did not commit has left nothing behind (sync.ts: "it is unchanged").
FailedLeavesNoTrace ==
  \A r \in Run, k \in Key :
    sync[r].pc # "committed" => r \notin {item[k].first, item[k].seen, item[k].cited}

\* The last committed run that said anything of a key, or None.
LastOn(k) ==
  LET said == {i \in DOMAIN log : verdict[log[i]][k] # "unchecked"}
  IN  IF said = {} THEN None
      ELSE log[CHOOSE i \in said : \A j \in said : j <= i]

\* An item the last run found is not resolved, unless that run's sync overlapped
\* another (sync.ts: "one that was resolved reopens").
FoundIsNotResolved ==
  \A k \in Key : LET r == LastOn(k) IN
    r # None /\ verdict[r][k] = "found" /\ sync[r].met = {} =>
      item[k].status \in EditableStatus

\* Refuted (README, section 11): nothing keeps two syncs apart.
FoundReopens ==
  \A k \in Key : LET r == LastOn(k) IN
    r # None /\ verdict[r][k] = "found" => item[k].status \in EditableStatus

\* Refuted (README, section 11): only a sync takes an item out of "resolved"
\* (store.ts: "reopens by itself").
ReopensByItself ==
  [][\A k \in Key :
       item[k].status = "resolved" /\ item'[k].status # "resolved" => log' # log]_vars
================================================================================
