------------------------------ MODULE Submission ------------------------------
(***************************************************************************)
(* How one customer's report runs come to be inserted: requests by hand    *)
(* and the tick's monthly schedule both go through enqueueRun, which       *)
(* validates, counts the issues so far to number the revision, and inserts *)
(* under the unique dedupe_key.  The schedule may be saved or stopped      *)
(* while a tick works from the row it read, and a tick may die anywhere.   *)
(*                                                                         *)
(* One unit of the clock stands for one bucket of the dedupe key and for   *)
(* one hour of a schedule; MonthLength of them are a calendar month.       *)
(***************************************************************************)
EXTENDS Integers, Sequences, FiniteSets

CONSTANTS
  Preset,       \* the customer's templates
  ScopeOf,      \* the union of scopes a preset's definition asks for
  Person,       \* requests made by hand
  Tick,         \* concurrent tick requests
  MonthLength,
  Straddling,   \* whether a tick may outlive the month it began in
  MaxTime,      \* bound: the clock
  MaxSaves,     \* bound: saves of the schedule
  MaxCrashes,   \* bound: ticks that die
  None

ASSUME ScopeAssumption == DOMAIN ScopeOf = Preset
ASSUME ClockAssumption == MonthLength \in Nat \ {0} /\ MaxTime \in Nat
ASSUME BoundAssumption == MaxSaves \in Nat /\ MaxCrashes \in Nat
ASSUME StraddlingAssumption == Straddling \in BOOLEAN
ASSUME CallerAssumption == Person \cap Tick = {}
ASSUME NoneAssumption == None \notin Int /\ None \notin Preset

VARIABLES
  time,
  runs,      \* report_runs, in the order inserted
  job,       \* the enqueueRun call of each person and tick
  schedule,  \* the customer's run_schedules row, or None
  tick,      \* what each tick is doing about the schedule
  claims,    \* claims[m]: claims of month m since the schedule was last saved
  saves, crashes

vars == <<time, runs, job, schedule, tick, claims, saves, crashes>>

Caller == Person \cup Tick
Month(t) == t \div MonthLength
Slot(t) == t % MonthLength
LastMonth == Month(MaxTime)

\* A call that has not been made.
NoJob == [pc |-> "idle", preset |-> None, at |-> 0, revision |-> 0, run |-> 0]
NoTick == [pc |-> "idle", now |-> 0, row |-> 0, preset |-> None]

Init ==
  /\ time = 0
  /\ runs = <<>>
  /\ job = [c \in Caller |-> NoJob]
  /\ schedule = None
  /\ tick = [t \in Tick |-> NoTick]
  /\ claims = [m \in 0 .. LastMonth |-> 0]
  /\ saves = 0 /\ crashes = 0

\* No request outlives the next unit of the clock.
Advance ==
  /\ time < MaxTime
  /\ \A c \in Caller : job[c].pc \in {"asked", "counted"} => job[c].at = time
  /\ \A t \in Tick : tick[t].pc # "idle" =>
       tick[t].now = time /\ (Straddling \/ Month(time + 1) = Month(time))
  /\ time' = time + 1
  /\ UNCHANGED <<runs, job, schedule, tick, claims, saves, crashes>>

-------------------------------------------------------------------------------
(***************************************************************************)
(* enqueueRun.                                                             *)
(***************************************************************************)

\* A slip: no bucket, so a month can never be run again on purpose.
KeyWithoutBucket(preset, at) == <<ScopeOf[preset]>>

\* deriveDedupeKey: neither the preset, its version nor the snapshot to reuse
\* is among the fields.  The period follows from the instant.
DedupeKey(preset, at) == <<ScopeOf[preset], at>>

Holding(key) ==
  {i \in DOMAIN runs : DedupeKey(runs[i].preset, runs[i].at) = key}

\* countRunsForProfilePeriod: every status counts.
Issues(preset, month) ==
  Cardinality({i \in DOMAIN runs :
                 runs[i].preset = preset /\ Month(runs[i].at) = month})

Ask(preset, at) == [NoJob EXCEPT !.pc = "asked", !.preset = preset, !.at = at]

Refused == [NoJob EXCEPT !.pc = "rejected"]
Answered(c, i) == [job[c] EXCEPT !.pc = "answered", !.revision = 0, !.run = i]

\* A consultant submits the run form.
Submit(p, preset) ==
  /\ job[p].pc = "idle"
  /\ job' = [job EXCEPT ![p] = Ask(preset, time)]
  /\ UNCHANGED <<time, runs, schedule, tick, claims, saves, crashes>>

\* Everything enqueueRun reads before its insert: one of its checks refuses the
\* request, or the revision is numbered.
Prepare(c) ==
  /\ job[c].pc = "asked"
  /\ \/ job' = [job EXCEPT ![c] = Refused]
     \/ job' = [job EXCEPT ![c].pc = "counted",
                  ![c].revision = Issues(job[c].preset, Month(job[c].at)) + 1]
  /\ UNCHANGED <<time, runs, schedule, tick, claims, saves, crashes>>

\* A slip: the key is looked up first and the insert is unconditional.
InsertUnconditionally(c) ==
  /\ job[c].pc = "counted"
  /\ runs' = Append(runs, [preset |-> job[c].preset, at |-> job[c].at,
                           revision |-> job[c].revision])
  /\ job' = [job EXCEPT ![c] = Answered(c, Len(runs) + 1)]
  /\ UNCHANGED <<time, schedule, tick, claims, saves, crashes>>

\* The insert, or the row that holds the key already.  The caller is told, or
\* the connection drops after the commit and it is told of a failure.
Insert(c) ==
  /\ job[c].pc = "counted"
  /\ LET held == Holding(DedupeKey(job[c].preset, job[c].at)) IN
       \/ /\ held = {}
          /\ runs' = Append(runs, [preset |-> job[c].preset, at |-> job[c].at,
                                   revision |-> job[c].revision])
          /\ \/ job' = [job EXCEPT ![c] = Answered(c, Len(runs) + 1)]
             \/ job' = [job EXCEPT ![c] = Refused]
       \/ /\ held # {}
          /\ UNCHANGED runs
          /\ \E i \in held :
               job' = [job EXCEPT ![c] = Answered(c, i)]
  /\ UNCHANGED <<time, schedule, tick, claims, saves, crashes>>

-------------------------------------------------------------------------------
(***************************************************************************)
(* The customer's monthly schedule.                                        *)
(***************************************************************************)

\* isScheduleDue
Due(row, now) == row.last # Month(now) /\ Slot(now) >= row.slot

\* saveSchedule: an upsert.  A slot already passed this month is skipped.
Save(preset, slot) ==
  /\ saves < MaxSaves
  /\ saves' = saves + 1
  /\ schedule' =
       [id |-> IF schedule = None THEN saves' ELSE schedule.id,
        preset |-> preset, slot |-> slot,
        last |-> IF Slot(time) >= slot THEN Month(time) ELSE None,
        lastRun |-> IF schedule = None THEN 0 ELSE schedule.lastRun,
        lastError |-> FALSE]
  /\ claims' = [m \in DOMAIN claims |-> 0]
  /\ UNCHANGED <<time, runs, job, tick, crashes>>

\* deleteSchedule
Stop ==
  /\ schedule # None
  /\ schedule' = None
  /\ claims' = [m \in DOMAIN claims |-> 0]
  /\ UNCHANGED <<time, runs, job, tick, saves, crashes>>

\* startDueSchedules reads the clock and the row: who, what and whether to start
\* is decided by what it read.
ReadSchedule(t) ==
  /\ tick[t].pc = "idle"
  /\ schedule # None /\ Due(schedule, time)
  /\ tick' = [tick EXCEPT ![t] = [pc |-> "due", now |-> time, row |-> schedule.id,
                                  preset |-> schedule.preset]]
  /\ UNCHANGED <<time, runs, job, schedule, claims, saves, crashes>>

\* A slip: the month is claimed by the row's id alone.
ClaimableById(t) ==
  schedule # None /\ schedule.id = tick[t].row

\* A slip: only a row that was never attempted can be claimed.
ClaimableOnce(t) ==
  schedule # None /\ schedule.id = tick[t].row /\ schedule.last = None

\* The WHERE of the claiming UPDATE.
ClaimMatches(t) ==
  /\ schedule # None /\ schedule.id = tick[t].row
  /\ schedule.last # Month(tick[t].now)

\* The month is claimed, and what was read is enqueued.
ClaimMonth(t) ==
  /\ tick[t].pc = "due"
  /\ \/ /\ ClaimMatches(t)
        /\ schedule' = [schedule EXCEPT !.last = Month(tick[t].now)]
        /\ claims' = [claims EXCEPT ![Month(tick[t].now)] = @ + 1]
        /\ job' = [job EXCEPT ![t] = Ask(tick[t].preset, tick[t].now)]
        /\ tick' = [tick EXCEPT ![t].pc = "starting"]
     \/ /\ ~ClaimMatches(t)
        /\ tick' = [tick EXCEPT ![t] = NoTick]
        /\ UNCHANGED <<schedule, claims, job>>
  /\ UNCHANGED <<time, runs, saves, crashes>>

\* A slip: the attempt's error is only logged.
RecordOnlyRuns(t) ==
  /\ tick[t].pc = "starting" /\ job[t].pc \in {"answered", "rejected"}
  /\ schedule' =
       IF schedule = None \/ schedule.id # tick[t].row \/ job[t].pc = "rejected"
         THEN schedule
         ELSE [schedule EXCEPT !.lastRun = job[t].run, !.lastError = FALSE]
  /\ tick' = [tick EXCEPT ![t] = NoTick]
  /\ job' = [job EXCEPT ![t] = NoJob]
  /\ UNCHANGED <<time, runs, claims, saves, crashes>>

\* What became of the attempt is kept on the row, if it is still there.
Record(t) ==
  /\ tick[t].pc = "starting" /\ job[t].pc \in {"answered", "rejected"}
  /\ schedule' =
       IF schedule = None \/ schedule.id # tick[t].row
         THEN schedule
         ELSE IF job[t].pc = "answered"
           THEN [schedule EXCEPT !.lastRun = job[t].run, !.lastError = FALSE]
           ELSE [schedule EXCEPT !.lastError = TRUE]
  /\ tick' = [tick EXCEPT ![t] = NoTick]
  /\ job' = [job EXCEPT ![t] = NoJob]
  /\ UNCHANGED <<time, runs, claims, saves, crashes>>

\* The tick's request dies, or a statement of its own raises out of the loop.
CrashTick(t) ==
  /\ tick[t].pc # "idle"
  /\ crashes < MaxCrashes
  /\ crashes' = crashes + 1
  /\ tick' = [tick EXCEPT ![t] = NoTick]
  /\ job' = [job EXCEPT ![t] = NoJob]
  /\ UNCHANGED <<time, runs, schedule, claims, saves>>

-------------------------------------------------------------------------------
RunTick(t) ==
  ReadSchedule(t) \/ ClaimMonth(t) \/ Prepare(t) \/ Insert(t) \/ Record(t)

Next ==
  \/ Advance
  \/ \E p \in Person : Prepare(p) \/ Insert(p) \/ \E f \in Preset : Submit(p, f)
  \/ \E f \in Preset, slot \in 0 .. MonthLength - 1 : Save(f, slot)
  \/ Stop
  \/ \E t \in Tick : RunTick(t) \/ CrashTick(t)

Spec == Init /\ [][Next]_vars

\* The schedule keeps calling the tick, and a running tick gets on.
FairSpec == Spec /\ \A t \in Tick : WF_vars(RunTick(t))

-------------------------------------------------------------------------------
(***************************************************************************)
(* Properties.                                                             *)
(***************************************************************************)

RunType == [preset : Preset, at : 0 .. MaxTime, revision : Nat \ {0}]
JobType == [pc : {"idle", "asked", "counted", "answered", "rejected"},
            preset : Preset \cup {None}, at : 0 .. MaxTime, revision : Nat, run : Nat]
TickType == [pc : {"idle", "due", "starting"}, now : 0 .. MaxTime, row : 0 .. MaxSaves,
             preset : Preset \cup {None}]
ScheduleType == [id : 1 .. MaxSaves, preset : Preset, slot : 0 .. MonthLength - 1,
                 last : (0 .. LastMonth) \cup {None}, lastRun : Nat, lastError : BOOLEAN]

ASSUME RowAssumption == None \notin ScheduleType

\* The values the variables take, and what they say of each other at once.
TypeOK ==
  /\ time \in 0 .. MaxTime /\ saves \in 0 .. MaxSaves /\ crashes \in 0 .. MaxCrashes
  /\ runs \in Seq(RunType)
  /\ job \in [Caller -> JobType]
  /\ \A c \in Caller :
       /\ job[c].pc \notin {"idle", "rejected"} => job[c].preset \in Preset /\ job[c].at <= time
       /\ job[c].pc = "counted" => job[c].revision > 0
       /\ job[c].pc = "answered" => job[c].run \in DOMAIN runs
  /\ tick \in [Tick -> TickType]
  /\ \A t \in Tick :
       /\ tick[t].pc # "idle" => tick[t].preset \in Preset /\ tick[t].now <= time
       /\ tick[t].pc = "starting" <=> job[t].pc # "idle"
  /\ schedule = None \/ schedule \in ScheduleType
  /\ schedule # None =>
       /\ schedule.id <= saves
       /\ schedule.last \in (0 .. Month(time)) \cup {None}
       /\ schedule.lastRun \in {0} \cup DOMAIN runs
  /\ claims \in [0 .. LastMonth -> Nat]

\* A double-clicked form, a retried POST and overlapping ticks never make two
\* runs of one preset in one bucket, though each of them counted and prepared
\* its insert before any of the others had landed.
OneRunPerIntent ==
  \A i, j \in DOMAIN runs :
    runs[i].preset = runs[j].preset /\ runs[i].at = runs[j].at => i = j

\* A request answered with somebody else's row is answered with a run of the
\* scope and the bucket it asked for.
AnswerCoversRequest ==
  \A c \in Caller : job[c].pc = "answered" =>
    LET run == runs[job[c].run] IN
      ScopeOf[run.preset] = ScopeOf[job[c].preset] /\ run.at = job[c].at

\* The revision is a fact about the preset's history: no run is numbered above
\* its issues of that month, so whoever counts next is numbered above them all,
\* even after a race has numbered two runs alike.
RevisionsWithinHistory ==
  \A i \in DOMAIN runs :
    runs[i].revision <=
      Cardinality({j \in DOMAIN runs :
                     /\ runs[j].preset = runs[i].preset
                     /\ Month(runs[j].at) = Month(runs[i].at)})

\* However many ticks saw the schedule due, its month is claimed once, unless
\* it is saved again in between: "a month already claimed is never due again".
\* It holds while no tick outlives its month; one that does claims the month it
\* began in over the next one's mark, and opens that month a second time.
OneClaimPerMonth == \A m \in DOMAIN claims : claims[m] <= 1

\* A month that was claimed leaves a run or an error for the Close Board to
\* show once no tick is working, unless a tick died in between.
ClaimLeavesATrace ==
  crashes = 0 /\ schedule # None /\ (\A t \in Tick : tick[t].pc = "idle") =>
    \A m \in DOMAIN claims : claims[m] > 0 =>
      \/ schedule.lastError \/ schedule.last # m
      \/ schedule.lastRun # 0 /\ Month(runs[schedule.lastRun].at) = m

\* A schedule that is due does not stay due while ticks keep coming: a tick
\* missed or killed at its hour is made up for by a later one of that month.
DueIsClaimed ==
  (schedule # None /\ Due(schedule, time)) ~> (schedule = None \/ ~Due(schedule, time))

\* Refuted (README, section 11): "distinct requests, distinct keys" (dedupe.ts).
AnsweredWithItsPreset ==
  \A c \in Caller :
    job[c].pc = "answered" => runs[job[c].run].preset = job[c].preset

\* Refuted (README, section 11): no tick claims a month for a schedule whose slot
\* has not come ("the first run is the next slot still ahead", schedules/store.ts).
ClaimedAtItsSlot ==
  [][\A t \in Tick :
       tick[t].pc = "due" /\ tick'[t].pc = "starting" =>
         Slot(time) >= schedule.slot]_vars
===============================================================================
