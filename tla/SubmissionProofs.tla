--------------------------- MODULE SubmissionProofs ---------------------------
(***************************************************************************)
(* For any presets, people, ticks and months: a bucket has one run of a    *)
(* scope, a request is answered with a run of its own scope and bucket,    *)
(* and no revision is ahead of the preset's history.  When no tick         *)
(* outlives its month, a month is claimed once and leaves a trace.         *)
(***************************************************************************)
EXTENDS Submission, FiniteSetTheorems, SequenceTheorems, TLAPS

KeysDiffer ==
  \A i, j \in DOMAIN runs :
    DedupeKey(runs[i].preset, runs[i].at) = DedupeKey(runs[j].preset, runs[j].at) => i = j

IssuesIn(rs, p, m) ==
  Cardinality({i \in DOMAIN rs : rs[i].preset = p /\ Month(rs[i].at) = m})

\* What was counted is behind the history, or level with it.
Numbered ==
  /\ \A i \in DOMAIN runs :
       runs[i].revision <= IssuesIn(runs, runs[i].preset, Month(runs[i].at))
  /\ \A c \in Caller : job[c].pc = "counted" =>
       job[c].revision <= IssuesIn(runs, job[c].preset, Month(job[c].at)) + 1

SInv == TypeOK /\ KeysDiffer /\ AnswerCoversRequest /\ Numbered

-------------------------------------------------------------------------------
LEMMA MonthNat == ASSUME NEW t \in Nat PROVE Month(t) \in Nat
BY ClockAssumption DEF Month

LEMMA MonthMonotone ==
  ASSUME NEW t \in Nat, NEW u \in Nat, t <= u PROVE Month(t) <= Month(u)
BY ClockAssumption DEF Month

LEMMA MonthInRange == ASSUME NEW t \in 0 .. MaxTime PROVE Month(t) \in 0 .. LastMonth
BY MonthNat, MonthMonotone, ClockAssumption DEF LastMonth

LEMMA IssuesNat ==
  ASSUME NEW rs \in Seq(RunType), NEW p, NEW m PROVE IssuesIn(rs, p, m) \in Nat
<1> DEFINE S == {i \in DOMAIN rs : rs[i].preset = p /\ Month(rs[i].at) = m}
<1>1. IsFiniteSet(1 .. Len(rs)) /\ S \subseteq 1 .. Len(rs)
  BY FS_Interval
<1>2. IsFiniteSet(S)
  BY <1>1, FS_Subset
<1> QED BY <1>2, FS_CardinalityType DEF IssuesIn

\* A run adds one to the issues of its preset and month, and nothing to others.
LEMMA IssuesAppended ==
  ASSUME NEW rs \in Seq(RunType), NEW r \in RunType, NEW p, NEW m
  PROVE  IssuesIn(Append(rs, r), p, m) =
           IF r.preset = p /\ Month(r.at) = m THEN IssuesIn(rs, p, m) + 1
           ELSE IssuesIn(rs, p, m)
<1> DEFINE qs == Append(rs, r)
           S == {i \in DOMAIN rs : rs[i].preset = p /\ Month(rs[i].at) = m}
           T == {i \in DOMAIN qs : qs[i].preset = p /\ Month(qs[i].at) = m}
           n == Len(rs) + 1
<1>1. /\ DOMAIN rs = 1 .. Len(rs) /\ Len(rs) \in Nat
      /\ DOMAIN qs = 1 .. n /\ qs[n] = r
      /\ \A i \in DOMAIN rs : qs[i] = rs[i]
  OBVIOUS
<1> HIDE DEF qs
<1>2. S \subseteq 1 .. Len(rs) /\ n \notin S
  BY <1>1
<1>3. IsFiniteSet(S)
  <2>1. IsFiniteSet(1 .. Len(rs))
    BY <1>1, FS_Interval
  <2> HIDE DEF S
  <2> QED BY <1>2, <2>1, FS_Subset
<1>4. IssuesIn(rs, p, m) = Cardinality(S) /\ IssuesIn(qs, p, m) = Cardinality(T)
  BY DEF IssuesIn
<1>5. CASE r.preset = p /\ Month(r.at) = m
  <2>1. T = S \cup {n}
    BY <1>1, <1>5
  <2>2. Cardinality(T) = Cardinality(S) + 1
    BY <1>2, <1>3, <2>1, FS_AddElement
  <2> QED BY <1>4, <1>5, <2>2 DEF qs
<1>6. CASE ~(r.preset = p /\ Month(r.at) = m)
  <2>1. T = S
    BY <1>1, <1>6
  <2> QED BY <1>4, <1>6, <2>1 DEF qs
<1> QED BY <1>5, <1>6

LEMMA SInit == Init => SInv
<1> SUFFICES ASSUME Init PROVE SInv
  OBVIOUS
<1>1. NoJob \in JobType /\ NoTick \in TickType
  BY ClockAssumption, BoundAssumption DEF NoJob, NoTick, JobType, TickType
<1>2. runs \in Seq(RunType) /\ DOMAIN runs = {}
  BY EmptySeq DEF Init
<1>3. TypeOK
  <2>1. job \in [Caller -> JobType] /\ tick \in [Tick -> TickType]
        /\ claims \in [0 .. LastMonth -> Nat]
    BY <1>1 DEF Init
  <2>2. \A c \in Caller : job[c].pc = "idle"
    BY DEF Init, NoJob
  <2>3. \A t \in Tick : tick[t].pc = "idle" /\ job[t].pc = "idle"
    BY <2>2 DEF Init, NoTick, Caller
  <2>4. time \in 0 .. MaxTime /\ saves \in 0 .. MaxSaves /\ crashes \in 0 .. MaxCrashes
        /\ schedule = None
    BY ClockAssumption, BoundAssumption DEF Init
  <2> QED BY <1>2, <2>1, <2>2, <2>3, <2>4 DEF TypeOK
<1> QED BY <1>2, <1>3 DEF Init, SInv, KeysDiffer, AnswerCoversRequest, Numbered, NoJob

-------------------------------------------------------------------------------
\* One request moves on while no run is inserted.
LEMMA JobMoves ==
  ASSUME SInv, NEW c \in Caller, NEW j \in JobType, job' = [job EXCEPT ![c] = j],
         runs' = runs,
         j.pc \notin {"idle", "rejected"} => j.preset \in Preset /\ j.at <= time,
         j.pc = "counted" => j.revision > 0 /\ j.revision <= IssuesIn(runs, j.preset, Month(j.at)) + 1,
         j.pc = "answered" =>
           /\ j.run \in DOMAIN runs
           /\ ScopeOf[runs[j.run].preset] = ScopeOf[j.preset] /\ runs[j.run].at = j.at
  PROVE  /\ job' \in [Caller -> JobType] /\ job'[c] = j
         /\ \A d \in Caller : d # c => job'[d] = job[d]
         /\ \A d \in Caller :
              /\ job'[d].pc \notin {"idle", "rejected"} =>
                   job'[d].preset \in Preset /\ job'[d].at <= time
              /\ job'[d].pc = "counted" => job'[d].revision > 0
              /\ job'[d].pc = "answered" => job'[d].run \in DOMAIN runs
         /\ KeysDiffer' /\ AnswerCoversRequest' /\ Numbered'
<1>1. job \in [Caller -> JobType] /\ job'[c] = j /\ \A d \in Caller : d # c => job'[d] = job[d]
  BY DEF SInv, TypeOK
<1>2. job' \in [Caller -> JobType]
  BY <1>1
<1>3. \A d \in Caller :
        /\ job'[d].pc \notin {"idle", "rejected"} =>
             job'[d].preset \in Preset /\ job'[d].at <= time
        /\ job'[d].pc = "counted" => job'[d].revision > 0
        /\ job'[d].pc = "answered" => job'[d].run \in DOMAIN runs
  BY <1>1 DEF SInv, TypeOK
<1>4. KeysDiffer'
  BY DEF SInv, KeysDiffer, DedupeKey
<1>5. AnswerCoversRequest'
  BY <1>1 DEF SInv, AnswerCoversRequest
<1>6. Numbered'
  BY <1>1 DEF SInv, Numbered
<1> QED BY <1>1, <1>2, <1>3, <1>4, <1>5, <1>6

LEMMA SSubmit == ASSUME SInv, NEW p \in Person, NEW f \in Preset, Submit(p, f) PROVE SInv'
<1> DEFINE j == Ask(f, time)
<1>1. /\ j \in JobType /\ j.pc = "asked" /\ j.preset = f /\ j.at = time
      /\ job' = [job EXCEPT ![p] = j] /\ p \in Caller /\ p \notin Tick
      /\ UNCHANGED <<time, runs, schedule, tick, claims, saves, crashes>>
  BY CallerAssumption DEF Submit, Ask, NoJob, JobType, SInv, TypeOK, Caller
<1>2. time <= time
  BY ClockAssumption DEF SInv, TypeOK
<1> HIDE DEF j
<1>3. /\ job' \in [Caller -> JobType]
      /\ \A d \in Caller : d # p => job'[d] = job[d]
      /\ \A d \in Caller :
           /\ job'[d].pc \notin {"idle", "rejected"} =>
                job'[d].preset \in Preset /\ job'[d].at <= time
           /\ job'[d].pc = "counted" => job'[d].revision > 0
           /\ job'[d].pc = "answered" => job'[d].run \in DOMAIN runs
      /\ KeysDiffer' /\ AnswerCoversRequest' /\ Numbered'
  BY <1>1, <1>2, JobMoves
<1>4. TypeOK'
  BY <1>1, <1>3 DEF SInv, TypeOK, Caller, Month, LastMonth
<1> QED BY <1>3, <1>4 DEF SInv

LEMMA SPrepare == ASSUME SInv, NEW c \in Caller, Prepare(c) PROVE SInv'
<1> DEFINE n == IssuesIn(runs, job[c].preset, Month(job[c].at)) + 1
<1>1. /\ job[c] \in JobType /\ job[c].pc = "asked" /\ n \in Nat \ {0}
      /\ job[c].preset \in Preset /\ job[c].at <= time
      /\ UNCHANGED <<time, runs, schedule, tick, claims, saves, crashes>>
  BY IssuesNat DEF Prepare, SInv, TypeOK
<1>2. PICK j \in {Refused, [job[c] EXCEPT !.pc = "counted", !.revision = n]} :
        job' = [job EXCEPT ![c] = j]
  BY DEF Prepare, Issues, IssuesIn
<1>3. /\ j \in JobType /\ j.pc \in {"counted", "rejected"}
      /\ j.pc = "counted" =>
           j.preset = job[c].preset /\ j.at = job[c].at /\ j.revision = n
  <2>1. CASE j = Refused
    BY <2>1, ClockAssumption DEF Refused, NoJob, JobType
  <2>2. CASE j = [job[c] EXCEPT !.pc = "counted", !.revision = n]
    <3> HIDE DEF n
    <3> QED BY <1>1, <2>2 DEF JobType
  <2> QED BY <2>1, <2>2
<1>4. j.pc = "counted" => j.revision > 0 /\ j.revision <= IssuesIn(runs, j.preset, Month(j.at)) + 1
  BY <1>1, <1>3
<1>5. /\ job' \in [Caller -> JobType] /\ job'[c] = j
      /\ \A d \in Caller : d # c => job'[d] = job[d]
      /\ \A d \in Caller :
           /\ job'[d].pc \notin {"idle", "rejected"} =>
                job'[d].preset \in Preset /\ job'[d].at <= time
           /\ job'[d].pc = "counted" => job'[d].revision > 0
           /\ job'[d].pc = "answered" => job'[d].run \in DOMAIN runs
      /\ KeysDiffer' /\ AnswerCoversRequest' /\ Numbered'
  BY <1>1, <1>2, <1>3, <1>4, JobMoves
<1>6. TypeOK'
  BY <1>1, <1>3, <1>5 DEF SInv, TypeOK, Caller, Month, LastMonth
<1> QED BY <1>5, <1>6 DEF SInv

LEMMA SInsert == ASSUME SInv, NEW c \in Caller, Insert(c) PROVE SInv'
<1> DEFINE key == DedupeKey(job[c].preset, job[c].at)
           r == [preset |-> job[c].preset, at |-> job[c].at, revision |-> job[c].revision]
<1>1. /\ job[c] \in JobType /\ job[c].pc = "counted" /\ job[c].revision > 0
      /\ job[c].preset \in Preset /\ job[c].at <= time /\ runs \in Seq(RunType)
      /\ job \in [Caller -> JobType]
      /\ UNCHANGED <<time, schedule, tick, claims, saves, crashes>>
  BY DEF Insert, SInv, TypeOK
<1>2. DOMAIN runs = 1 .. Len(runs) /\ Len(runs) \in Nat
  BY <1>1
<1>3. CASE Holding(key) # {} /\ runs' = runs
  <2>1. PICK i \in Holding(key) : job' = [job EXCEPT ![c] = Answered(c, i)]
    BY <1>3 DEF Insert
  <2> DEFINE j == Answered(c, i)
  <2>2. i \in DOMAIN runs /\ i \in Nat /\ ScopeOf[runs[i].preset] = ScopeOf[job[c].preset]
        /\ runs[i].at = job[c].at
    BY <1>2, <2>1 DEF Holding, DedupeKey
  <2>3. j \in JobType /\ j.pc = "answered" /\ j.preset = job[c].preset /\ j.at = job[c].at
        /\ j.run = i
    BY <1>1, <2>2 DEF Answered, JobType
  <2> HIDE DEF j
  <2>4. /\ job' \in [Caller -> JobType] /\ job'[c] = j
        /\ \A d \in Caller : d # c => job'[d] = job[d]
        /\ \A d \in Caller :
             /\ job'[d].pc \notin {"idle", "rejected"} =>
                  job'[d].preset \in Preset /\ job'[d].at <= time
             /\ job'[d].pc = "counted" => job'[d].revision > 0
             /\ job'[d].pc = "answered" => job'[d].run \in DOMAIN runs
        /\ KeysDiffer' /\ AnswerCoversRequest' /\ Numbered'
    BY <1>1, <1>3, <2>1, <2>2, <2>3, JobMoves DEF j
  <2>5. TypeOK'
    BY <1>1, <1>3, <2>3, <2>4 DEF SInv, TypeOK, Caller, Month, LastMonth
  <2> QED BY <2>4, <2>5 DEF SInv
<1>4. CASE Holding(key) = {} /\ runs' = Append(runs, r)
  <2>1. r \in RunType
    BY <1>1 DEF JobType, RunType
  <2>2. PICK j \in {Answered(c, Len(runs) + 1), Refused} : job' = [job EXCEPT ![c] = j]
    BY <1>4 DEF Insert
  <2>3. /\ runs' \in Seq(RunType) /\ DOMAIN runs' = 1 .. (Len(runs) + 1)
        /\ DOMAIN runs \subseteq DOMAIN runs' /\ runs'[Len(runs) + 1] = r
        /\ \A i \in DOMAIN runs : runs'[i] = runs[i]
    BY <1>1, <1>2, <1>4, <2>1
  <2>4. /\ j \in JobType /\ j.pc \in {"answered", "rejected"}
        /\ j.pc = "answered" => j.preset = job[c].preset /\ j.at = job[c].at
                                /\ j.run = Len(runs) + 1
    <3>1. CASE j = Refused
      BY <3>1, ClockAssumption DEF Refused, NoJob, JobType
    <3>2. CASE j = Answered(c, Len(runs) + 1)
      <4>1. Len(runs) + 1 \in Nat
        BY <1>2
      <4> QED BY <1>1, <3>2, <4>1 DEF Answered, JobType
    <3> QED BY <2>2, <3>1, <3>2
  <2>5. /\ job' \in [Caller -> JobType] /\ job'[c] = j
        /\ \A d \in Caller : d # c => job'[d] = job[d]
    BY <1>1, <2>2, <2>4
  <2>6. TypeOK'
    <3>1. \A d \in Caller :
            /\ job'[d].pc \notin {"idle", "rejected"} =>
                 job'[d].preset \in Preset /\ job'[d].at <= time
            /\ job'[d].pc = "counted" => job'[d].revision > 0
            /\ job'[d].pc = "answered" => job'[d].run \in DOMAIN runs'
      <4>1. \A d \in Caller \ {c} :
              /\ job[d].pc \notin {"idle", "rejected"} =>
                   job[d].preset \in Preset /\ job[d].at <= time
              /\ job[d].pc = "counted" => job[d].revision > 0
              /\ job[d].pc = "answered" => job[d].run \in DOMAIN runs'
        BY <2>3 DEF SInv, TypeOK
      <4>2. j.pc = "answered" => j.preset \in Preset /\ j.at <= time /\ j.run \in DOMAIN runs'
        BY <1>1, <1>2, <2>3, <2>4
      <4> QED BY <2>4, <2>5, <4>1, <4>2
    <3> QED BY <1>1, <2>3, <2>4, <2>5, <3>1 DEF SInv, TypeOK, Caller, Month, LastMonth
  <2>7. KeysDiffer'
    <3>1. \A i \in DOMAIN runs : DedupeKey(runs[i].preset, runs[i].at) # key
      BY <1>4 DEF Holding
    <3>2. DOMAIN runs' = DOMAIN runs \cup {Len(runs) + 1}
      BY <1>2, <2>3
    <3>3. DedupeKey(runs'[Len(runs) + 1].preset, runs'[Len(runs) + 1].at) = key
      BY <2>3
    <3>4. \A i, k \in DOMAIN runs' :
            DedupeKey(runs'[i].preset, runs'[i].at) = DedupeKey(runs'[k].preset, runs'[k].at)
              => i = k
      <4> HIDE DEF key, r
      <4> QED BY <2>3, <3>1, <3>2, <3>3 DEF SInv, KeysDiffer
    <3> QED BY <3>4 DEF KeysDiffer, DedupeKey
  <2>8. AnswerCoversRequest'
    BY <2>3, <2>4, <2>5, <1>1 DEF SInv, TypeOK, AnswerCoversRequest
  <2>9. Numbered'
    <3>1. \A p, m : /\ IssuesIn(runs', p, m) \in Nat /\ IssuesIn(runs, p, m) \in Nat
                    /\ IssuesIn(runs, p, m) <= IssuesIn(runs', p, m)
      BY <1>1, <1>4, <2>1, <2>3, IssuesAppended, IssuesNat
    <3>2. IssuesIn(runs', r.preset, Month(r.at)) = IssuesIn(runs, r.preset, Month(r.at)) + 1
      BY <1>1, <1>4, <2>1, IssuesAppended
    <3>3. \A i \in DOMAIN runs : runs[i] \in RunType /\ runs[i].revision \in Nat
      <4>1. \A i \in 1 .. Len(runs) : runs[i] \in RunType
        BY <1>1, ElementOfSeq
      <4> QED BY <1>2, <4>1 DEF RunType
    <3>4. r.revision <= IssuesIn(runs', r.preset, Month(r.at))
      <4>1. r.revision = job[c].revision /\ r.preset = job[c].preset /\ r.at = job[c].at
        OBVIOUS
      <4> HIDE DEF r
      <4> QED BY <1>1, <3>2, <4>1 DEF SInv, Numbered
    <3>5. ASSUME NEW i \in DOMAIN runs'
          PROVE runs'[i].revision <= IssuesIn(runs', runs'[i].preset, Month(runs'[i].at))
      <4>1. CASE i \in DOMAIN runs
        <5>1. runs[i].revision <= IssuesIn(runs, runs[i].preset, Month(runs[i].at))
          BY <4>1 DEF SInv, Numbered
        <5>2. IssuesIn(runs, runs[i].preset, Month(runs[i].at))
                <= IssuesIn(runs', runs[i].preset, Month(runs[i].at))
          BY <3>1
        <5>3. runs[i].revision \in Nat /\ runs'[i] = runs[i]
          BY <2>3, <3>3, <4>1
        <5> QED BY <3>1, <5>1, <5>2, <5>3
      <4>2. CASE i = Len(runs) + 1
        <5> HIDE DEF r
        <5> QED BY <2>3, <3>4, <4>2
      <4> QED BY <1>2, <2>3, <4>1, <4>2
    <3>6. ASSUME NEW d \in Caller, job'[d].pc = "counted"
          PROVE job'[d].revision <= IssuesIn(runs', job'[d].preset, Month(job'[d].at)) + 1
      <4>1. d # c /\ job'[d] = job[d] /\ job[d].revision \in Nat
        BY <1>1, <2>4, <2>5, <3>6 DEF JobType
      <4>2. job[d].revision <= IssuesIn(runs, job[d].preset, Month(job[d].at)) + 1
        BY <3>6, <4>1 DEF SInv, Numbered
      <4>3. IssuesIn(runs, job[d].preset, Month(job[d].at))
              <= IssuesIn(runs', job[d].preset, Month(job[d].at))
        BY <3>1
      <4> QED BY <3>1, <4>1, <4>2, <4>3
    <3> QED BY <3>5, <3>6 DEF Numbered
  <2> QED BY <2>6, <2>7, <2>8, <2>9 DEF SInv
<1> QED BY <1>3, <1>4 DEF Insert

-------------------------------------------------------------------------------
\* A step that inserts nothing and asks for nothing keeps the runs in order.
LEMMA SRunsKept ==
  ASSUME SInv, runs' = runs, job' = job PROVE KeysDiffer' /\ AnswerCoversRequest' /\ Numbered'
BY DEF SInv, KeysDiffer, DedupeKey, AnswerCoversRequest, Numbered

LEMMA SAdvance == ASSUME SInv, Advance PROVE SInv'
<1>1. time' = time + 1 /\ time < MaxTime /\ time \in Nat
      /\ UNCHANGED <<runs, job, schedule, tick, claims, saves, crashes>>
  BY DEF Advance, SInv, TypeOK
<1>2. Month(time) \in Nat /\ Month(time') \in Nat /\ Month(time) <= Month(time')
  BY <1>1, MonthNat, MonthMonotone
<1>3. time' \in 0 .. MaxTime
  BY <1>1, ClockAssumption
<1>4. \A c \in Caller : job[c].at \in Nat /\ (job[c].at <= time => job[c].at <= time')
  BY <1>1 DEF SInv, TypeOK, JobType
<1>5. \A t \in Tick : tick[t].now \in Nat /\ (tick[t].now <= time => tick[t].now <= time')
  BY <1>1 DEF SInv, TypeOK, TickType
<1>6. schedule # None => schedule.last \in (0 .. Month(time')) \cup {None}
  BY <1>2 DEF SInv, TypeOK
<1>7. TypeOK'
  BY <1>1, <1>3, <1>4, <1>5, <1>6 DEF SInv, TypeOK, Month, LastMonth
<1> QED BY <1>1, <1>7, SRunsKept DEF SInv

LEMMA SSave ==
  ASSUME SInv, NEW f \in Preset, NEW slot \in 0 .. MonthLength - 1, Save(f, slot)
  PROVE  SInv'
<1>1. saves < MaxSaves /\ saves' = saves + 1 /\ UNCHANGED <<time, runs, job, tick, crashes>>
      /\ saves \in Nat /\ time \in 0 .. MaxTime
  BY BoundAssumption DEF Save, SInv, TypeOK
<1>2. claims' \in [0 .. LastMonth -> Nat]
  BY DEF Save, SInv, TypeOK
<1>3. Month(time) \in 0 .. LastMonth /\ Month(time) \in 0 .. Month(time)
  BY <1>1, MonthInRange, MonthNat
<1>4. /\ schedule' \in ScheduleType /\ schedule'.id <= saves'
      /\ schedule'.last \in (0 .. Month(time)) \cup {None}
      /\ schedule'.lastRun \in {0} \cup DOMAIN runs
  <2> DEFINE id == IF schedule = None THEN saves' ELSE schedule.id
             last == IF Slot(time) >= slot THEN Month(time) ELSE None
             lastRun == IF schedule = None THEN 0 ELSE schedule.lastRun
  <2>1. id \in 1 .. MaxSaves /\ id <= saves'
    BY <1>1, BoundAssumption DEF SInv, TypeOK, ScheduleType
  <2>2. last \in (0 .. LastMonth) \cup {None} /\ last \in (0 .. Month(time)) \cup {None}
    BY <1>3
  <2>3. lastRun \in Nat /\ lastRun \in {0} \cup DOMAIN runs
    BY DEF SInv, TypeOK, ScheduleType
  <2>4. schedule' = [id |-> id, preset |-> f, slot |-> slot, last |-> last,
                     lastRun |-> lastRun, lastError |-> FALSE]
    BY DEF Save
  <2> HIDE DEF id, last, lastRun
  <2> QED BY <2>1, <2>2, <2>3, <2>4 DEF ScheduleType
<1>5. saves' \in 0 .. MaxSaves
  BY <1>1, BoundAssumption
<1>6. schedule' # None => schedule' \in ScheduleType
  BY <1>4
<1>7. TypeOK'
  BY <1>1, <1>2, <1>4, <1>5 DEF SInv, TypeOK, Month, LastMonth
<1> QED BY <1>1, <1>7, SRunsKept DEF SInv

LEMMA SStop == ASSUME SInv, Stop PROVE SInv'
<1>1. schedule' = None /\ UNCHANGED <<time, runs, job, tick, saves, crashes>>
      /\ claims' \in [0 .. LastMonth -> Nat]
  BY DEF Stop, SInv, TypeOK
<1>2. TypeOK'
  BY <1>1 DEF SInv, TypeOK, Month, LastMonth
<1> QED BY <1>1, <1>2, SRunsKept DEF SInv

LEMMA SReadSchedule == ASSUME SInv, NEW t \in Tick, ReadSchedule(t) PROVE SInv'
<1> DEFINE k == [pc |-> "due", now |-> time, row |-> schedule.id, preset |-> schedule.preset]
<1>1. /\ tick' = [tick EXCEPT ![t] = k] /\ tick[t].pc = "idle" /\ schedule # None
      /\ UNCHANGED <<time, runs, job, schedule, claims, saves, crashes>>
  BY DEF ReadSchedule
<1>2. k \in TickType /\ k.preset \in Preset /\ k.now <= time /\ k.pc = "due"
  BY <1>1, BoundAssumption, ClockAssumption DEF SInv, TypeOK, ScheduleType, TickType
<1> HIDE DEF k
<1>3. TypeOK'
  BY <1>1, <1>2 DEF SInv, TypeOK, Month, LastMonth
<1> QED BY <1>1, <1>3, SRunsKept DEF SInv

\* The claim and the request it makes.
LEMMA ClaimMeans ==
  ASSUME SInv, NEW t \in Tick, ClaimMonth(t), ClaimMatches(t)
  PROVE  /\ schedule' = [schedule EXCEPT !.last = Month(tick[t].now)]
         /\ claims' = [claims EXCEPT ![Month(tick[t].now)] = claims[Month(tick[t].now)] + 1]
         /\ tick' = [tick EXCEPT ![t].pc = "starting"]
         /\ job' = [job EXCEPT ![t] = Ask(tick[t].preset, tick[t].now)]
         /\ UNCHANGED <<time, runs, saves, crashes>> /\ tick[t].pc = "due"
BY DEF ClaimMonth

LEMMA SClaimMonth == ASSUME SInv, NEW t \in Tick, ClaimMonth(t) PROVE SInv'
<1>1. tick[t].pc = "due" /\ tick \in [Tick -> TickType] /\ tick[t] \in TickType
      /\ tick[t].preset \in Preset /\ tick[t].now <= time /\ time \in 0 .. MaxTime
      /\ t \in Caller
  BY DEF ClaimMonth, SInv, TypeOK, Caller
<1>2. CASE ClaimMatches(t)
  <2> DEFINE j == Ask(tick[t].preset, tick[t].now)
             m == Month(tick[t].now)
  <2>1. m \in 0 .. LastMonth /\ m \in 0 .. Month(time)
    BY <1>1, MonthInRange, MonthMonotone, MonthNat DEF TickType
  <2>2. j \in JobType /\ j.pc = "asked" /\ j.preset = tick[t].preset /\ j.at = tick[t].now
    BY <1>1 DEF Ask, NoJob, JobType, TickType
  <2>3. /\ schedule' = [schedule EXCEPT !.last = m] /\ claims' = [claims EXCEPT ![m] = claims[m] + 1]
        /\ job' = [job EXCEPT ![t] = j] /\ tick' = [tick EXCEPT ![t].pc = "starting"]
        /\ UNCHANGED <<time, runs, saves, crashes>> /\ schedule # None
    BY <1>2, ClaimMeans DEF ClaimMatches
  <2>4. claims' \in [0 .. LastMonth -> Nat]
    BY <2>1, <2>3 DEF SInv, TypeOK
  <2>5. /\ schedule' \in ScheduleType /\ schedule'.last = m /\ schedule'.id = schedule.id
        /\ schedule'.lastRun = schedule.lastRun
    BY <2>1, <2>3 DEF SInv, TypeOK, ScheduleType
  <2>6. /\ tick' \in [Tick -> TickType] /\ tick'[t].pc = "starting"
        /\ tick'[t].preset = tick[t].preset /\ tick'[t].now = tick[t].now
        /\ \A u \in Tick : u # t => tick'[u] = tick[u]
    BY <1>1, <2>3 DEF TickType
  <2> HIDE DEF j, m
  <2>7. /\ job' \in [Caller -> JobType] /\ job'[t] = j
        /\ \A d \in Caller : d # t => job'[d] = job[d]
        /\ \A d \in Caller :
             /\ job'[d].pc \notin {"idle", "rejected"} =>
                  job'[d].preset \in Preset /\ job'[d].at <= time
             /\ job'[d].pc = "counted" => job'[d].revision > 0
             /\ job'[d].pc = "answered" => job'[d].run \in DOMAIN runs
        /\ KeysDiffer' /\ AnswerCoversRequest' /\ Numbered'
    BY <1>1, <2>2, <2>3, JobMoves
  <2>8. \A u \in Tick : /\ tick'[u].pc # "idle" => tick'[u].preset \in Preset /\ tick'[u].now <= time
                        /\ tick'[u].pc = "starting" <=> job'[u].pc # "idle"
    BY <1>1, <2>2, <2>6, <2>7 DEF SInv, TypeOK, Caller
  <2>9. schedule' # None =>
          /\ schedule'.id <= saves
          /\ schedule'.last \in (0 .. Month(time)) \cup {None}
          /\ schedule'.lastRun \in {0} \cup DOMAIN runs
    BY <2>1, <2>3, <2>5 DEF SInv, TypeOK
  <2>10. TypeOK'
    BY <2>3, <2>4, <2>5, <2>6, <2>7, <2>8, <2>9 DEF SInv, TypeOK, Month, LastMonth
  <2> QED BY <2>7, <2>10 DEF SInv
<1>3. CASE ~ClaimMatches(t)
  <2>1. tick' = [tick EXCEPT ![t] = NoTick]
        /\ UNCHANGED <<time, runs, job, schedule, claims, saves, crashes>>
    BY <1>3 DEF ClaimMonth
  <2>2. NoTick \in TickType /\ NoTick.pc = "idle"
    BY ClockAssumption, BoundAssumption DEF NoTick, TickType
  <2>3. TypeOK'
    BY <1>1, <2>1, <2>2 DEF SInv, TypeOK, Month, LastMonth
  <2> QED BY <2>1, <2>3, SRunsKept DEF SInv
<1> QED BY <1>2, <1>3

\* A tick is done with its schedule, by finishing or by dying.
LEMMA TickEnds ==
  ASSUME SInv, NEW t \in Tick, tick' = [tick EXCEPT ![t] = NoTick],
         job' = [job EXCEPT ![t] = NoJob], runs' = runs, time' = time, saves' = saves,
         claims' = claims, crashes' \in 0 .. MaxCrashes,
         schedule' = schedule \/
           (/\ schedule' \in ScheduleType /\ schedule'.id = schedule.id
            /\ schedule'.last = schedule.last /\ schedule # None
            /\ schedule'.lastRun \in {0} \cup DOMAIN runs)
  PROVE  SInv'
<1>1. /\ NoJob \in JobType /\ NoJob.pc = "idle" /\ NoTick \in TickType /\ NoTick.pc = "idle"
      /\ t \in Caller
  BY ClockAssumption, BoundAssumption DEF NoJob, JobType, NoTick, TickType, Caller
<1>2. /\ job' \in [Caller -> JobType] /\ job'[t] = NoJob
      /\ \A d \in Caller : d # t => job'[d] = job[d]
      /\ \A d \in Caller :
           /\ job'[d].pc \notin {"idle", "rejected"} =>
                job'[d].preset \in Preset /\ job'[d].at <= time
           /\ job'[d].pc = "counted" => job'[d].revision > 0
           /\ job'[d].pc = "answered" => job'[d].run \in DOMAIN runs
      /\ KeysDiffer' /\ AnswerCoversRequest' /\ Numbered'
  BY <1>1, JobMoves
<1>3. /\ tick' \in [Tick -> TickType]
      /\ \A u \in Tick : /\ tick'[u].pc # "idle" => tick'[u].preset \in Preset /\ tick'[u].now <= time
                         /\ tick'[u].pc = "starting" <=> job'[u].pc # "idle"
  BY <1>1, <1>2 DEF SInv, TypeOK, Caller
<1>4. schedule' = None \/ schedule' \in ScheduleType
  BY DEF SInv, TypeOK
<1>5. schedule' # None =>
        /\ schedule'.id <= saves
        /\ schedule'.last \in (0 .. Month(time)) \cup {None}
        /\ schedule'.lastRun \in {0} \cup DOMAIN runs
  BY DEF SInv, TypeOK
<1>6. TypeOK'
  BY <1>2, <1>3, <1>4, <1>5 DEF SInv, TypeOK, Month, LastMonth
<1> QED BY <1>2, <1>6 DEF SInv

LEMMA RecordMeans ==
  ASSUME SInv, NEW t \in Tick, Record(t)
  PROVE  /\ tick' = [tick EXCEPT ![t] = NoTick] /\ job' = [job EXCEPT ![t] = NoJob]
         /\ UNCHANGED <<time, runs, claims, saves, crashes>>
         /\ tick[t].pc = "starting"
         /\ IF schedule = None \/ schedule.id # tick[t].row THEN schedule' = schedule
            ELSE /\ schedule' \in ScheduleType /\ schedule'.id = schedule.id
                 /\ schedule'.last = schedule.last /\ schedule # None
                 /\ schedule'.lastRun \in {0} \cup DOMAIN runs
                 /\ \/ schedule'.lastError
                    \/ /\ job[t].pc = "answered" /\ schedule'.lastRun = job[t].run
                       /\ job[t].run \in DOMAIN runs
<1>1. /\ tick' = [tick EXCEPT ![t] = NoTick] /\ job' = [job EXCEPT ![t] = NoJob]
      /\ UNCHANGED <<time, runs, claims, saves, crashes>>
      /\ tick[t].pc = "starting" /\ job[t].pc \in {"answered", "rejected"}
      /\ job[t] \in JobType
  BY DEF Record, SInv, TypeOK, Caller
<1>2. CASE schedule = None \/ schedule.id # tick[t].row
  BY <1>1, <1>2 DEF Record
<1>3. CASE schedule # None /\ schedule.id = tick[t].row
  <2>1. schedule \in ScheduleType /\ schedule.lastRun \in {0} \cup DOMAIN runs
    BY <1>3 DEF SInv, TypeOK
  <2>2. CASE job[t].pc = "answered"
    <3>1. schedule' = [schedule EXCEPT !.lastRun = job[t].run, !.lastError = FALSE]
      BY <1>3, <2>2 DEF Record
    <3>2. job[t].run \in DOMAIN runs /\ job[t].run \in Nat
      BY <1>1, <2>2 DEF SInv, TypeOK, JobType, Caller
    <3> QED BY <1>1, <1>3, <2>1, <2>2, <3>1, <3>2 DEF ScheduleType
  <2>3. CASE job[t].pc # "answered"
    <3>1. schedule' = [schedule EXCEPT !.lastError = TRUE]
      BY <1>3, <2>3 DEF Record
    <3> QED BY <1>1, <1>3, <2>1, <3>1 DEF ScheduleType
  <2> QED BY <2>2, <2>3
<1> QED BY <1>2, <1>3

LEMMA SRecord == ASSUME SInv, NEW t \in Tick, Record(t) PROVE SInv'
BY RecordMeans, TickEnds DEF SInv, TypeOK

LEMMA SCrash == ASSUME SInv, NEW t \in Tick, CrashTick(t) PROVE SInv'
<1>1. crashes' \in 0 .. MaxCrashes
  BY BoundAssumption DEF CrashTick, SInv, TypeOK
<1> QED BY <1>1, TickEnds DEF CrashTick

-------------------------------------------------------------------------------
LEMMA SNext == SInv /\ [Next]_vars => SInv'
<1> SUFFICES ASSUME SInv, [Next]_vars PROVE SInv'
  OBVIOUS
<1>1. CASE Advance
  BY <1>1, SAdvance
<1>2. CASE \E p \in Person : Prepare(p) \/ Insert(p) \/ \E f \in Preset : Submit(p, f)
  BY <1>2, SPrepare, SInsert, SSubmit DEF Caller
<1>3. CASE \E f \in Preset, slot \in 0 .. MonthLength - 1 : Save(f, slot)
  BY <1>3, SSave
<1>4. CASE Stop
  BY <1>4, SStop
<1>5. CASE \E t \in Tick : RunTick(t) \/ CrashTick(t)
  BY <1>5, SReadSchedule, SClaimMonth, SPrepare, SInsert, SRecord, SCrash DEF RunTick, Caller
<1>6. CASE UNCHANGED vars
  <2>1. TypeOK'
    BY <1>6 DEF SInv, TypeOK, vars, Month, LastMonth
  <2> QED BY <1>6, <2>1, SRunsKept DEF SInv, vars
<1> QED BY <1>1, <1>2, <1>3, <1>4, <1>5, <1>6 DEF Next

\* The invariant of the enqueue: a key is held by one run, an answer is a run of the
\* request's key, and a counted revision is at most one ahead (actions/runs.ts).
THEOREM SubmissionInvariance == Spec => []SInv
BY SInit, SNext, PTL DEF Spec

\* Every value stays of its type, whatever the numbers of callers and months.
THEOREM SubmissionTypes == Spec => []TypeOK
BY SubmissionInvariance, PTL DEF SInv

\* However requests and ticks race, a preset has one run in a bucket: the unique
\* dedupe key (actions/runs.ts, enqueueRun).
THEOREM OneRunForOneIntent == Spec => []OneRunPerIntent
<1>1. SInv => OneRunPerIntent
  BY DEF SInv, KeysDiffer, DedupeKey, OneRunPerIntent
<1> QED BY <1>1, SubmissionInvariance, PTL

\* Whoever is answered with another's run gets one of its own scope and bucket.
THEOREM AnswersCoverRequests == Spec => []AnswerCoversRequest
BY SubmissionInvariance, PTL DEF SInv

\* No revision is ahead of its preset's history (countRunsForProfilePeriod).
THEOREM RevisionsStayWithinHistory == Spec => []RevisionsWithinHistory
<1>1. SInv => RevisionsWithinHistory
  BY DEF SInv, Numbered, IssuesIn, RevisionsWithinHistory
<1> QED BY <1>1, SubmissionInvariance, PTL

-------------------------------------------------------------------------------
(***************************************************************************)
(* While no tick outlives its month.                                       *)
(***************************************************************************)

InMonth == \A t \in Tick : tick[t].pc # "idle" => Month(tick[t].now) = Month(time)

\* What a tick asked for is of the instant it read.
AsksForNow ==
  \A t \in Tick : tick[t].pc = "starting" /\ job[t].pc # "rejected" => job[t].at = tick[t].now

\* A month is claimed once, by now, and the mark shows it.
Marked ==
  \A m \in 0 .. LastMonth :
    /\ claims[m] <= 1
    /\ claims[m] > 0 =>
         m <= Month(time) /\ schedule # None /\ (m = Month(time) => schedule.last = m)

Starting(t) == tick[t].pc = "starting" /\ schedule # None /\ schedule.id = tick[t].row

\* A claim moves the mark past the months before.
Passed ==
  \A t \in Tick, m \in 0 .. LastMonth :
    Starting(t) /\ claims[m] > 0 /\ m # Month(time) => schedule.last # m

Shown(m) ==
  \/ schedule.lastError \/ schedule.last # m
  \/ schedule.lastRun # 0 /\ Month(runs[schedule.lastRun].at) = m

\* Every claim is shown, or at work.
Traced ==
  crashes = 0 /\ schedule # None =>
    \A m \in 0 .. LastMonth : claims[m] > 0 =>
      Shown(m) \/ \E t \in Tick : Starting(t) /\ Month(tick[t].now) = m

MInv == InMonth /\ AsksForNow /\ Marked /\ Passed /\ Traced

-------------------------------------------------------------------------------
LEMMA MInit == Init => MInv
BY DEF Init, MInv, InMonth, AsksForNow, Marked, Passed, Starting, Traced, NoTick

\* A step of a request leaves the schedule and the ticks alone.
LEMMA MJob ==
  ASSUME SInv, MInv, NEW c \in Caller, job[c].pc \in {"asked", "counted"},
         NEW j, job' = [job EXCEPT ![c] = j], j.pc # "rejected" => j.at = job[c].at,
         DOMAIN runs \subseteq DOMAIN runs', \A i \in DOMAIN runs : runs'[i] = runs[i],
         UNCHANGED <<time, schedule, tick, claims, saves, crashes>>
  PROVE  MInv'
<1>1. job'[c] = j /\ \A d \in Caller : d # c => job'[d] = job[d]
  BY DEF SInv, TypeOK
<1>2. AsksForNow'
  BY <1>1 DEF MInv, AsksForNow, Caller
<1>3. schedule # None => schedule.lastRun \in {0} \cup DOMAIN runs
  BY DEF SInv, TypeOK
<1>4. \A m \in 0 .. LastMonth : schedule # None /\ Shown(m) => Shown(m)'
  BY <1>3 DEF Shown, Month
<1>5. InMonth' /\ Marked' /\ Passed'
  BY DEF MInv, InMonth, Marked, Passed, Starting, Month, LastMonth
<1>6. Traced'
  BY <1>4 DEF MInv, Traced, Starting, Month, LastMonth
<1> QED BY <1>2, <1>5, <1>6 DEF MInv

LEMMA MSubmit ==
  ASSUME SInv, MInv, NEW p \in Person, NEW f \in Preset, Submit(p, f) PROVE MInv'
<1>1. /\ \A t \in Tick : job'[t] = job[t]
      /\ UNCHANGED <<time, runs, schedule, tick, claims, saves, crashes>>
  BY CallerAssumption DEF Submit, SInv, TypeOK, Caller
<1>2. AsksForNow'
  BY <1>1 DEF MInv, AsksForNow
<1> QED BY <1>1, <1>2 DEF MInv, InMonth, Marked, Passed, Traced, Starting, Shown, Month, LastMonth

LEMMA MPrepare == ASSUME SInv, MInv, NEW c \in Caller, Prepare(c) PROVE MInv'
<1> DEFINE k == [job[c] EXCEPT !.pc = "counted",
                   !.revision = Issues(job[c].preset, Month(job[c].at)) + 1]
<1>1. PICK j \in {Refused, k} : job' = [job EXCEPT ![c] = j]
  BY DEF Prepare
<1>2. job[c] \in JobType /\ job[c].pc = "asked"
      /\ UNCHANGED <<time, runs, schedule, tick, claims, saves, crashes>>
  BY DEF Prepare, SInv, TypeOK
<1>3. Refused.pc = "rejected" /\ k.at = job[c].at
  BY <1>2 DEF Refused, NoJob, JobType
<1>4. j.pc # "rejected" => j.at = job[c].at
  BY <1>3
<1> HIDE DEF k
<1> QED BY <1>1, <1>2, <1>4, MJob

LEMMA MInsert == ASSUME SInv, MInv, NEW c \in Caller, Insert(c) PROVE MInv'
<1> DEFINE r == [preset |-> job[c].preset, at |-> job[c].at, revision |-> job[c].revision]
<1>1. PICK j : /\ job' = [job EXCEPT ![c] = j]
               /\ j = Refused \/ \E i : j = Answered(c, i)
  BY DEF Insert
<1>2. job[c] \in JobType /\ job[c].pc = "counted" /\ runs \in Seq(RunType)
      /\ job[c].preset \in Preset /\ job[c].revision > 0
      /\ UNCHANGED <<time, schedule, tick, claims, saves, crashes>>
  BY DEF Insert, SInv, TypeOK
<1>3. j.pc # "rejected" => j.at = job[c].at
  BY <1>1, <1>2 DEF Refused, NoJob, Answered, JobType
<1>4. runs' = runs \/ runs' = Append(runs, r)
  BY DEF Insert
<1>5. r \in RunType
  BY <1>2 DEF JobType, RunType
<1> HIDE DEF r
<1>6. DOMAIN runs \subseteq DOMAIN runs' /\ \A i \in DOMAIN runs : runs'[i] = runs[i]
  BY <1>2, <1>4, <1>5
<1> QED BY <1>1, <1>2, <1>3, <1>6, MJob

LEMMA MAdvance == ASSUME SInv, MInv, Advance, Straddling = FALSE PROVE MInv'
<1>1. time' = time + 1 /\ time \in Nat
      /\ UNCHANGED <<runs, job, schedule, tick, claims, saves, crashes>>
      /\ \A t \in Tick : tick[t].pc # "idle" => Month(time + 1) = Month(time)
  BY DEF Advance, SInv, TypeOK
<1>2. Month(time) \in Nat /\ Month(time') \in Nat /\ Month(time) <= Month(time')
  BY <1>1, MonthNat, MonthMonotone
<1>3. InMonth'
  BY <1>1 DEF MInv, InMonth
<1>4. Marked'
  <2> SUFFICES ASSUME NEW m \in 0 .. LastMonth
               PROVE /\ claims[m] <= 1
                     /\ claims[m] > 0 => m <= Month(time') /\ schedule # None
                                         /\ (m = Month(time') => schedule.last = m)
    BY <1>1 DEF Marked, LastMonth, Month
  <2>1. LastMonth \in Nat
    BY ClockAssumption, MonthNat DEF LastMonth
  <2> QED BY <1>2, <2>1 DEF MInv, Marked
<1>5. AsksForNow'
  BY <1>1 DEF MInv, AsksForNow
<1>6. Passed'
  BY <1>1 DEF MInv, Passed, Starting, LastMonth, Month
<1>7. Traced'
  BY <1>1 DEF MInv, Traced, Starting, Shown, LastMonth, Month
<1> QED BY <1>3, <1>4, <1>5, <1>6, <1>7 DEF MInv

\* A schedule saved or stopped begins with no claims.
LEMMA MSave ==
  ASSUME SInv, MInv, Stop \/ \E f \in Preset, slot \in 0 .. MonthLength - 1 : Save(f, slot)
  PROVE  MInv'
<1>1. UNCHANGED <<time, runs, job, tick, crashes>>
      /\ \A m \in 0 .. LastMonth : claims'[m] = 0
  BY DEF Stop, Save, SInv, TypeOK
<1>2. InMonth' /\ AsksForNow'
  BY <1>1 DEF MInv, InMonth, AsksForNow, Month
<1>3. Marked' /\ Passed' /\ Traced'
  BY <1>1 DEF Marked, Passed, Traced, LastMonth, Month
<1> QED BY <1>2, <1>3 DEF MInv

LEMMA MReadSchedule == ASSUME SInv, MInv, NEW t \in Tick, ReadSchedule(t) PROVE MInv'
<1>1. /\ tick[t].pc = "idle" /\ tick'[t].pc = "due" /\ tick'[t].now = time
      /\ \A u \in Tick : u # t => tick'[u] = tick[u]
      /\ UNCHANGED <<time, runs, job, schedule, claims, saves, crashes>>
  BY DEF ReadSchedule, SInv, TypeOK
<1>2. InMonth'
  BY <1>1 DEF MInv, InMonth, Month
<1>3. \A u \in Tick : Starting(u) <=> Starting(u)'
  BY <1>1 DEF Starting
<1>4. AsksForNow'
  BY <1>1 DEF MInv, AsksForNow
<1>5. Marked' /\ Passed'
  BY <1>1, <1>3 DEF MInv, Marked, Passed, LastMonth, Month
<1>6. Traced'
  BY <1>1, <1>3 DEF MInv, Traced, Starting, Shown, LastMonth, Month
<1> QED BY <1>2, <1>4, <1>5, <1>6 DEF MInv

LEMMA MClaimMonth == ASSUME SInv, MInv, NEW t \in Tick, ClaimMonth(t) PROVE MInv'
<1>1. tick[t].pc = "due" /\ tick[t] \in TickType /\ time \in 0 .. MaxTime /\ t \in Caller
      /\ Month(tick[t].now) = Month(time)
  BY DEF ClaimMonth, SInv, TypeOK, Caller, MInv, InMonth
<1>2. Month(time) \in 0 .. LastMonth
  BY <1>1, MonthInRange
<1>3. CASE ~ClaimMatches(t)
  <2>1. /\ tick'[t].pc = "idle" /\ \A u \in Tick : u # t => tick'[u] = tick[u]
        /\ UNCHANGED <<time, runs, job, schedule, claims, saves, crashes>>
    BY <1>3 DEF ClaimMonth, SInv, TypeOK, NoTick
  <2>2. InMonth' /\ AsksForNow'
    BY <2>1 DEF MInv, InMonth, AsksForNow, Month
  <2>3. \A u \in Tick : Starting(u) <=> Starting(u)'
    BY <1>1, <2>1 DEF Starting
  <2>4. Marked' /\ Passed'
    BY <2>1, <2>3 DEF MInv, Marked, Passed, LastMonth, Month
  <2>5. Traced'
    BY <2>1, <2>3 DEF MInv, Traced, Starting, Shown, LastMonth, Month
  <2> QED BY <2>2, <2>4, <2>5 DEF MInv
<1>4. CASE ClaimMatches(t)
  <2>1. /\ schedule' = [schedule EXCEPT !.last = Month(time)]
        /\ claims' = [claims EXCEPT ![Month(time)] = claims[Month(time)] + 1]
        /\ tick' = [tick EXCEPT ![t].pc = "starting"]
        /\ job' = [job EXCEPT ![t] = Ask(tick[t].preset, tick[t].now)]
        /\ UNCHANGED <<time, runs, saves, crashes>>
        /\ schedule # None /\ schedule.id = tick[t].row /\ schedule.last # Month(time)
    BY <1>1, <1>4, ClaimMeans DEF ClaimMatches
  <2>2. /\ schedule \in ScheduleType /\ schedule' \in ScheduleType /\ schedule' # None
        /\ schedule'.last = Month(time) /\ schedule'.id = schedule.id
        /\ schedule'.lastRun = schedule.lastRun /\ schedule'.lastError = schedule.lastError
    <3>1. schedule \in ScheduleType
      BY <2>1 DEF SInv, TypeOK
    <3>2. schedule' \in ScheduleType /\ schedule'.last = Month(time)
          /\ schedule'.id = schedule.id /\ schedule'.lastRun = schedule.lastRun
          /\ schedule'.lastError = schedule.lastError
      BY <1>2, <2>1, <3>1 DEF ScheduleType
    <3>3. schedule' # None
      BY <3>2, RowAssumption
    <3> QED BY <3>1, <3>2, <3>3
  <2>3. /\ tick'[t].pc = "starting" /\ tick'[t].now = tick[t].now /\ tick'[t].row = tick[t].row
        /\ \A u \in Tick : u # t => tick'[u] = tick[u]
    BY <2>1 DEF SInv, TypeOK, TickType
  <2>4. claims[Month(time)] = 0 /\ claims'[Month(time)] = 1
        /\ \A m \in 0 .. LastMonth : m # Month(time) => claims'[m] = claims[m]
    <3>1. claims \in [0 .. LastMonth -> Nat]
      BY DEF SInv, TypeOK
    <3>2. claims[Month(time)] = 0
      BY <1>2, <2>1, <3>1 DEF MInv, Marked
    <3> QED BY <1>2, <2>1, <3>1, <3>2
  <2>5. InMonth'
    BY <1>1, <2>1, <2>3 DEF MInv, InMonth, Month
  <2>6. AsksForNow'
    <3>1. job'[t].at = tick[t].now /\ \A d \in Caller : d # t => job'[d] = job[d]
      BY <1>1, <2>1 DEF SInv, TypeOK, Ask, NoJob
    <3> QED BY <2>3, <3>1 DEF MInv, AsksForNow, Caller
  <2>7. Marked'
    <3> SUFFICES ASSUME NEW m \in 0 .. LastMonth
                 PROVE /\ claims'[m] <= 1
                       /\ claims'[m] > 0 => m <= Month(time) /\ schedule' # None
                                            /\ (m = Month(time) => schedule'.last = m)
      BY <2>1 DEF Marked, LastMonth, Month
    <3>1. CASE m = Month(time)
      BY <1>2, <2>2, <2>4, <3>1
    <3>2. CASE m # Month(time)
      BY <2>2, <2>4, <3>2 DEF MInv, Marked
    <3> QED BY <3>1, <3>2
  <2>8. Passed'
    BY <2>1, <2>2 DEF Passed, LastMonth, Month
  <2>9. Traced'
    <3>1. Starting(t)' /\ Month(tick'[t].now) = Month(time)
      BY <1>1, <2>1, <2>2, <2>3 DEF Starting
    <3>2. \A m \in 0 .. LastMonth : m # Month(time) => Shown(m)'
      BY <2>2 DEF Shown
    <3> QED BY <3>1, <3>2 DEF Traced, Month, LastMonth
  <2> QED BY <2>5, <2>6, <2>7, <2>8, <2>9 DEF MInv
<1> QED BY <1>3, <1>4

LEMMA MRecord == ASSUME SInv, MInv, NEW t \in Tick, Record(t) PROVE MInv'
<1>1. /\ tick' = [tick EXCEPT ![t] = NoTick] /\ job' = [job EXCEPT ![t] = NoJob]
      /\ UNCHANGED <<time, runs, claims, saves, crashes>> /\ tick[t].pc = "starting"
      /\ IF schedule = None \/ schedule.id # tick[t].row THEN schedule' = schedule
         ELSE /\ schedule' \in ScheduleType /\ schedule'.id = schedule.id
              /\ schedule'.last = schedule.last /\ schedule # None
              /\ schedule'.lastRun \in {0} \cup DOMAIN runs
              /\ \/ schedule'.lastError
                 \/ /\ job[t].pc = "answered" /\ schedule'.lastRun = job[t].run
                    /\ job[t].run \in DOMAIN runs
  BY RecordMeans
<1>2. /\ tick'[t].pc = "idle" /\ \A u \in Tick : u # t => tick'[u] = tick[u]
      /\ \A u \in Tick : u # t => job'[u] = job[u]
  BY <1>1 DEF SInv, TypeOK, NoTick, Caller
<1>3. InMonth' /\ AsksForNow'
  BY <1>1, <1>2 DEF MInv, InMonth, AsksForNow, Month
<1>5. Marked' /\ Passed'
  <2>1. schedule # None => schedule' # None
    BY <1>1, RowAssumption
  <2>2. schedule # None => schedule'.last = schedule.last /\ schedule'.id = schedule.id
    BY <1>1
  <2>3. schedule = None => schedule' = None
    BY <1>1
  <2>4. \A u \in Tick : Starting(u)' => Starting(u)
    BY <1>1, <1>2, <2>2, <2>3 DEF Starting
  <2>5. Marked'
    BY <1>1, <2>1, <2>2 DEF MInv, Marked, LastMonth, Month
  <2>6. Passed'
    BY <1>1, <2>2, <2>3, <2>4 DEF MInv, Passed, Starting, LastMonth, Month
  <2> QED BY <2>5, <2>6
<1>6. Traced'
  <2> SUFFICES ASSUME crashes = 0, schedule' # None, NEW m \in 0 .. LastMonth, claims[m] > 0
               PROVE Shown(m)' \/ \E u \in Tick : Starting(u)' /\ Month(tick'[u].now) = m
    BY <1>1 DEF Traced, LastMonth, Month
  <2>1. CASE schedule = None \/ schedule.id # tick[t].row
    <3>1. schedule' = schedule /\ schedule # None /\ ~Starting(t)
      BY <1>1, <2>1 DEF Starting
    <3>2. CASE Shown(m)
      BY <1>1, <3>1, <3>2 DEF Shown, Month
    <3>3. CASE \E u \in Tick : Starting(u) /\ Month(tick[u].now) = m
      BY <1>2, <3>1, <3>3 DEF Starting
    <3> QED BY <3>1, <3>2, <3>3 DEF MInv, Traced
  <2>2. CASE schedule # None /\ schedule.id = tick[t].row
    <3>1. Starting(t) /\ schedule'.last = schedule.last
      BY <1>1, <2>2 DEF Starting
    <3>2. CASE schedule'.lastError
      BY <3>2 DEF Shown
    <3>3. CASE job[t].pc = "answered" /\ schedule'.lastRun = job[t].run /\ job[t].run \in DOMAIN runs
      <4>1. runs[job[t].run].at = job[t].at /\ job[t].at = tick[t].now
            /\ Month(tick[t].now) = Month(time)
        BY <1>1, <3>3 DEF SInv, AnswerCoversRequest, Caller, MInv, AsksForNow, InMonth
      <4>2. CASE m = Month(time)
        <5>1. runs \in Seq(RunType)
          BY DEF SInv, TypeOK
        <5>2. DOMAIN runs = 1 .. Len(runs)
          BY <5>1
        <5>3. job[t].run # 0
          BY <3>3, <5>2
        <5> QED BY <1>1, <3>3, <4>1, <4>2, <5>3 DEF Shown, Month
      <4>3. CASE m # Month(time)
        BY <3>1, <4>3 DEF MInv, Passed, Shown
      <4> QED BY <4>2, <4>3
    <3> QED BY <1>1, <2>2, <3>2, <3>3
  <2> QED BY <2>1, <2>2
<1> QED BY <1>3, <1>5, <1>6 DEF MInv

LEMMA MCrash == ASSUME SInv, MInv, NEW t \in Tick, CrashTick(t) PROVE MInv'
<1>1. /\ tick'[t].pc = "idle" /\ \A u \in Tick : u # t => tick'[u] = tick[u]
      /\ \A u \in Tick : u # t => job'[u] = job[u]
      /\ UNCHANGED <<time, runs, schedule, claims, saves>> /\ crashes' # 0
  BY BoundAssumption DEF CrashTick, SInv, TypeOK, NoTick, Caller
<1>2. InMonth' /\ AsksForNow' /\ Marked'
  BY <1>1 DEF MInv, InMonth, AsksForNow, Marked, LastMonth, Month
<1>3. Passed'
  BY <1>1 DEF MInv, Passed, Starting, LastMonth, Month
<1> QED BY <1>1, <1>2, <1>3 DEF MInv, Traced

LEMMA MNext == ASSUME SInv, MInv, [Next]_vars, Straddling = FALSE PROVE MInv'
<1>1. CASE Advance
  BY <1>1, MAdvance
<1>2. CASE \E p \in Person : Prepare(p) \/ Insert(p) \/ \E f \in Preset : Submit(p, f)
  BY <1>2, MPrepare, MInsert, MSubmit DEF Caller
<1>3. CASE Stop \/ \E f \in Preset, slot \in 0 .. MonthLength - 1 : Save(f, slot)
  BY <1>3, MSave
<1>4. CASE \E t \in Tick : RunTick(t) \/ CrashTick(t)
  BY <1>4, MReadSchedule, MClaimMonth, MPrepare, MInsert, MRecord, MCrash DEF RunTick, Caller
<1>5. CASE UNCHANGED vars
  BY <1>5 DEF vars, MInv, InMonth, AsksForNow, Marked, Passed, Traced, Starting, Shown,
              LastMonth, Month
<1> QED BY <1>1, <1>2, <1>3, <1>4, <1>5 DEF Next

\* While no tick outlives its month, the mark on the row says which months are claimed
\* and every claim is shown or at work (schedules/store.ts, startDueSchedules).
THEOREM MonthInvariance == ASSUME Straddling = FALSE PROVE Spec => []MInv
<1>1. Init => SInv /\ MInv
  BY SInit, MInit
<1>2. SInv /\ MInv /\ [Next]_vars => SInv' /\ MInv'
  BY SNext, MNext
<1> QED BY <1>1, <1>2, PTL DEF Spec

\* However many ticks see the schedule due, a month is claimed once between two saves,
\* while no tick outlives its month.
THEOREM MonthsClaimedOnce == ASSUME Straddling = FALSE PROVE Spec => []OneClaimPerMonth
<1>1. SInv /\ MInv => OneClaimPerMonth
  BY DEF SInv, TypeOK, MInv, Marked, OneClaimPerMonth
<1> QED BY <1>1, SubmissionInvariance, MonthInvariance, PTL

\* A claimed month shows a run of it or an error once the ticks are done, while none
\* dies or outlives its month.
THEOREM ClaimsAreTraced == ASSUME Straddling = FALSE PROVE Spec => []ClaimLeavesATrace
<1>1. SInv /\ MInv => ClaimLeavesATrace
  BY DEF SInv, TypeOK, MInv, Traced, Starting, Shown, ClaimLeavesATrace
<1> QED BY <1>1, SubmissionInvariance, MonthInvariance, PTL
===============================================================================
