--------------------------- MODULE ScheduleProofs ---------------------------
(***************************************************************************)
(* Schedule for any set of schedules and of cron expressions, any clock    *)
(* and any number of requests and restarts: the job of a schedule follows  *)
(* its row, a sweep fires a job at most once per minute and only in a      *)
(* minute its expression matches, and an acknowledged pause is quiet.      *)
(***************************************************************************)
EXTENDS Schedule, FiniteSetTheorems, SequenceTheorems, TLAPS

AnyRow == [expr : SUBSET Nat, enabled : BOOLEAN, paused : BOOLEAN]
AnyJob == [expr : SUBSET Nat, last : Int]
Kinds  == {"find_all", "upsert", "update", "remove", "find_pause", "find_resume", "fire", "stamp"}

(* A queued operation; all but the seeding are about one schedule. *)
AnyOp == {o \in [kind : Kinds, name : Names \cup {"all"}, row : AnyRow] :
              o.kind # "find_all" => o.name \in Names}

(* What the state looks like. A job that is tracked has a fire time on the  *)
(* clock, so that upsert_job() never makes one that reads as untracked.     *)
Shape ==
    /\ now \in Nat /\ now >= 2
    /\ rows \in [Names -> AnyRow]
    /\ jobs \in [Names -> AnyJob]
    /\ \A n \in Names : jobs[n] = NoJob \/ jobs[n].last >= 0
    /\ queue \in Seq(AnyOp)
    /\ quiet \subseteq Names

(* The rows of quiet schedules are not active, whatever is still queued.    *)
QuietRows == \A n \in quiet \ undone : ~Active(rows[n])

ScheduleInv == Shape /\ ActiveRowsAreTracked /\ QuietRows

-----------------------------------------------------------------------------
(* Rows, jobs and operations. *)

LEMMA RowTypes ==
    /\ Row \subseteq AnyRow /\ NoRow \in AnyRow /\ ~Active(NoRow)
    /\ \A r \in AnyRow : \A b \in BOOLEAN : [r EXCEPT !.paused = b] \in AnyRow
    /\ \A r \in AnyRow : r.expr \in SUBSET Nat
  <1>1. Row \subseteq AnyRow
    BY ScheduleAssumption DEF Row, AnyRow
  <1>2. NoRow \in AnyRow /\ ~Active(NoRow)
    BY DEF NoRow, AnyRow, Active
  <1>3. \A r \in AnyRow : \A b \in BOOLEAN : [r EXCEPT !.paused = b] \in AnyRow
    BY DEF AnyRow
  <1>4. \A r \in AnyRow : r.expr \in SUBSET Nat
    BY DEF AnyRow
  <1> QED
    BY <1>1, <1>2, <1>3, <1>4

LEMMA OpTypes ==
    /\ Seed \in AnyOp
    /\ \A k \in Kinds \ {"find_all"} : \A n \in Names : \A r \in AnyRow : Op(k, n, r) \in AnyOp
  <1>1. Seed \in AnyOp
    BY RowTypes DEF Seed, Op, AnyOp, Kinds
  <1>2. ASSUME NEW k \in Kinds \ {"find_all"}, NEW n \in Names, NEW r \in AnyRow
        PROVE  Op(k, n, r) \in AnyOp
    BY DEF Op, AnyOp
  <1> QED
    BY <1>1, <1>2

(* The head of the queue is an operation, the rest are operations. *)
LEMMA HeadIsOp ==
    ASSUME Shape, queue # <<>>
    PROVE  /\ Head(queue) \in AnyOp /\ Rest \in Seq(AnyOp)
           /\ Head(queue).row \in AnyRow
           /\ Head(queue).kind # "find_all" => Head(queue).name \in Names
  <1>1. Head(queue) \in AnyOp /\ Tail(queue) \in Seq(AnyOp)
    BY DEF Shape
  <1> QED
    BY <1>1 DEF AnyOp, Rest

(* upsert_job() leaves a tracked job with the expression, its old fire time  *)
(* if it had one.                                                            *)
LEMMA UpsertTracks ==
    ASSUME Shape, NEW n \in Names, NEW e \in SUBSET Nat
    PROVE  LET js == UpsertJob(jobs, n, e)
           IN  /\ js \in [Names -> AnyJob] /\ js[n].expr = e /\ js[n].last >= 0 /\ js[n] # NoJob
               /\ jobs[n] # NoJob => js[n].last = jobs[n].last
               /\ \A k \in Names \ {n} : js[k] = jobs[k]
  <1> DEFINE l == IF jobs[n] = NoJob THEN now - 2 ELSE jobs[n].last
             j == [expr |-> e, last |-> l]
  <1>1. l \in Int /\ l >= 0
    <2>1. jobs[n] \in AnyJob
      BY DEF Shape
    <2>2. jobs[n].last \in Int
      BY <2>1 DEF AnyJob
    <2> QED
      BY <2>2 DEF Shape
  <1>2. j \in AnyJob /\ j.expr = e /\ j.last = l
    BY <1>1 DEF AnyJob
  <1>3. j # NoJob
    BY <1>1, <1>2 DEF NoJob
  <1>4. UpsertJob(jobs, n, e) = [jobs EXCEPT ![n] = j]
    BY DEF UpsertJob
  <1> HIDE DEF j
  <1>5. [jobs EXCEPT ![n] = j] \in [Names -> AnyJob] /\ [jobs EXCEPT ![n] = j][n] = j
        /\ \A k \in Names \ {n} : [jobs EXCEPT ![n] = j][k] = jobs[k]
    BY <1>2 DEF Shape
  <1> QED
    BY <1>1, <1>2, <1>3, <1>4, <1>5

LEMMA RemoveUntracks ==
    ASSUME Shape, NEW n \in Names
    PROVE  LET js == RemoveJob(jobs, n)
           IN  /\ js \in [Names -> AnyJob] /\ js[n] = NoJob
               /\ \A k \in Names \ {n} : js[k] = jobs[k]
  <1>1. NoJob \in AnyJob
    BY DEF NoJob, AnyJob
  <1> HIDE DEF NoJob
  <1> QED
    BY <1>1 DEF RemoveJob, Shape

-----------------------------------------------------------------------------
(* The sweep. *)

Due == {n \in Names : jobs[n] # NoJob /\ IsDue(jobs[n], now)}

(* A job that is due has a matching minute since its last fire. *)
LEMMA DueHasMinute ==
    ASSUME Shape, NEW n \in Due
    PROVE  \E m \in jobs[n].expr : Minute(jobs[n].last) < m /\ m <= Minute(now)
  <1>1. PICK m \in NextAfter(jobs[n].expr, jobs[n].last) : 2 * m <= now
    BY DEF Due, IsDue
  <1>2. jobs[n] \in AnyJob
    BY DEF Shape, Due
  <1>3. m \in jobs[n].expr /\ m > Minute(jobs[n].last) /\ m \in Nat /\ jobs[n].last \in Int
    BY <1>1, <1>2 DEF NextAfter, AnyJob
  <1>4. now \in Nat
    BY DEF Shape
  <1>5. m <= Minute(now)
    BY <1>1, <1>3, <1>4 DEF Minute
  <1>6. Minute(jobs[n].last) \in Int
    BY <1>3 DEF Minute
  <1> QED
    BY <1>3, <1>5, <1>6

LEMMA TickShape ==
    ASSUME Shape, Tick
    PROVE  /\ Shape'
           /\ \A n \in Names : jobs'[n] = IF n \in Due THEN [jobs[n] EXCEPT !.last = now] ELSE jobs[n]
           /\ \A n \in Names : jobs[n] \in AnyJob /\ jobs'[n].expr = jobs[n].expr
           /\ \A n \in Names : jobs[n] # NoJob => jobs'[n] # NoJob
  <1>1. jobs' = [n \in Names |-> IF n \in Due THEN [jobs[n] EXCEPT !.last = now] ELSE jobs[n]]
    BY DEF Tick, Due
  <1>2. ASSUME NEW n \in Names
        PROVE  /\ jobs[n] \in AnyJob /\ jobs'[n] \in AnyJob /\ jobs'[n].expr = jobs[n].expr
               /\ jobs'[n] = NoJob \/ jobs'[n].last >= 0
               /\ jobs[n] # NoJob => jobs'[n] # NoJob
    <2>1. jobs[n] \in AnyJob /\ now \in Nat /\ (jobs[n] = NoJob \/ jobs[n].last >= 0)
      BY DEF Shape
    <2>2. jobs'[n] = IF n \in Due THEN [jobs[n] EXCEPT !.last = now] ELSE jobs[n]
      BY <1>1
    <2>3. CASE n \in Due
      BY <2>1, <2>2, <2>3 DEF AnyJob, NoJob
    <2>4. CASE n \notin Due
      BY <2>1, <2>2, <2>4
    <2> QED
      BY <2>3, <2>4
  <1>3. PICK order \in SetToSeqs(Due) :
            queue' = queue \o [i \in DOMAIN order |-> Op("fire", order[i], NoRow)]
    BY DEF Tick, Due
  <1>4. order \in [1..Cardinality(Due) -> Due] /\ Cardinality(Due) \in Nat
    <2>1. IsFiniteSet(Due)
      BY ScheduleAssumption, FS_Subset DEF Due
    <2> QED
      BY <2>1, FS_CardinalityType DEF SetToSeqs
  <1>5. [i \in DOMAIN order |-> Op("fire", order[i], NoRow)] \in [1..Cardinality(Due) -> AnyOp]
    <2>1. \A i \in 1..Cardinality(Due) : order[i] \in Names
      BY <1>4 DEF Due
    <2>2. DOMAIN order = 1..Cardinality(Due)
      BY <1>4
    <2>3. \A i \in 1..Cardinality(Due) : Op("fire", order[i], NoRow) \in AnyOp
      BY <2>1, OpTypes, RowTypes DEF Kinds
    <2> QED
      BY <2>2, <2>3
  <1>6. [i \in DOMAIN order |-> Op("fire", order[i], NoRow)] \in Seq(AnyOp)
    BY <1>4, <1>5
  <1>7. queue' \in Seq(AnyOp)
    BY <1>3, <1>6 DEF Shape
  <1>8. jobs' \in [Names -> AnyJob]
    BY <1>1, <1>2
  <1> QED
    BY <1>1, <1>2, <1>7, <1>8 DEF Shape, Tick

-----------------------------------------------------------------------------
(* The inductive step. *)

LEMMA InitInv == Init => ScheduleInv
  <1> SUFFICES ASSUME Init PROVE ScheduleInv
    OBVIOUS
  <1>1. rows \in [Names -> AnyRow]
    BY RowTypes DEF Init
  <1>2. jobs \in [Names -> AnyJob] /\ \A n \in Names : jobs[n] = NoJob
    BY DEF Init, AnyJob, NoJob
  <1>3. queue \in Seq(AnyOp)
    BY DEF Init
  <1>4. Shape
    BY <1>1, <1>2, <1>3 DEF Init, Shape
  <1>5. ActiveRowsAreTracked
    BY RowTypes DEF Init, ActiveRowsAreTracked
  <1> QED
    BY <1>4, <1>5 DEF ScheduleInv, QuietRows, Init

(* A row is written, and the job of the schedule is brought in line. *)
LEMMA WriteRow ==
    ASSUME ScheduleInv, NEW n \in Names, NEW r \in AnyRow, queue # <<>>, queue' = Rest, now' = now,
           rows' = [rows EXCEPT ![n] = r], Acknowledged(n, r),
           jobs' = UpsertJob(jobs, n, r.expr)
             \/ (~Active(r) /\ (jobs' = RemoveJob(jobs, n) \/ jobs' = jobs))
    PROVE  ScheduleInv'
  <1> USE DEF ScheduleInv
  <1>1. r.expr \in SUBSET Nat /\ queue' \in Seq(AnyOp)
    BY RowTypes, HeadIsOp
  <1>2. rows' \in [Names -> AnyRow] /\ rows'[n] = r /\ \A k \in Names \ {n} : rows'[k] = rows[k]
    BY DEF Shape
  <1>3. /\ jobs' \in [Names -> AnyJob] /\ \A k \in Names \ {n} : jobs'[k] = jobs[k]
        /\ jobs'[n] = NoJob \/ jobs'[n].last >= 0
        /\ Active(r) => jobs'[n].expr = r.expr /\ jobs'[n] # NoJob
    <2>1. CASE jobs' = UpsertJob(jobs, n, r.expr)
      BY <2>1, <1>1, UpsertTracks
    <2>2. CASE ~Active(r) /\ jobs' = RemoveJob(jobs, n)
      BY <2>2, RemoveUntracks
    <2>3. CASE ~Active(r) /\ jobs' = jobs
      BY <2>3 DEF Shape
    <2> QED
      BY <2>1, <2>2, <2>3
  <1>4. Shape'
    BY <1>1, <1>2, <1>3 DEF Shape, Acknowledged
  <1>5. ActiveRowsAreTracked'
    BY <1>2, <1>3 DEF ActiveRowsAreTracked, Acknowledged
  <1>6. QuietRows'
    BY <1>2 DEF QuietRows, Acknowledged
  <1> QED
    BY <1>4, <1>5, <1>6

(* A row is written and its job left alone: the schedule goes astray, unless *)
(* the row was the same.                                                     *)
LEMMA WriteRowOnly ==
    ASSUME ScheduleInv, NEW n \in Names, NEW r \in AnyRow, queue # <<>>, queue' = Rest, now' = now,
           rows' = [rows EXCEPT ![n] = r], UNCHANGED <<jobs, quiet>>,
           \/ r = rows[n] /\ UNCHANGED <<undone, astray>>
           \/ undone' = undone \cup {n} /\ astray' = astray \cup {n}
    PROVE  ScheduleInv'
  <1> USE DEF ScheduleInv
  <1>1. queue' \in Seq(AnyOp)
    BY HeadIsOp
  <1>2. rows' \in [Names -> AnyRow] /\ rows'[n] = r /\ \A k \in Names \ {n} : rows'[k] = rows[k]
    BY DEF Shape
  <1>3. Shape'
    BY <1>1, <1>2 DEF Shape
  <1>4. ActiveRowsAreTracked' /\ QuietRows'
    BY <1>2 DEF ActiveRowsAreTracked, QuietRows
  <1> QED
    BY <1>3, <1>4

(* Neither rows nor jobs change. *)
LEMMA QueueOnly ==
    ASSUME ScheduleInv, now' \in {now, now + 1}, queue' \in Seq(AnyOp), UNCHANGED <<rows, jobs, quiet, undone, astray>>
    PROVE  ScheduleInv'
  BY DEF ScheduleInv, Shape, ActiveRowsAreTracked, QuietRows

LEMMA RequestStep ==
    ASSUME ScheduleInv, NEW o \in AnyOp, Request(o)
    PROVE  ScheduleInv'
  <1>1. queue' \in Seq(AnyOp)
    BY DEF Request, ScheduleInv, Shape
  <1> QED
    BY <1>1, QueueOnly DEF Request

LEMMA RestartStep == ASSUME ScheduleInv, Restart PROVE ScheduleInv'
  <1>1. jobs' \in [Names -> AnyJob] /\ \A n \in Names : jobs'[n] = NoJob
    BY DEF Restart, AnyJob, NoJob
  <1>2. queue' \in Seq(AnyOp)
    BY DEF Restart
  <1>3. Shape'
    BY <1>1, <1>2 DEF ScheduleInv, Shape, Restart
  <1>4. ActiveRowsAreTracked'
    BY RowTypes DEF ActiveRowsAreTracked, Restart
  <1> QED
    BY <1>3, <1>4 DEF ScheduleInv, QuietRows, Restart

LEMMA SeedStep == ASSUME ScheduleInv, SeedJobs PROVE ScheduleInv'
  <1> USE DEF ScheduleInv
  <1> DEFINE seeded == IF wired THEN {n \in Names : Active(rows[n])} ELSE {}
  <1>1. jobs' = [n \in Names |-> IF n \in seeded THEN UpsertJob(jobs, n, rows[n].expr)[n] ELSE jobs[n]]
    BY DEF SeedJobs
  <1>2. ASSUME NEW n \in Names
        PROVE  /\ jobs'[n] \in AnyJob /\ (jobs'[n] = NoJob \/ jobs'[n].last >= 0)
               /\ n \in seeded => jobs'[n].expr = rows[n].expr /\ jobs'[n] # NoJob
               /\ n \notin seeded => jobs'[n] = jobs[n]
    <2>1. rows[n].expr \in SUBSET Nat
      BY RowTypes DEF Shape
    <2>2. CASE n \in seeded
      BY <1>1, <2>1, <2>2, UpsertTracks
    <2>3. CASE n \notin seeded
      BY <1>1, <2>3 DEF Shape
    <2> QED
      BY <2>2, <2>3
  <1>3. jobs' \in [Names -> AnyJob]
    BY <1>1, <1>2
  <1>4. queue' \in Seq(AnyOp)
    BY HeadIsOp DEF SeedJobs, Runs
  <1>5. Shape'
    BY <1>2, <1>3, <1>4 DEF Shape, SeedJobs
  <1>6. ActiveRowsAreTracked'
    BY <1>2 DEF ActiveRowsAreTracked, SeedJobs
  <1> QED
    BY <1>5, <1>6 DEF QuietRows, SeedJobs

LEMMA TickStep == ASSUME ScheduleInv, Tick PROVE ScheduleInv'
  <1>1. Shape' /\ \A n \in Names : jobs'[n].expr = jobs[n].expr /\ (jobs[n] # NoJob => jobs'[n] # NoJob)
    BY TickShape DEF ScheduleInv
  <1> QED
    BY <1>1 DEF ScheduleInv, ActiveRowsAreTracked, QuietRows, Tick

LEMMA SetPausedStep == ASSUME ScheduleInv, SetPaused PROVE ScheduleInv'
  <1> DEFINE n == Head(queue).name
             r == [rows[n] EXCEPT !.paused = Runs("find_pause")]
  <1>1. queue # <<>> /\ n \in Names /\ Rest \in Seq(AnyOp)
    BY HeadIsOp DEF SetPaused, Runs, ScheduleInv
  <1>2. Runs("find_pause") \in BOOLEAN /\ rows[n] \in AnyRow
    BY <1>1 DEF Runs, ScheduleInv, Shape
  <1>3. r \in AnyRow
    BY <1>2, RowTypes
  <1>4. Op("update", n, r) \in AnyOp
    BY <1>1, <1>3, OpTypes DEF Kinds
  <1>5. queue' = Rest \/ queue' = Append(Rest, Op("update", n, r))
    BY DEF SetPaused
  <1> HIDE DEF r, n
  <1>6. queue' \in Seq(AnyOp)
    BY <1>1, <1>4, <1>5
  <1> QED
    BY <1>6, QueueOnly DEF SetPaused

LEMMA FireStep == ASSUME ScheduleInv, FireCallback PROVE ScheduleInv'
  <1> DEFINE n == Head(queue).name
  <1>1. queue # <<>> /\ n \in Names /\ Rest \in Seq(AnyOp)
    BY HeadIsOp DEF FireCallback, Runs, ScheduleInv
  <1>2. Op("stamp", n, rows[n]) \in AnyOp
    BY <1>1, OpTypes DEF Kinds, ScheduleInv, Shape
  <1>3. queue' = Rest \/ queue' = Append(Rest, Op("stamp", n, rows[n]))
    BY DEF FireCallback
  <1> HIDE DEF n
  <1>4. queue' \in Seq(AnyOp)
    BY <1>1, <1>2, <1>3
  <1> QED
    BY <1>4, QueueOnly DEF FireCallback

LEMMA ScheduleStep == ScheduleInv /\ [Next]_vars => ScheduleInv'
  <1> SUFFICES ASSUME ScheduleInv, [Next]_vars PROVE ScheduleInv'
    OBVIOUS
  <1> DEFINE n == Head(queue).name
             r == Head(queue).row
  <1>h. ASSUME queue # <<>>, Head(queue).kind # "find_all" PROVE n \in Names /\ r \in AnyRow
    BY <1>h, HeadIsOp DEF ScheduleInv
  <1>1. CASE InstallCronScheduling
    <2>1. queue' \in Seq(AnyOp)
      BY <1>1, OpTypes DEF InstallCronScheduling, ScheduleInv, Shape
    <2> QED
      BY <2>1, <1>1, QueueOnly DEF InstallCronScheduling
  <1>2. CASE WirePostBuild \/ Advance \/ UNCHANGED vars
    BY <1>2, QueueOnly DEF WirePostBuild, Advance, vars, ScheduleInv, Shape
  <1>3. CASE Restart
    BY <1>3, RestartStep
  <1>4. ASSUME NEW k \in Names,
               CreateSchedule(k) \/ UpdateSchedule(k) \/ RemoveSchedule(k) \/ PauseSchedule(k) \/ ResumeSchedule(k)
        PROVE  ScheduleInv'
    <2>1. CASE CreateSchedule(k) \/ UpdateSchedule(k)
      <3>1. PICK q \in Row : Request(Op("upsert", k, q)) \/ Request(Op("update", k, q))
        BY <2>1 DEF CreateSchedule, UpdateSchedule
      <3>2. Op("upsert", k, q) \in AnyOp /\ Op("update", k, q) \in AnyOp
        BY RowTypes, OpTypes DEF Kinds
      <3> QED
        BY <3>1, <3>2, RequestStep
    <2>2. CASE RemoveSchedule(k) \/ PauseSchedule(k) \/ ResumeSchedule(k)
      <3>1. \A j \in {"remove", "find_pause", "find_resume"} : Op(j, k, NoRow) \in AnyOp
        BY RowTypes, OpTypes DEF Kinds
      <3> QED
        BY <2>2, <3>1, RequestStep DEF RemoveSchedule, PauseSchedule, ResumeSchedule
    <2> QED
      BY <1>4, <2>1, <2>2
  <1>5. CASE Tick
    BY <1>5, TickStep
  <1>6. CASE SeedJobs
    BY <1>6, SeedStep
  <1>7. CASE UpsertRow
    BY <1>7, <1>h, WriteRow DEF UpsertRow, Runs
  <1>8. CASE UpdateRow
    BY <1>8, <1>h, WriteRow DEF UpdateRow, Runs, SyncJob
  <1>9. CASE RemoveRow
    BY <1>9, <1>h, WriteRow, RowTypes DEF RemoveRow, Runs
  <1>10. CASE WriteFails
    BY <1>10, <1>h, WriteRowOnly DEF WriteFails, Runs
  <1>11. CASE SetPaused
    BY <1>11, SetPausedStep
  <1>12. CASE FireCallback
    BY <1>12, FireStep
  <1>13. CASE Stamp
    BY <1>13, <1>h, WriteRowOnly DEF Stamp, Runs
  <1> QED
    BY <1>1, <1>2, <1>3, <1>4, <1>5, <1>6, <1>7, <1>8, <1>9, <1>10, <1>11, <1>12, <1>13 DEF Next

-----------------------------------------------------------------------------
(* The job of an active schedule follows its row at every moment: unless a   *)
(* write failed or an old row was written back, and from the seeding or its  *)
(* first write on, the local cron tracks it with the expression of the row,  *)
(* whatever is queued and however often the process restarts.                *)
THEOREM JobsFollowRows == Spec => []ActiveRowsAreTracked
  <1>1. ScheduleInv => ActiveRowsAreTracked
    BY DEF ScheduleInv
  <1> QED
    BY InitInv, ScheduleStep, <1>1, PTL DEF Spec

(* One sweep, however late, moves a job's fire time only over a minute its   *)
(* expression matches, and no other step moves it at all.                    *)
LEMMA FireTimeMoves ==
    ASSUME ScheduleInv, [Next]_vars, NEW n \in Names,
           jobs[n] # NoJob, jobs'[n] # NoJob, jobs'[n].last # jobs[n].last
    PROVE  \E m \in jobs[n].expr : Minute(jobs[n].last) < m /\ m <= Minute(jobs'[n].last)
  <1> USE DEF ScheduleInv
  <1>t. jobs[n] \in AnyJob
    BY DEF Shape
  <1>1. CASE Tick
    <2>1. jobs'[n] = IF n \in Due THEN [jobs[n] EXCEPT !.last = now] ELSE jobs[n]
      BY <1>1, TickShape
    <2>2. n \in Due /\ jobs'[n].last = now
      BY <2>1, <1>t DEF AnyJob
    <2> QED
      BY <2>2, DueHasMinute
  <1>2. CASE SeedJobs
    <2>1. rows[n].expr \in SUBSET Nat
      BY RowTypes DEF Shape
    <2>2. jobs'[n] = UpsertJob(jobs, n, rows[n].expr)[n] \/ jobs'[n] = jobs[n]
      BY <1>2 DEF SeedJobs
    <2> QED
      BY <2>1, <2>2, UpsertTracks
  <1>3. CASE UpsertRow \/ UpdateRow \/ RemoveRow
    <2> DEFINE k == Head(queue).name
               r == Head(queue).row
    <2>1. k \in Names /\ r.expr \in SUBSET Nat
      BY <1>3, HeadIsOp, RowTypes DEF UpsertRow, UpdateRow, RemoveRow, Runs
    <2>2. jobs' = UpsertJob(jobs, k, r.expr) \/ jobs' = RemoveJob(jobs, k) \/ jobs' = jobs
      BY <1>3 DEF UpsertRow, UpdateRow, RemoveRow, SyncJob
    <2> HIDE DEF k, r
    <2>3. CASE k = n
      BY <2>1, <2>2, <2>3, UpsertTracks, RemoveUntracks
    <2>4. CASE k # n
      BY <2>1, <2>2, <2>4, UpsertTracks, RemoveUntracks
    <2> QED
      BY <2>3, <2>4
  <1>4. CASE Restart
    BY <1>4 DEF Restart
  <1>5. CASE UNCHANGED jobs
    BY <1>5
  <1> QED
    BY <1>1, <1>2, <1>3, <1>4, <1>5
    DEF Next, vars, InstallCronScheduling, WirePostBuild, Advance, CreateSchedule, UpdateSchedule,
        RemoveSchedule, PauseSchedule, ResumeSchedule, Request, WriteFails, SetPaused, FireCallback, Stamp

(* A workflow is started by the fire callback alone, and for an active row.  *)
LEMMA StartsWhenActive ==
    ASSUME ScheduleInv, [Next]_vars, NEW n \in Names, starts'[n] # starts[n]
    PROVE  Active(rows[n])
  <1>1. CASE FireCallback
    <2> DEFINE k == Head(queue).name
    <2>1. Active(rows[k]) /\ starts' = [starts EXCEPT ![k] = ~@]
      BY <1>1 DEF FireCallback
    <2>2. k = n
      BY <2>1
    <2> QED
      BY <2>1, <2>2
  <1>2. CASE UNCHANGED starts
    BY <1>2
  <1> QED
    BY <1>1, <1>2
    DEF Next, vars, InstallCronScheduling, WirePostBuild, Restart, Advance, CreateSchedule, UpdateSchedule,
        RemoveSchedule, PauseSchedule, ResumeSchedule, Request, Tick, SeedJobs, UpsertRow, UpdateRow,
        RemoveRow, WriteFails, SetPaused, Stamp

(* A schedule fires at most once per minute, only in a minute that matches,  *)
(* and not at all once a pause, a disabling or a removal is acknowledged,    *)
(* however many fires were queued before.                                    *)
THEOREM SchedulesFireExactly == Spec => FiresExactly
  <1> DEFINE OneMinute == \A n \in Names :
                 (jobs[n] # NoJob /\ jobs'[n] # NoJob /\ jobs'[n].last # jobs[n].last) =>
                     \E m \in jobs[n].expr : Minute(jobs[n].last) < m /\ m <= Minute(jobs'[n].last)
             StaysQuiet == \A n \in quiet \ undone : starts'[n] = starts[n]
  <1>1. ScheduleInv /\ [Next]_vars => OneMinute
    BY FireTimeMoves
  <1>2. ScheduleInv /\ [Next]_vars => StaysQuiet
    BY StartsWhenActive DEF ScheduleInv, Shape, QuietRows
  <1>3. Spec => [][OneMinute]_vars
    <2> HIDE DEF OneMinute
    <2> QED
      BY InitInv, ScheduleStep, <1>1, PTL DEF Spec
  <1>4. Spec => [][StaysQuiet]_vars
    <2> HIDE DEF StaysQuiet
    <2> QED
      BY InitInv, ScheduleStep, <1>2, PTL DEF Spec
  <1> QED
    BY <1>3, <1>4, PTL DEF FiresExactly, FiresOncePerMinute, QuietMeansQuiet
=============================================================================
