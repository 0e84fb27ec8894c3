------------------------------ MODULE Schedule ------------------------------
(***************************************************************************)
(* Workflow schedules: the rows of WorkflowSchedule the engine's handlers  *)
(* keep, the jobs of the local cron plugin, and the callback that turns a  *)
(* fired job back into a started workflow.                                 *)
(*                                                                         *)
(* Rows live behind the connector, which runs one queued operation with    *)
(* its callback at a time (module WorkQueue); `rows` is what find()        *)
(* returns, the write-through included (module Storage). The tick runs on  *)
(* its own contract, and its mutex makes each sweep and each change of a   *)
(* job atomic. A cron expression is the set of minutes it matches.         *)
(***************************************************************************)
EXTENDS Integers, Sequences, FiniteSets, SequencesExt

CONSTANTS Names,     \* schedules
          Exprs,     \* cron expressions, each the set of minutes it matches
          MaxTime,   \* bound on the clock, in half minutes
          MaxOps     \* bound on requests and restarts

ASSUME ScheduleAssumption ==
    /\ IsFiniteSet(Names) /\ \A e \in Exprs : e \subseteq Nat
    /\ MaxTime \in Nat /\ MaxOps \in Nat

VARIABLES
    now,       \* the clock, in half minutes
    rows,      \* name -> WorkflowSchedule row, or NoRow
    jobs,      \* name -> Job of LocalCron, or NoJob
    fire,      \* m_fire is set
    wired,     \* the database dialect has been handed to the connector
    queue,     \* operations of the connector, in order
    ops,       \* requests and restarts so far
    starts,    \* name -> flips whenever a workflow is started for it
    quiet,     \* names the last acknowledged write left paused, disabled or removed
    undone,    \* names whose last acknowledged write was overwritten since
    astray     \* names whose row and job may differ: see ActiveRowsAreTracked

vars == <<now, rows, jobs, fire, wired, queue, ops, starts, quiet, undone, astray>>

Row == [expr : Exprs, enabled : BOOLEAN, paused : BOOLEAN]
NoRow == [expr |-> {}, enabled |-> FALSE, paused |-> FALSE]
Active(r) == r.enabled /\ ~r.paused
NoJob == [expr |-> {}, last |-> -1]

Minute(t) == t \div 2

(* Mutant: the search starts in the minute of base itself. *)
NextAfterFromBase(e, base) == {m \in e : m >= Minute(base) /\ \A k \in e : k >= Minute(base) => m <= k}

(* CronExpression::next_after(): the first matching minute after base's own, *)
(* as a set: empty when there is none within the horizon.                    *)
NextAfter(e, base) == {m \in e : m > Minute(base) /\ \A k \in e : k > Minute(base) => m <= k}

(* Mutant: a job is not due at the very start of its minute. *)
IsDueLate(job, t) == \E m \in NextAfter(job.expr, job.last) : 2 * m < t

(* tick(): whether a job fires in a sweep at time t. *)
IsDue(job, t) == \E m \in NextAfter(job.expr, job.last) : 2 * m <= t

(* Mutant: a job that is tracked already keeps its expression. *)
UpsertJobKeeps(js, n, e) == IF js[n] = NoJob THEN [js EXCEPT ![n] = [expr |-> e, last |-> now - 2]] ELSE js

(* upsert_job(): a tracked job keeps its last fire time; a new one starts    *)
(* from a minute ago.                                                        *)
UpsertJob(js, n, e) ==
    [js EXCEPT ![n] = [expr |-> e, last |-> IF js[n] = NoJob THEN now - 2 ELSE js[n].last]]
RemoveJob(js, n) == [js EXCEPT ![n] = NoJob]

(* What the callbacks of update() and of set_paused() do with the job. *)
SyncJob(js, n, r) == IF Active(r) THEN UpsertJob(js, n, r.expr) ELSE RemoveJob(js, n)

Op(kind, n, r) == [kind |-> kind, name |-> n, row |-> r]
Seed == Op("find_all", "all", NoRow)

Init ==
    /\ now = 2
    /\ rows \in [Names -> {NoRow} \cup {r \in Row : Active(r)}]
    /\ jobs = [n \in Names |-> NoJob]
    /\ fire = FALSE /\ wired = FALSE /\ queue = <<>> /\ ops = 0
    /\ starts = [n \in Names |-> FALSE] /\ quiet = {} /\ undone = {}
    /\ astray = {n \in Names : rows[n] # NoRow}

-----------------------------------------------------------------------------
(* Boot. The tick contract is live from the cron plugin's on_load(); the     *)
(* engine's on_load() installs the callback and queues the seeding; the      *)
(* dialect is wired after every plugin's on_load().                          *)

InstallCronScheduling ==
    /\ ~fire /\ fire' = TRUE
    /\ queue' = Append(queue, Seed)
    /\ UNCHANGED <<now, rows, jobs, wired, ops, starts, quiet, undone, astray>>

WirePostBuild ==
    /\ fire /\ ~wired /\ wired' = TRUE
    /\ UNCHANGED <<now, rows, jobs, fire, queue, ops, starts, quiet, undone, astray>>

(* The process ends and starts again: jobs and queued operations are lost.   *)
Restart ==
    /\ ops < MaxOps /\ ops' = ops + 1 /\ fire
    /\ jobs' = [n \in Names |-> NoJob] /\ queue' = <<>>
    /\ fire' = FALSE /\ wired' = FALSE
    /\ astray' = {n \in Names : rows[n] # NoRow}
    /\ UNCHANGED <<now, rows, starts, quiet, undone>>

Advance == now < MaxTime /\ now' = now + 1 /\ UNCHANGED <<rows, jobs, fire, wired, queue, ops, starts, quiet, undone, astray>>

-----------------------------------------------------------------------------
(* The handlers, up to the operation they queue. Requests come in once the   *)
(* process is up. A body that does not parse, or whose expression does not,  *)
(* is answered with an error and changes nothing.                            *)

Request(o) ==
    /\ wired /\ ops < MaxOps /\ ops' = ops + 1
    /\ queue' = Append(queue, o)
    /\ UNCHANGED <<now, rows, jobs, fire, wired, starts, quiet, undone, astray>>

CreateSchedule(n) == \E r \in Row : Request(Op("upsert", n, r))
UpdateSchedule(n) == \E r \in Row : Request(Op("update", n, r))
RemoveSchedule(n) == Request(Op("remove", n, NoRow))
PauseSchedule(n) == Request(Op("find_pause", n, NoRow))
ResumeSchedule(n) == Request(Op("find_resume", n, NoRow))

(* LocalCron::tick(): every due job is stamped and its find() is queued, in  *)
(* the order of the map.                                                     *)
Tick ==
    /\ fire
    /\ LET due == {n \in Names : jobs[n] # NoJob /\ IsDue(jobs[n], now)}
       IN /\ due # {}
          /\ jobs' = [n \in Names |-> IF n \in due THEN [jobs[n] EXCEPT !.last = now] ELSE jobs[n]]
          /\ \E order \in SetToSeqs(due) :
                queue' = queue \o [i \in DOMAIN order |-> Op("fire", order[i], NoRow)]
    /\ UNCHANGED <<now, rows, fire, wired, ops, starts, quiet, undone, astray>>

-----------------------------------------------------------------------------
(* The connector runs the operation at the head of its queue.                *)

Rest == Tail(queue)
Runs(kind) == queue # <<>> /\ Head(queue).kind = kind
Acknowledged(n, r) ==
    /\ quiet' = IF Active(r) THEN quiet \ {n} ELSE quiet \cup {n}
    /\ undone' = undone \ {n} /\ astray' = astray \ {n}

(* The seeding, once find_all() can read the rows.                           *)
SeedJobs ==
    /\ Runs("find_all")
    /\ LET seeded == IF wired THEN {n \in Names : Active(rows[n])} ELSE {}
       IN /\ jobs' = [n \in Names |-> IF n \in seeded THEN UpsertJob(jobs, n, rows[n].expr)[n] ELSE jobs[n]]
          /\ astray' = astray \ (IF wired THEN Names ELSE {})
    /\ queue' = Rest
    /\ UNCHANGED <<now, rows, fire, wired, ops, starts, quiet, undone>>

(* create_schedule(): an inactive schedule leaves the job as it is. *)
UpsertRow ==
    /\ Runs("upsert")
    /\ LET n == Head(queue).name  r == Head(queue).row
       IN /\ rows' = [rows EXCEPT ![n] = r]
          /\ jobs' = IF Active(r) THEN UpsertJob(jobs, n, r.expr) ELSE jobs
          /\ Acknowledged(n, r)
    /\ queue' = Rest
    /\ UNCHANGED <<now, fire, wired, ops, starts>>

(* update_schedule(), and the update of set_paused(). *)
UpdateRow ==
    /\ Runs("update")
    /\ LET n == Head(queue).name  r == Head(queue).row
       IN /\ rows' = [rows EXCEPT ![n] = r]
          /\ jobs' = SyncJob(jobs, n, r)
          /\ Acknowledged(n, r)
    /\ queue' = Rest
    /\ UNCHANGED <<now, fire, wired, ops, starts>>

RemoveRow ==
    /\ Runs("remove")
    /\ LET n == Head(queue).name
       IN /\ rows' = [rows EXCEPT ![n] = NoRow]
          /\ jobs' = RemoveJob(jobs, n)
          /\ Acknowledged(n, NoRow)
    /\ queue' = Rest
    /\ UNCHANGED <<now, fire, wired, ops, starts>>

(* A write the database refuses: find() sees it in the cache all the same,   *)
(* the callback leaves the job alone.                                        *)
WriteFails ==
    /\ Runs("upsert") \/ Runs("update") \/ Runs("remove")
    /\ rows' = [rows EXCEPT ![Head(queue).name] = Head(queue).row]
    /\ undone' = undone \cup {Head(queue).name} /\ astray' = astray \cup {Head(queue).name}
    /\ queue' = Rest
    /\ UNCHANGED <<now, jobs, fire, wired, ops, starts, quiet>>

(* set_paused(): the row is read, and an update of it is queued. *)
SetPaused ==
    /\ Runs("find_pause") \/ Runs("find_resume")
    /\ LET n == Head(queue).name
       IN queue' = IF rows[n] = NoRow THEN Rest
                   ELSE Append(Rest, Op("update", n, [rows[n] EXCEPT !.paused = Runs("find_pause")]))
    /\ UNCHANGED <<now, rows, jobs, fire, wired, ops, starts, quiet, undone, astray>>

(* The fire callback: a schedule that is still active has its row written    *)
(* back with a new last_fired_at and its workflow started.                   *)
FireCallback ==
    /\ Runs("fire")
    /\ LET n == Head(queue).name
       IN IF Active(rows[n])
          THEN /\ queue' = Append(Rest, Op("stamp", n, rows[n]))
               /\ starts' = [starts EXCEPT ![n] = ~@]
          ELSE queue' = Rest /\ UNCHANGED starts
    /\ UNCHANGED <<now, rows, jobs, fire, wired, ops, quiet, undone, astray>>

(* The update that the fire callback queued writes the row as it was read,   *)
(* over whatever was written since. Its callback does nothing.               *)
Stamp ==
    /\ Runs("stamp")
    /\ LET n == Head(queue).name  r == Head(queue).row
       IN /\ rows' = [rows EXCEPT ![n] = r]
          /\ IF r = rows[n] THEN UNCHANGED <<undone, astray>>
             ELSE undone' = undone \cup {n} /\ astray' = astray \cup {n}
    /\ queue' = Rest
    /\ UNCHANGED <<now, jobs, fire, wired, ops, starts, quiet>>

RunOp == SeedJobs \/ UpsertRow \/ UpdateRow \/ RemoveRow \/ WriteFails \/ SetPaused \/ FireCallback \/ Stamp

Next ==
    \/ InstallCronScheduling \/ WirePostBuild \/ Restart \/ Advance
    \/ \E n \in Names : CreateSchedule(n) \/ UpdateSchedule(n) \/ RemoveSchedule(n) \/ PauseSchedule(n) \/ ResumeSchedule(n)
    \/ Tick
    \/ SeedJobs \/ UpsertRow \/ UpdateRow \/ RemoveRow \/ WriteFails \/ SetPaused \/ FireCallback \/ Stamp

(* The tick contract reschedules itself every second and the connector's     *)
(* whenever its queue is not empty.                                          *)
Spec == Init /\ [][Next]_vars /\ WF_vars(Tick) /\ WF_vars(RunOp)

-----------------------------------------------------------------------------
(* A sweep fires a job only for a minute it has not fired for: at most once  *)
(* per minute however often it runs, and never for a minute at or before the *)
(* one it last fired in, whatever expressions replaced each other meanwhile. *)
FiresOncePerMinute ==
    [][\A n \in Names :
         (jobs[n] # NoJob /\ jobs'[n] # NoJob /\ jobs'[n].last # jobs[n].last) =>
             \E m \in jobs[n].expr : Minute(jobs[n].last) < m /\ m <= Minute(jobs'[n].last)]_vars

(* Every active schedule has a job with its expression, so that it will      *)
(* fire, unless the two have gone astray: a write failed, a fire wrote an    *)
(* old row back, or the seeding has not run, or ran before the dialect was   *)
(* wired, and its row has not been written since.                            *)
ActiveRowsAreTracked ==
    \A n \in Names \ astray : Active(rows[n]) => jobs[n].expr = rows[n].expr /\ jobs[n] # NoJob

(* Once pausing, disabling or removing a schedule has been acknowledged, no  *)
(* workflow starts for it until a later write makes it active, be it a fire  *)
(* that writes an old row back: fires already queued find it inactive.       *)
QuietMeansQuiet ==
    [][\A n \in quiet \ undone : starts'[n] = starts[n]]_vars

(* A schedule starts its workflow when it should and never else.             *)
FiresExactly == FiresOncePerMinute /\ QuietMeansQuiet

(* A due job of an active schedule starts its workflow, unless the schedule  *)
(* or its job changes first.                                                 *)
DueStarts ==
    \A n \in Names : \A c \in BOOLEAN : \A e \in Exprs :
        (fire /\ starts[n] = c /\ Active(rows[n]) /\ jobs[n].expr = e
           /\ \E m \in e : Minute(jobs[n].last) < m /\ 2 * m <= now)
          ~> (starts[n] # c \/ ~Active(rows[n]) \/ jobs[n].expr # e \/ jobs[n] = NoJob)

-----------------------------------------------------------------------------
(* What the code says of itself and does not keep.                           *)

(* "a now-disabled or paused schedule drops out of the backend": nothing is  *)
(* started for it once the change is acknowledged.                           *)
PauseHolds == [][\A n \in quiet : starts'[n] = starts[n]]_vars

(* "every currently active schedule is registered here on load".             *)
SeedsAll == [][SeedJobs => \A n \in Names : Active(rows[n]) => jobs'[n] # NoJob]_vars
=============================================================================
