----------------------------- MODULE TaskStore ------------------------------
(***************************************************************************)
(* The task handlers of the engine and of the worker orchestrator, over a  *)
(* connector that has a database.  Every find, insert and update is then a *)
(* closure of the connector's queue (module WorkQueue shows that the queue *)
(* is first in first out and loses nothing): an operation runs on its own  *)
(* turn, and its callback, with the copies it captured, enqueues the next. *)
(* What a handler read may be stale when it writes.                        *)
(*                                                                         *)
(* One execution has been started: its start nodes are rows and nested     *)
(* copies, and one more node follows when a start node completes.          *)
(***************************************************************************)
EXTENDS Naturals, Sequences, FiniteSets

CONSTANTS
    Workers,     \* the workers that poll the engine, one request each at a time
    NumStarts,   \* how many start nodes the execution has
    MaxRows,     \* bound on the TaskInstances ever created
    MaxBeats,    \* bound on the heartbeats
    MaxSweeps    \* bound on the runs of sweep_advance()

ASSUME TaskStoreAssumption ==
    /\ NumStarts \in Nat \ {0} /\ MaxRows \in Nat /\ NumStarts < MaxRows
    /\ MaxBeats \in Nat /\ MaxSweeps \in Nat

VARIABLES
    rows,     \* the status of each TaskInstance row
    ids,      \* TaskInstances created so far
    exec,     \* the WorkflowExecution row: its status and its nested copies
    queue,    \* the connector's pending operations
    holds,    \* the task each worker is running, 0: none
    busy,     \* workers whose request has not been answered
    given,    \* how often each row was handed to a worker
    handed,   \* the statuses submit_result() has handed to the orchestrator
    beats, sweeps

vars == <<rows, ids, exec, queue, holds, busy, given, handed, beats, sweeps>>

Ids == 1..MaxRows
Starts == 1..NumStarts      \* ids of the start nodes; later ids are the successor
Status == {"none", "SCHEDULED", "IN_PROGRESS", "COMPLETED"}
Copies == [status : {"RUNNING", "COMPLETED"}, inst : [Ids -> Status]]
Nobody == "engine"
Ops == [do : {"find_first", "claim_def", "claim_update", "find_row", "result_update",
              "find_again", "find_exec", "find_def", "spawn_def", "insert_row",
              "update_exec", "beat_find", "beat_def", "beat_update", "sweep_find",
              "sweep_def"},
        by : Workers \cup {Nobody}, id : Ids \cup {0}, st : Status, ex : Copies]

TypeOK ==
    /\ rows \in [Ids -> Status] /\ ids \in Nat
    /\ exec \in Copies
    /\ queue \in Seq(Ops)
    /\ holds \in [Workers -> Ids \cup {0}] /\ busy \subseteq Workers
    /\ given \in [Ids -> Nat] /\ handed \subseteq Status
    /\ beats \in 0..MaxBeats /\ sweeps \in 0..MaxSweeps

\* The state start() leaves: each start node SCHEDULED, in both copies.
Fresh == [i \in Ids |-> IF i \in Starts THEN "SCHEDULED" ELSE "none"]

Init ==
    /\ rows = Fresh /\ ids = NumStarts
    /\ exec = [status |-> "RUNNING", inst |-> Fresh]
    /\ queue = <<>>
    /\ holds = [w \in Workers |-> 0] /\ busy = {}
    /\ given = [i \in Ids |-> 0] /\ handed = {}
    /\ beats = 0 /\ sweeps = 0

Op(do, by, id, st, ex) == [do |-> do, by |-> by, id |-> id, st |-> st, ex |-> ex]

storeVars == <<rows, ids, exec>>
clientVars == <<holds, busy, given>>
ghostVars == <<handed, beats, sweeps>>

-----------------------------------------------------------------------------
(* The requests. *)

\* GET /tasks/poll: claim() enqueues find_first().  (The upsert of the poll data,
\* enqueued before it, touches neither table.)
Poll(w) ==
    /\ w \notin busy /\ holds[w] = 0
    /\ busy' = busy \cup {w}
    /\ queue' = Append(queue, Op("find_first", w, 0, "none", exec))
    /\ UNCHANGED <<storeVars, holds, given, ghostVars>>

\* POST /tasks/:id/result: submit_result() enqueues find().
Submit(w) ==
    /\ w \notin busy /\ holds[w] # 0
    /\ busy' = busy \cup {w}
    /\ holds' = [holds EXCEPT ![w] = 0]
    /\ queue' = Append(queue, Op("find_row", w, holds[w], "none", exec))
    /\ UNCHANGED <<storeVars, given, ghostVars>>

\* PATCH /tasks/:id/heartbeat, a request of its own beside the result.
Heartbeat(w) ==
    /\ beats < MaxBeats /\ holds[w] # 0
    /\ beats' = beats + 1
    /\ queue' = Append(queue, Op("beat_find", Nobody, holds[w], "none", exec))
    /\ UNCHANGED <<storeVars, clientVars, handed, sweeps>>

\* The orchestrator's sweep: find_all() of the executions.
Sweep ==
    /\ sweeps < MaxSweeps
    /\ sweeps' = sweeps + 1
    /\ queue' = Append(queue, Op("sweep_find", Nobody, 0, "none", exec))
    /\ UNCHANGED <<storeVars, clientVars, handed, beats>>

-----------------------------------------------------------------------------
(* One turn of the connector: the operation at the head runs, and its      *)
(* callback enqueues what comes next.                                      *)

Turn(do) == queue # <<>> /\ Head(queue).do = do
Then(op) == queue' = Append(Tail(queue), op)
ThenBoth(op1, op2) == queue' = Tail(queue) \o <<op1, op2>>
ThenNothing == queue' = Tail(queue)
Reply(w) == busy' = busy \ {w}

\* claim(): a SCHEDULED row, or an empty answer.  Spawned instances all have the
\* same seq, so the order of the query leaves the choice open.
FindFirst ==
    /\ Turn("find_first")
    /\ \/ /\ \A i \in Ids : rows[i] # "SCHEDULED"
          /\ Reply(Head(queue).by) /\ ThenNothing
       \/ \E i \in Ids :
              /\ rows[i] = "SCHEDULED"
              /\ Then([Head(queue) EXCEPT !.do = "claim_def", !.id = i])
              /\ UNCHANGED busy
    /\ UNCHANGED <<storeVars, holds, given, ghostVars>>

\* claim()'s find of the TaskDef, for the deadline.
ClaimDef ==
    /\ Turn("claim_def")
    /\ Then([Head(queue) EXCEPT !.do = "claim_update"])
    /\ UNCHANGED <<storeVars, clientVars, ghostVars>>

\* The row is IN_PROGRESS and goes out to the worker.
ClaimUpdate ==
    /\ Turn("claim_update")
    /\ rows' = [rows EXCEPT ![Head(queue).id] = "IN_PROGRESS"]
    /\ given' = [given EXCEPT ![Head(queue).id] = @ + 1]
    /\ holds' = [holds EXCEPT ![Head(queue).by] = Head(queue).id]
    /\ Reply(Head(queue).by) /\ ThenNothing
    /\ UNCHANGED <<ids, exec, ghostVars>>

\* submit_result(): the row's status is not looked at.
FindRow ==
    /\ Turn("find_row")
    /\ Then([Head(queue) EXCEPT !.do = "result_update"])
    /\ UNCHANGED <<storeVars, clientVars, ghostVars>>

\* The result is stored and answered, then handed to the orchestrator by id.
ResultUpdate ==
    /\ Turn("result_update")
    /\ rows' = [rows EXCEPT ![Head(queue).id] = "COMPLETED"]
    /\ Reply(Head(queue).by)
    /\ Then([Head(queue) EXCEPT !.do = "find_again", !.by = Nobody])
    /\ UNCHANGED <<ids, exec, holds, given, ghostVars>>

\* WorkflowLocal::on_task_terminal() finds the instance again.
FindAgain ==
    /\ Turn("find_again")
    /\ handed' = handed \cup {rows[Head(queue).id]}
    /\ Then([Head(queue) EXCEPT !.do = "find_exec", !.st = rows[Head(queue).id]])
    /\ UNCHANGED <<storeVars, clientVars, beats, sweeps>>

\* Orchestrator::on_task_terminal() captures the execution.
FindExec ==
    /\ Turn("find_exec")
    /\ IF exec.status # "RUNNING" THEN ThenNothing
       ELSE Then([Head(queue) EXCEPT !.do = "find_def", !.ex = exec])
    /\ UNCHANGED <<storeVars, clientVars, ghostVars>>

Done(ex, i) == ex.inst[i] = "COMPLETED"

\* advance(): the successor has no instance and an edge into it is satisfied.
Ready(ex) ==
    /\ \A i \in Ids \ Starts : ex.inst[i] = "none"
    /\ \E i \in Starts : Done(ex, i)

\* A bug: the execution is COMPLETED when its start nodes are.
Finished_Starts(ex) ==
    IF \A i \in Starts : Done(ex, i) THEN [ex EXCEPT !.status = "COMPLETED"] ELSE ex

\* A bug: one instance too many is asked for.
Finished_OffByOne(ex) ==
    IF /\ Cardinality({i \in Ids : ex.inst[i] # "none"}) > NumStarts + 1
       /\ \A i \in Ids : ex.inst[i] # "none" => Done(ex, i)
    THEN [ex EXCEPT !.status = "COMPLETED"] ELSE ex

\* maybe_complete(): an instance for each node, all of them done.
Finished(ex) ==
    IF /\ Cardinality({i \in Ids : ex.inst[i] # "none"}) >= NumStarts + 1
       /\ \A i \in Ids : ex.inst[i] # "none" => Done(ex, i)
    THEN [ex EXCEPT !.status = "COMPLETED"] ELSE ex

\* advance() on the captured execution; its first operation, if it spawns, is
\* the find of the successor's TaskDef.
AdvanceOp(ex) ==
    IF ex.status = "RUNNING" /\ Ready(ex) THEN Op("spawn_def", Nobody, 0, "none", ex)
    ELSE Op("update_exec", Nobody, 0, "none", Finished(ex))

\* A bug: process_terminal() does not sync the nested copy.
FindDef_NoSync ==
    /\ Turn("find_def")
    /\ Then(AdvanceOp(Head(queue).ex))
    /\ UNCHANGED <<storeVars, clientVars, ghostVars>>

\* process_terminal(): sync the captured copy, then advance if it cascades.
FindDef ==
    /\ Turn("find_def")
    /\ LET synced == [Head(queue).ex EXCEPT !.inst[Head(queue).id] = Head(queue).st]
       IN  IF Head(queue).st = "COMPLETED" THEN Then(AdvanceOp(synced))
           ELSE Then(Op("update_exec", Nobody, 0, "none", synced))
    /\ UNCHANGED <<storeVars, clientVars, ghostVars>>

\* spawn_with_def(): the insert of the row, then the caller's update.
SpawnDef ==
    /\ Turn("spawn_def")
    /\ ids < MaxRows /\ ids' = ids + 1
    /\ LET spawned == [Head(queue).ex EXCEPT !.inst[ids + 1] = "SCHEDULED"]
       IN  ThenBoth(Op("insert_row", Nobody, ids + 1, "SCHEDULED", spawned),
                    Op("update_exec", Nobody, 0, "none", Finished(spawned)))
    /\ UNCHANGED <<rows, exec, clientVars, ghostVars>>

InsertRow ==
    /\ Turn("insert_row")
    /\ rows' = [rows EXCEPT ![Head(queue).id] = "SCHEDULED"]
    /\ ThenNothing
    /\ UNCHANGED <<ids, exec, clientVars, ghostVars>>

\* The captured execution replaces the stored one, nested copies and all.
UpdateExec ==
    /\ Turn("update_exec")
    /\ exec' = Head(queue).ex
    /\ ThenNothing
    /\ UNCHANGED <<rows, ids, clientVars, ghostVars>>

\* heartbeat(): only an IN_PROGRESS row, whose copy is written back later.
BeatFind ==
    /\ Turn("beat_find")
    /\ IF rows[Head(queue).id] = "IN_PROGRESS"
       THEN Then([Head(queue) EXCEPT !.do = "beat_def", !.st = "IN_PROGRESS"])
       ELSE ThenNothing
    /\ UNCHANGED <<storeVars, clientVars, ghostVars>>

BeatDef ==
    /\ Turn("beat_def")
    /\ Then([Head(queue) EXCEPT !.do = "beat_update"])
    /\ UNCHANGED <<storeVars, clientVars, ghostVars>>

BeatUpdate ==
    /\ Turn("beat_update")
    /\ rows' = [rows EXCEPT ![Head(queue).id] = Head(queue).st]
    /\ ThenNothing
    /\ UNCHANGED <<ids, exec, clientVars, ghostVars>>

\* sweep_advance(): the execution is captured while the definition is looked up.
SweepFind ==
    /\ Turn("sweep_find")
    /\ IF exec.status # "RUNNING" THEN ThenNothing
       ELSE Then([Head(queue) EXCEPT !.do = "sweep_def", !.ex = exec])
    /\ UNCHANGED <<storeVars, clientVars, ghostVars>>

SweepDef ==
    /\ Turn("sweep_def")
    /\ Then(AdvanceOp(Head(queue).ex))
    /\ UNCHANGED <<storeVars, clientVars, ghostVars>>

RunOp ==
    \/ FindFirst \/ ClaimDef \/ ClaimUpdate
    \/ FindRow \/ ResultUpdate \/ FindAgain \/ FindExec \/ FindDef
    \/ SpawnDef \/ InsertRow \/ UpdateExec
    \/ BeatFind \/ BeatDef \/ BeatUpdate \/ SweepFind \/ SweepDef

Next ==
    \/ \E w \in Workers : Poll(w) \/ Submit(w) \/ Heartbeat(w)
    \/ Sweep
    \/ RunOp

Spec == Init /\ [][Next]_vars

\* The connector's contract is scheduled while operations are pending (module
\* WorkQueue), and workers poll and report.
FairSpec ==
    /\ Spec /\ WF_vars(RunOp)
    /\ \A w \in Workers : WF_vars(Poll(w)) /\ WF_vars(Submit(w))

-----------------------------------------------------------------------------

\* "Already-claimed (non-SCHEDULED) instances are never re-claimed": claim()
\* gives a task to one worker, however the pollers' operations mix.
ClaimedOnce == \A i \in Ids : given[i] <= 1

\* No result is forgotten: once every handler has run out, a task whose row is
\* COMPLETED is COMPLETED in the execution that waits for it.
NoResultLost ==
    queue = <<>> /\ exec.status = "RUNNING" =>
        \A i \in Ids : rows[i] = "COMPLETED" => exec.inst[i] = "COMPLETED"

\* Every node spawns exactly one instance, whichever handlers advance at once.
SpawnedOnce == ids <= NumStarts + 1

\* submit_result() hands "the now-terminal instance to the Orchestrator".
HandsTerminal == handed \subseteq {"COMPLETED"}

(* With one worker the handlers' split reads and writes do no harm: each   *)
(* task is given out once, spawned once, handed on ended, and its result   *)
(* stays recorded.                                                         *)
OneWorkerIsExact == ClaimedOnce /\ NoResultLost /\ SpawnedOnce /\ HandsTerminal

\* No completion is invented: a COMPLETED execution had every start node and
\* its successor run by a worker, whatever stale copies were written over it.
CompletedIsReal ==
    exec.status = "COMPLETED" =>
        /\ \A i \in Starts : given[i] >= 1
        /\ \E i \in Ids \ Starts : given[i] >= 1

\* The execution completes when its workers have done every task.
EventuallyCompleted == <>(exec.status = "COMPLETED")
============================================================================
