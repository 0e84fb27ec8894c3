------------------------------ MODULE Workflow ------------------------------
(***************************************************************************)
(* The workflow orchestrator (plugins/orchestrator/workflow_local): one    *)
(* execution walks the DAG of its definition while workers claim and       *)
(* report tasks, the periodic sweep times out, retries and re-advances,    *)
(* and operators pause, resume, retry, restart, rerun, signal, complete by *)
(* reference, terminate or reconcile it.                                   *)
(*                                                                         *)
(* The connector is the one without a database: each operation runs its    *)
(* callback inline, so a handler is one step.  A TaskInstance is stored    *)
(* twice, as a row of its own and inside the execution; both copies are    *)
(* kept apart here as they are in the code.  Elapsed time is a choice: any *)
(* armed deadline or backoff may have passed when a sweep looks.           *)
(*                                                                         *)
(* A definition is a record:                                               *)
(*   nodes        the node references, in order                            *)
(*   task         the (resolved) TaskDef of each node                      *)
(*   edges        [from, to, when], in node order; when is Always or the   *)
(*                value the condition asks for                             *)
(*   join, any    join_on of each node, and the nodes that join on ANY     *)
(*   restartable  WorkflowDef::restartable                                 *)
(*   mapsOutput   output_mappings writes the variable conditions read      *)
(* and a TaskDef has a name, a kind, the retry attempts, the rate limit    *)
(* (0: none), the timeout action, whether its input is usable (schema, or  *)
(* the workflow_name key), how the child execution it starts behaves, and  *)
(* the status TERMINATE asks for.                                          *)
(***************************************************************************)
EXTENDS Naturals, Sequences, FiniteSets, SequencesExt

CONSTANTS
    Defs,      \* the workflow definitions a run starts from
    Values,    \* the values task outputs and the variable take
    Ops,       \* the operator calls made on the executions of each definition
    Results,   \* the statuses workers and callers report
    MaxIds,    \* bound on the TaskInstances ever created
    MaxOps,    \* bound on the operator calls, by definition
    MaxHeld    \* bound on the workers that run one TaskInstance at a time, by definition

NoValue == "unset"
Always == "always"

VARIABLES
    def,       \* the definition of the execution
    exec,      \* the WorkflowExecution row; status "none" while there is none
    rows,      \* the TaskInstance rows, by task_id
    held,      \* how many workers hold each claimed instance
    finished,  \* calls of on_execution_terminal() for this execution
    started,   \* how often the execution was started or revived
    answered,  \* whether the last operator call had its callback called
    ops        \* operator calls made so far

vars == <<def, exec, rows, held, finished, started, answered, ops>>

TaskStatus == {"SCHEDULED", "IN_PROGRESS", "COMPLETED", "FAILED", "TIMED_OUT", "SKIPPED",
               "CANCELED"}
IsTerminalTask(s) == s \notin {"SCHEDULED", "IN_PROGRESS"}
IsTerminal(s) == s \in {"COMPLETED", "FAILED", "TIMED_OUT", "TERMINATED"}
Done(s) == s \in {"COMPLETED", "SKIPPED"}
Failed(s) == s \in {"FAILED", "TIMED_OUT"}

\* The nodes are a list, RetryPolicy::validate() refuses zero attempts, a child
\* execution runs on, ends inside its own start(), has no definition or never
\* calls back, and TERMINATE ends an execution with a terminal status.
WellFormed(d) ==
    /\ d.nodes \in Seq(ToSet(d.nodes))
    /\ \A n \in ToSet(d.nodes) : /\ d.task[n].attempts \in Nat \ {0} /\ d.task[n].limit \in Nat
                               /\ d.task[n].child \in {"runs", "ended", "unknown", "silent"}
                               /\ IsTerminal(d.task[n].ends)

ASSUME WorkflowAssumption ==
    /\ MaxIds \in Nat /\ MaxOps \in [Defs -> Nat] /\ MaxHeld \in [Defs -> Nat]
    /\ {NoValue, Always} \cap Values = {} /\ DOMAIN Ops = Defs
    /\ Results \subseteq {"COMPLETED", "FAILED", "TIMED_OUT", "SKIPPED", "CANCELED"}
    /\ \A d \in Defs : WellFormed(d)

Nodes == ToSet(def.nodes)
Instance == [id : 1..MaxIds, node : Nodes, st : TaskStatus, tries : Nat, armed : BOOLEAN,
             due : BOOLEAN, out : Values \cup {NoValue}, child : {"none", "runs", "ended"}]

TypeOK ==
    /\ def \in Defs
    /\ exec.status \in {"none", "RUNNING", "PAUSED", "COMPLETED", "FAILED", "TIMED_OUT",
                        "TERMINATED"}
    /\ exec.inst \in Seq(Instance) /\ exec.var \in Values \cup {NoValue}
    /\ rows \in Seq(Instance) /\ \A i \in DOMAIN rows : rows[i].id = i
    /\ held \in [1..MaxIds -> 0..MaxHeld[def]]
    /\ finished \in 0..MaxOps[def] + 1 /\ started \in 0..MaxOps[def] + 1
    /\ answered \in BOOLEAN /\ ops \in 0..MaxOps[def]

Init ==
    /\ def \in Defs
    /\ exec = [status |-> "none", inst |-> <<>>, var |-> NoValue]
    /\ rows = <<>>
    /\ held = [i \in 1..MaxIds |-> 0]
    /\ finished = 0 /\ started = 0 /\ answered = TRUE /\ ops = 0

-----------------------------------------------------------------------------
(* Lookups on the nested instances. *)

\* find_instance(): the first instance of a node, as a set of at most one.
FindInstance(ex, n) ==
    {ex.inst[k] : k \in {k \in DOMAIN ex.inst :
        ex.inst[k].node = n /\ \A j \in 1..(k - 1) : ex.inst[j].node # n}}

\* sync_instance(): replace the copy with this task_id, or append it.
SyncInstance(ex, i) ==
    LET at == {k \in DOMAIN ex.inst : ex.inst[k].id = i.id}
    IN  [ex EXCEPT !.inst = IF at = {} THEN Append(@, i) ELSE [@ EXCEPT ![Min(at)] = i]]

\* Connector::update() on the local store assigns or inserts.
Put(rs, i) == IF i.id \in DOMAIN rs THEN [rs EXCEPT ![i.id] = i] ELSE Append(rs, i)

\* edge_condition_ok(): the condition sees the variable, overridden by the output.
EdgeConditionOk(ex, e, p) ==
    e.when \in {Always, IF p.out # NoValue THEN p.out ELSE ex.var}

Incoming(n) == {e \in ToSet(def.edges) : e.to = n}

\* The edge's predecessor is done and its condition holds.
Satisfied(ex, e) ==
    \E p \in FindInstance(ex, e.from) : Done(p.st) /\ EdgeConditionOk(ex, e, p)

\* The input gathered for a node; the last mapping wins.
GatheredInput(ex, n) ==
    LET maps == {k \in DOMAIN def.edges :
                    /\ def.edges[k].to = n /\ Satisfied(ex, def.edges[k])
                    /\ \E p \in FindInstance(ex, def.edges[k].from) : p.out # NoValue}
        last == {k \in maps : \A j \in maps : j <= k}
        outs == {p.out : p \in UNION {FindInstance(ex, def.edges[k].from) : k \in last}}
    IN  IF outs = {} THEN NoValue ELSE CHOOSE v \in outs : TRUE

Spawned(ex, n) == FindInstance(ex, n) # {}

\* A join waits for its own list: ALL for terminal ones, ANY for a done one.
JoinReady(ex, n) ==
    IF n \in def.any
    THEN \E p \in def.join[n] : \E i \in FindInstance(ex, p) : Done(i.st)
    ELSE \A p \in def.join[n] : \E i \in FindInstance(ex, p) : IsTerminalTask(i.st)

\* A bug: a predecessor that has merely been spawned satisfies its edges.
Eligible_OnSpawn(ex, n) ==
    /\ ~Spawned(ex, n)
    /\ IF def.join[n] # {} THEN JoinReady(ex, n)
       ELSE \/ Incoming(n) = {}
            \/ \E e \in Incoming(n) : Spawned(ex, e.from)

Eligible(ex, n) ==
    /\ ~Spawned(ex, n)
    /\ IF def.join[n] # {} THEN JoinReady(ex, n)
       ELSE \/ Incoming(n) = {}
            \/ \E e \in Incoming(n) : Satisfied(ex, e)

\* A bug: one predecessor that ended without firing is enough to skip.
Skippable_Any(ex, n) ==
    /\ ~Spawned(ex, n) /\ def.join[n] = {} /\ Incoming(n) # {}
    /\ \A e \in Incoming(n) : ~Satisfied(ex, e)
    /\ \E e \in Incoming(n) :
           \E p \in FindInstance(ex, e.from) : IsTerminalTask(p.st)

\* No incoming edge can fire any more: a losing branch of a SWITCH.
Skippable(ex, n) ==
    /\ ~Spawned(ex, n) /\ def.join[n] = {} /\ Incoming(n) # {}
    /\ \A e \in Incoming(n) :
           /\ ~Satisfied(ex, e)
           /\ \E p \in FindInstance(ex, e.from) : IsTerminalTask(p.st)

-----------------------------------------------------------------------------
(* One call of advance() as a machine m: the captured execution, the rows, *)
(* the nodes still to skip and to spawn (as their places in the            *)
(* definition), the on_execution_terminal() calls, and where it is:        *)
(* "advance", "skip", "spawn", "done" (done(exec) is called), "silent"     *)
(* (handle_failure() has persisted exec, done is not called) or "lost"     *)
(* (nobody continues; the captured execution is dropped).                  *)

Machine(ex, rs) ==
    [ex |-> ex, rows |-> rs, skips |-> {}, todo |-> {}, ended |-> 0, pc |-> "advance"]

NewInstance(m, n, st) ==
    [id |-> Len(m.rows) + 1, node |-> n, st |-> st, tries |-> 0, armed |-> FALSE,
     due |-> FALSE, out |-> NoValue, child |-> "none"]

AddInstance(m, i) ==
    [m EXCEPT !.ex.inst = Append(@, i), !.rows = Append(@, i)]

\* maybe_complete(): as many instances as nodes, and all of them done.
MaybeComplete(m) ==
    IF /\ ~IsTerminal(m.ex.status)
       /\ Len(m.ex.inst) >= Len(def.nodes)
       /\ \A i \in ToSet(m.ex.inst) : Done(i.st)
    THEN [m EXCEPT !.ex.status = "COMPLETED", !.ended = @ + 1,
                   !.ex.var = IF def.mapsOutput /\ m.ex.inst # <<>>
                                 /\ Last(m.ex.inst).out # NoValue
                              THEN Last(m.ex.inst).out ELSE @]
    ELSE m

\* A bug: the attempt is not counted when a retry is armed.
HandleFailure_NoCount(m, i, attempts) ==
    LET again == i.tries + 1 < attempts
        j == IF again THEN [i EXCEPT !.armed = TRUE] ELSE i
        ex == IF again THEN m.ex ELSE [m.ex EXCEPT !.status = "FAILED"]
    IN  [m EXCEPT !.ex = SyncInstance(ex, j), !.rows = Put(@, j), !.pc = "silent",
                  !.ended = IF again THEN @ ELSE @ + 1]

\* handle_failure(): arm a retry while attempts remain, else fail the execution.
HandleFailure(m, i, attempts) ==
    LET again == i.tries + 1 < attempts
        j == IF again THEN [i EXCEPT !.tries = @ + 1, !.armed = TRUE] ELSE i
        ex == IF again THEN m.ex ELSE [m.ex EXCEPT !.status = "FAILED"]
    IN  [m EXCEPT !.ex = SyncInstance(ex, j), !.rows = Put(@, j), !.pc = "silent",
                  !.ended = IF again THEN @ ELSE @ + 1]

\* Instances of this TaskDef that the rate limit counts, in this execution only.
InFlight(m, t) ==
    Cardinality({k \in DOMAIN m.ex.inst : /\ def.task[m.ex.inst[k].node].name = t.name
                                          /\ ~IsTerminalTask(m.ex.inst[k].st)})

WithinLimit(m, t) == t.limit = 0 \/ InFlight(m, t) < t.limit

Next1(m) == [m EXCEPT !.todo = @ \ {Min(@)}]  \* spawn_next(index + 1)
Again(m) == [m EXCEPT !.pc = "advance"]       \* advance() from scratch

\* HUMAN and WAIT: IN_PROGRESS at once, only a timed WAIT has a deadline.
SpawnWaiting(m, n, t) ==
    Next1(AddInstance(m, [NewInstance(m, n, "IN_PROGRESS") EXCEPT !.due = t.kind = "WAIT"]))

\* START_WORKFLOW: a fire-and-forget child, this instance ends at once.
SpawnStartWorkflow(m, n, t) ==
    CASE t.input = "bad" -> Next1(m)
      [] t.input # "bad" /\ t.child = "silent" -> [m EXCEPT !.pc = "lost"]
      [] OTHER ->
         Again(AddInstance(m, NewInstance(m, n, IF t.child = "unknown" THEN "FAILED"
                                                ELSE "COMPLETED")))

\* SUB_WORKFLOW: the child is started first; one that ends at once looks for
\* its parent's row before that row is inserted and finds nothing.
SpawnSubWorkflow(m, n, t) ==
    CASE t.input = "bad" -> Next1(m)
      [] t.input # "bad" /\ t.child = "silent" -> [m EXCEPT !.pc = "lost"]
      [] t.input # "bad" /\ t.child = "unknown" ->
         HandleFailure(m, NewInstance(m, n, "FAILED"), 1)
      [] OTHER ->
         Next1(AddInstance(m, [NewInstance(m, n, "IN_PROGRESS") EXCEPT !.child = t.child]))

\* EVENT and the in-process system tasks complete at once; SET_VARIABLE
\* writes the variable and TERMINATE ends the execution.
SpawnInProcess(m, n, t) ==
    LET input == GatheredInput(m.ex, n)
        added == AddInstance(m, [NewInstance(m, n, "COMPLETED") EXCEPT !.out = input])
    IN  CASE t.kind = "TERMINATE" ->
             [added EXCEPT !.ex.status = t.ends, !.ended = @ + 1, !.pc = "done"]
          [] t.kind = "SET_VARIABLE" /\ input # NoValue ->
             Again([added EXCEPT !.ex.var = input])
          [] OTHER -> Again(added)

\* A task for a worker: schema check, then the rate limit, then SCHEDULED.
SpawnForWorker(m, n, t) ==
    IF t.input = "bad"
    THEN LET i == NewInstance(m, n, "FAILED")
         IN  HandleFailure(AddInstance(m, i), i, t.attempts)
    ELSE Next1(IF WithinLimit(m, t) THEN AddInstance(m, NewInstance(m, n, "SCHEDULED")) ELSE m)

SpawnWithDef(m, n) ==
    LET t == def.task[n]
    IN  CASE t.kind \in {"HUMAN", "WAIT", "WAIT_SIGNAL"} -> SpawnWaiting(m, n, t)
          [] t.kind = "START_WORKFLOW" -> SpawnStartWorkflow(m, n, t)
          [] t.kind = "SUB_WORKFLOW" -> SpawnSubWorkflow(m, n, t)
          [] t.kind \in {"EVENT", "NOOP", "SET_VARIABLE", "TERMINATE"} -> SpawnInProcess(m, n, t)
          [] OTHER -> SpawnForWorker(m, n, t)

\* spawn_next(): past the end, the execution may be complete.
SpawnNext(m) ==
    IF m.todo = {} THEN [MaybeComplete(m) EXCEPT !.pc = "done"]
    ELSE SpawnWithDef(m, def.nodes[Min(m.todo)])

\* One pass of advance(): what is eligible, and what can never be.
AdvancePass(m) ==
    LET eligible == {p \in DOMAIN def.nodes : Eligible(m.ex, def.nodes[p])}
        skips == {p \in DOMAIN def.nodes : Skippable(m.ex, def.nodes[p])}
        live == ~IsTerminal(m.ex.status) /\ m.ex.status # "PAUSED"
    IN  CASE ~live -> [m EXCEPT !.pc = "done"]
          [] live /\ eligible = {} /\ skips = {} -> [MaybeComplete(m) EXCEPT !.pc = "done"]
          [] OTHER -> [m EXCEPT !.skips = skips, !.todo = eligible, !.pc = "skip"]

\* The skips come first; without anything to spawn, advance() looks again.
SkipNext(m) ==
    IF m.skips = {} THEN [m EXCEPT !.pc = IF m.todo = {} THEN "advance" ELSE "spawn"]
    ELSE [AddInstance(m, NewInstance(m, def.nodes[Min(m.skips)], "SKIPPED"))
             EXCEPT !.skips = @ \ {Min(@)}]

AdvanceStep(m) ==
    CASE m.pc = "advance" -> AdvancePass(m)
      [] m.pc = "skip" -> SkipNext(m)
      [] m.pc = "spawn" -> SpawnNext(m)
      [] OTHER -> m

\* advance() to its end.  Every pass but the last adds an instance, and a
\* pass skips or spawns each node at most once, so the bound is never reached.
Advance(m) ==
    LET bound == (Len(def.nodes) + 3) * (Len(def.nodes) + 2)
        after[k \in 0..bound] ==
            IF k = 0 THEN m ELSE CHOOSE r \in {AdvanceStep(p) : p \in {after[k - 1]}} : TRUE
    IN  after[bound]

\* The machine's outcome is stored.  A lost advance() leaves the execution row
\* as it was; a call whose done() never ran is never answered.
Commit(m) ==
    /\ rows' = m.rows
    /\ exec' = IF m.pc = "lost" THEN exec ELSE m.ex
    /\ finished' = finished + m.ended

\* process_terminal(): sync the nested copy, then retry, fail, or advance.
ProcessTerminal(ex, rs, i) ==
    LET m == Machine(SyncInstance(ex, i), rs)
    IN  CASE Failed(i.st) -> HandleFailure(m, i, def.task[i.node].attempts)
          [] Done(i.st) -> Advance(m)
          [] OTHER -> [m EXCEPT !.pc = "done"]

\* A bug: the end of the execution is not looked at.
OnTaskTerminal_NoGuard(rs, i) ==
    IF exec.status = "none"
    THEN [Machine(exec, rs) EXCEPT !.pc = "done"]
    ELSE ProcessTerminal(exec, rs, i)

\* The execution is missing or has ended.
Over == exec.status = "none" \/ IsTerminal(exec.status)

\* A bug: completions are dropped while the execution is paused.
OnTaskTerminal_DropsPaused(rs, i) ==
    IF exec.status # "RUNNING"
    THEN [Machine(exec, rs) EXCEPT !.pc = "done"]
    ELSE ProcessTerminal(exec, rs, i)

\* on_task_terminal(): an execution that is missing or over ignores the event.
OnTaskTerminal(rs, i) ==
    IF Over THEN [Machine(exec, rs) EXCEPT !.pc = "done"]
    ELSE ProcessTerminal(exec, rs, i)

\* No definition below creates more instances than the model has room for.
Room == Len(rows) + Len(def.nodes) <= MaxIds

-----------------------------------------------------------------------------
(* The start, the workers and the sweep. *)

\* start(): the execution is advanced before its row is inserted.
Start ==
    /\ started = 0
    /\ started' = 1
    /\ \E m \in {Advance(Machine([status |-> "RUNNING", inst |-> <<>>, var |-> NoValue], rows))} :
           /\ Commit(m)
           /\ answered' = (m.pc = "done")
    /\ UNCHANGED <<def, held, ops>>

\* OrchestratorStore::claim(): the row goes to a worker, the nested copy stays.
Claim(i) ==
    /\ rows[i].st = "SCHEDULED" /\ def.task[rows[i].node].kind = "SIMPLE"
    /\ held[i] < MaxHeld[def]
    /\ rows' = [rows EXCEPT ![i].st = "IN_PROGRESS", ![i].due = TRUE]
    /\ held' = [held EXCEPT ![i] = @ + 1]
    /\ UNCHANGED <<def, exec, finished, started, answered, ops>>

\* TaskHandler::submit_result(): whatever the row's status is by now.
SubmitResult(i, st, out) ==
    /\ \/ held[i] > 0
       \/ def.task[rows[i].node].kind = "HUMAN" /\ rows[i].st = "IN_PROGRESS"
    /\ held' = [held EXCEPT ![i] = IF @ > 0 THEN @ - 1 ELSE @]
    /\ \E j \in {[rows[i] EXCEPT !.st = st, !.out = out]} :
           Commit(OnTaskTerminal(Put(rows, j), j))
    /\ UNCHANGED <<def, started, answered, ops>>

\* A worker that stops without reporting.
WorkerDies(i) ==
    /\ held[i] > 0
    /\ held' = [held EXCEPT ![i] = @ - 1]
    /\ UNCHANGED <<def, exec, rows, finished, started, answered, ops>>

\* queue_requeue(): an operator takes back a claimed task whose deadline passed.
Requeue(i) ==
    /\ "requeue" \in Ops[def] /\ ops < MaxOps[def] /\ ops' = ops + 1
    /\ rows[i].st = "IN_PROGRESS" /\ def.task[rows[i].node].kind = "SIMPLE"
    /\ rows' = [rows EXCEPT ![i].st = "SCHEDULED", ![i].due = FALSE]
    /\ UNCHANGED <<def, exec, held, finished, started, answered>>

\* A SUB_WORKFLOW child ends: on_execution_terminal() completes its parent's row.
ChildEnds(i, st) ==
    /\ rows[i].child = "runs"
    /\ \E j \in {[rows[i] EXCEPT !.st = st, !.child = "ended"]} :
           Commit(OnTaskTerminal(Put(rows, j), j))
    /\ UNCHANGED <<def, held, started, answered, ops>>

\* FAIL_WORKFLOW: no retry, the execution fails at once.
FailWorkflow(late) ==
    [Machine(SyncInstance([exec EXCEPT !.status = "FAILED"], late), Put(rows, late))
        EXCEPT !.pc = "done", !.ended = 1]

\* handle_timeout(), for one row whose deadline has passed.
HandleTimeout(i) ==
    LET t == def.task[rows[i].node]
        late == [rows[i] EXCEPT !.st = "TIMED_OUT"]
        same == [Machine(exec, rows) EXCEPT !.pc = "done"]
    IN  IF t.kind = "WAIT" THEN OnTaskTerminal(rows, [rows[i] EXCEPT !.st = "COMPLETED"])
        ELSE CASE t.timeout = "ALERT_ONLY" -> same
               [] t.timeout # "ALERT_ONLY" /\ Over -> [same EXCEPT !.rows = Put(rows, late)]
               [] t.timeout = "RETRY" /\ ~Over ->
                  HandleFailure(Machine(exec, rows), late, t.attempts)
               [] OTHER -> FailWorkflow(late)

SweepTimeouts(i) ==
    /\ rows[i].st = "IN_PROGRESS" /\ rows[i].due
    /\ Commit(HandleTimeout(i))
    /\ UNCHANGED <<def, held, started, answered, ops>>

\* sweep_retries(): the row is SCHEDULED again, whatever became of the execution.
SweepRetries(i) ==
    /\ Failed(rows[i].st) /\ rows[i].armed
    /\ rows' = [rows EXCEPT ![i].st = "SCHEDULED", ![i].armed = FALSE, ![i].out = NoValue]
    /\ UNCHANGED <<def, exec, held, finished, started, answered, ops>>

SweepAdvance ==
    /\ exec.status = "RUNNING"
    /\ Commit(Advance(Machine(exec, rows)))
    /\ UNCHANGED <<def, held, started, answered, ops>>


-----------------------------------------------------------------------------
(* The operator calls.  A call the code refuses changes nothing. *)

Call(name) ==
    /\ name \in Ops[def] /\ ops < MaxOps[def] /\ exec.status # "none"
    /\ ops' = ops + 1

\* The execution goes back to RUNNING and advances; one that had ended and is
\* stored again counts as a start.
Revive(ex, rs) ==
    /\ Room
    /\ \E m \in {Advance(Machine([ex EXCEPT !.status = "RUNNING"], rs))} :
           /\ Commit(m)
           /\ answered' = (m.pc = "done")
           /\ started' = IF IsTerminal(exec.status) /\ m.pc # "lost" THEN started + 1 ELSE started
    /\ UNCHANGED <<def, held>>

Pause ==
    /\ Call("pause") /\ exec.status = "RUNNING"
    /\ exec' = [exec EXCEPT !.status = "PAUSED"]
    /\ UNCHANGED <<def, rows, held, finished, started, answered>>

Resume == Call("resume") /\ exec.status = "PAUSED" /\ Revive(exec, rows)

\* What retry() and rerun() reset in an instance.
Reset(i) == [i EXCEPT !.st = "SCHEDULED", !.tries = 0, !.armed = FALSE, !.out = NoValue]

\* retry(): the failed instances, as nested, go back to SCHEDULED.
Retry ==
    /\ Call("retry") /\ exec.status = "FAILED" /\ def.restartable
    /\ LET reset == [k \in DOMAIN exec.inst |->
                        IF Failed(exec.inst[k].st) THEN Reset(exec.inst[k]) ELSE exec.inst[k]]
           written == {reset[k] : k \in {k \in DOMAIN exec.inst : Failed(exec.inst[k].st)}}
           put == [i \in DOMAIN rows |-> IF \E w \in written : w.id = i
                                         THEN CHOOSE w \in written : w.id = i ELSE rows[i]]
       IN  Revive([exec EXCEPT !.inst = reset], put)

\* restart(): the nested instances are dropped, their rows are not.
Restart ==
    /\ Call("restart") /\ IsTerminal(exec.status) /\ def.restartable
    /\ Revive([exec EXCEPT !.inst = <<>>], rows)

\* rerun(): one node goes back to SCHEDULED, in any status of the execution.
Rerun(n) ==
    /\ Call("rerun") /\ def.restartable
    /\ \E i \in FindInstance(exec, n) :
           Revive(SyncInstance(exec, Reset(i)), Put(rows, Reset(i)))

\* signal(): the first nested IN_PROGRESS instance of the node is completed.
Signal(n) ==
    /\ Call("signal")
    /\ LET at == {k \in DOMAIN exec.inst :
                     exec.inst[k].node = n /\ exec.inst[k].st = "IN_PROGRESS"}
       IN  /\ at # {}
           /\ \E j \in {[exec.inst[Min(at)] EXCEPT !.st = "COMPLETED"]} :
                  Commit(OnTaskTerminal(Put(rows, j), j))
    /\ UNCHANGED <<def, held, started, answered>>

\* complete_instance_by_ref(): queue_update() and the event actions.
QueueUpdate(n, st, out) ==
    /\ Call("queue_update")
    /\ \E i \in FindInstance(exec, n) : \E j \in {[i EXCEPT !.st = st, !.out = out]} :
           Commit(OnTaskTerminal(Put(rows, j), j))
    /\ UNCHANGED <<def, held, started, answered>>

Terminate ==
    /\ Call("terminate") /\ ~IsTerminal(exec.status)
    /\ exec' = [exec EXCEPT !.status = "TERMINATED"]
    /\ finished' = finished + 1
    /\ UNCHANGED <<def, rows, held, started, answered>>

\* reconcile(): advance() on demand, in any status.
Reconcile ==
    /\ Call("reconcile")
    /\ \E m \in {Advance(Machine(exec, rows))} : Commit(m) /\ answered' = (m.pc = "done")
    /\ UNCHANGED <<def, held, started>>

-----------------------------------------------------------------------------

Outs == Values \cup {NoValue}

Sweep == (\E i \in DOMAIN rows : SweepTimeouts(i) \/ SweepRetries(i)) \/ SweepAdvance

Worker ==
    \E i \in DOMAIN rows :
        \/ Claim(i) \/ WorkerDies(i)
        \/ \E st \in Results, out \in Outs : SubmitResult(i, st, out)

Operator ==
    \/ Pause \/ Resume \/ Retry \/ Restart \/ Terminate \/ Reconcile
    \/ \E n \in Nodes : Rerun(n) \/ Signal(n)
                        \/ \E st \in Results, out \in Outs : QueueUpdate(n, st, out)
    \/ \E i \in DOMAIN rows : Requeue(i)

Child == \E i \in DOMAIN rows : \E st \in {"COMPLETED", "FAILED"} : ChildEnds(i, st)

Next == Start \/ Worker \/ Child \/ Sweep \/ Operator

Spec == Init /\ [][Next]_vars

-----------------------------------------------------------------------------
(* Safety. *)

\* No caller retries, restarts, reruns or settles a task of this execution by hand.
Unrevived == Ops[def] \cap {"retry", "restart", "rerun", "queue_update"} = {}

\* "Every node spawns exactly one instance" (maybe_complete()): the execution
\* never holds two instances of one node, whichever events reached it.
OneInstancePerNode ==
    Unrevived => \A j, k \in DOMAIN exec.inst : exec.inst[j].node = exec.inst[k].node => j = k

\* maybe_complete() compares counts: a COMPLETED execution without a TERMINATE
\* really has a done instance of every node of its definition.
CompletedCoversDag ==
    exec.status = "COMPLETED" /\ (\A n \in Nodes : def.task[n].kind # "TERMINATE")
        => \A n \in Nodes : \E i \in ToSet(exec.inst) : i.node = n /\ Done(i.st)

\* A node SKIPPED by advance() was "never going to fire": no edge into it is
\* satisfied, then or later, unless the execution is revived.
SkippedForGood ==
    Unrevived => \A i \in ToSet(exec.inst) :
        i.st = "SKIPPED" => \A e \in Incoming(i.node) : ~Satisfied(exec, e)

\* No task is forgotten: while an execution runs unrevived, an instance it still waits
\* for has a row that is SCHEDULED, IN_PROGRESS, or parked with a retry armed.
\* (A START_WORKFLOW of an unknown definition fails without failing the
\* execution, and is left out.)
StillMoving ==
    exec.status = "RUNNING" /\ Unrevived =>
        \A i \in ToSet(exec.inst) :
            ~Done(i.st) => \/ ~IsTerminalTask(rows[i.id].st)
                           \/ Failed(rows[i.id].st) /\ rows[i.id].armed
                           \/ def.task[i.node].kind = "START_WORKFLOW"

\* handle_failure() and handle_timeout() never spend more attempts than the
\* TaskDef's RetryPolicy has, however failures, timeouts and retries mix.
RetryBudget ==
    \A i \in DOMAIN rows : rows[i].tries < def.task[rows[i].node].attempts

\* RateLimitPolicy::max_concurrent, "the max number of concurrent in-flight
\* executions allowed": no more rows of one TaskDef are queued or running.
RateLimited ==
    \A n \in Nodes :
        LET t == def.task[n]
        IN  t.limit > 0 => Cardinality({i \in DOMAIN rows :
                def.task[rows[i].node].name = t.name /\ ~IsTerminalTask(rows[i].st)}) <= t.limit

\* Each run of the execution reports its end to on_execution_terminal() once,
\* when it ends: a parent is told neither twice nor never.
FinishedOnce ==
    exec.status # "none" =>
        finished = IF IsTerminal(exec.status) THEN started ELSE started - 1

\* sync_instance() "keeps the standalone TaskInstance row and
\* WorkflowExecution's own nested copy in agreement": a done copy has a done row.
RowAgrees ==
    ~IsTerminal(exec.status) =>
        \A i \in ToSet(exec.inst) : Done(i.st) => rows[i.id].st = i.st

\* An input that fails the schema check fails its instance "rather than ever
\* reaching SCHEDULED": no worker gets it.
RejectedNeverScheduled ==
    \A i \in DOMAIN rows :
        def.task[rows[i].node].input = "bad" => IsTerminalTask(rows[i].st)

\* start(), retry(), restart() and rerun() call back: a caller gets its answer.
Answered == answered

\* "on_execution_terminal() completes it to match once that happens": a
\* SUB_WORKFLOW instance whose child has ended is not left IN_PROGRESS.
ChildEndReachesParent ==
    exec.status = "RUNNING" =>
        \A i \in DOMAIN rows : rows[i].child = "ended" => rows[i].st # "IN_PROGRESS"

(* An execution is exact: one instance per node, nothing skipped that runs *)
(* later, COMPLETED only on the whole DAG, ended once, and within the rate *)
(* limit and the retry budget.                                             *)
RunsAreExact ==
    /\ OneInstancePerNode /\ SkippedForGood /\ CompletedCoversDag /\ FinishedOnce
    /\ RateLimited /\ RetryBudget

(* No execution is left waiting for something that already happened.       *)
NothingStuck == StillMoving /\ ChildEndReachesParent

-----------------------------------------------------------------------------
(* Action properties. *)

\* A late result, timeout, child or sweep never changes an execution that is
\* over; only retry(), restart() and rerun() bring it back.
OverStaysOver ==
    [][IsTerminal(exec.status) /\ exec' # exec => started' = started + 1]_vars

\* A paused execution spawns nothing, whatever completes in the meantime.
PausedSpawnsNothing ==
    [][exec.status = "PAUSED" /\ exec'.status = "PAUSED"
           => Len(rows') = Len(rows) /\ Len(exec'.inst) = Len(exec.inst)]_vars

\* A node starts only after what it depends on: when its instance appears,
\* an incoming edge is satisfied or its join is ready.
SpawnsInOrder ==
    [][Unrevived => \A i \in ToSet(exec'.inst) :
           (i.st # "SKIPPED" /\ ~\E j \in ToSet(exec.inst) : j.id = i.id) =>
               IF def.join[i.node] # {}
               THEN \A p \in def.join[i.node] : i.node \in def.any
                        \/ \E k \in ToSet(exec'.inst) : k.node = p /\ IsTerminalTask(k.st)
               ELSE Incoming(i.node) # {} =>
                        \E e \in Incoming(i.node) : \E k \in ToSet(exec'.inst) :
                            k.node = e.from /\ Done(k.st)]_vars

(* A node is spawned when it is due, and never while paused.               *)
SpawnsWhenDue == SpawnsInOrder /\ PausedSpawnsNothing

\* A join on ANY fires "once any one of them does" complete.
AnyJoinFollowsCompletion ==
    [][\A i \in ToSet(exec'.inst) :
           (i.node \in def.any /\ ~\E j \in ToSet(exec.inst) : j.id = i.id) =>
               \E k \in ToSet(exec'.inst) : k.node \in def.join[i.node] /\ k.st = "COMPLETED"]_vars

-----------------------------------------------------------------------------
(* Liveness. *)

\* Workers poll and report, and the sweep runs every five seconds.  Reports
\* are not assumed for a particular instance: a dead worker's task times out.
Fairness ==
    /\ WF_vars(Start)
    /\ WF_vars(SweepAdvance)
    /\ \A i \in 1..MaxIds :
           /\ WF_vars(i \in DOMAIN rows /\ Claim(i))
           /\ WF_vars(i \in DOMAIN rows /\ SweepTimeouts(i))
           /\ WF_vars(i \in DOMAIN rows /\ SweepRetries(i))

FairSpec == Spec /\ Fairness

\* An execution of worker tasks that no operator touches ends: neither a dead
\* worker, a timeout, a retry, a skipped branch nor the rate limit strands it.
EventuallyEnds ==
    (\A n \in Nodes : def.task[n].kind = "SIMPLE" /\ def.task[n].timeout # "ALERT_ONLY")
        => <>(ops > 0) \/ <>[]IsTerminal(exec.status)
============================================================================
