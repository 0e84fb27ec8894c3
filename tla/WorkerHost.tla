---------------------------- MODULE WorkerHost -----------------------------
(***************************************************************************)
(* The worker host process (sdk/worker and manager/worker_external): poll  *)
(* slots ask the engine for tasks, each worker type runs its tasks on a    *)
(* TaskQueue of its own, and a finished task resumes the slot that is      *)
(* parked on it.  Slots and task queues are contracts of one group, seen   *)
(* here through ContractAbs.                                               *)
(*                                                                         *)
(* Engine calls block the pool thread and return; what they carry is       *)
(* abstracted to a task number.  A completion may land on the poll stack,  *)
(* on the queue's turn, or later on another thread (client workers).       *)
(***************************************************************************)
EXTENDS Naturals, Sequences

CONSTANTS
    Slots,      \* the poll slots (WorkerConfig concurrency)
    Types,      \* the registered worker types, one TaskQueue each
    MaxTasks,   \* bound on the tasks the engine hands out
    MayThrow    \* whether a worker's execute() throws

ASSUME WorkerHostAssumption ==
    Slots \cap Types = {} /\ MaxTasks \in Nat /\ MayThrow \in BOOLEAN

VARIABLES
    requested, running, dead,   \* the contracts (module ContractAbs)
    created,    \* slots whose contract exists, already SCHEDULED
    registered, \* slots register_poll_slot() has made room for
    outOfRange, \* poll_slot() has indexed m_slots past its end
    step,       \* where poll_slot() is, per slot
    todo,       \* task types the current scan has still to poll
    type,       \* the type of the task the slot dispatched last
    phase, onStack, taskId, result, \* the PollSlot; result names the job's task
    jobs, busy, \* TaskQueue m_jobs, m_running
    qstep, job, \* where the queue's on_execute() is, and the job in its hand
    landing,    \* jobs whose completion another thread will deliver
    waking,     \* slots such a thread is about to wake
    issued,     \* tasks handed out by the engine
    reports,    \* how often each task's result was submitted
    dropped     \* tasks whose execute() threw

Contract == INSTANCE ContractAbs WITH Contracts <- Slots \cup Types

contractVars == <<requested, running, dead>>
bootVars == <<created, registered, outOfRange>>
pollVars == <<step, todo, type>>
slotVars == <<phase, onStack, taskId, result>>
queueVars == <<jobs, busy, qstep, job>>
landVars == <<landing, waking>>
engineVars == <<issued, reports, dropped>>
vars == <<contractVars, bootVars, pollVars, slotVars, queueVars, landVars, engineVars>>

Tasks == 1..MaxTasks
NoTask == 0
Jobs == [slot : Slots, task : Tasks]
NoJob == [slot |-> CHOOSE s \in Slots : TRUE, task |-> NoTask]

TypeOK ==
    /\ requested \subseteq Slots \cup Types /\ running \subseteq Slots \cup Types
    /\ dead \in BOOLEAN /\ outOfRange \in BOOLEAN
    /\ registered \subseteq created /\ created \subseteq Slots
    /\ step \in [Slots -> {"off", "enter", "scan", "push", "push_wake", "unstack",
                           "submit_inline", "submit_resumed", "resched", "exit"}]
    /\ todo \in [Slots -> SUBSET Types] /\ type \in [Slots -> Types]
    /\ phase \in [Slots -> {"POLLING", "AWAITING", "RESUMING"}]
    /\ onStack \in [Slots -> BOOLEAN]
    /\ taskId \in [Slots -> Tasks \cup {NoTask}] /\ result \in [Slots -> Tasks \cup {NoTask}]
    /\ jobs \in [Types -> Seq(Jobs)] /\ busy \in [Types -> BOOLEAN]
    /\ qstep \in [Types -> {"off", "take", "run", "wake", "resched", "exit"}]
    /\ job \in [Types -> Jobs \cup {NoJob}]
    /\ landing \subseteq Jobs /\ waking \subseteq Slots
    /\ issued \in 0..MaxTasks /\ reports \in [Tasks -> 0..MaxTasks]
    /\ dropped \subseteq Tasks

(* The pool is running, the worker plugins are loaded, no slot exists yet. *)
Init ==
    /\ Contract!Init
    /\ created = {} /\ registered = {} /\ outOfRange = FALSE
    /\ step = [s \in Slots |-> "off"] /\ todo = [s \in Slots |-> {}]
    /\ type \in [Slots -> {CHOOSE t \in Types : TRUE}]
    /\ phase = [s \in Slots |-> "POLLING"] /\ onStack = [s \in Slots |-> FALSE]
    /\ taskId = [s \in Slots |-> NoTask] /\ result = [s \in Slots |-> NoTask]
    /\ jobs = [t \in Types |-> <<>>] /\ busy = [t \in Types |-> FALSE]
    /\ qstep = [t \in Types |-> "off"] /\ job = [t \in Types |-> NoJob]
    /\ landing = {} /\ waking = {}
    /\ issued = 0 /\ reports = [k \in Tasks |-> 0] /\ dropped = {}

----------------------------------------------------------------------------
Alive == ~dead /\ ~outOfRange
At(s, here) == Alive /\ step[s] = here
Goto(s, there) == step' = [step EXCEPT ![s] = there]
QAt(t, here) == Alive /\ qstep[t] = here
QGoto(t, there) == qstep' = [qstep EXCEPT ![t] = there]

(* Contract::schedule(): fatal when the request before is not consumed. *)
Schedule(c) == IF c \in requested THEN Contract!Abort ELSE Contract!Request(c)

----------------------------------------------------------------------------
(* run_worker(): each slot's contract is created SCHEDULED and only then   *)
(* registered with the manager, while the pool is already running.         *)
Create(s) ==
    /\ Alive /\ created = registered /\ s \notin created
    /\ Contract!Request(s)
    /\ created' = created \cup {s}
    /\ UNCHANGED <<registered, outOfRange, pollVars, slotVars, queueVars, landVars, engineVars>>

Register(s) ==
    /\ Alive /\ s \in created \ registered
    /\ registered' = registered \cup {s}
    /\ UNCHANGED <<contractVars, created, outOfRange, pollVars, slotVars, queueVars, landVars,
                   engineVars>>

----------------------------------------------------------------------------
(* ExternalWorkerManager::poll_slot(s), one step per critical section,     *)
(* engine call or call into another component.                             *)

(* m_slots[slot_index] of a slot not registered yet is out of range: what  *)
(* follows is undefined, so the behaviour ends there.                      *)
PollTurn(s) ==
    /\ Alive
    /\ Contract!Start(s)
    /\ outOfRange' = (s \notin registered)
    /\ Goto(s, "enter")
    /\ UNCHANGED <<created, registered, todo, type, slotVars, queueVars, landVars, engineVars>>

(* Mutant: the landed result is left in the slot. *)
Enter_KeepsResult(s) ==
    /\ At(s, "enter")
    /\ IF phase[s] = "RESUMING"
       THEN Goto(s, "submit_resumed") /\ UNCHANGED todo
       ELSE Goto(s, "scan") /\ todo' = [todo EXCEPT ![s] = Types]
    /\ UNCHANGED <<contractVars, bootVars, type, slotVars, queueVars, landVars, engineVars>>

(* A landed result is taken out of the slot first; otherwise scan. *)
Enter(s) ==
    /\ At(s, "enter")
    /\ IF phase[s] = "RESUMING"
       THEN /\ phase' = [phase EXCEPT ![s] = "POLLING"]
            /\ Goto(s, "submit_resumed")
            /\ UNCHANGED todo
       ELSE /\ todo' = [todo EXCEPT ![s] = Types]
            /\ Goto(s, "scan")
            /\ UNCHANGED phase
    /\ UNCHANGED <<contractVars, bootVars, type, onStack, taskId, result, queueVars, landVars,
                   engineVars>>

(* The engine has no task of this type, or the call failed. *)
PollNothing(s, t) ==
    /\ At(s, "scan") /\ t \in todo[s]
    /\ todo' = [todo EXCEPT ![s] = @ \ {t}]
    /\ UNCHANGED <<contractVars, bootVars, step, type, slotVars, queueVars, landVars, engineVars>>

(* The engine hands out a task: the slot is marked AWAITING, on the stack. *)
PollTask(s, t) ==
    /\ At(s, "scan") /\ t \in todo[s] /\ issued < MaxTasks
    /\ issued' = issued + 1
    /\ todo' = [todo EXCEPT ![s] = @ \ {t}]
    /\ type' = [type EXCEPT ![s] = t]
    /\ phase' = [phase EXCEPT ![s] = "AWAITING"]
    /\ taskId' = [taskId EXCEPT ![s] = issued + 1]
    /\ onStack' = [onStack EXCEPT ![s] = TRUE]
    /\ Goto(s, "push")
    /\ UNCHANGED <<contractVars, bootVars, result, queueVars, landVars, reports, dropped>>

(* TaskQueue::push(): queue the job and read m_running under the mutex... *)
Push(s) ==
    /\ At(s, "push")
    /\ jobs' = [jobs EXCEPT ![type[s]] = Append(@, [slot |-> s, task |-> taskId[s]])]
    /\ Goto(s, IF busy[type[s]] THEN "unstack" ELSE "push_wake")
    /\ UNCHANGED <<contractVars, bootVars, todo, type, slotVars, busy, qstep, job, landVars,
                   engineVars>>

(* ... and wake the queue's contract after releasing it. *)
PushWake(s) ==
    /\ At(s, "push_wake")
    /\ Schedule(type[s])
    /\ Goto(s, "unstack")
    /\ UNCHANGED <<bootVars, todo, type, slotVars, queueVars, landVars, engineVars>>

(* Mutant: the slot parks still marked as on the stack. *)
Unstack_StaysOnStack(s) ==
    /\ At(s, "unstack")
    /\ IF phase[s] = "RESUMING"
       THEN phase' = [phase EXCEPT ![s] = "POLLING"] /\ Goto(s, "submit_inline")
       ELSE Goto(s, "exit") /\ UNCHANGED phase
    /\ UNCHANGED <<contractVars, bootVars, todo, type, onStack, taskId, result, queueVars,
                   landVars, engineVars>>

(* Back from run_task_async(): a result that landed meanwhile is submitted *)
(* here; otherwise the slot parks and the completion will wake it.         *)
Unstack(s) ==
    /\ At(s, "unstack")
    /\ onStack' = [onStack EXCEPT ![s] = FALSE]
    /\ IF phase[s] = "RESUMING"
       THEN phase' = [phase EXCEPT ![s] = "POLLING"] /\ Goto(s, "submit_inline")
       ELSE Goto(s, "exit") /\ UNCHANGED phase
    /\ UNCHANGED <<contractVars, bootVars, todo, type, taskId, result, queueVars, landVars,
                   engineVars>>

(* submit_result(): after an inline result the scan continues, after a     *)
(* resumed one the slot reschedules itself.                                *)
Submit(s) ==
    /\ \/ At(s, "submit_inline") /\ Goto(s, "scan")
       \/ At(s, "submit_resumed") /\ Goto(s, "resched")
    /\ reports' = [reports EXCEPT ![taskId[s]] = @ + 1]
    /\ UNCHANGED <<contractVars, bootVars, todo, type, slotVars, queueVars, landVars, issued,
                   dropped>>

ScanDone(s) ==
    /\ At(s, "scan") /\ todo[s] = {}
    /\ Goto(s, "resched")
    /\ UNCHANGED <<contractVars, bootVars, todo, type, slotVars, queueVars, landVars, engineVars>>

Resched(s) ==
    /\ At(s, "resched")
    /\ Schedule(s)
    /\ Goto(s, "exit")
    /\ UNCHANGED <<bootVars, todo, type, slotVars, queueVars, landVars, engineVars>>

PollExit(s) ==
    /\ At(s, "exit")
    /\ Contract!End(s)
    /\ Goto(s, "off")
    /\ UNCHANGED <<bootVars, todo, type, slotVars, queueVars, landVars, engineVars>>

----------------------------------------------------------------------------
(* TaskQueue::on_execute() of worker type t, and the completion it fires.  *)

QueueTurn(t) ==
    /\ Alive
    /\ Contract!Start(t)
    /\ QGoto(t, "take")
    /\ UNCHANGED <<bootVars, pollVars, slotVars, jobs, busy, job, landVars, engineVars>>

(* Park when there is nothing to do, else take the oldest job. *)
QueueTake(t) ==
    /\ QAt(t, "take")
    /\ IF jobs[t] = <<>>
       THEN /\ busy' = [busy EXCEPT ![t] = FALSE]
            /\ QGoto(t, "exit")
            /\ UNCHANGED <<jobs, job>>
       ELSE /\ busy' = [busy EXCEPT ![t] = TRUE]
            /\ job' = [job EXCEPT ![t] = Head(jobs[t])]
            /\ jobs' = [jobs EXCEPT ![t] = Tail(@)]
            /\ QGoto(t, "run")
    /\ UNCHANGED <<contractVars, bootVars, pollVars, slotVars, landVars, engineVars>>

(* The completion poll_slot() handed to run_task_async(): store the result *)
(* in the slot; the caller wakes the slot when NeedsWake.                  *)
Land(j) ==
    /\ result' = [result EXCEPT ![j.slot] = j.task]
    /\ phase' = [phase EXCEPT ![j.slot] = "RESUMING"]
    /\ UNCHANGED <<onStack, taskId>>

NeedsWake(j) == ~onStack[j.slot]

(* A synchronous worker: run() bridges into execute() and completes. *)
JobCompletes(t) ==
    /\ QAt(t, "run")
    /\ Land(job[t])
    /\ QGoto(t, IF NeedsWake(job[t]) THEN "wake" ELSE "resched")
    /\ UNCHANGED <<contractVars, bootVars, pollVars, jobs, busy, job, landVars, engineVars>>

(* An asynchronous worker: run() returns, the completion comes later. *)
JobDefers(t) ==
    /\ QAt(t, "run")
    /\ landing' = landing \cup {job[t]}
    /\ QGoto(t, "resched")
    /\ UNCHANGED <<contractVars, bootVars, pollVars, slotVars, jobs, busy, job, waking, engineVars>>

(* execute() throws: TaskQueue drops the job, and with it the completion. *)
JobThrows(t) ==
    /\ QAt(t, "run") /\ MayThrow
    /\ dropped' = dropped \cup {job[t].task}
    /\ QGoto(t, "resched")
    /\ UNCHANGED <<contractVars, bootVars, pollVars, slotVars, jobs, busy, job, landVars, issued,
                   reports>>

QueueWake(t) ==
    /\ QAt(t, "wake")
    /\ Schedule(job[t].slot)
    /\ QGoto(t, "resched")
    /\ UNCHANGED <<bootVars, pollVars, slotVars, jobs, busy, job, landVars, engineVars>>

QueueResched(t) ==
    /\ QAt(t, "resched")
    /\ Schedule(t)
    /\ QGoto(t, "exit")
    /\ UNCHANGED <<bootVars, pollVars, slotVars, jobs, busy, job, landVars, engineVars>>

QueueExit(t) ==
    /\ QAt(t, "exit")
    /\ Contract!End(t)
    /\ QGoto(t, "off")
    /\ UNCHANGED <<bootVars, pollVars, slotVars, jobs, busy, job, landVars, engineVars>>

(* The completion of an asynchronous job, on whatever thread it lands. *)
Landed(j) ==
    /\ Alive /\ j \in landing
    /\ Land(j)
    /\ landing' = landing \ {j}
    /\ waking' = IF NeedsWake(j) THEN waking \cup {j.slot} ELSE waking
    /\ UNCHANGED <<contractVars, bootVars, pollVars, queueVars, engineVars>>

LandedWake(s) ==
    /\ Alive /\ s \in waking
    /\ Schedule(s)
    /\ waking' = waking \ {s}
    /\ UNCHANGED <<bootVars, pollVars, slotVars, queueVars, landing, engineVars>>

----------------------------------------------------------------------------
PollStep(s) ==
    \/ PollTurn(s) \/ Enter(s) \/ Push(s) \/ PushWake(s) \/ Unstack(s) \/ Submit(s)
    \/ ScanDone(s) \/ Resched(s) \/ PollExit(s)
    \/ \E t \in Types : PollNothing(s, t) \/ PollTask(s, t)

QueueStep(t) ==
    \/ QueueTurn(t) \/ QueueTake(t) \/ JobCompletes(t) \/ JobDefers(t) \/ JobThrows(t)
    \/ QueueWake(t) \/ QueueResched(t) \/ QueueExit(t)

LandStep == (\E j \in landing : Landed(j)) \/ (\E s \in waking : LandedWake(s))

Next ==
    \/ \E s \in Slots : Create(s) \/ Register(s) \/ PollStep(s)
    \/ \E t \in Types : QueueStep(t)
    \/ LandStep

Spec == Init /\ [][Next]_vars

(* Pool threads and the threads of asynchronous workers keep going, and    *)
(* the main thread registers every slot it creates.                        *)
FairSpec ==
    /\ Spec
    /\ \A s \in Slots : WF_vars(PollStep(s)) /\ WF_vars(Register(s))
    /\ \A t \in Types : WF_vars(QueueStep(t))
    /\ WF_vars(LandStep)

----------------------------------------------------------------------------
(* No thread schedules a contract whose request is still pending: neither  *)
(* two pushes to one TaskQueue, nor a completion racing the slot's own     *)
(* reschedule, abort the process.                                          *)
NeverAborts == ~dead

(* poll_slot() only ever runs for a slot register_poll_slot() made room    *)
(* for.                                                                    *)
PollsRegistered == ~outOfRange

(* A slot that awaits a task is not polled again before the result lands,  *)
(* so the task it waits for is never overwritten; and a parked slot with a *)
(* landed result has its wake on the way or delivered.                     *)
SlotWaitsForItsTask ==
    \A s \in Slots :
        /\ step[s] \in {"scan", "resched", "submit_inline", "submit_resumed"} =>
               phase[s] = "POLLING"
        /\ phase[s] = "RESUMING" /\ step[s] = "off" =>
               \/ s \in requested \/ s \in waking
               \/ \E t \in Types : qstep[t] = "wake" /\ job[t].slot = s

(* What is submitted for a task is that task's own result, and it is       *)
(* submitted once, whichever way the completion came back.                 *)
ReportsOwnResultOnce ==
    /\ \A s \in Slots : step[s] \in {"submit_inline", "submit_resumed"} => result[s] = taskId[s]
    /\ \A k \in Tasks : reports[k] <= 1

(* A slot keeps its task from claim() to submit_result(): the three above, *)
(* whichever thread pushes, completes, parks and wakes first.              *)
SlotKeepsItsTask == NeverAborts /\ SlotWaitsForItsTask /\ ReportsOwnResultOnce

(* Every task the engine handed out is eventually reported back to it,     *)
(* unless its worker threw or the out-of-range access ended the run: no    *)
(* order of push, completion, parking and wake strands a slot.             *)
EveryTaskReported ==
    \A k \in Tasks : (issued >= k) ~> (reports[k] >= 1 \/ k \in dropped \/ outOfRange)

(* "on_complete fired once with the task's output": whatever the worker    *)
(* does with it, a task handed out is reported.                            *)
CompletionFires ==
    \A k \in Tasks : (issued >= k) ~> (reports[k] >= 1 \/ outOfRange)
=============================================================================
