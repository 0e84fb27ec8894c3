--------------------------- MODULE WorkerProcess ---------------------------
(***************************************************************************)
(* The worker host process from start to exit (sdk/worker/worker_main.cc): *)
(* loading plugins and configuration, the engine link and its retries      *)
(* (ClientFlowSocket), the definitions it registers, the blocking engine   *)
(* calls of main and of the poll slots (WorkerContext::call_engine over    *)
(* core::client::Register), and the destructors that run on the way out.   *)
(*                                                                         *)
(* A poll slot is only its engine calls here; what a slot does with the    *)
(* answers is module WorkerHost.  A slot that waits for an answer holds a  *)
(* thread of the pool; the handshake and the responses need one as well.   *)
(***************************************************************************)
EXTENDS Naturals, Sequences, FiniteSets

CONSTANTS Slots,        \* poll slots (WorkerConfig concurrency)
          Threads,      \* threads of the contract pool
          Forever,      \* connect_timeout_ms = 0
          MaxAttempts,  \* bound on the connection attempts
          MaxCalls      \* bound on the calls made over the link

ASSUME WorkerProcessAssumption ==
    /\ IsFiniteSet(Slots) /\ "main" \notin Slots
    /\ Threads \in Nat \ {0} /\ Forever \in BOOLEAN
    /\ MaxAttempts \in Nat \ {0} /\ MaxCalls \in Nat

VARIABLES
    pc, code,     \* the main thread, and the exit status once it has one
    opened,       \* process plugins that could be opened
    todo,         \* main's calls still to make: app definitions, then tasks
    polling,      \* slots whose contract exists
    engineUp,     \* the engine accepts TCP connections
    attempt,      \* the connectors (one per attempt of ClientFlowSocket::helper)
    pending,      \* m_pending_connector: an attempt, or 0
    worker,       \* m_worker is set
    retry,        \* m_retry
    releasing,    \* attempts inside on_released, after the reset
    starting,     \* who is between create() and m_pending_connector.emplace()
    late,         \* an attempt was released before it was emplaced
    promises,     \* how often connected_promise was set
    runtimeSet,   \* set_runtime() was called on both Registers
    linkUp,       \* the connection carries requests and responses
    call,         \* the engine call of main and of every slot
    wire,         \* requests the engine has, answered or not
    calls,        \* calls made (they number the streams)
    overtaken,    \* a response was dispatched before its callback was stored
    broken        \* undefined behaviour or an escaping exception; nothing follows

bootVars == <<pc, code, opened, todo, polling, engineUp>>
linkVars == <<attempt, pending, worker, retry, releasing, starting, late, promises, runtimeSet>>
callVars == <<call, wire, calls, overtaken>>
processVars == <<bootVars, linkVars, linkUp, callVars, broken>>

Libraries == {"toml", "otel", "logger", "json", "manager"}
Callers == Slots \cup {"main"}
Attempts == 1..MaxAttempts
Idle == [st |-> "idle", kind |-> "none", stream |-> 0, got |-> 0]
Alive == broken = "no"
ClientAlive == Alive /\ pc \notin {"join", "exited"}

(* Pool threads not held by a slot that waits for the engine. *)
ThreadFree == Cardinality({s \in Slots : call[s].st # "idle"}) < Threads

(* Two definition files or builders, then a task of the configuration.       *)
(* Each goes through its own Register: register_defs() through the worker    *)
(* manager's, the self-registration through the typed client's.              *)
Definitions == <<"taskdef", "workflowdef">>
OwnTasks == <<"task">>
RegisterOf(kind) == IF kind = "task" THEN "api" ELSE "manager"

ProcessInit ==
    /\ pc = "open" /\ code = 2 /\ opened = {} /\ todo = <<>> /\ polling = {}
    /\ engineUp \in BOOLEAN
    /\ attempt = [a \in Attempts |-> "none"] /\ pending = 0 /\ worker = FALSE
    /\ retry = FALSE /\ releasing = {} /\ starting = {} /\ late = FALSE
    /\ promises = 0 /\ runtimeSet = FALSE /\ linkUp = FALSE
    /\ call = [c \in Callers |-> Idle] /\ wire = {} /\ calls = 0 /\ overtaken = FALSE
    /\ broken = "no"

-----------------------------------------------------------------------------
(* run_worker(), up to the connection.                                       *)

Main(from, to) == Alive /\ pc = from /\ pc' = to
Return(status) == pc' = "destroy" /\ code' = status

(* A plugin that cannot be opened is only reported; there is no worker       *)
(* manager if its plugin is missing or the build fails, and no TOML format   *)
(* to read the configuration with if that one is.                            *)
OpenPlugins ==
    /\ Main("open", "build")
    /\ \E lost \in {{}} \cup {{p} : p \in {"toml", "manager"}} : opened' = Libraries \ lost
    /\ UNCHANGED <<code, todo, polling, engineUp, linkVars, linkUp, callVars, broken>>

BuildPlugins ==
    /\ Alive /\ pc = "build"
    /\ IF "manager" \in opened THEN pc' = "config" /\ code' = code ELSE Return(1)
    /\ UNCHANGED <<opened, todo, polling, engineUp, linkVars, linkUp, callVars, broken>>

LoadConfig ==
    /\ Alive /\ pc = "config"
    /\ IF "toml" \in opened THEN pc' = "workers" /\ code' = code ELSE Return(1)
    /\ UNCHANGED <<opened, todo, polling, engineUp, linkVars, linkUp, callVars, broken>>

(* The definitions an app ships are collected from its directory (a missing  *)
(* directory has none) and from the builders among the worker plugins; task  *)
(* definitions are registered before workflow definitions.                   *)
CollectDefs == {<<>>, <<"taskdef">>, <<"workflowdef">>, Definitions}

LoadWorkers ==
    /\ Main("workers", "connect")
    /\ \E defs \in CollectDefs : todo' = defs
    /\ UNCHANGED <<code, opened, polling, engineUp, linkVars, linkUp, callVars, broken>>

-----------------------------------------------------------------------------
(* ClientFlowSocket: an attempt is a synchronous TCP connect and then a      *)
(* connector contract that drives the TLS handshake on the pool.             *)

Fresh(a) == attempt[a] = "none" /\ \A b \in Attempts : b < a => attempt[b] # "none"

(* helper(): `who` is main (0) or the attempt whose release starts this one. The *)
(* connector's contract is created before it is put into m_pending_connector.*)
Helper(who) ==
    \E a \in Attempts :
        /\ Fresh(a)
        /\ attempt' = [attempt EXCEPT ![a] = "handshake"]
        /\ starting' = starting \cup {[who |-> who, attempt |-> a]}

Connect ==
    /\ Alive /\ pc = "connect"
    /\ IF engineUp THEN Helper(0) /\ pc' = "started" /\ code' = code
                   ELSE Return(1) /\ UNCHANGED <<attempt, starting>>
    /\ UNCHANGED <<opened, todo, polling, engineUp, pending, worker, retry, releasing, late,
                   promises, runtimeSet, linkUp, callVars, broken>>

Emplace(s) ==
    /\ ClientAlive /\ s \in starting
    /\ starting' = starting \ {s}
    /\ pending' = s.attempt
    /\ late' = (late \/ attempt[s.attempt] = "released")
    /\ pc' = IF s.who = 0 THEN "wait" ELSE pc
    /\ UNCHANGED <<code, opened, todo, polling, engineUp, attempt, worker, retry, releasing,
                   promises, runtimeSet, linkUp, callVars, broken>>

SetPromise ==
    /\ runtimeSet' = TRUE
    /\ promises' = promises + 1

(* The handshake lands: m_on_established binds the Registers and sets the    *)
(* promise (a second set_value() throws); the worker is stored afterwards.   *)
HandshakeLands(a) ==
    /\ ClientAlive /\ ThreadFree /\ attempt[a] = "handshake"
    /\ attempt' = [attempt EXCEPT ![a] = "landed"]
    /\ SetPromise
    /\ linkUp' = TRUE
    /\ broken' = IF promises = 0 THEN broken ELSE "promise set twice"
    /\ UNCHANGED <<bootVars, pending, worker, retry, releasing, starting, late, callVars>>

StoreWorker(a) ==
    /\ ClientAlive /\ attempt[a] = "landed"
    /\ worker' = TRUE
    /\ attempt' = [attempt EXCEPT ![a] = "done"]
    /\ UNCHANGED <<bootVars, pending, retry, releasing, starting, late, promises, runtimeSet,
                   linkUp, callVars, broken>>

HandshakeFails(a) ==
    /\ ClientAlive /\ ThreadFree /\ attempt[a] = "handshake"
    /\ attempt' = [attempt EXCEPT ![a] = "done"]
    /\ UNCHANGED <<bootVars, pending, worker, retry, releasing, starting, late, promises,
                   runtimeSet, linkUp, callVars, broken>>

(* on_released(): m_pending_connector is emptied, then the deferred retry,   *)
(* if one was asked for, is started by this thread.                          *)
Released(a) ==
    /\ ClientAlive /\ ThreadFree /\ attempt[a] = "done"
    /\ attempt' = [attempt EXCEPT ![a] = "released"]
    /\ pending' = 0
    /\ releasing' = releasing \cup {a}
    /\ UNCHANGED <<bootVars, worker, retry, starting, late, promises, runtimeSet, linkUp, callVars,
                   broken>>

DeferredRetry(a) ==
    /\ ClientAlive /\ a \in releasing
    /\ releasing' = releasing \ {a}
    /\ IF retry /\ ~worker
       THEN /\ retry' = FALSE
            /\ IF engineUp THEN Helper(a) ELSE UNCHANGED <<attempt, starting>>
       ELSE UNCHANGED <<retry, attempt, starting>>
    /\ UNCHANGED <<bootVars, pending, worker, late, promises, runtimeSet, linkUp, callVars, broken>>

(* The wait loop: connected, past the deadline, or one more retry().         *)
WaitConnected ==
    /\ Main("wait", "server") /\ promises > 0
    /\ UNCHANGED <<code, opened, todo, polling, engineUp, linkVars, linkUp, callVars, broken>>

GiveUp ==
    /\ Alive /\ pc = "wait" /\ promises = 0 /\ ~Forever
    /\ Return(1)
    /\ UNCHANGED <<opened, todo, polling, engineUp, linkVars, linkUp, callVars, broken>>

(* The wait has just timed out; the handshake may land before retry() looks. *)
WaitTimesOut ==
    /\ Main("wait", "retry") /\ promises = 0
    /\ UNCHANGED <<code, opened, todo, polling, engineUp, linkVars, linkUp, callVars, broken>>

Retry ==
    /\ Alive /\ pc = "retry"
    /\ IF worker
       THEN Return(1) /\ UNCHANGED <<retry, attempt, starting>>
       ELSE IF pending # 0
       THEN retry' = TRUE /\ pc' = "wait" /\ UNCHANGED <<code, attempt, starting>>
       ELSE IF engineUp
       THEN Helper(0) /\ pc' = "started" /\ UNCHANGED <<code, retry>>
       ELSE Return(1) /\ UNCHANGED <<retry, attempt, starting>>
    /\ UNCHANGED <<opened, todo, polling, engineUp, pending, worker, releasing, late, promises,
                   runtimeSet, linkUp, callVars, broken>>

-----------------------------------------------------------------------------
(* Engine calls: WorkerContext::call_engine() and call_typed_blocking().     *)

(* Register::send(): the transport assigns the stream id; the callback is    *)
(* stored under it afterwards. A call without a runtime aborts.              *)
Send(c, kind) ==
    /\ calls < MaxCalls
    /\ calls' = calls + 1
    /\ call' = [call EXCEPT ![c] = [st |-> "sent", kind |-> kind, stream |-> calls + 1, got |-> 0]]
    /\ wire' = IF linkUp THEN wire \cup {[stream |-> calls + 1, kind |-> kind, answered |-> FALSE]} ELSE wire
    /\ broken' = IF runtimeSet THEN broken ELSE "call without runtime"
    /\ UNCHANGED overtaken

MainCalls ==
    /\ Alive /\ pc \in {"defs", "tasks"} /\ todo # <<>> /\ call["main"].st = "idle"
    /\ Send("main", Head(todo))
    /\ todo' = Tail(todo)
    /\ UNCHANGED <<pc, code, opened, polling, engineUp, linkVars, linkUp>>

SlotCalls(s) ==
    /\ Alive /\ s \in polling /\ ThreadFree /\ call[s].st = "idle" /\ pc \in {"slots", "run", "destroy"}
    /\ Send(s, "poll")
    /\ UNCHANGED <<bootVars, linkVars, linkUp>>

(* m_pending is no concurrent map: while one thread inserts, another that    *)
(* inserts or looks up in the same Register breaks it.                       *)
Inserting(reg, c) == \E d \in Callers \ {c} : call[d].st = "insert" /\ RegisterOf(call[d].kind) = reg

StoreCallback(c) ==
    /\ Alive /\ call[c].st = "sent"
    /\ call' = [call EXCEPT ![c].st = "insert"]
    /\ broken' = IF Inserting(RegisterOf(call[c].kind), c) THEN "map race" ELSE broken
    /\ UNCHANGED <<bootVars, linkVars, linkUp, wire, calls, overtaken>>

CallbackStored(c) ==
    /\ Alive /\ call[c].st = "insert"
    /\ call' = [call EXCEPT ![c].st = "waiting"]
    /\ UNCHANGED <<bootVars, linkVars, linkUp, wire, calls, overtaken, broken>>

(* Mutant: responses are matched in the order the requests were made. *)
MatchFirst(r) == {c \in Callers : call[c].st = "waiting" /\
                    \A d \in Callers : call[d].st = "waiting" => call[c].stream <= call[d].stream}
(* Mutant: the callback is stored under the id the request was built with. *)
MatchBuiltId(r) == {c \in Callers : call[c].st = "waiting" /\ call[c].got = r.stream}
Match(r) == {c \in Callers : call[c].st = "waiting" /\ call[c].stream = r.stream}

(* make_engine_dispatch(): both Registers look the stream up and erase it;   *)
(* a response nobody has stored a callback for is dropped.                   *)
Dispatch(r) ==
    /\ Alive /\ ThreadFree /\ linkUp /\ r \in wire /\ r.answered
    /\ wire' = wire \ {r}
    /\ call' = [c \in Callers |-> IF c \in Match(r) THEN [call[c] EXCEPT !.st = "answered", !.got = r.stream]
                                  ELSE call[c]]
    /\ overtaken' = (overtaken \/ \E c \in Callers : call[c].st = "sent" /\ call[c].stream = r.stream)
    /\ broken' = IF \E c \in Callers : call[c].st = "insert" THEN "map race" ELSE broken
    /\ UNCHANGED <<bootVars, linkVars, linkUp, calls>>

(* future.get() returns; a status that is no success is only logged, so the  *)
(* status itself is left out.                                                *)
Answered(c) ==
    /\ Alive /\ call[c].st = "answered"
    /\ call' = [call EXCEPT ![c] = Idle]
    /\ UNCHANGED <<bootVars, linkVars, linkUp, wire, calls, overtaken, broken>>

-----------------------------------------------------------------------------
(* The rest of run_worker(), and the destructors of its locals.              *)

(* A failed bind of the inbound server is only logged. *)
StartServer ==
    /\ Main("server", "defs")
    /\ UNCHANGED <<code, opened, todo, polling, engineUp, linkVars, linkUp, callVars, broken>>

DefsDone ==
    /\ Main("defs", "tasks") /\ todo = <<>> /\ call["main"].st = "idle"
    /\ todo' = OwnTasks
    /\ UNCHANGED <<code, opened, polling, engineUp, linkVars, linkUp, callVars, broken>>

TasksDone ==
    /\ Main("tasks", "slots") /\ todo = <<>> /\ call["main"].st = "idle"
    /\ UNCHANGED <<code, opened, todo, polling, engineUp, linkVars, linkUp, callVars, broken>>

CreateSlot(s) ==
    /\ Alive /\ pc = "slots" /\ s \notin polling
    /\ polling' = polling \cup {s}
    /\ pc' = IF polling' = Slots THEN "run" ELSE pc
    /\ UNCHANGED <<code, opened, todo, engineUp, linkVars, linkUp, callVars, broken>>

RequestShutdown ==
    /\ Alive /\ pc = "run"
    /\ Return(0)
    /\ UNCHANGED <<opened, todo, polling, engineUp, linkVars, linkUp, callVars, broken>>

(* Locals die in reverse order: the poll handlers, the engine client (and    *)
(* the connection with it), the worker plugins, then the pool is joined.     *)
DestroyHandlers ==
    /\ Main("destroy", "client")
    /\ UNCHANGED <<code, opened, todo, polling, engineUp, linkVars, linkUp, callVars, broken>>

DestroyClient ==
    /\ Main("client", "join")
    /\ linkUp' = FALSE /\ worker' = FALSE /\ wire' = {}
    /\ UNCHANGED <<code, opened, todo, polling, engineUp, attempt, pending, retry, releasing,
                   starting, late, promises, runtimeSet, call, calls, overtaken, broken>>

(* The pool still runs: a slot takes a turn of its destroyed handler. *)
LateTurn(s) ==
    /\ Alive /\ pc \in {"client", "join"} /\ s \in polling /\ ThreadFree /\ call[s].st = "idle"
    /\ broken' = "turn of a destroyed handler"
    /\ UNCHANGED <<bootVars, linkVars, linkUp, callVars>>

(* The callbacks of an attempt capture the destroyed ClientFlowSocket. *)
LateConnector(a) ==
    /\ Alive /\ pc = "join"
    /\ attempt[a] \in {"handshake", "landed", "done"} \/ a \in releasing
    /\ broken' = "connector of a destroyed client"
    /\ UNCHANGED <<bootVars, linkVars, linkUp, callVars>>

JoinPool ==
    /\ Main("join", "exited")
    /\ \A s \in Slots : call[s].st = "idle"
    /\ UNCHANGED <<code, opened, todo, polling, engineUp, linkVars, linkUp, callVars, broken>>

-----------------------------------------------------------------------------
(* The engine: it comes up, answers in any order, and may go away.           *)

EngineStarts ==
    /\ ~engineUp /\ engineUp' = TRUE
    /\ UNCHANGED <<pc, code, opened, todo, polling, linkVars, linkUp, callVars, broken>>

EngineAnswers(r) ==
    /\ r \in wire /\ ~r.answered /\ linkUp
    /\ wire' = (wire \ {r}) \cup {[r EXCEPT !.answered = TRUE]}
    /\ UNCHANGED <<bootVars, linkVars, linkUp, call, calls, overtaken, broken>>

LinkDrops ==
    /\ Alive /\ linkUp
    /\ linkUp' = FALSE /\ worker' = FALSE /\ wire' = {}
    /\ UNCHANGED <<bootVars, attempt, pending, retry, releasing, starting, late, promises,
                   runtimeSet, call, calls, overtaken, broken>>

Boot == OpenPlugins \/ BuildPlugins \/ LoadConfig \/ LoadWorkers \/ Connect
Loop == WaitConnected \/ GiveUp \/ WaitTimesOut \/ Retry
Rest == StartServer \/ MainCalls \/ DefsDone \/ TasksDone
Exit == DestroyHandlers \/ DestroyClient \/ JoinPool
Pool(a) == HandshakeLands(a) \/ HandshakeFails(a) \/ StoreWorker(a) \/ Released(a) \/ DeferredRetry(a)
CallStep(c) == StoreCallback(c) \/ CallbackStored(c) \/ Answered(c)

ProcessNext ==
    \/ Boot \/ Loop \/ Rest \/ Exit \/ RequestShutdown
    \/ \E s \in starting : Emplace(s)
    \/ \E a \in Attempts : Pool(a)
    \/ \E s \in Slots : CreateSlot(s) \/ SlotCalls(s) \/ LateTurn(s)
    \/ \E a \in Attempts : LateConnector(a)
    \/ \E c \in Callers : CallStep(c)
    \/ \E r \in wire : Dispatch(r) \/ EngineAnswers(r)
    \/ EngineStarts \/ LinkDrops

(* The pool's threads and the calling threads run whenever they can, the     *)
(* engine answers what it has received, and main goes on.                    *)
ProcessFairness ==
    /\ \A c \in Callers : WF_processVars(CallStep(c))
    /\ WF_processVars(\E r \in wire : Dispatch(r))
    /\ WF_processVars(\E r \in wire : EngineAnswers(r))
    /\ WF_processVars(Exit)

ProcessSpec == ProcessInit /\ [][ProcessNext]_processVars /\ ProcessFairness

-----------------------------------------------------------------------------

(* No thread calls the engine before the Registers have their client:        *)
(* call_engine() aborts the process otherwise (context.cppm).                *)
CallsHaveRuntime == broken # "call without runtime"

(* Whatever order the engine answers in, a caller gets the response of its   *)
(* own request.                                                              *)
AnswersMatch == \A c \in Callers : call[c].st = "answered" => call[c].got = call[c].stream

(* The engine sees a workflow definition only when every task definition has *)
(* been answered, and a poll only when main has registered everything        *)
(* ("so a workflow's referenced task defs already exist").                   *)
RegisteredBeforeUse ==
    \A r, q \in wire :
        /\ ~(r.kind = "taskdef" /\ q.kind = "workflowdef")
        /\ ~(r.kind \in {"taskdef", "workflowdef", "task"} /\ q.kind = "poll")

(* The link between worker and engine: no call without a runtimeSet, each call  *)
(* gets the answer to its own request, and the definitions are registered    *)
(* before the first task of their type is asked for.                         *)
LinkIsSound == CallsHaveRuntime /\ AnswersMatch /\ RegisteredBeforeUse

(* A call over a link that stays up returns, unless its response overtook    *)
(* the callback: with more threads than slots, waiting slots never keep the  *)
(* pool from dispatching the responses they wait for.                        *)
CallsAnswered ==
    \A c \in Callers :
        call[c].st # "idle" ~> call[c].st = "idle" \/ overtaken \/ ~linkUp \/ ~Alive

-----------------------------------------------------------------------------
(* What the code says of itself and does not keep.                           *)

(* connect_timeout_ms = 0 "means retry forever, never give up".              *)
NeverGivesUp ==
    Forever /\ {"toml", "manager"} \subseteq opened => code # 1

(* A handshake in flight is never raced by a second one (retry()'s comment): *)
(* the promise is set once.                                                  *)
ConnectsOnce == broken # "promise set twice"

(* Every response reaches the call that waits for it. *)
NoResponseLost == ~overtaken

(* Once shutdown is requested every local's destructor runs and the process  *)
(* ends.                                                                     *)
ShutdownTerminates == pc = "destroy" ~> pc = "exited" \/ ~Alive

(* Nothing runs on the pool that uses a destroyed local. *)
NothingUsedAfterFree ==
    broken \notin {"turn of a destroyed handler", "connector of a destroyed client"}
=============================================================================
