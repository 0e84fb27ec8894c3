------------------------------ MODULE Workers ------------------------------
(***************************************************************************)
(* The worker plugins: plugins/worker/* and plugins/apps/auth/workers/*,   *)
(* as the worker host drives them through interfaces::IWorker.             *)
(*                                                                         *)
(* A task reaches a worker as a set of input fields.  execute_async()      *)
(* pushes it onto the worker's own TaskQueue, whose contract runs the      *)
(* entries one at a time; run() then completes the task at once, or hands  *)
(* a callback to the database, the connector, a downstream service or a    *)
(* timer and returns, so that the next entry may start before the first    *)
(* has completed.  Every interleaving of those callbacks is allowed.       *)
(*                                                                         *)
(* What a worker computes is abstracted to the fields of its output; what  *)
(* is kept is which inputs it refuses, which resources it needs, what it   *)
(* waits for and what it reports.                                          *)
(***************************************************************************)
EXTENDS Naturals, Sequences, FiniteSets

CONSTANTS
    Jobs,         \* the tasks of one behaviour; all are of one type
    Limits,       \* values of a client_pool task's max_attempts
    MaxReplies    \* bound: replies of the downstream service to one task

ASSUME WorkersAssumption == Limits \subseteq Nat /\ MaxReplies \in Nat

VARIABLES
    kind,      \* the worker type under test
    offers,    \* what the host has to inject, and whether an endpoint is configured
    bound,     \* what on_load handed to the worker; {} before it
    runtime,   \* the worker's own client is connected
    input,     \* job -> [fields, blank, limit]: present fields, the ones that are ""
    lane,      \* the worker's TaskQueue
    at,        \* job -> where it is
    tries,     \* RetryState::m_attempt of the job
    requests,  \* requests that were sent for the job
    writes,    \* upserts of the user's row, in order, as the jobs that made them
    out,       \* job -> what its completion was given
    fired      \* job -> how often its completion was called

workersVars == <<kind, offers, bound, runtime, input, lane, at, tries, requests, writes, out, fired>>

Failure   == [ok |-> FALSE, fields |-> {}, status |-> "none", attempts |-> 0, row |-> 0]
Ok(names) == [Failure EXCEPT !.ok = TRUE, !.fields = names]
Pending   == [Failure EXCEPT !.status = "pending"]
-----------------------------------------------------------------------------
(***************************************************************************)
(* The fields each input type declares.  from_value decodes them all or    *)
(* fails: a field's default in the class is never reached from a task.     *)
(***************************************************************************)
TransformInput    == {"transform", "value"}
PasswordHashInput == {"password"}
JwtSignInput      == {"sub"}
DbQueryInput      == {"username", "password_hash"}
DatabaseInput     == {"sql"}
ClientInput       == {"path", "method"}
ClientPoolInput   == {"path", "method", "expected_status", "interval_ms", "max_attempts"}
EmailInput        == {"smtp_url", "from", "to", "subject", "body", "username", "password"}
LlmInput          == {"api_url", "api_key", "model", "prompt"}
HashInput         == {"data", "algo"}
JwtInput          == {"secret"}
EventsInput       == {"event_name"}

FromValue(in, type) == type \subseteq in.fields

(***************************************************************************)
(* What each plugin's on_load takes from the host.  "group" is the host's  *)
(* contract group, onto which set_contract_group binds the TaskQueue.      *)
(***************************************************************************)
EchoPlugin         == {"group"}
TransformPlugin    == {"group"}
PasswordHashPlugin == {"group"}
JwtSignPlugin      == {"group"}
DbQueryPlugin      == {"group", "connector"}
DatabasePlugin     == {"group", "database"}
ClientPlugin       == {"group", "protocol", "leverager", "endpoint"}
ClientPoolPlugin   == {"group", "protocol", "leverager", "endpoint"}
EmailPlugin        == {"group"}
LlmPlugin          == {"group"}
HashPlugin         == {"group"}
JwtPlugin          == {"group"}
EventsPlugin       == {"group"}

Takes ==
    [echo |-> EchoPlugin, transform |-> TransformPlugin, pw_hash |-> PasswordHashPlugin,
     jwt_sign |-> JwtSignPlugin, db_query |-> DbQueryPlugin, database |-> DatabasePlugin,
     http |-> ClientPlugin, client_pool |-> ClientPoolPlugin, email |-> EmailPlugin,
     llm |-> LlmPlugin, hash |-> HashPlugin, jwt |-> JwtPlugin, events |-> EventsPlugin]

Declared ==
    [echo |-> {"any"}, transform |-> TransformInput, pw_hash |-> PasswordHashInput,
     jwt_sign |-> JwtSignInput, db_query |-> DbQueryInput, database |-> DatabaseInput,
     http |-> ClientInput, client_pool |-> ClientPoolInput, email |-> EmailInput,
     llm |-> LlmInput, hash |-> HashInput, jwt |-> JwtInput, events |-> EventsInput]

Resources == {"group", "connector", "database", "protocol", "leverager", "endpoint", "sink"}
-----------------------------------------------------------------------------
(***************************************************************************)
(* The workers that answer at once.                                        *)
(***************************************************************************)
Echo(in)         == Ok(in.fields)
Transform(in)    == IF FromValue(in, TransformInput) THEN Ok({"result"}) ELSE Failure
PasswordHash(in) == IF FromValue(in, PasswordHashInput) THEN Ok({"password_hash"}) ELSE Failure
JwtSign(in)      == IF FromValue(in, JwtSignInput) THEN Ok({"token"}) ELSE Failure
Jwt(in)          == IF FromValue(in, JwtInput) THEN Ok({"jwt_status", "token"}) ELSE Failure
Hash(in)         == IF FromValue(in, HashInput) THEN Ok({"hash_status", "hash", "algo"}) ELSE Failure
Events(in) ==
    IF FromValue(in, EventsInput) /\ "event_name" \notin in.blank /\ "sink" \in offers
    THEN Ok({"events_status"}) ELSE Failure

AtOnce(in) ==
    CASE kind = "echo"      -> Echo(in)
      [] kind = "transform" -> Transform(in)
      [] kind = "pw_hash"   -> PasswordHash(in)
      [] kind = "jwt_sign"  -> JwtSign(in)
      [] kind = "jwt"       -> Jwt(in)
      [] kind = "hash"      -> Hash(in)
      [] kind = "events"    -> Events(in)

(***************************************************************************)
(* The workers that wait: whether run() refuses the input on the spot.     *)
(***************************************************************************)
NoPath(in) == "path" \in in.blank
Refuses(in) ==
    CASE kind = "db_query"    -> ~FromValue(in, DbQueryInput) \/ "connector" \notin bound
      [] kind = "database"    -> "database" \notin bound \/ ~FromValue(in, DatabaseInput)
      [] kind = "http"        -> ~runtime \/ ~FromValue(in, ClientInput) \/ NoPath(in)
      [] kind = "client_pool" -> ~runtime \/ ~FromValue(in, ClientPoolInput) \/ NoPath(in)
      [] kind = "email"       -> ~FromValue(in, EmailInput) \/ "smtp_url" \in in.blank
      [] kind = "llm"         -> ~FromValue(in, LlmInput)

Waits == [db_query |-> "upsert", database |-> "query", http |-> "sent",
          client_pool |-> "sent", email |-> "blocked", llm |-> "blocked"]
-----------------------------------------------------------------------------
(***************************************************************************)
(* Tasks of the type with every field, with one field missing, and with    *)
(* one field present but empty.                                            *)
(***************************************************************************)
SomeInputs(type) ==
    LET all == Declared[type]
        lim == IF type = "client_pool" THEN Limits ELSE {0}
    IN [fields : {all} \cup {all \ {f} : f \in all}, blank : {{}}, limit : lim]
       \cup [fields : {all}, blank : {{f} : f \in all \cap {"path", "smtp_url", "event_name"}}, limit : lim]

WorkersInit ==
    /\ kind \in DOMAIN Takes
    /\ offers \in {Resources} \cup {Resources \ {r} : r \in Takes[kind] \cup {"sink"}}
    /\ input \in [Jobs -> SomeInputs(kind)]
    /\ bound = {} /\ runtime = FALSE
    /\ lane = <<>> /\ writes = <<>>
    /\ at = [j \in Jobs |-> "new"]
    /\ tries = [j \in Jobs |-> 0] /\ requests = [j \in Jobs |-> 0]
    /\ out = [j \in Jobs |-> Pending] /\ fired = [j \in Jobs |-> 0]

Loaded == bound # {}

\* on_load: every resource the host has is handed on before the endpoint is
\* looked up; without one the worker has no downstream.
OnLoadWorker ==
    /\ bound = {}
    /\ bound' = (Takes[kind] \cap offers) \cup {"loaded"}
    /\ UNCHANGED <<kind, offers, runtime, input, lane, at, tries, requests, writes, out, fired>>

\* The asynchronous connect of connect_downstream() lands.
Connected ==
    /\ Loaded /\ ~runtime
    /\ kind \in {"http", "client_pool"}
    /\ ClientPlugin \subseteq bound
    /\ runtime' = TRUE
    /\ UNCHANGED <<kind, offers, bound, input, lane, at, tries, requests, writes, out, fired>>

\* execute_async(): onto the worker's queue.
ExecuteAsync(j) ==
    /\ Loaded /\ at[j] = "new"
    /\ lane' = Append(lane, j)
    /\ at' = [at EXCEPT ![j] = "queued"]
    /\ UNCHANGED <<kind, offers, bound, runtime, input, tries, requests, writes, out, fired>>

Complete(j, result) ==
    /\ out' = [out EXCEPT ![j] = result]
    /\ fired' = [fired EXCEPT ![j] = @ + 1]

Stay == UNCHANGED <<out, fired>>

\* run() of the queue's next entry.  The queue has a contract only when there
\* was a group; a blocking send holds it until it returns.
Run(j) ==
    /\ "group" \in bound
    /\ lane # <<>> /\ j = Head(lane) /\ \A k \in Jobs : at[k] # "blocked"
    /\ lane' = Tail(lane)
    /\ IF kind \notin DOMAIN Waits
       THEN at' = [at EXCEPT ![j] = "done"] /\ Complete(j, AtOnce(input[j]))
       ELSE IF Refuses(input[j])
       THEN at' = [at EXCEPT ![j] = "done"] /\ Complete(j, Failure)
       ELSE at' = [at EXCEPT ![j] = Waits[kind]] /\ Stay
    /\ requests' = [requests EXCEPT ![j] = IF at'[j] = "sent" THEN @ + 1 ELSE @]
    /\ UNCHANGED <<kind, offers, bound, runtime, input, tries, writes>>

\* email and llm: send_blocking() returns, or fails.
SendReturns(j, good) ==
    /\ at[j] = "blocked"
    /\ at' = [at EXCEPT ![j] = "done"]
    /\ Complete(j, IF good THEN Ok({"status"}) ELSE Failure)
    /\ UNCHANGED <<kind, offers, bound, runtime, input, lane, tries, requests, writes>>

\* database: whatever comes back, "" included, is reported as ok.
RowsReturn(j) ==
    /\ at[j] = "query"
    /\ at' = [at EXCEPT ![j] = "done"]
    /\ Complete(j, Ok({"db_status", "result"}))
    /\ UNCHANGED <<kind, offers, bound, runtime, input, lane, tries, requests, writes>>

\* A bug: the row is read while the upsert is still on its way.
StoreReturns_ReadsFirst(j, good) ==
    /\ at[j] = "upsert"
    /\ writes' = Append(writes, j)
    /\ at' = [at EXCEPT ![j] = "done"]
    /\ Complete(j, IF good /\ writes # <<>>
                   THEN [Ok({"stored_hash"}) EXCEPT !.row = Len(writes)] ELSE Failure)
    /\ UNCHANGED <<kind, offers, bound, runtime, input, lane, tries, requests>>

\* db_query: the upsert's callback, which asks for the row it just wrote.
StoreReturns(j, good) ==
    /\ at[j] = "upsert"
    /\ writes' = IF good THEN Append(writes, j) ELSE writes
    /\ IF good THEN at' = [at EXCEPT ![j] = "find"] /\ Stay
       ELSE at' = [at EXCEPT ![j] = "done"] /\ Complete(j, Failure)
    /\ UNCHANGED <<kind, offers, bound, runtime, input, lane, tries, requests>>

\* The find's callback: the row as it is by then, or nothing.
FindReturns(j, found) ==
    /\ at[j] = "find"
    /\ at' = [at EXCEPT ![j] = "done"]
    /\ Complete(j, IF found THEN [Ok({"db_status", "stored_username", "stored_hash"})
                                    EXCEPT !.row = Len(writes)]
                   ELSE Failure)
    /\ UNCHANGED <<kind, offers, bound, runtime, input, lane, tries, requests, writes>>

\* http: one request, one reply, whatever its status.
ReplyArrives(j) ==
    /\ kind = "http" /\ at[j] = "sent"
    /\ at' = [at EXCEPT ![j] = "done"]
    /\ Complete(j, Ok({"http_status", "status", "body"}))
    /\ UNCHANGED <<kind, offers, bound, runtime, input, lane, tries, requests, writes>>

Outcome(j, status, n) ==
    [Ok({"client_pool_status", "status", "attempts", "body"}) EXCEPT !.status = status, !.attempts = n]

\* A bug: the attempts are counted in the worker and not in the RetryState.
HandleResponse_SharedCount(j, matches) ==
    LET n == tries[j] + 1
    IN  /\ kind = "client_pool" /\ at[j] = "sent" /\ n <= MaxReplies
        /\ tries' = [k \in Jobs |-> n]
        /\ IF matches THEN at' = [at EXCEPT ![j] = "done"] /\ Complete(j, Outcome(j, "ok", n))
           ELSE IF n >= input[j].limit
           THEN at' = [at EXCEPT ![j] = "done"] /\ Complete(j, Outcome(j, "timeout", n))
           ELSE at' = [at EXCEPT ![j] = "timer"] /\ Stay
        /\ UNCHANGED <<kind, offers, bound, runtime, input, lane, requests, writes>>

\* client_pool: handle_response().  The leverager is there: without one the
\* client never connected and run() refused the task.
HandleResponse(j, matches) ==
    LET n == tries[j] + 1
    IN  /\ kind = "client_pool" /\ at[j] = "sent" /\ n <= MaxReplies
        /\ tries' = [tries EXCEPT ![j] = n]
        /\ IF matches THEN at' = [at EXCEPT ![j] = "done"] /\ Complete(j, Outcome(j, "ok", n))
           ELSE IF n >= input[j].limit
           THEN at' = [at EXCEPT ![j] = "done"] /\ Complete(j, Outcome(j, "timeout", n))
           ELSE at' = [at EXCEPT ![j] = "timer"] /\ Stay
        /\ UNCHANGED <<kind, offers, bound, runtime, input, lane, requests, writes>>

\* The timer of interval_ms runs out: issue_attempt() again.
IssueAttempt(j) ==
    /\ at[j] = "timer"
    /\ at' = [at EXCEPT ![j] = "sent"]
    /\ requests' = [requests EXCEPT ![j] = @ + 1]
    /\ Stay
    /\ UNCHANGED <<kind, offers, bound, runtime, input, lane, tries, writes>>

WorkersNext ==
    \/ OnLoadWorker \/ Connected
    \/ \E j \in Jobs :
        \/ ExecuteAsync(j) \/ Run(j) \/ RowsReturn(j) \/ ReplyArrives(j) \/ IssueAttempt(j)
        \/ \E good \in BOOLEAN : SendReturns(j, good) \/ StoreReturns(j, good)
                                 \/ FindReturns(j, good) \/ HandleResponse(j, good)

WorkersSpec == WorkersInit /\ [][WorkersNext]_workersVars
-----------------------------------------------------------------------------
\* WorkerCompletion is "fired once with the task's outcome" (worker.cppm), and
\* a client_pool task reports its own attempts, whatever else the worker polls
\* for: as many as requests were sent for it, at least one and, once it gives
\* up, exactly the limit it asked for.
CompletesOnce ==
    \A j \in Jobs :
        /\ fired[j] = IF at[j] = "done" THEN 1 ELSE 0
        /\ out[j].status \in {"ok", "timeout"} =>
              /\ out[j].attempts = requests[j]
              /\ out[j].attempts >= 1
              /\ out[j].attempts <= IF input[j].limit = 0 THEN 1 ELSE input[j].limit
              /\ out[j].status = "timeout" => out[j].attempts >= input[j].limit

\* A task that was handed over waits where something will still happen to it:
\* a queue whose contract exists, a callback or a timer.  With a contract
\* group on offer no plugin forgets to bind its queue, whatever else is missing.
NoTaskForgotten ==
    "group" \in offers => \A j \in Jobs : at[j] = "queued" => "group" \in bound

\* Each task a worker accepts is answered exactly once, from its own attempts.
AnsweredOnce == CompletesOnce /\ NoTaskForgotten

\* db_query reads its own write, or a later one of the same user: never the row
\* as it was before.
ReadsBackOwnWrite ==
    \A j \in Jobs :
        out[j].row > 0 => \E i \in 1..out[j].row : writes[i] = j

\* What the worker's documentation calls "stores then reads back": the row that
\* is read back is the one that was written.
ReadsBackExactly == \A j \in Jobs : out[j].row > 0 => writes[out[j].row] = j
=============================================================================
