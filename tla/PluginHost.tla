----------------------------- MODULE PluginHost -----------------------------
(***************************************************************************)
(* The server process from main() to exit: ServerRunner::run() opens,      *)
(* orders, filters, initialises and wires the plugins, serves until a      *)
(* signal arrives, and takes everything down again, while the threads of   *)
(* the contract pool, up since before the first plugin was opened, run the *)
(* turns that plugins and the shared connector register on the way.        *)
(*                                                                         *)
(* The main thread is the sequence of phases in `phase`; the pool threads  *)
(* interleave with every one of them.  A turn calls the plugin that owns   *)
(* it, the providers resolved for it, and every registered event sink.     *)
(*                                                                         *)
(* A plugin is identified by its stem, which is also its name: the two     *)
(* differ for some plugins of the repository, none of which is required by *)
(* another one.                                                            *)
(***************************************************************************)
EXTENDS Integers, Sequences, FiniteSets, SequencesExt

CONSTANTS
  Plugins,       \* stems of the shared libraries that may be installed
  Requires,      \* [Plugins -> Seq(Plugins)]: get_requires()
  LoadBefore,    \* [Plugins -> SUBSET STRING]: get_load_before_types()
  UniqueType,    \* [Plugins -> STRING]: get_unique_type()
  Exports,       \* [Plugins -> SUBSET Capabilities]: capabilities()
  Installs,      \* the sets of plugins that may be found on disk
  Configs,       \* the [providers] tables that may be configured
  Threads,       \* threads of the contract pool
  Conns,         \* connections clients may open
  MaxRing        \* max_events of the memory sink

CONSTANTS Nobody, Host     \* no plugin; the host itself as a turn's owner

Server == "http2"
Sweeper == "workflow_local"
Generator == "openapi_generator"

Single == {"database", "search", "cache", "cron", "workflow_orchestrator",
           "worker_orchestrator", "payload_storage"}
FanOut == {"logger", "events"}
Capabilities == Single \union FanOut \union {"openapi", "protocol", "custom"}

ASSUME PluginsAssumption ==
  /\ Nobody \notin Plugins \union {Host} /\ Host \notin Plugins \union Threads
  /\ \A i \in Installs : i \subseteq Plugins
  /\ {Server, Sweeper} \subseteq Plugins
  /\ Requires \in [Plugins -> Seq(Plugins)]
  /\ \A p \in Plugins : Exports[p] \subseteq Capabilities
  /\ \A p \in Plugins : "openapi" \in Exports[p] => p = Generator    \* there is one generator
  /\ MaxRing \in Nat \ {0}

VARIABLES
  phase,      \* where run() is
  installed,  \* the plugins on disk
  providers,  \* the [providers] table
  stack,      \* open() calls in progress, innermost last
  order,      \* m_order
  at,         \* index of the loop over m_order that is running
  life,       \* each plugin's instance, s_plugin
  cb,         \* capability pointers of the host callback table
  got,        \* what each plugin's on_load left it with
  sinks,      \* EventBusRegistry::m_sinks
  loggers,    \* LoggerRegistry
  wiredAt,    \* events published when the last format was wired, -1 before
  migrated,   \* migration::Status
  dbWork,     \* connector operations queued
  listening,  \* the base socket accepts
  goaway,     \* Server::mark_closed() has run
  conn,       \* each client connection
  pool,       \* "up", "stopping", "joined"
  turn,       \* what each pool thread, and main inside load_plugins(), is running
  events,     \* events published so far
  held,       \* events a sink holds: the ring, or the producer's queue
  sent,       \* <<sink, event>> handed on to a broker
  dropped     \* <<sink, event>> given up on

main == <<phase, installed, providers, stack, order, at>>
wiring == <<cb, got, sinks, loggers, wiredAt, migrated>>
io == <<listening, goaway, conn>>
bus == <<events, held, sent, dropped>>
vars == <<main, life, wiring, dbWork, io, pool, turn, bus>>

Runners == Threads \union {Host}    \* the pool, and main
Idle == [of |-> Nobody, ev |-> 0, sink |-> 0, on |-> Nobody]
Opened == Range(order)
Live == {p \in Plugins : life[p] \notin {"absent", "gone"}}

Init ==
  /\ phase = "open" /\ installed \in Installs /\ providers \in Configs
  /\ stack = <<>> /\ order = <<>> /\ at = 1
  /\ life = [p \in Plugins |-> "absent"]
  /\ cb = [c \in Single |-> Nobody]
  /\ got = [p \in Plugins |-> {}]
  /\ sinks = <<>> /\ loggers = {} /\ wiredAt = -1 /\ migrated = FALSE
  /\ dbWork = 0
  /\ listening = FALSE /\ goaway = FALSE /\ conn = [c \in Conns |-> "none"]
  /\ pool = "up" /\ turn = [t \in Runners |-> Idle]
  /\ events = 0 /\ held = [p \in Plugins |-> <<>>] /\ sent = {} /\ dropped = {}

-----------------------------------------------------------------------------
(* Boot: open, order, filter, resolve. *)

\* std::abort(): the process is gone, and its threads with it.
Abort ==
  /\ phase' = "aborted" /\ pool' = "joined"
  /\ turn' = [t \in Runners |-> Idle]

\* open_all() takes the next entry of m_scanned, an unordered map, that no
\* earlier dependency resolution opened.
OpenAll(p) ==
  /\ phase = "open" /\ stack = <<>> /\ p \in installed \ Opened
  /\ stack' = <<p>>
  /\ UNCHANGED <<phase, installed, providers, order, at, life, wiring, dbWork, io, pool, turn, bus>>

\* The elements of s that are in S, in their order.
Only(s, S) ==
  LET kept[i \in 0..Len(s)] ==
        IF i = 0 THEN <<>> ELSE IF s[i] \in S THEN Append(kept[i - 1], s[i]) ELSE kept[i - 1]
  IN kept[Len(s)]

\* The plugins p declares with congelado_requires() that are not open yet.
Missing(p) == Only(Requires[p], Plugins \ Opened)

\* open(): dlopen and the symbol getters construct the instance (plugin_instance);
\* every declared dependency is opened, recursively, before the plugin itself
\* is recorded; a dependency that is not on disk fails the whole boot.
Open ==
  /\ phase = "open" /\ stack # <<>>
  /\ LET p == Last(stack)
         missing == Missing(p)
     IN /\ life' = [life EXCEPT ![p] = "made"]
        /\ \/ /\ missing = <<>>
              /\ order' = Append(order, p)
              /\ stack' = Front(stack)
              /\ UNCHANGED <<phase, pool, turn>>
           \/ /\ missing # <<>> /\ Head(missing) \in installed
              /\ stack' = Append(stack, Head(missing))
              /\ UNCHANGED <<phase, order, pool, turn>>
           \/ /\ missing # <<>> /\ Head(missing) \notin installed
              /\ Abort
              /\ UNCHANGED <<order, stack>>
  /\ UNCHANGED <<installed, providers, at, wiring, dbWork, io, bus>>

\* p's on_load must precede q's.
Blocks(p, q) == p # q /\ UniqueType[q] \in LoadBefore[p]

\* Whoever is waited for, as a requirement or as a blocker, has no blocker itself.
FlatWaits ==
  \A p, q, r \in Plugins : Blocks(p, q) \/ p \in Range(Requires[q]) => ~Blocks(r, p)

\* Kahn's passes over m_order: a pass places every plugin none of whose blockers
\* is still unplaced; as many passes as plugins; what a cycle leaves is appended.
SortedOrder(o) ==
  LET n == Len(o)
      Place(done, q) ==
        IF q \in Range(done) \/ \E p \in Range(o) \ Range(done) : Blocks(p, q)
        THEN done ELSE Append(done, q)
      placed[k \in 0..(n * n)] == IF k = 0 THEN <<>> ELSE Place(placed[k - 1], o[((k - 1) % n) + 1])
  IN placed[n * n] \o Only(o, Plugins \ Range(placed[n * n]))

ApplyLoadBefore ==
  /\ phase = "open" /\ stack = <<>> /\ installed \subseteq Opened
  /\ order' = SortedOrder(order)
  /\ phase' = "filter"
  /\ UNCHANGED <<installed, providers, stack, at, life, wiring, dbWork, io, pool, turn, bus>>

\* The [providers] table: a set of stems for the fanned-out capabilities, one
\* preferred stem for the others; a capability outside its domain is unset.
Wins(p, c) ==
  c \in DOMAIN providers => IF c \in FanOut THEN p \in providers[c] ELSE p = providers[c]

Loses(p) ==
  LET gated == Exports[p] \intersect (Single \union FanOut)
  IN gated # {} /\ \A c \in gated : ~Wins(p, c)

\* discard_unlisted_provider_gated_plugins(): a plugin that loses every gated
\* capability it exports is unloaded and forgotten, required or not.
DiscardUnlisted ==
  /\ phase = "filter"
  /\ LET out == {p \in Opened : Loses(p)}
     IN /\ life' = [p \in Plugins |-> IF p \in out THEN "gone" ELSE life[p]]
        /\ order' = Only(order, Plugins \ out)
  /\ phase' = "resolve"
  /\ UNCHANGED <<installed, providers, stack, at, wiring, dbWork, io, pool, turn, bus>>

\* The preferred exporter when it is loaded, else the first one in load order.
Resolved(c) ==
  LET exporters == Only(order, {p \in Plugins : c \in Exports[p]})
  IN IF exporters = <<>> THEN Nobody
     ELSE IF c \in DOMAIN providers /\ providers[c] \in Range(exporters)
          THEN providers[c] ELSE Head(exporters)

\* resolve_*_capability() and wire_shared_connector(); no OpenAPI generator aborts.
Resolve ==
  /\ phase = "resolve"
  /\ cb' = [c \in Single |-> Resolved(c)]
  /\ IF \E p \in Opened : "openapi" \in Exports[p]
     THEN phase' = "init" /\ at' = 1 /\ UNCHANGED <<pool, turn>>
     ELSE Abort /\ UNCHANGED at
  /\ UNCHANGED <<installed, providers, stack, order, life, got, sinks, loggers, wiredAt,
                 migrated, dbWork, io, bus>>

-----------------------------------------------------------------------------
(* build(): on_load of every plugin, then on_ready of every plugin. *)

\* What each on_load can leave its plugin with; Throws is an exception.
Throws == {"throws"}

\* The engine takes the connector and every provider that was resolved, seeds a
\* cron backend with a query on the connector, and registers its routes.
LoadEngine ==
  {{"routes"} \union {c \in Single : cb[c] # Nobody}
     \union IF cb["cron"] # Nobody THEN {"seed"} ELSE {}}

\* The generator registers the live document's route.
LoadGenerator == {{"routes"}}

\* Without a host in its configuration the server loads as nothing; with one, a
\* missing certificate, key or port throws; otherwise it is built, with /ping.
LoadServer == {{}, {"routes", "server"}, Throws}

\* The workflow backend takes the connector, the bridge and the search provider
\* and registers its sweep, scheduled at once.
LoadWorkflow == {{"connector", "sweep"}}

\* The worker backend takes the connector.
LoadOrchestrator == {{"connector"}}

\* The payload backend, resolved before it was configured, takes its directory.
LoadPayload == {{"directory"}}

\* A producer, or an exception: bad configuration or no producer.
LoadKafka == {{"producer"}, Throws}

\* An open channel, or an exception: no connection, login refused, no channel.
LoadRabbit == {{"channel"}, Throws}

\* A connection, or none: a failed connect is only logged.
LoadRedis == {{"context"}, {}}

\* The ring's size; text that is not a number leaves the default.
LoadMemory == {{"ring"}}

\* Any HTTP answer of the probed node will do; silence throws.
LoadElastic == {{}, Throws}

Load(p) ==
  CASE p = "engine" -> LoadEngine
    [] p = Generator -> LoadGenerator
    [] p = Server -> LoadServer
    [] p = Sweeper -> LoadWorkflow
    [] p = "worker_local" -> LoadOrchestrator
    [] p = "payload_local" -> LoadPayload
    [] p = "kafka" -> LoadKafka
    [] p = "rabbitmq" -> LoadRabbit
    [] p = "redis" -> LoadRedis
    [] p = "memory" -> LoadMemory
    [] p = "elasticsearch" -> LoadElastic
    [] OTHER -> {{}}

\* congelado_init(): 0, or -1 when on_load threw, which aborts the boot.
InitNext ==
  /\ phase = "init" /\ at <= Len(order)
  /\ LET p == order[at]
     IN \E g \in Load(p) :
          \/ /\ g # Throws
             /\ got' = [got EXCEPT ![p] = g]
             /\ dbWork' = IF "seed" \in g THEN dbWork + 1 ELSE dbWork
             /\ life' = [life EXCEPT ![p] = "loaded"]
             /\ at' = at + 1
             /\ UNCHANGED <<phase, pool, turn>>
          \/ /\ g = Throws
             /\ Abort
             /\ UNCHANGED <<at, life, got, dbWork>>
  /\ UNCHANGED <<installed, providers, stack, order, cb, sinks, loggers, wiredAt, migrated, io, bus>>

\* The server's on_ready: it compiles the routes into its trie, registers its
\* executor and starts listening; a bind that fails is only logged.
ServerReady == listening' \in IF "server" \in got[Server] THEN BOOLEAN ELSE {FALSE}

\* congelado_on_ready(), the second pass of build().
ReadyNext ==
  /\ phase = "init" /\ at > Len(order) /\ at <= 2 * Len(order)
  /\ LET p == order[at - Len(order)]
     IN /\ life' = [life EXCEPT ![p] = "ready"]
        /\ IF p = Server THEN ServerReady ELSE UNCHANGED listening
  /\ at' = at + 1
  /\ UNCHANGED <<phase, installed, providers, stack, order, wiring, dbWork, goaway, conn, pool,
                 turn, bus>>

BuildReturns ==
  /\ phase = "init" /\ at > 2 * Len(order)
  /\ phase' = "wire" /\ at' = 1
  /\ UNCHANGED <<installed, providers, stack, order, life, wiring, dbWork, io, pool, turn, bus>>

\* wire_post_build_capabilities(), one plugin at a time: loggers and sinks are
\* appended to their registries (no lock: turns may be reading them), and by the
\* end every format is registered.
WireNext ==
  /\ phase = "wire"
  /\ \/ /\ at <= Len(order)
        /\ LET p == order[at]
           IN /\ loggers' = IF "logger" \in Exports[p] THEN loggers \union {p} ELSE loggers
              /\ sinks' = IF "events" \in Exports[p] THEN Append(sinks, p) ELSE sinks
        /\ at' = at + 1
        /\ UNCHANGED <<phase, wiredAt>>
     \/ /\ at > Len(order)
        /\ wiredAt' = events /\ phase' = "migrate"
        /\ UNCHANGED <<at, loggers, sinks>>
  /\ UNCHANGED <<installed, providers, stack, order, life, cb, got, migrated, dbWork, io, pool,
                 turn, bus>>

\* run_migrations(): run, skipped without a connected database, or failed, which
\* aborts.
RunMigrations ==
  /\ phase = "migrate"
  /\ \/ migrated' = TRUE /\ phase' = "document" /\ UNCHANGED <<pool, turn>>
     \/ cb["database"] # Nobody /\ Abort /\ UNCHANGED migrated
  /\ UNCHANGED <<installed, providers, stack, order, at, life, cb, got, sinks, loggers, wiredAt,
                 dbWork, io, bus>>

\* load_plugins() returns has_logger(), without which run() aborts.
LoadReturns == IF loggers # {} THEN phase' = "serve" /\ UNCHANGED <<pool, turn>> ELSE Abort

\* write_document(): written, or refused, which main publishes from inside the
\* generator, beside whatever the pool publishes, and then forgets.
WriteDocument ==
  /\ \/ phase = "document" /\ LoadReturns /\ UNCHANGED events
     \/ /\ phase = "document" /\ phase' = "refused"
        /\ events' = events + 1
        /\ turn' = [turn EXCEPT ![Host] = [of |-> Generator, ev |-> events', sink |-> 1, on |-> Nobody]]
        /\ UNCHANGED pool
     \/ phase = "refused" /\ turn[Host] = Idle /\ LoadReturns /\ UNCHANGED events
  /\ UNCHANGED <<installed, providers, stack, order, at, life, wiring, dbWork, io, held, sent, dropped>>

-----------------------------------------------------------------------------
(* The pool: connections, requests, connector operations, events. *)

\* The listening socket's turn accepts a connection and finishes its handshake.
Accept(c) ==
  /\ pool = "up" /\ listening /\ conn[c] = "none"
  /\ conn' = [conn EXCEPT ![c] = "open"]
  /\ UNCHANGED <<main, life, wiring, dbWork, listening, goaway, pool, turn, bus>>

\* A request arrives on an open connection and is queued on the executor.  The
\* bound on the work of the pool: each connection makes one request.
Request(c) ==
  /\ pool = "up" /\ conn[c] = "open" /\ ~goaway /\ listening
  /\ conn' = [conn EXCEPT ![c] = "queued"]
  /\ UNCHANGED <<main, life, wiring, dbWork, listening, goaway, pool, turn, bus>>

\* A contract is in at most one turn at a time.
NoTurnOf(p) == \A t \in Threads : turn[t].of # p

\* A thread takes a turn of the server's executor, of the connector, or of the
\* sweep, which puts itself off until the migrations ran (one sweep is modelled).
StartTurn(t) ==
  /\ pool = "up" /\ turn[t] = Idle
  /\ \/ \E c \in Conns : /\ conn[c] = "queued" /\ NoTurnOf(Server)
                         /\ conn' = [conn EXCEPT ![c] = "running"]
                         /\ turn' = [turn EXCEPT ![t] = [of |-> Server, ev |-> events + 1, sink |-> 1, on |-> c]]
                         /\ UNCHANGED <<dbWork, got>>
     \/ /\ dbWork > 0 /\ NoTurnOf(Host)
        /\ dbWork' = dbWork - 1
        /\ turn' = [turn EXCEPT ![t] = [of |-> Host, ev |-> events + 1, sink |-> 1, on |-> Nobody]]
        /\ UNCHANGED <<conn, got>>
     \/ /\ "sweep" \in got[Sweeper] /\ migrated
        /\ got' = [got EXCEPT ![Sweeper] = @ \ {"sweep"}]
        /\ turn' = [turn EXCEPT ![t] = [of |-> Sweeper, ev |-> events + 1, sink |-> 1, on |-> Nobody]]
        /\ UNCHANGED <<conn, dbWork>>
  /\ events' = events + 1
  /\ UNCHANGED <<main, life, cb, sinks, loggers, wiredAt, migrated, listening, goaway, pool, held,
                 sent, dropped>>

LastOf(s, n) == IF Len(s) > n THEN SubSeq(s, Len(s) - n + 1, Len(s)) ELSE s

\* The memory sink appends under its lock and evicts its oldest beyond max_events.
RingPublish(s, e) ==
  held' = [held EXCEPT ![s] = LastOf(Append(@, e), MaxRing)] /\ UNCHANGED <<sent, dropped>>

\* kafka's producev copies the event into the producer's queue, or refuses it.
QueuePublish(s, e) ==
  \/ held' = [held EXCEPT ![s] = Append(@, e)] /\ UNCHANGED <<sent, dropped>>
  \/ dropped' = dropped \union {<<s, e>>} /\ UNCHANGED <<held, sent>>

\* rabbitmq writes to its channel and only warns when that fails.
WirePublish(s, e) ==
  \/ sent' = sent \union {<<s, e>>} /\ UNCHANGED <<held, dropped>>
  \/ dropped' = dropped \union {<<s, e>>} /\ UNCHANGED <<held, sent>>

\* redis skips without a connection; a lost or refused command is only logged.
RedisPublish(s, e) ==
  \/ "context" \in got[s] /\ sent' = sent \union {<<s, e>>} /\ UNCHANGED <<held, dropped>>
  \/ dropped' = dropped \union {<<s, e>>} /\ UNCHANGED <<held, sent>>

Deliver(s, e) ==
  \/ s = "memory" /\ RingPublish(s, e)
  \/ s = "kafka" /\ QueuePublish(s, e)
  \/ s = "rabbitmq" /\ WirePublish(s, e)
  \/ s = "redis" /\ RedisPublish(s, e)

\* Fans out to the first sink only.
PublishFirstOnly(t) ==
  /\ turn[t] # Idle /\ turn[t].sink <= Len(sinks)
  /\ Deliver(sinks[turn[t].sink], turn[t].ev)
  /\ turn' = [turn EXCEPT ![t].sink = Len(sinks) + 1]
  /\ UNCHANGED <<main, life, wiring, dbWork, io, pool, events>>

\* core::events::publish() walks the sinks registered by now, one call each.
Publish(t) ==
  /\ turn[t] # Idle /\ turn[t].sink <= Len(sinks)
  /\ Deliver(sinks[turn[t].sink], turn[t].ev)
  /\ turn' = [turn EXCEPT ![t].sink = @ + 1]
  /\ UNCHANGED <<main, life, wiring, dbWork, io, pool, events>>

\* The turn returns; a request leaves its response in the connection's sender.
EndTurn(t) ==
  /\ turn[t] # Idle /\ turn[t].sink > Len(sinks)
  /\ conn' = IF turn[t].of = Server THEN [conn EXCEPT ![turn[t].on] = "sending"] ELSE conn
  /\ turn' = [turn EXCEPT ![t] = Idle]
  /\ UNCHANGED <<main, life, wiring, dbWork, listening, goaway, pool, bus>>

\* A sender that writes nothing once the session was told to close.
FlushUnlessClosing(c) ==
  /\ pool = "up" /\ conn[c] = "sending" /\ ~goaway
  /\ conn' = [conn EXCEPT ![c] = "served"]
  /\ UNCHANGED <<main, life, wiring, dbWork, listening, goaway, pool, turn, bus>>

\* The sender's turn writes the queue out; after GOAWAY the connection closes.
Flush(c) ==
  /\ pool = "up" /\ conn[c] = "sending"
  /\ conn' = [conn EXCEPT ![c] = IF goaway THEN "closed" ELSE "served"]
  /\ UNCHANGED <<main, life, wiring, dbWork, listening, goaway, pool, turn, bus>>

\* librdkafka's own thread hands the oldest queued event to the broker.
BrokerTakes ==
  LET s == "kafka" IN
  /\ s \in Live /\ held[s] # <<>>
  /\ sent' = sent \union {<<s, Head(held[s])>>}
  /\ held' = [held EXCEPT ![s] = Tail(@)]
  /\ UNCHANGED <<main, life, wiring, dbWork, io, pool, turn, events, dropped>>

-----------------------------------------------------------------------------
(* Shutdown, in load order, and unload, in reverse. *)

\* SIGINT or SIGTERM, once run() waits for it.
Signal ==
  /\ phase = "serve"
  /\ phase' = "drain" /\ at' = 1
  /\ UNCHANGED <<installed, providers, stack, order, life, wiring, dbWork, io, pool, turn, bus>>

\* Nothing queued, running or unsent: Server::is_idle() and every sender's.
ServerIdle == \A c \in Conns : conn[c] \notin {"queued", "running", "sending"}

\* shutdown_plugins(): the server stops accepting, puts a GOAWAY in every
\* session's sender, waits with no timeout until it is idle, and drops its
\* connections; nobody else does anything.
ShutdownNext ==
  /\ phase = "drain" /\ at <= Len(order)
  /\ \/ /\ order[at] # Server \/ ~(listening \/ goaway)
        /\ at' = at + 1 /\ UNCHANGED <<listening, goaway, conn>>
     \/ /\ order[at] = Server /\ listening
        /\ listening' = FALSE /\ goaway' = TRUE
        /\ conn' = [c \in Conns |-> IF conn[c] \in {"open", "served"} THEN "sending" ELSE conn[c]]
        /\ UNCHANGED at
     \/ /\ order[at] = Server /\ goaway /\ ServerIdle
        /\ conn' = [c \in Conns |-> IF conn[c] = "none" THEN "none" ELSE "closed"]
        /\ at' = at + 1 /\ UNCHANGED <<listening, goaway>>
  /\ UNCHANGED <<phase, installed, providers, stack, order, life, wiring, dbWork, pool, turn, bus>>

\* AppContext::stop() releases the registered contracts and tells the pool to stop.
Stop ==
  /\ phase = "drain" /\ at > Len(order)
  /\ phase' = "join" /\ pool' = "stopping"
  /\ UNCHANGED <<installed, providers, stack, order, at, life, wiring, dbWork, io, turn, bus>>

\* Join without joining.
JoinDetached ==
  /\ phase = "join"
  /\ phase' = "close" /\ at' = Len(order)
  /\ UNCHANGED <<installed, providers, stack, order, life, wiring, dbWork, io, pool, turn, bus>>

\* ... and joins its threads, each of which finishes the turn it is in.
Join ==
  /\ phase = "join" /\ \A t \in Threads : turn[t] = Idle
  /\ phase' = "close" /\ pool' = "joined" /\ at' = Len(order)
  /\ UNCHANGED <<installed, providers, stack, order, life, wiring, dbWork, io, turn, bus>>

\* kafka's on_unload flushes for five seconds and destroys the producer with
\* whatever is left in its queue; any other sink keeps nothing.
KafkaUnload ==
  \E taken \in 0..Len(held["kafka"]) :
    /\ sent' = sent \union {<<"kafka", held["kafka"][i]>> : i \in 1..taken}
    /\ dropped' = dropped \union
                    {<<"kafka", held["kafka"][i]>> : i \in (taken + 1)..Len(held["kafka"])}

\* close_all(): congelado_on_unload() and the instance deleted, last loaded first.
CloseNext ==
  /\ phase = "close" /\ at >= 1
  /\ LET p == order[at]
     IN /\ life' = [life EXCEPT ![p] = "gone"]
        /\ held' = [held EXCEPT ![p] = <<>>]
        /\ IF p = "kafka" THEN KafkaUnload ELSE UNCHANGED <<sent, dropped>>
  /\ at' = at - 1
  /\ UNCHANGED <<phase, installed, providers, stack, order, wiring, dbWork, io, pool, turn, events>>

\* run() returns 0 and main() with it.
Return ==
  /\ phase = "close" /\ at = 0
  /\ phase' = "done"
  /\ UNCHANGED <<installed, providers, stack, order, at, life, wiring, dbWork, io, pool, turn, bus>>

Boot ==
  \/ \E p \in Plugins : OpenAll(p)
  \/ Open \/ ApplyLoadBefore \/ DiscardUnlisted \/ Resolve
  \/ InitNext \/ ReadyNext \/ BuildReturns \/ WireNext \/ RunMigrations \/ WriteDocument

Shutdown == ShutdownNext \/ Stop \/ Join \/ CloseNext \/ Return

ThreadStep(t) == StartTurn(t) \/ Publish(t) \/ EndTurn(t)
MainStep == Publish(Host) \/ EndTurn(Host)

Next ==
  \/ Boot \/ MainStep \/ Signal \/ Shutdown
  \/ \E t \in Threads : ThreadStep(t)
  \/ \E c \in Conns : Accept(c) \/ Request(c) \/ Flush(c)
  \/ BrokerTakes

Spec == Init /\ [][Next]_vars

\* The main thread and the pool threads run; senders are flushed.  Nothing is
\* assumed of clients, brokers or the operator.
FairSpec ==
  /\ Spec /\ WF_vars(Shutdown)
  /\ \A t \in Threads : WF_vars(ThreadStep(t))
  /\ \A c \in Conns : WF_vars(Flush(c))

-----------------------------------------------------------------------------
Before(p, q) == \E i, j \in DOMAIN order : i < j /\ order[i] = p /\ order[j] = q

\* Once build() starts: every kept plugin comes after the kept plugins it
\* requires and after those that must load before its type; and no plugin is
\* told it is ready while one of its siblings has not been loaded.
BootOrder ==
  phase \in {"init", "wire", "migrate", "document", "refused", "serve"} =>
    /\ \A q \in Opened : \A p \in Range(Requires[q]) \intersect Opened : Before(p, q)
    /\ \A p, q \in Opened : Blocks(p, q) => Before(p, q)
    /\ (\E p \in Opened : life[p] = "ready") => \A p \in Opened : life[p] \in {"loaded", "ready"}

\* Everything a running turn can call into: the plugin that owns it, the
\* providers of the connector or of the routes it dispatches to, the sinks.
Reaches(t) ==
  (IF turn[t].of = Host THEN {} ELSE {turn[t].of})
    \union (IF turn[t].of = Server THEN {p \in Plugins : "routes" \in got[p]} ELSE {})
    \union ({cb[c] : c \in Single} \ {Nobody}) \union Range(sinks)

\* No thread is ever inside a plugin that has been unloaded or discarded,
\* from the first turn of the boot to the last of the shutdown (run(): "so no
\* worker thread touches plugin state after on_unload() runs").
NoTurnInDeadPlugin ==
  \A t \in Runners : turn[t] # Idle => Reaches(t) \subseteq Live

\* A capability pointer handed to the plugins is the configured provider when
\* that one is installed, and always an instance that outlives every user of it:
\* it is unloaded only after the pool was joined, and a plugin that required
\* another one never outlives it.
ProvidersOutliveUsers ==
  /\ phase \in {"init", "wire", "migrate", "document", "refused", "serve", "drain", "join"} =>
       \A c \in Single : /\ cb[c] # Nobody => cb[c] \in Live
                         /\ c \in DOMAIN providers /\ providers[c] \in Opened
                              /\ c \in Exports[providers[c]] => cb[c] = providers[c]
  /\ \A q \in Opened : life[q] \in {"ready"} =>
       \A p \in Range(Requires[q]) \intersect Opened : life[p] # "gone"

\* Lifetimes nest, from the sorted boot through the pool's first turns to the
\* reverse unload: the three above.
LifetimesNest == BootOrder /\ NoTurnInDeadPlugin /\ ProvidersOutliveUsers

\* Shutdown loses no response: when the pool is told to stop, every connection
\* ever accepted has had its request answered and its sender emptied.
DrainedBeforeStop ==
  pool # "up" /\ phase # "aborted" => ServerIdle

\* No event is lost silently: an event published once the sinks were registered,
\* by a turn that has returned, is in every ring that has not evicted it since,
\* and queued in, sent by or refused by every broker, whatever the other turns
\* and the shutdown did in between.
EventsReachEverySink ==
  \A e \in (wiredAt + 1)..events :
    wiredAt >= 0 /\ phase # "aborted" /\ (\A t \in Runners : turn[t].ev # e) =>
      \A s \in Range(sinks) :
        IF s = "memory"
        THEN s \in Live => e \in Range(held[s]) \/ Len(held[s]) = MaxRing
        ELSE e \in Range(held[s]) \/ <<s, e>> \in sent \union dropped

\* What was accepted is carried to its end: connections are answered before the
\* pool stops, events reach every sink.
CarriedToTheEnd == DrainedBeforeStop /\ EventsReachEverySink

\* A signal leads to a clean exit.
ShutdownCompletes == phase = "drain" ~> phase = "done"

\* "no request is served until load_plugins() returns".
ServesOnlyWhenLoaded ==
  (\E c \in Conns : conn[c] \in {"running", "sending"}) => wiredAt >= 0 /\ migrated

\* "keeps plugins from seeing a half-inited sibling": what a turn calls has been loaded.
NoHalfInitedSibling ==
  \A t \in Runners : turn[t] # Idle => \A p \in Reaches(t) : life[p] # "made"
=============================================================================
