------------------------------ MODULE Telemetry ------------------------------
(***************************************************************************)
(* The OTLP telemetry plugin (plugins/extensions/otel_otlp), the file      *)
(* logger (plugins/logger/file_logger) and an event sink inside a host     *)
(* process: the probe of the three endpoints, the three export pipelines,  *)
(* the log line every export writes and its way back into the log          *)
(* pipeline, and the teardown of the plugins in reverse load order.        *)
(*                                                                         *)
(* The OpenTelemetry SDK is external: it batches what is recorded, calls   *)
(* Export from a thread of its own, and its provider destructors log one   *)
(* warning (the code's comment on on_unload quotes it).                    *)
(***************************************************************************)
EXTENDS Naturals, Sequences, FiniteSets, SequencesExt

CONSTANTS Host,        \* "engine" or "worker": which process hosts the plugins
          Order,       \* load order of the plugins: SharedLibrary::m_order
          Budget,      \* bound on what the application records
          MaxQueue     \* size of an SDK batch queue; what overflows is dropped

ASSUME HostAssumption == Host \in {"engine", "worker"}
ASSUME OrderAssumption == /\ Order \in Seq({"otel", "logger", "events"}) /\ IsInjective(Order)
                          /\ {"otel", "logger"} \subseteq ToSet(Order)
ASSUME BoundAssumption == Budget \in Nat /\ MaxQueue \in Nat \ {0}

Plugins == ToSet(Order)
Signals == <<"traces", "metrics", "logs">>   \* order of setup and of teardown
Signal == ToSet(Signals)

VARIABLES
    stage,          \* the host's main thread
    step,        \* position in Order while loading or unloading
    sig,         \* on_unload: the signal being torn down
    flushed,     \* on_unload: ForceFlush of that signal has returned
    url,         \* the configured OTLP url of every signal
    levels,      \* file_logger: m_min_level and m_stdout_level
    inst,        \* s_plugin of every plugin (CONGELADO_PLUGIN)
    backend,     \* m_tracer_backend, m_meter_backend, m_log_backend
    registered,  \* backends the host registries point to (non-owning)
    wired,       \* logger adapters, event sinks and OtelLogBridge installed
    spans,       \* spans started and not ended
    queue,       \* what each pipeline has batched
    collector,   \* does the receiver of a signal answer now
    budget,      \* records the application may still make
    stale,       \* calls made through a pointer to something destroyed
    dropped,     \* some batched record was discarded without an export
    unseen       \* a failed export left no line in the file or on stdout

telemetryVars == <<stage, step, sig, flushed, url, levels, inst, backend, registered, wired,
          spans, queue, collector, budget, stale, dropped, unseen>>
static == <<url, levels>>

-----------------------------------------------------------------------------
(* The probe of an endpoint.  A url is its scheme and the colon-separated    *)
(* pieces of its authority; addrs is what each address the name resolves to  *)
(* does when it is connected to.                                             *)

Peers == {"nosocket", "refused", "timeout", "silent", "garbled", "404", "200"}
Urls == [https : BOOLEAN, authority : {<<"host">>, <<"host", "4318">>, <<"", "80">>},
         addrs : {<<>>, <<"refused", "200">>} \cup {<<p>> : p \in Peers}]
GoodUrl == [https |-> FALSE, authority |-> <<"host", "4318">>, addrs |-> <<"200">>]

ParseUrl(u) ==
    LET a == u.authority
    IN [is_https |-> u.https,
        host |-> a[1],
        port |-> IF Len(a) > 1 THEN a[Len(a)] ELSE IF u.https THEN "443" ELSE "80"]

ConnectWithTimeout(peer) == peer \notin {"nosocket", "refused", "timeout"}

HttpOk(peer) == peer \notin {"silent", "garbled", "404"}

Reachable(u) ==
    LET parts == ParseUrl(u)
    IN /\ parts.host # "" /\ parts.port # ""
       /\ \E i \in DOMAIN u.addrs :
             /\ ConnectWithTimeout(u.addrs[i])
             /\ parts.is_https \/ HttpOk(u.addrs[i])

-----------------------------------------------------------------------------
(* Log lines.  A line goes to every registered logger: the file logger and   *)
(* the OtelLogBridge, which turns it into an OTel log record.                *)

Line(level, tag) == [level |-> level, tag |-> tag]

ParseLevel(word) ==
    CASE word = "debug" -> 0 [] word = "important" -> 2 [] word = "warning" -> 3
      [] word = "error" -> 4 [] word = "fatal" -> 5 [] OTHER -> 1

LineVisible(l, stream) ==
    \/ ParseLevel(l.level) >= levels.stdout
    \/ ParseLevel(l.level) >= levels.min /\ stream = "loaded"

ToOtelSeverity(level) == IF level = "important" THEN "info" ELSE level

(* Mutant: the bridge forwards the exporters' own routine lines too. *)
ForwardEverything(l) == wired /\ "logs" \in registered
BridgeForwards(l) ==
    /\ wired /\ "logs" \in registered
    /\ ~(ToOtelSeverity(l.level) = "debug" /\ l.tag = "otel")

(* The file logger's instance after a line: a call through congelado_call    *)
(* after on_unload finds s_plugin null and constructs a new plugin.          *)
LoggerAfterLine == IF wired /\ inst["logger"] = "gone" THEN "fresh" ELSE inst["logger"]

(* Lines and events of one failed or successful export. *)
NoSink == ~wired \/ "events" \notin Plugins
ExportLines(ok, sdk) ==
    {Line("debug", "otel")} \cup
    (IF ok THEN {} ELSE {Line("warning", "otel")})
    \cup (IF ~ok /\ NoSink THEN {Line("debug", "events")} ELSE {})
    \cup sdk

Handle == {{}, {Line("warning", "otel_sdk")}, {Line("error", "otel_sdk")}}

Forwarded(lines) == Cardinality({l \in lines : BridgeForwards(l)})

LogBackendCalls(lines) ==
    IF backend["logs"] = "freed" /\ Forwarded(lines) > 0 THEN {"log backend"} ELSE {}

SinkCalls(ok) ==
    IF ~ok /\ ~NoSink /\ inst["events"] # "loaded" THEN {"event sink"} ELSE {}

Enqueue(n, more) == IF n + more > MaxQueue THEN MaxQueue ELSE n + more

-----------------------------------------------------------------------------
(* Loading: SharedLibrary::build runs congelado_init of every plugin.        *)

TelemetryInit ==
    /\ stage = "load" /\ step = 1 /\ sig = 1 /\ flushed = FALSE
    /\ \E s \in Signal, u \in Urls : url = [t \in Signal |-> IF t = s THEN u ELSE GoodUrl]
    /\ levels \in [min : {ParseLevel(w) : w \in {"debug", "unknown", "error"}},
                   stdout : {ParseLevel(w) : w \in {"important", "fatal"}}]
    /\ inst = [p \in Plugins |-> "made"]
    /\ backend = [s \in Signal |-> "none"]
    /\ registered = {} /\ wired = FALSE /\ spans = 0
    /\ queue = [s \in Signal |-> 0]
    /\ collector = [s \in Signal |-> "200" \in ToSet(url[s].addrs)]
    /\ budget = Budget /\ stale = {} /\ dropped = FALSE /\ unseen = FALSE

SetupTraces(b) == [b EXCEPT !["traces"] = "live"]
SetupMetrics(b) == [b EXCEPT !["metrics"] = "live"]
SetupLogs(b) == [b EXCEPT !["logs"] = "live"]

(* build() failed: the engine aborts; the worker host finds no manager and   *)
(* returns, which unloads every opened plugin.                               *)
BuildFails ==
    IF Host = "engine" THEN stage' = "aborted" /\ step' = step
    ELSE stage' = "unload" /\ step' = Len(Order)

OnLoadOtel ==
    /\ stage = "load" /\ step <= Len(Order) /\ Order[step] = "otel"
    /\ IF \A s \in Signal : Reachable(url[s])
       THEN /\ backend' = SetupLogs(SetupMetrics(SetupTraces(backend)))
            /\ inst' = [inst EXCEPT !["otel"] = "loaded"]
            /\ step' = step + 1 /\ stage' = stage
       ELSE BuildFails /\ UNCHANGED <<backend, inst>>
    /\ UNCHANGED <<sig, flushed, static, registered, wired, spans, queue, collector,
                   budget, stale, dropped, unseen>>

OnLoadLogger ==
    /\ stage = "load" /\ step <= Len(Order) /\ Order[step] = "logger"
    /\ \/ stage' = stage /\ step' = step + 1 /\ inst' = [inst EXCEPT !["logger"] = "loaded"]
       \/ stage' = "aborted" /\ UNCHANGED <<step, inst>>
    /\ UNCHANGED <<sig, flushed, static, backend, registered, wired, spans, queue,
                   collector, budget, stale, dropped, unseen>>

OnLoadEvents ==
    /\ stage = "load" /\ step <= Len(Order) /\ Order[step] = "events"
    /\ inst' = [inst EXCEPT !["events"] = "loaded"] /\ step' = step + 1
    /\ UNCHANGED <<stage, sig, flushed, static, backend, registered, wired, spans, queue,
                   collector, budget, stale, dropped, unseen>>

(* After build(): the host registers what every plugin provides. *)
Wire ==
    /\ stage = "load" /\ step > Len(Order)
    /\ registered' = {s \in Signal : backend[s] = "live"} /\ wired' = TRUE
    /\ stage' = "up"
    /\ UNCHANGED <<step, sig, flushed, static, inst, backend, spans, queue, collector,
                   budget, stale, dropped, unseen>>

-----------------------------------------------------------------------------
(* The application records; the SDK exports; receivers come and go.          *)

Record(s) ==
    /\ stage = "up" /\ budget > 0 /\ s \in registered
    /\ budget' = budget - 1
    /\ queue' = [queue EXCEPT ![s] = IF s = "metrics" THEN 1 ELSE Enqueue(@, 1)]

StartSpan ==
    /\ stage = "up" /\ budget > 0 /\ "traces" \in registered
    /\ budget' = budget - 1 /\ spans' = spans + 1
    /\ UNCHANGED <<stage, step, sig, flushed, static, inst, backend, registered, wired, queue,
                   collector, stale, dropped, unseen>>

EndSpan ==
    /\ stage = "up" /\ spans > 0 /\ spans' = spans - 1
    /\ queue' = [queue EXCEPT !["traces"] = Enqueue(@, 1)]
    /\ UNCHANGED <<stage, step, sig, flushed, static, inst, backend, registered, wired,
                   collector, budget, stale, dropped, unseen>>

RecordMetric ==
    /\ Record("metrics")
    /\ UNCHANGED <<stage, step, sig, flushed, static, inst, backend, registered, wired, spans,
                   collector, stale, dropped, unseen>>

LogLine ==
    /\ stage = "up" /\ BridgeForwards(Line("info", "app")) /\ Record("logs")
    /\ inst' = [inst EXCEPT !["logger"] = LoggerAfterLine]
    /\ UNCHANGED <<stage, step, sig, flushed, static, backend, registered, wired, spans,
                   collector, stale, dropped, unseen>>

(* What an export of the signal's whole batch does, lines included. *)
Export(s, ok) ==
    \E sdk \in IF ok THEN {{}} ELSE Handle :
        LET lines == ExportLines(ok, sdk)
            left == [queue EXCEPT ![s] = 0]
        IN /\ queue' = [left EXCEPT !["logs"] =
                           IF backend["logs"] = "live" THEN Enqueue(@, Forwarded(lines)) ELSE @]
           /\ inst' = [inst EXCEPT !["logger"] = LoggerAfterLine]
           /\ stale' = stale \cup LogBackendCalls(lines) \cup SinkCalls(ok)
           /\ unseen' = (unseen \/ (~ok /\ ~\E l \in lines :
                            l.level # "debug" /\ LineVisible(l, LoggerAfterLine)))

ExportSpans == queue["traces"] > 0 /\ Export("traces", collector["traces"])
ExportMetrics == queue["metrics"] > 0 /\ Export("metrics", collector["metrics"])
ExportLogs == queue["logs"] > 0 /\ Export("logs", collector["logs"])

ExportOf(s) == CASE s = "traces" -> ExportSpans [] s = "metrics" -> ExportMetrics
                 [] s = "logs" -> ExportLogs

BatchThread(s) ==
    /\ stage \in {"up", "unload"} /\ backend[s] = "live" /\ ExportOf(s)
    /\ UNCHANGED <<stage, step, sig, flushed, static, backend, registered, wired, spans,
                   collector, budget, dropped>>

CollectorFlips ==
    /\ stage \in {"up", "unload"}
    /\ \E s \in Signal : collector' = [collector EXCEPT ![s] = ~@]
    /\ UNCHANGED <<stage, step, sig, flushed, static, inst, backend, registered, wired, spans,
                   queue, budget, stale, dropped, unseen>>

-----------------------------------------------------------------------------
(* Shutdown.  The thread pool has been joined; the engine then detaches the  *)
(* log providers, the worker host does not.                                  *)

KeepLogProviders == registered      \* mutant: the engine forgets clear()
DetachLogProviders == IF Host = "engine" THEN registered \ {"logs"} ELSE registered

Shutdown ==
    /\ stage = "up" /\ stage' = "unload" /\ step' = Len(Order)
    /\ registered' = DetachLogProviders /\ spans' = 0
    /\ UNCHANGED <<sig, flushed, static, inst, backend, wired, queue, collector, budget,
                   stale, dropped, unseen>>

(* close_all walks m_order backwards.  congelado_on_unload runs on_unload,   *)
(* deletes the instance and clears s_plugin.                                 *)
OnUnloadSimple ==
    /\ stage = "unload" /\ step > 0 /\ Order[step] # "otel"
    /\ inst' = [inst EXCEPT ![Order[step]] = "gone"] /\ step' = step - 1
    /\ UNCHANGED <<stage, sig, flushed, static, backend, registered, wired, spans, queue,
                   collector, budget, stale, dropped, unseen>>

FlushFirst == flushed

OnUnloadFlush ==
    /\ stage = "unload" /\ step > 0 /\ Order[step] = "otel" /\ sig <= 3
    /\ backend[Signals[sig]] = "live" /\ ~flushed /\ flushed' = TRUE
    /\ \/ ExportOf(Signals[sig])
       \/ queue[Signals[sig]] = 0 /\ UNCHANGED <<queue, inst, stale, unseen>>
    /\ UNCHANGED <<stage, step, sig, static, backend, registered, wired, spans, collector,
                   budget, dropped>>

(* Shutdown(), the backend is reset, then the provider, whose destructor     *)
(* logs; a signal whose provider was never set up is skipped.                *)
OnUnloadReset ==
    /\ stage = "unload" /\ step > 0 /\ Order[step] = "otel" /\ sig <= 3
    /\ sig' = sig + 1 /\ flushed' = FALSE
    /\ LET s == Signals[sig]
           line == {Line("warning", "otel_sdk")}
       IN IF backend[s] = "none"
          THEN UNCHANGED <<backend, queue, inst, stale, dropped>>
          ELSE /\ FlushFirst
               /\ backend' = [backend EXCEPT ![s] = "freed"]
               /\ dropped' = (dropped \/ queue[s] > 0)
               /\ queue' = [queue EXCEPT ![s] = 0, !["logs"] =
                               IF s = "logs" THEN 0 ELSE Enqueue(@, Forwarded(line))]
               /\ inst' = [inst EXCEPT !["logger"] = LoggerAfterLine]
               /\ stale' = stale \cup (IF s = "logs" /\ Forwarded(line) > 0
                                       THEN {"log backend"} ELSE {})
    /\ UNCHANGED <<stage, step, static, registered, wired, spans, collector, budget, unseen>>

OnUnloadOtelEnds ==
    /\ stage = "unload" /\ step > 0 /\ Order[step] = "otel" /\ sig > 3
    /\ inst' = [inst EXCEPT !["otel"] = "gone"] /\ step' = step - 1
    /\ UNCHANGED <<stage, sig, flushed, static, backend, registered, wired, spans, queue,
                   collector, budget, stale, dropped, unseen>>

ClosedAll ==
    /\ stage = "unload" /\ step = 0 /\ stage' = "down"
    /\ UNCHANGED <<step, sig, flushed, static, inst, backend, registered, wired, spans,
                   queue, collector, budget, stale, dropped, unseen>>

Stopped == stage \in {"down", "aborted"} /\ UNCHANGED telemetryVars

TelemetryNext ==
    \/ OnLoadOtel \/ OnLoadLogger \/ OnLoadEvents \/ Wire
    \/ StartSpan \/ EndSpan \/ RecordMetric \/ LogLine
    \/ \E s \in Signal : BatchThread(s)
    \/ CollectorFlips
    \/ Shutdown \/ OnUnloadSimple \/ OnUnloadFlush \/ OnUnloadReset \/ OnUnloadOtelEnds
    \/ ClosedAll \/ Stopped

(* The SDK's batch threads run on timers; the main thread runs teardown      *)
(* without waiting for anything but exports, which have deadlines.           *)
Unload == OnUnloadSimple \/ OnUnloadFlush \/ OnUnloadReset \/ OnUnloadOtelEnds \/ ClosedAll
TelemetryFairness == WF_telemetryVars(Unload) /\ \A s \in Signal : WF_telemetryVars(BatchThread(s))
TelemetrySpec == TelemetryInit /\ [][TelemetryNext]_telemetryVars /\ TelemetryFairness

-----------------------------------------------------------------------------
(* The plugin loads exactly when every signal has a receiver: some address   *)
(* of its url accepts a connection and, for http, answers something else     *)
(* than 404.  Nothing else (refused, silent, an unparsable or empty          *)
(* authority) may start a pipeline, and one dead address of several may not  *)
(* stop it (EndpointProbe::reachable, on_load).                              *)
HasReceiver(u) ==
    /\ u.authority[1] # ""
    /\ \/ "200" \in ToSet(u.addrs)
       \/ u.https /\ ToSet(u.addrs) \cap {"silent", "garbled", "404"} # {}
ProbeDecides ==
    /\ stage = "up" => \A s \in Signal : HasReceiver(url[s])
    /\ \/ stage = "aborted" /\ Order[step] = "otel"
       \/ stage = "unload" /\ inst["otel"] = "made"
       => \E s \in Signal : ~HasReceiver(url[s])

(* Teardown never calls into something already destroyed: no log line goes   *)
(* through a reset log backend, no export event to an unloaded sink, and no  *)
(* line brings the unloaded file logger back to life.                        *)
NoStaleCall == stale = {} /\ inst["logger"] # "fresh"

(* "Call this before tearing down the plugins that own those providers": no  *)
(* log line reaches the log backend after on_unload has reset it             *)
(* (LogRecordRegistry::clear).                                               *)
LogsAreDetached == "log backend" \notin stale

(* on_unload flushes every pipeline before it shuts it down: what was        *)
(* recorded before the shutdown is exported, or its export has failed, but   *)
(* it is never thrown away unsent.                                           *)
NothingDropped == ~dropped

(* A failed export is always visible to the operator: its warning is in the  *)
(* log file or on stdout, unless both thresholds are above a warning.        *)
FailureVisible == unseen => levels.min > ParseLevel("warning") /\ levels.stdout > ParseLevel("warning")

(* What the telemetry plugins promise the host: the pipeline starts exactly  *)
(* when there is a receiver, no call enters an unloaded plugin, what was     *)
(* recorded is flushed, and a failed export is seen.                         *)
TelemetryIsSound == ProbeDecides /\ NoStaleCall /\ NothingDropped /\ FailureVisible

(* Exporting log records logs, and log lines become log records.  The loop   *)
(* dies out: once the receivers keep answering, the queues run empty.        *)
EventuallyDrained ==
    <>[](\A s \in Signal : collector[s]) => <>[](\A s \in Signal : queue[s] = 0)
=============================================================================
