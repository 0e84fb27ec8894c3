---------------------------- MODULE MCPluginHost ----------------------------
(* PluginHost over plugins of the repository, in a few installations of each. *)
EXTENDS PluginHost, TLC

MCPlugins == {"file_logger", "http2", "engine", "openapi_generator", "postgres",
              "local_cron", "workflow_local", "worker_local", "payload_local", "memory", "kafka", "rabbitmq", "redis", "elasticsearch"}
MCRequires == [p \in MCPlugins |-> IF p = "http2" THEN <<"file_logger">> ELSE <<>>]
MCLoadBefore == [p \in MCPlugins |->
                   IF p \in {"engine", "openapi_generator"} THEN {"protocol"} ELSE {}]
MCUniqueType == [p \in MCPlugins |-> IF p = "http2" THEN "protocol" ELSE p]
MCExports ==
  [p \in MCPlugins |->
     CASE p = "file_logger" -> {"logger"}
       [] p = "http2" -> {"protocol"}
       [] p = "engine" -> {"custom"}
       [] p = "openapi_generator" -> {"openapi"}
       [] p = "postgres" -> {"database", "search"}
       [] p = "elasticsearch" -> {"search"}
       [] p = "redis" -> {"events", "cache"}
       [] p = "local_cron" -> {"cron"}
       [] p = "workflow_local" -> {"workflow_orchestrator"}
       [] p = "worker_local" -> {"worker_orchestrator"}
       [] p = "payload_local" -> {"payload_storage"}
       [] OTHER -> {"events"}]

Base == {"file_logger", "http2", "openapi_generator"}
MCInstalls == {{"file_logger", "openapi_generator", "workflow_local", "memory", "kafka"},
               Base \union {"engine", "postgres", "local_cron"},
               Base \union {"postgres", "elasticsearch"},
               Base \union {"rabbitmq"},
               {"file_logger", "openapi_generator", "engine", "worker_local", "payload_local"},
               Base \union {"redis"},
               {"http2", "openapi_generator"},
               {"file_logger", "engine"}}
\* A capability no entry names is unset: every one but search, or all but the
\* fanned-out two.
MCConfigs == {"search" :> "elasticsearch",
              ("events" :> {"memory"}) @@ ("logger" :> {"otel_otlp"})}

\* The repository's plugins are within what LifetimesNestInOrder assumes.
ASSUME MCFlatWaits == FlatWaits
=============================================================================
