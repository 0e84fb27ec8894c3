----------------------------- MODULE MCProcess -----------------------------
(***************************************************************************)
(* Two parts of a process that share no state, checked under their own     *)
(* fairness in one run: the telemetry plugins, and the worker process with *)
(* its link to the engine.  A behaviour is a behaviour of one of them      *)
(* (which); the other stays at one of its initial states.                  *)
(***************************************************************************)
EXTENDS Telemetry, WorkerProcess

VARIABLE which

all == <<which, telemetryVars, processVars>>

\* The initial states of a part that does not move: one of them.
StillTelemetry ==
    /\ url = [s \in Signal |-> GoodUrl]
    /\ levels = [min |-> ParseLevel("debug"), stdout |-> ParseLevel("fatal")]
StillProcess == engineUp

MCInit ==
    /\ which \in {"telemetry", "process"}
    /\ TelemetryInit /\ (which = "telemetry" \/ StillTelemetry)
    /\ ProcessInit   /\ (which = "process" \/ StillProcess)

MCNext ==
    /\ UNCHANGED which
    /\ \/ which = "telemetry" /\ TelemetryNext /\ UNCHANGED processVars
       \/ which = "process" /\ ProcessNext /\ UNCHANGED telemetryVars

\* TelemetryFairness and ProcessFairness, each where its part moves.
MCFairness ==
    /\ WF_telemetryVars(which = "telemetry" /\ Unload)
    /\ \A s \in Signal : WF_telemetryVars(which = "telemetry" /\ BatchThread(s))
    /\ \A c \in Callers : WF_processVars(which = "process" /\ CallStep(c))
    /\ WF_processVars(which = "process" /\ \E r \in wire : Dispatch(r))
    /\ WF_processVars(which = "process" /\ \E r \in wire : EngineAnswers(r))
    /\ WF_processVars(which = "process" /\ Exit)

MCSpec == MCInit /\ [][MCNext]_all /\ MCFairness
-----------------------------------------------------------------------------
SinkFirst == <<"events", "logger", "otel">>    \* unloads the exporter first
=============================================================================
