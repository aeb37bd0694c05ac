----------------------------- MODULE MCPipeline -----------------------------
(* Two agents and a pipeline with a sub-step of every kind; the connection  *)
(* ids are collected beside the start of the connections, and the last two  *)
(* sub-steps share a step as well.  The simple configurations: up to four   *)
(* connections, with a base above and below them, steps that reach the last *)
(* connection or not, a step of 0, and sending steps that are cut short.    *)
EXTENDS ConfiguredPipeline

MCSub == {"create", "start", "collectId", "send", "check", "stopCollector"}
MCAt == [s \in MCSub |-> CASE s = "create" -> 1
                           [] s \in {"start", "collectId"} -> 2
                           [] s = "send" -> 3
                           [] s \in {"check", "stopCollector"} -> 4]
MCKind == [s \in MCSub |-> CASE s = "create" -> "plain"
                             [] s \in {"start", "send"} -> "timed"
                             [] s = "collectId" -> "lenient"
                             [] s = "check" -> "check"
                             [] s = "stopCollector" -> "local"]

MCConfigs ==
  [kind : {"perf", "strict"}, scenario : {"echo", "group", "client"},
   connections : 1..4, base : 0..5, step : 0..3, sendingSteps : {0, 2}]
MCAnyConfig ==
  [kind |-> "perf", scenario |-> "echo", connections |-> 1, base |-> 1, step |-> 1,
   sendingSteps |-> 0]
=============================================================================
