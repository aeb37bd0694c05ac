------------------------- MODULE ConfiguredPipeline -------------------------
(***************************************************************************)
(* The master with its configuration (BenchmarkConfiguration.Parse): an    *)
(* advanced configuration spells out a pipeline of any steps and sub-steps,*)
(* which Pipeline walks among agents that fail; a simple one is turned into*)
(* the pipeline of Configuration, walked once the agents are connected.    *)
(***************************************************************************)
EXTENDS Pipeline, Configuration

CONSTANT AnyConfig  (* an advanced configuration has no simple one: any    *)

ASSUME ParseAssumption == AnyConfig \in Configs

parseVars == <<vars, configVars>>

\* IsSimpleNode: which of the two kinds the file is; a walk through a simple
\* pipeline is told with no crashed agent.
ParseInit ==
  /\ Init
  /\ ConfigInit
  /\ up = [a \in Agent |-> TRUE]

AdvancedInit ==
  /\ Init
  /\ config = AnyConfig
  /\ stage = "advanced"
  /\ turn = 0 /\ program = <<>> /\ at = 1
  /\ keys = {} /\ stale = TRUE /\ missed = FALSE

\* The pipeline is generated before the agents are contacted.
SimpleNext ==
  /\ stage # "advanced"
  /\ ConfigNext
  /\ mode' = CASE stage' \in {"read", "send"} -> "connecting"
               [] stage' = "walk" -> "running"
               [] stage' = "completed" -> "completed"
               [] stage' \in {"aborted", "threw"} -> "aborted"
               [] stage' = "invalid" -> "crashed"
  /\ UNCHANGED <<tested, retries, inst, pos, task, rpc, agents>>

Advanced(action) == stage = "advanced" /\ action /\ UNCHANGED configVars
AdvancedNext == Advanced(Next)

SimpleOver == stage # "advanced" /\ Over /\ UNCHANGED parseVars

ParseNext == AdvancedNext \/ SimpleNext \/ SimpleOver

\* The fairness of Pipeline for an advanced one; a generated one is written
\* and walked on.
ParseFairness ==
  /\ WF_parseVars(Advanced(Connect))
  /\ WF_parseVars(Advanced(Loop))
  /\ \A s \in Sub : WF_parseVars(Advanced(TaskEnds(s)))
  /\ \A a \in Agent :
       /\ WF_parseVars(Advanced(InstallPlugin(a)))
       /\ \A s \in Sub : WF_parseVars(Advanced(Query(a, s)))
  /\ WF_parseVars(SimpleNext /\ (stage = "walk" => at' > at \/ stage' # "walk"))

ParseSpec ==
  /\ ParseInit \/ AdvancedInit
  /\ [][ParseNext]_parseVars
  /\ ParseFairness
=============================================================================
