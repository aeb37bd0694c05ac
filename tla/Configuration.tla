--------------------------- MODULE Configuration ---------------------------
(***************************************************************************)
(* The pipeline that BenchmarkConfiguration.HandleSimpleConfiguration      *)
(* writes from a simple configuration, and what the master's walk through  *)
(* it does to the plugin parameters: the dictionaries of the master and of *)
(* the agents through which a step finds what an earlier step left.        *)
(* TryGetTypedValue throws when a step asks for a key no step has written. *)
(* A step succeeds here but for what is modelled; Pipeline has the rest.   *)
(* A configuration whose kind, connection type or target isValid rejects,  *)
(* and one that only parses results, has no pipeline.                      *)
(***************************************************************************)
EXTENDS Integers, Sequences, FiniteSets

CONSTANTS
  Configs  (* the configurations: see below                                *)

\* perf and strict perf (perf2); the scenarios that the generator treats
\* alike stand for one another.
Configuration ==
  [kind : {"perf", "strict"}, scenario : {"echo", "group", "client"},
   connections : Nat, base : Nat, step : Nat, sendingSteps : Nat]

ASSUME ConfigAssumption == Configs \subseteq Configuration

VARIABLES
  config,   (* configData.Config and Scenario                              *)
  stage,    (* how far the configuration or the walk is                    *)
  turn,     (* i of the loop over the sending steps                        *)
  program,  (* Pipeline: the steps added so far                            *)
  at,       (* the step of it being walked                                 *)
  keys,     (* the plugin parameters that exist                            *)
  stale,    (* has a connection started since the ids were collected       *)
  missed    (* has a collection of ids been given up                       *)

configVars == <<config, stage, turn, program, at, keys, stale, missed>>

IsStrict == config.kind = "strict"
IsGroup == config.scenario = "group"
IsClient == config.scenario = "client"

\* A step that is no sending step has no RemainderEnd: 0 stands for it.
Plain(name) == [name |-> name, end |-> 0]
When(condition, steps) == IF condition THEN steps ELSE <<>>

-----------------------------------------------------------------------------
(* HandleSimpleConfiguration.                                              *)

\* isValid: BaseSending is no more than Connections.
Clamped(c) ==
  [c EXCEPT !.base = IF c.base > c.connections THEN c.connections ELSE c.base]

(* A mutated form of Preparation: the ids are only collected in strict perf,   *)
(* where they are collected between the sending steps.                         *)
PreparationWithoutIds ==
  <<Plain("Create"), Plain("InitCollector"), Plain("Collect"), Plain("Register")>>
  \o When(~IsStrict, <<Plain("Register")>>)
  \o <<Plain("Start"), Plain("Wait"), Plain("Reconnect")>>
  \o When(IsGroup, <<Plain("Join"), Plain("Wait")>>)
  \o When(~IsStrict, <<Plain("Repair")>>)

\* Everything before the sending steps.
Preparation ==
  <<Plain("Create"), Plain("InitCollector"), Plain("Collect"), Plain("Register")>>
  \o When(~IsStrict, <<Plain("Register")>>)
  \o <<Plain("Start"), Plain("Wait"), Plain("Reconnect")>>
  \o When(IsGroup, <<Plain("Join"), Plain("Wait")>>)
  \o When(IsClient, <<Plain("CollectId"), Plain("Wait"), Plain("Reconnect"),
                      Plain("Wait"), Plain("CollectId")>>)
  \o When(~IsStrict, <<Plain("Repair")>>)

(* A mutated form of Turns: one turn too many. *)
TurnsTooMany ==
  LET s == (config.connections - config.base) \div config.step + 2
  IN  IF config.sendingSteps # 0 /\ s > config.sendingSteps THEN config.sendingSteps ELSE s

\* The number of sending steps; the caller has checked that Step is not 0.
Turns ==
  LET s == (config.connections - config.base) \div config.step + 1
  IN  IF config.sendingSteps # 0 /\ s > config.sendingSteps THEN config.sendingSteps ELSE s

(* A mutated form of EndIndex: i counts from 1. *)
EndIndexLate(i) == config.base + (i + 1) * config.step

EndIndex(i) == config.base + i * config.step

(* A mutated form of Between: the ids are not collected again. *)
BetweenWithoutIds ==
  When(IsStrict, <<Plain("Check"), Plain("Reconnect")>>) \o <<Plain("Check")>>

\* Between two sending steps.
Between ==
  When(IsStrict, <<Plain("Check"), Plain("Reconnect")>> \o When(IsClient, <<Plain("CollectId")>>))
  \o <<Plain("Check")>>

CleanUp ==
  When(IsGroup, <<Plain("Leave")>>)
  \o <<Plain("StopCollector"), Plain("Stop"), Plain("Dispose")>>

ConfigInit ==
  /\ config \in Configs
  /\ stage = "read"
  /\ turn = 0
  /\ program = <<>>
  /\ at = 1
  /\ keys = {}
  /\ stale = TRUE
  /\ missed = FALSE

\* Up to `if (BaseSending > 0)': without it the pipeline ends here, and the
\* division by a Step of 0 throws.
Prepares ==
  /\ stage = "read"
  /\ config' = Clamped(config)
  /\ program' = Preparation
  /\ stage' = IF config'.base = 0 THEN "walk"
              ELSE IF config.step = 0 THEN "invalid" ELSE "send"
  /\ UNCHANGED <<turn, at, keys, stale, missed>>

AddsSendingStep ==
  /\ stage = "send" /\ turn < Turns
  /\ program' = program \o When(turn > 0, Between)
                  \o <<[name |-> "Send", end |-> EndIndex(turn)], Plain("Wait")>>
  /\ turn' = turn + 1
  /\ UNCHANGED <<config, stage, at, keys, stale, missed>>

AddsCleanUp ==
  /\ stage = "send" /\ turn >= Turns
  /\ program' = program \o CleanUp
  /\ stage' = "walk"
  /\ UNCHANGED <<config, turn, at, keys, stale, missed>>

-----------------------------------------------------------------------------
(* The walk.                                                               *)

Current == program[at].name

\* The plugin parameters a step asks for: the connections of the agents (with
\* their indexes, types and callbacks), their statistics, the master's latency
\* parameters, the collector to stop, the connection ids.
Asks(name) ==
  CASE name \in {"Create", "Wait"} -> {}
    [] name = "InitCollector" -> IF IsStrict THEN {} ELSE {"connections"}
    [] name = "Collect" -> {"latency"}
    [] name \in {"Register", "Start", "Reconnect", "Join", "Leave"} ->
         {"connections", "statistics"}
    [] name = "Check" -> {"latency", "statistics"}
    [] name \in {"CollectId", "Repair", "Stop", "Dispose"} -> {"connections"}
    [] name = "Send" ->
         {"connections", "statistics"} \cup (IF IsClient THEN {"ids"} ELSE {})
    [] name = "StopCollector" -> {"collector"}

\* And the ones it writes.
Writes(name) ==
  CASE name = "Create" -> {"connections"}
    [] name = "InitCollector" -> {"latency", "statistics"}
    [] name = "Collect" -> {"collector"}
    [] name = "Join" -> {"group"}
    [] name = "Repair" -> {"repairer"}
    [] name = "CollectId" -> {"ids"}
    [] OTHER -> {}

Finds(name) == Asks(name) \subseteq keys
Arrives == stage = "walk" /\ at <= Len(program)

StepThrows ==
  /\ Arrives /\ ~Finds(Current)
  /\ stage' = "threw"
  /\ UNCHANGED <<config, turn, program, at, keys, stale, missed>>

\* Start and Reconnect may start a connection, which then has a new id.
StepReturns ==
  /\ Arrives /\ Finds(Current)
  /\ keys' = keys \cup Writes(Current)
  /\ CASE Current \in {"Start", "Reconnect"} -> stale' \in {stale, TRUE}
       [] Current = "CollectId" -> stale' = FALSE
       [] OTHER -> UNCHANGED stale
  /\ at' = at + 1
  /\ UNCHANGED <<config, stage, turn, program, missed>>

\* CollectConnectionId of the master swallows a timeout or a failed agent.
CollectIdGivesUp ==
  /\ Arrives /\ Current = "CollectId" /\ Finds(Current)
  /\ missed' = TRUE
  /\ at' = at + 1
  /\ UNCHANGED <<config, stage, turn, program, keys, stale>>

\* ConditionalStop: a criterion is exceeded.
CheckFails ==
  /\ Arrives /\ Current = "Check" /\ Finds(Current)
  /\ stage' = "aborted"
  /\ UNCHANGED <<config, turn, program, at, keys, stale, missed>>

\* The repairer, until StopConnection cancels it, may start a connection.
RepairerStarts ==
  /\ Arrives /\ "repairer" \in keys
  /\ \A i \in 1..(at - 1) : program[i].name # "Stop"
  /\ stale' = TRUE
  /\ UNCHANGED <<config, stage, turn, program, at, keys, missed>>

WalkEnds ==
  /\ stage = "walk" /\ at > Len(program)
  /\ stage' = "completed"
  /\ UNCHANGED <<config, turn, program, at, keys, stale, missed>>

Walk == StepThrows \/ StepReturns \/ CollectIdGivesUp \/ CheckFails \/ WalkEnds
Writing == Prepares \/ AddsSendingStep \/ AddsCleanUp
ConfigNext == Writing \/ Walk \/ RepairerStarts

ConfigSpec == ConfigInit /\ [][ConfigNext]_configVars

-----------------------------------------------------------------------------
Names ==
  {"Create", "InitCollector", "Collect", "Register", "Start", "Wait",
   "Reconnect", "Join", "CollectId", "Repair", "Check", "Send", "Leave",
   "StopCollector", "Stop", "Dispose"}

Keys ==
  {"connections", "latency", "statistics", "collector", "group", "repairer", "ids"}

\* No sending step is written for more connections than there are: RemainderEnd
\* stays within Modulo (BenchmarkConfiguration.cs).
ConfigTypeOK ==
  /\ config \in Configuration
  /\ stage \in {"read", "send", "walk", "completed", "aborted", "threw",
                "invalid", "advanced"}
  /\ turn \in Nat
  /\ program \in Seq([name : Names, end : 0..config.connections])
  /\ at \in 1..(Len(program) + 1)
  /\ keys \in SUBSET Keys
  /\ stale \in BOOLEAN /\ missed \in BOOLEAN

\* Every step of a generated pipeline finds what it asks for, whatever the
\* kind and the scenario; the one thing that can be missing are the ids.
EveryParameterFound ==
  stage = "threw" => Current = "Send" /\ IsClient /\ missed /\ "ids" \notin keys

\* SendToClient sends to ids that no later start has replaced, unless the
\* repairer of perf is at work or a collection of ids was given up.
IdsAreFresh ==
  Arrives /\ Current = "Send" /\ IsClient /\ stale => missed \/ "repairer" \in keys

\* The sending steps, by their place in the program; j is the next after i.
Sendings == {i \in DOMAIN program : program[i].name = "Send"}
Follows(j, i) == i < j /\ \A k \in Sendings : k <= i \/ j <= k

\* The help text of SignalRBenchmarkPlugin.cs on sendingSteps: "maximum value
\* is 'Connections / BaseSending'", and 0 "means getting from" that quotient.
HelpTextSteps == config.connections \div config.base

\* Each sending step has Step more senders than the last one; the first has
\* BaseSending, and unless SendingSteps cuts them short a further one would
\* have more senders than connections.  So the number of steps is that of the
\* help text, at most, if Step is BaseSending or more, and at least if it is
\* BaseSending or less: the two agree when Step is BaseSending, and else need
\* not (4 connections, base 1, step 2 make 2 steps and not 4; base 2, step 1
\* make 3 and not 2).
StepsGrow ==
  stage \in {"walk", "completed"} /\ config.base > 0 =>
    LET n == Cardinality(Sendings)
        cut == config.sendingSteps # 0 /\ n >= config.sendingSteps
    IN
    /\ \E i \in Sendings : program[i].end = config.base /\ \A j \in Sendings : i <= j
    /\ \A i, j \in Sendings :
         Follows(j, i) => program[j].end = program[i].end + config.step
    /\ IF cut
       THEN n = config.sendingSteps
       ELSE \E i \in Sendings : /\ \A j \in Sendings : j <= i
                                /\ program[i].end + config.step > config.connections
    /\ config.step >= config.base => n <= HelpTextSteps
    /\ config.step <= config.base => n >= HelpTextSteps \/ cut
=============================================================================
