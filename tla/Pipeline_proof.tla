--------------------------- MODULE Pipeline_proof ---------------------------
(***************************************************************************)
(* Proofs about the pipeline, for any number of agents and any pipeline:   *)
(* order of the steps, agreement of the agents, and continuity of their    *)
(* contexts across crashes.                                                *)
(***************************************************************************)
EXTENDS Pipeline, TLAPS

(* The inductive invariant, in named parts.                                *)

\* Before the plugin is installed everywhere nothing has been queried.
Unsent ==
  mode \in {"connecting", "installing"} =>
    \A s \in Sub : task[s] = "none" /\ \A a \in Agent : rpc[a][s] = "none"

\* The attempts that failed are fewer than those allowed.
Retrying == mode = "connecting" => retries < MaxRetry

\* An agent is asked to install the plugin only while the master waits for it.
InstallPending == \A a \in Agent : inst[a] = "sent" => mode = "installing"

\* What the position says of the tasks, and the tasks of the queries.
Frontier ==
  /\ \A s \in Sub : At[s] > pos => task[s] = "none"
  /\ \A s \in Sub : At[s] < pos => task[s] = "ok"
  /\ \A s \in Sub, a \in Agent : task[s] = "none" => rpc[a][s] = "none"

\* A strict sub-step ends well only with the success of every agent.
Unanimous == \A s \in Strict, a \in Agent : task[s] = "ok" => rpc[a][s] = "ok"

\* An agent that has a plugin instance has never lost its context, and only
\* such an agent executes.
Continuous ==
  \A a \in Agent, s \in Sub :
    /\ plugin[a] /\ rpc[a][s] = "ok" => s \in ctx[a]
    /\ rpc[a][s] = "running" => plugin[a]

Inv ==
  /\ TypeOK /\ Unsent /\ Retrying /\ InstallPending
  /\ Frontier /\ Unanimous /\ Continuous

LEMMA InvImplies == Inv => InOrder /\ NoneLeftBehind /\ SameContext
<1> SUFFICES ASSUME Inv PROVE InOrder /\ NoneLeftBehind /\ SameContext
  OBVIOUS
<1>1. /\ pos \in Int
      /\ \A s \in Sub : At[s] \in Int
      /\ Strict \subseteq Sub
  BY PipelineAssumption DEF Inv, TypeOK, Strict
<1>2. NoneLeftBehind
  <2> SUFFICES ASSUME NEW a \in Agent, NEW b \in Agent, NEW s \in Strict, NEW t \in Sub,
                      At[s] < At[t], rpc[b][t] # "none"
               PROVE  rpc[a][s] = "ok"
    BY DEF NoneLeftBehind
  <2>1. At[t] <= pos
    BY <1>1 DEF Inv, Frontier
  <2>2. task[s] = "ok"
    BY <1>1, <2>1 DEF Inv, Frontier
  <2> QED  BY <2>2 DEF Inv, Unanimous
<1>3. InOrder
  BY <1>1, <1>2 DEF NoneLeftBehind, InOrder
<1>4. SameContext
  BY <1>1, <1>2 DEF NoneLeftBehind, SameContext, Inv, Continuous
<1> QED  BY <1>2, <1>3, <1>4

LEMMA InitInv == Init => Inv
<1> SUFFICES ASSUME Init PROVE Inv
  OBVIOUS
<1> USE PipelineAssumption DEF Init
<1>1. TypeOK
  BY DEF TypeOK
<1>2. /\ Unsent /\ Retrying /\ InstallPending
      /\ Frontier /\ Unanimous /\ Continuous
  BY DEF Unsent, Retrying, InstallPending, Frontier, Unanimous, Continuous, Strict
<1> QED  BY <1>1, <1>2 DEF Inv

-----------------------------------------------------------------------------
(* The master's steps.                                                     *)

LEMMA ConnectInv ==
  ASSUME Inv, Connect
  PROVE  Inv'
<1> USE PipelineAssumption DEF Inv, Unsent, InstallPending, Frontier, Unanimous,
        Continuous, Agent
<1>1. CASE TestConnection
  <2>1. mode' \in {"connecting", "crashed"} /\ mode = "connecting"
    BY <1>1 DEF TestConnection
  <2>2. /\ retries' \in 0..MaxRetry /\ Retrying' /\ tested' \in 0..N
    BY <1>1 DEF TestConnection, TypeOK, Retrying
  <2>3. TypeOK'
    BY <1>1, <2>1, <2>2 DEF TestConnection, TypeOK, agents
  <2> QED  BY <1>1, <2>1, <2>2, <2>3 DEF TestConnection, agents
<1>2. CASE SendInstall
  BY <1>2 DEF SendInstall, TypeOK, Retrying, agents
<1>3. CASE Installed
  BY <1>3 DEF Installed, TypeOK, Retrying, agents, Answered
<1> QED  BY <1>1, <1>2, <1>3 DEF Connect

LEMMA BeginStepInv ==
  ASSUME Inv, BeginStep
  PROVE  Inv'
<1> USE PipelineAssumption DEF Inv
<1>1. PICK result \in {"ok", "failed"} :
        task' = [s \in Sub |->
                   IF At[s] # pos THEN task[s]
                   ELSE IF Kind[s] = "local" THEN result ELSE "waiting"]
  BY DEF BeginStep
<1>2. rpc' = [a \in Agent |-> [s \in Sub |->
                IF At[s] = pos /\ Kind[s] # "local" THEN "sent" ELSE rpc[a][s]]]
  BY DEF BeginStep
<1>3. /\ mode = "running"
      /\ UNCHANGED <<mode, tested, retries, inst, pos, up, plugin, ctx, crashes>>
  BY DEF BeginStep, agents
<1>4. pos \in Int /\ \A s \in Sub : At[s] \in Int
  BY DEF TypeOK
<1>5. TypeOK'
  BY <1>1, <1>2, <1>3 DEF TypeOK
<1>6. Unsent' /\ Retrying' /\ InstallPending'
  BY <1>3 DEF Unsent, Retrying, InstallPending
<1>7. Frontier'
  BY <1>1, <1>2, <1>3, <1>4 DEF Frontier
<1>8. Unanimous'
  BY <1>1, <1>2 DEF Unanimous, Strict
<1>9. Continuous'
  BY <1>2, <1>3 DEF Continuous
<1> QED  BY <1>5, <1>6, <1>7, <1>8, <1>9

LEMMA LoopInv ==
  ASSUME Inv, StepEnds \/ PipelineEnds
  PROVE  Inv'
<1> USE PipelineAssumption DEF Inv
<1>1. CASE StepEnds
  <2>1. /\ mode = "running" /\ mode' \in {"running", "aborted"}
        /\ UNCHANGED <<tested, retries, inst, task, rpc, agents>>
    BY <1>1 DEF StepEnds
  <2>2. pos \in 1..Last /\ Last \in Nat /\ \A s \in Sub : At[s] \in Int
    BY <1>1 DEF StepEnds, TypeOK
  <2>3. \/ pos' = pos
        \/ pos' = pos + 1 /\ \A s \in Sub : At[s] = pos => task[s] = "ok"
    BY <1>1 DEF StepEnds, StepSubs
  <2>4. Frontier'
    BY <2>1, <2>2, <2>3 DEF Frontier
  <2>5. TypeOK' /\ Unsent' /\ Retrying' /\ InstallPending'
    BY <2>1, <2>2, <2>3 DEF TypeOK, Unsent, Retrying, InstallPending, agents
  <2> QED  BY <2>1, <2>4, <2>5 DEF Unanimous, Continuous, agents
<1>2. CASE PipelineEnds
  BY <1>2 DEF PipelineEnds, TypeOK, Unsent, Retrying, InstallPending, Frontier, Unanimous,
              Continuous, agents
<1> QED  BY <1>1, <1>2

\* A sub-step's task ends well only as TaskEnds says, unless it is lenient.
LEMMA TaskInv ==
  ASSUME Inv, NEW s \in Sub, TaskEnds(s) \/ TaskTimesOut(s)
  PROVE  Inv'
<1> USE PipelineAssumption DEF Inv
<1>1. PICK result \in {"ok", "failed"} :
        /\ task' = [task EXCEPT ![s] = result]
        /\ result = "ok" => Kind[s] = "lenient" \/ \A a \in Agent : rpc[a][s] = "ok"
  BY DEF TaskEnds, TaskTimesOut
<1>2. /\ task[s] = "waiting"
      /\ UNCHANGED <<mode, tested, retries, inst, pos, rpc, agents>>
  BY DEF TaskEnds, TaskTimesOut
<1>3. TypeOK'
  BY <1>1, <1>2 DEF TypeOK, agents
<1>4. Unsent' /\ Retrying' /\ InstallPending' /\ Continuous'
  BY <1>1, <1>2 DEF Unsent, Retrying, InstallPending, Continuous, agents, TypeOK
<1>5. Frontier'
  BY <1>1, <1>2 DEF Frontier, TypeOK
<1>6. Unanimous'
  BY <1>1, <1>2 DEF Unanimous, Strict, TypeOK
<1> QED  BY <1>3, <1>4, <1>5, <1>6

-----------------------------------------------------------------------------
(* The agents' steps.                                                      *)

LEMMA QueryInv ==
  ASSUME Inv, NEW a \in Agent, NEW s \in Sub, Query(a, s)
  PROVE  Inv'
<1> USE DEF Inv, SetRpc
<1>1. /\ rpc[a][s] \in {"sent", "running"}
      /\ UNCHANGED <<mode, tested, retries, inst, pos, task, up, plugin, crashes>>
  BY DEF Query, QueryArrives, QuerySucceeds, QueryThrows, master, agents
<1>2. PICK state \in {"running", "ok", "failed"} :
        /\ rpc' = [rpc EXCEPT ![a][s] = state]
        /\ state = "running" => plugin[a]
        /\ IF state = "ok" THEN ctx' = [ctx EXCEPT ![a] = @ \cup {s}] ELSE UNCHANGED ctx
  BY DEF Query, QueryArrives, QuerySucceeds, QueryThrows, agents
<1>3. TypeOK'
  BY <1>1, <1>2 DEF TypeOK
<1>4. Unsent' /\ Retrying' /\ InstallPending'
  BY <1>1, <1>2 DEF TypeOK, Unsent, Retrying, InstallPending
<1>5. Frontier'
  BY <1>1, <1>2 DEF TypeOK, Frontier
<1>6. Unanimous'
  BY <1>1, <1>2 DEF TypeOK, Unanimous, Strict
<1>7. Continuous'
  BY <1>1, <1>2 DEF TypeOK, Continuous
<1> QED  BY <1>3, <1>4, <1>5, <1>6, <1>7

\* The plugin arrives before the first query, so no context is lost by it; a
\* process that ends takes its plugin and what it was executing with it.
LEMMA ProcessInv ==
  ASSUME Inv, NEW a \in Agent, InstallPlugin(a) \/ AgentCrashes(a) \/ AgentStarts(a)
  PROVE  Inv'
<1> USE PipelineAssumption DEF Inv
<1>1. CASE InstallPlugin(a)
  <2>1. mode = "installing" /\ \A s \in Sub : rpc[a][s] = "none"
    BY <1>1 DEF InstallPlugin, InstallPending, Unsent
  <2>2. UNCHANGED <<mode, tested, retries, pos, task, rpc, up, crashes>>
    BY <1>1 DEF InstallPlugin
  <2>3. /\ inst' \in [Agent -> {"none", "sent", "ok", "failed"}]
        /\ plugin' \in [Agent -> BOOLEAN] /\ ctx' \in [Agent -> SUBSET Sub]
        /\ \A b \in Agent : inst'[b] = "sent" => inst[b] = "sent"
        /\ \A b \in Agent \ {a} : plugin'[b] = plugin[b] /\ ctx'[b] = ctx[b]
        /\ plugin[a] => plugin'[a]
    BY <1>1 DEF InstallPlugin, TypeOK
  <2>4. TypeOK'
    BY <2>2, <2>3 DEF TypeOK
  <2>5. Unsent' /\ Retrying' /\ InstallPending'
    BY <2>2, <2>3 DEF Unsent, Retrying, InstallPending
  <2>6. Frontier' /\ Unanimous'
    BY <2>2 DEF Frontier, Unanimous
  <2>7. Continuous'
    BY <2>1, <2>2, <2>3 DEF Continuous
  <2> QED  BY <2>4, <2>5, <2>6, <2>7
<1>2. CASE AgentCrashes(a)
  <2>1. rpc' = [rpc EXCEPT ![a] = [s \in Sub |->
                  IF rpc[a][s] = "running" THEN "failed" ELSE rpc[a][s]]]
    BY <1>2 DEF AgentCrashes, TypeOK
  <2>2. TypeOK'
    BY <1>2, <2>1 DEF AgentCrashes, TypeOK, master
  <2>3. Unsent' /\ Retrying' /\ InstallPending' /\ Frontier'
    BY <1>2, <2>1 DEF AgentCrashes, TypeOK, Unsent, Retrying, InstallPending, Frontier, master
  <2>4. Unanimous' /\ Continuous'
    BY <1>2, <2>1 DEF AgentCrashes, TypeOK, Unanimous, Continuous, Strict, master
  <2> QED  BY <2>2, <2>3, <2>4
<1>3. CASE AgentStarts(a)
  BY <1>3 DEF AgentStarts, TypeOK, Unsent, Retrying, InstallPending, Frontier, Unanimous,
              Continuous, master
<1> QED  BY <1>1, <1>2, <1>3

LEMMA StepInv == Inv /\ [Next]_vars => Inv'
<1> SUFFICES ASSUME Inv, [Next]_vars PROVE Inv'
  OBVIOUS
<1>1. CASE Next
  BY <1>1, ConnectInv, BeginStepInv, LoopInv, TaskInv, QueryInv, ProcessInv
     DEF Next, Loop, Exited, vars, master, agents, Inv, TypeOK, Unsent, Retrying,
         InstallPending, Frontier, Unanimous, Continuous
<1>2. CASE UNCHANGED vars
  BY <1>2 DEF vars, master, agents, Inv, TypeOK, Unsent, Retrying, InstallPending,
              Frontier, Unanimous, Continuous
<1> QED  BY <1>1, <1>2

LEMMA Invariance == Spec => []Inv
BY InitInv, StepInv, PTL DEF Spec

(* Type correctness of the master and its agents. *)
THEOREM TypeCorrect == Spec => []TypeOK
<1>1. Inv => TypeOK
  BY DEF Inv
<1> QED  BY Invariance, <1>1, PTL

(* "the steps are executed in order": holds of every sub-step whose master
   method does not swallow its timeout, for any agents and any pipeline. *)
THEOREM StepsAreOrdered == Spec => []InOrder
<1>1. Inv => InOrder
  BY InvImplies
<1> QED  BY Invariance, <1>1, PTL

(* No agent is queried in a later step before all agents have reported the
   success of every strict sub-step of the earlier ones. *)
THEOREM AgentsStayTogether == Spec => []NoneLeftBehind
<1>1. Inv => NoneLeftBehind
  BY InvImplies
<1> QED  BY Invariance, <1>1, PTL

(* An agent that crashed and came back executes nothing in its empty context,
   whenever it crashed. *)
THEOREM ContextsAreKept == Spec => []SameContext
<1>1. Inv => SameContext
  BY InvImplies
<1> QED  BY Invariance, <1>1, PTL
=============================================================================
