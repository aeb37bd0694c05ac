------------------------------ MODULE Pipeline ------------------------------
(***************************************************************************)
(* One run of the master against its agents: Controller connects to every  *)
(* agent, SignalRBenchmarkPlugin installs the plugin in each and walks the *)
(* pipeline, starting the sub-steps of a step together and the next step   *)
(* when all of them have ended.  A sub-step is a query to every agent; the *)
(* agent executes it in the context that earlier queries left in its       *)
(* plugin instance.  Agents may crash and be started again, and the master *)
(* methods that give up after a time do so while the agents work on.       *)
(***************************************************************************)
EXTENDS Integers

CONSTANTS
  N,          (* number of agents, in the order of AgentList               *)
  Last,       (* number of steps of the pipeline                           *)
  Sub,        (* its sub-steps                                             *)
  At,         (* the step each sub-step belongs to                         *)
  Kind,       (* how the sub-step's master method ends, see below          *)
  MaxRetry,   (* _maxRertryConnect                                         *)
  MaxCrashes  (* bound: crashes of agents                                  *)

Agent == 1..N

(* "plain"    waits for every agent and fails if one failed                *)
(* "timed"    plain under TimeoutCheckedTask, which fails on a timeout too *)
(* "check"    ConditionalStop: plain, then fails if a criterion is exceeded*)
(* "lenient"  CollectConnectionId: gives up after a time, never fails      *)
(* "local"    runs in the master only, as CollectStatistics, StopCollector *)
Kinds == {"plain", "timed", "check", "lenient", "local"}

ASSUME PipelineAssumption ==
  /\ N \in Nat \ {0}
  /\ Last \in Nat \ {0}
  /\ At \in [Sub -> 1..Last]
  /\ Kind \in [Sub -> Kinds]
  /\ MaxRetry \in Nat \ {0}
  /\ MaxCrashes \in Nat

VARIABLES
  mode,     (* how far the master is                                       *)
  tested,   (* agents that answered TestConnection in this attempt         *)
  retries,  (* attempts that failed                                        *)
  inst,     (* InstallPlugin, per agent, as the master sees it             *)
  pos,      (* the step of the pipeline being run                          *)
  task,     (* the task of each sub-step's master method                   *)
  rpc,      (* the query of each agent and sub-step                        *)
  up,       (* is the agent's process running                              *)
  plugin,   (* has it a plugin instance                                    *)
  ctx,      (* sub-steps completed in the context of that instance         *)
  crashes   (* crashes so far, up to MaxCrashes                            *)

master == <<mode, tested, retries, inst, pos, task>>
agents == <<up, plugin, ctx, crashes>>
vars == <<master, rpc, agents>>

StepSubs(i) == {s \in Sub : At[s] = i}
Answered(state) == state \in {"ok", "failed"}

Init ==
  /\ mode = "connecting"
  /\ tested = 0
  /\ retries = 0
  /\ inst = [a \in Agent |-> "none"]
  /\ pos = 1
  /\ task = [s \in Sub |-> "none"]
  /\ rpc = [a \in Agent |-> [s \in Sub |-> "none"]]
  /\ up \in [Agent -> BOOLEAN]
  /\ plugin = [a \in Agent |-> FALSE]
  /\ ctx = [a \in Agent |-> {}]
  /\ crashes = 0

-----------------------------------------------------------------------------
(* Controller.WaitRpcConnectSuccess and InstallPluginInSlaves.             *)

(* A mutated form of TestConnection: the attempts are never given up. *)
TestConnectionForever ==
  /\ mode = "connecting"
  /\ tested < N
  /\ IF up[tested + 1]
     THEN tested' = tested + 1 /\ UNCHANGED retries
     ELSE tested' = 0 /\ retries' = retries + 1
  /\ UNCHANGED <<mode, inst, pos, task, rpc, agents>>

\* The agents are tested in order; one that does not answer ends the attempt.
TestConnection ==
  /\ mode = "connecting"
  /\ tested < N
  /\ IF up[tested + 1]
     THEN tested' = tested + 1 /\ UNCHANGED <<mode, retries>>
     ELSE /\ tested' = 0
          /\ retries' = retries + 1
          /\ mode' = IF retries' = MaxRetry THEN "crashed" ELSE mode
  /\ UNCHANGED <<inst, pos, task, rpc, agents>>

SendInstall ==
  /\ mode = "connecting"
  /\ tested = N
  /\ mode' = "installing"
  /\ inst' = [a \in Agent |-> "sent"]
  /\ UNCHANGED <<tested, retries, pos, task, rpc, agents>>

\* RpcServiceImpl.InstallPlugin: a new plugin instance, with an empty context.
InstallPlugin(a) ==
  /\ inst[a] = "sent"
  /\ IF up[a]
     THEN /\ plugin' = [plugin EXCEPT ![a] = TRUE]
          /\ ctx' = [ctx EXCEPT ![a] = {}]
          /\ inst' = [inst EXCEPT ![a] = "ok"]
     ELSE /\ inst' = [inst EXCEPT ![a] = "failed"]
          /\ UNCHANGED <<plugin, ctx>>
  /\ UNCHANGED <<mode, tested, retries, pos, task, rpc, up, crashes>>

\* Outside the try of Start: a failed installation ends the master.
Installed ==
  /\ mode = "installing"
  /\ \A a \in Agent : Answered(inst[a])
  /\ mode' = IF \A a \in Agent : inst[a] = "ok" THEN "running" ELSE "crashed"
  /\ UNCHANGED <<tested, retries, inst, pos, task, rpc, agents>>

-----------------------------------------------------------------------------
(* The loop of SignalRBenchmarkPlugin.Start.                               *)

\* Every sub-step of the step is started: its queries are sent to all agents.
BeginStep ==
  /\ mode = "running"
  /\ pos <= Last
  /\ \E s \in StepSubs(pos) : task[s] = "none"
  /\ \E result \in {"ok", "failed"} :
       task' = [s \in Sub |->
                  IF At[s] # pos THEN task[s]
                  ELSE IF Kind[s] = "local" THEN result ELSE "waiting"]
  /\ rpc' = [a \in Agent |-> [s \in Sub |->
               IF At[s] = pos /\ Kind[s] # "local" THEN "sent" ELSE rpc[a][s]]]
  /\ UNCHANGED <<mode, tested, retries, inst, pos, agents>>

\* Task.WhenAll over the queries of s: it waits for all, then fails if one
\* failed; ConditionalStop may fail on the numbers it got.
TaskEnds(s) ==
  /\ task[s] = "waiting"
  /\ \A a \in Agent : Answered(rpc[a][s])
  /\ \E result \in {"ok", "failed"} :
       /\ result = "ok" => Kind[s] = "lenient" \/ \A a \in Agent : rpc[a][s] = "ok"
       /\ result = "failed" => /\ Kind[s] # "lenient"
                               /\ \/ Kind[s] = "check"
                                  \/ \E a \in Agent : rpc[a][s] = "failed"
       /\ task' = [task EXCEPT ![s] = result]
  /\ UNCHANGED <<mode, tested, retries, inst, pos, rpc, agents>>

(* A mutated form of TaskTimesOut: the TimeoutException is caught where
   TimeoutCheckedTask has its catch. *)
TaskTimesOutQuietly(s) ==
  /\ task[s] = "waiting"
  /\ Kind[s] \in {"timed", "lenient"}
  /\ task' = [task EXCEPT ![s] = "ok"]
  /\ UNCHANGED <<mode, tested, retries, inst, pos, rpc, agents>>

\* TimeoutAfter: the wait is over, the queries are not.  TimeoutCheckedTask
\* lets the exception through, CollectConnectionId logs it.
TaskTimesOut(s) ==
  /\ task[s] = "waiting"
  /\ Kind[s] \in {"timed", "lenient"}
  /\ task' = [task EXCEPT ![s] = IF Kind[s] = "lenient" THEN "ok" ELSE "failed"]
  /\ UNCHANGED <<mode, tested, retries, inst, pos, rpc, agents>>

(* A mutated form of StepEnds: WhenAny instead of WhenAll over the tasks. *)
StepEndsWithFirst ==
  /\ mode = "running"
  /\ pos <= Last
  /\ \E s \in StepSubs(pos) : Answered(task[s])
  /\ IF \A s \in StepSubs(pos) : task[s] # "failed"
     THEN pos' = pos + 1 /\ UNCHANGED mode
     ELSE mode' = "aborted" /\ UNCHANGED pos
  /\ UNCHANGED <<tested, retries, inst, task, rpc, agents>>

\* Task.WhenAll over the sub-steps.  An exception is logged and ends the loop:
\* no later step is run, the ones that stop and dispose included.
StepEnds ==
  /\ mode = "running"
  /\ pos <= Last
  /\ \A s \in StepSubs(pos) : Answered(task[s])
  /\ IF \A s \in StepSubs(pos) : task[s] = "ok"
     THEN pos' = pos + 1 /\ UNCHANGED mode
     ELSE mode' = "aborted" /\ UNCHANGED pos
  /\ UNCHANGED <<tested, retries, inst, task, rpc, agents>>

PipelineEnds ==
  /\ mode = "running"
  /\ pos > Last
  /\ mode' = "completed"
  /\ UNCHANGED <<tested, retries, inst, pos, task, rpc, agents>>

-----------------------------------------------------------------------------
(* The agents: RpcServiceImpl.Query and the life of their processes.       *)

SetRpc(a, s, state) == rpc' = [rpc EXCEPT ![a][s] = state]

(* A mutated form of QueryArrives: an agent without a plugin makes one. *)
QueryArrivesAnyway(a, s) ==
  /\ rpc[a][s] = "sent"
  /\ SetRpc(a, s, IF up[a] THEN "running" ELSE "failed")
  /\ plugin' = [plugin EXCEPT ![a] = up[a]]
  /\ UNCHANGED <<master, up, ctx, crashes>>

(* A mutated form of QueryArrives: the call to a dead agent never ends. *)
QueryHangs(a, s) ==
  /\ rpc[a][s] = "sent"
  /\ up[a]
  /\ SetRpc(a, s, IF plugin[a] THEN "running" ELSE "failed")
  /\ UNCHANGED <<master, agents>>

\* Without a plugin instance the query fails, as it does without a process.
QueryArrives(a, s) ==
  /\ rpc[a][s] = "sent"
  /\ SetRpc(a, s, IF up[a] /\ plugin[a] THEN "running" ELSE "failed")
  /\ UNCHANGED <<master, agents>>

QuerySucceeds(a, s) ==
  /\ rpc[a][s] = "running"
  /\ SetRpc(a, s, "ok")
  /\ ctx' = [ctx EXCEPT ![a] = @ \cup {s}]
  /\ UNCHANGED <<master, up, plugin, crashes>>

\* ExecuteOnAgent throws: the answer is Success = false.
QueryThrows(a, s) ==
  /\ rpc[a][s] = "running"
  /\ SetRpc(a, s, "failed")
  /\ UNCHANGED <<master, agents>>

\* The process of agent a ends, and with it what it was executing.
AgentCrashes(a) ==
  /\ up[a]
  /\ crashes < MaxCrashes
  /\ crashes' = crashes + 1
  /\ up' = [up EXCEPT ![a] = FALSE]
  /\ plugin' = [plugin EXCEPT ![a] = FALSE]
  /\ ctx' = [ctx EXCEPT ![a] = {}]
  /\ rpc' = [rpc EXCEPT ![a] = [s \in Sub |-> IF @[s] = "running" THEN "failed" ELSE @[s]]]
  /\ UNCHANGED master

\* A new process of agent a listens; it has no plugin.
AgentStarts(a) ==
  /\ ~up[a]
  /\ up' = [up EXCEPT ![a] = TRUE]
  /\ UNCHANGED <<master, rpc, plugin, ctx, crashes>>

-----------------------------------------------------------------------------
Over == mode \in {"completed", "aborted", "crashed"}

\* The master has exited; what is left of the agents' work is of no concern.
Exited == Over /\ UNCHANGED vars

Connect == TestConnection \/ SendInstall \/ Installed
Loop == BeginStep \/ StepEnds \/ PipelineEnds
Query(a, s) == QueryArrives(a, s) \/ QuerySucceeds(a, s) \/ QueryThrows(a, s)

Next ==
  \/ Connect
  \/ Loop
  \/ \E s \in Sub : TaskEnds(s) \/ TaskTimesOut(s)
  \/ \E a \in Agent : \/ InstallPlugin(a)
                      \/ AgentCrashes(a)
                      \/ AgentStarts(a)
                      \/ \E s \in Sub : Query(a, s)
  \/ Exited

\* The master goes on while it can, and a call is answered: by a live agent
\* some time (each method has a duration), for a dead one by the channel.
\* No timeout and no restart is owed.
Fairness ==
  /\ WF_vars(Connect)
  /\ WF_vars(Loop)
  /\ \A s \in Sub : WF_vars(TaskEnds(s))
  /\ \A a \in Agent :
       WF_vars(InstallPlugin(a)) /\ \A s \in Sub : WF_vars(Query(a, s))

Spec == Init /\ [][Next]_vars /\ Fairness

-----------------------------------------------------------------------------
TypeOK ==
  /\ mode \in {"connecting", "installing", "running", "completed", "aborted", "crashed"}
  /\ tested \in 0..N
  /\ retries \in 0..MaxRetry
  /\ inst \in [Agent -> {"none", "sent", "ok", "failed"}]
  /\ pos \in 1..(Last + 1)
  /\ task \in [Sub -> {"none", "waiting", "ok", "failed"}]
  /\ rpc \in [Agent -> [Sub -> {"none", "sent", "running", "ok", "failed"}]]
  /\ up \in [Agent -> BOOLEAN]
  /\ plugin \in [Agent -> BOOLEAN]
  /\ ctx \in [Agent -> SUBSET Sub]
  /\ crashes \in 0..MaxCrashes

\* Sub-steps whose success every agent had to report before the next step.
Strict == {s \in Sub : Kind[s] \in {"plain", "timed", "check"}}

\* "the steps are executed in order", but for the steps that give up quietly:
\* while an agent executes a sub-step, no agent executes one of a later step.
InOrder ==
  \A a, b \in Agent, s \in Strict, t \in Sub :
    rpc[a][s] = "running" /\ rpc[b][t] = "running" => At[t] <= At[s]

\* No agent is left behind: a query is only ever sent when every agent has
\* reported the success of every strict sub-step of the earlier steps.
NoneLeftBehind ==
  \A a, b \in Agent, s \in Strict, t \in Sub :
    At[s] < At[t] /\ rpc[b][t] # "none" => rpc[a][s] = "ok"

\* An agent that lost its context in a crash executes nothing any more: what
\* it executes finds the results of all earlier strict sub-steps.
SameContext ==
  \A a \in Agent, s \in Strict, t \in Sub :
    At[s] < At[t] /\ rpc[a][t] = "running" => s \in ctx[a]

\* Whatever agents crash and whenever, the master comes to an end.
Terminates == <>Over

-----------------------------------------------------------------------------
\* doc/details.md: "Sub steps in the same step are executed parallelly, while
\* the steps are executed in order".
StepsInOrder ==
  \A a, b \in Agent, s, t \in Sub :
    rpc[a][s] = "running" /\ rpc[b][t] = "running" => At[s] = At[t]
=============================================================================
