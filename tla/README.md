# A TLA+ development of azure-signalr-bench

azure-signalr-bench measures an Azure SignalR service. A *master* process drives
any number of *agent* processes over gRPC; each agent holds many client
connections, and the master walks a pipeline of steps (create, start, join
groups, send, stop, ...) that the agents execute together. This directory holds
TLA+ modules of the parts whose behaviour is hard to see by reading or testing,
the TLC configurations that check them, and proofs for TLAPS.

Source paths below are relative to the repository; `AM/` is
`src/signalr/AgentMethods/` and `MM/` is `src/signalr/MasterMethods/`.

## 1. The system

| Component | Where | State it keeps | Operations |
|---|---|---|---|
| master controller and pipeline | `src/master`, `src/signalr/SignalRBenchmarkPlugin.cs`, `StepHandler.cs` | the steps of the pipeline, the RPC clients, its plugin parameters | wait for agents (100 tries), install the plugin, run the sub-steps of a step in parallel, the steps in order |
| RPC | `src/rpc`, `src/agent` | per agent one plugin instance | `TestConnection`, `InstallPlugin`, `Query` |
| master methods | `MM/` | none; a context of master parameters | one per method: send a query to all agents, wait, with or without a timeout; conditional stop; collect ids and statistics |
| connection adapter | `src/signalr/Connections` | `_stat`, `_connectionLock`, timestamps | `StartAsync`, `StopAsync`, `DisposeAsync`, `SendAsync`, `StreamAsChannelAsync`, `OnClosed` |
| agent connection steps, repairer | `AM/{StartConnection,Reconnect*,RepairConnections,StopConnection,DisposeConnection}.cs`, `Utils/SignalRUtils.cs` | the connection list, the index list, a cancellation source | create, start, reconnect, repair in the background, stop, dispose |
| batch runners | `src/common/Util.cs`, `AM/BatchConnectionBase.cs` | a semaphore and its ramp; how many items are left | `BatchProcess`, `LowPressBatchProcess`, `RateLimitBatchProces`, `ExternalRateLimitBatchProcess`, a retrying variant |
| token buckets | `src/common/Internal`, `src/common/External` | free permits, releases owed, refill time | wait, release, refill, dispose |
| group assignment | `SignalRUtils.cs`, `AM/{JoinGroup,LeaveGroup,SendToGroupBase}.cs` | connection index list, group count | deal indexes, join, join again after a repair, pick the group to send to, leave |
| sending scenarios | `AM/BaseContinuousSendMethod.cs`, `BaseStreamingSendMethod.cs` and their subclasses | one loop per connection | echo, broadcast, send to group / client, streaming |
| statistics | `AM/StatisticsCollector`, `AM/CollectStatisticBase.cs`, `MM/CollectStatisticBase.cs`, `MM/StopCollector.cs` | counters, epoch, sending step; a timer and a file at the master | count, reset, collect, merge, save, parse |
| connection id collection | `AM/CollectConnectionId.cs`, `MM/CollectConnectionId.cs` | the list of ids | ask each connection for its id, gather, scatter |
| configuration generator | `src/signalr/Configuration` | the pipeline so far | write the pipeline of a simple configuration, read that of an advanced one |
| internal application servers | `src/appserver`, `src/streamserver`, `src/signalr/Internals` | per stream a channel | answer a call with a message, a stream with a stream |
| REST scenarios, AspNet adapter, commander, command line, scripts | `AM/Rest*`, `AspNetSignalRHubConnection.cs`, `src/utils`, ... | | around the benchmark |

**Interactions.** The master calls the agents (`Query`), one call per agent and
sub-step, and the call returns what the agent's method returned. An agent's
methods share the context of its plugin instance: the connection list, the index
list, the statistics store, the repairer's cancellation source. A method works on
all connections at once through a batch runner, which calls the adapter, which
calls the SignalR client library; the library calls back (`Closed`, message
handlers) on the thread pool. The repairer is a task that outlives the step that
made it. The statistics timer of the master queries the agents while steps run.

**What is hard.**
*Concurrency*: a batch and the repairer start one connection at the same time; a
send, a stop and a `Closed` event write `_stat` in any order; steps are cancelled
but what they started goes on. *Failure*: connections drop, starts time out,
sends time out on live connections, agents crash and restart with an empty
plugin. *Ordering*: steps must not overlap, and a step given up on does.
*Arithmetic*: connections, agents and groups that do not divide, computed in four
places in four ways. *Time*: refill rates, ramp, duration, timeouts.

**What makes each component correct.**
A batch runner processes each item once with at most `max` in flight. The adapter
is started by one caller at a time, and can always be started again. The
steps of an agent lose no connection, keep repaired connections in their groups
and leave nothing behind when they end. The pipeline runs its steps in order, on
all agents together, and ends. Every connection index is dealt once, and a
connection sends to, and leaves, the groups it joined. The statistics
attribute a count to the epoch it belongs to, the file has its lines in order,
and each epoch is reported from its own lines. A token bucket starts no more
than its size and its refills allow, and loses no permit for good. A generated pipeline gives each step what it asks for, in
an order in which it is still true. A stream is read whole, or its call fails.

The hazards, each at its line, are listed in `PROJECT.json`.

## 2. The modules

    BoundedPool         what a batch runner promises (abstract)
      ^ implemented by
    BatchProcess        the semaphore runner and its ramp
    PacedBatch          the three runners that pace by the clock, their buckets
    BatchConnect        a step in one mode after a step in another: the two above
    HubConnection       one connection adapter, called concurrently
      ^ implemented by (and extended by)
    AgentConnections    an agent's steps and its repairer, over the adapters
    StreamingEcho       streams over an adapter, with their writers and the hub
    Pipeline            the master, the RPCs, the agents' processes
    Configuration       the pipeline written from a simple configuration
    ConfiguredPipeline  the master with either kind of configuration: the two above
    GroupAssignment     who is in which group, over all agents
    Statistics          counters, the collector's timer, the file, its parser

`X_proof` holds the theorems about `X`; `MCX` gives the constants of `X` their
values for TLC. Operators named in a comment as "a mutated form of" are
plausible bugs, used to test that the properties can fail; no specification
reaches them.

### BatchProcess, BoundedPool (`src/common/Util.cs`)
`count` is the semaphore's `CurrentCount`, `ramp` the loop variable of the
background task that releases the other half of the permits, `pc` the position
of each item's task. `Release` may throw `SemaphoreFullException`, as the
library's does. The callback is abstract: it begins and ends. `max = 1` starts
the semaphore at 0, so the first item waits for the ramp.

### PacedBatch, BatchConnect (`Util.cs`, `SemaphoreTokenBucket.cs`, `TokenBucket.cs`, `FixedIntervalRefillStrategy.cs`, `BatchConnectionBase.cs`)
The packages are counted (`begun`, `ended`), the clock is in ticks with `Interval`
ticks to every interval of the code. In LimitRatePress the bucket's constructor
starts two tasks: `rampUp`, which releases one permit per interval until it has released
`capacity`, and `loop`, which refills. A turn of the refill is cut where another task can come
between: `RefillReads` has read the clock, `_releasedCount` and `CurrentCount`,
`RefillReleases` calls `Release` and resets the count; so is `Dispose`
(`DisposeReads`, `DisposeReleases`). `Release` throws past the capacity and once
disposed (`Refused`). In ExtLimitRatePress `TryConsume` is one turn of a task
that spins. In LowPress `loop` is the loop over batches, `LowPressReturns` the
`WhenAll` with its timeout, which is only logged. Timers may be up to `MaxLate` ticks late.
What the model shows besides: none of these modes keeps to the configured pace. An
`ExtLimitRatePress` step starts a whole bucket at once, for the first refill covers all the time since
the epoch (`BucketAtOnce`; disagreement 6 below), and may do so again after an interval of quiet;
with fewer than 10 connections per second the rate is 10 all the same, and LimitRatePress adds the
ramp's 10. A disposal that races with the ramp fails the step although every connection was started. A `max` of 0 would keep LowPress looping
for ever, and a clock that is set back stops the refills: neither is in the model.
`BatchConnect` puts a paced step after a HighPress step that has returned, with its ramp
perhaps still at work.

### HubConnection (`SignalRCoreHubConnection.cs`, `HubConnectionBase.cs`)
Each operation is cut at its awaits: `StartEnter` (the `Wait(0)` on the lock),
`StartConnects` (the client's start succeeds), then `StartReturns` or
`StartThrows` (the continuation, its `catch` and `finally`). `stat` is `_stat`,
`lock` is `_connectionLock`. The client library is external: its state `hub`
(off, on, disposed) and the `Closed` events it has raised but not delivered
(`closed`). The library's start, stop and dispose exclude one another and a
start of a hub that is not off throws. A `SendAsync` that takes the hub's lock
waits while a start is in progress. Not modelled: the timestamps of connections
and drops.

### StreamingEcho (`AM/StreamingEcho.cs`, `BenchHub.StreamingEcho`)
Extends HubConnection: all that can happen to the adapter goes on beside the
streams of one of them, `Echoer`. `Begin` is `StreamingBaseSendAsync` up to its first await,
which includes the writer up to *its* first: the whole loop, if there is no delay between items. The
writer is detached, so a stream `s` that failed still has `stamped[s]`,
`written[s]`, `counted[s]` moving while stream `n` is on its way. The items are one
dictionary: an uploaded item carries the stamp the dictionary has when the client
serialises it, and an upload in the middle of a change throws (`UploadThrows`). `up` and `down` are what is under way to the
hub and back; a connection that goes down takes both with it (`link`). What
the model shows besides: without a delay every item of a stream carries the
timestamp of the last, so latencies are too short by the time the writing took; the counter of missing items can never be raised,
because a stream that loses items throws; and items of a stream that was
never sent count as sent. A streaming step does not run beside a sending step
on the same adapter (a guard of `HubStep`).

### AgentConnections (`AM/`, `SignalRUtils.cs`)
`Program` is the list of steps the master sends; `pos` and `phase` say how far
the agent is. A batch is the set `todo[k]` of packages whose tasks have not
begun plus the `StartAsync` calls in flight: any interleaving of the tasks is
allowed, as in the HighPress mode with its limit out of reach. `store` maps an index of the connection
list to its adapter; `Reconnect` destroys the stopped adapters one by one, takes
`fresh` ones and starts what is `Init`. `rep` and `cancelled` are the repairer's
loop and its token; a repaired connection joins its group again when
`RepairAction` is `JoinToGroup`. `joined` is what the service knows: the
connections in their group. Sends happen at any time in a sending step; when its
time is up no send begins and those in flight are waited for.

### Pipeline (`Controller.cs`, `SignalRBenchmarkPlugin.cs`, `RpcServiceImpl.cs`, `MM/`)
`mode` follows `Controller.Start`: connecting, installing, running, then
completed, aborted (a step failed: the loop ends, and the later steps, stopping
and disposing included, are not run) or crashed. `rpc[a][s]` is the query of
sub-step `s` to agent `a`. A sub-step's `Kind` is how its master method ends:
plain, under `TimeoutCheckedTask`, conditional stop, `CollectConnectionId` (which
swallows its timeout) or in the master only. Agents crash and restart; the new
process has no plugin, so its queries fail.

### Configuration, ConfiguredPipeline (`BenchmarkConfiguration.cs`, `SimpleBenchmarkModelExtensions.cs`)
`Prepares`, `AddsSendingStep` and `AddsCleanUp` write `program`, the steps of
`HandleSimpleConfiguration` in its order; `Send` carries its `RemainderEnd`. The
walk that follows keeps, of the plugin parameters, which exist (`keys`): `Asks`
and `Writes` are the `TryGetTypedValue` calls and the assignments of each
method, and a step that asks in vain throws. `stale` is raised by whatever may start a connection after its id was
collected: Start, Reconnect and, until `StopConnection`, the repairer. `missed`
remembers a collection that was given up. What the model shows besides: the number of sending steps is the one of the help text only when `Step` is
`BaseSending` (disagreement 7 below); a `Step` of 0 throws while the pipeline is being written; a `BaseSending` of 0 leaves a pipeline without the
steps that stop and dispose; under perf the repairer makes ids stale with
nothing to collect them again; a first collection given up makes `SendToClient` throw.
`frequentJoinLeaveGroup`, which the documents list, has no method in the generator, so `Invoke` throws on
null: it is left out. `ConfiguredPipeline` is `Parse`: an advanced configuration is walked by
Pipeline, a simple one is generated first.

### GroupAssignment (`Util.SplitNumber`, `GetConnectionRange`, `JoinGroupForConnection`, `TakeActionAfterStartingConnect`, `LeaveGroup`)
The indexes are shuffled and dealt in `Init`. `JoinNext` is one turn of the
doubly nested join loop of one agent, with its count of passes and its
remainder; agents run side by side. `Repair`/`RejoinNext` are what the repairer
does for a connection; `LeaveCalls` is the choice that `LeaveGroup` makes per
agent. A group is a number; `member` is the service's side.

### Statistics (`StatisticsCollector`, `CollectStatisticBase`, `MergeStatistics`, `StatisticsParser`)
`count` is the dictionary of each agent, cut down to the epoch and one message
counter; the latter is the set of the epochs its messages were counted in, so that a line
tells where its numbers come from. A sending step resets and then raises the epoch in
two writes (`ResetCounters`, `IncreaseEpoch`), answers are counted at any time
(`Receive`), and a query reads the counters one by one (`ReadCounter`), in any order:
`GetData` holds a lock that these writers do not take. `TimerElapses` does not
wait for the tick before, so `Save` may append lines out of order; `overlap`
remembers that it could. `Parse` applies `ParseLine` to the epochs of the
lines, one after the other. The properties about the file hold as long as no ticks overlapped: the
code relies on agents that answer within the interval. What the model shows besides: the last line
is never used, a last epoch of two lines is not reported, and one of a single
line reports the epoch before it once more, to an end before its start; a file that begins
with a positive epoch makes the report throw; and the last line of an epoch may
hold counters already reset for the next one, when a query falls between the two writes.

## 3. The runs

| Run | Question | Bounds, and why they are enough |
|---|---|---|
| `batch_process` | permits conserved, no spurious release, everything processed, implements the pool; then, in each other mode, starts bounded by ramp, bucket and refills (not by the configured pace: a whole bucket starts at once), no early end, everything started in the end | 5 items, max 3: an odd max (1 permit at first, 2 from the ramp) and more items than permits, so items wait, run and finish at each height of the ramp. Paced: none or 5 items over a bucket of 2, so that the bucket is emptied, refilled and full again, and the last LowPress batch is a short one; 2 ticks to an interval and 2 of lateness, so that a timer can miss a whole interval; 6 ticks before the horizon are three intervals. All sizes are proved |
| `hub_connection` | one starter, an abandoned connection is not revived, the lock is given back; a stream is whole or fails, its stamps are in time, its call ends | one adapter (adapters share nothing), two callers of start, one pending `Closed` event; two streams of two items, so that a stream can follow one whose writer is still at work |
| `agent_perf` | the group pipeline with its repairer: repairs keep membership, the stop steps clean up | 2 connections, 2 spare adapters (one per index: `Reconnect` runs once), 2 faults (drop, failed start or timed-out send, in any mixture) |
| `agent_early` | a pipeline written by hand that sets the repairer up first, so that it and the batches start the same connections: no orphan, the adapters obey HubConnection (and with it `OneStarter`, which is therefore not checked again) | as above, 1 pending event; the generated pipelines never let the two overlap, only this run makes a start find the lock taken or its connection Active already |
| `agent_stop` | are stopped connections stopped? (violated) | as above, 1 pending event |
| `agent_strict` | are reconnected connections in their groups in the next sending step? (violated) | two Reconnects, 4 spare adapters |
| `agent_longrun` | does the repairer repair everything in the end? (violated) | 2 faults: the counterexample needs one, a timed-out send |
| `pipeline` | order, no agent left behind, contexts kept, the master ends; generated pipelines: parameters found, ids fresh, sending steps that grow by `Step`, and how many there are against the help text | 2 agents, 4 steps, 6 sub-steps of all kinds, two steps with parallel sub-steps, 2 crashes, 2 connection attempts; every configuration of both kinds, three scenarios, 1 to 4 connections, a base of 0 to 5, a step of 0 to 3, with and without a limit of 2 sending steps: a base above the connections, a step below, equal to and above the base, steps that hit the last connection and that miss it |
| `pipeline_order` | do steps ever overlap? (violated) | the same |
| `groups` | indexes dealt once, groups balanced, senders in the group they send to, groups left | every shuffle of 2 to 4 connections over 2 agents and 1 to 5 groups: fewer, as many and more groups than connections and than an agent's share, divisible or not; one connection drops |
| `groups_leave` | are all groups left? (violated) | 4 connections, 4 groups, 2 agents |
| `statistics` | epochs of the lines in order, no stale counts, each epoch reported once | 2 agents (symmetric), 2 sending steps, 2 ticks, up to 1 message per agent and step: two agents on both sides of a reset, two ticks before, across and after it; the parser on all files of up to 7 lines and 2 epochs |

The named bounds are `MaxPending` (Closed events pending per adapter),
`MaxFaults`, `MaxCrashes`, `MaxDropped` and `MaxTicks` (the timer's ticks; the parser's
files have up to `MaxLines` lines), `MaxLate` and `MaxCalls` (streams begun); each is a guard on what the
environment does, never on what the code does, except that a `Closed` event
raised at the bound is merged with a pending one, and that `MaxLate` also limits how late a loop of the code
runs. `Horizon` bounds the clock: there it stands still and what it is compared with
moves back instead, so nothing is lost but the count of intervals. `MaxRetry` is the code's own
`_maxRertryConnect`.

Deadlock is checked in every run. A specification that reaches its end has an
explicit last step (`Quiet`, `Finished`, `Exited`, `Over`), so a deadlock would be
a state in which someone waits for ever.

### What the properties say
* `Conservation`: permits held plus permits free are what the ramp handed out;
  `NoSpuriousRelease`: nobody releases what is not owed. `ImplementsPool`:
  each item once, at most `Max` in flight.
* `OneStarter`: the lock is held exactly while one `StartAsync` is in flight.
  `AbandonedUntilDown`: once the adapter has given up a connection that is up,
  no start brings it back before it goes down. `LockReleased`: the lock is
  always given back.
* `NoOrphan`: an adapter that `Reconnect` replaced is disposed, whatever start,
  stop or event was in flight on it. `RepairedIsJoined`: between the setup of
  the repairer and the leaving of groups, a connection that is up, Active and
  not being worked on is in its group. This is not obvious: a start that finds the lock
  taken returns as if it had succeeded, and a connection may drop between its
  start and its join; a failed join marks it Stopped, so the next scan takes it.
  `CleansUp`: after the stop steps the repairer is gone and everything opened
  stays disposed, even though `StoppedStaysStopped` fails in between.
* `PaceBounds` has an upper and a lower part. `StartsBounded`: in the first k intervals no more
  connections are asked to start than the mode's capacity, ramp and refills allow, however late a timer
  was. This allowance is what the code keeps to, and more than what was configured: it has the
  whole bucket and one refill more in ExtLimitRatePress, the ramp in LimitRatePress, a first batch in LowPress,
  and one connection per interval (10 per second) where fewer were configured. `BucketAtOnce`: once
  ExtLimitRatePress has started a connection, it has started `concurrentConnection` of them or may start the
  rest at once. `EndsAfterItems`: a paced step never ends
  before it asked every connection to start, and, unless LowPress gave up, before
  every start has ended, although the bucket's disposal may fail. `EveryItemEnds`: no
  connection waits for ever, although permits are lost between the read and the reset of `_releasedCount`.
* `WholeOrFailed`: items are read in order, each once, and a stream that ended without an error had
  all of them. `StampedInTime`: a latency is taken from the item's own timestamp or
  a later one, never an earlier. `EveryStreamEnds`: the reader returns even if its
  token never fires.
* `EveryParameterFound`: no generated pipeline has a step that asks for a parameter
  nothing wrote, but for ids whose collection was given up. `IdsAreFresh`: a
  `SendToClient` step uses ids collected after the last start, unless the repairer is
  at work or a collection was given up. `StepsGrow`: the numbers of senders
  are base, base + step, ... as far as connections or `SendingSteps` go; so their number is at most
  `Connections / BaseSending` when `Step` is `BaseSending` or more, and at least that (but for a limit
  by `SendingSteps`) when it is `BaseSending` or less.
* `InOrder`, `NoneLeftBehind`, `SameContext`: no agent executes a step beside
  an earlier one that had to succeed; a query is sent only when all agents
  reported success before; what an agent executes has the context of all of it,
  even if the agent was restarted. `Terminates`: the master ends.
* `Dealt`, `Balanced`, `SendsToOwnGroup`, `LeavesWhatItJoined`: see the module.
* `LinesInOrder`: epochs never decrease along the file. `NoStaleCounts`: only the
  first line of an epoch may hold counts of an earlier one, though agents reset and raise their
  epochs at different times and queries read across both. `ReportsEachEpochOnce`: on
  files that start before the first sending step and end with three lines of the
  last, each epoch is reported once, from its first line to its last.

### Disagreements met
Each of these is an entry of `findings`. The first five are runs that TLC finds violated.
1. `agent_stop`: `StopConnection` cancels the repairer but does not wait for it; the
   repair in progress starts a connection that was just stopped. It stays up until
   `DisposeConnection`.
2. `agent_strict`: in the strict pipeline `Reconnect` comes between two sending
   steps and nothing joins the group again.
3. `agent_longrun`: a send that times out marks its connection Stopped while the
   client is up. Every later `StartAsync` throws, because the client is not
   stopped first: the connection sends nothing until it happens to drop.
4. `pipeline_order`: `CollectConnectionId` gives up after its timeout, quietly, and the
   next step runs beside it.
5. `groups_leave`: an agent that has fewer connections than there are groups
   leaves by local index, though `JoinGroup` joined by global index. In the
   same region the repairer joins by local index when there are fewer connections
   than groups; `SendsToOwnGroup` excludes exactly those connections.

The last two are no counterexamples: here a comment or a help text says one thing, a property of a
passing run states what the code does instead, and the theorem named proves it for all constants.

6. `batch_process`, `BucketAtOnce` (`NeverFaster`): the comment on `FixedIntervalRefillStrategy` says that
  it "will never allow more than N tokens to be consumed during a window of time T".
  `_nextRefillTime` starts at -1, so the first refill makes up for all intervals since the epoch and fills the
  bucket: `concurrentConnection` connections start at once, where N is a tenth of that.
7. `pipeline`, `StepsGrow` (`SendersGrow`): the help text of `SignalRBenchmarkPlugin` says of `sendingSteps` "maximum
  value is 'Connections / BaseSending'", and that 0 "means getting from" it. The code makes
  `(Connections - BaseSending) / Step + 1` steps. The two agree when `Step` is `BaseSending`; 4
  connections with base 1 and step 2 make 2 steps and not 4, with base 2 and step 1 they make 3 and not 2.

## 4. Fairness

* `BatchProcess`: weak fairness of each item's acquire and finish and of the
  ramp: the thread pool runs ready continuations and timers fire. Callbacks end:
  the starts used with this runner carry a 3 s cancellation.
* `PacedBatch` (`PacedFairness`): weak fairness of every timer, loop and task and of the clock, and
  callbacks end, for the same reasons. A task spinning in `Consume` blocks a thread of the pool; that it
  gets to try again after the clock has moved is what the pool's threads give.
  `BatchConnect` has the fairness of both its parts, of the paced step once it has begun.
* `HubConnection`: only the end of a started start (`StartThrows`, by its 3 s token;
  `StartReturns`). Nothing is assumed about stops, sends or drops.
* `StreamingEcho` (`StreamFairness`): weak fairness of the writer, the reader, the upload and the hub;
  strong fairness of `StreamAsChannelAsync`, which waits for the client's connection lock behind
  any number of starts: the lock is handed out in turn. The cancellation token
  of the call is not assumed to fire, nor is any fault.
* `AgentConnections`: weak fairness of tasks, of `Closed` delivery, of the
  beginning and end of steps and of the repairer's loop. Strong fairness of what waits for the
  client's own lock, because the repairer may take and give back that lock for
  ever; the lock queues its waiters and the repairer sleeps a second between
  scans. No fault and no new send is owed.
* `Pipeline`: the master's own steps, and an answer to each call, by the agent or, if
  its process is dead, by the channel. No timeout and no restart is owed. The calls
  carry no deadline in the code (`RpcClient.Query`), so a partition that hides a
  dead agent would block the master; that is excluded here and listed as a hazard.
* `ConfiguredPipeline` (`ParseSpec`): as for `Pipeline`, and a generated pipeline is written
  and walked on.
* `GroupAssignment` and `Statistics` have no liveness property and no fairness.

## 5. The proofs

All theorems are for every value of the constants that satisfies the named
assumptions (`BatchAssumption`, `HubAssumption`, `AgentAssumption`,
`PipelineAssumption`, `PacedAssumption`, `ConfigAssumption`, `StreamAssumption`,
`GroupAssumption`, `StatisticsAssumption`): any number of items, connections, callers, agents, groups and streams, any
pipeline, any capacity, interval and lateness, any configuration, any number of ticks and lines. The
one further hypothesis is that of `RepairsKeepGroups`, below.

* `BatchProcess_proof`. `IInv` is `TypeOK /\ Conservation /\ NoSpuriousRelease`. It
  takes all three: a release stays below the maximum because `Conservation` bounds
  the permits by `ramp`, and the types bound `ramp` by `Max`; in turn `Conservation`
  survives a release because the release does not overflow. The cardinality of the running
  set is handled by the lemmas `AcquireCount` and `FinishCount`. `Implementation`
  is the refinement of `BoundedPool`.
* `AgentConnections_proof`, of the adapter. `HubTypeOK /\ OneStarter` is inductive.
  `AbandonedHolds` is an action property: each action is shown to keep `Abandoned` or to take the
  connection down; `OneStarter` excludes the start that was already connected.
* `AgentConnections_proof`, of the agent. `AgentImplementsHub`: each step of an agent is a step of
  `HubNext` or leaves the adapters alone, so the hub theorems carry over
  (`AgentOneStarter`). Type correctness needs `PhaseMatches` (the phase agrees with
  the step) because `pos` must not run past the program's end. `ReconnectLeaksNothing` needs `Replacing`: what
  `torn` and `work` say of the adapters at each phase of a Reconnect, together with
  `GoneIsForever` (a disposed client is never revived by an operation in flight).
  `RepairsKeepGroups` needs more than `RepairedIsJoined` says. Its `InGroup` starts before there is a repairer:
  from the last Join of the pipeline on, a connection that is up is in its group unless the repairer has
  just started it and has yet to join it; during that Join it holds for the connections already taken up. `BatchIdle` (a
  batch has nothing to do outside its step) makes sure that only the repairer can
  start a connection then. The theorem is about pipelines in which a Join with no Start or Reconnect after it
  precedes the repairer (`JoinsBeforeRepair`): that the generator writes no other for a group scenario is
  `GroupsJoinBeforeRepair` of `Configuration_proof`. (In strict perf, where a Reconnect follows the Join (finding 2), there
  is no repairer, so that both say nothing.) The pipeline of `agent_early` is not of this form.
* `Pipeline_proof`. `Inv` says what each position of the loop knows about tasks, queries and
  contexts (an answered sub-step has answered queries; later sub-steps have not
  been sent; an executing agent has the context of all strict sub-steps before).
  The three safety properties follow from it by `InvImplies`.
* `PacedBatch_proof`. `IInv` is `PacedTypeOK /\ BatchLoop /\ RefillLoop /\ EndsAfterItems`:
  `BatchLoop` says how `begun`, `left` and the size of the batch fit at each position of the
  LowPress loop, which is why `EndsAfterItems` is preserved; `RefillLoop` bounds what the
  refill has decided to release. `NeverFaster` needs `Pace` besides: some number k of
  refills accounts for what has begun, for the free permits and for those about to be released (`LimitPace`), and the refill time, which
  has moved on by k intervals, is less than an interval ahead of the clock. The bucket that a first refill
  fills at once has its own case (`Untouched`, `ExternalPace`), and is why an own small invariant, `Burst`, holds
  (`FirstRefill`, `StepBurst`): once a refill was made, what has begun and what is left make up the bucket. LowPress counts its delays (`BatchPace`).
  One lemma per mode carries it through a step; `PaceAllows` turns k into an allowance.
* `Configuration_proof`. `IInv` is `ConfigTypeOK` and four parts: `Loop` (what the loop over the sending steps
  may rely on, so that the last `RemainderEnd` is at most the number of connections, by `Quotient`, `Monotone` and `WithinConnections`),
  `Shape` (the program begins with the steps that write the parameters, and before
  each sending step the ids were collected and nothing started connections since, or the repairer is set up), `Behind` (the
  steps behind the walk have left their keys) and `Fresh` (with the last collection behind the walk
  and no start after it, the ids are not stale). The shape is carried through appending by
  `Appended`, `PreparationShape` and `BetweenShape`. `SendersGrow` has an invariant of its own, `Written`:
  a function gives the place in the program of the sending step of each turn, in order and with nothing left out
  (`SendsExtended` adds a turn, `SendsKept` the steps that do not send), and when the loop is over it has taken
  `Turns` turns. `Grow` reads the property off the function, whose bijection with the
  sending steps counts them; that a further step would exceed the connections is the upper bound of the quotient (`TurnsExhaust`),
  and the comparison with the help text is one of two quotients (`HelpTextAgrees`). `GroupsJoinBeforeRepair` needs that everything added after
  the preparation of perf neither starts connections nor sets up a repairer (`Additions`).
* `StreamingEcho_proof`. `IInv` is `Writers`, `Reader` and `InPlace`. `Writers` orders the counts of each
  stream (counted, written, stamped). `InPlace` says that `received`, `down` and `up`, one after the
  other, are the items uploaded so far: the message at place p is item p, stamped no earlier
  than it was written, and an end comes last and, if it is not an error, in place `Count + 1`. The
  place of a message does not change when the hub relays it or the reader takes it, which is what each of
  the steps has to show; the three theorems read their property off `received` and `Reader`.
* `GroupAssignment_proof`. `RangeBeginIsSum`: the loop of `GetConnectionRange` sums up to a
  closed form, by descent from a least agent for which it does not (`LeastNat`, from the library's `WFMin`);
  with it `InitDealing` shows that the shares meet end to end and cover the shuffled indexes. `IInv`
  is `Dealing`, `Types`, `Drops` (who can be down or join again, and into which group), `Joined` (what the
  passes of the join loop have covered so far, and what the repairer has made good) and `Leaving`
  (undropped connections are in no other group than the one they leave, and until they have left it
  the call is on its way). `Drops` is needed by the others: in the join phase nothing is repaired, so a
  connection that the loop finds down has dropped and nothing is claimed of it. `JoinTargets` compares
  the passes with `%`. `GroupsAreBalanced` needs exact memberships instead of bounds: as long as nothing has
  dropped, `Exactly` says that a connection is in the groups its passes have covered and in no other. What is
  left is to count the numbers below n with a given residue, which `Residues` does by a bijection, and to
  split on whether there are more connections than groups.
* `Statistics_proof`. `IInv` is six parts. `Working`: the agents take a sending step together, and a counter
  holds what was counted since its last reset. `Answering`: a query has read no epoch beyond its agent's.
  `Ticking`: without overlap all ticks but the last are over. `Advancing`: no agent is behind the last line of
  the file, and, without overlap, neither is anything a query has read since that line was saved; this is what makes
  the next line's epoch, the least of the answers, no smaller. `LinesInOrder` and `NoStaleCounts`
  are conjuncts themselves, since a new line is compared with the last. `EpochsReportedOnce` is about the parser on files of any
  length: `ReadingIsParsed` gives the fold over the lines a closed form (what has been reported, and from which line the
  current epoch runs), by descent from a least line at which it fails (`LeastNat`); on a regular file epochs never go back
  (`NeverBack`), so the closed form names every epoch once.

Assumed and not proved: the fairness above, and the model of the client library
(`hub`, `closed`). Only model-checked: the liveness properties (`AllProcessed`,
`LockReleased`, `CleansUp`, `Terminates`, `EveryItemEnds`, `EveryStreamEnds`), which the prover's temporal backend does not
handle since they need ENABLED. Every invariant and action property that a passing run checks is proved. Some
definitions are written so that they can be: the library's `SelectSeq` and folds take an operator as a parameter,
which the provers cannot instantiate, so `StepsGrow` speaks of the places of the sending steps, and the parser
is a recursive function on the lines.

## 6. Not modelled, and why

The retrying `BatchProcess<T, TOut>` has no caller. Collecting connection ids is modelled as far as
the pipeline goes; the list itself, and who sends to whom, are not, since nothing in the repository
says what an empty id in it should do. `FrequentJoinLeaveGroup` cannot be reached from a simple configuration. The REST scenarios share the
sending loop and differ in HTTP calls. The AspNet adapter is the same code
around another client. The internal servers are ASP.NET hosting but for the streaming
hub method; the tools are SSH and Azure management calls, the rest is command line parsing and scripts.
The JavaScript in the repository is third-party libraries of the servers' and tools' web pages and a
sample page, and none of it is part of a benchmark run.
Timestamps of connections, latency histograms and message payloads are data that no property here tells apart. A
second run of the master against the same agents (it replaces the plugin and
orphans the connections) is listed as a hazard.

## 7. Plan

1. HubConnection, AgentConnections: done, proved.
2. BatchProcess over BoundedPool; PacedBatch with the token buckets: done, proved.
3. Pipeline; Configuration: done, proved.
4. GroupAssignment: done, proved.
5. Statistics: done, proved. To be added: the counts of connections and their lock, with the
   reconnect counter.
6. StreamingEcho: done, proved.
7. To be proved: that a walk through a generated pipeline is one of Pipeline's.
