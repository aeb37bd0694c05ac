-------------------------- MODULE AgentConnections --------------------------
(***************************************************************************)
(* The connections of one agent: the methods of AgentMethods/ that create, *)
(* start, reconnect, repair, stop and dispose them, run one after the      *)
(* other as the master sends the steps of the pipeline, with the connection*)
(* repairer of RepairConnections running beside them.  The adapters are    *)
(* those of HubConnection.  A batch (Util.BatchProcess, see BatchProcess)  *)
(* may begin its items in any order and run them together.                 *)
(***************************************************************************)
EXTENDS HubConnection, FiniteSets, Sequences

CONSTANTS
  Slot,         (* the agent's connection list; its first adapter at an    *)
                (* index bears the name of the index                       *)
  Program,      (* the steps the master sends, in order                    *)
  RepairAction, (* ActionAfterConnect: "None" or "JoinToGroup"             *)
  MaxFaults     (* bound: drops, failed starts and timed-out sends         *)

\* Who starts connections: StartConnection and Reconnect, or the repairer.
Batch == "batch"
Repairer == "repairer"

StepNames == {"Start", "Reconnect", "Join", "Repair", "Send", "Leave", "Stop",
              "Dispose"}

ASSUME AgentAssumption ==
  /\ Caller = {Batch, Repairer}
  /\ Slot \subseteq Conn
  /\ Program \in Seq(StepNames)
  /\ \A i, j \in DOMAIN Program :
       Program[i] = "Repair" /\ Program[j] = "Repair" => i = j
  /\ RepairAction \in {"None", "JoinToGroup"}
  /\ MaxFaults \in Nat

VARIABLES
  store,      (* ConnectionStore: the adapter at each index                *)
  fresh,      (* adapters not created yet                                  *)
  pos,        (* the step being run, or the next one to arrive             *)
  phase,      (* how far that step is                                      *)
  todo,       (* per caller, the packages whose task has not begun         *)
  work,       (* the adapters the current step still has to handle         *)
  torn,       (* adapters destroyed by this Reconnect, to be replaced      *)
  rejoin,     (* repaired connections that are about to join their group   *)
  joined,     (* adapters that are in their group at the service           *)
  rep,        (* the repairer: not running, scanning, or repairing         *)
  cancelled,  (* the repairer's CancellationTokenSource is cancelled       *)
  faults      (* faults so far, up to MaxFaults                            *)

agentVars == <<store, fresh, pos, phase, todo, work, torn, rejoin, joined,
               rep, cancelled, faults>>
vars == <<hubVars, agentVars>>

Live == {store[i] : i \in Slot}
InStat(S, C) == {c \in C : stat[c] \in S}
Joins == RepairAction = "JoinToGroup"

Current == IF pos \in DOMAIN Program THEN Program[pos] ELSE "end"
Arrives(name) == phase = "idle" /\ Current = name
Running(name) == phase = "run" /\ Current = name
Done == Current = "end"

\* No task of caller k is left: its WhenAll has completed.
Quiescent(k) == todo[k] = {} /\ \A c \in Conn : call[c][k] = "none"

Advance == pos' = pos + 1 /\ phase' = "idle"

\* One more fault happens, within the bound.
Fault == faults < MaxFaults /\ faults' = faults + 1

Init ==
  /\ HubInit
  /\ store = [i \in Slot |-> i]
  /\ fresh = Conn \ Slot
  /\ pos = 1
  /\ phase = "idle"
  /\ todo = [k \in Caller |-> {}]
  /\ work = {}
  /\ torn = {}
  /\ rejoin = {}
  /\ joined = {}
  /\ rep = "off"
  /\ cancelled = FALSE
  /\ faults = 0

-----------------------------------------------------------------------------
(* The tasks of a batch: StartConnect and TakeActionAfterStartingConnect.  *)

\* GetStat() is Active: return at once.
TaskSkips(k, c) ==
  /\ c \in todo[k]
  /\ stat[c] = "Active"
  /\ todo' = [todo EXCEPT ![k] = @ \ {c}]
  /\ UNCHANGED <<hubVars, store, fresh, pos, phase, work, torn, rejoin, joined,
                 rep, cancelled, faults>>

\* StartAsync finds the lock taken and returns as if it had succeeded.
TaskFindsLock(k, c) ==
  /\ c \in todo[k]
  /\ stat[c] # "Active"
  /\ c \in lock
  /\ todo' = [todo EXCEPT ![k] = @ \ {c}]
  /\ rejoin' = IF k = Repairer /\ Joins THEN rejoin \cup {c} ELSE rejoin
  /\ UNCHANGED <<hubVars, store, fresh, pos, phase, work, torn, joined,
                 rep, cancelled, faults>>

(* A mutated form of TaskEnters: the lock is not tried. *)
TaskEntersUnlocked(k, c) ==
  /\ c \in todo[k]
  /\ stat[c] # "Active"
  /\ lock' = lock \cup {c}
  /\ call' = [call EXCEPT ![c][k] = "connecting"]
  /\ todo' = [todo EXCEPT ![k] = @ \ {c}]
  /\ UNCHANGED <<stat, op, sending, hub, closed>>
  /\ UNCHANGED <<store, fresh, pos, phase, work, torn, rejoin, joined,
                 rep, cancelled, faults>>

\* StartAsync takes the lock.
TaskEnters(k, c) ==
  /\ c \in todo[k]
  /\ stat[c] # "Active"
  /\ StartEnter(c, k)
  /\ todo' = [todo EXCEPT ![k] = @ \ {c}]
  /\ UNCHANGED <<store, fresh, pos, phase, work, torn, rejoin, joined,
                 rep, cancelled, faults>>

TaskConnects(k, c) ==
  /\ StartConnects(c, k)
  /\ UNCHANGED agentVars

\* The client refuses to start a hub that is not off; otherwise it is a fault.
TaskThrows(k, c) ==
  /\ StartThrows(c, k)
  /\ IF hub[c] = "off" THEN Fault ELSE UNCHANGED faults
  /\ UNCHANGED <<store, fresh, pos, phase, todo, work, torn, rejoin, joined,
                 rep, cancelled>>

(* A mutated form of TaskReturns: the action after connect is forgotten. *)
TaskReturnsOnly(k, c) ==
  /\ StartReturns(c, k)
  /\ UNCHANGED agentVars

\* StartAsync returns; the repairer's task goes on to join the group.
TaskReturns(k, c) ==
  /\ StartReturns(c, k)
  /\ rejoin' = IF k = Repairer /\ Joins THEN rejoin \cup {c} ELSE rejoin
  /\ UNCHANGED <<store, fresh, pos, phase, todo, work, torn, joined,
                 rep, cancelled, faults>>

\* SignalRUtils.JoinToGroup: SendAsync waits for a start in progress; if it
\* throws, the failure is only counted.
JoinToGroup(c) ==
  \/ /\ ~Connecting(c)
     /\ hub[c] = "on"
     /\ joined' = joined \cup {c}
     /\ UNCHANGED hubVars
  \/ /\ SendFails(c)
     /\ UNCHANGED joined

Rejoin(c) ==
  /\ c \in rejoin
  /\ JoinToGroup(c)
  /\ rejoin' = rejoin \ {c}
  /\ UNCHANGED <<store, fresh, pos, phase, todo, work, torn, rep, cancelled, faults>>

Task(k, c) ==
  \/ TaskSkips(k, c)
  \/ TaskFindsLock(k, c)
  \/ TaskEnters(k, c)
  \/ TaskConnects(k, c)
  \/ TaskThrows(k, c)
  \/ TaskReturns(k, c)

-----------------------------------------------------------------------------
(* The steps.                                                              *)

\* StartConnection: BatchConnect takes the connections that are Init.
StartConnection ==
  /\ Arrives("Start")
  /\ todo' = [todo EXCEPT ![Batch] = InStat({"Init"}, Live)]
  /\ phase' = "run"
  /\ UNCHANGED <<hubVars, store, fresh, pos, work, torn, rejoin, joined,
                 rep, cancelled, faults>>

BatchDone ==
  /\ Running("Start") \/ Running("Reconnect")
  /\ Quiescent(Batch)
  /\ Advance
  /\ UNCHANGED <<hubVars, store, fresh, todo, work, torn, rejoin, joined,
                 rep, cancelled, faults>>

\* Reconnect looks only at the connections that are Stopped.
Reconnect ==
  /\ Arrives("Reconnect")
  /\ work' = InStat({"Stopped"}, Live)
  /\ phase' = "stop"
  /\ UNCHANGED <<hubVars, store, fresh, pos, todo, torn, rejoin, joined,
                 rep, cancelled, faults>>

\* foreach package: await StopAsync, then await DisposeAsync.
DestroyStops(c) ==
  /\ phase = "stop" /\ c \in work
  /\ \A d \in work : op[d] = "none"
  /\ StopEnter(c)
  /\ UNCHANGED agentVars

DestroyStopped(c) ==
  /\ phase = "stop" /\ c \in work
  /\ StopReturns(c)
  /\ torn' = torn \cup {c}
  /\ joined' = joined \ {c}
  /\ phase' = "dispose"
  /\ UNCHANGED <<store, fresh, pos, todo, work, rejoin, rep, cancelled, faults>>

DestroyDisposes(c) ==
  /\ phase = "dispose" /\ c \in work \cap torn
  /\ DisposeEnter(c)
  /\ UNCHANGED agentVars

DestroyDisposed(c) ==
  /\ phase = "dispose" /\ c \in work \cap torn
  /\ DisposeReturns(c)
  /\ joined' = joined \ {c}
  /\ work' = work \ {c}
  /\ phase' = "stop"
  /\ UNCHANGED <<store, fresh, pos, todo, torn, rejoin, rep, cancelled, faults>>

\* New adapters take the places of the destroyed ones, and BatchConnect
\* starts whatever is Init now; with nothing destroyed the step is over.
Recreate ==
  /\ phase = "stop" /\ work = {}
  /\ \/ /\ torn = {}
        /\ Advance
        /\ UNCHANGED <<store, fresh, todo, torn>>
     \/ /\ torn # {}
        /\ \E new \in [torn -> fresh] :
             /\ \A c, d \in torn : new[c] = new[d] => c = d
             /\ store' = [i \in Slot |-> IF store[i] \in torn THEN new[store[i]]
                                                              ELSE store[i]]
             /\ fresh' = fresh \ {new[c] : c \in torn}
        /\ todo' = [todo EXCEPT ![Batch] =
                      {store'[i] : i \in {j \in Slot : stat[store'[j]] = "Init"}}]
        /\ torn' = {}
        /\ phase' = "run"
        /\ UNCHANGED pos
  /\ UNCHANGED <<hubVars, work, rejoin, joined, rep, cancelled, faults>>

\* JoinGroup: one connection after the other joins, whatever its state.
JoinGroup ==
  /\ Arrives("Join")
  /\ work' = Live
  /\ phase' = "run"
  /\ UNCHANGED <<hubVars, store, fresh, pos, todo, torn, rejoin, joined,
                 rep, cancelled, faults>>

JoinsOne(c) ==
  /\ Running("Join") /\ c \in work
  /\ JoinToGroup(c)
  /\ work' = work \ {c}
  /\ UNCHANGED <<store, fresh, pos, phase, todo, torn, rejoin, rep, cancelled, faults>>

\* LeaveGroup: all connections leave at once, whatever their state.
LeaveGroup ==
  /\ Arrives("Leave")
  /\ work' = Live
  /\ phase' = "run"
  /\ UNCHANGED <<hubVars, store, fresh, pos, todo, torn, rejoin, joined,
                 rep, cancelled, faults>>

LeavesOne(c) ==
  /\ Running("Leave") /\ c \in work
  /\ \/ /\ ~Connecting(c)
        /\ hub[c] = "on"
        /\ joined' = joined \ {c}
        /\ UNCHANGED hubVars
     \/ /\ SendFails(c)
        /\ UNCHANGED joined
  /\ work' = work \ {c}
  /\ UNCHANGED <<store, fresh, pos, phase, todo, torn, rejoin, rep, cancelled, faults>>

\* RepairConnections returns at once and leaves the repairer running.
RepairConnections ==
  /\ Arrives("Repair")
  /\ rep' = "scan"
  /\ cancelled' = FALSE
  /\ Advance
  /\ UNCHANGED <<hubVars, store, fresh, todo, work, torn, rejoin, joined, faults>>

\* while (!cts.IsCancellationRequested): take all that is not Active.
RepairScans ==
  /\ rep = "scan"
  /\ ~cancelled
  /\ InStat(Stat \ {"Active"}, Live) # {}
  /\ todo' = [todo EXCEPT ![Repairer] = InStat(Stat \ {"Active"}, Live)]
  /\ rep' = "repair"
  /\ UNCHANGED <<hubVars, store, fresh, pos, phase, work, torn, rejoin, joined,
                 cancelled, faults>>

RepairEnds ==
  /\ rep = "repair"
  /\ Quiescent(Repairer)
  /\ rejoin = {}
  /\ rep' = "scan"
  /\ UNCHANGED <<hubVars, store, fresh, pos, phase, todo, work, torn, rejoin,
                 joined, cancelled, faults>>

RepairExits ==
  /\ rep = "scan"
  /\ cancelled
  /\ rep' = "off"
  /\ UNCHANGED <<hubVars, store, fresh, pos, phase, todo, work, torn, rejoin,
                 joined, cancelled, faults>>

\* A sending step: any number of sends on any of the connections.
SendStep ==
  /\ Arrives("Send")
  /\ phase' = "run"
  /\ UNCHANGED <<hubVars, store, fresh, pos, todo, work, torn, rejoin, joined,
                 rep, cancelled, faults>>

Sends(c) ==
  /\ Running("Send") /\ c \in Live
  /\ SendEnter(c)
  /\ UNCHANGED agentVars

SendEnds(c) ==
  /\ \/ SendReturns(c) /\ UNCHANGED faults
     \/ /\ SendThrows(c)
        /\ IF hub[c] = "on" THEN Fault ELSE UNCHANGED faults
  /\ UNCHANGED <<store, fresh, pos, phase, todo, work, torn, rejoin, joined,
                 rep, cancelled>>

\* The duration is over: no connection begins another send.
SendTimeIsUp ==
  /\ Running("Send")
  /\ phase' = "drain"
  /\ UNCHANGED <<hubVars, store, fresh, pos, todo, work, torn, rejoin, joined,
                 rep, cancelled, faults>>

SendDone ==
  /\ phase = "drain"
  /\ sending = {}
  /\ Advance
  /\ UNCHANGED <<hubVars, store, fresh, todo, work, torn, rejoin, joined,
                 rep, cancelled, faults>>

(* A mutated form of StopConnection: the repairer is not cancelled. *)
StopConnectionOnly ==
  /\ Arrives("Stop")
  /\ work' = Live
  /\ phase' = "run"
  /\ UNCHANGED <<hubVars, store, fresh, pos, todo, torn, rejoin, joined,
                 rep, cancelled, faults>>

\* StopConnection cancels the repairer, then stops all connections at once.
StopConnection ==
  /\ Arrives("Stop")
  /\ cancelled' = TRUE
  /\ work' = Live
  /\ phase' = "run"
  /\ UNCHANGED <<hubVars, store, fresh, pos, todo, torn, rejoin, joined,
                 rep, faults>>

StopsOne(c) ==
  /\ Running("Stop") /\ c \in work
  /\ StopEnter(c)
  /\ UNCHANGED agentVars

StoppedOne(c) ==
  /\ Running("Stop") /\ c \in work
  /\ StopReturns(c)
  /\ work' = work \ {c}
  /\ joined' = joined \ {c}
  /\ UNCHANGED <<store, fresh, pos, phase, todo, torn, rejoin, rep, cancelled, faults>>

\* DisposeConnection disposes all connections at once.
DisposeConnection ==
  /\ Arrives("Dispose")
  /\ work' = Live
  /\ phase' = "run"
  /\ UNCHANGED <<hubVars, store, fresh, pos, todo, torn, rejoin, joined,
                 rep, cancelled, faults>>

DisposesOne(c) ==
  /\ Running("Dispose") /\ c \in work
  /\ DisposeEnter(c)
  /\ UNCHANGED agentVars

DisposedOne(c) ==
  /\ Running("Dispose") /\ c \in work
  /\ DisposeReturns(c)
  /\ work' = work \ {c}
  /\ joined' = joined \ {c}
  /\ UNCHANGED <<store, fresh, pos, phase, todo, torn, rejoin, rep, cancelled, faults>>

\* The steps that treat each connection once end with their last task.
WorkDone ==
  /\ \E name \in {"Join", "Leave", "Stop", "Dispose"} : Running(name)
  /\ work = {}
  /\ Advance
  /\ UNCHANGED <<hubVars, store, fresh, todo, work, torn, rejoin, joined,
                 rep, cancelled, faults>>

-----------------------------------------------------------------------------
(* The network.                                                            *)

Drops(c) ==
  /\ Drop(c)
  /\ Fault
  /\ joined' = joined \ {c}
  /\ UNCHANGED <<store, fresh, pos, phase, todo, work, torn, rejoin,
                 rep, cancelled>>

ClosedArrives(c) ==
  /\ OnClosed(c)
  /\ UNCHANGED agentVars

-----------------------------------------------------------------------------
Destroy(c) ==
  \/ DestroyStops(c)
  \/ DestroyStopped(c)
  \/ DestroyDisposes(c)
  \/ DestroyDisposed(c)

TearDown(c) == StopsOne(c) \/ StoppedOne(c) \/ DisposesOne(c) \/ DisposedOne(c)

StepBegins ==
  \/ StartConnection
  \/ Reconnect
  \/ JoinGroup
  \/ LeaveGroup
  \/ RepairConnections
  \/ SendStep
  \/ StopConnection
  \/ DisposeConnection

StepEnds == BatchDone \/ SendTimeIsUp \/ SendDone \/ WorkDone \/ Recreate

Repair == RepairScans \/ RepairEnds \/ RepairExits

\* The pipeline is over: the agent waits for the next one.
Finished == Done /\ UNCHANGED vars

Next ==
  \/ \E c \in Conn : \/ \E k \in Caller : Task(k, c)
                     \/ Rejoin(c)
                     \/ JoinsOne(c)
                     \/ LeavesOne(c)
                     \/ Destroy(c)
                     \/ TearDown(c)
                     \/ Sends(c)
                     \/ SendEnds(c)
                     \/ Drops(c)
                     \/ ClosedArrives(c)
  \/ StepBegins
  \/ StepEnds
  \/ Repair
  \/ Finished

\* What waits for the hub's own lock while a start holds it.
Waits(c) ==
  SendEnds(c) \/ JoinsOne(c) \/ LeavesOne(c) \/ Destroy(c) \/ TearDown(c)

\* The thread pool runs every task that is ready, the client library ends
\* what it was asked to do, the master sends its next step when one has
\* answered.  Fairness is strong where a repairer that keeps on starting a
\* connection takes and gives back the hub's lock: the waiters are queued, and
\* the repairer sleeps a second between two scans.  New sends and faults are
\* never owed.
Fairness ==
  /\ \A c \in Conn :
       /\ \A k \in Caller : WF_vars(Task(k, c))
       /\ WF_vars(Rejoin(c))
       /\ WF_vars(ClosedArrives(c))
  /\ SF_vars(\E c \in Conn : Waits(c))
  /\ WF_vars(StepBegins)
  /\ WF_vars(StepEnds)
  /\ WF_vars(Repair)

Spec == Init /\ [][Next]_vars /\ Fairness

-----------------------------------------------------------------------------
AgentTypeOK ==
  /\ HubTypeOK
  /\ store \in [Slot -> Conn]
  /\ fresh \in SUBSET Conn
  /\ pos \in 1..(Len(Program) + 1)
  /\ phase \in {"idle", "run", "drain", "stop", "dispose"}
  /\ todo \in [Caller -> SUBSET Conn]
  /\ work \in SUBSET Conn
  /\ torn \in SUBSET Conn
  /\ rejoin \in SUBSET Conn
  /\ joined \in SUBSET Conn
  /\ rep \in {"off", "scan", "repair"}
  /\ cancelled \in BOOLEAN
  /\ faults \in 0..MaxFaults

\* The composition lets the adapters do only what HubConnection allows.
ImplementsHub == HubInit /\ [][HubNext]_hubVars

\* RecreateBrokenConnections: an adapter that was replaced is disposed, so
\* Reconnect leaks no connection, whatever else was using that adapter.
NoOrphan == \A c \in Conn : c \notin Live \cup fresh => hub[c] = "gone"

\* No task of the repairer is about to touch c.
Settled(c) ==
  /\ c \notin todo[Repairer] \cup rejoin
  /\ \A k \in Caller : call[c][k] = "none"

\* The LeaveGroup step, if the pipeline has one, has not arrived.
BeforeLeave == \A i \in DOMAIN Program : Program[i] = "Leave" => pos < i

\* ActionAfterConnect = JoinToGroup: from the moment the repairer is set up
\* until the groups are left, each connection that is up and Active is in its
\* group unless a task is still at work on it: repairs keep the membership.
RepairedIsJoined ==
  rep # "off" /\ Joins /\ BeforeLeave =>
    \A c \in Live : stat[c] = "Active" /\ hub[c] = "on" /\ Settled(c) => c \in joined

\* A pipeline that runs through its stop steps leaves nothing behind: the
\* repairer is gone and every connection ever opened is disposed for good.
CleansUp == <>[](Done /\ rep = "off" /\ \A c \in Conn \ fresh : hub[c] = "gone")

-----------------------------------------------------------------------------
(* What comments and documents say, and the code does not do.              *)

\* StopConnection.cs: "Stop the possible scanner", then "Stop connections".
StoppedStaysStopped ==
  Arrives("Dispose") => \A c \in Live : hub[c] # "on"

\* doc/details.md: "the clients will try to reconnect to Service to ensure
\* the stress keeps the same in every process".
SameStressInEveryStep ==
  Joins /\ Arrives("Send") =>
    \A c \in Live : stat[c] = "Active" /\ hub[c] = "on" => c \in joined

\* BenchmarkConfiguration.cs: "setup backgroud task of repairing connections
\* for longrun".
RepairConverges == <>[](\A c \in Live : stat[c] = "Active" /\ hub[c] = "on")
=============================================================================
