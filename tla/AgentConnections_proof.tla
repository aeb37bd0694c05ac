----------------------- MODULE AgentConnections_proof -----------------------
(***************************************************************************)
(* Proofs about HubConnection, for any number of adapters and of callers   *)
(* of StartAsync, and about an agent's connections, for any number of      *)
(* them, any pipeline and any bound on the faults: the composition uses    *)
(* its adapters only through HubConnection's operations, Reconnect leaks   *)
(* none, and the repairer keeps the connections in their groups.           *)
(***************************************************************************)
EXTENDS AgentConnections, TLAPS

-----------------------------------------------------------------------------
(* The connection adapter.                                                 *)

(* The invariant: types, and _connectionLock held exactly by the one caller
   whose StartAsync is in flight.  Both parts are inductive together. *)
HubInv == HubTypeOK /\ OneStarter

\* Closed events are counted up to the bound, whichever way a hub goes down.
LEMMA GoDownTyped ==
  ASSUME HubTypeOK, NEW c \in Conn, NEW h \in {"off", "gone"}, GoDown(c, h)
  PROVE  /\ hub' \in [Conn -> {"off", "on", "gone"}]
         /\ closed' \in [Conn -> 0..MaxPending]
BY HubAssumption DEF HubTypeOK, GoDown

LEMMA HubInitInv == HubInit => HubInv
BY HubAssumption DEF HubInit, HubInv, HubTypeOK, OneStarter, Stat

(* The steps of StartAsync are the ones that move the lock. *)
LEMMA StartKeepsInv ==
  ASSUME HubInv, NEW c \in Conn, NEW k \in Caller,
         \/ StartEnter(c, k) \/ StartConnects(c, k)
         \/ StartThrows(c, k) \/ StartReturns(c, k)
  PROVE  HubInv'
<1> USE DEF HubInv, HubTypeOK, OneStarter
<1>1. CASE StartEnter(c, k)
  BY <1>1 DEF StartEnter
<1>2. CASE StartConnects(c, k)
  BY <1>2 DEF StartConnects
<1>3. CASE StartThrows(c, k)
  BY <1>3 DEF StartThrows, MarkAsStopped, Stat
<1>4. CASE StartReturns(c, k)
  BY <1>4 DEF StartReturns, Stat
<1> QED  BY <1>1, <1>2, <1>3, <1>4

(* No other operation touches the lock or a StartAsync in flight. *)
LEMMA OthersKeepInv ==
  ASSUME HubInv, NEW c \in Conn,
         \/ StopEnter(c) \/ StopReturns(c) \/ DisposeEnter(c)
         \/ DisposeReturns(c) \/ SendEnter(c) \/ SendReturns(c)
         \/ SendThrows(c) \/ SendFails(c) \/ Drop(c) \/ OnClosed(c)
  PROVE  HubInv'
<1> USE DEF HubInv
<1>1. OneStarter'
  <2>1. UNCHANGED <<lock, call>>
    BY DEF StopEnter, StopReturns, DisposeEnter, DisposeReturns, SendEnter,
           SendReturns, SendThrows, SendFails, Drop, OnClosed
  <2> QED  BY <2>1 DEF OneStarter
<1>2. HubTypeOK'
  <2>1. CASE StopEnter(c) \/ DisposeEnter(c)
    BY <2>1 DEF StopEnter, DisposeEnter, MarkAsStopped, HubTypeOK, Stat
  <2>2. CASE StopReturns(c)
    <3>1. hub' \in [Conn -> {"off", "on", "gone"}] /\ closed' \in [Conn -> 0..MaxPending]
      BY <2>2, GoDownTyped DEF StopReturns
    <3> QED  BY <2>2, <3>1 DEF StopReturns, HubTypeOK
  <2>3. CASE DisposeReturns(c)
    <3>1. hub' \in [Conn -> {"off", "on", "gone"}] /\ closed' \in [Conn -> 0..MaxPending]
      BY <2>3, GoDownTyped DEF DisposeReturns
    <3> QED  BY <2>3, <3>1 DEF DisposeReturns, HubTypeOK
  <2>4. CASE SendEnter(c) \/ SendReturns(c)
    BY <2>4 DEF SendEnter, SendReturns, HubTypeOK
  <2>5. CASE SendThrows(c) \/ SendFails(c)
    BY <2>5 DEF SendThrows, SendFails, MarkAsStopped, HubTypeOK, Stat
  <2>6. CASE Drop(c)
    <3>1. hub' \in [Conn -> {"off", "on", "gone"}] /\ closed' \in [Conn -> 0..MaxPending]
      BY <2>6, GoDownTyped DEF Drop
    <3> QED  BY <2>6, <3>1 DEF Drop, HubTypeOK
  <2>7. CASE OnClosed(c)
    <3>1. closed' \in [Conn -> 0..MaxPending]
      BY <2>7, HubAssumption DEF OnClosed, HubTypeOK
    <3> QED  BY <2>7, <3>1 DEF OnClosed, MarkAsStopped, HubTypeOK, Stat
  <2> QED  BY <2>1, <2>2, <2>3, <2>4, <2>5, <2>6, <2>7
<1> QED  BY <1>1, <1>2

LEMMA HubStepInv == HubInv /\ [HubNext]_hubVars => HubInv'
<1> SUFFICES ASSUME HubInv, [HubNext]_hubVars PROVE HubInv'
  OBVIOUS
<1>1. CASE HubNext
  BY <1>1, StartKeepsInv, OthersKeepInv DEF HubNext
<1>2. CASE UNCHANGED hubVars
  BY <1>2 DEF hubVars, HubInv, HubTypeOK, OneStarter
<1> QED  BY <1>1, <1>2

(* Type correctness of the adapters. *)
THEOREM HubTypeCorrect == HubSpec => []HubTypeOK
<1>1. HubInv => HubTypeOK
  BY DEF HubInv
<1> QED  BY HubInitInv, HubStepInv, <1>1, PTL DEF HubSpec

(* "avoid multiple try to reconnect": for any callers, at most one StartAsync
   of an adapter is in flight, and it is the one that holds the lock. *)
THEOREM OneStarterHolds == HubSpec => []OneStarter
<1>1. HubInv => OneStarter
  BY DEF HubInv
<1> QED  BY HubInitInv, HubStepInv, <1>1, PTL DEF HubSpec

(* A step of StartAsync by one caller cannot revive an abandoned adapter, nor
   can any other operation: only going down ends that state. *)
LEMMA AbandonedStep ==
  ASSUME HubInv, HubNext, NEW c \in Conn, Abandoned(c)
  PROVE  Abandoned(c)' \/ hub'[c] # "on"
<1> SUFFICES ASSUME hub'[c] = "on" PROVE Abandoned(c)'
  OBVIOUS
<1> USE DEF HubInv, HubTypeOK, Abandoned
<1>1. PICK d \in Conn :
        \/ \E k \in Caller : \/ StartEnter(d, k) \/ StartConnects(d, k)
                             \/ StartThrows(d, k) \/ StartReturns(d, k)
        \/ StopEnter(d) \/ StopReturns(d) \/ DisposeEnter(d)
        \/ DisposeReturns(d) \/ SendEnter(d) \/ SendReturns(d)
        \/ SendThrows(d) \/ SendFails(d) \/ Drop(d) \/ OnClosed(d)
  BY DEF HubNext
<1>2. ASSUME NEW k \in Caller,
             \/ StartEnter(d, k) \/ StartConnects(d, k)
             \/ StartThrows(d, k) \/ StartReturns(d, k)
      PROVE  Abandoned(c)'
  <2>1. CASE StartEnter(d, k)
    BY <2>1 DEF StartEnter
  <2>2. CASE StartConnects(d, k)
    BY <2>2 DEF StartConnects
  <2>3. CASE StartThrows(d, k)
    BY <2>3 DEF StartThrows, MarkAsStopped
  <2>4. CASE StartReturns(d, k)
    BY <2>4 DEF StartReturns
  <2> QED  BY <1>2, <2>1, <2>2, <2>3, <2>4
<1>3. CASE \/ StopEnter(d) \/ StopReturns(d) \/ DisposeEnter(d)
           \/ DisposeReturns(d) \/ Drop(d) \/ OnClosed(d)
  BY <1>3 DEF StopEnter, StopReturns, DisposeEnter, DisposeReturns, Drop,
              OnClosed, GoDown, MarkAsStopped
<1>4. CASE SendEnter(d) \/ SendReturns(d) \/ SendThrows(d) \/ SendFails(d)
  BY <1>4 DEF SendEnter, SendReturns, SendThrows, SendFails, MarkAsStopped
<1> QED  BY <1>1, <1>2, <1>3, <1>4

(* StartAsync never repairs a connection that is up but was given up: for any
   callers and any behaviour of the network. *)
THEOREM AbandonedHolds == HubSpec => AbandonedUntilDown
<1>1. HubInv /\ [HubNext]_hubVars
        => [\A c \in Conn : Abandoned(c) => Abandoned(c)' \/ hub'[c] # "on"]_hubVars
  BY AbandonedStep
<1> QED  BY HubInitInv, HubStepInv, <1>1, PTL DEF HubSpec, AbandonedUntilDown

-----------------------------------------------------------------------------
(* Every step of the agent is a step of its adapters, or leaves them alone. *)

LEMMA TaskIsHubStep ==
  ASSUME NEW c \in Conn, NEW k \in Caller, Task(k, c)
  PROVE  [HubNext]_hubVars
BY DEF Task, TaskSkips, TaskFindsLock, TaskEnters, TaskConnects, TaskThrows,
       TaskReturns, HubNext

LEMMA ConnIsHubStep ==
  ASSUME NEW c \in Conn,
         \/ Rejoin(c) \/ JoinsOne(c) \/ LeavesOne(c) \/ Destroy(c)
         \/ TearDown(c) \/ Sends(c) \/ SendEnds(c) \/ Drops(c)
         \/ ClosedArrives(c)
  PROVE  [HubNext]_hubVars
<1>1. CASE Rejoin(c) \/ JoinsOne(c) \/ LeavesOne(c)
  BY <1>1 DEF Rejoin, JoinsOne, LeavesOne, JoinToGroup, HubNext
<1>2. CASE Destroy(c)
  BY <1>2 DEF Destroy, DestroyStops, DestroyStopped, DestroyDisposes,
              DestroyDisposed, HubNext
<1>3. CASE TearDown(c)
  BY <1>3 DEF TearDown, StopsOne, StoppedOne, DisposesOne, DisposedOne, HubNext
<1>4. CASE Sends(c) \/ SendEnds(c) \/ Drops(c) \/ ClosedArrives(c)
  BY <1>4 DEF Sends, SendEnds, Drops, ClosedArrives, HubNext
<1> QED  BY <1>1, <1>2, <1>3, <1>4

LEMMA StepsLeaveHubAlone ==
  ASSUME StepBegins \/ StepEnds \/ Repair \/ Finished
  PROVE  UNCHANGED hubVars
BY DEF StepBegins, StartConnection, Reconnect, JoinGroup, LeaveGroup,
       RepairConnections, SendStep, StopConnection, DisposeConnection,
       StepEnds, BatchDone, SendTimeIsUp, SendDone, WorkDone, Recreate,
       Repair, RepairScans, RepairEnds, RepairExits, Finished, vars

LEMMA AgentStepIsHubStep == [Next]_vars => [HubNext]_hubVars
<1>1. CASE Next
  BY <1>1, TaskIsHubStep, ConnIsHubStep, StepsLeaveHubAlone DEF Next
<1>2. CASE UNCHANGED vars
  BY <1>2 DEF vars
<1> QED  BY <1>1, <1>2

(* The agent implements the adapters' specification: a batch, the repairer
   and the stop steps together do nothing to an adapter that HubConnection
   does not allow, so what is proved of HubConnection holds in the agent. *)
THEOREM AgentImplementsHub == Spec => ImplementsHub
<1>1. Init => HubInit
  BY DEF Init
<1> QED  BY <1>1, AgentStepIsHubStep, PTL DEF Spec, ImplementsHub

(* One caller at a time starts an adapter, in the composition as well. *)
THEOREM AgentOneStarter == Spec => []OneStarter
<1>1. HubInv => OneStarter
  BY DEF HubInv
<1>2. Init => HubInit
  BY DEF Init
<1> QED
  BY <1>1, <1>2, AgentStepIsHubStep, HubInitInv, HubStepInv, PTL DEF Spec

-----------------------------------------------------------------------------
(* Types.  A step may end only if it is one of the pipeline's, so that `pos'
   stays within it: the phases that only one kind of step has say which.   *)

PhaseMatches ==
  /\ phase = "drain" => Current = "Send"
  /\ phase \in {"stop", "dispose"} => Current = "Reconnect"

AgentInv == AgentTypeOK /\ OneStarter /\ PhaseMatches

LEMMA CallersTyped == {Batch, Repairer} \subseteq Caller
BY AgentAssumption

LEMMA LiveTyped == AgentTypeOK => Live \in SUBSET Conn
BY DEF AgentTypeOK, Live

\* The position after a step that is in the pipeline is in range again.
LEMMA AdvanceTyped ==
  ASSUME AgentTypeOK, Current # "end", pos' = pos + 1
  PROVE  pos' \in 1..(Len(Program) + 1)
<1>1. Len(Program) \in Nat /\ DOMAIN Program = 1..Len(Program)
  BY AgentAssumption
<1>2. pos \in 1..Len(Program)
  BY <1>1 DEF Current
<1> QED  BY <1>1, <1>2

LEMMA AgentInitInv == Init => AgentInv
<1> SUFFICES ASSUME Init PROVE AgentInv
  OBVIOUS
<1>1. HubTypeOK /\ OneStarter
  BY HubInitInv DEF Init, HubInv
<1>2. pos \in 1..(Len(Program) + 1)
  BY AgentAssumption DEF Init
<1>3. store \in [Slot -> Conn] /\ faults \in 0..MaxFaults
  BY AgentAssumption DEF Init
<1>4. phase \in {"idle", "run", "drain", "stop", "dispose"} /\ PhaseMatches
  BY DEF Init, PhaseMatches
<1>5. /\ fresh \in SUBSET Conn /\ todo \in [Caller -> SUBSET Conn]
      /\ work \in SUBSET Conn /\ torn \in SUBSET Conn
      /\ rejoin \in SUBSET Conn /\ joined \in SUBSET Conn
      /\ rep \in {"off", "scan", "repair"} /\ cancelled \in BOOLEAN
  BY DEF Init
<1> QED
  BY <1>1, <1>2, <1>3, <1>4, <1>5 DEF AgentInv, AgentTypeOK

\* The tasks of the batches change, of the agent's own state, only the sets of
\* tasks and the count of faults.
LEMMA TaskKeepsTypes ==
  ASSUME AgentInv, HubTypeOK', NEW c \in Conn, NEW k \in Caller, Task(k, c)
  PROVE  AgentTypeOK' /\ PhaseMatches'
<1> USE DEF AgentInv, AgentTypeOK, PhaseMatches, Current
<1>1. CASE TaskSkips(k, c)
  BY <1>1 DEF TaskSkips
<1>2. CASE TaskFindsLock(k, c)
  BY <1>2 DEF TaskFindsLock
<1>3. CASE TaskEnters(k, c)
  BY <1>3 DEF TaskEnters
<1>4. CASE TaskConnects(k, c)
  BY <1>4 DEF TaskConnects, agentVars
<1>5. CASE TaskThrows(k, c)
  BY <1>5, AgentAssumption DEF TaskThrows, Fault
<1>6. CASE TaskReturns(k, c)
  BY <1>6 DEF TaskReturns
<1> QED  BY <1>1, <1>2, <1>3, <1>4, <1>5, <1>6 DEF Task

LEMMA ConnKeepsTypes ==
  ASSUME AgentInv, HubTypeOK', NEW c \in Conn,
         \/ Rejoin(c) \/ JoinsOne(c) \/ LeavesOne(c) \/ Destroy(c)
         \/ TearDown(c) \/ Sends(c) \/ SendEnds(c) \/ Drops(c)
         \/ ClosedArrives(c)
  PROVE  AgentTypeOK' /\ PhaseMatches'
<1> USE DEF AgentInv, AgentTypeOK, PhaseMatches, Current
<1>1. CASE Rejoin(c) \/ JoinsOne(c) \/ LeavesOne(c)
  BY <1>1 DEF Rejoin, JoinsOne, LeavesOne, JoinToGroup, Running
<1>2. CASE Destroy(c)
  <2>1. CASE DestroyStops(c) \/ DestroyDisposes(c)
    BY <2>1 DEF DestroyStops, DestroyDisposes, agentVars
  <2>2. CASE DestroyStopped(c)
    BY <2>2 DEF DestroyStopped
  <2>3. CASE DestroyDisposed(c)
    BY <2>3 DEF DestroyDisposed
  <2> QED  BY <1>2, <2>1, <2>2, <2>3 DEF Destroy
<1>3. CASE TearDown(c)
  BY <1>3 DEF TearDown, StopsOne, StoppedOne, DisposesOne, DisposedOne, agentVars
<1>4. CASE Sends(c) \/ ClosedArrives(c)
  BY <1>4 DEF Sends, ClosedArrives, agentVars
<1>5. CASE SendEnds(c) \/ Drops(c)
  BY <1>5, AgentAssumption DEF SendEnds, Drops, Fault
<1> QED  BY <1>1, <1>2, <1>3, <1>4, <1>5

\* Recreate: distinct new adapters take the places of the destroyed ones.
LEMMA RecreateKeepsTypes ==
  ASSUME AgentInv, HubTypeOK', Recreate
  PROVE  AgentTypeOK' /\ PhaseMatches'
<1> USE DEF AgentInv, AgentTypeOK
<1>1. CASE torn = {} /\ Advance /\ UNCHANGED <<store, fresh, todo, torn>>
  <2>1. pos' \in 1..(Len(Program) + 1)
    BY <1>1, AdvanceTyped DEF Recreate, PhaseMatches, Advance
  <2> QED  BY <1>1, <2>1 DEF Recreate, Advance, PhaseMatches
<1>2. CASE torn # {} /\ phase' = "run" /\ UNCHANGED pos
  <2>1. PICK new \in [torn -> fresh] :
          /\ store' = [i \in Slot |-> IF store[i] \in torn THEN new[store[i]]
                                                          ELSE store[i]]
          /\ fresh' = fresh \ {new[c] : c \in torn}
    BY <1>2 DEF Recreate
  <2>2. store' \in [Slot -> Conn]
    BY <2>1
  <2>3. todo' \in [Caller -> SUBSET Conn]
    <3>1. {store'[i] : i \in {j \in Slot : stat[store'[j]] = "Init"}} \in SUBSET Conn
      BY <2>2
    <3> QED  BY <1>2, <3>1 DEF Recreate
  <2> QED  BY <1>2, <2>1, <2>2, <2>3 DEF Recreate, PhaseMatches
<1> QED  BY <1>1, <1>2 DEF Recreate

LEMMA StepsKeepTypes ==
  ASSUME AgentInv, HubTypeOK',
         StepBegins \/ StepEnds \/ Repair \/ Finished
  PROVE  AgentTypeOK' /\ PhaseMatches'
<1> USE DEF AgentInv
<1>1. Live \in SUBSET Conn /\ \A S : InStat(S, Live) \in SUBSET Conn
  BY LiveTyped DEF InStat
<1>2. CASE StartConnection \/ Reconnect \/ SendStep
  BY <1>1, <1>2 DEF StartConnection, Reconnect, SendStep, Arrives, AgentTypeOK,
                    PhaseMatches, Current
<1>3. CASE JoinGroup \/ LeaveGroup \/ StopConnection \/ DisposeConnection
  BY <1>1, <1>3 DEF JoinGroup, LeaveGroup, StopConnection, DisposeConnection,
                    AgentTypeOK, PhaseMatches
<1>4. CASE RepairConnections
  <2>1. pos' \in 1..(Len(Program) + 1)
    BY <1>4, AdvanceTyped DEF RepairConnections, Arrives, Advance
  <2> QED  BY <1>4, <2>1 DEF RepairConnections, Advance, AgentTypeOK, PhaseMatches
<1>5. CASE BatchDone \/ SendDone \/ WorkDone
  <2>1. pos' \in 1..(Len(Program) + 1)
    BY <1>5, AdvanceTyped DEF BatchDone, SendDone, WorkDone, Running, Advance,
                              PhaseMatches
  <2> QED
    BY <1>5, <2>1 DEF BatchDone, SendDone, WorkDone, Advance, AgentTypeOK, PhaseMatches
<1>6. CASE SendTimeIsUp
  BY <1>6 DEF SendTimeIsUp, Running, AgentTypeOK, PhaseMatches, Current
<1>7. CASE Recreate
  BY <1>7, RecreateKeepsTypes
<1>8. CASE Repair
  BY <1>1, <1>8 DEF Repair, RepairScans, RepairEnds, RepairExits, AgentTypeOK,
                    PhaseMatches, Current
<1>9. CASE Finished
  BY <1>9 DEF Finished, vars, agentVars, AgentTypeOK, PhaseMatches, Current
<1> QED
  BY <1>2, <1>3, <1>4, <1>5, <1>6, <1>7, <1>8, <1>9 DEF StepBegins, StepEnds

LEMMA AgentStepInv == AgentInv /\ [Next]_vars => AgentInv'
<1> SUFFICES ASSUME AgentInv, [Next]_vars PROVE AgentInv'
  OBVIOUS
<1>1. HubTypeOK' /\ OneStarter'
  BY AgentStepIsHubStep, HubStepInv DEF AgentInv, AgentTypeOK, HubInv
<1>2. CASE Next
  BY <1>1, <1>2, TaskKeepsTypes, ConnKeepsTypes, StepsKeepTypes DEF Next, AgentInv
<1>3. CASE UNCHANGED vars
  BY <1>1, <1>3 DEF vars, agentVars, AgentInv, AgentTypeOK, PhaseMatches, Current
<1> QED  BY <1>2, <1>3

(* Type correctness of the agent's state. *)
THEOREM AgentTypeCorrect == Spec => []AgentTypeOK
<1>1. AgentInv => AgentTypeOK
  BY DEF AgentInv
<1> QED  BY AgentInitInv, AgentStepInv, <1>1, PTL DEF Spec

-----------------------------------------------------------------------------
(* Reconnect leaks no connection.  NoOrphan is not inductive: it must be    *)
(* known of the adapters a Reconnect is about to replace that they are the  *)
(* agent's own and that those it has finished with are disposed for good.   *)

Replacing ==
  /\ work \subseteq Live
  /\ torn \subseteq Live
  /\ torn # {} => phase \in {"stop", "dispose"}
  /\ \A c \in torn \ work : hub[c] = "gone"

OrphanInv == AgentInv /\ Replacing /\ NoOrphan

\* The client's connection, once disposed, is never up again.
LEMMA GoneIsForever ==
  ASSUME HubTypeOK, [HubNext]_hubVars, NEW c \in Conn, hub[c] = "gone"
  PROVE  hub'[c] = "gone"
<1> USE DEF HubTypeOK
<1>1. CASE UNCHANGED hubVars
  BY <1>1 DEF hubVars
<1>2. ASSUME NEW d \in Conn, NEW k \in Caller,
             \/ StartEnter(d, k) \/ StartConnects(d, k)
             \/ StartThrows(d, k) \/ StartReturns(d, k)
      PROVE  hub'[c] = "gone"
  BY <1>2 DEF StartEnter, StartConnects, StartThrows, StartReturns
<1>3. ASSUME NEW d \in Conn,
             \/ StopEnter(d) \/ StopReturns(d) \/ DisposeEnter(d)
             \/ DisposeReturns(d) \/ Drop(d) \/ OnClosed(d)
      PROVE  hub'[c] = "gone"
  BY <1>3 DEF StopEnter, StopReturns, DisposeEnter, DisposeReturns, Drop,
              OnClosed, GoDown
<1>4. ASSUME NEW d \in Conn,
             SendEnter(d) \/ SendReturns(d) \/ SendThrows(d) \/ SendFails(d)
      PROVE  hub'[c] = "gone"
  BY <1>4 DEF SendEnter, SendReturns, SendThrows, SendFails
<1> QED  BY <1>1, <1>2, <1>3, <1>4 DEF HubNext

LEMMA OrphanInitInv == Init => OrphanInv
<1> SUFFICES ASSUME Init PROVE OrphanInv
  OBVIOUS
<1>1. AgentInv
  BY AgentInitInv
<1>2. Live = Slot
  BY DEF Init, Live
<1> QED  BY <1>1, <1>2 DEF Init, OrphanInv, Replacing, NoOrphan

\* A step that neither replaces adapters nor adds to those being replaced.
LEMMA ShrinkingKeepsOrphanInv ==
  ASSUME OrphanInv, [HubNext]_hubVars, UNCHANGED <<store, fresh, torn>>,
         \/ UNCHANGED <<work, phase>>
         \/ torn = {} /\ work' \subseteq Live
  PROVE  Replacing' /\ NoOrphan'
<1>1. Live' = Live
  BY DEF Live
<1>2. torn \subseteq Conn /\ HubTypeOK
  BY DEF OrphanInv, AgentInv, AgentTypeOK
<1>3. NoOrphan'
  BY <1>1, <1>2, GoneIsForever DEF OrphanInv, NoOrphan
<1>4. Replacing'
  BY <1>1, <1>2, GoneIsForever DEF OrphanInv, Replacing
<1> QED  BY <1>3, <1>4

\* Stop, then dispose: an adapter joins `torn' while it is still in `work',
\* and leaves `work' only when the client's connection is gone.
LEMMA DestroyKeepsOrphanInv ==
  ASSUME OrphanInv, NEW c \in Conn, Destroy(c)
  PROVE  Replacing' /\ NoOrphan'
<1>1. [HubNext]_hubVars /\ HubTypeOK /\ torn \subseteq Conn
  BY ConnIsHubStep DEF OrphanInv, AgentInv, AgentTypeOK
<1>2. CASE DestroyStops(c) \/ DestroyDisposes(c)
  BY <1>1, <1>2, ShrinkingKeepsOrphanInv DEF DestroyStops, DestroyDisposes, agentVars
<1>3. CASE DestroyStopped(c) \/ DestroyDisposed(c)
  <2>1. UNCHANGED <<store, fresh>> /\ Live' = Live
    BY <1>3 DEF DestroyStopped, DestroyDisposed, Live
  <2>2. NoOrphan'
    BY <1>1, <2>1, GoneIsForever DEF OrphanInv, NoOrphan
  <2>3. \A d \in torn \ work : hub'[d] = "gone"
    <3> SUFFICES ASSUME NEW d \in torn \ work PROVE hub'[d] = "gone"
      OBVIOUS
    <3>1. d \in Conn /\ hub[d] = "gone"
      BY <1>1 DEF OrphanInv, Replacing
    <3> QED  BY <1>1, <3>1, GoneIsForever
  <2>4. work \subseteq Live /\ torn \subseteq Live
    BY DEF OrphanInv, Replacing
  <2>5. CASE DestroyStopped(c)
    <3>1. /\ torn' = torn \cup {c} /\ work' = work /\ c \in work
          /\ phase' = "dispose"
      BY <2>5 DEF DestroyStopped
    <3>2. work' \subseteq Live' /\ torn' \subseteq Live'
      BY <2>1, <2>4, <3>1
    <3>3. \A d \in torn' \ work' : hub'[d] = "gone"
      BY <2>3, <3>1
    <3> QED  BY <3>1, <3>2, <3>3, <2>2 DEF Replacing
  <2>6. CASE DestroyDisposed(c)
    <3>1. hub'[c] = "gone"
      BY <1>1, <2>6 DEF DestroyDisposed, DisposeReturns, GoDown, HubTypeOK
    <3>2. torn' = torn /\ work' = work \ {c} /\ phase' = "stop"
      BY <2>6 DEF DestroyDisposed
    <3>3. work' \subseteq Live' /\ torn' \subseteq Live'
      BY <2>1, <2>4, <3>2
    <3>4. \A d \in torn' \ work' : hub'[d] = "gone"
      BY <2>3, <3>1, <3>2
    <3> QED  BY <3>2, <3>3, <3>4, <2>2 DEF Replacing
  <2> QED  BY <1>3, <2>2, <2>5, <2>6
<1> QED  BY <1>2, <1>3 DEF Destroy

\* Only disposed adapters are replaced, and every new one is put to use.
LEMMA RecreateKeepsOrphanInv ==
  ASSUME OrphanInv, Recreate
  PROVE  Replacing' /\ NoOrphan'
<1>1. UNCHANGED <<hubVars, work>> /\ work = {} /\ UNCHANGED hub
  BY DEF Recreate, hubVars
<1>2. CASE torn = {} /\ UNCHANGED <<store, fresh, todo, torn>>
  <2>1. Live' = Live
    BY <1>2 DEF Live
  <2> QED  BY <1>1, <1>2, <2>1 DEF OrphanInv, Replacing, NoOrphan
<1>3. CASE torn # {} /\ torn' = {} /\ phase' = "run"
  <2>1. PICK new \in [torn -> fresh] :
          /\ store' = [i \in Slot |-> IF store[i] \in torn THEN new[store[i]]
                                                          ELSE store[i]]
          /\ fresh' = fresh \ {new[c] : c \in torn}
    BY <1>3 DEF Recreate
  <2>2. \A c \in torn : hub[c] = "gone"
    BY <1>1 DEF OrphanInv, Replacing
  <2>3. ASSUME NEW c \in Conn, c \notin Live' \cup fresh'
        PROVE  hub'[c] = "gone"
    <3>1. CASE c \in torn
      BY <1>1, <2>2, <3>1
    <3>2. CASE c \notin torn
      <4>1. c \notin Live
        BY <2>1, <2>3, <3>2 DEF Live
      <4>2. c \notin fresh
        <5> SUFFICES ASSUME c \in fresh PROVE FALSE
          OBVIOUS
        <5>1. PICK d \in torn : c = new[d]
          BY <2>1, <2>3
        <5>2. PICK i \in Slot : store[i] = d
          BY DEF OrphanInv, Replacing, Live
        <5>3. store'[i] = c
          BY <2>1, <5>1, <5>2
        <5> QED  BY <2>3, <5>3 DEF Live
      <4> QED  BY <1>1, <4>1, <4>2 DEF OrphanInv, NoOrphan
    <3> QED  BY <3>1, <3>2
  <2> QED  BY <1>1, <1>3, <2>3 DEF Replacing, NoOrphan
<1> QED  BY <1>2, <1>3 DEF Recreate

LEMMA OrphanStepInv == OrphanInv /\ [Next]_vars => OrphanInv'
<1> SUFFICES ASSUME OrphanInv, [Next]_vars PROVE OrphanInv'
  OBVIOUS
<1>1. AgentInv' /\ [HubNext]_hubVars
  BY AgentStepInv, AgentStepIsHubStep DEF OrphanInv
<1>2. torn # {} => phase \in {"stop", "dispose"}
  BY DEF OrphanInv, Replacing
<1>3. work \subseteq Live
  BY DEF OrphanInv, Replacing
<1> SUFFICES Replacing' /\ NoOrphan'
  BY <1>1 DEF OrphanInv
<1>4. ASSUME NEW c \in Conn, NEW k \in Caller, Task(k, c)
      PROVE  Replacing' /\ NoOrphan'
  <2>1. UNCHANGED <<store, fresh, torn, work, phase>>
    BY <1>4 DEF Task, TaskSkips, TaskFindsLock, TaskEnters, TaskConnects,
                TaskThrows, TaskReturns, agentVars
  <2> QED  BY <1>1, <2>1, ShrinkingKeepsOrphanInv
<1>5. ASSUME NEW c \in Conn,
             \/ Rejoin(c) \/ Sends(c) \/ SendEnds(c) \/ Drops(c) \/ ClosedArrives(c)
      PROVE  Replacing' /\ NoOrphan'
  <2>1. UNCHANGED <<store, fresh, torn, work, phase>>
    BY <1>5 DEF Rejoin, Sends, SendEnds, Drops, ClosedArrives, agentVars
  <2> QED  BY <1>1, <2>1, ShrinkingKeepsOrphanInv
<1>6. ASSUME NEW c \in Conn, JoinsOne(c) \/ LeavesOne(c) \/ TearDown(c)
      PROVE  Replacing' /\ NoOrphan'
  <2>1. /\ UNCHANGED <<store, fresh, torn>> /\ phase = "run"
        /\ work' \subseteq work
    BY <1>6 DEF JoinsOne, LeavesOne, TearDown, StopsOne, StoppedOne, DisposesOne,
                DisposedOne, Running, agentVars
  <2> QED  BY <1>1, <1>2, <1>3, <2>1, ShrinkingKeepsOrphanInv
<1>7. CASE StepBegins
  <2>1. /\ UNCHANGED <<store, fresh, torn>> /\ phase = "idle"
        /\ work' = work \/ work' \subseteq Live
    BY <1>7 DEF StepBegins, StartConnection, Reconnect, JoinGroup, LeaveGroup,
                RepairConnections, SendStep, StopConnection, DisposeConnection,
                Arrives, InStat
  <2> QED  BY <1>1, <1>2, <1>3, <2>1, ShrinkingKeepsOrphanInv
<1>8. CASE BatchDone \/ SendTimeIsUp \/ SendDone \/ WorkDone
  <2>1. UNCHANGED <<store, fresh, torn, work>> /\ phase \in {"run", "drain"}
    BY <1>8 DEF BatchDone, SendTimeIsUp, SendDone, WorkDone, Running
  <2> QED  BY <1>1, <1>2, <1>3, <2>1, ShrinkingKeepsOrphanInv
<1>9. CASE Repair \/ Finished \/ UNCHANGED vars
  <2>1. UNCHANGED <<store, fresh, torn, work, phase>>
    BY <1>9 DEF Repair, RepairScans, RepairEnds, RepairExits, Finished, vars, agentVars
  <2> QED  BY <1>1, <2>1, ShrinkingKeepsOrphanInv
<1> QED
  BY <1>4, <1>5, <1>6, <1>7, <1>8, <1>9, DestroyKeepsOrphanInv,
     RecreateKeepsOrphanInv DEF Next, StepEnds

(* However the network fails and whatever the repairer is doing, an adapter
   that Reconnect has taken out of the connection list is disposed. *)
THEOREM ReconnectLeaksNothing == Spec => []NoOrphan
<1>1. OrphanInv => NoOrphan
  BY DEF OrphanInv
<1> QED  BY OrphanInitInv, OrphanStepInv, <1>1, PTL DEF Spec

-----------------------------------------------------------------------------
(* Repairs keep the memberships.  What RepairedIsJoined says once the       *)
(* repairer runs holds from the last Join step of the pipeline on, if no    *)
(* Start or Reconnect step comes after it: a connection that is up is in    *)
(* its group unless the repairer has just restarted it.                     *)

LastJoin(j) ==
  /\ Program[j] = "Join"
  /\ \A i \in DOMAIN Program : i > j => Program[i] \notin {"Start", "Reconnect"}

\* The pipelines the theorem is about, as the configuration generator writes
\* them: the groups are joined after the last start, then the repairer is set up.
JoinsBeforeRepair ==
  \A r \in DOMAIN Program :
    Program[r] = "Repair" => \E j \in DOMAIN Program : j < r /\ LastJoin(j)

\* Nothing of a batch is left when its step is over.
BatchIdle == Running("Start") \/ Running("Reconnect") \/ Quiescent(Batch)

RepairerSet ==
  rep # "off" => \E r \in DOMAIN Program : Program[r] = "Repair" /\ r < pos

\* The repairer has restarted c and is about to join its group.
Joining(c) == call[c][Repairer] = "connected" \/ c \in rejoin

\* The Join step at j has dealt with c.
Covers(j, c) == pos > j \/ (pos = j /\ phase = "run" /\ c \notin work)

InGroup ==
  Joins /\ BeforeLeave =>
    \A j \in DOMAIN Program, c \in Live :
      LastJoin(j) /\ Covers(j, c) /\ hub[c] = "on" => c \in joined \/ Joining(c)

GroupInv == AgentInv /\ BatchIdle /\ RepairerSet /\ InGroup

LEMMA Positions ==
  ASSUME AgentTypeOK
  PROVE  /\ pos \in Nat /\ DOMAIN Program \subseteq Nat
         /\ pos \in DOMAIN Program <=> Current # "end"
         /\ \A i \in DOMAIN Program : Program[i] \in StepNames
<1>1. Len(Program) \in Nat /\ DOMAIN Program = 1..Len(Program)
  BY AgentAssumption
<1>2. \A i \in DOMAIN Program : Program[i] \in StepNames
  BY AgentAssumption
<1>3. pos \in Nat
  BY <1>1 DEF AgentTypeOK
<1>4. "end" \notin StepNames
  BY DEF StepNames
<1> QED  BY <1>1, <1>2, <1>3, <1>4 DEF Current

\* From such a Join step on, no batch runs and no adapter is replaced.
LEMMA NoMoreStarts ==
  ASSUME GroupInv, NEW j \in DOMAIN Program, LastJoin(j), pos >= j
  PROVE  /\ Current \notin {"Start", "Reconnect"}
         /\ phase \notin {"stop", "dispose"}
         /\ Quiescent(Batch)
<1>1. Current \notin {"Start", "Reconnect"}
  BY Positions DEF Current, LastJoin, GroupInv, AgentInv
<1>2. phase \notin {"stop", "dispose"}
  BY <1>1 DEF GroupInv, AgentInv, PhaseMatches
<1>3. Quiescent(Batch)
  BY <1>1 DEF GroupInv, BatchIdle, Running
<1> QED  BY <1>1, <1>2, <1>3

LEMMA GroupInitInv == Init => GroupInv
<1> SUFFICES ASSUME Init PROVE GroupInv
  OBVIOUS
<1>1. AgentInv
  BY AgentInitInv
<1>2. BatchIdle /\ RepairerSet
  BY CallersTyped DEF Init, HubInit, BatchIdle, Quiescent, RepairerSet
<1>3. Live \subseteq Conn
  BY <1>1, LiveTyped DEF AgentInv
<1>4. \A c \in Live : hub[c] # "on"
  BY <1>3 DEF Init, HubInit
<1> QED  BY <1>1, <1>2, <1>4 DEF GroupInv, InGroup

\* A task of caller k that is left belongs to k alone.
LEMMA TaskKeepsGroupInv ==
  ASSUME GroupInv, NEW d \in Conn, NEW k \in Caller, Task(k, d)
  PROVE  BatchIdle' /\ RepairerSet' /\ InGroup'
<1> USE DEF GroupInv, AgentInv, AgentTypeOK, HubTypeOK
<1>1. UNCHANGED <<store, pos, phase, work, joined, rep>>
  BY DEF Task, TaskSkips, TaskFindsLock, TaskEnters, TaskConnects, TaskThrows,
         TaskReturns, agentVars
<1>2. RepairerSet'
  BY <1>1 DEF RepairerSet
<1>3. /\ todo' = todo \/ todo' = [todo EXCEPT ![k] = todo[k] \ {d}]
      /\ d \in todo[k] \/ call[d][k] # "none"
      /\ call' = call \/ \E x : call' = [call EXCEPT ![d][k] = x]
  BY DEF Task, TaskSkips, TaskFindsLock, TaskEnters, TaskConnects, TaskThrows,
         TaskReturns, agentVars, hubVars, StartEnter, StartConnects, StartThrows,
         StartReturns
<1>4. Quiescent(Batch) => k = Repairer
  BY <1>3, CallersTyped, AgentAssumption DEF Quiescent
<1>5. BatchIdle'
  <2>1. Batch # Repairer
    BY DEF Batch, Repairer
  <2>2. ASSUME Quiescent(Batch) PROVE Quiescent(Batch)'
    BY <1>3, <1>4, <2>1, <2>2, CallersTyped DEF Quiescent
  <2> QED  BY <1>1, <2>2 DEF BatchIdle, Running, Current
<1>6. InGroup'
  <2> SUFFICES ASSUME Joins, BeforeLeave, NEW j \in DOMAIN Program, NEW c \in Live,
                      LastJoin(j), Covers(j, c), hub'[c] = "on"
               PROVE  c \in joined \/ Joining(c)'
    BY <1>1 DEF InGroup, BeforeLeave, Live, Covers, LastJoin, Joins
  <2>1. c \in Conn
    BY LiveTyped
  <2>2. k = Repairer
    <3>1. pos >= j
      BY Positions DEF Covers
    <3> QED  BY <1>4, <3>1, NoMoreStarts
  <2>3. hub[c] = "on" => c \in joined \/ Joining(c)
    BY DEF InGroup
  <2>4. CASE TaskSkips(k, d) \/ TaskEnters(k, d) \/ TaskFindsLock(k, d)
    BY <2>1, <2>2, <2>3, <2>4 DEF TaskSkips, TaskEnters, TaskFindsLock, StartEnter,
                                  hubVars, Joining
  <2>5. CASE TaskConnects(k, d)
    BY <2>1, <2>2, <2>3, <2>5 DEF TaskConnects, StartConnects, agentVars, Joining
  <2>6. CASE TaskThrows(k, d)
    BY <2>1, <2>2, <2>3, <2>6 DEF TaskThrows, StartThrows, Joining
  <2>7. CASE TaskReturns(k, d)
    BY <2>1, <2>2, <2>3, <2>7 DEF TaskReturns, StartReturns, Joining
  <2> QED  BY <2>4, <2>5, <2>6, <2>7 DEF Task
<1> QED  BY <1>2, <1>5, <1>6

\* An operation on one connection takes it out of its group only when its hub
\* goes down, but for LeaveGroup.
LEMMA ConnKeepsGroupInv ==
  ASSUME GroupInv, NEW d \in Conn,
         \/ Rejoin(d) \/ JoinsOne(d) \/ LeavesOne(d) \/ Destroy(d)
         \/ TearDown(d) \/ Sends(d) \/ SendEnds(d) \/ Drops(d)
         \/ ClosedArrives(d)
  PROVE  BatchIdle' /\ RepairerSet' /\ InGroup'
<1> USE DEF GroupInv, AgentInv, AgentTypeOK, HubTypeOK
<1>1. UNCHANGED <<store, pos, rep, todo, call>>
  <2>1. CASE Rejoin(d) \/ JoinsOne(d) \/ LeavesOne(d)
    BY <2>1 DEF Rejoin, JoinsOne, LeavesOne, JoinToGroup, SendFails, hubVars
  <2>2. CASE Destroy(d)
    BY <2>2 DEF Destroy, DestroyStops, DestroyStopped, DestroyDisposes, DestroyDisposed,
                StopEnter, StopReturns, DisposeEnter, DisposeReturns, agentVars
  <2>3. CASE TearDown(d)
    BY <2>3 DEF TearDown, StopsOne, StoppedOne, DisposesOne, DisposedOne,
                StopEnter, StopReturns, DisposeEnter, DisposeReturns, agentVars
  <2>4. CASE Sends(d) \/ SendEnds(d) \/ Drops(d) \/ ClosedArrives(d)
    BY <2>4 DEF Sends, SendEnds, Drops, ClosedArrives, SendEnter, SendReturns, SendThrows,
                Drop, OnClosed, agentVars
  <2> QED  BY <2>1, <2>2, <2>3, <2>4
<1>2. phase' = phase \/ (Destroy(d) /\ phase \in {"stop", "dispose"})
  BY DEF Rejoin, JoinsOne, LeavesOne, TearDown, StopsOne, StoppedOne, DisposesOne,
         DisposedOne, Sends, SendEnds, Drops, ClosedArrives, Destroy, DestroyStops,
         DestroyStopped, DestroyDisposes, DestroyDisposed, agentVars
<1>3. BatchIdle' /\ RepairerSet'
  <2>1. Quiescent(Batch) => Quiescent(Batch)'
    BY <1>1 DEF Quiescent
  <2>2. Running("Start") \/ Running("Reconnect") => phase' = phase
    BY <1>2 DEF Running
  <2> QED  BY <1>1, <2>1, <2>2 DEF BatchIdle, Running, Current, RepairerSet
<1>4. InGroup'
  <2> SUFFICES ASSUME Joins, BeforeLeave, NEW j \in DOMAIN Program, NEW c \in Live,
                      LastJoin(j), Covers(j, c)', hub'[c] = "on"
               PROVE  c \in joined' \/ Joining(c)'
    BY <1>1 DEF InGroup, BeforeLeave, Live, LastJoin, Joins
  <2>1. c \in Conn
    BY LiveTyped
  <2>2. pos >= j
    BY <1>1, Positions DEF Covers
  <2>3. phase \notin {"stop", "dispose"} /\ phase' = phase /\ ~Destroy(d)
    <3>1. phase \notin {"stop", "dispose"}
      BY <2>2, NoMoreStarts
    <3>2. ~Destroy(d)
      BY <3>1 DEF Destroy, DestroyStops, DestroyStopped, DestroyDisposes, DestroyDisposed
    <3> QED  BY <1>2, <3>1, <3>2
  <2>4. Covers(j, c) /\ hub[c] = "on" => c \in joined \/ Joining(c)
    BY DEF InGroup
  <2>5. CASE Rejoin(d)
    <3>1. Covers(j, c) /\ UNCHANGED hub
      BY <1>1, <2>3, <2>5 DEF Covers, Rejoin, JoinToGroup, SendFails, hubVars
    <3>2. \/ hub[d] = "on" /\ joined' = joined \cup {d}
          \/ hub[d] # "on" /\ joined' = joined
      BY <2>5 DEF Rejoin, JoinToGroup, SendFails
    <3> QED  BY <1>1, <2>4, <2>5, <3>1, <3>2 DEF Joining, Rejoin
  <2>6. CASE JoinsOne(d)
    <3>1. Covers(j, c) \/ c = d
      BY <1>1, <2>3, <2>6 DEF Covers, JoinsOne
    <3>2. UNCHANGED <<hub, rejoin>>
      BY <2>6 DEF JoinsOne, JoinToGroup, SendFails, hubVars
    <3>3. \/ hub[d] = "on" /\ joined' = joined \cup {d}
          \/ hub[d] # "on" /\ joined' = joined
      BY <2>6 DEF JoinsOne, JoinToGroup, SendFails
    <3> QED  BY <1>1, <2>4, <3>1, <3>2, <3>3 DEF Joining
  <2>7. CASE LeavesOne(d)
    <3>1. pos \in DOMAIN Program /\ Program[pos] = "Leave" /\ pos \in Nat
      BY <2>7, Positions DEF LeavesOne, Running, Current
    <3> QED  BY <3>1 DEF BeforeLeave
  <2>8. CASE TearDown(d)
    <3>1. pos # j
      <4>1. Current # "Join"
        BY <2>8 DEF TearDown, StopsOne, StoppedOne, DisposesOne, DisposedOne, Running
      <4> QED  BY <4>1 DEF Current, LastJoin
    <3>2. Covers(j, c)
      BY <1>1, <3>1 DEF Covers
    <3>3. CASE StopsOne(d) \/ DisposesOne(d)
      BY <1>1, <2>4, <3>2, <3>3 DEF StopsOne, DisposesOne, StopEnter, DisposeEnter,
                                    agentVars, Joining
    <3>4. CASE StoppedOne(d) \/ DisposedOne(d)
      <4>1. hub'[d] # "on" /\ \A b \in Conn \ {d} : hub'[b] = hub[b]
        BY <3>4 DEF StoppedOne, DisposedOne, StopReturns, DisposeReturns, GoDown
      <4>2. joined' = joined \ {d} /\ rejoin' = rejoin
        BY <3>4 DEF StoppedOne, DisposedOne
      <4> QED  BY <1>1, <2>1, <2>4, <3>2, <4>1, <4>2 DEF Joining
    <3> QED  BY <2>8, <3>3, <3>4 DEF TearDown
  <2>9. CASE Sends(d) \/ SendEnds(d) \/ ClosedArrives(d)
    <3>1. UNCHANGED <<hub, joined, rejoin, work>>
      BY <2>9 DEF Sends, SendEnds, ClosedArrives, SendEnter, SendReturns, SendThrows,
                  OnClosed, agentVars
    <3> QED  BY <1>1, <2>3, <2>4, <3>1 DEF Covers, Joining
  <2>10. CASE Drops(d)
    <3>1. hub'[d] # "on" /\ \A b \in Conn \ {d} : hub'[b] = hub[b]
      BY <2>10 DEF Drops, Drop, GoDown
    <3>2. joined' = joined \ {d} /\ UNCHANGED <<rejoin, work>>
      BY <2>10 DEF Drops
    <3> QED  BY <1>1, <2>1, <2>3, <2>4, <3>1, <3>2 DEF Covers, Joining
  <2> QED  BY <2>3, <2>5, <2>6, <2>7, <2>8, <2>9, <2>10
<1> QED  BY <1>3, <1>4

\* The steps of the pipeline and the repairer's loop touch no connection.
LEMMA StepsKeepGroupInv ==
  ASSUME GroupInv, AgentTypeOK', StepBegins \/ StepEnds \/ Repair \/ Finished
  PROVE  BatchIdle' /\ RepairerSet' /\ InGroup'
<1> USE DEF GroupInv, AgentInv
<1>1. UNCHANGED <<call, hub, joined, rejoin>>
  <2>1. UNCHANGED <<call, hub>>
    BY StepsLeaveHubAlone DEF hubVars
  <2>2. UNCHANGED <<joined, rejoin>>
    BY DEF StepBegins, StartConnection, Reconnect, JoinGroup, LeaveGroup,
           RepairConnections, SendStep, StopConnection, DisposeConnection,
           StepEnds, BatchDone, SendTimeIsUp, SendDone, WorkDone, Recreate,
           Repair, RepairScans, RepairEnds, RepairExits, Finished, vars, agentVars
  <2> QED  BY <2>1, <2>2
<1>2. pos \in Nat /\ (pos' = pos \/ pos' = pos + 1)
  BY Positions DEF StepBegins, StartConnection, Reconnect, JoinGroup, LeaveGroup,
           RepairConnections, SendStep, StopConnection, DisposeConnection, Advance,
           StepEnds, BatchDone, SendTimeIsUp, SendDone, WorkDone, Recreate,
           Repair, RepairScans, RepairEnds, RepairExits, Finished, vars, agentVars
<1>3. RepairerSet'
  <2>1. \A r \in DOMAIN Program : r < pos => r < pos'
    BY <1>2, Positions
  <2>2. CASE RepairConnections
    <3>1. pos \in DOMAIN Program /\ Program[pos] = "Repair" /\ pos < pos'
      BY <1>2, <2>2, Positions DEF RepairConnections, Arrives, Current, Advance
    <3> QED  BY <3>1 DEF RepairerSet
  <2>3. CASE ~RepairConnections
    <3>1. rep' # "off" => rep # "off"
      BY <2>3 DEF StepBegins, StartConnection, Reconnect, JoinGroup, LeaveGroup,
           SendStep, StopConnection, DisposeConnection,
           StepEnds, BatchDone, SendTimeIsUp, SendDone, WorkDone, Recreate,
           Repair, RepairScans, RepairEnds, RepairExits, Finished, vars, agentVars
    <3> QED  BY <2>1, <3>1 DEF RepairerSet
  <2> QED  BY <2>2, <2>3
<1>4. BatchIdle'
  <2>1. CASE StartConnection
    BY <2>1 DEF StartConnection, Arrives, BatchIdle, Running, Current
  <2>2. CASE Recreate /\ torn # {}
    BY <2>2 DEF Recreate, PhaseMatches, BatchIdle, Running, Current
  <2>3. CASE ~StartConnection /\ ~(Recreate /\ torn # {})
    <3>1. todo' = todo \/ RepairScans
      BY <2>3 DEF StepBegins, Reconnect, JoinGroup, LeaveGroup,
           RepairConnections, SendStep, StopConnection, DisposeConnection,
           StepEnds, BatchDone, SendTimeIsUp, SendDone, WorkDone, Recreate,
           Repair, RepairEnds, RepairExits, Finished, vars, agentVars
    <3>2. Batch # Repairer
      BY DEF Batch, Repairer
    <3>3. Quiescent(Batch) => Quiescent(Batch)'
      BY <1>1, <3>1, <3>2, CallersTyped DEF Quiescent, RepairScans, AgentTypeOK
    <3>4. Quiescent(Batch) \/ UNCHANGED <<pos, phase>>
      BY <2>3 DEF BatchIdle, Running, StepBegins, Reconnect, JoinGroup, LeaveGroup,
           RepairConnections, SendStep, StopConnection, DisposeConnection, Arrives,
           StepEnds, BatchDone, SendTimeIsUp, SendDone, WorkDone, Recreate, Current,
           Repair, RepairScans, RepairEnds, RepairExits, Finished, vars, agentVars
    <3> QED  BY <3>3, <3>4 DEF BatchIdle, Running, Current
  <2> QED  BY <2>1, <2>2, <2>3
<1>5. InGroup'
  <2> SUFFICES ASSUME Joins, BeforeLeave', NEW j \in DOMAIN Program, NEW c \in Live',
                      LastJoin(j), Covers(j, c)', hub[c] = "on"
               PROVE  c \in joined \/ Joining(c)
    BY <1>1 DEF InGroup, LastJoin, Joins, Joining
  <2>1. BeforeLeave
    BY <1>2, Positions DEF BeforeLeave
  <2>2. j \in Nat
    BY Positions
  <2>3. CASE pos < j
    <3>1. pos' = j /\ phase' = "run"
      BY <1>2, <2>2, <2>3 DEF Covers
    <3>2. pos' = pos
      BY <3>1 DEF StepBegins, StartConnection, Reconnect, JoinGroup, LeaveGroup,
           RepairConnections, SendStep, StopConnection, DisposeConnection, Advance,
           StepEnds, BatchDone, SendTimeIsUp, SendDone, WorkDone, Recreate,
           Repair, RepairScans, RepairEnds, RepairExits, Finished, vars, agentVars
    <3> QED  BY <1>2, <2>2, <2>3, <3>1, <3>2
  <2>4. CASE pos >= j
    <3>1. ~Recreate
      BY <2>4, NoMoreStarts DEF Recreate
    <3>2. Live' = Live
      <4>1. store' = store
        BY <3>1 DEF StepBegins, StartConnection, Reconnect, JoinGroup, LeaveGroup,
           RepairConnections, SendStep, StopConnection, DisposeConnection,
           StepEnds, BatchDone, SendTimeIsUp, SendDone, WorkDone,
           Repair, RepairScans, RepairEnds, RepairExits, Finished, vars, agentVars
      <4> QED  BY <4>1 DEF Live
    <3>3. Covers(j, c)
      <4>1. CASE pos > j
        BY <4>1 DEF Covers
      <4>2. CASE pos = j
        <5>1. Current = "Join"
          BY <4>2 DEF Current, LastJoin
        <5>2. \/ JoinGroup
              \/ WorkDone
              \/ UNCHANGED <<pos, phase, work>>
          BY <3>1, <5>1 DEF StepBegins, StartConnection, Reconnect, LeaveGroup,
             RepairConnections, SendStep, StopConnection, DisposeConnection, Arrives,
             StepEnds, BatchDone, SendTimeIsUp, SendDone, Running, PhaseMatches,
             Repair, RepairScans, RepairEnds, RepairExits, Finished, vars, agentVars
        <5>3. CASE JoinGroup
          BY <1>2, <2>2, <3>2, <4>2, <5>3 DEF JoinGroup, Covers
        <5>4. CASE WorkDone
          BY <4>2, <5>4 DEF WorkDone, Running, Covers
        <5>5. CASE UNCHANGED <<pos, phase, work>>
          BY <5>5 DEF Covers
        <5> QED  BY <5>2, <5>3, <5>4, <5>5
      <4> QED  BY <1>2, <2>2, <2>4, <4>1, <4>2
    <3> QED  BY <2>1, <3>2, <3>3 DEF InGroup
  <2> QED  BY <1>2, <2>2, <2>3, <2>4
<1> QED  BY <1>3, <1>4, <1>5

LEMMA GroupStepInv == GroupInv /\ [Next]_vars => GroupInv'
<1> SUFFICES ASSUME GroupInv, [Next]_vars PROVE GroupInv'
  OBVIOUS
<1>1. AgentInv' /\ AgentTypeOK'
  BY AgentStepInv DEF GroupInv, AgentInv
<1>2. CASE Next
  <2>1. BatchIdle' /\ RepairerSet' /\ InGroup'
    BY <1>1, <1>2, TaskKeepsGroupInv, ConnKeepsGroupInv, StepsKeepGroupInv DEF Next
  <2> QED  BY <1>1, <2>1 DEF GroupInv
<1>3. CASE UNCHANGED vars
  <2>1. UNCHANGED <<store, pos, phase, todo, work, rejoin, joined, rep, call, hub>>
    BY <1>3 DEF vars, agentVars, hubVars
  <2>2. BatchIdle' /\ RepairerSet'
    BY <2>1 DEF GroupInv, BatchIdle, Running, Current, Quiescent, RepairerSet
  <2>3. InGroup'
    BY <2>1 DEF GroupInv, InGroup, BeforeLeave, Live, LastJoin, Covers, Joins, Joining
  <2> QED  BY <1>1, <2>2, <2>3 DEF GroupInv
<1> QED  BY <1>2, <1>3

(* In every pipeline that joins the groups after its last start and then sets
   the repairer up, a connection that is up is in its group from then on until
   the groups are left, whatever the network does: for any number of
   connections, of drops and of repairs. *)
THEOREM RepairsKeepGroups ==
  ASSUME JoinsBeforeRepair
  PROVE  Spec => []RepairedIsJoined
<1>1. GroupInv => RepairedIsJoined
  <2> SUFFICES ASSUME GroupInv, rep # "off", Joins, BeforeLeave, NEW c \in Live,
                      hub[c] = "on", Settled(c)
               PROVE  c \in joined
    BY DEF RepairedIsJoined
  <2>1. PICK r \in DOMAIN Program : Program[r] = "Repair" /\ r < pos
    BY DEF GroupInv, RepairerSet
  <2>2. PICK j \in DOMAIN Program : j < r /\ LastJoin(j)
    BY <2>1 DEF JoinsBeforeRepair
  <2>3. pos > j
    BY <2>1, <2>2, Positions DEF GroupInv, AgentInv
  <2>4. ~Joining(c)
    BY CallersTyped DEF Settled, Joining
  <2> QED  BY <2>2, <2>3, <2>4 DEF GroupInv, InGroup, Covers
<1> QED  BY GroupInitInv, GroupStepInv, <1>1, PTL DEF Spec
=============================================================================
