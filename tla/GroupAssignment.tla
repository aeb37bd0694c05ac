-------------------------- MODULE GroupAssignment --------------------------
(***************************************************************************)
(* Who is in which group: the master deals the connection indexes to the   *)
(* agents, every agent joins its connections to groups, the repairer joins *)
(* a connection it restarted again, the senders pick the group to send to, *)
(* and every agent leaves the groups.  Each of these four places in the    *)
(* code computes the groups of a connection in its own way, from its       *)
(* global index, its local index, or the number of local connections.      *)
(***************************************************************************)
EXTENDS Integers, FiniteSets

CONSTANTS
  N,          (* number of agents                                          *)
  Totals,     (* values of ConnectionTotal                                 *)
  Counts,     (* values of GroupCount                                      *)
  MaxDropped  (* bound: connections that ever drop                         *)

Agent == 0..(N - 1)

\* With fewer connections than agents an agent gets an empty index list and
\* fails to parse it, and GroupCount = 0 fails on the division.
ASSUME GroupAssumption ==
  /\ N \in Nat \ {0}
  /\ \A t \in Totals : t \in Nat /\ t >= N
  /\ Counts \subseteq Nat \ {0}
  /\ MaxDropped \in Nat

VARIABLES
  total,            (* ConnectionTotal                                     *)
  groups,           (* GroupCount                                          *)
  connectionIndex,  (* per agent: the global index at each local index     *)
  phase,            (* the pipeline step: join, send, leave, left, aborted *)
  round,            (* JoinGroupForConnection: the outer loop, per agent   *)
  at,               (* JoinGroupForConnection: the inner loop, per agent   *)
  leaving,          (* per agent: the LeaveFromGroup calls to be answered  *)
  member,           (* the service's side: the groups of each connection   *)
  down,             (* connections that are down                           *)
  pending,          (* groups a repaired connection has yet to join again  *)
  dropped           (* connections that ever dropped, up to MaxDropped     *)

vars == <<total, groups, connectionIndex, phase, round, at, leaving, member,
          down, pending, dropped>>

\* Connections, known by their global index, and groups.
Conn == 0..(total - 1)
Group == 0..(groups - 1)

Size(a) == Cardinality(DOMAIN connectionIndex[a])

-----------------------------------------------------------------------------
(* MasterCreateConnection.                                                 *)

(* A mutated form of SplitNumber: the remainder is not dealt. *)
SplitNumberFloor(t, i) == t \div N

\* Util.SplitNumber: the first t % N agents get one more.
SplitNumber(t, i) == t \div N + (IF i < t % N THEN 1 ELSE 0)

\* Util.GetConnectionRange, its `begin' for each agent.
RangeBegin(t) ==
  LET begin[i \in 0..N] == IF i = 0 THEN 0 ELSE begin[i - 1] + SplitNumber(t, i - 1)
  IN  begin

\* indexes.Shuffle(): any order of the indexes.
Shuffles(t) ==
  {order \in [0..(t - 1) -> 0..(t - 1)] :
     \A i, j \in 0..(t - 1) : order[i] = order[j] => i = j}

Init ==
  /\ total \in Totals
  /\ groups \in Counts
  /\ \E indexes \in Shuffles(total) :
       connectionIndex =
         [a \in Agent |-> [i \in 0..(SplitNumber(total, a) - 1) |->
                             indexes[RangeBegin(total)[a] + i]]]
  /\ phase = "join"
  /\ round = [a \in Agent |-> 0]
  /\ at = [a \in Agent |-> 0]
  /\ leaving = [a \in Agent |-> {}]
  /\ member = [c \in Conn |-> {}]
  /\ down = {}
  /\ pending = [c \in Conn |-> {}]
  /\ dropped = {}

-----------------------------------------------------------------------------
(* JoinGroup: SignalRUtils.JoinGroupForConnection.                         *)

\* The number of passes over the local connections.
Rounds ==
  IF total > groups THEN 1
  ELSE groups \div total + (IF groups % total > 0 THEN 1 ELSE 0)

(* Mutated forms of JoinTarget: the last pass is a full one; the last pass is
   not made. *)
JoinTargetFullPass(c, r) ==
  IF total > groups THEN {c % groups} ELSE {r * total + c}

JoinTargetNoRemainder(c, r) ==
  IF total > groups THEN {c % groups}
  ELSE IF r < groups \div total THEN {r * total + c} ELSE {}

\* The group that connection c joins in pass r, if it joins one.
JoinTarget(c, r) ==
  IF total > groups THEN {c % groups}
  ELSE IF r < groups \div total \/ c < groups % total THEN {r * total + c} ELSE {}

\* The call for one connection is over; a connection that is down joins
\* nothing, its failure is counted and the loop goes on.
JoinNext(a) ==
  /\ phase = "join"
  /\ round[a] < Rounds
  /\ LET c == connectionIndex[a][at[a]] IN
     IF c \in down THEN UNCHANGED member
     ELSE member' = [member EXCEPT ![c] = @ \cup JoinTarget(c, round[a])]
  /\ IF at[a] + 1 = Size(a)
     THEN at' = [at EXCEPT ![a] = 0] /\ round' = [round EXCEPT ![a] = @ + 1]
     ELSE at' = [at EXCEPT ![a] = @ + 1] /\ UNCHANGED round
  /\ UNCHANGED <<total, groups, connectionIndex, phase, leaving, down, pending, dropped>>

\* Every agent has answered; RepairConnections and the sending steps follow.
JoinEnds ==
  /\ phase = "join"
  /\ \A a \in Agent : round[a] = Rounds
  /\ phase' = "send"
  /\ UNCHANGED <<total, groups, connectionIndex, round, at, leaving, member, down,
                 pending, dropped>>

-----------------------------------------------------------------------------
(* The repairer: SignalRUtils.TakeActionAfterStartingConnect.              *)

(* A mutated form of RejoinTargets: the local index is taken for the global
   one in either case. *)
RejoinTargetsLocal(a, i) ==
  IF total >= groups
  THEN {i % groups}
  ELSE {g \in Group : g >= i /\ (g - i) % total = 0}

\* The groups that the connection at local index i joins again: the loop of
\* the second case counts from LocalIndex.
RejoinTargets(a, i) ==
  IF total >= groups
  THEN {connectionIndex[a][i] % groups}
  ELSE {g \in Group : g >= i /\ (g - i) % total = 0}

\* The connection is up again; its task goes on to join.
Repair(a, i) ==
  LET c == connectionIndex[a][i] IN
  /\ phase # "join"
  /\ c \in down
  /\ pending[c] = {}
  /\ down' = down \ {c}
  /\ pending' = [pending EXCEPT ![c] = RejoinTargets(a, i)]
  /\ UNCHANGED <<total, groups, connectionIndex, phase, round, at, leaving, member, dropped>>

\* One JoinToGroup of the task, in ascending order of the groups.
RejoinNext(c) ==
  \E g \in pending[c] :
    /\ \A h \in pending[c] : g <= h
    /\ pending' = [pending EXCEPT ![c] = @ \ {g}]
    /\ IF c \in down THEN UNCHANGED member
       ELSE member' = [member EXCEPT ![c] = @ \cup {g}]
    /\ UNCHANGED <<total, groups, connectionIndex, phase, round, at, leaving, down, dropped>>

\* The service forgets the memberships of a connection that is gone.
Drop(c) ==
  /\ c \notin down
  /\ Cardinality(dropped \cup {c}) <= MaxDropped
  /\ dropped' = dropped \cup {c}
  /\ down' = down \cup {c}
  /\ member' = [member EXCEPT ![c] = {}]
  /\ UNCHANGED <<total, groups, connectionIndex, phase, round, at, leaving, pending>>

-----------------------------------------------------------------------------
(* LeaveGroup.                                                             *)

(* A mutated form of LeaveCalls: the local index is taken for the global. *)
LeaveCallsLocal(a) ==
  IF Size(a) >= groups
  THEN {<<connectionIndex[a][i], i % groups>> : i \in DOMAIN connectionIndex[a]}
  ELSE {<<connectionIndex[a][g % Size(a)], g>> : g \in Group}

\* The LeaveFromGroup calls of an agent: the choice is made on the number of
\* local connections, and in the second case by local index.
LeaveCalls(a) ==
  IF Size(a) >= groups
  THEN {<<connectionIndex[a][i], connectionIndex[a][i] % groups>> :
          i \in DOMAIN connectionIndex[a]}
  ELSE {<<connectionIndex[a][g % Size(a)], g>> : g \in Group}

\* Every agent throws if the groups are not of one size: the master's loop
\* ends here, before StopCollector, StopConnection and DisposeConnection.
LeaveBegins ==
  /\ phase = "send"
  /\ IF total % groups # 0
     THEN phase' = "aborted" /\ UNCHANGED leaving
     ELSE phase' = "leave" /\ leaving' = [a \in Agent |-> LeaveCalls(a)]
  /\ UNCHANGED <<total, groups, connectionIndex, round, at, member, down, pending, dropped>>

\* All calls are made together; on a connection that is down a call fails.
LeaveOne(a) ==
  \E call \in leaving[a] :
    /\ leaving' = [leaving EXCEPT ![a] = @ \ {call}]
    /\ IF call[1] \in down THEN UNCHANGED member
       ELSE member' = [member EXCEPT ![call[1]] = @ \ {call[2]}]
    /\ UNCHANGED <<total, groups, connectionIndex, phase, round, at, down, pending, dropped>>

LeaveEnds ==
  /\ phase = "leave"
  /\ \A a \in Agent : leaving[a] = {}
  /\ phase' = "left"
  /\ UNCHANGED <<total, groups, connectionIndex, round, at, leaving, member, down,
                 pending, dropped>>

\* What follows does not concern the groups.
Over == phase \in {"left", "aborted"} /\ UNCHANGED vars

-----------------------------------------------------------------------------
Next ==
  \/ \E a \in Agent : \/ JoinNext(a)
                      \/ \E i \in DOMAIN connectionIndex[a] : Repair(a, i)
                      \/ LeaveOne(a)
  \/ \E c \in Conn : RejoinNext(c) \/ Drop(c)
  \/ JoinEnds
  \/ LeaveBegins
  \/ LeaveEnds
  \/ Over

Spec == Init /\ [][Next]_vars

-----------------------------------------------------------------------------
\* SendToGroupBase.GenerateData: the group a connection sends to.
SendTarget(c) == c % groups

GroupTypeOK ==
  /\ total \in Totals
  /\ groups \in Counts
  /\ \A a \in Agent : connectionIndex[a] \in [0..(Size(a) - 1) -> Conn]
  /\ phase \in {"join", "send", "leave", "left", "aborted"}
  /\ round \in [Agent -> 0..Rounds]
  /\ \A a \in Agent : at[a] \in DOMAIN connectionIndex[a]
  /\ \A a \in Agent : leaving[a] \subseteq Conn \X Group
  /\ member \in [Conn -> SUBSET Group]
  /\ down \subseteq Conn
  /\ pending \in [Conn -> SUBSET Group]
  /\ dropped \subseteq Conn /\ Cardinality(dropped) <= MaxDropped

\* GetConnectionRange deals every connection index to exactly one agent, and
\* the agents' shares differ by at most one.
Dealt ==
  /\ \A c \in Conn : \E a \in Agent : \E i \in DOMAIN connectionIndex[a] :
       connectionIndex[a][i] = c
  /\ \A a, b \in Agent :
       /\ Size(a) - Size(b) \in {-1, 0, 1}
       /\ \A i \in DOMAIN connectionIndex[a] : \A j \in DOMAIN connectionIndex[b] :
            connectionIndex[a][i] = connectionIndex[b][j] => a = b /\ i = j

Members(g) == {c \in Conn : g \in member[c]}

\* When all agents have joined and nothing dropped, the groups are as equal
\* as they can be ("every group has 2 connections"), although no agent knows
\* the indexes of another; with fewer connections than groups every group
\* has one member and every connection the same number of groups, or one more.
Balanced ==
  phase = "send" /\ dropped = {} =>
    IF total >= groups
    THEN \A g \in Group : Cardinality(Members(g)) - total \div groups
                            \in IF total % groups = 0 THEN {0} ELSE {0, 1}
    ELSE /\ \A g \in Group : Cardinality(Members(g)) = 1
         /\ \A c \in Conn : Cardinality(member[c]) - groups \div total
                              \in IF groups % total = 0 THEN {0} ELSE {0, 1}

\* "send messages to the group the client is in": while the scenario sends,
\* a connection that is up and settled is in the group it sends to, also
\* after any number of drops and repairs.  With fewer connections than groups
\* this stops with the first repair, which joins by the local index.
SendsToOwnGroup ==
  phase = "send" =>
    \A c \in Conn :
      c \notin down /\ pending[c] = {} /\ (total >= groups \/ c \notin dropped)
        => SendTarget(c) \in member[c]

\* An agent that has at least as many connections as there are groups leaves
\* every group that its connections joined.
LeavesWhatItJoined ==
  phase = "left" =>
    \A a \in Agent : Size(a) >= groups =>
      \A i \in DOMAIN connectionIndex[a] :
        connectionIndex[a][i] \notin dropped => member[connectionIndex[a][i]] = {}

-----------------------------------------------------------------------------
\* doc/details.md, Send to Group: "Finally, leave groups."
EveryGroupIsLeft == phase = "left" => \A c \in Conn \ dropped : member[c] = {}
=============================================================================
