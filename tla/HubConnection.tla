--------------------------- MODULE HubConnection ---------------------------
(***************************************************************************)
(* The connection adapter of an agent: SignalRCoreHubConnection on top of  *)
(* HubConnectionBase, around the HubConnection of the SignalR client.  Its *)
(* operations are called concurrently: StartAsync by the connection        *)
(* batches and by the repairer, SendAsync by the scenarios, StopAsync and  *)
(* DisposeAsync by the stop steps and by Reconnect, OnClosed by the client *)
(* library.  An operation is cut where it awaits.                          *)
(*                                                                         *)
(* The client's own HubConnection is not part of the repository; `hub' and *)
(* `closed' model it the way the adapter uses it.  Its start, stop and     *)
(* dispose exclude each other, a start fails unless the hub is off, and    *)
(* its Closed event is raised on the thread pool some time after the       *)
(* connection went down.                                                   *)
(***************************************************************************)
EXTENDS Integers

CONSTANTS
  Conn,       (* the adapters that exist or may be created                 *)
  Caller,     (* who calls StartAsync: a batch, the repairer               *)
  SlowSends,  (* TRUE when a send may time out on a connection that is up  *)
  MaxPending  (* bound: Closed events kept pending per adapter             *)

ASSUME HubAssumption ==
  /\ SlowSends \in BOOLEAN
  /\ MaxPending \in Nat \ {0}

VARIABLES
  stat,       (* _stat                                                     *)
  lock,       (* adapters whose _connectionLock is taken                   *)
  call,       (* where each StartAsync call is, per adapter and caller     *)
  op,         (* the StopAsync or DisposeAsync in progress                 *)
  sending,    (* adapters with a SendAsync in flight                       *)
  hub,        (* external: is the client's connection off, on or disposed  *)
  closed      (* external: Closed events raised and not yet delivered      *)

hubVars == <<stat, lock, call, op, sending, hub, closed>>

Stat == {"Init", "Active", "Stopped", "Disposed"}

HubInit ==
  /\ stat = [c \in Conn |-> "Init"]
  /\ lock = {}
  /\ call = [c \in Conn |-> [k \in Caller |-> "none"]]
  /\ op = [c \in Conn |-> "none"]
  /\ sending = {}
  /\ hub = [c \in Conn |-> "off"]
  /\ closed = [c \in Conn |-> 0]

\* HubConnectionBase.MarkAsStopped, the part other code reads.
MarkAsStopped(c) == stat' = [stat EXCEPT ![c] = "Stopped"]

\* The client library is busy starting c: it holds the hub's own lock.
Connecting(c) == \E k \in Caller : call[c][k] = "connecting"

\* The hub of c is now h; if it was up, a Closed event is on its way.
GoDown(c, h) ==
  /\ hub' = [hub EXCEPT ![c] = h]
  /\ closed' = IF hub[c] = "on" /\ closed[c] < MaxPending
               THEN [closed EXCEPT ![c] = @ + 1]
               ELSE closed

-----------------------------------------------------------------------------
(* StartAsync.                                                             *)

(* A mutated form of StartEnter: _connectionLock is not tried. *)
StartEnterUnlocked(c, k) ==
  /\ call[c][k] = "none"
  /\ lock' = lock \cup {c}
  /\ call' = [call EXCEPT ![c][k] = "connecting"]
  /\ UNCHANGED <<stat, op, sending, hub, closed>>

\* _connectionLock.Wait(0) succeeds and _hubConnection.StartAsync begins.
StartEnter(c, k) ==
  /\ call[c][k] = "none"
  /\ c \notin lock
  /\ lock' = lock \cup {c}
  /\ call' = [call EXCEPT ![c][k] = "connecting"]
  /\ UNCHANGED <<stat, op, sending, hub, closed>>

\* The client's start succeeds; the adapter has not yet resumed.
StartConnects(c, k) ==
  /\ call[c][k] = "connecting"
  /\ hub[c] = "off"
  /\ hub' = [hub EXCEPT ![c] = "on"]
  /\ call' = [call EXCEPT ![c][k] = "connected"]
  /\ UNCHANGED <<stat, lock, op, sending, closed>>

(* A mutated form of StartThrows: the lock is not released in a finally. *)
StartThrowsLocked(c, k) ==
  /\ call[c][k] = "connecting"
  /\ MarkAsStopped(c)
  /\ call' = [call EXCEPT ![c][k] = "none"]
  /\ UNCHANGED <<lock, op, sending, hub, closed>>

(* A mutated form of StartThrows: a hub that is already up is taken for a
   successful start. *)
StartThrowsLenient(c, k) ==
  /\ call[c][k] = "connecting"
  /\ stat' = [stat EXCEPT ![c] = IF hub[c] = "on" THEN "Active" ELSE "Stopped"]
  /\ lock' = lock \ {c}
  /\ call' = [call EXCEPT ![c][k] = "none"]
  /\ UNCHANGED <<op, sending, hub, closed>>

\* The client's start throws: refused, cancelled after 3 s, or because the
\* hub is not off.  catch: MarkAsStopped; finally: Release.
StartThrows(c, k) ==
  /\ call[c][k] = "connecting"
  /\ MarkAsStopped(c)
  /\ lock' = lock \ {c}
  /\ call' = [call EXCEPT ![c][k] = "none"]
  /\ UNCHANGED <<op, sending, hub, closed>>

\* The adapter resumes after a successful start, whatever has happened to
\* the connection in between: _stat is Active; finally: Release.
StartReturns(c, k) ==
  /\ call[c][k] = "connected"
  /\ stat' = [stat EXCEPT ![c] = "Active"]
  /\ lock' = lock \ {c}
  /\ call' = [call EXCEPT ![c][k] = "none"]
  /\ UNCHANGED <<op, sending, hub, closed>>

-----------------------------------------------------------------------------
(* StopAsync and DisposeAsync: the adapter's part, then the client's.      *)

StopEnter(c) ==
  /\ op[c] = "none"
  /\ MarkAsStopped(c)
  /\ op' = [op EXCEPT ![c] = "stopping"]
  /\ UNCHANGED <<lock, call, sending, hub, closed>>

StopReturns(c) ==
  /\ op[c] = "stopping"
  /\ ~Connecting(c)
  /\ op' = [op EXCEPT ![c] = "none"]
  /\ GoDown(c, IF hub[c] = "gone" THEN "gone" ELSE "off")
  /\ UNCHANGED <<stat, lock, call, sending>>

DisposeEnter(c) ==
  /\ op[c] = "none"
  /\ stat' = [stat EXCEPT ![c] = "Disposed"]
  /\ op' = [op EXCEPT ![c] = "disposing"]
  /\ UNCHANGED <<lock, call, sending, hub, closed>>

(* A mutated form of DisposeReturns: the client's connection is kept. *)
DisposeKeepsHub(c) ==
  /\ op[c] = "disposing"
  /\ ~Connecting(c)
  /\ op' = [op EXCEPT ![c] = "none"]
  /\ UNCHANGED <<stat, lock, call, sending, hub, closed>>

DisposeReturns(c) ==
  /\ op[c] = "disposing"
  /\ ~Connecting(c)
  /\ op' = [op EXCEPT ![c] = "none"]
  /\ GoDown(c, "gone")
  /\ UNCHANGED <<stat, lock, call, sending>>

-----------------------------------------------------------------------------
(* SendAsync, Closed and the network.                                      *)

\* BaseSendAsync: only an Active connection sends; the send is then awaited.
SendEnter(c) ==
  /\ c \notin sending
  /\ stat[c] = "Active"
  /\ sending' = sending \cup {c}
  /\ UNCHANGED <<stat, lock, call, op, hub, closed>>

SendReturns(c) ==
  /\ c \in sending
  /\ ~Connecting(c)
  /\ hub[c] = "on"
  /\ sending' = sending \ {c}
  /\ UNCHANGED <<stat, lock, call, op, hub, closed>>

\* The connection is down, or the 5 s cancellation token fired.
SendThrows(c) ==
  /\ c \in sending
  /\ ~Connecting(c)
  /\ hub[c] # "on" \/ SlowSends
  /\ sending' = sending \ {c}
  /\ MarkAsStopped(c)
  /\ UNCHANGED <<lock, call, op, hub, closed>>

\* A send that does not ask for _stat first, as JoinToGroup does, finds the
\* connection down.
SendFails(c) ==
  /\ ~Connecting(c)
  /\ hub[c] # "on"
  /\ MarkAsStopped(c)
  /\ UNCHANGED <<lock, call, op, sending, hub, closed>>

\* The network or the service drops the connection.
Drop(c) ==
  /\ hub[c] = "on"
  /\ GoDown(c, "off")
  /\ UNCHANGED <<stat, lock, call, op, sending>>

(* A mutated form of OnClosed: the handler was added to the event twice. *)
OnClosedTwice(c) ==
  /\ closed[c] > 0
  /\ closed' = [closed EXCEPT ![c] = @ - 2]
  /\ MarkAsStopped(c)
  /\ UNCHANGED <<lock, call, op, sending, hub>>

\* OnClosed: whatever the reason, a connection that is not Stopped becomes so.
OnClosed(c) ==
  /\ closed[c] > 0
  /\ closed' = [closed EXCEPT ![c] = @ - 1]
  /\ IF stat[c] # "Stopped" THEN MarkAsStopped(c) ELSE UNCHANGED stat
  /\ UNCHANGED <<lock, call, op, sending, hub>>

-----------------------------------------------------------------------------
HubNext ==
  \E c \in Conn :
    \/ \E k \in Caller : \/ StartEnter(c, k)
                         \/ StartConnects(c, k)
                         \/ StartThrows(c, k)
                         \/ StartReturns(c, k)
    \/ StopEnter(c)
    \/ StopReturns(c)
    \/ DisposeEnter(c)
    \/ DisposeReturns(c)
    \/ SendEnter(c)
    \/ SendReturns(c)
    \/ SendThrows(c)
    \/ SendFails(c)
    \/ Drop(c)
    \/ OnClosed(c)

\* A started operation of the client library ends (StartConnect cancels a
\* start after 3 s), and the thread pool runs what is ready.  Nothing is
\* assumed about when an operation is called or when the network fails.
HubFairness ==
  \A c \in Conn, k \in Caller :
    WF_hubVars(StartThrows(c, k)) /\ WF_hubVars(StartReturns(c, k))

HubSpec == HubInit /\ [][HubNext]_hubVars /\ HubFairness

-----------------------------------------------------------------------------
HubTypeOK ==
  /\ stat \in [Conn -> Stat]
  /\ lock \in SUBSET Conn
  /\ call \in [Conn -> [Caller -> {"none", "connecting", "connected"}]]
  /\ op \in [Conn -> {"none", "stopping", "disposing"}]
  /\ sending \in SUBSET Conn
  /\ hub \in [Conn -> {"off", "on", "gone"}]
  /\ closed \in [Conn -> 0..MaxPending]

\* "avoid multiple try to reconnect" (SignalRCoreHubConnection.StartAsync):
\* the lock is taken exactly while one caller's StartAsync is in flight, so
\* the batches and the repairer never start one connection twice at once.
OneStarter ==
  \A c \in Conn :
    /\ c \in lock <=> \E k \in Caller : call[c][k] # "none"
    /\ \A k, m \in Caller :
         call[c][k] # "none" /\ call[c][m] # "none" => k = m

\* Up, but given up by the adapter: a send timed out, or the Closed event of
\* an earlier drop was delivered after the restart.
Abandoned(c) ==
  /\ hub[c] = "on"
  /\ stat[c] # "Active"
  /\ \A k \in Caller : call[c][k] # "connected"

\* No StartAsync revives an abandoned connection: StartAsync never stops the
\* client first, so each attempt throws, until the connection goes down.
AbandonedUntilDown ==
  [][\A c \in Conn : Abandoned(c) => Abandoned(c)' \/ hub'[c] # "on"]_hubVars

\* Whatever is called and however the network behaves, StartAsync gives the
\* lock back: no adapter becomes unstartable.
LockReleased == \A c \in Conn : c \in lock ~> c \notin lock
=============================================================================
