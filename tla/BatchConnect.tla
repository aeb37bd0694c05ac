---------------------------- MODULE BatchConnect ----------------------------
(***************************************************************************)
(* BatchConnectionBase.BatchConnect: the switch over the BatchMode of a    *)
(* step.  A pipeline may give each of its connecting steps a mode of its   *)
(* own; here a first step runs in the default mode, HighPress              *)
(* (BatchProcess), and when it has returned, its ramp perhaps still        *)
(* running, a second step runs in one of the other modes (PacedBatch).     *)
(***************************************************************************)
EXTENDS BatchProcess, PacedBatch

connectVars == <<vars, pacedVars>>

ConnectInit == Init /\ PacedInit

\* A step in one of the other modes begins once the first has returned.
Then(action) == Returned /\ action /\ UNCHANGED vars

ConnectNext ==
  \/ Next /\ UNCHANGED pacedVars
  \/ Then(PacedNext)

\* The fairness of both steps; of the second only once it has begun.
ConnectFairness ==
  /\ Fairness
  /\ WF_connectVars(Then(EndOne))
  /\ WF_connectVars(Then(Beginning))
  /\ WF_connectVars(Then(RampReleases))
  /\ WF_connectVars(Then(Looping))
  /\ WF_connectVars(Then(Ending))
  /\ WF_connectVars(Then(Tick))

ConnectSpec == ConnectInit /\ [][ConnectNext]_connectVars /\ ConnectFairness
=============================================================================
