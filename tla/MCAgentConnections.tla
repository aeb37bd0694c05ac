------------------------- MODULE MCAgentConnections -------------------------
(***************************************************************************)
(* Two connections, a spare adapter for each and each Reconnect, and the   *)
(* pipelines that the configuration generator writes for a group scenario: *)
(* with the background repairer (perf), with reconnects between sending    *)
(* steps (strict perf), and perf while its sending step lasts (long run).  *)
(* A pipeline written by hand may set the repairer up before the           *)
(* connections are started, so that it runs beside the batches.            *)
(***************************************************************************)
EXTENDS AgentConnections

MCCaller == {Batch, Repairer}
PerfGroup == <<"Start", "Reconnect", "Join", "Repair", "Send", "Leave", "Stop",
               "Dispose">>
StrictGroup == <<"Start", "Reconnect", "Join", "Send", "Reconnect", "Send",
                 "Leave", "Stop", "Dispose">>
EarlyRepair == <<"Repair", "Start", "Reconnect", "Send", "Stop", "Dispose">>
LongRun == <<"Start", "Reconnect", "Join", "Repair", "Send">>
=============================================================================
