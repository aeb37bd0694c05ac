-------------------------- MODULE MCHubConnection --------------------------
(* One adapter, started by a batch and by the repairer, over which two      *)
(* streams of two items are sent, so that a stream can follow one whose     *)
(* writer is still at work: the operations of different adapters do not     *)
(* touch each other.                                                        *)
EXTENDS StreamingEcho

CONSTANTS c1, batch, repair

MCConn == {c1}
MCCaller == {batch, repair}
=============================================================================
