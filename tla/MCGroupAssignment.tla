------------------------- MODULE MCGroupAssignment -------------------------
(* Two agents; as many connections as groups, more and fewer, divisible or  *)
(* not, with equal and unequal shares of the agents.                        *)
EXTENDS GroupAssignment

MCTotals == 2..4
MCCounts == 1..5
=============================================================================
