---------------------------- MODULE BoundedPool ----------------------------
(***************************************************************************)
(* What every batch runner of src/common/Util.cs promises its caller: each *)
(* item is processed exactly once, and never more than Max items are being *)
(* processed at the same time.  How the bound is kept is left open: this   *)
(* is the abstract specification that the concrete runners implement.      *)
(***************************************************************************)
EXTENDS Integers, FiniteSets

CONSTANTS
  Items,    (* the elements of the list handed to the runner               *)
  Max       (* the `max' argument: the number of items allowed in flight   *)

VARIABLES
  running,  (* items whose callback f(item) has begun and not ended        *)
  finished  (* items whose callback has ended, normally or by an exception *)

vars == <<running, finished>>

Init ==
  /\ running = {}
  /\ finished = {}

Begin(x) ==
  /\ x \notin running \cup finished
  /\ Cardinality(running) < Max
  /\ running' = running \cup {x}
  /\ UNCHANGED finished

End(x) ==
  /\ x \in running
  /\ running' = running \ {x}
  /\ finished' = finished \cup {x}

Next == \E x \in Items : Begin(x) \/ End(x)

Spec == Init /\ [][Next]_vars
=============================================================================
