---------------------------- MODULE BatchProcess ----------------------------
(***************************************************************************)
(* Util.BatchProcess<T>(source, f, max): the runner behind the HighPress   *)
(* connection mode and behind the connection repairer.  One task per item  *)
(* waits on a SemaphoreSlim(max >> 1, max), runs f(item), swallows its     *)
(* exception and releases the semaphore in a finally block; a background   *)
(* ramp releases the missing max - (max >> 1) permits one by one, 100 ms   *)
(* apart, and goes on after the items are done.                            *)
(***************************************************************************)
EXTENDS Integers, FiniteSets

CONSTANTS
  Items,    (* the elements of source                                      *)
  Max       (* the max argument                                            *)

ASSUME BatchAssumption ==
  /\ IsFiniteSet(Items)
  /\ Max \in Nat \ {0}

VARIABLES
  count,    (* s.CurrentCount                                              *)
  ramp,     (* the ramp's loop variable i                                  *)
  pc,       (* where each item's task is                                   *)
  full      (* tasks whose Release threw SemaphoreFullException            *)

vars == <<count, ramp, pc, full>>

\* The ramp's own name among the tasks of `full'.
Ramp == "ramp"

\* var initial = (max >> 1).
Initial == Max \div 2

At(l) == {x \in Items : pc[x] = l}

Init ==
  /\ count = Initial
  /\ ramp = Initial
  /\ pc = [x \in Items |-> "wait"]
  /\ full = {}

\* SemaphoreSlim.Release(): one permit more, unless that passes its maximum.
Release(t) ==
  \/ /\ count < Max
     /\ count' = count + 1
     /\ UNCHANGED full
  \/ /\ count = Max
     /\ full' = full \cup {t}
     /\ UNCHANGED count

(* A mutated form of Acquire: the task does not take a permit. *)
AcquireWithoutPermit(x) ==
  /\ pc[x] = "wait"
  /\ pc' = [pc EXCEPT ![x] = "run"]
  /\ UNCHANGED <<count, ramp, full>>

\* await s.WaitAsync() returns and f(item) begins.
Acquire(x) ==
  /\ pc[x] = "wait"
  /\ count > 0
  /\ count' = count - 1
  /\ pc' = [pc EXCEPT ![x] = "run"]
  /\ UNCHANGED <<ramp, full>>

(* Mutated forms of Finish: Release is not in a finally block and is skipped
   when f throws; Release is called in the catch block as well. *)
FinishKeepsPermit(x) ==
  /\ pc[x] = "run"
  /\ pc' = [pc EXCEPT ![x] = "done"]
  /\ \/ Release(x)
     \/ UNCHANGED <<count, full>>
  /\ UNCHANGED ramp

FinishReleasesTwice(x) ==
  /\ pc[x] = "run"
  /\ pc' = [pc EXCEPT ![x] = "done"]
  /\ count' = IF count + 2 <= Max THEN count + 2 ELSE Max
  /\ full' = IF count + 2 <= Max THEN full ELSE full \cup {x}
  /\ UNCHANGED ramp

\* f(item) ends or throws (the catch block only logs); finally s.Release().
Finish(x) ==
  /\ pc[x] = "run"
  /\ pc' = [pc EXCEPT ![x] = "done"]
  /\ Release(x)
  /\ UNCHANGED ramp

(* A mutated form of RampStep: the loop condition is i <= max. *)
RampStepTooFar ==
  /\ ramp <= Max
  /\ Ramp \notin full
  /\ ramp' = ramp + 1
  /\ Release(Ramp)
  /\ UNCHANGED pc

\* One turn of the ramp loop: Task.Delay(100), s.Release(), i++.
RampStep ==
  /\ ramp < Max
  /\ Ramp \notin full
  /\ ramp' = ramp + 1
  /\ Release(Ramp)
  /\ UNCHANGED pc

\* Task.WhenAll has completed: the caller may go on, the ramp still runs.
Returned == At("done") = Items

\* Everything has run: the only state in which nothing is left to do.
Quiet == Returned /\ (ramp = Max \/ Ramp \in full) /\ UNCHANGED vars

Next ==
  \/ \E x \in Items : Acquire(x)
  \/ \E x \in Items : Finish(x)
  \/ RampStep
  \/ Quiet

\* The thread pool runs every ready continuation, the callbacks used with
\* this runner end (StartConnect is cancelled after 3 s), timers fire.
Fairness ==
  /\ \A x \in Items : WF_vars(Acquire(x)) /\ WF_vars(Finish(x))
  /\ WF_vars(RampStep)

Spec == Init /\ [][Next]_vars /\ Fairness

-----------------------------------------------------------------------------
TypeOK ==
  /\ count \in 0..Max
  /\ ramp \in Initial..Max
  /\ pc \in [Items -> {"wait", "run", "done"}]
  /\ full \in SUBSET (Items \cup {Ramp})

\* Permits are conserved in every interleaving of the items and the ramp:
\* what the semaphore holds and what the running items hold is exactly what
\* the ramp has handed out so far, so the callbacks in flight never pass the
\* slow-start limit reached, and never max.
Conservation == count + Cardinality(At("run")) = ramp

\* Neither an item nor the ramp ever releases a permit that is not owed:
\* no SemaphoreFullException escapes a finally block and loses an item.
NoSpuriousRelease == full = {}

\* Every item is processed and the WhenAll task completes, max = 1 (no
\* permit at the start) included.
AllProcessed == <>[]Returned

\* BatchProcess implements the abstract pool.
Pool == INSTANCE BoundedPool
          WITH running <- At("run"), finished <- At("done")

\* Each item is processed once, with at most max of them in flight.
ImplementsPool == Pool!Spec
=============================================================================
