------------------------- MODULE BatchProcess_proof -------------------------
(***************************************************************************)
(* Proofs about BatchProcess for every finite list of items and every      *)
(* positive max.                                                           *)
(***************************************************************************)
EXTENDS BatchProcess, FiniteSetTheorems, TLAPS

\* The inductive invariant: conservation needs the types, and the absence
\* of spurious releases follows from conservation.
IInv == TypeOK /\ Conservation /\ NoSpuriousRelease

\* Half of max, the initial permit count, lies between 0 and max.
LEMMA InitialBound == Initial \in 0..Max
  BY BatchAssumption DEF Initial

\* The tasks at a label are finitely many.
LEMMA AtFinite ==
  ASSUME NEW l
  PROVE  IsFiniteSet(At(l)) /\ Cardinality(At(l)) \in Nat
<1>1. At(l) \subseteq Items
  BY DEF At
<1>2. QED
  BY <1>1, BatchAssumption, FS_Subset, FS_CardinalityType

\* A task that acquires a permit is one more running task.
LEMMA AcquireCount ==
  ASSUME TypeOK, NEW x \in Items, Acquire(x)
  PROVE  Cardinality(At("run")') = Cardinality(At("run")) + 1
<1>1. At("run")' = At("run") \cup {x} /\ x \notin At("run")
  BY DEF TypeOK, Acquire, At
<1>2. QED
  BY <1>1, AtFinite, FS_AddElement

\* A task that finishes is one running task less.
LEMMA FinishCount ==
  ASSUME TypeOK, NEW x \in Items, Finish(x)
  PROVE  Cardinality(At("run")') = Cardinality(At("run")) - 1
<1>1. At("run")' = At("run") \ {x} /\ x \in At("run")
  BY DEF TypeOK, Finish, At
<1>2. QED
  BY <1>1, AtFinite, FS_RemoveElement

LEMMA InitInvariant == Init => IInv
<1> SUFFICES ASSUME Init PROVE IInv
  OBVIOUS
<1>1. TypeOK
  BY InitialBound, BatchAssumption DEF Init, TypeOK, Initial
<1>2. At("run") = {}
  BY DEF Init, At
<1>3. Conservation
  BY <1>2, FS_EmptySet, InitialBound DEF Init, Conservation
<1>4. QED
  BY <1>1, <1>3 DEF Init, IInv, NoSpuriousRelease

LEMMA StepInvariant == IInv /\ [Next]_vars => IInv'
<1> SUFFICES ASSUME IInv, [Next]_vars PROVE IInv'
  OBVIOUS
<1> USE DEF IInv, NoSpuriousRelease
<1>0. /\ Max \in Nat /\ Max > 0 /\ Initial \in 0..Max
      /\ count \in 0..Max /\ ramp \in Initial..Max
      /\ Cardinality(At("run")) \in Nat
  BY InitialBound, BatchAssumption, AtFinite DEF TypeOK
<1>1. ASSUME NEW x \in Items, Acquire(x)
      PROVE  IInv'
  <2>1. TypeOK'
    BY <1>0, <1>1 DEF TypeOK, Acquire
  <2>2. Cardinality(At("run")') = Cardinality(At("run")) + 1
    BY <1>1, AcquireCount
  <2>3. count' = count - 1 /\ ramp' = ramp /\ full' = full
    BY <1>1 DEF Acquire
  <2>4. Conservation'
    BY <1>0, <2>2, <2>3 DEF Conservation
  <2>5. QED
    BY <2>1, <2>3, <2>4
<1>2. ASSUME NEW x \in Items, Finish(x)
      PROVE  IInv'
  <2>1. x \in At("run")
    BY <1>2 DEF Finish, At
  <2>2. Cardinality(At("run")') = Cardinality(At("run")) - 1
    BY <1>2, FinishCount
  <2>3. Cardinality(At("run")') \in Nat
    <3>1. At("run")' \subseteq Items
      BY DEF At
    <3>2. QED
      BY <3>1, BatchAssumption, FS_Subset, FS_CardinalityType
  <2>4. count < Max
    BY <1>0, <2>2, <2>3 DEF Conservation
  <2>5. count' = count + 1 /\ full' = full /\ ramp' = ramp
    BY <1>0, <1>2, <2>4 DEF Finish, Release
  <2>6. TypeOK'
    BY <1>0, <1>2, <2>4, <2>5 DEF TypeOK, Finish
  <2>7. Conservation'
    BY <1>0, <2>2, <2>5 DEF Conservation
  <2>8. QED
    BY <2>5, <2>6, <2>7
<1>3. CASE RampStep
  <2>1. At("run")' = At("run")
    BY <1>3 DEF RampStep, At
  <2>2. count < Max
    BY <1>0, <1>3 DEF Conservation, RampStep
  <2>3. count' = count + 1 /\ full' = full /\ ramp' = ramp + 1 /\ pc' = pc
    BY <1>0, <1>3, <2>2 DEF RampStep, Release
  <2>4. TypeOK'
    BY <1>0, <1>3, <2>2, <2>3 DEF TypeOK, RampStep
  <2>5. Conservation'
    BY <1>0, <2>1, <2>3 DEF Conservation
  <2>6. QED
    BY <2>3, <2>4, <2>5
<1>4. CASE Quiet \/ UNCHANGED vars
  <2>1. UNCHANGED vars
    BY <1>4 DEF Quiet
  <2>2. QED
    BY <2>1 DEF vars, TypeOK, Conservation, At
<1>5. QED
  BY <1>1, <1>2, <1>3, <1>4 DEF Next

\* The inductive invariant holds in every reachable state.
LEMMA Invariance == Spec => []IInv
<1>1. QED
  BY InitInvariant, StepInvariant, PTL DEF Spec

\* The variables of the batch runner keep their types.
THEOREM TypeCorrect == Spec => []TypeOK
<1>1. IInv => TypeOK
  BY DEF IInv
<1>2. QED
  BY <1>1, Invariance, PTL

\* Whatever the list and max, permits are neither lost nor invented by any
\* interleaving of the items and the slow-start ramp of Util.BatchProcess.
THEOREM PermitsConserved == Spec => []Conservation
<1>1. IInv => Conservation
  BY DEF IInv
<1>2. QED
  BY <1>1, Invariance, PTL

\* No Release of an item or of the ramp throws SemaphoreFullException.
THEOREM ReleasesAreSafe == Spec => []NoSpuriousRelease
<1>1. IInv => NoSpuriousRelease
  BY DEF IInv
<1>2. QED
  BY <1>1, Invariance, PTL

-----------------------------------------------------------------------------
(* BatchProcess implements BoundedPool: Acquire is Begin, Finish is End,    *)
(* and the ramp is invisible.                                               *)

LEMMA PoolInit == Init => Pool!Init
  BY DEF Init, Pool!Init, At

LEMMA PoolStep == IInv /\ [Next]_vars => [Pool!Next]_(Pool!vars)
<1> SUFFICES ASSUME IInv, [Next]_vars PROVE [Pool!Next]_(Pool!vars)
  OBVIOUS
<1>0. /\ Max \in Nat /\ Initial \in 0..Max
      /\ count \in 0..Max /\ ramp \in Initial..Max
      /\ Cardinality(At("run")) \in Nat
  BY InitialBound, BatchAssumption, AtFinite DEF TypeOK, IInv
<1>1. ASSUME NEW x \in Items, Acquire(x)
      PROVE  Pool!Begin(x)
  <2>1. x \notin At("run") \cup At("done")
    BY <1>1 DEF Acquire, At
  <2>2. Cardinality(At("run")) < Max
    BY <1>0, <1>1 DEF IInv, Conservation, Acquire
  <2>3. At("run")' = At("run") \cup {x} /\ At("done")' = At("done")
    BY <1>1 DEF Acquire, At, IInv, TypeOK
  <2>4. QED
    BY <2>1, <2>2, <2>3 DEF Pool!Begin, Pool!Cardinality, Cardinality
<1>2. ASSUME NEW x \in Items, Finish(x)
      PROVE  Pool!End(x)
  <2>1. x \in At("run")
    BY <1>2 DEF Finish, At
  <2>2. At("run")' = At("run") \ {x} /\ At("done")' = At("done") \cup {x}
    BY <1>2 DEF Finish, At, IInv, TypeOK
  <2>3. QED
    BY <2>1, <2>2 DEF Pool!End
<1>3. CASE RampStep \/ Quiet \/ UNCHANGED vars
  <2>1. pc' = pc
    BY <1>3 DEF RampStep, Quiet, vars
  <2>2. QED
    BY <2>1 DEF Pool!vars, At
<1>4. QED
  BY <1>1, <1>2, <1>3 DEF Next, Pool!Next

\* Util.BatchProcess processes every item at most once and never has more
\* than max callbacks in flight, for every list and every positive max.
THEOREM Implementation == Spec => ImplementsPool
<1>1. QED
  BY PoolInit, PoolStep, Invariance, PTL DEF Spec, ImplementsPool, Pool!Spec
=============================================================================
