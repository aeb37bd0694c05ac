------------------------ MODULE GroupAssignment_proof ------------------------
(***************************************************************************)
(* Proofs about GroupAssignment for any number of agents, any numbers of   *)
(* connections and of groups and any number of connections that drop: the  *)
(* master deals every index once, the passes of the join loop make groups  *)
(* of equal size, which are the ones the senders and the leaving agents    *)
(* count on, and a repaired connection gets its group back.                *)
(***************************************************************************)
EXTENDS GroupAssignment, FiniteSetTheorems, TLAPS

-----------------------------------------------------------------------------
(* Arithmetic.                                                             *)

\* A set of natural numbers has a least element: what stands in for induction.
LEMMA LeastNat ==
  ASSUME NEW T, T \subseteq Nat, T # {}
  PROVE  \E x \in T : \A y \in T : x <= y
<1> DEFINE R == OpToRel(<, Nat)
<1>1. IsWellFoundedOn(R, Nat)
  BY NatLessThanWellFounded
<1>2. \A x, y \in Nat : x < y => <<x, y>> \in R
  BY DEF OpToRel
<1> HIDE DEF R
<1>3. PICK x \in T : \A y \in T : ~(<<y, x>> \in R)
  BY <1>1, WFMin
<1>4. ASSUME NEW y \in T PROVE x <= y
  <2>1. x \in Nat /\ y \in Nat
    OBVIOUS
  <2>2. ~(y < x)
    BY <1>2, <1>3, <2>1
  <2>3. QED
    BY <2>1, <2>2
<1>5. QED
  BY <1>3, <1>4

\* A product by a natural number does not shrink when the other factor grows.
LEMMA Monotone ==
  ASSUME NEW b \in Nat, NEW x \in Nat, NEW y \in Nat, x <= y
  PROVE  x * b \in Nat /\ y * b \in Nat /\ x * b <= y * b
<1>1. PICK d \in Nat : y = x + d
  <2>1. y - x \in Nat /\ y = x + (y - x)
    OBVIOUS
  <2>2. QED
    BY <2>1
<1>2. y * b = x * b + d * b /\ x * b \in Nat /\ d * b \in Nat
  BY <1>1
<1>3. QED
  BY <1>2

LEMMA Quotient ==
  ASSUME NEW t \in Nat, NEW d \in Nat \ {0}
  PROVE  /\ t \div d \in Nat /\ t % d \in 0..(d - 1)
         /\ t = d * (t \div d) + (t % d)
         /\ t >= d => t \div d >= 1
         /\ t < d => t \div d = 0 /\ t % d = t
<1> DEFINE q == t \div d
<1>1. q \in Nat /\ t % d \in 0..(d - 1) /\ t = d * q + (t % d)
  OBVIOUS
<1> HIDE DEF q
<1>2. q # 0 => 1 * d <= q * d
  BY <1>1, Monotone
<1>3. d * q = q * d /\ q * d \in Nat
  BY <1>1
<1>4. t < d => q = 0
  <2>1. d * q <= t
    BY <1>1, <1>3
  <2>2. QED
    BY <1>2, <1>3, <2>1
<1>5. q = 0 => t = t % d
  BY <1>1
<1>6. t >= d => q # 0
  BY <1>1, <1>5
<1>7. QED
  BY <1>1, <1>4, <1>5, <1>6 DEF q

\* Quotient and remainder are the only ones.
LEMMA Division ==
  ASSUME NEW d \in Nat \ {0}, NEW x \in Nat, NEW y \in 0..(d - 1)
  PROVE  /\ d * x + y \in Nat
         /\ (d * x + y) \div d = x
         /\ (d * x + y) % d = y
<1>1. PICK t \in Nat : t = d * x + y
  <2>1. d * x \in Nat /\ y \in Nat
    OBVIOUS
  <2>2. QED
    BY <2>1
<1>2. PICK q \in Nat, r \in 0..(d - 1) : q = t \div d /\ r = t % d /\ t = d * q + r
  <2>1. t \div d \in Nat /\ t % d \in 0..(d - 1) /\ t = d * (t \div d) + (t % d)
    BY <1>1, Quotient
  <2>2. QED
    BY <2>1, Zenon
<1>3. d * x = x * d /\ d * q = q * d /\ (x + 1) * d = x * d + d /\ (q + 1) * d = q * d + d
      /\ x * d \in Nat /\ q * d \in Nat
  OBVIOUS
<1>4. ~(x < q)
  <2>1. x < q => (x + 1) * d <= q * d
    BY Monotone
  <2>2. QED
    BY <1>1, <1>2, <1>3, <2>1
<1>5. ~(q < x)
  <2>1. q < x => (q + 1) * d <= x * d
    BY Monotone
  <2>2. QED
    BY <1>1, <1>2, <1>3, <2>1
<1>6. q = x
  BY <1>4, <1>5
<1>7. r = y
  BY <1>1, <1>2, <1>3, <1>6
<1>8. QED
  BY <1>1, <1>2, <1>6, <1>7

\* One number in d leaves the remainder k, and one more below the last turn.
LEMMA Residues ==
  ASSUME NEW n \in Nat, NEW d \in Nat \ {0}, NEW k \in 0..(d - 1)
  PROVE  Cardinality({x \in 0..(n - 1) : x % d = k})
           = (n \div d) + (IF k < n % d THEN 1 ELSE 0)
<1> DEFINE S == {x \in 0..(n - 1) : x % d = k}
<1>1. PICK q \in Nat, r \in 0..(d - 1) : q = n \div d /\ r = n % d /\ n = d * q + r
  BY Quotient
<1>2. PICK m \in Nat : m = q + (IF k < r THEN 1 ELSE 0)
  OBVIOUS
<1>3. ASSUME NEW j \in Nat
      PROVE  /\ d * j + k \in Nat /\ (d * j + k) % d = k
             /\ d * j + k < n <=> j < m
  <2>1. d * j + k \in Nat /\ (d * j + k) % d = k
    BY Division
  <2>2. d * j = j * d /\ d * q = q * d /\ (j + 1) * d = j * d + d /\ (q + 1) * d = q * d + d
        /\ j * d \in Nat /\ q * d \in Nat
    OBVIOUS
  <2>3. j < q => (j + 1) * d <= q * d
    BY Monotone
  <2>4. j > q => (q + 1) * d <= j * d
    BY Monotone
  <2>5. j = q => j * d = q * d
    OBVIOUS
  <2>6. d * j + k < n <=> j < m
    BY <1>1, <1>2, <2>2, <2>3, <2>4, <2>5
  <2>7. QED
    BY <2>1, <2>6
<1>4. \A x \in S : x \in Nat /\ x \div d \in Nat /\ x = d * (x \div d) + k
  BY Quotient
<1> DEFINE f == [j \in 0..(m - 1) |-> d * j + k]
<1>5. f \in [0..(m - 1) -> S]
  BY <1>2, <1>3
<1>6. ASSUME NEW i \in 0..(m - 1), NEW j \in 0..(m - 1), f[i] = f[j] PROVE i = j
  <2>1. f[i] = d * i + k /\ f[j] = d * j + k
    OBVIOUS
  <2>2. i \in Nat /\ j \in Nat
    BY <1>2
  <2>3. (d * i + k) \div d = i /\ (d * j + k) \div d = j
    BY <2>2, Division
  <2>4. QED
    BY <1>6, <2>1, <2>3
<1>7. ASSUME NEW x \in S PROVE \E j \in 0..(m - 1) : f[j] = x
  <2>1. PICK j \in Nat : x = d * j + k
    BY <1>4
  <2>2. x < n
    BY <2>1
  <2>3. j < m
    BY <1>3, <2>1, <2>2
  <2>4. j \in 0..(m - 1)
    BY <1>2, <2>3
  <2>5. f[j] = d * j + k
    BY <2>4
  <2>6. QED
    BY <2>1, <2>4, <2>5
<1>8. ExistsBijection(0..(m - 1), S)
  <2> HIDE DEF f, S
  <2>1. f \in Bijection(0..(m - 1), S)
    BY <1>5, <1>6, <1>7 DEF Bijection, Injection, Surjection, IsInjective
  <2>2. QED
    BY <2>1 DEF ExistsBijection
<1>9. IsFiniteSet(0..(m - 1)) /\ Cardinality(0..(m - 1)) = m
  BY <1>2, FS_Interval
<1>10. Cardinality(S) = m
  <2> HIDE DEF S
  <2>1. QED
    BY <1>8, <1>9, FS_Bijection
<1>11. QED
  BY <1>1, <1>2, <1>10

-----------------------------------------------------------------------------
(* The dealing of the indexes.                                             *)

\* The first index of agent i, as GetConnectionRange's loop sums it up.
Sum(t, i) == i * (t \div N) + (IF i <= t % N THEN i ELSE t % N)

LEMMA SumFacts ==
  ASSUME NEW t \in Nat
  PROVE  /\ \A i \in 0..N : Sum(t, i) \in Nat
         /\ Sum(t, 0) = 0
         /\ Sum(t, N) = t
         /\ \A i \in Agent : SplitNumber(t, i) \in Nat /\ i \in 0..N /\ i + 1 \in 0..N
         /\ \A i \in Agent : Sum(t, i + 1) = Sum(t, i) + SplitNumber(t, i)
         /\ \A i, j \in 0..N : i <= j => Sum(t, i) <= Sum(t, j)
<1> DEFINE q == t \div N
           r == t % N
<1>1. N \in Nat \ {0} /\ q \in Nat /\ r \in 0..(N - 1) /\ t = N * q + r
  BY GroupAssumption, Quotient
<1>2. \A i : Sum(t, i) = i * q + (IF i <= r THEN i ELSE r)
  BY DEF Sum
<1>3. \A i : SplitNumber(t, i) = q + (IF i < r THEN 1 ELSE 0)
  BY DEF SplitNumber
<1> HIDE DEF q, r
<1>4. \A i \in 0..N : i * q \in Nat
  BY <1>1
<1>5. \A i \in 0..N : Sum(t, i) \in Nat
  BY <1>1, <1>2, <1>4
<1>6. Sum(t, 0) = 0 /\ Sum(t, N) = t
  BY <1>1, <1>2
<1>7. \A i \in Agent : SplitNumber(t, i) \in Nat /\ i \in 0..N /\ i + 1 \in 0..N
  BY <1>1, <1>3 DEF Agent
<1>8. ASSUME NEW i \in Agent PROVE Sum(t, i + 1) = Sum(t, i) + SplitNumber(t, i)
  <2>1. i \in Nat /\ (i + 1) * q = i * q + q /\ i * q \in Nat
    BY <1>1 DEF Agent
  <2>2. QED
    BY <1>1, <1>2, <1>3, <2>1
<1>9. ASSUME NEW i \in 0..N, NEW j \in 0..N, i <= j PROVE Sum(t, i) <= Sum(t, j)
  <2>1. i \in Nat /\ j \in Nat
    BY <1>1
  <2>2. i * q <= j * q /\ i * q \in Nat /\ j * q \in Nat
    BY <1>1, <1>9, <2>1, Monotone
  <2> DEFINE x == i * q
             y == j * q
  <2>3. Sum(t, i) = x + (IF i <= r THEN i ELSE r) /\ Sum(t, j) = y + (IF j <= r THEN j ELSE r)
    BY <1>2
  <2>4. x \in Nat /\ y \in Nat /\ x <= y
    BY <2>2
  <2> HIDE DEF x, y
  <2>5. QED
    BY <1>1, <1>9, <2>1, <2>3, <2>4
<1>10. QED
  BY <1>5, <1>6, <1>7, <1>8, <1>9

\* RangeBegin is that sum, by descent from a least i for which it is not.
LEMMA RangeBeginIsSum ==
  ASSUME NEW t \in Nat
  PROVE  \A i \in 0..N : RangeBegin(t)[i] = Sum(t, i)
<1> DEFINE Loop(f) ==
             f = [i \in 0..N |-> IF i = 0 THEN 0 ELSE f[i - 1] + SplitNumber(t, i - 1)]
           sum == [i \in 0..N |-> Sum(t, i)]
<1>1. N \in Nat \ {0}
  BY GroupAssumption
<1>2. \A i \in 0..N : i # 0 => i - 1 \in Agent /\ i - 1 \in 0..N /\ (i - 1) + 1 = i
  BY <1>1 DEF Agent
<1>3. \A i \in 0..N : i # 0 => Sum(t, i) = Sum(t, i - 1) + SplitNumber(t, i - 1)
  BY <1>2, SumFacts
<1>4. Loop(sum)
  BY <1>2, <1>3, SumFacts
<1>5. RangeBegin(t) = CHOOSE f : Loop(f)
  BY DEF RangeBegin
<1>6. Loop(RangeBegin(t))
  <2> HIDE DEF Loop
  <2> QED BY <1>4, <1>5
<1> DEFINE T == {i \in 0..N : RangeBegin(t)[i] # Sum(t, i)}
<1>7. SUFFICES ASSUME T # {} PROVE FALSE
  OBVIOUS
<1>8. PICK i \in T : \A j \in T : i <= j
  <2>1. T \subseteq Nat
    OBVIOUS
  <2> HIDE DEF T
  <2> QED BY <1>7, <2>1, LeastNat
<1>9. i \in 0..N /\ RangeBegin(t)[i] # Sum(t, i)
  BY <1>8
<1>10. RangeBegin(t)[i] = IF i = 0 THEN 0 ELSE RangeBegin(t)[i - 1] + SplitNumber(t, i - 1)
  BY <1>6, <1>9
<1>11. i # 0
  BY <1>9, <1>10, SumFacts
<1>12. RangeBegin(t)[i - 1] = Sum(t, i - 1)
  <2>1. i - 1 \in 0..N /\ ~(i <= i - 1)
    BY <1>1, <1>9, <1>11
  <2>2. QED
    BY <1>8, <2>1
<1>13. QED
  BY <1>3, <1>9, <1>10, <1>11, <1>12

-----------------------------------------------------------------------------
(* The invariant.                                                          *)

\* The parameters of the run, and the indexes that Init deals.
Dealing ==
  /\ total \in Totals
  /\ groups \in Counts
  /\ \A a \in Agent : connectionIndex[a] \in [0..(SplitNumber(total, a) - 1) -> Conn]
  /\ Dealt

\* The types of what changes.
Types ==
  /\ phase \in {"join", "send", "leave", "left", "aborted"}
  /\ round \in [Agent -> 0..Rounds]
  /\ at \in [Agent -> Nat]
  /\ \A a \in Agent : at[a] \in DOMAIN connectionIndex[a]
  /\ leaving \in [Agent -> SUBSET (Conn \X Group)]
  /\ member \in [Conn -> SUBSET Group]
  /\ down \subseteq Conn
  /\ pending \in [Conn -> SUBSET Group]
  /\ dropped \subseteq Conn /\ Cardinality(dropped) <= MaxDropped

\* Only a connection that dropped is down or joins again, which the repairer
\* does not begin with before all agents have joined.
Drops ==
  /\ down \subseteq dropped
  /\ \A c \in Conn : pending[c] # {} => c \in dropped
  /\ phase = "join" => dropped \subseteq down /\ \A c \in Conn : pending[c] = {}
  /\ total >= groups => \A c \in Conn : pending[c] \subseteq {c % groups}

\* What the join loops have covered, and what the repairer has made good.
Joined ==
  /\ phase \in {"join", "send"} =>
       \A a \in Agent : \A i \in DOMAIN connectionIndex[a] :
         /\ round[a] > 0 \/ i < at[a]
         /\ connectionIndex[a][i] \notin dropped
         => connectionIndex[a][i] % groups \in member[connectionIndex[a][i]]
  /\ phase = "send" =>
       /\ \A a \in Agent : round[a] > 0
       /\ total >= groups =>
            \A c \in dropped \ down : pending[c] = {} => c % groups \in member[c]

\* A connection that never dropped is in no other group than the one it leaves.
Leaving ==
  /\ phase # "leave" => \A a \in Agent : leaving[a] = {}
  /\ total >= groups => \A c \in Conn \ dropped : member[c] \subseteq {c % groups}
  /\ phase \in {"leave", "left"} =>
       \A a \in Agent : Size(a) >= groups =>
         \A i \in DOMAIN connectionIndex[a] :
           connectionIndex[a][i] \notin dropped =>
             \/ member[connectionIndex[a][i]] = {}
             \/ /\ phase = "leave"
                /\ <<connectionIndex[a][i], connectionIndex[a][i] % groups>> \in leaving[a]

\* The inductive invariant.
IInv == Dealing /\ Types /\ Drops /\ Joined /\ Leaving

-----------------------------------------------------------------------------
(* What follows from the dealing.                                          *)

LEMMA Parameters ==
  ASSUME Dealing
  PROVE  /\ total \in Nat \ {0} /\ groups \in Nat \ {0} /\ total >= N
         /\ \A c \in Conn : c \in Nat /\ c % groups \in Group
         /\ Rounds \in Nat \ {0}
<1>1. total \in Nat \ {0} /\ groups \in Nat \ {0} /\ total >= N
  BY GroupAssumption DEF Dealing
<1>2. ASSUME NEW c \in Conn PROVE c \in Nat /\ c % groups \in Group
  <2>1. c \in Nat
    BY <1>1 DEF Conn
  <2>2. QED
    BY <1>1, <2>1, Quotient DEF Group
<1>3. Rounds \in Nat \ {0}
  <2>1. total <= groups => groups \div total \in Nat /\ groups \div total >= 1
    BY <1>1, Quotient
  <2>2. QED
    BY <1>1, <2>1 DEF Rounds
<1>4. QED
  BY <1>1, <1>2, <1>3

\* No agent is without connections.
LEMMA ShareSize ==
  ASSUME Dealing, NEW a \in Agent
  PROVE  /\ DOMAIN connectionIndex[a] = 0..(Size(a) - 1)
         /\ Size(a) = SplitNumber(total, a)
         /\ Size(a) \in 1..total
         /\ \A i \in DOMAIN connectionIndex[a] : i \in Nat /\ connectionIndex[a][i] \in Conn
<1> DEFINE q == total \div N
           r == total % N
           s == SplitNumber(total, a)
<1>1. N \in Nat \ {0} /\ total \in Nat /\ total >= N
  BY GroupAssumption, Parameters
<1>2. q \in Nat \ {0} /\ r \in 0..(N - 1) /\ total = N * q + r
  <2>1. q \in Nat /\ q >= 1 /\ r \in 0..(N - 1) /\ total = N * q + r
    BY <1>1, Quotient
  <2> HIDE DEF q, r
  <2>2. QED
    BY <2>1
<1>3. s = q + (IF a < r THEN 1 ELSE 0)
  BY DEF SplitNumber
<1> HIDE DEF q, r
<1>4. a \in 0..(N - 1)
  BY DEF Agent
<1>5. N * q >= q
  <2>1. 1 * q <= N * q
    BY <1>1, <1>2, Monotone
  <2>2. QED
    BY <1>2, <2>1
<1>6. s \in 1..total
  <2>1. N * q \in Nat
    BY <1>1, <1>2
  <2> DEFINE p == N * q
  <2>2. p \in Nat /\ p >= q /\ total = p + r
    BY <1>2, <1>5, <2>1
  <2> HIDE DEF p
  <2>3. QED
    BY <1>1, <1>2, <1>3, <1>4, <2>2
<1> HIDE DEF s
<1>7. connectionIndex[a] \in [0..(s - 1) -> Conn]
  BY DEF Dealing, s
<1>8. s \in Int /\ s - 1 \in Int /\ Cardinality(0..(s - 1)) = s
  BY <1>6, FS_Interval
<1>9. Size(a) = s
  BY <1>7, <1>8 DEF Size
<1>10. QED
  BY <1>6, <1>7, <1>9 DEF s

LEMMA JoinTargets ==
  ASSUME Dealing, NEW c \in Conn, NEW r \in Nat, r < Rounds
  PROVE  /\ JoinTarget(c, r) \subseteq Group
         /\ r = 0 => c % groups \in JoinTarget(c, r)
         /\ total >= groups => JoinTarget(c, r) \subseteq {c % groups}
<1>1. /\ total \in Nat \ {0} /\ groups \in Nat \ {0}
      /\ c \in Nat /\ c % groups \in Group /\ c < total
  BY Parameters DEF Conn
<1>2. CASE total > groups
  BY <1>1, <1>2 DEF JoinTarget
<1>3. CASE total <= groups
  <2> DEFINE q == groups \div total
             m == groups % total
             x == r * total
  <2>1. q \in Nat /\ q >= 1 /\ m \in 0..(total - 1) /\ groups = total * q + m
    BY <1>1, <1>3, Quotient
  <2>2. JoinTarget(c, r) = IF r < q \/ c < m THEN {x + c} ELSE {}
    BY <1>1, <1>3 DEF JoinTarget
  <2>3. Rounds = q + (IF m > 0 THEN 1 ELSE 0)
    BY <1>1, <1>3 DEF Rounds
  <2>4. c % groups = c
    <3>1. c < groups
      BY <1>1, <1>3
    <3>2. QED
      BY <1>1, <3>1, Quotient
  <2>5. r = 0 => x = 0
    BY <1>1
  <2>6. x \in Nat /\ (r < q => x + total <= groups) /\ (r = q => groups = x + m)
    <3> HIDE DEF q, m
    <3>1. x \in Nat /\ total * q = q * total /\ q * total \in Nat
      BY <1>1, <2>1
    <3>2. r < q => (r + 1) * total <= q * total
      <4>1. r < q => r + 1 <= q /\ r + 1 \in Nat
        BY <2>1
      <4>2. QED
        BY <1>1, <2>1, <4>1, Monotone
    <3>3. (r + 1) * total = x + total
      BY <1>1
    <3>4. QED
      BY <1>1, <2>1, <3>1, <3>2, <3>3
  <2>7. total = groups => q <= 1 /\ (q = 1 => m = 0)
    <3>1. q > 1 => 2 * total <= q * total
      BY <1>1, <2>1, Monotone
    <3>2. q = 1 => q * total = total
      BY <1>1
    <3> HIDE DEF q, m
    <3>3. total * q = q * total /\ q * total \in Nat
      BY <1>1, <2>1
    <3>4. QED
      BY <1>1, <2>1, <3>1, <3>2, <3>3
  <2> HIDE DEF q, m, x
  <2>8. JoinTarget(c, r) \subseteq Group
    BY <1>1, <2>1, <2>2, <2>3, <2>6 DEF Group
  <2>9. r = 0 => c % groups \in JoinTarget(c, r)
    BY <1>1, <2>1, <2>2, <2>4, <2>5
  <2>10. total >= groups => r = 0
    BY <1>1, <1>3, <2>1, <2>3, <2>7
  <2>11. total >= groups => JoinTarget(c, r) \subseteq {c % groups}
    BY <1>1, <2>2, <2>4, <2>5, <2>10
  <2>12. QED
    BY <2>8, <2>9, <2>11
<1>4. QED
  BY <1>1, <1>2, <1>3

LEMMA Rejoining ==
  ASSUME Dealing, NEW a \in Agent, NEW i \in DOMAIN connectionIndex[a]
  PROVE  /\ RejoinTargets(a, i) \subseteq Group
         /\ total >= groups => RejoinTargets(a, i) = {connectionIndex[a][i] % groups}
BY Parameters, ShareSize DEF RejoinTargets

LEMMA LeavingCalls ==
  ASSUME Dealing, NEW a \in Agent
  PROVE  /\ LeaveCalls(a) \subseteq Conn \X Group
         /\ Size(a) >= groups =>
              \A i \in DOMAIN connectionIndex[a] :
                <<connectionIndex[a][i], connectionIndex[a][i] % groups>> \in LeaveCalls(a)
<1>1. /\ DOMAIN connectionIndex[a] = 0..(Size(a) - 1)
      /\ \A i \in DOMAIN connectionIndex[a] :
           connectionIndex[a][i] \in Conn /\ connectionIndex[a][i] % groups \in Group
  BY Parameters, ShareSize
<1>2. ASSUME NEW g \in Group
      PROVE  connectionIndex[a][g % Size(a)] \in Conn
  <2>1. g \in Nat /\ Size(a) \in Nat \ {0}
    BY Parameters, ShareSize DEF Group
  <2>2. g % Size(a) \in DOMAIN connectionIndex[a]
    BY <1>1, <2>1, Quotient
  <2>3. QED
    BY <1>1, <2>2
<1>3. QED
  BY <1>1, <1>2 DEF LeaveCalls

\* Every connection is some agent's.
LEMMA Owned ==
  ASSUME Dealing, NEW c \in Conn
  PROVE  \E a \in Agent : \E i \in DOMAIN connectionIndex[a] : connectionIndex[a][i] = c
BY DEF Dealing, Dealt

-----------------------------------------------------------------------------
(* The initial states.                                                     *)

\* The shares are ranges of a permutation that meet end to end.
LEMMA InitDealing == Init => Dealing
<1> SUFFICES ASSUME Init PROVE Dealing
  OBVIOUS
<1> DEFINE t == total
           Index == 0..(t - 1)
<1>1. total \in Totals /\ groups \in Counts /\ t \in Nat /\ N \in Nat \ {0}
  BY GroupAssumption DEF Init
<1>2. PICK indexes \in Shuffles(t) :
        connectionIndex = [a \in Agent |-> [i \in 0..(SplitNumber(t, a) - 1) |->
                                              indexes[RangeBegin(t)[a] + i]]]
  BY DEF Init
<1>3. /\ indexes \in [Index -> Index]
      /\ \A i, j \in Index : indexes[i] = indexes[j] => i = j
  BY <1>2 DEF Shuffles
<1>4. \A c \in Index : \E k \in Index : indexes[k] = c
  <2>1. indexes \in Injection(Index, Index)
    BY <1>3 DEF Injection, IsInjective
  <2>2. IsFiniteSet(Index)
    BY <1>1, FS_Interval
  <2>3. indexes \in Surjection(Index, Index)
    BY <2>1, <2>2, FS_Injection
  <2>4. QED
    BY <2>3 DEF Surjection
<1>5. ASSUME NEW a \in Agent
      PROVE  /\ SplitNumber(t, a) \in Nat /\ Sum(t, a) \in Nat
             /\ DOMAIN connectionIndex[a] = 0..(SplitNumber(t, a) - 1)
             /\ \A i \in 0..(SplitNumber(t, a) - 1) :
                  connectionIndex[a][i] = indexes[Sum(t, a) + i] /\ Sum(t, a) + i \in Index
  <2>1. /\ SplitNumber(t, a) \in Nat /\ Sum(t, a) \in Nat /\ Sum(t, a + 1) \in Nat
        /\ Sum(t, a + 1) = Sum(t, a) + SplitNumber(t, a)
        /\ Sum(t, a + 1) <= t /\ a \in 0..N
    <3>1. a \in 0..N /\ a + 1 \in 0..N /\ N \in 0..N /\ a + 1 <= N
      BY <1>1 DEF Agent
    <3>2. QED
      BY <1>1, <3>1, SumFacts
  <2>2. RangeBegin(t)[a] = Sum(t, a)
    BY <1>1, <2>1, RangeBeginIsSum
  <2>3. connectionIndex[a] = [i \in 0..(SplitNumber(t, a) - 1) |-> indexes[Sum(t, a) + i]]
    BY <1>2, <2>2
  <2>4. QED
    BY <1>1, <2>1, <2>3
<1>6. ASSUME NEW a \in Agent
      PROVE  connectionIndex[a] \in [0..(SplitNumber(total, a) - 1) -> Conn]
  <2>1. connectionIndex[a] = [i \in 0..(SplitNumber(t, a) - 1) |-> connectionIndex[a][i]]
    BY <1>2
  <2>2. \A i \in 0..(SplitNumber(t, a) - 1) : connectionIndex[a][i] \in Conn
    BY <1>3, <1>5 DEF Conn
  <2>3. QED
    BY <2>1, <2>2
<1>7. ASSUME NEW c \in Conn
      PROVE  \E a \in Agent : \E i \in DOMAIN connectionIndex[a] : connectionIndex[a][i] = c
  <2>1. PICK k \in Index : indexes[k] = c
    BY <1>4 DEF Conn
  <2> DEFINE T == {x \in 0..N : k < Sum(t, x)}
  <2>2. N \in T /\ T \subseteq Nat
    BY <1>1, SumFacts
  <2>3. PICK x \in T : \A y \in T : x <= y
    <3> HIDE DEF T
    <3> QED BY <2>2, LeastNat
  <2>4. x \in 0..N /\ k < Sum(t, x) /\ x # 0
    BY <1>1, <2>3, SumFacts
  <2> DEFINE a == x - 1
             i == k - Sum(t, a)
  <2>5. a \in Agent /\ a \in 0..N /\ a + 1 = x /\ ~(x <= a)
    BY <1>1, <2>4 DEF Agent
  <2>6. Sum(t, a) <= k /\ Sum(t, a) \in Nat
    BY <1>1, <2>3, <2>5, SumFacts
  <2>7. Sum(t, x) = Sum(t, a) + SplitNumber(t, a)
    BY <1>1, <2>5, SumFacts
  <2>8. i \in 0..(SplitNumber(t, a) - 1) /\ Sum(t, a) + i = k
    BY <1>5, <2>4, <2>5, <2>6, <2>7
  <2> HIDE DEF a, i
  <2>9. QED
    BY <1>5, <2>1, <2>5, <2>8
<1>8. ASSUME NEW a \in Agent, NEW b \in Agent
      PROVE  Size(a) - Size(b) \in {-1, 0, 1}
  <2>1. \A x \in Agent : Size(x) = SplitNumber(t, x)
    <3> TAKE x \in Agent
    <3> DEFINE s == SplitNumber(t, x)
    <3>1. s \in Nat /\ DOMAIN connectionIndex[x] = 0..(s - 1)
      BY <1>5
    <3> HIDE DEF s
    <3>2. s - 1 \in Int /\ Cardinality(0..(s - 1)) = s
      BY <3>1, FS_Interval
    <3>3. Size(x) = s
      BY <3>1, <3>2 DEF Size
    <3>4. QED
      BY <3>3 DEF s
  <2>2. t \div N \in Nat
    BY <1>1, Quotient
  <2>3. QED
    BY <2>1, <2>2 DEF SplitNumber
<1>9. ASSUME NEW a \in Agent, NEW b \in Agent,
             NEW i \in DOMAIN connectionIndex[a], NEW j \in DOMAIN connectionIndex[b],
             connectionIndex[a][i] = connectionIndex[b][j]
      PROVE  a = b /\ i = j
  <2>1. Sum(t, a) + i = Sum(t, b) + j
    <3>1. connectionIndex[a][i] = indexes[Sum(t, a) + i] /\ Sum(t, a) + i \in Index
      BY <1>5
    <3>2. connectionIndex[b][j] = indexes[Sum(t, b) + j] /\ Sum(t, b) + j \in Index
      BY <1>5
    <3> HIDE DEF Index
    <3>3. QED
      BY <1>3, <1>9, <3>1, <3>2
  <2>2. ASSUME NEW x \in Agent, NEW y \in Agent, x < y,
               NEW k \in 0..(SplitNumber(t, x) - 1), NEW l \in 0..(SplitNumber(t, y) - 1)
        PROVE  Sum(t, x) + k < Sum(t, y) + l
    <3>1. x + 1 \in 0..N /\ y \in 0..N /\ x + 1 <= y
      BY <1>1, <2>2 DEF Agent
    <3>2. /\ Sum(t, x + 1) <= Sum(t, y) /\ Sum(t, x + 1) = Sum(t, x) + SplitNumber(t, x)
          /\ Sum(t, y) \in Nat
      BY <1>1, <3>1, SumFacts
    <3>3. SplitNumber(t, x) \in Nat /\ Sum(t, x) \in Nat
      BY <1>5
    <3>4. k \in Int /\ k < SplitNumber(t, x) /\ l \in Nat
      BY <1>5, <3>3
    <3>5. QED
      BY <3>2, <3>3, <3>4
  <2>3. /\ a \in Int /\ b \in Int
        /\ i \in 0..(SplitNumber(t, a) - 1) /\ j \in 0..(SplitNumber(t, b) - 1)
        /\ Sum(t, a) \in Nat /\ Sum(t, b) \in Nat
    BY <1>5 DEF Agent
  <2>4. ~(a < b) /\ ~(b < a)
    <3>1. a < b => Sum(t, a) + i < Sum(t, b) + j
      BY <2>2, <2>3
    <3>2. b < a => Sum(t, b) + j < Sum(t, a) + i
      BY <2>2, <2>3
    <3>3. QED
      BY <2>1, <2>3, <3>1, <3>2
  <2>5. a = b
    BY <2>3, <2>4
  <2>6. QED
    BY <2>1, <2>3, <2>5
<1>10. Dealt
  BY <1>7, <1>8, <1>9 DEF Dealt
<1>11. QED
  BY <1>1, <1>6, <1>10 DEF Dealing

LEMMA InitInvariant == Init => IInv
<1> SUFFICES ASSUME Init PROVE IInv
  OBVIOUS
<1>1. Dealing
  BY InitDealing
<1>2. Types
  <2>1. \A a \in Agent : 0 \in DOMAIN connectionIndex[a]
    BY <1>1, ShareSize
  <2>2. 0 \in 0..Rounds /\ 0 <= MaxDropped
    BY <1>1, Parameters, GroupAssumption
  <2>3. QED
    BY <2>1, <2>2, FS_EmptySet DEF Init, Types
<1>3. Drops
  BY DEF Init, Drops
<1>4. Joined
  <2>1. \A a \in Agent : \A i \in DOMAIN connectionIndex[a] : i \in Nat
    BY <1>1, ShareSize
  <2>2. QED
    BY <2>1 DEF Init, Joined
<1>5. Leaving
  BY DEF Init, Leaving
<1>6. QED
  BY <1>1, <1>2, <1>3, <1>4, <1>5 DEF IInv

-----------------------------------------------------------------------------
(* The steps.  None changes the parameters or the shares.                  *)

LEMMA Kept ==
  ASSUME Dealing, UNCHANGED <<total, groups, connectionIndex>>
  PROVE  Dealing' /\ Conn' = Conn /\ Group' = Group /\ Rounds' = Rounds
BY DEF Dealing, Dealt, Size, SplitNumber, Conn, Group, Rounds

LEMMA JoinNextStep ==
  ASSUME IInv, NEW a \in Agent, JoinNext(a)
  PROVE  IInv'
<1> DEFINE c == connectionIndex[a][at[a]]
           r == round[a]
<1>1. /\ UNCHANGED <<total, groups, connectionIndex, phase, leaving, down, pending, dropped>>
      /\ Dealing' /\ Conn' = Conn /\ Group' = Group /\ Rounds' = Rounds
      /\ phase = "join" /\ r < Rounds
  BY Kept DEF JoinNext, IInv
<1>2. c \in Conn /\ r \in Nat /\ at[a] \in 0..(Size(a) - 1) /\ Size(a) \in Nat
  BY Parameters, ShareSize DEF IInv, Types
<1>3. /\ JoinTarget(c, r) \subseteq Group
      /\ r = 0 => c % groups \in JoinTarget(c, r)
      /\ total >= groups => JoinTarget(c, r) \subseteq {c % groups}
  BY <1>1, <1>2, JoinTargets DEF IInv
<1>4. /\ \A d \in Conn \ {c} : member'[d] = member[d]
      /\ member'[c] = member[c] \/ member'[c] = member[c] \cup JoinTarget(c, r)
      /\ c \notin down => member'[c] = member[c] \cup JoinTarget(c, r)
      /\ member' \in [Conn -> SUBSET Group]
  BY <1>2, <1>3 DEF JoinNext, IInv, Types
<1>5. \/ /\ at[a] + 1 = Size(a)
         /\ at' = [at EXCEPT ![a] = 0] /\ round' = [round EXCEPT ![a] = r + 1]
      \/ /\ at[a] + 1 # Size(a)
         /\ at' = [at EXCEPT ![a] = at[a] + 1] /\ round' = round
  BY DEF JoinNext
<1> HIDE DEF c, r
<1>6. Types'
  <2>1. \A b \in Agent : DOMAIN connectionIndex[b] = 0..(Size(b) - 1) /\ Size(b) \in 1..total
    BY ShareSize DEF IInv
  <2>2. at' \in [Agent -> Nat] /\ \A b \in Agent : at'[b] \in DOMAIN connectionIndex[b]
    <3>1. at \in [Agent -> Nat] /\ \A b \in Agent : at[b] \in DOMAIN connectionIndex[b]
      BY DEF IInv, Types
    <3>2. at[a] + 1 # Size(a) => at[a] + 1 \in DOMAIN connectionIndex[a] /\ at[a] + 1 \in Nat
      BY <1>2, <2>1
    <3>3. 0 \in DOMAIN connectionIndex[a]
      BY <1>2, <2>1
    <3>4. PICK x \in DOMAIN connectionIndex[a] : x \in Nat /\ at' = [at EXCEPT ![a] = x]
      BY <1>5, <3>2, <3>3
    <3>5. QED
      BY <3>1, <3>4
  <2>3. round' \in [Agent -> 0..Rounds]
    BY <1>1, <1>2, <1>5, Parameters DEF IInv, Types
  <2>4. QED
    BY <1>1, <1>4, <2>2, <2>3 DEF IInv, Types
<1>7. Drops'
  BY <1>1 DEF IInv, Drops
<1>8. Joined'
  <2> SUFFICES ASSUME NEW b \in Agent, NEW i \in DOMAIN connectionIndex[b],
                      round'[b] > 0 \/ i < at'[b],
                      connectionIndex[b][i] \notin dropped
               PROVE  connectionIndex[b][i] % groups \in member'[connectionIndex[b][i]]
    BY <1>1 DEF Joined
  <2>1. i \in Nat /\ connectionIndex[b][i] \in Conn /\ i \in 0..(Size(b) - 1) /\ Size(b) \in Nat
    BY ShareSize DEF IInv
  <2>2. CASE round[b] > 0 \/ i < at[b]
    <3>1. connectionIndex[b][i] % groups \in member[connectionIndex[b][i]]
      BY <1>1, <2>2 DEF IInv, Joined
    <3>2. QED
      BY <1>4, <2>1, <3>1
  <2>3. CASE ~(round[b] > 0 \/ i < at[b])
    <3>1. b = a /\ i = at[a]
      BY <1>2, <1>5, <2>1, <2>3 DEF IInv, Types, r
    <3>2. r = 0
      BY <1>2, <2>3, <3>1 DEF r
    <3>3. connectionIndex[b][i] = c /\ c \notin down
      BY <3>1 DEF c, IInv, Drops
    <3>4. QED
      BY <1>3, <1>4, <3>2, <3>3
  <2>4. QED
    BY <2>2, <2>3
<1>9. Leaving'
  BY <1>1, <1>3, <1>4 DEF IInv, Leaving
<1>10. QED
  BY <1>1, <1>6, <1>7, <1>8, <1>9 DEF IInv

LEMMA JoinEndsStep == IInv /\ JoinEnds => IInv'
<1> SUFFICES ASSUME IInv, JoinEnds PROVE IInv'
  OBVIOUS
<1>1. /\ UNCHANGED <<total, groups, connectionIndex, round, at, leaving, member, down,
                     pending, dropped>>
      /\ Dealing' /\ Conn' = Conn /\ Group' = Group /\ Rounds' = Rounds
      /\ phase = "join" /\ phase' = "send" /\ \A a \in Agent : round[a] > 0
  <2>1. UNCHANGED <<total, groups, connectionIndex>>
    BY DEF JoinEnds
  <2>2. \A a \in Agent : round[a] > 0
    BY Parameters DEF JoinEnds, IInv
  <2>3. QED
    BY <2>1, <2>2, Kept DEF JoinEnds, IInv
<1>2. Types'
  BY <1>1 DEF IInv, Types
<1>3. Drops' /\ Leaving'
  BY <1>1 DEF IInv, Drops, Leaving
<1>4. Joined'
  BY <1>1 DEF IInv, Drops, Joined
<1>5. QED
  BY <1>1, <1>2, <1>3, <1>4 DEF IInv

LEMMA RepairStep ==
  ASSUME IInv, NEW a \in Agent, NEW i \in DOMAIN connectionIndex[a], Repair(a, i)
  PROVE  IInv'
<1> DEFINE c == connectionIndex[a][i]
<1>1. /\ UNCHANGED <<total, groups, connectionIndex, phase, round, at, leaving, member, dropped>>
      /\ Dealing' /\ Conn' = Conn /\ Group' = Group /\ Rounds' = Rounds
      /\ phase # "join" /\ c \in down /\ down' = down \ {c}
      /\ pending' = [pending EXCEPT ![c] = RejoinTargets(a, i)]
  BY Kept DEF Repair, IInv
<1>2. c \in Conn
  BY ShareSize DEF IInv
<1>3. /\ RejoinTargets(a, i) \subseteq Group
      /\ total >= groups => RejoinTargets(a, i) = {c % groups}
  BY Rejoining DEF IInv
<1> HIDE DEF c
<1>4. /\ pending' \in [Conn -> SUBSET Group]
      /\ pending'[c] = RejoinTargets(a, i) /\ \A d \in Conn \ {c} : pending'[d] = pending[d]
  BY <1>1, <1>2, <1>3 DEF IInv, Types
<1>5. Types'
  BY <1>1, <1>4 DEF IInv, Types
<1>6. Drops'
  BY <1>1, <1>3, <1>4 DEF IInv, Drops
<1>7. Joined'
  BY <1>1, <1>3, <1>4 DEF IInv, Types, Joined
<1>8. Leaving'
  <2>1. \A b : Size(b)' = Size(b)
    BY <1>1 DEF Size
  <2>2. QED
    BY <1>1, <2>1 DEF IInv, Leaving
<1>9. QED
  BY <1>1, <1>5, <1>6, <1>7, <1>8 DEF IInv

LEMMA RejoinNextStep ==
  ASSUME IInv, NEW c \in Conn, RejoinNext(c)
  PROVE  IInv'
<1>1. PICK g \in pending[c] :
        /\ pending' = [pending EXCEPT ![c] = @ \ {g}]
        /\ IF c \in down THEN UNCHANGED member
           ELSE member' = [member EXCEPT ![c] = @ \cup {g}]
        /\ UNCHANGED <<total, groups, connectionIndex, phase, round, at, leaving, down, dropped>>
  BY DEF RejoinNext
<1>2. Dealing' /\ Conn' = Conn /\ Group' = Group /\ Rounds' = Rounds
  BY <1>1, Kept DEF IInv
<1>3. /\ phase # "join" /\ c \in dropped /\ g \in Group
      /\ total >= groups => g = c % groups
  BY <1>1 DEF IInv, Types, Drops
<1>4. /\ pending' \in [Conn -> SUBSET Group]
      /\ pending'[c] = pending[c] \ {g} /\ \A d \in Conn \ {c} : pending'[d] = pending[d]
      /\ member' \in [Conn -> SUBSET Group]
      /\ c \notin down => member'[c] = member[c] \cup {g}
      /\ \A d \in Conn \ {c} : member'[d] = member[d]
      /\ member[c] \subseteq member'[c]
  BY <1>1, <1>3 DEF IInv, Types
<1>5. Types'
  BY <1>1, <1>2, <1>4 DEF IInv, Types
<1>6. Drops'
  BY <1>1, <1>2, <1>3, <1>4 DEF IInv, Drops
<1>7. Joined'
  <2>1. \A d \in Conn : member[d] \subseteq member'[d]
    BY <1>4
  <2>2. \A b \in Agent : \A j \in DOMAIN connectionIndex[b] : connectionIndex[b][j] \in Conn
    BY ShareSize DEF IInv
  <2>3. phase = "send" /\ total >= groups =>
          \A d \in dropped \ down : pending'[d] = {} => d % groups \in member'[d]
    BY <1>3, <1>4, <2>1 DEF IInv, Types, Joined
  <2>4. QED
    BY <1>1, <2>1, <2>2, <2>3 DEF IInv, Joined
<1>8. Leaving'
  <2>1. \A d \in Conn \ dropped : member'[d] = member[d]
    BY <1>3, <1>4
  <2>2. \A b \in Agent : \A j \in DOMAIN connectionIndex[b] : connectionIndex[b][j] \in Conn
    BY ShareSize DEF IInv
  <2>3. \A b : Size(b)' = Size(b)
    BY <1>1 DEF Size
  <2>4. QED
    BY <1>1, <1>2, <2>1, <2>2, <2>3 DEF IInv, Leaving
<1>9. QED
  BY <1>2, <1>5, <1>6, <1>7, <1>8 DEF IInv

LEMMA DropStep ==
  ASSUME IInv, NEW c \in Conn, Drop(c)
  PROVE  IInv'
<1>1. /\ UNCHANGED <<total, groups, connectionIndex, phase, round, at, leaving, pending>>
      /\ Dealing' /\ Conn' = Conn /\ Group' = Group /\ Rounds' = Rounds
      /\ Cardinality(dropped \cup {c}) <= MaxDropped
      /\ dropped' = dropped \cup {c} /\ down' = down \cup {c}
      /\ member' = [member EXCEPT ![c] = {}]
  BY Kept DEF Drop, IInv
<1>2. member' \in [Conn -> SUBSET Group] /\ \A d \in Conn \ {c} : member'[d] = member[d]
  BY <1>1 DEF IInv, Types
<1>3. Types'
  BY <1>1, <1>2 DEF IInv, Types
<1>4. Drops'
  BY <1>1 DEF IInv, Drops
<1>5. \A b \in Agent : \A j \in DOMAIN connectionIndex[b] : connectionIndex[b][j] \in Conn
  BY ShareSize DEF IInv
<1>6. Joined'
  <2>1. \A d \in dropped' \ down' : d \in dropped \ down /\ member'[d] = member[d]
    BY <1>1, <1>2 DEF IInv, Types
  <2>2. QED
    BY <1>1, <1>2, <1>5, <2>1 DEF IInv, Joined
<1>7. Leaving'
  <2>1. \A d \in Conn \ dropped' : d \in Conn \ dropped /\ member'[d] = member[d]
    BY <1>1, <1>2
  <2>2. \A b : Size(b)' = Size(b)
    BY <1>1 DEF Size
  <2>3. QED
    BY <1>1, <1>5, <2>1, <2>2 DEF IInv, Leaving
<1>8. QED
  BY <1>1, <1>3, <1>4, <1>6, <1>7 DEF IInv

LEMMA LeaveBeginsStep == IInv /\ LeaveBegins => IInv'
<1> SUFFICES ASSUME IInv, LeaveBegins PROVE IInv'
  OBVIOUS
<1>1. /\ UNCHANGED <<total, groups, connectionIndex, round, at, member, down, pending, dropped>>
      /\ Dealing' /\ Conn' = Conn /\ Group' = Group /\ Rounds' = Rounds
      /\ phase = "send"
      /\ \/ phase' = "aborted" /\ leaving' = leaving
         \/ phase' = "leave" /\ leaving' = [a \in Agent |-> LeaveCalls(a)]
  BY Kept DEF LeaveBegins, IInv
<1>2. Types'
  <2>1. leaving' \in [Agent -> SUBSET (Conn \X Group)]
    BY <1>1, LeavingCalls DEF IInv, Types
  <2>2. QED
    BY <1>1, <2>1 DEF IInv, Types
<1>3. Drops' /\ Joined'
  BY <1>1 DEF IInv, Drops, Joined
<1>4. Leaving'
  <2>1. \A b : Size(b)' = Size(b)
    BY <1>1 DEF Size
  <2>2. CASE phase' = "aborted"
    BY <1>1, <2>2 DEF IInv, Leaving
  <2>3. CASE phase' = "leave"
    <3>1. \A a \in Agent : Size(a) >= groups =>
            \A i \in DOMAIN connectionIndex[a] :
              <<connectionIndex[a][i], connectionIndex[a][i] % groups>> \in leaving'[a]
      BY <1>1, <2>3, LeavingCalls DEF IInv
    <3>2. QED
      BY <1>1, <2>1, <2>3, <3>1 DEF IInv, Leaving
  <2>4. QED
    BY <1>1, <2>2, <2>3
<1>5. QED
  BY <1>1, <1>2, <1>3, <1>4 DEF IInv

LEMMA LeaveOneStep ==
  ASSUME IInv, NEW a \in Agent, LeaveOne(a)
  PROVE  IInv'
<1>1. PICK call \in leaving[a] :
        /\ leaving' = [leaving EXCEPT ![a] = @ \ {call}]
        /\ IF call[1] \in down THEN UNCHANGED member
           ELSE member' = [member EXCEPT ![call[1]] = @ \ {call[2]}]
        /\ UNCHANGED <<total, groups, connectionIndex, phase, round, at, down, pending, dropped>>
  BY DEF LeaveOne
<1>2. Dealing' /\ Conn' = Conn /\ Group' = Group /\ Rounds' = Rounds
  BY <1>1, Kept DEF IInv
<1>3. PICK c \in Conn, g \in Group : call = <<c, g>>
  BY <1>1 DEF IInv, Types
<1>4. /\ leaving' \in [Agent -> SUBSET (Conn \X Group)]
      /\ leaving'[a] = leaving[a] \ {<<c, g>>}
      /\ \A b \in Agent \ {a} : leaving'[b] = leaving[b]
      /\ member' \in [Conn -> SUBSET Group]
      /\ c \notin down => member'[c] = member[c] \ {g}
      /\ \A d \in Conn \ {c} : member'[d] = member[d]
      /\ \A d \in Conn : member'[d] \subseteq member[d]
  BY <1>1, <1>3 DEF IInv, Types
<1>5. phase = "leave"
  BY <1>1 DEF IInv, Leaving
<1>6. Types'
  BY <1>1, <1>2, <1>4 DEF IInv, Types
<1>7. Drops' /\ Joined'
  BY <1>1, <1>2, <1>5 DEF IInv, Drops, Joined
<1>8. Leaving'
  <2>1. ASSUME NEW b \in Agent, Size(b) >= groups, NEW i \in DOMAIN connectionIndex[b],
               connectionIndex[b][i] \notin dropped
        PROVE  \/ member'[connectionIndex[b][i]] = {}
               \/ <<connectionIndex[b][i], connectionIndex[b][i] % groups>> \in leaving'[b]
    <3> DEFINE d == connectionIndex[b][i]
    <3>1. d \in Conn /\ total >= groups
      <4>1. total \in Nat /\ groups \in Nat /\ Size(b) \in 1..total
        BY Parameters, ShareSize DEF IInv
      <4>2. QED
        BY <2>1, <4>1, ShareSize DEF IInv
    <3>2. member[d] \subseteq {d % groups} /\ d \notin down
      BY <2>1, <3>1 DEF IInv, Leaving, Drops
    <3>3. member[d] = {} \/ <<d, d % groups>> \in leaving[b]
      BY <1>5, <2>1 DEF IInv, Leaving
    <3> HIDE DEF d
    <3>4. CASE b = a /\ c = d /\ g = d % groups
      <4>1. member'[d] = member[d] \ {d % groups}
        BY <1>4, <3>2, <3>4
      <4>2. member'[d] = {}
        BY <3>2, <4>1
      <4>3. QED
        BY <4>2 DEF d
    <3>5. CASE ~(b = a /\ c = d /\ g = d % groups)
      <4>1. <<d, d % groups>> \in leaving[b] => <<d, d % groups>> \in leaving'[b]
        BY <1>4, <3>5
      <4>2. member[d] = {} => member'[d] = {}
        BY <1>4, <3>1
      <4>3. QED
        BY <3>3, <4>1, <4>2 DEF d
    <3>6. QED
      BY <3>4, <3>5 DEF d
  <2>2. \A b : Size(b)' = Size(b)
    BY <1>1 DEF Size
  <2>3. total >= groups => \A d \in Conn \ dropped : member'[d] \subseteq {d % groups}
    BY <1>4 DEF IInv, Leaving
  <2>4. QED
    BY <1>1, <1>2, <1>5, <2>1, <2>2, <2>3 DEF Leaving
<1>9. QED
  BY <1>2, <1>6, <1>7, <1>8 DEF IInv

LEMMA LeaveEndsStep == IInv /\ LeaveEnds => IInv'
<1> SUFFICES ASSUME IInv, LeaveEnds PROVE IInv'
  OBVIOUS
<1>1. /\ UNCHANGED <<total, groups, connectionIndex, round, at, leaving, member, down, pending,
                     dropped>>
      /\ Dealing' /\ Conn' = Conn /\ Group' = Group /\ Rounds' = Rounds
      /\ phase = "leave" /\ phase' = "left" /\ \A a \in Agent : leaving[a] = {}
  BY Kept DEF LeaveEnds, IInv
<1>2. Types' /\ Drops' /\ Joined'
  BY <1>1 DEF IInv, Types, Drops, Joined
<1>3. Leaving'
  <2>1. \A b : Size(b)' = Size(b)
    BY <1>1 DEF Size
  <2>2. QED
    BY <1>1, <2>1 DEF IInv, Leaving
<1>4. QED
  BY <1>1, <1>2, <1>3 DEF IInv

LEMMA StepInvariant == IInv /\ [Next]_vars => IInv'
<1> SUFFICES ASSUME IInv, [Next]_vars PROVE IInv'
  OBVIOUS
<1>1. ASSUME NEW a \in Agent, JoinNext(a) PROVE IInv'
  BY <1>1, JoinNextStep
<1>2. ASSUME NEW a \in Agent, NEW i \in DOMAIN connectionIndex[a], Repair(a, i) PROVE IInv'
  BY <1>2, RepairStep
<1>3. ASSUME NEW a \in Agent, LeaveOne(a) PROVE IInv'
  BY <1>3, LeaveOneStep
<1>4. ASSUME NEW c \in Conn, RejoinNext(c) PROVE IInv'
  BY <1>4, RejoinNextStep
<1>5. ASSUME NEW c \in Conn, Drop(c) PROVE IInv'
  BY <1>5, DropStep
<1>6. CASE JoinEnds
  BY <1>6, JoinEndsStep
<1>7. CASE LeaveBegins
  BY <1>7, LeaveBeginsStep
<1>8. CASE LeaveEnds
  BY <1>8, LeaveEndsStep
<1>9. CASE UNCHANGED vars
  <2>1. Dealing' /\ Conn' = Conn /\ Group' = Group /\ Rounds' = Rounds
    BY <1>9, Kept DEF vars, IInv
  <2>2. Types' /\ Drops' /\ Joined'
    BY <1>9, <2>1 DEF vars, IInv, Types, Drops, Joined
  <2>3. \A b : Size(b)' = Size(b)
    BY <1>9 DEF vars, Size
  <2>4. Leaving'
    BY <1>9, <2>1, <2>3 DEF vars, IInv, Leaving
  <2>5. QED
    BY <2>1, <2>2, <2>4 DEF IInv
<1>10. QED
  BY <1>1, <1>2, <1>3, <1>4, <1>5, <1>6, <1>7, <1>8, <1>9 DEF Next, Over

LEMMA Invariance == Spec => []IInv
<1>1. QED
  BY InitInvariant, StepInvariant, PTL DEF Spec

-----------------------------------------------------------------------------
\* Memberships, calls and loop positions stay within what was dealt, for any
\* number of agents, connections and groups (JoinGroupForConnection, LeaveGroup).
THEOREM GroupTypeCorrect == Spec => []GroupTypeOK
<1>1. IInv => GroupTypeOK
  <2> SUFFICES ASSUME IInv PROVE GroupTypeOK
    OBVIOUS
  <2>1. \A a \in Agent : connectionIndex[a] \in [0..(Size(a) - 1) -> Conn]
    BY ShareSize DEF IInv, Dealing
  <2>2. QED
    BY <2>1 DEF IInv, Dealing, Types, GroupTypeOK
<1>2. QED
  BY <1>1, Invariance, PTL

\* GetConnectionRange deals every index to one agent, and evenly, whatever the
\* order Shuffle leaves and whether or not the agents divide the connections.
THEOREM EachIndexDealtOnce == Spec => []Dealt
<1>1. IInv => Dealt
  BY DEF IInv, Dealing
<1>2. QED
  BY <1>1, Invariance, PTL

\* The senders' `% groups' is a group that the join loop or the repairer has
\* joined, for any number of connections, groups, drops and repairs.
THEOREM SendersAreMembers == Spec => []SendsToOwnGroup
<1>1. IInv => SendsToOwnGroup
  <2> SUFFICES ASSUME IInv, phase = "send", NEW c \in Conn,
                      c \notin down, pending[c] = {}, total >= groups \/ c \notin dropped
               PROVE  c % groups \in member[c]
    BY DEF SendsToOwnGroup, SendTarget
  <2>1. CASE c \in dropped
    BY <2>1 DEF IInv, Joined
  <2>2. CASE c \notin dropped
    <3>1. PICK a \in Agent : \E i \in DOMAIN connectionIndex[a] : connectionIndex[a][i] = c
      BY Owned DEF IInv
    <3>2. QED
      BY <2>2, <3>1 DEF IInv, Joined
  <2>3. QED
    BY <2>1, <2>2
<1>2. QED
  BY <1>1, Invariance, PTL

\* LeaveGroup's choice, made on the number of local connections, leaves all
\* that JoinGroup joined, on an agent with as many connections as groups.
THEOREM LargeAgentsLeave == Spec => []LeavesWhatItJoined
<1>1. IInv => LeavesWhatItJoined
  BY DEF IInv, Leaving, LeavesWhatItJoined
<1>2. QED
  BY <1>1, Invariance, PTL

-----------------------------------------------------------------------------
(* Which groups exactly the join loops have covered, as long as no          *)
(* connection dropped.                                                      *)

\* The groups of connection c after k passes.
Covered(c, k) ==
  {g \in Group : IF total >= groups THEN k > 0 /\ g = c % groups
                 ELSE g % total = c /\ g \div total < k}

Passes(a, i) == round[a] + (IF i < at[a] THEN 1 ELSE 0)

\* Stronger than Joined, but only without drops.
Exactly ==
  phase \in {"join", "send"} /\ dropped = {} =>
    \A a \in Agent :
      /\ \A i \in DOMAIN connectionIndex[a] :
           member[connectionIndex[a][i]] = Covered(connectionIndex[a][i], Passes(a, i))
      /\ phase = "send" => round[a] = Rounds

\* The target of one more pass.
LEMMA OnePass ==
  ASSUME Dealing, NEW c \in Conn, NEW k \in Nat, k < Rounds
  PROVE  Covered(c, k) \cup JoinTarget(c, k) = Covered(c, k + 1)
<1>1. /\ total \in Nat \ {0} /\ groups \in Nat \ {0} /\ c \in 0..(total - 1)
      /\ c % groups \in Group /\ JoinTarget(c, k) \subseteq Group
  BY Parameters, JoinTargets DEF Conn
<1>2. CASE total >= groups
  <2>1. Rounds = 1
    <3>1. total = groups => groups = total * 1 + 0 /\ groups \div total = 1 /\ groups % total = 0
      <4>1. total * 1 + 0 = total
        BY <1>1
      <4>2. (total * 1 + 0) \div total = 1 /\ (total * 1 + 0) % total = 0
        BY <1>1, Division
      <4>3. QED
        BY <4>1, <4>2
    <3>2. QED
      BY <1>1, <1>2, <3>1 DEF Rounds
  <2>2. k = 0
    BY <2>1
  <2>3. JoinTarget(c, k) = {c % groups}
    BY <1>2, <2>2, JoinTargets
  <2>4. Covered(c, k) = {} /\ Covered(c, k + 1) = {c % groups}
    BY <1>1, <1>2, <2>2 DEF Covered
  <2>5. QED
    BY <2>3, <2>4
<1>3. CASE total < groups
  <2>1. PICK q \in Nat, m \in 0..(total - 1) :
           q = groups \div total /\ m = groups % total /\ groups = total * q + m
    <3>1. /\ groups \div total \in Nat /\ groups % total \in 0..(total - 1)
          /\ groups = total * (groups \div total) + (groups % total)
      BY <1>1, Quotient
    <3>2. QED
      BY <3>1, Zenon
  <2>2. k <= q
    BY <1>1, <1>3, <2>1 DEF Rounds
  <2>3. JoinTarget(c, k) = IF k < q \/ c < m THEN {k * total + c} ELSE {}
    BY <1>1, <1>3, <2>1 DEF JoinTarget
  <2>4. PICK x \in Nat : x = total * k + c
    BY <1>1, Division
  <2>5. x \div total = k /\ x % total = c /\ k * total + c = x
    <3>1. k * total = total * k
      BY <1>1
    <3>2. QED
      BY <1>1, <2>4, <3>1, Division
  <2>6. x < groups <=> k < q \/ c < m
    <3>1. k < q => (k + 1) * total <= q * total
      BY <1>1, <2>1, Monotone
    <3>2. total * k = k * total /\ total * q = q * total /\ (k + 1) * total = k * total + total
          /\ k * total \in Nat /\ q * total \in Nat
      BY <1>1, <2>1
    <3>3. k = q => k * total = q * total
      OBVIOUS
    <3>4. QED
      BY <1>1, <2>1, <2>2, <2>4, <3>1, <3>2, <3>3
  <2>7. JoinTarget(c, k) = {g \in Group : g % total = c /\ g \div total = k}
    <3>1. ASSUME NEW g \in Group, g % total = c, g \div total = k PROVE g = x
      <4>1. g \in Nat
        BY <1>1 DEF Group
      <4>2. g = total * (g \div total) + (g % total)
        BY <1>1, <4>1, Quotient
      <4>3. QED
        BY <2>4, <3>1, <4>2
    <3>2. x \in Group <=> x < groups
      BY <1>1, <2>4 DEF Group
    <3>3. CASE x < groups
      <4>1. JoinTarget(c, k) = {x}
        BY <2>3, <2>5, <2>6, <3>3
      <4>2. QED
        BY <2>5, <3>1, <3>2, <3>3, <4>1
    <3>4. CASE ~(x < groups)
      <4>1. JoinTarget(c, k) = {}
        BY <2>3, <2>6, <3>4
      <4>2. QED
        BY <3>1, <3>2, <3>4, <4>1
    <3>5. QED
      BY <3>3, <3>4
  <2>8. \A g \in Group : g \div total \in Nat
    <3>1. \A g \in Group : g \in Nat
      BY <1>1 DEF Group
    <3>2. QED
      BY <1>1, <3>1, Quotient
  <2>9. \A g \in Group : g \div total < k + 1 <=> g \div total < k \/ g \div total = k
    BY <2>8
  <2>10. /\ Covered(c, k) = {g \in Group : g % total = c /\ g \div total < k}
         /\ Covered(c, k + 1) = {g \in Group : g % total = c /\ g \div total < k + 1}
    BY <1>1, <1>3 DEF Covered
  <2>11. QED
    BY <2>7, <2>9, <2>10
<1>4. QED
  BY <1>1, <1>2, <1>3

LEMMA InitExactly == Init => Exactly
<1> SUFFICES ASSUME Init, NEW a \in Agent, NEW i \in DOMAIN connectionIndex[a]
             PROVE  member[connectionIndex[a][i]] = Covered(connectionIndex[a][i], Passes(a, i))
  BY DEF Init, Exactly
<1>1. i \in Nat /\ connectionIndex[a][i] \in Conn /\ total \in Nat \ {0} /\ groups \in Nat \ {0}
  BY InitDealing, ShareSize, Parameters
<1>2. Passes(a, i) = 0
  BY <1>1 DEF Init, Passes
<1>3. \A g \in Group : g \in Nat /\ ~(g \div total < 0)
  <2>1. \A g \in Group : g \in Nat
    BY <1>1 DEF Group
  <2>2. \A g \in Group : g \div total \in Nat
    BY <1>1, <2>1, Quotient
  <2>3. QED
    BY <2>1, <2>2
<1>4. Covered(connectionIndex[a][i], 0) = {}
  BY <1>3 DEF Covered
<1>5. member[connectionIndex[a][i]] = {}
  BY <1>1 DEF Init
<1>6. QED
  BY <1>2, <1>4, <1>5

LEMMA JoinNextExactly ==
  ASSUME IInv, Exactly, NEW a \in Agent, JoinNext(a)
  PROVE  Exactly'
<1> DEFINE c == connectionIndex[a][at[a]]
           r == round[a]
<1>1. /\ UNCHANGED <<total, groups, connectionIndex, phase, dropped>>
      /\ Conn' = Conn /\ Group' = Group /\ phase = "join" /\ r < Rounds
  BY Kept DEF JoinNext, IInv
<1> SUFFICES ASSUME dropped = {}, NEW b \in Agent, NEW i \in DOMAIN connectionIndex[b]
             PROVE  member'[connectionIndex[b][i]]
                      = Covered(connectionIndex[b][i], Passes(b, i)')
  BY <1>1 DEF Exactly, Covered
<1>2. /\ at[a] \in DOMAIN connectionIndex[a] /\ at[a] \in 0..(Size(a) - 1) /\ Size(a) \in Nat
      /\ c \in Conn /\ r \in Nat
  BY Parameters, ShareSize DEF IInv, Types
<1>3. i \in 0..(Size(b) - 1) /\ connectionIndex[b][i] \in Conn /\ Size(b) \in Nat
  BY ShareSize DEF IInv
<1>4. c \notin down
  BY DEF IInv, Drops
<1>5. member \in [Conn -> SUBSET Group] /\ at \in [Agent -> Nat] /\ round \in [Agent -> 0..Rounds]
  BY DEF IInv, Types
<1>6. /\ member'[c] = member[c] \cup JoinTarget(c, r)
      /\ \A d \in Conn \ {c} : member'[d] = member[d]
  BY <1>2, <1>4, <1>5 DEF JoinNext
<1>7. member[connectionIndex[b][i]] = Covered(connectionIndex[b][i], Passes(b, i))
  BY <1>1 DEF Exactly
<1>8. \/ /\ at[a] + 1 = Size(a)
         /\ at' = [at EXCEPT ![a] = 0] /\ round' = [round EXCEPT ![a] = r + 1]
      \/ /\ at[a] + 1 # Size(a)
         /\ at' = [at EXCEPT ![a] = at[a] + 1] /\ round' = round
  BY DEF JoinNext
<1>9. CASE b = a /\ i = at[a]
  <2>1. Passes(b, i) = r
    BY <1>2, <1>9 DEF Passes
  <2>2. Passes(b, i)' = r + 1
    BY <1>2, <1>5, <1>8, <1>9 DEF Passes
  <2>3. Covered(c, r) \cup JoinTarget(c, r) = Covered(c, r + 1)
    BY <1>1, <1>2, OnePass DEF IInv
  <2>4. QED
    BY <1>6, <1>7, <1>9, <2>1, <2>2, <2>3
<1>10. CASE ~(b = a /\ i = at[a])
  <2>1. connectionIndex[b][i] # c
    BY <1>2, <1>10 DEF IInv, Dealing, Dealt
  <2>2. Passes(b, i)' = Passes(b, i)
    <3>1. CASE b # a
      BY <1>5, <1>8, <3>1 DEF Passes
    <3>2. CASE b = a
      BY <1>2, <1>3, <1>5, <1>8, <1>10, <3>2 DEF Passes
    <3>3. QED
      BY <3>1, <3>2
  <2>3. QED
    BY <1>3, <1>6, <1>7, <2>1, <2>2
<1>11. QED
  BY <1>9, <1>10

LEMMA StepExactly == IInv /\ Exactly /\ [Next]_vars => Exactly'
<1> SUFFICES ASSUME IInv, Exactly, [Next]_vars PROVE Exactly'
  OBVIOUS
<1>1. ASSUME UNCHANGED <<total, groups, connectionIndex, round, at, member, dropped>>,
             phase' = phase \/ (JoinEnds /\ phase' = "send") \/ phase' \notin {"join", "send"}
      PROVE  Exactly'
  <2>1. Group' = Group /\ Rounds' = Rounds
    BY <1>1 DEF Group, Rounds
  <2>2. Exactly \/ (JoinEnds /\ phase' = "send")
    OBVIOUS
  <2>3. QED
    BY <1>1, <2>1 DEF Exactly, Covered, Passes, JoinEnds
<1>2. ASSUME NEW a \in Agent, JoinNext(a) PROVE Exactly'
  BY <1>2, JoinNextExactly
<1>3. ASSUME NEW a \in Agent, NEW i \in DOMAIN connectionIndex[a], Repair(a, i) PROVE Exactly'
  BY <1>1, <1>3 DEF Repair
<1>4. ASSUME NEW a \in Agent, LeaveOne(a) PROVE Exactly'
  <2>1. phase' = phase /\ phase = "leave"
    BY <1>4 DEF LeaveOne, IInv, Leaving
  <2>2. QED
    BY <2>1 DEF Exactly
<1>5. ASSUME NEW c \in Conn, RejoinNext(c) PROVE Exactly'
  <2>1. dropped' = dropped /\ dropped # {}
    BY <1>5 DEF RejoinNext, IInv, Drops
  <2>2. QED
    BY <2>1 DEF Exactly
<1>6. ASSUME NEW c \in Conn, Drop(c) PROVE Exactly'
  BY <1>6 DEF Drop, Exactly
<1>7. CASE JoinEnds
  BY <1>1, <1>7 DEF JoinEnds
<1>8. CASE LeaveBegins
  BY <1>1, <1>8 DEF LeaveBegins
<1>9. CASE LeaveEnds
  BY <1>1, <1>9 DEF LeaveEnds
<1>10. CASE UNCHANGED vars
  BY <1>1, <1>10 DEF vars
<1>11. QED
  BY <1>2, <1>3, <1>4, <1>5, <1>6, <1>7, <1>8, <1>9, <1>10 DEF Next, Over

\* The memberships when all passes are made.
LEMMA AllPasses ==
  ASSUME IInv, Exactly, phase = "send", dropped = {}, NEW c \in Conn
  PROVE  member[c] = {g \in Group : IF total >= groups THEN g = c % groups ELSE g % total = c}
<1>1. PICK a \in Agent : \E i \in DOMAIN connectionIndex[a] : connectionIndex[a][i] = c
  BY Owned DEF IInv
<1>2. PICK i \in DOMAIN connectionIndex[a] : connectionIndex[a][i] = c
  BY <1>1
<1>3. PICK k \in Nat : k = Passes(a, i) /\ k >= Rounds
  <2>1. round[a] = Rounds /\ Rounds \in Nat
    BY Parameters DEF Exactly, IInv
  <2>2. QED
    BY <2>1 DEF Passes
<1>4. member[c] = Covered(c, k)
  BY <1>2, <1>3 DEF Exactly
<1>5. total \in Nat \ {0} /\ groups \in Nat \ {0} /\ Rounds \in Nat \ {0}
  BY Parameters DEF IInv
<1>6. ASSUME total < groups, NEW g \in Group PROVE g \div total < k
  <2>1. PICK q \in Nat, m \in 0..(total - 1) :
           q = groups \div total /\ m = groups % total /\ groups = total * q + m
    <3>1. /\ groups \div total \in Nat /\ groups % total \in 0..(total - 1)
          /\ groups = total * (groups \div total) + (groups % total)
      BY <1>5, Quotient
    <3>2. QED
      BY <3>1, Zenon
  <2>2. g \in Nat /\ g < groups
    BY <1>5 DEF Group
  <2>3. PICK x \in Nat, y \in 0..(total - 1) :
           x = g \div total /\ g = total * x + y
    <3>1. /\ g \div total \in Nat /\ g % total \in 0..(total - 1)
          /\ g = total * (g \div total) + (g % total)
      BY <1>5, <2>2, Quotient
    <3>2. QED
      BY <3>1, Zenon
  <2>4. q < x => (q + 1) * total <= x * total
    BY <1>5, Monotone
  <2>5. x = q => x * total = q * total
    OBVIOUS
  <2>6. total * x = x * total /\ total * q = q * total /\ (q + 1) * total = q * total + total
        /\ x * total \in Nat /\ q * total \in Nat
    BY <1>5
  <2>7. x < q \/ (x = q /\ m > 0)
    BY <1>5, <2>1, <2>2, <2>3, <2>4, <2>5, <2>6
  <2>8. Rounds = q + (IF m > 0 THEN 1 ELSE 0)
    BY <1>5, <1>6, <2>1 DEF Rounds
  <2>9. QED
    BY <1>3, <2>3, <2>7, <2>8
<1>7. QED
  BY <1>3, <1>4, <1>5, <1>6 DEF Covered

\* The join loops make the groups as equal as they can be, for any number of
\* connections and of groups, whether or not one divides the other, although
\* each agent only knows the indexes that were dealt to it.
THEOREM GroupsAreBalanced == Spec => []Balanced
<1>1. IInv /\ Exactly => Balanced
  <2> SUFFICES ASSUME IInv, Exactly, phase = "send", dropped = {}
               PROVE  IF total >= groups
                      THEN \A g \in Group : Cardinality(Members(g)) - total \div groups
                                              \in IF total % groups = 0 THEN {0} ELSE {0, 1}
                      ELSE /\ \A g \in Group : Cardinality(Members(g)) = 1
                           /\ \A c \in Conn : Cardinality(member[c]) - groups \div total
                                                \in IF groups % total = 0 THEN {0} ELSE {0, 1}
    BY DEF Balanced
  <2>1. total \in Nat \ {0} /\ groups \in Nat \ {0}
    BY Parameters DEF IInv
  <2>2. ASSUME NEW n \in Nat, NEW d \in Nat \ {0}, NEW k \in 0..(d - 1), NEW T,
               T = {x \in 0..(n - 1) : x % d = k}
        PROVE  Cardinality(T) - n \div d \in IF n % d = 0 THEN {0} ELSE {0, 1}
    <3>1. Cardinality(T) = (n \div d) + (IF k < n % d THEN 1 ELSE 0)
      BY <2>2, Residues
    <3>2. n \div d \in Nat /\ n % d \in 0..(d - 1)
      BY Quotient
    <3>3. QED
      BY <3>1, <3>2
  <2>3. CASE total >= groups
    <3> SUFFICES ASSUME NEW g \in Group
                 PROVE  Cardinality(Members(g)) - total \div groups
                          \in IF total % groups = 0 THEN {0} ELSE {0, 1}
      BY <2>3
    <3>1. \A c \in Conn : g \in member[c] <=> c % groups = g
      BY <2>3, AllPasses
    <3>2. Members(g) = {c \in 0..(total - 1) : c % groups = g}
      BY <3>1 DEF Members, Conn
    <3>3. QED
      BY <2>1, <2>2, <3>2 DEF Group
  <2>4. CASE ~(total >= groups)
    <3>1. ASSUME NEW g \in Group PROVE Cardinality(Members(g)) = 1
      <4>1. g % total \in Conn
        <5>1. g \in Nat
          BY <2>1 DEF Group
        <5>2. QED
          BY <2>1, <5>1, Quotient DEF Conn
      <4>2. \A c \in Conn : g \in member[c] <=> c = g % total
        BY <2>4, AllPasses
      <4>3. Members(g) = {g % total}
        BY <4>1, <4>2 DEF Members
      <4>4. QED
        BY <4>3, FS_Singleton
    <3>2. ASSUME NEW c \in Conn
          PROVE  Cardinality(member[c]) - groups \div total
                   \in IF groups % total = 0 THEN {0} ELSE {0, 1}
      <4>1. member[c] = {g \in 0..(groups - 1) : g % total = c}
        BY <2>4, AllPasses DEF Group
      <4>2. QED
        BY <2>1, <2>2, <4>1 DEF Conn
    <3>3. QED
      BY <2>4, <3>1, <3>2
  <2>5. QED
    BY <2>3, <2>4
<1>2. Spec => []Exactly
  BY InitExactly, StepExactly, Invariance, PTL DEF Spec
<1>3. QED
  BY <1>1, <1>2, Invariance, PTL
=============================================================================
