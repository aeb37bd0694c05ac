------------------------ MODULE Configuration_proof ------------------------
(***************************************************************************)
(* Proofs about Configuration, for every set of configurations: no sending *)
(* step has more senders than there are connections, the senders grow as   *)
(* configured, every step finds its parameters, and the ids SendToClient   *)
(* uses are fresh.  The shape of the program is an invariant of the        *)
(* writing; the walk then relates the keys to the steps behind it.         *)
(***************************************************************************)
EXTENDS Configuration, FiniteSetTheorems, SequenceTheorems, TLAPS

-----------------------------------------------------------------------------
\* A step of a program for n connections, and one that does not send.
Steps(n) == [name : Names, end : 0..n]
Quiet == [name : Names \ {"Send"}, end : {0}]

\* Step c of p collects the ids, and up to step n none starts connections
\* again, but in perf, where the repairer may do so anyway.
Collects(p, c, n) ==
  /\ p[c].name = "CollectId"
  /\ IsStrict => \A j \in (c + 1)..n : p[j].name \notin {"Start", "Reconnect"}

\* What a sending step needs before it, among the first n steps of p.
Ready(p, n) ==
  /\ IsClient => \E c \in 1..n : Collects(p, c, n)
  /\ ~IsStrict => \E c \in 1..n : p[c].name = "Repair"

\* Every program begins with the steps that write what the others ask for.
Begins(p) ==
  /\ Len(p) >= 4
  /\ p[1].name = "Create" /\ p[2].name = "InitCollector" /\ p[3].name = "Collect"

\* The numbers the loop over the sending steps works with.
Loop ==
  /\ stage # "read" => config.base <= config.connections
  /\ stage = "send" => config.base > 0 /\ config.step > 0

Shape ==
  stage # "read" =>
    /\ Begins(program)
    /\ \A i \in 1..Len(program) : program[i].name = "Send" => Ready(program, i - 1)
    /\ stage = "send" /\ turn = 0 => Ready(program, Len(program))
    /\ IsClient => \E c \in 1..Len(program) : program[c].name = "CollectId"
    /\ ~IsStrict => \E c \in 1..Len(program) : program[c].name = "Repair"

\* What the steps behind the walk have left.
Behind ==
  /\ stage \in {"read", "send"} => at = 1
  /\ \A i \in 1..(at - 1) : Writes(program[i].name) \ {"ids"} \subseteq keys
  /\ ~missed => \A i \in 1..(at - 1) : program[i].name = "CollectId" => "ids" \in keys
  /\ stage = "threw" => at <= Len(program) /\ ~Finds(Current)

Fresh ==
  missed \/ "repairer" \in keys
    \/ \A c \in 1..(at - 1) :
         /\ program[c].name = "CollectId"
         /\ \A j \in (c + 1)..(at - 1) : program[j].name \notin {"Start", "Reconnect"}
         => ~stale

IInv == ConfigTypeOK /\ Loop /\ Shape /\ Behind /\ Fresh

-----------------------------------------------------------------------------
\* What \div is, in the form the backends can use.
LEMMA Quotient ==
  ASSUME NEW a \in Int, NEW b \in Nat \ {0}
  PROVE  a \div b \in Int /\ b * (a \div b) <= a
  OBVIOUS

\* A product by a natural number does not shrink when the other factor grows.
LEMMA Monotone ==
  ASSUME NEW b \in Nat, NEW x \in Nat, NEW y \in Nat, x <= y
  PROVE  x * b <= y * b
<1>1. PICK d \in Nat : y = x + d
  <2>1. y - x \in Nat /\ y = x + (y - x)
    OBVIOUS
  <2>2. QED
    BY <2>1
<1>2. y * b = x * b + d * b /\ x * b \in Nat /\ d * b \in Nat
  BY <1>1
<1>3. QED
  BY <1>2

\* A sending step of the loop has no more senders than there are connections.
LEMMA WithinConnections ==
  ASSUME config \in Configuration, config.base <= config.connections,
         config.step > 0, turn \in Nat, turn < Turns
  PROVE  EndIndex(turn) \in 0..config.connections
<1> DEFINE d == config.connections - config.base
           q == d \div config.step
<1>1. /\ config.connections \in Nat /\ config.base \in Nat /\ config.step \in Nat
      /\ config.sendingSteps \in Nat
      /\ d \in Nat
  BY DEF Configuration
<1>2. q \in Int /\ config.step * q <= d
  <2>1. config.step \in Nat \ {0} /\ d \in Int
    BY <1>1
  <2>2. QED
    BY <2>1, Quotient
<1>3. turn <= q
  <2>1. Turns <= q + 1
    BY <1>1, <1>2 DEF Turns
  <2>2. Turns \in Int
    BY <1>1, <1>2 DEF Turns
  <2>3. QED
    BY <1>2, <2>1, <2>2
<1>4. turn * config.step <= q * config.step
  BY <1>1, <1>2, <1>3, Monotone
<1>5. q * config.step = config.step * q /\ turn * config.step \in Nat
  BY <1>1, <1>2
<1>6. turn * config.step <= config.connections - config.base
  BY <1>1, <1>2, <1>4, <1>5
<1>7. QED
  BY <1>1, <1>5, <1>6 DEF EndIndex

\* A concatenation, element by element.
LEMMA Appended ==
  ASSUME NEW S, NEW p \in Seq(S), NEW q \in Seq(S)
  PROVE  /\ p \o q \in Seq(S)
         /\ Len(p \o q) = Len(p) + Len(q)
         /\ \A i \in 1..Len(p) : (p \o q)[i] = p[i]
         /\ \A i \in 1..Len(q) : (p \o q)[Len(p) + i] = q[i]
<1>1. /\ p \o q \in Seq(S)
      /\ Len(p \o q) = Len(p) + Len(q)
      /\ \A i \in 1 .. Len(p) + Len(q) :
           (p \o q)[i] = IF i <= Len(p) THEN p[i] ELSE q[i - Len(p)]
  BY ConcatProperties
<1>2. Len(p) \in Nat /\ Len(q) \in Nat
  OBVIOUS
<1>3. ASSUME NEW i \in 1..Len(q) PROVE (p \o q)[Len(p) + i] = q[i]
  <2>1. Len(p) + i \in 1..(Len(p) + Len(q)) /\ ~(Len(p) + i <= Len(p))
    BY <1>2
  <2>2. (Len(p) + i) - Len(p) = i
    BY <1>2
  <2>3. QED
    BY <1>1, <2>1, <2>2
<1>4. QED
  BY <1>1, <1>2, <1>3

\* A step that does not send, and an optional part.
LEMMA PlainQuiet ==
  ASSUME NEW name \in Names \ {"Send"}
  PROVE  Plain(name) \in Quiet /\ Plain(name).name = name
  BY DEF Plain, Quiet

LEMMA WhenQuiet ==
  ASSUME NEW condition \in BOOLEAN, NEW p \in Seq(Quiet)
  PROVE  When(condition, p) \in Seq(Quiet)
  BY DEF When

-----------------------------------------------------------------------------
\* The preparation writes what is asked for, does not send, and leaves
\* everything ready for the first sending step.
LEMMA PreparationShape ==
  /\ Preparation \in Seq(Quiet)
  /\ Begins(Preparation)
  /\ Ready(Preparation, Len(Preparation))
<1> DEFINE p1 == <<Plain("Create"), Plain("InitCollector"), Plain("Collect"),
                   Plain("Register")>>
           w2 == When(~IsStrict, <<Plain("Register")>>)
           p2 == p1 \o w2
           w3 == <<Plain("Start"), Plain("Wait"), Plain("Reconnect")>>
           p3 == p2 \o w3
           w4 == When(IsGroup, <<Plain("Join"), Plain("Wait")>>)
           p4 == p3 \o w4
           ids == <<Plain("CollectId"), Plain("Wait"), Plain("Reconnect"),
                    Plain("Wait"), Plain("CollectId")>>
           w5 == When(IsClient, ids)
           p5 == p4 \o w5
           w6 == When(~IsStrict, <<Plain("Repair")>>)
           p6 == p5 \o w6
<1>1. \A name \in Names \ {"Send"} : Plain(name) \in Quiet /\ Plain(name).name = name
  BY PlainQuiet
<1>2. /\ p1 \in Seq(Quiet) /\ w3 \in Seq(Quiet) /\ ids \in Seq(Quiet)
      /\ <<Plain("Register")>> \in Seq(Quiet)
      /\ <<Plain("Join"), Plain("Wait")>> \in Seq(Quiet)
      /\ <<Plain("Repair")>> \in Seq(Quiet)
  BY <1>1 DEF Names
<1>3. /\ w2 \in Seq(Quiet) /\ w4 \in Seq(Quiet) /\ w5 \in Seq(Quiet) /\ w6 \in Seq(Quiet)
  BY <1>2 DEF When
<1>4. /\ Len(p1) = 4
      /\ p1[1].name = "Create" /\ p1[2].name = "InitCollector" /\ p1[3].name = "Collect"
  BY <1>1 DEF Names
<1> HIDE DEF p1, w2, w3, w4, w5, w6, ids
<1>5. p2 \in Seq(Quiet) /\ Len(p2) >= 4 /\ \A i \in 1..4 : p2[i] = p1[i]
  <2>1. p1 \in Seq(Quiet) /\ w2 \in Seq(Quiet) /\ Len(w2) \in Nat
    BY <1>2, <1>3
  <2>2. /\ p2 \in Seq(Quiet) /\ Len(p2) = Len(p1) + Len(w2)
        /\ \A i \in 1..Len(p1) : p2[i] = p1[i]
    BY <2>1, Appended
  <2>3. QED
    BY <1>4, <2>1, <2>2
<1> HIDE DEF p2
<1>6. p3 \in Seq(Quiet) /\ Len(p3) >= 4 /\ \A i \in 1..4 : p3[i] = p1[i]
  BY <1>2, <1>5, Appended
<1> HIDE DEF p3
<1>7. p4 \in Seq(Quiet) /\ Len(p4) >= 4 /\ \A i \in 1..4 : p4[i] = p1[i]
  BY <1>3, <1>6, Appended
<1> HIDE DEF p4
<1>8. p5 \in Seq(Quiet) /\ Len(p5) >= 4 /\ \A i \in 1..4 : p5[i] = p1[i]
  BY <1>3, <1>7, Appended
<1>9. IsClient => \E c \in 1..Len(p5) : c = Len(p5) /\ p5[c].name = "CollectId"
  <2>1. SUFFICES ASSUME IsClient PROVE Len(p5) \in 1..Len(p5) /\ p5[Len(p5)].name = "CollectId"
    OBVIOUS
  <2>2. w5 = ids
    BY <2>1 DEF When, w5
  <2>3. Len(ids) = 5 /\ ids[5].name = "CollectId"
    BY <1>1 DEF Names, ids
  <2>4. Len(p5) = Len(p4) + 5 /\ p5[Len(p4) + 5] = ids[5]
    <3>1. /\ Len(p5) = Len(p4) + Len(w5)
          /\ \A i \in 1..Len(w5) : p5[Len(p4) + i] = w5[i]
      BY <1>3, <1>7, Appended
    <3>2. QED
      BY <2>2, <2>3, <3>1
  <2>5. QED
    BY <1>7, <2>3, <2>4
<1> HIDE DEF p5
<1>10. /\ p6 \in Seq(Quiet) /\ Len(p6) = Len(p5) + Len(w6)
       /\ \A i \in 1..Len(p5) : p6[i] = p5[i]
       /\ \A i \in 1..Len(w6) : p6[Len(p5) + i] = w6[i]
  BY <1>3, <1>8, Appended
<1>11. Len(p5) \in Nat /\ Len(p5) >= 4 /\ Len(p6) \in Nat
  BY <1>8, <1>10
<1>12. ASSUME IsStrict PROVE Ready(p6, Len(p6))
  <2>1. w6 = <<>>
    BY <1>12 DEF When, w6
  <2>2. Len(p6) = Len(p5)
    BY <1>8, <1>10, <2>1
  <2>3. IsClient => Collects(p6, Len(p5), Len(p6)) /\ Len(p5) \in 1..Len(p6)
    BY <1>9, <1>10, <1>11, <2>2 DEF Collects
  <2>4. QED
    BY <1>12, <2>3 DEF Ready
<1>13. ASSUME ~IsStrict PROVE Ready(p6, Len(p6))
  <2>1. w6 = <<Plain("Repair")>> /\ Plain("Repair").name = "Repair"
    BY <1>1, <1>13 DEF When, w6, Names
  <2>2. Len(p6) = Len(p5) + 1 /\ p6[Len(p5) + 1].name = "Repair"
    BY <1>8, <1>10, <2>1
  <2>3. IsClient => Collects(p6, Len(p5), Len(p6)) /\ Len(p5) \in 1..Len(p6)
    BY <1>9, <1>10, <1>11, <1>13, <2>2 DEF Collects
  <2>4. Len(p5) + 1 \in 1..Len(p6)
    BY <1>11, <2>2
  <2>5. QED
    BY <1>13, <2>2, <2>3, <2>4 DEF Ready
<1>14. Begins(p6)
  BY <1>4, <1>8, <1>10 DEF Begins
<1>15. Preparation = p6
  BY DEF Preparation, p1, p2, w2, p3, w3, p4, w4, p5, w5, ids, p6, w6
<1>16. QED
  BY <1>10, <1>12, <1>13, <1>14, <1>15

\* What is written between two sending steps of strict perf collects the ids
\* after the connections were started again.
LEMMA BetweenShape ==
  ASSUME NEW p \in Seq(Steps(config.connections)), config \in Configuration,
         IsClient => \E c \in 1..Len(p) : p[c].name = "CollectId",
         ~IsStrict => \E c \in 1..Len(p) : p[c].name = "Repair"
  PROVE  Between \in Seq(Quiet) /\ Ready(p \o Between, Len(p \o Between))
<1> DEFINE n == config.connections
           check == <<Plain("Check")>>
           w == <<Plain("Check"), Plain("Reconnect")>>
           v == When(IsClient, <<Plain("CollectId")>>)
           u == When(IsStrict, w \o v)
           all == p \o (u \o check)
<1>1. \A name \in Names \ {"Send"} : Plain(name) \in Quiet /\ Plain(name).name = name
  BY PlainQuiet
<1>2. /\ check \in Seq(Quiet) /\ w \in Seq(Quiet) /\ v \in Seq(Quiet)
      /\ Len(check) = 1 /\ check[1].name = "Check" /\ Len(w) = 2
  BY <1>1 DEF Names, When
<1>3. w \o v \in Seq(Quiet)
  BY <1>2, Appended
<1>4. u \in Seq(Quiet)
  BY <1>3 DEF When
<1>5. u \o check \in Seq(Quiet) /\ Len(u \o check) = Len(u) + 1
      /\ \A i \in 1..Len(u) : (u \o check)[i] = u[i]
      /\ (u \o check)[Len(u) + 1] = check[1]
  BY <1>2, <1>4, Appended
<1>6. Between = u \o check
  BY DEF Between
<1>7. Quiet \subseteq Steps(n)
  BY DEF Quiet, Steps, Configuration
<1>8. u \o check \in Seq(Steps(n))
  BY <1>5, <1>7
<1>9. /\ Len(all) = Len(p) + Len(u) + 1
      /\ \A i \in 1..Len(p) : all[i] = p[i]
      /\ \A i \in 1..(Len(u) + 1) : all[Len(p) + i] = (u \o check)[i]
  BY <1>4, <1>5, <1>8, Appended
<1>10. CASE ~IsStrict
  <2>1. /\ IsClient => \E c \in 1..Len(all) : all[c].name = "CollectId"
        /\ \E c \in 1..Len(all) : all[c].name = "Repair"
    BY <1>4, <1>9, <1>10
  <2>2. QED
    BY <1>6, <1>5, <1>10, <2>1 DEF Ready, Collects
<1>11. CASE IsStrict
  <2>1. SUFFICES ASSUME IsClient PROVE \E c \in 1..Len(all) : Collects(all, c, Len(all))
    BY <1>5, <1>6, <1>11 DEF Ready
  <2>2. v = <<Plain("CollectId")>> /\ u = w \o v /\ Plain("CollectId").name = "CollectId"
    BY <1>1, <1>11, <2>1 DEF When, Names
  <2>3. Len(u) = 3 /\ u[3].name = "CollectId"
    <3>1. Len(w) = 2 /\ Len(v) = 1 /\ v[1].name = "CollectId"
      BY <2>2
    <3>2. /\ Len(w \o v) = Len(w) + Len(v)
          /\ \A i \in 1..Len(v) : (w \o v)[Len(w) + i] = v[i]
      BY <1>2, Appended
    <3> HIDE DEF u, v, w
    <3>3. (w \o v)[2 + 1] = v[1] /\ Len(w \o v) = 2 + 1
      BY <3>1, <3>2
    <3>4. u[3] = v[1] /\ Len(u) = 3
      BY <2>2, <3>3
    <3>5. QED
      BY <3>1, <3>4
  <2>4. /\ Len(all) = Len(p) + 4
        /\ all[Len(p) + 3].name = "CollectId" /\ all[Len(p) + 4].name = "Check"
    <3> HIDE DEF u, check
    <3>1. (u \o check)[3] = u[3] /\ (u \o check)[4] = check[1]
      BY <1>5, <2>3
    <3>2. all[Len(p) + 3] = (u \o check)[3] /\ all[Len(p) + 4] = (u \o check)[4]
      BY <1>9, <2>3
    <3>3. Len(all) = Len(p) + 3 + 1 /\ check[1].name = "Check"
      BY <1>2, <1>9, <2>3
    <3> HIDE DEF all
    <3>4. Len(all) = Len(p) + 4
      BY <3>3
    <3>5. QED
      BY <2>3, <3>1, <3>2, <3>3, <3>4
  <2>5. Len(p) + 3 \in 1..Len(all) /\ Collects(all, Len(p) + 3, Len(all))
    BY <2>4 DEF Collects
  <2>6. QED
    BY <2>5
<1>12. QED
  BY <1>5, <1>6, <1>10, <1>11

-----------------------------------------------------------------------------
\* What is ready stays ready when the program is continued.
LEMMA ReadyPrefix ==
  ASSUME NEW p, NEW q, NEW n \in Nat, \A i \in 1..n : q[i] = p[i], Ready(p, n)
  PROVE  Ready(q, n)
<1>1. ASSUME NEW c \in 1..n, Collects(p, c, n) PROVE Collects(q, c, n)
  <2>1. \A j \in (c + 1)..n : j \in 1..n
    OBVIOUS
  <2>2. QED
    BY <1>1, <2>1 DEF Collects
<1>2. QED
  BY <1>1 DEF Ready

\* The configuration read is valid, and nothing is written or walked yet.
LEMMA InitInvariant == ConfigInit => IInv
<1> SUFFICES ASSUME ConfigInit PROVE IInv
  OBVIOUS
<1>1. config \in Configuration /\ stage = "read" /\ program = <<>> /\ at = 1
  BY ConfigAssumption DEF ConfigInit
<1>2. ConfigTypeOK
  <2>1. program \in Seq(Steps(config.connections)) /\ Len(program) = 0
    BY <1>1
  <2>2. at \in 1..(Len(program) + 1)
    BY <1>1, <2>1
  <2>3. turn \in Nat /\ keys \in SUBSET Keys /\ stale \in BOOLEAN /\ missed \in BOOLEAN
    BY DEF ConfigInit
  <2>4. QED
    BY <1>1, <2>1, <2>2, <2>3 DEF ConfigTypeOK, Steps
<1>3. Loop /\ Shape
  BY <1>1 DEF Loop, Shape
<1>4. Behind /\ Fresh
  BY <1>1 DEF Behind, Fresh
<1>5. QED
  BY <1>2, <1>3, <1>4 DEF IInv

\* The preparation is written: base is no more than connections from here on.
LEMMA PreparesStep == IInv /\ Prepares => IInv'
<1> SUFFICES ASSUME IInv, Prepares PROVE IInv'
  OBVIOUS
<1>1. /\ config \in Configuration /\ turn \in Nat /\ at = 1 /\ stage = "read"
      /\ keys \in SUBSET Keys /\ stale \in BOOLEAN /\ missed \in BOOLEAN
  BY DEF IInv, ConfigTypeOK, Behind, Prepares
<1>2. /\ config' \in Configuration /\ config'.base <= config'.connections
      /\ config'.kind = config.kind /\ config'.scenario = config.scenario
      /\ config'.step = config.step
  BY <1>1 DEF Prepares, Clamped, Configuration
<1>3. (IsStrict' <=> IsStrict) /\ (IsClient' <=> IsClient)
  BY <1>2 DEF IsStrict, IsClient
<1>4. PICK p \in Seq(Quiet) : p = Preparation /\ Begins(p) /\ Ready(p, Len(p))
  BY PreparationShape
<1>5. program' = p
  BY <1>4 DEF Prepares
<1>6. p \in Seq(Steps(config'.connections))
  <2>1. Quiet \subseteq Steps(config'.connections)
    BY <1>2 DEF Quiet, Steps, Configuration
  <2>2. QED
    BY <2>1
<1>7. ConfigTypeOK'
  <2>1. stage' \in {"walk", "invalid", "send"}
    BY DEF Prepares
  <2>2. at' = 1 /\ turn' = turn /\ keys' = keys /\ stale' = stale /\ missed' = missed
    BY <1>1 DEF Prepares
  <2>3. Len(p) \in Nat
    OBVIOUS
  <2>4. QED
    BY <1>1, <1>2, <1>5, <1>6, <2>1, <2>2, <2>3 DEF ConfigTypeOK, Steps
<1>8. Loop'
  BY <1>1, <1>2 DEF Loop, Prepares, Configuration
<1>9. Shape'
  <2>1. \A i \in 1..Len(p) : p[i].name # "Send"
    <3>1. \A i \in 1..Len(p) : p[i] \in Quiet
      BY <1>4
    <3>2. \A s \in Quiet : s.name # "Send"
      BY DEF Quiet
    <3>3. QED
      BY <3>1, <3>2
  <2>2. /\ IsClient' => \E c \in 1..Len(p) : p[c].name = "CollectId"
        /\ ~IsStrict' => \E c \in 1..Len(p) : p[c].name = "Repair"
    BY <1>3, <1>4 DEF Ready, Collects
  <2>3. Ready(program, Len(program))'
    BY <1>3, <1>4, <1>5 DEF Ready, Collects
  <2>4. QED
    BY <1>4, <1>5, <2>1, <2>2, <2>3 DEF Shape, Begins
<1>10. Behind' /\ Fresh'
  <2>1. at' = 1 /\ stage' # "threw"
    BY <1>1 DEF Prepares
  <2>2. QED
    BY <2>1 DEF Behind, Fresh
<1>11. QED
  BY <1>7, <1>8, <1>9, <1>10 DEF IInv

\* A continuation of the program by steps that do not send.
LEMMA ContinuedShape ==
  ASSUME NEW p \in Seq(Steps(config.connections)), NEW q \in Seq(Quiet),
         config \in Configuration
  PROVE  /\ p \o q \in Seq(Steps(config.connections))
         /\ Len(p \o q) >= Len(p)
         /\ \A i \in 1..Len(p) : (p \o q)[i] = p[i]
         /\ \A i \in 1..Len(p \o q) : (p \o q)[i].name = "Send" => i <= Len(p)
<1>1. q \in Seq(Steps(config.connections))
  <2>1. Quiet \subseteq Steps(config.connections)
    BY DEF Quiet, Steps, Configuration
  <2>2. QED
    BY <2>1
<1>2. /\ p \o q \in Seq(Steps(config.connections))
      /\ Len(p \o q) = Len(p) + Len(q)
      /\ \A i \in 1..Len(p) : (p \o q)[i] = p[i]
      /\ \A i \in 1..Len(q) : (p \o q)[Len(p) + i] = q[i]
  BY <1>1, Appended
<1>3. Len(p) \in Nat /\ Len(q) \in Nat
  OBVIOUS
<1>4. ASSUME NEW i \in 1..Len(p \o q), (p \o q)[i].name = "Send" PROVE i <= Len(p)
  <2>1. SUFFICES ASSUME i > Len(p) PROVE FALSE
    BY <1>3
  <2>2. i - Len(p) \in 1..Len(q) /\ Len(p) + (i - Len(p)) = i
    BY <1>2, <1>3, <2>1
  <2>3. (p \o q)[i] = q[i - Len(p)]
    BY <1>2, <2>2
  <2>4. q[i - Len(p)].name # "Send"
    <3>1. q[i - Len(p)] \in Quiet
      BY <2>2
    <3>2. \A s \in Quiet : s.name # "Send"
      BY DEF Quiet
    <3>3. QED
      BY <3>1, <3>2
  <2>5. QED
    BY <1>4, <2>3, <2>4
<1>5. QED
  BY <1>2, <1>3, <1>4

\* A sending step is written, after what stands between two of them, and a
\* Wait after it: x is its place.
LEMMA SendingShape ==
  IInv /\ AddsSendingStep =>
    /\ program' \in Seq(Steps(config.connections))
    /\ \A i \in 1..Len(program) : program'[i] = program[i]
    /\ \E x \in Nat :
         /\ x > Len(program) /\ Len(program') = x + 1
         /\ program'[x].name = "Send" /\ program'[x].end = EndIndex(turn)
         /\ \A i \in 1..(x + 1) : program'[i].name = "Send" => i <= Len(program) \/ i = x
         /\ Ready(program', x - 1)
<1> SUFFICES ASSUME IInv, AddsSendingStep
             PROVE  /\ program' \in Seq(Steps(config.connections))
                    /\ \A i \in 1..Len(program) : program'[i] = program[i]
                    /\ \E x \in Nat :
                         /\ x > Len(program) /\ Len(program') = x + 1
                         /\ program'[x].name = "Send"
                         /\ program'[x].end = EndIndex(turn)
                         /\ \A i \in 1..(x + 1) :
                              program'[i].name = "Send" => i <= Len(program) \/ i = x
                         /\ Ready(program', x - 1)
  OBVIOUS
<1> DEFINE n == config.connections
           send == [name |-> "Send", end |-> EndIndex(turn)]
           m == program \o When(turn > 0, Between)
           tail == <<send, Plain("Wait")>>
<1>1. /\ config \in Configuration /\ stage = "send" /\ turn \in Nat
      /\ program \in Seq(Steps(n)) /\ n \in Nat
      /\ config.base <= config.connections /\ config.step > 0
  BY DEF IInv, ConfigTypeOK, Loop, AddsSendingStep, Steps, Configuration
<1>2. /\ Begins(program)
      /\ \A i \in 1..Len(program) : program[i].name = "Send" => Ready(program, i - 1)
      /\ turn = 0 => Ready(program, Len(program))
      /\ IsClient => \E c \in 1..Len(program) : program[c].name = "CollectId"
      /\ ~IsStrict => \E c \in 1..Len(program) : program[c].name = "Repair"
  BY <1>1 DEF IInv, Shape
<1>3. /\ m \in Seq(Steps(n)) /\ Len(m) >= Len(program)
      /\ \A i \in 1..Len(program) : m[i] = program[i]
      /\ \A i \in 1..Len(m) : m[i].name = "Send" => i <= Len(program)
      /\ Ready(m, Len(m))
  <2>1. CASE turn = 0
    <3>1. When(turn > 0, Between) = <<>>
      BY <2>1 DEF When
    <3>2. m = program
      BY <1>1, <3>1, ConcatEmptySeq
    <3> HIDE DEF m
    <3>3. Len(program) \in Nat
      BY <1>1
    <3>4. QED
      BY <1>1, <1>2, <2>1, <3>2, <3>3
  <2>2. CASE turn > 0
    <3>1. When(turn > 0, Between) = Between
      BY <2>2 DEF When
    <3>2. Between \in Seq(Quiet) /\ Ready(program \o Between, Len(program \o Between))
      BY <1>1, <1>2, BetweenShape
    <3>3. QED
      BY <1>1, <3>1, <3>2, ContinuedShape
  <2>3. turn = 0 \/ turn > 0
    BY <1>1
  <2>4. QED
    BY <2>1, <2>2, <2>3
<1> HIDE DEF m
<1>4. send \in Steps(n) /\ Plain("Wait") \in Steps(n) /\ Plain("Wait").name = "Wait"
  <2>1. EndIndex(turn) \in 0..n
    BY <1>1, WithinConnections DEF AddsSendingStep
  <2>2. QED
    BY <1>1, <2>1 DEF Steps, Names, Plain
<1>4a. send.name = "Send" /\ send.end = EndIndex(turn)
  OBVIOUS
<1> HIDE DEF send
<1>5. /\ tail \in Seq(Steps(n)) /\ Len(tail) = 2
      /\ tail[1] = send /\ tail[2].name = "Wait"
  BY <1>4
<1> HIDE DEF tail
<1>6. /\ m \o tail \in Seq(Steps(n)) /\ Len(m \o tail) = Len(m) + 2
      /\ \A i \in 1..Len(m) : (m \o tail)[i] = m[i]
      /\ (m \o tail)[Len(m) + 1] = send /\ (m \o tail)[Len(m) + 2] = tail[2]
  <2>1. /\ m \o tail \in Seq(Steps(n)) /\ Len(m \o tail) = Len(m) + Len(tail)
        /\ \A i \in 1..Len(m) : (m \o tail)[i] = m[i]
        /\ \A i \in 1..Len(tail) : (m \o tail)[Len(m) + i] = tail[i]
    BY <1>3, <1>5, Appended
  <2>2. QED
    BY <1>5, <2>1
<1>7. PICK p : p = m \o tail
  OBVIOUS
<1>8. program' = p
  BY <1>7 DEF AddsSendingStep, m, tail, send
<1>9. Len(m) \in Nat /\ Len(program) \in Nat /\ Len(p) \in Nat
  BY <1>1, <1>3, <1>6, <1>7
<1> DEFINE x == Len(m) + 1
<1>10. x \in Nat /\ x > Len(program) /\ Len(p) = x + 1 /\ x - 1 = Len(m)
  BY <1>3, <1>6, <1>7, <1>9
<1>11. p[x].name = "Send" /\ p[x].end = EndIndex(turn)
  BY <1>6, <1>7, <1>4a
<1>12. \A i \in 1..Len(program) : p[i] = program[i]
  BY <1>3, <1>6, <1>7, <1>9
<1>13. ASSUME NEW i \in 1..(x + 1), p[i].name = "Send" PROVE i <= Len(program) \/ i = x
  <2>1. i \in 1..Len(m) \/ i = x \/ i = Len(m) + 2
    BY <1>9
  <2>2. i # Len(m) + 2
    BY <1>5, <1>6, <1>7, <1>13
  <2>3. i \in 1..Len(m) => m[i].name = "Send"
    BY <1>6, <1>7, <1>13
  <2>4. QED
    BY <1>3, <2>1, <2>2, <2>3
<1>14. Ready(p, x - 1)
  <2>1. \A j \in 1..Len(m) : p[j] = m[j]
    BY <1>6, <1>7
  <2>2. Ready(p, Len(m))
    BY <1>3, <1>9, <2>1, ReadyPrefix
  <2>3. QED
    BY <1>10, <2>2
<1>15. p \in Seq(Steps(n))
  BY <1>6, <1>7
<1> HIDE DEF x, m
<1>16. QED
  BY <1>8, <1>10, <1>11, <1>12, <1>13, <1>14, <1>15

LEMMA SendingStep == IInv /\ AddsSendingStep => IInv'
<1> SUFFICES ASSUME IInv, AddsSendingStep PROVE IInv'
  OBVIOUS
<1> DEFINE n == config.connections
<1>1. /\ config \in Configuration /\ stage = "send" /\ at = 1 /\ turn \in Nat
      /\ program \in Seq(Steps(n))
      /\ config.base <= config.connections /\ config.step > 0 /\ config.base > 0
      /\ keys \in SUBSET Keys /\ stale \in BOOLEAN /\ missed \in BOOLEAN
  BY DEF IInv, ConfigTypeOK, Loop, Behind, AddsSendingStep, Steps
<1>2. /\ Begins(program)
      /\ \A i \in 1..Len(program) : program[i].name = "Send" => Ready(program, i - 1)
      /\ IsClient => \E c \in 1..Len(program) : program[c].name = "CollectId"
      /\ ~IsStrict => \E c \in 1..Len(program) : program[c].name = "Repair"
  BY <1>1 DEF IInv, Shape
<1>3. /\ config' = config /\ stage' = stage /\ at' = 1 /\ turn' = turn + 1
      /\ keys' = keys /\ stale' = stale /\ missed' = missed
  BY <1>1 DEF AddsSendingStep
<1>4. PICK p : p = program'
  OBVIOUS
<1>5. p \in Seq(Steps(n)) /\ \A i \in 1..Len(program) : p[i] = program[i]
  BY <1>4, SendingShape
<1>6. PICK x \in Nat :
        /\ x > Len(program) /\ Len(p) = x + 1
        /\ \A i \in 1..(x + 1) : p[i].name = "Send" => i <= Len(program) \/ i = x
        /\ Ready(p, x - 1)
  BY <1>4, SendingShape
<1>7. Len(p) \in Nat /\ Len(program) \in Nat /\ Len(p) >= Len(program)
  BY <1>1, <1>5, <1>6
<1>8. ASSUME NEW i \in 1..Len(p), p[i].name = "Send" PROVE Ready(p, i - 1)
  <2>1. i = x \/ i \in 1..Len(program)
    BY <1>6, <1>7, <1>8
  <2>2. CASE i \in 1..Len(program)
    <3>1. Ready(program, i - 1)
      BY <1>2, <1>5, <1>8, <2>2
    <3>2. i - 1 \in Nat /\ \A j \in 1..(i - 1) : p[j] = program[j]
      BY <1>5, <1>7, <2>2
    <3>3. QED
      BY <3>1, <3>2, ReadyPrefix
  <2>3. QED
    BY <1>6, <2>1, <2>2
<1>9. ConfigTypeOK'
  BY <1>1, <1>3, <1>4, <1>5, <1>7 DEF ConfigTypeOK, Steps
<1>10. Loop'
  BY <1>1, <1>3 DEF Loop
<1>11. Shape'
  <2>1. Begins(p)
    BY <1>2, <1>5, <1>7 DEF Begins
  <2>2. /\ IsClient => \E c \in 1..Len(p) : p[c].name = "CollectId"
        /\ ~IsStrict => \E c \in 1..Len(p) : p[c].name = "Repair"
    BY <1>2, <1>5, <1>7
  <2>3. turn' # 0
    BY <1>1, <1>3
  <2>4. QED
    BY <1>3, <1>4, <1>8, <2>1, <2>2, <2>3
    DEF Shape, Ready, Collects, Begins, IsClient, IsStrict
<1>12. Behind' /\ Fresh'
  BY <1>1, <1>3 DEF Behind, Fresh
<1>13. QED
  BY <1>9, <1>10, <1>11, <1>12 DEF IInv

\* The clean-up is written; it does not send.
LEMMA CleanUpQuiet == CleanUp \in Seq(Quiet)
<1> DEFINE leave == <<Plain("Leave")>>
           last == <<Plain("StopCollector"), Plain("Stop"), Plain("Dispose")>>
<1>1. \A name \in Names \ {"Send"} : Plain(name) \in Quiet
  BY PlainQuiet
<1>2. leave \in Seq(Quiet) /\ last \in Seq(Quiet)
  BY <1>1 DEF Names
<1>3. When(IsGroup, leave) \in Seq(Quiet)
  BY <1>2 DEF When
<1>4. QED
  BY <1>2, <1>3, Appended DEF CleanUp

LEMMA CleanUpStep == IInv /\ AddsCleanUp => IInv'
<1> SUFFICES ASSUME IInv, AddsCleanUp PROVE IInv'
  OBVIOUS
<1> DEFINE n == config.connections
<1>1. /\ config \in Configuration /\ stage = "send" /\ at = 1 /\ turn \in Nat
      /\ program \in Seq(Steps(n))
      /\ keys \in SUBSET Keys /\ stale \in BOOLEAN /\ missed \in BOOLEAN
      /\ config.base <= config.connections
  BY DEF IInv, ConfigTypeOK, Loop, Behind, AddsCleanUp, Steps
<1>2. /\ Begins(program)
      /\ \A i \in 1..Len(program) : program[i].name = "Send" => Ready(program, i - 1)
      /\ IsClient => \E c \in 1..Len(program) : program[c].name = "CollectId"
      /\ ~IsStrict => \E c \in 1..Len(program) : program[c].name = "Repair"
  BY <1>1 DEF IInv, Shape
<1>3. CleanUp \in Seq(Quiet)
  BY CleanUpQuiet
<1>4. PICK p : p = program \o CleanUp
  OBVIOUS
<1>5. /\ p \in Seq(Steps(n)) /\ Len(p) >= Len(program)
      /\ \A i \in 1..Len(program) : p[i] = program[i]
      /\ \A i \in 1..Len(p) : p[i].name = "Send" => i <= Len(program)
  BY <1>1, <1>3, <1>4, ContinuedShape
<1>6. /\ program' = p /\ config' = config /\ stage' = "walk" /\ at' = 1 /\ turn' = turn
      /\ keys' = keys /\ stale' = stale /\ missed' = missed
  BY <1>1, <1>4 DEF AddsCleanUp
<1>7. Len(p) \in Nat /\ Len(program) \in Nat
  BY <1>1, <1>5
<1>8. ASSUME NEW i \in 1..Len(p), p[i].name = "Send" PROVE Ready(p, i - 1)
  <2>1. i \in 1..Len(program) /\ p[i] = program[i]
    BY <1>5, <1>7, <1>8
  <2>2. Ready(program, i - 1)
    BY <1>2, <1>8, <2>1
  <2>3. i - 1 \in Nat /\ \A j \in 1..(i - 1) : p[j] = program[j]
    BY <1>5, <1>7, <2>1
  <2>4. QED
    BY <2>2, <2>3, ReadyPrefix
<1>9. ConfigTypeOK'
  BY <1>1, <1>5, <1>6, <1>7 DEF ConfigTypeOK, Steps
<1>10. Shape'
  <2>1. Begins(p)
    BY <1>2, <1>5, <1>7 DEF Begins
  <2>2. /\ IsClient => \E c \in 1..Len(p) : p[c].name = "CollectId"
        /\ ~IsStrict => \E c \in 1..Len(p) : p[c].name = "Repair"
    BY <1>2, <1>5, <1>7
  <2>3. QED
    BY <1>6, <1>8, <2>1, <2>2
    DEF Shape, Ready, Collects, Begins, IsClient, IsStrict
<1>11. Loop' /\ Behind' /\ Fresh'
  BY <1>1, <1>6 DEF Loop, Behind, Fresh
<1>12. QED
  BY <1>9, <1>10, <1>11 DEF IInv

-----------------------------------------------------------------------------
\* A step of the walk that returns: the program stays, what it wrote is there.
LEMMA StepReturnsStep == IInv /\ StepReturns => IInv'
<1> SUFFICES ASSUME IInv, StepReturns PROVE IInv'
  OBVIOUS
<1>1. /\ stage = "walk" /\ at <= Len(program) /\ at' = at + 1
      /\ keys' = keys \cup Writes(Current)
      /\ config' = config /\ stage' = stage /\ turn' = turn /\ program' = program
      /\ missed' = missed
  BY DEF StepReturns, Arrives
<1>2. /\ program \in Seq(Steps(config.connections)) /\ at \in 1..(Len(program) + 1)
      /\ keys \in SUBSET Keys /\ stale \in BOOLEAN /\ Len(program) \in Nat
  BY DEF IInv, ConfigTypeOK, Steps
<1>3. at' \in 1..(Len(program) + 1) /\ at' - 1 = at /\ at \in 1..Len(program)
  BY <1>1, <1>2
<1>4. ConfigTypeOK'
  <2>1. Writes(Current) \subseteq Keys
    BY DEF Writes, Keys
  <2>2. stale' \in BOOLEAN
    BY <1>2 DEF StepReturns
  <2>3. QED
    BY <1>1, <1>3, <2>1, <2>2 DEF IInv, ConfigTypeOK
<1>5. Loop' /\ Shape'
  BY <1>1 DEF IInv, Loop, Shape, Ready, Collects, Begins, IsClient, IsStrict
<1>6. Behind'
  <2>1. \A i \in 1..at : Writes(program[i].name) \ {"ids"} \subseteq keys'
    <3>1. \A i \in 1..(at - 1) : Writes(program[i].name) \ {"ids"} \subseteq keys
      BY DEF IInv, Behind
    <3>2. Writes(program[at].name) \subseteq keys'
      BY <1>1 DEF Current
    <3>3. QED
      BY <1>1, <1>2, <3>1, <3>2
  <2>2. ASSUME ~missed, NEW i \in 1..at, program[i].name = "CollectId" PROVE "ids" \in keys'
    <3>1. CASE i = at
      BY <1>1, <2>2, <3>1 DEF Current, Writes
    <3>2. CASE i \in 1..(at - 1)
      BY <1>1, <2>2, <3>2 DEF IInv, Behind
    <3>3. QED
      BY <1>2, <3>1, <3>2
  <2>3. QED
    BY <1>1, <1>3, <2>1, <2>2 DEF Behind
<1>7. Fresh'
  <2>1. SUFFICES ASSUME ~missed, "repairer" \notin keys', NEW c \in 1..at,
                        program[c].name = "CollectId",
                        \A j \in (c + 1)..at : program[j].name \notin {"Start", "Reconnect"}
                 PROVE  ~stale'
    BY <1>1, <1>3 DEF Fresh
  <2>2. CASE c = at
    BY <2>1, <2>2 DEF StepReturns, Current
  <2>3. CASE c \in 1..(at - 1)
    <3>1. at \in (c + 1)..at /\ \A j \in (c + 1)..(at - 1) : j \in (c + 1)..at
      BY <1>2, <2>3
    <3>2. ~stale
      BY <1>1, <2>1, <2>3, <3>1 DEF IInv, Fresh
    <3>3. Current \notin {"Start", "Reconnect"}
      BY <2>1, <3>1 DEF Current
    <3>4. QED
      BY <3>2, <3>3 DEF StepReturns
  <2>4. QED
    BY <1>2, <2>2, <2>3
<1>8. QED
  BY <1>4, <1>5, <1>6, <1>7 DEF IInv

\* Every other step of the walk leaves the program, and moves on at most.
LEMMA OtherSteps ==
  IInv /\ (StepThrows \/ CollectIdGivesUp \/ CheckFails \/ RepairerStarts \/ WalkEnds) => IInv'
<1> SUFFICES ASSUME IInv, StepThrows \/ CollectIdGivesUp \/ CheckFails \/ RepairerStarts
                          \/ WalkEnds
             PROVE  IInv'
  OBVIOUS
<1>1. /\ stage = "walk" /\ config' = config /\ turn' = turn /\ program' = program
      /\ keys' = keys
  BY DEF StepThrows, CollectIdGivesUp, CheckFails, RepairerStarts, WalkEnds, Arrives
<1>2. /\ program \in Seq(Steps(config.connections)) /\ at \in 1..(Len(program) + 1)
      /\ Len(program) \in Nat
  BY DEF IInv, ConfigTypeOK, Steps
<1>3. stage' \in {"walk", "threw", "aborted", "completed"}
  BY <1>1 DEF StepThrows, CollectIdGivesUp, CheckFails, RepairerStarts, WalkEnds
<1>4. Loop' /\ Shape'
  BY <1>1, <1>3 DEF IInv, Loop, Shape, Ready, Collects, Begins, IsClient, IsStrict
<1>5. CASE CollectIdGivesUp
  <2>1. /\ at' = at + 1 /\ missed' = TRUE /\ stale' = stale /\ stage' = stage
        /\ at <= Len(program) /\ program[at].name = "CollectId"
    BY <1>5 DEF CollectIdGivesUp, Arrives, Current
  <2>2. ConfigTypeOK'
    BY <1>1, <1>2, <2>1 DEF IInv, ConfigTypeOK
  <2>3. Writes("CollectId") \ {"ids"} = {}
    BY DEF Writes
  <2>4. \A i \in 1..(at' - 1) : i = at \/ i \in 1..(at - 1)
    BY <1>2, <2>1
  <2>5. Behind'
    BY <1>1, <2>1, <2>3, <2>4 DEF IInv, Behind
  <2>6. QED
    BY <1>4, <2>1, <2>2, <2>5 DEF IInv, Fresh
<1>6. CASE StepThrows \/ CheckFails \/ RepairerStarts \/ WalkEnds
  <2>1. at' = at /\ missed' = missed
    BY <1>6 DEF StepThrows, CheckFails, RepairerStarts, WalkEnds
  <2>2. ConfigTypeOK'
    <3>1. stale' \in BOOLEAN
      BY <1>6 DEF IInv, ConfigTypeOK, StepThrows, CheckFails, RepairerStarts, WalkEnds
    <3>2. QED
      BY <1>1, <1>2, <1>3, <2>1, <3>1 DEF IInv, ConfigTypeOK
  <2>3. stage' = "threw" => at <= Len(program) /\ ~Finds(Current)
    BY <1>1, <1>6 DEF StepThrows, CheckFails, RepairerStarts, WalkEnds, Arrives
  <2>4. Behind'
    BY <1>1, <1>3, <2>1, <2>3 DEF IInv, Behind, Finds, Asks, Current, IsClient, IsStrict
  <2>5. Fresh'
    <3>1. "repairer" \in keys \/ stale' = stale
      BY <1>6 DEF StepThrows, CheckFails, RepairerStarts, WalkEnds
    <3>2. QED
      BY <1>1, <2>1, <3>1 DEF IInv, Fresh
  <2>6. QED
    BY <1>4, <2>2, <2>4, <2>5 DEF IInv
<1>7. QED
  BY <1>5, <1>6

LEMMA StepInvariant == IInv /\ [ConfigNext]_configVars => IInv'
<1> SUFFICES ASSUME IInv, [ConfigNext]_configVars PROVE IInv'
  OBVIOUS
<1>1. CASE UNCHANGED configVars
  <2>1. /\ config' = config /\ stage' = stage /\ turn' = turn /\ program' = program
        /\ at' = at /\ keys' = keys /\ stale' = stale /\ missed' = missed
    BY <1>1 DEF configVars
  <2>2. ConfigTypeOK' /\ Loop'
    BY <2>1 DEF IInv, ConfigTypeOK, Loop
  <2>3. Shape'
    BY <2>1 DEF IInv, Shape, Ready, Collects, Begins, IsClient, IsStrict
  <2>4. Finds(Current)' <=> Finds(Current)
    BY <2>1 DEF Finds, Asks, Current, IsClient, IsStrict
  <2>5. Behind' /\ Fresh'
    BY <2>1, <2>4 DEF IInv, Behind, Fresh
  <2>6. QED
    BY <2>2, <2>3, <2>5 DEF IInv
<1>2. CASE Writing
  BY <1>2, PreparesStep, SendingStep, CleanUpStep DEF Writing
<1>3. CASE Walk
  BY <1>3, StepReturnsStep, OtherSteps DEF Walk
<1>4. CASE RepairerStarts
  BY <1>4, OtherSteps
<1>5. QED
  BY <1>1, <1>2, <1>3, <1>4 DEF ConfigNext

LEMMA Invariance == ConfigSpec => []IInv
  BY InitInvariant, StepInvariant, PTL DEF ConfigSpec

\* The step that throws is a sending one without its ids: the first three
\* steps find what they ask for, and have written it for all the others.
LEMMA Found == IInv => EveryParameterFound
<1> SUFFICES ASSUME IInv, stage = "threw"
             PROVE  Current = "Send" /\ IsClient /\ missed /\ "ids" \notin keys
  BY DEF EveryParameterFound
<1>1. /\ Len(program) \in Nat /\ at \in 1..Len(program) /\ ~(Asks(Current) \subseteq keys)
      /\ program[at] \in Steps(config.connections)
  <2>1. program \in Seq(Steps(config.connections)) /\ at \in 1..(Len(program) + 1)
    BY DEF IInv, ConfigTypeOK, Steps
  <2>2. at <= Len(program) /\ ~(Asks(Current) \subseteq keys)
    BY DEF IInv, Behind, Finds
  <2>3. Len(program) \in Nat /\ at \in 1..Len(program)
    BY <2>1, <2>2
  <2>4. QED
    BY <2>1, <2>2, <2>3
<1>2. Begins(program) /\ (Current = "Send" => Ready(program, at - 1))
  BY <1>1 DEF IInv, Shape, Current
<1>3. /\ \A i \in 1..(at - 1) : Writes(program[i].name) \ {"ids"} \subseteq keys
      /\ ~missed => \A i \in 1..(at - 1) : program[i].name = "CollectId" => "ids" \in keys
  BY DEF IInv, Behind
<1>4. at # 1
  BY <1>1, <1>2 DEF Begins, Current, Asks
<1>5. "connections" \in keys
  <2>1. 1 \in 1..(at - 1)
    BY <1>1, <1>4
  <2>2. QED
    BY <1>2, <1>3, <2>1 DEF Begins, Writes
<1>6. at # 2
  BY <1>1, <1>2, <1>5 DEF Begins, Current, Asks
<1>7. "latency" \in keys /\ "statistics" \in keys
  <2>1. 2 \in 1..(at - 1)
    BY <1>1, <1>4, <1>6
  <2>2. QED
    BY <1>2, <1>3, <2>1 DEF Begins, Writes
<1>8. at # 3
  BY <1>1, <1>2, <1>7 DEF Begins, Current, Asks
<1>9. "collector" \in keys
  <2>1. 3 \in 1..(at - 1)
    BY <1>1, <1>4, <1>6, <1>8
  <2>2. QED
    BY <1>2, <1>3, <2>1 DEF Begins, Writes
<1>10. Current \in Names
  BY <1>1 DEF Current, Steps
<1>11. Current = "Send" /\ IsClient /\ "ids" \notin keys
  BY <1>1, <1>5, <1>7, <1>9, <1>10 DEF Asks, Names
<1>12. missed
  BY <1>2, <1>3, <1>11 DEF Ready, Collects
<1>13. QED
  BY <1>11, <1>12

\* In strict perf the ids are collected after the last start before each
\* sending step; in perf the repairer is at work.
LEMMA NotStale == IInv => IdsAreFresh
<1> SUFFICES ASSUME IInv, Arrives, Current = "Send", IsClient, stale, ~missed,
                    "repairer" \notin keys
             PROVE  FALSE
  BY DEF IdsAreFresh
<1>1. Len(program) \in Nat /\ at \in 1..Len(program) /\ stage = "walk"
  BY DEF IInv, ConfigTypeOK, Arrives
<1>2. Ready(program, at - 1)
  BY <1>1 DEF IInv, Shape, Current
<1>3. \A i \in 1..(at - 1) : program[i].name # "Repair"
  BY DEF IInv, Behind, Writes
<1>4. IsStrict
  BY <1>2, <1>3 DEF Ready
<1>5. PICK c \in 1..(at - 1) : Collects(program, c, at - 1)
  BY <1>2 DEF Ready
<1>6. QED
  BY <1>4, <1>5 DEF Collects, IInv, Fresh

-----------------------------------------------------------------------------
(* How the numbers of senders grow: f gives the places of the sending      *)
(* steps that the loop has written.                                        *)

Places(p, n, f) ==
  /\ \A k \in 0..(n - 1) : p[f[k]].name = "Send" /\ p[f[k]].end = EndIndex(k)
  /\ \A k, l \in 0..(n - 1) : k < l => f[k] < f[l]
  /\ \A i \in 1..Len(p) : p[i].name = "Send" => \E k \in 0..(n - 1) : f[k] = i

Sends(p, n) == \E f \in [0..(n - 1) -> 1..Len(p)] : Places(p, n, f)

Written ==
  /\ stage = "read" => turn = 0
  /\ stage # "read" => Sends(program, turn)
  /\ stage = "send" => turn <= Turns
  /\ stage \in {"walk", "completed", "aborted", "threw"} /\ config.base > 0 =>
       turn = Turns /\ config.step > 0

\* A continuation that does not send leaves the places as they are.
LEMMA SendsKept ==
  ASSUME NEW p, NEW q, NEW n \in Nat, Len(p) \in Nat, Len(q) \in Nat, Len(q) >= Len(p),
         \A i \in 1..Len(p) : q[i] = p[i],
         \A i \in 1..Len(q) : q[i].name = "Send" => i <= Len(p),
         Sends(p, n)
  PROVE  Sends(q, n)
<1>1. PICK f \in [0..(n - 1) -> 1..Len(p)] : Places(p, n, f)
  BY DEF Sends
<1>2. f \in [0..(n - 1) -> 1..Len(q)]
  BY 1..Len(p) \subseteq 1..Len(q)
<1>3. \A k \in 0..(n - 1) : f[k] \in 1..Len(p) /\ q[f[k]] = p[f[k]]
  OBVIOUS
<1>4. \A i \in 1..Len(q) : q[i].name = "Send" => i \in 1..Len(p) /\ p[i].name = "Send"
  OBVIOUS
<1>5. Places(q, n, f)
  BY <1>1, <1>3, <1>4 DEF Places
<1>6. QED
  BY <1>2, <1>5 DEF Sends

\* A sending step behind the others has the next place.
LEMMA SendsExtended ==
  ASSUME NEW p, NEW q, NEW n \in Nat, Len(p) \in Nat, Len(q) \in Nat,
         NEW x \in 1..Len(q), x > Len(p),
         \A i \in 1..Len(p) : q[i] = p[i],
         q[x].name = "Send", q[x].end = EndIndex(n),
         \A i \in 1..Len(q) : q[i].name = "Send" => i <= Len(p) \/ i = x,
         Sends(p, n)
  PROVE  Sends(q, n + 1)
<1>1. PICK f \in [0..(n - 1) -> 1..Len(p)] : Places(p, n, f)
  BY DEF Sends
<1>2. PICK g : g = [k \in 0..n |-> IF k = n THEN x ELSE f[k]]
  OBVIOUS
<1>3. g[n] = x
  BY <1>2
<1>4. ASSUME NEW k \in 0..(n - 1)
      PROVE  g[k] = f[k] /\ f[k] \in 1..Len(p) /\ q[f[k]] = p[f[k]]
  BY <1>2
<1>5. \A k \in 0..n : k = n \/ k \in 0..(n - 1)
  OBVIOUS
<1>6. g \in [0..n -> 1..Len(q)]
  <2>1. \A k \in 0..n : g[k] \in 1..Len(q)
    BY <1>3, <1>4, <1>5
  <2>2. QED
    BY <1>2, <2>1
<1>7. ASSUME NEW k \in 0..n PROVE q[g[k]].name = "Send" /\ q[g[k]].end = EndIndex(k)
  <2>1. CASE k = n
    BY <1>3, <2>1
  <2>2. CASE k \in 0..(n - 1)
    <3>1. p[f[k]].name = "Send" /\ p[f[k]].end = EndIndex(k)
      BY <1>1, <2>2 DEF Places
    <3>2. q[g[k]] = p[f[k]]
      BY <1>4, <2>2
    <3>3. QED
      BY <3>1, <3>2
  <2>3. QED
    BY <1>5, <2>1, <2>2
<1>8. ASSUME NEW k \in 0..n, NEW l \in 0..n, k < l PROVE g[k] < g[l]
  <2>1. k \in 0..(n - 1)
    BY <1>8
  <2>2. CASE l = n
    BY <1>3, <1>4, <2>1, <2>2
  <2>3. CASE l \in 0..(n - 1)
    BY <1>1, <1>4, <1>8, <2>1, <2>3 DEF Places
  <2>4. QED
    BY <1>5, <2>2, <2>3
<1>9. ASSUME NEW i \in 1..Len(q), q[i].name = "Send" PROVE \E k \in 0..n : g[k] = i
  <2>1. CASE i = x
    BY <1>3, <2>1
  <2>2. CASE i <= Len(p)
    <3>1. i \in 1..Len(p) /\ p[i].name = "Send"
      BY <1>9, <2>2
    <3>2. PICK k \in 0..(n - 1) : f[k] = i
      BY <1>1, <3>1 DEF Places
    <3>3. k \in 0..n /\ g[k] = i
      BY <1>4, <3>2
    <3>4. QED
      BY <3>3
  <2>3. QED
    BY <1>9, <2>1, <2>2
<1>10. (n + 1) - 1 = n
  OBVIOUS
<1>11. Places(q, n + 1, g)
  BY <1>7, <1>8, <1>9, <1>10 DEF Places
<1>12. QED
  BY <1>6, <1>10, <1>11 DEF Sends

\* The loop over the sending steps takes at least one turn.
TurnsOf(c) ==
  LET s == (c.connections - c.base) \div c.step + 1
  IN  IF c.sendingSteps # 0 /\ s > c.sendingSteps THEN c.sendingSteps ELSE s

LEMMA TurnsPositive ==
  ASSUME NEW c \in Configuration, c.base <= c.connections, c.step > 0
  PROVE  TurnsOf(c) \in Nat /\ TurnsOf(c) > 0
<1> DEFINE d == c.connections - c.base
           q == d \div c.step
<1>1. /\ c.connections \in Nat /\ c.base \in Nat
      /\ c.step \in Nat \ {0} /\ c.sendingSteps \in Nat /\ d \in Nat
  BY DEF Configuration
<1>2. q \in Nat
  BY <1>1
<1> HIDE DEF q
<1>3. TurnsOf(c) = IF c.sendingSteps # 0 /\ q + 1 > c.sendingSteps
                   THEN c.sendingSteps ELSE q + 1
  BY DEF TurnsOf, q
<1>4. QED
  BY <1>1, <1>2, <1>3

LEMMA InitWritten == ConfigInit => Written
  BY DEF ConfigInit, Written

\* The loop adds the next sending step; the rest of the program does not send.
LEMMA StepWritten == IInv /\ Written /\ [ConfigNext]_configVars => Written'
<1> SUFFICES ASSUME IInv, Written, [ConfigNext]_configVars PROVE Written'
  OBVIOUS
<1>1. config \in Configuration /\ turn \in Nat
      /\ program \in Seq(Steps(config.connections))
  BY DEF IInv, ConfigTypeOK, Steps
<1>2. Len(program) \in Nat
  BY <1>1
<1>3. CASE Prepares
  <2>1. PICK p \in Seq(Quiet) : p = program'
    BY <1>3, PreparationShape DEF Prepares
  <2>2. turn' = 0 /\ stage' \in {"walk", "invalid", "send"}
    BY <1>3 DEF Prepares, Written
  <2>3. Sends(program, turn)'
    <3>1. Len(p) \in Nat /\ \A i \in 1..Len(p) : p[i].name # "Send"
      <4>1. \A i \in 1..Len(p) : p[i] \in Quiet
        OBVIOUS
      <4>2. \A s \in Quiet : s.name # "Send"
        BY DEF Quiet
      <4>3. QED
        BY <4>1, <4>2
    <3>2. PICK f \in [0..(0 - 1) -> 1..Len(p)] : TRUE
      <4>1. [k \in 0..(0 - 1) |-> k] \in [0..(0 - 1) -> 1..Len(p)]
        OBVIOUS
      <4>2. QED
        BY <4>1
    <3>3. Places(program, turn, f)'
      BY <2>1, <2>2, <3>1 DEF Places
    <3>4. QED
      BY <2>1, <2>2, <3>2, <3>3 DEF Sends
  <2>4. stage' = "send" => turn' <= Turns'
    <3>1. SUFFICES ASSUME stage' = "send" PROVE turn' <= Turns'
      OBVIOUS
    <3>2. Loop' /\ config' \in Configuration
      BY <1>3, PreparesStep DEF IInv, ConfigTypeOK
    <3>3. PICK c : c = config'
      OBVIOUS
    <3>4. c \in Configuration /\ c.base <= c.connections /\ c.step > 0
      BY <3>1, <3>2, <3>3 DEF Loop
    <3>5. TurnsOf(c) \in Nat /\ TurnsOf(c) > 0
      BY <3>4, TurnsPositive
    <3>6. Turns' = TurnsOf(c)
      BY <3>3 DEF Turns, TurnsOf
    <3>7. QED
      BY <2>2, <3>5, <3>6
  <2>5. stage' = "walk" => config'.base = 0
    BY <1>3 DEF Prepares
  <2>6. QED
    BY <2>2, <2>3, <2>4, <2>5 DEF Written
<1>4. CASE AddsSendingStep
  <2>1. /\ stage = "send" /\ stage' = stage /\ config' = config /\ turn' = turn + 1
        /\ turn < Turns /\ Sends(program, turn)
    BY <1>4 DEF AddsSendingStep, Written
  <2>2. PICK p : p = program'
    OBVIOUS
  <2>3. p \in Seq(Steps(config.connections)) /\ \A i \in 1..Len(program) : p[i] = program[i]
    BY <1>4, <2>2, SendingShape
  <2>4. PICK x \in Nat :
          /\ x > Len(program) /\ Len(p) = x + 1
          /\ p[x].name = "Send" /\ p[x].end = EndIndex(turn)
          /\ \A i \in 1..(x + 1) : p[i].name = "Send" => i <= Len(program) \/ i = x
    BY <1>4, <2>2, SendingShape
  <2>5. Len(p) \in Nat /\ x \in 1..Len(p)
    BY <1>2, <2>4
  <2>6. Sends(p, turn + 1)
    BY <1>1, <1>2, <2>1, <2>3, <2>4, <2>5, SendsExtended
  <2>7. Sends(program, turn)'
    BY <2>1, <2>2, <2>6 DEF Sends, Places, EndIndex
  <2>8. turn' <= Turns'
    <3>1. Loop
      BY DEF IInv
    <3>2. Turns \in Nat
      BY <1>1, <2>1, <3>1, TurnsPositive DEF Loop, Turns, TurnsOf
    <3>3. Turns' = Turns
      BY <2>1 DEF Turns
    <3>4. QED
      BY <1>1, <2>1, <3>2, <3>3
  <2>9. QED
    BY <2>1, <2>7, <2>8 DEF Written
<1>5. CASE AddsCleanUp
  <2>1. /\ stage = "send" /\ stage' = "walk" /\ config' = config /\ turn' = turn
        /\ turn >= Turns /\ turn <= Turns /\ Sends(program, turn)
    BY <1>5 DEF AddsCleanUp, Written
  <2>2. Loop
    BY DEF IInv
  <2>3. Turns \in Nat /\ config.step > 0
    BY <1>1, <2>1, <2>2, TurnsPositive DEF Loop, Turns, TurnsOf
  <2>4. turn' = Turns'
    <3>1. Turns' = Turns
      BY <2>1 DEF Turns
    <3>2. QED
      BY <1>1, <2>1, <2>3, <3>1
  <2>5. PICK p : p = program' /\ p = program \o CleanUp
    BY <1>5 DEF AddsCleanUp
  <2>6. CleanUp \in Seq(Quiet)
    BY CleanUpQuiet
  <2>7. /\ p \in Seq(Steps(config.connections)) /\ Len(p) >= Len(program)
        /\ \A i \in 1..Len(program) : p[i] = program[i]
        /\ \A i \in 1..Len(p) : p[i].name = "Send" => i <= Len(program)
    BY <1>1, <2>5, <2>6, ContinuedShape
  <2>8. Len(p) \in Nat
    BY <2>7
  <2>9. Sends(p, turn)
    BY <1>1, <1>2, <2>1, <2>7, <2>8, SendsKept
  <2>10. config' = config /\ turn' = turn /\ program' = p
    BY <2>1, <2>5
  <2>11. Sends(program, turn)'
    BY <2>9, <2>10 DEF Sends, Places, EndIndex
  <2>12. QED
    BY <2>1, <2>3, <2>4, <2>11 DEF Written
<1>6. CASE Walk \/ RepairerStarts \/ UNCHANGED configVars
  <2>1. config' = config /\ turn' = turn /\ program' = program
    BY <1>6 DEF Walk, StepThrows, StepReturns, CollectIdGivesUp, CheckFails, WalkEnds,
                RepairerStarts, configVars
  <2>2. \/ stage' = stage
        \/ stage = "walk" /\ stage' \in {"completed", "aborted", "threw"}
    <3>1. CASE StepThrows \/ CheckFails \/ WalkEnds
      BY <3>1 DEF StepThrows, CheckFails, WalkEnds, Arrives
    <3>2. CASE StepReturns
      BY <3>2 DEF StepReturns
    <3>3. CASE CollectIdGivesUp
      BY <3>3 DEF CollectIdGivesUp
    <3>4. CASE RepairerStarts \/ UNCHANGED configVars
      BY <3>4 DEF RepairerStarts, configVars
    <3>5. QED
      BY <1>6, <3>1, <3>2, <3>3, <3>4 DEF Walk
  <2>3. Turns' = Turns /\ (Sends(program, turn) => Sends(program, turn)')
    BY <2>1 DEF Turns, Sends, Places, EndIndex
  <2>4. QED
    BY <2>1, <2>2, <2>3 DEF Written
<1>7. QED
  BY <1>3, <1>4, <1>5, <1>6 DEF ConfigNext, Writing

-----------------------------------------------------------------------------
\* No sending step of a generated pipeline has more senders than there are
\* connections, whatever BaseSending and Step (BenchmarkConfiguration.cs).
THEOREM SendersWithinConnections == ConfigSpec => []ConfigTypeOK
<1>1. IInv => ConfigTypeOK
  BY DEF IInv
<1>2. QED
  BY <1>1, Invariance, PTL

\* Each step of a generated pipeline finds the parameters it asks for, but for
\* ids that could not be collected.
THEOREM ParametersFound == ConfigSpec => []EveryParameterFound
  BY Found, Invariance, PTL

\* SendToClient uses the ids of the connections as they are, but for the
\* repairer of perf and for ids that could not be collected.
THEOREM FreshIds == ConfigSpec => []IdsAreFresh
  BY NotStale, Invariance, PTL

-----------------------------------------------------------------------------
\* What \div is from above: one turn more would exceed the connections.
LEMMA QuotientAbove ==
  ASSUME NEW a \in Int, NEW b \in Nat \ {0}
  PROVE  a < b * (a \div b + 1)
  OBVIOUS

LEMMA TurnsExhaust ==
  ASSUME NEW c \in Configuration, c.base <= c.connections, c.step > 0,
         ~(c.sendingSteps # 0 /\ TurnsOf(c) >= c.sendingSteps)
  PROVE  c.base + (TurnsOf(c) - 1) * c.step + c.step > c.connections
<1>1. /\ c.connections \in Nat /\ c.base \in Nat /\ c.step \in Nat \ {0}
      /\ c.sendingSteps \in Nat
      /\ c.connections - c.base \in Nat
  BY DEF Configuration
<1>2. PICK q \in Nat : q = (c.connections - c.base) \div c.step
  BY <1>1
<1>3. c.connections - c.base < c.step * (q + 1)
  <2>1. c.connections - c.base \in Int
    BY <1>1
  <2>2. c.connections - c.base < c.step * ((c.connections - c.base) \div c.step + 1)
    BY <1>1, <2>1, QuotientAbove
  <2>3. QED
    BY <1>2, <2>2
<1>4. TurnsOf(c) = q + 1
  BY <1>1, <1>2 DEF TurnsOf
<1>5. TurnsOf(c) - 1 = q
  BY <1>2, <1>4
<1>6. q * c.step + c.step = c.step * (q + 1) /\ q * c.step \in Nat
  BY <1>1, <1>2
<1>7. c.base + q * c.step + c.step > c.connections
  BY <1>1, <1>3, <1>6
<1>8. QED
  BY <1>5, <1>7

\* A product by a positive number orders the other factors.
LEMMA Scale ==
  ASSUME NEW b \in Nat \ {0}, NEW x \in Int, NEW y \in Int, b * x < b * y
  PROVE  x < y
<1> SUFFICES ASSUME y <= x PROVE FALSE
  OBVIOUS
<1>1. PICK d \in Nat : x = y + d
  <2>1. x - y \in Nat /\ x = y + (x - y)
    OBVIOUS
  <2>2. QED
    BY <2>1
<1>2. b * x = b * y + b * d /\ b * d \in Nat
  BY <1>1
<1>3. QED
  BY <1>2

\* The turns of the loop against the quotient of the help text: the first
\* BaseSending connections and a Step for each further turn are to be fitted
\* into what the quotient cuts into pieces of BaseSending.
LEMMA HelpTextAgrees ==
  ASSUME NEW c \in Configuration, c.base <= c.connections, c.step > 0, c.base > 0
  PROVE  /\ c.step >= c.base => TurnsOf(c) <= c.connections \div c.base
         /\ c.step <= c.base => \/ TurnsOf(c) >= c.connections \div c.base
                                \/ c.sendingSteps # 0 /\ TurnsOf(c) >= c.sendingSteps
<1>1. PICK n, b, s, m \in Nat :
        n = c.connections /\ b = c.base /\ s = c.step /\ m = c.sendingSteps
  BY DEF Configuration
<1>2. n - b \in Nat /\ b > 0 /\ s > 0
  BY <1>1
<1>3. PICK q \in Nat : /\ q = (n - b) \div s
                       /\ s * q <= n - b /\ n - b < s * (q + 1)
  <2>1. PICK a \in Nat : a = n - b
    BY <1>2
  <2>2. a \div s \in Nat
    BY <1>1, <1>2, <2>1
  <2>3. s * (a \div s) <= a /\ a < s * (a \div s + 1)
    <3>1. a \in Int /\ s \in Nat \ {0}
      BY <1>1, <1>2, <2>1
    <3>2. s * (a \div s) <= a
      BY <3>1, Quotient
    <3>3. a < s * (a \div s + 1)
      BY <3>1, QuotientAbove
    <3>4. QED
      BY <3>2, <3>3
  <2>4. QED
    BY <2>1, <2>2, <2>3
<1>4. PICK d \in Nat : /\ d = n \div b
                       /\ b * d <= n /\ n < b * (d + 1)
  <2>1. n \div b \in Nat
    BY <1>1, <1>2
  <2>2. b * (n \div b) <= n /\ n < b * (n \div b + 1)
    <3>1. n \in Int /\ b \in Nat \ {0}
      BY <1>1, <1>2
    <3>2. b * (n \div b) <= n
      BY <3>1, Quotient
    <3>3. n < b * (n \div b + 1)
      BY <3>1, QuotientAbove
    <3>4. QED
      BY <3>2, <3>3
  <2>3. QED
    BY <2>1, <2>2
<1>5. TurnsOf(c) = IF m # 0 /\ q + 1 > m THEN m ELSE q + 1
  BY <1>1, <1>3 DEF TurnsOf
<1>6. ASSUME s >= b
      PROVE  q + 1 <= d
  <2>1. b * q <= s * q
    BY <1>1, <1>3, <1>6, Monotone
  <2>2. b * (q + 1) = b * q + b /\ b * q \in Nat /\ s * q \in Nat
    BY <1>1, <1>3
  <2>3. b * (q + 1) < b * (d + 1)
    <3>1. b * (d + 1) \in Nat
      BY <1>1, <1>4
    <3>2. QED
      BY <1>1, <1>3, <1>4, <2>1, <2>2, <3>1
  <2>4. q + 1 < d + 1
    BY <1>1, <1>2, <1>3, <1>4, <2>3, Scale
  <2>5. QED
    BY <1>3, <1>4, <2>4
<1>7. ASSUME s <= b
      PROVE  d <= q + 1
  <2>1. s * (q + 1) <= b * (q + 1)
    BY <1>1, <1>3, <1>7, Monotone
  <2>2. b * (q + 2) = b * (q + 1) + b /\ b * (q + 1) \in Nat /\ s * (q + 1) \in Nat
    BY <1>1, <1>3
  <2>3. b * d < b * (q + 2)
    <3>1. b * d \in Nat
      BY <1>1, <1>4
    <3>2. QED
      BY <1>1, <1>3, <1>4, <2>1, <2>2, <3>1
  <2>4. d < q + 2
    BY <1>1, <1>2, <1>3, <1>4, <2>3, Scale
  <2>5. QED
    BY <1>3, <1>4, <2>4
<1>8. QED
  BY <1>1, <1>3, <1>4, <1>5, <1>6, <1>7

\* The places are the sending steps, one for each turn of the loop.
LEMMA Grow == IInv /\ Written => StepsGrow
<1> SUFFICES ASSUME IInv, Written, stage \in {"walk", "completed"}, config.base > 0
             PROVE  /\ \E i \in Sendings :
                         program[i].end = config.base /\ \A j \in Sendings : i <= j
                    /\ \A i, j \in Sendings :
                         Follows(j, i) => program[j].end = program[i].end + config.step
                    /\ IF config.sendingSteps # 0 /\ Cardinality(Sendings) >= config.sendingSteps
                       THEN Cardinality(Sendings) = config.sendingSteps
                       ELSE \E i \in Sendings :
                              /\ \A j \in Sendings : j <= i
                              /\ program[i].end + config.step > config.connections
                    /\ config.step >= config.base => Cardinality(Sendings) <= HelpTextSteps
                    /\ config.step <= config.base =>
                         \/ Cardinality(Sendings) >= HelpTextSteps
                         \/ /\ config.sendingSteps # 0
                            /\ Cardinality(Sendings) >= config.sendingSteps
  BY DEF StepsGrow
<1>1. /\ config \in Configuration /\ config.base <= config.connections /\ config.step > 0
      /\ turn = Turns /\ turn = TurnsOf(config)
      /\ program \in Seq(Steps(config.connections))
  BY DEF IInv, ConfigTypeOK, Loop, Written, Turns, TurnsOf, Steps
<1>2. turn \in Nat /\ turn > 0 /\ Len(program) \in Nat /\ DOMAIN program = 1..Len(program)
  BY <1>1, TurnsPositive
<1>3. config.base \in Nat /\ config.step \in Nat /\ config.connections \in Nat
  BY <1>1 DEF Configuration
<1>4. PICK f \in [0..(turn - 1) -> 1..Len(program)] : Places(program, turn, f)
  BY DEF Written, Sends
<1>5. /\ \A k \in 0..(turn - 1) :
            f[k] \in Sendings /\ f[k] \in 1..Len(program) /\ program[f[k]].end = EndIndex(k)
      /\ \A i \in Sendings : \E k \in 0..(turn - 1) : f[k] = i
      /\ \A k, l \in 0..(turn - 1) : k < l => f[k] < f[l]
  BY <1>2, <1>4 DEF Places, Sendings
<1>6. \A k, l \in 0..(turn - 1) : k <= l => f[k] <= f[l]
  <2>1. \A k, l \in 0..(turn - 1) : k <= l => k < l \/ k = l
    OBVIOUS
  <2>2. QED
    BY <1>5, <2>1
<1>7. 0 \in 0..(turn - 1) /\ turn - 1 \in 0..(turn - 1)
  BY <1>2
<1>8. \E i \in Sendings : program[i].end = config.base /\ \A j \in Sendings : i <= j
  <2>1. EndIndex(0) = config.base
    BY <1>3 DEF EndIndex
  <2>2. \A k \in 0..(turn - 1) : 0 <= k
    OBVIOUS
  <2>3. \A j \in Sendings : f[0] <= j
    BY <1>5, <1>6, <1>7, <2>2
  <2>4. QED
    BY <1>5, <1>7, <2>1, <2>3
<1>9. ASSUME NEW i \in Sendings, NEW j \in Sendings, Follows(j, i)
      PROVE  program[j].end = program[i].end + config.step
  <2>1. PICK k \in 0..(turn - 1) : f[k] = i
    BY <1>5
  <2>2. PICK l \in 0..(turn - 1) : f[l] = j
    BY <1>5
  <2>3. k < l
    <3>1. i < j
      BY <1>9 DEF Follows
    <3>2. ~(f[l] <= f[k])
      BY <1>5, <2>1, <2>2, <3>1
    <3>3. ~(l <= k)
      BY <1>6, <3>2
    <3>4. QED
      BY <3>3
  <2>4. l = k + 1
    <3>1. SUFFICES ASSUME k + 1 < l PROVE FALSE
      BY <2>3
    <3>2. k + 1 \in 0..(turn - 1) /\ k < k + 1
      BY <1>2, <3>1
    <3>3. f[k] < f[k + 1] /\ f[k + 1] < f[l] /\ f[k + 1] \in Sendings
      BY <1>5, <3>1, <3>2
    <3>4. f[k] \in Int /\ f[k + 1] \in Int /\ f[l] \in Int
      BY <1>5, <3>2
    <3>5. f[k + 1] <= f[k] \/ f[l] <= f[k + 1]
      BY <1>9, <2>1, <2>2, <3>3 DEF Follows
    <3>6. QED
      BY <3>3, <3>4, <3>5
  <2>5. EndIndex(k + 1) = EndIndex(k) + config.step
    <3>1. (k + 1) * config.step = k * config.step + config.step /\ k * config.step \in Nat
      BY <1>3
    <3>2. QED
      BY <1>3, <3>1 DEF EndIndex
  <2>6. QED
    BY <1>5, <2>1, <2>2, <2>4, <2>5
<1>10. Cardinality(Sendings) = turn
  <2>1. IsFiniteSet(0..(turn - 1)) /\ Cardinality(0..(turn - 1)) = turn
    BY <1>2, FS_Interval
  <2>2. \A k, l \in 0..(turn - 1) : f[k] = f[l] => k = l
    <3>1. SUFFICES ASSUME NEW k \in 0..(turn - 1), NEW l \in 0..(turn - 1), k # l
                   PROVE  f[k] # f[l]
      OBVIOUS
    <3>2. k < l \/ l < k
      BY <3>1
    <3>3. f[k] < f[l] \/ f[l] < f[k]
      BY <1>5, <3>2
    <3>4. f[k] \in Int /\ f[l] \in Int
      BY <1>5
    <3>5. QED
      BY <3>3, <3>4
  <2>3. f \in [0..(turn - 1) -> Sendings]
    <3>1. f = [k \in 0..(turn - 1) |-> f[k]]
      OBVIOUS
    <3>2. QED
      BY <1>5, <3>1
  <2>4. f \in Bijection(0..(turn - 1), Sendings)
    BY <1>5, <2>2, <2>3 DEF Bijection, Injection, Surjection, IsInjective
  <2>5. QED
    BY <2>1, <2>4, FS_Bijection DEF ExistsBijection
<1>11. ASSUME config.sendingSteps # 0, turn >= config.sendingSteps
       PROVE  turn = config.sendingSteps
  <2>1. PICK q \in Int : q = (config.connections - config.base) \div config.step
    BY <1>1, <1>3
  <2>2. turn = IF config.sendingSteps # 0 /\ q + 1 > config.sendingSteps
               THEN config.sendingSteps ELSE q + 1
    BY <1>1, <2>1 DEF TurnsOf
  <2>3. config.sendingSteps \in Nat
    BY <1>1 DEF Configuration
  <2>4. QED
    BY <1>11, <2>1, <2>2, <2>3
<1>12. ASSUME ~(config.sendingSteps # 0 /\ turn >= config.sendingSteps)
       PROVE  \E i \in Sendings : /\ \A j \in Sendings : j <= i
                                  /\ program[i].end + config.step > config.connections
  <2>1. EndIndex(turn - 1) + config.step > config.connections
    BY <1>1, <1>12, TurnsExhaust DEF EndIndex
  <2>2. \A k \in 0..(turn - 1) : k <= turn - 1
    OBVIOUS
  <2>3. \A j \in Sendings : j <= f[turn - 1]
    BY <1>5, <1>6, <1>7, <2>2
  <2>4. QED
    BY <1>5, <1>7, <2>1, <2>3
<1>13. /\ config.step >= config.base => turn <= HelpTextSteps
       /\ config.step <= config.base =>
            turn >= HelpTextSteps \/ (config.sendingSteps # 0 /\ turn >= config.sendingSteps)
  BY <1>1, HelpTextAgrees DEF HelpTextSteps
<1>14. QED
  BY <1>8, <1>9, <1>10, <1>11, <1>12, <1>13

\* The sending steps of a generated pipeline grow by Step from BaseSending, one
\* for each turn of the loop: SendingSteps of them, or until a further one
\* would have more senders than connections (BenchmarkConfiguration.cs).  That
\* is as many as the help text says only when Step is BaseSending.
THEOREM SendersGrow == ConfigSpec => []StepsGrow
<1>1. ConfigSpec => []Written
  BY InitWritten, StepWritten, Invariance, PTL DEF ConfigSpec
<1>2. QED
  BY <1>1, Grow, Invariance, PTL

-----------------------------------------------------------------------------
(* The group scenarios: the hypothesis of RepairsKeepGroups (in            *)
(* AgentConnections_proof) holds of every generated pipeline.              *)

\* Wherever the program sets the repairer up, it has joined the groups and
\* starts no connections any more.
JoinsBeforeRepair(p) ==
  \A r \in 1..Len(p) : p[r].name = "Repair" =>
    \E j \in 1..(r - 1) :
      /\ p[j].name = "Join"
      /\ \A i \in (j + 1)..Len(p) : p[i].name \notin {"Start", "Reconnect"}

\* The steps with a name of some set; what is written after the preparation.
Named(names) == [name : names, end : Int]
AnyName == Names \ {"Repair"}
Calm == Names \ {"Start", "Reconnect", "Repair"}

\* Perf has calm steps only after the preparation, strict perf no Repair.
JoinedBy(p) ==
  IF IsStrict THEN p \in Seq(Named(AnyName))
  ELSE p \in Seq(Named(Names)) /\ JoinsBeforeRepair(p)

Joined ==
  /\ stage = "read" => program = <<>>
  /\ stage # "read" /\ IsGroup => JoinedBy(program)

LEMMA PlainNamed ==
  ASSUME NEW names, NEW name \in names
  PROVE  Plain(name) \in Named(names) /\ Plain(name).name = name
  BY DEF Plain, Named

\* Calm steps may be added.
LEMMA CalmAdded ==
  ASSUME NEW p \in Seq(Named(Names)), NEW q \in Seq(Named(Calm)), JoinsBeforeRepair(p)
  PROVE  p \o q \in Seq(Named(Names)) /\ JoinsBeforeRepair(p \o q)
<1>1. q \in Seq(Named(Names))
  <2>1. Named(Calm) \subseteq Named(Names)
    BY DEF Named, Calm
  <2>2. QED
    BY <2>1
<1>2. PICK r : r = p \o q
  OBVIOUS
<1>3. /\ r \in Seq(Named(Names)) /\ Len(r) = Len(p) + Len(q)
      /\ \A i \in 1..Len(p) : r[i] = p[i]
      /\ \A i \in 1..Len(q) : r[Len(p) + i] = q[i]
  BY <1>1, <1>2, Appended
<1>4. Len(p) \in Nat /\ Len(q) \in Nat /\ Len(r) \in Nat
  BY <1>3
<1>5. ASSUME NEW i \in 1..Len(r), ~(i <= Len(p)) PROVE r[i].name \in Calm
  <2>1. i - Len(p) \in 1..Len(q) /\ Len(p) + (i - Len(p)) = i
    BY <1>3, <1>4, <1>5
  <2>2. r[i] = q[i - Len(p)] /\ q[i - Len(p)] \in Named(Calm)
    <3>1. PICK k \in 1..Len(q) : k = i - Len(p) /\ Len(p) + k = i
      BY <2>1
    <3>2. r[i] = q[k] /\ q[k] \in Named(Calm)
      BY <1>3, <3>1
    <3>3. QED
      BY <3>1, <3>2
  <2>3. QED
    BY <2>2 DEF Named
<1>6. ASSUME NEW k \in 1..Len(r), r[k].name = "Repair"
      PROVE  \E j \in 1..(k - 1) :
               /\ r[j].name = "Join"
               /\ \A i \in (j + 1)..Len(r) : r[i].name \notin {"Start", "Reconnect"}
  <2>1. k \in 1..Len(p) /\ p[k].name = "Repair"
    BY <1>3, <1>4, <1>5, <1>6 DEF Calm
  <2>2. PICK j \in 1..(k - 1) :
          /\ p[j].name = "Join"
          /\ \A i \in (j + 1)..Len(p) : p[i].name \notin {"Start", "Reconnect"}
    BY <2>1 DEF JoinsBeforeRepair
  <2>3. j \in 1..Len(p) /\ r[j].name = "Join"
    BY <1>3, <1>4, <2>1, <2>2
  <2>4. ASSUME NEW i \in (j + 1)..Len(r) PROVE r[i].name \notin {"Start", "Reconnect"}
    <3>1. CASE i <= Len(p)
      <4>1. i \in 1..Len(p) /\ i \in (j + 1)..Len(p)
        BY <1>4, <2>3, <3>1
      <4>2. QED
        BY <1>3, <2>2, <4>1
    <3>2. CASE ~(i <= Len(p))
      <4>1. i \in 1..Len(r)
        BY <1>4, <2>3
      <4>2. QED
        BY <1>5, <3>2, <4>1 DEF Calm
    <3>3. QED
      BY <3>1, <3>2
  <2>5. QED
    BY <2>3, <2>4
<1>7. QED
  BY <1>2, <1>3, <1>6 DEF JoinsBeforeRepair

\* The preparation joins the groups just before it sets the repairer up.
LEMMA PreparationJoins ==
  ASSUME IsGroup, ~IsClient
  PROVE  JoinedBy(Preparation)
<1> DEFINE w1 == <<Plain("Create"), Plain("InitCollector"), Plain("Collect"),
                   Plain("Register")>>
           w2 == When(~IsStrict, <<Plain("Register")>>)
           w3 == <<Plain("Start"), Plain("Wait"), Plain("Reconnect")>>
           p3 == w1 \o w2 \o w3
           w4 == <<Plain("Join"), Plain("Wait")>>
           p4 == p3 \o w4
           w6 == When(~IsStrict, <<Plain("Repair")>>)
           p6 == p4 \o w6
<1>1. \A name \in AnyName : Plain(name) \in Named(AnyName) /\ Plain(name).name = name
  BY PlainNamed
<1>2. /\ w1 \in Seq(Named(AnyName)) /\ w3 \in Seq(Named(AnyName))
      /\ w4 \in Seq(Named(AnyName))
      /\ <<Plain("Register")>> \in Seq(Named(AnyName))
  BY <1>1 DEF Names, AnyName
<1>3. w2 \in Seq(Named(AnyName))
  BY <1>2 DEF When
<1>4. Len(w4) = 2 /\ w4[1].name = "Join" /\ w4[2].name = "Wait"
  BY <1>1 DEF Names, AnyName
<1>5. Preparation = p6
  <2>1. When(IsGroup, w4) = w4
    BY DEF When
  <2>2. PICK p : p = p4
    OBVIOUS
  <2>3. p \o <<>> = p
    <3>1. p4 \in Seq(Named(AnyName))
      BY <1>2, <1>3, Appended
    <3>2. QED
      BY <2>2, <3>1, ConcatEmptySeq
  <2>4. QED
    BY <2>1, <2>2, <2>3 DEF Preparation, When
<1> HIDE DEF w1, w2, w3, w4
<1>6. p3 \in Seq(Named(AnyName))
  BY <1>2, <1>3, Appended
<1> HIDE DEF p3
<1>7. /\ p4 \in Seq(Named(AnyName)) /\ Len(p4) = Len(p3) + 2
      /\ p4[Len(p3) + 1].name = "Join" /\ p4[Len(p3) + 2].name = "Wait"
  <2>1. /\ p4 \in Seq(Named(AnyName)) /\ Len(p4) = Len(p3) + Len(w4)
        /\ \A i \in 1..Len(w4) : p4[Len(p3) + i] = w4[i]
    BY <1>2, <1>6, Appended
  <2>2. p4[Len(p3) + 1] = w4[1] /\ p4[Len(p3) + 2] = w4[2]
    BY <1>4, <2>1
  <2>3. QED
    BY <1>4, <2>1, <2>2
<1> HIDE DEF p4
<1>8. CASE IsStrict
  <2>1. w6 = <<>>
    BY <1>8 DEF When
  <2>2. p6 = p4
    BY <1>7, <2>1, ConcatEmptySeq
  <2>3. QED
    BY <1>5, <1>7, <1>8, <2>2 DEF JoinedBy
<1>9. CASE ~IsStrict
  <2>1. Plain("Repair") \in Named(Names) /\ Plain("Repair").name = "Repair"
    BY PlainNamed DEF Names
  <2>2. w6 \in Seq(Named(Names)) /\ Len(w6) = 1 /\ w6[1].name = "Repair"
    BY <1>9, <2>1 DEF When
  <2>3. p4 \in Seq(Named(Names))
    <3>1. Named(AnyName) \subseteq Named(Names)
      BY DEF Named, AnyName
    <3>2. QED
      BY <1>7, <3>1
  <2> HIDE DEF w6
  <2>4. PICK p : p = p6
    OBVIOUS
  <2>5. /\ p \in Seq(Named(Names)) /\ Len(p) = Len(p4) + 1
        /\ \A i \in 1..Len(p4) : p[i] = p4[i]
        /\ p[Len(p4) + 1].name = "Repair"
    <3>1. /\ p \in Seq(Named(Names)) /\ Len(p) = Len(p4) + Len(w6)
          /\ \A i \in 1..Len(p4) : p[i] = p4[i]
          /\ \A i \in 1..Len(w6) : p[Len(p4) + i] = w6[i]
      <4>1. w6 \in Seq(Named(Names))
        BY <2>2
      <4>2. QED
        BY <2>3, <2>4, <4>1, Appended
    <3>2. p[Len(p4) + 1] = w6[1]
      BY <2>2, <3>1
    <3>3. QED
      BY <2>2, <3>1, <3>2
  <2>6. Len(p3) \in Nat /\ Len(p4) \in Nat /\ Len(p) \in Nat /\ Len(p) = Len(p3) + 3
    BY <1>6, <1>7, <2>5
  <2>7. PICK j \in 1..Len(p) : j = Len(p3) + 1
    BY <2>6
  <2>8. p[j].name = "Join" /\ \A i \in (j + 1)..Len(p) : p[i].name \notin {"Start", "Reconnect"}
    BY <1>7, <2>5, <2>6, <2>7
  <2>9. ASSUME NEW k \in 1..Len(p), p[k].name = "Repair" PROVE j \in 1..(k - 1)
    <3>1. k \notin 1..Len(p4)
      <4>1. \A i \in 1..Len(p4) : p4[i] \in Named(AnyName)
        BY <1>7
      <4>2. \A i \in 1..Len(p4) : p[i].name # "Repair"
        BY <2>5, <4>1 DEF Named, AnyName
      <4>3. QED
        BY <2>9, <4>2
    <3>2. QED
      BY <1>7, <2>6, <2>7, <3>1
  <2>10. JoinsBeforeRepair(p)
    BY <2>8, <2>9 DEF JoinsBeforeRepair
  <2>11. QED
    BY <1>5, <1>9, <2>4, <2>5, <2>10 DEF JoinedBy
<1>10. QED
  BY <1>8, <1>9

\* What the loop and the clean-up add keeps it so.
Adds(q) == IF IsStrict THEN q \in Seq(Named(AnyName)) ELSE q \in Seq(Named(Calm))

LEMMA JoinedContinues ==
  ASSUME NEW p, NEW q, JoinedBy(p), Adds(q)
  PROVE  JoinedBy(p \o q)
  BY Appended, CalmAdded DEF JoinedBy, Adds

LEMMA Additions ==
  ASSUME NEW n \in Int
  PROVE  /\ Adds(When(turn > 0, Between))
         /\ Adds(<<[name |-> "Send", end |-> n], Plain("Wait")>>)
         /\ Adds(CleanUp)
<1> DEFINE names == IF IsStrict THEN AnyName ELSE Calm
           S == Named(names)
           send == [name |-> "Send", end |-> n]
           w == <<Plain("Check"), Plain("Reconnect")>>
           v == When(IsClient, <<Plain("CollectId")>>)
           u == When(IsStrict, w \o v)
           leave == When(IsGroup, <<Plain("Leave")>>)
           last == <<Plain("StopCollector"), Plain("Stop"), Plain("Dispose")>>
<1>1. /\ \A name \in names : Plain(name) \in S
      /\ {"Check", "CollectId", "Send", "Wait", "Leave", "StopCollector", "Stop",
          "Dispose"} \subseteq names
      /\ IsStrict => "Reconnect" \in names
  BY PlainNamed DEF Names, AnyName, Calm
<1>2. send \in S
  BY <1>1 DEF Named
<1>3. /\ <<Plain("Check")>> \in Seq(S) /\ <<Plain("CollectId")>> \in Seq(S)
      /\ <<Plain("Leave")>> \in Seq(S) /\ last \in Seq(S)
      /\ <<send, Plain("Wait")>> \in Seq(S)
      /\ IsStrict => w \in Seq(S)
  <2> HIDE DEF S, send
  <2>1. \A name \in {"Check", "CollectId", "Wait", "Leave", "StopCollector", "Stop",
                     "Dispose"} : Plain(name) \in S
    BY <1>1
  <2>2. IsStrict => Plain("Reconnect") \in S
    BY <1>1
  <2>3. QED
    BY <1>2, <2>1, <2>2
<1> HIDE DEF S, last, w, send
<1>4. v \in Seq(S) /\ leave \in Seq(S)
  BY <1>3 DEF When
<1> HIDE DEF v, leave
<1>5. u \in Seq(S)
  BY <1>3, <1>4, Appended DEF When
<1> HIDE DEF u
<1>6. Between \in Seq(S) /\ CleanUp \in Seq(S)
  <2>1. u \o <<Plain("Check")>> \in Seq(S) /\ leave \o last \in Seq(S)
    BY <1>3, <1>4, <1>5, Appended
  <2>2. QED
    BY <2>1 DEF Between, CleanUp, u, v, w, leave, last
<1>7. When(turn > 0, Between) \in Seq(S)
  BY <1>6 DEF When
<1>8. \A q \in Seq(S) : Adds(q)
  BY DEF Adds, S
<1>9. QED
  BY <1>3, <1>6, <1>7, <1>8 DEF send

LEMMA StepJoined == IInv /\ Joined /\ [ConfigNext]_configVars => Joined'
<1> SUFFICES ASSUME IInv, Joined, [ConfigNext]_configVars PROVE Joined'
  OBVIOUS
<1>1. CASE Prepares
  <2>1. IsGroup' => IsGroup /\ ~IsClient
    BY <1>1 DEF Prepares, Clamped, IsGroup, IsClient, IInv, ConfigTypeOK, Configuration
  <2>2. IsStrict' <=> IsStrict
    BY <1>1 DEF Prepares, Clamped, IsStrict, IInv, ConfigTypeOK, Configuration
  <2>3. program' = Preparation /\ stage' # "read"
    BY <1>1 DEF Prepares
  <2>4. PICK p : p = Preparation
    OBVIOUS
  <2>5. IsGroup' => JoinedBy(p)
    BY <2>1, <2>4, PreparationJoins
  <2>6. QED
    BY <2>2, <2>3, <2>4, <2>5 DEF Joined, JoinedBy, JoinsBeforeRepair
<1>2. CASE AddsSendingStep \/ AddsCleanUp
  <2>1. config' = config /\ stage = "send" /\ stage' # "read"
    BY <1>2 DEF AddsSendingStep, AddsCleanUp
  <2>2. SUFFICES ASSUME IsGroup PROVE Joined'
    BY <2>1 DEF Joined, IsGroup
  <2>3. JoinedBy(program)
    BY <2>1, <2>2 DEF Joined
  <2>4. PICK p : p = program' /\ JoinedBy(p)
    <3>1. CASE AddsSendingStep
      <4>1. EndIndex(turn) \in Int
        BY DEF IInv, ConfigTypeOK, Configuration, EndIndex
      <4>2. JoinedBy(program \o When(turn > 0, Between))
        BY <2>3, <4>1, Additions, JoinedContinues
      <4>3. JoinedBy(program \o When(turn > 0, Between)
                       \o <<[name |-> "Send", end |-> EndIndex(turn)], Plain("Wait")>>)
        BY <4>1, <4>2, Additions, JoinedContinues
      <4>4. QED
        BY <3>1, <4>3 DEF AddsSendingStep
    <3>2. CASE AddsCleanUp
      <4>1. JoinedBy(program \o CleanUp)
        BY <2>3, 0 \in Int, Additions, JoinedContinues
      <4>2. QED
        BY <3>2, <4>1 DEF AddsCleanUp
    <3>3. QED
      BY <1>2, <3>1, <3>2
  <2>5. QED
    BY <2>1, <2>4 DEF Joined, JoinedBy, JoinsBeforeRepair, IsStrict
<1>3. CASE Walk \/ RepairerStarts \/ UNCHANGED configVars
  <2>1. config' = config /\ program' = program
    BY <1>3 DEF Walk, StepThrows, StepReturns, CollectIdGivesUp, CheckFails, WalkEnds,
                RepairerStarts, configVars
  <2>2. stage' = "read" <=> stage = "read"
    BY <1>3 DEF Walk, StepThrows, StepReturns, CollectIdGivesUp, CheckFails, WalkEnds,
                RepairerStarts, Arrives, configVars
  <2>3. QED
    BY <2>1, <2>2 DEF Joined, JoinedBy, JoinsBeforeRepair, IsGroup, IsStrict
<1>4. QED
  BY <1>1, <1>2, <1>3 DEF ConfigNext, Writing

\* In every generated pipeline of a group scenario the groups are joined, after
\* the last start of connections, before the repairer is set up: repairs keep
\* the memberships in it (RepairsKeepGroups).
THEOREM GroupsJoinBeforeRepair == ConfigSpec => [](IsGroup => JoinsBeforeRepair(program))
<1>1. ConfigInit => Joined
  BY DEF ConfigInit, Joined
<1>2. IInv /\ Joined => (IsGroup => JoinsBeforeRepair(program))
  <2> SUFFICES ASSUME IInv, Joined, IsGroup PROVE JoinsBeforeRepair(program)
    OBVIOUS
  <2>1. CASE stage = "read"
    <3>1. Len(program) = 0
      BY <2>1 DEF Joined
    <3>2. QED
      BY <3>1 DEF JoinsBeforeRepair
  <2>2. CASE stage # "read"
    <3>1. CASE IsStrict
      <4>1. \A i \in 1..Len(program) : program[i] \in Named(AnyName)
        BY <2>2, <3>1 DEF Joined, JoinedBy
      <4>2. QED
        BY <4>1 DEF JoinsBeforeRepair, Named, AnyName
    <3>2. CASE ~IsStrict
      BY <2>2, <3>2 DEF Joined, JoinedBy
    <3>3. QED
      BY <3>1, <3>2
  <2>3. QED
    BY <2>1, <2>2
<1>3. QED
  BY <1>1, <1>2, StepJoined, Invariance, PTL DEF ConfigSpec
=============================================================================
