-------------------------- MODULE Statistics_proof --------------------------
(***************************************************************************)
(* Proofs about Statistics for any number of agents, sending steps,        *)
(* messages and ticks, and for files of any length.                        *)
(***************************************************************************)
EXTENDS Statistics, FiniteSetTheorems, SequenceTheorems, TLAPS

-----------------------------------------------------------------------------
(* The least of a set, and a line more in the file.                        *)

LEMMA LeastNat ==
  ASSUME NEW T, T \subseteq Nat, T # {}
  PROVE  Min(T) \in T /\ \A y \in T : Min(T) <= y
<1> DEFINE R == OpToRel(<, Nat)
<1>1. IsWellFoundedOn(R, Nat)
  BY NatLessThanWellFounded
<1>2. \A x, y \in Nat : x < y => <<x, y>> \in R
  BY DEF OpToRel
<1> HIDE DEF R
<1>3. PICK x \in T : \A y \in T : ~(<<y, x>> \in R)
  BY <1>1, WFMin
<1>4. ASSUME NEW y \in T PROVE x <= y
  <2>1. x \in Nat /\ y \in Nat
    OBVIOUS
  <2>2. ~(y < x)
    BY <1>2, <1>3, <2>1
  <2>3. QED
    BY <2>1, <2>2
<1>5. \E m \in T : \A y \in T : m <= y
  BY <1>3, <1>4
<1>6. QED
  BY <1>5 DEF Min

LEMMA Appended ==
  ASSUME NEW S, NEW q \in Seq(S), NEW e \in S
  PROVE  /\ Append(q, e) \in Seq(S) /\ Len(q) \in Nat
         /\ Len(Append(q, e)) = Len(q) + 1
         /\ \A k \in 1..Len(q) : Append(q, e)[k] = q[k]
         /\ Append(q, e)[Len(q) + 1] = e
  OBVIOUS

LEMMA Pair ==
  ASSUME NEW x, NEW y
  PROVE  Append(<<x>>, y) = <<x, y>>
<1> DEFINE q == Append(<<x>>, y)
<1>1. <<x>> \in Seq({x, y}) /\ Len(<<x>>) = 1 /\ <<x>>[1] = x
  OBVIOUS
<1>2. q \in Seq({x, y}) /\ Len(q) = 2 /\ q[1] = x /\ q[2] = y
  BY <1>1, Appended
<1>3. <<x, y>> \in Seq({x, y}) /\ Len(<<x, y>>) = 2 /\ <<x, y>>[1] = x /\ <<x, y>>[2] = y
  OBVIOUS
<1> HIDE DEF q
<1>4. \A i \in 1..2 : q[i] = <<x, y>>[i]
  BY <1>2, <1>3
<1>5. q = <<x, y>>
  BY <1>2, <1>3, <1>4, SeqEqual
<1>6. QED
  BY <1>5 DEF q

LEMMA LastOne ==
  ASSUME NEW S, NEW q \in Seq(S)
  PROVE  q # <<>> => Len(q) \in Nat \ {0} /\ q[Len(q)] \in S
  OBVIOUS

-----------------------------------------------------------------------------
(* The invariant.                                                          *)

\* A line of the file; the epoch that agent a has reached.
Line == [epoch : Epoch, message : SUBSET Epoch]

Reached(a) == IF sender[a] \in {"sending", "done"} THEN step ELSE step - 1

Types ==
  /\ step \in 1..(Epochs + 1)
  /\ sender \in [Agent -> {"idle", "reset", "epoch", "sending", "done"}]
  /\ flight \in [Agent -> Nat]
  /\ count \in [Agent -> Line]
  /\ ticks \in 0..MaxTicks
  /\ query \in [Tick -> [Agent -> {"none", "sent", "answered", "over"}]]
  /\ DOMAIN got = Tick /\ \A t \in Tick : DOMAIN got[t] = Agent
  /\ file \in Seq(Line)
  /\ overlap \in BOOLEAN
  /\ report.state \in {"not yet", "throws", "done"}

\* The agents take a sending step together, and what a counter holds was
\* counted since its last reset.
Working ==
  /\ \/ \A a \in Agent : sender[a] = "idle"
     \/ step <= Epochs /\ \A a \in Agent : sender[a] # "idle"
  /\ \A a \in Agent :
       /\ count[a].epoch = Reached(a)
       /\ count[a].message \subseteq {Filling(a)}
       /\ flight[a] <= (IF sender[a] = "done" THEN step ELSE step - 1) * Sends

\* What the query of tick t to agent a has read so far.
Answer(t, a) ==
  /\ DOMAIN got[t][a] \subseteq Keys
  /\ "epoch" \in DOMAIN got[t][a] => got[t][a].epoch \in 0..count[a].epoch
  /\ "message" \in DOMAIN got[t][a] => got[t][a].message \in SUBSET Epoch
  /\ query[t][a] = "answered" => DOMAIN got[t][a] = Keys
  /\ query[t][a] \in {"none", "over"} => DOMAIN got[t][a] = {}

Answering == \A t \in Tick, a \in Agent : Answer(t, a)

OverTicks == {t \in 1..ticks : TickOver(t)}

\* A tick that has not come is silent; the others are over but for the last.
Ticking ==
  /\ \A t \in Tick : t > ticks => \A a \in Agent : query[t][a] = "none"
  /\ ~overlap => \A t \in 1..(ticks - 1) : TickOver(t)
  /\ Len(file) <= Cardinality(OverTicks)

\* An answer that has been read since the last line was saved is not older.
Fresh(t, a) ==
  /\ "epoch" \in DOMAIN got[t][a] => file[Len(file)].epoch <= got[t][a].epoch
  /\ "message" \in DOMAIN got[t][a] =>
       \A e \in got[t][a].message : e >= file[Len(file)].epoch

\* No agent is behind the last line.
Advancing ==
  /\ file # <<>> => \A a \in Agent : file[Len(file)].epoch <= count[a].epoch
  /\ file # <<>> /\ ~overlap => \A t \in Tick, a \in Agent : Fresh(t, a)

\* The inductive invariant.
IInv ==
  /\ Types /\ Working /\ Answering /\ Ticking /\ Advancing
  /\ LinesInOrder /\ NoStaleCounts

LEMMA Numbers ==
  /\ Epochs \in Nat /\ Sends \in Nat /\ MaxTicks \in Nat /\ MaxLines \in Nat
  /\ Agent # {}
BY StatisticsAssumption

LEMMA InitInvariant == Init => IInv
<1> SUFFICES ASSUME Init PROVE IInv
  OBVIOUS
<1> USE StatisticsAssumption DEF Init
<1>1. Types
  <2>1. 1 \in 1..(Epochs + 1) /\ 0 \in Epoch /\ 0 \in 0..MaxTicks /\ Epochs \in Nat
    BY DEF Epoch
  <2>2. /\ report.state \in {"not yet", "throws", "done"}
        /\ file \in Seq(Line)
    <3>1. file = <<>> /\ report = NotYet
      OBVIOUS
    <3>2. <<>> \in Seq(Line)
      OBVIOUS
    <3>3. NotYet.state = "not yet"
      BY DEF NotYet
    <3>4. QED
      BY <3>1, <3>2, <3>3
  <2>3. DOMAIN got = Tick /\ \A t \in Tick : DOMAIN got[t] = Agent
    BY DEF Nothing
  <2>4. QED
    BY <2>1, <2>2, <2>3 DEF Types, Line
<1>2. Working
  <2>1. 0 * Sends = 0 /\ Sends \in Nat
    OBVIOUS
  <2>2. QED
    BY <2>1 DEF Working, Reached, Filling
<1>3. Answering
  BY DEF Answering, Answer, Nothing
<1>4. Ticking
  <2>1. Cardinality(OverTicks) = 0
    BY FS_EmptySet DEF OverTicks
  <2>2. MaxTicks \in Nat
    OBVIOUS
  <2>3. \A t \in Tick : \A a \in Agent : query[t][a] = "none"
    OBVIOUS
  <2>4. Len(file) = 0 /\ 1..(ticks - 1) = {}
    OBVIOUS
  <2>5. QED
    BY <2>1, <2>3, <2>4 DEF Ticking
<1>5. Advancing /\ LinesInOrder /\ NoStaleCounts
  BY DEF Advancing, LinesInOrder, NoStaleCounts
<1>6. QED
  BY <1>1, <1>2, <1>3, <1>4, <1>5 DEF IInv

-----------------------------------------------------------------------------
(* The sending steps.                                                      *)

\* The epochs of the agents only grow, which is all that the queries and the
\* file need of these steps.
LEMMA QueriesKept ==
  ASSUME IInv, UNCHANGED <<queries, master>>,
         \A a \in Agent : count'[a].epoch \in Nat /\ count[a].epoch <= count'[a].epoch
  PROVE  Answering' /\ Ticking' /\ Advancing' /\ LinesInOrder' /\ NoStaleCounts'
<1>1. UNCHANGED <<query, got, ticks, file, overlap, report>>
  BY DEF queries, master
<1>2. \A a \in Agent : count[a].epoch \in Nat
  <2>1. Epochs \in Nat /\ count \in [Agent -> Line]
    BY StatisticsAssumption DEF IInv, Types
  <2>2. QED
    BY <2>1 DEF Line, Epoch
<1>3. Answering'
  <2> SUFFICES ASSUME NEW t \in Tick, NEW a \in Agent PROVE Answer(t, a)'
    BY DEF Answering
  <2>1. Answer(t, a)
    BY DEF IInv, Answering
  <2>2. count[a].epoch <= count'[a].epoch /\ count[a].epoch \in Nat /\ count'[a].epoch \in Nat
    BY <1>2
  <2>3. \A x \in 0..count[a].epoch : x \in 0..count'[a].epoch
    BY <2>2
  <2>4. QED
    BY <1>1, <2>1, <2>3 DEF Answer, Epoch
<1>4. Ticking'
  BY <1>1 DEF IInv, Ticking, OverTicks, TickOver
<1>5. Advancing'
  <2>1. file # <<>> => file[Len(file)].epoch \in Nat
    <3>1. file # <<>> => file[Len(file)] \in Line
      BY LastOne DEF IInv, Types
    <3>2. QED
      BY <3>1, StatisticsAssumption DEF Line, Epoch
  <2>2. file # <<>> => \A a \in Agent : file[Len(file)].epoch <= count'[a].epoch
    BY <1>2, <2>1 DEF IInv, Advancing
  <2>3. QED
    BY <1>1, <2>2 DEF IInv, Advancing, Fresh
<1>6. LinesInOrder' /\ NoStaleCounts'
  BY <1>1 DEF IInv, LinesInOrder, NoStaleCounts
<1>7. QED
  BY <1>3, <1>4, <1>5, <1>6

\* One agent's part of a sending step.
LEMMA AgentStep ==
  ASSUME IInv, NEW a \in Agent,
         ResetCounters(a) \/ IncreaseEpoch(a) \/ Send(a) \/ Receive(a)
  PROVE  IInv'
<1>1. /\ UNCHANGED <<step, queries, master>> /\ UNCHANGED <<query, got, ticks, file, overlap, report>>
  BY DEF ResetCounters, IncreaseEpoch, Send, Receive, Goes, queries, master, work
<1>2. /\ step \in Nat /\ step - 1 \in Nat /\ step - 1 <= Epochs /\ Epochs \in Nat /\ Sends \in Nat
      /\ sender[a] # "idle" => step <= Epochs
      /\ count[a] \in Line /\ flight[a] \in Nat
  <2>1. Epochs \in Nat /\ Sends \in Nat
    BY StatisticsAssumption
  <2>2. step \in 1..(Epochs + 1) /\ sender[a] # "idle" => step <= Epochs
    BY DEF IInv, Types, Working
  <2>3. step \in 1..(Epochs + 1) /\ count[a] \in Line /\ flight[a] \in Nat
    BY DEF IInv, Types
  <2>4. QED
    BY <2>1, <2>2, <2>3
<1>3. \A b \in Agent \ {a} : UNCHANGED <<sender[b], count[b], flight[b]>>
  BY DEF ResetCounters, IncreaseEpoch, Send, Receive, Goes, IInv, Types, work, data
<1>4. /\ sender' \in [Agent -> {"idle", "reset", "epoch", "sending", "done"}]
      /\ count' \in [Agent -> Line] /\ flight' \in [Agent -> Nat]
      /\ count[a].epoch <= count'[a].epoch
      /\ sender'[a] = "idle" <=> sender[a] = "idle"
      /\ count'[a].epoch = Reached(a)'
      /\ count'[a].message \subseteq {Filling(a)'}
      /\ flight'[a] <= (IF sender'[a] = "done" THEN step ELSE step - 1) * Sends
  <2> DEFINE x == (step - 1) * Sends
             y == step * Sends
  <2>0. x \in Nat /\ y = x + Sends
    <3>1. (step - 1) * Sends \in Nat /\ step = (step - 1) + 1
      BY <1>2
    <3>2. ((step - 1) + 1) * Sends = (step - 1) * Sends + 1 * Sends
      BY <1>2
    <3>3. QED
      BY <1>2, <3>1, <3>2
  <2> HIDE DEF x, y
  <2>inv. /\ flight[a] <= (IF sender[a] = "done" THEN y ELSE x)
        /\ count[a].epoch = Reached(a) /\ count[a].message \subseteq {Filling(a)}
        /\ count[a].epoch \in Epoch /\ count[a].message \in SUBSET Epoch
    BY <1>2 DEF IInv, Working, Line, x, y
  <2>typed. /\ sender \in [Agent -> {"idle", "reset", "epoch", "sending", "done"}]
        /\ count \in [Agent -> Line] /\ flight \in [Agent -> Nat]
    BY DEF IInv, Types
  <2>1. CASE ResetCounters(a)
    BY <2>1, <1>2, <2>inv, <2>typed DEF ResetCounters, Goes, Reached, Filling, Line, data, x, y, Epoch
  <2>2. CASE IncreaseEpoch(a)
    BY <2>2, <1>2, <2>inv, <2>typed DEF IncreaseEpoch, Goes, Reached, Filling, Line, data, x, y, Epoch
  <2>3. CASE Send(a)
    BY <2>3, <1>2, <2>0, <2>inv, <2>typed DEF Send, Goes, Reached, Filling, Line, x, y, Epoch
  <2>4. CASE Receive(a)
    BY <2>4, <1>2, <2>inv, <2>typed DEF Receive, Reached, Filling, Line, work, x, y, Epoch
  <2>5. QED
    BY <2>1, <2>2, <2>3, <2>4
<1>5. Types'
  BY <1>1, <1>4 DEF IInv, Types
<1>6. Working'
  <2>1. ASSUME NEW b \in Agent \ {a}
        PROVE  /\ Reached(b)' = Reached(b) /\ Filling(b)' = Filling(b)
    BY <1>1, <1>3 DEF Reached, Filling
  <2>2. ASSUME NEW b \in Agent
        PROVE  /\ count'[b].epoch = Reached(b)'
               /\ count'[b].message \subseteq {Filling(b)'}
               /\ flight'[b] <= (IF sender'[b] = "done" THEN step ELSE step - 1) * Sends
    BY <1>3, <1>4, <2>1 DEF IInv, Working
  <2>3. \A b \in Agent : sender'[b] = "idle" <=> sender[b] = "idle"
    BY <1>3, <1>4
  <2>4. QED
    BY <1>1, <2>2, <2>3 DEF IInv, Working
<1>7. Answering' /\ Ticking' /\ Advancing' /\ LinesInOrder' /\ NoStaleCounts'
  <2>1. \A b \in Agent : count'[b].epoch \in Nat /\ count[b].epoch <= count'[b].epoch
    <3>1. \A b \in Agent : count'[b].epoch \in Nat
      BY <1>4 DEF Line, Epoch
    <3>2. QED
      BY <1>3, <1>4, <3>1
  <2>2. QED
    BY <1>1, <2>1, QueriesKept
<1>8. QED
  BY <1>5, <1>6, <1>7 DEF IInv

LEMMA StepBeginsStep == IInv /\ StepBegins => IInv'
<1> SUFFICES ASSUME IInv, StepBegins PROVE IInv'
  OBVIOUS
<1>1. /\ UNCHANGED <<step, flight, count, query, got, ticks, file, overlap, report>>
      /\ UNCHANGED <<queries, master>>
      /\ step <= Epochs /\ \A a \in Agent : sender[a] = "idle"
      /\ sender' = [a \in Agent |-> "reset"]
  BY DEF StepBegins, data, queries, master
<1>2. Types'
  BY <1>1 DEF IInv, Types
<1>3. Working'
  BY <1>1 DEF IInv, Working, Reached, Filling
<1>4. \A a \in Agent : count'[a].epoch \in Nat /\ count[a].epoch <= count'[a].epoch
  <2>1. Epochs \in Nat /\ count \in [Agent -> Line]
    BY StatisticsAssumption DEF IInv, Types
  <2>2. QED
    BY <1>1, <2>1 DEF Line, Epoch
<1>5. QED
  BY <1>1, <1>2, <1>3, <1>4, QueriesKept DEF IInv

LEMMA StepEndsStep == IInv /\ StepEnds => IInv'
<1> SUFFICES ASSUME IInv, StepEnds PROVE IInv'
  OBVIOUS
<1>1. /\ UNCHANGED <<flight, count, query, got, ticks, file, overlap, report>>
      /\ UNCHANGED <<queries, master>>
      /\ \A a \in Agent : sender[a] = "done"
      /\ step' = step + 1 /\ sender' = [a \in Agent |-> "idle"]
  BY DEF StepEnds, data, queries, master
<1>2. step \in Nat /\ step <= Epochs /\ Epochs \in Nat
  <2>1. PICK a \in Agent : sender[a] = "done"
    BY <1>1, Numbers
  <2>2. step \in 1..(Epochs + 1) /\ step <= Epochs
    BY <2>1 DEF IInv, Types, Working
  <2>3. QED
    BY <2>2, Numbers
<1>3. Types'
  <2>1. step' \in 1..(Epochs + 1)
    BY <1>1, <1>2
  <2>2. QED
    BY <1>1, <2>1 DEF IInv, Types
<1>4. Working'
  <2>1. step' - 1 = step
    BY <1>1, <1>2
  <2>2. QED
    BY <1>1, <2>1 DEF IInv, Working, Reached, Filling
<1>5. \A a \in Agent : count'[a].epoch \in Nat /\ count[a].epoch <= count'[a].epoch
  <2>1. count \in [Agent -> Line]
    BY DEF IInv, Types
  <2>2. QED
    BY <1>1, <1>2, <2>1 DEF Line, Epoch
<1>6. QED
  BY <1>1, <1>3, <1>4, <1>5, QueriesKept DEF IInv

-----------------------------------------------------------------------------
(* The ticks.                                                              *)

LEMMA TicksTyped ==
  ASSUME IInv
  PROVE  /\ ticks \in Nat /\ ticks <= MaxTicks /\ MaxTicks \in Nat
         /\ 1..ticks \subseteq Tick /\ 1..(ticks - 1) \subseteq Tick
<1>1. ticks \in 0..MaxTicks
  BY DEF IInv, Types
<1>2. QED
  BY <1>1, Numbers DEF Tick

LEMMA TimerElapsesStep == IInv /\ TimerElapses => IInv'
<1> SUFFICES ASSUME IInv, TimerElapses PROVE IInv'
  OBVIOUS
<1>0. PICK n \in Tick : n = ticks + 1
  BY TicksTyped DEF TimerElapses, Tick
<1>1. /\ UNCHANGED <<step, sender, flight, count, got, file, report>>
      /\ ticks' = n
      /\ query' = [query EXCEPT ![n] = [a \in Agent |-> "sent"]]
      /\ overlap' = (overlap \/ \E t \in 1..ticks : ~TickOver(t))
  BY <1>0 DEF TimerElapses, work, data
<1>2. ticks \in Nat /\ MaxTicks \in Nat /\ n \in 0..MaxTicks /\ Agent # {}
  BY Numbers, TicksTyped DEF Tick
<1>3. /\ query' \in [Tick -> [Agent -> {"none", "sent", "answered", "over"}]]
      /\ \A a \in Agent : query'[n][a] = "sent"
      /\ \A t \in Tick \ {n} : query'[t] = query[t]
  BY <1>1, <1>2 DEF IInv, Types
<1>4. Types' /\ Working'
  <2>1. Types'
    <3>1. ticks' \in 0..MaxTicks /\ overlap' \in BOOLEAN
      BY <1>1, <1>2
    <3>2. QED
      BY <1>1, <1>3, <3>1 DEF IInv, Types
  <2>2. QED
    BY <1>1, <2>1 DEF IInv, Working, Reached, Filling
<1>5. Answering'
  <2> SUFFICES ASSUME NEW t \in Tick, NEW a \in Agent PROVE Answer(t, a)'
    BY DEF Answering
  <2>1. Answer(t, a)
    BY DEF IInv, Answering
  <2>2. QED
    BY <1>1, <1>3, <2>1 DEF Answer
<1>6. Ticking'
  <2>1. \A t \in Tick : t > n => \A a \in Agent : query'[t][a] = "none"
    BY <1>0, <1>2, <1>3 DEF IInv, Ticking, Tick
  <2>2. \A t \in 1..ticks : t \in Tick \ {n} /\ (TickOver(t)' <=> TickOver(t))
    BY <1>0, <1>2, <1>3 DEF TickOver, Tick
  <2>3. ~overlap' => \A t \in 1..(n - 1) : TickOver(t)'
    <3>1. 1..(n - 1) = 1..ticks
      BY <1>0, <1>2
    <3>2. QED
      BY <1>1, <2>2, <3>1
  <2>4. OverTicks' = OverTicks
    <3>1. ~TickOver(n)'
      BY <1>2, <1>3 DEF TickOver
    <3>2. 1..n = (1..ticks) \cup {n}
      BY <1>0, <1>2
    <3>3. QED
      BY <1>1, <2>2, <3>1, <3>2 DEF OverTicks
  <2>5. QED
    BY <1>1, <2>1, <2>3, <2>4 DEF IInv, Ticking
<1>7. Advancing' /\ LinesInOrder' /\ NoStaleCounts'
  BY <1>1 DEF IInv, Advancing, Fresh, LinesInOrder, NoStaleCounts
<1>8. QED
  BY <1>4, <1>5, <1>6, <1>7 DEF IInv

LEMMA ReadCounterStep ==
  ASSUME IInv, NEW t \in Tick, NEW a \in Agent, NEW k \in Keys, ReadCounter(t, a, k)
  PROVE  IInv'
<1> DEFINE read == [j \in DOMAIN got[t][a] \cup {k} |->
                      IF j = k THEN count[a][k] ELSE got[t][a][j]]
           state == IF DOMAIN got'[t][a] = Keys THEN "answered" ELSE "sent"
<1>1. /\ UNCHANGED <<step, sender, flight, count, ticks, file, overlap, report>>
      /\ query[t][a] = "sent" /\ k \notin DOMAIN got[t][a]
      /\ got' = [got EXCEPT ![t][a] = read]
      /\ query' = [query EXCEPT ![t][a] = state]
  BY DEF ReadCounter, work, data, master
<1>2. /\ DOMAIN got' = Tick /\ \A s \in Tick : DOMAIN got'[s] = Agent
      /\ got'[t][a] = read
      /\ \A s \in Tick, b \in Agent : s # t \/ b # a => got'[s][b] = got[s][b]
  <2> HIDE DEF read
  <2> QED BY <1>1 DEF IInv, Types
<1>3. state \in {"sent", "answered"}
  OBVIOUS
<1>4. /\ query' \in [Tick -> [Agent -> {"none", "sent", "answered", "over"}]]
      /\ query'[t][a] = state
      /\ \A s \in Tick, b \in Agent : s # t \/ b # a => query'[s][b] = query[s][b]
  <2> HIDE DEF state
  <2> QED BY <1>1, <1>3 DEF IInv, Types
<1>5. /\ DOMAIN read = DOMAIN got[t][a] \cup {k}
      /\ read[k] = count[a][k]
      /\ \A j \in DOMAIN got[t][a] : read[j] = got[t][a][j]
  BY <1>1
<1> HIDE DEF read
<1>6. /\ count[a] \in Line /\ count[a].epoch \in 0..Epochs /\ Epochs \in Nat
      /\ count[a].message \in SUBSET Epoch
      /\ \A e \in count[a].message : e \in Nat /\ e >= count[a].epoch
  <2>1. count[a] \in Line /\ Epochs \in Nat
    BY StatisticsAssumption DEF IInv, Types
  <2>2. count[a].message \subseteq {Filling(a)}
    BY DEF IInv, Working
  <2>3. count[a].epoch \in 0..Epochs /\ count[a].message \in SUBSET Epoch
    BY <2>1 DEF Line, Epoch
  <2>4. QED
    BY <2>1, <2>2, <2>3 DEF Filling
<1>7. Types' /\ Working'
  <2>1. Types'
    BY <1>1, <1>2, <1>4 DEF IInv, Types
  <2>2. QED
    BY <1>1, <2>1 DEF IInv, Working, Reached, Filling
<1>8. Answering'
  <2>1. ASSUME NEW s \in Tick, NEW b \in Agent, s # t \/ b # a PROVE Answer(s, b)'
    <3>1. Answer(s, b)
      BY DEF IInv, Answering
    <3>2. QED
      BY <1>1, <1>2, <1>4, <2>1, <3>1 DEF Answer
  <2>2. Answer(t, a)'
    <3>1. Answer(t, a)
      BY DEF IInv, Answering
    <3>2. /\ "epoch" \in DOMAIN read => read["epoch"] \in 0..count[a].epoch
          /\ "message" \in DOMAIN read => read["message"] \in SUBSET Epoch
      BY <1>5, <1>6, <3>1 DEF Answer, Keys
    <3>3. DOMAIN read \subseteq Keys
      BY <1>5, <3>1 DEF Answer
    <3>4. QED
      BY <1>1, <1>2, <1>4, <3>2, <3>3 DEF Answer
  <2>3. QED
    BY <2>1, <2>2 DEF Answering
<1>9. Ticking'
  <2>1. \A s \in Tick, b \in Agent : query'[s][b] = "over" <=> query[s][b] = "over"
    BY <1>1, <1>3, <1>4
  <2>2. \A s \in Tick, b \in Agent : query[s][b] = "none" => query'[s][b] = "none"
    BY <1>1, <1>4
  <2>3. 1..ticks \subseteq Tick /\ 1..(ticks - 1) \subseteq Tick
    BY TicksTyped
  <2>4. OverTicks' = OverTicks
    BY <1>1, <2>1, <2>3 DEF OverTicks, TickOver
  <2>5. QED
    BY <1>1, <2>1, <2>2, <2>3, <2>4 DEF IInv, Ticking, TickOver
<1>10. Advancing'
  <2>1. ASSUME file # <<>>, ~overlap, NEW s \in Tick, NEW b \in Agent PROVE Fresh(s, b)'
    <3> DEFINE last == file[Len(file)].epoch
    <3>1. last \in Nat /\ last <= count[a].epoch
      <4>1. file[Len(file)] \in Line
        BY <2>1, LastOne DEF IInv, Types
      <4>2. QED
        BY <1>6, <2>1, <4>1 DEF IInv, Advancing, Line, Epoch
    <3>2. Fresh(s, b)
      BY <2>1 DEF IInv, Advancing
    <3>3. CASE s = t /\ b = a
      <4>1. /\ "epoch" \in DOMAIN read => last <= read["epoch"]
            /\ "message" \in DOMAIN read => \A e \in read["message"] : e >= last
        BY <1>5, <1>6, <3>1, <3>2, <3>3 DEF Fresh
      <4>2. QED
        BY <1>1, <1>2, <3>3, <4>1 DEF Fresh
    <3>4. CASE s # t \/ b # a
      BY <1>1, <1>2, <3>2, <3>4 DEF Fresh
    <3>5. QED
      BY <3>3, <3>4
  <2>2. QED
    BY <1>1, <2>1 DEF IInv, Advancing
<1>11. LinesInOrder' /\ NoStaleCounts'
  BY <1>1 DEF IInv, LinesInOrder, NoStaleCounts
<1>12. QED
  BY <1>7, <1>8, <1>9, <1>10, <1>11 DEF IInv

\* What a line says of the answers it is merged from.
LEMMA Merged ==
  ASSUME IInv, NEW t \in Tick, \A a \in Agent : query[t][a] = "answered"
  PROVE  LET line == MergeStatistics(got[t]) IN
         /\ line \in Line
         /\ \A a \in Agent : line.epoch <= got[t][a].epoch /\ got[t][a].epoch <= count[a].epoch
         /\ \E a \in Agent : line.epoch = got[t][a].epoch
         /\ \A e \in line.message : \E a \in Agent : e \in got[t][a].message
<1> DEFINE epochs == {got[t][a].epoch : a \in Agent}
           line == MergeStatistics(got[t])
<1>1. \A a \in Agent : count[a].epoch \in 0..Epochs
  <2>1. count \in [Agent -> Line]
    BY DEF IInv, Types
  <2>2. QED
    BY <2>1 DEF Line, Epoch
<1>2. ASSUME NEW a \in Agent
      PROVE  /\ got[t][a].epoch \in 0..Epochs /\ got[t][a].epoch <= count[a].epoch
             /\ got[t][a].message \in SUBSET Epoch
  <2>1. DOMAIN got[t][a] = Keys /\ got[t][a].epoch \in 0..count[a].epoch
        /\ got[t][a].message \in SUBSET Epoch
    BY DEF IInv, Answering, Answer, Keys
  <2>2. QED
    BY <1>1, <2>1, Numbers
<1>3. Min(epochs) \in epochs /\ \A e \in epochs : Min(epochs) <= e
  <2>1. epochs \subseteq Nat /\ epochs # {}
    BY <1>2, Numbers
  <2> HIDE DEF epochs
  <2>2. QED
    BY <2>1, LeastNat
<1>4. /\ line.epoch = Min(epochs)
      /\ line.message = UNION {got[t][a].message : a \in Agent}
      /\ line = [epoch |-> line.epoch, message |-> line.message]
  BY DEF MergeStatistics
<1> HIDE DEF line
<1>5. line.epoch \in Epoch /\ line.message \in SUBSET Epoch
  BY <1>2, <1>3, <1>4 DEF Epoch
<1>6. line \in Line
  BY <1>4, <1>5 DEF Line
<1>7. \A a \in Agent : line.epoch <= got[t][a].epoch /\ got[t][a].epoch <= count[a].epoch
  BY <1>2, <1>3, <1>4
<1>8. \E a \in Agent : line.epoch = got[t][a].epoch
  BY <1>3, <1>4
<1>9. \A e \in line.message : \E a \in Agent : e \in got[t][a].message
  BY <1>4
<1>10. QED
  BY <1>6, <1>7, <1>8, <1>9 DEF line

\* A tick is over, with or without a line: nothing of it remains.
LEMMA TickEnds ==
  ASSUME IInv, NEW t \in Tick, Save(t) \/ TickFails(t)
  PROVE  /\ UNCHANGED <<step, sender, flight, count, ticks, overlap, report>>
         /\ Answering' /\ Working'
         /\ DOMAIN got' = Tick /\ \A s \in Tick : DOMAIN got'[s] = Agent
         /\ query' \in [Tick -> [Agent -> {"none", "sent", "answered", "over"}]]
         /\ \A s \in Tick \ {t}, a \in Agent :
              got'[s][a] = got[s][a] /\ query'[s][a] = query[s][a]
         /\ \A a \in Agent : DOMAIN got'[t][a] = {}
         /\ \A s \in Tick : s > ticks => \A a \in Agent : query'[s][a] = "none"
         /\ ~overlap => \A s \in 1..(ticks - 1) : TickOver(s)'
         /\ OverTicks' = OverTicks \cup {t} /\ t \in 1..ticks
         /\ IsFiniteSet(OverTicks) /\ t \notin OverTicks
<1>1. /\ UNCHANGED <<step, sender, flight, count, ticks, overlap, report>>
      /\ \A a \in Agent : query[t][a] = "answered"
      /\ query' = [query EXCEPT ![t] = [a \in Agent |-> "over"]]
      /\ got' = [got EXCEPT ![t] = Nothing]
  BY DEF Save, TickFails, work, data, master
<1>2. /\ DOMAIN got' = Tick /\ \A s \in Tick : DOMAIN got'[s] = Agent
      /\ query' \in [Tick -> [Agent -> {"none", "sent", "answered", "over"}]]
      /\ \A s \in Tick \ {t}, a \in Agent :
           got'[s][a] = got[s][a] /\ query'[s][a] = query[s][a]
      /\ \A a \in Agent : DOMAIN got'[t][a] = {} /\ query'[t][a] = "over"
  <2>1. /\ DOMAIN got = Tick /\ \A s \in Tick : DOMAIN got[s] = Agent
        /\ query \in [Tick -> [Agent -> {"none", "sent", "answered", "over"}]]
    BY DEF IInv, Types
  <2>2. /\ DOMAIN got' = Tick /\ got'[t] = Nothing
        /\ \A s \in Tick \ {t} : got'[s] = got[s]
    BY <1>1, <2>1
  <2>3. /\ query' \in [Tick -> [Agent -> {"none", "sent", "answered", "over"}]]
        /\ \A a \in Agent : query'[t][a] = "over"
        /\ \A s \in Tick \ {t} : query'[s] = query[s]
    BY <1>1, <2>1
  <2>4. DOMAIN Nothing = Agent /\ \A a \in Agent : DOMAIN Nothing[a] = {}
    BY DEF Nothing
  <2>5. QED
    BY <2>1, <2>2, <2>3, <2>4
<1>3. Working'
  BY <1>1 DEF IInv, Working, Reached, Filling
<1>4. Answering'
  <2>1. ASSUME NEW s \in Tick \ {t}, NEW a \in Agent PROVE Answer(s, a)'
    BY <1>1, <1>2 DEF IInv, Answering, Answer
  <2>2. ASSUME NEW a \in Agent PROVE Answer(t, a)'
    BY <1>2, <2>2 DEF Answer
  <2>3. QED
    BY <2>1, <2>2 DEF Answering
<1>5. t \in 1..ticks /\ t \notin OverTicks
  <2>1. PICK a \in Agent : query[t][a] = "answered"
    BY <1>1, Numbers
  <2>2. ~(t > ticks) /\ ~TickOver(t)
    BY <2>1 DEF IInv, Ticking, TickOver
  <2>3. QED
    BY <2>2, TicksTyped DEF Tick, OverTicks
<1>6. \A s \in Tick : s > ticks => \A a \in Agent : query'[s][a] = "none"
  BY <1>2, <1>5, TicksTyped DEF IInv, Ticking
<1>7. TickOver(t)' /\ \A s \in Tick \ {t} : TickOver(s)' <=> TickOver(s)
  BY <1>2 DEF TickOver
<1>8. ~overlap => \A s \in 1..(ticks - 1) : TickOver(s)'
  BY <1>7, TicksTyped DEF IInv, Ticking
<1>9. OverTicks' = OverTicks \cup {t}
  BY <1>1, <1>5, <1>7, TicksTyped DEF OverTicks
<1>10. IsFiniteSet(OverTicks)
  <2>1. IsFiniteSet(1..ticks) /\ OverTicks \subseteq 1..ticks
    BY TicksTyped, FS_Interval DEF OverTicks
  <2>2. QED
    BY <2>1, FS_Subset
<1>11. QED
  BY <1>1, <1>2, <1>3, <1>4, <1>5, <1>6, <1>8, <1>9, <1>10

LEMMA TickFailsStep ==
  ASSUME IInv, NEW t \in Tick, TickFails(t) PROVE IInv'
<1>1. UNCHANGED file
  BY DEF TickFails, master
<1>2. Types'
  BY <1>1, TickEnds DEF IInv, Types
<1>3. Ticking'
  <2>1. Cardinality(OverTicks') = Cardinality(OverTicks) + 1 /\ Cardinality(OverTicks) \in Nat
    BY TickEnds, FS_AddElement, FS_CardinalityType
  <2>2. Len(file) \in Nat
    <3>1. file \in Seq(Line)
      BY DEF IInv, Types
    <3>2. QED
      BY <3>1
  <2>3. QED
    BY <1>1, <2>1, <2>2, TickEnds DEF IInv, Ticking
<1>4. Advancing'
  BY <1>1, TickEnds DEF IInv, Advancing, Fresh
<1>5. LinesInOrder' /\ NoStaleCounts'
  BY <1>1, TickEnds DEF IInv, LinesInOrder, NoStaleCounts
<1>6. QED
  BY <1>2, <1>3, <1>4, <1>5, TickEnds DEF IInv

LEMMA SaveStep ==
  ASSUME IInv, NEW t \in Tick, Save(t) PROVE IInv'
<1> DEFINE line == MergeStatistics(got[t])
           n == Len(file)
<1>1. /\ file' = Append(file, line)
      /\ \A a \in Agent : query[t][a] = "answered"
  BY DEF Save
<1>2. /\ line \in Line
      /\ \A a \in Agent : line.epoch <= got[t][a].epoch /\ got[t][a].epoch <= count[a].epoch
      /\ \E a \in Agent : line.epoch = got[t][a].epoch
      /\ \A e \in line.message : \E a \in Agent : e \in got[t][a].message
  BY <1>1, Merged
<1> HIDE DEF line
<1>3. /\ file \in Seq(Line) /\ file' \in Seq(Line) /\ n \in Nat /\ Len(file') = n + 1
      /\ \A k \in 1..n : file'[k] = file[k]
      /\ file'[n + 1] = line /\ file' # <<>>
  <2>1. file \in Seq(Line)
    BY DEF IInv, Types
  <2>2. QED
    BY <1>1, <1>2, <2>1, Appended
<1> HIDE DEF n
<1>4. \A k \in 1..n : file[k].epoch \in Nat
  <2>1. \A k \in 1..n : file[k] \in Line
    BY <1>3 DEF n
  <2>2. QED
    BY <2>1, Numbers DEF Line, Epoch
<1>5. \A a \in Agent : count[a].epoch \in Nat /\ got[t][a].epoch \in Nat
  <2>1. count \in [Agent -> Line]
    BY DEF IInv, Types
  <2>2. \A a \in Agent : got[t][a].epoch \in 0..count[a].epoch
    BY <1>1 DEF IInv, Answering, Answer, Keys
  <2>3. \A a \in Agent : count[a].epoch \in Nat
    BY <2>1, Numbers DEF Line, Epoch
  <2>4. QED
    BY <2>2, <2>3
<1>6. line.epoch \in Nat /\ \A e \in line.message : e \in Nat
  BY <1>2, Numbers DEF Line, Epoch
<1>7. Types'
  BY <1>3, TickEnds DEF IInv, Types
<1>8. Ticking'
  <2>1. Cardinality(OverTicks') = Cardinality(OverTicks) + 1 /\ Cardinality(OverTicks) \in Nat
    BY TickEnds, FS_AddElement, FS_CardinalityType
  <2>2. QED
    BY <1>3, <2>1, TickEnds DEF IInv, Ticking, n
<1>9. Advancing'
  <2>1. \A a \in Agent : line.epoch <= count'[a].epoch
    BY <1>2, <1>5, <1>6, TickEnds
  <2>2. ASSUME ~overlap, NEW s \in Tick, NEW a \in Agent PROVE DOMAIN got'[s][a] = {}
    <3>1. CASE s = t
      BY <3>1, TickEnds
    <3>2. CASE s # t
      <4>1. CASE s > ticks
        BY <3>2, <4>1, TickEnds DEF IInv, Ticking, Answering, Answer
      <4>2. CASE s <= ticks
        <5>1. ~TickOver(t)
          <6>1. t \in 1..ticks /\ t \notin OverTicks
            BY TickEnds
          <6>2. QED
            BY <6>1 DEF OverTicks
        <5>2. t = ticks
          BY <2>2, <5>1, TicksTyped, TickEnds DEF IInv, Ticking
        <5>3. s \in 1..(ticks - 1)
          BY <3>2, <4>2, <5>2, TicksTyped DEF Tick
        <5>4. query[s][a] = "over"
          BY <2>2, <5>3 DEF IInv, Ticking, TickOver
        <5>5. QED
          BY <3>2, <5>4, TickEnds DEF IInv, Answering, Answer
      <4>3. QED
        BY <4>1, <4>2, TicksTyped DEF Tick
    <3>3. QED
      BY <3>1, <3>2
  <2>3. QED
    BY <1>3, <2>1, <2>2, TickEnds DEF Advancing, Fresh
<1>10. ASSUME ~overlap, n > 0
       PROVE  /\ file[n].epoch <= line.epoch
              /\ \A e \in line.message : e >= file[n].epoch
  <2>1. n # 0 /\ file # <<>>
    BY <1>3, <1>10 DEF n
  <2>2. \A a \in Agent : Fresh(t, a)
    BY <1>10, <2>1 DEF IInv, Advancing
  <2>3. \A a \in Agent : DOMAIN got[t][a] = Keys
    BY <1>1 DEF IInv, Answering, Answer
  <2>4. \A a \in Agent : /\ file[n].epoch <= got[t][a].epoch
                        /\ \A e \in got[t][a].message : e >= file[n].epoch
    BY <2>2, <2>3 DEF Fresh, Keys, n
  <2>5. QED
    BY <1>2, <2>4
<1>11. LinesInOrder'
  <2> SUFFICES ASSUME ~overlap', NEW i \in 2..Len(file')
               PROVE  file'[i - 1].epoch <= file'[i].epoch
    BY DEF LinesInOrder
  <2>1. ~overlap /\ i \in 2..(n + 1) /\ i - 1 \in 1..n
    BY <1>3, TickEnds
  <2>2. CASE i <= n
    <3>1. file[i - 1].epoch <= file[i].epoch
      BY <1>3, <2>1, <2>2 DEF IInv, LinesInOrder, n
    <3>2. i \in 1..n
      BY <1>3, <2>1, <2>2
    <3>3. QED
      BY <1>3, <2>1, <3>1, <3>2
  <2>3. CASE i = n + 1
    BY <1>3, <1>10, <2>1, <2>3
  <2>4. QED
    BY <1>3, <2>1, <2>2, <2>3
<1>12. NoStaleCounts'
  <2> SUFFICES ASSUME ~overlap', NEW i \in 2..Len(file'),
                      file'[i].epoch = file'[i - 1].epoch, NEW e \in file'[i].message
               PROVE  e >= file'[i].epoch
    BY DEF NoStaleCounts
  <2>1. ~overlap /\ i \in 2..(n + 1) /\ i - 1 \in 1..n
    BY <1>3, TickEnds
  <2>2. CASE i <= n
    <3>1. i \in 1..n /\ i \in 2..n
      BY <1>3, <2>1, <2>2
    <3>2. QED
      BY <1>3, <2>1, <3>1 DEF IInv, NoStaleCounts, n
  <2>3. CASE i = n + 1
    BY <1>3, <1>10, <2>1, <2>3
  <2>4. QED
    BY <1>3, <2>1, <2>2, <2>3
<1>13. QED
  BY <1>7, <1>8, <1>9, <1>11, <1>12, TickEnds DEF IInv

LEMMA StopCollectorStep == IInv /\ StopCollector => IInv'
<1> SUFFICES ASSUME IInv, StopCollector PROVE IInv'
  OBVIOUS
<1>1. /\ UNCHANGED <<step, sender, flight, count, query, got, ticks, file, overlap>>
      /\ UNCHANGED <<work, data, queries>>
      /\ report' = Parse([i \in DOMAIN file |-> file[i].epoch])
  BY DEF StopCollector, work, data, queries
<1>2. ASSUME NEW epochs PROVE Parse(epochs).state \in {"throws", "done"}
  BY DEF Parse, Throws
<1>3. Types' /\ Working'
  BY <1>1, <1>2 DEF IInv, Types, Working, Reached, Filling
<1>4. Answering'
  BY <1>1 DEF IInv, Answering, Answer
<1>5. Ticking'
  BY <1>1 DEF IInv, Ticking, OverTicks, TickOver
<1>6. Advancing' /\ LinesInOrder' /\ NoStaleCounts'
  BY <1>1 DEF IInv, Advancing, Fresh, LinesInOrder, NoStaleCounts
<1>7. QED
  BY <1>3, <1>4, <1>5, <1>6 DEF IInv

LEMMA StepInvariant == IInv /\ [Next]_vars => IInv'
<1> SUFFICES ASSUME IInv, [Next]_vars PROVE IInv'
  OBVIOUS
<1>1. ASSUME NEW a \in Agent, ResetCounters(a) \/ IncreaseEpoch(a) \/ Send(a) \/ Receive(a)
      PROVE  IInv'
  BY <1>1, AgentStep
<1>2. ASSUME NEW a \in Agent, NEW t \in Tick, NEW k \in Keys, ReadCounter(t, a, k) PROVE IInv'
  BY <1>2, ReadCounterStep
<1>3. ASSUME NEW t \in Tick, Save(t) PROVE IInv'
  BY <1>3, SaveStep
<1>4. ASSUME NEW t \in Tick, TickFails(t) PROVE IInv'
  BY <1>4, TickFailsStep
<1>5. CASE StepBegins
  BY <1>5, StepBeginsStep
<1>6. CASE StepEnds
  BY <1>6, StepEndsStep
<1>7. CASE TimerElapses
  BY <1>7, TimerElapsesStep
<1>8. CASE StopCollector
  BY <1>8, StopCollectorStep
<1>9. CASE UNCHANGED vars
  <2>1. /\ UNCHANGED <<step, sender, flight, count, query, got, ticks, file, overlap, report>>
        /\ UNCHANGED <<queries, master>>
    BY <1>9 DEF vars, work, data, queries, master
  <2>2. Types' /\ Working'
    BY <2>1 DEF IInv, Types, Working, Reached, Filling
  <2>3. \A a \in Agent : count'[a].epoch \in Nat /\ count[a].epoch <= count'[a].epoch
    <3>1. count \in [Agent -> Line]
      BY DEF IInv, Types
    <3>2. QED
      BY <2>1, <3>1, Numbers DEF Line, Epoch
  <2>4. QED
    BY <2>1, <2>2, <2>3, QueriesKept DEF IInv
<1>10. QED
  BY <1>1, <1>2, <1>3, <1>4, <1>5, <1>6, <1>7, <1>8, <1>9 DEF Next, Over

LEMMA Invariance == Spec => []IInv
<1>1. QED
  BY InitInvariant, StepInvariant, PTL DEF Spec

-----------------------------------------------------------------------------
(* The parser.                                                             *)

\* What RegularFiles asks of a file.
Regular(e) ==
  /\ Len(e) \in Nat /\ Len(e) >= 4 /\ e \in [1..Len(e) -> 0..2]
  /\ e[1] = 0 /\ e[Len(e)] > 0 /\ e[Len(e) - 2] = e[Len(e)]
  /\ \A i \in 2..Len(e) : e[i - 1] <= e[i]

First(e, k) == Min({i \in DOMAIN e : e[i] = k})

LEMMA RegularFile == \A e \in RegularFiles : Regular(e)
<1> SUFFICES ASSUME NEW e \in RegularFiles PROVE Regular(e)
  OBVIOUS
<1>1. PICK n \in 4..MaxLines : e \in [1..n -> 0..2]
  BY DEF RegularFiles
<1>2. n \in Nat /\ n >= 4 /\ Len(e) = n
  <2>1. n \in Nat /\ n >= 4
    BY Numbers
  <2>2. QED
    BY <1>1, <2>1
<1>3. QED
  BY <1>1, <1>2 DEF RegularFiles, Regular

\* The epochs do not decrease over any distance.
LEMMA NeverBack ==
  ASSUME NEW e, Regular(e), NEW i \in 1..Len(e), NEW j \in 1..Len(e), i <= j
  PROVE  e[i] <= e[j]
<1> DEFINE T == {k \in 1..Len(e) : i <= k /\ ~(e[i] <= e[k])}
<1>1. SUFFICES ASSUME T # {} PROVE FALSE
  OBVIOUS
<1>2. Min(T) \in T /\ \A k \in T : Min(T) <= k
  <2>1. T \subseteq Nat
    BY DEF Regular
  <2> HIDE DEF T
  <2>2. QED
    BY <1>1, <2>1, LeastNat
<1>3. PICK m \in T : \A k \in T : m <= k
  BY <1>2
<1>4. /\ Len(e) \in Nat /\ m \in 1..Len(e) /\ i <= m /\ ~(e[i] <= e[m])
      /\ \A k \in 1..Len(e) : e[k] \in 0..2
  BY <1>3 DEF Regular
<1>5. m # i
  BY <1>4
<1>6. m - 1 \in 1..Len(e) /\ m \in 2..Len(e) /\ i <= m - 1 /\ ~(m <= m - 1)
  BY <1>4, <1>5
<1>7. e[i] <= e[m - 1]
  BY <1>3, <1>6
<1>8. e[m - 1] <= e[m]
  BY <1>6 DEF Regular
<1>9. QED
  BY <1>4, <1>6, <1>7, <1>8

LEMMA FirstLine ==
  ASSUME NEW e, Regular(e), NEW i \in 1..Len(e)
  PROVE  /\ First(e, e[i]) \in 1..Len(e) /\ First(e, e[i]) <= i
         /\ e[First(e, e[i])] = e[i]
         /\ \A j \in 1..Len(e) : e[j] = e[i] => First(e, e[i]) <= j
<1> DEFINE T == {j \in DOMAIN e : e[j] = e[i]}
<1>1. T \subseteq Nat /\ i \in T /\ DOMAIN e = 1..Len(e)
  BY DEF Regular
<1>2. Min(T) \in T /\ \A j \in T : Min(T) <= j
  <2> HIDE DEF T
  <2> QED BY <1>1, LeastNat
<1>3. First(e, e[i]) = Min(T)
  BY DEF First
<1>4. QED
  BY <1>1, <1>2, <1>3

\* What the loop of Parse knows after line i.
Parsed(e, i) ==
  [begin  |-> IF i = 0 \/ e[i] = 0 THEN 0 ELSE First(e, e[i]),
   cur    |-> i,
   items  |-> IF i # 0 /\ e[i] = 2 /\ 1 \in Range(e)
              THEN <<[from |-> First(e, 1), to |-> First(e, 2) - 1]>> ELSE <<>>,
   thrown |-> FALSE]

\* A line of the epoch being read; the first line of a later one.
LEMMA SameEpoch ==
  ASSUME NEW b, NEW c, NEW s, NEW e, NEW i, e[i] = 0 \/ (b > 0 /\ e[i] = e[b])
  PROVE  ParseLine([begin |-> b, cur |-> c, items |-> s, thrown |-> FALSE], e, i)
         = [begin |-> b, cur |-> i, items |-> s, thrown |-> FALSE]
BY DEF ParseLine

LEMMA NewEpoch ==
  ASSUME NEW b \in Nat, NEW c \in Nat, NEW s, NEW e, NEW i,
         e[i] # 0, b > 0 => e[i] # e[b], c # 0
  PROVE  ParseLine([begin |-> b, cur |-> c, items |-> s, thrown |-> FALSE], e, i)
         = [begin |-> i, cur |-> i,
            items |-> IF b = 0 THEN s ELSE Append(s, [from |-> b, to |-> c]), thrown |-> FALSE]
BY DEF ParseLine

LEMMA ParsedLine ==
  ASSUME NEW e, Regular(e), NEW i \in 1..Len(e)
  PROVE  ParseLine(Parsed(e, i - 1), e, i) = Parsed(e, i)
<1> DEFINE it == [from |-> First(e, 1), to |-> First(e, 2) - 1]
<1>1. /\ Len(e) \in Nat /\ i \in Nat /\ i # 0 /\ i - 1 \in 0..Len(e) /\ i - 1 \in Nat
      /\ DOMAIN e = 1..Len(e) /\ \A j \in 1..Len(e) : e[j] \in 0..2
      /\ i - 1 # 0 => i - 1 \in 1..Len(e)
  BY DEF Regular
<1>2. PICK b : b = IF i - 1 = 0 \/ e[i - 1] = 0 THEN 0 ELSE First(e, e[i - 1])
  OBVIOUS
<1>3. PICK s : s = IF i - 1 # 0 /\ e[i - 1] = 2 /\ 1 \in Range(e) THEN <<it>> ELSE <<>>
  OBVIOUS
<1>4. PICK r : r = IF e[i] = 2 /\ 1 \in Range(e) THEN <<it>> ELSE <<>>
  OBVIOUS
<1>5. Parsed(e, i - 1) = [begin |-> b, cur |-> i - 1, items |-> s, thrown |-> FALSE]
  BY <1>2, <1>3 DEF Parsed
<1>6. PICK f : f = IF e[i] = 0 THEN 0 ELSE First(e, e[i])
  OBVIOUS
<1>7. Parsed(e, i) = [begin |-> f, cur |-> i, items |-> r, thrown |-> FALSE]
  BY <1>1, <1>4, <1>6 DEF Parsed
<1>8. i - 1 # 0 => e[i - 1] <= e[i]
  BY <1>1, NeverBack
<1>9. i = 1 => e[i] = 0
  BY DEF Regular
<1>10. i - 1 # 0 => First(e, e[i - 1]) \in 1..Len(e) /\ e[First(e, e[i - 1])] = e[i - 1]
  BY <1>1, FirstLine
<1> HIDE DEF it
<1>11. CASE e[i] = 0
  <2>1. i - 1 = 0 \/ e[i - 1] = 0
    BY <1>1, <1>8, <1>11
  <2>2. b = 0 /\ s = <<>> /\ f = 0 /\ r = <<>>
    BY <1>2, <1>3, <1>4, <1>6, <1>11, <2>1
  <2>3. QED
    BY <1>5, <1>7, <1>11, <2>2, SameEpoch
<1>12. CASE i - 1 # 0 /\ e[i] # 0 /\ e[i - 1] = e[i]
  <2>1. b = f /\ s = r
    BY <1>2, <1>3, <1>4, <1>6, <1>12
  <2>2. b > 0 /\ e[b] = e[i]
    BY <1>2, <1>10, <1>12
  <2>3. QED
    BY <1>5, <1>7, <2>1, <2>2, SameEpoch
<1>13. CASE i - 1 # 0 /\ e[i - 1] < e[i]
  <2>1. First(e, e[i]) = i
    <3>1. \A j \in 1..Len(e) : e[j] = e[i] => ~(j <= i - 1)
      BY <1>1, <1>13, NeverBack
    <3>2. QED
      BY <1>1, <3>1, FirstLine
  <2>2. e[i] # 0 /\ e[i] \in 0..2 /\ e[i - 1] \in 0..2 /\ f = i
    BY <1>1, <1>6, <1>13, <2>1
  <2>3. 1 \in Range(e) => \E j \in 1..Len(e) : e[j] = 1
    BY <1>1 DEF Range
  <2>4. b \in Nat /\ (b > 0 => e[b] = e[i - 1])
    BY <1>1, <1>2, <1>10, <1>13
  <2>5. ParseLine(Parsed(e, i - 1), e, i)
        = [begin |-> i, cur |-> i,
           items |-> IF b = 0 THEN s ELSE Append(s, [from |-> b, to |-> i - 1]),
           thrown |-> FALSE]
    <3>1. e[i] # e[i - 1]
      BY <1>13, <2>2
    <3>2. PICK c \in Nat : c = i - 1
      BY <1>1
    <3>3. e[i] # 0 /\ (b > 0 => e[i] # e[b]) /\ c # 0
      BY <1>13, <2>2, <2>4, <3>1, <3>2
    <3>4. b \in Nat
      BY <2>4
    <3>5. ParseLine([begin |-> b, cur |-> c, items |-> s, thrown |-> FALSE], e, i)
          = [begin |-> i, cur |-> i,
             items |-> IF b = 0 THEN s ELSE Append(s, [from |-> b, to |-> c]),
             thrown |-> FALSE]
      BY <3>3, <3>4, NewEpoch
    <3>6. QED
      BY <1>5, <3>2, <3>5
  <2>6. CASE e[i - 1] = 0
    <3>1. ~(e[i] = 2 /\ 1 \in Range(e))
      <4>1. SUFFICES ASSUME e[i] = 2, NEW j \in 1..Len(e), e[j] = 1 PROVE FALSE
        BY <2>3
      <4>2. j <= i - 1 \/ i <= j
        BY <1>1
      <4>3. e[j] <= e[i - 1] \/ e[i] <= e[j]
        BY <1>1, <1>13, <4>2, NeverBack
      <4>4. QED
        BY <2>6, <4>1, <4>3
    <3>2. b = 0 /\ s = <<>> /\ r = <<>>
      BY <1>2, <1>3, <1>4, <2>6, <3>1
    <3>3. QED
      BY <1>7, <2>2, <2>5, <3>2
  <2>7. CASE e[i - 1] # 0
    <3>1. e[i - 1] = 1 /\ e[i] = 2 /\ 1 \in Range(e)
      BY <1>1, <1>13, <2>2, <2>7 DEF Range
    <3>2. b = First(e, 1) /\ s = <<>> /\ r = <<it>>
      BY <1>2, <1>3, <1>4, <1>13, <3>1
    <3>3. b # 0
      BY <1>10, <1>13, <3>1, <3>2
    <3>4. it = [from |-> b, to |-> i - 1]
      BY <2>1, <3>1, <3>2 DEF it
    <3>5. Append(s, it) = r
      BY <3>2
    <3>6. QED
      BY <1>7, <2>2, <2>5, <3>3, <3>4, <3>5
  <2>8. QED
    BY <2>6, <2>7
<1>14. QED
  BY <1>1, <1>8, <1>9, <1>11, <1>12, <1>13

\* The function that Parse computes over the lines of a file.
Loop(e, f) == f = [i \in 0..Len(e) |-> IF i = 0 THEN Start ELSE ParseLine(f[i - 1], e, i)]

Reading(e) == CHOOSE f : Loop(e, f)

\* It is Parsed, by descent from a least line for which it is not.
LEMMA ReadingIsParsed ==
  ASSUME NEW e, Regular(e)
  PROVE  \A i \in 0..Len(e) : Reading(e)[i] = Parsed(e, i)
<1> DEFINE n == Len(e)
           parsed == [i \in 0..n |-> Parsed(e, i)]
<1>1. n \in Nat
  BY DEF Regular
<1> HIDE DEF n
<1>2. Start = Parsed(e, 0)
  BY DEF Start, Parsed
<1>3. \A i \in 0..n : i # 0 =>
         i - 1 \in 0..n /\ ~(i <= i - 1) /\ Parsed(e, i) = ParseLine(Parsed(e, i - 1), e, i)
  <2> SUFFICES ASSUME NEW i \in 0..n, i # 0
               PROVE  i - 1 \in 0..n /\ ~(i <= i - 1)
                      /\ Parsed(e, i) = ParseLine(Parsed(e, i - 1), e, i)
    OBVIOUS
  <2>1. i - 1 \in 0..n /\ ~(i <= i - 1) /\ i \in 1..n
    BY <1>1
  <2>2. QED
    BY <2>1, ParsedLine DEF n
<1>4. Loop(e, parsed)
  <2>1. \A i \in 0..n :
           parsed[i] = IF i = 0 THEN Start ELSE ParseLine(parsed[i - 1], e, i)
    BY <1>2, <1>3
  <2>2. QED
    BY <2>1 DEF Loop, n
<1>5. Loop(e, Reading(e))
  <2> HIDE DEF parsed
  <2> QED BY <1>4 DEF Reading
<1>6. \A i \in 0..n :
         Reading(e)[i] = IF i = 0 THEN Start ELSE ParseLine(Reading(e)[i - 1], e, i)
  BY <1>5 DEF Loop, n
<1> DEFINE T == {i \in 0..n : Reading(e)[i] # Parsed(e, i)}
<1>7. SUFFICES ASSUME T # {} PROVE FALSE
  BY DEF n
<1>8. PICK i \in T : \A j \in T : i <= j
  <2>1. T \subseteq Nat
    BY <1>1
  <2> HIDE DEF T
  <2> QED BY <1>7, <2>1, LeastNat
<1>9. i \in 0..n /\ Reading(e)[i] # Parsed(e, i)
  BY <1>8
<1>10. i # 0
  BY <1>2, <1>6, <1>9
<1>11. Reading(e)[i - 1] = Parsed(e, i - 1)
  BY <1>3, <1>8, <1>9, <1>10
<1>12. QED
  BY <1>3, <1>6, <1>9, <1>10, <1>11

\* What the report says of a regular file.
LEMMA RegularReport ==
  ASSUME NEW e, Regular(e)
  PROVE  LET n == Len(e)
             p == Parsed(e, n)
         IN  Parse(e) = [state |-> "done",
                         items |-> Append(p.items, [from |-> First(e, e[n]), to |-> n - 1])]
<1> DEFINE n == Len(e)
           q == Reading(e)[n]
           p == Parsed(e, n)
<1>1. n \in Nat /\ n >= 4 /\ n - 2 \in 1..n /\ n \in 1..n /\ n \in 0..n
      /\ e[n] > 0 /\ e[n - 2] = e[n] /\ e[n] \in 0..2
  BY DEF Regular
<1>2. Parse(e) = IF n = 0 \/ q.thrown THEN Throws
                 ELSE [state |-> "done",
                       items |-> IF n > 1 /\ q.begin > 0 /\ n - 1 # q.begin
                                 THEN Append(q.items, [from |-> q.begin, to |-> n - 1])
                                 ELSE q.items]
  BY DEF Parse, Reading, Loop
<1>3. q = p
  BY <1>1, ReadingIsParsed
<1>4. p.begin = First(e, e[n]) /\ p.thrown = FALSE
  BY <1>1 DEF Parsed
<1>5. First(e, e[n]) \in 1..n /\ First(e, e[n]) <= n - 2
  BY <1>1, FirstLine
<1> HIDE DEF n, p, q
<1>6. n # 0 /\ ~q.thrown /\ n > 1 /\ q.begin > 0 /\ n - 1 # q.begin
  BY <1>1, <1>3, <1>4, <1>5
<1>7. Parse(e) = [state |-> "done",
                  items |-> Append(p.items, [from |-> First(e, e[n]), to |-> n - 1])]
  BY <1>2, <1>3, <1>4, <1>6
<1>8. QED
  BY <1>7 DEF n, p

\* The lines of the last epoch; those of the one before it.
LEMMA LastLines ==
  ASSUME NEW e, Regular(e)
  PROVE  LinesOf(e, e[Len(e)]) = [from |-> First(e, e[Len(e)]), to |-> Len(e) - 1]
BY DEF LinesOf, First

LEMMA GreatestBefore ==
  ASSUME NEW T, NEW m \in T, \A x \in T : x <= m, T \subseteq Int
  PROVE  Max(T) = m
<1>1. Max(T) \in T /\ \A y \in T : Max(T) >= y
  <2>1. \E x \in T : \A y \in T : x >= y
    OBVIOUS
  <2>2. QED
    BY <2>1 DEF Max
<1>2. Max(T) \in Int /\ m \in Int /\ Max(T) <= m /\ Max(T) >= m
  BY <1>1
<1>3. QED
  BY <1>2

LEMMA FormerLines ==
  ASSUME NEW e, Regular(e), e[Len(e)] = 2, 1 \in Range(e)
  PROVE  LinesOf(e, 1) = [from |-> First(e, 1), to |-> First(e, 2) - 1]
<1> DEFINE T == {i \in DOMAIN e : e[i] = 1}
<1>1. Len(e) \in Nat /\ Len(e) \in 1..Len(e) /\ DOMAIN e = 1..Len(e)
      /\ \A i \in 1..Len(e) : e[i] \in 0..2
  BY DEF Regular
<1>2. PICK k \in 1..Len(e) : e[k] = 1
  BY <1>1 DEF Range
<1>3. PICK f : f = First(e, 2)
  OBVIOUS
<1>4. f \in 1..Len(e) /\ e[f] = 2 /\ \A j \in 1..Len(e) : e[j] = 2 => f <= j
  BY <1>1, <1>3, FirstLine
<1>5. ~(f <= k)
  BY <1>2, <1>4, NeverBack
<1>6. f - 1 \in 1..Len(e) /\ k <= f - 1 /\ ~(f <= f - 1)
  BY <1>1, <1>2, <1>4, <1>5
<1>7. e[f - 1] = 1
  <2>1. e[k] <= e[f - 1]
    BY <1>2, <1>6, NeverBack
  <2>2. e[f - 1] # 2 /\ e[f - 1] \in 0..2
    BY <1>1, <1>4, <1>6
  <2>3. QED
    BY <1>2, <2>1, <2>2
<1>8. \A x \in T : x <= f - 1
  <2> SUFFICES ASSUME NEW x \in 1..Len(e), e[x] = 1 PROVE x <= f - 1
    BY <1>1
  <2>1. ~(f <= x)
    BY <1>4, NeverBack
  <2>2. QED
    BY <1>1, <1>4, <2>1
<1>9. Max(T) = f - 1
  <2>1. f - 1 \in T /\ T \subseteq Int
    BY <1>1, <1>6, <1>7
  <2> HIDE DEF T
  <2>2. QED
    BY <1>8, <2>1, GreatestBefore
<1>10. LinesOf(e, 1) = [from |-> Min(T), to |-> Max(T)]
  BY DEF LinesOf
<1>11. First(e, 1) = Min(T)
  BY DEF First
<1>12. QED
  BY <1>3, <1>9, <1>10, <1>11

-----------------------------------------------------------------------------
(* The theorems.                                                           *)

\* Sending steps, counters, queries and lines stay within their bounds: the
\* epoch of an agent does not pass the number of sending steps, no more answers
\* are on their way than messages were sent, and no tick saves two lines.
THEOREM StatisticsTypeCorrect == Spec => []StatisticsTypeOK
<1>1. IInv => StatisticsTypeOK
  <2> SUFFICES ASSUME IInv PROVE StatisticsTypeOK
    OBVIOUS
  <2> USE DEF IInv
  <2>1. flight \in [Agent -> 0..(Epochs * Sends)]
    <3>1. SUFFICES ASSUME NEW a \in Agent PROVE flight[a] \in 0..(Epochs * Sends)
      BY DEF Types
    <3>2. PICK s : s = IF sender[a] = "done" THEN step ELSE step - 1
      OBVIOUS
    <3>3. flight[a] \in Nat /\ flight[a] <= s * Sends
      BY <3>2 DEF Types, Working
    <3>4. s \in Nat /\ s <= Epochs
      <4>1. step \in 1..(Epochs + 1) /\ (sender[a] = "done" => step <= Epochs)
        BY DEF Types, Working
      <4>2. QED
        BY <3>2, <4>1, Numbers
    <3>5. s * Sends <= Epochs * Sends /\ s * Sends \in Nat /\ Epochs * Sends \in Nat
      <4>1. Epochs - s \in Nat /\ Epochs \in Nat /\ Sends \in Nat
        BY <3>4, Numbers
      <4>2. (Epochs - s) * Sends \in Nat /\ s * Sends \in Nat /\ Epochs * Sends \in Nat
        BY <3>4, <4>1
      <4>3. (Epochs - s) * Sends = Epochs * Sends - s * Sends
        BY <3>4, <4>1
      <4>4. QED
        BY <4>2, <4>3
    <3>6. QED
      BY <3>3, <3>5
  <2>2. Len(file) <= ticks
    <3>1. ticks \in 0..MaxTicks
      BY DEF Types
    <3>2. ticks \in Nat /\ Len(file) \in Nat
      <4>1. file \in Seq(Line)
        BY DEF Types
      <4>2. QED
        BY <3>1, <4>1, Numbers
    <3>3. IsFiniteSet(1..ticks) /\ Cardinality(1..ticks) = ticks
      BY <3>2, FS_Interval
    <3>4. Cardinality(OverTicks) <= ticks /\ Cardinality(OverTicks) \in Nat
      BY <3>3, FS_Subset, FS_CardinalityType DEF OverTicks
    <3>5. QED
      BY <3>2, <3>4 DEF Ticking
  <2>3. \A t \in Tick, a \in Agent : DOMAIN got[t][a] \subseteq Keys
    BY DEF Answering, Answer
  <2>4. QED
    BY <2>1, <2>2, <2>3 DEF Types, Line, StatisticsTypeOK
<1>2. QED
  BY <1>1, Invariance, PTL

\* Without overlapping ticks the epochs of the lines never decrease: while one
\* tick is open, no agent falls behind the line saved last.
THEOREM LinesStayInOrder == Spec => []LinesInOrder
<1>1. IInv => LinesInOrder
  BY DEF IInv
<1>2. QED
  BY <1>1, Invariance, PTL

\* Without overlapping ticks a line holds messages of its own epoch or later
\* ones only, unless it is the first line of its epoch.
THEOREM CountsAreFresh == Spec => []NoStaleCounts
<1>1. IInv => NoStaleCounts
  BY DEF IInv
<1>2. QED
  BY <1>1, Invariance, PTL

\* StatisticsParser.Parse reports each epoch of a regular file of any length
\* once, in the order of the epochs, from its first line to its last one.
THEOREM EpochsReportedOnce == Spec => []ReportsEachEpochOnce
<1>1. ReportsEachEpochOnce
  <2> SUFFICES ASSUME NEW e \in RegularFiles
               PROVE  Parse(e) =
                        [state |-> "done",
                         items |-> IF e[Len(e)] = 2 /\ 1 \in Range(e)
                                   THEN <<LinesOf(e, 1), LinesOf(e, 2)>>
                                   ELSE <<LinesOf(e, e[Len(e)])>>]
    BY DEF ReportsEachEpochOnce
  <2> DEFINE n == Len(e)
             last == LinesOf(e, e[n])
  <2>1. Regular(e)
    BY RegularFile
  <2>2. n \in Nat /\ n # 0
    BY <2>1 DEF Regular
  <2>3. last = [from |-> First(e, e[n]), to |-> n - 1]
    BY <2>1, LastLines
  <2>4. Parse(e) = [state |-> "done", items |-> Append(Parsed(e, n).items, last)]
    BY <2>1, <2>3, RegularReport
  <2>5. CASE e[n] = 2 /\ 1 \in Range(e)
    <3>1. Parsed(e, n).items = <<LinesOf(e, 1)>>
      <4>1. LinesOf(e, 1) = [from |-> First(e, 1), to |-> First(e, 2) - 1]
        BY <2>1, <2>5, FormerLines
      <4>2. QED
        BY <2>2, <2>5, <4>1 DEF Parsed
    <3>2. last = LinesOf(e, 2)
      BY <2>5
    <3> HIDE DEF last
    <3>3. Append(Parsed(e, n).items, last) = <<LinesOf(e, 1), LinesOf(e, 2)>>
      BY <3>1, <3>2, Pair
    <3>4. QED
      BY <2>4, <2>5, <3>3
  <2>6. CASE ~(e[n] = 2 /\ 1 \in Range(e))
    <3>1. Parsed(e, n).items = <<>>
      BY <2>6 DEF Parsed
    <3>2. Append(Parsed(e, n).items, last) = <<last>>
      BY <3>1
    <3>3. QED
      BY <2>4, <2>6, <3>2
  <2>7. QED
    BY <2>5, <2>6
<1>2. QED
  BY <1>1, PTL
=============================================================================
