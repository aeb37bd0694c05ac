----------------------------- MODULE Statistics -----------------------------
(***************************************************************************)
(* The statistics of a run.  Every agent counts, in a dictionary that its  *)
(* sending step, its message callbacks and the collector's queries use at  *)
(* the same time.  A timer of the master queries all agents, merges their  *)
(* answers and appends a line to a file; the timer does not wait for the   *)
(* callback of its last tick.  StopCollector stops the timer and reports,  *)
(* for each epoch of the file, what its first and last line say.           *)
(*                                                                         *)
(* A counter of messages is the set of the epochs its messages belong to;  *)
(* one latency slot stands for all.  The sending step of a line is written *)
(* right after its epoch, merged and read in the same way: it is left out. *)
(***************************************************************************)
EXTENDS Integers, Sequences, FiniteSets, FiniteSetsExt

CONSTANTS
  Agent,      (* the agents                                                *)
  Epochs,     (* number of sending steps of the pipeline                   *)
  Sends,      (* messages each agent sends in a sending step               *)
  MaxTicks,   (* bound: ticks of the timer                                 *)
  MaxLines    (* bound: lines of the files StatisticsParser is checked on  *)

ASSUME StatisticsAssumption ==
  /\ IsFiniteSet(Agent) /\ Agent # {}
  /\ {Epochs, Sends, MaxTicks, MaxLines} \subseteq Nat

Tick == 1..MaxTicks
Keys == {"epoch", "message"}

VARIABLES
  step,     (* the sending step being run, or the next one                 *)
  sender,   (* per agent, where its SimpleScenarioSend is                  *)
  flight,   (* per agent, the messages whose answer is on its way          *)
  count,    (* _statistics, per agent                                      *)
  ticks,    (* ticks of the timer so far, up to MaxTicks                   *)
  query,    (* where the query of each tick to each agent is               *)
  got,      (* per tick and agent, what the query has read                 *)
  file,     (* the lines saved                                             *)
  overlap,  (* has a tick ever begun before the last one was over          *)
  report    (* what StopCollector reported                                 *)

work == <<step, sender>>
data == <<flight, count>>
queries == <<query, got>>
master == <<ticks, file, overlap, report>>
vars == <<work, data, queries, master>>

Nothing == [a \in Agent |-> <<>>]
NotYet == [state |-> "not yet", items |-> <<>>]
Throws == [state |-> "throws", items |-> <<>>]

TickOver(t) == \A a \in Agent : query[t][a] = "over"

Init ==
  /\ step = 1
  /\ sender = [a \in Agent |-> "idle"]
  /\ flight = [a \in Agent |-> 0]
  /\ count = [a \in Agent |-> [epoch |-> 0, message |-> {}]]
  /\ ticks = 0
  /\ query = [t \in Tick |-> [a \in Agent |-> "none"]]
  /\ got = [t \in Tick |-> Nothing]
  /\ file = <<>>
  /\ overlap = FALSE
  /\ report = NotYet

-----------------------------------------------------------------------------
(* A sending step: BaseContinuousSendMethod.SimpleScenarioSend.            *)

Goes(a, from, to) == sender[a] = from /\ sender' = [sender EXCEPT ![a] = to]

StepBegins ==
  /\ step <= Epochs
  /\ \A a \in Agent : sender[a] = "idle"
  /\ sender' = [a \in Agent |-> "reset"]
  /\ UNCHANGED <<step, data, queries, master>>

(* A mutated form of ResetCounters: the epoch is reset as well. *)
ResetAllCounters(a) ==
  /\ Goes(a, "reset", "epoch")
  /\ count' = [count EXCEPT ![a].message = {}, ![a].epoch = 0]
  /\ UNCHANGED <<step, flight, queries, master>>

\* UpdateStatistics, the first of its writes.
ResetCounters(a) ==
  /\ Goes(a, "reset", "epoch")
  /\ count' = [count EXCEPT ![a].message = {}]
  /\ UNCHANGED <<step, flight, queries, master>>

(* A mutated form of IncreaseEpoch: UpdateEpoch is called twice in a step. *)
IncreaseEpochTwice(a) ==
  /\ Goes(a, "epoch", "sending")
  /\ count' = [count EXCEPT ![a].epoch = @ + 2]
  /\ UNCHANGED <<step, flight, queries, master>>

IncreaseEpoch(a) ==
  /\ Goes(a, "epoch", "sending")
  /\ count' = [count EXCEPT ![a].epoch = @ + 1]
  /\ UNCHANGED <<step, flight, queries, master>>

\* The messages of the step; some may not be sent, for lack of connections.
Send(a) ==
  /\ Goes(a, "sending", "done")
  /\ \E n \in 0..Sends : flight' = [flight EXCEPT ![a] = @ + n]
  /\ UNCHANGED <<step, count, queries, master>>

\* All agents have answered.  The Wait step is a delay: answers may be later.
StepEnds ==
  /\ \A a \in Agent : sender[a] = "done"
  /\ step' = step + 1
  /\ sender' = [a \in Agent |-> "idle"]
  /\ UNCHANGED <<data, queries, master>>

\* The epoch whose counters agent a is filling: it has been reset for it.
Filling(a) == count[a].epoch + (IF sender[a] = "epoch" THEN 1 ELSE 0)

\* RegisterCallbackBase.SetCallback: the answer to a message is counted.
Receive(a) ==
  /\ flight[a] > 0
  /\ flight' = [flight EXCEPT ![a] = @ - 1]
  /\ count' = [count EXCEPT ![a].message = @ \cup {Filling(a)}]
  /\ UNCHANGED <<work, queries, master>>

-----------------------------------------------------------------------------
(* A tick: the query to each agent, CollectStatisticBase.Run there.  Its   *)
(* counts of connections, which are kept under a lock, are left out.       *)

TimerElapses ==
  /\ report = NotYet
  /\ ticks < MaxTicks
  /\ ticks' = ticks + 1
  /\ query' = [query EXCEPT ![ticks'] = [a \in Agent |-> "sent"]]
  /\ overlap' = (overlap \/ \E t \in 1..ticks : ~TickOver(t))
  /\ UNCHANGED <<work, data, got, file, report>>

\* GetData: ToDictionary enumerates the dictionary.  It holds _lock, which the
\* writers of these counters do not take.
ReadCounter(t, a, k) ==
  /\ query[t][a] = "sent"
  /\ k \notin DOMAIN got[t][a]
  /\ got' = [got EXCEPT ![t][a] =
                [j \in DOMAIN @ \cup {k} |-> IF j = k THEN count[a][k] ELSE @[j]]]
  /\ query' = [query EXCEPT ![t][a] = IF DOMAIN got'[t][a] = Keys THEN "answered" ELSE "sent"]
  /\ UNCHANGED <<work, data, master>>

(* A mutated form of MergeStatistics: the newest epoch is taken. *)
MergeNewest(answers) ==
  [epoch   |-> Max({answers[a].epoch : a \in Agent}),
   message |-> UNION {answers[a].message : a \in Agent}]

\* SignalRUtils.MergeStatistics: counters are added up, the epoch is the least.
MergeStatistics(answers) ==
  [epoch   |-> Min({answers[a].epoch : a \in Agent}),
   message |-> UNION {answers[a].message : a \in Agent}]

\* Task.WhenAll over the answers, then PrintAndSave.
Save(t) ==
  /\ \A a \in Agent : query[t][a] = "answered"
  /\ file' = Append(file, MergeStatistics(got[t]))
  /\ query' = [query EXCEPT ![t] = [a \in Agent |-> "over"]]
  /\ got' = [got EXCEPT ![t] = Nothing]
  /\ UNCHANGED <<work, data, ticks, overlap, report>>

\* A call has failed: the exception is logged and the line is lost.
TickFails(t) ==
  /\ \A a \in Agent : query[t][a] = "answered"
  /\ query' = [query EXCEPT ![t] = [a \in Agent |-> "over"]]
  /\ got' = [got EXCEPT ![t] = Nothing]
  /\ UNCHANGED <<work, data, master>>

-----------------------------------------------------------------------------
(* StopCollector and StatisticsParser.Parse, on the epochs of the lines.   *)

\* What Parse knows after a line: prevStat and curStat as line numbers (0 is
\* null), the result items, and whether it has dereferenced a null.
Start == [begin |-> 0, cur |-> 0, items |-> <<>>, thrown |-> FALSE]

(* A mutated form of ParseLine: the epoch's end is the first line after it. *)
ParseLineLate(p, epochs, i) ==
  IF epochs[i] = 0 \/ (p.begin > 0 /\ epochs[i] = epochs[p.begin])
  THEN [p EXCEPT !.cur = i]
  ELSE [begin  |-> i,
        cur    |-> i,
        items  |-> IF p.begin = 0 THEN p.items
                   ELSE Append(p.items, [from |-> p.begin, to |-> i]),
        thrown |-> p.thrown \/ (p.begin = 0 /\ p.cur = 0)]

\* One turn of the loop.  The first line of a new epoch completes the item of
\* the last one, which ends with the line before it (endStat); the very first
\* prints the connection statistics of endStat, null if there was no line.
ParseLine(p, epochs, i) ==
  IF epochs[i] = 0 \/ (p.begin > 0 /\ epochs[i] = epochs[p.begin])
  THEN [p EXCEPT !.cur = i]
  ELSE [begin  |-> i,
        cur    |-> i,
        items  |-> IF p.begin = 0 THEN p.items
                   ELSE Append(p.items, [from |-> p.begin, to |-> p.cur]),
        thrown |-> p.thrown \/ (p.begin = 0 /\ p.cur = 0)]

\* The item after the loop ends with endStat, the last line but one.  A file
\* that does not exist throws as well.
Parse(epochs) ==
  LET n == Len(epochs)
      parsed[i \in 0..n] == IF i = 0 THEN Start ELSE ParseLine(parsed[i - 1], epochs, i)
      p == parsed[n]
  IN  IF n = 0 \/ p.thrown THEN Throws
      ELSE [state |-> "done",
            items |-> IF n > 1 /\ p.begin > 0 /\ n - 1 # p.begin
                      THEN Append(p.items, [from |-> p.begin, to |-> n - 1])
                      ELSE p.items]

\* The timer is stopped; callbacks of earlier ticks may still be running.
StopCollector ==
  /\ step > Epochs
  /\ report = NotYet
  /\ report' = Parse([i \in DOMAIN file |-> file[i].epoch])
  /\ UNCHANGED <<work, data, queries, ticks, file, overlap>>

\* The pipeline is over, and so are the callbacks of the timer.
Over ==
  /\ report # NotYet
  /\ \A t \in 1..ticks : TickOver(t)
  /\ UNCHANGED vars

-----------------------------------------------------------------------------
Next ==
  \/ StepBegins
  \/ StepEnds
  \/ \E a \in Agent : \/ ResetCounters(a)
                      \/ IncreaseEpoch(a)
                      \/ Send(a)
                      \/ Receive(a)
                      \/ \E t \in Tick, k \in Keys : ReadCounter(t, a, k)
  \/ TimerElapses
  \/ \E t \in Tick : Save(t) \/ TickFails(t)
  \/ StopCollector
  \/ Over

Spec == Init /\ [][Next]_vars

-----------------------------------------------------------------------------
Epoch == 0..Epochs

\* The epoch an agent has reached and the epochs its messages were counted in
\* stay within the sending steps of the pipeline, and a line holds what the
\* queries of its tick read (StatisticsCollector.cs, SignalRUtils.cs).
StatisticsTypeOK ==
  /\ step \in 1..(Epochs + 1)
  /\ sender \in [Agent -> {"idle", "reset", "epoch", "sending", "done"}]
  /\ flight \in [Agent -> 0..(Epochs * Sends)]
  /\ count \in [Agent -> [epoch : Epoch, message : SUBSET Epoch]]
  /\ ticks \in 0..MaxTicks
  /\ query \in [Tick -> [Agent -> {"none", "sent", "answered", "over"}]]
  /\ \A t \in Tick, a \in Agent : DOMAIN got[t][a] \subseteq Keys
  /\ file \in Seq([epoch : Epoch, message : SUBSET Epoch])
  /\ Len(file) <= ticks
  /\ overlap \in BOOLEAN
  /\ report.state \in {"not yet", "throws", "done"}

\* As long as no tick begins before the last one is over, the epochs of the
\* lines never decrease, though each line is merged from agents that reset and
\* raise their epochs at different times: StatisticsParser relies on it to tell
\* where an epoch ends (StatisticsParser.cs).
LinesInOrder ==
  ~overlap => \A i \in 2..Len(file) : file[i - 1].epoch <= file[i].epoch

\* A query may read the epoch on one side of UpdateStatistics and the messages
\* on the other.  Still, in every line but the first of its epoch, no agent's
\* counters hold messages that were counted in an earlier epoch: the line with
\* the least epoch of the agents is saved after all of them were reset for it.
NoStaleCounts ==
  ~overlap =>
    \A i \in 2..Len(file) :
      file[i].epoch = file[i - 1].epoch => \A e \in file[i].message : e >= file[i].epoch

\* The files whose epochs never decrease, which start before the first sending
\* step and end with three lines at least of the last one.
RegularFiles ==
  {e \in UNION {[1..n -> 0..2] : n \in 4..MaxLines} :
     /\ e[1] = 0
     /\ e[Len(e)] > 0 /\ e[Len(e) - 2] = e[Len(e)]
     /\ \A i \in 2..Len(e) : e[i - 1] <= e[i]}

\* The lines of epoch k of a file, from the first one to the last one; of the
\* file's last epoch, to the last one but one.
LinesOf(e, k) ==
  LET lines == {i \in DOMAIN e : e[i] = k}
  IN  [from |-> Min(lines), to |-> IF k = e[Len(e)] THEN Len(e) - 1 ELSE Max(lines)]

\* Parse reports each epoch of such a file once, in their order, from its first
\* line to its last, with the loop's one line of delay (StatisticsParser.Parse).
ReportsEachEpochOnce ==
  ticks = 0 =>
    \A e \in RegularFiles :
      LET last == e[Len(e)] IN
      Parse(e) = [state |-> "done",
                  items |-> IF last = 2 /\ 1 \in Range(e) THEN <<LinesOf(e, 1), LinesOf(e, 2)>>
                            ELSE <<LinesOf(e, last)>>]
=============================================================================
