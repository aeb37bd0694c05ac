--------------------------- MODULE StreamingEcho ---------------------------
(***************************************************************************)
(* The streamingEcho scenario over one connection adapter: again and again *)
(* StreamingBaseSendAsync hands a channel to StreamAsChannelAsync, into    *)
(* which a detached StreamingWriter writes Count items; the client library *)
(* uploads them, BenchHub.StreamingEcho writes them into the stream of its *)
(* answer, and StreamingBaseSendAsync reads that until it ends.  All items *)
(* of a stream are one dictionary, whose timestamp the writer changes;     *)
(* what an item says is decided when the client serialises it.  `Time' is  *)
(* the number of timestamps taken in the stream so far.                    *)
(***************************************************************************)
EXTENDS HubConnection, Sequences

CONSTANTS
  Echoer,   (* the adapter that streams                                    *)
  Count,    (* StreamItemsCount                                            *)
  MaxCalls  (* bound: calls of StreamingBaseSendAsync on an Active adapter *)

ASSUME StreamAssumption ==
  /\ Echoer \in Conn
  /\ Count \in Nat \ {0}
  /\ MaxCalls \in Nat

VARIABLES
  delayed,    (* is StreamItemInterval more than 0                         *)
  send,       (* where StreamingBaseSendAsync is                           *)
  n,          (* the number of the present or last stream                  *)
  stamped,    (* per stream: the timestamp in the dictionary               *)
  written,    (* per stream: items written to the channel                  *)
  counted,    (* per stream: RecordSend calls                              *)
  completed,  (* streams whose channel the writer has completed            *)
  received,   (* the items of stream n that were read                      *)
  missing,    (* IncreaseStreamItemMissing calls                           *)
  upload,     (* external: items of stream n uploaded, and is it going on  *)
  up, down,   (* external: stream n on its way to the hub, and from it     *)
  link        (* external: does stream n still have its connection         *)

streamVars == <<delayed, send, n, stamped, written, counted, completed, received, missing,
                upload, up, down, link>>

writerVars == <<delayed, stamped, written, counted, completed>>
wireVars == <<upload, up, down, link>>

Stream == 1..MaxCalls

Item(i, time) == [kind |-> "item", item |-> i, stamp |-> time]
End(kind) == [kind |-> kind, item |-> 0, stamp |-> 0]

StreamInit ==
  /\ HubInit
  /\ delayed \in BOOLEAN
  /\ send = "idle"
  /\ n = 0
  /\ stamped = [s \in Stream |-> 0]
  /\ written = [s \in Stream |-> 0]
  /\ counted = [s \in Stream |-> 0]
  /\ completed = {}
  /\ received = <<>>
  /\ missing = 0
  /\ upload = [items |-> 0, on |-> FALSE]
  /\ up = <<>> /\ down = <<>>
  /\ link = "none"

-----------------------------------------------------------------------------
(* StreamingBaseSendAsync and its StreamingWriter.                         *)

\* The writer runs up to its first wait before the call goes on: through the
\* whole loop if there is no delay between the items.
Begin ==
  /\ send = "idle" /\ n < MaxCalls
  /\ Echoer \notin sending
  /\ stat[Echoer] = "Active"
  /\ n' = n + 1
  /\ send' = "asking"
  /\ stamped' = [stamped EXCEPT ![n'] = IF delayed THEN 1 ELSE Count]
  /\ written' = [written EXCEPT ![n'] = IF delayed THEN 1 ELSE Count]
  /\ counted' = [counted EXCEPT ![n'] = IF delayed THEN 0 ELSE Count]
  /\ completed' = IF delayed THEN completed ELSE completed \cup {n'}
  /\ UNCHANGED <<hubVars, delayed, received, missing, wireVars>>

\* The delay after an item is over: RecordSend, whatever became of the stream.
CountItem(s) ==
  /\ counted[s] < written[s]
  /\ counted' = [counted EXCEPT ![s] = @ + 1]
  /\ UNCHANGED <<hubVars, delayed, send, n, stamped, written, completed, received, missing,
                 wireVars>>

(* A mutated form of NextItem: the loop condition is i <= count. *)
NextItemTooMany(s) == counted[s] = written[s] /\ written[s] \in 1..Count

NextItem(s) == counted[s] = written[s] /\ written[s] \in 1..(Count - 1)

StampItem(s) ==
  /\ NextItem(s) /\ stamped[s] = written[s]
  /\ stamped' = [stamped EXCEPT ![s] = @ + 1]
  /\ UNCHANGED <<hubVars, delayed, send, n, written, counted, completed, received, missing,
                 wireVars>>

(* A mutated form of WriteItem: the item is written before its timestamp is
   taken. *)
WriteItemUnstamped(s) ==
  /\ NextItem(s) /\ stamped[s] = written[s]
  /\ written' = [written EXCEPT ![s] = @ + 1]
  /\ UNCHANGED <<hubVars, delayed, send, n, stamped, counted, completed, received, missing,
                 wireVars>>

WriteItem(s) ==
  /\ NextItem(s) /\ stamped[s] = written[s] + 1
  /\ written' = [written EXCEPT ![s] = @ + 1]
  /\ UNCHANGED <<hubVars, delayed, send, n, stamped, counted, completed, received, missing,
                 wireVars>>

(* A mutated form of Complete: the channel is left open. *)
CompleteForgotten(s) ==
  /\ counted[s] = Count /\ s \notin completed /\ FALSE
  /\ UNCHANGED <<hubVars, streamVars>>

Complete(s) ==
  /\ counted[s] = Count /\ s \notin completed
  /\ completed' = completed \cup {s}
  /\ UNCHANGED <<hubVars, delayed, send, n, stamped, written, counted, received, missing,
                 wireVars>>

\* StreamAsChannelAsync of the adapter: the invocation is sent and the client
\* begins to upload; or it throws, and the adapter marks itself as stopped.
AskReturns ==
  /\ send = "asking"
  /\ ~Connecting(Echoer) /\ hub[Echoer] = "on"
  /\ send' = "reading"
  /\ upload' = [items |-> 0, on |-> TRUE]
  /\ link' = "up"
  /\ UNCHANGED <<hubVars, n, received, missing, writerVars, up, down>>

AskThrows ==
  /\ send = "asking"
  /\ ~Connecting(Echoer) /\ (hub[Echoer] # "on" \/ SlowSends)
  /\ send' = "idle"
  /\ MarkAsStopped(Echoer)
  /\ UNCHANGED <<lock, call, op, sending, hub, closed, n, received, missing, writerVars,
                 wireVars>>

\* stream.TryRead: the latency is taken from the item's timestamp.
ReadItem ==
  /\ send = "reading" /\ down # <<>> /\ Head(down).kind = "item"
  /\ received' = Append(received, Head(down))
  /\ down' = Tail(down)
  /\ UNCHANGED <<hubVars, send, n, missing, writerVars, upload, up, link>>

\* The call is over, and with it what was read and what is still on its way.
Drops ==
  /\ received' = <<>>
  /\ upload' = [items |-> 0, on |-> FALSE]
  /\ up' = <<>> /\ down' = <<>>
  /\ link' = "none"

ReadEnds ==
  /\ send = "reading" /\ down # <<>> /\ Head(down).kind = "done"
  /\ missing' = IF Len(received) < Count THEN missing + 1 ELSE missing
  /\ send' = "idle"
  /\ Drops
  /\ UNCHANGED <<hubVars, n, writerVars>>

\* The stream ends with an error or loses its connection; the catch block logs.
ReadThrows ==
  /\ send = "reading"
  /\ link = "lost" \/ (down # <<>> /\ Head(down).kind = "error")
  /\ send' = "idle"
  /\ Drops
  /\ UNCHANGED <<hubVars, n, missing, writerVars>>

\* The cancellation token of 5 s per item fires.
ReadTimesOut ==
  /\ send = "reading"
  /\ send' = "idle"
  /\ Drops
  /\ UNCHANGED <<hubVars, n, missing, writerVars>>

-----------------------------------------------------------------------------
(* The client library's upload, and BenchHub.StreamingEcho.                *)

Uploading == send = "reading" /\ link = "up" /\ upload.on

UploadItem ==
  /\ Uploading /\ upload.items < written[n]
  /\ up' = Append(up, Item(upload.items + 1, stamped[n]))
  /\ upload' = [upload EXCEPT !.items = @ + 1]
  /\ UNCHANGED <<hubVars, send, n, received, missing, writerVars, down, link>>

\* The dictionary is changed while it is serialised: its enumeration throws.
UploadThrows ==
  /\ Uploading /\ upload.items < written[n] /\ NextItem(n)
  /\ up' = Append(up, End("error"))
  /\ upload' = [upload EXCEPT !.on = FALSE]
  /\ UNCHANGED <<hubVars, send, n, received, missing, writerVars, down, link>>

UploadEnds ==
  /\ Uploading /\ upload.items = written[n] /\ n \in completed
  /\ up' = Append(up, End("done"))
  /\ upload' = [upload EXCEPT !.on = FALSE]
  /\ UNCHANGED <<hubVars, send, n, received, missing, writerVars, down, link>>

(* A mutated form of Relayed: writer.Complete() without the exception. *)
RelayedQuietly(message) == IF message.kind = "error" THEN End("done") ELSE message

\* What WriteChannelStream makes of what it reads: the item, or the completion
\* with the exception that it caught.
Relayed(message) == message

Relay ==
  /\ send = "reading" /\ link = "up" /\ up # <<>>
  /\ down' = Append(down, Relayed(Head(up)))
  /\ up' = Tail(up)
  /\ UNCHANGED <<hubVars, send, n, received, missing, writerVars, upload, link>>

\* The adapter's other operations.  A stream does not outlive its connection;
\* a step of another scenario does not begin before this one has returned.
HubStep ==
  /\ HubNext
  /\ Echoer \in sending' => send = "idle"
  /\ link' = IF link = "up" /\ hub'[Echoer] # "on" THEN "lost" ELSE link
  /\ UNCHANGED <<send, n, received, missing, writerVars, upload, up, down>>

-----------------------------------------------------------------------------
Writing(s) == StampItem(s) \/ WriteItem(s) \/ CountItem(s) \/ Complete(s)
Asking == AskReturns \/ AskThrows
Reading == ReadItem \/ ReadEnds \/ ReadThrows
Carrying == UploadItem \/ UploadThrows \/ UploadEnds \/ Relay

StreamNext ==
  \/ HubStep
  \/ Begin
  \/ \E s \in 1..n : Writing(s)
  \/ Asking
  \/ Reading \/ ReadTimesOut
  \/ Carrying

\* Delays end and ready tasks run; the client's connection lock, for which an
\* invocation waits behind any number of starts, is handed out in turn.  That
\* the cancellation token fires is not assumed.
StreamFairness ==
  /\ \A s \in Stream : WF_<<hubVars, streamVars>>(s <= n /\ Writing(s))
  /\ SF_<<hubVars, streamVars>>(Asking)
  /\ WF_<<hubVars, streamVars>>(Reading)
  /\ WF_<<hubVars, streamVars>>(Carrying)

StreamSpec ==
  /\ StreamInit
  /\ [][StreamNext]_<<hubVars, streamVars>>
  /\ HubFairness
  /\ StreamFairness

-----------------------------------------------------------------------------
Message ==
  [kind : {"item"}, item : 1..Count, stamp : 1..Count] \cup {End("done"), End("error")}

\* The counts of a stream keep their order: no item is counted before it is
\* written, uploaded before it is written, or read before it is uploaded
\* (StreamingEcho.cs).
StreamTypeOK ==
  /\ delayed \in BOOLEAN
  /\ send \in {"idle", "asking", "reading"}
  /\ n \in 0..MaxCalls
  /\ \A s \in Stream : /\ stamped[s] \in 0..Count
                       /\ written[s] \in 0..stamped[s]
                       /\ counted[s] \in 0..written[s]
  /\ completed \subseteq {s \in 1..n : counted[s] = Count}
  /\ missing \in 0..n
  /\ upload \in [items : 0..Count, on : BOOLEAN]
  /\ up \in Seq(Message) /\ down \in Seq(Message) /\ received \in Seq(Message)
  /\ send = "reading" => Len(received) <= upload.items /\ upload.items <= written[n]
  /\ link \in {"none", "up", "lost"}

\* The items of a stream are read in the order in which they were written,
\* each of them once, and a stream that ends without an error has ended after
\* all of them: "received streaming items ... not equal to sending items"
\* (StreamingEcho.cs) is never the case, for a stream that loses items throws.
WholeOrFailed ==
  /\ missing = 0
  /\ \A k \in DOMAIN received : received[k].kind = "item" /\ received[k].item = k

\* A latency is never taken from before its item was written, but it may be
\* taken from a later one: from the last one, when there is no delay between
\* them (StreamingEcho.cs).
StampedInTime ==
  \A k \in DOMAIN received :
    /\ received[k].stamp \in received[k].item..Count
    /\ ~delayed => received[k].stamp = Count

\* Every call returns to the sending loop, without the help of its
\* cancellation token: the writer and the hub complete their channels also
\* when something fails, and a lost connection ends the stream.
EveryStreamEnds == send # "idle" ~> send = "idle"
=============================================================================
