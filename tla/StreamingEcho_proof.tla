------------------------ MODULE StreamingEcho_proof ------------------------
(***************************************************************************)
(* Proofs about StreamingEcho for every number of streams and of items, on *)
(* any adapters: what was read, what comes down and what goes up are, one  *)
(* after the other, the items uploaded so far, each in its place.          *)
(***************************************************************************)
EXTENDS StreamingEcho, TLAPS

\* What the writers of the streams have done.
Writers ==
  /\ delayed \in BOOLEAN
  /\ n \in 0..MaxCalls
  /\ stamped \in [Stream -> 0..Count]
  /\ written \in [Stream -> 0..Count]
  /\ counted \in [Stream -> 0..Count]
  /\ \A s \in Stream : counted[s] <= written[s] /\ written[s] <= stamped[s]
  /\ \A s \in completed : s \in 1..n /\ counted[s] = Count
  /\ ~delayed => \A s \in 1..n : written[s] = Count

\* Where the reader is, and what it has on the wire.
Reader ==
  /\ send \in {"idle", "asking", "reading"}
  /\ send # "idle" => n > 0
  /\ missing = 0
  /\ upload \in [items : 0..Count, on : BOOLEAN]
  /\ link \in {"none", "up", "lost"}
  /\ up \in Seq(Message) /\ down \in Seq(Message) /\ received \in Seq(Message)
  /\ send # "reading" => up = <<>> /\ down = <<>> /\ received = <<>>
  /\ send = "reading" => upload.items <= written[n]

\* A message that is an item is the one of its place p in the stream, and was
\* stamped no earlier than it was written.
Placed(message, p) ==
  message.kind = "item" =>
    /\ message.item = p
    /\ p <= upload.items
    /\ p <= message.stamp
    /\ ~delayed => message.stamp = Count

\* The end of a stream comes last, and without an error after all its items.
EndsUpload(message, p) ==
  message.kind # "item" => ~upload.on /\ (message.kind = "done" => p = Count + 1)

Arrived ==
  \A k \in 1..Len(received) : received[k].kind = "item" /\ Placed(received[k], k)

Downward ==
  \A k \in 1..Len(down) :
    /\ Placed(down[k], Len(received) + k)
    /\ EndsUpload(down[k], Len(received) + k)
    /\ down[k].kind # "item" => k = Len(down) /\ Len(up) = 0

Upward ==
  \A k \in 1..Len(up) :
    /\ Placed(up[k], Len(received) + Len(down) + k)
    /\ EndsUpload(up[k], Len(received) + Len(down) + k)
    /\ up[k].kind # "item" => k = Len(up)

InPlace ==
  /\ Arrived /\ Downward /\ Upward
  /\ upload.on => upload.items = Len(received) + Len(down) + Len(up)

\* The inductive invariant.
IInv == Writers /\ Reader /\ InPlace

-----------------------------------------------------------------------------
LEMMA Appended ==
  ASSUME NEW S, NEW q \in Seq(S), NEW e \in S
  PROVE  /\ Append(q, e) \in Seq(S)
         /\ Len(Append(q, e)) = Len(q) + 1
         /\ \A k \in 1..Len(q) : Append(q, e)[k] = q[k]
         /\ Append(q, e)[Len(q) + 1] = e
  OBVIOUS

LEMMA Rest ==
  ASSUME NEW S, NEW q \in Seq(S), q # <<>>
  PROVE  /\ Head(q) \in S /\ Head(q) = q[1]
         /\ Tail(q) \in Seq(S)
         /\ Len(q) \in Nat /\ Len(q) > 0
         /\ Len(Tail(q)) = Len(q) - 1
         /\ \A k \in 1..(Len(q) - 1) : Tail(q)[k] = q[k + 1]
  OBVIOUS

LEMMA Empty ==
  ASSUME NEW S
  PROVE  <<>> \in Seq(S) /\ Len(<<>>) = 0
  OBVIOUS

LEMMA InitInvariant == StreamInit => IInv
<1> SUFFICES ASSUME StreamInit PROVE IInv
  OBVIOUS
<1>1. Writers
  BY StreamAssumption DEF StreamInit, Writers
<1>2. Reader
  BY StreamAssumption, Empty DEF StreamInit, Reader
<1>3. InPlace
  BY Empty DEF StreamInit, InPlace, Arrived, Downward, Upward
<1> QED BY <1>1, <1>2, <1>3 DEF IInv

-----------------------------------------------------------------------------
(* The writers: written[n] only grows, and nothing else is the reader's.   *)

LEMMA BeginStep ==
  ASSUME IInv, Begin PROVE IInv'
<1> USE StreamAssumption DEF IInv
<1>1. Writers'
  <2> DEFINE m == n + 1
  <2>1. n' = m /\ m \in Stream /\ delayed' = delayed /\ n' \in 0..MaxCalls
    BY DEF Begin, Writers, Stream
  <2>2. /\ stamped' \in [Stream -> 0..Count]
        /\ written' \in [Stream -> 0..Count]
        /\ counted' \in [Stream -> 0..Count]
    BY <2>1 DEF Begin, Writers
  <2>3. \A s \in Stream \ {m} : UNCHANGED <<stamped[s], written[s], counted[s]>>
    BY <2>1 DEF Begin, Writers
  <2>4. /\ stamped'[m] = IF delayed THEN 1 ELSE Count
        /\ written'[m] = IF delayed THEN 1 ELSE Count
        /\ counted'[m] = IF delayed THEN 0 ELSE Count
        /\ completed' = IF delayed THEN completed ELSE completed \cup {m}
    BY <2>1 DEF Begin, Writers
  <2> HIDE DEF m
  <2>5. \A s \in Stream : counted'[s] <= written'[s] /\ written'[s] <= stamped'[s]
    BY <2>3, <2>4 DEF Writers
  <2>6. \A s \in 1..n : s \in Stream \ {m}
    BY DEF Writers, Stream, m
  <2>7. \A s \in 1..n' : s \in 1..n \/ s = m
    BY <2>1 DEF Writers, m
  <2>8. \A s \in completed' : s \in 1..n' /\ counted'[s] = Count
    <3>1. \A s \in completed : s \in 1..n' /\ counted'[s] = Count
      BY <2>1, <2>3, <2>6 DEF Writers, m
    <3>2. m \in 1..n'
      BY <2>1 DEF Writers, m
    <3> QED BY <3>1, <3>2, <2>4
  <2>9. ~delayed' => \A s \in 1..n' : written'[s] = Count
    BY <2>1, <2>3, <2>4, <2>6, <2>7 DEF Writers
  <2> QED BY <2>1, <2>2, <2>5, <2>8, <2>9 DEF Writers
<1>2. Reader'
  <2>1. n' > 0
    BY DEF Begin, Writers
  <2> QED BY <2>1 DEF Begin, Reader, wireVars
<1>3. InPlace'
  BY DEF Begin, Reader, InPlace, Arrived, Downward, Upward, wireVars
<1> QED BY <1>1, <1>2, <1>3

LEMMA WritingStep ==
  ASSUME IInv, NEW s \in 1..n, Writing(s) PROVE IInv'
<1> USE StreamAssumption DEF IInv
<1>1. Writers'
  <2> s \in Stream /\ s \in 1..n
    BY DEF Writers, Stream
  <2>1. CASE StampItem(s)
    <3>1. stamped[s] + 1 \in 0..Count /\ written[s] <= stamped[s] + 1
      BY <2>1 DEF StampItem, NextItem, Writers
    <3>2. stamped' \in [Stream -> 0..Count]
      BY <2>1, <3>1 DEF StampItem, Writers
    <3>3. \A t \in Stream : written[t] <= stamped'[t]
      BY <2>1, <3>1 DEF StampItem, Writers
    <3> QED BY <2>1, <3>2, <3>3 DEF StampItem, Writers
  <2>2. CASE WriteItem(s)
    <3>1. /\ written[s] + 1 \in 0..Count /\ written[s] + 1 <= stamped[s]
          /\ counted[s] <= written[s] + 1
          /\ written[s] # Count
      BY <2>2 DEF WriteItem, NextItem, Writers
    <3>2. written' \in [Stream -> 0..Count]
      BY <2>2, <3>1 DEF WriteItem, Writers
    <3>3. \A t \in Stream : counted[t] <= written'[t] /\ written'[t] <= stamped[t]
      BY <2>2, <3>1 DEF WriteItem, Writers
    <3>4. delayed
      BY <3>1 DEF Writers
    <3> QED BY <2>2, <3>2, <3>3, <3>4 DEF WriteItem, Writers
  <2>3. CASE CountItem(s)
    <3>1. counted[s] + 1 \in 0..Count /\ counted[s] + 1 <= written[s] /\ counted[s] # Count
      BY <2>3 DEF CountItem, Writers
    <3>2. counted' \in [Stream -> 0..Count]
      BY <2>3, <3>1 DEF CountItem, Writers
    <3>3. \A t \in Stream : counted'[t] <= written[t]
      BY <2>3, <3>1 DEF CountItem, Writers
    <3>4. \A t \in completed : counted'[t] = Count
      BY <2>3, <3>1 DEF CountItem, Writers, Stream
    <3> QED BY <2>3, <3>2, <3>3, <3>4 DEF CountItem, Writers
  <2>4. CASE Complete(s)
    BY <2>4 DEF Complete, Writers, Stream
  <2> QED BY <2>1, <2>2, <2>3, <2>4 DEF Writing
<1>2. UNCHANGED <<delayed, send, n, received, missing, upload, up, down, link>>
  BY DEF Writing, StampItem, WriteItem, CountItem, Complete, wireVars
<1>3. n \in Stream
  BY DEF Writers, Stream
<1>4. written[n] \in Int /\ written'[n] \in Int /\ written[n] <= written'[n]
  BY <1>1, <1>2, <1>3 DEF Writing, StampItem, WriteItem, CountItem, Complete, Writers
<1>5. Reader'
  <2>1. upload.items \in Int
    BY DEF Reader
  <2> QED BY <1>2, <1>4, <2>1 DEF Reader
<1>6. InPlace'
  BY <1>2 DEF InPlace, Arrived, Downward, Upward, Placed, EndsUpload
<1> QED BY <1>1, <1>5, <1>6

-----------------------------------------------------------------------------
(* The call.                                                               *)

LEMMA AskingStep ==
  ASSUME IInv, Asking PROVE IInv'
<1> USE StreamAssumption DEF IInv
<1>1. Writers'
  BY DEF Asking, AskReturns, AskThrows, Writers, writerVars
<1>2. CASE AskReturns
  <2>1. Reader'
    BY <1>2 DEF AskReturns, Reader, Writers, Stream, writerVars
  <2>2. InPlace'
    BY <1>2, Empty DEF AskReturns, Reader, InPlace, Arrived, Downward, Upward
  <2> QED BY <1>1, <2>1, <2>2
<1>3. CASE AskThrows
  <2>1. Reader'
    BY <1>3 DEF AskThrows, Reader, wireVars
  <2>2. InPlace'
    BY <1>3 DEF AskThrows, InPlace, Arrived, Downward, Upward, Placed, EndsUpload,
                wireVars, writerVars
  <2> QED BY <1>1, <2>1, <2>2
<1> QED BY <1>2, <1>3 DEF Asking

\* A call that is over leaves nothing behind.
LEMMA DropsStep ==
  ASSUME IInv, Drops, send' = "idle", missing' = missing, UNCHANGED <<n, writerVars>>
  PROVE  IInv'
<1> USE StreamAssumption DEF IInv
<1>1. Writers'
  BY DEF Writers, writerVars
<1>2. Reader'
  BY Empty DEF Drops, Reader
<1>3. InPlace'
  BY Empty DEF Drops, InPlace, Arrived, Downward, Upward
<1> QED BY <1>1, <1>2, <1>3

LEMMA ReadItemStep ==
  ASSUME IInv, ReadItem PROVE IInv'
<1> USE StreamAssumption DEF IInv
<1>1. Writers'
  BY DEF ReadItem, Writers, writerVars
<1>2. /\ down # <<>> /\ down' = Tail(down)
      /\ received' = Append(received, Head(down)) /\ Head(down).kind = "item"
      /\ UNCHANGED <<send, n, missing, delayed, written, upload, up, link>>
  BY DEF ReadItem, writerVars
<1>3. /\ down \in Seq(Message) /\ received \in Seq(Message) /\ up \in Seq(Message)
      /\ Len(received) \in Nat /\ Len(up) \in Nat
  BY DEF Reader
<1>4. /\ Head(down) \in Message /\ Head(down) = down[1] /\ Len(down) \in Nat /\ Len(down) > 0
      /\ down' \in Seq(Message) /\ Len(down') = Len(down) - 1
      /\ \A k \in 1..(Len(down) - 1) : down'[k] = down[k + 1]
  BY <1>2, <1>3, Rest
<1>5. /\ received' \in Seq(Message) /\ Len(received') = Len(received) + 1
      /\ \A k \in 1..Len(received) : received'[k] = received[k]
      /\ received'[Len(received) + 1] = Head(down)
  BY <1>2, <1>3, <1>4, Appended
<1>6. Reader'
  BY <1>2, <1>4, <1>5 DEF Reader, ReadItem
<1>7. /\ \A m, q : Placed(m, q)' <=> Placed(m, q)
      /\ \A m, q : EndsUpload(m, q)' <=> EndsUpload(m, q)
  BY <1>2 DEF Placed, EndsUpload
<1>8. Arrived'
  <2> SUFFICES ASSUME NEW k \in 1..(Len(received) + 1)
               PROVE  received'[k].kind = "item" /\ Placed(received'[k], k)
    BY <1>5, <1>7 DEF Arrived
  <2>1. CASE k \in 1..Len(received)
    BY <1>5, <2>1 DEF InPlace, Arrived
  <2>2. CASE k = Len(received) + 1
    <3>1. 1 \in 1..Len(down)
      BY <1>4
    <3>2. Placed(down[1], Len(received) + 1)
      BY <3>1 DEF InPlace, Downward
    <3> QED BY <1>2, <1>4, <1>5, <2>2, <3>2
  <2> QED BY <1>3, <2>1, <2>2
<1>9. Downward'
  <2> SUFFICES ASSUME NEW k \in 1..(Len(down) - 1)
               PROVE  /\ Placed(down[k + 1], Len(received) + (k + 1))
                      /\ EndsUpload(down[k + 1], Len(received) + (k + 1))
                      /\ down[k + 1].kind # "item" => k + 1 = Len(down) /\ Len(up) = 0
    <3>1. \A k \in 1..(Len(down) - 1) :
            /\ Len(received') + k = Len(received) + (k + 1)
            /\ k = Len(down') <=> k + 1 = Len(down)
      BY <1>3, <1>4, <1>5
    <3>2. SUFFICES \A k \in 1..(Len(down) - 1) :
                     /\ Placed(down'[k], Len(received') + k)
                     /\ EndsUpload(down'[k], Len(received') + k)
                     /\ down'[k].kind # "item" => k = Len(down') /\ Len(up') = 0
      BY <1>4, <1>7 DEF Downward
    <3> QED BY <1>2, <1>4, <3>1
  <2>1. k + 1 \in 1..Len(down)
    BY <1>4
  <2> QED BY <2>1 DEF InPlace, Downward
<1>10. Upward'
  <2>1. Len(received') + Len(down') = Len(received) + Len(down)
    BY <1>3, <1>4, <1>5
  <2> QED BY <1>2, <1>7, <2>1 DEF InPlace, Upward
<1>11. upload'.on => upload'.items = Len(received') + Len(down') + Len(up')
  BY <1>2, <1>3, <1>4, <1>5 DEF InPlace
<1> QED BY <1>1, <1>6, <1>8, <1>9, <1>10, <1>11 DEF InPlace

LEMMA ReadingStep ==
  ASSUME IInv, Reading PROVE IInv'
<1> USE StreamAssumption
<1>1. CASE ReadEnds
  <2>1. Len(received) = Count
    <3>1. down # <<>> /\ down \in Seq(Message) /\ Head(down).kind = "done"
      BY <1>1 DEF ReadEnds, IInv, Reader
    <3>2. Head(down) = down[1] /\ 1 \in 1..Len(down)
      BY <3>1, Rest
    <3>3. Len(received) \in Nat /\ Len(received) + 1 = Count + 1
      BY <3>1, <3>2 DEF IInv, Reader, InPlace, Downward, EndsUpload
    <3> QED BY <3>3
  <2>2. missing' = missing
    BY <1>1, <2>1 DEF ReadEnds
  <2> QED BY <1>1, <2>2, DropsStep DEF ReadEnds
<1>2. CASE ReadThrows
  BY <1>2, DropsStep DEF ReadThrows
<1>3. CASE ReadItem
  BY <1>3, ReadItemStep
<1> QED BY <1>1, <1>2, <1>3 DEF Reading

-----------------------------------------------------------------------------
(* The wire.                                                               *)

\* The upload goes on, or ends, with one more message.
LEMMA UploadStep ==
  ASSUME IInv, Uploading, NEW message \in Message, NEW q \in Int,
         q = Len(received) + Len(down) + Len(up) + 1,
         up' = Append(up, message),
         UNCHANGED <<send, n, received, missing, writerVars, down, link>>,
         Placed(message, q)', EndsUpload(message, q)',
         upload' \in [items : 0..Count, on : BOOLEAN],
         upload'.items >= upload.items, upload'.items <= written[n],
         upload'.on => upload'.items = q
  PROVE  IInv'
<1> USE StreamAssumption DEF IInv
<1>1. Writers'
  BY DEF Writers, writerVars
<1>2. /\ up \in Seq(Message) /\ down \in Seq(Message) /\ received \in Seq(Message)
      /\ Len(up) \in Nat /\ Len(down) \in Nat /\ Len(received) \in Nat
      /\ send = "reading" /\ upload.on /\ upload.items \in Int /\ upload'.items \in Int
  BY DEF Reader, Uploading
<1>3. /\ up' \in Seq(Message) /\ Len(up') = Len(up) + 1
      /\ \A k \in 1..Len(up) : up'[k] = up[k]
      /\ up'[Len(up) + 1] = message
  BY <1>2, Appended
<1>4. Reader'
  BY <1>2, <1>3 DEF Reader, writerVars
<1>5. \A m, p : p \in Int /\ Placed(m, p) => Placed(m, p)'
  BY <1>2 DEF Placed, writerVars
<1>6. \A m, p : m.kind = "item" => EndsUpload(m, p)'
  BY DEF EndsUpload
<1>7. Arrived'
  BY <1>2, <1>5 DEF InPlace, Arrived
<1>8. Downward'
  <2> SUFFICES ASSUME NEW k \in 1..Len(down)
               PROVE  /\ Placed(down[k], Len(received) + k)'
                      /\ EndsUpload(down[k], Len(received) + k)'
                      /\ down[k].kind = "item"
    BY DEF Downward
  <2>1. down[k].kind = "item" /\ Placed(down[k], Len(received) + k)
    BY <1>2 DEF InPlace, Downward, EndsUpload
  <2>2. Len(received) + k \in Int
    BY <1>2
  <2> QED BY <1>5, <1>6, <2>1, <2>2
<1>9. Upward'
  <2>1. \A k \in 1..Len(up) :
          /\ up[k].kind = "item"
          /\ Placed(up[k], Len(received) + Len(down) + k)
          /\ Len(received) + Len(down) + k \in Int
    <3>0. \A k \in 1..Len(up) : Len(received) + Len(down) + k \in Int
      BY <1>2
    <3> SUFFICES ASSUME NEW k \in 1..Len(up)
                 PROVE  up[k].kind = "item" /\ Placed(up[k], Len(received) + Len(down) + k)
      BY <3>0
    <3>1. /\ Placed(up[k], Len(received) + Len(down) + k)
          /\ EndsUpload(up[k], Len(received) + Len(down) + k)
      BY DEF InPlace, Upward
    <3> QED BY <1>2, <3>1 DEF EndsUpload
  <2> SUFFICES ASSUME NEW k \in 1..(Len(up) + 1), NEW p \in Int,
                      p = Len(received) + Len(down) + k
               PROVE  /\ Placed(up[k], p)'
                      /\ EndsUpload(up[k], p)'
                      /\ up'[k].kind # "item" => k = Len(up) + 1
    <3>1. /\ received' = received /\ down' = down
          /\ \A k \in 1..(Len(up) + 1) : Len(received) + Len(down) + k \in Int
      BY <1>2
    <3>2. SUFFICES \A k \in 1..Len(up') :
                     /\ Placed(up[k], Len(received) + Len(down) + k)'
                     /\ EndsUpload(up[k], Len(received) + Len(down) + k)'
                     /\ up'[k].kind # "item" => k = Len(up')
      BY DEF Upward
    <3> QED BY <1>3, <3>1
  <2>2. CASE k \in 1..Len(up)
    <3>1. up'[k].kind = "item" /\ Placed(up'[k], p)
      BY <1>3, <2>1, <2>2
    <3> QED BY <1>5, <1>6, <3>1
  <2>3. CASE k = Len(up) + 1
    <3>1. up'[k] = message /\ p = q
      BY <1>2, <1>3, <2>3
    <3> QED BY <2>3, <3>1
  <2> QED BY <1>2, <2>2, <2>3
<1>10. upload'.on => upload'.items = Len(received') + Len(down') + Len(up')
  BY <1>2, <1>3
<1> QED BY <1>1, <1>4, <1>7, <1>8, <1>9, <1>10 DEF InPlace

\* The hub passes one message on.
LEMMA RelayStep ==
  ASSUME IInv, Relay PROVE IInv'
<1> USE StreamAssumption DEF IInv
<1>1. Writers'
  BY DEF Relay, Writers, writerVars
<1>2. /\ up # <<>> /\ up' = Tail(up) /\ down' = Append(down, Head(up)) /\ send = "reading"
      /\ UNCHANGED <<send, n, missing, delayed, written, received, upload, link>>
  BY DEF Relay, Relayed, writerVars
<1>3. /\ down \in Seq(Message) /\ received \in Seq(Message) /\ up \in Seq(Message)
      /\ Len(received) \in Nat /\ Len(down) \in Nat
  BY DEF Reader
<1>4. /\ Head(up) \in Message /\ Head(up) = up[1] /\ Len(up) \in Nat /\ Len(up) > 0
      /\ up' \in Seq(Message) /\ Len(up') = Len(up) - 1
      /\ \A k \in 1..(Len(up) - 1) : up'[k] = up[k + 1]
  BY <1>2, <1>3, Rest
<1>5. /\ down' \in Seq(Message) /\ Len(down') = Len(down) + 1
      /\ \A k \in 1..Len(down) : down'[k] = down[k]
      /\ down'[Len(down) + 1] = Head(up)
  BY <1>2, <1>3, <1>4, Appended
<1>6. Reader'
  BY <1>2, <1>4, <1>5 DEF Reader
<1>7. /\ \A m, q : Placed(m, q)' <=> Placed(m, q)
      /\ \A m, q : EndsUpload(m, q)' <=> EndsUpload(m, q)
  BY <1>2 DEF Placed, EndsUpload
<1>8. Arrived'
  BY <1>2, <1>7 DEF InPlace, Arrived
<1>9. Downward'
  <2>1. \A k \in 1..Len(down) : /\ Placed(down[k], Len(received) + k)
                               /\ EndsUpload(down[k], Len(received) + k)
                               /\ down[k].kind = "item"
    BY <1>4 DEF InPlace, Downward
  <2>2. /\ Placed(up[1], Len(received) + Len(down) + 1)
        /\ EndsUpload(up[1], Len(received) + Len(down) + 1)
        /\ up[1].kind # "item" => Len(up) = 1
    BY <1>4 DEF InPlace, Upward
  <2>3. Len(received) + Len(down) + 1 = Len(received) + (Len(down) + 1)
    BY <1>3
  <2> SUFFICES ASSUME NEW k \in 1..(Len(down) + 1)
               PROVE  /\ Placed(down'[k], Len(received) + k)
                      /\ EndsUpload(down'[k], Len(received) + k)
                      /\ down'[k].kind # "item" => k = Len(down) + 1 /\ Len(up) = 1
    <3>1. received' = received /\ Len(up') = 0 <=> Len(up) = 1
      BY <1>2, <1>4
    <3>2. SUFFICES \A k \in 1..Len(down') :
                     /\ Placed(down'[k], Len(received') + k)
                     /\ EndsUpload(down'[k], Len(received') + k)
                     /\ down'[k].kind # "item" => k = Len(down') /\ Len(up') = 0
      BY <1>7 DEF Downward
    <3> QED BY <1>2, <1>4, <1>5
  <2>4. CASE k \in 1..Len(down)
    BY <1>5, <2>1, <2>4
  <2>5. CASE k = Len(down) + 1
    BY <1>4, <1>5, <2>2, <2>3, <2>5
  <2> QED BY <1>3, <2>4, <2>5
<1>10. Upward'
  <2>1. \A k \in 1..(Len(up) - 1) :
          /\ k + 1 \in 1..Len(up)
          /\ Len(received) + Len(down') + k = Len(received) + Len(down) + (k + 1)
          /\ k + 1 = Len(up) => k = Len(up')
    BY <1>3, <1>4, <1>5
  <2>2. \A k \in 1..(Len(up) - 1) :
          /\ Placed(up'[k], Len(received) + Len(down') + k)
          /\ EndsUpload(up'[k], Len(received) + Len(down') + k)
          /\ up'[k].kind # "item" => k = Len(up')
    BY <1>4, <2>1 DEF InPlace, Upward
  <2> QED BY <1>2, <1>4, <1>7, <2>2 DEF Upward
<1>11. upload'.on => upload'.items = Len(received') + Len(down') + Len(up')
  BY <1>2, <1>3, <1>4, <1>5 DEF InPlace
<1> QED BY <1>1, <1>6, <1>8, <1>9, <1>10, <1>11 DEF InPlace

LEMMA CarryingStep ==
  ASSUME IInv, Carrying PROVE IInv'
<1> USE StreamAssumption
<1> DEFINE p == Len(received) + Len(down) + Len(up) + 1
<1>1. ASSUME Uploading
      PROVE  /\ n \in Stream /\ n \in 1..n
             /\ written[n] \in 0..Count /\ stamped[n] \in 0..Count /\ written[n] <= stamped[n]
             /\ upload.items \in 0..Count /\ upload.items <= written[n]
             /\ upload \in [items : 0..Count, on : BOOLEAN]
             /\ p = upload.items + 1
  BY <1>1 DEF IInv, Writers, Reader, InPlace, Uploading, Stream
<1>2. End("done") \in Message /\ End("error") \in Message
      /\ End("done").kind = "done" /\ End("error").kind = "error"
  BY DEF Message, End
<1>3. CASE UploadItem
  <2>1. Uploading /\ upload.items < written[n] /\ up' = Append(up, Item(upload.items + 1, stamped[n]))
        /\ upload' = [upload EXCEPT !.items = @ + 1] /\ delayed' = delayed
    BY <1>3 DEF UploadItem, writerVars
  <2>2. PICK q \in Int : q = upload.items + 1
    BY <1>1, <2>1
  <2>3. PICK t \in 1..Count : t = stamped[n]
    BY <1>1, <2>1
  <2>4. PICK m : m = Item(q, t)
    OBVIOUS
  <2>5. m \in Message /\ m.kind = "item" /\ m.item = q /\ m.stamp = t
    BY <1>1, <2>1, <2>2, <2>3, <2>4 DEF Item, Message
  <2>6. upload' \in [items : 0..Count, on : BOOLEAN] /\ upload'.items = q
    BY <1>1, <2>1, <2>2
  <2>7. ~delayed => t = Count
    BY <1>1, <2>1, <2>3 DEF IInv, Writers
  <2>8. q <= t
    BY <1>1, <2>1, <2>2, <2>3
  <2>9. Placed(m, q)' /\ EndsUpload(m, q)'
    BY <2>1, <2>5, <2>6, <2>7, <2>8 DEF Placed, EndsUpload
  <2> HIDE DEF p
  <2>10. /\ up' = Append(up, m) /\ q = p
         /\ upload'.items >= upload.items /\ upload'.items <= written[n]
    BY <1>1, <2>1, <2>2, <2>3, <2>4, <2>6
  <2> QED BY <1>3, <2>1, <2>5, <2>6, <2>9, <2>10, UploadStep DEF UploadItem, p
<1>4. ASSUME Uploading, NEW m \in {End("done"), End("error")}, up' = Append(up, m),
             upload' = [upload EXCEPT !.on = FALSE],
             m = End("done") => upload.items = Count,
             UNCHANGED <<send, n, received, missing, writerVars, down, link>>
      PROVE  IInv'
  <2>1. PICK q \in Int : q = p
    BY <1>1, <1>4
  <2>2. /\ upload' \in [items : 0..Count, on : BOOLEAN]
        /\ upload'.items = upload.items /\ ~upload'.on
    BY <1>1, <1>4
  <2>3. m \in Message /\ m.kind # "item" /\ (m.kind = "done" => q = Count + 1)
    BY <1>1, <1>2, <1>4, <2>1
  <2>4. Placed(m, q)' /\ EndsUpload(m, q)'
    BY <2>2, <2>3 DEF Placed, EndsUpload
  <2>5. upload'.items >= upload.items /\ upload'.items <= written[n]
    BY <1>1, <1>4, <2>2
  <2> QED BY <1>4, <2>1, <2>2, <2>3, <2>4, <2>5, UploadStep
<1>5. CASE UploadThrows \/ UploadEnds
  <2>1. CASE UploadThrows
    BY <1>2, <1>4, <2>1 DEF UploadThrows
  <2>2. CASE UploadEnds
    <3>1. Uploading /\ upload.items = Count
      BY <1>1, <2>2 DEF UploadEnds, IInv, Writers
    <3> QED BY <1>4, <2>2, <3>1 DEF UploadEnds
  <2> QED BY <1>5, <2>1, <2>2
<1>6. CASE Relay
  BY <1>6, RelayStep
<1> QED BY <1>3, <1>5, <1>6 DEF Carrying

\* Nothing of the stream but its link depends on the rest of the adapter.
LEMMA LinkStep ==
  ASSUME IInv, link' \in {link, "lost"},
         UNCHANGED <<delayed, send, n, stamped, written, counted, completed, received,
                     missing, upload, up, down>>
  PROVE  IInv'
BY DEF IInv, Writers, Reader, InPlace, Arrived, Downward, Upward, Placed, EndsUpload

LEMMA StepInvariant == IInv /\ [StreamNext]_<<hubVars, streamVars>> => IInv'
<1> SUFFICES ASSUME IInv, [StreamNext]_<<hubVars, streamVars>> PROVE IInv'
  OBVIOUS
<1>1. CASE HubStep
  BY <1>1, LinkStep DEF HubStep, writerVars
<1>2. CASE Begin
  BY <1>2, BeginStep
<1>3. CASE \E s \in 1..n : Writing(s)
  BY <1>3, WritingStep
<1>4. CASE Asking
  BY <1>4, AskingStep
<1>5. CASE Reading
  BY <1>5, ReadingStep
<1>6. CASE ReadTimesOut
  BY <1>6, DropsStep DEF ReadTimesOut
<1>7. CASE Carrying
  BY <1>7, CarryingStep
<1>8. CASE UNCHANGED <<hubVars, streamVars>>
  BY <1>8, LinkStep DEF streamVars
<1> QED BY <1>1, <1>2, <1>3, <1>4, <1>5, <1>6, <1>7, <1>8 DEF StreamNext

LEMMA Invariance == StreamSpec => []IInv
  BY InitInvariant, StepInvariant, PTL DEF StreamSpec

-----------------------------------------------------------------------------
\* The counts of a stream keep their order, for any number of streams.
THEOREM StreamTypeCorrect == StreamSpec => []StreamTypeOK
<1>1. IInv => StreamTypeOK
  <2> SUFFICES ASSUME IInv PROVE StreamTypeOK
    OBVIOUS
  <2> USE StreamAssumption
  <2>1. \A s \in Stream : /\ stamped[s] \in 0..Count
                         /\ written[s] \in 0..stamped[s]
                         /\ counted[s] \in 0..written[s]
    BY DEF IInv, Writers
  <2>2. completed \subseteq {s \in 1..n : counted[s] = Count}
    BY DEF IInv, Writers
  <2>3. missing \in 0..n
    BY DEF IInv, Writers, Reader
  <2>4. ASSUME send = "reading" PROVE Len(received) <= upload.items
    <3>1. Len(received) \in Nat /\ upload.items \in Nat
      BY DEF IInv, Reader
    <3>2. CASE Len(received) > 0
      <4>1. Len(received) \in 1..Len(received)
        BY <3>1, <3>2
      <4> QED BY <4>1 DEF IInv, InPlace, Arrived, Placed
    <3> QED BY <3>1, <3>2
  <2> QED BY <2>1, <2>2, <2>3, <2>4 DEF IInv, Writers, Reader, StreamTypeOK
<1> QED BY <1>1, Invariance, PTL

\* A stream that ends without an error was read whole and in order.
THEOREM StreamsAreWhole == StreamSpec => []WholeOrFailed
<1>1. IInv => WholeOrFailed
  BY DEF IInv, Reader, InPlace, Arrived, Placed, WholeOrFailed
<1> QED BY <1>1, Invariance, PTL

\* No latency is taken from before its item was written.
THEOREM StampsInTime == StreamSpec => []StampedInTime
<1>1. IInv => StampedInTime
  <2> SUFFICES ASSUME IInv, NEW k \in DOMAIN received
               PROVE  /\ received[k].stamp \in received[k].item..Count
                      /\ ~delayed => received[k].stamp = Count
    BY DEF StampedInTime
  <2>1. received \in Seq(Message) /\ k \in 1..Len(received) /\ received[k] \in Message
    BY DEF IInv, Reader
  <2>2. received[k].kind = "item" /\ Placed(received[k], k)
    BY <2>1 DEF IInv, InPlace, Arrived
  <2>3. received[k].stamp \in 1..Count
    BY <2>1, <2>2 DEF Message, End
  <2> QED BY <2>2, <2>3 DEF Placed
<1> QED BY <1>1, Invariance, PTL
=============================================================================
