-------------------------- MODULE WriteQueueProofs --------------------------
(***************************************************************************)
(* The chain of writes when only the network thread sends, as it does to   *)
(* answer commands: one write at a time, and the messages in order, for    *)
(* any number of messages.                                                 *)
(*                                                                         *)
(* The steps are proved under Exclusive: at most one thread is inside      *)
(* send_raw, and none while handle_write is between its pop and its look   *)
(* at the queue.  The network thread alone keeps it, since it sends        *)
(* between two handlers.  No lock keeps it when other threads send, and    *)
(* nothing is proved of them: the run of MCStalledSignal.cfg shows what    *)
(* they do to the chain.                                                   *)
(***************************************************************************)
EXTENDS WriteQueue, FiniteSetTheorems, TLAPS

Exclusive ==
    /\ \A s, t \in Senders : sender[s] # Idle /\ sender[t] # Idle => s = t
    /\ popped => \A s \in Senders : sender[s] = Idle

\* The queue holds the newest messages, in the order of the sends.
QueueIsTail ==
    \A i \in DOMAIN message_queue :
        message_queue[i] + Len(message_queue) = sent + i

\* Who is to write the front of the queue: a write under way is of the front,
\* and a sender that saw an empty queue starts the write itself.
OneWriter ==
    /\ OneWriteAtATime
    /\ writes # <<>> => /\ ~popped
                        /\ message_queue # <<>>
                        /\ writes[1].msg = Head(message_queue)
    /\ \A s \in Senders :
          /\ sender[s].pc = "tested" /\ ~sender[s].write_in_progress
                => message_queue = <<>>
          /\ sender[s].pc = "pushed"
                => Len(message_queue) = 1 /\ writes = <<>>

\* The front of the queue is on the wire when its write is done and its handler
\* has not run.
FrontWritten == IF writes # <<>> /\ writes[1].state = "done" THEN 1 ELSE 0

\* The wire has what left the queue, and perhaps its front.
WireIsRest == Len(wire) + Len(message_queue) = sent + FrontWritten

\* The bound on the sends leaves room for the one that was tested.
RoomForTested ==
    \A s \in Senders : sender[s].pc = "tested" => sent + 1 <= MaxSends

Inv ==
    /\ WriteTypeOK
    /\ RoomForTested
    /\ ~broken
    /\ QueueIsTail
    /\ OneWriter
    /\ WireIsRest
    /\ WireInOrder

-----------------------------------------------------------------------------
(* Sequences.                                                              *)

\* Removing the only element leaves nothing.
LEMMA RemoveOnly ==
    ASSUME NEW S, NEW q \in Seq(S), Len(q) <= 1, NEW i \in DOMAIN q
    PROVE  RemoveAt(q, i) = <<>>
<1>1. i = 1 /\ Len(q) = 1
  <2>1. Len(q) \in Nat /\ DOMAIN q = 1 .. Len(q)
    OBVIOUS
  <2> QED
    BY <2>1
<1>2. ASSUME NEW a \in Nat, NEW b \in Nat, b < a PROVE SubSeq(q, a, b) = <<>>
  BY <1>2
<1>3. RemoveAt(q, i) = <<>> \o <<>>
  BY <1>1, <1>2 DEF RemoveAt
<1> QED
  BY <1>3

\* What Append and Tail do to the positions.
LEMMA AppendFacts ==
    ASSUME NEW S, NEW q \in Seq(S), NEW e
    PROVE  /\ Len(Append(q, e)) = Len(q) + 1
           /\ \A i \in DOMAIN q : Append(q, e)[i] = q[i]
           /\ Append(q, e)[Len(q) + 1] = e
           /\ DOMAIN Append(q, e) = 1 .. Len(q) + 1
  OBVIOUS

LEMMA TailFacts ==
    ASSUME NEW S, NEW q \in Seq(S), q # <<>>
    PROVE  /\ Tail(q) \in Seq(S)
           /\ Len(q) \in Nat \ {0}
           /\ Len(Tail(q)) + 1 = Len(q)
           /\ \A i \in DOMAIN Tail(q) : i + 1 \in DOMAIN q /\ Tail(q)[i] = q[i + 1]
           /\ Head(q) = q[1]
           /\ Head(q) \in S
           /\ 1 \in DOMAIN q
  OBVIOUS

\* A sequence over a set is one over any larger set.
LEMMA SeqGrows ==
    ASSUME NEW S, NEW T, S \subseteq T, NEW q \in Seq(S)
    PROVE  q \in Seq(T)
  OBVIOUS

-----------------------------------------------------------------------------

LEMMA InitInv == WriteInit => Inv
<1> SUFFICES ASSUME WriteInit PROVE Inv
  OBVIOUS
<1> USE WriteQueueAssumption
    DEF WriteInit, Idle
<1>1. WriteTypeOK
  <2>1. sent \in 0 .. MaxSends
    OBVIOUS
  <2>2. sender \in [Senders -> {Idle} \cup
                       [pc : {"tested", "pushed"}, write_in_progress : BOOLEAN]]
    OBVIOUS
  <2>3. /\ message_queue \in Seq(Message)
        /\ writes \in Seq([msg : Message, state : {"blocked", "done", "failed"}])
        /\ wire \in Seq([msg : Message, intact : BOOLEAN])
    OBVIOUS
  <2> QED
    BY <2>1, <2>2, <2>3 DEF WriteTypeOK
<1>2. QueueIsTail /\ WireInOrder
  BY DEF QueueIsTail, WireInOrder
<1>3. OneWriter /\ RoomForTested
  BY DEF OneWriter, OneWriteAtATime, RoomForTested
<1>4. WireIsRest
  BY DEF WireIsRest, FrontWritten
<1> QED
  BY <1>1, <1>2, <1>3, <1>4 DEF Inv

\* The front of a queue that is not empty is the oldest message it holds.
LEMMA FrontOfQueue ==
    ASSUME WriteTypeOK, QueueIsTail, message_queue # <<>>
    PROVE  /\ Head(message_queue) \in Message
           /\ Head(message_queue) + Len(message_queue) = sent + 1
<1>1. Head(message_queue) = message_queue[1] /\ 1 \in DOMAIN message_queue
  BY TailFacts DEF WriteTypeOK
<1>2. Head(message_queue) \in Message
  BY TailFacts DEF WriteTypeOK
<1>3. message_queue[1] + Len(message_queue) = sent + 1
  BY <1>1 DEF QueueIsTail
<1> QED
  BY <1>1, <1>2, <1>3

\* One more message goes on the wire in its place.
LEMMA WireGrows ==
    ASSUME WriteTypeOK, WireInOrder, NEW m \in Message, NEW b \in BOOLEAN,
           m = Len(wire) + 1, wire' = Append(wire, [msg |-> m, intact |-> b]),
           sent' = sent
    PROVE  /\ wire' \in Seq([msg : Message', intact : BOOLEAN])
           /\ WireInOrder'
           /\ Len(wire') = Len(wire) + 1
<1> DEFINE e == [msg |-> m, intact |-> b]
           S == [msg : Message, intact : BOOLEAN]
<1>1. wire \in Seq(S) /\ e \in S /\ Message' = Message
  BY DEF WriteTypeOK, Message
<1>2. Append(wire, e) \in Seq(S)
  BY <1>1
<1>3. /\ Len(wire') = Len(wire) + 1
      /\ \A i \in DOMAIN wire : wire'[i] = wire[i]
      /\ wire'[Len(wire) + 1] = e
      /\ DOMAIN wire' = 1 .. Len(wire) + 1
  BY <1>1, AppendFacts
<1>4. DOMAIN wire = 1 .. Len(wire) /\ Len(wire) \in Nat
  BY <1>1
<1>5. ASSUME NEW i \in DOMAIN wire' PROVE wire'[i].msg = i
  <2>1. CASE i \in DOMAIN wire
    BY <2>1, <1>3 DEF WireInOrder
  <2>2. CASE i = Len(wire) + 1
    BY <2>2, <1>3
  <2> QED
    BY <2>1, <2>2, <1>3, <1>4
<1> QED
  BY <1>1, <1>2, <1>3, <1>5 DEF WireInOrder

-----------------------------------------------------------------------------

\* async_write of the front of a queue whose front is not on the wire, with no
\* other write under way: the write reaches the socket at once, or blocks, or
\* fails because the socket is closed.
LEMMA WriteStarts ==
    ASSUME Inv, Write, message_queue # <<>>, writes = <<>>,
           UNCHANGED <<sent, message_queue>>
    PROVE  /\ broken' = FALSE
           /\ writes' \in Seq([msg : Message', state : {"blocked", "done", "failed"}])
           /\ wire' \in Seq([msg : Message', intact : BOOLEAN])
           /\ Len(writes') = 1 /\ writes' # <<>>
           /\ writes'[1].msg = Head(message_queue')
           /\ WireIsRest' /\ WireInOrder'
<1> DEFINE m == Head(message_queue)
<1>1. m \in Message /\ m + Len(message_queue) = sent + 1 /\ Message' = Message
  BY FrontOfQueue DEF Inv, Message
<1>2. Len(wire) + Len(message_queue) = sent
  BY DEF Inv, WireIsRest, FrontWritten, WriteTypeOK
<1>3. Len(wire) \in Nat /\ Len(message_queue) \in Nat /\ sent \in Nat /\ m \in Nat
  BY <1>1 DEF Inv, WriteTypeOK, Message
<1>4. m = Len(wire) + 1
  BY <1>1, <1>2, <1>3
<1>5. PICK st \in {"blocked", "done", "failed"} :
        /\ broken' = FALSE
        /\ writes' = Append(writes, [msg |-> m, state |-> st])
        /\ \/ st = "done" /\ wire' = Append(wire, [msg |-> m, intact |-> TRUE])
           \/ st # "done" /\ wire' = wire
  BY DEF Write, Inv, WriteTypeOK
<1>6. writes' = <<[msg |-> m, state |-> st]>>
  BY <1>5
<1>7. /\ writes' \in Seq([msg : Message', state : {"blocked", "done", "failed"}])
      /\ Len(writes') = 1 /\ writes' # <<>>
      /\ writes'[1] = [msg |-> m, state |-> st]
  BY <1>1, <1>6
<1>8. CASE st = "done"
  <2>1. wire' = Append(wire, [msg |-> m, intact |-> TRUE])
    BY <1>5, <1>8
  <2>2. /\ wire' \in Seq([msg : Message', intact : BOOLEAN])
        /\ WireInOrder'
        /\ Len(wire') = Len(wire) + 1
    BY <2>1, <1>1, <1>4, WireGrows DEF Inv
  <2>3. FrontWritten' = 1
    BY <1>7, <1>8 DEF FrontWritten
  <2>4. WireIsRest'
    BY <2>2, <2>3, <1>2, <1>3 DEF WireIsRest
  <2> QED
    BY <2>2, <2>4, <1>5, <1>7
<1>9. CASE st # "done"
  <2>1. wire' = wire
    BY <1>5, <1>9
  <2>2. wire' \in Seq([msg : Message', intact : BOOLEAN]) /\ WireInOrder'
    BY <2>1, <1>1 DEF Inv, WriteTypeOK, WireInOrder
  <2>3. FrontWritten' = 0
    BY <1>7, <1>9 DEF FrontWritten
  <2>4. WireIsRest'
    BY <2>1, <2>2, <2>3, <1>2, <1>3 DEF WireIsRest
  <2> QED
    BY <2>2, <2>4, <1>5, <1>7
<1> QED
  BY <1>8, <1>9

\* There is one write under way, if any.
LEMMA OnlyWrite ==
    ASSUME Inv, NEW i \in DOMAIN writes
    PROVE  /\ i = 1 /\ Len(writes) = 1 /\ writes # <<>>
           /\ writes \in Seq([msg : Message, state : {"blocked", "done", "failed"}])
           /\ writes[1] \in [msg : Message, state : {"blocked", "done", "failed"}]
<1> DEFINE S == [msg : Message, state : {"blocked", "done", "failed"}]
<1>1. writes \in Seq(S) /\ Len(writes) <= 1
  BY DEF Inv, WriteTypeOK, OneWriter, OneWriteAtATime
<1> HIDE DEF S
<1>2. Len(writes) \in Nat /\ DOMAIN writes = 1 .. Len(writes)
  BY <1>1
<1>3. i = 1 /\ Len(writes) = 1
  BY <1>1, <1>2
<1>4. writes[1] \in S /\ writes # <<>>
  BY <1>1, <1>3
<1> QED
  BY <1>1, <1>3, <1>4 DEF S

\* send_raw's test of the queue.
LEMMA TestStep ==
    ASSUME Inv, Exclusive, Exclusive', NEW s \in Senders, TestQueue(s)
    PROVE  Inv'
<1>1. WriteTypeOK'
  BY DEF Inv, TestQueue, WriteTypeOK, Senders, Message, Idle
<1>2. UNCHANGED <<sent, message_queue, popped, writes, wire, broken>>
  BY DEF TestQueue
<1>3. /\ \A t \in Senders : t # s => sender'[t] = sender[t]
      /\ sender'[s] = [pc |-> "tested", write_in_progress |-> message_queue # <<>>]
      /\ sender[s] = Idle
  BY DEF TestQueue, Inv, WriteTypeOK
<1>4. OneWriter'
  <2>1. /\ sender'[s].pc # "pushed"
        /\ ~sender'[s].write_in_progress => message_queue = <<>>
    <3>1. sender'[s].pc = "tested"
      BY <1>3
    <3> DEFINE w == message_queue # <<>>
    <3>2. sender'[s] = [pc |-> "tested", write_in_progress |-> w]
      BY <1>3
    <3> HIDE DEF w
    <3>3. sender'[s].write_in_progress = w
      BY <3>2
    <3> QED
      BY <3>1, <3>3 DEF w
  <2>2. \A t \in Senders :
          /\ sender'[t].pc = "tested" /\ ~sender'[t].write_in_progress
                => message_queue = <<>>
          /\ sender'[t].pc = "pushed"
                => Len(message_queue) = 1 /\ writes = <<>>
    BY <2>1, <1>3 DEF Inv, OneWriter
  <2> QED
    BY <2>2, <1>2 DEF Inv, OneWriter, OneWriteAtATime, Senders
<1>5. RoomForTested'
  <2>1. \A t \in Senders : sender[t] = Idle
    BY <1>3 DEF Exclusive, Idle
  <2>2. {t \in Senders : sender[t].pc = "tested"} = {}
    BY <2>1 DEF Idle
  <2>3. Begun = sent
    <3>1. Cardinality({t \in Senders : sender[t].pc = "tested"}) = 0
      BY <2>2, FS_EmptySet
    <3>2. Begun = sent + 0
      BY <3>1 DEF Begun
    <3> QED
      BY <3>2 DEF Inv, WriteTypeOK
  <2>4. sent + 1 <= MaxSends
    BY <2>3, WriteQueueAssumption DEF TestQueue, Inv, WriteTypeOK
  <2> QED
    BY <2>4, <1>2 DEF RoomForTested
<1> QED
  BY <1>1, <1>2, <1>4, <1>5 DEF Inv, QueueIsTail, WireIsRest, FrontWritten, WireInOrder

\* push_back: the sender that saw an empty queue finds its message alone there.
LEMMA PushStep ==
    ASSUME Inv, Exclusive, NEW s \in Senders, Push(s)
    PROVE  Inv'
<1>1. /\ sent \in Nat /\ message_queue \in Seq(Message) /\ Message \subseteq Message'
      /\ sent + 1 \in Message' /\ Len(message_queue) \in Nat
      /\ sent' = sent + 1 /\ sent + 1 <= MaxSends
      /\ UNCHANGED <<open, popped, writes, wire, broken>>
  BY DEF Inv, Push, WriteTypeOK, Message, RoomForTested
<1>2. /\ message_queue' \in Seq(Message')
      /\ Len(message_queue') = Len(message_queue) + 1
      /\ \A i \in DOMAIN message_queue : message_queue'[i] = message_queue[i]
      /\ message_queue'[Len(message_queue) + 1] = sent + 1
      /\ DOMAIN message_queue' = 1 .. Len(message_queue) + 1
      /\ DOMAIN message_queue = 1 .. Len(message_queue)
  <2>1. message_queue \in Seq(Message')
    BY <1>1
  <2>2. message_queue' = Append(message_queue, sent + 1)
    BY DEF Push
  <2>3. Append(message_queue, sent + 1) \in Seq(Message')
    BY <2>1, <1>1
  <2> QED
    BY <2>1, <2>2, <2>3, AppendFacts
<1>3. message_queue' # <<>>
  BY <1>1, <1>2
<1>4. \A t \in Senders : t # s => sender[t] = Idle /\ sender'[t] = Idle
  BY DEF Inv, Push, WriteTypeOK, Exclusive, Idle
<1>5. /\ sender'[s].pc # "tested"
      /\ sender'[s].pc = "pushed" => ~sender[s].write_in_progress
      /\ sender[s].pc = "tested"
  BY DEF Inv, Push, WriteTypeOK, Idle
<1>6. WriteTypeOK'
  <2>1. /\ writes' \in Seq([msg : Message', state : {"blocked", "done", "failed"}])
        /\ wire' \in Seq([msg : Message', intact : BOOLEAN])
    <3>1. /\ [msg : Message, state : {"blocked", "done", "failed"}]
                \subseteq [msg : Message', state : {"blocked", "done", "failed"}]
          /\ [msg : Message, intact : BOOLEAN] \subseteq [msg : Message', intact : BOOLEAN]
      BY <1>1
    <3> QED
      BY <3>1, <1>1, SeqGrows DEF Inv, WriteTypeOK
  <2>2. sender' \in [Senders -> {Idle} \cup
                       [pc : {"tested", "pushed"}, write_in_progress : BOOLEAN]]
    BY DEF Inv, Push, WriteTypeOK, Idle
  <2>3. sent' \in 0 .. MaxSends
    BY <1>1, WriteQueueAssumption
  <2> QED
    BY <2>1, <2>2, <2>3, <1>1, <1>2 DEF Inv, WriteTypeOK
<1>7. QueueIsTail'
  <2> SUFFICES ASSUME NEW i \in DOMAIN message_queue'
               PROVE  message_queue'[i] + Len(message_queue') = sent' + i
    BY DEF QueueIsTail
  <2>1. CASE i \in DOMAIN message_queue
    <3>1. message_queue[i] + Len(message_queue) = sent + i
      BY <2>1 DEF Inv, QueueIsTail
    <3>2. message_queue[i] \in Nat /\ i \in Nat /\ message_queue'[i] = message_queue[i]
      BY <2>1, <1>1, <1>2 DEF Message
    <3> QED
      BY <3>1, <3>2, <1>1, <1>2
  <2>2. CASE i = Len(message_queue) + 1
    BY <2>2, <1>1, <1>2
  <2> QED
    BY <2>1, <2>2, <1>1, <1>2
<1>8. OneWriter' /\ RoomForTested'
  <2>1. writes # <<>> => Head(message_queue') = Head(message_queue)
    <3> SUFFICES ASSUME message_queue # <<>>
                 PROVE  Head(message_queue') = Head(message_queue)
      BY DEF Inv, OneWriter
    <3>1. Head(message_queue) = message_queue[1] /\ 1 \in DOMAIN message_queue
      BY <1>1, TailFacts
    <3>2. Head(message_queue') = message_queue'[1]
      BY <1>2, <1>3, TailFacts
    <3> QED
      BY <3>1, <3>2, <1>2
  <2>2. sender'[s].pc = "pushed" => Len(message_queue') = 1 /\ writes = <<>>
    BY <1>2, <1>5 DEF Inv, OneWriter
  <2>3. \A t \in Senders : t # s => sender'[t].pc = "idle"
    BY <1>4 DEF Idle
  <2>4. OneWriter'
    BY <2>1, <2>2, <2>3, <1>1, <1>3, <1>5 DEF Inv, OneWriter, OneWriteAtATime, Senders
  <2> QED
    BY <2>4, <2>3, <1>5 DEF RoomForTested, Senders
<1>9. WireIsRest' /\ WireInOrder'
  <2>1. FrontWritten' = FrontWritten /\ FrontWritten \in Nat /\ Len(wire) \in Nat
    BY <1>1 DEF FrontWritten, Inv, WriteTypeOK
  <2>2. WireIsRest'
    BY <2>1, <1>1, <1>2 DEF Inv, WireIsRest
  <2> QED
    BY <2>2, <1>1 DEF Inv, WireInOrder
<1> QED
  BY <1>1, <1>6, <1>7, <1>8, <1>9 DEF Inv

\* The write that was put off for the push, by the sender of that message.
LEMMA StartStep ==
    ASSUME Inv, Exclusive, NEW s \in Senders, StartWrite(s)
    PROVE  Inv'
<1>1. /\ Write /\ UNCHANGED <<open, sent, message_queue, popped>>
      /\ sender[s] # Idle /\ ~popped
  BY DEF StartWrite, Idle, Exclusive
<1>2. Len(message_queue) = 1 /\ writes = <<>>
  BY DEF StartWrite, Inv, OneWriter
<1>3. message_queue # <<>>
  BY <1>2
<1>4. /\ broken' = FALSE
      /\ writes' \in Seq([msg : Message', state : {"blocked", "done", "failed"}])
      /\ wire' \in Seq([msg : Message', intact : BOOLEAN])
      /\ Len(writes') = 1 /\ writes' # <<>>
      /\ writes'[1].msg = Head(message_queue')
      /\ WireIsRest' /\ WireInOrder'
  BY <1>1, <1>2, <1>3, WriteStarts
<1>5. sender' = [sender EXCEPT ![s] = Idle]
  BY DEF StartWrite
<1>6. \A t \in Senders : sender'[t] = Idle
  BY <1>1, <1>5 DEF Exclusive, Inv, WriteTypeOK
<1>7. WriteTypeOK'
  <2>1. Message' = Message
    BY <1>1 DEF Message
  <2>2. broken' \in BOOLEAN
    BY <1>4
  <2>3. sender' \in [Senders -> {Idle} \cup
                       [pc : {"tested", "pushed"}, write_in_progress : BOOLEAN]]
    BY <1>5 DEF Inv, WriteTypeOK
  <2> QED
    BY <1>1, <1>4, <2>1, <2>2, <2>3 DEF Inv, WriteTypeOK
<1>8. OneWriter' /\ RoomForTested'
  BY <1>1, <1>3, <1>4, <1>6 DEF OneWriter, OneWriteAtATime, RoomForTested, Idle, Senders
<1> QED
  BY <1>1, <1>4, <1>7, <1>8 DEF Inv, QueueIsTail

\* The look at the queue after the pop starts the next write, or none is due.
LEMMA NextStep ==
    ASSUME Inv, Exclusive, WriteNext
    PROVE  Inv'
<1>1. UNCHANGED <<open, sent, message_queue, sender>> /\ popped' = FALSE /\ popped
  BY DEF WriteNext, Inv, WriteTypeOK
<1>2. writes = <<>> /\ \A s \in Senders : sender[s] = Idle
  BY <1>1 DEF Inv, OneWriter, Exclusive
<1>3. QueueIsTail' /\ RoomForTested'
  BY <1>1 DEF Inv, QueueIsTail, RoomForTested, Senders
<1>4. CASE message_queue = <<>>
  BY <1>1, <1>2, <1>3, <1>4
     DEF WriteNext, Inv, WriteTypeOK, Message, OneWriter, OneWriteAtATime, WireIsRest,
         FrontWritten, WireInOrder, Senders
<1>5. CASE message_queue # <<>>
  <2>1. /\ broken' = FALSE
        /\ writes' \in Seq([msg : Message', state : {"blocked", "done", "failed"}])
        /\ wire' \in Seq([msg : Message', intact : BOOLEAN])
        /\ Len(writes') = 1 /\ writes' # <<>>
        /\ writes'[1].msg = Head(message_queue')
        /\ WireIsRest' /\ WireInOrder'
    BY <1>1, <1>2, <1>5, WriteStarts DEF WriteNext
  <2>2. WriteTypeOK'
    <3>1. Message' = Message /\ popped' \in BOOLEAN /\ broken' \in BOOLEAN
      BY <1>1, <2>1 DEF Message, WriteNext
    <3> QED
      BY <1>1, <2>1, <3>1 DEF Inv, WriteTypeOK
  <2>3. OneWriter'
    BY <1>1, <1>2, <1>5, <2>1 DEF OneWriter, OneWriteAtATime, Idle, Senders
  <2> QED
    BY <2>1, <2>2, <2>3, <1>3 DEF Inv
<1> QED
  BY <1>4, <1>5

\* A blocked write goes through, intact or not: it is of the front of the queue.
LEMMA FlushStep ==
    ASSUME Inv, Flush
    PROVE  Inv'
<1>1. UNCHANGED <<open, sent, message_queue, sender, popped, broken>>
  BY DEF Flush
<1>2. PICK i \in DOMAIN writes, intact \in BOOLEAN :
        /\ writes[i].state = "blocked"
        /\ wire' = Append(wire, [msg |-> writes[i].msg, intact |-> intact])
        /\ writes' = [writes EXCEPT ![i].state = "done"]
  BY DEF Flush
<1>3. Len(writes) = 1 /\ i = 1 /\ writes # <<>>
  BY <1>2, OnlyWrite
<1>4. /\ writes[1] \in [msg : Message, state : {"blocked", "done", "failed"}]
      /\ Message' = Message
  BY <1>1, <1>2, OnlyWrite DEF Message
<1>5. /\ writes' \in Seq([msg : Message, state : {"blocked", "done", "failed"}])
      /\ Len(writes') = 1
      /\ writes' # <<>>
      /\ writes'[1].state = "done" /\ writes'[1].msg = writes[1].msg
  <2>1. writes' \in Seq([msg : Message, state : {"blocked", "done", "failed"}])
    BY <1>2, <1>3, <1>4 DEF Inv, WriteTypeOK
  <2>2. Len(writes') = 1
    BY <1>2, <1>3, <2>1 DEF Inv, WriteTypeOK
  <2>3. writes' # <<>>
    BY <2>1, <2>2
  <2> QED
    BY <2>1, <2>2, <2>3, <1>2, <1>3, <1>4 DEF Inv, WriteTypeOK
<1>6. message_queue # <<>> /\ ~popped /\ writes[1].msg = Head(message_queue)
  BY <1>3 DEF Inv, OneWriter
<1>7. /\ Head(message_queue) \in Message
      /\ Head(message_queue) + Len(message_queue) = sent + 1
  BY <1>6, FrontOfQueue DEF Inv
<1>8. Len(wire) + Len(message_queue) = sent
  BY <1>2, <1>3 DEF Inv, WireIsRest, FrontWritten, WriteTypeOK
<1>9. Len(wire) \in Nat /\ Len(message_queue) \in Nat /\ sent \in Nat
      /\ Head(message_queue) \in Nat
  BY <1>7 DEF Inv, WriteTypeOK, Message
<1>10. Head(message_queue) = Len(wire) + 1
  BY <1>7, <1>8, <1>9
<1>11. wire' = Append(wire, [msg |-> Head(message_queue), intact |-> intact])
  BY <1>2, <1>3, <1>6
<1>12. /\ wire' \in Seq([msg : Message', intact : BOOLEAN])
       /\ WireInOrder'
       /\ Len(wire') = Len(wire) + 1
  BY <1>1, <1>7, <1>10, <1>11, WireGrows DEF Inv
<1>13. WireIsRest'
  BY <1>1, <1>5, <1>8, <1>9, <1>12 DEF WireIsRest, FrontWritten
<1>14. WriteTypeOK'
  BY <1>1, <1>4, <1>5, <1>12 DEF Inv, WriteTypeOK
<1>15. OneWriter'
  BY <1>1, <1>3, <1>5, <1>6 DEF Inv, OneWriter, OneWriteAtATime, Senders
<1> QED
  BY <1>1, <1>12, <1>13, <1>14, <1>15 DEF Inv, QueueIsTail, RoomForTested, Senders

\* The handler of a write that is done pops the message that was written.
LEMMA HandleStep ==
    ASSUME Inv, HandleWrite
    PROVE  Inv'
<1>1. UNCHANGED <<open, sent, sender, wire>>
  BY DEF HandleWrite
<1>2. PICK i \in DOMAIN writes :
        writes[i].state = "done" /\ writes' = RemoveAt(writes, i)
  BY DEF HandleWrite
<1>3. Len(writes) = 1 /\ i = 1 /\ writes # <<>>
  BY <1>2, OnlyWrite
<1>4. writes' = <<>>
  <2> DEFINE S == [msg : Message, state : {"blocked", "done", "failed"}]
  <2>1. writes \in Seq(S) /\ Len(writes) <= 1
    BY <1>3 DEF Inv, WriteTypeOK
  <2> HIDE DEF S
  <2> QED
    BY <2>1, <1>2, RemoveOnly
<1>5. message_queue # <<>>
  BY <1>3 DEF Inv, OneWriter
<1>6. /\ message_queue' = Tail(message_queue)
      /\ popped' = TRUE
      /\ UNCHANGED broken
  BY <1>5 DEF HandleWrite
<1>7. /\ Len(message_queue) \in Nat /\ sent \in Nat /\ Message' = Message
      /\ message_queue \in Seq(Message) /\ Len(wire) \in Nat
  BY <1>1 DEF Inv, WriteTypeOK, Message
<1>8. /\ message_queue' \in Seq(Message)
      /\ Len(message_queue') + 1 = Len(message_queue)
      /\ Len(message_queue') \in Nat
      /\ \A j \in DOMAIN message_queue' :
            /\ j + 1 \in DOMAIN message_queue
            /\ message_queue'[j] = message_queue[j + 1]
            /\ j \in Nat
  <2>1. message_queue' \in Seq(Message)
    BY <1>5, <1>6, <1>7, TailFacts
  <2>2. \A j \in DOMAIN message_queue' : j \in Nat
    BY <2>1
  <2> QED
    BY <2>1, <2>2, <1>5, <1>6, <1>7, TailFacts
<1>9. WriteTypeOK'
  <2>1. writes' \in Seq([msg : Message', state : {"blocked", "done", "failed"}])
    BY <1>4
  <2> QED
    BY <2>1, <1>1, <1>6, <1>7, <1>8 DEF Inv, WriteTypeOK
<1>10. QueueIsTail'
  <2> SUFFICES ASSUME NEW j \in DOMAIN message_queue'
               PROVE  message_queue'[j] + Len(message_queue') = sent' + j
    BY DEF QueueIsTail
  <2>1. message_queue[j + 1] + Len(message_queue) = sent + (j + 1)
    BY <1>8 DEF Inv, QueueIsTail
  <2>2. message_queue'[j] = message_queue[j + 1] /\ message_queue[j + 1] \in Nat
    BY <1>7, <1>8 DEF Message
  <2>3. /\ sent' = sent /\ sent \in Nat /\ j \in Nat
        /\ Len(message_queue') + 1 = Len(message_queue)
        /\ Len(message_queue') \in Nat
    BY <1>1, <1>7, <1>8
  <2>4. message_queue'[j] + (Len(message_queue') + 1) = sent + (j + 1)
    BY <2>1, <2>2, <2>3
  <2> DEFINE x == message_queue'[j]
             k == Len(message_queue')
  <2>5. x \in Nat /\ k \in Nat /\ x + (k + 1) = sent + (j + 1) /\ sent' = sent
    BY <2>2, <2>3, <2>4
  <2>6. sent \in Nat /\ j \in Nat
    BY <2>3
  <2> HIDE DEF x, k
  <2>7. x + k = sent + j
    BY <2>5, <2>6
  <2> QED
    BY <2>5, <2>7 DEF x, k
<1>11. OneWriter'
  <2>1. \A s \in Senders : sender[s].pc # "pushed"
    BY <1>3 DEF Inv, OneWriter
  <2>2. \A s \in Senders :
          sender[s].pc = "tested" => sender[s].write_in_progress
    BY <1>5 DEF Inv, OneWriter
  <2> QED
    BY <2>1, <2>2, <1>1, <1>4 DEF OneWriter, OneWriteAtATime, Senders
<1>12. WireIsRest'
  <2>1. FrontWritten = 1 /\ FrontWritten' = 0
    BY <1>2, <1>3, <1>4 DEF FrontWritten
  <2> QED
    BY <2>1, <1>1, <1>7, <1>8 DEF Inv, WireIsRest
<1> QED
  BY <1>1, <1>6, <1>9, <1>10, <1>11, <1>12
     DEF Inv, WireInOrder, RoomForTested, Senders

\* The handler of a write that failed leaves the queue as it is.
LEMMA ErrorStep ==
    ASSUME Inv, HandleWriteError
    PROVE  Inv'
<1>1. UNCHANGED <<open, sent, message_queue, sender, popped, wire, broken>>
  BY DEF HandleWriteError
<1>2. PICK i \in DOMAIN writes :
        writes[i].state = "failed" /\ writes' = RemoveAt(writes, i)
  BY DEF HandleWriteError
<1>3. Len(writes) = 1 /\ i = 1 /\ writes # <<>>
  BY <1>2, OnlyWrite
<1>4. writes' = <<>>
  <2> DEFINE S == [msg : Message, state : {"blocked", "done", "failed"}]
  <2>1. writes \in Seq(S) /\ Len(writes) <= 1
    BY <1>3 DEF Inv, WriteTypeOK
  <2> HIDE DEF S
  <2> QED
    BY <2>1, <1>2, RemoveOnly
<1>5. WriteTypeOK'
  <2>1. /\ Message' = Message
        /\ writes' \in Seq([msg : Message', state : {"blocked", "done", "failed"}])
    BY <1>1, <1>4 DEF Message
  <2> QED
    BY <2>1, <1>1 DEF Inv, WriteTypeOK
<1>6. OneWriter'
  BY <1>1, <1>3, <1>4 DEF Inv, OneWriter, OneWriteAtATime, Senders
<1>7. FrontWritten' = FrontWritten
  BY <1>2, <1>3, <1>4 DEF FrontWritten
<1> QED
  BY <1>1, <1>5, <1>6, <1>7
     DEF Inv, QueueIsTail, WireIsRest, WireInOrder, RoomForTested, Senders

\* close() aborts the write that is blocked.
LEMMA CloseStep ==
    ASSUME Inv, Close
    PROVE  Inv'
<1>1. UNCHANGED <<sent, message_queue, sender, popped, wire, broken>> /\ open' = FALSE
  BY DEF Close
<1>2. writes' = [i \in DOMAIN writes |->
         IF writes[i].state = "blocked" THEN [writes[i] EXCEPT !.state = "failed"]
         ELSE writes[i]]
  BY DEF Close
<1>3. CASE writes = <<>>
  <2>1. writes' = <<>>
    BY <1>2, <1>3
  <2> QED
    BY <2>1, <1>1, <1>3
       DEF Inv, WriteTypeOK, Message, QueueIsTail, OneWriter, OneWriteAtATime, WireIsRest,
           FrontWritten, WireInOrder, RoomForTested, Senders
<1>4. CASE writes # <<>>
  <2> DEFINE S == [msg : Message, state : {"blocked", "done", "failed"}]
  <2>1. 1 \in DOMAIN writes
    BY <1>4 DEF Inv, WriteTypeOK
  <2>2. writes \in Seq(S) /\ Len(writes) = 1 /\ writes[1] \in S
    BY <2>1, OnlyWrite
  <2>3. /\ DOMAIN writes' = 1 .. 1
        /\ writes'[1] \in S
        /\ writes'[1].msg = writes[1].msg
        /\ writes'[1].state = "done" <=> writes[1].state = "done"
    BY <1>2, <2>1, <2>2
  <2>4. writes' = [i \in 1 .. 1 |-> writes'[1]]
    <3>1. DOMAIN writes = 1 .. 1
      BY <2>2
    <3> QED
      BY <1>2, <2>3, <3>1
  <2> HIDE DEF S
  <2>5. writes' \in Seq(S) /\ Len(writes') = 1 /\ writes' # <<>>
    <3> DEFINE e == writes'[1]
    <3>1. writes' = <<e>>
      BY <2>4
    <3> HIDE DEF e
    <3>2. <<e>> \in Seq(S)
      BY <2>3 DEF e
    <3> QED
      BY <3>1, <3>2
  <2>6. Message' = Message
    BY <1>1 DEF Message
  <2>7. WriteTypeOK'
    BY <1>1, <2>5, <2>6 DEF Inv, WriteTypeOK, S
  <2>8. OneWriter'
    BY <1>1, <1>4, <2>3, <2>5 DEF Inv, OneWriter, OneWriteAtATime, Senders
  <2>9. FrontWritten' = FrontWritten
    BY <1>4, <2>3, <2>5 DEF FrontWritten
  <2> QED
    BY <1>1, <2>7, <2>8, <2>9
       DEF Inv, QueueIsTail, WireIsRest, WireInOrder, RoomForTested, Senders
<1> QED
  BY <1>3, <1>4

-----------------------------------------------------------------------------

\* While no two threads meet in the queue, each step keeps the invariant.
LEMMA StepInv == Inv /\ Exclusive /\ Exclusive' /\ [WriteQueueNext]_writeVars => Inv'
<1> SUFFICES ASSUME Inv, Exclusive, Exclusive', [WriteQueueNext]_writeVars PROVE Inv'
  OBVIOUS
<1>1. ASSUME NEW s \in Senders, TestQueue(s) \/ Push(s) \/ StartWrite(s) PROVE Inv'
  BY <1>1, TestStep, PushStep, StartStep
<1>2. CASE UNCHANGED writeVars
  BY <1>2 DEF writeVars, Inv, WriteTypeOK, Message, QueueIsTail, OneWriter, OneWriteAtATime,
              WireIsRest, FrontWritten, WireInOrder, RoomForTested, Senders
<1> QED
  BY <1>1, <1>2, NextStep, FlushStep, HandleStep, ErrorStep, CloseStep DEF WriteQueueNext

LEMMA Invariance == WriteSpec /\ []Exclusive => []Inv
BY InitInv, StepInv, PTL DEF WriteSpec

\* The network thread does not meet itself: it sends between two handlers.
LEMMA AloneIsExclusive ==
    ASSUME Others = {}
    PROVE  WriteSpec => []Exclusive
<1> DEFINE I == sender \in [{Net} -> {Idle} \cup [pc : {"tested", "pushed"},
                                        write_in_progress : BOOLEAN]]
              /\ (popped => sender[Net] = Idle)
<1>1. Senders = {Net}
  BY DEF Senders
<1>2. WriteInit => I
  BY <1>1 DEF WriteInit
<1>3. I /\ [WriteQueueNext]_writeVars => I'
  <2> SUFFICES ASSUME I, [WriteQueueNext]_writeVars PROVE I'
    OBVIOUS
  <2>1. CASE TestQueue(Net)
    BY <2>1 DEF TestQueue, NetIdle
  <2>2. CASE Push(Net)
    BY <2>2 DEF Push, Idle
  <2>3. CASE StartWrite(Net)
    BY <2>3 DEF StartWrite
  <2>4. CASE HandleWrite
    BY <2>4 DEF HandleWrite, NetIdle
  <2>5. CASE WriteNext \/ Flush \/ HandleWriteError \/ Close \/ UNCHANGED writeVars
    BY <2>5 DEF WriteNext, Flush, HandleWriteError, Close, writeVars
  <2> QED
    BY <1>1, <2>1, <2>2, <2>3, <2>4, <2>5 DEF WriteQueueNext
<1>4. I => Exclusive
  BY <1>1 DEF Exclusive
<1> QED
  BY <1>2, <1>3, <1>4, PTL DEF WriteSpec

\* The queue of a connection that only its own commands write to keeps its type,
\* and nobody asks an empty deque for its front (device_connection.cc:87, 127).
THEOREM CommandsNeverBreak == ASSUME Others = {} PROVE WriteSpec => [](WriteTypeOK /\ ~broken)
BY AloneIsExclusive, Invariance, PTL DEF Inv

\* Such a connection has one write at a time, as async_write demands, by the two
\* tests of the queue (:66, :128).
THEOREM CommandsWriteAlone == ASSUME Others = {} PROVE WriteSpec => []OneWriteAtATime
BY AloneIsExclusive, Invariance, PTL DEF Inv, OneWriter

\* And the device is sent its replies once each and in order (:127-129).
THEOREM CommandsWriteInOrder == ASSUME Others = {} PROVE WriteSpec => []WireInOrder
BY AloneIsExclusive, Invariance, PTL DEF Inv

=============================================================================
