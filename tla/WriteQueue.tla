----------------------------- MODULE WriteQueue -----------------------------
(***************************************************************************)
(* The write side of one DeviceConnection (device_connection.cc:64-131):   *)
(* message_queue, a deque without a lock, and the chain of async_writes    *)
(* that empties it.  Commands send their replies from the network thread;  *)
(* PortState::set_value sends "set" to the device, through on_device_signal*)
(* (:240), from the HTTP thread or the JavaScript thread that runs it.     *)
(*                                                                         *)
(* async_write first tries to write at once.  What the socket does not     *)
(* take is written later from a buffer that died with the temporary string *)
(* it was built over (:90): what arrives then may be anything.             *)
(*                                                                         *)
(* Messages are named by the order in which they enter the queue.          *)
(***************************************************************************)
EXTENDS Naturals, FiniteSets, Sequences, SequencesExt

CONSTANTS
    Net,       \* the network thread
    Others,    \* the other threads that send
    MaxSends   \* bounds the messages of a behaviour

ASSUME WriteQueueAssumption == Net \notin Others /\ MaxSends \in Nat

VARIABLES
    open,            \* the socket is
    sent,            \* messages pushed so far
    message_queue,
    sender,          \* each thread inside send_raw
    popped,          \* handle_write has popped and not yet looked at the queue
    writes,          \* async_writes whose handler has not run
    wire,            \* what the device has been sent
    broken           \* front or pop_front on an empty deque

writeVars == <<open, sent, message_queue, sender, popped, writes, wire, broken>>

Senders == Others \cup {Net}

Idle == [pc |-> "idle"]

Message == 1 .. sent

WriteTypeOK ==
    /\ open \in BOOLEAN
    /\ sent \in 0 .. MaxSends
    /\ message_queue \in Seq(Message)
    /\ sender \in [Senders -> {Idle} \cup
                     [pc : {"tested", "pushed"}, write_in_progress : BOOLEAN]]
    /\ popped \in BOOLEAN
    /\ writes \in Seq([msg : Message, state : {"blocked", "done", "failed"}])
    /\ wire \in Seq([msg : Message, intact : BOOLEAN])
    /\ broken \in BOOLEAN

WriteInit ==
    /\ open = TRUE
    /\ sent = 0
    /\ message_queue = <<>>
    /\ sender = [s \in Senders |-> Idle]
    /\ popped = FALSE
    /\ writes = <<>>
    /\ wire = <<>>
    /\ broken = FALSE

\* Messages pushed and about to be.
Begun == sent + Cardinality({s \in Senders : sender[s].pc = "tested"})

\* The network thread is between two handlers.
NetIdle == sender[Net] = Idle /\ ~popped

-----------------------------------------------------------------------------

\* write(): an async_write of the front of the queue.
Write ==
    IF message_queue = <<>>
    THEN broken' = TRUE /\ UNCHANGED <<writes, wire>>
    ELSE LET m == Head(message_queue)
         IN  /\ UNCHANGED broken
             /\ \/ /\ open
                   /\ wire' = Append(wire, [msg |-> m, intact |-> TRUE])
                   /\ writes' = Append(writes, [msg |-> m, state |-> "done"])
                \/ /\ open
                   /\ writes' = Append(writes, [msg |-> m, state |-> "blocked"])
                   /\ UNCHANGED wire
                \/ /\ ~open
                   /\ writes' = Append(writes, [msg |-> m, state |-> "failed"])
                   /\ UNCHANGED wire

\* The socket takes a write that it did not take at once.
Flush ==
    /\ ~broken
    /\ \E i \in DOMAIN writes, intact \in BOOLEAN :
          /\ writes[i].state = "blocked"
          /\ wire' = Append(wire, [msg |-> writes[i].msg, intact |-> intact])
          /\ writes' = [writes EXCEPT ![i].state = "done"]
    /\ UNCHANGED <<open, sent, message_queue, sender, popped, broken>>

\* send_raw, write_in_progress = !message_queue.empty().
TestQueue(s) ==
    /\ ~broken
    /\ sender[s] = Idle
    /\ s = Net => NetIdle
    /\ Begun < MaxSends
    /\ sender' = [sender EXCEPT ![s] =
         [pc |-> "tested", write_in_progress |-> message_queue # <<>>]]
    /\ UNCHANGED <<open, sent, message_queue, popped, writes, wire, broken>>

\* Deviation: every send starts a write.
PushAndWrite(s) ==
    /\ ~broken
    /\ sender[s].pc = "tested"
    /\ sent' = sent + 1
    /\ message_queue' = Append(message_queue, sent + 1)
    /\ sender' = [sender EXCEPT ![s].pc = "pushed"]
    /\ UNCHANGED <<open, popped, writes, wire, broken>>

\* send_raw, push_back; a write in progress will see to the message.
Push(s) ==
    /\ ~broken
    /\ sender[s].pc = "tested"
    /\ sent' = sent + 1
    /\ message_queue' = Append(message_queue, sent + 1)
    /\ sender' = IF sender[s].write_in_progress
                 THEN [sender EXCEPT ![s] = Idle]
                 ELSE [sender EXCEPT ![s].pc = "pushed"]
    /\ UNCHANGED <<open, popped, writes, wire, broken>>

StartWrite(s) ==
    /\ ~broken
    /\ sender[s].pc = "pushed"
    /\ Write
    /\ sender' = [sender EXCEPT ![s] = Idle]
    /\ UNCHANGED <<open, sent, message_queue, popped>>

\* Deviation: the message that was written stays in the queue.
HandleWriteKeeps ==
    /\ ~broken
    /\ NetIdle
    /\ \E i \in DOMAIN writes :
          writes[i].state = "done" /\ writes' = RemoveAt(writes, i)
    /\ popped' = TRUE
    /\ UNCHANGED <<open, sent, message_queue, sender, wire, broken>>

\* handle_write without an error, up to pop_front.
HandleWrite ==
    /\ ~broken
    /\ NetIdle
    /\ \E i \in DOMAIN writes :
          writes[i].state = "done" /\ writes' = RemoveAt(writes, i)
    /\ IF message_queue = <<>>
       THEN broken' = TRUE /\ UNCHANGED <<message_queue, popped>>
       ELSE /\ message_queue' = Tail(message_queue)
            /\ popped' = TRUE
            /\ UNCHANGED broken
    /\ UNCHANGED <<open, sent, sender, wire>>

\* Deviation: the chain ends after one message.
WriteNoMore ==
    /\ ~broken
    /\ popped
    /\ popped' = FALSE
    /\ UNCHANGED <<open, sent, message_queue, sender, writes, wire, broken>>

\* handle_write, the next message if there is one.
WriteNext ==
    /\ ~broken
    /\ popped
    /\ popped' = FALSE
    /\ IF message_queue = <<>> THEN UNCHANGED <<writes, wire, broken>> ELSE Write
    /\ UNCHANGED <<open, sent, message_queue, sender>>

\* handle_write with an error returns: what is queued stays, and every later
\* send finds a write "in progress".
HandleWriteError ==
    /\ ~broken
    /\ NetIdle
    /\ \E i \in DOMAIN writes :
          writes[i].state = "failed" /\ writes' = RemoveAt(writes, i)
    /\ UNCHANGED <<open, sent, message_queue, sender, popped, wire, broken>>

\* close(): the socket is closed and the writes still blocked are aborted.
Close ==
    /\ ~broken
    /\ NetIdle
    /\ open
    /\ open' = FALSE
    /\ writes' = [i \in DOMAIN writes |->
         IF writes[i].state = "blocked" THEN [writes[i] EXCEPT !.state = "failed"]
         ELSE writes[i]]
    /\ UNCHANGED <<sent, message_queue, sender, popped, wire, broken>>

-----------------------------------------------------------------------------

WriteQueueNext ==
    \/ \E s \in Senders : TestQueue(s) \/ Push(s) \/ StartWrite(s)
    \/ Flush \/ HandleWrite \/ WriteNext \/ HandleWriteError \/ Close

WriteSpec == WriteInit /\ [][WriteQueueNext]_writeVars

\* Threads inside send_raw go on, io_service runs the handlers that are ready,
\* and the device, or the kernel in its name, takes what was written to it.
WriteFairness ==
    /\ \A s \in Senders : WF_writeVars(Push(s) \/ StartWrite(s))
    /\ WF_writeVars(Flush)
    /\ WF_writeVars(HandleWrite \/ WriteNext \/ HandleWriteError)

FairWriteSpec == WriteSpec /\ WriteFairness

-----------------------------------------------------------------------------
(* Properties.                                                             *)

\* The stream never has two writes under way, as async_write demands: the test
\* in send_raw and the one in handle_write agree on who starts the next.
OneWriteAtATime == Len(writes) <= 1

\* The device is sent each message once and in the order of the sends, whether
\* or not the buffer still held it when it was written.
WireInOrder == \A i \in DOMAIN wire : wire[i].msg = i

\* test/features/signals_test.cc:24-26, what another thread sends over the
\* device's signal is what the device reads: after the last send, all that was
\* sent comes to be written, unless the connection closes or the deque breaks.
EveryMessageWritten ==
    (open /\ sent > 0)
        ~> (~open \/ broken \/ \A n \in Message : \E i \in DOMAIN wire : wire[i].msg = n)

=============================================================================
