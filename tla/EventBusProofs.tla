--------------------------- MODULE EventBusProofs ---------------------------
(***************************************************************************)
(* Proofs about EventBus, for any set of listeners and any number of       *)
(* events: type correctness, that no wake-up is lost, and that the events  *)
(* of each listener come whole and in order.  The engine with its scripts  *)
(* is one more user of the event service: what is shown of the service     *)
(* holds whatever the scripts do, and each callback a script registers     *)
(* hears the events it is due.                                             *)
(***************************************************************************)
EXTENDS ScriptFramework, TLAPS

\* What the argument needs beside NoLostWakeup: the mutex says who holds it.
\* A listener that has found its deque empty still holds the mutex, so the
\* events thread cannot notify before that listener waits (engine.cc:156-161).
MutexOwner ==
    /\ \A l \in Listeners : HoldsMutex(l) => mutex[l] = "listener"
    /\ bus.pc = "notifying" => mutex[Target] = "bus"

\* The io_service holds no more handlers than events were sent.
QueueBound == Len(io_queue) <= posted

Inv == TypeOK /\ QueueBound /\ MutexOwner /\ NoLostWakeup

\* The events thread's next call keeps the type of bus and, while a slot is
\* left, something to call (events.cc:29-31).
LEMMA CallSlotsType ==
    ASSUME NEW todo \in Seq(Listeners), NEW e \in Nat, CallSlots(todo, e)
    PROVE  /\ bus' \in [pc : {"idle", "pushing", "locking", "notifying"},
                        event : Nat, todo : Seq(Listeners)]
           /\ bus'.pc # "idle" => bus'.todo # <<>>
           /\ bus'.pc \in {"idle", "pushing"}
  BY DEF CallSlots

\* The slot being called is a listener's.
LEMMA TargetIsListener ==
    ASSUME TypeOK, bus.pc # "idle"
    PROVE  Target \in Listeners /\ Tail(bus.todo) \in Seq(Listeners)
  BY DEF TypeOK, Target

\* A step keeps the bound on the io_service's queue.
LEMMA QueueBoundStep ==
    ASSUME TypeOK, QueueBound, [Next]_vars
    PROVE  QueueBound'
<1>1. CASE Send
  BY <1>1 DEF Send, TypeOK, QueueBound
<1>2. CASE Dispatch
  BY <1>2 DEF Dispatch, TypeOK, QueueBound
<1>3. CASE UNCHANGED <<posted, io_queue>>
  BY <1>3 DEF QueueBound
<1>4. Send \/ Dispatch \/ UNCHANGED <<posted, io_queue>>
  BY DEF Next, vars, busVars, Stop, Join, Start, PushBack, Lock, Notify, Subscribe,
         Acquire, FindEmpty, Wait, SpuriousWakeup, Take, TakeCorrupts, FinishEvent
<1> QED BY <1>1, <1>2, <1>3, <1>4

\* A step keeps the types; the bound is what makes dispatched a natural number.
LEMMA TypeStep ==
    ASSUME TypeOK, QueueBound, [Next]_vars
    PROVE  TypeOK'
<1> USE DEF TypeOK
<1>1. CASE Send
  BY <1>1 DEF Send, listenerVars
<1>2. CASE Stop
  BY <1>2 DEF Stop, listenerVars
<1>3. CASE Join
  BY <1>3 DEF Join, listenerVars
<1>4. CASE Start
  BY <1>4 DEF Start, listenerVars
<1>5. CASE Dispatch
  <2>1. Head(io_queue) \in Nat /\ Tail(io_queue) \in Seq(Nat)
    BY <1>5 DEF Dispatch
  <2>2. CallSlots(slots, Head(io_queue))
    BY <1>5 DEF Dispatch
  <2>3. /\ bus' \in [pc : {"idle", "pushing", "locking", "notifying"},
                     event : Nat, todo : Seq(Listeners)]
        /\ bus'.pc # "idle" => bus'.todo # <<>>
    BY <2>1, <2>2, CallSlotsType
  <2> QED BY <1>5, <2>1, <2>3 DEF Dispatch, listenerVars
<1>6. CASE PushBack
  <2>1. Target \in Listeners
    BY <1>6, TargetIsListener DEF PushBack
  <2>2. queue' \in [Listeners -> Seq(Nat)]
    <3>1. bus.event \in Nat
      OBVIOUS
    <3>2. Append(queue[Target], bus.event) \in Seq(Nat)
      BY <2>1, <3>1
    <3> QED BY <1>6, <2>1, <3>2 DEF PushBack
  <2>3. /\ bus' \in [pc : {"idle", "pushing", "locking", "notifying"},
                     event : Nat, todo : Seq(Listeners)]
        /\ bus'.pc # "idle" => bus'.todo # <<>>
    BY <1>6 DEF PushBack
  <2> HIDE DEF TypeOK
  <2> QED BY <1>6, <2>2, <2>3 DEF PushBack, listenerVars, TypeOK
<1>7. CASE Lock
  BY <1>7 DEF Lock, listenerVars
<1>8. CASE Notify
  <2>1. Target \in Listeners /\ Tail(bus.todo) \in Seq(Listeners) /\ bus.event \in Nat
    BY <1>8, TargetIsListener DEF Notify
  <2>2. CallSlots(Tail(bus.todo), bus.event)
    BY <1>8 DEF Notify
  <2>3. /\ bus' \in [pc : {"idle", "pushing", "locking", "notifying"},
                     event : Nat, todo : Seq(Listeners)]
        /\ bus'.pc # "idle" => bus'.todo # <<>>
    BY <2>1, <2>2, CallSlotsType
  <2>4. pc' \in [Listeners -> {"new", "locking", "checking", "sleeping", "waiting",
                              "handling"}]
    BY <1>8, <2>1 DEF Notify
  <2>5. mutex' \in [Listeners -> {"free", "bus", "listener"}]
    BY <1>8, <2>1 DEF Notify
  <2>6. UNCHANGED <<posted, io_queue, service, slots, current, handled, queue, corrupt>>
    BY <1>8 DEF Notify
  <2> QED BY <2>3, <2>4, <2>5, <2>6
<1>9. ASSUME NEW l \in Listeners,
             \/ Subscribe(l) \/ Acquire(l) \/ FindEmpty(l) \/ Wait(l)
             \/ SpuriousWakeup(l) \/ Take(l) \/ TakeCorrupts(l) \/ FinishEvent(l)
      PROVE  TypeOK'
  <2>1. CASE Subscribe(l)
    <3>1. dispatched \in Nat
      BY DEF QueueBound, dispatched
    <3>2. /\ slots' \in Seq(Listeners)
          /\ handled' \in [Listeners -> Nat]
      BY <2>1, <3>1 DEF Subscribe
    <3>3. pc' \in [Listeners -> {"new", "locking", "checking", "sleeping", "waiting",
                                "handling"}]
      BY <2>1 DEF Subscribe
    <3>4. UNCHANGED <<posted, io_queue, service, bus, current, queue, mutex, corrupt>>
      BY <2>1 DEF Subscribe, busVars
    <3> QED BY <3>2, <3>3, <3>4
  <2>2. CASE Acquire(l)
    BY <2>2 DEF Acquire, busVars
  <2>3. CASE FindEmpty(l)
    BY <2>3 DEF FindEmpty, busVars
  <2>4. CASE Wait(l)
    BY <2>4 DEF Wait, busVars
  <2>5. CASE SpuriousWakeup(l)
    BY <2>5 DEF SpuriousWakeup, busVars
  <2>6. CASE Take(l)
    <3>1. Head(queue[l]) \in Nat /\ Tail(queue[l]) \in Seq(Nat)
      BY <2>6 DEF Take
    <3> QED BY <2>6, <3>1 DEF Take, busVars
  <2>7. CASE TakeCorrupts(l)
    BY <2>7 DEF TakeCorrupts, busVars, listenerVars
  <2>8. CASE FinishEvent(l)
    BY <2>8 DEF FinishEvent, busVars
  <2> QED BY <1>9, <2>1, <2>2, <2>3, <2>4, <2>5, <2>6, <2>7, <2>8
<1>10. CASE UNCHANGED vars
  BY <1>10 DEF vars, busVars, listenerVars
<1> QED BY <1>1, <1>2, <1>3, <1>4, <1>5, <1>6, <1>7, <1>8, <1>9, <1>10 DEF Next

\* A step keeps the mutex and its holder in agreement.
LEMMA MutexStep ==
    ASSUME TypeOK, MutexOwner, [Next]_vars
    PROVE  MutexOwner'
<1> USE DEF TypeOK, MutexOwner, HoldsMutex, Target
<1>1. CASE Dispatch
  <2>1. bus'.pc \in {"idle", "pushing"}
    BY <1>1 DEF Dispatch, CallSlots
  <2> QED BY <1>1, <2>1 DEF Dispatch, listenerVars
<1>2. CASE PushBack
  BY <1>2 DEF PushBack, listenerVars
<1>3. CASE Lock
  BY <1>3, TargetIsListener DEF Lock, listenerVars
<1>4. CASE Notify
  <2>1. bus'.pc \in {"idle", "pushing"}
    BY <1>4 DEF Notify, CallSlots
  <2>2. Head(bus.todo) \in Listeners
    BY <1>4, TargetIsListener DEF Notify
  <2> QED BY <1>4, <2>1, <2>2 DEF Notify
<1>5. ASSUME NEW l \in Listeners,
             \/ Subscribe(l) \/ Acquire(l) \/ FindEmpty(l) \/ Wait(l)
             \/ SpuriousWakeup(l) \/ Take(l) \/ TakeCorrupts(l) \/ FinishEvent(l)
      PROVE  MutexOwner'
  <2>1. CASE Subscribe(l)
    BY <2>1 DEF Subscribe, busVars
  <2>2. CASE Acquire(l)
    BY <2>2 DEF Acquire, busVars
  <2>3. CASE FindEmpty(l)
    BY <2>3 DEF FindEmpty, busVars
  <2>4. CASE Wait(l)
    BY <2>4 DEF Wait, busVars
  <2>5. CASE SpuriousWakeup(l)
    BY <2>5 DEF SpuriousWakeup, busVars
  <2>6. CASE Take(l)
    BY <2>6 DEF Take, busVars
  <2>7. CASE TakeCorrupts(l)
    BY <2>7 DEF TakeCorrupts, busVars, listenerVars
  <2>8. CASE FinishEvent(l)
    BY <2>8 DEF FinishEvent, busVars
  <2> QED BY <1>5, <2>1, <2>2, <2>3, <2>4, <2>5, <2>6, <2>7, <2>8
<1>6. CASE Send \/ Stop \/ Join \/ Start \/ UNCHANGED vars
  BY <1>6 DEF Send, Stop, Join, Start, vars, busVars, listenerVars
<1> QED BY <1>1, <1>2, <1>3, <1>4, <1>5, <1>6 DEF Next

\* A step loses no wake-up.  Only a push can fill the deque of a listener that
\* sleeps, and then the events thread goes on to lock and notify; it cannot
\* notify a listener that has not begun to wait, because that one has the mutex.
LEMMA WakeupStep ==
    ASSUME TypeOK, MutexOwner, NoLostWakeup, [Next]_vars
    PROVE  NoLostWakeup'
<1> SUFFICES ASSUME NEW k \in Listeners,
                    pc'[k] \in {"sleeping", "waiting"}, queue'[k] # <<>>
             PROVE  /\ bus'.pc \in {"locking", "notifying"}
                    /\ k = Head(bus'.todo)
  BY DEF NoLostWakeup, AtTarget, Target
<1> USE DEF TypeOK, NoLostWakeup, AtTarget, Target
<1>1. CASE Dispatch
  BY <1>1 DEF Dispatch, listenerVars
<1>2. CASE PushBack
  BY <1>2 DEF PushBack, listenerVars
<1>3. CASE Lock
  BY <1>3 DEF Lock, listenerVars
<1>4. CASE Notify
  <2>1. pc[k] \in {"sleeping", "waiting"} /\ queue[k] # <<>>
    BY <1>4 DEF Notify
  <2>2. k = Target
    BY <2>1
  <2>3. pc[k] = "waiting"
    BY <1>4, <2>1, <2>2 DEF Notify, MutexOwner, HoldsMutex
  <2> QED BY <1>4, <2>2, <2>3 DEF Notify
<1>5. ASSUME NEW l \in Listeners,
             \/ Subscribe(l) \/ Acquire(l) \/ FindEmpty(l) \/ Wait(l)
             \/ SpuriousWakeup(l) \/ Take(l) \/ TakeCorrupts(l) \/ FinishEvent(l)
      PROVE  bus'.pc \in {"locking", "notifying"} /\ k = Head(bus'.todo)
  <2>1. CASE Subscribe(l)
    BY <2>1 DEF Subscribe, busVars
  <2>2. CASE Acquire(l)
    BY <2>2 DEF Acquire, busVars
  <2>3. CASE FindEmpty(l)
    BY <2>3 DEF FindEmpty, busVars
  <2>4. CASE Wait(l)
    BY <2>4 DEF Wait, busVars
  <2>5. CASE SpuriousWakeup(l)
    BY <2>5 DEF SpuriousWakeup, busVars
  <2>6. CASE Take(l)
    BY <2>6 DEF Take, busVars
  <2>7. CASE TakeCorrupts(l)
    BY <2>7 DEF TakeCorrupts, busVars, listenerVars
  <2>8. CASE FinishEvent(l)
    BY <2>8 DEF FinishEvent, busVars
  <2> QED BY <1>5, <2>1, <2>2, <2>3, <2>4, <2>5, <2>6, <2>7, <2>8
<1>6. CASE Send \/ Stop \/ Join \/ Start \/ UNCHANGED vars
  BY <1>6 DEF Send, Stop, Join, Start, vars, busVars, listenerVars
<1> QED BY <1>1, <1>2, <1>3, <1>4, <1>5, <1>6 DEF Next

LEMMA InitInv == Init => Inv
<1> SUFFICES ASSUME Init PROVE Inv
  OBVIOUS
<1> USE DEF Init
<1>1. TypeOK
  <2>1. io_queue \in Seq(Nat) /\ slots \in Seq(Listeners) /\ queue \in [Listeners -> Seq(Nat)]
    OBVIOUS
  <2>2. bus \in [pc : {"idle", "pushing", "locking", "notifying"},
                event : Nat, todo : Seq(Listeners)]
    OBVIOUS
  <2>3. bus.pc = "idle"
    OBVIOUS
  <2> QED BY <2>1, <2>2, <2>3 DEF TypeOK
<1>2. QueueBound
  BY DEF QueueBound
<1>3. MutexOwner
  BY DEF MutexOwner, HoldsMutex
<1>4. NoLostWakeup
  BY DEF NoLostWakeup
<1> QED BY <1>1, <1>2, <1>3, <1>4 DEF Inv

\* Inv is inductive.
THEOREM Invariance == Spec => []Inv
<1>1. Inv /\ [Next]_vars => Inv'
  BY QueueBoundStep, TypeStep, MutexStep, WakeupStep DEF Inv
<1> QED BY InitInv, <1>1, PTL DEF Spec

\* Every variable of the event service keeps its type.
THEOREM TypeCorrect == Spec => []TypeOK
  BY Invariance, PTL DEF Inv

\* No listener sleeps for good over an event that was pushed on its deque: the
\* notification is still to come (engine.cc:131-161, http_events.cc:21-62).
THEOREM WakeupNeverLost == Spec => []NoLostWakeup
  BY Invariance, PTL DEF Inv

-----------------------------------------------------------------------------
(* The order of events: none is lost, repeated or reordered on its way to  *)
(* a listener, and so the event service implements EventStream.            *)

\* The handlers in the io_service are the events not yet dispatched, in order,
\* and the events thread is at the last one dispatched (events.cc:17-31).
InOrder ==
    /\ \A i \in 1 .. Len(io_queue) : io_queue[i] = dispatched + i
    /\ bus.pc # "idle" => bus.event = dispatched

\* A listener has one slot, from its subscription on, and its deque is empty
\* before; the events thread has a slot to call once at most.
SlotsOnce ==
    /\ \A i, j \in 1 .. Len(slots) : slots[i] = slots[j] => i = j
    /\ \A l \in Listeners : pc[l] # "new" <=> \E i \in 1 .. Len(slots) : slots[i] = l
    /\ \A l \in Listeners : pc[l] = "new" => queue[l] = <<>>
    /\ \A i, j \in 1 .. Len(bus.todo) : bus.todo[i] = bus.todo[j] => i = j
    /\ \A i \in 1 .. Len(bus.todo) : pc[bus.todo[i]] # "new"

\* The last event that l has taken from its deque.
Base(l) == IF pc[l] = "handling" THEN current[l] ELSE handled[l]

\* The events thread has still to push the current event for l.
Owes(l) ==
    \/ bus.pc = "pushing" /\ \E i \in 1 .. Len(bus.todo) : bus.todo[i] = l
    \/ bus.pc # "idle" /\ \E i \in 2 .. Len(bus.todo) : bus.todo[i] = l

GapFree(l) ==
    /\ pc[l] = "handling" => current[l] = handled[l] + 1
    /\ \A i \in 1 .. Len(queue[l]) : queue[l][i] = Base(l) + i
    /\ Base(l) + Len(queue[l]) = IF Owes(l) THEN dispatched - 1 ELSE dispatched

\* NoGap, one listener at a time.
LEMMA NoGapByListener == NoGap <=> \A l \in Listeners : pc[l] # "new" => GapFree(l)
  BY DEF NoGap, GapFree, Owes, Base, Subscribed

OrderInv == InOrder /\ SlotsOnce /\ NoGap

\* What the types say of the sequences and of the deques (include/events.h:53-64).
LEMMA SequenceTypes ==
    ASSUME TypeOK
    PROVE  /\ io_queue \in Seq(Nat) /\ slots \in Seq(Listeners) /\ bus.todo \in Seq(Listeners)
           /\ posted \in Nat
           /\ \A l \in Listeners :
                 queue[l] \in Seq(Nat) /\ handled[l] \in Nat /\ current[l] \in Nat
           /\ \A i \in 1 .. Len(slots) : slots[i] \in Listeners
           /\ \A i \in 1 .. Len(bus.todo) : bus.todo[i] \in Listeners
<1>1. bus.todo \in Seq(Listeners) /\ slots \in Seq(Listeners)
  BY DEF TypeOK
<1>2. \A i \in 1 .. Len(bus.todo) : bus.todo[i] \in Listeners
  BY <1>1
<1>3. \A i \in 1 .. Len(slots) : slots[i] \in Listeners
  BY <1>1
<1> QED BY <1>1, <1>2, <1>3 DEF TypeOK

LEMMA TailFacts ==
    ASSUME NEW S, NEW s \in Seq(S), s # <<>>
    PROVE  /\ Len(s) \in Nat \ {0} /\ Head(s) = s[1] /\ Len(Tail(s)) = Len(s) - 1
           /\ \A i \in 1 .. Len(s) - 1 : Tail(s)[i] = s[i + 1]
  OBVIOUS

LEMMA AppendFacts ==
    ASSUME NEW S, NEW s \in Seq(S), NEW e \in S
    PROVE  /\ Len(s) \in Nat /\ Len(Append(s, e)) = Len(s) + 1
           /\ Append(s, e)[Len(s) + 1] = e
           /\ \A i \in 1 .. Len(s) : Append(s, e)[i] = s[i]
  OBVIOUS

\* A step keeps the order of the io_service's handlers.
LEMMA InOrderStep ==
    ASSUME TypeOK, QueueBound, InOrder, [Next]_vars
    PROVE  InOrder'
<1> USE DEF InOrder, dispatched
<1>0. io_queue \in Seq(Nat) /\ posted \in Nat /\ Len(io_queue) \in Nat
  BY SequenceTypes
<1>1. CASE Send
  <2>1. /\ posted' = posted + 1 /\ io_queue' = Append(io_queue, posted + 1) /\ bus' = bus
    BY <1>1 DEF Send
  <2>2. /\ Len(io_queue') = Len(io_queue) + 1
        /\ io_queue'[Len(io_queue) + 1] = posted + 1
        /\ \A i \in 1 .. Len(io_queue) : io_queue'[i] = io_queue[i]
    BY <2>1, <1>0, AppendFacts
  <2>3. posted' - Len(io_queue') = posted - Len(io_queue)
    BY <2>1, <2>2, <1>0
  <2>4. \A i \in 1 .. Len(io_queue') : i \in 1 .. Len(io_queue) \/ i = Len(io_queue) + 1
    BY <2>2, <1>0
  <2>5. \A i \in 1 .. Len(io_queue') : io_queue'[i] = posted - Len(io_queue) + i
    BY <2>2, <2>4, <1>0
  <2> QED BY <2>1, <2>3, <2>5
<1>2. CASE Dispatch
  <2>1. io_queue # <<>> /\ io_queue' = Tail(io_queue) /\ posted' = posted
    BY <1>2 DEF Dispatch
  <2>2. /\ Len(io_queue) \in Nat \ {0} /\ Head(io_queue) = io_queue[1]
        /\ Len(io_queue') = Len(io_queue) - 1
        /\ \A i \in 1 .. Len(io_queue) - 1 : io_queue'[i] = io_queue[i + 1]
    BY <2>1, <1>0, TailFacts
  <2>3. bus'.event = Head(io_queue)
    BY <1>2 DEF Dispatch, CallSlots
  <2>4. posted' - Len(io_queue') = posted - Len(io_queue) + 1
    BY <2>1, <2>2, <1>0
  <2>5. Head(io_queue) = posted - Len(io_queue) + 1
    BY <2>2
  <2>6. \A i \in 1 .. Len(io_queue) - 1 :
            io_queue'[i] = posted - Len(io_queue) + 1 + i
    BY <2>2, <1>0
  <2> QED BY <2>2, <2>3, <2>4, <2>5, <2>6
<1>3. CASE Notify
  BY <1>3 DEF Notify, CallSlots
<1>4. CASE PushBack \/ Lock
  <2>1. bus'.event = bus.event /\ bus.pc # "idle"
    BY <1>4 DEF PushBack, Lock, TypeOK
  <2> QED BY <1>4, <2>1 DEF PushBack, Lock
<1>5. CASE UNCHANGED <<posted, io_queue, bus>>
  BY <1>5
<1>6. \/ Send \/ Dispatch \/ Notify \/ PushBack \/ Lock
      \/ UNCHANGED <<posted, io_queue, bus>>
  BY DEF Next, vars, busVars, Stop, Join, Start, Subscribe,
         Acquire, FindEmpty, Wait, SpuriousWakeup, Take, TakeCorrupts, FinishEvent
<1> QED BY <1>1, <1>2, <1>3, <1>4, <1>5, <1>6

\* Who has subscribed, and the deques of the others, are left alone by every
\* step but Subscribe.
LEMMA SubscribedStep ==
    ASSUME TypeOK, [Next]_vars, \A l \in Listeners : ~Subscribe(l),
           PushBack => pc[Target] # "new"
    PROVE  /\ slots' = slots
           /\ \A l \in Listeners : pc'[l] = "new" <=> pc[l] = "new"
           /\ \A l \in Listeners : pc[l] = "new" => queue'[l] = queue[l]
<1>1. pc \in [Listeners -> {"new", "locking", "checking", "sleeping", "waiting", "handling"}]
      /\ queue \in [Listeners -> Seq(Nat)]
  BY DEF TypeOK
<1>2. CASE Send \/ Stop \/ Join \/ Start \/ Dispatch \/ Lock \/ UNCHANGED vars
  BY <1>2 DEF Send, Stop, Join, Start, Dispatch, Lock, vars, listenerVars
<1>3. CASE PushBack
  BY <1>1, <1>3, TargetIsListener DEF PushBack, listenerVars
<1>4. CASE Notify
  BY <1>1, <1>4, TargetIsListener DEF Notify
<1>5. ASSUME NEW l \in Listeners,
             \/ Acquire(l) \/ FindEmpty(l) \/ Wait(l)
             \/ SpuriousWakeup(l) \/ Take(l) \/ TakeCorrupts(l) \/ FinishEvent(l)
      PROVE  /\ slots' = slots
             /\ \A k \in Listeners : pc'[k] = "new" <=> pc[k] = "new"
             /\ \A k \in Listeners : pc[k] = "new" => queue'[k] = queue[k]
  BY <1>1, <1>5 DEF Acquire, FindEmpty, Wait, SpuriousWakeup, Take, TakeCorrupts,
                    FinishEvent, listenerVars
<1> QED BY <1>2, <1>3, <1>4, <1>5 DEF Next

\* What is left to call only shrinks, but for the dispatch that fills it.
LEMMA TodoStep ==
    ASSUME TypeOK, [Next]_vars
    PROVE  \/ bus'.todo = bus.todo
           \/ Dispatch /\ bus'.todo = slots
           \/ Notify /\ bus.todo # <<>> /\ bus'.todo = Tail(bus.todo)
<1>1. CASE Dispatch
  BY <1>1 DEF Dispatch, CallSlots
<1>2. CASE Notify
  BY <1>2 DEF Notify, CallSlots, TypeOK
<1>3. CASE PushBack \/ Lock
  BY <1>3 DEF PushBack, Lock, TypeOK
<1>4. CASE UNCHANGED bus
  BY <1>4
<1>5. Dispatch \/ Notify \/ PushBack \/ Lock \/ UNCHANGED bus
  BY DEF Next, vars, busVars, Send, Stop, Join, Start, Subscribe,
         Acquire, FindEmpty, Wait, SpuriousWakeup, Take, TakeCorrupts, FinishEvent
<1> QED BY <1>1, <1>2, <1>3, <1>4, <1>5

\* A step keeps the slots apart.
LEMMA SlotsOnceStep ==
    ASSUME TypeOK, SlotsOnce, [Next]_vars
    PROVE  SlotsOnce'
<1>0. /\ slots \in Seq(Listeners) /\ bus.todo \in Seq(Listeners)
      /\ Len(slots) \in Nat /\ Len(bus.todo) \in Nat
      /\ \A i \in 1 .. Len(slots) : slots[i] \in Listeners
      /\ \A i \in 1 .. Len(bus.todo) : bus.todo[i] \in Listeners
  BY SequenceTypes
<1>1. ASSUME NEW l \in Listeners, Subscribe(l)
      PROVE  SlotsOnce'
  <2>1. /\ slots' = Append(slots, l) /\ pc[l] = "new"
        /\ bus' = bus /\ queue' = queue
    BY <1>1 DEF Subscribe, busVars
  <2>2. pc'[l] # "new" /\ \A k \in Listeners \ {l} : pc'[k] = pc[k]
    BY <1>1 DEF Subscribe, TypeOK
  <2>3. /\ Len(slots') = Len(slots) + 1 /\ slots'[Len(slots) + 1] = l
        /\ \A i \in 1 .. Len(slots) : slots'[i] = slots[i]
    BY <2>1, <1>0, AppendFacts
  <2>4. \A i \in 1 .. Len(slots) : slots[i] # l
    BY <2>1 DEF SlotsOnce
  <2>5. \A i \in 1 .. Len(slots') : i \in 1 .. Len(slots) \/ i = Len(slots) + 1
    BY <2>3, <1>0
  <2>6. \A i, j \in 1 .. Len(slots') : slots'[i] = slots'[j] => i = j
    BY <2>3, <2>4, <2>5 DEF SlotsOnce
  <2>7. \A k \in Listeners :
            pc'[k] # "new" <=> \E i \in 1 .. Len(slots') : slots'[i] = k
    <3>1. \E i \in 1 .. Len(slots') : slots'[i] = l
      BY <2>3, <1>0
    <3>2. ASSUME NEW k \in Listeners \ {l}
          PROVE  (\E i \in 1 .. Len(slots') : slots'[i] = k)
                    <=> \E i \in 1 .. Len(slots) : slots[i] = k
      <4>1. 1 .. Len(slots) \subseteq 1 .. Len(slots')
        BY <2>3, <1>0
      <4> QED BY <4>1, <2>3, <2>5
    <3> QED BY <3>1, <3>2, <2>2 DEF SlotsOnce
  <2>8. \A i \in 1 .. Len(bus.todo) : pc'[bus.todo[i]] # "new"
    BY <1>0, <2>2 DEF SlotsOnce
  <2>9. \A k \in Listeners : pc'[k] = "new" => queue'[k] = <<>>
    BY <2>1, <2>2 DEF SlotsOnce
  <2> QED BY <2>1, <2>6, <2>7, <2>8, <2>9 DEF SlotsOnce
<1>2. CASE \A l \in Listeners : ~Subscribe(l)
  <2>1. PushBack => pc[Target] # "new"
    <3>1. PushBack => bus.todo # <<>>
      BY DEF PushBack, TypeOK
    <3> QED BY <1>0, <3>1, TailFacts DEF SlotsOnce, Target
  <2>2. /\ slots' = slots
        /\ \A l \in Listeners : pc'[l] = "new" <=> pc[l] = "new"
        /\ \A l \in Listeners : pc[l] = "new" => queue'[l] = queue[l]
    BY <1>2, <2>1, SubscribedStep
  <2>3. /\ \A i, j \in 1 .. Len(bus'.todo) : bus'.todo[i] = bus'.todo[j] => i = j
        /\ \A i \in 1 .. Len(bus'.todo) : bus'.todo[i] \in Listeners /\ pc[bus'.todo[i]] # "new"
    <3>1. CASE bus'.todo = bus.todo
      BY <3>1, <1>0 DEF SlotsOnce
    <3>2. CASE bus'.todo = slots
      BY <3>2, <1>0 DEF SlotsOnce
    <3>3. CASE bus.todo # <<>> /\ bus'.todo = Tail(bus.todo)
      <4>1. /\ Len(bus'.todo) = Len(bus.todo) - 1
            /\ \A i \in 1 .. Len(bus.todo) - 1 : bus'.todo[i] = bus.todo[i + 1]
        BY <1>0, <3>3, TailFacts
      <4>2. \A i \in 1 .. Len(bus'.todo) :
                i + 1 \in 1 .. Len(bus.todo) /\ bus'.todo[i] = bus.todo[i + 1]
        BY <4>1, <1>0
      <4> QED BY SMTT(60), <4>2, <1>0 DEF SlotsOnce
    <3> QED BY <3>1, <3>2, <3>3, TodoStep
  <2> QED BY <2>2, <2>3 DEF SlotsOnce
<1> QED BY <1>1, <1>2

\* Whoever is called next is owed the event until the push, and a subscriber that
\* is not in the list is owed nothing.
LEMMA OwesFacts ==
    ASSUME TypeOK, SlotsOnce, NEW k \in Listeners
    PROVE  /\ Owes(k) => bus.pc # "idle" /\ pc[k] # "new"
           /\ bus.pc = "pushing" => Owes(Target) /\ Target \in Listeners
           /\ bus.pc # "idle" => ~ \E i \in 2 .. Len(bus.todo) : bus.todo[i] = Target
<1>0. /\ bus.todo \in Seq(Listeners) /\ Len(bus.todo) \in Nat
  BY SequenceTypes
<1>1. bus.pc # "idle" => /\ Len(bus.todo) \in Nat \ {0} /\ Target = bus.todo[1]
                         /\ Target \in Listeners
  <2>1. bus.pc # "idle" => bus.todo # <<>>
    BY DEF TypeOK
  <2> QED BY <1>0, <2>1, TailFacts, TargetIsListener DEF Target
<1>2. 2 .. Len(bus.todo) \subseteq 1 .. Len(bus.todo)
  BY <1>0
<1> QED BY <1>0, <1>1, <1>2 DEF Owes, SlotsOnce

\* A step leaves no gap.
LEMMA NoGapStep ==
    ASSUME TypeOK, QueueBound, InOrder, InOrder', SlotsOnce, SlotsOnce', NoGap,
           [Next]_vars
    PROVE  NoGap'
<1> SUFFICES ASSUME NEW k \in Listeners, pc'[k] # "new"
             PROVE  GapFree(k)'
  <2>1. NoGap' <=> \A l \in Listeners : pc'[l] # "new" => GapFree(l)'
    BY DEF NoGap, GapFree, Owes, Base, Subscribed
  <2> QED BY <2>1
<1>0. /\ io_queue \in Seq(Nat) /\ posted \in Nat /\ Len(io_queue) \in Nat
      /\ bus.todo \in Seq(Listeners) /\ Len(bus.todo) \in Nat
      /\ slots \in Seq(Listeners)
      /\ queue[k] \in Seq(Nat) /\ Len(queue[k]) \in Nat
      /\ handled[k] \in Nat /\ current[k] \in Nat /\ Base(k) \in Nat
      /\ dispatched \in Nat
  BY SequenceTypes DEF QueueBound, dispatched, Base
<1>00. Base(k) \in Nat /\ Len(queue[k]) \in Nat /\ dispatched \in Nat /\ handled[k] \in Nat
  BY <1>0
<1>1. pc[k] # "new" => GapFree(k)
  BY NoGapByListener
<1>2. CASE Send
  <2>1. /\ posted' = posted + 1 /\ io_queue' = Append(io_queue, posted + 1)
        /\ UNCHANGED <<bus, queue, pc, current, handled>>
    BY <1>2 DEF Send, listenerVars
  <2>2. dispatched' = dispatched
    BY <2>1, <1>0, AppendFacts DEF dispatched
  <2> QED BY <2>1, <2>2, <1>1 DEF GapFree, Owes, Base
<1>3. CASE Dispatch
  <2>1. /\ bus.pc = "idle" /\ io_queue # <<>> /\ io_queue' = Tail(io_queue)
        /\ UNCHANGED <<posted, queue, pc, current, handled, slots>>
        /\ bus'.todo = slots /\ bus'.pc = IF slots = <<>> THEN "idle" ELSE "pushing"
    BY <1>3 DEF Dispatch, CallSlots, listenerVars
  <2>2. dispatched' = dispatched + 1
    BY <2>1, <1>0, TailFacts DEF dispatched
  <2>3. Owes(k)'
    <3>1. \E i \in 1 .. Len(slots) : slots[i] = k
      BY <2>1 DEF SlotsOnce
    <3>2. slots # <<>>
      BY <3>1
    <3> QED BY <3>1, <3>2, <2>1 DEF Owes
  <2>4. ~Owes(k)
    BY <2>1 DEF Owes
  <2>5. /\ pc[k] = "handling" => current[k] = handled[k] + 1
        /\ \A i \in 1 .. Len(queue[k]) : queue[k][i] = Base(k) + i
        /\ Base(k) + Len(queue[k]) = dispatched
    BY <2>1, <2>4, <1>1 DEF GapFree
  <2>6. Base(k)' = Base(k)
    BY <2>1 DEF Base
  <2>7. Base(k) + Len(queue[k]) = dispatched' - 1
    BY <2>2, <2>5, <1>00
  <2> QED BY <2>1, <2>3, <2>5, <2>6, <2>7 DEF GapFree
<1>4. CASE PushBack
  <2>1. /\ bus.pc = "pushing" /\ Target \in Listeners
        /\ bus'.pc = "locking" /\ bus'.todo = bus.todo
        /\ UNCHANGED <<posted, io_queue, pc, current, handled>>
        /\ queue' = [queue EXCEPT ![Target] = Append(@, bus.event)]
    BY <1>4, TargetIsListener DEF PushBack, listenerVars, TypeOK
  <2>2. dispatched' = dispatched
    BY <2>1 DEF dispatched
  <2>3. CASE k = Target
    <3>1. Owes(k) /\ ~Owes(k)'
      BY <2>1, <2>3, OwesFacts DEF Owes
    <3>2. bus.event = dispatched
      BY <2>1 DEF InOrder
    <3>3. queue'[k] = Append(queue[k], dispatched)
      BY <2>1, <2>3, <3>2 DEF TypeOK
    <3>4. /\ Len(queue'[k]) = Len(queue[k]) + 1
          /\ queue'[k][Len(queue[k]) + 1] = dispatched
          /\ \A i \in 1 .. Len(queue[k]) : queue'[k][i] = queue[k][i]
      BY <3>3, <1>0, AppendFacts
    <3>5. Base(k) + Len(queue[k]) = dispatched - 1
      BY <1>1, <2>1, <3>1 DEF GapFree
    <3>6. \A i \in 1 .. Len(queue'[k]) : i \in 1 .. Len(queue[k]) \/ i = Len(queue[k]) + 1
      BY <3>4, <1>0
    <3>7. Base(k)' = Base(k)
      BY <2>1 DEF Base
    <3>8. \A i \in 1 .. Len(queue'[k]) : queue'[k][i] = Base(k) + i
      <4>1. Base(k) + (Len(queue[k]) + 1) = dispatched
        BY <3>5, <1>00
      <4> QED BY <3>4, <3>6, <4>1, <1>1, <2>1 DEF GapFree
    <3>9. Base(k) + Len(queue'[k]) = dispatched
      <4>1. Len(queue'[k]) = Len(queue[k]) + 1
        BY <3>4
      <4> QED BY <4>1, <3>5, <1>00
    <3> QED BY <3>1, <3>7, <3>8, <3>9, <2>1, <2>2, <1>1 DEF GapFree
  <2>4. CASE k # Target
    <3>1. queue'[k] = queue[k]
      BY <2>1, <2>4 DEF TypeOK
    <3>2. Owes(k)' <=> Owes(k)
      <4>1. \A i \in 1 .. Len(bus.todo) : i \in 2 .. Len(bus.todo) \/ i = 1
        BY <1>0
      <4>2. bus.todo[1] = Target /\ 2 .. Len(bus.todo) \subseteq 1 .. Len(bus.todo)
        <5>1. bus.todo # <<>>
          BY <2>1 DEF TypeOK
        <5> QED BY <5>1, <1>0, TailFacts DEF Target
      <4> QED BY <4>1, <4>2, <2>1, <2>4 DEF Owes
    <3> QED BY <3>1, <3>2, <2>1, <2>2, <1>1 DEF GapFree, Base
  <2> QED BY <2>3, <2>4
<1>5. CASE Lock
  <2>1. /\ bus'.pc = "notifying" /\ bus.pc = "locking" /\ bus'.todo = bus.todo
        /\ UNCHANGED <<posted, io_queue, queue, pc, current, handled>>
    BY <1>5 DEF Lock, listenerVars, TypeOK
  <2> QED BY <2>1, <1>1 DEF GapFree, Base, Owes, dispatched
<1>6. CASE Notify
  <2>1. /\ bus.pc = "notifying" /\ bus.todo # <<>>
        /\ bus'.todo = Tail(bus.todo)
        /\ bus'.pc = IF Tail(bus.todo) = <<>> THEN "idle" ELSE "pushing"
        /\ UNCHANGED <<posted, io_queue, queue, current, handled>>
    BY <1>6 DEF Notify, CallSlots, TypeOK
  <2>2. pc'[k] = pc[k] \/ (pc[k] = "waiting" /\ pc'[k] = "locking")
    BY <1>6, TargetIsListener DEF Notify, TypeOK
  <2>3. Owes(k)' <=> Owes(k)
    <3>1. /\ Len(bus.todo) \in Nat \ {0} /\ Len(bus'.todo) = Len(bus.todo) - 1
          /\ \A i \in 1 .. Len(bus.todo) - 1 : bus'.todo[i] = bus.todo[i + 1]
      BY <2>1, <1>0, TailFacts
    <3>2. Owes(k) <=> \E i \in 2 .. Len(bus.todo) : bus.todo[i] = k
      BY <2>1 DEF Owes
    <3>3. 2 .. Len(bus'.todo) \subseteq 1 .. Len(bus'.todo)
      BY <3>1
    <3>4. Owes(k)' <=> \E i \in 1 .. Len(bus'.todo) : bus'.todo[i] = k
      <4>1. CASE Tail(bus.todo) = <<>>
        <5>1. bus'.pc = "idle" /\ 1 .. Len(bus'.todo) = {}
          BY <4>1, <2>1
        <5> QED BY <5>1 DEF Owes
      <4>2. CASE Tail(bus.todo) # <<>>
        BY <4>2, <2>1, <3>3 DEF Owes
      <4> QED BY <4>1, <4>2
    <3>5. (\E i \in 1 .. Len(bus'.todo) : bus'.todo[i] = k)
             <=> \E i \in 2 .. Len(bus.todo) : bus.todo[i] = k
      <4>1. \A i \in 1 .. Len(bus'.todo) :
                i + 1 \in 2 .. Len(bus.todo) /\ bus'.todo[i] = bus.todo[i + 1]
        BY <3>1
      <4>2. \A i \in 2 .. Len(bus.todo) :
                i - 1 \in 1 .. Len(bus'.todo) /\ bus'.todo[i - 1] = bus.todo[i]
        BY <3>1
      <4> QED BY <4>1, <4>2
    <3> QED BY <3>2, <3>4, <3>5
  <2> QED BY <2>1, <2>2, <2>3, <1>1 DEF GapFree, Base, dispatched
<1>7. ASSUME NEW l \in Listeners, Subscribe(l)
      PROVE  GapFree(k)'
  <2>1. /\ pc[l] = "new" /\ UNCHANGED <<posted, io_queue, bus, queue, current>>
        /\ handled' = [handled EXCEPT ![l] = dispatched]
        /\ pc' = [pc EXCEPT ![l] = "locking"]
    BY <1>7 DEF Subscribe, busVars
  <2>2. dispatched' = dispatched /\ (Owes(k)' <=> Owes(k))
    BY <2>1 DEF dispatched, Owes
  <2>3. CASE k = l
    <3>1. queue[k] = <<>> /\ ~Owes(k)
      BY <2>1, <2>3, OwesFacts DEF SlotsOnce
    <3>2. handled'[k] = dispatched /\ pc'[k] = "locking"
      BY <2>1, <2>3 DEF TypeOK
    <3> QED BY <2>1, <2>2, <3>1, <3>2, <1>0 DEF GapFree, Base
  <2>4. CASE k # l
    <3>1. handled'[k] = handled[k] /\ pc'[k] = pc[k]
      BY <2>1, <2>4 DEF TypeOK
    <3> QED BY <2>1, <2>2, <3>1, <1>1 DEF GapFree, Base
  <2> QED BY <2>3, <2>4
<1>8. ASSUME NEW l \in Listeners, Take(l)
      PROVE  GapFree(k)'
  <2>1. /\ pc[l] = "checking" /\ queue[l] # <<>>
        /\ current' = [current EXCEPT ![l] = Head(queue[l])]
        /\ queue' = [queue EXCEPT ![l] = Tail(@)]
        /\ pc' = [pc EXCEPT ![l] = "handling"]
        /\ UNCHANGED <<posted, io_queue, bus, handled>>
    BY <1>8 DEF Take, busVars
  <2>2. dispatched' = dispatched /\ (Owes(k)' <=> Owes(k))
    BY <2>1 DEF dispatched, Owes
  <2>3. CASE k = l
    <3>1. /\ current'[k] = Head(queue[k]) /\ queue'[k] = Tail(queue[k])
          /\ pc'[k] = "handling" /\ handled'[k] = handled[k]
      BY <2>1, <2>3 DEF TypeOK
    <3>2. /\ Len(queue[k]) \in Nat \ {0} /\ Head(queue[k]) = queue[k][1]
          /\ Len(queue'[k]) = Len(queue[k]) - 1
          /\ \A i \in 1 .. Len(queue[k]) - 1 : queue'[k][i] = queue[k][i + 1]
      BY <3>1, <2>1, <2>3, <1>0, TailFacts
    <3>3. Base(k) = handled[k]
      BY <2>1, <2>3 DEF Base
    <3>4. \A i \in 1 .. Len(queue[k]) : queue[k][i] = handled[k] + i
      BY <1>1, <2>1, <2>3, <3>3 DEF GapFree
    <3>5. current'[k] = handled[k] + 1
      BY <3>1, <3>2, <3>4
    <3>6. Base(k)' = handled[k] + 1
      BY <3>1, <3>5 DEF Base
    <3>7. \A i \in 1 .. Len(queue'[k]) : queue'[k][i] = handled[k] + 1 + i
      <4>1. \A i \in 1 .. Len(queue[k]) - 1 :
                i + 1 \in 1 .. Len(queue[k]) /\ handled[k] + (i + 1) = handled[k] + 1 + i
        BY <1>00
      <4> QED BY <4>1, <3>2, <3>4
    <3>8. handled[k] + Len(queue[k]) = handled[k] + 1 + Len(queue'[k])
      <4>1. Len(queue'[k]) = Len(queue[k]) - 1
        BY <3>2
      <4> QED BY <4>1, <1>00
    <3> QED BY <3>1, <3>3, <3>5, <3>6, <3>7, <3>8, <2>1, <2>2, <2>3, <1>1 DEF GapFree
  <2>4. CASE k # l
    <3>1. /\ current'[k] = current[k] /\ queue'[k] = queue[k]
          /\ pc'[k] = pc[k] /\ handled'[k] = handled[k]
      BY <2>1, <2>4 DEF TypeOK
    <3> QED BY <2>2, <3>1, <1>1 DEF GapFree, Base
  <2> QED BY <2>3, <2>4
<1>9. ASSUME NEW l \in Listeners, FinishEvent(l)
      PROVE  GapFree(k)'
  <2>1. /\ pc[l] = "handling" /\ UNCHANGED <<posted, io_queue, bus, queue, current>>
        /\ handled' = [handled EXCEPT ![l] = current[l]]
        /\ pc' = [pc EXCEPT ![l] = "checking"]
    BY <1>9 DEF FinishEvent, busVars
  <2>2. dispatched' = dispatched /\ (Owes(k)' <=> Owes(k))
    BY <2>1 DEF dispatched, Owes
  <2>3. Base(k)' = Base(k) /\ (pc'[k] = "handling" => pc[k] = "handling" /\ k # l)
    BY <2>1 DEF Base, TypeOK
  <2>4. k # l => handled'[k] = handled[k]
    BY <2>1 DEF TypeOK
  <2> QED BY <2>1, <2>2, <2>3, <2>4, <1>1 DEF GapFree
<1>10. ASSUME NEW l \in Listeners,
              Acquire(l) \/ FindEmpty(l) \/ Wait(l) \/ SpuriousWakeup(l) \/ TakeCorrupts(l)
       PROVE  GapFree(k)'
  <2>1. UNCHANGED <<posted, io_queue, bus, queue, current, handled>>
    BY <1>10 DEF Acquire, FindEmpty, Wait, SpuriousWakeup, TakeCorrupts, busVars, listenerVars
  <2>2. /\ pc'[k] = "handling" <=> pc[k] = "handling"
        /\ pc[k] # "new"
    BY <1>10 DEF Acquire, FindEmpty, Wait, SpuriousWakeup, TakeCorrupts, listenerVars, TypeOK
  <2> QED BY <2>1, <2>2, <1>1 DEF GapFree, Base, Owes, dispatched
<1>11. CASE Stop \/ Join \/ Start \/ UNCHANGED vars
  <2>1. UNCHANGED <<posted, io_queue, bus, queue, current, handled, pc>>
    BY <1>11 DEF Stop, Join, Start, vars, busVars, listenerVars
  <2> QED BY <2>1, <1>1 DEF GapFree, Base, Owes, dispatched
<1> QED BY <1>2, <1>3, <1>4, <1>5, <1>6, <1>7, <1>8, <1>9, <1>10, <1>11 DEF Next

LEMMA InitOrder == Init => OrderInv
<1> SUFFICES ASSUME Init PROVE OrderInv
  OBVIOUS
<1>1. InOrder /\ SlotsOnce
  BY DEF Init, InOrder, SlotsOnce
<1>2. NoGap
  BY DEF Init, NoGap, Subscribed
<1> QED BY <1>1, <1>2 DEF OrderInv

\* OrderInv is inductive, given Inv.
THEOREM OrderKept == Spec => [](Inv /\ OrderInv)
<1>1. Inv /\ OrderInv /\ [Next]_vars => OrderInv'
  BY InOrderStep, SlotsOnceStep, NoGapStep DEF Inv, OrderInv
<1> QED BY InitOrder, Invariance, <1>1, PTL DEF Spec

\* What a listener has handled, holds and is owed is a run of events without a
\* gap or a repetition (events.cc:17-31, engine.cc:131-166).
THEOREM NothingIsLost == Spec => []NoGap
  BY OrderKept, PTL DEF OrderInv

\* Each step sends an event, adds a listener, handles a listener's next event, or
\* does nothing the stream tells.
LEMMA StreamStep ==
    ASSUME Inv, OrderInv, [Next]_vars
    PROVE  [Stream!Next]_<<posted, Subscribed, handled>>
<1> SUFFICES Stream!Next \/ UNCHANGED <<posted, Subscribed, handled>>
  OBVIOUS
<1>0. TypeOK /\ QueueBound /\ SlotsOnce /\ NoGap
  BY DEF Inv, OrderInv
<1>1. posted \in Nat /\ dispatched \in Nat /\ dispatched <= posted
  <2>1. io_queue \in Seq(Nat) /\ posted \in Nat
    BY <1>0, SequenceTypes
  <2>2. Len(io_queue) \in Nat /\ Len(io_queue) <= posted
    BY <1>0, <2>1 DEF QueueBound
  <2> QED BY <2>1, <2>2 DEF dispatched
<1>2. CASE Send
  <2>1. posted' = posted + 1 /\ UNCHANGED <<pc, handled>>
    BY <1>2 DEF Send, listenerVars
  <2>2. Subscribed' = Subscribed
    BY <2>1 DEF Subscribed
  <2>3. Stream!Send
    BY <2>1, <2>2 DEF Stream!Send
  <2> QED BY <2>3 DEF Stream!Next
<1>3. ASSUME NEW l \in Listeners, Subscribe(l)
      PROVE  Stream!Next
  <2>1. /\ pc[l] = "new" /\ posted' = posted
        /\ handled' = [handled EXCEPT ![l] = dispatched]
        /\ pc' = [pc EXCEPT ![l] = "locking"]
    BY <1>3 DEF Subscribe
  <2>2. Subscribed' = Subscribed \cup {l} /\ l \notin Subscribed
    BY <2>1, <1>0 DEF Subscribed, TypeOK
  <2>3. dispatched \in 0 .. posted
    BY <1>1
  <2>4. Stream!AddListener(l)
    BY <2>1, <2>2, <2>3 DEF Stream!AddListener
  <2> QED BY <2>4 DEF Stream!Next
<1>4. ASSUME NEW l \in Listeners, FinishEvent(l)
      PROVE  Stream!Next
  <2>1. /\ pc[l] = "handling" /\ posted' = posted
        /\ handled' = [handled EXCEPT ![l] = current[l]]
        /\ pc' = [pc EXCEPT ![l] = "checking"]
    BY <1>4 DEF FinishEvent
  <2>2. Subscribed' = Subscribed /\ l \in Subscribed
    BY <2>1, <1>0 DEF Subscribed, TypeOK
  <2>3. GapFree(l)
    BY <2>1, <1>0, NoGapByListener
  <2>4. /\ current[l] = handled[l] + 1
        /\ current[l] + Len(queue[l]) <= dispatched
    BY <2>1, <2>3, <1>1 DEF GapFree, Base
  <2>5. handled[l] \in Nat /\ Len(queue[l]) \in Nat
    BY <1>0, SequenceTypes
  <2>6. handled[l] < posted
    BY <2>4, <2>5, <1>1
  <2>7. Stream!HandleNext(l)
    BY <2>1, <2>2, <2>4, <2>6 DEF Stream!HandleNext
  <2> QED BY <2>7 DEF Stream!Next
<1>5. ASSUME NEW l \in Listeners,
             Acquire(l) \/ FindEmpty(l) \/ Wait(l) \/ SpuriousWakeup(l) \/ Take(l)
             \/ TakeCorrupts(l)
      PROVE  UNCHANGED <<posted, Subscribed, handled>>
  <2>1. UNCHANGED <<posted, handled>>
    BY <1>5 DEF Acquire, FindEmpty, Wait, SpuriousWakeup, Take, TakeCorrupts, listenerVars
  <2>2. \A k \in Listeners : pc'[k] = "new" <=> pc[k] = "new"
    BY <1>0, <1>5 DEF Acquire, FindEmpty, Wait, SpuriousWakeup, Take, TakeCorrupts,
                      listenerVars, TypeOK
  <2> QED BY <2>1, <2>2 DEF Subscribed
<1>6. CASE Notify
  <2>1. UNCHANGED <<posted, handled>>
    BY <1>6 DEF Notify
  <2>2. \A k \in Listeners : pc'[k] = "new" <=> pc[k] = "new"
    BY <1>0, <1>6, TargetIsListener DEF Notify, TypeOK
  <2> QED BY <2>1, <2>2 DEF Subscribed
<1>7. CASE Stop \/ Join \/ Start \/ Dispatch \/ PushBack \/ Lock \/ UNCHANGED vars
  <2>1. UNCHANGED <<posted, handled, pc>>
    BY <1>7 DEF Stop, Join, Start, Dispatch, PushBack, Lock, vars, listenerVars
  <2> QED BY <2>1 DEF Subscribed
<1> QED BY <1>2, <1>3, <1>4, <1>5, <1>6, <1>7 DEF Next

\* The event service keeps the promise of EventStream (events.h:53-64): whoever
\* subscribes handles every later event, in order, each once.
THEOREM BusIsStream == Spec => ImplementsStream
<1>1. Init => Stream!Init
  BY DEF Init, Stream!Init, Subscribed
<1>2. Inv /\ OrderInv /\ [Next]_vars => [Stream!Next]_<<posted, Subscribed, handled>>
  BY StreamStep
<1> QED BY <1>1, <1>2, OrderKept, PTL DEF Spec, ImplementsStream, Stream!Spec

-----------------------------------------------------------------------------
(* Scripts.                                                                *)

\* Each step of the framework is a step of the event service or leaves it alone:
\* a subscription, the end of an event, or neither.
LEMMA StepIsBusStep == ScriptNext => [Next]_vars
<1> SUFFICES ASSUME ScriptNext PROVE [Next]_vars
  OBVIOUS
<1>1. CASE BusAlone
  BY <1>1 DEF BusAlone, Next
<1>2. CASE LoadFramework \/ LoadFails \/ ApplicationReturns
  BY <1>2 DEF LoadFramework, LoadFails, ApplicationReturns
<1>3. CASE ScriptSubscribe
  BY <1>3, JsAssumption DEF ScriptSubscribe, Next
<1>4. CASE Require \/ \E i \in DOMAIN listeners : OnAll(i)
  BY <1>4 DEF Require, OnAll
<1>5. EmitEnds => Next
  BY JsAssumption DEF EmitEnds, Next
<1>6. CASE Emit
  BY <1>6, <1>5 DEF Emit
<1>7. CASE CallbackReturns
  BY <1>7, <1>5 DEF CallbackReturns
<1>8. CASE CallbackThrows
  BY <1>8, <1>5 DEF CallbackThrows
<1> QED
  BY <1>1, <1>2, <1>3, <1>4, <1>6, <1>7, <1>8 DEF ScriptNext

\* The engine with its scripts implements the event service (application.js:62-67,
\* engine.cc:140-166).
THEOREM FrameworkIsBus == ScriptSpec => Spec
<1>1. ScriptInit => Init
  BY DEF ScriptInit
<1>2. [ScriptNext]_allVars => [Next]_vars
  BY StepIsBusStep DEF allVars
<1> QED
  BY <1>1, <1>2, PTL DEF ScriptSpec, Spec

\* No script can make the engine or a websocket session miss its notification
\* (engine.cc:131-135 against 156-161).
THEOREM ScriptsLoseNoWakeup == ScriptSpec => []NoLostWakeup
BY FrameworkIsBus, WakeupNeverLost, PTL

\* Nor can it make one of them lose, repeat or reorder an event.
THEOREM ScriptsLoseNoEvent == ScriptSpec => []NoGap /\ ImplementsStream
BY FrameworkIsBus, NothingIsLost, BusIsStream, PTL

-----------------------------------------------------------------------------
(* What a callback hears.  The invariant looks at one callback at a time:  *)
(* the events it is due begin where it was registered and end with the     *)
(* last event that got as far as its place in the list.                    *)

Begun(place) == IF place <= emit.at THEN current[Js] ELSE handled[Js]

Spoilt(n, place) == \E t \in thrown : t.event = n /\ t.at < place

Due(c, place) == {n \in since[c] + 1 .. Begun(place) : ~Spoilt(n, place)}

EventsHeard(c) == {heard[c][j] : j \in DOMAIN heard[c]}

InTurn(c) == \A j, k \in DOMAIN heard[c] : j < k => heard[c][j] < heard[c][k]

Hears(i, place) ==
    /\ InTurn(listeners[i][place])
    /\ EventsHeard(listeners[i][place]) =
         IF i = 1 THEN Due(listeners[1][place], place) ELSE {}

\* CallbacksHearEvents, one callback at a time.
LEMMA HearsByCallback ==
    CallbacksHearEvents <=> \A i \in DOMAIN listeners :
                               \A place \in DOMAIN listeners[i] : Hears(i, place)
  BY ZenonT(60) DEF CallbacksHearEvents, Hears, InTurn, EventsHeard, Due, Begun, Spoilt

\* The engine subscribes after application.js has made its Domoio; before that
\* nothing is heard or thrown.
Started ==
    /\ engine \in {"application", "ready"} => listeners # <<>>
    /\ engine = "ready" \/ pc[Js] = "new"
    /\ pc[Js] = "new" => thrown = {} /\ \A c \in DOMAIN heard : heard[c] = <<>>

\* Each place of each list holds a callback of its own.
Registered ==
    /\ \A i \in DOMAIN listeners :
          \A place \in DOMAIN listeners[i] : listeners[i][place] \in DOMAIN since
    /\ \A i, k \in DOMAIN listeners :
          \A p \in DOMAIN listeners[i], q \in DOMAIN listeners[k] :
             listeners[i][p] = listeners[k][q] => i = k /\ p = q

\* The loop of emit stays within the list, which only grows meanwhile.
Emitting == emit.at > 0 => emit.at <= emit.length /\ emit.length <= Len(listeners[1])

ThrownBefore == \A t \in thrown : t.event <= handled[Js]

\* A callback registered while an event is given out is not due that event.
SinceWhen ==
    1 \in DOMAIN listeners => \A place \in DOMAIN listeners[1] :
        IF emit.at > 0 /\ place > emit.length
        THEN since[listeners[1][place]] = current[Js]
        ELSE since[listeners[1][place]] <= handled[Js]

AllHear ==
    \A i \in DOMAIN listeners : \A place \in DOMAIN listeners[i] : Hears(i, place)

ScriptInv ==
    /\ ScriptTypeOK
    /\ Started
    /\ Registered
    /\ Emitting
    /\ ThrownBefore
    /\ SinceWhen
    /\ AllHear

\* What the types say of the callbacks.
LEMMA CallbackTypes ==
    ASSUME ScriptInv, NEW i \in DOMAIN listeners
    PROVE  /\ i \in Nat /\ listeners[i] \in Seq(1 .. MaxCallbacks)
           /\ Len(listeners[i]) \in Nat
           /\ DOMAIN listeners[i] = 1 .. Len(listeners[i])
           /\ \A place \in DOMAIN listeners[i] :
                 /\ place \in Nat \ {0}
                 /\ listeners[i][place] \in DOMAIN since
                 /\ listeners[i][place] \in DOMAIN heard
                 /\ since[listeners[i][place]] \in Nat
                 /\ heard[listeners[i][place]] \in Seq(Nat)
<1>1. /\ listeners \in Seq(Seq(1 .. MaxCallbacks))
      /\ since \in Seq(Nat) /\ heard \in Seq(Seq(Nat)) /\ Len(since) = Len(heard)
  BY DEF ScriptInv, ScriptTypeOK
<1>2. i \in Nat /\ listeners[i] \in Seq(1 .. MaxCallbacks)
  BY <1>1
<1>3. /\ Len(listeners[i]) \in Nat
      /\ DOMAIN listeners[i] = 1 .. Len(listeners[i])
  BY <1>2
<1>4. ASSUME NEW place \in DOMAIN listeners[i]
      PROVE  /\ place \in Nat \ {0}
             /\ listeners[i][place] \in DOMAIN since
             /\ listeners[i][place] \in DOMAIN heard
             /\ since[listeners[i][place]] \in Nat
             /\ heard[listeners[i][place]] \in Seq(Nat)
  <2>1. listeners[i][place] \in DOMAIN since
    BY DEF ScriptInv, Registered
  <2>2. DOMAIN since = DOMAIN heard
    BY <1>1
  <2> QED
    BY <2>1, <2>2, <1>1, <1>3
<1> QED
  BY <1>2, <1>3, <1>4

\* The engine's thread is its own: what the others do leaves the event it
\* handles, and the last one it has handled, as they are.
LEMMA OthersLeaveEngine ==
    ASSUME TypeOK, BusAlone
    PROVE  /\ handled'[Js] = handled[Js]
           /\ pc[Js] = "handling" => pc'[Js] = "handling" /\ current'[Js] = current[Js]
           /\ pc'[Js] = "new" <=> pc[Js] = "new"
<1> USE JsAssumption DEF TypeOK
<1>1. CASE Send \/ Stop \/ Join \/ Start \/ Dispatch \/ PushBack \/ Lock
  BY <1>1 DEF Send, Stop, Join, Start, Dispatch, PushBack, Lock, listenerVars
<1>2. CASE Notify
  BY <1>2 DEF Notify
<1>3. ASSUME NEW l \in Listeners,
             \/ Acquire(l) \/ FindEmpty(l) \/ Wait(l)
             \/ SpuriousWakeup(l) \/ Take(l) \/ TakeCorrupts(l)
      PROVE  /\ handled'[Js] = handled[Js]
             /\ pc[Js] = "handling" => pc'[Js] = "handling" /\ current'[Js] = current[Js]
             /\ pc'[Js] = "new" <=> pc[Js] = "new"
  BY <1>3 DEF Acquire, FindEmpty, Wait, SpuriousWakeup, Take, TakeCorrupts, listenerVars
<1>4. ASSUME NEW l \in Listeners \ {Js}, Subscribe(l) \/ FinishEvent(l)
      PROVE  /\ handled'[Js] = handled[Js]
             /\ pc[Js] = "handling" => pc'[Js] = "handling" /\ current'[Js] = current[Js]
             /\ pc'[Js] = "new" <=> pc[Js] = "new"
  BY <1>4 DEF Subscribe, FinishEvent
<1> QED
  BY <1>1, <1>2, <1>3, <1>4 DEF BusAlone

\* A step that changes nothing of the scripts, nor the event the engine handles,
\* changes nothing of what is heard.
LEMMA QuietStep ==
    ASSUME ScriptInv, UNCHANGED scriptVars,
           handled'[Js] = handled[Js],
           pc[Js] = "handling" => pc'[Js] = "handling" /\ current'[Js] = current[Js],
           pc'[Js] = "new" <=> pc[Js] = "new"
    PROVE  ScriptInv'
<1>1. emit.at > 0 => current'[Js] = current[Js]
  BY DEF ScriptInv, ScriptTypeOK
<1>2. ScriptTypeOK'
  BY DEF ScriptInv, ScriptTypeOK, scriptVars
<1>3. Started' /\ Registered' /\ Emitting' /\ ThrownBefore'
  BY DEF ScriptInv, Started, Registered, Emitting, ThrownBefore, scriptVars
<1>4. SinceWhen'
  BY <1>1 DEF ScriptInv, SinceWhen, scriptVars
<1>5. AllHear'
  <2> SUFFICES ASSUME NEW i \in DOMAIN listeners, NEW place \in DOMAIN listeners[i]
               PROVE  Hears(i, place)'
    BY DEF AllHear, scriptVars
  <2>1. Hears(i, place) /\ place \in Nat \ {0} /\ emit.at \in Nat
    BY CallbackTypes DEF ScriptInv, AllHear, ScriptTypeOK
  <2>2. Begun(place)' = Begun(place)
    BY <2>1, <1>1 DEF Begun, scriptVars
  <2> QED
    BY <2>1, <2>2 DEF Hears, InTurn, EventsHeard, Due, Spoilt, scriptVars
<1> QED
  BY <1>2, <1>3, <1>4, <1>5 DEF ScriptInv

\* The engine starts: the first Domoio has no callbacks yet.
LEMMA LoadStep ==
    ASSUME ScriptInv, LoadFramework \/ LoadFails \/ ApplicationReturns
    PROVE  ScriptInv'
<1>1. UNCHANGED <<pc, current, handled, emit, since, heard, thrown>>
  BY DEF LoadFramework, LoadFails, ApplicationReturns, vars, listenerVars
<1>2. emit.at = 0 /\ pc[Js] = "new"
  BY DEF LoadFramework, LoadFails, ApplicationReturns, ScriptInv, ScriptTypeOK, Started
<1>3. CASE LoadFramework
  <2>1. listeners' = <<<<>>>> /\ engine' = "application"
    BY <1>3 DEF LoadFramework
  <2>2. listeners' \in Seq(Seq(1 .. MaxCallbacks)) /\ listeners' # <<>>
    BY <2>1
  <2>3. \A i \in DOMAIN listeners' : DOMAIN listeners'[i] = {}
    BY <2>1
  <2>4. ScriptTypeOK' /\ Started'
    BY <1>1, <1>2, <2>1, <2>2 DEF ScriptInv, ScriptTypeOK, Started
  <2>5. Registered' /\ SinceWhen' /\ AllHear'
    BY <2>3 DEF Registered, SinceWhen, AllHear
  <2> QED
    BY <1>1, <1>2, <2>4, <2>5 DEF ScriptInv, Emitting, ThrownBefore
<1>4. CASE LoadFails \/ ApplicationReturns
  <2>1. /\ UNCHANGED listeners /\ engine' \in {"failed", "ready"}
        /\ engine' = "ready" => engine = "application"
    BY <1>4 DEF LoadFails, ApplicationReturns
  <2>2. ScriptTypeOK' /\ Started'
    BY <1>1, <1>2, <2>1 DEF ScriptInv, ScriptTypeOK, Started
  <2>3. AllHear'
    BY <1>1, <2>1 DEF ScriptInv, AllHear, Hears, InTurn, EventsHeard, Due, Begun, Spoilt
  <2> QED
    BY <1>1, <2>1, <2>2, <2>3
       DEF ScriptInv, Registered, Emitting, ThrownBefore, SinceWhen
<1> QED
  BY <1>3, <1>4

\* The engine subscribes: the callbacks registered so far are due the events
\* dispatched from now on.
LEMMA SubscribeStep ==
    ASSUME ScriptInv, TypeOK, QueueBound, ScriptSubscribe
    PROVE  ScriptInv'
<1>1. /\ pc[Js] = "new" /\ pc'[Js] = "locking" /\ engine = "ready"
      /\ handled'[Js] = dispatched
      /\ since' = [c \in DOMAIN since |-> dispatched]
      /\ UNCHANGED <<engine, listeners, emit, heard, thrown, current>>
  BY JsAssumption DEF ScriptSubscribe, Subscribe, TypeOK
<1>2. dispatched \in Nat
  BY DEF dispatched, QueueBound, TypeOK
<1>3. /\ since \in Seq(Nat) /\ since' \in Seq(Nat) /\ DOMAIN since' = DOMAIN since
      /\ Len(since') = Len(since)
  <2>1. since \in Seq(Nat)
    BY DEF ScriptInv, ScriptTypeOK
  <2>2. Len(since) \in Nat /\ DOMAIN since = 1 .. Len(since)
    BY <2>1
  <2>3. since' = [c \in 1 .. Len(since) |-> dispatched]
    BY <1>1, <2>2
  <2> QED
    BY <2>1, <2>2, <2>3, <1>2
<1>4. emit.at = 0 /\ thrown = {} /\ \A c \in DOMAIN heard : heard[c] = <<>>
  BY <1>1 DEF ScriptInv, ScriptTypeOK, Started
<1>5. ScriptTypeOK'
  BY <1>1, <1>3, <1>4 DEF ScriptInv, ScriptTypeOK
<1>6. Started' /\ Registered' /\ Emitting' /\ ThrownBefore'
  BY <1>1, <1>3, <1>4 DEF ScriptInv, Started, Registered, Emitting, ThrownBefore
<1>7. SinceWhen' /\ AllHear'
  <2>1. ASSUME NEW i \in DOMAIN listeners, NEW place \in DOMAIN listeners[i]
        PROVE  since'[listeners[i][place]] = dispatched /\ Hears(i, place)'
    <3>1. /\ place \in Nat \ {0} /\ listeners[i][place] \in DOMAIN since
          /\ heard[listeners[i][place]] = <<>>
      BY <1>4, CallbackTypes
    <3>2. since'[listeners[i][place]] = dispatched
      BY <3>1, <1>1
    <3>3. Begun(place)' = dispatched
      BY <3>1, <1>1, <1>4 DEF Begun
    <3>4. Due(listeners[i][place], place)' = {}
      BY <3>2, <3>3, <1>1, <1>2 DEF Due
    <3>5. InTurn(listeners[i][place])' /\ EventsHeard(listeners[i][place])' = {}
      BY <3>1, <1>1 DEF InTurn, EventsHeard
    <3> QED
      BY <3>2, <3>4, <3>5, <1>1 DEF Hears
  <2>2. AllHear'
    BY <2>1, <1>1 DEF AllHear
  <2>3. SinceWhen'
    BY <2>1, <1>1, <1>2, <1>4 DEF SinceWhen
  <2> QED
    BY <2>2, <2>3
<1> QED
  BY <1>5, <1>6, <1>7 DEF ScriptInv

\* Require makes a Domoio without callbacks, beside the first.
LEMMA RequireStep ==
    ASSUME ScriptInv, Require
    PROVE  ScriptInv'
<1>1. /\ listeners' = Append(listeners, <<>>)
      /\ UNCHANGED <<pc, current, handled, engine, emit, since, heard, thrown>>
  BY DEF Require, vars, listenerVars
<1>2. listeners # <<>> /\ listeners \in Seq(Seq(1 .. MaxCallbacks))
  BY DEF Require, UserRuns, ScriptInv, ScriptTypeOK, Started
<1>3. /\ listeners' \in Seq(Seq(1 .. MaxCallbacks)) /\ listeners' # <<>>
      /\ \A i \in DOMAIN listeners : i \in DOMAIN listeners' /\ listeners'[i] = listeners[i]
      /\ \A i \in DOMAIN listeners' : i \notin DOMAIN listeners => listeners'[i] = <<>>
      /\ 1 \in DOMAIN listeners
  <2>1. <<>> \in Seq(1 .. MaxCallbacks)
    OBVIOUS
  <2> HIDE DEF ScriptInv
  <2> QED
    BY <1>1, <1>2, <2>1
<1>4. ScriptTypeOK' /\ Started'
  BY <1>1, <1>3 DEF ScriptInv, ScriptTypeOK, Started
<1>5. ASSUME NEW i \in DOMAIN listeners', NEW place \in DOMAIN listeners'[i]
      PROVE  i \in DOMAIN listeners /\ listeners'[i] = listeners[i]
  BY <1>3
<1>6. Registered'
  BY <1>1, <1>5 DEF ScriptInv, Registered
<1>7. Emitting' /\ ThrownBefore' /\ SinceWhen'
  BY <1>1, <1>3 DEF ScriptInv, Emitting, ThrownBefore, SinceWhen
<1>8. AllHear'
  <2> SUFFICES ASSUME NEW i \in DOMAIN listeners', NEW place \in DOMAIN listeners'[i]
               PROVE  Hears(i, place)'
    BY DEF AllHear
  <2>1. Hears(i, place)
    BY <1>5 DEF ScriptInv, AllHear
  <2>2. listeners'[i] = listeners[i] /\ listeners'[1] = listeners[1]
    BY <1>3, <1>5
  <2>3. \A c : InTurn(c)' = InTurn(c) /\ EventsHeard(c)' = EventsHeard(c)
    BY <1>1 DEF InTurn, EventsHeard
  <2>4. \A c : Due(c, place)' = Due(c, place)
    BY <1>1 DEF Due, Begun, Spoilt
  <2> QED
    BY <2>1, <2>2, <2>3, <2>4 DEF Hears
<1> QED
  BY <1>4, <1>6, <1>7, <1>8 DEF ScriptInv

\* onAll: a callback that has heard nothing, due what comes after the event that
\* is being given out, if any.
LEMMA OnAllStep ==
    ASSUME ScriptInv, TypeOK, NEW n \in DOMAIN listeners, OnAll(n),
           pc[Js] = "handling" => current[Js] = handled[Js] + 1
    PROVE  ScriptInv'
<1> DEFINE from == IF emit.at > 0 THEN current[Js] ELSE handled[Js]
           end == Len(listeners[n]) + 1
<1>0. PICK c \in Nat : c = Len(since) + 1
  BY DEF ScriptInv, ScriptTypeOK
<1>1. /\ listeners' = [listeners EXCEPT ![n] = Append(listeners[n], c)]
      /\ since' = Append(since, from) /\ heard' = Append(heard, <<>>)
      /\ UNCHANGED <<pc, current, handled, engine, emit, thrown>>
  BY <1>0 DEF OnAll, vars, listenerVars
<1>2. /\ listeners \in Seq(Seq(1 .. MaxCallbacks)) /\ since \in Seq(Nat)
      /\ heard \in Seq(Seq(Nat)) /\ Len(since) = Len(heard) /\ Len(since) \in Nat
      /\ c \in 1 .. MaxCallbacks /\ from \in Nat
      /\ DOMAIN since = 1 .. Len(since) /\ DOMAIN heard = 1 .. Len(since)
      /\ n \in Nat /\ listeners[n] \in Seq(1 .. MaxCallbacks)
  <2>1. /\ listeners \in Seq(Seq(1 .. MaxCallbacks)) /\ since \in Seq(Nat)
        /\ heard \in Seq(Seq(Nat)) /\ Len(since) = Len(heard)
    BY DEF ScriptInv, ScriptTypeOK
  <2>2. from \in Nat
    BY JsAssumption DEF TypeOK
  <2>3. Len(since) \in Nat
    BY <2>1
  <2>4. Len(since) < MaxCallbacks /\ MaxCallbacks \in Nat
    BY CallbacksAssumption DEF OnAll
  <2>5. n \in Nat /\ listeners[n] \in Seq(1 .. MaxCallbacks)
    BY CallbackTypes
  <2> QED
    BY <2>1, <2>2, <2>3, <2>4, <2>5, <1>0
<1>3. /\ DOMAIN listeners' = DOMAIN listeners
      /\ listeners'[n] = Append(listeners[n], c)
      /\ \A i \in DOMAIN listeners : i # n => listeners'[i] = listeners[i]
      /\ listeners' \in Seq(Seq(1 .. MaxCallbacks))
  <2> HIDE DEF from, end
  <2>1. Append(listeners[n], c) \in Seq(1 .. MaxCallbacks)
    BY <1>2
  <2> QED
    BY <2>1, <1>1, <1>2
<1>4. /\ DOMAIN listeners'[n] = 1 .. end /\ listeners'[n][end] = c
      /\ \A p \in DOMAIN listeners[n] : listeners'[n][p] = listeners[n][p]
      /\ DOMAIN listeners[n] = 1 .. end - 1 /\ end \in Nat \ {0}
  BY <1>2, <1>3, AppendFacts
<1>5. /\ since' \in Seq(Nat) /\ Len(since') = c /\ since'[c] = from
      /\ \A d \in DOMAIN since : since'[d] = since[d] /\ d \in DOMAIN since'
      /\ heard' \in Seq(Seq(Nat)) /\ Len(heard') = c /\ heard'[c] = <<>>
      /\ \A d \in DOMAIN since : heard'[d] = heard[d]
      /\ c \in DOMAIN since' /\ c \notin DOMAIN since /\ DOMAIN heard' = 1 .. c
  <2>1. <<>> \in Seq(Nat)
    OBVIOUS
  <2> HIDE DEF from
  <2> QED
    BY <2>1, <1>0, <1>1, <1>2
<1>6. ASSUME NEW i \in DOMAIN listeners', NEW p \in DOMAIN listeners'[i]
      PROVE  /\ i \in DOMAIN listeners
             /\ \/ /\ p \in DOMAIN listeners[i]
                   /\ listeners'[i][p] = listeners[i][p]
                   /\ listeners[i][p] \in DOMAIN since
                \/ i = n /\ p = end /\ listeners'[i][p] = c
  <2>1. i \in DOMAIN listeners
    BY <1>3
  <2>2. CASE i # n
    BY <2>1, <2>2, <1>3, CallbackTypes
  <2>3. CASE i = n /\ p = end
    BY <2>1, <2>3, <1>4
  <2>4. CASE i = n /\ p # end
    <3>1. p \in DOMAIN listeners[n]
      BY <2>4, <1>4
    <3> QED
      BY <2>1, <2>4, <3>1, <1>4, CallbackTypes
  <2> QED
    BY <2>2, <2>3, <2>4
<1> HIDE DEF from, end
<1>7. ScriptTypeOK' /\ Emitting'
  <2>1. listeners' \in Seq(Seq(1 .. MaxCallbacks))
    BY <1>3
  <2>2. ScriptTypeOK'
    BY <2>1, <1>1, <1>5 DEF ScriptInv, ScriptTypeOK
  <2>3. emit.at > 0 /\ n = 1 => emit.length <= Len(listeners'[1])
    BY <1>2, <1>3, <1>4 DEF ScriptInv, Emitting, ScriptTypeOK, end
  <2>4. emit.at > 0 /\ n # 1 => listeners'[1] = listeners[1]
    <3>1. engine = "ready" \/ emit.at = 0
      BY DEF ScriptInv, ScriptTypeOK
    <3>2. CASE engine = "ready"
      <4>1. 1 \in DOMAIN listeners
        BY <3>2, <1>2 DEF ScriptInv, Started
      <4> QED
        BY <4>1, <1>3
    <3> QED
      BY <3>1, <3>2
  <2> QED
    BY <2>2, <2>3, <2>4, <1>1 DEF ScriptInv, Emitting
<1>8. Started' /\ ThrownBefore'
  <2>1. listeners' # <<>>
    BY <1>3, <1>2
  <2>2. pc[Js] = "new" => \A d \in DOMAIN heard' : heard'[d] = <<>>
    <3> SUFFICES ASSUME pc[Js] = "new", NEW d \in DOMAIN heard'
                 PROVE  heard'[d] = <<>>
      OBVIOUS
    <3>1. d = c \/ d \in DOMAIN since
      <4>1. d \in 1 .. c
        BY <1>5
      <4>2. DOMAIN since = 1 .. Len(since) /\ Len(since) \in Nat
        BY <1>2
      <4> QED
        BY <4>1, <4>2, <1>0
    <3> QED
      BY <3>1, <1>2, <1>5 DEF ScriptInv, Started
  <2> QED
    BY <2>1, <2>2, <1>1 DEF ScriptInv, Started, ThrownBefore
<1>9. Registered'
  <2>1. \A i \in DOMAIN listeners' : \A p \in DOMAIN listeners'[i] :
           listeners'[i][p] \in DOMAIN since'
    BY <1>5, <1>6
  <2>2. ASSUME NEW i \in DOMAIN listeners', NEW k \in DOMAIN listeners',
               NEW p \in DOMAIN listeners'[i], NEW q \in DOMAIN listeners'[k],
               listeners'[i][p] = listeners'[k][q]
        PROVE  i = k /\ p = q
    <3>1. CASE listeners'[i][p] = c
      <4>1. c \notin DOMAIN since
        BY <1>5
      <4>2. i = n /\ p = end
        BY <4>1, <3>1, <1>6
      <4>3. k = n /\ q = end
        BY <4>1, <3>1, <2>2, <1>6
      <4> QED
        BY <4>2, <4>3
    <3>2. CASE listeners'[i][p] # c
      BY <3>2, <2>2, <1>5, <1>6 DEF ScriptInv, Registered
    <3> QED
      BY <3>1, <3>2
  <2> QED
    BY <2>1, <2>2 DEF Registered
<1>10. SinceWhen'
  <2> SUFFICES ASSUME 1 \in DOMAIN listeners', NEW p \in DOMAIN listeners'[1]
               PROVE  IF emit.at > 0 /\ p > emit.length
                      THEN since'[listeners'[1][p]] = current[Js]
                      ELSE since'[listeners'[1][p]] <= handled[Js]
    BY <1>1 DEF SinceWhen
  <2>1. CASE p \in DOMAIN listeners[1] /\ listeners'[1][p] = listeners[1][p]
             /\ listeners[1][p] \in DOMAIN since
    BY <2>1, <1>3, <1>5 DEF ScriptInv, SinceWhen
  <2>2. CASE n = 1 /\ p = end /\ listeners'[1][p] = c
    <3>1. since'[listeners'[1][p]] = from
      BY <2>2, <1>5
    <3>2. emit.at > 0 => p > emit.length
      BY <2>2, <1>2 DEF ScriptInv, Emitting, ScriptTypeOK, end
    <3>3. handled[Js] \in Nat
      BY JsAssumption DEF TypeOK
    <3> QED
      BY <3>1, <3>2, <3>3 DEF from
  <2> QED
    BY <2>1, <2>2, <1>6
<1>11. AllHear'
  <2> SUFFICES ASSUME NEW i \in DOMAIN listeners', NEW p \in DOMAIN listeners'[i]
               PROVE  Hears(i, p)'
    BY DEF AllHear
  <2>1. CASE /\ p \in DOMAIN listeners[i]
             /\ listeners'[i][p] = listeners[i][p]
             /\ listeners[i][p] \in DOMAIN since
    <3>1. Hears(i, p)
      BY <2>1, <1>3 DEF ScriptInv, AllHear
    <3>2. /\ since'[listeners[i][p]] = since[listeners[i][p]]
          /\ heard'[listeners[i][p]] = heard[listeners[i][p]]
      BY <2>1, <1>5
    <3> DEFINE d == listeners[i][p]
    <3>3. InTurn(d)' /\ EventsHeard(d)' = EventsHeard(d)
      BY <3>1, <3>2, <2>1 DEF Hears, InTurn, EventsHeard
    <3>4. Due(d, p)' = Due(d, p)
      BY <3>2, <2>1, <1>1 DEF Due, Begun, Spoilt
    <3> QED
      BY <3>1, <3>3, <3>4, <2>1 DEF Hears
  <2>2. CASE i = n /\ p = end /\ listeners'[i][p] = c
    <3>1. InTurn(c)' /\ EventsHeard(c)' = {}
      BY <1>5 DEF InTurn, EventsHeard
    <3>2. i = 1 => Due(c, p)' = {}
      <4> SUFFICES ASSUME i = 1 PROVE Due(c, p)' = {}
        OBVIOUS
      <4>1. since'[c] = from
        BY <1>5
      <4>2. emit.at > 0 => ~(p <= emit.at)
        BY <2>2, <1>2 DEF ScriptInv, Emitting, ScriptTypeOK, end
      <4>3. p \in Nat \ {0} /\ emit.at \in Nat
        BY <2>2, <1>4 DEF ScriptInv, ScriptTypeOK
      <4>4. Begun(p)' = handled[Js]
        BY <4>2, <4>3, <1>1 DEF Begun
      <4>5. handled[Js] \in Nat /\ handled[Js] <= from
        BY JsAssumption DEF TypeOK, from, ScriptInv, ScriptTypeOK
      <4> QED
        BY <4>1, <4>4, <4>5, <1>2 DEF Due
    <3> QED
      BY <3>1, <3>2, <2>2 DEF Hears
  <2> QED
    BY <2>1, <2>2, <1>6
<1> QED
  BY <1>7, <1>8, <1>9, <1>10, <1>11 DEF ScriptInv

\* While the engine handles an event, no callback has thrown in it yet, and the
\* application's list is there.
LEMMA WhileHandling ==
    ASSUME ScriptInv, TypeOK, pc[Js] = "handling", current[Js] = handled[Js] + 1
    PROVE  /\ engine = "ready" /\ 1 \in DOMAIN listeners
           /\ handled[Js] \in Nat /\ current[Js] \in Nat
           /\ \A place : ~Spoilt(current[Js], place)
<1>1. engine = "ready" /\ listeners # <<>> /\ listeners \in Seq(Seq(1 .. MaxCallbacks))
  BY DEF ScriptInv, ScriptTypeOK, Started
<1>2. 1 \in DOMAIN listeners
  BY <1>1
<1>3. handled[Js] \in Nat /\ current[Js] \in Nat
  BY JsAssumption DEF TypeOK
<1>4. ASSUME NEW place PROVE ~Spoilt(current[Js], place)
  <2>1. \A t \in thrown : t.event \in Nat /\ t.event <= handled[Js]
    BY DEF ScriptInv, ScriptTypeOK, ThrownBefore
  <2> QED
    BY <2>1, <1>3 DEF Spoilt
<1> QED
  BY <1>1, <1>2, <1>3, <1>4

\* The event being given out becomes one more that a callback hears, its latest.
LEMMA HearsOneMore ==
    ASSUME NEW h \in Seq(Nat), NEW n \in Nat,
           \A j, k \in DOMAIN h : j < k => h[j] < h[k],
           \A j \in DOMAIN h : h[j] < n
    PROVE  LET g == Append(h, n)
           IN  /\ \A j, k \in DOMAIN g : j < k => g[j] < g[k]
               /\ {g[j] : j \in DOMAIN g} = {h[j] : j \in DOMAIN h} \cup {n}
<1> DEFINE g == Append(h, n)
<1>1. /\ Len(h) \in Nat /\ DOMAIN h = 1 .. Len(h)
      /\ DOMAIN g = 1 .. Len(h) + 1 /\ g[Len(h) + 1] = n
      /\ \A j \in DOMAIN h : g[j] = h[j]
  BY AppendFacts
<1> HIDE DEF g
<1>2. ASSUME NEW j \in DOMAIN g, NEW k \in DOMAIN g, j < k PROVE g[j] < g[k]
  <2>1. j \in DOMAIN h
    BY <1>1, <1>2
  <2>2. CASE k \in DOMAIN h
    BY <2>1, <2>2, <1>1, <1>2
  <2>3. CASE k = Len(h) + 1
    BY <2>1, <2>3, <1>1
  <2> QED
    BY <2>2, <2>3, <1>1
<1>3. ASSUME NEW j \in DOMAIN g PROVE g[j] \in {h[k] : k \in DOMAIN h} \cup {n}
  <2>1. CASE j \in DOMAIN h
    BY <2>1, <1>1
  <2>2. CASE j = Len(h) + 1
    BY <2>2, <1>1
  <2> QED
    BY <2>1, <2>2, <1>1
<1>4. /\ \A j \in DOMAIN h : j \in DOMAIN g /\ g[j] = h[j]
      /\ Len(h) + 1 \in DOMAIN g /\ g[Len(h) + 1] = n
  BY <1>1
<1> QED
  BY <1>2, <1>3, <1>4 DEF g

\* emit calls the callback at the next place (domoio.coffee:20-21).
LEMMA CallStep ==
    ASSUME ScriptInv, TypeOK, pc[Js] = "handling", current[Js] = handled[Js] + 1,
           NEW q \in DOMAIN listeners[1], q = emit.at + 1, Calls(q),
           emit' \in [at : Nat, length : Nat], emit'.at = q, q <= emit'.length,
           emit'.length = IF emit.at > 0 THEN emit.length ELSE Len(listeners[1]),
           UNCHANGED <<vars, engine, callbackVars, thrown>>
    PROVE  ScriptInv'
<1>1. /\ engine = "ready" /\ 1 \in DOMAIN listeners
      /\ handled[Js] \in Nat /\ current[Js] \in Nat
      /\ \A place : ~Spoilt(current[Js], place)
  BY WhileHandling
<1>2. UNCHANGED <<pc, current, handled, engine, listeners, since, thrown>>
  BY DEF vars, listenerVars, callbackVars
<1>3. PICK d \in DOMAIN heard : d = listeners[1][q]
  BY <1>1, CallbackTypes
<1>4. /\ heard \in Seq(Seq(Nat)) /\ heard[d] \in Seq(Nat)
      /\ Len(heard) \in Nat /\ DOMAIN heard = 1 .. Len(heard)
      /\ q \in Nat \ {0} /\ emit.at \in Nat /\ emit.length \in Nat
      /\ Len(listeners[1]) \in Nat /\ DOMAIN listeners[1] = 1 .. Len(listeners[1])
      /\ since[d] \in Nat
  BY SMTT(60), <1>1, <1>3, CallbackTypes DEF ScriptInv, ScriptTypeOK
<1>5. heard' = [heard EXCEPT ![d] = Append(heard[d], current[Js])]
  BY <1>3 DEF Calls
<1>6. /\ heard' \in Seq(Seq(Nat)) /\ Len(heard') = Len(heard)
      /\ DOMAIN heard' = DOMAIN heard
      /\ heard'[d] = Append(heard[d], current[Js])
      /\ \A c \in DOMAIN heard : c # d => heard'[c] = heard[c]
  <2>1. Append(heard[d], current[Js]) \in Seq(Nat)
    BY <1>1, <1>4
  <2> QED
    BY <2>1, <1>4, <1>5
<1>7. ScriptTypeOK' /\ Started'
  BY <1>1, <1>2, <1>6 DEF ScriptInv, ScriptTypeOK, Started
<1>8. Registered' /\ ThrownBefore'
  BY <1>2 DEF ScriptInv, Registered, ThrownBefore
<1>9. Emitting'
  BY <1>2, <1>4 DEF ScriptInv, Emitting
<1>10. SinceWhen'
  <2> SUFFICES ASSUME NEW p \in DOMAIN listeners[1]
               PROVE  IF p > emit'.length
                      THEN since[listeners[1][p]] = current[Js]
                      ELSE since[listeners[1][p]] <= handled[Js]
    BY SMTT(60), <1>2, <1>4 DEF SinceWhen
  <2>1. p \in Nat /\ p <= Len(listeners[1])
    BY <1>4
  <2>2. IF emit.at > 0 /\ p > emit.length
        THEN since[listeners[1][p]] = current[Js]
        ELSE since[listeners[1][p]] <= handled[Js]
    BY <1>1 DEF ScriptInv, SinceWhen
  <2>3. CASE emit.at > 0
    <3>1. emit'.length = emit.length
      BY <2>3
    <3> QED
      BY <2>2, <2>3, <3>1
  <2>4. CASE ~(emit.at > 0)
    <3>1. emit'.length = Len(listeners[1])
      BY <2>4
    <3>2. ~(p > emit'.length)
      BY <2>1, <3>1, <1>4
    <3> QED
      BY <2>2, <2>4, <3>2
  <2> QED
    BY <2>3, <2>4
<1>11. since[d] <= handled[Js]
  BY <1>1, <1>3, <1>4 DEF ScriptInv, SinceWhen
<1>12. \A p : Spoilt(current[Js], p)' = Spoilt(current[Js], p)
  BY <1>2 DEF Spoilt
<1>13. ASSUME NEW i \in DOMAIN listeners, NEW p \in DOMAIN listeners[i]
       PROVE  Hears(i, p)'
  <2>0. Hears(i, p) /\ p \in Nat /\ listeners[i][p] \in DOMAIN heard
    BY CallbackTypes DEF ScriptInv, AllHear
  <2>1. CASE listeners[i][p] = d
    <3>1. i = 1 /\ p = q
      BY <2>1, <1>1, <1>3 DEF ScriptInv, Registered
    <3>2. /\ InTurn(d) /\ EventsHeard(d) = Due(d, q)
      BY <2>0, <2>1, <3>1, <1>3 DEF Hears
    <3>3. Begun(q) = handled[Js] /\ Begun(q)' = current[Js]
      BY <1>2, <1>4 DEF Begun
    <3>4. \A j \in DOMAIN heard[d] : heard[d][j] < current[Js]
      <4>1. ASSUME NEW j \in DOMAIN heard[d] PROVE heard[d][j] < current[Js]
        <5>1. heard[d][j] \in Due(d, q)
          BY <3>2 DEF EventsHeard
        <5>2. heard[d][j] \in since[d] + 1 .. handled[Js]
          BY <5>1, <3>3 DEF Due
        <5> QED
          BY SMTT(60), <5>2, <1>1, <1>4
      <4> QED
        BY <4>1
    <3>5. /\ \A j, k \in DOMAIN heard'[d] : j < k => heard'[d][j] < heard'[d][k]
          /\ {heard'[d][j] : j \in DOMAIN heard'[d]}
               = {heard[d][j] : j \in DOMAIN heard[d]} \cup {current[Js]}
      <4> DEFINE h == heard[d]
                 n == current[Js]
      <4>1. /\ h \in Seq(Nat) /\ n \in Nat /\ heard'[d] = Append(h, n)
            /\ \A j, k \in DOMAIN h : j < k => h[j] < h[k]
            /\ \A j \in DOMAIN h : h[j] < n
        BY <3>2, <3>4, <1>1, <1>4, <1>6 DEF InTurn
      <4> HIDE DEF h, n
      <4>2. LET g == Append(h, n)
            IN  /\ \A j, k \in DOMAIN g : j < k => g[j] < g[k]
                /\ {g[j] : j \in DOMAIN g} = {h[j] : j \in DOMAIN h} \cup {n}
        BY <4>1, HearsOneMore
      <4> QED
        BY SMTT(60), <4>1, <4>2 DEF h, n
    <3>6. InTurn(d)' /\ EventsHeard(d)' = EventsHeard(d) \cup {current[Js]}
      BY <3>5 DEF InTurn, EventsHeard
    <3>7. Due(d, q)' = Due(d, q) \cup {current[Js]}
      <4>1. \A n : Spoilt(n, q)' <=> Spoilt(n, q)
        BY <1>2 DEF Spoilt
      <4>2. since[d] + 1 .. current[Js] = (since[d] + 1 .. handled[Js]) \cup {current[Js]}
        <5>1. \A a, b \in Nat : a <= b => a + 1 .. b + 1 = (a + 1 .. b) \cup {b + 1}
          OBVIOUS
        <5>2. /\ since[d] \in Nat /\ handled[Js] \in Nat /\ since[d] <= handled[Js]
              /\ current[Js] = handled[Js] + 1
          BY <1>1, <1>4, <1>11
        <5> QED
          BY <5>1, <5>2
      <4> QED
        BY <4>1, <4>2, <3>3, <1>1, <1>2 DEF Due
    <3> QED
      BY <3>1, <3>2, <3>6, <3>7, <1>2, <1>3 DEF Hears
  <2>2. CASE listeners[i][p] # d
    <3> DEFINE c == listeners[i][p]
    <3>1. heard'[c] = heard[c]
      BY <2>0, <2>2, <1>6
    <3>2. InTurn(c)' = InTurn(c) /\ EventsHeard(c)' = EventsHeard(c)
      BY <3>1, <1>2 DEF InTurn, EventsHeard
    <3>3. i = 1 => p # q
      BY <2>2, <1>3
    <3>4. i = 1 => Begun(p)' = Begun(p)
      BY <3>3, <2>0, <1>2, <1>4 DEF Begun
    <3>5. i = 1 => Due(c, p)' = Due(c, p)
      BY <3>4, <1>2 DEF Due, Spoilt
    <3> QED
      BY <3>2, <3>5, <2>0, <1>2 DEF Hears
  <2> QED
    BY <2>1, <2>2
<1>14. AllHear'
  BY <1>2, <1>13 DEF AllHear
<1> QED
  BY <1>7, <1>8, <1>9, <1>10, <1>14 DEF ScriptInv

\* trigger_event ends, with every callback of the list called or with the one
\* that threw: those after it in the list are never due this event.
LEMMA EndStep ==
    ASSUME ScriptInv, TypeOK, pc[Js] = "handling", current[Js] = handled[Js] + 1,
           EmitEnds,
           \/ emit.at = 0 /\ listeners[1] = <<>> /\ thrown' = thrown
           \/ emit.at > 0 /\ emit.at = emit.length /\ thrown' = thrown
           \/ /\ emit.at > 0
              /\ thrown' = thrown \cup {[event |-> current[Js], at |-> emit.at]}
    PROVE  ScriptInv'
<1>1. /\ engine = "ready" /\ 1 \in DOMAIN listeners
      /\ handled[Js] \in Nat /\ current[Js] \in Nat
      /\ \A place : ~Spoilt(current[Js], place)
  BY WhileHandling
<1>2. /\ UNCHANGED <<engine, listeners, since, heard, current>>
      /\ emit' = [at |-> 0, length |-> 0]
      /\ handled'[Js] = current[Js] /\ pc'[Js] = "checking"
  BY JsAssumption DEF EmitEnds, FinishEvent, callbackVars, TypeOK
<1>3. /\ emit.at \in Nat /\ emit.length \in Nat
      /\ Len(listeners[1]) \in Nat /\ DOMAIN listeners[1] = 1 .. Len(listeners[1])
  BY <1>1, CallbackTypes DEF ScriptInv, ScriptTypeOK
<1>0. PICK now \in Nat : now = current[Js]
  BY <1>1
<1>4. /\ thrown' \subseteq [event : Nat, at : Nat]
      /\ \A t \in thrown' : t.event <= now
      /\ \A t \in thrown : t \in thrown'
      /\ \A t \in thrown' :
            t \in thrown \/ (t.event = now /\ t.at = emit.at /\ emit.at > 0)
  <2> DEFINE t0 == [event |-> now, at |-> emit.at]
  <2>1. \/ thrown' = thrown
        \/ emit.at > 0 /\ thrown' = thrown \cup {t0}
    BY <1>0
  <2>2. t0 \in [event : Nat, at : Nat] /\ t0.event = now /\ t0.at = emit.at
    BY <1>0, <1>3
  <2>3. \A t \in thrown : t \in [event : Nat, at : Nat] /\ t.event <= now
    <3>1. \A t \in thrown : t \in [event : Nat, at : Nat] /\ t.event <= handled[Js]
      BY DEF ScriptInv, ScriptTypeOK, ThrownBefore
    <3>2. now = handled[Js] + 1 /\ handled[Js] \in Nat
      BY <1>0, <1>1
    <3> QED
      BY <3>1, <3>2
  <2> HIDE DEF t0
  <2> QED
    BY <2>1, <2>2, <2>3
<1>5. ScriptTypeOK' /\ Started'
  BY <1>1, <1>2, <1>4 DEF ScriptInv, ScriptTypeOK, Started
<1>6. Registered' /\ Emitting' /\ ThrownBefore'
  BY <1>0, <1>2, <1>4 DEF ScriptInv, Registered, Emitting, ThrownBefore
<1>7. ASSUME NEW p \in DOMAIN listeners[1]
      PROVE  /\ since[listeners[1][p]] \in Nat /\ p \in Nat \ {0}
             /\ since[listeners[1][p]] <= current[Js]
  <2>1. since[listeners[1][p]] \in Nat /\ p \in Nat \ {0}
    BY <1>1, CallbackTypes
  <2>2. \/ since[listeners[1][p]] = current[Js]
        \/ since[listeners[1][p]] <= handled[Js]
    BY <1>1 DEF ScriptInv, SinceWhen
  <2> QED
    BY <2>1, <2>2, <1>1
<1>8. SinceWhen'
  BY <1>2, <1>7 DEF SinceWhen
<1>9. ASSUME NEW p \in DOMAIN listeners[1]
      PROVE  Due(listeners[1][p], p)' = Due(listeners[1][p], p)
  <2>0. PICK c : c = listeners[1][p]
    OBVIOUS
  <2>1. /\ since'[c] = since[c] /\ since[c] \in Nat /\ p \in Nat \ {0}
        /\ listeners'[1][p] = c
    BY <2>0, <1>2, <1>7
  <2> SUFFICES Due(c, p)' = Due(c, p)
    BY <2>0, <2>1
  <2>2. Begun(p)' = now
    BY <1>0, <1>2, <2>1 DEF Begun
  <2>3. \A n \in Nat : n # now => (Spoilt(n, p)' <=> Spoilt(n, p))
    BY <1>4 DEF Spoilt
  <2>4. CASE p <= emit.at
    <3>1. Begun(p) = now
      BY <1>0, <2>4 DEF Begun
    <3>2. ~Spoilt(now, p)
      BY <1>0, <1>1
    <3>3. ~Spoilt(now, p)'
      BY <2>1, <2>4, <3>2, <1>3, <1>4 DEF Spoilt
    <3>4. \A n \in Nat : Spoilt(n, p)' <=> Spoilt(n, p)
      BY <2>3, <3>2, <3>3
    <3> QED
      BY <2>1, <2>2, <3>1, <3>4 DEF Due
  <2>5. CASE emit.at < p /\ p <= emit.length /\ emit.at > 0
    <3>1. Begun(p) = handled[Js]
      BY <2>1, <2>5, <1>3 DEF Begun
    <3>2. [event |-> now, at |-> emit.at] \in thrown'
      BY <1>0, <2>1, <2>5, <1>3
    <3>3. Spoilt(now, p)'
      BY <3>2, <2>5 DEF Spoilt
    <3>4. \A n \in Nat : n \in since[c] + 1 .. now /\ n # now
                           <=> n \in since[c] + 1 .. handled[Js]
      BY <2>1, <1>0, <1>1
    <3>5. since[c] + 1 .. now \subseteq Nat /\ since[c] + 1 .. handled[Js] \subseteq Nat
      BY <2>1
    <3>6. ASSUME NEW n PROVE n \in Due(c, p)' <=> n \in Due(c, p)
      <4>1. n \in Due(c, p)' <=> n \in since[c] + 1 .. now /\ ~Spoilt(n, p)'
        BY <2>1, <2>2 DEF Due
      <4>2. n \in Due(c, p) <=> n \in since[c] + 1 .. handled[Js] /\ ~Spoilt(n, p)
        BY <3>1 DEF Due
      <4>3. CASE n = now
        BY <4>1, <4>2, <4>3, <3>3, <3>4
      <4>4. CASE n # now
        BY <4>1, <4>2, <4>4, <2>3, <3>4, <3>5
      <4> QED
        BY <4>3, <4>4
    <3> QED
      BY <3>6 DEF Due
  <2>6. CASE p > emit.length /\ emit.at > 0
    <3>1. since[c] = now
      BY <1>0, <2>0, <2>6, <1>1 DEF ScriptInv, SinceWhen
    <3>2. Begun(p) = handled[Js]
      BY <2>1, <2>6, <1>3 DEF Begun, ScriptInv, Emitting
    <3>3. since[c] + 1 .. handled[Js] = {} /\ since[c] + 1 .. now = {}
      BY <1>0, <3>1, <1>1
    <3> QED
      BY <2>1, <2>2, <3>2, <3>3 DEF Due
  <2>7. emit.at > 0
    <3>1. listeners[1] # <<>>
      BY <1>3, <2>1
    <3> QED
      BY <3>1
  <2> QED
    BY <2>1, <2>4, <2>5, <2>6, <2>7, <1>3
<1>10. AllHear'
  <2> SUFFICES ASSUME NEW i \in DOMAIN listeners, NEW p \in DOMAIN listeners[i]
               PROVE  Hears(i, p)'
    BY <1>2 DEF AllHear
  <2>1. Hears(i, p)
    BY DEF ScriptInv, AllHear
  <2>2. \A c : InTurn(c)' = InTurn(c) /\ EventsHeard(c)' = EventsHeard(c)
    BY <1>2 DEF InTurn, EventsHeard
  <2> QED
    BY <2>1, <2>2, <1>2, <1>9 DEF Hears
<1> QED
  BY <1>5, <1>6, <1>8, <1>10 DEF ScriptInv

-----------------------------------------------------------------------------

LEMMA ScriptInitInv == ScriptInit => ScriptInv
<1> SUFFICES ASSUME ScriptInit PROVE ScriptInv
  OBVIOUS
<1> USE JsAssumption DEF ScriptInit, Init
<1>1. ScriptTypeOK
  BY DEF ScriptTypeOK
<1>2. DOMAIN listeners = {}
  OBVIOUS
<1>3. Started
  BY DEF Started
<1> QED
  BY <1>1, <1>2, <1>3
     DEF ScriptInv, Registered, Emitting, ThrownBefore, SinceWhen, AllHear

LEMMA ScriptStepInv ==
    ASSUME ScriptInv, TypeOK, QueueBound, NoGap, ScriptNext
    PROVE  ScriptInv'
<1>1. pc[Js] = "handling" => current[Js] = handled[Js] + 1
  BY JsAssumption DEF NoGap, Subscribed
<1>2. CASE BusAlone
  BY <1>2, OthersLeaveEngine, QuietStep DEF BusAlone
<1>3. CASE LoadFramework \/ LoadFails \/ ApplicationReturns
  BY <1>3, LoadStep
<1>4. CASE ScriptSubscribe
  BY <1>4, SubscribeStep
<1>5. ASSUME NEW i \in DOMAIN listeners, OnAll(i) PROVE ScriptInv'
  BY <1>1, <1>5, OnAllStep
<1>6. CASE Require
  BY <1>6, RequireStep
<1>7. CASE Emit
  <2>1. pc[Js] = "handling" /\ emit.at = 0 /\ thrown' = thrown
    BY <1>7 DEF Emit
  <2>2. /\ 1 \in DOMAIN listeners /\ Len(listeners[1]) \in Nat
        /\ DOMAIN listeners[1] = 1 .. Len(listeners[1])
        /\ listeners[1] \in Seq(1 .. MaxCallbacks)
    BY <2>1, <1>1, WhileHandling, CallbackTypes
  <2>3. CASE listeners[1] = <<>>
    BY <2>1, <2>3, <1>1, <1>7, EndStep DEF Emit
  <2>4. CASE listeners[1] # <<>>
    <3>1. /\ Calls(1) /\ emit' = [at |-> 1, length |-> Len(listeners[1])]
          /\ UNCHANGED <<vars, engine, callbackVars>>
      BY <2>4, <1>7 DEF Emit
    <3>2. 1 \in DOMAIN listeners[1] /\ 1 <= Len(listeners[1])
      BY <2>2, <2>4
    <3> QED
      BY <2>1, <2>2, <3>1, <3>2, <1>1, CallStep
  <2> QED
    BY <2>3, <2>4
<1>8. CASE CallbackReturns
  <2>1. pc[Js] = "handling" /\ emit.at > 0 /\ thrown' = thrown
    BY <1>8 DEF CallbackReturns, ScriptInv, ScriptTypeOK
  <2>2. CASE emit.at = emit.length
    BY <2>1, <2>2, <1>1, <1>8, EndStep DEF CallbackReturns
  <2>3. CASE emit.at # emit.length
    <3>1. /\ Calls(emit.at + 1) /\ emit' = [emit EXCEPT !.at = @ + 1]
          /\ UNCHANGED <<vars, engine, callbackVars>>
      BY <2>3, <1>8 DEF CallbackReturns
    <3>2. /\ DOMAIN listeners[1] = 1 .. Len(listeners[1]) /\ Len(listeners[1]) \in Nat
          /\ emit \in [at : Nat, length : Nat]
      BY <2>1, <1>1, WhileHandling, CallbackTypes DEF ScriptInv, ScriptTypeOK
    <3>3. emit.at + 1 \in DOMAIN listeners[1] /\ emit.at + 1 <= emit.length
      BY <2>1, <2>3, <3>2 DEF ScriptInv, Emitting
    <3>4. /\ emit' \in [at : Nat, length : Nat]
          /\ emit'.at = emit.at + 1 /\ emit'.length = emit.length
      BY <3>1, <3>2
    <3> QED
      BY <2>1, <3>1, <3>3, <3>4, <1>1, CallStep
  <2> QED
    BY <2>2, <2>3
<1>9. CASE CallbackThrows
  <2>1. /\ pc[Js] = "handling" /\ emit.at > 0 /\ EmitEnds
        /\ thrown' = thrown \cup {[event |-> current[Js], at |-> emit.at]}
    BY <1>9 DEF CallbackThrows, ScriptInv, ScriptTypeOK
  <2> QED
    BY <2>1, <1>1, EndStep
<1> QED
  BY <1>2, <1>3, <1>4, <1>5, <1>6, <1>7, <1>8, <1>9 DEF ScriptNext

THEOREM ScriptInvariance == ScriptSpec => []ScriptInv
<1>1. ScriptInv /\ UNCHANGED allVars => ScriptInv'
  <2> SUFFICES ASSUME ScriptInv, UNCHANGED allVars PROVE ScriptInv'
    OBVIOUS
  <2> QED
    BY QuietStep DEF allVars, vars, listenerVars
<1>2. ScriptInv /\ Inv /\ NoGap /\ [ScriptNext]_allVars => ScriptInv'
  BY <1>1, ScriptStepInv DEF Inv
<1>3. Spec => []Inv /\ []NoGap
  BY OrderKept, NothingIsLost, PTL
<1> QED
  BY <1>2, <1>3, ScriptInitInv, FrameworkIsBus, PTL DEF ScriptSpec

\* The framework's state keeps its types, and emit runs only in a handler of the
\* engine (application.js:62-67).
THEOREM ScriptTypeCorrect == ScriptSpec => []ScriptTypeOK
BY ScriptInvariance, PTL DEF ScriptInv

\* domoio.coffee:20-21 and application.js:53-67, for any number of callbacks,
\* Domoios and events: what a callback hears is what the engine handles from its
\* registration on, in order and once, but for the events in which a callback
\* before it throws; a callback of another Domoio hears nothing.
THEOREM CallbacksHear == ScriptSpec => []CallbacksHearEvents
BY ScriptInvariance, HearsByCallback, PTL DEF ScriptInv, AllHear

=============================================================================
