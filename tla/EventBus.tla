------------------------------ MODULE EventBus ------------------------------
(***************************************************************************)
(* The event service (events.cc) and the listeners that consume it: the    *)
(* JavaScript engine (jsengine/engine.cc) and the websocket sessions       *)
(* (httpd/actions/http_events.cc), which are written alike.                *)
(*                                                                         *)
(* events::send posts the event to an io_service that one thread runs, the *)
(* events thread.  For each event it calls the listeners' slots one after  *)
(* the other.  A slot pushes the event on the listener's deque WITHOUT the *)
(* mutex, then takes the mutex and notifies.  The listener's own thread    *)
(* holds the mutex whenever it is not waiting, also while it handles an    *)
(* event, so the events thread may be blocked for the whole of a script.   *)
(*                                                                         *)
(* push_back races with pop_front on an unprotected std::deque.  When the  *)
(* two overlap the model lets the pop either succeed or corrupt the deque; *)
(* a corrupt process takes no further step.                                *)
(*                                                                         *)
(* An event is named by its place in the order of sending.                 *)
(***************************************************************************)
EXTENDS Naturals, Sequences

CONSTANTS
    Listeners,
    MaxPosts     \* bounds the events a behaviour sends

ASSUME MaxPostsAssumption == MaxPosts \in Nat

VARIABLES
    posted,      \* events sent so far
    io_queue,    \* handlers posted to the io_service and not yet run
    service,     \* "running", "stopping" (stop called io_service.stop), "stopped"
    slots,       \* event_signals: the listeners in the order of subscription
    bus,         \* the events thread: pc, event, and the slots left to call
    queue,       \* the deque of each listener
    mutex,       \* "free", "bus" or "listener"
    pc,          \* the thread of each listener
    current,     \* the event it handles
    handled,     \* the last event it has handled
    corrupt      \* a deque was broken by two threads inside it

busVars == <<io_queue, service, bus>>
listenerVars == <<slots, pc, current, handled>>
vars == <<posted, busVars, listenerVars, queue, mutex, corrupt>>

Target == Head(bus.todo)

AtTarget(l) == bus.pc # "idle" /\ l = Target

HoldsMutex(l) == pc[l] \in {"checking", "sleeping", "handling"}

Subscribed == {l \in Listeners : pc[l] # "new"}

\* events whose handler has started
dispatched == posted - Len(io_queue)

TypeOK ==
    /\ posted \in Nat
    /\ io_queue \in Seq(Nat)
    /\ service \in {"running", "stopping", "stopped"}
    /\ slots \in Seq(Listeners)
    /\ bus \in [pc : {"idle", "pushing", "locking", "notifying"},
                event : Nat, todo : Seq(Listeners)]
    /\ bus.pc # "idle" => bus.todo # <<>>
    /\ queue \in [Listeners -> Seq(Nat)]
    /\ mutex \in [Listeners -> {"free", "bus", "listener"}]
    /\ pc \in [Listeners -> {"new", "locking", "checking", "sleeping", "waiting",
                             "handling"}]
    /\ current \in [Listeners -> Nat]
    /\ handled \in [Listeners -> Nat]
    /\ corrupt \in BOOLEAN

Init ==
    /\ posted = 0
    /\ io_queue = <<>>
    /\ service = "running"
    /\ slots = <<>>
    /\ bus = [pc |-> "idle", event |-> 0, todo |-> <<>>]
    /\ queue = [l \in Listeners |-> <<>>]
    /\ mutex = [l \in Listeners |-> "free"]
    /\ pc = [l \in Listeners |-> "new"]
    /\ current = [l \in Listeners |-> 0]
    /\ handled = [l \in Listeners |-> 0]
    /\ corrupt = FALSE

-----------------------------------------------------------------------------
(* Senders, and events::stop and events::start.                            *)

\* events::send, from any thread and also while the service is stopped.
Send ==
    /\ ~corrupt
    /\ posted < MaxPosts
    /\ posted' = posted + 1
    /\ io_queue' = Append(io_queue, posted + 1)
    /\ UNCHANGED <<service, bus, listenerVars, queue, mutex, corrupt>>

\* io_service.stop(): the events thread returns when its handler ends.  It takes
\* the mutex that post and run hold for a moment, so it is one step; but for a
\* signal handler on a thread that is inside them, see Shutdown.
Stop ==
    /\ ~corrupt
    /\ service = "running"
    /\ service' = "stopping"
    /\ UNCHANGED <<posted, io_queue, bus, listenerVars, queue, mutex, corrupt>>

\* Deviation: the handlers that have not run are dropped.
JoinDrops ==
    /\ ~corrupt
    /\ service = "stopping"
    /\ bus.pc = "idle"
    /\ service' = "stopped"
    /\ io_queue' = <<>>
    /\ UNCHANGED <<posted, bus, listenerVars, queue, mutex, corrupt>>

\* Deviation: stop waits until every posted handler has run.
JoinDrains ==
    /\ ~corrupt
    /\ service = "stopping"
    /\ bus.pc = "idle"
    /\ io_queue = <<>>
    /\ service' = "stopped"
    /\ UNCHANGED <<posted, io_queue, bus, listenerVars, queue, mutex, corrupt>>

\* m_threads.join_all() and io_service.reset(); what was posted stays queued.
Join ==
    /\ ~corrupt
    /\ service = "stopping"
    /\ bus.pc = "idle"
    /\ service' = "stopped"
    /\ UNCHANGED <<posted, io_queue, bus, listenerVars, queue, mutex, corrupt>>

Start ==
    /\ ~corrupt
    /\ service = "stopped"
    /\ service' = "running"
    /\ UNCHANGED <<posted, io_queue, bus, listenerVars, queue, mutex, corrupt>>

-----------------------------------------------------------------------------
(* The events thread.                                                      *)

\* Calls the next slot, or ends the handler.
CallSlots(todo, event) ==
    bus' = [pc |-> IF todo = <<>> THEN "idle" ELSE "pushing",
            event |-> event, todo |-> todo]

\* EventsService::handle: a slot connected from here on is not called.
Dispatch ==
    /\ ~corrupt
    /\ service = "running"
    /\ bus.pc = "idle"
    /\ io_queue # <<>>
    /\ io_queue' = Tail(io_queue)
    /\ CallSlots(slots, Head(io_queue))
    /\ UNCHANGED <<posted, service, listenerVars, queue, mutex, corrupt>>

\* queue.push_back(event), before the lock.
PushBack ==
    /\ ~corrupt
    /\ bus.pc = "pushing"
    /\ queue' = [queue EXCEPT ![Target] = Append(@, bus.event)]
    /\ bus' = [bus EXCEPT !.pc = "locking"]
    /\ UNCHANGED <<posted, io_queue, service, listenerVars, mutex, corrupt>>

\* Deviation: notifies without the lock.
LockSkipped ==
    /\ ~corrupt
    /\ bus.pc = "locking"
    /\ bus' = [bus EXCEPT !.pc = "notifying"]
    /\ UNCHANGED <<posted, io_queue, service, listenerVars, queue, mutex, corrupt>>

\* lock_guard lock(mutex).
Lock ==
    /\ ~corrupt
    /\ bus.pc = "locking"
    /\ mutex[Target] = "free"
    /\ mutex' = [mutex EXCEPT ![Target] = "bus"]
    /\ bus' = [bus EXCEPT !.pc = "notifying"]
    /\ UNCHANGED <<posted, io_queue, service, listenerVars, queue, corrupt>>

\* Deviation: unlocks without a notification.
NotifySkipped ==
    /\ ~corrupt
    /\ bus.pc = "notifying"
    /\ mutex' = [mutex EXCEPT ![Target] = "free"]
    /\ CallSlots(Tail(bus.todo), bus.event)
    /\ UNCHANGED <<posted, io_queue, service, listenerVars, queue, corrupt>>

\* cond.notify_one(), the end of the lock's scope, and on to the next slot.
Notify ==
    /\ ~corrupt
    /\ bus.pc = "notifying"
    /\ pc' = [pc EXCEPT ![Target] = IF @ = "waiting" THEN "locking" ELSE @]
    /\ mutex' = [mutex EXCEPT ![Target] = "free"]
    /\ CallSlots(Tail(bus.todo), bus.event)
    /\ UNCHANGED <<posted, io_queue, service, slots, current, handled, queue,
                   corrupt>>

-----------------------------------------------------------------------------
(* The thread of a listener: JsProcessor::run, EventsSession::init.         *)

\* add_listener; the events whose dispatch has begun will not reach l.
Subscribe(l) ==
    /\ ~corrupt
    /\ pc[l] = "new"
    /\ slots' = Append(slots, l)
    /\ pc' = [pc EXCEPT ![l] = "locking"]
    /\ handled' = [handled EXCEPT ![l] = dispatched]
    /\ UNCHANGED <<posted, busVars, current, queue, mutex, corrupt>>

\* unique_lock lock(mutex), and the lock again on the way out of cond.wait.
Acquire(l) ==
    /\ ~corrupt
    /\ pc[l] = "locking"
    /\ mutex[l] = "free"
    /\ mutex' = [mutex EXCEPT ![l] = "listener"]
    /\ pc' = [pc EXCEPT ![l] = "checking"]
    /\ UNCHANGED <<posted, busVars, slots, current, handled, queue, corrupt>>

\* queue.empty() answers true.  A push may come before cond.wait does.
FindEmpty(l) ==
    /\ ~corrupt
    /\ pc[l] = "checking"
    /\ queue[l] = <<>>
    /\ pc' = [pc EXCEPT ![l] = "sleeping"]
    /\ UNCHANGED <<posted, busVars, slots, current, handled, queue, mutex, corrupt>>

\* cond.wait(lock): releases the mutex and waits in one step.
Wait(l) ==
    /\ ~corrupt
    /\ pc[l] = "sleeping"
    /\ mutex' = [mutex EXCEPT ![l] = "free"]
    /\ pc' = [pc EXCEPT ![l] = "waiting"]
    /\ UNCHANGED <<posted, busVars, slots, current, handled, queue, corrupt>>

\* A condition variable may wake without a notification.
SpuriousWakeup(l) ==
    /\ ~corrupt
    /\ pc[l] = "waiting"
    /\ pc' = [pc EXCEPT ![l] = "locking"]
    /\ UNCHANGED <<posted, busVars, slots, current, handled, queue, mutex, corrupt>>

\* Deviation: takes the newest event.
TakeBack(l) ==
    /\ ~corrupt
    /\ pc[l] = "checking"
    /\ queue[l] # <<>>
    /\ current' = [current EXCEPT ![l] = queue[l][Len(queue[l])]]
    /\ queue' = [queue EXCEPT ![l] = SubSeq(@, 1, Len(@) - 1)]
    /\ pc' = [pc EXCEPT ![l] = "handling"]
    /\ UNCHANGED <<posted, busVars, slots, handled, mutex, corrupt>>

\* queue.front() and queue.pop_front().
Take(l) ==
    /\ ~corrupt
    /\ pc[l] = "checking"
    /\ queue[l] # <<>>
    /\ current' = [current EXCEPT ![l] = Head(queue[l])]
    /\ queue' = [queue EXCEPT ![l] = Tail(@)]
    /\ pc' = [pc EXCEPT ![l] = "handling"]
    /\ UNCHANGED <<posted, busVars, slots, handled, mutex, corrupt>>

\* The same while the events thread is inside push_back of the same deque.
TakeCorrupts(l) ==
    /\ ~corrupt
    /\ pc[l] = "checking"
    /\ queue[l] # <<>>
    /\ AtTarget(l) /\ bus.pc = "pushing"
    /\ corrupt' = TRUE
    /\ UNCHANGED <<posted, busVars, listenerVars, queue, mutex>>

\* trigger_event, or the send on the websocket, returns.
FinishEvent(l) ==
    /\ ~corrupt
    /\ pc[l] = "handling"
    /\ handled' = [handled EXCEPT ![l] = current[l]]
    /\ pc' = [pc EXCEPT ![l] = "checking"]
    /\ UNCHANGED <<posted, busVars, slots, current, queue, mutex, corrupt>>

-----------------------------------------------------------------------------

BusStep == Dispatch \/ PushBack \/ Lock \/ Notify

ListenerStep(l) ==
    Acquire(l) \/ FindEmpty(l) \/ Wait(l) \/ Take(l) \/ TakeCorrupts(l)
    \/ FinishEvent(l)

Next ==
    \/ Send \/ Stop \/ Join \/ Start
    \/ Dispatch \/ PushBack \/ Lock \/ Notify
    \/ \E l \in Listeners :
          \/ Subscribe(l) \/ Acquire(l) \/ FindEmpty(l) \/ Wait(l)
          \/ SpuriousWakeup(l) \/ Take(l) \/ TakeCorrupts(l) \/ FinishEvent(l)

Spec == Init /\ [][Next]_vars

\* Every thread keeps running; a thread that finds the mutex free again and
\* again gets it.  Nothing makes anyone send, stop, start, subscribe or wake
\* without cause.  WF(FinishEvent): scripts and sends return.
Fairness ==
    /\ WF_vars(Join) /\ WF_vars(Dispatch) /\ WF_vars(PushBack) /\ WF_vars(Notify)
    /\ SF_vars(Lock)
    /\ \A l \in Listeners :
          /\ SF_vars(Acquire(l))
          /\ WF_vars(FindEmpty(l) \/ Wait(l) \/ Take(l) \/ FinishEvent(l))

FairSpec == Spec /\ Fairness

-----------------------------------------------------------------------------
(* Properties.                                                             *)

\* No lost wake-up (engine.cc:131-135 against 156-161): a listener that sleeps,
\* or has decided to, over a non-empty deque has its notification coming: the
\* events thread is between the push on this deque and the notify.
NoLostWakeup ==
    \A l \in Listeners :
        pc[l] \in {"sleeping", "waiting"} /\ queue[l] # <<>>
            => AtTarget(l) /\ bus.pc \in {"locking", "notifying"}

\* Nothing is lost, repeated or reordered on the way to a listener: what it
\* handles, what its deque holds and what is still to be pushed are the events
\* from its subscription on, without a gap.
NoGap ==
    \A l \in Subscribed :
        LET base  == IF pc[l] = "handling" THEN current[l] ELSE handled[l]
            owing == bus.pc = "pushing" /\ \E i \in 1 .. Len(bus.todo) : bus.todo[i] = l
            later == bus.pc # "idle" /\ \E i \in 2 .. Len(bus.todo) : bus.todo[i] = l
        IN  /\ pc[l] = "handling" => current[l] = handled[l] + 1
            /\ \A i \in 1 .. Len(queue[l]) : queue[l][i] = base + i
            /\ base + Len(queue[l]) =
                 IF owing \/ later THEN dispatched - 1 ELSE dispatched

\* The event service implements the promise of EventStream.
Stream == INSTANCE EventStream WITH subscribed <- Subscribed
ImplementsStream == Stream!Spec

\* Each event that was sent is handled by each listener that subscribed before
\* its dispatch, unless the service is stopped or a deque breaks.
EveryEventHandled ==
    \A l \in Listeners : \A n \in 1 .. MaxPosts :
        (l \in Subscribed /\ handled[l] < n /\ n <= posted)
            ~> (handled[l] >= n \/ service # "running" \/ corrupt)

\* events::stop, called from a thread that is not a listener's, returns: the
\* events thread is not left waiting for a mutex, whatever the listeners do.
StopReturns == (service = "stopping") ~> (service = "stopped" \/ corrupt)

=============================================================================
