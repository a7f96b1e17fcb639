------------------------------ MODULE Shutdown ------------------------------
(***************************************************************************)
(* SIGINT (main.cc, domoio.cc, database.cc) against the threads that run   *)
(* on while it is handled: the events thread and the listeners of          *)
(* EventBus, the HTTP threads with their requests on the Vault, and the    *)
(* network thread.                                                         *)
(*                                                                         *)
(* The signal is delivered on any thread.  What that thread was doing      *)
(* waits for ever, with the locks it holds, and the handler runs there: it *)
(* deletes the commands, stops and joins the events thread, deletes the    *)
(* states and closes the connection to the database.  Each of these takes  *)
(* locks of the libraries, none of them recursive, which the interrupted   *)
(* thread may be holding.  No other thread is told: one that uses what was *)
(* deleted reads freed memory, which may end the process or not.           *)
(*                                                                         *)
(* One signal is modelled.  Nothing calls events::start again.             *)
(***************************************************************************)
EXTENDS EventBus, Vault

VARIABLES
    handler,  \* the thread that handles the signal
    exit,     \* what it does next
    inside,   \* the lock that the thread held when it was interrupted, of those
              \* that the handler takes too
    states,   \* the device states have not been deleted
    over      \* the process has ended

exitVars == <<handler, exit, inside, states, over>>
serverVars == <<vars, vaultVars, exitVars>>

Threads == HttpThreads \cup Listeners \cup {"network", "events"}
NoThread == "none"

\* The mutex of the event service's io_service, and those behind new and delete.
Locks == {"none", "io_service", "allocator"}

ServerTypeOK ==
    /\ TypeOK
    /\ VaultTypeOK
    /\ handler \in Threads \cup {NoThread}
    /\ exit \in {"no", "unregister", "stop", "join", "unload", "close", "exit"}
    /\ handler = NoThread <=> exit = "no"
    /\ inside \in Locks
    /\ states \in BOOLEAN
    /\ over \in BOOLEAN

ServerInit ==
    /\ Init
    /\ VaultInit
    /\ handler = NoThread
    /\ exit = "no"
    /\ inside = "none"
    /\ states = TRUE
    /\ over = FALSE

\* The handler waits on its own thread for a lock that the thread holds: the
\* allocator's, to delete a command, or the io_service's, to stop it.  Bound: what
\* the others do from then on, until they want that lock too, is left out.
LocksItself ==
    \/ exit = "unregister" /\ inside = "allocator"
    \/ exit = "stop" /\ inside = "io_service"

Goes == ~corrupt /\ ~over /\ ~LocksItself

Runs(thread) == Goes /\ thread # handler

Ended == over' = TRUE /\ UNCHANGED <<vars, vaultVars, handler, exit, inside, states>>

-----------------------------------------------------------------------------
(* The threads of the server.                                              *)

EventsThread ==
    /\ Runs("events")
    /\ Dispatch \/ PushBack \/ Lock \/ Notify
    /\ UNCHANGED <<vaultVars, exitVars>>

Listener(l) ==
    /\ Runs(l)
    /\ Subscribe(l) \/ SpuriousWakeup(l) \/ ListenerStep(l)
    /\ UNCHANGED <<vaultVars, exitVars>>

Http(t) ==
    /\ Runs(t)
    /\ \/ \E body \in DeviceBodies : PostDevice(t, body)
       \/ \E id \in DOMAIN rows :
             \/ \E body \in DeviceBodies : PutDevice(t, id, body)
             \/ \E port \in PortBodies : PostPort(t, id, port)
             \/ \E port \in PortBodies, key \in PortIds : PutPort(t, id, key, port)
       \/ Saved(t)
       \/ SaveFails(t)
    /\ UNCHANGED <<vars, exitVars>>

\* The threads that find a state and set a port: that of a request, the network
\* thread, a script.
UsesStates(thread) ==
    /\ Runs(thread)
    /\ \/ thread \in HttpThreads /\ request[thread] = NoRequest
       \/ thread \in Listeners /\ pc[thread] = "handling"
       \/ thread = "network"

\* PortState::set_value, which announces the change.
SetsPort(thread) ==
    /\ UsesStates(thread)
    /\ Send
    /\ UNCHANGED <<vaultVars, exitVars>>

\* Memory that is freed may end the process: a command's, a state's or the
\* connection's.
UsesDeleted(thread) ==
    /\ \/ Runs(thread) /\ thread = "network" /\ exit # "no"
       \/ UsesStates(thread) /\ ~states
       \/ Runs(thread) /\ thread \in HttpThreads /\ conn = "finished"
    /\ Ended

-----------------------------------------------------------------------------
(* exit_callback.                                                          *)

\* The thread is somewhere in a call that takes the lock: post, or run between two
\* handlers; memory, which every thread that does not wait allocates and frees,
\* in libpq too, which has no lock of its own around a statement.
MayHold(thread, lock) ==
    \/ lock = "none"
    \/ /\ lock = "io_service"
       /\ UsesStates(thread) \/ (thread = "events" /\ bus.pc = "idle")
    \/ /\ lock = "allocator"
       /\ thread = "events" => bus.pc # "locking"
       /\ thread \in Listeners => pc[thread] \notin {"locking", "waiting"}

\* With unregister_device_commands: what others do before its deletes they could as
\* well have done before the signal.
SigInt(thread, lock) ==
    /\ Runs(thread) /\ exit = "no"
    /\ MayHold(thread, lock)
    /\ handler' = thread
    /\ exit' = IF lock = "allocator" THEN "unregister" ELSE "stop"
    /\ inside' = lock
    /\ UNCHANGED <<vars, vaultVars, states, over>>

HandlerAt(step) == Goes /\ exit = step

\* The first half of events::stop.
StopsEvents ==
    /\ HandlerAt("stop")
    /\ Stop
    /\ exit' = "join"
    /\ UNCHANGED <<vaultVars, handler, inside, states, over>>

\* The events thread joins itself, which boost refuses with an exception.
JoinsItself ==
    /\ HandlerAt("join") /\ handler = "events"
    /\ Ended

JoinsEvents ==
    /\ HandlerAt("join") /\ handler # "events"
    /\ Join
    /\ exit' = "unload"
    /\ UNCHANGED <<vaultVars, handler, inside, states, over>>

UnloadsDevices ==
    /\ HandlerAt("unload")
    /\ states' = FALSE
    /\ exit' = "close"
    /\ UNCHANGED <<vars, vaultVars, handler, inside, over>>

ClosesDb ==
    /\ HandlerAt("close")
    /\ conn' = "finished"
    /\ exit' = "exit"
    /\ UNCHANGED <<vars, rows, request, requests, handler, inside, states, over>>

\* The destructor of a state with ports goes on from an iterator it has erased.
UnloadBreaks == HandlerAt("unload") /\ Ended

Exits == HandlerAt("exit") /\ Ended

Handles == StopsEvents \/ JoinsItself \/ JoinsEvents \/ UnloadsDevices \/ UnloadBreaks
           \/ ClosesDb \/ Exits

-----------------------------------------------------------------------------

ServerNext ==
    \/ EventsThread
    \/ \E l \in Listeners : Listener(l)
    \/ \E t \in HttpThreads : Http(t)
    \/ \E thread \in Threads : SetsPort(thread) \/ UsesDeleted(thread)
    \/ \E thread \in Threads, lock \in Locks : SigInt(thread, lock)
    \/ Handles

\* As in EventBus, for the threads that are not interrupted; and the handler runs.
ServerFairness ==
    /\ WF_serverVars(Handles)
    /\ WF_serverVars(EventsThread /\ (Dispatch \/ PushBack \/ Notify))
    /\ SF_serverVars(EventsThread /\ Lock)
    /\ \A l \in Listeners :
          /\ SF_serverVars(Listener(l) /\ Acquire(l))
          /\ WF_serverVars(Listener(l) /\ (FindEmpty(l) \/ Wait(l) \/ Take(l) \/ FinishEvent(l)))

ServerSpec == ServerInit /\ [][ServerNext]_serverVars /\ ServerFairness

-----------------------------------------------------------------------------
(* Properties.                                                             *)

\* The interrupted thread holds its mutex, and the events thread waits for it.
MeetsItself ==
    /\ handler \in Listeners
    /\ HoldsMutex(handler) /\ bus.pc = "locking" /\ Target = handler

=============================================================================
