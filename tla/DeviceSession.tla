---------------------------- MODULE DeviceSession ----------------------------
(***************************************************************************)
(* The device server: the TCP connections of network devices               *)
(* (device_connection.cc, server.cc), the commands they send               *)
(* (connection.cc, commands/), the device states the commands act on and,  *)
(* running beside the network thread, the threads that set ports.          *)
(*                                                                         *)
(* run_server runs every accept and read handler on one thread, so a       *)
(* handler is one atomic step of the model with respect to the other       *)
(* connections.  What a handler does to the registry and to the ports is   *)
(* interleaved with the steps of PortSetter.  Replies and the write queue  *)
(* are left out: a request that only answers (an empty line, an unknown    *)
(* command, "set") changes nothing here.                                   *)
(*                                                                         *)
(* A connection object is deleted by handle_accept alone, when the accept  *)
(* fails.  Every other connection stays allocated for good, with its       *)
(* socket open, at end of file, or closed.                                 *)
(***************************************************************************)
EXTENDS PortSetter

VARIABLES
    socket,           \* "idle" (no peer yet), "open", "eof", "closed", "deleted"
    session_started,
    device,           \* the DeviceState each connection points to
    logged_in,
    lifecycle,        \* last device_connected/device_disconnected of each id
    farewells         \* device_disconnected events posted by each connection

connVars == <<socket, session_started, device, logged_in>>
lifecycleVars == <<lifecycle, farewells>>
vars == <<registryVars, setterVars, connVars, lifecycleVars>>

NoEvent == [type |-> "none"]

TypeOK ==
    /\ RegistryTypeOK
    /\ SetterTypeOK
    /\ socket \in [Conns -> {"idle", "open", "eof", "closed", "deleted"}]
    /\ session_started \in [Conns -> BOOLEAN]
    /\ device \in [Conns -> StateObjs \cup {NULL}]
    /\ logged_in \in [Conns -> BOOLEAN]
    /\ lifecycle \in [DeviceIds -> {NoEvent} \cup
                        [type : {"connected", "disconnected"}, state : StateObjs]]
    /\ farewells \in [Conns -> Nat]

Init ==
    /\ LoadVirtualDevices
    /\ SetterInit
    /\ socket = [c \in Conns |-> "idle"]
    /\ session_started = [c \in Conns |-> FALSE]
    /\ device = [c \in Conns |-> NULL]
    /\ logged_in = [c \in Conns |-> FALSE]
    /\ lifecycle = [d \in DeviceIds |-> NoEvent]
    /\ farewells = [c \in Conns |-> 0]

-----------------------------------------------------------------------------
(* Accepting and losing connections.                                       *)

\* ~DeviceConnection, for the state the connection points to.
Destructor(c) ==
    IF device[c] = NULL
    THEN UNCHANGED <<heap, active_devices>>
    ELSE Disconnect(heap[device[c]].id)

HandleAccept(c) ==
    /\ process = "running"
    /\ socket[c] = "idle"
    /\ socket' = [socket EXCEPT ![c] = "open"]
    /\ UNCHANGED <<registryVars, setterVars, session_started, device, logged_in,
                   lifecycleVars>>

HandleAcceptError(c) ==
    /\ process = "running"
    /\ socket[c] = "idle"
    /\ socket' = [socket EXCEPT ![c] = "deleted"]
    /\ Destructor(c)
    /\ UNCHANGED <<process, setterVars, session_started, device, logged_in,
                   lifecycleVars>>

\* A connection whose read handler may run with a request.
Reading(c) == process = "running" /\ socket[c] = "open"

\* DeviceConnection::close, for a connection that points to state s.  The
\* event's constructor dereferences s: without a state the process dies.
Close(c, s) ==
    /\ socket' = [socket EXCEPT ![c] = "closed"]
    /\ process' = IF session_started[c] /\ s = NULL THEN "crashed" ELSE process
    /\ IF session_started[c] /\ s # NULL
       THEN /\ lifecycle' = [lifecycle EXCEPT ![heap[s].id] =
                               [type |-> "disconnected", state |-> s]]
            /\ farewells' = [farewells EXCEPT ![c] = @ + 1]
       ELSE UNCHANGED lifecycleVars

\* Deviation: the error handler deletes the state and forgets the map.
HandleReadEofDeletesState(c) ==
    /\ Reading(c)
    /\ socket' = [socket EXCEPT ![c] = "eof"]
    /\ heap' = [s \in DOMAIN heap \ {device[c]} |-> heap[s]]
    /\ UNCHANGED <<active_devices, process, setterVars, session_started, device,
                   logged_in, lifecycleVars>>

\* Deviation: any read error closes, the one that follows close() included.
HandleReadErrorCloses(c) ==
    /\ process = "running"
    /\ socket[c] \in {"open", "closed"}
    /\ Close(c, device[c])
    /\ UNCHANGED <<heap, active_devices, setterVars, session_started, device,
                   logged_in>>

\* end of file or a reset: handle_read logs it and starts no further read.
HandleReadEof(c) ==
    /\ Reading(c)
    /\ socket' = [socket EXCEPT ![c] = "eof"]
    /\ UNCHANGED <<registryVars, setterVars, session_started, device, logged_in,
                   lifecycleVars>>

-----------------------------------------------------------------------------
(* The commands.                                                           *)

\* create_session of an id with a database row.
CreateSession(c, d, s) ==
    /\ Reading(c)
    /\ Connect(d, s)
    /\ device' = [device EXCEPT ![c] = s]
    /\ session_started' = [session_started EXCEPT ![c] = TRUE]
    /\ lifecycle' = [lifecycle EXCEPT ![d] = [type |-> "connected", state |-> s]]
    /\ UNCHANGED <<process, setterVars, socket, logged_in, farewells>>

\* Deviation: the command answers 406 and leaves the connection open.
CreateSessionFailsOpen(c, d) ==
    /\ Reading(c)
    /\ device' = [device EXCEPT ![c] = Find(d)]
    /\ UNCHANGED <<registryVars, setterVars, socket, session_started, logged_in,
                   lifecycleVars>>

\* create_session when load_from_db fails (no such row, or the query failed):
\* the connection points to what find answered when it is closed.
CreateSessionFails(c, d) ==
    /\ Reading(c)
    /\ device' = [device EXCEPT ![c] = Find(d)]
    /\ Close(c, Find(d))
    /\ UNCHANGED <<heap, active_devices, setterVars, session_started, logged_in>>

\* A second login connects a second slot, which repeats the first one's messages.
RegisterDeviceSignals(c, s) ==
    heap' = [heap EXCEPT ![s].network_signals = @ \cup {c}]

\* Deviation: the state enters the map at login.
LoginRegisters(c) ==
    /\ Reading(c)
    /\ device[c] # NULL
    /\ logged_in' = [logged_in EXCEPT ![c] = TRUE]
    /\ active_devices' = [active_devices EXCEPT ![heap[device[c]].id] = device[c]]
    /\ UNCHANGED <<heap, process, setterVars, socket, session_started, device,
                   lifecycleVars>>

Login(c) ==
    /\ Reading(c)
    /\ device[c] # NULL
    /\ logged_in' = [logged_in EXCEPT ![c] = TRUE]
    /\ RegisterDeviceSignals(c, device[c])
    /\ UNCHANGED <<active_devices, process, setterVars, socket, session_started,
                   device, lifecycleVars>>

\* login with a wrong password, and the command "exit".
LoginRefusedOrExit(c) ==
    /\ Reading(c)
    /\ Close(c, device[c])
    /\ UNCHANGED <<heap, active_devices, setterVars, session_started, device,
                   logged_in>>

\* aps: what the tokens before the end, or before the first invalid port, set.
\* A token that does not scan reuses or leaves indeterminate id and value, so
\* it is some other element of Reports.
Reports(c) ==
    IF device[c] = NULL THEN {}
    ELSE UNION {[Q -> Values] : Q \in SUBSET DOMAIN heap[device[c]].value}

AllPortsState(c, report) ==
    /\ Reading(c)
    /\ device[c] # NULL
    /\ StoreValues(device[c], report)
    /\ UNCHANGED <<active_devices, process, setterVars, connVars, lifecycleVars>>

AllPortsStateInvalid(c, report) ==
    /\ Reading(c)
    /\ device[c] # NULL
    /\ StoreValues(device[c], report)
    /\ Close(c, device[c])
    /\ UNCHANGED <<active_devices, setterVars, session_started, device, logged_in>>

\* login with the right password, or aps with a token, before any session:
\* both dereference the device.
UseNullDevice(c) ==
    /\ Reading(c)
    /\ device[c] = NULL
    /\ process' = "crashed"
    /\ UNCHANGED <<heap, active_devices, setterVars, connVars, lifecycleVars>>

\* Deviation: nothing catches the exception.
MissingArgumentUncaught(c) ==
    /\ Reading(c)
    /\ process' = "exited"
    /\ UNCHANGED <<heap, active_devices, setterVars, connVars, lifecycleVars>>

\* A command without its argument: params->at throws.  process_input catches it
\* for a connection with a session; otherwise it ends run_server and main.
MissingArgument(c) ==
    /\ Reading(c)
    /\ IF session_started[c]
       THEN /\ socket' = [socket EXCEPT ![c] = "closed"]
            /\ session_started' = [session_started EXCEPT ![c] = FALSE]
            /\ UNCHANGED process
       ELSE /\ process' = "exited"
            /\ UNCHANGED <<socket, session_started>>
    /\ UNCHANGED <<heap, active_devices, setterVars, device, logged_in,
                   lifecycleVars>>

-----------------------------------------------------------------------------

ConnStep(c) ==
    \/ HandleAccept(c)
    \/ HandleAcceptError(c)
    \/ HandleReadEof(c)
    \/ \E d \in DeviceIds, s \in StateObjs : CreateSession(c, d, s)
    \/ \E d \in DeviceIds : CreateSessionFails(c, d)
    \/ Login(c)
    \/ LoginRefusedOrExit(c)
    \/ \E r \in Reports(c) : AllPortsState(c, r)
    \/ \E r \in Reports(c) : AllPortsStateInvalid(c, r)
    \/ UseNullDevice(c)
    \/ MissingArgument(c)

Next ==
    \/ \E c \in Conns : ConnStep(c)
    \/ \E w \in Setters : SetterStep(w) /\ UNCHANGED <<connVars, lifecycleVars>>

Spec == Init /\ [][Next]_vars

-----------------------------------------------------------------------------
(* Properties.                                                             *)

\* No thread holds a pointer to an object that was deleted: not a connection
\* to its state, not a setter to the port it is about to write (between find
\* and set_value the state may be replaced, device.cc:134), not a state's
\* signal to a connection.  It is what leaking every orphaned state buys.
NoDangling ==
    /\ \A c \in Conns :
          socket[c] # "deleted" /\ device[c] # NULL => device[c] \in DOMAIN heap
    /\ \A w \in Setters : setter[w] # Idle =>
          /\ setter[w].state \in DOMAIN heap
          /\ HasPort(setter[w].state, setter[w].port)
    /\ \A s \in DOMAIN heap : \A c \in heap[s].network_signals :
          socket[c] # "deleted"

LiveSession(c) == socket[c] = "open" /\ session_started[c]

\* Every live session points to a state, and to one that no other open
\* connection points to: login and aps never dereference NULL once a session
\* exists, and a device that takes an id over never writes the state of the
\* connection it took it from.
SessionOwnsState ==
    \A c \in Conns : LiveSession(c) =>
        /\ device[c] # NULL
        /\ \A e \in Conns \ {c} : socket[e] = "open" => device[e] # device[c]

\* What the events say and what find answers agree in one direction: after a
\* device_connected of an id, find answers the very state of that session until
\* the next lifecycle event of the id.
ConnectedIsRegistered ==
    \A d \in DeviceIds : lifecycle[d].type = "connected" => Find(d) = lifecycle[d].state

\* A connection says farewell at most once, and never while it is served, in
\* whatever order close, a failing handler and the end of file meet it.
OneFarewell ==
    \A c \in Conns : farewells[c] <= 1 /\ (farewells[c] = 1 => socket[c] = "closed")

\* A state that find does not answer any more is never answered again: an old
\* connection or a slow setter cannot bring a replaced state back.
OrphansStayOrphans ==
    [][\A s \in DOMAIN heap : (\A d \in DeviceIds : Find(d) # s)
                              => (\A d \in DeviceIds : Find(d)' # s)]_vars

\* A connection with a session stops the server only by asking for another
\* session: process_input contains every other error, whatever it sends
\* (device_connection.cc:163-168).  What the connections without a session do, and
\* the HTTP threads, excuses nothing.
SessionsAreContained ==
    [][\A c \in Conns :
          LiveSession(c) /\ ConnStep(c) => process' = process \/ device'[c] # device[c]]_vars

\* include/events.h:29, device_disconnected is "Sent when a device is
\* disconnected": an id last announced as connected has a live session.
DisconnectionAnnounced ==
    \A d \in DeviceIds : lifecycle[d].type = "connected" =>
        \E c \in Conns : LiveSession(c) /\ device[c] # NULL /\ heap[device[c]].id = d

\* The same line read the other way: an id last announced as disconnected has
\* no live session.
DisconnectedIsGone ==
    \A d \in DeviceIds : lifecycle[d].type = "disconnected" =>
        \A c \in Conns : LiveSession(c) => heap[device[c]].id # d

\* include/events.h:25, port_set is "Sent when a device change the state of a
\* port": once no setter is at work on it, the value of a port is the one that
\* was announced last.
PortChangesAnnounced ==
    \A s \in DOMAIN heap : \A p \in DOMAIN heap[s].value :
        (\A w \in Setters : setter[w] # Idle => setter[w].state # s)
            => heap[s].value[p] = announced[s][p]

=============================================================================
