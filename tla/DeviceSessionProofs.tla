------------------------- MODULE DeviceSessionProofs -------------------------
(***************************************************************************)
(* Proofs about DeviceSession, for any connections, devices, ports, values *)
(* and setter threads: type correctness, no dangling pointer, that a live  *)
(* session has a state of its own, and what the events of its history say. *)
(***************************************************************************)
EXTENDS DeviceSession, TLAPS

\* A connection nobody has connected to yet: it points to nothing and no state's
\* signal knows it (device_connection.cc:7-12).  It is why the one delete of a
\* connection, in handle_accept, never reaches a state.
FreshConnections ==
    \A c \in Conns : socket[c] \in {"idle", "deleted"} =>
        /\ device[c] = NULL
        /\ ~session_started[c]
        /\ \A s \in DOMAIN heap : c \notin heap[s].network_signals

\* The inductive invariant.  FreshConnections is what the four properties lack:
\* with it the delete in handle_accept disconnects nothing.
Inv == /\ TypeOK
       /\ RegistryCoherent
       /\ NoDangling
       /\ FreshConnections
       /\ SessionOwnsState

-----------------------------------------------------------------------------
(* The registry.                                                           *)

\* A state has exactly the ports of its device, and keeps its types.
LEMMA StateType ==
    ASSUME RegistryTypeOK, NEW s \in DOMAIN heap
    PROVE  /\ s \in StateObjs
           /\ heap[s].id \in DeviceIds
           /\ heap[s].value \in [PortsOf[heap[s].id] -> Values \cup {Unset}]
           /\ heap[s].network_signals \in SUBSET Conns
           /\ heap[s] = [id |-> heap[s].id, value |-> heap[s].value,
                         network_signals |-> heap[s].network_signals]
           /\ DOMAIN heap[s].value \subseteq PortIds
<1>1. PICK d \in DeviceIds : heap[s] \in DeviceStatesOf(d)
  BY DEF RegistryTypeOK
<1>2. PortsOf[d] \subseteq PortIds
  BY RegistryAssumption
<1> QED BY <1>1, <1>2 DEF RegistryTypeOK, DeviceStatesOf

\* A heap is well typed when each of its states is.
LEMMA HeapType ==
    ASSUME NEW h, NEW D \in SUBSET StateObjs, h = [s \in D |-> h[s]],
           \A s \in D : \E d \in DeviceIds : h[s] \in DeviceStatesOf(d)
    PROVE  /\ DOMAIN h \subseteq StateObjs
           /\ h \in [DOMAIN h -> UNION {DeviceStatesOf(d) : d \in DeviceIds}]
  OBVIOUS

\* DeviceState::connect: one more state, and the id's entry points to it.
LEMMA ConnectEffect ==
    ASSUME RegistryTypeOK, NEW d \in DeviceIds, NEW s \in StateObjs, Connect(d, s),
           process' = process
    PROVE  /\ RegistryTypeOK'
           /\ s \notin DOMAIN heap
           /\ DOMAIN heap' = DOMAIN heap \cup {s}
           /\ heap'[s] = NewState(d)
           /\ \A t \in DOMAIN heap : heap'[t] = heap[t]
           /\ DOMAIN active_devices' = DOMAIN active_devices \cup {d}
           /\ active_devices'[d] = s
           /\ \A e \in DOMAIN active_devices \ {d} :
                 active_devices'[e] = active_devices[e]
<1>1. /\ s \notin DOMAIN heap
      /\ DOMAIN heap' = DOMAIN heap \cup {s}
      /\ heap'[s] = NewState(d)
      /\ \A t \in DOMAIN heap : heap'[t] = heap[t]
      /\ heap' = [t \in DOMAIN heap' |-> heap'[t]]
  BY DEF Connect
<1>2. /\ DOMAIN active_devices' = DOMAIN active_devices \cup {d}
      /\ active_devices'[d] = s
      /\ \A e \in DOMAIN active_devices \ {d} : active_devices'[e] = active_devices[e]
      /\ active_devices' = [e \in DOMAIN active_devices' |-> active_devices'[e]]
  BY DEF Connect
<1>3. NewState(d) \in DeviceStatesOf(d)
  BY DEF NewState, DeviceStatesOf
<1>4. \A t \in DOMAIN heap' : \E e \in DeviceIds : heap'[t] \in DeviceStatesOf(e)
  BY <1>1, <1>3 DEF RegistryTypeOK
<1>5. /\ DOMAIN heap' \subseteq StateObjs
      /\ heap' \in [DOMAIN heap' -> UNION {DeviceStatesOf(e) : e \in DeviceIds}]
  <2>1. DOMAIN heap' \in SUBSET StateObjs
    BY <1>1 DEF RegistryTypeOK
  <2> QED BY <1>1, <1>4, <2>1, HeapType
<1>6. /\ DOMAIN active_devices' \subseteq DeviceIds
      /\ active_devices' \in [DOMAIN active_devices' -> StateObjs]
  BY <1>2 DEF RegistryTypeOK
<1> QED BY <1>1, <1>2, <1>5, <1>6 DEF RegistryTypeOK

\* The store that ends set_value changes no id, no port and no signal.
LEMMA StoreEffect ==
    ASSUME RegistryTypeOK, NEW s \in DOMAIN heap, NEW report,
           \A p \in DOMAIN report : report[p] \in Values,
           StoreValues(s, report), UNCHANGED <<active_devices, process>>
    PROVE  /\ RegistryTypeOK'
           /\ DOMAIN heap' = DOMAIN heap
           /\ \A t \in DOMAIN heap :
                 /\ heap'[t].id = heap[t].id
                 /\ DOMAIN heap'[t].value = DOMAIN heap[t].value
                 /\ heap'[t].network_signals = heap[t].network_signals
<1> DEFINE new == [p \in DOMAIN heap[s].value |->
                     IF p \in DOMAIN report THEN report[p] ELSE heap[s].value[p]]
<1>1. heap' = [heap EXCEPT ![s].value = new]
  BY DEF StoreValues
<1>2. new \in [PortsOf[heap[s].id] -> Values \cup {Unset}]
  BY StateType
<1> HIDE DEF new
<1>3. /\ DOMAIN heap' = DOMAIN heap
      /\ heap'[s] = [id |-> heap[s].id, value |-> new,
                     network_signals |-> heap[s].network_signals]
      /\ \A t \in DOMAIN heap \ {s} : heap'[t] = heap[t]
      /\ heap' = [t \in DOMAIN heap |-> heap'[t]]
  <2>1. heap'[s] = [heap[s] EXCEPT !.value = new]
    BY <1>1 DEF RegistryTypeOK
  <2>2. [heap[s] EXCEPT !.value = new] =
          [id |-> heap[s].id, value |-> new,
           network_signals |-> heap[s].network_signals]
    <3>1. heap[s] = [id |-> heap[s].id, value |-> heap[s].value,
                     network_signals |-> heap[s].network_signals]
      BY StateType
    <3> QED BY <3>1
  <2>3. /\ DOMAIN heap' = DOMAIN heap
        /\ \A t \in DOMAIN heap \ {s} : heap'[t] = heap[t]
        /\ heap' = [t \in DOMAIN heap |-> heap'[t]]
    BY <1>1 DEF RegistryTypeOK
  <2> QED BY <2>1, <2>2, <2>3
<1>4. heap'[s] \in DeviceStatesOf(heap[s].id) /\ heap[s].id \in DeviceIds
  BY <1>2, <1>3, StateType DEF DeviceStatesOf
<1>5. \A t \in DOMAIN heap : \E d \in DeviceIds : heap'[t] \in DeviceStatesOf(d)
  BY <1>3, <1>4 DEF RegistryTypeOK
<1>6. /\ DOMAIN heap' \subseteq StateObjs
      /\ heap' \in [DOMAIN heap' -> UNION {DeviceStatesOf(d) : d \in DeviceIds}]
  <2>1. DOMAIN heap \in SUBSET StateObjs
    BY DEF RegistryTypeOK
  <2> QED BY <1>3, <1>5, <2>1, HeapType
<1>7. DOMAIN new = DOMAIN heap[s].value
  BY DEF new
<1> QED BY <1>3, <1>6, <1>7 DEF RegistryTypeOK

\* Registering a connection's slot adds it to one state's signal.
LEMMA SignalEffect ==
    ASSUME RegistryTypeOK, NEW s \in DOMAIN heap, NEW c \in Conns,
           RegisterDeviceSignals(c, s),
           UNCHANGED <<active_devices, process>>
    PROVE  /\ RegistryTypeOK'
           /\ DOMAIN heap' = DOMAIN heap
           /\ \A t \in DOMAIN heap :
                 /\ heap'[t].id = heap[t].id
                 /\ DOMAIN heap'[t].value = DOMAIN heap[t].value
                 /\ heap'[t].network_signals \subseteq heap[t].network_signals \cup {c}
<1>1. /\ DOMAIN heap' = DOMAIN heap
      /\ heap'[s] = [id |-> heap[s].id, value |-> heap[s].value,
                     network_signals |-> heap[s].network_signals \cup {c}]
      /\ \A t \in DOMAIN heap \ {s} : heap'[t] = heap[t]
      /\ heap' = [t \in DOMAIN heap |-> heap'[t]]
  <2> DEFINE new == heap[s].network_signals \cup {c}
  <2>1. heap'[s] = [heap[s] EXCEPT !.network_signals = new]
    BY DEF RegistryTypeOK, RegisterDeviceSignals
  <2>2. [heap[s] EXCEPT !.network_signals = new] =
          [id |-> heap[s].id, value |-> heap[s].value, network_signals |-> new]
    <3>1. heap[s] = [id |-> heap[s].id, value |-> heap[s].value,
                     network_signals |-> heap[s].network_signals]
      BY StateType
    <3> HIDE DEF new
    <3> QED BY <3>1
  <2>3. /\ DOMAIN heap' = DOMAIN heap
        /\ \A t \in DOMAIN heap \ {s} : heap'[t] = heap[t]
        /\ heap' = [t \in DOMAIN heap |-> heap'[t]]
    BY DEF RegistryTypeOK, RegisterDeviceSignals
  <2> QED BY <2>1, <2>2, <2>3
<1>2. heap'[s] \in DeviceStatesOf(heap[s].id) /\ heap[s].id \in DeviceIds
  BY <1>1, StateType DEF DeviceStatesOf
<1>3. \A t \in DOMAIN heap : \E d \in DeviceIds : heap'[t] \in DeviceStatesOf(d)
  <2>1. \A t \in DOMAIN heap \ {s} : \E d \in DeviceIds : heap[t] \in DeviceStatesOf(d)
    BY DEF RegistryTypeOK
  <2> QED BY <1>1, <1>2, <2>1
<1>4. /\ DOMAIN heap' \subseteq StateObjs
      /\ heap' \in [DOMAIN heap' -> UNION {DeviceStatesOf(d) : d \in DeviceIds}]
  <2>1. DOMAIN heap \in SUBSET StateObjs
    BY DEF RegistryTypeOK
  <2> QED BY <1>1, <1>3, <2>1, HeapType
<1> QED BY <1>1, <1>4 DEF RegistryTypeOK


\* Nothing but the process's fate may change.
LEMMA RegistryUnchanged ==
    ASSUME RegistryTypeOK, UNCHANGED <<heap, active_devices>>,
           process' \in {"running", "exited", "crashed", "aborted"}
    PROVE  RegistryTypeOK'
  BY DEF RegistryTypeOK

-----------------------------------------------------------------------------
(* Closing a connection.                                                   *)

\* close() touches the connection's socket, the events and the process only.
LEMMA CloseEffect ==
    ASSUME TypeOK, NEW c \in Conns, NEW s, s = NULL \/ s \in DOMAIN heap, Close(c, s)
    PROVE  /\ socket' = [socket EXCEPT ![c] = "closed"]
           /\ process' \in {"running", "exited", "crashed", "aborted"}
           /\ lifecycle' \in [DeviceIds -> {NoEvent} \cup
                               [type : {"connected", "disconnected"}, state : StateObjs]]
           /\ farewells' \in [Conns -> Nat]
<1>1. RegistryTypeOK
  BY DEF TypeOK
<1>2. process' \in {"running", "exited", "crashed", "aborted"}
  BY <1>1 DEF Close, RegistryTypeOK
<1>3. CASE session_started[c] /\ s # NULL
  <2>1. heap[s].id \in DeviceIds /\ s \in StateObjs
    BY <1>1, <1>3, StateType
  <2> QED BY <1>2, <1>3, <2>1 DEF Close, TypeOK
<1>4. CASE ~(session_started[c] /\ s # NULL)
  BY <1>2, <1>4 DEF Close, TypeOK, lifecycleVars
<1> QED BY <1>3, <1>4

\* What find answers is allocated, or NULL.
LEMMA FindAllocated ==
    ASSUME RegistryCoherent, NEW d \in DeviceIds
    PROVE  Find(d) = NULL \/ Find(d) \in DOMAIN heap
  BY DEF RegistryCoherent, Find

-----------------------------------------------------------------------------
(* Inv is inductive: the connections.                                      *)

\* A step that gives the connections at most what they had (a closed socket, a
\* dead process) and leaves states and pointers alone keeps the invariant.
LEMMA QuietStep ==
    ASSUME Inv, NEW c \in Conns, NEW v \in {"open", "eof", "closed", "deleted"},
           socket[c] \in {"idle", "open"},
           v = "deleted" => socket[c] = "idle",
           v = "open" => socket[c] = "idle",
           socket' = [socket EXCEPT ![c] = v],
           NEW b \in BOOLEAN, b => session_started[c],
           session_started' = [session_started EXCEPT ![c] = b],
           process' \in {"running", "exited", "crashed", "aborted"},
           lifecycle' \in [DeviceIds -> {NoEvent} \cup
                             [type : {"connected", "disconnected"}, state : StateObjs]],
           farewells' \in [Conns -> Nat],
           UNCHANGED <<heap, active_devices, setterVars, device, logged_in>>
    PROVE  Inv'
<1>1. TypeOK'
  <2>1. RegistryTypeOK'
    BY RegistryUnchanged DEF Inv, TypeOK
  <2>2. SetterTypeOK'
    BY DEF Inv, TypeOK, SetterTypeOK, setterVars
  <2> QED BY <2>1, <2>2 DEF Inv, TypeOK
<1>2. RegistryCoherent'
  BY DEF Inv, RegistryCoherent
<1>3. NoDangling'
  BY DEF Inv, TypeOK, NoDangling, FreshConnections, HasPort, setterVars
<1>4. FreshConnections'
  BY DEF Inv, TypeOK, FreshConnections
<1>5. SessionOwnsState'
  BY DEF Inv, TypeOK, SessionOwnsState, LiveSession, FreshConnections
<1> QED BY <1>1, <1>2, <1>3, <1>4, <1>5 DEF Inv


\* handle_accept with and without an error, end of file, exit and a refused
\* login, a missing argument.
LEMMA ClosingStep ==
    ASSUME Inv, NEW c \in Conns,
           \/ HandleAccept(c) \/ HandleAcceptError(c) \/ HandleReadEof(c)
           \/ LoginRefusedOrExit(c) \/ MissingArgument(c)
    PROVE  Inv'
<1>1. /\ session_started = [session_started EXCEPT ![c] = session_started[c]]
      /\ socket = [socket EXCEPT ![c] = socket[c]]
      /\ session_started[c] \in BOOLEAN
      /\ process \in {"running", "exited", "crashed", "aborted"}
      /\ lifecycle \in [DeviceIds -> {NoEvent} \cup
                          [type : {"connected", "disconnected"}, state : StateObjs]]
      /\ farewells \in [Conns -> Nat]
  BY DEF Inv, TypeOK, RegistryTypeOK
<1>2. CASE HandleAccept(c)
  BY <1>1, <1>2, QuietStep DEF HandleAccept, registryVars, lifecycleVars
<1>3. CASE HandleAcceptError(c)
  <2>1. device[c] = NULL
    BY <1>3 DEF HandleAcceptError, Inv, FreshConnections
  <2>2. UNCHANGED <<heap, active_devices>>
    BY <1>3, <2>1 DEF HandleAcceptError, Destructor
  <2> QED BY <1>1, <1>3, <2>2, QuietStep DEF HandleAcceptError, lifecycleVars
<1>4. CASE HandleReadEof(c)
  BY <1>1, <1>4, QuietStep DEF HandleReadEof, Reading, registryVars, lifecycleVars
<1>5. CASE LoginRefusedOrExit(c)
  <2>1. device[c] = NULL \/ device[c] \in DOMAIN heap
    BY <1>5 DEF LoginRefusedOrExit, Reading, Inv, NoDangling
  <2>2. /\ socket' = [socket EXCEPT ![c] = "closed"]
        /\ process' \in {"running", "exited", "crashed", "aborted"}
        /\ lifecycle' \in [DeviceIds -> {NoEvent} \cup
                            [type : {"connected", "disconnected"}, state : StateObjs]]
        /\ farewells' \in [Conns -> Nat]
    <3>1. TypeOK /\ Close(c, device[c])
      BY <1>5 DEF LoginRefusedOrExit, Inv
    <3> QED BY <2>1, <3>1, CloseEffect
  <2> QED BY <1>1, <1>5, <2>2, QuietStep DEF LoginRefusedOrExit, Reading
<1>6. CASE MissingArgument(c)
  <2>1. CASE session_started[c]
    BY <1>1, <1>6, <2>1, QuietStep DEF MissingArgument, Reading, lifecycleVars
  <2>2. CASE ~session_started[c]
    <3>1. TypeOK'
      <4>1. RegistryTypeOK'
        BY <1>6, <2>2, RegistryUnchanged DEF MissingArgument, Inv, TypeOK
      <4> QED BY <1>6, <2>2, <4>1 DEF MissingArgument, Inv, TypeOK, SetterTypeOK,
                                    setterVars, lifecycleVars
    <3> QED BY <1>6, <2>2, <3>1 DEF MissingArgument, Inv, RegistryCoherent, NoDangling,
                 HasPort, FreshConnections, SessionOwnsState, LiveSession, setterVars
  <2> QED BY <2>1, <2>2
<1> QED BY <1>2, <1>3, <1>4, <1>5, <1>6

\* create_session: the new state is no connection's yet.
LEMMA CreateSessionStep ==
    ASSUME Inv, NEW c \in Conns, NEW d \in DeviceIds, NEW s \in StateObjs,
           CreateSession(c, d, s)
    PROVE  Inv'
<1>1. /\ Connect(d, s) /\ process' = process /\ RegistryTypeOK
      /\ socket[c] = "open" /\ socket' = socket /\ UNCHANGED setterVars
      /\ device' = [device EXCEPT ![c] = s]
      /\ session_started' = [session_started EXCEPT ![c] = TRUE]
  BY DEF CreateSession, Reading, Inv, TypeOK
<1>2. /\ RegistryTypeOK'
      /\ s \notin DOMAIN heap
      /\ DOMAIN heap' = DOMAIN heap \cup {s}
      /\ heap'[s] = NewState(d)
      /\ \A t \in DOMAIN heap : heap'[t] = heap[t]
      /\ DOMAIN active_devices' = DOMAIN active_devices \cup {d}
      /\ active_devices'[d] = s
      /\ \A e \in DOMAIN active_devices \ {d} : active_devices'[e] = active_devices[e]
  BY <1>1, ConnectEffect
<1>3. s # NULL
  BY RegistryAssumption
<1>4. heap'[s].id = d /\ heap'[s].network_signals = {}
  BY <1>2 DEF NewState
<1>5. TypeOK'
  BY <1>1, <1>2 DEF CreateSession, Inv, TypeOK, SetterTypeOK, setterVars
<1>6. RegistryCoherent'
  BY <1>2, <1>4 DEF Inv, RegistryCoherent
<1>7. NoDangling'
  BY <1>1, <1>2, <1>4 DEF Inv, TypeOK, NoDangling, HasPort, setterVars
<1>8. FreshConnections'
  BY <1>1, <1>2, <1>4 DEF Inv, TypeOK, FreshConnections
<1>9. SessionOwnsState'
  <2>1. \A e \in Conns : socket[e] = "open" => device[e] # s
    BY <1>2, <1>3 DEF Inv, NoDangling
  <2> QED BY <1>1, <1>3, <2>1 DEF Inv, TypeOK, SessionOwnsState, LiveSession
<1> QED BY <1>5, <1>6, <1>7, <1>8, <1>9 DEF Inv

\* create_session without a row: whatever find answered, the connection closes.
LEMMA CreateSessionFailsStep ==
    ASSUME Inv, NEW c \in Conns, NEW d \in DeviceIds, CreateSessionFails(c, d)
    PROVE  Inv'
<1>1. Find(d) = NULL \/ Find(d) \in DOMAIN heap
  BY FindAllocated DEF Inv
<1>2. /\ socket' = [socket EXCEPT ![c] = "closed"]
      /\ process' \in {"running", "exited", "crashed", "aborted"}
      /\ lifecycle' \in [DeviceIds -> {NoEvent} \cup
                          [type : {"connected", "disconnected"}, state : StateObjs]]
      /\ farewells' \in [Conns -> Nat]
  <2>1. TypeOK /\ Close(c, Find(d))
    BY DEF CreateSessionFails, Inv
  <2> QED BY <1>1, <2>1, CloseEffect
<1>3. /\ UNCHANGED <<heap, active_devices, setterVars, session_started, logged_in>>
      /\ device' = [device EXCEPT ![c] = Find(d)]
      /\ socket[c] = "open"
  BY DEF CreateSessionFails, Reading
<1>4. TypeOK'
  <2>1. RegistryTypeOK'
    BY <1>2, <1>3, RegistryUnchanged DEF Inv, TypeOK
  <2>2. Find(d) \in StateObjs \cup {NULL}
    BY <1>1 DEF Inv, TypeOK, RegistryTypeOK
  <2> QED BY <1>2, <1>3, <2>1, <2>2 DEF Inv, TypeOK, SetterTypeOK, setterVars
<1>5. RegistryCoherent'
  BY <1>3 DEF Inv, RegistryCoherent
<1>6. NoDangling'
  BY <1>1, <1>2, <1>3 DEF Inv, TypeOK, NoDangling, HasPort, setterVars
<1>7. FreshConnections'
  BY <1>2, <1>3 DEF Inv, TypeOK, FreshConnections
<1>8. SessionOwnsState'
  BY <1>2, <1>3 DEF Inv, TypeOK, SessionOwnsState, LiveSession
<1> QED BY <1>4, <1>5, <1>6, <1>7, <1>8 DEF Inv


\* login: one more slot, for a connection that is open.
LEMMA LoginStep ==
    ASSUME Inv, NEW c \in Conns, Login(c)
    PROVE  Inv'
<1>1. /\ device[c] \in DOMAIN heap /\ socket[c] = "open" /\ RegistryTypeOK
      /\ RegisterDeviceSignals(c, device[c])
      /\ logged_in' = [logged_in EXCEPT ![c] = TRUE]
      /\ UNCHANGED <<active_devices, process, setterVars, socket, session_started,
                     device, lifecycleVars>>
  BY DEF Login, Reading, Inv, NoDangling, TypeOK
<1>2. /\ RegistryTypeOK'
      /\ DOMAIN heap' = DOMAIN heap
      /\ \A t \in DOMAIN heap :
            /\ heap'[t].id = heap[t].id
            /\ DOMAIN heap'[t].value = DOMAIN heap[t].value
            /\ heap'[t].network_signals \subseteq heap[t].network_signals \cup {c}
  BY <1>1, SignalEffect
<1>3. TypeOK'
  BY <1>1, <1>2 DEF Inv, TypeOK, SetterTypeOK, setterVars, lifecycleVars
<1>4. RegistryCoherent'
  BY <1>1, <1>2 DEF Inv, RegistryCoherent
<1>5. NoDangling'
  BY <1>1, <1>2 DEF Inv, NoDangling, HasPort, setterVars
<1>6. FreshConnections'
  BY <1>1, <1>2 DEF Inv, FreshConnections
<1>7. SessionOwnsState'
  BY <1>1 DEF Inv, SessionOwnsState, LiveSession
<1> QED BY <1>3, <1>4, <1>5, <1>6, <1>7 DEF Inv

\* A store through a pointer that is valid keeps every part of the invariant
\* that does not mention the caller.
LEMMA StoreStep ==
    ASSUME Inv, NEW s \in DOMAIN heap, NEW report,
           \A p \in DOMAIN report : report[p] \in Values,
           StoreValues(s, report),
           UNCHANGED <<active_devices, process, session_started, device, logged_in>>,
           \A c \in Conns : socket'[c] # socket[c] =>
                socket[c] = "open" /\ socket'[c] = "closed",
           \A w \in Setters : setter'[w] = setter[w] \/ setter'[w] = Idle
    PROVE  RegistryTypeOK' /\ RegistryCoherent' /\ NoDangling' /\ FreshConnections'
           /\ SessionOwnsState'
<1>1. /\ RegistryTypeOK'
      /\ DOMAIN heap' = DOMAIN heap
      /\ \A t \in DOMAIN heap :
            /\ heap'[t].id = heap[t].id
            /\ DOMAIN heap'[t].value = DOMAIN heap[t].value
            /\ heap'[t].network_signals = heap[t].network_signals
  BY StoreEffect DEF Inv, TypeOK
<1>2. RegistryCoherent'
  BY <1>1 DEF Inv, RegistryCoherent
<1>3. NoDangling'
  <2>1. \A t \in DOMAIN heap : heap[t].network_signals \subseteq Conns
    BY StateType DEF Inv, TypeOK
  <2> QED BY <1>1, <2>1 DEF Inv, NoDangling, HasPort
<1>4. FreshConnections'
  BY <1>1 DEF Inv, FreshConnections
<1>5. SessionOwnsState'
  BY DEF Inv, SessionOwnsState, LiveSession
<1> QED BY <1>1, <1>2, <1>3, <1>4, <1>5

\* What aps may store are values.
LEMMA ReportValues ==
    ASSUME NEW c \in Conns, NEW r \in Reports(c)
    PROVE  \A p \in DOMAIN r : r[p] \in Values
  BY DEF Reports

\* aps: a store through the connection's own pointer, and perhaps the close.
LEMMA AllPortsStateStep ==
    ASSUME Inv, NEW c \in Conns, NEW r \in Reports(c),
           AllPortsState(c, r) \/ AllPortsStateInvalid(c, r)
    PROVE  Inv'
<1>1. /\ device[c] \in DOMAIN heap /\ socket[c] = "open" /\ TypeOK
      /\ StoreValues(device[c], r)
      /\ UNCHANGED <<active_devices, setterVars, session_started, device, logged_in>>
  BY DEF AllPortsState, AllPortsStateInvalid, Reading, Inv, NoDangling, connVars
<1>2. \A p \in DOMAIN r : r[p] \in Values
  BY ReportValues
<1>3. \A w \in Setters : setter'[w] = setter[w]
  BY <1>1 DEF setterVars
<1>4. CASE AllPortsState(c, r)
  <2>1. UNCHANGED <<process, socket, lifecycleVars>>
    BY <1>4 DEF AllPortsState, connVars
  <2>2. RegistryTypeOK' /\ RegistryCoherent' /\ NoDangling' /\ FreshConnections'
        /\ SessionOwnsState'
    BY <1>1, <1>2, <1>3, <2>1, StoreStep
  <2> QED BY <1>1, <2>1, <2>2 DEF Inv, TypeOK, SetterTypeOK, setterVars, lifecycleVars
<1>5. CASE AllPortsStateInvalid(c, r)
  <2>1. Close(c, device[c])
    BY <1>5 DEF AllPortsStateInvalid
  <2>2. /\ socket' = [socket EXCEPT ![c] = "closed"]
        /\ process' \in {"running", "exited", "crashed", "aborted"}
        /\ lifecycle' \in [DeviceIds -> {NoEvent} \cup
                            [type : {"connected", "disconnected"}, state : StateObjs]]
        /\ farewells' \in [Conns -> Nat]
    BY <1>1, <2>1, CloseEffect
  <2>3. process' = process
    <3>1. device[c] # NULL
      BY <1>5 DEF AllPortsStateInvalid
    <3> QED BY <2>1, <3>1 DEF Close
  <2>4. \A e \in Conns : socket'[e] # socket[e] => socket[e] = "open" /\ socket'[e] = "closed"
    BY <1>1, <2>2 DEF TypeOK
  <2>5. RegistryTypeOK' /\ RegistryCoherent' /\ NoDangling' /\ FreshConnections'
        /\ SessionOwnsState'
    BY <1>1, <1>2, <1>3, <2>3, <2>4, StoreStep
  <2> QED BY <1>1, <2>2, <2>5 DEF Inv, TypeOK, SetterTypeOK, setterVars
<1> QED BY <1>4, <1>5

\* login or aps before a session, and a stuttering step: no pointer changes.
LEMMA NoPointerStep ==
    ASSUME Inv, process' \in {"running", "exited", "crashed", "aborted"},
           UNCHANGED <<heap, active_devices, setterVars, connVars, lifecycleVars>>
    PROVE  Inv'
<1>1. TypeOK'
  <2>1. RegistryTypeOK'
    BY RegistryUnchanged DEF Inv, TypeOK
  <2> QED BY <2>1 DEF Inv, TypeOK, SetterTypeOK, setterVars, connVars, lifecycleVars
<1> QED BY <1>1 DEF Inv, RegistryCoherent, NoDangling, HasPort, FreshConnections,
                    SessionOwnsState, LiveSession, setterVars, connVars

-----------------------------------------------------------------------------
(* Inv is inductive: the setters.                                          *)

\* find and port: the pointer is taken from the registry.
LEMMA FindPortStep ==
    ASSUME Inv, NEW w \in Setters, NEW d \in DeviceIds, NEW p \in PortIds,
           NEW v \in Values, FindPort(w, d, p, v), UNCHANGED <<connVars, lifecycleVars>>
    PROVE  Inv'
<1> DEFINE taken == [pc |-> "found", state |-> Find(d), port |-> p, value |-> v]
<1>1. /\ Find(d) \in DOMAIN heap
      /\ HasPort(Find(d), p)
      /\ setter' = [setter EXCEPT ![w] = taken]
      /\ UNCHANGED <<heap, active_devices, process, announced>>
  BY FindAllocated DEF FindPort, Inv, registryVars
<1>2. Find(d) \in StateObjs
  BY <1>1 DEF Inv, TypeOK, RegistryTypeOK
<1>3. taken \in [pc : {"found", "storing"}, state : StateObjs, port : PortIds,
                 value : Values]
  BY <1>2
<1>4. taken.state = Find(d) /\ taken.port = p
  OBVIOUS
<1> HIDE DEF taken
<1>5. TypeOK'
  <2>1. SetterTypeOK'
    BY <1>1, <1>3 DEF Inv, TypeOK, SetterTypeOK
  <2>2. RegistryTypeOK'
    BY <1>1 DEF Inv, TypeOK, RegistryTypeOK
  <2> QED BY <2>1, <2>2 DEF Inv, TypeOK, connVars, lifecycleVars
<1>6. NoDangling'
  BY <1>1, <1>4 DEF Inv, TypeOK, SetterTypeOK, NoDangling, HasPort, connVars
<1> QED BY <1>1, <1>5, <1>6 DEF Inv, RegistryCoherent, FreshConnections,
                               SessionOwnsState, LiveSession, connVars

\* A body that is not JSON: the process aborts and no pointer moves.
LEMMA MalformedBodyStep ==
    ASSUME Inv, NEW w \in Setters, MalformedBody(w), UNCHANGED <<connVars, lifecycleVars>>
    PROVE  Inv'
  BY NoPointerStep DEF MalformedBody, setterVars

\* set_value up to the event: the setter keeps its pointer or ends.
LEMMA AnnounceStep ==
    ASSUME Inv, NEW w \in Setters, AnnounceValue(w), UNCHANGED <<connVars, lifecycleVars>>
    PROVE  Inv'
<1>1. UNCHANGED <<heap, active_devices, process>>
  BY DEF AnnounceValue, registryVars
<1>2. setter[w] # Idle
  BY DEF AnnounceValue, Idle
<1>3. setter[w] \in [pc : {"found", "storing"}, state : StateObjs, port : PortIds,
                     value : Values]
  BY <1>2 DEF Inv, TypeOK, SetterTypeOK
<1>4. /\ setter' \in [Setters -> {Idle} \cup [pc : {"found", "storing"},
                        state : StateObjs, port : PortIds, value : Values]]
      /\ \A u \in Setters : \/ setter'[u] = setter[u]
                            \/ setter'[u] = Idle
                            \/ /\ setter[u] # Idle
                               /\ setter'[u].state = setter[u].state
                               /\ setter'[u].port = setter[u].port
      /\ announced' \in [StateObjs -> [PortIds -> Values \cup {Unset}]]
  <2>1. CASE heap[setter[w].state].value[setter[w].port] = setter[w].value
    BY <1>2, <2>1 DEF AnnounceValue, Inv, TypeOK, SetterTypeOK
  <2>2. CASE heap[setter[w].state].value[setter[w].port] # setter[w].value
    <3>1. /\ setter' = [setter EXCEPT ![w].pc = "storing"]
          /\ announced' = [announced EXCEPT ![setter[w].state][setter[w].port] =
                             setter[w].value]
      BY <2>2 DEF AnnounceValue
    <3>2. announced' \in [StateObjs -> [PortIds -> Values \cup {Unset}]]
      BY <1>3, <3>1 DEF Inv, TypeOK, SetterTypeOK
    <3>3. setter'[w] = [pc |-> "storing", state |-> setter[w].state,
                        port |-> setter[w].port, value |-> setter[w].value]
      BY <1>3, <3>1 DEF Inv, TypeOK, SetterTypeOK
    <3>4. \A u \in Setters \ {w} : setter'[u] = setter[u]
      BY <3>1 DEF Inv, TypeOK, SetterTypeOK
    <3>5. DOMAIN setter' = Setters /\ setter' = [u \in Setters |-> setter'[u]]
      BY <3>1 DEF Inv, TypeOK, SetterTypeOK
    <3> QED BY <1>2, <1>3, <3>2, <3>3, <3>4, <3>5 DEF Inv, TypeOK, SetterTypeOK
  <2> QED BY <2>1, <2>2
<1>5. TypeOK'
  <2>1. RegistryTypeOK'
    BY <1>1 DEF Inv, TypeOK, RegistryTypeOK
  <2> QED BY <1>4, <2>1 DEF Inv, TypeOK, SetterTypeOK, connVars, lifecycleVars
<1>6. NoDangling'
  BY <1>1, <1>4 DEF Inv, NoDangling, HasPort, connVars
<1> QED BY <1>1, <1>5, <1>6 DEF Inv, RegistryCoherent, FreshConnections,
                               SessionOwnsState, LiveSession, connVars

\* set_value's store, through a pointer that may have been found long ago.
LEMMA StoreValueStep ==
    ASSUME Inv, NEW w \in Setters, StoreValue(w), UNCHANGED <<connVars, lifecycleVars>>
    PROVE  Inv'
<1> DEFINE report == [p \in {setter[w].port} |-> setter[w].value]
<1>1. /\ setter[w] # Idle
      /\ StoreValues(setter[w].state, report)
      /\ setter' = [setter EXCEPT ![w] = Idle]
      /\ UNCHANGED <<active_devices, process, announced>>
  BY DEF StoreValue, Idle
<1>2. setter[w].state \in DOMAIN heap /\ setter[w].value \in Values
  BY <1>1 DEF Inv, NoDangling, TypeOK, SetterTypeOK
<1>3. \A p \in DOMAIN report : report[p] \in Values
  BY <1>2
<1>4. /\ setter' \in [Setters -> {Idle} \cup [pc : {"found", "storing"},
                        state : StateObjs, port : PortIds, value : Values]]
      /\ \A u \in Setters : setter'[u] = setter[u] \/ setter'[u] = Idle
  BY <1>1 DEF Inv, TypeOK, SetterTypeOK
<1> HIDE DEF report
<1>5. RegistryTypeOK' /\ RegistryCoherent' /\ NoDangling' /\ FreshConnections'
      /\ SessionOwnsState'
  BY <1>1, <1>2, <1>3, <1>4, StoreStep DEF connVars
<1> QED BY <1>1, <1>4, <1>5 DEF Inv, TypeOK, SetterTypeOK, connVars, lifecycleVars

-----------------------------------------------------------------------------
(* The theorems.                                                           *)

LEMMA InitInv == Init => Inv
<1> SUFFICES ASSUME Init PROVE Inv
  OBVIOUS
<1> USE DEF Init
<1>1. /\ active_devices \in [Virtual -> StateObjs]
      /\ \A v, w \in Virtual : active_devices[v] = active_devices[w] => v = w
      /\ DOMAIN heap = {active_devices[v] : v \in Virtual}
      /\ process = "running"
      /\ heap = [s \in DOMAIN heap |-> heap[s]]
  BY DEF LoadVirtualDevices
<1>2. \A v \in Virtual : heap[active_devices[v]] = NewState(v)
  <2> SUFFICES ASSUME NEW v \in Virtual PROVE heap[active_devices[v]] = NewState(v)
    OBVIOUS
  <2>1. (CHOOSE u \in Virtual : active_devices[u] = active_devices[v]) = v
    BY <1>1
  <2> QED BY <1>1, <2>1 DEF LoadVirtualDevices
<1>3. \A v \in Virtual : /\ NewState(v) \in DeviceStatesOf(v)
                         /\ NewState(v).id = v
                         /\ NewState(v).network_signals = {}
  BY DEF NewState, DeviceStatesOf
<1>4. RegistryTypeOK
  <2>1. DOMAIN heap \in SUBSET StateObjs
    BY <1>1
  <2>2. \A s \in DOMAIN heap : \E d \in DeviceIds : heap[s] \in DeviceStatesOf(d)
    BY <1>1, <1>2, <1>3, RegistryAssumption
  <2>3. /\ DOMAIN heap \subseteq StateObjs
        /\ heap \in [DOMAIN heap -> UNION {DeviceStatesOf(d) : d \in DeviceIds}]
    BY <1>1, <2>1, <2>2, HeapType
  <2> QED BY <1>1, <2>3, RegistryAssumption DEF RegistryTypeOK
<1>5. TypeOK
  BY <1>4 DEF TypeOK, SetterTypeOK, SetterInit
<1>6. RegistryCoherent
  BY <1>1, <1>2, <1>3 DEF RegistryCoherent
<1>7. NoDangling
  BY <1>1, <1>2, <1>3 DEF NoDangling, SetterInit
<1>8. FreshConnections
  BY <1>1, <1>2, <1>3 DEF FreshConnections
<1>9. SessionOwnsState
  BY DEF SessionOwnsState, LiveSession
<1> QED BY <1>5, <1>6, <1>7, <1>8, <1>9 DEF Inv

\* Every step of every thread keeps Inv.
LEMMA NextInv == Inv /\ [Next]_vars => Inv'
<1> SUFFICES ASSUME Inv, [Next]_vars PROVE Inv'
  OBVIOUS
<1>1. ASSUME NEW c \in Conns, ConnStep(c) PROVE Inv'
  <2>1. CASE \/ HandleAccept(c) \/ HandleAcceptError(c) \/ HandleReadEof(c)
             \/ LoginRefusedOrExit(c) \/ MissingArgument(c)
    BY <2>1, ClosingStep
  <2>2. CASE \E d \in DeviceIds, s \in StateObjs : CreateSession(c, d, s)
    BY <2>2, CreateSessionStep
  <2>3. CASE \E d \in DeviceIds : CreateSessionFails(c, d)
    BY <2>3, CreateSessionFailsStep
  <2>4. CASE Login(c)
    BY <2>4, LoginStep
  <2>5. CASE \E r \in Reports(c) : AllPortsState(c, r) \/ AllPortsStateInvalid(c, r)
    BY <2>5, AllPortsStateStep
  <2>6. CASE UseNullDevice(c)
    BY <2>6, NoPointerStep DEF UseNullDevice
  <2> QED BY <1>1, <2>1, <2>2, <2>3, <2>4, <2>5, <2>6 DEF ConnStep
<1>2. ASSUME NEW w \in Setters, SetterStep(w), UNCHANGED <<connVars, lifecycleVars>>
      PROVE  Inv'
  BY <1>2, FindPortStep, MalformedBodyStep, AnnounceStep, StoreValueStep DEF SetterStep
<1>3. CASE UNCHANGED vars
  <2>1. process' \in {"running", "exited", "crashed", "aborted"}
    BY <1>3 DEF vars, registryVars, Inv, TypeOK, RegistryTypeOK
  <2> QED BY <1>3, <2>1, NoPointerStep DEF vars, registryVars
<1> QED BY <1>1, <1>2, <1>3 DEF Next

\* Inv is an invariant of the device server.
THEOREM Invariance == Spec => []Inv
  BY InitInv, NextInv, PTL DEF Spec

\* Every variable of the device server keeps its type.
THEOREM TypeCorrect == Spec => []TypeOK
  BY Invariance, PTL DEF Inv

\* DeviceState::find answers a state of the device that was asked for
\* (device.cc:134-160).
THEOREM FindIsCoherent == Spec => []RegistryCoherent
  BY Invariance, PTL DEF Inv

\* No connection, no HTTP or JavaScript thread and no signal ever holds a pointer
\* to a deleted object, whatever is replaced while it holds it
\* (device_connection.cc:176-191, http_ports.cc:14-35).
THEOREM NothingDangles == Spec => []NoDangling
  BY Invariance, PTL DEF Inv

\* Once create_session has succeeded, login and aps act on a state that exists
\* and that no other open connection acts on (device_connection.cc:176-216).
THEOREM SessionsAreSeparate == Spec => []SessionOwnsState
  BY Invariance, PTL DEF Inv

-----------------------------------------------------------------------------
(* The history of the server: what its lifecycle events say, what happens  *)
(* to a state that was replaced, and who stops the process.                *)

\* What a step may do to the answers of find, and to the events.
FindKept == \A d \in DeviceIds : Find(d)' = Find(d)
Silent == /\ UNCHANGED lifecycleVars
          /\ \A c \in Conns : socket[c] = "closed" => socket'[c] = "closed"

\* close() says farewell once and announces nothing but a disconnection.
LEMMA CloseEvents ==
    ASSUME Inv, NEW c \in Conns, NEW s, s = NULL \/ s \in DOMAIN heap, Close(c, s)
    PROVE  /\ \A d \in DeviceIds : \/ lifecycle'[d] = lifecycle[d]
                                   \/ lifecycle'[d].type = "disconnected"
           /\ socket'[c] = "closed"
           /\ \A e \in Conns \ {c} :
                 farewells'[e] = farewells[e] /\ socket'[e] = socket[e]
           /\ farewells'[c] \in {farewells[c], farewells[c] + 1}
<1>1. TypeOK
  BY DEF Inv
<1>2. CASE session_started[c] /\ s # NULL
  BY <1>1, <1>2 DEF Close, TypeOK
<1>3. CASE ~(session_started[c] /\ s # NULL)
  BY <1>1, <1>3 DEF Close, TypeOK, lifecycleVars
<1> QED BY <1>2, <1>3

\* A step is a new session, a close, or says nothing; only the first of these
\* changes what find answers.
LEMMA StepKinds ==
    ASSUME Inv, [Next]_vars
    PROVE  \/ \E c \in Conns, d \in DeviceIds, s \in StateObjs : CreateSession(c, d, s)
           \/ /\ FindKept
              /\ \E c \in Conns : \E s \in DOMAIN heap \cup {NULL} :
                    Reading(c) /\ Close(c, s)
           \/ FindKept /\ Silent
<1>1. active_devices' = active_devices => FindKept
  BY DEF FindKept, Find
<1>2. ASSUME NEW c \in Conns, ConnStep(c),
             ~ \E d \in DeviceIds, s \in StateObjs : CreateSession(c, d, s)
      PROVE  \/ /\ FindKept
                /\ \E s \in DOMAIN heap \cup {NULL} : Reading(c) /\ Close(c, s)
             \/ FindKept /\ Silent
  <2>1. Reading(c) => device[c] \in DOMAIN heap \cup {NULL}
    BY DEF Reading, Inv, NoDangling
  <2>2. CASE HandleAccept(c)
    BY <1>1, <2>2 DEF HandleAccept, Silent, Inv, TypeOK, registryVars
  <2>3. CASE HandleAcceptError(c)
    <3>1. device[c] = NULL
      BY <2>3 DEF HandleAcceptError, Inv, FreshConnections
    <3> QED BY <1>1, <2>3, <3>1 DEF HandleAcceptError, Destructor, Silent, Inv, TypeOK
  <2>4. CASE HandleReadEof(c)
    BY <1>1, <2>4 DEF HandleReadEof, Reading, Silent, Inv, TypeOK, registryVars
  <2>5. CASE \E d \in DeviceIds : CreateSessionFails(c, d)
    BY <1>1, <2>5, FindAllocated DEF CreateSessionFails, Inv
  <2>6. CASE Login(c)
    BY <1>1, <2>6 DEF Login, Silent
  <2>7. CASE LoginRefusedOrExit(c)
    BY <1>1, <2>1, <2>7 DEF LoginRefusedOrExit
  <2>8. CASE \E r \in Reports(c) : AllPortsState(c, r)
    BY <1>1, <2>8 DEF AllPortsState, Silent, connVars
  <2>9. CASE \E r \in Reports(c) : AllPortsStateInvalid(c, r)
    BY <1>1, <2>1, <2>9 DEF AllPortsStateInvalid
  <2>10. CASE UseNullDevice(c)
    BY <1>1, <2>10 DEF UseNullDevice, Silent, connVars
  <2>11. CASE MissingArgument(c)
    <3>1. socket' \in {socket, [socket EXCEPT ![c] = "closed"]}
      BY <2>11 DEF MissingArgument
    <3> QED BY <1>1, <2>11, <3>1 DEF MissingArgument, Silent, Inv, TypeOK
  <2> QED BY <1>2, <2>2, <2>3, <2>4, <2>5, <2>6, <2>7, <2>8, <2>9, <2>10, <2>11
          DEF ConnStep
<1>3. ASSUME NEW w \in Setters, SetterStep(w), UNCHANGED <<connVars, lifecycleVars>>
      PROVE  FindKept /\ Silent
  <2>1. active_devices' = active_devices
    BY <1>3 DEF SetterStep, FindPort, MalformedBody, AnnounceValue, StoreValue,
                registryVars
  <2> QED BY <1>1, <1>3, <2>1 DEF Silent, connVars
<1>4. CASE UNCHANGED vars
  BY <1>1, <1>4 DEF vars, Silent, registryVars, connVars
<1> QED BY <1>2, <1>3, <1>4 DEF Next

\* What connect leaves find with.
LEMMA CreateSessionFind ==
    ASSUME Inv, NEW c \in Conns, NEW d \in DeviceIds, NEW s \in StateObjs,
           CreateSession(c, d, s)
    PROVE  /\ s \notin DOMAIN heap
           /\ Find(d)' = s
           /\ \A e \in DeviceIds \ {d} : Find(e)' = Find(e)
<1>1. Connect(d, s) /\ process' = process /\ RegistryTypeOK
  BY DEF CreateSession, Inv, TypeOK
<1>2. /\ s \notin DOMAIN heap
      /\ DOMAIN active_devices' = DOMAIN active_devices \cup {d}
      /\ active_devices'[d] = s
      /\ \A e \in DOMAIN active_devices \ {d} : active_devices'[e] = active_devices[e]
  BY <1>1, ConnectEffect
<1> QED BY <1>2 DEF Find

-----------------------------------------------------------------------------

LEMMA RegisteredStep ==
    ASSUME Inv, ConnectedIsRegistered, [Next]_vars
    PROVE  ConnectedIsRegistered'
<1>1. ASSUME NEW c \in Conns, NEW d \in DeviceIds, NEW s \in StateObjs,
             CreateSession(c, d, s)
      PROVE  ConnectedIsRegistered'
  <2>1. /\ Find(d)' = s
        /\ \A e \in DeviceIds \ {d} : Find(e)' = Find(e)
    BY <1>1, CreateSessionFind
  <2>2. /\ lifecycle'[d].state = s
        /\ \A e \in DeviceIds \ {d} : lifecycle'[e] = lifecycle[e]
    BY <1>1 DEF CreateSession, Inv, TypeOK
  <2> QED BY <2>1, <2>2 DEF ConnectedIsRegistered
<1>2. ASSUME FindKept, NEW c \in Conns, NEW s \in DOMAIN heap \cup {NULL}, Close(c, s)
      PROVE  ConnectedIsRegistered'
  BY <1>2, CloseEvents DEF FindKept, ConnectedIsRegistered
<1>3. CASE FindKept /\ Silent
  BY <1>3 DEF FindKept, Silent, lifecycleVars, ConnectedIsRegistered
<1> QED BY <1>1, <1>2, <1>3, StepKinds

\* After a device_connected of an id, and until the next lifecycle event of that
\* id, find answers the state of that session (device_connection.cc:191-199).
THEOREM ConnectedStaysRegistered == Spec => []ConnectedIsRegistered
<1>1. Init => ConnectedIsRegistered
  BY DEF Init, ConnectedIsRegistered, NoEvent
<1>2. Inv /\ ConnectedIsRegistered /\ [Next]_vars => ConnectedIsRegistered'
  BY RegisteredStep
<1> QED BY <1>1, <1>2, Invariance, PTL DEF Spec

LEMMA FarewellStep ==
    ASSUME Inv, OneFarewell, [Next]_vars
    PROVE  OneFarewell'
<1>1. \A c \in Conns : farewells[c] \in Nat
  BY DEF Inv, TypeOK
<1>2. ASSUME NEW c \in Conns, NEW d \in DeviceIds, NEW s \in StateObjs,
             CreateSession(c, d, s)
      PROVE  OneFarewell'
  BY <1>2 DEF CreateSession, OneFarewell
<1>3. ASSUME NEW c \in Conns, NEW s \in DOMAIN heap \cup {NULL}, Reading(c), Close(c, s)
      PROVE  OneFarewell'
  <2>1. farewells[c] = 0
    BY <1>1, <1>3 DEF OneFarewell, Reading
  <2>2. farewells'[c] <= 1 /\ socket'[c] = "closed"
    BY <1>3, <2>1, CloseEvents
  <2>3. \A e \in Conns \ {c} : farewells'[e] = farewells[e] /\ socket'[e] = socket[e]
    BY <1>3, CloseEvents
  <2> QED BY <2>2, <2>3 DEF OneFarewell
<1>4. CASE Silent
  BY <1>4 DEF Silent, lifecycleVars, OneFarewell
<1> QED BY <1>2, <1>3, <1>4, StepKinds

\* A connection announces a disconnection at most once, and not while it is read
\* (device_connection.cc:96-105).
THEOREM FarewellsAreSingle == Spec => []OneFarewell
<1>1. Init => OneFarewell
  <2> SUFFICES ASSUME Init, NEW c \in Conns
               PROVE  farewells[c] <= 1 /\ (farewells[c] = 1 => socket[c] = "closed")
    BY DEF OneFarewell
  <2>1. farewells[c] = 0
    BY DEF Init
  <2> QED BY <2>1
<1>2. Inv /\ OneFarewell /\ [Next]_vars => OneFarewell'
  BY FarewellStep
<1> QED BY <1>1, <1>2, Invariance, PTL DEF Spec

-----------------------------------------------------------------------------

\* A state that was replaced, or was never registered, is not found again
\* (device.cc:134-138).
THEOREM OrphansAreForgotten == Spec => OrphansStayOrphans
<1> DEFINE Kept == \A s \in DOMAIN heap : (\A d \in DeviceIds : Find(d) # s)
                                          => (\A d \in DeviceIds : Find(d)' # s)
<1>1. ASSUME Inv, [Next]_vars PROVE Kept
  <2>1. ASSUME NEW c \in Conns, NEW d \in DeviceIds, NEW s \in StateObjs,
               CreateSession(c, d, s)
        PROVE  Kept
    BY <1>1, <2>1, CreateSessionFind
  <2>2. CASE FindKept
    BY <2>2 DEF FindKept
  <2> QED BY <1>1, <2>1, <2>2, StepKinds
<1>2. Inv /\ [Next]_vars => [Kept]_vars
  BY <1>1
<1> QED BY <1>2, Invariance, PTL DEF Spec, OrphansStayOrphans

\* A connection with a session does not end the process unless it asks for
\* another session (device_connection.cc:136-170, 176-189).
THEOREM SessionsContained == Spec => SessionsAreContained
<1>1. ASSUME Inv, NEW c \in Conns, LiveSession(c), ConnStep(c)
      PROVE  process' = process \/ device'[c] # device[c]
  <2>1. device[c] # NULL /\ session_started[c]
    BY <1>1 DEF Inv, SessionOwnsState, LiveSession
  <2>2. CASE \E d \in DeviceIds : CreateSessionFails(c, d)
    BY <1>1, <2>1, <2>2 DEF CreateSessionFails, Reading, Close, Inv, TypeOK
  <2>3. CASE LoginRefusedOrExit(c) \/ \E r \in Reports(c) : AllPortsStateInvalid(c, r)
    BY <2>1, <2>3 DEF LoginRefusedOrExit, AllPortsStateInvalid, Close
  <2>4. CASE UseNullDevice(c) \/ MissingArgument(c)
    BY <2>1, <2>4 DEF UseNullDevice, MissingArgument
  <2>5. CASE \/ HandleAccept(c) \/ HandleAcceptError(c) \/ HandleReadEof(c)
             \/ \E d \in DeviceIds, s \in StateObjs : CreateSession(c, d, s)
             \/ Login(c)
             \/ \E r \in Reports(c) : AllPortsState(c, r)
    BY <2>5 DEF HandleAccept, HandleAcceptError, HandleReadEof, CreateSession, Login,
                AllPortsState, registryVars
  <2> QED BY <1>1, <2>2, <2>3, <2>4, <2>5 DEF ConnStep
<1>2. Inv /\ [Next]_vars
        => [\A c \in Conns : LiveSession(c) /\ ConnStep(c)
              => process' = process \/ device'[c] # device[c]]_vars
  BY <1>1
<1> QED BY <1>2, Invariance, PTL DEF Spec, SessionsAreContained

=============================================================================
