--------------------------- MODULE DeviceRegistry ---------------------------
(***************************************************************************)
(* The run-time device states (include/devices.h, models/device.cc): heap  *)
(* objects of class DeviceState, and the static map active_devices from a  *)
(* device id to the DeviceState that DeviceState::find answers.  The map   *)
(* is shared by the network thread, the HTTP threads and the JavaScript    *)
(* thread without a lock.                                                  *)
(*                                                                         *)
(* A pointer to a DeviceState is an element of StateObjs.  The objects     *)
(* that are allocated are DOMAIN heap, so a dangling pointer is a pointer  *)
(* outside DOMAIN heap.  This module has the operations; the modules that  *)
(* extend it have the threads that call them.                              *)
(***************************************************************************)
EXTENDS Integers

CONSTANTS
    Conns,      \* DeviceConnection objects
    DeviceIds,  \* the ids a request may name
    Virtual,    \* the ids whose database row has type "virtual" at start-up
    PortIds,    \* port ids
    PortsOf,    \* the ports in the specification of each device
    Values,     \* the port values the environment writes
    StateObjs,  \* addresses: bounds how many DeviceStates a run allocates
    NULL

Unset == -1     \* PortState::_value before the first write

ASSUME RegistryAssumption ==
    /\ Virtual \subseteq DeviceIds
    /\ PortsOf \in [DeviceIds -> SUBSET PortIds]
    /\ Values \subseteq Int
    /\ NULL \notin StateObjs

VARIABLES
    heap,            \* the allocated DeviceStates
    active_devices,  \* DeviceState::active_devices
    process          \* "running", "exited" (main returned), "crashed" (undefined
                     \* behaviour) or "aborted" (an exception nothing catches)

registryVars == <<heap, active_devices, process>>

-----------------------------------------------------------------------------

DeviceStatesOf(d) ==
    [id : {d}, value : [PortsOf[d] -> Values \cup {Unset}],
     network_signals : SUBSET Conns]

RegistryTypeOK ==
    /\ DOMAIN heap \subseteq StateObjs
    /\ heap \in [DOMAIN heap -> UNION {DeviceStatesOf(d) : d \in DeviceIds}]
    /\ DOMAIN active_devices \subseteq DeviceIds
    /\ active_devices \in [DOMAIN active_devices -> StateObjs]
    /\ process \in {"running", "exited", "crashed", "aborted"}

\* Deviation: a PortState for every port id.
NewStateAllPorts(d) ==
    [id |-> d, value |-> [p \in PortIds |-> Unset], network_signals |-> {}]

\* The constructor: one PortState for each port of the specification.
NewState(d) ==
    [id |-> d, value |-> [p \in PortsOf[d] |-> Unset], network_signals |-> {}]

Find(d) == IF d \in DOMAIN active_devices THEN active_devices[d] ELSE NULL

HasPort(s, p) == p \in DOMAIN heap[s].value

\* load_virtual_devices, the only writer of the map before the threads start.
LoadVirtualDevices ==
    /\ active_devices \in [Virtual -> StateObjs]
    /\ \A v, w \in Virtual : active_devices[v] = active_devices[w] => v = w
    /\ heap = [s \in {active_devices[v] : v \in Virtual} |->
                 NewState(CHOOSE v \in Virtual : active_devices[v] = s)]
    /\ process = "running"

\* Deviation: map::insert, which keeps an entry that exists.
ConnectInserts(d, s) ==
    /\ s \in StateObjs \ DOMAIN heap
    /\ heap' = [t \in DOMAIN heap \cup {s} |->
                  IF t = s THEN NewState(d) ELSE heap[t]]
    /\ active_devices' = [e \in DOMAIN active_devices \cup {d} |->
          IF e \in DOMAIN active_devices THEN active_devices[e] ELSE s]

\* Deviation: connect deletes the object it replaces.
ConnectDeletes(d, s) ==
    /\ s \in StateObjs \ DOMAIN heap
    /\ heap' = [t \in (DOMAIN heap \ {Find(d)}) \cup {s} |->
                  IF t = s THEN NewState(d) ELSE heap[t]]
    /\ active_devices' = [e \in DOMAIN active_devices \cup {d} |->
                            IF e = d THEN s ELSE active_devices[e]]

\* DeviceState::connect: a new object takes the id's entry of the map.  The
\* object it replaces stays allocated: nothing else knows that it is orphaned.
Connect(d, s) ==
    /\ s \in StateObjs \ DOMAIN heap
    /\ heap' = [t \in DOMAIN heap \cup {s} |->
                  IF t = s THEN NewState(d) ELSE heap[t]]
    /\ active_devices' = [e \in DOMAIN active_devices \cup {d} |->
                            IF e = d THEN s ELSE active_devices[e]]

\* DeviceState::disconnect: deletes whatever object the id's entry holds.
Disconnect(d) ==
    IF d \notin DOMAIN active_devices
    THEN UNCHANGED <<heap, active_devices>>
    ELSE /\ heap' = [t \in DOMAIN heap \ {active_devices[d]} |-> heap[t]]
         /\ active_devices' =
              [e \in DOMAIN active_devices \ {d} |-> active_devices[e]]

\* The assignment that ends PortState::set_value, for the ports in report.
StoreValues(s, report) ==
    heap' = [heap EXCEPT ![s].value =
               [p \in DOMAIN @ |-> IF p \in DOMAIN report THEN report[p] ELSE @[p]]]

-----------------------------------------------------------------------------

\* The object that find answers for an id is a state of that device: a set
\* over HTTP or from a script is never applied to another device.
RegistryCoherent ==
    \A d \in DOMAIN active_devices :
        /\ active_devices[d] \in DOMAIN heap
        /\ heap[active_devices[d]].id = d

=============================================================================
