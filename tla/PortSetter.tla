----------------------------- MODULE PortSetter -----------------------------
(***************************************************************************)
(* The threads that change a port from inside the server: the HTTP threads *)
(* (httpd/actions/http_ports.cc, set_port) and the JavaScript thread       *)
(* (jsengine/port_template.cc, set_port_value).  Both look the device up,  *)
(* keep the pointer, and call PortState::set_value (models/port.cc), which *)
(* posts the port_set event before it stores the value.  No lock is held,  *)
(* so each of these steps may interleave with every other thread.          *)
(***************************************************************************)
EXTENDS DeviceRegistry

CONSTANTS
    HttpThreads,   \* the threads that poll the HTTP server
    Setters        \* these and the JavaScript thread

ASSUME SetterAssumption == HttpThreads \subseteq Setters

VARIABLES
    setter,     \* what each of them is doing
    announced   \* new_value of the last port_set event of each port

setterVars == <<setter, announced>>

Idle == [pc |-> "idle"]

SetterTypeOK ==
    /\ setter \in [Setters -> {Idle} \cup
                     [pc : {"found", "storing"}, state : StateObjs,
                      port : PortIds, value : Values]]
    /\ announced \in [StateObjs -> [PortIds -> Values \cup {Unset}]]

SetterInit ==
    /\ setter = [w \in Setters |-> Idle]
    /\ announced = [s \in StateObjs |-> [p \in PortIds |-> Unset]]

\* DeviceState::find, then DeviceState::port.  An unknown device or port ends
\* the call without an effect.
FindPort(w, d, p, v) ==
    /\ process = "running"
    /\ setter[w] = Idle
    /\ Find(d) # NULL
    /\ HasPort(Find(d), p)
    /\ setter' = [setter EXCEPT ![w] =
                    [pc |-> "found", state |-> Find(d), port |-> p, value |-> v]]
    /\ UNCHANGED <<registryVars, announced>>

\* The body of the request for a port that exists is not JSON: the reader throws
\* and no frame of the polling thread catches.  (JSON without a value sets 0.)
MalformedBody(w) ==
    /\ process = "running"
    /\ w \in HttpThreads
    /\ setter[w] = Idle
    /\ \E d \in DOMAIN active_devices, p \in PortIds : HasPort(Find(d), p)
    /\ process' = "aborted"
    /\ UNCHANGED <<heap, active_devices, setterVars>>

\* set_value: an equal value returns early; otherwise port_set is posted.
AnnounceValue(w) ==
    LET s == setter[w].state
        p == setter[w].port
        v == setter[w].value
    IN  /\ process = "running"
        /\ setter[w].pc = "found"
        /\ IF heap[s].value[p] = v
           THEN /\ setter' = [setter EXCEPT ![w] = Idle]
                /\ UNCHANGED announced
           ELSE /\ setter' = [setter EXCEPT ![w].pc = "storing"]
                /\ announced' = [announced EXCEPT ![s][p] = v]
        /\ UNCHANGED registryVars

\* set_value: _value = new_value.
StoreValue(w) ==
    /\ process = "running"
    /\ setter[w].pc = "storing"
    /\ StoreValues(setter[w].state, [p \in {setter[w].port} |-> setter[w].value])
    /\ setter' = [setter EXCEPT ![w] = Idle]
    /\ UNCHANGED <<active_devices, process, announced>>

SetterStep(w) ==
    \/ \E d \in DeviceIds, p \in PortIds, v \in Values : FindPort(w, d, p, v)
    \/ MalformedBody(w)
    \/ AnnounceValue(w)
    \/ StoreValue(w)

=============================================================================
