------------------------------ MODULE WebClient ------------------------------
(***************************************************************************)
(* One page of the web client: the list of DevicesManager                  *)
(* (web/coffee/devices_manager.js.coffee), filled once by the answer to an *)
(* index request and kept up to date by the events that arrive over a      *)
(* ReconnectingWebSocket, and the buttons of DeviceComponent               *)
(* (web/coffee/components/device.js.coffee), which change the list first   *)
(* and ask the server afterwards.                                          *)
(*                                                                         *)
(* Of the server it has what a page can tell: the devices that             *)
(* DeviceState::find answers, the value of the one digital port of each,   *)
(* the events posted and not yet dispatched, and whether the websocket's   *)
(* session has subscribed.  The session's own thread does that after the   *)
(* handshake, if it ever does.                                             *)
(*                                                                         *)
(* missed is history: the facets of devices whose last change the page     *)
(* will not hear of.                                                       *)
(***************************************************************************)
EXTENDS ReconnectingWebSocket, Sequences

CONSTANTS
    Devices,
    MaxEvents,   \* bounds the events on their way
    MaxPuts      \* bounds the PUT requests on their way

ASSUME WebClientAssumption == MaxEvents \in Nat /\ MaxPuts \in Nat

VARIABLES
    registered,  \* the devices that DeviceState::find answers
    value,       \* the value of their port
    storing,     \* values announced and not yet stored
    posted,      \* events posted, in the order of posting
    subscribed,  \* the session of the open socket listens
    wire,        \* events sent to the page
    index,       \* the index request, and the answer it carries
    devices,     \* the page's list
    puts,        \* PUT requests on their way
    missed

serverVars == <<registered, value, storing>>
pageVars == <<index, devices, puts>>
clientVars == <<registered, value, storing, posted, subscribed, wire, index,
                devices, puts, missed>>

vars == <<rwsVars, clientVars>>

Row == [connected : BOOLEAN, value : BOOLEAN]
Event == [type : {"device_connected", "device_disconnected"}, device_id : Devices]
         \cup [type : {"port_set"}, device_id : Devices, value : BOOLEAN]
Facet == Devices \X {"connected", "value"}
Put == [device_id : Devices, value : BOOLEAN]

ClientTypeOK ==
    /\ registered \in SUBSET Devices
    /\ value \in [Devices -> BOOLEAN]
    /\ storing \in SUBSET Put
    /\ posted \in Seq(Event)
    /\ subscribed \in BOOLEAN
    /\ wire \in Seq(Event)
    /\ index \in [state : {"asked", "answered", "done"}, rows : [Devices -> Row]]
    /\ devices \in [Devices -> Row]
    /\ puts \in SUBSET Put
    /\ missed \in SUBSET Facet

TypeOK == RwsTypeOK /\ ClientTypeOK

NoRows == [d \in Devices |-> [connected |-> FALSE, value |-> FALSE]]

Init ==
    /\ RwsInit
    /\ registered \in SUBSET Devices
    /\ value = [d \in Devices |-> FALSE]
    /\ storing = {}
    /\ posted = <<>>
    /\ subscribed = FALSE
    /\ wire = <<>>
    /\ index = [state |-> "asked", rows |-> NoRows]
    /\ devices = NoRows
    /\ puts = {}
    /\ missed = {}

\* The page has its list; until then device() answers false.
Listed == index.state = "done"

FacetOf(e) == <<e.device_id, IF e.type = "port_set" THEN "value" ELSE "connected">>

FacetsOf(s) == {FacetOf(s[i]) : i \in DOMAIN s}

\* Some setter has announced a value of d and not yet stored it.
Storing(d) == \E p \in storing : p.device_id = d

InFlight == posted \o wire

Room == Len(InFlight) < MaxEvents

-----------------------------------------------------------------------------
(* The server.                                                             *)

Post(e) == Room /\ posted' = Append(posted, e)

\* create_session: DeviceState::connect, then the event.  The new state's
\* ports start afresh, without an event of their own.
Connect(d) ==
    /\ Post([type |-> "device_connected", device_id |-> d])
    /\ registered' = registered \cup {d}
    /\ \E v \in BOOLEAN : value' = [value EXCEPT ![d] = v]
    /\ storing' = {p \in storing : p.device_id # d}
    /\ missed' = missed \cup {<<d, "value">>}
    /\ UNCHANGED <<rwsVars, subscribed, wire, pageVars>>

\* exit: the event, then DeviceState::disconnect.
Disconnect(d) ==
    /\ d \in registered
    /\ Post([type |-> "device_disconnected", device_id |-> d])
    /\ registered' = registered \ {d}
    /\ storing' = {p \in storing : p.device_id # d}
    /\ UNCHANGED <<rwsVars, value, subscribed, wire, pageVars, missed>>

\* aps: the device reports its port, silently.
Report(d) ==
    /\ d \in registered
    /\ value' = [value EXCEPT ![d] = ~@]
    /\ missed' = missed \cup {<<d, "value">>}
    /\ UNCHANGED <<rwsVars, registered, storing, posted, subscribed, wire,
                   pageVars>>

\* set_port finds no device and answers false.
PutRefused(p) ==
    /\ p \in puts
    /\ p.device_id \notin registered
    /\ puts' = puts \ {p}
    /\ missed' = missed \cup {<<p.device_id, "value">>}
    /\ UNCHANGED <<rwsVars, serverVars, posted, subscribed, wire, index, devices>>

\* set_value returns at once when the port has the value already.  While another
\* setter has announced and not yet stored, that request is lost.
PutUnchanged(p) ==
    LET d == p.device_id
    IN  /\ p \in puts
        /\ d \in registered /\ value[d] = p.value
        /\ puts' = puts \ {p}
        /\ missed' = IF Storing(d) THEN missed \cup {<<d, "value">>} ELSE missed
        /\ UNCHANGED <<rwsVars, serverVars, posted, subscribed, wire, index, devices>>

\* Otherwise it announces the new value ...
PutAnnounced(p) ==
    /\ p \in puts
    /\ p.device_id \in registered /\ value[p.device_id] # p.value
    /\ puts' = puts \ {p}
    /\ Post([type |-> "port_set", device_id |-> p.device_id, value |-> p.value])
    /\ storing' = storing \cup {p}
    /\ UNCHANGED <<rwsVars, registered, value, subscribed, wire, index, devices,
                   missed>>

\* ... and stores it afterwards.  Of two setters the last to store may not be
\* the last to have announced.
Stored(p) ==
    /\ p \in storing
    /\ storing' = storing \ {p}
    /\ value' = [value EXCEPT ![p.device_id] = p.value]
    /\ missed' = IF \E q \in storing' : q.device_id = p.device_id
                 THEN missed \cup {<<p.device_id, "value">>} ELSE missed
    /\ UNCHANGED <<rwsVars, registered, posted, subscribed, wire, pageVars>>

\* The session's thread subscribes.
Subscribe ==
    /\ ws # NoSocket
    /\ socket[ws] = "open"
    /\ ~subscribed
    /\ subscribed' = TRUE
    /\ UNCHANGED <<rwsVars, serverVars, posted, wire, pageVars, missed>>

\* The events thread dispatches an event: to the page, if its session listens.
Dispatch ==
    /\ posted # <<>>
    /\ posted' = Tail(posted)
    /\ IF subscribed
       THEN wire' = Append(wire, Head(posted)) /\ UNCHANGED missed
       ELSE missed' = missed \cup {FacetOf(Head(posted))} /\ UNCHANGED wire
    /\ UNCHANGED <<rwsVars, serverVars, subscribed, pageVars>>

\* The index action reads rows and states.
IndexAnswered ==
    /\ index.state = "asked"
    /\ index' = [state |-> "answered",
                 rows |-> [d \in Devices |->
                    [connected |-> d \in registered,
                     value |-> d \in registered /\ value[d]]]]
    /\ missed' = {p \in Facet : p \in missed /\ p[2] = "value" /\ Storing(p[1])}
    /\ UNCHANGED <<rwsVars, serverVars, posted, subscribed, wire, devices, puts>>

-----------------------------------------------------------------------------
(* The page.                                                               *)

\* DevicesModel.index().done
IndexDone ==
    /\ index.state = "answered"
    /\ index' = [index EXCEPT !.state = "done"]
    /\ devices' = index.rows
    /\ UNCHANGED <<rwsVars, serverVars, posted, subscribed, wire, puts, missed>>

\* Deviation: both device events set connected.
AppliedOr(e) ==
    [devices EXCEPT ![e.device_id] =
        IF e.type = "port_set" THEN [@ EXCEPT !.value = e.value]
        ELSE [@ EXCEPT !.connected = TRUE]]

\* What an event does to the list.
Applied(e) ==
    [devices EXCEPT ![e.device_id] =
        IF e.type = "port_set" THEN [@ EXCEPT !.value = e.value]
        ELSE [@ EXCEPT !.connected = (e.type = "device_connected")]]

\* After e the page agrees with the server, and nothing is on its way that could
\* change that.
CaughtUp(e) ==
    LET d == e.device_id
    IN  /\ FacetOf(e) \notin FacetsOf(posted \o Tail(wire))
        /\ IF e.type = "port_set"
           THEN value[d] = e.value /\ ~Storing(d)
           ELSE (d \in registered) = (e.type = "device_connected")

\* ws.onmessage.  For want of a list device() answers false: connected is set
\* on nothing, and the ports of false are undefined and throw.
OnMessage ==
    /\ wire # <<>>
    /\ wire' = Tail(wire)
    /\ IF Listed
       THEN /\ devices' = Applied(Head(wire))
            /\ missed' = IF CaughtUp(Head(wire)) THEN missed \ {FacetOf(Head(wire))}
                         ELSE missed
       ELSE missed' = missed \cup {FacetOf(Head(wire))} /\ UNCHANGED devices
    /\ UNCHANGED <<rwsVars, serverVars, posted, subscribed, index, puts>>

\* togglePortState: the list first, then the request.
Toggle(d) ==
    /\ Listed
    /\ Cardinality(puts) < MaxPuts
    /\ devices' = [devices EXCEPT ![d].value = ~@]
    /\ puts' = puts \cup {[device_id |-> d, value |-> ~devices[d].value]}
    /\ UNCHANGED <<rwsVars, serverVars, posted, subscribed, wire, index, missed>>

\* A PUT fails on its way; nothing on the page waits for its answer.
PutLost(p) ==
    /\ p \in puts
    /\ puts' = puts \ {p}
    /\ missed' = missed \cup {<<p.device_id, "value">>}
    /\ UNCHANGED <<rwsVars, serverVars, posted, subscribed, wire, index, devices>>

-----------------------------------------------------------------------------
(* The socket.  With a connection the server's session and all that was on *)
(* the wire are lost.                                                      *)

Quiet == UNCHANGED clientVars

Hangup ==
    /\ subscribed' = FALSE
    /\ wire' = <<>>
    /\ missed' = missed \cup FacetsOf(wire)
    /\ UNCHANGED <<serverVars, posted, pageVars>>

SocketStep ==
    \/ \E s \in Sockets : Opened(s) /\ Quiet
    \/ \E s \in Sockets : Lost(s) /\ Hangup
    \/ \E s \in Sockets : ConnectTimeout(s) /\ Quiet
    \/ \E s \in Sockets : Closed(s) /\ Quiet
    \/ \E s, n \in Sockets : Reopen(s, n) /\ Quiet
    \/ Close /\ Hangup
    \/ Refresh /\ Hangup

Next ==
    \/ SocketStep
    \/ \E d \in Devices : Connect(d) \/ Disconnect(d) \/ Report(d) \/ Toggle(d)
    \/ \E p \in Put :
          PutRefused(p) \/ PutUnchanged(p) \/ PutAnnounced(p) \/ Stored(p)
          \/ PutLost(p)
    \/ Subscribe
    \/ Dispatch
    \/ IndexAnswered
    \/ IndexDone
    \/ OnMessage

Fairness ==
    /\ \A s \in Sockets : WF_vars(ConnectTimeout(s) /\ Quiet)
    /\ \A s \in Sockets : WF_vars(Closed(s) /\ Quiet)
    /\ WF_vars(\E s, n \in Sockets : Reopen(s, n) /\ Quiet)
    /\ SF_vars(\E s \in Sockets : Opened(s) /\ Quiet)

Spec == Init /\ [][Next]_vars /\ Fairness

-----------------------------------------------------------------------------

\* The page's row of a listed device and the server's state of it differ only
\* while news of it is on its way, or when that news was lost to the page:
\* dispatched before the session subscribed, swallowed by a connection that
\* closed, handled before the list was there, or never announced.  Nothing
\* tells the page afterwards (devices_manager.js.coffee:5-7 asks once).
StaleIsAccountedFor ==
    Listed => \A d \in Devices :
        /\ devices[d].connected # (d \in registered)
              => <<d, "connected">> \in missed \cup FacetsOf(InFlight)
        /\ d \in registered /\ devices[d].value # value[d]
              => \/ <<d, "value">> \in missed \cup FacetsOf(InFlight)
                 \/ Storing(d)
                 \/ \E p \in puts : p.device_id = d

=============================================================================
