-------------------------------- MODULE Vault --------------------------------
(***************************************************************************)
(* The REST actions on devices and their ports (httpd/actions/             *)
(* http_devices.cc, http_ports.cc) over the data mapper (data_mapper.h,    *)
(* models/device.cc).                                                      *)
(*                                                                         *)
(* A request that changes something loads a whole row, patches the object  *)
(* and saves the whole row, in two statements without a transaction; the   *)
(* HTTP threads interleave between them.  The ports of a device are stored *)
(* as a list and held as a map from the id they had when they came in.     *)
(* Statements are whole: that the threads share one libpq connection is    *)
(* modelled by statements that may fail.  A failed statement is logged and *)
(* the action goes on.                                                     *)
(*                                                                         *)
(* The HTTP threads are servers of their own on one port                   *)
(* (httpd/http_server.cc:136-142).  Each of them is taken to serve, which  *)
(* has more behaviours than a system that lets only the first one listen.  *)
(*                                                                         *)
(* label stands for all fields of a row but the ports; a body that lacks a *)
(* field counts as one that carries the empty value.  The users' action is *)
(* the devices' without ports.                                             *)
(***************************************************************************)
EXTENDS Naturals, SequencesExt, OrderedLists

CONSTANTS
    HttpThreads,
    NoRequest,
    Labels,
    Empty,         \* what a new object has for a label
    PortBodies,    \* what clients send: ports, [id, name],
    DeviceBodies,  \* and devices, [label, ports]
    FirstRow,      \* the row there is at first
    MaxRows,       \* bound the rows
    MaxRequests    \* and the requests of a behaviour

VARIABLES
    rows,      \* the table; rows are never deleted, ids count up from 1
    conn,      \* the libpq connection: "open" or "finished"
    request,   \* what each HTTP thread is about to save
    requests   \* requests so far

vaultVars == <<rows, conn, request, requests>>

Ports == (UNION {Range(d.ports) : d \in DeviceBodies \cup {FirstRow}}) \cup PortBodies
PortIds == {p.id : p \in Ports}

Row == [label : Labels, ports : Seq(Ports)]

ASSUME VaultAssumption ==
    /\ Empty \in Labels /\ FirstRow \in Row /\ DeviceBodies \subseteq Row
    /\ PortIds \subseteq Nat
    /\ MaxRows \in Nat \ {0} /\ MaxRequests \in Nat

VaultTypeOK ==
    /\ rows \in Seq(Row) /\ Len(rows) \in 1 .. MaxRows
    /\ conn \in {"open", "finished"}
    /\ \A t \in HttpThreads : request[t] # NoRequest =>
          /\ request[t].device.id \in 0 .. Len(rows)
          /\ Range(request[t].device.ports) \subseteq Ports
          /\ request[t].wrote \subseteq DOMAIN request[t].device.ports
    /\ requests \in 0 .. MaxRequests

VaultInit ==
    /\ rows = <<FirstRow>>
    /\ conn = "open"
    /\ request = [t \in HttpThreads |-> NoRequest]
    /\ requests = 0

-----------------------------------------------------------------------------
(* The map of ports and its stored form.                                   *)

\* Specifications::after_from_json_object: of ports with one id the last stays.
Mapped(ports) ==
    [id \in {p.id : p \in Range(ports)} |->
        ports[CHOOSE i \in DOMAIN ports :
                 /\ ports[i].id = id
                 /\ \A j \in DOMAIN ports : ports[j].id = id => j <= i]]

\* Specifications::after_to_json_object: in the order of the keys, which are not
\* written.
Listed(map) == Only(map, DOMAIN map)

\* Ports that are set in a map.
Joined(ports, map) ==
    [k \in DOMAIN ports \cup DOMAIN map |-> IF k \in DOMAIN ports THEN ports[k] ELSE map[k]]

New == [id |-> 0, label |-> Empty, ports |-> <<>>]

FromRow(id) == [id |-> id, label |-> rows[id].label, ports |-> Mapped(rows[id].ports)]

\* load_from_db: false leaves a new object, whose id is 0.
Loads(id) == (IF conn = "open" /\ id \in DOMAIN rows THEN {FromRow(id)} ELSE {}) \cup {New}

-----------------------------------------------------------------------------
(* Requests.  loaded and wrote are history: the object before the patch,    *)
(* and the keys of the ports that the request sets.                        *)

Patched(t, device, before, keys) ==
    request' = [request EXCEPT ![t] = [device |-> device, loaded |-> before, wrote |-> keys]]

Arrives(t) ==
    /\ request[t] = NoRequest
    /\ requests < MaxRequests /\ requests' = requests + 1
    /\ UNCHANGED <<rows, conn>>

\* Deviation: the device has the ports of the body, and those alone.
DeviceFromJsonAlone(device, body) ==
    [device EXCEPT !.label = body.label, !.ports = Mapped(body.ports)]

\* Device::from_json: the ports of the body join those that were loaded.
DeviceFromJson(device, body) ==
    [device EXCEPT !.label = body.label, !.ports = Joined(Mapped(body.ports), @)]

PostDevice(t, body) ==
    /\ Arrives(t)
    /\ Patched(t, DeviceFromJson(New, body), New, DOMAIN Mapped(body.ports))

\* What load_from_db answers is not looked at.
PutDevice(t, id, body) ==
    /\ Arrives(t)
    /\ \E device \in Loads(id) :
          Patched(t, DeviceFromJson(device, body), device, DOMAIN Mapped(body.ports))

\* The ports' actions are refused when nothing was loaded.
PostPort(t, id, port) ==
    /\ Arrives(t)
    /\ \E device \in Loads(id) :
          IF device.id = 0 THEN UNCHANGED request
          ELSE Patched(t, [device EXCEPT !.ports = Joined([k \in {port.id} |-> port], @)], device, {port.id})

\* The port may change its id, and keeps its key.
PutPort(t, id, key, port) ==
    /\ Arrives(t)
    /\ \E device \in Loads(id) :
          IF device.id = 0 \/ key \notin DOMAIN device.ports THEN UNCHANGED request
          ELSE Patched(t, [device EXCEPT !.ports[key] = port], device, {key})

\* save: an update of the whole row, or an insert.
Stored(device) ==
    LET row == [label |-> device.label, ports |-> Listed(device.ports)]
    IN  IF device.id = 0 THEN Len(rows) < MaxRows /\ rows' = Append(rows, row)
                         ELSE rows' = [rows EXCEPT ![device.id] = row]

Ends(t) == request' = [request EXCEPT ![t] = NoRequest] /\ UNCHANGED <<conn, requests>>

Saved(t) ==
    /\ request[t] # NoRequest /\ conn = "open"
    /\ Stored(request[t].device)
    /\ Ends(t)

\* The answer is the same.
SaveFails(t) ==
    /\ request[t] # NoRequest
    /\ Ends(t)
    /\ UNCHANGED rows

-----------------------------------------------------------------------------
(* Properties.                                                             *)

\* The ids a request is about: the keys it sets, and the ids it gives there.
About(r) == r.wrote \cup {r.device.ports[k].id : k \in r.wrote}

\* Both show the same port p, or none.
SamePort(map1, map2, p) ==
    /\ p \in DOMAIN map1 <=> p \in DOMAIN map2
    /\ p \in DOMAIN map1 => map1[p] = map2[p]

\* A save changes one row.  A port that the request is not about stays, or goes
\* back to what it was when the request loaded the row: the lost update of
\* http_devices.cc:39-42 and http_ports.cc:76-84.
WritesItsOwn(r) ==
    \A id \in DOMAIN rows : rows'[id] # rows[id] =>
        /\ id = r.device.id
        /\ \A p \in PortIds \ About(r) :
              LET now == Mapped(rows'[id].ports)
              IN  SamePort(now, Mapped(rows[id].ports), p) \/ SamePort(now, r.loaded.ports, p)

\* What a request sets is what is shown from now on; but a port that has been given
\* the id of one behind it is lost at once (http_ports.cc:83).
WrittenIsShown(r) ==
    LET id == IF r.device.id = 0 THEN Len(rows') ELSE r.device.id
    IN  \A k \in r.wrote :
            LET port == r.device.ports[k]
            IN  \/ Mapped(rows'[id].ports)[port.id] = port
                \/ port.id # k /\ \E later \in DOMAIN r.device.ports :
                                    later > k /\ r.device.ports[later].id = port.id

\* Whatever requests are under way at the same time, and whichever statements fail.
SavesKeepTheirWord ==
    [][rows' # rows => \E t \in HttpThreads :
          /\ request[t] # NoRequest /\ request'[t] = NoRequest
          /\ WritesItsOwn(request[t]) /\ WrittenIsShown(request[t])]_vaultVars
=============================================================================
