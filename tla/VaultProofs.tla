----------------------------- MODULE VaultProofs -----------------------------
(***************************************************************************)
(* What a save of a device does to its row, for any number of HTTP         *)
(* threads, rows and requests, whichever signal handler runs beside them.  *)
(*                                                                         *)
(* The provers have no induction over data.  Where the order of the keys   *)
(* needs one, a least counterexample is taken instead.                     *)
(***************************************************************************)
EXTENDS Shutdown, FiniteSetTheorems, WellFoundedInduction, TLAPS

-----------------------------------------------------------------------------
(* A finite set of natural numbers has an ascending list, so what stands   *)
(* at some positions of a list is a list again, in the same order.         *)

\* Some numbers have a least one.
LEMMA LeastOf ==
    ASSUME NEW T \in SUBSET Nat, T # {}
    PROVE  \E x \in T : \A y \in T : x <= y
<1> DEFINE R == OpToRel(<, Nat)
<1>1. IsWellFoundedOn(R, Nat)
  BY NatLessThanWellFounded
<1>2. \A x, y \in Nat : <<x, y>> \in R <=> x < y
  BY DEF OpToRel
<1> HIDE DEF R
<1>3. PICK x \in T : \A y \in T : ~(<<y, x>> \in R)
  BY <1>1, WFMin
<1>4. \A y \in T : ~(y < x) /\ x \in Nat /\ y \in Nat
  BY <1>2, <1>3
<1> QED
  BY <1>4

\* The least number goes before a list of the others.
LEMMA AscendingExtends ==
    ASSUME NEW D \in SUBSET Nat, IsFiniteSet(D), NEW m \in D, \A k \in D : m <= k,
           Ascending(D \ {m}) # {}
    PROVE  Ascending(D) # {}
<1> DEFINE n == Cardinality(D)
           E == D \ {m}
<1>1. n \in Nat \ {0} /\ Cardinality(E) = n - 1
  BY FS_CardinalityType, FS_RemoveElement, FS_EmptySet
<1>2. PICK s \in [1 .. n - 1 -> E] :
        /\ \A k \in E : \E i \in 1 .. n - 1 : s[i] = k
        /\ \A i, j \in 1 .. n - 1 : i < j => s[i] < s[j]
  BY <1>1 DEF Ascending
<1> DEFINE t == [i \in 1 .. n |-> IF i = 1 THEN m ELSE s[i - 1]]
<1> HIDE DEF n
<1>3. \A i \in 1 .. n : i # 1 => i - 1 \in 1 .. n - 1
  BY <1>1
<1>4. t \in [1 .. n -> D]
  BY <1>2, <1>3
<1>5. \A k \in D : \E i \in 1 .. n : t[i] = k
  <2>1. ASSUME NEW k \in D PROVE \E i \in 1 .. n : t[i] = k
    <3>1. CASE k = m
      <4>1. 1 \in 1 .. n /\ t[1] = m
        BY <1>1
      <4> QED
        BY <3>1, <4>1
    <3>2. CASE k # m
      <4>1. PICK i \in 1 .. n - 1 : s[i] = k
        BY <3>2, <1>2
      <4>2. i + 1 \in 1 .. n /\ i + 1 # 1 /\ (i + 1) - 1 = i
        BY <1>1
      <4>3. t[i + 1] = k
        BY <4>1, <4>2
      <4> QED
        BY <4>2, <4>3
    <3> QED
      BY <3>1, <3>2
  <2> QED
    BY <2>1
<1>6. ASSUME NEW i \in 1 .. n, NEW j \in 1 .. n, i < j PROVE t[i] < t[j]
  <2>1. j # 1 /\ j - 1 \in 1 .. n - 1 /\ t[j] = s[j - 1] /\ s[j - 1] \in E
    BY <1>1, <1>2, <1>3, <1>6
  <2>2. CASE i = 1
    <3>1. t[i] = m
      BY <2>2
    <3>2. s[j - 1] \in D /\ s[j - 1] # m /\ s[j - 1] \in Nat /\ m \in Nat
      BY <2>1
    <3>3. m <= s[j - 1]
      BY <3>2
    <3>4. m < s[j - 1]
      BY <3>2, <3>3
    <3> HIDE DEF t
    <3> QED
      BY <2>1, <3>1, <3>4
  <2>3. CASE i # 1
    <3>1. t[i] = s[i - 1] /\ i - 1 \in 1 .. n - 1 /\ i - 1 < j - 1
      BY <2>3, <1>1, <1>3, <1>6
    <3> HIDE DEF t
    <3> QED
      BY <2>1, <3>1, <1>2
  <2> QED
    BY <2>2, <2>3
<1> HIDE DEF t
<1> QED
  BY <1>4, <1>5, <1>6 DEF Ascending, n

\* A least number of elements without a list would not be the least.
LEMMA AscendingExists ==
    ASSUME NEW D \in SUBSET Nat, IsFiniteSet(D)
    PROVE  Ascending(D) # {}
<1> DEFINE Bad == {n \in Nat : \E C \in SUBSET Nat :
                      IsFiniteSet(C) /\ Cardinality(C) = n /\ Ascending(C) = {}}
<1>1. ASSUME Bad # {} PROVE FALSE
  <2>1. PICK n \in Bad : \A k \in Bad : n <= k
    BY <1>1, LeastOf
  <2>2. PICK C \in SUBSET Nat : IsFiniteSet(C) /\ Cardinality(C) = n /\ Ascending(C) = {}
    BY <2>1
  <2>3. CASE C = {}
    <3> DEFINE s == [i \in 1 .. 0 |-> i]
    <3>1. Cardinality(C) = 0
      BY <2>3, FS_EmptySet
    <3>2. s \in Ascending(C)
      BY <2>3, <3>1 DEF Ascending
    <3> QED
      BY <2>2, <3>2
  <2>4. CASE C # {}
    <3>1. PICK m \in C : \A k \in C : m <= k
      BY <2>4, LeastOf
    <3>2. /\ IsFiniteSet(C \ {m}) /\ Cardinality(C \ {m}) = n - 1
          /\ n - 1 \in Nat /\ n \in Nat
      <4>1. IsFiniteSet(C \ {m}) /\ Cardinality(C \ {m}) = n - 1
        BY <2>2, <3>1, FS_RemoveElement
      <4>2. Cardinality(C \ {m}) \in Nat
        BY <4>1, FS_CardinalityType
      <4> QED
        BY <4>1, <4>2
    <3>3. n - 1 \notin Bad
      BY <2>1, <3>2
    <3>4. Ascending(C \ {m}) # {}
      BY <3>2, <3>3
    <3> QED
      BY <2>2, <3>1, <3>4, AscendingExtends
  <2> QED
    BY <2>3, <2>4
<1>2. Cardinality(D) \in Nat
  BY FS_CardinalityType
<1> QED
  BY <1>1, <1>2

\* What is taken from D is listed once, in order.
LEMMA OnlyFacts ==
    ASSUME NEW D \in SUBSET Nat, IsFiniteSet(D), NEW T, NEW map,
           \A k \in D : map[k] \in T
    PROVE  /\ Only(map, D) \in Seq(T)
           /\ Len(Only(map, D)) = Cardinality(D)
           /\ \E s \in [DOMAIN Only(map, D) -> D] :
                 /\ \A i \in DOMAIN Only(map, D) : Only(map, D)[i] = map[s[i]]
                 /\ \A k \in D : \E i \in DOMAIN Only(map, D) : s[i] = k
                 /\ \A i, j \in DOMAIN Only(map, D) : i < j => s[i] < s[j]
<1>1. PICK n \in Nat : n = Cardinality(D)
  BY FS_CardinalityType
<1>2. PICK s : s = AscendingList(D) /\ s \in Ascending(D)
  BY AscendingExists DEF AscendingList
<1>3. /\ s \in [1 .. n -> D]
      /\ \A k \in D : \E i \in 1 .. n : s[i] = k
      /\ \A i, j \in 1 .. n : i < j => s[i] < s[j]
  BY <1>1, <1>2 DEF Ascending
<1>4. PICK list : list = Only(map, D)
  OBVIOUS
<1>5. list = [i \in 1 .. n |-> map[s[i]]]
  BY <1>1, <1>2, <1>4 DEF Only
<1>6. list \in [1 .. n -> T]
  BY <1>3, <1>5
<1>7. list \in Seq(T) /\ Len(list) = n /\ DOMAIN list = 1 .. n
  BY <1>6
<1>8. \A i \in 1 .. n : list[i] = map[s[i]]
  BY <1>5
<1> QED
  BY <1>1, <1>3, <1>4, <1>7, <1>8

-----------------------------------------------------------------------------
(* Ports as a map and as a list.                                           *)

\* What a device holds: a finite map from keys to ports.
PortMap == UNION {[D -> Ports] : D \in {E \in SUBSET PortIds : IsFiniteSet(E)}}

OwnKeys(map) == \A k \in DOMAIN map : map[k].id = k

LEMMA PortMapFacts ==
    ASSUME NEW map \in PortMap
    PROVE  /\ IsFiniteSet(DOMAIN map) /\ DOMAIN map \in SUBSET Nat
           /\ DOMAIN map \in SUBSET PortIds
           /\ \A k \in DOMAIN map : map[k] \in Ports /\ map[k].id \in PortIds
BY VaultAssumption DEF PortMap, PortIds

LEMMA PortMapIntro ==
    ASSUME NEW D, D \subseteq PortIds, IsFiniteSet(D), NEW map \in [D -> Ports]
    PROVE  map \in PortMap
BY DEF PortMap

\* The stored list has the ports in the order of their keys.
LEMMA ListedFacts ==
    ASSUME NEW map \in PortMap
    PROVE  /\ Listed(map) \in Seq(Ports)
           /\ \E s \in [DOMAIN Listed(map) -> DOMAIN map] :
                 /\ \A i \in DOMAIN Listed(map) : Listed(map)[i] = map[s[i]]
                 /\ \A k \in DOMAIN map : \E i \in DOMAIN Listed(map) : s[i] = k
                 /\ \A i, j \in DOMAIN Listed(map) : i < j => s[i] < s[j]
<1>1. PICK D : D = DOMAIN map
  OBVIOUS
<1>2. D \in SUBSET Nat /\ IsFiniteSet(D) /\ D \subseteq DOMAIN map
      /\ \A k \in D : map[k] \in Ports
  BY <1>1, PortMapFacts
<1> QED
  BY <1>1, <1>2, OnlyFacts DEF Listed

\* Among finitely many there is a last one.
LEMMA LastWith ==
    ASSUME NEW ports \in Seq(Ports), NEW i \in DOMAIN ports
    PROVE  \E l \in DOMAIN ports :
              /\ ports[l].id = ports[i].id
              /\ \A j \in DOMAIN ports : ports[j].id = ports[i].id => j <= l
<1> DEFINE n == Len(ports)
           T == {k \in Nat : n - k \in 1 .. n /\ ports[n - k].id = ports[i].id}
<1>1. n \in Nat /\ DOMAIN ports = 1 .. n
  OBVIOUS
<1> HIDE DEF n
<1>2. \A j \in 1 .. n : n - j \in Nat /\ n - (n - j) = j
  BY <1>1
<1>3. n - i \in T
  BY <1>1, <1>2
<1>4. PICK k \in T : \A x \in T : k <= x
  BY <1>3, LeastOf
<1>5. ASSUME NEW j \in 1 .. n, ports[j].id = ports[i].id PROVE j <= n - k
  <2>1. n - j \in T
    BY <1>2, <1>5
  <2>2. k <= n - j /\ k \in Nat
    BY <1>4, <2>1
  <2> QED
    BY <2>2, <1>1
<1> QED
  BY <1>1, <1>4, <1>5

\* What is read from a list: of ports with one id the last.
LEMMA MappedFacts ==
    ASSUME NEW ports \in Seq(Ports)
    PROVE  /\ DOMAIN Mapped(ports) = {ports[i].id : i \in DOMAIN ports}
           /\ \A i \in DOMAIN ports :
                 (\A j \in DOMAIN ports : ports[j].id = ports[i].id => j <= i)
                     => Mapped(ports)[ports[i].id] = ports[i]
           /\ Mapped(ports) \in PortMap
           /\ OwnKeys(Mapped(ports))
<1> DEFINE D == {p.id : p \in Range(ports)}
           IsLast(id, i) == /\ ports[i].id = id
                          /\ \A j \in DOMAIN ports : ports[j].id = id => j <= i
           at(id) == CHOOSE i \in DOMAIN ports : IsLast(id, i)
<1>0. /\ DOMAIN ports = 1 .. Len(ports) /\ Len(ports) \in Nat
      /\ \A i \in DOMAIN ports : ports[i] \in Ports
  OBVIOUS
<1>1. D = {ports[i].id : i \in DOMAIN ports}
  BY DEF Range
<1>2. Mapped(ports) = [id \in D |-> ports[at(id)]]
  BY DEF Mapped
<1>3. ASSUME NEW id \in D PROVE at(id) \in DOMAIN ports /\ IsLast(id, at(id))
  <2>1. PICK i \in DOMAIN ports : ports[i].id = id
    BY <1>1
  <2>2. \E l \in DOMAIN ports : IsLast(id, l)
    BY <2>1, LastWith
  <2> QED
    BY <2>2
<1>4. ASSUME NEW i \in DOMAIN ports, IsLast(ports[i].id, i)
      PROVE  at(ports[i].id) = i
  <2>1. ports[i].id \in D
    BY <1>1
  <2>2. i <= at(ports[i].id) /\ at(ports[i].id) <= i /\ at(ports[i].id) \in DOMAIN ports
    BY <1>3, <1>4, <2>1
  <2> QED
    BY <2>2, <1>0
<1>5. D \subseteq PortIds /\ IsFiniteSet(D)
  <2>1. D \subseteq PortIds
    BY <1>0, <1>1 DEF PortIds
  <2>2. IsFiniteSet(1 .. Len(ports))
    BY <1>0, FS_Interval
  <2>3. [i \in 1 .. Len(ports) |-> ports[i].id] \in Surjection(1 .. Len(ports), D)
    BY <1>0, <1>1 DEF Surjection, Range
  <2> QED
    BY <2>1, <2>2, <2>3, FS_Surjection
<1>6. \A id \in D : ports[at(id)] \in Ports /\ ports[at(id)].id = id
  BY <1>0, <1>3
<1>7. Mapped(ports) \in [D -> Ports]
  BY <1>2, <1>6
<1> HIDE DEF D, at
<1>8. \A i \in DOMAIN ports : ports[i].id \in D
  BY <1>1
<1>9. \A i \in DOMAIN ports : IsLast(ports[i].id, i) => Mapped(ports)[ports[i].id] = ports[i]
  BY <1>2, <1>4, <1>8
<1>10. Mapped(ports) \in PortMap
  BY <1>5, <1>7, PortMapIntro
<1>11. OwnKeys(Mapped(ports))
  BY <1>2, <1>6 DEF OwnKeys
<1> QED
  BY <1>1, <1>2, <1>9, <1>10, <1>11

\* A map that was stored and is read again: under each id stands the port that
\* had the last key.
LEMMA StoredAndRead ==
    ASSUME NEW map \in PortMap
    PROVE  /\ DOMAIN Mapped(Listed(map)) = {map[k].id : k \in DOMAIN map}
           /\ \A k \in DOMAIN map :
                 (\A j \in DOMAIN map : map[j].id = map[k].id => j <= k)
                     => Mapped(Listed(map))[map[k].id] = map[k]
<1> DEFINE l == Listed(map)
<1>1. PICK s \in [DOMAIN l -> DOMAIN map] :
        /\ \A i \in DOMAIN l : l[i] = map[s[i]]
        /\ \A k \in DOMAIN map : \E i \in DOMAIN l : s[i] = k
        /\ \A i, j \in DOMAIN l : i < j => s[i] < s[j]
  BY ListedFacts
<1>2. l \in Seq(Ports) /\ DOMAIN l \subseteq Nat /\ DOMAIN map \subseteq Nat
  BY ListedFacts, PortMapFacts
<1> HIDE DEF l
<1>3. DOMAIN Mapped(l) = {map[k].id : k \in DOMAIN map}
  <2>1. DOMAIN Mapped(l) = {l[i].id : i \in DOMAIN l}
    BY <1>2, MappedFacts
  <2>2. {l[i].id : i \in DOMAIN l} = {map[k].id : k \in DOMAIN map}
    BY <1>1
  <2> QED
    BY <2>1, <2>2
<1>4. ASSUME NEW k \in DOMAIN map, \A j \in DOMAIN map : map[j].id = map[k].id => j <= k
      PROVE  Mapped(l)[map[k].id] = map[k]
  <2>1. PICK i \in DOMAIN l : s[i] = k
    BY <1>1
  <2>2. ASSUME NEW j \in DOMAIN l, l[j].id = l[i].id PROVE j <= i
    <3>1. s[j] \in DOMAIN map /\ s[j] <= k
      BY <1>1, <1>4, <2>1, <2>2
    <3>2. ~(i < j)
      BY <1>1, <1>2, <2>1, <3>1
    <3> QED
      BY <1>2, <3>2
  <2>3. Mapped(l)[l[i].id] = l[i]
    BY <1>2, <2>2, MappedFacts
  <2> QED
    BY <1>1, <2>1, <2>3
<1> QED
  BY <1>3, <1>4 DEF l

-----------------------------------------------------------------------------
(* Requests.                                                               *)

Object == [id : Nat, label : Labels, ports : PortMap]
Request == [device : Object, loaded : Object, wrote : SUBSET PortIds]

\* The request has patched what it loaded: all keys but those it sets hold what
\* they held, under their own ids; and of the ports it sets either all have the
\* id of their key, or there is only one.
Patches(r) ==
    /\ r \in Request
    /\ r.device.id = r.loaded.id
    /\ OwnKeys(r.loaded.ports)
    /\ DOMAIN r.device.ports = DOMAIN r.loaded.ports \cup r.wrote
    /\ \A k \in DOMAIN r.loaded.ports \ r.wrote : r.device.ports[k] = r.loaded.ports[k]
    /\ \/ \A k \in r.wrote : r.device.ports[k].id = k
       \/ \E k : r.wrote = {k}

VaultInv ==
    /\ VaultTypeOK
    /\ request \in [HttpThreads -> Request \cup {NoRequest}]
    /\ \A t \in HttpThreads : request[t] # NoRequest => Patches(request[t])

\* What can be loaded.
Loadable(device) == device \in Object /\ device.id <= Len(rows) /\ OwnKeys(device.ports)

LEMMA NoPorts == <<>> \in PortMap
<1>1. <<>> \in [{} -> Ports] /\ IsFiniteSet({})
  BY FS_EmptySet
<1> QED
  BY <1>1, PortMapIntro

LEMMA NewIsLoadable ==
    ASSUME rows \in Seq(Row) PROVE Loadable(New)
<1>1. OwnKeys(<<>>)
  BY DEF OwnKeys
<1>2. Empty \in Labels /\ Len(rows) \in Nat
  BY VaultAssumption
<1> QED
  BY <1>1, <1>2, NoPorts DEF Loadable, New, Object

LEMMA LoadsLoadable ==
    ASSUME rows \in Seq(Row), NEW id \in DOMAIN rows, NEW device \in Loads(id)
    PROVE  Loadable(device)
<1>1. CASE device = New
  BY <1>1, NewIsLoadable
<1>2. CASE device = FromRow(id)
  <2>1. id \in Nat /\ id <= Len(rows) /\ rows[id] \in Row
    OBVIOUS
  <2>2. rows[id].label \in Labels /\ rows[id].ports \in Seq(Ports)
    BY <2>1 DEF Row
  <2>3. Mapped(rows[id].ports) \in PortMap /\ OwnKeys(Mapped(rows[id].ports))
    BY <2>2, MappedFacts
  <2> QED
    BY <1>2, <2>1, <2>2, <2>3 DEF Loadable, FromRow, Object
<1> QED
  BY <1>1, <1>2 DEF Loads

\* The ports of map come before those of old.
LEMMA JoinedPorts ==
    ASSUME NEW map \in PortMap, NEW old \in PortMap
    PROVE  /\ Joined(map, old) \in PortMap
           /\ DOMAIN Joined(map, old) = DOMAIN map \cup DOMAIN old
           /\ \A k \in DOMAIN map : Joined(map, old)[k] = map[k]
           /\ \A k \in DOMAIN old \ DOMAIN map : Joined(map, old)[k] = old[k]
<1> DEFINE D == DOMAIN map \cup DOMAIN old
<1>1. Joined(map, old) = [k \in D |-> IF k \in DOMAIN map THEN map[k] ELSE old[k]]
  BY DEF Joined
<1>2. D \subseteq PortIds /\ IsFiniteSet(D)
  BY PortMapFacts, FS_Union
<1>3. Joined(map, old) \in [D -> Ports]
  BY <1>1, PortMapFacts
<1>4. Joined(map, old) \in PortMap
  BY <1>2, <1>3, PortMapIntro
<1> QED
  BY <1>1, <1>4

\* A device's body, a port's body, and a port's body for a key that is there.
LEMMA ObjectFacts ==
    ASSUME NEW device \in Object, NEW map \in PortMap, NEW label \in Labels
    PROVE  /\ [device EXCEPT !.label = label, !.ports = map] \in Object
           /\ [device EXCEPT !.label = label, !.ports = map].ports = map
           /\ [device EXCEPT !.label = label, !.ports = map].id = device.id
           /\ [device EXCEPT !.ports = map] \in Object
           /\ [device EXCEPT !.ports = map].ports = map
           /\ [device EXCEPT !.ports = map].id = device.id
BY DEF Object

LEMMA BodyPatches ==
    ASSUME NEW device, Loadable(device), NEW body \in DeviceBodies
    PROVE  Patches([device |-> DeviceFromJson(device, body), loaded |-> device,
                    wrote |-> DOMAIN Mapped(body.ports)])
<1>1. body \in Row /\ body.label \in Labels /\ body.ports \in Seq(Ports)
  BY VaultAssumption DEF Row
<1>2. device \in Object /\ device.ports \in PortMap /\ OwnKeys(device.ports)
  BY DEF Loadable, Object
<1>3. PICK map \in PortMap : map = Mapped(body.ports) /\ OwnKeys(map)
  BY <1>1, MappedFacts
<1>4. PICK new \in PortMap :
        /\ new = Joined(map, device.ports)
        /\ DOMAIN new = DOMAIN map \cup DOMAIN device.ports
        /\ \A k \in DOMAIN map : new[k] = map[k]
        /\ \A k \in DOMAIN device.ports \ DOMAIN map : new[k] = device.ports[k]
  <2>1. PICK old \in PortMap : old = device.ports
    BY <1>2
  <2>2. PICK new \in PortMap :
          /\ new = Joined(map, old)
          /\ DOMAIN new = DOMAIN map \cup DOMAIN old
          /\ \A k \in DOMAIN map : new[k] = map[k]
          /\ \A k \in DOMAIN old \ DOMAIN map : new[k] = old[k]
    BY ZenonT(60), JoinedPorts
  <2> QED
    BY <2>1, <2>2
<1>5. PICK patched : patched = DeviceFromJson(device, body)
  OBVIOUS
<1>6. patched = [device EXCEPT !.label = body.label, !.ports = new]
  <2>1. patched = [device EXCEPT !.label = body.label, !.ports = Joined(map, device.ports)]
    BY <1>2, <1>3, <1>5 DEF DeviceFromJson, Object
  <2> QED
    BY <2>1, <1>4
<1>7. patched \in Object /\ patched.ports = new /\ patched.id = device.id
  BY <1>1, <1>2, <1>6, ObjectFacts
<1>8. \A k \in DOMAIN map : new[k].id = k
  BY <1>3, <1>4 DEF OwnKeys
<1>9. DOMAIN map \in SUBSET PortIds
  BY PortMapFacts
<1>10. Patches([device |-> patched, loaded |-> device, wrote |-> DOMAIN map])
  BY <1>2, <1>4, <1>7, <1>8, <1>9 DEF Patches, Request
<1> QED
  BY <1>3, <1>5, <1>10

LEMMA PortJoins ==
    ASSUME NEW device, Loadable(device), NEW port \in PortBodies
    PROVE  Patches([device |-> [device EXCEPT !.ports = Joined([k \in {port.id} |-> port], @)],
                    loaded |-> device, wrote |-> {port.id}])
<1>1. port \in Ports /\ port.id \in PortIds
  BY DEF Ports, PortIds
<1>2. device \in Object /\ device.ports \in PortMap /\ OwnKeys(device.ports)
  BY DEF Loadable, Object
<1>3. PICK map \in PortMap : /\ map = [k \in {port.id} |-> port]
                             /\ DOMAIN map = {port.id} /\ map[port.id] = port
  <2>1. IsFiniteSet({port.id})
    BY FS_Singleton
  <2>2. [k \in {port.id} |-> port] \in PortMap
    BY <1>1, <2>1, PortMapIntro
  <2> QED
    BY <2>2
<1>4. PICK new \in PortMap :
        /\ new = Joined(map, device.ports)
        /\ DOMAIN new = DOMAIN map \cup DOMAIN device.ports
        /\ \A k \in DOMAIN map : new[k] = map[k]
        /\ \A k \in DOMAIN device.ports \ DOMAIN map : new[k] = device.ports[k]
  <2>1. PICK old \in PortMap : old = device.ports
    BY <1>2
  <2>2. PICK new \in PortMap :
          /\ new = Joined(map, old)
          /\ DOMAIN new = DOMAIN map \cup DOMAIN old
          /\ \A k \in DOMAIN map : new[k] = map[k]
          /\ \A k \in DOMAIN old \ DOMAIN map : new[k] = old[k]
    BY SMTT(60), JoinedPorts
  <2> QED
    BY <2>1, <2>2
<1>5. PICK patched : patched = [device EXCEPT !.ports = new]
  OBVIOUS
<1>6. patched \in Object /\ patched.ports = new /\ patched.id = device.id
  BY <1>2, <1>5 DEF Object
<1>7. Patches([device |-> patched, loaded |-> device, wrote |-> {port.id}])
  BY <1>1, <1>2, <1>3, <1>4, <1>6 DEF Patches, Request
<1>8. patched = [device EXCEPT !.ports = Joined([k \in {port.id} |-> port], @)]
  BY <1>2, <1>3, <1>4, <1>5 DEF Object
<1> QED
  BY <1>7, <1>8

LEMMA PortReplaces ==
    ASSUME NEW device, Loadable(device), NEW key \in DOMAIN device.ports,
           NEW port \in PortBodies
    PROVE  Patches([device |-> [device EXCEPT !.ports[key] = port],
                    loaded |-> device, wrote |-> {key}])
<1> DEFINE new == [device.ports EXCEPT ![key] = port]
<1>1. port \in Ports
  BY DEF Ports
<1>2. device \in Object /\ device.ports \in PortMap /\ OwnKeys(device.ports)
  BY DEF Loadable, Object
<1>3. PICK D \in SUBSET PortIds : IsFiniteSet(D) /\ device.ports \in [D -> Ports]
  BY <1>2 DEF PortMap
<1>4. key \in PortIds /\ new \in [D -> Ports]
  BY <1>1, <1>3
<1>5. /\ new \in PortMap /\ DOMAIN new = DOMAIN device.ports \cup {key}
      /\ \A k \in DOMAIN device.ports \ {key} : new[k] = device.ports[k]
  BY <1>3, <1>4, PortMapIntro
<1> HIDE DEF new
<1>6. /\ [device EXCEPT !.ports = new] \in Object
      /\ [device EXCEPT !.ports = new].ports = new
      /\ [device EXCEPT !.ports = new].id = device.id
  BY <1>2, <1>5 DEF Object
<1>7. [device EXCEPT !.ports[key] = port] = [device EXCEPT !.ports = new]
  BY <1>2 DEF new, Object
<1> QED
  BY ZenonT(60), <1>2, <1>4, <1>5, <1>6, <1>7 DEF Patches, Request

-----------------------------------------------------------------------------
(* The invariant of the requests.                                          *)

LEMMA VaultInitially == VaultInit => VaultInv
<1> SUFFICES ASSUME VaultInit PROVE VaultInv
  OBVIOUS
<1>1. rows \in Seq(Row) /\ Len(rows) = 1 /\ 1 \in 1 .. MaxRows /\ 0 \in 0 .. MaxRequests
  BY VaultAssumption DEF VaultInit
<1> QED
  BY <1>1 DEF VaultInit, VaultInv, VaultTypeOK

LEMMA Arrived ==
    ASSUME VaultInv, NEW t \in HttpThreads, Arrives(t),
           NEW r, Patches(r), r.device.id <= Len(rows),
           request' = [request EXCEPT ![t] = r]
    PROVE  VaultInv'
<1>1. /\ rows' = rows /\ conn' = conn
      /\ requests' \in 0 .. MaxRequests
  BY VaultAssumption DEF Arrives, VaultInv, VaultTypeOK
<1>2. r \in Request /\ r.device \in Object /\ r.device.ports \in PortMap
  BY DEF Patches, Request, Object
<1>3. /\ r.device.id \in 0 .. Len(rows)
      /\ Range(r.device.ports) \subseteq Ports
      /\ r.wrote \subseteq DOMAIN r.device.ports
  <2>1. r.device.id \in Nat /\ Len(rows) \in Nat
    BY <1>2 DEF Object, VaultInv, VaultTypeOK
  <2>2. Range(r.device.ports) \subseteq Ports
    BY <1>2, PortMapFacts DEF Range
  <2> QED
    BY <2>1, <2>2 DEF Patches
<1>4. request \in [HttpThreads -> Request \cup {NoRequest}]
  BY DEF VaultInv
<1>5. \A u \in HttpThreads : request'[u] = IF u = t THEN r ELSE request[u]
  BY <1>4
<1>6. request' \in [HttpThreads -> Request \cup {NoRequest}]
  BY <1>2, <1>4
<1>7. \A u \in HttpThreads : request'[u] # NoRequest => Patches(request'[u])
  BY <1>5 DEF VaultInv
<1>8. VaultTypeOK'
  BY <1>1, <1>3, <1>5 DEF VaultInv, VaultTypeOK
<1> QED
  BY <1>6, <1>7, <1>8 DEF VaultInv

\* The row that a save writes.
RowOf(device) == [label |-> device.label, ports |-> Listed(device.ports)]

LEMMA RowOfObject ==
    ASSUME NEW device \in Object
    PROVE  RowOf(device) \in Row
<1>1. device.label \in Labels /\ device.ports \in PortMap
  BY DEF Object
<1>2. Listed(device.ports) \in Seq(Ports)
  BY <1>1, ListedFacts
<1> QED
  BY <1>1, <1>2 DEF RowOf, Row

\* What a save leaves: all rows but the one of its object, or one row more.
LEMMA SavedRows ==
    ASSUME VaultInv, NEW t \in HttpThreads, Saved(t)
    PROVE  LET device == request[t].device
               id == IF device.id = 0 THEN Len(rows') ELSE device.id
           IN  /\ rows' \in Seq(Row) /\ Len(rows') \in 1 .. MaxRows
               /\ Len(rows) <= Len(rows')
               /\ id \in DOMAIN rows' /\ rows'[id] = RowOf(device)
               /\ \A i \in DOMAIN rows : i # device.id => rows'[i] = rows[i]
<1>1. /\ rows \in Seq(Row) /\ Len(rows) \in 1 .. MaxRows /\ MaxRows \in Nat
      /\ Patches(request[t])
      /\ request[t].device.id \in 0 .. Len(rows)
  BY VaultAssumption DEF VaultInv, VaultTypeOK, Saved
<1>2. PICK device \in Object : device = request[t].device
  BY <1>1 DEF Patches, Request
<1>3. PICK row \in Row : row = RowOf(device)
  BY RowOfObject
<1>4. CASE device.id = 0
  <2>1. Len(rows) < MaxRows /\ rows' = Append(rows, row)
    BY <1>2, <1>3, <1>4 DEF Saved, Stored, RowOf
  <2>2. rows' \in Seq(Row) /\ Len(rows') = Len(rows) + 1 /\ rows'[Len(rows')] = row
    BY <1>1, <2>1
  <2>3. \A i \in DOMAIN rows : rows'[i] = rows[i]
    BY <1>1, <2>1
  <2> QED
    BY <1>1, <1>2, <1>3, <1>4, <2>1, <2>2, <2>3
<1>5. CASE device.id # 0
  <2>1. rows' = [rows EXCEPT ![device.id] = row]
    BY <1>2, <1>3, <1>5 DEF Saved, Stored, RowOf
  <2>2. device.id \in DOMAIN rows
    BY <1>1, <1>2, <1>5
  <2>3. rows' \in Seq(Row) /\ Len(rows') = Len(rows) /\ rows'[device.id] = row
    BY <1>1, <2>1, <2>2
  <2>4. \A i \in DOMAIN rows : i # device.id => rows'[i] = rows[i]
    BY <1>1, <2>1
  <2> QED
    BY <1>1, <1>2, <1>3, <1>5, <2>2, <2>3, <2>4
<1> QED
  BY <1>4, <1>5

\* A thread is done; the rows have not become fewer.
LEMMA Done ==
    ASSUME VaultInv, NEW t \in HttpThreads, Ends(t),
           rows' \in Seq(Row), Len(rows') \in 1 .. MaxRows, Len(rows) <= Len(rows')
    PROVE  VaultInv'
<1>1. request \in [HttpThreads -> Request \cup {NoRequest}]
  BY DEF VaultInv
<1>2. /\ request' = [request EXCEPT ![t] = NoRequest]
      /\ conn' = conn /\ requests' = requests
  BY DEF Ends
<1>3. /\ request' \in [HttpThreads -> Request \cup {NoRequest}]
      /\ \A u \in HttpThreads : request'[u] = IF u = t THEN NoRequest ELSE request[u]
  BY <1>1, <1>2
<1>4. \A u \in HttpThreads : request'[u] # NoRequest =>
        /\ Patches(request'[u])
        /\ request'[u].device.id \in 0 .. Len(rows')
        /\ Range(request'[u].device.ports) \subseteq Ports
        /\ request'[u].wrote \subseteq DOMAIN request'[u].device.ports
  <2>1. \A i \in 0 .. Len(rows) : i \in 0 .. Len(rows')
    BY DEF VaultInv, VaultTypeOK
  <2> QED
    BY <1>3, <2>1 DEF VaultInv, VaultTypeOK
<1>5. conn' \in {"open", "finished"} /\ requests' \in 0 .. MaxRequests
  BY <1>2 DEF VaultInv, VaultTypeOK
<1> QED
  BY <1>3, <1>4, <1>5 DEF VaultInv, VaultTypeOK

LEMMA VaultUnchanged ==
    ASSUME VaultInv, UNCHANGED <<rows, request, requests>>, conn' \in {"open", "finished"}
    PROVE  VaultInv'
BY DEF VaultInv, VaultTypeOK

LEMMA Refused ==
    ASSUME VaultInv, NEW t \in HttpThreads, Arrives(t), UNCHANGED request
    PROVE  VaultInv'
<1>1. UNCHANGED <<rows, conn, request>> /\ requests' \in 0 .. MaxRequests
  BY VaultAssumption DEF Arrives, VaultInv, VaultTypeOK
<1> QED
  BY <1>1 DEF VaultInv, VaultTypeOK

LEMMA HttpStep ==
    ASSUME VaultInv, NEW t \in HttpThreads, Http(t)
    PROVE  VaultInv'
<1>0. rows \in Seq(Row)
  BY DEF VaultInv, VaultTypeOK
<1>1. ASSUME NEW body \in DeviceBodies, PostDevice(t, body) PROVE VaultInv'
  <2>1. Arrives(t) /\ Loadable(New)
    BY <1>0, <1>1, NewIsLoadable DEF PostDevice
  <2>2. PICK r : /\ r = [device |-> DeviceFromJson(New, body), loaded |-> New,
                         wrote |-> DOMAIN Mapped(body.ports)]
                 /\ Patches(r)
    BY <2>1, BodyPatches
  <2>3. r.device.id <= Len(rows)
    BY <2>1, <2>2 DEF Patches, Loadable
  <2>4. request' = [request EXCEPT ![t] = r]
    BY <1>1, <2>2 DEF PostDevice, Patched
  <2> QED
    BY <2>1, <2>2, <2>3, <2>4, Arrived
<1>2. ASSUME NEW id \in DOMAIN rows, NEW body \in DeviceBodies, PutDevice(t, id, body)
      PROVE  VaultInv'
  <2>1. PICK device \in Loads(id) :
          Patched(t, DeviceFromJson(device, body), device, DOMAIN Mapped(body.ports))
    BY <1>2 DEF PutDevice
  <2>2. Arrives(t) /\ Loadable(device)
    BY <1>0, <1>2, LoadsLoadable DEF PutDevice
  <2>3. PICK r : /\ r = [device |-> DeviceFromJson(device, body), loaded |-> device,
                         wrote |-> DOMAIN Mapped(body.ports)]
                 /\ Patches(r)
    BY <2>2, BodyPatches
  <2>4. r.device.id <= Len(rows)
    BY <2>2, <2>3 DEF Patches, Loadable
  <2>5. request' = [request EXCEPT ![t] = r]
    BY <2>1, <2>3 DEF Patched
  <2> QED
    BY <2>2, <2>3, <2>4, <2>5, Arrived
<1>3. ASSUME NEW id \in DOMAIN rows, NEW port \in PortBodies, PostPort(t, id, port)
      PROVE  VaultInv'
  <2>1. Arrives(t)
    BY <1>3 DEF PostPort
  <2>2. CASE UNCHANGED request
    BY <2>1, <2>2, Refused
  <2>3. CASE request' # request
    <3>1. PICK device \in Loads(id) :
            Patched(t, [device EXCEPT !.ports = Joined([k \in {port.id} |-> port], @)],
                    device, {port.id})
      BY <1>3, <2>3 DEF PostPort
    <3>2. Loadable(device)
      BY <1>0, LoadsLoadable
    <3>3. PICK r :
            /\ r = [device |-> [device EXCEPT !.ports = Joined([k \in {port.id} |-> port], @)],
                    loaded |-> device, wrote |-> {port.id}]
            /\ Patches(r)
      BY <3>2, PortJoins
    <3>4. r.device.id <= Len(rows)
      BY <3>2, <3>3 DEF Patches, Loadable
    <3>5. request' = [request EXCEPT ![t] = r]
      BY <3>1, <3>3 DEF Patched
    <3> QED
      BY <2>1, <3>3, <3>4, <3>5, Arrived
  <2> QED
    BY <2>2, <2>3
<1>4. ASSUME NEW id \in DOMAIN rows, NEW port \in PortBodies, NEW key \in PortIds,
             PutPort(t, id, key, port)
      PROVE  VaultInv'
  <2>1. Arrives(t)
    BY <1>4 DEF PutPort
  <2>2. CASE UNCHANGED request
    BY <2>1, <2>2, Refused
  <2>3. CASE request' # request
    <3>1. PICK device \in Loads(id) :
            /\ key \in DOMAIN device.ports
            /\ Patched(t, [device EXCEPT !.ports[key] = port], device, {key})
      BY <1>4, <2>3 DEF PutPort
    <3>2. Loadable(device)
      BY <1>0, LoadsLoadable
    <3>3. PICK r : /\ r = [device |-> [device EXCEPT !.ports[key] = port],
                           loaded |-> device, wrote |-> {key}]
                   /\ Patches(r)
      BY <3>1, <3>2, PortReplaces
    <3>4. r.device.id <= Len(rows)
      BY <3>2, <3>3 DEF Patches, Loadable
    <3>5. request' = [request EXCEPT ![t] = r]
      BY <3>1, <3>3 DEF Patched
    <3> QED
      BY <2>1, <3>3, <3>4, <3>5, Arrived
  <2> QED
    BY <2>2, <2>3
<1>5. CASE Saved(t)
  <2>1. rows' \in Seq(Row) /\ Len(rows') \in 1 .. MaxRows /\ Len(rows) <= Len(rows')
    BY <1>5, SavedRows
  <2>2. Ends(t)
    BY <1>5 DEF Saved
  <2> QED
    BY <2>1, <2>2, Done
<1>6. CASE SaveFails(t)
  <2>1. Ends(t) /\ rows' = rows
    BY <1>6 DEF SaveFails
  <2>2. rows' \in Seq(Row) /\ Len(rows') \in 1 .. MaxRows /\ Len(rows) <= Len(rows')
    BY <2>1, <1>0 DEF VaultInv, VaultTypeOK
  <2> QED
    BY <2>1, <2>2, Done
<1> QED
  BY <1>1, <1>2, <1>3, <1>4, <1>5, <1>6 DEF Http

LEMMA ServerStep ==
    ASSUME VaultInv, [ServerNext]_serverVars
    PROVE  VaultInv'
<1>0. conn \in {"open", "finished"}
  BY DEF VaultInv, VaultTypeOK
<1>1. CASE UNCHANGED vaultVars
  BY <1>0, <1>1, VaultUnchanged DEF vaultVars
<1>2. CASE \E t \in HttpThreads : Http(t)
  BY <1>2, HttpStep
<1>3. CASE ClosesDb
  BY <1>3, VaultUnchanged DEF ClosesDb
<1>4. ServerNext => UNCHANGED vaultVars \/ (\E t \in HttpThreads : Http(t)) \/ ClosesDb
  BY DEF ServerNext, EventsThread, Listener, SetsPort, UsesDeleted, SigInt, Handles,
         StopsEvents, JoinsItself, JoinsEvents, UnloadsDevices, UnloadBreaks, Exits, Ended
<1> QED
  BY <1>1, <1>2, <1>3, <1>4 DEF serverVars

\* The table, the connection and the requests are what they should be, in every
\* state of the server, however many threads and requests there are.
THEOREM VaultTypeCorrect == ServerSpec => []VaultTypeOK
<1>1. ServerInit => VaultInv
  BY VaultInitially DEF ServerInit
<1>2. VaultInv /\ [ServerNext]_serverVars => VaultInv'
  BY ServerStep
<1>3. VaultInv => VaultTypeOK
  BY DEF VaultInv
<1> QED
  BY <1>1, <1>2, <1>3, PTL DEF ServerSpec

-----------------------------------------------------------------------------
(* What a save does.                                                       *)

\* Under the key of a port that the request leaves alone stands what was loaded.
LEMMA OthersStay ==
    ASSUME NEW r, Patches(r), NEW p \in PortIds \ About(r)
    PROVE  SamePort(Mapped(Listed(r.device.ports)), r.loaded.ports, p)
<1>1. PICK map \in PortMap : map = r.device.ports
  BY DEF Patches, Request, Object
<1>2. PICK old \in PortMap : old = r.loaded.ports
  BY DEF Patches, Request, Object
<1>3. /\ DOMAIN map = DOMAIN old \cup r.wrote
      /\ \A k \in DOMAIN old \ r.wrote : map[k] = old[k]
      /\ \A k \in DOMAIN old : old[k].id = k
  BY <1>1, <1>2 DEF Patches, OwnKeys
<1>4. p \notin r.wrote /\ \A k \in r.wrote : map[k].id # p
  BY <1>1 DEF About
<1>5. \A k \in DOMAIN map : map[k].id = p => k = p /\ p \in DOMAIN old
  BY <1>3, <1>4
<1>6. p \in DOMAIN old => p \in DOMAIN map /\ map[p] = old[p] /\ map[p].id = p
  BY <1>3, <1>4
<1>7. PICK now : now = Mapped(Listed(map))
  OBVIOUS
<1>8. /\ DOMAIN now = {map[k].id : k \in DOMAIN map}
      /\ \A k \in DOMAIN map :
            (\A j \in DOMAIN map : map[j].id = map[k].id => j <= k) => now[map[k].id] = map[k]
  BY <1>7, StoredAndRead
<1>9. p \in DOMAIN now <=> p \in DOMAIN old
  BY <1>5, <1>6, <1>8
<1>10. ASSUME p \in DOMAIN old PROVE now[p] = old[p]
  <2>1. p \in Nat
    BY VaultAssumption
  <2>2. \A j \in DOMAIN map : map[j].id = map[p].id => j <= p
    BY <1>5, <1>6, <1>10, <2>1
  <2> QED
    BY <1>6, <1>8, <1>10, <2>2
<1> QED
  BY <1>1, <1>2, <1>7, <1>9, <1>10 DEF SamePort

\* What the request sets is read back, unless a port behind it has its id.
LEMMA WrittenIsRead ==
    ASSUME NEW r, Patches(r), NEW k \in r.wrote
    PROVE  LET port == r.device.ports[k]
           IN  \/ Mapped(Listed(r.device.ports))[port.id] = port
               \/ port.id # k /\ \E later \in DOMAIN r.device.ports :
                                   later > k /\ r.device.ports[later].id = port.id
<1>1. PICK map \in PortMap : map = r.device.ports
  BY DEF Patches, Request, Object
<1>2. PICK old \in PortMap : old = r.loaded.ports
  BY DEF Patches, Request, Object
<1>3. /\ DOMAIN map = DOMAIN old \cup r.wrote
      /\ \A j \in DOMAIN old \ r.wrote : map[j].id = j
      /\ (\A j \in r.wrote : map[j].id = j) \/ (\E j : r.wrote = {j})
  BY <1>1, <1>2 DEF Patches, OwnKeys
<1>4. DOMAIN map \subseteq Nat /\ k \in DOMAIN map
  BY <1>3, PortMapFacts
<1>5. PICK now : now = Mapped(Listed(map))
  OBVIOUS
<1>6. (\A j \in DOMAIN map : map[j].id = map[k].id => j <= k) => now[map[k].id] = map[k]
  BY <1>4, <1>5, StoredAndRead
<1>7. ASSUME NEW j \in DOMAIN map, map[j].id = map[k].id, ~(j <= k)
      PROVE  map[k].id # k /\ j > k
  <2>1. j \in Nat /\ k \in Nat /\ j # k
    BY <1>4, <1>7
  <2>2. map[k].id # k
    BY <1>3, <1>7, <2>1
  <2> QED
    BY <1>7, <2>1, <2>2
<1>8. \/ now[map[k].id] = map[k]
      \/ map[k].id # k /\ \E later \in DOMAIN map : later > k /\ map[later].id = map[k].id
  BY <1>6, <1>7
<1> QED
  BY <1>1, <1>5, <1>8

LEMMA SaveKeepsItsWord ==
    ASSUME VaultInv, NEW t \in HttpThreads, Saved(t)
    PROVE  /\ request[t] # NoRequest /\ request'[t] = NoRequest
           /\ WritesItsOwn(request[t]) /\ WrittenIsShown(request[t])
<1>1. PICK r : r = request[t] /\ Patches(r)
  BY DEF Saved, VaultInv
<1>2. PICK id : id = IF r.device.id = 0 THEN Len(rows') ELSE r.device.id
  OBVIOUS
<1>3. /\ id \in DOMAIN rows' /\ rows'[id] = RowOf(r.device)
      /\ \A i \in DOMAIN rows : i # r.device.id => rows'[i] = rows[i]
  BY <1>1, <1>2, SavedRows
<1>4. rows'[id].ports = Listed(r.device.ports)
  BY <1>3 DEF RowOf
<1>5. WritesItsOwn(r)
  <2>1. ASSUME NEW i \in DOMAIN rows, rows'[i] # rows[i]
        PROVE  i = r.device.id /\ rows'[i].ports = Listed(r.device.ports)
    <3>1. i # 0
      BY DEF VaultInv, VaultTypeOK
    <3> QED
      BY <1>2, <1>3, <1>4, <2>1, <3>1
  <2>2. PICK stored : stored = Listed(r.device.ports)
    OBVIOUS
  <2>3. \A p \in PortIds \ About(r) : SamePort(Mapped(stored), r.loaded.ports, p)
    BY <1>1, <2>2, OthersStay
  <2>4. ASSUME NEW i \in DOMAIN rows, rows'[i] # rows[i], NEW p \in PortIds \ About(r)
        PROVE  SamePort(Mapped(rows'[i].ports), r.loaded.ports, p)
    <3>1. rows'[i].ports = stored
      BY <2>1, <2>2, <2>4
    <3> QED
      BY <2>3, <3>1
  <2> QED
    BY <2>1, <2>4 DEF WritesItsOwn
<1>6. WrittenIsShown(r)
  <2>1. PICK stored : stored = Listed(r.device.ports)
    OBVIOUS
  <2>2. \A k \in r.wrote :
           \/ Mapped(stored)[r.device.ports[k].id] = r.device.ports[k]
           \/ r.device.ports[k].id # k
              /\ \E later \in DOMAIN r.device.ports :
                    later > k /\ r.device.ports[later].id = r.device.ports[k].id
    BY <1>1, <2>1, WrittenIsRead
  <2>3. PICK shown : shown = Mapped(stored)
    OBVIOUS
  <2>4. Mapped(rows'[id].ports) = shown
    BY <1>4, <2>1, <2>3
  <2> QED
    BY <1>2, <2>2, <2>3, <2>4 DEF WrittenIsShown
<1>7. request[t] # NoRequest /\ request'[t] = NoRequest
  BY DEF Saved, Ends, VaultInv
<1> QED
  BY <1>1, <1>5, <1>6, <1>7

\* save (data_mapper.h): whatever requests are under way at the same time, whichever
\* statements fail and whatever the signal handler does, a save changes the one row of
\* its object; a port that the request is not about stays, or goes back to what it was
\* when the request loaded the row; and what the request sets is shown.
THEOREM SavesKeepTheirWordAlways == ServerSpec => SavesKeepTheirWord
<1>1. ServerInit => VaultInv
  BY VaultInitially DEF ServerInit
<1>2. VaultInv /\ [ServerNext]_serverVars => VaultInv'
  BY ServerStep
<1>3. VaultInv /\ [ServerNext]_serverVars
        => [rows' # rows => \E t \in HttpThreads :
              /\ request[t] # NoRequest /\ request'[t] = NoRequest
              /\ WritesItsOwn(request[t]) /\ WrittenIsShown(request[t])]_vaultVars
  <2> SUFFICES ASSUME VaultInv, ServerNext, rows' # rows
               PROVE  \E t \in HttpThreads :
                        /\ request[t] # NoRequest /\ request'[t] = NoRequest
                        /\ WritesItsOwn(request[t]) /\ WrittenIsShown(request[t])
    BY DEF serverVars, vaultVars
  <2>1. PICK t \in HttpThreads : Http(t)
    BY DEF ServerNext, EventsThread, Listener, SetsPort, UsesDeleted, SigInt, Handles,
           StopsEvents, JoinsItself, JoinsEvents, UnloadsDevices, UnloadBreaks, ClosesDb,
           Exits, Ended, vaultVars
  <2>2. Saved(t)
    BY <2>1 DEF Http, PostDevice, PutDevice, PostPort, PutPort, Arrives, SaveFails
  <2> QED
    BY <2>2, SaveKeepsItsWord
<1> QED
  BY <1>1, <1>2, <1>3, PTL DEF ServerSpec, SavesKeepTheirWord

=============================================================================
