--------------------------- MODULE WebClientProofs ---------------------------
(***************************************************************************)
(* The page, for any number of devices, events and requests: what its list *)
(* shows differs from the server only where StaleIsAccountedFor says so.   *)
(*                                                                         *)
(* The events on their way to the page are those posted and those on the   *)
(* wire, the wire's being older.  They get lost only from the old end, so  *)
(* the newest event of a facet that is on its way tells what the server    *)
(* has, or, while a setter has announced a value and not yet stored it,    *)
(* what the server is about to have.                                       *)
(***************************************************************************)
EXTENDS WebClient, TLAPS

-----------------------------------------------------------------------------
(* The websocket by itself, for any number of browser sockets: it is never  *)
(* stranded and never has two connections, a closed object stays closed,    *)
(* and timers do not touch an open connection.                              *)

\* A closed object has nothing left that could open a socket.
ClosedIsSpent ==
    readyState = "CLOSED" =>
        /\ forcedClose
        /\ reopenTimer = {}
        /\ \A s \in Sockets : ~Live(s)

\* onopen has cleared the connect timer of an open socket.
OpenHasNoTimer == \A s \in connectTimer : socket[s] # "open"

Inv == RwsTypeOK /\ NeverStranded /\ ClosedIsSpent /\ OpenHasNoTimer

\* The initial states, in which the constructor has opened one socket.
LEMMA InitInv == RwsInit => Inv
BY SocketsAssumption
   DEF RwsInit, Inv, RwsTypeOK, NeverStranded, ClosedIsSpent, OpenHasNoTimer, Live

\* Each handler preserves the invariant.
LEMMA StepInv == Inv /\ [RwsNext]_rwsVars => Inv'
<1> SUFFICES ASSUME Inv, [RwsNext]_rwsVars PROVE Inv'
  OBVIOUS
<1> USE SocketsAssumption
    DEF Inv, RwsTypeOK, NeverStranded, ClosedIsSpent, OpenHasNoTimer, Live
<1>1. ASSUME NEW s \in Sockets, Opened(s) PROVE Inv'
  BY <1>1 DEF Opened
<1>2. ASSUME NEW s \in Sockets, Lost(s) PROVE Inv'
  BY <1>2 DEF Lost
<1>3. ASSUME NEW s \in Sockets, ConnectTimeout(s) PROVE Inv'
  BY <1>3 DEF ConnectTimeout, Closing
<1>4. ASSUME NEW s \in Sockets, Closed(s) PROVE Inv'
  BY <1>4 DEF Closed
<1>5. ASSUME NEW s \in Sockets, NEW n \in Sockets, Reopen(s, n) PROVE Inv'
  BY <1>5 DEF Reopen, Free
<1>6. CASE Close
  BY <1>6 DEF Close, Closing
<1>7. CASE Refresh
  BY <1>7 DEF Refresh, Closing
<1>8. CASE UNCHANGED rwsVars
  BY <1>8 DEF rwsVars
<1> QED
  BY <1>1, <1>2, <1>3, <1>4, <1>5, <1>6, <1>7, <1>8 DEF RwsNext

LEMMA Invariance == RwsSpec => []Inv
BY InitInv, StepInv, PTL DEF RwsSpec

\* The variables keep their types.
THEOREM SocketTypeCorrect == RwsSpec => []RwsTypeOK
BY Invariance, PTL DEF Inv

\* Exactly one connection or one pending attempt, until close() is called.
THEOREM AlwaysOneWayOn == RwsSpec => []NeverStranded
BY Invariance, PTL DEF Inv

LEMMA ClosedStep ==
    Inv /\ [RwsNext]_rwsVars => [readyState = "CLOSED" => readyState' = "CLOSED"]_rwsVars
BY DEF Inv, RwsTypeOK, ClosedIsSpent, Live, RwsNext, rwsVars, Opened, Lost,
       ConnectTimeout, Closed, Reopen, Close, Refresh

\* Nothing opens an object whose readyState is CLOSED.
THEOREM NothingReopens == RwsSpec => ClosedIsFinal
BY ClosedStep, Invariance, PTL DEF RwsSpec, ClosedIsFinal

TimersSpareOpen ==
    \A s \in Sockets : socket[s] = "open" /\ socket'[s] # "open"
        => connectTimer' = connectTimer /\ reopenTimer' = reopenTimer

LEMMA TimerStep == Inv /\ [RwsNext]_rwsVars => [TimersSpareOpen]_rwsVars
<1> SUFFICES ASSUME Inv, [RwsNext]_rwsVars PROVE TimersSpareOpen
  BY DEF rwsVars
<1> USE DEF Inv, RwsTypeOK, OpenHasNoTimer, TimersSpareOpen
<1>1. ASSUME NEW s \in Sockets, Opened(s) PROVE TimersSpareOpen
  BY <1>1 DEF Opened
<1>2. ASSUME NEW s \in Sockets, Lost(s) PROVE TimersSpareOpen
  BY <1>2 DEF Lost
<1>3. ASSUME NEW s \in Sockets, ConnectTimeout(s) PROVE TimersSpareOpen
  BY <1>3 DEF ConnectTimeout, Closing
<1>4. ASSUME NEW s \in Sockets, Closed(s) PROVE TimersSpareOpen
  BY <1>4 DEF Closed
<1>5. ASSUME NEW s \in Sockets, NEW n \in Sockets, Reopen(s, n) PROVE TimersSpareOpen
  BY <1>5 DEF Reopen, Free, Live
<1>6. CASE Close \/ Refresh
  BY <1>6 DEF Close, Refresh
<1>7. CASE UNCHANGED rwsVars
  BY <1>7 DEF rwsVars
<1> QED
  BY <1>1, <1>2, <1>3, <1>4, <1>5, <1>6, <1>7 DEF RwsNext

\* No timer closes a connection that is open.
THEOREM TimersAreHarmless == RwsSpec => OpenSurvivesTimers
BY TimerStep, Invariance, PTL DEF RwsSpec, OpenSurvivesTimers, TimersSpareOpen

-----------------------------------------------------------------------------
(* News.                                                                   *)

\* e is the newest event of facet f in s.
Latest(s, f, e) ==
    \E i \in DOMAIN s : /\ s[i] = e /\ FacetOf(e) = f
                        /\ \A j \in DOMAIN s : j > i => FacetOf(s[j]) # f

\* e is the newest event of facet f on its way.
LatestNews(f, e) ==
    \/ Latest(posted, f, e)
    \/ f \notin FacetsOf(posted) /\ Latest(wire, f, e)

OnItsWay == FacetsOf(posted) \cup FacetsOf(wire)

LEMMA FacetsOfBoth ==
    ASSUME NEW s \in Seq(Event), NEW t \in Seq(Event)
    PROVE  FacetsOf(s \o t) = FacetsOf(s) \cup FacetsOf(t)
<1> DEFINE u == s \o t
<1>1. /\ Len(s) \in Nat /\ Len(t) \in Nat
      /\ DOMAIN s = 1 .. Len(s) /\ DOMAIN t = 1 .. Len(t)
      /\ \A i \in DOMAIN s : i \in DOMAIN u /\ u[i] = s[i]
      /\ \A i \in DOMAIN t : Len(s) + i \in DOMAIN u /\ u[Len(s) + i] = t[i]
      /\ \A i \in DOMAIN u : i \in DOMAIN s \/ (i - Len(s) \in DOMAIN t
                                                /\ u[i] = t[i - Len(s)])
  OBVIOUS
<1> HIDE DEF u
<1>2. FacetsOf(u) = FacetsOf(s) \cup FacetsOf(t)
  BY <1>1 DEF FacetsOf
<1> QED
  BY <1>2 DEF u

LEMMA FlightIsOnItsWay == ASSUME TypeOK PROVE FacetsOf(InFlight) = OnItsWay
BY FacetsOfBoth DEF TypeOK, ClientTypeOK, InFlight, OnItsWay

\* The newest event of each facet after one more was appended.
LEMMA LatestAppend ==
    ASSUME NEW s \in Seq(Event), NEW e \in Event, NEW f, NEW x
    PROVE  /\ FacetsOf(Append(s, e)) = FacetsOf(s) \cup {FacetOf(e)}
           /\ Latest(Append(s, e), f, x) <=> IF FacetOf(e) = f THEN x = e
                                             ELSE Latest(s, f, x)
<1> DEFINE t == Append(s, e)
           n == Len(s) + 1
<1>1. /\ n \in Nat /\ DOMAIN t = 1 .. n /\ t[n] = e /\ n \in DOMAIN t
      /\ DOMAIN s = 1 .. n - 1
      /\ \A i \in DOMAIN s : i \in DOMAIN t /\ t[i] = s[i] /\ i < n
      /\ \A i \in DOMAIN t : i \in DOMAIN s \/ i = n
  OBVIOUS
<1> HIDE DEF t, n
<1>2. FacetsOf(t) = FacetsOf(s) \cup {FacetOf(e)}
  BY <1>1 DEF FacetsOf
<1>3. CASE FacetOf(e) = f
  <2>1. x = e => Latest(t, f, x)
    BY <1>1, <1>3 DEF Latest
  <2>2. ASSUME Latest(t, f, x) PROVE x = e
    <3>1. PICK i \in DOMAIN t : t[i] = x /\ \A j \in DOMAIN t : j > i => FacetOf(t[j]) # f
      BY <2>2 DEF Latest
    <3>2. i = n
      BY <3>1, <1>1, <1>3
    <3> QED
      BY <3>1, <3>2, <1>1
  <2> QED
    BY <2>1, <2>2, <1>2, <1>3 DEF t
<1>4. CASE FacetOf(e) # f
  <2>1. ASSUME Latest(t, f, x) PROVE Latest(s, f, x)
    <3>1. PICK i \in DOMAIN t : /\ t[i] = x /\ FacetOf(x) = f
                                /\ \A j \in DOMAIN t : j > i => FacetOf(t[j]) # f
      BY <2>1 DEF Latest
    <3>2. i \in DOMAIN s
      BY <3>1, <1>1, <1>4
    <3> QED
      BY <3>1, <3>2, <1>1 DEF Latest
  <2>2. ASSUME Latest(s, f, x) PROVE Latest(t, f, x)
    <3>1. PICK i \in DOMAIN s : /\ s[i] = x /\ FacetOf(x) = f
                                /\ \A j \in DOMAIN s : j > i => FacetOf(s[j]) # f
      BY <2>2 DEF Latest
    <3>2. \A j \in DOMAIN t : j > i => FacetOf(t[j]) # f
      BY <3>1, <1>1, <1>4
    <3> QED
      BY <3>1, <3>2, <1>1 DEF Latest
  <2> QED
    BY <2>1, <2>2, <1>2, <1>4 DEF t
<1> QED
  BY <1>3, <1>4

\* And after the oldest was taken.
LEMMA LatestTail ==
    ASSUME NEW s \in Seq(Event), s # <<>>, NEW f, NEW x
    PROVE  /\ FacetsOf(s) = FacetsOf(Tail(s)) \cup {FacetOf(Head(s))}
           /\ Head(s) \in Event /\ Tail(s) \in Seq(Event)
           /\ Latest(s, f, x) <=> IF f \in FacetsOf(Tail(s)) THEN Latest(Tail(s), f, x)
                                  ELSE FacetOf(Head(s)) = f /\ x = Head(s)
<1> DEFINE t == Tail(s)
<1>1. /\ DOMAIN s = 1 .. Len(s) /\ Len(s) \in Nat \ {0} /\ Head(s) = s[1] /\ 1 \in DOMAIN s
      /\ Head(s) \in Event /\ t \in Seq(Event)
      /\ \A i \in DOMAIN t : i \in Nat /\ i + 1 \in DOMAIN s /\ t[i] = s[i + 1]
      /\ \A i \in DOMAIN s : i \in Nat /\ i >= 1
      /\ \A i \in DOMAIN s : i = 1 \/ (i - 1 \in DOMAIN t /\ s[i] = t[i - 1])
  OBVIOUS
<1> HIDE DEF t
<1>2. FacetsOf(s) = FacetsOf(t) \cup {FacetOf(Head(s))}
  BY SMTT(60), <1>1 DEF FacetsOf
<1>3. CASE f \in FacetsOf(t)
  <2>1. ASSUME Latest(t, f, x) PROVE Latest(s, f, x)
    <3>1. PICK i \in DOMAIN t : /\ t[i] = x /\ FacetOf(x) = f
                                /\ \A j \in DOMAIN t : j > i => FacetOf(t[j]) # f
      BY <2>1 DEF Latest
    <3>2. \A j \in DOMAIN s : j > i + 1 => FacetOf(s[j]) # f
      BY <3>1, <1>1
    <3> QED
      BY <3>1, <3>2, <1>1 DEF Latest
  <2>2. ASSUME Latest(s, f, x) PROVE Latest(t, f, x)
    <3>1. PICK i \in DOMAIN s : /\ s[i] = x /\ FacetOf(x) = f
                                /\ \A j \in DOMAIN s : j > i => FacetOf(s[j]) # f
      BY <2>2 DEF Latest
    <3>2. PICK k \in DOMAIN t : FacetOf(t[k]) = f
      BY <1>3 DEF FacetsOf
    <3>3. i # 1
      BY <3>1, <3>2, <1>1
    <3>4. i - 1 \in DOMAIN t /\ t[i - 1] = x
      BY <3>1, <3>3, <1>1
    <3>5. \A j \in DOMAIN t : j > i - 1 => FacetOf(t[j]) # f
      BY <3>1, <1>1
    <3> QED
      BY <3>1, <3>4, <3>5 DEF Latest
  <2> QED
    BY <2>1, <2>2, <1>1, <1>2, <1>3 DEF t
<1>4. CASE f \notin FacetsOf(t)
  <2>1. \A j \in DOMAIN s : j > 1 => FacetOf(s[j]) # f
    BY <1>1, <1>4 DEF FacetsOf
  <2>2. Latest(s, f, x) <=> FacetOf(Head(s)) = f /\ x = Head(s)
    BY <2>1, <1>1 DEF Latest
  <2> QED
    BY <2>2, <1>1, <1>2, <1>4 DEF t
<1> QED
  BY <1>3, <1>4

\* What the types say of the events.
LEMMA EventTypes ==
    ASSUME TypeOK
    PROVE  /\ posted \in Seq(Event) /\ wire \in Seq(Event)
           /\ \A e \in Event : e.device_id \in Devices /\ FacetOf(e) \in Facet
           /\ \A e \in Event : /\ e.type = "port_set" => /\ e.value \in BOOLEAN
                                                         /\ FacetOf(e) = <<e.device_id, "value">>
                              /\ e.type # "port_set" => FacetOf(e) = <<e.device_id, "connected">>
<1>1. posted \in Seq(Event) /\ wire \in Seq(Event)
  BY DEF TypeOK, ClientTypeOK
<1>2. \A e \in Event : /\ e.device_id \in Devices
                       /\ e.type = "port_set" => e.value \in BOOLEAN
  BY DEF Event
<1>3. \A e : FacetOf(e) = <<e.device_id, "value">> \/ FacetOf(e) = <<e.device_id, "connected">>
  BY DEF FacetOf
<1>4. \A d \in Devices : <<d, "value">> \in Facet /\ <<d, "connected">> \in Facet
  BY DEF Facet
<1> QED
  BY <1>1, <1>2, <1>3, <1>4 DEF FacetOf

\* An event is posted.
LEMMA PostNews ==
    ASSUME TypeOK, NEW e \in Event, posted' = Append(posted, e), UNCHANGED wire
    PROVE  /\ OnItsWay' = OnItsWay \cup {FacetOf(e)}
           /\ \A f, x : LatestNews(f, x)' => IF FacetOf(e) = f THEN x = e
                                             ELSE LatestNews(f, x)
<1>1. posted \in Seq(Event)
  BY EventTypes
<1>2. FacetsOf(posted)' = FacetsOf(posted) \cup {FacetOf(e)}
  <2>1. FacetsOf(posted)' = FacetsOf(Append(posted, e))
    BY DEF FacetsOf, FacetOf
  <2> QED
    BY <2>1, <1>1, LatestAppend
<1>3. FacetsOf(wire)' = FacetsOf(wire)
  BY DEF FacetsOf, FacetOf
<1>4. ASSUME NEW f, NEW x, LatestNews(f, x)'
      PROVE  IF FacetOf(e) = f THEN x = e ELSE LatestNews(f, x)
  <2>1. Latest(posted, f, x)' <=> Latest(Append(posted, e), f, x)
    BY DEF Latest, FacetOf
  <2>2. Latest(wire, f, x)' <=> Latest(wire, f, x)
    BY DEF Latest, FacetOf
  <2>3. Latest(posted, f, x)' <=> IF FacetOf(e) = f THEN x = e ELSE Latest(posted, f, x)
    BY <2>1, <1>1, LatestAppend
  <2>4. Latest(posted, f, x)' \/ (f \notin FacetsOf(posted)' /\ Latest(wire, f, x)')
    BY <1>4 DEF LatestNews
  <2> QED
    BY <2>2, <2>3, <2>4, <1>2 DEF LatestNews
<1> QED
  BY <1>2, <1>3, <1>4 DEF OnItsWay

\* A posted event goes on the wire.
LEMMA ForwardNews ==
    ASSUME TypeOK, posted # <<>>, posted' = Tail(posted), wire' = Append(wire, Head(posted))
    PROVE  /\ OnItsWay' = OnItsWay
           /\ \A f, x : LatestNews(f, x)' => LatestNews(f, x)
<1> DEFINE h == Head(posted)
           t == Tail(posted)
<1>1. posted \in Seq(Event) /\ wire \in Seq(Event)
  BY EventTypes
<1>2. /\ h \in Event
      /\ FacetsOf(posted) = FacetsOf(t) \cup {FacetOf(h)}
      /\ \A f, x : Latest(posted, f, x) <=> IF f \in FacetsOf(t) THEN Latest(t, f, x)
                                            ELSE FacetOf(h) = f /\ x = h
  BY <1>1, LatestTail
<1>3. /\ FacetsOf(Append(wire, h)) = FacetsOf(wire) \cup {FacetOf(h)}
      /\ \A f, x : Latest(Append(wire, h), f, x) <=> IF FacetOf(h) = f THEN x = h
                                                     ELSE Latest(wire, f, x)
  BY <1>1, <1>2, LatestAppend
<1>4. FacetsOf(posted)' = FacetsOf(t) /\ FacetsOf(wire)' = FacetsOf(Append(wire, h))
  BY DEF FacetsOf, FacetOf
<1>5. \A f, x : /\ Latest(posted, f, x)' <=> Latest(t, f, x)
                /\ Latest(wire, f, x)' <=> Latest(Append(wire, h), f, x)
  BY DEF Latest, FacetOf
<1> HIDE DEF h, t
<1>6. ASSUME NEW f, NEW x, LatestNews(f, x)' PROVE LatestNews(f, x)
  <2>0. Latest(t, f, x) \/ (f \notin FacetsOf(t) /\ Latest(Append(wire, h), f, x))
    BY <1>4, <1>5, <1>6 DEF LatestNews
  <2>1. CASE f \in FacetsOf(t)
    BY <2>0, <2>1, <1>2 DEF LatestNews
  <2>2. CASE f \notin FacetsOf(t)
    <3>1. ~Latest(t, f, x)
      BY <2>2 DEF Latest, FacetsOf
    <3>2. IF FacetOf(h) = f THEN x = h ELSE Latest(wire, f, x)
      BY <2>0, <3>1, <1>3
    <3> QED
      BY <2>2, <3>2, <1>2 DEF LatestNews
  <2> QED
    BY <2>1, <2>2
<1> QED
  BY <1>2, <1>3, <1>4, <1>6 DEF OnItsWay

\* A posted event is dropped while nothing is on the wire.
LEMMA DropNews ==
    ASSUME TypeOK, posted # <<>>, posted' = Tail(posted), wire = <<>>, UNCHANGED wire
    PROVE  /\ OnItsWay' \cup {FacetOf(Head(posted))} = OnItsWay
           /\ \A f, x : LatestNews(f, x)' => LatestNews(f, x)
<1> DEFINE h == Head(posted)
           t == Tail(posted)
<1>1. posted \in Seq(Event)
  BY EventTypes
<1>2. /\ FacetsOf(posted) = FacetsOf(t) \cup {FacetOf(h)}
      /\ \A f, x : Latest(posted, f, x) <=> IF f \in FacetsOf(t) THEN Latest(t, f, x)
                                            ELSE FacetOf(h) = f /\ x = h
  BY <1>1, LatestTail
<1>3. /\ FacetsOf(posted)' = FacetsOf(t)
      /\ FacetsOf(wire)' = FacetsOf(wire)
      /\ FacetsOf(wire) = {}
  BY DEF FacetsOf, FacetOf
<1>4. \A f, x : /\ Latest(posted, f, x)' <=> Latest(t, f, x)
                /\ ~Latest(wire, f, x)'
  BY DEF Latest, FacetOf
<1> HIDE DEF h, t
<1>5. ASSUME NEW f, NEW x, LatestNews(f, x)' PROVE LatestNews(f, x)
  <2>1. Latest(t, f, x)
    BY <1>4, <1>5 DEF LatestNews
  <2>2. f \in FacetsOf(t)
    BY <2>1 DEF Latest, FacetsOf
  <2> QED
    BY <2>1, <2>2, <1>2 DEF LatestNews
<1> QED
  BY <1>2, <1>3, <1>5 DEF OnItsWay, h

\* The page takes the oldest event from the wire.  It was news of its facet if no
\* other of that facet is on its way.
LEMMA HearNews ==
    ASSUME TypeOK, wire # <<>>, wire' = Tail(wire), UNCHANGED posted
    PROVE  /\ OnItsWay' \cup {FacetOf(Head(wire))} = OnItsWay
           /\ Head(wire) \in Event
           /\ FacetOf(Head(wire)) \notin OnItsWay' =>
                 LatestNews(FacetOf(Head(wire)), Head(wire))
           /\ \A f, x : LatestNews(f, x)' => LatestNews(f, x)
<1> DEFINE h == Head(wire)
           t == Tail(wire)
<1>1. wire \in Seq(Event)
  BY EventTypes
<1>2. /\ FacetsOf(wire) = FacetsOf(t) \cup {FacetOf(h)} /\ h \in Event
      /\ \A f, x : Latest(wire, f, x) <=> IF f \in FacetsOf(t) THEN Latest(t, f, x)
                                          ELSE FacetOf(h) = f /\ x = h
  BY <1>1, LatestTail
<1>3. FacetsOf(posted)' = FacetsOf(posted) /\ FacetsOf(wire)' = FacetsOf(t)
  BY DEF FacetsOf, FacetOf
<1>4. \A f, x : /\ Latest(posted, f, x)' <=> Latest(posted, f, x)
                /\ Latest(wire, f, x)' <=> Latest(t, f, x)
  BY DEF Latest, FacetOf
<1> HIDE DEF h, t
<1>5. FacetOf(h) \notin OnItsWay' => LatestNews(FacetOf(h), h)
  BY <1>2, <1>3 DEF OnItsWay, LatestNews
<1>6. ASSUME NEW f, NEW x, LatestNews(f, x)' PROVE LatestNews(f, x)
  <2>1. Latest(posted, f, x) \/ (f \notin FacetsOf(posted) /\ Latest(t, f, x))
    BY <1>3, <1>4, <1>6 DEF LatestNews
  <2>2. Latest(t, f, x) => f \in FacetsOf(t)
    BY DEF Latest, FacetsOf
  <2> QED
    BY <2>1, <2>2, <1>2 DEF LatestNews
<1> QED
  BY <1>2, <1>3, <1>5, <1>6 DEF OnItsWay, h

\* What was on the wire is lost.
LEMMA LoseNews ==
    ASSUME TypeOK, wire' = <<>>, UNCHANGED posted
    PROVE  /\ OnItsWay \subseteq OnItsWay' \cup FacetsOf(wire)
           /\ OnItsWay' \subseteq OnItsWay
           /\ \A f, x : LatestNews(f, x)' => LatestNews(f, x)
<1>1. FacetsOf(posted)' = FacetsOf(posted) /\ FacetsOf(wire)' = {}
  BY DEF FacetsOf, FacetOf
<1>2. \A f, x : /\ Latest(posted, f, x)' <=> Latest(posted, f, x)
                /\ ~Latest(wire, f, x)'
  BY DEF Latest, FacetOf
<1>3. ASSUME NEW f, NEW x, LatestNews(f, x)' PROVE LatestNews(f, x)
  BY <1>2, <1>3 DEF LatestNews
<1> QED
  BY <1>1, <1>3 DEF OnItsWay

LEMMA SameNews ==
    ASSUME UNCHANGED <<posted, wire>>
    PROVE  /\ OnItsWay' = OnItsWay
           /\ \A f, x : LatestNews(f, x)' => LatestNews(f, x)
<1>1. FacetsOf(posted)' = FacetsOf(posted) /\ FacetsOf(wire)' = FacetsOf(wire)
  BY DEF FacetsOf, FacetOf
<1>2. \A f, x : /\ Latest(posted, f, x)' <=> Latest(posted, f, x)
                /\ Latest(wire, f, x)' <=> Latest(wire, f, x)
  BY DEF Latest, FacetOf
<1> QED
  BY <1>1, <1>2 DEF OnItsWay, LatestNews

-----------------------------------------------------------------------------
(* The invariant.                                                          *)

\* Only a session that subscribed sends.
WireIsHeard == wire # <<>> => subscribed

\* Without a list there are no buttons, so nobody sets a port.
PageQuiet ==
    ~Listed => /\ puts = {} /\ storing = {}
               /\ \A d \in Devices : <<d, "value">> \notin OnItsWay

\* What the list shows, or will show.
View == IF Listed THEN devices ELSE index.rows

\* The value the port has, or has once it is stored.
Due(d) == IF Storing(d) THEN ~value[d] ELSE value[d]

\* The page is owed nothing about the value of d.
Followed(d) ==
    index.state # "asked" /\ d \in registered /\ <<d, "value">> \notin missed

ConnectedTold ==
    \A d \in Devices, e \in Event :
        LatestNews(<<d, "connected">>, e)
            => (d \in registered <=> e.type = "device_connected")

ConnectedSeen ==
    index.state # "asked" =>
        \A d \in Devices : View[d].connected # (d \in registered)
                              => <<d, "connected">> \in missed \cup OnItsWay

SettersAgree ==
    \A p \in storing : Followed(p.device_id) => p.value = Due(p.device_id)

ValueTold ==
    \A d \in Devices, e \in Event :
        Followed(d) /\ LatestNews(<<d, "value">>, e) => e.value = Due(d)

ValueSeen ==
    \A d \in Devices : Followed(d) =>
        \/ View[d].value = Due(d)
        \/ <<d, "value">> \in OnItsWay
        \/ [device_id |-> d, value |-> ~Due(d)] \in puts

NewsInv == ConnectedTold /\ ConnectedSeen /\ SettersAgree /\ ValueTold /\ ValueSeen

ClientInv == TypeOK /\ WireIsHeard /\ PageQuiet /\ NewsInv

LEMMA ClientInit == Init => ClientInv
<1> SUFFICES ASSUME Init PROVE ClientInv
  OBVIOUS
<1>1. ClientTypeOK
  <2>1. NoRows \in [Devices -> Row]
    BY DEF NoRows, Row
  <2>2. posted \in Seq(Event) /\ wire \in Seq(Event)
    BY DEF Init
  <2> QED
    BY <2>1, <2>2 DEF Init, ClientTypeOK
<1>2. RwsTypeOK
  BY InitInv DEF Init, Inv
<1>3. OnItsWay = {} /\ \A f, x : ~LatestNews(f, x)
  BY DEF Init, OnItsWay, FacetsOf, LatestNews, Latest
<1> QED
  BY <1>1, <1>2, <1>3
     DEF Init, ClientInv, TypeOK, WireIsHeard, PageQuiet, NewsInv, ConnectedTold,
         ConnectedSeen, SettersAgree, ValueTold, ValueSeen, Followed, Listed

\* Each step of the socket is one of ReconnectingWebSocket's, and no other step
\* touches its variables.
LEMMA SocketImplements == [Next]_vars => [RwsNext]_rwsVars
BY DEF Next, vars, SocketStep, RwsNext, Connect, Disconnect, Report, Toggle,
       PutRefused, PutUnchanged, PutAnnounced, Stored, PutLost, Subscribe,
       Dispatch, IndexAnswered, IndexDone, OnMessage

\* The variables keep their types.
LEMMA ClientTypeStep == TypeOK /\ Next => ClientTypeOK'
<1> SUFFICES ASSUME TypeOK, Next PROVE ClientTypeOK'
  OBVIOUS
<1> USE DEF TypeOK, ClientTypeOK
<1> DEFINE S == Seq(Event)
<1>c. <<>> \in S /\ posted \in S /\ wire \in S
  OBVIOUS
<1>a. /\ \A e \in Event : Append(posted, e) \in S /\ Append(wire, e) \in S
      /\ posted # <<>> => Tail(posted) \in S /\ Head(posted) \in Event
      /\ wire # <<>> => Tail(wire) \in S /\ Head(wire) \in Event
  BY <1>c, LatestTail
<1>d. \A e \in Event : FacetOf(e) \in Facet /\ e.device_id \in Devices
  BY EventTypes
<1>i. \A e \in Event : /\ e.device_id \in Devices
                       /\ e.type = "port_set" => e.value \in BOOLEAN
  BY DEF Event
<1>e. \A p \in Put : p.device_id \in Devices /\ p.value \in BOOLEAN /\ <<p.device_id, "value">> \in Facet
  BY DEF Put, Facet
<1>f. FacetsOf(wire) \subseteq Facet
  BY <1>d DEF FacetsOf
<1>g. /\ index.state \in {"asked", "answered", "done"} /\ index.rows \in [Devices -> Row]
      /\ devices \in [Devices -> Row]
  OBVIOUS
<1>h. ASSUME NEW rows \in [Devices -> Row], NEW d \in Devices, NEW b \in BOOLEAN
      PROVE  /\ [rows EXCEPT ![d] = [@ EXCEPT !.value = b]] \in [Devices -> Row]
             /\ [rows EXCEPT ![d] = [@ EXCEPT !.connected = b]] \in [Devices -> Row]
             /\ rows[d].value \in BOOLEAN /\ rows[d].connected \in BOOLEAN
  BY DEF Row
<1> HIDE DEF S
<1>0. CASE SocketStep
  <2>1. CASE UNCHANGED clientVars
    BY <2>1 DEF clientVars
  <2>2. CASE Hangup
    BY <2>2, <1>c, <1>f DEF Hangup, serverVars, pageVars, S
  <2> QED
    BY <1>0, <2>1, <2>2 DEF SocketStep, Quiet
<1>1. ASSUME NEW d \in Devices, Connect(d) \/ Disconnect(d) PROVE ClientTypeOK'
  <2>1. /\ [type |-> "device_connected", device_id |-> d] \in Event
        /\ [type |-> "device_disconnected", device_id |-> d] \in Event
        /\ <<d, "value">> \in Facet
    BY DEF Event, Facet
  <2>2. \E e \in Event : posted' = Append(posted, e)
    BY <1>1, <2>1 DEF Connect, Disconnect, Post
  <2>3. posted' \in S
    BY <2>2, <1>a
  <2> QED
    BY <1>1, <2>1, <2>3, <1>c DEF Connect, Disconnect, pageVars, S
<1>2. ASSUME NEW d \in Devices, Report(d) PROVE ClientTypeOK'
  BY <1>2 DEF Report, pageVars, Facet
<1>3. ASSUME NEW d \in Devices, Toggle(d) PROVE ClientTypeOK'
  <2>1. devices[d].value \in BOOLEAN
    BY <1>g, <1>h
  <2>2. devices' = [devices EXCEPT ![d] = [@ EXCEPT !.value = ~devices[d].value]]
    BY <1>3, <1>g DEF Toggle
  <2>3. devices' \in [Devices -> Row]
    BY <2>1, <2>2, <1>g, <1>h
  <2>4. puts' \in SUBSET Put
    <3>1. [device_id |-> d, value |-> ~devices[d].value] \in Put
      BY <2>1 DEF Put
    <3> QED
      BY <1>3, <3>1 DEF Toggle
  <2> QED
    BY <1>3, <2>3, <2>4 DEF Toggle, serverVars
<1>4. ASSUME NEW p \in Put, PutRefused(p) \/ PutUnchanged(p) \/ PutLost(p) PROVE ClientTypeOK'
  BY <1>4, <1>e DEF PutRefused, PutUnchanged, PutLost, serverVars
<1>5. ASSUME NEW p \in Put, PutAnnounced(p) PROVE ClientTypeOK'
  <2>1. [type |-> "port_set", device_id |-> p.device_id, value |-> p.value] \in Event
    BY <1>e DEF Event
  <2>2. posted' \in S
    BY <1>5, <2>1, <1>a, <1>c DEF PutAnnounced, Post
  <2> QED
    BY <1>5, <2>2 DEF PutAnnounced, S
<1>6. ASSUME NEW p \in Put, Stored(p) PROVE ClientTypeOK'
  BY <1>6, <1>e DEF Stored, pageVars
<1>7. CASE Subscribe
  BY <1>7 DEF Subscribe, serverVars, pageVars
<1>8. CASE Dispatch
  <2>1. posted' \in S /\ Head(posted) \in Event
    BY <1>8, <1>a DEF Dispatch
  <2>2. wire' \in S
    BY <1>8, <2>1, <1>a, <1>c DEF Dispatch
  <2>3. missed' \in SUBSET Facet
    BY <1>8, <2>1, <1>d DEF Dispatch
  <2> QED
    BY <1>8, <2>1, <2>2, <2>3 DEF Dispatch, serverVars, pageVars, S
<1>9. CASE IndexAnswered
  <2>1. [d \in Devices |-> [connected |-> d \in registered,
                            value |-> d \in registered /\ value[d]]] \in [Devices -> Row]
    <3>1. \A d \in Devices : /\ (d \in registered) \in BOOLEAN
                             /\ (d \in registered /\ value[d]) \in BOOLEAN
      OBVIOUS
    <3> QED
      BY <3>1 DEF Row
  <2>2. index' \in [state : {"asked", "answered", "done"}, rows : [Devices -> Row]]
    BY <1>9, <2>1 DEF IndexAnswered
  <2> QED
    BY <1>9, <2>2 DEF IndexAnswered, serverVars
<1>10. CASE IndexDone
  <2>1. index' \in [state : {"asked", "answered", "done"}, rows : [Devices -> Row]]
    BY <1>10 DEF IndexDone
  <2> QED
    BY <1>10, <2>1, <1>g DEF IndexDone, serverVars
<1>11. CASE OnMessage
  <2>1. wire' \in S /\ Head(wire) \in Event
    BY <1>11, <1>a DEF OnMessage
  <2>2. FacetOf(Head(wire)) \in Facet /\ missed' \in SUBSET Facet
    BY <1>11, <2>1, <1>d DEF OnMessage
  <2>3. Applied(Head(wire)) \in [Devices -> Row]
    <3>1. CASE Head(wire).type = "port_set"
      <4>1. Head(wire).value \in BOOLEAN /\ Head(wire).device_id \in Devices
        BY <2>1, <3>1, <1>i
      <4> QED
        BY <3>1, <4>1, <1>g, <1>h DEF Applied
    <3>2. CASE Head(wire).type # "port_set"
      BY <3>2, <2>1, <1>d, <1>g, <1>h DEF Applied
    <3> QED
      BY <3>1, <3>2
  <2>4. devices' \in [Devices -> Row]
    BY <1>11, <2>3, <1>g DEF OnMessage
  <2> QED
    BY <1>11, <2>1, <2>2, <2>4 DEF OnMessage, serverVars, S
<1> QED
  BY <1>0, <1>1, <1>2, <1>3, <1>4, <1>5, <1>6, <1>7, <1>8, <1>9, <1>10, <1>11 DEF Next

\* A step that only loses news or requests, and counts what it loses as missed.
LEMMA LosingStep ==
    ASSUME TypeOK, NewsInv, UNCHANGED <<serverVars, index, devices>>,
           missed \subseteq missed', puts' \subseteq puts,
           \A p \in puts \ puts' : <<p.device_id, "value">> \in missed',
           OnItsWay \subseteq OnItsWay' \cup missed',
           \A f, x : LatestNews(f, x)' => LatestNews(f, x)
    PROVE  NewsInv'
<1>1. /\ UNCHANGED <<registered, value, storing, index, devices>>
      /\ View' = View
      /\ \A d : /\ Storing(d)' <=> Storing(d)
                /\ Due(d)' = Due(d)
                /\ Followed(d)' => Followed(d) /\ <<d, "value">> \notin missed'
  BY DEF serverVars, View, Listed, Storing, Due, Followed
<1>2. ConnectedTold'
  BY <1>1 DEF NewsInv, ConnectedTold
<1>3. ConnectedSeen'
  BY <1>1 DEF NewsInv, ConnectedSeen
<1>4. SettersAgree'
  BY <1>1 DEF NewsInv, SettersAgree
<1>5. ValueTold'
  BY <1>1 DEF NewsInv, ValueTold
<1>6. ValueSeen'
  <2> SUFFICES ASSUME NEW d \in Devices, Followed(d)'
               PROVE  \/ View'[d].value = Due(d)
                      \/ <<d, "value">> \in OnItsWay'
                      \/ [device_id |-> d, value |-> ~Due(d)] \in puts'
    BY <1>1 DEF ValueSeen
  <2>1. Followed(d) /\ <<d, "value">> \notin missed'
    BY <1>1
  <2>2. CASE View[d].value = Due(d)
    BY <2>2, <1>1
  <2>3. CASE <<d, "value">> \in OnItsWay
    BY <2>1, <2>3
  <2>4. CASE [device_id |-> d, value |-> ~Due(d)] \in puts
    <3> DEFINE p == [device_id |-> d, value |-> ~Due(d)]
    <3>1. p.device_id = d /\ p \in puts
      BY <2>4
    <3> HIDE DEF p
    <3>2. p \in puts'
      BY <3>1, <2>1
    <3> QED
      BY <3>2 DEF p
  <2> QED
    BY <2>1, <2>2, <2>3, <2>4 DEF NewsInv, ValueSeen
<1> QED
  BY <1>2, <1>3, <1>4, <1>5, <1>6 DEF NewsInv

\* The socket's steps, and the server's session.
LEMMA SocketKeepsNews ==
    ASSUME ClientInv, SocketStep \/ Subscribe \/ Dispatch
    PROVE  WireIsHeard' /\ PageQuiet' /\ NewsInv'
<1> USE DEF ClientInv
<1>1. CASE Quiet \/ Subscribe
  <2>1. UNCHANGED <<serverVars, posted, wire, index, devices, puts, missed>>
    BY <1>1 DEF Quiet, clientVars, Subscribe, serverVars, pageVars
  <2>2. NewsInv'
    BY <2>1, SameNews, LosingStep
  <2>3. WireIsHeard' /\ PageQuiet'
    BY <1>1, <2>1, SameNews
       DEF Quiet, clientVars, Subscribe, WireIsHeard, PageQuiet, Listed, serverVars
  <2> QED
    BY <2>2, <2>3
<1>2. CASE Hangup
  <2>1. /\ UNCHANGED <<serverVars, posted, index, devices, puts>>
        /\ wire' = <<>> /\ missed' = missed \cup FacetsOf(wire)
    BY <1>2 DEF Hangup, pageVars
  <2>2. /\ OnItsWay \subseteq OnItsWay' \cup missed' /\ OnItsWay' \subseteq OnItsWay
        /\ \A f, x : LatestNews(f, x)' => LatestNews(f, x)
    BY <2>1, LoseNews
  <2>3. NewsInv'
    BY <2>1, <2>2, LosingStep
  <2>4. WireIsHeard' /\ PageQuiet'
    BY <2>1, <2>2 DEF WireIsHeard, PageQuiet, Listed, serverVars
  <2> QED
    BY <2>3, <2>4
<1>3. CASE Dispatch
  <2>1. /\ posted # <<>> /\ posted' = Tail(posted)
        /\ UNCHANGED <<serverVars, subscribed, index, devices, puts>>
    BY <1>3 DEF Dispatch, pageVars
  <2>2. CASE subscribed
    <3>1. wire' = Append(wire, Head(posted)) /\ missed' = missed
      BY <1>3, <2>2 DEF Dispatch
    <3>2. NewsInv'
      BY <2>1, <3>1, ForwardNews, LosingStep
    <3>3. WireIsHeard' /\ PageQuiet'
      BY <2>1, <2>2, <3>1, ForwardNews DEF WireIsHeard, PageQuiet, Listed, serverVars
    <3> QED
      BY <3>2, <3>3
  <2>3. CASE ~subscribed
    <3>1. wire = <<>> /\ wire' = wire /\ missed' = missed \cup {FacetOf(Head(posted))}
      BY <1>3, <2>3 DEF Dispatch, WireIsHeard
    <3>2. /\ OnItsWay' \cup {FacetOf(Head(posted))} = OnItsWay
          /\ \A f, x : LatestNews(f, x)' => LatestNews(f, x)
      BY <2>1, <3>1, DropNews
    <3>3. NewsInv'
      BY <2>1, <3>1, <3>2, LosingStep
    <3>4. WireIsHeard' /\ PageQuiet'
      BY <2>1, <3>1, <3>2 DEF WireIsHeard, PageQuiet, Listed, serverVars
    <3> QED
      BY <3>3, <3>4
  <2> QED
    BY <2>2, <2>3
<1> QED
  BY <1>1, <1>2, <1>3 DEF SocketStep

\* A device connects or disconnects.
LEMMA DeviceKeepsNews ==
    ASSUME ClientInv, ClientTypeOK', NEW d \in Devices, Connect(d) \/ Disconnect(d)
    PROVE  WireIsHeard' /\ PageQuiet' /\ NewsInv'
<1> USE DEF ClientInv
<1>1. PICK e \in Event :
        /\ posted' = Append(posted, e)
        /\ e.device_id = d /\ e.type # "port_set" /\ FacetOf(e) = <<d, "connected">>
        /\ registered' = IF e.type = "device_connected" THEN registered \cup {d}
                         ELSE registered \ {d}
        /\ \A p \in storing' : p \in storing /\ p.device_id # d
        /\ \A p \in storing : p.device_id # d => p \in storing'
        /\ \A c : c # d => value'[c] = value[c]
        /\ missed \subseteq missed'
        /\ d \in registered' => <<d, "value">> \in missed'
        /\ UNCHANGED <<subscribed, wire, index, devices, puts>>
  <2>0. value \in [Devices -> BOOLEAN]
    BY DEF TypeOK, ClientTypeOK
  <2>1. CASE Connect(d)
    <3> DEFINE e == [type |-> "device_connected", device_id |-> d]
    <3>1. e \in Event /\ FacetOf(e) = <<d, "connected">>
      BY DEF Event, FacetOf
    <3> QED
      BY <2>0, <2>1, <3>1 DEF Connect, Post, pageVars
  <2>2. CASE Disconnect(d)
    <3> DEFINE e == [type |-> "device_disconnected", device_id |-> d]
    <3>1. e \in Event /\ FacetOf(e) = <<d, "connected">>
      BY DEF Event, FacetOf
    <3> QED
      BY <2>0, <2>2, <3>1 DEF Disconnect, Post, pageVars
  <2> QED
    BY <2>1, <2>2
<1>2. /\ OnItsWay' = OnItsWay \cup {<<d, "connected">>}
      /\ \A f, x : LatestNews(f, x)' => IF <<d, "connected">> = f THEN x = e
                                        ELSE LatestNews(f, x)
  BY <1>1, PostNews
<1>3. /\ View' = View
      /\ ~Followed(d)'
      /\ \A c : c # d => /\ c \in registered' <=> c \in registered
                         /\ Storing(c)' <=> Storing(c)
                         /\ Due(c)' = Due(c)
                         /\ Followed(c)' => Followed(c)
  <2>1. View' = View /\ ~Followed(d)'
    BY <1>1 DEF View, Listed, Followed
  <2>2. \A c : c # d => (Storing(c)' <=> Storing(c))
    BY <1>1 DEF Storing
  <2>3. \A c : c # d => c \in registered' <=> c \in registered
    BY <1>1
  <2> QED
    BY <1>1, <2>1, <2>2, <2>3 DEF Due, Followed
<1>4. WireIsHeard' /\ PageQuiet'
  BY <1>1, <1>2 DEF WireIsHeard, PageQuiet, Listed
<1>5. ConnectedTold'
  BY <1>1, <1>2, <1>3 DEF NewsInv, ConnectedTold
<1>6. ConnectedSeen'
  BY <1>1, <1>2, <1>3 DEF NewsInv, ConnectedSeen
<1>7. SettersAgree'
  BY <1>1, <1>3 DEF NewsInv, SettersAgree
<1>8. ValueTold'
  BY <1>2, <1>3 DEF NewsInv, ValueTold
<1>9. ValueSeen'
  <2> SUFFICES ASSUME NEW c \in Devices, Followed(c)'
               PROVE  \/ View'[c].value = Due(c)'
                      \/ <<c, "value">> \in OnItsWay'
                      \/ [device_id |-> c, value |-> ~Due(c)'] \in puts'
    BY DEF ValueSeen
  <2>1. c # d /\ Followed(c) /\ Due(c)' = Due(c)
    BY <1>3
  <2>2. \/ View[c].value = Due(c)
        \/ <<c, "value">> \in OnItsWay
        \/ [device_id |-> c, value |-> ~Due(c)] \in puts
    BY <2>1 DEF NewsInv, ValueSeen
  <2> QED
    BY <1>1, <1>2, <1>3, <2>1, <2>2
<1> QED
  BY <1>4, <1>5, <1>6, <1>7, <1>8, <1>9 DEF NewsInv

\* A button, and a request that finds no device or is lost.
LEMMA ButtonKeepsNews ==
    ASSUME ClientInv, NEW d \in Devices, Toggle(d)
    PROVE  WireIsHeard' /\ PageQuiet' /\ NewsInv'
<1> USE DEF ClientInv
<1> DEFINE q == [device_id |-> d, value |-> ~devices[d].value]
<1>0. /\ devices \in [Devices -> Row] /\ \A c \in Devices : devices[c].value \in BOOLEAN
      /\ value \in [Devices -> BOOLEAN]
  BY DEF TypeOK, ClientTypeOK, Row
<1>1. /\ Listed /\ index' = index
      /\ devices' = [devices EXCEPT ![d].value = ~@]
      /\ puts' = puts \cup {q}
      /\ UNCHANGED <<registered, value, storing, posted, subscribed, wire, missed>>
  BY DEF Toggle, serverVars
<1> HIDE DEF q
<1>2. /\ OnItsWay' = OnItsWay
      /\ \A f, x : LatestNews(f, x)' => LatestNews(f, x)
  BY <1>1, SameNews
<1>3. \A c \in Devices : /\ devices'[c].connected = devices[c].connected
                         /\ c # d => devices'[c].value = devices[c].value
  BY <1>0, <1>1 DEF Row
<1>4. devices'[d].value \in BOOLEAN /\ devices'[d].value # devices[d].value
  BY <1>0, <1>1
<1>5. /\ View = devices /\ View' = devices'
      /\ \A c : /\ Due(c)' = Due(c)
                /\ Followed(c)' <=> Followed(c)
  BY <1>1 DEF View, Listed, Storing, Due, Followed
<1>6. WireIsHeard' /\ PageQuiet'
  BY <1>1 DEF WireIsHeard, PageQuiet, Listed
<1>7. ConnectedTold' /\ ConnectedSeen'
  BY <1>1, <1>2, <1>3, <1>5 DEF NewsInv, ConnectedTold, ConnectedSeen
<1>8. SettersAgree' /\ ValueTold'
  BY <1>1, <1>2, <1>5 DEF NewsInv, SettersAgree, ValueTold
<1>9. ValueSeen'
  <2> SUFFICES ASSUME NEW c \in Devices, Followed(c)
               PROVE  \/ devices'[c].value = Due(c)
                      \/ <<c, "value">> \in OnItsWay
                      \/ [device_id |-> c, value |-> ~Due(c)] \in puts'
    BY <1>2, <1>5 DEF ValueSeen
  <2>1. \/ devices[c].value = Due(c)
        \/ <<c, "value">> \in OnItsWay
        \/ [device_id |-> c, value |-> ~Due(c)] \in puts
    BY <1>5 DEF NewsInv, ValueSeen
  <2>2. CASE c # d
    BY <1>1, <1>3, <2>1, <2>2
  <2>3. CASE c = d /\ devices[d].value = Due(d)
    <3>1. q = [device_id |-> d, value |-> ~Due(d)]
      BY <2>3 DEF q
    <3> QED
      BY <3>1, <2>3, <1>1
  <2>4. CASE c = d /\ devices[d].value # Due(d)
    <3>1. Due(d) \in BOOLEAN /\ devices[d].value \in BOOLEAN
      BY <1>0 DEF Due
    <3>2. devices'[d].value = Due(d)
      BY <3>1, <2>4, <1>4
    <3> QED
      BY <3>2, <2>4
  <2> QED
    BY <2>2, <2>3, <2>4
<1> QED
  BY <1>6, <1>7, <1>8, <1>9 DEF NewsInv

LEMMA LossKeepsNews ==
    ASSUME ClientInv, NEW p \in Put, PutRefused(p) \/ PutLost(p)
    PROVE  WireIsHeard' /\ PageQuiet' /\ NewsInv'
<1> USE DEF ClientInv
<1>1. /\ UNCHANGED <<serverVars, posted, subscribed, wire, index, devices>>
      /\ puts' = puts \ {p} /\ missed' = missed \cup {<<p.device_id, "value">>}
  BY DEF PutRefused, PutLost
<1>2. NewsInv'
  BY <1>1, SameNews, LosingStep
<1>3. WireIsHeard' /\ PageQuiet'
  BY <1>1, SameNews DEF WireIsHeard, PageQuiet, Listed, serverVars
<1> QED
  BY <1>2, <1>3

\* A device reports its port without an event.
LEMMA ReportKeepsNews ==
    ASSUME ClientInv, NEW d \in Devices, Report(d)
    PROVE  WireIsHeard' /\ PageQuiet' /\ NewsInv'
<1> USE DEF ClientInv
<1>0. value \in [Devices -> BOOLEAN]
  BY DEF TypeOK, ClientTypeOK
<1>1. /\ missed' = missed \cup {<<d, "value">>}
      /\ \A c : c # d => value'[c] = value[c]
      /\ UNCHANGED <<registered, storing, posted, subscribed, wire, index, devices, puts>>
  BY <1>0 DEF Report, pageVars
<1>2. /\ OnItsWay' = OnItsWay
      /\ \A f, x : LatestNews(f, x)' => LatestNews(f, x)
  BY <1>1, SameNews
<1>3. /\ View' = View
      /\ ~Followed(d)'
      /\ \A c : c # d => /\ Due(c)' = Due(c)
                         /\ Followed(c)' => Followed(c)
  <2>1. View' = View /\ ~Followed(d)'
    BY <1>1 DEF View, Listed, Followed
  <2>2. \A c : Storing(c)' <=> Storing(c)
    BY <1>1 DEF Storing
  <2> QED
    BY <1>1, <2>1, <2>2 DEF Due, Followed
<1>4. WireIsHeard' /\ PageQuiet'
  BY <1>1, <1>2 DEF WireIsHeard, PageQuiet, Listed
<1>5. ConnectedTold' /\ ConnectedSeen'
  BY <1>1, <1>2, <1>3 DEF NewsInv, ConnectedTold, ConnectedSeen
<1>6. SettersAgree' /\ ValueTold'
  BY <1>1, <1>2, <1>3 DEF NewsInv, SettersAgree, ValueTold
<1>7. ValueSeen'
  <2> SUFFICES ASSUME NEW c \in Devices, Followed(c)'
               PROVE  \/ View[c].value = Due(c)'
                      \/ <<c, "value">> \in OnItsWay
                      \/ [device_id |-> c, value |-> ~Due(c)'] \in puts
    BY <1>1, <1>2, <1>3 DEF ValueSeen
  <2>1. c # d /\ Followed(c) /\ Due(c)' = Due(c)
    BY <1>3
  <2> QED
    BY <2>1 DEF NewsInv, ValueSeen
<1> QED
  BY <1>4, <1>5, <1>6, <1>7 DEF NewsInv

\* A setter finds the value there already.
LEMMA UnchangedKeepsNews ==
    ASSUME ClientInv, NEW p \in Put, PutUnchanged(p)
    PROVE  WireIsHeard' /\ PageQuiet' /\ NewsInv'
<1> USE DEF ClientInv
<1>1. /\ UNCHANGED <<serverVars, posted, subscribed, wire, index, devices>>
      /\ puts' = puts \ {p} /\ value[p.device_id] = p.value
      /\ missed' = IF Storing(p.device_id) THEN missed \cup {<<p.device_id, "value">>}
                   ELSE missed
  BY DEF PutUnchanged
<1>2. CASE Storing(p.device_id)
  <2>1. NewsInv'
    BY <1>1, <1>2, SameNews, LosingStep
  <2> QED
    BY <1>1, <2>1, SameNews DEF WireIsHeard, PageQuiet, Listed, serverVars
<1>3. CASE ~Storing(p.device_id)
  <2>1. /\ OnItsWay' = OnItsWay
        /\ \A f, x : LatestNews(f, x)' => LatestNews(f, x)
    BY <1>1, SameNews
  <2>2. /\ View' = View
        /\ UNCHANGED <<registered, storing, missed, index>>
        /\ \A c : /\ Due(c)' = Due(c)
                  /\ Followed(c)' <=> Followed(c)
    BY <1>1, <1>3 DEF View, Listed, Due, Storing, Followed, serverVars
  <2>3. ConnectedTold' /\ ConnectedSeen' /\ SettersAgree' /\ ValueTold'
    BY <2>1, <2>2 DEF NewsInv, ConnectedTold, ConnectedSeen, SettersAgree, ValueTold
  <2>4. \A c \in Devices : p # [device_id |-> c, value |-> ~Due(c)]
    <3>1. value[p.device_id] = Due(p.device_id) /\ p.value \in BOOLEAN
      BY <1>3 DEF Due, Put
    <3>2. p.value # ~Due(p.device_id)
      BY <3>1, <1>1
    <3> QED
      BY <3>2
  <2>5. ValueSeen'
    BY <1>1, <2>1, <2>2, <2>4 DEF NewsInv, ValueSeen
  <2> QED
    BY <1>1, <2>1, <2>3, <2>5 DEF NewsInv, WireIsHeard, PageQuiet, Listed, serverVars
<1> QED
  BY <1>2, <1>3

\* A setter announces the value it is going to store.
LEMMA AnnouncedKeepsNews ==
    ASSUME ClientInv, NEW p \in Put, PutAnnounced(p)
    PROVE  WireIsHeard' /\ PageQuiet' /\ NewsInv'
<1> USE DEF ClientInv
<1> DEFINE d == p.device_id
           e == [type |-> "port_set", device_id |-> d, value |-> p.value]
<1>0. d \in Devices /\ p.value \in BOOLEAN /\ value[d] \in BOOLEAN
  BY DEF TypeOK, ClientTypeOK, Put
<1>1. e \in Event /\ FacetOf(e) = <<d, "value">> /\ e.value = p.value
  BY <1>0 DEF Event, FacetOf
<1>2. /\ p \in puts /\ value[d] # p.value
      /\ posted' = Append(posted, e)
      /\ puts' = puts \ {p} /\ storing' = storing \cup {p}
      /\ UNCHANGED <<registered, value, subscribed, wire, index, devices, missed>>
  BY DEF PutAnnounced, Post
<1> HIDE DEF e
<1>3. /\ OnItsWay' = OnItsWay \cup {<<d, "value">>}
      /\ \A f, x : LatestNews(f, x)' => IF <<d, "value">> = f THEN x = e
                                        ELSE LatestNews(f, x)
  BY <1>1, <1>2, PostNews
<1>4. /\ Storing(d)'
      /\ \A c : c # d => (Storing(c)' <=> Storing(c))
  BY <1>2 DEF Storing
<1>5. /\ View' = View
      /\ \A c : Followed(c)' <=> Followed(c)
      /\ \A c : c # d => Due(c)' = Due(c)
      /\ Due(d)' = p.value
      /\ Storing(d) => Due(d) = p.value
  BY <1>0, <1>2, <1>4 DEF View, Listed, Followed, Due
<1>6. WireIsHeard' /\ PageQuiet'
  BY <1>2 DEF WireIsHeard, PageQuiet, Listed
<1>7. ConnectedTold' /\ ConnectedSeen'
  BY <1>2, <1>3, <1>5 DEF NewsInv, ConnectedTold, ConnectedSeen
<1>8. SettersAgree'
  <2> SUFFICES ASSUME NEW q \in storing', Followed(q.device_id)'
               PROVE  q.value = Due(q.device_id)'
    BY DEF SettersAgree
  <2>1. CASE q = p
    BY <2>1, <1>5
  <2>2. CASE q \in storing
    <3>1. q.value = Due(q.device_id)
      BY <2>2, <1>5 DEF NewsInv, SettersAgree
    <3>2. q.device_id = d => Storing(d)
      BY <2>2 DEF Storing
    <3> QED
      BY <3>1, <3>2, <1>5
  <2> QED
    BY <2>1, <2>2, <1>2
<1>9. ValueTold'
  BY <1>1, <1>3, <1>5 DEF NewsInv, ValueTold
<1>10. ValueSeen'
  <2> SUFFICES ASSUME NEW c \in Devices, Followed(c), c # d
               PROVE  \/ View[c].value = Due(c)
                      \/ <<c, "value">> \in OnItsWay
                      \/ [device_id |-> c, value |-> ~Due(c)] \in puts'
    BY <1>3, <1>5 DEF ValueSeen
  <2>1. p # [device_id |-> c, value |-> ~Due(c)]
    OBVIOUS
  <2> QED
    BY <2>1, <1>2 DEF NewsInv, ValueSeen
<1> QED
  BY <1>6, <1>7, <1>8, <1>9, <1>10 DEF NewsInv

\* And stores it.
LEMMA StoredKeepsNews ==
    ASSUME ClientInv, NEW p \in Put, Stored(p)
    PROVE  WireIsHeard' /\ PageQuiet' /\ NewsInv'
<1> USE DEF ClientInv
<1> DEFINE d == p.device_id
<1>0. value \in [Devices -> BOOLEAN] /\ d \in Devices /\ storing \subseteq Put
  BY DEF TypeOK, ClientTypeOK, Put
<1>1. /\ p \in storing /\ storing' = storing \ {p}
      /\ value'[d] = p.value
      /\ \A c : c # d => value'[c] = value[c]
      /\ missed' = IF Storing(d)' THEN missed \cup {<<d, "value">>} ELSE missed
      /\ UNCHANGED <<registered, posted, subscribed, wire, index, devices, puts>>
  BY <1>0 DEF Stored, pageVars, Storing
<1>2. /\ OnItsWay' = OnItsWay
      /\ \A f, x : LatestNews(f, x)' => LatestNews(f, x)
  BY <1>1, SameNews
<1>3. \A c : c # d => (Storing(c)' <=> Storing(c))
  BY <1>1 DEF Storing
<1>4. /\ View' = View /\ missed \subseteq missed'
      /\ \A c : Followed(c)' => Followed(c) /\ (c = d => ~Storing(d)')
  BY <1>1 DEF View, Listed, Followed
<1>5. \A c : Followed(c)' => Due(c)' = Due(c)
  <2>1. \A c : c # d => Due(c)' = Due(c)
    BY <1>1, <1>3 DEF Due
  <2>2. ASSUME Followed(d)' PROVE Due(d)' = Due(d)
    <3>1. p.value = Due(d)
      BY <1>1, <1>4, <2>2 DEF NewsInv, SettersAgree
    <3>2. Due(d)' = value'[d]
      BY <1>4, <2>2 DEF Due
    <3> QED
      BY <3>1, <3>2, <1>1
  <2> QED
    BY <2>1, <2>2
<1>6. WireIsHeard' /\ PageQuiet'
  BY <1>1, <1>2 DEF WireIsHeard, PageQuiet, Listed
<1>7. ConnectedTold' /\ ConnectedSeen'
  BY <1>1, <1>2, <1>4 DEF NewsInv, ConnectedTold, ConnectedSeen
<1>8. SettersAgree'
  BY <1>1, <1>4, <1>5 DEF NewsInv, SettersAgree
<1>9. ValueTold'
  BY <1>2, <1>4, <1>5 DEF NewsInv, ValueTold
<1>10. ValueSeen'
  BY <1>1, <1>2, <1>4, <1>5 DEF NewsInv, ValueSeen
<1> QED
  BY <1>6, <1>7, <1>8, <1>9, <1>10 DEF NewsInv

\* The answer to the index request is written, and later read.
LEMMA AnswerKeepsNews ==
    ASSUME ClientInv, IndexAnswered
    PROVE  WireIsHeard' /\ PageQuiet' /\ NewsInv'
<1> USE DEF ClientInv
<1>1. /\ index.state = "asked" /\ index'.state = "answered"
      /\ \A d \in Devices : /\ index'.rows[d].connected = (d \in registered)
                            /\ d \in registered => index'.rows[d].value = value[d]
      /\ \A d : <<d, "value">> \in Facet /\ <<d, "value">> \in missed /\ Storing(d)
                   => <<d, "value">> \in missed'
      /\ UNCHANGED <<registered, value, storing, posted, subscribed, wire, devices, puts>>
  <2>1. \A d \in Devices : value[d] \in BOOLEAN
    BY DEF TypeOK, ClientTypeOK
  <2> QED
    BY <2>1 DEF IndexAnswered, serverVars
<1>2. /\ OnItsWay' = OnItsWay
      /\ \A f, x : LatestNews(f, x)' => LatestNews(f, x)
  BY <1>1, SameNews
<1>3. /\ ~Listed /\ ~Listed' /\ View' = index'.rows
  BY <1>1 DEF Listed, View
<1>4. /\ storing = {} /\ storing' = {} /\ \A d : ~Storing(d)'
      /\ \A d \in Devices : <<d, "value">> \notin OnItsWay
  BY <1>1, <1>3 DEF PageQuiet, Storing
<1>5. \A d \in Devices : \A x : ~LatestNews(<<d, "value">>, x)
  BY <1>4 DEF OnItsWay, LatestNews, Latest, FacetsOf
<1>6. WireIsHeard' /\ PageQuiet'
  BY <1>1, <1>2, <1>3 DEF WireIsHeard, PageQuiet
<1>7. ConnectedTold'
  BY <1>1, <1>2 DEF NewsInv, ConnectedTold
<1>8. ConnectedSeen'
  BY <1>1, <1>3 DEF ConnectedSeen
<1>9. SettersAgree'
  BY <1>4 DEF SettersAgree
<1>10. ValueTold'
  BY <1>2, <1>5 DEF ValueTold
<1>11. ValueSeen'
  BY <1>1, <1>3, <1>4 DEF ValueSeen, Followed, Due
<1> QED
  BY <1>6, <1>7, <1>8, <1>9, <1>10, <1>11 DEF NewsInv

LEMMA ListKeepsNews ==
    ASSUME ClientInv, IndexDone
    PROVE  WireIsHeard' /\ PageQuiet' /\ NewsInv'
<1> USE DEF ClientInv
<1>1. /\ index.state = "answered" /\ index'.state = "done"
      /\ devices' = index.rows
      /\ UNCHANGED <<registered, value, storing, posted, subscribed, wire, puts, missed>>
  BY DEF IndexDone, serverVars, TypeOK, ClientTypeOK
<1>2. /\ OnItsWay' = OnItsWay
      /\ \A f, x : LatestNews(f, x)' => LatestNews(f, x)
  BY <1>1, SameNews
<1>3. /\ View' = View
      /\ \A d : /\ Due(d)' = Due(d)
                /\ Followed(d)' <=> Followed(d)
  BY <1>1 DEF View, Listed, Due, Storing, Followed
<1>4. WireIsHeard' /\ PageQuiet'
  BY <1>1 DEF WireIsHeard, PageQuiet, Listed
<1>5. ConnectedTold' /\ ConnectedSeen' /\ SettersAgree'
  BY <1>1, <1>2, <1>3 DEF NewsInv, ConnectedTold, ConnectedSeen, SettersAgree
<1>6. ValueTold' /\ ValueSeen'
  BY <1>1, <1>2, <1>3 DEF NewsInv, ValueTold, ValueSeen
<1> QED
  BY <1>4, <1>5, <1>6 DEF NewsInv

\* The page hears an event.  If it was the last of its facet the list is right now.
LEMMA MessageKeepsNews ==
    ASSUME ClientInv, OnMessage
    PROVE  WireIsHeard' /\ PageQuiet' /\ NewsInv'
<1> USE DEF ClientInv
<1>0. PICK e, f : e = Head(wire) /\ f = FacetOf(e)
  OBVIOUS
<1>1. /\ wire # <<>> /\ wire' = Tail(wire)
      /\ UNCHANGED <<registered, value, storing, posted, subscribed, index, puts>>
      /\ Listed => devices' = Applied(e)
      /\ ~Listed => devices' = devices
      /\ missed' = IF Listed THEN IF CaughtUp(e) THEN missed \ {f} ELSE missed
                   ELSE missed \cup {f}
  BY <1>0 DEF OnMessage, serverVars
<1>2. /\ OnItsWay' \cup {f} = OnItsWay
      /\ e \in Event
      /\ f \notin OnItsWay' => LatestNews(f, e)
      /\ \A g, x : LatestNews(g, x)' => LatestNews(g, x)
  BY <1>0, <1>1, HearNews
<1>3. /\ f \notin FacetsOf(posted \o Tail(wire)) => f \notin OnItsWay'
      /\ \A x : LatestNews(f, x)' => f \in OnItsWay'
  <2>1. posted \in Seq(Event) /\ wire' \in Seq(Event)
    BY <1>1, EventTypes, LatestTail
  <2>2. FacetsOf(posted \o wire') = FacetsOf(posted) \cup FacetsOf(wire')
    BY <2>1, FacetsOfBoth
  <2>3. OnItsWay' = FacetsOf(posted) \cup FacetsOf(wire')
    BY <1>1 DEF OnItsWay, FacetsOf, FacetOf
  <2>4. \A x : LatestNews(f, x)' => f \in OnItsWay'
    BY DEF LatestNews, OnItsWay, Latest, FacetsOf, FacetOf
  <2> QED
    BY <1>1, <2>2, <2>3, <2>4
<1>4. /\ e.device_id \in Devices
      /\ e.type = "port_set" => f = <<e.device_id, "value">> /\ e.value \in BOOLEAN
      /\ e.type # "port_set" => f = <<e.device_id, "connected">>
  BY <1>0, <1>2 DEF Event, FacetOf
\* What the event does to the list.
<1>5. /\ \A c \in Devices : <<c, "connected">> # f => View'[c].connected = View[c].connected
      /\ \A c \in Devices : <<c, "value">> # f => View'[c].value = View[c].value
  <2>1. CASE ~Listed
    BY <1>1, <2>1 DEF View, Listed
  <2>2. CASE Listed
    <3>1. View = devices /\ View' = Applied(e) /\ devices \in [Devices -> Row]
      BY <1>1, <2>2 DEF View, Listed, TypeOK, ClientTypeOK
    <3> QED
      BY <3>1, <1>4 DEF Applied, Row
  <2> QED
    BY <2>1, <2>2
<1>6. /\ \A c \in Devices : Listed /\ <<c, "connected">> = f =>
            e.type # "port_set" /\ View'[c].connected = (e.type = "device_connected")
      /\ \A c \in Devices : Listed /\ <<c, "value">> = f =>
            e.type = "port_set" /\ View'[c].value = e.value
  <2> SUFFICES ASSUME Listed PROVE <1>6
    OBVIOUS
  <2>1. View = devices /\ View' = Applied(e) /\ devices \in [Devices -> Row]
    BY <1>1 DEF View, Listed, TypeOK, ClientTypeOK
  <2> QED
    BY <2>1, <1>4 DEF Applied, Row
\* What the page is owed no more.
<1>7. ASSUME f \in missed, f \notin missed'
      PROVE  /\ f \notin OnItsWay'
             /\ e.type = "port_set" => value[e.device_id] = e.value /\ ~Storing(e.device_id)
  BY <1>0, <1>1, <1>3, <1>7 DEF CaughtUp
<1>8. /\ \A g : g # f => (g \in missed' <=> g \in missed)
      /\ \A g : g # f => (g \in OnItsWay' <=> g \in OnItsWay)
      /\ \A c : Due(c)' = Due(c) /\ (Storing(c)' <=> Storing(c))
      /\ \A c \in Devices : Followed(c)' =>
            Followed(c) \/ (f = <<c, "value">> /\ f \in missed /\ f \notin missed')
  BY <1>1, <1>2 DEF Due, Storing, Followed
<1>9. WireIsHeard' /\ PageQuiet'
  BY <1>1, <1>2 DEF WireIsHeard, PageQuiet, Listed
<1>10. ConnectedTold'
  BY <1>1, <1>2 DEF NewsInv, ConnectedTold
<1>11. ConnectedSeen'
  <2> SUFFICES ASSUME index.state # "asked", NEW c \in Devices,
                      View'[c].connected # (c \in registered)
               PROVE  <<c, "connected">> \in missed' \cup OnItsWay'
    BY <1>1 DEF ConnectedSeen
  <2>1. CASE <<c, "connected">> # f
    BY <2>1, <1>5, <1>8 DEF NewsInv, ConnectedSeen
  <2>2. CASE <<c, "connected">> = f /\ ~Listed
    BY <2>2, <1>1
  <2>3. CASE <<c, "connected">> = f /\ Listed /\ f \notin OnItsWay'
    <3>1. c \in registered <=> e.type = "device_connected"
      BY <2>3, <1>2 DEF NewsInv, ConnectedTold
    <3> QED
      BY <3>1, <2>3, <1>6
  <2> QED
    BY <2>1, <2>2, <2>3
<1>12. SettersAgree'
  <2> SUFFICES ASSUME NEW q \in storing, Followed(q.device_id)'
               PROVE  q.value = Due(q.device_id)
    BY <1>1, <1>8 DEF SettersAgree
  <2>1. q.device_id \in Devices /\ Storing(q.device_id)
    BY DEF TypeOK, ClientTypeOK, Put, Storing
  <2>2. Followed(q.device_id)
    BY <2>1, <1>4, <1>7, <1>8
  <2> QED
    BY <2>2 DEF NewsInv, SettersAgree
<1>13. ValueTold'
  <2> SUFFICES ASSUME NEW c \in Devices, NEW x \in Event, Followed(c)',
                      LatestNews(<<c, "value">>, x)'
               PROVE  x.value = Due(c)
    BY <1>8 DEF ValueTold
  <2>1. Followed(c)
    BY <1>3, <1>7, <1>8
  <2> QED
    BY <2>1, <1>2 DEF NewsInv, ValueTold
<1>14. ValueSeen'
  <2> SUFFICES ASSUME NEW c \in Devices, Followed(c)', <<c, "value">> \notin OnItsWay'
               PROVE  View'[c].value = Due(c) \/ [device_id |-> c, value |-> ~Due(c)] \in puts
    BY <1>1, <1>8 DEF ValueSeen
  <2>1. CASE <<c, "value">> # f
    BY <2>1, <1>5, <1>8 DEF NewsInv, ValueSeen
  <2>2. CASE <<c, "value">> = f
    <3>1. <<c, "value">> \notin missed'
      BY DEF Followed
    <3>2. Listed
      BY <3>1, <2>2, <1>1
    <3>3. View'[c].value = e.value /\ e.type = "port_set"
      BY <3>2, <2>2, <1>6
    <3>4. CASE f \in missed
      <4>1. e.device_id = c
        BY <2>2, <3>3, <1>4
      <4>2. value[c] = e.value /\ ~Storing(c)
        BY <4>1, <3>1, <3>3, <3>4, <2>2, <1>7
      <4> QED
        BY <4>2, <3>3 DEF Due
    <3>5. CASE f \notin missed
      <4>1. Followed(c)
        BY <3>5, <2>2, <1>8
      <4>2. e.value = Due(c)
        BY <4>1, <2>2, <1>2 DEF NewsInv, ValueTold
      <4> QED
        BY <4>2, <3>3
    <3> QED
      BY <3>4, <3>5
  <2> QED
    BY <2>1, <2>2
<1> QED
  BY <1>9, <1>10, <1>11, <1>12, <1>13, <1>14 DEF NewsInv

\* Every step preserves the invariant.
LEMMA ClientStep == ClientInv /\ Inv /\ [Next]_vars => ClientInv' /\ Inv'
<1> SUFFICES ASSUME ClientInv, Inv, [Next]_vars PROVE ClientInv' /\ Inv'
  OBVIOUS
<1>1. Inv'
  BY SocketImplements, StepInv
<1>2. RwsTypeOK'
  BY <1>1 DEF Inv
<1>3. CASE UNCHANGED vars
  <2>1. UNCHANGED clientVars
    BY <1>3 DEF vars
  <2>2. UNCHANGED <<serverVars, posted, subscribed, wire, index, devices, puts, missed>>
    BY <2>1 DEF clientVars, serverVars
  <2>3. NewsInv'
    BY <2>2, SameNews, LosingStep DEF ClientInv
  <2>4. WireIsHeard' /\ PageQuiet'
    BY <2>2, SameNews DEF ClientInv, WireIsHeard, PageQuiet, Listed, serverVars
  <2>5. ClientTypeOK'
    BY <2>1 DEF ClientInv, TypeOK, ClientTypeOK, clientVars
  <2> QED
    BY <1>1, <1>2, <2>3, <2>4, <2>5 DEF ClientInv, TypeOK
<1>4. CASE Next
  <2>1. ClientTypeOK'
    BY <1>4, ClientTypeStep DEF ClientInv
  <2>2. WireIsHeard' /\ PageQuiet' /\ NewsInv'
    BY <1>4, <2>1, SocketKeepsNews, DeviceKeepsNews, ButtonKeepsNews, LossKeepsNews,
       ReportKeepsNews, UnchangedKeepsNews, AnnouncedKeepsNews, StoredKeepsNews,
       AnswerKeepsNews, ListKeepsNews, MessageKeepsNews DEF Next
  <2> QED
    BY <1>1, <1>2, <2>1, <2>2 DEF ClientInv, TypeOK
<1> QED
  BY <1>3, <1>4

LEMMA ClientInvariance == Spec => [](ClientInv /\ Inv)
<1>1. Init => ClientInv /\ Inv
  BY ClientInit, InitInv DEF Init
<1> QED
  BY <1>1, ClientStep, PTL DEF Spec

-----------------------------------------------------------------------------

\* The variables keep their types.
THEOREM ClientTypeCorrect == Spec => []TypeOK
BY ClientInvariance, PTL DEF ClientInv

LEMMA ClientInvAccounts == ClientInv => StaleIsAccountedFor
<1> SUFFICES ASSUME ClientInv, Listed, NEW d \in Devices
             PROVE  /\ devices[d].connected # (d \in registered)
                          => <<d, "connected">> \in missed \cup OnItsWay
                    /\ d \in registered /\ devices[d].value # value[d]
                          => \/ <<d, "value">> \in missed \cup OnItsWay
                             \/ Storing(d)
                             \/ \E p \in puts : p.device_id = d
  BY FlightIsOnItsWay DEF ClientInv, StaleIsAccountedFor
<1>1. index.state # "asked" /\ View = devices
  BY DEF Listed, View
<1>2. devices[d].connected # (d \in registered)
         => <<d, "connected">> \in missed \cup OnItsWay
  BY <1>1 DEF ClientInv, NewsInv, ConnectedSeen
<1>3. ASSUME d \in registered, devices[d].value # value[d], <<d, "value">> \notin missed,
             <<d, "value">> \notin OnItsWay, ~Storing(d)
      PROVE  \E p \in puts : p.device_id = d
  <2>1. Followed(d) /\ Due(d) = value[d]
    BY <1>1, <1>3 DEF Followed, Due
  <2>2. [device_id |-> d, value |-> ~Due(d)] \in puts
    BY <1>1, <1>3, <2>1 DEF ClientInv, NewsInv, ValueSeen
  <2> QED
    BY <2>2
<1> QED
  BY <1>2, <1>3

\* What the page's list shows of a device and what the server has differ only
\* while news is on its way, a setter or a request is, or news was lost to the
\* page (devices_manager.js.coffee:5-31, components/device.js.coffee:20-25).
THEOREM StaleAlwaysAccountedFor == Spec => []StaleIsAccountedFor
BY ClientInvariance, ClientInvAccounts, PTL

-----------------------------------------------------------------------------
(* What the socket promises it keeps on the page.                          *)

LEMMA PageRunsSocket == Spec => RwsInit /\ [][RwsNext]_rwsVars
<1>1. Init => RwsInit
  BY DEF Init
<1> QED
  BY <1>1, SocketImplements, PTL DEF Spec

\* The page's socket has one connection or one attempt coming, until close().
THEOREM PageNeverStranded == Spec => []NeverStranded
BY ClientInvariance, PTL DEF Inv

\* Nothing opens the page's socket again once it is CLOSED.
THEOREM PageClosedIsFinal == Spec => ClosedIsFinal
BY ClientInvariance, PageRunsSocket, ClosedStep, PTL DEF ClosedIsFinal

\* No timer closes the page's connection while it is open.
THEOREM PageOpenSurvivesTimers == Spec => OpenSurvivesTimers
BY ClientInvariance, PageRunsSocket, TimerStep, PTL
   DEF OpenSurvivesTimers, TimersSpareOpen

=============================================================================
