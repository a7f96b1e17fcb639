----------------------- MODULE ReconnectingWebSocket -----------------------
(***************************************************************************)
(* The object that keeps the page's websocket open                         *)
(* (web/lib/js/reconnecting-websocket.js:105-321).  It owns at most one    *)
(* browser socket, ws, gives each attempt a connect timer, and after each  *)
(* close starts a timer that opens the next socket.                        *)
(*                                                                         *)
(* A browser socket closes asynchronously: close() only starts the closing *)
(* and onclose runs later, from the event loop.  So timedOut, which the    *)
(* connect timer sets around its close() (:214-216), is false whenever     *)
(* onclose reads it, and has no variable here.                             *)
(*                                                                         *)
(* clearTimeout(timeout) in onclose (:234) names the timeout that onclose  *)
(* itself declares (:253) and clears nothing: the connect timer of an      *)
(* attempt that failed goes off later, on a socket that is gone.           *)
(*                                                                         *)
(* Sockets are the browser's socket objects, used again once nothing       *)
(* refers to them.  Delays are left out; only the order of events is kept. *)
(***************************************************************************)
EXTENDS Naturals, FiniteSets

CONSTANTS Sockets, NoSocket

ASSUME SocketsAssumption == NoSocket \notin Sockets /\ Sockets # {}

VARIABLES
    ws,            \* the socket in use
    socket,        \* the state of each browser socket
    connectTimer,  \* sockets whose connect timer is running
    reopenTimer,   \* sockets whose onclose has a reopening pending
    reconnect,     \* reconnectAttempt of the open() that made a socket
    readyState,    \* what the application sees
    forcedClose

rwsVars == <<ws, socket, connectTimer, reopenTimer, reconnect, readyState,
             forcedClose>>

RwsTypeOK ==
    /\ ws \in Sockets \cup {NoSocket}
    /\ socket \in [Sockets -> {"unused", "connecting", "open", "closing"}]
    /\ connectTimer \in SUBSET Sockets
    /\ reopenTimer \in SUBSET Sockets
    /\ reconnect \in [Sockets -> BOOLEAN]
    /\ readyState \in {"CONNECTING", "OPEN", "CLOSED"}
    /\ forcedClose \in BOOLEAN

\* The constructor opens at once (:277-279).
RwsInit ==
    /\ ws \in Sockets
    /\ socket = [s \in Sockets |-> IF s = ws THEN "connecting" ELSE "unused"]
    /\ connectTimer = {ws}
    /\ reopenTimer = {}
    /\ reconnect = [s \in Sockets |-> FALSE]
    /\ readyState = "CONNECTING"
    /\ forcedClose = FALSE

Live(s) == socket[s] # "unused"

Free(s) == ~Live(s) /\ s \notin connectTimer \cup reopenTimer

-----------------------------------------------------------------------------

\* onopen.
Opened(s) ==
    /\ socket[s] = "connecting"
    /\ socket' = [socket EXCEPT ![s] = "open"]
    /\ connectTimer' = connectTimer \ {s}
    /\ reconnect' = [reconnect EXCEPT ![s] = FALSE]
    /\ readyState' = "OPEN"
    /\ UNCHANGED <<ws, reopenTimer, forcedClose>>

\* The server refuses, the network fails, or the server goes away.
Lost(s) ==
    /\ socket[s] \in {"connecting", "open"}
    /\ socket' = [socket EXCEPT ![s] = "closing"]
    /\ UNCHANGED <<ws, connectTimer, reopenTimer, reconnect, readyState,
                   forcedClose>>

\* close() of a browser socket: without effect on one that has closed.
Closing(s) ==
    IF s # NoSocket /\ Live(s) THEN [socket EXCEPT ![s] = "closing"] ELSE socket

\* Deviation: the timer closes the socket in use, not the one it was set for.
TimeoutOfCurrent(s) ==
    /\ s \in connectTimer
    /\ connectTimer' = connectTimer \ {s}
    /\ socket' = Closing(ws)
    /\ UNCHANGED <<ws, reopenTimer, reconnect, readyState, forcedClose>>

\* The connect timer goes off.
ConnectTimeout(s) ==
    /\ s \in connectTimer
    /\ connectTimer' = connectTimer \ {s}
    /\ socket' = Closing(s)
    /\ UNCHANGED <<ws, reopenTimer, reconnect, readyState, forcedClose>>

\* Deviation: only a connection that was open is opened again.
ClosedForGood(s) ==
    /\ socket[s] = "closing"
    /\ socket' = [socket EXCEPT ![s] = "unused"]
    /\ ws' = NoSocket
    /\ IF forcedClose \/ reconnect[s]
       THEN readyState' = "CLOSED" /\ UNCHANGED reopenTimer
       ELSE readyState' = "CONNECTING" /\ reopenTimer' = reopenTimer \cup {s}
    /\ UNCHANGED <<connectTimer, reconnect, forcedClose>>

\* Deviation: the reopening is pending whether or not close() was called.
ClosedAndAgain(s) ==
    /\ socket[s] = "closing"
    /\ socket' = [socket EXCEPT ![s] = "unused"]
    /\ ws' = NoSocket
    /\ readyState' = IF forcedClose THEN "CLOSED" ELSE "CONNECTING"
    /\ reopenTimer' = reopenTimer \cup {s}
    /\ UNCHANGED <<connectTimer, reconnect, forcedClose>>

\* onclose.
Closed(s) ==
    /\ socket[s] = "closing"
    /\ socket' = [socket EXCEPT ![s] = "unused"]
    /\ ws' = NoSocket
    /\ IF forcedClose
       THEN readyState' = "CLOSED" /\ UNCHANGED reopenTimer
       ELSE readyState' = "CONNECTING" /\ reopenTimer' = reopenTimer \cup {s}
    /\ UNCHANGED <<connectTimer, reconnect, forcedClose>>

\* Deviation: the reopening timer stays armed, as one of setInterval would.
ReopenRepeats(s, n) ==
    /\ s \in reopenTimer
    /\ Free(n)
    /\ ws' = n
    /\ socket' = [socket EXCEPT ![n] = "connecting"]
    /\ connectTimer' = connectTimer \cup {n}
    /\ reconnect' = [reconnect EXCEPT ![n] = TRUE]
    /\ UNCHANGED <<reopenTimer, readyState, forcedClose>>

\* The reopening timer of s goes off: open(true), which makes socket n.
Reopen(s, n) ==
    /\ s \in reopenTimer
    /\ Free(n)
    /\ reopenTimer' = reopenTimer \ {s}
    /\ ws' = n
    /\ socket' = [socket EXCEPT ![n] = "connecting"]
    /\ connectTimer' = connectTimer \cup {n}
    /\ reconnect' = [reconnect EXCEPT ![n] = TRUE]
    /\ UNCHANGED <<readyState, forcedClose>>

\* close().
Close ==
    /\ forcedClose' = TRUE
    /\ socket' = Closing(ws)
    /\ UNCHANGED <<ws, connectTimer, reopenTimer, reconnect, readyState>>

\* refresh().
Refresh ==
    /\ ws # NoSocket
    /\ socket' = Closing(ws)
    /\ UNCHANGED <<ws, connectTimer, reopenTimer, reconnect, readyState,
                   forcedClose>>

RwsNext ==
    \/ \E s \in Sockets :
          Opened(s) \/ Lost(s) \/ ConnectTimeout(s) \/ Closed(s)
    \/ \E s, n \in Sockets : Reopen(s, n)
    \/ Close
    \/ Refresh

\* The timers go off and the browser reports the end of a socket.  A server
\* that can be asked again and again answers in time some day.
RwsFairness ==
    /\ \A s \in Sockets : WF_rwsVars(ConnectTimeout(s)) /\ WF_rwsVars(Closed(s))
    /\ WF_rwsVars(\E s, n \in Sockets : Reopen(s, n))
    /\ SF_rwsVars(\E s \in Sockets : Opened(s))

RwsSpec == RwsInit /\ [][RwsNext]_rwsVars /\ RwsFairness

-----------------------------------------------------------------------------

\* There is one connection, or one timer that will open it, never both and never
\* two of either.  A second socket would deliver every event twice, and the close
\* of the first would clear ws under it (:199, :235, :254).  Without either, and
\* without a close(), nothing would ever connect again.
NeverStranded ==
    /\ \A s \in Sockets : Live(s) => ws = s /\ reopenTimer = {}
    /\ \A s, t \in reopenTimer : s = t
    /\ ~forcedClose => reopenTimer # {} \/ \E s \in Sockets : Live(s)

\* CLOSED is final: no timer that was started before close() brings a closed
\* object back (:254-257, :301-310).
ClosedIsFinal == [][readyState = "CLOSED" => readyState' = "CLOSED"]_rwsVars

\* Timers that outlive their attempt never touch a healthy connection: one that
\* is open ends by the network, close() or refresh() (:210-217, :234).
OpenSurvivesTimers ==
    [][\A s \in Sockets : socket[s] = "open" /\ socket'[s] # "open"
          => connectTimer' = connectTimer /\ reopenTimer' = reopenTimer]_rwsVars

\* "It will repeatedly poll until it successfully connects again" (:25-26).
Persistence == []<>(forcedClose \/ readyState = "OPEN")

=============================================================================
