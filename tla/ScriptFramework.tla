-------------------------- MODULE ScriptFramework --------------------------
(***************************************************************************)
(* What the JavaScript engine does with an event: the framework            *)
(* (jsengine/framework/application.js, core/domoio.coffee) on top of the   *)
(* event service.  The engine runs application.js, which loads the         *)
(* framework and then the user's application; only then it subscribes.     *)
(* Each event is given to `emit`, which calls the callbacks of `onAll` one *)
(* after the other.  A callback may register more callbacks, and a script  *)
(* may throw: the TryCatch of trigger_event ends that event alone.         *)
(*                                                                         *)
(* `require` keeps no cache: each require of "domoio" makes another Domoio *)
(* with callbacks of its own, which __emit_events does not know.           *)
(*                                                                         *)
(* What scripts do between these calls is left open.  Callbacks are named  *)
(* by the order in which they were registered.                             *)
(***************************************************************************)
EXTENDS EventBus, FiniteSets

CONSTANTS
    Js,            \* the listener that is the JavaScript engine
    MaxCallbacks,  \* bounds the callbacks a behaviour registers
    MaxCopies,     \* bounds the Domoios that are made
    MaxThrows      \* bounds the events in which a script throws

ASSUME JsAssumption == Js \in Listeners

ASSUME CallbacksAssumption == MaxCallbacks \in Nat

VARIABLES
    engine,     \* "starting", "application" (the user's script runs), "ready", "failed"
    listeners,  \* allEventsListeners of every Domoio; the first is application.js's
    emit,       \* the callback that runs, 0 if none, and the list's length at the start
    since,      \* the last event before each callback was registered
    heard,      \* the events each callback was called with
    thrown      \* the events that a callback ended, and its place in the list

scriptVars == <<engine, listeners, emit, since, heard, thrown>>
callbackVars == <<listeners, since>>

ScriptInit ==
    /\ Init
    /\ engine = "starting"
    /\ listeners = <<>>
    /\ emit = [at |-> 0, length |-> 0]
    /\ since = <<>>
    /\ heard = <<>>
    /\ thrown = {}

-----------------------------------------------------------------------------
(* Start-up.                                                               *)

\* application.js up to the user's code: require("domoio") makes the first Domoio.
LoadFramework ==
    /\ engine = "starting"
    /\ engine' = "application"
    /\ listeners' = <<<<>>>>
    /\ UNCHANGED <<vars, emit, since, heard, thrown>>

\* The script of a module is missing or throws: run returns, nobody subscribes.
LoadFails ==
    /\ engine \in {"starting", "application"}
    /\ engine' = "failed"
    /\ UNCHANGED <<vars, listeners, emit, since, heard, thrown>>

\* Initialize returns true.
ApplicationReturns ==
    /\ engine = "application"
    /\ engine' = "ready"
    /\ UNCHANGED <<vars, listeners, emit, since, heard, thrown>>

\* run subscribes after Initialize.
ScriptSubscribe ==
    /\ engine = "ready"
    /\ Subscribe(Js)
    /\ since' = [c \in DOMAIN since |-> dispatched]
    /\ UNCHANGED <<engine, listeners, emit, heard, thrown>>

-----------------------------------------------------------------------------
(* The user's code, in the application or in a callback.                   *)

UserRuns == ~corrupt /\ (engine = "application" \/ emit.at > 0)

\* domoio.onAll(callback), on any Domoio the script has.
OnAll(i) ==
    /\ UserRuns
    /\ Len(since) < MaxCallbacks
    /\ i \in DOMAIN listeners
    /\ listeners' = [listeners EXCEPT ![i] = Append(@, Len(since) + 1)]
    /\ since' = Append(since, IF emit.at > 0 THEN current[Js] ELSE handled[Js])
    /\ heard' = Append(heard, <<>>)
    /\ UNCHANGED <<vars, engine, emit, thrown>>

\* require "domoio": the module's source runs again.
Require ==
    /\ UserRuns
    /\ Len(listeners) < MaxCopies
    /\ listeners' = Append(listeners, <<>>)
    /\ UNCHANGED <<vars, engine, emit, since, heard, thrown>>

-----------------------------------------------------------------------------
(* trigger_event: __emit_events and Domoio.emit.                           *)

Calls(place) ==
    heard' = [heard EXCEPT ![listeners[1][place]] = Append(@, current[Js])]

\* The end of trigger_event, with or without an exception.
EmitEnds ==
    /\ FinishEvent(Js)
    /\ emit' = [at |-> 0, length |-> 0]
    /\ UNCHANGED <<engine, callbackVars, heard>>

\* JSON.parse, the device of the event, and the loop over the callbacks, whose
\* end is settled here.
Emit ==
    /\ ~corrupt
    /\ pc[Js] = "handling" /\ emit.at = 0
    /\ IF listeners[1] = <<>>
       THEN EmitEnds
       ELSE /\ Calls(1)
            /\ emit' = [at |-> 1, length |-> Len(listeners[1])]
            /\ UNCHANGED <<vars, engine, callbackVars>>
    /\ UNCHANGED thrown

\* Deviation: the loop looks at the list's length each time.
CallbackReturnsToAll ==
    /\ ~corrupt
    /\ emit.at > 0
    /\ IF emit.at = Len(listeners[1])
       THEN EmitEnds
       ELSE /\ Calls(emit.at + 1)
            /\ emit' = [emit EXCEPT !.at = @ + 1]
            /\ UNCHANGED <<vars, engine, callbackVars>>
    /\ UNCHANGED thrown

\* A callback returns: the next one, or the end of the event.
CallbackReturns ==
    /\ ~corrupt
    /\ emit.at > 0
    /\ IF emit.at = emit.length
       THEN EmitEnds
       ELSE /\ Calls(emit.at + 1)
            /\ emit' = [emit EXCEPT !.at = @ + 1]
            /\ UNCHANGED <<vars, engine, callbackVars>>
    /\ UNCHANGED thrown

\* A callback throws, as one that reads event.device.label does for a device
\* which is not in the framework's snapshot.
CallbackThrows ==
    /\ emit.at > 0
    /\ Cardinality(thrown) < MaxThrows
    /\ thrown' = thrown \cup {[event |-> current[Js], at |-> emit.at]}
    /\ EmitEnds

-----------------------------------------------------------------------------

\* The event service, and the listeners that are not the engine.
BusAlone ==
    /\ \/ Send \/ Stop \/ Join \/ Start
       \/ Dispatch \/ PushBack \/ Lock \/ Notify
       \/ \E l \in Listeners :
             \/ Acquire(l) \/ FindEmpty(l) \/ Wait(l)
             \/ SpuriousWakeup(l) \/ Take(l) \/ TakeCorrupts(l)
       \/ \E l \in Listeners \ {Js} : Subscribe(l) \/ FinishEvent(l)
    /\ UNCHANGED scriptVars

ScriptStep == Emit \/ CallbackReturns \/ CallbackThrows

ScriptNext ==
    \/ BusAlone
    \/ LoadFramework \/ LoadFails \/ ApplicationReturns \/ ScriptSubscribe
    \/ \E i \in DOMAIN listeners : OnAll(i)
    \/ Require
    \/ Emit \/ CallbackReturns \/ CallbackThrows

allVars == <<vars, scriptVars>>

\* As EventBus!Fairness; that of FinishEvent(Js) becomes: the callbacks return.
ScriptFairness ==
    /\ WF_vars(Join) /\ WF_vars(Dispatch) /\ WF_vars(PushBack) /\ WF_vars(Notify)
    /\ SF_vars(Lock)
    /\ \A l \in Listeners : SF_vars(Acquire(l))
    /\ \A l \in Listeners \ {Js} :
          WF_vars(FindEmpty(l) \/ Wait(l) \/ Take(l) \/ FinishEvent(l))
    /\ WF_vars(FindEmpty(Js) \/ Wait(Js) \/ Take(Js))
    /\ WF_allVars(ScriptStep)

ScriptSpec == ScriptInit /\ [][ScriptNext]_allVars /\ ScriptFairness

-----------------------------------------------------------------------------

ScriptTypeOK ==
    /\ engine \in {"starting", "application", "ready", "failed"}
    /\ listeners \in Seq(Seq(1 .. MaxCallbacks))
    /\ emit \in [at : Nat, length : Nat]
    /\ emit.at > 0 => pc[Js] = "handling" /\ engine = "ready"
    /\ since \in Seq(Nat) /\ heard \in Seq(Seq(Nat))
    /\ Len(since) = Len(heard)
    /\ thrown \subseteq [event : Nat, at : Nat]

\* A callback that was registered with the Domoio of application.js hears each
\* event the engine handles from then on, in order and once (domoio.coffee:20-21),
\* but for those in which a callback before it throws: another one that throws
\* after it, registers or requires changes nothing.  With another Domoio it
\* hears nothing at all (application.js:53-57).
CallbacksHearEvents ==
    \A i \in DOMAIN listeners : \A place \in DOMAIN listeners[i] :
        LET c     == listeners[i][place]
            begun == IF place <= emit.at THEN current[Js] ELSE handled[Js]
            Spoilt(n) == \E t \in thrown : t.event = n /\ t.at < place
        IN  /\ \A j, k \in DOMAIN heard[c] : j < k => heard[c][j] < heard[c][k]
            /\ {heard[c][j] : j \in DOMAIN heard[c]} =
                 IF i = 1 THEN {n \in since[c] + 1 .. begun : ~Spoilt(n)} ELSE {}

=============================================================================
