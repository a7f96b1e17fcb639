----------------------------- MODULE JQueryAjax -----------------------------
(***************************************************************************)
(* $.ajax, by which the web client talks to the REST API, with the         *)
(* transport over XMLHttpRequest (web/lib/js/jquery-2.1.3.js:7807-8286,    *)
(* 8514-8641).  The object that $.ajax returns is a deferred of            *)
(* JQueryDeferred.                                                         *)
(*                                                                         *)
(* Both ajax() and its inner function done call functions of the page in   *)
(* the middle: prefilters, beforeSend, handlers of the global events.      *)
(* Such a call is the frame "hook", and at says where.  The functions      *)
(* given as the options success, error and complete are added after        *)
(* beforeSend, where a handler of ajaxSend may add one in this model.      *)
(*                                                                         *)
(* Requests are asynchronous and global.  What the data types a request    *)
(* asks for and the answer it gets come to is the reply of AjaxConversion; *)
(* an error that is passed on leaves done in the middle.                   *)
(* twice is history: the requests whose done has run to its end again.     *)
(***************************************************************************)
EXTENDS JQueryDeferred, AjaxConversion

CONSTANT Requests

ASSUME AjaxAssumption == Requests \subseteq Deferreds

VARIABLES
    phase,      \* "new", or the state of the jqXHR: 0, 1 and 2
    transport,  \* the transport is there to be aborted
    xhr,        \* its XMLHttpRequest
    timer,      \* the timeout is running
    counted,    \* fireGlobals: the request has been counted in active
    status,     \* the function given with statusCode, or 0
    active,     \* jQuery.active
    twice

ajaxVars == <<phase, transport, xhr, timer, counted, status, active, twice>>
vars == <<deferredVars, ajaxVars>>

Hooks == {"prefilter", "ajaxStart", "beforeSend", "ajaxSend", "ajaxSettled",
          "ajaxComplete", "ajaxStop"}

HookFrame(r, at) == [code |-> "hook", at |-> at, request |-> r]
\* done, between the settlement and the functions of statusCode.
StatusFrame(r) == [code |-> "status", request |-> r]
\* done, between the list complete and the end.
CloseFrame(r) == [code |-> "close", request |-> r]

TypeOK ==
    /\ DeferredTypeOK
    /\ \A i \in DOMAIN frames :
          /\ frames[i].code \in {"fire", "callback", "hook", "status", "close"}
          /\ frames[i].code \in {"hook", "status", "close"} => frames[i].request \in Requests
          /\ frames[i].code = "hook" => frames[i].at \in Hooks
    /\ phase \in [Requests -> {"new", "setup", "sent", "done"}]
    /\ transport \in [Requests -> BOOLEAN]
    /\ xhr \in [Requests -> {"none", "listening", "off"}]
    /\ timer \in [Requests -> BOOLEAN]
    /\ counted \in [Requests -> BOOLEAN]
    /\ status \in [Requests -> 0 .. MaxObjects]
    /\ active \in Int
    /\ twice \in SUBSET Requests

Init ==
    /\ DeferredInit({})
    /\ phase = [r \in Requests |-> "new"]
    /\ transport = [r \in Requests |-> FALSE]
    /\ xhr = [r \in Requests |-> "none"]
    /\ timer = [r \in Requests |-> FALSE]
    /\ counted = [r \in Requests |-> FALSE]
    /\ status = [r \in Requests |-> 0]
    /\ active = 0
    /\ twice = {}

AtHook(r, at) == On("hook") /\ Top = HookFrame(r, at)

\* What a step of ajax() or done leaves alone.
quietVars == <<state, remaining, follows, called, threw>>

-----------------------------------------------------------------------------
(* done                                                                    *)

\* done, after the functions of statusCode: ajaxSuccess or ajaxError.
SettledFrame(r) == IF counted[r] THEN HookFrame(r, "ajaxSettled") ELSE CloseFrame(r)

AfterSettling(r) == <<IF status[r] = 0 THEN SettledFrame(r) ELSE StatusFrame(r)>>

\* Deviation: does not look whether it has run.
DoneAgain(r, ok, rest) ==
    /\ phase' = [phase EXCEPT ![r] = "done"]
    /\ timer' = [timer EXCEPT ![r] = FALSE]
    /\ transport' = [transport EXCEPT ![r] = FALSE]
    /\ FireWith(lists, <<r, IF ok THEN "done" ELSE "fail">>,
                AfterSettling(r) \o rest)

\* Deviation: the functions of the outcome run when done has run to its end.
DoneThenSettles(r, ok, rest) ==
    LET id == <<r, IF ok THEN "done" ELSE "fail">>
    IN  IF phase[r] = "done"
        THEN frames' = rest /\ UNCHANGED <<lists, phase, timer, transport>>
        ELSE /\ phase' = [phase EXCEPT ![r] = "done"]
             /\ timer' = [timer EXCEPT ![r] = FALSE]
             /\ transport' = [transport EXCEPT ![r] = FALSE]
             /\ lists' = [lists EXCEPT ![id] = Started(@, 1)]
             /\ frames' = AfterSettling(r) \o <<FireFrame(id)>> \o rest

\* done( status, ... ), called by the code whose frames are rest: the settlement.
Done(r, ok, rest) ==
    IF phase[r] = "done"
    THEN frames' = rest /\ UNCHANGED <<lists, phase, timer, transport>>
    ELSE /\ phase' = [phase EXCEPT ![r] = "done"]
         /\ timer' = [timer EXCEPT ![r] = FALSE]
         /\ transport' = [transport EXCEPT ![r] = FALSE]
         /\ FireWith(lists, <<r, IF ok THEN "done" ELSE "fail">>,
                     AfterSettling(r) \o rest)

\* jqXHR.statusCode( statusCode ): always(fn) for the status there is.
CallsStatus(r) ==
    /\ On("status") /\ Top.request = r
    /\ AddAll([id \in Outcomes(r) |-> User(status[r])], <<SettledFrame(r)>> \o Below)
    /\ Registers(Outcomes(r), status[r])
    /\ status' = [status EXCEPT ![r] = 0]
    /\ UNCHANGED <<quietVars, made, parts, functions, phase, transport, xhr, timer,
                   counted, active, twice>>

SettledHandled(r) ==
    /\ AtHook(r, "ajaxSettled")
    /\ frames' = <<CloseFrame(r)>> \o Below
    /\ UNCHANGED <<lists, quietVars, givenVars, ajaxVars>>

\* completeDeferred.fireWith, then ajaxComplete.
Completes(r) ==
    /\ On("close") /\ Top.request = r
    /\ FireWith(lists, <<r, "complete">>,
                IF counted[r] THEN <<HookFrame(r, "ajaxComplete")>> \o Below ELSE Below)
    /\ UNCHANGED <<quietVars, givenVars, ajaxVars>>

\* --jQuery.active, and ajaxStop for the last request.
Uncounts(r) ==
    /\ AtHook(r, "ajaxComplete")
    /\ active' = active - 1
    /\ frames' = IF active = 1 THEN <<HookFrame(r, "ajaxStop")>> \o Below ELSE Below
    /\ UNCHANGED <<lists, quietVars, givenVars, phase, transport, xhr, timer,
                   counted, status, twice>>

StopHandled(r) ==
    /\ AtHook(r, "ajaxStop")
    /\ frames' = Below
    /\ UNCHANGED <<lists, quietVars, givenVars, ajaxVars>>

-----------------------------------------------------------------------------
(* ajax                                                                    *)

\* Requests differ in nothing but the order in which they are made.
IsNext(r) == phase[r] = "new" /\ r = CHOOSE q \in Requests : phase[q] = "new"

\* $.ajax: up to the prefilters.
AjaxCall(r) ==
    /\ PageRuns /\ IsNext(r) /\ Room(1)
    /\ phase' = [phase EXCEPT ![r] = "setup"]
    /\ made' = made \cup {r}
    /\ frames' = <<HookFrame(r, "prefilter")>> \o frames
    /\ UNCHANGED <<lists, quietVars, parts, functions, registered, transport, xhr,
                   timer, counted, status, active, twice>>

\* The prefilters return.  A request that one of them aborted ends here;
\* another is counted, and the first starts a set.
Prefiltered(r) ==
    /\ AtHook(r, "prefilter")
    /\ IF phase[r] = "done" THEN frames' = Below /\ UNCHANGED <<counted, active>>
       ELSE /\ counted' = [counted EXCEPT ![r] = TRUE]
            /\ active' = active + 1
            /\ frames' = <<HookFrame(r, IF active = 0 THEN "ajaxStart" ELSE "beforeSend")>>
                         \o Below
    /\ UNCHANGED <<lists, quietVars, givenVars, phase, transport, xhr, timer,
                   status, twice>>

StartHandled(r) ==
    /\ AtHook(r, "ajaxStart")
    /\ frames' = <<HookFrame(r, "beforeSend")>> \o Below
    /\ UNCHANGED <<lists, quietVars, givenVars, ajaxVars>>

\* beforeSend returns false, or has aborted the request: jqXHR.abort().  Or no
\* transport will have it.
NotSent(r) ==
    /\ AtHook(r, "beforeSend")
    /\ Done(r, FALSE, Below)
    /\ UNCHANGED <<quietVars, givenVars, xhr, counted, status, active, twice>>

\* Otherwise there is a transport, and ajaxSend is triggered.
ReadyToSend(r) ==
    /\ AtHook(r, "beforeSend")
    /\ phase[r] = "setup"
    /\ transport' = [transport EXCEPT ![r] = TRUE]
    /\ frames' = <<HookFrame(r, "ajaxSend")>> \o Below
    /\ UNCHANGED <<lists, quietVars, givenVars, phase, xhr, timer, counted, status,
                   active, twice>>

\* state = 1, the timeout, transport.send.
Sent(r) ==
    /\ AtHook(r, "ajaxSend")
    /\ transport[r]
    /\ phase' = [phase EXCEPT ![r] = "sent"]
    /\ xhr' = [xhr EXCEPT ![r] = "listening"]
    /\ \E t \in BOOLEAN : timer' = [timer EXCEPT ![r] = t]
    /\ frames' = Below
    /\ UNCHANGED <<lists, quietVars, givenVars, transport, counted, status, active,
                   twice>>

\* open or send of the XMLHttpRequest throws: done( -1, e ).  The timeout that
\* was set is cleared again.
SendThrows(r) ==
    /\ AtHook(r, "ajaxSend")
    /\ transport[r]
    /\ Done(r, FALSE, Below)
    /\ UNCHANGED <<quietVars, givenVars, xhr, counted, status, active, twice>>

\* A handler of ajaxSend has aborted the request.  state is 1 again, send of the
\* transport that is gone throws, and done, which sees state 1, runs once more.
SendsNothing(r) ==
    /\ AtHook(r, "ajaxSend")
    /\ ~transport[r]
    /\ twice' = twice \cup {r}
    /\ FireWith(lists, <<r, "fail">>, AfterSettling(r) \o Below)
    /\ UNCHANGED <<quietVars, givenVars, phase, transport, xhr, timer, counted,
                   status, active>>

-----------------------------------------------------------------------------
(* The jqXHR in the hands of the page, and the browser.                    *)

\* Deviation: done, and not a word to the transport.
AbortKeepsRequest(r) ==
    /\ PageRuns /\ phase[r] \in {"setup", "sent"}
    /\ Done(r, FALSE, frames)
    /\ UNCHANGED <<quietVars, givenVars, xhr, counted, status, active, twice>>

\* Deviation: the transport lets go, and done is left to an event of its own.
AbortWaits(r) ==
    /\ PageRuns /\ phase[r] \in {"setup", "sent"}
    /\ IF phase[r] = "sent" THEN UNCHANGED <<lists, frames, phase, timer, transport>>
                            ELSE Done(r, FALSE, frames)
    /\ xhr' = [xhr EXCEPT ![r] = IF transport[r] /\ @ = "listening" THEN "off" ELSE @]
    /\ UNCHANGED <<quietVars, givenVars, counted, status, active, twice>>

\* abort(): the transport lets go of its XMLHttpRequest.
Abort(r) ==
    /\ PageRuns /\ phase[r] \in {"setup", "sent"}
    /\ Done(r, FALSE, frames)
    /\ xhr' = [xhr EXCEPT ![r] = IF transport[r] /\ @ = "listening" THEN "off" ELSE @]
    /\ UNCHANGED <<quietVars, givenVars, counted, status, active, twice>>

\* The timeout: jqXHR.abort("timeout").
Timeout(r) ==
    /\ Idle /\ timer[r]
    /\ Done(r, FALSE, <<>>)
    /\ xhr' = [xhr EXCEPT ![r] = IF transport[r] /\ @ = "listening" THEN "off" ELSE @]
    /\ UNCHANGED <<quietVars, givenVars, counted, status, active, twice>>

\* onload or onerror of the XMLHttpRequest.
Answered(r, ok) ==
    /\ Idle /\ xhr[r] = "listening"
    /\ xhr' = [xhr EXCEPT ![r] = "off"]
    /\ Done(r, ok, <<>>)
    /\ UNCHANGED <<quietVars, givenVars, counted, status, active, twice>>

\* The conversion throws: the request is done and nobody hears of it.
AnswerThrows(r) ==
    /\ Idle /\ xhr[r] = "listening"
    /\ "throws" \in Replies
    /\ xhr' = [xhr EXCEPT ![r] = "off"]
    /\ phase' = [phase EXCEPT ![r] = "done"]
    /\ timer' = [timer EXCEPT ![r] = FALSE]
    /\ transport' = [transport EXCEPT ![r] = FALSE]
    /\ threw' = TRUE
    /\ UNCHANGED <<lists, frames, state, remaining, follows, called, givenVars, counted,
                   status, active, twice>>

\* statusCode(map), while the request runs.  Later it is always(fn).
StatusCode(r) ==
    /\ PageAdds /\ phase[r] \in {"setup", "sent"} /\ status[r] = 0
    /\ MakesFn
    /\ status' = [status EXCEPT ![r] = NewFn]
    /\ UNCHANGED <<lists, frames, quietVars, made, parts, registered, phase,
                   transport, xhr, timer, counted, active, twice>>

-----------------------------------------------------------------------------

\* Whether a reply makes success or error.
Heard == {Succeeds(reply) : reply \in Replies \ {"throws"}}

AjaxStep ==
    \E r \in Requests :
        \/ CallsStatus(r) \/ SettledHandled(r) \/ Completes(r) \/ Uncounts(r)
        \/ StopHandled(r) \/ Prefiltered(r) \/ StartHandled(r) \/ NotSent(r)
        \/ ReadyToSend(r) \/ Sent(r) \/ SendThrows(r) \/ SendsNothing(r)

PageStep ==
    \/ \E d \in Deferreds : \E k \in {"done", "fail"} : Add(d, k)
    \/ \E r \in Requests : Add(r, "complete")
    \/ \E d \in Deferreds : Always(d)
    \/ \E d \in Deferreds, t \in Deferreds \ Requests : ThenCall(d, t)
    \/ \E m \in Deferreds \ Requests, ds \in SUBSET Deferreds : When(m, ds)
    \/ \E p \in Deferreds : ReturnsPromise(p)
    \/ Throw

Next ==
    \/ DeferredStep /\ UNCHANGED ajaxVars
    \/ PageStep /\ UNCHANGED ajaxVars
    \/ AjaxStep
    \/ \E r \in Requests : AjaxCall(r) \/ Abort(r) \/ Timeout(r) \/ StatusCode(r)
    \/ \E r \in Requests, ok \in Heard : Answered(r, ok)
    \/ \E r \in Requests : AnswerThrows(r)

\* What runs goes on: functions of the page return.  The browser ends every
\* XMLHttpRequest with load or error.
Fairness ==
    /\ WF_vars((DeferredStep /\ UNCHANGED ajaxVars) \/ AjaxStep)
    /\ \A r \in Requests : WF_vars(\E ok \in Heard : Answered(r, ok))

Spec == Init /\ [][Next]_vars /\ Fairness

-----------------------------------------------------------------------------
(* Properties.                                                             *)

\* "Counter for holding the number of active queries" (:7809): with nothing
\* running, active is the number of requests that ajaxStart knows of and that
\* are not done.  A request aborted in ajaxSend is taken off twice, and a
\* function that throws may leave its request counted.
ActiveCounts ==
    Idle /\ ~threw =>
        active = Cardinality({r \in Requests : counted[r] /\ phase[r] # "done"})
                 - Cardinality(twice)

\* complete comes after success and error: when its list starts, the list of the
\* outcome has called every function it was given, also those that its functions
\* and statusCode added on the way (:8242-8268).
CompleteComesLast ==
    [][\A r \in Requests :
         ~lists[<<r, "complete">>].fired /\ lists'[<<r, "complete">>].fired
           => \E id \in Outcomes(r) :
                 Kept(id) /\ (called[id] = registered[id] \/ threw)]_vars

\* No XMLHttpRequest reports to a request that is done, aborted or timed out:
\* without it done would see a late answer (:8179 is the second line of defence).
NoLateAnswer ==
    \A r \in Requests : xhr[r] = "listening" => phase[r] = "sent"

\* Whatever text a request is answered with, and whichever data types it asks for:
\* success is called with data of the form the page asked for, each converter is
\* given what it takes, and "parsererror" is said only of a text that does not
\* parse as a data type that has to be made of it, or of two data types with no way
\* of two converters between them (:7727-7790, "No conversion from").  A check of
\* the conversion over all options and answers: that a request is listening only says
\* when it is made.
ConversionIsRight == \A r \in Requests : xhr[r] = "listening" => Mistaken = {}

\* Every request comes to its end and calls complete, however it is aborted,
\* answered or refused, unless a function of the page throws.
EveryRequestEnds ==
    <>[](threw \/ \A r \in Requests : phase[r] # "new" => lists[<<r, "complete">>].fired)
=============================================================================
