---------------------------- MODULE JQueryEffects ----------------------------
(***************************************************************************)
(* jQuery's fx queue and its animations                                    *)
(* (web/lib/js/jquery-2.1.3.js:3868-4008, 6343-6907).                      *)
(*                                                                         *)
(* An element keeps a queue in its private data.  The function at its head *)
(* runs, with the sentinel "inprogress" in its place, until it calls       *)
(* dequeue.  An animation is a deferred with a function in jQuery.timers,  *)
(* which one interval runs; its complete function, which the page gives,   *)
(* ends in dequeue.  stop, finish and tick walk over jQuery.timers and     *)
(* call functions of the page on the way, which may change it under them.  *)
(*                                                                         *)
(* Time is left out: an animation that runs for a while may end at any     *)
(* tick, one without a duration ends at once.  Left out are queues of      *)
(* other names, animations with queue: false, empty ones, what tweens do,  *)
(* and the functions start and step.                                       *)
(***************************************************************************)
EXTENDS JQueryDeferred

CONSTANTS
    Elems,
    Anims,     \* the deferreds that belong to animations
    MaxCalls   \* bounds what the page calls

\* An animation's deferred is not a promise, nor one of the names a queue may hold.
ASSUME EffectsAssumption ==
    /\ Anims \subseteq Deferreds /\ Anims \cap (Counted \cup {"delay", "inprogress"}) = {}
    /\ IsFiniteSet(Elems) /\ MaxCalls \in Nat

VARIABLES
    data,      \* what an element keeps in its private data
    timers,    \* jQuery.timers
    interval,  \* timerId: the interval runs
    timeouts,  \* the timeouts of delay that run, for each element
    target,    \* animations the page has asked for, with their elements
    instant,   \* those of them that have no duration
    stopped,   \* the animations on which stop was called
    calls,     \* what the page has called so far
    lost,      \* history: running animations that a splice took for another
    dropped,   \* history: promises whose element lost its data
    forgotten  \* history: elements whose queue finish has emptied, with no
               \* dequeue since

effectVars == <<data, timers, interval, timeouts, target, instant, stopped,
                calls, lost, dropped, forgotten>>
vars == <<deferredVars, effectVars>>

Asked == DOMAIN target

\* hooks: there are queueHooks; stop: their member stop, with the timeout it
\* clears; waiters: the functions of promises in their list empty.
NoData == [queue |-> <<>>, hooks |-> FALSE, stop |-> "none", waiters |-> <<>>,
           finish |-> FALSE]

DequeueFrame(e) == [code |-> "dequeue", elem |-> e]
EmptyFrame(ps) == [code |-> "empty", waiters |-> ps]
BeginFrame(a) == [code |-> "begin", anim |-> a]
AttachFrame(a) == [code |-> "attach", anim |-> a]
BegunFrame(a) == [code |-> "begun", anim |-> a]
\* The loop of tick at index i; in the middle of the timer there; after it.
TickFrame(i) == [code |-> "tick", at |-> i]
TimerFrame(i, a) == [code |-> "timer", at |-> i, anim |-> a]
TickedFrame(i, a) == [code |-> "ticked", at |-> i, anim |-> a]
\* stop before its loop; the loop of stop or finish at index i, and before its
\* splice; the old queue of finish.
StopFrame(e, g) == [code |-> "stop", elem |-> e, gotoEnd |-> g]
LoopFrame(e, g, i, dq) ==
    [code |-> "loop", elem |-> e, gotoEnd |-> g, at |-> i, dequeue |-> dq]
SpliceFrame(e, g, i, a) ==
    [code |-> "splice", elem |-> e, gotoEnd |-> g, at |-> i, anim |-> a]
FinishFrame(e, q) == [code |-> "finish", elem |-> e, rest |-> q]

EffectCodes == {"fire", "callback", "dequeue", "empty", "begin", "attach", "begun",
                "tick", "timer", "ticked", "stop", "loop", "splice", "finish"}

TypeOK ==
    /\ DeferredTypeOK
    /\ \A i \in DOMAIN frames : frames[i].code \in EffectCodes
    /\ \A e \in Elems :
          /\ data[e].queue \in Seq(Anims \cup {"delay", "inprogress"})
          /\ data[e].stop \in {"none", "runs", "cleared"}
          /\ data[e].waiters \in Seq(Deferreds)
    /\ timers \in Seq(Anims)
    /\ interval \in BOOLEAN
    /\ timeouts \in [Elems -> Nat]
    /\ Asked \subseteq Anims /\ \A a \in Asked : target[a] \in Elems
    /\ instant \subseteq Asked /\ stopped \subseteq Asked
    /\ calls \in 0 .. MaxCalls
    /\ lost \subseteq Asked /\ dropped \subseteq Deferreds /\ forgotten \subseteq Elems

Init ==
    /\ DeferredInit({})
    /\ data = [e \in Elems |-> NoData]
    /\ timers = <<>>
    /\ interval = FALSE
    /\ timeouts = [e \in Elems |-> 0]
    /\ target = <<>>
    /\ instant = {}
    /\ stopped = {}
    /\ calls = 0
    /\ lost = {}
    /\ dropped = {}
    /\ forgotten = {}

\* What no step of an animation or of a queue changes.
stillVars == <<parts, functions, registered, state, follows, called>>

\* A function of the page, or an event handler, calls.
PageCalls == PageRuns /\ calls < MaxCalls /\ calls' = calls + 1

-----------------------------------------------------------------------------
(* The queue.                                                              *)

Sentinel(q) == q # <<>> /\ Head(q) = "inprogress"

\* dequeue, called by the code whose frames are Below.
Dequeue ==
    LET e == Top.elem
        q == data[e].queue
        left == IF Sentinel(q) THEN Tail(q) ELSE q
        fn == Head(left)
        delay == left # <<>> /\ fn = "delay"
    IN  /\ On("dequeue")
        /\ IF left = <<>>
           THEN \* hooks.empty.fire
                /\ data' = [data EXCEPT ![e] = [NoData EXCEPT !.finish = data[e].finish]]
                /\ frames' = <<EmptyFrame(data[e].waiters)>> \o Below
           ELSE /\ data' = [data EXCEPT ![e].queue = <<"inprogress">> \o Tail(left),
                                        ![e].hooks = TRUE,
                                        ![e].stop = IF delay THEN "runs" ELSE "none"]
                /\ frames' = (IF delay THEN <<>> ELSE <<BeginFrame(fn)>>) \o Below
        /\ timeouts' = [timeouts EXCEPT ![e] = IF delay THEN @ + 1 ELSE @]
        /\ forgotten' = forgotten \ {e}
        /\ UNCHANGED <<stillVars, lists, made, remaining, threw, timers, interval,
                       target, instant, stopped, calls, lost, dropped>>

\* resolve of the promises that waited for the queue to be empty.
Empties ==
    /\ On("empty")
    /\ IF Top.waiters = <<>>
       THEN frames' = Below /\ UNCHANGED <<lists, remaining>>
       ELSE LET p == Head(Top.waiters)
                rest == <<EmptyFrame(Tail(Top.waiters))>> \o Below
            IN  /\ remaining' = [remaining EXCEPT ![p] = @ - 1]
                /\ IF remaining[p] = 1 THEN FireWith(lists, <<p, "done">>, rest)
                                       ELSE frames' = rest /\ UNCHANGED lists
    /\ UNCHANGED <<stillVars, made, threw, effectVars>>

\* queue(item), and what it calls.
Queues(e, item) ==
    /\ data' = [data EXCEPT ![e].queue = Append(@, item), ![e].hooks = TRUE]
    /\ frames' = (IF Sentinel(data[e].queue) THEN <<>> ELSE <<DequeueFrame(e)>>) \o frames

\* animate, with a complete function: the queue of animations is in the order of
\* Anims.
Animate(e, a) ==
    /\ PageCalls /\ a \notin Asked /\ a = CHOOSE b \in Anims \ Asked : TRUE
    /\ Queues(e, a)
    /\ target' = [b \in Asked \cup {a} |-> IF b = a THEN e ELSE target[b]]
    /\ \E now \in BOOLEAN : instant' = IF now THEN instant \cup {a} ELSE instant
    /\ UNCHANGED <<stillVars, lists, made, remaining, threw, timers, interval,
                   timeouts, stopped, lost, dropped, forgotten>>

\* delay: a function that starts a timeout.
Delay(e) ==
    /\ PageCalls
    /\ Queues(e, "delay")
    /\ UNCHANGED <<stillVars, lists, made, remaining, threw, timers, interval, timeouts,
                   target, instant, stopped, lost, dropped, forgotten>>

\* next, which the timeout of a delay calls.
TimeoutFires(e) ==
    /\ Idle /\ timeouts[e] > 0
    /\ timeouts' = [timeouts EXCEPT ![e] = @ - 1]
    /\ frames' = <<DequeueFrame(e)>>
    /\ UNCHANGED <<stillVars, lists, made, remaining, threw, data, timers, interval,
                   target, instant, stopped, calls, lost, dropped, forgotten>>

\* The elements that have queueHooks.
Busy(es) == {e \in es : data[e].hooks}

\* promise() of some elements.
Promise(p, es) ==
    /\ PageCalls /\ p \in Counted \ made /\ Room(1)
    /\ made' = made \cup {p}
    /\ LET busy == Busy(es)
       IN  /\ remaining' = [remaining EXCEPT ![p] = Cardinality(busy)]
           /\ data' = [e \in Elems |-> IF e \in busy
                                       THEN [data[e] EXCEPT !.waiters = Append(@, p)]
                                       ELSE data[e]]
           /\ IF busy = {} THEN FireWith(lists, <<p, "done">>, frames)
                           ELSE UNCHANGED <<lists, frames>>
    /\ UNCHANGED <<stillVars, threw, timers, interval, timeouts, target, instant,
                   stopped, lost, dropped, forgotten>>

-----------------------------------------------------------------------------
(* An animation.                                                           *)

\* deferred.notifyWith, when the list progress holds no function yet.
Notified(l) == [l EXCEPT !.memory = TRUE, !.fired = TRUE]

\* doAnimation and Animation, with the first run of the timer.
Begin ==
    LET a == Top.anim
        rest == <<AttachFrame(a)>> \o Below
        ran == [lists EXCEPT ![<<a, "progress">>] = Notified(@)]
    IN  /\ On("begin")
        /\ made' = made \cup {a}
        /\ IF a \in instant
           THEN FireWith(ran, <<a, "done">>, rest) /\ UNCHANGED <<timers, interval>>
           ELSE /\ timers' = Append(timers, a)
                /\ interval' = TRUE
                /\ lists' = ran
                /\ frames' = rest
        /\ UNCHANGED <<stillVars, remaining, threw, data, timeouts, target, instant,
                       stopped, calls, lost, dropped, forgotten>>

\* done(complete).
Attach ==
    /\ On("attach")
    /\ AddAll([id \in {<<Top.anim, "done">>} |-> Internal("complete")],
              <<BegunFrame(Top.anim)>> \o Below)
    /\ UNCHANGED <<stillVars, made, remaining, threw, effectVars>>

\* animation.stop, called by code whose frames are rest.
AnimStop(a, gotoEnd, rest) ==
    IF a \in stopped THEN frames' = rest /\ UNCHANGED <<lists, stopped>>
    ELSE /\ stopped' = stopped \cup {a}
         /\ FireWith(lists, <<a, IF gotoEnd THEN "done" ELSE "fail">>, rest)

\* The end of doAnimation, which finish may have called or waited for.
Begun ==
    /\ On("begun")
    /\ IF data[target[Top.anim]].finish THEN AnimStop(Top.anim, TRUE, Below)
                                        ELSE frames' = Below /\ UNCHANGED <<lists, stopped>>
    /\ UNCHANGED <<stillVars, made, remaining, threw, data, timers, interval, timeouts,
                   target, instant, calls, lost, dropped, forgotten>>

\* opt.complete: the function of the page, then dequeue.
Complete ==
    /\ On("fire") /\ HasNext /\ NextEntry = Internal("complete")
    /\ lists' = Stepped
    /\ frames' = <<CallFrame(Firing, NoDeferred), DequeueFrame(target[Firing[1]])>> \o frames
    /\ UNCHANGED <<stillVars, made, remaining, threw, effectVars>>

-----------------------------------------------------------------------------
(* The interval.                                                           *)

\* Bound: a list of progress that a throw has left firing for ever counts the ticks.
Tick ==
    /\ Idle /\ interval
    /\ \A a \in Anims : lists[<<a, "progress">>].queued < MaxObjects
    /\ frames' = <<TickFrame(1)>>
    /\ UNCHANGED <<stillVars, lists, made, remaining, threw, effectVars>>

\* The next timer is called, and notifies; after the last one the interval may
\* be cleared.
TickNext ==
    LET i == Top.at
        a == timers[i]
    IN  /\ On("tick")
        /\ IF i > Len(timers)
           THEN /\ interval' = (interval /\ timers # <<>>)
                /\ frames' = Below
                /\ UNCHANGED lists
           ELSE /\ UNCHANGED interval
                /\ IF a \in stopped
                   THEN frames' = <<TickedFrame(i, a)>> \o Below /\ UNCHANGED lists
                   ELSE FireWith(lists, <<a, "progress">>, <<TimerFrame(i, a)>> \o Below)
        /\ UNCHANGED <<stillVars, made, remaining, threw, data, timers, timeouts, target,
                       instant, stopped, calls, lost, dropped, forgotten>>

\* Its time is not over.
GoesOn ==
    /\ On("timer")
    /\ frames' = <<TickFrame(Top.at + 1)>> \o Below
    /\ UNCHANGED <<stillVars, lists, made, remaining, threw, effectVars>>

\* Its time is over: resolveWith, whatever progress functions have done to it.
Expires(a) ==
    /\ On("timer") /\ Top.anim = a
    /\ FireWith(lists, <<a, "done">>, <<TickedFrame(Top.at, a)>> \o Below)
    /\ UNCHANGED <<stillVars, made, remaining, threw, effectVars>>

\* Deviation: takes out what is at the index now.
TickedAtIndex ==
    LET i == Top.at
    IN  /\ On("ticked")
        /\ timers' = RemoveAt(timers, i)
        /\ frames' = <<TickFrame(i)>> \o Below
        /\ lost' = lost
        /\ UNCHANGED <<stillVars, lists, made, remaining, threw, data, interval, timeouts,
                       target, instant, stopped, calls, dropped, forgotten>>

\* "Checks the timer has not already been removed".
Ticked ==
    LET i == Top.at
        there == i <= Len(timers) /\ timers[i] = Top.anim
    IN  /\ On("ticked")
        /\ timers' = IF there THEN RemoveAt(timers, i) ELSE timers
        /\ frames' = <<TickFrame(IF there THEN i ELSE i + 1)>> \o Below
        /\ UNCHANGED <<stillVars, lists, made, remaining, threw, data, interval, timeouts,
                       target, instant, stopped, calls, lost, dropped, forgotten>>

-----------------------------------------------------------------------------
(* stop and finish.                                                        *)

\* Deviation: empties the queue and tells nobody.
ClearedOnly(e, rest) ==
    /\ data' = [data EXCEPT ![e].queue = <<>>, ![e].hooks = TRUE]
    /\ frames' = rest

\* clearQueue() and the first half of stop(true): queue(type, []), which finds no
\* sentinel in the new queue and calls dequeue.
Cleared(e, rest) ==
    /\ data' = [data EXCEPT ![e].queue = <<>>, ![e].hooks = TRUE]
    /\ frames' = <<DequeueFrame(e)>> \o rest

ClearQueue(e) ==
    /\ PageCalls
    /\ Cleared(e, frames)
    /\ UNCHANGED <<stillVars, lists, made, remaining, threw, timers, interval, timeouts,
                   target, instant, stopped, lost, dropped, forgotten>>

Stop(e, clear, gotoEnd) ==
    /\ PageCalls
    /\ LET rest == <<StopFrame(e, gotoEnd)>> \o frames
       IN  IF clear THEN Cleared(e, rest) ELSE frames' = rest /\ UNCHANGED data
    /\ UNCHANGED <<stillVars, lists, made, remaining, threw, timers, interval, timeouts,
                   target, instant, stopped, lost, dropped, forgotten>>

\* The timeout that hooks.stop clears.
TimeoutCleared(e) ==
    timeouts' = [timeouts EXCEPT ![e] = IF data[e].stop = "runs" THEN @ - 1 ELSE @]

\* stopQueue, which takes hooks.stop away.
StopQueue ==
    LET e == Top.elem
    IN  /\ On("stop")
        /\ TimeoutCleared(e)
        /\ data' = [data EXCEPT ![e].stop = "none"]
        /\ frames' = <<LoopFrame(e, Top.gotoEnd, Len(timers), TRUE)>> \o Below
        /\ UNCHANGED <<stillVars, lists, made, remaining, threw, timers, interval, target,
                       instant, stopped, calls, lost, dropped, forgotten>>

\* tick.elem is there until the animation has settled.
Animates(a, e) == target[a] = e /\ state[a] = "pending"

\* An animation of the element is queued, or runs.
HasAnimation(e) ==
    \/ \E a \in Anims : a \in Range(data[e].queue)
    \/ \E a \in Range(timers) : Animates(a, e)

\* finish: empties the queue, but lets nobody know: whoever waits for it depends on
\* the complete function of an animation, in timers or in the old queue.
Finish(e) ==
    /\ PageCalls
    /\ TimeoutCleared(e)
    /\ data' = [data EXCEPT ![e].finish = TRUE, ![e].queue = <<>>,
                            ![e].stop = IF @ = "none" THEN @ ELSE "cleared"]
    /\ frames' = <<LoopFrame(e, TRUE, Len(timers), FALSE),
                   FinishFrame(e, data[e].queue)>> \o frames
    /\ forgotten' = IF data[e].hooks /\ ~HasAnimation(e) THEN forgotten \cup {e} ELSE forgotten
    /\ UNCHANGED <<stillVars, lists, made, remaining, threw, timers, interval, target,
                   instant, stopped, lost, dropped>>

\* Deviation: leaves the queue alone after it has stopped an animation.
GoesOnIfNone(none, gotoEnd) == none

\* Whether stop calls dequeue: not when complete functions have.
CallsDequeue(none, gotoEnd) == none \/ ~gotoEnd

\* One round of the loop of stop and finish over jQuery.timers.  The array may
\* have shrunk below the index: timers[ index ].elem throws.
Loop ==
    LET e == Top.elem
        i == Top.at
        a == timers[i]
    IN  /\ On("loop")
        /\ IF i = 0
           THEN /\ frames' = (IF CallsDequeue(Top.dequeue, Top.gotoEnd)
                             THEN <<DequeueFrame(e)>> ELSE <<>>) \o Below
                /\ UNCHANGED <<lists, stopped, threw>>
           ELSE IF i > Len(timers)
           THEN frames' = <<>> /\ threw' = TRUE /\ UNCHANGED <<lists, stopped>>
           ELSE /\ UNCHANGED threw
                /\ IF Animates(a, e)
                   THEN AnimStop(a, Top.gotoEnd, <<SpliceFrame(e, Top.gotoEnd, i, a)>> \o Below)
                   ELSE /\ frames' = <<LoopFrame(e, Top.gotoEnd, i - 1, Top.dequeue)>> \o Below
                        /\ UNCHANGED <<lists, stopped>>
        /\ UNCHANGED <<stillVars, made, remaining, data, timers, interval, timeouts, target,
                       instant, calls, lost, dropped, forgotten>>

\* timers.splice( index, 1 ), whatever is there by now.
Splice ==
    LET i == Top.at
        gone == IF i <= Len(timers) THEN {timers[i]} ELSE {}
    IN  /\ On("splice")
        /\ timers' = IF gone = {} THEN timers ELSE RemoveAt(timers, i)
        /\ lost' = lost \cup {a \in gone : a # Top.anim}
        /\ frames' = <<LoopFrame(Top.elem, Top.gotoEnd, i - 1, FALSE)>> \o Below
        /\ UNCHANGED <<stillVars, lists, made, remaining, threw, data, interval, timeouts,
                       target, instant, stopped, calls, dropped, forgotten>>

\* The old queue, of which animations have a finish to call, and the end of finish.
FinishNext ==
    LET e == Top.elem
        item == Head(Top.rest)
    IN  /\ On("finish")
        /\ IF Top.rest = <<>>
           THEN /\ data' = [data EXCEPT ![e].finish = FALSE]
                /\ frames' = Below
           ELSE /\ frames' = (IF item \in Anims THEN <<BeginFrame(item)>> ELSE <<>>)
                             \o <<FinishFrame(e, Tail(Top.rest))>> \o Below
                /\ UNCHANGED data
        /\ UNCHANGED <<stillVars, lists, made, remaining, threw, timers, interval, timeouts,
                       target, instant, stopped, calls, lost, dropped, forgotten>>

\* cleanData, as remove() calls it: the data goes, the timers stay.
CleanData(e) ==
    /\ PageCalls /\ data[e] # NoData
    /\ data' = [data EXCEPT ![e] = NoData]
    /\ dropped' = dropped \cup Range(data[e].waiters)
    /\ forgotten' = forgotten \ {e}
    /\ UNCHANGED <<stillVars, lists, frames, made, remaining, threw, timers, interval,
                   timeouts, target, instant, stopped, lost>>

-----------------------------------------------------------------------------

Running == \/ DeferredStep /\ UNCHANGED effectVars
           \/ Dequeue \/ Empties \/ Begin \/ Attach \/ Begun \/ Complete
           \/ TickNext \/ Ticked \/ StopQueue \/ Loop \/ Splice \/ FinishNext

Effects ==
    \/ \E e \in Elems :
          \/ \E a \in Anims : Animate(e, a)
          \/ Delay(e) \/ TimeoutFires(e) \/ ClearQueue(e) \/ Finish(e) \/ CleanData(e)
          \/ \E clear, gotoEnd \in BOOLEAN : Stop(e, clear, gotoEnd)
    \/ \E p \in Deferreds, es \in (SUBSET Elems) \ {{}} : Promise(p, es)
    \/ Tick \/ GoesOn \/ \E a \in Anims : Expires(a)

PageDeferred ==
    /\ PageCalls
    /\ \E a \in Anims : \E k \in {"fail", "progress"} : Add(a, k)
    /\ UNCHANGED <<data, timers, interval, timeouts, target, instant, stopped, lost,
                   dropped, forgotten>>

\* A function of the page throws.
PageThrows ==
    /\ PageCalls /\ Throw
    /\ UNCHANGED <<data, timers, interval, timeouts, target, instant, stopped, lost,
                   dropped, forgotten>>

Next == Running \/ Effects \/ PageDeferred \/ PageThrows

Spec == Init /\ [][Next]_vars

-----------------------------------------------------------------------------
(* Properties.                                                             *)

\* An animation that has begun and not settled is in jQuery.timers when
\* JavaScript is idle, and the interval runs for it, whatever has thrown on the way:
\* unless the splice of stop or finish took it out for another.
TimersRun ==
    Idle =>
        /\ timers # <<>> => interval
        /\ \A a \in (made \cap Anims) \ lost : state[a] = "pending" => a \in Range(timers)

\* Something will call dequeue: the timeout of a delay, or an animation of the
\* element.
WillDequeue(e) ==
    timeouts[e] > 0 \/ \E a \in made \cap Anims : target[a] = e /\ state[a] = "pending"

\* A queue that says "inprogress" when JavaScript is idle waits for something
\* that will call dequeue (:3899, :3911).  An animation counts as long as it is
\* pending: the ones in lost too, which nothing ticks any more (:6852, :6802), so
\* that their queues wait until the page calls stop or finish.  TimersRun says
\* which those are.
SentinelIsKept ==
    Idle /\ ~threw => \A e \in Elems : Sentinel(data[e].queue) => WillDequeue(e)

\* promise() is "resolved when queues of a certain type are emptied" (:3978-3979),
\* and not before.  A queue that is empty at rest has told so to whoever waited for
\* it, and kept nothing, or an animation that will tell is still running: unless
\* finish emptied it when it had none (:6792), or something threw before it came to
\* dequeue.  And a promise waits for the elements that have it to tell, no more and
\* no fewer, unless one was removed.
PromisesWait ==
    Idle =>
        /\ ~threw => \A e \in Elems \ forgotten :
                        \/ Sentinel(data[e].queue)
                        \/ data[e] = NoData
                        \/ WillDequeue(e)
        /\ \A p \in made \cap Counted :
              LET waits == {e \in Elems : p \in Range(data[e].waiters)}
              IN  p \notin dropped =>
                     /\ remaining[p] = Cardinality(waits)
                     /\ state[p] = "resolved" <=> waits = {}

\* "Get a promise resolved when queues of a certain type are emptied" (:3978-3979):
\* a promise that is pending at rest waits for a queue that is not empty.
EmptiedIsTold ==
    Idle /\ ~threw =>
        \A p \in (made \cap Counted) \ dropped : state[p] = "pending" =>
            \E e \in Elems : p \in Range(data[e].waiters) /\ data[e].queue # <<>>
=============================================================================
