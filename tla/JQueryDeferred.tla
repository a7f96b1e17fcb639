--------------------------- MODULE JQueryDeferred ---------------------------
(***************************************************************************)
(* jQuery.Callbacks, jQuery.Deferred and jQuery.when, as the web client    *)
(* uses them through $.ajax, $(fn) and animations                          *)
(* (web/lib/js/jquery-2.1.3.js:3027-3366).                                 *)
(*                                                                         *)
(* JavaScript runs one function at a time, but callbacks are called        *)
(* synchronously and may themselves add callbacks, settle a deferred or    *)
(* throw, so one list may be firing below another.  frames is the stack of *)
(* what is running: the loop of fire() over a list, and functions of the   *)
(* page.  Only its top takes a step, and with no frame at all any event    *)
(* handler of the page may run.                                            *)
(*                                                                         *)
(* A deferred has the lists done, fail and progress; an ajax request keeps *)
(* one more, complete, beside its own.  All of them have the option        *)
(* memory, and all but progress once.  The values that are passed on are   *)
(* left out, and so are what then and when do with progress, and deferreds *)
(* that the page makes itself.                                             *)
(***************************************************************************)
EXTENDS Integers, SequencesExt

CONSTANTS
    Deferreds,
    NoDeferred,
    Counted,     \* the deferreds that MaxObjects counts
    MaxObjects   \* bounds those deferreds and the functions the page makes

ASSUME DeferredAssumption ==
    NoDeferred \notin Deferreds /\ Counted \subseteq Deferreds /\ MaxObjects \in Nat

VARIABLES
    lists,       \* the callback lists
    frames,      \* what is running, the top first
    state,       \* the state of each deferred
    made,        \* the deferreds that exist
    remaining,   \* when: subordinates not yet resolved
    parts,       \* history: the subordinates of a when
    functions,   \* the functions the page has given, numbered from 1
    follows,     \* history: the deferred whose outcome a then takes
    registered,  \* history: the functions given to a list, in order
    called,      \* history: the calls a list has made, in order (not progress)
    threw        \* history: a function of the page threw

\* What changes only where the page calls in.
givenVars == <<made, parts, functions, registered>>
deferredVars == <<lists, frames, state, remaining, follows, called, threw, givenVars>>

Kinds == {"done", "fail", "progress", "complete"}
ListIds == Deferreds \X Kinds
Fns == 1 .. MaxObjects

\* What a list may hold: a function of the page; the three functions that
\* Deferred adds first; when's updateFunc; resolve or reject of another
\* deferred; what then adds around a function; and a function of another part of
\* jQuery.
User(f) == [kind |-> "user", fn |-> f]
SettleEntry == [kind |-> "settle"]
Count(m) == [kind |-> "count", of |-> m]
Forward(id) == [kind |-> "forward", to |-> id]
Internal(what) == [kind |-> "internal", what |-> what]
ThenEntry(f, t) == [kind |-> "then", fn |-> f, to |-> t]

Entry == [kind : {"user"}, fn : Fns] \cup {SettleEntry}
         \cup [kind : {"count"}, of : Deferreds]
         \cup [kind : {"forward"}, to : ListIds]
         \cup [kind : {"then"}, fn : Fns, to : Deferreds]
         \cup [kind : {"internal"}, what : {"complete"}]

\* on: the list is not disabled.  open: its stack is defined, so that it may fire
\* again; queued: the length of the stack.  next: the next entry fire() calls.
List == [on : BOOLEAN, open : BOOLEAN, memory : BOOLEAN, fired : BOOLEAN,
         firing : BOOLEAN, next : Nat, length : Nat, queued : Nat,
         fns : Seq(Entry)]

FireFrame(id) == [code |-> "fire", list |-> id]
CallFrame(id, t) == [code |-> "callback", list |-> id, then |-> t]

DeferredTypeOK ==
    /\ lists \in [ListIds -> List]
    /\ \A id \in ListIds : lists[id].next <= lists[id].length + 1
    /\ \A i \in DOMAIN frames :
          /\ frames[i].code = "fire" => frames[i].list \in ListIds
          /\ frames[i].code = "callback" =>
                /\ frames[i].list \in ListIds
                /\ frames[i].then \in Deferreds \cup {NoDeferred}
    /\ state \in [Deferreds -> {"pending", "resolved", "rejected"}]
    /\ made \in SUBSET Deferreds
    /\ remaining \in [Deferreds -> Int]
    /\ functions \in 0 .. MaxObjects
    /\ parts \in [Deferreds -> SUBSET Deferreds]
    /\ follows \in [Deferreds -> Deferreds]
    /\ registered \in [ListIds -> Seq(Fns)]
    /\ called \in [ListIds -> Seq(Fns)]
    /\ threw \in BOOLEAN

\* Deferred(): the lists of a new deferred.
NewList(k) ==
    [on |-> TRUE, open |-> k = "progress", memory |-> FALSE, fired |-> FALSE,
     firing |-> FALSE, next |-> 1, length |-> 0, queued |-> 0,
     fns |-> IF k \in {"done", "fail"} THEN <<SettleEntry>> ELSE <<>>]

DeferredInit(existing) ==
    /\ lists = [id \in ListIds |-> NewList(id[2])]
    /\ frames = <<>>
    /\ state = [d \in Deferreds |-> "pending"]
    /\ made = existing
    /\ remaining = [d \in Deferreds |-> 0]
    /\ functions = 0
    /\ parts = [d \in Deferreds |-> {}]
    /\ follows = [d \in Deferreds |-> d]
    /\ registered = [id \in ListIds |-> <<>>]
    /\ called = [id \in ListIds |-> <<>>]
    /\ threw = FALSE

Top == Head(frames)
Below == Tail(frames)
On(code) == frames # <<>> /\ Top.code = code
Idle == frames = <<>>

\* Code of the page is running, or may be started by an event.  At a hook it may
\* do what matters there, and adds no function: it could as well do so in the
\* event handler or the callback that runs next.
PageRuns == Idle \/ On("callback") \/ On("hook")
PageAdds == Idle \/ On("callback") \/ (On("hook") /\ Top.at \in {"ajaxSend", "handler"})

-----------------------------------------------------------------------------
(* Callbacks.                                                              *)

\* fire: a new pass over the list.
Started(l, from) ==
    [l EXCEPT !.memory = TRUE, !.fired = TRUE, !.firing = TRUE, !.next = from,
              !.length = Len(l.fns)]

Pushed(l, e) == [l EXCEPT !.fns = Append(@, e)]

\* Deviation: what is added while the list fires waits for the next pass.
AddedForLater(l, e) ==
    IF ~l.on THEN l
    ELSE IF l.firing THEN Pushed(l, e)
    ELSE IF l.memory THEN Started(Pushed(l, e), Len(l.fns) + 1)
    ELSE Pushed(l, e)

\* add: joins the pass that is running, or is called at once if there was one.
Added(l, e) ==
    IF ~l.on THEN l
    ELSE IF l.firing THEN [Pushed(l, e) EXCEPT !.length = Len(l.fns) + 1]
    ELSE IF l.memory THEN Started(Pushed(l, e), Len(l.fns) + 1)
    ELSE Pushed(l, e)

Disabled(l) ==
    [l EXCEPT !.on = FALSE, !.open = FALSE, !.memory = FALSE, !.queued = 0,
              !.fns = <<>>]

Locked(l) ==
    IF l.memory THEN [l EXCEPT !.open = FALSE, !.queued = 0] ELSE Disabled(l)

\* fireWith on list id of ls, called by the code whose frames are rest.
FireWith(ls, id, rest) ==
    LET l == ls[id]
    IN  IF ~l.on \/ (l.fired /\ ~l.open)
        THEN lists' = ls /\ frames' = rest
        ELSE IF l.firing
        THEN lists' = [ls EXCEPT ![id].queued = @ + 1] /\ frames' = rest
        ELSE /\ lists' = [ls EXCEPT ![id] = Started(l, 1)]
             /\ frames' = <<FireFrame(id)>> \o rest

\* Adds to each list in the domain of cbs its entry.  Where two passes start,
\* of two parts of a when, no function of the page runs in either.
AddAll(cbs, rest) ==
    LET passes == {id \in DOMAIN cbs :
                     lists[id].on /\ ~lists[id].firing /\ lists[id].memory}
    IN  /\ lists' = [id \in ListIds |-> IF id \in DOMAIN cbs
                                        THEN Added(lists[id], cbs[id])
                                        ELSE lists[id]]
        /\ frames' = SetToSeq({FireFrame(id) : id \in passes}) \o rest

-----------------------------------------------------------------------------
(* What the page calls.                                                    *)

Room(n) == functions + Cardinality(made \cap Counted) + n <= MaxObjects

\* The page makes a new function.
NewFn == functions + 1
MakesFn == Room(1) /\ functions' = NewFn

Registers(ids, f) ==
    registered' = [id \in ListIds |-> IF id \in ids THEN Append(registered[id], f)
                                      ELSE registered[id]]

\* done, fail, progress or complete.
Add(d, k) ==
    /\ PageAdds /\ d \in made /\ MakesFn
    /\ AddAll([id \in {<<d, k>>} |-> User(NewFn)], frames)
    /\ Registers({<<d, k>>}, NewFn)
    /\ UNCHANGED <<state, made, remaining, parts, follows, called, threw>>

Outcomes(d) == {<<d, "done">>, <<d, "fail">>}

\* always
Always(d) ==
    /\ PageAdds /\ d \in made /\ MakesFn
    /\ AddAll([id \in Outcomes(d) |-> User(NewFn)], frames)
    /\ Registers(Outcomes(d), NewFn)
    /\ UNCHANGED <<state, made, remaining, parts, follows, called, threw>>

\* then(fn): t resolves with what fn returns, and is rejected with d.
ThenCall(d, t) ==
    /\ PageAdds /\ d \in made /\ t \notin made /\ Room(2) /\ MakesFn
    /\ AddAll([id \in Outcomes(d) |-> IF id[2] = "done" THEN ThenEntry(NewFn, t)
                                                     ELSE Forward(<<t, "fail">>)], frames)
    /\ Registers({<<d, "done">>}, NewFn)
    /\ made' = made \cup {t}
    /\ follows' = [follows EXCEPT ![t] = d]
    /\ UNCHANGED <<state, remaining, parts, called, threw>>

\* when(a, b), of two deferreds; of a single one when returns its promise.
When(m, ds) ==
    /\ PageAdds /\ m \notin made /\ Room(1) /\ ds \subseteq made /\ Cardinality(ds) = 2
    /\ AddAll([id \in UNION {Outcomes(d) : d \in ds} |->
                 IF id[2] = "done" THEN Count(m) ELSE Forward(<<m, "fail">>)],
              frames)
    /\ made' = made \cup {m}
    /\ remaining' = [remaining EXCEPT ![m] = Cardinality(ds)]
    /\ parts' = [parts EXCEPT ![m] = ds]
    /\ UNCHANGED <<state, follows, registered, called, threw, functions>>

\* A function of the page throws.  Nothing on the way catches it.
Throw ==
    /\ On("callback") \/ On("hook")
    /\ frames' = <<>>
    /\ threw' = TRUE
    /\ UNCHANGED <<lists, state, remaining, follows, called, givenVars>>

-----------------------------------------------------------------------------
(* The loop of fire().                                                     *)

Firing == Top.list
NextEntry == lists[Firing].fns[lists[Firing].next]
HasNext == LET l == lists[Firing] IN l.on /\ l.next <= l.length
Stepped == [lists EXCEPT ![Firing].next = @ + 1]

Outcome(k) == IF k = "done" THEN "resolved" ELSE "rejected"

\* state = stateString, disable of the other list, lock of the progress list.
Settles ==
    LET d == Firing[1]
        other == <<d, IF Firing[2] = "done" THEN "fail" ELSE "done">>
    IN  /\ On("fire") /\ HasNext /\ NextEntry.kind = "settle"
        /\ state' = [state EXCEPT ![d] = Outcome(Firing[2])]
        /\ lists' = [Stepped EXCEPT ![other] = Disabled(@),
                                    ![<<d, "progress">>] = Locked(@)]
        /\ UNCHANGED <<frames, remaining, follows, called, threw, givenVars>>

\* A function of the page is called, bare or by then.
Calls ==
    /\ On("fire") /\ HasNext /\ NextEntry.kind \in {"user", "then"}
    /\ lists' = Stepped
    /\ LET t == IF NextEntry.kind = "then" THEN NextEntry.to ELSE NoDeferred
       IN  frames' = <<CallFrame(Firing, t)>> \o frames
    /\ called' = [called EXCEPT ![Firing] =
                      IF Firing[2] = "progress" THEN @ ELSE Append(@, NextEntry.fn)]
    /\ UNCHANGED <<state, remaining, follows, threw, givenVars>>

\* Deviation: resolves with the first part.
CountsOne ==
    LET m == NextEntry.of
    IN  /\ On("fire") /\ HasNext /\ NextEntry.kind = "count"
        /\ remaining' = [remaining EXCEPT ![m] = @ - 1]
        /\ FireWith(Stepped, <<m, "done">>, frames)
        /\ UNCHANGED <<state, follows, called, threw, givenVars>>

\* when's updateFunc.
Counts ==
    LET m == NextEntry.of
    IN  /\ On("fire") /\ HasNext /\ NextEntry.kind = "count"
        /\ remaining' = [remaining EXCEPT ![m] = @ - 1]
        /\ IF remaining[m] = 1 THEN FireWith(Stepped, <<m, "done">>, frames)
                               ELSE lists' = Stepped /\ UNCHANGED frames
        /\ UNCHANGED <<state, follows, called, threw, givenVars>>

\* resolve or reject of another deferred.
Forwards ==
    /\ On("fire") /\ HasNext /\ NextEntry.kind = "forward"
    /\ FireWith(Stepped, NextEntry.to, frames)
    /\ UNCHANGED <<state, remaining, follows, called, threw, givenVars>>

\* The end of a pass: the next one that waits, or what is left of the list.
PassEnds ==
    LET l == lists[Firing]
    IN  /\ On("fire") /\ ~HasNext
        /\ IF l.on /\ l.open /\ l.queued > 0
           THEN /\ lists' = [lists EXCEPT ![Firing] =
                               [Started(l, 1) EXCEPT !.queued = @ - 1]]
                /\ UNCHANGED frames
           ELSE /\ lists' = [lists EXCEPT ![Firing] =
                               [l EXCEPT !.firing = FALSE,
                                         !.fns = IF l.open THEN l.fns ELSE <<>>,
                                         !.next = 1, !.length = 0]]
                /\ frames' = Below
        /\ UNCHANGED <<state, remaining, follows, called, threw, givenVars>>

\* The function returns; for then, with a plain value.
Returns ==
    /\ On("callback")
    /\ IF Top.then = NoDeferred THEN frames' = Below /\ UNCHANGED lists
       ELSE FireWith(lists, <<Top.then, Top.list[2]>>, Below)
    /\ UNCHANGED <<state, remaining, follows, called, threw, givenVars>>

\* The function given to then returns a promise, whose outcome t takes over.
ReturnsPromise(p) ==
    LET t == Top.then
    IN  /\ On("callback") /\ t # NoDeferred /\ p \in made
        /\ AddAll([id \in Outcomes(p) |-> Forward(<<t, id[2]>>)], Below)
        /\ follows' = [follows EXCEPT ![t] = p]
        /\ UNCHANGED <<state, remaining, called, threw, givenVars>>

DeferredStep ==
    Settles \/ Calls \/ Counts \/ Forwards \/ PassEnds \/ Returns

-----------------------------------------------------------------------------
(* Properties.                                                             *)

Kept(id) ==
    CASE id[2] = "done"     -> state[id[1]] = "resolved"
      [] id[2] = "fail"     -> state[id[1]] = "rejected"
      [] id[2] = "complete" -> lists[id].fired
      [] OTHER              -> FALSE

\* Whatever callbacks add, settle and abort while lists fire: a list calls its
\* functions in the order they were given, each once, and only the list of the
\* outcome calls any.  When JavaScript is idle none is left out, unless a
\* function threw: its list fires for ever, and calls nothing that is added
\* later (:3086-3101 has no finally).
CalledOnceInOrder ==
    \A d \in Deferreds : \A k \in {"done", "fail", "complete"} :
        LET id == <<d, k>>
        IN  /\ called[id] = <<>> \/ (IsPrefix(called[id], registered[id]) /\ Kept(id))
            /\ Idle /\ ~threw /\ Kept(id) => called[id] = registered[id]

\* when resolves exactly when all its parts have, and is rejected with the first
\* that is; the promise of then ends like the one its function returned, or like
\* the deferred itself.
DerivedAgree ==
    Idle /\ ~threw =>
        /\ \A m \in made : parts[m] # {} =>
              /\ state[m] = "resolved" <=> \A d \in parts[m] : state[d] = "resolved"
              /\ state[m] = "rejected" <=> \E d \in parts[m] : state[d] = "rejected"
        /\ \A t \in made : state[t] = state[follows[t]]
=============================================================================
