---------------------------- MODULE JQueryEvents ----------------------------
(***************************************************************************)
(* jQuery's event handlers: on, one, off, trigger and dispatch, the        *)
(* simulation of focusin, and what becomes of handlers when elements are   *)
(* removed, detached and put back                                          *)
(* (web/lib/js/jquery-2.1.3.js:4081-4915, 5166-5283).                      *)
(*                                                                         *)
(* An element keeps, for each type, a list of handlers, and has a native   *)
(* listener while the list is not empty; for focusin, which the browsers   *)
(* in question do not send, one capturing listener on the document serves  *)
(* all elements.  Handlers run synchronously and may bind, unbind, trigger *)
(* and remove in the middle of a dispatch, so walks along the path of an   *)
(* event and dispatches at one element stand on a stack, as in             *)
(* JQueryDeferred.                                                         *)
(*                                                                         *)
(* An event that has been stopped is one whose walk has no path left.      *)
(* Left out are namespaces, data, handlers in attributes and default       *)
(* actions; a selector is the set of elements it matches.                  *)
(***************************************************************************)
EXTENDS Integers, SequencesExt, OrderedLists

CONSTANTS
    Elems,
    NoElem,
    Home,       \* where each element is in the page at first: its parent
    Selectors,  \* what delegated handlers name
    NoSelector,
    Matching,   \* the elements that a selector matches
    Fns,        \* functions of the page, which guid tells apart
    AnyFn,
    MaxCalls    \* bounds what the page calls

ASSUME EventsAssumption ==
    /\ IsFiniteSet(Elems) /\ NoElem \notin Elems
    /\ Home \in [Elems -> Elems \cup {NoElem}]
    \* a tree
    /\ \A es \in SUBSET Elems : es # {} => \E e \in es : Home[e] \notin es
    /\ NoSelector \notin Selectors /\ Matching \in [Selectors -> SUBSET Elems]
    /\ AnyFn \notin Fns /\ MaxCalls \in Nat

\* focus and blur are alike; click stands for the types that are not special.
OrigTypes == {"click", "focus", "focusin"}
AnyType == "any"

VARIABLES
    parent,     \* the tree of elements
    handlers,   \* data.events: the handlers of each element and type
    listening,  \* the native listeners of jQuery, for element and type
    attaches,   \* how many elements want focusin, by the count of the document
    captures,   \* the document has the capturing listener
    frames,     \* what is running, the top first
    calls,      \* what the page has called so far
    ran,        \* history: how often each handler of one ran, up to two
    queuedTwice  \* history: handlers that were queued again while they were to be called

registry == <<handlers, listening, attaches, captures>>
vars == <<parent, registry, frames, calls, ran, queuedTwice>>

\* handleObj; id, the number of the call that made it, is history.
Handler == [id : 1 .. MaxCalls, orig : OrigTypes, fn : Fns,
            selector : Selectors \cup {NoSelector}, one : BOOLEAN]

WalkFrame(type, target, path, native) ==
    [code |-> "walk", type |-> type, target |-> target, path |-> path, native |-> native]
\* groups: the handlers to call, by the element they are called for.
DispatchFrame(e, groups) == [code |-> "dispatch", elem |-> e, groups |-> groups]
HandlerFrame == [code |-> "handler"]

TypeOK ==
    /\ parent \in [Elems -> Elems \cup {NoElem}]
    /\ handlers \in [Elems -> [OrigTypes -> Seq(Handler)]]
    /\ listening \in [Elems -> [OrigTypes -> BOOLEAN]]
    /\ attaches \in Nat
    /\ captures \in BOOLEAN
    /\ \A i \in DOMAIN frames : frames[i].code \in {"walk", "dispatch", "handler"}
    /\ calls \in 0 .. MaxCalls
    /\ ran \in [1 .. MaxCalls -> 0 .. 2]
    /\ queuedTwice \subseteq 1 .. MaxCalls

Init ==
    /\ parent = Home
    /\ handlers = [e \in Elems |-> [t \in OrigTypes |-> <<>>]]
    /\ listening = [e \in Elems |-> [t \in OrigTypes |-> FALSE]]
    /\ attaches = 0
    /\ captures = FALSE
    /\ frames = <<>>
    /\ calls = 0
    /\ ran = [i \in 1 .. MaxCalls |-> 0]
    /\ queuedTwice = {}

Top == Head(frames)
Below == Tail(frames)
On(code) == frames # <<>> /\ Top.code = code
Idle == frames = <<>>

\* A handler, or other code of the page, calls.
PageCalls == (Idle \/ On("handler")) /\ calls < MaxCalls /\ calls' = calls + 1

\* The type under which handlers are kept: delegateType, or the type itself.
Kept(orig, selector) ==
    IF orig = "focus" /\ selector # NoSelector THEN "focusin" ELSE orig

\* An element and what it is in, from the inside.
Up[x \in Elems] == IF parent[x] = NoElem THEN <<x>> ELSE <<x>> \o Up[parent[x]]

Path(e) == Up[e]

Inside(e) == {x \in Elems : e \in Range(Path(x))}

-----------------------------------------------------------------------------
(* Adding and removing.                                                    *)

Delegated(h) == h.selector # NoSelector

\* "delegates in front", behind those that are there (delegateCount).
Inserted(hs, h) ==
    IF Delegated(h) THEN InsertAt(hs, Cardinality({i \in DOMAIN hs : Delegated(hs[i])}) + 1, h)
                    ELSE Append(hs, h)

\* jQuery.event.add, with the setup of focusin.
AddHandler(e, h) ==
    LET t == Kept(h.orig, h.selector)
        first == handlers[e][t] = <<>>
    IN  /\ handlers' = [handlers EXCEPT ![e][t] = Inserted(@, h)]
        /\ IF first /\ t = "focusin"
           THEN /\ attaches' = attaches + 1
                /\ captures' = TRUE
                /\ UNCHANGED listening
           ELSE /\ listening' = [listening EXCEPT ![e][t] = t # "focusin"]
                /\ UNCHANGED <<attaches, captures>>

\* What off removes from a list: a handler of that type as it was given, of that
\* function and that selector.
Removes(h, orig, selector, fn) ==
    /\ orig \in {AnyType, h.orig}
    /\ fn \in {AnyFn, h.fn}
    /\ selector \in {NoSelector, h.selector}

\* The positions in hs of the handlers that stay.
Stay(hs, orig, selector, fn) == {i \in DOMAIN hs : ~Removes(hs[i], orig, selector, fn)}

\* The lists of e after jQuery.event.remove.
Remaining(e, orig, selector, fn) ==
    [t \in OrigTypes |->
       IF orig = AnyType \/ t = Kept(orig, selector)
       THEN Only(handlers[e][t], Stay(handlers[e][t], orig, selector, fn))
       ELSE handlers[e][t]]

\* The count of the document after teardown of the elements es.
TornDown(es) ==
    /\ attaches' = attaches - Cardinality(es)
    /\ captures' = (captures /\ attaches' # 0)

\* Deviation: for whatever was removed last.
TearsDownAny(e, orig, left) ==
    left["focusin"] = <<>>

\* Teardown is that of the type as it was given: the last focusin handler, but
\* not the last handler of focus with a selector.
TearsDown(e, orig, left) ==
    /\ orig \in {AnyType, "focusin"}
    /\ handlers[e]["focusin"] # <<>> /\ left["focusin"] = <<>>

\* jQuery.event.remove
RemoveHandlers(e, orig, selector, fn) ==
    LET left == Remaining(e, orig, selector, fn)
    IN  /\ handlers' = [handlers EXCEPT ![e] = left]
        /\ listening' = [listening EXCEPT ![e] =
                           [t \in OrigTypes |-> listening[e][t] /\ left[t] # <<>>]]
        /\ TornDown({x \in {e} : TearsDown(e, orig, left)})

NewHandler(orig, selector, fn, one) ==
    [id |-> calls + 1, orig |-> orig, fn |-> fn, selector |-> selector, one |-> one]

\* on and one
Bind(e, orig, selector, fn, one) ==
    /\ AddHandler(e, NewHandler(orig, selector, fn, one))
    /\ UNCHANGED <<parent, frames, ran, queuedTwice>>

Off(e, orig, selector, fn) ==
    /\ orig = AnyType => selector = NoSelector /\ fn = AnyFn
    /\ RemoveHandlers(e, orig, selector, fn)
    /\ UNCHANGED <<parent, frames, ran, queuedTwice>>

-----------------------------------------------------------------------------
(* Elements leave the page and come back.                                  *)

\* Deviation: the data goes, the listeners stay.
CleanDataOnly(es) ==
    /\ handlers' = [e \in Elems |-> IF e \in es THEN [t \in OrigTypes |-> <<>>]
                                                ELSE handlers[e]]
    /\ UNCHANGED <<listening, attaches, captures>>

\* cleanData: for focusin event.remove, which does not know a handler of focus
\* with a selector, and so leaves what it has attached.
CleanData(es) ==
    /\ handlers' = [e \in Elems |-> IF e \in es THEN [t \in OrigTypes |-> <<>>]
                                                ELSE handlers[e]]
    /\ listening' = [e \in Elems |-> IF e \in es THEN [t \in OrigTypes |-> FALSE]
                                                 ELSE listening[e]]
    /\ TornDown({e \in es : TearsDown(e, "focusin", Remaining(e, "focusin", NoSelector, AnyFn))})

\* remove, and detach, which keeps the data.
RemoveElem(e, keepData) ==
    /\ parent[e] # NoElem
    /\ IF keepData THEN UNCHANGED registry ELSE CleanData(Inside(e))
    /\ parent' = [parent EXCEPT ![e] = NoElem]
    /\ UNCHANGED <<frames, ran, queuedTwice>>

\* empty
Empty(e) ==
    /\ CleanData(Inside(e) \ {e})
    /\ parent' = [x \in Elems |-> IF parent[x] = e THEN NoElem ELSE parent[x]]
    /\ UNCHANGED <<frames, ran, queuedTwice>>

\* append, to where the element was.
PutBack(e) ==
    /\ parent[e] # Home[e]
    /\ parent' = [parent EXCEPT ![e] = Home[e]]
    /\ UNCHANGED <<registry, frames, ran, queuedTwice>>

-----------------------------------------------------------------------------
(* Events.                                                                 *)

InPage(e) == \E r \in Range(Path(e)) : Home[r] = NoElem

\* bubbleType: on the second and later elements of its path, focus is focusin.
TypeAt(walk, i) == IF walk.type = "focus" /\ i > 1 THEN "focusin" ELSE walk.type

\* Whether the i-th element on the path of a walk has a listener, or a list of handlers.
Heard(walk, i) ==
    LET e == walk.path[i]
        t == TypeAt(walk, i)
    IN  IF walk.native THEN listening[e][t] ELSE handlers[e][t] # <<>>

\* The first on the path that hears the event, as a set.
Hears(walk) ==
    {i \in DOMAIN walk.path : Heard(walk, i) /\ \A j \in DOMAIN walk.path : j < i => ~Heard(walk, j)}

\* The stack with what the browser sends: a click, or focus, which does not bubble,
\* but passes the document first on the way to its target.
Sent(e, t) ==
    IF t = "click" THEN <<WalkFrame(t, e, Path(e), TRUE)>> \o frames
    ELSE LET focused == <<WalkFrame(t, e, <<e>>, TRUE)>> \o frames
         IN  IF captures THEN <<WalkFrame("focusin", e, Path(e), FALSE)>> \o focused ELSE focused

\* An event of the user that somebody hears.
Native(e, t) ==
    /\ Idle /\ InPage(e) /\ t \in {"click", "focus"}
    /\ frames' = Sent(e, t)
    /\ \E i \in DOMAIN frames' : Hears(frames'[i]) # {}
    /\ UNCHANGED <<parent, registry, calls, ran, queuedTwice>>

\* special.focus.trigger: the element's own focus(), which does nothing out of the page.
Focus(e) == frames' = IF InPage(e) THEN Sent(e, "focus") ELSE frames

\* eventPath, as it is now: rfocusMorph puts the target of focus on it twice.
EventPath(e, t, onlyHandlers) ==
    CASE onlyHandlers -> <<e>>
      [] t = "focus" /\ ~onlyHandlers -> <<e>> \o Path(e)
      [] OTHER -> Path(e)

\* trigger and triggerHandler.  Which element has the focus already, and so gets the
\* event without focus(), is left open.
Trigger(e, t, onlyHandlers) ==
    /\ \/ t = "focus" /\ ~onlyHandlers /\ Focus(e)
       \/ /\ t = "focus" /\ ~onlyHandlers => InPage(e)
          /\ frames' = <<WalkFrame(t, e, EventPath(e, t, onlyHandlers), FALSE)>> \o frames
    /\ UNCHANGED <<parent, registry, ran, queuedTwice>>

\* The groups that have handlers left.
Left(groups) == Only(groups, {i \in DOMAIN groups : groups[i] # <<>>})

\* jQuery.event.handlers: the delegates, from the target out to below e, then
\* the handlers of e itself.
HandlerQueue(e, t, target) ==
    LET hs == handlers[e][t]
        path == Path(target)
        below == Only(path, {i \in DOMAIN path : \A j \in 1 .. i : path[j] # e})
        Called(i) ==
            {j \in DOMAIN hs : IF i <= Len(below)
                               THEN Delegated(hs[j]) /\ below[i] \in Matching[hs[j].selector]
                               ELSE ~Delegated(hs[j])}
    IN  Left([i \in 1 .. Len(below) + 1 |-> Only(hs, Called(i))])

IdsIn(group) == {h.id : h \in Range(group)}
Ids(groups) == UNION {IdsIn(g) : g \in Range(groups)}

\* What dispatches on the stack are still to call.
Pending == UNION {Ids(frames[i].groups) : i \in {j \in DOMAIN frames : frames[j].code = "dispatch"}}

\* The handlers that stand in two groups: their selector matches both elements.
Repeated(groups) ==
    {id \in Ids(groups) : \E i, j \in DOMAIN groups :
                            i < j /\ id \in IdsIn(groups[i]) /\ id \in IdsIn(groups[j])}

\* On to the next element of the path that hears the event.
Walk ==
    /\ On("walk")
    /\ \E i \in Hears(Top) :
          LET groups == HandlerQueue(Top.path[i], TypeAt(Top, i), Top.target)
              rest == [Top EXCEPT !.path = SubSeq(@, i + 1, Len(@)), !.type = TypeAt(Top, i + 1)]
          IN  /\ frames' = <<DispatchFrame(Top.path[i], groups), rest>> \o Below
              /\ queuedTwice' = queuedTwice \cup (Pending \cap Ids(groups)) \cup Repeated(groups)
    /\ UNCHANGED <<parent, registry, calls, ran>>

Walked ==
    /\ On("walk") /\ Hears(Top) = {}
    /\ frames' = Below
    /\ UNCHANGED <<parent, registry, calls, ran, queuedTwice>>

\* Deviation: asks for the type under which the handler is kept.
TakesOffKept(e, h) ==
    IF h.one THEN RemoveHandlers(e, Kept(h.orig, h.selector), h.selector, h.fn)
             ELSE UNCHANGED registry

\* The function that one wraps around the one it is given: off(event), which
\* removes by type, selector and guid.
TakesOff(e, h) ==
    IF h.one THEN RemoveHandlers(e, h.orig, h.selector, h.fn) ELSE UNCHANGED registry

\* dispatch: the next handler of a group, or the first of the next group.
Dispatch ==
    /\ On("dispatch") /\ Left(Top.groups) # <<>>
    /\ LET groups == Left(Top.groups)
           h == Head(Head(groups))
       IN  /\ frames' = <<HandlerFrame,
                         DispatchFrame(Top.elem, <<Tail(Head(groups))>> \o Tail(groups))>> \o Below
           /\ TakesOff(Top.elem, h)
           /\ ran' = [ran EXCEPT ![h.id] = IF ~h.one \/ @ = 2 THEN @ ELSE @ + 1]
    /\ UNCHANGED <<parent, calls, queuedTwice>>

Dispatched ==
    /\ On("dispatch") /\ Left(Top.groups) = <<>>
    /\ frames' = Below
    /\ UNCHANGED <<parent, registry, calls, ran, queuedTwice>>

Returns ==
    /\ On("handler")
    /\ frames' = Below
    /\ UNCHANGED <<parent, registry, calls, ran, queuedTwice>>

\* The handler has called stopPropagation, or returns false: the group is the last
\* one.  Or stopImmediatePropagation.
Stops(immediate) ==
    LET left == IF immediate THEN <<>> ELSE <<Head(Head(Below).groups)>>
    IN  /\ On("handler")
        /\ frames' = <<[frames[2] EXCEPT !.groups = left], [frames[3] EXCEPT !.path = <<>>]>>
                     \o SubSeq(frames, 4, Len(frames))
        /\ UNCHANGED <<parent, registry, calls, ran, queuedTwice>>

-----------------------------------------------------------------------------

Page ==
    /\ PageCalls
    /\ \/ \E e \in Elems, orig \in OrigTypes, fn \in Fns, one \in BOOLEAN :
             \E selector \in Selectors \cup {NoSelector} : Bind(e, orig, selector, fn, one)
       \/ \E e \in Elems, orig \in OrigTypes \cup {AnyType} :
             \E selector \in Selectors \cup {NoSelector}, fn \in Fns \cup {AnyFn} :
                Off(e, orig, selector, fn)
       \/ \E e \in Elems, keepData \in BOOLEAN : RemoveElem(e, keepData)
       \/ \E e \in Elems : Empty(e) \/ PutBack(e)
       \/ \E e \in Elems, t \in OrigTypes, onlyHandlers \in BOOLEAN : Trigger(e, t, onlyHandlers)

Next ==
    \/ Page
    \/ \E e \in Elems, t \in OrigTypes : Native(e, t)
    \/ Walk \/ Walked \/ Dispatch \/ Dispatched \/ Returns
    \/ \E immediate \in BOOLEAN : Stops(immediate)

Spec == Init /\ [][Next]_vars

-----------------------------------------------------------------------------
(* Properties.                                                             *)

\* An element listens to a type exactly while it has handlers for it, whatever is
\* bound, unbound and removed in the middle of a dispatch; and delegates stand in
\* front, where dispatch looks for them.
ListensForItsHandlers ==
    \A e \in Elems, t \in OrigTypes :
        /\ t # "focusin" => (listening[e][t] <=> handlers[e][t] # <<>>)
        /\ \A i, j \in DOMAIN handlers[e][t] :
              Delegated(handlers[e][t][j]) /\ i < j => Delegated(handlers[e][t][i])

\* "Attach a single capturing handler on the document while someone wants
\* focusin" (:4773): whoever wants it is served.  The opposite does not hold: a
\* handler of focus with a selector is never taken off the count.
FocusinServed ==
    /\ captures <=> attaches > 0
    /\ attaches >= Cardinality({e \in Elems : handlers[e]["focusin"] # <<>>})

\* A handler bound with one runs once, unless it was queued twice before it ran: by
\* a dispatch inside another, or for two elements that its selector matches; and it
\* is gone when it runs.
OneRunsOnce ==
    /\ \A i \in 1 .. MaxCalls : ran[i] = 2 => i \in queuedTwice
    /\ \A e \in Elems, t \in OrigTypes : \A h \in Range(handlers[e][t]) : ran[h.id] = 0
=============================================================================
