----------------------------- MODULE EventStream -----------------------------
(***************************************************************************)
(* What the event service promises to whoever calls events::add_listener   *)
(* (include/events.h:53-64): a listener handles the events in the order in *)
(* which they were sent, each of them once and none left out, from some    *)
(* point on that is settled when it subscribes.  Events are named by their *)
(* place in the order of sending: 1, 2, 3, ...                             *)
(***************************************************************************)
EXTENDS Naturals

CONSTANT Listeners

VARIABLES
    posted,      \* events sent so far
    subscribed,  \* the listeners
    handled      \* the last event each of them has handled

StreamTypeOK ==
    /\ posted \in Nat
    /\ subscribed \in SUBSET Listeners
    /\ handled \in [Listeners -> Nat]

Init ==
    /\ posted = 0
    /\ subscribed = {}
    /\ handled = [l \in Listeners |-> 0]

Send ==
    /\ posted' = posted + 1
    /\ UNCHANGED <<subscribed, handled>>

AddListener(l) ==
    /\ l \notin subscribed
    /\ subscribed' = subscribed \cup {l}
    /\ \E n \in 0 .. posted : handled' = [handled EXCEPT ![l] = n]
    /\ UNCHANGED posted

HandleNext(l) ==
    /\ l \in subscribed
    /\ handled[l] < posted
    /\ handled' = [handled EXCEPT ![l] = @ + 1]
    /\ UNCHANGED <<posted, subscribed>>

Next == Send \/ \E l \in Listeners : AddListener(l) \/ HandleNext(l)

Spec == Init /\ [][Next]_<<posted, subscribed, handled>>

=============================================================================
