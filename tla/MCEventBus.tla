----------------------------- MODULE MCEventBus -----------------------------
(* Two parts of the server that do not touch each other, one at a time: the *)
(* event bus with the JavaScript engine, its scripts and a websocket         *)
(* session; and the messages to one device, sent by the network thread.      *)
EXTENDS ScriptFramework, WriteQueue

VARIABLE part  \* the one that moves

\* Nothing that the fairness of a part names is enabled while that part has not
\* moved: it asks nothing of the other part's behaviours.

MCInit == ScriptInit /\ WriteInit /\ part \in {"events", "messages"}

MCNext ==
    /\ UNCHANGED part
    /\ \/ part = "events" /\ ScriptNext /\ UNCHANGED writeVars
       \/ part = "messages" /\ WriteQueueNext /\ UNCHANGED allVars

MCSpec ==
    MCInit /\ [][MCNext]_<<allVars, writeVars, part>> /\ ScriptFairness /\ WriteFairness
=============================================================================
