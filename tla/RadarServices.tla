---------------------------- MODULE RadarServices ----------------------------
(***************************************************************************)
(* What a client may expect of the node's services, whoever the client is:  *)
(* requests wait, one is served at a time (the node is spun by one thread), *)
(* a request that was taken is answered, and everything is lost if the node *)
(* goes away.  RadarNode implements this; the panels are composed with it.  *)
(***************************************************************************)
CONSTANT Requests   \* the requests clients may send, each at most once

VARIABLES node,        \* "up" or "down"
          waiting,     \* the requests the node has not taken yet
          serving,     \* the request whose handler runs (none, or one)
          responses    \* the requests that were answered

nodeVars == <<node, waiting, serving, responses>>

NodeInit ==
    /\ node = "up"
    /\ waiting = {}
    /\ serving = {}
    /\ responses = {}

\* A client sends a request; nobody hears of it if the node is down.
Send(r) ==
    /\ waiting' = IF node = "up" THEN waiting \cup {r} ELSE waiting
    /\ UNCHANGED <<node, serving, responses>>

\* The executor takes a request once the one before was answered.
Serve(r) ==
    /\ r \in waiting
    /\ serving = {}
    /\ serving' = {r}
    /\ waiting' = waiting \ {r}
    /\ UNCHANGED <<node, responses>>

Respond(r) ==
    /\ r \in serving
    /\ serving' = {}
    /\ responses' = responses \cup {r}
    /\ UNCHANGED <<node, waiting>>

\* Shut down, killed or crashed.
NodeGoes ==
    /\ node = "up"
    /\ node' = "down"
    /\ waiting' = {}
    /\ serving' = {}
    /\ UNCHANGED responses

\* Launched again.
NodeReturns ==
    /\ node = "down"
    /\ node' = "up"
    /\ UNCHANGED <<waiting, serving, responses>>

Executor == \E r \in Requests : Serve(r) \/ Respond(r)

NodeNext == NodeGoes \/ NodeReturns \/ \E r \in Requests : Send(r) \/ Serve(r) \/ Respond(r)

\* A node that is up takes what waits and answers what it took.
NodeFairness ==
    /\ WF_nodeVars(\E r \in Requests : Serve(r))
    /\ WF_nodeVars(\E r \in Requests : Respond(r))

NodeSpec == NodeInit /\ [][NodeNext]_nodeVars /\ NodeFairness

NodeTypeOK ==
    /\ node \in {"up", "down"}
    /\ waiting \subseteq Requests
    /\ serving \subseteq Requests
    /\ responses \subseteq Requests

\* Nothing is lost between a request and its answer while the node stays up.
Lost(r) == r \notin waiting \cup serving \cup responses
=============================================================================
