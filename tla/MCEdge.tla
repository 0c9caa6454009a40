------------------------------- MODULE MCEdge -------------------------------
(***************************************************************************)
(* Both ends of a public connection: the flows of the Gateway's four       *)
(* ingresses with their managers and the process's shutdown, the admission *)
(* of HTTP requests, and the connector on the user's machine.  A behaviour *)
(* is about one of the three.                                              *)
(***************************************************************************)
EXTENDS PublicEdge, Admission, ConnectorClient, TLC

CONSTANTS
    f1, f2,      \* two flows
    a, b, c,     \* admission keys
    k1, k2,      \* local clients of the connector
    Subjects     \* the components checked

VARIABLE subject

MCFlows == {f1, f2}
MCKeys == {a, b, c}

Flow(first, second, n, stalled, stopped) ==
    [kinds |-> (f1 :> first) @@ (f2 :> second),
     ports |-> {first, second} \intersect Ports,
     changes |-> n, stalls |-> stalled, stops |-> stopped]

(* Ports and connector while the endpoint changes; every kind while the    *)
(* Agent stalls, of which the connector has no limit to show; the ports    *)
(* and an HTTP request while the process stops.                            *)
MCScenarios ==
    {Flow("tcp", "connector", 2, FALSE, FALSE),
     Flow("udp", "connector", 1, FALSE, FALSE),
     Flow("http", "tcp", 0, TRUE, FALSE),
     Flow("udp", "udp", 0, TRUE, FALSE),
     Flow("connector", "connector", 0, TRUE, FALSE),
     Flow("tcp", "http", 1, TRUE, TRUE),
     Flow("udp", "tcp", 0, FALSE, TRUE)}

(* HTTP requests and an Agent that stalls.                                 *)
StalledHTTP == {Flow("http", "http", 0, TRUE, FALSE)}

(* One noisy neighbour with three callers; two of them, so three keys.     *)
OneNoisyKey == <<b, a, a, a>>
TwoNoisyKeys == <<b, a, c>>
MCLoads == {OneNoisyKey, TwoNoisyKeys}

(* Two brief clients, with one slot and two sessions or with two slots;    *)
(* one client that sends, stays silent, resets or loses its Gateway.       *)
Client(sends, goesOn, gets, gateway) ==
    [up |-> sends, client |-> goesOn, down |-> gets, gateway |-> gateway]

TwoClients(limit, times) ==
    [limit |-> limit, sessions |-> times,
     flows |-> (k1 :> Client(0, "eof", 0, "half")) @@ (k2 :> Client(0, "eof", 0, "drop"))]

MCFlowPlans ==
    {TwoClients(1, 2), TwoClients(2, 1)} \cup
    {[limit |-> 1, sessions |-> 1, flows |-> k1 :> client] :
        client \in {Client(2, "eof", 2, "half"), Client(1, "reset", 1, "half"),
                    Client(1, "silent", 1, "drop"), Client(1, "eof", 0, "silent"),
                    Client(1, "silent", 1, "half")}}

mcvars == <<subject, edgevars, admvars, connvars>>

MCInit ==
    /\ subject \in Subjects /\ EdgeInit /\ AdmInit /\ ConnInit
    /\ subject # "edge" => scenario = CHOOSE sc \in Scenarios : TRUE
    /\ subject # "admission" => load = TwoNoisyKeys
    /\ subject # "connector" => flowPlan = CHOOSE p \in FlowPlans : TRUE

MCNext ==
    /\ UNCHANGED subject
    /\ \/ subject = "edge" /\ EdgeNext /\ UNCHANGED <<admvars, connvars>>
       \/ subject = "admission" /\ AdmNext /\ UNCHANGED <<edgevars, connvars>>
       \/ subject = "connector" /\ ConnNext /\ UNCHANGED <<edgevars, admvars>>

(* The fairness of the three, each where it is the subject.                *)
MCSpec ==
    /\ MCInit /\ [][MCNext]_mcvars
    /\ \A f \in Flows : /\ WF_edgevars(subject = "edge" /\ Handler(f))
                        /\ WF_edgevars(subject = "edge" /\ Monitor(f))
    /\ \A k \in Ports : WF_edgevars(subject = "edge" /\ Manager(k))
    /\ WF_edgevars(subject = "edge" /\ Main)
    /\ \A r \in Requests : WF_admvars(subject = "admission" /\ Caller(r))
    /\ WF_admvars(subject = "admission" /\ TryAcquire(QuietCaller))
    /\ WF_admvars(subject = "admission" /\ AdmTick)
    /\ \A k \in Conns : /\ WF_connvars(subject = "connector" /\ Proceeds(k))
                        /\ WF_connvars(subject = "connector" /\ ReadLocal(k))
                        /\ WF_connvars(subject = "connector" /\ ReadRemote(k))
    /\ \A s \in Session : WF_connvars(subject = "connector" /\ SessionEnds(s))
=============================================================================
