----------------------------- MODULE MCStreams -----------------------------
(***************************************************************************)
(* The payload of a stream: the promise of the credit windows, the flow    *)
(* that implements it, and the Gateway's queue of response payloads.  The  *)
(* three share no state; a behaviour is about one of them.                 *)
(***************************************************************************)
EXTENDS CreditAccount, CreditFlow, GatewayStream, TLC

CONSTANTS
    s1, s2, s3,  \* uploads
    r1,          \* one response stream
    Subjects     \* the components checked

VARIABLE subject

(* A TCP upload of four frames, and two HTTP uploads that share the        *)
(* session budget.                                                         *)
MCLoads == {s1 :> 4 @@ s2 :> 0 @@ s3 :> 0, s1 :> 0 @@ s2 :> 1 @@ s3 :> 1}
MCFrameSizes == s1 :> {1, 2, 3} @@ s2 :> {2} @@ s3 :> {3}

Response(kind, chunks, fails) ==
    [kind |-> r1 :> kind, chunks |-> chunks, fails |-> fails]

(* A connector, whose handler may leave first; the response of an HTTP     *)
(* request and UDP packets while the session fails; a public TCP           *)
(* connection and a connector's UDP flow on a session that stays.          *)
MCScenarios == {Response("connector", 3, FALSE), Response("http", 2, TRUE),
                Response("udp", 2, TRUE), Response("tcp", 1, FALSE),
                Response("connector-udp", 1, FALSE)}

(* One HTTP response on a session that does not fail.                      *)
OneResponse == {Response("http", 2, FALSE)}

mcvars == <<subject, vars, flowvars, streamvars>>

MCInit ==
    /\ subject \in Subjects /\ Init /\ FlowInit /\ StreamInit
    /\ subject # "flow" => left = CHOOSE load \in Loads : TRUE
    /\ subject # "stream" => scenario = CHOOSE sc \in Scenarios : TRUE

MCNext ==
    /\ UNCHANGED subject
    /\ \/ /\ subject = "account" /\ Next
          /\ UNCHANGED <<flowvars, streamvars>>
       \/ /\ subject = "flow" /\ FlowNext
          /\ UNCHANGED <<vars, streamvars>>
       \/ /\ subject = "stream" /\ StreamNext
          /\ UNCHANGED <<vars, flowvars>>

(* No action that is treated fairly can happen in an initial state, so the *)
(* components that stand still satisfy their fairness.                     *)
MCSpec == MCInit /\ [][MCNext]_mcvars /\ FlowFairness /\ StreamFairness
=============================================================================
