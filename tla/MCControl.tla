------------------------------ MODULE MCControl ------------------------------
(***************************************************************************)
(* The Gateway's control side: the registry of Agent sessions and the      *)
(* exporter of their status.  A behaviour is about one of the two.         *)
(***************************************************************************)
EXTENDS SessionRegistry, StatusExporter

CONSTANTS
    d1, d2,      \* two devices
    Subjects     \* the components checked

VARIABLE subject

MCDevices == {d1, d2}

(* One device with all its tunnels while its authorization is revoked or   *)
(* unavailable; one whose sessions expire; two devices at the session      *)
(* ceiling while the Gateway stops.                                        *)
MCScenarios ==
    {[dials |-> 3, devices |-> <<d1, d1, d1>>, sessions |-> 3, faults |-> "metadata"],
     [dials |-> 2, devices |-> <<d1, d1, d1>>, sessions |-> 3, faults |-> "expiry"],
     [dials |-> 3, devices |-> <<d1, d2, d1>>, sessions |-> 2, faults |-> "shutdown"]}

mcvars == <<subject, vars, expvars>>

MCInit ==
    /\ subject \in Subjects /\ Init /\ ExpInit
    /\ subject # "registry" => scenario = CHOOSE sc \in Scenarios : TRUE

MCNext ==
    /\ UNCHANGED subject
    /\ \/ subject = "registry" /\ Next /\ UNCHANGED expvars
       \/ subject = "exporter" /\ ExpNext /\ UNCHANGED vars

(* The fairness of the two components, each where it is the subject.       *)
MCSpec ==
    /\ MCInit /\ [][MCNext]_mcvars
    /\ \A c \in Conns :
        /\ WF_vars(subject = "registry" /\ (Handshake(c) \/ RunEnds(c)))
        /\ WF_vars(subject = "registry" /\ Heartbeat(c))
    /\ WF_vars(subject = "registry" /\ \E c \in Conns : CloseDoomed(c))
    /\ WF_expvars(subject = "exporter" /\ RunLoop)
    /\ WF_expvars(subject = "exporter" /\ Offering)
=============================================================================
