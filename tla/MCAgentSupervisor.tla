------------------------- MODULE MCAgentSupervisor -------------------------
(***************************************************************************)
(* The Agent's process: the supervisor with its Runner, and the pairing    *)
(* page it hosts.  They share no state but the files, which each models as *)
(* far as it reads them; a behaviour is about one of them.                 *)
(*                                                                         *)
(* Two workers and three candidates.  In the first environment the primary *)
(* Gateway never answers, the second refuses, and an operator changes the  *)
(* state; in the second the status ticker runs and the second Gateway      *)
(* refuses by policy; in the third every Gateway is up and the state       *)
(* changes.                                                                *)
(*                                                                         *)
(* Two requests at a time to the pairing page: two operators enrolling; an *)
(* enrollment beside an unpair or a reset; an enrollment and rotations;    *)
(* one operator and a process that stops.                                  *)
(***************************************************************************)
EXTENDS AgentSupervisor, Pairing

CONSTANTS Subjects,     \* the components checked
          c1, c2        \* clients of the pairing page

VARIABLE subject

MCScenarios ==
    {[reach |-> [c \in Candidate |-> IF c = 0 THEN "silent" ELSE IF c = 1 THEN "refuses" ELSE "up"],
      edits |-> 1, ticks |-> FALSE],
     [reach |-> [c \in Candidate |-> IF c = 1 THEN "denies" ELSE "up"], edits |-> 0, ticks |-> TRUE],
     [reach |-> [c \in Candidate |-> "up"], edits |-> 1, ticks |-> FALSE]}

Plan(first, second, sessions, starts, identities, caps) ==
    [ops |-> [c \in Clients |-> IF c = c1 THEN first ELSE second], sessions |-> sessions,
     starts |-> starts, keys |-> identities, capabilities |-> caps]

MCPlans ==
    {Plan({"start", "claim"}, {"start", "claim"}, 2, 1, 1, 1),
     Plan({"start", "claim"}, {"unpair", "reset"}, 1, 1, 2, 1),
     Plan({"start", "claim", "rotate"}, {"rotate"}, 1, 1, 1, 3),
     Plan({"start", "claim", "reset"}, {}, 1, 2, 2, 2)}

MCInit ==
    /\ subject \in Subjects /\ Init /\ PairInit
    /\ subject # "agent" => /\ disk = CHOOSE e \in Edits : TRUE
                            /\ env = CHOOSE e \in Scenarios : TRUE
    /\ subject # "pairing" => plan = CHOOSE p \in Plans : TRUE

MCNext ==
    \/ subject = "agent" /\ Next /\ UNCHANGED <<subject, pairvars>>
    \/ subject = "pairing" /\ PairNext /\ UNCHANGED <<subject, vars>>

(* The fairness of AgentSupervisor and of Pairing, each where it is the    *)
(* subject.                                                                *)
MCSpec ==
    /\ MCInit /\ [][MCNext]_<<subject, vars, pairvars>>
    /\ WF_vars(subject = "agent" /\ Settles)
    /\ WF_vars(subject = "agent" /\ (Supersede \/ StopRunning))
    /\ WF_vars(subject = "agent" /\ sup # "exited" /\ (Tick \/ PublishTick))
    /\ WF_vars(subject = "agent" /\ RunEnds)
    /\ \A w \in Worker : WF_vars(subject = "agent" /\ WorkerProceeds(w))
    /\ \A c \in Clients : /\ WF_pairvars(subject = "pairing" /\ Handle(c))
                          /\ SF_pairvars(subject = "pairing" /\ Waits(c))
    /\ \A s \in Session : WF_pairvars(subject = "pairing" /\ Expire(s))
=============================================================================
