---------------------------- MODULE MCSessionMux ----------------------------
(* Two handlers of one session.                                            *)
EXTENDS SessionMux

CONSTANTS h1, h2

MCHandlers == {h1, h2}

Scenario(hs, n, p, c, d, b) ==
    [starts |-> hs, streams |-> n, pings |-> p, chunks |-> c, body |-> d, breaks |-> b]

(* Two streams share a quiet session, whose limit is two or one; one       *)
(* stream with a body and a heartbeat on a transport that may fail; one    *)
(* whose request, and one whose response, needs more credit than it starts *)
(* with.                                                                   *)
MCScenarios ==
    {Scenario({h1, h2}, n, 0, 0, 0, FALSE) : n \in 1..2}
    \cup {Scenario({h1}, 1, 1, 0, 1, TRUE), Scenario({h1}, 1, 0, 1, 3, FALSE),
          Scenario({h1}, 1, 0, 2, 0, TRUE)}
=============================================================================
