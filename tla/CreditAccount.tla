--------------------------- MODULE CreditAccount ---------------------------
(***************************************************************************)
(* What the credit windows of protocol v2 (ADR-0021) promise for one       *)
(* direction of one stream, stated on byte counts only.  Every byte of     *)
(* credit the receiver ever gives out is in exactly one place: still       *)
(* usable by the sender, spent on payload that is in flight or held by the *)
(* receiver, or on its way back as a window_update.                        *)
(*                                                                         *)
(* The promise is that the receiver is never asked to hold more than it    *)
(* budgeted, and that returning credit never exceeds the sender's window.  *)
(* CreditFlow is shown to implement this module; CreditAccountProofs       *)
(* proves the promise for every value of the constants.                    *)
(***************************************************************************)
EXTENDS Integers

CONSTANTS
    Allowance,   \* credit the sender starts with (HeaderAllowanceBytes, or 0)
    Initial,     \* credit the receiver grants when it opens the stream
    Budget,      \* bytes the receiver may hold for the stream
    Limit        \* capacity of the sender's window

(* The receiver subtracts the allowance from its first grant, and the      *)
(* window is created large enough for both.                                *)
ASSUME CreditAssumption ==
    /\ Allowance \in Nat /\ Initial \in Nat
    /\ Budget \in Nat /\ Limit \in Nat
    /\ Allowance + Initial <= Budget
    /\ Allowance + Initial <= Limit

VARIABLES
    issued,      \* credit given out so far, the allowance included
    credit,      \* bytes the sender may still send
    inFlight,    \* payload sent and not yet accepted by the receiver
    held,        \* payload the receiver has not yet returned credit for
    returning    \* credit in flight back to the sender

vars == <<issued, credit, inFlight, held, returning>>

(* The four places of a byte count upwards from nought, and the first      *)
(* grant is issued once.                                                   *)
TypeOK ==
    /\ issued \in {Allowance, Allowance + Initial}
    /\ credit \in Nat /\ inFlight \in Nat
    /\ held \in Nat /\ returning \in Nat

Init ==
    /\ issued = Allowance
    /\ credit = Allowance
    /\ inFlight = 0 /\ held = 0 /\ returning = 0

(* The receiver opens the stream and sends its initial grant.              *)
Open ==
    /\ issued = Allowance
    /\ issued' = Allowance + Initial
    /\ returning' = returning + Initial
    /\ UNCHANGED <<credit, inFlight, held>>

(* The sender spends credit on a payload of n bytes.                       *)
Spend(n) ==
    /\ n <= credit
    /\ credit' = credit - n
    /\ inFlight' = inFlight + n
    /\ UNCHANGED <<issued, held, returning>>

(* The receiver accepts n bytes.                                           *)
Accept(n) ==
    /\ n <= inFlight
    /\ inFlight' = inFlight - n
    /\ held' = held + n
    /\ UNCHANGED <<issued, credit, returning>>

(* Mutant: credit is returned for bytes that are still held.               *)
ReturnEarly(n) ==
    /\ n <= held
    /\ returning' = returning + n
    /\ UNCHANGED <<issued, credit, inFlight, held>>

(* The consumer is through with n bytes and their credit is sent back.     *)
Return(n) ==
    /\ n <= held
    /\ held' = held - n
    /\ returning' = returning + n
    /\ UNCHANGED <<issued, credit, inFlight>>

(* A window_update of n bytes reaches the sender.                          *)
Replenish(n) ==
    /\ n <= returning
    /\ returning' = returning - n
    /\ credit' = credit + n
    /\ UNCHANGED <<issued, inFlight, held>>

(* A stream that ends takes payload and returning credit with it.          *)
Forget ==
    /\ inFlight' \in 0..inFlight
    /\ held' \in 0..held
    /\ returning' \in 0..returning
    /\ UNCHANGED <<issued, credit>>

Next ==
    \/ Open
    \/ \E n \in 1..credit : Spend(n)
    \/ \E n \in 1..inFlight : Accept(n)
    \/ \E n \in 1..held : Return(n)
    \/ \E n \in 1..returning : Replenish(n)
    \/ Forget

Spec == Init /\ [][Next]_vars
----------------------------------------------------------------------------
(* Inductive: no credit is created after the initial grant.                *)
Conservation == TypeOK /\ credit + inFlight + held + returning <= issued

(* The receiver is never over its byte budget, not even if everything now  *)
(* in flight arrived at once: a paced sender cannot cause a resource_limit *)
(* reset.                                                                  *)
WithinBudget == inFlight + held <= Budget

(* No window_update in flight can make Window.Add report ErrOverGrant,     *)
(* which would end the stream with a protocol_error.                       *)
NeverOverGrants == credit + returning <= Limit
=============================================================================
