------------------------ MODULE CreditAccountProofs ------------------------
(***************************************************************************)
(* The credit promises of CreditAccount, for every allowance, grant,       *)
(* budget and window size that meet CreditAssumption.                      *)
(***************************************************************************)
EXTENDS CreditAccount, TLAPS

(* The first grant leaves room for the header allowance (handleStreamOpen).*)
LEMMA InitConserves == Init => Conservation
  BY CreditAssumption DEF CreditAssumption, Init, Conservation, TypeOK

(* No step of the sender, the receiver or the wire creates credit.         *)
LEMMA StepConserves == Conservation /\ [Next]_vars => Conservation'
<1> SUFFICES ASSUME Conservation, [Next]_vars PROVE Conservation'
  OBVIOUS
<1>a. /\ Allowance \in Nat /\ Initial \in Nat
      /\ issued \in {Allowance, Allowance + Initial} /\ issued \in Nat
      /\ credit \in Nat /\ inFlight \in Nat /\ held \in Nat /\ returning \in Nat
      /\ credit + inFlight + held + returning <= issued
  BY CreditAssumption DEF CreditAssumption, Conservation, TypeOK
<1>1. CASE Open
  BY <1>1, <1>a DEF Open, Conservation, TypeOK
<1>2. ASSUME NEW n \in 1..credit, Spend(n) PROVE Conservation'
  BY <1>2, <1>a DEF Spend, Conservation, TypeOK
<1>3. ASSUME NEW n \in 1..inFlight, Accept(n) PROVE Conservation'
  BY <1>3, <1>a DEF Accept, Conservation, TypeOK
<1>4. ASSUME NEW n \in 1..held, Return(n) PROVE Conservation'
  BY <1>4, <1>a DEF Return, Conservation, TypeOK
<1>5. ASSUME NEW n \in 1..returning, Replenish(n) PROVE Conservation'
  BY <1>5, <1>a DEF Replenish, Conservation, TypeOK
<1>6. CASE Forget
  <2>1. PICK i \in 0..inFlight, h \in 0..held, r \in 0..returning :
           inFlight' = i /\ held' = h /\ returning' = r
    BY <1>6 DEF Forget
  <2>2. issued' = issued /\ credit' = credit
    BY <1>6 DEF Forget
  <2>3. credit + i + h + r <= issued
    BY <1>a
  <2> QED
    BY <1>a, <2>1, <2>2, <2>3 DEF Conservation, TypeOK
<1>7. CASE UNCHANGED vars
  BY <1>7, <1>a DEF vars, Conservation, TypeOK
<1> QED
  BY <1>1, <1>2, <1>3, <1>4, <1>5, <1>6, <1>7 DEF Next

(* The credit given out is never more than the allowance and the initial   *)
(* grant together (tunnelwindow.Window, sendWindowUpdate).                 *)
THEOREM CreditConserved == Spec => []Conservation
  BY InitConserves, StepConserves, PTL DEF Spec

(* A sender that waits in Window.Take before every frame never overruns    *)
(* the receiver's byte budget (stream.enqueue, runtimeStream.enqueue).     *)
THEOREM PacedWithinBudget == Spec => []WithinBudget
<1>1. Conservation => WithinBudget
  BY CreditAssumption DEF CreditAssumption, Conservation, TypeOK, WithinBudget
<1> QED
  BY <1>1, CreditConserved, PTL

(* Window.Add never refuses a window_update of a conforming receiver.      *)
THEOREM GrantsFitWindow == Spec => []NeverOverGrants
<1>1. Conservation => NeverOverGrants
  BY CreditAssumption DEF CreditAssumption, Conservation, TypeOK, NeverOverGrants
<1> QED
  BY <1>1, CreditConserved, PTL
=============================================================================
