----------------------------- MODULE RateBudget -----------------------------
(***************************************************************************)
(* What the token bucket promises Steam, without saying how: an account of *)
(* at most Capacity units that earns at most BaseRate units a tick and may *)
(* lose credit at any time.  A request costs Unit.  The meter counts what  *)
(* is spent in a window that may be opened at any instant, so a bound on   *)
(* the meter bounds the requests of every window of every length.          *)
(***************************************************************************)
EXTENDS Integers, TLAPS

CONSTANTS Unit, Capacity, BaseRate

(* An assumption of the theorem, which a user of the account discharges.   *)
BudgetConstants ==
  Unit \in Nat \ {0} /\ Capacity \in Nat \ {0} /\ BaseRate \in Nat \ {0}

VARIABLES
  level,   \* the credit in the account
  spent,   \* units spent in the window
  ticks    \* the window's length so far

budgetVars == <<level, spent, ticks>>

Init ==
  /\ level \in 0..Capacity
  /\ spent = 0
  /\ ticks = 0

Spend ==
  /\ level >= Unit
  /\ level' = level - Unit
  /\ spent' = spent + Unit
  /\ UNCHANGED ticks

Earn ==
  /\ level' \in 0..Capacity
  /\ level' <= level + BaseRate
  /\ ticks' = ticks + 1
  /\ UNCHANGED spent

Forfeit ==
  /\ level' \in 0..level
  /\ UNCHANGED <<spent, ticks>>

OpenWindow ==
  /\ spent' = 0
  /\ ticks' = 0
  /\ UNCHANGED level

Next == Spend \/ Earn \/ Forfeit \/ OpenWindow

Spec == Init /\ [][Next]_budgetVars

(* In every window the requests sent cost at most a full bucket and what   *)
(* the window earned at the configured rate.                               *)
WindowBound == spent <= Capacity + ticks * BaseRate

-----------------------------------------------------------------------------
TypeOK ==
  /\ level \in 0..Capacity
  /\ spent \in Nat
  /\ ticks \in Nat

(* WindowBound with the credit still in the account counted on its left:   *)
(* what makes it inductive is that credit cannot be spent twice.           *)
Ledger == spent + level <= Capacity + ticks * BaseRate

(* No window of any length sees more requests than a full bucket and the   *)
(* configured rate pay for.                                                *)
THEOREM WindowIsBounded ==
  ASSUME BudgetConstants
  PROVE  Spec => []WindowBound
<1> USE DEF BudgetConstants
<1>1. Init => TypeOK /\ Ledger
  BY DEF Init, TypeOK, Ledger
<1>2. TypeOK /\ Ledger /\ [Next]_budgetVars => TypeOK' /\ Ledger'
  <2> SUFFICES ASSUME TypeOK, Ledger, [Next]_budgetVars
               PROVE  TypeOK' /\ Ledger'
    OBVIOUS
  <2>0. PICK e \in Nat : e = ticks * BaseRate
    BY DEF TypeOK
  <2>1. spent + level <= Capacity + e
    BY <2>0 DEF Ledger
  <2>2. CASE Spend
    BY <2>0, <2>1, <2>2 DEF Spend, TypeOK, Ledger
  <2>3. CASE Earn
    <3>1. PICK m \in 0..Capacity : m = level'
      BY <2>3 DEF Earn
    <3>2. m <= level + BaseRate
      BY <2>3, <3>1 DEF Earn
    <3>3. spent + m <= Capacity + (e + BaseRate)
      BY <2>1, <3>2 DEF TypeOK
    <3>4. ticks' * BaseRate = e + BaseRate
      BY <2>0, <2>3 DEF Earn, TypeOK
    <3>5. TypeOK' /\ spent' = spent
      BY <2>3 DEF Earn, TypeOK
    <3> QED
      BY <3>1, <3>3, <3>4, <3>5 DEF Ledger
  <2>4. CASE Forfeit
    <3>1. PICK m \in 0..Capacity : m = level'
      BY <2>4 DEF Forfeit, TypeOK
    <3>2. m <= level
      BY <2>4, <3>1 DEF Forfeit, TypeOK
    <3>3. spent + m <= Capacity + e
      BY <2>1, <3>2 DEF TypeOK
    <3>4. ticks' * BaseRate = e
      BY <2>0, <2>4 DEF Forfeit
    <3> QED
      BY <2>4, <3>1, <3>3, <3>4 DEF Forfeit, TypeOK, Ledger
  <2>5. CASE OpenWindow
    BY <2>5 DEF OpenWindow, TypeOK, Ledger
  <2>6. CASE UNCHANGED budgetVars
    BY <2>6 DEF budgetVars, TypeOK, Ledger
  <2> QED
    BY <2>2, <2>3, <2>4, <2>5, <2>6 DEF Next
<1>3. TypeOK /\ Ledger => WindowBound
  <2>1. ASSUME TypeOK PROVE ticks * BaseRate \in Nat
    BY <2>1 DEF TypeOK
  <2> QED
    BY <2>1 DEF TypeOK, Ledger, WindowBound
<1> QED
  BY <1>1, <1>2, <1>3, PTL DEF Spec
=============================================================================
