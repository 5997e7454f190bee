---------------------------- MODULE TokenBucket ----------------------------
(***************************************************************************)
(* The process-wide token bucket of ingest/ratelimit.py.                   *)
(*                                                                         *)
(* Credit is counted in units, Unit of them to a token, and time in ticks. *)
(* The code keeps the instant of the last refill and reads the clock; here *)
(* the clock is relative: elapsed is the ticks since the last refill, and  *)
(* hourLeft the ticks to the top of the wall-clock hour.  Nothing else of  *)
(* the two clocks is ever looked at.                                       *)
(*                                                                         *)
(* The module has the bucket's steps only; SteamClient composes them with  *)
(* the circuit breaker and the coroutines that call get_json.              *)
(***************************************************************************)
EXTENDS Integers

CONSTANTS
  Unit,       \* units of credit one request costs
  Capacity,   \* the bucket's _capacity
  BaseRate,   \* _base_rate, in units per tick
  MinRate,    \* the floor of reduce_for_rest_of_hour
  HourLen     \* ticks in a wall-clock hour

(* The default capacity is max(1, 2 * rate) tokens, so it holds a token;   *)
(* a rate of zero is a client that is configured never to send.            *)
ASSUME BucketAssumption ==
  /\ Unit \in Nat \ {0} /\ Capacity \in Nat \ {0}
  /\ BaseRate \in Nat \ {0} /\ MinRate \in Nat \ {0}
  /\ HourLen \in Nat \ {0}
  /\ Unit <= Capacity

(* What the deployed rates satisfy and the code does not enforce.          *)
FloorBelowCeiling == MinRate <= BaseRate

VARIABLES
  tokens,        \* _tokens, as of the last refill
  elapsed,       \* ticks since _last_refill, up to the ticks that fill any bucket
  rate,          \* _current_rate
  reducedUntil,  \* _reduced_until_epoch_hour: none, the current hour, or an hour past
  hourLeft       \* ticks to the top of the hour

bucketVars == <<tokens, elapsed, rate, reducedUntil, hourLeft>>

Lesser(a, b) == IF a <= b THEN a ELSE b
Larger(a, b) == IF a >= b THEN a ELSE b

BucketTypeOK ==
  /\ tokens \in 0..Capacity
  /\ elapsed \in 0..Capacity
  /\ rate \in Nat \ {0}
  /\ reducedUntil \in {"none", "thisHour", "past"}
  /\ hourLeft \in 1..HourLen

BucketInit ==
  /\ tokens = Capacity
  /\ elapsed = 0
  /\ rate = BaseRate
  /\ reducedUntil = "none"
  /\ hourLeft \in 1..HourLen

-----------------------------------------------------------------------------
(* _refill: credit the elapsed time at the rate in force, up to capacity,  *)
(* and only then restore the base rate if the reduction's hour is over.    *)

(* Mutants: no cap; the restored rate credited for the whole time.         *)
CreditUncapped == tokens + elapsed * rate
CreditAfterRestoring ==
  Lesser(Capacity,
         tokens + elapsed * (IF reducedUntil = "past" THEN BaseRate ELSE rate))

Credit == Lesser(Capacity, tokens + elapsed * rate)

(* Mutant: the reduction's hour ends, the rate stays.                      *)
RateUnrestored == rate

RateAfterRefill == IF reducedUntil = "past" THEN BaseRate ELSE rate

(* Mutant: the instant of the refill is not recorded.                      *)
RefillKeepingInstant(left) ==
  /\ tokens' = left
  /\ rate' = RateAfterRefill
  /\ reducedUntil' = IF reducedUntil = "past" THEN "none" ELSE reducedUntil
  /\ UNCHANGED <<elapsed, hourLeft>>

Refill(left) ==
  /\ tokens' = left
  /\ elapsed' = 0
  /\ rate' = RateAfterRefill
  /\ reducedUntil' = IF reducedUntil = "past" THEN "none" ELSE reducedUntil
  /\ UNCHANGED hourLeft

(* One pass of the loop in acquire: take a token, or be short of one and   *)
(* sleep, without the lock, for the time the deficit takes to earn.        *)
TakeToken ==
  /\ Credit >= Unit
  /\ Refill(Credit - Unit)

ShortOfToken ==
  /\ Credit < Unit
  /\ Refill(Credit)

(* Mutant: the sleep is rounded down, to no sleep at all.                  *)
TokenWaitRoundedDown == (Unit - Credit) \div RateAfterRefill

TokenWait == (Unit - Credit + RateAfterRefill - 1) \div RateAfterRefill

(* reduce_for_rest_of_hour: the elapsed time is not credited first.        *)
ReduceForRestOfHour ==
  /\ rate' = Larger(rate \div 2, MinRate)
  /\ reducedUntil' = "thisHour"
  /\ UNCHANGED <<tokens, elapsed, hourLeft>>

(* The two clocks advance.                                                 *)
BucketTick ==
  /\ elapsed' = Lesser(elapsed + 1, Capacity)
  /\ hourLeft' = IF hourLeft = 1 THEN HourLen ELSE hourLeft - 1
  /\ reducedUntil' = IF hourLeft = 1 /\ reducedUntil = "thisHour"
                     THEN "past" ELSE reducedUntil
  /\ UNCHANGED <<tokens, rate>>

=============================================================================
