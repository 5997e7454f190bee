-------------------------- MODULE SteamClientProofs --------------------------
(***************************************************************************)
(* The invariants of SteamClient, for any number of callers and any rates, *)
(* thresholds and halt windows; and, metered by SteamMeter, that its       *)
(* traffic stays within RateBudget, provided the floor of a reduction is   *)
(* not above the configured rate.                                          *)
(***************************************************************************)
EXTENDS SteamMeter, TLAPS

USE BucketAssumption, BreakerAssumption, ClientAssumption

-----------------------------------------------------------------------------
(* The steps that the bucket and the breaker can take in a step of the     *)
(* client.                                                                 *)
BucketMove ==
  TakeToken \/ ShortOfToken \/ ReduceForRestOfHour \/ BucketTick
    \/ UNCHANGED bucketVars

BreakerMove ==
  CheckPasses \/ RecordSuccess \/ Record429 \/ Record403
    \/ RecordBanShapedResponse \/ BreakerTick \/ UNCHANGED breakerVars

(* The bucket's steps keep its type: a refill never overfills it, and a    *)
(* reduction leaves a positive rate.                                       *)
LEMMA BucketStep ==
  ASSUME BucketTypeOK, BucketMove
  PROVE  BucketTypeOK'
<1> USE DEF BucketMove
<1>1. elapsed * rate \in Nat
  BY DEF BucketTypeOK
<1>2. CASE TakeToken
  BY <1>1, <1>2 DEF BucketTypeOK, TakeToken, Refill, Credit, Lesser, RateAfterRefill
<1>3. CASE ShortOfToken
  BY <1>1, <1>3 DEF BucketTypeOK, ShortOfToken, Refill, Credit, Lesser, RateAfterRefill
<1>4. CASE ReduceForRestOfHour
  BY <1>4 DEF BucketTypeOK, ReduceForRestOfHour, Larger
<1>5. CASE BucketTick
  BY <1>5 DEF BucketTypeOK, BucketTick, Lesser
<1>6. CASE UNCHANGED bucketVars
  BY <1>6 DEF BucketTypeOK, bucketVars
<1> QED
  BY <1>2, <1>3, <1>4, <1>5, <1>6

(* A waiter's sleep is a number of ticks.                                  *)
LEMMA TokenWaitIsNat ==
  ASSUME BucketTypeOK, Credit < Unit
  PROVE  TokenWait \in Nat
<1>1. elapsed * rate \in Nat
  BY DEF BucketTypeOK
<1>2. RateAfterRefill \in Nat \ {0} /\ Credit \in Nat
  BY <1>1 DEF BucketTypeOK, RateAfterRefill, Credit, Lesser
<1> QED
  BY <1>2 DEF TokenWait

LEMMA BreakerStep ==
  ASSUME BreakerTypeOK, BreakerMove
  PROVE  BreakerTypeOK'
<1> USE DEF BreakerMove
<1>1. consecutive' \in Nat
  BY DEF BreakerTypeOK, CheckPasses, RecordSuccess, Record429, Record403,
         RecordBanShapedResponse, BreakerTick, breakerVars
<1>2. halt' \in Int /\ halt' >= NoHalt
  BY DEF BreakerTypeOK, CheckPasses, RecordSuccess, Record429, Record403,
         RecordBanShapedResponse, BreakerTick, breakerVars, NoHalt
<1>3. manual' \in BOOLEAN
  BY DEF BreakerTypeOK, CheckPasses, RecordSuccess, Record429, Record403,
         RecordBanShapedResponse, BreakerTick, breakerVars
<1> QED
  BY <1>1, <1>2, <1>3 DEF BreakerTypeOK

(* What any step of a caller does to the suspension points.                *)
CallersTypeOK ==
  /\ pc \in [Callers -> Suspended \cup {"idle"}]
  /\ timer \in [Callers -> Nat]
  /\ attempt \in [Callers -> 0..MaxRetries]

LEMMA SuspendStep ==
  ASSUME CallersTypeOK, NEW c \in Callers, NEW p \in Suspended \cup {"idle"},
         NEW t \in Nat, NEW n \in 0..MaxRetries, Suspend(c, p, t, n)
  PROVE  CallersTypeOK'
BY DEF CallersTypeOK, Suspend

LEMMA AcquireStep ==
  ASSUME TypeOK, NEW c \in Callers, NEW n \in 0..MaxRetries, Acquire(c, n)
  PROVE  BucketTypeOK' /\ CallersTypeOK'
<1>1. CallersTypeOK /\ BucketTypeOK
  BY DEF TypeOK, CallersTypeOK
<1>2. CASE TakeToken /\ Suspend(c, "sent", Timeout, n)
  BY <1>1, <1>2, BucketStep, SuspendStep DEF Suspended, BucketMove
<1>3. CASE ShortOfToken /\ Suspend(c, "tokenWait", TokenWait, n)
  <2>1. TokenWait \in Nat
    BY <1>1, <1>3, TokenWaitIsNat DEF ShortOfToken
  <2> QED
    BY <1>1, <1>3, <2>1, BucketStep, SuspendStep DEF Suspended, BucketMove
<1> QED
  BY <1>2, <1>3 DEF Acquire

LEMMA LeakStep ==
  ASSUME leaked \in [Callers -> Nat], CountLeaks
  PROVE  leaked' \in [Callers -> Nat]
BY DEF CountLeaks

-----------------------------------------------------------------------------
LEMMA TypeInductive == TypeOK /\ [Next]_vars => TypeOK'
<1> SUFFICES ASSUME TypeOK, [Next]_vars
             PROVE  TypeOK'
  OBVIOUS
<1> USE DEF CallersTypeOK
<1>1. ASSUME NEW c \in Callers, Call(c)
      PROVE  TypeOK'
  BY <1>1, AcquireStep, BreakerStep, LeakStep
  DEF Call, Attempt, TypeOK, BreakerMove
<1>2. ASSUME NEW c \in Callers, WakeForToken(c)
      PROVE  TypeOK'
  <2>1. attempt[c] \in 0..MaxRetries
    BY DEF TypeOK
  <2> QED
    BY <1>2, <2>1, AcquireStep, BreakerStep, LeakStep
    DEF WakeForToken, TypeOK, BreakerMove
<1>3. ASSUME NEW c \in Callers, WakeForRetry(c)
      PROVE  TypeOK'
  <2>1. attempt[c] \in 0..MaxRetries /\ 0 \in 0..MaxRetries
    BY DEF TypeOK
  <2>2. CASE Attempt(c, attempt[c])
    BY <1>3, <2>1, <2>2, AcquireStep, BreakerStep, LeakStep
    DEF WakeForRetry, Attempt, TypeOK, BreakerMove
  <2>3. CASE Leave(c) /\ UNCHANGED <<bucketVars, breakerVars>>
    BY <1>3, <2>1, <2>3, SuspendStep, BucketStep, BreakerStep, LeakStep
    DEF WakeForRetry, Leave, TypeOK, Suspended, BucketMove, BreakerMove
  <2> QED
    BY <1>3, <2>2, <2>3 DEF WakeForRetry
<1>4. ASSUME NEW c \in Callers, TooManyRequests(c)
      PROVE  TypeOK'
  <2>1. BucketTypeOK' /\ BreakerTypeOK' /\ leaked' \in [Callers -> Nat]
    BY <1>4, BucketStep, BreakerStep, LeakStep 
    DEF TooManyRequests, TypeOK, BucketMove, BreakerMove
  <2>2. CASE attempt[c] >= MaxRetries
    BY <1>4, <2>1, <2>2, SuspendStep DEF TooManyRequests, Leave, TypeOK, Suspended
  <2>3. CASE ~(attempt[c] >= MaxRetries)
    <3>1. PICK d \in BackoffDelays(attempt[c]) :
             Suspend(c, "backoff", d, attempt[c] + 1)
      BY <1>4, <2>3 DEF TooManyRequests
    <3>2. d \in Nat /\ attempt[c] + 1 \in 0..MaxRetries
      BY <2>3 DEF BackoffDelays, TypeOK
    <3> QED
      BY <2>1, <3>1, <3>2, SuspendStep DEF TypeOK, Suspended
  <2> QED
    BY <2>2, <2>3
<1>5. ASSUME NEW c \in Callers,
             BanShaped(c) \/ Forbidden(c) \/ Answered(c) \/ TransportError(c)
      PROVE  TypeOK'
  <2>1. BucketTypeOK'
    BY <1>5, BucketStep
    DEF BanShaped, Forbidden, Answered, TransportError, TypeOK, BucketMove, BreakerMove
  <2>2. BreakerTypeOK' /\ leaked' \in [Callers -> Nat]
    BY <1>5, BreakerStep, LeakStep
    DEF BanShaped, Forbidden, Answered, TransportError, TypeOK, BucketMove, BreakerMove
  <2>3. CallersTypeOK'
    BY <1>5, SuspendStep
    DEF BanShaped, Forbidden, Answered, TransportError, TypeOK, Leave, Suspended
  <2> QED
    BY <2>1, <2>2, <2>3 DEF TypeOK
<1>6. ASSUME Tick
      PROVE  TypeOK'
  <2>1. BucketTypeOK' /\ BreakerTypeOK' /\ leaked' \in [Callers -> Nat]
    BY <1>6, BucketStep, BreakerStep, LeakStep DEF Tick, TypeOK, BucketMove, BreakerMove
  <2>2. CallersTypeOK'
    BY <1>6 DEF Tick, TypeOK
  <2> QED
    BY <2>1, <2>2 DEF TypeOK
<1>7. CASE UNCHANGED vars
  <2>1. BucketTypeOK' /\ BreakerTypeOK'
    BY <1>7, BucketStep, BreakerStep DEF vars, TypeOK, BucketMove, BreakerMove
  <2> QED
    BY <1>7, <2>1 DEF vars, clientVars, TypeOK
<1> QED
  BY <1>1, <1>2, <1>3, <1>4, <1>5, <1>6, <1>7 DEF Next, Step, Respond

LEMMA InitTypeOK == Init => TypeOK
<1> SUFFICES ASSUME Init PROVE TypeOK
  OBVIOUS
<1>1. BucketTypeOK
  BY DEF Init, BucketInit, BucketTypeOK
<1>2. BreakerTypeOK
  <2>1. consecutive \in Nat /\ halt \in Int /\ halt >= NoHalt
    BY DEF Init, BreakerInit, NoHalt
  <2>2. manual \in BOOLEAN
    BY DEF Init, BreakerInit
  <2> QED
    BY <2>1, <2>2 DEF BreakerTypeOK
<1> QED
  BY <1>1, <1>2 DEF Init, TypeOK, Suspended

(* Every variable keeps its type: the credit stays within the bucket, the  *)
(* refill rate stays positive, and no call retries beyond max_retries.     *)
THEOREM TypeCorrect == Spec => []TypeOK
<1> QED
  BY InitTypeOK, TypeInductive, PTL DEF Spec

-----------------------------------------------------------------------------
(* A step of the client is a step of the bucket beside one of the breaker. *)
LEMMA SharedMoves == [Next]_vars => BucketMove /\ BreakerMove
<1> SUFFICES ASSUME [Next]_vars PROVE BucketMove /\ BreakerMove
  OBVIOUS
<1> USE DEF BucketMove, BreakerMove
<1>1. ASSUME NEW c \in Callers, Call(c) \/ WakeForToken(c) \/ WakeForRetry(c)
      PROVE  BucketMove /\ BreakerMove
  BY <1>1 DEF Call, WakeForToken, WakeForRetry, Attempt, Acquire
<1>2. ASSUME NEW c \in Callers, Respond(c)
      PROVE  BucketMove /\ BreakerMove
  BY <1>2 DEF Respond, BanShaped, TooManyRequests, Forbidden, Answered,
              TransportError
<1>3. ASSUME Tick
      PROVE  BucketMove /\ BreakerMove
  BY <1>3 DEF Tick
<1>4. CASE UNCHANGED vars
  BY <1>4 DEF vars
<1> QED
  BY <1>1, <1>2, <1>3, <1>4 DEF Next, Step

(* While the breaker stays open, only a caller that was already waiting    *)
(* for a token sends, and none starts to wait.                             *)
LEMMA OpenSteps ==
  ASSUME TypeOK, Next, Open, NEW d \in Callers
  PROVE  /\ Sends(d) => pc[d] = "tokenWait"
         /\ pc'[d] = "tokenWait" => pc[d] = "tokenWait"
<1> USE DEF Sends, Suspend, Leave
<1>1. ASSUME NEW c \in Callers, Call(c)
      PROVE  FALSE
  BY <1>1 DEF Call, Attempt, CheckPasses
<1>2. ASSUME NEW c \in Callers, WakeForToken(c)
      PROVE  /\ Sends(d) => pc[d] = "tokenWait"
             /\ pc'[d] = "tokenWait" => pc[d] = "tokenWait"
  BY <1>2 DEF WakeForToken, Acquire, TypeOK
<1>3. ASSUME NEW c \in Callers, WakeForRetry(c)
      PROVE  /\ Sends(d) => pc[d] = "tokenWait"
             /\ pc'[d] = "tokenWait" => pc[d] = "tokenWait"
  BY <1>3 DEF WakeForRetry, Attempt, CheckPasses, TypeOK
<1>4. ASSUME NEW c \in Callers, Respond(c)
      PROVE  /\ Sends(d) => pc[d] = "tokenWait"
             /\ pc'[d] = "tokenWait" => pc[d] = "tokenWait"
  BY <1>4 DEF Respond, BanShaped, TooManyRequests, Forbidden, Answered,
              TransportError, TypeOK
<1>5. CASE Tick
  BY <1>5 DEF Tick
<1> QED
  BY <1>1, <1>2, <1>3, <1>4, <1>5 DEF Next, Step

(* LeakBound is not inductive: what makes the second request impossible is *)
(* that a caller still waiting for its token has leaked none yet; and the  *)
(* caller whose answer opened the breaker is out of get_json, or before a  *)
(* retry that will check again.                                            *)
WaitersHaveNotLeaked ==
  Open => \A c \in Callers : pc[c] = "tokenWait" => leaked[c] = 0

HasHeeded(c) == leaked[c] = 0 /\ pc[c] \in {"idle", "backoff"}

LeakInv ==
  /\ \A c \in Callers : leaked[c] <= 1
  /\ WaitersHaveNotLeaked
  /\ IF Open THEN \E c \in Callers : HasHeeded(c)
             ELSE \A c \in Callers : leaked[c] = 0

(* Only an answer opens the breaker, and its caller then stops or sleeps.  *)
LEMMA OpeningStep ==
  ASSUME TypeOK, Next, ~Open, Open'
  PROVE  \E c \in Callers : pc'[c] \in {"idle", "backoff"}
<1>1. ASSUME NEW c \in Callers, Call(c) \/ WakeForToken(c) \/ WakeForRetry(c)
      PROVE  FALSE
  BY <1>1 DEF Call, WakeForToken, WakeForRetry, Attempt, CheckPasses, Open,
              breakerVars, NoHalt
<1>2. ASSUME NEW c \in Callers, Respond(c)
      PROVE  pc'[c] \in {"idle", "backoff"}
  BY <1>2 DEF Respond, BanShaped, TooManyRequests, Forbidden, Answered,
              TransportError, Leave, Suspend, TypeOK
<1>3. ASSUME Tick
      PROVE  FALSE
  BY <1>3 DEF Tick, BreakerTick, Open, TypeOK, BreakerTypeOK
<1> QED
  BY <1>1, <1>2, <1>3 DEF Next, Step

(* One that has heeded the halt stays so while it lasts.                   *)
LEMMA HeededStep ==
  ASSUME TypeOK, Next, Open, Open', CountLeaks, NEW c \in Callers, HasHeeded(c)
  PROVE  HasHeeded(c)'
<1>1. pc'[c] \in {"idle", "backoff"}
  <2> USE DEF HasHeeded, Suspend, Leave
  <2>1. ASSUME NEW d \in Callers, Call(d)
        PROVE  FALSE
    BY <2>1 DEF Call, Attempt, CheckPasses
  <2>2. ASSUME NEW d \in Callers, WakeForToken(d)
        PROVE  pc'[c] \in {"idle", "backoff"}
    BY <2>2 DEF WakeForToken, Acquire, TypeOK
  <2>3. ASSUME NEW d \in Callers, WakeForRetry(d)
        PROVE  pc'[c] \in {"idle", "backoff"}
    BY <2>3 DEF WakeForRetry, Attempt, CheckPasses, TypeOK
  <2>4. ASSUME NEW d \in Callers, Respond(d)
        PROVE  pc'[c] \in {"idle", "backoff"}
    BY <2>4 DEF Respond, BanShaped, TooManyRequests, Forbidden, Answered,
                TransportError, TypeOK
  <2>5. CASE Tick
    BY <2>5 DEF Tick
  <2> QED
    BY <2>1, <2>2, <2>3, <2>4, <2>5 DEF Next, Step
<1>2. ~Sends(c)
  BY <1>1 DEF Sends
<1> QED
  BY <1>1, <1>2 DEF HasHeeded, CountLeaks, TypeOK

(* An open breaker lets at most one request per caller through, and none   *)
(* of one caller at least: the check before acquire is made once per       *)
(* request, however the callers, the halts and the clock interleave.       *)
THEOREM LeakIsBounded == Spec => []LeakBound
<1>1. Init => LeakInv
  BY DEF Init, LeakInv, WaitersHaveNotLeaked, BreakerInit, Open, NoHalt
<1>2. TypeOK /\ LeakInv /\ [Next]_vars => LeakInv'
  <2> SUFFICES ASSUME TypeOK, LeakInv, [Next]_vars
               PROVE  LeakInv'
    OBVIOUS
  <2>1. CASE UNCHANGED vars
    BY <2>1 DEF vars, breakerVars, clientVars, LeakInv, HasHeeded,
                WaitersHaveNotLeaked, Open
  <2>2. CASE Next
    <3>1. CountLeaks
      BY <2>2 DEF Next, Step, Call, WakeForToken, WakeForRetry, Respond, BanShaped,
                  TooManyRequests, Forbidden, Answered, TransportError, Tick
    <3>2. CASE ~(Open /\ Open')
      <4>1. \A c \in Callers : leaked'[c] = 0
        BY <3>1, <3>2 DEF CountLeaks
      <4>2. Open' => \E c \in Callers : HasHeeded(c)'
        BY <2>2, <3>2, <4>1, OpeningStep DEF HasHeeded
      <4> QED
        BY <4>1, <4>2 DEF LeakInv, WaitersHaveNotLeaked
    <3>3. CASE Open /\ Open'
      <4>1. ASSUME NEW d \in Callers
            PROVE  /\ leaked'[d] <= 1
                   /\ pc'[d] = "tokenWait" => leaked'[d] = 0
        <5>1. leaked'[d] = leaked[d] + (IF Sends(d) THEN 1 ELSE 0)
          BY <3>1, <3>3 DEF CountLeaks
        <5>2. /\ Sends(d) => pc[d] = "tokenWait"
              /\ pc'[d] = "tokenWait" => pc[d] = "tokenWait"
          BY <2>2, <3>3, OpenSteps
        <5>3. pc'[d] = "tokenWait" => ~Sends(d)
          BY DEF Sends
        <5> QED
          BY <3>3, <5>1, <5>2, <5>3 DEF LeakInv, WaitersHaveNotLeaked, TypeOK
      <4>2. \E c \in Callers : HasHeeded(c)'
        BY <2>2, <3>1, <3>3, HeededStep DEF LeakInv
      <4> QED
        BY <3>3, <4>1, <4>2 DEF LeakInv, WaitersHaveNotLeaked
    <3> QED
      BY <3>2, <3>3
  <2> QED
    BY <2>1, <2>2
<1>3. LeakInv => LeakBound
  BY DEF LeakInv, LeakBound, HasHeeded
<1> QED
  BY <1>1, <1>2, <1>3, TypeCorrect, PTL DEF Spec

(* A tripping count of 429s and the halt it caused are never separated.    *)
THEOREM TripIsAlwaysHeld == Spec => []TripIsHeld
<1>1. Init => TripIsHeld
  BY DEF Init, BreakerInit, TripIsHeld
<1>2. TypeOK /\ TripIsHeld /\ [Next]_vars => TripIsHeld'
  BY SharedMoves
  DEF TypeOK, BreakerTypeOK, TripIsHeld, BreakerMove, CheckPasses, RecordSuccess,
      Record429, Record403, RecordBanShapedResponse, BreakerTick, breakerVars, NoHalt
<1> QED
  BY <1>1, <1>2, TypeCorrect, PTL DEF Spec

(* The bucket is never left at a rate other than the configured one        *)
(* without a restoration pending.                                          *)
THEOREM ReductionsEnd == Spec => []ReductionIsTemporary
<1>1. Init => ReductionIsTemporary
  BY DEF Init, BucketInit, ReductionIsTemporary
<1>2. ReductionIsTemporary /\ [Next]_vars => ReductionIsTemporary'
  BY SharedMoves
  DEF ReductionIsTemporary, BucketMove, TakeToken, ShortOfToken, Refill,
      RateAfterRefill, ReduceForRestOfHour, BucketTick, bucketVars
<1> QED
  BY <1>1, <1>2, PTL DEF Spec

(* With halt windows of one length, as deployed, a halt is never cut short *)
(* by an answer that was in flight when it began: it is at most a full     *)
(* window, which is what any answer that renews it sets.                   *)
HaltInv == ~manual => halt <= Halt429

THEOREM HaltRunsItsCourse ==
  ASSUME Halt429 = Halt403
  PROVE  Spec => HaltNotCutShort
<1>1. Init => HaltInv
  BY DEF Init, BreakerInit, HaltInv, NoHalt
<1>2. TypeOK /\ HaltInv /\ [Next]_vars => HaltInv'
  <2> SUFFICES ASSUME TypeOK, HaltInv, BreakerMove
               PROVE  HaltInv'
    BY SharedMoves
  <2> USE DEF TypeOK, BreakerTypeOK, HaltInv, NoHalt
  <2>1. CASE CheckPasses
    BY <2>1 DEF CheckPasses
  <2>2. CASE RecordSuccess \/ UNCHANGED breakerVars
    BY <2>2 DEF RecordSuccess, breakerVars
  <2>3. CASE Record429
    BY <2>3 DEF Record429
  <2>4. CASE Record403
    BY <2>4 DEF Record403
  <2>5. CASE RecordBanShapedResponse
    BY <2>5 DEF RecordBanShapedResponse
  <2>6. CASE BreakerTick
    BY <2>6 DEF BreakerTick
  <2> QED
    BY <2>1, <2>2, <2>3, <2>4, <2>5, <2>6 DEF BreakerMove
<1>3. TypeOK /\ HaltInv /\ [Next]_vars => [halt > 0 => halt' >= halt - 1 \/ manual']_vars
  <2> SUFFICES ASSUME TypeOK, HaltInv, BreakerMove, halt > 0, ~manual'
               PROVE  halt' >= halt - 1
    BY SharedMoves
  <2> USE DEF TypeOK, BreakerTypeOK, HaltInv
  <2>0. ~manual
    BY DEF BreakerMove, CheckPasses, RecordSuccess, Record429, Record403,
           RecordBanShapedResponse, BreakerTick, breakerVars
  <2>1. CASE CheckPasses
    BY <2>1 DEF CheckPasses, Open
  <2>2. CASE RecordSuccess \/ UNCHANGED breakerVars
    BY <2>2 DEF RecordSuccess, breakerVars
  <2>3. CASE Record429
    BY <2>0, <2>3 DEF Record429
  <2>4. CASE Record403
    BY <2>0, <2>4 DEF Record403
  <2>5. CASE RecordBanShapedResponse
    BY <2>5 DEF RecordBanShapedResponse
  <2>6. CASE BreakerTick
    BY <2>6 DEF BreakerTick
  <2> QED
    BY <2>1, <2>2, <2>3, <2>4, <2>5, <2>6 DEF BreakerMove
<1> QED
  BY <1>1, <1>2, <1>3, TypeCorrect, PTL DEF Spec, HaltNotCutShort

-----------------------------------------------------------------------------
(* The contract with the callers.  First what each step of the breaker is  *)
(* in its three abstract states.                                           *)
LEMMA BreakerSimulation ==
  ASSUME TypeOK
  PROVE  /\ CheckPasses => BreakerState = "closed" /\ BreakerState' = "closed"
         /\ RecordSuccess \/ UNCHANGED breakerVars => BreakerState' = BreakerState
         /\ Record429 \/ Record403 => BreakerState' \in Market!AfterRefusal
         /\ RecordBanShapedResponse => BreakerState' = "banned"
         /\ BreakerTick =>
              \/ BreakerState' = BreakerState
              \/ BreakerState = "halted" /\ BreakerState' = "closed"
<1> USE DEF BreakerState, TypeOK, BreakerTypeOK
<1>1. CheckPasses => BreakerState = "closed" /\ BreakerState' = "closed"
  BY DEF CheckPasses, Open, NoHalt
<1>2. RecordSuccess \/ UNCHANGED breakerVars => BreakerState' = BreakerState
  BY DEF RecordSuccess, breakerVars
<1>3. Record429 \/ Record403 => BreakerState' \in Market!AfterRefusal
  BY DEF Record429, Record403, Market!AfterRefusal
<1>4. RecordBanShapedResponse => BreakerState' = "banned"
  BY DEF RecordBanShapedResponse
<1>5. BreakerTick =>
        \/ BreakerState' = BreakerState
        \/ BreakerState = "halted" /\ BreakerState' = "closed"
  BY DEF BreakerTick
<1> QED
  BY <1>1, <1>2, <1>3, <1>4, <1>5

Asking == {c \in Callers : pc[c] # "idle"}

(* What a suspension does to the set of those that await get_json.         *)
LEMMA AskingAfterSuspend ==
  ASSUME TypeOK, NEW c \in Callers, NEW p, NEW t, NEW n, Suspend(c, p, t, n)
  PROVE  Asking' = IF p = "idle" THEN Asking \ {c} ELSE Asking \cup {c}
BY DEF Asking, Suspend, TypeOK

LEMMA ContractStep ==
  ASSUME TypeOK, [Next]_vars
  PROVE  [Market!ClientNext]_(Market!marketVars)
<1> USE DEF Market!ClientNext, Market!marketVars
<1>0. Asking = {c \in Callers : pc[c] # "idle"}
      /\ Asking' = {c \in Callers : pc'[c] # "idle"}
  BY DEF Asking
<1>1. ASSUME NEW c \in Callers, Call(c)
      PROVE  Market!Ask(c)
  <2>1. c \notin Asking /\ Asking' = Asking \cup {c}
    BY <1>1, AskingAfterSuspend DEF Call, Attempt, Acquire, Asking
  <2>2. BreakerState = "closed" /\ BreakerState' = "closed"
    BY <1>1, BreakerSimulation DEF Call, Attempt
  <2> QED
    BY <1>0, <2>1, <2>2 DEF Market!Ask
<1>2. ASSUME NEW c \in Callers, WakeForToken(c)
      PROVE  Asking' = Asking /\ BreakerState' = BreakerState
  <2>1. c \in Asking /\ Asking' = Asking \cup {c}
    BY <1>2, AskingAfterSuspend DEF WakeForToken, Acquire, Asking
  <2> QED
    BY <1>2, <2>1, BreakerSimulation DEF WakeForToken
<1>3. ASSUME NEW c \in Callers, WakeForRetry(c)
      PROVE  \/ Asking' = Asking /\ BreakerState' = BreakerState
             \/ Market!Ends(c)
  <2>0. c \in Asking
    BY <1>3 DEF WakeForRetry, Asking
  <2>1. CASE Attempt(c, attempt[c])
    BY <2>0, <2>1, AskingAfterSuspend, BreakerSimulation DEF Attempt, Acquire
  <2>2. CASE Leave(c) /\ UNCHANGED <<bucketVars, breakerVars>>
    <3>1. Asking' = Asking \ {c}
      BY <2>2, AskingAfterSuspend DEF Leave
    <3>2. BreakerState' = BreakerState
      BY <2>2, BreakerSimulation
    <3>3. BreakerState' \in Market!AfterRaise
      BY <3>2 DEF Market!AfterRaise, Market!AfterRefusal
    <3> QED
      BY <1>0, <2>0, <3>1, <3>3 DEF Market!Ends
  <2> QED
    BY <1>3, <2>1, <2>2 DEF WakeForRetry
<1>4. ASSUME NEW c \in Callers, Respond(c)
      PROVE  Market!Retries(c) \/ Market!Ends(c)
  <2>0. c \in Asking
    BY <1>4 DEF Respond, BanShaped, TooManyRequests, Forbidden, Answered,
                TransportError, Asking
  <2>1. Asking' = Asking \ {c} \/ (Asking' = Asking /\ TooManyRequests(c))
    BY <1>4, <2>0, AskingAfterSuspend
    DEF Respond, BanShaped, TooManyRequests, Forbidden, Answered, TransportError,
        Leave
  <2>2. BreakerState' \in Market!AfterRaise
        /\ (TooManyRequests(c) => BreakerState' \in Market!AfterRefusal)
    BY <1>4, BreakerSimulation
    DEF Respond, BanShaped, TooManyRequests, Forbidden, Answered, TransportError,
        Market!AfterRaise, Market!AfterRefusal
  <2> QED
    BY <1>0, <2>0, <2>1, <2>2 DEF Market!Retries, Market!Ends
<1>5. CASE Tick
  <2>1. Asking' = Asking
    BY <1>5 DEF Tick, Asking
  <2>2. \/ BreakerState' = BreakerState
        \/ BreakerState = "halted" /\ BreakerState' = "closed"
    BY <1>5, BreakerSimulation DEF Tick
  <2> QED
    BY <1>0, <2>1, <2>2 DEF Market!HaltElapses
<1>6. CASE UNCHANGED vars
  BY <1>6 DEF vars, clientVars, breakerVars, BreakerState
<1> QED
  BY <1>0, <1>1, <1>2, <1>3, <1>4, <1>5, <1>6 DEF Next, Step

(* The client implements MarketClient, on which the scheduler is built:    *)
(* get_json is only begun while the breaker is closed, nothing but time    *)
(* ends a halt, and nothing ends a ban.                                    *)
THEOREM ClientKeepsContract == Spec => KeepsContract
<1>1. Init => Market!ClientInit
  BY DEF Init, BreakerInit, Market!ClientInit, BreakerState, NoHalt
<1>2. TypeOK /\ [Next]_vars => [Market!ClientNext]_(Market!marketVars)
  BY ContractStep
<1> QED
  BY <1>1, <1>2, TypeCorrect, PTL DEF Spec, KeepsContract, Market!ClientSpec

-----------------------------------------------------------------------------
(* The meter: step simulation of RateBudget.                               *)
USE MeterAssumption

(* The rate in force is between the floor and the configured rate.         *)
RateInRange == MinRate <= rate /\ rate <= BaseRate

LEMMA TimesMonotone ==
  ASSUME NEW a \in Nat, NEW b \in Nat, NEW c \in Nat, b <= c
  PROVE  a * b \in Nat /\ a * b <= a * c
<1>1. a * b \in Nat /\ a * (c - b) \in Nat
  OBVIOUS
<1>2. a * c = a * b + a * (c - b)
  OBVIOUS
<1> QED
  BY <1>1, <1>2

(* What each step of the bucket does to the credit a refill would find.    *)
LEMMA CreditOfMove ==
  ASSUME FloorBelowCeiling, BucketTypeOK, RateInRange
  PROVE  /\ Credit \in 0..Capacity
         /\ TakeToken => Credit >= Unit /\ Credit' = Credit - Unit
         /\ ShortOfToken \/ UNCHANGED bucketVars => Credit' = Credit
         /\ ReduceForRestOfHour => Credit' \in 0..Credit
         /\ BucketTick => Credit' \in 0..Capacity /\ Credit' <= Credit + BaseRate
<1> USE DEF BucketTypeOK
<1>1. elapsed * rate \in Nat
  OBVIOUS
<1>2. Credit \in 0..Capacity
  BY <1>1 DEF Credit, Lesser
<1>3. ASSUME NEW left \in 0..Capacity, Refill(left)
      PROVE  Credit' = left
  <2>1. elapsed' * rate' = 0
    BY <1>3 DEF Refill, RateAfterRefill
  <2> QED
    BY <1>3, <2>1 DEF Refill, Credit, Lesser
<1>4. TakeToken => Credit >= Unit /\ Credit' = Credit - Unit
  BY <1>2, <1>3 DEF TakeToken
<1>5. ShortOfToken => Credit' = Credit
  BY <1>2, <1>3 DEF ShortOfToken
<1>6. UNCHANGED bucketVars => Credit' = Credit
  BY DEF bucketVars, Credit
<1>7. ASSUME ReduceForRestOfHour
      PROVE  Credit' \in 0..Credit
  <2>1. rate' \in Nat /\ rate' <= rate
    BY <1>7 DEF ReduceForRestOfHour, Larger, RateInRange
  <2>2. elapsed * rate' \in Nat /\ elapsed * rate' <= elapsed * rate
    <3>1. elapsed \in Nat /\ rate \in Nat
      OBVIOUS
    <3> QED
      BY <2>1, <3>1, TimesMonotone
  <2> QED
    BY <1>1, <1>7, <2>2 DEF ReduceForRestOfHour, Credit, Lesser
<1>8. ASSUME BucketTick
      PROVE  Credit' \in 0..Capacity /\ Credit' <= Credit + BaseRate
  <2>1. rate' = rate /\ tokens' = tokens
    BY <1>8 DEF BucketTick
  <2>2. CASE elapsed + 1 <= Capacity
    <3>1. elapsed' * rate = elapsed * rate + rate
      BY <1>8, <2>2 DEF BucketTick, Lesser
    <3> QED
      BY <1>1, <2>1, <3>1 DEF Credit, Lesser, RateInRange
  <2>3. CASE ~(elapsed + 1 <= Capacity)
    <3>1. elapsed' = elapsed
      BY <1>8, <2>3 DEF BucketTick, Lesser
    <3> QED
      BY <1>2, <2>1, <3>1 DEF Credit, Lesser
  <2> QED
    BY <2>2, <2>3
<1> QED
  BY <1>2, <1>4, <1>5, <1>6, <1>7, <1>8

(* A move of the bucket keeps the rate in range.                           *)
LEMMA RateOfMove ==
  ASSUME FloorBelowCeiling, BucketTypeOK, RateInRange, BucketMove
  PROVE  RateInRange'
BY DEF FloorBelowCeiling, BucketTypeOK, RateInRange, BucketMove, TakeToken,
       ShortOfToken, Refill, RateAfterRefill, ReduceForRestOfHour, Larger,
       BucketTick, bucketVars

(* A caller's step sends at most one request, and pays for it.             *)
LEMMA SendingTakesAToken ==
  ASSUME TypeOK, NEW c \in Callers, Step(c)
  PROVE  \/ TakeToken /\ \E d \in Callers : Sends(d)
         \/ /\ ShortOfToken \/ ReduceForRestOfHour \/ UNCHANGED bucketVars
            /\ ~\E d \in Callers : Sends(d)
<1> USE DEF TypeOK, Sends, Suspend
<1>1. ASSUME NEW n, Acquire(c, n), pc[c] # "sent"
      PROVE  \/ TakeToken /\ Sends(c)
             \/ ShortOfToken /\ ~\E d \in Callers : Sends(d)
  BY <1>1 DEF Acquire
<1>2. ASSUME Leave(c) \/ \E t, n : Suspend(c, "backoff", t, n)
      PROVE  ~\E d \in Callers : Sends(d)
  BY <1>2 DEF Leave
<1>3. CASE Call(c)
  BY <1>1, <1>3 DEF Call, Attempt
<1>4. CASE WakeForToken(c)
  BY <1>1, <1>4 DEF WakeForToken
<1>5. CASE WakeForRetry(c)
  BY <1>1, <1>2, <1>5 DEF WakeForRetry, Attempt
<1>6. CASE Respond(c)
  BY <1>2, <1>6 DEF Respond, BanShaped, TooManyRequests, Forbidden, Answered,
                    TransportError
<1> QED
  BY <1>3, <1>4, <1>5, <1>6 DEF Step

-----------------------------------------------------------------------------
MeterInv == TypeOK /\ RateInRange

LEMMA MeterInvariant ==
  ASSUME FloorBelowCeiling
  PROVE  MSpec => []MeterInv
<1>1. MInit => MeterInv
  <2>1. Init => TypeOK
    BY InitTypeOK
  <2> QED
    BY <2>1 DEF MInit, Init, BucketInit, MeterInv, RateInRange, FloorBelowCeiling
<1>2. MeterInv /\ [MNext]_meterVars => MeterInv'
  <2> SUFFICES ASSUME MeterInv, [MNext]_meterVars
               PROVE  MeterInv'
    OBVIOUS
  <2>1. [Next]_vars
    BY DEF MNext, MStep, MTick, OpenWindow, meterVars, Next
  <2> QED
    BY <2>1, TypeInductive, SharedMoves, RateOfMove DEF MeterInv, TypeOK
<1> QED
  BY <1>1, <1>2, PTL DEF MSpec

(* Every step of the metered client is a step of the budget, or a stutter. *)
LEMMA BudgetStep ==
  ASSUME FloorBelowCeiling, MeterInv, [MNext]_meterVars
  PROVE  [Budget!Next]_(Budget!budgetVars)
<1> USE DEF MeterInv, TypeOK, Budget!Next, Budget!budgetVars
<1>1. CASE MStep
  <2>1. PICK c \in Callers : Step(c)
    BY <1>1 DEF MStep
  <2>2. CASE TakeToken /\ \E d \in Callers : Sends(d)
    <3>1. Budget!Spend
      BY <1>1, <2>2, CreditOfMove DEF MStep, Budget!Spend
    <3> QED
      BY <3>1
  <2>3. CASE /\ ShortOfToken \/ ReduceForRestOfHour \/ UNCHANGED bucketVars
             /\ ~\E d \in Callers : Sends(d)
    <3>1. Credit \in 0..Capacity /\ Credit' \in 0..Credit
      BY <2>3, CreditOfMove
    <3>2. Budget!Forfeit
      BY <1>1, <2>3, <3>1 DEF MStep, Budget!Forfeit
    <3> QED
      BY <3>2
  <2> QED
    BY <2>1, <2>2, <2>3, SendingTakesAToken
<1>2. CASE MTick
  <2>1. BucketTick
    BY <1>2 DEF MTick, Tick
  <2>2. Budget!Earn
    BY <1>2, <2>1, CreditOfMove DEF MTick, Budget!Earn
  <2> QED
    BY <2>2
<1>3. CASE OpenWindow
  <2>1. Credit' = Credit
    BY <1>3, CreditOfMove DEF OpenWindow, vars
  <2>2. Budget!OpenWindow
    BY <1>3, <2>1 DEF OpenWindow, Budget!OpenWindow
  <2> QED
    BY <2>2
<1>4. CASE UNCHANGED meterVars
  <2>1. Credit' = Credit
    BY <1>4, CreditOfMove DEF meterVars, vars
  <2> QED
    BY <1>4, <2>1 DEF meterVars
<1> QED
  BY <1>1, <1>2, <1>3, <1>4 DEF MNext

(* The client refines the budget: its lazy refills, its reductions and     *)
(* restorations and its sleeping waiters amount to an account that earns   *)
(* at most the configured rate, and every request is paid from it.         *)
THEOREM ClientKeepsBudget ==
  ASSUME FloorBelowCeiling
  PROVE  MSpec => KeepsBudget
<1>1. MInit => Budget!Init
  <2> SUFFICES ASSUME MInit PROVE Budget!Init
    OBVIOUS
  <2>1. Credit = Capacity
    <3>1. elapsed * rate = 0
      BY DEF MInit, Init, BucketInit
    <3> QED
      BY <3>1 DEF MInit, Init, BucketInit, Credit, Lesser
  <2> QED
    BY <2>1 DEF MInit, Budget!Init
<1>2. MeterInv /\ [MNext]_meterVars => [Budget!Next]_(Budget!budgetVars)
  BY BudgetStep
<1> QED
  BY <1>1, <1>2, MeterInvariant, PTL DEF MSpec, KeepsBudget, Budget!Spec

(* In every window, whatever the answers, the reductions and the order in  *)
(* which the callers wake, the client's requests cost at most a full       *)
(* bucket and what the window earns at the configured rate.                *)
THEOREM TrafficIsBounded ==
  ASSUME FloorBelowCeiling
  PROVE  MSpec => []WindowBound
<1>1. Budget!Spec => []Budget!WindowBound
  BY BucketAssumption, Budget!WindowIsBounded DEF Budget!BudgetConstants
<1>2. Budget!WindowBound <=> WindowBound
  BY DEF Budget!WindowBound, WindowBound
<1> QED
  BY <1>1, <1>2, ClientKeepsBudget, PTL DEF KeepsBudget
=============================================================================
