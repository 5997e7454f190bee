---------------------------- MODULE SteamClient ----------------------------
(***************************************************************************)
(* SteamMarketClient.get_json (ingest/client.py) called by several         *)
(* coroutines of one process, which share its token bucket and circuit     *)
(* breaker.                                                                *)
(*                                                                         *)
(* asyncio switches coroutines only at a suspension, and get_json suspends *)
(* in three places: asleep for a token, waiting for the response, asleep   *)
(* between retries.  (The bucket's lock is never held across one, so it is *)
(* always free.)  An action is the code from one suspension to the next.   *)
(*                                                                         *)
(* The event loop runs what is due before a tick passes, and httpx's       *)
(* timeout bounds the wait for a response; sleeps last what they were      *)
(* given.  So Tick waits for every timer at zero.                          *)
(***************************************************************************)
EXTENDS TokenBucket, CircuitBreaker

CONSTANTS
  Callers,       \* the coroutines that call get_json
  MaxRetries,    \* max_retries
  Timeout,       \* REQUEST_TIMEOUT_SECONDS, in ticks
  BackoffBase,   \* RETRY_BASE_DELAY_SECONDS
  BackoffMax,    \* RETRY_MAX_DELAY_SECONDS
  Jitter         \* RETRY_JITTER_SECONDS

ASSUME ClientAssumption ==
  /\ Callers # {}
  /\ MaxRetries \in Nat \ {0} /\ Timeout \in Nat \ {0}
  /\ BackoffBase \in Nat \ {0} /\ BackoffMax \in Nat \ {0}
  /\ Jitter \in Nat

VARIABLES
  pc,        \* where each caller is suspended, "idle" outside get_json
  timer,     \* ticks left of its sleep, or before its request times out
  attempt,   \* the local attempt of get_json
  leaked     \* history: its requests sent since the breaker last opened,
             \* 0 while the breaker is closed

clientVars == <<pc, timer, attempt>>
vars == <<bucketVars, breakerVars, clientVars, leaked>>

Suspended == {"tokenWait", "sent", "backoff"}

TypeOK ==
  /\ BucketTypeOK
  /\ BreakerTypeOK
  /\ pc \in [Callers -> Suspended \cup {"idle"}]
  /\ timer \in [Callers -> Nat]
  /\ attempt \in [Callers -> 0..MaxRetries]
  /\ leaked \in [Callers -> Nat]

Init ==
  /\ BucketInit
  /\ BreakerInit
  /\ pc = [c \in Callers |-> "idle"]
  /\ timer = [c \in Callers |-> 0]
  /\ attempt = [c \in Callers |-> 0]
  /\ leaked = [c \in Callers |-> 0]

-----------------------------------------------------------------------------
(* Caller c is suspended at p for t ticks, having retried n times.         *)
Suspend(c, p, t, n) ==
  /\ pc' = [pc EXCEPT ![c] = p]
  /\ timer' = [timer EXCEPT ![c] = t]
  /\ attempt' = [attempt EXCEPT ![c] = n]

(* get_json returns or raises.                                             *)
Leave(c) == Suspend(c, "idle", 0, 0)

Sends(c) == pc[c] # "sent" /\ pc'[c] = "sent"

CountLeaks ==
  leaked' = [c \in Callers |->
               IF ~(Open /\ Open') THEN 0
               ELSE leaked[c] + (IF Sends(c) THEN 1 ELSE 0)]

(* jittered_backoff_delay(n): any delay its jitter can give.               *)
BackoffDelays(n) ==
  LET base == Lesser(BackoffBase * 2^n, BackoffMax)
  IN {d \in 1..(BackoffMax + Jitter) : base <= d /\ d <= base + Jitter}

(* bucket.acquire, up to its sleep or to the GET it is followed by.        *)
Acquire(c, n) ==
  \/ TakeToken /\ Suspend(c, "sent", Timeout, n)
  \/ ShortOfToken /\ Suspend(c, "tokenWait", TokenWait, n)

(* The head of the loop: check, then acquire.                              *)
Attempt(c, n) == CheckPasses /\ Acquire(c, n)

Call(c) ==
  /\ pc[c] = "idle"
  /\ Attempt(c, 0)
  /\ CountLeaks

WakeForToken(c) ==
  /\ pc[c] = "tokenWait" /\ timer[c] = 0
  /\ Acquire(c, attempt[c])
  /\ UNCHANGED breakerVars
  /\ CountLeaks

(* Mutant: check is made before the loop and not by each retry.            *)
WakeForRetryUnchecked(c) ==
  /\ pc[c] = "backoff" /\ timer[c] = 0
  /\ Acquire(c, attempt[c])
  /\ UNCHANGED breakerVars
  /\ CountLeaks

WakeForRetry(c) ==
  /\ pc[c] = "backoff" /\ timer[c] = 0
  /\ \/ Attempt(c, attempt[c])
     \/ /\ Open
        /\ Leave(c)
        /\ UNCHANGED <<bucketVars, breakerVars>>
  /\ CountLeaks

-----------------------------------------------------------------------------
(* The response, in the order get_json classifies it.                      *)

BanShaped(c) ==
  /\ pc[c] = "sent"
  /\ RecordBanShapedResponse
  /\ Leave(c)
  /\ UNCHANGED bucketVars
  /\ CountLeaks

TooManyRequests(c) ==
  /\ pc[c] = "sent"
  /\ Record429
  /\ ReduceForRestOfHour
  /\ IF attempt[c] >= MaxRetries
     THEN Leave(c)
     ELSE \E d \in BackoffDelays(attempt[c]) :
            Suspend(c, "backoff", d, attempt[c] + 1)
  /\ CountLeaks

Forbidden(c) ==
  /\ pc[c] = "sent"
  /\ Record403
  /\ Leave(c)
  /\ UNCHANGED bucketVars
  /\ CountLeaks

(* Any other status, 5xx included.                                         *)
Answered(c) ==
  /\ pc[c] = "sent"
  /\ RecordSuccess
  /\ Leave(c)
  /\ UNCHANGED bucketVars
  /\ CountLeaks

(* A timeout or a transport error: nothing catches it in get_json.         *)
TransportError(c) ==
  /\ pc[c] = "sent"
  /\ Leave(c)
  /\ UNCHANGED <<bucketVars, breakerVars>>
  /\ CountLeaks

Respond(c) == BanShaped(c) \/ TooManyRequests(c) \/ Forbidden(c)
              \/ Answered(c) \/ TransportError(c)

Step(c) == Call(c) \/ WakeForToken(c) \/ WakeForRetry(c) \/ Respond(c)

Tick ==
  /\ \A c \in Callers : pc[c] # "idle" => timer[c] > 0
  /\ timer' = [c \in Callers |-> IF pc[c] = "idle" THEN 0 ELSE timer[c] - 1]
  /\ BucketTick
  /\ BreakerTick
  /\ UNCHANGED <<pc, attempt>>
  /\ CountLeaks

Next == Tick \/ \E c \in Callers : Step(c)

(* The loop resumes what is due, a request is answered or times out, and   *)
(* time passes.  Nothing obliges a caller to call.                         *)
Fairness ==
  /\ WF_vars(Tick)
  /\ \A c \in Callers : WF_vars(WakeForToken(c) \/ WakeForRetry(c) \/ Respond(c))

Spec == Init /\ [][Next]_vars
FairSpec == Spec /\ Fairness

-----------------------------------------------------------------------------
(* Properties.                                                             *)

(* However the callers interleave, one whose check passed before the       *)
(* breaker opened can still be asleep in acquire when it opens, and sends  *)
(* when it wakes; but it sends no second request before its next check.    *)
(* So an open breaker lets at most one request through per caller, and     *)
(* none of the caller whose answer opened it.                              *)
LeakBound ==
  /\ \A c \in Callers : leaked[c] <= 1
  /\ \E c \in Callers : leaked[c] = 0

(* A run of 429s long enough to trip the breaker is never left in the      *)
(* counter without the halt it caused: neither a late success, nor a halt  *)
(* that elapsed between two 429s, separates the two.                       *)
TripIsHeld == consecutive >= Threshold => halt # NoHalt

(* The bucket is never stuck at a reduced rate: while the rate differs     *)
(* from the configured one, a restoration is pending.                      *)
ReductionIsTemporary == rate # BaseRate => reducedUntil # "none"

(* A halt in force only runs out: no answer that was in flight when the    *)
(* breaker opened, success included, cuts it short.  (For halt windows of  *)
(* one length, as deployed, and until a ban makes the flag decide.)        *)
HaltNotCutShort == [][halt > 0 => halt' >= halt - 1 \/ manual']_vars

(* A halt that does not need a manual restart ends: the requests that leak *)
(* through an open breaker cannot renew it for ever.                       *)
HaltEnds == (halt > 0 /\ ~manual) ~> (~Open \/ manual)

(* After a ban-shaped response every caller soon stays out of Steam, past  *)
(* the end of the halt window too, until the process is relaunched.        *)
BanIsFinal == manual ~> [](\A c \in Callers : pc[c] = "idle")

(* What its callers may rely on: MarketClient.                             *)
BreakerState ==
  IF manual THEN "banned" ELSE IF halt > 0 THEN "halted" ELSE "closed"
Market == INSTANCE MarketClient
            WITH asking <- {c \in Callers : pc[c] # "idle"}, breaker <- BreakerState
KeepsContract == Market!ClientSpec

(* A call returns or raises, unless other callers keep winning the race    *)
(* for tokens: its token arrives, and its retries are bounded.             *)
CallReturns ==
  \A c \in Callers :
    <>[](\A d \in Callers \ {c} : pc[d] = "idle")
      => (pc[c] # "idle" ~> pc[c] = "idle")

=============================================================================
