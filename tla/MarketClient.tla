---------------------------- MODULE MarketClient ----------------------------
(***************************************************************************)
(* What SteamMarketClient.get_json promises the coroutines that call it,   *)
(* without tokens, clocks and counters: a call is only begun while the     *)
(* breaker is closed, an answer may trip the breaker, a halt ends, and a   *)
(* ban does not.  SteamClient implements it; Scheduler is built on it.     *)
(***************************************************************************)
CONSTANT Callers   \* the coroutines that call get_json

VARIABLES
  asking,    \* the callers that await get_json
  breaker    \* "closed", "halted" or, until a relaunch, "banned"

marketVars == <<asking, breaker>>

ClientTypeOK ==
  /\ asking \in SUBSET Callers
  /\ breaker \in {"closed", "halted", "banned"}

ClientInit == asking = {} /\ breaker = "closed"

(* The breaker after a 429 or a 403, and after anything that get_json can  *)
(* raise for: a transport error, an open breaker, a ban-shaped response.   *)
AfterRefusal == IF breaker = "banned" THEN {"banned"} ELSE {breaker, "halted"}
AfterRaise == AfterRefusal \cup {"banned"}

Ask(c) ==
  /\ c \notin asking /\ breaker = "closed"
  /\ asking' = asking \cup {c}
  /\ UNCHANGED breaker

(* A 429 that is not the call's last.                                      *)
Retries(c) ==
  /\ c \in asking
  /\ breaker' \in AfterRefusal
  /\ UNCHANGED asking

(* The call returns or raises.                                             *)
Ends(c) ==
  /\ c \in asking
  /\ asking' = asking \ {c}
  /\ breaker' \in AfterRaise

HaltElapses ==
  /\ breaker = "halted" /\ breaker' = "closed"
  /\ UNCHANGED asking

ClientNext == HaltElapses \/ \E c \in Callers : Ask(c) \/ Retries(c) \/ Ends(c)

ClientSpec == ClientInit /\ [][ClientNext]_marketVars
=============================================================================
