----------------------------- MODULE SteamMeter -----------------------------
(***************************************************************************)
(* SteamClient with a meter on the wire, a history variable: what its      *)
(* requests cost in a window of up to WindowLen ticks that opens anywhere. *)
(* The client refines RateBudget: its bucket is lazy (it credits time only *)
(* when asked) and RateBudget's account is eager, so the account's level   *)
(* is the credit a refill would find.                                      *)
(***************************************************************************)
EXTENDS SteamClient

CONSTANT WindowLen   \* bound on the window, for TLC

ASSUME MeterAssumption == WindowLen \in Nat

VARIABLES spent, ticks

meterVars == <<vars, spent, ticks>>

MInit == Init /\ spent = 0 /\ ticks = 0

MStep ==
  /\ \E c \in Callers : Step(c)
  /\ spent' = IF \E c \in Callers : Sends(c) THEN spent + Unit ELSE spent
  /\ UNCHANGED ticks

MTick ==
  /\ Tick
  /\ ticks < WindowLen
  /\ ticks' = ticks + 1
  /\ UNCHANGED spent

OpenWindow ==
  /\ spent' = 0
  /\ ticks' = 0
  /\ UNCHANGED vars

MNext == MStep \/ MTick \/ OpenWindow

MSpec == MInit /\ [][MNext]_meterVars

(* Every request is paid for before it is sent, credit is earned by time   *)
(* alone and never above the configured rate, whatever reductions and      *)
(* restorations happen in between ("never increased above the configured   *)
(* ceiling", TokenBucket in ratelimit.py).                                 *)
Budget == INSTANCE RateBudget WITH level <- Credit
KeepsBudget == Budget!Spec

(* In every window the requests cost at most a full bucket and what the    *)
(* window earns at the configured rate.                                    *)
WindowBound == spent <= Capacity + ticks * BaseRate
=============================================================================
