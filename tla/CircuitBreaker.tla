--------------------------- MODULE CircuitBreaker ---------------------------
(***************************************************************************)
(* The circuit breaker of ingest/ratelimit.py: a counter of consecutive    *)
(* 429s, the end of the halt window, and the flag that only a relaunch of  *)
(* the process clears.  The window is a countdown in ticks: halt is NoHalt *)
(* where the code has None, and 0 once the window has elapsed but no check *)
(* has cleared it.                                                         *)
(***************************************************************************)
EXTENDS Integers

CONSTANTS
  Threshold,   \* consecutive 429s that trip the breaker
  Halt429,     \* the three halt windows, in ticks
  Halt403,
  HaltBan

ASSUME BreakerAssumption ==
  /\ Threshold \in Nat \ {0}
  /\ Halt429 \in Nat \ {0} /\ Halt403 \in Nat \ {0} /\ HaltBan \in Nat \ {0}

VARIABLES
  consecutive,   \* _consecutive_429
  halt,          \* _halt_until, as the ticks left of the window
  manual         \* _manual_restart_required

breakerVars == <<consecutive, halt, manual>>

NoHalt == -1

BreakerTypeOK ==
  /\ consecutive \in Nat
  /\ halt \in Int /\ halt >= NoHalt
  /\ manual \in BOOLEAN

BreakerInit ==
  /\ consecutive = 0
  /\ halt = NoHalt
  /\ manual = FALSE

(* Mutant: the end of the window is set, but not compared with the clock.  *)
OpenWhileSet == manual \/ halt # NoHalt

(* check raises exactly when the breaker is open.                          *)
Open == manual \/ halt > 0

(* Mutants: an elapsed halt leaves the counter; it clears the manual flag.  *)
CheckPassesKeepingCount ==
  /\ ~Open
  /\ halt' = NoHalt
  /\ UNCHANGED <<consecutive, manual>>

CheckPassesAfterBan ==
  /\ halt <= 0
  /\ halt' = NoHalt
  /\ consecutive' = IF halt = NoHalt THEN consecutive ELSE 0
  /\ manual' = FALSE

CheckPasses ==
  /\ ~Open
  /\ halt' = NoHalt
  /\ consecutive' = IF halt = NoHalt THEN consecutive ELSE 0
  /\ UNCHANGED manual

(* Mutant: a success closes the breaker.                                   *)
RecordSuccessClosing ==
  /\ consecutive' = 0
  /\ halt' = NoHalt
  /\ UNCHANGED manual

RecordSuccess ==
  /\ consecutive' = 0
  /\ UNCHANGED <<halt, manual>>

Record429 ==
  /\ consecutive' = consecutive + 1
  /\ halt' = IF consecutive + 1 >= Threshold THEN Halt429 ELSE halt
  /\ UNCHANGED manual

Record403 ==
  /\ halt' = Halt403
  /\ UNCHANGED <<consecutive, manual>>

RecordBanShapedResponse ==
  /\ halt' = HaltBan
  /\ manual' = TRUE
  /\ UNCHANGED consecutive

BreakerTick ==
  /\ halt' = IF halt > 0 THEN halt - 1 ELSE halt
  /\ UNCHANGED <<consecutive, manual>>

=============================================================================
