------------------------------- MODULE FxPoll -------------------------------
(***************************************************************************)
(* scripts/fx_poll.py: a watchlist is polled once in every currency, item  *)
(* by item.  Whatever is raised ends the script; the operator starts it    *)
(* again at the item it was at (RESUME_FROM_INDEX).  Below it, what the    *)
(* warehouse makes of the polls (int_fx_converted_prices.sql,              *)
(* mart_cross_currency_dislocation.sql).                                   *)
(***************************************************************************)
EXTENDS Integers, Sequences, FiniteSets

CONSTANTS
  NumItems,     \* items of the watchlist
  RateDays,     \* the days in the seed dim_fx_rate
  MaxDay,       \* bound on the days
  MaxStarts,    \* bound on the starts of the script
  MaxUnpriced   \* bound on the answers without a price, for TLC

ASSUME FxPollAssumption ==
  /\ NumItems \in Nat \ {0} /\ RateDays \subseteq Nat
  /\ MaxDay \in Nat /\ MaxStarts \in Nat /\ MaxUnpriced \in Nat

VARIABLES
  doing,    \* "fetch", "publish", "done" or "ended" by an exception or a kill
  item,     \* position in the watchlist
  turn,     \* position in the currencies
  start,    \* which start of the script this is
  day,      \* the date
  answer,   \* the envelope at hand
  polls     \* the envelopes that are in the topic, as observed

pollVars == <<doing, item, turn, start, day, answer, polls>>

(* The currencies, in order.  Mutant: the baseline comes last.             *)
CurrenciesUsdLast == <<"EUR", "SGD", "IDR", "USD">>
CURRENCIES == <<"USD", "EUR", "SGD", "IDR">>

NoEnvelope == <<>>

PollInit ==
  /\ doing = "fetch" /\ item = 1 /\ turn = 1 /\ start = 1 /\ day = 0
  /\ answer = NoEnvelope /\ polls = <<>>

Unpriced == Cardinality({n \in DOMAIN polls : ~polls[n].priced})

(* An answer without a price is a refusal, or an item that is not on sale: *)
(* it is published like any other.                                         *)
Fetch(priced) ==
  /\ doing = "fetch"
  /\ priced \/ Unpriced < MaxUnpriced
  /\ answer' = [item |-> item, currency |-> CURRENCIES[turn], start |-> start,
                day |-> day, priced |-> priced]
  /\ doing' = "publish"
  /\ UNCHANGED <<item, turn, start, day, polls>>

Advance ==
  IF turn < Len(CURRENCIES)
  THEN turn' = turn + 1 /\ doing' = "fetch" /\ UNCHANGED item
  ELSE IF item < NumItems
  THEN turn' = 1 /\ item' = item + 1 /\ doing' = "fetch"
  ELSE doing' = "done" /\ UNCHANGED <<item, turn>>

Publish ==
  /\ doing = "publish"
  /\ polls' = Append(polls, answer)
  /\ answer' = NoEnvelope
  /\ Advance
  /\ UNCHANGED <<start, day>>

(* get_json raises, send_and_wait raises, with the envelope stored or not, *)
(* or the script is killed.                                                *)
ScriptEnds(stored) ==
  /\ doing \in {"fetch", "publish"}
  /\ stored => doing = "publish"
  /\ polls' = IF stored THEN Append(polls, answer) ELSE polls
  /\ doing' = "ended" /\ answer' = NoEnvelope
  /\ UNCHANGED <<item, turn, start, day>>

StartAgain ==
  /\ doing = "ended" /\ start < MaxStarts
  /\ start' = start + 1
  /\ turn' = 1 /\ doing' = "fetch"
  /\ UNCHANGED <<item, day, answer, polls>>

Midnight ==
  /\ day < MaxDay /\ day' = day + 1
  /\ UNCHANGED <<doing, item, turn, start, answer, polls>>

PollNext ==
  \/ \E priced \in BOOLEAN : Fetch(priced)
  \/ \E stored \in BOOLEAN : ScriptEnds(stored)
  \/ Publish \/ StartAgain \/ Midnight

PollSpec == PollInit /\ [][PollNext]_pollVars

-----------------------------------------------------------------------------
(* The warehouse.  A row without a price, or of a day without a rate, is   *)
(* not converted.                                                          *)
Converted == {n \in DOMAIN polls : polls[n].priced /\ polls[n].day \in RateDays}

(* The ASOF join: the converted USD poll of the item that was last at or   *)
(* before the row, as a set of at most one.                                *)
UsdPolls(n) == {m \in Converted : polls[m].currency = "USD" /\ polls[m].item = polls[n].item}

Baseline(n) == {m \in UsdPolls(n) : m <= n /\ \A k \in UsdPolls(n) : k <= n => k <= m}

-----------------------------------------------------------------------------
(* "the real 'what would this have cost in USD, at roughly the same        *)
(* moment' comparison": a price is compared with the dollar price of its   *)
(* own pass over the item whenever that pass has one, whatever earlier     *)
(* passes, refusals and midnights there were.                              *)
OwnBaseline ==
  \A n, m \in Converted :
    (/\ polls[n].currency # "USD" /\ polls[m].currency = "USD"
     /\ polls[n].item = polls[m].item /\ polls[n].start = polls[m].start)
      => Baseline(n) = {m}
=============================================================================
