----------------------------- MODULE MCAnalysis -----------------------------
(***************************************************************************)
(* Instances of the parts around the analysis: the readings of prices and  *)
(* books, the detectors, the poll in four currencies, the exchange rates.  *)
(* They share no state, so one moves only while the others are where they  *)
(* began: TLC then visits the sum of their states and not the product.     *)
(***************************************************************************)
EXTENDS Money, Depth, Anomaly, FxPoll, FxRates

MCAmounts ==
  (1..1200) \cup {99999, 100000, 123456, 12345600, 12345678, 100000000, 123456700}

MCSamples == {[close |-> x, volume |-> x] : x \in {0, 1, 4}}
MCSpreads == -1..2
MCRateDays == {0, 2}
MCSymmetry == Permutations(MoneyDomains)

ReadingsAtRest == currency = None /\ orders = <<>>
HistoryAtRest == daily = {} /\ book = {}
PollAtRest == doing = "fetch" /\ start = 1 /\ day = 0 /\ polls = <<>>
RatesAtRest == date = 0 /\ rates = <<>> /\ ~ratesTorn

readings == <<currency, orders>>

MCReadingsNext ==
  \/ orders = <<>> /\ MoneyNext /\ UNCHANGED orders
  \/ currency = None /\ DepthNext /\ UNCHANGED currency

(* A day has one row, of either domain; days or snapshots, not both.       *)
MCHistoryNext ==
  \/ /\ book = {}
     /\ \E on \in 1..MaxDays, d \in MoneyDomains, s \in Samples :
          /\ \A r \in daily : r.date = on => r.domain = d
          /\ Observe(on, d, s)
  \/ /\ daily = {}
     /\ \E at \in 1..MaxSnapshots, spread \in Spreads : Snapshot(at, spread)

MCInit == MoneyInit /\ DepthInit /\ Init /\ PollInit /\ RatesInit

MCNext ==
  \/ /\ HistoryAtRest /\ PollAtRest /\ RatesAtRest
     /\ MCReadingsNext /\ UNCHANGED <<marts, pollVars, ratesVars>>
  \/ /\ ReadingsAtRest /\ PollAtRest /\ RatesAtRest
     /\ MCHistoryNext /\ UNCHANGED <<readings, pollVars, ratesVars>>
  \/ /\ ReadingsAtRest /\ HistoryAtRest /\ RatesAtRest
     /\ PollNext /\ UNCHANGED <<readings, marts, ratesVars>>
  \/ /\ ReadingsAtRest /\ HistoryAtRest /\ PollAtRest
     /\ RatesNext /\ UNCHANGED <<readings, marts, pollVars>>

MCSpec == MCInit /\ [][MCNext]_<<readings, marts, pollVars, ratesVars>>
=============================================================================
