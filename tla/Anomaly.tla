------------------------------ MODULE Anomaly ------------------------------
(***************************************************************************)
(* The detectors of analytics/anomaly.py for one item, over the days of    *)
(* mart_item_daily and the snapshots of fct_orderbook_snapshot.  Items     *)
(* share nothing: every detector groups by item.                           *)
(*                                                                         *)
(* A mart is a set of rows.  A price is its logarithm, an integer, so that *)
(* a log return is a difference; the statistics are exact: a z-score is    *)
(* compared with the threshold by squares, and a standard deviation occurs *)
(* only as n * sum of squares - square of the sum.  Severity, explanation  *)
(* and rank are left out, and with them the rounding of floats.            *)
(***************************************************************************)
EXTENDS Integers, FiniteSets, Functions

CONSTANTS
  MoneyDomains,   \* currency:X or endpoint:Y
  Samples,        \* closing price and volume that a day may bring
  Spreads,        \* spread_bps that a snapshot may have
  Week,           \* days in a week
  Window,         \* rows of the rolling window
  MinPeriods,     \* rows that a baseline of returns, or of spreads, needs
  MinWeekdays,    \* days that a baseline of volumes needs
  Span,           \* of the exponential weights
  Threshold,      \* z_threshold
  MaxDays,        \* bound on the days
  MaxSnapshots    \* bound on the snapshots

ASSUME AnomalyAssumption ==
  /\ Samples \subseteq [close : Int, volume : Nat] /\ Spreads \subseteq Int
  /\ Week \in Nat \ {0} /\ Window \in Nat \ {0} /\ Span \in Nat \ {0}
  /\ MinPeriods \in Nat /\ MinWeekdays \in Nat /\ Threshold \in Nat \ {0}
  /\ MaxDays \in Nat /\ MaxSnapshots \in Nat

VARIABLES
  daily,   \* the item's rows of mart_item_daily
  book     \* and of fct_orderbook_snapshot

marts == <<daily, book>>

DailyRows == [date : Nat, domain : MoneyDomains, close : Int, volume : Nat]
BookRows == [date : Nat, spread : Spreads]

TypeOK ==
  /\ daily \in SUBSET DailyRows /\ book \in SUBSET BookRows
  /\ \A p, q \in daily : p.date = q.date /\ p.domain = q.domain => p = q

-----------------------------------------------------------------------------
(* Statistics of a sample, a function from rows to numbers, in which every *)
(* row has a weight.                                                       *)

Total(f, weight) == SumFunction([p \in DOMAIN f |-> weight[p] * f[p]])
Mass(weight) == SumFunction(weight)

(* Mass^2 times the biased variance, and by how much mean and threshold    *)
(* are apart: x is at least Threshold unbiased standard deviations from    *)
(* the mean.  No variance, no score.                                       *)
Dispersion(f, weight) ==
  Mass(weight) * Total([p \in DOMAIN f |-> f[p] * f[p]], weight)
    - Total(f, weight) * Total(f, weight)

Distance(x, f, weight) == Mass(weight) * x - Total(f, weight)

IsOutlier(x, f, weight) ==
  LET bias == Mass(weight) * Mass(weight) - Total(weight, weight)
      d == Distance(x, f, weight)
  IN /\ Dispersion(f, weight) > 0
     /\ d * d * bias
          >= Threshold * Threshold * Mass(weight) * Mass(weight) * Dispersion(f, weight)

Alike(f) == [p \in DOMAIN f |-> 1]

-----------------------------------------------------------------------------
(* Baselines.  Mutants: the domain is not in the groupby; a baseline of    *)
(* all other days; a day in its own baseline.                              *)

AnyGroup(rows, r) == rows
Group(rows, r) == {p \in rows : p.domain = r.domain}

OtherDays(rows, r) == Group(rows, r) \ {r}
Prior(rows, r) == {p \in Group(rows, r) : p.date < r.date}

Before(rows, r) == {p \in rows : p.date < r.date}
After(rows, r) == {p \in rows : p.date > r.date}
Latest(rows) == CHOOSE p \in rows : \A q \in rows : q.date <= p.date

LogReturn(rows, r) == r.close - Latest(Prior(rows, r)).close

(* rolling(window, min_periods) and then shift(1): the rows before r, the  *)
(* first of which has no return.                                           *)
TrailingWithToday(rows, r) ==
  {p \in Prior(rows, r) \cup {r} :
     Prior(rows, p) # {} /\ Cardinality(After(Prior(rows, r) \cup {r}, p)) < Window}

Trailing(rows, r) ==
  {p \in Prior(rows, r) :
     Prior(rows, p) # {} /\ Cardinality(After(Prior(rows, r), p)) < Window}

Returns(rows, r) == [p \in Trailing(rows, r) |-> LogReturn(rows, p)]

SameWeekday(rows, r) == {p \in Prior(rows, r) : p.date % Week = r.date % Week}

Volumes(rows, r) == [p \in SameWeekday(rows, r) |-> p.volume]

(* ewm(span): each row weighs (Span - 1) / (Span + 1) of the next one.     *)
Decay(rows) ==
  [p \in rows |-> (Span - 1) ^ Cardinality(After(rows, p))
                    * (Span + 1) ^ Cardinality(Before(rows, p))]

SpreadsBefore(rows, r) == [p \in Before(rows, r) |-> p.spread]

-----------------------------------------------------------------------------
(* The detectors.                                                          *)

PriceZscore(rows) ==
  {r \in rows :
     /\ Cardinality(Trailing(rows, r)) >= MinPeriods
     /\ Trailing(rows, r) # {}
     /\ IsOutlier(LogReturn(rows, r), Returns(rows, r), Alike(Returns(rows, r)))}

VolumeSpike(rows) ==
  {r \in rows :
     /\ Cardinality(SameWeekday(rows, r)) >= MinWeekdays
     /\ IsOutlier(r.volume, Volumes(rows, r), Alike(Volumes(rows, r)))}

(* One-sided: only a spread above its baseline.                            *)
SpreadWidening(rows) ==
  {r \in rows :
     /\ Cardinality(Before(rows, r)) >= MinPeriods
     /\ Distance(r.spread, SpreadsBefore(rows, r), Decay(Before(rows, r))) > 0
     /\ IsOutlier(r.spread, SpreadsBefore(rows, r), Decay(Before(rows, r)))}

CrossedBook(rows) == {r \in rows : r.spread < 0}

(* build_mart_anomaly                                                      *)
MartAnomaly(days, snapshots) ==
  ({"price_zscore"} \X PriceZscore(days))
    \cup ({"volume_spike"} \X VolumeSpike(days))
    \cup ({"spread_widening"} \X SpreadWidening(snapshots))
    \cup ({"crossed_book"} \X CrossedBook(snapshots))

-----------------------------------------------------------------------------
(* History.  The marts are rebuilt whole from the records that have landed, *)
(* and a record lands when the writer flushes its partition: it may be of  *)
(* a day that is long over, and make or change the row of that day behind  *)
(* rows of later ones.  Of several rows that a rebuild changes each is a   *)
(* step here.                                                              *)

Observe(date, d, s) ==
  LET stale == {r \in daily : r.date = date /\ r.domain = d} IN
  /\ \A r \in stale : r.volume <= s.volume   \* a sum, of ever more records
  /\ daily' = (daily \ stale)
       \cup {[date |-> date, domain |-> d, close |-> s.close, volume |-> s.volume]}
  /\ UNCHANGED book

Snapshot(date, spread) ==
  /\ \A r \in book : r.date # date
  /\ book' = book \cup {[date |-> date, spread |-> spread]}
  /\ UNCHANGED daily

Init == daily = {} /\ book = {}

Next ==
  \/ \E date \in 1..MaxDays, d \in MoneyDomains, s \in Samples : Observe(date, d, s)
  \/ \E date \in 1..MaxSnapshots, spread \in Spreads : Snapshot(date, spread)

Spec == Init /\ [][Next]_marts

-----------------------------------------------------------------------------
(* Properties.                                                             *)

(* The detectors run over the whole history every day and replace          *)
(* mart_anomaly.  The verdict on a day, or on a snapshot, looks back only: *)
(* what lands later leaves it what it was, whether of later days or of     *)
(* other domains, unless it changes an earlier row of the same series.     *)
VerdictsLookBack ==
  [][LET changed == (daily \ daily') \cup (daily' \ daily)
         kept == {r \in daily \cap daily' :
                    \A p \in changed : p.domain = r.domain => p.date >= r.date}
         settled == {r \in book \cap book' :
                       \A p \in (book \ book') \cup (book' \ book) : p.date >= r.date}
     IN /\ PriceZscore(daily') \cap kept = PriceZscore(daily) \cap kept
        /\ VolumeSpike(daily') \cap kept = VolumeSpike(daily) \cap kept
        /\ SpreadWidening(book') \cap settled = SpreadWidening(book) \cap settled
        /\ CrossedBook(book') \cap settled = CrossedBook(book) \cap settled]_marts

(* "Every detector here groups by money_domain", "a Saturday is only       *)
(* compared against other Saturdays" (anomaly.py).  Of the detectors of    *)
(* days this is so (those of snapshots group by item alone): what is said  *)
(* of a row depends on no row of another domain, nor, of its volume, on    *)
(* one of another weekday.                                                 *)
GroupsStandAlone ==
  \A d \in MoneyDomains :
    LET own == {r \in daily : r.domain = d} IN
    /\ PriceZscore(own) = PriceZscore(daily) \cap own
    /\ \A w \in 0..Week - 1 :
         LET weekday == {r \in own : r.date % Week = w} IN
         VolumeSpike(weekday) = VolumeSpike(daily) \cap weekday

(* "so a day's own return never leaks into its own baseline": a rise of    *)
(* the price that exceeds the highest return before it by Threshold times  *)
(* the range of those is found, however short the history.  (Of falls the  *)
(* same would hold of the lowest.)                                         *)
JumpsAreFound ==
  \A r \in daily :
    LET window ==
          {p \in daily : /\ p.domain = r.domain /\ p.date < r.date
                        /\ Prior(daily, p) # {}
                        /\ Cardinality({q \in Prior(daily, r) : q.date > p.date}) < Window}
        before == {LogReturn(daily, p) : p \in window}
        lo == CHOOSE x \in before : \A y \in before : x <= y
        hi == CHOOSE x \in before : \A y \in before : y <= x
    IN (/\ Cardinality(window) >= MinPeriods
        /\ Cardinality(before) > 1
        /\ LogReturn(daily, r) >= hi + Threshold * (hi - lo))
         => r \in PriceZscore(daily)
=============================================================================
