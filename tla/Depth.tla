------------------------------- MODULE Depth -------------------------------
(***************************************************************************)
(* Spread and depth of an order book: streaming/depth.py, and its port to  *)
(* SQL (dbt/macros/depth_within_pct.sql, int_orderbook_normalized.sql).    *)
(* Prices are integers, so the mid price is kept as its double, and a band *)
(* of pct percent is compared without fractions.                           *)
(***************************************************************************)
EXTENDS Integers, FiniteSets, Functions

CONSTANTS
  Missing,      \* None, and NULL
  BookPrices,   \* prices of this instance
  Quantities,   \* quantities at a price
  MaxLevels     \* bound on the levels of a side, for TLC

ASSUME DepthAssumption ==
  BookPrices \subseteq Nat /\ Quantities \subseteq Nat /\ MaxLevels \in Nat /\ Missing \notin Int

VARIABLE orders   \* one side of a book, as it is in an answer

Sides == {"buy", "sell"}
Bands == {1, 5, 10}

(* rgCompactBuyOrders, rgCompactSellOrders: price, quantity, price, ...;   *)
(* a quantity is what rests at that price, and not a running total.        *)
Compact == UNION {{o \in [1..2 * n -> BookPrices \cup Quantities] :
                     \A i \in 1..n : o[2 * i - 1] \in BookPrices /\ o[2 * i] \in Quantities} :
                  n \in 0..MaxLevels}

Levels == {i \in DOMAIN orders : i % 2 = 1 /\ i + 1 \in DOMAIN orders}

(* spread, spread_bps; null where a side is missing or the mid is zero.    *)
Mid2(lowestSell, highestBuy) ==
  IF Missing \in {lowestSell, highestBuy} THEN Missing ELSE lowestSell + highestBuy

Spread(lowestSell, highestBuy) ==
  IF Missing \in {lowestSell, highestBuy} THEN Missing ELSE lowestSell - highestBuy

SpreadIsWithin(bps, lowestSell, highestBuy) ==
  /\ Mid2(lowestSell, highestBuy) \notin {Missing, 0}
  /\ 20000 * Spread(lowestSell, highestBuy) <= bps * Mid2(lowestSell, highestBuy)

(* Mutant: both sides' bands reach up from the mid price.                  *)
InBandAbove(price, mid2, pct, side) ==
  \/ side = "buy" /\ 200 * price >= mid2 * (100 + pct)
  \/ side = "sell" /\ 200 * price <= mid2 * (100 + pct)

InBand(price, mid2, pct, side) ==
  \/ side = "buy" /\ 200 * price >= mid2 * (100 - pct)
  \/ side = "sell" /\ 200 * price <= mid2 * (100 + pct)

LevelsWithin(mid2, pct, side) ==
  {i \in Levels : InBand(orders[i], mid2, pct, side)}

Resting(levels) == SumFunction([i \in levels |-> orders[i + 1]])

DepthWithinPct(mid2, pct, side) ==
  IF Levels = {} \/ mid2 = Missing \/ mid2 <= 0 THEN Missing
  ELSE Resting(LevelsWithin(mid2, pct, side))

(* SQL sums no rows to NULL, and has no guard on the mid price.  Mutant:   *)
(* the series starts at 0, as Python's arrays do.                          *)
DepthSqlFromZero(mid2, pct, side) ==
  LET pairs == {i \in DOMAIN orders : i % 2 = 0 /\ i + 1 \in DOMAIN orders}
      within == {i \in pairs : InBand(orders[i], mid2, pct, side)}
  IN IF mid2 = Missing \/ within = {} THEN Missing ELSE Resting(within)

DepthSql(mid2, pct, side) ==
  IF mid2 = Missing \/ LevelsWithin(mid2, pct, side) = {} THEN Missing
  ELSE Resting(LevelsWithin(mid2, pct, side))

DepthInit == orders = <<>>
DepthNext == orders = <<>> /\ orders' \in Compact
DepthSpec == DepthInit /\ [][DepthNext]_orders

-----------------------------------------------------------------------------
(* Properties.                                                             *)

Mids == {Mid2(lowest, highest) : lowest, highest \in BookPrices \cup {Missing}}

(* Spread and depth are two views of one book: with one side of it and the *)
(* best price of the other, the band on that side holds its best level     *)
(* exactly if the spread is within twice the band.                         *)
Prices == {orders[i] : i \in Levels}
HighestBuy == CHOOSE p \in Prices : \A q \in Prices : q <= p
LowestSell == CHOOSE p \in Prices : \A q \in Prices : p <= q

DepthFollowsSpread ==
  orders # <<>> =>
    \A other \in BookPrices \ {0}, pct \in Bands :
      /\ SpreadIsWithin(200 * pct, other, HighestBuy)
           <=> LevelsWithin(Mid2(other, HighestBuy), pct, "buy") # {}
      /\ SpreadIsWithin(200 * pct, LowestSell, other)
           <=> LevelsWithin(Mid2(LowestSell, other), pct, "sell") # {}

(* "same math, ported to SQL" (int_orderbook_normalized.sql): for a mid    *)
(* price other than zero, which only depth.py looks at, the two differ     *)
(* only where no level is in the band: 0 in one and NULL in the other.     *)
PortAgrees ==
  orders # <<>> =>
    \A mid2 \in Mids \ {0}, pct \in Bands, side \in Sides :
      \/ DepthSql(mid2, pct, side) = DepthWithinPct(mid2, pct, side)
      \/ /\ LevelsWithin(mid2, pct, side) = {}
         /\ DepthWithinPct(mid2, pct, side) = 0 /\ DepthSql(mid2, pct, side) = Missing
=============================================================================
