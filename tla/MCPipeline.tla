----------------------------- MODULE MCPipeline -----------------------------
(* Pipeline, up to the names of the partitions, over three records: a      *)
(* search page of an item, an order book whose bucket no map has, and a    *)
(* price of the item.                                                      *)
EXTENDS Pipeline, TLC

Row(endpoint, items) ==
  [endpoint |-> endpoint, items |-> items, priced |-> TRUE, flaws |-> {}]

MCContent ==
  <<Row("search_render", Items), Row("orderbook", {}), Row("priceoverview", Items)>>

Symmetry == Permutations(Parts)
=============================================================================
