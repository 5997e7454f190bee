----------------------------- MODULE MCBatchDag -----------------------------
(* The runs of BatchDag, up to their names, over the rows of one item: a   *)
(* search page that lists it, a price of it, a price that does not parse   *)
(* (a test of stg_priceoverview), and an order book with an empty side     *)
(* (not_null on the best prices of fct_orderbook_snapshot).                *)
EXTENDS BatchDag, TLC

Row(endpoint, flaws) ==
  [endpoint |-> endpoint, items |-> Items, priced |-> flaws = {}, flaws |-> flaws]

MCRows == {Row("search_render", {}), Row("priceoverview", {}),
           Row("priceoverview", {"dbt_test_staging"})}

MCBadRows == {Row("orderbook", {"fct_orderbook_snapshot"})}

(* Nothing tells two equal rows apart from one.                            *)
DistinctRows == \A i, j \in DOMAIN bronze : bronze[i] = bronze[j] => i = j

Symmetry == Permutations(Runs)
=============================================================================
