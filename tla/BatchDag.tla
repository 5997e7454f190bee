------------------------------ MODULE BatchDag ------------------------------
(***************************************************************************)
(* The batch: airflow/dags/steam_market_batch.py and what its tasks do to  *)
(* the warehouse (dbt), to the anomalies (analytics/anomaly.py), to the    *)
(* dashboard (analytics/export_to_grafana.py) and to the webhook           *)
(* (quality/alerting.py).                                                  *)
(*                                                                         *)
(* The tasks form a chain, so a run is the place it has reached, the       *)
(* attempts of the task there, and the tasks that failed for good.  Bronze *)
(* only grows, and the staging and intermediate models are views of it: a  *)
(* table is described by the length of the Bronze that it was built from,  *)
(* and each mart of a dbt run reads Bronze when its turn comes.            *)
(*                                                                         *)
(* Two marts are left out, fct_price_change and                            *)
(* mart_cross_currency_dislocation: they are built from Bronze, tested and *)
(* synchronised like fct_orderbook_snapshot, and nothing reads them.       *)
(***************************************************************************)
EXTENDS Naturals, Sequences

CONSTANTS
  Runs,      \* DAG runs, each triggered by hand
  Items,     \* items of the catalogue
  Rows,      \* the rows of Bronze that occur
  MaxRows,   \* bound on Bronze, for TLC
  MaxFails,  \* bound on the attempts that fail although they can succeed, and
             \* on those of sync_dashboard that skip a table that is there
  Missing    \* a table that is not there

DbtMarts == {"dim_item", "fct_price_observation", "fct_orderbook_snapshot",
             "mart_item_daily"}
Tables == DbtMarts \cup {"mart_anomaly"}

(* A row, which is an answer of Steam: the items of the fact rows that the *)
(* intermediate models make of it, none where staging drops it or no       *)
(* bucket map has its order book; whether one of them has a price; and     *)
(* what rejects it: the Bronze suite, a staging test, a test of a mart.    *)
AllRows ==
  [endpoint : {"search_render", "priceoverview", "orderbook"}, items : SUBSET Items,
   priced : BOOLEAN, flaws : SUBSET (DbtMarts \cup {"run_quality_gates", "dbt_test_staging"})]

ASSUME BatchAssumption ==
  /\ Rows \subseteq AllRows /\ MaxRows \in Nat /\ MaxFails \in Nat
  /\ Missing \notin [by : Runs, upto : Nat, tested : BOOLEAN]

VARIABLES
  bronze,      \* its rows
  at,          \* how far each run is in Chain: 0 before it is triggered
  retried,     \* whether the task there is at its second attempt
  failed,      \* the tasks that failed for good, of each run
  built,       \* the marts that the run's dbt_run_marts has built
  unsynced,    \* the tables that the run's sync_dashboard has read and not
               \* yet written
  snapshot,    \* dim_item_snapshot: the length of the Bronze it covers
  table,       \* the marts in DuckDB
  shown,       \* the tables in Postgres
  gated,       \* history: the Bronze that the run's gates have passed
  skipped,     \* history: the tables there that the run's syncs did not read
  aside,       \* history: whether the anomalies in Postgres are of a run that
               \* had skipped the daily mart
  alerts,      \* history: the calls of send_alert
  overlapped,  \* history: whether two runs were ever active together
  fails        \* history: the attempts that MaxFails bounds

runVars == <<at, retried, failed, built, unsynced, fails>>
warehouseVars == <<snapshot, table>>
dashboardVars == <<shown, skipped, aside>>
vars == <<bronze, runVars, warehouseVars, dashboardVars, gated, alerts, overlapped>>

-----------------------------------------------------------------------------
(* The chain.                                                              *)

Ingest == <<"wait_for_bronze", "copy_into_snowflake", "run_quality_gates",
            "dbt_seed", "dbt_run_staging">>

(* Mutants: the marts before the gate; the snapshot after the marts.       *)
TransformUngated == <<"dbt_snapshot", "dbt_run_marts", "dbt_test_staging", "dbt_test_marts">>
TransformUnsnapped == <<"dbt_test_staging", "dbt_run_marts", "dbt_snapshot", "dbt_test_marts">>

Transform == <<"dbt_test_staging", "dbt_snapshot", "dbt_run_marts", "dbt_test_marts">>

(* Mutant: the alert before the dashboard.                                 *)
ReportAlertFirst == <<"detect_anomalies", "publish_alerts", "sync_dashboard">>

Report == <<"detect_anomalies", "sync_dashboard", "publish_alerts">>

Chain == Ingest \o Transform \o Report
Done == Len(Chain) + 1
Tasks == {Chain[i] : i \in 1..Len(Chain)}

(* Mutants: nobody alerts; the anomalies are looked for whatever failed.   *)
AllDoneButAlerts == {"sync_dashboard"}
AllDoneWithAnomalies == {"detect_anomalies", "sync_dashboard", "publish_alerts"}

(* The tasks with trigger_rule ALL_DONE.                                   *)
AllDone == {"sync_dashboard", "publish_alerts"}

(* The tasks that do not open DuckDB's file.                               *)
WithoutWarehouse ==
  {"wait_for_bronze", "copy_into_snowflake", "run_quality_gates", "publish_alerts"}

Active(r) == at[r] \in 1..Len(Chain)
Doing(r, task) == Active(r) /\ Chain[at[r]] = task

(* Where a run goes on after its task i failed: the tasks up to the next   *)
(* one that runs whatever happened are upstream_failed.                    *)
NextAllDone(i) ==
  CHOOSE j \in i + 1..Done :
    /\ j = Done \/ Chain[j] \in AllDone
    /\ \A k \in i + 1..j - 1 : Chain[k] \notin AllDone

-----------------------------------------------------------------------------
(* The data.                                                               *)

(* The models whose tables a mart is built from, rather than from Bronze.  *)
Sources(m) ==
  IF m = "mart_item_daily"
  THEN {"fct_price_observation", "fct_orderbook_snapshot"}
  ELSE {}

(* Mutant: the anomalies first.                                            *)
MartTablesReversed ==
  <<"mart_anomaly", "fct_orderbook_snapshot", "mart_item_daily", "dim_item">>

MartTables ==
  <<"dim_item", "mart_item_daily", "fct_orderbook_snapshot", "mart_anomaly">>

Synced == {MartTables[i] : i \in DOMAIN MartTables}

(* The tables that get something of a row: all facts are price             *)
(* observations, dim_item is made of search pages, and mart_item_daily,    *)
(* with the anomalies that are looked for in it, of what has a price.      *)
Feeds(row, m) ==
  /\ row.items # {}
  /\ m = "dim_item" => row.endpoint = "search_render"
  /\ m = "fct_orderbook_snapshot" => row.endpoint = "orderbook"
  /\ m \in {"mart_item_daily", "mart_anomaly"} => row.priced

(* A table: the run that built it, the Bronze it covers, and whether a     *)
(* dbt_test_marts has passed it, or what it was computed from, since.      *)
Contents == [by : Runs, upto : Nat, tested : BOOLEAN]
NoTables == [m \in Tables |-> Missing]

TypeOK ==
  /\ bronze \in Seq(Rows)
  /\ at \in [Runs -> 0..Done]
  /\ retried \in [Runs -> BOOLEAN]
  /\ failed \in [Runs -> SUBSET Tasks]
  /\ built \in [Runs -> SUBSET DbtMarts]
  /\ unsynced \in [Runs -> [Tables -> Contents \cup {Missing}]]
  /\ snapshot \in 0..Len(bronze)
  /\ table \in [Tables -> Contents \cup {Missing}]
  /\ shown \in [Tables -> Contents \cup {Missing}]
  /\ gated \in [Runs -> 0..Len(bronze)]
  /\ skipped \in [Runs -> SUBSET Synced]
  /\ aside \in BOOLEAN
  /\ alerts \in SUBSET [run : Runs, severity : {"info", "error"}]
  /\ overlapped \in BOOLEAN
  /\ fails \in 0..MaxFails

Init ==
  /\ bronze = <<>>
  /\ at = [r \in Runs |-> 0]
  /\ retried = [r \in Runs |-> FALSE]
  /\ failed = [r \in Runs |-> {}]
  /\ built = [r \in Runs |-> {}]
  /\ unsynced = [r \in Runs |-> NoTables]
  /\ snapshot = 0
  /\ table = NoTables
  /\ shown = NoTables
  /\ gated = [r \in Runs |-> 0]
  /\ skipped = [r \in Runs |-> {}]
  /\ aside = FALSE
  /\ alerts = {}
  /\ overlapped = FALSE
  /\ fails = 0

Has(flaw, n) == \E i \in 1..n : flaw \in bronze[i].flaws

(* stg_item_attributes: the items of the search pages in the first n rows. *)
Listed(n) ==
  UNION {bronze[i].items : i \in {j \in 1..n : bronze[j].endpoint = "search_render"}}

Readable(m) == table[m] # Missing

(* Bronze writer: ingestion goes on while the batch runs.  The rows of a   *)
(* file become visible together.                                           *)
Files == UNION {[1..n -> Rows] : n \in 1..MaxRows}

Land(file) ==
  /\ Len(bronze) + Len(file) <= MaxRows
  /\ bronze' = bronze \o file
  /\ UNCHANGED <<runVars, warehouseVars, dashboardVars, gated, alerts, overlapped>>

-----------------------------------------------------------------------------
(* A run, whatever its task.                                               *)

Trigger(r) ==
  /\ at[r] = 0
  /\ at' = [at EXCEPT ![r] = 1]
  /\ overlapped' = (overlapped \/ \E s \in Runs : Active(s))
  /\ UNCHANGED <<bronze, retried, failed, built, unsynced, fails, warehouseVars,
                 dashboardVars, gated, alerts>>

(* The attempt in hand is over, and the run goes on at task i.             *)
GoTo(r, i) ==
  /\ at' = [at EXCEPT ![r] = i]
  /\ built' = [built EXCEPT ![r] = {}]
  /\ unsynced' = [unsynced EXCEPT ![r] = NoTables]

GoOn(r) ==
  /\ GoTo(r, at[r] + 1)
  /\ retried' = [retried EXCEPT ![r] = FALSE]
  /\ UNCHANGED failed

Succeed(r) == GoOn(r) /\ UNCHANGED fails

(* retries: 1.                                                             *)
Fail(r) ==
  /\ retried' = [retried EXCEPT ![r] = ~@]
  /\ IF retried[r]
     THEN GoTo(r, NextAllDone(at[r])) /\ failed' = [failed EXCEPT ![r] = @ \cup {Chain[at[r]]}]
     ELSE GoTo(r, at[r]) /\ UNCHANGED failed

(* A service is down, or the process dies.                                 *)
Fault(r) == Fail(r) /\ fails < MaxFails /\ fails' = fails + 1

(* DuckDB lets one process write, or several read: while dbt_run_marts is  *)
(* halfway nobody else gets in, and while sync_dashboard is, no writer.    *)
Writing(r) == built[r] # {}
Reading(r) == unsynced[r] # NoTables
MayRead(r) == \A s \in Runs \ {r} : ~Writing(s)
MayWrite(r) == MayRead(r) /\ \A s \in Runs \ {r} : ~Reading(s)

(* The task gets at the files it works on.                                 *)
Opens(r) ==
  \/ Chain[at[r]] \in WithoutWarehouse
  \/ Chain[at[r]] = "sync_dashboard" /\ MayRead(r)
  \/ MayWrite(r)

(* Every fact row resolves to a dim_item, which the snapshot never loses: *)
(* it is of all endpoints, and dim_item of the search pages only.          *)
FactsHaveItems ==
  \A i \in 1..table["fct_price_observation"].upto :
    bronze[i].items \subseteq Listed(table["dim_item"].upto)

(* The data that a task needs: the gates before the marts look at the      *)
(* whole Bronze, dbt_test_marts at the marts.                              *)
Accepts(task) ==
  /\ task = "wait_for_bronze" => bronze # <<>>
  /\ task \in {"run_quality_gates", "dbt_test_staging"} => ~Has(task, Len(bronze))
  /\ task = "dbt_test_marts" =>
       /\ \A m \in DbtMarts : Readable(m) /\ ~Has(m, table[m].upto)
       /\ FactsHaveItems
  /\ task = "detect_anomalies" =>
       Readable("mart_item_daily") /\ Readable("fct_orderbook_snapshot")

(* What an attempt needs to succeed.                                       *)
CanSucceed(r) == Opens(r) /\ Accepts(Chain[at[r]])

(* An attempt fails on a warehouse that is locked and on data that the     *)
(* task rejects, and may fail for another reason.                          *)
TaskFails(r) ==
  /\ Active(r)
  /\ \/ ~CanSucceed(r) /\ Fail(r) /\ UNCHANGED fails
     \/ Fault(r)
  /\ UNCHANGED <<bronze, warehouseVars, dashboardVars, gated, alerts, overlapped>>

-----------------------------------------------------------------------------
(* The tasks.                                                              *)

(* Nothing later depends on what the no-op, the seeds and the views do.    *)
Prepare(r) ==
  /\ \E i \in DOMAIN Ingest : Doing(r, Ingest[i])
  /\ CanSucceed(r)
  /\ Succeed(r)
  /\ UNCHANGED <<bronze, warehouseVars, dashboardVars, gated, alerts, overlapped>>

PassStagingTests(r) ==
  /\ Doing(r, "dbt_test_staging") /\ CanSucceed(r)
  /\ gated' = [gated EXCEPT ![r] = Len(bronze)]
  /\ Succeed(r)
  /\ UNCHANGED <<bronze, warehouseVars, dashboardVars, alerts, overlapped>>

DbtSnapshot(r) ==
  /\ Doing(r, "dbt_snapshot") /\ CanSucceed(r)
  /\ snapshot' = Len(bronze)
  /\ Succeed(r)
  /\ UNCHANGED <<bronze, table, dashboardVars, gated, alerts, overlapped>>

(* dbt_run_marts builds a mart once its sources are built, from them, from *)
(* the snapshot or from the Bronze of now, and replaces the table.         *)
BuildMart(r, m) ==
  /\ Doing(r, "dbt_run_marts") /\ CanSucceed(r)
  /\ m \notin built[r] /\ Sources(m) \subseteq built[r]
  /\ table' = [table EXCEPT ![m] =
       [by |-> r, tested |-> FALSE,
        upto |-> IF m = "dim_item" THEN snapshot
                 ELSE IF m = "mart_item_daily" THEN table["fct_price_observation"].upto
                 ELSE Len(bronze)]]
  /\ IF built[r] \cup {m} = DbtMarts
     THEN Succeed(r)
     ELSE /\ built' = [built EXCEPT ![r] = @ \cup {m}]
          /\ UNCHANGED <<at, retried, failed, unsynced, fails>>
  /\ UNCHANGED <<bronze, snapshot, dashboardVars, gated, alerts, overlapped>>

(* dbt_test_marts passes, and with it the marts that are there.            *)
PassMartTests(r) ==
  /\ Doing(r, "dbt_test_marts") /\ CanSucceed(r)
  /\ table' = [m \in Tables |->
                 IF m \in DbtMarts THEN [table[m] EXCEPT !.tested = TRUE] ELSE table[m]]
  /\ Succeed(r)
  /\ UNCHANGED <<bronze, snapshot, dashboardVars, gated, alerts, overlapped>>

DetectAnomalies(r) ==
  /\ Doing(r, "detect_anomalies") /\ CanSucceed(r)
  /\ table' = [table EXCEPT !["mart_anomaly"] =
       [table["mart_item_daily"] EXCEPT
          !.tested = @ /\ table["fct_orderbook_snapshot"].tested]]
  /\ Succeed(r)
  /\ UNCHANGED <<bronze, snapshot, dashboardVars, gated, alerts, overlapped>>

(* sync_dashboard reads the tables, and skips, besides those that are not  *)
(* there, any whose read raises: the task goes on without them ...         *)
MartsRead(skips) == [m \in Tables |-> IF m \in Synced \ skips THEN table[m] ELSE Missing]

ReadMarts(r) ==
  /\ Doing(r, "sync_dashboard") /\ CanSucceed(r) /\ ~Reading(r)
  /\ \E skips \in SUBSET {m \in Synced : Readable(m)} :
       /\ skipped' = [skipped EXCEPT ![r] = @ \cup skips]
       /\ fails' = IF skips = {} THEN fails ELSE fails + 1
       /\ fails' <= MaxFails
       /\ IF MartsRead(skips) = NoTables
          THEN GoOn(r)
          ELSE /\ unsynced' = [unsynced EXCEPT ![r] = MartsRead(skips)]
               /\ UNCHANGED <<at, retried, failed, built>>
  /\ UNCHANGED <<bronze, warehouseVars, shown, aside, gated, alerts, overlapped>>

(* ... and, its connection still open, replaces those of the dashboard,    *)
(* one by one, in order.                                                   *)
WriteTable(r, i) ==
  /\ Doing(r, "sync_dashboard")
  /\ unsynced[r][MartTables[i]] # Missing
  /\ \A j \in 1..i - 1 : unsynced[r][MartTables[j]] = Missing
  /\ shown' = [shown EXCEPT ![MartTables[i]] = unsynced[r][MartTables[i]]]
  /\ aside' = IF MartTables[i] = "mart_anomaly" THEN "mart_item_daily" \in skipped[r]
              ELSE aside
  /\ LET left == [unsynced[r] EXCEPT ![MartTables[i]] = Missing] IN
       IF left = NoTables
       THEN Succeed(r)
       ELSE /\ unsynced' = [unsynced EXCEPT ![r] = left]
            /\ UNCHANGED <<at, retried, failed, built, fails>>
  /\ UNCHANGED <<bronze, warehouseVars, skipped, gated, alerts, overlapped>>

(* Mutant: a severity that Alert has and publish_alerts does not use.      *)
AlertOfWarning(r) ==
  [run |-> r, severity |-> IF failed[r] = {} THEN "info" ELSE "warning"]

AlertOf(r) ==
  [run |-> r, severity |-> IF failed[r] = {} THEN "info" ELSE "error"]

(* publish_alerts counts the tasks that failed and calls send_alert, which *)
(* swallows a webhook that is down: the task goes on as if it had sent, and*)
(* only its death fails it, before the call (TaskFails) or after.          *)
PublishAlert(r) ==
  /\ Doing(r, "publish_alerts")
  /\ alerts' = alerts \cup {AlertOf(r)}
  /\ Succeed(r) \/ Fault(r)
  /\ UNCHANGED <<bronze, warehouseVars, dashboardVars, gated, overlapped>>

Step(r) ==
  \/ Prepare(r) \/ PassStagingTests(r) \/ DbtSnapshot(r)
  \/ \E m \in DbtMarts : BuildMart(r, m)
  \/ \E i \in DOMAIN MartTables : WriteTable(r, i)
  \/ PassMartTests(r) \/ DetectAnomalies(r)
  \/ ReadMarts(r) \/ PublishAlert(r) \/ TaskFails(r)

Next ==
  \/ \E file \in Files : Land(file)
  \/ \E r \in Runs : Trigger(r) \/ Step(r)

Spec == Init /\ [][Next]_vars

-----------------------------------------------------------------------------
(* Properties.                                                             *)

(* "dbt_test_staging (BLOCKING)": whatever fails and is retried, the       *)
(* dashboard only shows what a run built whose staging tests had passed,   *)
(* and no row that they reject among those they saw.                       *)
ShownIsGated ==
  \A m \in Tables : shown[m] # Missing =>
    /\ gated[shown[m].by] > 0
    /\ ~Has("dbt_test_staging", gated[shown[m].by])

(* "dim_item (in dbt_run_marts) then depends on the snapshot" (DAG): an    *)
(* orphan that dbt_test_marts finds is never of an item that a search page *)
(* lists which the run's gate had seen, also in marts that another run has *)
(* replaced.  Of an item that no search page lists it may be.              *)
GatedFactsResolve ==
  \A r \in Runs : Doing(r, "dbt_test_marts") =>
    \A i \in 1..table["fct_price_observation"].upto :
      bronze[i].items \cap Listed(gated[r]) \subseteq Listed(table["dim_item"].upto)

(* "the marts dbt_run_marts/dbt_test_marts just built": anomalies are only *)
(* computed from marts that have passed, as long as no two runs overlap.   *)
AnomaliesAreTested ==
  Readable("mart_anomaly") /\ ~overlapped => table["mart_anomaly"].tested

(* "Order doesn't matter" (MART_TABLES): the dashboard never shows an      *)
(* anomaly of days that its daily mart does not have, whatever fails and   *)
(* whoever else synchronises, unless the run that wrote the anomalies had  *)
(* skipped the daily mart.  Order does matter: mart_item_daily is first.   *)
DashboardIsCoherent ==
  shown["mart_anomaly"] # Missing /\ ~aside =>
    /\ shown["mart_item_daily"] # Missing
    /\ shown["mart_anomaly"].upto <= shown["mart_item_daily"].upto

(* A run that is reported "completed with no failed tasks" has brought the *)
(* tables of the dashboard, but for those that it skipped with no more     *)
(* than a warning, up to all the Bronze that its gate had passed, and no   *)
(* other run ever takes them back behind that.                             *)
SuccessIsShown ==
  \A a \in alerts : a.severity = "info" =>
    \A m \in Synced \ skipped[a.run] :
      shown[m] # Missing /\ shown[m].upto >= gated[a.run]

(* "it must run and report even when upstream tasks failed" (DAG): a run   *)
(* that is over has called send_alert, and with an error unless all of its *)
(* tasks succeeded, or publish_alerts itself died twice.                   *)
RunsAreReported ==
  \A r \in Runs : at[r] = Done =>
    \/ AlertOf(r) \in alerts
    \/ "publish_alerts" \in failed[r]

(* "dbt_test_marts (BLOCKING)": what the dashboard shows has passed it.    *)
UntestedStaysHidden == \A m \in Tables : shown[m] # Missing => shown[m].tested
=============================================================================
