--------------------------- MODULE BatchDagProofs ---------------------------
(***************************************************************************)
(* Proofs about BatchDag, for any runs, items, rows and bounds.            *)
(***************************************************************************)
EXTENDS BatchDag, TLAPS

USE BatchAssumption

-----------------------------------------------------------------------------
(* The chain.                                                              *)

LEMMA ChainLength == Len(Chain) = 12 /\ Done = 13
  BY DEF Chain, Ingest, Transform, Report, Done

LEMMA ChainPlaces ==
  /\ Chain[1] = "wait_for_bronze" /\ Chain[2] = "copy_into_snowflake"
  /\ Chain[3] = "run_quality_gates" /\ Chain[4] = "dbt_seed"
  /\ Chain[5] = "dbt_run_staging" /\ Chain[6] = "dbt_test_staging"
  /\ Chain[7] = "dbt_snapshot" /\ Chain[8] = "dbt_run_marts"
  /\ Chain[9] = "dbt_test_marts" /\ Chain[10] = "detect_anomalies"
  /\ Chain[11] = "sync_dashboard" /\ Chain[12] = "publish_alerts"
  BY DEF Chain, Ingest, Transform, Report

LEMMA NextAllDoneIs ==
  ASSUME NEW i \in 1..12
  PROVE  NextAllDone(i) = IF i = 12 THEN 13 ELSE IF i = 11 THEN 12 ELSE 11
  BY ChainLength, ChainPlaces DEF NextAllDone, AllDone

LEMMA DoingIs ==
  ASSUME NEW r \in Runs, at[r] \in 0..Done
  PROVE  /\ Active(r) <=> at[r] \in 1..12
         /\ Doing(r, "dbt_test_staging") <=> at[r] = 6
         /\ Doing(r, "dbt_snapshot") <=> at[r] = 7
         /\ Doing(r, "dbt_run_marts") <=> at[r] = 8
         /\ Doing(r, "dbt_test_marts") <=> at[r] = 9
         /\ Doing(r, "detect_anomalies") <=> at[r] = 10
         /\ Doing(r, "sync_dashboard") <=> at[r] = 11
         /\ Doing(r, "publish_alerts") <=> at[r] = 12
  BY ChainLength, ChainPlaces DEF Active, Doing

LEMMA PreparesAre ==
  ASSUME NEW r \in Runs, at[r] \in 0..Done, NEW i \in DOMAIN Ingest, Doing(r, Ingest[i])
  PROVE  at[r] \in 1..5
  BY ChainLength, ChainPlaces DEF Active, Doing, Ingest

-----------------------------------------------------------------------------
(* Types.                                                                  *)

RunTypes ==
  /\ at \in [Runs -> 0..Done]
  /\ retried \in [Runs -> BOOLEAN]
  /\ failed \in [Runs -> SUBSET Tasks]
  /\ built \in [Runs -> SUBSET DbtMarts]
  /\ unsynced \in [Runs -> [Tables -> Contents \cup {Missing}]]
  /\ fails \in 0..MaxFails

LEMMA NoTablesType == NoTables \in [Tables -> Contents \cup {Missing}]
  BY DEF NoTables

LEMMA GoToTypes ==
  ASSUME RunTypes, NEW r \in Runs, NEW i \in 0..Done, GoTo(r, i)
  PROVE  /\ at' \in [Runs -> 0..Done]
         /\ built' \in [Runs -> SUBSET DbtMarts]
         /\ unsynced' \in [Runs -> [Tables -> Contents \cup {Missing}]]
  BY NoTablesType DEF GoTo, RunTypes

LEMMA SucceedTypes ==
  ASSUME RunTypes, NEW r \in Runs, Active(r), GoOn(r), fails' \in 0..MaxFails
  PROVE  RunTypes'
<1>1. at[r] + 1 \in 0..Done
  BY ChainLength DEF Active, RunTypes
<1>2. GoTo(r, at[r] + 1)
  BY DEF Succeed, GoOn
<1>3. QED
  BY <1>1, <1>2, GoToTypes DEF Succeed, GoOn, RunTypes

LEMMA FailTypes ==
  ASSUME RunTypes, NEW r \in Runs, Active(r), Fail(r), fails' \in 0..MaxFails
  PROVE  RunTypes'
<1>1. at[r] \in 1..12
  BY ChainLength DEF Active
<1>2. retried' \in [Runs -> BOOLEAN]
  BY DEF Fail, RunTypes
<1>3. CASE retried[r]
  <2>1. GoTo(r, NextAllDone(at[r])) /\ failed' = [failed EXCEPT ![r] = @ \cup {Chain[at[r]]}]
    BY <1>3 DEF Fail
  <2>2. NextAllDone(at[r]) \in 0..Done
    BY <1>1, NextAllDoneIs, ChainLength
  <2>3. Chain[at[r]] \in Tasks
    BY <1>1, ChainLength DEF Tasks
  <2>4. failed' \in [Runs -> SUBSET Tasks]
    BY <2>1, <2>3 DEF RunTypes
  <2>5. QED
    BY <1>2, <2>1, <2>2, <2>4, GoToTypes DEF RunTypes
<1>4. CASE ~retried[r]
  <2>1. GoTo(r, at[r]) /\ failed' = failed
    BY <1>4 DEF Fail
  <2>2. at[r] \in 0..Done
    BY DEF RunTypes
  <2>3. QED
    BY <1>2, <2>1, <2>2, GoToTypes DEF RunTypes
<1>5. QED
  BY <1>3, <1>4

LEMMA FaultTypes ==
  ASSUME RunTypes, NEW r \in Runs, Active(r), Fault(r)
  PROVE  RunTypes'
<1>1. fails' \in 0..MaxFails
  BY DEF Fault, RunTypes
<1>2. QED
  BY <1>1, FailTypes DEF Fault

(* The part of the state that is not of one run, and what a mart is built  *)
(* from: the marts that dbt_run_marts has built so far are there.          *)
SharedTypes ==
  /\ bronze \in Seq(Rows)
  /\ snapshot \in 0..Len(bronze)
  /\ table \in [Tables -> Contents \cup {Missing}]
  /\ shown \in [Tables -> Contents \cup {Missing}]
  /\ gated \in [Runs -> 0..Len(bronze)]
  /\ skipped \in [Runs -> SUBSET Synced]
  /\ aside \in BOOLEAN
  /\ alerts \in SUBSET [run : Runs, severity : {"info", "error"}]
  /\ overlapped \in BOOLEAN

BuiltAreThere == \A r \in Runs : \A m \in built[r] : table[m] # Missing

TypeInv == TypeOK /\ BuiltAreThere

LEMMA TypeOKParts == TypeOK <=> RunTypes /\ SharedTypes
  BY DEF TypeOK, RunTypes, SharedTypes

LEMMA MartNames ==
  /\ DOMAIN MartTables = 1..4
  /\ MartTables[1] = "dim_item" /\ MartTables[2] = "mart_item_daily"
  /\ MartTables[3] = "fct_orderbook_snapshot" /\ MartTables[4] = "mart_anomaly"
  /\ \A i \in 1..4 : MartTables[i] \in Tables
  BY DEF MartTables, Tables, DbtMarts

(* What leaves the tables alone, and starts no mart, keeps the marts built.*)
LEMMA GoToKeepsBuilt ==
  ASSUME TypeInv, NEW r \in Runs, NEW i, GoTo(r, i),
         \A m \in Tables : table[m] # Missing => table'[m] # Missing
  PROVE  BuiltAreThere'
<1>1. \A s \in Runs : built'[s] \subseteq built[s]
  BY TypeOKParts DEF GoTo, TypeInv, RunTypes
<1>2. \A s \in Runs : built[s] \subseteq Tables
  BY TypeOKParts DEF TypeInv, RunTypes, Tables
<1>3. QED
  BY <1>1, <1>2 DEF BuiltAreThere, TypeInv

LEMMA FailGoes ==
  ASSUME NEW r \in Runs, Fail(r)
  PROVE  \E i : GoTo(r, i)
  BY DEF Fail

(* A new table is typed, and none is lost.                                 *)
LEMMA NewTable ==
  ASSUME SharedTypes, NEW m \in Tables, NEW c \in Contents,
         table' = [table EXCEPT ![m] = c]
  PROVE  /\ table' \in [Tables -> Contents \cup {Missing}]
         /\ \A l \in Tables : table[l] # Missing => table'[l] # Missing
         /\ table'[m] # Missing
  BY DEF SharedTypes, Contents

LEMMA BuildMartContents ==
  ASSUME TypeInv, NEW r \in Runs, NEW m \in DbtMarts, BuildMart(r, m)
  PROVE  \E c \in Contents :
           /\ table' = [table EXCEPT ![m] = c]
           /\ c.by = r
           /\ c.upto = IF m = "dim_item" THEN snapshot
                       ELSE IF m = "mart_item_daily"
                       THEN table["fct_price_observation"].upto
                       ELSE Len(bronze)
<1> DEFINE upto == IF m = "dim_item" THEN snapshot
                   ELSE IF m = "mart_item_daily"
                   THEN table["fct_price_observation"].upto
                   ELSE Len(bronze)
<1>1. snapshot \in Nat /\ Len(bronze) \in Nat
  BY TypeOKParts DEF TypeInv, SharedTypes
<1>2. ASSUME m = "mart_item_daily"
      PROVE  table["fct_price_observation"].upto \in Nat
  <2>1. "fct_price_observation" \in built[r]
    BY <1>2 DEF BuildMart, Sources
  <2>2. table["fct_price_observation"] \in Contents
    BY <2>1, TypeOKParts DEF TypeInv, BuiltAreThere, SharedTypes, Tables, DbtMarts
  <2>3. QED
    BY <2>2 DEF Contents
<1>3. upto \in Nat
  BY <1>1, <1>2
<1>4. [by |-> r, tested |-> FALSE, upto |-> upto] \in Contents
  BY <1>3 DEF Contents
<1>5. table' = [table EXCEPT ![m] = [by |-> r, tested |-> FALSE, upto |-> upto]]
  BY DEF BuildMart
<1>6. QED
  BY <1>4, <1>5

LEMMA DetectAnomaliesContents ==
  ASSUME TypeInv, NEW r \in Runs, DetectAnomalies(r)
  PROVE  /\ table["mart_item_daily"] \in Contents
         /\ \E c \in Contents :
              /\ table' = [table EXCEPT !["mart_anomaly"] = c]
              /\ c.by = table["mart_item_daily"].by
              /\ c.upto = table["mart_item_daily"].upto
<1>1. at[r] = 10
  BY TypeOKParts, DoingIs DEF TypeInv, RunTypes, DetectAnomalies
<1>2. Readable("mart_item_daily") /\ Readable("fct_orderbook_snapshot")
  BY <1>1, ChainPlaces DEF DetectAnomalies, CanSucceed, Accepts
<1>3. table["mart_item_daily"] \in Contents /\ table["fct_orderbook_snapshot"] \in Contents
  BY <1>2, TypeOKParts DEF TypeInv, SharedTypes, Readable, Tables, DbtMarts
<1> DEFINE d == table["mart_item_daily"]
           t == d.tested /\ table["fct_orderbook_snapshot"].tested
           c == [d EXCEPT !.tested = t]
<1>4. table' = [table EXCEPT !["mart_anomaly"] = c]
  BY DEF DetectAnomalies
<1>5. t \in BOOLEAN
  OBVIOUS
<1>6. c \in Contents /\ c.by = d.by /\ c.upto = d.upto
  <2> HIDE DEF t
  <2>1. QED
    BY <1>3, <1>5 DEF Contents
<1>7. QED
  BY <1>3, <1>4, <1>6

LEMMA PassMartTestsContents ==
  ASSUME TypeInv, NEW r \in Runs, PassMartTests(r)
  PROVE  /\ table' \in [Tables -> Contents \cup {Missing}]
         /\ \A m \in Tables : table[m] # Missing =>
              /\ table'[m] # Missing
              /\ table'[m].by = table[m].by /\ table'[m].upto = table[m].upto
         /\ \A m \in Tables : table[m] = Missing => table'[m] = Missing
<1>1. at[r] = 9
  BY TypeOKParts, DoingIs DEF TypeInv, RunTypes, PassMartTests
<1>2. \A m \in DbtMarts : Readable(m)
  BY <1>1, ChainPlaces DEF PassMartTests, CanSucceed, Accepts
<1>3. \A m \in DbtMarts : table[m] \in Contents
  BY <1>2, TypeOKParts DEF TypeInv, SharedTypes, Readable, Tables
<1>4. \A m \in DbtMarts : /\ [table[m] EXCEPT !.tested = TRUE] \in Contents
                         /\ [table[m] EXCEPT !.tested = TRUE].by = table[m].by
                         /\ [table[m] EXCEPT !.tested = TRUE].upto = table[m].upto
  BY <1>3 DEF Contents
<1>5. table' = [m \in Tables |->
                 IF m \in DbtMarts THEN [table[m] EXCEPT !.tested = TRUE] ELSE table[m]]
  BY DEF PassMartTests
<1>6. table \in [Tables -> Contents \cup {Missing}]
  BY TypeOKParts DEF TypeInv, SharedTypes
<1>7. Missing \notin Contents
  BY DEF Contents
<1>8. QED
  BY <1>2, <1>4, <1>5, <1>6, <1>7 DEF Readable

(* Bronze grows at its end.                                                *)
LEMMA LandExtends ==
  ASSUME bronze \in Seq(Rows), NEW file \in Files, Land(file)
  PROVE  /\ bronze' \in Seq(Rows)
         /\ Len(bronze) \in Nat /\ Len(bronze') \in Nat /\ Len(bronze) <= Len(bronze')
         /\ \A i \in 1..Len(bronze) : bronze'[i] = bronze[i]
<1>1. file \in Seq(Rows)
  BY BatchAssumption DEF Files
<1>2. bronze' = bronze \o file
  BY DEF Land
<1>3. QED
  BY <1>1, <1>2

LEMMA InitTypes == Init => TypeInv
<1> SUFFICES ASSUME Init PROVE TypeInv
  OBVIOUS
<1>1. RunTypes
  BY ChainLength, NoTablesType DEF Init, RunTypes
<1>2. SharedTypes
  <2>1. Len(bronze) = 0 /\ bronze \in Seq(Rows)
    BY DEF Init
  <2>2. snapshot = 0 /\ gated = [r \in Runs |-> 0] /\ alerts = {} /\ overlapped = FALSE
    BY DEF Init
  <2>3. table = NoTables /\ shown = NoTables
    BY DEF Init
  <2>4. snapshot \in 0..Len(bronze) /\ gated \in [Runs -> 0..Len(bronze)]
    BY <2>1, <2>2
  <2>5. skipped \in [Runs -> SUBSET Synced] /\ aside \in BOOLEAN
    BY DEF Init
  <2>6. QED
    BY <2>1, <2>2, <2>3, <2>4, <2>5, NoTablesType DEF SharedTypes
<1>3. BuiltAreThere
  BY DEF Init, BuiltAreThere
<1>4. QED
  BY <1>1, <1>2, <1>3, TypeOKParts DEF TypeInv

LEMMA TypeStep == TypeInv /\ [Next]_vars => TypeInv'
<1> SUFFICES ASSUME TypeInv, [Next]_vars PROVE TypeInv'
  OBVIOUS
<1>0. RunTypes /\ SharedTypes /\ BuiltAreThere
  BY TypeOKParts DEF TypeInv
<1>w. ASSUME RunTypes', SharedTypes', BuiltAreThere'
      PROVE  TypeInv'
  <2>1. TypeOK'
    BY <1>w DEF TypeOK, RunTypes, SharedTypes
  <2>2. QED
    BY <2>1, <1>w DEF TypeInv
<1>k. ASSUME UNCHANGED <<bronze, table, dashboardVars, snapshot, gated, alerts, overlapped>>
      PROVE  SharedTypes' /\ \A m \in Tables : table[m] # Missing => table'[m] # Missing
  BY <1>0, <1>k DEF SharedTypes, dashboardVars
<1>1. ASSUME NEW file \in Files, Land(file)
      PROVE  TypeInv'
  <2>1. bronze' \in Seq(Rows) /\ Len(bronze) <= Len(bronze') /\ Len(bronze) \in Nat
    BY <1>0, <1>1, LandExtends DEF SharedTypes
  <2>2. UNCHANGED <<runVars, warehouseVars, dashboardVars, gated, alerts, overlapped>>
    BY <1>1 DEF Land
  <2>3. SharedTypes'
    BY <1>0, <2>1, <2>2 DEF SharedTypes, warehouseVars, dashboardVars
  <2>4. RunTypes' /\ BuiltAreThere'
    BY <1>0, <2>2 DEF RunTypes, BuiltAreThere, runVars, warehouseVars, dashboardVars
  <2>5. QED
    BY <2>3, <2>4, <1>w
<1>2. ASSUME NEW r \in Runs, Trigger(r)
      PROVE  TypeInv'
  <2>1. RunTypes' /\ BuiltAreThere'
    BY <1>0, <1>2, ChainLength DEF RunTypes, BuiltAreThere, Trigger, warehouseVars, dashboardVars
  <2>2. overlapped' \in BOOLEAN
    BY <1>0, <1>2 DEF Trigger, SharedTypes
  <2>3. SharedTypes'
    BY <1>0, <1>2, <2>2 DEF SharedTypes, Trigger, warehouseVars, dashboardVars
  <2>4. QED
    BY <2>1, <2>3, <1>w
<1>3. ASSUME NEW r \in Runs, Step(r)
      PROVE  TypeInv'
  <2>s. Succeed(r) => GoOn(r) /\ fails' \in 0..MaxFails
    BY <1>0 DEF Succeed, RunTypes
  <2>a. ASSUME Active(r), GoOn(r), fails' \in 0..MaxFails, SharedTypes',
               \A m \in Tables : table[m] # Missing => table'[m] # Missing
        PROVE  TypeInv'
    <3>1. RunTypes'
      BY <1>0, <2>a, SucceedTypes
    <3>2. BuiltAreThere'
      BY <2>a, GoToKeepsBuilt DEF GoOn
    <3>3. QED
      BY <3>1, <3>2, <2>a, <1>w
  <2>b. ASSUME Active(r), Fail(r), fails' \in 0..MaxFails, SharedTypes',
               \A m \in Tables : table[m] # Missing => table'[m] # Missing
        PROVE  TypeInv'
    <3>1. RunTypes'
      BY <1>0, <2>b, FailTypes
    <3>2. PICK i : GoTo(r, i)
      BY <2>b, FailGoes
    <3>3. BuiltAreThere'
      BY <2>b, <3>2, GoToKeepsBuilt
    <3>4. QED
      BY <3>1, <3>3, <2>b, <1>w
  <2>1. CASE Prepare(r)
    <3>1. Active(r) /\ Succeed(r)
      BY <2>1 DEF Prepare, Doing
    <3>2. UNCHANGED <<bronze, table, dashboardVars, snapshot, gated, alerts, overlapped>>
      BY <2>1 DEF Prepare, warehouseVars, dashboardVars
    <3>3. QED
      BY <3>1, <3>2, <1>k, <2>a, <2>s
  <2>2. CASE PassStagingTests(r)
    <3>1. Active(r) /\ Succeed(r)
      BY <2>2 DEF PassStagingTests, Doing
    <3>2. SharedTypes' /\ UNCHANGED table
      BY <1>0, <2>2 DEF PassStagingTests, warehouseVars, dashboardVars, SharedTypes
    <3>3. QED
      BY <3>1, <3>2, <2>a, <2>s
  <2>3. CASE DbtSnapshot(r)
    <3>1. Active(r) /\ Succeed(r)
      BY <2>3 DEF DbtSnapshot, Doing
    <3>2. SharedTypes' /\ UNCHANGED table
      BY <1>0, <2>3 DEF DbtSnapshot, SharedTypes, dashboardVars
    <3>3. QED
      BY <3>1, <3>2, <2>a, <2>s
  <2>4. ASSUME NEW m \in DbtMarts, BuildMart(r, m)
        PROVE  TypeInv'
    <3>1. PICK c \in Contents : table' = [table EXCEPT ![m] = c]
      BY <2>4, BuildMartContents
    <3>2. /\ table' \in [Tables -> Contents \cup {Missing}]
          /\ \A l \in Tables : table[l] # Missing => table'[l] # Missing
          /\ table'[m] # Missing
      BY <1>0, <3>1, NewTable DEF Tables
    <3>3. SharedTypes'
      BY <1>0, <2>4, <3>2 DEF BuildMart, SharedTypes, dashboardVars
    <3>4. Active(r)
      BY <2>4 DEF BuildMart, Doing
    <3>5. CASE Succeed(r)
      BY <3>2, <3>3, <3>4, <3>5, <2>a, <2>s
    <3>6. CASE /\ built' = [built EXCEPT ![r] = @ \cup {m}]
               /\ UNCHANGED <<at, retried, failed, unsynced, fails>>
      <4>1. RunTypes'
        BY <1>0, <3>6 DEF RunTypes
      <4>2. \A s \in Runs : built[s] \subseteq Tables
        BY <1>0 DEF RunTypes, Tables
      <4>3. \A s \in Runs : built'[s] \subseteq built[s] \cup {m}
        BY <1>0, <3>6 DEF RunTypes
      <4>4. BuiltAreThere'
        BY <1>0, <3>2, <4>2, <4>3 DEF BuiltAreThere
      <4>5. QED
        BY <4>1, <4>4, <3>3, <1>w
    <3>7. QED
      BY <2>4, <3>5, <3>6 DEF BuildMart
  <2>5. CASE PassMartTests(r)
    <3>1. Active(r) /\ Succeed(r)
      BY <2>5 DEF PassMartTests, Doing
    <3>2. SharedTypes'
      BY <1>0, <2>5, PassMartTestsContents DEF PassMartTests, SharedTypes, dashboardVars
    <3>3. QED
      BY <3>1, <3>2, <2>5, <2>a, <2>s, PassMartTestsContents
  <2>6. CASE DetectAnomalies(r)
    <3>1. Active(r) /\ Succeed(r)
      BY <2>6 DEF DetectAnomalies, Doing
    <3>2. PICK c \in Contents : table' = [table EXCEPT !["mart_anomaly"] = c]
      BY <2>6, DetectAnomaliesContents
    <3>3. /\ table' \in [Tables -> Contents \cup {Missing}]
          /\ \A l \in Tables : table[l] # Missing => table'[l] # Missing
      BY <1>0, <3>2, NewTable DEF Tables
    <3>4. SharedTypes'
      BY <1>0, <2>6, <3>3 DEF DetectAnomalies, SharedTypes, dashboardVars
    <3>5. QED
      BY <3>1, <3>3, <3>4, <2>a, <2>s
  <2>7. CASE ReadMarts(r)
    <3>1. Active(r)
      BY <2>7 DEF ReadMarts, Doing
    <3>2. PICK skips \in SUBSET {m \in Synced : Readable(m)} :
            /\ skipped' = [skipped EXCEPT ![r] = @ \cup skips]
            /\ fails' = IF skips = {} THEN fails ELSE fails + 1
            /\ fails' <= MaxFails
            /\ \/ GoOn(r)
               \/ /\ unsynced' = [unsynced EXCEPT ![r] = MartsRead(skips)]
                  /\ UNCHANGED <<at, retried, failed, built>>
      BY <2>7 DEF ReadMarts
    <3>3. UNCHANGED <<bronze, table, snapshot, shown, aside, gated, alerts, overlapped>>
      BY <2>7 DEF ReadMarts, warehouseVars
    <3>4. skipped' \in [Runs -> SUBSET Synced]
      BY <1>0, <3>2 DEF SharedTypes
    <3>5. SharedTypes'
      BY <1>0, <3>3, <3>4 DEF SharedTypes
    <3>6. fails' \in 0..MaxFails
      BY <1>0, <3>2 DEF RunTypes
    <3>7. CASE GoOn(r)
      BY <3>1, <3>3, <3>5, <3>6, <3>7, <2>a
    <3>8. CASE /\ unsynced' = [unsynced EXCEPT ![r] = MartsRead(skips)]
               /\ UNCHANGED <<at, retried, failed, built>>
      <4>1. MartsRead(skips) \in [Tables -> Contents \cup {Missing}]
        BY <1>0 DEF MartsRead, SharedTypes
      <4>2. RunTypes'
        BY <1>0, <3>6, <3>8, <4>1 DEF RunTypes
      <4>3. BuiltAreThere'
        BY <1>0, <3>3, <3>8 DEF BuiltAreThere
      <4>4. QED
        BY <4>2, <4>3, <3>5, <1>w
    <3>9. QED
      BY <3>2, <3>7, <3>8
  <2>8. ASSUME NEW i \in DOMAIN MartTables, WriteTable(r, i)
        PROVE  TypeInv'
    <3> DEFINE left == [unsynced[r] EXCEPT ![MartTables[i]] = Missing]
    <3>1. Active(r) /\ MartTables[i] \in Tables
      BY <2>8, MartNames DEF WriteTable, Doing
    <3>2. unsynced[r] \in [Tables -> Contents \cup {Missing}]
      BY <1>0 DEF RunTypes
    <3>3. SharedTypes' /\ UNCHANGED table
      <4>1. UNCHANGED <<bronze, table, snapshot, skipped, gated, alerts, overlapped>>
        BY <2>8 DEF WriteTable, warehouseVars
      <4>2. shown' \in [Tables -> Contents \cup {Missing}]
        BY <1>0, <2>8, <3>1, <3>2 DEF WriteTable, SharedTypes
      <4>3. aside' \in BOOLEAN
        <5>1. CASE MartTables[i] = "mart_anomaly"
          <6>1. aside' = ("mart_item_daily" \in skipped[r])
            BY <2>8, <5>1 DEF WriteTable
          <6>2. QED
            BY <6>1
        <5>2. CASE MartTables[i] # "mart_anomaly"
          BY <1>0, <2>8, <5>2 DEF WriteTable, SharedTypes
        <5>3. QED
          BY <5>1, <5>2
      <4>4. QED
        BY <1>0, <4>1, <4>2, <4>3 DEF SharedTypes
    <3>4. CASE Succeed(r)
      BY <3>1, <3>3, <3>4, <2>a, <2>s
    <3>5. CASE /\ unsynced' = [unsynced EXCEPT ![r] = left]
               /\ UNCHANGED <<at, retried, failed, built, fails>>
      <4>1. left \in [Tables -> Contents \cup {Missing}]
        BY <3>1, <3>2
      <4>2. RunTypes'
        <5> HIDE DEF left
        <5>1. QED
          BY <1>0, <3>5, <4>1 DEF RunTypes
      <4>3. BuiltAreThere'
        BY <1>0, <3>3, <3>5 DEF BuiltAreThere
      <4>4. QED
        BY <4>2, <4>3, <3>3, <1>w
    <3>6. QED
      BY <2>8, <3>4, <3>5 DEF WriteTable
  <2>9. CASE PublishAlert(r)
    <3>1. Active(r)
      BY <2>9 DEF PublishAlert, Doing
    <3>2. AlertOf(r) \in [run : Runs, severity : {"info", "error"}]
      BY DEF AlertOf
    <3>3. SharedTypes' /\ UNCHANGED table
      BY <1>0, <2>9, <3>2 DEF PublishAlert, warehouseVars, dashboardVars, SharedTypes
    <3>4. CASE Succeed(r)
      BY <3>1, <3>3, <3>4, <2>a, <2>s
    <3>5. CASE Fault(r)
      BY <1>0, <3>1, <3>3, <3>5, <2>b DEF Fault, RunTypes
    <3>6. QED
      BY <2>9, <3>4, <3>5 DEF PublishAlert
  <2>10. CASE TaskFails(r)
    <3>1. Active(r) /\ Fail(r) /\ fails' \in 0..MaxFails
      BY <1>0, <2>10 DEF TaskFails, Fault, RunTypes
    <3>2. UNCHANGED <<bronze, table, dashboardVars, snapshot, gated, alerts, overlapped>>
      BY <2>10 DEF TaskFails, warehouseVars, dashboardVars
    <3>3. QED
      BY <3>1, <3>2, <1>k, <2>b
  <2>11. QED
    BY <1>3, <2>1, <2>2, <2>3, <2>4, <2>5, <2>6, <2>7, <2>8, <2>9, <2>10 DEF Step
<1>4. CASE UNCHANGED vars
  BY <1>0, <1>4, <1>w DEF vars, runVars, warehouseVars, dashboardVars, RunTypes, SharedTypes, BuiltAreThere
<1>5. QED
  BY <1>1, <1>2, <1>3, <1>4 DEF Next

LEMMA AlwaysTyped == Spec => []TypeInv
  BY InitTypes, TypeStep, PTL DEF Spec

(* Every variable of the batch stays of its type, for any runs and bounds. *)
THEOREM TypeCorrect == Spec => []TypeOK
<1>1. TypeInv => TypeOK
  BY DEF TypeInv
<1>2. QED
  BY <1>1, AlwaysTyped, PTL

-----------------------------------------------------------------------------
(* The dashboard is coherent.  A table never goes back to less of Bronze,  *)
(* and while a run synchronises nobody changes a table: what it has read   *)
(* is what is there.                                                       *)

Coherent(f) ==
  f["mart_anomaly"] # Missing =>
    /\ f["mart_item_daily"] # Missing
    /\ f["mart_anomaly"].upto <= f["mart_item_daily"].upto

ShownCoherent == ~aside => Coherent(shown)

WarehouseInv ==
  /\ \A m \in Tables : table[m] # Missing => table[m].upto <= Len(bronze)
  /\ table["dim_item"] # Missing => table["dim_item"].upto <= snapshot
  /\ table["mart_item_daily"] # Missing =>
       /\ table["fct_price_observation"] # Missing
       /\ table["mart_item_daily"].upto <= table["fct_price_observation"].upto
  /\ Coherent(table)

LockInv ==
  \A r \in Runs : /\ built[r] # {} => at[r] = 8
                  /\ unsynced[r] # NoTables => at[r] = 11

SyncInv ==
  \A r \in Runs :
    /\ \A m \in Tables : unsynced[r][m] # Missing => unsynced[r][m] = table[m]
    /\ /\ unsynced[r]["mart_anomaly"] # Missing /\ unsynced[r]["mart_item_daily"] = Missing
       /\ "mart_item_daily" \notin skipped[r]
       => /\ shown["mart_item_daily"] # Missing
          /\ shown["mart_item_daily"].upto = table["mart_item_daily"].upto

ShownInv ==
  \A m \in Tables : shown[m] # Missing =>
    table[m] # Missing /\ shown[m].upto <= table[m].upto

DashInv == WarehouseInv /\ LockInv /\ SyncInv /\ ShownInv /\ ShownCoherent

Grown ==
  \A m \in Tables : table[m] # Missing =>
    table'[m] # Missing /\ table[m].upto <= table'[m].upto

LEMMA Uptos ==
  ASSUME TypeInv
  PROVE  /\ \A m \in Tables : table[m] # Missing => table[m].upto \in Nat
         /\ \A m \in Tables : shown[m] # Missing => shown[m].upto \in Nat
         /\ snapshot \in Nat /\ Len(bronze) \in Nat /\ snapshot <= Len(bronze)
<1>1. table \in [Tables -> Contents \cup {Missing}] /\ shown \in [Tables -> Contents \cup {Missing}]
  BY TypeOKParts DEF TypeInv, SharedTypes
<1>2. \A c \in Contents : c.upto \in Nat
  BY DEF Contents
<1>3. snapshot \in Nat /\ Len(bronze) \in Nat /\ snapshot <= Len(bronze)
  BY TypeOKParts DEF TypeInv, SharedTypes
<1>4. QED
  BY <1>1, <1>2, <1>3

LEMMA ShownAfterGrowth ==
  ASSUME TypeInv, TypeInv', DashInv, Grown, UNCHANGED <<shown, aside>>
  PROVE  ShownInv' /\ ShownCoherent'
<1>1. ShownCoherent'
  BY DEF DashInv, ShownCoherent, Coherent
<1>2. ASSUME NEW m \in Tables, shown'[m] # Missing
      PROVE  table'[m] # Missing /\ shown'[m].upto <= table'[m].upto
  <2>1. table[m] # Missing /\ shown[m].upto <= table[m].upto /\ shown[m] # Missing
    BY <1>2 DEF DashInv, ShownInv
  <2>2. table'[m] # Missing /\ table[m].upto <= table'[m].upto
    BY <2>1 DEF Grown
  <2>3. table[m].upto \in Nat /\ shown[m].upto \in Nat
    BY <2>1, Uptos
  <2>4. PICK n : n = table'[m].upto
    OBVIOUS
  <2>5. n \in Nat
    <3>1. table' \in [Tables -> Contents \cup {Missing}]
      BY DEF TypeInv, TypeOK
    <3>2. table'[m] \in Contents
      BY <3>1, <2>2
    <3>3. QED
      BY <3>2, <2>4 DEF Contents
  <2>6. QED
    BY <2>1, <2>2, <2>3, <2>4, <2>5
<1>3. QED
  BY <1>1, <1>2 DEF ShownInv

(* Who has the warehouse: only the task that writes, or that reads.        *)
LEMMA LockAfterGoTo ==
  ASSUME TypeInv, LockInv, NEW r \in Runs, NEW i, GoTo(r, i)
  PROVE  LockInv'
  BY TypeOKParts DEF TypeInv, RunTypes, LockInv, GoTo

(* What starts nothing and changes no table keeps what was read.           *)
LEMMA SyncWhenTablesStay ==
  ASSUME DashInv, UNCHANGED <<table, shown, skipped>>,
         \A r \in Runs : unsynced'[r] \in {unsynced[r], NoTables}
  PROVE  SyncInv'
<1>1. SyncInv
  BY DEF DashInv
<1>2. NoTables["mart_anomaly"] = Missing /\ \A m \in Tables : NoTables[m] = Missing
  BY DEF NoTables, Tables
<1>3. ASSUME NEW r \in Runs
      PROVE  /\ \A m \in Tables : unsynced'[r][m] # Missing => unsynced'[r][m] = table'[m]
             /\ /\ unsynced'[r]["mart_anomaly"] # Missing
                /\ unsynced'[r]["mart_item_daily"] = Missing
                /\ "mart_item_daily" \notin skipped'[r]
                => /\ shown'["mart_item_daily"] # Missing
                   /\ shown'["mart_item_daily"].upto = table'["mart_item_daily"].upto
  <2>1. CASE unsynced'[r] = unsynced[r]
    BY <1>1, <2>1 DEF SyncInv
  <2>2. CASE unsynced'[r] = NoTables
    BY <1>2, <2>2
  <2>3. QED
    BY <2>1, <2>2
<1>4. QED
  BY <1>3 DEF SyncInv

LEMMA SyncWhenNobodyReads ==
  ASSUME \A r \in Runs : unsynced'[r] = NoTables
  PROVE  SyncInv'
  BY DEF SyncInv, NoTables, Tables

(* A task that opens the warehouse to write finds nobody reading.          *)
LEMMA WritersAreAlone ==
  ASSUME TypeInv, LockInv, NEW r \in Runs, at[r] \in {8, 9, 10}, CanSucceed(r)
  PROVE  \A s \in Runs : unsynced[s] = NoTables
<1>1. MayWrite(r)
  BY ChainPlaces DEF CanSucceed, Opens, WithoutWarehouse
<1>2. unsynced[r] = NoTables
  BY DEF LockInv
<1>3. QED
  BY <1>1, <1>2 DEF MayWrite, Reading

LEMMA QuietAfterGoTo ==
  ASSUME TypeInv, NEW r \in Runs, NEW i, GoTo(r, i)
  PROVE  \A s \in Runs : unsynced'[s] \in {unsynced[s], NoTables}
  BY TypeOKParts DEF TypeInv, RunTypes, GoTo

(* What neither changes a table nor the dashboard.                         *)
LEMMA DashWhenTablesStay ==
  ASSUME TypeInv, TypeInv', DashInv, UNCHANGED <<table, shown, skipped, aside>>,
         Len(bronze) <= Len(bronze'), snapshot <= snapshot',
         NEW r \in Runs, NEW i, GoTo(r, i)
  PROVE  DashInv'
<1>1. LockInv'
  BY LockAfterGoTo DEF DashInv
<1>2. SyncInv'
  BY SyncWhenTablesStay, QuietAfterGoTo
<1>3. ShownInv' /\ ShownCoherent'
  BY DEF DashInv, ShownInv, ShownCoherent, Coherent
<1>4. WarehouseInv'
  <2>1. PICK n \in Nat, k \in Nat : n = Len(bronze') /\ k = snapshot'
    BY DEF TypeInv, TypeOK
  <2>2. Len(bronze) <= n /\ snapshot <= k
    BY <2>1
  <2>3. \A m \in Tables : table'[m] # Missing => table'[m].upto <= n
    BY <2>1, <2>2, Uptos DEF DashInv, WarehouseInv
  <2>4. "dim_item" \in Tables
    BY DEF Tables, DbtMarts
  <2>5. table'["dim_item"] # Missing => table'["dim_item"].upto <= k
    BY <2>1, <2>2, <2>4, Uptos DEF DashInv, WarehouseInv
  <2>6. QED
    BY <2>1, <2>3, <2>5 DEF DashInv, WarehouseInv, Coherent
<1>5. QED
  BY <1>1, <1>2, <1>3, <1>4 DEF DashInv

(* A step of a writer, from what it does to the tables.                    *)
LEMMA DashAfterWriting ==
  ASSUME TypeInv, TypeInv', DashInv, NEW r \in Runs, at[r] \in {8, 9, 10}, CanSucceed(r),
         UNCHANGED <<shown, aside>>, Grown, WarehouseInv', LockInv',
         \A s \in Runs : unsynced'[s] \in {unsynced[s], NoTables}
  PROVE  DashInv'
<1>1. \A s \in Runs : unsynced'[s] = NoTables
  BY WritersAreAlone DEF DashInv
<1>2. SyncInv'
  BY <1>1, SyncWhenNobodyReads
<1>3. QED
  BY <1>2, ShownAfterGrowth DEF DashInv

LEMMA BuildMartKeepsWarehouse ==
  ASSUME TypeInv, DashInv, NEW r \in Runs, NEW m \in DbtMarts, BuildMart(r, m)
  PROVE  Grown /\ WarehouseInv'
<1>1. PICK c \in Contents :
        /\ table' = [table EXCEPT ![m] = c]
        /\ c.upto = IF m = "dim_item" THEN snapshot
                    ELSE IF m = "mart_item_daily" THEN table["fct_price_observation"].upto
                    ELSE Len(bronze)
  BY BuildMartContents
<1>2. UNCHANGED <<bronze, snapshot>>
  BY DEF BuildMart
<1>3. /\ c # Missing /\ c.upto \in Nat
      /\ table \in [Tables -> Contents \cup {Missing}]
      /\ \A l \in Tables : table[l] # Missing => table[l].upto \in Nat
      /\ snapshot \in Nat /\ Len(bronze) \in Nat /\ snapshot <= Len(bronze)
  BY Uptos, TypeOKParts DEF TypeInv, SharedTypes, Contents
<1>4. /\ "dim_item" \in Tables /\ "fct_price_observation" \in Tables
      /\ "mart_item_daily" \in Tables /\ "mart_anomaly" \in Tables /\ m \in Tables
      /\ m # "mart_anomaly"
  BY DEF Tables, DbtMarts
<1>5. table'[m] = c /\ \A l \in Tables \ {m} : table'[l] = table[l]
  BY <1>1, <1>3, <1>4
<1>6. WarehouseInv
  BY DEF DashInv
<1>7. CASE m = "dim_item"
  <2>1. c.upto = snapshot
    BY <1>1, <1>7
  <2>2. table[m] # Missing => table[m].upto <= c.upto
    BY <2>1, <1>6, <1>7 DEF WarehouseInv
  <2>3. Grown
    BY <1>3, <1>5, <2>2 DEF Grown
  <2>4. WarehouseInv'
    BY <1>2, <1>3, <1>4, <1>5, <1>6, <1>7, <2>1 DEF WarehouseInv, Coherent
  <2>5. QED
    BY <2>3, <2>4
<1>8. CASE m = "mart_item_daily"
  <2>1. c.upto = table["fct_price_observation"].upto
    BY <1>1, <1>8
  <2>2. table["fct_price_observation"] # Missing
    BY <1>8 DEF BuildMart, Sources, TypeInv, BuiltAreThere
  <2>3. table[m] # Missing => table[m].upto <= c.upto
    BY <2>1, <1>6, <1>8 DEF WarehouseInv
  <2>4. Grown
    BY <1>3, <1>5, <2>3 DEF Grown
  <2>5. Coherent(table)'
    BY <1>3, <1>4, <1>5, <1>6, <1>8, <2>3 DEF WarehouseInv, Coherent
  <2>6. WarehouseInv'
    BY <1>2, <1>3, <1>4, <1>5, <1>6, <1>8, <2>1, <2>2, <2>5 DEF WarehouseInv
  <2>7. QED
    BY <2>4, <2>6
<1>9. CASE m \notin {"dim_item", "mart_item_daily"}
  <2>1. c.upto = Len(bronze)
    BY <1>1, <1>9
  <2>2. table[m] # Missing => table[m].upto <= c.upto
    BY <2>1, <1>4, <1>6 DEF WarehouseInv
  <2>3. Grown
    BY <1>3, <1>5, <2>2 DEF Grown
  <2>4. Coherent(table)'
    BY <1>4, <1>5, <1>6, <1>9 DEF WarehouseInv, Coherent
  <2>5. table'["mart_item_daily"] # Missing =>
          /\ table'["fct_price_observation"] # Missing
          /\ table'["mart_item_daily"].upto <= table'["fct_price_observation"].upto
    <3>1. CASE m = "fct_price_observation"
      BY <1>3, <1>4, <1>5, <1>6, <2>1, <3>1 DEF WarehouseInv
    <3>2. CASE m # "fct_price_observation"
      BY <1>4, <1>5, <1>6, <1>9, <3>2 DEF WarehouseInv
    <3>3. QED
      BY <3>1, <3>2
  <2>6. WarehouseInv'
    BY <1>2, <1>3, <1>4, <1>5, <1>6, <1>9, <2>1, <2>4, <2>5 DEF WarehouseInv
  <2>7. QED
    BY <2>3, <2>6
<1>10. QED
  BY <1>7, <1>8, <1>9

LEMMA PassMartTestsKeepsWarehouse ==
  ASSUME TypeInv, DashInv, NEW r \in Runs, PassMartTests(r)
  PROVE  Grown /\ WarehouseInv'
<1>1. UNCHANGED <<bronze, snapshot>>
  BY DEF PassMartTests
<1>2. /\ \A m \in Tables : table[m] # Missing => table'[m] # Missing /\ table'[m].upto = table[m].upto
      /\ \A m \in Tables : table[m] = Missing => table'[m] = Missing
  BY PassMartTestsContents
<1>3. /\ "dim_item" \in Tables /\ "fct_price_observation" \in Tables
      /\ "mart_item_daily" \in Tables /\ "mart_anomaly" \in Tables
  BY DEF Tables, DbtMarts
<1>4. Grown
  BY <1>2, Uptos DEF Grown
<1>5. WarehouseInv'
  BY <1>1, <1>2, <1>3 DEF DashInv, WarehouseInv, Coherent
<1>6. QED
  BY <1>4, <1>5

LEMMA DetectAnomaliesKeepsWarehouse ==
  ASSUME TypeInv, DashInv, NEW r \in Runs, DetectAnomalies(r)
  PROVE  Grown /\ WarehouseInv'
<1>1. UNCHANGED <<bronze, snapshot>>
  BY DEF DetectAnomalies
<1>2. PICK c \in Contents : /\ table' = [table EXCEPT !["mart_anomaly"] = c]
                            /\ c.upto = table["mart_item_daily"].upto
  BY DetectAnomaliesContents
<1>3. /\ "dim_item" \in Tables /\ "fct_price_observation" \in Tables
      /\ "mart_item_daily" \in Tables /\ "mart_anomaly" \in Tables
  BY DEF Tables, DbtMarts
<1>4. /\ table["mart_item_daily"] # Missing /\ c # Missing
      /\ table \in [Tables -> Contents \cup {Missing}]
  BY DetectAnomaliesContents, TypeOKParts DEF TypeInv, SharedTypes, Contents
<1>5. table'["mart_anomaly"] = c /\ \A l \in Tables \ {"mart_anomaly"} : table'[l] = table[l]
  BY <1>2, <1>3, <1>4
<1>6. WarehouseInv
  BY DEF DashInv
<1>7. Grown
  BY <1>2, <1>3, <1>4, <1>5, <1>6, Uptos DEF Grown, WarehouseInv, Coherent
<1>8. WarehouseInv'
  BY <1>1, <1>2, <1>3, <1>4, <1>5, <1>6, Uptos DEF WarehouseInv, Coherent
<1>9. QED
  BY <1>7, <1>8

(* sync_dashboard: what is written is what is in the warehouse, and the    *)
(* anomalies are written after the daily mart.                             *)
LEMMA ReadMartsKeepsSync ==
  ASSUME TypeInv, DashInv, NEW r \in Runs, NEW skips, UNCHANGED <<table, shown>>,
         skipped' = [skipped EXCEPT ![r] = @ \cup skips],
         unsynced' = [unsynced EXCEPT ![r] = MartsRead(skips)]
  PROVE  SyncInv'
<1>1. /\ \A s \in Runs \ {r} : unsynced'[s] = unsynced[s]
      /\ unsynced'[r] = MartsRead(skips)
  BY TypeOKParts DEF TypeInv, RunTypes
<1>s. /\ \A s \in Runs \ {r} : skipped'[s] = skipped[s]
      /\ skips \subseteq skipped'[r]
  BY TypeOKParts DEF TypeInv, SharedTypes
<1>2. /\ \A m \in Tables : MartsRead(skips)[m] # Missing => MartsRead(skips)[m] = table[m]
      /\ "mart_item_daily" \notin skips =>
           MartsRead(skips)["mart_item_daily"] = table["mart_item_daily"]
  <2>1. "mart_item_daily" \in Synced /\ "mart_item_daily" \in Tables
    BY MartNames DEF Synced, Tables, DbtMarts
  <2>2. QED
    BY <2>1 DEF MartsRead
<1>3. table["mart_anomaly"] # Missing => table["mart_item_daily"] # Missing
  BY DEF DashInv, WarehouseInv, Coherent
<1>4. ASSUME NEW s \in Runs
      PROVE  /\ \A m \in Tables : unsynced'[s][m] # Missing => unsynced'[s][m] = table[m]
             /\ /\ unsynced'[s]["mart_anomaly"] # Missing
                /\ unsynced'[s]["mart_item_daily"] = Missing
                /\ "mart_item_daily" \notin skipped'[s]
                => /\ shown["mart_item_daily"] # Missing
                   /\ shown["mart_item_daily"].upto = table["mart_item_daily"].upto
  <2>1. CASE s # r
    BY <1>1, <1>s, <2>1 DEF DashInv, SyncInv
  <2>2. CASE s = r
    <3>1. "mart_anomaly" \in Tables
      BY DEF Tables
    <3>2. QED
      BY <1>1, <1>s, <1>2, <1>3, <2>2, <3>1
  <2>3. QED
    BY <2>1, <2>2
<1>5. QED
  BY <1>4 DEF SyncInv

LEMMA WriteTableKeepsDash ==
  ASSUME TypeInv, DashInv, NEW r \in Runs, NEW i \in DOMAIN MartTables, WriteTable(r, i)
  PROVE  SyncInv' /\ ShownInv' /\ ShownCoherent'
<1> DEFINE m == MartTables[i]
           left == [unsynced[r] EXCEPT ![m] = Missing]
<1>1. UNCHANGED <<table, skipped>>
  BY DEF WriteTable, warehouseVars
<1>2. /\ i \in 1..4 /\ m \in Tables
      /\ "mart_item_daily" \in Tables /\ "mart_anomaly" \in Tables
  BY MartNames DEF Tables, DbtMarts
<1>3. unsynced[r][m] # Missing /\ unsynced[r][m] = table[m]
  BY <1>2 DEF WriteTable, DashInv, SyncInv
<1>4. shown' = [shown EXCEPT ![m] = table[m]]
  BY <1>3 DEF WriteTable
<1>5. /\ shown \in [Tables -> Contents \cup {Missing}]
      /\ unsynced \in [Runs -> [Tables -> Contents \cup {Missing}]]
  BY TypeOKParts DEF TypeInv, SharedTypes, RunTypes
<1>6. shown'[m] = table[m] /\ \A l \in Tables \ {m} : shown'[l] = shown[l]
  BY <1>2, <1>4, <1>5
<1>7. table[m] # Missing
  BY <1>3
<1>8. ShownInv'
  BY <1>1, <1>6, <1>7, Uptos DEF DashInv, ShownInv
<1>9. ShownCoherent'
  <2>1. Coherent(table)
    BY DEF DashInv, WarehouseInv
  <2>2. CASE m = "mart_anomaly"
    <3>1. i = 4
      BY <1>2, <2>2, MartNames
    <3>2. unsynced[r]["mart_item_daily"] = Missing
      BY <3>1, MartNames DEF WriteTable
    <3>a. aside' <=> "mart_item_daily" \in skipped[r]
      BY <2>2 DEF WriteTable
    <3>3. unsynced[r]["mart_anomaly"] # Missing
      BY <1>3, <2>2
    <3>4. ~aside' => /\ shown["mart_item_daily"] # Missing
                     /\ shown["mart_item_daily"].upto = table["mart_item_daily"].upto
      BY <3>a, <3>2, <3>3 DEF DashInv, SyncInv
    <3>5. QED
      BY <1>2, <1>6, <1>7, <2>1, <2>2, <3>4 DEF ShownCoherent, Coherent
  <2>3. CASE m = "mart_item_daily"
    <3>1. ASSUME shown'["mart_anomaly"] # Missing
          PROVE  shown'["mart_anomaly"].upto <= shown'["mart_item_daily"].upto
      <4>1. shown'["mart_anomaly"] = shown["mart_anomaly"]
        BY <1>2, <1>6, <2>3
      <4>2. /\ table["mart_anomaly"] # Missing
            /\ shown["mart_anomaly"].upto <= table["mart_anomaly"].upto
            /\ shown["mart_anomaly"].upto \in Nat
        BY <1>2, <3>1, <4>1, Uptos DEF DashInv, ShownInv
      <4>3. table["mart_anomaly"].upto <= table["mart_item_daily"].upto
        BY <2>1, <4>2 DEF Coherent
      <4>4. table["mart_anomaly"].upto \in Nat /\ table["mart_item_daily"].upto \in Nat
        BY <1>2, <1>7, <2>3, <4>2, Uptos
      <4>5. QED
        BY <1>6, <2>3, <4>1, <4>2, <4>3, <4>4
    <3>2. QED
      BY <1>6, <1>7, <2>3, <3>1 DEF ShownCoherent, Coherent
  <2>4. CASE m \notin {"mart_anomaly", "mart_item_daily"}
    <3>1. aside' = aside
      BY <2>4 DEF WriteTable
    <3>2. QED
      BY <1>2, <1>6, <2>4, <3>1 DEF DashInv, ShownCoherent, Coherent
  <2>5. QED
    BY <2>2, <2>3, <2>4
<1>10. \A s \in Runs \ {r} : unsynced'[s] = unsynced[s]
  BY <1>5 DEF WriteTable, Succeed, GoOn, GoTo
<1>11. unsynced'[r] \in {left, NoTables}
  BY <1>5 DEF WriteTable, Succeed, GoOn, GoTo
<1>12. left \in [Tables -> Contents \cup {Missing}] /\ left[m] = Missing
       /\ \A l \in Tables \ {m} : left[l] = unsynced[r][l]
  BY <1>2, <1>5
<1>13. NoTables = [l \in Tables |-> Missing]
  BY DEF NoTables
<1>14. ASSUME NEW s \in Runs
       PROVE  /\ \A l \in Tables : unsynced'[s][l] # Missing => unsynced'[s][l] = table[l]
              /\ /\ unsynced'[s]["mart_anomaly"] # Missing
                 /\ unsynced'[s]["mart_item_daily"] = Missing
                 /\ "mart_item_daily" \notin skipped[s]
                 => /\ shown'["mart_item_daily"] # Missing
                    /\ shown'["mart_item_daily"].upto = table["mart_item_daily"].upto
  <2> HIDE DEF left
  <2>1. \A l \in Tables : unsynced'[s][l] # Missing => unsynced'[s][l] = unsynced[s][l]
    <3>1. CASE s # r
      BY <1>10, <3>1
    <3>2. CASE s = r
      BY <1>11, <1>12, <1>13, <3>2
    <3>3. QED
      BY <3>1, <3>2
  <2>2. \A l \in Tables : unsynced'[s][l] # Missing => unsynced'[s][l] = table[l]
    BY <2>1 DEF DashInv, SyncInv
  <2>3. ASSUME unsynced'[s]["mart_anomaly"] # Missing, unsynced'[s]["mart_item_daily"] = Missing,
               "mart_item_daily" \notin skipped[s]
        PROVE  /\ shown'["mart_item_daily"] # Missing
               /\ shown'["mart_item_daily"].upto = table["mart_item_daily"].upto
    <3>1. CASE m = "mart_item_daily"
      BY <1>6, <1>7, <3>1
    <3>2. CASE m # "mart_item_daily"
      <4>1. unsynced[s]["mart_anomaly"] # Missing
        BY <1>2, <2>1, <2>3
      <4>2. unsynced[s]["mart_item_daily"] = Missing
        <5>1. CASE s # r
          BY <1>10, <2>3, <5>1
        <5>2. CASE s = r
          BY <1>2, <1>11, <1>12, <1>13, <2>3, <3>2, <5>2
        <5>3. QED
          BY <5>1, <5>2
      <4>3. QED
        BY <1>2, <1>6, <2>3, <3>2, <4>1, <4>2 DEF DashInv, SyncInv
    <3>3. QED
      BY <3>1, <3>2
  <2>4. QED
    BY <2>2, <2>3
<1>15. SyncInv'
  BY <1>1, <1>14 DEF SyncInv
<1>16. QED
  BY <1>8, <1>9, <1>15

LEMMA DashInit == Init => DashInv
<1>1. /\ "dim_item" \in Tables /\ "mart_item_daily" \in Tables /\ "mart_anomaly" \in Tables
      /\ \A m \in Tables : NoTables[m] = Missing
  BY DEF Tables, DbtMarts, NoTables
<1>2. QED
  BY <1>1 DEF Init, DashInv, WarehouseInv, LockInv, SyncInv, ShownInv, ShownCoherent, Coherent

LEMMA DashStep == TypeInv /\ TypeInv' /\ DashInv /\ [Next]_vars => DashInv'
<1> SUFFICES ASSUME TypeInv, TypeInv', DashInv, [Next]_vars PROVE DashInv'
  OBVIOUS
<1>0. RunTypes /\ WarehouseInv /\ LockInv /\ SyncInv /\ ShownInv /\ ShownCoherent
  BY TypeOKParts DEF TypeInv, DashInv
<1>n. Len(bronze) \in Nat /\ snapshot \in Nat /\ snapshot <= Len(bronze)
  BY Uptos
<1>1. ASSUME NEW file \in Files, Land(file)
      PROVE  DashInv'
  <2>1. UNCHANGED <<at, built, unsynced, snapshot, table, shown, skipped, aside>>
    BY <1>1 DEF Land, runVars, warehouseVars, dashboardVars
  <2>2. Len(bronze') \in Nat /\ Len(bronze) <= Len(bronze')
    BY <1>1, LandExtends, TypeOKParts DEF TypeInv, SharedTypes
  <2>3. WarehouseInv'
    BY <1>0, <1>n, <2>1, <2>2, Uptos DEF WarehouseInv, Coherent
  <2>4. LockInv' /\ SyncInv' /\ ShownInv' /\ ShownCoherent'
    BY <1>0, <2>1 DEF LockInv, SyncInv, ShownInv, ShownCoherent, Coherent
  <2>5. QED
    BY <2>3, <2>4 DEF DashInv
<1>2. ASSUME NEW r \in Runs, Trigger(r)
      PROVE  DashInv'
  <2>1. UNCHANGED <<bronze, built, unsynced, snapshot, table, shown, skipped, aside>>
    BY <1>2 DEF Trigger, warehouseVars, dashboardVars
  <2>2. at[r] = 0 /\ \A s \in Runs \ {r} : at'[s] = at[s]
    BY <1>0, <1>2 DEF Trigger, RunTypes
  <2>3. LockInv'
    BY <1>0, <2>1, <2>2 DEF LockInv
  <2>4. WarehouseInv' /\ SyncInv' /\ ShownInv' /\ ShownCoherent'
    BY <1>0, <2>1 DEF WarehouseInv, SyncInv, ShownInv, ShownCoherent, Coherent
  <2>5. QED
    BY <2>3, <2>4 DEF DashInv
<1>3. ASSUME NEW r \in Runs, Step(r)
      PROVE  DashInv'
  <2>t. at[r] \in 0..Done
    BY <1>0 DEF RunTypes
  <2>a. ASSUME NEW i, GoTo(r, i), UNCHANGED <<bronze, table, shown, skipped, aside>>, snapshot <= snapshot'
        PROVE  DashInv'
    <3>1. Len(bronze) <= Len(bronze')
      BY <1>n, <2>a
    <3>2. QED
      BY <2>a, <3>1, DashWhenTablesStay
  <2>1. CASE Prepare(r)
    <3>1. UNCHANGED <<bronze, table, shown, skipped, aside, snapshot>>
      BY <2>1 DEF Prepare, warehouseVars, dashboardVars
    <3>2. QED
      BY <1>n, <2>1, <3>1, <2>a DEF Prepare, Succeed, GoOn
  <2>2. CASE PassStagingTests(r)
    <3>1. UNCHANGED <<bronze, table, shown, skipped, aside, snapshot>>
      BY <2>2 DEF PassStagingTests, warehouseVars, dashboardVars
    <3>2. QED
      BY <1>n, <2>2, <3>1, <2>a DEF PassStagingTests, Succeed, GoOn
  <2>3. CASE DbtSnapshot(r)
    BY <1>n, <2>3, <2>a DEF DbtSnapshot, Succeed, GoOn, dashboardVars
  <2>4. ASSUME NEW m \in DbtMarts, BuildMart(r, m)
        PROVE  DashInv'
    <3>1. at[r] = 8 /\ CanSucceed(r) /\ UNCHANGED <<shown, aside>>
      BY <2>4, <2>t, DoingIs DEF BuildMart, dashboardVars
    <3>2. Grown /\ WarehouseInv'
      BY <2>4, BuildMartKeepsWarehouse
    <3>3. CASE Succeed(r)
      BY <1>0, <3>1, <3>2, <3>3, LockAfterGoTo, QuietAfterGoTo, DashAfterWriting DEF Succeed, GoOn
    <3>4. CASE /\ built' = [built EXCEPT ![r] = @ \cup {m}]
               /\ UNCHANGED <<at, retried, failed, unsynced, fails>>
      <4>1. LockInv'
        BY <1>0, <3>1, <3>4 DEF LockInv, RunTypes
      <4>2. QED
        BY <3>1, <3>2, <3>4, <4>1, DashAfterWriting
    <3>5. QED
      BY <2>4, <3>3, <3>4 DEF BuildMart
  <2>5. CASE PassMartTests(r)
    <3>1. at[r] = 9 /\ CanSucceed(r) /\ UNCHANGED <<shown, aside>> /\ GoTo(r, at[r] + 1)
      BY <2>5, <2>t, DoingIs DEF PassMartTests, Succeed, GoOn, dashboardVars
    <3>2. Grown /\ WarehouseInv'
      BY <2>5, PassMartTestsKeepsWarehouse
    <3>3. QED
      BY <1>0, <3>1, <3>2, LockAfterGoTo, QuietAfterGoTo, DashAfterWriting
  <2>6. CASE DetectAnomalies(r)
    <3>1. at[r] = 10 /\ CanSucceed(r) /\ UNCHANGED <<shown, aside>> /\ GoTo(r, at[r] + 1)
      BY <2>6, <2>t, DoingIs DEF DetectAnomalies, Succeed, GoOn, dashboardVars
    <3>2. Grown /\ WarehouseInv'
      BY <2>6, DetectAnomaliesKeepsWarehouse
    <3>3. QED
      BY <1>0, <3>1, <3>2, LockAfterGoTo, QuietAfterGoTo, DashAfterWriting
  <2>7. CASE ReadMarts(r)
    <3>1. at[r] = 11 /\ UNCHANGED <<bronze, table, snapshot, shown, aside>>
      BY <2>7, <2>t, DoingIs DEF ReadMarts, warehouseVars
    <3>2. PICK skips :
            /\ skipped' = [skipped EXCEPT ![r] = @ \cup skips]
            /\ \/ GoOn(r) /\ MartsRead(skips) = NoTables
               \/ /\ unsynced' = [unsynced EXCEPT ![r] = MartsRead(skips)]
                  /\ UNCHANGED <<at, retried, failed, built>>
      BY <2>7 DEF ReadMarts
    <3>3. WarehouseInv' /\ ShownInv' /\ ShownCoherent'
      BY <1>0, <3>1 DEF WarehouseInv, ShownInv, ShownCoherent, Coherent
    <3>4. unsynced' = [unsynced EXCEPT ![r] = MartsRead(skips)]
      BY <3>2 DEF GoOn, GoTo
    <3>5. SyncInv'
      BY <3>1, <3>2, <3>4, ReadMartsKeepsSync
    <3>6. LockInv'
      <4>1. CASE GoOn(r)
        BY <1>0, <4>1, LockAfterGoTo DEF GoOn
      <4>2. CASE UNCHANGED <<at, retried, failed, built>>
        BY <1>0, <3>1, <3>4, <4>2 DEF LockInv, RunTypes
      <4>3. QED
        BY <3>2, <4>1, <4>2
    <3>7. QED
      BY <3>3, <3>5, <3>6 DEF DashInv
  <2>8. ASSUME NEW i \in DOMAIN MartTables, WriteTable(r, i)
        PROVE  DashInv'
    <3>1. SyncInv' /\ ShownInv' /\ ShownCoherent'
      BY <2>8, WriteTableKeepsDash
    <3>2. at[r] = 11 /\ UNCHANGED <<bronze, table, snapshot>>
      BY <2>8, <2>t, DoingIs DEF WriteTable, warehouseVars
    <3>3. WarehouseInv'
      BY <1>0, <3>2 DEF WarehouseInv, Coherent
    <3>4. LockInv'
      <4>1. CASE Succeed(r)
        BY <1>0, <4>1, LockAfterGoTo DEF Succeed, GoOn
      <4>2. CASE ~Succeed(r)
        <5>1. /\ \A s \in Runs \ {r} : unsynced'[s] = unsynced[s]
              /\ UNCHANGED <<at, built>>
          BY <1>0, <2>8, <4>2 DEF WriteTable, RunTypes
        <5>2. QED
          BY <1>0, <3>2, <5>1 DEF LockInv
      <4>3. QED
        BY <4>1, <4>2
    <3>5. QED
      BY <3>1, <3>3, <3>4 DEF DashInv
  <2>9. CASE PublishAlert(r)
    <3>1. UNCHANGED <<bronze, table, shown, skipped, aside, snapshot>>
      BY <2>9 DEF PublishAlert, warehouseVars, dashboardVars
    <3>2. PICK i : GoTo(r, i)
      BY <2>9, FailGoes DEF PublishAlert, Succeed, GoOn, Fault
    <3>3. QED
      BY <1>n, <3>1, <3>2, <2>a
  <2>10. CASE TaskFails(r)
    <3>1. UNCHANGED <<bronze, table, shown, skipped, aside, snapshot>>
      BY <2>10 DEF TaskFails, warehouseVars, dashboardVars
    <3>2. PICK i : GoTo(r, i)
      BY <2>10, FailGoes DEF TaskFails, Fault
    <3>3. QED
      BY <1>n, <3>1, <3>2, <2>a
  <2>11. QED
    BY <1>3, <2>1, <2>2, <2>3, <2>4, <2>5, <2>6, <2>7, <2>8, <2>9, <2>10 DEF Step
<1>4. CASE UNCHANGED vars
  BY <1>0, <1>4 DEF vars, runVars, warehouseVars, dashboardVars, DashInv, WarehouseInv, LockInv, SyncInv,
                    ShownInv, ShownCoherent, Coherent
<1>5. QED
  BY <1>1, <1>2, <1>3, <1>4 DEF Next

(* The dashboard never shows an anomaly of days that its daily mart lacks, *)
(* however many runs overlap and whatever dies between two tables, unless  *)
(* the run that wrote the anomalies had skipped the daily mart.            *)
THEOREM DashboardStaysCoherent == Spec => []DashboardIsCoherent
<1>1. DashInv => DashboardIsCoherent
  BY DEF DashInv, ShownCoherent, Coherent, DashboardIsCoherent
<1>2. QED
  BY <1>1, AlwaysTyped, DashInit, DashStep, PTL DEF Spec

-----------------------------------------------------------------------------
(* Every run is reported.                                                  *)

LEMMA StepShape ==
  ASSUME NEW r \in Runs, Step(r)
  PROVE  Active(r) /\ (GoOn(r) \/ Fail(r) \/ UNCHANGED <<at, failed>>)
<1>1. CASE Prepare(r) \/ PassStagingTests(r) \/ DbtSnapshot(r) \/ PassMartTests(r) \/ DetectAnomalies(r)
  BY <1>1 DEF Prepare, PassStagingTests, DbtSnapshot, PassMartTests, DetectAnomalies, Doing, Succeed
<1>2. CASE \E m \in DbtMarts : BuildMart(r, m)
  BY <1>2 DEF BuildMart, Doing, Succeed
<1>3. CASE \E i \in DOMAIN MartTables : WriteTable(r, i)
  BY <1>3 DEF WriteTable, Doing, Succeed
<1>4. CASE ReadMarts(r)
  BY <1>4 DEF ReadMarts, Doing
<1>5. CASE PublishAlert(r)
  BY <1>5 DEF PublishAlert, Fault, Doing, Succeed
<1>6. CASE TaskFails(r)
  BY <1>6 DEF TaskFails, Fault
<1>7. QED
  BY <1>1, <1>2, <1>3, <1>4, <1>5, <1>6 DEF Step

LEMMA OthersStay ==
  ASSUME RunTypes, NEW r \in Runs, Step(r), NEW s \in Runs, s # r
  PROVE  at'[s] = at[s] /\ failed'[s] = failed[s]
<1>1. CASE GoOn(r)
  BY <1>1 DEF Succeed, GoOn, GoTo, RunTypes
<1>2. CASE Fail(r)
  <2>1. PICK i : GoTo(r, i)
    BY <1>2, FailGoes
  <2>2. at'[s] = at[s]
    BY <2>1 DEF GoTo, RunTypes
  <2>3. failed'[s] = failed[s]
    BY <1>2 DEF Fail, RunTypes
  <2>4. QED
    BY <2>2, <2>3
<1>3. CASE UNCHANGED <<at, failed>>
  BY <1>3
<1>4. QED
  BY <1>1, <1>2, <1>3, StepShape

(* Where a failed attempt leads.                                           *)
LEMMA FailLeads ==
  ASSUME RunTypes, NEW r \in Runs, Active(r), Fail(r)
  PROVE  \/ at'[r] = at[r]
         \/ at'[r] \in {11, 12}
         \/ at[r] = 12 /\ at'[r] = 13 /\ "publish_alerts" \in failed'[r]
<1>1. at[r] \in 1..12
  BY ChainLength DEF Active
<1>2. CASE ~retried[r]
  BY <1>2 DEF Fail, GoTo, RunTypes
<1>3. CASE retried[r]
  <2>1. at'[r] = NextAllDone(at[r]) /\ failed'[r] = failed[r] \cup {Chain[at[r]]}
    BY <1>3 DEF Fail, GoTo, RunTypes
  <2>2. QED
    BY <1>1, <2>1, NextAllDoneIs, ChainPlaces
<1>4. QED
  BY <1>2, <1>3

(* Only publish_alerts brings a run to its end.                            *)
LEMMA LastTaskAlerts ==
  ASSUME TypeInv, NEW r \in Runs, Step(r), at'[r] = 13
  PROVE  \/ AlertOf(r) \in alerts' /\ failed'[r] = failed[r]
         \/ "publish_alerts" \in failed'[r]
<1>1. RunTypes /\ at[r] \in 0..Done /\ Active(r) /\ at[r] \in 1..12
  BY TypeOKParts, StepShape, ChainLength DEF TypeInv, RunTypes, Active
<1>2. CASE Fail(r)
  BY <1>1, <1>2, FailLeads
<1>3. CASE ~Fail(r) /\ GoOn(r)
  <2>1. at[r] = 12 /\ failed' = failed
    BY <1>1, <1>3 DEF Succeed, GoOn, GoTo, RunTypes
  <2>2. ~Prepare(r)
    BY <1>1, <2>1, PreparesAre DEF Prepare
  <2>3. /\ ~PassStagingTests(r) /\ ~DbtSnapshot(r) /\ ~PassMartTests(r)
        /\ ~DetectAnomalies(r) /\ ~ReadMarts(r)
        /\ \A m \in DbtMarts : ~BuildMart(r, m)
        /\ \A i \in DOMAIN MartTables : ~WriteTable(r, i)
    BY <1>1, <2>1, DoingIs DEF PassStagingTests, DbtSnapshot, PassMartTests, DetectAnomalies,
                               ReadMarts, BuildMart, WriteTable
  <2>4. ~TaskFails(r)
    BY <1>3 DEF TaskFails, Fault
  <2>5. PublishAlert(r)
    BY <2>2, <2>3, <2>4 DEF Step
  <2>6. QED
    BY <2>1, <2>5 DEF PublishAlert
<1>4. CASE UNCHANGED <<at, failed>>
  BY <1>1, <1>4
<1>5. QED
  BY <1>2, <1>3, <1>4, StepShape

LEMMA AlertsStay ==
  ASSUME NEW r \in Runs, Step(r)
  PROVE  alerts \subseteq alerts'
BY DEF Step, Prepare, PassStagingTests, DbtSnapshot, BuildMart, PassMartTests, DetectAnomalies,
       ReadMarts, WriteTable, PublishAlert, TaskFails

LEMMA ReportStep == TypeInv /\ RunsAreReported /\ [Next]_vars => RunsAreReported'
<1> SUFFICES ASSUME TypeInv, RunsAreReported, [Next]_vars PROVE RunsAreReported'
  OBVIOUS
<1>0. RunTypes /\ Done = 13
  BY TypeOKParts, ChainLength DEF TypeInv
<1>1. ASSUME NEW file \in Files, Land(file)
      PROVE  RunsAreReported'
  BY <1>1 DEF Land, runVars, RunsAreReported, AlertOf
<1>2. ASSUME NEW r \in Runs, Trigger(r)
      PROVE  RunsAreReported'
  <2>1. UNCHANGED <<failed, alerts>> /\ \A s \in Runs : at'[s] \in {at[s], 1}
    BY <1>0, <1>2 DEF Trigger, RunTypes
  <2>2. QED
    BY <1>0, <2>1 DEF RunsAreReported, AlertOf
<1>3. ASSUME NEW r \in Runs, Step(r)
      PROVE  RunsAreReported'
  <2>1. ASSUME NEW s \in Runs, at'[s] = 13
        PROVE  AlertOf(s)' \in alerts' \/ "publish_alerts" \in failed'[s]
    <3>1. CASE s = r
      BY <1>3, <2>1, <3>1, LastTaskAlerts DEF AlertOf
    <3>2. CASE s # r
      <4>1. at[s] = 13 /\ failed'[s] = failed[s]
        BY <1>0, <1>3, <2>1, <3>2, OthersStay
      <4>2. AlertOf(s) \in alerts \/ "publish_alerts" \in failed[s]
        BY <1>0, <4>1 DEF RunsAreReported
      <4>3. QED
        BY <1>3, <4>1, <4>2, AlertsStay DEF AlertOf
    <3>3. QED
      BY <3>1, <3>2
  <2>2. QED
    BY <1>0, <2>1, ChainLength DEF RunsAreReported
<1>4. CASE UNCHANGED vars
  BY <1>4 DEF vars, runVars, RunsAreReported, AlertOf
<1>5. QED
  BY <1>1, <1>2, <1>3, <1>4 DEF Next

(* A run that is over has called send_alert with the severity that its     *)
(* tasks deserve, unless publish_alerts itself died twice.                 *)
THEOREM EveryRunIsReported == Spec => []RunsAreReported
<1>1. Init => RunsAreReported
  BY ChainLength DEF Init, RunsAreReported
<1>2. QED
  BY <1>1, AlwaysTyped, ReportStep, PTL DEF Spec

-----------------------------------------------------------------------------
(* The gate.  A run whose staging tests passed has seen some Bronze, and   *)
(* none that they reject; a mart is of such a run, and so is all that is   *)
(* computed from it or copied.                                             *)

Gated(f) == \A m \in Tables : f[m] # Missing => gated[f[m].by] > 0

GateInv ==
  /\ \A r \in Runs : at[r] \in 2..10 => Len(bronze) > 0
  /\ \A r \in Runs : at[r] \in 7..10 => gated[r] > 0
  /\ \A r \in Runs : ~Has("dbt_test_staging", gated[r])
  /\ Gated(table) /\ Gated(shown)

LEMMA Builders ==
  ASSUME TypeInv
  PROVE  /\ \A m \in Tables : table[m] # Missing => table[m].by \in Runs
         /\ \A m \in Tables : shown[m] # Missing => shown[m].by \in Runs
         /\ \A r \in Runs : gated[r] \in Nat /\ gated[r] <= Len(bronze)
         /\ Len(bronze) \in Nat
<1>1. SharedTypes
  BY TypeOKParts DEF TypeInv
<1>2. Len(bronze) \in Nat
  BY <1>1 DEF SharedTypes
<1>3. \A c \in Contents : c.by \in Runs
  BY DEF Contents
<1>4. QED
  BY <1>1, <1>2, <1>3 DEF SharedTypes

(* A run gets past wait_for_bronze, and past its staging tests, only by    *)
(* passing them.                                                           *)
LEMMA GatesAreTaken ==
  ASSUME TypeInv, GateInv, NEW r \in Runs, Step(r)
  PROVE  /\ at'[r] \in 2..10 => Len(bronze) > 0
         /\ at'[r] \in 7..10 => at[r] \in 7..10 \/ PassStagingTests(r)
<1>1. RunTypes /\ at[r] \in 1..12
  BY TypeOKParts, StepShape, ChainLength DEF TypeInv, Active
<1>2. CASE at'[r] = at[r]
  BY <1>2 DEF GateInv
<1>3. CASE Fail(r) /\ at'[r] # at[r]
  BY <1>1, <1>3, StepShape, FailLeads
<1>4. CASE ~Fail(r) /\ GoOn(r)
  <2>1. at'[r] = at[r] + 1
    BY <1>1, <1>4 DEF Succeed, GoOn, GoTo, RunTypes
  <2>2. ASSUME at[r] = 1 PROVE Len(bronze) > 0
    <3>1. /\ ~PassStagingTests(r) /\ ~DbtSnapshot(r) /\ ~PassMartTests(r)
          /\ ~DetectAnomalies(r) /\ ~ReadMarts(r) /\ ~PublishAlert(r)
          /\ \A m \in DbtMarts : ~BuildMart(r, m)
          /\ \A i \in DOMAIN MartTables : ~WriteTable(r, i)
      BY <1>1, <2>2, DoingIs, ChainLength
         DEF PassStagingTests, DbtSnapshot, PassMartTests, DetectAnomalies,
             ReadMarts, BuildMart, WriteTable, PublishAlert
    <3>2. ~TaskFails(r)
      BY <1>4 DEF TaskFails, Fault
    <3>3. Prepare(r)
      BY <1>3, <3>1, <3>2 DEF Step
    <3>4. bronze # <<>>
      BY <2>2, <3>3, ChainPlaces DEF Prepare, CanSucceed, Accepts
    <3>5. bronze \in Seq(Rows)
      BY TypeOKParts DEF TypeInv, SharedTypes
    <3>6. QED
      BY <3>4, <3>5
  <2>3. ASSUME at[r] = 6 PROVE PassStagingTests(r)
    <3>1. /\ ~DbtSnapshot(r) /\ ~PassMartTests(r)
          /\ ~DetectAnomalies(r) /\ ~ReadMarts(r) /\ ~PublishAlert(r)
          /\ \A m \in DbtMarts : ~BuildMart(r, m)
          /\ \A i \in DOMAIN MartTables : ~WriteTable(r, i)
      BY <1>1, <2>3, DoingIs, ChainLength
         DEF DbtSnapshot, PassMartTests, DetectAnomalies,
             ReadMarts, BuildMart, WriteTable, PublishAlert
    <3>2. ~TaskFails(r)
      BY <1>4 DEF TaskFails, Fault
    <3>3. ~Prepare(r)
      BY <1>1, <2>3, PreparesAre, ChainLength DEF Prepare
    <3>4. QED
      BY <3>1, <3>2, <3>3 DEF Step
  <2>4. QED
    BY <1>1, <2>1, <2>2, <2>3 DEF GateInv
<1>5. QED
  BY <1>2, <1>3, <1>4, StepShape

LEMMA StagingTestsReject ==
  ASSUME TypeInv, NEW r \in Runs, PassStagingTests(r)
  PROVE  ~Has("dbt_test_staging", Len(bronze))
<1>1. Chain[at[r]] = "dbt_test_staging"
  BY DEF PassStagingTests, Doing
<1>2. QED
  BY <1>1 DEF PassStagingTests, CanSucceed, Accepts

(* What a step does to the tables: a new one is of a gated run.            *)
LEMMA TablesStayGated ==
  ASSUME TypeInv, TypeInv', DashInv, GateInv, NEW r \in Runs, Step(r),
         \A s \in Runs : gated[s] > 0 => gated'[s] > 0
  PROVE  Gated(table)' /\ Gated(shown)'
<1>1. /\ Gated(table) /\ Gated(shown)
      /\ at[r] \in 0..Done
  BY TypeOKParts DEF GateInv, TypeInv, RunTypes
<1>2. SUFFICES /\ \A m \in Tables : table'[m] # Missing => gated[table'[m].by] > 0 /\ table'[m].by \in Runs
               /\ \A m \in Tables : shown'[m] # Missing => gated[shown'[m].by] > 0 /\ shown'[m].by \in Runs
  BY <1>2 DEF Gated
<1>3. /\ \A m \in Tables : table[m] # Missing => gated[table[m].by] > 0 /\ table[m].by \in Runs
      /\ \A m \in Tables : shown[m] # Missing => gated[shown[m].by] > 0 /\ shown[m].by \in Runs
  BY <1>1, Builders DEF Gated
<1>4. CASE UNCHANGED <<table, shown>>
  BY <1>3, <1>4
<1>5. ASSUME NEW m \in DbtMarts, BuildMart(r, m)
      PROVE  \A l \in Tables : /\ table'[l] # Missing => gated[table'[l].by] > 0 /\ table'[l].by \in Runs
                               /\ shown'[l] # Missing => gated[shown'[l].by] > 0 /\ shown'[l].by \in Runs
  <2>1. PICK c \in Contents : table' = [table EXCEPT ![m] = c] /\ c.by = r
    BY <1>5, BuildMartContents
  <2>2. at[r] = 8 /\ shown' = shown
    BY <1>1, <1>5, DoingIs DEF BuildMart, dashboardVars
  <2>3. gated[r] > 0
    BY <2>2 DEF GateInv
  <2>4. table \in [Tables -> Contents \cup {Missing}] /\ m \in Tables
    BY TypeOKParts DEF TypeInv, SharedTypes, Tables
  <2>5. table'[m] = c /\ \A l \in Tables \ {m} : table'[l] = table[l]
    BY <2>1, <2>4
  <2>6. QED
    BY <1>3, <2>1, <2>2, <2>3, <2>5
<1>6. CASE PassMartTests(r)
  <2>1. shown' = shown
    BY <1>6 DEF PassMartTests, dashboardVars
  <2>2. \A m \in Tables : table'[m] # Missing => table[m] # Missing /\ table'[m].by = table[m].by
    BY <1>6, PassMartTestsContents
  <2>3. QED
    BY <1>3, <2>1, <2>2
<1>7. CASE DetectAnomalies(r)
  <2>1. PICK c \in Contents : /\ table' = [table EXCEPT !["mart_anomaly"] = c]
                              /\ c.by = table["mart_item_daily"].by
    BY <1>7, DetectAnomaliesContents
  <2>2. table["mart_item_daily"] # Missing
    BY <1>7, DetectAnomaliesContents DEF Contents
  <2>3. /\ table \in [Tables -> Contents \cup {Missing}]
        /\ "mart_anomaly" \in Tables /\ "mart_item_daily" \in Tables
    BY TypeOKParts DEF TypeInv, SharedTypes, Tables, DbtMarts
  <2>4. table'["mart_anomaly"] = c /\ \A l \in Tables \ {"mart_anomaly"} : table'[l] = table[l]
    BY <2>1, <2>3
  <2>5. shown' = shown
    BY <1>7 DEF DetectAnomalies, dashboardVars
  <2>6. QED
    BY <1>3, <2>1, <2>2, <2>3, <2>4, <2>5
<1>8. ASSUME NEW i \in DOMAIN MartTables, WriteTable(r, i)
      PROVE  \A l \in Tables : /\ table'[l] # Missing => gated[table'[l].by] > 0 /\ table'[l].by \in Runs
                               /\ shown'[l] # Missing => gated[shown'[l].by] > 0 /\ shown'[l].by \in Runs
  <2> DEFINE m == MartTables[i]
  <2>1. m \in Tables
    BY MartNames
  <2>2. unsynced[r][m] # Missing /\ unsynced[r][m] = table[m]
    BY <1>8, <2>1 DEF WriteTable, DashInv, SyncInv
  <2>3. shown' = [shown EXCEPT ![m] = table[m]] /\ table' = table
    BY <1>8, <2>2 DEF WriteTable, warehouseVars, dashboardVars
  <2>4. shown \in [Tables -> Contents \cup {Missing}]
    BY TypeOKParts DEF TypeInv, SharedTypes
  <2>5. shown'[m] = table[m] /\ \A l \in Tables \ {m} : shown'[l] = shown[l]
    BY <2>1, <2>3, <2>4
  <2>6. QED
    BY <1>3, <2>1, <2>2, <2>3, <2>5
<1>9. CASE Prepare(r) \/ PassStagingTests(r) \/ DbtSnapshot(r) \/ ReadMarts(r) \/ PublishAlert(r) \/ TaskFails(r)
  <2>1. UNCHANGED <<table, shown>>
    BY <1>9 DEF Prepare, PassStagingTests, DbtSnapshot, ReadMarts, PublishAlert, TaskFails, warehouseVars, dashboardVars
  <2>2. QED
    BY <1>4, <2>1
<1>10. QED
  BY <1>5, <1>6, <1>7, <1>8, <1>9 DEF Step

LEMMA GateStep == TypeInv /\ TypeInv' /\ DashInv /\ GateInv /\ [Next]_vars => GateInv'
<1> SUFFICES ASSUME TypeInv, TypeInv', DashInv, GateInv, [Next]_vars PROVE GateInv'
  OBVIOUS
<1>0. RunTypes /\ Done = 13 /\ Len(bronze) \in Nat /\ \A r \in Runs : gated[r] \in Nat
  BY TypeOKParts, ChainLength, Builders DEF TypeInv
<1>1. ASSUME NEW file \in Files, Land(file)
      PROVE  GateInv'
  <2>1. UNCHANGED <<at, gated, table, shown>>
    BY <1>1 DEF Land, runVars, warehouseVars, dashboardVars
  <2>2. /\ Len(bronze') \in Nat /\ Len(bronze) <= Len(bronze')
        /\ \A i \in 1..Len(bronze) : bronze'[i] = bronze[i]
    BY <1>1, LandExtends, TypeOKParts DEF TypeInv, SharedTypes
  <2>3. \A r \in Runs : ~Has("dbt_test_staging", gated[r])'
    <3>1. \A r \in Runs : 1..gated[r] \subseteq 1..Len(bronze)
      BY Builders
    <3>2. QED
      BY <2>1, <2>2, <3>1 DEF GateInv, Has
  <2>4. QED
    BY <1>0, <2>1, <2>2, <2>3 DEF GateInv, Gated
<1>2. ASSUME NEW r \in Runs, Trigger(r)
      PROVE  GateInv'
  <2>1. /\ UNCHANGED <<bronze, gated, table, shown>>
        /\ \A s \in Runs : at'[s] \in {at[s], 1}
    BY <1>0, <1>2 DEF Trigger, RunTypes, warehouseVars, dashboardVars
  <2>2. QED
    BY <2>1 DEF GateInv, Gated, Has
<1>3. ASSUME NEW r \in Runs, Step(r)
      PROVE  GateInv'
  <2>1. bronze' = bronze
    BY <1>3 DEF Step, Prepare, PassStagingTests, DbtSnapshot, BuildMart, PassMartTests,
                DetectAnomalies, ReadMarts, WriteTable, PublishAlert, TaskFails
  <2>2. gated' = gated \/ PassStagingTests(r)
    BY <1>3 DEF Step, Prepare, DbtSnapshot, BuildMart, PassMartTests,
                DetectAnomalies, ReadMarts, WriteTable, PublishAlert, TaskFails
  <2>3. ASSUME PassStagingTests(r)
        PROVE  /\ Len(bronze) > 0 /\ gated'[r] = Len(bronze)
               /\ \A s \in Runs \ {r} : gated'[s] = gated[s]
    <3>1. at[r] = 6
      BY <1>0, <2>3, DoingIs DEF PassStagingTests, RunTypes
    <3>2. gated \in [Runs -> 0..Len(bronze)]
      BY TypeOKParts DEF TypeInv, SharedTypes
    <3>3. QED
      BY <2>3, <3>1, <3>2 DEF PassStagingTests, GateInv
  <2>4. \A s \in Runs : gated[s] > 0 => gated'[s] > 0
    BY <2>2, <2>3
  <2>5. \A s \in Runs : at'[s] \in 2..10 => Len(bronze') > 0
    BY <1>0, <1>3, <2>1, OthersStay, GatesAreTaken DEF GateInv
  <2>6. \A s \in Runs : at'[s] \in 7..10 => gated'[s] > 0
    <3>1. ASSUME NEW s \in Runs, s # r, at'[s] \in 7..10
          PROVE  gated'[s] > 0
      BY <1>0, <1>3, <2>4, <3>1, OthersStay DEF GateInv
    <3>2. ASSUME at'[r] \in 7..10
          PROVE  gated'[r] > 0
      BY <1>3, <2>3, <2>4, <3>2, GatesAreTaken DEF GateInv
    <3>3. QED
      BY <3>1, <3>2
  <2>7. \A s \in Runs : ~Has("dbt_test_staging", gated[s])'
    <3>1. ASSUME NEW s \in Runs, gated'[s] = gated[s]
          PROVE  ~Has("dbt_test_staging", gated[s])'
      BY <2>1, <3>1 DEF GateInv, Has
    <3>2. ASSUME PassStagingTests(r)
          PROVE  ~Has("dbt_test_staging", gated[r])'
      BY <2>1, <2>3, <3>2, StagingTestsReject DEF Has
    <3>3. QED
      BY <2>2, <2>3, <3>1, <3>2
  <2>8. Gated(table)' /\ Gated(shown)'
    BY <1>3, <2>4, TablesStayGated
  <2>9. QED
    BY <2>5, <2>6, <2>7, <2>8 DEF GateInv
<1>4. CASE UNCHANGED vars
  BY <1>4 DEF vars, runVars, warehouseVars, dashboardVars, GateInv, Gated, Has
<1>5. QED
  BY <1>1, <1>2, <1>3, <1>4 DEF Next

(* The dashboard only shows what a run built whose staging tests passed,   *)
(* on Bronze that had nothing for them to reject.                          *)
THEOREM OnlyGatedIsShown == Spec => []ShownIsGated
<1>1. Init => GateInv
  <2>1. ASSUME Init
        PROVE  GateInv
    <3>1. /\ \A m \in Tables : NoTables[m] = Missing
          /\ \A r \in Runs : gated[r] = 0 /\ at[r] = 0
          /\ table = NoTables /\ shown = NoTables
      BY <2>1 DEF Init, NoTables
    <3>2. QED
      BY <3>1 DEF GateInv, Gated, Has
  <2>2. QED
    BY <2>1
<1>2. TypeInv /\ GateInv => ShownIsGated
  BY Builders DEF GateInv, Gated, ShownIsGated
<1>3. QED
  BY <1>1, <1>2, AlwaysTyped, DashInit, DashStep, GateStep, PTL DEF Spec

-----------------------------------------------------------------------------
(* Success is shown.  What a run covers it covers for good, since tables,  *)
(* snapshot and dashboard only grow; so each task of a run in which        *)
(* nothing failed adds its part to what covers the Bronze of the gate.     *)

Covers(f, m, n) == f[m] # Missing /\ n <= f[m].upto
Brought(r, m) == m \in skipped[r] \/ Covers(shown, m, gated[r])

Progress(r) ==
  failed[r] = {} =>
    /\ at[r] = 8 => gated[r] <= snapshot
    /\ \A m \in built[r] : Covers(table, m, gated[r])
    /\ at[r] \in 9..13 => \A m \in DbtMarts : Covers(table, m, gated[r])
    /\ at[r] \in 11..13 => Covers(table, "mart_anomaly", gated[r])
    /\ unsynced[r] # NoTables =>
         \A i \in 1..4 : \/ unsynced[r][MartTables[i]] # Missing
                         \/ Brought(r, MartTables[i])
    /\ at[r] \in 12..13 => \A i \in 1..4 : Brought(r, MartTables[i])

AlertInv ==
  \A a \in alerts : a.severity = "info" =>
    /\ at[a.run] \in 12..13
    /\ \A i \in 1..4 : Brought(a.run, MartTables[i])

SuccessInv == (\A r \in Runs : Progress(r)) /\ AlertInv

ShownGrown ==
  \A m \in Tables : shown[m] # Missing =>
    shown'[m] # Missing /\ shown[m].upto <= shown'[m].upto

LEMMA UptosThen ==
  ASSUME TypeInv'
  PROVE  /\ \A m \in Tables : table'[m] # Missing => table'[m].upto \in Nat
         /\ \A m \in Tables : shown'[m] # Missing => shown'[m].upto \in Nat
         /\ snapshot' \in Nat
<1>1. table' \in [Tables -> Contents \cup {Missing}] /\ shown' \in [Tables -> Contents \cup {Missing}]
  BY DEF TypeInv, TypeOK
<1>2. \A c \in Contents : c.upto \in Nat
  BY DEF Contents
<1>3. snapshot' \in Nat
  BY DEF TypeInv, TypeOK
<1>4. QED
  BY <1>1, <1>2, <1>3

LEMMA Transitive ==
  ASSUME NEW i \in Nat, NEW j \in Nat, NEW k \in Nat, i <= j, j <= k
  PROVE  i <= k
  OBVIOUS

LEMMA CoversStays ==
  ASSUME TypeInv, TypeInv', Grown, ShownGrown, NEW m \in Tables, NEW n \in Nat
  PROVE  /\ Covers(table, m, n) => table'[m] # Missing /\ n <= table'[m].upto
         /\ Covers(shown, m, n) => shown'[m] # Missing /\ n <= shown'[m].upto
<1>1. ASSUME Covers(table, m, n)
      PROVE  table'[m] # Missing /\ n <= table'[m].upto
  <2>1. table[m] # Missing /\ n <= table[m].upto /\ table[m].upto \in Nat
    BY <1>1, Uptos DEF Covers
  <2>2. table'[m] # Missing /\ table[m].upto <= table'[m].upto /\ table'[m].upto \in Nat
    BY <2>1, UptosThen DEF Grown
  <2>3. QED
    BY <2>1, <2>2, Transitive
<1>2. ASSUME Covers(shown, m, n)
      PROVE  shown'[m] # Missing /\ n <= shown'[m].upto
  <2>1. shown[m] # Missing /\ n <= shown[m].upto /\ shown[m].upto \in Nat
    BY <1>2, Uptos DEF Covers
  <2>2. shown'[m] # Missing /\ shown[m].upto <= shown'[m].upto /\ shown'[m].upto \in Nat
    BY <2>1, UptosThen DEF ShownGrown
  <2>3. QED
    BY <2>1, <2>2, Transitive
<1>3. QED
  BY <1>1, <1>2

LEMMA StepGrows ==
  ASSUME TypeInv, DashInv, NEW r \in Runs, Step(r)
  PROVE  Grown /\ ShownGrown /\ snapshot <= snapshot'
<1>1. /\ \A m \in Tables : table[m] # Missing => table[m].upto \in Nat
      /\ \A m \in Tables : shown[m] # Missing => shown[m].upto \in Nat
      /\ snapshot \in Nat /\ snapshot <= Len(bronze)
  BY Uptos
<1>2. CASE Prepare(r) \/ PassStagingTests(r) \/ ReadMarts(r) \/ PublishAlert(r) \/ TaskFails(r)
  <2>1. UNCHANGED <<table, shown, snapshot>>
    BY <1>2 DEF Prepare, PassStagingTests, ReadMarts, PublishAlert, TaskFails, warehouseVars, dashboardVars
  <2>2. QED
    BY <1>1, <2>1 DEF Grown, ShownGrown
<1>3. CASE DbtSnapshot(r)
  <2>1. UNCHANGED <<table, shown>> /\ snapshot' = Len(bronze)
    BY <1>3 DEF DbtSnapshot, dashboardVars
  <2>2. QED
    BY <1>1, <2>1 DEF Grown, ShownGrown
<1>4. CASE \/ \E m \in DbtMarts : BuildMart(r, m)
           \/ PassMartTests(r) \/ DetectAnomalies(r)
  <2>1. Grown
    BY <1>4, BuildMartKeepsWarehouse, PassMartTestsKeepsWarehouse, DetectAnomaliesKeepsWarehouse
  <2>2. UNCHANGED <<shown, snapshot>>
    BY <1>4 DEF BuildMart, PassMartTests, DetectAnomalies, dashboardVars
  <2>3. QED
    BY <1>1, <2>1, <2>2 DEF ShownGrown
<1>5. ASSUME NEW i \in DOMAIN MartTables, WriteTable(r, i)
      PROVE  Grown /\ ShownGrown /\ snapshot <= snapshot'
  <2> DEFINE m == MartTables[i]
  <2>1. m \in Tables
    BY MartNames
  <2>2. unsynced[r][m] # Missing /\ unsynced[r][m] = table[m]
    BY <1>5, <2>1 DEF WriteTable, DashInv, SyncInv
  <2>3. shown' = [shown EXCEPT ![m] = table[m]] /\ UNCHANGED <<table, snapshot>>
    BY <1>5, <2>2 DEF WriteTable, warehouseVars, dashboardVars
  <2>4. shown \in [Tables -> Contents \cup {Missing}]
    BY TypeOKParts DEF TypeInv, SharedTypes
  <2>5. shown'[m] = table[m] /\ \A l \in Tables \ {m} : shown'[l] = shown[l]
    BY <2>1, <2>3, <2>4
  <2>6. shown[m] # Missing => shown[m].upto <= table[m].upto
    BY <2>1 DEF DashInv, ShownInv
  <2>7. QED
    BY <1>1, <2>2, <2>3, <2>5, <2>6 DEF Grown, ShownGrown
<1>6. QED
  BY <1>2, <1>3, <1>4, <1>5 DEF Step

LEMMA SkippedStays ==
  ASSUME TypeInv, NEW r \in Runs, Step(r), NEW s \in Runs
  PROVE  skipped[s] \subseteq skipped'[s]
<1>1. CASE ReadMarts(r)
  <2>1. PICK skips : skipped' = [skipped EXCEPT ![r] = @ \cup skips]
    BY <1>1 DEF ReadMarts
  <2>2. QED
    BY <2>1, TypeOKParts DEF TypeInv, SharedTypes
<1>2. CASE ~ReadMarts(r)
  <2>1. skipped' = skipped
    BY <1>2 DEF Step, Prepare, PassStagingTests, DbtSnapshot, BuildMart, PassMartTests,
                DetectAnomalies, WriteTable, PublishAlert, TaskFails, dashboardVars
  <2>2. QED
    BY <2>1
<1>3. QED
  BY <1>1, <1>2

(* A run that others leave alone keeps what it has.                        *)
LEMMA ProgressStays ==
  ASSUME TypeInv, TypeInv', Grown, ShownGrown, snapshot <= snapshot',
         NEW r \in Runs, Progress(r), skipped[r] \subseteq skipped'[r],
         failed'[r] = failed[r], at'[r] = at[r], gated'[r] = gated[r],
         built'[r] \in {built[r], {}}, unsynced'[r] \in {unsynced[r], NoTables}
  PROVE  Progress(r)'
<1>1. gated[r] \in Nat /\ built[r] \subseteq Tables
  BY Builders, TypeOKParts DEF TypeInv, RunTypes, Tables
<1>2. gated[r] <= snapshot => gated[r] <= snapshot'
  BY <1>1, Uptos, UptosThen, Transitive
<1>3. \A m \in Tables :
        /\ Covers(table, m, gated[r]) => table'[m] # Missing /\ gated[r] <= table'[m].upto
        /\ Covers(shown, m, gated[r]) => shown'[m] # Missing /\ gated[r] <= shown'[m].upto
  BY <1>1, CoversStays
<1>4. DbtMarts \subseteq Tables /\ "mart_anomaly" \in Tables /\ \A i \in 1..4 : MartTables[i] \in Tables
  BY MartNames DEF Tables
<1> DEFINE CT(m) == table'[m] # Missing /\ gated[r] <= table'[m].upto
           CS(m) == \/ m \in skipped'[r]
                    \/ shown'[m] # Missing /\ gated[r] <= shown'[m].upto
<1>s. \A m \in Tables : Brought(r, m) => CS(m)
  BY <1>3 DEF Brought
<1>5. failed[r] = {} =>
        /\ at[r] = 8 => gated[r] <= snapshot'
        /\ \A m \in built[r] : CT(m)
        /\ at[r] \in 9..13 => \A m \in DbtMarts : CT(m)
        /\ at[r] \in 11..13 => CT("mart_anomaly")
        /\ unsynced[r] # NoTables =>
             \A i \in 1..4 : unsynced[r][MartTables[i]] # Missing \/ CS(MartTables[i])
        /\ at[r] \in 12..13 => \A i \in 1..4 : CS(MartTables[i])
  BY <1>1, <1>2, <1>3, <1>4, <1>s DEF Progress
<1>6. QED
  BY <1>5 DEF Progress, Brought, Covers, NoTables

(* What a task must add when it succeeds, for the run to keep its promise. *)
LEMMA ProgressOnSuccess ==
  ASSUME TypeInv, TypeInv', Grown, ShownGrown, snapshot <= snapshot',
         NEW r \in Runs, Progress(r), Active(r), GoOn(r), skipped[r] \subseteq skipped'[r],
         at[r] # 6 => gated'[r] = gated[r],
         failed[r] = {} =>
           /\ at[r] = 7 => gated[r] <= snapshot'
           /\ at[r] = 8 => \A m \in DbtMarts : table'[m] # Missing /\ gated[r] <= table'[m].upto
           /\ at[r] = 10 => /\ table'["mart_anomaly"] # Missing
                            /\ gated[r] <= table'["mart_anomaly"].upto
           /\ at[r] = 11 => \A i \in 1..4 : \/ MartTables[i] \in skipped'[r]
                                            \/ /\ shown'[MartTables[i]] # Missing
                                               /\ gated[r] <= shown'[MartTables[i]].upto
  PROVE  Progress(r)'
<1>1. gated[r] \in Nat /\ at[r] \in 1..12
  BY Builders, ChainLength DEF Active
<1>2. at'[r] = at[r] + 1 /\ built'[r] = {} /\ unsynced'[r] = NoTables /\ failed'[r] = failed[r]
  BY TypeOKParts DEF Succeed, GoOn, GoTo, TypeInv, RunTypes
<1>3. \A m \in Tables :
        /\ Covers(table, m, gated[r]) => table'[m] # Missing /\ gated[r] <= table'[m].upto
        /\ Covers(shown, m, gated[r]) => shown'[m] # Missing /\ gated[r] <= shown'[m].upto
  BY <1>1, CoversStays
<1>4. DbtMarts \subseteq Tables /\ "mart_anomaly" \in Tables /\ \A i \in 1..4 : MartTables[i] \in Tables
  BY MartNames DEF Tables
<1> DEFINE CT(m) == table'[m] # Missing /\ gated[r] <= table'[m].upto
           CS(m) == \/ m \in skipped'[r]
                    \/ shown'[m] # Missing /\ gated[r] <= shown'[m].upto
<1>s. \A m \in Tables : Brought(r, m) => CS(m)
  BY <1>3 DEF Brought
<1>5. failed[r] = {} =>
        /\ at'[r] = 8 => gated[r] <= snapshot'
        /\ at'[r] \in 9..13 => \A m \in DbtMarts : CT(m)
        /\ at'[r] \in 11..13 => CT("mart_anomaly")
        /\ at'[r] \in 12..13 => \A i \in 1..4 : CS(MartTables[i])
  BY <1>1, <1>2, <1>3, <1>4, <1>s DEF Progress
<1>6. at'[r] \in 8..13 => gated'[r] = gated[r]
  BY <1>1, <1>2
<1>7. QED
  BY <1>2, <1>5, <1>6 DEF Progress, Brought, Covers

LEMMA BuildMartProgress ==
  ASSUME TypeInv, TypeInv', DashInv, Grown, ShownGrown, snapshot <= snapshot',
         NEW r \in Runs, Progress(r), NEW m \in DbtMarts, BuildMart(r, m)
  PROVE  Progress(r)'
<1>1. /\ at[r] = 8 /\ Active(r) /\ UNCHANGED <<gated, shown, skipped, snapshot>>
      /\ gated[r] \in Nat /\ gated[r] <= Len(bronze)
      /\ built \in [Runs -> SUBSET DbtMarts]
  BY TypeOKParts, DoingIs, Builders DEF TypeInv, RunTypes, BuildMart, Doing, dashboardVars
<1>2. PICK c \in Contents :
        /\ table' = [table EXCEPT ![m] = c]
        /\ c.upto = IF m = "dim_item" THEN snapshot
                    ELSE IF m = "mart_item_daily"
                    THEN table["fct_price_observation"].upto
                    ELSE Len(bronze)
  BY BuildMartContents
<1>3. table'[m] = c /\ c # Missing
  BY <1>2, TypeOKParts DEF TypeInv, SharedTypes, Tables, Contents
<1>4. failed[r] = {} => gated[r] <= c.upto
  <2>1. m = "mart_item_daily" => "fct_price_observation" \in built[r]
    BY DEF BuildMart, Sources
  <2>2. QED
    BY <1>1, <1>2, <2>1 DEF Progress, Covers
<1>5. failed[r] = {} => \A l \in built[r] \cup {m} : table'[l] # Missing /\ gated[r] <= table'[l].upto
  BY <1>1, <1>3, <1>4, CoversStays DEF Progress, Tables
<1>6. CASE built[r] \cup {m} = DbtMarts
  <2>1. GoOn(r)
    BY <1>6 DEF BuildMart, Succeed
  <2>2. QED
    BY <1>1, <1>5, <1>6, <2>1, ProgressOnSuccess
<1>7. CASE built[r] \cup {m} # DbtMarts
  <2>1. /\ built' = [built EXCEPT ![r] = @ \cup {m}]
        /\ UNCHANGED <<at, retried, failed, unsynced, fails>>
    BY <1>7 DEF BuildMart
  <2>2. built'[r] = built[r] \cup {m}
    BY <1>1, <2>1
  <2>3. failed[r] = {} /\ unsynced[r] # NoTables =>
          \A i \in 1..4 : unsynced[r][MartTables[i]] # Missing \/ Brought(r, MartTables[i])
    BY DEF Progress
  <2>4. QED
    BY <1>1, <1>5, <2>1, <2>2, <2>3 DEF Progress, Brought, Covers
<1>8. QED
  BY <1>6, <1>7

LEMMA DetectAnomaliesProgress ==
  ASSUME TypeInv, TypeInv', Grown, ShownGrown, snapshot <= snapshot',
         NEW r \in Runs, Progress(r), DetectAnomalies(r)
  PROVE  Progress(r)'
<1>1. at[r] = 10 /\ Active(r) /\ GoOn(r) /\ UNCHANGED <<gated, skipped>>
  BY TypeOKParts, DoingIs DEF TypeInv, RunTypes, DetectAnomalies, Doing, Succeed, dashboardVars
<1>2. PICK c \in Contents : /\ table' = [table EXCEPT !["mart_anomaly"] = c]
                            /\ c.upto = table["mart_item_daily"].upto
  BY DetectAnomaliesContents
<1>3. table'["mart_anomaly"] = c /\ c # Missing
  BY <1>2, TypeOKParts DEF TypeInv, SharedTypes, Tables, Contents
<1>4. failed[r] = {} => gated[r] <= c.upto
  BY <1>1, <1>2 DEF Progress, Covers, DbtMarts
<1>5. QED
  BY <1>1, <1>3, <1>4, ProgressOnSuccess

LEMMA ReadMartsProgress ==
  ASSUME TypeInv, TypeInv', Grown, ShownGrown, snapshot <= snapshot',
         NEW r \in Runs, Progress(r), ReadMarts(r)
  PROVE  Progress(r)'
<1>1. at[r] = 11 /\ Active(r) /\ UNCHANGED <<gated, table, shown, snapshot>>
  BY TypeOKParts, DoingIs DEF TypeInv, RunTypes, ReadMarts, Doing, warehouseVars
<1>2. PICK skips :
        /\ skipped' = [skipped EXCEPT ![r] = @ \cup skips]
        /\ \/ GoOn(r) /\ MartsRead(skips) = NoTables
           \/ /\ unsynced' = [unsynced EXCEPT ![r] = MartsRead(skips)]
              /\ UNCHANGED <<at, retried, failed, built>>
  BY DEF ReadMarts
<1>3. skipped'[r] = skipped[r] \cup skips
  BY <1>2, TypeOKParts DEF TypeInv, SharedTypes
<1>4. failed[r] = {} =>
        \A i \in 1..4 : MartsRead(skips)[MartTables[i]] # Missing \/ MartTables[i] \in skipped'[r]
  <2>1. failed[r] = {} => \A i \in 1..4 : table[MartTables[i]] # Missing
    BY <1>1, MartNames DEF Progress, Covers, Tables
  <2>2. QED
    BY <1>3, <2>1, MartNames DEF MartsRead, Synced
<1>5. CASE GoOn(r) /\ MartsRead(skips) = NoTables
  <2>1. failed[r] = {} => \A i \in 1..4 : MartTables[i] \in skipped'[r]
    BY <1>4, <1>5, MartNames DEF NoTables
  <2>2. QED
    BY <1>1, <1>3, <1>5, <2>1, ProgressOnSuccess
<1>6. CASE /\ unsynced' = [unsynced EXCEPT ![r] = MartsRead(skips)]
           /\ UNCHANGED <<at, retried, failed, built>>
  <2>1. unsynced'[r] = MartsRead(skips)
    BY <1>6, TypeOKParts DEF TypeInv, RunTypes
  <2>2. QED
    BY <1>1, <1>4, <1>6, <2>1 DEF Progress, Brought, Covers
<1>7. QED
  BY <1>2, <1>5, <1>6

LEMMA WriteTableProgress ==
  ASSUME TypeInv, TypeInv', DashInv, Grown, ShownGrown, snapshot <= snapshot',
         NEW r \in Runs, Progress(r), NEW i \in DOMAIN MartTables, WriteTable(r, i)
  PROVE  Progress(r)'
<1> DEFINE m == MartTables[i]
           left == [unsynced[r] EXCEPT ![m] = Missing]
<1>1. /\ at[r] = 11 /\ Active(r) /\ UNCHANGED <<gated, table, snapshot, skipped>>
      /\ gated[r] \in Nat
  BY TypeOKParts, DoingIs, Builders DEF TypeInv, RunTypes, WriteTable, Doing, warehouseVars
<1>2. m \in Tables /\ m \in DbtMarts \cup {"mart_anomaly"} /\ \A j \in 1..4 : MartTables[j] \in Tables
  BY MartNames DEF Tables
<1>3. unsynced[r][m] # Missing /\ unsynced[r][m] = table[m]
  BY <1>2 DEF WriteTable, DashInv, SyncInv
<1>4. shown'[m] = table[m]
  BY <1>2, <1>3, TypeOKParts DEF WriteTable, TypeInv, SharedTypes
<1>5. failed[r] = {} => shown'[m] # Missing /\ gated[r] <= shown'[m].upto
  BY <1>1, <1>2, <1>4 DEF Progress, Covers
<1>6. unsynced[r] # NoTables
  BY <1>2, <1>3 DEF NoTables
<1>7. /\ left[m] = Missing
      /\ \A l \in Tables \ {m} : left[l] = unsynced[r][l]
  BY <1>2, TypeOKParts DEF TypeInv, RunTypes
<1> HIDE DEF left, m
<1>8. failed[r] = {} =>
        \A j \in 1..4 : \/ left[MartTables[j]] # Missing
                        \/ MartTables[j] \in skipped[r]
                        \/ shown'[MartTables[j]] # Missing /\ gated[r] <= shown'[MartTables[j]].upto
  <2>1. ASSUME failed[r] = {}, NEW j \in 1..4, MartTables[j] # m, left[MartTables[j]] = Missing,
               MartTables[j] \notin skipped[r]
        PROVE  shown'[MartTables[j]] # Missing /\ gated[r] <= shown'[MartTables[j]].upto
    <3>1. unsynced[r][MartTables[j]] = Missing
      BY <1>2, <1>7, <2>1
    <3>2. Covers(shown, MartTables[j], gated[r])
      BY <1>6, <2>1, <3>1 DEF Progress, Brought
    <3>3. QED
      BY <1>1, <1>2, <3>2, CoversStays
  <2>2. QED
    BY <1>5, <2>1
<1>9. CASE left = NoTables
  <2>1. GoOn(r)
    BY <1>9 DEF WriteTable, left, m, Succeed
  <2>2. \A j \in 1..4 : left[MartTables[j]] = Missing
    BY <1>2, <1>9 DEF NoTables
  <2>3. QED
    BY <1>1, <1>8, <2>1, <2>2, ProgressOnSuccess
<1>10. CASE left # NoTables
  <2>1. /\ unsynced' = [unsynced EXCEPT ![r] = left]
        /\ UNCHANGED <<at, retried, failed, built, fails>>
    BY <1>10 DEF WriteTable, left, m
  <2>2. unsynced'[r] = left
    BY <2>1, TypeOKParts DEF TypeInv, RunTypes
  <2>3. QED
    BY <1>1, <1>8, <2>1, <2>2 DEF Progress, Brought, Covers
<1>11. QED
  BY <1>9, <1>10

LEMMA StepProgress ==
  ASSUME TypeInv, TypeInv', DashInv, NEW r \in Runs, Progress(r), Step(r)
  PROVE  Progress(r)'
<1>0. /\ Grown /\ ShownGrown /\ snapshot <= snapshot' /\ skipped[r] \subseteq skipped'[r]
      /\ RunTypes /\ at[r] \in 0..Done /\ at[r] \in 1..12 /\ Active(r)
  BY StepGrows, SkippedStays, TypeOKParts, StepShape, ChainLength DEF TypeInv, RunTypes, Active
<1>f. ASSUME Fail(r), gated' = gated
      PROVE  Progress(r)'
  <2>1. CASE retried[r]
    <3>1. failed' = [failed EXCEPT ![r] = failed[r] \cup {Chain[at[r]]}]
      BY <1>f, <2>1 DEF Fail
    <3>2. Chain[at[r]] \in failed'[r]
      BY <1>0, <3>1 DEF RunTypes
    <3>3. QED
      BY <3>2 DEF Progress
  <2>2. CASE ~retried[r]
    <3>1. failed'[r] = failed[r] /\ at'[r] = at[r] /\ built'[r] = {} /\ unsynced'[r] = NoTables
      BY <1>0, <1>f, <2>2 DEF Fail, GoTo, RunTypes
    <3>2. QED
      BY <1>0, <1>f, <3>1, ProgressStays
  <2>3. QED
    BY <2>1, <2>2
<1>1. CASE Prepare(r)
  <2>1. at[r] \in 1..5 /\ GoOn(r) /\ gated' = gated
    BY <1>0, <1>1, PreparesAre DEF Prepare, Succeed
  <2>2. QED
    BY <1>0, <2>1, ProgressOnSuccess
<1>2. CASE PassStagingTests(r)
  <2>1. at[r] = 6 /\ GoOn(r)
    BY <1>0, <1>2, DoingIs DEF PassStagingTests, Succeed
  <2>2. QED
    BY <1>0, <2>1, ProgressOnSuccess
<1>3. CASE DbtSnapshot(r)
  <2>1. at[r] = 7 /\ GoOn(r) /\ gated' = gated /\ snapshot' = Len(bronze)
    BY <1>0, <1>3, DoingIs DEF DbtSnapshot, Succeed
  <2>2. gated[r] <= snapshot'
    BY <2>1, Builders
  <2>3. QED
    BY <1>0, <2>1, <2>2, ProgressOnSuccess
<1>4. ASSUME NEW m \in DbtMarts, BuildMart(r, m)
      PROVE  Progress(r)'
  BY <1>0, <1>4, BuildMartProgress
<1>5. ASSUME NEW i \in DOMAIN MartTables, WriteTable(r, i)
      PROVE  Progress(r)'
  BY <1>0, <1>5, WriteTableProgress
<1>6. CASE PassMartTests(r)
  <2>1. at[r] = 9 /\ GoOn(r) /\ gated' = gated
    BY <1>0, <1>6, DoingIs DEF PassMartTests, Succeed
  <2>2. QED
    BY <1>0, <2>1, ProgressOnSuccess
<1>7. CASE DetectAnomalies(r)
  BY <1>0, <1>7, DetectAnomaliesProgress
<1>8. CASE ReadMarts(r)
  BY <1>0, <1>8, ReadMartsProgress
<1>9. CASE PublishAlert(r)
  <2>1. at[r] = 12 /\ gated' = gated /\ (GoOn(r) \/ Fail(r))
    BY <1>0, <1>9, DoingIs DEF PublishAlert, Fault, Succeed
  <2>2. QED
    BY <1>0, <1>f, <2>1, ProgressOnSuccess
<1>10. CASE TaskFails(r)
  <2>1. Fail(r) /\ gated' = gated
    BY <1>10 DEF TaskFails, Fault
  <2>2. QED
    BY <1>f, <2>1
<1>11. QED
  BY <1>1, <1>2, <1>3, <1>4, <1>5, <1>6, <1>7, <1>8, <1>9, <1>10 DEF Step

(* What other runs do to a run's own state: nothing.                       *)
LEMMA OthersStayWhole ==
  ASSUME TypeInv, NEW r \in Runs, Step(r), NEW s \in Runs, s # r
  PROVE  built'[s] = built[s] /\ unsynced'[s] = unsynced[s] /\ gated'[s] = gated[s]
<1>1. /\ built \in [Runs -> SUBSET DbtMarts]
      /\ unsynced \in [Runs -> [Tables -> Contents \cup {Missing}]]
      /\ gated \in [Runs -> 0..Len(bronze)]
  BY TypeOKParts DEF TypeInv, RunTypes, SharedTypes
<1>2. gated'[s] = gated[s]
  BY <1>1 DEF Step, Prepare, PassStagingTests, DbtSnapshot, BuildMart, PassMartTests,
              DetectAnomalies, ReadMarts, WriteTable, PublishAlert, TaskFails
<1>3. CASE \E i : GoTo(r, i)
  BY <1>1, <1>2, <1>3 DEF GoTo
<1>4. CASE ~\E i : GoTo(r, i)
  <2>1. ~GoOn(r) /\ ~Fail(r)
    BY <1>4, FailGoes DEF Succeed, GoOn
  <2>2. \/ \E m \in DbtMarts : BuildMart(r, m)
        \/ \E i \in DOMAIN MartTables : WriteTable(r, i)
        \/ ReadMarts(r)
    BY <2>1 DEF Step, Prepare, PassStagingTests, DbtSnapshot, PassMartTests, DetectAnomalies,
                PublishAlert, TaskFails, Fault, Succeed
  <2>3. \/ \E m : built' = [built EXCEPT ![r] = @ \cup {m}] /\ UNCHANGED unsynced
        \/ \E f : unsynced' = [unsynced EXCEPT ![r] = f] /\ UNCHANGED built
    BY <2>1, <2>2 DEF BuildMart, WriteTable, ReadMarts, Succeed
  <2>4. QED
    BY <1>1, <1>2, <2>3
<1>5. QED
  BY <1>3, <1>4

LEMMA SuccessStep ==
  TypeInv /\ TypeInv' /\ DashInv /\ SuccessInv /\ [Next]_vars => SuccessInv'
<1> SUFFICES ASSUME TypeInv, TypeInv', DashInv, SuccessInv, [Next]_vars PROVE SuccessInv'
  OBVIOUS
<1>0. RunTypes /\ Done = 13 /\ \A r \in Runs : Progress(r)
  BY TypeOKParts, ChainLength DEF TypeInv, SuccessInv
<1>1. ASSUME UNCHANGED <<failed, gated, built, unsynced, snapshot, table, shown, skipped, alerts>>,
             \A r \in Runs : at'[r] = at[r] \/ (at[r] = 0 /\ at'[r] = 1)
      PROVE  SuccessInv'
  <2>1. AlertInv'
    <3>1. alerts \in SUBSET [run : Runs, severity : {"info", "error"}]
      BY TypeOKParts DEF TypeInv, SharedTypes
    <3>2. ASSUME NEW a \in alerts, a.severity = "info"
          PROVE  at'[a.run] \in 12..13
      BY <1>0, <1>1, <3>1, <3>2 DEF SuccessInv, AlertInv
    <3>3. QED
      BY <1>1, <3>2 DEF SuccessInv, AlertInv, Brought, Covers
  <2>2. ASSUME NEW r \in Runs
        PROVE  Progress(r)'
    BY <1>0, <1>1 DEF Progress, Brought, Covers
  <2>3. QED
    BY <2>1, <2>2 DEF SuccessInv
<1>2. ASSUME NEW file \in Files, Land(file)
      PROVE  SuccessInv'
  BY <1>1, <1>2 DEF Land, runVars, warehouseVars, dashboardVars
<1>3. ASSUME NEW r \in Runs, Trigger(r)
      PROVE  SuccessInv'
  BY <1>0, <1>1, <1>3 DEF Trigger, RunTypes, warehouseVars, dashboardVars
<1>4. ASSUME NEW r \in Runs, Step(r)
      PROVE  SuccessInv'
  <2>0. Grown /\ ShownGrown /\ snapshot <= snapshot' /\ at[r] \in 1..12 /\ Active(r)
    BY <1>4, StepGrows, StepShape, ChainLength DEF Active
  <2>1. ASSUME NEW s \in Runs
        PROVE  Progress(s)'
    <3>1. CASE s = r
      BY <1>0, <1>4, <3>1, StepProgress
    <3>2. CASE s # r
      BY <1>0, <1>4, <2>0, <3>2, OthersStay, OthersStayWhole, SkippedStays, ProgressStays
    <3>3. QED
      BY <3>1, <3>2
  <2>2. ASSUME NEW a \in alerts, a.severity = "info"
        PROVE  /\ at'[a.run] \in 12..13
               /\ \A i \in 1..4 : \/ MartTables[i] \in skipped'[a.run]
                                  \/ /\ shown'[MartTables[i]] # Missing
                                     /\ gated'[a.run] <= shown'[MartTables[i]].upto
    <3>1. /\ a.run \in Runs
          /\ at[a.run] \in 12..13
          /\ \A i \in 1..4 : Brought(a.run, MartTables[i])
      BY <2>2, TypeOKParts DEF TypeInv, SharedTypes, SuccessInv, AlertInv
    <3>2. gated'[a.run] = gated[a.run]
      <4>1. CASE a.run # r
        BY <1>4, <3>1, <4>1, OthersStayWhole
      <4>2. CASE a.run = r
        <5>1. ~PassStagingTests(r)
          BY <1>0, <3>1, <4>2, DoingIs, ChainLength DEF PassStagingTests
        <5>2. QED
          BY <1>4, <4>2, <5>1
             DEF Step, Prepare, DbtSnapshot, BuildMart, PassMartTests,
                 DetectAnomalies, ReadMarts, WriteTable, PublishAlert, TaskFails
      <4>3. QED
        BY <4>1, <4>2
    <3>3. at'[a.run] \in 12..13
      <4>1. CASE a.run # r
        BY <1>0, <1>4, <3>1, <4>1, OthersStay
      <4>2. CASE a.run = r /\ GoOn(r)
        BY <1>0, <2>0, <3>1, <4>2 DEF Succeed, GoOn, GoTo, RunTypes
      <4>3. CASE a.run = r /\ Fail(r)
        <5>1. at[r] = 12
          BY <2>0, <3>1, <4>3
        <5>2. at'[r] \in {12, 13}
          BY <1>0, <4>3, <5>1, NextAllDoneIs DEF Fail, GoTo, RunTypes
        <5>3. QED
          BY <4>3, <5>2
      <4>4. CASE UNCHANGED <<at, failed>>
        BY <3>1, <4>4
      <4>5. QED
        BY <1>4, <4>1, <4>2, <4>3, <4>4, StepShape
    <3>4. \A i \in 1..4 : MartTables[i] \in Tables
      BY MartNames
    <3>5. gated[a.run] \in Nat
      BY <3>1, Builders
    <3>6. \A i \in 1..4 : \/ MartTables[i] \in skipped'[a.run]
                          \/ /\ shown'[MartTables[i]] # Missing
                             /\ gated[a.run] <= shown'[MartTables[i]].upto
      BY <1>4, <2>0, <3>1, <3>4, <3>5, CoversStays, SkippedStays DEF Brought
    <3>7. QED
      BY <3>2, <3>3, <3>6
  <2>3. CASE alerts' = alerts
    <3>1. AlertInv'
      BY <2>2, <2>3 DEF AlertInv, Brought, Covers
    <3>2. QED
      BY <2>1, <3>1 DEF SuccessInv
  <2>4. CASE PublishAlert(r)
    <3>1. /\ at[r] = 12 /\ alerts' = alerts \cup {AlertOf(r)} /\ UNCHANGED <<shown, skipped, gated>>
          /\ GoOn(r) \/ Fail(r)
      BY <1>0, <2>0, <2>4, DoingIs DEF PublishAlert, Fault, Succeed, dashboardVars
    <3>2. at'[r] \in 12..13
      <4>1. CASE GoOn(r)
        BY <1>0, <3>1, <4>1 DEF Succeed, GoOn, GoTo, RunTypes
      <4>2. CASE Fail(r)
        BY <1>0, <3>1, <4>2, NextAllDoneIs DEF Fail, GoTo, RunTypes
      <4>3. QED
        BY <3>1, <4>1, <4>2
    <3>3. AlertOf(r).run = r /\ (AlertOf(r).severity = "info" => failed[r] = {})
      BY DEF AlertOf
    <3>4. failed[r] = {} => \A i \in 1..4 : Brought(r, MartTables[i])
      BY <1>0, <3>1 DEF Progress
    <3>5. AlertInv'
      BY <2>2, <3>1, <3>2, <3>3, <3>4 DEF AlertInv, Brought, Covers
    <3>6. QED
      BY <2>1, <3>5 DEF SuccessInv
  <2>5. alerts' = alerts \/ PublishAlert(r)
    BY <1>4 DEF Step, Prepare, PassStagingTests, DbtSnapshot, BuildMart, PassMartTests,
                DetectAnomalies, ReadMarts, WriteTable, TaskFails
  <2>6. QED
    BY <2>3, <2>4, <2>5
<1>5. CASE UNCHANGED vars
  BY <1>1, <1>5 DEF vars, runVars, warehouseVars, dashboardVars
<1>6. QED
  BY <1>2, <1>3, <1>4, <1>5 DEF Next

(* A run reported without failed tasks has brought the dashboard up to all *)
(* the Bronze of its gate, for good.                                       *)
THEOREM SuccessStaysShown == Spec => []SuccessIsShown
<1>1. Init => SuccessInv
  BY DEF Init, SuccessInv, Progress, AlertInv
<1>2. TypeInv /\ SuccessInv => SuccessIsShown
  <2>1. ASSUME TypeInv, SuccessInv, NEW a \in alerts, a.severity = "info",
               NEW m \in Synced \ skipped[a.run]
        PROVE  shown[m] # Missing /\ shown[m].upto >= gated[a.run]
    <3>1. a.run \in Runs
      BY <2>1, TypeOKParts DEF TypeInv, SharedTypes
    <3>2. PICK i \in 1..4 : MartTables[i] = m
      BY <2>1, MartNames DEF Synced
    <3>3. m \in Tables /\ shown[m] # Missing /\ gated[a.run] <= shown[m].upto
      BY <2>1, <3>2, MartNames DEF SuccessInv, AlertInv, Brought, Covers
    <3>4. gated[a.run] \in Nat /\ shown[m].upto \in Nat
      BY <2>1, <3>1, <3>3, Builders, Uptos
    <3>5. QED
      BY <3>3, <3>4
  <2>2. QED
    BY <2>1 DEF SuccessIsShown
<1>3. QED
  BY <1>1, <1>2, AlwaysTyped, DashInit, DashStep, SuccessStep, PTL DEF Spec

(* A run whose task failed for good goes on at sync_dashboard.             *)
FailedAreLate == \A r \in Runs : failed[r] # {} => at[r] \in 11..13

LEMMA LateStep == TypeInv /\ FailedAreLate /\ [Next]_vars => FailedAreLate'
<1> SUFFICES ASSUME TypeInv, FailedAreLate, [Next]_vars PROVE FailedAreLate'
  OBVIOUS
<1>0. RunTypes
  BY TypeOKParts DEF TypeInv
<1>1. CASE UNCHANGED <<at, failed>>
  BY <1>1 DEF FailedAreLate
<1>2. ASSUME NEW file \in Files, Land(file)
      PROVE  FailedAreLate'
  BY <1>1, <1>2 DEF Land, runVars
<1>3. ASSUME NEW r \in Runs, Trigger(r)
      PROVE  FailedAreLate'
  BY <1>0, <1>3 DEF Trigger, RunTypes, FailedAreLate
<1>4. ASSUME NEW r \in Runs, Step(r)
      PROVE  FailedAreLate'
  <2>1. ASSUME NEW s \in Runs, s # r, failed'[s] # {}
        PROVE  at'[s] \in 11..13
    BY <1>0, <1>4, <2>1, OthersStay DEF FailedAreLate
  <2>2. ASSUME failed'[r] # {}
        PROVE  at'[r] \in 11..13
    <3>1. at[r] \in 1..12 /\ Active(r)
      BY <1>4, StepShape, ChainLength DEF Active
    <3>2. CASE GoOn(r)
      BY <1>0, <2>2, <3>1, <3>2 DEF Succeed, GoOn, GoTo, RunTypes, FailedAreLate
    <3>3. CASE Fail(r)
      <4>1. CASE retried[r]
        <5>1. at'[r] = NextAllDone(at[r])
          BY <1>0, <3>3, <4>1 DEF Fail, GoTo, RunTypes
        <5>2. QED
          BY <3>1, <5>1, NextAllDoneIs
      <4>2. CASE ~retried[r]
        BY <1>0, <2>2, <3>3, <4>2 DEF Fail, GoTo, RunTypes, FailedAreLate
      <4>3. QED
        BY <4>1, <4>2
    <3>4. CASE UNCHANGED <<at, failed>>
      BY <1>1, <2>2, <3>4 DEF FailedAreLate
    <3>5. QED
      BY <1>4, <3>2, <3>3, <3>4, StepShape
  <2>3. QED
    BY <2>1, <2>2 DEF FailedAreLate
<1>5. CASE UNCHANGED vars
  BY <1>1, <1>5 DEF vars, runVars
<1>6. QED
  BY <1>2, <1>3, <1>4, <1>5 DEF Next

LEMMA ListedGrows ==
  ASSUME NEW i \in Nat, NEW j \in Nat, i <= j
  PROVE  Listed(i) \subseteq Listed(j)
  BY DEF Listed

(* An orphan that dbt_test_marts finds is never of an item that a search   *)
(* page lists which the run's gate had seen, also where another run has    *)
(* replaced the marts.                                                     *)
THEOREM GatedFactsAlwaysResolve == Spec => []GatedFactsResolve
<1>1. Init => SuccessInv /\ FailedAreLate
  BY DEF Init, SuccessInv, Progress, AlertInv, FailedAreLate
<1>2. TypeInv /\ SuccessInv /\ FailedAreLate => GatedFactsResolve
  <2>1. ASSUME TypeInv, SuccessInv, FailedAreLate, NEW r \in Runs, Doing(r, "dbt_test_marts")
        PROVE  Listed(gated[r]) \subseteq Listed(table["dim_item"].upto)
    <3>1. at[r] = 9 /\ gated[r] \in Nat
      BY <2>1, DoingIs, Builders, TypeOKParts DEF TypeInv, RunTypes
    <3>2. failed[r] = {}
      BY <2>1, <3>1 DEF FailedAreLate
    <3>3. "dim_item" \in DbtMarts /\ "dim_item" \in Tables
      BY DEF DbtMarts, Tables
    <3>4. table["dim_item"] # Missing /\ gated[r] <= table["dim_item"].upto
      BY <2>1, <3>1, <3>2, <3>3 DEF SuccessInv, Progress, Covers
    <3>5. table["dim_item"].upto \in Nat
      BY <2>1, <3>3, <3>4, Uptos
    <3>6. QED
      BY <3>1, <3>4, <3>5, ListedGrows
  <2>2. QED
    BY <2>1 DEF GatedFactsResolve
<1>3. QED
  BY <1>1, <1>2, AlwaysTyped, DashInit, DashStep, SuccessStep, LateStep, PTL DEF Spec

-----------------------------------------------------------------------------
(* Anomalies come from tested marts.  A run that has the warehouse for     *)
(* itself finds the marts as its dbt_test_marts has left them.             *)

AloneInv ==
  ~overlapped =>
    /\ \A r, s \in Runs : Active(r) /\ Active(s) => r = s
    /\ \A r \in Runs : at[r] = 10 =>
         table["mart_item_daily"].tested /\ table["fct_orderbook_snapshot"].tested
    /\ table["mart_anomaly"] # Missing => table["mart_anomaly"].tested

LEMMA TestedMarts ==
  ASSUME TypeInv, NEW r \in Runs, PassMartTests(r)
  PROVE  /\ table'["mart_item_daily"].tested /\ table'["fct_orderbook_snapshot"].tested
         /\ table'["mart_anomaly"] = table["mart_anomaly"]
<1>1. Chain[at[r]] = "dbt_test_marts"
  BY DEF PassMartTests, Doing
<1>2. \A m \in DbtMarts : table[m] # Missing
  BY <1>1 DEF PassMartTests, CanSucceed, Accepts, Readable
<1>3. \A m \in DbtMarts : table[m] \in Contents
  BY <1>2, TypeOKParts DEF TypeInv, SharedTypes, Tables
<1>4. \A m \in DbtMarts : [table[m] EXCEPT !.tested = TRUE].tested
  BY <1>3 DEF Contents
<1>5. /\ \A m \in DbtMarts : table'[m] = [table[m] EXCEPT !.tested = TRUE]
      /\ table'["mart_anomaly"] = table["mart_anomaly"]
  BY DEF PassMartTests, Tables, DbtMarts
<1>6. QED
  BY <1>4, <1>5 DEF DbtMarts

LEMMA TestedAnomalies ==
  ASSUME TypeInv, NEW r \in Runs, DetectAnomalies(r),
         table["mart_item_daily"].tested, table["fct_orderbook_snapshot"].tested
  PROVE  table'["mart_anomaly"].tested
<1> DEFINE d == table["mart_item_daily"]
           t == d.tested /\ table["fct_orderbook_snapshot"].tested
<1>1. d \in Contents
  BY DetectAnomaliesContents
<1>2. table' = [table EXCEPT !["mart_anomaly"] = [d EXCEPT !.tested = t]]
  BY DEF DetectAnomalies
<1>3. t
  OBVIOUS
<1> HIDE DEF t
<1>4. [d EXCEPT !.tested = t].tested = t
  BY <1>1 DEF Contents
<1>5. table \in [Tables -> Contents \cup {Missing}] /\ "mart_anomaly" \in Tables
  BY TypeOKParts DEF TypeInv, SharedTypes, Tables
<1> HIDE DEF d
<1>6. table'["mart_anomaly"] = [d EXCEPT !.tested = t]
  BY <1>2, <1>5
<1>7. QED
  BY <1>3, <1>4, <1>6

(* Only dbt_test_marts leads to detect_anomalies.                          *)
LEMMA TestsComeFirst ==
  ASSUME TypeInv, NEW r \in Runs, Step(r), at'[r] = 10
  PROVE  PassMartTests(r) \/ (at[r] = 10 /\ table' = table)
<1>1. RunTypes /\ at[r] \in 0..Done /\ at[r] \in 1..12 /\ Active(r)
  BY TypeOKParts, StepShape, ChainLength DEF TypeInv, RunTypes, Active
<1>2. CASE Fail(r)
  <2>1. at[r] = 10
    BY <1>1, <1>2, FailLeads
  <2>2. ~\E m \in DbtMarts : BuildMart(r, m)
    BY <1>1, <2>1, DoingIs DEF BuildMart
  <2>3. ~DetectAnomalies(r)
    <3>1. ASSUME DetectAnomalies(r) PROVE FALSE
      BY <1>1, <2>1, <3>1 DEF DetectAnomalies, Succeed, GoOn, GoTo, RunTypes
    <3>2. QED
      BY <3>1
  <2>4. QED
    BY <1>1, <2>1, <2>2, <2>3, StepShape
       DEF Step, Prepare, PassStagingTests, DbtSnapshot, ReadMarts, WriteTable, PublishAlert,
           TaskFails, warehouseVars, dashboardVars
<1>3. CASE ~Fail(r) /\ GoOn(r)
  <2>1. at[r] = 9
    BY <1>1, <1>3 DEF Succeed, GoOn, GoTo, RunTypes
  <2>2. /\ ~PassStagingTests(r) /\ ~DbtSnapshot(r) /\ ~DetectAnomalies(r) /\ ~ReadMarts(r)
        /\ ~PublishAlert(r)
        /\ \A m \in DbtMarts : ~BuildMart(r, m)
        /\ \A i \in DOMAIN MartTables : ~WriteTable(r, i)
    BY <1>1, <2>1, DoingIs DEF PassStagingTests, DbtSnapshot, DetectAnomalies, ReadMarts,
                               BuildMart, WriteTable, PublishAlert
  <2>3. ~Prepare(r) /\ ~TaskFails(r)
    BY <1>1, <1>3, <2>1, PreparesAre DEF Prepare, TaskFails, Fault
  <2>4. QED
    BY <2>2, <2>3 DEF Step
<1>4. CASE ~GoOn(r) /\ UNCHANGED <<at, failed>>
  <2>1. at[r] = 10
    BY <1>4
  <2>2. /\ ~PassStagingTests(r) /\ ~DbtSnapshot(r) /\ ~PassMartTests(r) /\ ~ReadMarts(r)
        /\ ~PublishAlert(r) /\ ~Prepare(r) /\ ~DetectAnomalies(r)
        /\ \A m \in DbtMarts : ~BuildMart(r, m)
        /\ \A i \in DOMAIN MartTables : ~WriteTable(r, i)
    <3>1. /\ ~PassStagingTests(r) /\ ~DbtSnapshot(r) /\ ~PassMartTests(r) /\ ~ReadMarts(r)
          /\ ~PublishAlert(r)
          /\ \A m \in DbtMarts : ~BuildMart(r, m)
          /\ \A i \in DOMAIN MartTables : ~WriteTable(r, i)
      BY <1>1, <2>1, DoingIs
         DEF PassStagingTests, DbtSnapshot, PassMartTests, ReadMarts, BuildMart, WriteTable,
             PublishAlert
    <3>2. ~Prepare(r) /\ ~DetectAnomalies(r)
      BY <1>4 DEF Prepare, DetectAnomalies, Succeed
    <3>3. QED
      BY <3>1, <3>2
  <2>3. TaskFails(r)
    BY <2>2 DEF Step
  <2>4. QED
    BY <2>1, <2>3 DEF TaskFails, warehouseVars, dashboardVars
<1>5. QED
  BY <1>2, <1>3, <1>4, StepShape

LEMMA AloneStep == TypeInv /\ AloneInv /\ [Next]_vars => AloneInv'
<1> SUFFICES ASSUME TypeInv, AloneInv, [Next]_vars, ~overlapped' PROVE AloneInv'
  BY DEF AloneInv
<1>0. RunTypes /\ Done = 13 /\ \A r \in Runs : Active(r) <=> at[r] \in 1..12
  BY TypeOKParts, ChainLength DEF TypeInv, Active
<1>1. ASSUME UNCHANGED <<at, table, overlapped>>
      PROVE  AloneInv'
  BY <1>1 DEF AloneInv, Active
<1>2. ASSUME NEW file \in Files, Land(file)
      PROVE  AloneInv'
  BY <1>1, <1>2 DEF Land, runVars, warehouseVars, dashboardVars
<1>3. ASSUME NEW r \in Runs, Trigger(r)
      PROVE  AloneInv'
  <2>1. ~overlapped /\ \A s \in Runs : ~Active(s)
    BY <1>3 DEF Trigger
  <2>2. table' = table /\ at'[r] = 1 /\ \A s \in Runs \ {r} : at'[s] = at[s]
    BY <1>0, <1>3 DEF Trigger, RunTypes, warehouseVars, dashboardVars
  <2>3. \A s \in Runs : Active(s)' <=> at'[s] \in 1..12
    BY ChainLength DEF Active
  <2>4. QED
    BY <1>0, <2>1, <2>2, <2>3 DEF AloneInv
<1>4. ASSUME NEW r \in Runs, Step(r)
      PROVE  AloneInv'
  <2>0. overlapped' = overlapped
    BY <1>4 DEF Step, Prepare, PassStagingTests, DbtSnapshot, BuildMart, PassMartTests,
                DetectAnomalies, ReadMarts, WriteTable, PublishAlert, TaskFails
  <2>1. Active(r) /\ \A s \in Runs \ {r} : ~Active(s) /\ at'[s] = at[s]
    BY <1>0, <1>4, <2>0, StepShape, OthersStay DEF AloneInv
  <2>2. \A s \in Runs : Active(s)' <=> at'[s] \in 1..12
    BY ChainLength DEF Active
  <2>3. \A s, q \in Runs : Active(s)' /\ Active(q)' => s = q
    BY <1>0, <2>1, <2>2
  <2>4. ASSUME at'[r] = 10
        PROVE  table'["mart_item_daily"].tested /\ table'["fct_orderbook_snapshot"].tested
    BY <1>4, <2>0, <2>4, TestsComeFirst, TestedMarts DEF AloneInv
  <2>5. \A s \in Runs : at'[s] = 10 =>
          table'["mart_item_daily"].tested /\ table'["fct_orderbook_snapshot"].tested
    BY <1>0, <2>1, <2>4
  <2>6. table'["mart_anomaly"] # Missing => table'["mart_anomaly"].tested
    <3>1. CASE DetectAnomalies(r)
      <4>1. at[r] = 10
        BY <1>0, <3>1, DoingIs DEF DetectAnomalies, RunTypes
      <4>2. QED
        BY <2>0, <3>1, <4>1, TestedAnomalies DEF AloneInv
    <3>2. CASE ~DetectAnomalies(r)
      <4>1. ASSUME NEW m \in DbtMarts, BuildMart(r, m)
            PROVE  table'["mart_anomaly"] = table["mart_anomaly"]
        BY <4>1 DEF BuildMart, DbtMarts
      <4>2. table'["mart_anomaly"] = table["mart_anomaly"]
        BY <1>4, <3>2, <4>1, TestedMarts
           DEF Step, Prepare, PassStagingTests, DbtSnapshot, ReadMarts, WriteTable, PublishAlert,
               TaskFails, warehouseVars, dashboardVars
      <4>3. QED
        BY <2>0, <4>2 DEF AloneInv
    <3>3. QED
      BY <3>1, <3>2
  <2>7. QED
    BY <2>3, <2>5, <2>6 DEF AloneInv
<1>5. CASE UNCHANGED vars
  BY <1>1, <1>5 DEF vars, runVars, warehouseVars, dashboardVars
<1>6. QED
  BY <1>2, <1>3, <1>4, <1>5 DEF Next

(* If no two runs overlap, anomalies are only computed from marts that     *)
(* have passed dbt_test_marts.                                             *)
THEOREM AnomaliesStayTested == Spec => []AnomaliesAreTested
<1>1. Init => AloneInv
  BY ChainLength DEF Init, AloneInv, Active, NoTables, Tables
<1>2. AloneInv => AnomaliesAreTested
  BY DEF AloneInv, AnomaliesAreTested, Readable
<1>3. QED
  BY <1>1, <1>2, AlwaysTyped, AloneStep, PTL DEF Spec


-----------------------------------------------------------------------------
(* What dbt_test_marts rejects stays out of success: a run in which nothing*)
(* failed has passed it over tables that cover the Bronze of its gate.     *)

Clean(n) == \A m \in DbtMarts : ~Has(m, n)

SuccessIsClean == \A a \in alerts : a.severity = "info" => Clean(gated[a.run])

CleanInv ==
  /\ \A r \in Runs : failed[r] = {} /\ at[r] \in 10..13 => Clean(gated[r])
  /\ SuccessIsClean

(* Rows keep their place, and a run at its gate is not at its marts.       *)
LEMMA CleanStays ==
  ASSUME TypeInv, NEW r \in Runs, gated'[r] = gated[r], Clean(gated[r]),
         \A i \in 1..Len(bronze) : bronze'[i] = bronze[i]
  PROVE  Clean(gated[r])'
<1>1. 1..gated[r] \subseteq 1..Len(bronze)
  BY Builders
<1>2. QED
  BY <1>1 DEF Clean, Has

LEMMA MartTestsReject ==
  ASSUME TypeInv, SuccessInv, NEW r \in Runs, PassMartTests(r), failed[r] = {}
  PROVE  Clean(gated[r])
<1>0. at[r] \in 0..Done
  BY TypeOKParts DEF TypeInv, RunTypes
<1>1. at[r] = 9 /\ \A m \in DbtMarts : ~Has(m, table[m].upto)
  <2>1. at[r] = 9
    BY <1>0, DoingIs DEF PassMartTests
  <2>2. Accepts("dbt_test_marts")
    BY DEF PassMartTests, Doing, CanSucceed
  <2>3. QED
    BY <2>1, <2>2 DEF Accepts, DbtMarts
<1>2. \A m \in DbtMarts : Covers(table, m, gated[r])
  BY <1>1 DEF SuccessInv, Progress
<1>3. /\ gated[r] \in Nat
      /\ \A m \in DbtMarts : table[m].upto \in Nat /\ gated[r] <= table[m].upto
  BY <1>2, Builders, Uptos DEF Covers, Tables
<1>4. QED
  BY <1>1, <1>3 DEF Clean, Has

LEMMA AtTheTests ==
  ASSUME TypeInv, NEW r \in Runs, Step(r), at[r] = 9, at'[r] = 10
  PROVE  PassMartTests(r)
<1>1. RunTypes /\ at[r] \in 0..Done /\ Active(r)
  BY TypeOKParts, ChainLength DEF TypeInv, RunTypes, Active
<1>2. ~Fail(r)
  BY <1>1, FailLeads
<1>3. ~Prepare(r)
  BY <1>1, PreparesAre DEF Prepare
<1>4. QED
  BY <1>1, <1>2, <1>3, DoingIs DEF Step, PassStagingTests, DbtSnapshot, BuildMart, WriteTable,
     DetectAnomalies, ReadMarts, PublishAlert, TaskFails, Fault

LEMMA CleanStep ==
  TypeInv /\ SuccessInv /\ CleanInv /\ [Next]_vars => CleanInv'
<1> SUFFICES ASSUME TypeInv, SuccessInv, CleanInv, [Next]_vars PROVE CleanInv'
  OBVIOUS
<1>0. RunTypes /\ SharedTypes /\ Done = 13
  BY TypeOKParts, ChainLength DEF TypeInv
<1>a. \A a \in alerts : a.severity = "info" => a.run \in Runs /\ at[a.run] \in 12..13
  BY <1>0 DEF SuccessInv, AlertInv, SharedTypes
<1>1. ASSUME UNCHANGED <<failed, gated, alerts>>,
             \A i \in 1..Len(bronze) : bronze'[i] = bronze[i],
             \A r \in Runs : at'[r] = at[r] \/ (at[r] = 0 /\ at'[r] = 1)
      PROVE  CleanInv'
  <2>1. ASSUME NEW r \in Runs, Clean(gated[r])
        PROVE  Clean(gated[r])'
    BY <1>1, <2>1, CleanStays
  <2>2. QED
    BY <1>a, <1>1, <2>1 DEF CleanInv, SuccessIsClean
<1>2. ASSUME NEW file \in Files, Land(file)
      PROVE  CleanInv'
  <2>1. \A i \in 1..Len(bronze) : bronze'[i] = bronze[i]
    BY <1>0, <1>2, LandExtends DEF SharedTypes
  <2>2. QED
    BY <1>1, <1>2, <2>1 DEF Land, runVars
<1>3. ASSUME NEW r \in Runs, Trigger(r)
      PROVE  CleanInv'
  BY <1>0, <1>1, <1>3 DEF Trigger, RunTypes
<1>4. ASSUME NEW r \in Runs, Step(r)
      PROVE  CleanInv'
  <2>0. at[r] \in 1..12 /\ Active(r) /\ bronze' = bronze
    BY <1>4, StepShape, ChainLength DEF Active, Step, Prepare, PassStagingTests, DbtSnapshot,
       BuildMart, PassMartTests, DetectAnomalies, ReadMarts, WriteTable, PublishAlert, TaskFails
  <2>1. at[r] # 6 => gated'[r] = gated[r]
    <3>1. PassStagingTests(r) \/ gated' = gated
      BY <1>4 DEF Step, Prepare, DbtSnapshot, BuildMart, PassMartTests, DetectAnomalies,
         ReadMarts, WriteTable, PublishAlert, TaskFails
    <3>2. PassStagingTests(r) => at[r] = 6
      BY <1>0, DoingIs DEF PassStagingTests, RunTypes
    <3>3. QED
      BY <3>1, <3>2
  <2>2. ASSUME failed'[r] = {}, at'[r] \in 10..13
        PROVE  Clean(gated[r])' /\ failed[r] = {} /\ at[r] \in 9..12
    <3>1. CASE Fail(r)
      <4>1. at'[r] = at[r] /\ failed'[r] = failed[r]
        <5>1. ~retried[r]
          BY <1>0, <2>2, <3>1 DEF Fail, RunTypes
        <5>2. QED
          BY <1>0, <3>1, <5>1 DEF Fail, GoTo, RunTypes
      <4>2. QED
        BY <2>0, <2>1, <2>2, <4>1, CleanStays DEF CleanInv
    <3>2. CASE GoOn(r)
      <4>1. at'[r] = at[r] + 1 /\ failed'[r] = failed[r]
        BY <1>0, <3>2 DEF Succeed, GoOn, GoTo, RunTypes
      <4>2. at[r] = 9 => Clean(gated[r])
        BY <1>4, <2>2, <4>1, AtTheTests, MartTestsReject
      <4>3. QED
        BY <2>0, <2>1, <2>2, <4>1, <4>2, CleanStays DEF CleanInv
    <3>3. CASE UNCHANGED <<at, failed>>
      BY <2>0, <2>1, <2>2, <3>3, CleanStays DEF CleanInv
    <3>4. QED
      BY <1>4, <3>1, <3>2, <3>3, StepShape
  <2>3. ASSUME NEW s \in Runs, failed'[s] = {}, at'[s] \in 10..13
        PROVE  Clean(gated[s])'
    <3>1. CASE s = r
      BY <2>2, <2>3, <3>1
    <3>2. CASE s # r
      BY <1>0, <1>4, <2>0, <2>3, <3>2, OthersStay, OthersStayWhole, CleanStays DEF CleanInv
    <3>3. QED
      BY <3>1, <3>2
  <2>4. ASSUME NEW a \in alerts', a.severity = "info"
        PROVE  Clean(gated[a.run])'
    <3>1. CASE a \in alerts
      <4>1. a.run \in Runs /\ at[a.run] \in 12..13 /\ Clean(gated[a.run])
        BY <1>a, <2>4, <3>1 DEF CleanInv, SuccessIsClean
      <4>2. gated'[a.run] = gated[a.run]
        BY <1>4, <2>1, <4>1, OthersStayWhole
      <4>3. QED
        BY <2>0, <4>1, <4>2, CleanStays
    <3>2. CASE a \notin alerts
      <4>1. PublishAlert(r)
        BY <1>4, <2>4, <3>2 DEF Step, Prepare, PassStagingTests, DbtSnapshot, BuildMart,
           PassMartTests, DetectAnomalies, ReadMarts, WriteTable, TaskFails
      <4>2. a = AlertOf(r) /\ at[r] = 12
        BY <1>0, <2>0, <2>4, <3>2, <4>1, DoingIs DEF PublishAlert
      <4>3. a.run = r /\ failed[r] = {}
        BY <2>4, <4>2 DEF AlertOf
      <4>4. QED
        BY <2>0, <2>1, <4>2, <4>3, CleanStays DEF CleanInv
    <3>3. QED
      BY <3>1, <3>2
  <2>5. QED
    BY <2>3, <2>4 DEF CleanInv, SuccessIsClean
<1>5. CASE UNCHANGED vars
  BY <1>1, <1>5 DEF vars, runVars
<1>6. QED
  BY <1>2, <1>3, <1>4, <1>5 DEF Next

(* A run reported without failed tasks had no row in the Bronze of its gate*)
(* that a blocking test of the marts rejects.                              *)
THEOREM SuccessStaysClean == Spec => []SuccessIsClean
<1>1. Init => CleanInv
  BY DEF Init, CleanInv, SuccessIsClean
<1>2. Init => SuccessInv
  BY DEF Init, SuccessInv, Progress, AlertInv
<1>3. CleanInv => SuccessIsClean
  BY DEF CleanInv
<1>4. QED
  BY <1>1, <1>2, <1>3, AlwaysTyped, DashInit, DashStep, SuccessStep, CleanStep, PTL DEF Spec
=============================================================================
