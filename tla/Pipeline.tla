------------------------------ MODULE Pipeline ------------------------------
(***************************************************************************)
(* The Bronze writer and the batch around the lake that they share: what   *)
(* LakeWriter lands is what BatchDag reads, while it reads.  The file of a *)
(* partition becomes visible at once, with all of its records.             *)
(*                                                                         *)
(* Records are read again after a kill and land again.  No model of the    *)
(* warehouse looks for second copies: what a record gives its copy gives   *)
(* again, and the grain tests among those of dbt_test_marts reject that.   *)
(* A record that staging or the join with the bucket map drops gives       *)
(* nothing, however often it lands.                                        *)
(***************************************************************************)
EXTENDS Naturals, Sequences, FiniteSets, Functions

CONSTANTS
  Parts, Threshold, MaxLog, MaxStarts, Runs, Items, MaxFails, Missing,
  Content   \* the row of Bronze that each record makes

VARIABLES
  log, committed, position, buffers, pc, pending, stopping, copies, starts, dropped,
  bronze, at, retried, failed, built, unsynced, snapshot, table, shown, gated, skipped,
  aside, alerts, overlapped, fails,
  origin,   \* the record that each row of bronze is of
  acked     \* history: the committed offset when each run passed its gate

MaxRows == MaxLog * MaxStarts   \* a record lands once per start at most

(* The marts whose grain dbt_test_marts tests, and the rows of Bronze: of  *)
(* each record, and of a copy that breaks the grain of some of these.      *)
GrainTested == {"fct_price_observation", "fct_orderbook_snapshot"}
Breaking(row, marts) == [row EXCEPT !.flaws = @ \cup marts]
Rows == {Breaking(Content[o], marts) : o \in 1..MaxLog, marts \in SUBSET GrainTested}

Writer == INSTANCE LakeWriter
Batch == INSTANCE BatchDag

ASSUME PipelineAssumption ==
  /\ Threshold \in Nat \ {0}
  /\ MaxLog \in Nat /\ MaxStarts \in Nat /\ MaxFails \in Nat
  /\ Content \in [1..MaxLog -> Batch!AllRows]
  /\ Missing \notin [by : Runs, upto : Nat, tested : BOOLEAN]

writerVars ==
  <<log, committed, position, buffers, pc, pending, stopping, copies, starts, dropped>>
batchVars ==
  <<at, retried, failed, built, unsynced, snapshot, table, shown, gated, skipped,
    aside, alerts, overlapped, fails>>
lakeVars == <<bronze, origin>>
vars == <<writerVars, batchVars, lakeVars, acked>>

Init ==
  /\ Writer!Init /\ Batch!Init
  /\ origin = <<>> /\ acked = [r \in Runs |-> 0]

-----------------------------------------------------------------------------
(* The records of the file of a partition, in an order of no account.      *)
FileOf(p) == CHOOSE file \in Bijection(1..Cardinality(buffers[p]), buffers[p]) : TRUE

(* Mutant: the grain test tells the copies apart, as by their files.       *)
RowOfByFile(o) == Content[o]

RowOf(o) ==
  IF copies[o] = 0
  THEN Content[o]
  ELSE Breaking(Content[o], {m \in GrainTested : Batch!Feeds(Content[o], m)})

FileAppears(p) ==
  /\ Batch!Land([i \in DOMAIN FileOf(p) |-> RowOf(FileOf(p)[i])])
  /\ origin' = origin \o FileOf(p)
  /\ UNCHANGED acked

BatchWaits == UNCHANGED <<batchVars, lakeVars, acked>>

LandFile(p) == Writer!FlushPartition(p) /\ FileAppears(p)

PutFails(p) ==
  /\ Writer!PutFails(p)
  /\ IF copies' = copies THEN BatchWaits ELSE FileAppears(p)

WriterStep ==
  /\ \/ \E p \in Parts : Writer!Produce(p)
     \/ Writer!Consume \/ Writer!Commit \/ Writer!CommitFails
     \/ Writer!Interrupt \/ Writer!Kill \/ Writer!Restart
  /\ BatchWaits

BatchStep(r) ==
  /\ Batch!Trigger(r) \/ Batch!Step(r)
  /\ acked' = IF gated' = gated THEN acked ELSE [acked EXCEPT ![r] = committed]
  /\ UNCHANGED <<writerVars, origin>>

Next ==
  \/ \E p \in Parts : LandFile(p) \/ PutFails(p)
  \/ \E r \in Runs : BatchStep(r)
  \/ WriterStep

Spec == Init /\ [][Next]_vars

-----------------------------------------------------------------------------
(* Properties, of the runs that are reported "completed with no failed     *)
(* tasks".                                                                 *)

Successful == {r \in Runs : [run |-> r, severity |-> "info"] \in alerts}

(* "a committed offset is a guarantee the data behind it is durably on     *)
(* disk", up to the dashboard: a record that the writer had acknowledged   *)
(* when a run passed its gate, and that no file was refused with, is in    *)
(* every table that gets something of such a record and that the run did   *)
(* not skip, from the run's success on and after those of later runs.      *)
SuccessIsComplete ==
  \A r \in Successful, o \in 1..MaxLog :
    o <= acked[r] /\ o \notin dropped =>
      \A m \in Batch!Synced \ skipped[r] :
        Batch!Feeds(Content[o], m) => \E i \in 1..shown[m].upto : origin[i] = o

(* No run is reported as a success over rows that hold a record twice of   *)
(* which the warehouse makes anything, wherever the writer was killed and  *)
(* whenever the second copy landed.                                        *)
SuccessIsExact ==
  \A r \in Successful : \A i, j \in 1..gated[r] :
    origin[i] = origin[j] /\ bronze[i].items # {} => i = j
=============================================================================
