--------------------------- MODULE PipelineProofs ---------------------------
(***************************************************************************)
(* From a record that the writer has acknowledged to the dashboard that a  *)
(* successful run has brought up to date: the writer's and the batch's own *)
(* theorems, put together over the lake that the two share.                *)
(***************************************************************************)
EXTENDS Pipeline, FiniteSetTheorems, TLAPS

(* The two modules again, with what is proved of them.                     *)
WriterP == INSTANCE LakeWriterProofs
BatchP == INSTANCE BatchDagProofs

LEMMA WriterConstants == WriterP!WriterAssumption
  BY PipelineAssumption DEF WriterP!WriterAssumption

LEMMA BatchConstants == BatchP!BatchAssumption /\ MaxRows \in Nat
<1>1. MaxRows \in Nat
  BY PipelineAssumption DEF MaxRows
<1>2. Content \in [1..MaxLog -> BatchP!AllRows]
  BY PipelineAssumption DEF Batch!AllRows, BatchP!AllRows, Batch!DbtMarts, BatchP!DbtMarts
<1>3. Rows \subseteq BatchP!AllRows
  <2>1. ASSUME NEW o \in 1..MaxLog, NEW marts \in SUBSET GrainTested
        PROVE  Breaking(Content[o], marts) \in BatchP!AllRows
    BY <1>2, <2>1 DEF BatchP!AllRows, BatchP!DbtMarts, GrainTested, Breaking
  <2>2. QED
    BY <2>1 DEF Rows
<1>4. QED
  BY <1>1, <1>3, PipelineAssumption DEF BatchP!BatchAssumption

(* The row of a record is among the rows, and of the record's items.       *)
LEMMA RowOfRecord ==
  ASSUME NEW o \in 1..MaxLog
  PROVE  /\ RowOf(o) \in Rows
         /\ RowOf(o).items = Content[o].items
         /\ copies[o] # 0 /\ Content[o].items # {} =>
              "fct_price_observation" \in RowOf(o).flaws
<1>1. Content[o] \in Batch!AllRows
  BY PipelineAssumption
<1> DEFINE marts == IF copies[o] = 0 THEN {}
                    ELSE {m \in GrainTested : Batch!Feeds(Content[o], m)}
<1>2. RowOf(o) = Breaking(Content[o], marts)
  <2>1. CASE copies[o] = 0
    <3>1. Content[o] = Breaking(Content[o], {})
      BY <1>1 DEF Batch!AllRows, Breaking
    <3>2. QED
      BY <2>1, <3>1 DEF RowOf
  <2>2. CASE copies[o] # 0
    BY <2>2 DEF RowOf
  <2>3. QED
    BY <2>1, <2>2
<1>3. marts \in SUBSET GrainTested
  OBVIOUS
<1>4. copies[o] # 0 /\ Content[o].items # {} => "fct_price_observation" \in marts
  BY DEF GrainTested, Batch!Feeds
<1> HIDE DEF marts
<1>5. /\ RowOf(o).items = Content[o].items
      /\ RowOf(o).flaws = Content[o].flaws \cup marts
  BY <1>1, <1>2 DEF Batch!AllRows, Breaking
<1>6. RowOf(o) \in Rows
  BY <1>2, <1>3 DEF Rows
<1>7. QED
  BY <1>4, <1>5, <1>6

LEMMA OneCardinality == \A S : Writer!Cardinality(S) = WriterP!Cardinality(S)
  BY DEF Writer!Cardinality, WriterP!Cardinality

LEMMA OneWriter == Writer!Next <=> WriterP!Next
  BY OneCardinality
     DEF Writer!Next, Writer!FlushStep, Writer!Produce, Writer!Consume, Writer!BeginFlush,
         Writer!PutFile, Writer!FlushPartition, Writer!Fail, Writer!PutFails, Writer!Commit,
         Writer!CommitFails, Writer!Interrupt, Writer!Kill, Writer!Restart, Writer!Offsets,
         Writer!NoRecords,
         WriterP!Next, WriterP!FlushStep, WriterP!Produce, WriterP!Consume, WriterP!BeginFlush,
         WriterP!PutFile, WriterP!FlushPartition, WriterP!Fail, WriterP!PutFails,
         WriterP!Commit, WriterP!CommitFails, WriterP!Interrupt, WriterP!Kill,
         WriterP!Restart, WriterP!Offsets, WriterP!NoRecords

LEMMA OneBatch ==
  ASSUME NEW r \in Runs
  PROVE  Batch!Trigger(r) \/ Batch!Step(r) <=> BatchP!Trigger(r) \/ BatchP!Step(r)
  BY DEF Batch!runVars, Batch!warehouseVars, Batch!dashboardVars, Batch!Ingest,
         Batch!Transform, Batch!Report, Batch!Chain, Batch!Done, Batch!AllDone,
         Batch!WithoutWarehouse, Batch!Active, Batch!Doing, Batch!NextAllDone,
         Batch!DbtMarts, Batch!Tables, Batch!Sources, Batch!MartTables, Batch!Synced,
         Batch!NoTables, Batch!Has, Batch!Listed, Batch!Readable, Batch!Trigger,
         Batch!GoTo, Batch!GoOn, Batch!Succeed, Batch!Fail, Batch!Fault, Batch!Writing,
         Batch!Reading, Batch!MayRead, Batch!MayWrite, Batch!Opens,
         Batch!FactsHaveItems, Batch!Accepts, Batch!CanSucceed, Batch!TaskFails,
         Batch!Prepare, Batch!PassStagingTests, Batch!DbtSnapshot, Batch!BuildMart,
         Batch!PassMartTests, Batch!DetectAnomalies, Batch!MartsRead, Batch!ReadMarts,
         Batch!WriteTable, Batch!AlertOf, Batch!PublishAlert, Batch!Step,
         BatchP!runVars, BatchP!warehouseVars, BatchP!dashboardVars, BatchP!Ingest,
         BatchP!Transform, BatchP!Report, BatchP!Chain, BatchP!Done, BatchP!AllDone,
         BatchP!WithoutWarehouse, BatchP!Active, BatchP!Doing, BatchP!NextAllDone,
         BatchP!DbtMarts, BatchP!Tables, BatchP!Sources, BatchP!MartTables,
         BatchP!Synced, BatchP!NoTables, BatchP!Has, BatchP!Listed, BatchP!Readable,
         BatchP!Trigger, BatchP!GoTo, BatchP!GoOn, BatchP!Succeed, BatchP!Fail,
         BatchP!Fault, BatchP!Writing, BatchP!Reading, BatchP!MayRead, BatchP!MayWrite,
         BatchP!Opens, BatchP!FactsHaveItems, BatchP!Accepts, BatchP!CanSucceed,
         BatchP!TaskFails, BatchP!Prepare, BatchP!PassStagingTests, BatchP!DbtSnapshot,
         BatchP!BuildMart, BatchP!PassMartTests, BatchP!DetectAnomalies,
         BatchP!MartsRead, BatchP!ReadMarts, BatchP!WriteTable, BatchP!AlertOf,
         BatchP!PublishAlert, BatchP!Step

-----------------------------------------------------------------------------
(* The writer does not see the batch.                                      *)
LEMMA WriterTakesTheStep == [Next]_vars => [WriterP!Next]_(WriterP!vars)
<1>1. (\E p \in Parts : LandFile(p) \/ PutFails(p)) \/ WriterStep => Writer!Next
  BY DEF LandFile, PutFails, WriterStep, Writer!Next, Writer!FlushStep
<1>2. ASSUME (\E r \in Runs : BatchStep(r)) \/ UNCHANGED vars
      PROVE  UNCHANGED WriterP!vars
  BY <1>2 DEF BatchStep, vars, writerVars, WriterP!vars
<1>3. QED
  BY <1>1, <1>2, OneWriter DEF Next

(* Every behaviour of the two is one of the lake writer.                   *)
THEOREM WriterIsItself == Spec => WriterP!Spec
<1>1. Init => WriterP!Init
  BY DEF Init, Writer!Init, WriterP!Init, Writer!NoRecords, WriterP!NoRecords,
         Writer!Offsets, WriterP!Offsets
<1>2. QED
  BY <1>1, WriterTakesTheStep, PTL DEF Spec, WriterP!Spec

-----------------------------------------------------------------------------
(* Bronze and the records its rows are of grow together.                   *)
LakeTypes ==
  /\ bronze \in Seq(Rows) /\ origin \in Seq(Nat)
  /\ Len(origin) = Len(bronze) /\ Len(log) <= MaxLog

(* A file has the records of its buffer, each once.                        *)
LEMMA RowsOfFile ==
  ASSUME WriterP!TypeOK, LakeTypes, NEW p \in Parts
  PROVE  /\ Cardinality(buffers[p]) \in Nat /\ buffers[p] \subseteq 1..MaxLog
         /\ FileOf(p) \in [1..Cardinality(buffers[p]) -> buffers[p]]
         /\ \A i, j \in 1..Cardinality(buffers[p]) : FileOf(p)[i] = FileOf(p)[j] => i = j
         /\ \A o \in buffers[p] : \E i \in 1..Cardinality(buffers[p]) : FileOf(p)[i] = o
<1>1. buffers[p] \subseteq 1..Len(log) /\ Len(log) \in Nat
  BY DEF WriterP!TypeOK, WriterP!Offsets
<1>2. IsFiniteSet(buffers[p])
  <2>1. IsFiniteSet(1..Len(log))
    BY <1>1, FS_Interval
  <2>2. QED
    BY <1>1, <2>1, FS_Subset
<1>3. Cardinality(buffers[p]) \in Nat /\ Bijection(1..Cardinality(buffers[p]), buffers[p]) # {}
  BY <1>2, FS_CardinalityType DEF ExistsBijection
<1>4. FileOf(p) \in Bijection(1..Cardinality(buffers[p]), buffers[p])
  BY <1>3 DEF FileOf
<1>5. buffers[p] \subseteq 1..MaxLog
  BY <1>1, PipelineAssumption DEF LakeTypes
<1>6. QED
  BY <1>3, <1>4, <1>5 DEF Bijection, Injection, IsInjective, Surjection

LEMMA Appended ==
  ASSUME NEW S, NEW s \in Seq(S), NEW t \in Seq(S)
  PROVE  /\ s \o t \in Seq(S) /\ Len(s \o t) = Len(s) + Len(t)
         /\ \A i \in 1..Len(s) : (s \o t)[i] = s[i]
         /\ \A i \in 1..Len(t) : (s \o t)[Len(s) + i] = t[i]
         /\ Len(t) = 0 => s \o t = s
  OBVIOUS

LEMMA AppendedOffsets ==
  ASSUME NEW s \in Seq(Nat), NEW t \in Seq(Nat)
  PROVE  /\ s \o t \in Seq(Nat) /\ Len(s \o t) = Len(s) + Len(t)
         /\ \A i \in 1..Len(s) : (s \o t)[i] = s[i]
         /\ \A i \in 1..Len(t) : (s \o t)[Len(s) + i] = t[i]
<1> DEFINE S == Nat
<1>1. s \in Seq(S) /\ t \in Seq(S)
  OBVIOUS
<1> HIDE DEF S
<1>2. /\ s \o t \in Seq(S) /\ Len(s \o t) = Len(s) + Len(t)
      /\ \A i \in 1..Len(s) : (s \o t)[i] = s[i]
      /\ \A i \in 1..Len(t) : (s \o t)[Len(s) + i] = t[i]
  BY <1>1, Appended
<1>3. QED
  BY <1>2 DEF S

LEMMA FileOfRows ==
  ASSUME WriterP!TypeOK, LakeTypes, NEW p \in Parts, FileAppears(p)
  PROVE  LET n == Cardinality(buffers[p])
             m == Len(bronze)
         IN  /\ n \in Nat /\ m \in Nat /\ m = Len(origin)
             /\ bronze' \in Seq(Rows) /\ origin' \in Seq(Nat) /\ Len(origin') = Len(bronze')
             /\ Len(bronze') = m + n /\ m + n <= MaxRows
             /\ \A i \in 1..m : bronze'[i] = bronze[i] /\ origin'[i] = origin[i]
             /\ \A i \in 1..n : /\ origin'[m + i] = FileOf(p)[i]
                               /\ bronze'[m + i] = RowOf(FileOf(p)[i])
             /\ [i \in 1..n |-> RowOf(FileOf(p)[i])] \in [1..n -> Rows]
             /\ Batch!Land([i \in 1..n |-> RowOf(FileOf(p)[i])])
             /\ n = 0 => bronze' = bronze
<1> DEFINE n == Cardinality(buffers[p])
           m == Len(bronze)
           file == [i \in 1..n |-> RowOf(FileOf(p)[i])]
<1>1. n \in Nat /\ FileOf(p) \in [1..n -> buffers[p]] /\ buffers[p] \subseteq 1..MaxLog
  BY RowsOfFile
<1>2. DOMAIN FileOf(p) = 1..n /\ buffers[p] \subseteq Nat
  BY <1>1 DEF WriterP!TypeOK, WriterP!Offsets
<1>3. FileOf(p) \in Seq(Nat) /\ Len(FileOf(p)) = n
  BY <1>1, <1>2
<1>4. file \in [1..n -> Rows] /\ file \in Seq(Rows) /\ Len(file) = n
  BY <1>1, RowOfRecord
<1>5. Batch!Land(file) /\ origin' = origin \o FileOf(p)
  BY <1>2 DEF FileAppears
<1>6. bronze' = bronze \o file /\ m + n <= MaxRows
  BY <1>4, <1>5 DEF Batch!Land
<1>7. m \in Nat /\ m = Len(origin)
  BY DEF LakeTypes
<1>a. \A i \in 1..n : file[i] = RowOf(FileOf(p)[i])
  OBVIOUS
<1> HIDE DEF file, n, m
<1>b. bronze \in Seq(Rows) /\ origin \in Seq(Nat) /\ m = Len(bronze)
  BY DEF LakeTypes, m
<1>8. /\ bronze' \in Seq(Rows) /\ Len(bronze') = m + n
      /\ \A i \in 1..m : bronze'[i] = bronze[i]
      /\ \A i \in 1..n : bronze'[m + i] = file[i]
  <2>1. file \in Seq(Rows) /\ Len(file) = n
    BY <1>4
  <2>2. bronze' = bronze \o file
    BY <1>6
  <2>3. /\ bronze \o file \in Seq(Rows) /\ Len(bronze \o file) = Len(bronze) + Len(file)
        /\ \A i \in 1..Len(bronze) : (bronze \o file)[i] = bronze[i]
        /\ \A i \in 1..Len(file) : (bronze \o file)[Len(bronze) + i] = file[i]
    BY <1>b, <2>1, Appended
  <2>4. QED
    BY <1>b, <2>1, <2>2, <2>3
<1>0. n = 0 => bronze' = bronze
  BY <1>b, <1>4, <1>6, Appended
<1>9. /\ origin' \in Seq(Nat) /\ Len(origin') = m + n
      /\ \A i \in 1..m : origin'[i] = origin[i]
      /\ \A i \in 1..n : origin'[m + i] = FileOf(p)[i]
  <2> DEFINE t == FileOf(p)
  <2>0. t \in Seq(Nat) /\ Len(t) = n
    BY <1>3
  <2>3. \A i \in 1..n : t[i] = FileOf(p)[i]
    OBVIOUS
  <2>4. origin' = origin \o t
    BY <1>5
  <2> HIDE DEF t
  <2>1. /\ origin \o t \in Seq(Nat) /\ Len(origin \o t) = Len(origin) + Len(t)
        /\ \A i \in 1..Len(origin) : (origin \o t)[i] = origin[i]
        /\ \A i \in 1..Len(t) : (origin \o t)[Len(origin) + i] = t[i]
    BY <1>b, <2>0, AppendedOffsets
  <2>2. QED
    BY <1>7, <2>0, <2>1, <2>3, <2>4
<1>10. QED
  BY <1>1, <1>4, <1>5, <1>6, <1>7, <1>8, <1>9, <1>0, <1>a DEF n, m, file

-----------------------------------------------------------------------------
(* What a step does to the lake: a file lands, or nothing does.            *)
Landed == WriterP!Landed

LEMMA BatchOnlyReads ==
  ASSUME NEW r \in Runs, BatchStep(r)
  PROVE  /\ UNCHANGED <<bronze, origin, writerVars>>
         /\ \/ UNCHANGED <<gated, acked>>
            \/ /\ gated' = [gated EXCEPT ![r] = Len(bronze)]
               /\ acked' = [acked EXCEPT ![r] = committed]
<1>1. bronze' = bronze /\ (gated' = gated \/ gated' = [gated EXCEPT ![r] = Len(bronze)])
  BY DEF BatchStep, Batch!Trigger, Batch!Step, Batch!Prepare, Batch!PassStagingTests,
         Batch!DbtSnapshot, Batch!BuildMart, Batch!WriteTable, Batch!PassMartTests,
         Batch!DetectAnomalies, Batch!ReadMarts, Batch!PublishAlert, Batch!TaskFails
<1>2. QED
  BY <1>1 DEF BatchStep

LEMMA LakeStep ==
  ASSUME WriterP!TypeOK, [Next]_vars
  PROVE  \/ \E p \in Parts :
              FileAppears(p) /\ Writer!PutFile(p) /\ UNCHANGED <<log, acked, gated>>
         \/ UNCHANGED <<bronze, origin>> /\ Landed' = Landed
<1> USE DEF Landed, WriterP!Landed, WriterP!Offsets, WriterP!TypeOK
<1>1. ASSUME NEW p \in Parts, LandFile(p)
      PROVE  FileAppears(p) /\ Writer!PutFile(p) /\ UNCHANGED <<log, acked, gated>>
  BY <1>1 DEF LandFile, FileAppears, Writer!FlushPartition, Batch!Land
<1>2. ASSUME NEW p \in Parts, PutFails(p)
      PROVE  \/ FileAppears(p) /\ Writer!PutFile(p) /\ UNCHANGED <<log, acked, gated>>
             \/ UNCHANGED <<bronze, origin, log, copies>>
  BY <1>2 DEF PutFails, BatchWaits, lakeVars, FileAppears, Writer!PutFails, Batch!Land
<1>3. ASSUME WriterStep
      PROVE  UNCHANGED <<bronze, origin>> /\ Landed' = Landed
  <2>1. ASSUME NEW p \in Parts, Writer!Produce(p)
        PROVE  Landed' = Landed
    <3>1. Len(log') = Len(log) + 1 /\ Len(log) \in Nat
      BY <2>1 DEF Writer!Produce
    <3>2. \A o \in 1..Len(log') :
            copies'[o] = IF o \in 1..Len(log) THEN copies[o] ELSE 0
      BY <2>1 DEF Writer!Produce, Writer!Offsets
    <3>3. QED
      BY <3>1, <3>2
  <2>2. ASSUME UNCHANGED <<log, copies>>
        PROVE  Landed' = Landed
    BY <2>2
  <2>3. QED
    BY <1>3, <2>1, <2>2 DEF WriterStep, BatchWaits, lakeVars, Writer!Consume, Writer!Commit,
       Writer!CommitFails, Writer!Interrupt, Writer!Kill, Writer!Restart
<1>4. ASSUME NEW r \in Runs, BatchStep(r)
      PROVE  UNCHANGED <<bronze, origin, log, copies>>
  BY <1>4, BatchOnlyReads DEF writerVars
<1>5. CASE UNCHANGED vars
  BY <1>5 DEF vars, lakeVars, writerVars
<1>6. QED
  BY <1>1, <1>2, <1>3, <1>4, <1>5 DEF Next

LEMMA TypesStep == WriterP!TypeOK /\ LakeTypes /\ [Next]_vars => LakeTypes'
<1> SUFFICES ASSUME WriterP!TypeOK, LakeTypes, [Next]_vars PROVE LakeTypes'
  OBVIOUS
<1>1. Len(log') <= MaxLog
  <2>1. [WriterP!Next]_(WriterP!vars)
    BY WriterTakesTheStep
  <2>2. ASSUME NEW p \in Parts, WriterP!Produce(p)
        PROVE  Len(log') <= MaxLog
    BY <2>2, PipelineAssumption DEF WriterP!Produce, WriterP!TypeOK
  <2>3. CASE UNCHANGED log
    BY <2>3 DEF LakeTypes
  <2>4. QED
    BY <2>1, <2>2, <2>3
       DEF WriterP!Next, WriterP!FlushStep, WriterP!Consume, WriterP!FlushPartition,
           WriterP!PutFile, WriterP!PutFails, WriterP!Commit, WriterP!CommitFails,
           WriterP!Interrupt, WriterP!Kill, WriterP!Restart, WriterP!vars
<1>2. ASSUME NEW p \in Parts, FileAppears(p)
      PROVE  LakeTypes'
  BY <1>1, <1>2, FileOfRows DEF LakeTypes
<1>3. CASE UNCHANGED <<bronze, origin>>
  BY <1>1, <1>3 DEF LakeTypes
<1>4. QED
  BY <1>2, <1>3, LakeStep

LEMMA WriterTypes == Spec => []WriterP!TypeOK
  BY WriterConstants, WriterIsItself, WriterP!TypeCorrect, PTL

LEMMA LakeTyped == Spec => [](WriterP!TypeOK /\ LakeTypes)
<1>1. Init => LakeTypes
  BY PipelineAssumption DEF Init, Writer!Init, Batch!Init, LakeTypes
<1>2. QED
  BY <1>1, WriterTypes, TypesStep, PTL DEF Spec

(* The batch does not see the writer, but for the rows that appear.        *)
THEOREM BatchIsItself == Spec => BatchP!Spec
<1>1. Init => BatchP!Init
  BY DEF Init, Batch!Init, BatchP!Init, Batch!NoTables, BatchP!NoTables, Batch!Tables,
         BatchP!Tables, Batch!DbtMarts, BatchP!DbtMarts
<1>2. WriterP!TypeOK /\ LakeTypes /\ [Next]_vars => [BatchP!Next]_(BatchP!vars)
  <2> SUFFICES ASSUME WriterP!TypeOK, LakeTypes, [Next]_vars
               PROVE  [BatchP!Next]_(BatchP!vars)
    OBVIOUS
  <2>1. ASSUME NEW p \in Parts, FileAppears(p)
        PROVE  [BatchP!Next]_(BatchP!vars)
    <3> DEFINE n == Cardinality(buffers[p])
               file == [i \in 1..n |-> RowOf(FileOf(p)[i])]
    <3>1. /\ n \in Nat /\ Len(bronze) + n <= MaxRows /\ Len(bronze) \in Nat
          /\ file \in [1..n -> Rows] /\ Batch!Land(file)
          /\ n = 0 => bronze' = bronze
      BY <2>1, FileOfRows
    <3> HIDE DEF n, file
    <3>2. BatchP!Land(file)
      BY <3>1 DEF Batch!Land, BatchP!Land, Batch!runVars, BatchP!runVars,
         Batch!warehouseVars, BatchP!warehouseVars, Batch!dashboardVars, BatchP!dashboardVars
    <3>3. CASE n = 0
      BY <3>1, <3>2, <3>3 DEF BatchP!Land, BatchP!vars
    <3>4. CASE n # 0
      <4>1. n \in 1..MaxRows
        BY <3>1, <3>4, BatchConstants
      <4>2. file \in BatchP!Files
        BY <3>1, <4>1 DEF BatchP!Files
      <4>3. QED
        BY <3>2, <4>2 DEF BatchP!Next
    <3>5. QED
      BY <3>3, <3>4
  <2>2. ASSUME NEW r \in Runs, BatchStep(r)
        PROVE  BatchP!Next
    BY <2>2, OneBatch DEF BatchStep, BatchP!Next
  <2>3. ASSUME BatchWaits \/ UNCHANGED vars
        PROVE  UNCHANGED BatchP!vars
    BY <2>3 DEF BatchWaits, vars, batchVars, lakeVars, BatchP!vars, BatchP!runVars,
       BatchP!warehouseVars, BatchP!dashboardVars
  <2>4. QED
    BY <2>1, <2>2, <2>3 DEF Next, LandFile, PutFails, WriterStep
<1>3. QED
  BY <1>1, <1>2, LakeTyped, PTL DEF Spec, BatchP!Spec

-----------------------------------------------------------------------------
(* The rows of Bronze are of the records that landed, with what breaks the *)
(* grain from the second time on; and what was acknowledged when a run     *)
(* passed its gate is in front of that gate.                               *)

InBronze(o, n) == \E i \in 1..n : origin[i] = o

OriginInv ==
  /\ \A i \in 1..Len(origin) :
       origin[i] \in Landed /\ bronze[i].items = Content[origin[i]].items
  /\ \A o \in Landed : InBronze(o, Len(origin))
  /\ \A i, j \in 1..Len(origin) :
       i < j /\ origin[i] = origin[j] /\ bronze[j].items # {} =>
         "fct_price_observation" \in bronze[j].flaws

AckedInv ==
  /\ acked \in [Runs -> Nat]
  /\ \A r \in Runs : \A o \in 1..acked[r] : o \in dropped \/ InBronze(o, gated[r])

LEMMA OriginAfterFile ==
  ASSUME WriterP!TypeOK, LakeTypes, OriginInv,
         NEW p \in Parts, FileAppears(p), Writer!PutFile(p), UNCHANGED log
  PROVE  OriginInv'
<1> DEFINE n == Cardinality(buffers[p])
           m == Len(origin)
<1>1. /\ n \in Nat /\ m \in Nat /\ Len(origin') = m + n
      /\ \A i \in 1..m : bronze'[i] = bronze[i] /\ origin'[i] = origin[i]
      /\ \A i \in 1..n : /\ origin'[m + i] = FileOf(p)[i]
                        /\ bronze'[m + i] = RowOf(FileOf(p)[i])
  BY FileOfRows DEF LakeTypes
<1>2. /\ \A i \in 1..n : FileOf(p)[i] \in buffers[p] /\ FileOf(p)[i] \in 1..MaxLog
      /\ \A i, j \in 1..n : FileOf(p)[i] = FileOf(p)[j] => i = j
      /\ \A o \in buffers[p] : \E i \in 1..n : FileOf(p)[i] = o
  BY RowsOfFile
<1>3. Landed' = Landed \cup buffers[p] /\ \A o \in Landed : copies[o] > 0
  BY DEF Landed, WriterP!Landed, WriterP!Offsets, WriterP!TypeOK, Writer!PutFile,
         Writer!Offsets
<1> HIDE DEF n, m
<1>4. \A k \in 1..m + n : k \in 1..m \/ \E i \in 1..n : k = m + i
  <2>1. \A k \in 1..m + n : k \notin 1..m => k - m \in 1..n /\ k = m + (k - m)
    BY <1>1
  <2>2. QED
    BY <2>1
<1>5. \A k \in 1..m : /\ k \in 1..m + n
                      /\ origin[k] \in Landed /\ bronze[k].items = Content[origin[k]].items
  BY <1>1 DEF OriginInv, m
<1>6. \A i \in 1..n : m + i \in 1..m + n
  BY <1>1
<1>7. ASSUME NEW k \in 1..m + n
      PROVE  origin'[k] \in Landed' /\ bronze'[k].items = Content[origin'[k]].items
  <2>1. CASE k \in 1..m
    BY <1>1, <1>3, <1>5, <2>1
  <2>2. ASSUME NEW i \in 1..n, k = m + i
        PROVE  origin'[k] \in Landed' /\ bronze'[k].items = Content[origin'[k]].items
    <3>1. origin'[k] = FileOf(p)[i] /\ bronze'[k] = RowOf(FileOf(p)[i])
      BY <1>1, <2>2
    <3>2. QED
      BY <1>2, <1>3, <3>1, RowOfRecord
  <2>3. QED
    BY <1>4, <2>1, <2>2
<1>8. ASSUME NEW o \in Landed'
      PROVE  \E k \in 1..m + n : origin'[k] = o
  <2>1. CASE o \in Landed
    BY <1>1, <1>5, <2>1 DEF OriginInv, InBronze, m
  <2>2. CASE o \in buffers[p]
    <3>1. PICK i \in 1..n : FileOf(p)[i] = o
      BY <1>2, <2>2
    <3>2. m + i \in 1..m + n /\ origin'[m + i] = o
      BY <1>1, <1>6, <3>1
    <3>3. QED
      BY <3>2
  <2>3. QED
    BY <1>3, <2>1, <2>2
<1>9. ASSUME NEW k \in 1..m + n, NEW l \in 1..m + n, k < l, origin'[k] = origin'[l],
             bronze'[l].items # {}
      PROVE  "fct_price_observation" \in bronze'[l].flaws
  <2>1. CASE l \in 1..m
    <3>1. k \in 1..m
      BY <1>1, <1>9, <2>1
    <3>2. QED
      BY <1>1, <1>9, <2>1, <3>1 DEF OriginInv, m
  <2>2. ASSUME NEW j \in 1..n, l = m + j
        PROVE  "fct_price_observation" \in bronze'[l].flaws
    <3>1. CASE k \in 1..m
      <4>1. FileOf(p)[j] \in Landed
        BY <1>1, <1>5, <1>9, <2>2, <3>1
      <4>2. copies[FileOf(p)[j]] # 0 /\ bronze'[l] = RowOf(FileOf(p)[j])
        BY <1>1, <1>3, <2>2, <4>1
      <4>3. QED
        BY <1>2, <1>9, <4>2, RowOfRecord
    <3>2. ASSUME NEW i \in 1..n, k = m + i
          PROVE  FALSE
      <4>1. FileOf(p)[i] = FileOf(p)[j]
        BY <1>1, <1>9, <2>2, <3>2
      <4>2. \A a, b \in 1..n : FileOf(p)[a] = FileOf(p)[b] => a = b
        BY <1>2
      <4>3. i = j
        BY <2>2, <3>2, <4>1, <4>2
      <4>4. QED
        BY <1>1, <1>9, <2>2, <3>2, <4>3
    <3>3. QED
      BY <1>4, <3>1, <3>2
  <2>3. QED
    BY <1>4, <2>1, <2>2
<1>10. QED
  BY <1>1, <1>7, <1>8, <1>9 DEF OriginInv, InBronze

LEMMA OriginStep ==
  WriterP!TypeOK /\ LakeTypes /\ OriginInv /\ [Next]_vars => OriginInv'
<1> SUFFICES ASSUME WriterP!TypeOK, LakeTypes, OriginInv, [Next]_vars PROVE OriginInv'
  OBVIOUS
<1>1. CASE UNCHANGED <<bronze, origin>> /\ Landed' = Landed
  BY <1>1 DEF OriginInv, InBronze
<1>2. QED
  BY <1>1, LakeStep, OriginAfterFile

-----------------------------------------------------------------------------
(* Rows keep their place, and what was in front of a gate is still there.  *)
LEMMA RowsKeepTheirPlace ==
  ASSUME WriterP!TypeOK, LakeTypes, [Next]_vars, NEW n \in 0..Len(bronze), NEW o,
         InBronze(o, n)
  PROVE  \E i \in 1..n : origin'[i] = o
<1>1. PICK i \in 1..n : origin[i] = o
  BY DEF InBronze
<1>2. i \in 1..Len(bronze)
  BY DEF LakeTypes
<1>3. ASSUME NEW p \in Parts, FileAppears(p)
      PROVE  origin'[i] = origin[i]
  BY <1>2, <1>3, FileOfRows
<1>4. origin'[i] = origin[i]
  BY <1>3, LakeStep
<1>5. QED
  BY <1>1, <1>4

(* The offset that was committed when the gate passed: the records up to   *)
(* it had landed, or had been dropped, by the writer's own theorem.        *)
LEMMA AckedAtTheGate ==
  ASSUME WriterP!TypeOK, WriterP!OnlyRefusedFilesAreLost, LakeTypes, OriginInv,
         NEW o \in 1..committed
  PROVE  o \in dropped \/ InBronze(o, Len(bronze))
<1>1. o \in Landed \cup dropped
  BY DEF WriterP!OnlyRefusedFilesAreLost, Landed
<1>2. QED
  BY <1>1 DEF OriginInv, LakeTypes

LEMMA AckedStep ==
  /\ WriterP!TypeOK /\ WriterP!OnlyRefusedFilesAreLost /\ BatchP!TypeOK
  /\ LakeTypes /\ OriginInv /\ AckedInv /\ [Next]_vars
  => AckedInv'
<1> SUFFICES ASSUME WriterP!TypeOK, WriterP!OnlyRefusedFilesAreLost, BatchP!TypeOK,
                    LakeTypes, OriginInv, AckedInv, [Next]_vars
             PROVE  AckedInv'
  OBVIOUS
<1>1. gated \in [Runs -> 0..Len(bronze)] /\ committed \in Nat /\ Len(bronze) \in Nat
  BY DEF BatchP!TypeOK, WriterP!TypeOK, LakeTypes
<1>2. dropped \subseteq dropped'
  <2>1. [WriterP!Next]_(WriterP!vars)
    BY WriterTakesTheStep
  <2>2. QED
    BY <2>1, WriterConstants, WriterP!KeptOnlyGrows
<1>3. ASSUME NEW r \in Runs, NEW o \in 1..acked[r]
      PROVE  o \in dropped' \/ \E i \in 1..gated[r] : origin'[i] = o
  <2>1. o \in dropped \/ InBronze(o, gated[r])
    BY DEF AckedInv
  <2>2. gated[r] \in 0..Len(bronze)
    BY <1>1
  <2>3. InBronze(o, gated[r]) => \E i \in 1..gated[r] : origin'[i] = o
    BY <2>2, RowsKeepTheirPlace
  <2>4. QED
    BY <1>2, <2>1, <2>3
<1>4. CASE UNCHANGED <<gated, acked>>
  BY <1>3, <1>4 DEF AckedInv, InBronze
<1>5. ASSUME NEW r \in Runs, BatchStep(r), gated' = [gated EXCEPT ![r] = Len(bronze)],
             acked' = [acked EXCEPT ![r] = committed]
      PROVE  AckedInv'
  <2>1. acked' \in [Runs -> Nat]
    BY <1>1, <1>5 DEF AckedInv
  <2>2. ASSUME NEW s \in Runs, NEW o \in 1..acked'[s]
        PROVE  o \in dropped' \/ \E i \in 1..gated'[s] : origin'[i] = o
    <3>1. CASE s = r
      <4>1. o \in 1..committed /\ gated'[s] = Len(bronze)
        BY <1>1, <1>5, <2>2, <3>1 DEF AckedInv
      <4>2. o \in dropped \/ InBronze(o, Len(bronze))
        BY <4>1, AckedAtTheGate
      <4>3. origin' = origin
        BY <1>5, BatchOnlyReads
      <4>4. QED
        BY <1>2, <4>1, <4>2, <4>3 DEF InBronze
    <3>2. CASE s # r
      <4>1. o \in 1..acked[s] /\ gated'[s] = gated[s]
        BY <1>1, <1>5, <2>2, <3>2 DEF AckedInv
      <4>2. QED
        BY <1>3, <4>1
    <3>3. QED
      BY <3>1, <3>2
  <2>3. QED
    BY <2>1, <2>2 DEF AckedInv, InBronze
<1>6. ASSUME NEW r \in Runs, BatchStep(r)
      PROVE  AckedInv'
  BY <1>4, <1>5, <1>6, BatchOnlyReads
<1>7. ASSUME NEW p \in Parts, FileAppears(p)
      PROVE  UNCHANGED <<gated, acked>>
  BY <1>7 DEF FileAppears, Batch!Land
<1>8. CASE BatchWaits \/ UNCHANGED vars
  BY <1>4, <1>8 DEF BatchWaits, vars, batchVars
<1>9. QED
  BY <1>4, <1>6, <1>7, <1>8 DEF Next, LandFile, PutFails, WriterStep

LEMMA PipelineInvariant ==
  Spec => [](/\ WriterP!TypeOK /\ BatchP!TypeOK /\ LakeTypes /\ OriginInv /\ AckedInv
             /\ BatchP!SuccessIsShown /\ BatchP!SuccessIsClean)
<1>1. Spec => []WriterP!OnlyRefusedFilesAreLost
  BY WriterConstants, WriterIsItself, WriterP!OnlyRefusedLost, PTL
<1>2. Spec => [](BatchP!TypeOK /\ BatchP!SuccessIsShown /\ BatchP!SuccessIsClean)
  <2>1. BatchP!Spec => [](BatchP!TypeOK /\ BatchP!SuccessIsShown /\ BatchP!SuccessIsClean)
    BY BatchConstants, BatchP!TypeCorrect, BatchP!SuccessStaysShown,
       BatchP!SuccessStaysClean, PTL
  <2>2. QED
    BY <2>1, BatchIsItself, PTL
<1>3. Init => OriginInv /\ AckedInv
  <2>1. Init => origin = <<>> /\ log = <<>> /\ acked = [r \in Runs |-> 0]
    BY DEF Init, Writer!Init
  <2>2. Init => OriginInv
    BY <2>1 DEF OriginInv, InBronze, Landed, WriterP!Landed, WriterP!Offsets
  <2>3. Init => AckedInv
    BY <2>1 DEF AckedInv
  <2>4. QED
    BY <2>2, <2>3
<1>4. QED
  BY <1>1, <1>2, <1>3, LakeTyped, OriginStep, AckedStep, PTL DEF Spec

(* A record acknowledged before a successful run's gate, and not of a file *)
(* that was refused, is on the dashboard: in every table that the run did  *)
(* not skip and that such a record feeds, from the run's success on, for   *)
(* any records, partitions, thresholds, runs, kills and failures.          *)
THEOREM AcknowledgedIsShown == Spec => []SuccessIsComplete
<1>1. ASSUME BatchP!TypeOK, AckedInv, BatchP!SuccessIsShown
      PROVE  SuccessIsComplete
  <2>1. ASSUME NEW r \in Successful, NEW o \in 1..MaxLog, o <= acked[r], o \notin dropped,
               NEW m \in Batch!Synced \ skipped[r]
        PROVE  \E i \in 1..shown[m].upto : origin[i] = o
    <3>1. r \in Runs /\ [run |-> r, severity |-> "info"] \in alerts
      BY <2>1 DEF Successful
    <3>2. acked[r] \in Nat /\ o \in 1..acked[r]
      BY <1>1, <2>1, <3>1 DEF AckedInv
    <3>3. PICK i \in 1..gated[r] : origin[i] = o
      BY <1>1, <2>1, <3>1, <3>2 DEF AckedInv, InBronze
    <3>4. m \in BatchP!Synced \ skipped[r] /\ m \in BatchP!Tables
      BY DEF Batch!Synced, BatchP!Synced, Batch!MartTables, BatchP!MartTables,
             BatchP!Tables, BatchP!DbtMarts
    <3>5. shown[m] # Missing /\ shown[m].upto >= gated[r]
      BY <1>1, <3>1, <3>4 DEF BatchP!SuccessIsShown
    <3>6. shown[m].upto \in Nat /\ gated[r] \in Nat
      BY <1>1, <3>1, <3>4, <3>5 DEF BatchP!TypeOK, BatchP!Contents
    <3>7. i \in 1..shown[m].upto
      BY <3>5, <3>6
    <3>8. QED
      BY <3>3, <3>7
  <2>2. QED
    BY <2>1 DEF SuccessIsComplete
<1>2. QED
  BY <1>1, PipelineInvariant, PTL

(* No record of which the warehouse makes anything is twice among the rows *)
(* that a successful run has looked at, wherever the writer was killed and *)
(* whenever the second copy landed.                                        *)
THEOREM CopiesAreReported == Spec => []SuccessIsExact
<1>1. ASSUME BatchP!TypeOK, LakeTypes, OriginInv, BatchP!SuccessIsClean
      PROVE  SuccessIsExact
  <2>1. ASSUME NEW r \in Successful, NEW i \in 1..gated[r], NEW j \in 1..gated[r],
               origin[i] = origin[j], bronze[i].items # {}
        PROVE  i = j
    <3>1. BatchP!Clean(gated[r])
      BY <1>1 DEF Successful, BatchP!SuccessIsClean
    <3>2. gated[r] \in 0..Len(bronze)
      BY <1>1 DEF BatchP!TypeOK, Successful
    <3>3. i \in 1..Len(origin) /\ j \in 1..Len(origin)
      BY <1>1, <3>2 DEF LakeTypes
    <3>4. bronze[j].items # {}
      BY <1>1, <2>1, <3>3 DEF OriginInv
    <3>5. /\ "fct_price_observation" \notin bronze[i].flaws
          /\ "fct_price_observation" \notin bronze[j].flaws
      BY <3>1 DEF BatchP!Clean, BatchP!Has, BatchP!DbtMarts
    <3>6. ~(i < j) /\ ~(j < i)
      BY <1>1, <2>1, <3>3, <3>4, <3>5 DEF OriginInv
    <3>7. QED
      BY <3>2, <3>6
  <2>2. QED
    BY <2>1 DEF SuccessIsExact
<1>2. QED
  BY <1>1, PipelineInvariant, PTL
=============================================================================
