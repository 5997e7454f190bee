-------------------------- MODULE LakeWriterProofs --------------------------
(***************************************************************************)
(* The lake writer's promise, for any partitions, threshold and log: what  *)
(* is committed has landed, or been refused by the object store, whatever  *)
(* is killed or fails.                                                     *)
(***************************************************************************)
EXTENDS LakeWriter, TLAPS

USE WriterAssumption

-----------------------------------------------------------------------------
LEMMA InitTypeOK == Init => TypeOK
<1> SUFFICES ASSUME Init PROVE TypeOK
  OBVIOUS
<1>1. log \in Seq(Parts) /\ Len(log) = 0
  BY DEF Init
<1>2. copies \in [Offsets -> Nat]
  BY <1>1 DEF Init, Offsets
<1>3. buffers \in [Parts -> SUBSET Offsets]
  BY DEF Init, NoRecords
<1>4. pc \in {"polling", "flushing", "down"} /\ stopping \in BOOLEAN
  BY DEF Init
<1> QED
  BY <1>1, <1>2, <1>3, <1>4 DEF Init, TypeOK

LEMMA TypeInductive == TypeOK /\ [Next]_vars => TypeOK'
<1> SUFFICES ASSUME TypeOK, [Next]_vars
             PROVE  TypeOK'
  OBVIOUS
<1> USE DEF TypeOK, Offsets
<1>1. ASSUME NEW p \in Parts, Produce(p)
      PROVE  TypeOK'
  <2>1. Len(log') = Len(log) + 1 /\ log' \in Seq(Parts)
    BY <1>1 DEF Produce
  <2>2. copies' \in [1..Len(log') -> Nat]
    BY <1>1, <2>1 DEF Produce
  <2> QED
    BY <1>1, <2>1, <2>2 DEF Produce
<1>2. ASSUME NEW p \in Parts, FlushPartition(p)
      PROVE  TypeOK'
  BY <1>2 DEF FlushPartition, PutFile
<1>3. ASSUME NEW p \in Parts, PutFails(p)
      PROVE  TypeOK'
  <2>1. copies' \in [Offsets -> Nat]
    <3>1. CASE PutFile(p)
      BY <3>1 DEF PutFile
    <3>2. CASE UNCHANGED copies
      BY <3>2
    <3> QED
      BY <1>3, <3>1, <3>2 DEF PutFails
  <2>2. dropped' \in SUBSET Offsets
    BY <1>3 DEF PutFails
  <2>3. UNCHANGED <<log, committed, position, starts>>
    BY <1>3 DEF PutFails
  <2>4. Fail([buffers EXCEPT ![p] = {}])
    BY <1>3 DEF PutFails
  <2>5. /\ buffers' \in [Parts -> SUBSET Offsets]
        /\ pending' \in SUBSET Parts
        /\ stopping' \in BOOLEAN
        /\ pc' \in {"polling", "flushing", "down"}
    BY <2>4 DEF Fail, BeginFlush, NoRecords
  <2> QED
    BY <2>1, <2>2, <2>3, <2>5
<1>4. CASE Consume
  <2>1. position + 1 \in Offsets /\ log[position + 1] \in Parts
    BY <1>4 DEF Consume
  <2>2. buffers' \in [Parts -> SUBSET Offsets]
    BY <1>4, <2>1 DEF Consume
  <2>3. /\ pending' \in SUBSET Parts
        /\ stopping' \in BOOLEAN
        /\ pc' \in {"polling", "flushing", "down"}
    BY <1>4 DEF Consume, BeginFlush
  <2>4. position' \in 0..Len(log)
    BY <1>4 DEF Consume
  <2> QED
    BY <1>4, <2>2, <2>3, <2>4 DEF Consume
<1>5. CASE Commit
  BY <1>5 DEF Commit
<1>6. CASE CommitFails
  BY <1>6 DEF CommitFails, Fail, BeginFlush, NoRecords
<1>7. CASE Interrupt
  BY <1>7 DEF Interrupt, BeginFlush
<1>8. CASE Kill
  BY <1>8 DEF Kill, NoRecords
<1>9. CASE Restart
  BY <1>9 DEF Restart
<1>10. CASE UNCHANGED vars
  BY <1>10 DEF vars
<1> QED
  BY <1>1, <1>2, <1>3, <1>4, <1>5, <1>6, <1>7, <1>8, <1>9, <1>10
  DEF Next, FlushStep

(* Every variable keeps its type: offsets stay within the topic.           *)
THEOREM TypeCorrect == Spec => []TypeOK
<1> QED
  BY InitTypeOK, TypeInductive, PTL DEF Spec

-----------------------------------------------------------------------------
(* Why no record is lost: one that was consumed is in the lake, or in a    *)
(* refused file, or still in a buffer; and the commit finds the buffers    *)
(* empty, for a flush has every non-empty one among those left to visit.   *)

Buffered(o) == \E p \in Parts : o \in buffers[p]

ConsumedIsHeld ==
  pc # "down" => \A o \in 1..position : o \in Landed \cup dropped \/ Buffered(o)
FlushCoversBuffers ==
  pc = "flushing" => \A p \in Parts : buffers[p] # {} => p \in pending
CommitIsBehind == pc # "down" => committed <= position

LossInv ==
  /\ OnlyRefusedFilesAreLost
  /\ ConsumedIsHeld
  /\ FlushCoversBuffers
  /\ CommitIsBehind

(* Why a run of the process writes a record once: the record is in one     *)
(* buffer at a time, its own, and leaves it for the file.                  *)
InOwnBuffer ==
  \A p \in Parts : \A o \in buffers[p] : log[o] = p /\ o <= position
CopyToCome ==
  pc # "down" => /\ starts > 0
                 /\ \A o \in Offsets :
                      o > position \/ Buffered(o) => copies[o] < starts
MemoryIsLost == pc = "down" => \A p \in Parts : buffers[p] = {}

CopyInv == OneCopyPerStart /\ InOwnBuffer /\ CopyToCome /\ MemoryIsLost

-----------------------------------------------------------------------------
(* The lake only grows, and no step forgets a refused file.                *)
LEMMA KeptOnlyGrows ==
  ASSUME TypeOK, [Next]_vars
  PROVE  Landed \subseteq Landed' /\ dropped \subseteq dropped'
<1> USE DEF TypeOK, Offsets, Landed
<1>1. ASSUME NEW p \in Parts, Produce(p)
      PROVE  Landed \subseteq Landed' /\ dropped \subseteq dropped'
  <2>1. Len(log') = Len(log) + 1
    BY <1>1 DEF Produce
  <2>2. \A o \in Offsets : o \in Offsets' /\ copies'[o] = copies[o]
    BY <1>1, <2>1 DEF Produce
  <2> QED
    BY <1>1, <2>2 DEF Produce
<1>2. ASSUME NEW p \in Parts, PutFile(p), UNCHANGED log
      PROVE  Landed \subseteq Landed'
  BY <1>2 DEF PutFile
<1>3. ASSUME UNCHANGED <<log, copies>>
      PROVE  Landed \subseteq Landed'
  BY <1>3
<1>4. ASSUME NEW p \in Parts, FlushPartition(p)
      PROVE  Landed \subseteq Landed' /\ dropped \subseteq dropped'
  BY <1>2, <1>4 DEF FlushPartition
<1>5. ASSUME NEW p \in Parts, PutFails(p)
      PROVE  Landed \subseteq Landed' /\ dropped \subseteq dropped'
  <2>1. CASE PutFile(p) /\ UNCHANGED dropped
    BY <1>2, <1>5, <2>1 DEF PutFails
  <2>2. CASE dropped' = dropped \cup buffers[p] /\ UNCHANGED copies
    BY <1>3, <1>5, <2>2 DEF PutFails
  <2> QED
    BY <1>5, <2>1, <2>2 DEF PutFails
<1>6. CASE Consume \/ Commit \/ CommitFails \/ Interrupt \/ Kill \/ Restart
  <2>1. UNCHANGED <<log, copies, dropped>>
    BY <1>6 DEF Consume, Commit, CommitFails, Interrupt, Kill, Restart
  <2> QED
    BY <1>3, <2>1
<1>7. CASE UNCHANGED vars
  BY <1>3, <1>7 DEF vars
<1> QED
  BY <1>1, <1>4, <1>5, <1>6, <1>7 DEF Next, FlushStep

LEMMA InitLossInv == Init => LossInv
<1> SUFFICES ASSUME Init PROVE LossInv
  OBVIOUS
<1>1. OnlyRefusedFilesAreLost
  BY DEF Init, OnlyRefusedFilesAreLost
<1>2. ConsumedIsHeld
  BY DEF Init, ConsumedIsHeld
<1>3. FlushCoversBuffers
  BY DEF Init, FlushCoversBuffers
<1>4. CommitIsBehind
  BY DEF Init, CommitIsBehind
<1> QED
  BY <1>1, <1>2, <1>3, <1>4 DEF LossInv

(* The commit is where the three parts meet: nothing left to visit, so no  *)
(* buffer holds anything, so what was consumed has been kept.              *)
LEMMA CommitIsCovered ==
  ASSUME TypeOK, LossInv, pc = "flushing", pending = {}
  PROVE  1..position \subseteq Landed \cup dropped
<1>1. \A p \in Parts : buffers[p] = {}
  BY DEF LossInv, FlushCoversBuffers
<1>2. \A o : ~Buffered(o)
  BY <1>1 DEF Buffered
<1> QED
  BY <1>2 DEF LossInv, ConsumedIsHeld

LEMMA LossInductive ==
  ASSUME TypeOK, LossInv, [Next]_vars
  PROVE  LossInv'
<1>0. Landed \subseteq Landed' /\ dropped \subseteq dropped'
  BY KeptOnlyGrows
<1>1. OnlyRefusedFilesAreLost'
  <2>1. CASE UNCHANGED committed
    BY <1>0, <2>1 DEF LossInv, OnlyRefusedFilesAreLost
  <2>2. CASE Commit
    BY <1>0, <2>2, CommitIsCovered DEF Commit, OnlyRefusedFilesAreLost
  <2>3. CASE CommitFails
    <3>1. committed' = committed \/ committed' = position
      BY <2>3 DEF CommitFails
    <3> QED
      BY <1>0, <2>1, <2>3, <3>1, CommitIsCovered
      DEF CommitFails, OnlyRefusedFilesAreLost
  <2> QED
    BY <2>1, <2>2, <2>3
    DEF Next, FlushStep, vars, Produce, Consume, FlushPartition, PutFails,
        Interrupt, Kill, Restart
<1>2. ConsumedIsHeld'
  <2> SUFFICES ASSUME pc' # "down", NEW o \in 1..position'
               PROVE  o \in Landed' \cup dropped' \/ Buffered(o)'
    BY DEF ConsumedIsHeld
  <2>1. ASSUME pc # "down", position' = position
        PROVE  o \in Landed' \cup dropped' \/ Buffered(o)
    BY <1>0, <2>1 DEF LossInv, ConsumedIsHeld
  <2>2. ASSUME UNCHANGED <<position, buffers>>, pc # "down"
        PROVE  o \in Landed' \cup dropped' \/ Buffered(o)'
    BY <2>1, <2>2 DEF Buffered
  <2>3. ASSUME NEW p \in Parts, FlushPartition(p)
        PROVE  o \in Landed' \cup dropped' \/ Buffered(o)'
    <3>1. o \in Landed' \cup dropped' \/ Buffered(o)
      BY <2>1, <2>3 DEF FlushPartition
    <3>2. ASSUME o \in buffers[p]
          PROVE  o \in Landed'
      BY <2>3, <3>2 DEF FlushPartition, PutFile, Landed, Offsets, TypeOK
    <3>3. ASSUME NEW q \in Parts, q # p, o \in buffers[q]
          PROVE  Buffered(o)'
      BY <2>3, <3>3 DEF FlushPartition, TypeOK, Buffered
    <3> QED
      BY <3>1, <3>2, <3>3 DEF Buffered
  <2>4. ASSUME NEW p \in Parts, PutFails(p)
        PROVE  o \in Landed' \cup dropped' \/ Buffered(o)'
    <3>1. o \in Landed' \cup dropped' \/ Buffered(o)
      BY <2>1, <2>4 DEF PutFails
    <3>2. ASSUME o \in buffers[p]
          PROVE  o \in Landed' \cup dropped'
      <4>1. CASE PutFile(p)
        BY <2>4, <3>2, <4>1 DEF PutFails, PutFile, Landed, Offsets, TypeOK
      <4>2. CASE dropped' = dropped \cup buffers[p]
        BY <3>2, <4>2
      <4> QED
        BY <2>4, <4>1, <4>2 DEF PutFails
    <3>3. ASSUME NEW q \in Parts, q # p, o \in buffers[q]
          PROVE  Buffered(o)'
      <4>1. buffers' = [buffers EXCEPT ![p] = {}]
        BY <2>4 DEF PutFails, Fail, BeginFlush
      <4> QED
        BY <3>3, <4>1 DEF TypeOK, Buffered
    <3> QED
      BY <3>1, <3>2, <3>3 DEF Buffered
  <2>5. CASE Consume
    <3>1. log[position + 1] \in Parts /\ position \in Nat
      BY <2>5 DEF Consume, TypeOK
    <3>2. ASSUME NEW q \in Parts PROVE buffers[q] \subseteq buffers'[q]
      BY <2>5, <3>1 DEF Consume, TypeOK
    <3>3. CASE o = position + 1
      BY <2>5, <3>1, <3>3 DEF Consume, TypeOK, Buffered
    <3>4. CASE o # position + 1
      <4>1. o \in 1..position
        BY <2>5, <3>1, <3>4 DEF Consume
      <4>2. o \in Landed \cup dropped \/ Buffered(o)
        BY <2>5, <4>1 DEF LossInv, ConsumedIsHeld, Consume
      <4> QED
        BY <1>0, <3>2, <4>2 DEF Buffered
    <3> QED
      BY <3>3, <3>4
  <2>6. CASE CommitFails
    BY <2>2, <2>6 DEF CommitFails, Fail, BeginFlush
  <2>7. CASE Restart
    BY <1>0, <2>7 DEF Restart, LossInv, OnlyRefusedFilesAreLost
  <2>8. CASE Commit \/ Interrupt \/ UNCHANGED vars \/ \E p \in Parts : Produce(p)
    BY <2>2, <2>8 DEF Commit, Interrupt, vars, Produce
  <2> QED
    BY <2>3, <2>4, <2>5, <2>6, <2>7, <2>8 DEF Next, FlushStep, Kill
<1>3. FlushCoversBuffers'
  <2>1. ASSUME NEW bufs, NEW stop, BeginFlush(bufs, stop), buffers' = bufs
        PROVE  FlushCoversBuffers'
    BY <2>1 DEF BeginFlush, FlushCoversBuffers
  <2>2. CASE pc' # "flushing"
    BY <2>2 DEF FlushCoversBuffers
  <2>3. CASE UNCHANGED <<pc, buffers, pending>>
    BY <2>3 DEF LossInv, FlushCoversBuffers
  <2>4. ASSUME NEW p \in Parts, FlushPartition(p)
        PROVE  FlushCoversBuffers'
    BY <2>4 DEF FlushPartition, LossInv, FlushCoversBuffers, TypeOK
  <2>5. ASSUME NEW p \in Parts, PutFails(p)
        PROVE  FlushCoversBuffers'
    BY <2>1, <2>2, <2>5 DEF PutFails, Fail
  <2>6. CASE Consume
    <3>1. pc = "polling"
      BY <2>6 DEF Consume
    <3> QED
      BY <2>1, <2>2, <2>6, <3>1 DEF Consume
  <2>7. CASE CommitFails
    BY <2>1, <2>2, <2>7 DEF CommitFails, Fail
  <2>8. CASE Interrupt
    BY <2>1, <2>8 DEF Interrupt
  <2>9. CASE Commit \/ Kill \/ Restart
    BY <2>2, <2>9 DEF Commit, Kill, Restart
  <2> QED
    BY <2>3, <2>4, <2>5, <2>6, <2>7, <2>8, <2>9
    DEF Next, FlushStep, Produce, vars
<1>4. CommitIsBehind'
  <2> USE DEF LossInv, CommitIsBehind, TypeOK
  <2>1. CASE UNCHANGED <<committed, position>> /\ pc # "down"
    BY <2>1
  <2>2. CASE Consume
    BY <2>2 DEF Consume
  <2>3. CASE Commit \/ Restart
    BY <2>3 DEF Commit, Restart
  <2>4. CASE CommitFails
    BY <2>4 DEF CommitFails
  <2> QED
    BY <2>1, <2>2, <2>3, <2>4
    DEF Next, FlushStep, vars, Produce, FlushPartition, PutFails, Interrupt, Kill
<1> QED
  BY <1>1, <1>2, <1>3, <1>4 DEF LossInv

(* A kill between any two files, or before the commit, a commit that fails *)
(* and a flush that is abandoned halfway: the only records that the group  *)
(* ever passes over are those of a file that put_object refused.           *)
THEOREM OnlyRefusedLost == Spec => []OnlyRefusedFilesAreLost
<1>1. Init => TypeOK /\ LossInv
  BY InitTypeOK, InitLossInv
<1>2. TypeOK /\ LossInv /\ [Next]_vars => TypeOK' /\ LossInv'
  BY TypeInductive, LossInductive
<1>3. LossInv => OnlyRefusedFilesAreLost
  BY DEF LossInv
<1> QED
  BY <1>1, <1>2, <1>3, PTL DEF Spec

(* "a committed offset is a guarantee the data behind it is durably on     *)
(* disk" (docs/DECISIONS.md): true as long as no file has been refused,    *)
(* whatever is killed, interrupted or fails to commit.                     *)
THEOREM CommitsAreDurable == Spec => [](dropped = {} => CommittedIsDurable)
<1>1. OnlyRefusedFilesAreLost => (dropped = {} => CommittedIsDurable)
  BY DEF OnlyRefusedFilesAreLost, CommittedIsDurable
<1> QED
  BY <1>1, OnlyRefusedLost, PTL

-----------------------------------------------------------------------------
(* The writer implements AckedStore: a step that moves the committed       *)
(* offset acknowledges, a file that is refused gives up its records, every *)
(* other step lands records or changes nothing.                            *)
LEMMA StepIsStoreStep ==
  ASSUME TypeOK, LossInv, [Next]_vars
  PROVE  [Store!Next]_(Store!storeVars)
<1> USE DEF Store!storeVars, Store!Next, Store!Land, Store!Refuse, Store!Ack
<1>1. Landed \subseteq Landed' /\ dropped \subseteq dropped'
  BY KeptOnlyGrows
<1>2. CASE UNCHANGED <<committed, dropped>>
  BY <1>1, <1>2
<1>3. CASE committed' = position /\ pc = "flushing" /\ pending = {}
           /\ UNCHANGED <<log, copies, dropped>>
  <2>1. 1..position \subseteq Landed \cup dropped
    BY <1>3, CommitIsCovered
  <2>2. committed <= position /\ position \in Nat
    BY <1>3 DEF LossInv, CommitIsBehind, TypeOK
  <2>3. Landed' = Landed
    BY <1>3 DEF Landed, Offsets
  <2> QED
    BY <1>3, <2>1, <2>2, <2>3
<1>4. CASE Commit
  BY <1>3, <1>4 DEF Commit
<1>5. CASE CommitFails
  BY <1>2, <1>3, <1>5 DEF CommitFails
<1>6. ASSUME NEW p \in Parts, PutFails(p)
      PROVE  [Store!Next]_(Store!storeVars)
  <2>1. CASE UNCHANGED dropped
    BY <1>2, <1>6, <2>1 DEF PutFails
  <2>2. CASE UNCHANGED copies
    <3>1. Landed' = Landed
      BY <1>6, <2>2 DEF PutFails, Landed, Offsets
    <3> QED
      BY <1>1, <1>6, <3>1 DEF PutFails
  <2> QED
    BY <1>6, <2>1, <2>2 DEF PutFails
<1> QED
  BY <1>2, <1>4, <1>5, <1>6
  DEF Next, FlushStep, vars, Produce, Consume, FlushPartition, Interrupt, Kill,
      Restart

(* A refinement: for any partitions, threshold and log, the writer is an   *)
(* AckedStore.                                                             *)
THEOREM WriterKeepsPromise == Spec => KeepsPromise
<1>1. Init => TypeOK /\ LossInv
  BY InitTypeOK, InitLossInv
<1>2. TypeOK /\ LossInv /\ [Next]_vars => TypeOK' /\ LossInv'
  BY TypeInductive, LossInductive
<1>3. Init => Store!Init
  BY DEF Init, Store!Init, Landed, Offsets
<1>4. TypeOK /\ LossInv /\ [Next]_vars => [Store!Next]_(Store!storeVars)
  BY StepIsStoreStep
<1> QED
  BY <1>1, <1>2, <1>3, <1>4, PTL DEF Spec, KeepsPromise, Store!Spec

-----------------------------------------------------------------------------
LEMMA InitCopyInv == Init => CopyInv
<1> SUFFICES ASSUME Init PROVE CopyInv
  OBVIOUS
<1>1. Offsets = {} /\ starts = 1
  BY DEF Init, Offsets
<1>2. \A p \in Parts : buffers[p] = {}
  BY DEF Init, NoRecords
<1> QED
  BY <1>1, <1>2 DEF CopyInv, OneCopyPerStart, InOwnBuffer, CopyToCome, MemoryIsLost

(* Emptying a buffer or filling the topic leaves the rest as it was.       *)
LEMMA InOwnBufferInductive ==
  ASSUME TypeOK, CopyInv, [Next]_vars
  PROVE  InOwnBuffer'
<1> USE DEF TypeOK, CopyInv, InOwnBuffer, Offsets
<1>1. ASSUME NEW p \in Parts, Produce(p)
      PROVE  InOwnBuffer'
  <2>1. \A o \in Offsets : log'[o] = log[o]
    BY <1>1 DEF Produce
  <2> QED
    BY <1>1, <2>1 DEF Produce
<1>2. CASE Consume
  <2>1. log[position + 1] \in Parts /\ position' = position + 1
    BY <1>2 DEF Consume
  <2>2. \A q \in Parts : buffers'[q] =
          IF q = log[position + 1] THEN buffers[q] \cup {position + 1}
                                   ELSE buffers[q]
    BY <1>2, <2>1 DEF Consume
  <2> QED
    BY <1>2, <2>1, <2>2 DEF Consume
<1>3. CASE /\ UNCHANGED <<log, position>>
           /\ \A q \in Parts : buffers'[q] \subseteq buffers[q]
  BY <1>3
<1>4. ASSUME NEW p \in Parts, FlushPartition(p)
      PROVE  InOwnBuffer'
  BY <1>3, <1>4 DEF FlushPartition
<1>5. ASSUME NEW p \in Parts, PutFails(p)
      PROVE  InOwnBuffer'
  BY <1>3, <1>5 DEF PutFails, Fail, BeginFlush, NoRecords
<1>6. CASE CommitFails \/ Kill
  BY <1>3, <1>6 DEF CommitFails, Kill, Fail, BeginFlush, NoRecords
<1>7. CASE Restart
  <2>1. \A q \in Parts : buffers[q] = {}
    BY <1>7 DEF Restart, MemoryIsLost
  <2> QED
    BY <1>7, <2>1 DEF Restart
<1>8. CASE Commit \/ Interrupt \/ UNCHANGED vars
  BY <1>3, <1>8 DEF Commit, Interrupt, vars
<1> QED
  BY <1>1, <1>2, <1>4, <1>5, <1>6, <1>7, <1>8 DEF Next, FlushStep

LEMMA MemoryIsLostInductive ==
  ASSUME TypeOK, LossInv, CopyInv, [Next]_vars
  PROVE  MemoryIsLost'
<1> USE DEF CopyInv, MemoryIsLost, NoRecords
<1>1. CASE UNCHANGED <<pc, buffers>>
  BY <1>1
<1>2. CASE pc' # "down"
  BY <1>2
<1>3. ASSUME NEW p \in Parts, FlushPartition(p)
      PROVE  MemoryIsLost'
  BY <1>2, <1>3 DEF FlushPartition
<1>4. ASSUME NEW p \in Parts, PutFails(p)
      PROVE  MemoryIsLost'
  BY <1>4 DEF PutFails, Fail, BeginFlush
<1>5. CASE CommitFails
  BY <1>5 DEF CommitFails, Fail, BeginFlush
<1>6. CASE Kill
  BY <1>6 DEF Kill
<1>7. CASE Commit
  <2>1. \A p \in Parts : buffers[p] = {}
    BY <1>7 DEF Commit, LossInv, FlushCoversBuffers
  <2> QED
    BY <1>7, <2>1 DEF Commit
<1> QED
  BY <1>1, <1>2, <1>3, <1>4, <1>5, <1>6, <1>7
  DEF Next, FlushStep, vars, Produce, Consume, Interrupt, Restart, BeginFlush

LEMMA CopyInductive ==
  ASSUME TypeOK, CopyInv, [Next]_vars
  PROVE  OneCopyPerStart' /\ CopyToCome'
<1> USE DEF OneCopyPerStart, CopyToCome, Buffered
<1>1. ASSUME NEW p \in Parts, Produce(p)
      PROVE  OneCopyPerStart' /\ CopyToCome'
  <2>1. Offsets' = Offsets \cup {Len(log) + 1} /\ Len(log) + 1 \notin Offsets
    BY <1>1 DEF Produce, TypeOK, Offsets
  <2>2. \A o \in Offsets' : copies'[o] = IF o \in Offsets THEN copies[o] ELSE 0
    BY <1>1 DEF Produce, Offsets
  <2>3. UNCHANGED <<starts, pc, position, buffers>>
    BY <1>1 DEF Produce
  <2> QED
    BY <2>1, <2>2, <2>3 DEF CopyInv, TypeOK
<1>2. ASSUME NEW p \in Parts, PutFile(p), UNCHANGED <<log, position, starts>>,
             pc # "down",
             \A q \in Parts : q # p => buffers'[q] \subseteq buffers[q],
             buffers'[p] = {}
      PROVE  OneCopyPerStart' /\ CopyToCome'
  <2>1. \A o \in Offsets : copies'[o] =
          IF o \in buffers[p] THEN copies[o] + 1 ELSE copies[o]
    BY <1>2 DEF PutFile, TypeOK
  <2>2. \A o \in buffers[p] : o \in Offsets /\ copies[o] < starts
    BY <1>2 DEF CopyInv, TypeOK
  <2>3. OneCopyPerStart'
    BY <1>2, <2>1, <2>2 DEF CopyInv, TypeOK, Offsets
  <2>4. ASSUME NEW o \in Offsets, o > position \/ Buffered(o)'
        PROVE  copies'[o] < starts
    <3>1. o \notin buffers[p]
      BY <1>2, <2>4 DEF CopyInv, InOwnBuffer, TypeOK, Offsets
    <3>2. o > position \/ Buffered(o)
      BY <1>2, <2>4
    <3> QED
      BY <1>2, <2>1, <3>1, <3>2 DEF CopyInv
  <2> QED
    BY <1>2, <2>3, <2>4 DEF CopyInv, Offsets
<1>3. CASE /\ UNCHANGED <<log, copies, position, starts>> /\ pc # "down"
           /\ \A q \in Parts : buffers'[q] \subseteq buffers[q]
  BY <1>3 DEF CopyInv, Offsets
<1>4. ASSUME NEW p \in Parts, FlushPartition(p)
      PROVE  OneCopyPerStart' /\ CopyToCome'
  BY <1>2, <1>4 DEF FlushPartition, TypeOK
<1>5. ASSUME NEW p \in Parts, PutFails(p)
      PROVE  OneCopyPerStart' /\ CopyToCome'
  <2>1. buffers' = [buffers EXCEPT ![p] = {}] \/ buffers' = NoRecords
    BY <1>5 DEF PutFails, Fail, BeginFlush
  <2>2. \A q \in Parts : buffers'[q] \subseteq buffers[q]
    BY <2>1 DEF NoRecords, TypeOK
  <2>3. buffers'[p] = {}
    BY <2>1 DEF NoRecords, TypeOK
  <2> QED
    BY <1>2, <1>3, <1>5, <2>2, <2>3 DEF PutFails
<1>6. CASE Consume
  <2>1. log[position + 1] \in Parts /\ position' = position + 1 /\ position \in Nat
    BY <1>6 DEF Consume, TypeOK
  <2>2. \A o \in Offsets : Buffered(o)' => Buffered(o) \/ o = position + 1
    BY <1>6, <2>1 DEF Consume, TypeOK
  <2>3. UNCHANGED <<log, copies, starts>> /\ pc # "down"
    BY <1>6 DEF Consume
  <2>4. \A o \in Offsets : o > position' \/ Buffered(o)' => o > position \/ Buffered(o)
    BY <2>1, <2>2 DEF Offsets
  <2> QED
    BY <2>3, <2>4 DEF CopyInv, Offsets
<1>7. CASE CommitFails \/ Commit \/ Interrupt
  BY <1>3, <1>7 DEF CommitFails, Commit, Interrupt, Fail, BeginFlush, NoRecords
<1>8. CASE Kill
  BY <1>3, <1>8 DEF Kill, NoRecords
<1>9. CASE Restart
  <2>1. UNCHANGED <<log, copies>> /\ starts' = starts + 1 /\ starts \in Nat
    BY <1>9 DEF Restart, TypeOK
  <2>2. \A o \in Offsets : copies[o] \in Nat /\ copies[o] <= starts
    BY DEF CopyInv, TypeOK
  <2>3. \A o \in Offsets' : copies'[o] \in Nat /\ copies'[o] < starts'
    BY <2>1, <2>2 DEF Offsets
  <2> QED
    BY <2>1, <2>3
<1>10. CASE UNCHANGED vars
  BY <1>10 DEF vars, CopyInv, Offsets
<1> QED
  BY <1>1, <1>4, <1>5, <1>6, <1>7, <1>8, <1>9, <1>10 DEF Next, FlushStep

(* Duplicates in the lake come from restarts alone: however flushes,       *)
(* interrupts and commits interleave, one run of the process never puts a  *)
(* record into two files.                                                  *)
THEOREM DuplicatesNeedRestarts == Spec => []OneCopyPerStart
<1>1. Init => TypeOK /\ LossInv /\ CopyInv
  BY InitTypeOK, InitLossInv, InitCopyInv
<1>2. TypeOK /\ LossInv /\ CopyInv /\ [Next]_vars => TypeOK' /\ LossInv' /\ CopyInv'
  BY TypeInductive, LossInductive, InOwnBufferInductive, MemoryIsLostInductive,
     CopyInductive
  DEF CopyInv
<1>3. CopyInv => OneCopyPerStart
  BY DEF CopyInv
<1> QED
  BY <1>1, <1>2, <1>3, PTL DEF Spec
=============================================================================
