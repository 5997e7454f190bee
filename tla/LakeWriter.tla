----------------------------- MODULE LakeWriter -----------------------------
(***************************************************************************)
(* A lake writer: streaming/bronze_writer.py (market.raw.v1 to Bronze) and *)
(* streaming/silver_writer.py (market.changes.v1 to Silver), which differ  *)
(* only in the partition key and the columns.                              *)
(*                                                                         *)
(* A record is its offset in the one-partition topic; what matters of its  *)
(* content is the lake partition it belongs to.  The consumer iterator,    *)
(* the commit and nothing else suspend, but a kill can fall anywhere, so a *)
(* flush is one step per partition file.                                   *)
(***************************************************************************)
EXTENDS Naturals, Sequences, FiniteSets

CONSTANTS
  Parts,           \* lake partitions
  Threshold,       \* FLUSH_SIZE_THRESHOLD
  MaxLog,          \* bound on the records produced, for TLC
  MaxStarts        \* bound on the starts of the process, for TLC

ASSUME WriterAssumption ==
  /\ Threshold \in Nat \ {0}
  /\ MaxLog \in Nat /\ MaxStarts \in Nat

VARIABLES
  log,         \* the topic: the partition of each record
  committed,   \* the group's committed offset, as the length of the prefix
  position,    \* the consumer's position, the same way
  buffers,     \* _buffers: offsets popped from the topic, not yet in a file
  pc,          \* "polling", "flushing" (in _flush_all), "down"
  pending,     \* the partitions _flush_all has still to flush
  stopping,    \* whether this _flush_all is the one stop() makes
  copies,      \* the lake: how many files hold each record
  starts,      \* history: starts of the process
  dropped      \* history: records whose file could not be written

vars == <<log, committed, position, buffers, pc, pending, stopping, copies,
          starts, dropped>>

Offsets == 1..Len(log)
Landed == {o \in Offsets : copies[o] > 0}
NoRecords == [p \in Parts |-> {}]

TypeOK ==
  /\ log \in Seq(Parts)
  /\ committed \in 0..Len(log) /\ position \in 0..Len(log)
  /\ buffers \in [Parts -> SUBSET Offsets]
  /\ pc \in {"polling", "flushing", "down"}
  /\ pending \in SUBSET Parts
  /\ stopping \in BOOLEAN
  /\ copies \in [Offsets -> Nat]
  /\ starts \in Nat
  /\ dropped \in SUBSET Offsets

Init ==
  /\ log = <<>>
  /\ committed = 0 /\ position = 0
  /\ buffers = NoRecords
  /\ pc = "polling" /\ pending = {} /\ stopping = FALSE
  /\ copies = [o \in Offsets |-> 0]
  /\ starts = 1
  /\ dropped = {}

-----------------------------------------------------------------------------
(* The producer's side of the topic: the scheduler or the CDC job.         *)
Produce(p) ==
  /\ Len(log) < MaxLog
  /\ log' = Append(log, p)
  /\ copies' = [o \in 1..Len(log') |-> IF o \in Offsets THEN copies[o] ELSE 0]
  /\ UNCHANGED <<committed, position, buffers, pc, pending, stopping, starts, dropped>>

(* Mutant: it visits one key only.                                         *)
BeginFlushOfOneKey(bufs, stop) ==
  /\ pc' = "flushing"
  /\ pending' \in {{p} : p \in Parts}
  /\ stopping' = stop

(* _flush_all begins: it visits the keys that _buffers has now.            *)
BeginFlush(bufs, stop) ==
  /\ pc' = "flushing"
  /\ pending' = {p \in Parts : bufs[p] # {}}
  /\ stopping' = stop

(* Mutant: a full buffer waits for one more record.                        *)
ConsumeOneMore ==
  /\ pc = "polling"
  /\ position < Len(log)
  /\ position' = position + 1
  /\ LET p == log[position + 1] IN
       /\ buffers' = [buffers EXCEPT ![p] = @ \cup {position + 1}]
       /\ \/ BeginFlush(buffers', FALSE)
          \/ /\ Cardinality(buffers'[p]) <= Threshold
             /\ UNCHANGED <<pc, pending, stopping>>
  /\ UNCHANGED <<log, committed, copies, starts, dropped>>

(* One turn of run_forever: buffer the next record, then flush if its      *)
(* partition's buffer is full or, whatever the sizes, if 30 s have gone by *)
(* since the last flush.  The clock is read here and nowhere else.         *)
Consume ==
  /\ pc = "polling"
  /\ position < Len(log)
  /\ position' = position + 1
  /\ LET p == log[position + 1] IN
       /\ buffers' = [buffers EXCEPT ![p] = @ \cup {position + 1}]
       /\ \/ BeginFlush(buffers', FALSE)
          \/ /\ Cardinality(buffers'[p]) < Threshold
             /\ UNCHANGED <<pc, pending, stopping>>
  /\ UNCHANGED <<log, committed, copies, starts, dropped>>

(* _flush_partition: the buffer is popped, then its file is put.           *)
PutFile(p) ==
  copies' = [o \in Offsets |-> copies[o] + (IF o \in buffers[p] THEN 1 ELSE 0)]

(* Mutant: the buffer is read and not popped.                              *)
FlushPartitionKeeping(p) ==
  /\ pc = "flushing" /\ p \in pending
  /\ PutFile(p)
  /\ pending' = pending \ {p}
  /\ UNCHANGED <<log, committed, position, buffers, pc, stopping, starts, dropped>>

FlushPartition(p) ==
  /\ pc = "flushing" /\ p \in pending
  /\ buffers' = [buffers EXCEPT ![p] = {}]
  /\ PutFile(p)
  /\ pending' = pending \ {p}
  /\ UNCHANGED <<log, committed, position, pc, stopping, starts, dropped>>

(* Mutant: the other buffers are cleared before stop() flushes.            *)
FailClearing(bufs) ==
  /\ buffers' = NoRecords
  /\ IF stopping
     THEN pc' = "down" /\ pending' = {} /\ stopping' = FALSE
     ELSE BeginFlush(NoRecords, TRUE)

(* An exception leaves run_forever for stop(), which flushes what is left; *)
(* one inside stop() ends the process.                                     *)
Fail(bufs) ==
  IF stopping
  THEN /\ pc' = "down" /\ buffers' = NoRecords /\ pending' = {}
       /\ stopping' = FALSE
  ELSE buffers' = bufs /\ BeginFlush(bufs, TRUE)

(* The table conversion or put_object raises; the object may be stored.    *)
PutFails(p) ==
  /\ starts < MaxStarts
  /\ pc = "flushing" /\ p \in pending
  /\ Fail([buffers EXCEPT ![p] = {}])
  /\ \/ PutFile(p) /\ UNCHANGED dropped
     \/ dropped' = dropped \cup buffers[p] /\ UNCHANGED copies
  /\ UNCHANGED <<log, committed, position, starts>>

(* Mutant: the offset is one too far.                                      *)
CommitNextOffset ==
  /\ pc = "flushing" /\ pending = {}
  /\ committed' = position + 1
  /\ pc' = IF stopping THEN "down" ELSE "polling"
  /\ stopping' = FALSE
  /\ UNCHANGED <<log, position, buffers, pending, copies, starts, dropped>>

(* The commit after the last partition: everything consumed so far.        *)
Commit ==
  /\ pc = "flushing" /\ pending = {}
  /\ committed' = position
  /\ pc' = IF stopping THEN "down" ELSE "polling"
  /\ stopping' = FALSE
  /\ UNCHANGED <<log, position, buffers, pending, copies, starts, dropped>>

(* The commit raises, or is cancelled, whether or not it took effect.      *)
CommitFails ==
  /\ starts < MaxStarts
  /\ pc = "flushing" /\ pending = {}
  /\ committed' \in {committed, position}
  /\ Fail(buffers)
  /\ UNCHANGED <<log, position, copies, starts, dropped>>

(* An interrupt while waiting for a message: main's finally calls stop().  *)
Interrupt ==
  /\ starts < MaxStarts
  /\ pc = "polling"
  /\ BeginFlush(buffers, TRUE)
  /\ UNCHANGED <<log, committed, position, buffers, copies, starts, dropped>>

(* The process is killed: its memory is gone.                              *)
Kill ==
  /\ starts < MaxStarts
  /\ pc # "down"
  /\ pc' = "down"
  /\ buffers' = NoRecords /\ pending' = {} /\ stopping' = FALSE
  /\ UNCHANGED <<log, committed, position, copies, starts, dropped>>

(* An operator starts it again: it resumes at the committed offset.        *)
Restart ==
  /\ pc = "down"
  /\ pc' = "polling"
  /\ position' = committed
  /\ starts' = starts + 1
  /\ UNCHANGED <<log, committed, buffers, pending, stopping, copies, dropped>>

FlushStep == Commit \/ \E p \in Parts : FlushPartition(p)

Next ==
  \/ \E p \in Parts : Produce(p) \/ PutFails(p)
  \/ Consume \/ FlushStep \/ CommitFails \/ Interrupt \/ Kill \/ Restart

Spec == Init /\ [][Next]_vars

(* The loop runs while the process does; the operator restarts it.         *)
FairSpec == Spec /\ WF_vars(Consume) /\ WF_vars(FlushStep) /\ WF_vars(Restart)

-----------------------------------------------------------------------------
(* Properties.                                                             *)

(* "a committed offset is a guarantee the data behind it is durably on     *)
(* disk" (docs/DECISIONS.md), "genuinely crash-safe" (run_forever).        *)
CommittedIsDurable == 1..committed \subseteq Landed

(* Whatever fails, the only records that the group passes over are those   *)
(* of a file that put_object refused: neither a kill between two files or  *)
(* before the commit, nor a commit that fails, loses a record.             *)
OnlyRefusedFilesAreLost == 1..committed \subseteq Landed \cup dropped

(* A record lands twice only across a restart: one run of the process      *)
(* writes it at most once, so copies are bounded by the starts.            *)
OneCopyPerStart == \A o \in Offsets : copies[o] <= starts

(* The writer's promise to the topic, step by step.                        *)
Store ==
  INSTANCE AckedStore WITH landed <- Landed, refused <- dropped, acked <- committed
KeepsPromise == Store!Spec

(* A record followed in its partition by enough others to fill the buffer  *)
(* lands or is refused, through any finite number of kills, interrupts and *)
(* failures.  The others are needed: the 30 s timer is compared only when a*)
(* message arrives, and the last records of a topic may wait for ever.     *)
Followed(o) ==
  o \in Offsets
    /\ Cardinality({q \in Offsets : q >= o /\ log[q] = log[o]}) >= Threshold
FullBuffersLand == \A o \in 1..MaxLog : Followed(o) ~> o \in Landed \cup dropped
=============================================================================
