------------------------------- MODULE CdcJob -------------------------------
(***************************************************************************)
(* The CDC job (streaming/cdc_job.py) for one key (app_id,                 *)
(* market_hash_name): the rows that normalize makes of the envelopes of    *)
(* market.raw.v1, detect_changes over them, and the events it emits to     *)
(* market.changes.v1.  Keys share nothing, so one stands for all.          *)
(*                                                                         *)
(* The engine is modelled from how run and build_change_stream use it: a   *)
(* micro-batch is a range of offsets, recorded before it runs; its rows    *)
(* reach detect_changes in frames, cut anywhere and in any order; the      *)
(* events go to the topic before the batch and its state are committed; a  *)
(* batch that was not committed runs again, from the committed state.      *)
(*                                                                         *)
(* The topic of events is kept field by field, as its consumers read it:   *)
(* the order between two fields is nobody's concern.                       *)
(***************************************************************************)
EXTENDS Naturals, Sequences

CONSTANTS
  Fields,       \* the watched fields of this instance
  Null,         \* a missing value
  Values,       \* what a field can hold
  Requested,    \* currencies that priceoverview is asked for
  Reported,     \* currencies that orderbook may answer in
  Lackable,     \* fields that a payload may lack
  MaxRows,      \* bound on the rows of the key, for TLC
  MaxTime,      \* bound on observed_at, for TLC
  MaxCrashes    \* bound on the crashes, for TLC

WatchedFields == {"lowest_sell", "highest_buy", "sell_listings", "volume"}
MoneyFields == {"lowest_sell", "highest_buy"}

ASSUME CdcAssumption ==
  /\ Fields \subseteq WatchedFields /\ Lackable \subseteq Fields
  /\ Null \notin Values /\ Null \notin Requested /\ Null \notin Reported
  /\ MaxRows \in Nat /\ MaxTime \in Nat /\ MaxCrashes \in Nat

VARIABLES
  raw,       \* the key's rows in market.raw.v1
  done,      \* offset up to which batches are committed
  planned,   \* end of the batch in the offset log: done if none is
  saved,     \* the committed group state
  pc,        \* "idle", "running" (a batch), "down"
  todo,      \* offsets of the running batch in no frame yet
  frame,     \* offsets of the current frame still to be diffed
  work,      \* the group state in detect_changes
  emitted,   \* its events not yet in the topic, by field
  out,       \* market.changes.v1, by field
  crashes    \* crashes so far

jobVars == <<pc, todo, frame, work, emitted>>
vars == <<raw, done, planned, saved, jobVars, out, crashes>>

-----------------------------------------------------------------------------
(* The rows.  normalize gives a row the fields that its endpoint carries   *)
(* and the currency that the response, or the request, states.             *)

Endpoints == {"search_render", "priceoverview", "orderbook"}

Carries(endpoint) ==
  Fields \cap
    (CASE endpoint = "search_render" -> {"lowest_sell", "sell_listings"}
       [] endpoint = "priceoverview" -> {"lowest_sell", "volume"}
       [] endpoint = "orderbook" -> {"lowest_sell", "highest_buy", "sell_listings"})

Present(r) == {f \in Fields : r.value[f] # Null}

(* A body that is no order book (an error page, say) states no currency;   *)
(* priceoverview's currency is the request's whatever the body.            *)
StatesCurrency(r) ==
  CASE r.endpoint = "search_render" -> r.currency = Null
    [] r.endpoint = "priceoverview" -> r.currency \in Requested
    [] r.endpoint = "orderbook" ->
         r.currency \in Reported \/ (r.currency = Null /\ Present(r) = {})

Rows ==
  {r \in [endpoint : Endpoints, currency : Requested \cup Reported \cup {Null},
          at : 1..MaxTime, value : [Fields -> Values \cup {Null}]] :
     /\ Present(r) \subseteq Carries(r.endpoint)
     /\ Carries(r.endpoint) \ Present(r) \subseteq Lackable
     /\ StatesCurrency(r)}

(* _money_domain                                                           *)
MoneyDomain(r) ==
  IF r.currency # Null THEN <<"currency", r.currency>>
                       ELSE <<"endpoint", r.endpoint>>

NoDomain == <<>>
Domains ==
  ({"currency"} \X (Requested \cup Reported)) \cup ({"endpoint"} \X Endpoints)

(* The group state.  Two components are history: the domain of the row     *)
(* that each value was read from, and whether the value came with an event. *)
States ==
  [value : [Fields -> Values \cup {Null}], domain : Domains \cup {NoDomain},
   origin : [Fields -> Domains \cup {NoDomain}], told : [Fields -> BOOLEAN]]

NewState ==
  [value |-> [f \in Fields |-> Null], domain |-> NoDomain,
   origin |-> [f \in Fields |-> NoDomain], told |-> [f \in Fields |-> FALSE]]

Events == [previous : Values, current : Values, at : 1..MaxTime,
           from : Domains \cup {NoDomain}, to : Domains]
NoEvents == [f \in Fields |-> <<>>]

TypeOK ==
  /\ raw \in Seq(Rows)
  /\ done \in 0..Len(raw) /\ planned \in done..Len(raw)
  /\ saved \in States /\ work \in States
  /\ pc \in {"idle", "running", "down"}
  /\ todo \in SUBSET (1..Len(raw)) /\ frame \in SUBSET (1..Len(raw))
  /\ emitted \in [Fields -> Seq(Events)] /\ out \in [Fields -> Seq(Events)]
  /\ crashes \in Nat

Init ==
  /\ raw = <<>>
  /\ done = 0 /\ planned = 0
  /\ saved = NewState /\ work = NewState
  /\ pc = "idle" /\ todo = {} /\ frame = {}
  /\ emitted = NoEvents /\ out = NoEvents
  /\ crashes = 0

-----------------------------------------------------------------------------
(* One row in detect_changes.                                              *)

(* Mutant, the first fix in the docstring: only currencies conflict.       *)
ConflictOfCurrencies(st, r) ==
  /\ st.domain \in {"currency"} \X (Requested \cup Reported)
  /\ r.currency # Null
  /\ MoneyDomain(r) # st.domain

Conflict(st, r) == st.domain # NoDomain /\ MoneyDomain(r) # st.domain

Moves(st, r) ==
  {f \in Present(r) : ~Conflict(st, r) /\ st.value[f] \notin {Null, r.value[f]}}

NextState(st, r) ==
  [value |-> [f \in Fields |-> IF f \in Present(r) THEN r.value[f] ELSE st.value[f]],
   domain |-> MoneyDomain(r),
   origin |-> [f \in Fields |-> IF f \in Present(r) THEN MoneyDomain(r) ELSE st.origin[f]],
   told |-> [f \in Fields |-> CASE f \in Moves(st, r) -> TRUE
                                [] f \in Present(r) /\ Conflict(st, r) -> FALSE
                                [] OTHER -> st.told[f]]]

EventOf(st, r, f) ==
  [previous |-> st.value[f], current |-> r.value[f], at |-> r.at,
   from |-> st.origin[f], to |-> MoneyDomain(r)]

-----------------------------------------------------------------------------
Publish(r) ==
  /\ Len(raw) < MaxRows
  /\ raw' = Append(raw, r)
  /\ UNCHANGED <<done, planned, saved, jobVars, out, crashes>>

(* A batch starts, or starts again: detect_changes reads the group state.  *)
RunBatch(from, to) ==
  /\ pc' = "running"
  /\ todo' = from + 1..to /\ frame' = {}
  /\ work' = saved
  /\ emitted' = NoEvents

PlanBatch ==
  /\ pc = "idle"
  /\ planned' \in done + 1..Len(raw)
  /\ RunBatch(done, planned')
  /\ UNCHANGED <<raw, done, saved, out, crashes>>

TakeFrame ==
  /\ pc = "running" /\ frame = {} /\ todo # {}
  /\ frame' \in SUBSET todo \ {{}}
  /\ todo' = todo \ frame'
  /\ UNCHANGED <<raw, done, planned, saved, pc, work, emitted, out, crashes>>

(* The rows of a frame are diffed in the order of observed_at.             *)
DetectRow(o) ==
  /\ pc = "running"
  /\ o \in frame /\ \A q \in frame : raw[o].at <= raw[q].at
  /\ work' = NextState(work, raw[o])
  /\ emitted' = [f \in Fields |->
                   IF f \in Moves(work, raw[o])
                   THEN Append(emitted[f], EventOf(work, raw[o], f))
                   ELSE emitted[f]]
  /\ frame' = frame \ {o}
  /\ UNCHANGED <<raw, done, planned, saved, pc, todo, out, crashes>>

WriteEvent(f) ==
  /\ pc = "running" /\ todo = {} /\ frame = {}
  /\ emitted[f] # <<>>
  /\ out' = [out EXCEPT ![f] = Append(@, Head(emitted[f]))]
  /\ emitted' = [emitted EXCEPT ![f] = Tail(@)]
  /\ UNCHANGED <<raw, done, planned, saved, pc, todo, frame, work, crashes>>

(* Mutants: the batch is committed before its events are in the topic; the *)
(* committed offset is one too far.                                        *)
CommitBatchEarly ==
  /\ pc = "running" /\ todo = {} /\ frame = {}
  /\ saved' = work
  /\ done' = planned
  /\ pc' = "idle"
  /\ UNCHANGED <<raw, planned, todo, frame, work, emitted, out, crashes>>

CommitBatchTooFar ==
  /\ pc = "running" /\ todo = {} /\ frame = {} /\ emitted = NoEvents
  /\ saved' = work
  /\ done' = planned + 1
  /\ pc' = "idle"
  /\ UNCHANGED <<raw, planned, todo, frame, work, emitted, out, crashes>>

CommitBatch ==
  /\ pc = "running" /\ todo = {} /\ frame = {} /\ emitted = NoEvents
  /\ saved' = work
  /\ done' = planned
  /\ pc' = "idle"
  /\ UNCHANGED <<raw, planned, todo, frame, work, emitted, out, crashes>>

(* The driver or the task dies: only the checkpoint and the topics remain. *)
Crash ==
  /\ pc # "down" /\ crashes < MaxCrashes
  /\ crashes' = crashes + 1
  /\ pc' = "down"
  /\ todo' = {} /\ frame' = {} /\ emitted' = NoEvents /\ work' = NewState
  /\ UNCHANGED <<raw, done, planned, saved, out>>

(* A planned batch that was not committed runs again.                      *)
Restart ==
  /\ pc = "down"
  /\ IF planned > done
     THEN RunBatch(done, planned)
     ELSE pc' = "idle" /\ UNCHANGED <<todo, frame, work, emitted>>
  /\ UNCHANGED <<raw, done, planned, saved, out, crashes>>

(* The checkpoint is by default in the container's /tmp: a container that   *)
(* is created anew has neither offsets nor state, and starts at "earliest". *)
LoseCheckpoint ==
  /\ pc = "down"
  /\ done' = 0 /\ planned' = 0 /\ saved' = NewState
  /\ UNCHANGED <<raw, jobVars, out, crashes>>

Next ==
  \/ \E r \in Rows : Publish(r)
  \/ \E o \in frame : DetectRow(o)
  \/ \E f \in Fields : WriteEvent(f)
  \/ PlanBatch \/ TakeFrame \/ CommitBatch \/ Crash \/ Restart \/ LoseCheckpoint

Spec == Init /\ [][Next]_vars

-----------------------------------------------------------------------------
(* Properties.                                                             *)

(* "never compare prices across currencies" (docs/DECISIONS.md),           *)
(* "money-domain-safe" (stg_price_changes.sql): the two prices of an event *)
(* were read in one money domain.                                          *)
PricesAreComparable ==
  \A f \in Fields \cap MoneyFields : \A i \in 1..Len(out[f]) :
    out[f][i].from = out[f][i].to

(* What holds of every source, of rows without a price and of books in     *)
(* several currencies: an event compares prices of two domains only if the *)
(* topic has a row of the later domain that lacks the field.  Such a row   *)
(* makes its domain the key's and leaves the other domain's price in place.*)
MixesNeedGaps ==
  \A f \in Fields \cap MoneyFields : \A i \in 1..Len(out[f]) :
    LET e == out[f][i] IN
    e.from # e.to =>
      \E o \in 1..Len(raw) : MoneyDomain(raw[o]) = e.to /\ f \notin Present(raw[o])

(* However often a batch runs again, in whatever order its rows come back, *)
(* and if the whole topic is read anew without a checkpoint, the topic of  *)
(* events agrees with the committed state once that is committed: a value  *)
(* that was reached by an event is the current value of the field's last   *)
(* event.                                                                  *)
FeedAgreesAtCommit ==
  done = planned =>
    \A f \in Fields : saved.told[f] =>
      out[f] # <<>> /\ out[f][Len(out[f])].current = saved.value[f]
=============================================================================
