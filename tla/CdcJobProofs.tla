---------------------------- MODULE CdcJobProofs ----------------------------
(***************************************************************************)
(* How far the money-domain fix of detect_changes reaches: an event can    *)
(* compare prices of two domains only across a row that lacks the price,   *)
(* for any values, rows, frames, crashes and reruns.  And: the feed of     *)
(* events agrees with the committed state.                                 *)
(***************************************************************************)
EXTENDS CdcJob, TLAPS

USE CdcAssumption

LEMMA RowFacts ==
  ASSUME NEW r \in Rows
  PROVE  /\ r.endpoint \in Endpoints
         /\ r.at \in 1..MaxTime
         /\ r.value \in [Fields -> Values \cup {Null}]
         /\ MoneyDomain(r) \in Domains
<1>1. /\ r.endpoint \in Endpoints
      /\ r.at \in 1..MaxTime
      /\ r.value \in [Fields -> Values \cup {Null}]
      /\ r.currency \in Requested \cup Reported \cup {Null}
  BY DEF Rows
<1> QED
  BY <1>1 DEF MoneyDomain, Domains

LEMMA NoDomainIsNew == NoDomain \notin Domains
BY DEF NoDomain, Domains

LEMMA StateStep ==
  ASSUME NEW st \in States, NEW r \in Rows
  PROVE  NextState(st, r) \in States
<1>1. [f \in Fields |-> IF f \in Present(r) THEN r.value[f] ELSE st.value[f]]
        \in [Fields -> Values \cup {Null}]
  BY RowFacts DEF States
<1>2. [f \in Fields |-> IF f \in Present(r) THEN MoneyDomain(r) ELSE st.origin[f]]
        \in [Fields -> Domains \cup {NoDomain}]
  BY RowFacts DEF States
<1>3. ASSUME NEW f \in Fields
      PROVE  (CASE f \in Moves(st, r) -> TRUE
                [] f \in Present(r) /\ Conflict(st, r) -> FALSE
                [] OTHER -> st.told[f]) \in BOOLEAN
  <2>1. st.told[f] \in BOOLEAN
    BY DEF States
  <2>2. CASE f \in Moves(st, r)
    <3>1. ~Conflict(st, r)
      BY <2>2 DEF Moves
    <3> QED
      BY <2>2, <3>1
  <2>3. CASE f \notin Moves(st, r) /\ (f \in Present(r) /\ Conflict(st, r))
    BY <2>3
  <2>4. CASE f \notin Moves(st, r) /\ ~(f \in Present(r) /\ Conflict(st, r))
    BY <2>1, <2>4
  <2> QED
    BY <2>2, <2>3, <2>4
<1>4. MoneyDomain(r) \in Domains \cup {NoDomain}
  BY RowFacts
<1> QED
  BY <1>1, <1>2, <1>3, <1>4 DEF States, NextState

LEMMA EventStep ==
  ASSUME NEW st \in States, NEW r \in Rows, NEW f \in Moves(st, r)
  PROVE  EventOf(st, r, f) \in Events
<1>1. f \in Fields /\ r.value[f] # Null /\ st.value[f] # Null
  BY DEF Moves, Present
<1>2. st.value[f] \in Values /\ r.value[f] \in Values /\ r.at \in 1..MaxTime
      /\ st.origin[f] \in Domains \cup {NoDomain} /\ MoneyDomain(r) \in Domains
  BY <1>1, RowFacts DEF States
<1> QED
  BY <1>2 DEF EventOf, Events

LEMMA NewStateType == NewState \in States
BY DEF NewState, States

-----------------------------------------------------------------------------
LEMMA InitTypeOK == Init => TypeOK
<1> SUFFICES ASSUME Init PROVE TypeOK
  OBVIOUS
<1>1. raw \in Seq(Rows) /\ Len(raw) = 0
  BY DEF Init
<1>2. NoEvents \in [Fields -> Seq(Events)]
  BY DEF NoEvents
<1> QED
  BY <1>1, <1>2, NewStateType DEF Init, TypeOK

LEMMA TypeInductive == TypeOK /\ [Next]_vars => TypeOK'
<1> SUFFICES ASSUME TypeOK, [Next]_vars
             PROVE  TypeOK'
  OBVIOUS
<1>0. NoEvents \in [Fields -> Seq(Events)]
  BY DEF NoEvents
<1> USE DEF TypeOK, jobVars
<1>1. ASSUME NEW r \in Rows, Publish(r)
      PROVE  TypeOK'
  <2>1. raw' \in Seq(Rows) /\ Len(raw') = Len(raw) + 1
    BY <1>1 DEF Publish
  <2>2. /\ UNCHANGED <<done, planned, saved, pc, todo, frame, work>>
        /\ UNCHANGED <<emitted, out, crashes>>
    BY <1>1 DEF Publish
  <2>3. done' \in 0..Len(raw') /\ planned' \in done'..Len(raw')
    BY <2>1, <2>2
  <2>4. todo' \in SUBSET (1..Len(raw')) /\ frame' \in SUBSET (1..Len(raw'))
    BY <2>1, <2>2
  <2> QED
    BY <2>1, <2>2, <2>3, <2>4
<1>2. ASSUME NEW o \in frame, DetectRow(o)
      PROVE  TypeOK'
  <2>1. raw[o] \in Rows
    OBVIOUS
  <2>2. work' \in States
    BY <1>2, <2>1, StateStep DEF DetectRow
  <2>3. ASSUME NEW f \in Fields
        PROVE  (IF f \in Moves(work, raw[o])
                THEN Append(emitted[f], EventOf(work, raw[o], f))
                ELSE emitted[f]) \in Seq(Events)
    BY <2>1, EventStep
  <2>4. emitted' \in [Fields -> Seq(Events)]
    BY <1>2, <2>3 DEF DetectRow
  <2> QED
    BY <1>2, <2>2, <2>4 DEF DetectRow
<1>3. ASSUME NEW f \in Fields, WriteEvent(f)
      PROVE  TypeOK'
  <2>1. emitted[f] \in Seq(Events) /\ emitted[f] # <<>>
    BY <1>3 DEF WriteEvent
  <2>2. Head(emitted[f]) \in Events /\ Tail(emitted[f]) \in Seq(Events)
    BY <2>1
  <2>3. emitted' \in [Fields -> Seq(Events)]
    BY <1>3, <2>2 DEF WriteEvent
  <2>4. Append(out[f], Head(emitted[f])) \in Seq(Events)
    BY <2>2
  <2>5. out' \in [Fields -> Seq(Events)]
    BY <1>3, <2>4 DEF WriteEvent
  <2> QED
    BY <1>3, <2>3, <2>5 DEF WriteEvent
<1>4. CASE PlanBatch
  <2>1. planned' \in done + 1..Len(raw)
    BY <1>4 DEF PlanBatch
  <2>2. todo' \in SUBSET (1..Len(raw)) /\ frame' \in SUBSET (1..Len(raw))
    BY <1>4, <2>1 DEF PlanBatch, RunBatch
  <2>3. /\ pc' = "running" /\ work' = saved /\ emitted' = NoEvents
        /\ UNCHANGED <<raw, done, saved, out, crashes>>
    BY <1>4 DEF PlanBatch, RunBatch
  <2> QED
    BY <1>0, <2>1, <2>2, <2>3
<1>5. CASE TakeFrame
  BY <1>5 DEF TakeFrame
<1>6. CASE CommitBatch
  BY <1>6 DEF CommitBatch
<1>7. CASE Crash
  BY <1>0, <1>7, NewStateType DEF Crash
<1>8. CASE Restart
  <2>1. UNCHANGED <<raw, done, planned, saved, out, crashes>>
    BY <1>8 DEF Restart
  <2>2. CASE planned > done
    <3>1. RunBatch(done, planned)
      BY <1>8, <2>2 DEF Restart
    <3>2. todo' \in SUBSET (1..Len(raw)) /\ frame' \in SUBSET (1..Len(raw))
      BY <3>1 DEF RunBatch
    <3>3. pc' = "running" /\ work' = saved /\ emitted' = NoEvents
      BY <3>1 DEF RunBatch
    <3> QED
      BY <1>0, <2>1, <3>2, <3>3
  <2>3. CASE ~(planned > done)
    BY <1>8, <2>1, <2>3 DEF Restart
  <2> QED
    BY <2>2, <2>3
<1>9. CASE LoseCheckpoint
  BY <1>9, NewStateType DEF LoseCheckpoint
<1>10. CASE UNCHANGED vars
  BY <1>10 DEF vars
<1> QED
  BY <1>1, <1>2, <1>3, <1>4, <1>5, <1>6, <1>7, <1>8, <1>9, <1>10 DEF Next

(* Every variable keeps its type: batches stay within the topic, and what  *)
(* detect_changes emits for a present field is an event of two values.     *)
THEOREM TypeCorrect == Spec => []TypeOK
<1> QED
  BY InitTypeOK, TypeInductive, PTL DEF Spec

-----------------------------------------------------------------------------
(* Where mixes come from: a value was read in the domain that the state    *)
(* remembers, unless a row without the field made that the domain.  Rows   *)
(* stay in the topic, so what explains a state, or an event, does so for   *)
(* good.                                                                   *)

GapIn(rows, d, f) ==
  \E o \in 1..Len(rows) : MoneyDomain(rows[o]) = d /\ f \notin Present(rows[o])

Coherent(rows, st) ==
  \A f \in Fields : st.value[f] # Null =>
    st.domain # NoDomain /\ (st.origin[f] # st.domain => GapIn(rows, st.domain, f))

Explained(rows, e, f) == e.from # e.to => GapIn(rows, e.to, f)

AllExplained(rows, topic) ==
  \A f \in Fields : \A i \in 1..Len(topic[f]) : Explained(rows, topic[f][i], f)

DomainInv ==
  /\ Coherent(raw, saved) /\ Coherent(raw, work)
  /\ AllExplained(raw, emitted) /\ AllExplained(raw, out)

LEMMA CoherentStep ==
  ASSUME NEW rows, NEW o \in 1..Len(rows), rows[o] \in Rows,
         NEW st \in States, Coherent(rows, st)
  PROVE  Coherent(rows, NextState(st, rows[o]))
<1> DEFINE r == rows[o]
           nx == NextState(st, r)
<1>1. /\ nx.domain = MoneyDomain(r)
      /\ \A f \in Fields : f \in Present(r) => nx.origin[f] = MoneyDomain(r)
  BY DEF NextState
<1>2. nx.domain # NoDomain
  BY <1>1, RowFacts, NoDomainIsNew
<1>3. \A f \in Fields : f \notin Present(r) => GapIn(rows, nx.domain, f)
  BY <1>1 DEF GapIn
<1> HIDE DEF nx, r
<1>4. Coherent(rows, nx)
  BY <1>1, <1>2, <1>3 DEF Coherent
<1> QED
  BY <1>4 DEF nx, r

LEMMA EventIsExplained ==
  ASSUME NEW rows, NEW st \in States, NEW r \in Rows, Coherent(rows, st),
         NEW f \in Moves(st, r)
  PROVE  Explained(rows, EventOf(st, r, f), f)
<1>1. f \in Fields /\ st.value[f] # Null /\ ~Conflict(st, r)
  BY DEF Moves, Present
<1>2. st.domain # NoDomain /\ (st.origin[f] # st.domain => GapIn(rows, st.domain, f))
  BY <1>1 DEF Coherent
<1>3. MoneyDomain(r) = st.domain
  BY <1>1, <1>2 DEF Conflict
<1> QED
  BY <1>2, <1>3 DEF EventOf, Explained

(* A row that is published takes no explanation away.                      *)
LEMMA ExplanationsStay ==
  ASSUME NEW rows \in Seq(Rows), NEW r \in Rows
  PROVE  /\ \A st : Coherent(rows, st) => Coherent(Append(rows, r), st)
         /\ \A topic : AllExplained(rows, topic) => AllExplained(Append(rows, r), topic)
<1> DEFINE more == Append(rows, r)
<1>1. \A o \in 1..Len(rows) : o \in 1..Len(more) /\ more[o] = rows[o]
  OBVIOUS
<1> HIDE DEF more
<1>2. \A d, f : GapIn(rows, d, f) => GapIn(more, d, f)
  BY <1>1 DEF GapIn
<1>3. /\ \A st : Coherent(rows, st) => Coherent(more, st)
      /\ \A topic : AllExplained(rows, topic) => AllExplained(more, topic)
  BY <1>2 DEF Coherent, Explained, AllExplained
<1> QED
  BY <1>3 DEF more

LEMMA AtTheStart ==
  \A rows : Coherent(rows, NewState) /\ AllExplained(rows, NoEvents)
BY DEF Coherent, NewState, AllExplained, NoEvents

LEMMA DomainInductive ==
  ASSUME TypeOK, DomainInv, [Next]_vars
  PROVE  DomainInv'
<1> USE DEF DomainInv, TypeOK, jobVars
<1>1. ASSUME NEW o \in frame, DetectRow(o)
      PROVE  DomainInv'
  <2>1. o \in 1..Len(raw) /\ raw[o] \in Rows
    OBVIOUS
  <2>2. raw' = raw /\ work' = NextState(work, raw[o]) /\ UNCHANGED <<saved, out>>
    BY <1>1 DEF DetectRow
  <2>3. Coherent(raw, work')
    BY <2>1, <2>2, CoherentStep
  <2>4. AllExplained(raw, emitted')
    <3> SUFFICES ASSUME NEW f \in Fields, NEW i \in 1..Len(emitted'[f])
                 PROVE  Explained(raw, emitted'[f][i], f)
      BY DEF AllExplained
    <3>1. CASE f \notin Moves(work, raw[o])
      <4>1. emitted'[f] = emitted[f]
        BY <1>1, <3>1 DEF DetectRow
      <4> QED
        BY <4>1 DEF AllExplained
    <3>2. CASE f \in Moves(work, raw[o])
      <4> DEFINE e == EventOf(work, raw[o], f)
      <4>1. emitted'[f] = Append(emitted[f], e) /\ emitted[f] \in Seq(Events)
        BY <1>1, <3>2 DEF DetectRow
      <4>2. Explained(raw, e, f)
        BY <2>1, <3>2, EventIsExplained
      <4>3. \A j \in 1..Len(emitted[f]) : Explained(raw, emitted[f][j], f)
        BY DEF AllExplained
      <4>4. e \in Events
        BY <2>1, <3>2, EventStep
      <4> HIDE DEF e
      <4>5. i = Len(emitted[f]) + 1 \/ i \in 1..Len(emitted[f])
        BY <4>1, <4>4
      <4> QED
        BY <4>1, <4>2, <4>3, <4>4, <4>5
    <3> QED
      BY <3>1, <3>2
  <2> QED
    BY <2>2, <2>3, <2>4
<1>2. ASSUME NEW g \in Fields, WriteEvent(g)
      PROVE  DomainInv'
  <2>1. emitted[g] \in Seq(Events) /\ emitted[g] # <<>> /\ out[g] \in Seq(Events)
    BY <1>2 DEF WriteEvent
  <2>2. UNCHANGED <<raw, saved, work>>
    BY <1>2 DEF WriteEvent
  <2>3. ASSUME NEW f \in Fields, NEW i \in 1..Len(out'[f])
        PROVE  Explained(raw, out'[f][i], f)
    <3>1. CASE f # g
      BY <1>2, <3>1 DEF WriteEvent, AllExplained
    <3>2. CASE f = g
      <4>1. out'[g] = Append(out[g], Head(emitted[g])) /\ Head(emitted[g]) = emitted[g][1]
        BY <1>2, <2>1 DEF WriteEvent
      <4>2. Explained(raw, emitted[g][1], g) /\ emitted[g][1] \in Events
        BY <2>1 DEF AllExplained
      <4>3. \A j \in 1..Len(out[g]) : Explained(raw, out[g][j], g)
        BY DEF AllExplained
      <4>4. i = Len(out[g]) + 1 \/ i \in 1..Len(out[g])
        BY <2>1, <3>2, <4>1, <4>2
      <4> QED
        BY <2>1, <3>2, <4>1, <4>2, <4>3, <4>4
    <3> QED
      BY <3>1, <3>2
  <2>4. ASSUME NEW f \in Fields, NEW i \in 1..Len(emitted'[f])
        PROVE  Explained(raw, emitted'[f][i], f)
    <3>1. CASE f # g
      BY <1>2, <3>1 DEF WriteEvent, AllExplained
    <3>2. CASE f = g
      <4>1. emitted'[g] = Tail(emitted[g])
        BY <1>2 DEF WriteEvent
      <4>2. i + 1 \in 1..Len(emitted[g]) /\ emitted'[g][i] = emitted[g][i + 1]
        BY <2>1, <3>2, <4>1
      <4> QED
        BY <3>2, <4>2 DEF AllExplained
    <3> QED
      BY <3>1, <3>2
  <2>5. AllExplained(raw, out') /\ AllExplained(raw, emitted')
    BY <2>3, <2>4 DEF AllExplained
  <2> QED
    BY <2>2, <2>5
<1>3. CASE PlanBatch \/ Restart
  <2>1. UNCHANGED <<raw, saved, out>>
    BY <1>3 DEF PlanBatch, Restart
  <2>2. (work' = saved /\ emitted' = NoEvents) \/ UNCHANGED <<work, emitted>>
    BY <1>3 DEF PlanBatch, Restart, RunBatch
  <2> QED
    BY <2>1, <2>2, AtTheStart
<1>4. CASE Crash
  BY <1>4, AtTheStart DEF Crash
<1>5. CASE CommitBatch
  BY <1>5 DEF CommitBatch
<1>6. CASE TakeFrame \/ UNCHANGED vars
  BY <1>6 DEF TakeFrame, vars
<1>7. CASE LoseCheckpoint
  BY <1>7, AtTheStart DEF LoseCheckpoint
<1>8. ASSUME NEW r \in Rows, Publish(r)
      PROVE  DomainInv'
  <2>1. raw' = Append(raw, r) /\ UNCHANGED <<saved, work, emitted, out>>
    BY <1>8 DEF Publish
  <2> QED
    BY <2>1, ExplanationsStay
<1> QED
  BY <1>1, <1>2, <1>3, <1>4, <1>5, <1>6, <1>7, <1>8 DEF Next

(* "never compare prices across currencies" (docs/DECISIONS.md): an event  *)
(* that does needs a row of its domain that lacks the field, for rows with *)
(* and without prices, books in any currencies, and any crashes, frames    *)
(* and reruns.  CdcJob_gap shows such an event.                            *)
THEOREM MixesAlwaysNeedGaps == Spec => []MixesNeedGaps
<1>1. Init => TypeOK /\ DomainInv
  BY InitTypeOK, AtTheStart DEF Init, DomainInv
<1>2. TypeOK /\ DomainInv /\ [Next]_vars => TypeOK' /\ DomainInv'
  BY TypeInductive, DomainInductive
<1>3. DomainInv => MixesNeedGaps
  BY DEF DomainInv, AllExplained, Explained, GapIn, MixesNeedGaps
<1> QED
  BY <1>1, <1>2, <1>3, PTL DEF Spec

-----------------------------------------------------------------------------
(* Why the feed agrees.  A batch may run several times and in another      *)
(* order each time, so what an aborted run wrote need not be what the      *)
(* committed run decides.  But if the committed run emits nothing for a    *)
(* field and still has it as told, then no row of the batch disagreed with *)
(* the committed value (Quiet), so no run of the batch wrote anything.     *)

LastIs(events, v) == events # <<>> /\ events[Len(events)].current = v

Batch == done + 1..planned

QuietIn(f, offsets) ==
  \A o \in offsets : f \in Present(raw[o]) => raw[o].value[f] = saved.value[f]

Processed == Batch \ (todo \cup frame)

(* What the running batch has decided for f, and what it has written.      *)
Untouched(f) ==
  saved.told[f] /\ work.value[f] = saved.value[f] /\ QuietIn(f, Processed)

WorkFeed(f) ==
  work.told[f] =>
    /\ work.value[f] # Null
    /\ IF emitted[f] # <<>> THEN LastIs(emitted[f], work.value[f])
       ELSE \/ Untouched(f)
            \/ todo = {} /\ frame = {} /\ LastIs(out[f], work.value[f])

QuietFeed(f) ==
  saved.told[f] /\ QuietIn(f, Batch) => emitted[f] = <<>> /\ work.value[f] = saved.value[f]

SavedFeed(f) ==
  saved.told[f] =>
    saved.value[f] # Null /\ (QuietIn(f, Batch) => LastIs(out[f], saved.value[f]))

FeedInv ==
  /\ pc = "idle" => done = planned
  /\ \A f \in Fields : SavedFeed(f)
  /\ pc = "running" =>
       /\ todo \cup frame \subseteq Batch
       /\ \A f \in Fields : WorkFeed(f) /\ QuietFeed(f)

LEMMA LastOfAppend ==
  ASSUME NEW S, NEW s \in Seq(S), NEW e \in S
  PROVE  Append(s, e) # <<>> /\ Append(s, e)[Len(Append(s, e))] = e
OBVIOUS

LEMMA LastOfTail ==
  ASSUME NEW S, NEW s \in Seq(S), s # <<>>
  PROVE  /\ Len(s) = 1 => Tail(s) = <<>> /\ s[Len(s)] = Head(s)
         /\ Len(s) # 1 => Tail(s) # <<>> /\ Tail(s)[Len(Tail(s))] = s[Len(s)]
<1>1. Len(s) \in Nat /\ Len(s) > 0 /\ Len(Tail(s)) = Len(s) - 1
  OBVIOUS
<1>2. ASSUME Len(s) = 1
      PROVE  Tail(s) = <<>> /\ s[Len(s)] = Head(s)
  BY <1>1, <1>2
<1>3. ASSUME Len(s) # 1
      PROVE  Tail(s) # <<>> /\ Tail(s)[Len(Tail(s))] = s[Len(s)]
  <2>1. Len(Tail(s)) \in 1..Len(Tail(s)) /\ Len(Tail(s)) # 0
    BY <1>1, <1>3
  <2>2. \A i \in 1..Len(Tail(s)) : Tail(s)[i] = s[i + 1]
    OBVIOUS
  <2>3. Tail(s)[Len(Tail(s))] = s[Len(Tail(s)) + 1]
    BY <2>1, <2>2
  <2>4. Len(Tail(s)) + 1 = Len(s)
    BY <1>1
  <2>5. Tail(s) # <<>>
    <3>1. Len(<<>>) = 0
      OBVIOUS
    <3> QED
      BY <2>1, <3>1
  <2> QED
    BY <2>3, <2>4, <2>5
<1> QED
  BY <1>2, <1>3

(* What one row does to one field: it moves it, reseeds it, or leaves what *)
(* is known of it.                                                         *)
LEMMA RowEffect ==
  ASSUME NEW st \in States, NEW r \in Rows, NEW f \in Fields,
         st.told[f] => st.value[f] # Null
  PROVE  LET nx == NextState(st, r) IN
         \/ f \in Moves(st, r) /\ f \in Present(r) /\ r.value[f] # st.value[f]
              /\ nx.value[f] = r.value[f] /\ r.value[f] # Null
         \/ f \notin Moves(st, r) /\ f \in Present(r) /\ ~nx.told[f]
              /\ nx.value[f] = r.value[f]
         \/ f \notin Moves(st, r) /\ (f \in Present(r) => r.value[f] = st.value[f])
              /\ nx.value[f] = st.value[f] /\ nx.told[f] = st.told[f]
<1> DEFINE nx == NextState(st, r)
<1>1. nx.value[f] = IF f \in Present(r) THEN r.value[f] ELSE st.value[f]
  BY DEF NextState
<1>2. nx.told[f] = CASE f \in Moves(st, r) -> TRUE
                     [] f \in Present(r) /\ Conflict(st, r) -> FALSE
                     [] OTHER -> st.told[f]
  BY DEF NextState
<1>3. st.told[f] \in BOOLEAN
  BY DEF States
<1> HIDE DEF nx
<1>4. CASE f \in Moves(st, r)
  <2>1. f \in Present(r) /\ r.value[f] # st.value[f] /\ r.value[f] # Null
    BY <1>4 DEF Moves, Present
  <2> QED
    BY <1>1, <1>4, <2>1 DEF nx
<1>5. CASE f \notin Moves(st, r) /\ f \in Present(r) /\ Conflict(st, r)
  <2>1. ~nx.told[f]
    BY <1>2, <1>5
  <2> QED
    BY <1>1, <1>5, <2>1 DEF nx
<1>6. CASE f \notin Moves(st, r) /\ ~(f \in Present(r) /\ Conflict(st, r))
  <2>1. nx.told[f] = st.told[f]
    BY <1>2, <1>6
  <2>2. CASE f \notin Present(r)
    BY <1>1, <1>6, <2>1, <2>2 DEF nx
  <2>3. CASE f \in Present(r) /\ st.value[f] = r.value[f]
    BY <1>1, <1>6, <2>1, <2>3 DEF nx
  <2>4. CASE f \in Present(r) /\ st.value[f] # r.value[f]
    <3>1. st.value[f] = Null
      BY <1>6, <2>4 DEF Moves
    <3>2. ~nx.told[f]
      BY <1>3, <2>1, <3>1
    <3> QED
      BY <1>1, <1>6, <2>4, <3>2 DEF nx
  <2> QED
    BY <2>2, <2>3, <2>4
<1> QED
  BY <1>4, <1>5, <1>6

LEMMA FeedAfterRow ==
  ASSUME TypeOK, FeedInv, NEW o \in frame, DetectRow(o)
  PROVE  FeedInv'
<1> USE DEF TypeOK, jobVars
<1>1. /\ pc = "running" /\ UNCHANGED <<raw, done, planned, saved, pc, todo, out>>
      /\ frame' = frame \ {o}
      /\ work' = NextState(work, raw[o])
      /\ raw[o] \in Rows
  BY DEF DetectRow
<1>2. /\ todo \cup frame \subseteq Batch /\ Batch' = Batch
      /\ (todo \cup frame)' \subseteq Batch'
      /\ Processed' \subseteq Processed \cup {o}
  BY <1>1 DEF FeedInv, Batch, Processed
<1>3. \A f \in Fields : SavedFeed(f)'
  BY <1>1, <1>2 DEF FeedInv, SavedFeed, QuietIn, LastIs
<1>4. ASSUME NEW f \in Fields
      PROVE  WorkFeed(f)' /\ QuietFeed(f)'
  <2>1. WorkFeed(f) /\ QuietFeed(f)
    BY <1>1 DEF FeedInv
  <2>2. work.told[f] => work.value[f] # Null
    BY <2>1 DEF WorkFeed
  <2>3. emitted'[f] = IF f \in Moves(work, raw[o])
                      THEN Append(emitted[f], EventOf(work, raw[o], f))
                      ELSE emitted[f]
    BY DEF DetectRow
  <2>4. QuietIn(f, Batch)' = QuietIn(f, Batch)
    BY <1>1, <1>2 DEF QuietIn
  <2>5. saved.told[f] /\ QuietIn(f, Batch) =>
          /\ emitted[f] = <<>> /\ work.value[f] = saved.value[f]
          /\ f \in Present(raw[o]) => raw[o].value[f] = saved.value[f]
    BY <1>2, <2>1 DEF QuietFeed, QuietIn
  <2>6. CASE /\ f \in Moves(work, raw[o]) /\ f \in Present(raw[o])
             /\ raw[o].value[f] # work.value[f]
             /\ work'.value[f] = raw[o].value[f] /\ raw[o].value[f] # Null
    <3> DEFINE e == EventOf(work, raw[o], f)
    <3>1. e \in Events /\ e.current = raw[o].value[f]
      BY <1>1, <2>6, EventStep DEF EventOf
    <3>2. emitted'[f] = Append(emitted[f], e) /\ emitted[f] \in Seq(Events)
      BY <2>3, <2>6
    <3> HIDE DEF e
    <3>3. LastIs(emitted'[f], work'.value[f])
      <4> DEFINE s == Append(emitted[f], e)
      <4>1. s # <<>> /\ s[Len(s)] = e
        BY <3>1, <3>2, LastOfAppend
      <4> QED
        BY <2>6, <3>1, <3>2, <4>1 DEF LastIs
    <3>4. WorkFeed(f)'
      BY <2>6, <3>3 DEF WorkFeed, LastIs
    <3>5. ~(saved.told[f] /\ QuietIn(f, Batch))
      BY <2>5, <2>6
    <3>6. QuietFeed(f)'
      BY <1>1, <2>4, <3>5 DEF QuietFeed
    <3> QED
      BY <3>4, <3>6
  <2>7. CASE /\ f \notin Moves(work, raw[o]) /\ f \in Present(raw[o])
             /\ ~work'.told[f] /\ work'.value[f] = raw[o].value[f]
    <3>1. WorkFeed(f)'
      BY <2>7 DEF WorkFeed
    <3>2. emitted'[f] = emitted[f]
      BY <2>3, <2>7
    <3>3. QuietFeed(f)'
      BY <1>1, <2>4, <2>5, <2>7, <3>2 DEF QuietFeed
    <3> QED
      BY <3>1, <3>3
  <2>8. CASE /\ f \notin Moves(work, raw[o])
             /\ f \in Present(raw[o]) => raw[o].value[f] = work.value[f]
             /\ work'.value[f] = work.value[f] /\ work'.told[f] = work.told[f]
    <3>1. emitted'[f] = emitted[f]
      BY <2>3, <2>8
    <3>2. QuietFeed(f)'
      BY <1>1, <2>4, <2>5, <2>8, <3>1 DEF QuietFeed
    <3>3. Untouched(f) => Untouched(f)'
      BY <1>1, <1>2, <2>8 DEF Untouched, QuietIn
    <3>4. WorkFeed(f)'
      BY <1>1, <2>1, <2>8, <3>1, <3>3 DEF WorkFeed, LastIs
    <3> QED
      BY <3>2, <3>4
  <2>9. work \in States
    OBVIOUS
  <2> QED
    BY <1>1, <2>2, <2>6, <2>7, <2>8, <2>9, RowEffect
<1> QED
  BY <1>1, <1>2, <1>3, <1>4 DEF FeedInv

LEMMA FeedAfterWrite ==
  ASSUME TypeOK, FeedInv, NEW g \in Fields, WriteEvent(g)
  PROVE  FeedInv'
<1> USE DEF TypeOK, jobVars
<1>1. /\ pc = "running" /\ todo = {} /\ frame = {} /\ emitted[g] # <<>>
      /\ UNCHANGED <<raw, done, planned, saved, pc, todo, frame, work>>
      /\ out' = [out EXCEPT ![g] = Append(@, Head(emitted[g]))]
      /\ emitted' = [emitted EXCEPT ![g] = Tail(@)]
  BY DEF WriteEvent
<1>2. Batch' = Batch /\ Processed' = Processed
  BY <1>1 DEF Batch, Processed
<1>3. emitted[g] \in Seq(Events) /\ out[g] \in Seq(Events) /\ Head(emitted[g]) \in Events
  BY <1>1
<1>4. WorkFeed(g) /\ QuietFeed(g)
  BY <1>1 DEF FeedInv
<1>5. \A f \in Fields : QuietIn(f, Batch)' = QuietIn(f, Batch)
  BY <1>1, <1>2 DEF QuietIn
<1>6. ~(saved.told[g] /\ QuietIn(g, Batch))
  BY <1>1, <1>4 DEF QuietFeed
<1>7. ASSUME NEW f \in Fields
      PROVE  SavedFeed(f)'
  <2>1. CASE f = g
    BY <1>1, <1>5, <1>6, <2>1 DEF SavedFeed, FeedInv
  <2>2. CASE f # g
    BY <1>1, <1>5, <2>2 DEF SavedFeed, FeedInv, LastIs
  <2> QED
    BY <2>1, <2>2
<1>8. ASSUME NEW f \in Fields
      PROVE  QuietFeed(f)'
  <2>1. CASE f = g
    BY <1>1, <1>5, <1>6, <2>1 DEF QuietFeed
  <2>2. CASE f # g
    BY <1>1, <1>5, <2>2 DEF QuietFeed, FeedInv
  <2> QED
    BY <2>1, <2>2
<1>9. ASSUME NEW f \in Fields
      PROVE  WorkFeed(f)'
  <2>1. CASE f = g /\ work.told[g]
    <3>1. LastIs(emitted[g], work.value[g]) /\ work.value[g] # Null
      BY <1>1, <1>4, <2>1 DEF WorkFeed
    <3>2. emitted'[g] = Tail(emitted[g]) /\ out'[g] = Append(out[g], Head(emitted[g]))
      BY <1>1
    <3>3. CASE Len(emitted[g]) = 1
      <4>1. emitted'[g] = <<>>
        BY <1>1, <1>3, <3>2, <3>3, LastOfTail, Zenon
      <4>2. Head(emitted[g]).current = work.value[g]
        BY <1>1, <1>3, <3>1, <3>3, LastOfTail, Zenon DEF LastIs
      <4>3. LastIs(out'[g], work.value[g])
        <5> DEFINE s == Append(out[g], Head(emitted[g]))
        <5>1. s # <<>> /\ s[Len(s)] = Head(emitted[g])
          BY <1>3, LastOfAppend
        <5> QED
          BY <3>2, <4>2, <5>1 DEF LastIs
      <4> QED
        BY <1>1, <2>1, <3>1, <4>1, <4>3 DEF WorkFeed
    <3>4. CASE Len(emitted[g]) # 1
      <4>1. /\ emitted'[g] # <<>>
            /\ emitted'[g][Len(emitted'[g])] = emitted[g][Len(emitted[g])]
        BY <1>1, <1>3, <3>2, <3>4, LastOfTail, Zenon
      <4>2. LastIs(emitted'[g], work.value[g])
        BY <3>1, <4>1 DEF LastIs
      <4> QED
        BY <1>1, <2>1, <3>1, <4>1, <4>2 DEF WorkFeed
    <3> QED
      BY <3>3, <3>4
  <2>2. CASE f = g /\ ~work.told[g]
    BY <1>1, <2>2 DEF WorkFeed
  <2>3. CASE f # g
    <3>1. emitted'[f] = emitted[f] /\ out'[f] = out[f] /\ WorkFeed(f)
      BY <1>1, <2>3 DEF FeedInv
    <3>2. Untouched(f) => Untouched(f)'
      BY <1>1, <1>2 DEF Untouched, QuietIn
    <3> QED
      BY <1>1, <3>1, <3>2 DEF WorkFeed, LastIs
  <2> QED
    BY <2>1, <2>2, <2>3
<1> QED
  BY <1>1, <1>2, <1>7, <1>8, <1>9 DEF FeedInv

LEMMA FeedAfterCommit ==
  ASSUME TypeOK, FeedInv, CommitBatch
  PROVE  FeedInv'
<1> USE DEF TypeOK, jobVars
<1>1. /\ pc = "running" /\ todo = {} /\ frame = {} /\ emitted = NoEvents
      /\ saved' = work /\ done' = planned /\ pc' = "idle"
      /\ UNCHANGED <<raw, planned, work, out>>
  BY DEF CommitBatch
<1>2. ASSUME NEW f \in Fields, work.told[f]
      PROVE  work.value[f] # Null /\ LastIs(out[f], work.value[f])
  <2>1. WorkFeed(f) /\ emitted[f] = <<>>
    BY <1>1 DEF FeedInv, NoEvents
  <2>2. CASE Untouched(f)
    <3>1. QuietIn(f, Batch)
      BY <1>1, <2>2 DEF Untouched, Processed
    <3> QED
      BY <1>2, <2>1, <2>2, <3>1 DEF FeedInv, SavedFeed, Untouched, WorkFeed
  <2>3. CASE ~Untouched(f)
    BY <1>2, <2>1, <2>3 DEF WorkFeed
  <2> QED
    BY <2>2, <2>3
<1>3. ASSUME NEW f \in Fields
      PROVE  SavedFeed(f)'
  BY <1>1, <1>2 DEF SavedFeed, LastIs
<1> QED
  BY <1>1, <1>3 DEF FeedInv

(* A batch that starts has processed nothing.                              *)
LEMMA FeedAtStart ==
  ASSUME TypeOK, FeedInv, RunBatch(done, planned'), UNCHANGED <<raw, done, saved, out>>,
         planned' \in Nat, planned' = planned \/ planned = done
  PROVE  FeedInv'
<1> USE DEF TypeOK, jobVars
<1>1. /\ pc' = "running" /\ todo' = Batch' /\ frame' = {}
      /\ work' = saved /\ emitted' = NoEvents
  BY DEF RunBatch, Batch
<1>2. Processed' = {}
  BY <1>1 DEF Processed
<1>3. \A f \in Fields : QuietIn(f, Batch)' => QuietIn(f, Batch)
  <2>1. CASE planned' = planned
    BY <2>1 DEF QuietIn, Batch
  <2>2. CASE planned = done
    <3>1. Batch = {}
      BY <2>2 DEF Batch
    <3> QED
      BY <3>1 DEF QuietIn
  <2> QED
    BY <2>1, <2>2
<1>4. ASSUME NEW f \in Fields
      PROVE  SavedFeed(f)'
  BY <1>3 DEF FeedInv, SavedFeed, LastIs
<1>5. ASSUME NEW f \in Fields
      PROVE  WorkFeed(f)' /\ QuietFeed(f)'
  <2>1. emitted'[f] = <<>> /\ work'.value[f] = saved'.value[f]
        /\ work'.told[f] = saved'.told[f]
    BY <1>1 DEF NoEvents
  <2>2. QuietIn(f, Processed)'
    BY <1>2 DEF QuietIn
  <2>3. SavedFeed(f)'
    BY <1>4
  <2>4. saved'.told[f] => saved'.value[f] # Null
    BY <2>3 DEF SavedFeed
  <2>5. WorkFeed(f)'
    BY <2>1, <2>2, <2>4 DEF WorkFeed, Untouched
  <2> QED
    BY <2>1, <2>5 DEF QuietFeed
<1> QED
  BY <1>1, <1>4, <1>5 DEF FeedInv

LEMMA FeedInductive ==
  ASSUME TypeOK, FeedInv, [Next]_vars
  PROVE  FeedInv'
<1> USE DEF TypeOK, jobVars
<1>1. ASSUME NEW r \in Rows, Publish(r)
      PROVE  FeedInv'
  <2>1. /\ UNCHANGED <<done, planned, saved, pc, todo, frame, work, emitted, out>>
        /\ Batch' = Batch /\ Processed' = Processed
        /\ Processed \subseteq Batch /\ Batch \subseteq 1..Len(raw)
    BY <1>1 DEF Publish, Batch, Processed
  <2>2. \A o \in Batch : raw'[o] = raw[o]
    BY <1>1, <2>1 DEF Publish
  <2>3. ASSUME NEW f \in Fields
        PROVE  /\ QuietIn(f, Batch)' = QuietIn(f, Batch)
               /\ QuietIn(f, Processed)' = QuietIn(f, Processed)
    BY <2>1, <2>2 DEF QuietIn
  <2>4. ASSUME NEW f \in Fields
        PROVE  (SavedFeed(f) => SavedFeed(f)') /\ (QuietFeed(f) => QuietFeed(f)')
    BY <2>1, <2>3 DEF SavedFeed, QuietFeed, LastIs
  <2>5. ASSUME NEW f \in Fields
        PROVE  WorkFeed(f) => WorkFeed(f)'
    BY <2>1, <2>3 DEF WorkFeed, Untouched, LastIs
  <2> QED
    BY <2>1, <2>4, <2>5 DEF FeedInv
<1>2. CASE PlanBatch
  <2>1. planned = done
    BY <1>2 DEF PlanBatch, FeedInv
  <2> QED
    BY <1>2, <2>1, FeedAtStart DEF PlanBatch
<1>3. CASE Restart
  <2>1. UNCHANGED <<raw, done, planned, saved, out>> /\ pc = "down"
    BY <1>3 DEF Restart
  <2>2. CASE planned > done
    <3>1. RunBatch(done, planned')
      BY <1>3, <2>1, <2>2 DEF Restart
    <3> QED
      BY <2>1, <3>1, FeedAtStart
  <2>3. CASE ~(planned > done)
    <3>1. pc' = "idle" /\ done = planned
      BY <1>3, <2>3 DEF Restart
    <3>2. \A f \in Fields : SavedFeed(f)'
      BY <2>1 DEF FeedInv, SavedFeed, QuietIn, Batch, LastIs
    <3> QED
      BY <2>1, <3>1, <3>2 DEF FeedInv
  <2> QED
    BY <2>2, <2>3
<1>4. CASE Crash
  <2>1. UNCHANGED <<raw, done, planned, saved, out>> /\ pc' = "down"
    BY <1>4 DEF Crash
  <2>2. \A f \in Fields : SavedFeed(f)'
    BY <2>1 DEF FeedInv, SavedFeed, QuietIn, Batch, LastIs
  <2> QED
    BY <2>1, <2>2 DEF FeedInv
<1>5. CASE LoseCheckpoint
  <2>1. pc' = "down" /\ saved' = NewState
    BY <1>5 DEF LoseCheckpoint
  <2>2. ASSUME NEW f \in Fields
        PROVE  SavedFeed(f)'
    <3>1. saved'.told[f] = FALSE
      BY <2>1 DEF NewState
    <3> QED
      BY <3>1 DEF SavedFeed
  <2> QED
    BY <2>1, <2>2 DEF FeedInv
<1>6. CASE TakeFrame
  <2>1. /\ UNCHANGED <<raw, done, planned, saved, pc, work, emitted, out>>
        /\ todo # {} /\ todo' \cup frame' = todo \cup frame
    BY <1>6 DEF TakeFrame
  <2>2. Batch' = Batch /\ Processed' = Processed
    BY <2>1 DEF Batch, Processed
  <2>3. ASSUME NEW f \in Fields
        PROVE  (SavedFeed(f) => SavedFeed(f)') /\ (QuietFeed(f) => QuietFeed(f)')
    BY <2>1, <2>2 DEF SavedFeed, QuietFeed, QuietIn, LastIs
  <2>4. ASSUME NEW f \in Fields
        PROVE  WorkFeed(f) => WorkFeed(f)'
    BY <2>1, <2>2 DEF WorkFeed, Untouched, QuietIn, LastIs
  <2> QED
    BY <2>1, <2>2, <2>3, <2>4 DEF FeedInv
<1>7. CASE UNCHANGED vars
  BY <1>7 DEF vars, FeedInv, SavedFeed, WorkFeed, QuietFeed, Untouched, QuietIn,
              Processed, Batch, LastIs
<1> QED
  BY <1>1, <1>2, <1>3, <1>4, <1>5, <1>6, <1>7, FeedAfterRow, FeedAfterWrite,
     FeedAfterCommit DEF Next

(* The feed agrees with the committed state: for any frames, crashes,      *)
(* reruns and lost checkpoints, a consumer that keeps each field's last    *)
(* event has the value that detect_changes will diff the next row with.    *)
THEOREM FeedAgrees == Spec => []FeedAgreesAtCommit
<1>1. Init => TypeOK /\ FeedInv
  <2> SUFFICES ASSUME Init PROVE FeedInv
    BY InitTypeOK
  <2>1. \A f \in Fields : ~saved.told[f]
    BY DEF Init, NewState
  <2> QED
    BY <2>1 DEF Init, FeedInv, SavedFeed
<1>2. TypeOK /\ FeedInv /\ [Next]_vars => TypeOK' /\ FeedInv'
  BY TypeInductive, FeedInductive
<1>3. TypeOK /\ FeedInv => FeedAgreesAtCommit
  <2> SUFFICES ASSUME TypeOK, FeedInv, done = planned, NEW f \in Fields, saved.told[f]
               PROVE  LastIs(out[f], saved.value[f])
    BY DEF FeedAgreesAtCommit, LastIs
  <2>1. Batch = {}
    BY DEF Batch, TypeOK
  <2>2. QuietIn(f, Batch)
    BY <2>1 DEF QuietIn
  <2> QED
    BY <2>2 DEF FeedInv, SavedFeed
<1> QED
  BY <1>1, <1>2, <1>3, PTL DEF Spec
=============================================================================
