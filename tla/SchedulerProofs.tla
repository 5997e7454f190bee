--------------------------- MODULE SchedulerProofs ---------------------------
(***************************************************************************)
(* The scheduler's types, and what its restarts keep of the resolver's     *)
(* cache, for any watchlist, catalogue and number of items.                *)
(***************************************************************************)
EXTENDS Scheduler, TLAPS

USE SchedulerAssumption

-----------------------------------------------------------------------------
(* Types.                                                                  *)

LEMMA NumbersAreNats == ASSUME NEW n \in Nat PROVE Numbers(n) \in Seq(Nat)
BY DEF Numbers

LEMMA EnqueueStep ==
  ASSUME TypeOK, NEW t \in Tiers, NEW n \in Nat, Enqueue(t, Numbers(n))
  PROVE  queue' \in [Tiers -> Seq(Nat)]
<1>1. queue[t] \o Numbers(n) \in Seq(Nat)
  BY NumbersAreNats DEF TypeOK
<1> QED
  BY <1>1 DEF Enqueue, TypeOK

(* The memory of a process that is gone has its types.                     *)
ProcessTypeOK ==
  /\ ClientTypeOK
  /\ cache \in SUBSET Items
  /\ up \in BOOLEAN
  /\ queue \in [Tiers -> Seq(Nat)]
  /\ doing \in [tier : Tiers, what : Nat]
  /\ stage \in Calls \cup Publishes \cup {"idle"}
  /\ counting \in 0..NumApps

LEMMA DieStep == ASSUME Die PROVE ProcessTypeOK'
<1>1. NoJobs \in [Tiers -> Seq(Nat)]
  BY DEF NoJobs
<1>2. NoJob \in [tier : Tiers, what : Nat]
  BY DEF NoJob, Tiers
<1>3. ClientTypeOK' /\ counting' \in 0..NumApps
  BY DEF Die, ClientTypeOK
<1>4. cache' \in SUBSET Items /\ up' \in BOOLEAN
  BY DEF Die
<1>5. stage' \in Calls \cup Publishes \cup {"idle"}
  BY DEF Die
<1>6. queue' \in [Tiers -> Seq(Nat)] /\ doing' \in [tier : Tiers, what : Nat]
  BY <1>1, <1>2 DEF Die
<1> QED
  BY <1>3, <1>4, <1>5, <1>6 DEF ProcessTypeOK

LEMMA BreakerAfter ==
  ASSUME ClientTypeOK
  PROVE  /\ AfterRefusal \subseteq {"closed", "halted", "banned"}
         /\ AfterRaise \subseteq {"closed", "halted", "banned"}
BY DEF ClientTypeOK, AfterRefusal, AfterRaise

(* Tier C's loop.                                                          *)
LEMMA CountStep ==
  ASSUME TypeOK, NEW n \in 0..MaxPages, NEW b \in AfterRefusal,
         StartSweepC \/ CountAnswered(n, b) \/ CountRaises
  PROVE  TypeOK'
<1>1. b \in {"closed", "halted", "banned"} /\ n \in Nat
  BY BreakerAfter DEF TypeOK
<1>2. CASE StartSweepC
  <2>1. CASE breaker # "closed"
    BY <1>2, <2>1, DieStep
    DEF StartSweepC, CountApp, TypeOK, ProcessTypeOK, ResolverTypeOK
  <2>2. CASE breaker = "closed"
    <3>1. asking' \in SUBSET Callers /\ counting' \in 0..NumApps /\ breaker' = breaker
      BY <1>2, <2>2 DEF StartSweepC, CountApp, TypeOK, ClientTypeOK
    <3>2. /\ up /\ up' = up /\ queue' = queue /\ doing' = doing /\ stage' = stage
          /\ cache' = cache /\ file' = file /\ torn' = torn /\ learnt' = learnt
      BY <1>2, <2>2 DEF StartSweepC, CountApp
    <3> QED
      BY <3>1, <3>2 DEF TypeOK, ClientTypeOK, ResolverTypeOK
  <2> QED
    BY <2>1, <2>2
<1>3. CASE CountAnswered(n, b)
  <2>1. CASE ~LastApp /\ b # "closed"
    BY <1>3, <2>1, DieStep
    DEF CountAnswered, CountApp, TypeOK, ProcessTypeOK, ResolverTypeOK
  <2>2. CASE LastApp \/ b = "closed"
    <3>0. asking' \in SUBSET Callers /\ breaker' = b
      BY <1>3, <2>2 DEF CountAnswered, CountApp, TypeOK, ClientTypeOK
    <3>1. counting' \in 0..NumApps
      <4>1. CASE LastApp
        BY <1>3, <4>1 DEF CountAnswered
      <4>2. CASE ~LastApp
        <5>1. counting' = counting + 1
          BY <1>3, <2>2, <4>2 DEF CountAnswered, CountApp
        <5>2. counting \in 0..NumApps /\ counting # NumApps
          BY <4>2 DEF LastApp, TypeOK
        <5> QED
          BY <5>1, <5>2
      <4> QED
        BY <4>1, <4>2
    <3>2. /\ up' /\ up' = up /\ doing' = doing /\ stage' = stage /\ cache' = cache
          /\ file' = file /\ torn' = torn /\ learnt' = learnt
      BY <1>3, <2>2 DEF CountAnswered, CountApp
    <3>3. queue' \in [Tiers -> Seq(Nat)]
      BY <1>1, <1>3, <3>2, EnqueueStep DEF CountAnswered, Tiers
    <3> QED
      BY <1>1, <3>0, <3>1, <3>2, <3>3 DEF TypeOK, ClientTypeOK, ResolverTypeOK
  <2> QED
    BY <2>1, <2>2
<1>4. CASE CountRaises
  BY <1>4, DieStep DEF CountRaises, TypeOK, ProcessTypeOK, ResolverTypeOK
<1> QED
  BY <1>2, <1>3, <1>4

(* The dispatcher.                                                         *)
LEMMA TakeStep == ASSUME TypeOK, NEW t \in Tiers, Take(t) PROVE TypeOK'
<1>1. Head(queue[t]) \in Nat /\ Tail(queue[t]) \in Seq(Nat)
  BY DEF Take, IsNext, TypeOK
<1>2. queue' \in [Tiers -> Seq(Nat)]
  BY <1>1 DEF Take, TypeOK
<1>3. stage' \in Calls \cup Publishes \cup {"idle"} /\ asking' \in SUBSET Callers
  BY DEF Take, Request, Calls, TypeOK, ClientTypeOK
<1>4. doing' \in [tier : Tiers, what : Nat]
  BY <1>1 DEF Take, NoJob, Tiers
<1> QED
  BY <1>2, <1>3, <1>4 DEF Take, TypeOK, ClientTypeOK, ResolverTypeOK, resolverVars

LEMMA PageStep ==
  ASSUME TypeOK, NEW found \in SUBSET Items, PageAnswered(found)
  PROVE  TypeOK'
<1>1. cache' \in SUBSET Items /\ file' \in SUBSET Items /\ learnt' \in SUBSET Items
  BY DEF PageAnswered, LearnFromPage, TypeOK, ResolverTypeOK
<1>2. stage' \in Calls \cup Publishes \cup {"idle"} /\ asking' \in SUBSET Callers
  BY DEF PageAnswered, Request, Calls, TypeOK, ClientTypeOK
<1>3. doing' \in [tier : Tiers, what : Nat]
  BY DEF PageAnswered, NoJob, Tiers, TypeOK
<1> QED
  BY <1>1, <1>2, <1>3
  DEF PageAnswered, LearnFromPage, TypeOK, ClientTypeOK, ResolverTypeOK

LEMMA PublishedStep ==
  ASSUME TypeOK, NEW found \in SUBSET Items, Published(found)
  PROVE  TypeOK'
<1>1. cache' \in SUBSET Items /\ file' \in SUBSET Items /\ learnt' \in SUBSET Items
  BY DEF Published, Seed, TypeOK, ResolverTypeOK
<1>2. stage' \in Calls \cup Publishes \cup {"idle"}
      /\ doing' \in [tier : Tiers, what : Nat]
  BY DEF Published, JobEnds, NoJob, Tiers
<1> QED
  BY <1>1, <1>2
  DEF Published, Seed, TypeOK, ClientTypeOK, ResolverTypeOK, marketVars

LEMMA OtherDispatchStep ==
  ASSUME TypeOK,
         \/ \E s \in Publishes : FetchAnswered(s)
         \/ PageRefused \/ CallRaises \/ PublishFails
  PROVE  TypeOK'
<1>1. ClientTypeOK'
  BY BreakerAfter
  DEF FetchAnswered, PageRefused, CallRaises, PublishFails, TypeOK, ClientTypeOK,
      marketVars
<1>2. stage' \in Calls \cup Publishes \cup {"idle"}
      /\ doing' \in [tier : Tiers, what : Nat]
  BY DEF FetchAnswered, PageRefused, CallRaises, PublishFails, JobEnds, NoJob,
         Tiers, TypeOK
<1>3. /\ queue' = queue /\ up' = up /\ counting' = counting /\ learnt' = learnt
      /\ cache' = cache /\ file' = file /\ torn' = torn
  BY DEF FetchAnswered, PageRefused, CallRaises, PublishFails, resolverVars
<1> QED
  BY <1>1, <1>2, <1>3 DEF TypeOK, ResolverTypeOK

(* The rest of Next.                                                       *)
LEMMA SweepStep == ASSUME TypeOK, SweepA \/ SweepB PROVE TypeOK'
<1>1. NumApps * TopPages \in Nat /\ NumWatched \in Nat
  OBVIOUS
<1>2. queue' \in [Tiers -> Seq(Nat)]
  BY <1>1, EnqueueStep DEF SweepA, SweepB, Tiers
<1> QED
  BY <1>2 DEF SweepA, SweepB, TypeOK, ClientTypeOK, ResolverTypeOK, marketVars,
              resolverVars

LEMMA ProcessStep ==
  ASSUME TypeOK, NEW found \in SUBSET Items,
         Kill \/ KillWhileSaving(found) \/ Restart \/ RemoveFile \/ BreakerMoves
  PROVE  TypeOK'
<1>1. CASE Kill
  BY <1>1, DieStep DEF Kill, TypeOK, ProcessTypeOK, ResolverTypeOK
<1>2. CASE KillWhileSaving(found)
  <2>1. torn' \in BOOLEAN /\ file' \in SUBSET Items
    BY <1>2 DEF KillWhileSaving, SaveCutShort, TypeOK, ResolverTypeOK
  <2> QED
    BY <1>2, <2>1, DieStep DEF KillWhileSaving, TypeOK, ProcessTypeOK, ResolverTypeOK
<1>3. CASE Restart
  <2>1. up' \in BOOLEAN /\ cache' \in SUBSET Items
    BY <1>3 DEF Restart, LoadCache, TypeOK, ResolverTypeOK
  <2> QED
    BY <1>3, <2>1
    DEF Restart, LoadCache, TypeOK, ClientTypeOK, ResolverTypeOK, marketVars, jobVars
<1>4. CASE RemoveFile
  <2>1. torn' \in BOOLEAN /\ file' \in SUBSET Items /\ learnt' \in SUBSET Items
    BY <1>4 DEF RemoveFile
  <2> QED
    BY <1>4, <2>1
    DEF RemoveFile, TypeOK, ClientTypeOK, ResolverTypeOK, marketVars, jobVars
<1>5. CASE BreakerMoves
  <2>1. ClientTypeOK'
    BY <1>5, BreakerAfter DEF BreakerMoves, HaltElapses, Retries, TypeOK, ClientTypeOK
  <2> QED
    BY <1>5, <2>1 DEF BreakerMoves, TypeOK, ResolverTypeOK, resolverVars, jobVars
<1> QED
  BY <1>1, <1>2, <1>3, <1>4, <1>5

LEMMA TypeInductive == TypeOK /\ [Next]_vars => TypeOK'
<1> SUFFICES ASSUME TypeOK, [Next]_vars PROVE TypeOK'
  OBVIOUS
<1>0. {} \in SUBSET Items
  OBVIOUS
<1>1. CASE SweepA \/ SweepB
  BY <1>1, SweepStep
<1>2. ASSUME NEW n \in 0..MaxPages, NEW b \in AfterRefusal, CountAnswered(n, b)
      PROVE  TypeOK'
  BY <1>2, CountStep
<1>3. CASE StartSweepC \/ CountRaises
  <2>1. 0 \in 0..MaxPages /\ breaker \in AfterRefusal
    BY DEF AfterRefusal
  <2> QED
    BY <1>3, <2>1, CountStep
<1>4. CASE Dispatch
  BY <1>4, TakeStep, PageStep, PublishedStep, OtherDispatchStep DEF Dispatch
<1>5. CASE BreakerMoves \/ Kill \/ Restart \/ RemoveFile
  BY <1>0, <1>5, ProcessStep
<1>6. ASSUME NEW found \in SUBSET Items, KillWhileSaving(found)
      PROVE  TypeOK'
  BY <1>6, ProcessStep
<1>7. CASE UNCHANGED vars
  BY <1>7 DEF vars, jobVars, marketVars, resolverVars, TypeOK, ClientTypeOK,
              ResolverTypeOK
<1> QED
  BY <1>1, <1>2, <1>3, <1>4, <1>5, <1>6, <1>7 DEF Next

LEMMA InitTypeOK == Init => TypeOK
<1> SUFFICES ASSUME Init PROVE TypeOK
  OBVIOUS
<1>1. queue \in [Tiers -> Seq(Nat)] /\ doing \in [tier : Tiers, what : Nat]
  BY DEF Init, NoJobs, NoJob, Tiers
<1>2. up \in BOOLEAN /\ torn \in BOOLEAN
  BY DEF Init, ResolverInit
<1> QED
  BY <1>1, <1>2 DEF Init, TypeOK, ClientInit, ResolverInit, ClientTypeOK, ResolverTypeOK

(* Every variable keeps its type: the app that Tier C counts is one of the *)
(* catalogue's, and no job or item is made up.                             *)
THEOREM TypeCorrect == Spec => []TypeOK
<1> QED
  BY InitTypeOK, TypeInductive, PTL DEF Spec

-----------------------------------------------------------------------------
(* NeverAskedTwice is not inductive.  It holds because what a handler has  *)
(* learnt is in the file as soon as it is in memory, so a start finds it,  *)
(* and because the item of a job that awaits its bucket page cannot become *)
(* known meanwhile: only the dispatcher teaches the resolver.              *)
FileKeepsUp ==
  /\ up => ~torn /\ cache = file
  /\ ~torn => learnt \subseteq file

PageIsNeeded ==
  /\ stage # "idle" => up
  /\ stage = "page" => doing.what \notin cache

OnceInv == FileKeepsUp /\ PageIsNeeded

(* While it runs, only a page or a seed changes what the resolver holds.   *)
ResolverRests ==
  /\ up' = up /\ learnt' = learnt
  /\ cache' = cache /\ file' = file /\ torn' = torn

LEMMA RestingStep ==
  ASSUME OnceInv, ResolverRests,
         stage' # "idle" => up,
         stage' = "page" => doing'.what \notin cache
  PROVE  OnceInv'
BY DEF OnceInv, ResolverRests, FileKeepsUp, PageIsNeeded

LEMMA DeadStep ==
  ASSUME OnceInv, Die, ~torn' => file \subseteq file' /\ ~torn, learnt' = learnt
  PROVE  OnceInv'
BY DEF OnceInv, Die, FileKeepsUp, PageIsNeeded

LEMMA OnceStep ==
  ASSUME TypeOK, OnceInv, [Next]_vars
  PROVE  OnceInv'
<1> USE DEF OnceInv, FileKeepsUp, PageIsNeeded
<1>1. CASE SweepA \/ SweepB \/ BreakerMoves \/ UNCHANGED vars
  BY <1>1, RestingStep
  DEF SweepA, SweepB, BreakerMoves, ResolverRests, vars, resolverVars, jobVars
<1>2. CASE StartSweepC
  <2>1. CASE breaker = "closed"
    BY <1>2, <2>1, RestingStep DEF StartSweepC, CountApp, ResolverRests
  <2>2. CASE breaker # "closed"
    BY <1>2, <2>2, DeadStep DEF StartSweepC, CountApp
  <2> QED
    BY <2>1, <2>2
<1>3. ASSUME NEW n \in 0..MaxPages, NEW b \in AfterRefusal, CountAnswered(n, b)
      PROVE  OnceInv'
  <2>1. CASE LastApp \/ b = "closed"
    BY <1>3, <2>1, RestingStep DEF CountAnswered, CountApp, ResolverRests
  <2>2. CASE ~LastApp /\ b # "closed"
    BY <1>3, <2>2, DeadStep DEF CountAnswered, CountApp
  <2> QED
    BY <2>1, <2>2
<1>4. CASE CountRaises \/ Kill
  BY <1>4, DeadStep DEF CountRaises, Kill
<1>5. ASSUME NEW t \in Tiers, Take(t)
      PROVE  OnceInv'
  <2>1. ResolverRests /\ up
    BY <1>5 DEF Take, ResolverRests, resolverVars
  <2>2. stage' = "page" => doing'.what \notin cache
    BY <1>5 DEF Take, Request
  <2> QED
    BY <2>1, <2>2, RestingStep
<1>6. ASSUME NEW found \in SUBSET Items, PageAnswered(found)
      PROVE  OnceInv'
  <2>1. up /\ cache = file /\ ~torn /\ learnt \subseteq file
    BY <1>6 DEF PageAnswered
  <2>2. cache' = file' /\ learnt' \subseteq file' /\ ~torn' /\ up'
    BY <1>6, <2>1 DEF PageAnswered, LearnFromPage
  <2>3. stage' # "page"
    BY <1>6 DEF PageAnswered, Request
  <2> QED
    BY <2>2, <2>3
<1>7. ASSUME NEW found \in SUBSET Items, Published(found)
      PROVE  OnceInv'
  <2>1. up /\ cache = file /\ ~torn /\ learnt \subseteq file
    BY <1>7 DEF Published, Publishes
  <2>2. cache' = file' /\ learnt' \subseteq file' /\ ~torn' /\ up'
    BY <1>7, <2>1 DEF Published, Seed
  <2>3. stage' = "idle"
    BY <1>7 DEF Published, JobEnds
  <2> QED
    BY <2>2, <2>3
<1>8. CASE \/ \E s \in Publishes : FetchAnswered(s)
           \/ PageRefused \/ CallRaises \/ PublishFails
  <2>1. ResolverRests /\ up
    BY <1>8 DEF FetchAnswered, PageRefused, CallRaises, PublishFails, ResolverRests,
                resolverVars, Calls, Publishes
  <2>2. stage' # "page"
    BY <1>8 DEF FetchAnswered, PageRefused, CallRaises, PublishFails, JobEnds,
                Publishes
  <2> QED
    BY <2>1, <2>2, RestingStep
<1>9. ASSUME NEW found \in SUBSET Items, KillWhileSaving(found)
      PROVE  OnceInv'
  <2>1. ~torn' => file \subseteq file' /\ ~torn
    BY <1>9 DEF KillWhileSaving, SaveCutShort
  <2> QED
    BY <1>9, <2>1, DeadStep DEF KillWhileSaving
<1>10. CASE Restart
  BY <1>10 DEF Restart, LoadCache, jobVars
<1>11. CASE RemoveFile
  BY <1>11 DEF RemoveFile, jobVars
<1> QED
  BY <1>1, <1>2, <1>3, <1>4, <1>5, <1>6, <1>7, <1>8, <1>9, <1>10, <1>11
  DEF Next, Dispatch

(* No bucket page is asked for an item whose id some handler has finished  *)
(* learning, through any kills and restarts, until the file itself is torn *)
(* and removed.                                                            *)
THEOREM PagesAreAskedOnce == Spec => []NeverAskedTwice
<1>1. Init => OnceInv
  BY DEF Init, ResolverInit, OnceInv, FileKeepsUp, PageIsNeeded
<1>2. TypeOK /\ OnceInv /\ [Next]_vars => OnceInv'
  BY OnceStep
<1>3. OnceInv => NeverAskedTwice
  BY DEF OnceInv, FileKeepsUp, PageIsNeeded, NeverAskedTwice
<1> QED
  BY <1>1, <1>2, <1>3, TypeCorrect, PTL DEF Spec
=============================================================================
