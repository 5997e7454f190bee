----------------------------- MODULE Scheduler -----------------------------
(***************************************************************************)
(* TieredScheduler (ingest/scheduler.py) in its process: the three tier    *)
(* loops, the priority queue, the dispatcher that runs one job at a time   *)
(* and survives whatever it raises, Tier C's requests for the size of the  *)
(* catalogue, which go around the queue and whose failure ends the         *)
(* process, and the restart.                                               *)
(*                                                                         *)
(* The client is MarketClient, what get_json promises.  A job's request is *)
(* refused at once when the breaker is open; else it suspends until it is  *)
(* answered.  The intervals of the tiers are left open: a loop enqueues    *)
(* its sweep at any time.                                                  *)
(***************************************************************************)
EXTENDS MarketClient, Resolver, Sequences

CONSTANTS
  NumWatched,   \* the watchlist is the items 1..NumWatched
  NumApps,      \* catalog_app_ids
  TopPages,     \* pages of a Tier B sweep, for one app
  MaxPages,     \* bound on the pages that Steam's total_count amounts to
  MaxQueue      \* bound on the queued jobs of a tier, for TLC

Dispatcher == "dispatcher"
TierCLoop == "tierCLoop"

TierA == 0
TierB == 1
TierC == 2
Tiers == {TierA, TierB, TierC}

ASSUME SchedulerAssumption ==
  /\ Callers = {Dispatcher, TierCLoop}
  /\ NumItems \in Nat /\ NumWatched \in 0..NumItems
  /\ NumApps \in Nat \ {0} /\ TopPages \in Nat /\ MaxPages \in Nat
  /\ MaxQueue \in Nat

VARIABLES
  up,         \* whether the process runs
  queue,      \* _queue, by priority: the item or the page of each job
  doing,      \* the dispatcher's job
  stage,      \* what it awaits: "idle" for the queue
  counting,   \* the app whose catalogue Tier C awaits the size of, 0 asleep
  learnt      \* history: items that a handler has finished learning, since
              \* the cache file was last removed

jobVars == <<queue, doing, stage>>
vars == <<marketVars, resolverVars, up, jobVars, counting, learnt>>

Calls == {"page", "fetch"}
Publishes == {"publishBody", "publishText"}
NoJob == [tier |-> TierC, what |-> 0]
NoJobs == [t \in Tiers |-> <<>>]

TypeOK ==
  /\ ClientTypeOK /\ ResolverTypeOK
  /\ up \in BOOLEAN
  /\ queue \in [Tiers -> Seq(Nat)]
  /\ doing \in [tier : Tiers, what : Nat]
  /\ stage \in Calls \cup Publishes \cup {"idle"}
  /\ counting \in 0..NumApps
  /\ learnt \in SUBSET Items

Init ==
  /\ ClientInit /\ ResolverInit
  /\ up = TRUE
  /\ queue = NoJobs /\ doing = NoJob /\ stage = "idle"
  /\ counting = 0
  /\ learnt = {}

-----------------------------------------------------------------------------
(* The tier loops.                                                         *)

Enqueue(t, jobs) ==
  /\ Len(queue[t]) + Len(jobs) <= MaxQueue
  /\ queue' = [queue EXCEPT ![t] = @ \o jobs]

Numbers(n) == [i \in 1..n |-> i]

SweepA ==
  /\ up
  /\ Enqueue(TierA, Numbers(NumWatched))
  /\ UNCHANGED <<marketVars, resolverVars, up, doing, stage, counting, learnt>>

SweepB ==
  /\ up
  /\ Enqueue(TierB, Numbers(NumApps * TopPages))
  /\ UNCHANGED <<marketVars, resolverVars, up, doing, stage, counting, learnt>>

(* The process is gone, and with it the queue, the breaker and the cache.  *)
Die ==
  /\ up' = FALSE
  /\ queue' = NoJobs /\ doing' = NoJob /\ stage' = "idle" /\ counting' = 0
  /\ asking' = {} /\ breaker' = "closed"
  /\ cache' = {}

(* Tier C asks for the size of app a's catalogue, the breaker being at b,  *)
(* or raises: gather passes that on to run and main.                       *)
CountApp(a, b) ==
  IF b = "closed"
  THEN /\ counting' = a
       /\ asking' = asking \cup {TierCLoop}
       /\ breaker' = b
       /\ UNCHANGED <<cache, up, doing, stage>>
  ELSE Die

StartSweepC ==
  /\ up /\ counting = 0
  /\ CountApp(1, breaker)
  /\ up' => UNCHANGED queue
  /\ UNCHANGED <<file, torn, learnt>>

(* Mutant: the loop over the apps runs once too often.                     *)
PastLastApp == counting > NumApps

LastApp == counting = NumApps

(* The answer to it: n pages, none if it is an error text, and the breaker *)
(* is at b.  The pages are enqueued, and the next app's size is asked for. *)
CountAnswered(n, b) ==
  /\ up /\ counting # 0
  /\ (n = 0 /\ b \in AfterRefusal) \/ b = breaker
  /\ IF LastApp
     THEN /\ counting' = 0
          /\ asking' = asking \ {TierCLoop}
          /\ breaker' = b
          /\ UNCHANGED <<cache, up, doing, stage>>
     ELSE CountApp(counting + 1, b)
  /\ up' => Enqueue(TierC, Numbers(n))
  /\ UNCHANGED <<file, torn, learnt>>

CountRaises ==
  /\ up /\ counting # 0
  /\ Die
  /\ UNCHANGED <<file, torn, learnt>>

-----------------------------------------------------------------------------
(* The dispatcher.                                                         *)

(* The job ends, however it does: an exception is logged and swallowed.    *)
JobEnds == doing' = NoJob /\ stage' = "idle"

(* The job awaits get_json at s, or is refused by an open breaker.         *)
Request(s) ==
  IF breaker = "closed"
  THEN /\ asking' = asking \cup {Dispatcher}
       /\ stage' = s
  ELSE /\ asking' = asking \ {Dispatcher}
       /\ stage' = "idle"

(* Mutant: the last tier first.                                            *)
IsNextReversed(t) ==
  queue[t] # <<>> /\ \A u \in Tiers : u > t => queue[u] = <<>>

(* The queue's head is the first job of the first tier that has one.       *)
IsNext(t) ==
  queue[t] # <<>> /\ \A u \in Tiers : u < t => queue[u] = <<>>

(* A Tier A job asks for the bucket page if the item's id is unknown, else *)
(* for the order book; a sweep's job asks for its page.                    *)
Take(t) ==
  /\ up /\ stage = "idle"
  /\ IsNext(t)
  /\ queue' = [queue EXCEPT ![t] = Tail(@)]
  /\ Request(IF t = TierA /\ Head(queue[t]) \notin cache THEN "page" ELSE "fetch")
  /\ doing' = IF stage' = "idle" THEN NoJob
              ELSE [tier |-> t, what |-> Head(queue[t])]
  /\ UNCHANGED <<breaker, resolverVars, up, counting, learnt>>

(* The bucket page: with the item's pair in it the job goes on to the      *)
(* order book, else it ends (NameIdResolutionError).                       *)
PageAnswered(found) ==
  /\ stage = "page"
  /\ LearnFromPage(found)
  /\ learnt' = learnt \cup found
  /\ IF doing.what \in found
     THEN Request("fetch")
     ELSE asking' = asking \ {Dispatcher} /\ stage' = "idle"
  /\ doing' = IF stage' = "idle" THEN NoJob ELSE doing
  /\ UNCHANGED <<breaker, queue, up, counting>>

PageRefused ==
  /\ stage = "page"
  /\ breaker' \in AfterRefusal
  /\ asking' = asking \ {Dispatcher}
  /\ JobEnds
  /\ UNCHANGED <<resolverVars, queue, up, counting, learnt>>

(* An answer with a JSON body, or with any text: it is published verbatim. *)
FetchAnswered(s) ==
  /\ stage = "fetch"
  /\ \/ s = "publishBody" /\ UNCHANGED breaker
     \/ s = "publishText" /\ breaker' \in AfterRefusal
  /\ asking' = asking \ {Dispatcher}
  /\ stage' = s
  /\ UNCHANGED <<resolverVars, up, queue, doing, counting, learnt>>

CallRaises ==
  /\ stage \in Calls
  /\ breaker' \in AfterRaise
  /\ asking' = asking \ {Dispatcher}
  /\ JobEnds
  /\ UNCHANGED <<resolverVars, queue, up, counting, learnt>>

(* send_and_wait returns; a search page then seeds the resolver with the   *)
(* commodities among its results.                                          *)
Published(found) ==
  /\ stage \in Publishes
  /\ found # {} => stage = "publishBody" /\ doing.tier # TierA
  /\ Seed(found)
  /\ learnt' = learnt \cup found
  /\ JobEnds
  /\ UNCHANGED <<marketVars, queue, up, counting>>

PublishFails ==
  /\ stage \in Publishes
  /\ JobEnds
  /\ UNCHANGED <<marketVars, resolverVars, queue, up, counting, learnt>>

Dispatch ==
  \/ \E t \in Tiers : Take(t)
  \/ \E found \in SUBSET Items : PageAnswered(found) \/ Published(found)
  \/ \E s \in Publishes : FetchAnswered(s)
  \/ PageRefused \/ CallRaises \/ PublishFails

-----------------------------------------------------------------------------
(* The breaker, while nobody returns.                                      *)
BreakerMoves ==
  /\ HaltElapses \/ \E c \in Callers : Retries(c)
  /\ UNCHANGED <<resolverVars, up, jobVars, counting, learnt>>

(* The process is killed, or an operator stops it.                         *)
Kill ==
  /\ up
  /\ Die
  /\ UNCHANGED <<file, torn, learnt>>

KillWhileSaving(found) ==
  /\ stage = "page" \/ (stage = "publishBody" /\ doing.tier # TierA)
  /\ SaveCutShort(found)
  /\ Die
  /\ UNCHANGED learnt

(* An operator starts it again, having removed a file that does not parse. *)
Restart ==
  /\ ~up
  /\ LoadCache
  /\ up' = TRUE
  /\ UNCHANGED <<marketVars, jobVars, counting, learnt>>

RemoveFile ==
  /\ ~up /\ torn
  /\ torn' = FALSE /\ file' = {}
  /\ learnt' = {}
  /\ UNCHANGED <<marketVars, cache, up, jobVars, counting>>

Next ==
  \/ SweepA \/ SweepB \/ StartSweepC
  \/ \E n \in 0..MaxPages : \E b \in AfterRefusal : CountAnswered(n, b)
  \/ CountRaises \/ Dispatch \/ BreakerMoves
  \/ Kill \/ Restart \/ RemoveFile
  \/ \E found \in SUBSET Items : KillWhileSaving(found)

Spec == Init /\ [][Next]_vars

(* The loop resumes the dispatcher, whose every await ends (CallReturns of *)
(* SteamClient, the producer's own timeout).                               *)
FairSpec == Spec /\ WF_vars(Dispatch)

-----------------------------------------------------------------------------
(* Properties.                                                             *)

(* "permanent on-disk cache" (nameid_resolver.py): no bucket page is asked *)
(* for an item whose id the process has ever learnt, in whatever run of it *)
(* and from whatever endpoint, until the file itself is lost.              *)
NeverAskedTwice == stage = "page" => doing.what \notin learnt

(* "Tier A jobs queued are always pulled ahead of already-queued Tier B/C  *)
(* jobs" (scheduler.py): while the process runs, no sweep, no failing job  *)
(* and no open breaker keeps the dispatcher from the watchlist.            *)
TakesTierA == Len(queue'[TierA]) < Len(queue[TierA])
WatchlistIsServed ==
  []<>(~up \/ queue[TierA] = <<>>) \/ []<><<TakesTierA>>_vars

(* "callers (the scheduler) should let those propagate and stop polling"   *)
(* (get_json): while the breaker is open no job leaves the queue.          *)
HaltPausesSweeps ==
  [][breaker # "closed" /\ up' => \A t \in Tiers : Len(queue'[t]) >= Len(queue[t])]_vars
=============================================================================
