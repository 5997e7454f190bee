------------------------------ MODULE Resolver ------------------------------
(***************************************************************************)
(* NameIdResolver (ingest/nameid_resolver.py): the map from items to       *)
(* market_bucket_ids, as the set of the items it knows, and the file that  *)
(* is rewritten in place after every change.  No handler suspends between  *)
(* a change and its save, but the process can be killed there.             *)
(***************************************************************************)
EXTENDS Naturals

CONSTANT NumItems   \* items, 1..NumItems

VARIABLES
  cache,   \* _cache
  file,    \* what the file holds
  torn     \* whether a write of the file was cut short

resolverVars == <<cache, file, torn>>

Items == 1..NumItems

ResolverTypeOK ==
  /\ cache \in SUBSET Items /\ file \in SUBSET Items
  /\ torn \in BOOLEAN

ResolverInit == cache = {} /\ file = {} /\ torn = FALSE

(* Mutant: what was learnt is kept in memory only.                         *)
LearnFromPageUnsaved(found) ==
  /\ cache' = cache \cup found
  /\ UNCHANGED <<file, torn>>

(* A bucket page: the pairs found in it, saved once if one of them is new. *)
LearnFromPage(found) ==
  /\ cache' = cache \cup found
  /\ file' = IF found \subseteq cache THEN file ELSE cache'
  /\ UNCHANGED torn

(* The commodities among the results of a search page, saved one by one.   *)
Seed(found) ==
  /\ cache' = cache \cup found
  /\ file' = IF found = {} THEN file ELSE cache'
  /\ UNCHANGED torn

(* A kill while they are saved: some are in the file, or it is torn.       *)
SaveCutShort(found) ==
  /\ found # {}
  /\ \/ torn' = TRUE /\ file' = {}
     \/ UNCHANGED torn /\ file' \in {file \cup part : part \in SUBSET found}

(* A start reads the file, and fails on one that does not parse.           *)
LoadCache ==
  /\ ~torn
  /\ cache' = file
  /\ UNCHANGED <<file, torn>>
=============================================================================
