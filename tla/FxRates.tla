------------------------------ MODULE FxRates ------------------------------
(***************************************************************************)
(* FxRateCache (ingest/fx_rates.py): exchange rates by date, in memory and *)
(* in a file that is rewritten in place.  The rates of a date are          *)
(* identified by the date on which the ECB published them.  Nothing in     *)
(* the repository calls the cache; the seed dim_fx_rate was made with it.  *)
(***************************************************************************)
EXTENDS Naturals

CONSTANTS
  MaxDate   \* bound on the dates, for TLC

ASSUME FxRatesAssumption == MaxDate \in Nat

VARIABLES
  date,        \* the date
  published,   \* the dates on which the ECB has published
  rates,       \* _cache
  ratesFile,   \* what the file holds
  ratesTorn,   \* whether a write of the file was cut short
  early        \* history: dates asked for before their rates were published

ratesVars == <<date, published, rates, ratesFile, ratesTorn, early>>

Dates == 0..MaxDate

RatesInit ==
  /\ date = 0 /\ published = {0}
  /\ rates = <<>> /\ ratesFile = <<>> /\ ratesTorn = FALSE
  /\ early = {}

(* The service: the rates published last, on the date or before it.        *)
(* Mutant: the endpoint of the latest rates.                               *)
AnswerLatest(d) == CHOOSE p \in published : \A q \in published : q <= p
Answer(d) == CHOOSE p \in published : p <= d /\ \A q \in published : q <= d => q <= p

Asked(d) == d \in 0..date /\ d \notin DOMAIN rates

(* fetch, of a date that is not cached: filed under the date that was      *)
(* asked for and, again, under the actual one.                             *)
FetchRates(d) ==
  /\ Asked(d)
  /\ rates' = [x \in DOMAIN rates \cup {d, Answer(d)} |->
                IF x \in {d, Answer(d)} THEN Answer(d) ELSE rates[x]]
  /\ ratesFile' = rates'
  /\ early' = IF d = date /\ Answer(d) # d THEN early \cup {d} ELSE early
  /\ UNCHANGED <<date, published, ratesTorn>>

(* A kill between the request and the end of the write; the next process   *)
(* loads the file, if it still parses.                                     *)
KilledInFetch(d) ==
  /\ Asked(d)
  /\ \/ rates' = ratesFile /\ UNCHANGED <<ratesFile, ratesTorn>>
     \/ rates' = <<>> /\ ratesFile' = <<>> /\ ratesTorn' = TRUE
  /\ UNCHANGED <<date, published, early>>

(* Another process starts.  A file that does not parse has to be removed.  *)
LoadRates ==
  /\ ~ratesTorn /\ rates' = ratesFile
  /\ UNCHANGED <<date, published, ratesFile, ratesTorn, early>>

RemoveTornFile ==
  /\ ratesTorn /\ ratesTorn' = FALSE
  /\ UNCHANGED <<date, published, rates, ratesFile, early>>

(* On some days, later than some requests, rates are published.            *)
EcbPublishes ==
  /\ date \notin published /\ published' = published \cup {date}
  /\ UNCHANGED <<date, rates, ratesFile, ratesTorn, early>>

NextDate ==
  /\ date < MaxDate /\ date' = date + 1
  /\ UNCHANGED <<published, rates, ratesFile, ratesTorn, early>>

RatesNext ==
  \/ \E d \in Dates : ~ratesTorn /\ (FetchRates(d) \/ KilledInFetch(d))
  \/ LoadRates \/ RemoveTornFile \/ EcbPublishes \/ NextDate

RatesSpec == RatesInit /\ [][RatesNext]_ratesVars

-----------------------------------------------------------------------------
(* Rates filed under a date are the ones that hold on it.  The exception   *)
(* is the documented fallback: asked for on the date itself, before its    *)
(* rates were published, a date keeps the rates of an earlier one.         *)
RatesHoldOnTheirDate == \A d \in DOMAIN rates \ early : rates[d] = Answer(d)
=============================================================================
