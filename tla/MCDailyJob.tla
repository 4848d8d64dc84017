----------------------------- MODULE MCDailyJob -----------------------------
(***************************************************************************)
(* An instance of what one job of the daily workflow does besides its      *)
(* admission: the collector's groups, the SEC lineage producer and its     *)
(* verdict on a symbol, the bundle of a Stage3 dispatch, the surveillance  *)
(* sessions of the mapping refresh.  They keep no state in common that a   *)
(* property speaks of, so a behaviour explores one of them, chosen         *)
(* initially, and leaves the others as they were.  The producer is         *)
(* extended, the others are instances.                                     *)
(***************************************************************************)
EXTENDS FinancialLineage, SequencesExt, TLC

CONSTANTS
  FullMin, StaleHistory, StaleQuote, RetireDays,                     \* SymbolLifecycle
  Symbols, GroupOf, Batches, Listings, WeekendDays, LastDay, MaxMishaps, \* CollectorRun
  SecCases, DriveCases, Retrieved,                                                  \* FinancialRows
  ShortWindow, LongWindow, HighWindow,                               \* MarketRegime
  Targets, Horizon, LastDispatch, MaxRows, MaxMisses, Markets,       \* Stage4Bundle
  Followed, OtherListed, LastSession, MaxSlips                       \* ProspectiveSurveillance

VARIABLES
  part,
  day, mapping, entries, daily, history, phase, work, mishaps, torn, quoteless,
  case, verdict,
  dispatch, next, keys, events, statuses, rows, lineage, files, misses, reported,
  session, listed, mapped, sessions, pending, slips, gone

ofCollector == <<day, mapping, entries, daily, history, phase, work, mishaps, torn, quoteless>>
ofRow       == <<case, verdict>>
ofBundle    == <<dispatch, next, keys, events, statuses, rows, lineage, files, misses, reported>>
ofSessions  == <<session, listed, mapped, sessions, pending, slips, gone>>

Collector == INSTANCE CollectorRun
Row       == INSTANCE FinancialRows
Bundle    == INSTANCE Stage4Bundle
Sessions  == INSTANCE ProspectiveSurveillance WITH Symbols <- Followed

\* What the modules assume of their constants
ASSUME JobAssumption ==
  /\ Collector!PolicyAssumption /\ Collector!LayoutAssumption
  /\ Sessions!SessionsAssumption /\ Row!CasesAssumption
  /\ Bundle!WindowAssumption /\ Bundle!HorizonAssumption

-----------------------------------------------------------------------------
(* Values of the constants.                                                *)

MCSymbols  == {1, 2, 3}
MCGroupOf  == [s \in MCSymbols |-> IF s = 3 THEN 2 ELSE 1]
MCBatches  == {{1}, {2}, {1, 2}}
MCListings == {{1, 2, 3}, {1, 3}}
MCSymmetry == Permutations(Runs)

\* What SEC may hold: up to two facts, each for the figure or for another value, in two
\* accessions, concepts and three forms; each accession listed as it is, in another
\* form, later than the retrieval, or not at all.
SecForms == {"10-K", "10-K/A", "8-K"}
SecFacts == [accession : {"a", "b"}, form : SecForms, concept : {"x", "y"}, value : {1, 2}, period : {1}]
Slots(F) == {<<>>} \cup [{1} -> F] \cup [{1, 2} -> F]
SecFilings ==
  UNION {[A -> [form : SecForms, published : {1, 9}]] : A \in SUBSET {"a", "b"}}

PlainRecord == [fields |-> TRUE, source |-> "HISTORY", value |-> 1, period |-> 1]
Good == [record |-> PlainRecord, payload |-> {[period |-> 1, value |-> 1]},
         identity |-> "same symbol", ciks |-> 1, archives |-> TRUE,
         facts |-> [i \in {1} |-> [accession |-> "a", form |-> "10-K", concept |-> "x",
                                   value |-> 1, period |-> 1]],
         filings |-> [a \in {"a"} |-> [form |-> "10-K", published |-> 1]]]

\* What Drive may hold on the symbol.
Records == [fields : BOOLEAN, source : {"HISTORY", "QUOTE"}, value : {1, 2}, period : {1, 2}]
Payloads ==
  UNION {{{[period |-> p, value |-> f[p]] : p \in P} : f \in [P -> {1, 2}]} : P \in SUBSET {1, 2}}
Identities == {"absent", "other source", "same symbol", "renamed symbol"}

MCSecCases == {[Good EXCEPT !.facts = f, !.filings = g] : f \in Slots(SecFacts), g \in SecFilings}
MCDriveCases ==
  {[Good EXCEPT !.record = r, !.payload = p, !.identity = i, !.ciks = c, !.archives = a] :
    r \in Records, p \in Payloads, i \in Identities, c \in 0..2, a \in BOOLEAN}

\* What the bar store may hold: closes in cents over windows of 2, 3 and 4 bars.
Closes == SeqOf({100, 110, 120}, 4)
Tapes  == {<<>>, <<100>>, <<100, 120>>, <<120, 110, 100>>, <<100, 120, 110, 130>>}
Vixes  == {<<>>, <<1499>>, <<1500>>, <<2000>>, <<2800>>}
Pictures ==
  [sp500 : Closes, nasdaq : Tapes, vix : {<<>>}, symbols : {<<a, b>> : a, b \in {<<>>, <<100, 120>>}}]
  \cup [sp500 : Tapes, nasdaq : Tapes, vix : Vixes, symbols : {<<a, b>> : a, b \in Tapes}]
Lowered(closes) == IF closes = <<>> THEN closes ELSE Front(closes) \o <<Last(closes) - 10>>
WorsePictures(m) ==
  {[m EXCEPT !.sp500 = Lowered(@)], [m EXCEPT !.nasdaq = Lowered(@)],
   [m EXCEPT !.symbols[1] = Lowered(@)]}

\* No bars at all, and bars that rise: the two ends of the score
MCMarkets ==
  {[sp500 |-> a, nasdaq |-> a, vix |-> <<>>, symbols |-> <<a, a>>] : a \in {<<>>, <<100, 110, 120>>}}

-----------------------------------------------------------------------------
JobInit ==
  /\ part \in {"collector", "lineage", "row", "bundle", "sessions"}
  /\ Collector!Init /\ (part # "collector" => mapping = MCSymbols /\ daily[1] = Collector!NoRecord)
  /\ Init /\ (part # "lineage" => kind = [r \in Runs |-> "scheduled"])
  /\ Row!RowInit /\ (part # "row" => case = Good)
  /\ Bundle!Init /\ (part # "bundle" => keys = {})
  /\ Sessions!Init

JobNext ==
  \/ /\ part = "collector" /\ Collector!Next
     /\ UNCHANGED <<part, lineageVars, ofRow, ofBundle, ofSessions>>
  \/ /\ part = "lineage" /\ Next
     /\ UNCHANGED <<part, ofCollector, ofRow, ofBundle, ofSessions>>
  \/ /\ part = "row" /\ Row!Judge
     /\ UNCHANGED <<part, ofCollector, lineageVars, ofBundle, ofSessions>>
  \/ /\ part = "bundle" /\ Bundle!Next
     /\ UNCHANGED <<part, ofCollector, lineageVars, ofRow, ofSessions>>
  \/ /\ part = "sessions" /\ Sessions!Next
     /\ UNCHANGED <<part, ofCollector, lineageVars, ofRow, ofBundle>>

jobVars == <<part, ofCollector, lineageVars, ofRow, ofBundle, ofSessions>>

JobSpec == JobInit /\ [][JobNext]_jobVars

-----------------------------------------------------------------------------
(* The properties of the other modules, stated and explained there.        *)

\* The two files of a group agree on which symbols have a history.
GroupFilesAgree == Collector!GroupFilesAgree
\* The symbol state never knows of a collection that the daily file does not.
StateNeverAhead == Collector!StateNeverAhead
\* A target price is never dated by another day than its own.
TargetKeepsItsProvenance == Collector!TargetKeepsItsProvenance
\* A verified row names the one publication of its figure.
VerifiedIsTheOnlyFiling == Row!VerifiedIsTheOnlyFiling
\* The earnings map holds the nearest reported event of each target.
NearestEventKept == Bundle!NearestEventKept
\* Missing or worse bars never lift the market regime.  The regime depends on the market
\* alone, so all markets are looked at in an initial state.
RegimeErrsOnCaution ==
  part = "bundle" /\ keys = {} /\ dispatch = 0 => Bundle!CautiousOver(Pictures, WorsePictures)
\* A ready file that says so has its audit beside it.
ReadyVouchesForItsAudit == Bundle!ReadyVouchesForItsAudit
\* A symbol leaves the mapping only when the surveillance names it as removed.
MappingLossIsRecorded == Sessions!MappingLossIsRecorded

\* Runs that may ask SEC, what was asked for, what is complete, and lost calls.
Spent(r)    == <<kind[r], CollectionKey(r)>>
HoldsKey(r) == Live(r) /\ sentinel[r] = "IN_PROGRESS"
Entered     == {<<r, Spent(r)>> : r \in {r \in Runs : HoldsKey(r)}}
Asked       == {<<r, Spent(r)>> : r \in {r \in Runs : sent[r] > 0}}
Succeeded   == {Spent(r) : r \in {r \in Runs : sentinel[r] = "COMPLETE"}}
Forgotten   == {<<k[1], k[2]>> : k \in lost}

\* A reservation in the Actions cache keeps the promise of an exclusive reservation,
\* unless the cache loses a call on its key: a run is admitted to SEC only while no
\* run of its workflow has asked for the same key, and a sentinel is closed COMPLETE
\* only by an admitted run, of a key that was asked for (reserve_producer,
\* finish_collection_sentinel, the lookups and saves of the workflows).
Promise == INSTANCE Reservation WITH
  Askers <- Runs, Subjects <- Kinds \X (0..LastWindow), Questions <- Runs, Shared <- FALSE,
  admitted <- Entered, asked <- Asked, confirmed <- Succeeded, lost <- Forgotten

CacheKeepsPromise == Promise!Spec
=============================================================================
