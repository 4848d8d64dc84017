---------------------------- MODULE Stage4Bundle ----------------------------
(***************************************************************************)
(* What a Stage3 dispatch of run_harvester publishes once the bars of its  *)
(* symbols are synchronised: the corporate-action audit, the market        *)
(* regime, the earnings event map with its coverage audit, the progress    *)
(* file and LATEST_STAGE4_READY, one upload each.  A failing audit, regime *)
(* or earnings step is caught and the dispatch goes on; a failing upload   *)
(* of the last two ends it, as does the end of its runner.                 *)
(*                                                                         *)
(* The earnings map is gathered from up to three calendars in turn, whose  *)
(* rows come in any order and number; a day is counted from today.         *)
(***************************************************************************)
EXTENDS MarketRegime

CONSTANTS
  Targets,      \* the symbols of the Stage3 trigger
  Horizon,      \* EARNINGS_EVENT_MAX_FORWARD_DAYS
  LastDispatch, \* bound: dispatches, numbered from 1; a trigger may be dispatched again
  MaxRows,      \* bound: calendar rows about a target in one dispatch
  Markets,      \* what the bar store may hold when the regime is read
  MaxMisses     \* bound: failing uploads and lookups, dead runners

\* Assumed of the constants; asserted in MCDailyJob
HorizonAssumption == Horizon \in Nat

VARIABLES
  dispatch,   \* the current or last dispatch, 0 before the first
  next,       \* its next step; "none" between dispatches
  keys,       \* the calendars an API key is configured for
  events,     \* event_map: target |-> event
  statuses,   \* coverage_statuses: target |-> status
  rows,       \* rows read so far
  lineage,    \* dispatch_corporate_action_ready
  files,      \* Drive: file |-> the dispatch it is of and what it says
  misses,     \* count of misses so far
  reported    \* history: the events within the window that some calendar reported

bundleVars == <<dispatch, next, keys, events, statuses, rows, lineage, files, misses, reported>>
earningsVars == <<events, statuses, rows, reported>>

\* Days of a reported date: past, within the window or outside it; NoDate does not parse.
NoDate == -2
Dates == NoDate..(Horizon + 1)
InWindow(d) == 0 <= d /\ d <= Horizon

NoEvent == [day |-> NoDate, source |-> "none"]
Present == "EARNINGS_EVENT_PRESENT"

Miss(n) == misses + n <= MaxMisses /\ misses' = misses + n

-----------------------------------------------------------------------------
(* Upload of a file: its dispatch and what it says of it.                  *)

Unwritten == [of |-> 0, says |-> "nothing"]
Put(file, says) == files' = [files EXCEPT ![file] = [of |-> dispatch, says |-> says]]
\* A failing upload may have been stored.
PutFails(file, says) == Miss(1) /\ (Put(file, says) \/ UNCHANGED files)

Init ==
  /\ dispatch = 0 /\ next = "none" /\ misses = 0 /\ lineage = FALSE
  /\ keys \in SUBSET {"fmp", "finnhub"}
  /\ events = [s \in Targets |-> NoEvent] /\ statuses = [s \in Targets |-> "none"]
  /\ rows = 0 /\ reported = {}
  /\ files = [f \in {"progress", "lineage", "regime", "events", "coverage", "ready"} |-> Unwritten]

\* A dispatch publishes PROCESSING and synchronises the bars.
Dispatch ==
  /\ next = "none" /\ dispatch < LastDispatch
  /\ dispatch' = dispatch + 1
  /\ files' = [files EXCEPT !["progress"] = [of |-> dispatch + 1, says |-> "PROCESSING"]]
  /\ next' = "lineage"
  /\ lineage' = FALSE
  /\ events' = [s \in Targets |-> NoEvent] /\ statuses' = [s \in Targets |-> "none"]
  /\ rows' = 0 /\ reported' = {}
  /\ UNCHANGED <<keys, misses>>

\* Mutant: readiness is taken from the audit that was built, uploaded or not
ReadyOnceBuilt(structural, uploaded) == structural
\* Readiness is read off the audit's summary after the upload returned.
ReadyAfter(structural, uploaded) == structural /\ uploaded

\* The audit is sound when every target has one row, and no symbol more than one.
StructuralContract(auditRows) ==
  /\ Targets \subseteq ToSet(auditRows)
  /\ IsInjective(auditRows)

\* Each listed symbol yields one row, rejected or not; a target that the trigger lists in
\* two spellings yields two rows of its name.
PublishLineage ==
  /\ next = "lineage"
  /\ \E twice \in SUBSET Targets, uploaded \in BOOLEAN :
       LET structural == StructuralContract(SetToSeq(Targets) \o SetToSeq(twice))
           says == IF structural THEN "structural" ELSE "mismatch" IN
       /\ IF uploaded THEN Put("lineage", says) /\ UNCHANGED misses ELSE PutFails("lineage", says)
       /\ lineage' = ReadyAfter(structural, uploaded)
  /\ next' = "regime"
  /\ UNCHANGED <<dispatch, keys, earningsVars>>

PublishRegime ==
  /\ next = "regime"
  /\ \E m \in Markets :
       \/ Put("regime", Regime(m)) /\ UNCHANGED misses
       \/ PutFails("regime", Regime(m))
  /\ next' = "fmp"
  /\ UNCHANGED <<dispatch, keys, earningsVars, lineage>>

-----------------------------------------------------------------------------
(* fetch_earnings_event_map.                                               *)

Missing == {s \in Targets : events[s] = NoEvent}

Rank(source) == IF source = "yfinance" THEN 2 ELSE 3   \* MEDIUM, HIGH

UpsertStatus(d) ==
  CASE d = NoDate                 -> "EARNINGS_DATE_INVALID"
    [] d # NoDate /\ d < 0        -> "EARNINGS_ONLY_PAST_EVENT_REPORTED"
    [] d > Horizon                -> "EARNINGS_EVENT_OUTSIDE_WINDOW_FUTURE"
    [] InWindow(d)                -> Present

\* Mutant: the first event in the window stays
FirstCome(s, d, source) == IF InWindow(d) /\ events[s] = NoEvent
                           THEN [day |-> d, source |-> source] ELSE events[s]
\* The nearer event; of two on a day, the one of the more trusted source.
Nearer(s, d, source) ==
  LET held == events[s] IN
  IF InWindow(d) /\ \/ held = NoEvent
                    \/ d < held.day
                    \/ d = held.day /\ Rank(source) > Rank(held.source)
  THEN [day |-> d, source |-> source] ELSE held

Upsert(s, d, source) ==
  /\ events' = [events EXCEPT ![s] = Nearer(s, d, source)]
  /\ reported' = IF InWindow(d) THEN reported \cup {<<s, d, source>>} ELSE reported

\* One more row of the calendar that is being read is about the target s.
CalendarRow(source) ==
  /\ next = source /\ rows < MaxRows
  /\ rows' = rows + 1
  /\ \E s \in Targets, d \in Dates : Upsert(s, d, source)
  /\ UNCHANGED <<dispatch, next, keys, statuses, lineage, files, misses>>

\* FMP is read with its key, and left behind without it or when no endpoint answers.
FmpRow == "fmp" \in keys /\ CalendarRow("fmp")

\* Finnhub is asked about all targets once one of them is missing.
AfterFmp == IF Missing # {} /\ "finnhub" \in keys THEN "finnhub" ELSE "yfinance"

FmpDone ==
  /\ next = "fmp"
  /\ next' = AfterFmp
  /\ UNCHANGED <<dispatch, keys, earningsVars, lineage, files, misses>>

\* A row that is not an object is not caught and costs the whole map.
FmpBreaks ==
  /\ next = "fmp" /\ "fmp" \in keys
  /\ Miss(1)
  /\ next' = "progress"
  /\ UNCHANGED <<dispatch, keys, earningsVars, lineage, files>>

\* Finnhub may break off at any row: that is caught, and the rows before it stay.
FinnhubRow == CalendarRow("finnhub")

FinnhubDone ==
  /\ next = "finnhub"
  /\ next' = "yfinance"
  /\ UNCHANGED <<dispatch, keys, earningsVars, lineage, files, misses>>

\* What yfinance's three lookups of a symbol come to when none reports a day in the
\* window: the days they reported, and whether one of them answered.
Observation(passed, answered) ==
  CASE Horizon + 1 \in passed                            -> "EARNINGS_EVENT_OUTSIDE_WINDOW_FUTURE"
    [] Horizon + 1 \notin passed /\ -1 \in passed        -> "EARNINGS_ONLY_PAST_EVENT_REPORTED"
    [] passed = {NoDate}                                 -> "EARNINGS_DATE_INVALID"
    [] passed = {} /\ answered                           -> "EARNINGS_PROVIDER_NO_DATED_EVENT"
    [] passed = {} /\ ~answered                          -> "EARNINGS_PROVIDER_LOOKUP_FAILED"

\* A missing symbol is looked up; the first day in the window ends its lookups.
YahooLookup ==
  /\ next = "yfinance"
  /\ \E s \in {s \in Missing : statuses[s] = "none"} :
       \/ \E d \in {d \in Dates : InWindow(d)} :
            /\ Upsert(s, d, "yfinance")
            /\ statuses' = [statuses EXCEPT ![s] = UpsertStatus(d)]
            /\ UNCHANGED misses
       \/ \E passed \in SUBSET {d \in Dates : ~InWindow(d)}, answered \in BOOLEAN :
            /\ passed # {} => answered
            /\ Miss(IF answered THEN 0 ELSE 1)
            /\ statuses' = [statuses EXCEPT ![s] = Observation(passed, answered)]
            /\ UNCHANGED <<events, reported>>
  /\ UNCHANGED <<dispatch, next, keys, rows, lineage, files>>

\* Every target is classified, those with an event as present.
Classify ==
  /\ next = "yfinance"
  /\ \A s \in Missing : statuses[s] # "none"
  /\ statuses' = [s \in Targets |-> IF events[s] = NoEvent THEN statuses[s] ELSE Present]
  /\ next' = "events"
  /\ UNCHANGED <<dispatch, keys, events, rows, reported, lineage, files, misses>>

-----------------------------------------------------------------------------
\* The map, then its coverage audit; a failure of the first skips the second.
PublishEvents ==
  /\ next = "events"
  /\ \/ Put("events", "events") /\ next' = "coverage" /\ UNCHANGED misses
     \/ PutFails("events", "events") /\ next' = "progress"
  /\ UNCHANGED <<dispatch, keys, earningsVars, lineage>>

\* build_earnings_event_coverage_audit: whether every target counts under one known status.
CoverageStatuses ==
  {Present, "EARNINGS_DATE_INVALID", "EARNINGS_ONLY_PAST_EVENT_REPORTED",
   "EARNINGS_EVENT_OUTSIDE_WINDOW_FUTURE", "EARNINGS_PROVIDER_NO_DATED_EVENT",
   "EARNINGS_PROVIDER_LOOKUP_FAILED"}
CoverageSays ==
  IF \A s \in Targets : statuses[s] \in CoverageStatuses THEN "reconciled" ELSE "gaps"

PublishCoverage ==
  /\ next = "coverage"
  /\ \/ Put("coverage", CoverageSays) /\ UNCHANGED misses
     \/ PutFails("coverage", CoverageSays)
  /\ next' = "progress"
  /\ UNCHANGED <<dispatch, keys, earningsVars, lineage>>

\* The last two uploads; one that fails ends the dispatch.
PublishCompleted ==
  /\ next = "progress"
  /\ \/ Put("progress", "COMPLETED") /\ next' = "ready" /\ UNCHANGED misses
     \/ PutFails("progress", "COMPLETED") /\ next' = "none"
  /\ UNCHANGED <<dispatch, keys, earningsVars, lineage>>

LineageStatus == IF lineage THEN "CONTRACT_READY" ELSE "COVERAGE_MISMATCH"

PublishReady ==
  /\ next = "ready"
  /\ \/ Put("ready", LineageStatus) /\ UNCHANGED misses
     \/ PutFails("ready", LineageStatus)
  /\ next' = "none"
  /\ UNCHANGED <<dispatch, keys, earningsVars, lineage>>

Dies ==
  /\ next # "none"
  /\ Miss(1)
  /\ next' = "none"
  /\ UNCHANGED <<dispatch, keys, earningsVars, lineage, files>>

Next ==
  \/ Dispatch \/ PublishLineage \/ PublishRegime
  \/ FmpRow \/ FmpDone \/ FmpBreaks \/ FinnhubRow \/ FinnhubDone \/ YahooLookup \/ Classify
  \/ PublishEvents \/ PublishCoverage \/ PublishCompleted \/ PublishReady \/ Dies

Spec == Init /\ [][Next]_bundleVars

-----------------------------------------------------------------------------
(* Whichever calendars answer, break off or repeat themselves, in whatever order,  *)
(* the map that is published holds for each target the nearest of the events that  *)
(* were reported within the window, and every target is classified: as present    *)
(* exactly when it has one.  So the coverage audit that follows the map never      *)
(* reports a target without a status.                                              *)
NearestEventKept ==
  /\ files["coverage"].says # "gaps"
  /\ next = "events" =>
      \A s \in Targets :
        LET mine == {e \in reported : e[1] = s} IN
        /\ events[s] = NoEvent <=> mine = {}
        /\ events[s] # NoEvent =>
             /\ <<s, events[s].day, events[s].source>> \in mine
             /\ \A e \in mine : events[s].day <= e[2]
        /\ statuses[s] # "none" /\ (statuses[s] = Present <=> mine # {})

(* LATEST_STAGE4_READY is one of several files.  If it says that the lineage       *)
(* contract is ready, the audit in Drive is the one it was read off, and sound, or *)
(* a later dispatch has replaced it; and the progress file says COMPLETED of the   *)
(* same dispatch or is a later one's.  So it is whichever uploads fail, stored or  *)
(* not, and wherever a dispatch ends.                                              *)
ReadyVouchesForItsAudit ==
  LET r == files["ready"] IN
  r.of > 0 =>
    /\ r.says = "CONTRACT_READY" =>
         \/ files["lineage"].of > r.of
         \/ files["lineage"] = [of |-> r.of, says |-> "structural"]
    /\ \/ files["progress"].of > r.of
       \/ files["progress"] = [of |-> r.of, says |-> "COMPLETED"]
=============================================================================
