---------------------------- MODULE CollectorRun ----------------------------
(***************************************************************************)
(* The daily path of run_harvester: a run refreshes the ticker mapping,    *)
(* loads the daily and the history file of each group of its batch, prunes *)
(* the symbols the mapping no longer has, collects the others, uploads the *)
(* two files one after the other, and uploads the symbol state once all    *)
(* groups are done.  The workflow's concurrency group keeps two such runs  *)
(* apart; a run may end at any point (a cancelled job, a time-out, a Drive *)
(* error that is raised), and then what it did not upload is lost.         *)
(*                                                                         *)
(* A record keeps the day it was updated, the lifecycle state it names,    *)
(* its history mark and its target price; a history keeps its number of    *)
(* periods.  Other figures and statements are left out.  Symbols are       *)
(* numbers, in the mapping's order.                                        *)
(***************************************************************************)
EXTENDS SymbolLifecycle, FiniteSets

CONSTANTS
  Symbols,      \* a set of naturals
  GroupOf,      \* symbol |-> its group, a natural
  Batches,      \* sets of groups a run may be asked for
  Listings,     \* the mappings an authoritative refresh may return: sets of symbols
  WeekendDays,  \* days of is_weekend_update
  LastDay,      \* bound: one run a day, on the days 1..LastDay
  MaxMishaps    \* bound: mishaps a behaviour may have

\* Assumed of the constants; asserted in MCDailyJob
LayoutAssumption ==
  /\ Symbols \subseteq Nat
  /\ GroupOf \in [Symbols -> Nat]
  /\ Listings \subseteq SUBSET Symbols

VARIABLES
  day,       \* the day of the current or last run
  mapping,   \* Drive: symbols of Ticker_ID_Mapping_Final.json
  entries,   \* Drive: HARVESTER_SYMBOL_STATE.json
  daily,     \* Drive: the records of the daily files
  history,   \* Drive: periods of the payloads of the history files, 0 without one
  phase,     \* what the run does next; "idle" between runs
  work,      \* the run's memory
  mishaps,   \* count of mishaps so far
  torn,      \* history: symbols of files that were written one without the other, or did
             \* not parse, and that disagree since
  quoteless  \* history: symbols given up after their history had been fetched

driveVars == <<mapping, entries, daily, history>>
runVars == <<day, driveVars, phase, work, mishaps, torn, quoteless>>

\* A target price: the day the vendor gave it, 0 for no price, and the day its lineage
\* says it was retrieved, 0 for none.  Records of old hold prices without lineage.
NoTarget == [given |-> 0, retrieved |-> 0]
Undated == -1
TargetOf(today) == [given |-> today, retrieved |-> today]   \* build_target_lineage
Complete(target) == target.given # 0 /\ target.retrieved # 0

NoRecord == [updated |-> 0, state |-> "UNKNOWN", hist |-> FALSE, target |-> NoTarget]
OldRecord == [NoRecord EXCEPT !.target.given = Undated]

\* What a run holds: symbol_state with its touched set, the copy of the group's files,
\* the symbols of the group to collect, the failed attempts at the first of them.
AtRest ==
  [refreshed |-> FALSE, groups |-> {}, entries |-> entries, touched |-> {}, group |-> 0,
   daily |-> daily, history |-> history, todo |-> {}, attempts |-> 0]

Of(group) == {s \in Symbols : GroupOf[s] = group}
First(S) == {x \in S : \A y \in S : x <= y}

Mishap(n) == mishaps + n <= MaxMishaps /\ mishaps' = mishaps + n

-----------------------------------------------------------------------------
Init ==
  /\ day = 0 /\ phase = "idle" /\ mishaps = 0 /\ torn = {} /\ quoteless = {}
  /\ mapping \in Listings
  /\ entries = [s \in Symbols |-> NoEntry]
  /\ \E record \in {NoRecord, OldRecord} : daily = [s \in Symbols |-> record]
  /\ history = [s \in Symbols |-> 0]
  /\ work = AtRest

\* The groups of the batch that some mapped symbol belongs to.
TargetGroups(batch, mapped) == {g \in batch : Of(g) \cap mapped # {}}

\* What a download of stored JSON gives: the file, or nothing when it does not parse.
Downloaded(file, none) == {file, [s \in Symbols |-> none]}
Unread(stored, copy) == IF stored = copy THEN 0 ELSE 1

\* resolve_daily_batch, the mapping refresh and the upload of a refreshed mapping.
\* A mapping that is not refreshed is the stored one, or empty when it does not parse.
Begin ==
  /\ phase = "idle" /\ day < LastDay
  /\ day' = day + 1
  /\ \E batch \in Batches, known \in Downloaded(entries, NoEntry) :
       \/ \E listed \in Listings :
            /\ Mishap(Unread(entries, known) + Unread(mapping, listed))
            /\ mapping' = listed
            /\ work' = [AtRest EXCEPT !.refreshed = TRUE, !.entries = known,
                                      !.groups = TargetGroups(batch, listed)]
       \/ \E mapped \in {mapping, {}} :
            /\ Mishap(1 + Unread(entries, known) + Unread(mapping, mapped))
            /\ mapping' = mapping
            /\ work' = [AtRest EXCEPT !.entries = known, !.groups = TargetGroups(batch, mapped)]
  /\ phase' = "groups"
  /\ UNCHANGED <<entries, daily, history, torn, quoteless>>

\* A symbol recorded in the daily file and not in the mapping leaves both files.
PrunedRecords(records, absent) == [s \in Symbols |-> IF s \in absent THEN NoRecord ELSE records[s]]

\* Mutant: only the daily file is pruned
KeptPayloads(payloads, absent) == payloads

PrunedPayloads(payloads, absent) == [s \in Symbols |-> IF s \in absent THEN 0 ELSE payloads[s]]

\* The next group: download its files, prune them, pass over what the lifecycle skips.
LoadGroup ==
  /\ phase = "groups"
  /\ \E g \in First(work.groups), records \in Downloaded(daily, NoRecord),
        payloads \in Downloaded(history, 0) :
       LET stale == {s \in Of(g) \ mapping : records[s] # NoRecord}
           skipped == {s \in Of(g) : SkipForCollection(work.entries[s], work.refreshed)}
           unread == Unread(daily, records) + Unread(history, payloads)
       IN  /\ Mishap(unread)
           /\ torn' = IF unread = 0 THEN torn ELSE torn \cup Of(g)
           /\ work' = [work EXCEPT
                !.group = g,
                !.groups = @ \ {g},
                !.daily = PrunedRecords(records, stale),
                !.history = PrunedPayloads(payloads, stale),
                !.todo = (Of(g) \cap mapping) \ skipped]
  /\ phase' = "collect"
  /\ UNCHANGED <<day, driveVars, quoteless>>

\* _needs_financial_history_refresh, the weekend, or a record without its mark.
WantsHistory(s) ==
  ~work.daily[s].hist \/ day \in WeekendDays \/ work.history[s] = 0

\* What fetching the history of s can give: periods, or 0 when it gives nothing.
Fetches(s) == IF WantsHistory(s) THEN {0, 1, FullMin} ELSE {0}
Shortfall(s, fetched) == IF WantsHistory(s) /\ fetched < FullMin THEN 1 ELSE 0

WithFetched(s, fetched) ==
  IF fetched = 0 THEN work.history ELSE [work.history EXCEPT ![s] = fetched]

\* Mutant: price and lineage are merged key by key, and every answer is stamped
MergedKeys(before, answer) ==
  [given |-> IF answer.given # 0 THEN answer.given ELSE before.given, retrieved |-> day]

\* A target is taken over with its whole lineage, or the previous one is kept with its
\* own; one without lineage is dropped.
MergedTarget(before, answer) ==
  IF Complete(answer) THEN answer ELSE IF Complete(before) THEN before ELSE NoTarget

\* The record an answer leaves: every key that the answer has replaces the previous one.
RecordOf(s, entry, fetched, target) ==
  [updated |-> day, state |-> entry.state,
   hist |-> work.daily[s].hist \/ fetched # 0,
   target |-> MergedTarget(work.daily[s].target, target)]

\* An attempt gets an answer to stock.info: the entry and the record are written,
\* with or without a quote.
Collect ==
  /\ phase = "collect"
  /\ \E s \in First(work.todo) :
     \E fetched \in Fetches(s), quoted, eligible \in BOOLEAN, target \in {TargetOf(day), NoTarget} :
       LET held == WithFetched(s, fetched)
           entry == Updated(work.entries[s], eligible, held[s], quoted, day)
       IN  /\ Mishap(Shortfall(s, fetched) + (IF eligible THEN 0 ELSE 1)
                       + (IF quoted /\ target # NoTarget THEN 0 ELSE 1))
           /\ work' = [work EXCEPT
                !.history = held,
                !.entries[s] = entry,
                !.touched = @ \cup {s},
                !.daily[s] = RecordOf(s, entry, fetched, target),
                !.todo = @ \ {s},
                !.attempts = 0]
  /\ UNCHANGED <<day, driveVars, phase, torn, quoteless>>

\* An attempt raises after the history may have been fetched; the third is the last.
AttemptRaises ==
  /\ phase = "collect"
  /\ \E s \in First(work.todo) :
     \E fetched \in Fetches(s) :
       /\ Mishap(IF work.attempts = 0 THEN 1 ELSE 0)
       /\ IF work.attempts < 2
          THEN /\ work' = [work EXCEPT !.history = WithFetched(s, fetched), !.attempts = @ + 1]
               /\ UNCHANGED quoteless
          ELSE /\ work' = [work EXCEPT !.history = WithFetched(s, fetched),
                                       !.todo = @ \ {s}, !.attempts = 0]
               /\ quoteless' = IF work.daily[s] = NoRecord THEN quoteless \cup {s} ELSE quoteless
  /\ UNCHANGED <<day, driveVars, phase, torn>>

Written(file, copy) == [s \in Symbols |-> IF GroupOf[s] = work.group THEN copy[s] ELSE file[s]]

UploadDaily ==
  /\ phase = "collect" /\ work.todo = {}
  /\ daily' = Written(daily, work.daily)
  /\ phase' = "history"
  /\ UNCHANGED <<day, mapping, entries, history, work, mishaps, torn, quoteless>>

\* A mark without a history, or a history without a record.
Disagree(s, records, payloads) ==
  \/ records[s].hist /\ payloads[s] = 0
  \/ records[s] = NoRecord /\ payloads[s] # 0

UploadHistory ==
  /\ phase = "history"
  /\ history' = Written(history, work.history)
  /\ torn' = {s \in torn : Disagree(s, daily, history')}
  /\ quoteless' = {s \in quoteless : Disagree(s, daily, history')}
  /\ phase' = "groups"
  /\ UNCHANGED <<day, mapping, entries, daily, work, mishaps>>

\* All groups done: the retire policy, the upload of the symbol state, the summary.
Finish ==
  /\ phase = "groups" /\ work.groups = {}
  /\ entries' = AfterRetirement(work.entries, work.touched, day)
  /\ work' = [AtRest EXCEPT !.entries = entries']
  /\ phase' = "idle"
  /\ UNCHANGED <<day, mapping, daily, history, mishaps, torn, quoteless>>

\* Mutant: the failure path saves the symbol state
SavedAtDeath == work.entries

\* What is left of the symbol state of a run that dies: nothing, unless Finish ran.
EntriesAfterDeath == entries

Dies ==
  /\ phase # "idle"
  /\ Mishap(1)
  /\ torn' = IF phase = "history" THEN torn \cup Of(work.group) ELSE torn
  /\ entries' = EntriesAfterDeath
  /\ work' = [AtRest EXCEPT !.entries = entries']
  /\ phase' = "idle"
  /\ UNCHANGED <<day, mapping, daily, history, quoteless>>

Next ==
  \/ Begin \/ LoadGroup \/ Collect \/ AttemptRaises
  \/ UploadDaily \/ UploadHistory \/ Finish \/ Dies

Spec == Init /\ [][Next]_runVars

-----------------------------------------------------------------------------
TypeOK ==
  /\ day \in 0..LastDay /\ mishaps \in 0..MaxMishaps
  /\ mapping \in Listings
  /\ \A s \in Symbols : entries[s] \in Entries \cup {NoEntry}
  /\ \A s \in Symbols : daily[s] \in [updated : 0..LastDay, hist : BOOLEAN,
                                      state : LifecycleStates \cup {"UNKNOWN"},
                                      target : [given : Undated..LastDay, retrieved : 0..LastDay]]
  /\ history \in [Symbols -> {0, 1, FullMin}]
  /\ phase \in {"idle", "groups", "collect", "history"}
  /\ torn \subseteq Symbols /\ quoteless \subseteq Symbols

(* The two files of a group are uploaded one after the other and a history is      *)
(* fetched in an attempt that may yet fail.  A record marked as having its history *)
(* has none only if a run died between the two uploads or a file did not parse, and *)
(* a history outlives its record only for that reason, or because every attempt at *)
(* a symbol new to the file failed.  Pruning, retries and marks that are kept when *)
(* a fetch fails never separate them.                                              *)
GroupFilesAgree ==
  phase # "history" =>
    \A s \in Symbols : Disagree(s, daily, history) =>
      s \in torn \/ (daily[s] = NoRecord /\ s \in quoteless)

(* A record the collector wrote holds a target only with the day it was retrieved, *)
(* and that is the day the vendor gave it, however many answers without a target   *)
(* came after it and whatever was kept through pruning, lost runs and unread files *)
(* (merge_standard_record, _merge_target_lineage_bundle).                          *)
TargetKeepsItsProvenance ==
  \A s \in Symbols :
    daily[s].updated > 0 => /\ daily[s].target.given = daily[s].target.retrieved
                            /\ daily[s].target.given <= daily[s].updated

(* The symbol state is one file for all groups and is uploaded last.  Whatever run *)
(* died wherever, an entry never knows of a collection that the daily file does    *)
(* not; the record of the same collection names the entry's state, unless the      *)
(* symbol has been retired since, which takes RetireDays without a collection.     *)
StateNeverAhead ==
  \A s \in Symbols :
    /\ daily[s] # NoRecord => entries[s].lastSeen <= daily[s].updated
    /\ daily[s] # NoRecord /\ entries[s].lastSeen = daily[s].updated =>
         entries[s].state \in {daily[s].state, "RETIRED"}
    /\ entries[s].state = "RETIRED" => entries[s].lastSeen <= day - RetireDays
=============================================================================
