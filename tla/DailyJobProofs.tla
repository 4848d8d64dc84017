-------------------------- MODULE DailyJobProofs --------------------------
(***************************************************************************)
(* Theorems of the job that MCDailyJob composes, for any symbols, groups,  *)
(* batches, listings, policies, cases, targets, runs and numbers of        *)
(* mishaps.  The parts share no state, so each has an invariant of its own *)
(* and a lemma that a behaviour of the job is one of the part.             *)
(*                                                                         *)
(* The collector works on copies: of the files of one group at a time, and *)
(* of the symbol state.  What the copies hold of a symbol that was not     *)
(* collected is what Drive holds or nothing; what they hold of a collected *)
(* one is of today, and reaches Drive first with the group, then with the  *)
(* state.                                                                  *)
(***************************************************************************)
EXTENDS MCDailyJob, FiniteSetTheorems, WellFoundedInduction, TLAPS

Group(s) == GroupOf[s]
Disagreed(s, records, payloads) == Collector!Disagree(s, records, payloads)

EntrySet == Collector!Entries \cup {Collector!NoEntry}
Targeting == [given : Int, retrieved : Nat]
RecordSet ==
  [updated : Nat, state : Collector!LifecycleStates \cup {"UNKNOWN"}, hist : BOOLEAN, target : Targeting]
WorkSet ==
  [refreshed : BOOLEAN, groups : SUBSET Nat, entries : [Symbols -> EntrySet],
   touched : SUBSET Symbols, group : Nat, daily : [Symbols -> RecordSet],
   history : [Symbols -> Nat], todo : SUBSET Symbols, attempts : Nat]

RunTypes ==
  /\ day \in Nat
  /\ entries \in [Symbols -> EntrySet]
  /\ daily \in [Symbols -> RecordSet]
  /\ history \in [Symbols -> Nat]
  /\ phase \in {"idle", "groups", "collect", "history"}
  /\ work \in WorkSet

\* What a record may say: it is of no day yet, or of one, and then its target
\* is of the day its lineage names
Sound(record) ==
  /\ record.updated <= day
  /\ record.updated = 0 => record.state = "UNKNOWN" /\ record.target.retrieved = 0
  /\ record.updated > 0 => /\ record.target.given = record.target.retrieved
                           /\ record.target.given <= record.updated

\* The entry fits the record, or the symbol has been retired since
Fits(entry, record) ==
  /\ record # Collector!NoRecord => entry.lastSeen <= record.updated
  /\ record # Collector!NoRecord /\ entry.lastSeen = record.updated =>
       entry.state \in {record.state, "RETIRED"}

\* Retired entries have not been seen for RetireDays; none is of the future
Aged(entry) ==
  /\ entry.lastSeen <= day
  /\ entry.state = "RETIRED" => entry.lastSeen <= day - RetireDays

-----------------------------------------------------------------------------
LEMMA Constants ==
  /\ GroupOf \in [Symbols -> Nat] /\ Symbols \subseteq Nat
  /\ FullMin \in Nat \ {0} /\ RetireDays \in Nat \ {0}
BY JobAssumption DEF Collector!LayoutAssumption, Collector!PolicyAssumption

LEMMA Blank ==
  /\ Collector!NoEntry \in EntrySet /\ Collector!NoRecord \in RecordSet
  /\ Collector!NoEntry.lastSeen = 0 /\ Collector!NoEntry.state = "UNKNOWN"
  /\ Collector!NoRecord.updated = 0 /\ Collector!NoRecord.state = "UNKNOWN"
  /\ Collector!NoRecord.hist = FALSE /\ Collector!NoRecord.target.retrieved = 0
BY DEF EntrySet, RecordSet, Targeting, Collector!NoEntry, Collector!NoRecord, Collector!NoTarget

LEMMA Aged0 ==
  ASSUME day \in Nat
  PROVE  Aged(Collector!NoEntry) /\ Sound(Collector!NoRecord)
BY Blank DEF Aged, Sound

\* A collection leaves an entry of its day, which is not a retired one
LEMMA UpdatedEntry ==
  ASSUME NEW entry \in EntrySet, NEW eligible \in BOOLEAN, NEW periods \in Nat,
         NEW quoted \in BOOLEAN, NEW date \in Nat
  PROVE  LET e == Collector!Updated(entry, eligible, periods, quoted, date)
         IN  /\ e \in Collector!Entries /\ e.lastSeen = date
             /\ e.state # "RETIRED"
<1>1. entry.missingHistory \in Nat /\ entry.missingQuote \in Nat
  BY DEF EntrySet, Collector!Entries, Collector!NoEntry
<1> DEFINE mh == Collector!Streak(entry.missingHistory, periods = 0)
           mq == Collector!Streak(entry.missingQuote, ~quoted)
           tier == Collector!HistoryTier(periods)
           state == Collector!Derived(entry.state, eligible, tier, mh, mq)
<1>2. mh \in Nat /\ mq \in Nat
  BY <1>1 DEF Collector!Streak
<1>3. tier \in {"ONBOARDING", "PROVISIONAL", "FULL"}
  BY Constants DEF Collector!HistoryTier
<1> HIDE DEF mh, mq, tier
<1>4. state \in Collector!LifecycleStates \ {"RETIRED"}
  BY <1>3 DEF Collector!Derived, Collector!LifecycleStates
<1> HIDE DEF state
<1>5. Collector!Updated(entry, eligible, periods, quoted, date)
        = [state |-> state, missingHistory |-> mh, missingQuote |-> mq, lastSeen |-> date]
  BY DEF Collector!Updated, mh, mq, tier, state
<1> QED
  BY <1>2, <1>4, <1>5 DEF Collector!Entries

\* A merged target keeps the day that its lineage names
LEMMA TargetMerged ==
  ASSUME day \in Nat \ {0}, NEW record \in RecordSet, Sound(record),
         NEW answer \in {Collector!TargetOf(day), Collector!NoTarget}
  PROVE  LET t == Collector!MergedTarget(record.target, answer)
         IN  t \in Targeting /\ t.given = t.retrieved /\ t.given <= day
BY DEF Collector!MergedTarget, Collector!Complete, Collector!TargetOf, Collector!NoTarget,
       Targeting, RecordSet, Sound

-----------------------------------------------------------------------------
(* What each step does, symbol by symbol.                                  *)

\* Steps that leave Drive alone
Reading == UNCHANGED <<entries, daily, history>>

LEMMA BeginDoes ==
  ASSUME RunTypes, Collector!Begin
  PROVE  /\ phase = "idle" /\ phase' = "groups" /\ day' = day + 1
         /\ UNCHANGED <<entries, daily, history, torn, quoteless>>
         /\ work' \in WorkSet
         /\ work'.touched = {} /\ work'.todo = {} /\ work'.daily = daily
         /\ \A s \in Symbols : work'.entries[s] \in {entries[s], Collector!NoEntry}
<1>1. PICK batch \in Batches, known \in Collector!Downloaded(entries, Collector!NoEntry) :
        \/ \E onList \in Listings :
             work' = [Collector!AtRest EXCEPT !.refreshed = TRUE, !.entries = known,
                        !.groups = Collector!TargetGroups(batch, onList)]
        \/ \E inMap \in {mapping, {}} :
             work' = [Collector!AtRest EXCEPT !.entries = known,
                        !.groups = Collector!TargetGroups(batch, inMap)]
  BY DEF Collector!Begin
<1>2. known \in [Symbols -> EntrySet] /\ \A s \in Symbols : known[s] \in {entries[s], Collector!NoEntry}
  BY Blank DEF Collector!Downloaded, RunTypes
<1> DEFINE Fresh == /\ work' \in WorkSet /\ work'.touched = {} /\ work'.todo = {}
                    /\ work'.daily = daily /\ work'.entries = known
<1>3. Collector!AtRest \in WorkSet /\ Collector!AtRest.touched = {} /\ Collector!AtRest.todo = {}
      /\ Collector!AtRest.daily = daily
  BY DEF Collector!AtRest, WorkSet, RunTypes
<1>4. \A b, m : Collector!TargetGroups(b, m) \in SUBSET Nat
  BY Constants DEF Collector!TargetGroups, Collector!Of
<1>5. ASSUME NEW groups \in SUBSET Nat,
             work' = [Collector!AtRest EXCEPT !.refreshed = TRUE, !.entries = known, !.groups = groups]
      PROVE  Fresh
  BY <1>2, <1>3, <1>5 DEF WorkSet
<1>6. ASSUME NEW groups \in SUBSET Nat,
             work' = [Collector!AtRest EXCEPT !.entries = known, !.groups = groups]
      PROVE  Fresh
  BY <1>2, <1>3, <1>6 DEF WorkSet
<1>7. Fresh
  BY <1>1, <1>4, <1>5, <1>6
<1> QED
  BY <1>2, <1>7 DEF Collector!Begin

LEMMA LoadGroupDoes ==
  ASSUME RunTypes, Collector!LoadGroup
  PROVE  /\ phase = "groups" /\ phase' = "collect"
         /\ Reading /\ UNCHANGED <<day, quoteless>>
         /\ work' \in WorkSet
         /\ work'.entries = work.entries /\ work'.touched = work.touched
         /\ work'.group \in work.groups /\ work'.groups = work.groups \ {work'.group}
         /\ \A s \in work'.todo : Group(s) = work'.group
         /\ torn \subseteq torn'
         /\ \A s \in Symbols :
              /\ work'.daily[s] \in {daily[s], Collector!NoRecord}
              /\ Group(s) = work'.group /\ Disagreed(s, work'.daily, work'.history) =>
                   \/ s \in torn'
                   \/ Disagreed(s, daily, history) /\ work'.daily[s] = daily[s]
<1>1. PICK g \in Collector!First(work.groups),
           records \in Collector!Downloaded(daily, Collector!NoRecord),
           payloads \in Collector!Downloaded(history, 0) :
        LET stale == {s \in Collector!Of(g) \ mapping : records[s] # Collector!NoRecord}
            skipped == {s \in Collector!Of(g) :
                          Collector!SkipForCollection(work.entries[s], work.refreshed)}
        IN  /\ torn' = IF Collector!Unread(daily, records) + Collector!Unread(history, payloads) = 0
                         THEN torn ELSE torn \cup Collector!Of(g)
            /\ work' = [work EXCEPT
                 !.group = g,
                 !.groups = @ \ {g},
                 !.daily = Collector!PrunedRecords(records, stale),
                 !.history = Collector!PrunedPayloads(payloads, stale),
                 !.todo = (Collector!Of(g) \cap mapping) \ skipped]
  BY DEF Collector!LoadGroup
<1> DEFINE stale == {s \in Collector!Of(g) \ mapping : records[s] # Collector!NoRecord}
           skipped == {s \in Collector!Of(g) :
                         Collector!SkipForCollection(work.entries[s], work.refreshed)}
           pruned == Collector!PrunedRecords(records, stale)
           kept == Collector!PrunedPayloads(payloads, stale)
<1>2. g \in work.groups /\ g \in Nat
  BY DEF Collector!First, RunTypes, WorkSet
<1>3. /\ records \in [Symbols -> RecordSet] /\ payloads \in [Symbols -> Nat]
      /\ \A s \in Symbols : records[s] \in {daily[s], Collector!NoRecord}
  BY Blank DEF Collector!Downloaded, RunTypes
<1>4. /\ pruned \in [Symbols -> RecordSet] /\ kept \in [Symbols -> Nat]
      /\ \A s \in Symbols :
           /\ pruned[s] = IF s \in stale THEN Collector!NoRecord ELSE records[s]
           /\ kept[s] = IF s \in stale THEN 0 ELSE payloads[s]
  BY <1>3, Blank DEF Collector!PrunedRecords, Collector!PrunedPayloads
<1> HIDE DEF stale, skipped, pruned, kept
<1>5. /\ work' \in WorkSet /\ work'.entries = work.entries /\ work'.touched = work.touched
      /\ work'.group = g /\ work'.groups = work.groups \ {g}
      /\ work'.daily = pruned /\ work'.history = kept
      /\ work'.todo = (Collector!Of(g) \cap mapping) \ skipped
  <2>1. (Collector!Of(g) \cap mapping) \ skipped \in SUBSET Symbols
    BY DEF Collector!Of
  <2> QED
    BY <1>1, <1>2, <1>4, <2>1 DEF RunTypes, WorkSet, stale, skipped, pruned, kept
<1>6. torn \subseteq torn'
  BY <1>1
<1>7. ASSUME NEW s \in Symbols, Group(s) = g, Disagreed(s, pruned, kept), s \notin torn'
      PROVE  Disagreed(s, daily, history) /\ pruned[s] = daily[s]
  <2>1. s \notin stale
    BY <1>4, <1>7, Blank DEF Disagreed, Collector!Disagree
  <2>2. Collector!Unread(daily, records) + Collector!Unread(history, payloads) = 0
    BY <1>1, <1>7 DEF Collector!Of, Group
  <2>3. records = daily /\ payloads = history
    BY <2>2 DEF Collector!Unread
  <2> QED
    BY <1>4, <1>7, <2>1, <2>3 DEF Disagreed, Collector!Disagree
<1>8. \A s \in Symbols : pruned[s] \in {daily[s], Collector!NoRecord}
  BY <1>3, <1>4
<1>9. \A s \in work'.todo : Group(s) = g
  BY <1>5 DEF Collector!Of, Group
<1> QED
  BY <1>2, <1>5, <1>6, <1>7, <1>8, <1>9 DEF Collector!LoadGroup, Collector!driveVars, Reading

\* A step that gets an answer about one symbol of the group
LEMMA CollectDoes ==
  ASSUME RunTypes, Collector!Collect, day > 0, \A s \in Symbols : Sound(work.daily[s])
  PROVE  /\ phase = "collect" /\ Reading /\ UNCHANGED <<day, phase, torn, quoteless>>
         /\ work' \in WorkSet /\ work'.group = work.group /\ work'.groups = work.groups
         /\ \E s \in work.todo :
              /\ work'.touched = work.touched \cup {s} /\ work'.todo = work.todo \ {s}
              /\ \A x \in Symbols \ {s} : /\ work'.entries[x] = work.entries[x]
                                          /\ work'.daily[x] = work.daily[x]
                                          /\ work'.history[x] = work.history[x]
              /\ work'.entries[s].lastSeen = day /\ work'.entries[s].state # "RETIRED"
              /\ work'.daily[s].updated = day
              /\ work'.daily[s].state = work'.entries[s].state
              /\ work'.daily[s].target.given = work'.daily[s].target.retrieved
              /\ work'.daily[s].target.given <= day
              /\ work'.history[s] # 0 \/ work'.history[s] = work.history[s]
              /\ work'.daily[s].hist => work.daily[s].hist \/ work'.history[s] # 0
<1>1. PICK s \in Collector!First(work.todo) :
        \E fetched \in Collector!Fetches(s), quoted, eligible \in BOOLEAN,
           target \in {Collector!TargetOf(day), Collector!NoTarget} :
          LET kept == Collector!WithFetched(s, fetched)
              entry == Collector!Updated(work.entries[s], eligible, kept[s], quoted, day)
          IN  /\ Collector!Mishap(Collector!Shortfall(s, fetched) + (IF eligible THEN 0 ELSE 1)
                       + (IF quoted /\ target # Collector!NoTarget THEN 0 ELSE 1))
              /\ work' = [work EXCEPT
                   !.history = kept,
                   !.entries[s] = entry,
                   !.touched = @ \cup {s},
                   !.daily[s] = Collector!RecordOf(s, entry, fetched, target),
                   !.todo = @ \ {s},
                   !.attempts = 0]
  BY Zenon DEF Collector!Collect
<1>2. PICK fetched \in Collector!Fetches(s), quoted \in BOOLEAN, eligible \in BOOLEAN,
           target \in {Collector!TargetOf(day), Collector!NoTarget} :
          work' = [work EXCEPT
            !.history = Collector!WithFetched(s, fetched),
            !.entries[s] = Collector!Updated(work.entries[s], eligible,
                             Collector!WithFetched(s, fetched)[s], quoted, day),
            !.touched = @ \cup {s},
            !.daily[s] = Collector!RecordOf(s,
                           Collector!Updated(work.entries[s], eligible,
                             Collector!WithFetched(s, fetched)[s], quoted, day), fetched, target),
            !.todo = @ \ {s},
            !.attempts = 0]
  BY <1>1
<1> DEFINE kept == Collector!WithFetched(s, fetched)
           entry == Collector!Updated(work.entries[s], eligible, kept[s], quoted, day)
           record == Collector!RecordOf(s, entry, fetched, target)
<1>3. s \in work.todo /\ s \in Symbols /\ work \in WorkSet /\ day \in Nat
  BY DEF Collector!First, RunTypes, WorkSet
<1>4. fetched \in Nat
  BY Constants DEF Collector!Fetches
<1>5. /\ kept \in [Symbols -> Nat] /\ kept[s] = (IF fetched = 0 THEN work.history[s] ELSE fetched)
      /\ \A x \in Symbols \ {s} : kept[x] = work.history[x]
  BY <1>3, <1>4 DEF Collector!WithFetched, WorkSet
<1>6. work.entries[s] \in EntrySet /\ kept[s] \in Nat
  BY <1>3, <1>5 DEF WorkSet
<1> HIDE DEF kept
<1>7. entry \in Collector!Entries /\ entry.lastSeen = day /\ entry.state # "RETIRED"
  BY <1>3, <1>6, UpdatedEntry
<1> HIDE DEF entry
<1>8. work.daily[s] \in RecordSet /\ Sound(work.daily[s])
  BY <1>3 DEF WorkSet
<1> DEFINE merged == Collector!MergedTarget(work.daily[s].target, target)
<1>9. merged \in Targeting /\ merged.given = merged.retrieved /\ merged.given <= day
  BY <1>3, <1>8, TargetMerged
<1>10. record = [updated |-> day, state |-> entry.state,
                 hist |-> work.daily[s].hist \/ fetched # 0, target |-> merged]
  BY DEF Collector!RecordOf
<1> HIDE DEF merged, record
<1>11. work.daily[s].hist \in BOOLEAN /\ entry.state \in Collector!LifecycleStates
  BY <1>7, <1>8 DEF RecordSet, Collector!Entries
<1>12. record \in RecordSet
  BY <1>3, <1>9, <1>10, <1>11 DEF RecordSet
<1>13. work' = [work EXCEPT !.history = kept, !.entries[s] = entry, !.touched = @ \cup {s},
                            !.daily[s] = record, !.todo = @ \ {s}, !.attempts = 0]
  BY <1>2 DEF kept, entry, record
<1>14. /\ work' \in WorkSet /\ work'.group = work.group /\ work'.groups = work.groups
       /\ work'.touched = work.touched \cup {s} /\ work'.todo = work.todo \ {s}
       /\ work'.history = kept
       /\ work'.entries = [work.entries EXCEPT ![s] = entry]
       /\ work'.daily = [work.daily EXCEPT ![s] = record]
  BY <1>3, <1>5, <1>7, <1>12, <1>13 DEF WorkSet, EntrySet
<1>15. /\ work'.entries[s] = entry /\ work'.daily[s] = record
       /\ \A x \in Symbols \ {s} : /\ work'.entries[x] = work.entries[x]
                                   /\ work'.daily[x] = work.daily[x]
                                   /\ work'.history[x] = work.history[x]
  BY <1>3, <1>5, <1>14 DEF WorkSet
<1>16. /\ record.updated = day /\ record.state = entry.state
       /\ record.target.given = record.target.retrieved /\ record.target.given <= day
       /\ record.hist => work.daily[s].hist \/ fetched # 0
  BY <1>9, <1>10
<1>17. work'.history[s] = kept[s]
  BY <1>14
<1> QED
  BY <1>3, <1>5, <1>7, <1>14, <1>15, <1>16, <1>17 DEF Collector!Collect, Collector!driveVars, Reading

LEMMA AttemptDoes ==
  ASSUME RunTypes, Collector!AttemptRaises
  PROVE  /\ phase = "collect" /\ Reading /\ UNCHANGED <<day, phase, torn>>
         /\ quoteless \subseteq quoteless'
         /\ work' \in WorkSet /\ work'.group = work.group /\ work'.groups = work.groups
         /\ work'.entries = work.entries /\ work'.daily = work.daily /\ work'.touched = work.touched
         /\ work'.todo \subseteq work.todo
         /\ \A s \in work.todo \ work'.todo :
              work.daily[s] = Collector!NoRecord => s \in quoteless'
         /\ \A s \in Symbols : work'.history[s] = work.history[s] \/ (work'.history[s] # 0 /\ s \in work.todo)
<1>1. PICK s \in Collector!First(work.todo) :
        \E fetched \in Collector!Fetches(s) :
          IF work.attempts < 2
            THEN /\ work' = [work EXCEPT !.history = Collector!WithFetched(s, fetched), !.attempts = @ + 1]
                 /\ UNCHANGED quoteless
            ELSE /\ work' = [work EXCEPT !.history = Collector!WithFetched(s, fetched),
                                         !.todo = @ \ {s}, !.attempts = 0]
                 /\ quoteless' = IF work.daily[s] = Collector!NoRecord
                                   THEN quoteless \cup {s} ELSE quoteless
  BY DEF Collector!AttemptRaises
<1>a. PICK fetched \in Collector!Fetches(s) :
        IF work.attempts < 2
          THEN /\ work' = [work EXCEPT !.history = Collector!WithFetched(s, fetched), !.attempts = @ + 1]
               /\ UNCHANGED quoteless
          ELSE /\ work' = [work EXCEPT !.history = Collector!WithFetched(s, fetched),
                                       !.todo = @ \ {s}, !.attempts = 0]
               /\ quoteless' = IF work.daily[s] = Collector!NoRecord
                                 THEN quoteless \cup {s} ELSE quoteless
  BY <1>1
<1> DEFINE kept == Collector!WithFetched(s, fetched)
<1>2. s \in work.todo /\ s \in Symbols /\ work \in WorkSet
  BY DEF Collector!First, RunTypes, WorkSet
<1>3. fetched \in Nat
  BY Constants DEF Collector!Fetches
<1>4. /\ kept \in [Symbols -> Nat]
      /\ \A x \in Symbols : kept[x] = work.history[x] \/ (kept[x] # 0 /\ x \in work.todo)
  BY <1>2, <1>3 DEF Collector!WithFetched, WorkSet
<1> HIDE DEF kept
<1>5. CASE work.attempts < 2
  <2>1. work' = [work EXCEPT !.history = kept, !.attempts = @ + 1] /\ UNCHANGED quoteless
    BY <1>a, <1>5 DEF kept
  <2>2. /\ work' \in WorkSet /\ work'.group = work.group /\ work'.groups = work.groups
        /\ work'.entries = work.entries /\ work'.daily = work.daily
        /\ work'.touched = work.touched /\ work'.todo = work.todo /\ work'.history = kept
    <3>1. work.attempts + 1 \in Nat
      BY <1>2 DEF WorkSet
    <3>2. work' = [work EXCEPT !.history = kept, !.attempts = work.attempts + 1]
      BY <2>1
    <3> DEFINE n == work.attempts + 1
    <3> HIDE DEF n
    <3>3. n \in Nat /\ work' = [work EXCEPT !.history = kept, !.attempts = n]
      BY <3>1, <3>2 DEF n
    <3> QED
      BY <1>2, <1>4, <3>3 DEF WorkSet
  <2> QED
    BY <1>4, <2>1, <2>2 DEF Collector!AttemptRaises, Collector!driveVars, Reading
<1>6. CASE ~(work.attempts < 2)
  <2>1. /\ work' = [work EXCEPT !.history = kept, !.todo = @ \ {s}, !.attempts = 0]
        /\ quoteless \subseteq quoteless' /\ (work.daily[s] = Collector!NoRecord => s \in quoteless')
    BY <1>a, <1>6 DEF kept
  <2> QED
    BY <1>2, <1>4, <2>1 DEF Collector!AttemptRaises, Collector!driveVars, Reading, WorkSet
<1> QED
  BY <1>5, <1>6

LEMMA UploadDailyDoes ==
  ASSUME RunTypes, Collector!UploadDaily
  PROVE  /\ phase = "collect" /\ phase' = "history" /\ work.todo = {}
         /\ daily' \in [Symbols -> RecordSet]
         /\ \A s \in Symbols : daily'[s] = IF Group(s) = work.group THEN work.daily[s] ELSE daily[s]
         /\ UNCHANGED <<day, entries, history, work, torn, quoteless>>
BY DEF Collector!UploadDaily, Collector!Written, Group, RunTypes, WorkSet

LEMMA UploadHistoryDoes ==
  ASSUME RunTypes, Collector!UploadHistory
  PROVE  /\ phase = "history" /\ phase' = "groups"
         /\ history' \in [Symbols -> Nat]
         /\ \A s \in Symbols : history'[s] = IF Group(s) = work.group THEN work.history[s] ELSE history[s]
         /\ torn' = {s \in torn : Disagreed(s, daily, history')}
         /\ quoteless' = {s \in quoteless : Disagreed(s, daily, history')}
         /\ UNCHANGED <<day, entries, daily, work>>
BY DEF Collector!UploadHistory, Collector!Written, Group, Disagreed, RunTypes, WorkSet

LEMMA FinishDoes ==
  ASSUME RunTypes, Collector!Finish
  PROVE  /\ phase = "groups" /\ phase' = "idle"
         /\ entries' \in [Symbols -> EntrySet] /\ work' \in WorkSet
         /\ \A s \in Symbols :
              \/ entries'[s] = work.entries[s]
              \/ /\ s \notin work.touched
                 /\ entries'[s].lastSeen = work.entries[s].lastSeen
                 /\ entries'[s].state = "RETIRED"
                 /\ work.entries[s].lastSeen <= day - RetireDays
         /\ UNCHANGED <<day, daily, history, torn, quoteless>>
<1>1. /\ entries' = Collector!AfterRetirement(work.entries, work.touched, day)
      /\ work' = [Collector!AtRest EXCEPT !.entries = entries']
      /\ phase = "groups" /\ phase' = "idle"
      /\ UNCHANGED <<day, daily, history, torn, quoteless>>
  BY DEF Collector!Finish
<1>2. work.entries \in [Symbols -> EntrySet]
  BY DEF RunTypes, WorkSet
<1>3. ASSUME NEW e \in EntrySet, e # Collector!NoEntry
      PROVE  /\ [e EXCEPT !.state = "RETIRED"] \in EntrySet
             /\ [e EXCEPT !.state = "RETIRED"].lastSeen = e.lastSeen
             /\ [e EXCEPT !.state = "RETIRED"].state = "RETIRED"
  BY <1>3 DEF EntrySet, Collector!Entries, Collector!LifecycleStates
<1>4. /\ DOMAIN work.entries = Symbols /\ \A s \in Symbols : work.entries[s] \in EntrySet
      /\ entries' = [s \in Symbols |->
           IF /\ work.entries[s] # Collector!NoEntry
              /\ s \notin work.touched
              /\ work.entries[s].lastSeen <= day - RetireDays
           THEN [work.entries[s] EXCEPT !.state = "RETIRED"] ELSE work.entries[s]]
  BY <1>1, <1>2 DEF Collector!AfterRetirement
<1>5. \A s \in Symbols :
        /\ entries'[s] \in EntrySet
        /\ \/ entries'[s] = work.entries[s]
           \/ /\ s \notin work.touched
              /\ entries'[s].lastSeen = work.entries[s].lastSeen
              /\ entries'[s].state = "RETIRED"
              /\ work.entries[s].lastSeen <= day - RetireDays
  BY <1>3, <1>4
<1>6. entries' \in [Symbols -> EntrySet]
  BY <1>4, <1>5
<1>7. Collector!AtRest \in WorkSet
  BY DEF Collector!AtRest, WorkSet, RunTypes
<1>8. work' \in WorkSet
  BY <1>1, <1>6, <1>7 DEF WorkSet
<1> QED
  BY <1>1, <1>5, <1>6, <1>8

LEMMA DiesDoes ==
  ASSUME RunTypes, Collector!Dies
  PROVE  /\ phase # "idle" /\ phase' = "idle" /\ work' \in WorkSet
         /\ torn \subseteq torn'
         /\ phase = "history" => \A s \in Symbols : Group(s) = work.group => s \in torn'
         /\ UNCHANGED <<day, entries, daily, history, quoteless>>
<1>1. /\ work' = [Collector!AtRest EXCEPT !.entries = entries'] /\ entries' = entries
      /\ phase # "idle" /\ phase' = "idle"
      /\ torn' = IF phase = "history" THEN torn \cup Collector!Of(work.group) ELSE torn
      /\ UNCHANGED <<day, daily, history, quoteless>>
  BY DEF Collector!Dies, Collector!EntriesAfterDeath
<1>2. Collector!AtRest \in WorkSet
  BY DEF Collector!AtRest, WorkSet, RunTypes
<1>3. work' \in WorkSet
  BY <1>1, <1>2 DEF WorkSet, RunTypes
<1> QED
  BY <1>1, <1>3 DEF Collector!Of, Group

-----------------------------------------------------------------------------
(* The invariant.                                                          *)

\* The record of s as the run knows it
Current(s) == IF phase = "collect" /\ Group(s) = work.group THEN work.daily[s] ELSE daily[s]

\* The run's symbol state: Drive's or nothing of a symbol not collected, and
\* of a collected one what its record says; Drive's state is of earlier days
Memory ==
  phase # "idle" =>
    /\ day > 0
    /\ \A s \in Symbols :
         /\ s \notin work.touched => work.entries[s] \in {entries[s], Collector!NoEntry}
         /\ s \in work.touched =>
              /\ Group(s) \notin work.groups
              /\ work.entries[s].lastSeen = day /\ work.entries[s].state # "RETIRED"
              /\ Current(s).updated = day /\ Current(s).state = work.entries[s].state
         /\ entries[s].lastSeen < day
    /\ phase = "collect" =>
         /\ work.group \notin work.groups
         /\ \A s \in work.todo : Group(s) = work.group
         /\ \A s \in Symbols : Group(s) = work.group /\ s \notin work.touched =>
              work.daily[s] \in {daily[s], Collector!NoRecord}

\* What Drive holds of a symbol: a sound record and an entry that fits it
Stories ==
  \A s \in Symbols :
    /\ Sound(daily[s]) /\ (phase = "collect" => Sound(work.daily[s]))
    /\ Fits(entries[s], daily[s]) /\ Aged(entries[s])

Explained(s, records, payloads) ==
  Disagreed(s, records, payloads) =>
    s \in torn \/ (records[s] = Collector!NoRecord /\ s \in quoteless)

\* The stored files agree, and so do the run's copies but for a symbol whose
\* history was fetched in an attempt that failed and that has attempts left
Agreement ==
  /\ \A s \in Symbols :
       (phase = "history" /\ Group(s) = work.group) \/ Explained(s, daily, history)
  /\ phase = "collect" => \A s \in Symbols : Group(s) = work.group =>
       \/ Explained(s, work.daily, work.history)
       \/ (s \in work.todo /\ work.daily[s] = Collector!NoRecord)
  /\ phase = "history" => \A s \in Symbols : Group(s) = work.group =>
       daily[s] = work.daily[s] /\ Explained(s, work.daily, work.history)

RunInv == RunTypes /\ Memory /\ Stories /\ Agreement

\* The day passes: what was sound and aged stays so
LEMMA DayPasses ==
  ASSUME day \in Nat, day' \in Nat, day <= day'
  PROVE  /\ \A record \in RecordSet : Sound(record) => Sound(record)'
         /\ \A entry \in EntrySet : Aged(entry) => Aged(entry)'
BY Constants DEF Sound, Aged, RecordSet, Targeting, EntrySet, Collector!Entries, Collector!NoEntry

LEMMA Initially == Collector!Init => RunInv
<1> SUFFICES ASSUME Collector!Init PROVE RunInv
  OBVIOUS
<1>1. PICK record \in {Collector!NoRecord, Collector!OldRecord} : daily = [s \in Symbols |-> record]
  BY DEF Collector!Init
<1>2. /\ record \in RecordSet /\ record.updated = 0 /\ record.state = "UNKNOWN"
      /\ record.hist = FALSE /\ record.target.retrieved = 0
  <2> DEFINE old == Collector!NoRecord.target
             target == [old EXCEPT !.given = Collector!Undated]
  <2>1. old \in Targeting /\ old.retrieved = 0
    BY Blank DEF RecordSet
  <2> HIDE DEF old
  <2>2. target \in Targeting /\ target.retrieved = 0
    BY <2>1 DEF Targeting, Collector!Undated
  <2>3. Collector!OldRecord = [Collector!NoRecord EXCEPT !.target = target]
    BY DEF Collector!OldRecord, old
  <2> HIDE DEF target
  <2> QED
    BY <2>2, <2>3, Blank DEF RecordSet
<1>3. /\ day = 0 /\ phase = "idle" /\ work = Collector!AtRest
      /\ entries = [s \in Symbols |-> Collector!NoEntry] /\ history = [s \in Symbols |-> 0]
  BY DEF Collector!Init
<1>4. RunTypes
  BY <1>1, <1>2, <1>3, Blank DEF RunTypes, WorkSet, Collector!AtRest
<1>5. Stories
  BY <1>1, <1>2, <1>3, Blank, Constants DEF Stories, Sound, Fits, Aged
<1>6. Agreement
  BY <1>1, <1>2, <1>3 DEF Agreement, Explained, Disagreed, Collector!Disagree
<1> QED
  BY <1>3, <1>4, <1>5, <1>6 DEF RunInv, Memory

LEMMA TypesKept == RunInv /\ [Collector!Next]_Collector!runVars => RunTypes'
<1> SUFFICES ASSUME RunInv, [Collector!Next]_Collector!runVars PROVE RunTypes'
  OBVIOUS
<1> USE DEF RunInv
<1>1. CASE Collector!Begin
  BY <1>1, BeginDoes DEF RunTypes
<1>2. CASE Collector!LoadGroup
  BY <1>2, LoadGroupDoes DEF RunTypes, Reading
<1>3. CASE Collector!Collect
  <2>1. day > 0 /\ \A s \in Symbols : Sound(work.daily[s])
    BY <1>3 DEF Memory, Stories, Collector!Collect
  <2> QED
    BY <1>3, <2>1, CollectDoes DEF RunTypes, Reading
<1>4. CASE Collector!AttemptRaises
  BY <1>4, AttemptDoes DEF RunTypes, Reading
<1>5. CASE Collector!UploadDaily
  BY <1>5, UploadDailyDoes DEF RunTypes
<1>6. CASE Collector!UploadHistory
  BY <1>6, UploadHistoryDoes DEF RunTypes
<1>7. CASE Collector!Finish
  BY <1>7, FinishDoes DEF RunTypes
<1>8. CASE Collector!Dies
  BY <1>8, DiesDoes DEF RunTypes
<1>9. CASE UNCHANGED Collector!runVars
  BY <1>9 DEF RunTypes, Collector!runVars, Collector!driveVars
<1> QED
  BY <1>1, <1>2, <1>3, <1>4, <1>5, <1>6, <1>7, <1>8, <1>9 DEF Collector!Next

LEMMA MemoryKept == RunInv /\ [Collector!Next]_Collector!runVars => Memory'
<1> SUFFICES ASSUME RunInv, [Collector!Next]_Collector!runVars PROVE Memory'
  OBVIOUS
<1>0. RunTypes /\ Memory /\ Stories
  BY DEF RunInv
<1> DEFINE Remembers(s) ==
         /\ s \notin work.touched => work.entries[s] \in {entries[s], Collector!NoEntry}
         /\ s \in work.touched =>
              /\ Group(s) \notin work.groups
              /\ work.entries[s].lastSeen = day /\ work.entries[s].state # "RETIRED"
              /\ Current(s).updated = day /\ Current(s).state = work.entries[s].state
         /\ entries[s].lastSeen < day
<1>1. CASE Collector!Begin
  <2>1. \A s \in Symbols : entries[s].lastSeen < day'
    BY <1>0, <1>1, BeginDoes DEF Stories, Aged, RunTypes, EntrySet, Collector!Entries, Collector!NoEntry
  <2>2. day' > 0
    BY <1>0, <1>1, BeginDoes DEF RunTypes
  <2> QED
    BY <1>0, <1>1, <2>1, <2>2, BeginDoes DEF Memory
<1>2. CASE Collector!LoadGroup
  <2>1. \A s \in Symbols : s \in work.touched => Group(s) # work'.group
    BY <1>0, <1>2, LoadGroupDoes DEF Memory
  <2>2. \A s \in Symbols : s \in work.touched => Current(s)' = Current(s)
    BY <1>0, <1>2, <2>1, LoadGroupDoes DEF Current, Reading
  <2>3. \A s \in Symbols : Remembers(s)'
    BY <1>0, <1>2, <2>2, LoadGroupDoes DEF Memory, Reading
  <2> QED
    BY <1>0, <1>2, <2>3, LoadGroupDoes DEF Memory, Reading
<1>3. CASE Collector!Collect
  <2>1. day > 0 /\ \A s \in Symbols : Sound(work.daily[s])
    BY <1>0, <1>3 DEF Memory, Stories, Collector!Collect
  <2>2. PICK s \in work.todo :
              /\ work'.touched = work.touched \cup {s} /\ work'.todo = work.todo \ {s}
              /\ \A x \in Symbols \ {s} : /\ work'.entries[x] = work.entries[x]
                                          /\ work'.daily[x] = work.daily[x]
              /\ work'.entries[s].lastSeen = day /\ work'.entries[s].state # "RETIRED"
              /\ work'.daily[s].updated = day
              /\ work'.daily[s].state = work'.entries[s].state
    BY <1>0, <1>3, <2>1, CollectDoes
  <2>3. /\ phase = "collect" /\ phase' = "collect" /\ UNCHANGED <<day, entries, daily>>
        /\ work'.group = work.group /\ work'.groups = work.groups
    BY <1>0, <1>3, <2>1, CollectDoes DEF Reading
  <2>4. Group(s) = work.group /\ work.group \notin work.groups
    BY <1>0, <2>3 DEF Memory
  <2>5. Remembers(s)'
    BY <1>0, <2>2, <2>3, <2>4 DEF Memory, Current, RunTypes, WorkSet
  <2>6. ASSUME NEW x \in Symbols \ {s} PROVE Remembers(x)'
    <3>1. Remembers(x) /\ Current(x)' = Current(x)
      BY <1>0, <2>2, <2>3 DEF Memory, Current
    <3> QED
      BY <2>2, <2>3, <3>1
  <2> HIDE DEF Remembers
  <2>7. \A x \in Symbols : Remembers(x)'
    BY <2>5, <2>6
  <2>8. \A x \in Symbols : Group(x) = work.group /\ x \notin work'.touched =>
          work'.daily[x] \in {daily[x], Collector!NoRecord}
    BY <1>0, <2>2, <2>3 DEF Memory
  <2>9. \A x \in work'.todo : Group(x) = work'.group
    BY <1>0, <2>2, <2>3 DEF Memory
  <2> QED
    BY <2>1, <2>3, <2>4, <2>7, <2>8, <2>9 DEF Memory, Remembers
<1>4. CASE Collector!AttemptRaises
  <2>1. \A s \in Symbols : Current(s)' = Current(s)
    BY <1>0, <1>4, AttemptDoes DEF Current, Reading
  <2> QED
    BY <1>0, <1>4, <2>1, AttemptDoes DEF Memory, Reading
<1>5. CASE Collector!UploadDaily
  <2>1. \A s \in Symbols : Current(s)' = Current(s)
    BY <1>0, <1>5, UploadDailyDoes DEF Current
  <2> QED
    BY <1>0, <1>5, <2>1, UploadDailyDoes DEF Memory
<1>6. CASE Collector!UploadHistory
  <2>1. \A s \in Symbols : Current(s)' = Current(s)
    BY <1>0, <1>6, UploadHistoryDoes DEF Current
  <2> QED
    BY <1>0, <1>6, <2>1, UploadHistoryDoes DEF Memory
<1>7. CASE Collector!Finish
  BY <1>0, <1>7, FinishDoes DEF Memory
<1>8. CASE Collector!Dies
  BY <1>0, <1>8, DiesDoes DEF Memory
<1>9. CASE UNCHANGED Collector!runVars
  BY <1>0, <1>9 DEF Memory, Current, Collector!runVars, Collector!driveVars
<1> QED
  BY <1>1, <1>2, <1>3, <1>4, <1>5, <1>6, <1>7, <1>8, <1>9 DEF Collector!Next

LEMMA StoriesKept == RunInv /\ [Collector!Next]_Collector!runVars => Stories'
<1> SUFFICES ASSUME RunInv, [Collector!Next]_Collector!runVars PROVE Stories'
  OBVIOUS
<1>0. RunTypes /\ Memory /\ Stories
  BY DEF RunInv
<1>a. ASSUME NEW s \in Symbols
      PROVE  /\ daily[s] \in RecordSet /\ entries[s] \in EntrySet
             /\ work.daily[s] \in RecordSet /\ work.entries[s] \in EntrySet
             /\ daily[s].updated \in Nat /\ entries[s].lastSeen \in Nat
  BY <1>0 DEF RunTypes, WorkSet, RecordSet, EntrySet, Collector!Entries, Collector!NoEntry
<1>b. day \in Nat
  BY <1>0 DEF RunTypes
<1>1. CASE Collector!Begin
  BY <1>0, <1>1, <1>a, <1>b, BeginDoes, DayPasses DEF Stories, Fits
<1>2. CASE Collector!LoadGroup
  <2>1. /\ UNCHANGED <<day, daily, entries>>
        /\ \A s \in Symbols : work'.daily[s] \in {daily[s], Collector!NoRecord}
    BY <1>0, <1>2, LoadGroupDoes DEF Reading
  <2> QED
    BY <1>0, <1>b, <2>1, Aged0 DEF Stories, Sound, Fits, Aged
<1>3. CASE Collector!Collect
  <2>1. day > 0 /\ phase = "collect" /\ \A s \in Symbols : Sound(work.daily[s])
    BY <1>0, <1>3 DEF Memory, Stories, Collector!Collect
  <2>2. PICK s \in work.todo :
              /\ \A x \in Symbols \ {s} : work'.daily[x] = work.daily[x]
              /\ work'.daily[s].updated = day
              /\ work'.daily[s].target.given = work'.daily[s].target.retrieved
              /\ work'.daily[s].target.given <= day
    BY <1>0, <1>3, <2>1, CollectDoes
  <2>3. phase' = "collect" /\ UNCHANGED <<day, entries, daily>>
    BY <1>0, <1>3, <2>1, CollectDoes DEF Reading
  <2>4. \A x \in Symbols : Sound(work.daily[x])'
    BY <1>b, <2>1, <2>2, <2>3 DEF Sound
  <2> QED
    BY <1>0, <2>3, <2>4 DEF Stories, Sound, Fits, Aged
<1>4. CASE Collector!AttemptRaises
  <2>1. UNCHANGED <<day, phase, entries, daily>> /\ work'.daily = work.daily
    BY <1>0, <1>4, AttemptDoes DEF Reading
  <2> QED
    BY <1>0, <2>1 DEF Stories, Sound, Fits, Aged
<1>5. CASE Collector!UploadDaily
  <2>1. /\ phase = "collect" /\ phase' = "history" /\ UNCHANGED <<day, entries, work>>
        /\ \A s \in Symbols : daily'[s] = IF Group(s) = work.group THEN work.daily[s] ELSE daily[s]
    BY <1>0, <1>5, UploadDailyDoes
  <2>2. ASSUME NEW s \in Symbols PROVE Sound(daily[s])' /\ Aged(entries[s])'
    BY <1>0, <2>1 DEF Stories, Sound, Aged
  <2>3. ASSUME NEW s \in Symbols PROVE Fits(entries[s], daily[s])'
    <3>1. CASE Group(s) = work.group /\ s \in work.touched
      <4>1. daily'[s].updated = day /\ entries[s].lastSeen < day
        BY <1>0, <2>1, <3>1 DEF Memory, Current
      <4> QED
        BY <1>a, <1>b, <2>1, <4>1 DEF Fits
    <3>2. CASE Group(s) = work.group /\ s \notin work.touched
      <4>1. daily'[s] \in {daily[s], Collector!NoRecord}
        BY <1>0, <2>1, <3>2 DEF Memory
      <4> QED
        BY <1>0, <2>1, <4>1 DEF Stories, Fits
    <3>3. CASE Group(s) # work.group
      BY <1>0, <2>1, <3>3 DEF Stories, Fits
    <3> QED
      BY <3>1, <3>2, <3>3
  <2> QED
    BY <2>1, <2>2, <2>3 DEF Stories
<1>6. CASE Collector!UploadHistory
  BY <1>0, <1>6, UploadHistoryDoes DEF Stories, Sound, Fits, Aged
<1>7. CASE Collector!Finish
  <2>1. /\ phase = "groups" /\ phase' = "idle" /\ UNCHANGED <<day, daily>>
        /\ \A s \in Symbols :
              \/ entries'[s] = work.entries[s]
              \/ /\ s \notin work.touched
                 /\ entries'[s].lastSeen = work.entries[s].lastSeen
                 /\ entries'[s].state = "RETIRED"
                 /\ work.entries[s].lastSeen <= day - RetireDays
    BY <1>0, <1>7, FinishDoes
  <2>2. ASSUME NEW s \in Symbols PROVE Sound(daily[s])'
    BY <1>0, <2>1 DEF Stories, Sound
  <2>3. ASSUME NEW s \in Symbols
        PROVE  Fits(work.entries[s], daily[s]) /\ Aged(work.entries[s])
    <3>1. CASE s \in work.touched
      <4>1. /\ daily[s].updated = day /\ daily[s].state = work.entries[s].state
            /\ work.entries[s].lastSeen = day /\ work.entries[s].state # "RETIRED"
        BY <1>0, <2>1, <3>1 DEF Memory, Current
      <4> QED
        BY <1>b, <4>1 DEF Fits, Aged
    <3>2. CASE s \notin work.touched
      <4>1. work.entries[s] \in {entries[s], Collector!NoEntry}
        BY <1>0, <2>1, <3>2 DEF Memory
      <4>2. Fits(Collector!NoEntry, daily[s])
        BY <1>0, <1>a, Blank DEF Stories, Sound, Fits
      <4> QED
        BY <1>0, <1>b, <4>1, <4>2, Aged0 DEF Stories
    <3> QED
      BY <3>1, <3>2
  <2>4. ASSUME NEW s \in Symbols PROVE (Fits(entries[s], daily[s]) /\ Aged(entries[s]))'
    <3>1. work.entries[s].lastSeen \in Nat
      BY <1>a DEF EntrySet, Collector!Entries, Collector!NoEntry
    <3> QED
      BY <1>a, <1>b, <2>1, <2>3, <3>1 DEF Fits, Aged
  <2> QED
    BY <2>1, <2>2, <2>4 DEF Stories
<1>8. CASE Collector!Dies
  BY <1>0, <1>8, DiesDoes DEF Stories, Sound, Fits, Aged
<1>9. CASE UNCHANGED Collector!runVars
  BY <1>0, <1>9 DEF Stories, Sound, Fits, Aged, Collector!runVars, Collector!driveVars
<1> QED
  BY <1>1, <1>2, <1>3, <1>4, <1>5, <1>6, <1>7, <1>8, <1>9 DEF Collector!Next

\* Whether a symbol is explained is a matter of its own record and payload
LEMMA SameStory ==
  ASSUME NEW s \in Symbols, NEW a, NEW b, NEW c, NEW d, a[s] = c[s], b[s] = d[s]
  PROVE  Disagreed(s, a, b) <=> Disagreed(s, c, d)
BY DEF Disagreed, Collector!Disagree

LEMMA AgreementKept == RunInv /\ [Collector!Next]_Collector!runVars => Agreement'
<1> SUFFICES ASSUME RunInv, [Collector!Next]_Collector!runVars PROVE Agreement'
  OBVIOUS
<1>0. RunTypes /\ Memory /\ Stories /\ Agreement
  BY DEF RunInv
<1>1. CASE Collector!Begin
  BY <1>0, <1>1, BeginDoes DEF Agreement, Explained, Disagreed, Collector!Disagree
<1>2. CASE Collector!LoadGroup
  <2>1. /\ phase = "groups" /\ phase' = "collect" /\ UNCHANGED <<daily, history, quoteless>>
        /\ torn \subseteq torn'
        /\ \A s \in Symbols :
              Group(s) = work'.group /\ Disagreed(s, work'.daily, work'.history) =>
                   \/ s \in torn'
                   \/ Disagreed(s, daily, history) /\ work'.daily[s] = daily[s]
    BY <1>0, <1>2, LoadGroupDoes DEF Reading
  <2>2. \A s \in Symbols : Explained(s, daily, history)
    BY <1>0, <2>1 DEF Agreement
  <2>3. \A s \in Symbols : Explained(s, daily, history)'
    BY <2>1, <2>2 DEF Explained, Disagreed, Collector!Disagree
  <2>4. \A s \in Symbols : Group(s) = work'.group => Explained(s, work.daily, work.history)'
    <3> SUFFICES ASSUME NEW s \in Symbols, Group(s) = work'.group,
                        Disagreed(s, work'.daily, work'.history)
                 PROVE  \/ s \in torn'
                        \/ work'.daily[s] = Collector!NoRecord /\ s \in quoteless'
      BY DEF Explained, Disagreed, Collector!Disagree
    <3> QED
      BY <2>1, <2>2 DEF Explained
  <2> QED
    BY <2>1, <2>3, <2>4 DEF Agreement
<1>3. CASE Collector!Collect
  <2>1. day > 0 /\ phase = "collect" /\ \A s \in Symbols : Sound(work.daily[s])
    BY <1>0, <1>3 DEF Memory, Stories, Collector!Collect
  <2>2. PICK s \in work.todo :
              /\ work'.todo = work.todo \ {s}
              /\ \A x \in Symbols \ {s} : /\ work'.daily[x] = work.daily[x]
                                          /\ work'.history[x] = work.history[x]
              /\ work'.daily[s].updated = day
              /\ work'.history[s] # 0 \/ work'.history[s] = work.history[s]
              /\ work'.daily[s].hist => work.daily[s].hist \/ work'.history[s] # 0
    BY <1>0, <1>3, <2>1, CollectDoes
  <2>3. /\ phase' = "collect" /\ UNCHANGED <<daily, history, torn, quoteless>>
        /\ work'.group = work.group
    BY <1>0, <1>3, <2>1, CollectDoes DEF Reading
  <2>4. \A x \in Symbols : Explained(x, daily, history)'
    BY <1>0, <2>1, <2>3 DEF Agreement, Explained, Disagreed, Collector!Disagree
  <2>5. s \in Symbols /\ Group(s) = work.group
    BY <1>0, <2>1 DEF Memory, RunTypes, WorkSet
  <2>6. Explained(s, work.daily, work.history)'
    <3> SUFFICES ASSUME Disagreed(s, work'.daily, work'.history) PROVE s \in torn'
      BY DEF Explained, Disagreed, Collector!Disagree
    <3>1. work'.daily[s] # Collector!NoRecord
      BY <2>1, <2>2, Blank
    <3>2. /\ work'.history[s] = 0 /\ work.history[s] = 0 /\ work.daily[s].hist
      BY <2>2, <3>1 DEF Disagreed, Collector!Disagree
    <3>3. work.daily[s] # Collector!NoRecord
      BY <3>2, Blank
    <3>4. Disagreed(s, work.daily, work.history)
      BY <3>2 DEF Disagreed, Collector!Disagree
    <3> QED
      BY <1>0, <2>1, <2>3, <2>5, <3>3, <3>4 DEF Agreement, Explained
  <2>7. ASSUME NEW x \in Symbols, Group(x) = work.group
        PROVE  \/ Explained(x, work.daily, work.history)'
               \/ (x \in work'.todo /\ work'.daily[x] = Collector!NoRecord)
    <3>1. CASE x = s
      BY <2>6, <3>1
    <3>2. CASE x # s
      <4>1. \/ Explained(x, work.daily, work.history)
            \/ (x \in work.todo /\ work.daily[x] = Collector!NoRecord)
        BY <1>0, <2>1, <2>7 DEF Agreement
      <4>2. work'.daily[x] = work.daily[x] /\ work'.history[x] = work.history[x]
        BY <2>2, <3>2
      <4> QED
        BY <2>2, <2>3, <3>2, <4>1, <4>2 DEF Explained, Disagreed, Collector!Disagree
    <3> QED
      BY <3>1, <3>2
  <2> QED
    BY <2>3, <2>4, <2>7 DEF Agreement
<1>4. CASE Collector!AttemptRaises
  <2>1. /\ phase = "collect" /\ UNCHANGED <<phase, daily, history, torn>>
        /\ quoteless \subseteq quoteless'
        /\ work'.group = work.group /\ work'.daily = work.daily
        /\ \A s \in work.todo \ work'.todo :
              work.daily[s] = Collector!NoRecord => s \in quoteless'
        /\ \A s \in Symbols :
              work'.history[s] = work.history[s] \/ (work'.history[s] # 0 /\ s \in work.todo)
    BY <1>0, <1>4, AttemptDoes DEF Reading
  <2>2. \A x \in Symbols : Explained(x, daily, history)'
    BY <1>0, <2>1 DEF Agreement, Explained, Disagreed, Collector!Disagree
  <2>3. ASSUME NEW x \in Symbols, Group(x) = work.group
        PROVE  \/ Explained(x, work.daily, work.history)'
               \/ (x \in work'.todo /\ work'.daily[x] = Collector!NoRecord)
    <3>1. \/ Explained(x, work.daily, work.history)
          \/ (x \in work.todo /\ work.daily[x] = Collector!NoRecord)
      BY <1>0, <2>1, <2>3 DEF Agreement
    <3> QED
      BY <2>1, <3>1 DEF Explained, Disagreed, Collector!Disagree
  <2> QED
    BY <2>1, <2>2, <2>3 DEF Agreement
<1>5. CASE Collector!UploadDaily
  <2>1. /\ phase = "collect" /\ phase' = "history" /\ work.todo = {}
        /\ \A s \in Symbols : daily'[s] = IF Group(s) = work.group THEN work.daily[s] ELSE daily[s]
        /\ UNCHANGED <<history, work, torn, quoteless>>
    BY <1>0, <1>5, UploadDailyDoes
  <2>2. \A s \in Symbols : Group(s) = work.group =>
          daily'[s] = work.daily[s] /\ Explained(s, work.daily, work.history)'
    BY <1>0, <2>1 DEF Agreement, Explained, Disagreed, Collector!Disagree
  <2>3. \A s \in Symbols : Group(s) # work.group => Explained(s, daily, history)'
    BY <1>0, <2>1 DEF Agreement, Explained, Disagreed, Collector!Disagree
  <2> QED
    BY <2>1, <2>2, <2>3 DEF Agreement
<1>6. CASE Collector!UploadHistory
  <2>1. /\ phase = "history" /\ phase' = "groups" /\ daily' = daily
        /\ \A s \in Symbols : history'[s] = IF Group(s) = work.group THEN work.history[s] ELSE history[s]
        /\ torn' = {s \in torn : Disagreed(s, daily, history')}
        /\ quoteless' = {s \in quoteless : Disagreed(s, daily, history')}
    BY <1>0, <1>6, UploadHistoryDoes
  <2>2. ASSUME NEW s \in Symbols PROVE Explained(s, daily, history)'
    <3> SUFFICES ASSUME Disagreed(s, daily, history')
                 PROVE  s \in torn' \/ (daily[s] = Collector!NoRecord /\ s \in quoteless')
      BY <2>1 DEF Explained, Disagreed, Collector!Disagree
    <3>1. s \in torn \/ (daily[s] = Collector!NoRecord /\ s \in quoteless)
      <4>1. CASE Group(s) = work.group
        <5>1. daily[s] = work.daily[s] /\ Explained(s, work.daily, work.history)
          BY <1>0, <2>1, <4>1 DEF Agreement
        <5>2. Disagreed(s, work.daily, work.history)
          BY <2>1, <4>1, <5>1 DEF Disagreed, Collector!Disagree
        <5> QED
          BY <5>1, <5>2 DEF Explained
      <4>2. CASE Group(s) # work.group
        <5>1. Explained(s, daily, history)
          BY <1>0, <4>2 DEF Agreement
        <5>2. Disagreed(s, daily, history)
          BY <2>1, <4>2 DEF Disagreed, Collector!Disagree
        <5> QED
          BY <5>1, <5>2 DEF Explained
      <4> QED
        BY <4>1, <4>2
    <3> QED
      BY <2>1, <3>1
  <2> QED
    BY <2>1, <2>2 DEF Agreement
<1>7. CASE Collector!Finish
  BY <1>0, <1>7, FinishDoes DEF Agreement, Explained, Disagreed, Collector!Disagree
<1>8. CASE Collector!Dies
  BY <1>0, <1>8, DiesDoes DEF Agreement, Explained, Disagreed, Collector!Disagree
<1>9. CASE UNCHANGED Collector!runVars
  BY <1>0, <1>9 DEF Agreement, Explained, Disagreed, Collector!Disagree,
                    Collector!runVars, Collector!driveVars
<1> QED
  BY <1>1, <1>2, <1>3, <1>4, <1>5, <1>6, <1>7, <1>8, <1>9 DEF Collector!Next

-----------------------------------------------------------------------------
(* The theorems.                                                           *)

\* A behaviour of the job is one of the collector, the other parts stand still
LEMMA CollectorPart == JobSpec => Collector!Spec
<1>1. JobInit => Collector!Init
  BY DEF JobInit
<1>2. [JobNext]_jobVars => [Collector!Next]_Collector!runVars
  BY DEF JobNext, jobVars, ofCollector, Collector!runVars, Collector!driveVars
<1> QED
  BY <1>1, <1>2, PTL DEF JobSpec, Collector!Spec

LEMMA Invariance == JobSpec => []RunInv
<1>1. RunInv /\ [Collector!Next]_Collector!runVars => RunInv'
  BY TypesKept, MemoryKept, StoriesKept, AgreementKept DEF RunInv
<1> QED
  BY <1>1, Initially, CollectorPart, PTL DEF Collector!Spec

\* A record marked as having its history has none only if a run died between
\* the uploads of the two files or one of them did not parse, and a history
\* without a record has besides that only a symbol every attempt failed at:
\* pruning, retries and kept marks never separate the files of a group.
THEOREM FilesAgree == JobSpec => []GroupFilesAgree
<1>1. RunInv => GroupFilesAgree
  BY DEF RunInv, Agreement, Explained, Disagreed, GroupFilesAgree, Collector!GroupFilesAgree
<1> QED
  BY <1>1, Invariance, PTL

\* The symbol state, one file uploaded last, never knows of a collection that
\* the daily files do not, and names the state their records name or RETIRED.
THEOREM StateFollowsRecords == JobSpec => []StateNeverAhead
<1>1. RunInv => StateNeverAhead
  BY DEF RunInv, Stories, Fits, Aged, StateNeverAhead, Collector!StateNeverAhead
<1> QED
  BY <1>1, Invariance, PTL

\* A target price in a record the collector wrote is of the day that its
\* lineage names, whatever was kept, pruned, lost or unread since.
THEOREM TargetsAreDated == JobSpec => []TargetKeepsItsProvenance
<1>1. RunInv => TargetKeepsItsProvenance
  BY DEF RunInv, Stories, Sound, TargetKeepsItsProvenance, Collector!TargetKeepsItsProvenance
<1> QED
  BY <1>1, Invariance, PTL

-----------------------------------------------------------------------------
(* The surveillance sessions: a refresh uploads the audit before the       *)
(* mapping, so what the stored mapping has and the pending one has not is  *)
(* named as removed by the audit that is stored by then.                   *)

Lost(audit) == \A s \in mapped \ pending.mapped : s \in audit[session].removed

SessionsInv ==
  /\ session \in 1..LastSession
  /\ DOMAIN pending.sessions = 1..LastSession
  /\ pending.uploads \in {<<>>, <<"audit", "mapping">>, <<"mapping">>}
  /\ DOMAIN sessions = 1..LastSession
  /\ pending.uploads = <<"audit", "mapping">> => Lost(pending.sessions)
  /\ pending.uploads = <<"mapping">> => Lost(sessions)

LEMMA Queues ==
  /\ <<"audit", "mapping">> # <<"mapping">> /\ <<"audit", "mapping">> # <<>> /\ <<"mapping">> # <<>>
  /\ Head(<<"audit", "mapping">>) = "audit" /\ Tail(<<"audit", "mapping">>) = <<"mapping">>
  /\ Head(<<"mapping">>) = "mapping" /\ Tail(<<"mapping">>) = <<>>
<1>1. /\ Len(<<"audit", "mapping">>) = 2 /\ Len(<<"mapping">>) = 1 /\ Len(<<>>) = 0
  OBVIOUS
<1> QED
  BY <1>1

LEMMA SessionsInitially == Sessions!Init => SessionsInv
BY JobAssumption DEF Sessions!Init, Sessions!Resting, Sessions!NoSessions, SessionsInv,
   Sessions!SessionsAssumption

LEMMA SessionsKept ==
  ASSUME SessionsInv, [Sessions!Next]_Sessions!surveillanceVars
  PROVE  SessionsInv'
<1>1. CASE Sessions!NextSession
  <2>1. LastSession \in Nat
    BY JobAssumption DEF Sessions!SessionsAssumption
  <2>2. session' \in 1..LastSession
    BY <1>1, <2>1 DEF SessionsInv, Sessions!NextSession
  <2> QED
    BY <1>1, <2>2, Queues DEF SessionsInv, Sessions!NextSession
<1>2. ASSUME NEW s \in Followed, Sessions!Relist(s) PROVE SessionsInv'
  BY <1>2 DEF SessionsInv, Sessions!Relist, Lost
<1>3. CASE Sessions!Refresh
  <2>1. PICK known \in {sessions, Sessions!NoSessions} : \E symbols, complete :
          pending' = [uploads |-> Sessions!Uploads, mapped |-> symbols,
                      sessions |-> [known EXCEPT ![session] = Sessions!Observation(symbols, complete)]]
    BY <1>3 DEF Sessions!Refresh
  <2>2. UNCHANGED <<session, mapped, sessions>>
    BY <1>3 DEF Sessions!Refresh
  <2>3. DOMAIN known = 1..LastSession
    BY DEF SessionsInv, Sessions!NoSessions
  <2>4. PICK symbols, complete :
          pending' = [uploads |-> Sessions!Uploads, mapped |-> symbols,
                      sessions |-> [known EXCEPT ![session] = Sessions!Observation(symbols, complete)]]
    BY <2>1
  <2>5. /\ pending'.uploads = <<"audit", "mapping">> /\ pending'.mapped = symbols
        /\ DOMAIN pending'.sessions = 1..LastSession
        /\ pending'.sessions[session].removed = mapped \ symbols
    BY <2>3, <2>4 DEF SessionsInv, Sessions!Uploads, Sessions!Observation
  <2>6. Lost(pending.sessions)'
    BY <2>2, <2>5 DEF Lost
  <2> QED
    BY <2>2, <2>5, <2>6, Queues DEF SessionsInv
<1>4. CASE Sessions!FailsOpen
  BY <1>4 DEF SessionsInv, Sessions!FailsOpen, Sessions!Resting, Sessions!NoSessions
<1>5. CASE Sessions!Upload
  <2>1. /\ pending' = [pending EXCEPT !.uploads = Tail(@)] /\ session' = session
        /\ pending.uploads # <<>>
    BY <1>5 DEF Sessions!Upload
  <2>2. CASE pending.uploads = <<"audit", "mapping">>
    <3>1. sessions' = pending.sessions /\ mapped' = mapped
      BY <1>5, <2>2, Queues DEF Sessions!Upload
    <3>2. Tail(pending.uploads) = <<"mapping">>
      BY <2>2, Queues
    <3>3. /\ pending'.uploads = <<"mapping">> /\ pending'.mapped = pending.mapped
          /\ pending'.sessions = pending.sessions
      BY <2>1, <3>2
    <3> QED
      BY <2>1, <2>2, <3>1, <3>3, Queues DEF SessionsInv, Lost
  <2>3. CASE pending.uploads = <<"mapping">>
    <3>1. sessions' = sessions
      BY <1>5, <2>3, Queues DEF Sessions!Upload
    <3>2. Tail(pending.uploads) = <<>>
      BY <2>3, Queues
    <3>3. pending'.uploads = <<>> /\ pending'.sessions = pending.sessions
      BY <2>1, <3>2
    <3> QED
      BY <2>1, <3>1, <3>3, Queues DEF SessionsInv
  <2> QED
    BY <2>1, <2>2, <2>3 DEF SessionsInv
<1>6. CASE Sessions!Dies
  BY <1>6 DEF SessionsInv, Sessions!Dies, Sessions!Resting
<1>7. CASE UNCHANGED Sessions!surveillanceVars
  BY <1>7 DEF SessionsInv, Lost, Sessions!surveillanceVars
<1> QED
  BY <1>1, <1>2, <1>3, <1>4, <1>5, <1>6, <1>7 DEF Sessions!Next

\* A symbol leaves the stored mapping only when the stored surveillance already
\* names it as removed in the current session, whichever of the files came and
\* wherever a run ended.
THEOREM LossesAreRecorded == JobSpec => MappingLossIsRecorded
<1> DEFINE Recorded == \A s \in mapped \ mapped' : Sessions!Identity(s, session) = "REMOVED"
<1>1. JobSpec => Sessions!Spec
  <2>1. JobInit => Sessions!Init
    BY DEF JobInit
  <2>2. [JobNext]_jobVars => [Sessions!Next]_Sessions!surveillanceVars
    BY DEF JobNext, jobVars, ofSessions, Sessions!surveillanceVars
  <2> QED
    BY <2>1, <2>2, PTL DEF JobSpec, Sessions!Spec
<1>2. SessionsInv /\ [Sessions!Next]_Sessions!surveillanceVars => [Recorded]_Sessions!surveillanceVars
  <2> SUFFICES ASSUME SessionsInv, Sessions!Next, NEW s \in mapped \ mapped'
               PROVE  Sessions!Identity(s, session) = "REMOVED"
    BY DEF Sessions!surveillanceVars
  <2>1. Sessions!Upload
    BY DEF Sessions!Next, Sessions!NextSession, Sessions!Relist, Sessions!Refresh,
           Sessions!FailsOpen, Sessions!Dies
  <2>2. pending.uploads = <<"mapping">> /\ mapped' = pending.mapped
    BY <2>1, Queues DEF SessionsInv, Sessions!Upload
  <2>3. s \in sessions[session].removed
    BY <2>2 DEF SessionsInv, Lost
  <2> QED
    BY <2>3 DEF Sessions!Identity
<1> QED
  BY <1>1, <1>2, SessionsInitially, SessionsKept, PTL
     DEF Sessions!Spec, MappingLossIsRecorded, Sessions!MappingLossIsRecorded

-----------------------------------------------------------------------------
(* The bundle of a dispatch.                                               *)

FileNames == {"progress", "lineage", "regime", "events", "coverage", "ready"}
Says(file, of, says) == files[file] = [of |-> of, says |-> says]

\* Files are of dispatches that began; the ready file is of an earlier one while
\* a dispatch goes on; what its flag and its step say, the stored files bear out
FilesInv ==
  /\ dispatch \in Nat
  /\ DOMAIN files = FileNames
  /\ \A f \in FileNames : files[f].of \in Nat /\ files[f].of <= dispatch
  /\ next # "none" => files["ready"].of < dispatch
  /\ next # "none" /\ lineage => Says("lineage", dispatch, "structural")
  /\ next = "ready" => Says("progress", dispatch, "COMPLETED")
  /\ next = "lineage" => ~lineage

Vouched ==
  files["ready"].of > 0 =>
    /\ files["ready"].says = "CONTRACT_READY" =>
         \/ files["lineage"].of > files["ready"].of
         \/ Says("lineage", files["ready"].of, "structural")
    /\ \/ files["progress"].of > files["ready"].of
       \/ Says("progress", files["ready"].of, "COMPLETED")

\* What writing a file, or failing to, leaves in Drive
LEMMA Stored ==
  ASSUME NEW file \in FileNames, NEW says, DOMAIN files = FileNames,
         Bundle!Put(file, says)
  PROVE  /\ DOMAIN files' = FileNames /\ files'[file] = [of |-> dispatch, says |-> says]
         /\ \A f \in FileNames \ {file} : files'[f] = files[f]
BY DEF Bundle!Put

LEMMA BundleInitially == Bundle!Init => FilesInv /\ Vouched
BY DEF Bundle!Init, Bundle!Unwritten, FilesInv, Vouched, Says, FileNames

\* Steps that write one file at most, neither of the ready file nor the progress file
Minor(file) ==
  /\ dispatch' = dispatch /\ lineage' = lineage
  /\ next # "none" /\ next' \notin {"lineage", "ready"}
  /\ UNCHANGED files \/ \E says : Bundle!Put(file, says)

LEMMA MinorKeeps ==
  ASSUME FilesInv, Vouched, NEW file \in {"regime", "events", "coverage"}, Minor(file)
  PROVE  FilesInv' /\ Vouched'
<1>1. CASE UNCHANGED files
  BY <1>1 DEF FilesInv, Vouched, Says, Minor
<1>2. ASSUME NEW says, Bundle!Put(file, says) PROVE FilesInv' /\ Vouched'
  <2>1. /\ DOMAIN files' = FileNames /\ files'[file].of = dispatch
        /\ \A f \in FileNames \ {file} : files'[f] = files[f]
    <3>1. file \in FileNames
      BY DEF FileNames
    <3> QED
      BY <1>2, <3>1 DEF FilesInv, Bundle!Put
  <2>2. /\ files'["ready"] = files["ready"] /\ files'["lineage"] = files["lineage"]
        /\ files'["progress"] = files["progress"]
    BY <2>1 DEF FileNames
  <2> QED
    BY <2>1, <2>2 DEF FilesInv, Vouched, Says, Minor
<1> QED
  BY <1>1, <1>2 DEF Minor

LEMMA BundleKept ==
  ASSUME FilesInv, Vouched, [Bundle!Next]_Bundle!bundleVars
  PROVE  FilesInv' /\ Vouched'
<1>1. CASE Bundle!Dispatch
  <2>1. /\ DOMAIN files' = FileNames /\ files'["progress"] = [of |-> dispatch + 1, says |-> "PROCESSING"]
        /\ \A f \in FileNames \ {"progress"} : files'[f] = files[f]
        /\ next = "none" /\ next' = "lineage" /\ ~lineage' /\ dispatch' = dispatch + 1
    BY <1>1 DEF Bundle!Dispatch, FilesInv, FileNames
  <2>2. files'["ready"] = files["ready"] /\ files'["lineage"] = files["lineage"]
    BY <2>1 DEF FileNames
  <2>3. FilesInv'
    BY <2>1, <2>2 DEF FilesInv, FileNames
  <2>4. files'["progress"].of > files["ready"].of
    BY <2>1 DEF FilesInv, FileNames
  <2> QED
    BY <2>2, <2>3, <2>4 DEF Vouched, Says
<1>2. CASE Bundle!PublishLineage
  <2>1. /\ dispatch' = dispatch /\ next = "lineage" /\ next' = "regime"
        /\ \/ UNCHANGED files /\ ~lineage'
           \/ \E says : Bundle!Put("lineage", says) /\ (lineage' => says = "structural")
    <3>1. PICK twice \in SUBSET Targets, uploaded \in BOOLEAN :
            LET structural == Bundle!StructuralContract(Bundle!SetToSeq(Targets) \o Bundle!SetToSeq(twice))
                says == IF structural THEN "structural" ELSE "mismatch" IN
            /\ IF uploaded THEN Bundle!Put("lineage", says) /\ UNCHANGED misses
               ELSE Bundle!PutFails("lineage", says)
            /\ lineage' = Bundle!ReadyAfter(structural, uploaded)
      BY <1>2 DEF Bundle!PublishLineage
    <3> DEFINE structural == Bundle!StructuralContract(Bundle!SetToSeq(Targets) \o Bundle!SetToSeq(twice))
               says == IF structural THEN "structural" ELSE "mismatch"
    <3>2. lineage' => uploaded /\ says = "structural"
      BY <3>1 DEF Bundle!ReadyAfter
    <3>3. Bundle!Put("lineage", says) \/ (UNCHANGED files /\ ~uploaded)
      BY <3>1 DEF Bundle!PutFails
    <3> HIDE DEF says
    <3> QED
      BY <1>2, <3>2, <3>3 DEF Bundle!PublishLineage
  <2>2. ASSUME NEW says, Bundle!Put("lineage", says), lineage' => says = "structural"
        PROVE  FilesInv' /\ Vouched'
    <3>1. /\ DOMAIN files' = FileNames /\ files'["lineage"] = [of |-> dispatch, says |-> says]
          /\ \A f \in FileNames \ {"lineage"} : files'[f] = files[f]
      BY <2>2, Stored DEF FilesInv, FileNames
    <3>2. files'["ready"] = files["ready"] /\ files'["progress"] = files["progress"]
      BY <3>1 DEF FileNames
    <3>3. files'["lineage"].of = dispatch /\ files["ready"].of < dispatch
      BY <2>1, <3>1 DEF FilesInv
    <3> QED
      BY <2>1, <2>2, <3>1, <3>2, <3>3 DEF FilesInv, Vouched, Says
  <2> QED
    BY <2>1, <2>2 DEF FilesInv, Vouched, Says
<1>3. CASE Bundle!PublishRegime
  <2>1. Minor("regime")
    BY <1>3 DEF Minor, Bundle!PublishRegime, Bundle!PutFails
  <2> QED
    BY <2>1, MinorKeeps
<1>4. CASE \/ Bundle!FmpRow \/ Bundle!FmpDone \/ Bundle!FmpBreaks \/ Bundle!FinnhubRow
           \/ Bundle!FinnhubDone \/ Bundle!YahooLookup \/ Bundle!Classify
  <2>1. Minor("regime")
    BY <1>4 DEF Minor, Bundle!FmpRow, Bundle!FmpDone, Bundle!FmpBreaks, Bundle!FinnhubRow,
       Bundle!FinnhubDone, Bundle!YahooLookup, Bundle!Classify, Bundle!CalendarRow, Bundle!AfterFmp
  <2> QED
    BY <2>1, MinorKeeps
<1>5. CASE Bundle!PublishEvents
  <2>1. Minor("events")
    BY <1>5 DEF Minor, Bundle!PublishEvents, Bundle!PutFails
  <2> QED
    BY <2>1, MinorKeeps
<1>6. CASE Bundle!PublishCoverage
  <2>1. Minor("coverage")
    BY <1>6 DEF Minor, Bundle!PublishCoverage, Bundle!PutFails
  <2> QED
    BY <2>1, MinorKeeps
<1>7. CASE Bundle!PublishCompleted
  <2>1. /\ dispatch' = dispatch /\ lineage' = lineage /\ next = "progress"
        /\ \/ Bundle!Put("progress", "COMPLETED") /\ next' \in {"ready", "none"}
           \/ UNCHANGED files /\ next' = "none"
    BY <1>7 DEF Bundle!PublishCompleted, Bundle!PutFails
  <2>2. CASE UNCHANGED files /\ next' = "none"
    BY <2>1, <2>2 DEF FilesInv, Vouched, Says
  <2>3. CASE Bundle!Put("progress", "COMPLETED") /\ next' \in {"ready", "none"}
    <3>1. /\ DOMAIN files' = FileNames /\ files'["progress"] = [of |-> dispatch, says |-> "COMPLETED"]
          /\ \A f \in FileNames \ {"progress"} : files'[f] = files[f]
      BY <2>3, Stored DEF FilesInv, FileNames
    <3>2. files'["ready"] = files["ready"] /\ files'["lineage"] = files["lineage"]
      BY <3>1 DEF FileNames
    <3>3. files'["progress"].of = dispatch /\ files["ready"].of < dispatch
      BY <2>1, <3>1 DEF FilesInv
    <3> QED
      BY <2>1, <2>3, <3>1, <3>2, <3>3 DEF FilesInv, Vouched, Says
  <2> QED
    BY <2>1, <2>2, <2>3
<1>8. CASE Bundle!PublishReady
  <2>1. /\ dispatch' = dispatch /\ lineage' = lineage /\ next = "ready" /\ next' = "none"
        /\ UNCHANGED files \/ Bundle!Put("ready", Bundle!LineageStatus)
    BY <1>8 DEF Bundle!PublishReady, Bundle!PutFails
  <2>2. CASE UNCHANGED files
    BY <2>1, <2>2 DEF FilesInv, Vouched, Says
  <2>3. CASE Bundle!Put("ready", Bundle!LineageStatus)
    <3>1. /\ DOMAIN files' = FileNames
          /\ files'["ready"] = [of |-> dispatch, says |-> Bundle!LineageStatus]
          /\ \A f \in FileNames \ {"ready"} : files'[f] = files[f]
      BY <2>3, Stored DEF FilesInv, FileNames
    <3>2. files'["lineage"] = files["lineage"] /\ files'["progress"] = files["progress"]
      BY <3>1 DEF FileNames
    <3>3. files'["ready"].of = dispatch /\ files'["ready"].says = Bundle!LineageStatus
      BY <3>1
    <3>4. Bundle!LineageStatus = "CONTRACT_READY" => lineage
      BY DEF Bundle!LineageStatus
    <3>5. Vouched'
      BY <2>1, <3>2, <3>3, <3>4 DEF FilesInv, Vouched, Says
    <3>6. FilesInv'
      BY <2>1, <3>1, <3>2, <3>3 DEF FilesInv, Says
    <3> QED
      BY <3>5, <3>6
  <2> QED
    BY <2>1, <2>2, <2>3
<1>9. CASE Bundle!Dies
  BY <1>9 DEF Bundle!Dies, FilesInv, Vouched, Says
<1>10. CASE UNCHANGED Bundle!bundleVars
  BY <1>10 DEF Bundle!bundleVars, FilesInv, Vouched, Says
<1> QED
  BY <1>1, <1>2, <1>3, <1>4, <1>5, <1>6, <1>7, <1>8, <1>9, <1>10 DEF Bundle!Next

LEMMA BundlePart == JobSpec => Bundle!Spec
<1>1. JobInit => Bundle!Init
  BY DEF JobInit
<1>2. [JobNext]_jobVars => [Bundle!Next]_Bundle!bundleVars
  BY DEF JobNext, jobVars, ofBundle, Bundle!bundleVars
<1> QED
  BY <1>1, <1>2, PTL DEF JobSpec, Bundle!Spec

\* A ready file that says the lineage contract is ready was written after the
\* sound audit of its dispatch was stored, and any ready file after the progress
\* file said COMPLETED, whichever uploads fail and wherever a dispatch ends.
THEOREM ReadyIsBacked == JobSpec => []ReadyVouchesForItsAudit
<1>1. Vouched => ReadyVouchesForItsAudit
  BY DEF Vouched, Says, ReadyVouchesForItsAudit, Bundle!ReadyVouchesForItsAudit
<1> QED
  BY <1>1, BundlePart, BundleInitially, BundleKept, PTL DEF Bundle!Spec

-----------------------------------------------------------------------------
(* Sums, which the averages of the regime are made of.  A fold goes         *)
(* through a set in an order that nothing is known of but that it depends   *)
(* on the set alone; what is said of it here is proved by looking at a      *)
(* smallest set for which it fails.                                         *)

Taken(T) == CHOOSE x \in T : TRUE

\* What defines the sum of f over the subsets of S
Adds(sum, f, S) ==
  sum = [T \in SUBSET S |-> IF T = {} THEN 0 ELSE f[Taken(T)] + sum[T \ {Taken(T)}]]

\* A set of numbers has a least one.
LEMMA Least ==
  ASSUME NEW numbers \in SUBSET Nat, numbers # {}
  PROVE  \E n \in numbers : \A m \in numbers : n <= m
<1> DEFINE Before == OpToRel(<, Nat)
<1>1. IsWellFoundedOn(Before, Nat)
  BY NatLessThanWellFounded
<1>2. \A m, n \in Nat : <<m, n>> \in Before <=> m < n
  BY DEF OpToRel
<1> HIDE DEF Before
<1>3. PICK n \in numbers : \A m \in numbers : <<m, n>> \notin Before
  BY <1>1, WFMin
<1>4. \A m \in numbers : n \in Nat /\ m \in Nat /\ ~(m < n)
  BY <1>2, <1>3
<1> QED
  BY <1>4

LEMMA TakenFrom ==
  ASSUME NEW S, IsFiniteSet(S), NEW T \in SUBSET S, T # {}
  PROVE  /\ Taken(T) \in T /\ T \ {Taken(T)} \in SUBSET S
         /\ Cardinality(T) \in Nat \ {0}
         /\ Cardinality(T \ {Taken(T)}) = Cardinality(T) - 1
<1>1. Taken(T) \in T
  BY DEF Taken
<1>2. IsFiniteSet(T)
  BY FS_Subset
<1> QED
  BY <1>1, <1>2, FS_CardinalityType, FS_EmptySet, FS_RemoveElement

\* The sum is defined for every subset of a finite set
LEMMA SumExists ==
  ASSUME NEW S, IsFiniteSet(S), NEW f \in [S -> Int]
  PROVE  \E sum : Adds(sum, f, S)
<1> DEFINE Partly(n, sum) ==
             /\ sum \in [SUBSET S -> Int]
             /\ \A T \in SUBSET S : Cardinality(T) <= n =>
                  sum[T] = IF T = {} THEN 0 ELSE f[Taken(T)] + sum[T \ {Taken(T)}]
           bad == {n \in Nat : ~\E sum : Partly(n, sum)}
<1>1. \E sum : Partly(0, sum)
  <2> DEFINE zero == [T \in SUBSET S |-> 0]
  <2>1. ASSUME NEW T \in SUBSET S, Cardinality(T) <= 0 PROVE T = {}
    <3>1. T # {} => Cardinality(T) \in Nat \ {0}
      BY TakenFrom
    <3> QED
      BY <2>1, <3>1
  <2>2. Partly(0, zero)
    BY <2>1
  <2> QED
    BY <2>2
<1>2. ASSUME NEW n \in Nat, NEW sum, Partly(n, sum) PROVE \E more : Partly(n + 1, more)
  <2> DEFINE more == [T \in SUBSET S |->
                        IF Cardinality(T) <= n THEN sum[T]
                        ELSE f[Taken(T)] + sum[T \ {Taken(T)}]]
  <2>1. \A T \in SUBSET S : Cardinality(T) \in Nat
    BY FS_Subset, FS_CardinalityType
  <2>2. ASSUME NEW T \in SUBSET S, ~(Cardinality(T) <= n) PROVE T # {}
    BY <2>2, FS_EmptySet
  <2>3. more \in [SUBSET S -> Int]
    <3>1. ASSUME NEW T \in SUBSET S, ~(Cardinality(T) <= n)
          PROVE  f[Taken(T)] \in Int /\ sum[T \ {Taken(T)}] \in Int
      BY <1>2, <2>2, <3>1, TakenFrom
    <3> QED
      BY <1>2, <3>1
  <2>4. ASSUME NEW T \in SUBSET S, Cardinality(T) <= n + 1
        PROVE  more[T] = IF T = {} THEN 0 ELSE f[Taken(T)] + more[T \ {Taken(T)}]
    <3>1. CASE T = {}
      BY <1>2, <3>1, FS_EmptySet
    <3>2. CASE T # {}
      <4>1. /\ T \ {Taken(T)} \in SUBSET S
            /\ Cardinality(T \ {Taken(T)}) = Cardinality(T) - 1
            /\ Cardinality(T) \in Nat
        BY <3>2, TakenFrom
      <4>2. more[T \ {Taken(T)}] = sum[T \ {Taken(T)}]
        BY <2>4, <4>1
      <4> QED
        BY <1>2, <2>4, <3>2, <4>2
    <3> QED
      BY <3>1, <3>2
  <2> HIDE DEF more
  <2> QED
    BY <2>3, <2>4
<1> HIDE DEF Partly
<1>3. bad = {}
  <2>1. SUFFICES ASSUME bad # {} PROVE FALSE
    OBVIOUS
  <2>2. PICK n \in bad : \A m \in bad : n <= m
    BY <2>1, Least
  <2>3. n # 0
    BY <1>1
  <2>4. n - 1 \in Nat /\ n - 1 \notin bad
    BY <2>2, <2>3
  <2>5. \E more : Partly((n - 1) + 1, more)
    BY <1>2, <2>4
  <2> QED
    BY <2>2, <2>5
<1>4. Cardinality(S) \in Nat
  BY FS_CardinalityType
<1>5. PICK sum : Partly(Cardinality(S), sum)
  BY <1>3, <1>4
<1>6. \A T \in SUBSET S : Cardinality(T) <= Cardinality(S)
  BY FS_Subset
<1>7. Adds(sum, f, S)
  BY <1>5, <1>6 DEF Partly, Adds
<1> QED
  BY <1>7

SumOver(f, S) == Bundle!FoldFunctionOnSet(LAMBDA a, b : a + b, 0, f, S)

\* ... and it is what the fold computes
LEMMA FoldIsSum ==
  ASSUME NEW S, IsFiniteSet(S), NEW f \in [S -> Int]
  PROVE  \E sum : Adds(sum, f, S) /\ SumOver(f, S) = sum[S]
<1>1. PICK sum : Adds(sum, f, S)
  BY SumExists
<1>2. sum = [T \in SUBSET S |->
               IF T = {} THEN 0 ELSE LET x == CHOOSE x \in T : TRUE IN f[x] + sum[T \ {x}]]
  BY <1>1, Zenon DEF Adds, Taken
<1>3. \E iter :
        /\ iter = [T \in SUBSET S |->
                     IF T = {} THEN 0 ELSE LET x == CHOOSE x \in T : TRUE IN f[x] + iter[T \ {x}]]
        /\ SumOver(f, S) = iter[S]
  BY <1>2, Zenon DEF SumOver, Bundle!FoldFunctionOnSet, Bundle!MapThenFoldSet
<1> QED
  BY <1>3, Zenon DEF Adds, Taken

\* A sum in which one term is lowered is lowered as much
LEMMA SumLowered ==
  ASSUME NEW S, IsFiniteSet(S), NEW f \in [S -> Int], NEW g \in [S -> Int], NEW k \in S,
         \A i \in S \ {k} : g[i] = f[i]
  PROVE  /\ SumOver(f, S) \in Int /\ SumOver(g, S) \in Int
         /\ SumOver(f, S) - SumOver(g, S) = f[k] - g[k]
<1>1. PICK a : Adds(a, f, S) /\ SumOver(f, S) = a[S]
  BY FoldIsSum
<1>2. PICK b : Adds(b, g, S) /\ SumOver(g, S) = b[S]
  BY FoldIsSum
<1> DEFINE Holds(T) ==
             /\ a[T] \in Int /\ b[T] \in Int
             /\ a[T] - b[T] = IF k \in T THEN f[k] - g[k] ELSE 0
           bad == {Cardinality(T) : T \in {T \in SUBSET S : ~Holds(T)}}
<1>3. \A T \in SUBSET S :
        /\ a[T] = IF T = {} THEN 0 ELSE f[Taken(T)] + a[T \ {Taken(T)}]
        /\ b[T] = IF T = {} THEN 0 ELSE g[Taken(T)] + b[T \ {Taken(T)}]
  BY <1>1, <1>2 DEF Adds
<1>4. ASSUME NEW T \in SUBSET S, T # {}, Holds(T \ {Taken(T)}) PROVE Holds(T)
  <2> DEFINE x == Taken(T)
  <2>1. x \in T
    BY <1>4, TakenFrom
  <2>2. a[T] = f[x] + a[T \ {x}] /\ b[T] = g[x] + b[T \ {x}]
    BY <1>3, <1>4
  <2> HIDE DEF x
  <2>3. f[x] \in Int /\ g[x] \in Int
    BY <2>1
  <2>4. Holds(T \ {x})
    BY <1>4 DEF x
  <2>5. CASE x = k
    BY <2>1, <2>2, <2>3, <2>4, <2>5
  <2>6. CASE x # k
    BY <2>1, <2>2, <2>3, <2>4, <2>6
  <2> QED
    BY <2>5, <2>6
<1>5. Holds({})
  <2>1. {} \in SUBSET S
    OBVIOUS
  <2>2. a[{}] = 0 /\ b[{}] = 0
    BY <1>3, <2>1
  <2> QED
    BY <2>2
<1> HIDE DEF Holds
<1>6. \A T \in SUBSET S : Holds(T)
  <2>1. SUFFICES ASSUME NEW U \in SUBSET S, ~Holds(U) PROVE FALSE
    OBVIOUS
  <2>2. bad \in SUBSET Nat /\ bad # {}
    BY <2>1, FS_Subset, FS_CardinalityType
  <2>3. PICK n \in bad : \A m \in bad : n <= m
    BY <2>2, Least
  <2>4. PICK T \in SUBSET S : ~Holds(T) /\ n = Cardinality(T)
    OBVIOUS
  <2>5. T # {}
    BY <1>5, <2>4
  <2>6. /\ T \ {Taken(T)} \in SUBSET S /\ Cardinality(T) \in Nat
        /\ Cardinality(T \ {Taken(T)}) = Cardinality(T) - 1
    BY <2>5, TakenFrom
  <2>7. ~Holds(T \ {Taken(T)})
    BY <1>4, <2>4, <2>5
  <2>8. Cardinality(T \ {Taken(T)}) \in bad
    BY <2>6, <2>7
  <2> QED
    BY <2>3, <2>4, <2>6, <2>8
<1>7. Holds(S)
  BY <1>6
<1> QED
  BY <1>1, <1>2, <1>7 DEF Holds

\* A finite set of numbers has a greatest one.
LEMMA Greatest ==
  ASSUME NEW S \in SUBSET Int, IsFiniteSet(S), S # {}
  PROVE  /\ Bundle!Max(S) \in S
         /\ \A y \in S : y <= Bundle!Max(S)
<1> DEFINE Beyond(x) == {y \in S : y > x}
           numbers == {Cardinality(Beyond(x)) : x \in S}
<1>1. \A x \in S : IsFiniteSet(Beyond(x)) /\ Cardinality(Beyond(x)) \in Nat
  BY FS_Subset, FS_CardinalityType
<1>2. numbers \in SUBSET Nat /\ numbers # {}
  BY <1>1
<1>3. PICK n \in numbers : \A k \in numbers : n <= k
  BY <1>2, Least
<1>4. PICK x \in S : n = Cardinality(Beyond(x))
  OBVIOUS
<1>5. ASSUME NEW y \in S, y > x PROVE FALSE
  <2>1. x \in Int /\ y \in Int /\ \A z \in S : z \in Int
    OBVIOUS
  <2>2. y \in Beyond(x) /\ y \notin Beyond(y)
    BY <1>5, <2>1
  <2>3. Beyond(y) \subseteq Beyond(x) /\ Beyond(y) # Beyond(x)
    <3>1. \A z \in S : z > y => z > x
      BY <1>5, <2>1
    <3> QED
      BY <2>2, <3>1
  <2> HIDE DEF Beyond
  <2>4. Cardinality(Beyond(y)) < Cardinality(Beyond(x))
    BY <1>1, <2>3, FS_Subset
  <2>5. Cardinality(Beyond(y)) \in numbers
    OBVIOUS
  <2> QED
    BY <1>1, <1>3, <1>4, <2>4, <2>5
<1>6. ASSUME NEW y \in S PROVE x >= y
  <2>1. x \in Int /\ y \in Int
    OBVIOUS
  <2> QED
    BY <1>5, <2>1
<1> QED
  BY <1>6 DEF Bundle!Max

-----------------------------------------------------------------------------
(* The market regime, for every market: closes of any number and value.    *)

MarketForm(m) ==
  \E targets :
    m \in [sp500 : Seq(Int), nasdaq : Seq(Int), vix : Seq(Int), symbols : [targets -> Seq(Int)]]

\* A missing index earns the least a moving average can
LEMMA TrendBounds ==
  ASSUME NEW closes, NEW span \in Nat \ {0}, NEW points \in Nat
  PROVE  /\ Bundle!Trend(closes, span, points) \in {points, -points}
         /\ Bundle!Trend(<<>>, span, points) = -points
<1>1. Bundle!Above(<<>>, span) => Len(<<>>) >= span
  BY Zenon DEF Bundle!Above
<1>2. ~Bundle!Above(<<>>, span)
  BY <1>1
<1> QED
  BY <1>2 DEF Bundle!Trend

\* No target earns the least a share can
LEMMA BandBounds ==
  ASSUME NEW share, NEW healthy \in Nat \ {0}, NEW weak \in Nat \ {0}, NEW points \in Nat
  PROVE  /\ Bundle!Band(share, healthy, weak, points) \in {points, -points, 0}
         /\ Bundle!Band(0, healthy, weak, points) = -points
BY DEF Bundle!Band

LEMMA VolatilityBounds ==
  ASSUME NEW closes \in Seq(Int)
  PROVE  /\ Bundle!Volatility(closes) \in {-16, -8, 0, 3}
         /\ Bundle!Volatility(<<>>) = 0
<1>1. CASE closes = <<>>
  BY <1>1 DEF Bundle!Volatility
<1>2. CASE closes # <<>>
  <2>1. Bundle!Last(closes) \in Int
    BY <1>2 DEF Bundle!Last
  <2> QED
    BY <1>2, <2>1 DEF Bundle!Volatility
<1> QED
  BY <1>1, <1>2 DEF Bundle!Volatility

LEMMA BlindBreadth ==
  ASSUME NEW symbols
  PROVE  Bundle!Breadth(Bundle!Blind(symbols)) = [short |-> 0, long |-> 0, high |-> 0]
<1>1. Bundle!Valid(Bundle!Blind(symbols)) = {}
  BY JobAssumption DEF Bundle!WindowAssumption, Bundle!Valid, Bundle!Blind
<1> QED
  BY <1>1 DEF Bundle!Breadth, Bundle!Share

\* A score is a sum of points, kept between 0 and 100.
Points(closes50, closes200, other50, other200, short, long, high, vix) ==
  50 + closes50 + closes200 + other50 + other200 + short + long + high + vix
Clamped(sum) == Bundle!Max({0, Bundle!Min({100, sum})})

LEMMA ClampedForm ==
  ASSUME NEW sum \in Int
  PROVE  Clamped(sum) = IF sum < 0 THEN 0 ELSE IF sum > 100 THEN 100 ELSE sum
<1>1. Bundle!Min({100, sum}) = IF sum > 100 THEN 100 ELSE sum
  BY DEF Bundle!Min
<1> QED
  BY <1>1 DEF Clamped, Bundle!Max

LEMMA ScoreForm ==
  ASSUME NEW market
  PROVE  Bundle!Score(market) =
           Clamped(Points(Bundle!Trend(market.sp500, ShortWindow, 8),
                          Bundle!Trend(market.sp500, LongWindow, 10),
                          Bundle!Trend(market.nasdaq, ShortWindow, 6),
                          Bundle!Trend(market.nasdaq, LongWindow, 6),
                          Bundle!Band(Bundle!Breadth(market.symbols).short, 600, 450, 5),
                          Bundle!Band(Bundle!Breadth(market.symbols).long, 550, 400, 7),
                          Bundle!Band(Bundle!Breadth(market.symbols).high, 180, 80, 4),
                          Bundle!Volatility(market.vix)))
BY Zenon DEF Bundle!Score, Clamped, Points

\* Whatever a market holds, each part of its score is a number in these ranges.
LEMMA PartBounds ==
  ASSUME NEW market
  PROVE  /\ Bundle!Trend(market.sp500, ShortWindow, 8) \in Int /\ -8 <= Bundle!Trend(market.sp500, ShortWindow, 8)
         /\ Bundle!Trend(market.sp500, LongWindow, 10) \in Int /\ -10 <= Bundle!Trend(market.sp500, LongWindow, 10)
         /\ Bundle!Trend(market.nasdaq, ShortWindow, 6) \in Int /\ -6 <= Bundle!Trend(market.nasdaq, ShortWindow, 6)
         /\ Bundle!Trend(market.nasdaq, LongWindow, 6) \in Int /\ -6 <= Bundle!Trend(market.nasdaq, LongWindow, 6)
         /\ Bundle!Band(Bundle!Breadth(market.symbols).short, 600, 450, 5) \in Int /\ -5 <= Bundle!Band(Bundle!Breadth(market.symbols).short, 600, 450, 5)
         /\ Bundle!Band(Bundle!Breadth(market.symbols).long, 550, 400, 7) \in Int /\ -7 <= Bundle!Band(Bundle!Breadth(market.symbols).long, 550, 400, 7)
         /\ Bundle!Band(Bundle!Breadth(market.symbols).high, 180, 80, 4) \in Int /\ -4 <= Bundle!Band(Bundle!Breadth(market.symbols).high, 180, 80, 4)
<1>1. ShortWindow \in Nat \ {0} /\ LongWindow \in Nat \ {0}
  BY JobAssumption DEF Bundle!WindowAssumption
<1>2. /\ Bundle!Trend(market.sp500, ShortWindow, 8) \in {8, -8}
      /\ Bundle!Trend(market.sp500, LongWindow, 10) \in {10, -10}
  BY <1>1, TrendBounds
<1>3. /\ Bundle!Trend(market.nasdaq, ShortWindow, 6) \in {6, -6}
      /\ Bundle!Trend(market.nasdaq, LongWindow, 6) \in {6, -6}
  BY <1>1, TrendBounds
<1>4. Bundle!Band(Bundle!Breadth(market.symbols).short, 600, 450, 5) \in {5, -5, 0}
  BY BandBounds
<1>5. Bundle!Band(Bundle!Breadth(market.symbols).long, 550, 400, 7) \in {7, -7, 0}
  BY BandBounds
<1>6. Bundle!Band(Bundle!Breadth(market.symbols).high, 180, 80, 4) \in {4, -4, 0}
  BY BandBounds
<1> QED
  BY <1>2, <1>3, <1>4, <1>5, <1>6

\* A market whose parts earn no more has no higher score.
LEMMA ScoreFollowsParts ==
  ASSUME NEW n, NEW m, m.vix \in Seq(Int), n.vix = m.vix,
         Bundle!Trend(n.sp500, ShortWindow, 8) <= Bundle!Trend(m.sp500, ShortWindow, 8),
         Bundle!Trend(n.sp500, LongWindow, 10) <= Bundle!Trend(m.sp500, LongWindow, 10),
         Bundle!Trend(n.nasdaq, ShortWindow, 6) <= Bundle!Trend(m.nasdaq, ShortWindow, 6),
         Bundle!Trend(n.nasdaq, LongWindow, 6) <= Bundle!Trend(m.nasdaq, LongWindow, 6),
         Bundle!Band(Bundle!Breadth(n.symbols).short, 600, 450, 5)
           <= Bundle!Band(Bundle!Breadth(m.symbols).short, 600, 450, 5),
         Bundle!Band(Bundle!Breadth(n.symbols).long, 550, 400, 7)
           <= Bundle!Band(Bundle!Breadth(m.symbols).long, 550, 400, 7),
         Bundle!Band(Bundle!Breadth(n.symbols).high, 180, 80, 4)
           <= Bundle!Band(Bundle!Breadth(m.symbols).high, 180, 80, 4)
  PROVE  Bundle!Score(n) <= Bundle!Score(m)
<1> DEFINE a == Bundle!Trend(n.sp500, ShortWindow, 8)
           b == Bundle!Trend(n.sp500, LongWindow, 10)
           c == Bundle!Trend(n.nasdaq, ShortWindow, 6)
           d == Bundle!Trend(n.nasdaq, LongWindow, 6)
           e == Bundle!Band(Bundle!Breadth(n.symbols).short, 600, 450, 5)
           f == Bundle!Band(Bundle!Breadth(n.symbols).long, 550, 400, 7)
           g == Bundle!Band(Bundle!Breadth(n.symbols).high, 180, 80, 4)
           h == Bundle!Volatility(m.vix)
           aa == Bundle!Trend(m.sp500, ShortWindow, 8)
           bb == Bundle!Trend(m.sp500, LongWindow, 10)
           cc == Bundle!Trend(m.nasdaq, ShortWindow, 6)
           dd == Bundle!Trend(m.nasdaq, LongWindow, 6)
           ee == Bundle!Band(Bundle!Breadth(m.symbols).short, 600, 450, 5)
           ff == Bundle!Band(Bundle!Breadth(m.symbols).long, 550, 400, 7)
           gg == Bundle!Band(Bundle!Breadth(m.symbols).high, 180, 80, 4)
<1>1. /\ a \in Int /\ b \in Int /\ c \in Int /\ d \in Int
      /\ e \in Int /\ f \in Int /\ g \in Int
  BY PartBounds
<1>2. /\ aa \in Int /\ bb \in Int /\ cc \in Int /\ dd \in Int
      /\ ee \in Int /\ ff \in Int /\ gg \in Int
  BY PartBounds
<1>3. h \in Int
  BY VolatilityBounds
<1>4. /\ Bundle!Score(n) = Clamped(Points(a, b, c, d, e, f, g, h))
      /\ Bundle!Score(m) = Clamped(Points(aa, bb, cc, dd, ee, ff, gg, h))
  BY ScoreForm
<1> HIDE DEF a, b, c, d, e, f, g, h, aa, bb, cc, dd, ee, ff, gg
<1>5. a <= aa /\ b <= bb /\ c <= cc /\ d <= dd /\ e <= ee /\ f <= ff /\ g <= gg
  BY DEF a, b, c, d, e, f, g, aa, bb, cc, dd, ee, ff, gg
<1>6. /\ Points(a, b, c, d, e, f, g, h) \in Int /\ Points(aa, bb, cc, dd, ee, ff, gg, h) \in Int
      /\ Points(a, b, c, d, e, f, g, h) <= Points(aa, bb, cc, dd, ee, ff, gg, h)
  BY <1>3, <1>1, <1>2, <1>5 DEF Points
<1> QED
  BY <1>4, <1>6, ClampedForm

\* Without one of its parts, a market has no higher score
LEMMA ScoreAtMost ==
  ASSUME NEW n, NEW m, m.vix \in Seq(Int), n.vix = m.vix,
         \/ /\ n.nasdaq = m.nasdaq /\ n.symbols = m.symbols /\ n.sp500 = <<>>
         \/ /\ n.sp500 = m.sp500 /\ n.symbols = m.symbols /\ n.nasdaq = <<>>
         \/ /\ n.sp500 = m.sp500 /\ n.nasdaq = m.nasdaq
            /\ n.symbols = Bundle!Blind(m.symbols)
  PROVE  Bundle!Score(n) <= Bundle!Score(m)
<1> DEFINE a == Bundle!Trend(n.sp500, ShortWindow, 8)
           b == Bundle!Trend(n.sp500, LongWindow, 10)
           c == Bundle!Trend(n.nasdaq, ShortWindow, 6)
           d == Bundle!Trend(n.nasdaq, LongWindow, 6)
           e == Bundle!Band(Bundle!Breadth(n.symbols).short, 600, 450, 5)
           f == Bundle!Band(Bundle!Breadth(n.symbols).long, 550, 400, 7)
           g == Bundle!Band(Bundle!Breadth(n.symbols).high, 180, 80, 4)
           aa == Bundle!Trend(m.sp500, ShortWindow, 8)
           bb == Bundle!Trend(m.sp500, LongWindow, 10)
           cc == Bundle!Trend(m.nasdaq, ShortWindow, 6)
           dd == Bundle!Trend(m.nasdaq, LongWindow, 6)
           ee == Bundle!Band(Bundle!Breadth(m.symbols).short, 600, 450, 5)
           ff == Bundle!Band(Bundle!Breadth(m.symbols).long, 550, 400, 7)
           gg == Bundle!Band(Bundle!Breadth(m.symbols).high, 180, 80, 4)
<1>1. a <= aa /\ b <= bb /\ c <= cc /\ d <= dd /\ e <= ee /\ f <= ff /\ g <= gg
  <2>1. ShortWindow \in Nat \ {0} /\ LongWindow \in Nat \ {0}
    BY JobAssumption DEF Bundle!WindowAssumption
  <2>2. n.sp500 = <<>> => a = -8 /\ b = -10
    BY <2>1, TrendBounds
  <2>3. n.nasdaq = <<>> => c = -6 /\ d = -6
    BY <2>1, TrendBounds
  <2>4. ASSUME n.symbols = Bundle!Blind(m.symbols) PROVE e = -5 /\ f = -7 /\ g = -4
    <3>1. Bundle!Breadth(n.symbols) = [short |-> 0, long |-> 0, high |-> 0]
      BY <2>4, BlindBreadth
    <3>2. /\ e = Bundle!Band(0, 600, 450, 5) /\ f = Bundle!Band(0, 550, 400, 7)
          /\ g = Bundle!Band(0, 180, 80, 4)
      BY <3>1
    <3> HIDE DEF e, f, g
    <3> QED
      BY <3>2, BandBounds
  <2>5. /\ aa >= -8 /\ bb >= -10 /\ cc >= -6 /\ dd >= -6
        /\ ee >= -5 /\ ff >= -7 /\ gg >= -4
    BY PartBounds
  <2>6. /\ n.sp500 = m.sp500 => a = aa /\ b = bb
        /\ n.nasdaq = m.nasdaq => c = cc /\ d = dd
        /\ n.symbols = m.symbols => e = ee /\ f = ff /\ g = gg
    OBVIOUS
  <2>7. /\ aa \in Int /\ bb \in Int /\ cc \in Int /\ dd \in Int
        /\ ee \in Int /\ ff \in Int /\ gg \in Int
    BY PartBounds
  <2> HIDE DEF a, b, c, d, e, f, g, aa, bb, cc, dd, ee, ff, gg
  <2> QED
    BY <2>2, <2>3, <2>4, <2>5, <2>6, <2>7
<1> QED
  BY <1>1, ScoreFollowsParts

\* The score of a market is no higher without the bars of a stock index or of all targets,
\* and without any bars at all the regime is RISK_OFF.  Nothing is said of a missing
\* volatility index, nor of the bars of a single target: without either the score may rise.
THEOREM MissingBarsErrOnCaution ==
  ASSUME NEW m, MarketForm(m)
  PROVE  Bundle!MissingNeverHelps(m)
<1>1. m.vix \in Seq(Int) /\ <<>> \in Seq(Int)
  BY DEF MarketForm
<1>2. ShortWindow \in Nat \ {0} /\ LongWindow \in Nat \ {0}
  BY JobAssumption DEF Bundle!WindowAssumption
<1>3. Bundle!Score([m EXCEPT !["sp500"] = <<>>]) <= Bundle!Score(m)
  <2> DEFINE n == [m EXCEPT !["sp500"] = <<>>]
  <2>1. n.sp500 = <<>> /\ n.nasdaq = m.nasdaq /\ n.vix = m.vix /\ n.symbols = m.symbols
    BY DEF MarketForm
  <2> HIDE DEF n
  <2>2. Bundle!Score(n) <= Bundle!Score(m)
    BY <1>1, <2>1, ScoreAtMost
  <2> QED
    BY <2>2 DEF n
<1>4. Bundle!Score([m EXCEPT !["nasdaq"] = <<>>]) <= Bundle!Score(m)
  <2> DEFINE n == [m EXCEPT !["nasdaq"] = <<>>]
  <2>1. n.sp500 = m.sp500 /\ n.nasdaq = <<>> /\ n.vix = m.vix /\ n.symbols = m.symbols
    BY DEF MarketForm
  <2> HIDE DEF n
  <2>2. Bundle!Score(n) <= Bundle!Score(m)
    BY <1>1, <2>1, ScoreAtMost
  <2> QED
    BY <2>2 DEF n
<1>5. Bundle!Score([m EXCEPT !.symbols = Bundle!Blind(@)]) <= Bundle!Score(m)
  <2> DEFINE n == [m EXCEPT !.symbols = Bundle!Blind(@)]
  <2>1. /\ n.sp500 = m.sp500 /\ n.nasdaq = m.nasdaq /\ n.vix = m.vix
        /\ n.symbols = Bundle!Blind(m.symbols)
    BY DEF MarketForm
  <2> HIDE DEF n
  <2>2. Bundle!Score(n) <= Bundle!Score(m)
    BY <1>1, <2>1, ScoreAtMost
  <2> QED
    BY <2>2 DEF n
<1>6. Bundle!Regime([sp500 |-> <<>>, nasdaq |-> <<>>, vix |-> <<>>,
                     symbols |-> Bundle!Blind(m.symbols)]) = "RISK_OFF"
  <2> DEFINE n == [sp500 |-> <<>>, nasdaq |-> <<>>, vix |-> <<>>,
                   symbols |-> Bundle!Blind(m.symbols)]
  <2>1. n.sp500 = <<>> /\ n.nasdaq = <<>> /\ n.vix = <<>> /\ n.symbols = Bundle!Blind(m.symbols)
    OBVIOUS
  <2> HIDE DEF n
  <2>2. /\ Bundle!Trend(n.sp500, ShortWindow, 8) = -8 /\ Bundle!Trend(n.sp500, LongWindow, 10) = -10
        /\ Bundle!Trend(n.nasdaq, ShortWindow, 6) = -6 /\ Bundle!Trend(n.nasdaq, LongWindow, 6) = -6
    BY <1>2, <2>1, TrendBounds
  <2>3. /\ Bundle!Band(Bundle!Breadth(n.symbols).short, 600, 450, 5) = -5
        /\ Bundle!Band(Bundle!Breadth(n.symbols).long, 550, 400, 7) = -7
        /\ Bundle!Band(Bundle!Breadth(n.symbols).high, 180, 80, 4) = -4
    BY <2>1, BandBounds, BlindBreadth
  <2>4. Bundle!Volatility(n.vix) = 0
    BY <1>1, <2>1, VolatilityBounds
  <2>5. Bundle!Score(n) = Clamped(Points(-8, -10, -6, -6, -5, -7, -4, 0))
    BY <2>2, <2>3, <2>4, ScoreForm
  <2>6. Bundle!Score(n) = 4
    BY <2>5, ClampedForm DEF Points
  <2>7. Bundle!Regime(n) = "RISK_OFF"
    BY <2>6 DEF Bundle!Regime
  <2> QED
    BY <2>7 DEF n
<1> QED
  BY <1>3, <1>4, <1>5, <1>6 DEF Bundle!MissingNeverHelps

-----------------------------------------------------------------------------
(* The earnings map of a dispatch: what it holds of a target is the        *)
(* nearest of the events reported of it, and a target it holds nothing of  *)
(* has the status of its lookup.                                           *)

Calendars == {"fmp", "finnhub", "yfinance"}
Nearest(s) ==
  /\ events[s] = Bundle!NoEvent => \A e \in reported : e[1] # s
  /\ events[s] # Bundle!NoEvent =>
       /\ <<s, events[s].day, events[s].source>> \in reported
       /\ \A e \in reported : e[1] = s =>
            /\ events[s].day <= e[2]
            /\ e[2] = events[s].day => Bundle!Rank(e[3]) <= Bundle!Rank(events[s].source)

Gathered ==
  /\ DOMAIN events = Targets
  /\ reported \subseteq Targets \X (0..Horizon) \X Calendars
  /\ \A s \in Targets : Nearest(s)

Absent == Bundle!CoverageStatuses \ {Bundle!Present}

Statuses ==
  /\ DOMAIN statuses = Targets
  /\ \A s \in Targets : events[s] = Bundle!NoEvent => statuses[s] \in Absent \cup {"none"}
  /\ next \in {"events", "coverage"} =>
       \A s \in Targets : IF events[s] = Bundle!NoEvent THEN statuses[s] \in Absent
                                                        ELSE statuses[s] = Bundle!Present
  /\ DOMAIN files = FileNames /\ files["coverage"].says # "gaps"

\* An event is taken in
LEMMA Upserted ==
  ASSUME Gathered, NEW s \in Targets, NEW d \in Bundle!Dates, NEW source \in Calendars,
         Bundle!Upsert(s, d, source)
  PROVE  /\ Gathered'
         /\ \A x \in Targets : events'[x] = Bundle!NoEvent => events[x] = Bundle!NoEvent
<1>0. Horizon \in Nat /\ d \in Int
  BY JobAssumption DEF Bundle!HorizonAssumption, Bundle!Dates, Bundle!NoDate
<1> DEFINE new == [day |-> d, source |-> source]
<1>1. /\ DOMAIN events' = Targets /\ events'[s] = Bundle!Nearer(s, d, source)
      /\ \A x \in Targets \ {s} : events'[x] = events[x]
  BY DEF Bundle!Upsert, Gathered
<1>2. reported' = IF Bundle!InWindow(d) THEN reported \cup {<<s, d, source>>} ELSE reported
  BY DEF Bundle!Upsert
<1>3. reported' \subseteq Targets \X (0..Horizon) \X Calendars
  BY <1>0, <1>2 DEF Gathered, Bundle!InWindow
<1>4. new # Bundle!NoEvent \/ ~Bundle!InWindow(d)
  BY <1>0 DEF Bundle!NoEvent, Bundle!NoDate, Bundle!InWindow
<1>5. ASSUME NEW x \in Targets \ {s} PROVE Nearest(x)'
  <2>1. \A e : e \in reported' /\ e[1] = x <=> e \in reported /\ e[1] = x
    BY <1>2
  <2>2. Nearest(x) /\ events'[x] = events[x]
    BY <1>1 DEF Gathered
  <2>3. <<x, events[x].day, events[x].source>> \in reported
          => <<x, events[x].day, events[x].source>> \in reported'
    BY <1>2
  <2> QED
    BY <2>1, <2>2, <2>3 DEF Nearest
<1>6. Nearest(s)'
  <2>1. Nearest(s)
    BY DEF Gathered
  <2>2. CASE ~Bundle!InWindow(d)
    <3>1. events'[s] = events[s] /\ reported' = reported
      BY <1>1, <1>2, <2>2 DEF Bundle!Nearer
    <3> QED
      BY <2>1, <3>1 DEF Nearest
  <2>3. CASE Bundle!InWindow(d)
    <3>0. reported' = reported \cup {<<s, d, source>>} /\ new # Bundle!NoEvent
      BY <1>2, <1>4, <2>3
    <3>1. \A e \in reported : e[2] \in Int /\ Bundle!Rank(e[3]) \in Int
      BY <1>0 DEF Gathered, Bundle!Rank
    <3>2. new.day = d /\ new.source = source /\ Bundle!Rank(source) \in Int
      BY DEF Bundle!Rank
    <3>3. <<s, d, source>>[1] = s /\ <<s, d, source>>[2] = d /\ <<s, d, source>>[3] = source
      OBVIOUS
    <3>4. CASE events[s] = Bundle!NoEvent
      <4>1. events'[s] = new
        BY <1>1, <2>3, <3>4 DEF Bundle!Nearer
      <4>2. \A e \in reported' : e[1] = s => e = <<s, d, source>>
        BY <2>1, <3>0, <3>4 DEF Nearest
      <4> HIDE DEF new
      <4> QED
        BY <1>0, <3>0, <3>2, <3>3, <4>1, <4>2 DEF Nearest
    <3>5. CASE events[s] # Bundle!NoEvent
      <4> DEFINE before == events[s]
      <4>1. /\ <<s, before.day, before.source>> \in reported
            /\ \A e \in reported : e[1] = s =>
                 before.day <= e[2] /\ (e[2] = before.day => Bundle!Rank(e[3]) <= Bundle!Rank(before.source))
        BY <2>1, <3>5 DEF Nearest
      <4>2. before.day \in Int /\ Bundle!Rank(before.source) \in Int
        BY <3>1, <4>1
      <4>3. CASE d < before.day \/ (d = before.day /\ Bundle!Rank(source) > Bundle!Rank(before.source))
        <5>1. events'[s] = new
          BY <1>1, <2>3, <4>3 DEF Bundle!Nearer
        <5>2. \A e \in reported : e[1] = s =>
                d <= e[2] /\ (e[2] = d => Bundle!Rank(e[3]) <= Bundle!Rank(source))
          <6> SUFFICES ASSUME NEW e \in reported, e[1] = s
                       PROVE  d <= e[2] /\ (e[2] = d => Bundle!Rank(e[3]) <= Bundle!Rank(source))
            OBVIOUS
          <6>1. /\ before.day <= e[2] /\ (e[2] = before.day => Bundle!Rank(e[3]) <= Bundle!Rank(before.source))
                /\ e[2] \in Int /\ Bundle!Rank(e[3]) \in Int
            BY <3>1, <4>1
          <6> HIDE DEF before
          <6> QED
            BY <1>0, <3>2, <4>2, <4>3, <6>1
        <5> HIDE DEF new
        <5> QED
          BY <1>0, <3>0, <3>2, <3>3, <5>1, <5>2 DEF Nearest
      <4>4. CASE ~(d < before.day \/ (d = before.day /\ Bundle!Rank(source) > Bundle!Rank(before.source)))
        <5>1. events'[s] = before
          BY <1>1, <2>3, <3>5, <4>4 DEF Bundle!Nearer
        <5>2. before.day <= d /\ (d = before.day => Bundle!Rank(source) <= Bundle!Rank(before.source))
          BY <1>0, <3>2, <4>2, <4>4
        <5>3. before # Bundle!NoEvent
          BY <3>5
        <5> HIDE DEF before
        <5> QED
          BY <3>0, <3>3, <4>1, <5>1, <5>2, <5>3 DEF Nearest
      <4> QED
        BY <4>3, <4>4
    <3> QED
      BY <3>4, <3>5
  <2> QED
    BY <2>2, <2>3
<1>7. events'[s] = Bundle!NoEvent => events[s] = Bundle!NoEvent
  BY <1>1, <1>4 DEF Bundle!Nearer
<1> QED
  BY <1>1, <1>3, <1>5, <1>6, <1>7 DEF Gathered

\* What a lookup that finds no event in the window comes to
LEMMA Looked ==
  ASSUME NEW passed \in SUBSET {d \in Bundle!Dates : ~Bundle!InWindow(d)},
         NEW answered \in BOOLEAN, passed # {} => answered
  PROVE  Bundle!Observation(passed, answered) \in Absent
<1>1. \A d \in passed : d \in {Bundle!NoDate, -1, Horizon + 1}
  BY JobAssumption DEF Bundle!HorizonAssumption, Bundle!Dates, Bundle!NoDate, Bundle!InWindow
<1>2. \/ Horizon + 1 \in passed
      \/ Horizon + 1 \notin passed /\ -1 \in passed
      \/ Horizon + 1 \notin passed /\ -1 \notin passed /\ passed = {Bundle!NoDate}
      \/ Horizon + 1 \notin passed /\ -1 \notin passed /\ passed = {}
  BY <1>1
<1> QED
  BY <1>2 DEF Bundle!Observation, Absent, Bundle!CoverageStatuses, Bundle!Present

LEMMA GatheringInitially == Bundle!Init => Gathered /\ Statuses
BY JobAssumption DEF Bundle!Init, Gathered, Nearest, Statuses, Bundle!Unwritten, FileNames

\* Steps that leave the map alone
Idle ==
  /\ UNCHANGED <<events, statuses, reported>>
  /\ next' \in {"events", "coverage"} => next \in {"events", "coverage"}
  /\ \/ UNCHANGED files
     \/ \E file \in FileNames \ {"coverage"} : \E says : Bundle!Put(file, says)
     \/ \E says \in {"reconciled"} : Bundle!Put("coverage", says)

LEMMA IdleKeeps ==
  ASSUME Gathered, Statuses, Idle
  PROVE  Gathered' /\ Statuses'
<1>1. Gathered'
  BY DEF Idle, Gathered, Nearest
<1>2. DOMAIN files' = FileNames /\ files'["coverage"].says # "gaps"
  <2>1. CASE UNCHANGED files
    BY <2>1 DEF Statuses
  <2>2. ASSUME NEW file \in FileNames \ {"coverage"}, NEW says, Bundle!Put(file, says)
        PROVE  DOMAIN files' = FileNames /\ files'["coverage"].says # "gaps"
    BY <2>2 DEF Statuses, Bundle!Put, FileNames
  <2>3. CASE Bundle!Put("coverage", "reconciled")
    BY <2>3 DEF Statuses, Bundle!Put, FileNames
  <2> QED
    BY <2>1, <2>2, <2>3 DEF Idle
<1> QED
  BY <1>1, <1>2 DEF Idle, Statuses

LEMMA GatheringKept ==
  ASSUME Gathered, Statuses, [Bundle!Next]_Bundle!bundleVars
  PROVE  Gathered' /\ Statuses'
<1> USE DEF FileNames
<1>1. CASE Bundle!Dispatch
  <2>1. /\ events' = [s \in Targets |-> Bundle!NoEvent] /\ statuses' = [s \in Targets |-> "none"]
        /\ reported' = {} /\ next' = "lineage"
        /\ files' = [files EXCEPT !["progress"] = [of |-> dispatch + 1, says |-> "PROCESSING"]]
    BY <1>1 DEF Bundle!Dispatch
  <2> QED
    BY <2>1 DEF Gathered, Nearest, Statuses
<1>2. CASE Bundle!PublishLineage
  <2>1. Idle
    BY <1>2 DEF Idle, Bundle!PublishLineage, Bundle!PutFails, Bundle!earningsVars
  <2> QED
    BY <2>1, IdleKeeps
<1>3. CASE Bundle!PublishRegime
  <2>1. Idle
    BY <1>3 DEF Idle, Bundle!PublishRegime, Bundle!PutFails, Bundle!earningsVars
  <2> QED
    BY <2>1, IdleKeeps
<1>4. CASE Bundle!FmpDone \/ Bundle!FmpBreaks \/ Bundle!FinnhubDone
  <2>1. Idle
    BY <1>4 DEF Idle, Bundle!FmpDone, Bundle!FmpBreaks, Bundle!FinnhubDone, Bundle!AfterFmp,
                Bundle!earningsVars
  <2> QED
    BY <2>1, IdleKeeps
<1>5. CASE Bundle!FmpRow \/ Bundle!FinnhubRow
  <2>1. PICK source \in Calendars : Bundle!CalendarRow(source) /\ source \in {"fmp", "finnhub"}
    BY <1>5 DEF Bundle!FmpRow, Bundle!FinnhubRow, Calendars
  <2>2. PICK s \in Targets, d \in Bundle!Dates : Bundle!Upsert(s, d, source)
    BY <2>1 DEF Bundle!CalendarRow
  <2>3. UNCHANGED <<next, statuses, files>> /\ next \in {"fmp", "finnhub"}
    BY <2>1 DEF Bundle!CalendarRow
  <2>4. Gathered' /\ \A x \in Targets : events'[x] = Bundle!NoEvent => events[x] = Bundle!NoEvent
    BY <2>2, Upserted
  <2> QED
    BY <2>3, <2>4 DEF Statuses
<1>6. CASE Bundle!YahooLookup
  <2>1. PICK s \in Bundle!Missing :
         \/ \E d \in {d \in Bundle!Dates : Bundle!InWindow(d)} :
              /\ Bundle!Upsert(s, d, "yfinance")
              /\ statuses' = [statuses EXCEPT ![s] = Bundle!UpsertStatus(d)]
         \/ \E passed \in SUBSET {d \in Bundle!Dates : ~Bundle!InWindow(d)}, answered \in BOOLEAN :
              /\ passed # {} => answered
              /\ statuses' = [statuses EXCEPT ![s] = Bundle!Observation(passed, answered)]
              /\ UNCHANGED <<events, reported>>
    BY <1>6 DEF Bundle!YahooLookup
  <2>2. s \in Targets /\ UNCHANGED <<next, files>> /\ next = "yfinance"
    BY <1>6 DEF Bundle!YahooLookup, Bundle!Missing
  <2>3. ASSUME NEW d \in Bundle!Dates, Bundle!InWindow(d), Bundle!Upsert(s, d, "yfinance"),
               statuses' = [statuses EXCEPT ![s] = Bundle!UpsertStatus(d)]
        PROVE  Gathered' /\ Statuses'
    <3>1. Gathered' /\ \A x \in Targets : events'[x] = Bundle!NoEvent => events[x] = Bundle!NoEvent
      BY <2>2, <2>3, Upserted DEF Calendars
    <3>2. events'[s] # Bundle!NoEvent
      <4>1. events'[s] = Bundle!Nearer(s, d, "yfinance") /\ events[s] = Bundle!NoEvent
        BY <2>2, <2>3 DEF Bundle!Upsert, Gathered, Bundle!Missing
      <4>2. events'[s].day = d
        BY <2>3, <4>1 DEF Bundle!Nearer
      <4>3. d # -2
        BY <2>3, JobAssumption DEF Bundle!InWindow, Bundle!Dates, Bundle!NoDate, Bundle!HorizonAssumption
      <4> QED
        BY <4>2, <4>3 DEF Bundle!NoEvent, Bundle!NoDate
    <3> QED
      BY <2>2, <2>3, <3>1, <3>2 DEF Statuses
  <2>4. ASSUME NEW passed \in SUBSET {d \in Bundle!Dates : ~Bundle!InWindow(d)},
               NEW answered \in BOOLEAN, passed # {} => answered,
               statuses' = [statuses EXCEPT ![s] = Bundle!Observation(passed, answered)],
               UNCHANGED <<events, reported>>
        PROVE  Gathered' /\ Statuses'
    <3>1. Bundle!Observation(passed, answered) \in Absent
      BY <2>4, Looked
    <3>2. Gathered'
      BY <2>4 DEF Gathered, Nearest
    <3> QED
      BY <2>2, <2>4, <3>1, <3>2 DEF Statuses
  <2> QED
    BY <2>1, <2>3, <2>4
<1>7. CASE Bundle!Classify
  <2>1. /\ \A s \in Targets : events[s] = Bundle!NoEvent => statuses[s] # "none"
        /\ statuses' = [s \in Targets |-> IF events[s] = Bundle!NoEvent THEN statuses[s] ELSE Bundle!Present]
        /\ UNCHANGED <<events, reported, files>>
    BY <1>7 DEF Bundle!Classify, Bundle!Missing
  <2>2. Gathered'
    BY <2>1 DEF Gathered, Nearest
  <2> QED
    BY <2>1, <2>2 DEF Statuses
<1>8. CASE Bundle!PublishEvents
  <2>1. Idle
    BY <1>8 DEF Idle, Bundle!PublishEvents, Bundle!PutFails, Bundle!earningsVars
  <2> QED
    BY <2>1, IdleKeeps
<1>9. CASE Bundle!PublishCoverage
  <2>1. Bundle!CoverageSays = "reconciled"
    BY <1>9 DEF Bundle!PublishCoverage, Statuses, Bundle!CoverageSays, Absent,
                Bundle!CoverageStatuses, Bundle!Present
  <2>2. Idle
    BY <1>9, <2>1 DEF Idle, Bundle!PublishCoverage, Bundle!PutFails, Bundle!earningsVars
  <2> QED
    BY <2>2, IdleKeeps
<1>10. CASE Bundle!PublishCompleted
  <2>1. Idle
    BY <1>10 DEF Idle, Bundle!PublishCompleted, Bundle!PutFails, Bundle!earningsVars
  <2> QED
    BY <2>1, IdleKeeps
<1>11. CASE Bundle!PublishReady
  <2>1. Idle
    BY <1>11 DEF Idle, Bundle!PublishReady, Bundle!PutFails, Bundle!earningsVars
  <2> QED
    BY <2>1, IdleKeeps
<1>12. CASE Bundle!Dies
  <2>1. Idle
    BY <1>12 DEF Idle, Bundle!Dies, Bundle!earningsVars
  <2> QED
    BY <2>1, IdleKeeps
<1>13. CASE UNCHANGED Bundle!bundleVars
  <2>1. Idle
    BY <1>13 DEF Idle, Bundle!bundleVars
  <2> QED
    BY <2>1, IdleKeeps
<1> QED
  BY <1>1, <1>2, <1>3, <1>4, <1>5, <1>6, <1>7, <1>8, <1>9, <1>10, <1>11, <1>12, <1>13
     DEF Bundle!Next

\* The published earnings map holds for each target the nearest event that any
\* calendar or lookup reported within the window; every target is classified, as
\* present exactly when it has one, and the coverage audit finds no gap.
THEOREM NearestIsKept == JobSpec => []NearestEventKept
<1>1. Gathered /\ Statuses => NearestEventKept
  <2> SUFFICES ASSUME Gathered, Statuses PROVE Bundle!NearestEventKept
    BY DEF NearestEventKept
  <2>1. ASSUME next = "events", NEW s \in Targets
        PROVE  LET mine == {e \in reported : e[1] = s} IN
               /\ events[s] = Bundle!NoEvent <=> mine = {}
               /\ events[s] # Bundle!NoEvent =>
                    /\ <<s, events[s].day, events[s].source>> \in mine
                    /\ \A e \in mine : events[s].day <= e[2]
               /\ statuses[s] # "none" /\ (statuses[s] = Bundle!Present <=> mine # {})
    <3> DEFINE mine == {e \in reported : e[1] = s}
    <3>1. Nearest(s)
      BY DEF Gathered
    <3>2. events[s] = Bundle!NoEvent <=> mine = {}
      BY <3>1 DEF Nearest
    <3>3. IF events[s] = Bundle!NoEvent THEN statuses[s] \in Absent ELSE statuses[s] = Bundle!Present
      BY <2>1 DEF Statuses
    <3>4. "none" \notin Absent /\ Bundle!Present \notin Absent /\ Bundle!Present # "none"
      BY DEF Absent, Bundle!CoverageStatuses, Bundle!Present
    <3>5. statuses[s] # "none" /\ (statuses[s] = Bundle!Present <=> mine # {})
      BY <3>2, <3>3, <3>4
    <3> QED
      BY <3>1, <3>2, <3>5 DEF Nearest
  <2> QED
    BY <2>1 DEF Statuses, Bundle!NearestEventKept
<1> QED
  BY <1>1, BundlePart, GatheringInitially, GatheringKept, PTL DEF Bundle!Spec

-----------------------------------------------------------------------------
(* The verdict on a symbol's row.                                          *)

Cases == SecCases \cup DriveCases

LEMMA SameCount ==
  \A S : Row!Cardinality(S) = Cardinality(S) /\ (Row!IsFiniteSet(S) <=> IsFiniteSet(S))
<1>1. \A S : Row!Cardinality(S) = Cardinality(S)
  BY DEF Row!Cardinality, Cardinality
<1>2. \A S : Row!IsFiniteSet(S) <=> IsFiniteSet(S)
  BY DEF Row!IsFiniteSet, IsFiniteSet
<1> QED
  BY <1>1, <1>2

\* What a verified row is backed by
Backed(c) ==
  LET f == Row!Figure(c.record, c.payload)
      matching == {i \in DOMAIN c.facts :
                     c.facts[i].value = f.value /\ c.facts[i].period = f.period}
      published == {c.facts[i] : i \in {i \in matching : c.facts[i].form \in Row!EligibleForms}}
  IN  /\ f.source = "HISTORY" /\ \E r \in c.payload : r.value = f.value /\ r.period = f.period
      /\ Row!IdentityHolds(c)
      /\ Row!Cardinality(published) = 1
      /\ \A fact \in published :
           /\ fact.accession \in DOMAIN c.filings
           /\ c.filings[fact.accession].form = fact.form
           /\ c.filings[fact.accession].published <= Retrieved

\* A filing counts when it is listed as the fact says and of before the retrieval
LEMMA FiledMeans ==
  ASSUME NEW c \in Cases, NEW fact
  PROVE  Row!FilingStatus(fact, c.filings) = "FILED" <=>
           /\ fact.accession \in DOMAIN c.filings
           /\ c.filings[fact.accession].form = fact.form
           /\ c.filings[fact.accession].published <= Retrieved
<1>1. Retrieved \in Int /\ \A a \in DOMAIN c.filings : c.filings[a].published \in Int
  BY JobAssumption DEF Row!CasesAssumption, Cases
<1>2. CASE fact.accession \notin DOMAIN c.filings
  BY <1>2 DEF Row!FilingStatus
<1>3. CASE fact.accession \in DOMAIN c.filings
  <2> DEFINE f == c.filings[fact.accession]
  <2>1. f.published \in Int
    BY <1>1, <1>3
  <2> HIDE DEF f
  <2>2. Row!FilingStatus(fact, c.filings) =
          CASE f.form # fact.form -> "FORM_MISMATCH"
            [] f.form = fact.form /\ f.published > Retrieved -> "PUBLICATION_AFTER_RETRIEVAL"
            [] f.form = fact.form /\ f.published <= Retrieved -> "FILED"
    BY <1>3 DEF Row!FilingStatus, f
  <2>3. Row!FilingStatus(fact, c.filings) = "FILED" <=> f.form = fact.form /\ f.published <= Retrieved
    BY <1>1, <2>1, <2>2
  <2> QED
    BY <1>3, <2>3 DEF f
<1> QED
  BY <1>2, <1>3

\* The statuses of one filing, and of several, tell verified rows from the others
LEMMA StatusesOf ==
  ASSUME NEW fact, NEW facts, NEW filings, NEW slots, Cardinality(slots) \in Nat \ {0}
  PROVE  /\ Row!OfOne(fact, slots) \in Row!VerifiedStatuses
         /\ Row!OfMany(facts, filings) \notin Row!VerifiedStatuses
<1>1. Row!OfOne(fact, slots) \in Row!VerifiedStatuses
  BY SameCount DEF Row!OfOne, Row!VerifiedStatuses
<1>2. Row!OfMany(facts, filings) \in {"PUBLICATION_AFTER_RETRIEVAL", "MULTIPLE_ACCESSIONS_AMBIGUOUS"}
  BY DEF Row!OfMany
<1> QED
  BY <1>1, <1>2 DEF Row!VerifiedStatuses

LEMMA ClassifiedMeans ==
  ASSUME NEW c \in Cases, NEW figure
  PROVE  LET unique == Row!Distinct(c, Row!Candidates(c, figure))
         IN  Row!Classified(c, figure) \in Row!VerifiedStatuses <=>
               /\ Cardinality(unique) = 1
               /\ \A fact \in unique : Row!FilingStatus(fact, c.filings) = "FILED"
<1> DEFINE slots == Row!Candidates(c, figure)
           unique == Row!Distinct(c, slots)
           fact == CHOOSE f \in unique : TRUE
           filing == Row!FilingStatus(fact, c.filings)
<1> DEFINE Stated == Row!Classified(c, figure) \in Row!VerifiedStatuses <=>
                       /\ Cardinality(unique) = 1
                       /\ \A f \in unique : Row!FilingStatus(f, c.filings) = "FILED"
<1>1. IsFiniteSet(slots) /\ slots \subseteq DOMAIN c.facts
  <2>1. IsFiniteSet(DOMAIN c.facts)
    BY JobAssumption, SameCount DEF Row!CasesAssumption, Cases
  <2>2. slots \in SUBSET DOMAIN c.facts
    BY DEF Row!Candidates, Row!Exact
  <2> QED
    BY <2>1, <2>2, FS_Subset
<1>2. unique = {c.facts[i] : i \in slots}
  BY DEF Row!Distinct
<1>3. IsFiniteSet(unique)
  <2> DEFINE f == [i \in slots |-> c.facts[i]]
  <2>1. f \in Surjection(slots, unique)
    BY <1>2 DEF Surjection
  <2> QED
    BY <1>1, <2>1, FS_Surjection
<1>4. Cardinality(unique) \in Nat /\ Cardinality(slots) \in Nat
  BY <1>1, <1>3, FS_CardinalityType
<1>5. Row!Classified(c, figure) =
        IF unique = {}
        THEN IF Row!Exact(c, figure) # {} THEN "FORM_MISMATCH" ELSE "FACT_NOT_FOUND"
        ELSE IF Cardinality(unique) > 1 THEN Row!OfMany(unique, c.filings)
        ELSE IF filing = "FILED" THEN Row!OfOne(fact, slots) ELSE filing
  BY SameCount DEF Row!Classified
<1>6. ASSUME unique = {} PROVE Stated
  <2>1. Cardinality(unique) = 0
    BY <1>6, FS_EmptySet
  <2> QED
    BY <1>5, <1>6, <2>1 DEF Row!VerifiedStatuses
<1>7. ASSUME unique # {} PROVE Stated
  <2>1. slots # {}
    BY <1>2, <1>7
  <2>2. Cardinality(slots) \in Nat \ {0} /\ Cardinality(unique) # 0
    BY <1>1, <1>3, <1>4, <1>7, <2>1, FS_EmptySet
  <2> HIDE DEF slots, unique
  <2>3. CASE Cardinality(unique) > 1
    BY <1>4, <1>5, <1>7, <2>2, <2>3, StatusesOf
  <2>4. CASE Cardinality(unique) = 1
    <3>1. PICK x : unique = {x}
      BY <1>3, <2>4, FS_Singleton
    <3>2. fact = x
      BY <3>1
    <3> HIDE DEF fact
    <3>3. Row!Classified(c, figure) = IF filing = "FILED" THEN Row!OfOne(fact, slots) ELSE filing
      BY <1>5, <1>7, <2>4
    <3>4. filing \notin Row!VerifiedStatuses
      <4>1. filing \in {"SUBMISSION_MISSING", "FORM_MISMATCH", "PUBLICATION_AFTER_RETRIEVAL", "FILED"}
        <5>1. Retrieved \in Int /\ \A a \in DOMAIN c.filings : c.filings[a].published \in Int
          BY JobAssumption DEF Row!CasesAssumption, Cases
        <5> QED
          BY <5>1 DEF Row!FilingStatus
      <4> QED
        BY <4>1 DEF Row!VerifiedStatuses
    <3>5. Row!OfOne(fact, slots) \in Row!VerifiedStatuses
      BY <2>2, StatusesOf
    <3> QED
      BY <2>4, <3>1, <3>2, <3>3, <3>4, <3>5
  <2> QED
    BY <1>4, <2>2, <2>3, <2>4
<1> QED
  BY <1>6, <1>7

LEMMA VerifiedMeans ==
  ASSUME NEW c \in Cases
  PROVE  Row!Classification(c) \in Row!VerifiedStatuses <=> Backed(c)
<1> DEFINE figure == Row!Figure(c.record, c.payload)
           input == Row!InputStatus(figure, c.payload)
           unique == Row!Distinct(c, Row!Candidates(c, figure))
<1>1. /\ input \in {"NOT_APPLICABLE", "READY", "FACT_NOT_FOUND"}
      /\ input = "READY" <=>
           /\ figure.source = "HISTORY"
           /\ \E r \in c.payload : r.value = figure.value /\ r.period = figure.period
  <2> HIDE DEF figure
  <2> QED
    BY DEF Row!InputStatus
<1>2. Row!Classification(c) =
        CASE input # "READY" -> input
          [] input = "READY" /\ ~Row!IdentityHolds(c) -> "IDENTITY_INVALID"
          [] input = "READY" /\ Row!IdentityHolds(c) -> Row!Classified(c, figure)
  BY DEF Row!Classification
<1>3. Backed(c) <=>
        /\ figure.source = "HISTORY"
        /\ \E r \in c.payload : r.value = figure.value /\ r.period = figure.period
        /\ Row!IdentityHolds(c)
        /\ Cardinality(unique) = 1
        /\ \A fact \in unique : Row!FilingStatus(fact, c.filings) = "FILED"
  <2> DEFINE matching == {i \in DOMAIN c.facts :
                            c.facts[i].value = figure.value /\ c.facts[i].period = figure.period}
             published == {c.facts[i] : i \in {i \in matching : c.facts[i].form \in Row!EligibleForms}}
  <2>1. published = unique
    BY DEF Row!Distinct, Row!Candidates, Row!Exact
  <2>2. Backed(c) <=>
          /\ figure.source = "HISTORY"
          /\ \E r \in c.payload : r.value = figure.value /\ r.period = figure.period
          /\ Row!IdentityHolds(c)
          /\ Cardinality(published) = 1
          /\ \A fact \in published :
               /\ fact.accession \in DOMAIN c.filings
               /\ c.filings[fact.accession].form = fact.form
               /\ c.filings[fact.accession].published <= Retrieved
    BY SameCount DEF Backed
  <2> HIDE DEF published, unique, figure
  <2> QED
    BY <2>1, <2>2, FiledMeans
<1>4. Row!Classified(c, figure) \in Row!VerifiedStatuses <=>
        /\ Cardinality(unique) = 1
        /\ \A fact \in unique : Row!FilingStatus(fact, c.filings) = "FILED"
  BY ClassifiedMeans
<1> HIDE DEF figure, input, unique
<1>5. CASE input # "READY"
  BY <1>1, <1>2, <1>3, <1>5 DEF Row!VerifiedStatuses
<1>6. CASE input = "READY" /\ ~Row!IdentityHolds(c)
  BY <1>2, <1>3, <1>6 DEF Row!VerifiedStatuses
<1>7. CASE input = "READY" /\ Row!IdentityHolds(c)
  BY <1>1, <1>2, <1>3, <1>4, <1>7
<1> QED
  BY <1>5, <1>6, <1>7

\* A row is verified if and only if the history file bears out its figure, the
\* company is certain, and the facts in eligible forms name one publication of
\* that figure, listed as such and no later than the retrieval.
THEOREM VerifiedIsBacked == JobSpec => []VerifiedIsTheOnlyFiling
<1> DEFINE Judged == case \in Cases /\ (verdict = "none" \/ verdict = Row!Classification(case))
<1>1. JobInit => Judged
  BY DEF JobInit, Row!RowInit, Cases
<1>2. Judged /\ [JobNext]_jobVars => Judged'
  BY DEF JobNext, jobVars, ofRow, Row!Judge
<1>3. Judged => VerifiedIsTheOnlyFiling
  <2> SUFFICES ASSUME Judged, verdict # "none"
               PROVE  verdict \in Row!VerifiedStatuses <=> Backed(case)
    BY DEF VerifiedIsTheOnlyFiling, Row!VerifiedIsTheOnlyFiling, Backed
  <2> QED
    BY VerifiedMeans
<1> QED
  BY <1>1, <1>2, <1>3, PTL DEF JobSpec

-----------------------------------------------------------------------------
(* The lineage producer's runs.  Two arguments.  A run that may send       *)
(* requests has claimed its key: the cache holds the key, or has lost a    *)
(* call on it; and while a run is on its way from the lookup to the save   *)
(* no other run of its workflow moves, so a second claim needs a loss.  A  *)
(* run that is about to publish finds its archive as it left it, because   *)
(* the runs beside it have other keys.                                     *)

Early     == {"lookup", "reserve", "save", "read"}
Steps     == Over \cup Early \cup {"new", "request", "build", "archive", "publish", "finish"}
Sentinels == {"none", "IN_PROGRESS", "COMPLETE", "FAILED"}
Verdicts  == {"none", "PASS", "NO_VERIFIED_ROWS", "REQUEST_BUDGET_INVALID",
              "RUNTIME_FAILURE", "PERSISTENCE_FAILURE"}

LineageTypes ==
  /\ today \in Nat \ {0}
  /\ kind \in [Runs -> Kinds]
  /\ step \in [Runs -> Steps]
  /\ window \in [Runs -> Nat]
  /\ sentinel \in [Runs -> Sentinels]
  /\ sent \in [Runs -> Nat]
  /\ status \in [Runs -> Verdicts]

(* Runs that move at the same time are of different groups, and dated. *)
Alone ==
  /\ \A q, r \in Runs : q # r /\ Live(q) /\ Live(r) => ~Excludes(kind[q], kind[r])
  /\ \A r \in Runs : step[r] # "new" => window[r] > 0

(* Where a run stands tells how many requests it has sent. *)
Counted ==
  /\ \A r \in Runs : /\ step[r] \in Early \cup {"new"} => sent[r] = 0
                     /\ step[r] = "request" => sent[r] < 3
                     /\ step[r] \in {"build", "archive", "publish"} => sent[r] = 3
  /\ current # "none" => current \in Runs /\ sent[current] = 3

(* A run that has looked its key up, and one that may send requests. *)
Bound(r)   == step[r] \in {"reserve", "save"}
Claimed(r) == sent[r] > 0 \/ step[r] \in {"read", "request"}

Claims ==
  /\ \A r \in Runs : Claimed(r) => ReservationKey(r) \in reserved \cup lost
  /\ \A q, r \in Runs :
       q # r /\ Claimed(q) /\ (Claimed(r) \/ Bound(r)) /\ ReservationKey(q) = ReservationKey(r)
       => ReservationKey(r) \in lost

Published ==
  \A r \in Runs :
    /\ step[r] = "publish" => <<ArchiveName(r), r>> \in archives
    /\ step[r] = "finish" /\ status[r] = "PASS" => r \in held
    /\ sentinel[r] = "COMPLETE" => r \in held /\ status[r] = "PASS" /\ step[r] = "exited"

LineageInv == LineageTypes /\ Alone /\ Counted /\ Claims /\ Published

-----------------------------------------------------------------------------
\* The invariant holds initially.
LEMMA LineageInitially == Init => LineageInv
<1> SUFFICES ASSUME Init PROVE LineageInv
  OBVIOUS
<1>1. LineageTypes
  BY DEF Init, LineageTypes, Steps, Sentinels, Verdicts
<1>2. Alone
  BY DEF Init, Alone, Live
<1>3. Counted
  BY DEF Init, Counted, Early
<1>4. Claims
  BY DEF Init, Claims, Claimed
<1>5. Published
  BY DEF Init, Published
<1> QED
  BY <1>1, <1>2, <1>3, <1>4, <1>5 DEF LineageInv

\* Each step keeps the types.
LEMMA LineageTypesStep == LineageTypes /\ [Next]_lineageVars => LineageTypes'
<1> SUFFICES ASSUME LineageTypes, [Next]_lineageVars PROVE LineageTypes'
  OBVIOUS
<1> USE DEF LineageTypes, Steps, Early, Sentinels, Verdicts, Over, Goto, cache, drive
<1>1. CASE UNCHANGED lineageVars
  BY <1>1 DEF lineageVars
<1>2. CASE NextDate
  BY <1>2 DEF NextDate
<1>3. ASSUME NEW r \in Runs, Prepare(r) PROVE LineageTypes'
  BY <1>3 DEF Prepare
<1>4. ASSUME NEW r \in Runs, Lookup(r) PROVE LineageTypes'
  BY <1>4 DEF Lookup
<1>5. ASSUME NEW r \in Runs, Reserve(r) PROVE LineageTypes'
  BY <1>5 DEF Reserve
<1>6. ASSUME NEW r \in Runs, Save(r) PROVE LineageTypes'
  BY <1>6 DEF Save
<1>7. ASSUME NEW r \in Runs, Refuse(r) PROVE LineageTypes'
  BY <1>7 DEF Refuse
<1>8. ASSUME NEW r \in Runs, ReadSources(r) PROVE LineageTypes'
  BY <1>8 DEF ReadSources, Fails
<1>9. ASSUME NEW r \in Runs, Request(r) PROVE LineageTypes'
  BY <1>9 DEF Request, Fails
<1>10. ASSUME NEW r \in Runs, Build(r) PROVE LineageTypes'
  BY <1>10 DEF Build, Fails, ProducerStatus
<1>11. ASSUME NEW r \in Runs, Archive(r) PROVE LineageTypes'
  BY <1>11 DEF Archive, NotPublished
<1>12. ASSUME NEW r \in Runs, Publish(r) PROVE LineageTypes'
  BY <1>12 DEF Publish, NotPublished
<1>13. ASSUME NEW r \in Runs, Finish(r) PROVE LineageTypes'
  BY <1>13 DEF Finish, TerminalStatus
<1>14. ASSUME NEW r \in Runs, Dies(r) PROVE LineageTypes'
  BY <1>14 DEF Dies
<1> QED
  BY <1>1, <1>2, <1>3, <1>4, <1>5, <1>6, <1>7, <1>8, <1>9, <1>10, <1>11, <1>12, <1>13, <1>14
  DEF Next

\* Runs of one group take turns.
LEMMA AloneStep == LineageTypes /\ Alone /\ [Next]_lineageVars => Alone'
<1> SUFFICES ASSUME LineageTypes, Alone, [Next]_lineageVars PROVE Alone'
  OBVIOUS
<1> USE DEF LineageTypes, Steps, Early, Over, Alone, Live, Excludes, Goto, cache, drive
<1>1. CASE UNCHANGED lineageVars
  BY <1>1 DEF lineageVars
<1>2. CASE NextDate
  BY <1>2 DEF NextDate
<1>3. ASSUME NEW r \in Runs, Prepare(r) PROVE Alone'
  BY <1>3 DEF Prepare
<1>4. ASSUME NEW r \in Runs, Lookup(r) PROVE Alone'
  BY <1>4 DEF Lookup
<1>5. ASSUME NEW r \in Runs, Reserve(r) PROVE Alone'
  BY <1>5 DEF Reserve
<1>6. ASSUME NEW r \in Runs, Save(r) PROVE Alone'
  BY <1>6 DEF Save
<1>7. ASSUME NEW r \in Runs, Refuse(r) PROVE Alone'
  BY <1>7 DEF Refuse
<1>8. ASSUME NEW r \in Runs, ReadSources(r) PROVE Alone'
  BY <1>8 DEF ReadSources, Fails
<1>9. ASSUME NEW r \in Runs, Request(r) PROVE Alone'
  BY <1>9 DEF Request, Fails
<1>10. ASSUME NEW r \in Runs, Build(r) PROVE Alone'
  BY <1>10 DEF Build, Fails
<1>11. ASSUME NEW r \in Runs, Archive(r) PROVE Alone'
  BY <1>11 DEF Archive, NotPublished
<1>12. ASSUME NEW r \in Runs, Publish(r) PROVE Alone'
  BY <1>12 DEF Publish, NotPublished
<1>13. ASSUME NEW r \in Runs, Finish(r) PROVE Alone'
  BY <1>13 DEF Finish
<1>14. ASSUME NEW r \in Runs, Dies(r) PROVE Alone'
  BY <1>14 DEF Dies
<1> QED
  BY <1>1, <1>2, <1>3, <1>4, <1>5, <1>6, <1>7, <1>8, <1>9, <1>10, <1>11, <1>12, <1>13, <1>14
  DEF Next

\* A run sends three requests, one at a time.
LEMMA CountedStep == LineageTypes /\ Counted /\ [Next]_lineageVars => Counted'
<1> SUFFICES ASSUME LineageTypes, Counted, [Next]_lineageVars PROVE Counted'
  OBVIOUS
<1> USE DEF LineageTypes, Steps, Early, Over, Counted, Goto, cache, drive
<1>1. CASE UNCHANGED lineageVars
  BY <1>1 DEF lineageVars
<1>2. CASE NextDate
  BY <1>2 DEF NextDate
<1>3. ASSUME NEW r \in Runs, Prepare(r) PROVE Counted'
  BY <1>3 DEF Prepare
<1>4. ASSUME NEW r \in Runs, Lookup(r) PROVE Counted'
  BY <1>4 DEF Lookup
<1>5. ASSUME NEW r \in Runs, Reserve(r) PROVE Counted'
  BY <1>5 DEF Reserve
<1>6. ASSUME NEW r \in Runs, Save(r) PROVE Counted'
  BY <1>6 DEF Save
<1>7. ASSUME NEW r \in Runs, Refuse(r) PROVE Counted'
  BY <1>7 DEF Refuse
<1>8. ASSUME NEW r \in Runs, ReadSources(r) PROVE Counted'
  BY <1>8 DEF ReadSources, Fails
<1>9. ASSUME NEW r \in Runs, Request(r) PROVE Counted'
  BY <1>9 DEF Request, Fails
<1>10. ASSUME NEW r \in Runs, Build(r) PROVE Counted'
  BY <1>10 DEF Build, Fails
<1>11. ASSUME NEW r \in Runs, Archive(r) PROVE Counted'
  BY <1>11 DEF Archive, NotPublished
<1>12. ASSUME NEW r \in Runs, Publish(r) PROVE Counted'
  BY <1>12 DEF Publish, NotPublished
<1>13. ASSUME NEW r \in Runs, Finish(r) PROVE Counted'
  BY <1>13 DEF Finish
<1>14. ASSUME NEW r \in Runs, Dies(r) PROVE Counted'
  BY <1>14 DEF Dies
<1> QED
  BY <1>1, <1>2, <1>3, <1>4, <1>5, <1>6, <1>7, <1>8, <1>9, <1>10, <1>11, <1>12, <1>13, <1>14
  DEF Next

\* A second claim of a key needs a loss on it.
LEMMA ClaimsStep == LineageTypes /\ Alone /\ Counted /\ Claims /\ [Next]_lineageVars => Claims'
<1> SUFFICES ASSUME LineageTypes, Alone, Counted, Claims, [Next]_lineageVars PROVE Claims'
  OBVIOUS
<1> USE DEF LineageTypes, Steps, Early, Over, Alone, Live, Excludes, Counted, Claims, Claimed, Bound, ReservationKey, CollectionKey, Goto, cache, drive
<1>1. CASE UNCHANGED lineageVars
  BY <1>1 DEF lineageVars
<1>2. CASE NextDate
  BY <1>2 DEF NextDate
<1>3. ASSUME NEW r \in Runs, Prepare(r) PROVE Claims'
  BY <1>3 DEF Prepare
<1>4. ASSUME NEW r \in Runs, Lookup(r) PROVE Claims'
  BY <1>4 DEF Lookup
<1>5. ASSUME NEW r \in Runs, Reserve(r) PROVE Claims'
  BY <1>5 DEF Reserve
<1>6. ASSUME NEW r \in Runs, Save(r) PROVE Claims'
  BY <1>6 DEF Save
<1>7. ASSUME NEW r \in Runs, Refuse(r) PROVE Claims'
  BY <1>7 DEF Refuse
<1>8. ASSUME NEW r \in Runs, ReadSources(r) PROVE Claims'
  BY <1>8 DEF ReadSources, Fails
<1>9. ASSUME NEW r \in Runs, Request(r) PROVE Claims'
  BY <1>9 DEF Request, Fails
<1>10. ASSUME NEW r \in Runs, Build(r) PROVE Claims'
  BY <1>10 DEF Build, Fails
<1>11. ASSUME NEW r \in Runs, Archive(r) PROVE Claims'
  BY <1>11 DEF Archive, NotPublished
<1>12. ASSUME NEW r \in Runs, Publish(r) PROVE Claims'
  BY <1>12 DEF Publish, NotPublished
<1>13. ASSUME NEW r \in Runs, Finish(r) PROVE Claims'
  BY <1>13 DEF Finish
<1>14. ASSUME NEW r \in Runs, Dies(r) PROVE Claims'
  BY <1>14 DEF Dies
<1> QED
  BY <1>1, <1>2, <1>3, <1>4, <1>5, <1>6, <1>7, <1>8, <1>9, <1>10, <1>11, <1>12, <1>13, <1>14
  DEF Next

\* What a run publishes is what it archived.
LEMMA PublishedStep == LineageTypes /\ Alone /\ Published /\ [Next]_lineageVars => Published'
<1> SUFFICES ASSUME LineageTypes, Alone, Published, [Next]_lineageVars PROVE Published'
  OBVIOUS
<1> USE DEF LineageTypes, Steps, Early, Over, Sentinels, Alone, Live, Excludes, Published, ArchiveName, Archived, CollectionKey, Goto, cache, drive
<1>1. CASE UNCHANGED lineageVars
  BY <1>1 DEF lineageVars
<1>2. CASE NextDate
  BY <1>2 DEF NextDate
<1>3. ASSUME NEW r \in Runs, Prepare(r) PROVE Published'
  BY <1>3 DEF Prepare
<1>4. ASSUME NEW r \in Runs, Lookup(r) PROVE Published'
  BY <1>4 DEF Lookup
<1>5. ASSUME NEW r \in Runs, Reserve(r) PROVE Published'
  BY <1>5 DEF Reserve
<1>6. ASSUME NEW r \in Runs, Save(r) PROVE Published'
  BY <1>6 DEF Save
<1>7. ASSUME NEW r \in Runs, Refuse(r) PROVE Published'
  BY <1>7 DEF Refuse
<1>8. ASSUME NEW r \in Runs, ReadSources(r) PROVE Published'
  BY <1>8 DEF ReadSources, Fails
<1>9. ASSUME NEW r \in Runs, Request(r) PROVE Published'
  BY <1>9 DEF Request, Fails
<1>10. ASSUME NEW r \in Runs, Build(r) PROVE Published'
  BY <1>10 DEF Build, Fails, ProducerStatus
<1>11. ASSUME NEW r \in Runs, Archive(r) PROVE Published'
  <2> SUFFICES ASSUME NEW q \in Runs
               PROVE  /\ step'[q] = "publish" => <<ArchiveName(q)', q>> \in archives'
                      /\ step'[q] = "finish" /\ status'[q] = "PASS" => q \in held'
                      /\ sentinel'[q] = "COMPLETE" =>
                           q \in held' /\ status'[q] = "PASS" /\ step'[q] = "exited"
    BY DEF Published, ArchiveName, CollectionKey
  <2>1. CASE q = r
    BY <1>11, <2>1 DEF Archive, NotPublished
  <2>2. CASE q # r
    <3>1. /\ step'[q] = step[q] /\ status'[q] = status[q] /\ ArchiveName(q)' = ArchiveName(q)
          /\ sentinel' = sentinel /\ held' = held
      BY <1>11, <2>2 DEF Archive, NotPublished
    <3>2. step[q] = "publish" => ArchiveName(q) # ArchiveName(r)
      BY <1>11, <2>2 DEF Archive, Kinds
    <3>3. archives' \in {archives, Archived(r)}
      BY <1>11 DEF Archive
    <3>4. step[q] = "publish" => <<ArchiveName(q), q>> \in archives'
      BY <3>2, <3>3 DEF Archived
    <3> QED
      BY <3>1, <3>4 DEF Published
  <2> QED
    BY <2>1, <2>2
<1>12. ASSUME NEW r \in Runs, Publish(r) PROVE Published'
  BY <1>12 DEF Publish, NotPublished
<1>13. ASSUME NEW r \in Runs, Finish(r) PROVE Published'
  BY <1>13 DEF Finish, TerminalStatus
<1>14. ASSUME NEW r \in Runs, Dies(r) PROVE Published'
  BY <1>14 DEF Dies
<1> QED
  BY <1>1, <1>2, <1>3, <1>4, <1>5, <1>6, <1>7, <1>8, <1>9, <1>10, <1>11, <1>12, <1>13, <1>14
  DEF Next

\* Every step keeps the invariant, and so every behaviour does.
LEMMA LineageInvariance == Spec => []LineageInv
<1>1. LineageInv /\ [Next]_lineageVars => LineageInv'
  BY LineageTypesStep, AloneStep, CountedStep, ClaimsStep, PublishedStep DEF LineageInv
<1> QED
  BY LineageInitially, <1>1, PTL DEF Spec

\* A behaviour of a job shows the producer behaving by its specification.
LEMMA ProducerPart == JobSpec => Spec
<1>1. JobInit => Init
  BY DEF JobInit
<1>2. [JobNext]_jobVars => [Next]_lineageVars
  BY DEF JobNext, jobVars, lineageVars
<1> QED
  BY <1>1, <1>2, PTL DEF JobSpec, Spec

(* However many runs of the three workflows there are and wherever they    *)
(* die, one reservation is spent on one run (main.yml:247, the bounded     *)
(* workflows, run_bounded_producer).                                       *)
THEOREM SpentOnce == JobSpec => []ReservationIsSpentOnce
<1>1. LineageInv => ReservationIsSpentOnce
  <2> SUFFICES ASSUME LineageInv PROVE ReservationIsSpentOnce
    OBVIOUS
  <2>1. ASSUME NEW q \in Runs, NEW r \in Runs, q # r, sent[q] > 0, sent[r] > 0,
               kind[q] = kind[r], CollectionKey(q) = CollectionKey(r)
        PROVE  \E k \in lost : k[1] = kind[r] /\ k[2] = CollectionKey(r)
    <3>1. ReservationKey(r) \in lost
      BY <2>1 DEF LineageInv, Claims, Claimed, ReservationKey
    <3> QED
      BY <3>1 DEF ReservationKey
  <2> QED
    BY <2>1 DEF ReservationIsSpentOnce
<1> QED
  BY LineageInvariance, ProducerPart, <1>1, PTL

(* A sentinel that says COMPLETE vouches for a published pass, and what is *)
(* current for three requests                                              *)
(* (finish_collection_sentinel after persist_shadow_artifact).             *)
THEOREM CompleteIsPublished == JobSpec => []CompleteMeansPublished
<1>1. LineageInv => CompleteMeansPublished
  BY DEF LineageInv, Published, Counted, CompleteMeansPublished
<1> QED
  BY LineageInvariance, ProducerPart, <1>1, PTL

-----------------------------------------------------------------------------
(* The promise of the reservation.  A run holds its reservation from the   *)
(* sentinel it writes to the one it closes; a second one of the same key,  *)
(* and a first request beside another run's, need a loss by Claims.        *)

Unopened == {"new", "lookup", "reserve"}
Holding  == {"save", "read", "request", "build", "archive", "publish", "finish"}

Opened ==
  \A r \in Runs : /\ step[r] \in Unopened => sentinel[r] = "none"
                  /\ step[r] \in Holding => sentinel[r] = "IN_PROGRESS"
                  /\ step[r] = "finish" /\ status[r] = "PASS" => sent[r] = 3

Dated == today \in 0..LastWindow /\ window \in [Runs -> 0..LastWindow]

LEMMA OpenedStep ==
  LineageTypes /\ Counted /\ Opened /\ [Next]_lineageVars => Opened'
<1> SUFFICES ASSUME LineageTypes, Counted, Opened, [Next]_lineageVars PROVE Opened'
  OBVIOUS
<1> USE DEF LineageTypes, Steps, Early, Sentinels, Verdicts, Over, Counted, Opened, Unopened,
            Holding, Goto, cache, drive
<1>1. CASE UNCHANGED lineageVars
  BY <1>1 DEF lineageVars
<1>2. CASE NextDate
  BY <1>2 DEF NextDate
<1>3. ASSUME NEW r \in Runs, Prepare(r) PROVE Opened'
  BY <1>3 DEF Prepare
<1>4. ASSUME NEW r \in Runs, Lookup(r) PROVE Opened'
  BY <1>4 DEF Lookup
<1>5. ASSUME NEW r \in Runs, Reserve(r) PROVE Opened'
  BY <1>5 DEF Reserve
<1>6. ASSUME NEW r \in Runs, Save(r) PROVE Opened'
  BY <1>6 DEF Save
<1>7. ASSUME NEW r \in Runs, Refuse(r) PROVE Opened'
  BY <1>7 DEF Refuse
<1>8. ASSUME NEW r \in Runs, ReadSources(r) PROVE Opened'
  BY <1>8 DEF ReadSources, Fails
<1>9. ASSUME NEW r \in Runs, Request(r) PROVE Opened'
  BY <1>9 DEF Request, Fails
<1>10. ASSUME NEW r \in Runs, Build(r) PROVE Opened'
  BY <1>10 DEF Build, Fails
<1>11. ASSUME NEW r \in Runs, Archive(r) PROVE Opened'
  BY <1>11 DEF Archive, NotPublished
<1>12. ASSUME NEW r \in Runs, Publish(r) PROVE Opened'
  BY <1>12 DEF Publish, NotPublished
<1>13. ASSUME NEW r \in Runs, Finish(r) PROVE Opened'
  BY <1>13 DEF Finish
<1>14. ASSUME NEW r \in Runs, Dies(r) PROVE Opened'
  BY <1>14 DEF Dies
<1> QED
  BY <1>1, <1>2, <1>3, <1>4, <1>5, <1>6, <1>7, <1>8, <1>9, <1>10, <1>11, <1>12, <1>13, <1>14
  DEF Next

LEMMA DatedStep == Dated /\ [Next]_lineageVars => Dated'
<1> SUFFICES ASSUME Dated, [Next]_lineageVars PROVE Dated'
  OBVIOUS
<1>1. CASE UNCHANGED <<today, window>>
  BY <1>1 DEF Dated
<1>2. CASE NextDate
  BY <1>2, WindowsAssumption DEF NextDate, Dated
<1>3. ASSUME NEW r \in Runs, Prepare(r) PROVE Dated'
  BY <1>3 DEF Prepare, Dated
<1>4. UNCHANGED lineageVars => UNCHANGED <<today, window>>
  BY DEF lineageVars
<1>5. ASSUME NEW r \in Runs,
             \/ Lookup(r) \/ Reserve(r) \/ Save(r) \/ Refuse(r) \/ ReadSources(r) \/ Request(r)
             \/ Build(r) \/ Archive(r) \/ Publish(r) \/ Finish(r) \/ Dies(r)
      PROVE  UNCHANGED <<today, window>>
  BY <1>5 DEF Lookup, Reserve, Save, Refuse, ReadSources, Request, Build, Archive, Publish,
     Finish, Dies
<1> QED
  BY <1>1, <1>2, <1>3, <1>4, <1>5 DEF Next

LEMMA OpenedInvariance == Spec => [](Opened /\ Dated)
<1>1. Init => Opened /\ Dated
  BY WindowsAssumption DEF Init, Opened, Unopened, Holding, Dated
<1>2. LineageInv /\ Opened /\ Dated /\ [Next]_lineageVars => (Opened /\ Dated)'
  BY OpenedStep, DatedStep DEF LineageInv
<1> QED
  BY <1>1, <1>2, LineageInvariance, PTL DEF Spec

-----------------------------------------------------------------------------
\* A run's step changes nobody else's hold on a reservation
LEMMA EnteredStep ==
  ASSUME NEW r \in Runs, UNCHANGED <<kind, window>>,
         \A q \in Runs \ {r} : step'[q] = step[q] /\ sentinel'[q] = sentinel[q]
  PROVE  /\ HoldsKey(r) /\ HoldsKey(r)' => Entered' = Entered
         /\ HoldsKey(r)' => Entered' = Entered \cup {<<r, Spent(r)>>}
         /\ ~HoldsKey(r)' => Entered' = Entered \ {<<r, Spent(r)>>}
         /\ ~HoldsKey(r) /\ ~HoldsKey(r)' => Entered' = Entered
<1>1. \A q \in Runs : Spent(q)' = Spent(q)
  BY DEF Spent, CollectionKey
<1>2. \A q \in Runs \ {r} : HoldsKey(q)' <=> HoldsKey(q)
  BY DEF HoldsKey, Live
<1>3. \A e : e \in Entered <=> \/ HoldsKey(r) /\ e = <<r, Spent(r)>>
                               \/ \E q \in Runs \ {r} : HoldsKey(q) /\ e = <<q, Spent(q)>>
  BY DEF Entered
<1>4. \A e : e \in Entered' <=> \/ HoldsKey(r)' /\ e = <<r, Spent(r)>>
                                \/ \E q \in Runs \ {r} : HoldsKey(q) /\ e = <<q, Spent(q)>>
  <2>1. \A e : e \in Entered' <=> \E q \in Runs : HoldsKey(q)' /\ e = <<q, Spent(q)'>>
    BY DEF Entered
  <2> QED
    BY <1>1, <1>2, <2>1
<1>5. ASSUME NEW q \in Runs \ {r} PROVE <<q, Spent(q)>> # <<r, Spent(r)>>
  BY Zenon
<1> HIDE DEF Entered, HoldsKey, Spent
<1>6. ASSUME HoldsKey(r), HoldsKey(r)' PROVE Entered' = Entered
  BY <1>3, <1>4, <1>6
<1>7. ASSUME HoldsKey(r)' PROVE Entered' = Entered \cup {<<r, Spent(r)>>}
  BY <1>3, <1>4, <1>7
<1>8. ASSUME ~HoldsKey(r)' PROVE Entered' = Entered \ {<<r, Spent(r)>>}
  BY <1>3, <1>4, <1>8
<1>9. ASSUME ~HoldsKey(r), ~HoldsKey(r)' PROVE Entered' = Entered
  BY <1>3, <1>4, <1>9
<1> QED
  BY <1>6, <1>7, <1>8, <1>9

LEMMA SpentTyped == ASSUME LineageTypes, Dated, NEW r \in Runs
                    PROVE  Spent(r) \in Kinds \X (0..LastWindow)
BY WindowsAssumption DEF LineageTypes, Dated, Spent, CollectionKey

\* A run that keeps what it holds, or ends
LEMMA QuietRun ==
  ASSUME LineageTypes, Dated, NEW r \in Runs, NEW to, Goto(r, to), HoldsKey(r)' => HoldsKey(r),
         UNCHANGED <<kind, window, sentinel, sent, lost>>
  PROVE  [Promise!Next]_Promise!vars
<1>1. Asked' = Asked /\ Succeeded' = Succeeded /\ Forgotten' = Forgotten
  BY DEF Asked, Succeeded, Forgotten, Spent, CollectionKey
<1>2. \A q \in Runs \ {r} : step'[q] = step[q] /\ sentinel'[q] = sentinel[q]
  BY DEF LineageTypes, Goto
<1>3. CASE HoldsKey(r)' \/ ~HoldsKey(r)
  <2>1. Entered' = Entered
    BY <1>2, <1>3, EnteredStep
  <2> QED
    BY <1>1, <2>1 DEF Promise!vars
<1>4. CASE ~HoldsKey(r)'
  <2>1. Entered' = Entered \ {<<r, Spent(r)>>}
    BY <1>2, <1>4, EnteredStep
  <2>2. Promise!Leave(r, Spent(r))
    BY <1>1, <2>1 DEF Promise!Leave
  <2> QED
    BY <2>2, SpentTyped DEF Promise!Next
<1> QED
  BY <1>3, <1>4

\* A cache call that is lost
LEMMA LostCall ==
  ASSUME LineageTypes, Dated, NEW r \in Runs, NEW to, Goto(r, to), HoldsKey(r)' <=> HoldsKey(r),
         UNCHANGED <<kind, window, sentinel, sent>>, lost' = lost \cup {ReservationKey(r)}
  PROVE  [Promise!Next]_Promise!vars
<1>1. Asked' = Asked /\ Succeeded' = Succeeded
  BY DEF Asked, Succeeded, Spent, CollectionKey
<1>2. \A q \in Runs \ {r} : step'[q] = step[q] /\ sentinel'[q] = sentinel[q]
  BY DEF LineageTypes, Goto
<1>3. Entered' = Entered
  BY <1>2, EnteredStep
<1>4. Forgotten' = Forgotten \cup {Spent(r)}
  BY DEF Forgotten, Spent, ReservationKey
<1>5. Promise!Lose(Spent(r))
  BY <1>1, <1>3, <1>4 DEF Promise!Lose
<1> QED
  BY <1>5, SpentTyped DEF Promise!Next

\* Who looked a key up, or may ask for it, finds it unasked by others unless it was lost
LEMMA UnaskedByOthers ==
  ASSUME Claims, NEW r \in Runs, Claimed(r) \/ Bound(r), sent[r] = 0, LineageTypes
  PROVE  Promise!Unasked(Spent(r))
<1>1. CASE \E q \in Runs : sent[q] > 0 /\ Spent(q) = Spent(r)
  <2>1. PICK q \in Runs : sent[q] > 0 /\ Spent(q) = Spent(r)
    BY <1>1
  <2>2. q # r
    BY <2>1
  <2>3. ReservationKey(r) \in lost
    BY <2>1, <2>2 DEF Claims, Claimed, Spent, ReservationKey
  <2>4. Spent(r) \in Forgotten
    BY <2>3 DEF Forgotten, Spent, ReservationKey
  <2> QED
    BY <2>4 DEF Promise!Unasked
<1>2. CASE ~\E q \in Runs : sent[q] > 0 /\ Spent(q) = Spent(r)
  <2>1. ASSUME NEW e \in Asked PROVE e[2] # Spent(r)
    BY <1>2, <2>1 DEF Asked
  <2> QED
    BY <2>1 DEF Promise!Unasked
<1> QED
  BY <1>1, <1>2

LEMMA AdmitRun ==
  ASSUME LineageInv, Opened, Dated, NEW r \in Runs, Reserve(r)
  PROVE  [Promise!Next]_Promise!vars
<1>1. /\ step[r] = "reserve" /\ UNCHANGED <<kind, window, sent, lost>>
      /\ sentinel' = [sentinel EXCEPT ![r] = "IN_PROGRESS"] /\ step' = [step EXCEPT ![r] = "save"]
  BY DEF Reserve, Goto, cache
<1>2. /\ \A q \in Runs \ {r} : step'[q] = step[q] /\ sentinel'[q] = sentinel[q]
      /\ step'[r] = "save" /\ sentinel'[r] = "IN_PROGRESS" /\ sentinel[r] = "none"
  BY <1>1 DEF LineageInv, LineageTypes, Opened, Unopened
<1>3. Entered' = Entered \cup {<<r, Spent(r)>>}
  <2>1. HoldsKey(r)'
    BY <1>2 DEF HoldsKey, Live, Over
  <2> QED
    BY <1>1, <1>2, <2>1, EnteredStep
<1>4. Asked' = Asked /\ Forgotten' = Forgotten
  BY <1>1 DEF Asked, Forgotten, Spent, CollectionKey
<1>5. Succeeded' = Succeeded
  <2>1. \A q \in Runs : /\ Spent(q)' = Spent(q)
                        /\ sentinel'[q] = "COMPLETE" <=> sentinel[q] = "COMPLETE"
    BY <1>1, <1>2 DEF Spent, CollectionKey
  <2> QED
    BY <2>1 DEF Succeeded
<1>6. Promise!Unasked(Spent(r))
  BY <1>1, UnaskedByOthers DEF LineageInv, Counted, Early, Bound
<1>7. Promise!Admit(r, Spent(r))
  BY <1>3, <1>4, <1>5, <1>6 DEF Promise!Admit
<1> QED
  BY <1>7, SpentTyped DEF LineageInv, Promise!Next

LEMMA AskRun ==
  ASSUME LineageInv, Opened, Dated, NEW r \in Runs, Request(r)
  PROVE  [Promise!Next]_Promise!vars
<1>1. /\ step[r] = "request" /\ UNCHANGED <<kind, window, sentinel, lost>>
      /\ sent' = [sent EXCEPT ![r] = @ + 1]
      /\ \E to \in {"request", "build", "finish"} : step' = [step EXCEPT ![r] = to]
  BY DEF Request, Fails, Goto, cache
<1>2. /\ step'[r] \in {"request", "build", "finish"} /\ sentinel[r] = "IN_PROGRESS"
      /\ sent[r] \in Nat /\ sent'[r] = sent[r] + 1
      /\ \A q \in Runs \ {r} : step'[q] = step[q] /\ sentinel'[q] = sentinel[q] /\ sent'[q] = sent[q]
  BY <1>1 DEF LineageInv, LineageTypes, Opened, Holding
<1>3. HoldsKey(r) /\ HoldsKey(r)'
  BY <1>1, <1>2 DEF HoldsKey, Live, Over
<1>4. Entered' = Entered
  BY <1>1, <1>2, <1>3, EnteredStep
<1>5. Succeeded' = Succeeded /\ Forgotten' = Forgotten
  BY <1>1 DEF Succeeded, Forgotten, Spent, CollectionKey
<1>6. Asked' = Asked \cup {<<r, Spent(r)>>}
  <2>1. \A q \in Runs : Spent(q)' = Spent(q)
    BY <1>1 DEF Spent, CollectionKey
  <2>2. \A q \in Runs : sent'[q] > 0 <=> sent[q] > 0 \/ q = r
    BY <1>2
  <2>3. \A e : e \in Asked <=> \E q \in Runs : sent[q] > 0 /\ e = <<q, Spent(q)>>
    BY DEF Asked
  <2>4. \A e : e \in Asked' <=> \E q \in Runs : sent'[q] > 0 /\ e = <<q, Spent(q)'>>
    BY DEF Asked
  <2> QED
    BY <2>1, <2>2, <2>3, <2>4
<1>7. CASE sent[r] > 0
  <2>1. Asked' = Asked
    BY <1>6, <1>7 DEF Asked
  <2> QED
    BY <1>4, <1>5, <2>1 DEF Promise!vars
<1>8. CASE sent[r] = 0
  <2>1. Promise!Unasked(Spent(r))
    BY <1>1, <1>8, UnaskedByOthers DEF LineageInv, Claimed
  <2>2. <<r, Spent(r)>> \in Entered
    BY <1>3 DEF Entered
  <2>3. Promise!Ask(r, Spent(r), r)
    BY <1>4, <1>5, <1>6, <2>1, <2>2 DEF Promise!Ask
  <2> QED
    BY <2>3, SpentTyped DEF LineageInv, Promise!Next
<1> QED
  BY <1>2, <1>7, <1>8

LEMMA ConfirmRun ==
  ASSUME LineageInv, Opened, Dated, NEW r \in Runs, Finish(r)
  PROVE  [Promise!Next]_Promise!vars
<1>1. /\ step[r] = "finish" /\ UNCHANGED <<kind, window, sent, lost>>
      /\ sentinel' = [sentinel EXCEPT ![r] = TerminalStatus(r)]
      /\ step' = [step EXCEPT ![r] = "exited"]
  BY DEF Finish, Goto, cache
<1>2. /\ step'[r] = "exited" /\ sentinel[r] = "IN_PROGRESS" /\ sentinel'[r] = TerminalStatus(r)
      /\ \A q \in Runs \ {r} : step'[q] = step[q] /\ sentinel'[q] = sentinel[q]
  BY <1>1 DEF LineageInv, LineageTypes, Opened, Holding
<1>3. HoldsKey(r) /\ ~HoldsKey(r)'
  BY <1>1, <1>2 DEF HoldsKey, Live, Over
<1>4. Entered' = Entered \ {<<r, Spent(r)>>} /\ <<r, Spent(r)>> \in Entered
  BY <1>1, <1>2, <1>3, EnteredStep DEF Entered
<1>5. Asked' = Asked /\ Forgotten' = Forgotten
  BY <1>1 DEF Asked, Forgotten, Spent, CollectionKey
<1>6. /\ \A s : s \in Succeeded <=> \E q \in Runs : sentinel[q] = "COMPLETE" /\ s = Spent(q)
      /\ \A s : s \in Succeeded' <=> \E q \in Runs : sentinel'[q] = "COMPLETE" /\ s = Spent(q)
  <2>1. \A q \in Runs : Spent(q)' = Spent(q)
    BY <1>1 DEF Spent, CollectionKey
  <2> QED
    BY <2>1 DEF Succeeded
<1>7. CASE status[r] = "PASS"
  <2>1. sentinel'[r] = "COMPLETE"
    BY <1>2, <1>7 DEF TerminalStatus
  <2>2. Succeeded' = Succeeded \cup {Spent(r)}
    BY <1>2, <1>6, <2>1
  <2>3. <<r, Spent(r)>> \in Asked
    BY <1>1, <1>7 DEF Asked, Opened
  <2>4. Promise!Confirm(r, Spent(r))
    BY <1>4, <1>5, <2>2, <2>3 DEF Promise!Confirm
  <2> QED
    BY <2>4, SpentTyped DEF LineageInv, Promise!Next
<1>8. CASE status[r] # "PASS"
  <2>1. sentinel'[r] = "FAILED"
    BY <1>2, <1>8 DEF TerminalStatus
  <2>2. Succeeded' = Succeeded
    BY <1>2, <1>6, <2>1
  <2>3. Promise!Leave(r, Spent(r))
    BY <1>4, <1>5, <2>2 DEF Promise!Leave
  <2> QED
    BY <2>3, SpentTyped DEF LineageInv, Promise!Next
<1> QED
  BY <1>7, <1>8

LEMMA LineagePromiseStep ==
  ASSUME LineageInv, Opened, Dated, [Next]_lineageVars
  PROVE  [Promise!Next]_Promise!vars
<1> USE DEF LineageInv
<1>1. CASE UNCHANGED <<kind, step, window, sentinel, sent, lost>>
  BY <1>1 DEF Promise!vars, Entered, Asked, Succeeded, Forgotten, Spent, CollectionKey, HoldsKey, Live
<1>2. UNCHANGED lineageVars \/ NextDate => UNCHANGED <<kind, step, window, sentinel, sent, lost>>
  BY DEF lineageVars, NextDate, cache
<1>3. ASSUME NEW r \in Runs, Prepare(r) PROVE [Promise!Next]_Promise!vars
  <2>1. /\ step[r] = "new" /\ UNCHANGED <<kind, sentinel, sent, lost>>
        /\ \A q \in Runs \ {r} : window'[q] = window[q] /\ step'[q] = step[q]
    BY <1>3 DEF Prepare, Goto, cache, LineageTypes
  <2>2. sentinel[r] = "none" /\ sent[r] = 0
    BY <2>1 DEF Opened, Unopened, Counted, Early
  <2>3. \A q \in Runs \ {r} : Spent(q)' = Spent(q) /\ (HoldsKey(q)' <=> HoldsKey(q))
    BY <2>1 DEF Spent, CollectionKey, HoldsKey, Live
  <2>4. ~HoldsKey(r) /\ ~HoldsKey(r)'
    BY <2>1, <2>2 DEF HoldsKey
  <2>5. Entered' = Entered
    BY <2>3, <2>4 DEF Entered
  <2>6. Asked' = Asked
    BY <2>1, <2>2, <2>3 DEF Asked
  <2>7. Succeeded' = Succeeded
    BY <2>1, <2>2, <2>3 DEF Succeeded
  <2>8. Forgotten' = Forgotten
    BY <2>1 DEF Forgotten
  <2> QED
    BY <2>5, <2>6, <2>7, <2>8 DEF Promise!vars
<1>4. ASSUME NEW r \in Runs, Lookup(r) PROVE [Promise!Next]_Promise!vars
  <2>1. /\ UNCHANGED <<kind, window, sentinel, sent>> /\ sentinel[r] = "none"
        /\ lost' = lost \/ lost' = lost \cup {ReservationKey(r)}
        /\ \E to : Goto(r, to)
    BY <1>4 DEF Lookup, Opened, Unopened
  <2>2. ~HoldsKey(r) /\ ~HoldsKey(r)'
    BY <2>1 DEF HoldsKey
  <2> QED
    BY <2>1, <2>2, QuietRun, LostCall
<1>5. ASSUME NEW r \in Runs, Save(r) PROVE [Promise!Next]_Promise!vars
  <2>1. /\ UNCHANGED <<kind, window, sentinel, sent>> /\ sentinel[r] = "IN_PROGRESS"
        /\ lost' = lost \/ lost' = lost \cup {ReservationKey(r)}
        /\ step[r] = "save" /\ Goto(r, "read")
    BY <1>5 DEF Save, Opened, Holding
  <2>2. HoldsKey(r) /\ HoldsKey(r)'
    BY <2>1 DEF HoldsKey, Live, Over, Goto, LineageTypes
  <2> QED
    BY <2>1, <2>2, QuietRun, LostCall
<1>6. ASSUME NEW r \in Runs,
             \/ Refuse(r) \/ ReadSources(r) \/ Build(r) \/ Archive(r) \/ Publish(r)
      PROVE  [Promise!Next]_Promise!vars
  <2>1. UNCHANGED <<kind, window, sentinel, sent, lost>> /\ \E to : Goto(r, to)
    BY <1>6 DEF Refuse, ReadSources, Build, Archive, Publish, Fails, NotPublished, cache
  <2>2. step[r] \in Holding
    BY <1>6 DEF Refuse, ReadSources, Build, Archive, Publish, Holding
  <2>3. HoldsKey(r)
    BY <2>2 DEF HoldsKey, Live, Over, Opened, Holding
  <2> QED
    BY <2>1, <2>3, QuietRun
<1>7. ASSUME NEW r \in Runs, Dies(r) PROVE [Promise!Next]_Promise!vars
  <2>1. UNCHANGED <<kind, window, sentinel, sent, lost>> /\ Goto(r, "dead")
    BY <1>7 DEF Dies, cache
  <2>2. ~HoldsKey(r)'
    BY <2>1 DEF HoldsKey, Live, Over, Goto, LineageTypes
  <2> QED
    BY <2>1, <2>2, QuietRun
<1> QED
  BY <1>1, <1>2, <1>3, <1>4, <1>5, <1>6, <1>7, AdmitRun, AskRun, ConfirmRun DEF Next

(* Whatever becomes of the runs of the three workflows, the cache keeps    *)
(* the promise of an exclusive reservation but for keys it lost a call on  *)
(* (the lookups and saves of main.yml and of the bounded workflows).       *)
THEOREM CacheKeepsItsPromise == JobSpec => CacheKeepsPromise
<1>1. Init => Promise!Init
  BY DEF Init, Promise!Init, Entered, Asked, Succeeded, Forgotten, HoldsKey
<1>2. LineageInv /\ Opened /\ Dated /\ [Next]_lineageVars => [Promise!Next]_Promise!vars
  BY LineagePromiseStep
<1> QED
  BY <1>1, <1>2, LineageInvariance, OpenedInvariance, ProducerPart, PTL
  DEF Spec, CacheKeepsPromise, Promise!Spec

-----------------------------------------------------------------------------
(* A lower last close.                                                     *)

Lower(worse, closes) ==
  /\ closes \in Seq(Nat) /\ worse \in Seq(Nat) /\ Len(worse) = Len(closes)
  /\ \A i \in 1..(Len(closes) - 1) : worse[i] = closes[i]
  /\ closes # <<>> => worse[Len(closes)] <= closes[Len(closes)]

\* The bars of a window are lowered like those of the whole
LEMMA WindowLowered ==
  ASSUME NEW worse, NEW closes, Lower(worse, closes), NEW span \in Nat \ {0}, span <= Len(closes)
  PROVE  /\ Bundle!Newest(closes, span) \in [1..span -> Nat]
         /\ Bundle!Newest(worse, span) \in [1..span -> Nat]
         /\ \A i \in (1..span) \ {span} :
              Bundle!Newest(worse, span)[i] = Bundle!Newest(closes, span)[i]
         /\ Bundle!Newest(closes, span)[span] = Bundle!Last(closes)
         /\ Bundle!Newest(worse, span)[span] = Bundle!Last(worse)
         /\ Bundle!Last(closes) \in Nat /\ Bundle!Last(worse) \in Nat
         /\ Bundle!Last(worse) <= Bundle!Last(closes)
<1>1. /\ closes \in Seq(Nat) /\ worse \in Seq(Nat) /\ Len(worse) = Len(closes)
      /\ Len(closes) \in Nat /\ Len(closes) >= 1
  BY DEF Lower
<1>2. ASSUME NEW seq \in Seq(Nat), Len(seq) = Len(closes)
      PROVE  /\ Bundle!Newest(seq, span) = [i \in 1..span |-> seq[Len(closes) - span + i]]
             /\ Bundle!Last(seq) = seq[Len(closes)]
  <2>1. SubSeq(seq, Len(seq) - span + 1, Len(seq)) = [i \in 1..span |-> seq[Len(closes) - span + i]]
    <3>1. /\ Len(seq) - (Len(seq) - span + 1) + 1 = span
          /\ \A i \in 1..span : i + (Len(seq) - span + 1) - 1 = Len(closes) - span + i
      BY <1>1, <1>2
    <3> QED
      BY <1>1, <1>2, <3>1, SMTT(30)
  <2> QED
    BY <1>2, <2>1 DEF Bundle!Newest, Bundle!Last
<1>3. \A i \in 1..span : Len(closes) - span + i \in 1..Len(closes)
  BY <1>1
<1>4. ASSUME NEW seq \in Seq(Nat), Len(seq) = Len(closes)
      PROVE  \A i \in 1..Len(closes) : seq[i] \in Nat
  BY <1>4
<1>5. closes # <<>>
  BY <1>1
<1>6. \A i \in (1..span) \ {span} : Len(closes) - span + i \in 1..(Len(closes) - 1)
  BY <1>1
<1>7. Len(closes) \in 1..Len(closes) /\ Len(closes) - span + span = Len(closes)
  BY <1>1
<1>8. \A seq \in {closes, worse} :
        /\ Bundle!Newest(seq, span) = [i \in 1..span |-> seq[Len(closes) - span + i]]
        /\ Bundle!Last(seq) = seq[Len(closes)]
        /\ \A i \in 1..Len(closes) : seq[i] \in Nat
  BY <1>1, <1>2, <1>4
<1>9. /\ Bundle!Newest(closes, span) \in [1..span -> Nat]
      /\ Bundle!Newest(worse, span) \in [1..span -> Nat]
  BY <1>3, <1>8
<1>10. \A i \in (1..span) \ {span} :
         Bundle!Newest(worse, span)[i] = Bundle!Newest(closes, span)[i]
  BY <1>6, <1>8 DEF Lower
<1>11. /\ Bundle!Newest(closes, span)[span] = Bundle!Last(closes)
       /\ Bundle!Newest(worse, span)[span] = Bundle!Last(worse)
  BY <1>7, <1>8
<1>12. /\ Bundle!Last(closes) \in Nat /\ Bundle!Last(worse) \in Nat
       /\ Bundle!Last(worse) <= Bundle!Last(closes)
  BY <1>5, <1>7, <1>8 DEF Lower
<1> QED
  BY <1>9, <1>10, <1>11, <1>12

LEMMA RoundedShift ==
  ASSUME NEW a \in Int, NEW d \in Nat, NEW b \in Nat \ {0}
  PROVE  /\ Bundle!Rounded(a, b) \in Int /\ Bundle!Rounded(a - d, b) \in Int
         /\ Bundle!Rounded(a, b) <= Bundle!Rounded(a - d, b) + d
<1> DEFINE q == (2 * (a - d) + b) \div (2 * b)
           p == (2 * a + b) \div (2 * b)
<1>1. /\ q \in Int /\ p \in Int
      /\ 2 * (a - d) + b < 2 * b * q + 2 * b
      /\ 2 * b * p <= 2 * a + b
  OBVIOUS
<1> HIDE DEF p, q
<1>2. 2 * d <= 2 * b * d
  OBVIOUS
<1>3. 2 * b * p < 2 * b * q + 2 * b + 2 * b * d
  BY <1>1, <1>2
<1>4. 2 * b * q + 2 * b + 2 * b * d = 2 * b * (q + 1 + d)
  BY <1>1
<1>5. p < q + 1 + d
  <2>1. SUFFICES ASSUME p >= q + 1 + d PROVE FALSE
    BY <1>1
  <2>2. 2 * b * p >= 2 * b * (q + 1 + d)
    BY <1>1, <2>1
  <2> QED
    BY <1>1, <1>3, <1>4, <2>2
<1> QED
  BY <1>1, <1>5 DEF p, q, Bundle!Rounded

\* What is above its average is so with a higher last close, because the
\* average moves less than the close
LEMMA AboveLower ==
  ASSUME NEW worse, NEW closes, Lower(worse, closes), NEW span \in Nat \ {0},
         Bundle!Above(worse, span)
  PROVE  Bundle!Above(closes, span)
<1> DEFINE f == Bundle!Newest(closes, span)
           g == Bundle!Newest(worse, span)
<1>1. Len(worse) >= span /\ Bundle!Last(worse) > Bundle!Rounded(SumOver(g, DOMAIN g), span)
  BY Zenon DEF Bundle!Above, Bundle!FoldSeq, Bundle!FoldFunction, SumOver
<1>2. span <= Len(closes)
  BY <1>1 DEF Lower
<1>3. /\ f \in [1..span -> Nat] /\ g \in [1..span -> Nat]
      /\ \A i \in (1..span) \ {span} : g[i] = f[i]
      /\ f[span] = Bundle!Last(closes) /\ g[span] = Bundle!Last(worse)
      /\ Bundle!Last(closes) \in Nat /\ Bundle!Last(worse) \in Nat
      /\ Bundle!Last(worse) <= Bundle!Last(closes)
  BY <1>2, WindowLowered
<1> HIDE DEF f, g
<1>4. f \in [1..span -> Int] /\ g \in [1..span -> Int] /\ DOMAIN f = 1..span /\ DOMAIN g = 1..span
  BY <1>3
<1>5. IsFiniteSet(1..span) /\ span \in 1..span
  BY FS_Interval
<1>6. /\ SumOver(f, 1..span) \in Int /\ SumOver(g, 1..span) \in Int
      /\ SumOver(f, 1..span) - SumOver(g, 1..span) = f[span] - g[span]
  BY <1>3, <1>4, <1>5, SumLowered
<1>7. Bundle!Last(closes) > Bundle!Rounded(SumOver(f, 1..span), span)
  <2> DEFINE a == SumOver(f, 1..span)
             b == SumOver(g, 1..span)
             d == f[span] - g[span]
  <2> HIDE DEF a, b
  <2>1. a \in Int /\ d \in Nat /\ b = a - d
    BY <1>3, <1>6 DEF a, b
  <2> HIDE DEF d
  <2>2. /\ Bundle!Rounded(a, span) \in Int /\ Bundle!Rounded(b, span) \in Int
        /\ Bundle!Rounded(a, span) <= Bundle!Rounded(b, span) + d
    BY <2>1, RoundedShift
  <2>3. Bundle!Last(worse) > Bundle!Rounded(b, span)
    BY <1>1, <1>4 DEF b
  <2>4. Bundle!Last(closes) = Bundle!Last(worse) + d
    BY <1>3 DEF d
  <2> QED
    BY <1>3, <2>1, <2>2, <2>3, <2>4 DEF a
<1>8. Len(closes) >= span
  BY <1>2 DEF Lower
<1> QED
  BY <1>4, <1>7, <1>8, Zenon DEF Bundle!Above, Bundle!FoldSeq, Bundle!FoldFunction, SumOver, f

\* ... and what is near its high stays so
LEMMA NearHighLower ==
  ASSUME NEW worse, NEW closes, Lower(worse, closes), closes # <<>>,
         Bundle!NearHigh(worse)
  PROVE  Bundle!NearHigh(closes)
<1> DEFINE span == Bundle!Min({HighWindow, Len(closes)})
           f == Bundle!Newest(closes, span)
           g == Bundle!Newest(worse, span)
<1>1. HighWindow \in Nat \ {0} /\ Len(closes) \in Nat \ {0} /\ Len(worse) = Len(closes)
  BY JobAssumption DEF Bundle!WindowAssumption, Lower
<1>2. span \in Nat \ {0} /\ span <= Len(closes)
  BY <1>1 DEF Bundle!Min
<1> HIDE DEF span
<1>3. /\ f \in [1..span -> Nat] /\ g \in [1..span -> Nat]
      /\ \A i \in (1..span) \ {span} : g[i] = f[i]
      /\ f[span] = Bundle!Last(closes) /\ g[span] = Bundle!Last(worse)
      /\ Bundle!Last(closes) \in Nat /\ Bundle!Last(worse) \in Nat
      /\ Bundle!Last(worse) <= Bundle!Last(closes)
  BY <1>2, WindowLowered
<1> DEFINE high == Bundle!Max(Bundle!ToSet(f))
           low  == Bundle!Max(Bundle!ToSet(g))
<1>4. low # 0 /\ 10 * Bundle!Last(worse) >= 9 * low
  BY <1>1 DEF Bundle!NearHigh, span
<1> HIDE DEF f, g
<1>5. /\ Bundle!ToSet(f) = {f[i] : i \in 1..span}
      /\ Bundle!ToSet(g) = {g[i] : i \in 1..span}
  BY <1>3 DEF Bundle!ToSet
<1>6. ASSUME NEW h \in [1..span -> Nat]
      PROVE  /\ {h[i] : i \in 1..span} \in SUBSET Int
             /\ IsFiniteSet({h[i] : i \in 1..span})
             /\ {h[i] : i \in 1..span} # {}
  <2>1. IsFiniteSet(1..span) /\ span \in 1..span
    BY <1>2, FS_Interval
  <2>2. h \in Surjection(1..span, {h[i] : i \in 1..span})
    BY DEF Surjection
  <2> QED
    BY <2>1, <2>2, FS_Surjection
<1>7. /\ high \in {f[i] : i \in 1..span} /\ \A i \in 1..span : f[i] <= high
  BY <1>3, <1>5, <1>6, Greatest
<1>8. /\ low \in {g[i] : i \in 1..span} /\ \A i \in 1..span : g[i] <= low
  BY <1>3, <1>5, <1>6, Greatest
<1> HIDE DEF high, low
<1>9. high \in Nat /\ low \in Nat
  BY <1>3, <1>7, <1>8
<1>10. span \in 1..span
  BY <1>2
<1>11. \A i \in 1..span : g[i] <= f[i] /\ g[i] \in Nat /\ f[i] \in Nat
  BY <1>3
<1>12. low <= high
  BY <1>7, <1>8, <1>9, <1>11
<1>13. 10 * Bundle!Last(closes) >= 9 * high
  <2>1. PICK i \in 1..span : high = f[i]
    BY <1>7
  <2>2. CASE i = span
    BY <1>3, <2>1, <2>2
  <2>3. CASE i # span
    <3>1. high <= low
      BY <1>3, <1>8, <2>1, <2>3
    <3> QED
      BY <1>3, <1>4, <1>9, <3>1
  <2> QED
    BY <2>2, <2>3
<1> QED
  BY <1>4, <1>9, <1>12, <1>13 DEF Bundle!NearHigh, high, f, span

-----------------------------------------------------------------------------
(* A market with lower last closes.                                        *)

\* Closes are prices in cents; a target is whatever the trigger names.
Priced(targets) ==
  [sp500 : Seq(Nat), nasdaq : Seq(Nat), vix : Seq(Int), symbols : [targets -> Seq(Nat)]]

LowerMarket(worse, m, targets) ==
  /\ Lower(worse.sp500, m.sp500) /\ Lower(worse.nasdaq, m.nasdaq)
  /\ worse.vix = m.vix
  /\ \A s \in targets : Lower(worse.symbols[s], m.symbols[s])

\* The bundle's module counts like this one.
LEMMA BundleCounts == \A S : Bundle!Cardinality(S) = Cardinality(S)
BY DEF Bundle!Cardinality, Cardinality

LEMMA ShareLower ==
  ASSUME NEW valid, IsFiniteSet(valid), NEW part1 \in SUBSET valid, NEW part2 \in SUBSET valid,
         part1 \subseteq part2
  PROVE  /\ Bundle!Share(part1, valid) \in Int /\ Bundle!Share(part2, valid) \in Int
         /\ Bundle!Share(part1, valid) <= Bundle!Share(part2, valid)
<1>1. CASE valid = {}
  BY <1>1 DEF Bundle!Share
<1>2. CASE valid # {}
  <2> DEFINE a == Cardinality(part1)
             b == Cardinality(part2)
             n == Cardinality(valid)
  <2>1. a \in Nat /\ b \in Nat /\ n \in Nat \ {0} /\ a <= b
    BY <1>2, FS_Subset, FS_CardinalityType, FS_EmptySet
  <2>2. /\ Bundle!Share(part1, valid) = Bundle!Rounded(1000 * a, n)
        /\ Bundle!Share(part2, valid) = Bundle!Rounded(1000 * b, n)
    BY <1>2, BundleCounts DEF Bundle!Share
  <2> HIDE DEF a, b, n
  <2> DEFINE p == (2 * (1000 * a) + n) \div (2 * n)
             q == (2 * (1000 * b) + n) \div (2 * n)
  <2>3. /\ p \in Int /\ q \in Int
        /\ (2 * n) * p <= 2 * (1000 * a) + n
        /\ 2 * (1000 * b) + n < (2 * n) * q + 2 * n
    <3> DEFINE c == 2 * (1000 * a) + n
               d == 2 * (1000 * b) + n
               k == 2 * n
    <3>1. c \in Int /\ d \in Int /\ k \in Nat \ {0}
      BY <2>1
    <3> HIDE DEF c, d, k
    <3>2. /\ c \div k \in Int /\ k * (c \div k) <= c
          /\ d \div k \in Int /\ d < k * (d \div k) + k
      BY <3>1
    <3> QED
      BY <3>2 DEF c, d, k
  <2>4. (2 * n) * p < (2 * n) * (q + 1)
    <3>1. (2 * n) * (q + 1) = (2 * n) * q + 2 * n /\ (2 * n) * q \in Int /\ (2 * n) * p \in Int
      BY <2>1, <2>3
    <3> HIDE DEF p, q
    <3> QED
      BY <2>1, <2>3, <3>1
  <2> HIDE DEF p, q
  <2>5. p <= q
    <3>1. SUFFICES ASSUME p >= q + 1 PROVE FALSE
      BY <2>3
    <3>2. (2 * n) * p >= (2 * n) * (q + 1)
      BY <2>1, <2>3, <3>1
    <3>3. (2 * n) * p \in Int /\ (2 * n) * (q + 1) \in Int
      BY <2>1, <2>3
    <3> QED
      BY <2>4, <3>2, <3>3
  <2> QED
    BY <2>2, <2>3, <2>5 DEF p, q, Bundle!Rounded
<1> QED
  BY <1>1, <1>2

\* The targets that count are the same, and none of them has risen above an
\* average or near its high
LEMMA BreadthLower ==
  ASSUME NEW targets, IsFiniteSet(targets),
         NEW symbols \in [targets -> Seq(Nat)], NEW lower \in [targets -> Seq(Nat)],
         \A s \in targets : Lower(lower[s], symbols[s])
  PROVE  /\ Bundle!Breadth(lower).short \in Int /\ Bundle!Breadth(symbols).short \in Int
         /\ Bundle!Breadth(lower).short <= Bundle!Breadth(symbols).short
         /\ Bundle!Breadth(lower).long \in Int /\ Bundle!Breadth(symbols).long \in Int
         /\ Bundle!Breadth(lower).long <= Bundle!Breadth(symbols).long
         /\ Bundle!Breadth(lower).high \in Int /\ Bundle!Breadth(symbols).high \in Int
         /\ Bundle!Breadth(lower).high <= Bundle!Breadth(symbols).high
<1> DEFINE valid == Bundle!Valid(symbols)
           Over50(c)  == {s \in valid : Bundle!Above(c[s], ShortWindow)}
           Over200(c) == {s \in valid : Bundle!Above(c[s], LongWindow)}
           Near(c)    == {s \in valid : Bundle!NearHigh(c[s])}
<1>1. ShortWindow \in Nat \ {0} /\ LongWindow \in Nat \ {0}
  BY JobAssumption DEF Bundle!WindowAssumption
<1>2. Bundle!Valid(lower) = valid
  BY DEF Bundle!Valid, Lower
<1>3. valid \subseteq targets
  BY DEF Bundle!Valid
<1>4. \A s \in valid : symbols[s] # <<>>
  <2>1. \A s \in valid : Len(symbols[s]) >= ShortWindow
    BY DEF Bundle!Valid
  <2> QED
    BY <1>1, <2>1
<1> HIDE DEF valid
<1>5. Over50(lower) \subseteq Over50(symbols)
  BY <1>1, <1>3, AboveLower
<1>6. Over200(lower) \subseteq Over200(symbols)
  BY <1>1, <1>3, AboveLower
<1>7. Near(lower) \subseteq Near(symbols)
  BY <1>3, <1>4, NearHighLower
<1>8. IsFiniteSet(valid)
  BY <1>3, FS_Subset
<1>9. ASSUME NEW c \in {lower, symbols}
      PROVE  Bundle!Breadth(c) = [short |-> Bundle!Share(Over50(c), valid),
                                  long  |-> Bundle!Share(Over200(c), valid),
                                  high  |-> Bundle!Share(Near(c), valid)]
  BY <1>2, Zenon DEF Bundle!Breadth, valid
<1>10. /\ Bundle!Share(Over50(lower), valid) \in Int /\ Bundle!Share(Over50(symbols), valid) \in Int
       /\ Bundle!Share(Over50(lower), valid) <= Bundle!Share(Over50(symbols), valid)
  <2>1. Over50(lower) \in SUBSET valid /\ Over50(symbols) \in SUBSET valid
    OBVIOUS
  <2> HIDE DEF Over50
  <2> QED
    BY <1>5, <1>8, <2>1, ShareLower
<1>11. /\ Bundle!Share(Over200(lower), valid) \in Int /\ Bundle!Share(Over200(symbols), valid) \in Int
       /\ Bundle!Share(Over200(lower), valid) <= Bundle!Share(Over200(symbols), valid)
  <2>1. Over200(lower) \in SUBSET valid /\ Over200(symbols) \in SUBSET valid
    OBVIOUS
  <2> HIDE DEF Over200
  <2> QED
    BY <1>6, <1>8, <2>1, ShareLower
<1>12. /\ Bundle!Share(Near(lower), valid) \in Int /\ Bundle!Share(Near(symbols), valid) \in Int
       /\ Bundle!Share(Near(lower), valid) <= Bundle!Share(Near(symbols), valid)
  <2>1. Near(lower) \in SUBSET valid /\ Near(symbols) \in SUBSET valid
    OBVIOUS
  <2> HIDE DEF Near
  <2> QED
    BY <1>7, <1>8, <2>1, ShareLower
<1> HIDE DEF Over50, Over200, Near
<1> QED
  BY <1>9, <1>10, <1>11, <1>12

LEMMA TrendLower ==
  ASSUME NEW worse, NEW closes, Lower(worse, closes), NEW span \in Nat \ {0}, NEW points \in Nat
  PROVE  /\ Bundle!Trend(worse, span, points) \in Int /\ Bundle!Trend(closes, span, points) \in Int
         /\ Bundle!Trend(worse, span, points) <= Bundle!Trend(closes, span, points)
<1>1. Bundle!Above(worse, span) => Bundle!Above(closes, span)
  BY AboveLower
<1> QED
  BY <1>1 DEF Bundle!Trend

LEMMA BandLower ==
  ASSUME NEW a \in Int, NEW b \in Int, a <= b, NEW healthy \in Nat, NEW weak \in Nat,
         weak <= healthy, NEW points \in Nat
  PROVE  /\ Bundle!Band(a, healthy, weak, points) \in Int
         /\ Bundle!Band(b, healthy, weak, points) \in Int
         /\ Bundle!Band(a, healthy, weak, points) <= Bundle!Band(b, healthy, weak, points)
BY DEF Bundle!Band

\* Lower last closes never lift the market regime: the score of no market rises when the
\* last close of an index or of any targets is lower, however many bars there are.
THEOREM WorseBarsErrOnCaution ==
  ASSUME NEW targets, IsFiniteSet(targets),
         NEW m \in Priced(targets), NEW worse \in Priced(targets), LowerMarket(worse, m, targets)
  PROVE  Bundle!Score(worse) <= Bundle!Score(m)
<1>1. ShortWindow \in Nat \ {0} /\ LongWindow \in Nat \ {0}
  BY JobAssumption DEF Bundle!WindowAssumption
<1>2. /\ Bundle!Trend(worse.sp500, ShortWindow, 8) <= Bundle!Trend(m.sp500, ShortWindow, 8)
      /\ Bundle!Trend(worse.sp500, LongWindow, 10) <= Bundle!Trend(m.sp500, LongWindow, 10)
  BY <1>1, TrendLower DEF LowerMarket
<1>3. /\ Bundle!Trend(worse.nasdaq, ShortWindow, 6) <= Bundle!Trend(m.nasdaq, ShortWindow, 6)
      /\ Bundle!Trend(worse.nasdaq, LongWindow, 6) <= Bundle!Trend(m.nasdaq, LongWindow, 6)
  BY <1>1, TrendLower DEF LowerMarket
<1> DEFINE low  == Bundle!Breadth(worse.symbols)
           high == Bundle!Breadth(m.symbols)
<1>4. /\ low.short \in Int /\ high.short \in Int /\ low.short <= high.short
      /\ low.long \in Int /\ high.long \in Int /\ low.long <= high.long
      /\ low.high \in Int /\ high.high \in Int /\ low.high <= high.high
  <2>1. m.symbols \in [targets -> Seq(Nat)] /\ worse.symbols \in [targets -> Seq(Nat)]
    BY DEF Priced
  <2>2. \A s \in targets : Lower(worse.symbols[s], m.symbols[s])
    BY DEF LowerMarket
  <2> QED
    BY <2>1, <2>2, BreadthLower
<1> HIDE DEF low, high
<1>5. /\ Bundle!Band(low.short, 600, 450, 5) <= Bundle!Band(high.short, 600, 450, 5)
      /\ Bundle!Band(low.long, 550, 400, 7) <= Bundle!Band(high.long, 550, 400, 7)
      /\ Bundle!Band(low.high, 180, 80, 4) <= Bundle!Band(high.high, 180, 80, 4)
  <2>1. ASSUME NEW x \in Int, NEW y \in Int, x <= y
        PROVE  /\ Bundle!Band(x, 600, 450, 5) <= Bundle!Band(y, 600, 450, 5)
               /\ Bundle!Band(x, 550, 400, 7) <= Bundle!Band(y, 550, 400, 7)
               /\ Bundle!Band(x, 180, 80, 4) <= Bundle!Band(y, 180, 80, 4)
    <3>1. Bundle!Band(x, 600, 450, 5) <= Bundle!Band(y, 600, 450, 5)
      BY <2>1, BandLower
    <3>2. Bundle!Band(x, 550, 400, 7) <= Bundle!Band(y, 550, 400, 7)
      BY <2>1, BandLower
    <3>3. Bundle!Band(x, 180, 80, 4) <= Bundle!Band(y, 180, 80, 4)
      BY <2>1, BandLower
    <3> QED
      BY <3>1, <3>2, <3>3
  <2> QED
    BY <1>4, <2>1
<1>6. m.vix \in Seq(Int) /\ worse.vix = m.vix
  BY DEF Priced, LowerMarket
<1> QED
  BY <1>2, <1>3, <1>5, <1>6, ScoreFollowsParts DEF low, high

\* The bars of the instance
LEMMA BarsForm ==
  /\ \A closes \in Closes \cup Tapes :
       closes \in Seq(Nat) /\ (closes # <<>> => closes[Len(closes)] >= 100)
  /\ Vixes \subseteq Seq(Int)
<1>1. ASSUME NEW n \in 0..4, NEW closes \in [1..n -> {100, 110, 120}]
      PROVE  closes \in Seq(Nat) /\ (closes # <<>> => closes[Len(closes)] >= 100)
  <2>1. closes \in Seq({100, 110, 120})
    OBVIOUS
  <2>2. closes \in Seq(Nat)
    BY <2>1
  <2>3. closes # <<>> => closes[Len(closes)] \in {100, 110, 120}
    BY <2>1
  <2> QED
    BY <2>2, <2>3
<1>2. \A closes \in Closes :
        closes \in Seq(Nat) /\ (closes # <<>> => closes[Len(closes)] >= 100)
  BY <1>1 DEF Closes, SeqOf
<1>3. \A closes \in Tapes :
        closes \in Seq(Nat) /\ (closes # <<>> => closes[Len(closes)] >= 100)
  <2> DEFINE Fine(c) == c \in Seq(Nat) /\ (c # <<>> => c[Len(c)] >= 100)
  <2>1. Fine(<<>>) /\ Fine(<<100>>) /\ Fine(<<100, 120>>)
    OBVIOUS
  <2>2. Fine(<<120, 110, 100>>)
    OBVIOUS
  <2>3. Fine(<<100, 120, 110, 130>>)
    OBVIOUS
  <2>4. ASSUME NEW closes \in Tapes PROVE Fine(closes)
    <3> HIDE DEF Fine
    <3> QED
      BY <2>1, <2>2, <2>3, Zenon DEF Tapes
  <2> QED
    BY <2>4
<1>4. Vixes \subseteq Seq(Int)
  BY DEF Vixes
<1> QED
  BY <1>2, <1>3, <1>4

LEMMA LoweredIsLower ==
  ASSUME NEW closes \in Seq(Nat), closes # <<>> => closes[Len(closes)] >= 100
  PROVE  Lower(Lowered(closes), closes)
<1>1. CASE closes = <<>>
  BY <1>1 DEF Lowered, Lower
<1>2. CASE closes # <<>>
  <2> DEFINE n == Len(closes)
             front == Front(closes)
             last == Last(closes) - 10
  <2>1. n \in Nat \ {0} /\ closes[n] \in Nat /\ last = closes[n] - 10 /\ last \in Nat
    BY <1>2 DEF Last
  <2>2. /\ front \in Seq(Nat) /\ Len(front) = n - 1
        /\ \A i \in 1..(n - 1) : front[i] = closes[i]
    <3> HIDE DEF last
    <3>1. \A i \in 1..(n - 1) : i \in 1..Len(closes)
      BY <2>1
    <3>2. front = [i \in 1..(n - 1) |-> closes[i]]
      BY <2>1 DEF Front
    <3>3. n - 1 \in Nat /\ \A i \in 1..(n - 1) : closes[i] \in Nat
      BY <2>1, <3>1
    <3> HIDE DEF n, front
    <3> QED
      BY <3>2, <3>3
  <2>3. Lowered(closes) = front \o <<last>>
    BY <1>2 DEF Lowered
  <2> HIDE DEF n, front, last
  <2>4. /\ front \o <<last>> \in Seq(Nat) /\ Len(front \o <<last>>) = n
        /\ \A i \in 1..(n - 1) : (front \o <<last>>)[i] = closes[i]
        /\ (front \o <<last>>)[n] = last
    BY <2>1, <2>2
  <2> QED
    BY <2>1, <2>3, <2>4 DEF Lower, n
<1> QED
  BY <1>1, <1>2

LEMMA PictureForm == ASSUME NEW m \in Pictures PROVE m \in Priced({1, 2})
<1>1. Closes \cup Tapes \subseteq Seq(Nat) /\ Vixes \subseteq Seq(Int)
  BY BarsForm
<1>2. PICK a \in Tapes, b \in Tapes : m.symbols = <<a, b>>
  <2>1. <<>> \in Tapes /\ <<100, 120>> \in Tapes
    BY DEF Tapes
  <2> QED
    BY <2>1 DEF Pictures
<1>3. m.symbols \in [{1, 2} -> Seq(Nat)]
  <2>1. a \in Seq(Nat) /\ b \in Seq(Nat) /\ {1, 2} = 1..2
    BY <1>1
  <2>2. <<a, b>> = [i \in 1..2 |-> IF i = 1 THEN a ELSE b]
    OBVIOUS
  <2> QED
    BY <1>2, <2>1, <2>2
<1>4. m \in [sp500 : Closes \cup Tapes, nasdaq : Closes \cup Tapes, vix : Vixes,
             symbols : {m.symbols}]
  BY DEF Pictures, Vixes
<1> QED
  BY <1>1, <1>3, <1>4 DEF Priced

\* Every close of a picture leaves room to be lowered.
LEMMA PictureBars ==
  ASSUME NEW m \in Pictures, NEW closes \in {m.sp500, m.nasdaq, m.symbols[1]}
  PROVE  closes \in Seq(Nat) /\ (closes # <<>> => closes[Len(closes)] >= 100)
<1>1. m.sp500 \in Closes \cup Tapes /\ m.nasdaq \in Tapes
  BY DEF Pictures
<1>2. \A a, b : <<a, b>>[1] = a
  OBVIOUS
<1>3. m.symbols[1] \in Tapes
  <2>1. <<>> \in Tapes /\ <<100, 120>> \in Tapes
    BY DEF Tapes
  <2>2. \E a, b \in Tapes : m.symbols = <<a, b>>
    BY <2>1 DEF Pictures
  <2> QED
    BY <1>2, <2>2
<1> QED
  BY <1>1, <1>3, BarsForm

LEMMA TwoTargets == IsFiniteSet({1, 2})
<1>1. IsFiniteSet({1})
  BY FS_Singleton
<1>2. {1, 2} = {1} \cup {2}
  OBVIOUS
<1> QED
  BY <1>1, <1>2, FS_AddElement

LEMMA LowerItself == ASSUME NEW closes \in Seq(Nat) PROVE Lower(closes, closes)
<1>1. closes # <<>> => Len(closes) \in 1..Len(closes) /\ closes[Len(closes)] \in Nat
  OBVIOUS
<1> QED
  BY <1>1 DEF Lower

\* The market regime of a dispatch is no bolder without the bars of a stock index or of all
\* targets (a missing volatility index and a single target without bars are not covered:
\* either may raise the score), and no bolder for any lower last close, over all the
\* pictures of the bar store that the run looks at (build_market_regime_snapshot)
THEOREM RegimeIsCautious == JobSpec => []RegimeErrsOnCaution
<1>1. ASSUME NEW m \in Pictures PROVE Bundle!MissingNeverHelps(m)
  <2>1. m \in Priced({1, 2})
    BY PictureForm
  <2>2. \A closes \in Seq(Nat) : closes \in Seq(Int)
    OBVIOUS
  <2>3. MarketForm(m)
    BY <2>1, <2>2 DEF Priced, MarketForm
  <2> QED
    BY <2>3, MissingBarsErrOnCaution
<1>2. ASSUME NEW m \in Pictures, NEW worse \in WorsePictures(m)
      PROVE  Bundle!Score(worse) <= Bundle!Score(m)
  <2>1. m \in Priced({1, 2})
    BY PictureForm
  <2>2. \A closes \in Seq(Nat) : Lower(closes, closes)
    BY LowerItself
  <2>3. /\ Lower(Lowered(m.sp500), m.sp500) /\ Lower(Lowered(m.nasdaq), m.nasdaq)
        /\ Lower(Lowered(m.symbols[1]), m.symbols[1])
    BY PictureBars, LoweredIsLower
  <2>4. \A closes, lower : Lower(lower, closes) => lower \in Seq(Nat)
    BY DEF Lower
  <2>5. m.symbols[2] \in Seq(Nat) /\ m.sp500 \in Seq(Nat) /\ m.nasdaq \in Seq(Nat)
    BY <2>1 DEF Priced
  <2>6. CASE worse = [m EXCEPT !.sp500 = Lowered(@)]
    <3>1. worse \in Priced({1, 2}) /\ LowerMarket(worse, m, {1, 2})
      BY <2>1, <2>2, <2>3, <2>4, <2>6 DEF Priced, LowerMarket
    <3> QED
      BY <2>1, <3>1, TwoTargets, WorseBarsErrOnCaution
  <2>7. CASE worse = [m EXCEPT !.nasdaq = Lowered(@)]
    <3>1. worse \in Priced({1, 2}) /\ LowerMarket(worse, m, {1, 2})
      BY <2>1, <2>2, <2>3, <2>4, <2>7 DEF Priced, LowerMarket
    <3> QED
      BY <2>1, <3>1, TwoTargets, WorseBarsErrOnCaution
  <2>8. CASE worse = [m EXCEPT !.symbols[1] = Lowered(@)]
    <3> DEFINE symbols == [m.symbols EXCEPT ![1] = Lowered(@)]
    <3>1. /\ symbols \in [{1, 2} -> Seq(Nat)]
          /\ \A s \in {1, 2} : Lower(symbols[s], m.symbols[s])
      <4>1. m.symbols \in [{1, 2} -> Seq(Nat)]
        BY <2>1 DEF Priced
      <4>2. symbols[1] = Lowered(m.symbols[1]) /\ symbols[2] = m.symbols[2]
        BY <4>1
      <4> QED
        BY <2>2, <2>3, <2>4, <4>1, <4>2
    <3>2. worse = [m EXCEPT !.symbols = symbols]
      BY <2>8
    <3> HIDE DEF symbols
    <3>3. worse \in Priced({1, 2}) /\ LowerMarket(worse, m, {1, 2})
      BY <2>1, <2>2, <2>5, <3>1, <3>2 DEF Priced, LowerMarket
    <3> QED
      BY <2>1, <3>3, TwoTargets, WorseBarsErrOnCaution
  <2> QED
    BY <2>6, <2>7, <2>8 DEF WorsePictures
<1>3. RegimeErrsOnCaution
  BY <1>1, <1>2 DEF RegimeErrsOnCaution, Bundle!CautiousOver
<1> QED
  BY <1>3, PTL
=============================================================================
