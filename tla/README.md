# A verification project for the US Alpha Seeker Harvester

TLA+ modules, TLC configurations and TLAPS proofs about the code under `src/`:
`harvester.py`, the scripts in `scripts/` and the GitHub workflows in
`.github/workflows/`. Every definition is translated from those sources;
`PROJECT.json` names, definition by definition, the lines it stands for.

Run everything from this directory:

    tlc -workers 2 -config MCDailyRace.cfg MCDailyAdmission   # and so on, see "Runs"
    tlapm DailyAdmissionProofs.tla                            # and so on, see "Proofs"

## 1. The system

The Harvester is one Python program, started once per GitHub workflow run. It
collects market data for a universe of US stocks in two daily batches (Tuesday
to Saturday, 07:13 and 12:13 in Seoul), and OHLCV history on demand when the
analysis repository reports that its Stage3 is complete. Everything it keeps is
a JSON file in one Google Drive folder. There is no database and no lock:
processes are kept apart by GitHub concurrency groups, by look-ups before
writes, and by files that are created exclusively.

| component | state | operations | interacts with |
|---|---|---|---|
| Slot contract `scripts/harvester_schedule_contract.py` | none (pure) | `make_slot`, `slot_is_open`, `due_slot`, `resolve_route`, `sec_phase_allowed`, proof and control validation | every phase of the admission, the Mac sender |
| Daily admission `run_harvester_schedule_gate.py`, `harvester_schedule_receipts.py`, `main.yml` | `attempt.json` and `result.json` per slot on a receipt branch; job outputs; the proof file on the runner | `resolve`, `reserve`, `recheck`, `finish`; the start checks in `harvester.py` | GitHub Contents API, concurrency group, collector, SEC producer |
| Mac assist `dispatch_harvester_daily_slot.py` | one receipt file per slot in an owner-only directory | `dispatch_due_slot` | GitHub API: control, attempt, `repository_dispatch` |
| Drive storage `harvester.py` 697-923 | the files of one folder | `find_file_id`, `download_json`, `upload_json` | all collectors |
| Official SHADOW producers `official_shadow_runtime.py`, `harvester.py` 958-1207 | sentinel on the host, sentinel in Drive, archive and current artifact | `_ensure_official_shadow_provider` | Drive, providers, Telegram; the daily and the one-shot workflow |
| Collector run `run_harvester` | progress file, summary, daily and history files per group, symbol state | the daily collection, the fatal path | Drive, yfinance, Telegram |
| Symbol lifecycle | state, streaks and dates per symbol | derive, update, retire, skip | collector run |
| Corporate-action coverage and listing refresh | mapping, audit with sources, events and surveillance sessions | refresh, fall back, retain, unverify | Nasdaq Trader, Finnhub, FMP; OHLCV store |
| OHLCV store | bars and lineage per symbol | `sync_ohlcv_incremental` | yfinance, the evidence of the mapping |
| SEC financial lineage producer | reservation in the Actions cache, sentinel on the runner, archive and current artifact | reserve, read, request, judge, publish; three workflows | `main.yml` after the collector, SEC |
| Toss same-Stage3 hand-off | local sentinel per Stage3 file, local and Drive shadow, archive | inspect the window, reserve, request, publish, alert, receipt | Stage3 dispatches through the progress file, Toss API |
| Stage4 bundle: earnings events, market regime | audit, regime, earnings map, coverage, ready file | gather, classify, publish | three calendars, OHLCV store |
| Target lineage `target_lineage.py` | lineage of a target price in a daily record | build, merge | collector run |
| Probes, Notion sync, Telegram routing, contract checks | none or one page | read-only probes; create; tests | outside services |

What is hard here is not computation but order:

- a handler reads, decides and writes over several requests, and other runs, the
  clock, a cancellation or the loss of the runner fall between any two of them;
- answers are lost after the effect happened (a 201, a Drive write, a dispatch),
  and the code's rule is never to repeat a write whose outcome is unknown;
- GitHub queues, replaces, cancels and re-runs runs, and a partial re-run mixes
  the outputs of one execution with the jobs of another;
- wakes come from three sources whose notions of time (UTC cron, Seoul calendar,
  a host's own clock) must name the same slot;
- two workflows in different concurrency groups touch the same Drive files.

What makes each component correct: *slot contract*: the notations of the
calendar agree, and routing is stable when repeated later. *Admission*: a slot
is reserved by one run, collected at most once over all runs and re-runs, only
inside its window and after activation; its result is written, true and
immutable. *Mac assist*: at most one wake per slot and host, for the due slot,
never one the receiver misreads. *Drive storage*: a success was stored, an
absence is real, duplicates need overlapping writers. *SHADOW producers*:
requests only behind two reservations, never twice for a date, and what is
published was collected and announced. *Collector*: the daily file, the history
file and the symbol state of a symbol tell one story wherever a run ended, and a
kept figure keeps its provenance. *Coverage and bars*: what reads as verified
was obtained by the refresh that wrote it and is true of the day it claims,
recorded events stay, and the bars have one adjustment basis. *SEC lineage*: one
reservation is spent on one run, `COMPLETE` means published, a verified row has
one filing. *Toss*: a Stage3 file is asked about once, `SUCCESS` has evidence and
a receipt. *Stage4 bundle*: the nearest event is kept; the bars of an index or of
all targets, when they are missing, never make the regime bolder (a missing
volatility index or single target may); a ready file that vouches for an audit
has it.

`PROJECT.json` lists every hazard at its line with the properties that cover it.

## 2. Modules

| module | models |
|---|---|
| `SlotContract` | the pure operators of the slot contract. Instants are minutes from a Monday 00:00 UTC; a slot is a Seoul day and a batch; an operator that raises or returns a slot returns a set of at most one slot |
| `SlotOnce` | abstract specification: reserve for good, start once by the owner, report once |
| `Reservation` | abstract specification of what the other reservations promise a vendor, without clocks, sentinels, caches or uploads: admitted only while nobody has asked, one question (or, if shared, one by each of those admitted together), a success confirmed only by an admitted asker |
| `DailyAdmission` | the jobs of `main.yml`, the four gate phases, the receipts, the collector's and SEC producer's start checks. One action per request that a phase sends (`ReserveLookup`, `Stamp`, `PutAttempt`, `Readback`, ...); `Refuse` is every `ContractError`; `Fail` and `AfterBuild` are the jobs' `if:` conditions; `Enter`, `Promote`, `Rerun`, `Crash`, `Abort` are GitHub |
| `MacAssist` | one action per request or early return of `dispatch_due_slot`, any number of processes per host, each with its own clock error |
| `HybridSchedule` | senders and receiver composed: they share the clock, the receipt branch and the dispatches on their way; an assist run exists only because a sender's dispatch was accepted |
| `DriveUpload` | `upload_json` (look-up with retries, one write, one reconciliation) against a Drive that stores a write early, late or never; `find_file_id` and `download_json` |
| `OfficialShadow` | `_ensure_official_shadow_provider`, step by step, for processes of two workflows on shared or separate hosts, over several publication dates |
| `SymbolLifecycle` | one symbol's entry: what a collection, the retire policy and the skip rule make of it (operators) |
| `CollectorRun` | the daily path: refresh, groups, pruning, attempts, the two uploads per group, the symbol state, death anywhere; also the target of a record (`MergedTarget`) |
| `CorporateCoverage` | the refresh of mapping and evidence from one symbol's view: what each source can answer, which events are merged and retained, what a failed source takes away |
| `OhlcvStore` | extends it by a symbol's bars and lineage, and the dispatch that extends, replaces or skips them. A bar is the set of later published events it is adjusted for |
| `ProspectiveSurveillance` | the sessions that every refresh adds to the audit, over several symbols: added, removed, observed |
| `FinancialLineage` | the daily, recovery and one-shot workflows around the SEC producer, step by step: lookup, reservation, save, sources, three requests, archive, current artifact, sentinel |
| `FinancialRows` | its verdict on a symbol: figure, history, identity, candidate facts, filings |
| `TossCapability` | the daily run's one probe of Toss: record, reservation, two requests, verdict, and the operator who archives a record |
| `TossQuotes` | the requests and the verdict of one Toss collection, as operators over every reply |
| `TossHandoff` | the poll around it: window, sentinel, three re-inspections, archive, publication, alert, receipt, local copy; and the Stage3 dispatches that open and close the window |
| `MarketRegime` | breadth, trend, volatility, score and regime as operators over the stored closes |
| `Stage4Bundle` | extends it by the dispatch that publishes audit, regime, earnings map, coverage, progress and ready file, and the three calendars behind the map |
| `SlotContractProofs`, `DailyAdmissionProofs`, `HybridScheduleProofs`, `DriveArtifactsProofs`, `OfficialShadowProofs`, `TossHandoffProofs`, `MarketEvidenceProofs`, `DailyJobProofs` | the theorems of section 5; the last one is about the collector, the producer and its rows, the bundle, the regime and the sessions, which `MCDailyJob` composes |
| `MC*` | instances for TLC; `MCSlotContract`, `MCMarketEvidence` and `MCTossHandoff` also hold properties that need an instance's inputs |

How they are composed. `HybridSchedule` composes senders and receiver;
`OhlcvStore` composes the refresh, the dispatch and the bars through the mapping
and the audit; `TossHandoff` composes the poll with the dispatches, and takes the record of
`TossCapability` as a precondition that may fail; `CollectorRun` uses
`SymbolLifecycle`, `Stage4Bundle` uses `MarketRegime`, `TossHandoff` uses
`TossQuotes`. `DailyAdmission` and, per host, the senders of `HybridSchedule`
implement `SlotOnce`; `OfficialShadow`, `TossHandoff` and
`FinancialLineage` (in `MCDailyJob`) implement `Reservation`. Components that share no state a property speaks of stand side by
side in one run: `MCDailyJob` and `MCDriveArtifacts` explore one part per
behaviour, chosen initially.

State and code: `attempts` and `results` are the files of the receipt branch;
in the admission, `slot`, `proof` and `exit` are the job outputs `slot_json`,
`proof_json` and `collector_outcome`; `try` is `GITHUB_RUN_ATTEMPT`; `resume` is the job a
partial re-run starts with. A hash that ties two documents together is modelled
by the tied document itself, so "the hash matches" is equality. `collections`,
`secRuns`, `posts`, `begun`, `requested`, `alerted`, `earlier`, `torn`,
`quoteless`, `lost`, `held`, `collected`, `reported`, `gone`, `full`,
`continued`, `heard`, `era`, `receipts`, `blind` and, of the probe, `sent` are history: they guard no action, except that `SecAccepts` reads a
collector's start from `collections`, which stands for the summary file written
by that collector. A `TypeOK` that no cfg names documents the module's state.

Definitions whose comment begins with "Mutant" belong to no specification. Each
is a plausible defect that stands in for the definition named in
`PROJECT.json` to show that a property notices it.

## 3. Runs

| run | states (distinct) | question |
|---|---|---|
| `slot_calendar` | 14 501 | Do the UTC crons, the Seoul slots, the sender's due slot and the receiver's routing agree at every minute? |
| `daily_race` | 406 442 | Do the receipts alone (no concurrency group) keep a slot to one collection, with lost requests and crashes? |
| `daily_group` | 309 984 | With the group, cancellation, re-runs and both modes: is a slot collected once, are results true, and does every run end? |
| `hybrid_wake` | 357 340 | Do two processes of one Mac, one with a wrong clock, send at most one correct wake around the activation boundary? |
| `drive_artifacts` | 3 367 726 | What do success, failure and absence of an upload mean, and is a publication date collected once and truthfully reported? |
| `toss_handoff` | 5 893 616 | Is a Stage3 file asked about once, is no status better than its evidence, and what can replace a terminal artifact, while windows open and close and polls overlap? |
| `market_evidence` | 451 109 | Does evidence agree with the world it was read from, and are bars that count as comparable of one basis? |
| `daily_job` | 4 899 126 | Do the files of the collector, the producer, the dispatch and the surveillance fit together wherever a job ends? |
| `finding_*` | violation | Four statements of the documentation that the code does not keep (section 6) |

**`slot_calendar`** walks 14 500 minutes, ten days: a whole week plus the
weekend, each weekday boundary in both zones, and the re-examination of a wake
0, 1, 179, 180, 181, 600, 1440 and 4320 minutes after it was created. The
calendar has the period of a week, so nothing new lies beyond.

**`daily_race`** has two runs with all four kinds of wake, the concurrency group
switched off (`Serialized = FALSE`) so that every interleaving of their requests
is explored, both allowed to lose answers, and the five instants at which any
comparison in the code changes: the first slot, its last minute, its end, the
second slot of the day, and the same batch a day later. Two runs are enough for
a race about one path that holds one file; the theorems remove the bound. Runs
are interchangeable, and every property of this run is a safety property, so
symmetry is sound.

**`daily_group`** has the group on, files of both modes, a wake from another
ref, one fault-free run and one faulty one, and up to two executions each
(`MaxTries = 2`), the smallest number with which a proof of one execution meets a
job of the next. It carries the two liveness properties and no symmetry.
`daily_race` has one execution a run, so the re-run half of what it checks rests
on this run (`OneCollectionPerSlot`) and, for `SlotOnce` and the SEC producer, on
the theorems, which hold for every `MaxTries`.

**`hybrid_wake`** places the activation at the second slot, gives each process a
clock that is right or five hours ahead (so that the later slot seems due in the
earlier window), and lets a native run compete. One host: the receipts of
different hosts never meet.

**`drive_artifacts`**. *Drive*: three uploads, two of which write equal bytes (so
that a reconciliation can be satisfied by another's write), one read, and
`RetryAttempts = 2`, with which both "retry" and "give up" happen. *Shadow*: two
runs of the one-shot workflow and one of the daily workflow, two hosts, one of
them shared, and two dates, so that a date can end at any point of a run. That these
steps are steps of a shared reservation is `SentinelsKeepPromise`.
*Capability*: three daily runs, one archived record, every answer with up to
three candles.

**`toss_handoff`** has three Stage3 files (two of two symbols, one whose scope is
invalid), two pollers that start three polls between them
(`MaxPolls = 3`), two dispatches and one rewritten file (`MaxRewrites = 1`). Three
polls are what it takes for one to make a terminal result, one to overlap it and
one to read what the two left. Each file has a passing and a failing reply. The
verdict on other replies is evaluated once, in the initial state (`PassMeansWholeScope`), because the verdict
depends on the scope and the reply alone: all scopes of up to two symbols in two
batches; the whole reply with any end of each request; and replies that all
arrive, with up to two rows of any kind in the first batch and none, a misplaced
or any one row of its own in the second. Pollers are
interchangeable, and so are the two valid files. `SentinelKeepsPromise` looks at the same steps as those of an exclusive reservation.

**`market_evidence`** has three market days, a coverage window of two and a halt
search of one, so that events leave the search and then the window; two faults;
and all histories of at most two events that can bear on each other.
Downloads of three and two days against three stored bars make both the window
that overlaps and the one that does not. A split may be published a day late,
which is what makes a rebased window differ from the stored one.

**`daily_job`** explores one of five parts. *Collector*: three symbols in two
groups, five days, any batch, two listings, streaks and retirement of two, two
mishaps (a missing or failing answer, an unread file, a death). *Lineage*: three
runs of any of the three workflows, two dates, two faults; its steps are those of
an exclusive reservation (`CacheKeepsPromise`). *Row*: every case of
up to two facts in two accessions, concepts and forms with every small filing
list, and every small state of the stored files. *Bundle*: two targets, two
dispatches, up to two rows a target, two misses; the regime's caution is checked
over all closes of at most four bars at once, in an initial state, since the
regime depends on nothing else. *Sessions*: two symbols in two files, two
sessions, two slips.

Deadlock checking is off: workflow runs and processes end, and a finished system
has no next step.

### Fairness

`DailyAdmission` alone has liveness properties. Its `Fairness` is weak fairness
of `Advance(r)` per run: GitHub goes on with a started run, starts a queued one
when its group is free, and ends any job by `timeout-minutes`. `Fail` by timeout
needs no fairness of its own, because some step of the phase or `Refuse` is
always possible. No wake, no re-run, no operator and not even the clock is
assumed to be fair. `AdmittedRunReports` is stated for runs outside `Faulty`:
one that loses its runner in the finish job leaves no result, as the design says.

## 4. Properties worth reading

References to README.md below are to the repository's own.

`OneCollectionPerSlot` (over all runs *and* re-runs), `ReceiptNamesItsWake` (the
reservation made minutes later is for the slot the wake meant),
`ResultTellsTheTruth` (a result claims no collector that did not start and a
first execution hides none that did), `AdmittedRunReports`,
`WakeIsNeverMisunderstood` (sender's and receiver's checks fit), `WakeOncePerHost`
(an instance of `SlotOnce`), `SentinelsKeepPromise`, `SentinelKeepsPromise` and
`CacheKeepsPromise` (one specification of a reservation, kept by a file in Drive,
by a file on the host and by a key in the Actions cache), `DuplicatesNeedOverlap`,
`AbsentMeansAbsent`, `RecordsWereObserved` (of `EvidenceWasCollected` and of the
probe's record), `PublishedFailureWasAnnounced`,
`OneBasisAfterEachSync` (late events, skipped days and short windows never mix
two bases), `EvidenceAgreesWithWorld`, `ComparableIsJustified`, `StateNeverAhead`
and `GroupFilesAgree` (three files, uploaded hours apart, and any death),
`SuccessHasEvidence`, `VerifiedIsTheOnlyFiling`, `NearestEventKept`.

Three invariants say in the words of one component what its reservation promises:
`NoSecondCollection`, `OneCollectionPerStage3` and `ReservationIsSpentOnce`. They
are proved on their own; the runs check the refinements, which say more.

Statements that are weaker than one might expect, because the code is:

- `ResultTellsTheTruth` says nothing of "skipped" in a re-run: a repeated build
  is refused, and its exit replaces the one the finish job would have recorded.
- `SentinelsKeepPromise` and `NoSecondCollection` do not exclude that the one-shot
  and the daily workflow, running at the same time on different hosts, both collect
  a date: both may read the Drive sentinel before either writes it, and their groups
  differ. README.md:363-366 holds for runs that do not overlap or that share a host.
  The flags for the daily workflow are shipped as `false`.
- Nothing orders the current pointer between the two workflows: a slow run of
  one date may publish after a run of the next date.
- A reservation that Drive stored but did not acknowledge blocks its date for
  good. That is the intended side on which to fail.
- `DuplicatesNeedOverlap` allows duplicates to overlapping uploads, including
  one whose caller gave up while its write was still on the way. After that
  every `upload_json` of the name is refused, while `find_file_id` silently
  takes the first row. The comment at `harvester.py:702` ("completely prevents
  duplicate files") is true of the look-up's retries and not of the folder.
- `PostsOnlyWhenDue` is about the moment the sender decides to post; the post
  itself takes one more request.
- `GroupFilesAgree` leaves out what the code cannot keep: a run that ends between
  the two uploads of a group leaves a mark without a history, or a history
  without a record (which pruning, led by the daily file, never removes); a
  stored file that does not parse reads as empty and is overwritten; a history
  fetched for a new symbol whose three attempts then fail stays alone.
- `StateNeverAhead` is one-sided: a run that dies before its last upload loses
  the entries of all groups it had uploaded. Those runs do not count in the
  "consecutive runs" of README.md:16, and a symbol may retire on the other
  batch's run although it was collected (README.md:20). A group whose last mapped
  symbol disappears is no longer loaded, so its stale records stay
  (README.md:36).
- `CacheKeepsPromise` and `ReservationIsSpentOnce` are per workflow: the daily job
  and the recovery have different cache prefixes, so both may collect one window, and as they share the
  collection key the later archive replaces the earlier one of the same status.
  They except keys on which the cache lost a lookup or a save, both of which the
  workflows treat as a miss or a warning.
- `EventsRetained` is about audits that continue the previous one. A refresh
  without any listing rows fails open with an audit that has no coverage
  (`harvester.py:4447`), and a previous audit that is not read counts as none
  (`harvester.py:7580`): retained events and sessions are lost then.
- `OneBasisAfterEachSync` holds for events published up to a day late; and a bar
  of an unfinished session counts as confirmed.
- `MappingLossIsRecorded` speaks of the current session. When one of the two
  listing files fails, the mapping is replaced by the other one's symbols, and
  the surveillance then names all others as removed.
- `TerminalLostOnlyBlindly` does not say that a terminal local artifact stays. A
  poll that does not collect reads the local file, tests what it read and writes
  its diagnostic as three unlocked steps (`harvester.py:1499`, `:1504`, `:1519`;
  `LookLocal` and `WriteLocal`), so a poll that looked too early, or could not
  read the file, replaces the terminal artifact that an overlapping poll has
  stored meanwhile, even the pass of a sentinel that says `SUCCESS`:
  README.md:302-303 ("later no-op polls do not replace the local current
  artifact") holds for polls that look after the artifact was stored. The others
  are in `blind`; the property says that nobody else replaces one, except by the
  terminal shadow it read in Drive. The archive, the Drive shadow and the sentinel
  are not touched. A poll whose provider gates are off does not look at all and
  writes its diagnostic over anything. Two terminal artifacts are not ordered:
  after a failed publication, a later no-op poll restores the older Drive copy
  over the newer local failure. The write itself is one step: two polls that write
  the same temporary file at once (`harvester.py:376`) are left out.
- `SuccessHasEvidence` includes the receipt: before a sentinel says `SUCCESS`, the
  pass was stored in Drive with the outcome of its alert. It says that it was
  stored once, not that it is still the current shadow. It has no converse: an
  upload that fails but is stored leaves an eligible pass in Drive under a
  sentinel that says `FAILED`, and a Drive read that fails after the reservation
  leaves `IN_PROGRESS` for good. Each window is inspected and then used, so
  evidence may still be written after it closed.
- Of the probe, `ProbedOnce` holds for daily runs in one concurrency group. A
  verdict that is not stored leaves the reservation, `TOSS_TRANSIENT_FAILURE`, as
  the verdict for good; and a report or upload of the probe that fails ends the
  daily run before it collects anything.
- An alert that was not delivered carries a fingerprint all the same, so the
  repeated failure is not announced either.
- `ReadyVouchesForItsAudit` says nothing of the regime and earnings files beside
  a ready file, which may be those of an earlier dispatch. One FMP row that is no
  object costs the whole earnings map, where the same in Finnhub's answer costs
  that calendar; from yfinance the first date in the window is taken.
- `RegimeErrsOnCaution`: a missing volatility index counts as a normal one, and
  `RISK_ON` is possible under a high one when the rest is strong.

## 5. Proofs

All checked by `tlapm` with Z3, Zenon and LS4, for every value of the constants
that satisfies the named assumptions. Every safety invariant and every action
property of a passing run is stated by a theorem, and so are a few that no run
needs to check beside them.

| module | theorem | statement |
|---|---|---|
| `SlotContractProofs` | `NativeRunIsLastFiring` | `Spec => []NativeSlotIsLastFiring` |
| | `SenderMeetsReceiver` | `Spec => []SenderAndReceiverAgree` |
| `DailyAdmissionProofs` | `TypeCorrect` | `Spec => []TypeOK` |
| | `SlotCollectedOnce` | `Spec => []OneCollectionPerSlot` |
| | `CollectionsAreBacked` | `Spec => []CollectionBackedByReceipt` |
| | `ReceiptsNameTheirWake` | `Spec => []ReceiptNamesItsWake` |
| | `ResultsTellTheTruth` | `Spec => []ResultTellsTheTruth` |
| | `SecRunsFollowCollections` | `Spec => []SecFollowsOwnCollection` |
| | `ReceiptsStay` | `Spec => ReceiptsAreImmutable` |
| | `AdmissionImplementsSlotOnce` | `Spec => ImplementsSlotOnce` |
| `HybridScheduleProofs` | `HybridRefinesAdmission` | `HybridSpec => Spec`: the senders add no behaviour to the receiver |
| | `HybridCollectsOnce` | `HybridSpec => []OneCollectionPerSlot` |
| | `HostWakesOnce` | `HybridSpec => WakeOncePerHost` |
| | `PostsAreDue` | `HybridSpec => PostsOnlyWhenDue` |
| | `WakesAreUnderstood` | `~Serialized => (HybridSpec => []WakeIsNeverMisunderstood)` |
| `DriveArtifactsProofs` | `DuplicatesOverlap` | `ArtifactsSpec => []DuplicatesNeedOverlap` |
| | `SuccessStored` | `ArtifactsSpec => []SuccessIsStored` |
| | `AbsenceIsTrue` | `ArtifactsSpec => []AbsentMeansAbsent` |
| | `RecordsAreObserved` | `ArtifactsSpec => []RecordsWereObserved` |
| `OfficialShadowProofs` | `DateAskedOnce` | `Spec => []NoSecondCollection` |
| | `FailuresAreAnnounced` | `Spec => []PublishedFailureWasAnnounced` |
| | `EvidenceIsObserved` | `Spec => []EvidenceWasCollected` |
| | `SentinelsKeepTheirPromise` | `Spec => SentinelsKeepPromise`: the producers implement a shared `Reservation` |
| `TossHandoffProofs` | `AskedOnce` | `Spec => []OneCollectionPerStage3` |
| | `Archived` | `Spec => []CurrentIsArchived` |
| | `SuccessIsBacked` | `Spec => []SuccessHasEvidence` |
| | `TerminalLostOnlyInRace` | `Spec => TerminalLostOnlyBlindly` |
| | `SentinelKeepsItsPromise` | `Spec => SentinelKeepsPromise`: the polls implement an exclusive `Reservation` |
| | `PassIsTheWholeScope`, `WholeScopePasses`, `FailurePublishesNothing` | of `Collect`, for every scope and every reply |
| | `VerdictOfWholeScope` | `PassOver(scopes, replies)` for any finite scopes and any replies that answer each batch |
| | `PassIsWhole` | `Spec => []PassMeansWholeScope` |
| `MarketEvidenceProofs` | `EvidenceIsTrue` | `Spec => []EvidenceAgreesWithWorld` |
| | `FailuresUnverify` | `Spec => []FailedRefreshUnverifies` |
| | `EventsStay` | `Spec => EventsRetained` |
| | `ComparableMeans` | `Spec => []ComparableIsJustified` |
| | `OneBasis` | `Spec => OneBasisAfterEachSync` |
| `DailyJobProofs` | `FilesAgree` | `JobSpec => []GroupFilesAgree` |
| | `StateFollowsRecords` | `JobSpec => []StateNeverAhead` |
| | `TargetsAreDated` | `JobSpec => []TargetKeepsItsProvenance` |
| | `LossesAreRecorded` | `JobSpec => MappingLossIsRecorded` |
| | `ReadyIsBacked` | `JobSpec => []ReadyVouchesForItsAudit` |
| | `NearestIsKept` | `JobSpec => []NearestEventKept` |
| | `MissingBarsErrOnCaution` | `MissingNeverHelps(m)` for every market `m` |
| | `WorseBarsErrOnCaution` | `Score(worse) <= Score(m)` for every market with lower last closes, of any length and number |
| | `RegimeIsCautious` | `JobSpec => []RegimeErrsOnCaution` |
| | `VerifiedIsBacked` | `JobSpec => []VerifiedIsTheOnlyFiling` |
| | `SpentOnce` | `JobSpec => []ReservationIsSpentOnce` |
| | `CompleteIsPublished` | `JobSpec => []CompleteMeansPublished` |
| | `CacheKeepsItsPromise` | `JobSpec => CacheKeepsPromise`: the producer's runs implement an exclusive `Reservation` |

### Assumptions

TLC evaluates each of them on the instance of its run. Those of the admission
and the sender (`SignalAssumption`, `TimeAssumption`, `ModeAssumption`,
`FlagAssumption`, `TriesAssumption`, `FaultyAssumption`, `HostAssumption`,
`OffsetAssumption`) only type the constants; `WakeAssumption` says that the
receiver's `Signals` include every payload a sender may build. `CallAssumption`:
uploads and reads are different calls; `ContentAssumption`: the content of no file
is the mark for "none". `QuoteBounds`, `HandoffBounds`:
positive limits, and Stage3 rows that are sequences of symbols.
`CoverageAssumption`, `StoreAssumption`: integer windows, a short download that
is shorter than the full one, a full one that fits the file. `WorldsAssumption`:
what a history of a symbol is; it is the one that restricts the world, to splits
that the vendor publishes no more than a day late. `CasesAssumption`: a case has
finitely many facts and dated filings. `SessionsAssumption`, `PolicyAssumption`,
`LayoutAssumption`, `WindowAssumption` and `HorizonAssumption`: positive limits, and
groups, listings and files of the followed symbols.

`WakesAreUnderstood` has the hypothesis `~Serialized`: with the concurrency
group, a newer run may cancel a pending assist run that has reserved nothing,
which is a finding (section 6) and no misunderstanding. The run `hybrid_wake`
has the group off as well.

`MCDailyJob` and `MCDriveArtifacts` explore one part per behaviour. The lemmas
`Parts`, `CollectorPart`, `BundlePart` and `ProducerPart` show
that a behaviour of the instance is one of each part, so that what is
proved of a part's own specification holds of the composition.

### The arguments

Nearly all invariants below are inductive only together with what a process
knows between two of its steps; that is what the strengthenings say.

*Slots.* The two notations of the calendar, cron days in UTC and slots in Seoul,
are one (`CronIsTheCalendar`), by linear arithmetic over whole minutes. The
invariant `LastFiring` says that a cron fired at the minute on record and never
since; a native run that is resolved within its window stands for that minute.
`DueIsOpen`, `OneDueSlot` and `RequestResolved` give the sender's side.

*Admission.* `OneCollectionPerSlot` is not inductive: nothing in it prevents a
state in which two runs hold a proof of one slot. The invariant `IInv` has four
parts. `TInv` is `TypeOK` with the fact that a run that exists has a signal.
`OInv`: what the outputs of a run say about the jobs it still has to run: no
proof before the build job, a proof of its own slot written by this run, and at
most one slot. `ReceiptsOK`: a path holds one attempt, a proof is an attempt that
is on the branch, and no instant taken for a receipt lies in the future.
`CollectionsOK`: every collection was started by execution 1 of a run that owns
the attempt of its slot and that is past its start in that execution. Two
collections of a slot then have the same owner, the same execution, and one start
in it. `WakesOK` ties the slot and the time stamps of a run to its own wake,
`ExitsOK` and `ResultsOK` the claimed outcome of a collector to a recorded start.
The step lemmas follow how each variable can change (`AttemptsGrow`,
`CollectionsGrow`, `ProofsComeFromReceipts`, `ExecutionStep`, `ResultsGrow`), so
that each conjunct looks only at the actions that disturb it. The refinement of
`SlotOnce` maps each of `PutAttempt`, `CollectStart` and `PutResult` to its
abstract action and all else to a stutter.

*Senders.* `HybridRefinesAdmission` is a simulation step by step; every theorem
about the receiver carries over. `HostWakesOnce` rests on `SenderInv`: a process
has at most one due slot (`OneDue`), a host at most one receipt per slot
(`OneReceipt`), a process that is past its reservation holds it (`HoldsReceipt`),
and a post was made by a holder that is gone (`PostedOnce`).
`WakesAreUnderstood` follows a wake from the dispatch on its way (`DispatchesOK`)
through every phase of its run (`Understood`): each refusal that is left means a
reserved slot or an expired window.

*Drive.* `Created`: each file has its own creator, which had found none.
`Absence`: a call that found none began before any creator was settled. Two files
therefore have overlapping creators. `SoleWriter` is what an upload that nobody
overlaps knows at each of its steps, up to the content of the only file;
`TrueAbsence` the same of a read. For the probe, `Holder` says what the busy run
knows of the others, `Backed` and `OncePerEra` that a request of the present era
stands behind a record.

*SHADOW producers.* `Marked`: a process that may send requests has an acknowledged
sentinel in Drive, and no upload takes one away. `Late`: a process that began
after requests were sent for its date has not passed the sentinel. `Progress`,
`Announced` and `Observed` follow a result from the requests to the files.

*Toss.* `Owned`: a sentinel is taken once, by one poll. `Judgement`: what that poll
holds is a verdict on its own file, or one that names no file, and after the alert
one with its outcome. `Kept`: what was, is or will be current is archived, and a
poll that completes a published pass has its receipt in Drive, which is what
`SuccessHasEvidence` needs. `Blameless`: a poll about to write its diagnostic that
is not `blind` has no terminal artifact before it, whatever the other poll did
since it looked (`BlamelessStep`), which is what `TerminalLostOnlyInRace` needs.
`Reserved` and `Consonant`: nothing about a
file is archived before the poll that works on it does so, and then nothing that
contradicts a pass. `Collect` is proved to pass the whole scope and nothing else,
to keep to the request budget and to publish no price when it fails. Those three
theorems speak of the rows after the batches were put one after another;
`VerdictOfWholeScope` of the reply as it came. Its lemmas say what that flattening
does: it exists and joins neighbours (`JoinExists`, `FlattenTyped`), as many rows
as symbols that name all of them name each once (`CoversOnce`). In which batch a row
came is not part of the verdict, as in the code.

*Evidence and bars.* `EvidenceInv`: the rows of an audit are events that had
happened (`Real`), and whatever a source that answered would write into the
mapping is true (`Vouched`), so that merging, retaining and falling back cannot
make it false. `StoreInv`: the bars since the last full download are those of one
day, which showed every event that the lineage knows (`OneDay`). A short download
that overlaps the file, shows no unknown event and changes no basis adjusts every
kept bar as before (`KeptBarsAgree`); this is where the lateness of at most a day
is used. This proof found that two guards of a `CASE` in `SourceOf` overlapped, which left
the value of a failed halt search open; the definition now says what the code
does.

*Collector.* `Memory`: what the run's copies hold of a symbol it has not collected
is what Drive holds or nothing, and of a collected one is of today. `Stories`: an
entry fits its record or the symbol was retired since. `Agreement`: the same for
the two files of a group, but for a symbol that has attempts left.

*Producer.* `Alone`: live runs are of different groups. `Counted`: the step of a run
says how many requests it has sent. `Claims`: a run that may send requests has
its key in the cache or among the lost ones, and while it moves from the lookup
to the save, any other claim of that key needs a loss. `Published`: a run about
to publish finds its archive as it left it, because runs beside it have other
keys. *Its rows.* The verdict is unfolded case by case; `SameCount` turns the
counting of publications into uniqueness.

*Bundle.* `FilesInv` and `Vouched`: the ready file is of an earlier dispatch while
one goes on, and what its flag and its step say, the stored files bear out.
`Gathered` and `Nearest`: the map holds the nearest event of the rows read so far
and the statuses name exactly the targets without one. *Regime.* Each part of the
score is least when its bars are missing, and clamping is monotonic. A lower last
close moves an average by less than itself (`SumLowered`, `RoundedShift`), so a
close that is above its average with the lower value was above it before
(`AboveLower`), and one that was near its high stays near it (`NearHighLower`).
*Sessions.* A refresh uploads the surveillance before the mapping, and the queue of
pending uploads never holds them in another order (`Queues`).

*Reservations.* `Reservation` is implemented three times, by different means. The
mapping is the same: who may ask now, every question sent, the successes on record,
and the keys the cache lost (none for files). In each proof one lemma says what a
step of one process does to the set of those admitted (`EnteredStep`), one that
any other step only keeps or gives up an admission (`QuietStep`, `PromiseQuiet`,
`QuietRun`), and one lemma per step that matters maps it to its abstract action.
Admission is where the invariants are needed: `Marked` says of a producer that
finds no sentinel that nobody asked for the date, `Owned` the same of the poll that
takes the sentinel of a file, and `Claims` of the run that found no key in the
cache, unless the cache lost a call on it. `Judgement` and `Opened` then say that
whoever confirms a success has asked. The producers' reservation is a shared one
because two workflows on different hosts may both read the Drive sentinel before
either writes it (section 4); the other two are exclusive.

### Only model-checked

- The liveness properties `EveryRunConcludes` and `AdmittedRunReports`: fairness
  and `ENABLED` are beyond the prover.
- The four findings, which are violations.

Where a theorem rests on what a fold or a flattening computes, the induction is
done for that one function, by its least counterexample (`Least` in
`DailyJobProofs`, the order of the numbers in `TossHandoffProofs`): the library's
induction theorems take an operator as a parameter.

## 6. Findings

- **An assist event can end a queued Stage3 run.** All events share one group,
  which holds one pending run; a newer run replaces it whatever its event. The
  design says an assist event must not cancel daily or OHLCV
  (`docs/superpowers/specs/2026-10-30-harvester-hybrid-schedule-design.md:68`).
  It does not cancel a *running* one, but it ends a
  pending Stage3 run, and in the same way a pending daily one.
- **A re-run writes a result.** The finish phase compares the frozen proof's
  `runAttempt`, which stays 1, with 1, and never `GITHUB_RUN_ATTEMPT`. Re-running
  the failed jobs of a run whose finish job was lost writes `result.json` in
  execution 2, where the design (:103, :142) says that a re-run fails closed and
  that a missing result is not retryable.
- **A Toss pass never matches its own Stage3 file.** The collector stores the
  response hashes of the calendar and of the prices, and none for the token
  request; the test for reuse requires all three
  (`toss_shadow_market_data.py:343`). The fixture that checks reuse supplies the
  hash by hand. The sentinel still prevents a second collection, so the reuse of
  README.md:298 is never reached and a later poll reports a held sentinel
  instead.
- **A removed symbol reads as continuously listed.** Each session date is
  refreshed twice; the second observation replaces the first, whose
  `removedSymbols` go with it. README.md:173 says that a removed symbol remains
  unverified for its window.

## 7. What is left out

- Wire forms: JSON, hashes, base64, header parsing, private-file checks. A
  malformed document is a refusal like any other.
- Seconds: every boundary of the contract is a whole minute.
- In the admission, the contents of what is collected: the collector is an
  interval that starts, succeeds or fails; `CollectorRun` looks inside.
- Of a daily record, everything but its update day, its lifecycle state, its
  history mark and its target. Of prices, everything but their basis.
- In `OfficialShadow`, writes that Drive stores after their caller gave up
  (`DriveUpload` has them); there an upload is stored by the time it fails or
  never. A late sentinel could only mark a date as taken. The two
  source families share no file, so one is modelled.
  `ALERT_SUPPRESSED_DUPLICATE` cannot occur: the fingerprint contains the
  window, and a current artifact of the same window comes with its Drive sentinel.
- Drive's listing is taken to show every stored file at once.
- Premium sources are taken to be enabled; benchmarks, which have no evidence,
  and the halt codes other than historical ones are left out of `market_evidence`.
- The Toss collection inside the daily run, which `main.yml` switches off; the
  capability probe is switched off there too, but modelled.
- SEC/FINRA parsers, macro and BLS probes, the Notion page, Telegram routing:
  sequential requests or formatting without state that anything reads back.
- Components without a module, and why, are in `PROJECT.json`.

## 8. Plan

Done: the admission, the Mac sender and their composition, Drive, the SHADOW
producers and the Toss probe, the collector with the symbol lifecycle, the evidence
with bars and surveillance, the SEC producer, the Toss hand-off, the Stage4 bundle;
an abstract specification of the reservations that the SHADOW producers, the SEC
producer and the Toss poll have in common; and a theorem for each of the safety
invariants, action properties and refinements.

Next:

- Proofs: type correctness of the modules whose invariant types only what its
  argument needs.
- The evidence for splits that are published more than a day late, for which
  `OneBasisAfterEachSync` would need what the code does not check.
- The summaries of the target lineage over all records.
