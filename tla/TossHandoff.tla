---------------------------- MODULE TossHandoff ----------------------------
(***************************************************************************)
(* The same-Stage3 hand-off of harvester.py: a stage3_completed run        *)
(* publishes COLLECTION_PROGRESS.json for the Stage3 file it was triggered *)
(* with, and while that says PROCESSING a poll of the Mac collector        *)
(* (--toss-shadow-collector) may collect Toss quotes for exactly that      *)
(* file: it reserves a local sentinel, looks at the hand-off again before  *)
(* the network, before publishing and before storing the alert receipt,    *)
(* archives, publishes, alerts and completes the sentinel.  A poll that    *)
(* does not collect looks at the local artifact of the Mac and then writes *)
(* its diagnostic there, unless there is something to keep.                *)
(*                                                                         *)
(* Polls may overlap and may end at any point: nothing but the sentinel is *)
(* locked, and what a poll has read may be replaced before it writes.  A   *)
(* write of the local file is one step, and may fail.                      *)
(*                                                                         *)
(* A dispatch preempts the dispatch before it (main.yml concurrency) and   *)
(* may die; a Stage3 file may be rewritten under its name; an upload that  *)
(* fails may or may not have been stored.  A Stage3 file stands for its    *)
(* name, hash and scope.                                                   *)
(***************************************************************************)
EXTENDS TossQuotes

CONSTANTS
  Stage3,         \* Stage3 files that a dispatch may name
  RowsOf,         \* Stage3 file |-> the symbols of its rows, as listed
  Pollers,        \* polls of the collector that may overlap
  Replies,        \* what the provider may do to a collection
  NoStage3,       \* names no Stage3 file
  Unreadable,     \* TRUE: the local file may fail to be read
  MaxDispatches,  \* bound: stage3_completed runs
  MaxPolls,       \* bound: polls of the collector
  MaxRewrites     \* bound: Stage3 files rewritten

ASSUME HandoffBounds ==
  /\ MaxDispatches \in Nat /\ MaxPolls \in Nat /\ MaxRewrites \in Nat
  /\ NoStage3 \notin Stage3 /\ Unreadable \in BOOLEAN
  /\ RowsOf \in [Stage3 -> Seq(Int) \ {<<>>}]

VARIABLES
  progress,    \* COLLECTION_PROGRESS.json: its status and trigger
  run,         \* the dispatch run: its step and trigger
  intact,      \* Stage3 files that still have the content of their dispatch
  dispatches,  \* stage3_completed runs so far
  polls,       \* polls of the collector so far
  shadow,      \* TOSS_MARKET_DATA_SHADOW.json, or none
  archive,     \* archived shadows
  local,       \* HARVESTER_TOSS_SHADOW_PATH of the Mac, or none
  sentinel,    \* per Stage3 file: its sentinel on the Mac
  poll,        \* per poller: step, Stage3 file, shadows it read, result, ...
  collected,   \* history: per Stage3 file, collections that sent a request
  receipts,    \* history: shadows stored in Drive with the outcome of their alert
  blind        \* history: polls about to write the local file that could not read
               \* it, or read it before the terminal artifact there was stored

drive == <<progress, run, intact, dispatches, polls>>
remote == <<shadow, archive, receipts>>
artifact == <<local, blind>>
evidence == <<remote, artifact, sentinel, collected>>
vars == <<drive, evidence, poll>>

Absent   == [src |-> NoStage3, status |-> "none", alert |-> "none"]
NotRun   == [src |-> NoStage3, status |-> "NOT_RUN", alert |-> "NONE"]
Idle     == [at |-> "idle", src |-> NoStage3, nested |-> FALSE, first |-> Absent,
             prev |-> Absent, result |-> Absent, published |-> FALSE]

\* A poll that has not reserved a sentinel, or does not collect
Outside  == {"idle", "previous", "again", "reserve", "look", "write"}
\* A poll that holds a sentinel
Inside   == {"window", "network", "publish", "archive", "current", "alert",
             "receipt", "store", "finish"}

Statuses == {"NOT_RUN", PassStatus} \cup FailureStatuses
Alerts   == {"PENDING", "NONE", "TRIED", "SUPPRESSED"}
Shadows  == [src : Stage3 \cup {NoStage3}, status : Statuses, alert : Alerts]

TypeOK ==
  /\ progress \in [status : {"none", "PROCESSING", "COMPLETED"}, src : Stage3 \cup {NoStage3}]
  /\ run \in [at : {"idle", "accepted", "collecting"}, src : Stage3 \cup {NoStage3}]
  /\ intact \subseteq Stage3
  /\ dispatches \in 0..MaxDispatches /\ polls \in 0..MaxPolls
  /\ shadow \in Shadows \cup {Absent}
  /\ archive \subseteq Shadows
  /\ local \in Shadows \cup {Absent}
  /\ sentinel \in [Stage3 -> {"none", "IN_PROGRESS", "SUCCESS", "FAILED"}]
  /\ poll \in [Pollers -> [at : Outside \cup Inside, src : Stage3 \cup {NoStage3},
                           nested : BOOLEAN, first : Shadows \cup {Absent},
                           prev : Shadows \cup {Absent}, result : Shadows \cup {Absent},
                           published : BOOLEAN]]
  /\ collected \in [Stage3 -> Nat] /\ receipts \subseteq Shadows /\ blind \subseteq Pollers

Init ==
  /\ progress = [status |-> "none", src |-> NoStage3]
  /\ run = [at |-> "idle", src |-> NoStage3]
  /\ intact = Stage3 /\ dispatches = 0 /\ polls = 0
  /\ shadow = Absent /\ archive = {} /\ local = Absent
  /\ sentinel = [s \in Stage3 |-> "none"]
  /\ poll = [p \in Pollers |-> Idle]
  /\ collected = [s \in Stage3 |-> 0] /\ receipts = {} /\ blind = {}
-----------------------------------------------------------------------------
(* The dispatch run.  It checks the content of its trigger against the     *)
(* hash of the event before it publishes anything; a mismatch is fatal and *)
(* leaves no trace.  A new run preempts the one before it.                 *)

(* validate_dispatch_stage3_content: the bytes have the hash that was      *)
(* announced for them; a later dispatch announces a rewritten file anew,   *)
(* which is another Stage3 file here.                                      *)
HashMatches(s) == s \in intact

Dispatch(s) ==
  /\ dispatches < MaxDispatches
  /\ HashMatches(s)
  /\ run' = [at |-> "accepted", src |-> s]
  /\ dispatches' = dispatches + 1
  /\ UNCHANGED <<progress, intact, evidence, poll, polls>>

UpdateProgress(step, next, status) ==
  /\ run.at = step
  /\ progress' = [status |-> status, src |-> run.src]
  /\ run' = next
  /\ UNCHANGED <<intact, dispatches, evidence, poll, polls>>

PublishProcessing ==
  UpdateProgress("accepted", [run EXCEPT !.at = "collecting"], "PROCESSING")

PublishCompleted ==
  UpdateProgress("collecting", [at |-> "idle", src |-> NoStage3], "COMPLETED")

DispatchDies ==
  /\ run.at # "idle"
  /\ run' = [at |-> "idle", src |-> NoStage3]
  /\ UNCHANGED <<progress, intact, dispatches, evidence, poll, polls>>

\* Only a file that was announced: one rewritten before that is another file
Rewrite(s) ==
  /\ s \in intact \cap {run.src, progress.src}
  /\ Cardinality(Stage3 \ intact) < MaxRewrites
  /\ intact' = intact \ {s}
  /\ UNCHANGED <<progress, run, dispatches, evidence, poll, polls>>
-----------------------------------------------------------------------------
(* build_stage3_request_scope: the content is the expected one, every row  *)
(* has a symbol that can be asked for, and no symbol is listed twice.  The *)
(* dispatch does not insist on it: it may announce a file without a scope. *)
VerifiedScope(s) ==
  /\ HashMatches(s)
  /\ ToSet(RowsOf[s]) \subseteq DOMAIN ProviderName
  /\ IsInjective(RowsOf[s])

(* The Stage3 file whose scope load_stage3_shadow_handoff_scope verifies.  *)
HandoffScope ==
  IF progress.status = "PROCESSING" /\ VerifiedScope(progress.src)
  THEN progress.src ELSE NoStage3

Open(s) == s # NoStage3 /\ HandoffScope = s

(* The response hashes a reusable shadow must carry, and those that the    *)
(* collector stores.                                                       *)
RequiredHashes == {"oauth", "marketCalendar", "prices"}
StoredHashes   == {"marketCalendar", "prices"}

MatchesStage3(r, s) ==
  r.status = PassStatus /\ r.src = s /\ RequiredHashes \subseteq StoredHashes

Terminal(r) == r.status = PassStatus \/ r.status \in FailureStatuses

Goto(p, step) == poll' = [poll EXCEPT ![p].at = step]
Judged(p, step, result) == poll' = [poll EXCEPT ![p].at = step, ![p].result = result]
End(p) == poll' = [poll EXCEPT ![p] = Idle]

(* write_json_report: the local file is replaced as a whole.  A poll that  *)
(* has looked at it and has yet to write does not learn of this.           *)
SaveLocal(p, r) ==
  /\ local' = r
  /\ blind' = {q \in Pollers \ {p} :
                 /\ poll[q].at = "write"
                 /\ q \in blind \/ (~Terminal(local) /\ Terminal(r))}

MaySaveLocal(p, r) == SaveLocal(p, r) \/ UNCHANGED artifact

(* _persist_toss_collector_result for a poll that did not collect.  It     *)
(* looks at the local file, and what it saw and the shadow `prev' that it  *)
(* read in Drive say whether it writes, and what.  A poll that got as far  *)
(* as ensure_toss_shadow_market_data (nested) does so there, with the      *)
(* shadow read there, and again in run_toss_same_stage3_collector, with    *)
(* the shadow that was read first.                                         *)
Persist(p, nested, prev, result) ==
  poll' = [poll EXCEPT ![p] =
    [Idle EXCEPT !.at = "look", !.nested = nested,
                 !.first = IF nested THEN poll[p].first ELSE Absent,
                 !.prev = prev, !.result = result]]

PersistAgain(p) ==
  IF poll[p].nested THEN Persist(p, FALSE, poll[p].first, poll[p].result) ELSE End(p)

(* A poll that meets an exception before the network announces it and      *)
(* writes it as a no-op does, with no shadow to restore.                   *)
DriveFailure == [src |-> NoStage3, status |-> "TRANSIENT", alert |-> "TRIED"]
FailOpen(p) == Persist(p, FALSE, Absent, DriveFailure)

\* Mutant: only the copy of what is in Drive is kept
PreservedCopy(prev, seen) == Terminal(seen) /\ seen = prev

Preserved(prev, seen) == Terminal(seen) /\ (Terminal(prev) => seen = prev)

Replacement(prev, result) == IF Terminal(prev) THEN prev ELSE result

(* A file that cannot be read or parsed counts as absent. *)
LookLocal(p) ==
  /\ poll[p].at = "look"
  /\ \E seen \in {local} \cup IF Unreadable THEN {Absent} ELSE {} :
       /\ IF Preserved(poll[p].prev, seen) THEN PersistAgain(p) ELSE Goto(p, "write")
       /\ blind' = IF seen = local THEN blind \ {p} ELSE blind \cup {p}
  /\ UNCHANGED <<drive, remote, local, sentinel, collected>>

WriteLocal(p) ==
  /\ poll[p].at = "write"
  /\ \/ SaveLocal(p, Replacement(poll[p].prev, poll[p].result)) /\ PersistAgain(p)
     \/ UNCHANGED artifact /\ IF poll[p].nested THEN FailOpen(p) ELSE End(p)
  /\ UNCHANGED <<drive, remote, sentinel, collected>>

ReadHandoff(p) ==
  /\ poll[p].at = "idle" /\ polls < MaxPolls
  /\ \E scope \in {HandoffScope, NoStage3} :   \* a file or its scope may be missing
       poll' = [poll EXCEPT ![p].at = "previous", ![p].src = scope]
  /\ polls' = polls + 1
  /\ UNCHANGED <<progress, run, intact, dispatches, evidence>>

(* Reads the stored shadow.  Without a verified scope, or with a shadow to *)
(* reuse, the poll is a no-op.                                             *)
ReadPrevious(p) ==
  /\ poll[p].at = "previous"
  /\ LET s == poll[p].src
     IN  IF s = NoStage3 \/ MatchesStage3(shadow, s)
         THEN Persist(p, FALSE, shadow, IF s = NoStage3 THEN NotRun ELSE shadow)
         ELSE poll' = [poll EXCEPT ![p].at = "again", ![p].first = shadow]
  /\ UNCHANGED <<drive, evidence>>

(* A poll whose provider gates are off ends here, and writes its           *)
(* diagnostic without a look at what is there.                             *)
Disabled(p) ==
  /\ poll[p].at = "again"
  /\ MaySaveLocal(p, NotRun)
  /\ End(p)
  /\ UNCHANGED <<drive, remote, sentinel, collected>>

(* ensure_toss_shadow_market_data reads the stored shadow once more. *)
ReadAgain(p) ==
  /\ poll[p].at = "again"
  /\ IF MatchesStage3(shadow, poll[p].src) THEN Persist(p, TRUE, shadow, shadow)
     ELSE poll' = [poll EXCEPT ![p].at = "reserve", ![p].prev = shadow]
  /\ UNCHANGED <<drive, evidence>>

\* Mutant: a failed sentinel is taken over
HeldUnlessFailed(s) == sentinel[s] \notin {"none", "FAILED"}

(* finish_same_stage3_sentinel, which may fail and leave the sentinel.     *)
Completed(s, status) ==
  IF sentinel[s] = "IN_PROGRESS" THEN [sentinel EXCEPT ![s] = status] ELSE sentinel

\* The exclusive create finds a sentinel
Held(s) == sentinel[s] # "none"

(* Reserves the sentinel; with one of this Stage3 file already there, the  *)
(* poll is a no-op.                                                        *)
Reserve(p) ==
  /\ poll[p].at = "reserve"
  /\ IF Held(poll[p].src)
     THEN Persist(p, TRUE, poll[p].prev, NotRun) /\ UNCHANGED sentinel
     ELSE sentinel' = [sentinel EXCEPT ![poll[p].src] = "IN_PROGRESS"] /\ Goto(p, "window")
  /\ UNCHANGED <<drive, remote, artifact, collected>>

(* A window that cannot be read counts as closed.  Once the network is     *)
(* reached the shadow that was read first is of no use.                    *)
InspectBeforeNetwork(p) ==
  /\ poll[p].at = "window"
  /\ \/ /\ Open(poll[p].src)
        /\ poll' = [poll EXCEPT ![p].at = "network", ![p].first = Absent]
        /\ UNCHANGED sentinel
     \/ /\ sentinel' \in {sentinel, Completed(poll[p].src, "FAILED")}
        /\ Persist(p, TRUE, poll[p].prev, NotRun)
  /\ UNCHANGED <<drive, remote, artifact, collected>>

(* The result is written to the local file, which may fail. *)
Assess(p, result) ==
  /\ Judged(p, "publish", result)
  /\ MaySaveLocal(p, result)

(* The collector's capability must have passed and its secrets be there;   *)
(* otherwise the result is a failure that names no Stage3 file.            *)
CapabilityMissing(p) ==
  /\ poll[p].at = "network"
  /\ Assess(p, [src |-> NoStage3, status |-> "AUTH_BLOCKED", alert |-> "PENDING"])
  /\ UNCHANGED <<drive, remote, sentinel, collected>>

Network(p) ==
  /\ poll[p].at = "network"
  /\ \E reply \in Replies :
       LET s == poll[p].src
           c == Collect(ToSet(RowsOf[s]), reply)
       IN  /\ collected' = [collected EXCEPT ![s] = @ + IF c.sent > 0 THEN 1 ELSE 0]
           /\ Assess(p, [src |-> s, status |-> c.status, alert |-> "PENDING"])
  /\ UNCHANGED <<drive, remote, sentinel>>

(* A Drive read that fails before the network leaves the sentinel behind. *)
ReadFails(p) ==
  /\ poll[p].at \in {"previous", "again", "network"}
  /\ FailOpen(p)
  /\ UNCHANGED <<drive, evidence>>

InspectBeforePublish(p) ==
  /\ poll[p].at = "publish"
  /\ \/ Open(poll[p].src) /\ Goto(p, "archive")
     \/ Judged(p, "alert", [poll[p].result EXCEPT !.status = "STALE_OR_PARTIAL"])
  /\ UNCHANGED <<drive, evidence>>

PublishFails(p) ==
  Judged(p, "alert", [poll[p].result EXCEPT !.status = "TRANSIENT"])

\* Mutant: the new shadow is archived only when it is replaced
ArchivePrevious(p) ==
  /\ poll[p].at = "archive"
  /\ archive' = archive \cup ({poll[p].prev} \ {Absent})
  /\ Goto(p, "current")
  /\ UNCHANGED <<drive, shadow, receipts, artifact, sentinel, collected>>

(* publish_toss_shadow_with_archive: the previous shadow and the new one   *)
(* are archived, then the new one replaces the previous one.               *)
Archive(p) ==
  /\ poll[p].at = "archive"
  /\ LET before == IF poll[p].prev = Absent THEN {} ELSE {poll[p].prev}
         both   == before \cup {poll[p].result}
     IN  \/ archive' = archive \cup both /\ Goto(p, "current")
         \/ archive' \in {archive, archive \cup before, archive \cup both} /\ PublishFails(p)
  /\ UNCHANGED <<drive, shadow, receipts, artifact, sentinel, collected>>

PublishCurrent(p) ==
  /\ poll[p].at = "current"
  /\ \/ /\ shadow' = poll[p].result
        /\ poll' = [poll EXCEPT ![p].at = "alert", ![p].published = TRUE]
     \/ shadow' \in {shadow, poll[p].result} /\ PublishFails(p)
  /\ UNCHANGED <<drive, archive, receipts, artifact, sentinel, collected>>

(* dispatch_toss_shadow_alert: a failure is announced unless the shadow    *)
(* that was replaced carries the fingerprint of the same one; a pass is    *)
(* announced only as a recovery.  Whether the message was delivered makes  *)
(* no difference here.                                                     *)
Fingerprint(r) == <<r.status, r.src>>

AlertOutcome(result, prev) ==
  IF ~(result.status \in FailureStatuses \/ prev.status \in FailureStatuses)
  THEN "NONE"
  ELSE IF prev.alert \in {"TRIED", "SUPPRESSED"} /\ Fingerprint(prev) = Fingerprint(result)
  THEN "SUPPRESSED" ELSE "TRIED"

\* Without its local copy no receipt is stored
Alert(p) ==
  /\ poll[p].at = "alert"
  /\ LET result == [poll[p].result EXCEPT !.alert = AlertOutcome(poll[p].result, poll[p].prev)]
     IN  \/ /\ SaveLocal(p, result)
           /\ poll' = [poll EXCEPT ![p].at = IF poll[p].published THEN "receipt" ELSE "finish",
                                   ![p].result = result, ![p].published = FALSE]
        \/ /\ UNCHANGED artifact
           /\ poll' = [poll EXCEPT ![p].at = "finish", ![p].result = result,
                                   ![p].published = FALSE]
  /\ UNCHANGED <<drive, remote, sentinel, collected>>

(* persist_toss_shadow_alert_receipt: the shadow is stored again with the  *)
(* outcome of its alert, while the window is still open; the local copy is *)
(* written again with the outcome of that.                                 *)
InspectBeforeReceipt(p) ==
  /\ poll[p].at = "receipt"
  /\ \/ Open(poll[p].src) /\ Goto(p, "store") /\ UNCHANGED artifact
     \/ Goto(p, "finish") /\ MaySaveLocal(p, poll[p].result)
  /\ UNCHANGED <<drive, remote, sentinel, collected>>

StoreReceipt(p) ==
  /\ poll[p].at = "store"
  /\ \/ /\ shadow' = poll[p].result /\ receipts' = receipts \cup {poll[p].result}
        /\ \/ poll' = [poll EXCEPT ![p].at = "finish", ![p].published = TRUE]
           \/ Goto(p, "finish")   \* stored, but the answer was lost
     \/ Goto(p, "finish") /\ UNCHANGED <<shadow, receipts>>
  /\ MaySaveLocal(p, poll[p].result)
  /\ UNCHANGED <<drive, archive, sentinel, collected>>

\* Mutant: whether the receipt was stored is not looked at
SuccessWhenPassed(p) == IF poll[p].result.status = PassStatus THEN "SUCCESS" ELSE "FAILED"

FinalStatus(p) ==
  IF poll[p].result.status = PassStatus /\ poll[p].published THEN "SUCCESS" ELSE "FAILED"

Finish(p) ==
  /\ poll[p].at = "finish"
  /\ sentinel' \in {sentinel, Completed(poll[p].src, FinalStatus(p))}
  /\ MaySaveLocal(p, poll[p].result)
  /\ End(p)
  /\ UNCHANGED <<drive, remote, collected>>

PollDies(p) ==
  /\ poll[p].at # "idle"
  /\ End(p)
  /\ UNCHANGED <<drive, evidence>>

Next ==
  \/ \E s \in Stage3 : Dispatch(s) \/ Rewrite(s)
  \/ PublishProcessing \/ PublishCompleted \/ DispatchDies
  \/ \E p \in Pollers :
       \/ ReadHandoff(p) \/ ReadPrevious(p) \/ Disabled(p) \/ ReadAgain(p) \/ Reserve(p)
       \/ LookLocal(p) \/ WriteLocal(p) \/ InspectBeforeNetwork(p) \/ CapabilityMissing(p)
       \/ Network(p) \/ ReadFails(p)
       \/ InspectBeforePublish(p) \/ Archive(p) \/ PublishCurrent(p) \/ Alert(p)
       \/ InspectBeforeReceipt(p) \/ StoreReceipt(p) \/ Finish(p) \/ PollDies(p)

Spec == Init /\ [][Next]_vars
-----------------------------------------------------------------------------
(* Properties *)

(* Whatever polls overlap, die or repeat, and however often a Stage3 file  *)
(* is dispatched, Toss is asked at most once about it                      *)
(* (reserve_same_stage3_sentinel, kept sentinels).                         *)
OneCollectionPerStage3 == \A s \in Stage3 : collected[s] <= 1

(* The shadow in Drive is in the archive, in the form in which it was      *)
(* published: archiving precedes publication, and only a receipt may be    *)
(* added afterwards, of the same collection                                *)
(* (publish_toss_shadow_with_archive, persist_toss_shadow_alert_receipt).  *)
CurrentIsArchived ==
  shadow # Absent => [shadow EXCEPT !.alert = "PENDING"] \in archive

(* A sentinel that says SUCCESS is backed by evidence: Toss was asked, the *)
(* pass is archived, it was stored in Drive with the outcome of its alert, *)
(* and no failed collection of the file is archived                        *)
(* (complete_same_stage3_sentinel after persist_toss_shadow_alert_receipt).*)
SuccessHasEvidence ==
  \A s \in Stage3 : sentinel[s] = "SUCCESS" =>
    /\ collected[s] = 1
    /\ [src |-> s, status |-> PassStatus, alert |-> "PENDING"] \in archive
    /\ \E r \in receipts : r.src = s /\ r.status = PassStatus /\ r.alert # "PENDING"
    /\ ~ \E r \in archive : r.src = s /\ r.status \in FailureStatuses

(* A poll that did not collect replaces a terminal local artifact only by  *)
(* the terminal shadow it read in Drive, or in a race: by its diagnostic,  *)
(* when it could not read the file, or read it before the artifact was     *)
(* stored.  A poll that looks after the artifact was stored keeps it       *)
(* (_persist_toss_collector_result; a poll whose gates are off does not    *)
(* look).                                                                  *)
TerminalLostOnlyBlindly ==
  [][\A p \in Pollers :
       WriteLocal(p) /\ Terminal(local) /\ local' # local =>
         p \in blind \/ (Terminal(poll[p].prev) /\ local' = poll[p].prev)]_vars

(* README.md:297, "reuses an already matched successful shadow with zero   *)
(* Toss requests": a pass that the collector published for the Stage3 file *)
(* of a poll is one that the poll recognises as matched.                   *)
PublishedPassMatches ==
  \A p \in Pollers :
    poll[p].at = "previous" /\ poll[p].src # NoStage3
    /\ shadow.status = PassStatus /\ shadow.src = poll[p].src
      => MatchesStage3(shadow, poll[p].src)

(* Those who may ask Toss, what was asked, and the files that succeeded. *)
Entered   == {<<p, poll[p].src>> : p \in {p \in Pollers : poll[p].at \in Inside}}
Asked     == UNION {(1..collected[s]) \X {s} : s \in Stage3}
Succeeded == {s \in Stage3 : sentinel[s] = "SUCCESS"}

(* The sentinel of a Stage3 file keeps the promise of an exclusive         *)
(* reservation: a poll is admitted to Toss only while nobody has asked     *)
(* about the file, it asks once, and a success is recorded only by the     *)
(* poll that was admitted, of a file that Toss was asked about             *)
(* (reserve_same_stage3_sentinel, finish_same_stage3_sentinel).            *)
Promise == INSTANCE Reservation WITH
  Askers <- Pollers, Subjects <- Stage3, Questions <- {1}, Shared <- FALSE,
  admitted <- Entered, asked <- Asked, confirmed <- Succeeded, lost <- {}

SentinelKeepsPromise == Promise!Spec
=============================================================================
