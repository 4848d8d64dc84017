-------------------------- MODULE FinancialLineage --------------------------
(***************************************************************************)
(* The three workflows that run the Stage0 SEC lineage producer, and       *)
(* run_bounded_producer itself.  Each looks its reservation up in the      *)
(* Actions cache, writes a sentinel on its fresh runner, saves it to the   *)
(* cache, and only then sends the three SEC requests; the evidence goes to *)
(* an archive and to the current artifact in Drive, and the sentinel on    *)
(* the runner is closed.  The daily job and the current-window recovery    *)
(* exclude each other but keep separate reservations; the bounded one-shot *)
(* excludes only itself and has one reservation for all time.              *)
(*                                                                         *)
(* A run may end at any point.  A lookup or a save that the cache service  *)
(* loses is a warning to the workflow: a lost lookup reads as a miss.      *)
(***************************************************************************)
EXTENDS Integers, FiniteSets

CONSTANTS
  Runs,
  LastWindow,  \* bound: New York dates 1..LastWindow
  MaxFaults    \* bound: faults (lost cache calls, failed steps, dead runs)

ASSUME WindowsAssumption == LastWindow \in Nat \ {0}

Kinds == {"scheduled", "recovery", "oneshot"}

VARIABLES
  today,     \* the New York date
  kind,      \* per run: its workflow
  step,      \* per run: its next step
  window,    \* per run: its collection window, 0 before it is prepared
  sentinel,  \* per run: the sentinel on its runner
  sent,      \* per run: SEC requests sent
  status,    \* per run: the producer's status
  reserved,  \* the cache: keys of the reservations it holds
  archives,  \* Drive: archived artifacts, name |-> the run that wrote it last, as pairs
  current,   \* Drive: the run that wrote the current artifact last, or none
  faults,    \* count of faults so far
  lost,      \* history: keys of which the cache lost a lookup or a save
  held       \* history: runs whose artifact has been both archived and current

lineageVars == <<today, kind, step, window, sentinel, sent, status, reserved,
                 archives, current, faults, lost, held>>
drive == <<archives, current, held>>
cache == <<reserved, lost>>

Over == {"skipped", "exited", "dead"}
Live(r) == step[r] \notin {"new"} \cup Over
Fault(n) == faults + n <= MaxFaults /\ faults' = faults + n
Goto(r, to) == step' = [step EXCEPT ![r] = to]

\* The concurrency group: the daily job and the recovery share one.
Excludes(a, b) == (a = "oneshot") <=> (b = "oneshot")

\* recurring_collection_key: of the window alone.  PRODUCER_COLLECTION_KEY for the one-shot.
CollectionKey(r) == IF kind[r] = "oneshot" THEN 0 ELSE window[r]

\* Mutant: the cache key of the workflow names the run
PerRunKey(r) == <<kind[r], CollectionKey(r), r>>
\* The cache key: a prefix of the workflow and the collection key.
ReservationKey(r) == <<kind[r], CollectionKey(r)>>

-----------------------------------------------------------------------------
Init ==
  /\ today = 1
  /\ kind \in [Runs -> Kinds]
  /\ step = [r \in Runs |-> "new"] /\ window = [r \in Runs |-> 0]
  /\ sentinel = [r \in Runs |-> "none"] /\ sent = [r \in Runs |-> 0]
  /\ status = [r \in Runs |-> "none"]
  /\ reserved = {} /\ archives = {} /\ current = "none"
  /\ faults = 0 /\ lost = {} /\ held = {}

NextDate ==
  /\ today < LastWindow
  /\ today' = today + 1
  /\ UNCHANGED <<kind, step, window, sentinel, sent, status, cache, drive, faults>>

\* A run gets its group and computes its window.
Prepare(r) ==
  /\ step[r] = "new"
  /\ \A q \in Runs : Live(q) => ~Excludes(kind[q], kind[r])
  /\ window' = [window EXCEPT ![r] = today]
  /\ Goto(r, "lookup")
  /\ UNCHANGED <<today, kind, sentinel, sent, status, cache, drive, faults>>

\* A hit ends the run: skipped, reported as already reserved, or rejected.
Lookup(r) ==
  /\ step[r] = "lookup"
  /\ \/ /\ Goto(r, IF ReservationKey(r) \in reserved THEN "skipped" ELSE "reserve")
        /\ UNCHANGED <<lost, faults>>
     \/ /\ Fault(1)
        /\ Goto(r, "reserve")
        /\ lost' = lost \cup {ReservationKey(r)}
  /\ UNCHANGED <<today, kind, window, sentinel, sent, status, reserved, drive>>

\* reserve_producer on a fresh runner.
Reserve(r) ==
  /\ step[r] = "reserve"
  /\ sentinel' = [sentinel EXCEPT ![r] = "IN_PROGRESS"]
  /\ Goto(r, "save")
  /\ UNCHANGED <<today, kind, window, sent, status, cache, drive, faults>>

\* A key that exists already, or a save that is lost, does not fail the step.
Save(r) ==
  /\ step[r] = "save"
  /\ \/ /\ reserved' = reserved \cup {ReservationKey(r)}
        /\ UNCHANGED <<lost, faults>>
     \/ /\ Fault(1)
        /\ lost' = lost \cup {ReservationKey(r)}
        /\ UNCHANGED reserved
  /\ Goto(r, "read")
  /\ UNCHANGED <<today, kind, window, sentinel, sent, status, drive>>

\* Without its contact address the producer raises before it looks at anything.
Refuse(r) ==
  /\ step[r] = "read"
  /\ Fault(1)
  /\ Goto(r, "exited")
  /\ UNCHANGED <<today, kind, window, sentinel, sent, status, cache, drive>>

Fails(r) == Fault(1) /\ status' = [status EXCEPT ![r] = "RUNTIME_FAILURE"] /\ Goto(r, "finish")

\* The 26 daily and history files of Drive and the identity map, all or nothing.
ReadSources(r) ==
  /\ step[r] = "read"
  /\ \/ Goto(r, "request") /\ UNCHANGED <<status, faults>>
     \/ Fails(r)
  /\ UNCHANGED <<today, kind, window, sentinel, sent, cache, drive>>

\* The ticker map, the company facts, the submissions: no request is repeated.
Request(r) ==
  /\ step[r] = "request"
  /\ sent' = [sent EXCEPT ![r] = @ + 1]
  /\ \/ Goto(r, IF sent'[r] = 3 THEN "build" ELSE "request") /\ UNCHANGED <<status, faults>>
     \/ Fails(r)
  /\ UNCHANGED <<today, kind, window, sentinel, cache, drive>>

\* build_lineage_artifact: the status of the rows, or a contract error.
ProducerStatus(verified, requests) ==
  CASE ~verified                  -> "NO_VERIFIED_ROWS"
    [] verified /\ requests # 3 -> "REQUEST_BUDGET_INVALID"
    [] verified /\ requests = 3 -> "PASS"

Build(r) ==
  /\ step[r] = "build"
  /\ \/ /\ \E verified \in BOOLEAN :
             status' = [status EXCEPT ![r] = ProducerStatus(verified, sent[r])]
        /\ Goto(r, "archive")
        /\ UNCHANGED faults
     \/ Fails(r)
  /\ UNCHANGED <<today, kind, window, sentinel, sent, cache, drive>>

-----------------------------------------------------------------------------
(* persist_shadow_artifact: an archive named for the status and the collection key, *)
(* then the current artifact.  A failed upload may have been stored.                *)

ArchiveName(r) == <<status[r], CollectionKey(r)>>
Archived(r) == {a \in archives : a[1] # ArchiveName(r)} \cup {<<ArchiveName(r), r>>}
NotPublished(r) == status' = [status EXCEPT ![r] = "PERSISTENCE_FAILURE"] /\ Goto(r, "finish")

Archive(r) ==
  /\ step[r] = "archive"
  /\ \/ archives' = Archived(r) /\ Goto(r, "publish") /\ UNCHANGED <<status, faults>>
     \/ Fault(1) /\ archives' \in {archives, Archived(r)} /\ NotPublished(r)
  /\ UNCHANGED <<today, kind, window, sentinel, sent, current, held, cache>>

Publish(r) ==
  /\ step[r] = "publish"
  /\ \/ current' = r /\ Goto(r, "finish") /\ UNCHANGED <<status, faults>>
     \/ Fault(1) /\ current' \in {current, r} /\ NotPublished(r)
  /\ held' = IF current' = r /\ <<ArchiveName(r), r>> \in archives THEN held \cup {r} ELSE held
  /\ UNCHANGED <<today, kind, window, sentinel, sent, archives, cache>>

\* Mutant: the sentinel is closed with the verdict on the rows, not on the publication
ClosedAs(r) == IF sent[r] = 3 /\ status[r] # "NO_VERIFIED_ROWS" THEN "COMPLETE" ELSE "FAILED"
TerminalStatus(r) == IF status[r] = "PASS" THEN "COMPLETE" ELSE "FAILED"

\* The safe aggregate and finish_collection_sentinel; the exit code is left out.
Finish(r) ==
  /\ step[r] = "finish"
  /\ sentinel' = [sentinel EXCEPT ![r] = TerminalStatus(r)]
  /\ Goto(r, "exited")
  /\ UNCHANGED <<today, kind, window, sent, status, cache, drive, faults>>

\* A cancelled or timed-out job; an exception the producer does not catch.
Dies(r) ==
  /\ Live(r)
  /\ Fault(1)
  /\ Goto(r, "dead")
  /\ UNCHANGED <<today, kind, window, sentinel, sent, status, cache, drive>>

Next ==
  \/ NextDate
  \/ \E r \in Runs :
       \/ Prepare(r) \/ Lookup(r) \/ Reserve(r) \/ Save(r)
       \/ Refuse(r) \/ ReadSources(r) \/ Request(r) \/ Build(r)
       \/ Archive(r) \/ Publish(r) \/ Finish(r) \/ Dies(r)

Spec == Init /\ [][Next]_lineageVars

-----------------------------------------------------------------------------
TypeOK ==
  /\ today \in 1..LastWindow
  /\ kind \in [Runs -> Kinds]
  /\ step \in [Runs -> Over \cup {"new", "lookup", "reserve", "save", "read", "request",
                                  "build", "archive", "publish", "finish"}]
  /\ window \in [Runs -> 0..LastWindow]
  /\ sentinel \in [Runs -> {"none", "IN_PROGRESS", "COMPLETE", "FAILED"}]
  /\ sent \in [Runs -> 0..3]
  /\ current \in Runs \cup {"none"}

(* However often a job is started again, whatever step it dies at and whenever the *)
(* date turns, one reservation is spent on one run: of two runs of a workflow in a *)
(* window only one sends requests, unless the cache lost a call on that key.       *)
ReservationIsSpentOnce ==
  \A q, r \in Runs :
    /\ q # r /\ sent[q] > 0 /\ sent[r] > 0
    /\ kind[q] = kind[r] /\ CollectionKey(q) = CollectionKey(r)
    => \E k \in lost : k[1] = kind[r] /\ k[2] = CollectionKey(r)

(* A sentinel that says COMPLETE vouches for the publication, not for the rows:    *)
(* its run's artifact passed, was archived and has been the current one, although  *)
(* uploads fail after they were stored and runs of other workflows overwrite both. *)
(* What is current in Drive came from a run that sent all three requests.          *)
CompleteMeansPublished ==
  /\ \A r \in Runs : sentinel[r] = "COMPLETE" => r \in held /\ status[r] = "PASS"
  /\ current # "none" => sent[current] = 3
=============================================================================
