--------------------------- MODULE OfficialShadow ---------------------------
(***************************************************************************)
(* _ensure_official_shadow_provider of harvester.py with                   *)
(* official_shadow_runtime.py: how a process of the daily or of the        *)
(* one-shot workflow collects one source family at most once per New York  *)
(* publication date.  It reuses a current artifact, respects a sentinel in *)
(* Drive, reserves a sentinel on its host and one in Drive, and only then  *)
(* sends requests; it publishes the evidence, an archive first.            *)
(*                                                                         *)
(* Processes of one workflow exclude each other, those of two workflows do *)
(* not.  A process may end at any point; an upload that fails may or may   *)
(* not have been stored (DriveUpload).  The two source families share no   *)
(* file, so one of them is modelled.                                       *)
(***************************************************************************)
EXTENDS Integers, FiniteSets

CONSTANTS
  Processes,   \* runs of the producer
  GroupOf,     \* process |-> concurrency group of its workflow
  HostOf,      \* process |-> host holding its sentinel directory
  LastWindow   \* bound: publication dates 1..LastWindow are explored

ASSUME WindowAssumption == LastWindow \in Nat \ {0}

Windows  == 1..LastWindow
Statuses == {"success", "failure"}   \* status in success_statuses, or not

VARIABLES
  today,      \* the New York date
  pc,         \* per process: where it stands
  window,     \* per process: collectionWindow of its contract; 0 before it starts
  result,     \* per process: what its collector, or the artifact it reuses, says
  local,      \* local sentinels: <<host, window>>
  durable,    \* per window: status of the sentinel in Drive
  archives,   \* archived artifacts in Drive: <<status, window>>, their file name
  current,    \* artifacts the current file in Drive has held, the last one; or none
  requested,  \* history: processes that sent provider requests
  alerted,    \* history: processes that tried to send a failure alert
  earlier     \* history: <<q, p>> where q had sent requests before p began

vars == <<today, pc, window, result, local, durable, archives, current,
          requested, alerted, earlier>>

drive == <<durable, archives, current>>

Live == {"current", "sentinel", "reserve", "mark", "network", "collect",
         "finish", "alert", "write", "archive", "publish"}
Over == {"reused", "blocked", "error", "done", "dead"}

Artifacts == [status : Statuses, window : Windows, by : Processes]
NoArtifact == [status |-> "none", window |-> 0]

TypeOK ==
  /\ today \in Windows
  /\ pc \in [Processes -> {"new"} \cup Live \cup Over]
  /\ window \in [Processes -> {0} \cup Windows]
  /\ result \in [Processes -> {"none"} \cup Statuses]
  /\ local \subseteq {HostOf[p] : p \in Processes} \X Windows
  /\ durable \in [Windows -> {"MISSING", "IN_PROGRESS", "COMPLETE", "FAILED"}]
  /\ archives \subseteq Statuses \X Windows
  /\ current \in Artifacts \cup {NoArtifact}
  /\ requested \subseteq Processes
  /\ alerted \subseteq requested
  /\ earlier \subseteq Processes \X Processes

Init ==
  /\ today = 1
  /\ pc = [p \in Processes |-> "new"]
  /\ window = [p \in Processes |-> 0]
  /\ result = [p \in Processes |-> "none"]
  /\ local = {}
  /\ durable = [w \in Windows |-> "MISSING"]
  /\ archives = {}
  /\ current = NoArtifact
  /\ requested = {}
  /\ alerted = {}
  /\ earlier = {}

Goto(p, to) == pc' = [pc EXCEPT ![p] = to]

NextWindow ==
  /\ today < LastWindow
  /\ today' = today + 1
  /\ UNCHANGED <<pc, window, result, local, drive, requested, alerted, earlier>>

Excluded(p) == \E q \in Processes \ {p} : GroupOf[q] = GroupOf[p] /\ pc[q] \in Live

\* build_collection_contract names the window once, at the start
Begin(p) ==
  /\ pc[p] = "new"
  /\ ~Excluded(p)
  /\ window' = [window EXCEPT ![p] = today]
  /\ earlier' = earlier \cup (requested \X {p})
  /\ Goto(p, "current")
  /\ UNCHANGED <<today, result, local, drive, requested, alerted>>

\* classify_existing_artifact: the contract fields name this window
Matches(p) == current.window = window[p]

Reuse(p) ==
  /\ pc[p] = "current"
  /\ Matches(p)
  /\ result' = [result EXCEPT ![p] = current.status]
  /\ Goto(p, "reused")
  /\ UNCHANGED <<today, window, local, drive, requested, alerted, earlier>>

\* No artifact, one of another window, or one that fails the checks of its
\* content (unclassified rows, for one)
NoReuse(p) ==
  /\ pc[p] = "current"
  /\ Goto(p, "sentinel")
  /\ UNCHANGED <<today, window, result, local, drive, requested, alerted, earlier>>

\* find_file_id or download_json raises; both workflows end the producer
ReadError(p) ==
  /\ pc[p] \in {"current", "sentinel"}
  /\ Goto(p, "error")
  /\ UNCHANGED <<today, window, result, local, drive, requested, alerted, earlier>>

\* Mutant: a failed collection may be tried again
RetryFailed(p) == durable[window[p]] \in {"MISSING", "FAILED"}

\* DURABLE_SENTINEL_MISSING
Unclaimed(p) == durable[window[p]] = "MISSING"

CheckSentinel(p) ==
  /\ pc[p] = "sentinel"
  /\ Goto(p, IF Unclaimed(p) THEN "reserve" ELSE "blocked")
  /\ UNCHANGED <<today, window, result, local, drive, requested, alerted, earlier>>

\* The exclusive create succeeds
Creates(p) == <<HostOf[p], window[p]>> \notin local

\* reserve_collection_sentinel
Reserve(p) ==
  /\ pc[p] = "reserve"
  /\ local' = local \cup {<<HostOf[p], window[p]>>}
  /\ Goto(p, IF Creates(p) THEN "mark" ELSE "blocked")
  /\ UNCHANGED <<today, window, result, drive, requested, alerted, earlier>>

-----------------------------------------------------------------------------
(* upload_json as a caller sees it: what was stored, and whether it raised. *)

Uploads == {[stored |-> TRUE, ok |-> TRUE], [stored |-> TRUE, ok |-> FALSE],
            [stored |-> FALSE, ok |-> FALSE]}

SetSentinel(p, u, status) ==
  durable' = IF u.stored THEN [durable EXCEPT ![window[p]] = status] ELSE durable

\* An unacknowledged reservation ends the process, DURABLE_SENTINEL_RESERVATION_FAILED
Mark(p) ==
  /\ pc[p] = "mark"
  /\ \E u \in Uploads :
       /\ SetSentinel(p, u, "IN_PROGRESS")
       /\ Goto(p, IF u.ok THEN "network" ELSE "blocked")
  /\ UNCHANGED <<today, window, result, local, archives, current, requested, alerted, earlier>>

\* The collector's first request leaves
Request(p) ==
  /\ pc[p] = "network"
  /\ requested' = requested \cup {p}
  /\ Goto(p, "collect")
  /\ UNCHANGED <<today, window, result, local, drive, alerted, earlier>>

\* The collector returns its evidence; an exception becomes failure evidence
Collected(p) ==
  /\ pc[p] = "collect"
  /\ \E s \in Statuses : result' = [result EXCEPT ![p] = s]
  /\ Goto(p, "finish")
  /\ UNCHANGED <<today, window, local, drive, requested, alerted, earlier>>

Terminal(p) == IF result[p] = "success" THEN "COMPLETE" ELSE "FAILED"

\* The sentinels become terminal, the local one first.  A failure of either
\* (SENTINEL_COMPLETION_FAILED) leaves the one in Drive as it is, or stored
\* without an answer; the process goes on.
Finish(p) ==
  /\ pc[p] = "finish"
  /\ \E u \in Uploads : SetSentinel(p, u, Terminal(p))
  /\ Goto(p, "alert")
  /\ UNCHANGED <<today, window, result, local, archives, current, requested, alerted, earlier>>

\* Mutant: no alert once the sentinel says FAILED
AlertUnlessMarked(p) == result[p] = "failure" /\ durable[window[p]] # "FAILED"

\* The fingerprint holds the window, and a current artifact of this window has
\* its sentinel in Drive: ALERT_SUPPRESSED_DUPLICATE does not arise
NeedsAlert(p) == result[p] = "failure"

\* dispatch_official_shadow_alert, whatever becomes of the message
Alert(p) ==
  /\ pc[p] = "alert"
  /\ alerted' = IF NeedsAlert(p) THEN alerted \cup {p} ELSE alerted
  /\ Goto(p, "write")
  /\ UNCHANGED <<today, window, result, local, drive, requested, earlier>>

\* persist_shadow_artifact: the local file; LOCAL_WRITE_FAILED ends it
WriteLocal(p) ==
  /\ pc[p] = "write"
  /\ \E ok \in BOOLEAN : Goto(p, IF ok THEN "archive" ELSE "done")
  /\ UNCHANGED <<today, window, result, local, drive, requested, alerted, earlier>>

\* DRIVE_PUBLISH_FAILED ends it
Archive(p) ==
  /\ pc[p] = "archive"
  /\ \E u \in Uploads :
       /\ archives' = IF u.stored THEN archives \cup {<<result[p], window[p]>>} ELSE archives
       /\ Goto(p, IF u.ok THEN "publish" ELSE "done")
  /\ UNCHANGED <<today, window, result, local, durable, current, requested, alerted, earlier>>

Publish(p) ==
  /\ pc[p] = "publish"
  /\ \E u \in Uploads :
       current' = IF u.stored THEN [status |-> result[p], window |-> window[p], by |-> p]
                              ELSE current
  /\ Goto(p, "done")
  /\ UNCHANGED <<today, window, result, local, durable, archives, requested, alerted, earlier>>

\* Cancelled, timed out, or its runner lost
Crash(p) ==
  /\ pc[p] \in Live
  /\ Goto(p, "dead")
  /\ UNCHANGED <<today, window, result, local, drive, requested, alerted, earlier>>

Step(p) ==
  \/ Begin(p) \/ Reuse(p) \/ NoReuse(p) \/ ReadError(p)
  \/ CheckSentinel(p) \/ Reserve(p) \/ Mark(p)
  \/ Request(p) \/ Collected(p) \/ Finish(p) \/ Alert(p)
  \/ WriteLocal(p) \/ Archive(p) \/ Publish(p)
  \/ Crash(p)

Next == NextWindow \/ \E p \in Processes : Step(p)

Spec == Init /\ [][Next]_vars

-----------------------------------------------------------------------------
(* Properties.                                                             *)

SameWindow(p, q) == window[p] = window[q]

\* No automatic retry: once a process has sent requests for a publication date,
\* no process that begins later sends any for that date, whether the first
\* succeeded, failed, lost its last uploads or was killed half way.
NoSecondCollection ==
  \A p, q \in requested : SameWindow(p, q) => <<p, q>> \notin earlier

\* What Drive says of a date, in the sentinel or in the current artifact, is
\* the outcome of a process that did collect that date; so is what a process
\* reuses.
EvidenceWasCollected ==
  LET Outcome(w, s) == \E p \in requested : window[p] = w /\ result[p] = s
  IN /\ \A w \in Windows : /\ durable[w] = "COMPLETE" => Outcome(w, "success")
                           /\ durable[w] = "FAILED" => Outcome(w, "failure")
     /\ \A p \in Processes : pc[p] = "reused" => Outcome(window[p], result[p])

\* A failure that later runs will reuse in silence (ALERT_NOT_REPEATED_EXISTING_WINDOW)
\* was announced by the run that published it.
PublishedFailureWasAnnounced ==
  current.status = "failure" => current.by \in alerted

\* Those who may ask the provider, what was asked, and the dates that succeeded
Entered   == {<<p, window[p]>> : p \in {p \in Processes : pc[p] \in Live \ {"current", "sentinel"}}}
Asked     == {<<p, window[p]>> : p \in requested}
Succeeded == {w \in Windows : <<"success", w>> \in archives}

\* The sentinels keep the promise of a shared reservation: a process is admitted to
\* the provider of a date only while nobody has asked it for that date, and a success
\* is archived only of a date that was asked for (_ensure_official_shadow_provider).
Promise == INSTANCE Reservation WITH
  Askers <- Processes, Subjects <- Windows, Questions <- Processes, Shared <- TRUE,
  admitted <- Entered, asked <- Asked, confirmed <- Succeeded, lost <- {}

SentinelsKeepPromise == Promise!Spec
=============================================================================
