--------------------------- MODULE DailyAdmission ---------------------------
(***************************************************************************)
(* The receiver of the hybrid daily schedule: the jobs route, reserve,     *)
(* build and finish of .github/workflows/main.yml, the gate CLI they call  *)
(* (scripts/run_harvester_schedule_gate.py), the create-only receipts      *)
(* (scripts/harvester_schedule_receipts.py) and the start check at the top *)
(* of harvester.py.  A handler that reads, decides and writes is split at  *)
(* each request it sends, so other runs, the clock, cancellation and       *)
(* failures fall between any two of its requests.                          *)
(*                                                                         *)
(* GitHub itself is external: runs, concurrency groups, re-runs, the       *)
(* Contents API (linearizable, one file per path).                         *)
(***************************************************************************)
EXTENDS SlotContract, FiniteSets

CONSTANTS
  Runs,          \* workflow runs
  Signals,       \* the wake signals that may arrive
  NoSignal,      \* the signal of a run that does not exist yet
  Instants,      \* the minutes at which the clock is looked at
  Modes,         \* HARVESTER_SCHEDULE_MODE in the workflow files of the refs
  ActivationAt,  \* activationAt of the pinned control document
  SecEnabled,    \* SEC_RECURRING_ENABLED
  Serialized,    \* whether the concurrency group orders the runs
  Faulty,        \* runs that may lose a request, a runner or a time limit
  MaxTries       \* bound on the executions (re-runs) of one run

ASSUME ModeAssumption == Modes \subseteq {"legacy", "hybrid"} /\ Modes # {}
ASSUME FlagAssumption == SecEnabled \in BOOLEAN /\ Serialized \in BOOLEAN
ASSUME TimeAssumption == Instants \subseteq Int /\ Instants # {} /\ ActivationAt \in Int
ASSUME TriesAssumption == MaxTries \in Nat \ {0}
ASSUME FaultyAssumption == Faulty \subseteq Runs
ASSUME SignalAssumption ==
  /\ NoSignal \notin Signals
  /\ Signals \subseteq [name  : {"schedule", "workflow_dispatch", "assist", "stage3"},
                        batch : Batches \cup {"auto", "none"},
                        at    : Int,
                        main  : BOOLEAN]

VARIABLES
  now,           \* the clock, common to runners and GitHub
  signal,        \* per run: the event it was created for
  mode,          \* per run: the mode of the workflow file it was created from
  created,       \* per run: created_at of its metadata
  try,           \* per run: GITHUB_RUN_ATTEMPT
  pc,            \* per run: where its current execution stands
  resume,        \* per run: its first job that has not succeeded yet
  cancelled,     \* the runs whose cancellation was requested
  slot,          \* per run: output slot_json of its route job
  stampedAt,     \* per run: the instant taken for reservedAt
  proof,         \* per run: output proof_json of its reserve job
  exit,          \* per run: output collector_outcome of its build job
  attempts,      \* the files slots/<date>/<batch>/attempt.json
  results,       \* the files slots/<date>/<batch>/result.json
  collections,   \* history: every start of the collector
  secRuns        \* history: every start of the SEC producer

identity == <<signal, mode, created>>
control  == <<try, pc, resume, cancelled>>
outputs  == <<slot, stampedAt, proof, exit>>
store    == <<attempts, results>>
history  == <<collections, secRuns>>
vars     == <<now, identity, control, outputs, store, history>>

\* The slots that some signal may stand for
Slots == UNION {WakeSlot(s, t) : s \in Signals, t \in Instants}
Tries == 1..MaxTries

Jobs        == {"route", "reserve", "build", "finish"}
BuildPhases == {"build", "collect", "collecting", "sec"}
FinishPhases == {"finish", "finishput", "finishread"}
Running     == {"route", "reserve", "stamp", "put", "readback"}
                 \cup BuildPhases \cup FinishPhases
Phases      == {"new", "pending", "done"} \cup Running

Exits == {"unknown", "skipped", "success", "failure", "cancelled"}

\* The receipts; a hash that links two of them is the linked record itself
Attempts    == [slot : Slots, run : Runs, reservedAt : Instants]
Results     == [attempt : Attempts, try : Tries, collector : Exits]
Collections == [run : Runs, try : Tries, slot : SUBSET Slots, at : Instants]

TypeOK ==
  /\ now \in Instants
  /\ signal \in [Runs -> Signals \cup {NoSignal}]
  /\ mode \in [Runs -> Modes]
  /\ created \in [Runs -> Instants]
  /\ try \in [Runs -> Tries]
  /\ pc \in [Runs -> Phases]
  /\ resume \in [Runs -> Jobs \cup {"none"}]
  /\ cancelled \subseteq Runs
  /\ slot \in [Runs -> SUBSET Slots]
  /\ stampedAt \in [Runs -> Instants]
  /\ proof \in [Runs -> SUBSET Attempts]
  /\ exit \in [Runs -> Exits]
  /\ attempts \subseteq Attempts
  /\ results \subseteq Results
  /\ collections \subseteq Collections
  /\ secRuns \subseteq Runs \X Tries

Init ==
  /\ now \in {t \in Instants : \A u \in Instants : t <= u}
  /\ signal = [r \in Runs |-> NoSignal]
  /\ mode \in [Runs -> Modes]
  /\ created = [r \in Runs |-> now]
  /\ try = [r \in Runs |-> 1]
  /\ pc = [r \in Runs |-> "new"]
  /\ resume = [r \in Runs |-> "route"]
  /\ cancelled = {}
  /\ slot = [r \in Runs |-> {}]
  /\ stampedAt = [r \in Runs |-> now]
  /\ proof = [r \in Runs |-> {}]
  /\ exit = [r \in Runs |-> "unknown"]
  /\ attempts = {}
  /\ results = {}
  /\ collections = {}
  /\ secRuns = {}

-----------------------------------------------------------------------------
(* The clock moves to the next instant at which something can change.      *)

Tick ==
  /\ \E t \in Instants :
       /\ now < t
       /\ \A u \in Instants : now < u => t <= u
       /\ now' = t
  /\ UNCHANGED <<identity, control, outputs, store, history>>

-----------------------------------------------------------------------------
(* GitHub: the concurrency group of main.yml (one running and one pending  *)
(* run per ref; a newer run replaces the pending one, and a Stage3 run     *)
(* cancels the running one) and re-runs.                                   *)

\* cancel-in-progress
Preempts(s) == s.name = "stage3"

Group(s, phases) ==
  {q \in Runs : signal[q] # NoSignal /\ signal[q].main = s.main /\ pc[q] \in phases}

\* An execution of run r that begins with the given job enters its group
Enter(r, s, job) ==
  LET running == Group(s, Running)
      pending == Group(s, {"pending"})
  IN  \/ /\ ~Serialized \/ running \cup pending = {}
         /\ pc' = [pc EXCEPT ![r] = job]
         /\ cancelled' = cancelled \ {r}
      \/ /\ Serialized /\ running # {}
         /\ pc' = [q \in Runs |-> IF q = r THEN "pending"
                                  ELSE IF q \in pending THEN "done"
                                  ELSE pc[q]]
         /\ cancelled' = (cancelled \ {r}) \cup (IF Preempts(s) THEN running ELSE {})

\* A cron, the operator, the Mac or the analysis repository wakes the workflow
Arrive(r, s) ==
  /\ pc[r] = "new"
  /\ signal' = [signal EXCEPT ![r] = s]
  /\ created' = [created EXCEPT ![r] = now]
  /\ Enter(r, s, "route")
  /\ UNCHANGED <<now, mode, try, resume, outputs, store, history>>

\* Mutant: a queued run waits until nothing else is queued or running
PromoteWhenAlone(r) ==
  /\ pc[r] = "pending"
  /\ Group(signal[r], Running \cup {"pending"}) = {}
  /\ pc' = [pc EXCEPT ![r] = resume[r]]
  /\ UNCHANGED <<now, identity, try, resume, cancelled, outputs, store, history>>

\* The group became free
Promote(r) ==
  /\ pc[r] = "pending"
  /\ Group(signal[r], Running) = {}
  /\ pc' = [pc EXCEPT ![r] = resume[r]]
  /\ UNCHANGED <<now, identity, try, resume, cancelled, outputs, store, history>>

\* The operator re-runs all jobs, or the failed ones and those that need them;
\* jobs that are not run again keep their outputs
Rerun(r, job) ==
  /\ pc[r] = "done"
  /\ try[r] < MaxTries
  /\ job \in {"route", resume[r]} \ {"none"}
  /\ try' = [try EXCEPT ![r] = @ + 1]
  /\ resume' = [resume EXCEPT ![r] = job]
  /\ slot' = [slot EXCEPT ![r] = IF job = "route" THEN {} ELSE @]
  /\ proof' = [proof EXCEPT ![r] = IF job \in {"route", "reserve"} THEN {} ELSE @]
  /\ exit' = [exit EXCEPT ![r] = IF job = "finish" THEN @ ELSE "unknown"]
  /\ Enter(r, signal[r], job)
  /\ UNCHANGED <<now, identity, stampedAt, store, history>>

-----------------------------------------------------------------------------
(* How a job ends.                                                         *)

\* finish needs an admitted run and is declared always(): it runs after a
\* build that failed or was cancelled too
AfterBuild(r) == IF proof[r] = {} THEN "done" ELSE "finish"

\* The current job fails; resume keeps naming it
Fail(r) ==
  /\ pc' = [pc EXCEPT ![r] = IF @ \in BuildPhases THEN AfterBuild(r) ELSE "done"]
  /\ UNCHANGED <<now, identity, try, resume, cancelled, slot, stampedAt, proof,
                 store, history>>

\* A lost runner, an unanswered request or timeout-minutes
Crash(r) ==
  /\ r \in Faulty
  /\ pc[r] \in Running
  /\ Fail(r)
  /\ UNCHANGED exit

\* Mutant: the collector counts as cancelled although it never started
AbortedBuildIsCancelled(r) ==
  /\ r \in cancelled
  /\ pc[r] \in Running \ FinishPhases
  /\ Fail(r)
  /\ exit' = [exit EXCEPT ![r] = IF pc[r] \in BuildPhases THEN "cancelled" ELSE @]

\* The cancellation takes effect: finish is the only job that still runs
Abort(r) ==
  /\ r \in cancelled
  /\ pc[r] \in Running \ FinishPhases
  /\ Fail(r)
  /\ exit' = [exit EXCEPT ![r] = IF pc[r] = "collecting" THEN "cancelled" ELSE @]

\* A job that has not been cancelled goes on to the next step or job
Proceed(r, from, to) ==
  /\ pc[r] = from
  /\ r \notin cancelled
  /\ pc' = [pc EXCEPT ![r] = to]

-----------------------------------------------------------------------------
(* route: the gate CLI's resolve phase.                                    *)

IsDaily(r) == mode[r] = "hybrid" /\ signal[r].name # "stage3"

\* ASSIST_NOT_ENABLED
LegacyDaily(r) == mode[r] = "legacy" /\ signal[r].name # "assist"

RouteAccepts(r) ==
  \/ signal[r].name = "stage3"
  \/ LegacyDaily(r)
  \/ IsDaily(r) /\ Resolve(signal[r], try[r], created[r], now) # {}

ResolveRoute(r) ==
  /\ Proceed(r, "route", IF IsDaily(r) THEN "reserve" ELSE "build")
  /\ RouteAccepts(r)
  /\ resume' = [resume EXCEPT ![r] = IF IsDaily(r) THEN "reserve" ELSE "build"]
  /\ slot' = [slot EXCEPT ![r] =
                IF IsDaily(r) THEN Resolve(signal[r], try[r], created[r], now) ELSE {}]
  /\ UNCHANGED <<now, identity, try, cancelled, stampedAt, proof, exit, store, history>>

-----------------------------------------------------------------------------
(* reserve: reserve_slot and create_file.                                  *)

Taken(s) == \E a \in attempts : a.slot = s

\* environment_route at the slot's own instant, without run metadata
SameRoute(r, s) ==
  Resolve(signal[r], try[r], ScheduledFor(s), ScheduledFor(s)) = {s}

\* validate_control and validate_proof
Admissible(s, t) == ScheduledFor(s) >= ActivationAt /\ Open(s, t)

ReserveAccepts(r) ==
  \A s \in slot[r] : SameRoute(r, s) /\ Admissible(s, now) /\ ~Taken(s)

\* Up to the GET of the attempt path, which must answer 404
ReserveLookup(r) ==
  /\ Proceed(r, "reserve", "stamp")
  /\ ReserveAccepts(r)
  /\ UNCHANGED <<now, identity, try, resume, cancelled, outputs, store, history>>

StampAccepts(r) == \A s \in slot[r] : Open(s, now)

Stamp(r) ==
  /\ pc[r] = "stamp"
  /\ StampAccepts(r)
  /\ stampedAt' = [stampedAt EXCEPT ![r] = now]
  /\ pc' = [pc EXCEPT ![r] = "put"]
  /\ UNCHANGED <<now, identity, try, resume, cancelled, slot, proof, exit, store, history>>

\* Mutant: the deadline is recorded instead of the instant
DeadlineReceipt(r) ==
  {[slot |-> s, run |-> r, reservedAt |-> StartBefore(s)] : s \in slot[r]}

Receipt(r) ==
  {[slot |-> s, run |-> r, reservedAt |-> stampedAt[r]] : s \in slot[r]}

\* Mutant: a PUT that carries the sha of the file it found
OverwriteAccepts(r) == TRUE

\* A PUT without sha creates the file or answers 422
PutAccepts(r) == \A s \in slot[r] : ~Taken(s)

\* The create commits and its 201 arrives, or commits and the answer is lost
PutAttempt(r, next) ==
  /\ pc[r] = "put"
  /\ PutAccepts(r)
  /\ attempts' = {a \in attempts : a.slot \notin slot[r]} \cup Receipt(r)
  /\ pc' = [pc EXCEPT ![r] = next]
  /\ next \in {"readback"} \cup (IF r \in Faulty THEN {"done"} ELSE {})
  /\ UNCHANGED <<now, identity, try, resume, cancelled, outputs, results, history>>

ReadbackAccepts(r) ==
  Receipt(r) \subseteq attempts /\ \A s \in slot[r] : Admissible(s, now)

Readback(r) ==
  /\ pc[r] = "readback"
  /\ ReadbackAccepts(r)
  /\ proof' = [proof EXCEPT ![r] = Receipt(r)]
  /\ pc' = [pc EXCEPT ![r] = "build"]
  /\ resume' = [resume EXCEPT ![r] = "build"]
  /\ UNCHANGED <<now, identity, try, cancelled, slot, stampedAt, exit, store, history>>

-----------------------------------------------------------------------------
(* build: recheck, the collector and the SEC producer.                     *)

\* Mutant: the window is not compared again after the reservation
StartAnyTime(r) ==
  \/ signal[r].name = "stage3" \/ LegacyDaily(r)
  \/ \E p \in proof[r] : try[r] = 1 /\ SameRoute(r, p.slot)

\* Mutant: the frozen proof alone decides, and not the execution or the route
ProofAloneStarts(r) ==
  \/ signal[r].name = "stage3" \/ LegacyDaily(r)
  \/ \E p \in proof[r] : Admissible(p.slot, now)

\* assert_environment_start
StartAccepts(r) ==
  \/ signal[r].name = "stage3"
  \/ LegacyDaily(r)
  \/ /\ IsDaily(r) /\ proof[r] # {}
     /\ \A p \in proof[r] :
          try[r] = 1 /\ Admissible(p.slot, now) /\ SameRoute(r, p.slot)

\* verify_attempt
Verified(r) ==
  \A p \in proof[r] : p \in attempts /\ p.run = r /\ Open(p.slot, p.reservedAt)
                        /\ p.reservedAt <= now

RecheckAccepts(r) == IsDaily(r) => Verified(r) /\ StartAccepts(r)

Recheck(r) ==
  /\ Proceed(r, "build", "collect")
  /\ RecheckAccepts(r)
  /\ exit' = [exit EXCEPT ![r] = "skipped"]
  /\ UNCHANGED <<now, identity, try, resume, cancelled, slot, stampedAt, proof, store, history>>

\* harvester.py as __main__: collector_start_evidence passes
CollectStart(r) ==
  /\ Proceed(r, "collect", "collecting")
  /\ StartAccepts(r)
  /\ collections' = collections \cup
       {[run |-> r, try |-> try[r], slot |-> slot[r], at |-> now]}
  /\ exit' = [exit EXCEPT ![r] = "unknown"]
  /\ UNCHANGED <<now, identity, try, resume, cancelled, slot, stampedAt, proof, store, secRuns>>

CollectFail(r) ==
  /\ pc[r] = "collecting"
  /\ Fail(r)
  /\ exit' = [exit EXCEPT ![r] = "failure"]

CollectEnd(r) ==
  /\ pc[r] = "collecting"
  /\ pc' = [pc EXCEPT ![r] = "sec"]
  /\ exit' = [exit EXCEPT ![r] = "success"]
  /\ UNCHANGED <<now, identity, try, resume, cancelled, slot, stampedAt, proof, store, history>>

BuildDone(r) ==
  /\ Proceed(r, "sec", AfterBuild(r))
  /\ resume' = [resume EXCEPT ![r] = IF proof[r] = {} THEN "none" ELSE "finish"]
  /\ UNCHANGED <<now, identity, try, cancelled, outputs, store, collections>>

\* The producer imports harvester.py as a library: the collector's own summary
\* must show a start inside the window
SecAccepts(r) ==
  /\ SecAllowed(mode[r], signal[r], slot[r], SecEnabled)
  /\ IsDaily(r) => /\ try[r] = 1
                   /\ \E c \in collections :
                        /\ c.run = r /\ c.try = try[r]
                        /\ \A p \in proof[r] : Open(p.slot, c.at)

RunSec(r) ==
  /\ BuildDone(r)
  /\ SecAccepts(r)
  /\ secRuns' = secRuns \cup {<<r, try[r]>>}

\* Not allowed, or the collection window is already reserved in the cache
SkipSec(r) ==
  /\ BuildDone(r)
  /\ UNCHANGED secRuns

SecFail(r) ==
  /\ pc[r] = "sec"
  /\ r \notin cancelled
  /\ SecAccepts(r)
  /\ pc' = [pc EXCEPT ![r] = AfterBuild(r)]
  /\ secRuns' = secRuns \cup {<<r, try[r]>>}
  /\ UNCHANGED <<now, identity, try, resume, cancelled, outputs, store, collections>>

-----------------------------------------------------------------------------
(* finish: finish_slot, which compares neither the run attempt nor the     *)
(* window's end.                                                           *)

Reported(s) == \E f \in results : f.attempt.slot = s

\* Mutant: the window is checked as in the other phases
FinishInWindow(r) ==
  /\ Verified(r)
  /\ \A p \in proof[r] : Admissible(p.slot, now) /\ ~Reported(p.slot)

FinishAccepts(r) ==
  /\ Verified(r)
  /\ \A p \in proof[r] : ScheduledFor(p.slot) <= now /\ ~Reported(p.slot)

FinishLookup(r) ==
  /\ pc[r] = "finish"
  /\ FinishAccepts(r)
  /\ pc' = [pc EXCEPT ![r] = "finishput"]
  /\ UNCHANGED <<now, identity, try, resume, cancelled, outputs, store, history>>

Outcome(r) == {[attempt |-> p, try |-> try[r], collector |-> exit[r]] : p \in proof[r]}

ResultPutAccepts(r) == \A p \in proof[r] : ~Reported(p.slot)

PutResult(r, next) ==
  /\ pc[r] = "finishput"
  /\ ResultPutAccepts(r)
  /\ results' = {f \in results : \A p \in proof[r] : f.attempt.slot # p.slot} \cup Outcome(r)
  /\ pc' = [pc EXCEPT ![r] = next]
  /\ next \in {"finishread"} \cup (IF r \in Faulty THEN {"done"} ELSE {})
  /\ UNCHANGED <<now, identity, try, resume, cancelled, outputs, attempts, history>>

ReadResult(r) ==
  /\ pc[r] = "finishread"
  /\ Outcome(r) \subseteq results
  /\ pc' = [pc EXCEPT ![r] = "done"]
  /\ resume' = [resume EXCEPT ![r] = IF @ = "finish" THEN "none" ELSE @]
  /\ UNCHANGED <<now, identity, try, cancelled, outputs, store, history>>

-----------------------------------------------------------------------------
\* A ContractError, an answer other than the one required: the job fails
Refuse(r) ==
  /\ \/ pc[r] = "route"      /\ ~RouteAccepts(r)
     \/ pc[r] = "reserve"    /\ ~ReserveAccepts(r)
     \/ pc[r] = "stamp"      /\ ~StampAccepts(r)
     \/ pc[r] = "put"        /\ ~PutAccepts(r)
     \/ pc[r] = "readback"   /\ ~ReadbackAccepts(r)
     \/ pc[r] = "build"      /\ ~RecheckAccepts(r)
     \/ pc[r] = "collect"    /\ ~StartAccepts(r)
     \/ pc[r] = "finish"     /\ ~FinishAccepts(r)
     \/ pc[r] = "finishput"  /\ ~ResultPutAccepts(r)
     \/ pc[r] = "finishread" /\ ~(Outcome(r) \subseteq results)
  /\ Fail(r)
  /\ exit' = [exit EXCEPT ![r] = IF pc[r] = "build" THEN "skipped"
                                 ELSE IF pc[r] = "collect" THEN "failure"
                                 ELSE @]

\* What the platform carries on with once a run is started
Advance(r) ==
  \/ Promote(r)
  \/ ResolveRoute(r)
  \/ ReserveLookup(r)
  \/ Stamp(r)
  \/ \E next \in {"readback", "done"} : PutAttempt(r, next)
  \/ Readback(r)
  \/ Recheck(r)
  \/ CollectStart(r)
  \/ CollectFail(r)
  \/ CollectEnd(r)
  \/ RunSec(r)
  \/ SkipSec(r)
  \/ SecFail(r)
  \/ FinishLookup(r)
  \/ \E next \in {"finishread", "done"} : PutResult(r, next)
  \/ ReadResult(r)
  \/ Refuse(r)
  \/ Crash(r)
  \/ Abort(r)

Wake(r) ==
  \/ \E s \in Signals : Arrive(r, s)
  \/ \E job \in Jobs : Rerun(r, job)

Next ==
  \/ Tick
  \/ \E r \in Runs : Advance(r) \/ Wake(r)

Spec == Init /\ [][Next]_vars

\* GitHub keeps a started run going and ends it by timeout-minutes at the
\* latest; nobody has to wake the workflow, and the clock needs no fairness
Fairness == \A r \in Runs : WF_vars(Advance(r))

FairSpec == Spec /\ Fairness

-----------------------------------------------------------------------------
(* Properties.                                                             *)

\* "At most one automatically admitted collector attempt per slot" (design,
\* section 5): over all runs and all re-runs a slot is collected at most once,
\* whatever is lost, cancelled or repeated.
OneCollectionPerSlot ==
  \A c, d \in collections : c.slot \cap d.slot # {} => c = d

\* In hybrid mode no daily collection starts without a slot, before activation,
\* outside the slot's window, or before its own run reserved the slot.
CollectionBackedByReceipt ==
  \A c \in collections :
    IsDaily(c.run) =>
      /\ c.slot # {}
      /\ \A s \in c.slot :
           /\ Admissible(s, c.at)
           /\ \E a \in attempts : a.slot = s /\ a.run = c.run /\ a.reservedAt <= c.at

\* Every reservation, taken minutes after the route job and read back later,
\* is for the slot its own wake signal stood for when the run was created, and
\* that slot was the due one when it was reserved; Stage3 and non-main runs
\* never consume a slot.
ReceiptNamesItsWake ==
  \A a \in attempts :
    /\ signal[a.run].main /\ signal[a.run].name # "stage3"
    /\ a.slot \in WakeSlot(signal[a.run], created[a.run])
    /\ DueSlot(a.reservedAt) = {a.slot}

\* A result never claims a collector that did not start, and the result of a
\* first execution never hides one that did ("skipped").
ResultTellsTheTruth ==
  \A f \in results :
    LET collected == \E c \in collections : c.run = f.attempt.run
                                              /\ f.attempt.slot \in c.slot
    IN  /\ f.collector \in {"success", "cancelled"} => collected
        /\ f.collector = "skipped" /\ f.try = 1 => ~collected

\* The SEC producer runs after a collector of the same execution, in hybrid
\* mode only for a second batch, in legacy mode only for the second native
\* cron.
SecFollowsOwnCollection ==
  \A e \in secRuns :
    \E c \in collections :
      /\ c.run = e[1] /\ c.try = e[2]
      /\ SecEnabled
      /\ IF mode[c.run] = "hybrid"
           THEN \E s \in c.slot : s.batch = "second"
           ELSE signal[c.run].name = "schedule" /\ signal[c.run].batch = "second"

\* Receipts are never removed or rewritten, neither by another run nor by a
\* re-run of the one that wrote them.
ReceiptsAreImmutable ==
  [][attempts \subseteq attempts' /\ results \subseteq results']_store

\* Every started or queued execution ends: no job waits for another for ever,
\* and the group is always handed on.
EveryRunConcludes ==
  \A r \in Runs : pc[r] # "new" ~> pc[r] = "done"

\* A run that was admitted writes the result of its slot even if its collector
\* fails, its window ends or a Stage3 hand-off cancels it, unless a request or
\* a runner of its own is lost.
AdmittedRunReports ==
  \A r \in Runs \ Faulty, s \in Slots :
    (\E p \in proof[r] : p.slot = s) ~> Reported(s)

\* The receipts protocol implements the promise of SlotOnce.
Promise == INSTANCE SlotOnce WITH
  owned    <- {<<a.slot, a.run>> : a \in attempts},
  started  <- UNION {{<<s, c.run, c.try>> : s \in c.slot} : c \in collections},
  reported <- {<<f.attempt.slot, f.attempt.run, f.try>> : f \in results}

ImplementsSlotOnce == Promise!Spec

-----------------------------------------------------------------------------
(* What the documents say and the code does not do.                        *)

\* "The assist event must not cancel daily or OHLCV" (design, section 3): a
\* queued Stage3 run is not ended by an assist event.
AssistSparesStage3 ==
  [][\A r, q \in Runs :
       /\ pc[r] = "pending" /\ pc'[r] = "done" /\ signal[r].name = "stage3"
       /\ pc[q] # "pending" /\ pc'[q] = "pending"
       => signal'[q].name # "assist"]_vars

\* "A missing result after cancellation/crash remains unresolved, not
\* retryable" (design, section 5): no re-run writes a result.
RerunWritesNoResult == \A f \in results : f.try = 1
=============================================================================
