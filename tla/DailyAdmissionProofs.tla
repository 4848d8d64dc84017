------------------------ MODULE DailyAdmissionProofs ------------------------
(***************************************************************************)
(* Theorems about DailyAdmission for every set of runs, signals, instants  *)
(* and modes, with or without the concurrency group, any runs faulty and   *)
(* any number of re-runs.                                                  *)
(***************************************************************************)
EXTENDS DailyAdmission, TLAPS

-----------------------------------------------------------------------------
(* Types.                                                                  *)

\* A run that exists has a signal, and one that waits has a job to start with
Identified ==
  \A r \in Runs : /\ pc[r] # "new" => signal[r] \in Signals
                  /\ pc[r] \in {"new", "pending"} => resume[r] \in Jobs

TInv == TypeOK /\ Identified

LEMMA ResolveInSlots ==
  ASSUME NEW s \in Signals, NEW c \in Instants, NEW k, NEW t
  PROVE  Resolve(s, k, c, t) \subseteq Slots
BY DEF Resolve, Slots

LEMMA TInvInit == Init => TInv
BY TriesAssumption DEF Init, TInv, TypeOK, Identified, Tries, Jobs, Phases, Exits

LEMMA TInvStep == TInv /\ [Next]_vars => TInv'
<1> SUFFICES ASSUME TInv, [Next]_vars PROVE TInv'
  OBVIOUS
<1> USE DEF TInv, TypeOK, Identified, identity, control, outputs, store, history
<1>1. CASE Tick
  BY <1>1 DEF Tick
<1>2. ASSUME NEW r \in Runs, NEW s \in Signals, Arrive(r, s) PROVE TInv'
  BY <1>2 DEF Arrive, Enter, Group, Phases, Running, BuildPhases, FinishPhases
<1>3. ASSUME NEW r \in Runs, NEW job \in Jobs, Rerun(r, job) PROVE TInv'
  BY <1>3, TriesAssumption DEF Rerun, Enter, Group, Phases, Running, BuildPhases, FinishPhases, Tries, Jobs, Exits
<1>4. ASSUME NEW r \in Runs, Advance(r) PROVE TInv'
  <2> USE DEF Phases, Running, BuildPhases, FinishPhases, AfterBuild, Jobs, Exits, Fail, Proceed
  <2>1. CASE Promote(r)
    BY <2>1 DEF Promote
  <2>2. CASE ResolveRoute(r)
    <3>1. Resolve(signal[r], try[r], created[r], now) \subseteq Slots
      BY <2>2, ResolveInSlots DEF ResolveRoute
    <3> QED
      BY <2>2, <3>1 DEF ResolveRoute
  <2>3. CASE ReserveLookup(r)
    BY <2>3 DEF ReserveLookup
  <2>4. CASE Stamp(r)
    BY <2>4 DEF Stamp
  <2>5. ASSUME NEW next \in {"readback", "done"}, PutAttempt(r, next) PROVE TInv'
    BY <2>5 DEF PutAttempt, Receipt, Attempts
  <2>6. CASE Readback(r)
    BY <2>6 DEF Readback, Receipt, Attempts
  <2>7. CASE Recheck(r)
    BY <2>7 DEF Recheck
  <2>8. CASE CollectStart(r)
    BY <2>8 DEF CollectStart, Collections, Tries
  <2>9. CASE CollectFail(r)
    BY <2>9 DEF CollectFail
  <2>10. CASE CollectEnd(r)
    BY <2>10 DEF CollectEnd
  <2>11. CASE RunSec(r)
    BY <2>11 DEF RunSec, BuildDone
  <2>12. CASE SkipSec(r)
    BY <2>12 DEF SkipSec, BuildDone
  <2>13. CASE SecFail(r)
    BY <2>13 DEF SecFail
  <2>14. CASE FinishLookup(r)
    BY <2>14 DEF FinishLookup
  <2>15. ASSUME NEW next \in {"finishread", "done"}, PutResult(r, next) PROVE TInv'
    BY <2>15 DEF PutResult, Outcome, Results
  <2>16. CASE ReadResult(r)
    BY <2>16 DEF ReadResult
  <2>17. CASE Refuse(r)
    BY <2>17 DEF Refuse
  <2>18. CASE Crash(r)
    BY <2>18 DEF Crash
  <2>19. CASE Abort(r)
    BY <2>19 DEF Abort
  <2> QED
    BY <1>4, <2>1, <2>2, <2>3, <2>4, <2>5, <2>6, <2>7, <2>8, <2>9, <2>10, <2>11, <2>12,
       <2>13, <2>14, <2>15, <2>16, <2>17, <2>18, <2>19 DEF Advance
<1>5. CASE UNCHANGED vars
  BY <1>5 DEF vars
<1> QED
  BY <1>1, <1>2, <1>3, <1>4, <1>5 DEF Next, Wake

\* Every variable keeps its type: slots, receipts and outputs never leave the
\* slots that some signal may stand for.
THEOREM TypeCorrect == Spec => []TypeOK
<1>1. Spec => []TInv
  BY TInvInit, TInvStep, PTL DEF Spec
<1>2. TInv => TypeOK
  BY DEF TInv
<1> QED
  BY <1>1, <1>2, PTL

-----------------------------------------------------------------------------
(* Job outputs.                                                            *)

\* A wake signal stands for one slot at most
LEMMA OneWakeSlot ==
  ASSUME NEW sig \in Signals, NEW k, NEW c \in Instants, NEW t,
         NEW s \in Resolve(sig, k, c, t), NEW u \in Resolve(sig, k, c, t)
  PROVE  s = u
<1>1. s \in WakeSlot(sig, c) /\ u \in WakeSlot(sig, c)
  BY DEF Resolve
<1>2. CASE sig.name # "schedule"
  BY <1>1, <1>2 DEF WakeSlot, RequestedSlot, MakeSlot
<1>3. CASE sig.name = "schedule"
  <2>1. /\ s \in NativeCandidates(sig.batch, c) /\ u \in NativeCandidates(sig.batch, c)
        /\ s.day <= u.day /\ u.day <= s.day
    BY <1>1, <1>3 DEF WakeSlot, NativeSlot
  <2>2. \A x \in NativeCandidates(sig.batch, c) :
          x = [day |-> x.day, batch |-> sig.batch] /\ x.day \in Int
    BY TimeAssumption DEF NativeCandidates, MakeSlot, KstDay, KstOffset, MinutesPerDay
  <2>3. s.day = u.day
    BY <2>1, <2>2
  <2> QED
    BY <2>1, <2>2, <2>3
<1> QED
  BY <1>2, <1>3

\* What the outputs of a run say about the jobs it still has to run
OutputsOK(r) ==
  /\ pc[r] = "new" => try[r] = 1 /\ resume[r] = "route" /\ slot[r] = {}
  /\ pc[r] = "route" => resume[r] = "route"
  /\ pc[r] \in {"reserve", "stamp", "put", "readback"} => resume[r] = "reserve"
  /\ resume[r] \in {"route", "reserve"} => proof[r] = {}
  /\ proof[r] # {} => slot[r] = {p.slot : p \in proof[r]}
  /\ \A p \in proof[r] : p.run = r
  /\ \A s, u \in slot[r] : s = u
  /\ slot[r] # {} => IsDaily(r)

OInv == \A r \in Runs : OutputsOK(r)

LEMMA OInvInit == Init => OInv
BY DEF Init, OInv, OutputsOK

LEMMA OInvStep == TInv /\ OInv /\ [Next]_vars => OInv'
<1> SUFFICES ASSUME TInv, OInv, [Next]_vars PROVE OInv'
  OBVIOUS
<1> USE DEF TInv, TypeOK, Identified, OInv, OutputsOK, IsDaily,
            identity, control, outputs, store, history
<1>1. CASE Tick
  BY <1>1 DEF Tick
<1>2. ASSUME NEW r \in Runs, NEW s \in Signals, Arrive(r, s) PROVE OInv'
  BY <1>2 DEF Arrive, Enter, Group
<1>3. ASSUME NEW r \in Runs, NEW job \in Jobs, Rerun(r, job) PROVE OInv'
  BY <1>3 DEF Rerun, Enter, Group, Jobs
<1>4. ASSUME NEW r \in Runs, Advance(r) PROVE OInv'
  <2> USE DEF BuildPhases, AfterBuild, Jobs, Fail, Proceed
  <2>1. CASE Promote(r)
    BY <2>1 DEF Promote
  <2>2. CASE ResolveRoute(r)
    <3> DEFINE found == Resolve(signal[r], try[r], created[r], now)
    <3>1. \A s, u \in found : s = u
      BY <2>2, OneWakeSlot DEF ResolveRoute
    <3>2. proof[r] = {}
      BY <2>2 DEF ResolveRoute
    <3>3. slot' = [slot EXCEPT ![r] = IF IsDaily(r) THEN found ELSE {}]
      BY <2>2 DEF ResolveRoute
    <3> HIDE DEF found
    <3> QED
      BY <2>2, <3>1, <3>2, <3>3 DEF ResolveRoute
  <2>3. CASE ReserveLookup(r)
    BY <2>3 DEF ReserveLookup
  <2>4. CASE Stamp(r)
    BY <2>4 DEF Stamp
  <2>5. ASSUME NEW next \in {"readback", "done"}, PutAttempt(r, next) PROVE OInv'
    BY <2>5 DEF PutAttempt
  <2>6. CASE Readback(r)
    BY <2>6 DEF Readback, Receipt
  <2>7. CASE Recheck(r)
    BY <2>7 DEF Recheck
  <2>8. CASE CollectStart(r)
    BY <2>8 DEF CollectStart
  <2>9. CASE CollectFail(r)
    BY <2>9 DEF CollectFail
  <2>10. CASE CollectEnd(r)
    BY <2>10 DEF CollectEnd
  <2>11. CASE RunSec(r) \/ SkipSec(r)
    BY <2>11 DEF RunSec, SkipSec, BuildDone
  <2>12. CASE SecFail(r)
    BY <2>12 DEF SecFail
  <2>13. CASE FinishLookup(r)
    BY <2>13 DEF FinishLookup
  <2>14. ASSUME NEW next \in {"finishread", "done"}, PutResult(r, next) PROVE OInv'
    BY <2>14 DEF PutResult
  <2>15. CASE ReadResult(r)
    BY <2>15 DEF ReadResult
  <2>16. CASE Refuse(r) \/ Crash(r) \/ Abort(r)
    BY <2>16 DEF Refuse, Crash, Abort
  <2> QED
    BY <1>4, <2>1, <2>2, <2>3, <2>4, <2>5, <2>6, <2>7, <2>8, <2>9, <2>10, <2>11, <2>12,
       <2>13, <2>14, <2>15, <2>16 DEF Advance
<1>5. CASE UNCHANGED vars
  BY <1>5 DEF vars
<1> QED
  BY <1>1, <1>2, <1>3, <1>4, <1>5 DEF Next, Wake

-----------------------------------------------------------------------------
(* Who writes what.                                                        *)

\* Receipts are created by the two PUTs only, and neither replaces a file
LEMMA AttemptsGrow ==
  ASSUME TInv, [Next]_vars
  PROVE  \/ attempts' = attempts
         \/ \E r \in Runs : /\ pc[r] = "put"
                            /\ PutAccepts(r)
                            /\ attempts' = attempts \cup Receipt(r)
                            /\ UNCHANGED <<now, identity, try, collections, results,
                                           slot, stampedAt, proof>>
<1> USE DEF identity, control, outputs, store, history
<1>1. ASSUME NEW r \in Runs, NEW next \in {"readback", "done"}, PutAttempt(r, next)
      PROVE  /\ pc[r] = "put"
             /\ PutAccepts(r)
             /\ attempts' = attempts \cup Receipt(r)
             /\ UNCHANGED <<now, identity, try, collections, results, slot, stampedAt, proof>>
  <2>1. {a \in attempts : a.slot \notin slot[r]} = attempts
    BY <1>1 DEF PutAttempt, PutAccepts, Taken
  <2> QED
    BY <1>1, <2>1 DEF PutAttempt
<1>2. ASSUME NEW r \in Runs, Advance(r),
             \A next \in {"readback", "done"} : ~PutAttempt(r, next)
      PROVE  attempts' = attempts
  BY <1>2 DEF Advance, Fail, Promote, ResolveRoute, ReserveLookup, Stamp, Readback, Recheck,
     CollectStart, CollectFail, CollectEnd, RunSec, SkipSec, BuildDone, SecFail, FinishLookup,
     PutResult, ReadResult, Refuse, Crash, Abort
<1> QED
  BY <1>1, <1>2 DEF Next, Wake, Tick, Arrive, Rerun, vars

\* The collector starts in one place
LEMMA CollectionsGrow ==
  ASSUME TInv, [Next]_vars
  PROVE  \/ collections' = collections
         \/ \E r \in Runs : CollectStart(r)
<1> USE DEF identity, control, outputs, store, history
<1>1. ASSUME NEW r \in Runs, Advance(r), ~CollectStart(r)
      PROVE  collections' = collections
  BY <1>1 DEF Advance, Fail, Promote, ResolveRoute, ReserveLookup, Stamp, PutAttempt, Readback,
     Recheck, CollectFail, CollectEnd, RunSec, SkipSec, BuildDone, SecFail, FinishLookup,
     PutResult, ReadResult, Refuse, Crash, Abort
<1> QED
  BY <1>1 DEF Next, Wake, Tick, Arrive, Rerun, vars

\* An admission proof is the receipt its run has just read back
LEMMA ProofsComeFromReceipts ==
  ASSUME TInv, [Next]_vars, NEW q \in Runs
  PROVE  proof'[q] \subseteq proof[q] \/ proof'[q] \subseteq attempts
<1> USE DEF identity, control, outputs, store, history, TInv, TypeOK
<1>1. ASSUME NEW r \in Runs, Advance(r)
      PROVE  proof' = proof \/ Readback(r)
  BY <1>1 DEF Advance, Fail, Promote, ResolveRoute, ReserveLookup, Stamp, PutAttempt,
     Recheck, CollectStart, CollectFail, CollectEnd, RunSec, SkipSec, BuildDone, SecFail,
     FinishLookup, PutResult, ReadResult, Refuse, Crash, Abort
<1>2. ASSUME NEW r \in Runs, Readback(r)
      PROVE  proof'[q] \subseteq proof[q] \/ proof'[q] \subseteq attempts
  BY <1>2 DEF Readback, ReadbackAccepts
<1>3. ASSUME NEW r \in Runs, NEW job \in Jobs, Rerun(r, job)
      PROVE  proof'[q] \subseteq proof[q]
  BY <1>3 DEF Rerun
<1> QED
  BY <1>1, <1>2, <1>3 DEF Next, Wake, Tick, Arrive, vars

-----------------------------------------------------------------------------
(* Receipts and collections.                                               *)

\* Where a run stands once it has started its collector
Collected == {"collecting", "sec", "done"} \cup FinishPhases

\* One receipt per slot, proofs are receipts, clocks only move forward
ReceiptsOK ==
  /\ \A a, b \in attempts : a.slot = b.slot => a = b
  /\ \A r \in Runs : proof[r] \subseteq attempts
  /\ \A r \in Runs : stampedAt[r] <= now
  /\ \A a \in attempts : a.reservedAt <= now

\* A daily collection is by the first execution of the run that owns the slot;
\* an execution collects once, and is past that point afterwards
CollectionOK(c) ==
  /\ c.try <= try[c.run]
  /\ c.try = try[c.run] => pc[c.run] \in Collected
  /\ IsDaily(c.run) => c.slot # {}
  /\ \A s \in c.slot :
       /\ c.try = 1
       /\ Admissible(s, c.at)
       /\ \E a \in attempts : a.slot = s /\ a.run = c.run /\ a.reservedAt <= c.at

CollectionsOK ==
  /\ \A c \in collections : CollectionOK(c)
  /\ \A c, d \in collections : c.run = d.run /\ c.try = d.try => c = d

IInv == TInv /\ OInv /\ ReceiptsOK /\ CollectionsOK

LEMMA IInvInit == Init => IInv
<1> SUFFICES ASSUME Init PROVE IInv
  OBVIOUS
<1>1. now \in Int
  BY TimeAssumption DEF Init
<1> QED
  BY <1>1, TInvInit, OInvInit DEF Init, IInv, ReceiptsOK, CollectionsOK

\* The clock never goes back
LEMMA ClockStep ==
  ASSUME TInv, [Next]_vars
  PROVE  /\ now \in Int /\ now' \in Int
         /\ now <= now'
         /\ \A r \in Runs : stampedAt'[r] = stampedAt[r] \/ stampedAt'[r] = now
<1> USE DEF identity, control, outputs, store, history, TInv, TypeOK
<1>1. ASSUME NEW r \in Runs, Advance(r)
      PROVE  /\ now' = now
             /\ stampedAt' = stampedAt \/ stampedAt' = [stampedAt EXCEPT ![r] = now]
  BY <1>1 DEF Advance, Fail, Promote, ResolveRoute, ReserveLookup, Stamp, PutAttempt, Readback,
     Recheck, CollectStart, CollectFail, CollectEnd, RunSec, SkipSec, BuildDone, SecFail,
     FinishLookup, PutResult, ReadResult, Refuse, Crash, Abort
<1>2. CASE Tick
  BY <1>2, TimeAssumption DEF Tick
<1>3. CASE ~Tick
  BY <1>1, <1>3, TimeAssumption DEF Next, Wake, Arrive, Rerun, vars
<1> QED
  BY <1>2, <1>3

LEMMA ReceiptsStep ==
  ASSUME TInv, TInv', OInv, ReceiptsOK, [Next]_vars
  PROVE  ReceiptsOK'
<1>1. attempts \subseteq attempts'
  BY AttemptsGrow
<1>2. \A a, b \in attempts' : a.slot = b.slot => a = b
  <2>1. CASE attempts' = attempts
    BY <2>1 DEF ReceiptsOK
  <2>2. ASSUME NEW r \in Runs, PutAccepts(r), attempts' = attempts \cup Receipt(r)
        PROVE  \A a, b \in attempts' : a.slot = b.slot => a = b
    <3>1. \A a \in attempts, b \in Receipt(r) : a.slot # b.slot
      BY <2>2 DEF PutAccepts, Taken, Receipt
    <3>2. \A a, b \in Receipt(r) : a = b
      BY DEF Receipt, OInv, OutputsOK
    <3> QED
      BY <2>2, <3>1, <3>2 DEF ReceiptsOK
  <2> QED
    BY <2>1, <2>2, AttemptsGrow
<1>3. ASSUME NEW r \in Runs PROVE proof'[r] \subseteq attempts'
  <2>1. proof'[r] \subseteq proof[r] \/ proof'[r] \subseteq attempts
    BY ProofsComeFromReceipts
  <2>2. proof[r] \subseteq attempts
    BY DEF ReceiptsOK
  <2> QED
    BY <1>1, <2>1, <2>2
<1>t. /\ now \in Int /\ now' \in Int /\ now <= now'
      /\ \A r \in Runs : stampedAt[r] \in Int
      /\ \A a \in attempts : a.reservedAt \in Int
  BY ClockStep, TimeAssumption DEF TInv, TypeOK, Attempts
<1>4. ASSUME NEW r \in Runs PROVE stampedAt'[r] <= now'
  <2>1. stampedAt'[r] = stampedAt[r] \/ stampedAt'[r] = now
    BY ClockStep
  <2>2. stampedAt[r] <= now
    BY DEF ReceiptsOK
  <2> QED
    BY <1>t, <2>1, <2>2
<1>5. ASSUME NEW a \in attempts' PROVE a.reservedAt <= now'
  <2>1. a \in attempts \/ \E r \in Runs : a \in Receipt(r)
    BY AttemptsGrow
  <2>2. CASE a \in attempts
    <3>1. a.reservedAt <= now
      BY <2>2 DEF ReceiptsOK
    <3> QED
      BY <1>t, <2>2, <3>1
  <2>3. ASSUME NEW r \in Runs, a \in Receipt(r) PROVE a.reservedAt <= now'
    <3>1. a.reservedAt = stampedAt[r] /\ stampedAt[r] <= now
      BY <2>3 DEF Receipt, ReceiptsOK
    <3> QED
      BY <1>t, <3>1
  <2> QED
    BY <2>1, <2>2, <2>3
<1> QED
  BY <1>2, <1>3, <1>4, <1>5 DEF ReceiptsOK

\* An execution that has started its collector does not come back to it; a new
\* execution has a new number, and a run never becomes another run
LEMMA ExecutionStep ==
  ASSUME TInv, [Next]_vars, NEW q \in Runs
  PROVE  /\ try'[q] \in {try[q], try[q] + 1}
         /\ pc[q] \in Collected /\ try'[q] = try[q] => pc'[q] \in Collected
         /\ pc[q] # "new" => signal'[q] = signal[q] /\ mode'[q] = mode[q]
<1> USE DEF identity, control, outputs, store, history, TInv, TypeOK
<1>0. try[q] \in Int
  BY DEF Tries
<1>1. ASSUME NEW r \in Runs, Advance(r)
      PROVE  try' = try /\ UNCHANGED identity /\ (pc[q] \in Collected => pc'[q] \in Collected)
  <2> USE DEF Collected, BuildPhases, FinishPhases, AfterBuild
  <2>1. CASE Fail(r)
    BY <2>1 DEF Fail
  <2>2. CASE ~Fail(r)
    BY <1>1, <2>2 DEF Advance, Proceed, Promote, ResolveRoute, ReserveLookup, Stamp, PutAttempt,
       Readback, Recheck, CollectStart, CollectFail, CollectEnd, RunSec, SkipSec, BuildDone,
       SecFail, FinishLookup, PutResult, ReadResult, Refuse, Crash, Abort
  <2> QED
    BY <2>1, <2>2
<1>2. ASSUME NEW r \in Runs, NEW s \in Signals, Arrive(r, s)
      PROVE  /\ try' = try
             /\ q # r => signal'[q] = signal[q]
             /\ mode' = mode /\ pc[r] = "new"
             /\ pc[q] \in Collected => pc'[q] \in Collected
  BY <1>2 DEF Arrive, Enter, Group, Collected, FinishPhases
<1>3. ASSUME NEW r \in Runs, NEW job \in Jobs, Rerun(r, job)
      PROVE  /\ try' = [try EXCEPT ![r] = @ + 1]
             /\ UNCHANGED identity
             /\ q # r => (pc[q] \in Collected => pc'[q] \in Collected)
  BY <1>3 DEF Rerun, Enter, Group, Collected, FinishPhases
<1> QED
  BY <1>0, <1>1, <1>2, <1>3 DEF Next, Wake, Tick, vars

LEMMA CollectionsStep ==
  ASSUME IInv, TInv', ReceiptsOK', [Next]_vars
  PROVE  CollectionsOK'
<1> USE DEF IInv
<1>1. attempts \subseteq attempts'
  BY AttemptsGrow
<1>2. ASSUME NEW c \in collections PROVE CollectionOK(c)'
  <2>1. CollectionOK(c) /\ c.run \in Runs /\ c.try \in Int /\ c.try >= 1
    BY DEF CollectionsOK, TInv, TypeOK, Collections, Tries
  <2>2. pc[c.run] # "new"
    BY <2>1 DEF CollectionOK, OInv, OutputsOK, Collected, FinishPhases, TInv, TypeOK, Tries
  <2>3. try[c.run] \in Int
    BY <2>1 DEF TInv, TypeOK, Tries
  <2>4. c.try <= try'[c.run] /\ (c.try = try'[c.run] => pc'[c.run] \in Collected)
    BY <2>1, <2>3, ExecutionStep DEF CollectionOK
  <2>5. IsDaily(c.run)' => c.slot # {}
    BY <2>1, <2>2, ExecutionStep DEF CollectionOK, IsDaily
  <2> QED
    BY <1>1, <2>1, <2>4, <2>5 DEF CollectionOK, Admissible
<1>3. ASSUME NEW r \in Runs, CollectStart(r),
             NEW c, c = [run |-> r, try |-> try[r], slot |-> slot[r], at |-> now]
      PROVE  /\ collections' = collections \cup {c}
             /\ CollectionOK(c)'
             /\ \A d \in collections : ~(d.run = r /\ d.try = try[r])
  <2>1. /\ collections' = collections \cup {c}
        /\ pc[r] = "collect" /\ pc'[r] = "collecting"
        /\ StartAccepts(r)
        /\ UNCHANGED <<now, signal, mode, try, attempts>>
    BY <1>3 DEF CollectStart, Proceed, identity, store, TInv, TypeOK
  <2>2. ASSUME NEW d \in collections PROVE ~(d.run = r /\ d.try = try[r])
    BY <2>1 DEF CollectionsOK, CollectionOK, Collected, FinishPhases
  <2>3. IsDaily(r) => slot[r] # {}
    BY <2>1 DEF StartAccepts, LegacyDaily, IsDaily, OInv, OutputsOK
  <2>4. ASSUME NEW s \in slot[r]
        PROVE  /\ try[r] = 1 /\ Admissible(s, now)
               /\ \E a \in attempts : a.slot = s /\ a.run = r /\ a.reservedAt <= now
    <3>1. IsDaily(r)
      BY DEF OInv, OutputsOK
    <3>2. proof[r] # {} /\ \A p \in proof[r] : try[r] = 1 /\ Admissible(p.slot, now)
      BY <2>1, <3>1 DEF StartAccepts, LegacyDaily, IsDaily
    <3>3. PICK p \in proof[r] : p.slot = s
      BY <3>2 DEF OInv, OutputsOK
    <3>4. p \in attempts /\ p.run = r /\ p.reservedAt <= now
      BY DEF ReceiptsOK, OInv, OutputsOK
    <3> QED
      BY <3>2, <3>3, <3>4
  <2>5. CollectionOK(c)'
    <3>1. try[r] \in Int
      BY DEF TInv, TypeOK, Tries
    <3>2. c.run = r /\ c.try = try[r] /\ c.slot = slot[r] /\ c.at = now
      BY <1>3
    <3>3. IsDaily(r)' = IsDaily(r) /\ try'[r] = try[r] /\ attempts' = attempts
      BY <2>1 DEF IsDaily
    <3>4. pc'[r] \in Collected
      BY <2>1 DEF Collected
    <3> QED
      BY <2>3, <2>4, <3>1, <3>2, <3>3, <3>4 DEF CollectionOK, Admissible
  <2> QED
    BY <2>1, <2>2, <2>5
<1>4. CASE collections' = collections
  BY <1>2, <1>4 DEF CollectionsOK
<1>5. ASSUME NEW r \in Runs, CollectStart(r) PROVE CollectionsOK'
  <2>0. PICK c : c = [run |-> r, try |-> try[r], slot |-> slot[r], at |-> now]
    OBVIOUS
  <2>1. /\ collections' = collections \cup {c}
        /\ CollectionOK(c)'
        /\ \A d \in collections : ~(d.run = r /\ d.try = try[r])
    BY <1>3, <1>5, <2>0
  <2>2. c.run = r /\ c.try = try[r]
    BY <2>0
  <2> QED
    BY <1>2, <2>1, <2>2 DEF CollectionsOK
<1> QED
  BY <1>4, <1>5, CollectionsGrow

LEMMA Invariance == Spec => []IInv
<1>1. IInv /\ [Next]_vars => IInv'
  <2> SUFFICES ASSUME IInv, [Next]_vars PROVE IInv'
    OBVIOUS
  <2>1. TInv'
    BY TInvStep DEF IInv
  <2>2. OInv'
    BY OInvStep DEF IInv
  <2>3. ReceiptsOK'
    BY <2>1, ReceiptsStep DEF IInv
  <2>4. CollectionsOK'
    BY <2>1, <2>3, CollectionsStep
  <2> QED
    BY <2>1, <2>2, <2>3, <2>4 DEF IInv
<1> QED
  BY IInvInit, <1>1, PTL DEF Spec

-----------------------------------------------------------------------------
(* The theorems.                                                           *)

\* A slot is collected at most once, over all runs and re-runs.
THEOREM SlotCollectedOnce == Spec => []OneCollectionPerSlot
<1>1. IInv => OneCollectionPerSlot
  <2> SUFFICES ASSUME IInv, NEW c \in collections, NEW d \in collections,
                      NEW s \in c.slot \cap d.slot
               PROVE  c = d
    BY DEF OneCollectionPerSlot
  <2>1. PICK a \in attempts : a.slot = s /\ a.run = c.run
    BY DEF IInv, CollectionsOK, CollectionOK
  <2>2. PICK b \in attempts : b.slot = s /\ b.run = d.run
    BY DEF IInv, CollectionsOK, CollectionOK
  <2>3. c.try = 1 /\ d.try = 1
    BY DEF IInv, CollectionsOK, CollectionOK
  <2>4. a = b
    BY <2>1, <2>2 DEF IInv, ReceiptsOK
  <2> QED
    BY <2>1, <2>2, <2>3, <2>4 DEF IInv, CollectionsOK
<1> QED
  BY Invariance, <1>1, PTL

\* In hybrid mode every daily collection starts inside the window of a slot
\* its own run had reserved before.
THEOREM CollectionsAreBacked == Spec => []CollectionBackedByReceipt
<1>1. IInv => CollectionBackedByReceipt
  BY DEF IInv, CollectionsOK, CollectionOK, CollectionBackedByReceipt
<1> QED
  BY Invariance, <1>1, PTL

-----------------------------------------------------------------------------
(* The receipts protocol implements SlotOnce.                              *)

LEMMA ResultsGrow ==
  ASSUME TInv, [Next]_vars
  PROVE  \/ results' = results
         \/ \E r \in Runs : /\ pc[r] = "finishput"
                            /\ ResultPutAccepts(r)
                            /\ results' = results \cup Outcome(r)
                            /\ UNCHANGED <<try, attempts, collections>>
<1> USE DEF identity, control, outputs, store, history
<1>1. ASSUME NEW r \in Runs, NEW next \in {"finishread", "done"}, PutResult(r, next)
      PROVE  /\ pc[r] = "finishput"
             /\ ResultPutAccepts(r)
             /\ results' = results \cup Outcome(r)
             /\ UNCHANGED <<try, attempts, collections>>
  <2>1. {f \in results : \A p \in proof[r] : f.attempt.slot # p.slot} = results
    BY <1>1 DEF PutResult, ResultPutAccepts, Reported
  <2> QED
    BY <1>1, <2>1 DEF PutResult
<1>2. ASSUME NEW r \in Runs, Advance(r),
             \A next \in {"finishread", "done"} : ~PutResult(r, next)
      PROVE  results' = results
  BY <1>2 DEF Advance, Fail, Promote, ResolveRoute, ReserveLookup, Stamp, PutAttempt, Readback,
     Recheck, CollectStart, CollectFail, CollectEnd, RunSec, SkipSec, BuildDone, SecFail,
     FinishLookup, ReadResult, Refuse, Crash, Abort
<1> QED
  BY <1>1, <1>2 DEF Next, Wake, Tick, Arrive, Rerun, vars

\* The refinement mapping of Promise
Owned    == {<<a.slot, a.run>> : a \in attempts}
Started  == UNION {{<<s, c.run, c.try>> : s \in c.slot} : c \in collections}
Recorded == {<<f.attempt.slot, f.attempt.run, f.try>> : f \in results}

LEMMA ReserveStep ==
  ASSUME IInv, NEW r \in Runs, PutAccepts(r), attempts' = attempts \cup Receipt(r),
         UNCHANGED <<collections, results>>
  PROVE  [Promise!Next]_Promise!vars
<1>1. Started' = Started /\ Recorded' = Recorded
  BY DEF Started, Recorded
<1>2. CASE slot[r] = {}
  <2>1. attempts' = attempts
    BY <1>2 DEF Receipt
  <2> QED
    BY <1>1, <2>1 DEF Promise!vars, Started, Recorded
<1>3. ASSUME NEW s \in slot[r] PROVE Promise!Reserve(s, r) /\ s \in Slots
  <2>1. slot[r] = {s} /\ s \in Slots
    BY <1>3 DEF IInv, OInv, OutputsOK, TInv, TypeOK
  <2>2. Receipt(r) = {[slot |-> s, run |-> r, reservedAt |-> stampedAt[r]]}
    BY <2>1 DEF Receipt
  <2>3. Owned' = Owned \cup {<<s, r>>}
    <3>1. PICK a : a = [slot |-> s, run |-> r, reservedAt |-> stampedAt[r]]
      OBVIOUS
    <3>2. attempts' = attempts \cup {a} /\ a.slot = s /\ a.run = r
      BY <2>2, <3>1
    <3> QED
      BY <3>2 DEF Owned
  <2>4. \A e \in Owned : e[1] # s
    BY <2>1 DEF PutAccepts, Taken, Owned
  <2> QED
    BY <1>1, <2>1, <2>3, <2>4 DEF Promise!Reserve, Promise!Unused, Owned, Started, Recorded
<1> QED
  BY <1>2, <1>3 DEF Promise!Next

LEMMA StartStep ==
  ASSUME IInv, TypeOK', CollectionsOK', OneCollectionPerSlot',
         NEW r \in Runs, CollectStart(r)
  PROVE  [Promise!Next]_Promise!vars
<1>1. PICK c : c = [run |-> r, try |-> try[r], slot |-> slot[r], at |-> now]
  OBVIOUS
<1>2. /\ collections' = collections \cup {c}
      /\ UNCHANGED <<attempts, results>>
  BY <1>1 DEF CollectStart, store
<1>3. Owned' = Owned /\ Recorded' = Recorded
  BY <1>2 DEF Owned, Recorded
<1>4. CASE slot[r] = {}
  <2>1. Started' = Started
    BY <1>1, <1>2, <1>4 DEF Started
  <2> QED
    BY <1>3, <2>1 DEF Promise!vars, Owned, Recorded, Started
<1>5. ASSUME NEW s \in slot[r], NEW k, k = try[r]
      PROVE  Promise!Start(s, r, k) /\ s \in Slots /\ k \in Tries
  <2>1. slot[r] = {s} /\ s \in Slots /\ try[r] \in Tries
    BY <1>5 DEF IInv, OInv, OutputsOK, TInv, TypeOK
  <2>2. Started' = Started \cup {<<s, r, k>>}
    BY <1>1, <1>2, <1>5, <2>1 DEF Started
  <2>3. <<s, r>> \in Owned
    <3>1. CollectionOK(c)'
      BY <1>2 DEF CollectionsOK
    <3>2. PICK a \in attempts : a.slot = s /\ a.run = r
      BY <1>1, <1>2, <2>1, <3>1 DEF CollectionOK
    <3> QED
      BY <3>2 DEF Owned
  <2>4. \A e \in Started : e[1] # s
    <3>1. ASSUME NEW d \in collections, s \in d.slot PROVE FALSE
      <4>1. d = c
        BY <1>1, <1>2, <2>1, <3>1 DEF OneCollectionPerSlot
      <4>2. pc[r] = "collect" /\ d.run = r /\ d.try = try[r]
        BY <1>1, <4>1 DEF CollectStart, Proceed
      <4> QED
        BY <4>2 DEF IInv, CollectionsOK, CollectionOK, Collected, FinishPhases
    <3> QED
      BY <3>1 DEF Started
  <2> QED
    BY <1>3, <1>5, <2>1, <2>2, <2>3, <2>4
       DEF Promise!Start, Promise!Unused, Owned, Started, Recorded
<1>6. ASSUME NEW s \in slot[r] PROVE Promise!Next
  <2>1. PICK k : k = try[r]
    OBVIOUS
  <2>2. Promise!Start(s, r, k) /\ s \in Slots /\ k \in Tries
    BY <1>5, <2>1
  <2> QED
    BY <2>2 DEF Promise!Next
<1> QED
  BY <1>4, <1>6

LEMMA ReportStep ==
  ASSUME IInv, NEW r \in Runs, ResultPutAccepts(r), results' = results \cup Outcome(r),
         UNCHANGED <<attempts, collections>>
  PROVE  [Promise!Next]_Promise!vars
<1>1. Owned' = Owned /\ Started' = Started
  BY DEF Owned, Started
<1>2. CASE proof[r] = {}
  <2>1. results' = results
    BY <1>2 DEF Outcome
  <2> QED
    BY <1>1, <2>1 DEF Promise!vars, Owned, Started
<1>3. ASSUME NEW p \in proof[r], NEW s, NEW k, s = p.slot, k = try[r]
      PROVE  Promise!Report(s, r, k) /\ s \in Slots /\ k \in Tries
  <2>1. p \in attempts /\ p.run = r /\ p.slot \in Slots /\ try[r] \in Tries
    BY <1>3 DEF IInv, OInv, OutputsOK, ReceiptsOK, TInv, TypeOK, Attempts
  <2>2. proof[r] = {p}
    BY <1>3 DEF IInv, OInv, OutputsOK, ReceiptsOK
  <2>3. Outcome(r) = {[attempt |-> p, try |-> try[r], collector |-> exit[r]]}
    BY <2>2 DEF Outcome
  <2>4. Recorded' = Recorded \cup {<<s, r, k>>}
    <3>1. PICK f : f = [attempt |-> p, try |-> try[r], collector |-> exit[r]]
      OBVIOUS
    <3>2. results' = results \cup {f}
      BY <2>3, <3>1
    <3>3. f.attempt.slot = s /\ f.attempt.run = r /\ f.try = k
      BY <1>3, <2>1, <3>1
    <3> QED
      BY <3>2, <3>3 DEF Recorded
  <2>5. \A e \in Recorded : e[1] # s
    BY <1>3 DEF ResultPutAccepts, Reported, Recorded
  <2>6. <<s, r>> \in Owned
    BY <1>3, <2>1 DEF Owned
  <2> QED
    BY <1>1, <1>3, <2>1, <2>4, <2>5, <2>6
       DEF Promise!Report, Promise!Unused, Owned, Started, Recorded
<1>4. ASSUME NEW p \in proof[r] PROVE Promise!Next
  <2>1. PICK s, k : s = p.slot /\ k = try[r]
    OBVIOUS
  <2>2. Promise!Report(s, r, k) /\ s \in Slots /\ k \in Tries
    BY <1>3, <2>1
  <2> QED
    BY <2>2 DEF Promise!Next
<1> QED
  BY <1>2, <1>4

\* Every step of the jobs is a step of SlotOnce or leaves its state alone.
THEOREM AdmissionImplementsSlotOnce == Spec => ImplementsSlotOnce
<1>1. Init => Promise!Init
  BY DEF Init, Promise!Init
<1>2. IInv /\ IInv' /\ OneCollectionPerSlot' /\ [Next]_vars => [Promise!Next]_Promise!vars
  <2> SUFFICES ASSUME IInv, IInv', OneCollectionPerSlot', [Next]_vars
               PROVE  [Promise!Next]_Promise!vars
    OBVIOUS
  <2>1. CASE attempts' # attempts
    BY <2>1, AttemptsGrow, ReserveStep DEF IInv
  <2>2. ASSUME NEW r \in Runs, CollectStart(r) PROVE [Promise!Next]_Promise!vars
    BY <2>2, StartStep DEF IInv, TInv
  <2>3. CASE results' # results
    BY <2>3, ResultsGrow, ReportStep DEF IInv
  <2>4. CASE attempts' = attempts /\ collections' = collections /\ results' = results
    BY <2>4 DEF Promise!vars
  <2> QED
    BY <2>1, <2>2, <2>3, <2>4, CollectionsGrow DEF IInv
<1> QED
  BY <1>1, <1>2, Invariance, SlotCollectedOnce, PTL DEF Spec, ImplementsSlotOnce, Promise!Spec

\* Receipts are never removed or rewritten.
THEOREM ReceiptsStay == Spec => ReceiptsAreImmutable
<1>1. TInv /\ [Next]_vars => [attempts \subseteq attempts' /\ results \subseteq results']_store
  BY AttemptsGrow, ResultsGrow
<1>2. Spec => []TInv
  BY TInvInit, TInvStep, PTL DEF Spec
<1> QED
  BY <1>1, <1>2, PTL DEF Spec, ReceiptsAreImmutable

-----------------------------------------------------------------------------
(* What a reservation stands for.                                          *)

\* A slot that make_slot returns
IsSlot(s) ==
  /\ s = [day |-> s.day, batch |-> s.batch]
  /\ s.day \in Int /\ s.batch \in Batches /\ CollectionDay(s.day)

LEMMA MadeSlot ==
  ASSUME NEW day \in Int, NEW b, NEW s \in MakeSlot(day, b)
  PROVE  IsSlot(s)
BY DEF MakeSlot, IsSlot

LEMMA WakeSlotForm == \A s \in Slots : IsSlot(s)
<1> SUFFICES ASSUME NEW s \in Slots PROVE IsSlot(s)
  OBVIOUS
<1>1. PICK sig \in Signals, c \in Instants : s \in WakeSlot(sig, c)
  BY DEF Slots
<1>2. c \in Int /\ sig.at \in Int
  BY TimeAssumption, SignalAssumption
<1>3. KstDay(sig.at) \in Int /\ \A i \in 0..7 : KstDay(c) - i \in Int
  BY <1>2 DEF KstDay, KstOffset, MinutesPerDay
<1>4. \E day \in Int : \E b : s \in MakeSlot(day, b)
  BY <1>1, <1>3 DEF WakeSlot, NativeSlot, NativeCandidates, RequestedSlot
<1> QED
  BY <1>4, MadeSlot

\* Windows do not overlap: the slot that is open at an instant is the due one
LEMMA OpenIsDue ==
  ASSUME NEW s, IsSlot(s), NEW t \in Int, Open(s, t)
  PROVE  DueSlot(t) = {s}
<1>1. /\ s.day \in Int /\ s.batch \in Batches /\ CollectionDay(s.day)
      /\ s = [day |-> s.day, batch |-> s.batch]
  BY DEF IsSlot
<1>2. \A day \in Int, b \in Batches :
        Open([day |-> day, batch |-> b], t) =>
          /\ day = KstDay(t)
          /\ b = IF t + KstOffset < day * MinutesPerDay + 613 THEN "first" ELSE "second"
  BY DEF Open, ScheduledFor, StartBefore, Window, Hour, Batches, KstDay, KstOffset, MinutesPerDay
<1>3. s.day = KstDay(t)
  BY <1>1, <1>2
<1>4. s \in DueSlot(t)
  BY <1>1, <1>3 DEF DueSlot, MakeSlot
<1>5. ASSUME NEW u \in DueSlot(t) PROVE u = s
  <2>1. PICK b \in Batches : u = [day |-> s.day, batch |-> b] /\ Open(u, t)
    BY <1>3, <1>5 DEF DueSlot, MakeSlot
  <2>2. b = s.batch
    BY <1>1, <1>2, <2>1
  <2> QED
    BY <1>1, <2>1, <2>2
<1> QED
  BY <1>4, <1>5

\* The wake signal of the run stands for the slot
WakeOf(r, s) ==
  /\ pc[r] # "new"
  /\ signal[r].main /\ signal[r].name # "stage3"
  /\ s \in WakeSlot(signal[r], created[r])

\* A run holds the slot of its own wake, its reservation is stamped while that
\* slot is open, and so is every receipt
WakesOK ==
  /\ \A r \in Runs : \A s \in slot[r] : WakeOf(r, s)
  /\ \A r \in Runs : pc[r] \in {"put", "readback"} => \A s \in slot[r] : Open(s, stampedAt[r])
  /\ \A a \in attempts : WakeOf(a.run, a.slot) /\ Open(a.slot, a.reservedAt)

\* A run that exists keeps its identity
LEMMA IdentityStep ==
  ASSUME TInv, [Next]_vars, NEW q \in Runs, pc[q] # "new"
  PROVE  /\ pc'[q] # "new"
         /\ signal'[q] = signal[q] /\ mode'[q] = mode[q] /\ created'[q] = created[q]
<1> USE DEF identity, control, outputs, store, history, TInv, TypeOK
<1>1. ASSUME NEW r \in Runs, Advance(r)
      PROVE  UNCHANGED identity /\ pc'[q] # "new"
  <2> USE DEF BuildPhases, AfterBuild
  <2>1. CASE Fail(r)
    BY <2>1 DEF Fail
  <2>2. CASE Promote(r)
    BY <2>2 DEF Promote, Identified, Jobs
  <2>3. CASE ~Fail(r) /\ ~Promote(r)
    BY <1>1, <2>3 DEF Advance, Proceed, ResolveRoute, ReserveLookup, Stamp, PutAttempt,
       Readback, Recheck, CollectStart, CollectFail, CollectEnd, RunSec, SkipSec, BuildDone,
       SecFail, FinishLookup, PutResult, ReadResult, Refuse, Crash, Abort
  <2> QED
    BY <2>1, <2>2, <2>3
<1>2. ASSUME NEW r \in Runs, NEW s \in Signals, Arrive(r, s)
      PROVE  /\ pc[r] = "new" /\ pc'[q] # "new" /\ mode' = mode
             /\ q # r => signal'[q] = signal[q] /\ created'[q] = created[q]
  BY <1>2 DEF Arrive, Enter, Group
<1>3. ASSUME NEW r \in Runs, NEW job \in Jobs, Rerun(r, job)
      PROVE  UNCHANGED identity /\ pc'[q] # "new"
  BY <1>3 DEF Rerun, Enter, Group, Jobs
<1> QED
  BY <1>1, <1>2, <1>3 DEF Next, Wake, Tick, vars

\* The slot and the instant of a reservation are set in one place each
LEMMA ReservationStep ==
  ASSUME TInv, [Next]_vars, NEW q \in Runs
  PROVE  /\ slot'[q] \subseteq slot[q] \/ ResolveRoute(q)
         /\ pc'[q] \in {"put", "readback"} =>
              /\ slot'[q] = slot[q]
              /\ \/ Stamp(q)
                 \/ pc[q] \in {"put", "readback"} /\ stampedAt'[q] = stampedAt[q]
<1> USE DEF identity, control, outputs, store, history, TInv, TypeOK, Identified
<1>1. ASSUME NEW r \in Runs, Advance(r)
      PROVE  /\ slot'[q] \subseteq slot[q] \/ ResolveRoute(q)
             /\ pc'[q] \in {"put", "readback"} =>
                  /\ slot'[q] = slot[q]
                  /\ \/ Stamp(q)
                     \/ pc[q] \in {"put", "readback"} /\ stampedAt'[q] = stampedAt[q]
  <2> USE DEF BuildPhases, AfterBuild, Proceed, Jobs
  <2>1. CASE Fail(r)
    BY <2>1 DEF Fail
  <2>2. CASE ResolveRoute(r) \/ Stamp(r) \/ Promote(r)
    BY <2>2 DEF ResolveRoute, Stamp, Promote
  <2>3. CASE ~Fail(r) /\ ~ResolveRoute(r) /\ ~Stamp(r) /\ ~Promote(r)
    BY <1>1, <2>3 DEF Advance, ReserveLookup, PutAttempt,
       Readback, Recheck, CollectStart, CollectFail, CollectEnd, RunSec, SkipSec, BuildDone,
       SecFail, FinishLookup, PutResult, ReadResult, Refuse, Crash, Abort
  <2> QED
    BY <2>1, <2>2, <2>3
<1>2. ASSUME NEW r \in Runs, NEW s \in Signals, Arrive(r, s)
      PROVE  /\ slot' = slot /\ stampedAt' = stampedAt
             /\ pc'[q] \in {"put", "readback"} => pc'[q] = pc[q]
  BY <1>2 DEF Arrive, Enter, Group
<1>3. ASSUME NEW r \in Runs, NEW job \in Jobs, Rerun(r, job)
      PROVE  /\ slot'[q] \subseteq slot[q] /\ stampedAt' = stampedAt
             /\ pc'[q] \in {"put", "readback"} => pc'[q] = pc[q] /\ slot'[q] = slot[q]
  BY <1>3 DEF Rerun, Enter, Group, Jobs
<1> QED
  BY <1>1, <1>2, <1>3 DEF Next, Wake, Tick, vars

LEMMA WakesStep == IInv /\ WakesOK /\ [Next]_vars => WakesOK'
<1> SUFFICES ASSUME IInv, WakesOK, [Next]_vars PROVE WakesOK'
  OBVIOUS
<1> USE DEF IInv
<1>1. ASSUME NEW r \in Runs, NEW s, WakeOf(r, s) PROVE WakeOf(r, s)'
  BY <1>1, IdentityStep DEF WakeOf
<1>2. ASSUME NEW r \in Runs, NEW s \in slot'[r] PROVE WakeOf(r, s)'
  <2>1. CASE s \in slot[r]
    BY <1>1, <2>1 DEF WakesOK
  <2>2. CASE ResolveRoute(r)
    BY <1>1, <1>2, <2>2 DEF ResolveRoute, Proceed, IsDaily, Resolve, WakeOf, TInv, TypeOK
  <2> QED
    BY <2>1, <2>2, ReservationStep
<1>3. ASSUME NEW r \in Runs, pc'[r] \in {"put", "readback"}, NEW s \in slot'[r]
      PROVE  Open(s, stampedAt'[r])
  <2>1. CASE Stamp(r)
    BY <1>3, <2>1 DEF Stamp, StampAccepts, TInv, TypeOK, outputs
  <2>2. CASE ~Stamp(r)
    BY <1>3, <2>2, ReservationStep DEF WakesOK
  <2> QED
    BY <2>1, <2>2
<1>4. ASSUME NEW a \in attempts' PROVE WakeOf(a.run, a.slot)' /\ Open(a.slot, a.reservedAt)
  <2>1. CASE a \in attempts
    BY <1>1, <2>1 DEF WakesOK, TInv, TypeOK, Attempts
  <2>2. ASSUME NEW r \in Runs, pc[r] = "put", a \in Receipt(r)
        PROVE  WakeOf(a.run, a.slot)' /\ Open(a.slot, a.reservedAt)
    <3>1. a.slot \in slot[r] /\ a.run = r /\ a.reservedAt = stampedAt[r]
      BY <2>2 DEF Receipt
    <3> QED
      BY <1>1, <2>2, <3>1 DEF WakesOK
  <2> QED
    BY <2>1, <2>2, AttemptsGrow
<1> QED
  BY <1>2, <1>3, <1>4 DEF WakesOK

LEMMA WakesInvariance == Spec => []WakesOK
<1>1. Init => WakesOK
  BY DEF Init, WakesOK
<1> QED
  BY <1>1, WakesStep, Invariance, PTL DEF Spec

\* Every reservation is for the slot its own wake signal stood for, which was
\* the due one when it was reserved.
THEOREM ReceiptsNameTheirWake == Spec => []ReceiptNamesItsWake
<1>1. IInv /\ WakesOK => ReceiptNamesItsWake
  <2> SUFFICES ASSUME IInv, WakesOK, NEW a \in attempts
               PROVE  /\ signal[a.run].main /\ signal[a.run].name # "stage3"
                      /\ a.slot \in WakeSlot(signal[a.run], created[a.run])
                      /\ DueSlot(a.reservedAt) = {a.slot}
    BY DEF ReceiptNamesItsWake
  <2>1. a.slot \in Slots /\ a.reservedAt \in Int
    BY TimeAssumption DEF IInv, TInv, TypeOK, Attempts
  <2>2. WakeOf(a.run, a.slot) /\ Open(a.slot, a.reservedAt)
    BY DEF WakesOK
  <2> QED
    BY <2>1, <2>2, WakeSlotForm, OpenIsDue DEF WakeOf
<1> QED
  BY <1>1, WakesInvariance, Invariance, PTL

-----------------------------------------------------------------------------
(* What an execution reports about its collector.                          *)

\* Run r started the collector for the slot it holds
Collects(r) == \E c \in collections : c.run = r /\ c.slot = slot[r]

\* Past the start of its collector an execution finds that start recorded; a
\* claimed outcome has a start behind it, and "skipped" has none
ExitsOK ==
  \A r \in Runs :
    /\ pc[r] \in BuildPhases => resume[r] = "build"
    /\ resume[r] = "route" => exit[r] \notin {"success", "cancelled"}
    /\ pc[r] \in {"collecting", "sec"} =>
         \E c \in collections : c.run = r /\ c.try = try[r] /\ c.slot = slot[r]
    /\ exit[r] \in {"success", "cancelled"} => Collects(r)
    /\ exit[r] = "skipped" /\ try[r] = 1 => \A c \in collections : c.run # r

\* A result was written by an execution that is past its collector
ResultsOK ==
  \A f \in results :
    /\ f.try <= try[f.attempt.run]
    /\ f.try = try[f.attempt.run] => pc[f.attempt.run] \in Collected

\* An execution that exists goes on to the next place of its own run
LEMMA CollectingStep ==
  ASSUME TInv, [Next]_vars, NEW q \in Runs
  PROVE  /\ pc'[q] \in {"collecting", "sec"} =>
              /\ try'[q] = try[q] /\ slot'[q] = slot[q]
              /\ CollectStart(q) \/ pc[q] \in {"collecting", "sec"}
         /\ exit'[q] \in {"success", "cancelled"} =>
              \/ pc[q] = "collecting" /\ try'[q] = try[q] /\ slot'[q] = slot[q]
              \/ exit'[q] = exit[q] /\ slot'[q] = slot[q]
              \/ exit'[q] = exit[q] /\ pc[q] = "route"
         /\ exit'[q] = "skipped" =>
              \/ pc[q] = "build" /\ try'[q] = try[q] /\ collections' = collections
              \/ exit[q] = "skipped" /\ ~CollectStart(q)
<1> USE DEF identity, control, outputs, store, history, TInv, TypeOK, Identified
<1>1. ASSUME NEW r \in Runs, Advance(r)
      PROVE  /\ try'[q] = try[q]
             /\ pc'[q] \in {"collecting", "sec"} =>
                  /\ slot'[q] = slot[q]
                  /\ CollectStart(q) \/ pc[q] \in {"collecting", "sec"}
             /\ exit'[q] \in {"success", "cancelled"} =>
                  \/ pc[q] = "collecting" /\ slot'[q] = slot[q]
                  \/ exit'[q] = exit[q] /\ slot'[q] = slot[q]
                  \/ exit'[q] = exit[q] /\ pc[q] = "route"
             /\ exit'[q] = "skipped" =>
                  \/ pc[q] = "build" /\ collections' = collections
                  \/ exit[q] = "skipped" /\ ~CollectStart(q)
  <2> USE DEF BuildPhases, AfterBuild, Proceed, Jobs
  <2>1. CASE Refuse(r) \/ Crash(r) \/ Abort(r)
    BY <2>1 DEF Refuse, Crash, Abort, Fail, CollectStart, Running
  <2>2. CASE ResolveRoute(r) \/ Promote(r)
    BY <2>2 DEF ResolveRoute, Promote, CollectStart
  <2>3. CASE Recheck(r) \/ CollectStart(r) \/ CollectFail(r) \/ CollectEnd(r)
    BY <2>3 DEF Recheck, CollectStart, CollectFail, CollectEnd, Fail
  <2>4. CASE RunSec(r) \/ SkipSec(r) \/ SecFail(r)
    BY <2>4 DEF RunSec, SkipSec, SecFail, BuildDone, CollectStart
  <2>5. CASE ReserveLookup(r) \/ Stamp(r) \/ Readback(r) \/ FinishLookup(r) \/ ReadResult(r)
    BY <2>5 DEF ReserveLookup, Stamp, Readback, FinishLookup, ReadResult, CollectStart
  <2>6. ASSUME NEW next, PutAttempt(r, next) \/ PutResult(r, next)
        PROVE  /\ UNCHANGED <<try, exit, slot>> /\ ~CollectStart(q)
               /\ pc'[q] \in {"collecting", "sec"} => pc'[q] = pc[q]
    BY <2>6 DEF PutAttempt, PutResult, CollectStart
  <2> QED
    BY <1>1, <2>1, <2>2, <2>3, <2>4, <2>5, <2>6 DEF Advance
<1>2. ASSUME NEW r \in Runs, NEW s \in Signals, Arrive(r, s)
      PROVE  /\ UNCHANGED <<try, slot, exit, collections>>
             /\ pc'[q] \in {"collecting", "sec"} => pc'[q] = pc[q]
             /\ ~CollectStart(q)
  BY <1>2 DEF Arrive, Enter, Group, CollectStart, Proceed
<1>3. ASSUME NEW r \in Runs, NEW job \in Jobs, Rerun(r, job)
      PROVE  /\ pc'[q] \in {"collecting", "sec"} =>
                  pc'[q] = pc[q] /\ slot'[q] = slot[q] /\ try'[q] = try[q]
             /\ exit'[q] # "unknown" => exit'[q] = exit[q] /\ slot'[q] = slot[q]
             /\ ~CollectStart(q)
  BY <1>3 DEF Rerun, Enter, Group, Jobs, CollectStart, Proceed
<1>4. CASE UNCHANGED vars
  BY <1>4 DEF vars, CollectStart, Proceed
<1> QED
  BY <1>1, <1>2, <1>3, <1>4 DEF Next, Wake, Tick, CollectStart, Proceed

\* A job that fails stays the one to resume with
LEMMA ResumeStep ==
  ASSUME TInv, [Next]_vars, NEW q \in Runs, pc[q] \in BuildPhases => resume[q] = "build"
  PROVE  /\ pc'[q] \in BuildPhases => resume'[q] = "build"
         /\ resume'[q] = "route" =>
              \/ exit'[q] = "unknown"
              \/ resume[q] = "route" /\ pc[q] \notin BuildPhases /\ exit'[q] = exit[q]
<1> USE DEF identity, control, outputs, store, history, TInv, TypeOK, Identified, BuildPhases
<1>1. ASSUME NEW r \in Runs, Advance(r)
      PROVE  /\ pc'[q] \in BuildPhases => resume'[q] = "build"
             /\ resume'[q] = "route" =>
                  /\ resume[q] = "route"
                  /\ pc[q] \notin BuildPhases /\ exit'[q] = exit[q]
  <2> USE DEF AfterBuild, Proceed, Jobs
  <2>1. CASE Refuse(r) \/ Crash(r) \/ Abort(r)
    BY <2>1 DEF Refuse, Crash, Abort, Fail, Running
  <2>2. CASE ResolveRoute(r) \/ Promote(r)
    BY <2>2 DEF ResolveRoute, Promote
  <2>3. CASE Recheck(r) \/ CollectStart(r) \/ CollectFail(r) \/ CollectEnd(r)
    BY <2>3 DEF Recheck, CollectStart, CollectFail, CollectEnd, Fail
  <2>4. CASE RunSec(r) \/ SkipSec(r) \/ SecFail(r)
    BY <2>4 DEF RunSec, SkipSec, SecFail, BuildDone
  <2>5. CASE ReserveLookup(r) \/ Stamp(r) \/ Readback(r) \/ FinishLookup(r) \/ ReadResult(r)
    BY <2>5 DEF ReserveLookup, Stamp, Readback, FinishLookup, ReadResult
  <2>6. ASSUME NEW next, PutAttempt(r, next) \/ PutResult(r, next)
        PROVE  /\ UNCHANGED <<resume, exit>>
               /\ pc'[q] \in BuildPhases => pc'[q] = pc[q]
               /\ q = r => pc[q] \notin BuildPhases
    BY <2>6 DEF PutAttempt, PutResult
  <2> QED
    BY <1>1, <2>1, <2>2, <2>3, <2>4, <2>5, <2>6 DEF Advance
<1>2. ASSUME NEW r \in Runs, NEW s \in Signals, Arrive(r, s)
      PROVE  /\ UNCHANGED <<resume, exit>>
             /\ pc'[q] \in BuildPhases => pc'[q] = pc[q]
             /\ pc[q] \in BuildPhases => resume[q] = "build"
  BY <1>2 DEF Arrive, Enter, Group
<1>3. ASSUME NEW r \in Runs, NEW job \in Jobs, Rerun(r, job)
      PROVE  /\ q # r => resume'[q] = resume[q] /\ exit'[q] = exit[q]
             /\ q = r => resume'[q] = job /\ (job = "route" => exit'[q] = "unknown")
             /\ pc'[q] \in BuildPhases => pc'[q] = pc[q] \/ pc'[q] = resume'[q]
             /\ q = r => pc[q] \notin BuildPhases
  BY <1>3 DEF Rerun, Enter, Group
<1>4. CASE UNCHANGED vars
  BY <1>4 DEF vars
<1> QED
  BY <1>1, <1>2, <1>3, <1>4 DEF Next, Wake, Tick, Jobs

LEMMA ExitsStep == IInv /\ ExitsOK /\ [Next]_vars => ExitsOK'
<1> SUFFICES ASSUME IInv, ExitsOK, [Next]_vars, NEW r \in Runs
             PROVE  /\ pc'[r] \in BuildPhases => resume'[r] = "build"
                    /\ resume'[r] = "route" => exit'[r] \notin {"success", "cancelled"}
                    /\ pc'[r] \in {"collecting", "sec"} =>
                         \E c \in collections' :
                           c.run = r /\ c.try = try'[r] /\ c.slot = slot'[r]
                    /\ exit'[r] \in {"success", "cancelled"} => Collects(r)'
                    /\ exit'[r] = "skipped" /\ try'[r] = 1 => \A c \in collections' : c.run # r
  BY DEF ExitsOK
<1> USE DEF IInv
<1>g. collections \subseteq collections'
  BY CollectionsGrow DEF CollectStart
<1>1. /\ pc'[r] \in BuildPhases => resume'[r] = "build"
      /\ resume'[r] = "route" => exit'[r] \notin {"success", "cancelled"}
  BY ResumeStep DEF ExitsOK
<1>2. ASSUME pc'[r] \in {"collecting", "sec"}
      PROVE  \E c \in collections' : c.run = r /\ c.try = try'[r] /\ c.slot = slot'[r]
  <2>1. try'[r] = try[r] /\ slot'[r] = slot[r]
    BY <1>2, CollectingStep
  <2>2. CASE CollectStart(r)
    <3>1. PICK c : c = [run |-> r, try |-> try[r], slot |-> slot[r], at |-> now]
      OBVIOUS
    <3>2. c \in collections' /\ c.run = r /\ c.try = try[r] /\ c.slot = slot[r]
      BY <2>2, <3>1 DEF CollectStart
    <3> QED
      BY <2>1, <3>2
  <2>3. CASE pc[r] \in {"collecting", "sec"}
    BY <1>g, <2>1, <2>3 DEF ExitsOK
  <2> QED
    BY <1>2, <2>2, <2>3, CollectingStep
<1>3. ASSUME exit'[r] \in {"success", "cancelled"} PROVE Collects(r)'
  <2>1. pc[r] = "route" => exit[r] \notin {"success", "cancelled"}
    BY DEF OInv, OutputsOK, ExitsOK
  <2>2. Collects(r) /\ slot'[r] = slot[r]
    BY <1>3, <2>1, CollectingStep DEF ExitsOK, Collects
  <2> QED
    BY <1>g, <2>2 DEF Collects
<1>4. ASSUME exit'[r] = "skipped", try'[r] = 1, NEW c \in collections' PROVE c.run # r
  <2>1. try[r] = 1
    <3>1. try[r] \in Nat /\ try[r] >= 1 /\ try'[r] \in {try[r], try[r] + 1}
      BY ExecutionStep DEF TInv, TypeOK, Tries
    <3> QED
      BY <1>4, <3>1
  <2>2. CASE pc[r] = "build" /\ collections' = collections
    <3>1. c.run \in Runs /\ c.try \in Nat /\ c.try >= 1 /\ CollectionOK(c)
      BY <1>4, <2>2 DEF CollectionsOK, TInv, TypeOK, Collections, Tries
    <3> QED
      BY <2>1, <2>2, <3>1 DEF CollectionOK, Collected, FinishPhases
  <2>3. CASE exit[r] = "skipped" /\ ~CollectStart(r)
    <3>1. \A d \in collections : d.run # r
      BY <2>1, <2>3 DEF ExitsOK
    <3>2. c \in collections \/ \E q \in Runs : CollectStart(q) /\ c.run = q
      BY CollectionsGrow DEF CollectStart
    <3> QED
      BY <2>3, <3>1, <3>2
  <2> QED
    BY <1>4, <2>2, <2>3, CollectingStep
<1> QED
  BY <1>1, <1>2, <1>3, <1>4

LEMMA ResultsStep ==
  IInv /\ TInv' /\ ResultsOK /\ [Next]_vars => ResultsOK'
<1> SUFFICES ASSUME IInv, TInv', ResultsOK, [Next]_vars, NEW f \in results'
             PROVE  /\ f.try <= try'[f.attempt.run]
                    /\ f.try = try'[f.attempt.run] => pc'[f.attempt.run] \in Collected
  BY DEF ResultsOK
<1>1. CASE f \in results
  <2>1. /\ f.attempt.run \in Runs /\ f.try \in Int /\ try[f.attempt.run] \in Int
        /\ f.try <= try[f.attempt.run]
        /\ f.try = try[f.attempt.run] => pc[f.attempt.run] \in Collected
    BY <1>1 DEF IInv, TInv, TypeOK, Results, Attempts, Tries, ResultsOK
  <2>2. /\ try'[f.attempt.run] \in {try[f.attempt.run], try[f.attempt.run] + 1}
        /\ pc[f.attempt.run] \in Collected /\ try'[f.attempt.run] = try[f.attempt.run]
             => pc'[f.attempt.run] \in Collected
    BY <2>1, ExecutionStep DEF IInv
  <2> QED
    BY <2>1, <2>2
<1>2. CASE f \notin results
  <2>1. PICK r \in Runs : /\ pc[r] = "finishput" /\ try'[r] = try[r]
                          /\ f \in Outcome(r)
    BY <1>2, ResultsGrow DEF IInv
  <2>2. f.attempt.run = r /\ f.try = try[r]
    BY <2>1 DEF Outcome, IInv, OInv, OutputsOK
  <2>3. pc'[r] \in Collected
    BY <2>1, ExecutionStep DEF IInv, Collected, FinishPhases
  <2>4. try[r] \in Int
    BY DEF IInv, TInv, TypeOK, Tries
  <2> QED
    BY <2>1, <2>2, <2>3, <2>4
<1> QED
  BY <1>1, <1>2

LEMMA OutcomeStep ==
  IInv /\ CollectionsOK' /\ ExitsOK /\ ResultsOK /\ ResultTellsTheTruth /\ [Next]_vars
    => ResultTellsTheTruth'
<1> SUFFICES ASSUME IInv, CollectionsOK', ExitsOK, ResultsOK, ResultTellsTheTruth,
                    [Next]_vars, NEW f \in results'
             PROVE  /\ f.collector \in {"success", "cancelled"} =>
                         \E c \in collections' : c.run = f.attempt.run /\ f.attempt.slot \in c.slot
                    /\ f.collector = "skipped" /\ f.try = 1 =>
                         \A c \in collections' : ~(c.run = f.attempt.run /\ f.attempt.slot \in c.slot)
  BY DEF ResultTellsTheTruth
<1> USE DEF IInv
<1>g. collections \subseteq collections'
  BY CollectionsGrow DEF CollectStart
<1>1. CASE f \in results
  <2>1. ASSUME f.collector \in {"success", "cancelled"}
        PROVE  \E c \in collections' : c.run = f.attempt.run /\ f.attempt.slot \in c.slot
    BY <1>1, <1>g, <2>1 DEF ResultTellsTheTruth
  <2>2. ASSUME f.collector = "skipped", f.try = 1, NEW c \in collections',
               c.run = f.attempt.run, f.attempt.slot \in c.slot
        PROVE  FALSE
    <3>1. c \notin collections
      BY <1>1, <2>2 DEF ResultTellsTheTruth
    <3>2. PICK r \in Runs : CollectStart(r)
      BY <3>1, CollectionsGrow
    <3>3. pc[r] = "collect" /\ c.run = r /\ c.try = try[r]
      BY <3>1, <3>2 DEF CollectStart, Proceed
    <3>4. c.try = 1
      BY <2>2 DEF CollectionsOK, CollectionOK
    <3>5. pc[r] \in Collected
      BY <1>1, <2>2, <3>3, <3>4 DEF ResultsOK
    <3> QED
      BY <3>3, <3>5 DEF Collected, FinishPhases
  <2> QED
    BY <2>1, <2>2
<1>2. CASE f \notin results
  <2>1. PICK r \in Runs : f \in Outcome(r) /\ UNCHANGED <<try, collections>>
    BY <1>2, ResultsGrow
  <2>2. PICK p \in proof[r] :
          f.attempt = p /\ f.try = try[r] /\ f.collector = exit[r]
    BY <2>1 DEF Outcome
  <2>3. p.run = r /\ slot[r] = {p.slot}
    BY DEF OInv, OutputsOK
  <2>4. ASSUME f.collector \in {"success", "cancelled"}
        PROVE  \E c \in collections' : c.run = f.attempt.run /\ f.attempt.slot \in c.slot
    <3>1. Collects(r)
      BY <2>2, <2>4 DEF ExitsOK, OInv, OutputsOK
    <3> QED
      BY <1>g, <2>2, <2>3, <3>1 DEF Collects
  <2>5. ASSUME f.collector = "skipped", f.try = 1
        PROVE  \A c \in collections' : c.run # r
    BY <2>1, <2>2, <2>5 DEF ExitsOK
  <2> QED
    BY <2>2, <2>3, <2>4, <2>5
<1> QED
  BY <1>1, <1>2

\* A result never claims a collector that did not start, and a first execution
\* never reports "skipped" over one that did.
THEOREM ResultsTellTheTruth == Spec => []ResultTellsTheTruth
<1>1. Init => ExitsOK /\ ResultsOK /\ ResultTellsTheTruth
  BY DEF Init, ExitsOK, ResultsOK, ResultTellsTheTruth, BuildPhases
<1>2. /\ IInv /\ IInv' /\ [Next]_vars
      /\ ExitsOK /\ ResultsOK /\ ResultTellsTheTruth
      => (ExitsOK /\ ResultsOK /\ ResultTellsTheTruth)'
  BY ExitsStep, ResultsStep, OutcomeStep DEF IInv
<1> QED
  BY <1>1, <1>2, Invariance, PTL DEF Spec

-----------------------------------------------------------------------------
(* The SEC producer.                                                       *)

\* The start of the collector that an execution of the producer follows
Precedes(c, e) ==
  /\ c.run = e[1] /\ c.try = e[2]
  /\ SecEnabled
  /\ IF mode[c.run] = "hybrid"
       THEN \E s \in c.slot : s.batch = "second"
       ELSE signal[c.run].name = "schedule" /\ signal[c.run].batch = "second"

SecOK(e) == \E c \in collections : Precedes(c, e)

LEMMA SecRunsGrow ==
  ASSUME TInv, [Next]_vars
  PROVE  \/ secRuns' = secRuns
         \/ \E r \in Runs : /\ pc[r] = "sec" /\ SecAccepts(r)
                            /\ secRuns' = secRuns \cup {<<r, try[r]>>}
<1> USE DEF identity, control, outputs, store, history
<1>1. ASSUME NEW r \in Runs, RunSec(r) \/ SecFail(r)
      PROVE  /\ pc[r] = "sec" /\ SecAccepts(r)
             /\ secRuns' = secRuns \cup {<<r, try[r]>>}
  BY <1>1 DEF RunSec, SecFail, BuildDone, Proceed
<1>2. ASSUME NEW r \in Runs, Advance(r), ~RunSec(r), ~SecFail(r)
      PROVE  secRuns' = secRuns
  BY <1>2 DEF Advance, Fail, Promote, ResolveRoute, ReserveLookup, Stamp, PutAttempt, Readback,
     Recheck, CollectStart, CollectFail, CollectEnd, SkipSec, BuildDone, FinishLookup,
     PutResult, ReadResult, Refuse, Crash, Abort
<1> QED
  BY <1>1, <1>2 DEF Next, Wake, Tick, Arrive, Rerun, vars

LEMMA SecStep ==
  IInv /\ ExitsOK /\ (\A e \in secRuns : SecOK(e)) /\ [Next]_vars
    => (\A e \in secRuns : SecOK(e))'
<1> SUFFICES ASSUME IInv, ExitsOK, \A e \in secRuns : SecOK(e), [Next]_vars,
                    NEW e \in secRuns'
             PROVE  SecOK(e)'
  OBVIOUS
<1> USE DEF IInv
<1>1. collections \subseteq collections'
  BY CollectionsGrow DEF CollectStart
<1>2. SecOK(e)
  <2>1. CASE e \in secRuns
    BY <2>1
  <2>2. ASSUME NEW r \in Runs, pc[r] = "sec", SecAccepts(r), e = <<r, try[r]>>
        PROVE  SecOK(e)
    <3>1. PICK c \in collections : c.run = r /\ c.try = try[r] /\ c.slot = slot[r]
      BY <2>2 DEF ExitsOK
    <3> QED
      BY <2>2, <3>1 DEF SecOK, Precedes, SecAccepts, SecAllowed
  <2> QED
    BY <2>1, <2>2, SecRunsGrow
<1>3. PICK c \in collections : Precedes(c, e)
  BY <1>2 DEF SecOK
<1>4. c.run \in Runs /\ pc[c.run] # "new"
  <2>1. c.run \in Runs /\ c.try >= 1 /\ c.try \in Int /\ CollectionOK(c)
    BY DEF CollectionsOK, TInv, TypeOK, Collections, Tries
  <2> QED
    BY <2>1 DEF CollectionOK, OInv, OutputsOK, Collected, FinishPhases
<1>5. signal'[c.run] = signal[c.run] /\ mode'[c.run] = mode[c.run]
  BY <1>4, IdentityStep
<1> QED
  BY <1>1, <1>3, <1>5 DEF SecOK, Precedes

\* The SEC producer runs after a collector of the same execution, and only for
\* the second batch of its mode.
THEOREM SecRunsFollowCollections == Spec => []SecFollowsOwnCollection
<1> DEFINE SecInv == \A e \in secRuns : SecOK(e)
<1>1. Init => ExitsOK /\ SecInv
  BY DEF Init, ExitsOK, BuildPhases
<1>2. IInv /\ ExitsOK /\ SecInv /\ [Next]_vars => ExitsOK' /\ SecInv'
  BY ExitsStep, SecStep
<1>3. SecInv => SecFollowsOwnCollection
  BY DEF SecFollowsOwnCollection, SecOK, Precedes
<1> HIDE DEF SecInv
<1> QED
  BY <1>1, <1>2, <1>3, Invariance, PTL DEF Spec
=============================================================================
