------------------------ MODULE HybridScheduleProofs ------------------------
(***************************************************************************)
(* Proofs about HybridSchedule: the composition is a behaviour of the      *)
(* receiver, so what is proved of DailyAdmission holds with any number of  *)
(* Mac senders, wrong clocks and lost answers included; and the senders of *)
(* a host post at most once per slot.                                      *)
(***************************************************************************)
EXTENDS HybridSchedule, DailyAdmissionProofs

Receipts   == [host : Hosts, slot : WakeSlots, by : Senders]

SenderTypeOK ==
  /\ now \in Instants
  /\ at \in [Senders -> Mac!SenderPhases]
  /\ offset \in [Senders -> Offsets]
  /\ due \in [Senders -> SUBSET WakeSlots]
  /\ local \subseteq Receipts
  /\ posts \subseteq Receipts
  /\ events \subseteq posts

\* A process works for one slot at a time
OneDue == \A p \in Senders : \A s, u \in due[p] : s = u

\* A host has one file per slot
OneReceipt == \A f, g \in local : f.host = g.host /\ f.slot = g.slot => f = g

\* A process past its reservation holds the receipt of what it found due
HoldsReceipt ==
  \A p \in Senders : at[p] \in {"recheck", "post"} =>
    \A s \in due[p] : [host |-> HostOf[p], slot |-> s, by |-> p] \in local

\* What was posted was reserved by the process that posted it, which is gone
PostedOnce == \A q \in posts : q \in local /\ at[q.by] = "gone"

SenderInv == SenderTypeOK /\ OneDue /\ OneReceipt /\ HoldsReceipt /\ PostedOnce

\* At most one slot is due at any instant: the windows of a day do not meet.
LEMMA DueSlotUnique ==
  ASSUME NEW t \in Int
  PROVE  \A s, u \in DueSlot(t) : s = u
<1> DEFINE k == KstDay(t)
<1>1. k \in Int
  BY DEF KstDay, KstOffset, MinutesPerDay
<1> HIDE DEF k
<1>2. ASSUME NEW s \in DueSlot(t)
      PROVE  \E b \in Batches : s = [day |-> k, batch |-> b] /\ Open(s, t)
  BY <1>2 DEF DueSlot, MakeSlot, k
<1>3. ASSUME NEW s \in DueSlot(t), NEW u \in DueSlot(t) PROVE s = u
  <2>1. PICK b \in Batches : s = [day |-> k, batch |-> b] /\ Open(s, t)
    BY <1>2
  <2>2. PICK c \in Batches : u = [day |-> k, batch |-> c] /\ Open(u, t)
    BY <1>2
  <2>3. b = c
    BY <1>1, <2>1, <2>2
       DEF Batches, Open, ScheduledFor, StartBefore, Hour, Window, MinutesPerDay, KstOffset
  <2> QED
    BY <2>1, <2>2, <2>3
<1> QED
  BY <1>3

LEMMA SenderInvInit == HybridInit => SenderInv
<1> SUFFICES ASSUME HybridInit PROVE SenderInv
  OBVIOUS
<1>1. /\ now \in Instants
      /\ at = [p \in Senders |-> "off"]
      /\ offset \in [Senders -> Offsets]
      /\ due = [p \in Senders |-> {}]
      /\ local = {} /\ posts = {} /\ events = {}
  BY DEF HybridInit, Init, Mac!SenderInit
<1> QED
  BY <1>1 DEF SenderInv, SenderTypeOK, OneDue, OneReceipt, HoldsReceipt, PostedOnce,
              Mac!SenderPhases

\* The receiver's steps keep the clock among the instants and leave the
\* senders alone, but for a delivery, which takes an accepted dispatch away.
LEMMA ReceiverStep ==
  ASSUME SenderInv, now' \in Instants,
         UNCHANGED <<at, offset, due, local, posts>>, events' \subseteq events
  PROVE  SenderInv'
BY DEF SenderInv, SenderTypeOK, OneDue, OneReceipt, HoldsReceipt, PostedOnce

\* A step that only moves one process, not into the phases of a receipt holder.
LEMMA MoveStep ==
  ASSUME SenderInv, NEW p \in Senders, NEW to \in Mac!SenderPhases,
         at[p] # "gone", to \notin {"recheck", "post"} \/ (at[p] = "recheck" /\ to = "post"),
         Mac!Goto(p, to), now' = now,
         UNCHANGED <<offset, due, local, posts, events>>
  PROVE  SenderInv'
<1>1. SenderTypeOK' /\ OneDue' /\ OneReceipt'
  BY DEF SenderInv, SenderTypeOK, OneDue, OneReceipt, Mac!Goto
<1>2. HoldsReceipt'
  BY DEF SenderInv, SenderTypeOK, HoldsReceipt, Mac!Goto
<1>3. PostedOnce'
  BY DEF SenderInv, SenderTypeOK, PostedOnce, Mac!Goto
<1> QED
  BY <1>1, <1>2, <1>3 DEF SenderInv

\* Sender and receiver compute with the same contract.
LEMMA SameContract == \A t : Mac!DueSlot(t) = DueSlot(t)
BY DEF DueSlot, MakeSlot, KstDay, Batches, CollectionDay, Open, ScheduledFor, StartBefore,
       Hour, MinutesPerDay, KstOffset, Window,
       Mac!DueSlot, Mac!MakeSlot, Mac!KstDay, Mac!Batches, Mac!CollectionDay, Mac!Open,
       Mac!ScheduledFor, Mac!StartBefore, Mac!Hour, Mac!MinutesPerDay, Mac!KstOffset,
       Mac!Window

LEMMA FindDueStep ==
  ASSUME SenderInv, NEW p \in Senders, Mac!FindDue(p), now' = now
  PROVE  SenderInv'
<1>1. now + offset[p] \in Int
  <2>1. now \in Int
    BY TimeAssumption DEF SenderInv, SenderTypeOK
  <2>2. offset[p] \in Offsets
    BY DEF SenderInv, SenderTypeOK
  <2>3. offset[p] \in Int
    BY <2>2, OffsetAssumption
  <2> QED
    BY <2>1, <2>3
<1>2. due'[p] \subseteq DueSlot(now + offset[p])
  BY SameContract DEF Mac!FindDue, SenderInv, SenderTypeOK, Mac!Clock
<1>3. DueSlot(now + offset[p]) \subseteq WakeSlots
  BY DEF WakeSlots, SenderInv, SenderTypeOK
<1>4. /\ due' \in [Senders -> SUBSET WakeSlots]
      /\ \A q \in Senders : q # p => due'[q] = due[q]
  BY <1>2, <1>3 DEF Mac!FindDue, SenderInv, SenderTypeOK
<1>5. /\ at' \in [Senders -> Mac!SenderPhases]
      /\ \A q \in Senders : q # p => at'[q] = at[q]
      /\ at'[p] \in {"gone", "control"} /\ at[p] = "find"
      /\ UNCHANGED <<offset, local, posts, events>>
  BY DEF Mac!FindDue, Mac!Goto, SenderInv, SenderTypeOK, Mac!SenderPhases
<1>6. SenderTypeOK'
  BY <1>4, <1>5 DEF SenderInv, SenderTypeOK
<1>7. OneDue'
  BY <1>1, <1>2, <1>4, DueSlotUnique DEF SenderInv, OneDue
<1>8. OneReceipt' /\ HoldsReceipt'
  BY <1>4, <1>5 DEF SenderInv, OneReceipt, HoldsReceipt
<1>9. PostedOnce'
  BY <1>5 DEF SenderInv, SenderTypeOK, Receipts, PostedOnce
<1> QED
  BY <1>6, <1>7, <1>8, <1>9 DEF SenderInv

\* The exclusive create: a success adds the receipts of one process, a file
\* that exists ends it.
LEMMA ReserveLocalStep ==
  ASSUME SenderInv, NEW p \in Senders, Mac!ReserveLocal(p), now' = now
  PROVE  SenderInv'
<1>1. CASE ~Mac!OpenSucceeds(p)
  <2>1. at[p] # "gone" /\ Mac!Goto(p, "gone") /\ UNCHANGED <<offset, due, local, posts, events>>
    BY <1>1 DEF Mac!ReserveLocal
  <2> QED
    BY <2>1, MoveStep DEF Mac!SenderPhases
<1>2. CASE Mac!OpenSucceeds(p)
  <2> DEFINE new == {[host |-> HostOf[p], slot |-> s, by |-> p] : s \in due[p]}
  <2>1. /\ local' = local \cup new
        /\ at[p] = "reserve" /\ at' = [at EXCEPT ![p] = "recheck"]
        /\ UNCHANGED <<offset, due, posts, events>>
    BY <1>2 DEF Mac!ReserveLocal, Mac!Goto
  <2>2. new \subseteq Receipts
    BY HostAssumption DEF Receipts, SenderInv, SenderTypeOK
  <2>3. \A f \in local, g \in new : ~(f.host = g.host /\ f.slot = g.slot)
    BY <1>2 DEF Mac!OpenSucceeds, Mac!LocalReceipt
  <2>4. \A f, g \in new : f = g
    BY DEF SenderInv, OneDue
  <2>5. SenderTypeOK' /\ OneDue'
    BY <2>1, <2>2 DEF SenderInv, SenderTypeOK, OneDue, Mac!SenderPhases
  <2>6. OneReceipt'
    BY <2>1, <2>3, <2>4 DEF SenderInv, OneReceipt
  <2>7. HoldsReceipt'
    BY <2>1 DEF SenderInv, SenderTypeOK, HoldsReceipt
  <2>8. PostedOnce'
    BY <2>1 DEF SenderInv, SenderTypeOK, PostedOnce
  <2> QED
    BY <2>5, <2>6, <2>7, <2>8 DEF SenderInv
<1> QED
  BY <1>1, <1>2

LEMMA PostStep ==
  ASSUME SenderInv, NEW p \in Senders, Mac!Post(p), now' = now
  PROVE  SenderInv'
<1> DEFINE new == {[slot |-> s, host |-> HostOf[p], by |-> p] : s \in due[p]}
<1>1. /\ at[p] = "post" /\ at' = [at EXCEPT ![p] = "gone"]
      /\ posts' = posts \cup new
      /\ events' \in {events, events \cup new}
      /\ UNCHANGED <<offset, due, local>>
  BY DEF Mac!Post, Mac!Goto
<1>2. new \subseteq local /\ \A q \in new : q.by = p
  BY <1>1 DEF SenderInv, HoldsReceipt
<1>3. SenderTypeOK'
  BY <1>1, <1>2 DEF SenderInv, SenderTypeOK, Mac!SenderPhases
<1>4. OneDue' /\ OneReceipt' /\ HoldsReceipt'
  BY <1>1 DEF SenderInv, SenderTypeOK, OneDue, OneReceipt, HoldsReceipt
<1>5. PostedOnce'
  BY <1>1, <1>2 DEF SenderInv, SenderTypeOK, PostedOnce
<1> QED
  BY <1>3, <1>4, <1>5 DEF SenderInv

LEMMA SenderStepKeeps ==
  ASSUME SenderInv, NEW p \in Senders, Mac!SenderStep(p), now' = now
  PROVE  SenderInv'
<1>1. CASE Mac!Launch(p)
  BY <1>1, MoveStep DEF Mac!Launch, Mac!SenderPhases
<1>2. CASE Mac!FindDue(p)
  BY <1>2, FindDueStep
<1>3. CASE Mac!GetControl(p)
  BY <1>3, MoveStep DEF Mac!GetControl, Mac!SenderPhases
<1>4. CASE Mac!GetAttempt(p)
  BY <1>4, MoveStep DEF Mac!GetAttempt, Mac!SenderPhases
<1>5. CASE Mac!ReserveLocal(p)
  BY <1>5, ReserveLocalStep
<1>6. CASE Mac!RecheckSlot(p)
  BY <1>6, MoveStep DEF Mac!RecheckSlot, Mac!SenderPhases
<1>7. CASE Mac!Post(p)
  BY <1>7, PostStep
<1>8. CASE Mac!Die(p)
  BY <1>8, MoveStep DEF Mac!Die, Mac!SenderPhases
<1> QED
  BY <1>1, <1>2, <1>3, <1>4, <1>5, <1>6, <1>7, <1>8 DEF Mac!SenderStep
\* Whoever steps, the receiver does what its own specification allows.
LEMMA HybridStep ==
  ASSUME TypeOK, SenderInv, HybridNext
  PROVE  [Next]_vars /\ ((now' \in Instants) => SenderInv')
<1>1. CASE Tick /\ UNCHANGED senders
  BY <1>1, ReceiverStep DEF senders, Next
<1>2. ASSUME NEW r \in Runs, Advance(r) /\ UNCHANGED senders
      PROVE  [Next]_vars /\ ((now' \in Instants) => SenderInv')
  BY <1>2, ReceiverStep DEF senders, Next
<1>3. ASSUME NEW r \in Runs, NEW s \in Signals, NativeWake(r, s)
      PROVE  [Next]_vars /\ ((now' \in Instants) => SenderInv')
  BY <1>3, ReceiverStep DEF NativeWake, senders, Next, Wake
<1>4. ASSUME NEW r \in Runs, NEW q \in events, Deliver(r, q)
      PROVE  [Next]_vars /\ ((now' \in Instants) => SenderInv')
  <2>1. q.slot \in WakeSlots
    BY <1>4 DEF SenderInv, SenderTypeOK, Receipts
  <2>2. Wake(r)
    BY <1>4, <2>1, WakeAssumption DEF Deliver, Wake
  <2> QED
    BY <1>4, <2>2, ReceiverStep DEF Deliver, Next
<1>5. ASSUME NEW p \in Senders, Mac!SenderStep(p) /\ UNCHANGED receiver
      PROVE  [Next]_vars /\ ((now' \in Instants) => SenderInv')
  BY <1>5, SenderStepKeeps DEF receiver, vars
<1> QED
  BY <1>1, <1>2, <1>3, <1>4, <1>5 DEF HybridNext

LEMMA HybridInvariance == HybridSpec => Spec /\ []TypeOK /\ []SenderInv
<1>1. HybridInit => Init /\ TInv /\ SenderInv
  BY SenderInvInit, TInvInit DEF HybridInit
<1>2. TInv /\ SenderInv /\ [HybridNext]_hybridVars => [Next]_vars /\ TInv' /\ SenderInv'
  <2> SUFFICES ASSUME TInv, SenderInv, [HybridNext]_hybridVars
               PROVE  [Next]_vars /\ TInv' /\ SenderInv'
    OBVIOUS
  <2>1. [Next]_vars /\ ((now' \in Instants) => SenderInv')
    <3>1. CASE HybridNext
      BY <3>1, HybridStep DEF TInv
    <3>2. CASE UNCHANGED hybridVars
      BY <3>2, ReceiverStep DEF hybridVars, receiver, senders, vars
    <3> QED
      BY <3>1, <3>2
  <2>2. TInv'
    BY <2>1, TInvStep
  <2> QED
    BY <2>1, <2>2 DEF TInv, TypeOK
<1>3. TInv => TypeOK
  BY DEF TInv
<1> QED
  BY <1>1, <1>2, <1>3, PTL DEF HybridSpec, Spec

\* With any number of Mac senders, whatever their clocks show, the hybrid
\* schedule is a behaviour of the receiver alone.
THEOREM HybridRefinesAdmission == HybridSpec => Spec
BY HybridInvariance, PTL

\* So a slot is collected at most once in it.
THEOREM HybridCollectsOnce == HybridSpec => []OneCollectionPerSlot
BY HybridRefinesAdmission, SlotCollectedOnce, PTL

-----------------------------------------------------------------------------
HostOwned  == {<<<<f.slot, f.host>>, f.by>> : f \in local}
HostPosted == {<<<<q.slot, q.host>>, q.by, 1>> : q \in posts}

LEMMA WakeReserveStep ==
  ASSUME SenderInv, NEW p \in Senders, Mac!ReserveLocal(p)
  PROVE  [WakePromise!Next]_WakePromise!vars
<1> DEFINE new == {[host |-> HostOf[p], slot |-> s, by |-> p] : s \in due[p]}
<1>1. posts' = posts /\ HostPosted' = HostPosted
  BY DEF Mac!ReserveLocal, HostPosted
<1>2. CASE local' = local
  BY <1>1, <1>2 DEF WakePromise!vars
<1>3. CASE local' # local
  <2>1. local' = local \cup new /\ Mac!OpenSucceeds(p)
    BY <1>3 DEF Mac!ReserveLocal
  <2>2. PICK s \in due[p] : TRUE
    BY <1>3, <2>1
  <2>3. s \in WakeSlots /\ HostOf[p] \in Hosts
    BY <2>2, HostAssumption DEF SenderInv, SenderTypeOK
  <2>4. PICK f : f = [host |-> HostOf[p], slot |-> s, by |-> p]
    OBVIOUS
  <2>5. local' = local \cup {f}
    BY <2>1, <2>2, <2>4 DEF SenderInv, OneDue
  <2>6. HostOwned' = HostOwned \cup {<<<<s, HostOf[p]>>, p>>}
    <3>1. f.slot = s /\ f.host = HostOf[p] /\ f.by = p
      BY <2>4
    <3> QED
      BY <2>5, <3>1 DEF HostOwned
  <2>7. \A e \in HostOwned : e[1] # <<s, HostOf[p]>>
    BY <2>1, <2>2 DEF HostOwned, Mac!OpenSucceeds, Mac!LocalReceipt
  <2>8. WakePromise!Reserve(<<s, HostOf[p]>>, p)
    BY <1>1, <2>6, <2>7 DEF WakePromise!Reserve, WakePromise!Unused, HostOwned, HostPosted
  <2> QED
    BY <2>3, <2>8 DEF WakePromise!Next
<1> QED
  BY <1>2, <1>3

LEMMA WakePostStep ==
  ASSUME SenderInv, NEW p \in Senders, Mac!Post(p)
  PROVE  [WakePromise!Next]_WakePromise!vars
<1> DEFINE new == {[slot |-> s, host |-> HostOf[p], by |-> p] : s \in due[p]}
<1>1. /\ posts' = posts \cup new /\ at[p] = "post"
      /\ local' = local /\ HostOwned' = HostOwned
  BY DEF Mac!Post, HostOwned
<1>2. CASE posts' = posts
  BY <1>1, <1>2 DEF WakePromise!vars
<1>3. CASE posts' # posts
  <2>1. PICK s \in due[p] : TRUE
    BY <1>1, <1>3
  <2>2. s \in WakeSlots /\ HostOf[p] \in Hosts
    BY <2>1, HostAssumption DEF SenderInv, SenderTypeOK
  <2>3. PICK q : q = [host |-> HostOf[p], slot |-> s, by |-> p]
    OBVIOUS
  <2>4. q \in local /\ q.slot = s /\ q.host = HostOf[p] /\ q.by = p
    BY <1>1, <2>1, <2>3 DEF SenderInv, HoldsReceipt
  <2>5. posts' = posts \cup {q}
    BY <1>1, <2>1, <2>3 DEF SenderInv, OneDue
  <2>6. HostPosted' = HostPosted \cup {<<<<s, HostOf[p]>>, p, 1>>}
    BY <2>4, <2>5 DEF HostPosted
  <2>7. <<<<s, HostOf[p]>>, p>> \in HostOwned
    BY <2>4 DEF HostOwned
  <2>8. \A e \in HostPosted : e[1] # <<s, HostOf[p]>>
    <3>1. ASSUME NEW x \in posts, x.slot = s, x.host = HostOf[p] PROVE FALSE
      <4>1. x = q
        BY <2>4, <3>1 DEF SenderInv, PostedOnce, OneReceipt
      <4> QED
        BY <1>1, <2>4, <3>1, <4>1 DEF SenderInv, PostedOnce
    <3> QED
      BY <3>1 DEF HostPosted
  <2>9. WakePromise!Start(<<s, HostOf[p]>>, p, 1)
    BY <1>1, <2>6, <2>7, <2>8
       DEF WakePromise!Start, WakePromise!Unused, HostOwned, HostPosted
  <2> QED
    BY <2>2, <2>9 DEF WakePromise!Next
<1> QED
  BY <1>2, <1>3

\* A host posts at most once per slot, and only the process that wrote the
\* host's receipt posts, over all launches, crashes and lost answers.
THEOREM HostWakesOnce == HybridSpec => WakeOncePerHost
<1>1. HybridInit => WakePromise!Init
  BY DEF HybridInit, Mac!SenderInit, WakePromise!Init
<1>2. SenderInv /\ [HybridNext]_hybridVars => [WakePromise!Next]_WakePromise!vars
  <2> SUFFICES ASSUME SenderInv, [HybridNext]_hybridVars
               PROVE  [WakePromise!Next]_WakePromise!vars
    OBVIOUS
  <2>1. ASSUME NEW p \in Senders, Mac!SenderStep(p)
        PROVE  [WakePromise!Next]_WakePromise!vars
    <3>1. CASE Mac!ReserveLocal(p)
      BY <3>1, WakeReserveStep
    <3>2. CASE Mac!Post(p)
      BY <3>2, WakePostStep
    <3>3. CASE UNCHANGED <<local, posts>>
      BY <3>3 DEF WakePromise!vars
    <3> QED
      BY <2>1, <3>1, <3>2, <3>3
         DEF Mac!SenderStep, Mac!Launch, Mac!FindDue, Mac!GetControl, Mac!GetAttempt,
             Mac!RecheckSlot, Mac!Die
  <2>2. CASE UNCHANGED <<local, posts>>
    BY <2>2 DEF WakePromise!vars
  <2> QED
    BY <2>1, <2>2 DEF HybridNext, hybridVars, senders, NativeWake, Deliver
<1> QED
  BY <1>1, <1>2, HybridInvariance, PTL DEF HybridSpec, WakeOncePerHost, WakePromise!Spec

-----------------------------------------------------------------------------
(* What a sender knows of its slot, and what the receiver makes of it.     *)

\* What a process works for, by its own clock until that is proven right
ClockOK ==
  \A p \in Senders :
    /\ at[p] \in {"control", "lookup", "reserve", "recheck", "post"} =>
         due[p] # {} /\ \A s \in due[p] : IsSlot(s) /\ ScheduledFor(s) <= now + offset[p]
    /\ at[p] \in {"lookup", "reserve", "recheck", "post"} =>
         offset[p] = 0 /\ \A s \in due[p] : ActivationAt <= ScheduledFor(s)

\* The slot has begun, and it is an active one
Begun(s) == IsSlot(s) /\ ActivationAt <= ScheduledFor(s) /\ ScheduledFor(s) <= now

DispatchesOK ==
  /\ \A q \in events : Begun(q.slot)
  /\ \A r \in Runs :
       /\ created[r] <= now
       /\ pc[r] # "new" /\ signal[r].name = "assist" =>
            \E s \in WakeSlots : signal[r] = AssistSignal(s) /\ Begun(s)

\* Nothing is left to reserve for the wake of run r
Concluded(r) ==
  \A s \in WakeSlot(signal[r], created[r]) : Taken(s) \/ StartBefore(s) <= now

\* An assist run goes straight to its reservation until then
Understood(r) ==
  \/ Concluded(r)
  \/ /\ try[r] = 1 /\ pc[r] \in {"route", "reserve", "stamp", "put"}
     /\ pc[r] # "route" => WakeSlot(signal[r], created[r]) \subseteq slot[r]

Assisted(r) == pc[r] # "new" /\ signal[r].name = "assist" /\ mode[r] = "hybrid"

WakesUnderstood ==
  /\ cancelled = {}
  /\ \A r \in Runs \ Faulty : Assisted(r) => Understood(r)

LEMMA DueForm ==
  ASSUME NEW t \in Int
  PROVE  \A s \in DueSlot(t) : IsSlot(s) /\ Open(s, t) /\ ScheduledFor(s) <= t
<1>1. KstDay(t) \in Int
  BY DEF KstDay, KstOffset, MinutesPerDay
<1> QED
  BY <1>1, MadeSlot DEF DueSlot, Open

LEMMA ScheduledInt == \A s : IsSlot(s) => ScheduledFor(s) \in Int
BY DEF IsSlot, ScheduledFor, MinutesPerDay, Hour, KstOffset, Batches

\* The canonical instant of a slot names that slot
LEMMA AssistNames ==
  ASSUME NEW s, IsSlot(s), NEW c
  PROVE  WakeSlot(AssistSignal(s), c) = {s}
<1>1. KstDay(ScheduledFor(s)) = s.day
  BY DEF IsSlot, KstDay, ScheduledFor, MinutesPerDay, Hour, KstOffset, Batches
<1>2. MakeSlot(s.day, s.batch) = {s}
  BY DEF IsSlot, MakeSlot
<1> QED
  BY <1>1, <1>2 DEF WakeSlot, AssistSignal, RequestedSlot

\* Time does not run backwards
LEMMA ClockGrows ==
  ASSUME TypeOK, [Next]_vars
  PROVE  now \in Int /\ now' \in Int /\ now <= now'
<1> USE TimeAssumption DEF TypeOK
<1>1. CASE Tick
  BY <1>1 DEF Tick
<1>2. ASSUME NEW r \in Runs, Advance(r) PROVE now' = now
  BY <1>2 DEF Advance, Promote, ResolveRoute, ReserveLookup, Stamp, PutAttempt, Readback,
     Recheck, CollectStart, CollectFail, CollectEnd, RunSec, SkipSec, BuildDone, SecFail,
     FinishLookup, PutResult, ReadResult, Refuse, Crash, Abort, Fail
<1>3. ASSUME NEW r \in Runs, Wake(r) PROVE now' = now
  BY <1>3 DEF Wake, Arrive, Rerun
<1> QED
  BY <1>1, <1>2, <1>3 DEF Next, vars

-----------------------------------------------------------------------------
(* The senders' side.                                                      *)

LEMMA OwnClock ==
  ASSUME SenderInv, NEW p \in Senders
  PROVE  now \in Int /\ offset[p] \in Int /\ now + offset[p] \in Int
<1>1. now \in Instants /\ offset[p] \in Offsets
  BY DEF SenderInv, SenderTypeOK
<1>2. now \in Int /\ offset[p] \in Int
  BY <1>1, TimeAssumption, OffsetAssumption
<1> QED
  BY <1>2

LEMMA ClockWaits ==
  ASSUME ClockOK, SenderInv, now \in Int, now' \in Int, now <= now',
         UNCHANGED <<at, offset, due>>
  PROVE  ClockOK'
<1>1. \A p \in Senders : offset[p] \in Int
  BY OwnClock
<1> QED
  BY <1>1, ScheduledInt DEF ClockOK

LEMMA ClockSteps ==
  ASSUME ClockOK, SenderInv, NEW p \in Senders, Mac!SenderStep(p), now' = now
  PROVE  ClockOK'
<1>1. at \in [Senders -> Mac!SenderPhases] /\ due \in [Senders -> SUBSET WakeSlots]
  BY DEF SenderInv, SenderTypeOK
<1>2. CASE Mac!FindDue(p)
  <2>1. now + offset[p] \in Int
    BY OwnClock
  <2>2. due'[p] \subseteq DueSlot(now + offset[p])
    BY <1>1, <1>2, SameContract DEF Mac!FindDue, Mac!Clock
  <2>3. \A s \in due'[p] : IsSlot(s) /\ ScheduledFor(s) <= now + offset[p]
    BY <2>1, <2>2, DueForm
  <2> QED
    BY <1>1, <1>2, <2>3 DEF ClockOK, Mac!FindDue, Mac!Goto
<1>3. CASE Mac!GetControl(p)
  <2>1. at[p] = "control" /\ at' = [at EXCEPT ![p] = at'[p]] /\ UNCHANGED <<offset, due>>
    BY <1>1, <1>3 DEF Mac!GetControl, Mac!Goto
  <2>2. at'[p] = "lookup" =>
          offset[p] = 0 /\ \A s \in due[p] : ActivationAt <= ScheduledFor(s)
    BY <1>1, <1>3, ScheduledInt, TimeAssumption
       DEF Mac!GetControl, Mac!Goto, Mac!ClockProven, Mac!SlotActive, ClockOK,
           Mac!ScheduledFor, ScheduledFor, Mac!MinutesPerDay, MinutesPerDay,
           Mac!KstOffset, KstOffset, Mac!Hour, Hour
  <2>3. at'[p] \in {"lookup", "gone"}
    BY <1>1, <1>3 DEF Mac!GetControl, Mac!Goto
  <2> QED
    BY <1>1, <2>1, <2>2, <2>3 DEF ClockOK
<1>4. CASE /\ UNCHANGED <<offset, due>>
           /\ \E to : /\ at' = [at EXCEPT ![p] = to]
                      /\ to \in {"lookup", "reserve", "recheck", "post"} =>
                           at[p] \in {"lookup", "reserve", "recheck", "post"}
                      /\ to # "control"
  BY <1>1, <1>4 DEF ClockOK
<1> QED
  BY <1>2, <1>3, <1>4
     DEF Mac!SenderStep, Mac!Launch, Mac!GetAttempt, Mac!ReserveLocal, Mac!RecheckSlot,
         Mac!Post, Mac!Die, Mac!Goto

\* A process decides to post for the slot that is due by the true clock, and
\* which its host has reserved for it
LEMMA PostIsDue ==
  ASSUME ClockOK, SenderInv, NEW p \in Senders, Mac!RecheckSlot(p), at'[p] = "post"
  PROVE  /\ due[p] = Mac!DueSlot(now)
         /\ \A f \in local : f.host = HostOf[p] /\ f.slot \in due[p] => f.by = p
<1>1. at[p] = "recheck" /\ now \in Int /\ offset[p] = 0
  BY TimeAssumption DEF Mac!RecheckSlot, ClockOK, SenderInv, SenderTypeOK
<1>2. PICK s \in due[p] : due[p] = {s} /\ IsSlot(s)
  BY <1>1 DEF ClockOK, SenderInv, OneDue
<1>3. Mac!Open(s, now)
  BY <1>1, <1>2 DEF Mac!RecheckSlot, Mac!Goto, Mac!StillOpen, Mac!Clock, SenderInv, SenderTypeOK
<1>4. Open(s, now)
  BY <1>3 DEF Open, ScheduledFor, StartBefore, Hour, Window, MinutesPerDay, KstOffset,
     Mac!Open, Mac!ScheduledFor, Mac!StartBefore, Mac!Hour, Mac!Window, Mac!MinutesPerDay,
     Mac!KstOffset
<1>5. due[p] = Mac!DueSlot(now)
  BY <1>1, <1>2, <1>4, OpenIsDue, SameContract
<1>6. [host |-> HostOf[p], slot |-> s, by |-> p] \in local
  BY <1>1, <1>2 DEF SenderInv, HoldsReceipt
<1>7. ASSUME NEW f \in local, f.host = HostOf[p], f.slot \in due[p] PROVE f.by = p
  <2>1. PICK g \in local : g.host = HostOf[p] /\ g.slot = s /\ g.by = p
    BY <1>6
  <2> QED
    BY <1>2, <1>7, <2>1 DEF SenderInv, OneReceipt
<1> QED
  BY <1>5, <1>7

-----------------------------------------------------------------------------
(* Dispatches and the runs they wake.                                      *)

LEMMA AdvanceKeepsNew ==
  ASSUME TInv, NEW r \in Runs, pc[r] = "new", NEW q \in Runs, Advance(q)
  PROVE  UNCHANGED identity /\ pc'[r] = "new"
<1> USE DEF identity, control, outputs, store, history, TInv, TypeOK
<1> USE DEF Running, BuildPhases, FinishPhases, AfterBuild
<1>1. CASE q # r
  BY <1>1 DEF Advance, Promote, Proceed, ResolveRoute, ReserveLookup, Stamp, PutAttempt,
     Readback, Recheck, CollectStart, CollectFail, CollectEnd, RunSec, SkipSec, BuildDone,
     SecFail, FinishLookup, PutResult, ReadResult, Refuse, Crash, Abort, Fail
<1>2. CASE q = r
  BY <1>2 DEF Advance, Promote, Proceed, ResolveRoute, ReserveLookup, Stamp, PutAttempt,
     Readback, Recheck, CollectStart, CollectFail, CollectEnd, RunSec, SkipSec, BuildDone,
     SecFail, FinishLookup, PutResult, ReadResult, Refuse, Crash, Abort
<1> QED
  BY <1>1, <1>2

\* A run comes into being when its signal arrives
LEMMA NewRun ==
  ASSUME TInv, [Next]_vars, NEW r \in Runs, pc[r] = "new"
  PROVE  \/ \E s \in Signals : Arrive(r, s)
         \/ pc'[r] = "new" /\ signal'[r] = signal[r] /\ created'[r] = created[r]
<1> USE DEF identity, control, outputs, store, history, TInv, TypeOK
<1>1. ASSUME NEW q \in Runs, Advance(q)
      PROVE  UNCHANGED identity /\ pc'[r] = "new"
  BY <1>1, AdvanceKeepsNew
<1>2. ASSUME NEW q \in Runs, NEW s \in Signals, Arrive(q, s), q # r
      PROVE  pc'[r] = "new" /\ signal'[r] = signal[r] /\ created'[r] = created[r]
  BY <1>2 DEF Arrive, Enter, Group
<1>3. ASSUME NEW q \in Runs, NEW job \in Jobs, Rerun(q, job)
      PROVE  UNCHANGED identity /\ pc'[r] = "new"
  BY <1>3 DEF Rerun, Enter, Group
<1> QED
  BY <1>1, <1>2, <1>3 DEF Next, Wake, Tick, vars

LEMMA BegunStays ==
  ASSUME now \in Int, now' \in Int, now <= now', NEW s, Begun(s)
  PROVE  Begun(s)'
BY ScheduledInt DEF Begun

LEMMA EventsStep ==
  ASSUME TInv, SenderInv, ClockOK, DispatchesOK, [HybridNext]_hybridVars, [Next]_vars
  PROVE  \A q \in events' : Begun(q.slot)'
<1>1. \A s : Begun(s) => Begun(s)'
  BY ClockGrows, BegunStays DEF TInv
<1>2. CASE events' \subseteq events
  BY <1>1, <1>2 DEF DispatchesOK
<1>3. ASSUME NEW p \in Senders, Mac!Post(p) PROVE \A q \in events' : Begun(q.slot)'
  <2>1. \A s \in due[p] : Begun(s)
    <3>1. at[p] = "post" /\ offset[p] = 0 /\ now \in Int
      BY <1>3, TimeAssumption DEF Mac!Post, ClockOK, SenderInv, SenderTypeOK
    <3> QED
      BY <3>1 DEF ClockOK, Begun
  <2>2. \A q \in events' : q \in events \/ q.slot \in due[p]
    BY <1>3 DEF Mac!Post
  <2> QED
    BY <1>1, <2>1, <2>2 DEF DispatchesOK
<1> QED
  BY <1>2, <1>3
     DEF HybridNext, NativeWake, Deliver, senders, hybridVars, Mac!SenderStep, Mac!Launch,
         Mac!FindDue, Mac!GetControl, Mac!GetAttempt, Mac!ReserveLocal, Mac!RecheckSlot, Mac!Die

\* An assist run exists only because GitHub delivered a dispatch
LEMMA ArrivedBy ==
  ASSUME TInv, SenderInv, [HybridNext]_hybridVars, NEW r \in Runs, pc[r] = "new", pc'[r] # "new"
  PROVE  \/ signal'[r].name # "assist"
         \/ \E q \in events : q.slot \in WakeSlots /\ signal'[r] = AssistSignal(q.slot)
<1>1. ASSUME NEW q \in Runs, NEW z \in Signals, Arrive(q, z) PROVE q = r /\ signal'[r] = z
  BY <1>1 DEF Arrive, Enter, Group, TInv, TypeOK
<1>2. ASSUME NEW q \in Runs, NEW z \in Signals, NativeWake(q, z) PROVE signal'[r].name # "assist"
  BY <1>1, <1>2 DEF NativeWake
<1>3. ASSUME NEW q \in Runs, NEW e \in events, Deliver(q, e)
      PROVE  e.slot \in WakeSlots /\ signal'[r] = AssistSignal(e.slot)
  <2>1. e.slot \in WakeSlots
    BY DEF SenderInv, SenderTypeOK, Receipts
  <2> QED
    BY <1>1, <1>3, <2>1, WakeAssumption DEF Deliver
<1>4. ASSUME NEW q \in Runs, Advance(q) PROVE FALSE
  BY <1>4, AdvanceKeepsNew
<1>5. ASSUME pc' = pc PROVE FALSE
  BY <1>5
<1> QED
  BY <1>2, <1>3, <1>4, <1>5
     DEF HybridNext, hybridVars, receiver, vars, control, Tick

LEMMA DispatchesStep ==
  ASSUME TInv, SenderInv, ClockOK, DispatchesOK, [HybridNext]_hybridVars, [Next]_vars
  PROVE  DispatchesOK'
<1>1. now \in Int /\ now' \in Int /\ now <= now'
  BY ClockGrows DEF TInv
<1>2. \A s : Begun(s) => Begun(s)'
  BY <1>1, BegunStays
<1>3. ASSUME NEW r \in Runs
      PROVE  /\ created'[r] <= now'
             /\ pc'[r] # "new" /\ signal'[r].name = "assist" =>
                  \E s \in WakeSlots : signal'[r] = AssistSignal(s) /\ Begun(s)'
  <2> created[r] \in Int /\ created[r] <= now
    BY TimeAssumption DEF DispatchesOK, TInv, TypeOK
  <2>1. CASE pc[r] # "new"
    <3>1. pc'[r] # "new" /\ signal'[r] = signal[r] /\ created'[r] = created[r]
      BY <2>1, IdentityStep
    <3> QED
      BY <1>1, <1>2, <2>1, <3>1 DEF DispatchesOK
  <2>2. CASE pc[r] = "new" /\ pc'[r] = "new" /\ created'[r] = created[r]
    BY <1>1, <2>2
  <2>3. ASSUME NEW z \in Signals, pc[r] = "new", Arrive(r, z)
        PROVE  /\ created'[r] <= now'
               /\ signal'[r].name = "assist" =>
                    \E s \in WakeSlots : signal'[r] = AssistSignal(s) /\ Begun(s)'
    <3>1. created'[r] = now /\ signal'[r] = z
      BY <2>3 DEF Arrive, TInv, TypeOK
    <3>2. now' = now /\ pc'[r] # "new"
      BY <2>3 DEF Arrive, Enter, TInv, TypeOK
    <3>3. ASSUME NEW q \in events, q.slot \in WakeSlots, signal'[r] = AssistSignal(q.slot)
          PROVE  \E s \in WakeSlots : signal'[r] = AssistSignal(s) /\ Begun(s)'
      BY <1>2, <3>3 DEF DispatchesOK
    <3>4. signal'[r].name # "assist"
          \/ \E q \in events : q.slot \in WakeSlots /\ signal'[r] = AssistSignal(q.slot)
      BY <2>3, <3>2, ArrivedBy
    <3> QED
      BY <1>1, <3>1, <3>2, <3>3, <3>4
  <2> QED
    BY <2>1, <2>2, <2>3, NewRun
<1> QED
  BY <1>3, EventsStep DEF DispatchesOK

-----------------------------------------------------------------------------
(* The receiver's side: without a concurrency group that may cancel it, an *)
(* assist run goes on until its slot is reserved or over.                  *)

LEMMA OthersLeave ==
  ASSUME ~Serialized, TInv, NEW r \in Runs, NEW q \in Runs \ {r}, Advance(q) \/ Wake(q)
  PROVE  pc'[r] = pc[r] /\ try'[r] = try[r] /\ slot'[r] = slot[r]
<1> USE DEF identity, control, outputs, store, history, TInv, TypeOK
<1>1. CASE Advance(q)
  BY <1>1 DEF Advance, Promote, Proceed, ResolveRoute, ReserveLookup, Stamp, PutAttempt,
     Readback, Recheck, CollectStart, CollectFail, CollectEnd, RunSec, SkipSec, BuildDone,
     SecFail, FinishLookup, PutResult, ReadResult, Refuse, Crash, Abort, Fail
<1>2. CASE Wake(q)
  BY <1>2 DEF Wake, Arrive, Rerun, Enter
<1> QED
  BY <1>1, <1>2

LEMMA NoneCancelled ==
  ASSUME ~Serialized, cancelled = {}, [Next]_vars
  PROVE  cancelled' = {}
<1> USE DEF identity, control, outputs, store, history
<1>1. ASSUME NEW r \in Runs, Advance(r) PROVE cancelled' = {}
  BY <1>1 DEF Advance, Promote, Proceed, ResolveRoute, ReserveLookup, Stamp, PutAttempt,
     Readback, Recheck, CollectStart, CollectFail, CollectEnd, RunSec, SkipSec, BuildDone,
     SecFail, FinishLookup, PutResult, ReadResult, Refuse, Crash, Abort, Fail
<1>2. ASSUME NEW r \in Runs, Wake(r) PROVE cancelled' = {}
  BY <1>2 DEF Wake, Arrive, Rerun, Enter
<1> QED
  BY <1>1, <1>2 DEF Next, Tick, vars

\* What the sender proved is what the receiver asks for
LEMMA WakeAccepted ==
  ASSUME NEW r \in Runs, Assisted(r), try[r] = 1, created[r] <= now,
         NEW s, IsSlot(s), signal[r] = AssistSignal(s), ActivationAt <= ScheduledFor(s), Open(s, now)
  PROVE  /\ IsDaily(r) /\ Resolve(signal[r], try[r], created[r], now) = {s}
         /\ SameRoute(r, s) /\ Admissible(s, now)
<1>1. \A c : WakeSlot(signal[r], c) = {s}
  BY AssistNames
<1>2. signal[r].main /\ signal[r].name = "assist"
  BY DEF AssistSignal
<1>3. Open(s, ScheduledFor(s)) /\ ScheduledFor(s) \in Int
  BY ScheduledInt DEF Open, StartBefore, Window
<1> QED
  BY <1>1, <1>2, <1>3, TimeAssumption DEF Assisted, IsDaily, Resolve, SameRoute, Admissible

LEMMA UnderstoodStep ==
  ASSUME ~Serialized, IInv, WakesOK, cancelled = {}, [Next]_vars,
         NEW r \in Runs \ Faulty, Assisted(r), Understood(r), created[r] <= now,
         NEW s, signal[r] = AssistSignal(s), Begun(s)
  PROVE  Understood(r)'
<1>1. /\ WakeSlot(signal[r], created[r]) = {s} /\ WakeSlot(signal'[r], created'[r]) = {s}
      /\ IsSlot(s) /\ ScheduledFor(s) \in Int /\ StartBefore(s) \in Int
  BY AssistNames, IdentityStep, ScheduledInt DEF Assisted, IInv, Begun, StartBefore, Window
<1>2. now \in Int /\ now' \in Int /\ now <= now' /\ attempts \subseteq attempts'
  BY ClockGrows, AttemptsGrow DEF IInv, TInv
<1>3. /\ Concluded(r) <=> Taken(s) \/ StartBefore(s) <= now
      /\ Concluded(r)' <=> Taken(s)' \/ StartBefore(s) <= now'
  BY <1>1 DEF Concluded
<1>4. CASE Concluded(r)
  BY <1>1, <1>2, <1>3, <1>4 DEF Understood, Taken
<1>5. CASE ~Concluded(r)
  <2>1. /\ try[r] = 1 /\ pc[r] \in {"route", "reserve", "stamp", "put"}
        /\ pc[r] # "route" => slot[r] = {s}
    <3>1. \A u \in slot[r] : u = s
      BY <1>1 DEF WakesOK, WakeOf
    <3> QED
      BY <1>1, <1>5, <3>1 DEF Understood
  <2>2. Open(s, now) /\ ~Taken(s)
    BY <1>1, <1>2, <1>3, <1>5 DEF Open, Begun
  <2>3. /\ IsDaily(r) /\ Resolve(signal[r], try[r], created[r], now) = {s}
        /\ SameRoute(r, s) /\ Admissible(s, now)
    BY <1>1, <2>1, <2>2, WakeAccepted DEF Begun
  <2>4. ASSUME UNCHANGED <<pc, try, slot>> PROVE Understood(r)'
    BY <1>1, <2>1, <2>4 DEF Understood
  <2>5. ASSUME NEW q \in Runs \ {r}, Advance(q) \/ Wake(q) PROVE Understood(r)'
    BY <1>1, <2>1, <2>5, OthersLeave DEF Understood, IInv
  <2>6. ASSUME Wake(r) PROVE FALSE
    BY <2>1, <2>6 DEF Wake, Arrive, Rerun
  <2>7. ASSUME ResolveRoute(r) PROVE Understood(r)'
    <3>1. pc'[r] = "reserve" /\ slot'[r] = {s} /\ try'[r] = 1
      BY <2>1, <2>3, <2>7 DEF ResolveRoute, Proceed, IInv, TInv, TypeOK
    <3> QED
      BY <1>1, <3>1 DEF Understood
  <2>8. ASSUME ReserveLookup(r) \/ Stamp(r) PROVE Understood(r)'
    <3>1. pc'[r] \in {"stamp", "put"} /\ pc[r] # "route" /\ slot' = slot /\ try' = try
      BY <2>8 DEF ReserveLookup, Stamp, Proceed, outputs, IInv, TInv, TypeOK
    <3> QED
      BY <1>1, <2>1, <3>1 DEF Understood
  <2>9. ASSUME NEW next, PutAttempt(r, next) PROVE Understood(r)'
    <3>1. [slot |-> s, run |-> r, reservedAt |-> stampedAt[r]] \in attempts'
      BY <2>1, <2>9 DEF PutAttempt, Receipt
    <3>2. PICK a : a = [slot |-> s, run |-> r, reservedAt |-> stampedAt[r]]
      OBVIOUS
    <3>3. a \in attempts' /\ a.slot = s
      BY <3>1, <3>2
    <3> QED
      BY <1>3, <3>3 DEF Understood, Taken
  <2>10. ASSUME Refuse(r) PROVE FALSE
    BY <2>1, <2>2, <2>3, <2>10
       DEF Refuse, RouteAccepts, ReserveAccepts, StampAccepts, PutAccepts
  <2>11. ASSUME Crash(r) \/ Abort(r) PROVE FALSE
    BY <2>11 DEF Crash, Abort
  <2>12. ASSUME \/ Promote(r) \/ Readback(r) \/ Recheck(r) \/ CollectStart(r) \/ CollectFail(r)
                \/ CollectEnd(r) \/ RunSec(r) \/ SkipSec(r) \/ SecFail(r) \/ FinishLookup(r)
                \/ \E next \in {"finishread", "done"} : PutResult(r, next)
                \/ ReadResult(r)
         PROVE  FALSE
    BY <2>1, <2>12 DEF Promote, Readback, Recheck, Proceed, CollectStart, CollectFail, CollectEnd,
       RunSec, SkipSec, BuildDone, SecFail, FinishLookup, PutResult, ReadResult
  <2>13. ASSUME Advance(r) PROVE Understood(r)'
    BY <2>7, <2>8, <2>9, <2>10, <2>11, <2>12, <2>13 DEF Advance
  <2> QED
    BY <2>4, <2>5, <2>6, <2>13 DEF Next, Tick, vars, control, outputs
<1> QED
  BY <1>4, <1>5

\* A run arrives in its first execution, with everything still to do
LEMMA UnderstoodFromStart ==
  ASSUME ~Serialized, IInv, NEW r \in Runs, pc[r] = "new", NEW z \in Signals, Arrive(r, z)
  PROVE  Understood(r)'
<1>1. try[r] = 1
  BY DEF IInv, OInv, OutputsOK
<1> QED
  BY <1>1 DEF Arrive, Enter, Understood, IInv, TInv, TypeOK

LEMMA WakesUnderstoodStep ==
  ASSUME ~Serialized, IInv, WakesOK, DispatchesOK, WakesUnderstood, [Next]_vars
  PROVE  WakesUnderstood'
<1>1. cancelled' = {}
  BY NoneCancelled DEF WakesUnderstood
<1>2. ASSUME NEW r \in Runs \ Faulty, Assisted(r)' PROVE Understood(r)'
  <2>1. CASE pc[r] # "new"
    <3>1. Assisted(r)
      BY <1>2, <2>1, IdentityStep DEF Assisted, IInv
    <3>2. PICK s \in WakeSlots : signal[r] = AssistSignal(s) /\ Begun(s)
      BY <3>1 DEF DispatchesOK, Assisted
    <3> QED
      BY <3>1, <3>2, UnderstoodStep DEF WakesUnderstood, DispatchesOK
  <2>2. CASE pc[r] = "new"
    BY <1>2, <2>2, NewRun, UnderstoodFromStart DEF Assisted, IInv
  <2> QED
    BY <2>1, <2>2
<1> QED
  BY <1>1, <1>2 DEF WakesUnderstood

-----------------------------------------------------------------------------
(* The theorems.                                                           *)

LEMMA KnowledgeStep ==
  ASSUME TInv, SenderInv, ClockOK, DispatchesOK, [Next]_vars, [HybridNext]_hybridVars
  PROVE  ClockOK' /\ DispatchesOK'
<1>1. now \in Int /\ now' \in Int /\ now <= now'
  BY ClockGrows DEF TInv
<1>2. ASSUME UNCHANGED <<at, offset, due>> PROVE ClockOK'
  BY <1>1, <1>2, ClockWaits
<1>3. ASSUME NEW p \in Senders, Mac!SenderStep(p), UNCHANGED receiver PROVE ClockOK'
  BY <1>3, ClockSteps DEF receiver, vars
<1>4. ClockOK'
  BY <1>2, <1>3 DEF HybridNext, NativeWake, Deliver, senders, hybridVars
<1> QED
  BY <1>4, DispatchesStep

LEMMA Knowledge == HybridSpec => [](IInv /\ WakesOK /\ SenderInv /\ ClockOK /\ DispatchesOK)
<1>1. HybridInit => ClockOK /\ DispatchesOK
  <2> SUFFICES ASSUME HybridInit PROVE ClockOK /\ DispatchesOK
    OBVIOUS
  <2>1. \A r \in Runs : created[r] <= now /\ pc[r] = "new"
    BY TimeAssumption DEF HybridInit, Init
  <2> QED
    BY <2>1 DEF HybridInit, Mac!SenderInit, ClockOK, DispatchesOK
<1>2. /\ IInv /\ SenderInv /\ ClockOK /\ DispatchesOK /\ [Next]_vars /\ [HybridNext]_hybridVars
      => ClockOK' /\ DispatchesOK'
  BY KnowledgeStep DEF IInv
<1> QED
  BY <1>1, <1>2, HybridInvariance, Invariance, WakesInvariance, PTL DEF HybridSpec, Spec

\* When a process decides to post, its slot is the due one by the true clock and
\* the host's receipt of it is its own, over all clocks, delays and deaths.
THEOREM PostsAreDue == HybridSpec => PostsOnlyWhenDue
<1>1. SenderInv /\ ClockOK /\ [HybridNext]_hybridVars =>
        [\A p \in Senders : at[p] # "post" /\ at'[p] = "post" =>
           /\ due[p] = Mac!DueSlot(now)
           /\ \A f \in local : f.host = HostOf[p] /\ f.slot \in due[p] => f.by = p]_<<now, Mac!sender>>
  <2> SUFFICES ASSUME SenderInv, ClockOK, [HybridNext]_hybridVars,
                      NEW p \in Senders, at[p] # "post", at'[p] = "post"
               PROVE  /\ due[p] = Mac!DueSlot(now)
                      /\ \A f \in local : f.host = HostOf[p] /\ f.slot \in due[p] => f.by = p
    OBVIOUS
  <2>1. PICK q \in Senders : Mac!SenderStep(q)
    BY DEF HybridNext, NativeWake, Deliver, senders, hybridVars
  <2>2. q = p /\ Mac!RecheckSlot(q)
    BY <2>1
       DEF Mac!SenderStep, Mac!Launch, Mac!FindDue, Mac!GetControl, Mac!GetAttempt,
           Mac!ReserveLocal, Mac!Post, Mac!Die, Mac!RecheckSlot, Mac!Goto, SenderInv, SenderTypeOK
  <2> QED
    BY <2>2, PostIsDue
<1> QED
  BY <1>1, Knowledge, PTL DEF HybridSpec, PostsOnlyWhenDue, Mac!PostsOnlyWhenDue

\* What a sender proved before it posted is what the receiver asks for: a wake
\* ends without a reservation of its own only because its slot was reserved
\* already or its window is over.  (A concurrency group may cancel the run.)
THEOREM WakesAreUnderstood == ~Serialized => (HybridSpec => []WakeIsNeverMisunderstood)
<1> SUFFICES ASSUME ~Serialized PROVE HybridSpec => []WakeIsNeverMisunderstood
  OBVIOUS
<1>1. HybridInit => WakesUnderstood
  BY DEF HybridInit, Init, WakesUnderstood, Assisted
<1>2. /\ IInv /\ WakesOK /\ DispatchesOK /\ WakesUnderstood /\ [Next]_vars
      => WakesUnderstood'
  BY WakesUnderstoodStep
<1>3. IInv /\ WakesUnderstood => WakeIsNeverMisunderstood
  <2> SUFFICES ASSUME IInv, WakesUnderstood, NEW r \in Runs \ Faulty, pc[r] = "done",
                      signal[r].name = "assist", mode[r] = "hybrid",
                      NEW s \in WakeSlot(signal[r], created[r]), Open(s, now)
               PROVE  Taken(s)
    BY DEF WakeIsNeverMisunderstood
  <2>1. Concluded(r)
    BY DEF WakesUnderstood, Assisted, Understood
  <2>2. now \in Int /\ IsSlot(s)
    <3>1. signal[r] \in Signals /\ created[r] \in Instants /\ now \in Int
      BY TimeAssumption DEF IInv, TInv, TypeOK, Identified
    <3> QED
      BY <3>1, WakeSlotForm DEF Slots
  <2>3. StartBefore(s) \in Int
    BY <2>2, ScheduledInt DEF StartBefore, Window
  <2> QED
    BY <2>1, <2>2, <2>3 DEF Concluded, Open
<1> QED
  BY <1>1, <1>2, <1>3, Knowledge, HybridInvariance, PTL DEF HybridSpec, Spec

=============================================================================
