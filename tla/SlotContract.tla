---------------------------- MODULE SlotContract ----------------------------
(***************************************************************************)
(* The pure part of scripts/harvester_schedule_contract.py: which daily    *)
(* collection slots exist, when a slot may start, and which slot a wake    *)
(* signal stands for.                                                      *)
(*                                                                         *)
(* Instants are minutes since a Monday 00:00 UTC; every boundary of the    *)
(* code falls on a whole minute.  A slot is the pair of a KST day number   *)
(* (day 0 is that Monday in Seoul) and a batch; the slot's hash, path and  *)
(* wire form are functions of that pair.  A ContractError is the empty     *)
(* set: an operator that raises or returns a slot returns a set of at most *)
(* one slot.                                                               *)
(***************************************************************************)
EXTENDS Integers

MinutesPerDay == 1440
KstOffset     == 540
Window        == 180              \* WINDOW = 10800 seconds

Batches == {"first", "second"}

\* HOURS, at minute 13
Hour(batch) == IF batch = "first" THEN 7 ELSE 12

KstDay(t) == (t + KstOffset) \div MinutesPerDay

\* date.weekday() in range(1, 6): Tuesday to Saturday
CollectionDay(day) == day % 7 \in 1..5

ScheduledFor(slot) ==
  slot.day * MinutesPerDay + Hour(slot.batch) * 60 + 13 - KstOffset

StartBefore(slot) == ScheduledFor(slot) + Window

\* make_slot: a slot for that KST date and batch, unless INVALID_SLOT
MakeSlot(day, batch) ==
  {s \in {[day |-> day, batch |-> batch]} :
     s.batch \in Batches /\ CollectionDay(s.day)}

\* Mutant: a closed deadline
ClosedWindow(slot, t) == ScheduledFor(slot) <= t /\ t <= StartBefore(slot)

\* The half-open start window of slot_is_open
Open(slot, t) == ScheduledFor(slot) <= t /\ t < StartBefore(slot)

\* due_slot: what the Mac sender wakes for at instant t
DueSlot(t) ==
  {s \in UNION {MakeSlot(KstDay(t), b) : b \in Batches} : Open(s, t)}

-----------------------------------------------------------------------------
(* Routing.  A wake signal is a record with                                *)
(*   name  : "schedule", "workflow_dispatch", "assist" (repository_dispatch *)
(*           harvester_daily_slot_requested) or "stage3" (repository_      *)
(*           dispatch stage3_completed)                                    *)
(*   batch : the batch its cron expression or payload names                *)
(*   at    : the scheduledFor of a payload (unused by a cron)              *)
(*   main  : whether the run's ref is refs/heads/main                      *)

\* Mutant: only today's date is searched for a native run
TodayOnly(batch, created) ==
  {s \in MakeSlot(KstDay(created), batch) : ScheduledFor(s) <= created}

\* A cron run stands for the latest nominal occurrence of its own cron
NativeCandidates(batch, created) ==
  {s \in UNION {MakeSlot(KstDay(created) - i, batch) : i \in 0..7} :
     ScheduledFor(s) <= created}

NativeSlot(batch, created) ==
  LET candidates == NativeCandidates(batch, created)
  IN  {s \in candidates : \A c \in candidates : c.day <= s.day}

\* A dispatch names its slot; anything but the canonical instant is refused
RequestedSlot(batch, at) ==
  {s \in MakeSlot(KstDay(at), batch) : ScheduledFor(s) = at}

WakeSlot(signal, created) ==
  IF signal.name = "schedule"
    THEN NativeSlot(signal.batch, created)
    ELSE RequestedSlot(signal.batch, signal.at)

\* Mutant: a native run is read as the latest occurrence of its cron now
ResolveFromClock(signal, try, created, t) ==
  {s \in WakeSlot(signal, t) : signal.main /\ try = 1 /\ created <= t /\ Open(s, t)}

\* resolve_route in hybrid mode, for every event that is not Stage3
Resolve(signal, try, created, t) ==
  {s \in WakeSlot(signal, created) :
     signal.main /\ try = 1 /\ created <= t /\ Open(s, t)}

-----------------------------------------------------------------------------
\* Mutant: the batch of the slot is not looked at
SecAnyBatch(mode, signal, slots, enabled) ==
  /\ enabled
  /\ \/ mode = "hybrid" /\ slots # {}
     \/ mode = "legacy" /\ signal.name = "schedule"

\* sec_phase_allowed, before the collector's own outcome is known
SecAllowed(mode, signal, slots, enabled) ==
  /\ enabled
  /\ \/ mode = "hybrid" /\ \E s \in slots : s.batch = "second"
     \/ mode = "legacy" /\ signal.name = "schedule" /\ signal.batch = "second"
=============================================================================
