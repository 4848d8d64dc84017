--------------------------- MODULE MCSlotContract ---------------------------
(***************************************************************************)
(* Checks the slot arithmetic of SlotContract, minute by minute, against a *)
(* second notation of the same calendar: the two cron lines of             *)
(* .github/workflows/main.yml, which are written in UTC while the slots    *)
(* are defined in Asia/Seoul.                                              *)
(***************************************************************************)
EXTENDS SlotContract, FiniteSets

CONSTANTS
  Horizon,   \* last minute of the calendar that is checked
  Delays     \* how late a created run may be examined, in minutes

ASSUME HorizonAssumption == Horizon \in Nat
ASSUME DelaysAssumption  == Delays \subseteq Nat

VARIABLES
  now,       \* the minute under examination
  fired      \* per batch: the minute its cron last fired, -1 before it did

vars == <<now, fired>>

\* cron: '13 22 * * 1-5' and '13 3 * * 2-6'; cron weekday 1 is Monday, and
\* the UTC day of minute t has weekday (t \div 1440) % 7 with 0 for Monday
CronFires(batch, t) ==
  LET weekday == (t \div MinutesPerDay) % 7
      minute  == t % MinutesPerDay
  IN  IF batch = "first"
        THEN minute = 22 * 60 + 13 /\ weekday \in 0..4
        ELSE minute = 3 * 60 + 13 /\ weekday \in 1..5

Record(t) ==
  [b \in Batches |-> IF CronFires(b, t) THEN t ELSE fired[b]]

Init ==
  /\ now = 0
  /\ fired = [b \in Batches |-> -1]

Tick ==
  /\ now < Horizon
  /\ now' = now + 1
  /\ fired' = Record(now + 1)

Next == Tick

Spec == Init /\ [][Next]_vars

-----------------------------------------------------------------------------
Wake(name, batch, at) ==
  [name |-> name, batch |-> batch, at |-> at, main |-> TRUE]

\* Every slot a signal could stand for around this minute
NearbySlots ==
  UNION {MakeSlot(KstDay(now) + i, b) : i \in -2..2, b \in Batches}

\* resolve_route maps a native run created now to the slot of the minute at
\* which its own cron last fired, over weekends and across the UTC/KST date
\* line, so the eight-day search never skips or invents an occurrence.
NativeSlotIsLastFiring ==
  \A b \in Batches :
    fired[b] >= 0 => \E s \in NativeSlot(b, now) :
                       ScheduledFor(s) = fired[b] /\ NativeSlot(b, now) = {s}

\* due_slot returns the open slot whenever there is one: no second slot is
\* open at the same time, and none is missed by looking at today's date only.
DueSlotIsTheOpenSlot ==
  /\ DueSlot(now) = {s \in NearbySlots : Open(s, now)}
  /\ Cardinality(DueSlot(now)) <= 1

\* Sender and receiver agree: the sender's due slot is the open one, the
\* request it builds for it is resolved by the receiver to that slot as long
\* as it is open, and to nothing once the receiver gets to it too late.
SenderAndReceiverAgree ==
  /\ DueSlotIsTheOpenSlot
  /\ \A s \in DueSlot(now), d \in Delays :
       Resolve(Wake("assist", s.batch, ScheduledFor(s)), 1, now, now + d)
         = IF now + d < ScheduledFor(s) + Window THEN {s} ELSE {}
=============================================================================
