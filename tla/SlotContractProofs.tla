------------------------ MODULE SlotContractProofs ------------------------
(***************************************************************************)
(* The slot calendar for every horizon and every delay: the two notations  *)
(* of the calendar are one, a native run stands for the last firing of its *)
(* cron, and sender and receiver agree on the open slot.  The weekday and  *)
(* the time of day are linear arithmetic over whole minutes.               *)
(***************************************************************************)
EXTENDS MCSlotContract, FiniteSetTheorems, TLAPS

Slot(day, b) == [day |-> day, batch |-> b]

\* The nominal instant of a batch on a Seoul day
Nominal(day, b) == day * MinutesPerDay + (IF b = "first" THEN -107 ELSE 193)

LEMMA NominalInstant ==
  ASSUME NEW day \in Int, NEW b \in Batches
  PROVE  /\ ScheduledFor(Slot(day, b)) = Nominal(day, b)
         /\ Nominal(day, b) \in Int
BY DEF Slot, ScheduledFor, Nominal, Hour, Batches, MinutesPerDay, KstOffset

\* The UTC cron lines and the Seoul slots name the same instants
LEMMA CronIsTheCalendar ==
  ASSUME NEW b \in Batches, NEW t \in Int
  PROVE  CronFires(b, t) <=> \E day \in Int : CollectionDay(day) /\ t = Nominal(day, b)
<1> DEFINE day == (t \div 1440) + (IF b = "first" THEN 1 ELSE 0)
<1>1. day \in Int /\ (t \div 1440) \in Int
  OBVIOUS
<1>2. ASSUME CronFires(b, t) PROVE CollectionDay(day) /\ t = Nominal(day, b)
  BY <1>2 DEF CronFires, CollectionDay, Nominal, Batches, MinutesPerDay
<1>3. ASSUME NEW d \in Int, CollectionDay(d), t = Nominal(d, b) PROVE CronFires(b, t)
  BY <1>3 DEF CronFires, CollectionDay, Nominal, Batches, MinutesPerDay
<1> QED
  BY <1>1, <1>2, <1>3

\* Two days without a collection at most, between two days with one
LEMMA CollectionSoon ==
  ASSUME NEW day \in Int
  PROVE  \E later \in day + 1 .. day + 3 : CollectionDay(later)
<1>1. CollectionDay(day + 1) \/ CollectionDay(day + 2) \/ CollectionDay(day + 3)
  BY DEF CollectionDay
<1> QED
  BY <1>1

-----------------------------------------------------------------------------
(* The last firing.                                                        *)

CalendarTypes == now \in Nat /\ fired \in [Batches -> Int]

\* The cron fired at the minute on record, if any, and never since
LastFiring ==
  \A b \in Batches :
    /\ fired[b] >= 0 => CronFires(b, fired[b]) /\ fired[b] <= now
    /\ \A t \in 0..now : t > fired[b] => ~CronFires(b, t)

LEMMA CalendarInvariance == Spec => [](CalendarTypes /\ LastFiring)
<1>1. Init => CalendarTypes /\ LastFiring
  <2> SUFFICES ASSUME Init PROVE CalendarTypes /\ LastFiring
    OBVIOUS
  <2>1. \A b \in Batches : ~CronFires(b, 0)
    BY DEF CronFires, MinutesPerDay, Batches
  <2> QED
    BY <2>1 DEF Init, CalendarTypes, LastFiring
<1>2. CalendarTypes /\ LastFiring /\ [Next]_vars => (CalendarTypes /\ LastFiring)'
  <2> SUFFICES ASSUME CalendarTypes, LastFiring, [Next]_vars
               PROVE  (CalendarTypes /\ LastFiring)'
    OBVIOUS
  <2>1. CASE Next
    <3>1. now \in Nat /\ now' = now + 1 /\ fired' = Record(now + 1)
      BY <2>1 DEF Next, Tick, CalendarTypes
    <3>2. CalendarTypes'
      BY <3>1 DEF Record, CalendarTypes
    <3>3. ASSUME NEW b \in Batches
          PROVE  /\ fired'[b] >= 0 => CronFires(b, fired'[b]) /\ fired'[b] <= now'
                 /\ \A t \in 0..now' : t > fired'[b] => ~CronFires(b, t)
      <4>1. fired'[b] = IF CronFires(b, now + 1) THEN now + 1 ELSE fired[b]
        BY <3>1 DEF Record
      <4>2. /\ fired[b] >= 0 => CronFires(b, fired[b]) /\ fired[b] <= now
            /\ \A t \in 0..now : t > fired[b] => ~CronFires(b, t)
            /\ fired[b] \in Int
        BY DEF LastFiring, CalendarTypes
      <4>3. CASE CronFires(b, now + 1)
        BY <3>1, <4>1, <4>2, <4>3
      <4>4. CASE ~CronFires(b, now + 1)
        <5>1. \A t \in 0..now' : t \in 0..now \/ t = now + 1
          BY <3>1
        <5> QED
          BY <3>1, <4>1, <4>2, <4>4, <5>1
      <4> QED
        BY <4>3, <4>4
    <3> QED
      BY <3>2, <3>3 DEF LastFiring, CronFires
  <2>2. CASE UNCHANGED vars
    BY <2>2 DEF vars, CalendarTypes, LastFiring, CronFires
  <2> QED
    BY <2>1, <2>2
<1> QED
  BY <1>1, <1>2, PTL DEF Spec

\* The eight days a native run looks at hold the last firing
LEMMA LastFiringIsNear ==
  ASSUME NEW b \in Batches, NEW t \in Nat, NEW day \in Int, CollectionDay(day),
         0 <= Nominal(day, b), Nominal(day, b) <= t,
         \A u \in 0..t : u > Nominal(day, b) => ~CronFires(b, u)
  PROVE  /\ KstDay(t) \in Int /\ day \in KstDay(t) - 7 .. KstDay(t)
         /\ \A later \in Int : CollectionDay(later) /\ Nominal(later, b) <= t => later <= day
<1>1. KstDay(t) \in Int /\ KstDay(t) * 1440 <= t + 540 /\ t + 540 < KstDay(t) * 1440 + 1440
  BY DEF KstDay, KstOffset, MinutesPerDay
<1>2. ASSUME NEW later \in Int, CollectionDay(later), Nominal(later, b) <= t, later > day
      PROVE  FALSE
  <2>1. Nominal(later, b) \in 0..t /\ Nominal(later, b) > Nominal(day, b)
    BY <1>2 DEF Nominal, MinutesPerDay
  <2>2. CronFires(b, Nominal(later, b))
    BY <1>2, <2>1, CronIsTheCalendar
  <2> QED
    BY <2>1, <2>2
<1>3. day <= KstDay(t)
  BY <1>1 DEF Nominal, MinutesPerDay, Batches
<1>4. KstDay(t) - 7 <= day
  <2> SUFFICES ASSUME day < KstDay(t) - 7 PROVE FALSE
    BY <1>1
  <2>1. PICK later \in day + 1 .. day + 3 : CollectionDay(later)
    BY CollectionSoon
  <2>2. Nominal(later, b) <= t
    BY <1>1, <2>1 DEF Nominal, MinutesPerDay, Batches
  <2> QED
    BY <1>2, <2>1, <2>2
<1> QED
  BY <1>1, <1>2, <1>3, <1>4

\* What a native run created at t stands for
LEMMA NativeSlotOf ==
  ASSUME NEW b \in Batches, NEW t \in Nat, NEW day \in Int, CollectionDay(day),
         day \in KstDay(t) - 7 .. KstDay(t), KstDay(t) \in Int, Nominal(day, b) <= t,
         \A later \in Int : CollectionDay(later) /\ Nominal(later, b) <= t => later <= day
  PROVE  NativeSlot(b, t) = {Slot(day, b)}
<1>1. KstDay(t) - day \in 0..7 /\ KstDay(t) - (KstDay(t) - day) = day
  OBVIOUS
<1>2. Slot(day, b) \in MakeSlot(KstDay(t) - (KstDay(t) - day), b)
  BY <1>1 DEF MakeSlot, Slot
<1>3. Slot(day, b) \in NativeCandidates(b, t)
  BY <1>1, <1>2, NominalInstant DEF NativeCandidates
<1>4. ASSUME NEW c \in NativeCandidates(b, t)
      PROVE  c.day \in Int /\ c = Slot(c.day, b) /\ c.day <= day
  <2>1. PICK i \in 0..7 : c \in MakeSlot(KstDay(t) - i, b) /\ ScheduledFor(c) <= t
    BY <1>4 DEF NativeCandidates
  <2>2. c = Slot(KstDay(t) - i, b) /\ CollectionDay(KstDay(t) - i) /\ KstDay(t) - i \in Int
    BY <2>1 DEF MakeSlot, Slot
  <2>3. Nominal(KstDay(t) - i, b) <= t
    BY <2>1, <2>2, NominalInstant
  <2> QED
    BY <2>2, <2>3 DEF Slot
<1>5. Slot(day, b).day = day
  BY DEF Slot
<1>6. ASSUME NEW c \in NativeSlot(b, t) PROVE c = Slot(day, b)
  <2>1. c \in NativeCandidates(b, t) /\ day <= c.day
    BY <1>3, <1>5, <1>6 DEF NativeSlot
  <2> QED
    BY <1>4, <2>1
<1>7. Slot(day, b) \in NativeSlot(b, t)
  BY <1>3, <1>4, <1>5 DEF NativeSlot
<1> QED
  BY <1>6, <1>7

\* A native run stands for the slot of the minute at which its own cron last
\* fired, over weekends and the UTC/Seoul date line, for any horizon.
THEOREM NativeRunIsLastFiring == Spec => []NativeSlotIsLastFiring
<1>1. CalendarTypes /\ LastFiring => NativeSlotIsLastFiring
  <2> SUFFICES ASSUME CalendarTypes, LastFiring, NEW b \in Batches, fired[b] >= 0
               PROVE  \E s \in NativeSlot(b, now) :
                        ScheduledFor(s) = fired[b] /\ NativeSlot(b, now) = {s}
    BY DEF NativeSlotIsLastFiring
  <2>1. /\ CronFires(b, fired[b]) /\ fired[b] <= now /\ fired[b] \in Int /\ now \in Nat
        /\ \A t \in 0..now : t > fired[b] => ~CronFires(b, t)
    BY DEF LastFiring, CalendarTypes
  <2>2. PICK day \in Int : CollectionDay(day) /\ fired[b] = Nominal(day, b)
    BY <2>1, CronIsTheCalendar
  <2>3. /\ KstDay(now) \in Int /\ day \in KstDay(now) - 7 .. KstDay(now)
        /\ \A later \in Int : CollectionDay(later) /\ Nominal(later, b) <= now => later <= day
    BY <2>1, <2>2, LastFiringIsNear
  <2>4. NativeSlot(b, now) = {Slot(day, b)}
    BY <2>1, <2>2, <2>3, NativeSlotOf
  <2> QED
    BY <2>2, <2>4, NominalInstant
<1> QED
  BY <1>1, CalendarInvariance, PTL

-----------------------------------------------------------------------------
(* The open slot.                                                          *)

\* At most one slot is open, and it is one of today in Seoul
LEMMA OpenSlot ==
  ASSUME NEW t \in Int, NEW day \in Int, NEW b \in Batches
  PROVE  Open(Slot(day, b), t) =>
           /\ day = KstDay(t)
           /\ b = IF t + KstOffset < day * MinutesPerDay + 613 THEN "first" ELSE "second"
BY DEF Slot, Open, ScheduledFor, StartBefore, Window, Hour, Batches, KstDay, KstOffset, MinutesPerDay

LEMMA Today == ASSUME NEW t \in Int PROVE KstDay(t) \in Int
BY DEF KstDay, KstOffset, MinutesPerDay

LEMMA MadeSlot ==
  ASSUME NEW day \in Int, NEW b, NEW s \in MakeSlot(day, b)
  PROVE  s = Slot(day, b) /\ b \in Batches /\ CollectionDay(day)
BY DEF MakeSlot, Slot

LEMMA DueIsOpen == ASSUME NEW t \in Int, NEW s \in DueSlot(t)
  PROVE  \E b \in Batches : /\ s = Slot(KstDay(t), b) /\ CollectionDay(KstDay(t))
                            /\ Open(s, t) /\ s \in MakeSlot(KstDay(t), b)
BY Today, MadeSlot DEF DueSlot

LEMMA OneDueSlot == ASSUME NEW t \in Int PROVE Cardinality(DueSlot(t)) <= 1
<1>1. ASSUME NEW s \in DueSlot(t), NEW u \in DueSlot(t) PROVE s = u
  BY DueIsOpen, OpenSlot, Today
<1>2. CASE DueSlot(t) = {}
  BY <1>2, FS_EmptySet
<1>3. CASE DueSlot(t) # {}
  <2>1. PICK s : DueSlot(t) = {s}
    BY <1>1, <1>3
  <2> QED
    BY <2>1, FS_Singleton
<1> QED
  BY <1>2, <1>3

LEMMA DueSlotIsOpen == ASSUME now \in Int PROVE DueSlotIsTheOpenSlot
<1>1. ASSUME NEW s \in DueSlot(now) PROVE s \in NearbySlots /\ Open(s, now)
  <2>1. PICK b \in Batches : s \in MakeSlot(KstDay(now), b) /\ Open(s, now)
    BY DueIsOpen
  <2>2. 0 \in -2..2 /\ KstDay(now) + 0 = KstDay(now)
    BY Today
  <2> QED
    BY <2>1, <2>2 DEF NearbySlots
<1>2. ASSUME NEW s \in NearbySlots, Open(s, now) PROVE s \in DueSlot(now)
  <2>1. PICK i \in -2..2, b \in Batches : s \in MakeSlot(KstDay(now) + i, b)
    BY <1>2 DEF NearbySlots
  <2>2. KstDay(now) + i = KstDay(now)
    BY <1>2, <2>1, Today, MadeSlot, OpenSlot
  <2> QED
    BY <1>2, <2>1, <2>2 DEF DueSlot
<1> QED
  BY <1>1, <1>2, OneDueSlot DEF DueSlotIsTheOpenSlot

\* The request for an open slot is resolved to it while its window is open
LEMMA RequestResolved ==
  ASSUME NEW t \in Int, NEW s \in DueSlot(t), NEW d \in Nat
  PROVE  Resolve(Wake("assist", s.batch, ScheduledFor(s)), 1, t, t + d)
           = IF t + d < ScheduledFor(s) + Window THEN {s} ELSE {}
<1> DEFINE signal == Wake("assist", s.batch, ScheduledFor(s))
           day == KstDay(t)
<1>1. PICK b \in Batches : s = Slot(day, b) /\ CollectionDay(day) /\ Open(s, t)
  BY DueIsOpen
<1>2. day \in Int /\ s.batch = b /\ ScheduledFor(s) = Nominal(day, b) /\ Nominal(day, b) \in Int
  BY <1>1, Today, NominalInstant DEF Slot
<1>3. KstDay(ScheduledFor(s)) = day
  BY <1>2 DEF KstDay, KstOffset, MinutesPerDay, Nominal, Batches
<1>4. MakeSlot(day, b) = {s}
  BY <1>1 DEF MakeSlot, Slot
<1>5. WakeSlot(signal, t) = {s}
  BY <1>2, <1>3, <1>4 DEF WakeSlot, Wake, RequestedSlot
<1>6. Open(s, t + d) <=> t + d < ScheduledFor(s) + Window
  BY <1>1, <1>2 DEF Open, StartBefore
<1>7. Resolve(signal, 1, t, t + d) = {u \in WakeSlot(signal, t) : Open(u, t + d)}
  <2>1. signal.main /\ t <= t + d
    BY DEF Wake
  <2> QED
    BY <2>1 DEF Resolve
<1> HIDE DEF signal
<1>8. {u \in {s} : Open(u, t + d)} = IF Open(s, t + d) THEN {s} ELSE {}
  OBVIOUS
<1> QED
  BY <1>5, <1>6, <1>7, <1>8 DEF signal

\* The sender's due slot is the only open one, its request is resolved by the
\* receiver to that slot as long as it is open, and to nothing afterwards, for
\* any delay between them.
THEOREM SenderMeetsReceiver == Spec => []SenderAndReceiverAgree
<1>1. CalendarTypes => SenderAndReceiverAgree
  <2> SUFFICES ASSUME now \in Int PROVE SenderAndReceiverAgree
    BY DEF CalendarTypes
  <2>1. DueSlotIsTheOpenSlot
    BY DueSlotIsOpen
  <2>2. \A d \in Delays : d \in Nat
    BY DelaysAssumption
  <2>3. \A s \in DueSlot(now), d \in Delays :
          Resolve(Wake("assist", s.batch, ScheduledFor(s)), 1, now, now + d)
            = IF now + d < ScheduledFor(s) + Window THEN {s} ELSE {}
    BY <2>2, RequestResolved
  <2> QED
    BY <2>1, <2>3 DEF SenderAndReceiverAgree
<1> QED
  BY <1>1, CalendarInvariance, PTL
=============================================================================
