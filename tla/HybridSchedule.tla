--------------------------- MODULE HybridSchedule ---------------------------
(***************************************************************************)
(* The hybrid schedule as a whole: the Mac senders of MacAssist and the    *)
(* receiver of DailyAdmission, which share the clock, the receipt branch   *)
(* and the dispatches on their way.  A run with an assist signal exists    *)
(* only because GitHub accepted a sender's dispatch; cron, operator and    *)
(* Stage3 runs arrive as before.                                           *)
(***************************************************************************)
EXTENDS DailyAdmission

CONSTANTS Senders, Hosts, HostOf, Offsets

VARIABLES at, offset, due, local, posts, events

remote == {a.slot : a \in attempts}

Mac == INSTANCE MacAssist WITH ControlSince <- ActivationAt

receiver == vars
senders == <<at, offset, due, local, posts, events>>
hybridVars == <<receiver, senders>>

\* The payload of a dispatch: schema version, scheduledFor and batch
AssistSignal(s) ==
  [name |-> "assist", batch |-> s.batch, at |-> ScheduledFor(s), main |-> TRUE]

\* What a machine may ever find due
WakeSlots == UNION {DueSlot(t + o) : t \in Instants, o \in Offsets}

ASSUME HostAssumption == HostOf \in [Senders -> Hosts]
ASSUME OffsetAssumption == Offsets \subseteq Int
ASSUME WakeAssumption == \A s \in WakeSlots : AssistSignal(s) \in Signals

HybridInit == Init /\ Mac!SenderInit

\* GitHub delivers an accepted dispatch, sooner or later, once
Deliver(r, q) ==
  /\ q \in events
  /\ Arrive(r, AssistSignal(q.slot))
  /\ events' = events \ {q}
  /\ UNCHANGED <<at, offset, due, local, posts>>

NativeWake(r, s) ==
  /\ s.name # "assist"
  /\ Arrive(r, s)
  /\ UNCHANGED senders

HybridNext ==
  \/ Tick /\ UNCHANGED senders
  \/ \E r \in Runs :
       \/ Advance(r) /\ UNCHANGED senders
       \/ \E s \in Signals : NativeWake(r, s)
       \/ \E q \in events : Deliver(r, q)
  \/ \E p \in Senders : Mac!SenderStep(p) /\ UNCHANGED receiver

HybridSpec == HybridInit /\ [][HybridNext]_hybridVars

-----------------------------------------------------------------------------
(* Properties.                                                             *)

PostsOnlyWhenDue == Mac!PostsOnlyWhenDue

\* "One POST at most per slot from this host" (design, section 6), and only by
\* the process that wrote the host's receipt, over all launches, crashes and
\* lost answers: the promise of SlotOnce with hosts for its workflow runs.
WakePromise == INSTANCE SlotOnce WITH
  Slots    <- WakeSlots \X Hosts,
  Runs     <- Senders,
  Tries    <- {1},
  owned    <- {<<<<f.slot, f.host>>, f.by>> : f \in local},
  started  <- {<<<<q.slot, q.host>>, q.by, 1>> : q \in posts},
  reported <- {}

WakeOncePerHost == WakePromise!Spec

\* What the sender proved before it posted is what the receiver asks for: a
\* wake whose run ends without a reservation of its own finds its slot already
\* reserved or its window over; it is never refused for its route, its
\* activation boundary or its payload.
WakeIsNeverMisunderstood ==
  \A r \in Runs \ Faulty :
    /\ pc[r] = "done" /\ signal[r].name = "assist" /\ mode[r] = "hybrid"
    => \A s \in WakeSlot(signal[r], created[r]) : Taken(s) \/ ~Open(s, now)
=============================================================================
