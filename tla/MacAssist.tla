----------------------------- MODULE MacAssist ------------------------------
(***************************************************************************)
(* The optional Mac sender, scripts/dispatch_harvester_daily_slot.py: one  *)
(* short process per launch (calendar entry, login, or by hand), which     *)
(* finds the slot that is due, reserves it in the host's receipt directory *)
(* and posts one repository_dispatch for it.  Processes of a host share    *)
(* the directory only; every request lets time pass, other processes run   *)
(* and the process die.                                                    *)
(*                                                                         *)
(* A component of HybridSchedule, which states the specification and the   *)
(* assumptions on the constants.  The receipt branch is the receiver's;    *)
(* the sender sees in remote which slots have an attempt.                  *)
(***************************************************************************)
EXTENDS SlotContract

CONSTANTS
  Senders,       \* the processes ever launched with --send
  Hosts,         \* the machines that have a receipt directory
  HostOf,        \* the machine of each process
  Offsets,       \* by how many minutes a machine's clock may be off
  ControlSince   \* activationAt of the pinned control document

VARIABLES
  now,      \* the true time, which GitHub's Date headers show
  remote,   \* the slots that have an attempt.json
  at,       \* per process: where it stands
  offset,   \* per process: the error of its clock
  due,      \* per process: the slot it found due
  local,    \* the files <slotSha256>.json, with their directory and writer
  posts,    \* history: the dispatches sent
  events    \* the dispatches GitHub accepted and has not delivered yet

sender == <<at, offset, due, local, posts, events>>

SenderPhases == {"off", "find", "control", "lookup", "reserve", "recheck", "post", "gone"}

SenderInit ==
  /\ at = [p \in Senders |-> "off"]
  /\ offset \in [Senders -> Offsets]
  /\ due = [p \in Senders |-> {}]
  /\ local = {}
  /\ posts = {}
  /\ events = {}

Clock(p) == now + offset[p]

\* Mutant: the Date header is not compared
UnprovenClock(p) == TRUE

\* checked_get: the Date header lies between the clock's readings around it
ClockProven(p) == offset[p] = 0

Goto(p, to) == at' = [at EXCEPT ![p] = to]

Launch(p) ==
  /\ at[p] = "off"
  /\ Goto(p, "find")
  /\ UNCHANGED <<offset, due, local, posts, events>>

LocalReceipt(p, s) == \E f \in local : f.host = HostOf[p] /\ f.slot = s

\* NO_OPEN_SLOT, or LOCAL_ATTEMPT_PRESERVED (lexists), ends the process
FindDue(p) ==
  /\ at[p] = "find"
  /\ due' = [due EXCEPT ![p] = {s \in DueSlot(Clock(p)) : ~LocalReceipt(p, s)}]
  /\ Goto(p, IF due'[p] = {} THEN "gone" ELSE "control")
  /\ UNCHANGED <<offset, local, posts, events>>

\* Mutant: PRE_ACTIVATION_SLOT is left to the receiver
AnySlotActive(p) == TRUE

SlotActive(p) == \A s \in due[p] : ScheduledFor(s) >= ControlSince

GetControl(p) ==
  /\ at[p] = "control"
  /\ Goto(p, IF ClockProven(p) /\ SlotActive(p) THEN "lookup" ELSE "gone")
  /\ UNCHANGED <<offset, due, local, posts, events>>

\* The attempt path answers 404
NotReserved(p) == due[p] \cap remote = {}

GetAttempt(p) ==
  /\ at[p] = "lookup"
  /\ Goto(p, IF ClockProven(p) /\ NotReserved(p) THEN "reserve" ELSE "gone")
  /\ UNCHANGED <<offset, due, local, posts, events>>

\* Mutant: created without O_EXCL
OpenAlways(p) == TRUE

\* open with O_EXCL succeeds
OpenSucceeds(p) == \A s \in due[p] : ~LocalReceipt(p, s)

\* reserve_local_attempt; the file stays whatever happens next
ReserveLocal(p) ==
  /\ at[p] = "reserve"
  /\ IF OpenSucceeds(p)
       THEN /\ local' = local \cup {[host |-> HostOf[p], slot |-> s, by |-> p] : s \in due[p]}
            /\ Goto(p, "recheck")
       ELSE /\ UNCHANGED local
            /\ Goto(p, "gone")
  /\ UNCHANGED <<offset, due, posts, events>>

StillOpen(p) == \A s \in due[p] : Open(s, Clock(p))

\* SLOT_EXPIRED_ATTEMPT_PRESERVED
RecheckSlot(p) ==
  /\ at[p] = "recheck"
  /\ Goto(p, IF StillOpen(p) THEN "post" ELSE "gone")
  /\ UNCHANGED <<offset, due, local, posts, events>>

\* One POST, whose answer is not acted upon: 204, an error, or nothing
Post(p) ==
  /\ at[p] = "post"
  /\ LET dispatches == {[slot |-> s, host |-> HostOf[p], by |-> p] : s \in due[p]}
     IN  /\ posts' = posts \cup dispatches
         /\ events' \in {events, events \cup dispatches}
  /\ Goto(p, "gone")
  /\ UNCHANGED <<offset, due, local>>

\* A GET or a write that fails, a killed process, a shutdown
Die(p) ==
  /\ at[p] \notin {"off", "gone"}
  /\ Goto(p, "gone")
  /\ UNCHANGED <<offset, due, local, posts, events>>

SenderStep(p) ==
  \/ Launch(p)
  \/ FindDue(p)
  \/ GetControl(p)
  \/ GetAttempt(p)
  \/ ReserveLocal(p)
  \/ RecheckSlot(p)
  \/ Post(p)
  \/ Die(p)

-----------------------------------------------------------------------------
(* Properties, checked in HybridSchedule.                                  *)

\* When a process decides to post, its slot is the due one by the true clock
\* and the host's receipt of it is its own: a wrong clock, a slow request or a
\* second process of the host never lets a wake for another slot out.
PostsOnlyWhenDue ==
  [][\A p \in Senders : at[p] # "post" /\ at'[p] = "post" =>
       /\ due[p] = DueSlot(now)
       /\ \A f \in local : f.host = HostOf[p] /\ f.slot \in due[p] => f.by = p]_<<now, sender>>
=============================================================================
