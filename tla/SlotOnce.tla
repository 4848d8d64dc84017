------------------------------ MODULE SlotOnce ------------------------------
(***************************************************************************)
(* What the daily admission promises, without clocks, jobs or receipt      *)
(* files (docs/superpowers/specs/2026-10-30-harvester-hybrid-schedule-     *)
(* design.md, section 5): a slot is reserved by one run for good, only     *)
(* that run may start the slot's collector, it does so at most once over   *)
(* all its executions, and at most one result is recorded for the slot.    *)
(***************************************************************************)
CONSTANTS
  Slots,     \* the daily slots
  Runs,      \* the workflow runs that compete for them
  Tries      \* the executions (re-runs) a run may have

VARIABLES
  owned,     \* set of <<slot, run>>: the durable reservations
  started,   \* set of <<slot, run, try>>: the collectors ever started
  reported   \* set of <<slot, run, try>>: the results ever recorded

vars == <<owned, started, reported>>

Init ==
  /\ owned = {}
  /\ started = {}
  /\ reported = {}

Unused(set, s) == \A e \in set : e[1] # s

Reserve(s, r) ==
  /\ Unused(owned, s)
  /\ owned' = owned \cup {<<s, r>>}
  /\ UNCHANGED <<started, reported>>

Start(s, r, k) ==
  /\ <<s, r>> \in owned
  /\ Unused(started, s)
  /\ started' = started \cup {<<s, r, k>>}
  /\ UNCHANGED <<owned, reported>>

Report(s, r, k) ==
  /\ <<s, r>> \in owned
  /\ Unused(reported, s)
  /\ reported' = reported \cup {<<s, r, k>>}
  /\ UNCHANGED <<owned, started>>

Next ==
  \E s \in Slots, r \in Runs :
    \/ Reserve(s, r)
    \/ \E k \in Tries : Start(s, r, k) \/ Report(s, r, k)

Spec == Init /\ [][Next]_vars
=============================================================================
