-------------------------- MODULE MCDailyAdmission --------------------------
(***************************************************************************)
(* Instances of DailyAdmission for TLC.  Minutes count from Monday 00:00   *)
(* UTC: 1333 is Monday 22:13 UTC, the first slot of Tuesday in Seoul, and  *)
(* 1633 its second slot; their windows end at 1513 and 1813.  2773 is the  *)
(* first slot of the next day.                                             *)
(***************************************************************************)
EXTENDS DailyAdmission, TLC

CONSTANTS r1, r2, r3

Wakeup(name, batch, at, main) ==
  [name |-> name, batch |-> batch, at |-> at, main |-> main]

CronFirst    == Wakeup("schedule", "first", 0, TRUE)
AssistFirst  == Wakeup("assist", "first", 1333, TRUE)
ManualSecond == Wakeup("workflow_dispatch", "second", 1633, TRUE)
OffMain      == Wakeup("workflow_dispatch", "first", 1333, FALSE)
Stage3       == Wakeup("stage3", "none", 0, TRUE)

RaceSignals  == {CronFirst, AssistFirst, ManualSecond, Stage3}
GroupSignals == {CronFirst, AssistFirst, OffMain, Stage3}

\* both windows of a day, the end of the first one, and the same batch a day
\* later, so that an old wake meets a new slot
RaceInstants  == {1333, 1512, 1513, 1633, 2773}
\* the first slot and the end of its window
FirstInstants == {1333, 1513}

Symmetry == Permutations(Runs)
=============================================================================
