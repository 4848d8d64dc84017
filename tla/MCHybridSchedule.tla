-------------------------- MODULE MCHybridSchedule --------------------------
(***************************************************************************)
(* An instance of HybridSchedule for TLC.  Minutes count from Monday 00:00 *)
(* UTC: 1333 is the first slot of Tuesday in Seoul, before activation;     *)
(* 1633 is its second slot, the first active one, open until 1813.         *)
(***************************************************************************)
EXTENDS HybridSchedule

CONSTANTS r1, r2, p1, p2, h1

CronSecond   == [name |-> "schedule", batch |-> "second", at |-> 0, main |-> TRUE]
AssistFirst  == [name |-> "assist", batch |-> "first", at |-> 1333, main |-> TRUE]
AssistSecond == [name |-> "assist", batch |-> "second", at |-> 1633, main |-> TRUE]

HybridSignals  == {CronSecond, AssistFirst, AssistSecond}
HybridInstants == {1333, 1633, 1813}
HybridHostOf   == [p \in {p1, p2} |-> h1]
\* right, and so far ahead that the second slot seems due in the first window
HybridOffsets  == {0, 300}
=============================================================================
