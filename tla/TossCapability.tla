--------------------------- MODULE TossCapability ---------------------------
(***************************************************************************)
(* ensure_toss_read_only_capability_once of harvester.py with              *)
(* scripts/toss_read_only_capability.py: the daily run probes Toss at most *)
(* once for as long as its record stands in Drive.  The record is stored   *)
(* as a reservation before the first request, and again with the verdict;  *)
(* the Toss collector asks for its verdict (TossHandoff).                  *)
(*                                                                         *)
(* Daily runs exclude each other (main.yml concurrency).  A run may end at *)
(* any point; an upload that fails may or may not have been stored.        *)
(***************************************************************************)
EXTENDS Integers, Sequences, SequencesExt

CONSTANTS
  Probers,    \* daily runs with the probe switched on
  MaxResets   \* bound: records that an operator archives for a reprobe

\* Assumed of the constants; asserted in MCDriveArtifacts
ResetAssumption == MaxResets \in Nat

VARIABLES
  at,      \* per run: its step
  found,   \* the verdict that the run in progress holds
  stored,  \* TOSS_READ_ONLY_CAPABILITY.json in Drive
  resets,  \* records archived by an operator so far
  sent,    \* history: per run, requests sent
  heard,   \* history: the last answer to a candle request, and who was answered
  era      \* history: per run, the resets before its reservation

capabilityVars == <<at, found, stored, resets, sent, heard, era>>

Pass     == "TOSS_READ_ONLY_CAPABILITY_PASS"
Reserved == "TOSS_TRANSIENT_FAILURE"
Missing  == [status |-> "missing", by |-> "none"]
Foreign  == [status |-> "foreign", by |-> "none"]   \* no JSON, or of another schema

Over == {"reused", "error", "done", "dead"}
Live(r) == at[r] \notin {"new"} \cup Over
Goto(r, to) == at' = [at EXCEPT ![r] = to]

(* How a request can end. *)
Ends == {"lost", "denied", "limited", "unavailable", "refused", "unusable", "ok"}

FailureStatus(end) ==
  CASE end = "denied" -> "TOSS_AUTH_OR_ENTITLEMENT_BLOCKED"
    [] end = "limited" -> "TOSS_RATE_LIMITED"
    [] end \in {"lost", "unavailable"} -> "TOSS_TRANSIENT_FAILURE"
    [] OTHER -> "TOSS_RESPONSE_CONTRACT_INVALID"

(* What a candle can be worth: usable; without a field, with prices out of *)
(* order or a timestamp without an offset; or newer than the retrieval.    *)
Candles == {"good", "invalid", "future"}
Answers == [end : {"ok"}, candles : SeqOf(Candles, 3), pages : BOOLEAN, headers : BOOLEAN]
           \cup [end : Ends \ {"ok"}]

\* Mutant: the newest candle is not compared with the retrieval
SchemaIgnoringClock(a) ==
  /\ Len(a.candles) \in 1..2 /\ a.pages
  /\ \A i \in DOMAIN a.candles : a.candles[i] \in {"good", "future"}

(* One or two candles, all of them usable and none newer than the          *)
(* retrieval, and a nextBefore that is null or a time.                     *)
SchemaValid(a) ==
  /\ Len(a.candles) \in 1..2 /\ a.pages
  /\ \A i \in DOMAIN a.candles : a.candles[i] = "good"

Verdict(a) ==
  IF a.end # "ok" THEN FailureStatus(a.end)
  ELSE IF SchemaValid(a) /\ a.headers THEN Pass ELSE FailureStatus("unusable")

-----------------------------------------------------------------------------
Init ==
  /\ at = [r \in Probers |-> "new"] /\ found = "none"
  /\ stored \in {Missing, Foreign} /\ resets = 0
  /\ sent = [r \in Probers |-> 0] /\ era = [r \in Probers |-> 0]
  /\ heard = [by |-> "none", answer |-> [end |-> "lost"]]

\* A record with oneShotReservedAt, whatever its verdict, is used as it is
Stands == stored \notin {Missing, Foreign}

\* A record that cannot be looked up or downloaded ends the daily run.
LookUp(r) ==
  /\ at[r] = "new"
  /\ \A q \in Probers : ~Live(q)
  /\ \/ Goto(r, IF Stands THEN "reused" ELSE "reserve")
     \/ Goto(r, "error")
  /\ era' = [era EXCEPT ![r] = resets]
  /\ found' = "none"
  /\ UNCHANGED <<stored, resets, sent, heard>>

\* The local report, then the record; a failure of either ends the daily run.
Store(r, status, to) ==
  \/ /\ stored' = [status |-> status, by |-> r]
     /\ Goto(r, to)
  \/ /\ stored' \in {stored, [status |-> status, by |-> r]}
     /\ Goto(r, "error")

Reserve(r) ==
  /\ at[r] = "reserve"
  /\ Store(r, Reserved, "token")
  /\ UNCHANGED <<found, resets, sent, heard, era>>

Conclude(r, status) == found' = status /\ Goto(r, "store")

\* Without its secrets, or without a symbol to ask for, nothing is sent.
NothingToAsk(r) ==
  /\ at[r] = "token"
  /\ \E end \in {"denied", "unusable"} : Conclude(r, FailureStatus(end))
  /\ UNCHANGED <<stored, resets, sent, heard, era>>

Send(r) == sent' = [sent EXCEPT ![r] = @ + 1]

RequestToken(r) ==
  /\ at[r] = "token"
  /\ Send(r)
  /\ \/ Goto(r, "candles") /\ UNCHANGED found
     \/ \E end \in Ends \ {"ok"} : Conclude(r, FailureStatus(end))
  /\ UNCHANGED <<stored, resets, heard, era>>

RequestCandles(r) ==
  /\ at[r] = "candles"
  /\ Send(r)
  /\ \E a \in Answers :
       /\ Conclude(r, Verdict(a))
       /\ heard' = [by |-> r, answer |-> a]
  /\ UNCHANGED <<stored, resets, era>>

StoreVerdict(r) ==
  /\ at[r] = "store"
  /\ Store(r, found, "done")
  /\ UNCHANGED <<found, resets, sent, heard, era>>

Dies(r) ==
  /\ Live(r)
  /\ Goto(r, "dead")
  /\ UNCHANGED <<found, stored, resets, sent, heard, era>>

(* An operator archives the record under another name, with no run active  *)
(* (TOSS_PHASE1_AUTH_REPROBE_PACKAGE.md, Archive/reset).                   *)
ArchiveRecord ==
  /\ Stands /\ resets < MaxResets
  /\ \A r \in Probers : ~Live(r)
  /\ stored' = Missing /\ resets' = resets + 1
  /\ UNCHANGED <<at, found, sent, heard, era>>

Next ==
  \/ ArchiveRecord
  \/ \E r \in Probers :
       \/ LookUp(r) \/ Reserve(r) \/ NothingToAsk(r) \/ RequestToken(r)
       \/ RequestCandles(r) \/ StoreVerdict(r) \/ Dies(r)

Spec == Init /\ [][Next]_capabilityVars

-----------------------------------------------------------------------------
(* README.md:187-190: between two archived records at most one run sends   *)
(* requests, and at most two, however runs fail or die after reserving.    *)
ProbedOnce ==
  /\ \A p, q \in Probers : p # q /\ sent[p] > 0 /\ sent[q] > 0 => era[p] # era[q]
  /\ \A r \in Probers : sent[r] <= 2

(* A record that passes, which lets the Toss collector ask, was stored by  *)
(* a run that was answered: by candles every one of which was known when   *)
(* they were retrieved, and by a response with its rate limits.            *)
PassWasAnswered ==
  stored.status = Pass =>
    /\ heard.by = stored.by /\ sent[stored.by] = 2
    /\ heard.answer.end = "ok" /\ heard.answer.headers
    /\ ToSet(heard.answer.candles) = {"good"}
=============================================================================
