--------------------------- MODULE SymbolLifecycle ---------------------------
(***************************************************************************)
(* The lifecycle of a symbol in HARVESTER_SYMBOL_STATE.json: what one      *)
(* completed collection makes of its entry, what the retire policy makes   *)
(* of the entries a run did not touch, and which entries are skipped.      *)
(* Days stand for the timestamps of the entries, 0 is before all of them.  *)
(***************************************************************************)
EXTENDS Integers

CONSTANTS
  FullMin,       \* HARVESTER_HISTORY_FULL_MIN_PERIODS
  StaleHistory,  \* HARVESTER_STALE_HISTORY_STREAK
  StaleQuote,    \* HARVESTER_STALE_QUOTE_STREAK
  RetireDays     \* HARVESTER_RETIRE_DAYS

\* Assumed of the constants; asserted in MCDailyJob
PolicyAssumption == {FullMin, StaleHistory, StaleQuote, RetireDays} \subseteq Nat \ {0}

LifecycleStates ==
  {"ONBOARDING", "PROVISIONAL", "ACTIVE", "RECOVERED", "STALE", "EXCLUDED", "RETIRED"}

Entries == [state : LifecycleStates, missingHistory : Nat, missingQuote : Nat, lastSeen : Nat]

\* A symbol without an entry: its state reads as UNKNOWN and its streaks as zero.
NoEntry == [state |-> "UNKNOWN", missingHistory |-> 0, missingQuote |-> 0, lastSeen |-> 0]

HistoryTier(periods) ==
  CASE periods = 0                      -> "ONBOARDING"
    [] periods > 0 /\ periods < FullMin -> "PROVISIONAL"
    [] periods >= FullMin               -> "FULL"

Derived(prev, eligible, tier, missingHistory, missingQuote) ==
  LET stale == missingHistory >= StaleHistory \/ missingQuote >= StaleQuote
      ready == tier = "FULL"
      waiting == prev \in {"ONBOARDING", "PROVISIONAL", "STALE", "EXCLUDED", "RETIRED"}
  IN  CASE ~eligible                                   -> "EXCLUDED"
        [] eligible /\ stale                           -> "STALE"
        [] eligible /\ ~stale /\ ~ready                -> tier
        [] eligible /\ ~stale /\ ready /\ waiting      -> "RECOVERED"
        [] eligible /\ ~stale /\ ready /\ ~waiting     -> "ACTIVE"

Streak(before, missing) == IF missing THEN before + 1 ELSE 0

Updated(entry, eligible, periods, quoted, now) ==
  LET mh == Streak(entry.missingHistory, periods = 0)
      mq == Streak(entry.missingQuote, ~quoted)
  IN  [state |-> Derived(entry.state, eligible, HistoryTier(periods), mh, mq),
       missingHistory |-> mh, missingQuote |-> mq, lastSeen |-> now]

\* The entries of a run's end: those it did not touch for RetireDays are retired.
AfterRetirement(entries, touched, now) ==
  [s \in DOMAIN entries |->
     IF /\ entries[s] # NoEntry
        /\ s \notin touched
        /\ entries[s].lastSeen <= now - RetireDays
     THEN [entries[s] EXCEPT !.state = "RETIRED"] ELSE entries[s]]

SkipForCollection(entry, refreshed) ==
  entry.state \in {"RETIRED", "EXCLUDED"} /\ ~refreshed
=============================================================================
