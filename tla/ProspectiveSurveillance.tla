------------------------ MODULE ProspectiveSurveillance ------------------------
(***************************************************************************)
(* The prospective surveillance that every refresh of the ticker mapping   *)
(* adds to its audit: one observation per market session, stored under the *)
(* session's date, of the symbols the two Nasdaq Trader files list, and of *)
(* those the refresh added to the mapping or took out of it.               *)
(*                                                                         *)
(* The daily workflow refreshes the mapping in both of its batches (22:13  *)
(* and 03:13 UTC), so a session date (get_expected_market_date_str) is     *)
(* refreshed twice: by both batches of a night in summer, by the second    *)
(* batch and the next evening's first in winter.  Halts are left to        *)
(* CorporateCoverage: here the halt source is complete or not.             *)
(***************************************************************************)
EXTENDS Integers, FiniteSets, Sequences

CONSTANTS
  Symbols,
  OtherListed,  \* the symbols of otherlisted.txt; nasdaqlisted.txt has the others
  LastSession,  \* bound: sessions 1..LastSession
  MaxSlips      \* bound: files that fail, audits not read, runs that end early

\* Assumed of the constants; asserted in MCDailyJob
SessionsAssumption == OtherListed \subseteq Symbols /\ LastSession \in Nat \ {0}

VARIABLES
  session,   \* the date of the current session
  listed,    \* the symbols the exchanges list
  mapped,    \* Drive: the symbols of Ticker_ID_Mapping_Final.json
  sessions,  \* Drive: the sessions of the audit's surveillance, by date
  pending,   \* the run's uploads still to do, and what it uploads
  slips,     \* count of slips so far
  gone       \* history: per date, the symbols that a complete refresh of that date took
             \* out of the mapping and that none of that date has found since

surveillanceVars == <<session, listed, mapped, sessions, pending, slips, gone>>

Files == {"nasdaqlisted", "otherlisted"}
Rows(file, symbols) == IF file = "otherlisted" THEN symbols \cap OtherListed ELSE symbols \ OtherListed

NoSession == [observed |-> FALSE, complete |-> FALSE, added |-> {}, removed |-> {}]
NoSessions == [d \in 1..LastSession |-> NoSession]
Resting == [uploads |-> <<>>, mapped |-> mapped, sessions |-> sessions]

Slip(n) == slips + n <= MaxSlips /\ slips' = slips + n

-----------------------------------------------------------------------------
Init ==
  /\ session = 1
  /\ listed = Symbols /\ mapped = Symbols
  /\ sessions = NoSessions /\ pending = Resting
  /\ slips = 0
  /\ gone = [d \in 1..LastSession |-> {}]

NextSession ==
  /\ session < LastSession /\ pending.uploads = <<>>
  /\ session' = session + 1
  /\ UNCHANGED <<listed, mapped, sessions, pending, slips, gone>>

\* A symbol is delisted or listed.
Relist(s) ==
  /\ listed' = (listed \ {s}) \cup ({s} \ listed)
  /\ UNCHANGED <<session, mapped, sessions, pending, slips, gone>>

\* The rows of the files that came.
Obtained(answered) == UNION {Rows(f, listed) : f \in answered}
\* Both files came with rows, and the halt feed is current.
ScopeComplete(answered, feed) == feed /\ answered = Files /\ \A f \in Files : Rows(f, listed) # {}

Observation(rows, complete) ==
  [observed |-> TRUE, complete |-> complete, added |-> rows \ mapped, removed |-> mapped \ rows]

\* Mutant: the mapping is uploaded before the audit
MappingFirst == <<"mapping", "audit">>
Uploads == <<"audit", "mapping">>

\* A refresh takes the earlier sessions from the stored audit, or starts anew when that
\* is not read, and replaces the one of its date.
Refresh ==
  /\ pending.uploads = <<>>
  /\ \E answered \in SUBSET Files, feed \in BOOLEAN, known \in {sessions, NoSessions} :
       LET rows == Obtained(answered)
           complete == ScopeComplete(answered, feed)
       IN  /\ rows # {}
           /\ Slip(Cardinality(Files \ answered) + (IF feed THEN 0 ELSE 1)
                     + (IF known = sessions THEN 0 ELSE 1))
           /\ pending' = [uploads |-> Uploads, mapped |-> rows,
                          sessions |-> [known EXCEPT ![session] = Observation(rows, complete)]]
  /\ UNCHANGED <<session, listed, mapped, sessions, gone>>

\* No file came with rows: an audit without coverage is uploaded, the mapping stays.
FailsOpen ==
  /\ pending.uploads = <<>>
  /\ \E answered \in SUBSET Files : Obtained(answered) = {} /\ Slip(Cardinality(Files \ answered))
  /\ sessions' = NoSessions
  /\ pending' = [Resting EXCEPT !.sessions = NoSessions]
  /\ gone' = [d \in 1..LastSession |-> {}]
  /\ UNCHANGED <<session, listed, mapped>>

\* Only a complete refresh finds a symbol missing.
Missing(before) == IF pending.sessions[session].complete THEN before \cup mapped ELSE before

Upload ==
  /\ pending.uploads # <<>>
  /\ IF Head(pending.uploads) = "audit"
     THEN /\ sessions' = pending.sessions
          /\ gone' = [gone EXCEPT ![session] = Missing(@) \ pending.mapped]
          /\ UNCHANGED mapped
     ELSE mapped' = pending.mapped /\ UNCHANGED <<sessions, gone>>
  /\ pending' = [pending EXCEPT !.uploads = Tail(@)]
  /\ UNCHANGED <<session, listed, slips>>

\* The run ends, or its next upload fails: what it did not upload is lost.
Dies ==
  /\ pending.uploads # <<>>
  /\ Slip(1)
  /\ pending' = Resting
  /\ UNCHANGED <<session, listed, mapped, sessions, gone>>

Next ==
  \/ NextSession \/ (\E s \in Symbols : Relist(s))
  \/ Refresh \/ FailsOpen \/ Upload \/ Dies

Spec == Init /\ [][Next]_surveillanceVars

-----------------------------------------------------------------------------
(* build_prospective_symbol_surveillance: what a dispatch says of a symbol in a    *)
(* session of the stored contract.                                                 *)

Identity(s, d) ==
  CASE s \in sessions[d].removed                              -> "REMOVED"
    [] s \in sessions[d].added \ sessions[d].removed          -> "NEW_OR_RESTORED"
    [] s \notin sessions[d].added \cup sessions[d].removed -> "CONTINUITY_OBSERVED"

SymbolObserved(s, d) == sessions[d].complete /\ Identity(s, d) # "REMOVED"

TypeOK ==
  /\ session \in 1..LastSession
  /\ listed \subseteq Symbols /\ mapped \subseteq Symbols
  /\ \A d \in 1..LastSession : sessions[d].added \cup sessions[d].removed \subseteq Symbols
  /\ slips \in 0..MaxSlips

(* A symbol leaves the stored mapping only when the stored surveillance already    *)
(* names it as removed in the current session, whichever of the files came, whether *)
(* earlier sessions were read, and wherever runs end: the two are separate uploads, *)
(* and a removal that is lost half way is found again.                             *)
MappingLossIsRecorded ==
  [][\A s \in mapped \ mapped' : Identity(s, session) = "REMOVED"]_surveillanceVars

(* README.md:173-175: a removed symbol remains unverified.  A symbol that a        *)
(* complete refresh took out of the mapping, and that no refresh of the same date   *)
(* has found since, never reads as observed in the session of its removal.         *)
RemovedStaysUnverified ==
  pending.uploads = <<>> =>
    \A d \in 1..LastSession : \A s \in gone[d] : ~SymbolObserved(s, d)
=============================================================================
