---------------------------- MODULE CorporateCoverage ----------------------------
(* The daily refresh of the ticker mapping and of the corporate-action evidence   *)
(* behind it (harvester.py, refresh_ticker_mapping_from_authoritative_sources),   *)
(* seen from one symbol.  Two listing files say which symbols are listed; three   *)
(* sources (Finnhub symbol changes, FMP delistings, the Nasdaq halt search with   *)
(* its current-halt feed) say what happened to them.  Any of them may fail, the   *)
(* audit is uploaded before the mapping, and the run may die between the two.     *)
(*                                                                                *)
(* What the vendors know is fixed in the initial state: `world' holds every event *)
(* of the symbol with its day, and a request on day d sees the events up to d.    *)
EXTENDS Integers, FiniteSets

CONSTANTS
  LastDay,      \* bound on the days explored
  Lookback,     \* days of the configured coverage window (five years)
  SearchSpan,   \* days the halt search goes back (one year)
  FeedAge,      \* days the halt feed may be old and still count as fresh
  MaxFaults,    \* bound on failed requests and late feeds in a behaviour
  Worlds        \* the histories of vendor events explored

ASSUME CoverageAssumption ==
  /\ LastDay \in Nat \ {0} /\ FeedAge \in Nat /\ MaxFaults \in Nat
  /\ SearchSpan \in Nat /\ Lookback \in Nat /\ SearchSpan < Lookback

Never == LastDay + 1

VARIABLES
  day,      \* the market day
  world,    \* [changes, delistings, halts, splits]: what the vendors know
  audit,    \* TICKER_MAPPING_REFRESH_AUDIT.json: its external coverage, or none
  mapping,  \* the symbol's row of Ticker_ID_Mapping_Final.json
  faults    \* failed requests, reads and uploads, and late feeds, so far

Kinds == {"change", "delist", "suspend"}
NoRows == [k \in Kinds |-> {}]
NoSession == [complete |-> FALSE, asOf |-> 0, suspended |-> FALSE]
FailedSource == [ok |-> FALSE, asOf |-> 0, from |-> 0, to |-> 0, at |-> 0]
Source(asOf, from) == [ok |-> TRUE, asOf |-> asOf, from |-> from, to |-> day, at |-> day]
NoCoverage ==
  [present |-> FALSE, continued |-> FALSE, sources |-> [k \in Kinds |-> FailedSource],
   rows |-> NoRows, session |-> NoSession]
NoProof == [status |-> "none", asOf |-> 0, from |-> 0, to |-> 0, at |-> 0]
NoEvidence == [k \in Kinds |-> NoProof]
NotMapped == [here |-> FALSE, at |-> 0, evidence |-> NoEvidence]

Verified == {"clear", "event"}

-----------------------------------------------------------------------------
(* What one fetch of the three sources returns. *)

Within(rows, from, to) == {r \in rows : from <= r.at /\ r.at <= to}

\* A halt as a response of day d shows it: the resumption is known once it happened.
HaltRow(h, d, current) ==
  [at |-> h.at, resumed |-> IF h.until <= d THEN h.until ELSE Never, current |-> current]

\* The current feed published on day p, and the halt search of the last year.
Feed(p) == {HaltRow(h, p, TRUE) : h \in {h \in world.halts : h.at <= p /\ p <= h.until}}
Search == {HaltRow(h, day, FALSE) : h \in Within(world.halts, day - SearchSpan, day)}

Active(row, asOf) == row.current /\ (row.resumed = Never \/ row.resumed > asOf)

InCoverage(rows, from, asOf) ==
  {r \in rows : (from <= r.at /\ r.at <= day) \/ Active(r, asOf)}

\* Rows keyed by their day; a later source replaces an earlier one.
Merge(old, new) == {r \in old : \A s \in new : s.at # r.at} \cup new

\* Mutant: the fetch replaces the stored rows by what the search returns.
NothingPreserved(rows) ==
  {}

\* A successful fetch keeps the rows the one-year search no longer reaches.
Preserved(rows) ==
  {[r EXCEPT !.current = FALSE] : r \in Within(rows, day - Lookback, day - SearchSpan - 1)}

HaltRows(previous, p) ==
  Merge(Merge(Preserved(previous), Search), InCoverage(Feed(p), day - SearchSpan, p))

\* What an answer takes from the bound: the failed requests and a feed not of today.
Cost(a) == Cardinality(Kinds \ a.ok) + (IF a.published < day THEN 1 ELSE 0)

\* An answer: which sources succeed, and the day the halt feed was published.
Answers ==
  {a \in [ok : SUBSET Kinds, published : (day - FeedAge)..day] :
     /\ faults + Cost(a) <= MaxFaults
     /\ "suspend" \notin a.ok => a.published = day}

\* Mutant: the halt evidence is dated by its retrieval.
DatedByRetrieval(k, a) ==
  IF k \in a.ok THEN Source(day, day - (IF k = "suspend" THEN SearchSpan ELSE Lookback))
  ELSE FailedSource

SourceOf(k, a) ==
  IF k \notin a.ok THEN FailedSource
  ELSE IF k = "suspend" THEN Source(a.published, day - SearchSpan)
  ELSE Source(day, day - Lookback)

\* The changes, asked for year by year: one failing year, and the earlier rows stay.
ChangeRows(ok, previous) == IF ok THEN Within(world.changes, day - Lookback, day) ELSE previous

\* The delistings, asked for page by page; what a broken-off reading saw is not used.
DelistRows(ok, previous) == Within(IF ok THEN world.delistings ELSE previous, day - Lookback, day)

RowsOf(k, a, previous) ==
  CASE k = "change" -> ChangeRows(k \in a.ok, previous[k])
    [] k = "delist" -> DelistRows(k \in a.ok, previous[k])
    [] OTHER -> InCoverage(IF k \in a.ok THEN HaltRows(previous[k], a.published)
                           ELSE previous[k], day - Lookback, day)

Fetched(a, previous) ==
  [previous EXCEPT !.present = TRUE,
                   !.sources = [k \in Kinds |-> SourceOf(k, a)],
                   !.rows = [k \in Kinds |-> RowsOf(k, a, previous.rows)]]

\* The delisting request is outside every handler: its exception loses all three.
Raised(previous) ==
  [previous EXCEPT !.present = TRUE, !.sources = [k \in Kinds |-> FailedSource]]

-----------------------------------------------------------------------------
(* The evidence written into the mapping row. *)

\* Mutant: a failed source keeps the earlier record as it is.
KeptAsItIs(proof) ==
  proof

\* A failed source keeps the earlier record and takes its verified status away.
Unverify(proof) == IF proof = NoProof THEN NoProof ELSE [proof EXCEPT !.status = "failed"]

\* A change into the symbol explains it; one away from a symbol still listed does not.
ChangeStatus(rows) ==
  IF \E r \in rows : r.role = "new" THEN "event" ELSE IF rows # {} THEN "conflict" ELSE "clear"

DelistStatus(rows) == IF rows # {} THEN "conflict" ELSE "clear"

HaltStatus(rows, asOf) == IF \E r \in rows : Active(r, asOf) THEN "event" ELSE "clear"

Judged(k, source, rows) ==
  CASE k = "change" -> ChangeStatus(rows)
    [] k = "delist" -> DelistStatus(rows)
    [] OTHER -> HaltStatus(rows, source.asOf)

Proof(k, proof, source, rows) ==
  IF source.ok
  THEN [status |-> Judged(k, source, rows), asOf |-> source.asOf,
        from |-> source.from, to |-> source.to, at |-> source.at]
  ELSE Unverify(proof)

Applied(evidence, coverage) ==
  [k \in Kinds |-> Proof(k, evidence[k], coverage.sources[k], coverage.rows[k])]

\* The prospective observation this refresh adds under the date of the session;
\* `asOf' is the day its halt feed shows.
SessionComplete(listingComplete, coverage) ==
  listingComplete /\ coverage.sources["suspend"].ok

Session(listingComplete, coverage) ==
  LET asOf == coverage.sources["suspend"].asOf
  IN  [complete |-> SessionComplete(listingComplete, coverage), asOf |-> asOf,
       suspended |-> \E r \in coverage.rows["suspend"] : Active(r, asOf)]

-----------------------------------------------------------------------------
(* The refresh, and the two uploads it ends with. *)

Init ==
  /\ day = 1
  /\ world \in Worlds
  /\ audit = NoCoverage
  /\ mapping = NotMapped
  /\ faults = 0

NextDay ==
  /\ day < LastDay
  /\ day' = day + 1
  /\ UNCHANGED <<world, audit, mapping, faults>>

\* What the two listing files say: whether the symbol is in one that came, and whether
\* both came.  A file that does not come takes its symbols out of the mapping.
Listings == [listed : BOOLEAN, complete : BOOLEAN]

\* What else may go wrong in a refresh: the previous audit is not read and the refresh
\* starts from no coverage; the run ends between the uploads of the audit and the mapping.
Mishaps == SUBSET {"audit", "mapping"}

Previous(mishaps) == IF "audit" \in mishaps THEN NoCoverage ELSE audit

\* The mapping is replaced by the rows obtained, `listed' telling whether the symbol
\* is in them; the evidence of its earlier row is carried over and judged again.
Replaced(coverage, listed) ==
  IF listed
  THEN [here |-> TRUE, at |-> day, evidence |-> Applied(mapping.evidence, coverage)]
  ELSE NotMapped

Finish(coverage, mishaps, failed, listing) ==
  LET lost == Cardinality(mishaps) + failed + (IF listing.complete THEN 0 ELSE 1)
      publish == [coverage EXCEPT !.session = Session(listing.complete, coverage),
                                  !.continued = "audit" \notin mishaps /\ audit.present]
  IN  /\ faults + lost <= MaxFaults
      /\ faults' = faults + lost
      /\ audit' = publish
      /\ mapping' = IF "mapping" \in mishaps THEN mapping ELSE Replaced(coverage, listing.listed)
      /\ UNCHANGED <<day, world>>

Refresh ==
  \E mishaps \in Mishaps, a \in Answers, listing \in Listings :
    Finish(Fetched(a, Previous(mishaps)), mishaps, Cost(a), listing)

RefreshRaises ==
  \E mishaps \in Mishaps, listing \in Listings :
    Finish(Raised(Previous(mishaps)), mishaps, 1, listing)

\* Neither listing file came: an audit without coverage replaces the stored one.
RefreshFailsOpen ==
  /\ faults < MaxFaults
  /\ audit' = NoCoverage
  /\ faults' = faults + 1
  /\ UNCHANGED <<day, world, mapping>>

=============================================================================
