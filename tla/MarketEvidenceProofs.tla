------------------------ MODULE MarketEvidenceProofs ------------------------
(***************************************************************************)
(* Theorems of the corporate-action evidence and the bars stored under it, *)
(* for every history of the symbol whose splits the vendor publishes at    *)
(* most a day late, and every coverage window, span, feed age and period.  *)
(***************************************************************************)
EXTENDS MCMarketEvidence, Sequences, WellFoundedInduction, TLAPS

\* A set of integers with a lower bound has a smallest member.
LEMMA Smallest ==
  ASSUME NEW a \in Int, NEW S, \A x \in S : x \in Int /\ a <= x, S # {}
  PROVE  \E x \in S : \A y \in S : x <= y
<1> DEFINE Below == OpToRel(<, Nat)
           T     == {n \in Nat : a + n \in S}
<1>1. IsWellFoundedOn(Below, Nat)
  BY NatLessThanWellFounded
<1>2. \A m, n \in Nat : <<m, n>> \in Below <=> m < n
  BY DEF OpToRel
<1> HIDE DEF Below
<1>3. T # {} /\ T \subseteq Nat
  <2>1. PICK x \in S : TRUE
    OBVIOUS
  <2>2. x - a \in T
    BY <2>1
  <2> QED
    BY <2>2
<1>4. PICK n \in T : \A m \in T : <<m, n>> \notin Below
  <2> HIDE DEF T
  <2> QED
    BY <1>1, <1>3, WFMin
<1>5. a + n \in S /\ n \in Nat
  BY <1>4
<1>6. ASSUME NEW y \in S PROVE a + n <= y
  <2>1. y - a \in T /\ y - a \in Nat /\ y \in Int
    OBVIOUS
  <2>2. ~(y - a < n)
    BY <1>2, <1>4, <1>5, <2>1
  <2> QED
    BY <1>5, <2>1, <2>2
<1> QED
  BY <1>5, <1>6

\* And one with an upper bound has a largest.
LEMMA Largest ==
  ASSUME NEW b \in Int, NEW S, \A x \in S : x \in Int /\ x <= b, S # {}
  PROVE  \E x \in S : \A y \in S : y <= x
<1> DEFINE T == {-x : x \in S}
<1>1. \A x \in T : x \in Int /\ -b <= x
  OBVIOUS
<1>2. T # {} /\ -b \in Int
  OBVIOUS
<1>3. PICK z \in T : \A y \in T : z <= y
  <2> HIDE DEF T
  <2> QED
    BY <1>1, <1>2, Smallest
<1>4. PICK x \in S : z = -x
  OBVIOUS
<1>5. ASSUME NEW y \in S PROVE y <= x
  <2>1. -y \in T /\ y \in Int /\ x \in Int
    OBVIOUS
  <2> QED
    BY <1>3, <1>4, <2>1
<1> QED
  BY <1>5

-----------------------------------------------------------------------------
(* The evidence: types, and what an audit must be for its evidence to be   *)
(* true.                                                                   *)

Proofs    == [status : {"none", "failed", "conflict"} \cup Verified,
              asOf : Int, from : Int, to : Int, at : Int]
Sources   == [ok : BOOLEAN, asOf : Int, from : Int, to : Int, at : Int]
HaltShown == [at : Int, resumed : Int, current : BOOLEAN]
Row       == (UNION {w.changes \cup w.delistings : w \in Worlds}) \cup HaltShown
Coverages == [present : BOOLEAN, continued : BOOLEAN, sources : [Kinds -> Sources],
              rows : [Kinds -> SUBSET Row],
              session : [complete : BOOLEAN, asOf : Int, suspended : BOOLEAN]]

Types ==
  /\ day \in Days /\ world \in Worlds /\ audit \in Coverages
  /\ mapping \in [here : BOOLEAN, at : Int, evidence : [Kinds -> Proofs]]

\* The rows are of events of the symbol that had happened.
Real(c) ==
  /\ \A r \in c.rows["change"] : r \in world.changes /\ r.at <= day
  /\ \A r \in c.rows["delist"] : r \in world.delistings /\ r.at <= day
  /\ \A r \in c.rows["suspend"] :
       r \in HaltShown /\ r.at <= day /\ \E h \in world.halts : h.at = r.at

\* What a source that answered would have written into a mapping row is true.
Vouched(c) ==
  \A k \in Kinds : c.sources[k].ok =>
    /\ c.sources[k].asOf <= day
    /\ Agrees(k, Proof(k, NoProof, c.sources[k], c.rows[k]))

Sound(evidence) ==
  \A k \in Kinds : Agrees(k, evidence[k]) /\ evidence[k].asOf <= day

Surveyed(session) == session.complete => (session.suspended <=> HaltedAsOf(session.asOf))

EvidenceInv ==
  /\ Types
  /\ Real(audit) /\ Vouched(audit) /\ Surveyed(audit.session)
  /\ Sound(mapping.evidence)
  /\ FailedRefreshUnverifies

\* Integers that the assumptions are about
LEMMA Bounds ==
  /\ LastDay \in Int /\ Never \in Int /\ Never = LastDay + 1 /\ Days = 1..LastDay
  /\ Lookback \in Nat /\ SearchSpan \in Nat /\ SearchSpan < Lookback /\ FeedAge \in Nat
BY CoverageAssumption DEF Never, Days

LEMMA History ==
  ASSUME world \in Worlds
  PROVE  /\ \A r \in world.changes \cup world.delistings : r.at \in Int /\ r.at \in Days
         /\ \A h \in world.halts : /\ h.at \in Int /\ h.until \in Int
                                   /\ h.at \in Days /\ h.until <= Never
BY WorldsAssumption, Bounds

\* The sources that an answer stands for
LEMMA SourceForm ==
  ASSUME Types, NEW a \in Answers, NEW k \in Kinds
  PROVE  /\ SourceOf(k, a) \in Sources
         /\ SourceOf(k, a).ok <=> k \in a.ok
         /\ k \in a.ok => /\ SourceOf(k, a).at = day
                          /\ SourceOf(k, a).asOf = IF k = "suspend" THEN a.published ELSE day
                          /\ k # "suspend" => SourceOf(k, a).from = day - Lookback
         /\ a.published \in Int /\ a.published <= day
<1>1. day \in Int /\ a.published \in Int /\ a.published <= day
  BY Bounds DEF Types, Answers
<1>2. CASE k \notin a.ok
  <2>1. SourceOf(k, a) = FailedSource
    BY <1>2 DEF SourceOf
  <2> QED
    BY <1>1, <1>2, <2>1 DEF FailedSource, Sources
<1>3. CASE k \in a.ok /\ k = "suspend"
  <2>1. SourceOf(k, a) = Source(a.published, day - SearchSpan)
    BY <1>3 DEF SourceOf
  <2>2. Source(a.published, day - SearchSpan) \in Sources
    BY <1>1, Bounds DEF Source, Sources
  <2>3. SourceOf(k, a).ok = TRUE /\ SourceOf(k, a).at = day /\ SourceOf(k, a).asOf = a.published
    BY <2>1 DEF Source
  <2> QED
    BY <1>1, <1>3, <2>1, <2>2, <2>3
<1>4. CASE k \in a.ok /\ k # "suspend"
  <2>1. SourceOf(k, a) = Source(day, day - Lookback)
    BY <1>4 DEF SourceOf
  <2> QED
    BY <1>1, <1>4, <2>1, Bounds DEF Source, Sources
<1> QED
  BY <1>2, <1>3, <1>4

\* Which halts the rows of a successful fetch show
LEMMA HaltsShown ==
  ASSUME Types, NEW c \in Coverages, Real(c), NEW a \in Answers
  PROVE  LET rows == InCoverage(HaltRows(c.rows["suspend"], a.published), day - Lookback, day)
         IN  /\ \A r \in rows :
                  r \in HaltShown /\ r.at <= day /\ \E h \in world.halts : h.at = r.at
             /\ (\E r \in rows : Active(r, a.published)) <=> HaltedAsOf(a.published)
             /\ {r.at : r \in {s \in c.rows["suspend"] : day - Lookback <= s.at}}
                  \subseteq {r.at : r \in rows}
<1> DEFINE p    == a.published
           prev == c.rows["suspend"]
           rows == InCoverage(HaltRows(prev, p), day - Lookback, day)
<1>1. /\ day \in Int /\ p \in Int /\ p <= day /\ day < Never /\ Never \in Int
      /\ Lookback \in Nat /\ SearchSpan \in Nat /\ SearchSpan < Lookback
  BY Bounds, SourceForm DEF Types, Kinds
<1>2. \A h \in world.halts : h.at \in Int /\ h.until \in Int /\ h.until <= Never
  BY History DEF Types
<1> HIDE DEF p, prev
<1>3. \A r \in prev : r \in HaltShown /\ r.at <= day /\ \E h \in world.halts : h.at = r.at
  BY DEF Real, prev
<1>4. \A r \in Preserved(prev) :
        /\ r \in HaltShown /\ r.at <= day /\ ~r.current /\ \E h \in world.halts : h.at = r.at
  <2> SUFFICES ASSUME NEW s \in prev, day - Lookback <= s.at, s.at <= day - SearchSpan - 1
               PROVE  LET r == [s EXCEPT !.current = FALSE]
                      IN  /\ r \in HaltShown /\ r.at <= day /\ ~r.current
                          /\ \E h \in world.halts : h.at = r.at
    BY DEF Preserved, Within
  <2> QED
    BY <1>1, <1>3 DEF HaltShown
<1>5. \A r \in Search :
        /\ r \in HaltShown /\ r.at <= day /\ ~r.current /\ \E h \in world.halts : h.at = r.at
  <2> SUFFICES ASSUME NEW h \in world.halts, h.at <= day
               PROVE  LET r == HaltRow(h, day, FALSE)
                      IN  r \in HaltShown /\ r.at <= day /\ ~r.current /\ r.at = h.at
    BY DEF Search, Within
  <2> QED
    BY <1>1, <1>2 DEF HaltRow, HaltShown
<1>6. \A r \in Feed(p) :
        /\ r \in HaltShown /\ r.at <= day /\ \E h \in world.halts : h.at = r.at
        /\ Active(r, p) => r.resumed = Never /\ HaltedAsOf(p)
  <2> SUFFICES ASSUME NEW h \in world.halts, h.at <= p, p <= h.until
               PROVE  LET r == HaltRow(h, p, TRUE)
                      IN  /\ r \in HaltShown /\ r.at <= day /\ r.at = h.at
                          /\ Active(r, p) => r.resumed = Never /\ HaltedAsOf(p)
    BY DEF Feed
  <2> QED
    BY <1>1, <1>2 DEF HaltRow, HaltShown, Active, HaltedAsOf
<1>7. \A r \in InCoverage(Feed(p), day - SearchSpan, p) : r \in Feed(p)
  BY DEF InCoverage
<1>8. \A r \in HaltRows(prev, p) :
        /\ r \in HaltShown /\ r.at <= day /\ \E h \in world.halts : h.at = r.at
        /\ Active(r, p) => HaltedAsOf(p)
  <2>1. \A r \in HaltRows(prev, p) : r \in Preserved(prev) \/ r \in Search \/ r \in Feed(p)
    BY <1>7 DEF HaltRows, Merge
  <2> QED
    BY <1>4, <1>5, <1>6, <2>1 DEF Active
<1>9. HaltedAsOf(p) => \E r \in rows : Active(r, p)
  <2> SUFFICES ASSUME NEW h \in world.halts, h.at <= p, p < h.until
               PROVE  \E r \in rows : Active(r, p)
    BY DEF HaltedAsOf
  <2>1. HaltRow(h, p, TRUE) \in Feed(p)
    <3>1. h \in {i \in world.halts : i.at <= p /\ p <= i.until}
      BY <1>1, <1>2
    <3> QED
      BY <3>1, Zenon DEF Feed
  <2>2. Active(HaltRow(h, p, TRUE), p) /\ Active(HaltRow(h, p, TRUE), day)
    BY <1>1, <1>2 DEF HaltRow, Active
  <2>3. HaltRow(h, p, TRUE) \in HaltRows(prev, p)
    BY <2>1, <2>2 DEF HaltRows, Merge, InCoverage
  <2> QED
    BY <2>2, <2>3 DEF InCoverage
<1>10. \A r \in rows : r \in HaltRows(prev, p)
  BY DEF InCoverage
<1>11. ASSUME NEW s \in prev, day - Lookback <= s.at PROVE \E r \in rows : r.at = s.at
  <2>1. s.at \in Int /\ s.at <= day
    BY <1>3 DEF HaltShown
  <2>2. \E r \in Preserved(prev) \cup Search : r.at = s.at
    <3>1. CASE s.at <= day - SearchSpan - 1
      <4>1. [s EXCEPT !.current = FALSE] \in Preserved(prev)
        BY <1>11, <3>1 DEF Preserved, Within
      <4>2. [s EXCEPT !.current = FALSE].at = s.at
        BY <1>3 DEF HaltShown
      <4> QED
        BY <4>1, <4>2
    <3>2. CASE day - SearchSpan <= s.at
      <4>1. PICK h \in world.halts : h.at = s.at
        BY <1>3
      <4>2. HaltRow(h, day, FALSE) \in Search
        BY <2>1, <3>2, <4>1 DEF Search, Within
      <4> QED
        BY <4>1, <4>2 DEF HaltRow
    <3> QED
      BY <1>1, <2>1, <3>1, <3>2
  <2>3. \E r \in Merge(Preserved(prev), Search) : r.at = s.at
    BY <2>2 DEF Merge
  <2>4. PICK r \in HaltRows(prev, p) : r.at = s.at
    BY <2>3 DEF HaltRows, Merge
  <2>5. r \in rows
    BY <1>1, <1>11, <2>1, <2>4 DEF InCoverage
  <2> QED
    BY <2>4, <2>5
<1>12. rows = InCoverage(HaltRows(c.rows["suspend"], a.published), day - Lookback, day)
  BY DEF p, prev
<1> HIDE DEF rows
<1> QED
  BY <1>8, <1>9, <1>10, <1>11, <1>12 DEF p, prev

\* The days of the rows that a later audit must keep
Due(c, k) == {d \in RowDays(c, k) : day - Lookback <= d}

LEMMA RowForm ==
  ASSUME Types
  PROVE  /\ world.changes \subseteq Row /\ world.delistings \subseteq Row /\ HaltShown \subseteq Row
         /\ \A r \in world.changes \cup world.delistings : r.at \in Int
BY History DEF Types, Row

LEMMA Blank ==
  ASSUME Types
  PROVE  /\ NoCoverage \in Coverages /\ Real(NoCoverage) /\ Vouched(NoCoverage)
         /\ Surveyed(NoCoverage.session) /\ ~NoCoverage.continued
<1>1. FailedSource \in Sources /\ ~FailedSource.ok
  BY DEF FailedSource, Sources
<1>2. /\ NoCoverage.sources = [k \in Kinds |-> FailedSource] /\ NoCoverage.rows = [k \in Kinds |-> {}]
      /\ NoCoverage.session = [complete |-> FALSE, asOf |-> 0, suspended |-> FALSE]
      /\ ~NoCoverage.continued
  BY DEF NoCoverage, NoRows, NoSession
<1>3. NoCoverage \in Coverages
  BY <1>1 DEF NoCoverage, NoRows, NoSession, Coverages
<1>4. \A k \in Kinds : ~NoCoverage.sources[k].ok /\ NoCoverage.rows[k] = {}
  BY <1>1, <1>2
<1> QED
  BY <1>2, <1>3, <1>4 DEF Real, Vouched, Surveyed, Kinds

LEMMA FetchedForm ==
  ASSUME Types, NEW c \in Coverages, Real(c), NEW a \in Answers
  PROVE  /\ Fetched(a, c) \in Coverages
         /\ \A k \in Kinds : /\ Fetched(a, c).sources[k] = SourceOf(k, a)
                             /\ Fetched(a, c).rows[k] = RowsOf(k, a, c.rows)
<1>1. \A k \in Kinds : SourceOf(k, a) \in Sources
  BY SourceForm
<1>2. \A k \in Kinds : RowsOf(k, a, c.rows) \subseteq Row
  <2>1. RowsOf("change", a, c.rows) \subseteq Row
    BY RowForm DEF RowsOf, ChangeRows, Within, Real, Kinds
  <2>2. RowsOf("delist", a, c.rows) \subseteq Row
    BY RowForm DEF RowsOf, DelistRows, Within, Real, Kinds
  <2>3. RowsOf("suspend", a, c.rows) \subseteq Row
    <3>1. InCoverage(HaltRows(c.rows["suspend"], a.published), day - Lookback, day) \subseteq Row
      BY HaltsShown, RowForm
    <3>2. InCoverage(c.rows["suspend"], day - Lookback, day) \subseteq Row
      BY RowForm DEF InCoverage, Real
    <3> QED
      BY <3>1, <3>2 DEF RowsOf
  <2> QED
    BY <2>1, <2>2, <2>3 DEF Kinds
<1>3. [k \in Kinds |-> SourceOf(k, a)] \in [Kinds -> Sources]
  BY <1>1
<1>4. [k \in Kinds |-> RowsOf(k, a, c.rows)] \in [Kinds -> SUBSET Row]
  BY <1>2
<1> DEFINE sources == [k \in Kinds |-> SourceOf(k, a)]
           rows    == [k \in Kinds |-> RowsOf(k, a, c.rows)]
<1>5. /\ \A k \in Kinds : sources[k] = SourceOf(k, a) /\ rows[k] = RowsOf(k, a, c.rows)
      /\ Fetched(a, c) = [c EXCEPT !.present = TRUE, !.sources = sources, !.rows = rows]
  BY DEF Fetched
<1> HIDE DEF sources, rows
<1>6. Fetched(a, c) \in Coverages /\ Fetched(a, c).sources = sources /\ Fetched(a, c).rows = rows
  BY <1>3, <1>4, <1>5 DEF Coverages, sources, rows
<1> QED
  BY <1>5, <1>6

\* What was fetched is true, keeps the events still in the window, and is as the
\* surveillance reads it.
LEMMA FetchedIsTrue ==
  ASSUME Types, NEW c \in Coverages, Real(c), NEW a \in Answers
  PROVE  /\ Real(Fetched(a, c)) /\ Vouched(Fetched(a, c))
         /\ \A k \in Kinds : Due(c, k) \subseteq RowDays(Fetched(a, c), k)
         /\ \A whole : Surveyed(Session(whole, Fetched(a, c)))
<1> DEFINE f == Fetched(a, c)
<1>1. /\ f \in Coverages
      /\ \A k \in Kinds : f.sources[k] = SourceOf(k, a) /\ f.rows[k] = RowsOf(k, a, c.rows)
  BY FetchedForm
<1> HIDE DEF f
<1>2. day \in Int /\ Lookback \in Nat
  BY Bounds DEF Types
<1>3. f.rows["change"] = ChangeRows("change" \in a.ok, c.rows["change"])
  BY <1>1 DEF RowsOf, Kinds
<1>4. f.rows["delist"] = DelistRows("delist" \in a.ok, c.rows["delist"])
  BY <1>1 DEF RowsOf, Kinds
<1>5. f.rows["suspend"] =
        InCoverage(IF "suspend" \in a.ok THEN HaltRows(c.rows["suspend"], a.published)
                   ELSE c.rows["suspend"], day - Lookback, day)
  BY <1>1 DEF RowsOf, Kinds
<1>6. Real(f)
  <2>1. \A r \in f.rows["change"] : r \in world.changes /\ r.at <= day
    BY <1>3 DEF Real, ChangeRows, Within
  <2>2. \A r \in f.rows["delist"] : r \in world.delistings /\ r.at <= day
    BY <1>4 DEF Real, DelistRows, Within
  <2>3. \A r \in f.rows["suspend"] :
          r \in HaltShown /\ r.at <= day /\ \E h \in world.halts : h.at = r.at
    <3>1. CASE "suspend" \in a.ok
      BY <1>5, <3>1, HaltsShown
    <3>2. CASE "suspend" \notin a.ok
      BY <1>5, <3>2 DEF InCoverage, Real
    <3> QED
      BY <3>1, <3>2
  <2> QED
    BY <2>1, <2>2, <2>3 DEF Real
<1>7. ASSUME NEW k \in Kinds, f.sources[k].ok
      PROVE  f.sources[k].asOf <= day /\ Agrees(k, Proof(k, NoProof, f.sources[k], f.rows[k]))
  <2>1. /\ k \in a.ok /\ f.sources[k].asOf = IF k = "suspend" THEN a.published ELSE day
        /\ k # "suspend" => f.sources[k].from = day - Lookback
        /\ a.published \in Int /\ a.published <= day
    BY <1>1, <1>7, SourceForm
  <2>2. Proof(k, NoProof, f.sources[k], f.rows[k]).status = Judged(k, f.sources[k], f.rows[k])
    BY <1>7 DEF Proof
  <2>3. /\ Proof(k, NoProof, f.sources[k], f.rows[k]).asOf = f.sources[k].asOf
        /\ Proof(k, NoProof, f.sources[k], f.rows[k]).from = f.sources[k].from
    BY <1>7 DEF Proof
  <2>4. CASE k = "change"
    <3>1. f.rows[k] = Happened(world.changes, Proof(k, NoProof, f.sources[k], f.rows[k]))
      BY <1>3, <2>1, <2>3, <2>4 DEF ChangeRows, Happened
    <3> QED
      BY <2>1, <2>2, <2>4, <3>1, <1>2 DEF Agrees, Judged, ChangeStatus
  <2>5. CASE k = "delist"
    <3>1. f.rows[k] = Happened(world.delistings, Proof(k, NoProof, f.sources[k], f.rows[k]))
      BY <1>4, <2>1, <2>3, <2>5 DEF DelistRows, Happened
    <3> QED
      BY <2>1, <2>2, <2>5, <3>1, <1>2 DEF Agrees, Judged, DelistStatus
  <2>6. CASE k = "suspend"
    <3>1. (\E r \in f.rows[k] : Active(r, f.sources[k].asOf)) <=> HaltedAsOf(f.sources[k].asOf)
      BY <1>5, <2>1, <2>6, HaltsShown
    <3> QED
      BY <2>1, <2>2, <2>3, <2>6, <3>1 DEF Agrees, Judged, HaltStatus
  <2> QED
    BY <2>4, <2>5, <2>6 DEF Kinds
<1>8. ASSUME NEW k \in Kinds PROVE Due(c, k) \subseteq RowDays(f, k)
  <2> SUFFICES ASSUME NEW r \in c.rows[k], day - Lookback <= r.at
               PROVE  \E s \in f.rows[k] : s.at = r.at
    BY DEF Due, RowDays
  <2>1. CASE k = "change"
    BY <1>3, <2>1 DEF ChangeRows, Within, Real
  <2>2. CASE k = "delist"
    BY <1>4, <2>2 DEF DelistRows, Within, Real
  <2>3. CASE k = "suspend" /\ k \in a.ok
    BY <1>5, <2>3, HaltsShown
  <2>4. CASE k = "suspend" /\ k \notin a.ok
    BY <1>5, <2>4 DEF InCoverage, Real
  <2> QED
    BY <2>1, <2>2, <2>3, <2>4 DEF Kinds
<1>9. ASSUME NEW whole PROVE Surveyed(Session(whole, f))
  <2>1. f.sources["suspend"].ok =>
          ((\E r \in f.rows["suspend"] : Active(r, f.sources["suspend"].asOf))
             <=> HaltedAsOf(f.sources["suspend"].asOf))
    BY <1>1, <1>5, SourceForm, HaltsShown DEF Kinds
  <2> QED
    BY <2>1 DEF Surveyed, Session, SessionComplete
<1> QED
  BY <1>6, <1>7, <1>8, <1>9 DEF f, Vouched

LEMMA RaisedForm ==
  ASSUME NEW c \in Coverages
  PROVE  /\ Raised(c) \in Coverages /\ Raised(c).rows = c.rows
         /\ \A k \in Kinds : ~Raised(c).sources[k].ok
<1>1. FailedSource \in Sources /\ ~FailedSource.ok
  BY DEF FailedSource, Sources
<1> DEFINE sources == [k \in Kinds |-> FailedSource]
<1>2. sources \in [Kinds -> Sources] /\ \A k \in Kinds : ~sources[k].ok
  BY <1>1
<1>3. Raised(c) = [c EXCEPT !.present = TRUE, !.sources = sources]
  BY DEF Raised
<1> HIDE DEF sources
<1> QED
  BY <1>2, <1>3 DEF Coverages

LEMMA RaisedIsTrue ==
  ASSUME Types, NEW c \in Coverages, Real(c)
  PROVE  /\ Real(Raised(c)) /\ Vouched(Raised(c))
         /\ \A k \in Kinds : Due(c, k) \subseteq RowDays(Raised(c), k)
         /\ \A whole : Surveyed(Session(whole, Raised(c)))
<1> DEFINE f == Raised(c)
<1>1. f.rows = c.rows /\ \A k \in Kinds : ~f.sources[k].ok
  BY RaisedForm
<1> HIDE DEF f
<1>2. Real(f)
  BY <1>1 DEF Real
<1>3. Vouched(f)
  BY <1>1 DEF Vouched
<1>4. \A k \in Kinds : Due(c, k) \subseteq RowDays(f, k)
  BY <1>1 DEF Due, RowDays
<1>5. ASSUME NEW whole PROVE Surveyed(Session(whole, f))
  BY <1>1 DEF Surveyed, Session, SessionComplete, Kinds
<1> QED
  BY <1>2, <1>3, <1>4, <1>5 DEF f

\* Judged again under a coverage, evidence stays true; what the coverage does not prove
\* is not verified, what it proves is of the day the coverage was fetched.
LEMMA AppliedIsTrue ==
  ASSUME Types, NEW c \in Coverages, Vouched(c),
         NEW evidence \in [Kinds -> Proofs], Sound(evidence)
  PROVE  /\ Applied(evidence, c) \in [Kinds -> Proofs] /\ Sound(Applied(evidence, c))
         /\ \A k \in Kinds : Applied(evidence, c)[k].status \in Verified =>
              c.sources[k].ok /\ Applied(evidence, c)[k].at = c.sources[k].at
<1> DEFINE new(k) == Proof(k, evidence[k], c.sources[k], c.rows[k])
<1>1. day \in Int /\ \A k \in Kinds : evidence[k] \in Proofs /\ c.sources[k] \in Sources
  BY Bounds DEF Types, Coverages
<1>2. ASSUME NEW k \in Kinds
      PROVE  /\ new(k) \in Proofs /\ Agrees(k, new(k)) /\ new(k).asOf <= day
             /\ new(k).status \in Verified => c.sources[k].ok /\ new(k).at = c.sources[k].at
  <2>1. CASE c.sources[k].ok
    <3>1. new(k) = [status |-> Judged(k, c.sources[k], c.rows[k]), asOf |-> c.sources[k].asOf,
                    from |-> c.sources[k].from, to |-> c.sources[k].to, at |-> c.sources[k].at]
      BY <2>1 DEF Proof
    <3>2. Judged(k, c.sources[k], c.rows[k]) \in {"conflict"} \cup Verified
      BY DEF Judged, ChangeStatus, DelistStatus, HaltStatus, Verified, Kinds
    <3>3. new(k) = Proof(k, NoProof, c.sources[k], c.rows[k])
      BY <2>1 DEF Proof
    <3>4. Agrees(k, new(k)) /\ c.sources[k].asOf <= day
      <4> HIDE DEF new
      <4> QED
        BY <2>1, <3>3 DEF Vouched
    <3>5. new(k) \in Proofs
      BY <1>1, <3>1, <3>2 DEF Proofs, Sources
    <3>6. new(k).asOf = c.sources[k].asOf /\ new(k).at = c.sources[k].at
      BY <3>1
    <3> HIDE DEF new
    <3> QED
      BY <2>1, <3>4, <3>5, <3>6
  <2>2. CASE ~c.sources[k].ok
    <3>1. new(k) = Unverify(evidence[k])
      BY <2>2 DEF Proof
    <3>2. /\ Unverify(evidence[k]) \in Proofs /\ Unverify(evidence[k]).status \in {"none", "failed"}
          /\ Unverify(evidence[k]).asOf <= day
      BY <1>1 DEF Unverify, NoProof, Proofs, Sound
    <3>3. Agrees(k, Unverify(evidence[k]))
      BY <3>2 DEF Agrees
    <3> HIDE DEF new
    <3> QED
      BY <3>1, <3>2, <3>3 DEF Verified
  <2> QED
    BY <2>1, <2>2
<1>3. Applied(evidence, c) = [k \in Kinds |-> new(k)]
  BY DEF Applied
<1> HIDE DEF new
<1> QED
  BY <1>2, <1>3 DEF Sound

-----------------------------------------------------------------------------
(* The evidence: what the steps do to it.                                  *)

\* A coverage as a refresh or a dispatch obtains it
Obtained(c) ==
  /\ c \in Coverages /\ Real(c) /\ Vouched(c)
  /\ \A whole : Surveyed(Session(whole, c))
  /\ \A k \in Kinds : c.sources[k].ok => c.sources[k].at = day

LEMMA BothObtain ==
  ASSUME Types, NEW c \in Coverages, Real(c)
  PROVE  Obtained(Raised(c)) /\ \A a \in Answers : Obtained(Fetched(a, c))
<1>1. Obtained(Raised(c))
  BY RaisedForm, RaisedIsTrue DEF Obtained
<1>2. ASSUME NEW a \in Answers PROVE Obtained(Fetched(a, c))
  <2>1. \A k \in Kinds : Fetched(a, c).sources[k].ok => Fetched(a, c).sources[k].at = day
    BY FetchedForm, SourceForm
  <2> QED
    BY <2>1, FetchedForm, FetchedIsTrue DEF Obtained
<1> QED
  BY <1>1, <1>2

LEMMA FinishDoes ==
  ASSUME EvidenceInv, NEW c, Obtained(c), NEW mishaps, NEW failed, NEW listing \in Listings,
         Finish(c, mishaps, failed, listing)
  PROVE  /\ EvidenceInv' /\ UNCHANGED <<day, world>> /\ audit'.rows = c.rows
         /\ audit'.continued => "audit" \notin mishaps /\ audit.present
<1> DEFINE session   == Session(listing.complete, c)
           continued == "audit" \notin mishaps /\ audit.present
           applied   == Applied(mapping.evidence, c)
<1>1. /\ audit' = [c EXCEPT !.session = session, !.continued = continued]
      /\ mapping' \in {mapping, NotMapped, [here |-> TRUE, at |-> day, evidence |-> applied]}
      /\ UNCHANGED <<day, world>>
  BY DEF Finish, Replaced
<1>2. /\ c \in Coverages /\ audit \in Coverages /\ Types /\ day \in Int
      /\ mapping.evidence \in [Kinds -> Proofs] /\ Sound(mapping.evidence)
  BY Bounds DEF EvidenceInv, Types, Obtained
<1>3. session \in [complete : BOOLEAN, asOf : Int, suspended : BOOLEAN] /\ continued \in BOOLEAN
  <2>1. /\ c.sources["suspend"].ok \in BOOLEAN /\ c.sources["suspend"].asOf \in Int
        /\ listing.complete \in BOOLEAN /\ audit.present \in BOOLEAN
    BY <1>2 DEF Coverages, Sources, Kinds, Listings
  <2> QED
    BY <2>1 DEF Session, SessionComplete
<1>4. Surveyed(session)
  BY DEF Obtained
<1>5. /\ applied \in [Kinds -> Proofs] /\ Sound(applied)
      /\ \A k \in Kinds : applied[k].status \in Verified => applied[k].at = day
  BY <1>2, AppliedIsTrue DEF Obtained
<1> HIDE DEF session, continued, applied
<1>6. /\ audit' \in Coverages /\ audit'.sources = c.sources /\ audit'.rows = c.rows
      /\ audit'.session = session /\ audit'.continued = continued
  BY <1>1, <1>2, <1>3 DEF Coverages
<1>7. Real(audit)' /\ Vouched(audit)' /\ Surveyed(audit.session)'
  <2>1. Real(c)' /\ Vouched(c)' /\ Surveyed(session)'
    BY <1>1, <1>4
       DEF Obtained, Real, Vouched, Surveyed, Agrees, HaltedAsOf, Happened, Proof, Judged
  <2> QED
    BY <1>6, <2>1 DEF Real, Vouched, Surveyed
<1>8. /\ mapping' \in [here : BOOLEAN, at : Int, evidence : [Kinds -> Proofs]]
      /\ Sound(mapping'.evidence)
      /\ \A k \in Kinds : mapping'.evidence[k].status \in Verified =>
           mapping'.evidence[k].at = mapping'.at
  <2>1. CASE mapping' = mapping
    BY <1>2, <2>1 DEF EvidenceInv, Types, FailedRefreshUnverifies
  <2>2. CASE mapping' = NotMapped
    <3>1. /\ NotMapped \in [here : BOOLEAN, at : Int, evidence : [Kinds -> Proofs]]
          /\ \A k \in Kinds : NotMapped.evidence[k] = NoProof
      BY DEF NotMapped, NoEvidence, NoProof, Proofs
    <3>2. NoProof.status = "none" /\ NoProof.asOf = 0 /\ 0 <= day
      BY Bounds DEF NoProof, EvidenceInv, Types
    <3> QED
      BY <2>2, <3>1, <3>2 DEF Sound, Agrees, Verified
  <2>3. CASE mapping' = [here |-> TRUE, at |-> day, evidence |-> applied]
    BY <1>2, <1>5, <2>3
  <2> QED
    BY <1>1, <2>1, <2>2, <2>3
<1>9. Sound(mapping.evidence)'
  BY <1>1, <1>8 DEF Sound, Agrees, HaltedAsOf, Happened
<1>10. Types'
  BY <1>1, <1>2, <1>6, <1>8 DEF Types
<1> QED
  BY <1>1, <1>6, <1>7, <1>8, <1>9, <1>10 DEF EvidenceInv, FailedRefreshUnverifies, continued

\* The coverage a refresh starts from
LEMMA PreviousForm ==
  ASSUME EvidenceInv, NEW mishaps
  PROVE  Previous(mishaps) \in Coverages /\ Real(Previous(mishaps))
BY Blank DEF EvidenceInv, Types, Previous

LEMMA EvidenceInitially == Spec => EvidenceInv
<1> SUFFICES ASSUME StoreInit PROVE EvidenceInv
  BY DEF Spec
<1>1. /\ day = 1 /\ world \in Worlds /\ audit = NoCoverage /\ mapping = NotMapped
  BY DEF StoreInit, Init
<1>2. /\ NotMapped \in [here : BOOLEAN, at : Int, evidence : [Kinds -> Proofs]]
      /\ \A k \in Kinds : NotMapped.evidence[k] = NoProof
  BY DEF NotMapped, NoEvidence, NoProof, Proofs
<1>3. NoProof.status = "none" /\ NoProof.asOf = 0
  BY DEF NoProof
<1>4. NoCoverage \in Coverages
  BY DEF NoCoverage, Coverages, NoRows, NoSession, FailedSource, Sources
<1>5. day \in Days
  BY <1>1, CoverageAssumption DEF Days
<1>6. Types
  BY <1>1, <1>2, <1>4, <1>5 DEF Types
<1>7. Sound(mapping.evidence) /\ FailedRefreshUnverifies
  BY <1>1, <1>2, <1>3 DEF Sound, Agrees, FailedRefreshUnverifies, Verified
<1> QED
  BY <1>1, <1>6, <1>7, Blank DEF EvidenceInv

\* Another day changes nothing of what was said about an earlier one.
LEMMA DayKeeps ==
  ASSUME EvidenceInv, NextDay
  PROVE  EvidenceInv'
<1>1. /\ Types /\ day \in Int /\ day' = day + 1 /\ day' \in Days
      /\ UNCHANGED <<world, audit, mapping>>
  BY Bounds DEF EvidenceInv, Types, NextDay
<1>2. Real(audit)'
  <2>1. /\ \A r \in world.changes \cup world.delistings : r.at \in Int
        /\ \A r \in HaltShown : r.at \in Int
    BY <1>1, RowForm DEF HaltShown
  <2>2. Real(audit)
    BY DEF EvidenceInv
  <2> QED
    BY <1>1, <2>1, <2>2 DEF Real
<1>3. Vouched(audit)'
  <2>1. \A k \in Kinds : audit.sources[k].asOf \in Int
    BY <1>1 DEF Types, Coverages, Sources
  <2>2. ASSUME NEW k \in Kinds, audit.sources[k].ok
        PROVE  audit.sources[k].asOf <= day' /\ Agrees(k, Proof(k, NoProof, audit.sources[k], audit.rows[k]))'
    <3>1. audit.sources[k].asOf <= day
      BY <2>2 DEF EvidenceInv, Vouched
    <3>2. Agrees(k, Proof(k, NoProof, audit.sources[k], audit.rows[k]))
      BY <2>2 DEF EvidenceInv, Vouched
    <3>3. Proof(k, NoProof, audit.sources[k], audit.rows[k])' = Proof(k, NoProof, audit.sources[k], audit.rows[k])
      BY <1>1 DEF Proof, Judged
    <3> QED
      BY <1>1, <2>1, <3>1, <3>2, <3>3 DEF Agrees, HaltedAsOf, Happened
  <2> QED
    BY <1>1, <2>2 DEF Vouched
<1>4. Sound(mapping.evidence)'
  <2>1. \A k \in Kinds : mapping.evidence[k].asOf \in Int
    BY <1>1 DEF Types, Proofs
  <2>2. ASSUME NEW k \in Kinds
        PROVE  Agrees(k, mapping.evidence[k])' /\ mapping.evidence[k].asOf <= day'
    <3>1. Agrees(k, mapping.evidence[k]) /\ mapping.evidence[k].asOf <= day
      BY DEF EvidenceInv, Sound
    <3> QED
      BY <1>1, <2>1, <3>1 DEF Agrees, HaltedAsOf, Happened
  <2> QED
    BY <1>1, <2>2 DEF Sound
<1>5. Surveyed(audit.session)' /\ FailedRefreshUnverifies'
  BY <1>1 DEF EvidenceInv, Surveyed, HaltedAsOf, FailedRefreshUnverifies
<1>6. Types'
  BY <1>1 DEF Types
<1> QED
  BY <1>2, <1>3, <1>4, <1>5, <1>6 DEF EvidenceInv

LEMMA EvidenceStep ==
  ASSUME EvidenceInv, [Next]_storeVars
  PROVE  EvidenceInv' /\ world' = world
<1>1. CASE Refresh
  <2>1. PICK mishaps \in Mishaps, a \in Answers, listing \in Listings :
          Finish(Fetched(a, Previous(mishaps)), mishaps, Cost(a), listing)
    BY <1>1 DEF Refresh
  <2>2. Obtained(Fetched(a, Previous(mishaps)))
    BY PreviousForm, BothObtain DEF EvidenceInv
  <2> QED
    BY <2>1, <2>2, FinishDoes
<1>2. CASE RefreshRaises
  <2>1. PICK mishaps \in Mishaps, listing \in Listings :
          Finish(Raised(Previous(mishaps)), mishaps, 1, listing)
    BY <1>2 DEF RefreshRaises
  <2>2. Obtained(Raised(Previous(mishaps)))
    BY PreviousForm, BothObtain DEF EvidenceInv
  <2> QED
    BY <2>1, <2>2, FinishDoes
<1>3. CASE RefreshFailsOpen
  <2>1. audit' = NoCoverage /\ UNCHANGED <<day, world, mapping>>
    BY <1>3 DEF RefreshFailsOpen
  <2>2. Types /\ Types'
    BY <2>1, Blank DEF EvidenceInv, Types
  <2>3. Real(NoCoverage)' /\ Vouched(NoCoverage)' /\ Surveyed(NoCoverage.session)'
    BY <2>1, <2>2, Blank
       DEF Real, Vouched, Surveyed, HaltedAsOf, Agrees, Happened, Proof, Judged
  <2>4. Real(audit)' /\ Vouched(audit)' /\ Surveyed(audit.session)'
    BY <2>1, <2>3 DEF Real, Vouched, Surveyed
  <2>5. Sound(mapping.evidence)' /\ FailedRefreshUnverifies'
    BY <2>1 DEF EvidenceInv, Sound, Agrees, HaltedAsOf, Happened, FailedRefreshUnverifies
  <2> QED
    BY <2>1, <2>2, <2>4, <2>5 DEF EvidenceInv
<1>4. CASE NextDay
  BY <1>4, DayKeeps DEF NextDay
<1>5. CASE UNCHANGED <<day, world, audit, mapping>>
  <2>1. Vouched(audit)'
    BY <1>5 DEF EvidenceInv, Vouched, Agrees, HaltedAsOf, Happened, Proof, Judged
  <2>2. Sound(mapping.evidence)'
    BY <1>5 DEF EvidenceInv, Sound, Agrees, HaltedAsOf, Happened
  <2>3. Types' /\ Real(audit)' /\ Surveyed(audit.session)' /\ FailedRefreshUnverifies'
    BY <1>5 DEF EvidenceInv, Types, Real, Surveyed, HaltedAsOf, FailedRefreshUnverifies
  <2> QED
    BY <1>5, <2>1, <2>2, <2>3 DEF EvidenceInv
<1>6. CASE SyncSkips \/ SyncExtends \/ SyncReplaces \/ SyncCreates
  BY <1>5, <1>6 DEF SyncSkips, SyncExtends, SyncReplaces, SyncCreates, Use
<1> QED
  BY <1>1, <1>2, <1>3, <1>4, <1>5, <1>6 DEF Next, storeVars

LEMMA EvidenceInvariance == Spec => []EvidenceInv
<1>1. EvidenceInv /\ [Next]_storeVars => EvidenceInv'
  BY EvidenceStep
<1> QED
  BY <1>1, EvidenceInitially, PTL DEF Spec

\* Whatever fails, comes late or is missed, and whatever the symbol's history: evidence
\* that reads as verified says what the vendors knew of the symbol on its day.
THEOREM EvidenceIsTrue == Spec => []EvidenceAgreesWithWorld
<1>1. EvidenceInv => EvidenceAgreesWithWorld
  BY DEF EvidenceInv, Sound, Surveyed, EvidenceAgreesWithWorld
<1> QED
  BY <1>1, EvidenceInvariance, PTL

\* What the mapping calls verified was proved by the refresh that wrote the row, so a
\* failed response leaves no evidence of an earlier day behind it.
THEOREM FailuresUnverify == Spec => []FailedRefreshUnverifies
BY EvidenceInvariance, PTL DEF EvidenceInv

\* A recorded event whose day is still in the coverage window is in every later audit
\* that continues the one it is in, whichever sources fail.
THEOREM EventsStay == Spec => EventsRetained
<1> DEFINE Kept == audit'.continued /\ audit' # audit =>
             \A k \in Kinds : {d \in RowDays(audit, k) : day - Lookback <= d} \subseteq RowDays(audit', k)
<1>1. ASSUME EvidenceInv, [Next]_storeVars PROVE [Kept]_storeVars
  <2> SUFFICES ASSUME Next, audit'.continued, audit' # audit, NEW k \in Kinds
               PROVE  Due(audit, k) \subseteq RowDays(audit', k)
    BY <1>1 DEF Due, storeVars
  <2>1. CASE Refresh
    <3>1. PICK mishaps \in Mishaps, a \in Answers, listing \in Listings :
            Finish(Fetched(a, Previous(mishaps)), mishaps, Cost(a), listing)
      BY <2>1 DEF Refresh
    <3>2. Obtained(Fetched(a, Previous(mishaps)))
      BY <1>1, PreviousForm, BothObtain DEF EvidenceInv
    <3>3. "audit" \notin mishaps /\ audit'.rows = Fetched(a, Previous(mishaps)).rows
      BY <1>1, <3>1, <3>2, FinishDoes
    <3>4. Previous(mishaps) = audit
      BY <3>3 DEF Previous
    <3>5. Due(audit, k) \subseteq RowDays(Fetched(a, audit), k)
      BY <1>1, FetchedIsTrue DEF EvidenceInv, Types
    <3> QED
      BY <3>3, <3>4, <3>5 DEF RowDays
  <2>2. CASE RefreshRaises
    <3>1. PICK mishaps \in Mishaps, listing \in Listings :
            Finish(Raised(Previous(mishaps)), mishaps, 1, listing)
      BY <2>2 DEF RefreshRaises
    <3>2. Obtained(Raised(Previous(mishaps)))
      BY <1>1, PreviousForm, BothObtain DEF EvidenceInv
    <3>3. "audit" \notin mishaps /\ audit'.rows = Raised(Previous(mishaps)).rows
      BY <1>1, <3>1, <3>2, FinishDoes
    <3>4. Previous(mishaps) = audit
      BY <3>3 DEF Previous
    <3>5. Due(audit, k) \subseteq RowDays(Raised(audit), k)
      BY <1>1, RaisedIsTrue DEF EvidenceInv, Types
    <3> QED
      BY <3>3, <3>4, <3>5 DEF RowDays
  <2>3. CASE RefreshFailsOpen
    BY <1>1, <2>3, Blank DEF RefreshFailsOpen, EvidenceInv
  <2>4. CASE NextDay \/ SyncSkips \/ SyncExtends \/ SyncReplaces \/ SyncCreates
    BY <2>4 DEF NextDay, SyncSkips, SyncExtends, SyncReplaces, SyncCreates, Use
  <2> QED
    BY <2>1, <2>2, <2>3, <2>4 DEF Next
<1> HIDE DEF Kept
<1>2. EvidenceInv /\ [Next]_storeVars => [Kept]_storeVars
  BY <1>1
<1>3. Spec => [][Kept]_storeVars
  BY <1>2, EvidenceInvariance, PTL DEF Spec
<1> QED
  BY <1>3 DEF EventsRetained, Kept

-----------------------------------------------------------------------------
(* The bars: their form, and what a dispatch judges them by.               *)

Tables   == UNION {[D -> SUBSET Int] : D \in SUBSET Int}
Lineages == [present : BOOLEAN, events : SUBSET Int, fresh : BOOLEAN,
             comparable : BOOLEAN, looked : Int]
DaySets  == SUBSET Int
Stored   == [bars : Tables, full : Int, lineage : Lineages]

Dated(bars) == bars \in Tables /\ DOMAIN bars \subseteq FirstBar..day

FileForm == file \in Stored /\ Dated(file.bars)

LEMMA Table ==
  ASSUME NEW bars
  PROVE  /\ bars \in Tables => /\ DOMAIN bars \subseteq Int
                               /\ \A x \in DOMAIN bars : bars[x] \in SUBSET Int
                               /\ bars = [x \in DOMAIN bars |-> bars[x]]
         /\ /\ DOMAIN bars \subseteq Int /\ \A x \in DOMAIN bars : bars[x] \in SUBSET Int
            /\ bars = [x \in DOMAIN bars |-> bars[x]]
            => bars \in Tables
<1>1. ASSUME bars \in Tables
      PROVE  /\ DOMAIN bars \subseteq Int /\ \A x \in DOMAIN bars : bars[x] \in SUBSET Int
             /\ bars = [x \in DOMAIN bars |-> bars[x]]
  <2>1. PICK D \in SUBSET Int : bars \in [D -> SUBSET Int]
    BY <1>1 DEF Tables
  <2> QED
    BY <2>1
<1>2. ASSUME DOMAIN bars \subseteq Int, \A x \in DOMAIN bars : bars[x] \in SUBSET Int,
             bars = [x \in DOMAIN bars |-> bars[x]]
      PROVE  bars \in Tables
  <2>1. bars \in [DOMAIN bars -> SUBSET Int]
    BY <1>2
  <2> QED
    BY <1>2, <2>1 DEF Tables
<1> QED
  BY <1>1, <1>2

\* A file without bars, and one with a single basis
LEMMA NoBars == Dated(<<>>)
<1>1. <<>> \in Seq(SUBSET Int) /\ Len(<<>>) = 0
  OBVIOUS
<1>2. DOMAIN <<>> = {}
  BY <1>1
<1>3. <<>> \in [{} -> SUBSET Int]
  BY <1>1, <1>2
<1>4. {} \in SUBSET Int
  OBVIOUS
<1>5. <<>> \in Tables
  BY <1>3, <1>4 DEF Tables
<1> QED
  BY <1>2, <1>5 DEF Dated

LEMMA OldBars == ASSUME day \in Int, 0 <= day PROVE Dated([x \in FirstBar..0 |-> {}])
<1> DEFINE bars == [x \in FirstBar..0 |-> {}]
<1>1. DOMAIN bars = FirstBar..0
  OBVIOUS
<1>2. FirstBar..0 \in SUBSET Int /\ bars \in [FirstBar..0 -> SUBSET Int]
  OBVIOUS
<1>3. bars \in Tables
  BY <1>2 DEF Tables
<1>4. DOMAIN bars \subseteq FirstBar..day
  BY <1>1, StoreAssumption
<1> QED
  BY <1>3, <1>4 DEF Dated

LEMMA Constants ==
  /\ FirstBar \in Int /\ FirstBar <= 1 /\ ShortPeriod \in Nat \ {0}
  /\ FullPeriod \in Nat \ {0} /\ MinBars \in Nat
BY StoreAssumption

LEMMA Splits ==
  ASSUME Types
  PROVE  \A s \in world.splits : /\ s.at \in Int /\ s.seen \in Int /\ s.at \in Days
                                 /\ s.at <= s.seen /\ s.seen <= s.at + 1
<1>1. \A s \in world.splits : s.at \in Days /\ s.seen \in s.at .. s.at + MaxLateness
  BY WorldsAssumption DEF Types
<1> QED
  BY <1>1, Bounds, WorldsAssumption

\* The ends of a table are among its dates.
LEMMA Ends ==
  ASSUME Types, NEW bars, Dated(bars), DOMAIN bars # {}
  PROVE  /\ First(bars) \in DOMAIN bars /\ First(bars) \in Int
         /\ \A y \in DOMAIN bars : First(bars) <= y
         /\ Latest(bars) \in DOMAIN bars /\ Latest(bars) \in Int
         /\ \A y \in DOMAIN bars : y <= Latest(bars)
<1>1. \A x \in DOMAIN bars : x \in Int /\ FirstBar <= x /\ x <= day
  BY Bounds, Constants DEF Types, Dated
<1>2. day \in Int /\ FirstBar \in Int
  BY Bounds, Constants DEF Types
<1>3. \E x \in DOMAIN bars : \A y \in DOMAIN bars : x <= y
  BY <1>1, <1>2, Smallest
<1>4. \E x \in DOMAIN bars : \A y \in DOMAIN bars : y <= x
  BY <1>1, <1>2, Largest
<1> QED
  BY <1>1, <1>3, <1>4 DEF First, Latest

LEMMA CombinedForm ==
  ASSUME Types, NEW old, NEW new, Dated(old), Dated(new)
  PROVE  /\ Dated(Combined(old, new))
         /\ DOMAIN Combined(old, new) \subseteq DOMAIN old \cup DOMAIN new
         /\ \A x \in DOMAIN Combined(old, new) :
              Combined(old, new)[x] = IF x \in DOMAIN new THEN new[x] ELSE old[x]
<1> DEFINE both   == [x \in DOMAIN old \cup DOMAIN new |-> IF x \in DOMAIN new THEN new[x] ELSE old[x]]
           newest == Newest(both)
           merged == Trimmed(newest)
<1>1. /\ DOMAIN newest \subseteq DOMAIN both
      /\ \A x \in DOMAIN newest : newest[x] = both[x]
  BY DEF Newest
<1>2. /\ DOMAIN both = DOMAIN old \cup DOMAIN new
      /\ \A x \in DOMAIN both : both[x] = IF x \in DOMAIN new THEN new[x] ELSE old[x]
  OBVIOUS
<1> HIDE DEF newest, both
<1>3. /\ DOMAIN merged \subseteq DOMAIN newest
      /\ \A x \in DOMAIN merged : merged[x] = newest[x]
      /\ merged = [x \in DOMAIN merged |-> merged[x]]
  BY DEF Trimmed
<1>4. Combined(old, new) = merged
  BY DEF Combined, newest, both
<1> HIDE DEF merged
<1>5. /\ DOMAIN merged \subseteq DOMAIN old \cup DOMAIN new
      /\ \A x \in DOMAIN merged : merged[x] = IF x \in DOMAIN new THEN new[x] ELSE old[x]
  BY <1>1, <1>2, <1>3
<1>6. \A x \in DOMAIN merged : merged[x] \in SUBSET Int
  BY <1>5, Table DEF Dated
<1>7. DOMAIN merged \subseteq FirstBar..day /\ DOMAIN merged \subseteq Int
  BY <1>5, Bounds, Constants DEF Dated, Types
<1> QED
  BY <1>3, <1>4, <1>5, <1>6, <1>7, Table DEF Dated

LEMMA DownloadForm ==
  ASSUME Types, NEW n \in Nat \ {0}
  PROVE  /\ Dated(Download(n)) /\ DOMAIN Download(n) = {x \in FirstBar..day : x > day - n}
         /\ day \in DOMAIN Download(n)
         /\ \A x \in DOMAIN Download(n) : Download(n)[x] = Later(x)
         /\ Shown(Download(n)) \in SUBSET Int
<1>1. day \in Int /\ 1 <= day /\ FirstBar \in Int /\ FirstBar <= 1
  BY Bounds, Constants DEF Types
<1>2. /\ DOMAIN Download(n) = {x \in FirstBar..day : x > day - n}
      /\ \A x \in DOMAIN Download(n) : Download(n)[x] = Later(x)
      /\ Download(n) = [x \in DOMAIN Download(n) |-> Download(n)[x]]
  BY DEF Download
<1>3. \A x : Later(x) \in SUBSET Int
  BY Splits DEF Later
<1>4. Shown(Download(n)) \in SUBSET Int
  BY Splits DEF Shown
<1>5. DOMAIN Download(n) \subseteq FirstBar..day /\ DOMAIN Download(n) \subseteq Int
  BY <1>1, <1>2
<1>6. Download(n) \in Tables
  BY <1>2, <1>3, <1>5, Table
<1> QED
  BY <1>1, <1>2, <1>4, <1>5, <1>6 DEF Dated

\* The evidence a dispatch works with is as true as that of the mapping.
LEMMA DispatchForm ==
  ASSUME EvidenceInv, NEW e \in DispatchEvidence
  PROVE  e.evidence \in [Kinds -> Proofs] /\ Sound(e.evidence)
<1> DEFINE under(c) == IF mapping.here THEN Applied(mapping.evidence, c) ELSE NoEvidence
<1>1. /\ Types /\ audit \in Coverages /\ Real(audit) /\ Vouched(audit)
      /\ mapping.evidence \in [Kinds -> Proofs] /\ Sound(mapping.evidence)
  BY DEF EvidenceInv, Types
<1>2. NoEvidence \in [Kinds -> Proofs] /\ Sound(NoEvidence)
  <2>1. NoProof \in Proofs /\ NoProof.status = "none" /\ NoProof.asOf <= day
    BY <1>1, Bounds DEF NoProof, Proofs, Types
  <2>2. \A k \in Kinds : NoEvidence[k] = NoProof
    BY DEF NoEvidence
  <2> QED
    BY <2>1, <2>2 DEF Sound, Agrees, NoEvidence
<1>3. ASSUME NEW c, Obtained(c) \/ c = audit
      PROVE  under(c) \in [Kinds -> Proofs] /\ Sound(under(c))
  <2>1. c \in Coverages /\ Vouched(c)
    BY <1>1, <1>3 DEF Obtained
  <2> QED
    BY <1>1, <1>2, <2>1, AppliedIsTrue
<1>4. \A a \in Answers : Obtained(Fetched(a, audit))
  BY <1>1, BothObtain
<1>5. \/ e.evidence = under(audit)
      \/ \E a \in Answers : e.evidence = under(Fetched(a, audit))
      \/ e.evidence = mapping.evidence
  BY DEF DispatchEvidence
<1> HIDE DEF under
<1> QED
  BY <1>1, <1>3, <1>4, <1>5

\* What a lineage that is marked as comparable claims of its bars
Justified(bars, looked) ==
  /\ Within(world.delistings, First(bars), Latest(bars)) = {}
  /\ \A r \in Within(world.changes, First(bars), Latest(bars)) :
       \E n \in world.changes : n.role = "new" /\ n.at <= day
  /\ Latest(bars) <= looked /\ ~HaltedAsOf(looked)

LEMMA ComparisonHolds ==
  ASSUME EvidenceInv, NEW bars, Dated(bars), DOMAIN bars # {}, NEW fresh,
         NEW evidence \in [Kinds -> Proofs], Sound(evidence), Comparable(fresh, bars, evidence)
  PROVE  Justified(bars, evidence["suspend"].asOf)
<1> DEFINE from == First(bars)
           to   == Latest(bars)
<1>1. from \in Int /\ to \in Int /\ Types /\ day \in Int
  BY Ends, Bounds DEF EvidenceInv, Types
<1> HIDE DEF from, to
<1>2. \A k \in Kinds : /\ evidence[k].from <= from /\ to <= evidence[k].asOf
                       /\ evidence[k].from \in Int /\ evidence[k].asOf \in Int
                       /\ Agrees(k, evidence[k]) /\ evidence[k].asOf <= day
  BY DEF Comparable, EvidenceCovers, Sound, Proofs, from, to
<1>3. \A r \in world.changes \cup world.delistings : r.at \in Int
  BY <1>1, History DEF Types
<1>4. /\ evidence["change"].status \in Verified
      /\ evidence["delist"].status = "clear" /\ evidence["suspend"].status = "clear"
  BY DEF Comparable, StatusesVerified
<1>5. Within(world.delistings, from, to) = {}
  <2>1. Within(world.delistings, evidence["delist"].from, evidence["delist"].asOf) = {}
    BY <1>2, <1>4 DEF Agrees, Happened, Kinds
  <2> QED
    BY <1>1, <1>2, <1>3, <2>1 DEF Within, Kinds
<1>6. ASSUME NEW r \in Within(world.changes, from, to)
      PROVE  \E n \in world.changes : n.role = "new" /\ n.at <= day
  <2>1. CASE evidence["change"].status = "clear"
    <3>1. Within(world.changes, evidence["change"].from, evidence["change"].asOf) = {}
      BY <1>2, <2>1 DEF Agrees, Happened, Kinds
    <3> QED
      BY <1>1, <1>2, <1>3, <1>6, <3>1 DEF Within, Kinds
  <2>2. CASE evidence["change"].status = "event"
    <3>1. \E n \in Within(world.changes, evidence["change"].from, evidence["change"].asOf) : n.role = "new"
      BY <1>2, <2>2 DEF Agrees, Happened, Kinds
    <3> QED
      BY <1>1, <1>2, <1>3, <3>1 DEF Within, Kinds
  <2> QED
    BY <1>4, <2>1, <2>2 DEF Verified
<1>7. to <= evidence["suspend"].asOf /\ ~HaltedAsOf(evidence["suspend"].asOf)
  BY <1>2, <1>4 DEF Agrees, Kinds
<1> QED
  BY <1>5, <1>6, <1>7 DEF Justified, from, to

\* The lineage a dispatch writes for dated bars
LEMMA AssessedForm ==
  ASSUME EvidenceInv, NEW lineage \in Lineages, NEW bars, Dated(bars),
         lineage.fresh => DOMAIN bars # {},
         NEW evidence \in [Kinds -> Proofs], Sound(evidence)
  PROVE  LET new == Assessed(lineage, bars, evidence)
         IN  /\ new \in Lineages
             /\ new.present = lineage.present /\ new.events = lineage.events
             /\ new.fresh = lineage.fresh
             /\ new.comparable => Justified(bars, new.looked)
<1> DEFINE ok     == Comparable(lineage.fresh, bars, evidence)
           looked == IF ok THEN evidence["suspend"].asOf ELSE 0
           new    == [lineage EXCEPT !.comparable = ok, !.looked = looked]
<1>1. ok \in BOOLEAN /\ looked \in Int
  BY DEF Comparable, Proofs, Kinds, Lineages
<1>2. ok => lineage.fresh
  BY DEF Comparable
<1>3. ok => Justified(bars, looked)
  BY <1>2, ComparisonHolds
<1>4. Assessed(lineage, bars, evidence) = new
  BY DEF Assessed
<1> HIDE DEF ok, looked
<1>5. /\ new \in Lineages /\ new.present = lineage.present /\ new.events = lineage.events
      /\ new.fresh = lineage.fresh /\ new.comparable = ok /\ new.looked = looked
  BY <1>1 DEF Lineages
<1> HIDE DEF new
<1> QED
  BY <1>3, <1>4, <1>5

LEMMA BuiltForm ==
  ASSUME EvidenceInv, NEW bars, Dated(bars), NEW shown \in DaySets, NEW known \in DaySets,
         NEW evidence \in [Kinds -> Proofs], Sound(evidence)
  PROVE  LET new == Built(bars, shown, evidence, known)
         IN  /\ new \in Lineages /\ new.present = TRUE
             /\ \A x \in new.events : x \in known \/ x \in shown
             /\ new.fresh => DOMAIN bars # {}
             /\ new.comparable => Justified(bars, new.looked)
<1> DEFINE fresh   == IsFresh(bars)
           events  == known \cup shown
           lineage == [NoLineage EXCEPT !.present = TRUE, !.events = events, !.fresh = fresh]
<1>1. fresh \in BOOLEAN /\ (fresh => DOMAIN bars # {}) /\ events \in SUBSET Int
  BY DEF IsFresh, DaySets
<1>2. Built(bars, shown, evidence, known) = Assessed(lineage, bars, evidence)
  BY DEF Built
<1> HIDE DEF fresh
<1>3. events = known \cup shown
  OBVIOUS
<1> HIDE DEF events
<1>4. /\ lineage \in Lineages /\ lineage.present = TRUE /\ lineage.events = events
      /\ lineage.fresh = fresh
  <2>1. NoLineage \in Lineages
    BY DEF NoLineage, Lineages
  <2> QED
    BY <1>1, <2>1 DEF Lineages
<1> HIDE DEF lineage
<1> QED
  BY <1>1, <1>2, <1>3, <1>4, AssessedForm

-----------------------------------------------------------------------------
(* The bars: what a dispatch does to them.                                 *)

\* The splits the vendor shows on a day, and how it then adjusts the bar of date x
Seen(d)       == {s \in world.splits : s.seen <= d}
LaterAt(x, d) == {s.at : s \in {s \in Seen(d) : s.at > x}}

\* The bars are of one day: that of the last download, which showed every event the
\* lineage knows.
OneDay(bars, full, events) ==
  \E d \in Int :
    /\ d <= day
    /\ \A x \in DOMAIN bars : x <= d /\ (full <= x => bars[x] = LaterAt(x, d))
    /\ events \subseteq {s.at : s \in Seen(d)}

StoreInv ==
  /\ FileForm
  /\ file.lineage.fresh => DOMAIN file.bars # {}
  /\ file.lineage.comparable => Justified(file.bars, file.lineage.looked)
  /\ file.lineage.present => OneDay(file.bars, file.full, file.lineage.events)

\* A file that a dispatch has written: every bar since the last full download as the vendor
\* adjusts it that day
Written(f) ==
  /\ f \in Stored /\ Dated(f.bars)
  /\ f.lineage.fresh => DOMAIN f.bars # {}
  /\ f.lineage.comparable => Justified(f.bars, f.lineage.looked)
  /\ \A x \in DOMAIN f.bars : f.full <= x => f.bars[x] = Later(x)
  /\ f.lineage.events \subseteq {s.at : s \in Seen(day)}

LEMMA LaterToday == \A x : Later(x) = LaterAt(x, day)
BY DEF Later, LaterAt, Seen

LEMMA ShownIsSeen == ASSUME NEW bars PROVE Shown(bars) \subseteq {s.at : s \in Seen(day)}
BY DEF Shown, Seen

\* A short download that needs no full one adjusts no kept bar differently: an event the
\* stored bars do not show is later than the overlap, and would change its basis; or in
\* the download, and would be an event the lineage does not know; or before the download
\* and published after the overlap, more than a day late.
LEMMA KeptBarsAgree ==
  ASSUME Types, FileForm, NEW d \in Int, d <= day,
         \A x \in DOMAIN file.bars : x <= d /\ (file.full <= x => file.bars[x] = LaterAt(x, d)),
         file.lineage.events \subseteq {s.at : s \in Seen(d)},
         ~FullRefreshRequired(file, Download(ShortPeriod)),
         NEW x \in DOMAIN file.bars, file.full <= x, x \notin DOMAIN Download(ShortPeriod)
  PROVE  file.bars[x] = Later(x)
<1> DEFINE new == Download(ShortPeriod)
<1>1. /\ day \in Int /\ 1 <= day /\ FirstBar \in Int /\ FirstBar <= 1 /\ ShortPeriod \in Int
      /\ DOMAIN new = {y \in FirstBar..day : y > day - ShortPeriod}
      /\ \A y \in DOMAIN new : new[y] = Later(y)
  <2>1. day \in Int /\ 1 <= day
    BY Bounds DEF Types
  <2>2. ShortPeriod \in Nat \ {0} /\ ShortPeriod \in Int
    BY Constants
  <2>3. /\ DOMAIN Download(ShortPeriod) = {y \in FirstBar..day : y > day - ShortPeriod}
        /\ \A y \in DOMAIN Download(ShortPeriod) : Download(ShortPeriod)[y] = Later(y)
    BY <2>2, DownloadForm
  <2> QED
    BY <2>1, <2>2, <2>3, Constants
<1>2. /\ \A y \in DOMAIN file.bars : y \in Int /\ FirstBar <= y /\ y <= day
      /\ file.full \in Int
  BY <1>1 DEF FileForm, Dated, Stored
<1>3. \A s \in world.splits : /\ s.at \in Int /\ s.seen \in Int /\ 1 <= s.at
                              /\ s.at <= s.seen /\ s.seen <= s.at + 1
  BY Splits, Bounds
<1> HIDE DEF new
<1>4. /\ Shown(new) \subseteq file.lineage.events
      /\ \A y \in DOMAIN file.bars \cap DOMAIN new : file.bars[y] = new[y]
      /\ DOMAIN file.bars \cap DOMAIN new # {}
  BY DEF FullRefreshRequired, BasisChanged, Overlaps, new
<1>5. PICK y \in DOMAIN file.bars \cap DOMAIN new : TRUE
  BY <1>4
<1>6. x <= day - ShortPeriod /\ x < y /\ y <= d /\ y \in Int /\ x \in Int
  BY <1>1, <1>2, <1>5 DEF new
<1>7. Later(y) = LaterAt(y, d)
  BY <1>1, <1>2, <1>4, <1>5, <1>6
<1>8. ASSUME NEW s \in world.splits, s.seen <= day, s.at > x
      PROVE  \E t \in Seen(d) : t.at = s.at
  <2>1. CASE s.seen <= d
    BY <2>1 DEF Seen
  <2>2. CASE s.at > y
    <3>1. s.at \in Later(y)
      BY <1>8, <2>2 DEF Later
    <3> QED
      BY <1>7, <3>1 DEF LaterAt
  <2>3. CASE s.at <= y /\ s.at > day - ShortPeriod
    <3>1. s.at \in DOMAIN new
      BY <1>1, <1>3, <1>5, <2>3 DEF new
    <3>2. s.at \in Shown(new)
      BY <1>8, <3>1 DEF Shown
    <3> QED
      BY <1>4, <3>2
  <2>4. CASE s.at <= day - ShortPeriod /\ s.seen > d
    <3>1. day - ShortPeriod < y
      BY <1>1, <1>5
    <3> QED
      BY <1>1, <1>3, <1>6, <2>4, <3>1
  <2> QED
    BY <1>1, <1>3, <1>6, <2>1, <2>2, <2>3, <2>4
<1>9. Later(x) \subseteq LaterAt(x, d)
  <2> SUFFICES ASSUME NEW s \in world.splits, s.seen <= day, s.at > x
               PROVE  s.at \in LaterAt(x, d)
    BY DEF Later
  <2>1. PICK t \in Seen(d) : t.at = s.at
    BY <1>8
  <2> QED
    BY <2>1 DEF LaterAt
<1>10. LaterAt(x, d) \subseteq Later(x)
  BY <1>1, <1>3 DEF LaterAt, Later, Seen
<1> QED
  BY <1>9, <1>10

LEMMA WrittenIsOneDay ==
  ASSUME Types, NEW f, Written(f)
  PROVE  OneDay(f.bars, f.full, f.lineage.events)
<1>1. day \in Int /\ \A x \in DOMAIN f.bars : x <= day
  BY Bounds, Constants DEF Types, Written, Dated
<1>2. \A x \in DOMAIN f.bars : f.full <= x => f.bars[x] = LaterAt(x, day)
  BY LaterToday DEF Written
<1>3. day <= day /\ f.lineage.events \subseteq {s.at : s \in Seen(day)}
  BY <1>1 DEF Written
<1> QED
  BY <1>1, <1>2, <1>3 DEF OneDay

LEMMA ExtensionForm ==
  ASSUME EvidenceInv, StoreInv, NEW evidence \in [Kinds -> Proofs], Sound(evidence), Extendable,
         ~FullRefreshRequired(file, Download(ShortPeriod)),
         NEW bars, bars = Combined(file.bars, Download(ShortPeriod)),
         NEW f, f = [file EXCEPT !.bars = bars,
                       !.lineage = Built(bars, Shown(Download(ShortPeriod)), evidence, file.lineage.events)]
  PROVE  Written(f)
<1> DEFINE new     == Download(ShortPeriod)
           shown   == Shown(new)
           known   == file.lineage.events
           lineage == Built(bars, shown, evidence, known)
<1>1. Types /\ FileForm /\ file.lineage.present
  BY DEF EvidenceInv, StoreInv, Extendable
<1>2. /\ Dated(new) /\ \A x \in DOMAIN new : new[x] = Later(x)
      /\ Shown(new) \in SUBSET Int
  BY <1>1, Constants, DownloadForm
<1>3. /\ Dated(bars) /\ DOMAIN bars \subseteq DOMAIN file.bars \cup DOMAIN new
      /\ \A x \in DOMAIN bars : bars[x] = IF x \in DOMAIN new THEN new[x] ELSE file.bars[x]
  BY <1>1, <1>2, CombinedForm DEF FileForm
<1>4. file.lineage.events \in SUBSET Int /\ file \in Stored
  BY <1>1 DEF FileForm, Stored, Lineages
<1>5. /\ lineage \in Lineages /\ \A x \in lineage.events : x \in file.lineage.events \/ x \in Shown(new)
      /\ lineage.fresh => DOMAIN bars # {}
      /\ lineage.comparable => Justified(bars, lineage.looked)
  <2> HIDE DEF new
  <2>1. shown \in DaySets /\ known \in DaySets
    BY <1>2, <1>4 DEF DaySets
  <2> HIDE DEF shown, known
  <2>2. Dated(bars)
    BY <1>3
  <2>3. lineage \in Lineages
    BY <2>1, <2>2, BuiltForm
  <2>4. \A x \in lineage.events : x \in known \/ x \in shown
    BY <2>1, <2>2, BuiltForm
  <2>5. lineage.fresh => DOMAIN bars # {}
    BY <2>1, <2>2, BuiltForm
  <2>6. lineage.comparable => Justified(bars, lineage.looked)
    BY <2>1, <2>2, BuiltForm
  <2> QED
    BY <2>3, <2>4, <2>5, <2>6 DEF known, shown
<1>6. PICK d \in Int :
        /\ d <= day
        /\ \A x \in DOMAIN file.bars : x <= d /\ (file.full <= x => file.bars[x] = LaterAt(x, d))
        /\ file.lineage.events \subseteq {s.at : s \in Seen(d)}
  BY <1>1 DEF StoreInv, OneDay
<1>7. ASSUME NEW x \in DOMAIN bars, file.full <= x PROVE bars[x] = Later(x)
  <2>1. CASE x \in DOMAIN new
    BY <1>2, <1>3, <2>1
  <2>2. CASE x \notin DOMAIN new
    <3>1. x \in DOMAIN file.bars /\ bars[x] = file.bars[x]
      BY <1>3, <2>2
    <3>2. file.bars[x] = Later(x)
      BY <1>1, <1>6, <1>7, <2>2, <3>1, KeptBarsAgree
    <3> QED
      BY <3>1, <3>2
  <2> QED
    BY <2>1, <2>2
<1>8. {s.at : s \in Seen(d)} \subseteq {s.at : s \in Seen(day)}
  BY <1>1, <1>6, Splits, Bounds DEF Seen, Types
<1>9. lineage.events \subseteq {s.at : s \in Seen(day)}
  BY <1>5, <1>6, <1>8, ShownIsSeen
<1>10. f = [file EXCEPT !.bars = bars, !.lineage = lineage]
  OBVIOUS
<1> HIDE DEF lineage
<1>11. f \in Stored /\ f.bars = bars /\ f.lineage = lineage /\ f.full = file.full
  BY <1>3, <1>4, <1>5, <1>10 DEF Stored, Dated
<1> QED
  BY <1>3, <1>5, <1>7, <1>9, <1>11 DEF Written

LEMMA DownloadedForm ==
  ASSUME EvidenceInv, NEW kept, Dated(kept), NEW evidence \in [Kinds -> Proofs], Sound(evidence)
  PROVE  Written(Downloaded(kept, evidence))
<1> DEFINE new     == Download(FullPeriod)
           bars    == Combined(kept, new)
           shown   == Shown(new)
           lineage == Built(bars, shown, evidence, {})
           f       == Downloaded(kept, evidence)
<1>1. Types /\ day \in Int /\ FirstBar \in Int
  BY Bounds, Constants DEF EvidenceInv, Types
<1>2. /\ Dated(new) /\ \A x \in DOMAIN new : new[x] = Later(x)
      /\ DOMAIN new = {x \in FirstBar..day : x > day - FullPeriod} /\ day \in DOMAIN new
      /\ Shown(new) \in SUBSET Int
  BY <1>1, Constants, DownloadForm
<1>3. First(new) \in DOMAIN new /\ First(new) \in Int
  BY <1>1, <1>2, Ends
<1>4. /\ Dated(bars) /\ DOMAIN bars \subseteq FirstBar..day
      /\ \A x \in DOMAIN bars : bars[x] = IF x \in DOMAIN new THEN new[x] ELSE kept[x]
  BY <1>1, <1>2, CombinedForm DEF Dated
<1>5. /\ lineage \in Lineages /\ lineage.events \subseteq Shown(new)
      /\ lineage.fresh => DOMAIN bars # {}
      /\ lineage.comparable => Justified(bars, lineage.looked)
  <2> HIDE DEF new, bars
  <2>1. shown \in DaySets /\ {} \in DaySets
    BY <1>2 DEF DaySets
  <2> HIDE DEF shown
  <2>2. Dated(bars)
    BY <1>4
  <2>3. lineage \in Lineages
    BY <2>1, <2>2, BuiltForm
  <2>4. \A x \in lineage.events : x \in {} \/ x \in shown
    BY <2>1, <2>2, BuiltForm
  <2>5. lineage.fresh => DOMAIN bars # {}
    BY <2>1, <2>2, BuiltForm
  <2>6. lineage.comparable => Justified(bars, lineage.looked)
    BY <2>1, <2>2, BuiltForm
  <2> QED
    BY <2>3, <2>4, <2>5, <2>6 DEF shown
<1>6. f = [bars |-> bars, full |-> First(new), lineage |-> lineage]
  BY DEF Downloaded
<1>7. ASSUME NEW x \in DOMAIN bars, First(new) <= x PROVE bars[x] = Later(x)
  <2>1. FullPeriod \in Int
    BY Constants
  <2>2. x \in DOMAIN new
    BY <1>1, <1>2, <1>3, <1>4, <1>7, <2>1
  <2> QED
    BY <1>2, <1>4, <2>2
<1>8. lineage.events \subseteq {s.at : s \in Seen(day)}
  BY <1>5, ShownIsSeen
<1> HIDE DEF lineage, bars, new, f
<1>9. f \in Stored /\ f.bars = bars /\ f.lineage = lineage /\ f.full = First(new)
  BY <1>3, <1>4, <1>5, <1>6 DEF Stored, Dated
<1>10. Written(f)
  BY <1>4, <1>5, <1>7, <1>8, <1>9 DEF Written
<1> QED
  BY <1>10 DEF f

-----------------------------------------------------------------------------
(* The bars: the theorems.                                                 *)

\* What a step does to the file: nothing, another judgement of its lineage, or a download.
FileStep ==
  \/ UNCHANGED file
  \/ /\ UNCHANGED <<day, world>>
     /\ \E evidence \in [Kinds -> Proofs] :
          /\ Sound(evidence) /\ IsFresh(file.bars)
          /\ file' = [file EXCEPT !.lineage = Assessed(file.lineage, file.bars, evidence)]
  \/ UNCHANGED <<day, world>> /\ Written(file')

LEMMA FileSteps ==
  ASSUME EvidenceInv, StoreInv, [Next]_storeVars
  PROVE  FileStep
<1>1. CASE SyncSkips
  <2>1. PICK e \in DispatchEvidence :
          /\ Use(e) /\ IsFresh(file.bars)
          /\ file' = [file EXCEPT !.lineage = Assessed(@, file.bars, e.evidence)]
    BY <1>1 DEF SyncSkips
  <2>2. e.evidence \in [Kinds -> Proofs] /\ Sound(e.evidence)
    BY DispatchForm
  <2>3. file' = [file EXCEPT !.lineage = Assessed(file.lineage, file.bars, e.evidence)]
    BY <2>1
  <2>4. UNCHANGED <<day, world>>
    BY <2>1 DEF Use
  <2> QED
    BY <2>1, <2>2, <2>3, <2>4 DEF FileStep
<1>2. CASE SyncExtends
  <2> DEFINE bars == Combined(file.bars, Download(ShortPeriod))
  <2>1. PICK e \in DispatchEvidence :
          /\ Use(e) /\ Extendable /\ ~FullRefreshRequired(file, Download(ShortPeriod))
          /\ file' = [file EXCEPT !.bars = bars,
                        !.lineage = Built(bars, Shown(Download(ShortPeriod)), e.evidence,
                                          file.lineage.events)]
    BY <1>2 DEF SyncExtends
  <2>2. e.evidence \in [Kinds -> Proofs] /\ Sound(e.evidence)
    BY DispatchForm
  <2>3. Written(file')
    BY <2>1, <2>2, ExtensionForm
  <2> QED
    BY <2>1, <2>3 DEF FileStep, Use
<1>3. CASE SyncReplaces
  <2>1. PICK e \in DispatchEvidence : Use(e) /\ file' = Downloaded(<<>>, e.evidence)
    BY <1>3 DEF SyncReplaces
  <2>2. e.evidence \in [Kinds -> Proofs] /\ Sound(e.evidence)
    BY DispatchForm
  <2>3. Dated(<<>>)
    BY NoBars
  <2>4. Written(file')
    BY <2>1, <2>2, <2>3, DownloadedForm
  <2> QED
    BY <2>1, <2>4 DEF FileStep, Use
<1>4. CASE SyncCreates
  <2>1. PICK e \in DispatchEvidence : Use(e) /\ file' = Downloaded(file.bars, e.evidence)
    BY <1>4 DEF SyncCreates
  <2>2. e.evidence \in [Kinds -> Proofs] /\ Sound(e.evidence)
    BY DispatchForm
  <2>3. Dated(file.bars)
    BY DEF StoreInv, FileForm
  <2>4. Written(file')
    BY <2>1, <2>2, <2>3, DownloadedForm
  <2> QED
    BY <2>1, <2>4 DEF FileStep, Use
<1> QED
  BY <1>1, <1>2, <1>3, <1>4 DEF Next, storeVars, FileStep

LEMMA DaysPass ==
  ASSUME EvidenceInv, [Next]_storeVars
  PROVE  day \in Int /\ day' \in Int /\ day <= day'
<1>1. day \in Int /\ (day' = day \/ day' = day + 1)
  <2>1. day \in Int
    BY Bounds DEF EvidenceInv, Types
  <2>2. day' = day \/ day' = day + 1
    BY DEF Next, storeVars, NextDay, Refresh, RefreshRaises, RefreshFailsOpen, Finish,
           SyncSkips, SyncExtends, SyncReplaces, SyncCreates, Use
  <2> QED
    BY <2>1, <2>2
<1> QED
  BY <1>1

LEMMA StoreInitially == Spec => StoreInv
<1> SUFFICES ASSUME StoreInit PROVE StoreInv
  BY DEF Spec
<1>1. day = 1 /\ file \in {Legacy, Absent}
  BY DEF StoreInit, Init
<1>2. NoLineage \in Lineages /\ ~NoLineage.fresh /\ ~NoLineage.comparable /\ ~NoLineage.present
  BY DEF NoLineage, Lineages
<1>3. Dated([x \in FirstBar..0 |-> {}]) /\ Dated(<<>>)
  BY <1>1, OldBars, NoBars
<1>4. /\ file.bars \in {[x \in FirstBar..0 |-> {}], <<>>} /\ file.lineage = NoLineage
      /\ file = [bars |-> file.bars, full |-> 1, lineage |-> NoLineage]
  BY <1>1 DEF Legacy, Absent
<1>5. Dated(file.bars) /\ file.bars \in Tables
  BY <1>3, <1>4 DEF Dated
<1>6. file \in Stored
  BY <1>2, <1>4, <1>5 DEF Stored
<1> QED
  BY <1>2, <1>4, <1>5, <1>6 DEF StoreInv, FileForm

\* What a lineage claims of its bars stays true of them.
LEMMA JustifiedLater ==
  ASSUME UNCHANGED <<world, file>>, day \in Int, day' \in Int, day <= day',
         \A r \in world.changes : r.at \in Int, Justified(file.bars, file.lineage.looked)
  PROVE  Justified(file.bars, file.lineage.looked)'
<1> DEFINE from == First(file.bars)
           to   == Latest(file.bars)
<1>1. from' = from /\ to' = to
  BY DEF First, Latest
<1> HIDE DEF from, to
<1>2. Within(world.delistings, from, to)' = {}
  BY <1>1 DEF Justified, Within, from, to
<1>3. ASSUME NEW r \in Within(world.changes, from, to)'
      PROVE  \E n \in world.changes : n.role = "new" /\ n.at <= day'
  <2>1. r \in Within(world.changes, from, to)
    BY <1>1, <1>3 DEF Within
  <2>2. PICK n \in world.changes : n.role = "new" /\ n.at <= day
    BY <2>1 DEF Justified, from, to
  <2> QED
    BY <2>2
<1>4. (to <= file.lineage.looked /\ ~HaltedAsOf(file.lineage.looked))'
  BY <1>1 DEF Justified, HaltedAsOf, from, to
<1> QED
  BY <1>2, <1>3, <1>4 DEF Justified, from, to

LEMMA StoreStep ==
  ASSUME EvidenceInv, StoreInv, [Next]_storeVars
  PROVE  StoreInv'
<1>1. /\ day \in Int /\ day' \in Int /\ day <= day' /\ world' = world
      /\ Types /\ Types' /\ FileStep
  BY DaysPass, EvidenceStep, FileSteps DEF EvidenceInv
<1>2. CASE UNCHANGED file
  <2>1. FileForm'
    BY <1>1, <1>2, Constants DEF StoreInv, FileForm, Dated
  <2>2. file.lineage.comparable => Justified(file.bars, file.lineage.looked)'
    <3>1. \A r \in world.changes : r.at \in Int
      BY <1>1, History DEF Types
    <3>2. SUFFICES ASSUME file.lineage.comparable
                   PROVE  Justified(file.bars, file.lineage.looked)'
      OBVIOUS
    <3>3. Justified(file.bars, file.lineage.looked)
      BY <3>2 DEF StoreInv
    <3> QED
      BY <1>1, <1>2, <3>1, <3>3, JustifiedLater
  <2>3. file.lineage.present => OneDay(file.bars, file.full, file.lineage.events)'
    <3>1. SUFFICES ASSUME file.lineage.present
                   PROVE  OneDay(file.bars, file.full, file.lineage.events)'
      OBVIOUS
    <3>2. PICK d \in Int :
            /\ d <= day
            /\ \A x \in DOMAIN file.bars : x <= d /\ (file.full <= x => file.bars[x] = LaterAt(x, d))
            /\ file.lineage.events \subseteq {s.at : s \in Seen(d)}
      BY <3>1 DEF StoreInv, OneDay
    <3>3. d <= day' /\ Seen(d)' = Seen(d) /\ \A x : LaterAt(x, d)' = LaterAt(x, d)
      BY <1>1, <3>2 DEF Seen, LaterAt
    <3> QED
      BY <1>2, <3>2, <3>3 DEF OneDay
  <2> QED
    BY <1>2, <2>1, <2>2, <2>3 DEF StoreInv
<1>3. ASSUME UNCHANGED <<day, world>>, NEW evidence \in [Kinds -> Proofs], Sound(evidence),
             IsFresh(file.bars),
             file' = [file EXCEPT !.lineage = Assessed(file.lineage, file.bars, evidence)]
      PROVE  StoreInv'
  <2> DEFINE lineage == file.lineage
             bars    == file.bars
             new     == Assessed(lineage, bars, evidence)
  <2>1. /\ file \in Stored /\ file.lineage \in Lineages /\ Dated(file.bars)
        /\ DOMAIN file.bars # {}
    BY <1>3 DEF StoreInv, FileForm, Stored, IsFresh
  <2>2. /\ new \in Lineages
        /\ new.present = file.lineage.present /\ new.events = file.lineage.events
        /\ new.fresh = file.lineage.fresh
        /\ new.comparable => Justified(file.bars, new.looked)
    <3>1. lineage \in Lineages /\ Dated(bars) /\ DOMAIN bars # {}
      BY <2>1
    <3> HIDE DEF lineage, bars
    <3>2. new \in Lineages
      BY <1>3, <3>1, AssessedForm
    <3>3. new.present = lineage.present
      BY <1>3, <3>1, AssessedForm
    <3>4. new.events = lineage.events
      BY <1>3, <3>1, AssessedForm
    <3>5. new.fresh = lineage.fresh
      BY <1>3, <3>1, AssessedForm
    <3>6. new.comparable => Justified(bars, new.looked)
      BY <1>3, <3>1, AssessedForm
    <3> HIDE DEF new
    <3> QED
      BY <3>2, <3>3, <3>4, <3>5, <3>6 DEF lineage, bars
  <2>3. file' = [file EXCEPT !.lineage = new]
    BY <1>3
  <2> HIDE DEF new
  <2>4. file' \in Stored /\ file'.bars = file.bars /\ file'.full = file.full /\ file'.lineage = new
    BY <2>1, <2>2, <2>3 DEF Stored
  <2>5. FileForm'
    BY <1>3, <2>1, <2>4 DEF FileForm, Dated
  <2>6. new.comparable => Justified(file.bars, file.lineage.looked)'
    BY <1>3, <2>2, <2>4 DEF Justified, Within, HaltedAsOf, First, Latest
  <2>7. new.present => OneDay(file.bars, file.full, file.lineage.events)'
    <3>1. new.present => OneDay(file.bars, file.full, file.lineage.events)
      BY <2>2 DEF StoreInv
    <3> QED
      BY <1>3, <2>2, <2>4, <3>1 DEF OneDay, LaterAt, Seen
  <2> QED
    BY <2>1, <2>4, <2>5, <2>6, <2>7 DEF StoreInv
<1>4. ASSUME UNCHANGED <<day, world>>, Written(file') PROVE StoreInv'
  <2>1. OneDay(file'.bars, file'.full, file'.lineage.events)
    BY <1>1, <1>4, WrittenIsOneDay
  <2>2. OneDay(file.bars, file.full, file.lineage.events)'
    BY <1>4, <2>1 DEF OneDay, LaterAt, Seen
  <2>3. FileForm'
    BY <1>4 DEF FileForm, Written, Dated
  <2>4. file'.lineage.comparable => Justified(file.bars, file.lineage.looked)'
    BY <1>4 DEF Written, Justified, Within, HaltedAsOf, First, Latest
  <2>5. file'.lineage.fresh => DOMAIN file'.bars # {}
    BY <1>4 DEF Written
  <2> QED
    BY <2>2, <2>3, <2>4, <2>5 DEF StoreInv
<1> QED
  BY <1>1, <1>2, <1>3, <1>4 DEF FileStep

LEMMA StoreInvariance == Spec => [](EvidenceInv /\ StoreInv)
<1>1. EvidenceInv /\ StoreInv /\ [Next]_storeVars => StoreInv'
  BY StoreStep
<1> QED
  BY <1>1, EvidenceInvariance, StoreInitially, PTL DEF Spec

\* A lineage marked as verified for comparison is right about the symbol for the whole of
\* its stored history, whatever failed, came late or is published later.
THEOREM ComparableMeans == Spec => []ComparableIsJustified
<1>1. StoreInv => ComparableIsJustified
  BY DEF StoreInv, Justified, ComparableIsJustified
<1> QED
  BY <1>1, StoreInvariance, PTL

\* Two adjustment bases are never merged: whenever the bars are rewritten, every one since
\* the last full download is adjusted as the vendor adjusts it that day.
THEOREM OneBasis == Spec => OneBasisAfterEachSync
<1> DEFINE Adjusted == file'.bars # file.bars =>
             \A x \in DOMAIN file'.bars : file'.full <= x => file'.bars[x] = Later(x)
<1>1. EvidenceInv /\ StoreInv /\ [Next]_storeVars => [Adjusted]_storeVars
  <2> SUFFICES ASSUME EvidenceInv, StoreInv, [Next]_storeVars PROVE Adjusted
    OBVIOUS
  <2>1. FileStep
    BY FileSteps
  <2>2. CASE file'.bars = file.bars
    BY <2>2
  <2>3. CASE Written(file')
    BY <2>3 DEF Written
  <2>4. ASSUME NEW evidence, file' = [file EXCEPT !.lineage = Assessed(file.lineage, file.bars, evidence)]
        PROVE  file'.bars = file.bars
    BY <2>4 DEF StoreInv, FileForm, Stored
  <2> HIDE DEF Adjusted
  <2> QED
    BY <2>1, <2>2, <2>3, <2>4 DEF FileStep
<1> HIDE DEF Adjusted
<1>2. Spec => [][Adjusted]_storeVars
  BY <1>1, StoreInvariance, PTL DEF Spec
<1> QED
  BY <1>2 DEF OneBasisAfterEachSync, Adjusted
=============================================================================
