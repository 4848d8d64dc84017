---------------------------- MODULE FinancialRows ----------------------------
(***************************************************************************)
(* How stage0_financial_publication_lineage_producer.py judges one symbol: *)
(* which figure of its daily record it takes, whether the history file     *)
(* bears it out, and which SEC filing, if any, published that figure.  A   *)
(* case is what the stored files and SEC's bulk archives hold on a symbol. *)
(***************************************************************************)
EXTENDS Integers, FiniteSets

CONSTANTS
  SecCases,   \* the cases explored: what SEC may hold,
  DriveCases, \* and what Drive may hold
  Retrieved   \* day of retrieval

EligibleForms == {"10-K", "10-K/A"}   \* two of ELIGIBLE_FORMS stand for all of them
Amendments == {"10-K/A"}
AcceptedIdentities == {"IDENTIFIER_LINEAGE_VERIFIED", "IDENTIFIER_ALIAS_RESOLVED"}
VerifiedStatuses == {"VERIFIED_ORIGINAL", "VERIFIED_AMENDMENT", "DUPLICATE_COLLAPSED"}

\* Assumed of the cases; asserted in MCDailyJob
CasesAssumption ==
  /\ Retrieved \in Int
  /\ \A c \in SecCases \cup DriveCases :
       /\ IsFiniteSet(DOMAIN c.facts)
       /\ \A a \in DOMAIN c.filings : c.filings[a].published \in Int

VARIABLES case, verdict

rowVars == <<case, verdict>>

-----------------------------------------------------------------------------
\* The figure of the daily record; one written before the netIncomeEvidence fields
\* existed and not from the history is replaced by the newest of the history.
Newest(payload) == CHOOSE r \in payload : \A q \in payload : q.period <= r.period

Figure(record, payload) ==
  IF ~record.fields /\ record.source # "HISTORY" /\ payload # {}
  THEN [source |-> "HISTORY", value |-> Newest(payload).value, period |-> Newest(payload).period]
  ELSE [source |-> record.source, value |-> record.value, period |-> record.period]

InputStatus(figure, payload) ==
  CASE figure.source # "HISTORY" -> "NOT_APPLICABLE"
    [] /\ figure.source = "HISTORY"
       /\ \E r \in payload : r.period = figure.period /\ r.value = figure.value -> "READY"
    [] OTHER -> "FACT_NOT_FOUND"

IdentityStatus(row) ==
  CASE row = "absent"         -> "IDENTIFIER_LINEAGE_MISSING"
    [] row = "other source"   -> "IDENTIFIER_LINEAGE_AMBIGUOUS"
    [] row = "same symbol"    -> "IDENTIFIER_LINEAGE_VERIFIED"
    [] row = "renamed symbol" -> "IDENTIFIER_ALIAS_RESOLVED"

\* One company in SEC's ticker map, and both bulk archives name it.
IdentityHolds(c) ==
  IdentityStatus(c.identity) \in AcceptedIdentities /\ c.ciks = 1 /\ c.archives

\* Facts of the company with the figure's value and period; slot |-> fact.
Exact(c, figure) ==
  {i \in DOMAIN c.facts : c.facts[i].value = figure.value /\ c.facts[i].period = figure.period}
Candidates(c, figure) == {i \in Exact(c, figure) : c.facts[i].form \in EligibleForms}

\* A filing as SEC's submissions list it, against the fact that cites it.
FilingStatus(fact, filings) ==
  IF fact.accession \notin DOMAIN filings THEN "SUBMISSION_MISSING"
  ELSE LET f == filings[fact.accession] IN
       CASE f.form # fact.form -> "FORM_MISMATCH"
         [] f.form = fact.form /\ f.published > Retrieved -> "PUBLICATION_AFTER_RETRIEVAL"
         [] f.form = fact.form /\ f.published <= Retrieved -> "FILED"

OfOne(fact, slots) ==
  CASE Cardinality(slots) > 1 -> "DUPLICATE_COLLAPSED"
    [] Cardinality(slots) = 1 /\ fact.form \in Amendments -> "VERIFIED_AMENDMENT"
    [] Cardinality(slots) = 1 /\ fact.form \notin Amendments -> "VERIFIED_ORIGINAL"

\* The filings of several facts: ambiguous, unless one of them is still to be published.
OfMany(facts, filings) ==
  IF \E f \in facts : FilingStatus(f, filings) = "PUBLICATION_AFTER_RETRIEVAL"
  THEN "PUBLICATION_AFTER_RETRIEVAL" ELSE "MULTIPLE_ACCESSIONS_AMBIGUOUS"

\* Mutant: facts of one accession are taken for one fact
AccessionsOf(c, slots) == {[c.facts[i] EXCEPT !.concept = "any"] : i \in slots}
Distinct(c, slots) == {c.facts[i] : i \in slots}

Classified(c, figure) ==
  LET slots == Candidates(c, figure)
      unique == Distinct(c, slots)
      fact == CHOOSE f \in unique : TRUE
      filing == FilingStatus(fact, c.filings)
  IN  IF unique = {}
      THEN IF Exact(c, figure) # {} THEN "FORM_MISMATCH" ELSE "FACT_NOT_FOUND"
      ELSE IF Cardinality(unique) > 1 THEN OfMany(unique, c.filings)
      ELSE IF filing = "FILED" THEN OfOne(fact, slots) ELSE filing

Classification(c) ==
  LET figure == Figure(c.record, c.payload)
      input == InputStatus(figure, c.payload)
  IN  CASE input # "READY" -> input
        [] input = "READY" /\ ~IdentityHolds(c) -> "IDENTITY_INVALID"
        [] input = "READY" /\ IdentityHolds(c) -> Classified(c, figure)

-----------------------------------------------------------------------------
RowInit == (case \in SecCases \/ case \in DriveCases) /\ verdict = "none"

Judge ==
  /\ verdict = "none"
  /\ verdict' = Classification(case)
  /\ UNCHANGED case

(* No look-ahead and no guessing: a row is verified if and only if the history     *)
(* file bears out its figure, the company is certain, and SEC's facts in eligible  *)
(* forms name one publication of that figure and no other, be it unlisted, listed  *)
(* in another form, later than the retrieval, or under another concept.            *)
VerifiedIsTheOnlyFiling ==
  verdict # "none" =>
    LET f == Figure(case.record, case.payload)
        matching == {i \in DOMAIN case.facts :
                       case.facts[i].value = f.value /\ case.facts[i].period = f.period}
        reported == {case.facts[i] : i \in {i \in matching : case.facts[i].form \in EligibleForms}}
    IN  verdict \in VerifiedStatuses <=>
          /\ f.source = "HISTORY" /\ \E r \in case.payload : r.value = f.value /\ r.period = f.period
          /\ IdentityHolds(case)
          /\ Cardinality(reported) = 1
          /\ \A fact \in reported :
               /\ fact.accession \in DOMAIN case.filings
               /\ case.filings[fact.accession].form = fact.form
               /\ case.filings[fact.accession].published <= Retrieved
=============================================================================
