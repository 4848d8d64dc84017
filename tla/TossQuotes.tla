----------------------------- MODULE TossQuotes -----------------------------
(***************************************************************************)
(* collect_toss_shadow_market_data of scripts/toss_shadow_market_data.py:  *)
(* one token request, one market-calendar request and the price requests   *)
(* of a Stage3 scope, and the verdict on what came back.                   *)
(*                                                                         *)
(* A reply is what the provider and the clocks do to one collection: how   *)
(* each request ends, the price rows of each batch in the order received,  *)
(* and whether every response carried its rate-limit headers.  Prices,     *)
(* dates and hashes are abstracted to the quality of a row.  The counters  *)
(* of the diagnostics envelope are left out: no decision reads them.       *)
(***************************************************************************)
EXTENDS Integers, Sequences, FiniteSets, SequencesExt

CONSTANTS
  ProviderName,     \* canonical symbol (an integer) |-> symbol asked of Toss
  BatchSize,        \* MAX_SYMBOLS_PER_PRICE_REQUEST
  MaxPriceRequests  \* TOSS_SHADOW_MAX_PRICE_REQUESTS

ASSUME QuoteBounds == BatchSize \in Nat \ {0} /\ MaxPriceRequests \in Nat \ {0}

(* How a request can end.  "unsent": the local clock was behind the start  *)
(* of the collection, nothing was sent.  "malformed" stands for a body, a  *)
(* calendar or a receipt clock the code cannot use.                        *)
Outcomes == {"ok", "unsent", "lost", "denied", "limited", "unavailable",
             "refused", "malformed"}

(* What a price row can be worth, in the order the tests are made: no      *)
(* usable price, not in dollars, no timestamp, stamped after its receipt,  *)
(* stamped outside today and the previous business day, or good.           *)
Qualities == {"invalid", "foreign", "undated", "future", "outside", "good"}

PassStatus == "PASS"
FailureStatuses == {"AUTH_BLOCKED", "RATE_LIMITED", "TRANSIENT", "SCHEMA_INVALID",
                    "STALE_OR_PARTIAL", "SOURCE_CONFLICT"}

PriceRequests(scope) == (Cardinality(scope) + BatchSize - 1) \div BatchSize

ProviderScope(scope) == {ProviderName[s] : s \in scope}

(* No two symbols of the scope may share a provider symbol, and the scope  *)
(* must fit the request budget.                                            *)
ContractHolds(scope) ==
  /\ scope # {}
  /\ Cardinality(ProviderScope(scope)) = Cardinality(scope)
  /\ Cardinality(scope) <= BatchSize * MaxPriceRequests

FailureStatus(outcome) ==
  CASE outcome = "denied" -> "AUTH_BLOCKED"
    [] outcome = "limited" -> "RATE_LIMITED"
    [] outcome \in {"lost", "unavailable"} -> "TRANSIENT"
    [] OTHER -> "SCHEMA_INVALID"

Failed(status, sent) == [status |-> status, sent |-> sent, prices |-> {}]

\* Mutant: a repeated or unrequested row is not noticed
JudgePerSymbol(scope, rows, headers, sent) ==
  LET seen == {s \in scope : \E i \in DOMAIN rows :
                 rows[i].quality = "good" /\ rows[i].symbol = ProviderName[s]}
  IN  IF seen = scope /\ headers /\ \A i \in DOMAIN rows : rows[i].quality = "good"
      THEN [status |-> PassStatus, sent |-> sent, prices |-> seen]
      ELSE Failed("STALE_OR_PARTIAL", sent)

(* The rows of all batches against the whole scope: a row counts once, for *)
(* the first row of its symbol; a later one is a duplicate even in another *)
(* batch; a symbol that was not asked for is invalid.                      *)
Judge(scope, rows, headers, sent) ==
  LET asked(i) == rows[i].symbol \in ProviderScope(scope)
      first(i) == asked(i) /\ \A j \in 1..(i - 1) : rows[j].symbol # rows[i].symbol
      has(q)   == \E i \in DOMAIN rows : first(i) /\ rows[i].quality = q
      seen     == {s \in scope : \E i \in DOMAIN rows :
                     first(i) /\ rows[i].quality = "good" /\ rows[i].symbol = ProviderName[s]}
      strange   == \E i \in DOMAIN rows : ~asked(i)
      duplicate == \E i \in DOMAIN rows : asked(i) /\ ~first(i)
  IN  IF duplicate \/ has("foreign") THEN Failed("SOURCE_CONFLICT", sent)
      ELSE IF strange \/ has("invalid") \/ ~headers THEN Failed("SCHEMA_INVALID", sent)
      ELSE IF has("undated") \/ has("future") \/ has("outside") \/ scope # seen
           THEN Failed("STALE_OR_PARTIAL", sent)
      ELSE [status |-> PassStatus, sent |-> sent, prices |-> seen]

(* The requests of a scope, token and calendar first, that did not end "ok". *)
Broken(scope, reply) ==
  {i \in 1..(2 + PriceRequests(scope)) : reply.http[i] # "ok"}

(* The requests are sent in order; the first that does not end "ok" ends   *)
(* the collection: the run-level circuit breaker.                          *)
Collect(scope, reply) ==
  LET last   == 2 + PriceRequests(scope)
      broken == Broken(scope, reply)
      at     == Min(broken)
  IN  IF ~ContractHolds(scope) THEN Failed("SCHEMA_INVALID", 0)
      ELSE IF broken # {}
           THEN Failed(FailureStatus(reply.http[at]),
                       IF reply.http[at] = "unsent" THEN at - 1 ELSE at)
      ELSE Judge(scope, FlattenSeq(SubSeq(reply.rows, 1, PriceRequests(scope))),
                 reply.headers, last)
-----------------------------------------------------------------------------
(* Properties *)

(* The whole scope was answered: every request, with every header set, and *)
(* with exactly one good row for each symbol asked for and no other row,   *)
(* in whatever batch.                                                      *)
WholeScope(scope, reply) ==
  LET rows == FlattenSeq(SubSeq(reply.rows, 1, PriceRequests(scope)))
  IN  /\ ContractHolds(scope)
      /\ \A i \in 1..(2 + PriceRequests(scope)) : reply.http[i] = "ok"
      /\ reply.headers
      /\ Len(rows) = Cardinality(scope)
      /\ {rows[i].symbol : i \in DOMAIN rows} = ProviderScope(scope)
      /\ \A i \in DOMAIN rows : rows[i].quality = "good"

(* A pass means the whole scope, and then every symbol is published.       *)
(* Anything else is a failure that publishes no price, after no more than  *)
(* the budgeted requests, and after none when two symbols share a provider *)
(* symbol or the scope exceeds the budget                                  *)
(* (collect_toss_shadow_market_data).                                      *)
PassOver(scopes, replies) ==
  \A scope \in scopes, reply \in replies :
    LET c == Collect(scope, reply)
    IN  /\ c.status = PassStatus <=> WholeScope(scope, reply)
        /\ c.prices = IF c.status = PassStatus THEN scope ELSE {}
        /\ c.sent <= 2 + MaxPriceRequests
        /\ ~ContractHolds(scope) => c = Failed("SCHEMA_INVALID", 0)
=============================================================================
