------------------------- MODULE TossHandoffProofs -------------------------
(***************************************************************************)
(* Theorems of TossHandoff, for any number of polls, Stage3 files,         *)
(* replies, dispatches and rewrites.                                       *)
(*                                                                         *)
(* The sentinel of a Stage3 file is taken by one poll and given back by    *)
(* none, so at most one poll ever works on a file.  What that poll holds   *)
(* is a verdict about its own file or one that names none, and nothing     *)
(* about the file is in the archive before the poll puts its verdict       *)
(* there: what is published was archived, and a pass is contradicted by    *)
(* nothing.  A poll that ends as published has stored its receipt.  And a  *)
(* poll that has looked at the local file knows what it is about to        *)
(* replace there, unless it is one of the blind.                           *)
(***************************************************************************)
EXTENDS MCTossHandoff, FiniteSetTheorems, WellFoundedInduction, TLAPS

-----------------------------------------------------------------------------
(* The invariant.                                                          *)

\* A poll that has a result, and one that knows what it would replace
Past  == {"publish", "archive", "current", "alert", "receipt", "store", "finish"}
Aware == {"reserve"} \cup Inside
Steps == Outside \cup Inside

Polls == [at : Steps, src : Stage3 \cup {NoStage3}, nested : BOOLEAN,
          first : Shadows \cup {Absent}, prev : Shadows \cup {Absent},
          result : Shadows \cup {Absent}, published : BOOLEAN]

\* What the argument needs of the types
Types ==
  /\ poll \in [Pollers -> Polls]
  /\ sentinel \in [Stage3 -> {"none", "IN_PROGRESS", "SUCCESS", "FAILED"}]
  /\ collected \in [Stage3 -> Nat]
  /\ shadow \in Shadows \cup {Absent}
  /\ archive \subseteq Shadows
  /\ intact \subseteq Stage3

Works(p, s) == poll[p].at \in Inside /\ poll[p].src = s

\* A sentinel is taken once, by one poll; nothing is asked without it, and it
\* is given back by nobody
Owned ==
  /\ \A p \in Pollers : poll[p].at \in Inside =>
       poll[p].src \in Stage3 /\ sentinel[poll[p].src] # "none"
  /\ \A s \in Stage3 :
       /\ \A p, q \in Pollers : Works(p, s) /\ Works(q, s) => p = q
       /\ sentinel[s] = "none" => collected[s] = 0
       /\ collected[s] <= 1
       /\ sentinel[s] = "SUCCESS" => \A p \in Pollers : ~Works(p, s)
  /\ \A p \in Pollers :
       /\ poll[p].at \in {"again", "reserve"} => poll[p].src \in Stage3
       /\ poll[p].at \in {"window", "network"} => collected[poll[p].src] = 0

\* What a poll holds is a verdict; a pass is about its own Stage3 file, for
\* which Toss was asked
Judgement ==
  \A p \in Pollers :
    /\ poll[p].at \in Past =>
         /\ poll[p].result \in Shadows /\ Terminal(poll[p].result)
         /\ poll[p].result.src \in {poll[p].src, NoStage3}
         /\ poll[p].result.status = PassStatus =>
              poll[p].result.src = poll[p].src /\ collected[poll[p].src] = 1
    /\ poll[p].at \in {"publish", "archive", "current"} => poll[p].result.alert = "PENDING"
    /\ poll[p].at \in {"receipt", "store", "finish"} => poll[p].result.alert # "PENDING"
    /\ poll[p].at \notin {"alert", "finish"} => ~poll[p].published

Pending(r) == [r EXCEPT !.alert = "PENDING"]

\* What was, is or will be the current shadow is in the archive, and what a poll
\* finishes with as published is a stored receipt
Kept ==
  /\ shadow # Absent => Pending(shadow) \in archive
  /\ \A p \in Pollers :
       /\ poll[p].at \in Aware /\ poll[p].prev # Absent => Pending(poll[p].prev) \in archive
       /\ poll[p].at = "finish" /\ poll[p].published => poll[p].result \in receipts
       /\ \/ poll[p].at \in {"current", "receipt", "store"}
          \/ poll[p].at \in {"alert", "finish"} /\ poll[p].published
          => Pending(poll[p].result) \in archive

\* The archive holds nothing about a Stage3 file before its sentinel is taken
Reserved == \A r \in archive : r.src \in Stage3 => sentinel[r.src] # "none"

\* ... nor before the poll that works on it archives its own result, and
\* afterwards nothing that contradicts a pass
Agrees(at, src, result, kept) ==
  \A r \in kept :
    /\ at \in {"window", "network", "publish", "archive"} => r.src # src
    /\ at \in Past /\ result.status = PassStatus /\ r.src = src => r.status = PassStatus

Consonant ==
  \A p \in Pollers : Agrees(poll[p].at, poll[p].src, poll[p].result, archive)

\* A poll that is about to write its own diagnostic, and is not blind, finds
\* nothing terminal
Blameless ==
  \A p \in Pollers :
    poll[p].at = "write" /\ p \notin blind /\ ~Terminal(poll[p].prev) => ~Terminal(local)

IInv ==
  /\ Types /\ Owned /\ Judgement /\ Kept /\ Reserved /\ Consonant
  /\ SuccessHasEvidence /\ Blameless

-----------------------------------------------------------------------------
(* What a collection returns.                                              *)

LEMMA JudgeVerdict ==
  ASSUME NEW scope, NEW rows, NEW headers, NEW sent
  PROVE  /\ Judge(scope, rows, headers, sent).status \in {PassStatus} \cup FailureStatuses
         /\ Judge(scope, rows, headers, sent).sent = sent
BY DEF Judge, Failed, PassStatus, FailureStatuses

\* A collection ends in a pass or a failure, and only one that sent requests
\* can be a pass
LEMMA CollectVerdict ==
  ASSUME NEW scope, IsFiniteSet(scope), NEW reply
  PROVE  /\ Collect(scope, reply).status \in {PassStatus} \cup FailureStatuses
         /\ Collect(scope, reply).status = PassStatus => Collect(scope, reply).sent > 0
<1> DEFINE last == 2 + PriceRequests(scope)
           rows == FlattenSeq(SubSeq(reply.rows, 1, PriceRequests(scope)))
<1>1. last > 0
  BY FS_CardinalityType, QuoteBounds DEF PriceRequests
<1>2. /\ Judge(scope, rows, reply.headers, last).status \in {PassStatus} \cup FailureStatuses
      /\ Judge(scope, rows, reply.headers, last).sent = last
  BY JudgeVerdict
<1>3. \A o : FailureStatus(o) \in FailureStatuses
  BY DEF FailureStatus, FailureStatuses
<1>4. PassStatus \notin FailureStatuses
  BY DEF PassStatus, FailureStatuses
<1>5. CASE ~ContractHolds(scope)
  BY <1>5 DEF Collect, Failed, FailureStatuses, PassStatus
<1>6. CASE ContractHolds(scope) /\ Broken(scope, reply) # {}
  BY <1>3, <1>4, <1>6 DEF Collect, Failed
<1>7. CASE ContractHolds(scope) /\ Broken(scope, reply) = {}
  <2>1. Collect(scope, reply) = Judge(scope, rows, reply.headers, last)
    BY <1>7 DEF Collect
  <2> HIDE DEF last, rows
  <2> QED
    BY <1>1, <1>2, <2>1
<1> QED
  BY <1>5, <1>6, <1>7

LEMMA ScopeFinite == ASSUME NEW s \in Stage3 PROVE IsFiniteSet(ToSet(RowsOf[s]))
<1>1. RowsOf[s] \in Seq(Int)
  BY HandoffBounds
<1>2. IsFiniteSet(1..Len(RowsOf[s]))
  BY <1>1, FS_Interval
<1>3. RowsOf[s] \in Surjection(1..Len(RowsOf[s]), ToSet(RowsOf[s]))
  BY <1>1 DEF ToSet, Surjection
<1> QED
  BY <1>2, <1>3, FS_Surjection

-----------------------------------------------------------------------------
(* Shadows.                                                                *)

LEMMA ShadowForm ==
  ASSUME NEW src \in Stage3 \cup {NoStage3}, NEW status \in Statuses, NEW alert \in Alerts,
         NEW r, r = [src |-> src, status |-> status, alert |-> alert]
  PROVE  r \in Shadows /\ r.src = src /\ r.status = status /\ r.alert = alert
BY DEF Shadows

LEMMA ShadowWith ==
  ASSUME NEW r \in Shadows, NEW status \in Statuses, NEW alert \in Alerts, NEW t
  PROVE  /\ t = [r EXCEPT !.status = status] =>
              t \in Shadows /\ t.src = r.src /\ t.status = status /\ t.alert = r.alert
         /\ t = [r EXCEPT !.alert = alert] =>
              t \in Shadows /\ t.src = r.src /\ t.status = r.status /\ Pending(t) = Pending(r)
BY DEF Shadows, Pending

LEMMA ShadowFacts ==
  ASSUME NEW r \in Shadows
  PROVE  /\ r.src \in Stage3 \cup {NoStage3} /\ r.status \in Statuses /\ r.alert \in Alerts
         /\ r # Absent
         /\ Pending(r) \in Shadows /\ Pending(r).src = r.src /\ Pending(r).status = r.status
         /\ Pending(r) = [src |-> r.src, status |-> r.status, alert |-> "PENDING"]
         /\ r.alert = "PENDING" => Pending(r) = r
BY DEF Shadows, Pending, Statuses, Alerts, Absent, FailureStatuses, PassStatus

LEMMA StatusFacts ==
  /\ PassStatus \notin FailureStatuses
  /\ PassStatus \in Statuses /\ FailureStatuses \subseteq Statuses
  /\ ~Terminal(Absent)
BY DEF PassStatus, FailureStatuses, Statuses, Absent, Terminal

-----------------------------------------------------------------------------
(* What a step does to a poll, field by field.                             *)

Moves(p, at, src, prev, result, published) ==
  /\ poll' \in [Pollers -> Polls]
  /\ \A q \in Pollers \ {p} : poll'[q] = poll[q]
  /\ poll'[p].at = at /\ poll'[p].src = src /\ poll'[p].prev = prev
  /\ poll'[p].result = result /\ poll'[p].published = published

LEMMA MoveGoto ==
  ASSUME Types, NEW p \in Pollers, NEW at \in Steps, Goto(p, at)
  PROVE  Moves(p, at, poll[p].src, poll[p].prev, poll[p].result, poll[p].published)
BY DEF Types, Goto, Polls, Moves

LEMMA MoveJudged ==
  ASSUME Types, NEW p \in Pollers, NEW at \in Steps, NEW r \in Shadows, Judged(p, at, r)
  PROVE  Moves(p, at, poll[p].src, poll[p].prev, r, poll[p].published)
BY DEF Types, Judged, Polls, Moves

\* The poll gives up what it had, or has nothing left but a diagnostic
Ends(p) ==
  \E at \in {"idle", "look", "write"} : \E src, prev, result :
    Moves(p, at, src, prev, result, FALSE)

\* The poll writes the local file, perhaps, and has not looked at it
Writes(p) == poll'[p].at # "write" /\ \E r : MaySaveLocal(p, r)

LEMMA MoveEnd ==
  ASSUME Types, NEW p \in Pollers, End(p)
  PROVE  Ends(p) /\ poll'[p].at # "write"
<1>1. Moves(p, "idle", NoStage3, Absent, Absent, FALSE)
  BY DEF Types, End, Idle, Polls, Moves, Steps, Outside
<1> QED
  BY <1>1 DEF Ends, Moves

LEMMA MovePersist ==
  ASSUME Types, NEW p \in Pollers, NEW nested \in BOOLEAN, NEW prev \in Shadows \cup {Absent},
         NEW result \in Shadows \cup {Absent}, Persist(p, nested, prev, result)
  PROVE  Ends(p) /\ poll'[p].at # "write"
<1>1. Moves(p, "look", NoStage3, prev, result, FALSE)
  BY DEF Types, Persist, Idle, Polls, Moves, Steps, Outside
<1> QED
  BY <1>1 DEF Ends, Moves

LEMMA MovePersistAgain ==
  ASSUME Types, NEW p \in Pollers, PersistAgain(p)
  PROVE  Ends(p) /\ poll'[p].at # "write"
<1>1. poll[p].first \in Shadows \cup {Absent} /\ poll[p].result \in Shadows \cup {Absent}
  BY DEF Types, Polls
<1> QED
  BY <1>1, MoveEnd, MovePersist DEF PersistAgain

\* The diagnostics are shadows
LEMMA Diagnostics == NotRun \in Shadows /\ DriveFailure \in Shadows
BY DEF NotRun, DriveFailure, Shadows, Statuses, Alerts, FailureStatuses

LEMMA MoveFailOpen ==
  ASSUME Types, NEW p \in Pollers, FailOpen(p)
  PROVE  Ends(p) /\ poll'[p].at # "write"
BY Diagnostics, MovePersist DEF FailOpen

LEMMA MovePublished ==
  ASSUME Types, NEW p \in Pollers, NEW at \in Steps,
         poll' = [poll EXCEPT ![p].at = at, ![p].published = TRUE]
  PROVE  Moves(p, at, poll[p].src, poll[p].prev, poll[p].result, TRUE)
BY DEF Types, Polls, Moves

Fails(p, status) ==
  \E r \in Shadows :
    /\ r.status = status /\ r.src = poll[p].result.src
    /\ Moves(p, "alert", poll[p].src, poll[p].prev, r, poll[p].published)

LEMMA MoveFails ==
  ASSUME Types, NEW p \in Pollers, poll[p].result \in Shadows, NEW status \in FailureStatuses,
         Judged(p, "alert", [poll[p].result EXCEPT !.status = status])
  PROVE  Fails(p, status)
<1>1. status \in Statuses /\ "PENDING" \in Alerts /\ "alert" \in Steps
  BY DEF Statuses, Alerts, Steps, Inside, Past
<1>2. PICK r : r = [poll[p].result EXCEPT !.status = status]
  OBVIOUS
<1>3. r \in Shadows /\ r.src = poll[p].result.src /\ r.status = status
  BY <1>1, <1>2, ShadowWith
<1> QED
  BY <1>1, <1>2, <1>3, MoveJudged DEF Fails

\* No symbol has two rows, no row is about anything else, none has a flaw, and
\* every symbol of the scope has one
EachOnce(scope, rows) ==
  /\ \A i \in DOMAIN rows :
       /\ \E s \in scope : rows[i].symbol = ProviderName[s]
       /\ \A j \in 1..(i - 1) : rows[j].symbol # rows[i].symbol
       /\ rows[i].quality \notin Qualities \ {"good"}
  /\ \A s \in scope : \E i \in DOMAIN rows :
       rows[i].symbol = ProviderName[s] /\ rows[i].quality = "good"

\* A pass means the whole scope: every request was answered, every header set
\* was there, the symbols of the scope have the prices, no symbol has two rows,
\* no row is about anything else, and none has a flaw
THEOREM PassIsTheWholeScope ==
  ASSUME NEW scope, NEW reply, NEW rows,
         rows = FlattenSeq(SubSeq(reply.rows, 1, PriceRequests(scope))),
         Collect(scope, reply).status = PassStatus
  PROVE  /\ ContractHolds(scope)
         /\ \A i \in 1..(2 + PriceRequests(scope)) : reply.http[i] = "ok"
         /\ reply.headers
         /\ Collect(scope, reply).prices = scope
         /\ EachOnce(scope, rows)
<1> DEFINE verdict == Judge(scope, rows, reply.headers, 2 + PriceRequests(scope))
<1>1. \A status \in FailureStatuses : \A n : Failed(status, n).status # PassStatus
  BY StatusFacts DEF Failed
<1>2. \A o : FailureStatus(o) \in FailureStatuses
  BY DEF FailureStatus, FailureStatuses
<1>3. ContractHolds(scope) /\ Broken(scope, reply) = {} /\ Collect(scope, reply) = verdict
  BY <1>1, <1>2 DEF Collect, FailureStatuses
<1>4. \A i \in 1..(2 + PriceRequests(scope)) : reply.http[i] = "ok"
  BY <1>3 DEF Broken
<1>5. verdict.status = PassStatus
  BY <1>3
<1>6. reply.headers
  BY <1>5 DEF Judge, Failed, FailureStatuses, PassStatus
<1>7. verdict.prices = scope
  BY <1>5 DEF Judge, Failed, FailureStatuses, PassStatus
<1>8. /\ \A i \in DOMAIN rows :
           /\ rows[i].symbol \in ProviderScope(scope)
           /\ \A j \in 1..(i - 1) : rows[j].symbol # rows[i].symbol
           /\ rows[i].quality \notin Qualities \ {"good"}
      /\ \A s \in scope : \E i \in DOMAIN rows :
           rows[i].symbol = ProviderName[s] /\ rows[i].quality = "good"
  BY <1>5 DEF Judge, Failed, FailureStatuses, PassStatus, Qualities
<1>9. EachOnce(scope, rows)
  BY <1>8 DEF EachOnce, ProviderScope
<1> HIDE DEF verdict
<1> QED
  BY <1>3, <1>4, <1>6, <1>7, <1>9

\* The whole scope is a pass: a complete answer without a flaw is never refused
THEOREM WholeScopePasses ==
  ASSUME NEW scope, NEW reply, NEW rows,
         rows = FlattenSeq(SubSeq(reply.rows, 1, PriceRequests(scope))),
         ContractHolds(scope), reply.headers,
         \A i \in 1..(2 + PriceRequests(scope)) : reply.http[i] = "ok",
         EachOnce(scope, rows), \A i \in DOMAIN rows : rows[i].quality = "good"
  PROVE  Collect(scope, reply).status = PassStatus
<1> DEFINE verdict == Judge(scope, rows, reply.headers, 2 + PriceRequests(scope))
<1>1. Broken(scope, reply) = {}
  BY DEF Broken
<1>2. Collect(scope, reply) = verdict
  BY <1>1 DEF Collect
<1>3. \A i \in DOMAIN rows :
        /\ rows[i].symbol \in ProviderScope(scope)
        /\ \A j \in 1..(i - 1) : rows[j].symbol # rows[i].symbol
        /\ rows[i].quality = "good"
  BY DEF ProviderScope, EachOnce
<1>4. \A s \in scope : \E i \in DOMAIN rows : rows[i].symbol = ProviderName[s]
  BY DEF EachOnce
<1>5. verdict.status = PassStatus
  BY <1>3, <1>4 DEF Judge
<1> HIDE DEF verdict
<1> QED
  BY <1>2, <1>5

\* A scope that a collection accepts fits the request budget.
LEMMA BudgetFits ==
  ASSUME NEW scope, IsFiniteSet(scope), ContractHolds(scope)
  PROVE  PriceRequests(scope) \in 0..MaxPriceRequests
<1> DEFINE n        == Cardinality(scope)
           requests == (n + BatchSize - 1) \div BatchSize
<1>1. n \in Nat /\ n <= BatchSize * MaxPriceRequests
  BY FS_CardinalityType DEF ContractHolds
<1>2. BatchSize \in Nat \ {0} /\ MaxPriceRequests \in Nat
  BY QuoteBounds
<1> HIDE DEF n
<1>3. requests \in Nat /\ BatchSize * requests <= n + BatchSize - 1
  BY <1>1, <1>2
<1> HIDE DEF requests
<1>4. ASSUME MaxPriceRequests < requests PROVE FALSE
  <2>1. BatchSize * (MaxPriceRequests + 1) <= BatchSize * requests
    BY <1>2, <1>3, <1>4
  <2>2. BatchSize * (MaxPriceRequests + 1) = BatchSize * MaxPriceRequests + BatchSize
    BY <1>2
  <2>3. BatchSize * MaxPriceRequests \in Int /\ BatchSize * requests \in Int
    BY <1>2, <1>3
  <2> QED
    BY <1>1, <1>2, <1>3, <2>1, <2>2, <2>3
<1>5. PriceRequests(scope) = requests
  BY DEF PriceRequests, requests, n
<1> QED
  BY <1>2, <1>3, <1>4, <1>5

\* Requests are numbered, so a non-empty set of them has a first.
LEMMA FirstRequest ==
  ASSUME NEW numbers \in SUBSET Nat, numbers # {}
  PROVE  Min(numbers) \in numbers /\ \A n \in numbers : Min(numbers) <= n
<1> DEFINE Before == OpToRel(<, Nat)
<1>1. IsWellFoundedOn(Before, Nat)
  BY NatLessThanWellFounded
<1>2. \A m, n \in Nat : <<m, n>> \in Before <=> m < n
  BY DEF OpToRel
<1> HIDE DEF Before
<1>3. numbers \subseteq Nat
  OBVIOUS
<1>4. PICK n \in numbers : \A m \in numbers : <<m, n>> \notin Before
  BY <1>1, <1>3, WFMin
<1>5. ASSUME NEW m \in numbers PROVE n <= m
  <2>1. m \in Nat /\ n \in Nat /\ ~(m < n)
    BY <1>2, <1>3, <1>4
  <2> QED
    BY <2>1
<1> QED
  BY <1>5 DEF Min

\* A collection keeps to the request budget, and one that fails publishes no price.
THEOREM FailurePublishesNothing ==
  ASSUME NEW scope, IsFiniteSet(scope), NEW reply
  PROVE  /\ Collect(scope, reply).sent \in 0..(2 + MaxPriceRequests)
         /\ Collect(scope, reply).status # PassStatus => Collect(scope, reply).prices = {}
<1> DEFINE last   == 2 + PriceRequests(scope)
           rows   == FlattenSeq(SubSeq(reply.rows, 1, PriceRequests(scope)))
           broken == Broken(scope, reply)
           at     == Min(broken)
<1>1. MaxPriceRequests \in Nat
  BY QuoteBounds
<1>2. CASE ~ContractHolds(scope)
  BY <1>1, <1>2 DEF Collect, Failed
<1>3. ASSUME ContractHolds(scope) PROVE last \in 2..(2 + MaxPriceRequests)
  BY <1>1, <1>3, BudgetFits
<1>4. CASE ContractHolds(scope) /\ broken # {}
  <2>1. broken \subseteq 1..last
    BY DEF Broken
  <2>2. at \in 1..last
    <3> HIDE DEF broken, last
    <3>1. broken \in SUBSET Nat /\ broken # {}
      BY <1>3, <1>4, <2>1
    <3>2. Min(broken) \in broken
      BY <3>1, FirstRequest
    <3> QED
      BY <2>1, <3>2
  <2>3. PICK n \in {at - 1, at} :
          Collect(scope, reply) = Failed(FailureStatus(reply.http[at]), n)
    BY <1>4 DEF Collect
  <2> HIDE DEF last, at, broken
  <2> QED
    BY <1>1, <1>3, <1>4, <2>2, <2>3 DEF Failed
<1>5. CASE ContractHolds(scope) /\ broken = {}
  <2>1. Collect(scope, reply) = Judge(scope, rows, reply.headers, last)
    BY <1>5 DEF Collect
  <2> HIDE DEF rows, last, broken
  <2>2. Judge(scope, rows, reply.headers, last).sent = last
    BY JudgeVerdict
  <2>3. \/ Judge(scope, rows, reply.headers, last).status = PassStatus
        \/ Judge(scope, rows, reply.headers, last).prices = {}
    BY DEF Judge, Failed
  <2> QED
    BY <1>1, <1>3, <1>5, <2>1, <2>2, <2>3
<1> QED
  BY <1>2, <1>4, <1>5

-----------------------------------------------------------------------------
(* The rows of the batches, one after another.                             *)

Reception == [symbol : Int, quality : Qualities]

Joins(joined, batches) ==
  joined = [i \in 1..Len(batches) |->
              IF i = 1 THEN batches[i] ELSE joined[i - 1] \o batches[i]]

\* However the joining is done, what is joined are rows
LEMMA JoinTyped ==
  ASSUME NEW R, NEW batches \in Seq(Seq(R)), NEW joined, Joins(joined, batches)
  PROVE  joined \in [1..Len(batches) -> Seq(R)]
<1> DEFINE bad == {i \in 1..Len(batches) : joined[i] \notin Seq(R)}
<1>1. \A i \in 1..Len(batches) :
        joined[i] = IF i = 1 THEN batches[i] ELSE joined[i - 1] \o batches[i]
  BY DEF Joins
<1>2. \A i \in 1..Len(batches) : batches[i] \in Seq(R)
  OBVIOUS
<1>3. Len(batches) \in Nat
  OBVIOUS
<1>4. bad = {}
  <2>1. SUFFICES ASSUME bad # {} PROVE FALSE
    OBVIOUS
  <2>2. bad \in SUBSET Nat
    BY <1>3
  <2>3. Min(bad) \in bad /\ \A i \in bad : Min(bad) <= i
    BY <2>1, <2>2, FirstRequest
  <2>4. PICK n \in bad : \A i \in bad : n <= i
    BY <2>3
  <2>5. n # 1
    BY <1>1, <1>2
  <2>6. n - 1 \in 1..Len(batches) /\ n - 1 \notin bad
    BY <1>3, <2>4, <2>5
  <2>7. joined[n] = joined[n - 1] \o batches[n]
    BY <1>1, <2>5
  <2>8. joined[n - 1] \in Seq(R) /\ batches[n] \in Seq(R)
    BY <1>2, <2>6
  <2>9. joined[n] \in Seq(R)
    BY <2>7, <2>8
  <2> QED
    BY <2>9
<1>5. \E f : joined = [i \in 1..Len(batches) |-> f[i]]
  <2> DEFINE f == [i \in 1..Len(batches) |->
                    IF i = 1 THEN batches[i] ELSE joined[i - 1] \o batches[i]]
  <2>1. joined = [i \in 1..Len(batches) |-> f[i]]
    BY DEF Joins
  <2> QED
    BY <2>1
<1> QED
  BY <1>4, <1>5

\* The joining can be done, batch by batch
LEMMA JoinExists ==
  ASSUME NEW R, NEW batches \in Seq(Seq(R))
  PROVE  \E joined : Joins(joined, batches)
<1> DEFINE N == Len(batches)
           Partly(n, joined) ==
             /\ joined \in [1..N -> Seq(R)]
             /\ \A i \in 1..N : i <= n =>
                  joined[i] = IF i = 1 THEN batches[i] ELSE joined[i - 1] \o batches[i]
           bad == {n \in Nat : ~\E joined : Partly(n, joined)}
<1>1. N \in Nat /\ \A i \in 1..N : batches[i] \in Seq(R)
  OBVIOUS
<1> HIDE DEF N
<1>2. \E joined : Partly(0, joined)
  <2> DEFINE none == [i \in 1..N |-> <<>>]
  <2>1. none \in [1..N -> Seq(R)]
    <3>1. <<>> \in Seq(R)
      OBVIOUS
    <3> QED
      BY <3>1
  <2>2. \A i \in 1..N : ~(i <= 0)
    BY <1>1
  <2> HIDE DEF none
  <2>3. Partly(0, none)
    BY <2>1, <2>2
  <2> QED
    BY <2>3
<1>3. ASSUME NEW n \in Nat, NEW joined, Partly(n, joined) PROVE \E more : Partly(n + 1, more)
  <2> DEFINE more == [i \in 1..N |->
                        IF i <= n THEN joined[i]
                        ELSE IF i = 1 THEN batches[i] ELSE joined[i - 1] \o batches[i]]
  <2>1. more \in [1..N -> Seq(R)]
    <3>1. ASSUME NEW i \in 1..N, i # 1 PROVE joined[i - 1] \o batches[i] \in Seq(R)
      <4>1. i - 1 \in 1..N
        BY <1>1, <3>1
      <4>2. joined[i - 1] \in Seq(R) /\ batches[i] \in Seq(R)
        BY <1>1, <1>3, <4>1
      <4> QED
        BY <4>2
    <3>2. ASSUME NEW i \in 1..N PROVE more[i] \in Seq(R)
      <4>1. joined[i] \in Seq(R) /\ batches[i] \in Seq(R)
        BY <1>1, <1>3
      <4> QED
        BY <3>1, <4>1
    <3> QED
      BY <3>2
  <2>2. ASSUME NEW i \in 1..N, i <= n + 1
        PROVE  more[i] = IF i = 1 THEN batches[i] ELSE more[i - 1] \o batches[i]
    <3>1. CASE i = 1
      BY <1>3, <3>1
    <3>2. CASE i # 1
      <4>1. i - 1 \in 1..N /\ i - 1 <= n
        BY <1>1, <2>2, <3>2
      <4>2. more[i - 1] = joined[i - 1]
        BY <4>1
      <4>3. CASE i <= n
        <5>1. joined[i] = joined[i - 1] \o batches[i]
          BY <1>3, <3>2, <4>3
        <5> QED
          BY <3>2, <4>2, <4>3, <5>1
      <4>4. CASE ~(i <= n)
        BY <3>2, <4>2, <4>4
      <4> QED
        BY <4>3, <4>4
    <3> QED
      BY <3>1, <3>2
  <2> HIDE DEF more
  <2> QED
    BY <2>1, <2>2
<1> HIDE DEF Partly
<1>4. bad = {}
  <2>1. SUFFICES ASSUME bad # {} PROVE FALSE
    OBVIOUS
  <2>2. bad \in SUBSET Nat
    OBVIOUS
  <2>3. Min(bad) \in bad /\ \A m \in bad : Min(bad) <= m
    BY <2>1, <2>2, FirstRequest
  <2>4. PICK n \in bad : \A m \in bad : n <= m
    BY <2>3
  <2>5. n # 0
    BY <1>2
  <2>6. n - 1 \in Nat /\ n - 1 \notin bad
    BY <2>4, <2>5
  <2>7. \E more : Partly((n - 1) + 1, more)
    BY <1>3, <2>6
  <2> QED
    BY <2>4, <2>7
<1>5. PICK joined : Partly(N, joined)
  BY <1>1, <1>4
<1>6. Joins(joined, batches)
  <2>1. joined = [i \in 1..N |-> joined[i]]
    BY <1>5 DEF Partly
  <2>2. ASSUME NEW i \in 1..N
        PROVE  joined[i] = IF i = 1 THEN batches[i] ELSE joined[i - 1] \o batches[i]
    <3>1. i <= N
      BY <1>1
    <3> QED
      BY <1>5, <3>1 DEF Partly
  <2> QED
    BY <2>1, <2>2 DEF Joins, N
<1> QED
  BY <1>6

LEMMA FlattenTyped ==
  ASSUME NEW R, NEW batches \in Seq(Seq(R))
  PROVE  FlattenSeq(batches) \in Seq(R)
<1>1. CASE Len(batches) = 0
  <2>1. batches = <<>>
    BY <1>1
  <2>2. FlattenSeq(batches) = batches
    BY <1>1 DEF FlattenSeq
  <2>3. <<>> \in Seq(R)
    OBVIOUS
  <2> QED
    BY <2>1, <2>2, <2>3, Zenon
<1>2. CASE Len(batches) # 0
  <2>1. PICK joined : Joins(joined, batches)
    BY JoinExists
  <2>2. joined = [i \in 1..Len(batches) |->
                    IF i = 1 THEN batches[i] ELSE joined[i - 1] \o batches[i]]
    BY <2>1, Zenon DEF Joins
  <2>3. \E flatten :
          /\ flatten = [i \in 1..Len(batches) |->
                          IF i = 1 THEN batches[i] ELSE flatten[i - 1] \o batches[i]]
          /\ FlattenSeq(batches) = flatten[Len(batches)]
    BY <1>2, <2>2, Zenon DEF FlattenSeq
  <2>4. PICK flatten : Joins(flatten, batches) /\ FlattenSeq(batches) = flatten[Len(batches)]
    BY <2>3, Zenon DEF Joins
  <2>5. flatten \in [1..Len(batches) -> Seq(R)] /\ Len(batches) \in Nat
    BY <2>4, JoinTyped
  <2>6. Len(batches) \in 1..Len(batches)
    BY <1>2, <2>5
  <2>7. flatten[Len(batches)] \in Seq(R)
    BY <2>5, <2>6
  <2> QED
    BY <2>4, <2>7, Zenon
<1> QED
  BY <1>1, <1>2

\* A scope of which each symbol has one row, and that has no other rows, has as
\* many rows as symbols; and one that has as many has each once
LEMMA RowsCount ==
  ASSUME NEW scope, IsFiniteSet(scope), NEW rows \in Seq(Reception),
         Cardinality(ProviderScope(scope)) = Cardinality(scope),
         {rows[i].symbol : i \in DOMAIN rows} = ProviderScope(scope)
  PROVE  Len(rows) = Cardinality(scope) <=>
           \A i \in DOMAIN rows : \A j \in 1..(i - 1) : rows[j].symbol # rows[i].symbol
<1> DEFINE n == Len(rows)
           f == [i \in 1..n |-> rows[i].symbol]
<1>1. n \in Nat /\ DOMAIN rows = 1..n
  OBVIOUS
<1>2. IsFiniteSet(1..n) /\ Cardinality(1..n) = n
  BY <1>1, FS_Interval
<1>3. f \in Surjection(1..n, ProviderScope(scope))
  BY <1>1 DEF Surjection
<1>4. Cardinality(ProviderScope(scope)) = n <=> f \in Injection(1..n, ProviderScope(scope))
  BY <1>2, <1>3, FS_Surjection
<1>5. f \in Injection(1..n, ProviderScope(scope)) <=>
        \A i \in 1..n : \A j \in 1..(i - 1) : rows[j].symbol # rows[i].symbol
  <2>1. ASSUME f \in Injection(1..n, ProviderScope(scope)), NEW i \in 1..n, NEW j \in 1..(i - 1)
        PROVE  rows[j].symbol # rows[i].symbol
    <3>1. j \in 1..n /\ j # i
      BY <1>1, <2>1
    <3> QED
      BY <2>1, <3>1 DEF Injection, IsInjective
  <2>2. ASSUME \A i \in 1..n : \A j \in 1..(i - 1) : rows[j].symbol # rows[i].symbol
        PROVE  f \in Injection(1..n, ProviderScope(scope))
    <3>1. ASSUME NEW i \in 1..n, NEW j \in 1..n, i # j PROVE f[i] # f[j]
      <4>1. i \in 1..(j - 1) \/ j \in 1..(i - 1)
        BY <1>1, <3>1
      <4> QED
        BY <2>2, <4>1
    <3>2. f \in [1..n -> ProviderScope(scope)]
      BY <1>3 DEF Surjection
    <3> HIDE DEF f, n
    <3> QED
      BY <3>1, <3>2 DEF Injection, IsInjective
  <2> QED
    BY <2>1, <2>2
<1> HIDE DEF f
<1> QED
  BY <1>1, <1>4, <1>5

Covers(scope, rows) ==
  /\ Len(rows) = Cardinality(scope)
  /\ {rows[i].symbol : i \in DOMAIN rows} = ProviderScope(scope)
  /\ \A i \in DOMAIN rows : rows[i].quality = "good"

LEMMA CoversOnce ==
  ASSUME NEW scope, IsFiniteSet(scope), ContractHolds(scope), NEW rows \in Seq(Reception)
  PROVE  EachOnce(scope, rows) <=> Covers(scope, rows)
<1>1. Cardinality(ProviderScope(scope)) = Cardinality(scope)
  BY DEF ContractHolds
<1>2. ASSUME EachOnce(scope, rows) PROVE Covers(scope, rows)
  <2>1. ASSUME NEW i \in DOMAIN rows PROVE rows[i].quality = "good"
    <3>1. rows[i] \in Reception
      BY <2>1
    <3>2. rows[i].quality \in Qualities
      BY <3>1 DEF Reception
    <3> QED
      BY <1>2, <3>2 DEF EachOnce
  <2>2. {rows[i].symbol : i \in DOMAIN rows} = ProviderScope(scope)
    BY <1>2 DEF EachOnce, ProviderScope
  <2>3. \A i \in DOMAIN rows : \A j \in 1..(i - 1) : rows[j].symbol # rows[i].symbol
    BY <1>2 DEF EachOnce
  <2>4. Len(rows) = Cardinality(scope)
    BY <1>1, <2>2, <2>3, RowsCount
  <2> QED
    BY <2>1, <2>2, <2>4 DEF Covers
<1>3. ASSUME Covers(scope, rows) PROVE EachOnce(scope, rows)
  <2>1. {rows[i].symbol : i \in DOMAIN rows} = ProviderScope(scope)
    BY <1>3 DEF Covers
  <2>2. Len(rows) = Cardinality(scope)
    BY <1>3 DEF Covers
  <2>3. \A i \in DOMAIN rows : \A j \in 1..(i - 1) : rows[j].symbol # rows[i].symbol
    BY <1>1, <2>1, <2>2, RowsCount
  <2>4. \A i \in DOMAIN rows : rows[i].quality = "good"
    BY <1>3 DEF Covers
  <2>5. /\ \A i \in DOMAIN rows : \E s \in scope : rows[i].symbol = ProviderName[s]
        /\ \A s \in scope : \E i \in DOMAIN rows : rows[i].symbol = ProviderName[s]
    BY <2>1 DEF ProviderScope
  <2> QED
    BY <2>3, <2>4, <2>5 DEF EachOnce
<1> QED
  BY <1>2, <1>3

LEMMA WholeScopeIs ==
  ASSUME NEW scope, NEW reply, NEW rows,
         rows = FlattenSeq(SubSeq(reply.rows, 1, PriceRequests(scope)))
  PROVE  WholeScope(scope, reply) <=>
           /\ ContractHolds(scope)
           /\ \A i \in 1..(2 + PriceRequests(scope)) : reply.http[i] = "ok"
           /\ reply.headers
           /\ Covers(scope, rows)
BY Zenon DEF WholeScope, Covers

\* A pass means the whole scope and the whole scope is a pass; a pass publishes
\* every symbol, a failure none, and neither asks more than the budget, or asks
\* at all about a scope that breaks the local contract
THEOREM VerdictOfWholeScope ==
  ASSUME NEW scopes, NEW replies,
         \A scope \in scopes : IsFiniteSet(scope),
         \A scope \in scopes, reply \in replies :
           /\ reply.rows \in Seq(Seq(Reception))
           /\ PriceRequests(scope) <= Len(reply.rows)
  PROVE  PassOver(scopes, replies)
<1> SUFFICES ASSUME NEW scope \in scopes, NEW reply \in replies
             PROVE  LET c == Collect(scope, reply)
                    IN  /\ c.status = PassStatus <=> WholeScope(scope, reply)
                        /\ c.prices = IF c.status = PassStatus THEN scope ELSE {}
                        /\ c.sent <= 2 + MaxPriceRequests
                        /\ ~ContractHolds(scope) => c = Failed("SCHEMA_INVALID", 0)
  BY DEF PassOver
<1> PICK rows : rows = FlattenSeq(SubSeq(reply.rows, 1, PriceRequests(scope)))
  OBVIOUS
<1>1. IsFiniteSet(scope) /\ reply.rows \in Seq(Seq(Reception))
  OBVIOUS
<1>2. rows \in Seq(Reception)
  <2>1. PriceRequests(scope) \in Int /\ PriceRequests(scope) <= Len(reply.rows)
    BY <1>1, FS_CardinalityType, QuoteBounds DEF PriceRequests
  <2>2. SubSeq(reply.rows, 1, PriceRequests(scope)) \in Seq(Seq(Reception))
    BY <1>1, <2>1
  <2> QED
    BY <2>2, FlattenTyped
<1>3. Collect(scope, reply).status = PassStatus => WholeScope(scope, reply)
  <2> SUFFICES ASSUME Collect(scope, reply).status = PassStatus PROVE WholeScope(scope, reply)
    OBVIOUS
  <2>1. /\ ContractHolds(scope) /\ reply.headers /\ EachOnce(scope, rows)
        /\ \A i \in 1..(2 + PriceRequests(scope)) : reply.http[i] = "ok"
    BY PassIsTheWholeScope
  <2>2. Covers(scope, rows)
    BY <1>1, <1>2, <2>1, CoversOnce
  <2> QED
    BY <2>1, <2>2, WholeScopeIs
<1>4. WholeScope(scope, reply) => Collect(scope, reply).status = PassStatus
  <2> SUFFICES ASSUME WholeScope(scope, reply) PROVE Collect(scope, reply).status = PassStatus
    OBVIOUS
  <2>1. /\ ContractHolds(scope) /\ reply.headers /\ Covers(scope, rows)
        /\ \A i \in 1..(2 + PriceRequests(scope)) : reply.http[i] = "ok"
    BY WholeScopeIs
  <2>2. EachOnce(scope, rows)
    BY <1>1, <1>2, <2>1, CoversOnce
  <2>3. \A i \in DOMAIN rows : rows[i].quality = "good"
    BY <2>1 DEF Covers
  <2> QED
    BY <2>1, <2>2, <2>3, WholeScopePasses
<1>5. Collect(scope, reply).prices =
        IF Collect(scope, reply).status = PassStatus THEN scope ELSE {}
  <2>1. Collect(scope, reply).status = PassStatus => Collect(scope, reply).prices = scope
    BY PassIsTheWholeScope
  <2> QED
    BY <1>1, <2>1, FailurePublishesNothing
<1>6. Collect(scope, reply).sent <= 2 + MaxPriceRequests
  BY <1>1, FailurePublishesNothing, QuoteBounds
<1>7. ~ContractHolds(scope) => Collect(scope, reply) = Failed("SCHEMA_INVALID", 0)
  BY DEF Collect
<1> QED
  BY <1>3, <1>4, <1>5, <1>6, <1>7

LEMMA ScopeOfTwo ==
  ASSUME NEW scope \in AllScopes
  PROVE  IsFiniteSet(scope) /\ PriceRequests(scope) <= 2
<1> DEFINE n == Cardinality(scope)
<1>1. IsFiniteSet(scope)
  <2>1. \A k \in Nat : IsFiniteSet(1..k)
    BY FS_Interval
  <2> QED
    <3>1. IsFiniteSet(1..3)
      BY <2>1
    <3> QED
      BY <3>1, FS_Subset DEF AllScopes
<1>2. n \in 0..2
  BY <1>1, FS_CardinalityType DEF AllScopes
<1>3. BatchSize \in Nat \ {0}
  BY QuoteBounds
<1>4. PriceRequests(scope) = (n + BatchSize - 1) \div BatchSize
  BY DEF PriceRequests
<1> HIDE DEF n
<1> DEFINE requests == (n + BatchSize - 1) \div BatchSize
<1>5. requests \in Nat /\ BatchSize * requests <= n + BatchSize - 1
  BY <1>2, <1>3
<1> HIDE DEF requests
<1>6. ASSUME requests >= 3 PROVE FALSE
  <2>1. BatchSize * 3 <= BatchSize * requests
    BY <1>3, <1>5, <1>6
  <2>2. BatchSize * requests \in Int
    BY <1>3, <1>5
  <2> QED
    BY <1>2, <1>3, <1>5, <2>1, <2>2
<1> QED
  BY <1>1, <1>4, <1>5, <1>6 DEF requests

LEMMA RowsReceived ==
  /\ Rows \subseteq Reception
  /\ \A q \in Qualities : Row(1, q) \in Reception /\ Row(2, q) \in Reception
  /\ "good" \in Qualities
BY DEF Rows, Row, Reception, Qualities

LEMMA ReplyInTwoBatches ==
  ASSUME NEW reply \in AllReplies
  PROVE  reply.rows \in Seq(Seq(Reception)) /\ Len(reply.rows) = 2
<1>1. ASSUME NEW a \in Seq(Reception), NEW b \in Seq(Reception)
      PROVE  <<a, b>> \in Seq(Seq(Reception)) /\ Len(<<a, b>>) = 2
  BY <1>1
<1>2. \A r \in Reception : <<r>> \in Seq(Reception)
  OBVIOUS
<1>3. <<>> \in Seq(Reception)
  OBVIOUS
<1>4. ASSUME reply.rows = Whole.rows PROVE reply.rows \in Seq(Seq(Reception)) /\ Len(reply.rows) = 2
  <2>1. Whole.rows = <<<<Row(1, "good")>>, <<Row(2, "good")>>>>
    BY DEF Whole
  <2>2. <<Row(1, "good")>> \in Seq(Reception) /\ <<Row(2, "good")>> \in Seq(Reception)
    BY <1>2, RowsReceived
  <2> QED
    BY <1>1, <1>4, <2>1, <2>2
<1>5. ASSUME NEW a \in SeqOf(Rows, 2), NEW b \in SecondBatches, reply.rows = <<a, b>>
      PROVE  reply.rows \in Seq(Seq(Reception)) /\ Len(reply.rows) = 2
  <2>1. a \in Seq(Reception)
    <3>1. PICK m \in 0..2 : a \in [1..m -> Rows]
      BY DEF SeqOf
    <3>2. a \in [1..m -> Reception]
      BY <3>1, RowsReceived
    <3> QED
      BY <3>1, <3>2
  <2>2. b \in Seq(Reception)
    BY <1>2, <1>3, RowsReceived DEF SecondBatches
  <2> QED
    BY <1>1, <1>5, <2>1, <2>2
<1>6. reply.rows = Whole.rows \/ reply.rows \in SeqOf(Rows, 2) \X SecondBatches
  BY DEF AllReplies
<1> QED
  BY <1>4, <1>5, <1>6

\* The collector passes a reply if and only if it holds one usable row of every symbol
\* of the scope and nothing else, in whatever batch each came; a failure publishes no
\* price (collect_toss_shadow_market_data)
THEOREM PassIsWhole == Spec => []PassMeansWholeScope
<1>1. PassOver(AllScopes, AllReplies)
  BY ScopeOfTwo, ReplyInTwoBatches, VerdictOfWholeScope
<1>2. PassMeansWholeScope
  BY <1>1 DEF PassMeansWholeScope
<1> QED
  BY <1>2, PTL

-----------------------------------------------------------------------------
(* What each action does.                                                  *)

LEMMA ReadHandoffDoes ==
  ASSUME Types, NEW p \in Pollers, ReadHandoff(p)
  PROVE  /\ UNCHANGED <<shadow, archive, receipts, sentinel, collected>> /\ Writes(p)
         /\ poll[p].at = "idle"
         /\ \E s : Moves(p, "previous", s, poll[p].prev, poll[p].result, poll[p].published)
<1>1. PICK scope \in {HandoffScope, NoStage3} :
        poll' = [poll EXCEPT ![p].at = "previous", ![p].src = scope]
  BY DEF ReadHandoff
<1>2. scope \in Stage3 \cup {NoStage3}
  BY DEF HandoffScope, VerifiedScope, HashMatches, Types
<1>3. Moves(p, "previous", scope, poll[p].prev, poll[p].result, poll[p].published)
  BY <1>1, <1>2 DEF Types, Polls, Moves, Steps, Outside
<1>4. UNCHANGED evidence /\ poll[p].at = "idle"
  BY DEF ReadHandoff
<1> QED
  BY <1>3, <1>4 DEF evidence, remote, Writes, MaySaveLocal, Moves

LEMMA ReadPreviousDoes ==
  ASSUME Types, NEW p \in Pollers, ReadPrevious(p)
  PROVE  /\ UNCHANGED <<shadow, archive, receipts, sentinel, collected>> /\ Writes(p)
         /\ poll[p].at = "previous"
         /\ \/ Ends(p)
            \/ /\ poll[p].src \in Stage3
               /\ Moves(p, "again", poll[p].src, poll[p].prev, poll[p].result, poll[p].published)
<1> DEFINE s == poll[p].src
           result == IF s = NoStage3 THEN NotRun ELSE shadow
<1>1. UNCHANGED evidence /\ poll[p].at = "previous"
  BY DEF ReadPrevious
<1>2. shadow \in Shadows \cup {Absent} /\ result \in Shadows \cup {Absent}
  BY Diagnostics DEF Types
<1>3. CASE s = NoStage3 \/ MatchesStage3(shadow, s)
  <2>1. Persist(p, FALSE, shadow, result)
    BY <1>3 DEF ReadPrevious
  <2> HIDE DEF result
  <2>2. Ends(p) /\ poll'[p].at # "write"
    BY <1>2, <2>1, MovePersist
  <2> QED
    BY <1>1, <2>2 DEF evidence, remote, Writes, MaySaveLocal
<1>4. CASE ~(s = NoStage3 \/ MatchesStage3(shadow, s))
  <2>1. poll' = [poll EXCEPT ![p].at = "again", ![p].first = shadow]
    BY <1>4 DEF ReadPrevious
  <2>2. Moves(p, "again", poll[p].src, poll[p].prev, poll[p].result, poll[p].published)
    BY <1>2, <2>1 DEF Types, Polls, Moves, Steps, Outside
  <2>3. poll[p].src \in Stage3
    BY <1>4 DEF Types, Polls
  <2> QED
    BY <1>1, <2>2, <2>3 DEF evidence, remote, Writes, MaySaveLocal, Moves
<1> QED
  BY <1>3, <1>4

LEMMA DisabledDoes ==
  ASSUME Types, NEW p \in Pollers, Disabled(p)
  PROVE  UNCHANGED <<shadow, archive, receipts, sentinel, collected>> /\ Writes(p) /\ Ends(p)
BY MoveEnd DEF Disabled, remote, Writes

LEMMA ReadAgainDoes ==
  ASSUME Types, NEW p \in Pollers, ReadAgain(p)
  PROVE  /\ UNCHANGED <<shadow, archive, receipts, sentinel, collected>> /\ Writes(p)
         /\ poll[p].at = "again"
         /\ \/ Ends(p)
            \/ Moves(p, "reserve", poll[p].src, shadow, poll[p].result, poll[p].published)
<1>1. UNCHANGED evidence /\ poll[p].at = "again"
  BY DEF ReadAgain
<1>2. shadow \in Shadows \cup {Absent}
  BY DEF Types
<1>3. CASE MatchesStage3(shadow, poll[p].src)
  <2>1. Ends(p) /\ poll'[p].at # "write"
    BY <1>2, <1>3, MovePersist DEF ReadAgain
  <2> QED
    BY <1>1, <2>1 DEF evidence, remote, Writes, MaySaveLocal
<1>4. CASE ~MatchesStage3(shadow, poll[p].src)
  <2>1. poll' = [poll EXCEPT ![p].at = "reserve", ![p].prev = shadow]
    BY <1>4 DEF ReadAgain
  <2>2. Moves(p, "reserve", poll[p].src, shadow, poll[p].result, poll[p].published)
    BY <1>2, <2>1 DEF Types, Polls, Moves, Steps, Outside
  <2> QED
    BY <1>1, <2>2 DEF evidence, remote, Writes, MaySaveLocal, Moves
<1> QED
  BY <1>3, <1>4

\* A poll goes on only after it has looked at a file that holds nothing to keep,
\* or without knowing what it holds
LEMMA LookDoes ==
  ASSUME Types, Judgement, NEW p \in Pollers, LookLocal(p)
  PROVE  /\ UNCHANGED <<shadow, archive, receipts, sentinel, collected, local>>
         /\ poll[p].at = "look"
         /\ \A q \in Pollers \ {p} : q \in blind' <=> q \in blind
         /\ poll'[p].at = "write" =>
              p \in blind' \/ (~Preserved(poll[p].prev, local) /\ poll'[p].prev = poll[p].prev)
         /\ Ends(p)
<1>1. poll[p].at = "look" /\ UNCHANGED <<remote, local, sentinel, collected>>
  BY DEF LookLocal
<1>2. PICK seen :
        /\ IF Preserved(poll[p].prev, seen) THEN PersistAgain(p) ELSE Goto(p, "write")
        /\ blind' = IF seen = local THEN blind \ {p} ELSE blind \cup {p}
  BY DEF LookLocal
<1>3. \A q \in Pollers \ {p} : q \in blind' <=> q \in blind
  BY <1>2
<1>4. CASE Preserved(poll[p].prev, seen)
  BY <1>1, <1>2, <1>3, <1>4, MovePersistAgain DEF remote
<1>5. CASE ~Preserved(poll[p].prev, seen)
  <2>1. Moves(p, "write", poll[p].src, poll[p].prev, poll[p].result, poll[p].published)
    BY <1>2, <1>5, MoveGoto DEF Steps, Outside
  <2>2. ~poll[p].published
    BY <1>1 DEF Judgement
  <2>3. poll[p].published = FALSE
    BY <2>2 DEF Types, Polls
  <2>4. Ends(p)
    BY <2>1, <2>3 DEF Ends
  <2>5. p \in blind' \/ ~Preserved(poll[p].prev, local)
    BY <1>2, <1>5
  <2> QED
    BY <1>1, <1>3, <2>1, <2>4, <2>5 DEF remote, Moves
<1> QED
  BY <1>4, <1>5

LEMMA WriteDoes ==
  ASSUME Types, NEW p \in Pollers, WriteLocal(p)
  PROVE  /\ UNCHANGED <<shadow, archive, receipts, sentinel, collected>> /\ Writes(p)
         /\ Ends(p)
BY MovePersistAgain, MoveFailOpen, MoveEnd DEF WriteLocal, remote, Writes, MaySaveLocal

LEMMA ReserveDoes ==
  ASSUME Types, Owned, NEW p \in Pollers, Reserve(p)
  PROVE  /\ UNCHANGED <<shadow, archive, receipts, collected>> /\ Writes(p)
         /\ poll[p].at = "reserve"
         /\ \/ sentinel' = sentinel /\ Ends(p)
            \/ /\ poll[p].src \in Stage3 /\ sentinel[poll[p].src] = "none"
               /\ sentinel' = [sentinel EXCEPT ![poll[p].src] = "IN_PROGRESS"]
               /\ Moves(p, "window", poll[p].src, poll[p].prev, poll[p].result, poll[p].published)
<1>1. poll[p].at = "reserve" /\ UNCHANGED <<remote, artifact, collected>>
  BY DEF Reserve
<1>2. CASE Held(poll[p].src)
  <2>1. Persist(p, TRUE, poll[p].prev, NotRun) /\ UNCHANGED sentinel
    BY <1>2 DEF Reserve
  <2>2. poll[p].prev \in Shadows \cup {Absent}
    BY DEF Types, Polls
  <2>3. Ends(p) /\ poll'[p].at # "write"
    BY <2>1, <2>2, Diagnostics, MovePersist
  <2> QED
    BY <1>1, <2>1, <2>3 DEF remote, Writes, MaySaveLocal
<1>3. CASE ~Held(poll[p].src)
  <2>1. /\ sentinel' = [sentinel EXCEPT ![poll[p].src] = "IN_PROGRESS"]
        /\ Goto(p, "window")
    BY <1>3 DEF Reserve
  <2>2. Moves(p, "window", poll[p].src, poll[p].prev, poll[p].result, poll[p].published)
    BY <2>1, MoveGoto DEF Steps, Inside
  <2>3. sentinel[poll[p].src] = "none"
    BY <1>3 DEF Held
  <2>4. poll[p].src \in Stage3
    BY <1>1 DEF Owned
  <2> QED
    BY <1>1, <2>1, <2>2, <2>3, <2>4 DEF remote, Writes, MaySaveLocal, Moves
<1> QED
  BY <1>2, <1>3

\* The sentinel of a poll is completed, or left as it is
Completes(p, status) ==
  \/ sentinel' = sentinel
  \/ sentinel[poll[p].src] = "IN_PROGRESS" /\ sentinel' = [sentinel EXCEPT ![poll[p].src] = status]

LEMMA BeforeNetworkDoes ==
  ASSUME Types, NEW p \in Pollers, InspectBeforeNetwork(p)
  PROVE  /\ UNCHANGED <<shadow, archive, receipts, collected>> /\ Writes(p)
         /\ poll[p].at = "window"
         /\ \/ /\ sentinel' = sentinel
               /\ Moves(p, "network", poll[p].src, poll[p].prev, poll[p].result, poll[p].published)
            \/ Completes(p, "FAILED") /\ Ends(p)
<1>1. poll[p].at = "window" /\ UNCHANGED <<remote, artifact, collected>>
  BY DEF InspectBeforeNetwork
<1>2. CASE /\ poll' = [poll EXCEPT ![p].at = "network", ![p].first = Absent]
           /\ UNCHANGED sentinel
  <2>1. Moves(p, "network", poll[p].src, poll[p].prev, poll[p].result, poll[p].published)
    BY <1>2 DEF Types, Polls, Moves, Steps, Inside
  <2> QED
    BY <1>1, <1>2, <2>1 DEF remote, Writes, MaySaveLocal, Moves
<1>3. CASE /\ sentinel' \in {sentinel, Completed(poll[p].src, "FAILED")}
           /\ Persist(p, TRUE, poll[p].prev, NotRun)
  <2>1. poll[p].prev \in Shadows \cup {Absent}
    BY DEF Types, Polls
  <2>2. Ends(p) /\ poll'[p].at # "write"
    BY <1>3, <2>1, Diagnostics, MovePersist
  <2>3. Completes(p, "FAILED")
    BY <1>3 DEF Completed, Completes
  <2> QED
    BY <1>1, <2>2, <2>3 DEF remote, Writes, MaySaveLocal
<1> QED
  BY <1>2, <1>3 DEF InspectBeforeNetwork

\* The poll has assessed its collection
Assessed(p, src, status) ==
  \E r \in Shadows :
    /\ r.src = src /\ r.status = status /\ r.alert = "PENDING"
    /\ Moves(p, "publish", poll[p].src, poll[p].prev, r, poll[p].published)

LEMMA AssessDoes ==
  ASSUME Types, NEW p \in Pollers, NEW src \in Stage3 \cup {NoStage3}, NEW status \in Statuses,
         Assess(p, [src |-> src, status |-> status, alert |-> "PENDING"])
  PROVE  Assessed(p, src, status) /\ Writes(p)
<1>1. PICK r : r = [src |-> src, status |-> status, alert |-> "PENDING"]
  OBVIOUS
<1>2. r \in Shadows /\ r.src = src /\ r.status = status /\ r.alert = "PENDING"
  BY <1>1, ShadowForm DEF Alerts
<1>3. Moves(p, "publish", poll[p].src, poll[p].prev, r, poll[p].published)
  BY <1>1, <1>2, MoveJudged DEF Assess, Steps, Inside
<1>4. MaySaveLocal(p, r)
  BY <1>1 DEF Assess
<1> QED
  BY <1>2, <1>3, <1>4 DEF Assessed, Writes, Moves

LEMMA CapabilityDoes ==
  ASSUME Types, NEW p \in Pollers, CapabilityMissing(p)
  PROVE  /\ UNCHANGED <<shadow, archive, receipts, sentinel, collected>> /\ Writes(p)
         /\ poll[p].at = "network"
         /\ Assessed(p, NoStage3, "AUTH_BLOCKED")
BY AssessDoes DEF CapabilityMissing, Statuses, FailureStatuses, remote

LEMMA NetworkDoes ==
  ASSUME Types, Owned, NEW p \in Pollers, Network(p)
  PROVE  /\ UNCHANGED <<shadow, archive, receipts, sentinel>> /\ Writes(p)
         /\ poll[p].at = "network" /\ poll[p].src \in Stage3
         /\ \E status \in {PassStatus} \cup FailureStatuses, n \in {0, 1} :
              /\ status = PassStatus => n = 1
              /\ collected' = [collected EXCEPT ![poll[p].src] = @ + n]
              /\ Assessed(p, poll[p].src, status)
<1>1. poll[p].at = "network" /\ poll[p].src \in Stage3
  BY DEF Network, Owned, Inside
<1>2. PICK reply \in Replies :
        LET c == Collect(ToSet(RowsOf[poll[p].src]), reply)
        IN  /\ collected' = [collected EXCEPT ![poll[p].src] = @ + IF c.sent > 0 THEN 1 ELSE 0]
            /\ Assess(p, [src |-> poll[p].src, status |-> c.status, alert |-> "PENDING"])
  BY DEF Network
<1>3. PICK c : c = Collect(ToSet(RowsOf[poll[p].src]), reply)
  OBVIOUS
<1>4. c.status \in {PassStatus} \cup FailureStatuses /\ (c.status = PassStatus => c.sent > 0)
  BY <1>1, <1>3, ScopeFinite, CollectVerdict
<1>5. PICK n \in {0, 1} : n = IF c.sent > 0 THEN 1 ELSE 0
  OBVIOUS
<1>6. Assessed(p, poll[p].src, c.status) /\ Writes(p)
  BY <1>1, <1>2, <1>3, <1>4, AssessDoes, StatusFacts
<1> QED
  BY <1>1, <1>2, <1>3, <1>4, <1>5, <1>6 DEF Network, remote

LEMMA ReadFailsDoes ==
  ASSUME Types, NEW p \in Pollers, ReadFails(p)
  PROVE  UNCHANGED <<shadow, archive, receipts, sentinel, collected>> /\ Writes(p) /\ Ends(p)
BY MoveFailOpen DEF ReadFails, evidence, remote, Writes, MaySaveLocal

LEMMA BeforePublishDoes ==
  ASSUME Types, Judgement, NEW p \in Pollers, InspectBeforePublish(p)
  PROVE  /\ UNCHANGED <<shadow, archive, receipts, sentinel, collected>> /\ Writes(p)
         /\ poll[p].at = "publish"
         /\ \/ Moves(p, "archive", poll[p].src, poll[p].prev, poll[p].result, poll[p].published)
            \/ Fails(p, "STALE_OR_PARTIAL")
<1>1. poll[p].at = "publish" /\ poll[p].result \in Shadows /\ UNCHANGED evidence
  BY DEF InspectBeforePublish, Judgement, Past
<1>2. CASE Goto(p, "archive")
  <2>1. Moves(p, "archive", poll[p].src, poll[p].prev, poll[p].result, poll[p].published)
    BY <1>2, MoveGoto DEF Steps, Inside
  <2> QED
    BY <1>1, <2>1 DEF evidence, remote, Writes, MaySaveLocal, Moves
<1>3. CASE Judged(p, "alert", [poll[p].result EXCEPT !.status = "STALE_OR_PARTIAL"])
  <2>1. Fails(p, "STALE_OR_PARTIAL")
    BY <1>1, <1>3, MoveFails DEF FailureStatuses
  <2> QED
    BY <1>1, <2>1 DEF evidence, remote, Writes, MaySaveLocal, Fails, Moves
<1> QED
  BY <1>2, <1>3 DEF InspectBeforePublish

LEMMA ArchiveDoes ==
  ASSUME Types, Judgement, NEW p \in Pollers, Archive(p)
  PROVE  /\ UNCHANGED <<shadow, receipts, sentinel, collected>> /\ Writes(p)
         /\ poll[p].at = "archive"
         /\ archive \subseteq archive'
         /\ \A r \in archive' : \/ r \in archive
                                \/ r = poll[p].result
                                \/ r = poll[p].prev /\ poll[p].prev # Absent
         /\ \/ /\ poll[p].result \in archive'
               /\ Moves(p, "current", poll[p].src, poll[p].prev, poll[p].result, poll[p].published)
            \/ Fails(p, "TRANSIENT")
<1>1. poll[p].at = "archive" /\ poll[p].result \in Shadows
  BY DEF Archive, Judgement, Past
<1>2. ASSUME Goto(p, "current")
      PROVE  Moves(p, "current", poll[p].src, poll[p].prev, poll[p].result, poll[p].published)
  BY <1>2, MoveGoto DEF Steps, Inside, Past
<1>3. ASSUME PublishFails(p) PROVE Fails(p, "TRANSIENT")
  BY <1>1, <1>3, MoveFails DEF PublishFails, FailureStatuses
<1>4. PICK before, both :
        /\ before = IF poll[p].prev = Absent THEN {} ELSE {poll[p].prev}
        /\ both = before \cup {poll[p].result}
        /\ \/ archive' = archive \cup both /\ Goto(p, "current")
           \/ archive' \in {archive, archive \cup before, archive \cup both} /\ PublishFails(p)
  BY DEF Archive
<1>5. \A r \in both : r = poll[p].result \/ (r = poll[p].prev /\ poll[p].prev # Absent)
  BY <1>4
<1>6. archive' \in {archive, archive \cup before, archive \cup both}
  BY <1>4
<1>7. /\ archive \subseteq archive'
      /\ \A r \in archive' : r \in archive \/ r \in both
  BY <1>4, <1>6
<1>8. \/ archive' = archive \cup both /\ Goto(p, "current")
      \/ PublishFails(p)
  BY <1>4
<1>9. \/ /\ poll[p].result \in archive'
         /\ Moves(p, "current", poll[p].src, poll[p].prev, poll[p].result, poll[p].published)
      \/ Fails(p, "TRANSIENT")
  BY <1>2, <1>3, <1>4, <1>8
<1>10. UNCHANGED <<shadow, receipts, artifact, sentinel, collected>>
  BY DEF Archive
<1>11. Writes(p)
  BY <1>9, <1>10 DEF Writes, MaySaveLocal, Moves, Fails
<1> QED
  BY <1>1, <1>5, <1>7, <1>9, <1>10, <1>11

LEMMA PublishDoes ==
  ASSUME Types, Judgement, NEW p \in Pollers, PublishCurrent(p)
  PROVE  /\ UNCHANGED <<archive, receipts, sentinel, collected>> /\ Writes(p)
         /\ poll[p].at = "current"
         /\ shadow' \in {shadow, poll[p].result}
         /\ \/ Moves(p, "alert", poll[p].src, poll[p].prev, poll[p].result, TRUE)
            \/ Fails(p, "TRANSIENT")
<1>1. poll[p].at = "current" /\ poll[p].result \in Shadows /\ "alert" \in Steps
  BY DEF PublishCurrent, Judgement, Past, Steps, Inside
<1>2. ASSUME PublishFails(p) PROVE Fails(p, "TRANSIENT")
  BY <1>1, <1>2, MoveFails DEF PublishFails, FailureStatuses
<1>3. UNCHANGED <<archive, receipts, artifact, sentinel, collected>>
  BY DEF PublishCurrent
<1>4. /\ shadow' \in {shadow, poll[p].result}
      /\ \/ Moves(p, "alert", poll[p].src, poll[p].prev, poll[p].result, TRUE)
         \/ Fails(p, "TRANSIENT")
  BY <1>1, <1>2, MovePublished DEF PublishCurrent
<1>5. Writes(p)
  BY <1>3, <1>4 DEF Writes, MaySaveLocal, Moves, Fails
<1> QED
  BY <1>1, <1>3, <1>4, <1>5

\* The poll has announced what it found
LEMMA AlertDoes ==
  ASSUME Types, Judgement, NEW p \in Pollers, Alert(p)
  PROVE  /\ UNCHANGED <<shadow, archive, receipts, sentinel, collected>> /\ Writes(p)
         /\ poll[p].at = "alert"
         /\ \E r \in Shadows, next \in {"receipt", "finish"} :
              /\ r.src = poll[p].result.src /\ r.status = poll[p].result.status
              /\ r.alert # "PENDING"
              /\ Pending(r) = Pending(poll[p].result)
              /\ next = "receipt" => poll[p].published
              /\ Moves(p, next, poll[p].src, poll[p].prev, r, FALSE)
<1> DEFINE outcome == AlertOutcome(poll[p].result, poll[p].prev)
           next    == IF poll[p].published THEN "receipt" ELSE "finish"
<1>1. /\ poll[p].at = "alert" /\ poll[p].result \in Shadows
      /\ UNCHANGED <<remote, sentinel, collected>>
  BY DEF Judgement, Past, Alert
<1>2. outcome \in Alerts /\ outcome # "PENDING" /\ "NOT_RUN" \in Statuses
  BY DEF AlertOutcome, Alerts, Statuses
<1>3. PICK r : r = [poll[p].result EXCEPT !.alert = outcome]
  OBVIOUS
<1>4. /\ r \in Shadows /\ r.src = poll[p].result.src /\ r.status = poll[p].result.status
      /\ Pending(r) = Pending(poll[p].result)
  BY <1>1, <1>2, <1>3, ShadowWith
<1>5. r.alert # "PENDING"
  BY <1>1, <1>2, <1>3 DEF Shadows
<1>6. \/ SaveLocal(p, r) /\ poll' = [poll EXCEPT ![p].at = next, ![p].result = r,
                                                ![p].published = FALSE]
      \/ /\ UNCHANGED artifact
         /\ poll' = [poll EXCEPT ![p].at = "finish", ![p].result = r, ![p].published = FALSE]
  BY <1>3 DEF Alert
<1> HIDE DEF outcome
<1>7. ASSUME NEW at \in {"receipt", "finish"},
             poll' = [poll EXCEPT ![p].at = at, ![p].result = r, ![p].published = FALSE]
      PROVE  Moves(p, at, poll[p].src, poll[p].prev, r, FALSE)
  <2>1. at \in Steps
    BY DEF Steps, Inside
  <2> QED
    BY <1>4, <1>7, <2>1 DEF Types, Polls, Moves
<1>8. \E at \in {"receipt", "finish"} :
        /\ at = "receipt" => poll[p].published
        /\ MaySaveLocal(p, r) /\ Moves(p, at, poll[p].src, poll[p].prev, r, FALSE)
  BY <1>6, <1>7 DEF MaySaveLocal
<1> QED
  BY <1>1, <1>4, <1>5, <1>8 DEF remote, Writes, Moves

LEMMA BeforeReceiptDoes ==
  ASSUME Types, NEW p \in Pollers, InspectBeforeReceipt(p)
  PROVE  /\ UNCHANGED <<shadow, archive, receipts, sentinel, collected>> /\ Writes(p)
         /\ poll[p].at = "receipt"
         /\ \E at \in {"store", "finish"} :
              Moves(p, at, poll[p].src, poll[p].prev, poll[p].result, poll[p].published)
<1>1. poll[p].at = "receipt" /\ UNCHANGED <<remote, sentinel, collected>>
  BY DEF InspectBeforeReceipt
<1>2. PICK at \in {"store", "finish"} : Goto(p, at) /\ MaySaveLocal(p, poll[p].result)
  BY DEF InspectBeforeReceipt, MaySaveLocal
<1>3. Moves(p, at, poll[p].src, poll[p].prev, poll[p].result, poll[p].published)
  BY <1>2, MoveGoto DEF Steps, Inside
<1> QED
  BY <1>1, <1>2, <1>3 DEF remote, Writes, Moves

LEMMA StoreReceiptDoes ==
  ASSUME Types, NEW p \in Pollers, StoreReceipt(p)
  PROVE  /\ UNCHANGED <<archive, sentinel, collected>> /\ Writes(p)
         /\ poll[p].at = "store"
         /\ shadow' \in {shadow, poll[p].result} /\ receipts \subseteq receipts'
         /\ \/ /\ poll[p].result \in receipts'
               /\ Moves(p, "finish", poll[p].src, poll[p].prev, poll[p].result, TRUE)
            \/ Moves(p, "finish", poll[p].src, poll[p].prev, poll[p].result, poll[p].published)
<1>1. /\ poll[p].at = "store" /\ UNCHANGED <<archive, sentinel, collected>>
      /\ MaySaveLocal(p, poll[p].result) /\ "finish" \in Steps
  BY DEF StoreReceipt, Steps, Inside
<1>2. CASE poll' = [poll EXCEPT ![p].at = "finish", ![p].published = TRUE]
           /\ shadow' = poll[p].result /\ receipts' = receipts \cup {poll[p].result}
  <2>1. Moves(p, "finish", poll[p].src, poll[p].prev, poll[p].result, TRUE)
    BY <1>1, <1>2, MovePublished
  <2> QED
    BY <1>1, <1>2, <2>1 DEF Writes, Moves
<1>3. CASE Goto(p, "finish") /\ shadow' \in {shadow, poll[p].result} /\ receipts \subseteq receipts'
  <2>1. Moves(p, "finish", poll[p].src, poll[p].prev, poll[p].result, poll[p].published)
    BY <1>1, <1>3, MoveGoto
  <2> QED
    BY <1>1, <1>3, <2>1 DEF Writes, Moves
<1> QED
  BY <1>2, <1>3 DEF StoreReceipt

LEMMA FinishDoes ==
  ASSUME Types, NEW p \in Pollers, Finish(p)
  PROVE  /\ UNCHANGED <<shadow, archive, receipts, collected>> /\ Writes(p)
         /\ poll[p].at = "finish"
         /\ Completes(p, FinalStatus(p)) /\ Ends(p)
BY MoveEnd DEF Finish, Completed, Completes, remote, Writes

LEMMA PollDiesDoes ==
  ASSUME Types, NEW p \in Pollers, PollDies(p)
  PROVE  UNCHANGED <<shadow, archive, receipts, sentinel, collected>> /\ Writes(p) /\ Ends(p)
BY MoveEnd DEF PollDies, evidence, remote, Writes, MaySaveLocal

LEMMA OthersDo ==
  ASSUME \/ \E s \in Stage3 : Dispatch(s) \/ Rewrite(s)
         \/ PublishProcessing \/ PublishCompleted \/ DispatchDies \/ UNCHANGED vars
  PROVE  UNCHANGED <<poll, shadow, archive, receipts, sentinel, collected, local, blind>>
         /\ intact' \subseteq intact
BY DEF Dispatch, Rewrite, PublishProcessing, PublishCompleted, DispatchDies, UpdateProgress,
       evidence, remote, artifact, drive, vars

-----------------------------------------------------------------------------
(* One collection per Stage3 file.                                         *)

\* A poll that goes on, or that ends without its sentinel
LEMMA OwnedGoesOn ==
  ASSUME Owned, UNCHANGED <<sentinel, collected>>,
         NEW p \in Pollers, NEW at, NEW src, NEW prev, NEW result, NEW published,
         Moves(p, at, src, prev, result, published),
         at \in Inside => poll[p].at \in Inside /\ src = poll[p].src,
         at \in {"window", "network"} => poll[p].at \in {"window", "network"},
         at \in {"again", "reserve"} => src \in Stage3
  PROVE  Owned'
<1>1. \A q \in Pollers, s \in Stage3 : Works(q, s)' => Works(q, s)
  BY DEF Moves, Works
<1>2. \A q \in Pollers : poll'[q].at \in Inside =>
         poll[q].at \in Inside /\ poll'[q].src = poll[q].src
  BY DEF Moves
<1>3. \A q \in Pollers : poll'[q].at \in {"window", "network"} =>
         poll[q].at \in {"window", "network"} /\ poll'[q].src = poll[q].src
  BY <1>2 DEF Moves, Inside
<1>4. \A q \in Pollers : poll'[q].at \in {"again", "reserve"} => poll'[q].src \in Stage3
  BY DEF Moves, Owned
<1> QED
  BY <1>1, <1>2, <1>3, <1>4 DEF Owned

LEMMA OwnedEnds ==
  ASSUME Owned, UNCHANGED <<sentinel, collected>>, NEW p \in Pollers, Ends(p)
  PROVE  Owned'
BY OwnedGoesOn DEF Ends, Inside

LEMMA OwnedTaken ==
  ASSUME Owned, Types, UNCHANGED collected,
         NEW p \in Pollers, NEW src \in Stage3, NEW prev, NEW result, NEW published,
         Moves(p, "window", src, prev, result, published), sentinel[src] = "none",
         sentinel' = [sentinel EXCEPT ![src] = "IN_PROGRESS"]
  PROVE  Owned'
BY DEF Owned, Types, Moves, Works

LEMMA OwnedCompleted ==
  ASSUME Owned, Types, UNCHANGED collected, NEW p \in Pollers, poll[p].at \in Inside,
         NEW status \in {"SUCCESS", "FAILED"}, Completes(p, status), Ends(p)
  PROVE  Owned'
BY DEF Owned, Types, Moves, Works, Completes, Ends, Inside, Past

LEMMA OwnedAsked ==
  ASSUME Owned, Types, UNCHANGED sentinel, NEW p \in Pollers, poll[p].at = "network",
         NEW n \in {0, 1}, collected' = [collected EXCEPT ![poll[p].src] = @ + n],
         NEW status, Assessed(p, poll[p].src, status)
  PROVE  Owned'
BY DEF Owned, Types, Moves, Works, Assessed, Inside, Past

\* The sentinel admits one collection
LEMMA OwnedStep ==
  ASSUME Types, Owned, Judgement, [Next]_vars
  PROVE  Owned'
<1>1. ASSUME UNCHANGED <<poll, shadow, archive, receipts, sentinel, collected>> PROVE Owned'
  BY <1>1 DEF Owned, Works
<1>2. ASSUME NEW p \in Pollers, ReadHandoff(p) PROVE Owned'
  BY <1>2, ReadHandoffDoes, OwnedGoesOn DEF Inside, Past, Ends
<1>3. ASSUME NEW p \in Pollers, ReadPrevious(p) PROVE Owned'
  BY <1>3, ReadPreviousDoes, OwnedEnds, OwnedGoesOn DEF Inside
<1>4. ASSUME NEW p \in Pollers, Disabled(p) PROVE Owned'
  BY <1>4, DisabledDoes, OwnedEnds
<1>5. ASSUME NEW p \in Pollers, ReadAgain(p) PROVE Owned'
  <2>1. poll[p].at = "again" /\ poll[p].src \in Stage3
    BY <1>5, ReadAgainDoes DEF Owned
  <2> QED
    BY <1>5, <2>1, ReadAgainDoes, OwnedEnds, OwnedGoesOn DEF Inside
<1>6. ASSUME NEW p \in Pollers, LookLocal(p) PROVE Owned'
  BY <1>6, LookDoes, OwnedEnds
<1>7. ASSUME NEW p \in Pollers, WriteLocal(p) PROVE Owned'
  BY <1>7, WriteDoes, OwnedEnds
<1>8. ASSUME NEW p \in Pollers, Reserve(p) PROVE Owned'
  BY <1>8, ReserveDoes, OwnedEnds, OwnedTaken
<1>9. ASSUME NEW p \in Pollers, InspectBeforeNetwork(p) PROVE Owned'
  BY <1>9, BeforeNetworkDoes, OwnedGoesOn, OwnedCompleted DEF Inside
<1>10. ASSUME NEW p \in Pollers, CapabilityMissing(p) PROVE Owned'
  BY <1>10, CapabilityDoes, OwnedGoesOn DEF Inside, Past, Assessed
<1>11. ASSUME NEW p \in Pollers, Network(p) PROVE Owned'
  BY <1>11, NetworkDoes, OwnedAsked DEF Inside, Past, Assessed
<1>12. ASSUME NEW p \in Pollers, ReadFails(p) PROVE Owned'
  BY <1>12, ReadFailsDoes, OwnedEnds
<1>13. ASSUME NEW p \in Pollers, InspectBeforePublish(p) PROVE Owned'
  BY <1>13, BeforePublishDoes, OwnedGoesOn DEF Inside, Past, Fails
<1>14. ASSUME NEW p \in Pollers, Archive(p) PROVE Owned'
  BY <1>14, ArchiveDoes, OwnedGoesOn DEF Inside, Past, Fails
<1>15. ASSUME NEW p \in Pollers, PublishCurrent(p) PROVE Owned'
  BY <1>15, PublishDoes, OwnedGoesOn DEF Inside, Past, Fails
<1>16. ASSUME NEW p \in Pollers, Alert(p) PROVE Owned'
  BY <1>16, AlertDoes, OwnedGoesOn DEF Inside, Past, Ends
<1>17. ASSUME NEW p \in Pollers, InspectBeforeReceipt(p) PROVE Owned'
  BY <1>17, BeforeReceiptDoes, OwnedGoesOn DEF Inside, Past, Ends
<1>18. ASSUME NEW p \in Pollers, StoreReceipt(p) PROVE Owned'
  BY <1>18, StoreReceiptDoes, OwnedGoesOn DEF Inside, Past, Ends
<1>19. ASSUME NEW p \in Pollers, Finish(p) PROVE Owned'
  BY <1>19, FinishDoes, OwnedCompleted DEF Inside, Past, FinalStatus
<1>20. ASSUME NEW p \in Pollers, PollDies(p) PROVE Owned'
  BY <1>20, PollDiesDoes, OwnedEnds
<1> QED
  BY <1>1, <1>2, <1>3, <1>4, <1>5, <1>6, <1>7, <1>8, <1>9, <1>10, <1>11, <1>12, <1>13, <1>14,
     <1>15, <1>16, <1>17, <1>18, <1>19, <1>20, OthersDo DEF Next

-----------------------------------------------------------------------------
(* Verdicts.                                                               *)

Verdict(at, src, result, published, asked) ==
  /\ at \in Past =>
       /\ result \in Shadows /\ Terminal(result)
       /\ result.src \in {src, NoStage3}
       /\ result.status = PassStatus => result.src = src /\ asked[src] = 1
  /\ at \in {"publish", "archive", "current"} => result.alert = "PENDING"
  /\ at \in {"receipt", "store", "finish"} => result.alert # "PENDING"
  /\ at \notin {"alert", "finish"} => ~published

LEMMA JudgementMoves ==
  ASSUME Judgement, Owned,
         \A s \in Stage3 : collected[s] = 1 => collected'[s] = 1,
         NEW p \in Pollers, NEW at, NEW src, NEW prev, NEW result, NEW published,
         Moves(p, at, src, prev, result, published),
         Verdict(at, src, result, published, collected')
  PROVE  Judgement'
<1>1. \A q \in Pollers : poll[q].at \in Past => poll[q].src \in Stage3
  BY DEF Owned, Inside, Past
<1> QED
  BY <1>1 DEF Judgement, Moves, Verdict

LEMMA JudgementHere ==
  ASSUME Judgement, NEW p \in Pollers
  PROVE  Verdict(poll[p].at, poll[p].src, poll[p].result, poll[p].published, collected)
BY DEF Judgement, Verdict

LEMMA JudgementEnds ==
  ASSUME Judgement, Owned, UNCHANGED collected, NEW p \in Pollers, Ends(p)
  PROVE  Judgement'
BY JudgementMoves DEF Ends, Verdict, Past

\* A poll that has no result yet
LEMMA JudgementBegins ==
  ASSUME Judgement, Owned, UNCHANGED collected, NEW p \in Pollers,
         poll[p].at \notin {"alert", "finish"},
         NEW at \in {"previous", "again", "reserve", "window", "network"}, NEW src, NEW prev,
         Moves(p, at, src, prev, poll[p].result, poll[p].published)
  PROVE  Judgement'
<1>1. Verdict(at, src, poll[p].result, poll[p].published, collected')
  BY JudgementHere DEF Verdict, Past
<1> QED
  BY <1>1, JudgementMoves

LEMMA JudgementFails ==
  ASSUME Judgement, Owned, UNCHANGED collected, NEW p \in Pollers, poll[p].at \in Past,
         NEW status \in FailureStatuses, Fails(p, status)
  PROVE  Judgement'
<1>1. PICK r \in Shadows :
        /\ r.status = status /\ r.src = poll[p].result.src
        /\ Moves(p, "alert", poll[p].src, poll[p].prev, r, poll[p].published)
  BY DEF Fails
<1>2. Verdict("alert", poll[p].src, r, poll[p].published, collected')
  BY <1>1, JudgementHere, StatusFacts DEF Verdict, Terminal, Past
<1> QED
  BY <1>1, <1>2, JudgementMoves

LEMMA JudgementAssessed ==
  ASSUME Judgement, Owned, NEW p \in Pollers, poll[p].at = "network",
         \A s \in Stage3 : collected[s] = 1 => collected'[s] = 1,
         NEW src \in {poll[p].src, NoStage3}, NEW status \in {PassStatus} \cup FailureStatuses,
         status = PassStatus => src = poll[p].src /\ collected'[src] = 1,
         Assessed(p, src, status)
  PROVE  Judgement'
<1>1. PICK r \in Shadows :
        /\ r.src = src /\ r.status = status /\ r.alert = "PENDING"
        /\ Moves(p, "publish", poll[p].src, poll[p].prev, r, poll[p].published)
  BY DEF Assessed
<1>2. Verdict("publish", poll[p].src, r, poll[p].published, collected')
  BY <1>1, JudgementHere DEF Verdict, Terminal
<1> QED
  BY <1>1, <1>2, JudgementMoves

\* What a poll holds stays a verdict
LEMMA JudgementStep ==
  ASSUME Types, Owned, Judgement, [Next]_vars
  PROVE  Judgement'
<1>1. ASSUME UNCHANGED <<poll, shadow, archive, receipts, sentinel, collected>> PROVE Judgement'
  BY <1>1 DEF Judgement
<1>2. ASSUME NEW p \in Pollers, ReadHandoff(p) PROVE Judgement'
  BY <1>2, ReadHandoffDoes, JudgementBegins
<1>3. ASSUME NEW p \in Pollers, ReadPrevious(p) PROVE Judgement'
  BY <1>3, ReadPreviousDoes, JudgementBegins, JudgementEnds
<1>4. ASSUME NEW p \in Pollers, Disabled(p) PROVE Judgement'
  BY <1>4, DisabledDoes, JudgementEnds
<1>5. ASSUME NEW p \in Pollers, ReadAgain(p) PROVE Judgement'
  BY <1>5, ReadAgainDoes, JudgementBegins, JudgementEnds
<1>6. ASSUME NEW p \in Pollers, LookLocal(p) PROVE Judgement'
  BY <1>6, LookDoes, JudgementEnds
<1>7. ASSUME NEW p \in Pollers, WriteLocal(p) PROVE Judgement'
  BY <1>7, WriteDoes, JudgementEnds
<1>8. ASSUME NEW p \in Pollers, Reserve(p) PROVE Judgement'
  BY <1>8, ReserveDoes, JudgementBegins, JudgementEnds
<1>9. ASSUME NEW p \in Pollers, InspectBeforeNetwork(p) PROVE Judgement'
  BY <1>9, BeforeNetworkDoes, JudgementBegins, JudgementEnds
<1>10. ASSUME NEW p \in Pollers, CapabilityMissing(p) PROVE Judgement'
  BY <1>10, CapabilityDoes, JudgementAssessed, StatusFacts DEF FailureStatuses
<1>11. ASSUME NEW p \in Pollers, Network(p) PROVE Judgement'
  <2>1. PICK status \in {PassStatus} \cup FailureStatuses, n \in {0, 1} :
          /\ status = PassStatus => n = 1
          /\ collected' = [collected EXCEPT ![poll[p].src] = @ + n]
          /\ Assessed(p, poll[p].src, status)
    BY <1>11, NetworkDoes
  <2>2. poll[p].at = "network" /\ poll[p].src \in Stage3 /\ collected[poll[p].src] = 0
    BY <1>11, NetworkDoes DEF Owned
  <2>3. /\ n = 1 => collected'[poll[p].src] = 1
        /\ \A s \in Stage3 : collected[s] = 1 => collected'[s] = 1
    BY <2>1, <2>2 DEF Types
  <2> QED
    BY <2>1, <2>2, <2>3, JudgementAssessed
<1>12. ASSUME NEW p \in Pollers, ReadFails(p) PROVE Judgement'
  BY <1>12, ReadFailsDoes, JudgementEnds
<1>13. ASSUME NEW p \in Pollers, InspectBeforePublish(p) PROVE Judgement'
  BY <1>13, BeforePublishDoes, JudgementHere, JudgementMoves, JudgementFails
     DEF FailureStatuses, Verdict, Past
<1>14. ASSUME NEW p \in Pollers, Archive(p) PROVE Judgement'
  BY <1>14, ArchiveDoes, JudgementHere, JudgementMoves, JudgementFails
     DEF FailureStatuses, Verdict, Past
<1>15. ASSUME NEW p \in Pollers, PublishCurrent(p) PROVE Judgement'
  BY <1>15, PublishDoes, JudgementHere, JudgementMoves, JudgementFails
     DEF FailureStatuses, Verdict, Past
<1>16. ASSUME NEW p \in Pollers, Alert(p) PROVE Judgement'
  <2>1. PICK r \in Shadows, next \in {"receipt", "finish"} :
          /\ r.src = poll[p].result.src /\ r.status = poll[p].result.status
          /\ r.alert # "PENDING"
          /\ Moves(p, next, poll[p].src, poll[p].prev, r, FALSE)
    BY <1>16, AlertDoes
  <2>2. poll[p].at = "alert" /\ UNCHANGED collected
    BY <1>16, AlertDoes
  <2>3. Verdict(next, poll[p].src, r, FALSE, collected')
    BY <2>1, <2>2, JudgementHere DEF Verdict, Past, Terminal
  <2> QED
    BY <2>1, <2>2, <2>3, JudgementMoves
<1>17. ASSUME NEW p \in Pollers, InspectBeforeReceipt(p) PROVE Judgement'
  BY <1>17, BeforeReceiptDoes, JudgementHere, JudgementMoves DEF Verdict, Past
<1>18. ASSUME NEW p \in Pollers, StoreReceipt(p) PROVE Judgement'
  <2>1. poll[p].at = "store" /\ UNCHANGED collected
    BY <1>18, StoreReceiptDoes
  <2>2. \A stored : Verdict("finish", poll[p].src, poll[p].result, stored, collected')
    BY <2>1, JudgementHere DEF Verdict, Past
  <2>3. \E stored : Moves(p, "finish", poll[p].src, poll[p].prev, poll[p].result, stored)
    BY <1>18, StoreReceiptDoes
  <2> QED
    BY <2>1, <2>2, <2>3, JudgementMoves
<1>19. ASSUME NEW p \in Pollers, Finish(p) PROVE Judgement'
  BY <1>19, FinishDoes, JudgementEnds
<1>20. ASSUME NEW p \in Pollers, PollDies(p) PROVE Judgement'
  BY <1>20, PollDiesDoes, JudgementEnds
<1> QED
  BY <1>1, <1>2, <1>3, <1>4, <1>5, <1>6, <1>7, <1>8, <1>9, <1>10, <1>11, <1>12, <1>13, <1>14,
     <1>15, <1>16, <1>17, <1>18, <1>19, <1>20, OthersDo DEF Next

-----------------------------------------------------------------------------
(* What is current was archived.                                           *)

Backed(at, prev, result, published, kept, stored) ==
  /\ at = "finish" /\ published => result \in stored
  /\ at \in Aware /\ prev # Absent => Pending(prev) \in kept
  /\ \/ at \in {"current", "receipt", "store"}
     \/ at \in {"alert", "finish"} /\ published
     => Pending(result) \in kept

LEMMA KeptHere ==
  ASSUME Kept, NEW p \in Pollers
  PROVE  Backed(poll[p].at, poll[p].prev, poll[p].result, poll[p].published, archive, receipts)
BY DEF Kept, Backed

LEMMA KeptMoves ==
  ASSUME Kept, archive \subseteq archive', receipts \subseteq receipts',
         shadow' # Absent => Pending(shadow') \in archive',
         NEW p \in Pollers, NEW at, NEW src, NEW prev, NEW result, NEW published,
         Moves(p, at, src, prev, result, published),
         Backed(at, prev, result, published, archive', receipts')
  PROVE  Kept'
<1>1. \A q \in Pollers :
        Backed(poll'[q].at, poll'[q].prev, poll'[q].result, poll'[q].published, archive', receipts')
  BY KeptHere DEF Moves, Backed
<1> QED
  BY <1>1 DEF Kept, Backed, Pending

LEMMA KeptEnds ==
  ASSUME Kept, UNCHANGED <<shadow, archive, receipts>>, NEW p \in Pollers, Ends(p)
  PROVE  Kept'
<1>1. PICK at \in {"idle", "look", "write"} :
        \E src, prev, result : Moves(p, at, src, prev, result, FALSE)
  BY DEF Ends
<1>2. \A prev, result : Backed(at, prev, result, FALSE, archive', receipts')
  BY DEF Backed, Aware, Inside
<1> QED
  BY <1>1, <1>2, KeptMoves DEF Kept

LEMMA KeptFails ==
  ASSUME Kept, Judgement, archive \subseteq archive', UNCHANGED receipts, NEW p \in Pollers,
         shadow' # Absent => Pending(shadow') \in archive',
         poll[p].at \in {"publish", "archive", "current"}, NEW status, Fails(p, status)
  PROVE  Kept'
<1>1. PICK r \in Shadows : Moves(p, "alert", poll[p].src, poll[p].prev, r, poll[p].published)
  BY DEF Fails
<1>2. ~poll[p].published
  BY DEF Judgement
<1>3. Backed("alert", poll[p].prev, r, poll[p].published, archive', receipts')
  BY <1>2, KeptHere DEF Backed, Aware, Inside
<1> QED
  BY <1>1, <1>3, KeptMoves

\* A poll that has yet to publish, or that only stores a receipt
LEMMA KeptGoesOn ==
  ASSUME Kept, UNCHANGED <<shadow, archive, receipts>>,
         NEW p \in Pollers, NEW at, NEW src, NEW prev, NEW result, NEW published,
         Moves(p, at, src, prev, result, published),
         at \in Aware => poll[p].at \in Aware /\ prev = poll[p].prev,
         at \in {"previous", "again", "window", "network", "publish", "archive"}
  PROVE  Kept'
<1>1. Backed(at, prev, result, published, archive', receipts')
  BY KeptHere DEF Backed
<1> QED
  BY <1>1, KeptMoves DEF Kept

\* Archiving precedes publication
LEMMA KeptStep ==
  ASSUME Types, Owned, Judgement, Kept, [Next]_vars
  PROVE  Kept'
<1>1. ASSUME UNCHANGED <<poll, shadow, archive, receipts, sentinel, collected>> PROVE Kept'
  BY <1>1 DEF Kept
<1>2. ASSUME NEW p \in Pollers, ReadHandoff(p) PROVE Kept'
  BY <1>2, ReadHandoffDoes, KeptGoesOn DEF Aware, Inside
<1>3. ASSUME NEW p \in Pollers, ReadPrevious(p) PROVE Kept'
  BY <1>3, ReadPreviousDoes, KeptEnds, KeptGoesOn DEF Aware, Inside
<1>4. ASSUME NEW p \in Pollers, Disabled(p) PROVE Kept'
  BY <1>4, DisabledDoes, KeptEnds
<1>5. ASSUME NEW p \in Pollers, ReadAgain(p) PROVE Kept'
  <2>1. ~poll[p].published /\ UNCHANGED <<shadow, archive, receipts>>
    BY <1>5, ReadAgainDoes DEF Judgement
  <2>2. CASE Ends(p)
    BY <2>1, <2>2, KeptEnds
  <2>3. CASE Moves(p, "reserve", poll[p].src, shadow, poll[p].result, poll[p].published)
    <3>1. Backed("reserve", shadow, poll[p].result, poll[p].published, archive', receipts')
      BY <2>1 DEF Kept, Backed
    <3> QED
      BY <2>1, <2>3, <3>1, KeptMoves DEF Kept
  <2> QED
    BY <1>5, <2>2, <2>3, ReadAgainDoes
<1>6. ASSUME NEW p \in Pollers, LookLocal(p) PROVE Kept'
  BY <1>6, LookDoes, KeptEnds
<1>7. ASSUME NEW p \in Pollers, WriteLocal(p) PROVE Kept'
  BY <1>7, WriteDoes, KeptEnds
<1>8. ASSUME NEW p \in Pollers, Reserve(p) PROVE Kept'
  BY <1>8, ReserveDoes, KeptEnds, KeptGoesOn DEF Aware, Inside
<1>9. ASSUME NEW p \in Pollers, InspectBeforeNetwork(p) PROVE Kept'
  BY <1>9, BeforeNetworkDoes, KeptEnds, KeptGoesOn DEF Aware, Inside
<1>10. ASSUME NEW p \in Pollers, CapabilityMissing(p) PROVE Kept'
  BY <1>10, CapabilityDoes, KeptGoesOn DEF Aware, Inside, Assessed
<1>11. ASSUME NEW p \in Pollers, Network(p) PROVE Kept'
  BY <1>11, NetworkDoes, KeptGoesOn DEF Aware, Inside, Assessed
<1>12. ASSUME NEW p \in Pollers, ReadFails(p) PROVE Kept'
  BY <1>12, ReadFailsDoes, KeptEnds
<1>13. ASSUME NEW p \in Pollers, InspectBeforePublish(p) PROVE Kept'
  BY <1>13, BeforePublishDoes, KeptFails, KeptGoesOn DEF Aware, Inside, Kept
<1>14. ASSUME NEW p \in Pollers, Archive(p) PROVE Kept'
  <2>1. /\ poll[p].at = "archive" /\ archive \subseteq archive' /\ UNCHANGED receipts
        /\ shadow' # Absent => Pending(shadow') \in archive'
    BY <1>14, ArchiveDoes DEF Kept, Pending
  <2>2. CASE Fails(p, "TRANSIENT")
    BY <2>1, <2>2, KeptFails
  <2>3. CASE /\ poll[p].result \in archive'
             /\ Moves(p, "current", poll[p].src, poll[p].prev, poll[p].result, poll[p].published)
    <3>1. Pending(poll[p].result) = poll[p].result
      BY <2>1, ShadowFacts DEF Judgement, Past
    <3>2. Backed("current", poll[p].prev, poll[p].result, poll[p].published, archive', receipts')
      BY <2>1, <2>3, <3>1, KeptHere DEF Backed, Aware, Inside
    <3> QED
      BY <2>1, <2>3, <3>2, KeptMoves
  <2> QED
    BY <1>14, <2>2, <2>3, ArchiveDoes
<1>15. ASSUME NEW p \in Pollers, PublishCurrent(p) PROVE Kept'
  <2>1. /\ poll[p].at = "current" /\ UNCHANGED <<archive, receipts>>
        /\ shadow' \in {shadow, poll[p].result}
    BY <1>15, PublishDoes
  <2>2. Pending(poll[p].result) \in archive /\ (shadow' # Absent => Pending(shadow') \in archive')
    BY <2>1 DEF Kept, Pending
  <2>3. CASE Fails(p, "TRANSIENT")
    BY <2>1, <2>2, <2>3, KeptFails
  <2>4. CASE Moves(p, "alert", poll[p].src, poll[p].prev, poll[p].result, TRUE)
    <3>1. Backed("alert", poll[p].prev, poll[p].result, TRUE, archive', receipts')
      BY <2>1, <2>2, KeptHere DEF Backed, Aware, Inside
    <3> QED
      BY <2>1, <2>2, <2>4, <3>1, KeptMoves
  <2> QED
    BY <1>15, <2>3, <2>4, PublishDoes
<1>16. ASSUME NEW p \in Pollers, Alert(p) PROVE Kept'
  <2>1. PICK r \in Shadows, next \in {"receipt", "finish"} :
          /\ Pending(r) = Pending(poll[p].result)
          /\ next = "receipt" => poll[p].published
          /\ Moves(p, next, poll[p].src, poll[p].prev, r, FALSE)
    BY <1>16, AlertDoes
  <2>2. poll[p].at = "alert" /\ UNCHANGED <<shadow, archive, receipts>>
    BY <1>16, AlertDoes
  <2>3. Backed(next, poll[p].prev, r, FALSE, archive', receipts')
    BY <2>1, <2>2, KeptHere DEF Backed, Aware, Inside
  <2> QED
    BY <2>1, <2>2, <2>3, KeptMoves DEF Kept
<1>17. ASSUME NEW p \in Pollers, InspectBeforeReceipt(p) PROVE Kept'
  <2>1. PICK at \in {"store", "finish"} :
          Moves(p, at, poll[p].src, poll[p].prev, poll[p].result, poll[p].published)
    BY <1>17, BeforeReceiptDoes
  <2>2. poll[p].at = "receipt" /\ ~poll[p].published /\ UNCHANGED <<shadow, archive, receipts>>
    BY <1>17, BeforeReceiptDoes DEF Judgement
  <2>3. Backed(at, poll[p].prev, poll[p].result, poll[p].published, archive', receipts')
    BY <2>2, KeptHere DEF Backed, Aware, Inside
  <2> QED
    BY <2>1, <2>2, <2>3, KeptMoves DEF Kept
<1>18. ASSUME NEW p \in Pollers, StoreReceipt(p) PROVE Kept'
  <2>1. /\ poll[p].at = "store" /\ archive' = archive /\ receipts \subseteq receipts'
        /\ shadow' \in {shadow, poll[p].result} /\ ~poll[p].published
    BY <1>18, StoreReceiptDoes DEF Judgement
  <2>2. Pending(poll[p].result) \in archive /\ (shadow' # Absent => Pending(shadow') \in archive')
    BY <2>1 DEF Kept, Pending
  <2>3. PICK stored :
          /\ stored => poll[p].result \in receipts'
          /\ Moves(p, "finish", poll[p].src, poll[p].prev, poll[p].result, stored)
    BY <1>18, <2>1, StoreReceiptDoes
  <2>4. Backed("finish", poll[p].prev, poll[p].result, stored, archive', receipts')
    BY <2>1, <2>2, <2>3, KeptHere DEF Backed, Aware, Inside
  <2> QED
    BY <2>1, <2>2, <2>3, <2>4, KeptMoves
<1>19. ASSUME NEW p \in Pollers, Finish(p) PROVE Kept'
  BY <1>19, FinishDoes, KeptEnds
<1>20. ASSUME NEW p \in Pollers, PollDies(p) PROVE Kept'
  BY <1>20, PollDiesDoes, KeptEnds
<1> QED
  BY <1>1, <1>2, <1>3, <1>4, <1>5, <1>6, <1>7, <1>8, <1>9, <1>10, <1>11, <1>12, <1>13, <1>14,
     <1>15, <1>16, <1>17, <1>18, <1>19, <1>20, OthersDo DEF Next

-----------------------------------------------------------------------------
(* What the archive says.                                                  *)

\* Where a new member of the archive comes from: the result of the poll that
\* archives, or a shadow that has been there in another form
LEMMA ArchivedBefore ==
  ASSUME Types, Judgement, Kept, NEW p \in Pollers, Archive(p), NEW r \in archive'
  PROVE  \/ \E k \in archive : k.src = r.src /\ k.status = r.status
         \/ /\ r = poll[p].result
            /\ r.src \in {poll[p].src, NoStage3}
            /\ r.status = PassStatus \/ r.status \in FailureStatuses
<1>1. poll[p].at = "archive"
  BY ArchiveDoes
<1>2. CASE r \in archive
  BY <1>2
<1>3. CASE r = poll[p].result
  BY <1>1, <1>3 DEF Judgement, Past, Terminal
<1>4. CASE r = poll[p].prev /\ poll[p].prev # Absent
  <2>1. Pending(r) \in archive
    BY <1>1, <1>4 DEF Kept, Aware, Inside
  <2>2. r \in Shadows
    BY <1>4 DEF Types, Polls
  <2> QED
    BY <2>1, <2>2, ShadowFacts
<1> QED
  BY <1>2, <1>3, <1>4, ArchiveDoes

LEMMA ReservedKept ==
  ASSUME Reserved, UNCHANGED archive,
         \A s \in Stage3 : sentinel[s] # "none" => sentinel'[s] # "none"
  PROVE  Reserved'
BY DEF Reserved

LEMMA SentinelStays ==
  ASSUME Types, NEW p, NEW status \in {"FAILED", "SUCCESS"}, Completes(p, status)
  PROVE  \A s \in Stage3 : sentinel[s] # "none" => sentinel'[s] # "none"
BY DEF Types, Completes

\* Only a poll with a sentinel archives
LEMMA ReservedStep ==
  ASSUME Types, Owned, Judgement, Kept, Reserved, [Next]_vars
  PROVE  Reserved'
<1>1. ASSUME UNCHANGED <<poll, shadow, archive, receipts, sentinel, collected>> PROVE Reserved'
  BY <1>1 DEF Reserved
<1>2. ASSUME NEW p \in Pollers, ReadHandoff(p) PROVE Reserved'
  BY <1>2, ReadHandoffDoes, ReservedKept 
<1>3. ASSUME NEW p \in Pollers, ReadPrevious(p) PROVE Reserved'
  BY <1>3, ReadPreviousDoes, ReservedKept
<1>4. ASSUME NEW p \in Pollers, Disabled(p) PROVE Reserved'
  BY <1>4, DisabledDoes, ReservedKept 
<1>5. ASSUME NEW p \in Pollers, ReadAgain(p) PROVE Reserved'
  BY <1>5, ReadAgainDoes, ReservedKept
<1>6. ASSUME NEW p \in Pollers, LookLocal(p) PROVE Reserved'
  BY <1>6, LookDoes, ReservedKept
<1>7. ASSUME NEW p \in Pollers, WriteLocal(p) PROVE Reserved'
  BY <1>7, WriteDoes, ReservedKept
<1>8. ASSUME NEW p \in Pollers, Reserve(p) PROVE Reserved'
  BY <1>8, ReserveDoes, ReservedKept DEF Types
<1>9. ASSUME NEW p \in Pollers, InspectBeforeNetwork(p) PROVE Reserved'
  BY <1>9, BeforeNetworkDoes, SentinelStays, ReservedKept
<1>10. ASSUME NEW p \in Pollers, CapabilityMissing(p) PROVE Reserved'
  BY <1>10, CapabilityDoes, ReservedKept 
<1>11. ASSUME NEW p \in Pollers, Network(p) PROVE Reserved'
  BY <1>11, NetworkDoes, ReservedKept 
<1>12. ASSUME NEW p \in Pollers, ReadFails(p) PROVE Reserved'
  BY <1>12, ReadFailsDoes, ReservedKept 
<1>13. ASSUME NEW p \in Pollers, InspectBeforePublish(p) PROVE Reserved'
  BY <1>13, BeforePublishDoes, ReservedKept 
<1>14. ASSUME NEW p \in Pollers, Archive(p) PROVE Reserved'
  BY <1>14, ArchiveDoes, ArchivedBefore, HandoffBounds DEF Owned, Inside, Past, Reserved
<1>15. ASSUME NEW p \in Pollers, PublishCurrent(p) PROVE Reserved'
  BY <1>15, PublishDoes, ReservedKept 
<1>16. ASSUME NEW p \in Pollers, Alert(p) PROVE Reserved'
  BY <1>16, AlertDoes, ReservedKept 
<1>17. ASSUME NEW p \in Pollers, InspectBeforeReceipt(p) PROVE Reserved'
  BY <1>17, BeforeReceiptDoes, ReservedKept 
<1>18. ASSUME NEW p \in Pollers, StoreReceipt(p) PROVE Reserved'
  BY <1>18, StoreReceiptDoes, ReservedKept 
<1>19. ASSUME NEW p \in Pollers, Finish(p) PROVE Reserved'
  BY <1>19, FinishDoes, SentinelStays, ReservedKept DEF FinalStatus
<1>20. ASSUME NEW p \in Pollers, PollDies(p) PROVE Reserved'
  BY <1>20, PollDiesDoes, ReservedKept 
<1> QED
  BY <1>1, <1>2, <1>3, <1>4, <1>5, <1>6, <1>7, <1>8, <1>9, <1>10, <1>11, <1>12, <1>13, <1>14,
     <1>15, <1>16, <1>17, <1>18, <1>19, <1>20, OthersDo DEF Next

LEMMA AgreesHere ==
  ASSUME Consonant, NEW p \in Pollers
  PROVE  Agrees(poll[p].at, poll[p].src, poll[p].result, archive)
BY DEF Consonant

LEMMA ConsonantMoves ==
  ASSUME Consonant, UNCHANGED archive,
         NEW p \in Pollers, NEW at, NEW src, NEW prev, NEW result, NEW published,
         Moves(p, at, src, prev, result, published),
         Agrees(at, src, result, archive)
  PROVE  Consonant'
BY DEF Consonant, Moves, Agrees

LEMMA ConsonantEnds ==
  ASSUME Consonant, UNCHANGED archive, NEW p \in Pollers, Ends(p)
  PROVE  Consonant'
<1>1. PICK at \in {"idle", "look", "write"} :
        \E src, prev, result : Moves(p, at, src, prev, result, FALSE)
  BY DEF Ends
<1>2. \A src, result : Agrees(at, src, result, archive)
  BY DEF Agrees, Past
<1> QED
  BY <1>1, <1>2, ConsonantMoves

LEMMA ConsonantFails ==
  ASSUME Consonant, UNCHANGED archive, NEW p \in Pollers, NEW status \in FailureStatuses,
         Fails(p, status)
  PROVE  Consonant'
<1>1. PICK r \in Shadows :
        r.status = status /\ Moves(p, "alert", poll[p].src, poll[p].prev, r, poll[p].published)
  BY DEF Fails
<1>2. Agrees("alert", poll[p].src, r, archive)
  BY <1>1, StatusFacts DEF Agrees, Past
<1> QED
  BY <1>1, <1>2, ConsonantMoves

LEMMA ConsonantGoesOn ==
  ASSUME Consonant, UNCHANGED archive,
         NEW p \in Pollers, NEW at, NEW src, NEW prev, NEW result, NEW published,
         Moves(p, at, src, prev, result, published),
         poll[p].at \in Inside \ {"window", "network"}, src = poll[p].src,
         result.status = poll[p].result.status,
         at \in {"window", "network", "publish", "archive"} => poll[p].at = "publish"
  PROVE  Consonant'
<1>1. Agrees(at, src, result, archive)
  BY AgreesHere DEF Agrees, Inside, Past
<1> QED
  BY <1>1, ConsonantMoves

LEMMA ConsonantAssessed ==
  ASSUME Consonant, UNCHANGED archive, NEW p \in Pollers, poll[p].at = "network",
         NEW src, NEW status, Assessed(p, src, status)
  PROVE  Consonant'
<1>1. PICK r \in Shadows : Moves(p, "publish", poll[p].src, poll[p].prev, r, poll[p].published)
  BY DEF Assessed
<1>2. Agrees("publish", poll[p].src, r, archive)
  BY AgreesHere DEF Agrees
<1> QED
  BY <1>1, <1>2, ConsonantMoves

\* Nothing contradicts a pass
LEMMA ConsonantStep ==
  ASSUME Types, Owned, Judgement, Kept, Reserved, Consonant, [Next]_vars
  PROVE  Consonant'
<1>1. ASSUME UNCHANGED <<poll, shadow, archive, receipts, sentinel, collected>> PROVE Consonant'
  BY <1>1 DEF Consonant
<1>2. ASSUME NEW p \in Pollers, ReadHandoff(p) PROVE Consonant'
  BY <1>2, ReadHandoffDoes, ConsonantMoves DEF Agrees, Past
<1>3. ASSUME NEW p \in Pollers, ReadPrevious(p) PROVE Consonant'
  BY <1>3, ReadPreviousDoes, ConsonantEnds, ConsonantMoves DEF Agrees, Past
<1>4. ASSUME NEW p \in Pollers, Disabled(p) PROVE Consonant'
  BY <1>4, DisabledDoes, ConsonantEnds
<1>5. ASSUME NEW p \in Pollers, ReadAgain(p) PROVE Consonant'
  BY <1>5, ReadAgainDoes, ConsonantEnds, ConsonantMoves DEF Agrees, Past
<1>6. ASSUME NEW p \in Pollers, LookLocal(p) PROVE Consonant'
  BY <1>6, LookDoes, ConsonantEnds
<1>7. ASSUME NEW p \in Pollers, WriteLocal(p) PROVE Consonant'
  BY <1>7, WriteDoes, ConsonantEnds
<1>8. ASSUME NEW p \in Pollers, Reserve(p) PROVE Consonant'
  <2>1. UNCHANGED archive
    BY <1>8, ReserveDoes
  <2>2. CASE Ends(p)
    BY <2>1, <2>2, ConsonantEnds
  <2>3. CASE /\ poll[p].src \in Stage3 /\ sentinel[poll[p].src] = "none"
             /\ Moves(p, "window", poll[p].src, poll[p].prev, poll[p].result, poll[p].published)
    <3>1. Agrees("window", poll[p].src, poll[p].result, archive)
      BY <2>3 DEF Reserved, Agrees, Past
    <3> QED
      BY <2>1, <2>3, <3>1, ConsonantMoves
  <2> QED
    BY <1>8, <2>2, <2>3, ReserveDoes
<1>9. ASSUME NEW p \in Pollers, InspectBeforeNetwork(p) PROVE Consonant'
  <2>1. UNCHANGED archive /\ poll[p].at = "window"
    BY <1>9, BeforeNetworkDoes
  <2>2. CASE Ends(p)
    BY <2>1, <2>2, ConsonantEnds
  <2>3. CASE Moves(p, "network", poll[p].src, poll[p].prev, poll[p].result, poll[p].published)
    <3>1. Agrees("network", poll[p].src, poll[p].result, archive)
      BY <2>1, AgreesHere DEF Agrees, Past
    <3> QED
      BY <2>1, <2>3, <3>1, ConsonantMoves
  <2> QED
    BY <1>9, <2>2, <2>3, BeforeNetworkDoes
<1>10. ASSUME NEW p \in Pollers, CapabilityMissing(p) PROVE Consonant'
  BY <1>10, CapabilityDoes, ConsonantAssessed
<1>11. ASSUME NEW p \in Pollers, Network(p) PROVE Consonant'
  BY <1>11, NetworkDoes, ConsonantAssessed
<1>12. ASSUME NEW p \in Pollers, ReadFails(p) PROVE Consonant'
  BY <1>12, ReadFailsDoes, ConsonantEnds
<1>13. ASSUME NEW p \in Pollers, InspectBeforePublish(p) PROVE Consonant'
  BY <1>13, BeforePublishDoes, ConsonantFails, ConsonantGoesOn DEF FailureStatuses, Inside, Past
<1>14. ASSUME NEW p \in Pollers, Archive(p) PROVE Consonant'
  <2>1. /\ poll[p].at = "archive" /\ poll[p].src \in Stage3
        /\ poll[p].result.src \in {poll[p].src, NoStage3}
        /\ \A q \in Pollers \ {p} : poll'[q] = poll[q]
    BY <1>14, ArchiveDoes DEF Owned, Judgement, Inside, Past, Fails, Moves
  <2>2. ASSUME NEW q \in Pollers, q # p
        PROVE  Agrees(poll[q].at, poll[q].src, poll[q].result, archive')
    <3>1. ASSUME poll[q].at \in Inside PROVE poll[q].src \in Stage3 /\ poll[q].src # poll[p].src
      BY <2>1, <2>2, <3>1 DEF Owned, Works, Inside, Past
    <3>2. ASSUME NEW r \in archive', r.src = poll[q].src, poll[q].at \in Inside
          PROVE  \E k \in archive : k.src = r.src /\ k.status = r.status
      BY <1>14, <2>1, <3>1, <3>2, ArchivedBefore, HandoffBounds
    <3> QED
      BY <3>2, AgreesHere DEF Agrees, Inside, Past
  <2>3. ASSUME NEW r \in archive', r.src = poll[p].src
        PROVE  r = poll[p].result
    BY <1>14, <2>1, <2>3, ArchivedBefore, AgreesHere DEF Agrees
  <2>4. Agrees(poll'[p].at, poll'[p].src, poll'[p].result, archive')
    <3>1. CASE Moves(p, "current", poll[p].src, poll[p].prev, poll[p].result, poll[p].published)
      BY <2>3, <3>1 DEF Moves, Agrees
    <3>2. CASE Fails(p, "TRANSIENT")
      BY <3>2, StatusFacts DEF Fails, Moves, Agrees, FailureStatuses, PassStatus
    <3> QED
      BY <1>14, <3>1, <3>2, ArchiveDoes
  <2> QED
    BY <2>1, <2>2, <2>4 DEF Consonant
<1>15. ASSUME NEW p \in Pollers, PublishCurrent(p) PROVE Consonant'
  BY <1>15, PublishDoes, ConsonantFails, ConsonantGoesOn DEF FailureStatuses, Inside, Past
<1>16. ASSUME NEW p \in Pollers, Alert(p) PROVE Consonant'
  BY <1>16, AlertDoes, ConsonantGoesOn DEF Inside, Past
<1>17. ASSUME NEW p \in Pollers, InspectBeforeReceipt(p) PROVE Consonant'
  BY <1>17, BeforeReceiptDoes, ConsonantGoesOn DEF Inside, Past
<1>18. ASSUME NEW p \in Pollers, StoreReceipt(p) PROVE Consonant'
  BY <1>18, StoreReceiptDoes, ConsonantGoesOn DEF Inside, Past
<1>19. ASSUME NEW p \in Pollers, Finish(p) PROVE Consonant'
  BY <1>19, FinishDoes, ConsonantEnds
<1>20. ASSUME NEW p \in Pollers, PollDies(p) PROVE Consonant'
  BY <1>20, PollDiesDoes, ConsonantEnds
<1> QED
  BY <1>1, <1>2, <1>3, <1>4, <1>5, <1>6, <1>7, <1>8, <1>9, <1>10, <1>11, <1>12, <1>13, <1>14,
     <1>15, <1>16, <1>17, <1>18, <1>19, <1>20, OthersDo DEF Next

-----------------------------------------------------------------------------
(* What a SUCCESS says.                                                    *)

Evidence(s, kept, stored) ==
  /\ [src |-> s, status |-> PassStatus, alert |-> "PENDING"] \in kept
  /\ \E r \in stored : r.src = s /\ r.status = PassStatus /\ r.alert # "PENDING"
  /\ ~ \E r \in kept : r.src = s /\ r.status \in FailureStatuses

LEMMA EvidenceHere ==
  ASSUME SuccessHasEvidence, NEW s \in Stage3, sentinel[s] = "SUCCESS"
  PROVE  collected[s] = 1 /\ Evidence(s, archive, receipts)
BY DEF SuccessHasEvidence, Evidence

LEMMA EvidenceKept ==
  ASSUME SuccessHasEvidence, UNCHANGED archive, receipts \subseteq receipts',
         \A s \in Stage3 : sentinel'[s] = "SUCCESS" =>
           sentinel[s] = "SUCCESS" /\ collected'[s] = collected[s]
  PROVE  SuccessHasEvidence'
BY DEF SuccessHasEvidence

LEMMA EvidenceCompleted ==
  ASSUME SuccessHasEvidence, Types, Owned, UNCHANGED <<archive, receipts, collected>>,
         NEW p \in Pollers, poll[p].at \in Inside, Completes(p, "FAILED")
  PROVE  SuccessHasEvidence'
BY EvidenceKept DEF Types, Owned, Completes

\* A SUCCESS keeps its evidence
LEMMA EvidenceStep ==
  ASSUME Types, Owned, Judgement, Kept, Consonant, SuccessHasEvidence, [Next]_vars
  PROVE  SuccessHasEvidence'
<1>1. ASSUME UNCHANGED <<poll, shadow, archive, receipts, sentinel, collected>>
      PROVE  SuccessHasEvidence'
  BY <1>1 DEF SuccessHasEvidence
<1>2. ASSUME NEW p \in Pollers, ReadHandoff(p) PROVE SuccessHasEvidence'
  BY <1>2, ReadHandoffDoes, EvidenceKept DEF Types
<1>3. ASSUME NEW p \in Pollers, ReadPrevious(p) PROVE SuccessHasEvidence'
  BY <1>3, ReadPreviousDoes, EvidenceKept DEF Types
<1>4. ASSUME NEW p \in Pollers, Disabled(p) PROVE SuccessHasEvidence'
  BY <1>4, DisabledDoes, EvidenceKept DEF Types
<1>5. ASSUME NEW p \in Pollers, ReadAgain(p) PROVE SuccessHasEvidence'
  BY <1>5, ReadAgainDoes, EvidenceKept DEF Types
<1>6. ASSUME NEW p \in Pollers, LookLocal(p) PROVE SuccessHasEvidence'
  BY <1>6, LookDoes, EvidenceKept DEF Types
<1>7. ASSUME NEW p \in Pollers, WriteLocal(p) PROVE SuccessHasEvidence'
  BY <1>7, WriteDoes, EvidenceKept DEF Types
<1>8. ASSUME NEW p \in Pollers, Reserve(p) PROVE SuccessHasEvidence'
  BY <1>8, ReserveDoes, EvidenceKept DEF Types
<1>9. ASSUME NEW p \in Pollers, InspectBeforeNetwork(p) PROVE SuccessHasEvidence'
  BY <1>9, BeforeNetworkDoes, EvidenceKept, EvidenceCompleted DEF Inside
<1>10. ASSUME NEW p \in Pollers, CapabilityMissing(p) PROVE SuccessHasEvidence'
  BY <1>10, CapabilityDoes, EvidenceKept DEF Types
<1>11. ASSUME NEW p \in Pollers, Network(p) PROVE SuccessHasEvidence'
  <2>1. PICK n \in {0, 1} : collected' = [collected EXCEPT ![poll[p].src] = @ + n]
    BY <1>11, NetworkDoes
  <2>2. UNCHANGED <<archive, receipts, sentinel>> /\ sentinel[poll[p].src] # "SUCCESS"
    BY <1>11, NetworkDoes DEF Owned, Works, Inside
  <2> QED
    BY <2>1, <2>2, EvidenceKept DEF Types
<1>12. ASSUME NEW p \in Pollers, ReadFails(p) PROVE SuccessHasEvidence'
  BY <1>12, ReadFailsDoes, EvidenceKept DEF Types
<1>13. ASSUME NEW p \in Pollers, InspectBeforePublish(p) PROVE SuccessHasEvidence'
  BY <1>13, BeforePublishDoes, EvidenceKept DEF Types
<1>14. ASSUME NEW p \in Pollers, Archive(p) PROVE SuccessHasEvidence'
  <2>1. /\ poll[p].at = "archive" /\ archive \subseteq archive'
        /\ UNCHANGED <<receipts, sentinel, collected>>
    BY <1>14, ArchiveDoes
  <2>2. ASSUME NEW s \in Stage3, sentinel[s] = "SUCCESS"
        PROVE  collected[s] = 1 /\ Evidence(s, archive', receipts')
    <3>1. poll[p].src # s
      BY <2>1, <2>2 DEF Owned, Works, Inside, Past
    <3>2. collected[s] = 1 /\ Evidence(s, archive, receipts)
      BY <2>2, EvidenceHere
    <3>3. ASSUME NEW r \in archive', r.src = s PROVE r.status \notin FailureStatuses
      BY <1>14, <3>1, <3>2, <3>3, ArchivedBefore, HandoffBounds DEF Evidence
    <3> QED
      BY <2>1, <3>2, <3>3 DEF Evidence
  <2> QED
    BY <2>1, <2>2 DEF SuccessHasEvidence, Evidence
<1>15. ASSUME NEW p \in Pollers, PublishCurrent(p) PROVE SuccessHasEvidence'
  BY <1>15, PublishDoes, EvidenceKept DEF Types
<1>16. ASSUME NEW p \in Pollers, Alert(p) PROVE SuccessHasEvidence'
  BY <1>16, AlertDoes, EvidenceKept DEF Types
<1>17. ASSUME NEW p \in Pollers, InspectBeforeReceipt(p) PROVE SuccessHasEvidence'
  BY <1>17, BeforeReceiptDoes, EvidenceKept DEF Types
<1>18. ASSUME NEW p \in Pollers, StoreReceipt(p) PROVE SuccessHasEvidence'
  BY <1>18, StoreReceiptDoes, EvidenceKept DEF Types
<1>19. ASSUME NEW p \in Pollers, Finish(p) PROVE SuccessHasEvidence'
  <2>1. /\ poll[p].at = "finish" /\ UNCHANGED <<archive, receipts, collected>>
        /\ Completes(p, FinalStatus(p))
    BY <1>19, FinishDoes
  <2>2. CASE FinalStatus(p) = "FAILED"
    BY <2>1, <2>2, EvidenceCompleted DEF Inside, Past
  <2>3. CASE FinalStatus(p) = "SUCCESS"
    <3> DEFINE s == poll[p].src
               pass == [src |-> s, status |-> PassStatus, alert |-> "PENDING"]
    <3>1. poll[p].result.status = PassStatus /\ poll[p].published
      BY <2>3 DEF FinalStatus
    <3>2. /\ s \in Stage3 /\ poll[p].result \in Shadows
          /\ poll[p].result.src = s /\ collected[s] = 1
      BY <2>1, <3>1 DEF Owned, Judgement, Inside, Past
    <3>3. pass \in archive
      BY <2>1, <3>1, <3>2, ShadowFacts DEF Kept
    <3>4. \A r \in archive : r.src = s => r.status = PassStatus
      BY <2>1, <3>1, AgreesHere DEF Agrees, Past
    <3>5. poll[p].result \in receipts /\ poll[p].result.alert # "PENDING"
      BY <2>1, <3>1 DEF Kept, Judgement
    <3>6. Evidence(s, archive, receipts)
      BY <3>1, <3>2, <3>3, <3>4, <3>5, StatusFacts DEF Evidence
    <3>7. \A t \in Stage3 : sentinel'[t] = "SUCCESS" => t = s \/ sentinel[t] = "SUCCESS"
      BY <2>1 DEF Completes, Types
    <3> HIDE DEF s
    <3> QED
      BY <2>1, <3>2, <3>6, <3>7, EvidenceHere DEF SuccessHasEvidence, Evidence
  <2> QED
    BY <2>2, <2>3 DEF FinalStatus
<1>20. ASSUME NEW p \in Pollers, PollDies(p) PROVE SuccessHasEvidence'
  BY <1>20, PollDiesDoes, EvidenceKept DEF Types
<1> QED
  BY <1>1, <1>2, <1>3, <1>4, <1>5, <1>6, <1>7, <1>8, <1>9, <1>10, <1>11, <1>12, <1>13, <1>14,
     <1>15, <1>16, <1>17, <1>18, <1>19, <1>20, OthersDo DEF Next

-----------------------------------------------------------------------------
(* The local artifact.                                                     *)

\* Who stores a terminal artifact blinds those who have looked before
LEMMA BlamelessWrites ==
  ASSUME Types, Blameless, NEW p \in Pollers, Writes(p),
         \A q \in Pollers \ {p} : poll'[q] = poll[q]
  PROVE  Blameless'
<1>1. SUFFICES ASSUME NEW q \in Pollers, poll'[q].at = "write", q \notin blind',
                      ~Terminal(poll'[q].prev)
               PROVE  ~Terminal(local')
  BY DEF Blameless, Terminal
<1>2. q # p /\ poll'[q] = poll[q]
  BY <1>1 DEF Writes
<1>3. q \notin blind => ~Terminal(local)
  BY <1>1, <1>2 DEF Blameless
<1>4. PICK r : MaySaveLocal(p, r)
  BY DEF Writes
<1>5. CASE UNCHANGED artifact
  BY <1>1, <1>3, <1>5 DEF artifact, Terminal
<1>6. CASE SaveLocal(p, r)
  <2>1. ~(q \in blind \/ (~Terminal(local) /\ Terminal(r)))
    BY <1>1, <1>2, <1>6 DEF SaveLocal
  <2>2. ~Terminal(r)
    BY <1>3, <2>1
  <2> QED
    BY <1>6, <2>2 DEF SaveLocal, Terminal
<1> QED
  BY <1>4, <1>5, <1>6 DEF MaySaveLocal

\* Who looks at a terminal artifact without one of its own to restore, keeps it
LEMMA BlamelessLooks ==
  ASSUME Types, Judgement, Blameless, NEW p \in Pollers, LookLocal(p)
  PROVE  Blameless'
<1>1. /\ UNCHANGED local
      /\ \A q \in Pollers \ {p} : poll'[q] = poll[q] /\ (q \in blind' <=> q \in blind)
  BY LookDoes DEF Ends, Moves
<1>2. SUFFICES ASSUME NEW q \in Pollers, poll'[q].at = "write", q \notin blind',
                      ~Terminal(poll'[q].prev)
               PROVE  ~Terminal(local)
  BY <1>1 DEF Blameless, Terminal
<1>3. CASE q # p
  BY <1>1, <1>2, <1>3 DEF Blameless
<1>4. CASE q = p
  BY <1>2, <1>4, LookDoes DEF Preserved
<1> QED
  BY <1>3, <1>4

\* Whoever does anything else writes the local file without having looked
LEMMA OthersWrite ==
  ASSUME Types, Owned, Judgement, NEW p \in Pollers,
         \/ ReadHandoff(p) \/ ReadPrevious(p) \/ Disabled(p) \/ ReadAgain(p) \/ Reserve(p)
         \/ WriteLocal(p) \/ InspectBeforeNetwork(p) \/ CapabilityMissing(p)
         \/ Network(p) \/ ReadFails(p)
         \/ InspectBeforePublish(p) \/ Archive(p) \/ PublishCurrent(p) \/ Alert(p)
         \/ InspectBeforeReceipt(p) \/ StoreReceipt(p) \/ Finish(p) \/ PollDies(p)
  PROVE  Writes(p) /\ \A q \in Pollers \ {p} : poll'[q] = poll[q]
<1> DEFINE Alone == \A q \in Pollers \ {p} : poll'[q] = poll[q]
<1>1. ASSUME NEW at, NEW src, NEW prev, NEW result, NEW published,
             Moves(p, at, src, prev, result, published)
      PROVE  Alone
  BY <1>1 DEF Moves
<1>2. Ends(p) => Alone
  BY <1>1 DEF Ends
<1>3. ASSUME NEW src, NEW status, Assessed(p, src, status) PROVE Alone
  BY <1>1, <1>3 DEF Assessed
<1>4. ASSUME NEW status, Fails(p, status) PROVE Alone
  BY <1>1, <1>4 DEF Fails
<1> HIDE DEF Alone
<1>5. ASSUME \/ ReadHandoff(p) \/ ReadPrevious(p) \/ Disabled(p) \/ ReadAgain(p) \/ Reserve(p)
             \/ WriteLocal(p) \/ InspectBeforeNetwork(p) \/ ReadFails(p) \/ Finish(p) \/ PollDies(p)
      PROVE  Writes(p) /\ Alone
  BY <1>1, <1>2, <1>5, ReadHandoffDoes, ReadPreviousDoes, DisabledDoes, ReadAgainDoes,
     ReserveDoes, WriteDoes, BeforeNetworkDoes, ReadFailsDoes, FinishDoes, PollDiesDoes
<1>6. ASSUME CapabilityMissing(p) \/ Network(p) PROVE Writes(p) /\ Alone
  BY <1>3, <1>6, CapabilityDoes, NetworkDoes
<1>7. ASSUME InspectBeforePublish(p) \/ Archive(p) \/ PublishCurrent(p) PROVE Writes(p) /\ Alone
  BY <1>1, <1>4, <1>7, BeforePublishDoes, ArchiveDoes, PublishDoes
<1>8. ASSUME Alert(p) \/ InspectBeforeReceipt(p) \/ StoreReceipt(p) PROVE Writes(p) /\ Alone
  BY <1>1, <1>8, AlertDoes, BeforeReceiptDoes, StoreReceiptDoes
<1> QED
  BY <1>5, <1>6, <1>7, <1>8 DEF Alone

\* A poll that is not blind knows what it replaces
LEMMA BlamelessStep ==
  ASSUME Types, Owned, Judgement, Blameless, [Next]_vars
  PROVE  Blameless'
<1>1. ASSUME UNCHANGED <<poll, local, blind>> PROVE Blameless'
  BY <1>1 DEF Blameless, Terminal
<1>2. ASSUME NEW p \in Pollers, LookLocal(p) PROVE Blameless'
  BY <1>2, BlamelessLooks
<1>3. ASSUME NEW p \in Pollers, Writes(p), \A q \in Pollers \ {p} : poll'[q] = poll[q]
      PROVE  Blameless'
  BY <1>3, BlamelessWrites
<1> QED
  BY <1>1, <1>2, <1>3, OthersWrite, OthersDo DEF Next

-----------------------------------------------------------------------------
(* Types.                                                                  *)

LEMMA MovesTyped ==
  ASSUME NEW p, NEW at, NEW src, NEW prev, NEW result, NEW published,
         Moves(p, at, src, prev, result, published)
  PROVE  poll' \in [Pollers -> Polls]
BY DEF Moves

LEMMA EndsTyped == ASSUME NEW p, Ends(p) PROVE poll' \in [Pollers -> Polls]
BY DEF Ends, Moves

LEMMA SentinelTyped ==
  ASSUME Types, NEW p, NEW status \in {"FAILED", "SUCCESS"}, Completes(p, status)
  PROVE  sentinel' \in [Stage3 -> {"none", "IN_PROGRESS", "SUCCESS", "FAILED"}]
BY DEF Types, Completes

LEMMA ResultTyped ==
  ASSUME Judgement, NEW p \in Pollers, poll[p].at \in Past
  PROVE  poll[p].result \in Shadows
BY DEF Judgement

\* The parts of the state that the proofs need keep their types
LEMMA TypesStep ==
  ASSUME Types, Owned, Judgement, [Next]_vars
  PROVE  Types'
<1>1. ASSUME UNCHANGED <<poll, shadow, archive, receipts, sentinel, collected>>,
             intact' \subseteq intact
      PROVE  Types'
  BY <1>1 DEF Types
<1>2. ASSUME NEW p \in Pollers, ReadHandoff(p) PROVE Types'
  <2>1. poll' \in [Pollers -> Polls]
    BY <1>2, ReadHandoffDoes, MovesTyped, EndsTyped
  <2> QED
    BY <1>2, <2>1, ReadHandoffDoes DEF Types, ReadHandoff, drive
<1>3. ASSUME NEW p \in Pollers, ReadPrevious(p) PROVE Types'
  <2>1. poll' \in [Pollers -> Polls]
    BY <1>3, ReadPreviousDoes, MovesTyped, EndsTyped
  <2> QED
    BY <1>3, <2>1, ReadPreviousDoes DEF Types, ReadPrevious, drive
<1>4. ASSUME NEW p \in Pollers, Disabled(p) PROVE Types'
  <2>1. poll' \in [Pollers -> Polls]
    BY <1>4, DisabledDoes, MovesTyped, EndsTyped
  <2> QED
    BY <1>4, <2>1, DisabledDoes DEF Types, Disabled, drive
<1>5. ASSUME NEW p \in Pollers, ReadAgain(p) PROVE Types'
  <2>1. poll' \in [Pollers -> Polls]
    BY <1>5, ReadAgainDoes, MovesTyped, EndsTyped
  <2> QED
    BY <1>5, <2>1, ReadAgainDoes DEF Types, ReadAgain, drive
<1>6. ASSUME NEW p \in Pollers, LookLocal(p) PROVE Types'
  <2>1. poll' \in [Pollers -> Polls]
    BY <1>6, LookDoes, MovesTyped, EndsTyped
  <2> QED
    BY <1>6, <2>1, LookDoes DEF Types, LookLocal, drive
<1>7. ASSUME NEW p \in Pollers, WriteLocal(p) PROVE Types'
  <2>1. poll' \in [Pollers -> Polls]
    BY <1>7, WriteDoes, MovesTyped, EndsTyped
  <2> QED
    BY <1>7, <2>1, WriteDoes DEF Types, WriteLocal, drive
<1>8. ASSUME NEW p \in Pollers, Reserve(p) PROVE Types'
  <2>1. poll' \in [Pollers -> Polls]
    BY <1>8, ReserveDoes, MovesTyped, EndsTyped
  <2> QED
    BY <1>8, <2>1, ReserveDoes DEF Types, Reserve, drive
<1>9. ASSUME NEW p \in Pollers, InspectBeforeNetwork(p) PROVE Types'
  <2>1. poll' \in [Pollers -> Polls]
    BY <1>9, BeforeNetworkDoes, MovesTyped, EndsTyped
  <2> QED
    BY <1>9, <2>1, BeforeNetworkDoes, SentinelTyped DEF Types, InspectBeforeNetwork, drive
<1>10. ASSUME NEW p \in Pollers, CapabilityMissing(p) PROVE Types'
  <2>1. poll' \in [Pollers -> Polls]
    BY <1>10, CapabilityDoes, MovesTyped DEF Assessed
  <2> QED
    BY <1>10, <2>1, CapabilityDoes DEF Types, CapabilityMissing, drive
<1>11. ASSUME NEW p \in Pollers, Network(p) PROVE Types'
  <2>1. poll' \in [Pollers -> Polls]
    BY <1>11, NetworkDoes, MovesTyped DEF Assessed
  <2> QED
    <3>1. intact' = intact
      BY <1>11 DEF Network, drive
    <3>2. collected' \in [Stage3 -> Nat]
      BY <1>11, NetworkDoes DEF Types
    <3> QED
      BY <1>11, <2>1, <3>1, <3>2, NetworkDoes DEF Types
<1>12. ASSUME NEW p \in Pollers, ReadFails(p) PROVE Types'
  <2>1. poll' \in [Pollers -> Polls]
    BY <1>12, ReadFailsDoes, MovesTyped, EndsTyped
  <2> QED
    BY <1>12, <2>1, ReadFailsDoes DEF Types, ReadFails, drive
<1>13. ASSUME NEW p \in Pollers, InspectBeforePublish(p) PROVE Types'
  <2>1. poll' \in [Pollers -> Polls]
    BY <1>13, BeforePublishDoes, MovesTyped DEF Fails
  <2> QED
    BY <1>13, <2>1, BeforePublishDoes DEF Types, InspectBeforePublish, drive
<1>14. ASSUME NEW p \in Pollers, Archive(p) PROVE Types'
  <2>1. poll' \in [Pollers -> Polls] /\ UNCHANGED <<shadow, sentinel, collected>>
    BY <1>14, ArchiveDoes, MovesTyped DEF Fails
  <2>2. poll[p].at = "archive" /\ poll[p].prev \in Shadows \cup {Absent}
    BY <1>14, ArchiveDoes DEF Types, Polls
  <2>3. archive' \subseteq Shadows
    BY <1>14, <2>2, ArchiveDoes, ResultTyped DEF Types, Past
  <2> QED
    BY <1>14, <2>1, <2>3 DEF Types, Archive, drive
<1>15. ASSUME NEW p \in Pollers, PublishCurrent(p) PROVE Types'
  <2>1. poll' \in [Pollers -> Polls]
    BY <1>15, PublishDoes, MovesTyped DEF Fails
  <2> QED
    BY <1>15, <2>1, PublishDoes, ResultTyped DEF Types, PublishCurrent, drive, Past
<1>16. ASSUME NEW p \in Pollers, Alert(p) PROVE Types'
  <2>1. poll' \in [Pollers -> Polls]
    BY <1>16, AlertDoes, MovesTyped, EndsTyped
  <2> QED
    BY <1>16, <2>1, AlertDoes DEF Types, Alert, drive
<1>17. ASSUME NEW p \in Pollers, InspectBeforeReceipt(p) PROVE Types'
  <2>1. poll' \in [Pollers -> Polls]
    BY <1>17, BeforeReceiptDoes, MovesTyped, EndsTyped
  <2> QED
    BY <1>17, <2>1, BeforeReceiptDoes DEF Types, InspectBeforeReceipt, drive
<1>18. ASSUME NEW p \in Pollers, StoreReceipt(p) PROVE Types'
  <2>1. poll' \in [Pollers -> Polls]
    BY <1>18, StoreReceiptDoes, MovesTyped, EndsTyped
  <2> QED
    BY <1>18, <2>1, StoreReceiptDoes, ResultTyped DEF Types, StoreReceipt, drive, Past
<1>19. ASSUME NEW p \in Pollers, Finish(p) PROVE Types'
  <2>1. poll' \in [Pollers -> Polls]
    BY <1>19, FinishDoes, MovesTyped, EndsTyped
  <2> QED
    BY <1>19, <2>1, FinishDoes, SentinelTyped DEF Types, Finish, drive, FinalStatus
<1>20. ASSUME NEW p \in Pollers, PollDies(p) PROVE Types'
  <2>1. poll' \in [Pollers -> Polls]
    BY <1>20, PollDiesDoes, MovesTyped, EndsTyped
  <2> QED
    BY <1>20, <2>1, PollDiesDoes DEF Types, PollDies, drive
<1> QED
  BY <1>1, <1>2, <1>3, <1>4, <1>5, <1>6, <1>7, <1>8, <1>9, <1>10, <1>11, <1>12, <1>13, <1>14,
     <1>15, <1>16, <1>17, <1>18, <1>19, <1>20, OthersDo DEF Next

-----------------------------------------------------------------------------
(* The invariant, and what follows from it.                                *)

LEMMA InitInvariant == Init => IInv
<1> SUFFICES ASSUME Init PROVE IInv
  OBVIOUS
<1>1. \A p \in Pollers : poll[p] = Idle
  BY DEF Init
<1>2. Types
  BY DEF Init, Types, Polls, Idle, Steps, Outside
<1>3. Owned /\ Judgement /\ Kept
  BY <1>1 DEF Init, Owned, Judgement, Kept, Works, Idle, Inside, Aware, Past
<1>4. Reserved /\ Consonant /\ SuccessHasEvidence /\ Blameless
  BY <1>1, StatusFacts DEF Init, Reserved, Consonant, Agrees, SuccessHasEvidence, Blameless, Idle
<1> QED
  BY <1>2, <1>3, <1>4 DEF IInv

LEMMA StepInvariant == IInv /\ [Next]_vars => IInv'
BY TypesStep, OwnedStep, JudgementStep, KeptStep, ReservedStep, ConsonantStep, EvidenceStep,
   BlamelessStep DEF IInv

\* Every behaviour keeps the invariant.
THEOREM Invariant == Spec => []IInv
BY InitInvariant, StepInvariant, PTL DEF Spec

\* Whatever polls overlap, die or repeat, and however often a Stage3 file is
\* dispatched, Toss is asked at most once about it
THEOREM AskedOnce == Spec => []OneCollectionPerStage3
<1>1. IInv => OneCollectionPerStage3
  BY DEF IInv, Owned, OneCollectionPerStage3
<1> QED
  BY <1>1, Invariant, PTL

\* The shadow in Drive is in the archive, in the form in which it was published
THEOREM Archived == Spec => []CurrentIsArchived
<1>1. IInv => CurrentIsArchived
  BY DEF IInv, Kept, Pending, CurrentIsArchived
<1> QED
  BY <1>1, Invariant, PTL

\* A sentinel that says SUCCESS is backed by a collection that sent requests, by
\* a receipt of the pass and the outcome of its alert stored in Drive, and by an
\* archived pass that nothing in the archive contradicts
THEOREM SuccessIsBacked == Spec => []SuccessHasEvidence
<1>1. IInv => SuccessHasEvidence
  BY DEF IInv
<1> QED
  BY <1>1, Invariant, PTL

-----------------------------------------------------------------------------
(* The local artifact.                                                     *)

\* A poll that replaces a terminal artifact by its diagnostic is blind: it could
\* not read the file, or read it before the artifact was stored
THEOREM TerminalLostOnlyInRace == Spec => TerminalLostOnlyBlindly
<1> DEFINE Lost(p) ==
      WriteLocal(p) /\ Terminal(local) /\ local' # local =>
        p \in blind \/ (Terminal(poll[p].prev) /\ local' = poll[p].prev)
<1>1. ASSUME IInv, NEW p \in Pollers PROVE Lost(p)
  <2> SUFFICES ASSUME WriteLocal(p), Terminal(local), local' # local, p \notin blind
               PROVE  Terminal(poll[p].prev) /\ local' = poll[p].prev
    OBVIOUS
  <2>1. poll[p].at = "write" /\ local' = Replacement(poll[p].prev, poll[p].result)
    BY DEF WriteLocal, SaveLocal, artifact
  <2>2. Terminal(poll[p].prev)
    BY <1>1, <2>1 DEF IInv, Blameless
  <2> QED
    BY <2>1, <2>2 DEF Replacement
<1>2. IInv /\ [Next]_vars => [\A p \in Pollers : Lost(p)]_vars
  BY <1>1
<1> QED
  BY <1>2, Invariant, PTL DEF Spec, TerminalLostOnlyBlindly

-----------------------------------------------------------------------------
(* The promise of the reservation.                                         *)

LEMMA EnteredStep ==
  ASSUME Types, NEW p \in Pollers, NEW at, NEW src, NEW prev, NEW result, NEW published,
         Moves(p, at, src, prev, result, published), at \in Inside => src = poll[p].src
  PROVE  /\ at \in Inside /\ poll[p].at \in Inside => Entered' = Entered
         /\ at \in Inside => Entered' = Entered \cup {<<p, src>>}
         /\ at \notin Inside => Entered' = Entered \ {<<p, poll[p].src>>}
         /\ at \notin Inside /\ poll[p].at \notin Inside => Entered' = Entered
<1>1. /\ poll'[p].at = at /\ poll'[p].src = src
      /\ \A q \in Pollers \ {p} : poll'[q] = poll[q]
  BY DEF Moves
<1>2. \A e : e \in Entered <=> \E q \in Pollers : poll[q].at \in Inside /\ e = <<q, poll[q].src>>
  BY DEF Entered
<1>3. \A e : e \in Entered' <=>
        \E q \in Pollers : poll'[q].at \in Inside /\ e = <<q, poll'[q].src>>
  BY DEF Entered
<1>4. \A e : e \in Entered' <=>
        \/ at \in Inside /\ e = <<p, src>>
        \/ \E q \in Pollers \ {p} : poll[q].at \in Inside /\ e = <<q, poll[q].src>>
  BY <1>1, <1>3
<1>5. \A e : e \in Entered <=>
        \/ poll[p].at \in Inside /\ e = <<p, poll[p].src>>
        \/ \E q \in Pollers \ {p} : poll[q].at \in Inside /\ e = <<q, poll[q].src>>
  BY <1>2
<1>6. ASSUME at \in Inside, poll[p].at \in Inside PROVE Entered' = Entered
  BY <1>4, <1>5, <1>6
<1>7. ASSUME at \in Inside PROVE Entered' = Entered \cup {<<p, src>>}
  BY <1>4, <1>5, <1>7
<1>8. ASSUME at \notin Inside PROVE Entered' = Entered \ {<<p, poll[p].src>>}
  BY <1>4, <1>5, <1>8
<1>9. ASSUME at \notin Inside, poll[p].at \notin Inside PROVE Entered' = Entered
  BY <1>4, <1>5, <1>9
<1> QED
  BY <1>6, <1>7, <1>8, <1>9

LEMMA EnteredEnds ==
  ASSUME Types, NEW p \in Pollers, Ends(p)
  PROVE  Entered' = Entered \ {<<p, poll[p].src>>}
BY EnteredStep DEF Ends, Inside

LEMMA AskedIs == \A e : e \in Asked <=> \E s \in Stage3 : \E n \in 1..collected[s] : e = <<n, s>>
BY DEF Asked

LEMMA Unasked ==
  ASSUME Types, NEW s \in Stage3
  PROVE  Promise!Unasked(s) <=> collected[s] = 0
<1>1. collected[s] \in Nat
  BY DEF Types
<1>2. ASSUME collected[s] = 0, NEW e \in Asked PROVE e[2] # s
  BY <1>2, AskedIs
<1>3. ASSUME collected[s] # 0 PROVE <<1, s>> \in Asked
  BY <1>1, <1>3, AskedIs
<1> QED
  BY <1>2, <1>3 DEF Promise!Unasked

\* A poll that goes on, or ends without completing its sentinel
LEMMA PromiseQuiet ==
  ASSUME Types, Owned, UNCHANGED <<sentinel, collected>>,
         NEW p \in Pollers, NEW at, NEW src, NEW prev, NEW result, NEW published,
         Moves(p, at, src, prev, result, published),
         at \in Inside => poll[p].at \in Inside /\ src = poll[p].src
  PROVE  [Promise!Next]_Promise!vars
<1>1. Asked' = Asked /\ Succeeded' = Succeeded
  BY DEF Asked, Succeeded
<1>2. CASE at \in Inside \/ poll[p].at \notin Inside
  <2>1. Entered' = Entered
    BY <1>2, EnteredStep
  <2> QED
    BY <1>1, <2>1 DEF Promise!vars
<1>3. CASE at \notin Inside /\ poll[p].at \in Inside
  <2>1. poll[p].src \in Stage3
    BY <1>3 DEF Owned
  <2>2. Promise!Leave(p, poll[p].src)
    BY <1>1, <1>3, EnteredStep DEF Promise!Leave
  <2> QED
    BY <2>1, <2>2 DEF Promise!Next
<1> QED
  BY <1>2, <1>3

LEMMA PromiseEnds ==
  ASSUME Types, Owned, UNCHANGED <<sentinel, collected>>, NEW p \in Pollers, Ends(p)
  PROVE  [Promise!Next]_Promise!vars
BY PromiseQuiet DEF Ends, Inside

LEMMA PromiseTaken ==
  ASSUME Types, Owned, NEW p \in Pollers, Reserve(p)
  PROVE  [Promise!Next]_Promise!vars
<1>1. CASE sentinel' = sentinel /\ Ends(p)
  BY <1>1, ReserveDoes, PromiseEnds
<1>2. CASE ~(sentinel' = sentinel /\ Ends(p))
  <2> DEFINE s == poll[p].src
  <2>1. /\ s \in Stage3 /\ sentinel[s] = "none" /\ UNCHANGED collected
        /\ sentinel' = [sentinel EXCEPT ![s] = "IN_PROGRESS"]
        /\ Moves(p, "window", s, poll[p].prev, poll[p].result, poll[p].published)
    BY <1>2, ReserveDoes
  <2>2. Entered' = Entered \cup {<<p, s>>}
    BY <2>1, EnteredStep DEF Inside
  <2>3. Asked' = Asked /\ Succeeded' = Succeeded
    BY <2>1 DEF Asked, Succeeded, Types
  <2>4. Promise!Unasked(s)
    BY <2>1, Unasked DEF Owned
  <2>5. Promise!Admit(p, s)
    BY <2>2, <2>3, <2>4 DEF Promise!Admit
  <2> QED
    BY <2>1, <2>5 DEF Promise!Next
<1> QED
  BY <1>1, <1>2

LEMMA PromiseAsked ==
  ASSUME Types, Owned, NEW p \in Pollers, Network(p)
  PROVE  [Promise!Next]_Promise!vars
<1> DEFINE s == poll[p].src
<1>1. PICK status \in {PassStatus} \cup FailureStatuses, n \in {0, 1} :
        collected' = [collected EXCEPT ![s] = @ + n] /\ Assessed(p, s, status)
  BY NetworkDoes
<1>2. poll[p].at = "network" /\ s \in Stage3 /\ collected[s] = 0 /\ UNCHANGED sentinel
  BY NetworkDoes DEF Owned
<1>3. Entered' = Entered
  BY <1>1, <1>2, EnteredStep DEF Assessed, Inside, Past
<1>4. Succeeded' = Succeeded
  BY <1>2 DEF Succeeded
<1>5. CASE n = 0
  <2>1. collected' = collected
    BY <1>1, <1>2, <1>5 DEF Types
  <2> QED
    BY <1>3, <1>4, <2>1 DEF Promise!vars, Asked
<1>6. CASE n = 1
  <2>1. collected'[s] = 1 /\ \A t \in Stage3 \ {s} : collected'[t] = collected[t]
    BY <1>1, <1>2, <1>6 DEF Types
  <2>2. \A e : e \in Asked' <=> \E t \in Stage3 : \E k \in 1..collected'[t] : e = <<k, t>>
    BY DEF Asked
  <2>3. Asked' = Asked \cup {<<1, s>>}
    <3>1. \A k : k \in 1..1 <=> k = 1
      OBVIOUS
    <3>2. \A k : k \notin 1..0
      OBVIOUS
    <3> QED
      BY <1>2, <2>1, <2>2, <3>1, <3>2, AskedIs
  <2>4. <<p, s>> \in Entered
    BY <1>2 DEF Entered, Inside
  <2>5. Promise!Unasked(s)
    BY <1>2, Unasked
  <2>6. Promise!Ask(p, s, 1)
    BY <1>3, <1>4, <2>3, <2>4, <2>5 DEF Promise!Ask
  <2> QED
    BY <1>2, <2>6 DEF Promise!Next
<1> QED
  BY <1>5, <1>6

\* A poll that ends as a failure
LEMMA PromiseFailed ==
  ASSUME Types, Owned, UNCHANGED collected, NEW p \in Pollers, poll[p].at \in Inside,
         Completes(p, "FAILED"), Ends(p)
  PROVE  [Promise!Next]_Promise!vars
<1>1. poll[p].src \in Stage3
  BY DEF Owned
<1>2. Asked' = Asked /\ Succeeded' = Succeeded
  BY <1>1 DEF Asked, Succeeded, Completes, Types
<1>3. Entered' = Entered \ {<<p, poll[p].src>>}
  BY EnteredEnds
<1>4. Promise!Leave(p, poll[p].src)
  BY <1>2, <1>3 DEF Promise!Leave
<1> QED
  BY <1>1, <1>4 DEF Promise!Next

LEMMA PromiseConfirmed ==
  ASSUME Types, Owned, Judgement, NEW p \in Pollers, Finish(p)
  PROVE  [Promise!Next]_Promise!vars
<1> DEFINE s == poll[p].src
<1>1. /\ poll[p].at = "finish" /\ UNCHANGED collected
      /\ Completes(p, FinalStatus(p)) /\ Ends(p)
  BY FinishDoes
<1>2. poll[p].at \in Inside /\ s \in Stage3
  BY <1>1 DEF Owned, Inside, Past
<1>3. CASE FinalStatus(p) = "FAILED" \/ sentinel' = sentinel
  BY <1>1, <1>2, <1>3, PromiseFailed DEF Completes
<1>4. CASE FinalStatus(p) # "FAILED" /\ sentinel' # sentinel
  <2>1. sentinel' = [sentinel EXCEPT ![s] = "SUCCESS"] /\ poll[p].result.status = PassStatus
    BY <1>1, <1>4 DEF Completes, FinalStatus
  <2>2. collected[s] = 1
    BY <1>1, <2>1 DEF Judgement, Past
  <2>3. Succeeded' = Succeeded \cup {s} /\ Asked' = Asked
    BY <1>1, <1>2, <2>1 DEF Succeeded, Asked, Types
  <2>4. <<1, s>> \in Asked
    BY <1>2, <2>2, AskedIs
  <2>5. <<p, s>> \in Entered
    BY <1>1 DEF Entered, Inside
  <2>6. Entered' = Entered \ {<<p, s>>}
    BY <1>1, EnteredEnds
  <2>7. Promise!Confirm(p, s)
    BY <2>3, <2>4, <2>5, <2>6 DEF Promise!Confirm
  <2> QED
    BY <1>2, <2>7 DEF Promise!Next
<1> QED
  BY <1>3, <1>4

LEMMA PromiseStep ==
  ASSUME Types, Owned, Judgement, [Next]_vars
  PROVE  [Promise!Next]_Promise!vars
<1>1. ASSUME UNCHANGED <<poll, shadow, archive, receipts, sentinel, collected>>
      PROVE  [Promise!Next]_Promise!vars
  BY <1>1 DEF Promise!vars, Entered, Asked, Succeeded
<1>2. ASSUME NEW p \in Pollers, ReadHandoff(p) PROVE [Promise!Next]_Promise!vars
  BY <1>2, ReadHandoffDoes, PromiseQuiet DEF Inside, Past
<1>3. ASSUME NEW p \in Pollers, ReadPrevious(p) PROVE [Promise!Next]_Promise!vars
  BY <1>3, ReadPreviousDoes, PromiseEnds, PromiseQuiet DEF Inside
<1>4. ASSUME NEW p \in Pollers, Disabled(p) PROVE [Promise!Next]_Promise!vars
  BY <1>4, DisabledDoes, PromiseEnds
<1>5. ASSUME NEW p \in Pollers, ReadAgain(p) PROVE [Promise!Next]_Promise!vars
  BY <1>5, ReadAgainDoes, PromiseEnds, PromiseQuiet DEF Inside
<1>6. ASSUME NEW p \in Pollers, LookLocal(p) PROVE [Promise!Next]_Promise!vars
  BY <1>6, LookDoes, PromiseEnds
<1>7. ASSUME NEW p \in Pollers, WriteLocal(p) PROVE [Promise!Next]_Promise!vars
  BY <1>7, WriteDoes, PromiseEnds
<1>8. ASSUME NEW p \in Pollers, InspectBeforeNetwork(p) PROVE [Promise!Next]_Promise!vars
  BY <1>8, BeforeNetworkDoes, PromiseQuiet, PromiseFailed DEF Inside
<1>9. ASSUME NEW p \in Pollers, CapabilityMissing(p) PROVE [Promise!Next]_Promise!vars
  BY <1>9, CapabilityDoes, PromiseQuiet DEF Inside, Past, Assessed
<1>10. ASSUME NEW p \in Pollers, ReadFails(p) PROVE [Promise!Next]_Promise!vars
  BY <1>10, ReadFailsDoes, PromiseEnds
<1>11. ASSUME NEW p \in Pollers, InspectBeforePublish(p) PROVE [Promise!Next]_Promise!vars
  BY <1>11, BeforePublishDoes, PromiseQuiet DEF Inside, Past, Fails
<1>12. ASSUME NEW p \in Pollers, Archive(p) PROVE [Promise!Next]_Promise!vars
  BY <1>12, ArchiveDoes, PromiseQuiet DEF Inside, Past, Fails
<1>13. ASSUME NEW p \in Pollers, PublishCurrent(p) PROVE [Promise!Next]_Promise!vars
  BY <1>13, PublishDoes, PromiseQuiet DEF Inside, Past, Fails
<1>14. ASSUME NEW p \in Pollers, Alert(p) PROVE [Promise!Next]_Promise!vars
  BY <1>14, AlertDoes, PromiseQuiet DEF Inside, Past
<1>15. ASSUME NEW p \in Pollers, InspectBeforeReceipt(p) PROVE [Promise!Next]_Promise!vars
  BY <1>15, BeforeReceiptDoes, PromiseQuiet DEF Inside, Past
<1>16. ASSUME NEW p \in Pollers, StoreReceipt(p) PROVE [Promise!Next]_Promise!vars
  BY <1>16, StoreReceiptDoes, PromiseQuiet DEF Inside, Past
<1>17. ASSUME NEW p \in Pollers, PollDies(p) PROVE [Promise!Next]_Promise!vars
  BY <1>17, PollDiesDoes, PromiseEnds
<1> QED
  BY <1>1, <1>2, <1>3, <1>4, <1>5, <1>6, <1>7, <1>8, <1>9, <1>10, <1>11, <1>12, <1>13, <1>14,
     <1>15, <1>16, <1>17, PromiseTaken, PromiseAsked, PromiseConfirmed, OthersDo DEF Next

\* The sentinel of a Stage3 file keeps the promise of an exclusive reservation
THEOREM SentinelKeepsItsPromise == Spec => SentinelKeepsPromise
<1>1. Init => Promise!Init
  <2> SUFFICES ASSUME Init PROVE Promise!Init
    OBVIOUS
  <2>1. \A s \in Stage3 : collected[s] = 0 /\ sentinel[s] = "none"
    BY DEF Init
  <2>2. \A p \in Pollers : poll[p].at = "idle"
    BY DEF Init, Idle
  <2>3. Asked = {}
    BY <2>1, AskedIs
  <2> QED
    BY <2>1, <2>2, <2>3 DEF Promise!Init, Entered, Succeeded, Inside
<1>2. IInv /\ [Next]_vars => [Promise!Next]_Promise!vars
  BY PromiseStep DEF IInv
<1> QED
  BY <1>1, <1>2, Invariant, PTL DEF Spec, SentinelKeepsPromise, Promise!Spec

=============================================================================
