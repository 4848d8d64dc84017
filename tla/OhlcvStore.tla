------------------------------- MODULE OhlcvStore -------------------------------
(* The stored daily bars of the symbol and the lineage beside them (harvester.py, *)
(* sync_ohlcv_incremental), fed by the evidence of the stage-3 dispatch run.      *)
(*                                                                                *)
(* Prices are abstracted to their adjustment basis.  The vendor adjusts every bar *)
(* before a split or dividend as soon as it publishes the event, so the bar of    *)
(* date x downloaded on a day is told apart by the published events later than x. *)
(* A file is consistent when its bars differ only by the events between them.     *)
EXTENDS CorporateCoverage

CONSTANTS
  FirstBar,     \* the first date the vendor has a bar for
  FullPeriod,   \* days of a full-history download (OHLCV_INITIAL_PERIOD)
  ShortPeriod,  \* days of an incremental download (OHLCV_INCREMENTAL_PERIOD)
  MaxBars,      \* OHLCV_MAX_BARS
  MinBars       \* OHLCV_LINEAGE_MIN_BARS

ASSUME StoreAssumption ==
  /\ FirstBar \in Int /\ FirstBar <= 1
  /\ ShortPeriod \in Nat \ {0} /\ FullPeriod \in Nat /\ ShortPeriod < FullPeriod
  /\ MaxBars \in Nat /\ FullPeriod <= MaxBars /\ MinBars \in Nat

VARIABLE file   \* <symbol>_OHLCV.json

storeVars == <<day, world, audit, mapping, faults, file>>

\* Of the lineage, what later runs use: the events it knows, whether the file was
\* fresh when built, the verdict, and the day the halt evidence behind it is of.
NoLineage == [present |-> FALSE, events |-> {}, fresh |-> FALSE,
              comparable |-> FALSE, looked |-> 0]

-----------------------------------------------------------------------------
(* The vendor. *)

Later(x) == {s.at : s \in {s \in world.splits : s.seen <= day /\ s.at > x}}

\* The dates of a download of n days, with the basis of each bar.
Download(n) ==
  [x \in {x \in FirstBar..day : x > day - n} |-> Later(x)]

\* The events the action columns of a download show.
Shown(bars) == {s.at : s \in {s \in world.splits : s.seen <= day /\ s.at \in DOMAIN bars}}

-----------------------------------------------------------------------------
(* Merging a download into the stored bars. *)

Latest(bars) == CHOOSE x \in DOMAIN bars : \A y \in DOMAIN bars : y <= x
First(bars) == CHOOSE x \in DOMAIN bars : \A y \in DOMAIN bars : x <= y

Halted(x) == \E h \in world.halts : h.at <= x /\ x < h.until

\* Bars without trade at the end of the file are dropped, down to the first bar.
Trimmed(bars) ==
  LET kept == {x \in DOMAIN bars :
                 \/ x = First(bars)
                 \/ \E y \in DOMAIN bars : x <= y /\ ~Halted(y)}
  IN  [x \in kept |-> bars[x]]

Newest(bars) ==
  [x \in {x \in DOMAIN bars : Cardinality({y \in DOMAIN bars : y > x}) < MaxBars} |-> bars[x]]

Combined(old, new) ==
  LET both == [x \in DOMAIN old \cup DOMAIN new |->
                 IF x \in DOMAIN new THEN new[x] ELSE old[x]]
  IN  Trimmed(Newest(both))

BasisChanged(old, new) == \E x \in DOMAIN old \cap DOMAIN new : old[x] # new[x]
Overlaps(old, new) == DOMAIN old \cap DOMAIN new # {}

\* Mutant: a window that no longer overlaps the file is appended to it.
EventOrBasisOnly(stored, new) ==
  \/ Shown(new) \ stored.lineage.events # {}
  \/ BasisChanged(stored.bars, new)

FullRefreshRequired(stored, new) ==
  \/ Shown(new) \ stored.lineage.events # {}
  \/ BasisChanged(stored.bars, new)
  \/ ~Overlaps(stored.bars, new)

\* A file with bars and a lineage: only such a file is extended or skipped.
Extendable == DOMAIN file.bars # {} /\ file.lineage.present

\* The confirmed market date after the close of `day'.
IsFresh(bars) == DOMAIN bars # {} /\ Latest(bars) >= day

-----------------------------------------------------------------------------
(* The lineage. *)

\* Mutant: evidence older than the last bar is good enough.
CoversWindow(proof, from, to) ==
  proof.from <= from /\ to <= proof.to

\* The retrieval is never later than the evaluation, the latest of these times.
EvidenceCovers(proof, from, to) ==
  proof.from <= from /\ to <= proof.to /\ to <= proof.asOf

\* Each kind of evidence has the status it must have to count as verified.
StatusesVerified(evidence) ==
  /\ evidence["change"].status \in Verified
  /\ evidence["delist"].status = "clear"
  /\ evidence["suspend"].status = "clear"

Comparable(fresh, bars, evidence) ==
  /\ fresh
  /\ Cardinality(DOMAIN bars) >= MinBars
  /\ StatusesVerified(evidence)
  /\ \A k \in Kinds : EvidenceCovers(evidence[k], First(bars), Latest(bars))

Assessed(lineage, bars, evidence) ==
  LET ok == Comparable(lineage.fresh, bars, evidence)
  IN  [lineage EXCEPT !.comparable = ok,
                      !.looked = IF ok THEN evidence["suspend"].asOf ELSE 0]

Built(bars, shown, evidence, known) ==
  Assessed([NoLineage EXCEPT !.present = TRUE, !.events = known \cup shown,
                             !.fresh = IsFresh(bars)], bars, evidence)

-----------------------------------------------------------------------------
(* The dispatch run: evidence in memory, then the synchronisation of the bars. *)

\* The stored coverage is used as it is when its symbol-change part succeeded.
Reusable == audit.present /\ audit.sources["change"].ok

\* The evidence the run may work with, and the failed requests it took.
DispatchEvidence ==
  LET under(c) == IF mapping.here THEN Applied(mapping.evidence, c) ELSE NoEvidence
  IN  IF Reusable THEN {[evidence |-> under(audit), cost |-> 0]}
      ELSE {[evidence |-> under(Fetched(a, audit)), cost |-> Cost(a)] : a \in Answers}
           \cup {[evidence |-> mapping.evidence, cost |-> 1]}

Use(e) ==
  /\ faults + e.cost <= MaxFaults
  /\ faults' = faults + e.cost
  /\ UNCHANGED <<day, world, audit, mapping>>

\* A run whose download is empty or fails leaves the file as it is, and is left out.

\* The bars are those of the expected market date: only the lineage is judged again.
SyncSkips ==
  /\ Extendable /\ IsFresh(file.bars)
  /\ \E e \in DispatchEvidence :
       /\ Use(e)
       /\ file' = [file EXCEPT !.lineage = Assessed(@, file.bars, e.evidence)]

\* A short download extends the file.
SyncExtends ==
  LET new == Download(ShortPeriod)
      bars == Combined(file.bars, new)
  IN  /\ Extendable /\ ~IsFresh(file.bars)
      /\ ~FullRefreshRequired(file, new)
      /\ \E e \in DispatchEvidence :
           /\ Use(e)
           /\ file' = [file EXCEPT !.bars = bars,
                         !.lineage = Built(bars, Shown(new), e.evidence, file.lineage.events)]

\* A full download over the bars `kept'; `full' remembers the date it starts from.
Downloaded(kept, evidence) ==
  LET new == Download(FullPeriod)
      bars == Combined(kept, new)
  IN  [bars |-> bars, full |-> First(new), lineage |-> Built(bars, Shown(new), evidence, {})]

SyncReplaces ==
  /\ Extendable /\ ~IsFresh(file.bars)
  /\ FullRefreshRequired(file, Download(ShortPeriod))
  /\ \E e \in DispatchEvidence : Use(e) /\ file' = Downloaded(<<>>, e.evidence)

\* A new file, or one from before lineages: its bars are kept under the full download.
SyncCreates ==
  /\ ~Extendable
  /\ \E e \in DispatchEvidence : Use(e) /\ file' = Downloaded(file.bars, e.evidence)

\* The file before the first dispatch: none, or an array written by an older version.
Legacy == [bars |-> [x \in FirstBar..0 |-> {}], full |-> 1, lineage |-> NoLineage]
Absent == [bars |-> <<>>, full |-> 1, lineage |-> NoLineage]

StoreInit == Init /\ file \in {Legacy, Absent}

Next ==
  \/ NextDay /\ UNCHANGED file
  \/ Refresh /\ UNCHANGED file
  \/ RefreshRaises /\ UNCHANGED file
  \/ RefreshFailsOpen /\ UNCHANGED file
  \/ SyncSkips \/ SyncExtends \/ SyncReplaces \/ SyncCreates

Spec == StoreInit /\ [][Next]_storeVars
=============================================================================
