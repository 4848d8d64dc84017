---------------------------- MODULE MCMarketEvidence ----------------------------
(* Instances and properties of the corporate-action evidence and of the bars      *)
(* stored under it.                                                               *)
EXTENDS OhlcvStore

CONSTANT MaxLateness

Days == 1..LastDay
Event ==
  [kind : {"change"}, role : {"old", "new"}, at : Days]
    \cup [kind : {"delist"}, at : Days]
    \cup {h \in [kind : {"halt"}, at : Days, until : 2..Never] : h.at < h.until}
    \cup {s \in [kind : {"split"}, at : Days, seen : Days] :
            s.at <= s.seen /\ s.seen <= s.at + MaxLateness}

OfKind(events, k) == {e \in events : e.kind = k}
Disjoint(halts) == \A h, i \in halts : h = i \/ h.until < i.at \/ i.until < h.at

\* What a history is, whichever are explored: days that can be told apart from Never, and
\* splits the vendor publishes at most a day late.
ASSUME WorldsAssumption ==
  /\ MaxLateness \in {0, 1}
  /\ \A w \in Worlds :
       /\ \A r \in w.changes \cup w.delistings : r.at \in Days
       /\ \A h \in w.halts : h.at \in Days /\ h.until \in 2..Never /\ h.at < h.until
       /\ \A s \in w.splits : s.at \in Days /\ s.seen \in s.at .. s.at + MaxLateness

\* The histories of at most two events that can bear on each other: of one kind other
\* than delisting, or a halt with a split.  Two halts do not overlap.
Related(e, f) ==
  e = f \/ (e.kind = f.kind /\ e.kind # "delist") \/ {e.kind, f.kind} = {"halt", "split"}

MCWorlds ==
  {[changes |-> OfKind(E, "change"), delistings |-> OfKind(E, "delist"),
    halts |-> OfKind(E, "halt"), splits |-> OfKind(E, "split")] :
     E \in {E \in {{}} \cup {{e, f} : e, f \in Event} :
              (\A e, f \in E : Related(e, f)) /\ Disjoint(OfKind(E, "halt"))}}

-----------------------------------------------------------------------------
\* What the vendors say of the symbol as of a day, and whether a proof agrees.
HaltedAsOf(d) == \E h \in world.halts : h.at <= d /\ d < h.until
Happened(rows, proof) == Within(rows, proof.from, proof.asOf)

Agrees(k, proof) ==
  CASE k = "change" -> /\ proof.status = "clear" => Happened(world.changes, proof) = {}
                       /\ proof.status = "event" =>
                            \E r \in Happened(world.changes, proof) : r.role = "new"
    [] k = "delist" -> proof.status = "clear" => Happened(world.delistings, proof) = {}
    [] OTHER -> /\ proof.status = "clear" => ~HaltedAsOf(proof.asOf)
                /\ proof.status = "event" => HaltedAsOf(proof.asOf)

(* Evidence that reads as verified, in the mapping, beside the bars or in a        *)
(* completed session of the surveillance, says what the vendors knew of the symbol *)
(* on the day it claims to be of: no event in the window it covers, the event it   *)
(* names, a halt or none.  Failed, late or preserved answers never make it.        *)
EvidenceAgreesWithWorld ==
  /\ \A k \in Kinds : Agrees(k, mapping.evidence[k])
  /\ audit.session.complete => (audit.session.suspended <=> HaltedAsOf(audit.session.asOf))

(* README.md:107-110: a failed response never leaves no-event evidence.  Whatever  *)
(* the stored mapping calls verified was obtained by the very refresh that wrote   *)
(* the row; evidence carried over from an earlier one has lost that status.        *)
FailedRefreshUnverifies ==
  \A k \in Kinds : mapping.evidence[k].status \in Verified => mapping.evidence[k].at = mapping.at

RowDays(a, k) == {r.at : r \in a.rows[k]}

(* README.md:143-149,152-155: a positive event that the audit recorded and whose   *)
(* day is still in the coverage window is in every later audit that continues it,  *)
(* whichever sources fail and although the halt search reaches back only one year. *)
EventsRetained ==
  [][audit'.continued /\ audit' # audit =>
       \A k \in Kinds : {d \in RowDays(audit, k) : day - Lookback <= d} \subseteq RowDays(audit', k)
    ]_storeVars

(* README.md:98-100: two adjustment bases are never merged.  Whenever the bars are  *)
(* rewritten, every one of them since the last full download is adjusted for        *)
(* exactly the events the vendor shows that day, although the vendor publishes an   *)
(* event up to a day late, dispatches skip days, and only a short window is read.   *)
OneBasisAfterEachSync ==
  [][file'.bars # file.bars =>
       \A x \in DOMAIN file'.bars : file'.full <= x => file'.bars[x] = Later(x)]_storeVars

(* A lineage marked lineageVerifiedForComparison is right about the symbol for the *)
(* whole of its stored history: not delisted, every symbol change accounted for,   *)
(* not halted when last looked at, and looked at no earlier than its last bar.     *)
ComparableIsJustified ==
  file.lineage.comparable =>
    LET from == First(file.bars)
        to == Latest(file.bars)
    IN  /\ Within(world.delistings, from, to) = {}
        /\ \A r \in Within(world.changes, from, to) :
             \E n \in world.changes : n.role = "new" /\ n.at <= day
        /\ to <= file.lineage.looked /\ ~HaltedAsOf(file.lineage.looked)
=============================================================================
