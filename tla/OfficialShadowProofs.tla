------------------------ MODULE OfficialShadowProofs ------------------------
(***************************************************************************)
(* Theorems of OfficialShadow, for any number of processes, workflows,     *)
(* hosts and publication dates.                                            *)
(*                                                                         *)
(* A process that may send requests has been acknowledged the sentinel of  *)
(* its date in Drive, and no upload ever takes a sentinel away.  A process *)
(* that begins after requests were sent therefore finds one, and stops.    *)
(***************************************************************************)
EXTENDS OfficialShadow, TLAPS

Sentinels == {"MISSING", "IN_PROGRESS", "COMPLETE", "FAILED"}

\* What the argument needs of the types
Types ==
  /\ today \in Windows
  /\ pc \in [Processes -> {"new"} \cup Live \cup Over]
  /\ window \in [Processes -> {0} \cup Windows]
  /\ durable \in [Windows -> Sentinels]
  /\ requested \subseteq Processes
  /\ earlier \subseteq requested \X Processes

\* A process that has passed the sentinel in Drive
Passed(p) == pc[p] \in Live \ {"current", "sentinel"}
\* One whose reservation in Drive was acknowledged
Acknowledged(p) == p \in requested \/ pc[p] \in Live \ {"current", "sentinel", "reserve", "mark"}

Begun ==
  \A p \in Processes :
    /\ pc[p] = "new" => p \notin requested /\ \A q \in Processes : <<q, p>> \notin earlier
    /\ pc[p] # "new" => window[p] \in Windows

Marked == \A p \in Processes : Acknowledged(p) => durable[window[p]] # "MISSING"

\* A process that began after another had sent requests for its date stops
Late ==
  \A p, q \in Processes :
    <<p, q>> \in earlier /\ window[p] = window[q] => ~Passed(q) /\ q \notin requested

IInv == Types /\ Begun /\ Marked /\ Late

-----------------------------------------------------------------------------
\* The invariant holds initially.
LEMMA InitInvariant == Init => IInv
<1> SUFFICES ASSUME Init PROVE IInv
  OBVIOUS
<1>1. Types
  BY WindowAssumption DEF Init, Types, Windows, Sentinels
<1>2. Begun
  BY DEF Init, Begun
<1>3. Marked
  BY DEF Init, Marked, Acknowledged, Live
<1>4. Late
  BY DEF Init, Late
<1> QED
  BY <1>1, <1>2, <1>3, <1>4 DEF IInv

\* Each step keeps the types.
LEMMA TypesStep == Types /\ Begun /\ [Next]_vars => Types'
<1> SUFFICES ASSUME Types, Begun, [Next]_vars PROVE Types'
  OBVIOUS
<1> USE DEF Types, Begun, Windows, Sentinels, Live, Over, Goto, drive
<1>1. CASE UNCHANGED vars
  BY <1>1 DEF vars
<1>2. CASE NextWindow
  BY <1>2, WindowAssumption DEF NextWindow
<1>3. ASSUME NEW p \in Processes, Begin(p) PROVE Types'
  BY <1>3 DEF Begin
<1>4. ASSUME NEW p \in Processes, Reuse(p) PROVE Types'
  BY <1>4 DEF Reuse
<1>5. ASSUME NEW p \in Processes, NoReuse(p) PROVE Types'
  BY <1>5 DEF NoReuse
<1>6. ASSUME NEW p \in Processes, ReadError(p) PROVE Types'
  BY <1>6 DEF ReadError
<1>7. ASSUME NEW p \in Processes, CheckSentinel(p) PROVE Types'
  BY <1>7 DEF CheckSentinel, Unclaimed
<1>8. ASSUME NEW p \in Processes, Reserve(p) PROVE Types'
  BY <1>8 DEF Reserve, Creates
<1>9. ASSUME NEW p \in Processes, Mark(p) PROVE Types'
  BY <1>9 DEF Mark, SetSentinel, Uploads
<1>10. ASSUME NEW p \in Processes, Request(p) PROVE Types'
  BY <1>10 DEF Request
<1>11. ASSUME NEW p \in Processes, Collected(p) PROVE Types'
  BY <1>11 DEF Collected
<1>12. ASSUME NEW p \in Processes, Finish(p) PROVE Types'
  BY <1>12 DEF Finish, SetSentinel, Uploads, Terminal
<1>13. ASSUME NEW p \in Processes, Alert(p) PROVE Types'
  BY <1>13 DEF Alert
<1>14. ASSUME NEW p \in Processes, WriteLocal(p) PROVE Types'
  BY <1>14 DEF WriteLocal
<1>15. ASSUME NEW p \in Processes, Archive(p) PROVE Types'
  BY <1>15 DEF Archive, Uploads
<1>16. ASSUME NEW p \in Processes, Publish(p) PROVE Types'
  BY <1>16 DEF Publish, Uploads
<1>17. ASSUME NEW p \in Processes, Crash(p) PROVE Types'
  BY <1>17 DEF Crash, Live
<1> QED
  BY <1>1, <1>2, <1>3, <1>4, <1>5, <1>6, <1>7, <1>8, <1>9, <1>10, <1>11, <1>12, <1>13, <1>14, <1>15, <1>16, <1>17
  DEF Next, Step

\* A process has its date, and its past, from its beginning on.
LEMMA BegunStep == Types /\ Begun /\ [Next]_vars => Begun'
<1> SUFFICES ASSUME Types, Begun, [Next]_vars PROVE Begun'
  OBVIOUS
<1> USE DEF Types, Begun, Windows, Live, Over, Goto, drive
<1>1. CASE UNCHANGED vars
  BY <1>1 DEF vars
<1>2. CASE NextWindow
  BY <1>2 DEF NextWindow
<1>3. ASSUME NEW p \in Processes, Begin(p) PROVE Begun'
  BY <1>3 DEF Begin
<1>4. ASSUME NEW p \in Processes, Reuse(p) PROVE Begun'
  BY <1>4 DEF Reuse
<1>5. ASSUME NEW p \in Processes, NoReuse(p) PROVE Begun'
  BY <1>5 DEF NoReuse
<1>6. ASSUME NEW p \in Processes, ReadError(p) PROVE Begun'
  BY <1>6 DEF ReadError
<1>7. ASSUME NEW p \in Processes, CheckSentinel(p) PROVE Begun'
  BY <1>7 DEF CheckSentinel, Unclaimed
<1>8. ASSUME NEW p \in Processes, Reserve(p) PROVE Begun'
  BY <1>8 DEF Reserve, Creates
<1>9. ASSUME NEW p \in Processes, Mark(p) PROVE Begun'
  BY <1>9 DEF Mark, SetSentinel, Uploads
<1>10. ASSUME NEW p \in Processes, Request(p) PROVE Begun'
  BY <1>10 DEF Request
<1>11. ASSUME NEW p \in Processes, Collected(p) PROVE Begun'
  BY <1>11 DEF Collected
<1>12. ASSUME NEW p \in Processes, Finish(p) PROVE Begun'
  BY <1>12 DEF Finish, SetSentinel, Uploads
<1>13. ASSUME NEW p \in Processes, Alert(p) PROVE Begun'
  BY <1>13 DEF Alert
<1>14. ASSUME NEW p \in Processes, WriteLocal(p) PROVE Begun'
  BY <1>14 DEF WriteLocal
<1>15. ASSUME NEW p \in Processes, Archive(p) PROVE Begun'
  BY <1>15 DEF Archive, Uploads
<1>16. ASSUME NEW p \in Processes, Publish(p) PROVE Begun'
  BY <1>16 DEF Publish, Uploads
<1>17. ASSUME NEW p \in Processes, Crash(p) PROVE Begun'
  BY <1>17 DEF Crash, Live
<1> QED
  BY <1>1, <1>2, <1>3, <1>4, <1>5, <1>6, <1>7, <1>8, <1>9, <1>10, <1>11, <1>12, <1>13, <1>14, <1>15, <1>16, <1>17
  DEF Next, Step

\* An acknowledged sentinel stays.
LEMMA MarkedStep == Types /\ Begun /\ Marked /\ [Next]_vars => Marked'
<1> SUFFICES ASSUME Types, Begun, Marked, [Next]_vars PROVE Marked'
  OBVIOUS
<1> USE DEF Types, Begun, Marked, Acknowledged, Sentinels, Live, Over, Goto, drive
<1>1. CASE UNCHANGED vars
  BY <1>1 DEF vars
<1>2. CASE NextWindow
  BY <1>2 DEF NextWindow
<1>3. ASSUME NEW p \in Processes, Begin(p) PROVE Marked'
  BY <1>3 DEF Begin
<1>4. ASSUME NEW p \in Processes, Reuse(p) PROVE Marked'
  BY <1>4 DEF Reuse
<1>5. ASSUME NEW p \in Processes, NoReuse(p) PROVE Marked'
  BY <1>5 DEF NoReuse
<1>6. ASSUME NEW p \in Processes, ReadError(p) PROVE Marked'
  BY <1>6 DEF ReadError
<1>7. ASSUME NEW p \in Processes, CheckSentinel(p) PROVE Marked'
  BY <1>7 DEF CheckSentinel, Unclaimed
<1>8. ASSUME NEW p \in Processes, Reserve(p) PROVE Marked'
  BY <1>8 DEF Reserve, Creates
<1>9. ASSUME NEW p \in Processes, Mark(p) PROVE Marked'
  BY <1>9 DEF Mark, SetSentinel, Uploads
<1>10. ASSUME NEW p \in Processes, Request(p) PROVE Marked'
  BY <1>10 DEF Request
<1>11. ASSUME NEW p \in Processes, Collected(p) PROVE Marked'
  BY <1>11 DEF Collected
<1>12. ASSUME NEW p \in Processes, Finish(p) PROVE Marked'
  BY <1>12 DEF Finish, SetSentinel, Uploads, Terminal
<1>13. ASSUME NEW p \in Processes, Alert(p) PROVE Marked'
  BY <1>13 DEF Alert
<1>14. ASSUME NEW p \in Processes, WriteLocal(p) PROVE Marked'
  BY <1>14 DEF WriteLocal
<1>15. ASSUME NEW p \in Processes, Archive(p) PROVE Marked'
  BY <1>15 DEF Archive, Uploads
<1>16. ASSUME NEW p \in Processes, Publish(p) PROVE Marked'
  BY <1>16 DEF Publish, Uploads
<1>17. ASSUME NEW p \in Processes, Crash(p) PROVE Marked'
  BY <1>17 DEF Crash, Live
<1> QED
  BY <1>1, <1>2, <1>3, <1>4, <1>5, <1>6, <1>7, <1>8, <1>9, <1>10, <1>11, <1>12, <1>13, <1>14, <1>15, <1>16, <1>17
  DEF Next, Step

\* A late process does not pass the sentinel.
LEMMA LateStep == Types /\ Begun /\ Marked /\ Late /\ [Next]_vars => Late'
<1> SUFFICES ASSUME Types, Begun, Marked, Late, [Next]_vars PROVE Late'
  OBVIOUS
<1> USE DEF Types, Begun, Marked, Acknowledged, Late, Passed, Live, Over, Goto, drive
<1>1. CASE UNCHANGED vars
  BY <1>1 DEF vars
<1>2. CASE NextWindow
  BY <1>2 DEF NextWindow
<1>3. ASSUME NEW p \in Processes, Begin(p) PROVE Late'
  BY <1>3 DEF Begin
<1>4. ASSUME NEW p \in Processes, Reuse(p) PROVE Late'
  BY <1>4 DEF Reuse
<1>5. ASSUME NEW p \in Processes, NoReuse(p) PROVE Late'
  BY <1>5 DEF NoReuse
<1>6. ASSUME NEW p \in Processes, ReadError(p) PROVE Late'
  BY <1>6 DEF ReadError
<1>7. ASSUME NEW p \in Processes, CheckSentinel(p) PROVE Late'
  BY <1>7 DEF CheckSentinel, Unclaimed
<1>8. ASSUME NEW p \in Processes, Reserve(p) PROVE Late'
  BY <1>8 DEF Reserve, Creates
<1>9. ASSUME NEW p \in Processes, Mark(p) PROVE Late'
  BY <1>9 DEF Mark, SetSentinel, Uploads
<1>10. ASSUME NEW p \in Processes, Request(p) PROVE Late'
  BY <1>10 DEF Request
<1>11. ASSUME NEW p \in Processes, Collected(p) PROVE Late'
  BY <1>11 DEF Collected
<1>12. ASSUME NEW p \in Processes, Finish(p) PROVE Late'
  BY <1>12 DEF Finish, SetSentinel, Uploads
<1>13. ASSUME NEW p \in Processes, Alert(p) PROVE Late'
  BY <1>13 DEF Alert
<1>14. ASSUME NEW p \in Processes, WriteLocal(p) PROVE Late'
  BY <1>14 DEF WriteLocal
<1>15. ASSUME NEW p \in Processes, Archive(p) PROVE Late'
  BY <1>15 DEF Archive, Uploads
<1>16. ASSUME NEW p \in Processes, Publish(p) PROVE Late'
  BY <1>16 DEF Publish, Uploads
<1>17. ASSUME NEW p \in Processes, Crash(p) PROVE Late'
  BY <1>17 DEF Crash, Live
<1> QED
  BY <1>1, <1>2, <1>3, <1>4, <1>5, <1>6, <1>7, <1>8, <1>9, <1>10, <1>11, <1>12, <1>13, <1>14, <1>15, <1>16, <1>17
  DEF Next, Step

\* Every step keeps the invariant, and so every behaviour does.
LEMMA Invariant == Spec => []IInv
<1>1. IInv /\ [Next]_vars => IInv'
  BY TypesStep, BegunStep, MarkedStep, LateStep DEF IInv
<1> QED
  BY InitInvariant, <1>1, PTL DEF Spec

(* No source family is asked again about a publication date by a process   *)
(* that begins later, however the earlier one ended                        *)
(* (_ensure_official_shadow_provider).                                     *)
THEOREM DateAskedOnce == Spec => []NoSecondCollection
<1>1. IInv => NoSecondCollection
  BY DEF IInv, Types, Late, NoSecondCollection, SameWindow
<1> QED
  BY Invariant, <1>1, PTL

-----------------------------------------------------------------------------
(* What Drive says of a date.  A process has no result before its collector *)
(* returned one, and keeps it: so the sentinel, the current artifact and    *)
(* whoever reuses it repeat what a process that sent requests found.        *)

Before == {"new", "current", "sentinel", "reserve", "mark", "network"}
After  == {"finish", "alert", "write", "archive", "publish"}

\* Where a process stands when it has sent requests, and when it has a result
Progress ==
  \A p \in Processes :
    /\ pc[p] \in Before => p \notin requested /\ result[p] = "none"
    /\ pc[p] = "collect" => p \in requested /\ result[p] = "none"
    /\ pc[p] \in After => p \in requested /\ result[p] \in Statuses
    /\ pc[p] = "reused" => result[p] \in Statuses

\* Results and artifacts are what they look like
ResultType ==
  /\ result \in [Processes -> {"none"} \cup Statuses]
  /\ current \in Artifacts \cup {NoArtifact}

\* A failure is announced before it is written anywhere
Announced ==
  /\ \A p \in Processes :
       pc[p] \in {"write", "archive", "publish"} /\ result[p] = "failure" => p \in alerted
  /\ PublishedFailureWasAnnounced

Outcome(w, s) == \E p \in requested : window[p] = w /\ result[p] = s

Observed ==
  /\ \A w \in Windows : /\ durable[w] = "COMPLETE" => Outcome(w, "success")
                        /\ durable[w] = "FAILED" => Outcome(w, "failure")
  /\ current # NoArtifact => Outcome(current.window, current.status)
  /\ \A p \in Processes : pc[p] = "reused" => Outcome(window[p], result[p])

\* Results and artifacts keep their types.
LEMMA ResultTypeStep == Types /\ Begun /\ Progress /\ ResultType /\ [Next]_vars => ResultType'
<1> SUFFICES ASSUME Types, Begun, Progress, ResultType, [Next]_vars PROVE ResultType'
  OBVIOUS
<1> USE DEF Types, Begun, ResultType, Goto, drive
<1>1. ASSUME NEW p \in Processes, Reuse(p) PROVE ResultType'
  BY <1>1 DEF Reuse, Matches, Artifacts, NoArtifact, Windows
<1>2. ASSUME NEW p \in Processes, Collected(p) PROVE ResultType'
  BY <1>2 DEF Collected
<1>3. ASSUME NEW p \in Processes, Publish(p) PROVE ResultType'
  BY <1>3 DEF Publish, Artifacts, Uploads, Progress, After
<1>4. ASSUME NEW p \in Processes, Step(p), ~Reuse(p), ~Collected(p), ~Publish(p)
      PROVE  UNCHANGED <<result, current>>
  BY <1>4 DEF Step, Begin, NoReuse, ReadError, CheckSentinel, Reserve, Mark, Request, Finish,
     Alert, WriteLocal, Archive, Crash
<1> QED
  BY <1>1, <1>2, <1>3, <1>4 DEF Next, NextWindow, vars

\* A process passes through its steps in order.
LEMMA ProgressStep == Types /\ Begun /\ Progress /\ ResultType /\ [Next]_vars => Progress'
<1> SUFFICES ASSUME Types, Begun, Progress, ResultType, [Next]_vars PROVE Progress'
  OBVIOUS
<1> USE DEF Types, Begun, Progress, ResultType, Before, After, Statuses, Live, Over, Goto, drive
<1>1. CASE UNCHANGED vars
  BY <1>1 DEF vars
<1>2. CASE NextWindow
  BY <1>2 DEF NextWindow
<1>3. ASSUME NEW p \in Processes, Begin(p) PROVE Progress'
  BY <1>3 DEF Begin
<1>4. ASSUME NEW p \in Processes, Reuse(p) PROVE Progress'
  BY <1>4 DEF Reuse, Matches, Artifacts, NoArtifact, Windows
<1>5. ASSUME NEW p \in Processes, NoReuse(p) PROVE Progress'
  BY <1>5 DEF NoReuse
<1>6. ASSUME NEW p \in Processes, ReadError(p) PROVE Progress'
  BY <1>6 DEF ReadError
<1>7. ASSUME NEW p \in Processes, CheckSentinel(p) PROVE Progress'
  BY <1>7 DEF CheckSentinel, Unclaimed
<1>8. ASSUME NEW p \in Processes, Reserve(p) PROVE Progress'
  BY <1>8 DEF Reserve, Creates
<1>9. ASSUME NEW p \in Processes, Mark(p) PROVE Progress'
  BY <1>9 DEF Mark, SetSentinel, Uploads
<1>10. ASSUME NEW p \in Processes, Request(p) PROVE Progress'
  BY <1>10 DEF Request
<1>11. ASSUME NEW p \in Processes, Collected(p) PROVE Progress'
  BY <1>11 DEF Collected
<1>12. ASSUME NEW p \in Processes, Finish(p) PROVE Progress'
  BY <1>12 DEF Finish, SetSentinel, Uploads, Terminal
<1>13. ASSUME NEW p \in Processes, Alert(p) PROVE Progress'
  BY <1>13 DEF Alert, NeedsAlert
<1>14. ASSUME NEW p \in Processes, WriteLocal(p) PROVE Progress'
  BY <1>14 DEF WriteLocal
<1>15. ASSUME NEW p \in Processes, Archive(p) PROVE Progress'
  BY <1>15 DEF Archive, Uploads
<1>16. ASSUME NEW p \in Processes, Publish(p) PROVE Progress'
  BY <1>16 DEF Publish, Uploads
<1>17. ASSUME NEW p \in Processes, Crash(p) PROVE Progress'
  BY <1>17 DEF Crash
<1> QED
  BY <1>1, <1>2, <1>3, <1>4, <1>5, <1>6, <1>7, <1>8, <1>9, <1>10,
     <1>11, <1>12, <1>13, <1>14, <1>15, <1>16, <1>17 DEF Next, Step

\* A failure is announced on the way to its publication.
LEMMA AnnouncedStep == Types /\ ResultType /\ Announced /\ [Next]_vars => Announced'
<1> SUFFICES ASSUME Types, ResultType, Announced, [Next]_vars PROVE Announced'
  OBVIOUS
<1> USE DEF Types, ResultType, Announced, PublishedFailureWasAnnounced, Live, Over, Goto, drive
<1>1. CASE UNCHANGED vars
  BY <1>1 DEF vars
<1>2. CASE NextWindow
  BY <1>2 DEF NextWindow
<1>3. ASSUME NEW p \in Processes, Begin(p) PROVE Announced'
  BY <1>3 DEF Begin
<1>4. ASSUME NEW p \in Processes, Reuse(p) PROVE Announced'
  BY <1>4 DEF Reuse, Matches
<1>5. ASSUME NEW p \in Processes, NoReuse(p) PROVE Announced'
  BY <1>5 DEF NoReuse
<1>6. ASSUME NEW p \in Processes, ReadError(p) PROVE Announced'
  BY <1>6 DEF ReadError
<1>7. ASSUME NEW p \in Processes, CheckSentinel(p) PROVE Announced'
  BY <1>7 DEF CheckSentinel, Unclaimed
<1>8. ASSUME NEW p \in Processes, Reserve(p) PROVE Announced'
  BY <1>8 DEF Reserve, Creates
<1>9. ASSUME NEW p \in Processes, Mark(p) PROVE Announced'
  BY <1>9 DEF Mark, SetSentinel, Uploads
<1>10. ASSUME NEW p \in Processes, Request(p) PROVE Announced'
  BY <1>10 DEF Request
<1>11. ASSUME NEW p \in Processes, Collected(p) PROVE Announced'
  BY <1>11 DEF Collected
<1>12. ASSUME NEW p \in Processes, Finish(p) PROVE Announced'
  BY <1>12 DEF Finish, SetSentinel, Uploads, Terminal
<1>13. ASSUME NEW p \in Processes, Alert(p) PROVE Announced'
  BY <1>13 DEF Alert, NeedsAlert
<1>14. ASSUME NEW p \in Processes, WriteLocal(p) PROVE Announced'
  BY <1>14 DEF WriteLocal
<1>15. ASSUME NEW p \in Processes, Archive(p) PROVE Announced'
  BY <1>15 DEF Archive, Uploads
<1>16. ASSUME NEW p \in Processes, Publish(p) PROVE Announced'
  BY <1>16 DEF Publish, Uploads
<1>17. ASSUME NEW p \in Processes, Crash(p) PROVE Announced'
  BY <1>17 DEF Crash
<1> QED
  BY <1>1, <1>2, <1>3, <1>4, <1>5, <1>6, <1>7, <1>8, <1>9, <1>10,
     <1>11, <1>12, <1>13, <1>14, <1>15, <1>16, <1>17 DEF Next, Step

\* An outcome that was observed stays one.
LEMMA OutcomeStep ==
  ASSUME Types, Begun, Progress, ResultType, [Next]_vars, NEW w \in Windows,
         NEW s \in Statuses, Outcome(w, s)
  PROVE  Outcome(w, s)'
<1>0. PICK q \in requested : window[q] = w /\ result[q] = s
  BY DEF Outcome
<1> SUFFICES q \in requested' /\ window'[q] = window[q] /\ result'[q] = result[q]
  BY <1>0 DEF Outcome
<1>d. q \in Processes /\ pc[q] \notin Before /\ pc[q] # "collect"
  BY <1>0 DEF Types, Progress, Statuses
<1> USE DEF Types, ResultType, Before, Goto, drive
<1>1. ASSUME NEW p \in Processes, Begin(p) \/ Reuse(p) \/ Collected(p)
      PROVE  q \in requested' /\ window'[q] = window[q] /\ result'[q] = result[q]
  BY <1>d, <1>1 DEF Begin, Reuse, Collected
<1>2. ASSUME NEW p \in Processes, Step(p), ~Begin(p), ~Reuse(p), ~Collected(p)
      PROVE  requested \subseteq requested' /\ UNCHANGED <<window, result>>
  BY <1>2 DEF Step, NoReuse, ReadError, CheckSentinel, Reserve, Mark, Request, Finish, Alert,
     WriteLocal, Archive, Publish, Crash
<1> QED
  BY <1>1, <1>2 DEF Next, NextWindow, vars

\* Three places write to Drive, and one reuses what it finds there.
LEMMA DriveStep ==
  ASSUME Types, ResultType, [Next]_vars
  PROVE  /\ \/ durable' = durable
            \/ \E p \in Processes : pc[p] = "mark" /\
                 durable' = [durable EXCEPT ![window[p]] = "IN_PROGRESS"]
            \/ \E p \in Processes : pc[p] = "finish" /\
                 durable' = [durable EXCEPT ![window[p]] = Terminal(p)]
         /\ \/ current' = current
            \/ \E p \in Processes : pc[p] = "publish" /\
                 current' = [status |-> result[p], window |-> window[p], by |-> p]
         /\ \A p \in Processes : pc'[p] = "reused" =>
              \/ Reuse(p)
              \/ pc[p] = "reused" /\ window'[p] = window[p] /\ result'[p] = result[p]
<1> USE DEF Types, ResultType, Goto, drive
<1>1. ASSUME NEW p \in Processes, Mark(p) \/ Finish(p) \/ Publish(p)
      PROVE  /\ \/ durable' = durable
                \/ pc[p] = "mark" /\ durable' = [durable EXCEPT ![window[p]] = "IN_PROGRESS"]
                \/ pc[p] = "finish" /\ durable' = [durable EXCEPT ![window[p]] = Terminal(p)]
             /\ \/ current' = current
                \/ pc[p] = "publish" /\
                     current' = [status |-> result[p], window |-> window[p], by |-> p]
             /\ UNCHANGED <<window, result>>
             /\ \A q \in Processes : pc'[q] = "reused" => pc[q] = "reused"
  BY <1>1 DEF Mark, Finish, Publish, SetSentinel, Uploads
<1>2. ASSUME NEW p \in Processes, Begin(p) \/ Reuse(p) \/ Collected(p)
      PROVE  /\ UNCHANGED <<durable, current>>
             /\ \A q \in Processes : pc'[q] = "reused" =>
                  \/ Reuse(q)
                  \/ pc[q] = "reused" /\ window'[q] = window[q] /\ result'[q] = result[q]
  BY <1>2 DEF Begin, Reuse, Collected
<1>3. ASSUME NEW p \in Processes, Step(p), ~Begin(p), ~Reuse(p), ~Collected(p),
             ~Mark(p), ~Finish(p), ~Publish(p)
      PROVE  /\ UNCHANGED <<durable, current, window, result>>
             /\ \A q \in Processes : pc'[q] = "reused" => pc[q] = "reused"
  BY <1>3 DEF Step, NoReuse, ReadError, CheckSentinel, Reserve, Request, Alert,
     WriteLocal, Archive, Crash
<1> QED
  BY <1>1, <1>2, <1>3 DEF Next, NextWindow, vars

\* What Drive says of a date was observed.
LEMMA ObservedStep ==
  Types /\ Begun /\ Progress /\ ResultType /\ Observed /\ [Next]_vars => Observed'
<1> SUFFICES ASSUME Types, Begun, Progress, ResultType, Observed, [Next]_vars PROVE Observed'
  OBVIOUS
<1>0. \A p \in Processes : pc[p] \in {"mark", "finish", "publish", "current", "reused"} =>
        window[p] \in Windows
  BY DEF Begun
<1>1. ASSUME NEW w \in Windows
      PROVE  /\ durable'[w] = "COMPLETE" => Outcome(w, "success")
             /\ durable'[w] = "FAILED" => Outcome(w, "failure")
  <2>1. CASE durable'[w] = durable[w]
    BY <2>1 DEF Observed
  <2>2. ASSUME NEW p \in Processes, pc[p] = "finish", durable'[w] = Terminal(p), window[p] = w
        PROVE  /\ durable'[w] = "COMPLETE" => Outcome(w, "success")
               /\ durable'[w] = "FAILED" => Outcome(w, "failure")
    BY <2>2 DEF Terminal, Outcome, Progress, After, Statuses
  <2> QED
    BY <1>0, <2>1, <2>2, DriveStep DEF Types
<1>2. current' # NoArtifact => Outcome(current'.window, current'.status)
  BY <1>0, DriveStep DEF Observed, Outcome, Progress, After
<1>3. ASSUME NEW p \in Processes, pc'[p] = "reused"
      PROVE  /\ Outcome(window[p], result'[p]) /\ window'[p] = window[p]
             /\ result'[p] \in Statuses
  <2>1. CASE Reuse(p)
    <3>1. current # NoArtifact
      BY <1>0, <2>1 DEF Reuse, Matches, NoArtifact, Windows
    <3> QED
      BY <2>1, <3>1 DEF Reuse, Matches, Observed, ResultType, Artifacts
  <2>2. CASE ~Reuse(p)
    BY <1>3, <2>2, DriveStep DEF Observed, Progress
  <2> QED
    BY <2>1, <2>2
<1>4. ASSUME NEW w \in Windows, NEW s \in Statuses, Outcome(w, s)
      PROVE  \E p \in requested' : window'[p] = w /\ result'[p] = s
  BY <1>4, OutcomeStep DEF Outcome
<1>5. current' # NoArtifact => current'.window \in Windows /\ current'.status \in Statuses
  BY ResultTypeStep DEF ResultType, Artifacts
<1>6. \A w \in Windows :
        /\ durable'[w] = "COMPLETE" => Outcome(w, "success")'
        /\ durable'[w] = "FAILED" => Outcome(w, "failure")'
  BY <1>1, <1>4 DEF Outcome, Statuses
<1>7. current' # NoArtifact => Outcome(current.window, current.status)'
  BY <1>2, <1>4, <1>5 DEF Outcome
<1>8. \A p \in Processes : pc'[p] = "reused" => Outcome(window[p], result[p])'
  BY <1>3, <1>4, BegunStep DEF Outcome, Begun
<1> QED
  BY <1>6, <1>7, <1>8 DEF Observed, Outcome

\* The invariant of the evidence, and with it what it implies.
EInv == Progress /\ ResultType /\ Announced /\ Observed

LEMMA EvidenceInvariant == Spec => []EInv
<1>1. Init => EInv
  <2> SUFFICES ASSUME Init PROVE EInv
    OBVIOUS
  <2>1. Progress /\ ResultType
    BY DEF Init, Progress, ResultType, Before, After
  <2>2. Announced /\ Observed
    BY DEF Init, Announced, PublishedFailureWasAnnounced, Observed, NoArtifact, Windows
  <2> QED
    BY <2>1, <2>2 DEF EInv
<1>2. IInv /\ EInv /\ [Next]_vars => EInv'
  BY ResultTypeStep, ProgressStep, AnnouncedStep, ObservedStep DEF IInv, EInv
<1> QED
  BY <1>1, <1>2, Invariant, PTL DEF Spec

(* A failure that later runs will reuse in silence was announced by the    *)
(* run that published it (dispatch_official_shadow_alert before            *)
(* publish_official_shadow).                                               *)
THEOREM FailuresAreAnnounced == Spec => []PublishedFailureWasAnnounced
<1>1. EInv => PublishedFailureWasAnnounced
  BY DEF EInv, Announced
<1> QED
  BY EvidenceInvariant, <1>1, PTL

(* The sentinel, the current artifact and whoever reuses it repeat the     *)
(* outcome of a process that did collect that date.                        *)
THEOREM EvidenceIsObserved == Spec => []EvidenceWasCollected
<1>1. EInv => EvidenceWasCollected
  BY DEF EInv, Observed, Outcome, EvidenceWasCollected
<1> QED
  BY EvidenceInvariant, <1>1, PTL

-----------------------------------------------------------------------------
(* The promise of the reservation.  Every step of a process leaves what it *)
(* holds as it is, gives it up, or is one of three: passing the sentinel,  *)
(* sending the requests, archiving the outcome.                            *)

Passing == Live \ {"current", "sentinel"}

LEMMA EnteredStep ==
  ASSUME Types, NEW p \in Processes, NEW to, Goto(p, to), UNCHANGED window
  PROVE  /\ to \in Passing /\ pc[p] \in Passing => Entered' = Entered
         /\ to \in Passing => Entered' = Entered \cup {<<p, window[p]>>}
         /\ to \notin Passing => Entered' = Entered \ {<<p, window[p]>>}
<1>1. pc'[p] = to /\ \A q \in Processes \ {p} : pc'[q] = pc[q]
  BY DEF Types, Goto
<1>2. \A e : e \in Entered <=> \E q \in Processes : pc[q] \in Passing /\ e = <<q, window[q]>>
  BY DEF Entered, Passing
<1>3. \A e : e \in Entered' <=> \E q \in Processes : pc'[q] \in Passing /\ e = <<q, window[q]>>
  BY DEF Entered, Passing
<1> QED
  BY <1>1, <1>2, <1>3

LEMMA QuietStep ==
  ASSUME Types, Begun, NEW p \in Processes, pc[p] # "new", NEW to, Goto(p, to),
         to \in Passing => pc[p] \in Passing, UNCHANGED <<window, requested, archives>>
  PROVE  [Promise!Next]_Promise!vars
<1>1. Asked' = Asked /\ Succeeded' = Succeeded
  BY DEF Asked, Succeeded
<1>2. CASE to \in Passing
  BY <1>1, <1>2, EnteredStep DEF Promise!vars
<1>3. CASE to \notin Passing
  <2>1. window[p] \in Windows
    BY DEF Begun
  <2>2. Promise!Leave(p, window[p])
    BY <1>1, <1>3, EnteredStep DEF Promise!Leave
  <2> QED
    BY <2>1, <2>2 DEF Promise!Next
<1> QED
  BY <1>2, <1>3

LEMMA AdmitStep ==
  ASSUME Types, Begun, Marked, NEW p \in Processes, CheckSentinel(p)
  PROVE  [Promise!Next]_Promise!vars
<1>1. pc[p] = "sentinel" /\ UNCHANGED <<window, requested, archives>> /\ window[p] \in Windows
  BY DEF CheckSentinel, Begun, drive
<1>2. CASE ~Unclaimed(p)
  <2>1. Goto(p, "blocked") /\ "blocked" \notin Passing
    BY <1>2 DEF CheckSentinel, Passing, Live
  <2> QED
    BY <1>1, <2>1, QuietStep
<1>3. CASE Unclaimed(p)
  <2>1. Goto(p, "reserve") /\ "reserve" \in Passing
    BY <1>3 DEF CheckSentinel, Passing, Live
  <2>2. Entered' = Entered \cup {<<p, window[p]>>} /\ Asked' = Asked /\ Succeeded' = Succeeded
    BY <1>1, <2>1, EnteredStep DEF Asked, Succeeded
  <2>3. ASSUME NEW q \in requested PROVE window[q] # window[p]
    BY <1>3, <2>3 DEF Unclaimed, Marked, Acknowledged, Types
  <2>4. \A e \in Asked : e[2] # window[p]
    BY <2>3 DEF Asked
  <2>5. Promise!Admit(p, window[p])
    BY <2>2, <2>4 DEF Promise!Admit, Promise!Unasked
  <2> QED
    BY <1>1, <2>5 DEF Promise!Next
<1> QED
  BY <1>2, <1>3

LEMMA AskStep ==
  ASSUME Types, Begun, NEW p \in Processes, Request(p)
  PROVE  [Promise!Next]_Promise!vars
<1>1. /\ pc[p] = "network" /\ Goto(p, "collect") /\ UNCHANGED <<window, archives>>
      /\ requested' = requested \cup {p} /\ window[p] \in Windows
  BY DEF Request, Begun, drive
<1>2. "network" \in Passing /\ "collect" \in Passing
  BY DEF Passing, Live
<1>3. Entered' = Entered /\ <<p, window[p]>> \in Entered
  BY <1>1, <1>2, EnteredStep DEF Entered, Passing
<1>4. Asked' = Asked \cup {<<p, window[p]>>} /\ Succeeded' = Succeeded
  BY <1>1 DEF Asked, Succeeded
<1>5. Promise!Ask(p, window[p], p)
  BY <1>3, <1>4 DEF Promise!Ask
<1> QED
  BY <1>1, <1>5 DEF Promise!Next

LEMMA ConfirmStep ==
  ASSUME Types, Begun, Progress, NEW p \in Processes, Archive(p)
  PROVE  [Promise!Next]_Promise!vars
<1>1. PICK to \in {"publish", "done"} : Goto(p, to)
  BY DEF Archive, Uploads
<1>2. /\ pc[p] = "archive" /\ UNCHANGED <<window, requested>> /\ window[p] \in Windows
      /\ archives' \in {archives, archives \cup {<<result[p], window[p]>>}}
  BY DEF Archive, Begun
<1>3. "archive" \in Passing /\ p \in requested
  BY <1>2 DEF Passing, Live, Progress, After
<1>4. CASE <<"success", window[p]>> \in archives' \ archives
  <2>1. Succeeded' = Succeeded \cup {window[p]}
    BY <1>2, <1>4 DEF Succeeded
  <2>2. Asked' = Asked /\ <<p, window[p]>> \in Asked /\ <<p, window[p]>> \in Entered
    BY <1>2, <1>3 DEF Asked, Entered, Passing
  <2>3. Entered' \in {Entered, Entered \ {<<p, window[p]>>}}
    BY <1>1, <1>2, <1>3, EnteredStep
  <2>4. Promise!Confirm(p, window[p])
    BY <2>1, <2>2, <2>3 DEF Promise!Confirm
  <2> QED
    BY <1>2, <2>4 DEF Promise!Next
<1>5. CASE <<"success", window[p]>> \notin archives' \ archives
  <2>1. Asked' = Asked /\ Succeeded' = Succeeded
    BY <1>2, <1>5 DEF Asked, Succeeded
  <2>2. CASE to \in Passing
    BY <1>1, <1>2, <1>3, <2>1, <2>2, EnteredStep DEF Promise!vars
  <2>3. CASE to \notin Passing
    <3>1. Promise!Leave(p, window[p])
      BY <1>1, <1>2, <2>1, <2>3, EnteredStep DEF Promise!Leave
    <3> QED
      BY <1>2, <3>1 DEF Promise!Next
  <2> QED
    BY <2>2, <2>3
<1> QED
  BY <1>4, <1>5

LEMMA PromiseStep ==
  ASSUME Types, Begun, Marked, Progress, [Next]_vars
  PROVE  [Promise!Next]_Promise!vars
<1>1. CASE UNCHANGED <<pc, window, requested, archives>>
  BY <1>1 DEF Promise!vars, Entered, Asked, Succeeded
<1>2. ASSUME NEW p \in Processes, Begin(p) PROVE [Promise!Next]_Promise!vars
  <2>1. pc[p] = "new" /\ p \notin requested /\ UNCHANGED <<requested, archives>>
    BY <1>2 DEF Begin, Begun, drive
  <2>2. /\ pc'[p] = "current" /\ "current" \notin Passing /\ "new" \notin Passing
        /\ \A r \in Processes \ {p} : pc'[r] = pc[r] /\ window'[r] = window[r]
    BY <1>2 DEF Begin, Goto, Types, Passing, Live
  <2>3. Asked' = Asked /\ Succeeded' = Succeeded
    BY <2>1, <2>2 DEF Asked, Succeeded, Types
  <2>4. \A e : e \in Entered' <=>
          \E r \in Processes : pc'[r] \in Passing /\ e = <<r, window'[r]>>
    BY DEF Entered, Passing
  <2>5. \A e : e \in Entered <=>
          \E r \in Processes : pc[r] \in Passing /\ e = <<r, window[r]>>
    BY DEF Entered, Passing
  <2>6. Entered' = Entered
    BY <2>1, <2>2, <2>4, <2>5
  <2> QED
    BY <2>3, <2>6 DEF Promise!vars
<1>3. ASSUME NEW p \in Processes,
             \/ Reuse(p) \/ NoReuse(p) \/ ReadError(p) \/ Reserve(p) \/ Mark(p)
             \/ Collected(p) \/ Finish(p) \/ Alert(p) \/ WriteLocal(p) \/ Publish(p) \/ Crash(p)
      PROVE  [Promise!Next]_Promise!vars
  <2>1. /\ pc[p] # "new" /\ UNCHANGED <<window, requested, archives>>
        /\ \E to : Goto(p, to) /\ (to \in Passing => pc[p] \in Passing)
    BY <1>3 DEF Reuse, NoReuse, ReadError, Reserve, Mark, Collected, Finish, Alert,
       WriteLocal, Publish, Crash, Passing, Live, drive
  <2> QED
    BY <2>1, QuietStep
<1>4. UNCHANGED vars \/ NextWindow => UNCHANGED <<pc, window, requested, archives>>
  BY DEF vars, NextWindow, drive
<1> QED
  BY <1>1, <1>2, <1>3, <1>4, AdmitStep, AskStep, ConfirmStep DEF Next, Step

(* The sentinels of the official producers keep the promise of a shared    *)
(* reservation: no process is admitted to a provider for a date that was   *)
(* asked for, and a success is archived only of a date that was.           *)
THEOREM SentinelsKeepTheirPromise == Spec => SentinelsKeepPromise
<1>1. Init => Promise!Init
  BY DEF Init, Promise!Init, Entered, Asked, Succeeded, Live
<1>2. IInv /\ EInv /\ [Next]_vars => [Promise!Next]_Promise!vars
  BY PromiseStep DEF IInv, EInv
<1> QED
  BY <1>1, <1>2, Invariant, EvidenceInvariant, PTL DEF Spec, SentinelsKeepPromise, Promise!Spec
=============================================================================
