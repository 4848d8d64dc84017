----------------------- MODULE DriveArtifactsProofs -----------------------
(***************************************************************************)
(* Theorems of the modules that MCDriveArtifacts puts side by side, for    *)
(* any number of uploads, reads, processes and probes, and stated of its   *)
(* own specification.                                                      *)
(*                                                                         *)
(* DriveUpload: a create happens only where the look-up found nothing, so  *)
(* an upload that began after another one was settled finds its file.  An  *)
(* upload that nobody overlaps knows how many files there are from its     *)
(* look-up to its end.                                                     *)
(***************************************************************************)
EXTENDS MCDriveArtifacts, OfficialShadowProofs, Sequences

Calls == UploadCalls \cup ReadCalls

UploadPhases == {"new", "lookup", "write", "sent", "verify", "compare", "ok", "failed"}
ReadPhases   == {"new", "find", "download", "ok", "failed"}

Entry == [content : Drive!Contents, by : UploadCalls]

CallTypes ==
  /\ at \in [Calls -> UploadPhases \cup ReadPhases]
  /\ target \in [Calls -> Nat]
  /\ request \in [UploadCalls -> {"none", "sent", "stored", "refused"}]
  /\ value \in [ReadCalls -> Drive!Contents \cup {"none"}]

DriveTypes ==
  /\ CallTypes
  /\ files \in Seq(Entry)
  /\ \A u \in UploadCalls : at[u] \in UploadPhases
  /\ \A r \in ReadCalls : at[r] \in ReadPhases
  /\ before \subseteq Calls \X Calls

\* A write leaves after the look-up, and a target is a file
Phased ==
  /\ \A u \in UploadCalls :
       /\ at[u] \in {"new", "lookup", "write"} => request[u] = "none"
       /\ at[u] \in {"sent", "verify", "compare", "ok"} => request[u] # "none"
       /\ target[u] <= Len(files)
  /\ \A r \in ReadCalls : at[r] = "download" => target[r] \in DOMAIN files

LEMMA CallsApart == UploadCalls \cap ReadCalls = {} /\ "none" \notin Drive!Contents
BY ArtifactsAssumption DEF Drive!CallAssumption, Drive!ContentAssumption, Drive!Nothing

-----------------------------------------------------------------------------
(* What a step can do.                                                     *)

\* One upload moves on, as upload_json lets it
Transition(u) ==
  \/ /\ at[u] = "lookup" /\ at'[u] = "write"
     /\ target'[u] = Len(files) /\ Len(files) <= 1 /\ request'[u] = request[u]
  \/ /\ at[u] = "write" /\ at'[u] = "sent"
     /\ target'[u] = target[u] /\ request'[u] = "sent"
  \/ /\ request[u] = "sent" /\ request'[u] = "refused"
     /\ at'[u] = at[u] /\ target'[u] = target[u]
  \/ /\ target'[u] = target[u] /\ request'[u] = request[u]
     /\ at[u] \notin {"ok", "failed"}
     /\ \/ at'[u] = at[u]
        \/ at[u] # "new" /\ at'[u] = "failed"
        \/ at[u] = "sent" /\ at'[u] = "verify"
        \/ at[u] = "sent" /\ at'[u] = "ok" /\ request[u] = "stored"
        \/ at[u] = "verify" /\ at'[u] = "compare" /\ Len(files) = 1
        \/ at[u] = "compare" /\ at'[u] = "ok" /\ files[1].content = Payload[u]

OthersStay(c) ==
  /\ CallTypes'
  /\ \A d \in Calls \ {c} : at'[d] = at[d] /\ target'[d] = target[d]
  /\ \A d \in UploadCalls \ {c} : request'[d] = request[d]
  /\ \A d \in ReadCalls \ {c} : value'[d] = value[d]

UploadMoves(u) ==
  /\ OthersStay(u) /\ Transition(u)
  /\ UNCHANGED <<files, value, before>>

\* One read moves on
ReadMoves(r) ==
  /\ OthersStay(r)
  /\ at[r] \notin {"ok", "failed"}
  /\ \/ at'[r] = at[r] /\ value'[r] = value[r] /\ target'[r] = target[r]
     \/ at'[r] = "failed" /\ at[r] # "new" /\ value'[r] = value[r] /\ target'[r] = target[r]
     \/ /\ at[r] = "find" /\ at'[r] = "ok" /\ files = <<>>
        /\ value'[r] = value[r] /\ target'[r] = target[r]
     \/ at[r] = "find" /\ at'[r] = "download" /\ target'[r] \in DOMAIN files /\ value'[r] = value[r]
     \/ /\ at[r] = "download" /\ at'[r] = "ok" /\ target'[r] = target[r]
        /\ value'[r] = files[target[r]].content
  /\ UNCHANGED <<files, request, before>>

\* A call begins: those that are over and settled came before it
Starts(c) ==
  /\ OthersStay(c)
  /\ at[c] = "new" /\ at'[c] = (IF c \in UploadCalls THEN "lookup" ELSE "find")
  /\ before' = before \cup {<<d, c>> : d \in {e \in Calls : Drive!Settled(e)}}
  /\ UNCHANGED <<files, target, request, value>>

\* Drive carries out a create or an update
Stores(u) ==
  /\ CallTypes' /\ request[u] = "sent" /\ request'[u] = "stored"
  /\ \A d \in UploadCalls \ {u} : request'[d] = request[d]
  /\ target[u] = 0 => files' = Append(files, [content |-> Payload[u], by |-> u])
  /\ target[u] # 0 => files' = [files EXCEPT ![target[u]].content = Payload[u]]
  /\ UNCHANGED <<at, target, value, before>>

LEMMA GotoMoves ==
  ASSUME DriveTypes, NEW c \in Calls, NEW to \in UploadPhases \cup ReadPhases, Drive!Goto(c, to)
  PROVE  /\ at' \in [Calls -> UploadPhases \cup ReadPhases]
         /\ at'[c] = to /\ \A d \in Calls \ {c} : at'[d] = at[d]
BY DEF DriveTypes, CallTypes, Drive!Goto

LEMMA UploadStepMoves ==
  ASSUME DriveTypes, NEW u \in UploadCalls,
         Drive!Retry(u) \/ Drive!GiveUp(u) \/ Drive!UploadStep(u)
  PROVE  UploadMoves(u)
<1> USE DEF Calls, CallTypes, UploadPhases, ReadPhases
<1>1. u \in Calls /\ u \notin ReadCalls /\ at[u] \in UploadPhases /\ request[u] \in {"none", "sent", "stored", "refused"}
  BY CallsApart DEF DriveTypes
<1>2. CASE Drive!Retry(u)
  BY <1>1, <1>2 DEF Drive!Retry, DriveTypes, UploadMoves, OthersStay, Transition
<1>3. CASE Drive!GiveUp(u)
  BY <1>1, <1>3, GotoMoves DEF Drive!GiveUp, DriveTypes, UploadMoves, OthersStay, Transition
<1>4. CASE Drive!Lookup(u)
  <2>1. Drive!Goto(u, "write") /\ at[u] = "lookup" /\ Len(files) <= 1
        /\ target' = [target EXCEPT ![u] = Len(files)] /\ UNCHANGED <<files, request, value, before>>
    BY <1>4 DEF Drive!Lookup, Drive!Unique
  <2>2. target'[u] = Len(files) /\ \A d \in Calls \ {u} : target'[d] = target[d]
    BY <1>1, <2>1 DEF DriveTypes
  <2> QED
    BY <1>1, <2>1, <2>2, GotoMoves DEF DriveTypes, UploadMoves, OthersStay, Transition
<1>5. CASE Drive!LookupAmbiguous(u)
  BY <1>1, <1>5, GotoMoves DEF Drive!LookupAmbiguous, DriveTypes, UploadMoves, OthersStay, Transition
<1>6. CASE Drive!Send(u)
  <2>1. Drive!Goto(u, "sent") /\ at[u] = "write"
        /\ request' = [request EXCEPT ![u] = "sent"] /\ UNCHANGED <<files, target, value, before>>
    BY <1>6 DEF Drive!Send
  <2>2. request'[u] = "sent" /\ \A d \in UploadCalls \ {u} : request'[d] = request[d]
    BY <2>1 DEF DriveTypes
  <2> QED
    BY <1>1, <2>1, <2>2, GotoMoves DEF DriveTypes, UploadMoves, OthersStay, Transition
<1>7. CASE Drive!Acknowledged(u)
  BY <1>1, <1>7, GotoMoves DEF Drive!Acknowledged, DriveTypes, UploadMoves, OthersStay, Transition
<1>8. CASE Drive!Rejected(u)
  BY <1>1, <1>8, GotoMoves DEF Drive!Rejected, DriveTypes, UploadMoves, OthersStay, Transition
<1>9. CASE Drive!Unanswered(u)
  BY <1>1, <1>9, GotoMoves DEF Drive!Unanswered, DriveTypes, UploadMoves, OthersStay, Transition
<1>10. CASE Drive!VerifyIdentity(u)
  BY <1>1, <1>10, GotoMoves
     DEF Drive!VerifyIdentity, Drive!SameIdentity, DriveTypes, UploadMoves, OthersStay, Transition
<1>11. CASE Drive!VerifyContent(u)
  BY <1>1, <1>11, GotoMoves
     DEF Drive!VerifyContent, Drive!ExactContent, DriveTypes, UploadMoves, OthersStay, Transition
<1>12. CASE Drive!Break(u)
  BY <1>1, <1>12, GotoMoves DEF Drive!Break, DriveTypes, UploadMoves, OthersStay, Transition
<1> QED
  BY <1>2, <1>3, <1>4, <1>5, <1>6, <1>7, <1>8, <1>9, <1>10, <1>11, <1>12 DEF Drive!UploadStep

LEMMA ReadStepMoves ==
  ASSUME DriveTypes, Phased, NEW r \in ReadCalls,
         Drive!Retry(r) \/ Drive!GiveUp(r) \/ Drive!ReadStep(r)
  PROVE  ReadMoves(r)
<1> USE DEF Calls, CallTypes, UploadPhases, ReadPhases
<1>1. r \in Calls /\ r \notin UploadCalls /\ at[r] \in ReadPhases
  BY CallsApart DEF DriveTypes
<1>2. CASE Drive!Retry(r)
  BY <1>1, <1>2 DEF Drive!Retry, DriveTypes, ReadMoves, OthersStay
<1>3. CASE Drive!GiveUp(r)
  BY <1>1, <1>3, GotoMoves DEF Drive!GiveUp, DriveTypes, ReadMoves, OthersStay
<1>4. CASE Drive!Find(r)
  <2>1. CASE files = <<>>
    BY <1>1, <1>4, <2>1, GotoMoves DEF Drive!Find, DriveTypes, ReadMoves, OthersStay
  <2>2. CASE files # <<>>
    <3>1. PICK i \in DOMAIN files : target' = [target EXCEPT ![r] = i]
      BY <1>4, <2>2 DEF Drive!Find
    <3>2. i \in Nat
      BY DEF DriveTypes
    <3>3. /\ target' \in [Calls -> Nat]
          /\ target'[r] = i /\ \A d \in Calls \ {r} : target'[d] = target[d]
      BY <1>1, <3>1, <3>2 DEF DriveTypes
    <3> QED
      BY <1>1, <1>4, <2>2, <3>3, GotoMoves DEF Drive!Find, DriveTypes, ReadMoves, OthersStay
  <2> QED
    BY <2>1, <2>2
<1>5. CASE Drive!Download(r)
  <2>1. /\ Drive!Goto(r, "ok") /\ at[r] = "download"
        /\ value' = [value EXCEPT ![r] = files[target[r]].content]
        /\ UNCHANGED <<files, target, request, before>>
    BY <1>5 DEF Drive!Download
  <2>2. files[target[r]].content \in Drive!Contents
    <3>1. files \in Seq(Entry) /\ target[r] \in DOMAIN files
      BY <2>1 DEF DriveTypes, Phased
    <3>2. files[target[r]] \in Entry
      BY <3>1
    <3> QED
      BY <3>2 DEF Entry
  <2>3. value' \in [ReadCalls -> Drive!Contents \cup {"none"}]
        /\ value'[r] = files[target[r]].content /\ \A d \in ReadCalls \ {r} : value'[d] = value[d]
    BY <2>1, <2>2 DEF DriveTypes
  <2> QED
    BY <1>1, <2>1, <2>3, GotoMoves DEF DriveTypes, ReadMoves, OthersStay
<1> QED
  BY <1>2, <1>3, <1>4, <1>5 DEF Drive!ReadStep

\* Every step of Drive is one of these
LEMMA DriveSteps ==
  ASSUME DriveTypes, Phased, Drive!Next
  PROVE  \/ \E c \in Calls : Starts(c)
         \/ \E u \in UploadCalls : UploadMoves(u) \/ Stores(u)
         \/ \E r \in ReadCalls : ReadMoves(r)
<1> USE DEF Calls, CallTypes, UploadPhases, ReadPhases
<1>1. ASSUME NEW c \in Calls, Drive!Begin(c) PROVE Starts(c)
  BY <1>1, GotoMoves, CallsApart DEF DriveTypes, Drive!Begin, Drive!Calls, Starts, OthersStay
<1>2. ASSUME NEW c \in Calls, Drive!Step(c)
      PROVE  (c \in UploadCalls /\ UploadMoves(c)) \/ (c \in ReadCalls /\ ReadMoves(c))
  BY <1>2, UploadStepMoves, ReadStepMoves, CallsApart DEF Drive!Step
<1>3. ASSUME NEW u \in UploadCalls, Drive!Commit(u) PROVE Stores(u)
  <2>1. request' = [request EXCEPT ![u] = "stored"]
    BY <1>3 DEF Drive!Commit
  <2>2. request'[u] = "stored" /\ \A d \in UploadCalls \ {u} : request'[d] = request[d]
    BY <2>1 DEF DriveTypes
  <2> QED
    BY <1>3, <2>2 DEF DriveTypes, Drive!Commit, Drive!NoFile, Stores
<1>4. ASSUME NEW u \in UploadCalls, Drive!Drop(u) PROVE UploadMoves(u)
  <2>1. request' = [request EXCEPT ![u] = "refused"]
    BY <1>4 DEF Drive!Drop
  <2>2. request'[u] = "refused" /\ \A d \in UploadCalls \ {u} : request'[d] = request[d]
    BY <2>1 DEF DriveTypes
  <2> QED
    BY <1>4, <2>2 DEF DriveTypes, Drive!Drop, UploadMoves, OthersStay, Transition
<1> QED
  BY <1>1, <1>2, <1>3, <1>4 DEF Drive!Next, Drive!Calls
-----------------------------------------------------------------------------
(* The invariant.                                                          *)

\* An upload that has looked up and may write, or has written
LookedUp(u) == at[u] = "write" \/ request[u] # "none"

\* Each file was created by one call, which had found none
Created ==
  /\ \A i \in DOMAIN files : request[files[i].by] = "stored" /\ target[files[i].by] = 0
  /\ \A i, j \in DOMAIN files : i # j => files[i].by # files[j].by

\* What came before a call is over, and no write of it is under way
Ordered == \A c, d \in Calls : <<c, d>> \in before => Drive!Settled(c) /\ at[d] # "new"

\* A call that found no file began before any creator of one was settled
Absence ==
  \A u \in UploadCalls : LookedUp(u) /\ target[u] = 0 =>
    \A i \in DOMAIN files : <<files[i].by, u>> \notin before

\* A call that was told of success has a file
Exists ==
  \A u \in UploadCalls :
    at[u] \in {"compare", "ok"} \/ request[u] = "stored" => Len(files) >= 1

\* Every other upload is over, settled and earlier, or has not begun
Alone(u) == \A d \in UploadCalls \ {u} : at[d] # "new" => <<d, u>> \in before
Holds(u) == Len(files) = 1 /\ files[1].content = Payload[u]

\* Such an upload knows what the folder holds
SoleWriter ==
  \A u \in UploadCalls : Alone(u) =>
    /\ LookedUp(u) => IF request[u] = "stored" THEN Holds(u)
                      ELSE target[u] = Len(files) /\ Len(files) <= 1
    /\ at[u] = "compare" => Len(files) = 1
    /\ at[u] = "ok" => Holds(u)

\* A read that found no file began before any success
TrueAbsence ==
  \A r \in ReadCalls, u \in UploadCalls :
    at[r] = "ok" /\ value[r] = "none" /\ at[u] = "ok" => <<u, r>> \notin before

DriveInv ==
  DriveTypes /\ Phased /\ Created /\ Ordered /\ Absence /\ Exists /\ SoleWriter /\ TrueAbsence

-----------------------------------------------------------------------------
\* What a stored write makes of the files
LEMMA StoresDoes ==
  ASSUME DriveTypes, Phased, NEW u \in UploadCalls, Stores(u)
  PROVE  /\ files' \in Seq(Entry)
         /\ DOMAIN files' = 1..Len(files') /\ DOMAIN files = 1..Len(files)
         /\ \A i \in DOMAIN files : i \in DOMAIN files' /\ files'[i].by = files[i].by
         /\ target[u] = 0 => /\ Len(files') = Len(files) + 1
                             /\ files'[Len(files) + 1].by = u
                             /\ files'[Len(files) + 1].content = Payload[u]
         /\ target[u] # 0 => /\ Len(files') = Len(files)
                             /\ files'[target[u]].content = Payload[u]
<1>1. /\ files \in Seq(Entry) /\ target[u] \in Nat /\ target[u] <= Len(files)
      /\ DOMAIN files = 1..Len(files) /\ Len(files) \in Nat
  BY DEF DriveTypes, CallTypes, Phased, Calls
<1>2. Payload[u] \in Drive!Contents /\ [content |-> Payload[u], by |-> u] \in Entry
  BY DEF Entry, Drive!Contents
<1>3. CASE target[u] = 0
  <2>1. files' = Append(files, [content |-> Payload[u], by |-> u])
    BY <1>3 DEF Stores
  <2>2. /\ files' \in Seq(Entry) /\ Len(files') = Len(files) + 1
        /\ DOMAIN files' = 1..Len(files) + 1
        /\ files'[Len(files) + 1] = [content |-> Payload[u], by |-> u]
        /\ \A i \in 1..Len(files) : files'[i] = files[i]
    BY <1>1, <1>2, <2>1
  <2> QED
    BY <1>1, <1>3, <2>2
<1>4. CASE target[u] # 0
  <2> DEFINE t == target[u]
  <2>1. files' = [files EXCEPT ![t] = [files[t] EXCEPT !.content = Payload[u]]]
    BY <1>4 DEF Stores
  <2>2. t \in 1..Len(files) /\ files[t] \in Entry
    BY <1>1, <1>4
  <2>3. [files[t] EXCEPT !.content = Payload[u]] \in Entry
        /\ [files[t] EXCEPT !.content = Payload[u]].by = files[t].by
        /\ [files[t] EXCEPT !.content = Payload[u]].content = Payload[u]
    BY <1>2, <2>2 DEF Entry
  <2>4. /\ files' \in Seq(Entry) /\ Len(files') = Len(files) /\ DOMAIN files' = DOMAIN files
        /\ files'[t] = [files[t] EXCEPT !.content = Payload[u]]
        /\ \A i \in DOMAIN files : i # t => files'[i] = files[i]
    BY <1>1, <2>1, <2>2, <2>3
  <2> QED
    BY <1>1, <1>4, <2>2, <2>3, <2>4
<1> QED
  BY <1>3, <1>4

LEMMA DriveTypesStep ==
  ASSUME DriveInv, Drive!Next
  PROVE  DriveTypes'
<1>1. DriveTypes /\ Phased
  BY DEF DriveInv
<1>2. ASSUME NEW c \in Calls, Starts(c) PROVE DriveTypes'
  BY <1>1, <1>2, CallsApart DEF DriveTypes, Starts, OthersStay, Calls, UploadPhases, ReadPhases
<1>3. ASSUME NEW u \in UploadCalls, UploadMoves(u) PROVE DriveTypes'
  BY <1>1, <1>3, CallsApart
     DEF DriveTypes, UploadMoves, OthersStay, Transition, Calls, UploadPhases
<1>4. ASSUME NEW u \in UploadCalls, Stores(u) PROVE DriveTypes'
  BY <1>1, <1>4, StoresDoes DEF DriveTypes, Stores
<1>5. ASSUME NEW r \in ReadCalls, ReadMoves(r) PROVE DriveTypes'
  BY <1>1, <1>5, CallsApart DEF DriveTypes, ReadMoves, OthersStay, Calls, ReadPhases
<1> QED
  BY <1>1, <1>2, <1>3, <1>4, <1>5, DriveSteps

LEMMA PhasedStep ==
  ASSUME DriveInv, Drive!Next
  PROVE  Phased'
<1>1. DriveTypes /\ Phased /\ DOMAIN files = 1..Len(files)
  BY DEF DriveInv, DriveTypes
<1>2. ASSUME NEW c \in Calls, Starts(c) PROVE Phased'
  BY <1>1, <1>2, CallsApart DEF Phased, Starts, OthersStay, Calls
<1>3. ASSUME NEW u \in UploadCalls, UploadMoves(u) PROVE Phased'
  BY <1>1, <1>3, CallsApart DEF Phased, UploadMoves, OthersStay, Transition, Calls
<1>4. ASSUME NEW u \in UploadCalls, Stores(u) PROVE Phased'
  <2>1. Len(files) <= Len(files') /\ DOMAIN files \subseteq DOMAIN files'
    BY <1>1, <1>4, StoresDoes
  <2>2. UNCHANGED <<at, target>> /\ \A d \in UploadCalls : request'[d] # "none" <=> request[d] # "none"
    BY <1>4 DEF Stores
  <2>3. Len(files) \in Nat /\ Len(files') \in Nat /\ \A d \in UploadCalls : target[d] \in Nat
    BY <1>1, <1>4, StoresDoes DEF DriveTypes, CallTypes, Calls
  <2> QED
    BY <1>1, <2>1, <2>2, <2>3 DEF Phased
<1>5. ASSUME NEW r \in ReadCalls, ReadMoves(r) PROVE Phased'
  BY <1>1, <1>5, CallsApart DEF Phased, ReadMoves, OthersStay, Calls
<1> QED
  BY <1>1, <1>2, <1>3, <1>4, <1>5, DriveSteps

LEMMA FilesForm ==
  ASSUME DriveTypes
  PROVE  /\ DOMAIN files = 1..Len(files) /\ Len(files) \in Nat
         /\ \A i \in DOMAIN files : files[i] \in Entry /\ files[i].by \in UploadCalls
<1>1. files \in Seq(Entry)
  BY DEF DriveTypes
<1>2. DOMAIN files = 1..Len(files) /\ Len(files) \in Nat /\ \A i \in DOMAIN files : files[i] \in Entry
  BY <1>1
<1>3. \A f \in Entry : f.by \in UploadCalls
  BY DEF Entry
<1> QED
  BY <1>2, <1>3

LEMMA CreatedStep ==
  ASSUME DriveInv, Drive!Next
  PROVE  Created'
<1>1. /\ DriveTypes /\ Phased /\ Created /\ DOMAIN files = 1..Len(files) /\ Len(files) \in Nat
      /\ \A i \in DOMAIN files : files[i].by \in UploadCalls
  BY FilesForm DEF DriveInv
<1>2. ASSUME NEW c \in Calls, Starts(c) PROVE Created'
  BY <1>1, <1>2 DEF Created, Starts
<1>3. ASSUME NEW u \in UploadCalls, UploadMoves(u) PROVE Created'
  <2>1. request[u] = "stored" => request'[u] = "stored" /\ target'[u] = target[u]
    BY <1>1, <1>3 DEF UploadMoves, Transition, Phased
  <2>2. UNCHANGED files /\ \A d \in UploadCalls \ {u} : request'[d] = request[d] /\ target'[d] = target[d]
    BY <1>3 DEF UploadMoves, OthersStay, Calls
  <2> QED
    BY <1>1, <2>1, <2>2 DEF Created
<1>4. ASSUME NEW u \in UploadCalls, Stores(u) PROVE Created'
  <2>1. \A i \in DOMAIN files : files[i].by # u
    BY <1>1, <1>4 DEF Created, Stores
  <2>2. UNCHANGED target /\ request'[u] = "stored"
        /\ \A d \in UploadCalls \ {u} : request'[d] = request[d]
    BY <1>4 DEF Stores
  <2>3. \A i \in DOMAIN files' :
          \/ i \in DOMAIN files /\ files'[i].by = files[i].by
          \/ i = Len(files) + 1 /\ files'[i].by = u /\ target[u] = 0
    BY <1>1, <1>4, StoresDoes
  <2> QED
    BY <1>1, <2>1, <2>2, <2>3 DEF Created
<1>5. ASSUME NEW r \in ReadCalls, ReadMoves(r) PROVE Created'
  BY <1>1, <1>5, CallsApart DEF Created, ReadMoves, OthersStay, Calls
<1> QED
  BY <1>1, <1>2, <1>3, <1>4, <1>5, DriveSteps

\* A settled call does not move
LEMMA SettledStays ==
  ASSUME DriveInv, Drive!Next, NEW c \in Calls, Drive!Settled(c)
  PROVE  at'[c] = at[c] /\ Drive!Settled(c)'
<1>1. /\ DriveTypes /\ Phased /\ at[c] \in {"ok", "failed"}
      /\ c \in UploadCalls => request[c] # "sent"
  BY DEF DriveInv, Drive!Settled, Drive!Over
<1>2. at'[c] = at[c] /\ (c \in UploadCalls => request'[c] # "sent")
  <2>1. ASSUME NEW d \in Calls, Starts(d)
        PROVE  at'[c] = at[c] /\ (c \in UploadCalls => request'[c] # "sent")
    BY <1>1, <2>1 DEF Starts, OthersStay
  <2>2. ASSUME NEW u \in UploadCalls, UploadMoves(u)
        PROVE  at'[c] = at[c] /\ (c \in UploadCalls => request'[c] # "sent")
    BY <1>1, <2>2 DEF UploadMoves, OthersStay, Transition
  <2>3. ASSUME NEW u \in UploadCalls, Stores(u)
        PROVE  at'[c] = at[c] /\ (c \in UploadCalls => request'[c] # "sent")
    BY <1>1, <2>3 DEF Stores
  <2>4. ASSUME NEW r \in ReadCalls, ReadMoves(r)
        PROVE  at'[c] = at[c] /\ (c \in UploadCalls => request'[c] # "sent")
    BY <1>1, <2>4 DEF ReadMoves, OthersStay
  <2> QED
    BY <1>1, <2>1, <2>2, <2>3, <2>4, DriveSteps
<1> QED
  BY <1>1, <1>2 DEF Drive!Settled, Drive!Over

\* A new pair of calls is one that begins and one that is settled
LEMMA PairsGrow ==
  ASSUME DriveInv, Drive!Next
  PROVE  /\ before \subseteq before'
         /\ \A c, d \in Calls : <<c, d>> \in before' /\ <<c, d>> \notin before =>
              at[d] = "new" /\ Starts(d) /\ Drive!Settled(c)
<1>1. DriveTypes /\ Phased
  BY DEF DriveInv
<1> QED
  BY <1>1, DriveSteps DEF Starts, UploadMoves, Stores, ReadMoves

\* No call becomes new again
LEMMA BegunStays ==
  ASSUME DriveInv, Drive!Next, NEW c \in Calls, at[c] # "new"
  PROVE  at'[c] # "new"
<1>1. DriveTypes /\ Phased
  BY DEF DriveInv
<1>2. ASSUME NEW d \in Calls, Starts(d) PROVE at'[c] # "new"
  BY <1>2 DEF Starts, OthersStay
<1>3. ASSUME NEW u \in UploadCalls, UploadMoves(u) PROVE at'[c] # "new"
  BY <1>3 DEF UploadMoves, OthersStay, Transition
<1>4. ASSUME NEW r \in ReadCalls, ReadMoves(r) PROVE at'[c] # "new"
  BY <1>4 DEF ReadMoves, OthersStay
<1> QED
  BY <1>1, <1>2, <1>3, <1>4, DriveSteps DEF Stores

LEMMA OrderedStep ==
  ASSUME DriveInv, Drive!Next
  PROVE  Ordered'
<1>1. ASSUME NEW c \in Calls, NEW d \in Calls, <<c, d>> \in before'
      PROVE  Drive!Settled(c)' /\ at'[d] # "new"
  <2>1. CASE <<c, d>> \in before
    BY <2>1, SettledStays, BegunStays DEF DriveInv, Ordered
  <2>2. CASE <<c, d>> \notin before
    BY <1>1, <2>2, PairsGrow, SettledStays DEF Starts
  <2> QED
    BY <2>1, <2>2
<1> QED
  BY <1>1 DEF Ordered

LEMMA AbsenceStep ==
  ASSUME DriveInv, Drive!Next
  PROVE  Absence'
<1>1. /\ DriveTypes /\ Phased /\ Absence /\ Ordered
      /\ DOMAIN files = 1..Len(files) /\ Len(files) \in Nat
      /\ \A i \in DOMAIN files : files[i].by \in UploadCalls
      /\ UploadCalls \subseteq Calls
  BY FilesForm DEF DriveInv, Calls
<1> SUFFICES ASSUME NEW u \in UploadCalls, LookedUp(u)', target'[u] = 0, NEW i \in DOMAIN files'
             PROVE  <<files'[i].by, u>> \notin before'
  BY DEF Absence
<1>2. ASSUME NEW c \in Calls, Starts(c) PROVE <<files'[i].by, u>> \notin before'
  <2>1. LookedUp(u) /\ at[u] # "new" /\ c # u /\ target[u] = 0 /\ UNCHANGED files
    BY <1>1, <1>2 DEF Starts, OthersStay, LookedUp, Phased
  <2>2. <<files[i].by, u>> \notin before
    BY <1>1, <2>1 DEF Absence
  <2> QED
    BY <1>1, <2>1, <2>2, PairsGrow
<1>3. ASSUME NEW w \in UploadCalls, UploadMoves(w) PROVE <<files'[i].by, u>> \notin before'
  <2>1. UNCHANGED <<files, before>>
    BY <1>3 DEF UploadMoves
  <2>2. CASE LookedUp(u) /\ target[u] = 0
    BY <1>1, <2>1, <2>2 DEF Absence
  <2>3. CASE ~(LookedUp(u) /\ target[u] = 0)
    <3>1. target'[u] = Len(files)
      BY <1>1, <1>3, <2>3 DEF UploadMoves, OthersStay, Transition, LookedUp
    <3> QED
      BY <1>1, <2>1, <3>1
  <2> QED
    BY <2>2, <2>3
<1>4. ASSUME NEW w \in UploadCalls, Stores(w) PROVE <<files'[i].by, u>> \notin before'
  <2>1. LookedUp(u) /\ target[u] = 0 /\ UNCHANGED before
    BY <1>4 DEF Stores, LookedUp
  <2>2. \/ i \in DOMAIN files /\ files'[i].by = files[i].by
       \/ files'[i].by = w
    BY <1>1, <1>4, StoresDoes
  <2>3. <<w, u>> \notin before
    BY <1>1, <1>4 DEF Stores, Ordered, Drive!Settled
  <2> QED
    BY <1>1, <2>1, <2>2, <2>3 DEF Absence
<1>5. ASSUME NEW r \in ReadCalls, ReadMoves(r) PROVE <<files'[i].by, u>> \notin before'
  BY <1>1, <1>5, CallsApart DEF ReadMoves, OthersStay, Absence, LookedUp
<1> QED
  BY <1>1, <1>2, <1>3, <1>4, <1>5, DriveSteps

LEMMA ExistsStep ==
  ASSUME DriveInv, Drive!Next
  PROVE  Exists'
<1>1. /\ DriveTypes /\ Phased /\ Exists /\ Len(files) \in Nat /\ UploadCalls \subseteq Calls
  BY DEF DriveInv, DriveTypes, Calls
<1>2. ASSUME NEW c \in Calls, Starts(c) PROVE Exists'
  BY <1>1, <1>2 DEF Exists, Starts, OthersStay
<1>3. ASSUME NEW u \in UploadCalls, UploadMoves(u) PROVE Exists'
  BY <1>1, <1>3 DEF Exists, UploadMoves, OthersStay, Transition
<1>4. ASSUME NEW u \in UploadCalls, Stores(u) PROVE Exists'
  <2>1. Len(files') \in Nat /\ Len(files') >= Len(files) /\ Len(files') >= 1
    BY <1>1, <1>4, StoresDoes DEF DriveTypes, CallTypes, Phased
  <2> QED
    BY <1>1, <1>4, <2>1 DEF Exists, Stores
<1>5. ASSUME NEW r \in ReadCalls, ReadMoves(r) PROVE Exists'
  BY <1>1, <1>5, CallsApart DEF Exists, ReadMoves, OthersStay
<1> QED
  BY <1>1, <1>2, <1>3, <1>4, <1>5, DriveSteps

\* An upload is alone only if it was so before, and then no other write is stored
LEMMA AloneWas ==
  ASSUME DriveInv, Drive!Next, NEW u \in UploadCalls, at[u] # "new", Alone(u)'
  PROVE  Alone(u) /\ \A d \in UploadCalls \ {u} : ~Stores(d)
<1>1. DriveTypes /\ Phased /\ Ordered /\ UploadCalls \subseteq Calls
  BY DEF DriveInv, Calls
<1>2. ASSUME NEW d \in UploadCalls \ {u}, at[d] # "new" PROVE <<d, u>> \in before
  <2>1. <<d, u>> \in before'
    BY <1>1, <1>2, BegunStays DEF Alone
  <2> QED
    BY <1>1, <2>1, PairsGrow
<1>3. ASSUME NEW d \in UploadCalls \ {u} PROVE ~Stores(d)
  BY <1>1, <1>2 DEF Stores, Ordered, Phased, Drive!Settled
<1> QED
  BY <1>2, <1>3 DEF Alone

LEMMA SoleWriterStep ==
  ASSUME DriveInv, Drive!Next
  PROVE  SoleWriter'
<1>1. /\ DriveTypes /\ Phased /\ SoleWriter /\ UploadCalls \subseteq Calls
      /\ DOMAIN files = 1..Len(files) /\ Len(files) \in Nat
  BY FilesForm DEF DriveInv, Calls
<1> DEFINE Knows(u) == /\ LookedUp(u) => IF request[u] = "stored" THEN Holds(u)
                                          ELSE target[u] = Len(files) /\ Len(files) <= 1
                       /\ at[u] = "compare" => Len(files) = 1
                       /\ at[u] = "ok" => Holds(u)
<1> SUFFICES ASSUME NEW u \in UploadCalls, Alone(u)' PROVE Knows(u)'
  BY DEF SoleWriter
<1>2. CASE at[u] = "new"
  <2>1. request[u] = "none"
    BY <1>1, <1>2 DEF Phased
  <2>2. at'[u] \in {"new", "lookup"} /\ request'[u] = "none"
    <3>1. ASSUME NEW c \in Calls, Starts(c) PROVE at'[u] \in {"new", "lookup"} /\ request'[u] = "none"
      BY <1>1, <1>2, <2>1, <3>1 DEF Starts, OthersStay
    <3>2. ASSUME NEW w \in UploadCalls, UploadMoves(w)
          PROVE  at'[u] \in {"new", "lookup"} /\ request'[u] = "none"
      BY <1>1, <1>2, <2>1, <3>2 DEF UploadMoves, OthersStay, Transition
    <3>3. ASSUME NEW w \in UploadCalls, Stores(w)
          PROVE  at'[u] \in {"new", "lookup"} /\ request'[u] = "none"
      BY <1>1, <1>2, <2>1, <3>3 DEF Stores
    <3>4. ASSUME NEW r \in ReadCalls, ReadMoves(r)
          PROVE  at'[u] \in {"new", "lookup"} /\ request'[u] = "none"
      BY <1>1, <1>2, <2>1, <3>4, CallsApart DEF ReadMoves, OthersStay
    <3> QED
      BY <1>1, <3>1, <3>2, <3>3, <3>4, DriveSteps
  <2> QED
    BY <2>2 DEF LookedUp
<1>3. CASE at[u] # "new"
  <2>1. Knows(u) /\ \A d \in UploadCalls \ {u} : ~Stores(d)
    BY <1>1, <1>3, AloneWas DEF SoleWriter
  <2>2. ASSUME UNCHANGED files, at'[u] = at[u], target'[u] = target[u], request'[u] = request[u]
        PROVE  Knows(u)'
    BY <2>1, <2>2 DEF LookedUp, Holds
  <2>3. ASSUME NEW c \in Calls, Starts(c) PROVE Knows(u)'
    BY <1>1, <1>3, <2>2, <2>3 DEF Starts, OthersStay
  <2>4. ASSUME NEW w \in UploadCalls, w # u, UploadMoves(w) PROVE Knows(u)'
    BY <1>1, <2>2, <2>4 DEF UploadMoves, OthersStay
  <2>5. CASE UploadMoves(u)
    BY <1>1, <2>1, <2>5 DEF UploadMoves, Transition, Phased, LookedUp, Holds
  <2>6. CASE Stores(u)
    <3>1. at'[u] = at[u] /\ request'[u] = "stored" /\ target[u] = Len(files) /\ Len(files) <= 1
      BY <2>1, <2>6 DEF Stores, LookedUp
    <3>2. Len(files') = 1 /\ files'[1].content = Payload[u]
      <4>1. CASE target[u] = 0
        <5>1. Len(files') = Len(files) + 1 /\ files'[Len(files) + 1].content = Payload[u]
          BY <1>1, <2>6, <4>1, StoresDoes
        <5>2. Len(files) + 1 = 1
          BY <3>1, <4>1
        <5> QED
          BY <5>1, <5>2
      <4>2. CASE target[u] # 0
        <5>1. Len(files') = Len(files) /\ files'[target[u]].content = Payload[u]
          BY <1>1, <2>6, <4>2, StoresDoes
        <5>2. target[u] = 1 /\ Len(files) = 1
          BY <1>1, <3>1, <4>2
        <5> QED
          BY <5>1, <5>2
      <4> QED
        BY <4>1, <4>2
    <3> QED
      BY <3>1, <3>2 DEF Holds
  <2>7. ASSUME NEW r \in ReadCalls, ReadMoves(r) PROVE Knows(u)'
    BY <1>1, <2>2, <2>7, CallsApart DEF ReadMoves, OthersStay
  <2> QED
    BY <1>1, <2>1, <2>3, <2>4, <2>5, <2>6, <2>7, DriveSteps
<1> QED
  BY <1>2, <1>3

LEMMA TrueAbsenceStep ==
  ASSUME DriveInv, Drive!Next
  PROVE  TrueAbsence'
<1>1. /\ DriveTypes /\ Phased /\ TrueAbsence /\ Ordered /\ Exists
      /\ UploadCalls \subseteq Calls /\ ReadCalls \subseteq Calls
  BY DEF DriveInv, Calls
<1> SUFFICES ASSUME NEW r \in ReadCalls, NEW u \in UploadCalls,
                    at'[r] = "ok", value'[r] = "none", at'[u] = "ok", <<u, r>> \in before'
             PROVE  FALSE
  BY DEF TrueAbsence
<1>2. <<u, r>> \in before
  <2>1. CASE <<u, r>> \notin before
    <3>1. Starts(r)
      BY <1>1, <2>1, PairsGrow
    <3> QED
      BY <3>1, CallsApart DEF Starts
  <2> QED
    BY <2>1
<1>3. at[u] = "ok"
  BY <1>1, <1>2, SettledStays DEF Ordered
<1>4. ~(at[r] = "ok" /\ value[r] = "none")
  BY <1>1, <1>2, <1>3 DEF TrueAbsence
<1>5. files # <<>>
  BY <1>1, <1>3 DEF Exists
<1>6. ASSUME NEW c \in Calls, Starts(c) PROVE FALSE
  BY <1>1, <1>4, <1>6 DEF Starts, OthersStay
<1>7. ASSUME NEW w \in UploadCalls, UploadMoves(w) PROVE FALSE
  BY <1>1, <1>4, <1>7, CallsApart DEF UploadMoves, OthersStay
<1>8. ASSUME NEW w \in UploadCalls, Stores(w) PROVE FALSE
  BY <1>4, <1>8 DEF Stores
<1>9. ASSUME NEW x \in ReadCalls, ReadMoves(x) PROVE FALSE
  <2>1. x = r
    BY <1>1, <1>4, <1>9 DEF ReadMoves, OthersStay
  <2>2. at[r] = "download" /\ value'[r] = files[target[r]].content
    BY <1>4, <1>5, <1>9, <2>1 DEF ReadMoves
  <2>3. files[target[r]] \in Entry
    BY <1>1, <2>2, FilesForm DEF Phased
  <2>4. files[target[r]].content \in Drive!Contents
    BY <2>3 DEF Entry
  <2> QED
    BY <2>2, <2>4, CallsApart
<1> QED
  BY <1>1, <1>6, <1>7, <1>8, <1>9, DriveSteps

-----------------------------------------------------------------------------
LEMMA DriveInvariance == Drive!Spec => []DriveInv
<1>1. Drive!Init => DriveInv
  <2> SUFFICES ASSUME Drive!Init PROVE DriveInv
    OBVIOUS
  <2> USE DEF Drive!Init, Drive!Calls, Drive!NoFile, Drive!Nothing
  <2>1. DriveTypes
    BY DEF DriveTypes, CallTypes, Calls, UploadPhases, ReadPhases
  <2>2. files = <<>> /\ DOMAIN files = {} /\ Len(files) = 0 /\ before = {}
    OBVIOUS
  <2>3. /\ \A c \in Calls : at[c] = "new" /\ target[c] = 0
        /\ \A u \in UploadCalls : request[u] = "none"
        /\ UploadCalls \subseteq Calls /\ ReadCalls \subseteq Calls
    BY DEF Calls
  <2> HIDE DEF Drive!Init
  <2>4. Phased
    BY <2>2, <2>3 DEF Phased
  <2>5. Created /\ Ordered /\ Absence
    BY <2>2 DEF Created, Ordered, Absence
  <2>6. Exists /\ SoleWriter /\ TrueAbsence
    BY <2>2, <2>3 DEF Exists, SoleWriter, TrueAbsence, LookedUp
  <2> QED
    BY <2>1, <2>4, <2>5, <2>6 DEF DriveInv
<1>2. DriveInv /\ [Drive!Next]_Drive!vars => DriveInv'
  <2>1. ASSUME DriveInv, Drive!Next PROVE DriveInv'
    BY <2>1, DriveTypesStep, PhasedStep, CreatedStep, OrderedStep, AbsenceStep, ExistsStep,
       SoleWriterStep, TrueAbsenceStep DEF DriveInv
  <2>2. ASSUME DriveInv, UNCHANGED Drive!vars PROVE DriveInv'
    <3>1. UNCHANGED <<files, at, tries, target, request, value, before>>
      BY <2>2 DEF Drive!vars
    <3> QED
      BY <2>2, <3>1
         DEF DriveInv, DriveTypes, CallTypes, Phased, Created, Ordered, Absence, Exists, SoleWriter,
             TrueAbsence, LookedUp, Alone, Holds, Drive!Settled, Drive!Over
  <2> QED
    BY <2>1, <2>2
<1> QED
  BY <1>1, <1>2, PTL DEF Drive!Spec

\* The specification of the run behaves as each of its parts.
LEMMA Parts == ArtifactsSpec => Drive!Spec /\ Spec /\ Capability!Spec
<1>1. ArtifactsInit => Drive!Init /\ Init /\ Capability!Init
  BY DEF ArtifactsInit
<1>2. [ArtifactsNext]_artifactsVars =>
        [Drive!Next]_Drive!vars /\ [Next]_vars /\ [Capability!Next]_Capability!capabilityVars
  BY DEF ArtifactsNext, artifactsVars, ofDrive, ofCapability, Drive!vars, Capability!capabilityVars
<1> QED
  BY <1>1, <1>2, PTL DEF ArtifactsSpec, Drive!Spec, Spec, Capability!Spec

\* Lost answers, retries and crashes of any number of uploads never make a
\* second file of a name: two files have two creators whose calls overlapped.
THEOREM DuplicatesOverlap == ArtifactsSpec => []DuplicatesNeedOverlap
<1>1. DriveInv => DuplicatesNeedOverlap
  <2> SUFFICES ASSUME DriveInv, NEW i \in DOMAIN files, NEW j \in DOMAIN files, i # j
               PROVE  files[i].by # files[j].by /\ <<files[i].by, files[j].by>> \notin before
    BY DEF DuplicatesNeedOverlap, Drive!DuplicatesNeedOverlap
  <2>1. files[j].by \in UploadCalls
    BY FilesForm DEF DriveInv
  <2>2. LookedUp(files[j].by) /\ target[files[j].by] = 0 /\ files[i].by # files[j].by
    BY DEF DriveInv, Created, LookedUp
  <2> QED
    BY <2>1, <2>2 DEF DriveInv, Absence
<1> QED
  BY <1>1, DriveInvariance, Parts, PTL

\* "ACKNOWLEDGED" and "EXACT_CONTENT_VERIFIED" are true: after a success that
\* no other upload overlapped or followed, the only file has that content.
THEOREM SuccessStored == ArtifactsSpec => []SuccessIsStored
<1>1. DriveInv => SuccessIsStored
  BY DEF DriveInv, SuccessIsStored, Drive!SuccessIsStored, SoleWriter, Alone, Holds
<1> QED
  BY <1>1, DriveInvariance, Parts, PTL

\* A failed look-up is never reported as an absent file, whatever the reads and
\* uploads around it do.
THEOREM AbsenceIsTrue == ArtifactsSpec => []AbsentMeansAbsent
<1>1. DriveInv => AbsentMeansAbsent
  BY DEF DriveInv, AbsentMeansAbsent, Drive!AbsentMeansAbsent, Drive!Nothing, TrueAbsence
<1> QED
  BY <1>1, DriveInvariance, Parts, PTL

-----------------------------------------------------------------------------
(* TossCapability.  At most one run is busy with the probe, no other run   *)
(* has sent a request while the present record stands, and the record      *)
(* names the run that is to answer for it.                                 *)

ProbePhases == {"new", "reserve", "token", "candles", "store", "reused", "error", "done", "dead"}
Busy        == {"reserve", "token", "candles", "store"}
Verdicts    == {"TOSS_READ_ONLY_CAPABILITY_PASS", "TOSS_AUTH_OR_ENTITLEMENT_BLOCKED",
                "TOSS_RATE_LIMITED", "TOSS_TRANSIENT_FAILURE", "TOSS_RESPONSE_CONTRACT_INVALID"}
Recorded(s, r) == [status |-> s, by |-> r]

ProbeTypes ==
  /\ probe \in [Probers -> ProbePhases]
  /\ sent \in [Probers -> Nat]
  /\ era \in [Probers -> Nat]
  /\ resets \in Nat

OneBusy == \A r, x \in Probers : probe[r] \in Busy /\ probe[x] \in Busy => r = x

Counted ==
  \A r \in Probers :
    /\ sent[r] <= 2 /\ era[r] <= resets
    /\ probe[r] \in {"new", "reserve", "token"} => sent[r] = 0
    /\ probe[r] = "candles" => sent[r] = 1

\* Requests of the present era stand behind a record
Backed == \A r \in Probers : sent[r] > 0 /\ era[r] = resets => Capability!Stands

\* What the busy run knows
Holder ==
  \A r \in Probers : probe[r] \in Busy =>
    /\ era[r] = resets
    /\ \A x \in Probers : x # r /\ sent[x] > 0 => era[x] # resets
    /\ probe[r] = "reserve" => ~Capability!Stands
    /\ probe[r] # "reserve" => stored = Recorded(Capability!Reserved, r)

OncePerEra == \A r, x \in Probers : r # x /\ sent[r] > 0 /\ sent[x] > 0 => era[r] # era[x]

\* The run was answered as a pass demands
Answered(r) ==
  /\ heard.by = r /\ sent[r] = 2
  /\ heard.answer.end = "ok" /\ heard.answer.headers
  /\ Capability!ToSet(heard.answer.candles) = {"good"}

Truthful ==
  /\ \A r \in Probers : probe[r] = "store" =>
       found \in Verdicts /\ (found = Capability!Pass => Answered(r))
  /\ stored.status = Capability!Pass => stored.by \in Probers /\ Answered(stored.by)

ProbeInv == ProbeTypes /\ OneBusy /\ Counted /\ Backed /\ Holder /\ OncePerEra /\ Truthful

-----------------------------------------------------------------------------
\* Only the run that acts moves
Alters(r, to, n) ==
  /\ ProbeTypes'
  /\ probe'[r] = to /\ sent'[r] = n
  /\ \A x \in Probers \ {r} : probe'[x] = probe[x] /\ sent'[x] = sent[x] /\ era'[x] = era[x]
  /\ resets' = resets

LEMMA GotoAlters ==
  ASSUME ProbeTypes, NEW r \in Probers, NEW to \in ProbePhases, Capability!Goto(r, to),
         UNCHANGED <<resets, era>>, UNCHANGED sent \/ Capability!Send(r)
  PROVE  Alters(r, to, sent'[r]) /\ sent'[r] = (IF UNCHANGED sent THEN sent[r] ELSE sent[r] + 1)
         /\ era'[r] = era[r]
<1>1. probe' \in [Probers -> ProbePhases] /\ probe'[r] = to
      /\ \A x \in Probers \ {r} : probe'[x] = probe[x]
  BY DEF ProbeTypes, Capability!Goto
<1>2. /\ sent' \in [Probers -> Nat] /\ \A x \in Probers \ {r} : sent'[x] = sent[x]
      /\ sent'[r] = (IF UNCHANGED sent THEN sent[r] ELSE sent[r] + 1)
  <2>1. CASE UNCHANGED sent
    BY <2>1 DEF ProbeTypes
  <2>2. CASE sent' # sent
    <3>1. sent' = [sent EXCEPT ![r] = sent[r] + 1]
      BY <2>2 DEF Capability!Send
    <3> QED
      BY <2>2, <3>1 DEF ProbeTypes
  <2> QED
    BY <2>1, <2>2
<1> QED
  BY <1>1, <1>2 DEF Alters, ProbeTypes

LEMMA VerdictKinds ==
  /\ \A e \in Capability!Ends \ {"ok"} :
       Capability!FailureStatus(e) \in Verdicts /\ Capability!FailureStatus(e) # Capability!Pass
  /\ Capability!FailureStatus("unusable") \in Verdicts
  /\ Capability!FailureStatus("unusable") # Capability!Pass
  /\ Capability!Pass \in Verdicts /\ Capability!Reserved \in Verdicts /\ Capability!Reserved # Capability!Pass
BY DEF Capability!Ends, Capability!FailureStatus, Capability!Pass, Capability!Reserved, Verdicts

\* A pass is an answer with rate limits and candles that are all good
LEMMA PassVerdict ==
  ASSUME NEW a \in Capability!Answers
  PROVE  /\ Capability!Verdict(a) \in Verdicts
         /\ Capability!Verdict(a) = Capability!Pass =>
              a.end = "ok" /\ a.headers /\ Capability!ToSet(a.candles) = {"good"}
<1>1. CASE a.end # "ok"
  <2>1. a.end \in Capability!Ends \ {"ok"}
    BY <1>1 DEF Capability!Answers
  <2> QED
    BY <1>1, <2>1, VerdictKinds DEF Capability!Verdict
<1>2. CASE a.end = "ok"
  <2>1. a.candles \in Capability!SeqOf(Capability!Candles, 3) /\ a.headers \in BOOLEAN
    BY <1>2 DEF Capability!Answers
  <2>2. a.candles \in Seq(Capability!Candles)
    <3>1. PICK m \in 0..3 : a.candles \in [1..m -> Capability!Candles]
      BY <2>1 DEF Capability!SeqOf
    <3> QED
      BY <3>1
  <2>3. ASSUME Capability!SchemaValid(a) PROVE Capability!ToSet(a.candles) = {"good"}
    <3>1. Len(a.candles) \in 1..2 /\ DOMAIN a.candles = 1..Len(a.candles)
      BY <2>2, <2>3 DEF Capability!SchemaValid
    <3>2. 1 \in DOMAIN a.candles /\ \A i \in DOMAIN a.candles : a.candles[i] = "good"
      BY <2>3, <3>1 DEF Capability!SchemaValid
    <3> QED
      BY <3>2 DEF Capability!ToSet
  <2>4. CASE Capability!SchemaValid(a) /\ a.headers
    BY <1>2, <2>3, <2>4, VerdictKinds DEF Capability!Verdict
  <2>5. CASE ~(Capability!SchemaValid(a) /\ a.headers)
    BY <1>2, <2>5, VerdictKinds DEF Capability!Verdict
  <2> QED
    BY <2>4, <2>5
<1> QED
  BY <1>1, <1>2

LEMMA LookUpKeeps ==
  ASSUME ProbeInv, NEW r \in Probers, Capability!LookUp(r)
  PROVE  ProbeInv'
<1>1. PICK to \in {"reused", "reserve", "error"} :
        /\ probe[r] = "new" /\ \A x \in Probers : probe[x] \notin Busy
        /\ Capability!Goto(r, to) /\ (to = "reserve" => ~Capability!Stands)
        /\ era' = [era EXCEPT ![r] = resets]
        /\ UNCHANGED <<stored, resets, sent, heard>>
  BY DEF Capability!LookUp, Capability!Live, Capability!Over, Busy
<1>2. ProbeTypes' /\ probe'[r] = to /\ era'[r] = resets /\ sent[r] = 0
      /\ \A x \in Probers \ {r} : probe'[x] = probe[x] /\ era'[x] = era[x]
  BY <1>1 DEF ProbeInv, ProbeTypes, ProbePhases, Counted, Capability!Goto
<1>3. OneBusy' /\ Counted' /\ Backed' /\ OncePerEra'
  BY <1>1, <1>2 DEF ProbeInv, OneBusy, Counted, Backed, OncePerEra, Busy, ProbeTypes, Capability!Stands
<1>4. Holder'
  BY <1>1, <1>2 DEF ProbeInv, Holder, Backed, Busy, Capability!Stands
<1>5. Truthful'
  BY <1>1, <1>2 DEF ProbeInv, Truthful, Answered, Busy
<1> QED
  BY <1>2, <1>3, <1>4, <1>5 DEF ProbeInv

\* A step of the busy run that leaves the requests and the answer alone
LEMMA QuietKeeps ==
  ASSUME ProbeInv, NEW r \in Probers, probe[r] \in Busy, NEW to \in ProbePhases,
         Alters(r, to, sent[r]), era'[r] = era[r], UNCHANGED heard,
         to \in Busy => /\ to # "reserve" /\ stored' = Recorded(Capability!Reserved, r)
                        /\ to = "token" => sent[r] = 0
                        /\ to = "candles" => sent[r] = 1
                        /\ to = "store" => found' \in Verdicts /\ found' # Capability!Pass,
         to # "new",
         \/ UNCHANGED stored
         \/ stored' = Recorded(Capability!Reserved, r)
         \/ probe[r] = "store" /\ stored' = Recorded(found, r)
  PROVE  ProbeInv'
<1>1. \A x \in Probers \ {r} : probe[x] \notin Busy
  BY DEF ProbeInv, OneBusy
<1>2. ProbeTypes' /\ OneBusy' /\ Counted' /\ OncePerEra'
  BY <1>1 DEF ProbeInv, ProbeTypes, OneBusy, Counted, OncePerEra, Alters, Busy
<1>3. Capability!Stands => Capability!Stands'
  BY VerdictKinds DEF ProbeInv, Truthful, Capability!Stands, Capability!Missing, Capability!Foreign, Recorded, Verdicts
<1>4. Backed'
  BY <1>3 DEF ProbeInv, Backed, Alters
<1>5. Holder'
  BY <1>1 DEF ProbeInv, Holder, Alters, Busy
<1>6. Truthful'
  BY <1>1, VerdictKinds DEF ProbeInv, Truthful, Answered, Alters, Recorded, Busy
<1> QED
  BY <1>2, <1>4, <1>5, <1>6 DEF ProbeInv

LEMMA ReserveKeeps ==
  ASSUME ProbeInv, NEW r \in Probers, Capability!Reserve(r)
  PROVE  ProbeInv'
<1>1. PICK to \in {"token", "error"} :
        /\ probe[r] = "reserve" /\ Capability!Goto(r, to)
        /\ stored' = Recorded(Capability!Reserved, r) \/ (to = "error" /\ UNCHANGED stored)
        /\ UNCHANGED <<found, resets, sent, heard, era>>
  BY DEF Capability!Reserve, Capability!Store, Recorded
<1>2. Alters(r, to, sent[r]) /\ era'[r] = era[r]
  BY <1>1, GotoAlters DEF ProbeInv, ProbePhases
<1>3. probe[r] \in Busy /\ sent[r] = 0 /\ to \in ProbePhases
  BY <1>1 DEF Busy, ProbeInv, Counted, ProbePhases
<1> QED
  BY <1>1, <1>2, <1>3, QuietKeeps DEF Busy

LEMMA DiesKeeps ==
  ASSUME ProbeInv, NEW r \in Probers, Capability!Dies(r)
  PROVE  ProbeInv'
<1>1. /\ probe[r] \in Busy /\ Capability!Goto(r, "dead")
      /\ UNCHANGED <<found, stored, resets, sent, heard, era>>
  BY DEF Capability!Dies, Capability!Live, Capability!Over, Busy, ProbeInv, ProbeTypes, ProbePhases
<1>2. Alters(r, "dead", sent[r]) /\ era'[r] = era[r]
  BY <1>1, GotoAlters DEF ProbeInv, ProbePhases
<1> QED
  BY <1>1, <1>2, QuietKeeps DEF Busy, ProbePhases

LEMMA NothingToAskKeeps ==
  ASSUME ProbeInv, NEW r \in Probers, Capability!NothingToAsk(r)
  PROVE  ProbeInv'
<1>1. PICK e \in {"denied", "unusable"} :
        /\ probe[r] = "token" /\ Capability!Goto(r, "store")
        /\ found' = Capability!FailureStatus(e)
        /\ UNCHANGED <<stored, resets, sent, heard, era>>
  BY DEF Capability!NothingToAsk, Capability!Conclude
<1>2. Alters(r, "store", sent[r]) /\ era'[r] = era[r]
  BY <1>1, GotoAlters DEF ProbeInv, ProbePhases
<1>3. found' \in Verdicts /\ found' # Capability!Pass
  BY <1>1, VerdictKinds DEF Capability!Ends
<1>4. probe[r] \in Busy /\ stored' = Recorded(Capability!Reserved, r)
  BY <1>1 DEF Busy, ProbeInv, Holder
<1> QED
  BY <1>1, <1>2, <1>3, <1>4, QuietKeeps DEF Busy, ProbePhases

LEMMA StoreVerdictKeeps ==
  ASSUME ProbeInv, NEW r \in Probers, Capability!StoreVerdict(r)
  PROVE  ProbeInv'
<1>1. PICK to \in {"done", "error"} :
        /\ probe[r] = "store" /\ Capability!Goto(r, to)
        /\ stored' = Recorded(found, r) \/ (to = "error" /\ UNCHANGED stored)
        /\ UNCHANGED <<found, resets, sent, heard, era>>
  BY DEF Capability!StoreVerdict, Capability!Store, Recorded
<1>2. Alters(r, to, sent[r]) /\ era'[r] = era[r]
  BY <1>1, GotoAlters DEF ProbeInv, ProbePhases
<1>3. probe[r] \in Busy /\ to \notin Busy /\ to \in ProbePhases /\ to # "new"
  BY <1>1 DEF Busy, ProbePhases
<1> QED
  BY <1>1, <1>2, <1>3, QuietKeeps

\* A request of the busy run is the first or the second, and if it is answered
\* with a verdict, the verdict is about the answer
LEMMA RequestKeeps ==
  ASSUME ProbeInv, NEW r \in Probers, probe[r] \in {"token", "candles"},
         NEW to \in {"candles", "store"}, Alters(r, to, sent[r] + 1), era'[r] = era[r],
         to = "candles" => probe[r] = "token",
         to = "store" => found' \in Verdicts /\ (found' = Capability!Pass => Answered(r)'),
         UNCHANGED stored
  PROVE  ProbeInv'
<1>1. \A x \in Probers \ {r} : probe[x] \notin Busy
  BY DEF ProbeInv, OneBusy, Busy
<1>2. /\ era[r] = resets /\ stored = Recorded(Capability!Reserved, r)
      /\ \A x \in Probers : x # r /\ sent[x] > 0 => era[x] # resets
      /\ sent[r] = (IF probe[r] = "token" THEN 0 ELSE 1)
  BY DEF ProbeInv, Holder, Busy, Counted
<1>3. ProbeTypes' /\ OneBusy' /\ Counted' /\ OncePerEra'
  BY <1>1, <1>2 DEF ProbeInv, ProbeTypes, OneBusy, Counted, OncePerEra, Alters, Busy
<1>4. Capability!Stands
  BY <1>2, VerdictKinds DEF Capability!Stands, Capability!Missing, Capability!Foreign, Recorded, Verdicts
<1>5. Backed' /\ Holder'
  BY <1>1, <1>2, <1>4 DEF ProbeInv, Backed, Holder, Alters, Busy, Capability!Stands
<1>6. Truthful'
  BY <1>1, <1>2, VerdictKinds DEF Truthful, Alters, Recorded, Busy
<1> QED
  BY <1>3, <1>5, <1>6 DEF ProbeInv

LEMMA Sends ==
  ASSUME ProbeInv, NEW r \in Probers, NEW to \in {"candles", "store"}, Capability!Goto(r, to),
         Capability!Send(r), UNCHANGED <<resets, era>>
  PROVE  Alters(r, to, sent[r] + 1) /\ era'[r] = era[r]
<1>1. sent' # sent
  BY DEF Capability!Send, ProbeInv, ProbeTypes
<1> QED
  BY <1>1, GotoAlters DEF ProbeInv, ProbePhases

LEMMA RequestTokenKeeps ==
  ASSUME ProbeInv, NEW r \in Probers, Capability!RequestToken(r)
  PROVE  ProbeInv'
<1>1. PICK to \in {"candles", "store"} :
        /\ probe[r] = "token" /\ Capability!Send(r) /\ Capability!Goto(r, to)
        /\ to = "store" => \E e \in Capability!Ends \ {"ok"} : found' = Capability!FailureStatus(e)
        /\ UNCHANGED <<stored, resets, heard, era>>
  BY DEF Capability!RequestToken, Capability!Conclude
<1>2. to = "store" => found' \in Verdicts /\ found' # Capability!Pass
  BY <1>1, VerdictKinds
<1> QED
  BY <1>1, <1>2, Sends, RequestKeeps

LEMMA RequestCandlesKeeps ==
  ASSUME ProbeInv, NEW r \in Probers, Capability!RequestCandles(r)
  PROVE  ProbeInv'
<1>1. PICK a \in Capability!Answers :
        /\ probe[r] = "candles" /\ Capability!Send(r) /\ Capability!Goto(r, "store")
        /\ found' = Capability!Verdict(a) /\ heard' = [by |-> r, answer |-> a]
        /\ UNCHANGED <<stored, resets, era>>
  BY DEF Capability!RequestCandles, Capability!Conclude
<1>2. Alters(r, "store", sent[r] + 1) /\ era'[r] = era[r] /\ sent[r] = 1
  BY <1>1, Sends DEF ProbeInv, Counted
<1>3. sent'[r] = 2
  BY <1>2 DEF Alters
<1>4. found' \in Verdicts /\ (found' = Capability!Pass => Answered(r)')
  BY <1>1, <1>3, PassVerdict DEF Answered
<1> QED
  BY <1>1, <1>2, <1>4, RequestKeeps

LEMMA ArchiveRecordKeeps ==
  ASSUME ProbeInv, Capability!ArchiveRecord
  PROVE  ProbeInv'
<1>1. /\ \A r \in Probers : probe[r] \notin Busy
      /\ stored' = Capability!Missing /\ resets' = resets + 1
      /\ UNCHANGED <<probe, found, sent, heard, era>>
  BY DEF Capability!ArchiveRecord, Capability!Live, Capability!Over, Busy
<1>2. stored'.status # Capability!Pass
  BY <1>1 DEF Capability!Missing, Capability!Pass
<1>3. ProbeTypes' /\ OneBusy' /\ Counted' /\ Backed' /\ OncePerEra'
  BY <1>1 DEF ProbeInv, ProbeTypes, OneBusy, Counted, Backed, OncePerEra
<1>4. Holder' /\ Truthful'
  BY <1>1, <1>2 DEF Holder, Truthful, Busy
<1> QED
  BY <1>3, <1>4 DEF ProbeInv

LEMMA ProbeInvariance == Capability!Spec => []ProbeInv
<1>1. Capability!Init => ProbeInv
  <2> SUFFICES ASSUME Capability!Init PROVE ProbeInv
    OBVIOUS
  <2>1. /\ ProbeTypes /\ resets = 0 /\ stored.status # Capability!Pass
        /\ \A r \in Probers : probe[r] = "new" /\ sent[r] = 0 /\ era[r] = 0
    BY DEF Capability!Init, ProbeTypes, ProbePhases, Capability!Missing, Capability!Foreign, Capability!Pass
  <2> QED
    BY <2>1 DEF ProbeInv, OneBusy, Counted, Backed, Holder, OncePerEra, Truthful, Busy
<1>2. ProbeInv /\ [Capability!Next]_Capability!capabilityVars => ProbeInv'
  <2>1. ASSUME ProbeInv, Capability!Next PROVE ProbeInv'
    BY <2>1, LookUpKeeps, ReserveKeeps, NothingToAskKeeps, RequestTokenKeeps, RequestCandlesKeeps,
       StoreVerdictKeeps, DiesKeeps, ArchiveRecordKeeps DEF Capability!Next
  <2>2. ASSUME ProbeInv, UNCHANGED Capability!capabilityVars PROVE ProbeInv'
    BY <2>2
       DEF Capability!capabilityVars, ProbeInv, ProbeTypes, OneBusy, Counted, Backed, Holder,
           OncePerEra, Truthful, Answered, Capability!Stands
  <2> QED
    BY <2>1, <2>2
<1> QED
  BY <1>1, <1>2, PTL DEF Capability!Spec

\* What Drive says of a collection or a probe is what its run was told, and the
\* record of a probe is of the only run that asked while it stood, for any
\* number of runs, hosts, dates and archived records.
THEOREM RecordsAreObserved == ArtifactsSpec => []RecordsWereObserved
<1>1. ProbeInv => Capability!PassWasAnswered /\ Capability!ProbedOnce
  <2>1. ProbeInv => Capability!PassWasAnswered
    BY DEF ProbeInv, Truthful, Answered, Capability!PassWasAnswered
  <2>2. ProbeInv => Capability!ProbedOnce
    BY DEF ProbeInv, OncePerEra, Counted, Capability!ProbedOnce
  <2> QED
    BY <2>1, <2>2
<1> QED
  BY <1>1, ProbeInvariance, EvidenceIsObserved, Parts, PTL DEF RecordsWereObserved
=============================================================================
