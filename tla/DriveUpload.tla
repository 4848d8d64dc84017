---------------------------- MODULE DriveUpload -----------------------------
(***************************************************************************)
(* How harvester.py keeps JSON files in Google Drive: upload_json (look    *)
(* up, write once, reconcile an unanswered write) and the readers          *)
(* find_file_id and download_json, for one file name in one folder.        *)
(*                                                                         *)
(* Drive is external: a folder may hold several files of one name, a       *)
(* listing shows them all, a write takes effect as a whole, and a write    *)
(* whose answer is lost may take effect before the caller gives up, after  *)
(* it, or never.  Nothing in the repository deletes a file.  Callers are   *)
(* separate processes (the daily workflow, the one-shot workflows and the  *)
(* Mac collector are in different concurrency groups), or one process      *)
(* that goes on after a failure.                                           *)
(***************************************************************************)
EXTENDS Integers, Sequences, FiniteSets

CONSTANTS
  Uploads,       \* calls of upload_json
  Reads,         \* calls of find_file_id followed by download_json
  Payload,       \* what each upload call writes
  RetryAttempts  \* DRIVE_RETRY_ATTEMPTS

\* Assumed of the constants; asserted in MCDriveArtifacts
RetryAssumption == RetryAttempts \in Nat \ {0}

Calls    == Uploads \cup Reads
Contents == {Payload[u] : u \in Uploads}
NoFile   == 0
Nothing  == "none"

\* Assumed of the constants
ContentAssumption == Nothing \notin Contents
CallAssumption    == Uploads \cap Reads = {}

VARIABLES
  files,     \* the files of that name: their contents and creators, by identity
  pc,        \* per call: where it stands
  tries,     \* per call: attempts of its current read request
  target,    \* per call: file_id as it found it
  request,   \* per upload: its write request, as Drive sees it
  value,     \* per read: the payload it returned
  earlier    \* history: <<c, d>> where c was over, and its write settled, before d began

vars == <<files, pc, tries, target, request, value, earlier>>

Phases == {"new", "lookup", "write", "sent", "verify", "compare",   \* upload_json
           "find", "download",                                      \* the readers
           "ok", "failed"}

TypeOK ==
  /\ files \in Seq([content : Contents, by : Uploads])
  /\ pc \in [Calls -> Phases]
  /\ tries \in [Calls -> 0..RetryAttempts - 1]
  /\ target \in [Calls -> NoFile..Len(files)]
  /\ request \in [Uploads -> {"none", "sent", "stored", "refused"}]
  /\ value \in [Reads -> Contents \cup {Nothing}]
  /\ earlier \subseteq Calls \X Calls

Init ==
  /\ files = <<>>
  /\ pc = [c \in Calls |-> "new"]
  /\ tries = [c \in Calls |-> 0]
  /\ target = [c \in Calls |-> NoFile]
  /\ request = [u \in Uploads |-> "none"]
  /\ value = [r \in Reads |-> Nothing]
  /\ earlier = {}

Over(c)    == pc[c] \in {"ok", "failed"}
Settled(c) == Over(c) /\ (c \in Uploads => request[c] # "sent")

Goto(c, to) ==
  /\ pc' = [pc EXCEPT ![c] = to]
  /\ tries' = [tries EXCEPT ![c] = 0]

Begin(c) ==
  /\ pc[c] = "new"
  /\ Goto(c, IF c \in Uploads THEN "lookup" ELSE "find")
  /\ earlier' = earlier \cup {<<d, c>> : d \in {e \in Calls : Settled(e)}}
  /\ UNCHANGED <<files, target, request, value>>

\* A transient failure of a read request, with attempts left: reconnect, back
\* off, ask again
Retry(c) ==
  /\ pc[c] \in {"lookup", "find", "download"}
  /\ tries[c] < RetryAttempts - 1
  /\ tries' = [tries EXCEPT ![c] = @ + 1]
  /\ UNCHANGED <<files, pc, target, request, value, earlier>>

\* Mutant: a failed look-up counts as an absent file
GiveUpLookup(c) ==
  /\ pc[c] \in {"lookup", "find", "download"}
  /\ Goto(c, IF pc[c] = "lookup" THEN "write" ELSE IF pc[c] = "find" THEN "ok" ELSE "failed")
  /\ UNCHANGED <<files, target, request, value, earlier>>

\* The last attempt failed, the failure is not transient, or reconnecting failed
GiveUp(c) ==
  /\ pc[c] \in {"lookup", "find", "download"}
  /\ Goto(c, "failed")
  /\ UNCHANGED <<files, target, request, value, earlier>>

-----------------------------------------------------------------------------
(* upload_json                                                             *)

\* _find_unique_upload_file: none, or the only one
Unique == Len(files) <= 1

Lookup(u) ==
  /\ pc[u] = "lookup"
  /\ Unique
  /\ target' = [target EXCEPT ![u] = Len(files)]
  /\ Goto(u, "write")
  /\ UNCHANGED <<files, request, value, earlier>>

\* upload_identity_not_unique_or_complete is not transient
LookupAmbiguous(u) ==
  /\ pc[u] = "lookup"
  /\ ~Unique
  /\ Goto(u, "failed")
  /\ UNCHANGED <<files, target, request, value, earlier>>

\* The write leaves, an update of the file found or a create
Send(u) ==
  /\ pc[u] = "write"
  /\ request' = [request EXCEPT ![u] = "sent"]
  /\ Goto(u, "sent")
  /\ UNCHANGED <<files, target, value, earlier>>

\* Drive carries the write out, whether or not the caller still waits
Commit(u) ==
  /\ request[u] = "sent"
  /\ request' = [request EXCEPT ![u] = "stored"]
  /\ files' = IF target[u] = NoFile
                THEN Append(files, [content |-> Payload[u], by |-> u])
                ELSE [files EXCEPT ![target[u]].content = Payload[u]]
  /\ UNCHANGED <<pc, tries, target, value, earlier>>

\* Drive refuses it, or it never arrives
Drop(u) ==
  /\ request[u] = "sent"
  /\ request' = [request EXCEPT ![u] = "refused"]
  /\ UNCHANGED <<files, pc, tries, target, value, earlier>>

Acknowledged(u) ==
  /\ pc[u] = "sent"
  /\ request[u] = "stored"
  /\ Goto(u, "ok")
  /\ UNCHANGED <<files, target, request, value, earlier>>

\* An answer that is neither success nor transient: verification=NOT_ATTEMPTED
Rejected(u) ==
  /\ pc[u] = "sent"
  /\ request[u] = "refused"
  /\ Goto(u, "failed")
  /\ UNCHANGED <<files, target, request, value, earlier>>

\* Mutant: an unanswered write is sent again
ReplayWrite(u) ==
  /\ pc[u] = "sent"
  /\ Goto(u, IF request[u] = "refused" THEN "verify" ELSE "write")
  /\ UNCHANGED <<files, target, request, value, earlier>>

\* A transient status, a timeout or a broken connection: the outcome is unknown
Unanswered(u) ==
  /\ pc[u] = "sent"
  /\ Goto(u, "verify")
  /\ UNCHANGED <<files, target, request, value, earlier>>

\* The name is still held by exactly one file, and by the one that was updated
SameIdentity(u) == Len(files) = 1 /\ target[u] \in {NoFile, 1}

\* _verify_drive_upload: list again, once
VerifyIdentity(u) ==
  /\ pc[u] = "verify"
  /\ Goto(u, IF SameIdentity(u) THEN "compare" ELSE "failed")
  /\ UNCHANGED <<files, target, request, value, earlier>>

\* Mutant: a file that exists is taken for the one that was sent
AnyContent(u) == TRUE

\* EXACT_CONTENT_VERIFIED
ExactContent(u) == files[1].content = Payload[u]

VerifyContent(u) ==
  /\ pc[u] = "compare"
  /\ Goto(u, IF ExactContent(u) THEN "ok" ELSE "failed")
  /\ UNCHANGED <<files, target, request, value, earlier>>

\* READ_FAILED, a serialisation error, or the end of the process
Break(u) ==
  /\ pc[u] \in {"lookup", "write", "sent", "verify", "compare"}
  /\ Goto(u, "failed")
  /\ UNCHANGED <<files, target, request, value, earlier>>

-----------------------------------------------------------------------------
(* find_file_id, which takes the first row of any number, and download_json. *)

Find(r) ==
  /\ pc[r] = "find"
  /\ IF files = <<>>
       THEN /\ Goto(r, "ok")                       \* None
            /\ UNCHANGED <<target>>
       ELSE /\ \E i \in DOMAIN files : target' = [target EXCEPT ![r] = i]
            /\ Goto(r, "download")
  /\ UNCHANGED <<files, request, value, earlier>>

Download(r) ==
  /\ pc[r] = "download"
  /\ value' = [value EXCEPT ![r] = files[target[r]].content]
  /\ Goto(r, "ok")
  /\ UNCHANGED <<files, target, request, earlier>>

UploadStep(u) ==
  \/ Lookup(u)
  \/ LookupAmbiguous(u)
  \/ Send(u)
  \/ Acknowledged(u)
  \/ Rejected(u)
  \/ Unanswered(u)
  \/ VerifyIdentity(u)
  \/ VerifyContent(u)
  \/ Break(u)

ReadStep(r) == Find(r) \/ Download(r)

Step(c) ==
  \/ Retry(c)
  \/ GiveUp(c)
  \/ c \in Uploads /\ UploadStep(c)
  \/ c \in Reads /\ ReadStep(c)

Next ==
  \/ \E c \in Calls : Begin(c) \/ Step(c)
  \/ \E u \in Uploads : Commit(u) \/ Drop(u)

Spec == Init /\ [][Next]_vars

-----------------------------------------------------------------------------
(* Properties.                                                             *)

\* Lost answers, retries and crashes never make a second file of the name:
\* two files have two creators, and neither creator's call was settled before
\* the other's began.
DuplicatesNeedOverlap ==
  \A i, j \in DOMAIN files :
    i # j => /\ files[i].by # files[j].by
             /\ <<files[i].by, files[j].by>> \notin earlier
             /\ <<files[j].by, files[i].by>> \notin earlier

\* "ACKNOWLEDGED" and "EXACT_CONTENT_VERIFIED" are true: after a successful
\* upload that no other one overlapped, and with no later one, the folder holds
\* exactly one file of the name, with that content.
SuccessIsStored ==
  \A u \in Uploads :
    /\ pc[u] = "ok"
    /\ \A d \in Uploads \ {u} : pc[d] # "new" => <<d, u>> \in earlier
    => Len(files) = 1 /\ files[1].content = Payload[u]

\* A failed look-up is never reported as an absent file: a read that answers
\* None began before any successful upload had ended.
AbsentMeansAbsent ==
  \A r \in Reads, u \in Uploads :
    pc[r] = "ok" /\ value[r] = Nothing /\ pc[u] = "ok" => <<u, r>> \notin earlier
=============================================================================
