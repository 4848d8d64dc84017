--------------------------- MODULE MCDriveArtifacts ---------------------------
(***************************************************************************)
(* An instance of how artifacts reach Drive: DriveUpload, with three       *)
(* uploads of one file name, two of them of the same bytes, and a read;    *)
(* and OfficialShadow, which takes from it only what an upload can come    *)
(* to, with two one-shot runs and a scheduled run that may overlap either  *)
(* of them; and TossCapability, with three daily runs and one record that  *)
(* is archived.  p1 and q share a host, p2 has its own.  A behaviour       *)
(* explores one of the three.                                              *)
(***************************************************************************)
EXTENDS OfficialShadow

CONSTANTS
  UploadCalls, ReadCalls, Payload, RetryAttempts,   \* DriveUpload
  Probers, MaxResets,                               \* TossCapability
  p1, p2, q, u1, u2, u3, q1, old, new

MCUploads   == {u1, u2, u3}
MCReads     == {q1}
MCProcesses == {p1, p2, q}
MCGroupOf   == [p \in MCProcesses |-> IF p = q THEN "daily" ELSE "oneShot"]
MCHostOf    == [p \in MCProcesses |-> IF p = p2 THEN "hostB" ELSE "hostA"]
MCPayload   == [u \in MCUploads |-> IF u = u3 THEN new ELSE old]

VARIABLES
  part, files, at, tries, target, request, value, before,
  probe, found, stored, resets, sent, heard, era

ofDrive == <<files, at, tries, target, request, value, before>>
ofCapability == <<probe, found, stored, resets, sent, heard, era>>

Drive == INSTANCE DriveUpload WITH
  Uploads <- UploadCalls, Reads <- ReadCalls, pc <- at, earlier <- before

Capability == INSTANCE TossCapability WITH at <- probe

ASSUME ArtifactsAssumption ==
  /\ Drive!RetryAssumption /\ Drive!ContentAssumption /\ Drive!CallAssumption
  /\ Capability!ResetAssumption

ArtifactsInit ==
  /\ part \in {"drive", "shadow", "capability"}
  /\ Drive!Init /\ Init /\ Capability!Init
  /\ part # "capability" => stored = Capability!Missing

ArtifactsNext ==
  \/ part = "drive" /\ Drive!Next /\ UNCHANGED <<part, vars, ofCapability>>
  \/ part = "shadow" /\ Next /\ UNCHANGED <<part, ofDrive, ofCapability>>
  \/ part = "capability" /\ Capability!Next /\ UNCHANGED <<part, vars, ofDrive>>

artifactsVars == <<part, vars, ofDrive, ofCapability>>

ArtifactsSpec == ArtifactsInit /\ [][ArtifactsNext]_artifactsVars

-----------------------------------------------------------------------------
(* The properties of DriveUpload, stated and explained there.              *)

\* Two files of one name only after uploads that overlapped.
DuplicatesNeedOverlap == Drive!DuplicatesNeedOverlap
\* An upload that returned has stored its bytes.
SuccessIsStored == Drive!SuccessIsStored
\* A read that finds no file is not a failed look-up.
AbsentMeansAbsent == Drive!AbsentMeansAbsent

(* A property of the two producers, whose parts are explained there.       *)

\* What Drive says of a collection or a probe is what its run was told, and the
\* record of a probe is of the only run that asked while it stood.
RecordsWereObserved ==
  EvidenceWasCollected /\ Capability!PassWasAnswered /\ Capability!ProbedOnce
=============================================================================
