---------------------------- MODULE Upload_proofs ---------------------------
(***************************************************************************)
(* Proofs about what leaves the device beside the answers: the files       *)
(* (BinaryUpload) and the session's variables (VariableSync), for any      *)
(* files, variables, versions and losses.                                  *)
(***************************************************************************)
EXTENDS BinaryUpload, VariableSync, FiniteSetTheorems, TLAPS

(* The part of the types the proof needs.                                   *)
FileTypes ==
    /\ blob \in [File -> {"none", "pinned", "gone"}]
    /\ chosen \subseteq File /\ toUpload \subseteq File
    /\ answer \in Answers /\ sending \in Answers /\ heldAnswer \in Answers
    /\ adrift \subseteq Answers
    /\ upload \in {"sent", "patch", "delete"} => uploading \in File

(* A blob is dropped only once the server has its bytes, which the address  *)
(* in its row, or the drain's own upload, vouches for.                      *)
InPlace(f) == blob[f] = "pinned" \/ f \in media
HeldInv ==
    /\ \A a \in {answer, sending, heldAnswer} \cup adrift : \A f \in a.files : InPlace(f)
    /\ blobUrl \subseteq media
    /\ upload \in {"patch", "delete"} => uploading \in media
    /\ \A f \in chosen : blob[f] = "pinned"

(* What the form holds was never sent: no copy of it can lose its bytes     *)
(* when the participant removes a file.                                     *)
FormInv ==
    /\ upload = "delete" => answer # NoAnswer \/ fileSession # "open"
    /\ chosen # {} => answer = NoAnswer /\ fileSession = "open"
    /\ answer = NoAnswer /\ fileSession = "open" =>
            sending = NoAnswer /\ heldAnswer = NoAnswer /\ adrift = {}
    /\ fileSession \in {"open", "completed", "purged"}
    /\ finished = TRUE => fileSession # "open"
    /\ upload = "purge" => finished

BytesInv == FileTypes /\ HeldInv /\ FormInv

LEMMA AnswerShape ==
    /\ Answers = [files : SUBSET File, patched : SUBSET File]
    /\ NoAnswer \in Answers /\ NoAnswer.files = {}
  <1>1. ASSUME NEW a \in [files : SUBSET File, patched : SUBSET File] PROVE a \in Answers
    <2>1. a = [files |-> a.files, patched |-> a.patched]
      OBVIOUS
    <2>2. a.files \in SUBSET File /\ a.patched \in SUBSET File
      OBVIOUS
    <2>3. \E x \in SUBSET File, y \in SUBSET File : a = [files |-> x, patched |-> y]
      BY <2>1, <2>2
    <2>4. QED
      BY <2>3 DEF Answers
  <1>2. Answers \subseteq [files : SUBSET File, patched : SUBSET File]
    BY DEF Answers
  <1>3. NoAnswer \in [files : SUBSET File, patched : SUBSET File] /\ NoAnswer.files = {}
    BY DEF NoAnswer
  <1>4. QED
    BY <1>1, <1>2, <1>3

LEMMA InitBytes == BinaryInit => BytesInv
  BY AnswerShape
     DEF BinaryInit, BytesInv, FileTypes, HeldInv, FormInv, InPlace, NoFile

(* The participant handles files nothing refers to yet.                     *)
LEMMA FormKeeps ==
    ASSUME BytesInv, NEW f \in File, CaptureFile(f) \/ RemoveFile(f) \/ CommitFiles
    PROVE  BytesInv'
  <1>1. CASE CaptureFile(f)
    <2>1. FileTypes'
      BY <1>1, AnswerShape
         DEF BytesInv, FileTypes, CaptureFile, serverVars, uploadVars
    <2>2. HeldInv'
      BY <1>1, AnswerShape
         DEF BytesInv, FileTypes, HeldInv, FormInv, InPlace, Pinned,
             CaptureFile, serverVars, uploadVars
    <2>3. FormInv'
      BY <1>1, AnswerShape
         DEF BytesInv, FileTypes, FormInv, CaptureFile, serverVars, uploadVars
    <2>4. QED
      BY <2>1, <2>2, <2>3 DEF BytesInv
  <1>2. CASE RemoveFile(f)
    <2>1. FileTypes'
      BY <1>2, AnswerShape DEF BytesInv, FileTypes, RemoveFile, serverVars, uploadVars
    <2>2. HeldInv'
      BY <1>2, AnswerShape
         DEF BytesInv, FileTypes, HeldInv, FormInv, InPlace, Pinned,
             RemoveFile, serverVars, uploadVars
    <2>3. FormInv'
      BY <1>2, AnswerShape
         DEF BytesInv, FileTypes, FormInv, RemoveFile, serverVars, uploadVars
    <2>4. QED
      BY <2>1, <2>2, <2>3 DEF BytesInv
  <1>3. CASE CommitFiles
    <2>1. FileTypes'
      BY <1>3, AnswerShape
         DEF BytesInv, FileTypes, CommitFiles, blobVars, serverVars, uploadVars
    <2>2. HeldInv'
      BY <1>3, AnswerShape
         DEF BytesInv, FileTypes, HeldInv, FormInv, InPlace, Pinned,
             CommitFiles, blobVars, serverVars, uploadVars
    <2>3. FormInv'
      BY <1>3, AnswerShape
         DEF BytesInv, FileTypes, FormInv, CommitFiles, blobVars, serverVars, uploadVars
    <2>4. QED
      BY <2>1, <2>2, <2>3 DEF BytesInv
  <1>4. QED
    BY <1>1, <1>2, <1>3

(* The drain patches the answer and drops a blob the server has.            *)
LEMMA BlobKeeps ==
    ASSUME BytesInv, PatchAnswer \/ DeleteBlob
    PROVE  BytesInv'
  <1>1. CASE PatchAnswer
    <2>1. FileTypes'
      BY <1>1, AnswerShape DEF BytesInv, FileTypes, PatchAnswer, blobVars, serverVars
    <2>2. HeldInv'
      BY <1>1, AnswerShape
         DEF BytesInv, FileTypes, HeldInv, FormInv, InPlace, Pinned,
             PatchAnswer, blobVars, serverVars
    <2>3. FormInv'
      BY <1>1, AnswerShape
         DEF BytesInv, FileTypes, FormInv, PatchAnswer, blobVars, serverVars
    <2>4. QED
      BY <2>1, <2>2, <2>3 DEF BytesInv
  <1>2. CASE DeleteBlob
    <2>1. FileTypes'
      BY <1>2, AnswerShape DEF BytesInv, FileTypes, DeleteBlob, formVars, serverVars
    <2>2. HeldInv'
      BY <1>2, AnswerShape
         DEF BytesInv, FileTypes, HeldInv, FormInv, InPlace, Pinned,
             DeleteBlob, formVars, serverVars
    <2>3. FormInv'
      BY <1>2, AnswerShape
         DEF BytesInv, FileTypes, FormInv, DeleteBlob, formVars, serverVars
    <2>4. QED
      BY <2>1, <2>2, <2>3 DEF BytesInv
  <1>3. QED
    BY <1>1, <1>2

(* Copies of the answer travel, late ones too, or go with the session.      *)
LEMMA AnswerKeeps ==
    ASSUME BytesInv, \/ SendAnswer \/ ServerStores \/ LateAnswer \/ PurgeSynced
                     \/ AnswerRequestFails \/ LosePage
    PROVE  BytesInv'
  <1>1. CASE SendAnswer
    <2>1. FileTypes'
      BY <1>1, AnswerShape
         DEF BytesInv, FileTypes, SendAnswer, blobVars, formVars, serverVars
    <2>2. HeldInv'
      BY <1>1, AnswerShape
         DEF BytesInv, FileTypes, HeldInv, FormInv, InPlace, Pinned,
             SendAnswer, blobVars, formVars, serverVars
    <2>3. FormInv'
      BY <1>1, AnswerShape
         DEF BytesInv, FileTypes, FormInv, SendAnswer, blobVars, formVars, serverVars
    <2>4. QED
      BY <2>1, <2>2, <2>3 DEF BytesInv
  <1>2. CASE ServerStores
    <2>1. FileTypes'
      BY <1>2, AnswerShape
         DEF BytesInv, FileTypes, ServerStores, blobVars, formVars, uploadVars, Received
    <2>2. HeldInv'
      BY <1>2, AnswerShape
         DEF BytesInv, FileTypes, HeldInv, FormInv, InPlace, Pinned,
             ServerStores, blobVars, formVars, uploadVars, Received
    <2>3. FormInv'
      BY <1>2, AnswerShape
         DEF BytesInv, FileTypes, FormInv, ServerStores, blobVars, formVars, uploadVars, Received
    <2>4. QED
      BY <2>1, <2>2, <2>3 DEF BytesInv
  <1>3. CASE LateAnswer
    <2>1. FileTypes'
      BY <1>3, AnswerShape
         DEF BytesInv, FileTypes, LateAnswer, blobVars, formVars, uploadVars, Received
    <2>2. HeldInv'
      BY <1>3, AnswerShape
         DEF BytesInv, FileTypes, HeldInv, FormInv, InPlace, Pinned,
             LateAnswer, blobVars, formVars, uploadVars, Received
    <2>3. FormInv'
      BY <1>3, AnswerShape
         DEF BytesInv, FileTypes, FormInv, LateAnswer, blobVars, formVars, uploadVars, Received
    <2>4. QED
      BY <2>1, <2>2, <2>3 DEF BytesInv
  <1>4. CASE PurgeSynced
    <2>1. FileTypes'
      BY <1>4, AnswerShape DEF BytesInv, FileTypes, PurgeSynced, blobVars, serverVars, uploadVars
    <2>2. HeldInv'
      BY <1>4, AnswerShape
         DEF BytesInv, FileTypes, HeldInv, FormInv, InPlace, Pinned,
             PurgeSynced, blobVars, serverVars, uploadVars
    <2>3. FormInv'
      BY <1>4, AnswerShape
         DEF BytesInv, FileTypes, FormInv, PurgeSynced, blobVars, serverVars, uploadVars
    <2>4. QED
      BY <2>1, <2>2, <2>3 DEF BytesInv
  <1>5. CASE LosePage
    <2>1. FileTypes'
      BY <1>5, AnswerShape DEF BytesInv, FileTypes, LosePage, blobVars, serverVars
    <2>2. HeldInv'
      BY <1>5, AnswerShape
         DEF BytesInv, FileTypes, HeldInv, FormInv, InPlace, Pinned,
             LosePage, blobVars, serverVars
    <2>3. FormInv'
      BY <1>5, AnswerShape
         DEF BytesInv, FileTypes, FormInv, LosePage, blobVars, serverVars
    <2>4. QED
      BY <2>1, <2>2, <2>3 DEF BytesInv
  <1>6. CASE AnswerRequestFails
    <2>1. FileTypes'
      BY <1>6, AnswerShape DEF BytesInv, FileTypes, AnswerRequestFails, blobVars, formVars, serverVars
    <2>2. HeldInv'
      BY <1>6, AnswerShape
         DEF BytesInv, FileTypes, HeldInv, FormInv, InPlace, Pinned,
             AnswerRequestFails, blobVars, formVars, serverVars
    <2>3. FormInv'
      BY <1>6, AnswerShape
         DEF BytesInv, FileTypes, FormInv, AnswerRequestFails, blobVars, formVars, serverVars
    <2>4. QED
      BY <2>1, <2>2, <2>3 DEF BytesInv
  <1>7. QED
    BY <1>1, <1>2, <1>3, <1>4, <1>5, <1>6

(* The other steps touch no blob and no answer.                             *)
LEMMA DrainKeeps ==
    ASSUME BytesInv,
           \/ BeginUpload \/ StoreBytes \/ RememberUrl \/ CountPinned \/ UploadFails
           \/ UNCHANGED binaryVars \/ \E f \in File : NextBlob(f)
    PROVE  BytesInv'
  <1>1. UNCHANGED <<blob, chosen, answer, fileSession, sending, heldAnswer, adrift>>
    BY DEF BeginUpload, StoreBytes, RememberUrl, CountPinned, UploadFails, NextBlob, binaryVars,
           blobVars, formVars, serverVars, uploadVars
  <1>2. FileTypes'
    BY <1>1
       DEF BytesInv, FileTypes, BeginUpload, StoreBytes, RememberUrl, CountPinned, UploadFails,
           NextBlob, Pinned, binaryVars, uploadVars
  <1>3. HeldInv'
    BY <1>1
       DEF BytesInv, HeldInv, InPlace, BeginUpload, StoreBytes, RememberUrl, CountPinned,
           UploadFails, NextBlob, Pinned, binaryVars, blobVars, serverVars, uploadVars
  <1>4. FormInv'
    BY <1>1
       DEF BytesInv, FormInv, BeginUpload, StoreBytes, RememberUrl, CountPinned, UploadFails,
           NextBlob, binaryVars, uploadVars
  <1>5. QED
    BY <1>2, <1>3, <1>4 DEF BytesInv

(* Nor do the end of the run and the bookkeeping of a drain.                *)
LEMMA BookKeeps ==
    ASSUME BytesInv,
           \/ CompleteRun \/ RearmSession \/ MarkAnswerSynced \/ AckAnswer \/ MarkSession
           \/ RegisterFailure \/ CheckFullyDead \/ GiveUp
    PROVE  BytesInv'
  <1>1. /\ UNCHANGED <<blob, blobUrl, answer, media, heldAnswer, adrift, toUpload, uploading,
                      finished>>
        /\ chosen' \in {chosen, {}} /\ sending' \in {sending, NoAnswer}
        /\ upload' = upload \/ upload' \notin {"sent", "patch", "delete"}
        /\ upload' = "purge" => upload = "purge" \/ finished
        /\ \/ fileSession' = fileSession
           \/ fileSession = "open" /\ fileSession' = "completed" /\ chosen' = {}
    BY DEF CompleteRun, RearmSession, MarkAnswerSynced, AckAnswer, MarkSession, RegisterFailure,
           CheckFullyDead, GiveUp, blobVars, formVars, serverVars, uploadVars
  <1>2. FileTypes'
    BY <1>1, AnswerShape DEF BytesInv, FileTypes
  <1>3. HeldInv'
    BY <1>1, AnswerShape DEF BytesInv, HeldInv, InPlace
  <1>4. FormInv'
    BY <1>1 DEF BytesInv, FormInv
  <1>5. QED
    BY <1>2, <1>3, <1>4 DEF BytesInv

LEMMA StepBytes == BytesInv /\ [BinaryNext]_binaryVars => BytesInv'
  <1> SUFFICES ASSUME BytesInv, [BinaryNext]_binaryVars PROVE BytesInv'
    OBVIOUS
  <1>1. ASSUME NEW f \in File, CaptureFile(f) \/ RemoveFile(f) PROVE BytesInv'
    BY <1>1, FormKeeps
  <1>2. CASE CommitFiles
    <2>1. \E f : f \in File
      BY <1>2 DEF CommitFiles, BytesInv, FileTypes
    <2>2. QED
      BY <2>1, <1>2, FormKeeps
  <1>3. CASE \/ DrainFiles \/ CompleteRun \/ RearmSession \/ UploadFails \/ AnswerRequestFails
             \/ LosePage \/ LateAnswer \/ UNCHANGED binaryVars
    BY <1>3, BlobKeeps, AnswerKeeps, DrainKeeps, BookKeeps DEF DrainFiles
  <1>4. QED
    BY <1>1, <1>2, <1>3 DEF BinaryNext

(* The bytes of every file an answer refers to are on the device or on the  *)
(* server, wherever a drain stops (uploadSessionBinaries).                  *)
THEOREM BytesAreInPlace == BinarySpec => []BytesAreHeld
  <1>1. BinaryInit => BytesInv
    BY InitBytes
  <1>2. BytesInv /\ [BinaryNext]_binaryVars => BytesInv'
    BY StepBytes
  <1>3. BytesInv => BytesAreHeld
    BY AnswerShape
       DEF BytesInv, FileTypes, HeldInv, InPlace, BytesAreHeld, Pinned, Answers
  <1>4. QED
    BY <1>1, <1>2, <1>3, PTL DEF BinarySpec

(* Every copy of the answer is a version of the one answer, which only ever *)
(* gains addresses, of bytes the server holds; a file without one is pinned.*)
VersionInv ==
    /\ answer.patched \subseteq answer.files \cap media
    /\ \A a \in {sending, heldAnswer} \cup adrift :
            a # NoAnswer /\ answer # NoAnswer =>
                a.files = answer.files /\ a.patched \subseteq answer.patched
    /\ \A f \in answer.files \ answer.patched : blob[f] = "pinned"
    /\ upload = "delete" => uploading \in answer.patched

(* A drain that read a completed session and counted no pinned blob has a   *)
(* whole answer before it, and ends with that answer synced or dead; and of *)
(* a whole answer that is synced the server has this very version.          *)
CompletedInv ==
    /\ upload \in {"await", "mark"} /\ sending # NoAnswer => sending = answer
    /\ finished /\ upload \in {"await", "mark"} /\ answer # NoAnswer =>
            answerSynced \/ sending = answer \/ AnswerDead
    /\ finished /\ upload \in {"ack", "flag", "purge"} /\ answer # NoAnswer =>
            answerSynced \/ AnswerDead
    /\ finished /\ ~stillPinned /\ upload \in {"read", "await", "mark", "ack", "flag", "purge"} =>
            ~IsPending(answer)
    /\ ~IsPending(answer) /\ answer # NoAnswer
            /\ (answerSynced \/ (upload = "mark" /\ sending # NoAnswer)) => heldAnswer = answer
    /\ upload = "purge" => finished /\ ~stillPinned

PurgeInv == BinaryTypeOK /\ BytesInv /\ VersionInv /\ CompletedInv

(* A pair of sets is an answer.                                             *)
LEMMA PatchedAnswer ==
    ASSUME NEW a \in Answers, NEW f \in File
    PROVE  /\ [a EXCEPT !.patched = @ \cup {f}] \in Answers
           /\ [a EXCEPT !.patched = @ \cup {f}].files = a.files
           /\ [a EXCEPT !.patched = @ \cup {f}].patched = a.patched \cup {f}
  BY AnswerShape

LEMMA TypesKeep ==
    ASSUME BinaryTypeOK, BytesInv, [BinaryNext]_binaryVars
    PROVE  BinaryTypeOK'
  <1>1. ASSUME NEW f \in File, CaptureFile(f) \/ RemoveFile(f) PROVE BinaryTypeOK'
    BY <1>1
       DEF BinaryTypeOK, CaptureFile, RemoveFile, shipVars, markVars, serverVars, uploadVars
  <1>2. CASE CommitFiles
    BY <1>2, AnswerShape
       DEF BinaryTypeOK, CommitFiles, blobVars, shipVars, markVars, serverVars, uploadVars
  <1>3. CASE BeginUpload \/ CompleteRun \/ CountPinned
    BY <1>3
       DEF BinaryTypeOK, BeginUpload, CompleteRun, CountPinned, Pinned, blobVars, formVars,
           shipVars, markVars, serverVars, uploadVars
  <1>4. ASSUME NEW f \in File, NextBlob(f) PROVE BinaryTypeOK'
    BY <1>4 DEF BinaryTypeOK, NextBlob, blobVars, formVars, shipVars, markVars, serverVars
  <1>5. CASE StoreBytes \/ RememberUrl
    BY <1>5
       DEF BinaryTypeOK, BytesInv, FileTypes, StoreBytes, RememberUrl, Pinned, blobVars,
           formVars, shipVars, markVars, serverVars, uploadVars
  <1>6. CASE PatchAnswer
    <2>1. answer' \in Answers
      BY <1>6, PatchedAnswer DEF BinaryTypeOK, BytesInv, FileTypes, PatchAnswer
    <2>2. QED
      BY <1>6, <2>1 DEF BinaryTypeOK, PatchAnswer, blobVars, markVars, serverVars
  <1>7. CASE DeleteBlob
    BY <1>7
       DEF BinaryTypeOK, BytesInv, FileTypes, DeleteBlob, formVars, shipVars, markVars, serverVars
  <1>8. CASE SendAnswer \/ ServerStores \/ MarkAnswerSynced \/ LateAnswer
    <2>1. CASE SendAnswer \/ MarkAnswerSynced
      BY <2>1, AnswerShape
         DEF BinaryTypeOK, SendAnswer, MarkAnswerSynced, blobVars, formVars, shipVars, markVars,
             serverVars, uploadVars
    <2>2. CASE ServerStores \/ LateAnswer
      <3>1. heldAnswer' \in Answers /\ adrift' \subseteq Answers
        BY <2>2 DEF BinaryTypeOK, ServerStores, LateAnswer, Received
      <3>2. QED
        BY <2>2, <3>1
           DEF BinaryTypeOK, ServerStores, LateAnswer, blobVars, formVars, shipVars, markVars,
               uploadVars
    <2>3. QED
      BY <1>8, <2>1, <2>2
  <1>9. CASE AckAnswer \/ MarkSession \/ PurgeSynced \/ CheckFullyDead \/ GiveUp
    BY <1>9, AnswerShape
       DEF BinaryTypeOK, AckAnswer, MarkSession, PurgeSynced, CheckFullyDead, GiveUp, LeftBehind,
           blobVars, formVars, shipVars, markVars, serverVars, uploadVars
  <1>10. CASE UploadFails \/ AnswerRequestFails \/ LosePage
    <2>1. losses' \in 0 .. MaxLosses
      BY <1>10, BinaryAssumption DEF BinaryTypeOK, UploadFails, AnswerRequestFails, LosePage
    <2>2. QED
      BY <1>10, <2>1, AnswerShape
         DEF BinaryTypeOK, UploadFails, AnswerRequestFails, LosePage, LeftBehind, blobVars,
             formVars, shipVars, markVars, serverVars, uploadVars
  <1>11. CASE RegisterFailure
    <2>1. answerTries' \in 0 .. AnswerAttempts
      BY <1>11, BinaryAssumption
         DEF BinaryTypeOK, RegisterFailure, AnswerShippable, AnswerDead
    <2>2. QED
      BY <1>11, <2>1
         DEF BinaryTypeOK, RegisterFailure, blobVars, formVars, markVars, serverVars, uploadVars
  <1>12. CASE RearmSession
    <2>1. rearms' \in 0 .. MaxRearms
      BY <1>12, BinaryAssumption DEF BinaryTypeOK, RearmSession
    <2>2. QED
      BY <1>12, <2>1
         DEF BinaryTypeOK, RearmSession, blobVars, formVars, shipVars, serverVars, uploadVars
  <1>13. CASE UNCHANGED binaryVars
    BY <1>13
       DEF BinaryTypeOK, binaryVars, blobVars, formVars, shipVars, markVars, serverVars, uploadVars
  <1>14. QED
    BY <1>1, <1>2, <1>3, <1>4, <1>5, <1>6, <1>7, <1>8, <1>9, <1>10, <1>11, <1>12, <1>13
       DEF BinaryNext, DrainFiles

(* The participant: until the answer is committed no copy of it exists, and *)
(* after that no blob is captured or removed.                               *)
LEMMA FormVersions ==
    ASSUME PurgeInv, CommitFiles \/ CompleteRun \/ RearmSession
                     \/ \E f \in File : CaptureFile(f) \/ RemoveFile(f)
    PROVE  VersionInv' /\ CompletedInv'
  <1>1. ASSUME NEW f \in File, CaptureFile(f) \/ RemoveFile(f)
        PROVE  VersionInv' /\ CompletedInv'
    <2>1. /\ answer = NoAnswer /\ \A g \in File : g # f => blob'[g] = blob[g]
          /\ UNCHANGED <<answer, answerSynced, answerTries, media, heldAnswer, upload, uploading,
                         finished, stillPinned, sending, adrift>>
      BY <1>1
         DEF PurgeInv, BytesInv, FileTypes, FormInv, CaptureFile, RemoveFile, shipVars, serverVars,
             uploadVars
    <2>2. answer.files = {}
      BY <2>1, AnswerShape
    <2>3. VersionInv'
      BY <2>1, <2>2 DEF PurgeInv, VersionInv
    <2>4. CompletedInv'
      BY <2>1 DEF PurgeInv, CompletedInv, IsPending, AnswerDead
    <2>5. QED
      BY <2>3, <2>4
  <1>2. CASE CommitFiles
    <2>1. /\ answer = NoAnswer /\ fileSession = "open" /\ ~finished
          /\ sending = NoAnswer /\ heldAnswer = NoAnswer /\ adrift = {}
      BY <1>2 DEF CommitFiles, PurgeInv, BytesInv, FormInv, BinaryTypeOK
    <2>2. /\ answer'.files = chosen /\ answer'.patched = {} /\ chosen # {}
          /\ \A f \in chosen : blob[f] = "pinned"
      BY <1>2 DEF CommitFiles, PurgeInv, BytesInv, HeldInv
    <2>3. UNCHANGED <<blob, fileSession, answerSynced, media, heldAnswer, upload, uploading,
                      finished, stillPinned, sending, adrift>>
      BY <1>2 DEF CommitFiles, blobVars, shipVars, serverVars, uploadVars
    <2>4. upload \notin {"delete", "purge"}
      BY <2>1, AnswerShape DEF PurgeInv, VersionInv, CompletedInv, NoAnswer
    <2>5. VersionInv'
      BY <2>1, <2>2, <2>3, <2>4 DEF VersionInv
    <2>6. CompletedInv'
      BY <2>1, <2>2, <2>3, <2>4 DEF CompletedInv, IsPending
    <2>7. QED
      BY <2>5, <2>6
  <1>3. CASE CompleteRun \/ RearmSession
    BY <1>3
       DEF PurgeInv, VersionInv, CompletedInv, IsPending, AnswerDead, CompleteRun, RearmSession,
           blobVars, formVars, shipVars, serverVars, uploadVars
  <1>4. QED
    BY <1>1, <1>2, <1>3

(* The drain stores bytes; it touches no answer.                            *)
LEMMA UploadVersions ==
    ASSUME PurgeInv, \/ BeginUpload \/ StoreBytes \/ RememberUrl \/ UploadFails \/ CountPinned
                     \/ \E f \in File : NextBlob(f)
    PROVE  VersionInv' /\ CompletedInv'
  <1>1. /\ UNCHANGED <<blob, answer, answerSynced, heldAnswer, sending, adrift>>
        /\ media \subseteq media' /\ upload # "mark"
        /\ upload' \notin {"delete", "await", "mark", "ack", "flag", "purge"}
    BY DEF BeginUpload, StoreBytes, RememberUrl, UploadFails, CountPinned, NextBlob, blobVars,
           formVars, shipVars, serverVars, uploadVars
  <1>2. VersionInv'
    BY <1>1 DEF PurgeInv, VersionInv
  <1>3. upload' = "read" /\ ~stillPinned' => ~IsPending(answer)
    <2>1. ASSUME upload' = "read" PROVE stillPinned' = (Pinned # {})
      BY <2>1 DEF BeginUpload, StoreBytes, RememberUrl, UploadFails, CountPinned, NextBlob
    <2>2. answer \in Answers
      BY DEF PurgeInv, BinaryTypeOK
    <2>3. Pinned = {} => answer.files = answer.patched
      BY <2>2, AnswerShape DEF PurgeInv, VersionInv, Pinned
    <2>4. QED
      BY <2>1, <2>3 DEF IsPending
  <1>4. CompletedInv'
    BY <1>1, <1>3 DEF PurgeInv, CompletedInv, IsPending
  <1>5. QED
    BY <1>2, <1>4

(* The answer gains an address, and is unsynced for it.                     *)
LEMMA PatchVersions ==
    ASSUME PurgeInv, PatchAnswer \/ DeleteBlob
    PROVE  VersionInv' /\ CompletedInv'
  <1>1. CASE PatchAnswer /\ answer # NoAnswer /\ uploading \in answer.files
    <2>1. /\ answer' = [answer EXCEPT !.patched = @ \cup {uploading}]
          /\ answerSynced' = FALSE /\ upload' = "delete" /\ uploading' = uploading
          /\ UNCHANGED <<blob, fileSession, media, heldAnswer, sending, adrift>>
      BY <1>1 DEF PatchAnswer, blobVars, serverVars
    <2>2. /\ answer'.files = answer.files /\ answer'.patched = answer.patched \cup {uploading}
          /\ uploading \in media
      BY <1>1, <2>1, PatchedAnswer
         DEF PatchAnswer, PurgeInv, BinaryTypeOK, BytesInv, FileTypes, HeldInv
    <2>3. VersionInv'
      BY <1>1, <2>1, <2>2 DEF PurgeInv, VersionInv
    <2>4. answer' # NoAnswer
      BY <2>2 DEF NoAnswer
    <2>5. CompletedInv'
      BY <1>1, <2>1, <2>4 DEF PurgeInv, CompletedInv
    <2>6. QED
      BY <2>3, <2>5
  <1>2. CASE PatchAnswer /\ ~(answer # NoAnswer /\ uploading \in answer.files)
    BY <1>2
       DEF PatchAnswer, PurgeInv, VersionInv, CompletedInv, IsPending, AnswerDead, blobVars,
           serverVars
  <1>3. CASE DeleteBlob
    <2>1. /\ UNCHANGED <<answer, answerSynced, media, heldAnswer, sending, adrift>>
          /\ upload = "delete" /\ upload' = "next"
          /\ \A f \in File : f # uploading => blob'[f] = blob[f]
      BY <1>3 DEF DeleteBlob, formVars, shipVars, serverVars, PurgeInv, BinaryTypeOK
    <2>2. answer.files \subseteq File
      BY AnswerShape DEF PurgeInv, BinaryTypeOK
    <2>3. VersionInv'
      BY <2>1, <2>2 DEF PurgeInv, VersionInv
    <2>4. CompletedInv'
      BY <2>1 DEF PurgeInv, CompletedInv, IsPending
    <2>5. QED
      BY <2>3, <2>4
  <1>4. QED
    BY <1>1, <1>2, <1>3

(* The answer travels: a stored answer gives way only to a later version of *)
(* it, and once it is whole to none.                                        *)
LEMMA ShipVersions ==
    ASSUME PurgeInv, SendAnswer \/ ServerStores \/ MarkAnswerSynced \/ PurgeSynced
    PROVE  VersionInv' /\ CompletedInv'
  <1>1. CASE SendAnswer
    <2>1. /\ UNCHANGED <<blob, answer, answerSynced, answerTries, media, heldAnswer, adrift,
                         finished, stillPinned>>
          /\ upload = "read" /\ upload' = "await"
          /\ sending' = IF AnswerShippable THEN answer ELSE NoAnswer
      BY <1>1 DEF SendAnswer, blobVars, formVars, shipVars, serverVars
    <2>2. VersionInv'
      BY <2>1 DEF PurgeInv, VersionInv
    <2>3. CompletedInv'
      BY <2>1 DEF PurgeInv, CompletedInv, IsPending, AnswerShippable, AnswerDead
    <2>4. QED
      BY <2>2, <2>3
  <1>2. CASE ServerStores
    <2>1. /\ UNCHANGED <<blob, answer, answerSynced, answerTries, media, adrift, sending,
                         finished, stillPinned>>
          /\ upload = "await" /\ upload' = "mark"
          /\ Received(sending)
      BY <1>2 DEF ServerStores, blobVars, formVars, shipVars, uploadVars
    <2>2. VersionInv'
      BY <2>1 DEF PurgeInv, VersionInv, Received
    <2>3. ~IsPending(answer) /\ answer # NoAnswer /\ (answerSynced \/ sending # NoAnswer)
          => heldAnswer' = answer
      <3> SUFFICES ASSUME ~IsPending(answer), answer # NoAnswer, answerSynced \/ sending # NoAnswer
                   PROVE  heldAnswer' = answer
        OBVIOUS
      <3>1. CASE answerSynced
        BY <2>1, <3>1 DEF PurgeInv, CompletedInv, Received
      <3>2. CASE sending # NoAnswer
        <4>1. sending = answer
          BY <2>1, <3>2 DEF PurgeInv, CompletedInv
        <4>2. heldAnswer # NoAnswer /\ ~IsPending(heldAnswer) => heldAnswer = answer
          BY AnswerShape DEF PurgeInv, BinaryTypeOK, VersionInv, IsPending
        <4>3. QED
          BY <2>1, <4>1, <4>2 DEF Received
      <3>3. QED
        BY <3>1, <3>2
    <2>4. CompletedInv'
      BY <2>1, <2>3 DEF PurgeInv, CompletedInv, IsPending, AnswerDead
    <2>5. QED
      BY <2>2, <2>4
  <1>3. CASE MarkAnswerSynced
    <2>1. /\ UNCHANGED <<blob, answer, answerTries, media, heldAnswer, adrift, sending,
                         finished, stillPinned>>
          /\ upload = "mark" /\ upload' = "ack"
          /\ answerSynced' = (answerSynced \/ sending # NoAnswer)
      BY <1>3 DEF MarkAnswerSynced, blobVars, formVars, serverVars, uploadVars
    <2>2. VersionInv'
      BY <2>1 DEF PurgeInv, VersionInv
    <2>3. CompletedInv'
      BY <2>1 DEF PurgeInv, CompletedInv, IsPending, AnswerDead
    <2>4. QED
      BY <2>2, <2>3
  <1>4. CASE PurgeSynced
    <2>1. /\ UNCHANGED <<blob, media, heldAnswer, adrift, finished, stillPinned, answerSynced>>
          /\ upload' = "idle" /\ answer' \in {answer, NoAnswer} /\ sending' = sending
      BY <1>4 DEF PurgeSynced, blobVars, shipVars, serverVars, uploadVars
    <2>2. VersionInv'
      BY <2>1, AnswerShape DEF PurgeInv, VersionInv, NoAnswer
    <2>3. CompletedInv'
      BY <2>1 DEF PurgeInv, CompletedInv, IsPending
    <2>4. QED
      BY <2>2, <2>3
  <1>5. QED
    BY <1>1, <1>2, <1>3, <1>4

(* The bookkeeping after the answer is stored, or refused: no answer        *)
(* changes, and an attempt is counted only of a drain that gives up.        *)
LEMMA BookVersions ==
    ASSUME PurgeInv,
           AckAnswer \/ MarkSession \/ RegisterFailure \/ CheckFullyDead \/ GiveUp
    PROVE  VersionInv' /\ CompletedInv'
  <1>1. /\ UNCHANGED <<blob, answer, answerSynced, media, heldAnswer, adrift, finished, stillPinned>>
        /\ sending' \in {sending, NoAnswer}
        /\ \/ upload = "ack" /\ upload' = "flag" /\ answerTries' = answerTries
           \/ upload = "flag" /\ upload' = "purge" /\ finished /\ ~stillPinned
              /\ answerTries' = answerTries
           \/ upload' \in {"idle", "burned", "giveup"}
    BY DEF AckAnswer, MarkSession, RegisterFailure, CheckFullyDead, GiveUp, PurgeInv, BinaryTypeOK,
           blobVars, formVars, shipVars, serverVars, uploadVars
  <1>2. VersionInv'
    BY <1>1 DEF PurgeInv, VersionInv
  <1>3. CompletedInv'
    BY <1>1 DEF PurgeInv, CompletedInv, IsPending, AnswerDead
  <1>4. QED
    BY <1>2, <1>3

LEMMA LateVersions ==
    ASSUME PurgeInv, LosePage \/ AnswerRequestFails \/ LateAnswer
    PROVE  VersionInv' /\ CompletedInv'
  <1>1. CASE LosePage \/ AnswerRequestFails
    <2>1. /\ UNCHANGED <<blob, answer, answerSynced, media, heldAnswer>>
          /\ upload' \in {"idle", "failed"} /\ sending' = NoAnswer
          /\ adrift' \subseteq adrift \cup {sending}
      BY <1>1 DEF LosePage, AnswerRequestFails, blobVars, formVars, shipVars, serverVars
    <2>2. VersionInv'
      BY <2>1 DEF PurgeInv, VersionInv
    <2>3. CompletedInv'
      BY <2>1 DEF PurgeInv, CompletedInv, IsPending
    <2>4. QED
      BY <2>2, <2>3
  <1>2. CASE LateAnswer
    <2>1. PICK a \in adrift :
            /\ adrift' = adrift \ {a} /\ (Received(a) \/ UNCHANGED heldAnswer)
            /\ UNCHANGED <<blob, answer, answerSynced, answerTries, media, upload, uploading,
                           sending, finished, stillPinned>>
      BY <1>2 DEF LateAnswer, blobVars, formVars, shipVars, uploadVars
    <2>2. VersionInv'
      BY <2>1 DEF PurgeInv, VersionInv, Received
    <2>3. ~IsPending(answer) /\ heldAnswer = answer /\ answer # NoAnswer => heldAnswer' = answer
      BY <2>1 DEF Received
    <2>4. CompletedInv'
      BY <2>1, <2>3 DEF PurgeInv, CompletedInv, IsPending, AnswerDead
    <2>5. QED
      BY <2>2, <2>4
  <1>3. QED
    BY <1>1, <1>2

LEMMA InitPurge == BinaryInit => PurgeInv
  <1> SUFFICES ASSUME BinaryInit PROVE PurgeInv
    OBVIOUS
  <1>1. BinaryTypeOK
    <2>1. 0 \in 0 .. MaxLosses /\ 0 \in 0 .. AnswerAttempts /\ 0 \in 0 .. MaxRearms
      BY BinaryAssumption
    <2>2. QED
      BY <2>1, AnswerShape DEF BinaryInit, BinaryTypeOK
  <1>2. VersionInv /\ CompletedInv
    BY AnswerShape DEF BinaryInit, VersionInv, CompletedInv, NoAnswer
  <1>3. QED
    BY <1>1, <1>2, InitBytes DEF PurgeInv

LEMMA StepPurge == PurgeInv /\ [BinaryNext]_binaryVars => PurgeInv'
  <1> SUFFICES ASSUME PurgeInv, [BinaryNext]_binaryVars PROVE PurgeInv'
    OBVIOUS
  <1>1. BinaryTypeOK' /\ BytesInv'
    BY TypesKeep, StepBytes DEF PurgeInv
  <1>2. VersionInv' /\ CompletedInv'
    <2>1. CASE UNCHANGED binaryVars
      BY <2>1
         DEF PurgeInv, VersionInv, CompletedInv, IsPending, AnswerDead, binaryVars, blobVars,
             formVars, shipVars, serverVars, uploadVars
    <2>2. CASE BinaryNext
      BY <2>2, FormVersions, UploadVersions, PatchVersions, ShipVersions, BookVersions,
         LateVersions
         DEF BinaryNext, DrainFiles
    <2>3. QED
      BY <2>1, <2>2
  <1>3. QED
    BY <1>1, <1>2 DEF PurgeInv

(* The variables of the upload of files keep to their types.                *)
THEOREM BinariesKeepTheirTypes == BinarySpec => []BinaryTypeOK
  <1>1. PurgeInv => BinaryTypeOK
    BY DEF PurgeInv
  <1>2. QED
    BY <1>1, InitPurge, StepPurge, PTL DEF BinarySpec

(* Whatever a purge takes, the bytes of the committed files are on the      *)
(* server and named in the answer, in whatever order bytes and answer and   *)
(* its older versions arrived; the answer goes only if the server has this  *)
(* version of it, and stays, once the row is gone, only as a dead letter    *)
(* (uploadSessionBinaries, the upsert of responses, purgeSyncedSessionData).*)
THEOREM PurgedNamesItsBytes == BinarySpec => PurgedAnswerNamesItsBytes
  <1> DEFINE Purge == /\ answer # NoAnswer
                      /\ \/ answer' = NoAnswer
                         \/ fileSession # "purged" /\ fileSession' = "purged"
             Whole == /\ ~IsPending(answer) /\ answer.files \subseteq media
                      /\ IF answer' = NoAnswer THEN heldAnswer = answer
                         ELSE answer' = answer /\ AnswerDead
  <1>1. ASSUME PurgeInv, [BinaryNext]_binaryVars PROVE Purge => Whole
    <2> SUFFICES ASSUME Purge PROVE Whole
      OBVIOUS
    <2>1. PurgeSynced
      <3>1. CASE PatchAnswer
        <4>1. answer' # NoAnswer /\ fileSession' = fileSession
          <5>1. CASE answer # NoAnswer /\ uploading \in answer.files
            <6>1. answer \in Answers /\ uploading \in File
              BY <1>1, <3>1 DEF PatchAnswer, PurgeInv, BytesInv, FileTypes
            <6>2. answer' = [answer EXCEPT !.patched = @ \cup {uploading}]
              BY <3>1, <5>1 DEF PatchAnswer
            <6>3. uploading \in answer'.patched
              BY <6>1, <6>2, PatchedAnswer
            <6>4. QED
              BY <3>1, <6>3 DEF PatchAnswer, NoAnswer
          <5>2. CASE ~(answer # NoAnswer /\ uploading \in answer.files)
            BY <3>1, <5>2 DEF PatchAnswer
          <5>3. QED
            BY <5>1, <5>2
        <4>2. QED
          BY <4>1
      <3>2. CASE CommitFiles
        BY <3>2 DEF CommitFiles
      <3>3. CASE ~PatchAnswer /\ ~CommitFiles
        BY <1>1, <3>3
           DEF BinaryNext, DrainFiles, CaptureFile, RemoveFile, RearmSession, CompleteRun,
               BeginUpload, NextBlob, StoreBytes, RememberUrl, UploadFails, DeleteBlob,
               CountPinned, SendAnswer, ServerStores, MarkAnswerSynced, AckAnswer, MarkSession,
               RegisterFailure, CheckFullyDead, GiveUp, AnswerRequestFails, LosePage, LateAnswer,
               binaryVars, formVars
      <3>4. QED
        BY <3>1, <3>2, <3>3
    <2>2. /\ ~IsPending(answer) /\ (answerSynced \/ AnswerDead)
          /\ answerSynced => heldAnswer = answer
      BY <1>1, <2>1 DEF PurgeSynced, PurgeInv, CompletedInv
    <2>3. answer.files \subseteq media
      BY <1>1, <2>2 DEF PurgeInv, VersionInv, IsPending
    <2>4. answer' = IF answerSynced THEN NoAnswer ELSE answer
      BY <2>1 DEF PurgeSynced
    <2>5. QED
      BY <2>2, <2>3, <2>4
  <1>2. PurgeInv /\ [BinaryNext]_binaryVars => [Purge => Whole]_binaryVars
    BY <1>1
  <1>3. QED
    BY <1>2, InitPurge, StepPurge, PTL DEF BinarySpec, PurgedAnswerNamesItsBytes

-----------------------------------------------------------------------------
(* A row holds the version saved last, and only a row that exists says it   *)
(* is synced.                                                               *)
RowInv ==
    /\ \A v \in Variable : rowVersion[v] # 0 => rowVersion[v] = saves[v]
    /\ \A v \in Variable : rowSynced[v] => rowVersion[v] # 0

(* What is on the way was saved, and no request that outlived its drain is  *)
(* ahead of the one under way.                                              *)
WayInv ==
    /\ \A v \in Variable : batch[v] <= saves[v]
    /\ \A b \in overdue : \A v \in Variable :
            b[v] <= saves[v] /\ (batch[v] # 0 => b[v] <= batch[v])

(* Until the server answers, no row the request carries says synced; until  *)
(* the rows are marked, the server has the versions it acked.               *)
AckInv ==
    /\ drainStep = "await" => \A v \in Variable : batch[v] # 0 => ~rowSynced[v]
    /\ drainStep = "mark" => \A v \in acked :
            batch[v] # 0 /\ (heldVersion[v] = batch[v] \/ v \in overtaken)

VariableInv == VariableTypeOK /\ RowInv /\ WayInv /\ AckInv /\ SyncedValueIsHeld

LEMMA VersionsAreNumbers ==
    /\ Version \subseteq Nat /\ 0 \notin Version
    /\ \A v \in Variable : 1 .. MaxSaves[v] \subseteq Version
  <1>1. ASSUME NEW v \in Variable PROVE 1 .. MaxSaves[v] \subseteq Nat /\ 0 \notin 1 .. MaxSaves[v]
    BY VariableAssumption
  <1>2. QED
    BY <1>1 DEF Version

LEMMA VersionsAreTyped ==
    ASSUME VariableTypeOK
    PROVE  /\ {rowVersion, saves, heldVersion, batch} \cup overdue \subseteq [Variable -> Nat]
           /\ rowSynced \in [Variable -> BOOLEAN]
  <1>1. ASSUME NEW b \in Batch PROVE b \in [Variable -> Nat]
    <2>1. Version \cup {0} \subseteq Nat
      BY VersionsAreNumbers
    <2>2. QED
      BY <2>1 DEF Batch
  <1>2. {rowVersion, saves, heldVersion, batch} \cup overdue \subseteq Batch
    BY DEF VariableTypeOK
  <1>3. QED
    BY <1>1, <1>2 DEF VariableTypeOK

LEMMA VersionIsNew ==
    ASSUME VariableTypeOK, NEW v \in Variable, PutVariable(v)
    PROVE  saves[v] + 1 \in Version /\ saves[v] + 1 # 0
  <1>1. saves[v] \in Nat /\ MaxSaves[v] \in Nat
    BY VersionsAreTyped, VariableAssumption
  <1>2. saves[v] + 1 \in 1 .. MaxSaves[v]
    BY <1>1 DEF PutVariable
  <1>3. QED
    BY <1>2, VersionsAreNumbers

LEMMA InitVariables == VariableInit => VariableInv
  <1> SUFFICES ASSUME VariableInit PROVE VariableInv
    OBVIOUS
  <1>1. VariableTypeOK
    <2>1. Nothing \in Batch
      BY DEF Nothing, Batch
    <2>2. Cardinality({}) <= 1
      BY FS_EmptySet
    <2>3. 0 \in 0 .. MaxFailures /\ 0 \in 0 .. MaxOverrun
      BY VariableAssumption
    <2>4. QED
      BY <2>1, <2>2, <2>3 DEF VariableInit, VariableTypeOK
  <1>2. RowInv /\ WayInv /\ AckInv /\ SyncedValueIsHeld
    BY DEF VariableInit, RowInv, WayInv, AckInv, SyncedValueIsHeld, Nothing
  <1>3. QED
    BY <1>1, <1>2 DEF VariableInv

(* The participant saves a variable.                                        *)
LEMMA PutKeeps ==
    ASSUME VariableInv, NEW v \in Variable, PutVariable(v)
    PROVE  VariableInv'
  <1>1. saves[v] \in Nat /\ saves[v] + 1 \in Version
    BY VersionIsNew, VersionsAreTyped DEF VariableInv
  <1>2. VariableTypeOK'
    BY <1>1
       DEF VariableInv, VariableTypeOK, Batch, PutVariable, ledgerVars, drainVars, boundVars
  <1>3. RowInv'
    BY <1>1 DEF VariableInv, VariableTypeOK, Batch, RowInv, PutVariable
  <1>4. WayInv'
    <2>1. \A w \in Variable : saves'[w] \in Nat /\ saves[w] \in Nat /\ saves[w] <= saves'[w]
      BY VersionsAreTyped DEF VariableInv, PutVariable
    <2>2. \A w \in Variable : batch[w] \in Nat /\ \A b \in overdue : b[w] \in Nat
      BY VersionsAreTyped DEF VariableInv
    <2>3. batch' = batch /\ overdue' = overdue
      BY DEF PutVariable, drainVars
    <2>4. QED
      BY <2>1, <2>2, <2>3 DEF VariableInv, WayInv
  <1>5. AckInv' /\ SyncedValueIsHeld'
    BY <1>1
       DEF VariableInv, VariableTypeOK, Batch, AckInv, SyncedValueIsHeld, PutVariable, drainVars
  <1>6. QED
    BY <1>2, <1>3, <1>4, <1>5 DEF VariableInv

(* A saved version is queued, or the session completes: no row changes.     *)
LEMMA QueueKeeps ==
    ASSUME VariableInv,
           CompleteSession \/ \E v \in Variable, k \in Version : EnqueueVariable(v, k)
    PROVE  VariableInv'
  <1>1. ledgerState' \in [Variable -> [Version -> {"none", "pending", "acked", "dead"}]]
    <2>1. ASSUME NEW v \in Variable, NEW k \in Version, EnqueueVariable(v, k)
          PROVE  ledgerState' \in [Variable -> [Version -> {"none", "pending", "acked", "dead"}]]
      BY <2>1 DEF VariableInv, VariableTypeOK, EnqueueVariable
    <2>2. CASE CompleteSession
      BY <2>2 DEF VariableInv, VariableTypeOK, CompleteSession, ledgerVars
    <2>3. QED
      BY <2>1, <2>2
  <1>2. VariableTypeOK'
    BY <1>1
       DEF VariableInv, VariableTypeOK, EnqueueVariable, CompleteSession, ledgerVars,
           drainVars, boundVars
  <1>3. RowInv' /\ WayInv' /\ AckInv' /\ SyncedValueIsHeld'
    BY DEF VariableInv, RowInv, WayInv, AckInv, SyncedValueIsHeld, EnqueueVariable,
           CompleteSession, drainVars
  <1>4. QED
    BY <1>2, <1>3 DEF VariableInv

(* The drain begins, and what it takes for missing is unsynced again.       *)
LEMMA ReconcileKeeps ==
    ASSUME VariableInv, BeginDrain \/ Reconcile \/ EndReconcile
                        \/ \E v \in Variable, k \in Version :
                                ResetLedgerRow(v, k) \/ ResetRecordUnsynced(v, k)
    PROVE  VariableInv'
  <1>1. VariableTypeOK'
    <2>1. CASE BeginDrain \/ Reconcile \/ EndReconcile
      BY <2>1
         DEF VariableInv, VariableTypeOK, BeginDrain, Reconcile, EndReconcile, deviceRowVars,
             ledgerVars, boundVars
    <2>2. ASSUME NEW v \in Variable, NEW k \in Version, ResetLedgerRow(v, k)
          PROVE  VariableTypeOK'
      BY <2>2
         DEF VariableInv, VariableTypeOK, ResetLedgerRow, deviceRowVars, drainVars, boundVars
    <2>3. ASSUME NEW v \in Variable, NEW k \in Version, ResetRecordUnsynced(v, k)
          PROVE  VariableTypeOK'
      BY <2>3 DEF VariableInv, VariableTypeOK, ResetRecordUnsynced, ledgerVars, boundVars
    <2>4. QED
      BY <2>1, <2>2, <2>3
  <1>2. /\ UNCHANGED <<rowVersion, saves, batch, acked, overdue, heldVersion, overtaken>>
        /\ drainStep' \notin {"await", "mark"}
        /\ \A v \in Variable : rowSynced'[v] => rowSynced[v]
    BY DEF VariableInv, VariableTypeOK, BeginDrain, Reconcile, EndReconcile, ResetLedgerRow,
           ResetRecordUnsynced, deviceRowVars, drainVars
  <1>3. QED
    BY <1>1, <1>2 DEF VariableInv, RowInv, WayInv, AckInv, SyncedValueIsHeld

LEMMA SendKeeps ==
    ASSUME VariableInv, SendVariables
    PROVE  VariableInv'
  <1>1. VariableTypeOK'
    BY DEF VariableInv, VariableTypeOK, Batch, SendVariables, deviceRowVars, ledgerVars, boundVars
  <1>2. \A v \in Variable : batch'[v] \in {0, rowVersion[v]} /\ (batch'[v] # 0 => ~rowSynced[v])
    BY DEF SendVariables, Shippable, UnsyncedVariables
  <1>3. /\ UNCHANGED <<rowVersion, rowSynced, saves, overdue, heldVersion, overtaken>>
        /\ drainStep' = "await"
    BY DEF SendVariables, deviceRowVars
  <1>4. \A v \in Variable : saves[v] \in Nat
    BY VersionsAreTyped DEF VariableInv
  <1>5. WayInv'
    BY <1>2, <1>3, <1>4 DEF VariableInv, RowInv, WayInv
  <1>6. QED
    BY <1>1, <1>2, <1>3, <1>5 DEF VariableInv, RowInv, AckInv, SyncedValueIsHeld

(* The answer comes back and the device takes it in.                        *)
LEMMA AckKeeps ==
    ASSUME VariableInv, ServerUpserts \/ MarkVariablesSynced \/ MarkAcked \/ EndDrain
    PROVE  VariableInv'
  <1>1. CASE ServerUpserts
    <2>1. VariableTypeOK'
      BY <1>1
         DEF VariableInv, VariableTypeOK, Batch, ServerUpserts, Upsert, deviceRowVars,
             ledgerVars, boundVars
    <2>2. RowInv' /\ WayInv'
      BY <1>1 DEF VariableInv, RowInv, WayInv, ServerUpserts, deviceRowVars
    <2>3. AckInv' /\ SyncedValueIsHeld'
      BY <1>1
         DEF VariableInv, AckInv, SyncedValueIsHeld, ServerUpserts, Upsert, deviceRowVars
    <2>4. QED
      BY <2>1, <2>2, <2>3 DEF VariableInv
  <1>2. CASE MarkVariablesSynced
    <2>1. VariableTypeOK'
      BY <1>2 DEF VariableInv, VariableTypeOK, MarkVariablesSynced, ledgerVars, boundVars
    <2>2. RowInv' /\ WayInv' /\ AckInv' /\ SyncedValueIsHeld'
      BY <1>2
         DEF VariableInv, RowInv, WayInv, AckInv, SyncedValueIsHeld, MarkVariablesSynced
    <2>3. QED
      BY <2>1, <2>2 DEF VariableInv
  <1>3. CASE MarkAcked
    <2>1. VariableTypeOK'
      BY <1>3 DEF VariableInv, VariableTypeOK, MarkAcked, deviceRowVars, boundVars
    <2>2. RowInv' /\ WayInv' /\ AckInv' /\ SyncedValueIsHeld'
      BY <1>3
         DEF VariableInv, RowInv, WayInv, AckInv, SyncedValueIsHeld, MarkAcked, deviceRowVars
    <2>3. QED
      BY <2>1, <2>2 DEF VariableInv
  <1>4. CASE EndDrain
    <2>1. VariableTypeOK'
      <3>1. Nothing \in Batch /\ rowVersion' \in Batch
        BY <1>4 DEF VariableInv, VariableTypeOK, Batch, Nothing, EndDrain
      <3>2. rowSynced' \in [Variable -> BOOLEAN] /\ sessionState' \in {"open", "completed", "purged"}
        BY <1>4 DEF VariableInv, VariableTypeOK, EndDrain
      <3>3. QED
        BY <1>4, <3>1, <3>2 DEF VariableInv, VariableTypeOK, EndDrain, ledgerVars, boundVars
    <2>2. RowInv' /\ AckInv' /\ SyncedValueIsHeld'
      BY <1>4
         DEF VariableInv, RowInv, AckInv, SyncedValueIsHeld, Nothing, EndDrain
    <2>3. WayInv'
      <3>1. batch' = Nothing /\ UNCHANGED <<saves, overdue>>
        BY <1>4 DEF EndDrain
      <3>2. QED
        BY <3>1, VersionsAreTyped DEF VariableInv, WayInv, Nothing
    <2>4. QED
      BY <2>1, <2>2, <2>3 DEF VariableInv
  <1>5. QED
    BY <1>1, <1>2, <1>3, <1>4

(* A request outlives its drain at most, and says nothing the row has not.  *)
LEMMA LossKeeps ==
    ASSUME VariableInv, RequestFails \/ PageGone
    PROVE  VariableInv'
  <1>1. Cardinality(overdue') <= 1 /\ overdue' \subseteq overdue \cup {batch}
    <2>1. overdue' = overdue \/ overdue' = {batch}
      BY DEF RequestFails, PageGone, Outlives
    <2>2. Cardinality({batch}) <= 1
      BY FS_Singleton
    <2>3. Cardinality(overdue) <= 1
      BY DEF VariableInv, VariableTypeOK
    <2>4. QED
      BY <2>1, <2>2, <2>3
  <1>2. /\ UNCHANGED <<rowVersion, rowSynced, saves, heldVersion, overtaken>>
        /\ batch' = Nothing /\ drainStep' = "idle"
    BY DEF RequestFails, PageGone, deviceRowVars
  <1>3. /\ ledgerTries' \in [Variable -> [Version -> Nat]]
        /\ ledgerState' \in [Variable -> [Version -> {"none", "pending", "acked", "dead"}]]
    BY DEF VariableInv, VariableTypeOK, RequestFails, PageGone, ledgerVars
  <1>4. VariableTypeOK'
    BY <1>1, <1>2, <1>3, VariableAssumption
       DEF VariableInv, VariableTypeOK, Batch, Nothing, RequestFails, PageGone,
           deviceRowVars
  <1>5. WayInv'
    BY <1>1, <1>2, VersionsAreTyped DEF VariableInv, WayInv, Nothing
  <1>6. QED
    BY <1>2, <1>4, <1>5 DEF VariableInv, RowInv, AckInv, SyncedValueIsHeld, Nothing

(* An overdue request overtakes what the server holds, or changes nothing   *)
(* of what a row or an answer relies on: it is never ahead of them.         *)
LEMMA OverdueKeeps ==
    ASSUME VariableInv, OverdueArrives \/ OverdueLost
    PROVE  VariableInv'
  <1>1. CASE OverdueLost
    <2>1. VariableTypeOK'
      BY <1>1, FS_EmptySet
         DEF VariableInv, VariableTypeOK, OverdueLost, deviceRowVars, ledgerVars, drainVars,
             boundVars
    <2>2. RowInv' /\ WayInv' /\ AckInv' /\ SyncedValueIsHeld'
      BY <1>1
         DEF VariableInv, RowInv, WayInv, AckInv, SyncedValueIsHeld, OverdueLost,
             deviceRowVars, drainVars
    <2>3. QED
      BY <2>1, <2>2 DEF VariableInv
  <1>2. CASE OverdueArrives
    <2>1. PICK b \in overdue :
            /\ Upsert(b)
            /\ overtaken' = overtaken \cup {v \in Variable : b[v] # 0 /\ b[v] < heldVersion[v]}
      BY <1>2 DEF OverdueArrives
    <2>2. b \in Batch
      BY DEF VariableInv, VariableTypeOK
    <2>3. VariableTypeOK'
      BY <1>2, <2>1, <2>2, FS_EmptySet, VariableAssumption
         DEF VariableInv, VariableTypeOK, Batch, OverdueArrives, Upsert, deviceRowVars,
             ledgerVars, drainVars
    <2>4. UNCHANGED <<rowVersion, rowSynced, saves, batch, acked, drainStep>>
      BY <1>2 DEF OverdueArrives, deviceRowVars, drainVars
    <2>5. RowInv' /\ WayInv'
      BY <1>2, <2>4 DEF VariableInv, RowInv, WayInv, OverdueArrives
    <2>6. \A v \in Variable :
            /\ b[v] \in Nat /\ saves[v] \in Nat /\ batch[v] \in Nat /\ heldVersion[v] \in Nat
            /\ b[v] <= saves[v] /\ (batch[v] # 0 => b[v] <= batch[v])
            /\ heldVersion'[v] = IF b[v] # 0 THEN b[v] ELSE heldVersion[v]
            /\ b[v] # 0 /\ b[v] < heldVersion[v] => v \in overtaken'
            /\ v \in overtaken => v \in overtaken'
      <3>1. b \in [Variable -> Nat]
        BY VersionsAreTyped DEF VariableInv
      <3>2. \A v \in Variable : b[v] <= saves[v] /\ (batch[v] # 0 => b[v] <= batch[v])
        BY DEF VariableInv, WayInv
      <3>3. QED
        BY <2>1, <3>1, <3>2, VersionsAreTyped DEF VariableInv, Upsert
    <2>7. AckInv'
      <3>1. acked \subseteq Variable
        BY DEF VariableInv, VariableTypeOK
      <3>2. QED
        BY <2>4, <2>6, <3>1 DEF VariableInv, AckInv
    <2>8. SyncedValueIsHeld'
      BY <2>4, <2>6 DEF VariableInv, RowInv, SyncedValueIsHeld
    <2>9. QED
      BY <2>3, <2>5, <2>7, <2>8 DEF VariableInv
  <1>3. QED
    BY <1>1, <1>2

LEMMA StepVariables == VariableInv /\ [VariableNext]_variableVars => VariableInv'
  <1> SUFFICES ASSUME VariableInv, [VariableNext]_variableVars PROVE VariableInv'
    OBVIOUS
  <1>1. CASE \E v \in Variable : PutVariable(v)
    BY <1>1, PutKeeps
  <1>2. CASE CompleteSession \/ \E v \in Variable, k \in Version : EnqueueVariable(v, k)
    BY <1>2, QueueKeeps
  <1>3. CASE DrainVariables
    BY <1>3, ReconcileKeeps, SendKeeps, AckKeeps DEF DrainVariables
  <1>4. CASE RequestFails \/ PageGone \/ OverdueArrives \/ OverdueLost
    BY <1>4, LossKeeps, OverdueKeeps
  <1>5. CASE UNCHANGED variableVars
    BY <1>5
       DEF VariableInv, VariableTypeOK, RowInv, WayInv, AckInv, SyncedValueIsHeld, variableVars,
           deviceRowVars, ledgerVars, drainVars, boundVars
  <1>6. QED
    BY <1>1, <1>2, <1>3, <1>4, <1>5 DEF VariableNext

(* The variables of the sync of variables keep to their types.              *)
THEOREM VariablesKeepTheirTypes == VariableSpec => []VariableTypeOK
  <1>1. VariableInv => VariableTypeOK
    BY DEF VariableInv
  <1>2. QED
    BY <1>1, InitVariables, StepVariables, PTL DEF VariableSpec

(* A variable's row says synced only of the value the server holds, unless  *)
(* a request that outlived its drain wrote the value back                   *)
(* (markVariablesSynced).                                                   *)
THEOREM SyncedIsHeld == VariableSpec => []SyncedValueIsHeld
  <1>1. VariableInv => SyncedValueIsHeld
    BY DEF VariableInv
  <1>2. QED
    BY <1>1, InitVariables, StepVariables, PTL DEF VariableSpec

(* The purge of a completed session takes only values the server holds, the *)
(* same request aside (purgeSyncedSessionRows).                             *)
THEOREM PurgedIsHeld == VariableSpec => PurgedValueIsHeld
  <1> DEFINE Kept == \A v \in Variable : rowVersion[v] # 0 /\ rowVersion'[v] = 0 =>
                        heldVersion[v] = rowVersion[v] \/ v \in overtaken
  <1>1. ASSUME VariableInv, [VariableNext]_variableVars PROVE Kept
    <2> SUFFICES ASSUME NEW v \in Variable, rowVersion[v] # 0, rowVersion'[v] = 0
                 PROVE  heldVersion[v] = rowVersion[v] \/ v \in overtaken
      OBVIOUS
    <2>1. CASE EndDrain
      <3>1. rowSynced[v]
        BY <2>1 DEF EndDrain
      <3>2. QED
        BY <1>1, <3>1 DEF VariableInv, SyncedValueIsHeld
    <2>2. ASSUME NEW w \in Variable, PutVariable(w) PROVE FALSE
      <3>1. rowVersion'[v] \in {rowVersion[v], saves[w] + 1} /\ saves[w] + 1 # 0
        BY <1>1, <2>2, VersionIsNew DEF PutVariable, VariableInv, VariableTypeOK, Batch
      <3>2. QED
        BY <2>2, <3>1
    <2>3. CASE UNCHANGED rowVersion
      BY <2>3
    <2>4. QED
      BY <1>1, <2>1, <2>2, <2>3
         DEF VariableNext, EnqueueVariable, CompleteSession, DrainVariables, BeginDrain,
             Reconcile, ResetLedgerRow, ResetRecordUnsynced, EndReconcile, SendVariables,
             ServerUpserts, MarkVariablesSynced, MarkAcked, RequestFails, PageGone,
             OverdueArrives, OverdueLost, variableVars, deviceRowVars
  <1>2. VariableInv /\ [VariableNext]_variableVars => [Kept]_variableVars
    BY <1>1
  <1>3. QED
    BY <1>2, InitVariables, StepVariables, PTL DEF VariableSpec, PurgedValueIsHeld
=============================================================================
