---------------------------- MODULE BinaryUpload ----------------------------
(* File answers: the bytes are pinned on the device under a clientId, the   *)
(* answer refers to them, and a drain uploads each blob, patches the answer *)
(* with the address of the bytes, ships the answer again and drops the      *)
(* blob.  One question takes several files; one engine drains at a time.    *)
(* A drain that is gone may leave its last request to arrive late.  An      *)
(* answer whose requests keep failing becomes a dead letter; the session's  *)
(* row has a synced flag of its own, and is purged by a step of its own.    *)
EXTENDS Naturals, FiniteSets

CONSTANTS
    File,         \* the files the participant may choose, by clientId
    AnswerAttempts,  \* DEAD_LETTER_ATTEMPTS
    MaxLosses,    \* bound: requests that fail and pages that go away
    MaxRearms     \* bound: writes to the session row after its completion

ASSUME BinaryAssumption ==
    IsFiniteSet(File) /\ AnswerAttempts \in Nat \ {0} /\ MaxLosses \in Nat
    /\ MaxRearms \in Nat

VARIABLES
    blob,         \* file -> "none", "pinned" or "gone"
    blobUrl,      \* pinned blobs whose row holds the address of the bytes
    chosen,       \* the value of the form, lost with the page
    answer,       \* the stored answer row: its files, and those patched
    answerSynced,
    answerTries,  \* its ledger row: attempts, or acknowledged
    answerAcked,
    fileSession,  \* "open", "completed" or "purged"
    sessionSynced,   \* the session row's own flag
    rearms,       \* history: writes to the row after its completion
    stranded,     \* history: completed, flagged synced, with nothing to drain
    media,        \* files whose bytes the server holds
    heldAnswer,   \* the server's answer
    upload,       \* where the drain is
    toUpload,     \* the blobs this drain still uploads
    uploading,
    stillPinned,  \* the drain counted pinned blobs after its uploads
    finished,     \* the drain read a completed session
    sending,      \* the answer the drain read, if it was unsynced
    adrift,       \* answers of drains that are gone, still on their way
    losses

blobVars == <<blob, blobUrl>>
formVars == <<chosen, answer, fileSession>>
shipVars == <<answerSynced, answerTries, answerAcked>>
markVars == <<sessionSynced, rearms, stranded>>
serverVars == <<media, heldAnswer>>
uploadVars == <<toUpload, uploading, stillPinned, finished, sending>>
binaryVars == <<blobVars, formVars, shipVars, markVars, serverVars, upload, uploadVars,
                adrift, losses>>

(* An answer that exists refers to at least one file.                       *)
NoAnswer == [files |-> {}, patched |-> {}]
Answers == {[files |-> f, patched |-> p] : f \in SUBSET File, p \in SUBSET File}
Pinned == {f \in File : blob[f] = "pinned"}
NoFile == "none"

(* What the getters hand to a drain: an unsynced answer, but no dead letter.*)
AnswerDead == answerTries = AnswerAttempts
AnswerShippable == answer # NoAnswer /\ ~answerSynced /\ ~AnswerDead
(* A session row marked synced comes back only with a blob or an answer.    *)
LeftBehind == fileSession = "completed" /\ Pinned = {} /\ ~AnswerShippable

BinaryTypeOK ==
    /\ blob \in [File -> {"none", "pinned", "gone"}] /\ blobUrl \subseteq File
    /\ chosen \subseteq File /\ answer \in Answers
    /\ answerSynced \in BOOLEAN /\ answerTries \in 0 .. AnswerAttempts /\ answerAcked \in BOOLEAN
    /\ sessionSynced \in BOOLEAN /\ rearms \in 0 .. MaxRearms /\ stranded \in BOOLEAN
    /\ fileSession \in {"open", "completed", "purged"}
    /\ media \subseteq File /\ heldAnswer \in Answers
    /\ upload \in {"idle", "next", "sent", "patch", "delete", "read", "await", "mark", "ack",
                   "flag", "purge", "failed", "burned", "giveup"}
    /\ toUpload \subseteq File /\ uploading \in File \cup {NoFile}
    /\ stillPinned \in BOOLEAN /\ finished \in BOOLEAN
    /\ sending \in Answers /\ adrift \subseteq Answers
    /\ losses \in 0 .. MaxLosses

(* A session created on the server starts synced, one created here not.     *)
BinaryInit ==
    /\ blob = [f \in File |-> "none"] /\ blobUrl = {} /\ chosen = {}
    /\ answer = NoAnswer /\ answerSynced = FALSE /\ answerTries = 0 /\ answerAcked = FALSE
    /\ fileSession = "open" /\ sessionSynced \in BOOLEAN /\ rearms = 0 /\ stranded = FALSE
    /\ media = {} /\ heldAnswer = NoAnswer
    /\ upload = "idle" /\ toUpload = {} /\ uploading = NoFile
    /\ stillPinned = FALSE /\ finished = FALSE /\ sending = NoAnswer
    /\ adrift = {} /\ losses = 0

(* capture, then the module's reference; remove or re-record drops both.    *)
CaptureFile(f) ==
    /\ answer = NoAnswer /\ fileSession = "open" /\ blob[f] = "none"
    /\ blob' = [blob EXCEPT ![f] = "pinned"]
    /\ chosen' = chosen \cup {f}
    /\ UNCHANGED <<blobUrl, answer, fileSession, shipVars, markVars, serverVars, upload,
                   uploadVars, adrift, losses>>

RemoveFile(f) ==
    /\ f \in chosen /\ chosen' = chosen \ {f}
    /\ blob' = [blob EXCEPT ![f] = "gone"] /\ blobUrl' = blobUrl \ {f}
    /\ UNCHANGED <<answer, fileSession, shipVars, markVars, serverVars, upload, uploadVars,
                   adrift, losses>>

CommitFiles ==
    /\ answer = NoAnswer /\ fileSession = "open" /\ chosen # {}
    /\ answer' = [files |-> chosen, patched |-> {}] /\ chosen' = {}
    /\ UNCHANGED <<blobVars, fileSession, shipVars, markVars, serverVars, upload, uploadVars,
                   adrift, losses>>

(* Progress, resume state and metadata written to the row re-arm its flag,  *)
(* a write that was under way at the completion too.                        *)
RearmSession ==
    /\ sessionSynced /\ sessionSynced' = FALSE /\ stranded' = FALSE
    /\ \/ fileSession = "open" /\ UNCHANGED rearms
       \/ fileSession = "completed" /\ rearms < MaxRearms /\ rearms' = rearms + 1
    /\ UNCHANGED <<blobVars, formVars, shipVars, serverVars, upload, uploadVars, adrift,
                   losses>>

(* completeSession, called when the form is off the screen, with or without *)
(* an answer; a file chosen by then and never committed stays pinned.       *)
CompleteRun ==
    /\ fileSession = "open" /\ fileSession' = "completed" /\ sessionSynced' = FALSE
    /\ chosen' = {}
    /\ UNCHANGED <<blobVars, answer, shipVars, rearms, stranded, serverVars, upload,
                   uploadVars, adrift, losses>>

(* collectSessionsToSync: a session row that is not synced, an unsynced     *)
(* answer or a pinned blob brings the session in, with the status it has    *)
(* now.  The pass takes the pinned blobs whose backoff is over.             *)
BeginUpload ==
    /\ upload = "idle" /\ upload' = "next"
    /\ Pinned # {} \/ AnswerShippable \/ (fileSession # "purged" /\ ~sessionSynced)
    /\ finished' = (fileSession = "completed")
    /\ toUpload' = Pinned
    /\ UNCHANGED <<blobVars, formVars, shipVars, markVars, serverVars, uploading,
                   stillPinned, sending, adrift, losses>>

(* An operator named Faulty... is a plausible bug in the definition that    *)
(* follows.  Nothing uses it: it says which slip the properties notice.     *)
FaultyNextBlob(f) ==
    /\ upload = "next" /\ f \in toUpload
    /\ toUpload' = toUpload \ {f} /\ uploading' = f
    /\ upload' = "patch"
    /\ UNCHANGED <<blobVars, formVars, shipVars, markVars, serverVars, stillPinned, finished,
                   sending, adrift, losses>>

(* A blob whose bytes the server holds goes straight to the patch.          *)
NextBlob(f) ==
    /\ upload = "next" /\ f \in toUpload
    /\ toUpload' = toUpload \ {f} /\ uploading' = f
    /\ upload' = IF f \in blobUrl THEN "patch" ELSE "sent"
    /\ UNCHANGED <<blobVars, formVars, shipVars, markVars, serverVars, stillPinned, finished,
                   sending, adrift, losses>>

(* The server stores the bytes (again, when an earlier answer was lost) and *)
(* answers with their address, which the row keeps unless the participant   *)
(* removed it meanwhile.                                                    *)
StoreBytes ==
    /\ upload = "sent" /\ uploading \notin media
    /\ media' = media \cup {uploading}
    /\ UNCHANGED <<blobVars, formVars, shipVars, markVars, heldAnswer, upload, uploadVars,
                   adrift, losses>>

RememberUrl ==
    /\ upload = "sent" /\ uploading \in media /\ upload' = "patch"
    /\ blobUrl' = blobUrl \cup ({uploading} \cap Pinned)
    /\ UNCHANGED <<blob, formVars, shipVars, markVars, serverVars, uploadVars, adrift,
                   losses>>

(* The upload fails, or its answer carries no address, whether or not the   *)
(* server has the bytes: the blob stays pinned.                             *)
UploadFails ==
    /\ upload = "sent" /\ losses < MaxLosses /\ losses' = losses + 1
    /\ upload' = "next" /\ uploading' = NoFile
    /\ UNCHANGED <<blobVars, formVars, shipVars, markVars, serverVars, toUpload, stillPinned,
                   finished, sending, adrift>>

FaultyPatchAnswer ==
    /\ upload = "patch"
    /\ IF answer # NoAnswer /\ uploading \in answer.files
       THEN /\ answer' = [answer EXCEPT !.patched = @ \cup {uploading}]
            /\ answerSynced' = FALSE
       ELSE UNCHANGED <<answer, answerSynced>>
    /\ upload' = "next" /\ uploading' = NoFile
    /\ UNCHANGED <<blobVars, chosen, fileSession, answerTries, answerAcked, markVars,
                   serverVars, toUpload, stillPinned, finished, sending, adrift, losses>>

(* patchBinaryResponse: the stored answer that refers to the blob gets the  *)
(* address and is unsynced again, its ledger row left as it is; without one *)
(* the blob is left for later.                                              *)
PatchAnswer ==
    /\ upload = "patch"
    /\ IF answer # NoAnswer /\ uploading \in answer.files
       THEN /\ answer' = [answer EXCEPT !.patched = @ \cup {uploading}]
            /\ answerSynced' = FALSE /\ upload' = "delete" /\ UNCHANGED uploading
       ELSE upload' = "next" /\ uploading' = NoFile /\ UNCHANGED <<answer, answerSynced>>
    /\ UNCHANGED <<blobVars, chosen, fileSession, answerTries, answerAcked, markVars,
                   serverVars, toUpload, stillPinned, finished, sending, adrift, losses>>

DeleteBlob ==
    /\ upload = "delete" /\ upload' = "next" /\ uploading' = NoFile
    /\ blob' = [blob EXCEPT ![uploading] = "gone"] /\ blobUrl' = blobUrl \ {uploading}
    /\ UNCHANGED <<formVars, shipVars, markVars, serverVars, toUpload, stillPinned, finished,
                   sending, adrift, losses>>

(* countPending, and only then the rows to ship are read.                   *)
CountPinned ==
    /\ upload = "next" /\ toUpload = {} /\ upload' = "read"
    /\ stillPinned' = (Pinned # {})
    /\ UNCHANGED <<blobVars, formVars, shipVars, markVars, serverVars, toUpload, uploading,
                   finished, sending, adrift, losses>>

(* getUnsyncedResponses, and the session's last request.                    *)
SendAnswer ==
    /\ upload = "read" /\ upload' = "await"
    /\ sending' = IF AnswerShippable THEN answer ELSE NoAnswer
    /\ UNCHANGED <<blobVars, formVars, shipVars, markVars, serverVars, toUpload, uploading,
                   stillPinned, finished, adrift, losses>>

FaultyIsPending(a) == FALSE

(* ON CONFLICT: a stored answer is replaced only while one of its files is  *)
(* pending.                                                                 *)
IsPending(a) == a.files # a.patched
Received(a) ==
    heldAnswer' = IF a # NoAnswer /\ (heldAnswer = NoAnswer \/ IsPending(heldAnswer))
                  THEN a ELSE heldAnswer

ServerStores ==
    /\ upload = "await" /\ upload' = "mark"
    /\ Received(sending)
    /\ UNCHANGED <<blobVars, formVars, shipVars, markVars, media, uploadVars, adrift,
                   losses>>

MarkAnswerSynced ==
    /\ upload = "mark" /\ upload' = "ack"
    /\ answerSynced' = (answerSynced \/ sending # NoAnswer)
    /\ UNCHANGED <<blobVars, formVars, answerTries, answerAcked, markVars, serverVars,
                   uploadVars, adrift, losses>>

AckAnswer ==
    /\ upload = "ack" /\ upload' = "flag"
    /\ answerAcked' = (answerAcked \/ sending # NoAnswer)
    /\ UNCHANGED <<blobVars, formVars, answerSynced, answerTries, markVars, serverVars,
                   uploadVars, adrift, losses>>

(* No blob was pending: the session's row is marked synced, whatever was    *)
(* written to it since it was read, and purged if it was read completed.    *)
MarkSession ==
    /\ upload = "flag" /\ sending' = NoAnswer
    /\ IF stillPinned
       THEN upload' = "idle" /\ UNCHANGED markVars
       ELSE /\ sessionSynced' = TRUE /\ UNCHANGED rearms
            /\ upload' = IF finished THEN "purge" ELSE "idle"
            /\ stranded' = (stranded \/ (~finished /\ LeftBehind))
    /\ UNCHANGED <<blobVars, formVars, shipVars, serverVars, toUpload, uploading,
                   stillPinned, finished, adrift, losses>>

(* purgeSyncedSessionData: what is synced by now goes, the row and the      *)
(* answer; a dead letter stays, and the blobs' table is left alone.         *)
PurgeSynced ==
    /\ upload = "purge" /\ upload' = "idle"
    /\ fileSession' = IF sessionSynced THEN "purged" ELSE fileSession
    /\ answer' = IF answerSynced THEN NoAnswer ELSE answer
    /\ UNCHANGED <<blobVars, chosen, shipVars, markVars, serverVars, uploadVars, adrift,
                   losses>>

(* The request fails, or its answer is lost: it may still arrive.           *)
AnswerRequestFails ==
    /\ upload \in {"await", "mark"} /\ losses < MaxLosses /\ losses' = losses + 1
    /\ upload' = "failed" /\ sending' = NoAnswer
    /\ adrift' = IF upload = "await" /\ sending # NoAnswer THEN adrift \cup {sending} ELSE adrift
    /\ UNCHANGED <<blobVars, formVars, shipVars, markVars, serverVars, toUpload, uploading,
                   stillPinned, finished>>

(* registerSessionFailure: an attempt for an unsynced row that was never    *)
(* acknowledged, whether or not this drain sent it.                         *)
RegisterFailure ==
    /\ upload = "failed" /\ upload' = "burned"
    /\ answerTries' = IF AnswerShippable /\ ~answerAcked THEN answerTries + 1 ELSE answerTries
    /\ UNCHANGED <<blobVars, formVars, answerSynced, answerAcked, markVars, serverVars,
                   uploadVars, adrift, losses>>

(* escalateSessionIfFullyDead: with no answer left to ship the session's    *)
(* row is marked synced, read first and written then.                       *)
CheckFullyDead ==
    /\ upload = "burned" /\ upload' = IF AnswerShippable THEN "idle" ELSE "giveup"
    /\ UNCHANGED <<blobVars, formVars, shipVars, markVars, serverVars, uploadVars, adrift,
                   losses>>

GiveUp ==
    /\ upload = "giveup" /\ upload' = "idle" /\ sessionSynced' = TRUE
    /\ stranded' = (stranded \/ LeftBehind)
    /\ UNCHANGED <<blobVars, formVars, shipVars, rearms, serverVars, uploadVars, adrift,
                   losses>>

(* The page goes away, the form's value and the drain with it.              *)
LosePage ==
    /\ upload # "idle" \/ chosen # {}
    /\ losses < MaxLosses /\ losses' = losses + 1
    /\ chosen' = {} /\ upload' = "idle"
    /\ adrift' = IF upload = "await" /\ sending # NoAnswer THEN adrift \cup {sending} ELSE adrift
    /\ stranded' = (stranded \/ (sessionSynced /\ LeftBehind))
    /\ toUpload' = {} /\ uploading' = NoFile /\ sending' = NoAnswer
    /\ UNCHANGED <<blobVars, answer, fileSession, shipVars, sessionSynced, rearms,
                   serverVars, stillPinned, finished>>

LateAnswer ==
    \E a \in adrift :
        /\ adrift' = adrift \ {a}
        /\ Received(a) \/ UNCHANGED heldAnswer
        /\ UNCHANGED <<blobVars, formVars, shipVars, markVars, media, upload,
                       uploadVars, losses>>

DrainFiles ==
    \/ BeginUpload \/ StoreBytes \/ RememberUrl \/ PatchAnswer \/ DeleteBlob \/ CountPinned
    \/ SendAnswer \/ ServerStores \/ MarkAnswerSynced \/ AckAnswer \/ MarkSession \/ PurgeSynced
    \/ RegisterFailure \/ CheckFullyDead \/ GiveUp
    \/ \E f \in File : NextBlob(f)

BinaryNext ==
    \/ \E f \in File : CaptureFile(f) \/ RemoveFile(f)
    \/ CommitFiles \/ RearmSession \/ CompleteRun \/ DrainFiles
    \/ UploadFails \/ AnswerRequestFails \/ LosePage \/ LateAnswer

BinarySpec == BinaryInit /\ [][BinaryNext]_binaryVars

-----------------------------------------------------------------------------
(* The bytes of a file the answer refers to, on the device or on the        *)
(* server, are never in neither place, whatever step the drain stops at.    *)
BytesAreHeld ==
    \A a \in ({answer, heldAnswer} \cup adrift) \ {NoAnswer} :
        \A f \in a.files : f \in Pinned \/ f \in media

(* A purge, of the session's row or of the answer's, finds the bytes of     *)
(* every file the participant committed on the server and named in the      *)
(* answer, although the answer may have been sent before the bytes were;    *)
(* and the answer goes only if the server has this very version of it,      *)
(* although older ones may arrive late.  One that stays is a dead letter.   *)
PurgedAnswerNamesItsBytes ==
    [][answer # NoAnswer
       /\ (answer' = NoAnswer \/ (fileSession # "purged" /\ fileSession' = "purged")) =>
            /\ ~IsPending(answer) /\ answer.files \subseteq media
            /\ IF answer' = NoAnswer THEN heldAnswer = answer
               ELSE answer' = answer /\ AnswerDead]_binaryVars

(* A completed session leaves the device, unless a file was pinned and not  *)
(* committed (nothing deletes its blob), or its row is marked synced, not   *)
(* purged, and nothing is left that would bring it into a drain: by a drain *)
(* that had read the session before it was completed, or that gave up on    *)
(* it, or when the page was lost between the mark and the purge.            *)
Strays == Pinned \ (IF answer = NoAnswer THEN {} ELSE answer.files)
CompletedRunIsPurged ==
    fileSession = "completed" ~> fileSession = "purged" \/ Strays # {} \/ stranded
=============================================================================
