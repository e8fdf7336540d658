--------------------------- MODULE AnswerStorage ---------------------------
(* An answer on its way from the runtime into IndexedDB (FilloutRuntime),   *)
(* the halt when the write fails, the participant's retry, and the resume   *)
(* after a reload, which reads two things the run stored independently:     *)
(* the answers and the ResumeState snapshot.  Questions are asked in order; *)
(* QuestionnaireFlow has the rest of the runtime.                           *)
EXTENDS Naturals, FiniteSets, FiniteSetsExt

CONSTANTS
    LastQuestion,   \* questions 1 .. LastQuestion
    NoSnapshot,
    MaxFail,        \* bound: failed durable writes
    MaxLoads        \* bound: loads of the page

Asked == 1 .. LastQuestion

ASSUME StorageAssumption ==
    LastQuestion \in Nat \ {0} /\ MaxFail \in Nat /\ MaxLoads \in Nat \ {0}

VARIABLES
    cursor,      \* the question on the screen, LastQuestion + 1 past the last
    ended,       \* the runtime has called complete()
    halted,      \* runtime.isPaused
    given,       \* session.responses of this runtime
    answering,   \* questions answered since this load
    saving,      \* answers whose saveResponse has not settled
    copies,      \* intact rows stored for a question
    corrupt,     \* questions with a row that failed its write-verify
    unstored,    \* unstoredResponses
    placeholder, \* questions with a synthetic dead letter in the ledger
    retrying, queued, stillUnstored,  \* retryFailedPersistence in progress
    unlogged,    \* history: since this load, no dead letter could be stored for
    overwritten, \* history: since this load, dropped by a retry, not stored
    captured,    \* the ResumeState handed to updateResumeState, not stored yet
    storedCursor,    \* the stored ResumeState
    fails, loads

runVars == <<cursor, ended, halted, given, answering>>
rowVars == <<saving, copies, corrupt>>
lostVars == <<unlogged, overwritten>>
haltVars == <<unstored, placeholder, retrying, queued, stillUnstored, lostVars>>
snapshotVars == <<captured, storedCursor>>
storageVars == <<runVars, rowVars, haltVars, snapshotVars, fails, loads>>

Snapshot == [at : Asked, presented : SUBSET Asked]

StorageTypeOK ==
    /\ cursor \in 1 .. LastQuestion + 1 /\ ended \in BOOLEAN /\ halted \in BOOLEAN
    /\ given \subseteq Asked /\ answering \subseteq Asked /\ saving \subseteq Asked
    /\ copies \in [Asked -> Nat] /\ corrupt \subseteq Asked
    /\ unstored \subseteq Asked /\ placeholder \subseteq Asked
    /\ unlogged \subseteq Asked /\ overwritten \subseteq Asked
    /\ retrying \in BOOLEAN /\ queued \subseteq Asked /\ stillUnstored \subseteq Asked
    /\ captured \in Snapshot \cup {NoSnapshot} /\ storedCursor \in Snapshot \cup {NoSnapshot}
    /\ fails \in 0 .. MaxFail /\ loads \in 1 .. MaxLoads

StorageInit ==
    /\ cursor = 1 /\ ended = FALSE /\ halted = FALSE /\ given = {} /\ answering = {}
    /\ saving = {} /\ copies = [q \in Asked |-> 0] /\ corrupt = {}
    /\ unstored = {} /\ placeholder = {} /\ unlogged = {} /\ overwritten = {}
    /\ retrying = FALSE /\ queued = {} /\ stillUnstored = {}
    /\ captured = NoSnapshot /\ storedCursor = NoSnapshot
    /\ fails = 0 /\ loads = 1

(* The rows a load of the page finds, intact or not.                        *)
Stored == {q \in Asked : copies[q] > 0} \cup corrupt

(* An answer is committed: its write is started, the resume state captured  *)
(* and handed on, and the runtime is at the next question before either is  *)
(* stored.  After the last question it completes.                           *)
CommitAnswer ==
    /\ ~halted /\ ~ended /\ cursor \in Asked
    /\ given' = given \cup {cursor} /\ answering' = answering \cup {cursor}
    /\ saving' = saving \cup {cursor}
    /\ captured' = [at |-> cursor, presented |-> given']
    /\ cursor' = cursor + 1 /\ ended' = (cursor = LastQuestion)
    /\ UNCHANGED <<halted, copies, corrupt, haltVars, storedCursor, fails, loads>>

StoreSnapshot ==
    /\ captured # NoSnapshot
    /\ storedCursor' = captured /\ captured' = NoSnapshot
    /\ UNCHANGED <<runVars, rowVars, haltVars, fails, loads>>

(* saveResponse: the row is added, re-read, verified and entered in the     *)
(* ledger.                                                                  *)
StoreAnswer(q) ==
    /\ q \in saving
    /\ saving' = saving \ {q} /\ copies' = [copies EXCEPT ![q] = @ + 1]
    /\ UNCHANGED <<runVars, corrupt, haltVars, snapshotVars, fails, loads>>

(* A write throws: no row, or a row that does not verify.                   *)
WriteThrows(q) ==
    /\ fails < MaxFail /\ fails' = fails + 1
    /\ corrupt' \in {corrupt, corrupt \cup {q}}

(* handlePersistenceFailure: halt (nothing to halt after completion), list  *)
(* the payload, put a dead letter in the ledger, show the blocking screen.  *)
(* The ledger is in the database that just failed: its write may fail too,  *)
(* which is logged and otherwise ignored.                                   *)
FailAnswer(q) ==
    /\ q \in saving /\ WriteThrows(q)
    /\ saving' = saving \ {q}
    /\ halted' = (halted \/ ~ended)
    /\ unstored' = unstored \cup {q}
    /\ \/ placeholder' = placeholder \cup {q} /\ UNCHANGED unlogged
       \/ unlogged' = unlogged \cup {q} /\ UNCHANGED placeholder
    /\ UNCHANGED <<cursor, ended, given, answering, copies, retrying, queued, stillUnstored,
                   overwritten, snapshotVars, loads>>

(* retryFailedPersistence walks a copy of the list, one awaited write after *)
(* another, and at the end replaces the list by what failed again.          *)
StartRetry ==
    /\ unstored # {} /\ ~retrying
    /\ retrying' = TRUE /\ queued' = unstored /\ stillUnstored' = {}
    /\ UNCHANGED <<runVars, rowVars, unstored, placeholder, lostVars, snapshotVars, fails,
                   loads>>

(* An answer that is stored now loses its dead letter, if the ledger obeys. *)
RetryStores(q) ==
    /\ q \in queued
    /\ queued' = queued \ {q} /\ placeholder' \in {placeholder, placeholder \ {q}}
    /\ copies' = [copies EXCEPT ![q] = @ + 1]
    /\ UNCHANGED <<runVars, saving, corrupt, unstored, retrying, stillUnstored, lostVars,
                   snapshotVars, fails, loads>>

(* An operator named Faulty... is a plausible bug in the definition that    *)
(* follows.  Nothing uses it: it says which slip the properties notice.     *)
FaultyRetryFails(q) ==
    /\ q \in queued /\ WriteThrows(q)
    /\ queued' = queued \ {q} /\ stillUnstored' = stillUnstored \cup {q}
    /\ placeholder' = placeholder \ {q}
    /\ UNCHANGED <<runVars, saving, copies, unstored, retrying, lostVars, snapshotVars, loads>>
RetryFails(q) ==
    /\ q \in queued /\ WriteThrows(q)
    /\ queued' = queued \ {q} /\ stillUnstored' = stillUnstored \cup {q}
    /\ UNCHANGED <<runVars, saving, copies, unstored, placeholder, retrying, lostVars,
                   snapshotVars, loads>>

(* The new list has no answer that failed while the older one was walked.   *)
EndRetry ==
    /\ retrying /\ queued = {}
    /\ retrying' = FALSE /\ unstored' = stillUnstored /\ stillUnstored' = {}
    /\ halted' = (halted /\ stillUnstored # {})
    /\ overwritten' = overwritten \cup {q \in unstored \ stillUnstored : copies[q] = 0}
    /\ UNCHANGED <<cursor, ended, given, answering, rowVars, placeholder, unlogged, queued,
                   snapshotVars, fails, loads>>

(* The first question at or after "from" that is not skipped.               *)
FirstAsked(from, skipped) ==
    Min({q \in from .. LastQuestion : q \notin skipped} \cup {LastQuestion + 1})

(* A reload before the end: what was in memory or in flight is gone.  With  *)
(* no stored answer a new session starts; otherwise the stored answers are  *)
(* the new run's responses, and it starts at the snapshot's position        *)
(* skipping the snapshot's items, or without one at the first question      *)
(* skipping the stored ones.                                                *)
ReloadRun ==
    /\ ~ended /\ loads < MaxLoads /\ loads' = loads + 1
    /\ halted' = FALSE /\ answering' = {} /\ saving' = {}
    /\ unstored' = {} /\ retrying' = FALSE /\ queued' = {} /\ stillUnstored' = {}
    /\ unlogged' = {} /\ overwritten' = {}
    /\ captured' = NoSnapshot
    /\ IF Stored = {}
       THEN /\ given' = {} /\ cursor' = 1 /\ ended' = FALSE
            /\ storedCursor' = NoSnapshot /\ placeholder' = {}
       ELSE /\ given' = Stored
            /\ cursor' = IF storedCursor = NoSnapshot
                         THEN FirstAsked(1, Stored)
                         ELSE FirstAsked(storedCursor.at, storedCursor.presented)
            /\ ended' = (cursor' > LastQuestion)
            /\ UNCHANGED <<storedCursor, placeholder>>
    /\ UNCHANGED <<copies, corrupt, fails>>

StorageNext ==
    \/ CommitAnswer \/ StoreSnapshot
    \/ \E q \in Asked : StoreAnswer(q) \/ FailAnswer(q) \/ RetryStores(q) \/ RetryFails(q)
    \/ StartRetry \/ EndRetry \/ ReloadRun

StorageSpec == StorageInit /\ [][StorageNext]_storageVars

-----------------------------------------------------------------------------
(* While answers are known to be unstored the run is halted.  An answer of  *)
(* this load that is neither stored nor being written is on the list of     *)
(* unstored answers, unless a retry dropped it with the older list, and is  *)
(* a dead letter in the ledger, unless the ledger refused: both records are *)
(* missing only where each failed on its own.                               *)
LossIsReported ==
    /\ unstored # {} => halted \/ ended
    /\ \A q \in answering \ saving : copies[q] = 0 =>
            q \in unstored \cup overwritten /\ q \in placeholder \cup unlogged

(* A reload goes on at the first question whose answer is not stored.       *)
ResumesAtFirstUnstored ==
    [][loads' > loads => cursor' = FirstAsked(1, Stored)]_storageVars
=============================================================================
