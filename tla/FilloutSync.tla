----------------------------- MODULE FilloutSync -----------------------------
(***************************************************************************)
(* The offline-first path of one fillout session: the participant's device *)
(* (IndexedDB rows, the sync-integrity ledger, the session row), the upload*)
(* engines that drain it in chunks, the network, and the server's          *)
(* transactional POST /api/sessions/{id}/sync.                             *)
(*                                                                         *)
(* A record is a response, an interaction event or a trial: the three are  *)
(* written once under a fresh client id, shipped, acknowledged, marked and *)
(* purged by the same code, so the model does not tell them apart.         *)
(* Variables (rewritten in place) and binaries (two-phase) are not here.   *)
(*                                                                         *)
(* One step is the code between two awaits that touch shared state.        *)
(***************************************************************************)
EXTENDS Naturals, FiniteSets

CONSTANTS
    Rec,                  \* records, named by their client id
    Engine,               \* FilloutUploadSync instances of the page
    Poison,               \* records the server may refuse for good
    OverMarked,           \* records an older client may have over-marked
    WebLocks,             \* TRUE when navigator.locks exists
    DEAD_LETTER_ATTEMPTS, \* failed attempts before a record is escalated
    MaxMeta,              \* bound: rewrites of the session row's metadata
    MaxFail,              \* bound: transport failures
    MaxCrash,             \* bound: tab crashes
    MaxLate               \* bound: abandoned requests still under way

ASSUME ConstantsAssumption ==
    /\ Poison \subseteq Rec
    /\ OverMarked \subseteq Rec
    /\ WebLocks \in BOOLEAN
    /\ DEAD_LETTER_ATTEMPTS \in Nat \ {0}
    /\ MaxMeta \in Nat /\ MaxFail \in Nat /\ MaxCrash \in Nat /\ MaxLate \in Nat

VARIABLES
    \* IndexedDB: survives a crash
    row,       \* [Rec -> RowState]: the record's own row and its synced flag
    ledger,    \* [Rec -> LedgerState]: its SyncLedger row
    attempts,  \* [Rec -> Nat]: the ledger row's attempt count
    sess,      \* the filloutSessions row
    \* the page: lost in a crash
    saving,    \* rows added whose SyncLedger.enqueue has not run yet
    finish,    \* progress of the runtime's completion handler
    pc,        \* [Engine -> step of the drain]
    seen,      \* [Engine -> session object collected at the drain's start]
    snap,      \* [Engine -> records read for this drain]
    todo,      \* [Engine -> records of snap not acknowledged yet]
    sent,      \* [Engine -> records of the chunk in flight]
    acc,       \* [Engine -> acceptedIds accumulated over the chunks]
    reply,     \* [Engine -> fate of the chunk in flight]
    \* network and server
    late,      \* requests whose client gave up, not yet at the server
    held,      \* records the server durably holds, by client id
    srv,       \* the server's sessions row
    \* environment
    poison,    \* the records the server refuses in this behaviour
    fails, crashes

deviceVars == <<row, ledger, attempts, sess>>
pageVars   == <<saving, finish>>
engineVars == <<pc, seen, snap, todo, sent, acc, reply>>
serverVars == <<late, held, srv>>
envVars    == <<poison, fails, crashes>>
vars == <<deviceVars, pageVars, engineVars, serverVars, envVars>>

-----------------------------------------------------------------------------
RowState    == {"absent", "unsynced", "synced", "purged"}
LedgerState == {"none", "pending", "acked", "deadletter"}
FinishState == {"running", "merged", "patched", "done"}
Step        == {"idle", "reconcile", "read", "await",
                "markLedger", "markSession", "purge", "escalate"}

SessionRow == [present : BOOLEAN, completed : BOOLEAN,
               meta : 0..MaxMeta, synced : BOOLEAN]
ServerRow  == [exists : BOOLEAN, completed : BOOLEAN, meta : 0..MaxMeta]
Seen       == [init : BOOLEAN, completed : BOOLEAN, meta : 0..MaxMeta]
NoSession  == [init |-> FALSE, completed |-> FALSE, meta |-> 0]

(* One POST /sync.  rest is not on the wire: it names the records that the *)
(* drain's other chunks carry, for the properties below.                   *)
Request == [recs : SUBSET Rec, init : BOOLEAN, meta : 0..MaxMeta,
            status : BOOLEAN, rest : SUBSET Rec]

TypeOK ==
    /\ row \in [Rec -> RowState]
    /\ ledger \in [Rec -> LedgerState]
    /\ attempts \in [Rec -> 0..DEAD_LETTER_ATTEMPTS]
    /\ sess \in SessionRow
    /\ saving \in SUBSET Rec
    /\ finish \in FinishState
    /\ pc \in [Engine -> Step]
    /\ seen \in [Engine -> Seen]
    /\ snap \in [Engine -> SUBSET Rec]
    /\ todo \in [Engine -> SUBSET Rec]
    /\ sent \in [Engine -> SUBSET Rec]
    /\ acc \in [Engine -> SUBSET Rec]
    /\ reply \in [Engine -> {"none", "ok", "refused", "lost"}]
    /\ late \in SUBSET Request
    /\ held \in SUBSET Rec
    /\ srv \in ServerRow
    /\ poison \in SUBSET Poison
    /\ fails \in 0..MaxFail
    /\ crashes \in 0..MaxCrash

Unsynced == {r \in Rec : row[r] = "unsynced"}
Dead     == {r \in Rec : ledger[r] = "deadletter"}
Acked    == {r \in Rec : ledger[r] = "acked"}

(* getUnsynced*: a dead-lettered row keeps synced = 0 but is not shipped. *)
FaultyShippable == Unsynced
Shippable == Unsynced \ Dead
(* collectSessionsToSync finds the session: its row is unsynced, or one of *)
(* its records is, the row's own flag notwithstanding.                     *)
FaultyNeedsDrain == sess.present /\ ~sess.synced
NeedsDrain == (sess.present /\ ~sess.synced) \/ Shippable # {}

(* An operator named Faulty... is a plausible bug in the one that follows  *)
(* it.  Nothing uses it: it says which slip the properties would notice.   *)
-----------------------------------------------------------------------------
(* A session is created on the device (offline: row unsynced, nothing on   *)
(* the server) or on the server (online: pin row written as synced).  An   *)
(* older client may have marked rows whose chunk the server answered       *)
(* without storing them; its session is on the server.                     *)
Init ==
    /\ \E online \in BOOLEAN, over \in SUBSET OverMarked :
          /\ over # {} => online
          /\ row = [r \in Rec |-> IF r \in over THEN "synced" ELSE "absent"]
          /\ ledger = [r \in Rec |-> IF r \in over THEN "acked" ELSE "none"]
          /\ sess = [present |-> TRUE, completed |-> FALSE,
                     meta |-> 0, synced |-> online]
          /\ srv = [exists |-> online, completed |-> FALSE, meta |-> 0]
    /\ attempts = [r \in Rec |-> 0]
    /\ saving = {}
    /\ finish = "running"
    /\ pc = [e \in Engine |-> "idle"]
    /\ seen = [e \in Engine |-> NoSession]
    /\ snap = [e \in Engine |-> {}]
    /\ todo = [e \in Engine |-> {}]
    /\ sent = [e \in Engine |-> {}]
    /\ acc = [e \in Engine |-> {}]
    /\ reply = [e \in Engine |-> "none"]
    /\ late = {}
    /\ held = {}
    /\ poison \in SUBSET Poison
    /\ fails = 0
    /\ crashes = 0
-----------------------------------------------------------------------------
(***************************************************************************)
(* The participant's page.                                                 *)
(***************************************************************************)

(* saveResponse / saveEvent / saveTrial, up to the write-verify: the row   *)
(* is durable, the ledger does not know it yet.                            *)
SaveRow(r) ==
    /\ row[r] = "absent"
    /\ row' = [row EXCEPT ![r] = "unsynced"]
    /\ saving' = saving \cup {r}
    /\ UNCHANGED <<ledger, attempts, sess, finish, engineVars, serverVars, envVars>>

(* SyncLedger.enqueue: keeps an acked row, keeps the attempts of any other.*)
Enqueue(r) ==
    /\ r \in saving
    /\ saving' = saving \ {r}
    /\ ledger' = [ledger EXCEPT ![r] = IF @ = "acked" THEN "acked" ELSE "pending"]
    /\ UNCHANGED <<row, attempts, sess, finish, engineVars, serverVars, envVars>>

(* updateProgress, updateResumeState, mergeMetadata: rewrite the session   *)
(* row and re-arm it; no-op once the row is gone.                          *)
RearmedRow == [sess EXCEPT !.meta = @ + 1, !.synced = FALSE]
UpdateProgress ==
    /\ sess.present
    /\ sess.meta < MaxMeta
    /\ sess' = RearmedRow
    /\ UNCHANGED <<row, ledger, attempts, pageVars, engineVars, serverVars, envVars>>

(* FilloutRuntime.handleComplete, first part: mergeMetadata(qualityReport).*)
MergeCompletion ==
    /\ finish = "running"
    /\ finish' = "merged"
    /\ sess.present => sess.meta < MaxMeta
    /\ sess' = IF sess.present THEN RearmedRow ELSE sess
    /\ UNCHANGED <<row, ledger, attempts, saving, engineVars, serverVars, envVars>>

(* persistenceService.completeSession: after a flush that may be a no-op,  *)
(* a direct PATCH status=completed whose failure is only logged.           *)
PatchCompleted ==
    /\ finish = "merged"
    /\ finish' = "patched"
    /\ srv' \in {srv} \cup (IF srv.exists THEN {[srv EXCEPT !.completed = TRUE]} ELSE {})
    /\ UNCHANGED <<deviceVars, saving, engineVars, late, held, envVars>>

(* FilloutPageController.handleComplete: offlineSession.completeSession.   *)
CompleteSession ==
    /\ finish = "patched"
    /\ finish' = "done"
    /\ sess' = IF sess.present
               THEN [sess EXCEPT !.completed = TRUE, !.synced = FALSE]
               ELSE sess
    /\ UNCHANGED <<row, ledger, attempts, saving, engineVars, serverVars, envVars>>
-----------------------------------------------------------------------------
(***************************************************************************)
(* The drain.                                                              *)
(***************************************************************************)

(* The locals of a drain that returned (or died). *)
Return(e) ==
    /\ pc' = [pc EXCEPT ![e] = "idle"]
    /\ seen' = [seen EXCEPT ![e] = NoSession]
    /\ snap' = [snap EXCEPT ![e] = {}]
    /\ todo' = [todo EXCEPT ![e] = {}]
    /\ sent' = [sent EXCEPT ![e] = {}]
    /\ acc' = [acc EXCEPT ![e] = {}]
    /\ reply' = [reply EXCEPT ![e] = "none"]

(* syncNow + collectSessionsToSync: needs the lock where there is one. The *)
(* session object read here is used until the drain ends; without a local  *)
(* row it is a stub with no init fields and status active.                 *)
StartDrain(e) ==
    /\ pc[e] = "idle"
    /\ WebLocks => \A o \in Engine : pc[o] = "idle"
    /\ NeedsDrain
    /\ pc' = [pc EXCEPT ![e] = "reconcile"]
    /\ seen' = [seen EXCEPT ![e] =
                  [init |-> sess.present,
                   completed |-> sess.present /\ sess.completed,
                   meta |-> IF sess.present THEN sess.meta ELSE 0]]
    /\ UNCHANGED <<deviceVars, pageVars, snap, todo, sent, acc, reply,
                   serverVars, envVars>>

(* SyncLedger.reconcile: locally acked, unknown to the server: re-queued.  *)
FaultyMissing == {r \in Acked \ held : row[r] = "unsynced"}
Missing == Acked \ held
Reconcile(e) ==
    /\ pc[e] = "reconcile"
    /\ pc' = [pc EXCEPT ![e] = "read"]
    /\ ledger' = [r \in Rec |-> IF r \in Missing THEN "pending" ELSE ledger[r]]
    /\ row' = [r \in Rec |-> IF r \in Missing /\ row[r] = "synced"
                             THEN "unsynced" ELSE row[r]]
    /\ UNCHANGED <<attempts, sess, pageVars, seen, snap, todo, sent, acc, reply,
                   serverVars, envVars>>

(* The probe fails: the drain goes on without it. *)
ReconcileSkipped(e) ==
    /\ pc[e] = "reconcile"
    /\ Acked # {}
    /\ fails < MaxFail
    /\ fails' = fails + 1
    /\ pc' = [pc EXCEPT ![e] = "read"]
    /\ UNCHANGED <<deviceVars, pageVars, seen, snap, todo, sent, acc, reply,
                   serverVars, poison, crashes>>

(* getUnsyncedResponses / Events / Trials, then planChunks.  A chunk is     *)
(* what fits the byte budget: any non-empty part of what is left; an empty *)
(* drain still makes one call.                                             *)
NextChunk(left) == {c \in SUBSET left : c = {} => left = {}}
ReadRecords(e) ==
    /\ pc[e] = "read"
    /\ pc' = [pc EXCEPT ![e] = "await"]
    /\ snap' = [snap EXCEPT ![e] = Shippable]
    /\ todo' = [todo EXCEPT ![e] = Shippable]
    /\ \E c \in NextChunk(Shippable) : sent' = [sent EXCEPT ![e] = c]
    /\ UNCHANGED <<deviceVars, pageVars, seen, acc, reply, serverVars, envVars>>

(* The payload: session init on the first chunk, status on the last.       *)
IsFirst(e) == todo[e] = snap[e]
IsLast(e)  == todo[e] = sent[e]
FaultyCompletes(e) == seen[e].completed
Completes(e) == IsLast(e) /\ seen[e].completed
RequestOf(e) ==
    [recs   |-> sent[e],
     init   |-> IsFirst(e) /\ seen[e].init,
     meta   |-> seen[e].meta,
     status |-> Completes(e),
     rest   |-> snap[e] \ sent[e]]

(* result.accepted_client_ids arrives and the next chunk goes out.         *)
ReceiveAck(e) ==
    /\ pc[e] = "await"
    /\ reply[e] = "ok"
    /\ ~IsLast(e)
    /\ acc' = [acc EXCEPT ![e] = @ \cup sent[e]]
    /\ todo' = [todo EXCEPT ![e] = @ \ sent[e]]
    /\ \E c \in NextChunk(todo[e] \ sent[e]) : sent' = [sent EXCEPT ![e] = c]
    /\ reply' = [reply EXCEPT ![e] = "none"]
    /\ UNCHANGED <<deviceVars, pageVars, pc, seen, snap, serverVars, envVars>>

(* The last one arrives: markResponsesSynced / markEventsSynced /          *)
(* markTrialsSynced flip only the rows the server echoed; a row that is    *)
(* gone is not brought back.                                               *)
Accepted(e) == acc[e] \cup sent[e]
FaultyMarked(e) == Unsynced
Marked(e) == {r \in snap[e] \cap Accepted(e) : row[r] = "unsynced"}
MarkRows(e) ==
    /\ pc[e] = "await"
    /\ reply[e] = "ok"
    /\ IsLast(e)
    /\ pc' = [pc EXCEPT ![e] = "markLedger"]
    /\ acc' = [acc EXCEPT ![e] = Accepted(e)]
    /\ row' = [r \in Rec |-> IF r \in Marked(e) THEN "synced" ELSE row[r]]
    /\ todo' = [todo EXCEPT ![e] = {}]
    /\ sent' = [sent EXCEPT ![e] = {}]
    /\ reply' = [reply EXCEPT ![e] = "none"]
    /\ UNCHANGED <<ledger, attempts, sess, pageVars, seen, snap, serverVars, envVars>>

(* The connection breaks.  Whether the server has, has not or will still   *)
(* run the request is not known to the client.                             *)
Abandoned(e) ==
    IF reply[e] = "none" /\ Cardinality(late) < MaxLate THEN {RequestOf(e)} ELSE {}
ConnectionLost(e) ==
    /\ pc[e] = "await"
    /\ reply[e] \in {"none", "ok"}
    /\ fails < MaxFail
    /\ fails' = fails + 1
    /\ reply' = [reply EXCEPT ![e] = "lost"]
    /\ late' = late \cup Abandoned(e)
    /\ UNCHANGED <<deviceVars, pageVars, pc, seen, snap, todo, sent, acc,
                   held, srv, poison, crashes>>

(* SyncLedger.markAttempt on a set of records: acked and dead-lettered     *)
(* rows and records without a ledger row are skipped.                      *)
FaultyTried(S) == {r \in S : ledger[r] = "acked"}
Tried(S) == {r \in S : ledger[r] = "pending"}
AttemptsAfter(S) ==
    [r \in Rec |-> IF r \in Tried(S) THEN attempts[r] + 1 ELSE attempts[r]]
FaultyExhausted(r) == attempts[r] + 1 > DEAD_LETTER_ATTEMPTS
Exhausted(r) == attempts[r] + 1 >= DEAD_LETTER_ATTEMPTS
LedgerAfter(S) ==
    [r \in Rec |-> IF r \in Tried(S) /\ Exhausted(r) THEN "deadletter" ELSE ledger[r]]

(* SyncLedger.markAcked on the accepted ids, markAttempt on the others. A  *)
(* dead-lettered row the server acknowledges after all becomes acked.      *)
MarkLedger(e) ==
    LET rejected == snap[e] \ acc[e] IN
    /\ pc[e] = "markLedger"
    /\ pc' = [pc EXCEPT ![e] = "markSession"]
    /\ attempts' = AttemptsAfter(rejected)
    /\ ledger' = [r \in Rec |-> IF r \in acc[e] /\ ledger[r] # "none"
                                THEN "acked" ELSE LedgerAfter(rejected)[r]]
    /\ UNCHANGED <<row, sess, pageVars, seen, snap, todo, sent, acc, reply,
                   serverVars, envVars>>

(* OfflineSessionService.markSynced, only after a drain without rejects;   *)
(* the purge follows when the collected session object was completed.      *)
FullyDrained(e) == snap[e] \subseteq acc[e]
FaultyMayPurge(e) == FullyDrained(e)
MayPurge(e) == FullyDrained(e) /\ seen[e].completed
MarkSession(e) ==
    /\ pc[e] = "markSession"
    /\ sess' = IF sess.present /\ FullyDrained(e)
               THEN [sess EXCEPT !.synced = TRUE] ELSE sess
    /\ IF MayPurge(e)
       THEN /\ pc' = [pc EXCEPT ![e] = "purge"]
            /\ UNCHANGED <<seen, snap, todo, sent, acc, reply>>
       ELSE Return(e)
    /\ UNCHANGED <<row, ledger, attempts, pageVars, serverVars, envVars>>

(* db.purgeSyncedSessionData, one IndexedDB transaction. *)
FaultyPurgeable == {r \in Rec : row[r] # "absent"}
Purgeable == {r \in Rec : row[r] = "synced"}
PurgeSynced(e) ==
    /\ pc[e] = "purge"
    /\ row' = [r \in Rec |-> IF r \in Purgeable THEN "purged" ELSE row[r]]
    /\ sess' = IF sess.synced THEN [sess EXCEPT !.present = FALSE] ELSE sess
    /\ Return(e)
    /\ UNCHANGED <<ledger, attempts, pageVars, serverVars, envVars>>

(* api.sessions.sync threw (refused, or the connection broke):             *)
(* registerSessionFailure burns an attempt against every unsynced record.  *)
RegisterFailure(e) ==
    /\ pc[e] = "await"
    /\ reply[e] \in {"refused", "lost"}
    /\ pc' = [pc EXCEPT ![e] = "escalate"]
    /\ attempts' = AttemptsAfter(Unsynced)
    /\ ledger' = LedgerAfter(Unsynced)
    /\ UNCHANGED <<row, sess, pageVars, seen, snap, todo, sent, acc, reply,
                   serverVars, envVars>>

(* escalateSessionIfFullyDead: nothing shippable left, stop retrying. *)
Escalate(e) ==
    /\ pc[e] = "escalate"
    /\ sess' = IF sess.present /\ Shippable = {}
               THEN [sess EXCEPT !.synced = TRUE] ELSE sess
    /\ Return(e)
    /\ UNCHANGED <<row, ledger, attempts, pageVars, serverVars, envVars>>
-----------------------------------------------------------------------------
(***************************************************************************)
(* The server: sync_session is one database transaction.                   *)
(***************************************************************************)

(* A request without init fields needs the session to be there (404), and  *)
(* one refused row rolls the whole transaction back.  ON CONFLICT          *)
(* (client_id): a record that is there is not inserted again.              *)
Admits(q) == (q.init \/ srv.exists) /\ q.recs \cap poison = {}
Commit(q) ==
    /\ held' = held \cup q.recs
    /\ srv' = [exists    |-> TRUE,
               completed |-> srv.completed \/ q.status,
               meta      |-> IF q.init THEN q.meta ELSE srv.meta]

ServerSync(e) ==
    /\ pc[e] = "await"
    /\ reply[e] = "none"
    /\ \/ /\ Admits(RequestOf(e))
          /\ Commit(RequestOf(e))
          /\ reply' = [reply EXCEPT ![e] = "ok"]
       \/ /\ ~Admits(RequestOf(e))
          /\ reply' = [reply EXCEPT ![e] = "refused"]
          /\ UNCHANGED <<held, srv>>
    /\ UNCHANGED <<deviceVars, pageVars, pc, seen, snap, todo, sent, acc, late, envVars>>

(* A request its client gave up on reaches the server after all. *)
ServerSyncLate ==
    /\ \E q \in late :
          /\ late' = late \ {q}
          /\ IF Admits(q) THEN Commit(q) ELSE UNCHANGED <<held, srv>>
    /\ UNCHANGED <<deviceVars, pageVars, engineVars, envVars>>

(* Some tabs are closed or crash, and are opened again: their engines are  *)
(* gone, IndexedDB is not.  With the participant's own tab go the pending  *)
(* ledger writes and the completion handler; a session that was not        *)
(* completed locally is resumed.  When every tab dies, that one does too.  *)
InFlight(dead) == UNION {Abandoned(e) : e \in {o \in dead : pc[o] = "await"}}
Died(dead, locals, initial) ==
    [e \in Engine |-> IF e \in dead THEN initial ELSE locals[e]]
Crash ==
    /\ crashes < MaxCrash
    /\ crashes' = crashes + 1
    /\ \E dead \in SUBSET Engine \ {{}} :
          /\ pc' = Died(dead, pc, "idle")
          /\ seen' = Died(dead, seen, NoSession)
          /\ snap' = Died(dead, snap, {})
          /\ todo' = Died(dead, todo, {})
          /\ sent' = Died(dead, sent, {})
          /\ acc' = Died(dead, acc, {})
          /\ reply' = Died(dead, reply, "none")
          /\ late' = IF Cardinality(late \cup InFlight(dead)) <= MaxLate
                     THEN late \cup InFlight(dead) ELSE late
          /\ \/ /\ saving' = {}
                /\ finish' = IF sess.present /\ ~sess.completed THEN "running" ELSE "done"
             \/ /\ dead # Engine /\ \A e \in dead : pc[e] # "idle"
                /\ UNCHANGED pageVars
    /\ UNCHANGED <<deviceVars, held, srv, poison, fails>>
-----------------------------------------------------------------------------
Page ==
    \/ \E r \in Rec : SaveRow(r) \/ Enqueue(r)
    \/ UpdateProgress \/ MergeCompletion \/ PatchCompleted \/ CompleteSession

(* What an engine does on its own once started, the server included. *)
Drain(e) ==
    \/ StartDrain(e)
    \/ Reconcile(e)
    \/ ReadRecords(e)
    \/ ServerSync(e)
    \/ ReceiveAck(e)
    \/ MarkRows(e)
    \/ MarkLedger(e)
    \/ MarkSession(e)
    \/ PurgeSynced(e)
    \/ RegisterFailure(e)
    \/ Escalate(e)

Disturb ==
    \/ \E e \in Engine : ReconcileSkipped(e) \/ ConnectionLost(e)
    \/ ServerSyncLate
    \/ Crash

Next == Page \/ (\E e \in Engine : Drain(e)) \/ Disturb

Spec == Init /\ [][Next]_vars

(* Weak fairness of every step the page's own code takes once it is under  *)
(* way: an awaited IndexedDB write returns, the 5 s interval of            *)
(* ResponsePersistenceService and the retry timer start the next drain, a  *)
(* request that no failure takes is answered.  Nothing is assumed of the   *)
(* participant, and failures and crashes are merely bounded.               *)
Fairness ==
    /\ \A r \in Rec : WF_vars(Enqueue(r))
    /\ \A e \in Engine : WF_vars(Drain(e))

FairSpec == Spec /\ Fairness
-----------------------------------------------------------------------------
(***************************************************************************)
(* Safety.                                                                 *)
(***************************************************************************)

(* What the current client wrote, as opposed to what it inherited.         *)
Tracked == Rec \ OverMarked

(* No over-marking: a record the device counts as synced, has acknowledged *)
(* in the ledger or has purged is a record the server durably holds, over  *)
(* lost replies, retries, two engines on the same rows and crashes between *)
(* the marking steps (the ack-driven marking of syncSession).              *)
NoOverMarking ==
    \A r \in Tracked :
        row[r] \in {"synced", "purged"} \/ ledger[r] = "acked" => r \in held

(* The completed status rides the last chunk: a request that completes the *)
(* session reaches the server only after every other record its drain read *)
(* has landed, however late the request itself arrives.                    *)
CompletionRidesLast ==
    /\ \A e \in Engine :
          pc[e] = "await" /\ RequestOf(e).status => RequestOf(e).rest \subseteq held
    /\ \A q \in late : q.status => q.rest \subseteq held

(* The session row leaves the device only when the server knows the        *)
(* session as completed: an in-progress session stays resumable.           *)
PurgedSessionIsCompleted == ~sess.present => srv.completed

(* FilloutSync keeps the custody of answers that AnswerCustody promises.   *)
Custody == INSTANCE AnswerCustody
           WITH Rec <- Tracked,
                onDevice <- {r \in Tracked : row[r] \in {"unsynced", "synced"}},
                onServer <- held \cap Tracked
CustodyKept == Custody!CustodySpec
-----------------------------------------------------------------------------
(***************************************************************************)
(* Liveness, under FairSpec.                                               *)
(***************************************************************************)

(* With a server that refuses nothing and fewer transport failures than    *)
(* the dead-letter budget, every record that became durable on the device  *)
(* reaches the server, crashes and a missing ledger row notwithstanding.   *)
EveryAnswerDelivered ==
    \A r \in Rec : row[r] = "unsynced" /\ poison = {} ~> r \in held

(* Whatever the server refuses, a record the ledger knows ends on the      *)
(* server or in the dead-letter state that alerts a human.                 *)
DeliveredOrEscalated ==
    \A r \in Tracked : ledger[r] = "pending" ~> r \in held \/ ledger[r] = "deadletter"

(* The retry loop settles: as long as no durable row is without its ledger *)
(* row, the engines eventually have nothing left to do.                    *)
Quiet == ~NeedsDrain /\ \A e \in Engine : pc[e] = "idle"
LedgerComplete == \A r \in Unsynced : ledger[r] # "none" \/ r \in saving
RetryLoopSettles == []LedgerComplete => <>[]Quiet

(* A record an older client marked without an ack is found and shipped     *)
(* once a drain starts while its row is on the device, when neither probe  *)
(* nor upload fails and nothing is refused.                                *)
OverMarkedRecovered ==
    \A r \in OverMarked :
        [](fails = 0 /\ poison = {})
        /\ <>(row[r] = "synced" /\ \E e \in Engine : pc[e] = "reconcile")
            => <>(r \in held)
-----------------------------------------------------------------------------
(***************************************************************************)
(* What comments in the source say and the code does not keep.             *)
(***************************************************************************)

(* "re-arm synced:0 so FilloutUploadSync ships it" (FilloutRuntime): a     *)
(* session row that counts as synced is the one the server was sent.       *)
SyncedRowIsShipped ==
    sess.present /\ sess.synced =>
        /\ srv.meta = sess.meta
        /\ sess.completed => srv.completed

(* "Drop a session out of the retry set once it can never make progress:   *)
(* every one of its unsynced records is already escalated": a failed drain *)
(* gives a session up only over escalated records.                         *)
GivenUpOnlyWhenDead ==
    [][\A e \in Engine :
          pc[e] = "escalate" /\ sess'.synced /\ ~sess.synced
              => Unsynced \cap Dead # {}]_vars

(* "acked once the server durably holds it, deadletter after K failed      *)
(* attempts": a record escalated as not submitted is not on the server.    *)
DeadLetterNotHeld ==
    [][\A r \in Rec :
          ledger[r] # "deadletter" /\ ledger'[r] = "deadletter" => r \notin held]_vars
=============================================================================
