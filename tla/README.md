# QDesigner Modern: TLA+ models and proofs

QDesigner Modern is a platform for web questionnaires and reaction-time
experiments: a SvelteKit app (`src/apps/web`), a Rust/Axum server
(`src/apps/server`) over PostgreSQL, and shared packages (`src/packages`).
Participants fill out studies offline-first: an answer is durable in IndexedDB
before anything else happens, and reaches the server later. This directory
models the parts of the code where that promise could break.

    tlc -workers 2 -config FilloutSync_two_engines.cfg MCFilloutSync.tla
    tlc -workers 2 -config Device.cfg MCDevice.tla
    tlc -workers 2 -config Server.cfg MCServer.tla
    tlapm FilloutSync_proofs.tla

## 1. Inventory

Paths are relative to `src/apps`; F = `web/src/lib/fillout`,
A = `server/src/api`. "Where" names the module that models the component.

| Component | State | Operations | Where |
|---|---|---|---|
| Durable queue: `F/services/Offline{Response,Trial}Persistence.ts` | IndexedDB rows with a `synced` flag and a `clientId` | save, read unsynced, mark synced | FilloutSync |
| Session row: `F/services/OfflineSessionService.ts` | one row per session: status, metadata, `synced` | create, pin a server session, progress, merge metadata, complete, mark synced | FilloutSync |
| Sync ledger: `F/services/integrity/SyncLedger.ts` | per record `pending`, `acked`, `deadletter`, attempts | enqueue, markAcked, markAttempt, reconcile | FilloutSync |
| Upload engine: `F/services/FilloutUploadSync.ts` | locals of a drain, retry timer, Web Lock | collect, reconcile, chunk, send, mark, purge, escalate, retry | FilloutSync |
| Purge: `web/src/lib/services/db/indexeddb.ts` | the same tables, the session key | one transaction that deletes synced rows | FilloutSync |
| Sync endpoint: `A/sessions/sync.rs`, `server/src/middleware/fillout_rls_context.rs` | rows by `client_id`, the session, one transaction per request | materialise, insert, complete, probe | FilloutSync, QuotaCompletion |
| Quota cells: `server/migrations/00032_quota_cells.sql`, `F/services/QuotaService.ts` | counter per cell | gate, claim | QuotaCompletion |
| Session creation and arms: `A/sessions/crud.rs`, `migrations/00031_arm_assignment.sql` | sessions, participant and arm counters | number, claim an arm, insert, materialise, resume | ArmAssignment |
| Session variables: `OfflineResponsePersistence.ts`, `A/sessions/models.rs` | one row per name, rewritten in place | save, send, acknowledge by name, reconcile, purge | VariableSync |
| Binary answers: `F/services/OfflineBinaryPersistence.ts`, `A/media.rs` | pinned blob, paired response, stored bytes | capture, upload, patch, delete, send again | BinaryUpload |
| At-rest encryption: `F/services/crypto/FilloutCrypto.ts` | one key table, a cache per tab | create, load, destroy, decrypt | FilloutKeys |
| Write failures: `F/runtime/FilloutRuntime.ts` | list of unstored answers, dead letters, resume state | store, fail, halt, retry, resume | AnswerStorage |
| Questionnaire runtime: `web/src/lib/runtime/core/QuestionnaireRuntime.ts` | page, item, timers, responses, loops | navigate, show, commit, follow rules, time out, complete, resume | QuestionnaireFlow |
| Collaboration: `web/src/lib/collaboration`, `server/src/websocket` | a room per node, `yjs_state`, a copy per tab | load or seed, adopt, sync, flush, evict | YjsRoom |
| Erasure: `A/gdpr.rs`, `migrations/00060_pending_object_deletions.sql`, `A/media.rs` | objects, rows that name them, the ledger of deletions | upload, collect, stage, destroy, purge, retry, sweep | ErasureLedger |
| Content cache: `F/services/FilloutContentCache.ts`, `web/src/routes/(fillout)/q/[code]/+page.ts` | definition rows by version, pins of the sessions | cache, load, pin, protect, prune | ContentCache |
| Series: `A/series.rs`, `server/src/series`, `migrations/00042_study_series.sql` | enrollment with its pointer, a prompt per wave | enroll, scan, claim, mail, resolve, complete, opt out | SeriesWaves |
| Service worker: `web/static/sw.js` | queue of failed mutations | queue, answer 202, replay | DesignerSave |
| Designer: `web/src/lib/stores/designer.svelte.ts`, `services/autoSave.svelte.ts` | document, drafts, undo | edit, autosave, save, publish | DesignerSave (without undo and drafts) |
| Authentication: `server/src/auth/session.rs`, `A/auth.rs` | sessions, tokens, login states | create, rotate, revoke, expire | not modelled |
| Organizations, projects, roles, media library, analytics, SSO/SCIM | relational rows | CRUD under row-level security | not modelled |
| Reaction engine | frame timing | real time | not modelled |

How they interact. The runtime writes rows and ledger entries, then asks the
upload engine for a drain; an interval, the `online` event and a retry timer ask
too, and every tab has an engine. A drain reads the session row once, asks the
server which acknowledged records it lacks (reconcile), reads the unsynced
records, sends them in chunks and, after the last answer, marks rows, ledger and
session row in separate IndexedDB writes; a completed session is then purged.
The server answers after its transaction committed. Completion is written on two
paths, a direct PATCH and the last chunk of a drain, and the second claims a
slot of the participant's quota cell in the same transaction.

Beside that path a run walks pages under four timers and stores each answer and
a resume state separately; variables are rewritten in place while an older value
is on the way; the bytes of a file travel apart from the answer that names them;
all tabs share one table of keys. On the server a create takes a number and an
arm under a row lock, an erasure destroys rows in one transaction and bytes
afterwards, and a room of the designer is loaded, flushed and evicted by the
handlers of several connections. The schedulers of all server instances scan the
same due prompts, and the page posts a wave's completion once, without waiting.
Each load of a page caches the published version and prunes the others in the
background, while other tabs start sessions pinned to one of them.

Apart from all that, an author's tab saves its questionnaire from three places,
a debounce, an autosave timer and the author's own save or publish, which
overlap; what the network refuses is queued by the service worker, answered 202
and replayed later against rows whose version history the server writes.

What is hard. The page keeps writing between any two awaits of a drain; two
tabs may drain at once; the tab may close between any two writes; an answer may
be lost after the commit; a request may arrive after its client gave up; one
refused record rolls a whole chunk back; completions race for the last slot.

What makes each component correct. Queue and engine: nothing is counted as
synced or deleted that the server does not hold, everything durable ends on the
server or in front of a human, retries end. Completion: the completed status
never overtakes an answer, the session row stays while the session is in
progress. Quota: the cap is exact, nobody who completed is missed. Run: it asks
every visible question once and ends once. Storage: no lost answer goes unseen.
Variables: the last value wins. Files: the bytes are always somewhere and the
purge leaves an answer that names them. Keys: every row can be opened. Arms:
numbers without gap or duplicate, arms balanced. Erasure: no key is forgotten,
no live object deleted, no false "complete". Rooms: one seed, no edit lost.
Series: at most one reminder of a wave, a wave counts for the session that ran
it, none is left behind. Content: a session's version stays while it needs it.
Designer: what a save stored can be found again.

## 2. Modules

**AnswerCustody** is what the store promises, without engines or
acknowledgements: an answer is captured on the device, copied to the server, and
released from the device only when the server holds it.

**FilloutSync** is the code that must keep it. A record stands for a response,
an event or a trial: the three go through the same steps.

| Variables | Code |
|---|---|
| `row` | presence and `synced` flag of a record's row (`purged` once deleted) |
| `ledger`, `attempts` | the `filloutSyncLedger` row |
| `sess` | the `filloutSessions` row; `meta` counts rewrites of its metadata |
| `saving` | a save between the row's write-verify and `SyncLedger.enqueue` |
| `finish` | how far `handleComplete` of runtime and page controller is |
| `pc`, `seen`, `snap`, `todo`, `sent`, `acc`, `reply` | the locals of one drain: where it awaits, the session object it collected, the records it read, what is left, the chunk in flight, `acceptedIds`, the fate of the request |
| `late` | requests whose client gave up and that are still under way |
| `held`, `srv` | the server's records by client id and its session row |
| `poison` | records this server refuses for good |

A step is the code between two awaits that touch shared state: `StartDrain`
(`syncNow`, `collectSessionsToSync`), `Reconcile` / `ReconcileSkipped`,
`ReadRecords` (`getUnsynced*`, `planChunks`), `ServerSync`, `ReceiveAck` (next
chunk), `MarkRows`, `MarkLedger`, `MarkSession`, `PurgeSynced`, and on a thrown
request `RegisterFailure` and `Escalate`. The page has `SaveRow`, `Enqueue`,
`UpdateProgress`, `MergeCompletion`, `PatchCompleted`, `CompleteSession`; the
surroundings `ConnectionLost`, `ServerSyncLate` and `Crash`: some tabs die, with
the participant's own page or without it; their locals are gone, what is left is
IndexedDB, the server and the tabs that live.

Abstractions. Values, names and timings are dropped; a chunk is any non-empty
part of what is left, which covers every outcome of the byte budget; timers are
"a drain may start". The server answers a chunk as a whole, as `sync_session`
does: it acknowledges all rows of a committed request or none, so the branch for
unacknowledged rows of an answered request is there and is not taken. The
fallback for a server that omits `accepted_client_ids` has the same outcome.
Reconcile's probe and its writes are one step: the set it finds only shrinks by
deliveries, and re-queueing a delivered record only sends it again. One session
is modelled; failures are isolated per session in `drain`.

**QuotaCompletion** has the participants' pages (`page`, `pin`), the committed
rows (`status`, `overflow`, `current`; `slots` counts the claims of a session,
for the properties) and the transactions under way (`tx`, `lock`, `saw`). A
transaction's writes show when it commits. `Answer` decides whether the device is
done with its completion or sends it again: the answer was lost, or a binary
answer is still pending and `syncSession` leaves the session unsynced. `Admit`
lets a participant into any cell, since occupancy may come from an old snapshot
and an author may let over-quota respondents go on.

**QuestionnaireFlow** is the run. One method of the runtime is one action, and
`step` names the method a chain calls next: such a chain awaits only itself, so no
click or timer comes between (`Start`, `NavigateToPage`, `ShowCurrentItem`,
`FollowFlow`). At `idle` the participant answers (`Submit`, `Continue`), a timer
fires (`AutoAdvanceFires`, `QuestionDeadline`, `PageTimeout`, `SurveyTimeout`), a
failed write halts the run, or the page is reloaded from `snapshot`. Which rule
holds and whether a script vetoes are choices. A rule may lead to any page: a branch
back changes no loop counter, so `rewinds` counts them for the property about passes.
The form outlives the end of the run: nothing in `Submit` asks whether the run is
over, and `mounted` says whether the page still shows it, until `ShowEnd`, and again
when a retry of a failed write leaves the blocking screen (`RetryShowsRun`).

**AnswerStorage** has the answer between the runtime and IndexedDB: `saving` are
writes that have not settled, `copies` and `corrupt` the rows, `unstored` and
`placeholder` what a failure left in memory and in the ledger, `queued` and
`stillUnstored` the locals of a retry, `captured` and `storedCursor` the resume state.
A failure may also fail to enter its dead letter in the ledger, in the same database
(`unlogged`), and a retry may drop from the list what failed while it ran
(`overwritten`). `ReloadRun` is the load of
the page with what it finds.

**VariableSync** numbers the versions of each variable: `rowVersion`, the ledger
per version, `heldVersion` on the server, and one drain (`drainStep`), with
`overdue` for a request whose drain is gone. Reconcile's writes are one action
each here, since the two writes per version race with a save.

**BinaryUpload** has `blob` and `blobUrl` (the pinned rows), `chosen` (the form's
value), `answer` with the files it names and those patched, `media` and
`heldAnswer` on the server, and the steps of `uploadSessionBinaries` and of the
drain around it (`upload`). The answer has its ledger row (`answerTries`,
`answerAcked`): a failed request burns an attempt (`RegisterFailure`), may give the
session up (`CheckFullyDead`, `GiveUp`), and an answer without attempts left is a dead
letter that no drain reads again. `sessionSynced` is the session row's own flag: set
by `MarkSession` or `GiveUp`, re-armed by each write to the row (`RearmSession`,
`CompleteRun`), and read when a drain collects (`BeginUpload`); the purge is a step
after the mark (`PurgeSynced`). A session that is completed is taken to have left the
form for good.

**FilloutKeys** has the key table (`rootRow`, `keyRow`), each tab's caches and the
step of its lookup, and the rows with the key that encrypted them. A lookup and
the store of a fresh key are two requests.

**ContentCache** has the rows by version (`cachedRows`), what each tab has loaded
or runs (`opened`), the session rows with their pins, and the prune of each tab:
it reads the rows, then what protects them, then deletes one row at a time.
`FetchLatest` and `CacheVersion` are the online load, `LoadOffline` the other, and
both end in the page's choice of a version (`Resolved`). The upload of a session
is reduced to what the prune sees of it.

**ArmAssignment** has the counters as committed, who holds the counter row, the
creates under way and, for the property about arms, what each session showed.

**ErasureLedger** has each object's upload (`object`), the bytes (`bucket`), the
ledger (`unarmed`, `armed`), the requests' steps and the locals of each purge. The
request's transactions are `CollectKeys`, `StageKeys`, `DestroyTenant` and one
confirmation per object.

**YjsRoom** has the column, a room per node, a copy per tab, and the handler of
each connection: `seeding` and `adopting` under the lock of the rooms, `flushing`,
and after the last editor left `evicting` and `closing`. A document is the set of
seeds and edits merged into it, which is what a CRDT's state amounts to here.

**SeriesWaves** has one enrollment (`enrolled`, `pointer`), its prompts, what each
scheduler's tick still has to claim and is sending, and the pages. A completion is
three steps: `PostCompletion` reads the enrollment, `MarkWave` marks the prompt,
whose row it locks, and reads the next open one, `CommitWave` writes status and
pointer. `TimePasses` lets waves come due in their order.

**DesignerSave** is the author's tab, the service worker's queue and the server's
rows together. A content is the number of the edit it ends with. `call` holds for
each trigger how far its `saveQuestionnaire` is: waiting for the create under way,
sent, answered or queued, listing the project after a refused create. The steps are
the code between two awaits; the service worker's queue is `outbox`, a set, as its
entries name their requests; `ResumeSave` is the continuation of a save that
waited, and comes before anything else, as promise continuations do. `Serve` is
the handler, `ConnectionLost` the service worker's catch (the request or only its
answer was lost), `SyncFires` and `ReplayEntry` its background sync. An update
snapshots the row before it overwrites it, a publication after it; `history` keeps
the first snapshot of a version.

**MCFilloutSync** and **MCQuotaCompletion** give the constants their values.
**MCDevice** and **MCServer** check the components that share no state, one per
behaviour: `subject` says which, and the others keep still. Their state spaces
add up and do not multiply.

The theorems are in modules of their own. **FilloutSync_proofs**,
**ErasureLedger_proofs**, **SeriesWaves_proofs** and **YjsRoom_proofs** stand beside
one component each; **Upload_proofs** is about BinaryUpload and VariableSync.
**Server_proofs** has QuotaCompletion and ArmAssignment, and the composed server of
MCServer; **Device_proofs** has QuestionnaireFlow, FilloutKeys, ContentCache,
AnswerStorage and DesignerSave, and the composed device of MCDevice.
**LibraryFacts** says what `Min`, `Max`, `SumFunction` and the remainder return.

An operator `FaultyX` stands before the operator `X` it spoils: a plausible slip
in the code (a dropped guard, a missed reset, an off-by-one). Nothing uses it;
put in the place of `X`, it makes the property named with it in `PROJECT.json`
fail, which shows that the property depends on that piece of code.

## 3. Runs and their bounds

| Configuration | Instance | Shows |
|---|---|---|
| `FilloutSync_two_engines` | 2 records, 2 engines, no Web Locks, 2 crashes of one tab or both, dead-letter after 1 | `PurgedSessionIsCompleted` |
| `FilloutSync_retries` | 2 records, one refusable, 1 engine, 2 lost connections, 1 late request, 2 metadata rewrites, dead-letter after 2 | `TypeOK`, `NoOverMarking`, `CompletionRidesLast`, `CustodyKept` |
| `FilloutSync_liveness` | 1 new and 1 over-marked record, 1 engine, 1 failure, 1 crash, dead-letter after 2 | `EveryAnswerDelivered`, `DeliveredOrEscalated`, `RetryLoopSettles`, `OverMarkedRecovered` |
| `Server` | quota: 3 participants, a cell of 2 slots and an uncapped one, 1 request sent again or rolled back | `CapHolds`, `FlaggedOnlyWhenFull`, `CountedOrFlagged`, `CompletionAnswered` |
| | arms: 2 participants, 2 arms, balanced, 3 sessions, 1 rollback or lost answer | `NumbersAreDense`, `ArmsStayBalanced` |
| | erasure: 1 object, 2 requests, the sweeper, 1 failed deletion or crash | `LiveObjectsKept`, `KeysOutliveRows`, `ErasureIsHonest`, `ArmedIsPurged` |
| | room: 2 tabs, 2 nodes, 3 connections, 2 seeds, 1 edit, 1 restart, failed write or content write | `OneSeedServed`, `EditsAreKept` |
| | series: 2 waves, fixed or event, 2 schedulers, 3 pages, 1 crash, lost mail, rollback, opt-out or unresolved token | `RemindedAtMostOnce`, `WavesAreHonest`, `NoWaveStranded` |
| | all | `ServerTypeOK` |
| `Device` | flow: 4 pages, one hidden, 8 items, a loop, a branch on, a branch back and a terminate rule, all timers, 1 halt, 1 reload, 1 branch back taken | `NaturalEndIsWhole`, `AskedOncePerPass`, `EndsOnce`, `BudgetEndsRun` |
| | storage: 3 questions, 2 failed writes, each with or without its dead letter, 2 loads | `LossIsReported` |
| | variables: 2, one with a name the server trims, 2 and 1 saves, 1 failure, 1 late request, dead-letter after 1 | `SyncedValueIsHeld`, `PurgedValueIsHeld`, `LastValueArrives` |
| | binaries: 2 files of one question, 2 lost pages, uploads or requests, dead-letter after 2, 1 write to the session's row after its completion | `BytesAreHeld`, `PurgedAnswerNamesItsBytes`, `CompletedRunIsPurged` |
| | keys: 2 tabs, 2 keys of each kind, 2 rows, 1 tab reopened | `UnreadableOnlyAfterRaceOrPurge` |
| | content: 2 tabs, 2 versions, 1 session | `PinnedVersionIsCached` |
| | designer: 2 names and renaming, 1 edit, 1 save or publication by the author, 1 lost connection, server error or failed draft, retry limit 2 | `AcceptedIsKept` |
| | all | `DeviceTypeOK` |
| `FilloutSync_SyncedRowIsShipped` | 2 records, 1 engine, nothing fails | violated, see 5 |
| `FilloutSync_GivenUpOnlyWhenDead` | the same and 1 lost connection | violated |
| `FilloutSync_DeadLetterNotHeld` | the same and 1 refused record | violated |
| `QuotaCompletion_FlaggedIsUncounted` | 2 participants, 1 slot, 1 request sent again | violated |
| `Device_ResumesAtFirstUnstored` | the storage of `Device` | violated |
| `Server_SessionKeepsItsArm` | the arms of `Server` | violated |
| `Server_CompleteMeansGone` | the erasure of `Server` | violated |

Bounds. Two records are enough for two chunks, for a chunk that is stored beside
one that is refused, and for a record that arrives during a drain; two engines
for every pair of steps that race; `MaxMeta`, `MaxFail`, `MaxCrash` and
`MaxLate` cap the only counters, in the guards. With `MaxMeta = 1` the one
rewrite is either a progress update or the completion's merge; `retries` has
both in one behaviour. Late requests are in `retries` only: with two engines,
crashes and a late request together the instance takes too long for a routine
run: `NoOverMarking`, `CompletionRidesLast` and `CustodyKept` are checked for one
engine without a crash, and only their theorems cover two engines and crashes.
`DEAD_LETTER_ATTEMPTS` is 5 in the code and 1 or 2 here:
below the budget, at it, and past it. Every safety property of a passing run is also
proved for every value of the constants. Engines, and records that are neither
refusable nor over-marked, are interchangeable in `two_engines` (symmetry); no run with a liveness property uses symmetry. Deadlock is not
checked: a session that is delivered and purged has nothing left to do.

In `Device` and `Server` each instance has the smallest sizes at which its race
can happen: two tabs that both find no key; a file patched while another is still
pinned; a variable saved again while its first value is on the way and a late
request carries that one; three sessions on two arms, so that one arm is ahead;
an erasure overtaken by another over one object; a second node that seeds while
the first is electing; a late completion of the first wave beside that of the
second, and a repeated one; a session started on the old version while the other
tab caches and prunes for the new one; a save of the old content and one of the new
under way at once, and a third that waits for one of them (the tab opens one of its
questionnaires, or a new one whose create failed or is queued, with or without
another author's of the same name). `MAX_RETRY_COUNT` is 3 in the code.
`MaxRewinds` caps the branches back that a run follows, which the code does not:
each could start over for ever. It matters to `BudgetEndsRun` alone: a questionnaire
whose branch leads back over pages with nothing to present would call itself without
end, and no timer would fire (section 6). With `AnswerAttempts = 2` and two losses an
answer fails once and comes through, or becomes a dead letter; `MaxRearms` is the
one write that is under way when the session is completed.
`AcceptedIsKept` was also checked with two edits, `PinnedVersionIsCached` with
two sessions, and the series with three waves, at many times the states. One edit is enough for a document: which edit is lost does
not matter. With two edits or two objects the instances only repeat the
same races, at many times the size. The questionnaire of `Device` has a hidden
page behind which the run goes on, an auto-advanced notice between two questions
and deadlines of each kind.

Fairness. `FairSpec` of FilloutSync assumes that a save that wrote its row goes
on to the ledger, and that an engine with something to do does something: an
IndexedDB write returns, the 5 s interval of `ResponsePersistenceService` and
the retry timer of `scheduleRetry` start the next drain, a request that nothing
takes is answered. Nothing is assumed of the participant, and nothing makes
failures or crashes happen; they are only bounded in number, so each liveness
property says what holds once the disturbances end. In QuotaCompletion a
completion request is sent until it is answered and a transaction that can go on
does. In MCDevice a chain of the runtime's own calls goes on and an armed survey
timer fires; the engine drains what is queued (its interval and retry timer); a
stored variable is queued; a request ends. Nothing is assumed of the participant:
`BudgetEndsRun` holds for one who does nothing. In MCServer the sweeper runs for
the lifetime of the process (`main.rs`), and a deletion that storage accepts is
confirmed.

Exceptions a property names. `NaturalEndIsWhole` leaves out pages a time limit or
a rule took away and an item a stale auto-advance stepped over; `AskedOncePerPass`
ends a pass where a loop or a branch leads back; `EndsOnce` allows one answer after
the end, to the question that was on the screen; `LossIsReported`, for the list what
a retry dropped from it and for the ledger what could not be entered there; the three
variable properties, what a request that outlived its drain wrote back;
`UnreadableOnlyAfterRaceOrPurge`, two tabs that made the first keys at once and a
page that outlived the purge; `CompletedRunIsPurged`, a blob whose page was lost
before its answer was committed, and a session row marked synced with nothing left
that would bring it into a drain (`stranded`), which happens in three ways that
its definition names; `PurgedAnswerNamesItsBytes`, a dead letter, which the purge
leaves where it is; the erasure properties, an object named while an
erasure was under way; `EditsAreKept`, edits made while an eviction is being
written or another node has the document open; `WavesAreHonest`, a page that could
not learn its wave; `PinnedVersionIsCached`, a session started from a page already
superseded on the device, or worked on by a second tab after its completion. Each is a state the code
can reach, the property shows it is the only one, and section 6 lists what
follows from it.

Premises of the liveness properties. `EveryAnswerDelivered` supposes that the
server refuses nothing (a refused record takes others with it, see 5).
`RetryLoopSettles` supposes that every durable unsynced row has a ledger row: a
tab that dies between the two leaves a row that `markAttempt` skips, and if the
server refuses it, it is sent for ever. `OverMarkedRecovered` supposes that no
probe fails: a clean drain of a completed session after a failed probe purges
the row.

## 4. Proofs

Every invariant and every safety property that a passing run checks is also a
theorem, for any records, engines, tabs, files, pages, waves, nodes and bounds. The
proofs assume only the named `ASSUME`s of the modules (`ConstantsAssumption`,
`QuotaAssumption`, `ArmAssumption`, `BinaryAssumption`, `VariableAssumption`,
`KeyAssumption`, `ContentAssumption`, `StorageAssumption`, `FlowAssumption`,
`DesignerAssumption`, `ErasureAssumption`, `SeriesAssumption`, `YjsAssumption`),
which say what kind of thing each constant is (`FlowAssumption`: a rule may lead from
any page to any page), and one theorem, `AskedOnce`, the
hypothesis `OnePlace` explained below. Each theorem is about the component's own
specification; `ServerRunsItsParts` and `DeviceRunsItsParts` show that a behaviour
of the composed server or device is a behaviour of each component, so that it holds
there too.

`FilloutSync_proofs`:

- `SyncInvariant` proves `SyncInv`, the conjunction of `TypeOK`,
  `NoOverMarking` and two strengthenings. `NoOverMarking` alone is not inductive:
  `AckInv` says that a chunk answered ok is held and that what a drain
  accumulated is held; `LedgerInv`
  says which ledger states and attempts go together, without which the attempts
  of a pending record could pass the budget.
- `TypeCorrect` and `NeverOverMarked` follow from it.
- `CompletionIsLast` uses `RideInv`: what a drain has sent and no longer has to
  send was acknowledged, so when the status goes out the rest is held, and held
  only grows, however late the request arrives.
- `PurgedIsCompleted` uses `PurgeInv`: an engine past the answer to its last
  chunk, with a completed session object, has told the server.
- `ImplementsCustody` shows that Init maps to CustodyInit and each step to a
  capture, a delivery, a release or a stutter, with `CaptureInv`: what the server
  holds or a request carries was captured on the device.

`Upload_proofs`, binary answers:

- `BytesAreInPlace` proves `BytesInv`. `HeldInv` extends the
  property to every copy of an answer, sent, late or stored, and to what the drain
  is about to do: it deletes a blob only when its bytes have an address. `FormInv`
  says that an answer the participant can still change was never sent.
- `PurgedNamesItsBytes` needs to know what a drain that is about to purge has seen.
  `VersionInv`: all copies are versions of one answer, which only gains addresses, so
  a late request can be behind the row but never beside it. `CompletedInv`: a drain
  that read a completed session and counted no pinned blob has a whole answer before
  it, with an address for each file, and ends with that answer marked synced or dead;
  of a whole answer that is marked synced the server has that very version. So what
  the purge deletes is held, and what it leaves is a dead letter.

`Upload_proofs`, variables: `SyncedIsHeld` and `PurgedIsHeld` prove `VariableInv`.
`WayInv` says that no request that outlived its drain is ahead of the one under way,
`AckInv` that the rows a request carries do not say synced until it is answered, and
that the server has the acknowledged versions until the rows are marked.

`Server_proofs`, quota: `QuotaInvariant` proves `QuotaInv` = `TypeOK`,
`ClaimInv` and the three properties. `ClaimInv` is what makes the cap inductive:
a transaction past the lock holds the row of its cell, and what it read is what
the row still says. `QuotaTypeCorrect`, `CapIsExact`, `FlagMeansFull` and
`NoCompletionUncounted` follow.

`Server_proofs`, arms: `DenseNumbers` and `EvenArms` rest on the lock of the
counter row. `HolderInv` says that only its holder has a create open and that the
number it read is still the next one; `EvenInv` adds that the arm it took is the one
a claim would still take and that the counts are the committed sessions. For the
balanced strategies that arm is one of the emptiest. For the sequential one it
follows from the sum of all counts, a fold: `RoundInv` says that the arms up to the
last one taken, which is that sum modulo the number of arms, are one session ahead
of the others. What one more session does to the sum is `SumOfOneMore` of
LibraryFacts. The fold is unfolded there without an induction rule, over the least
set on which its recursion would fail (`SubsetsOneByOne`, from the well-founded
order of the naturals). `ArmsKeepTheirTypes` uses `EvenInv` for the arm of a create.

`ErasureLedger_proofs`: `ErasureInvariant` proves `ErasureInv`. `LedgerInv` says
that armed rows name destroyed objects only; `CollectedInv`, that whoever is
between collecting and destroying has every key named before it began, so what it
stages in place of another's rows forgets none; `AnswerInv` follows a key from a
request's rows to its purge and its answer. `LiveObjectsAreKept`, `KeysAreKept` and
`AnswersAreHonest` follow.

`SeriesWaves_proofs`: `OneReminder` uses `SenderInv`: who sends a reminder won it
from pending, and it never is pending again. `WavesInTurn` proves `WaveInv`:
prompts are made in the order of the waves (`PromptInv`), and a completion between
its steps still knows the first open wave, whose row it has locked (`CursorInv`).
`WavesHonest` and `NoneStranded` follow.

`YjsRoom_proofs`: `OneSeed` uses `SeedInv`: the rooms and the writes under way have
the seed of the stored document, the tabs no other, and only a handler that awaits
the election has one of its own. `OwedEditsAreKept` uses `KeepInv`: while edits are
owed, all editors are on one node (`GatheredInv`), so there is one room; the edits
are in it, or with no room in what the eviction writes, and when that is written in
the stored document (`WhereInv`). That a room has somebody who will evict it
(`PeopledInv`) and that only one handler opens it (`OpeningInv`) holds throughout.

`Device_proofs`, the run: `FlowInv` is proved once, and `EndIsWhole`, `AskedOnce`
and `FlowKeepsItsTypes` follow.

- `ScreenInv` ties the chain of the runtime's calls to the cursor: what is on the
  screen is the item at the cursor, of a visible page and not answered before;
  only its deadline is armed; a run that ended does nothing more.
- `WalkInv` makes `NaturalEndIsWhole` inductive: every question before the cursor, on
  pages no limit or rule took away, has an answer, is hidden or was stepped over; and
  so it is for the snapshot a reload resumes from. A jump back only asks for less. It
  holds for the cursor while an answer may still be taken there (`OnItem`: the run goes
  on, or its last question is still on the screen) and for the page the run is on its
  way to (`Leaving`).
- `PassInv` makes `AskedOncePerPass` inductive: what was answered in this pass lies
  before the cursor, unless it was answered before the last reload and is skipped,
  and no earlier pass had looped and gone back as often (`InPass`). A loop or a branch
  back begins a pass in which nothing is answered yet. It needs `OnePlace`: an item stands at one
  place. The code gives it: the page randomizer keeps a `seen` set
  (`BlockRandomizer.ts`), a loop expansion renames the items it repeats
  (`LoopExpansion.ts`), and the runtime itself keys answers by item id
  (`resumeAnsweredIds`). The theorem is false without it, and the questionnaire of
  `Device` satisfies it.
- `EndsOnlyOnce` is an action property: what `ScreenInv` says of a run that ended
  leaves only steps that change neither status nor completions and present nothing;
  an answer then clears the screen, so there is no second one.

`Device_proofs`, the rest:

- `RowsStayReadable` uses `OneRoot` and `OneKey`: without a race all tabs that hold a
  key hold the table's.
- `PinnedStaysCached` uses `CacheInv`. What a prune is about to delete was not
  protected when it looked; `ProtectInv` says why it is not needed now either: a
  session that started since is pinned to a version that none of the rows the prune
  had read exceeds, and the prune spares the newest. `CoverInv` supplies that: nothing
  a page or a prune holds is ahead of everything cached.
- `LossStaysReported` needs that a retry walks answers that are on the list, and that
  the run resumes only when nothing it walked is left.
- `AcceptedStaysKept` uses `SaveInv`. `HistoryInv` says that the history is never
  ahead of its row, and that a snapshot of the row's own version has the row's own
  content; so an update, which snapshots first, loses nothing although the history
  keeps only the first snapshot of a version. `SavesAreGood` and `EntriesAreGood` say
  that every save and every queued request names a row that exists.

Type invariants: each component has its theorem (`LedgerKeepsItsTypes`,
`SeriesKeepsItsTypes`, `RoomKeepsItsTypes` and so on), and `ServerKeepsItsTypes` and
`DeviceKeepsItsTypes` put them together.

Only model-checked: the liveness properties (`EveryAnswerDelivered`,
`DeliveredOrEscalated`, `RetryLoopSettles`, `OverMarkedRecovered`,
`CompletionAnswered`, `ArmedIsPurged`, `BudgetEndsRun`, `LastValueArrives`,
`CompletedRunIsPurged`), since fairness and ENABLED are out of the prover's reach,
and of course the violated ones.

## 5. Where code and text disagree

1. `SyncedRowIsShipped`: a drain marks the session row synced whatever happened
   to it since the drain collected it (`FilloutUploadSync.ts:718`). A quality
   report merged, or a completion recorded, while a drain is under way is not
   sent, against "re-arm synced:0 so FilloutUploadSync ships it"
   (`FilloutRuntime.ts:534-536`).
2. `GivenUpOnlyWhenDead`: one failed drain that carries only the session row
   gives the session up (`FilloutUploadSync.ts:843-849`), against "every one of
   its unsynced records is already escalated" (`:825-826`).
3. `DeadLetterNotHeld`: records the server stored with an earlier chunk burn
   attempts and are escalated when a later chunk fails (`:816`), against
   "`acked` once the server durably holds it" (`SyncLedger.ts:7-8`).
4. `FlaggedIsUncounted`: each completion request claims (`sync.rs:379`), so a
   session whose completion is sent again takes a second slot or is flagged as
   over quota while it is counted, against `sync.rs:465-467`.
5. `ResumesAtFirstUnstored`: the resume state is taken from memory when an answer
   is committed (`QuestionnaireRuntime.ts:2184`) and replaces the skip-set of the
   stored answers at a resume, so a reload goes on behind an answer whose write
   failed, against "the lost question is simply asked again"
   (`FilloutRuntime.ts:361-362`) and "would make a reload SKIP the question whose
   answer was just lost" (`:288-291`).
6. `SessionKeepsItsArm`: a resume passes neither number nor assignment
   (`QuestionnaireRuntime.ts:976`) and shows the arm of participant 0, against
   "each participant is assigned to exactly one experimental condition"
   (`09-experimental-design.md:9`).
7. `CompleteMeansGone`: what is uploaded between the collection of the keys
   (`gdpr.rs:1127`) and the destruction of the rows is left in storage under a
   200, against "every object confirmed deleted from storage" (`:1015-1016`).

## 6. Not modelled, and the plan

Seen while modelling, and not stated by a run:

- An auto-advance timer survives the participant's own Continue and then steps
  over whatever item is shown; when it fires during a halt it clears the screen,
  and the resume presents nothing.
- A branch or skip back asks questions again without counting it as a loop, and the
  answers of the two passes differ in nothing but their time. The resume state knows
  item ids only: a reload in the second pass skips what the first one answered. A
  branch that leads back over pages with nothing to present never ends.
- The form stays on the screen until the page's completion has been stored, and a
  retry of a failed write brings the finished run back: an answer is then taken and
  written to a session that is completed (`handleCollectedResponse` does not look at
  `isRunning`).
- The dead letter of a lost answer may fail to be stored and is then only logged
  (`FilloutRuntime.ts:388-391`), so the sync tallies do not show the loss; and an answer
  that fails while a retry walks the list is dropped from it (`:433`): the run resumes
  over it although it is halted "while at least one answer is unstored" (`:401`).
- A completed session stays on the device, its answers marked synced, when the drain
  that marked it had read it before its completion (`SyncedRowIsShipped`), when a failed
  drain of the row alone gave it up (`GivenUpOnlyWhenDead`), or when the page is lost
  between the mark and the purge: nothing collects it again. A failed answer request
  that became a dead letter stays behind in a session whose row is purged.
- A blob whose page was lost before its answer was committed pins its session for
  good; a variable whose name has surrounding spaces is never acknowledged and is
  sent at each drain.
- One row no key opens makes `getUnsyncedResponses` throw for its whole session.
- A create whose answer is lost leaves a session that keeps its number and arm;
  sessions started offline never get either.
- Bytes that were put before their row was refused, by a destroyed tenant, have no
  name; an erasure that dies after staging leaves unarmed rows, which are inert.
- An edit applied in a room that was opened from the column while the previous
  room's eviction was still being written can be overwritten by that write.
- A completion writes `active` or `completed` over `withdrawn`: who opts out while
  a page is open gets reminders again once that page completes.
- The completion of a wave is posted once. When it is lost, or refused because the
  session is not on the server yet, an event series never makes its next wave: the
  comment at `FilloutPageController.svelte.ts:1379-1383` speaks of a delayed
  reminder only. A page whose token could not be resolved completes whatever wave
  is current by then, and of two completions at once the later commit may move
  the pointer back to a completed wave, until the next completion corrects it.
- A page left open on a version that another tab has superseded starts a session
  whose version the prune may already have taken; it resumes on the latest one.
  A republication under the same version replaces the row a session pinned, and
  a prune drops the server-computed variables of a version cached after it had read
  the rows.
- A PATCH to completed takes no slot of a cell; the sync that follows does, unless the
  pinned cell is no longer in the definition (`sync.rs:508-511`), which is not modelled.
- `protectedVersionKeys` (`FilloutContentCache.ts:531-534`) looks at responses, events
  and variables, not at trials, though `:517-518` speaks of any child record. ContentCache
  does not tell the kinds apart.
- The designer's saves overlap, since `saveQuestionnaire` does not look at
  `isLoading` (`+page.svelte:76-77` says it does): the success of an older save
  clears `isDirty` although a newer one failed. A save waits for a create once
  (`designer.svelte.ts:983`): when that one ends without an id, each save that
  waited creates, though `:126` promises one create. The service worker's 202
  counts as a save, so a publication goes on with the older content
  (`DesignerHeader.svelte:130-137`). DesignerSave has these behaviours; no run
  states them.
- A replayed request that is refused below 500, for a conflict or a stale token,
  leaves the queue as synced. A tab whose create was queued meets its own replayed
  row and is told that the name is taken. Drafts are written and pruned, but
  `getLatestDraft`, which would read them, has no caller.

Of the modelled components: checksum repair, value normalisation, trial repair,
broadcasts, access rules, flat quotas and the choice of a cell, adaptive blocks,
question-target anchors, reaction runtimes, stratified designs, single-participant
erasure and legal hold, the Redis relay and read-only viewers, media, their quota
and prefetch, several enrollments and the dates of their waves.

Next, in this order:

1. Proofs: abstract specifications of the components that have none yet (a cell
   that hands out slots, a document that merges edits, a ledger that forgets no
   key), and the refinements that the invariants above already contain; the
   variants on which the liveness properties rest, as invariants of single steps.
2. The saves of a tab whose collaboration room opens: DesignerSave with YjsRoom.

The reaction engine, organizations, roles, media library, analytics,
authentication, SSO and SCIM stay out: real time, relational queries, or adapters
to external services, with no protocol that these models would say something
about.
