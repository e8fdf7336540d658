--------------------------- MODULE Device_proofs ---------------------------
(***************************************************************************)
(* Proofs about what a device does: the walk through the questionnaire     *)
(* (QuestionnaireFlow), the keys of the encrypted rows (FilloutKeys), the  *)
(* offline copies of the questionnaire (ContentCache), the storing of      *)
(* answers (AnswerStorage) and, on the author's device, the saves of the   *)
(* questionnaire (DesignerSave), for any number of tabs, pages, items,     *)
(* rules, versions, questions, edits and faults; and about the device that *)
(* MCDevice composes of these and of the uploads of Upload_proofs.         *)
(***************************************************************************)
EXTENDS MCDevice, Upload_proofs, LibraryFacts, SequenceTheorems

(* The keys of the encrypted rows.                                          *)

(* While no two tabs have made the first keys at once and no row was        *)
(* written after the purge: there is one root, every tab that has one has   *)
(* that one, the session's key is wrapped by it, and until the purge every  *)
(* tab that has a session key has that key.                                 *)
OneRoot ==
    /\ \A t \in Tab : tabRoot[t] \in {0, rootRow}
    /\ \A t \in Tab : tabStep[t] \in {"findKey", "newKey"} => tabRoot[t] # 0
    /\ keyRow = NoKey \/ (keyRow.key # 0 /\ keyRow.root # 0 /\ keyRow.root = rootRow)

OneKey == sessionRow => \A t \in Tab : tabKey[t] \in {0, keyRow.key}

KeysInv ==
    /\ KeysTypeOK
    /\ ~raced /\ ~writtenAfter => OneRoot /\ OneKey /\ RowsAreReadable

LEMMA InitKeys == KeysInit => KeysInv
  <1> SUFFICES ASSUME KeysInit PROVE KeysInv
    OBVIOUS
  <1>1. 0 \in 0 .. MaxKeys /\ 0 \in 0 .. MaxRows /\ 0 \in 0 .. MaxReopens
    BY KeyAssumption
  <1>2. KeysTypeOK
    BY <1>1 DEF KeysInit, KeysTypeOK, NoKey
  <1>3. OneRoot /\ OneKey /\ RowsAreReadable
    BY DEF KeysInit, OneRoot, OneKey, RowsAreReadable
  <1>4. QED
    BY <1>2, <1>3 DEF KeysInv

(* A tab looks the keys up.                                                 *)
LEMMA LookupKeeps ==
    ASSUME KeysInv, NEW t \in Tab, StartWrite(t) \/ FindKey(t) \/ Reopen(t)
    PROVE  KeysInv'
  <1>1. 0 \in 0 .. MaxKeys /\ reopens' \in 0 .. MaxReopens
    BY KeyAssumption DEF KeysInv, KeysTypeOK, StartWrite, FindKey, Reopen
  <1>2. KeysTypeOK'
    BY <1>1
       DEF KeysInv, KeysTypeOK, StartWrite, FindKey, Reopen, keyTableVars, sealedVars
  <1>3. ASSUME ~raced, ~writtenAfter PROVE OneRoot' /\ OneKey'
    BY <1>3
       DEF KeysInv, KeysTypeOK, OneRoot, OneKey, StartWrite, FindKey, Reopen, keyTableVars,
           sealedVars, NoKey
  <1>4. UNCHANGED <<raced, writtenAfter, rows, keyRow, rootRow>>
    BY DEF StartWrite, FindKey, Reopen, keyTableVars, sealedVars
  <1>5. QED
    BY <1>2, <1>3, <1>4 DEF KeysInv, RowsAreReadable, Readable

(* A tab stores the first keys: no row is sealed with another, unless it    *)
(* has raced.                                                               *)
LEMMA FirstKeysKeep ==
    ASSUME KeysInv, NEW t \in Tab, PutRoot(t) \/ PutKey(t)
    PROVE  KeysInv'
  <1>1. CASE PutRoot(t)
    <2>1. rootRow' \in 1 .. MaxKeys
      BY <1>1, KeyAssumption DEF KeysInv, KeysTypeOK, PutRoot
    <2>2. KeysTypeOK'
      BY <1>1, <2>1 DEF KeysInv, KeysTypeOK, PutRoot, sealedVars
    <2>3. ASSUME ~raced', ~writtenAfter' PROVE OneRoot' /\ OneKey' /\ RowsAreReadable'
      <3>1. rootRow = 0 /\ keyRow = NoKey /\ OneKey /\ RowsAreReadable /\ OneRoot
        BY <1>1, <2>3 DEF KeysInv, KeysTypeOK, OneRoot, PutRoot
      <3>2. \A u \in Tab : tabRoot[u] = 0
        BY <3>1 DEF OneRoot
      <3>3. OneRoot'
        BY <1>1, <2>1, <3>1, <3>2 DEF KeysInv, KeysTypeOK, OneRoot, PutRoot
      <3>4. OneKey'
        BY <1>1, <3>1 DEF OneKey, PutRoot, sealedVars
      <3>5. RowsAreReadable'
        BY <1>1, <3>1 DEF RowsAreReadable, Readable, NoKey, PutRoot, sealedVars
      <3>6. QED
        BY <3>3, <3>4, <3>5
    <2>4. QED
      BY <2>2, <2>3 DEF KeysInv
  <1>2. CASE PutKey(t)
    <2>1. keysMade' \in 1 .. MaxKeys /\ keyRow' = [key |-> keysMade', root |-> tabRoot[t]]
      BY <1>2, KeyAssumption DEF KeysInv, KeysTypeOK, PutKey
    <2>2. KeysTypeOK'
      BY <1>2, <2>1 DEF KeysInv, KeysTypeOK, PutKey, sealedVars
    <2>3. ASSUME ~raced', ~writtenAfter' PROVE OneRoot' /\ OneKey' /\ RowsAreReadable'
      <3>1. keyRow = NoKey /\ OneKey /\ RowsAreReadable /\ OneRoot
        BY <1>2, <2>3 DEF KeysInv, KeysTypeOK, PutKey
      <3>2. OneRoot'
        BY <1>2, <2>1, <3>1 DEF KeysInv, KeysTypeOK, OneRoot, PutKey
      <3>3. OneKey'
        BY <1>2, <2>1, <3>1 DEF KeysInv, KeysTypeOK, OneKey, NoKey, PutKey, sealedVars
      <3>4. RowsAreReadable'
        BY <1>2, <3>1 DEF RowsAreReadable, Readable, NoKey, PutKey, sealedVars
      <3>5. QED
        BY <3>2, <3>3, <3>4
    <2>4. QED
      BY <2>2, <2>3 DEF KeysInv
  <1>3. QED
    BY <1>1, <1>2

(* A row is sealed with the tab's key, which is the stored one.             *)
LEMMA PutRowKeeps ==
    ASSUME KeysInv, NEW t \in Tab, PutRow(t)
    PROVE  KeysInv'
  <1> DEFINE row == [id |-> rowsMade + 1, key |-> tabKey[t], synced |-> FALSE]
  <1>1. rows' = rows \cup {row} /\ rowsMade' \in 1 .. MaxRows
    BY KeyAssumption DEF KeysInv, KeysTypeOK, PutRow
  <1>2. row \in [id : 1 .. MaxRows, key : 0 .. MaxKeys, synced : BOOLEAN]
    BY <1>1 DEF KeysInv, KeysTypeOK, PutRow
  <1>3. KeysTypeOK'
    <2>1. rows' \subseteq [id : 1 .. MaxRows, key : 0 .. MaxKeys, synced : BOOLEAN]
      BY <1>1, <1>2 DEF KeysInv, KeysTypeOK
    <2>2. rowsMade' \in 0 .. MaxRows
      BY <1>1
    <2>3. QED
      BY <2>1, <2>2 DEF KeysInv, KeysTypeOK, PutRow, keyTableVars
  <1>4. ASSUME ~raced', ~writtenAfter' PROVE OneRoot' /\ OneKey' /\ RowsAreReadable'
    <2>1. sessionRow /\ OneRoot /\ OneKey /\ RowsAreReadable
      BY <1>4 DEF KeysInv, KeysTypeOK, PutRow
    <2>2. OneRoot' /\ OneKey'
      BY <2>1 DEF KeysInv, KeysTypeOK, OneRoot, OneKey, PutRow, keyTableVars
    <2>3. Readable(row)
      BY <2>1 DEF OneRoot, OneKey, Readable, NoKey
    <2>4. RowsAreReadable'
      BY <1>1, <2>1, <2>3 DEF RowsAreReadable, Readable, PutRow, keyTableVars
    <2>5. QED
      BY <2>2, <2>4
  <1>5. QED
    BY <1>3, <1>4 DEF KeysInv

(* Rows are shipped or purged: the key goes when none is left.              *)
LEMMA RowsGoKeeps ==
    ASSUME KeysInv, PurgeSession \/ \E t \in Tab : ShipRows(t)
    PROVE  KeysInv'
  <1>1. CASE PurgeSession
    <2>1. KeysTypeOK'
      <3>1. NoKey \in [key : 0 .. MaxKeys, root : 0 .. MaxKeys]
        BY KeyAssumption DEF NoKey
      <3>2. QED
        BY <1>1, <3>1 DEF KeysInv, KeysTypeOK, PurgeSession, tabVars
    <2>2. ASSUME ~raced', ~writtenAfter' PROVE OneRoot' /\ OneKey' /\ RowsAreReadable'
      <3>1. OneRoot /\ OneKey /\ RowsAreReadable
        BY <1>1, <2>2 DEF KeysInv, PurgeSession
      <3>2. QED
        BY <1>1, <3>1 DEF OneRoot, OneKey, RowsAreReadable, Readable, PurgeSession, tabVars
    <2>3. QED
      BY <2>1, <2>2 DEF KeysInv
  <1>2. ASSUME NEW t \in Tab, ShipRows(t) PROVE KeysInv'
    <2>1. /\ rows' = {[r EXCEPT !.synced = TRUE] : r \in rows}
          /\ UNCHANGED <<rowsMade, sessionRow, reopens, raced, writtenAfter, rootRow, keyRow,
                         rootsMade, keysMade, tabRoot, tabKey, tabStep>>
      BY <1>2 DEF ShipRows, keyTableVars, tabVars
    <2>2. ASSUME NEW r \in rows
          PROVE  /\ [r EXCEPT !.synced = TRUE] \in
                        [id : 1 .. MaxRows, key : 0 .. MaxKeys, synced : BOOLEAN]
                 /\ [r EXCEPT !.synced = TRUE].key = r.key
      BY DEF KeysInv, KeysTypeOK
    <2>3. KeysTypeOK'
      BY <2>1, <2>2 DEF KeysInv, KeysTypeOK
    <2>4. RowsAreReadable => RowsAreReadable'
      BY <2>1, <2>2 DEF RowsAreReadable, Readable
    <2>5. QED
      BY <2>1, <2>3, <2>4 DEF KeysInv, OneRoot, OneKey
  <1>3. QED
    BY <1>1, <1>2

LEMMA StepKeys == KeysInv /\ [KeysNext]_keysVars => KeysInv'
  <1> SUFFICES ASSUME KeysInv, [KeysNext]_keysVars PROVE KeysInv'
    OBVIOUS
  <1>1. CASE KeysNext
    BY <1>1, LookupKeeps, FirstKeysKeep, PutRowKeeps, RowsGoKeeps DEF KeysNext
  <1>2. CASE UNCHANGED keysVars
    BY <1>2
       DEF KeysInv, KeysTypeOK, OneRoot, OneKey, RowsAreReadable, Readable, keysVars,
           keyTableVars, tabVars, sealedVars
  <1>3. QED
    BY <1>1, <1>2

(* The variables of the encrypted store keep to their types.                *)
THEOREM KeysKeepTheirTypes == KeysSpec => []KeysTypeOK
  <1>1. KeysInv => KeysTypeOK
    BY DEF KeysInv
  <1>2. QED
    BY <1>1, InitKeys, StepKeys, PTL DEF KeysSpec

(* Without a race for the first keys, and without a row written by a page   *)
(* that outlived its session's purge, a page opened now can read every      *)
(* stored row (getOrCreateRootKey, getOrCreateSessionKey,                   *)
(* purgeSyncedSessionData).                                                 *)
THEOREM RowsStayReadable == KeysSpec => []UnreadableOnlyAfterRaceOrPurge
  <1>1. KeysInv => UnreadableOnlyAfterRaceOrPurge
    BY DEF KeysInv, UnreadableOnlyAfterRaceOrPurge, KeysTypeOK
  <1>2. QED
    BY <1>1, InitKeys, StepKeys, PTL DEF KeysSpec

-----------------------------------------------------------------------------
(* The offline copies of the questionnaire.                                 *)

(* Some cached version is at least v.                                       *)
Covered(v) == \E u \in cachedRows : v <= u

(* Nothing a page or a prune holds is ahead of everything that is cached.   *)
CoverInv ==
    /\ \A t \in Page : opened[t].step = "welcome" => Covered(opened[t].version)
    /\ \A s \in LocalSession : pins[s].status # "none" => Covered(pins[s].pin)
    /\ \A t \in Page : \A r \in prune[t].rows : Covered(r)

PageInv ==
    /\ \A s \in LocalSession : pins[s].status # "none" => pins[s].pin \in Version_
    /\ \A t \in Page :
        /\ opened[t].step \in {"fetched", "welcome"} => opened[t].version \in Version_
        /\ opened[t].step = "running" =>
                /\ opened[t].session \in LocalSession
                /\ pins[opened[t].session].status # "none"

(* What a prune is about to delete is not the version of a session that     *)
(* needs it: it read the session's need, or the session was started since,  *)
(* on a version that nothing it read exceeds.                               *)
ProtectInv ==
    \A t \in Page : \A s \in LocalSession \ strays :
        prune[t].step = "deleting" /\ Needs(s) =>
            pins[s].pin \in prune[t].keep \/ \A r \in prune[t].rows : r <= pins[s].pin

CacheInv == ContentTypeOK /\ CoverInv /\ PageInv /\ ProtectInv /\ PinnedVersionIsCached

OpenedPage == [step : {"closed", "fetched", "welcome", "running", "done"},
               version : 0 .. MaxVersion, session : 0 .. MaxPins]
SessionRow == [pin : 0 .. MaxVersion, status : {"none", "active", "completed", "purged"},
               synced : BOOLEAN, owing : BOOLEAN]
PruneState == [step : {"idle", "queued", "rows", "deleting"},
               rows : SUBSET Version_, keep : SUBSET Version_]

LEMMA ContentShapes ==
    ContentTypeOK <=>
        /\ published \in Version_ /\ cachedRows \subseteq Version_
        /\ opened \in [Page -> OpenedPage] /\ pins \in [LocalSession -> SessionRow]
        /\ started \in 0 .. MaxPins /\ prune \in [Page -> PruneState]
        /\ strays \subseteq LocalSession
  BY DEF ContentTypeOK, OpenedPage, SessionRow, PruneState

LEMMA EmptyShapes ==
    /\ ClosedPage \in OpenedPage /\ NoSession \in SessionRow /\ NoPrune \in PruneState
    /\ NoPrune.rows = {} /\ NoPrune.step = "idle"
    /\ ClosedPage.step = "closed" /\ NoSession.status = "none"
    /\ [ClosedPage EXCEPT !.step = "done"] \in OpenedPage
    /\ [ClosedPage EXCEPT !.step = "done"].step = "done"
  BY ContentAssumption
     DEF ClosedPage, NoSession, NoPrune, OpenedPage, SessionRow, PruneState

LEMMA InitCache == ContentInit => CacheInv
  <1> SUFFICES ASSUME ContentInit PROVE CacheInv
    OBVIOUS
  <1>1. 1 \in Version_ /\ 0 \in 0 .. MaxPins
    BY ContentAssumption DEF Version_
  <1>2. ContentTypeOK
    BY <1>1, EmptyShapes, ContentShapes DEF ContentInit
  <1>3. CoverInv /\ PageInv /\ ProtectInv /\ PinnedVersionIsCached
    BY EmptyShapes
       DEF ContentInit, CoverInv, PageInv, ProtectInv, PinnedVersionIsCached, Needs
  <1>4. QED
    BY <1>2, <1>3 DEF CacheInv

(* The newest of a set of versions is one of them.                          *)
LEMMA NewestVersion ==
    ASSUME NEW S \in SUBSET Version_, S # {}
    PROVE  Max(S) \in S /\ \A v \in S : v <= Max(S)
  BY MaxIsGreatest, ContentAssumption DEF Version_

(* What a page does with a version.                                         *)
LEMMA ResolvedPage ==
    ASSUME CacheInv, NEW v \in Version_, NEW next \in Resolved(v)
    PROVE  /\ next \in OpenedPage /\ next.step \in {"welcome", "running"}
           /\ next.step = "welcome" =>
                next.version \in Version_ /\ (next.version = v \/ Covered(next.version))
           /\ next.step = "running" =>
                next.session \in LocalSession /\ pins[next.session].status # "none"
  <1> DEFINE active == {s \in LocalSession : pins[s].status = "active"}
  <1>1. CASE next = [step |-> "welcome", version |-> v, session |-> 0]
    BY <1>1, ContentAssumption DEF OpenedPage, Version_
  <1>2. ASSUME NEW s \in active, next = [step |-> "running", version |-> 0, session |-> s]
        PROVE  /\ next \in OpenedPage /\ next.step = "running"
               /\ next.session \in LocalSession /\ pins[next.session].status # "none"
    BY <1>2, ContentAssumption DEF OpenedPage, LocalSession
  <1>3. ASSUME NEW s \in active,
               next = [step |-> "welcome", version |-> pins[s].pin, session |-> 0]
        PROVE  /\ next \in OpenedPage /\ next.step = "welcome"
               /\ next.version \in Version_ /\ Covered(next.version)
    <2>1. pins[s].pin \in 0 .. MaxVersion /\ pins[s].pin \in Version_ /\ Covered(pins[s].pin)
      BY ContentShapes DEF CacheInv, CoverInv, PageInv, SessionRow
    <2>2. QED
      BY <1>3, <2>1, ContentAssumption DEF OpenedPage
  <1>4. \/ next = [step |-> "welcome", version |-> v, session |-> 0]
        \/ \E s \in active : next = [step |-> "running", version |-> 0, session |-> s]
        \/ \E s \in active :
                next = [step |-> "welcome", version |-> pins[s].pin, session |-> 0]
    BY DEF Resolved
  <1>5. QED
    BY <1>1, <1>2, <1>3, <1>4

(* The server publishes, a page reads what it published.                    *)
LEMMA FetchKeeps ==
    ASSUME CacheInv, Publish \/ \E t \in Page : FetchLatest(t)
    PROVE  CacheInv'
  <1>1. CASE Publish
    <2>1. published' \in Version_
      BY <1>1, ContentAssumption DEF CacheInv, ContentTypeOK, Publish, Version_
    <2>2. ContentTypeOK'
      BY <1>1, <2>1 DEF CacheInv, ContentTypeOK, Publish
    <2>3. QED
      BY <1>1, <2>2
         DEF CacheInv, CoverInv, Covered, PageInv, ProtectInv, PinnedVersionIsCached, Needs,
             Publish
  <1>2. ASSUME NEW t \in Page, FetchLatest(t) PROVE CacheInv'
    <2>1. /\ [opened[t] EXCEPT !.step = "fetched", !.version = published] \in OpenedPage
          /\ [opened[t] EXCEPT !.step = "fetched", !.version = published].step = "fetched"
          /\ [opened[t] EXCEPT !.step = "fetched", !.version = published].version = published
          /\ published \in Version_
      <3>1. opened[t] \in OpenedPage /\ published \in Version_ /\ published \in 0 .. MaxVersion
        BY ContentShapes, ContentAssumption DEF CacheInv, Version_
      <3>2. QED
        BY <3>1 DEF OpenedPage
    <2>2. /\ opened' \in [Page -> OpenedPage]
          /\ opened'[t].step = "fetched" /\ opened'[t].version = published
          /\ \A u \in Page : u # t => opened'[u] = opened[u]
          /\ UNCHANGED <<published, cachedRows, pins, started, prune, strays>>
      BY <1>2, <2>1, ContentShapes DEF CacheInv, FetchLatest
    <2>3. ContentTypeOK'
      BY <2>2, ContentShapes DEF CacheInv, ContentTypeOK, OpenedPage
    <2>4. PageInv'
      BY <2>1, <2>2 DEF CacheInv, PageInv, Version_
    <2>5. QED
      BY <2>2, <2>3, <2>4
         DEF CacheInv, CoverInv, Covered, ProtectInv, PinnedVersionIsCached, Needs
  <1>3. QED
    BY <1>1, <1>2

(* A page loads a version, from the server into the cache or from the cache.*)
LEMMA LoadKeeps ==
    ASSUME CacheInv, NEW t \in Page, CacheVersion(t) \/ LoadOffline(t)
    PROVE  CacheInv'
  <1>0. PICK v \in Version_ :
            /\ \E next \in Resolved(v) : opened' = [opened EXCEPT ![t] = next]
            /\ v \in cachedRows' /\ cachedRows' \subseteq Version_
    <2>1. CASE CacheVersion(t)
      <3>1. opened[t].version \in Version_ /\ cachedRows' = cachedRows \cup {opened[t].version}
        BY <2>1 DEF CacheVersion, CacheInv, PageInv
      <3>2. QED
        BY <2>1, <3>1 DEF CacheVersion, CacheInv, ContentTypeOK
    <2>2. CASE LoadOffline(t)
      <3>1. cachedRows \in SUBSET Version_ /\ cachedRows # {} /\ cachedRows' = cachedRows
        BY <2>2 DEF LoadOffline, CacheInv, ContentTypeOK
      <3>2. Max(cachedRows) \in cachedRows
        BY <3>1, NewestVersion
      <3>3. QED
        BY <2>2, <3>1, <3>2 DEF LoadOffline
    <2>3. QED
      BY <2>1, <2>2
  <1>1. PICK next \in Resolved(v) : opened' = [opened EXCEPT ![t] = next]
    BY <1>0
  <1>2. /\ cachedRows \subseteq cachedRows' /\ UNCHANGED <<published, pins, started, strays>>
        /\ prune' \in [Page -> PruneState]
        /\ \A u \in Page : /\ prune'[u].rows = prune[u].rows /\ prune'[u].keep = prune[u].keep
                           /\ prune'[u].step = "deleting" => prune[u].step = "deleting"
    BY ContentShapes DEF CacheVersion, LoadOffline, CacheInv, PruneState
  <1>3. \A w : Covered(w) => Covered(w)'
    BY <1>2 DEF Covered
  <1>4. /\ next \in OpenedPage /\ next.step \in {"welcome", "running"}
        /\ next.step = "welcome" => next.version \in Version_ /\ Covered(next.version)'
        /\ next.step = "running" =>
                next.session \in LocalSession /\ pins[next.session].status # "none"
    <2>1. Covered(v)'
      BY <1>0, ContentAssumption DEF Covered, Version_
    <2>2. QED
      BY <1>3, <2>1, ResolvedPage
  <1>5. opened' \in [Page -> OpenedPage] /\ opened'[t] = next
        /\ \A u \in Page : u # t => opened'[u] = opened[u]
    BY <1>1, <1>4, ContentShapes DEF CacheInv
  <1>6. ContentTypeOK'
    BY <1>0, <1>2, <1>5, ContentShapes DEF CacheInv, ContentTypeOK, OpenedPage, PruneState
  <1>7. CoverInv'
    BY <1>2, <1>3, <1>4, <1>5 DEF CacheInv, CoverInv
  <1>8. PageInv'
    BY <1>2, <1>4, <1>5 DEF CacheInv, PageInv, LocalSession, Version_
  <1>9. ProtectInv' /\ PinnedVersionIsCached'
    BY <1>2 DEF CacheInv, ProtectInv, PinnedVersionIsCached, Needs, LocalSession
  <1>10. QED
    BY <1>6, <1>7, <1>8, <1>9 DEF CacheInv

(* A session starts on the version of its page.  Unless a newer version is  *)
(* cached already, its version is cached, and newer than all a prune read.  *)
LEMMA StartKeeps ==
    ASSUME CacheInv, NEW t \in Page, StartPinned(t)
    PROVE  CacheInv'
  <1> DEFINE v == opened[t].version
             s == started + 1
  <1>1. s \in LocalSession /\ started' = s /\ s \in 0 .. MaxPins
    BY ContentAssumption DEF StartPinned, CacheInv, ContentTypeOK, LocalSession
  <1>2. v \in 0 .. MaxVersion /\ v \in Version_ /\ Covered(v)
    BY ContentShapes DEF StartPinned, CacheInv, CoverInv, PageInv, OpenedPage
  <1>3. PICK online \in BOOLEAN : pins' = [pins EXCEPT ![s] =
            [NoSession EXCEPT !.pin = v, !.status = "active", !.synced = online]]
    BY <1>1 DEF StartPinned
  <1> DEFINE new == [NoSession EXCEPT !.pin = v, !.status = "active", !.synced = online]
  <1>4. new \in SessionRow /\ new.pin = v /\ new.status = "active"
    BY <1>2, ContentAssumption DEF NoSession, SessionRow
  <1> HIDE DEF new
  <1>5. /\ pins' \in [LocalSession -> SessionRow] /\ pins'[s] = new
        /\ \A r \in LocalSession : r # s => pins'[r] = pins[r]
    BY <1>1, <1>3, <1>4, ContentShapes DEF CacheInv, new
  <1>6. /\ opened' = [opened EXCEPT ![t] = [step |-> "running", version |-> 0, session |-> s]]
        /\ UNCHANGED <<published, cachedRows, prune>>
        /\ strays' = IF \E u \in cachedRows : u > v THEN strays \cup {s} ELSE strays
    BY <1>1 DEF StartPinned
  <1>7. [step |-> "running", version |-> 0, session |-> s] \in OpenedPage
    BY <1>1, ContentAssumption DEF OpenedPage
  <1>8. /\ opened' \in [Page -> OpenedPage]
        /\ opened'[t] = [step |-> "running", version |-> 0, session |-> s]
        /\ \A u \in Page : u # t => opened'[u] = opened[u]
    BY <1>6, <1>7, ContentShapes DEF CacheInv
  <1>9. ContentTypeOK'
    BY <1>1, <1>5, <1>6, <1>8, ContentShapes
       DEF CacheInv, ContentTypeOK, OpenedPage, SessionRow
  <1>10. CoverInv'
    BY <1>2, <1>4, <1>5, <1>6, <1>8 DEF CacheInv, CoverInv, Covered
  <1>11. PageInv'
    BY <1>1, <1>2, <1>4, <1>5, <1>8 DEF CacheInv, PageInv, LocalSession, Version_
  <1>12. s \notin strays' => /\ v \in cachedRows
                             /\ \A u \in Page : \A r \in prune[u].rows : r <= v
    <2> SUFFICES ASSUME s \notin strays'
                 PROVE  v \in cachedRows /\ \A u \in Page : \A r \in prune[u].rows : r <= v
      OBVIOUS
    <2>1. cachedRows \subseteq Nat /\ v \in Nat
      BY <1>2 DEF CacheInv, ContentTypeOK, Version_
    <2>2. \A u \in cachedRows : u <= v
      BY <1>6, <2>1
    <2>3. v \in cachedRows
      BY <1>2, <2>1, <2>2 DEF Covered
    <2>4. ASSUME NEW u \in Page, NEW r \in prune[u].rows PROVE r <= v
      <3>1. r \in Nat
        BY ContentShapes DEF CacheInv, PruneState, Version_
      <3>2. PICK w \in cachedRows : r <= w
        BY DEF CacheInv, CoverInv, Covered
      <3>3. QED
        BY <2>1, <2>2, <3>1, <3>2
    <2>5. QED
      BY <2>3, <2>4
  <1>13. ProtectInv'
    BY <1>4, <1>5, <1>6, <1>12 DEF CacheInv, ProtectInv, Needs, LocalSession
  <1>14. PinnedVersionIsCached'
    BY <1>4, <1>5, <1>6, <1>12 DEF CacheInv, PinnedVersionIsCached, Needs, LocalSession
  <1>15. QED
    BY <1>9, <1>10, <1>11, <1>13, <1>14 DEF CacheInv

(* The run answers and completes, the upload goes on: a session comes to    *)
(* need its version again only when another tab had completed it.           *)
LEMMA SessionKeeps ==
    ASSUME CacheInv,
           \/ \E t \in Page : AnswerPinned(t) \/ CompletePinned(t)
           \/ \E s \in LocalSession : UploadPinned(s)
    PROVE  CacheInv'
  <1>1. ASSUME NEW t \in Page, AnswerPinned(t) \/ CompletePinned(t)
        PROVE  /\ ContentTypeOK' /\ PageInv' /\ strays \subseteq strays'
               /\ \A r \in LocalSession :
                    /\ pins'[r].pin = pins[r].pin
                    /\ pins'[r].status # "none" => pins[r].status # "none"
                    /\ r \notin strays' /\ Needs(r)' => Needs(r)
    <2> DEFINE s == opened[t].session
    <2>1. s \in LocalSession /\ pins[s].status # "none" /\ opened[t].step = "running"
      BY <1>1 DEF AnswerPinned, CompletePinned, CacheInv, PageInv
    <2>2. PICK row \in SessionRow :
            /\ pins' = [pins EXCEPT ![s] = row] /\ row.pin = pins[s].pin /\ row.status # "none"
      <3>1. pins \in [LocalSession -> SessionRow] /\ pins[s] \in SessionRow
        BY <2>1, ContentShapes DEF CacheInv
      <3>2. CASE AnswerPinned(t)
        <4>1. /\ [pins[s] EXCEPT !.owing = TRUE, !.synced = FALSE] \in SessionRow
              /\ [pins[s] EXCEPT !.owing = TRUE, !.synced = FALSE].pin = pins[s].pin
              /\ [pins[s] EXCEPT !.owing = TRUE, !.synced = FALSE].status = pins[s].status
          BY <3>1 DEF SessionRow
        <4>2. QED
          BY <2>1, <3>2, <4>1 DEF AnswerPinned
      <3>3. CASE CompletePinned(t) /\ pins[s].status # "purged"
        <4>1. /\ [pins[s] EXCEPT !.status = "completed", !.synced = FALSE] \in SessionRow
              /\ [pins[s] EXCEPT !.status = "completed", !.synced = FALSE].pin = pins[s].pin
              /\ [pins[s] EXCEPT !.status = "completed", !.synced = FALSE].status # "none"
          BY <3>1 DEF SessionRow
        <4>2. QED
          BY <3>3, <4>1 DEF CompletePinned
      <3>4. CASE CompletePinned(t) /\ pins[s].status = "purged"
        <4>1. pins' = [pins EXCEPT ![s] = pins[s]]
          BY <3>1, <3>4 DEF CompletePinned
        <4>2. QED
          BY <2>1, <3>1, <4>1
      <3>5. QED
        BY <1>1, <3>2, <3>3, <3>4
    <2>3. /\ pins' \in [LocalSession -> SessionRow] /\ pins'[s] = row
          /\ \A r \in LocalSession : r # s => pins'[r] = pins[r]
      BY <2>1, <2>2, ContentShapes DEF CacheInv
    <2>4. /\ strays' = IF pins[s].status = "active" THEN strays ELSE strays \cup {s}
          /\ UNCHANGED <<published, cachedRows, started>>
      BY <1>1 DEF AnswerPinned, CompletePinned, StraysAfter
    <2>5. /\ opened' \in [Page -> OpenedPage] /\ prune' \in [Page -> PruneState]
          /\ \A u \in Page : opened'[u] = opened[u] \/ opened'[u].step = "done"
      <3>1. CASE AnswerPinned(t)
        BY <3>1, ContentShapes DEF AnswerPinned, CacheInv
      <3>2. CASE CompletePinned(t)
        BY <3>2, ContentShapes, EmptyShapes DEF CompletePinned, CacheInv, PruneState
      <3>3. QED
        BY <1>1, <3>1, <3>2
    <2>6. ContentTypeOK'
      BY <2>1, <2>3, <2>4, <2>5, ContentShapes
         DEF CacheInv, ContentTypeOK, OpenedPage, SessionRow, PruneState
    <2>7. PageInv'
      BY <2>1, <2>2, <2>3, <2>5 DEF CacheInv, PageInv, LocalSession, Version_
    <2>8. QED
      BY <2>1, <2>2, <2>3, <2>4, <2>6, <2>7 DEF Needs, LocalSession
  <1>2. ASSUME NEW s \in LocalSession, UploadPinned(s)
        PROVE  /\ ContentTypeOK' /\ PageInv' /\ strays \subseteq strays'
               /\ \A r \in LocalSession :
                    /\ pins'[r].pin = pins[r].pin
                    /\ pins'[r].status # "none" => pins[r].status # "none"
                    /\ r \notin strays' /\ Needs(r)' => Needs(r)
    <2>1. pins \in [LocalSession -> SessionRow] /\ pins[s] \in SessionRow
      BY ContentShapes DEF CacheInv
    <2>2. PICK row \in SessionRow :
            /\ pins' = [pins EXCEPT ![s] = row] /\ row.pin = pins[s].pin
            /\ row.status # "none" <=> pins[s].status # "none"
            /\ row.status # pins[s].status => row.status = "purged"
            /\ (row.owing => pins[s].owing) /\ (pins[s].synced => row.synced)
      <3>1. CASE pins' = [pins EXCEPT ![s].owing = FALSE]
        <4>1. /\ [pins[s] EXCEPT !.owing = FALSE] \in SessionRow
              /\ \A x \in {"pin", "status", "synced", "owing"} \ {"owing"} :
                    [pins[s] EXCEPT !.owing = FALSE][x] = pins[s][x]
              /\ [pins[s] EXCEPT !.owing = FALSE].owing = FALSE
          BY <2>1 DEF SessionRow
        <4>2. pins' = [pins EXCEPT ![s] = [pins[s] EXCEPT !.owing = FALSE]]
          BY <2>1, <3>1
        <4>3. QED
          BY <3>1, <4>1, <4>2
      <3>2. CASE pins' = [pins EXCEPT ![s].synced = TRUE]
        <4>1. /\ [pins[s] EXCEPT !.synced = TRUE] \in SessionRow
              /\ \A x \in {"pin", "status", "synced", "owing"} \ {"synced"} :
                    [pins[s] EXCEPT !.synced = TRUE][x] = pins[s][x]
              /\ [pins[s] EXCEPT !.synced = TRUE].synced = TRUE
          BY <2>1 DEF SessionRow
        <4>2. pins' = [pins EXCEPT ![s] = [pins[s] EXCEPT !.synced = TRUE]]
          BY <2>1, <3>2
        <4>3. QED
          BY <3>2, <4>1, <4>2
      <3>3. CASE pins' = [pins EXCEPT ![s].status = "purged"] /\ pins[s].status = "completed"
        <4>1. /\ [pins[s] EXCEPT !.status = "purged"] \in SessionRow
              /\ \A x \in {"pin", "status", "synced", "owing"} \ {"status"} :
                    [pins[s] EXCEPT !.status = "purged"][x] = pins[s][x]
              /\ [pins[s] EXCEPT !.status = "purged"].status = "purged"
          BY <2>1 DEF SessionRow
        <4>2. pins' = [pins EXCEPT ![s] = [pins[s] EXCEPT !.status = "purged"]]
          BY <2>1, <3>3
        <4>3. QED
          BY <3>3, <4>1, <4>2
      <3>4. QED
        BY <1>2, <3>1, <3>2, <3>3 DEF UploadPinned
    <2>3. /\ pins' \in [LocalSession -> SessionRow] /\ pins'[s] = row
          /\ \A r \in LocalSession : r # s => pins'[r] = pins[r]
          /\ UNCHANGED <<published, cachedRows, opened, started, prune, strays>>
      BY <1>2, <2>1, <2>2 DEF UploadPinned
    <2>4. ContentTypeOK'
      BY <2>3, ContentShapes DEF CacheInv, ContentTypeOK, SessionRow
    <2>5. PageInv'
      BY <2>2, <2>3 DEF CacheInv, PageInv, LocalSession, Version_
    <2>6. ASSUME NEW r \in LocalSession, Needs(r)' PROVE Needs(r)
      BY <2>2, <2>3, <2>6 DEF Needs, SessionRow
    <2>7. QED
      BY <2>2, <2>3, <2>4, <2>5, <2>6
  <1>3. /\ ContentTypeOK' /\ PageInv' /\ strays \subseteq strays'
        /\ \A r \in LocalSession :
                /\ pins'[r].pin = pins[r].pin
                /\ pins'[r].status # "none" => pins[r].status # "none"
                /\ r \notin strays' /\ Needs(r)' => Needs(r)
    BY <1>1, <1>2
  <1>4. /\ UNCHANGED cachedRows
        /\ \A u \in Page : /\ prune'[u].rows = prune[u].rows /\ prune'[u].keep = prune[u].keep
                           /\ prune'[u].step = "deleting" => prune[u].step = "deleting"
                           /\ opened'[u].step = "welcome" => opened'[u] = opened[u]
    <2>1. CASE UNCHANGED <<cachedRows, opened, prune>>
      BY <2>1
    <2>2. ASSUME NEW t \in Page, CompletePinned(t)
          PROVE  /\ UNCHANGED cachedRows
                 /\ \A u \in Page :
                        /\ prune'[u].rows = prune[u].rows /\ prune'[u].keep = prune[u].keep
                        /\ prune'[u].step = "deleting" => prune[u].step = "deleting"
                        /\ opened'[u].step = "welcome" => opened'[u] = opened[u]
      BY <2>2, ContentShapes, EmptyShapes DEF CompletePinned, CacheInv, PruneState
    <2>3. QED
      BY <2>1, <2>2 DEF AnswerPinned, UploadPinned
  <1>5. CoverInv'
    BY <1>3, <1>4 DEF CacheInv, CoverInv, Covered, LocalSession
  <1>6. ProtectInv' /\ PinnedVersionIsCached'
    BY <1>3, <1>4 DEF CacheInv, ProtectInv, PinnedVersionIsCached, LocalSession
  <1>7. QED
    BY <1>3, <1>5, <1>6 DEF CacheInv

LEMMA CloseKeeps ==
    ASSUME CacheInv, NEW t \in Page, ClosePage(t)
    PROVE  CacheInv'
  <1>1. /\ opened' \in [Page -> OpenedPage] /\ opened'[t] = ClosedPage
        /\ prune' \in [Page -> PruneState] /\ prune'[t] = NoPrune
        /\ \A u \in Page : u # t => opened'[u] = opened[u] /\ prune'[u] = prune[u]
        /\ UNCHANGED <<published, cachedRows, pins, started, strays>>
    BY ContentShapes, EmptyShapes DEF ClosePage, CacheInv
  <1>2. ContentTypeOK'
    BY <1>1, ContentShapes DEF CacheInv, ContentTypeOK, OpenedPage, PruneState
  <1>3. QED
    BY <1>1, <1>2, EmptyShapes
       DEF CacheInv, CoverInv, Covered, PageInv, ProtectInv, PinnedVersionIsCached, Needs

(* The prune reads the rows and then the sessions' needs.                   *)
LEMMA ReadKeeps ==
    ASSUME CacheInv, NEW t \in Page, ReadRows(t) \/ ReadSessions(t)
    PROVE  CacheInv'
  <1> DEFINE needed == {pins[s].pin : s \in {r \in LocalSession : Needs(r)}}
  <1>1. PICK p \in PruneState :
            /\ prune' = [prune EXCEPT ![t] = p]
            /\ \/ p.step = "rows" /\ p.rows = cachedRows
               \/ p.step = "deleting" /\ p.rows = prune[t].rows /\ p.keep = needed
    <2>1. prune[t] \in PruneState /\ cachedRows \subseteq Version_
      BY ContentShapes DEF CacheInv
    <2>2. CASE ReadRows(t)
      <3>1. [prune[t] EXCEPT !.step = "rows", !.rows = cachedRows] \in PruneState
        BY <2>1 DEF PruneState
      <3>2. QED
        BY <2>1, <2>2, <3>1 DEF ReadRows, PruneState
    <2>3. CASE ReadSessions(t)
      <3>1. needed \subseteq Version_
        BY DEF Needs, CacheInv, PageInv
      <3>2. [prune[t] EXCEPT !.step = "deleting", !.keep = needed] \in PruneState
        BY <2>1, <3>1 DEF PruneState
      <3>3. QED
        BY <2>1, <2>3, <3>2 DEF ReadSessions, PruneState
    <2>4. QED
      BY <2>2, <2>3
  <1>2. /\ prune' \in [Page -> PruneState] /\ prune'[t] = p
        /\ \A u \in Page : u # t => prune'[u] = prune[u]
        /\ UNCHANGED <<published, cachedRows, opened, pins, started, strays>>
    BY <1>1, ContentShapes DEF ReadRows, ReadSessions, CacheInv
  <1>3. ContentTypeOK'
    BY <1>2, ContentShapes DEF CacheInv, ContentTypeOK, PruneState
  <1>4. CoverInv'
    <2>1. \A r \in cachedRows : r \in Nat
      BY DEF CacheInv, ContentTypeOK, Version_
    <2>2. \A r \in cachedRows : r <= r
      BY <2>1
    <2>3. \A r \in cachedRows : Covered(r)
      BY <2>2 DEF Covered
    <2>4. \A r \in prune[t].rows : Covered(r)
      BY DEF CacheInv, CoverInv
    <2>5. \A r \in p.rows : Covered(r)
      BY <1>1, <2>3, <2>4
    <2>6. QED
      BY <1>2, <2>5 DEF CacheInv, CoverInv, Covered
  <1>5. ProtectInv'
    BY <1>1, <1>2 DEF CacheInv, ProtectInv, Needs
  <1>6. QED
    BY <1>2, <1>3, <1>4, <1>5 DEF CacheInv, PageInv, PinnedVersionIsCached, Needs

(* A version a prune deletes is older than another it read, so something as *)
(* new stays, and no session needs it.                                      *)
LEMMA DeleteKeeps ==
    ASSUME CacheInv, NEW t \in Page, DeleteRow(t)
    PROVE  CacheInv'
  <1>1. CASE Doomed(t) = {}
    <2>1. /\ prune' \in [Page -> PruneState] /\ prune'[t] = NoPrune
          /\ \A u \in Page : u # t => prune'[u] = prune[u]
          /\ UNCHANGED <<published, cachedRows, opened, pins, started, strays>>
      BY <1>1, ContentShapes, EmptyShapes DEF DeleteRow, CacheInv
    <2>2. ContentTypeOK'
      BY <2>1, ContentShapes DEF CacheInv, ContentTypeOK, PruneState
    <2>3. QED
      BY <2>1, <2>2, EmptyShapes
         DEF CacheInv, CoverInv, Covered, PageInv, ProtectInv, PinnedVersionIsCached, Needs
  <1>2. CASE Doomed(t) # {}
    <2>1. PICK v \in Doomed(t) : cachedRows' = cachedRows \ {v}
      BY <1>2 DEF DeleteRow
    <2>2. UNCHANGED <<published, opened, pins, started, strays, prune>> /\ prune[t].step = "deleting"
      BY <1>2 DEF DeleteRow
    <2> DEFINE newest == Max(prune[t].rows)
    <2>3. /\ v \in prune[t].rows /\ v \notin prune[t].keep /\ v # newest
          /\ v \in Nat /\ newest \in Nat /\ newest \in prune[t].rows /\ v < newest
      <3>1. v \in prune[t].rows /\ v \notin prune[t].keep /\ v # newest
        BY <2>1 DEF Doomed
      <3>2. prune[t].rows \in SUBSET Version_ /\ prune[t].rows # {}
        BY <3>1, ContentShapes DEF CacheInv, PruneState
      <3>3. newest \in prune[t].rows /\ v <= newest
        BY <3>1, <3>2, NewestVersion
      <3>4. QED
        BY <3>1, <3>2, <3>3 DEF Version_
    <2> HIDE DEF newest
    <2>4. PICK w \in cachedRows : newest <= w
      BY <2>3 DEF CacheInv, CoverInv, Covered
    <2>5. ASSUME NEW x \in Nat, Covered(x) PROVE Covered(x)'
      <3>1. PICK u \in cachedRows : x <= u
        BY <2>5 DEF Covered
      <3>2. u \in Nat /\ w \in Nat
        BY DEF CacheInv, ContentTypeOK, Version_
      <3>3. CASE u # v
        BY <2>1, <3>1, <3>3 DEF Covered
      <3>4. CASE u = v
        BY <2>1, <2>3, <2>4, <3>1, <3>2, <3>4 DEF Covered
      <3>5. QED
        BY <3>3, <3>4
    <2>6. /\ \A u \in Page : opened[u].version \in Nat
          /\ \A s \in LocalSession : pins[s].pin \in Nat
          /\ \A u \in Page : prune[u].rows \subseteq Nat
      BY ContentShapes DEF CacheInv, OpenedPage, SessionRow, PruneState, Version_
    <2>7. CoverInv'
      BY <2>2, <2>5, <2>6 DEF CacheInv, CoverInv, LocalSession
    <2>8. PinnedVersionIsCached'
      <3> SUFFICES ASSUME NEW s \in LocalSession \ strays, Needs(s) PROVE pins[s].pin # v
        BY <2>1, <2>2 DEF CacheInv, PinnedVersionIsCached, Needs, LocalSession
      <3>1. pins[s].pin \in prune[t].keep \/ newest <= pins[s].pin
        BY <2>2, <2>3 DEF CacheInv, ProtectInv
      <3>2. QED
        BY <2>3, <2>6, <3>1
    <2>9. ContentTypeOK' /\ PageInv' /\ ProtectInv'
      BY <2>1, <2>2
         DEF CacheInv, ContentTypeOK, PageInv, ProtectInv, Needs, LocalSession, Version_
    <2>10. QED
      BY <2>7, <2>8, <2>9 DEF CacheInv
  <1>3. QED
    BY <1>1, <1>2

LEMMA StepCache == CacheInv /\ [ContentNext]_contentVars => CacheInv'
  <1> SUFFICES ASSUME CacheInv, [ContentNext]_contentVars PROVE CacheInv'
    OBVIOUS
  <1>1. CASE ContentNext
    BY <1>1, FetchKeeps, LoadKeeps, StartKeeps, SessionKeeps, CloseKeeps, ReadKeeps, DeleteKeeps
       DEF ContentNext
  <1>2. CASE UNCHANGED contentVars
    BY <1>2
       DEF CacheInv, ContentTypeOK, CoverInv, Covered, PageInv, ProtectInv,
           PinnedVersionIsCached, Needs, LocalSession, Version_, contentVars
  <1>3. QED
    BY <1>1, <1>2

(* The variables of the content cache keep to their types.                  *)
THEOREM CacheKeepsItsTypes == ContentSpec => []ContentTypeOK
  <1>1. CacheInv => ContentTypeOK
    BY DEF CacheInv
  <1>2. QED
    BY <1>1, InitCache, StepCache, PTL DEF ContentSpec

(* The version a session was started on stays cached while the session is   *)
(* active or owes data, whatever the prunes of any number of tabs had read  *)
(* (pruneDefinitions, protectedVersionKeys).                                *)
THEOREM PinnedStaysCached == ContentSpec => []PinnedVersionIsCached
  <1>1. CacheInv => PinnedVersionIsCached
    BY DEF CacheInv
  <1>2. QED
    BY <1>1, InitCache, StepCache, PTL DEF ContentSpec

-----------------------------------------------------------------------------
(* The storing of answers.                                                  *)

(* A retry walks answers that are on the list, and gives back such answers. *)
StorageInv ==
    StorageTypeOK /\ queued \cup stillUnstored \subseteq unstored /\ LossIsReported

(* FirstAsked finds a question, or the place past the last.                 *)
LEMMA FirstAskedIsAPlace ==
    ASSUME NEW from \in Nat \ {0}, NEW skipped
    PROVE  FirstAsked(from, skipped) \in 1 .. LastQuestion + 1
  <1> DEFINE S == {q \in from .. LastQuestion : q \notin skipped} \cup {LastQuestion + 1}
  <1>1. S \in SUBSET Nat /\ S # {} /\ S \subseteq 1 .. LastQuestion + 1
    BY StorageAssumption
  <1>2. Min(S) \in S
    <2> HIDE DEF S
    <2>1. QED
      BY <1>1, MinIsLeast
  <1>3. QED
    BY <1>1, <1>2 DEF FirstAsked

LEMMA InitStorage == StorageInit => StorageInv
  <1> SUFFICES ASSUME StorageInit PROVE StorageInv
    OBVIOUS
  <1>1. 1 \in 1 .. LastQuestion + 1 /\ 0 \in 0 .. MaxFail /\ 1 \in 1 .. MaxLoads
    BY StorageAssumption
  <1>2. StorageTypeOK
    BY <1>1 DEF StorageInit, StorageTypeOK
  <1>3. QED
    BY <1>2 DEF StorageInit, StorageInv, LossIsReported

LEMMA CommitKeeps == StorageInv /\ (CommitAnswer \/ StoreSnapshot) => StorageInv'
  <1> SUFFICES ASSUME StorageInv, CommitAnswer \/ StoreSnapshot PROVE StorageInv'
    OBVIOUS
  <1>1. CASE CommitAnswer
    <2>1. captured' \in Snapshot /\ cursor' \in 1 .. LastQuestion + 1 /\ ended' \in BOOLEAN
      BY <1>1, StorageAssumption
         DEF StorageInv, StorageTypeOK, CommitAnswer, Snapshot, Asked
    <2>2. StorageTypeOK'
      BY <1>1, <2>1 DEF StorageInv, StorageTypeOK, CommitAnswer, haltVars, lostVars
    <2>3. queued' \cup stillUnstored' \subseteq unstored'
      BY <1>1 DEF StorageInv, CommitAnswer, haltVars
    <2>4. LossIsReported'
      BY <1>1 DEF StorageInv, LossIsReported, CommitAnswer, haltVars, lostVars
    <2>5. QED
      BY <2>2, <2>3, <2>4 DEF StorageInv
  <1>2. CASE StoreSnapshot
    BY <1>2
       DEF StorageInv, StorageTypeOK, LossIsReported, StoreSnapshot, runVars, rowVars, haltVars,
           lostVars
  <1>3. QED
    BY <1>1, <1>2

LEMMA WriteKeeps ==
    ASSUME StorageInv, NEW q \in Asked, StoreAnswer(q) \/ FailAnswer(q)
    PROVE  StorageInv'
  <1>1. CASE StoreAnswer(q)
    BY <1>1
       DEF StorageInv, StorageTypeOK, LossIsReported, StoreAnswer, runVars, haltVars, lostVars,
           snapshotVars
  <1>2. CASE FailAnswer(q)
    <2>1. fails' \in 0 .. MaxFail /\ corrupt' \subseteq Asked
      BY <1>2, StorageAssumption DEF StorageInv, StorageTypeOK, FailAnswer, WriteThrows
    <2>2. StorageTypeOK'
      BY <1>2, <2>1 DEF StorageInv, StorageTypeOK, FailAnswer, snapshotVars
    <2>3. QED
      BY <1>2, <2>2 DEF StorageInv, StorageTypeOK, LossIsReported, FailAnswer
  <1>3. QED
    BY <1>1, <1>2

LEMMA RetryKeeps ==
    ASSUME StorageInv,
           StartRetry \/ EndRetry \/ \E q \in Asked : RetryStores(q) \/ RetryFails(q)
    PROVE  StorageInv'
  <1>1. CASE StartRetry
    BY <1>1
       DEF StorageInv, StorageTypeOK, LossIsReported, StartRetry, runVars, rowVars, lostVars,
           snapshotVars
  <1>2. ASSUME NEW q \in Asked, RetryStores(q) PROVE StorageInv'
    BY <1>2
       DEF StorageInv, StorageTypeOK, LossIsReported, RetryStores, runVars, lostVars, snapshotVars
  <1>3. ASSUME NEW q \in Asked, RetryFails(q) PROVE StorageInv'
    <2>1. fails' \in 0 .. MaxFail /\ corrupt' \subseteq Asked
      BY <1>3, StorageAssumption DEF StorageInv, StorageTypeOK, RetryFails, WriteThrows
    <2>2. StorageTypeOK'
      BY <1>3, <2>1 DEF StorageInv, StorageTypeOK, RetryFails, runVars, lostVars, snapshotVars
    <2>3. QED
      BY <1>3, <2>2 DEF StorageInv, LossIsReported, RetryFails, runVars, lostVars
  <1>4. CASE EndRetry
    BY <1>4
       DEF StorageInv, StorageTypeOK, LossIsReported, EndRetry, rowVars, snapshotVars
  <1>5. QED
    BY <1>1, <1>2, <1>3, <1>4

LEMMA ReloadKeeps == StorageInv /\ ReloadRun => StorageInv'
  <1> SUFFICES ASSUME StorageInv, ReloadRun PROVE StorageInv'
    OBVIOUS
  <1>1. cursor' \in 1 .. LastQuestion + 1 /\ ended' \in BOOLEAN
    <2>1. CASE Stored = {}
      <3>1. cursor' = 1 /\ ended' = FALSE
        BY <2>1 DEF ReloadRun
      <3>2. 1 \in 1 .. LastQuestion + 1
        BY StorageAssumption
      <3>3. QED
        BY <3>1, <3>2
    <2>2. CASE Stored # {}
      <3>1. /\ cursor' = IF storedCursor = NoSnapshot
                         THEN FirstAsked(1, Stored)
                         ELSE FirstAsked(storedCursor.at, storedCursor.presented)
            /\ ended' = (cursor' > LastQuestion)
        BY <2>2 DEF ReloadRun
      <3>2. FirstAsked(1, Stored) \in 1 .. LastQuestion + 1
        BY FirstAskedIsAPlace
      <3>3. storedCursor # NoSnapshot =>
                FirstAsked(storedCursor.at, storedCursor.presented) \in 1 .. LastQuestion + 1
        <4>1. storedCursor # NoSnapshot => storedCursor.at \in Nat \ {0}
          BY StorageAssumption DEF StorageInv, StorageTypeOK, Snapshot, Asked
        <4>2. QED
          BY <4>1, FirstAskedIsAPlace
      <3>4. cursor' \in 1 .. LastQuestion + 1
        BY <3>1, <3>2, <3>3
      <3>5. (cursor' > LastQuestion) \in BOOLEAN
        OBVIOUS
      <3>6. QED
        BY <3>1, <3>4, <3>5
    <2>3. QED
      BY <2>1, <2>2
  <1>2. given' \subseteq Asked /\ loads' \in 1 .. MaxLoads
    BY StorageAssumption DEF ReloadRun, Stored, StorageInv, StorageTypeOK
  <1>3. StorageTypeOK'
    BY <1>1, <1>2 DEF StorageInv, StorageTypeOK, ReloadRun
  <1>4. QED
    BY <1>3 DEF StorageInv, LossIsReported, ReloadRun

LEMMA StepStorage == StorageInv /\ [StorageNext]_storageVars => StorageInv'
  <1> SUFFICES ASSUME StorageInv, [StorageNext]_storageVars PROVE StorageInv'
    OBVIOUS
  <1>1. CASE StorageNext
    BY <1>1, CommitKeeps, WriteKeeps, RetryKeeps, ReloadKeeps DEF StorageNext
  <1>2. CASE UNCHANGED storageVars
    BY <1>2
       DEF StorageInv, StorageTypeOK, LossIsReported, storageVars, runVars, rowVars, haltVars,
           lostVars, snapshotVars
  <1>3. QED
    BY <1>1, <1>2

(* The variables of the storing of answers keep to their types; a resume    *)
(* starts at a question or past the last.                                   *)
THEOREM StorageKeepsItsTypes == StorageSpec => []StorageTypeOK
  <1>1. StorageInv => StorageTypeOK
    BY DEF StorageInv
  <1>2. QED
    BY <1>1, InitStorage, StepStorage, PTL DEF StorageSpec

(* An answer that is neither stored nor being written is on the list of     *)
(* unstored answers, unless a retry replaced the list by an older one's     *)
(* rest, and is a dead letter in the ledger, unless the ledger refused it;  *)
(* and the run does not go on while answers are known to be unstored        *)
(* (handlePersistenceFailure, retryFailedPersistence).                      *)
THEOREM LossStaysReported == StorageSpec => []LossIsReported
  <1>1. StorageInv => LossIsReported
    BY DEF StorageInv
  <1>2. QED
    BY <1>1, InitStorage, StepStorage, PTL DEF StorageSpec

-----------------------------------------------------------------------------
(* The walk through the questionnaire.                                      *)

(* What is on the screen is the item the cursor is at, on a visible page;   *)
(* only its deadline is armed; a run that ended presents nothing more.      *)
ScreenInv ==
    /\ goal # 0 /\ item # 0 /\ snapshot.item # 0
    /\ shown # NoItem =>
        /\ item \in DOMAIN Pages[page] /\ shown = Pages[page][item]
        /\ shown \notin answered
    /\ questionTimer # NoItem => shown = questionTimer
    /\ step = "show" => shown = NoItem
    /\ step = "flow" => item > Len(Pages[page])
    /\ status # "in_progress" => ~running /\ step = "idle"
    /\ page \in HiddenPage =>
        /\ step \notin {"show", "flow"} /\ shown = NoItem /\ current = NoItem
        /\ autoTimer = NoItem /\ (step = "idle" => status # "in_progress")
    /\ landing # 0 /\ status = "in_progress" =>
        /\ step = "navigate" /\ current = NoItem
        /\ goal = snapshot.page /\ landing = snapshot.item
    /\ snapshot.page \in HiddenPage => snapshot.item = 1

(* Before the cursor, and before the place a reload goes back to, every     *)
(* question is accounted for.                                               *)
Accounted == AnsweredItems \cup HiddenItem \cup overrun
Walked(g) ==
    \A p \in PageNo \ (HiddenPage \cup leftEarly) :
        p < g => ItemsOf(p) \cap Question \subseteq Accounted
Passed(p, i) ==
    \A j \in DOMAIN Pages[p] : j < i /\ Pages[p][j] \in Question => Pages[p][j] \in Accounted
(* An answer may yet be taken at the cursor, at the end too; or the run is  *)
(* on its way to another page.                                              *)
OnItem == status = "in_progress" \/ shown # NoItem
Leaving == status = "in_progress" /\ step \in {"start", "navigate"}
WalkInv ==
    /\ OnItem => Walked(page) /\ Passed(page, item)
    /\ Leaving => Walked(goal)
    /\ Walked(snapshot.page) /\ Passed(snapshot.page, snapshot.item)
    /\ answered \subseteq AnsweredItems /\ snapshot.presented = AnsweredItems

(* What was answered in this pass, and not before the last reload, lies     *)
(* before the cursor; no earlier pass had looped or gone back as often.     *)
Before(x, p, i) ==
    \E q \in PageNo : \E j \in DOMAIN Pages[q] :
        Pages[q][j] = x /\ (q < p \/ (q = p /\ j < i))
InPass(k) ==
    /\ responses[k].loops = loops /\ responses[k].rewinds = rewinds
    /\ responses[k].item \notin answered
PassInv ==
    /\ \A k \in DOMAIN responses : InPass(k) =>
            /\ OnItem => Before(responses[k].item, page, item)
            /\ Leaving => Before(responses[k].item, goal, 1)
    /\ \A k \in DOMAIN responses :
            /\ responses[k].rewinds <= rewinds
            /\ \A r \in LoopRule : responses[k].loops[r] <= snapshot.loops[r]
    /\ \A r \in LoopRule : snapshot.loops[r] <= loops[r]

(* An item has one place in the questionnaire.                              *)
OnePlace ==
    \A p, q \in PageNo : \A i \in DOMAIN Pages[p], j \in DOMAIN Pages[q] :
        Pages[p][i] = Pages[q][j] => p = q /\ i = j

FlowInv ==
    /\ FlowTypeOK /\ ScreenInv /\ WalkInv /\ NaturalEndIsWhole
    /\ PassInv /\ (OnePlace => AskedOncePerPass)

LEMMA PageFacts ==
    /\ Len(Pages) \in Nat \ {0} /\ PageNo = 1 .. Len(Pages)
    /\ \A p \in PageNo :
        /\ Pages[p] \in Seq(Item) /\ Len(Pages[p]) \in Nat
        /\ DOMAIN Pages[p] = 1 .. Len(Pages[p])
        /\ \A i \in DOMAIN Pages[p] : Pages[p][i] \in Item
        /\ ItemsOf(p) = {Pages[p][i] : i \in DOMAIN Pages[p]}
  <1>1. Pages \in Seq(Seq(Item)) /\ Pages # << >>
    BY FlowAssumption
  <1>2. Len(Pages) \in Nat \ {0} /\ PageNo = 1 .. Len(Pages)
    BY <1>1 DEF PageNo
  <1>3. \A p \in PageNo : Pages[p] \in Seq(Item)
    BY <1>1, <1>2
  <1>4. QED
    BY <1>2, <1>3 DEF ItemsOf

LEMMA RuleFacts ==
    ASSUME NEW r \in Rules
    PROVE  /\ r.source \in PageNo /\ r.target \in PageNo /\ r.iterations \in Nat
           /\ r.type = "loop" => r \in LoopRule
  BY FlowAssumption DEF LoopRule

(* The next visible page from a page on, or the place past the last.        *)
LEMMA NextVisibleFacts ==
    ASSUME NEW g \in Nat \ {0}
    PROVE  /\ NextVisible(g) \in Nat
           /\ NextVisible(g) <= Len(Pages) =>
                /\ NextVisible(g) \in PageNo \ HiddenPage /\ g <= NextVisible(g)
           /\ \A q \in PageNo : g <= q /\ q < NextVisible(g) => q \in HiddenPage
  <1> DEFINE S == {q \in g .. Len(Pages) : q \notin HiddenPage} \cup {Len(Pages) + 1}
             m == Min(S)
  <1>1. S \in SUBSET Nat /\ S # {}
    BY PageFacts
  <1>2. m \in S /\ \A y \in S : m <= y
    BY <1>1, MinIsLeast
  <1>3. NextVisible(g) = m
    BY DEF NextVisible
  <1> HIDE DEF m
  <1>4. m \in Nat /\ (m <= Len(Pages) => m \in PageNo \ HiddenPage /\ g <= m)
    BY <1>2, PageFacts
  <1>5. ASSUME NEW q \in PageNo, g <= q, q < m PROVE q \in HiddenPage
    <2>1. q \notin S
      BY <1>2, <1>4, <1>5, PageFacts
    <2>2. QED
      BY <1>5, <2>1, PageFacts
  <1>6. QED
    BY <1>3, <1>4, <1>5

LEMMA InitFlow == FlowInit => FlowInv
  <1> SUFFICES ASSUME FlowInit PROVE FlowInv
    OBVIOUS
  <1>1. /\ 1 \in PageNo /\ 0 \in 0 .. MaxHalts /\ 0 \in 0 .. MaxReloads /\ 0 \in 0 .. MaxRewinds
        /\ NoLoops \in [LoopRule -> Nat]
    BY PageFacts, FlowAssumption DEF NoLoops
  <1>2. /\ FreshState.page = 1 /\ FreshState.item = 1 /\ FreshState.loops = NoLoops
        /\ FreshState.presented = {}
        /\ FreshState \in [page : PageNo, item : Nat, loops : [LoopRule -> Nat],
                           presented : SUBSET Question]
    BY <1>1 DEF FreshState
  <1>3. FlowTypeOK
    <2>1. responses \in Seq(Response)
      BY DEF FlowInit
    <2>2. /\ snapshot \in [page : PageNo, item : Nat, loops : [LoopRule -> Nat],
                          presented : SUBSET Question]
          /\ loops \in [LoopRule -> Nat] /\ page \in PageNo /\ answered \subseteq Question
          /\ halts \in 0 .. MaxHalts /\ reloads \in 0 .. MaxReloads
          /\ rewinds \in 0 .. MaxRewinds
      BY <1>1, <1>2 DEF FlowInit
    <2>3. QED
      BY <2>1, <2>2 DEF FlowInit, FlowTypeOK
  <1>4. ScreenInv
    BY <1>2 DEF FlowInit, ScreenInv
  <1>5. AnsweredItems = {} /\ DOMAIN responses = {}
    BY DEF FlowInit, AnsweredItems
  <1>6. Walked(1) /\ Passed(1, 1)
    BY PageFacts DEF Walked, Passed
  <1>7. WalkInv
    BY <1>2, <1>5, <1>6 DEF FlowInit, WalkInv, OnItem, Leaving
  <1>8. PassInv
    BY <1>1, <1>2, <1>5 DEF FlowInit, PassInv
  <1>9. NaturalEndIsWhole /\ AskedOncePerPass
    BY <1>5 DEF FlowInit, NaturalEndIsWhole, AskedOncePerPass
  <1>10. QED
    BY <1>3, <1>4, <1>7, <1>8, <1>9 DEF FlowInv

-----------------------------------------------------------------------------
(* The types.                                                               *)

LEMMA CommitTypes ==
    ASSUME FlowTypeOK, NEW x \in Question, Commit(x)
    PROVE  FlowTypeOK'
  <1> DEFINE made == [item |-> x, loops |-> loops, rewinds |-> rewinds]
  <1>1. responses \in Seq(Response) /\ made \in Response /\ responses' = Append(responses, made)
    BY DEF FlowTypeOK, Commit, Response
  <1> HIDE DEF made
  <1>2. responses' \in Seq(Response) /\ \A i \in DOMAIN responses' : responses'[i].item \in Question
    <2>1. \A a \in Response : a.item \in Question
      BY DEF Response
    <2>2. responses' \in Seq(Response)
      BY <1>1
    <2>3. \A i \in DOMAIN responses' : responses'[i] \in Response
      BY <2>2
    <2>4. QED
      BY <2>1, <2>2, <2>3
  <1>3. snapshot' \in [page : PageNo, item : Nat, loops : [LoopRule -> Nat],
                       presented : SUBSET Question]
    BY <1>2 DEF FlowTypeOK, Commit
  <1>4. /\ shown' = NoItem /\ questionTimer' = NoItem /\ item' = item + 1
        /\ step' \in {"show", "idle"}
        /\ UNCHANGED <<running, paused, page, current, goal, autoTimer, pageTimer,
                       surveyTimer, loops, rewinds, answered, landing, status, mounted>>
        /\ UNCHANGED historyVars
    BY DEF Commit, MoveOn, passVars, outcomeVars
  <1>5. QED
    BY <1>2, <1>3, <1>4 DEF FlowTypeOK, historyVars

LEMMA CompleteTypes ==
    ASSUME FlowTypeOK, NEW outcome \in {"completed", "screened_out", "timed_out"},
           Complete(outcome), leftEarly' \subseteq PageNo, UNCHANGED <<overrun, halts, reloads>>
    PROVE  FlowTypeOK'
  <1>1. /\ running' = FALSE /\ step' = "idle" /\ questionTimer' = NoItem
        /\ pageTimer' = 0 /\ surveyTimer' = FALSE
        /\ status' = outcome /\ completions' = completions + 1
        /\ UNCHANGED <<paused, page, item, current, shown, goal, autoTimer, responses>>
        /\ UNCHANGED <<loops, rewinds, answered, landing, snapshot, mounted>>
    BY DEF Complete, resumeVars, passVars
  <1>2. /\ completions' \in Nat
        /\ status' \in {"in_progress", "completed", "screened_out", "timed_out"}
    BY <1>1 DEF FlowTypeOK
  <1>3. QED
    BY <1>1, <1>2 DEF FlowTypeOK

LEMMA WalkTypes ==
    ASSUME FlowTypeOK, ScreenInv, Start \/ Refuse \/ NavigateToPage \/ ShowCurrentItem
    PROVE  FlowTypeOK'
  <1>1. CASE Start
    BY <1>1 DEF FlowTypeOK, Start, passVars, resumeVars, outcomeVars, historyVars
  <1>2. CASE Refuse
    BY <1>2 DEF FlowTypeOK, Refuse, timerVars, passVars, resumeVars, outcomeVars, historyVars
  <1>3. CASE NavigateToPage
    <2> DEFINE p == NextVisible(goal)
    <2>1. goal \in Nat \ {0}
      BY DEF FlowTypeOK, ScreenInv
    <2>2. p \in Nat /\ (p <= Len(Pages) => p \in PageNo)
      BY <2>1, NextVisibleFacts
    <2>3. CASE p > Len(Pages)
      <3>1. Complete("completed") /\ UNCHANGED <<leftEarly, overrun, halts, reloads>>
        BY <1>3, <2>3 DEF NavigateToPage
      <3>2. QED
        BY <3>1, CompleteTypes DEF FlowTypeOK
    <2>4. CASE ~(p > Len(Pages))
      <3>1. p \in PageNo
        BY <2>2, <2>4, PageFacts
      <3> HIDE DEF p
      <3>2. /\ page' = p /\ item' = IF landing # 0 THEN landing ELSE 1
            /\ landing' = 0 /\ shown' = NoItem /\ autoTimer' = NoItem
            /\ questionTimer' = NoItem
            /\ pageTimer' = IF PageLimit[p] = "none" THEN 0 ELSE p
            /\ step' = "show"
            /\ UNCHANGED <<running, paused, current, goal, surveyTimer, responses, loops,
                           rewinds, answered, snapshot, status, mounted, completions>>
            /\ UNCHANGED <<leftEarly, overrun, halts, reloads>>
        BY <1>3, <2>4 DEF NavigateToPage, passVars, outcomeVars, p
      <3>3. QED
        BY <3>1, <3>2 DEF FlowTypeOK
    <2>5. QED
      BY <2>3, <2>4
  <1>4. CASE ShowCurrentItem
    <2>1. /\ UNCHANGED <<running, paused, page, goal, pageTimer, surveyTimer, responses,
                         passVars, resumeVars, outcomeVars, historyVars>>
          /\ step' \in {"show", "idle", "flow"} /\ item' \in {item, item + 1}
      BY <1>4 DEF ShowCurrentItem, FlowTypeOK
    <2>2. /\ shown' \in Item \cup {NoItem} /\ current' \in Item \cup {NoItem}
          /\ questionTimer' \in Question \cup {NoItem}
          /\ autoTimer' \in AutoAdvance \cup {NoItem}
      <3>1. CASE UNCHANGED <<current, shown, autoTimer, questionTimer>>
        BY <3>1 DEF FlowTypeOK
      <3>2. CASE ~UNCHANGED <<current, shown, autoTimer, questionTimer>>
        <4> DEFINE x == Pages[page][item]
        <4>1. /\ ~(item > Len(Pages[page])) /\ current' = x /\ shown' = x
              /\ autoTimer' = IF x \in AutoAdvance THEN x ELSE autoTimer
              /\ questionTimer' = IF x \in Question /\ Deadline[x] # "none"
                                  THEN x ELSE questionTimer
          BY <1>4, <3>2 DEF ShowCurrentItem
        <4>2. item \in DOMAIN Pages[page] /\ page \in PageNo
          BY <4>1, PageFacts DEF FlowTypeOK, ScreenInv
        <4>3. x \in Item
          BY <4>2, PageFacts
        <4>4. QED
          BY <4>1, <4>3 DEF FlowTypeOK
      <3>3. QED
        BY <3>1, <3>2
    <2>3. QED
      BY <2>1, <2>2 DEF FlowTypeOK, passVars, resumeVars, outcomeVars, historyVars
  <1>5. QED
    BY <1>1, <1>2, <1>3, <1>4

LEMMA FollowTypes == ASSUME FlowTypeOK, FollowFlow PROVE FlowTypeOK'
  <1>1. page \in Nat /\ \A p, q \in Nat : 1 <= p /\ q <= Len(Pages) => p .. q \subseteq PageNo
    BY PageFacts DEF FlowTypeOK
  <1>2. CASE ScreenOut
    BY <1>2, CompleteTypes DEF ScreenOut, FlowTypeOK
  <1>3. CASE NextPage
    BY <1>1, <1>3
       DEF FlowTypeOK, NextPage, timerVars, passVars, resumeVars, outcomeVars, historyVars
  <1>4. CASE FollowRule
    <2>1. PICK r \in Rules :
            /\ r.source = page
            /\ \/ /\ r.type = "terminate"
                  /\ Complete("completed")
                  /\ leftEarly' = leftEarly \cup (page + 1) .. Len(Pages)
               \/ /\ r.type = "loop"
                  /\ IF loops[r] < r.iterations
                     THEN /\ loops' = [loops EXCEPT ![r] = @ + 1] /\ goal' = r.target
                          /\ leftEarly' = leftEarly \cup Between(page, r.target)
                     ELSE UNCHANGED <<loops, leftEarly>> /\ goal' = page + 1
                  /\ step' = "navigate" /\ rewinds' = rewinds
                  /\ UNCHANGED <<running, paused, page, item, current, shown, timerVars,
                                 responses, resumeVars, outcomeVars, completions>>
               \/ /\ r.type = "branch"
                  /\ goal' = r.target /\ step' = "navigate"
                  /\ leftEarly' = leftEarly \cup Between(page, r.target)
                  /\ rewinds' = rewinds \/ (rewinds < MaxRewinds /\ rewinds' = rewinds + 1)
                  /\ UNCHANGED <<running, paused, page, item, current, shown, timerVars,
                                 responses, loops, resumeVars, outcomeVars, completions>>
      BY <1>4 DEF FollowRule
    <2>2. /\ r.target \in PageNo /\ r.target \in Nat /\ Len(Pages) \in Nat
          /\ r.type = "loop" => r \in LoopRule
          /\ UNCHANGED <<overrun, halts, reloads>>
      BY <1>4, RuleFacts, PageFacts DEF FollowRule
    <2>3. Between(page, r.target) \subseteq PageNo /\ (page + 1) .. Len(Pages) \subseteq PageNo
      BY <1>1, <2>2, PageFacts DEF Between
    <2>4. CASE r.type = "terminate"
      BY <2>1, <2>2, <2>3, <2>4, CompleteTypes DEF FlowTypeOK
    <2>5. CASE r.type # "terminate"
      <3>1. /\ goal' \in Nat /\ leftEarly' \subseteq PageNo /\ loops' \in [LoopRule -> Nat]
        <4>1. CASE r.type = "loop" /\ loops[r] < r.iterations
          <5>1. loops[r] + 1 \in Nat
            BY <2>2, <4>1 DEF FlowTypeOK
          <5>2. QED
            BY <2>1, <2>2, <2>3, <4>1, <5>1 DEF FlowTypeOK
        <4>2. CASE ~(r.type = "loop" /\ loops[r] < r.iterations)
          <5>1. page + 1 \in Nat /\ goal' \in {page + 1, r.target}
            BY <1>1, <2>1, <2>5, <4>2
          <5>2. leftEarly' \in {leftEarly, leftEarly \cup Between(page, r.target)}
            BY <2>1, <2>5, <4>2
          <5>3. loops' = loops
            BY <2>1, <2>5, <4>2
          <5>4. QED
            BY <2>2, <2>3, <5>1, <5>2, <5>3 DEF FlowTypeOK
        <4>3. QED
          BY <4>1, <4>2
      <3>2. rewinds' \in 0 .. MaxRewinds
        BY <2>1, <2>5, FlowAssumption DEF FlowTypeOK
      <3>3. QED
        BY <2>1, <2>2, <2>5, <3>1, <3>2 DEF FlowTypeOK, timerVars, resumeVars, outcomeVars
    <2>6. QED
      BY <2>4, <2>5
  <1>5. QED
    BY <1>2, <1>3, <1>4 DEF FollowFlow

LEMMA EventTypes ==
    ASSUME FlowTypeOK, \/ Submit \/ Continue \/ AutoAdvanceFires \/ QuestionDeadline
                       \/ PageTimeout \/ SurveyTimeout \/ Halt \/ Unhalt \/ ShowEnd
                       \/ RetryShowsRun \/ Reload
    PROVE  FlowTypeOK'
  <1>1. CASE Submit
    BY <1>1, CommitTypes DEF Submit
  <1>2. CASE Continue
    BY <1>2 DEF FlowTypeOK, Continue, MoveOn, passVars, resumeVars, outcomeVars, historyVars
  <1>3. CASE AutoAdvanceFires
    <2>1. {Pages[page][i] : i \in {item} \cap DOMAIN Pages[page]} \subseteq Item
      BY PageFacts DEF FlowTypeOK
    <2>2. overrun' \subseteq Item
      BY <1>3, <2>1 DEF FlowTypeOK, AutoAdvanceFires
    <2>3. QED
      BY <1>3, <2>2 DEF FlowTypeOK, AutoAdvanceFires, MoveOn, passVars, resumeVars, outcomeVars
  <1>4. CASE QuestionDeadline
    <2>1. questionTimer \in Question
      BY <1>4 DEF FlowTypeOK, QuestionDeadline
    <2>2. CASE Commit(questionTimer)
      BY <2>1, <2>2, CommitTypes
    <2>3. CASE Complete("timed_out") /\ UNCHANGED <<leftEarly, overrun, halts, reloads>>
      BY <2>3, CompleteTypes DEF FlowTypeOK
    <2>4. CASE /\ questionTimer' = NoItem
               /\ UNCHANGED <<cursorVars, autoTimer, pageTimer, surveyTimer, responses, passVars,
                              resumeVars, outcomeVars, historyVars>>
      BY <2>4 DEF FlowTypeOK, cursorVars, passVars, resumeVars, outcomeVars, historyVars
    <2>5. QED
      BY <1>4, <2>2, <2>3, <2>4 DEF QuestionDeadline
  <1>5. CASE PageTimeout
    <2>1. CASE /\ Complete("timed_out") /\ UNCHANGED leftEarly
      BY <1>5, <2>1, CompleteTypes DEF FlowTypeOK, PageTimeout
    <2>2. CASE PageLimit[page] = "auto-advance"
      BY <1>5, <2>2, PageFacts DEF FlowTypeOK, PageTimeout, passVars, resumeVars, outcomeVars
    <2>3. QED
      BY <1>5, <2>1, <2>2 DEF PageTimeout
  <1>6. CASE SurveyTimeout
    <2>1. page .. Len(Pages) \subseteq PageNo
      BY PageFacts DEF FlowTypeOK
    <2>2. QED
      BY <1>6, <2>1, CompleteTypes DEF FlowTypeOK, SurveyTimeout
  <1>7. CASE Halt \/ RetryShowsRun
    <2>1. halts' \in 0 .. MaxHalts
      BY <1>7, FlowAssumption DEF FlowTypeOK, Halt, RetryShowsRun
    <2>2. QED
      BY <1>7, <2>1
         DEF FlowTypeOK, Halt, RetryShowsRun, cursorVars, timerVars, passVars, resumeVars,
             outcomeVars
  <1>8. CASE Unhalt \/ ShowEnd
    BY <1>8
       DEF FlowTypeOK, Unhalt, ShowEnd, cursorVars, timerVars, passVars, resumeVars, outcomeVars,
           historyVars
  <1>9. CASE Reload
    <2>1. reloads' \in 0 .. MaxReloads
      BY <1>9, FlowAssumption DEF FlowTypeOK, Reload
    <2>2. /\ snapshot.page \in PageNo /\ snapshot.page \in Nat /\ snapshot.item \in Nat
          /\ snapshot.loops \in [LoopRule -> Nat] /\ snapshot.presented \subseteq Question
      BY PageFacts DEF FlowTypeOK
    <2>3. QED
      BY <1>9, <2>1, <2>2 DEF FlowTypeOK, Reload, outcomeVars
  <1>10. QED
    BY <1>1, <1>2, <1>3, <1>4, <1>5, <1>6, <1>7, <1>8, <1>9

-----------------------------------------------------------------------------
(* The screen.                                                              *)

LEMMA ItemKinds ==
    /\ NoItem \notin Item /\ NoItem \notin Question /\ NoItem \notin Vetoing
    /\ NoItem \notin AutoAdvance /\ Question \subseteq Item
    /\ \A x \in AutoAdvance : x \in Item /\ x \notin Question
  BY FlowAssumption

LEMMA MoveOnScreen ==
    ASSUME FlowTypeOK, ScreenInv, step = "idle", MoveOn,
           UNCHANGED <<running, page, current, goal, answered, landing, status>>,
           autoTimer' \in {autoTimer, NoItem},
           \/ snapshot' = snapshot
           \/ snapshot'.page = page /\ snapshot'.item = item /\ shown # NoItem
    PROVE  ScreenInv'
  <1>1. /\ shown' = NoItem /\ questionTimer' = NoItem /\ item' = item + 1
        /\ step' \in {"show", "idle"} /\ (step' = "show" => running)
    BY DEF MoveOn
  <1>2. goal # 0 /\ item # 0 /\ item' # 0 /\ snapshot.item # 0 /\ snapshot'.item # 0
    BY <1>1 DEF FlowTypeOK, ScreenInv
  <1>3. page \in HiddenPage => status # "in_progress" /\ shown = NoItem
    BY DEF ScreenInv
  <1>4. landing # 0 => status # "in_progress"
    BY DEF ScreenInv
  <1>5. status # "in_progress" => ~running
    BY DEF ScreenInv
  <1>6. snapshot'.page \in HiddenPage => snapshot'.item = 1
    BY <1>3 DEF ScreenInv
  <1>7. QED
    BY <1>1, <1>2, <1>3, <1>4, <1>5, <1>6 DEF ScreenInv

LEMMA CompleteScreen ==
    ASSUME FlowTypeOK, ScreenInv, NEW outcome \in {"completed", "screened_out", "timed_out"},
           Complete(outcome)
    PROVE  ScreenInv'
  BY DEF ScreenInv, Complete, resumeVars

LEMMA CommitFrame ==
    ASSUME NEW x, Commit(x)
    PROVE  /\ MoveOn
           /\ responses' = Append(responses, [item |-> x, loops |-> loops, rewinds |-> rewinds])
           /\ snapshot' = [page |-> page, item |-> item, loops |-> loops,
                           presented |-> {responses'[i].item : i \in DOMAIN responses'}]
           /\ snapshot'.page = page /\ snapshot'.item = item /\ snapshot'.loops = loops
           /\ UNCHANGED <<running, paused, page, current, goal, autoTimer, loops, rewinds, answered,
                          landing, status, completions, leftEarly, overrun>>
  <1>1. /\ MoveOn
        /\ responses' = Append(responses, [item |-> x, loops |-> loops, rewinds |-> rewinds])
        /\ snapshot' = [page |-> page, item |-> item, loops |-> loops,
                        presented |-> {responses'[i].item : i \in DOMAIN responses'}]
        /\ UNCHANGED <<running, paused, page, current, goal, autoTimer, passVars, answered,
                       landing, outcomeVars, historyVars>>
    BY DEF Commit
  <1> DEFINE p == {responses'[i].item : i \in DOMAIN responses'}
  <1>2. snapshot' = [page |-> page, item |-> item, loops |-> loops, presented |-> p]
    BY <1>1
  <1> HIDE DEF p
  <1>3. snapshot'.page = page /\ snapshot'.item = item /\ snapshot'.loops = loops
    BY <1>2
  <1>4. QED
    BY <1>1, <1>3 DEF passVars, outcomeVars, historyVars

LEMMA WalkScreen ==
    ASSUME FlowTypeOK, ScreenInv, Start \/ Refuse \/ NavigateToPage \/ ShowCurrentItem
    PROVE  ScreenInv'
  <1>1. CASE Start
    BY <1>1 DEF ScreenInv, Start, resumeVars, outcomeVars
  <1>2. CASE Refuse
    <2>1. current # NoItem /\ status = "in_progress" /\ page \notin HiddenPage /\ landing = 0
      BY <1>2, ItemKinds DEF Refuse, ScreenInv
    <2>2. QED
      BY <1>2, <2>1 DEF ScreenInv, Refuse, timerVars, resumeVars, outcomeVars
  <1>3. CASE NavigateToPage
    <2> DEFINE p == NextVisible(goal)
    <2>1. goal \in Nat \ {0}
      BY DEF FlowTypeOK, ScreenInv
    <2>2. p \in Nat /\ (p <= Len(Pages) => p \notin HiddenPage)
      BY <2>1, NextVisibleFacts
    <2>3. CASE p > Len(Pages)
      BY <1>3, <2>3, CompleteScreen DEF NavigateToPage
    <2>4. CASE ~(p > Len(Pages))
      <3>1. p \notin HiddenPage
        BY <2>2, <2>4, PageFacts
      <3> HIDE DEF p
      <3>2. /\ page' = p /\ item' = IF landing # 0 THEN landing ELSE 1
            /\ landing' = 0 /\ shown' = NoItem /\ autoTimer' = NoItem
            /\ questionTimer' = NoItem /\ step = "navigate" /\ step' = "show"
            /\ UNCHANGED <<running, current, goal, answered, snapshot, status>>
        BY <1>3, <2>4 DEF NavigateToPage, outcomeVars, p
      <3>3. QED
        BY <3>1, <3>2 DEF ScreenInv
    <2>5. QED
      BY <2>3, <2>4
  <1>4. CASE ShowCurrentItem
    <2>1. /\ UNCHANGED <<running, page, goal, answered, landing, snapshot, status>>
          /\ step = "show" /\ shown = NoItem /\ status = "in_progress" /\ landing = 0
          /\ page \notin HiddenPage /\ page \in PageNo /\ item \in Nat \ {0}
          /\ item' \in {item, item + 1}
      BY <1>4 DEF ShowCurrentItem, ScreenInv, FlowTypeOK, resumeVars, outcomeVars
    <2>2. questionTimer = NoItem
      BY <2>1 DEF ScreenInv
    <2> DEFINE x == Pages[page][item]
    <2>3. CASE item > Len(Pages[page])
      BY <1>4, <2>1, <2>2, <2>3 DEF ShowCurrentItem, ScreenInv
    <2>4. CASE ~(item > Len(Pages[page])) /\ x \in HiddenItem \cup answered
      BY <1>4, <2>1, <2>2, <2>4 DEF ShowCurrentItem, ScreenInv
    <2>5. CASE ~(item > Len(Pages[page])) /\ x \notin HiddenItem \cup answered
      <3>1. item \in DOMAIN Pages[page]
        BY <2>1, <2>5, PageFacts
      <3>2. /\ current' = x /\ shown' = x /\ step' = "idle" /\ item' = item
            /\ questionTimer' \in {x, NoItem}
        BY <1>4, <2>2, <2>5 DEF ShowCurrentItem
      <3>3. QED
        BY <2>1, <2>5, <3>1, <3>2 DEF ScreenInv
    <2>6. QED
      BY <2>3, <2>4, <2>5
  <1>5. QED
    BY <1>1, <1>2, <1>3, <1>4

(* The run goes to another page, from a page it is on.                      *)
LEMMA LeaveScreen ==
    ASSUME FlowTypeOK, ScreenInv, step \in {"flow", "idle"}, status = "in_progress",
           step' = "navigate", goal' # 0,
           UNCHANGED <<running, page, item, current, shown, autoTimer, questionTimer, answered,
                       landing, snapshot, status>>
    PROVE  ScreenInv'
  BY DEF ScreenInv

LEMMA FollowScreen == ASSUME FlowTypeOK, ScreenInv, FollowFlow PROVE ScreenInv'
  <1>1. step = "flow" /\ status = "in_progress" /\ page \in Nat
    BY PageFacts DEF FollowFlow, ScreenOut, FollowRule, NextPage, ScreenInv, FlowTypeOK
  <1>2. CASE \E outcome \in {"completed", "screened_out"} : Complete(outcome)
    BY <1>2, CompleteScreen
  <1>3. CASE ~\E outcome \in {"completed", "screened_out"} : Complete(outcome)
    <2>1. /\ step' = "navigate" /\ (goal' = page + 1 \/ \E r \in Rules : goal' = r.target)
          /\ UNCHANGED <<running, paused, page, item, current, shown, timerVars, resumeVars,
                         status>>
      BY <1>3 DEF FollowFlow, ScreenOut, FollowRule, NextPage, outcomeVars
    <2>2. goal' # 0
      BY <1>1, <2>1, RuleFacts, PageFacts
    <2>3. QED
      BY <1>1, <2>1, <2>2, LeaveScreen DEF timerVars, resumeVars
  <1>4. QED
    BY <1>2, <1>3

LEMMA EventScreen ==
    ASSUME FlowTypeOK, ScreenInv, \/ Submit \/ Continue \/ AutoAdvanceFires
                                  \/ QuestionDeadline \/ PageTimeout \/ SurveyTimeout
                                  \/ Halt \/ Unhalt \/ ShowEnd \/ RetryShowsRun \/ Reload
    PROVE  ScreenInv'
  <1>1. ASSUME NEW x, Commit(x), step = "idle", shown # NoItem PROVE ScreenInv'
    <2>1. /\ MoveOn /\ snapshot'.page = page /\ snapshot'.item = item
          /\ UNCHANGED <<running, page, current, goal, autoTimer, answered, landing, status>>
      BY <1>1, CommitFrame, Zenon
    <2>2. QED
      BY <1>1, <2>1, MoveOnScreen
  <1>2. CASE Submit
    BY <1>1, <1>2, ItemKinds DEF Submit
  <1>3. CASE Continue
    BY <1>3, MoveOnScreen DEF Continue, resumeVars, outcomeVars
  <1>4. CASE AutoAdvanceFires
    BY <1>4, MoveOnScreen DEF AutoAdvanceFires, resumeVars, outcomeVars
  <1>5. CASE QuestionDeadline
    <2>1. CASE Commit(questionTimer)
      BY <1>1, <1>5, <2>1 DEF QuestionDeadline, ScreenInv
    <2>2. CASE Complete("timed_out")
      BY <2>2, CompleteScreen
    <2>3. CASE /\ questionTimer' = NoItem
               /\ UNCHANGED <<cursorVars, autoTimer, pageTimer, surveyTimer, responses, passVars,
                              resumeVars, outcomeVars, historyVars>>
      BY <2>3 DEF ScreenInv, cursorVars, resumeVars, outcomeVars
    <2>4. QED
      BY <1>5, <2>1, <2>2, <2>3 DEF QuestionDeadline
  <1>6. CASE PageTimeout
    <2>1. CASE Complete("timed_out")
      BY <2>1, CompleteScreen
    <2>2. CASE PageLimit[page] = "auto-advance"
      <3> DEFINE gone == page + 1
      <3>1. step = "idle" /\ status = "in_progress" /\ goal' = gone /\ gone # 0
        BY <1>6, <2>2, PageFacts DEF PageTimeout, ScreenInv, FlowTypeOK
      <3>2. /\ step' = "navigate"
            /\ UNCHANGED <<running, page, item, current, shown, autoTimer, questionTimer,
                           answered, landing, snapshot, status>>
        BY <1>6, <2>2 DEF PageTimeout, resumeVars, outcomeVars
      <3>3. QED
        BY <3>1, <3>2, LeaveScreen
    <2>3. QED
      BY <1>6, <2>1, <2>2 DEF PageTimeout
  <1>7. CASE SurveyTimeout
    BY <1>7, CompleteScreen DEF SurveyTimeout
  <1>8. CASE Halt \/ Unhalt \/ ShowEnd \/ RetryShowsRun
    BY <1>8
       DEF ScreenInv, Halt, Unhalt, ShowEnd, RetryShowsRun, cursorVars, timerVars, resumeVars,
           outcomeVars
  <1>9. CASE Reload
    <2>1. /\ step = "idle" /\ status = "in_progress" /\ page \notin HiddenPage
          /\ snapshot.page # 0 /\ snapshot.item # 0
      BY <1>9, PageFacts DEF Reload, ScreenInv, FlowTypeOK
    <2>2. QED
      BY <1>9, <2>1 DEF ScreenInv, Reload, outcomeVars
  <1>10. QED
    BY <1>2, <1>3, <1>4, <1>5, <1>6, <1>7, <1>8, <1>9

LEMMA StepScreen ==
    FlowTypeOK /\ ScreenInv /\ [FlowNext]_flowVars => FlowTypeOK' /\ ScreenInv'
  <1> SUFFICES ASSUME FlowTypeOK, ScreenInv, [FlowNext]_flowVars
               PROVE  FlowTypeOK' /\ ScreenInv'
    OBVIOUS
  <1>1. CASE UNCHANGED flowVars
    BY <1>1
       DEF flowVars, cursorVars, timerVars, passVars, resumeVars, outcomeVars, historyVars,
           FlowTypeOK, ScreenInv
  <1>2. QED
    BY <1>1, WalkTypes, FollowTypes, EventTypes, WalkScreen, FollowScreen, EventScreen
       DEF FlowNext

-----------------------------------------------------------------------------
(* What the run walked.                                                     *)

(* No step takes an answer back.                                            *)
LEMMA Grows ==
    ASSUME AnsweredItems \subseteq AnsweredItems', overrun \subseteq overrun',
           leftEarly \subseteq leftEarly'
    PROVE  /\ Accounted \subseteq Accounted'
           /\ \A g : Walked(g) => Walked(g)'
           /\ \A p, i : Passed(p, i) => Passed(p, i)'
  <1>1. Accounted \subseteq Accounted'
    BY DEF Accounted
  <1>2. QED
    BY <1>1 DEF Walked, Passed

(* The page behind its last item is walked, and so is one a rule leaves out.*)
LEMMA WalkedPast ==
    ASSUME NEW p \in PageNo, NEW i \in Nat, Walked(p), Passed(p, i), i > Len(Pages[p])
    PROVE  Walked(p + 1)
  <1>1. ItemsOf(p) \cap Question \subseteq Accounted
    BY PageFacts DEF Passed
  <1>2. QED
    BY <1>1, PageFacts DEF Walked

(* Only Commit answers.                                                     *)
LEMMA CommitAnswers ==
    ASSUME FlowTypeOK, NEW x, Commit(x), x \in Question
    PROVE  /\ AnsweredItems' = AnsweredItems \cup {x}
           /\ snapshot'.presented = AnsweredItems'
           /\ DOMAIN responses' = DOMAIN responses \cup {Len(responses) + 1}
           /\ Len(responses) + 1 \notin DOMAIN responses
           /\ responses'[Len(responses) + 1] = [item |-> x, loops |-> loops, rewinds |-> rewinds]
           /\ \A k \in DOMAIN responses : responses'[k] = responses[k]
  <1> DEFINE made == [item |-> x, loops |-> loops, rewinds |-> rewinds]
             n == Len(responses)
  <1>1. /\ responses \in Seq(Response) /\ made \in Response /\ made.item = x
        /\ responses' = Append(responses, made)
        /\ snapshot'.presented = {responses'[i].item : i \in DOMAIN responses'}
    BY CommitFrame DEF FlowTypeOK, Response
  <1> HIDE DEF made
  <1>2. /\ n \in Nat /\ DOMAIN responses = 1 .. n /\ DOMAIN responses' = 1 .. n + 1
        /\ responses'[n + 1] = made
        /\ \A k \in 1 .. n : responses'[k] = responses[k]
    BY <1>1
  <1>3. /\ DOMAIN responses' = DOMAIN responses \cup {n + 1} /\ n + 1 \notin DOMAIN responses
    BY <1>2
  <1>4. AnsweredItems' = AnsweredItems \cup {x}
    <2>1. \A k \in DOMAIN responses : responses'[k].item = responses[k].item
      BY <1>2
    <2>2. responses'[n + 1].item = x
      BY <1>1, <1>2
    <2>3. QED
      BY <1>3, <2>1, <2>2 DEF AnsweredItems
  <1>5. QED
    BY <1>1, <1>2, <1>3, <1>4 DEF AnsweredItems, made

(* The cursor moves on over an item that is accounted for, or not at all.   *)
LEMMA MoveWalk ==
    ASSUME FlowTypeOK, ScreenInv, WalkInv,
           AnsweredItems \subseteq AnsweredItems', overrun \subseteq overrun',
           leftEarly \subseteq leftEarly', UNCHANGED <<page, answered, status>>,
           ~OnItem => shown' = NoItem,
           \/ item' = item
           \/ /\ item' = item + 1
              /\ item \in DOMAIN Pages[page] /\ Pages[page][item] \in Question =>
                    Pages[page][item] \in Accounted',
           step' \in {"start", "navigate"} => step \in {"start", "navigate"} /\ goal' = goal,
           \/ UNCHANGED snapshot /\ AnsweredItems' = AnsweredItems
           \/ /\ snapshot'.page = page /\ snapshot'.item = item
              /\ snapshot'.presented = AnsweredItems' /\ OnItem
    PROVE  WalkInv'
  <1>1. /\ Accounted \subseteq Accounted'
        /\ \A g : Walked(g) => Walked(g)'
        /\ \A p, i : Passed(p, i) => Passed(p, i)'
    BY Grows
  <1>2. page \in PageNo /\ item \in Nat
    BY DEF FlowTypeOK
  <1>3. Leaving' => Walked(goal)'
    <2>1. Leaving' => Leaving /\ goal' = goal
      BY DEF Leaving
    <2>2. Leaving => Walked(goal)
      BY DEF WalkInv
    <2>3. Walked(goal) /\ goal' = goal => Walked(goal)'
      BY <1>1
    <2>4. QED
      BY <2>1, <2>2, <2>3
  <1>4. answered' \subseteq AnsweredItems' /\ snapshot'.presented = AnsweredItems'
    BY DEF WalkInv
  <1>5. CASE OnItem
    <2>1. Walked(page) /\ Passed(page, item)
      BY <1>5 DEF WalkInv
    <2>2. \A g : Walked(g) => Walked(g)'
      BY <1>1
    <2>3. \A j \in DOMAIN Pages[page] : j < item' /\ Pages[page][j] \in Question =>
                Pages[page][j] \in Accounted'
      <3> SUFFICES ASSUME NEW j \in DOMAIN Pages[page], j < item', Pages[page][j] \in Question
                   PROVE  Pages[page][j] \in Accounted'
        OBVIOUS
      <3>1. CASE j < item
        BY <1>1, <2>1, <3>1 DEF Passed
      <3>2. CASE ~(j < item)
        <4>1. j = item
          BY <1>2, <3>2, PageFacts
        <4>2. QED
          BY <3>2, <4>1
      <3>3. QED
        BY <3>1, <3>2
    <2>4. Passed(page, item)'
      BY <2>3 DEF Passed
    <2>5. Walked(page)'
      BY <2>1, <2>2
    <2>6. Walked(snapshot.page)' /\ Passed(snapshot.page, snapshot.item)'
      <3>1. CASE UNCHANGED snapshot
        BY <1>1, <3>1 DEF WalkInv
      <3>2. CASE snapshot'.page = page /\ snapshot'.item = item
        BY <1>1, <2>1, <3>2
      <3>3. QED
        BY <3>1, <3>2
    <2>7. QED
      BY <1>3, <1>4, <2>4, <2>5, <2>6 DEF WalkInv
  <1>6. CASE ~OnItem
    <2>1. ~OnItem' /\ UNCHANGED snapshot
      BY <1>6 DEF OnItem
    <2>2. Walked(snapshot.page)' /\ Passed(snapshot.page, snapshot.item)'
      BY <1>1, <2>1 DEF WalkInv
    <2>3. QED
      BY <1>3, <1>4, <2>1, <2>2 DEF WalkInv
  <1>7. QED
    BY <1>5, <1>6

LEMMA LastPage == \A p \in PageNo : p < Len(Pages) + 1
  BY PageFacts

LEMMA WholeWalk == NaturalEndIsWhole <=> (status = "completed" => Walked(Len(Pages) + 1))
  BY LastPage DEF NaturalEndIsWhole, Walked, Accounted

LEMMA WholeWalkNext ==
    NaturalEndIsWhole' <=> (status' = "completed" => Walked(Len(Pages) + 1)')
  BY LastPage DEF NaturalEndIsWhole, Walked, Accounted

(* A run that has ended stays whole, one that goes on owes nothing yet.     *)
LEMMA StaysWhole ==
    ASSUME NaturalEndIsWhole, AnsweredItems \subseteq AnsweredItems',
           overrun \subseteq overrun', leftEarly \subseteq leftEarly',
           status' = status \/ status' # "completed"
    PROVE  NaturalEndIsWhole'
  BY Grows, WholeWalk, WholeWalkNext

LEMMA CompleteWalk ==
    ASSUME FlowTypeOK, WalkInv, NEW outcome \in {"completed", "screened_out", "timed_out"},
           Complete(outcome), overrun' = overrun, leftEarly \subseteq leftEarly',
           outcome = "completed" => Walked(Len(Pages) + 1)'
    PROVE  WalkInv' /\ NaturalEndIsWhole'
  <1>1. /\ UNCHANGED <<responses, answered, snapshot, page, item, shown>> /\ status' = outcome
        /\ AnsweredItems' = AnsweredItems
    BY DEF Complete, resumeVars, AnsweredItems
  <1>2. /\ \A g : Walked(g) => Walked(g)'
        /\ \A p, i : Passed(p, i) => Passed(p, i)'
    BY <1>1, Grows
  <1>3. ~Leaving' /\ (OnItem' => OnItem)
    BY <1>1 DEF Leaving, OnItem
  <1>4. WalkInv'
    BY <1>1, <1>2, <1>3 DEF WalkInv
  <1>5. QED
    BY <1>1, <1>4, WholeWalkNext

(* The run leaves for a page up to which everything is accounted for.       *)
LEMMA LeaveWalk ==
    ASSUME FlowTypeOK, WalkInv, NaturalEndIsWhole, status = "in_progress",
           leftEarly \subseteq leftEarly', Walked(goal)',
           UNCHANGED <<page, item, responses, overrun, snapshot, status>>,
           answered' \in {answered, snapshot.presented}
    PROVE  WalkInv' /\ NaturalEndIsWhole'
  <1>1. AnsweredItems' = AnsweredItems
    BY DEF AnsweredItems
  <1>2. /\ \A g : Walked(g) => Walked(g)'
        /\ \A p, i : Passed(p, i) => Passed(p, i)'
    BY <1>1, Grows
  <1>3. WalkInv'
    BY <1>1, <1>2 DEF WalkInv, OnItem
  <1>4. QED
    BY <1>1, <1>3, StaysWhole

LEMMA NavigateWalk ==
    ASSUME FlowTypeOK, ScreenInv, WalkInv, NaturalEndIsWhole, NavigateToPage
    PROVE  WalkInv' /\ NaturalEndIsWhole'
  <1> DEFINE p == NextVisible(goal)
  <1>1. goal \in Nat \ {0} /\ status = "in_progress" /\ step = "navigate"
    BY DEF FlowTypeOK, ScreenInv, NavigateToPage
  <1>2. /\ p \in Nat /\ (p <= Len(Pages) => p \in PageNo \ HiddenPage /\ goal <= p)
        /\ \A q \in PageNo : goal <= q /\ q < p => q \in HiddenPage
    BY <1>1, NextVisibleFacts
  <1>3. Walked(goal)
    BY <1>1 DEF WalkInv, Leaving
  <1>4. Walked(p)
    BY <1>1, <1>2, <1>3, PageFacts DEF Walked
  <1>5. UNCHANGED <<leftEarly, overrun>>
    BY DEF NavigateToPage
  <1>6. CASE p > Len(Pages)
    <2>1. Complete("completed") /\ responses' = responses
      BY <1>6 DEF NavigateToPage, Complete
    <2>2. Walked(Len(Pages) + 1)
      BY <1>2, <1>4, <1>6, PageFacts DEF Walked
    <2>3. Walked(Len(Pages) + 1)'
      BY <1>5, <2>1, <2>2, Grows DEF AnsweredItems
    <2>4. QED
      BY <1>5, <2>1, <2>3, CompleteWalk
  <1>7. CASE ~(p > Len(Pages))
    <2>1. p \in PageNo \ HiddenPage /\ goal <= p
      BY <1>2, <1>7, PageFacts
    <2>2. /\ page' = p /\ item' = IF landing # 0 THEN landing ELSE 1
          /\ step' = "show" /\ UNCHANGED <<responses, answered, snapshot, status>>
      BY <1>7 DEF NavigateToPage, outcomeVars
    <2>3. landing # 0 =>
              landing = snapshot.item /\ (p = snapshot.page \/ snapshot.item = 1)
      <3>1. CASE landing # 0
        <4>1. goal = snapshot.page /\ landing = snapshot.item
          BY <1>1, <3>1 DEF ScreenInv
        <4>2. goal \in HiddenPage => snapshot.item = 1
          BY <4>1 DEF ScreenInv
        <4>3. goal \in PageNo
          BY <4>1 DEF FlowTypeOK
        <4>4. goal \notin HiddenPage => p = goal
          BY <1>1, <1>2, <2>1, <4>3, PageFacts
        <4>5. QED
          BY <4>1, <4>2, <4>4
      <3>2. QED
        BY <3>1
    <2>4. Passed(p, IF landing # 0 THEN landing ELSE 1)
      <3>1. Passed(p, 1)
        BY <2>1, PageFacts DEF Passed
      <3>2. Passed(snapshot.page, snapshot.item)
        BY DEF WalkInv
      <3>3. QED
        BY <2>3, <3>1, <3>2
    <2> HIDE DEF p
    <2>5. AnsweredItems' = AnsweredItems
      BY <2>2 DEF AnsweredItems
    <2>6. /\ \A g : Walked(g) => Walked(g)'
          /\ \A q, i : Passed(q, i) => Passed(q, i)'
      BY <1>5, <2>5, Grows
    <2>7. Walked(page)' /\ Passed(page, item)'
      <3>1. \A g : Walked(g) /\ g = page' => Walked(page)'
        BY <2>6
      <3>2. \A q, i : Passed(q, i) /\ q = page' /\ i = item' => Passed(page, item)'
        BY <2>6
      <3>3. QED
        BY <1>4, <2>2, <2>4, <3>1, <3>2
    <2>8. Walked(snapshot.page)' /\ Passed(snapshot.page, snapshot.item)'
      BY <2>2, <2>6 DEF WalkInv
    <2>9. WalkInv'
      BY <2>2, <2>5, <2>7, <2>8 DEF WalkInv, Leaving
    <2>10. QED
      BY <1>1, <1>5, <2>2, <2>5, <2>9, StaysWhole
  <1>8. QED
    BY <1>6, <1>7

(* A jump leaves out the pages between, or goes back.                       *)
LEMMA JumpWalk ==
    ASSUME FlowTypeOK, WalkInv, status = "in_progress", step = "flow" => item > Len(Pages[page]),
           NEW q \in PageNo, responses' = responses, overrun' = overrun,
           leftEarly' = leftEarly \cup Between(page, q),
           step = "flow"
    PROVE  Walked(q)'
  <1>1. Walked(page) /\ Passed(page, item) /\ page \in PageNo /\ item \in Nat
    BY DEF WalkInv, OnItem, FlowTypeOK
  <1>2. Walked(page + 1)
    BY <1>1, WalkedPast
  <1>3. AnsweredItems' = AnsweredItems
    BY DEF AnsweredItems
  <1>4. Accounted' = Accounted
    BY <1>3 DEF Accounted
  <1>5. QED
    BY <1>1, <1>2, <1>4, PageFacts DEF Walked, Between

LEMMA FollowWalk ==
    ASSUME FlowTypeOK, ScreenInv, WalkInv, NaturalEndIsWhole, FollowFlow
    PROVE  WalkInv' /\ NaturalEndIsWhole'
  <1>1. /\ step = "flow" /\ status = "in_progress" /\ item > Len(Pages[page])
        /\ page \in PageNo /\ page \in Nat /\ item \in Nat /\ overrun' = overrun
    BY PageFacts DEF FollowFlow, ScreenOut, FollowRule, NextPage, ScreenInv, FlowTypeOK,
                     historyVars
  <1>2. Walked(page) /\ Passed(page, item)
    BY <1>1 DEF WalkInv, OnItem
  <1>3. Walked(page + 1)
    BY <1>1, <1>2, WalkedPast
  <1>4. CASE ScreenOut
    BY <1>1, <1>4, CompleteWalk DEF ScreenOut
  <1>5. CASE NextPage
    <2>1. /\ goal' = page + 1
          /\ UNCHANGED <<page, item, responses, answered, snapshot, status, overrun, leftEarly>>
      BY <1>5 DEF NextPage, resumeVars, outcomeVars, historyVars
    <2>2. leftEarly \subseteq leftEarly'
      BY <2>1
    <2>3. Walked(goal)'
      <3>1. Accounted' = Accounted /\ goal' = page + 1
        BY <2>1 DEF Accounted, AnsweredItems
      <3>2. QED
        BY <1>3, <2>1, <3>1 DEF Walked
    <2>4. QED
      BY <1>1, <2>1, <2>3, LeaveWalk
  <1>6. CASE FollowRule
    <2>1. PICK r \in Rules :
            /\ r.source = page
            /\ \/ /\ Complete("completed")
                  /\ leftEarly' = leftEarly \cup (page + 1) .. Len(Pages)
               \/ /\ goal' = r.target \/ goal' = page + 1
                  /\ goal' = r.target => leftEarly' = leftEarly \cup Between(page, r.target)
                  /\ goal' # r.target => leftEarly' = leftEarly
                  /\ UNCHANGED <<page, item, responses, resumeVars, status>>
      <3>1. PICK r \in Rules :
            /\ r.source = page
            /\ \/ /\ Complete("completed")
                  /\ leftEarly' = leftEarly \cup (page + 1) .. Len(Pages)
               \/ /\ IF loops[r] < r.iterations
                     THEN /\ goal' = r.target
                          /\ leftEarly' = leftEarly \cup Between(page, r.target)
                     ELSE UNCHANGED leftEarly /\ goal' = page + 1
                  /\ UNCHANGED <<page, item, responses, resumeVars, status>>
               \/ /\ goal' = r.target
                  /\ leftEarly' = leftEarly \cup Between(page, r.target)
                  /\ UNCHANGED <<page, item, responses, resumeVars, status>>
        BY <1>6 DEF FollowRule, outcomeVars
      <3>2. Between(page, page + 1) = {}
        BY <1>1 DEF Between
      <3>3. goal' = page + 1 /\ r.target = page + 1 /\ leftEarly' = leftEarly =>
                leftEarly' = leftEarly \cup Between(page, r.target)
        BY <3>2
      <3>4. QED
        BY <3>1, <3>3
    <2>2. r.target \in PageNo
      BY RuleFacts
    <2>3. CASE /\ Complete("completed")
               /\ leftEarly' = leftEarly \cup (page + 1) .. Len(Pages)
      <3>1. responses' = responses
        BY <2>3 DEF Complete
      <3>2. Accounted' = Accounted
        BY <1>1, <3>1 DEF Accounted, AnsweredItems
      <3>3. Walked(Len(Pages) + 1)'
        BY <1>1, <1>3, <2>3, <3>2, PageFacts DEF Walked
      <3>4. QED
        BY <1>1, <2>3, <3>3, CompleteWalk
    <2>4. CASE /\ goal' = r.target \/ goal' = page + 1
               /\ goal' = r.target => leftEarly' = leftEarly \cup Between(page, r.target)
               /\ goal' # r.target => leftEarly' = leftEarly
               /\ UNCHANGED <<page, item, responses, resumeVars, status>>
      <3>1. leftEarly \subseteq leftEarly'
        BY <2>4
      <3>2. Walked(goal)'
        <4>1. CASE goal' = r.target
          <5>1. Walked(r.target)'
            BY <1>1, <2>2, <2>4, <4>1, JumpWalk
          <5>2. QED
            BY <4>1, <5>1 DEF Walked
        <4>2. CASE goal' # r.target
          <5>1. Walked(page + 1)'
            BY <1>1, <1>3, <2>4, <3>1, Grows DEF AnsweredItems
          <5>2. QED
            BY <2>4, <4>2, <5>1 DEF Walked
        <4>3. QED
          BY <4>1, <4>2
      <3>3. QED
        BY <1>1, <2>4, <3>1, <3>2, LeaveWalk DEF resumeVars
    <2>5. QED
      BY <2>1, <2>3, <2>4
  <1>7. QED
    BY <1>4, <1>5, <1>6 DEF FollowFlow

(* An answer, and an item passed without one.                               *)
LEMMA CommitWalk ==
    ASSUME FlowTypeOK, ScreenInv, WalkInv, NaturalEndIsWhole,
           NEW x \in Question, shown = x, Commit(x)
    PROVE  WalkInv' /\ NaturalEndIsWhole'
  <1>1. /\ MoveOn /\ snapshot'.page = page /\ snapshot'.item = item
        /\ UNCHANGED <<page, goal, answered, status, leftEarly, overrun>>
    BY CommitFrame
  <1>2. /\ AnsweredItems' = AnsweredItems \cup {x} /\ snapshot'.presented = AnsweredItems'
    BY CommitAnswers
  <1>3. OnItem /\ Pages[page][item] = x
    BY ItemKinds DEF ScreenInv, OnItem
  <1>4. item' = item + 1 /\ step' \notin {"start", "navigate"}
    BY <1>1 DEF MoveOn
  <1>5. x \in Accounted'
    BY <1>2 DEF Accounted
  <1>6. WalkInv'
    BY <1>1, <1>2, <1>3, <1>4, <1>5, MoveWalk
  <1>7. QED
    BY <1>1, <1>2, <1>3, <1>6, StaysWhole

LEMMA PassWalk ==
    ASSUME FlowTypeOK, ScreenInv, WalkInv, NaturalEndIsWhole,
           \/ Start \/ Refuse \/ ShowCurrentItem \/ Continue \/ AutoAdvanceFires
           \/ Halt \/ Unhalt \/ ShowEnd \/ RetryShowsRun
    PROVE  WalkInv' /\ NaturalEndIsWhole'
  <1>1. /\ UNCHANGED <<page, answered, snapshot, status, responses, leftEarly>>
        /\ overrun \subseteq overrun' /\ (~OnItem => shown' = NoItem)
    <2>1. UNCHANGED shown \/ shown' = NoItem \/ status = "in_progress"
      BY DEF Start, Refuse, ShowCurrentItem, Continue, AutoAdvanceFires, MoveOn, Halt, Unhalt,
             ShowEnd, RetryShowsRun, cursorVars, ScreenInv
    <2>2. QED
      BY <2>1
         DEF Start, Refuse, ShowCurrentItem, Continue, AutoAdvanceFires, Halt, Unhalt, ShowEnd,
             RetryShowsRun, cursorVars, resumeVars, outcomeVars, historyVars, OnItem
  <1>2. AnsweredItems' = AnsweredItems /\ Accounted \subseteq Accounted'
    BY <1>1 DEF AnsweredItems, Accounted
  <1>3. \/ item' = item
        \/ /\ item' = item + 1
           /\ item \in DOMAIN Pages[page] /\ Pages[page][item] \in Question =>
                    Pages[page][item] \in Accounted'
    <2>1. CASE Start \/ Refuse \/ Halt \/ Unhalt \/ ShowEnd \/ RetryShowsRun
      BY <2>1 DEF Start, Refuse, Halt, Unhalt, ShowEnd, RetryShowsRun, cursorVars
    <2>2. CASE ShowCurrentItem
      BY <1>2, <2>2 DEF ShowCurrentItem, WalkInv, Accounted
    <2>3. CASE Continue
      BY <2>3, ItemKinds DEF Continue, MoveOn, ScreenInv
    <2>4. CASE AutoAdvanceFires
      <3>1. /\ item' = item + 1 /\ autoTimer \in AutoAdvance
            /\ overrun' = overrun \cup ({Pages[page][i] : i \in {item} \cap DOMAIN Pages[page]}
                                        \ {autoTimer})
        BY <2>4 DEF AutoAdvanceFires, MoveOn, FlowTypeOK
      <3>2. ASSUME item \in DOMAIN Pages[page], Pages[page][item] \in Question
            PROVE  Pages[page][item] \in Accounted'
        <4>1. Pages[page][item] # autoTimer
          BY <3>1, <3>2, ItemKinds
        <4>2. Pages[page][item] \in overrun'
          BY <3>1, <3>2, <4>1
        <4>3. QED
          BY <4>2 DEF Accounted
      <3>3. QED
        BY <3>1, <3>2
    <2>5. QED
      BY <2>1, <2>2, <2>3, <2>4
  <1>4. step' \in {"start", "navigate"} =>
            step \in {"start", "navigate"} /\ goal' = goal
    BY DEF Start, Refuse, ShowCurrentItem, Continue, AutoAdvanceFires, MoveOn, Halt, Unhalt,
           ShowEnd, RetryShowsRun, cursorVars
  <1>5. QED
    BY <1>1, <1>2, <1>3, <1>4, MoveWalk, StaysWhole

LEMMA EventWalk ==
    ASSUME FlowTypeOK, ScreenInv, WalkInv, NaturalEndIsWhole,
           Submit \/ QuestionDeadline \/ PageTimeout \/ SurveyTimeout \/ Reload
    PROVE  WalkInv' /\ NaturalEndIsWhole'
  <1>1. QuestionDeadline \/ PageTimeout \/ SurveyTimeout \/ Reload => status = "in_progress"
    BY DEF QuestionDeadline, PageTimeout, SurveyTimeout, Reload, ScreenInv
  <1>2. CASE Submit
    BY <1>2, CommitWalk DEF Submit
  <1>3. CASE QuestionDeadline
    <2>1. questionTimer \in Question /\ shown = questionTimer
      BY <1>3 DEF FlowTypeOK, QuestionDeadline, ScreenInv
    <2>2. CASE Commit(questionTimer)
      BY <2>1, <2>2, CommitWalk
    <2>3. CASE Complete("timed_out") /\ UNCHANGED <<leftEarly, overrun, halts, reloads>>
      BY <2>3, CompleteWalk
    <2>4. CASE /\ questionTimer' = NoItem
               /\ UNCHANGED <<cursorVars, autoTimer, pageTimer, surveyTimer, responses, passVars,
                              resumeVars, outcomeVars, historyVars>>
      <3>1. /\ UNCHANGED <<page, item, step, goal, shown, answered, snapshot, status, responses,
                           overrun, leftEarly>>
            /\ AnsweredItems' = AnsweredItems
        BY <2>4 DEF cursorVars, resumeVars, outcomeVars, historyVars, AnsweredItems
      <3>2. WalkInv'
        BY <3>1, MoveWalk DEF OnItem
      <3>3. QED
        BY <3>1, <3>2, StaysWhole
    <2>5. QED
      BY <1>3, <2>2, <2>3, <2>4 DEF QuestionDeadline
  <1>4. CASE PageTimeout
    <2>1. CASE Complete("timed_out") /\ UNCHANGED leftEarly
      BY <1>4, <2>1, CompleteWalk DEF PageTimeout
    <2>2. CASE PageLimit[page] = "auto-advance"
      <3>1. /\ goal' = page + 1 /\ leftEarly' = leftEarly \cup {page}
            /\ UNCHANGED <<page, item, responses, overrun, answered, snapshot, status>>
        BY <1>4, <2>2 DEF PageTimeout, resumeVars, outcomeVars
      <3>2. Accounted' = Accounted /\ Walked(page) /\ page \in PageNo
        BY <1>1, <1>4, <3>1 DEF Accounted, AnsweredItems, WalkInv, OnItem, FlowTypeOK
      <3>3. Walked(goal)'
        BY <3>1, <3>2, PageFacts DEF Walked
      <3>4. QED
        BY <1>1, <1>4, <3>1, <3>3, LeaveWalk
    <2>3. QED
      BY <1>4, <2>1, <2>2 DEF PageTimeout
  <1>5. CASE SurveyTimeout
    <2>1. /\ Complete(IF SurveyLimit = "terminate" THEN "timed_out" ELSE "completed")
          /\ leftEarly' = leftEarly \cup page .. Len(Pages) /\ overrun' = overrun
          /\ responses' = responses /\ page' = page
      BY <1>5 DEF SurveyTimeout, Complete
    <2>2. Accounted' = Accounted /\ Walked(page) /\ page \in PageNo
      BY <1>1, <1>5, <2>1 DEF Accounted, AnsweredItems, WalkInv, OnItem, FlowTypeOK
    <2>3. Walked(Len(Pages) + 1)'
      BY <2>1, <2>2, PageFacts DEF Walked
    <2>4. leftEarly \subseteq leftEarly'
      BY <2>1
    <2>5. QED
      BY <2>1, <2>3, <2>4, CompleteWalk
  <1>6. CASE Reload
    <2>1. /\ goal' = snapshot.page /\ answered' = snapshot.presented
          /\ UNCHANGED <<page, item, responses, overrun, leftEarly, snapshot, status>>
      BY <1>6 DEF Reload, outcomeVars
    <2>2. Walked(snapshot.page) /\ Accounted' = Accounted
      BY <2>1 DEF WalkInv, Accounted, AnsweredItems
    <2>3. Walked(goal)'
      BY <2>1, <2>2 DEF Walked
    <2>4. QED
      BY <1>1, <1>6, <2>1, <2>3, LeaveWalk
  <1>7. QED
    BY <1>2, <1>3, <1>4, <1>5, <1>6

LEMMA StepWalk ==
    FlowTypeOK /\ ScreenInv /\ WalkInv /\ NaturalEndIsWhole /\ [FlowNext]_flowVars
        => WalkInv' /\ NaturalEndIsWhole'
  <1> SUFFICES ASSUME FlowTypeOK, ScreenInv, WalkInv, NaturalEndIsWhole, [FlowNext]_flowVars
               PROVE  WalkInv' /\ NaturalEndIsWhole'
    OBVIOUS
  <1>1. CASE UNCHANGED flowVars
    <2>1. /\ UNCHANGED <<page, item, step, goal, shown, answered, snapshot, status, responses,
                         overrun, leftEarly>>
          /\ AnsweredItems' = AnsweredItems
      BY <1>1 DEF flowVars, cursorVars, resumeVars, outcomeVars, historyVars, AnsweredItems
    <2>2. WalkInv'
      BY <2>1, MoveWalk DEF OnItem
    <2>3. QED
      BY <2>1, <2>2, StaysWhole
  <1>2. QED
    BY <1>1, NavigateWalk, FollowWalk, PassWalk, EventWalk DEF FlowNext

-----------------------------------------------------------------------------
(* The passes.                                                              *)

(* The cursor only comes further in a pass.                                 *)
LEMMA BeforeGrows ==
    ASSUME NEW x, NEW p \in Nat, NEW i \in Nat, NEW q \in Nat, NEW j \in Nat,
           Before(x, p, i), p < q \/ (p = q /\ i <= j)
    PROVE  Before(x, q, j)
  BY PageFacts DEF Before

LEMMA PassMove ==
    ASSUME PassInv, UNCHANGED <<responses, answered, passVars, snapshot>>,
           ASSUME NEW x, OnItem => Before(x, page, item), Leaving => Before(x, goal, 1)
           PROVE  /\ OnItem' => Before(x, page', item')
                  /\ Leaving' => Before(x, goal', 1)
    PROVE  PassInv'
  <1>1. UNCHANGED <<loops, rewinds>>
    BY DEF passVars
  <1>2. ASSUME NEW k \in DOMAIN responses, InPass(k)
        PROVE  /\ OnItem' => Before(responses[k].item, page', item')
               /\ Leaving' => Before(responses[k].item, goal', 1)
    <2> DEFINE x == responses[k].item
    <2>1. (OnItem => Before(x, page, item)) /\ (Leaving => Before(x, goal, 1))
      BY <1>2 DEF PassInv
    <2> HIDE DEF x
    <2>2. QED
      BY <2>1 DEF x
  <1>3. \A k \in DOMAIN responses : InPass(k)' => InPass(k)
    BY <1>1 DEF InPass
  <1>4. QED
    BY <1>1, <1>2, <1>3 DEF PassInv, Before

(* The run goes on to a later page, or ends.                                *)
LEMMA PassOn ==
    ASSUME FlowTypeOK, PassInv, UNCHANGED <<responses, answered, passVars, snapshot, page, item>>,
           OnItem' => OnItem,
           Leaving' => \/ Leaving /\ goal' = goal
                       \/ OnItem /\ goal' \in Nat /\ page < goal'
    PROVE  PassInv'
  <1>1. page \in Nat /\ item \in Nat
    BY PageFacts DEF FlowTypeOK
  <1>2. ASSUME goal' \in Nat, page < goal', NEW x, Before(x, page, item)
        PROVE  Before(x, goal', 1)
    BY <1>1, <1>2, BeforeGrows
  <1>3. ASSUME NEW x, OnItem => Before(x, page, item), Leaving => Before(x, goal, 1)
        PROVE  /\ OnItem' => Before(x, page', item')
               /\ Leaving' => Before(x, goal', 1)
    <2>1. OnItem' => Before(x, page', item')
      BY <1>3 DEF Before
    <2>2. QED
      BY <1>2, <1>3, <2>1
  <1>4. QED
    BY <1>3, PassMove

LEMMA PassMoveOn ==
    ASSUME FlowTypeOK, PassInv, UNCHANGED <<responses, answered, passVars, snapshot, page>>,
           item' \in {item, item + 1}, OnItem' => OnItem, ~Leaving'
    PROVE  PassInv'
  <1>1. page \in Nat /\ item \in Nat /\ item' \in Nat /\ item <= item'
    BY PageFacts DEF FlowTypeOK
  <1>2. ASSUME NEW x, OnItem => Before(x, page, item), Leaving => Before(x, goal, 1)
        PROVE  /\ OnItem' => Before(x, page', item')
               /\ Leaving' => Before(x, goal', 1)
    BY <1>1, <1>2, BeforeGrows
  <1>3. QED
    BY <1>2, PassMove

LEMMA PassComplete ==
    ASSUME FlowTypeOK, PassInv, NEW outcome \in {"completed", "screened_out", "timed_out"},
           Complete(outcome), status = "in_progress"
    PROVE  PassInv'
  <1>1. /\ UNCHANGED <<responses, answered, passVars, snapshot, page, item>>
        /\ ~Leaving' /\ OnItem
    BY DEF Complete, resumeVars, Leaving, OnItem
  <1>2. QED
    BY <1>1, PassOn

LEMMA PassNavigate ==
    ASSUME FlowTypeOK, ScreenInv, PassInv, NavigateToPage
    PROVE  PassInv'
  <1> DEFINE p == NextVisible(goal)
  <1>1. goal \in Nat \ {0} /\ step = "navigate" /\ status = "in_progress" /\ Leaving
    BY DEF FlowTypeOK, ScreenInv, NavigateToPage, Leaving
  <1>2. p \in Nat /\ (p <= Len(Pages) => goal <= p)
    BY <1>1, NextVisibleFacts
  <1>3. CASE p > Len(Pages)
    BY <1>1, <1>3, PassComplete DEF NavigateToPage
  <1>4. CASE ~(p > Len(Pages))
    <2>1. goal <= p /\ p \in Nat
      BY <1>2, <1>4, PageFacts
    <2>2. /\ page' = p /\ item' = IF landing # 0 THEN landing ELSE 1
          /\ step' = "show" /\ UNCHANGED <<responses, answered, passVars, snapshot>>
      BY <1>4 DEF NavigateToPage
    <2> HIDE DEF p
    <2>3. item' \in Nat /\ 1 <= item' /\ ~Leaving'
      BY <2>2 DEF FlowTypeOK, Leaving
    <2>4. ASSUME NEW x, OnItem => Before(x, page, item), Leaving => Before(x, goal, 1)
          PROVE  /\ OnItem' => Before(x, page', item')
                 /\ Leaving' => Before(x, goal', 1)
      BY <1>1, <2>1, <2>2, <2>3, <2>4, BeforeGrows
    <2>5. QED
      BY <2>2, <2>4, PassMove
  <1>5. QED
    BY <1>3, <1>4

(* What a response recorded of its pass is a count.                         *)
LEMMA ResponseFacts ==
    ASSUME FlowTypeOK, NEW k \in DOMAIN responses
    PROVE  responses[k].rewinds \in Nat /\ responses[k].loops \in [LoopRule -> Nat]
  <1>1. \A a \in Response : a.rewinds \in Nat /\ a.loops \in [LoopRule -> Nat]
    BY DEF Response
  <1>2. responses \in Seq(Response)
    BY DEF FlowTypeOK
  <1>3. responses[k] \in Response
    BY <1>2
  <1>4. QED
    BY <1>1, <1>3

(* A loop, and a branch that leads back, start a pass no response is of yet.*)
LEMMA PassFollow ==
    ASSUME FlowTypeOK, ScreenInv, PassInv, FollowFlow
    PROVE  PassInv'
  <1>1. step = "flow" /\ status = "in_progress" /\ page \in Nat
    BY PageFacts DEF FollowFlow, ScreenOut, FollowRule, NextPage, ScreenInv, FlowTypeOK
  <1> OnItem
    BY <1>1 DEF OnItem
  <1>2. CASE \E outcome \in {"completed", "screened_out"} : Complete(outcome)
    BY <1>1, <1>2, PassComplete
  <1>3. CASE NextPage
    BY <1>1, <1>3, PassOn DEF NextPage, resumeVars
  <1>4. CASE FollowRule /\ ~\E outcome \in {"completed", "screened_out"} : Complete(outcome)
    <2>1. PICK r \in Rules :
            /\ r.source = page
            /\ \/ /\ r.type = "loop" /\ loops[r] < r.iterations
                  /\ loops' = [loops EXCEPT ![r] = @ + 1] /\ rewinds' = rewinds
               \/ /\ r.type = "loop" /\ UNCHANGED passVars /\ goal' = page + 1
               \/ /\ r.type = "branch" /\ UNCHANGED passVars /\ goal' = r.target
                  /\ ~(r.target <= page)
               \/ /\ r.type = "branch" /\ loops' = loops /\ rewinds' = rewinds + 1
            /\ UNCHANGED <<page, item, responses, resumeVars, status>>
      BY <1>4 DEF FollowRule, passVars, outcomeVars
    <2>2. /\ UNCHANGED <<page, item, responses, answered, snapshot, status>>
          /\ r.target \in Nat /\ (r.type = "loop" => r \in LoopRule)
      BY <2>1, RuleFacts, PageFacts DEF resumeVars
    <2>3. CASE UNCHANGED passVars /\ goal' \in {page + 1, r.target} /\ ~(goal' <= page)
      <3>1. goal' \in Nat /\ page < goal'
        BY <1>1, <2>2, <2>3
      <3>2. QED
        BY <2>2, <2>3, <3>1, PassOn
    <2>4. CASE r \in LoopRule /\ loops' = [loops EXCEPT ![r] = @ + 1] /\ rewinds' = rewinds
      <3>1. /\ loops \in [LoopRule -> Nat] /\ loops' \in [LoopRule -> Nat]
            /\ snapshot.loops \in [LoopRule -> Nat]
            /\ loops'[r] = loops[r] + 1
            /\ \A q \in LoopRule : loops[q] <= loops'[q]
        <4>1. loops \in [LoopRule -> Nat] /\ snapshot.loops \in [LoopRule -> Nat]
          BY DEF FlowTypeOK
        <4>2. QED
          BY <2>4, <4>1
      <3>2. \A k \in DOMAIN responses :
                responses[k].loops[r] <= snapshot.loops[r] /\ snapshot.loops[r] <= loops[r]
        BY <2>4 DEF PassInv
      <3>3. ASSUME NEW k \in DOMAIN responses PROVE responses[k].loops # loops'
        <4>1. /\ responses[k].loops[r] \in Nat /\ snapshot.loops[r] \in Nat
              /\ loops[r] \in Nat
          BY <2>4, <3>1, ResponseFacts
        <4>2. QED
          BY <3>1, <3>2, <4>1
      <3>4. ASSUME NEW q \in LoopRule PROVE snapshot.loops[q] <= loops'[q]
        <4>1. /\ snapshot.loops[q] \in Nat /\ loops[q] \in Nat /\ loops'[q] \in Nat
              /\ loops[q] <= loops'[q]
          BY <3>1
        <4>2. snapshot.loops[q] <= loops[q]
          BY DEF PassInv
        <4>3. QED
          BY <4>1, <4>2
      <3>5. \A k \in DOMAIN responses' : ~InPass(k)'
        BY <2>2, <3>3 DEF InPass
      <3>6. QED
        BY <2>2, <2>4, <3>4, <3>5 DEF PassInv
    <2>5. CASE loops' = loops /\ rewinds' = rewinds + 1
      <3>1. ASSUME NEW k \in DOMAIN responses
            PROVE  responses[k].rewinds # rewinds' /\ responses[k].rewinds <= rewinds'
        <4>1. responses[k].rewinds \in Nat /\ rewinds \in Nat
          BY ResponseFacts DEF FlowTypeOK
        <4>2. responses[k].rewinds <= rewinds
          BY DEF PassInv
        <4>3. QED
          BY <2>5, <4>1, <4>2
      <3>2. \A k \in DOMAIN responses' : ~InPass(k)'
        BY <2>2, <3>1 DEF InPass
      <3>3. QED
        BY <2>2, <2>5, <3>1, <3>2 DEF PassInv
    <2>6. ~(page + 1 <= page)
      BY <1>1
    <2>7. QED
      BY <2>1, <2>2, <2>3, <2>4, <2>5, <2>6
  <1>5. FollowFlow => \/ \E outcome \in {"completed", "screened_out"} : Complete(outcome)
                     \/ NextPage \/ FollowRule
    BY DEF FollowFlow, ScreenOut
  <1>6. QED
    BY <1>2, <1>3, <1>4, <1>5

(* The item at the cursor has no response of this pass yet.                 *)
LEMMA CommitPass ==
    ASSUME FlowTypeOK, ScreenInv, PassInv, NEW x \in Question, shown = x, Commit(x)
    PROVE  PassInv' /\ ((OnePlace => AskedOncePerPass) => (OnePlace => AskedOncePerPass)')
  <1> DEFINE n == Len(responses) + 1
  <1>1. /\ MoveOn /\ snapshot'.loops = loops
        /\ UNCHANGED <<page, loops, rewinds, answered, status>>
    BY CommitFrame
  <1>2. /\ DOMAIN responses' = DOMAIN responses \cup {n} /\ n \notin DOMAIN responses
        /\ responses'[n].item = x /\ responses'[n].loops = loops /\ responses'[n].rewinds = rewinds
        /\ \A k \in DOMAIN responses : responses'[k] = responses[k]
    <2>1. /\ DOMAIN responses' = DOMAIN responses \cup {n} /\ n \notin DOMAIN responses
          /\ responses'[n] = [item |-> x, loops |-> loops, rewinds |-> rewinds]
          /\ \A k \in DOMAIN responses : responses'[k] = responses[k]
      BY CommitAnswers, Zenon
    <2>2. QED
      BY <2>1
  <1> HIDE DEF n
  <1>3. /\ OnItem /\ page \in PageNo /\ page \in Nat /\ item \in Nat
        /\ item \in DOMAIN Pages[page] /\ Pages[page][item] = x /\ x \notin answered
    BY ItemKinds, PageFacts DEF ScreenInv, FlowTypeOK, OnItem
  <1>4. item' = item + 1 /\ ~Leaving'
    BY <1>1 DEF MoveOn, Leaving
  <1>5. Before(x, page, item + 1)
    BY <1>3 DEF Before
  <1>6. ASSUME NEW y, Before(y, page, item) PROVE Before(y, page, item + 1)
    BY <1>3, <1>6, BeforeGrows
  <1>7. ASSUME NEW k \in DOMAIN responses', InPass(k)'
        PROVE  Before(responses'[k].item, page, item + 1)
    <2>1. CASE k = n
      BY <1>2, <1>5, <2>1
    <2>2. CASE k \in DOMAIN responses
      <3>1. InPass(k) /\ responses'[k] = responses[k]
        BY <1>1, <1>2, <1>7, <2>2 DEF InPass
      <3>2. Before(responses[k].item, page, item)
        BY <1>3, <2>2, <3>1 DEF PassInv
      <3>3. QED
        BY <1>6, <3>1, <3>2
    <2>3. QED
      BY <1>2, <2>1, <2>2
  <1>8. ASSUME NEW k \in DOMAIN responses'
        PROVE  /\ responses'[k].rewinds <= rewinds
               /\ \A r \in LoopRule : responses'[k].loops[r] <= loops[r]
    <2>1. loops \in [LoopRule -> Nat] /\ snapshot.loops \in [LoopRule -> Nat] /\ rewinds \in Nat
      BY DEF FlowTypeOK
    <2>2. CASE k = n
      BY <1>2, <2>1, <2>2
    <2>3. CASE k \in DOMAIN responses
      <3>1. /\ responses[k].rewinds <= rewinds
            /\ \A r \in LoopRule :
                responses[k].loops[r] <= snapshot.loops[r] /\ snapshot.loops[r] <= loops[r]
        BY <2>3 DEF PassInv
      <3>2. ASSUME NEW r \in LoopRule PROVE responses[k].loops[r] <= loops[r]
        <4>1. responses[k].loops[r] \in Nat /\ snapshot.loops[r] \in Nat /\ loops[r] \in Nat
          BY <2>1, <2>3, ResponseFacts
        <4>2. QED
          BY <3>1, <4>1
      <3>3. QED
        BY <1>2, <2>3, <3>1, <3>2
    <2>4. QED
      BY <1>2, <2>2, <2>3
  <1>9. \A r \in LoopRule : loops[r] <= loops[r]
    BY DEF FlowTypeOK
  <1>10. PassInv'
    BY <1>1, <1>4, <1>7, <1>8, <1>9 DEF PassInv, Before
  <1>11. ASSUME OnePlace, AskedOncePerPass PROVE AskedOncePerPass'
    <2>1. ASSUME NEW k \in DOMAIN responses PROVE responses[k] # responses'[n]
      <3>1. SUFFICES ASSUME responses[k] = responses'[n] PROVE FALSE
        OBVIOUS
      <3>2. Before(x, page, item)
        BY <1>2, <1>3, <3>1 DEF PassInv, InPass
      <3>3. PICK q \in PageNo : \E j \in DOMAIN Pages[q] :
                Pages[q][j] = x /\ (q < page \/ (q = page /\ j < item))
        BY <3>2 DEF Before
      <3>4. PICK j \in DOMAIN Pages[q] :
                Pages[q][j] = x /\ (q < page \/ (q = page /\ j < item))
        BY <3>3
      <3>5. q = page /\ j = item
        BY <1>3, <1>11, <3>4 DEF OnePlace
      <3>6. QED
        BY <1>3, <3>4, <3>5
    <2>2. QED
      BY <1>2, <1>11, <2>1 DEF AskedOncePerPass
  <1>12. QED
    BY <1>10, <1>11 DEF OnePlace

LEMMA EventPass ==
    ASSUME FlowTypeOK, ScreenInv, WalkInv, PassInv,
           \/ Start \/ Refuse \/ ShowCurrentItem \/ Continue \/ AutoAdvanceFires
           \/ PageTimeout \/ SurveyTimeout \/ Halt \/ Unhalt \/ ShowEnd \/ RetryShowsRun
           \/ Reload
    PROVE  PassInv'
  <1>1. CASE Start \/ Refuse \/ Halt \/ Unhalt \/ ShowEnd \/ RetryShowsRun
    <2>1. /\ UNCHANGED <<responses, answered, passVars, snapshot, page, item, status, shown>>
          /\ step' \in {"start", "navigate"} =>
                step \in {"start", "navigate"} /\ goal' = goal
      BY <1>1
         DEF Start, Refuse, Halt, Unhalt, ShowEnd, RetryShowsRun, cursorVars, resumeVars,
             outcomeVars, historyVars
    <2>2. QED
      BY <2>1, PassOn DEF OnItem, Leaving
  <1>2. CASE ShowCurrentItem \/ Continue \/ AutoAdvanceFires
    <2>1. /\ UNCHANGED <<responses, answered, passVars, snapshot, page, status>>
          /\ item' \in {item, item + 1} /\ step' \notin {"start", "navigate"}
          /\ status = "in_progress" \/ shown' = NoItem
      BY <1>2
         DEF ShowCurrentItem, Continue, AutoAdvanceFires, MoveOn, resumeVars, outcomeVars, ScreenInv
    <2>2. QED
      BY <2>1, PassMoveOn DEF OnItem, Leaving
  <1>3. CASE PageTimeout
    <2>1. status = "in_progress" /\ OnItem
      BY <1>3 DEF PageTimeout, ScreenInv, OnItem
    <2>2. CASE Complete("timed_out")
      BY <2>1, <2>2, PassComplete
    <2>3. CASE PageLimit[page] = "auto-advance"
      <3>1. /\ UNCHANGED <<responses, answered, passVars, snapshot, page, item>>
            /\ goal' \in Nat /\ page < goal'
        BY <1>3, <2>3, PageFacts DEF PageTimeout, resumeVars, FlowTypeOK
      <3>2. QED
        BY <2>1, <3>1, PassOn
    <2>4. QED
      BY <1>3, <2>2, <2>3 DEF PageTimeout
  <1>4. CASE SurveyTimeout
    <2>1. status = "in_progress"
      BY <1>4 DEF SurveyTimeout, ScreenInv
    <2>2. QED
      BY <1>4, <2>1, PassComplete DEF SurveyTimeout
  <1>5. CASE Reload
    <2>1. /\ loops' = snapshot.loops /\ answered' = AnsweredItems
          /\ UNCHANGED <<responses, rewinds, snapshot>>
      BY <1>5 DEF Reload, WalkInv
    <2>2. \A k \in DOMAIN responses' : ~InPass(k)'
      BY <2>1 DEF AnsweredItems, InPass
    <2>3. \A r \in LoopRule : snapshot'.loops[r] <= loops'[r]
      <3>1. \A r \in LoopRule : snapshot.loops[r] \in Nat
        BY DEF FlowTypeOK
      <3>2. QED
        BY <2>1, <3>1
    <2>4. QED
      BY <2>1, <2>2, <2>3 DEF PassInv
  <1>6. QED
    BY <1>1, <1>2, <1>3, <1>4, <1>5

LEMMA AskedStays ==
    ASSUME responses' = responses
    PROVE  (OnePlace => AskedOncePerPass) => (OnePlace => AskedOncePerPass)'
  BY DEF OnePlace, AskedOncePerPass

LEMMA StepPass ==
    ASSUME FlowTypeOK, ScreenInv, WalkInv, PassInv, OnePlace => AskedOncePerPass,
           [FlowNext]_flowVars
    PROVE  PassInv' /\ (OnePlace => AskedOncePerPass)'
  <1>1. CASE \/ UNCHANGED flowVars
             \/ QuestionDeadline /\ ~Commit(questionTimer) /\ ~Complete("timed_out")
    <2>1. /\ UNCHANGED <<responses, answered, passVars, snapshot, page, item, status, step, goal>>
          /\ UNCHANGED shown
      BY <1>1 DEF QuestionDeadline, flowVars, cursorVars, resumeVars, outcomeVars, historyVars
    <2>2. QED
      BY <2>1, PassOn, AskedStays DEF OnItem, Leaving
  <1>2. CASE QuestionDeadline /\ Complete("timed_out")
    <2>1. responses' = responses /\ status = "in_progress"
      BY <1>2 DEF Complete, QuestionDeadline, ScreenInv
    <2>2. QED
      BY <1>2, <2>1, PassComplete, AskedStays
  <1>3. CASE QuestionDeadline /\ Commit(questionTimer)
    <2>1. questionTimer \in Question /\ shown = questionTimer
      BY <1>3 DEF FlowTypeOK, QuestionDeadline, ScreenInv
    <2>2. QED
      BY <1>3, <2>1, CommitPass
  <1>4. CASE Submit
    <2>1. shown \in Question /\ Commit(shown)
      BY <1>4 DEF Submit
    <2>2. QED
      BY <2>1, CommitPass
  <1>5. CASE NavigateToPage
    <2>1. responses' = responses
      BY <1>5 DEF NavigateToPage, Complete
    <2>2. QED
      BY <1>5, <2>1, PassNavigate, AskedStays
  <1>6. CASE FollowFlow
    <2>1. responses' = responses
      BY <1>6 DEF FollowFlow, ScreenOut, FollowRule, NextPage, Complete
    <2>2. QED
      BY <1>6, <2>1, PassFollow, AskedStays
  <1>7. CASE \/ Start \/ Refuse \/ ShowCurrentItem \/ Continue \/ AutoAdvanceFires
             \/ PageTimeout \/ SurveyTimeout \/ Halt \/ Unhalt \/ ShowEnd \/ RetryShowsRun
             \/ Reload
    <2>1. responses' = responses
      BY <1>7 DEF Start, Refuse, ShowCurrentItem, Continue, AutoAdvanceFires, PageTimeout,
                  SurveyTimeout, Halt, Unhalt, ShowEnd, RetryShowsRun, Reload, Complete
    <2>2. QED
      BY <1>7, <2>1, EventPass, AskedStays
  <1>8. QED
    BY <1>1, <1>2, <1>3, <1>4, <1>5, <1>6, <1>7 DEF FlowNext

LEMMA FlowInvariant == FlowSpec => []FlowInv
  <1>1. FlowInv /\ [FlowNext]_flowVars => FlowInv'
    BY StepScreen, StepWalk, StepPass DEF FlowInv
  <1>2. QED
    BY InitFlow, <1>1, PTL DEF FlowSpec

(* The run keeps its types, however the questionnaire is laid out and       *)
(* however long it is walked: timers, halts and reloads put no cursor, no   *)
(* timer and no resume state outside their ranges.                          *)
THEOREM FlowKeepsItsTypes == FlowSpec => []FlowTypeOK
  <1>1. FlowInv => FlowTypeOK
    BY DEF FlowInv
  <1>2. QED
    BY FlowInvariant, <1>1, PTL

(* complete() of a run that walked to its end finds a response for every    *)
(* visible question of every page that no limit and no rule took away,      *)
(* except what a left-over auto-advance timer stepped over.                 *)
THEOREM EndIsWhole == FlowSpec => []NaturalEndIsWhole
  <1>1. FlowInv => NaturalEndIsWhole
    BY DEF FlowInv
  <1>2. QED
    BY FlowInvariant, <1>1, PTL

(* Where every item has one place, showCurrentItem() asks no question twice *)
(* in a pass, which a loop or a branch back ends, whatever the rules are: a *)
(* resume restores the loop counters with the cursor and passes what was    *)
(* answered, and the answer taken after the end was not given before it.    *)
THEOREM AskedOnce ==
    ASSUME OnePlace
    PROVE  FlowSpec => []AskedOncePerPass
  <1>1. FlowInv => AskedOncePerPass
    BY DEF FlowInv
  <1>2. QED
    BY FlowInvariant, <1>1, PTL

(* After complete() a session changes its outcome no more and presents      *)
(* nothing more, although the auto-advance timer it leaves behind may fire  *)
(* and the form stays on the screen: the question on it may still be        *)
(* answered, which takes it off, so no second answer follows.               *)
THEOREM EndsOnlyOnce == FlowSpec => EndsOnce
  <1>1. ASSUME FlowInv, [FlowNext]_flowVars
        PROVE  [status # "in_progress" =>
                    /\ completions' = completions /\ status' = status
                    /\ shown' \in {shown, NoItem}
                    /\ responses' # responses => shown \in Question /\ shown' = NoItem]_flowVars
    <2> SUFFICES ASSUME FlowNext, status # "in_progress"
                 PROVE  /\ completions' = completions /\ status' = status
                        /\ shown' \in {shown, NoItem}
                        /\ responses' # responses => shown \in Question /\ shown' = NoItem
      BY <1>1
    <2>1. ~running /\ step = "idle"
      BY <1>1 DEF FlowInv, ScreenInv
    <2>2. AutoAdvanceFires \/ Submit \/ Continue \/ ShowEnd \/ RetryShowsRun
      BY <2>1 DEF FlowNext, Start, Refuse, NavigateToPage, ShowCurrentItem, FollowFlow,
                  ScreenOut, FollowRule, NextPage, QuestionDeadline, PageTimeout, SurveyTimeout,
                  Halt, Unhalt, Reload
    <2>3. CASE Submit
      <3>1. shown \in Question /\ Commit(shown)
        BY <2>3 DEF Submit
      <3>2. UNCHANGED <<completions, status>> /\ shown' = NoItem
        BY <3>1, CommitFrame DEF MoveOn
      <3>3. QED
        BY <3>1, <3>2
    <2>4. CASE AutoAdvanceFires \/ Continue \/ ShowEnd \/ RetryShowsRun
      BY <2>4
         DEF AutoAdvanceFires, Continue, MoveOn, ShowEnd, RetryShowsRun, cursorVars, outcomeVars,
             historyVars
    <2>5. QED
      BY <2>2, <2>3, <2>4
  <1>2. QED
    BY FlowInvariant, <1>1, PTL DEF FlowSpec, EndsOnce

-----------------------------------------------------------------------------
(* The saves of the questionnaire.                                          *)

(* A version taken into the history is not ahead of its row, and the row's  *)
(* own version was taken with the content the row has.                      *)
HistoryInv ==
    \A h \in history :
        /\ h[1] \in DOMAIN definitions /\ h[2] \in Nat
        /\ h[2] <= definitions[h[1]].version
        /\ h[2] = definitions[h[1]].version => h[3] = definitions[h[1]].content

TableInv ==
    /\ definitions \in Seq([name : Name, version : Nat \ {0}, content : Edition])
    /\ \A s \in landed : s[1] \in DOMAIN definitions
    /\ HistoryInv /\ AcceptedIsKept

(* Every save and every entry of the queue names the row it is about, until *)
(* the page takes the save for done.                                        *)
Rows == [name : Name, version : Nat \ {0}, content : Edition]
Saves(n) == [step : SaveStep, kind : RequestKind, row : 0 .. n, name : Name \cup {"none"},
             body : Edition, on : Trigger \cup {Nobody}, publish : BOOLEAN]
OnItsWay == {"sent", "ok", "refused"}
WithRequest == OnItsWay \cup {"queued"}
GoodSave(k, n) ==
    /\ k \in Saves(n)
    /\ k.step \in WithRequest => k.kind # "none" /\ k.name \in Name
    /\ k.step \in OnItsWay /\ k.kind # "create" => k.row # 0
GoodEntry(e, n) ==
    /\ e.tries \in 0 .. MaxRetry - 1 /\ e.req \in Requests(n)
    /\ e.req.kind # "create" => e.req.row # 0
SavesAreGood ==
    call \in [Trigger -> Saves(Len(definitions))]
        /\ \A c \in Trigger : GoodSave(call[c], Len(definitions))
EntriesAreGood == \A e \in outbox \cup replay : GoodEntry(e, Len(definitions))

DocumentTypes ==
    /\ edition \in Edition /\ docName \in Name /\ docId \in 0 .. Len(definitions)
    /\ isDirty \in BOOLEAN /\ isLoading \in BOOLEAN
    /\ debounce \in BOOLEAN /\ timer \in BOOLEAN
    /\ createInFlight \in Trigger \cup {Nobody} /\ blocked \subseteq Name
    /\ requests \in 0 .. MaxRequests /\ faults \in 0 .. MaxFaults

SaveInv == DocumentTypes /\ SavesAreGood /\ EntriesAreGood /\ TableInv

LEMMA SaveTypes == SaveInv => DesignerTypeOK
  BY DEF SaveInv, DocumentTypes, SavesAreGood, EntriesAreGood, GoodEntry, TableInv, Saves,
         DesignerTypeOK

(* What a row can be only grows with the number of rows.                    *)
LEMMA TypesGrow ==
    ASSUME NEW m \in Nat, NEW n \in Nat, m <= n
    PROVE  /\ \A k : GoodSave(k, m) => GoodSave(k, n)
           /\ \A e : GoodEntry(e, m) => GoodEntry(e, n)
  <1>1. 0 .. m \subseteq 0 .. n
    OBVIOUS
  <1>2. \A k \in Saves(m) : k \in Saves(n)
    BY <1>1 DEF Saves
  <1>3. \A q \in Requests(m) : q \in Requests(n)
    BY <1>1 DEF Requests
  <1>4. QED
    BY <1>2, <1>3 DEF GoodSave, GoodEntry

LEMMA RowsAreNumbered ==
    ASSUME TableInv
    PROVE  /\ Len(definitions) \in Nat /\ DOMAIN definitions = 1 .. Len(definitions)
           /\ \A r \in DOMAIN definitions :
                definitions[r] \in Rows /\ definitions[r].version \in Nat \ {0}
  <1>1. definitions \in Seq(Rows)
    BY DEF TableInv, Rows
  <1>2. Len(definitions) \in Nat /\ DOMAIN definitions = 1 .. Len(definitions)
    BY <1>1
  <1>3. \A r \in DOMAIN definitions : definitions[r] \in Rows
    BY <1>1, <1>2
  <1>4. \A d \in Rows : d.version \in Nat \ {0}
    BY DEF Rows
  <1>5. QED
    BY <1>2, <1>3, <1>4

(* A save as it starts, moves on and ends.                                  *)
LEMMA SentIsGood ==
    ASSUME DocumentTypes, Len(definitions) \in Nat,
           NEW kind \in {"create", "update", "publish"}, NEW row \in 0 .. Len(definitions),
           kind # "create" => row # 0, NEW publish \in BOOLEAN
    PROVE  GoodSave(Sent(kind, row, publish), Len(definitions))
  BY DEF DocumentTypes, GoodSave, Saves, Sent, SaveStep, RequestKind, Nobody

LEMMA NoCallIsGood == ASSUME NEW n \in Nat PROVE GoodSave(NoCall, n)
  BY DesignerAssumption
     DEF GoodSave, Saves, NoCall, SaveStep, RequestKind, OnItsWay, WithRequest, Nobody, Edition

LEMMA NextStepIsGood ==
    ASSUME NEW n \in Nat, NEW k, GoodSave(k, n), NEW at \in SaveStep,
           at \in OnItsWay => k.step \in OnItsWay,
           at \in WithRequest => k.step \in WithRequest
    PROVE  GoodSave([k EXCEPT !.step = at], n)
  BY DEF GoodSave, Saves

(* One save changes.                                                        *)
LEMMA OneSaveChanges ==
    ASSUME SavesAreGood, NEW c \in Trigger, NEW k, GoodSave(k, Len(definitions)),
           call' = [call EXCEPT ![c] = k], definitions' = definitions
    PROVE  SavesAreGood'
  BY DEF SavesAreGood, GoodSave

-----------------------------------------------------------------------------
(* The server.  An update keeps what it writes over in the history: an      *)
(* earlier snapshot of the version has the same content.                    *)
LEMMA ApplyKeeps ==
    ASSUME TableInv, NEW req, req.kind \in RequestKind \ {"none"},
           req.name \in Name, req.body \in Edition,
           req.kind # "create" => req.row \in DOMAIN definitions, Apply(req)
    PROVE  /\ TableInv' /\ Len(definitions) <= Len(definitions')
           /\ req.kind = "create" => Len(definitions') = Len(definitions) + 1
  <1> DEFINE n == Len(definitions)
             r == req.row
  <1>1. /\ n \in Nat /\ DOMAIN definitions = 1 .. n /\ definitions \in Seq(Rows)
        /\ \A i \in DOMAIN definitions :
                definitions[i] \in Rows /\ definitions[i].version \in Nat \ {0}
    BY RowsAreNumbered DEF TableInv, Rows
  <1>2. CASE req.kind = "create"
    <2> DEFINE new == Definition(req.name, 1, req.body)
    <2>1. new \in Rows /\ new.content = req.body
      BY DEF Definition, Rows
    <2>2. /\ definitions' = Append(definitions, new)
          /\ landed' = landed \cup {<<n + 1, req.body>>} /\ history' = history
      BY <1>2 DEF Apply
    <2> HIDE DEF new
    <2>3. /\ definitions' \in Seq(Rows) /\ Len(definitions') = n + 1
          /\ DOMAIN definitions' = 1 .. n + 1 /\ definitions'[n + 1] = new
          /\ \A i \in 1 .. n : definitions'[i] = definitions[i]
      BY <1>1, <2>1, <2>2
    <2>4. HistoryInv'
      BY <1>1, <2>2, <2>3 DEF TableInv, HistoryInv
    <2>5. AcceptedIsKept'
      BY <1>1, <2>1, <2>2, <2>3 DEF TableInv, AcceptedIsKept
    <2>6. TableInv'
      BY <1>1, <2>2, <2>3, <2>4, <2>5 DEF TableInv, Rows
    <2>7. QED
      BY <1>1, <2>3, <2>6
  <1>3. CASE req.kind = "update"
    <2> DEFINE new == Definition(req.name, NextVersion(r), req.body)
    <2>1. r \in DOMAIN definitions /\ definitions[r].version \in Nat \ {0}
      BY <1>1, <1>3
    <2>2. /\ new \in Rows /\ new.content = req.body
          /\ new.version = definitions[r].version + 1
      BY <2>1 DEF Definition, Rows, NextVersion
    <2>3. /\ definitions' = [definitions EXCEPT ![r] = new]
          /\ history' = TakeSnapshot(r)
          /\ landed' = landed \cup {<<r, req.body>>}
      BY <1>3 DEF Apply
    <2> HIDE DEF new
    <2>4. /\ definitions' \in Seq(Rows) /\ Len(definitions') = n
          /\ DOMAIN definitions' = 1 .. n /\ definitions'[r] = new
          /\ \A i \in 1 .. n : i # r => definitions'[i] = definitions[i]
      BY <1>1, <2>1, <2>2, <2>3
    <2> DEFINE old == <<r, definitions[r].version, definitions[r].content>>
    <2>5. /\ history \subseteq history' /\ \A h \in history' : h \in history \/ h = old
          /\ \/ \E h \in history : h[1] = r /\ h[2] = definitions[r].version
             \/ old \in history'
      BY <2>3 DEF TakeSnapshot
    <2>6. \E h \in history' : h[1] = r /\ h[3] = definitions[r].content
      <3>1. CASE old \in history'
        BY <3>1
      <3>2. CASE \E h \in history : h[1] = r /\ h[2] = definitions[r].version
        BY <2>5, <3>2 DEF TableInv, HistoryInv
      <3>3. QED
        BY <2>5, <3>1, <3>2
    <2>7. HistoryInv'
      <3> SUFFICES ASSUME NEW h \in history'
                   PROVE  /\ h[1] \in DOMAIN definitions' /\ h[2] \in Nat
                          /\ h[2] <= definitions'[h[1]].version
                          /\ h[2] = definitions'[h[1]].version => h[3] = definitions'[h[1]].content
        BY DEF HistoryInv
      <3>1. CASE h = old
        BY <1>1, <2>1, <2>2, <2>4, <3>1
      <3>2. CASE h \in history /\ h[1] = r
        <4>1. h[2] \in Nat /\ h[2] <= definitions[r].version
          BY <3>2 DEF TableInv, HistoryInv
        <4>2. h[2] < definitions'[r].version
          BY <2>1, <2>2, <2>4, <4>1
        <4>3. h[2] <= definitions'[r].version /\ h[2] # definitions'[r].version
          BY <2>1, <2>2, <2>4, <4>1, <4>2
        <4>4. QED
          BY <1>1, <2>1, <2>4, <3>2, <4>1, <4>3
      <3>3. CASE h \in history /\ h[1] # r
        BY <1>1, <2>4, <3>3 DEF TableInv, HistoryInv
      <3>4. QED
        BY <2>5, <3>1, <3>2, <3>3
    <2>8. AcceptedIsKept'
      BY <1>1, <2>1, <2>2, <2>3, <2>4, <2>5, <2>6 DEF TableInv, AcceptedIsKept
    <2>9. TableInv'
      BY <1>1, <2>1, <2>3, <2>4, <2>7, <2>8 DEF TableInv, Rows
    <2>10. QED
      BY <1>1, <1>3, <2>4, <2>9
  <1>4. CASE req.kind = "publish"
    <2>1. r \in DOMAIN definitions /\ definitions[r].version \in Nat \ {0}
      BY <1>1, <1>4
    <2>2. history' = TakeSnapshot(r) /\ UNCHANGED <<definitions, landed>>
      BY <1>4 DEF Apply
    <2>3. /\ history \subseteq history'
          /\ \A h \in history' :
                h \in history \/ h = <<r, definitions[r].version, definitions[r].content>>
      BY <2>2 DEF TakeSnapshot
    <2>4. HistoryInv'
      BY <2>1, <2>2, <2>3 DEF TableInv, HistoryInv
    <2>5. AcceptedIsKept'
      BY <2>2, <2>3 DEF TableInv, AcceptedIsKept
    <2>6. QED
      BY <1>1, <1>4, <2>2, <2>4, <2>5 DEF TableInv
  <1>5. QED
    BY <1>2, <1>3, <1>4 DEF RequestKind

-----------------------------------------------------------------------------
(* The page.                                                                *)

(* A save decides: it updates the document's row, creates one, or stops.    *)
LEMMA DecideKeeps ==
    ASSUME SaveInv, NEW c \in Trigger, NEW publish \in BOOLEAN,
           Decide(c, publish), definitions' = definitions
    PROVE  /\ SavesAreGood' /\ isLoading' \in BOOLEAN
           /\ createInFlight' \in Trigger \cup {Nobody}
  <1>1. Len(definitions) \in Nat /\ SavesAreGood /\ DocumentTypes
    BY RowsAreNumbered DEF SaveInv
  <1>2. PICK k : call' = [call EXCEPT ![c] = k] /\ GoodSave(k, Len(definitions))
    <2>1. CASE docId # 0
      <3>1. docId \in 0 .. Len(definitions)
        BY <1>1 DEF DocumentTypes
      <3>2. GoodSave(Sent("update", docId, publish), Len(definitions))
        BY <1>1, <2>1, <3>1, SentIsGood
      <3>3. QED
        BY <2>1, <3>2 DEF Decide
    <2>2. CASE docId = 0 /\ docName \in blocked
      BY <1>1, <2>2, NoCallIsGood DEF Decide
    <2>3. CASE docId = 0 /\ docName \notin blocked
      <3>1. GoodSave(Sent("create", 0, publish), Len(definitions))
        BY <1>1, SentIsGood
      <3>2. QED
        BY <2>3, <3>1 DEF Decide
    <2>4. QED
      BY <2>1, <2>2, <2>3
  <1>3. SavesAreGood'
    BY <1>1, <1>2, OneSaveChanges
  <1>4. QED
    BY <1>1, <1>3 DEF Decide, DocumentTypes

LEMMA SaveKeeps ==
    ASSUME SaveInv, NEW c \in Trigger, NEW publish \in BOOLEAN,
           SaveQuestionnaire(c, publish), definitions' = definitions
    PROVE  /\ SavesAreGood' /\ isLoading' \in BOOLEAN
           /\ createInFlight' \in Trigger \cup {Nobody}
  <1>1. Len(definitions) \in Nat /\ SavesAreGood /\ DocumentTypes
    BY RowsAreNumbered DEF SaveInv
  <1>2. CASE docId = 0 /\ createInFlight # Nobody
    <2> DEFINE k == [NoCall EXCEPT !.step = "waiting", !.on = createInFlight,
                                   !.publish = publish]
    <2>1. GoodSave(k, Len(definitions))
      BY <1>1, NoCallIsGood
         DEF DocumentTypes, NoCall, GoodSave, Saves, SaveStep, RequestKind, OnItsWay, WithRequest
    <2>2. QED
      BY <1>1, <1>2, <2>1, OneSaveChanges DEF SaveQuestionnaire, DocumentTypes
  <1>3. CASE ~(docId = 0 /\ createInFlight # Nobody)
    BY <1>3, DecideKeeps DEF SaveQuestionnaire
  <1>4. QED
    BY <1>2, <1>3

(* Edits and what starts a save.                                            *)
LEMMA TriggersKeep ==
    ASSUME SaveInv,
           \/ EditDocument \/ DebounceFires \/ TickFires \/ DraftStored \/ DraftFailsOrOffline
           \/ \E publish \in BOOLEAN : AuthorSaves(publish)
           \/ \E c \in Trigger : ResumeSave(c)
    PROVE  SaveInv'
  <1>1. Len(definitions) \in Nat /\ SavesAreGood /\ DocumentTypes
    BY RowsAreNumbered DEF SaveInv
  <1>2. UNCHANGED <<outbox, replay, definitions, history, landed, docId, blocked>>
    BY DEF EditDocument, DebounceFires, TickFires, DraftStored, DraftFailsOrOffline,
           AuthorSaves, ResumeSave, docVars, createVars, outboxVars, tableVars
  <1>3. /\ SavesAreGood' /\ isLoading' \in BOOLEAN
        /\ createInFlight' \in Trigger \cup {Nobody}
    <2>1. CASE UNCHANGED <<call, isLoading, createInFlight>>
      BY <1>1, <1>2, <2>1 DEF SavesAreGood, GoodSave, DocumentTypes
    <2>2. CASE TickFires
      <3>1. "drafting" \in SaveStep /\ "drafting" \notin WithRequest /\ "drafting" \notin OnItsWay
            /\ "tick" \in Trigger
        BY DEF SaveStep, OnItsWay, WithRequest, Trigger
      <3>2. GoodSave([call["tick"] EXCEPT !.step = "drafting"], Len(definitions))
        BY <1>1, <3>1, NextStepIsGood DEF SavesAreGood
      <3>3. \/ call' = call
            \/ call' = [call EXCEPT !["tick"] = [call["tick"] EXCEPT !.step = "drafting"]]
        BY <2>2 DEF TickFires
      <3>4. UNCHANGED <<isLoading, createInFlight>>
        BY <2>2 DEF TickFires, flagVars, createVars
      <3>5. QED
        BY <1>1, <1>2, <3>1, <3>2, <3>3, <3>4, OneSaveChanges
           DEF SavesAreGood, GoodSave, DocumentTypes
    <2>3. CASE DraftFailsOrOffline
      <3>1. /\ call' = [call EXCEPT !["tick"] = NoCall] /\ "tick" \in Trigger
            /\ UNCHANGED <<isLoading, createInFlight>>
        BY <2>3 DEF DraftFailsOrOffline, flagVars, createVars, Trigger
      <3>2. QED
        BY <1>1, <1>2, <3>1, NoCallIsGood, OneSaveChanges DEF DocumentTypes
    <2>4. ASSUME NEW c \in Trigger, NEW publish \in BOOLEAN, SaveQuestionnaire(c, publish)
          PROVE  /\ SavesAreGood' /\ isLoading' \in BOOLEAN
                 /\ createInFlight' \in Trigger \cup {Nobody}
      BY <1>2, <2>4, SaveKeeps
    <2>5. ASSUME NEW c \in Trigger, ResumeSave(c)
          PROVE  /\ SavesAreGood' /\ isLoading' \in BOOLEAN
                 /\ createInFlight' \in Trigger \cup {Nobody}
      <3>1. call[c].publish \in BOOLEAN
        BY <1>1 DEF SavesAreGood, Saves
      <3>2. QED
        BY <1>2, <2>5, <3>1, DecideKeeps DEF ResumeSave
    <2>6. QED
      BY <2>1, <2>2, <2>3, <2>4, <2>5
         DEF EditDocument, DebounceFires, DraftStored, AuthorSaves, flagVars, createVars, Trigger
  <1>4. /\ edition' \in Edition /\ docName' \in Name
        /\ isDirty' \in BOOLEAN /\ debounce' \in BOOLEAN /\ timer' \in BOOLEAN
        /\ requests' \in 0 .. MaxRequests /\ faults' \in 0 .. MaxFaults
    <2>1. CASE EditDocument
      BY <1>1, <2>1, DesignerAssumption
         DEF DocumentTypes, Edition, EditDocument
    <2>2. ASSUME NEW publish \in BOOLEAN, AuthorSaves(publish)
          PROVE  requests' \in 0 .. MaxRequests
      BY <1>1, <2>2, DesignerAssumption DEF DocumentTypes, AuthorSaves
    <2>3. CASE DraftFailsOrOffline
      BY <1>1, <2>3, DesignerAssumption
         DEF DocumentTypes, DraftFailsOrOffline, Fault, docVars, flagVars, armedVars
    <2>4. QED
      BY <1>1, <2>1, <2>2, <2>3
       DEF DocumentTypes, Edition, EditDocument, DebounceFires, TickFires, DraftStored,
           DraftFailsOrOffline, AuthorSaves, ResumeSave, Fault, docVars, flagVars, armedVars
  <1>5. DocumentTypes'
    BY <1>1, <1>2, <1>3, <1>4 DEF DocumentTypes
  <1>6. EntriesAreGood' /\ TableInv'
    BY <1>2 DEF SaveInv, EntriesAreGood, TableInv, HistoryInv, AcceptedIsKept
  <1>7. QED
    BY <1>3, <1>5, <1>6 DEF SaveInv

-----------------------------------------------------------------------------
(* The network.                                                             *)

(* What the server does keeps the saves and the entries of the queue.       *)
LEMMA RowsOnlyGrow ==
    ASSUME SaveInv, TableInv', Len(definitions) <= Len(definitions')
    PROVE  /\ Len(definitions') \in Nat
           /\ \A c \in Trigger : GoodSave(call[c], Len(definitions'))
           /\ \A e \in outbox \cup replay : GoodEntry(e, Len(definitions'))
           /\ docId \in 0 .. Len(definitions')
  <1>1. Len(definitions) \in Nat
    BY RowsAreNumbered DEF SaveInv
  <1>2. Len(definitions') \in Nat
    BY DEF TableInv
  <1>3. QED
    BY <1>1, <1>2, TypesGrow DEF SaveInv, SavesAreGood, EntriesAreGood, DocumentTypes

LEMMA ServeKeeps == ASSUME SaveInv, NEW c \in Trigger, Serve(c) PROVE SaveInv'
  <1> DEFINE k == call[c]
             n == Len(definitions)
  <1>1. /\ n \in Nat /\ DOMAIN definitions = 1 .. n
        /\ SavesAreGood /\ DocumentTypes /\ TableInv /\ EntriesAreGood
    BY RowsAreNumbered DEF SaveInv
  <1>2. /\ GoodSave(k, n) /\ k \in Saves(n) /\ k.step = "sent"
    BY <1>1 DEF SavesAreGood, GoodSave, Serve
  <1>3. UNCHANGED <<docVars, flagVars, armedVars, createVars, outboxVars, requests, faults>>
    BY DEF Serve
  <1>4. /\ "sent" \in OnItsWay /\ "sent" \in WithRequest
        /\ {"ok", "refused"} \subseteq SaveStep \cap OnItsWay \cap WithRequest
    BY DEF OnItsWay, WithRequest, SaveStep
  <1>5. CASE Applicable(k)
    <2>1. /\ Apply(k)
          /\ call' = [call EXCEPT ![c] = [k EXCEPT !.step = "ok",
                !.row = IF k.kind = "create" THEN Len(definitions') ELSE @]]
      BY <1>1, <1>5 DEF Serve, SavesAreGood
    <2>2. /\ k.kind \in RequestKind \ {"none"} /\ k.name \in Name /\ k.body \in Edition
          /\ k.row \in 0 .. n /\ (k.kind # "create" => k.row # 0)
      BY <1>2, <1>4 DEF GoodSave, Saves
    <2>3. k.kind # "create" => k.row \in DOMAIN definitions
      BY <1>1, <2>2
    <2>4. /\ TableInv' /\ n <= Len(definitions')
          /\ k.kind = "create" => Len(definitions') = n + 1
      BY <1>1, <2>1, <2>2, <2>3, ApplyKeeps
    <2>5. /\ Len(definitions') \in Nat
          /\ \A w \in Trigger : GoodSave(call[w], Len(definitions'))
          /\ \A e \in outbox \cup replay : GoodEntry(e, Len(definitions'))
          /\ docId \in 0 .. Len(definitions')
      BY <2>4, RowsOnlyGrow
    <2> DEFINE row == IF k.kind = "create" THEN Len(definitions') ELSE k.row
    <2>6. row \in 0 .. Len(definitions') /\ (k.kind # "create" => row # 0)
      BY <1>1, <2>2, <2>4, <2>5
    <2>7. GoodSave([k EXCEPT !.step = "ok", !.row = row], Len(definitions'))
      BY <1>2, <1>4, <2>2, <2>5, <2>6 DEF GoodSave, Saves
    <2>8. call' = [call EXCEPT ![c] = [k EXCEPT !.step = "ok", !.row = row]]
      BY <1>2, <2>1 DEF Saves
    <2> HIDE DEF row
    <2>9. SavesAreGood'
      BY <1>1, <2>5, <2>7, <2>8 DEF SavesAreGood, GoodSave
    <2>10. DocumentTypes' /\ EntriesAreGood'
      BY <1>1, <1>3, <2>5
         DEF DocumentTypes, EntriesAreGood, docVars, flagVars, armedVars, createVars, outboxVars
    <2>11. QED
      BY <2>4, <2>9, <2>10 DEF SaveInv
  <1>6. CASE ~Applicable(k)
    <2>1. /\ call' = [call EXCEPT ![c] = [k EXCEPT !.step = "refused"]]
          /\ UNCHANGED <<definitions, history, landed>>
      BY <1>1, <1>6 DEF Serve, SavesAreGood, tableVars
    <2>2. GoodSave([k EXCEPT !.step = "refused"], n)
      BY <1>1, <1>2, <1>4, NextStepIsGood
    <2>3. SavesAreGood'
      BY <1>1, <2>1, <2>2, OneSaveChanges
    <2>4. DocumentTypes' /\ EntriesAreGood' /\ TableInv'
      BY <1>1, <1>3, <2>1
         DEF DocumentTypes, EntriesAreGood, TableInv, HistoryInv, AcceptedIsKept,
             docVars, flagVars, armedVars, createVars, outboxVars
    <2>5. QED
      BY <2>3, <2>4 DEF SaveInv
  <1>7. QED
    BY <1>5, <1>6

LEMMA FaultsAreCounted == ASSUME DocumentTypes, Fault PROVE faults' \in 0 .. MaxFaults
  BY DesignerAssumption DEF DocumentTypes, Fault

LEMMA ErrorKeeps == ASSUME SaveInv, NEW c \in Trigger, ServerError(c) PROVE SaveInv'
  <1> DEFINE k == call[c]
             n == Len(definitions)
  <1>1. /\ n \in Nat /\ SavesAreGood /\ DocumentTypes /\ TableInv /\ EntriesAreGood
    BY RowsAreNumbered DEF SaveInv
  <1>2. /\ GoodSave(k, n) /\ k.step = "sent" /\ faults' \in 0 .. MaxFaults
    BY <1>1, FaultsAreCounted DEF SavesAreGood, ServerError
  <1>3. /\ call' = [call EXCEPT ![c] = [k EXCEPT !.step = "refused"]]
        /\ UNCHANGED <<docVars, flagVars, armedVars, createVars, outboxVars, tableVars,
                       requests>>
    BY <1>1 DEF ServerError, SavesAreGood
  <1>4. GoodSave([k EXCEPT !.step = "refused"], n)
    BY <1>1, <1>2, NextStepIsGood DEF OnItsWay, WithRequest, SaveStep
  <1>5. SavesAreGood'
    BY <1>1, <1>3, <1>4, OneSaveChanges DEF tableVars
  <1>6. DocumentTypes' /\ EntriesAreGood' /\ TableInv'
    BY <1>1, <1>2, <1>3
       DEF DocumentTypes, EntriesAreGood, TableInv, HistoryInv, AcceptedIsKept,
           docVars, flagVars, armedVars, createVars, outboxVars, tableVars
  <1>7. QED
    BY <1>5, <1>6 DEF SaveInv

(* What the service worker queues names the row the request was about.      *)
LEMMA StoreLossKeeps == ASSUME SaveInv, NEW c \in Trigger, ConnectionLost(c) PROVE SaveInv'
  <1> DEFINE k == call[c]
             n == Len(definitions)
             q == [kind |-> k.kind, name |-> k.name, body |-> k.body,
                   row |-> IF k.kind = "create" THEN 0 ELSE k.row]
             e == [id |-> NextEntry, tries |-> 0, req |-> q]
  <1>1. /\ n \in Nat /\ SavesAreGood /\ DocumentTypes /\ TableInv /\ EntriesAreGood
    BY RowsAreNumbered DEF SaveInv
  <1>2. /\ GoodSave(k, n) /\ k \in Saves(n) /\ k.step \in OnItsWay /\ k.step \in WithRequest
        /\ faults' \in 0 .. MaxFaults
    BY <1>1, FaultsAreCounted DEF SavesAreGood, GoodSave, ConnectionLost, OnItsWay, WithRequest
  <1>3. /\ outbox' = outbox \cup {e}
        /\ UNCHANGED <<docVars, flagVars, armedVars, createVars, replay, tableVars, requests>>
    BY DEF ConnectionLost
  <1>4. GoodEntry(e, n)
    <2>1. /\ k.kind \in RequestKind \ {"none"} /\ k.name \in Name /\ k.body \in Edition
          /\ k.row \in 0 .. n /\ (k.kind # "create" => k.row # 0)
      BY <1>2 DEF GoodSave, Saves
    <2>2. q \in Requests(n)
      BY <1>1, <2>1 DEF Requests
    <2>3. 0 \in 0 .. MaxRetry - 1
      BY DesignerAssumption
    <2>4. QED
      BY <2>1, <2>2, <2>3 DEF GoodEntry
  <1>5. call' = [call EXCEPT ![c] = [k EXCEPT !.step = "queued", !.row = 0]]
    BY <1>1 DEF ConnectionLost, SavesAreGood, Saves
  <1>6. GoodSave([k EXCEPT !.step = "queued", !.row = 0], n)
    <2>1. "queued" \in SaveStep /\ "queued" \notin OnItsWay /\ 0 \in 0 .. n
      BY <1>1 DEF SaveStep, OnItsWay
    <2>2. k.kind # "none" /\ k.name \in Name
      BY <1>2 DEF GoodSave
    <2>3. QED
      BY <1>2, <2>1, <2>2 DEF GoodSave, Saves
  <1> HIDE DEF e
  <1>7. SavesAreGood'
    BY <1>1, <1>3, <1>5, <1>6, OneSaveChanges DEF tableVars
  <1>8. EntriesAreGood'
    BY <1>1, <1>3, <1>4 DEF EntriesAreGood, tableVars
  <1>9. DocumentTypes' /\ TableInv'
    BY <1>1, <1>2, <1>3
       DEF DocumentTypes, TableInv, HistoryInv, AcceptedIsKept,
           docVars, flagVars, armedVars, createVars, tableVars
  <1>10. QED
    BY <1>7, <1>8, <1>9 DEF SaveInv

(* The end of a save: those that waited for it go on.                       *)
LEMMA EndKeeps ==
    ASSUME SaveInv, NEW c \in Trigger, NEW next, GoodSave(next, Len(definitions)),
           Ended(c, next), definitions' = definitions
    PROVE  SavesAreGood' /\ createInFlight' \in Trigger \cup {Nobody}
  <1>1. Len(definitions) \in Nat /\ SavesAreGood /\ DocumentTypes
    BY RowsAreNumbered DEF SaveInv
  <1>2. "resumed" \in SaveStep \ WithRequest /\ "resumed" \notin OnItsWay
    BY DEF SaveStep, WithRequest, OnItsWay
  <1>3. \A w \in Trigger : GoodSave(call'[w], Len(definitions))
    <2> SUFFICES ASSUME NEW w \in Trigger PROVE GoodSave(call'[w], Len(definitions))
      OBVIOUS
    <2>1. GoodSave(call[w], Len(definitions))
      BY <1>1 DEF SavesAreGood
    <2>2. GoodSave([call[w] EXCEPT !.step = "resumed"], Len(definitions))
      BY <1>1, <1>2, <2>1, NextStepIsGood
    <2>3. call'[w] \in {next, [call[w] EXCEPT !.step = "resumed"], call[w]}
      BY DEF Ended
    <2>4. QED
      BY <2>1, <2>2, <2>3
  <1>4. call' = [w \in Trigger |-> call'[w]]
    BY DEF Ended
  <1>5. SavesAreGood'
    BY <1>3, <1>4 DEF SavesAreGood, GoodSave
  <1>6. QED
    BY <1>1, <1>5 DEF Ended, DocumentTypes

LEMMA SuccessKeeps == ASSUME SaveInv, NEW c \in Trigger, SaveSucceeds(c) PROVE SaveInv'
  <1> DEFINE k == call[c]
             n == Len(definitions)
             going == [k EXCEPT !.step = "sent", !.kind = "publish", !.row = docId']
             next == IF k.publish /\ docId' # 0 THEN going ELSE NoCall
  <1>1. /\ n \in Nat /\ SavesAreGood /\ DocumentTypes /\ TableInv /\ EntriesAreGood
    BY RowsAreNumbered DEF SaveInv
  <1>2. /\ GoodSave(k, n) /\ k \in Saves(n) /\ k.step \in WithRequest /\ k.row \in 0 .. n
    BY <1>1 DEF SavesAreGood, GoodSave, Saves, SaveSucceeds, OnItsWay, WithRequest
  <1>3. /\ UNCHANGED <<edition, docName, outboxVars, tableVars, requests, faults>>
        /\ isDirty' = FALSE /\ isLoading' = FALSE /\ debounce' = FALSE
        /\ timer' \in {timer, TRUE} /\ blocked' \in {blocked, {}}
        /\ docId' \in {docId, k.row}
    BY DEF SaveSucceeds
  <1>4. docId' \in 0 .. n
    BY <1>1, <1>2, <1>3 DEF DocumentTypes
  <1>5. GoodSave(next, n)
    <2>1. CASE k.publish /\ docId' # 0
      <3>1. GoodSave(going, n)
        BY <1>2, <1>4, <2>1 DEF GoodSave, Saves, SaveStep, RequestKind
      <3>2. QED
        BY <2>1, <3>1
    <2>2. CASE ~(k.publish /\ docId' # 0)
      BY <1>1, <2>2, NoCallIsGood
    <2>3. QED
      BY <2>1, <2>2
  <1>6. Ended(c, next)
    BY DEF SaveSucceeds
  <1> HIDE DEF next
  <1>7. SavesAreGood' /\ createInFlight' \in Trigger \cup {Nobody}
    BY <1>3, <1>5, <1>6, EndKeeps DEF tableVars
  <1>8. DocumentTypes' /\ EntriesAreGood' /\ TableInv'
    BY <1>1, <1>3, <1>4, <1>7
       DEF DocumentTypes, EntriesAreGood, TableInv, HistoryInv, AcceptedIsKept,
           outboxVars, tableVars
  <1>9. QED
    BY <1>7, <1>8 DEF SaveInv

LEMMA FailureKeeps == ASSUME SaveInv, NEW c \in Trigger, SaveFails(c) PROVE SaveInv'
  <1> DEFINE k == call[c]
             n == Len(definitions)
  <1>1. /\ n \in Nat /\ SavesAreGood /\ DocumentTypes /\ TableInv /\ EntriesAreGood
    BY RowsAreNumbered DEF SaveInv
  <1>2. GoodSave(k, n) /\ k \in Saves(n) /\ k.publish \in BOOLEAN /\ k.step = "refused"
    BY <1>1 DEF SavesAreGood, Saves, SaveFails
  <1>3. UNCHANGED <<docVars, isDirty, armedVars, blocked, outboxVars, tableVars, requests,
                    faults>>
    BY DEF SaveFails
  <1>4. /\ SavesAreGood' /\ isLoading' \in BOOLEAN
        /\ createInFlight' \in Trigger \cup {Nobody}
    <2>1. CASE Ended(c, NoCall) /\ isLoading' = FALSE
      BY <1>1, <1>3, <2>1, NoCallIsGood, EndKeeps DEF tableVars
    <2>2. CASE /\ docId # 0 /\ isLoading' = TRUE /\ UNCHANGED createInFlight
               /\ call' = [call EXCEPT ![c] = Sent("update", docId, @.publish)]
      <3>1. docId \in 0 .. n
        BY <1>1 DEF DocumentTypes
      <3>2. GoodSave(Sent("update", docId, k.publish), n)
        BY <1>1, <1>2, <2>2, <3>1, SentIsGood
      <3>3. call' = [call EXCEPT ![c] = Sent("update", docId, k.publish)]
        BY <1>1, <2>2 DEF SavesAreGood
      <3>4. QED
        BY <1>1, <1>3, <2>2, <3>2, <3>3, OneSaveChanges DEF DocumentTypes, tableVars
    <2>3. CASE /\ call' = [call EXCEPT ![c].step = "listing"]
               /\ UNCHANGED <<isLoading, createInFlight>>
      <3>1. GoodSave([k EXCEPT !.step = "listing"], n)
        BY <1>1, <1>2, NextStepIsGood DEF SaveStep, OnItsWay, WithRequest
      <3>2. call' = [call EXCEPT ![c] = [k EXCEPT !.step = "listing"]]
        BY <1>1, <2>3 DEF SavesAreGood
      <3>3. QED
        BY <1>1, <1>3, <2>3, <3>1, <3>2, OneSaveChanges DEF DocumentTypes, tableVars
    <2>4. QED
      BY <2>1, <2>2, <2>3 DEF SaveFails
  <1>5. DocumentTypes' /\ EntriesAreGood' /\ TableInv'
    BY <1>1, <1>3, <1>4
       DEF DocumentTypes, EntriesAreGood, TableInv, HistoryInv, AcceptedIsKept,
           docVars, armedVars, outboxVars, tableVars
  <1>6. QED
    BY <1>4, <1>5 DEF SaveInv

LEMMA ListKeeps == ASSUME SaveInv, NEW c \in Trigger, ListAnswered(c) PROVE SaveInv'
  <1>1. /\ Len(definitions) \in Nat /\ SavesAreGood /\ DocumentTypes /\ TableInv
        /\ EntriesAreGood
    BY RowsAreNumbered DEF SaveInv
  <1>2. /\ UNCHANGED <<docVars, isDirty, armedVars, outboxVars, tableVars, requests>>
        /\ isLoading' = FALSE /\ blocked' \in {blocked, {docName}} /\ Ended(c, NoCall)
    BY DEF ListAnswered
  <1>3. faults' \in 0 .. MaxFaults
    BY <1>1, FaultsAreCounted DEF ListAnswered, DocumentTypes
  <1>4. SavesAreGood' /\ createInFlight' \in Trigger \cup {Nobody}
    BY <1>1, <1>2, NoCallIsGood, EndKeeps DEF tableVars
  <1>5. DocumentTypes' /\ EntriesAreGood' /\ TableInv'
    BY <1>1, <1>2, <1>3, <1>4
       DEF DocumentTypes, EntriesAreGood, TableInv, HistoryInv, AcceptedIsKept,
           docVars, armedVars, outboxVars, tableVars
  <1>6. QED
    BY <1>4, <1>5 DEF SaveInv

LEMMA PublishKeeps == ASSUME SaveInv, NEW c \in Trigger, PublishEnds(c) PROVE SaveInv'
  <1>1. /\ Len(definitions) \in Nat /\ SavesAreGood /\ DocumentTypes /\ TableInv
        /\ EntriesAreGood
    BY RowsAreNumbered DEF SaveInv
  <1>2. /\ UNCHANGED <<docVars, flagVars, armedVars, createVars, outboxVars, tableVars,
                       requests, faults>>
        /\ call' = [call EXCEPT ![c] = NoCall]
    BY DEF PublishEnds
  <1>3. SavesAreGood'
    BY <1>1, <1>2, NoCallIsGood, OneSaveChanges DEF tableVars
  <1>4. DocumentTypes' /\ EntriesAreGood' /\ TableInv'
    BY <1>1, <1>2
       DEF DocumentTypes, EntriesAreGood, TableInv, HistoryInv, AcceptedIsKept,
           docVars, flagVars, armedVars, createVars, outboxVars, tableVars
  <1>5. QED
    BY <1>3, <1>4 DEF SaveInv

-----------------------------------------------------------------------------
(* The service worker's sync.                                               *)

LEMMA ReplayKeeps == ASSUME SaveInv, NEW e \in replay, ReplayEntry(e) PROVE SaveInv'
  <1> DEFINE n == Len(definitions)
  <1>1. /\ n \in Nat /\ DOMAIN definitions = 1 .. n
        /\ SavesAreGood /\ DocumentTypes /\ TableInv /\ EntriesAreGood
    BY RowsAreNumbered DEF SaveInv
  <1>2. /\ UNCHANGED <<docVars, flagVars, armedVars, createVars, call, requests>>
        /\ replay' \subseteq replay /\ outbox' \in {Dropped(e), Retried(e)}
        /\ Apply(e.req) \/ UNCHANGED tableVars
    BY DEF ReplayEntry
  <1>3. GoodEntry(e, n)
    BY <1>1 DEF EntriesAreGood
  <1>4. /\ TableInv' /\ n <= Len(definitions')
    <2>1. CASE Apply(e.req)
      <3>1. /\ e.req.kind \in RequestKind \ {"none"} /\ e.req.name \in Name
            /\ e.req.body \in Edition /\ e.req.row \in 0 .. n
            /\ e.req.kind # "create" => e.req.row # 0
        BY <1>3 DEF GoodEntry, Requests
      <3>2. e.req.kind # "create" => e.req.row \in DOMAIN definitions
        BY <1>1, <3>1
      <3>3. QED
        BY <1>1, <2>1, <3>1, <3>2, ApplyKeeps
    <2>2. CASE UNCHANGED tableVars
      BY <1>1, <2>2 DEF TableInv, HistoryInv, AcceptedIsKept, tableVars
    <2>3. QED
      BY <1>2, <2>1, <2>2
  <1>5. /\ Len(definitions') \in Nat
        /\ \A c \in Trigger : GoodSave(call[c], Len(definitions'))
        /\ \A q \in outbox \cup replay : GoodEntry(q, Len(definitions'))
        /\ docId \in 0 .. Len(definitions')
    BY <1>4, RowsOnlyGrow
  <1>6. faults' \in 0 .. MaxFaults
    BY <1>1, FaultsAreCounted DEF ReplayEntry, DocumentTypes
  <1>7. DocumentTypes'
    BY <1>1, <1>2, <1>5, <1>6
       DEF DocumentTypes, docVars, flagVars, armedVars, createVars
  <1>8. SavesAreGood'
    BY <1>1, <1>2, <1>5 DEF SavesAreGood, GoodSave
  <1>9. \A q \in Dropped(e) \cup Retried(e) : GoodEntry(q, Len(definitions'))
    <2>1. \A q \in Dropped(e) : GoodEntry(q, Len(definitions'))
      BY <1>5 DEF Dropped
    <2>2. CASE e.tries + 1 >= MaxRetry
      BY <2>1, <2>2 DEF Retried
    <2>3. CASE ~(e.tries + 1 >= MaxRetry)
      <3> DEFINE again == [e EXCEPT !.tries = @ + 1]
      <3>1. GoodEntry(e, Len(definitions')) /\ e.tries \in 0 .. MaxRetry - 1
        BY <1>5 DEF GoodEntry
      <3>2. e.tries + 1 \in 0 .. MaxRetry - 1
        BY <2>3, <3>1, DesignerAssumption
      <3>3. GoodEntry(again, Len(definitions'))
        BY <3>1, <3>2 DEF GoodEntry
      <3>4. QED
        BY <2>1, <2>3, <3>3 DEF Retried
    <2>4. QED
      BY <2>2, <2>3
  <1>10. EntriesAreGood'
    BY <1>2, <1>5, <1>9 DEF EntriesAreGood
  <1>11. QED
    BY <1>4, <1>7, <1>8, <1>10 DEF SaveInv

-----------------------------------------------------------------------------
LEMMA SaveInit == DesignerInit => SaveInv
  <1> SUFFICES ASSUME DesignerInit PROVE SaveInv
    OBVIOUS
  <1>1. docName \in Name /\ edition = 0 /\ 0 \in Edition
    BY DesignerAssumption DEF DesignerInit, Edition
  <1>2. PICK saved \in BOOLEAN, createQueued \in BOOLEAN, foreign \in BOOLEAN :
            /\ definitions =
                (IF foreign THEN <<Definition(docName, IF saved THEN 2 ELSE 1, 0)>> ELSE <<>>)
                \o (IF saved THEN <<Definition(docName, 1, 0)>> ELSE <<>>)
            /\ docId = IF saved THEN Len(definitions) ELSE 0
            /\ landed = IF saved THEN {<<docId, 0>>} ELSE {}
            /\ outbox = IF createQueued
                        THEN {[id |-> 1, tries |-> 0, req |-> Request("create", 0)]}
                        ELSE {}
    BY DEF DesignerInit
  <1> DEFINE own == Definition(docName, 1, 0)
             other == Definition(docName, IF saved THEN 2 ELSE 1, 0)
  <1>3. own \in Rows /\ other \in Rows /\ own.content = 0
    BY <1>1 DEF Definition, Rows
  <1> HIDE DEF own, other
  <1>4. /\ definitions \in Seq(Rows) /\ Len(definitions) \in Nat
        /\ DOMAIN definitions = 1 .. Len(definitions)
    BY <1>2, <1>3 DEF own, other
  <1>5. saved => /\ Len(definitions) \in {1, 2} /\ definitions[Len(definitions)] = own
    <2>1. CASE foreign /\ saved
      BY <1>2, <1>3, <2>1 DEF own, other
    <2>2. CASE ~foreign /\ saved
      BY <1>2, <1>3, <2>2 DEF own, other
    <2>3. QED
      BY <2>1, <2>2
  <1>6. docId \in 0 .. Len(definitions)
    BY <1>2, <1>4, <1>5
  <1>7. /\ replay = {} /\ history = {} /\ call = [c \in Trigger |-> NoCall]
        /\ requests = 0 /\ faults = 0 /\ blocked = {} /\ createInFlight = Nobody
        /\ isDirty = FALSE /\ isLoading = FALSE /\ debounce = FALSE /\ timer = FALSE
    BY DEF DesignerInit
  <1>8. DocumentTypes
    <2>1. 0 \in 0 .. MaxRequests /\ 0 \in 0 .. MaxFaults
      BY DesignerAssumption
    <2>2. QED
      BY <1>1, <1>6, <1>7, <2>1 DEF DocumentTypes
  <1>9. SavesAreGood
    <2>1. GoodSave(NoCall, Len(definitions))
      BY <1>4, NoCallIsGood
    <2>2. QED
      BY <1>7, <2>1 DEF SavesAreGood, GoodSave
  <1>10. EntriesAreGood
    <2> DEFINE e == [id |-> 1, tries |-> 0, req |-> Request("create", 0)]
    <2>1. Request("create", 0) \in Requests(Len(definitions))
      BY <1>1, <1>4 DEF Request, Requests, RequestKind
    <2>2. 0 \in 0 .. MaxRetry - 1
      BY DesignerAssumption
    <2>3. GoodEntry(e, Len(definitions))
      BY <2>1, <2>2 DEF GoodEntry, Request
    <2>4. QED
      BY <1>2, <1>7, <2>3 DEF EntriesAreGood
  <1>11. TableInv
    <2>1. \A s \in landed : s = <<Len(definitions), 0>> /\ saved
      BY <1>2
    <2>2. \A s \in landed : s[1] \in DOMAIN definitions
      BY <1>4, <1>5, <2>1
    <2>3. AcceptedIsKept
      BY <1>3, <1>5, <2>1 DEF AcceptedIsKept
    <2>4. QED
      BY <1>4, <1>7, <2>2, <2>3 DEF TableInv, HistoryInv, Rows
  <1>12. QED
    BY <1>8, <1>9, <1>10, <1>11 DEF SaveInv

LEMMA SaveStepKeeps == SaveInv /\ [DesignerNext]_designerVars => SaveInv'
  <1> SUFFICES ASSUME SaveInv, [DesignerNext]_designerVars PROVE SaveInv'
    OBVIOUS
  <1>1. CASE SyncFires
    BY <1>1
       DEF SyncFires, SaveInv, DocumentTypes, SavesAreGood, GoodSave, EntriesAreGood, TableInv,
           HistoryInv, AcceptedIsKept, docVars, flagVars, armedVars, createVars, tableVars
  <1>2. CASE UNCHANGED designerVars
    BY <1>2
       DEF designerVars, SaveInv, DocumentTypes, SavesAreGood, GoodSave, EntriesAreGood,
           TableInv, HistoryInv, AcceptedIsKept, docVars, flagVars, armedVars, createVars,
           outboxVars, tableVars
  <1>3. QED
    BY <1>1, <1>2, TriggersKeep, ServeKeeps, ErrorKeeps, StoreLossKeeps, SuccessKeeps,
       FailureKeeps, ListKeeps, PublishKeeps, ReplayKeeps
       DEF DesignerNext

(* Every definition of the save keeps its types.                            *)
THEOREM DesignerKeepsItsTypes == DesignerSpec => []DesignerTypeOK
  <1>1. DesignerSpec => []SaveInv
    BY SaveInit, SaveStepKeeps, PTL DEF DesignerSpec
  <1>2. QED
    BY <1>1, SaveTypes, PTL

(* Whatever saves, publications and replays overlap, what a save stored is  *)
(* the row's content or in its version history.                             *)
THEOREM AcceptedStaysKept == DesignerSpec => []AcceptedIsKept
  <1>1. SaveInv => AcceptedIsKept
    BY DEF SaveInv, TableInv
  <1>2. DesignerSpec => []SaveInv
    BY SaveInit, SaveStepKeeps, PTL DEF DesignerSpec
  <1>3. QED
    BY <1>1, <1>2, PTL
-----------------------------------------------------------------------------
(* A step of the composed device is a step of one component, or leaves it   *)
(* alone: whatever is proved of a component holds of it in the device.      *)
THEOREM DeviceRunsItsParts ==
    DeviceSpec => /\ FlowSpec /\ StorageSpec /\ VariableSpec /\ BinarySpec /\ KeysSpec
                  /\ ContentSpec /\ DesignerSpec
  <1>1. DeviceInit => /\ FlowInit /\ StorageInit /\ VariableInit /\ BinaryInit
                      /\ KeysInit /\ ContentInit /\ DesignerInit
    BY DEF DeviceInit
  <1>2. [DeviceNext]_deviceVars => /\ [FlowNext]_flowVars /\ [StorageNext]_storageVars
                                   /\ [VariableNext]_variableVars
                                   /\ [BinaryNext]_binaryVars /\ [KeysNext]_keysVars
                                   /\ [ContentNext]_contentVars
                                   /\ [DesignerNext]_designerVars
    <2>1. CASE UNCHANGED deviceVars
      BY <2>1 DEF deviceVars
    <2>2. CASE DeviceNext
      BY <2>2 DEF DeviceNext
    <2>3. QED
      BY <2>1, <2>2
  <1>3. QED
    BY <1>1, <1>2, PTL
       DEF DeviceSpec, FlowSpec, StorageSpec, VariableSpec, BinarySpec, KeysSpec,
           ContentSpec, DesignerSpec

(* Every variable of the device's components keeps to its type.             *)
THEOREM DeviceKeepsItsTypes == DeviceSpec => []DeviceTypeOK
  BY DeviceRunsItsParts, FlowKeepsItsTypes, StorageKeepsItsTypes,
     VariablesKeepTheirTypes, BinariesKeepTheirTypes, KeysKeepTheirTypes,
     CacheKeepsItsTypes, DesignerKeepsItsTypes, PTL DEF DeviceTypeOK
=============================================================================
