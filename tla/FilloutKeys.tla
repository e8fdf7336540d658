---------------------------- MODULE FilloutKeys -----------------------------
(* The keys of the encrypted answer store.  All tabs share one key table: a *)
(* device root key and, for the one session modelled, a session key wrapped *)
(* by the root.  Each tab keeps what it loaded for as long as it lives.     *)
(* Looking a key up and storing a fresh one are two requests to the table.  *)
EXTENDS Naturals, FiniteSets

CONSTANTS
    Tab,
    MaxKeys,      \* bound: keys of each kind ever generated
    MaxRows,      \* bound: rows ever written
    MaxReopens    \* bound: tabs closed and opened again

ASSUME KeyAssumption == MaxKeys \in Nat /\ MaxRows \in Nat /\ MaxReopens \in Nat

VARIABLES
    rootRow,      \* the stored root key, 0 when there is none
    keyRow,       \* the stored session key and the root that wraps it
    rootsMade, keysMade,
    tabRoot,      \* rootKeyPromise, 0 when null
    tabKey,       \* the session's entry in sessionKeys, 0 when absent
    tabStep,      \* what the tab's key lookup does next
    rows,         \* stored rows: [id, key, synced], key 0 for plaintext
    rowsMade,
    sessionRow,   \* the session row is there
    reopens,
    raced,        \* history: a fresh key replaced one another tab had stored
    writtenAfter  \* history: a row was written when the purge had run

keyTableVars == <<rootRow, keyRow, rootsMade, keysMade>>
tabVars == <<tabRoot, tabKey, tabStep>>
sealedVars == <<rows, rowsMade, sessionRow>>
keysVars == <<keyTableVars, tabVars, sealedVars, reopens, raced, writtenAfter>>

NoKey == [key |-> 0, root |-> 0]

KeysTypeOK ==
    /\ rootRow \in 0 .. MaxKeys /\ rootsMade \in 0 .. MaxKeys /\ keysMade \in 0 .. MaxKeys
    /\ keyRow \in [key : 0 .. MaxKeys, root : 0 .. MaxKeys]
    /\ tabRoot \in [Tab -> 0 .. MaxKeys] /\ tabKey \in [Tab -> 0 .. MaxKeys]
    /\ tabStep \in [Tab -> {"idle", "newRoot", "findKey", "newKey", "ready"}]
    /\ rows \subseteq [id : 1 .. MaxRows, key : 0 .. MaxKeys, synced : BOOLEAN]
    /\ rowsMade \in 0 .. MaxRows /\ reopens \in 0 .. MaxReopens
    /\ sessionRow \in BOOLEAN /\ raced \in BOOLEAN /\ writtenAfter \in BOOLEAN

KeysInit ==
    /\ rootRow = 0 /\ keyRow = NoKey /\ rootsMade = 0 /\ keysMade = 0
    /\ tabRoot = [t \in Tab |-> 0] /\ tabKey = [t \in Tab |-> 0]
    /\ tabStep = [t \in Tab |-> "idle"]
    /\ rows = {} /\ rowsMade = 0 /\ sessionRow = TRUE /\ reopens = 0
    /\ raced = FALSE /\ writtenAfter = FALSE

(* encryptField begins: a cached session key is used at once, a cached root *)
(* goes on to the session's row, else the root's row is read.               *)
StartWrite(t) ==
    /\ tabStep[t] = "idle" /\ rowsMade < MaxRows
    /\ tabStep' = [tabStep EXCEPT ![t] =
            IF tabKey[t] # 0 THEN "ready"
            ELSE IF tabRoot[t] # 0 \/ rootRow # 0 THEN "findKey" ELSE "newRoot"]
    /\ tabRoot' = [tabRoot EXCEPT ![t] = IF tabKey[t] # 0 \/ @ # 0 THEN @ ELSE rootRow]
    /\ UNCHANGED <<keyTableVars, tabKey, sealedVars, reopens, raced, writtenAfter>>

(* No root was there when the tab looked: it stores its own.                *)
PutRoot(t) ==
    /\ tabStep[t] = "newRoot" /\ rootsMade < MaxKeys
    /\ rootsMade' = rootsMade + 1 /\ rootRow' = rootsMade'
    /\ tabRoot' = [tabRoot EXCEPT ![t] = rootsMade']
    /\ tabStep' = [tabStep EXCEPT ![t] = "findKey"]
    /\ raced' = (raced \/ rootRow # 0)
    /\ UNCHANGED <<keyRow, keysMade, tabKey, sealedVars, reopens, writtenAfter>>

(* The session's key is unwrapped, which fails under another root: the      *)
(* field is then stored as plaintext.                                       *)
FindKey(t) ==
    /\ tabStep[t] = "findKey"
    /\ IF keyRow = NoKey
       THEN tabStep' = [tabStep EXCEPT ![t] = "newKey"] /\ UNCHANGED tabKey
       ELSE /\ tabStep' = [tabStep EXCEPT ![t] = "ready"]
            /\ tabKey' = [tabKey EXCEPT ![t] =
                    IF keyRow.root = tabRoot[t] THEN keyRow.key ELSE 0]
    /\ UNCHANGED <<keyTableVars, tabRoot, sealedVars, reopens, raced, writtenAfter>>

PutKey(t) ==
    /\ tabStep[t] = "newKey" /\ keysMade < MaxKeys
    /\ keysMade' = keysMade + 1
    /\ keyRow' = [key |-> keysMade', root |-> tabRoot[t]]
    /\ tabKey' = [tabKey EXCEPT ![t] = keysMade']
    /\ tabStep' = [tabStep EXCEPT ![t] = "ready"]
    /\ raced' = (raced \/ keyRow # NoKey)
    /\ UNCHANGED <<rootRow, rootsMade, tabRoot, sealedVars, reopens, writtenAfter>>

(* The encrypted row is put, whatever happened to the key since.            *)
PutRow(t) ==
    /\ tabStep[t] = "ready" /\ rowsMade < MaxRows
    /\ rowsMade' = rowsMade + 1
    /\ rows' = rows \cup {[id |-> rowsMade', key |-> tabKey[t], synced |-> FALSE]}
    /\ tabStep' = [tabStep EXCEPT ![t] = "idle"]
    /\ writtenAfter' = (writtenAfter \/ ~sessionRow)
    /\ UNCHANGED <<keyTableVars, tabRoot, tabKey, sessionRow, reopens, raced>>

(* getUnsyncedResponses decrypts the unsynced rows together: one the tab    *)
(* cannot open fails the whole read, else the drain ships them all (the     *)
(* drain itself is FilloutSync's).                                          *)
CanOpen(t, r) ==
    \/ r.key = 0 \/ r.key = tabKey[t]
    \/ /\ tabKey[t] = 0 /\ r.key = keyRow.key
       /\ keyRow.root = IF tabRoot[t] # 0 THEN tabRoot[t] ELSE rootRow
ShipRows(t) ==
    /\ \E r \in rows : ~r.synced
    /\ \A r \in rows : r.synced \/ CanOpen(t, r)
    /\ rows' = {[r EXCEPT !.synced = TRUE] : r \in rows}
    /\ UNCHANGED <<keyTableVars, tabVars, rowsMade, sessionRow, reopens, raced,
                   writtenAfter>>

(* An operator named Faulty... is a plausible bug in the definition that    *)
(* follows.  Nothing uses it: it says which slip the properties notice.     *)
FaultyPurgeSession ==
    /\ sessionRow
    /\ rows' = {r \in rows : ~r.synced}
    /\ sessionRow' = FALSE /\ keyRow' = NoKey
    /\ UNCHANGED <<rootRow, rootsMade, keysMade, tabVars, rowsMade, reopens, raced, writtenAfter>>

(* purgeSyncedSessionData, one transaction: the synced rows, the session    *)
(* row, and the key when no row of the session is left.                     *)
PurgeSession ==
    /\ sessionRow
    /\ rows' = {r \in rows : ~r.synced}
    /\ sessionRow' = FALSE
    /\ keyRow' = IF rows' = {} THEN NoKey ELSE keyRow
    /\ UNCHANGED <<rootRow, rootsMade, keysMade, tabVars, rowsMade, reopens,
                   raced, writtenAfter>>

(* A tab is closed and opened again: what it had cached is gone.            *)
Reopen(t) ==
    /\ reopens < MaxReopens /\ reopens' = reopens + 1
    /\ tabRoot' = [tabRoot EXCEPT ![t] = 0] /\ tabKey' = [tabKey EXCEPT ![t] = 0]
    /\ tabStep' = [tabStep EXCEPT ![t] = "idle"]
    /\ UNCHANGED <<keyTableVars, sealedVars, raced, writtenAfter>>

KeysNext ==
    \/ PurgeSession
    \/ \E t \in Tab :
        \/ StartWrite(t) \/ PutRoot(t) \/ FindKey(t) \/ PutKey(t) \/ PutRow(t)
        \/ ShipRows(t) \/ Reopen(t)

KeysSpec == KeysInit /\ [][KeysNext]_keysVars

-----------------------------------------------------------------------------
(* A page opened now can read every row that is stored: the keys it would   *)
(* load open them.                                                          *)
Readable(r) == r.key = 0 \/ (r.key = keyRow.key /\ keyRow.root = rootRow)
RowsAreReadable == \A r \in rows : Readable(r)

(* Only two tabs that make the first keys at once, or a row written by a    *)
(* page that outlived its session's purge, leave a row no page can open     *)
(* (and such a row keeps every other row of its session from being read).   *)
UnreadableOnlyAfterRaceOrPurge == RowsAreReadable \/ raced \/ writtenAfter
=============================================================================
