------------------------ MODULE ErasureLedger_proofs ------------------------
(***************************************************************************)
(* Proofs about ErasureLedger, for any objects, requests and outages.      *)
(***************************************************************************)
EXTENDS ErasureLedger, TLAPS

After == {"named", "destroyed"}

(* Rows that may be acted on name destroyed objects only, and a deletion is *)
(* confirmed when the bytes are gone; what awaits its row has its bytes.    *)
LedgerInv ==
    /\ \A o \in Object : object[o] \in {"put", "named"} => o \in bucket
    /\ \A r \in Request : \A o \in keys[r] : object[o] \in After
    /\ \A row \in unarmed : object[row[1]] \in After
    /\ \A row \in armed : object[row[1]] = "destroyed"
    /\ \A p \in Purger :
        /\ \A row \in purging[p] : object[row[1]] = "destroyed"
        /\ confirming[p] # NoRow => /\ object[confirming[p][1]] = "destroyed"
                                    /\ confirming[p][1] \notin bucket
    /\ orgLive => \A o \in Object : object[o] # "destroyed"

(* Whoever is between collecting and destroying has every key that was      *)
(* named before it began, so the ledger it stages in place of another's     *)
(* forgets none.                                                            *)
Owed(o) == o \notin overlapped /\ object[o] \in After
CollectedInv ==
    /\ \A r \in Request : erasing[r] \in {"collected", "staged"} =>
            \A o \in Object : Owed(o) => o \in keys[r]
    /\ \A o \in Object : Owed(o) /\ o \in bucket =>
            \/ OnLedger(o)
            \/ object[o] = "named" /\ \A r \in Request : erasing[r] # "staged"

(* A key a request collected is on its own rows or on another request's     *)
(* until the bytes are gone or the pass has noticed that they are not.      *)
Elsewhere(o, r) == \E q \in Request \ {r} : <<o, q>> \in unarmed \cup armed
AnswerInv(r) ==
    /\ erasing[r] = "idle" => keys[r] = {}
    /\ erasing[r] # "done" => reply[r] = "none"
    /\ \A o \in (keys[r] \cap bucket) \ overlapped :
        /\ erasing[r] = "staged" => <<o, r>> \in unarmed \/ Elsewhere(o, r)
        /\ erasing[r] = "destroyed" => <<o, r>> \in armed \/ Elsewhere(o, r)
        /\ erasing[r] = "purging" =>
                <<o, r>> \in purging[r] \/ Elsewhere(o, r) \/ pending[r] = TRUE
        /\ reply[r] = "complete" => Elsewhere(o, r)

ErasureInv ==
    /\ ErasureTypeOK /\ LedgerInv /\ CollectedInv
    /\ \A r \in Request : AnswerInv(r)

LEMMA InitErasure == ErasureInit => ErasureInv
  BY ErasureAssumption
     DEF ErasureInit, ErasureInv, ErasureTypeOK, LedgerInv, CollectedInv, AnswerInv,
         Owed, After, NoRow


(* What is claimed of the answers survives a step of an upload or a purger. *)
LEMMA AnswersKept ==
    ASSUME ErasureInv, UNCHANGED <<unarmed, requestVars>>,
           overlapped \subseteq overlapped',
           \A q \in Request : \A o \in keys[q] : o \in bucket' =>
                /\ o \in bucket
                /\ \A t \in Request : <<o, t>> \in armed => <<o, t>> \in armed'
                /\ <<o, q>> \in purging[q] =>
                        <<o, q>> \in purging'[q] \/ pending'[q] = TRUE
                /\ pending[q] = TRUE => pending'[q] = TRUE
    PROVE  \A q \in Request : AnswerInv(q)'
  <1> SUFFICES ASSUME NEW q \in Request PROVE AnswerInv(q)'
    OBVIOUS
  <1>1. \A o \in keys[q] : o \in bucket' /\ Elsewhere(o, q) => Elsewhere(o, q)'
    BY DEF Elsewhere
  <1>2. AnswerInv(q)
    BY DEF ErasureInv
  <1>3. QED
    BY <1>1, <1>2 DEF AnswerInv, requestVars

(* Uploads of objects nobody has collected.                                 *)
LEMMA UploadKeeps ==
    ASSUME ErasureInv, NEW o \in Object, BeginObject(o) \/ PutObject(o)
    PROVE  ErasureInv'
  <1>1. /\ object[o] \in {"none", "begun"}
        /\ \/ object' = [object EXCEPT ![o] = "begun"] /\ bucket' = bucket
           \/ object' = [object EXCEPT ![o] = "put"] /\ bucket' = bucket \cup {o}
        /\ UNCHANGED <<overlapped, ledgerVars, requestVars, purgeVars, outages>>
    BY DEF BeginObject, PutObject
  <1>2. /\ \A x \in Object \ {o} : /\ object'[x] = object[x]
                                   /\ x \in bucket' <=> x \in bucket
        /\ object'[o] = "begun" \/ (object'[o] = "put" /\ o \in bucket')
    BY <1>1 DEF ErasureInv, ErasureTypeOK
  <1>3. \A x \in Object : /\ Owed(x)' <=> Owed(x)
                          /\ OnLedger(x)' <=> OnLedger(x)
    BY <1>1, <1>2 DEF Owed, After, OnLedger, ledgerVars
  <1>4. ErasureTypeOK'
    BY <1>1 DEF ErasureInv, ErasureTypeOK, ledgerVars, requestVars, purgeVars
  <1>5. LedgerInv'
    BY <1>1, <1>2
       DEF ErasureInv, ErasureTypeOK, LedgerInv, After, ledgerVars, requestVars,
           purgeVars
  <1>6. CollectedInv'
    BY <1>1, <1>2, <1>3 DEF ErasureInv, CollectedInv, Owed, After, requestVars
  <1>7. \A q \in Request : o \notin keys[q]
    BY <1>1 DEF ErasureInv, LedgerInv, After
  <1>8. \A q \in Request : AnswerInv(q)'
    BY <1>1, <1>7, AnswersKept DEF ledgerVars, purgeVars
  <1>9. QED
    BY <1>4, <1>5, <1>6, <1>8 DEF ErasureInv

(* A name given while a request is between collecting and destroying is not *)
(* owed.                                                                    *)
LEMMA NameObjectKeeps ==
    ASSUME ErasureInv, NEW o \in Object, NameObject(o) PROVE ErasureInv'
  <1>1. /\ object[o] = "put"
        /\ object' = [object EXCEPT ![o] = IF orgLive THEN "named" ELSE "lost"]
        /\ overlapped' = IF orgLive /\ UnderWay THEN overlapped \cup {o} ELSE overlapped
        /\ UNCHANGED <<bucket, ledgerVars, requestVars, purgeVars, outages>>
    BY DEF NameObject
  <1>2. \A x \in Object : /\ x # o => object'[x] = object[x]
                          /\ x = o => object'[x] = IF orgLive THEN "named" ELSE "lost"
    BY <1>1 DEF ErasureInv, ErasureTypeOK
  <1>3. \A x \in Object :
            /\ OnLedger(x)' <=> OnLedger(x)
            /\ Owed(x)' <=> \/ Owed(x)
                            \/ x = o /\ o \notin overlapped /\ orgLive /\ ~UnderWay
    BY <1>1, <1>2 DEF Owed, After, OnLedger, ledgerVars
  <1>4. ErasureTypeOK'
    BY <1>1 DEF ErasureInv, ErasureTypeOK, ledgerVars, requestVars, purgeVars
  <1>5. LedgerInv'
    BY <1>1, <1>2
       DEF ErasureInv, ErasureTypeOK, LedgerInv, After, ledgerVars, requestVars,
           purgeVars
  <1>6. CollectedInv'
    BY <1>1, <1>2, <1>3 DEF ErasureInv, CollectedInv, UnderWay, requestVars
  <1>7. \A q \in Request : AnswerInv(q)'
    BY <1>1, AnswersKept DEF ledgerVars, purgeVars
  <1>8. QED
    BY <1>4, <1>5, <1>6, <1>7 DEF ErasureInv

(* The organisation is live, so that everything owed still has its row.     *)
LEMMA CollectKeysKeeps ==
    ASSUME ErasureInv, NEW r \in Request, CollectKeys(r) PROVE ErasureInv'
  <1>1. /\ erasing[r] = "idle" /\ orgLive
        /\ erasing' = [erasing EXCEPT ![r] = "collected"]
        /\ keys' = [keys EXCEPT ![r] = {o \in Object : object[o] = "named"}]
        /\ UNCHANGED <<bucketVars, ledgerVars, reply, purgeVars, outages>>
    BY DEF CollectKeys
  <1>2. /\ \A q \in Request : erasing'[q] = IF q = r THEN "collected" ELSE erasing[q]
        /\ \A q \in Request :
                keys'[q] = IF q = r THEN {o \in Object : object[o] = "named"}
                                    ELSE keys[q]
    BY <1>1 DEF ErasureInv, ErasureTypeOK
  <1>3. \A o \in Object : /\ Owed(o)' <=> Owed(o)
                          /\ OnLedger(o)' <=> OnLedger(o)
                          /\ \A q \in Request : Elsewhere(o, q)' <=> Elsewhere(o, q)
    BY <1>1 DEF Owed, OnLedger, Elsewhere, bucketVars, ledgerVars
  <1>4. ErasureTypeOK'
    BY <1>1 DEF ErasureInv, ErasureTypeOK, bucketVars, ledgerVars, purgeVars
  <1>5. LedgerInv'
    BY <1>1, <1>2
       DEF ErasureInv, ErasureTypeOK, LedgerInv, After, bucketVars, ledgerVars, purgeVars
  <1>6. \A o \in Object : Owed(o) => object[o] = "named"
    BY <1>1 DEF ErasureInv, LedgerInv, Owed, After
  <1>7. CollectedInv'
    <2>1. ASSUME NEW q \in Request, erasing'[q] \in {"collected", "staged"},
                 NEW o \in Object, Owed(o)
          PROVE  o \in keys'[q]
      BY <2>1, <1>2, <1>6 DEF ErasureInv, CollectedInv
    <2>2. \A q \in Request : erasing'[q] = "staged" => erasing[q] = "staged"
      BY <1>2
    <2>3. UNCHANGED <<object, bucket>>
      BY <1>1 DEF bucketVars
    <2>4. \A o \in Object : Owed(o) /\ o \in bucket =>
              \/ OnLedger(o)
              \/ object[o] = "named" /\ \A q \in Request : erasing[q] # "staged"
      BY DEF ErasureInv, CollectedInv
    <2>5. QED
      BY <2>1, <2>2, <2>3, <2>4, <1>3 DEF CollectedInv
  <1>8. ASSUME NEW q \in Request PROVE AnswerInv(q)'
    <2>1. AnswerInv(q) /\ keys[q] \subseteq Object
      BY DEF ErasureInv, ErasureTypeOK
    <2>2. CASE q = r
      BY <2>1, <2>2, <1>1, <1>2 DEF AnswerInv
    <2>3. CASE q # r
      BY <2>1, <2>3, <1>1, <1>2, <1>3 DEF AnswerInv, bucketVars, ledgerVars, purgeVars
    <2>4. QED
      BY <2>2, <2>3
  <1>9. QED
    BY <1>4, <1>5, <1>7, <1>8 DEF ErasureInv

(* The rows another request staged go, and every key they named is among    *)
(* those staged now.                                                        *)
LEMMA StageKeysKeeps ==
    ASSUME ErasureInv, NEW r \in Request, StageKeys(r) PROVE ErasureInv'
  <1>1. /\ erasing[r] = "collected"
        /\ erasing' = [erasing EXCEPT ![r] = "staged"]
        /\ unarmed' = keys[r] \X {r}
        /\ UNCHANGED <<bucketVars, orgLive, armed, keys, reply, purgeVars, outages>>
    BY DEF StageKeys
  <1>2. \A q \in Request : erasing'[q] = IF q = r THEN "staged" ELSE erasing[q]
    BY <1>1 DEF ErasureInv, ErasureTypeOK
  <1>3. /\ \A o : <<o, r>> \in unarmed' <=> o \in keys[r]
        /\ \A row \in unarmed' : row[1] \in keys[r] /\ row \in Object \X Request
        /\ keys[r] \subseteq Object
    BY <1>1 DEF ErasureInv, ErasureTypeOK
  <1>4. \A o \in Object : Owed(o) => o \in keys[r]
    BY <1>1 DEF ErasureInv, CollectedInv
  <1>5. ErasureTypeOK'
    BY <1>1, <1>3 DEF ErasureInv, ErasureTypeOK, bucketVars, purgeVars
  <1>6. LedgerInv'
    BY <1>1, <1>3 DEF ErasureInv, LedgerInv, bucketVars, purgeVars
  <1>7. \A o \in Object : Owed(o)' => Owed(o) /\ OnLedger(o)'
    BY <1>1, <1>3, <1>4 DEF Owed, OnLedger, bucketVars
  <1>8. CollectedInv'
    BY <1>1, <1>2, <1>4, <1>7 DEF ErasureInv, CollectedInv
  <1>9. ASSUME NEW q \in Request PROVE AnswerInv(q)'
    <2>1. AnswerInv(q) /\ \A o \in keys[q] : o \in Object /\ object[o] \in After
      BY DEF ErasureInv, ErasureTypeOK, LedgerInv
    <2>2. CASE q = r
      BY <2>1, <2>2, <1>1, <1>2, <1>3 DEF AnswerInv, bucketVars, purgeVars
    <2>3. CASE q # r
      <3>1. \A o \in keys[q] \ overlapped : Elsewhere(o, q)'
        BY <2>1, <2>3, <1>3, <1>4 DEF Owed, Elsewhere
      <3>2. QED
        BY <2>1, <2>3, <3>1, <1>1, <1>2 DEF AnswerInv, bucketVars, purgeVars
    <2>4. QED
      BY <2>2, <2>3
  <1>10. QED
    BY <1>5, <1>6, <1>8, <1>9 DEF ErasureInv

(* Arming moves rows within the ledger while the objects lose theirs.       *)
LEMMA DestroyTenantKeeps ==
    ASSUME ErasureInv, NEW r \in Request, DestroyTenant(r) PROVE ErasureInv'
  <1>1. /\ erasing[r] = "staged"
        /\ erasing' = [erasing EXCEPT ![r] = "destroyed"]
        /\ object' = [o \in Object |->
                         IF object[o] = "named" THEN "destroyed" ELSE object[o]]
        /\ orgLive' = FALSE
        /\ armed' = armed \cup OwnRows(r) /\ unarmed' = unarmed \ OwnRows(r)
        /\ UNCHANGED <<bucket, overlapped, keys, reply, purgeVars, outages>>
    BY DEF DestroyTenant
  <1>2. \A q \in Request : erasing'[q] = IF q = r THEN "destroyed" ELSE erasing[q]
    BY <1>1 DEF ErasureInv, ErasureTypeOK
  <1>3. \A o \in Object : /\ object[o] \in After => object'[o] = "destroyed"
                          /\ object[o] \notin After => object'[o] = object[o]
    BY <1>1 DEF After, ErasureInv, ErasureTypeOK
  <1>4. /\ OwnRows(r) \subseteq unarmed /\ unarmed \subseteq Object \X Request
        /\ armed \subseteq Object \X Request
        /\ unarmed' \cup armed' = unarmed \cup armed
        /\ \A o : <<o, r>> \in unarmed => <<o, r>> \in OwnRows(r)
    BY <1>1 DEF OwnRows, ErasureInv, ErasureTypeOK
  <1>5. ErasureTypeOK'
    <2>1. /\ armed' \subseteq Object \X Request /\ unarmed' \subseteq Object \X Request
          /\ orgLive' \in BOOLEAN
      BY <1>1, <1>4
    <2>2. object' \in [Object ->
                          {"none", "begun", "put", "named", "destroyed", "lost"}]
      BY <1>1 DEF ErasureInv, ErasureTypeOK
    <2>3. erasing' \in [Request ->
             {"idle", "collected", "staged", "destroyed", "purging", "done"}]
      BY <1>1 DEF ErasureInv, ErasureTypeOK
    <2>4. QED
      BY <2>1, <2>2, <2>3, <1>1 DEF ErasureInv, ErasureTypeOK, purgeVars
  <1>6. LedgerInv'
    <2>1. \A row \in armed' \cup unarmed' : row[1] \in Object /\ object'[row[1]] = "destroyed"
      BY <1>3, <1>4 DEF ErasureInv, LedgerInv, After
    <2>2. \A o \in Object : object'[o] \in {"put", "named"} => o \in bucket
      BY <1>3 DEF ErasureInv, LedgerInv, After
    <2>3. \A q \in Request : \A o \in keys[q] : object'[o] \in After
      BY <1>3 DEF ErasureInv, ErasureTypeOK, LedgerInv, After
    <2>4. ASSUME NEW p \in Purger
          PROVE  /\ \A row \in purging[p] : object'[row[1]] = "destroyed"
                 /\ confirming[p] # NoRow => /\ object'[confirming[p][1]] = "destroyed"
                                             /\ confirming[p][1] \notin bucket
      <3>1. /\ \A row \in purging[p] : row[1] \in Object
            /\ confirming[p] # NoRow => confirming[p][1] \in Object
        BY DEF ErasureInv, ErasureTypeOK
      <3>2. QED
        BY <3>1, <1>3 DEF ErasureInv, LedgerInv, After
    <2>5. QED
      BY <2>1, <2>2, <2>3, <2>4, <1>1 DEF LedgerInv, After, purgeVars
  <1>7. \A o \in Object : /\ Owed(o)' <=> Owed(o)
                          /\ OnLedger(o)' <=> OnLedger(o)
    BY <1>1, <1>3, <1>4 DEF Owed, OnLedger, After
  <1>8. CollectedInv'
    BY <1>1, <1>2, <1>7 DEF ErasureInv, CollectedInv
  <1>9. ASSUME NEW q \in Request PROVE AnswerInv(q)'
    <2>1. AnswerInv(q)
      BY DEF ErasureInv
    <2>2. \A o : Elsewhere(o, q)' <=> Elsewhere(o, q)
      BY <1>4 DEF Elsewhere
    <2>3. CASE q = r
      BY <2>1, <2>2, <2>3, <1>1, <1>2, <1>4 DEF AnswerInv
    <2>4. CASE q # r
      <3>1. \A o : <<o, q>> \in unarmed => <<o, q>> \in unarmed'
        BY <2>4, <1>1 DEF OwnRows
      <3>2. QED
        BY <2>1, <2>2, <2>4, <3>1, <1>1, <1>2 DEF AnswerInv, purgeVars
    <2>5. QED
      BY <2>3, <2>4
  <1>10. QED
    BY <1>5, <1>6, <1>8, <1>9 DEF ErasureInv

LEMMA SweeperAside == Sweeper \notin Request /\ Sweeper \in Purger /\ Request \subseteq Purger
  BY ErasureAssumption DEF Purger

(* A pass begins with the armed rows.                                       *)
LEMMA ReadKeeps ==
    ASSUME ErasureInv, NEW p \in Purger, ReadArmed(p),
           UNCHANGED <<bucketVars, ledgerVars, keys, reply, outages>>,
           IF p \in Request
           THEN /\ erasing[p] = "destroyed" \/ erasing[p] = "idle"
                /\ erasing' = [erasing EXCEPT ![p] = "purging"]
           ELSE erasing' = erasing
    PROVE  ErasureInv'
  <1>1. /\ purging' = [purging EXCEPT ![p] = armed]
        /\ pending' = [pending EXCEPT ![p] = FALSE]
        /\ confirming' = confirming
    BY DEF ReadArmed
  <1>2. /\ \A q \in Purger : purging'[q] = IF q = p THEN armed ELSE purging[q]
        /\ \A q \in Purger \ {p} : pending'[q] = pending[q]
        /\ \A q \in Request : erasing'[q] = IF q = p THEN "purging" ELSE erasing[q]
    BY <1>1 DEF ErasureInv, ErasureTypeOK
  <1>3. ErasureTypeOK'
    BY <1>1 DEF ErasureInv, ErasureTypeOK, bucketVars, ledgerVars
  <1>4. LedgerInv'
    BY <1>1, <1>2 DEF ErasureInv, LedgerInv, bucketVars, ledgerVars
  <1>5. \A o \in Object : /\ Owed(o)' <=> Owed(o)
                          /\ OnLedger(o)' <=> OnLedger(o)
                          /\ \A q \in Request : Elsewhere(o, q)' <=> Elsewhere(o, q)
    BY DEF Owed, OnLedger, Elsewhere, bucketVars, ledgerVars
  <1>6. CollectedInv'
    <2>1. \A q \in Request : erasing'[q] \in {"collected", "staged"}
                                => erasing'[q] = erasing[q]
      BY <1>2
    <2>2. QED
      BY <2>1, <1>5 DEF ErasureInv, CollectedInv, bucketVars
  <1>7. ASSUME NEW q \in Request PROVE AnswerInv(q)'
    <2>1. AnswerInv(q) /\ keys[q] \subseteq Object /\ q \in Purger
      BY SweeperAside DEF ErasureInv, ErasureTypeOK
    <2>2. CASE q = p
      BY <2>1, <2>2, <1>2, <1>5 DEF AnswerInv, bucketVars, ledgerVars
    <2>3. CASE q # p
      BY <2>1, <2>3, <1>2, <1>5 DEF AnswerInv, bucketVars, ledgerVars
    <2>4. QED
      BY <2>2, <2>3
  <1>8. QED
    BY <1>3, <1>4, <1>6, <1>7 DEF ErasureInv

LEMMA StartsKeep ==
    ASSUME ErasureInv,
           StartSweep \/ \E r \in Request : StartPurge(r) \/ RetryErasure(r)
    PROVE  ErasureInv'
  <1>1. CASE StartSweep
    BY <1>1, ReadKeeps, SweeperAside DEF StartSweep, requestVars
  <1>2. ASSUME NEW r \in Request, StartPurge(r) \/ RetryErasure(r) PROVE ErasureInv'
    BY <1>2, ReadKeeps, SweeperAside DEF StartPurge, RetryErasure
  <1>3. QED
    BY <1>1, <1>2

(* Nothing is left of the pass: a key still in the bucket is elsewhere.     *)
LEMMA ReportErasureKeeps ==
    ASSUME ErasureInv, NEW r \in Request, ReportErasure(r) PROVE ErasureInv'
  <1>1. /\ erasing[r] = "purging" /\ purging[r] = {}
        /\ erasing' = [erasing EXCEPT ![r] = "done"]
        /\ reply' = [reply EXCEPT ![r] = IF pending[r] THEN "incomplete" ELSE "complete"]
        /\ UNCHANGED <<bucketVars, ledgerVars, keys, purgeVars, outages>>
    BY DEF ReportErasure
  <1>2. /\ \A q \in Request : erasing'[q] = IF q = r THEN "done" ELSE erasing[q]
        /\ \A q \in Request \ {r} : reply'[q] = reply[q]
        /\ reply'[r] = "complete" => pending[r] # TRUE
    BY <1>1 DEF ErasureInv, ErasureTypeOK
  <1>3. ErasureTypeOK'
    BY <1>1 DEF ErasureInv, ErasureTypeOK, bucketVars, ledgerVars, purgeVars
  <1>4. LedgerInv'
    BY <1>1 DEF ErasureInv, LedgerInv, bucketVars, ledgerVars, purgeVars
  <1>5. \A o \in Object : /\ Owed(o)' <=> Owed(o)
                          /\ OnLedger(o)' <=> OnLedger(o)
                          /\ \A q \in Request : Elsewhere(o, q)' <=> Elsewhere(o, q)
    BY <1>1 DEF Owed, OnLedger, Elsewhere, bucketVars, ledgerVars
  <1>6. CollectedInv'
    <2>1. \A q \in Request : erasing'[q] \in {"collected", "staged"}
                                => erasing'[q] = erasing[q]
      BY <1>2
    <2>2. QED
      BY <2>1, <1>1, <1>5 DEF ErasureInv, CollectedInv, bucketVars
  <1>7. ASSUME NEW q \in Request PROVE AnswerInv(q)'
    <2>1. AnswerInv(q) /\ keys[q] \subseteq Object
      BY DEF ErasureInv, ErasureTypeOK
    <2>2. CASE q = r
      BY <2>1, <2>2, <1>1, <1>2, <1>5 DEF AnswerInv, bucketVars
    <2>3. CASE q # r
      BY <2>1, <2>3, <1>1, <1>2, <1>5 DEF AnswerInv, bucketVars, ledgerVars, purgeVars
    <2>4. QED
      BY <2>2, <2>3
  <1>8. QED
    BY <1>3, <1>4, <1>6, <1>7 DEF ErasureInv

(* The bytes of one row go, or may have gone when storage did not answer.   *)
LEMMA DeleteObjectKeeps ==
    ASSUME ErasureInv, NEW p \in Purger, DeleteObject(p) PROVE ErasureInv'
  <1>1. PICK row \in purging[p] :
            /\ bucket' = bucket \ {row[1]}
            /\ purging' = [purging EXCEPT ![p] = @ \ {row}]
            /\ confirming' = [confirming EXCEPT ![p] = row]
            /\ UNCHANGED <<object, overlapped, ledgerVars, requestVars, pending, outages>>
    BY DEF DeleteObject
  <1>2. /\ row \in Object \X Request /\ object[row[1]] = "destroyed"
    BY DEF ErasureInv, ErasureTypeOK, LedgerInv
  <1>3. /\ \A q \in Purger : purging'[q] = IF q = p THEN purging[q] \ {row} ELSE purging[q]
        /\ \A q \in Purger : confirming'[q] = IF q = p THEN row ELSE confirming[q]
    BY <1>1 DEF ErasureInv, ErasureTypeOK
  <1>4. ErasureTypeOK'
    BY <1>1, <1>2 DEF ErasureInv, ErasureTypeOK, ledgerVars, requestVars
  <1>5. LedgerInv'
    BY <1>1, <1>2, <1>3 DEF ErasureInv, LedgerInv, ledgerVars, requestVars
  <1>6. CollectedInv'
    BY <1>1 DEF ErasureInv, CollectedInv, Owed, OnLedger, ledgerVars, requestVars
  <1>7. \A q \in Request : AnswerInv(q)'
    <2>1. ASSUME NEW q \in Request, NEW o \in keys[q], o \in bucket',
                 <<o, q>> \in purging[q]
          PROVE  <<o, q>> \in purging'[q]
      <3>1. <<o, q>> # row
        BY <2>1, <1>1
      <3>2. q \in Purger
        BY SweeperAside
      <3>3. QED
        BY <3>1, <3>2, <2>1, <1>3
    <2>2. UNCHANGED <<unarmed, armed, requestVars, overlapped, pending>>
          /\ bucket' \subseteq bucket
      BY <1>1 DEF ledgerVars
    <2>3. QED
      BY <2>1, <2>2, AnswersKept
  <1>8. QED
    BY <1>4, <1>5, <1>6, <1>7 DEF ErasureInv

LEMMA DeletionFailsKeeps ==
    ASSUME ErasureInv, NEW p \in Purger, DeletionFails(p) PROVE ErasureInv'
  <1>1. PICK row \in purging[p] :
            /\ bucket' \in {bucket, bucket \ {row[1]}}
            /\ purging' = [purging EXCEPT ![p] = @ \ {row}]
            /\ pending' = [pending EXCEPT ![p] = TRUE]
            /\ outages < MaxOutages /\ outages' = outages + 1
            /\ UNCHANGED <<object, overlapped, ledgerVars, requestVars, confirming>>
    BY DEF DeletionFails
  <1>2. /\ row \in Object \X Request /\ object[row[1]] = "destroyed"
    BY DEF ErasureInv, ErasureTypeOK, LedgerInv
  <1>3. /\ \A q \in Purger : purging'[q] = IF q = p THEN purging[q] \ {row} ELSE purging[q]
        /\ \A q \in Purger \ {p} : pending'[q] = pending[q]
        /\ pending'[p] = TRUE
    BY <1>1 DEF ErasureInv, ErasureTypeOK
  <1>4. ErasureTypeOK'
    <2>1. outages' \in 0..MaxOutages
      BY <1>1, ErasureAssumption DEF ErasureInv, ErasureTypeOK
    <2>2. purging' \in [Purger -> SUBSET (Object \X Request)]
      BY <1>1 DEF ErasureInv, ErasureTypeOK
    <2>3. pending' \in [Purger -> BOOLEAN]
      BY <1>1 DEF ErasureInv, ErasureTypeOK
    <2>4. QED
      BY <2>1, <2>2, <2>3, <1>1 DEF ErasureInv, ErasureTypeOK, ledgerVars, requestVars
  <1>5. LedgerInv'
    BY <1>1, <1>2, <1>3 DEF ErasureInv, LedgerInv, ledgerVars, requestVars
  <1>6. CollectedInv'
    BY <1>1 DEF ErasureInv, CollectedInv, Owed, OnLedger, ledgerVars, requestVars
  <1>7. \A q \in Request : AnswerInv(q)'
    BY <1>1, <1>3, SweeperAside, AnswersKept DEF ledgerVars
  <1>8. QED
    BY <1>4, <1>5, <1>6, <1>7 DEF ErasureInv

(* The row that goes is of an object whose bytes have gone.                 *)
LEMMA ConfirmDeletionKeeps ==
    ASSUME ErasureInv, NEW p \in Purger, ConfirmDeletion(p) PROVE ErasureInv'
  <1>1. /\ confirming[p] # NoRow /\ armed' = armed \ {confirming[p]}
        /\ pending' = [pending EXCEPT ![p] = @ \/ confirming[p] \notin armed]
        /\ confirming' = [confirming EXCEPT ![p] = NoRow]
        /\ UNCHANGED <<bucketVars, orgLive, unarmed, requestVars, purging, outages>>
    BY DEF ConfirmDeletion
  <1>2. confirming[p] \in Object \X Request /\ confirming[p][1] \notin bucket
    BY <1>1 DEF ErasureInv, ErasureTypeOK, LedgerInv
  <1>3. /\ \A q \in Purger : confirming'[q] = IF q = p THEN NoRow ELSE confirming[q]
        /\ \A q \in Purger : pending[q] = TRUE => pending'[q] = TRUE
    BY <1>1 DEF ErasureInv, ErasureTypeOK
  <1>4. \A o \in bucket : \A t \in Request : <<o, t>> \in armed => <<o, t>> \in armed'
    BY <1>1, <1>2
  <1>5. ErasureTypeOK'
    BY <1>1 DEF ErasureInv, ErasureTypeOK, bucketVars, requestVars
  <1>6. LedgerInv'
    BY <1>1, <1>3 DEF ErasureInv, LedgerInv, bucketVars, requestVars
  <1>7. CollectedInv'
    <2>1. \A o \in bucket : OnLedger(o) => OnLedger(o)'
      BY <1>1, <1>4 DEF OnLedger
    <2>2. QED
      BY <1>1, <2>1 DEF ErasureInv, CollectedInv, Owed, bucketVars, requestVars
  <1>8. \A q \in Request : AnswerInv(q)'
    BY <1>1, <1>3, <1>4, SweeperAside, AnswersKept DEF bucketVars
  <1>9. QED
    BY <1>5, <1>6, <1>7, <1>8 DEF ErasureInv

(* A request that dies never answers.                                       *)
LEMMA PurgerDiesKeeps ==
    ASSUME ErasureInv, NEW p \in Purger, PurgerDies(p) PROVE ErasureInv'
  <1>1. /\ outages < MaxOutages /\ outages' = outages + 1
        /\ purging' = [purging EXCEPT ![p] = {}]
        /\ confirming' = [confirming EXCEPT ![p] = NoRow]
        /\ UNCHANGED <<bucketVars, ledgerVars, keys, reply, pending>>
        /\ \/ p = Sweeper /\ erasing' = erasing
           \/ p \in Request /\ erasing[p] \notin {"idle", "done"}
              /\ erasing' = [erasing EXCEPT ![p] = "done"]
    BY DEF PurgerDies, Purger
  <1>2. /\ \A q \in Purger : purging'[q] = IF q = p THEN {} ELSE purging[q]
        /\ \A q \in Purger : confirming'[q] = IF q = p THEN NoRow ELSE confirming[q]
        /\ \A q \in Request : /\ q = p => erasing'[q] = "done" /\ reply[q] = "none"
                              /\ q # p => erasing'[q] = erasing[q]
    BY <1>1, SweeperAside DEF ErasureInv, ErasureTypeOK, AnswerInv
  <1>3. ErasureTypeOK'
    <2>1. outages' \in 0..MaxOutages
      BY <1>1, ErasureAssumption DEF ErasureInv, ErasureTypeOK
    <2>2. erasing' \in [Request ->
             {"idle", "collected", "staged", "destroyed", "purging", "done"}]
      BY <1>1 DEF ErasureInv, ErasureTypeOK
    <2>3. /\ purging' \in [Purger -> SUBSET (Object \X Request)]
          /\ confirming' \in [Purger -> (Object \X Request) \cup {NoRow}]
      BY <1>1 DEF ErasureInv, ErasureTypeOK
    <2>4. QED
      BY <2>1, <2>2, <2>3, <1>1 DEF ErasureInv, ErasureTypeOK, bucketVars, ledgerVars
  <1>4. LedgerInv'
    BY <1>1, <1>2 DEF ErasureInv, LedgerInv, bucketVars, ledgerVars
  <1>5. \A o \in Object : /\ Owed(o)' <=> Owed(o)
                          /\ OnLedger(o)' <=> OnLedger(o)
                          /\ \A q \in Request : Elsewhere(o, q)' <=> Elsewhere(o, q)
    BY <1>1 DEF Owed, OnLedger, Elsewhere, bucketVars, ledgerVars
  <1>6. CollectedInv'
    <2>1. \A q \in Request : erasing'[q] \in {"collected", "staged"}
                                => erasing'[q] = erasing[q]
      BY <1>2
    <2>2. QED
      BY <2>1, <1>1, <1>5 DEF ErasureInv, CollectedInv, bucketVars
  <1>7. ASSUME NEW q \in Request PROVE AnswerInv(q)'
    <2>1. AnswerInv(q) /\ keys[q] \subseteq Object /\ q \in Purger
      BY SweeperAside DEF ErasureInv, ErasureTypeOK
    <2>2. CASE q = p
      BY <2>1, <2>2, <1>1, <1>2, <1>5 DEF AnswerInv
    <2>3. CASE q # p
      BY <2>1, <2>3, <1>1, <1>2, <1>5 DEF AnswerInv, bucketVars, ledgerVars
    <2>4. QED
      BY <2>2, <2>3
  <1>8. QED
    BY <1>3, <1>4, <1>6, <1>7 DEF ErasureInv

LEMMA StillErasure == ASSUME ErasureInv, UNCHANGED erasureVars PROVE ErasureInv'
  <1>1. ErasureTypeOK' /\ LedgerInv' /\ CollectedInv'
    BY DEF ErasureInv, ErasureTypeOK, LedgerInv, CollectedInv, Owed, OnLedger,
           erasureVars, bucketVars, ledgerVars, requestVars, purgeVars
  <1>2. \A q \in Request : AnswerInv(q)'
    BY AnswersKept DEF erasureVars, bucketVars, ledgerVars, requestVars, purgeVars
  <1>3. QED
    BY <1>1, <1>2 DEF ErasureInv

LEMMA StepErasure == ErasureInv /\ [ErasureNext]_erasureVars => ErasureInv'
  <1> SUFFICES ASSUME ErasureInv, [ErasureNext]_erasureVars PROVE ErasureInv'
    OBVIOUS
  <1>1. CASE SweepStep
    BY <1>1, StartsKeep, DeleteObjectKeeps, ConfirmDeletionKeeps, SweeperAside
       DEF SweepStep
  <1>2. ASSUME NEW o \in Object, BeginObject(o) \/ PutObject(o) \/ NameObject(o)
        PROVE  ErasureInv'
    BY <1>2, UploadKeeps, NameObjectKeeps
  <1>3. ASSUME NEW r \in Request,
               \/ CollectKeys(r) \/ StageKeys(r) \/ DestroyTenant(r)
               \/ StartPurge(r) \/ RetryErasure(r) \/ ReportErasure(r)
               \/ DeleteObject(r) \/ ConfirmDeletion(r)
        PROVE  ErasureInv'
    BY <1>3, CollectKeysKeeps, StageKeysKeeps, DestroyTenantKeeps, StartsKeep,
       ReportErasureKeeps, DeleteObjectKeeps, ConfirmDeletionKeeps, SweeperAside
  <1>4. ASSUME NEW p \in Purger, DeletionFails(p) \/ PurgerDies(p) PROVE ErasureInv'
    BY <1>4, DeletionFailsKeeps, PurgerDiesKeeps
  <1>5. CASE UNCHANGED erasureVars
    BY <1>5, StillErasure
  <1>6. QED
    BY <1>1, <1>2, <1>3, <1>4, <1>5 DEF ErasureNext

(* The invariant of the ledger, the requests and the purgers.               *)
THEOREM ErasureInvariant == ErasureSpec => []ErasureInv
  BY InitErasure, StepErasure, PTL DEF ErasureSpec

(* The ledger, the requests and the purgers keep to their types.            *)
THEOREM LedgerKeepsItsTypes == ErasureSpec => []ErasureTypeOK
  BY ErasureInvariant, PTL DEF ErasureInv

(* A purge, of whichever request or sweep, takes the bytes of no object     *)
(* whose row is live (armed_rows_for_org gives purge_objects armed rows).   *)
THEOREM LiveObjectsAreKept == ErasureSpec => []LiveObjectsKept
  <1>1. ErasureInv => LiveObjectsKept
    BY DEF ErasureInv, LedgerInv, LiveObjectsKept
  <1>2. QED
    BY <1>1, ErasureInvariant, PTL

(* A destroyed row's key stays on the ledger while its bytes remain,        *)
(* whatever crashes, fails or is staged again (erase_org).                  *)
THEOREM KeysAreKept == ErasureSpec => []KeysOutliveRows
  <1>1. ErasureInv => KeysOutliveRows
    BY DEF ErasureInv, CollectedInv, KeysOutliveRows, Owed, After
  <1>2. QED
    BY <1>1, ErasureInvariant, PTL

(* A request that answers 200 leaves no key it collected behind, unless     *)
(* another request has it on the ledger.                                    *)
THEOREM AnswersAreHonest == ErasureSpec => []ErasureIsHonest
  <1>1. ErasureInv => ErasureIsHonest
    BY DEF ErasureInv, AnswerInv, Elsewhere, ErasureIsHonest
  <1>2. QED
    BY <1>1, ErasureInvariant, PTL
=============================================================================
