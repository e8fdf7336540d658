---------------------------- MODULE ErasureLedger ----------------------------
(* Erasing an organisation: the keys of its stored objects go to a durable  *)
(* ledger, the rows are destroyed and the ledger armed in one transaction,  *)
(* and the objects are deleted afterwards by the request, by a retry or by  *)
(* the sweeper.  Uploads go on meanwhile: an object (a participant's file,  *)
(* an export's zip) reaches the bucket before any row names it.             *)
EXTENDS Integers, FiniteSets

CONSTANTS
    Object,       \* files and export zips, each uploaded at most once
    Request,      \* erase and retry requests of the owner
    Sweeper,      \* the periodic task
    MaxOutages    \* bound: failed deletions and crashes

ASSUME ErasureAssumption ==
    /\ Sweeper \notin Request
    /\ MaxOutages \in Nat

Purger == Request \cup {Sweeper}
NoRow == <<>>

VARIABLES
    object,      \* object -> how far its upload is: its row is live when "named"
    bucket,      \* objects whose bytes are in storage
    orgLive,     \* the organisation is not soft-deleted
    unarmed,     \* <<object, request>>: staged ledger rows
    armed,       \* <<object, request>>: ledger rows a purge may act on
    erasing,     \* request -> the step it is in
    keys,        \* request -> the objects it collected
    purging,     \* purger -> armed rows it read and has not handled
    confirming,  \* purger -> the row whose object it deleted, or NoRow
    pending,     \* purger -> some row of this pass was not confirmed
    reply,       \* request -> what it answered
    overlapped,  \* history: objects named while an erasure was under way
    outages

bucketVars == <<object, bucket, overlapped>>
ledgerVars == <<orgLive, unarmed, armed>>
requestVars == <<erasing, keys, reply>>
purgeVars == <<purging, confirming, pending>>
erasureVars == <<bucketVars, ledgerVars, requestVars, purgeVars, outages>>

ErasureTypeOK ==
    /\ object \in [Object -> {"none", "begun", "put", "named", "destroyed", "lost"}]
    /\ bucket \subseteq Object
    /\ orgLive \in BOOLEAN
    /\ unarmed \subseteq Object \X Request
    /\ armed \subseteq Object \X Request
    /\ erasing \in [Request ->
           {"idle", "collected", "staged", "destroyed", "purging", "done"}]
    /\ keys \in [Request -> SUBSET Object]
    /\ purging \in [Purger -> SUBSET (Object \X Request)]
    /\ confirming \in [Purger -> (Object \X Request) \cup {NoRow}]
    /\ pending \in [Purger -> BOOLEAN]
    /\ reply \in [Request -> {"none", "complete", "incomplete"}]
    /\ overlapped \subseteq Object
    /\ outages \in 0..MaxOutages

ErasureInit ==
    /\ object = [o \in Object |-> "none"]
    /\ bucket = {}
    /\ orgLive = TRUE
    /\ unarmed = {}
    /\ armed = {}
    /\ erasing = [r \in Request |-> "idle"]
    /\ keys = [r \in Request |-> {}]
    /\ purging = [p \in Purger |-> {}]
    /\ confirming = [p \in Purger |-> NoRow]
    /\ pending = [p \in Purger |-> FALSE]
    /\ reply = [r \in Request |-> "none"]
    /\ overlapped = {}
    /\ outages = 0

-----------------------------------------------------------------------------
(* Uploads *)

\* The session (or the export's job row) is looked up in the live tenant.
BeginObject(o) ==
    /\ object[o] = "none"
    /\ orgLive
    /\ object' = [object EXCEPT ![o] = "begun"]
    /\ UNCHANGED <<bucket, overlapped, ledgerVars, requestVars, purgeVars, outages>>

PutObject(o) ==
    /\ object[o] = "begun"
    /\ object' = [object EXCEPT ![o] = "put"]
    /\ bucket' = bucket \cup {o}
    /\ UNCHANGED <<overlapped, ledgerVars, requestVars, purgeVars, outages>>

UnderWay == \E r \in Request : erasing[r] \in {"collected", "staged"}

\* The row is written last.  Once the tenant is destroyed the INSERT finds no
\* session, the export's UPDATE no job: the bytes stay without a name.
NameObject(o) ==
    /\ object[o] = "put"
    /\ object' = [object EXCEPT ![o] = IF orgLive THEN "named" ELSE "lost"]
    /\ overlapped' = IF orgLive /\ UnderWay THEN overlapped \cup {o} ELSE overlapped
    /\ UNCHANGED <<bucket, ledgerVars, requestVars, purgeVars, outages>>

-----------------------------------------------------------------------------
(* An erase request *)

CollectKeys(r) ==
    /\ erasing[r] = "idle"
    /\ orgLive
    /\ erasing' = [erasing EXCEPT ![r] = "collected"]
    /\ keys' = [keys EXCEPT ![r] = {o \in Object : object[o] = "named"}]
    /\ UNCHANGED <<bucketVars, ledgerVars, reply, purgeVars, outages>>

\* The organisation's unarmed rows go, whichever request staged them.
StageKeys(r) ==
    /\ erasing[r] = "collected"
    /\ erasing' = [erasing EXCEPT ![r] = "staged"]
    /\ unarmed' = keys[r] \X {r}
    /\ UNCHANGED <<bucketVars, orgLive, armed, keys, reply, purgeVars, outages>>

OwnRows(r) == {row \in unarmed : row[2] = r}

\* One transaction: the rows that name objects are destroyed, the organisation
\* is soft-deleted, this request's ledger rows are armed.
DestroyTenant(r) ==
    /\ erasing[r] = "staged"
    /\ erasing' = [erasing EXCEPT ![r] = "destroyed"]
    /\ object' = [o \in Object |->
                     IF object[o] = "named" THEN "destroyed" ELSE object[o]]
    /\ orgLive' = FALSE
    /\ armed' = armed \cup OwnRows(r)
    /\ unarmed' = unarmed \ OwnRows(r)
    /\ UNCHANGED <<bucket, overlapped, keys, reply, purgeVars, outages>>

ReadArmed(p) ==
    /\ purging' = [purging EXCEPT ![p] = armed]
    /\ pending' = [pending EXCEPT ![p] = FALSE]
    /\ UNCHANGED confirming

StartPurge(r) ==
    /\ erasing[r] = "destroyed"
    /\ erasing' = [erasing EXCEPT ![r] = "purging"]
    /\ ReadArmed(r)
    /\ UNCHANGED <<bucketVars, ledgerVars, keys, reply, outages>>

\* The retry endpoint purges what is armed; it collects nothing.
RetryErasure(r) ==
    /\ erasing[r] = "idle"
    /\ ~orgLive
    /\ erasing' = [erasing EXCEPT ![r] = "purging"]
    /\ ReadArmed(r)
    /\ UNCHANGED <<bucketVars, ledgerVars, keys, reply, outages>>

(* An operator named Faulty... is a plausible bug in the definition that    *)
(* follows.  Nothing uses it: it says which slip the properties notice.     *)
FaultyReportErasure(r) ==
    /\ erasing[r] = "purging"
    /\ purging[r] = {}
    /\ confirming[r] = NoRow
    /\ erasing' = [erasing EXCEPT ![r] = "done"]
    /\ reply' = [reply EXCEPT ![r] = "complete"]
    /\ UNCHANGED <<bucketVars, ledgerVars, keys, purgeVars, outages>>

\* 200 when every row read was confirmed gone, 202 otherwise.
ReportErasure(r) ==
    /\ erasing[r] = "purging"
    /\ purging[r] = {}
    /\ confirming[r] = NoRow
    /\ erasing' = [erasing EXCEPT ![r] = "done"]
    /\ reply' = [reply EXCEPT ![r] = IF pending[r] THEN "incomplete" ELSE "complete"]
    /\ UNCHANGED <<bucketVars, ledgerVars, keys, purgeVars, outages>>

-----------------------------------------------------------------------------
(* Purging, by a request or by the sweeper *)

FaultySweepStaged ==
    /\ purging[Sweeper] = {}
    /\ confirming[Sweeper] = NoRow
    /\ unarmed \cup armed # {}
    /\ purging' = [purging EXCEPT ![Sweeper] = unarmed \cup armed]
    /\ pending' = [pending EXCEPT ![Sweeper] = FALSE]
    /\ UNCHANGED <<bucketVars, ledgerVars, requestVars, confirming, outages>>

FaultyStartSweep ==
    /\ purging[Sweeper] = {}
    /\ confirming[Sweeper] = NoRow
    /\ armed # {}
    /\ \A r \in Request : reply[r] = "none"
    /\ ReadArmed(Sweeper)
    /\ UNCHANGED <<bucketVars, ledgerVars, requestVars, outages>>
StartSweep ==
    /\ purging[Sweeper] = {}
    /\ confirming[Sweeper] = NoRow
    /\ armed # {}
    /\ ReadArmed(Sweeper)
    /\ UNCHANGED <<bucketVars, ledgerVars, requestVars, outages>>

DeleteObject(p) ==
    /\ confirming[p] = NoRow
    /\ \E row \in purging[p] :
          /\ bucket' = bucket \ {row[1]}
          /\ purging' = [purging EXCEPT ![p] = @ \ {row}]
          /\ confirming' = [confirming EXCEPT ![p] = row]
    /\ UNCHANGED <<object, overlapped, ledgerVars, requestVars, pending, outages>>

\* A row another purger has cleared already is not counted as deleted here.
ConfirmDeletion(p) ==
    /\ confirming[p] # NoRow
    /\ armed' = armed \ {confirming[p]}
    /\ pending' = [pending EXCEPT ![p] = @ \/ confirming[p] \notin armed]
    /\ confirming' = [confirming EXCEPT ![p] = NoRow]
    /\ UNCHANGED <<bucketVars, orgLive, unarmed, requestVars, purging, outages>>

FaultyDeletionFails(p) ==
    /\ outages < MaxOutages
    /\ confirming[p] = NoRow
    /\ \E row \in purging[p] :
          /\ armed' = armed \ {row}
          /\ purging' = [purging EXCEPT ![p] = @ \ {row}]
    /\ pending' = [pending EXCEPT ![p] = TRUE]
    /\ outages' = outages + 1
    /\ UNCHANGED <<bucketVars, orgLive, unarmed, requestVars, confirming>>

\* Storage refuses or the answer is lost: the row stays for a later pass.
DeletionFails(p) ==
    /\ outages < MaxOutages
    /\ confirming[p] = NoRow
    /\ \E row \in purging[p] :
          /\ bucket' \in {bucket, bucket \ {row[1]}}
          /\ purging' = [purging EXCEPT ![p] = @ \ {row}]
    /\ pending' = [pending EXCEPT ![p] = TRUE]
    /\ outages' = outages + 1
    /\ UNCHANGED <<object, overlapped, ledgerVars, requestVars, confirming>>

\* A step of the request fails, or the process dies under the purger.
PurgerDies(p) ==
    /\ outages < MaxOutages
    /\ IF p = Sweeper
       THEN (purging[p] # {} \/ confirming[p] # NoRow) /\ UNCHANGED erasing
       ELSE /\ erasing[p] \notin {"idle", "done"}
            /\ erasing' = [erasing EXCEPT ![p] = "done"]
    /\ purging' = [purging EXCEPT ![p] = {}]
    /\ confirming' = [confirming EXCEPT ![p] = NoRow]
    /\ outages' = outages + 1
    /\ UNCHANGED <<bucketVars, ledgerVars, keys, reply, pending>>

-----------------------------------------------------------------------------
SweepStep == StartSweep \/ DeleteObject(Sweeper) \/ ConfirmDeletion(Sweeper)

ErasureNext ==
    \/ SweepStep
    \/ \E o \in Object : BeginObject(o) \/ PutObject(o) \/ NameObject(o)
    \/ \E r \in Request :
          \/ CollectKeys(r) \/ StageKeys(r) \/ DestroyTenant(r)
          \/ StartPurge(r) \/ RetryErasure(r) \/ ReportErasure(r)
          \/ DeleteObject(r) \/ ConfirmDeletion(r)
    \/ \E p \in Purger : DeletionFails(p) \/ PurgerDies(p)

ErasureSpec == ErasureInit /\ [][ErasureNext]_erasureVars

-----------------------------------------------------------------------------
(* Properties *)

OnLedger(o) == \E r \in Request : <<o, r>> \in unarmed \cup armed

\* No purge ever takes the bytes of an object whose row is still live, however
\* many erasures staged its key and then failed or were overtaken.
LiveObjectsKept == \A o \in Object : object[o] = "named" => o \in bucket

\* Once its row is destroyed an object's key is not forgotten while the bytes
\* remain: crashes, failed deletions and a second erasure that reaps the first
\* one's staged rows all leave it on the ledger.  Only an object that was named
\* while an erasure was already under way can slip through.
KeysOutliveRows ==
    \A o \in Object \ overlapped :
        object[o] = "destroyed" /\ o \in bucket => OnLedger(o)

\* A request that reports completion leaves none of the keys it collected in the
\* bucket, unless another erasure has taken that key over on the ledger (or the
\* object was named under way, so that an older request's staging forgot it).
ErasureIsHonest ==
    \A r \in Request : reply[r] = "complete" =>
        \A o \in (keys[r] \cap bucket) \ overlapped :
            \E q \in Request \ {r} : <<o, q>> \in unarmed \cup armed

\* What is armed gets deleted, with no operator, once storage answers again.
ArmedIsPurged ==
    \A o \in Object, r \in Request : <<o, r>> \in armed ~> <<o, r>> \notin armed

\* The handler's contract for 200: every object confirmed deleted from storage.
CompleteMeansGone ==
    (\E r \in Request : reply[r] = "complete") =>
        \A o \in bucket : object[o] # "destroyed"
=============================================================================
