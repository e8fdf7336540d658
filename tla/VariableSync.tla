---------------------------- MODULE VariableSync ----------------------------
(* Session variables between the device and the server.  Unlike answers, a  *)
(* variable is one row rewritten in place at every answer; a fresh clientId *)
(* tells its versions apart, and the server keeps whatever value arrives    *)
(* last.  Versions are numbered in the order they are saved.  One engine    *)
(* drains at a time (the Web Lock); answers and chunks are FilloutSync's.   *)
EXTENDS Naturals, FiniteSets

CONSTANTS
    Variable,
    Padded,       \* names the server trims: its ack does not match the row's name
    MaxSaves,     \* bound: versions of each variable
    MaxFailures,  \* bound: requests that fail and drains that crash
    MaxOverrun,   \* bound: requests delivered after their drain is gone
    AttemptLimit  \* DEAD_LETTER_ATTEMPTS

ASSUME VariableAssumption ==
    /\ Padded \subseteq Variable
    /\ MaxSaves \in [Variable -> Nat] /\ MaxFailures \in Nat /\ MaxOverrun \in Nat
    /\ AttemptLimit \in Nat \ {0}

VARIABLES
    rowVersion,   \* the version in the device's row, 0 when there is no row
    rowSynced,
    saves,        \* versions saved so far
    written,      \* versions put and verified whose ledger row is not written
    ledgerState,  \* [Variable -> [version -> state]]
    ledgerTries,
    sessionState, \* "open", "completed" or "purged"
    heldVersion,  \* the server's value, 0 when it has none
    drainStep,    \* where the drain is
    drainFinal,   \* the drain read a completed session row
    missing,      \* <<variable, version>> the reconcile pass still re-queues
    batch,        \* versions the drain sent (0: the variable is not in it)
    overdue,         \* a request whose drain is gone
    acked,        \* variables the answer names
    failures, overruns,
    overtaken     \* history: variables an overdue request wrote back

deviceRowVars == <<rowVersion, rowSynced, saves, written, sessionState>>
ledgerVars == <<ledgerState, ledgerTries>>
drainVars == <<drainStep, drainFinal, missing, batch, acked>>
boundVars == <<failures, overruns>>
variableVars == <<deviceRowVars, ledgerVars, heldVersion, drainVars, overdue, boundVars, overtaken>>

Version == UNION {1 .. MaxSaves[v] : v \in Variable}
Nothing == [v \in Variable |-> 0]
Batch == [Variable -> Version \cup {0}]

VariableTypeOK ==
    /\ rowVersion \in Batch /\ saves \in Batch /\ rowSynced \in [Variable -> BOOLEAN]
    /\ written \subseteq Variable \X Version
    /\ ledgerState \in [Variable -> [Version -> {"none", "pending", "acked", "dead"}]]
    /\ ledgerTries \in [Variable -> [Version -> Nat]]
    /\ sessionState \in {"open", "completed", "purged"}
    /\ heldVersion \in Batch
    /\ drainStep \in {"idle", "reconcile", "requeue", "read", "await", "mark", "ledger", "purge"}
    /\ drainFinal \in BOOLEAN /\ missing \subseteq Variable \X Version
    /\ batch \in Batch /\ acked \subseteq Variable
    /\ overdue \subseteq Batch /\ Cardinality(overdue) <= 1
    /\ failures \in 0 .. MaxFailures /\ overruns \in 0 .. MaxOverrun
    /\ overtaken \subseteq Variable

VariableInit ==
    /\ rowVersion = Nothing /\ rowSynced = [v \in Variable |-> FALSE]
    /\ saves = Nothing /\ written = {}
    /\ ledgerState = [v \in Variable |-> [k \in Version |-> "none"]]
    /\ ledgerTries = [v \in Variable |-> [k \in Version |-> 0]]
    /\ sessionState = "open" /\ heldVersion = Nothing
    /\ drainStep = "idle" /\ drainFinal = FALSE /\ missing = {} /\ batch = Nothing
    /\ acked = {} /\ overdue = {} /\ failures = 0 /\ overruns = 0 /\ overtaken = {}

(* saveVariable: the row is put with a fresh clientId and verified, then    *)
(* the ledger row is written.                                               *)
PutVariable(v) ==
    LET k == saves[v] + 1 IN
    /\ k <= MaxSaves[v] /\ saves' = [saves EXCEPT ![v] = k]
    /\ rowVersion' = [rowVersion EXCEPT ![v] = k]
    /\ rowSynced' = [rowSynced EXCEPT ![v] = FALSE]
    /\ written' = written \cup {<<v, k>>}
    /\ UNCHANGED <<sessionState, ledgerVars, heldVersion, drainVars, overdue,
                   boundVars, overtaken>>

EnqueueVariable(v, k) ==
    /\ <<v, k>> \in written
    /\ written' = written \ {<<v, k>>}
    /\ ledgerState' = [ledgerState EXCEPT ![v][k] = "pending"]
    /\ UNCHANGED <<rowVersion, rowSynced, saves, sessionState, ledgerTries, heldVersion, drainVars,
                   overdue, boundVars, overtaken>>

CompleteSession ==
    /\ sessionState = "open" /\ sessionState' = "completed"
    /\ UNCHANGED <<rowVersion, rowSynced, saves, written, ledgerVars, heldVersion, drainVars, overdue,
                   boundVars, overtaken>>

(* collectSessionsToSync takes a session with unsynced rows (or whose own   *)
(* row is unsynced: the completion re-arms it).                             *)
UnsyncedVariables == {v \in Variable : rowVersion[v] # 0 /\ ~rowSynced[v]}
IsDead(v) == ledgerState[v][rowVersion[v]] = "dead"
(* An operator named Faulty... is a plausible bug in the definition that    *)
(* follows.  Nothing uses it: it says which slip the properties notice.     *)
FaultyShippable == {v \in UnsyncedVariables : ledgerState[v][rowVersion[v]] = "pending"}
Shippable == {v \in UnsyncedVariables : ~IsDead(v)}

BeginDrain ==
    /\ drainStep = "idle" /\ drainStep' = "reconcile"
    /\ Shippable # {} \/ sessionState = "completed"
    /\ drainFinal' = (sessionState = "completed")
    /\ UNCHANGED <<deviceRowVars, ledgerVars, heldVersion, missing, batch, acked, overdue, boundVars,
                   overtaken>>

(* reconcile: the server's synced-client-ids holds no variable's clientId,  *)
(* so every acked version is taken for missing: its ledger row goes back to *)
(* pending, and then the row, when it still is that version, to unsynced.   *)
(* A probe that fails re-queues nothing and stops nothing.                  *)
Reconcile ==
    /\ drainStep = "reconcile" /\ drainStep' = "requeue"
    /\ \/ missing' = {vk \in Variable \X Version : ledgerState[vk[1]][vk[2]] = "acked"}
       \/ missing' = {}
    /\ UNCHANGED <<deviceRowVars, ledgerVars, heldVersion, drainFinal, batch, acked, overdue,
                   boundVars, overtaken>>

ResetLedgerRow(v, k) ==
    /\ drainStep = "requeue" /\ <<v, k>> \in missing /\ ledgerState[v][k] = "acked"
    /\ ledgerState' = [ledgerState EXCEPT ![v][k] = "pending"]
    /\ UNCHANGED <<deviceRowVars, ledgerTries, heldVersion, drainVars, overdue,
                   boundVars, overtaken>>

ResetRecordUnsynced(v, k) ==
    /\ drainStep = "requeue" /\ <<v, k>> \in missing /\ ledgerState[v][k] # "acked"
    /\ missing' = missing \ {<<v, k>>}
    /\ rowSynced' = [rowSynced EXCEPT ![v] = @ /\ rowVersion[v] # k]
    /\ UNCHANGED <<rowVersion, saves, written, sessionState, ledgerVars, heldVersion, drainStep,
                   drainFinal, batch, acked, overdue, boundVars, overtaken>>

EndReconcile ==
    /\ drainStep = "requeue" /\ missing = {} /\ drainStep' = "read"
    /\ UNCHANGED <<deviceRowVars, ledgerVars, heldVersion, drainFinal, missing, batch, acked,
                   overdue, boundVars, overtaken>>

(* getUnsyncedVariables, and the first chunk, which carries all of them.    *)
SendVariables ==
    /\ drainStep = "read" /\ drainStep' = "await"
    /\ batch' = [v \in Variable |-> IF v \in Shippable THEN rowVersion[v] ELSE 0]
    /\ UNCHANGED <<deviceRowVars, ledgerVars, heldVersion, drainFinal, missing, acked, overdue, boundVars,
                   overtaken>>

(* persist_session_variable upserts every value of the request.             *)
Upsert(b) == heldVersion' = [v \in Variable |-> IF b[v] # 0 THEN b[v] ELSE heldVersion[v]]

(* The answer names what was upserted, trimmed.                             *)
ServerUpserts ==
    /\ drainStep = "await" /\ drainStep' = "mark"
    /\ Upsert(batch)
    /\ overtaken' = overtaken \ {v \in Variable : batch[v] # 0}
    /\ acked' = {v \in Variable : batch[v] # 0 /\ v \notin Padded}
    /\ UNCHANGED <<deviceRowVars, ledgerVars, drainFinal, missing, batch,
                   overdue, boundVars>>

FaultyMarkVariablesSynced ==
    /\ drainStep = "mark" /\ drainStep' = "ledger"
    /\ rowSynced' = [v \in Variable |-> rowSynced[v] \/ v \in acked]
    /\ UNCHANGED <<rowVersion, saves, written, sessionState, ledgerVars, heldVersion, drainFinal,
                   missing, batch, acked, overdue, boundVars, overtaken>>

(* markVariablesSynced: only a row that still is the version sent.          *)
MarkVariablesSynced ==
    /\ drainStep = "mark" /\ drainStep' = "ledger"
    /\ rowSynced' = [v \in Variable |-> rowSynced[v] \/ (v \in acked /\ rowVersion[v] = batch[v])]
    /\ UNCHANGED <<rowVersion, saves, written, sessionState, ledgerVars, heldVersion, drainFinal,
                   missing, batch, acked, overdue, boundVars, overtaken>>

(* markAcked skips a version without a ledger row.                          *)
MarkAcked ==
    /\ drainStep = "ledger" /\ drainStep' = "purge"
    /\ ledgerState' = [v \in Variable |-> [k \in Version |->
            IF v \in acked /\ batch[v] = k /\ ledgerState[v][k] # "none"
            THEN "acked" ELSE ledgerState[v][k]]]
    /\ UNCHANGED <<deviceRowVars, ledgerTries, heldVersion, drainFinal, missing, batch, acked,
                   overdue, boundVars, overtaken>>

FaultyEndDrain ==
    /\ drainStep = "purge" /\ drainStep' = "idle"
    /\ acked' = {} /\ batch' = Nothing
    /\ IF drainFinal
       THEN rowVersion' = Nothing /\ sessionState' = "purged"
       ELSE UNCHANGED <<rowVersion, sessionState>>
    /\ rowSynced' = [v \in Variable |-> rowSynced[v] /\ ~drainFinal]
    /\ UNCHANGED <<saves, written, ledgerVars, heldVersion, drainFinal, missing, overdue, boundVars,
                   overtaken>>

(* Variables are not counted as rejected, so the drain always gets here;    *)
(* only the rows marked synced go, and only when the session is completed.  *)
EndDrain ==
    /\ drainStep = "purge" /\ drainStep' = "idle"
    /\ acked' = {} /\ batch' = Nothing
    /\ IF drainFinal
       THEN /\ rowVersion' = [v \in Variable |-> IF rowSynced[v] THEN 0 ELSE rowVersion[v]]
            /\ rowSynced' = [v \in Variable |-> FALSE]
            /\ sessionState' = "purged"
       ELSE UNCHANGED <<rowVersion, rowSynced, sessionState>>
    /\ UNCHANGED <<saves, written, ledgerVars, heldVersion, drainFinal, missing, overdue, boundVars,
                   overtaken>>

(* The request of a drain that is gone may have been lost or be under way.  *)
Outlives == overdue' = overdue \/ (overdue = {} /\ overdue' = {batch})

(* The call fails: every unsynced row with a pending ledger row has made an *)
(* attempt.                                                                 *)
Tried(v, k) == /\ rowVersion[v] = k /\ ~rowSynced[v] /\ ledgerState[v][k] = "pending"
RequestFails ==
    /\ drainStep = "await" /\ drainStep' = "idle"
    /\ failures < MaxFailures /\ failures' = failures + 1
    /\ Outlives
    /\ ledgerTries' = [v \in Variable |-> [k \in Version |->
            IF Tried(v, k) THEN ledgerTries[v][k] + 1 ELSE ledgerTries[v][k]]]
    /\ ledgerState' = [v \in Variable |-> [k \in Version |->
            IF Tried(v, k) /\ ledgerTries'[v][k] >= AttemptLimit
            THEN "dead" ELSE ledgerState[v][k]]]
    /\ batch' = Nothing
    /\ UNCHANGED <<deviceRowVars, heldVersion, drainFinal, missing, acked,
                   overruns, overtaken>>

(* The page goes away: the drain and the saves in progress with it.         *)
PageGone ==
    /\ drainStep # "idle" \/ written # {}
    /\ failures < MaxFailures /\ failures' = failures + 1
    /\ drainStep' = "idle" /\ missing' = {} /\ batch' = Nothing /\ acked' = {}
    /\ IF drainStep = "await" THEN Outlives ELSE UNCHANGED overdue
    /\ written' = {}
    /\ UNCHANGED <<rowVersion, rowSynced, saves, sessionState, ledgerVars, heldVersion, drainFinal,
                   overruns, overtaken>>

(* It reaches the server after all, whatever was sent since, or is lost.    *)
OverdueArrives ==
    /\ overdue # {} /\ overdue' = {}
    /\ overruns < MaxOverrun /\ overruns' = overruns + 1
    /\ \E b \in overdue :
        /\ Upsert(b)
        /\ overtaken' = overtaken \cup {v \in Variable : b[v] # 0 /\ b[v] < heldVersion[v]}
    /\ UNCHANGED <<deviceRowVars, ledgerVars, drainVars, failures>>

OverdueLost ==
    /\ overdue # {} /\ overdue' = {}
    /\ UNCHANGED <<deviceRowVars, ledgerVars, heldVersion, drainVars, boundVars,
                   overtaken>>

DrainVariables ==
    \/ BeginDrain \/ Reconcile \/ EndReconcile \/ SendVariables \/ ServerUpserts
    \/ MarkVariablesSynced \/ MarkAcked \/ EndDrain
    \/ \E v \in Variable, k \in Version : ResetLedgerRow(v, k) \/ ResetRecordUnsynced(v, k)

VariableNext ==
    \/ \E v \in Variable : PutVariable(v)
    \/ \E v \in Variable, k \in Version : EnqueueVariable(v, k)
    \/ CompleteSession \/ DrainVariables
    \/ RequestFails \/ PageGone \/ OverdueArrives \/ OverdueLost

VariableSpec == VariableInit /\ [][VariableNext]_variableVars

-----------------------------------------------------------------------------
(* A row that says synced holds the value the server holds, although it may *)
(* be rewritten while an older version is on the way; only a request that   *)
(* outlived its drain can make that untrue, and of the variables it carried.*)
SyncedValueIsHeld ==
    \A v \in Variable : rowSynced[v] => heldVersion[v] = rowVersion[v] \/ v \in overtaken

(* The purge of a completed session takes no value the server lacks.        *)
PurgedValueIsHeld ==
    [][\A v \in Variable : rowVersion[v] # 0 /\ rowVersion'[v] = 0 =>
            heldVersion[v] = rowVersion[v] \/ v \in overtaken]_variableVars

(* The value saved last reaches the server, even for a name the server      *)
(* trims and never acks, unless failures made it a dead letter.             *)
LastValueArrives ==
    \A v \in Variable : \A k \in Version :
        rowVersion[v] = k ~>
            \/ heldVersion[v] = k \/ saves[v] > k
            \/ ledgerState[v][k] = "dead" \/ v \in overtaken
=============================================================================
