--------------------------- MODULE QuotaCompletion ---------------------------
(***************************************************************************)
(* Interlocking quota cells: the gate at entry, the two paths on which a   *)
(* session becomes completed (PATCH /sessions/{id} and the last chunk of   *)
(* POST /sessions/{id}/sync), and the claim of a slot that the second one  *)
(* makes in the same database transaction.                                 *)
(*                                                                         *)
(* A transaction's writes show when it commits.  The row of the session is *)
(* locked by the status UPDATE, so a session has one transaction at a time;*)
(* the counter row of a cell is locked from the claim to the end.          *)
(***************************************************************************)
EXTENDS Naturals

CONSTANTS
    Session,
    Cell,         \* configured cells of one questionnaire
    None,         \* no cell pinned; no transaction holding a lock
    Target,       \* [Cell -> Nat], 0 when the cell is uncapped
    MaxResend     \* bound: completion requests that are not the last one

ASSUME QuotaAssumption ==
    /\ None \notin Cell \cup Session
    /\ Target \in [Cell -> Nat]
    /\ MaxResend \in Nat

VARIABLES
    \* the participants' devices
    page,         \* [Session -> PageState]
    pin,          \* [Session -> cell key in the session's metadata]
    \* committed rows of the database
    status,       \* [Session -> sessions.status]
    overflow,     \* [Session -> metadata.quotaCellOverflow]
    current,      \* [Cell -> quota_cells.current]
    slots,        \* [Session -> slots its committed claims have taken]
    \* transactions under way
    tx,           \* [Session -> step of its /sync transaction]
    lock,         \* [Cell -> the session whose transaction locks the row]
    saw,          \* [Session -> v_current as read under the lock]
    resends

deviceVars == <<page, pin>>
dbVars     == <<status, overflow, current, slots>>
txVars     == <<tx, lock, saw>>
vars == <<deviceVars, dbVars, txVars, resends>>

PageState == {"entry", "turnedAway", "taking", "finished", "acked"}

(* The only extra slots are those of requests that had to be sent again.   *)
TypeOK ==
    /\ page \in [Session -> PageState]
    /\ pin \in [Session -> Cell \cup {None}]
    /\ status \in [Session -> {"none", "active", "completed"}]
    /\ overflow \in [Session -> BOOLEAN]
    /\ current \in [Cell -> Nat]
    /\ slots \in [Session -> 0..MaxResend + 1]
    /\ tx \in [Session -> {"idle", "claim", "locked"}]
    /\ lock \in [Cell -> Session \cup {None}]
    /\ saw \in [Session -> Nat]
    /\ resends \in 0..MaxResend

Init ==
    /\ page = [s \in Session |-> "entry"]
    /\ pin = [s \in Session |-> None]
    /\ status = [s \in Session |-> "none"]
    /\ overflow = [s \in Session |-> FALSE]
    /\ current = [c \in Cell |-> 0]
    /\ slots = [s \in Session |-> 0]
    /\ tx = [s \in Session |-> "idle"]
    /\ lock = [c \in Cell |-> None]
    /\ saw = [s \in Session |-> 0]
    /\ resends = 0

(* An operator named Faulty... is a plausible bug in the one that follows  *)
(* it.  Nothing uses it: it says which slip the properties would notice.   *)
FaultyFull(c, n) == Target[c] > 0 /\ n + 1 >= Target[c]
Full(c, n) == Target[c] > 0 /\ n >= Target[c]
-----------------------------------------------------------------------------
(* checkCells.  The occupancy may come from a snapshot of any age, or be   *)
(* unknown, and an author may let over-quota respondents continue: a full  *)
(* cell may admit.  Occupancy never shrinks: a cell seen full is full.     *)
Admit(s) ==
    /\ page[s] = "entry"
    /\ page' = [page EXCEPT ![s] = "taking"]
    /\ \E c \in Cell \cup {None} : pin' = [pin EXCEPT ![s] = c]
    /\ \E online \in BOOLEAN :
          status' = [status EXCEPT ![s] = IF online THEN "active" ELSE "none"]
    /\ UNCHANGED <<overflow, current, slots, txVars, resends>>

TurnAway(s) ==
    /\ page[s] = "entry"
    /\ \E c \in Cell : Full(c, current[c])
    /\ page' = [page EXCEPT ![s] = "turnedAway"]
    /\ UNCHANGED <<pin, dbVars, txVars, resends>>

(* handleComplete: the session is completed on the device. *)
Finish(s) ==
    /\ page[s] = "taking"
    /\ page' = [page EXCEPT ![s] = "finished"]
    /\ UNCHANGED <<pin, dbVars, txVars, resends>>

(* update_session with status = completed: no claim on this path.          *)
PatchCompleted(s) ==
    /\ page[s] \in {"finished", "acked"}
    /\ status[s] # "none"
    /\ tx[s] = "idle"
    /\ status' = [status EXCEPT ![s] = "completed"]
    /\ UNCHANGED <<deviceVars, overflow, current, slots, txVars, resends>>
-----------------------------------------------------------------------------
(* sync_session of the request that carries status = completed, sent until *)
(* the device is done with it: the session is materialised and its status  *)
(* written ...                                                             *)
Unanswered(s) == page[s] = "finished"
BeginSync(s) ==
    /\ Unanswered(s)
    /\ tx[s] = "idle"
    /\ tx' = [tx EXCEPT ![s] = "claim"]
    /\ UNCHANGED <<deviceVars, dbVars, lock, saw, resends>>

(* ... then claim_quota_cell: the upsert and the FOR UPDATE wait for the   *)
(* row, and the occupancy is read under the lock.  A session is in the     *)
(* claim whatever its status was before.                                   *)
FaultyClaims(s) == pin[s] # None /\ status[s] # "completed"
Claims(s) == pin[s] # None
FaultyFree(c) == TRUE
Free(c) == lock[c] = None
LockCell(s) ==
    /\ tx[s] = "claim"
    /\ Claims(s)
    /\ Free(pin[s])
    /\ lock' = [lock EXCEPT ![pin[s]] = s]
    /\ saw' = [saw EXCEPT ![s] = current[pin[s]]]
    /\ tx' = [tx EXCEPT ![s] = "locked"]
    /\ UNCHANGED <<deviceVars, dbVars, resends>>

(* The device is done with the answer to a committed request, or sends     *)
(* again: the answer was lost, or a binary answer is still waiting for its *)
(* upload and keeps the session unsynced (binariesPending in syncSession). *)
Answer(s) ==
    \/ /\ page' = [page EXCEPT ![s] = "acked"]
       /\ UNCHANGED resends
    \/ /\ resends < MaxResend
       /\ resends' = resends + 1
       /\ UNCHANGED page

FaultyRelease(s) == lock
Release(s) == [c \in Cell |-> IF lock[c] = s THEN None ELSE lock[c]]

(* Commit: status, counter and flag become visible together.               *)
Commit(s) ==
    LET c == pin[s] IN
    /\ tx[s] = "locked"
    /\ status' = [status EXCEPT ![s] = "completed"]
    /\ IF Full(c, saw[s])
       THEN /\ overflow' = [overflow EXCEPT ![s] = TRUE]
            /\ UNCHANGED <<current, slots>>
       ELSE /\ current' = [current EXCEPT ![c] = @ + 1]
            /\ slots' = [slots EXCEPT ![s] = @ + 1]
            /\ UNCHANGED overflow
    /\ tx' = [tx EXCEPT ![s] = "idle"]
    /\ lock' = Release(s)
    /\ Answer(s)
    /\ UNCHANGED <<pin, saw>>

(* No pinned cell, nothing to claim. *)
CommitUnpinned(s) ==
    /\ tx[s] = "claim"
    /\ ~Claims(s)
    /\ status' = [status EXCEPT ![s] = "completed"]
    /\ tx' = [tx EXCEPT ![s] = "idle"]
    /\ Answer(s)
    /\ UNCHANGED <<pin, overflow, current, slots, lock, saw>>

(* Any error in the request, or the connection to the database: everything *)
(* is rolled back, the locks go.                                           *)
Rollback(s) ==
    /\ tx[s] # "idle"
    /\ resends < MaxResend
    /\ resends' = resends + 1
    /\ tx' = [tx EXCEPT ![s] = "idle"]
    /\ lock' = Release(s)
    /\ UNCHANGED <<deviceVars, dbVars, saw>>
-----------------------------------------------------------------------------
Sync(s) == BeginSync(s) \/ LockCell(s) \/ Commit(s) \/ CommitUnpinned(s)

Next ==
    \E s \in Session :
        \/ Admit(s) \/ TurnAway(s) \/ Finish(s) \/ PatchCompleted(s)
        \/ Sync(s)
        \/ Rollback(s)

Spec == Init /\ [][Next]_vars

(* The engine's retry timer sends again until it is answered, and a        *)
(* transaction that can go on does.  The counter row is granted in the     *)
(* order in which it was asked for; weak fairness is enough here, since    *)
(* only finitely many claims can come first.                               *)
FairSpec == Spec /\ \A s \in Session : WF_vars(Sync(s))
-----------------------------------------------------------------------------
(* The cap is exact: N concurrent claims against a cell of K slots never   *)
(* take K + 1 (claim_quota_cell), retries and rollbacks included.          *)
CapHolds == \A c \in Cell : Target[c] > 0 => current[c] <= Target[c]

(* A session is flagged as over quota only over a cell that is full.       *)
FlaggedOnlyWhenFull ==
    \A s \in Session :
        overflow[s] => /\ pin[s] # None
                       /\ 0 < Target[pin[s]] /\ Target[pin[s]] <= current[pin[s]]

(* A session whose completion was answered has a slot of its cell or is    *)
(* flagged, whichever path completed it first: the PATCH path leaves the   *)
(* claim to the sync that follows it.                                      *)
CountedOrFlagged ==
    \A s \in Session :
        page[s] = "acked" /\ pin[s] # None => slots[s] > 0 \/ overflow[s]

(* A finished session gets through: no claim is left waiting for a row     *)
(* whose transaction is over.                                              *)
CompletionAnswered == \A s \in Session : page[s] = "finished" ~> page[s] = "acked"

(* "A rejected claim (cell already full - a completion race lost) sets     *)
(* metadata.quotaCellOverflow = true so over-cap completions can be        *)
(* filtered": a session that is counted in its cell is not flagged.        *)
FlaggedIsUncounted == \A s \in Session : overflow[s] => slots[s] = 0
=============================================================================
