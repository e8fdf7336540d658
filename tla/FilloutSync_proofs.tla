-------------------------- MODULE FilloutSync_proofs --------------------------
(***************************************************************************)
(* Proofs about FilloutSync, for every set of records and engines and      *)
(* every value of the bounds.                                              *)
(*                                                                         *)
(* TypeOK is not inductive: that an attempt count stays within the         *)
(* dead-letter budget needs LedgerInv, which needs that what a drain has   *)
(* accumulated as acknowledged is held, AckInv.  The three together are.   *)
(***************************************************************************)
EXTENDS FilloutSync, TLAPS

(* What a drain believes acknowledged, the server holds. *)
AckInv ==
    \A e \in Engine :
        /\ acc[e] \subseteq held
        /\ reply[e] = "ok" => pc[e] = "await" /\ sent[e] \subseteq held

(* How the ledger row of a record follows its own row. *)
LedgerInv ==
    \A r \in Rec :
        /\ row[r] = "absent" => ledger[r] = "none"
        /\ r \in saving => row[r] # "absent" /\ ledger[r] = "none"
        /\ ledger[r] = "none" => attempts[r] = 0
        /\ ledger[r] = "acked" /\ r \notin held => attempts[r] = 0
        /\ ledger[r] = "pending" => attempts[r] < DEAD_LETTER_ATTEMPTS

SyncInv == TypeOK /\ AckInv /\ LedgerInv /\ NoOverMarking
-----------------------------------------------------------------------------
(* What the server holds it keeps: no step takes a record off it. *)
LEMMA HeldGrows == ASSUME TypeOK, [Next]_vars PROVE held \subseteq held'
  <1> USE DEF deviceVars, pageVars, engineVars, serverVars, envVars
  <1>1. CASE UNCHANGED vars
    BY <1>1 DEF vars
  <1>2. CASE Page
    BY <1>2 DEF Page, SaveRow, Enqueue, UpdateProgress, MergeCompletion,
                PatchCompleted, CompleteSession
  <1>3. ASSUME NEW e \in Engine, Drain(e) PROVE held \subseteq held'
    <2>1. CASE ServerSync(e)
      BY <2>1 DEF ServerSync, Commit
    <2>2. CASE ~ServerSync(e)
      BY <1>3, <2>2 DEF Drain, StartDrain, Reconcile, ReadRecords, ReceiveAck,
                MarkRows, MarkLedger, MarkSession, PurgeSynced, RegisterFailure,
                Escalate
    <2> QED BY <2>1, <2>2
  <1>4. CASE Disturb
    BY <1>4 DEF Disturb, ReconcileSkipped, ConnectionLost, ServerSyncLate,
                Commit, Crash, Died
  <1> QED BY <1>1, <1>2, <1>3, <1>4 DEF Next

(* The initial states satisfy the invariant. *)
LEMMA InitSyncInv == Init => SyncInv
  <1> SUFFICES ASSUME Init PROVE SyncInv
    OBVIOUS
  <1> USE ConstantsAssumption
  <1>1. PICK online \in BOOLEAN, over \in SUBSET OverMarked :
          /\ row = [r \in Rec |-> IF r \in over THEN "synced" ELSE "absent"]
          /\ ledger = [r \in Rec |-> IF r \in over THEN "acked" ELSE "none"]
          /\ sess = [present |-> TRUE, completed |-> FALSE,
                     meta |-> 0, synced |-> online]
          /\ srv = [exists |-> online, completed |-> FALSE, meta |-> 0]
    BY DEF Init
  <1>2. TypeOK
    BY <1>1 DEF Init, TypeOK, RowState, LedgerState, FinishState, Step,
                SessionRow, ServerRow, Seen, NoSession, Request
  <1>3. AckInv
    BY DEF Init, AckInv
  <1>4. LedgerInv
    BY <1>1 DEF Init, LedgerInv
  <1>5. NoOverMarking
    BY <1>1 DEF NoOverMarking, Tracked
  <1> QED BY <1>2, <1>3, <1>4, <1>5 DEF SyncInv
-----------------------------------------------------------------------------
(* Every rewrite of the session row, on the device and on the server.  *)
LEMMA SessionRowType ==
    ASSUME NEW s \in SessionRow
    PROVE  /\ s.meta < MaxMeta =>
                [s EXCEPT !.meta = @ + 1, !.synced = FALSE] \in SessionRow
           /\ [s EXCEPT !.completed = TRUE, !.synced = FALSE] \in SessionRow
           /\ [s EXCEPT !.synced = TRUE] \in SessionRow
           /\ [s EXCEPT !.present = FALSE] \in SessionRow
  <1>1. ASSUME s.meta < MaxMeta
        PROVE  [s EXCEPT !.meta = @ + 1, !.synced = FALSE] \in SessionRow
    <2>1. s.meta + 1 \in 0..MaxMeta
      BY <1>1, ConstantsAssumption DEF SessionRow
    <2>2. ASSUME NEW n \in 0..MaxMeta
          PROVE  [s EXCEPT !.meta = n, !.synced = FALSE] \in SessionRow
      BY DEF SessionRow
    <2> QED BY <2>1, <2>2
  <1>2. [s EXCEPT !.completed = TRUE, !.synced = FALSE] \in SessionRow
    BY DEF SessionRow
  <1>3. [s EXCEPT !.synced = TRUE] \in SessionRow
    BY DEF SessionRow
  <1>4. [s EXCEPT !.present = FALSE] \in SessionRow
    BY DEF SessionRow
  <1> QED BY <1>1, <1>2, <1>3, <1>4

LEMMA ServerRowType ==
    ASSUME NEW q \in Request, srv \in ServerRow
    PROVE  /\ [srv EXCEPT !.completed = TRUE] \in ServerRow
           /\ Commit(q) => srv' \in ServerRow
  <1>1. [srv EXCEPT !.completed = TRUE] \in ServerRow
    BY DEF ServerRow
  <1>2. [exists    |-> TRUE,
         completed |-> srv.completed \/ q.status,
         meta      |-> IF q.init THEN q.meta ELSE srv.meta] \in ServerRow
    BY DEF ServerRow, Request
  <1> QED BY <1>1, <1>2 DEF Commit

(* The request of a drain is a request; an abandoned one is, too. *)
LEMMA RequestType ==
    ASSUME TypeOK, NEW e \in Engine
    PROVE  RequestOf(e) \in Request /\ Abandoned(e) \subseteq Request
  <1>1. RequestOf(e) \in Request
    BY DEF TypeOK, RequestOf, Request, IsFirst, IsLast, Completes, Seen
  <1> QED BY <1>1 DEF Abandoned

LEMMA InFlightType ==
    TypeOK => \A dead \in SUBSET Engine : InFlight(dead) \subseteq Request
  BY RequestType DEF InFlight

(* Counting one failed attempt keeps the ledger typed: only a pending      *)
(* record is counted, and LedgerInv leaves it room.                        *)
LEMMA AttemptType ==
    ASSUME TypeOK, LedgerInv, NEW S \in SUBSET Rec
    PROVE  /\ AttemptsAfter(S) \in [Rec -> 0..DEAD_LETTER_ATTEMPTS]
           /\ LedgerAfter(S) \in [Rec -> LedgerState]
           /\ \A r \in Rec :
                 LedgerAfter(S)[r] = "pending" =>
                    AttemptsAfter(S)[r] < DEAD_LETTER_ATTEMPTS
  <1> USE ConstantsAssumption
  <1>1. ASSUME NEW r \in Rec
        PROVE  /\ AttemptsAfter(S)[r] \in 0..DEAD_LETTER_ATTEMPTS
               /\ LedgerAfter(S)[r] \in LedgerState
               /\ LedgerAfter(S)[r] = "pending" =>
                    AttemptsAfter(S)[r] < DEAD_LETTER_ATTEMPTS
    BY <1>1 DEF AttemptsAfter, LedgerAfter, Tried, Exhausted, TypeOK, LedgerInv,
                LedgerState
  <1> QED BY <1>1 DEF AttemptsAfter, LedgerAfter

(* Returning from a drain leaves typed locals. *)
LEMMA ReturnType ==
    ASSUME TypeOK, NEW e \in Engine, Return(e)
    PROVE  /\ pc' \in [Engine -> Step]
           /\ seen' \in [Engine -> Seen]
           /\ snap' \in [Engine -> SUBSET Rec]
           /\ todo' \in [Engine -> SUBSET Rec]
           /\ sent' \in [Engine -> SUBSET Rec]
           /\ acc' \in [Engine -> SUBSET Rec]
           /\ reply' \in [Engine -> {"none", "ok", "refused", "lost"}]
  <1>1. NoSession \in Seen
    BY ConstantsAssumption DEF NoSession, Seen
  <1> QED BY <1>1 DEF TypeOK, Return, Step

(* The page's own steps keep the types. *)
LEMMA PageType == SyncInv /\ Page => TypeOK'
  <1> SUFFICES ASSUME SyncInv, Page PROVE TypeOK'
    OBVIOUS
  <1> USE ConstantsAssumption DEF SyncInv, TypeOK, deviceVars, pageVars,
          engineVars, serverVars, envVars, FinishState
  <1>1. ASSUME NEW r \in Rec, SaveRow(r) PROVE TypeOK'
    BY <1>1 DEF SaveRow, RowState
  <1>2. ASSUME NEW r \in Rec, Enqueue(r) PROVE TypeOK'
    BY <1>2 DEF Enqueue, LedgerState
  <1>3. CASE UpdateProgress
    BY <1>3, SessionRowType DEF UpdateProgress, RearmedRow
  <1>4. CASE MergeCompletion
    BY <1>4, SessionRowType DEF MergeCompletion, RearmedRow
  <1>5. CASE PatchCompleted
    <2>1. srv.exists => [srv EXCEPT !.completed = TRUE] \in ServerRow
      BY DEF ServerRow
    <2> QED BY <1>5, <2>1 DEF PatchCompleted
  <1>6. CASE CompleteSession
    BY <1>6, SessionRowType DEF CompleteSession
  <1> QED BY <1>1, <1>2, <1>3, <1>4, <1>5, <1>6 DEF Page

(* So do the engine's, with the server's answer to it. *)
LEMMA DrainType ==
    ASSUME SyncInv, NEW e \in Engine, Drain(e)
    PROVE  TypeOK'
  <1> USE ConstantsAssumption DEF SyncInv, TypeOK, deviceVars, pageVars,
          engineVars, serverVars, envVars, Step
  <1>1. CASE StartDrain(e)
    BY <1>1 DEF StartDrain, Seen, SessionRow
  <1>2. CASE Reconcile(e)
    BY <1>2 DEF Reconcile, RowState, LedgerState
  <1>3. CASE ReadRecords(e)
    BY <1>3 DEF ReadRecords, Shippable, Unsynced, NextChunk
  <1>4. CASE ServerSync(e)
    <2>1. RequestOf(e) \in Request
      BY RequestType
    <2>2. Commit(RequestOf(e)) => srv' \in ServerRow /\ held' \in SUBSET Rec
      BY <2>1, ServerRowType DEF Commit, Request
    <2> QED BY <1>4, <2>1, <2>2 DEF ServerSync
  <1>5. CASE ReceiveAck(e)
    BY <1>5 DEF ReceiveAck, NextChunk
  <1>6. CASE MarkRows(e)
    BY <1>6 DEF MarkRows, Accepted, RowState
  <1>7. CASE MarkLedger(e)
    BY <1>7, AttemptType DEF MarkLedger, LedgerState
  <1>8. CASE MarkSession(e)
    <2>1. sess' \in SessionRow
      BY <1>8, SessionRowType DEF MarkSession
    <2> QED BY <1>8, <2>1, ReturnType DEF MarkSession
  <1>9. CASE PurgeSynced(e)
    <2>1. sess' \in SessionRow
      BY <1>9, SessionRowType DEF PurgeSynced
    <2>2. row' \in [Rec -> RowState]
      BY <1>9 DEF PurgeSynced, RowState
    <2> QED BY <1>9, <2>1, <2>2, ReturnType DEF PurgeSynced
  <1>10. CASE RegisterFailure(e)
    BY <1>10, AttemptType DEF RegisterFailure, Unsynced
  <1>11. CASE Escalate(e)
    <2>1. sess' \in SessionRow
      BY <1>11, SessionRowType DEF Escalate
    <2> QED BY <1>11, <2>1, ReturnType DEF Escalate
  <1> QED BY <1>1, <1>2, <1>3, <1>4, <1>5, <1>6, <1>7, <1>8, <1>9, <1>10,
             <1>11 DEF Drain

(* And the network's and the tab's misfortunes. *)
LEMMA DisturbType == SyncInv /\ Disturb => TypeOK'
  <1> SUFFICES ASSUME SyncInv, Disturb PROVE TypeOK'
    OBVIOUS
  <1> USE ConstantsAssumption DEF SyncInv, TypeOK, deviceVars, pageVars,
          engineVars, serverVars, envVars, Step
  <1>1. ASSUME NEW e \in Engine, ReconcileSkipped(e) PROVE TypeOK'
    BY <1>1 DEF ReconcileSkipped
  <1>2. ASSUME NEW e \in Engine, ConnectionLost(e) PROVE TypeOK'
    BY <1>2, RequestType DEF ConnectionLost
  <1>3. CASE ServerSyncLate
    <2>1. ASSUME NEW q \in Request, Commit(q)
          PROVE  srv' \in ServerRow /\ held' \in SUBSET Rec
      BY <2>1, ServerRowType DEF Commit, Request
    <2> QED BY <1>3, <2>1 DEF ServerSyncLate
  <1>4. CASE Crash
    <2>1. PICK dead \in SUBSET Engine :
             /\ pc' = Died(dead, pc, "idle")
             /\ seen' = Died(dead, seen, NoSession)
             /\ snap' = Died(dead, snap, {})
             /\ todo' = Died(dead, todo, {})
             /\ sent' = Died(dead, sent, {})
             /\ acc' = Died(dead, acc, {})
             /\ reply' = Died(dead, reply, "none")
             /\ late' \in {late, late \cup InFlight(dead)}
             /\ saving' \in {saving, {}}
             /\ finish' \in {finish, "running", "done"}
      BY <1>4 DEF Crash
    <2>2. /\ pc' \in [Engine -> Step]
          /\ seen' \in [Engine -> Seen]
      BY <2>1 DEF Died, NoSession, Seen
    <2>3. /\ snap' \in [Engine -> SUBSET Rec]
          /\ todo' \in [Engine -> SUBSET Rec]
          /\ sent' \in [Engine -> SUBSET Rec]
          /\ acc' \in [Engine -> SUBSET Rec]
          /\ reply' \in [Engine -> {"none", "ok", "refused", "lost"}]
      BY <2>1 DEF Died
    <2>4. late' \in SUBSET Request
      BY <2>1, InFlightType
    <2>5. saving' \in SUBSET Rec /\ finish' \in FinishState
      BY <2>1 DEF FinishState
    <2> QED BY <1>4, <2>2, <2>3, <2>4, <2>5 DEF Crash
  <1> QED BY <1>1, <1>2, <1>3, <1>4 DEF Disturb

LEMMA TypeStep == SyncInv /\ [Next]_vars => TypeOK'
  <1> SUFFICES ASSUME SyncInv, [Next]_vars PROVE TypeOK'
    OBVIOUS
  <1>1. CASE UNCHANGED vars
    BY <1>1 DEF vars, deviceVars, pageVars, engineVars, serverVars, envVars,
                SyncInv, TypeOK
  <1> QED BY <1>1, PageType, DrainType, DisturbType DEF Next
-----------------------------------------------------------------------------
(* The engine's locals stay honest: accumulated ids are held, and a reply  *)
(* "ok" means that the chunk in flight is.                                 *)
LEMMA AckStep == SyncInv /\ [Next]_vars => AckInv'
  <1> SUFFICES ASSUME SyncInv, [Next]_vars, NEW o \in Engine
               PROVE  /\ acc'[o] \subseteq held'
                      /\ reply'[o] = "ok" => pc'[o] = "await" /\ sent'[o] \subseteq held'
    BY DEF AckInv
  <1> USE DEF SyncInv, TypeOK, AckInv, deviceVars, pageVars, engineVars,
          serverVars, envVars
  <1>1. held \subseteq held'
    BY HeldGrows
  <1>2. ASSUME UNCHANGED engineVars
        PROVE  /\ acc'[o] \subseteq held'
               /\ reply'[o] = "ok" => pc'[o] = "await" /\ sent'[o] \subseteq held'
    BY <1>1, <1>2
  <1>3. CASE UNCHANGED vars
    BY <1>2, <1>3 DEF vars
  <1>4. CASE Page
    BY <1>2, <1>4 DEF Page, SaveRow, Enqueue, UpdateProgress, MergeCompletion,
                      PatchCompleted, CompleteSession
  <1>5. CASE Disturb
    <2>1. ASSUME NEW e \in Engine, ReconcileSkipped(e)
          PROVE  /\ acc'[o] \subseteq held'
                 /\ reply'[o] = "ok" => pc'[o] = "await" /\ sent'[o] \subseteq held'
      BY <2>1, <1>1 DEF ReconcileSkipped
    <2>2. ASSUME NEW e \in Engine, ConnectionLost(e)
          PROVE  /\ acc'[o] \subseteq held'
                 /\ reply'[o] = "ok" => pc'[o] = "await" /\ sent'[o] \subseteq held'
      BY <2>2, <1>1 DEF ConnectionLost
    <2>3. CASE ServerSyncLate
      BY <2>3, <1>2 DEF ServerSyncLate
    <2>4. CASE Crash
      BY <2>4 DEF Crash, Died
    <2> QED BY <1>5, <2>1, <2>2, <2>3, <2>4 DEF Disturb
  <1>6. ASSUME NEW e \in Engine, Drain(e)
        PROVE  /\ acc'[o] \subseteq held'
               /\ reply'[o] = "ok" => pc'[o] = "await" /\ sent'[o] \subseteq held'
    <2>1. CASE StartDrain(e) \/ Reconcile(e) \/ MarkLedger(e) \/ RegisterFailure(e)
      BY <1>1, <2>1 DEF StartDrain, Reconcile, MarkLedger, RegisterFailure
    <2>2. CASE ReadRecords(e)
      BY <1>1, <2>2 DEF ReadRecords
    <2>3. CASE ServerSync(e)
      BY <1>1, <2>3 DEF ServerSync, Commit, RequestOf
    <2>4. CASE ReceiveAck(e)
      BY <1>1, <2>4 DEF ReceiveAck
    <2>5. CASE MarkRows(e)
      BY <1>1, <2>5 DEF MarkRows, Accepted
    <2>6. CASE MarkSession(e) \/ PurgeSynced(e) \/ Escalate(e)
      BY <1>1, <2>6 DEF MarkSession, PurgeSynced, Escalate, Return
    <2> QED BY <1>6, <2>1, <2>2, <2>3, <2>4, <2>5, <2>6 DEF Drain
  <1> QED BY <1>3, <1>4, <1>5, <1>6 DEF Next

(* The ledger row follows the record's own row. *)
LEMMA LedgerStep == SyncInv /\ [Next]_vars => LedgerInv'
  <1> SUFFICES ASSUME SyncInv, [Next]_vars PROVE LedgerInv'
    OBVIOUS
  <1> USE ConstantsAssumption DEF SyncInv, TypeOK, LedgerInv, deviceVars,
          pageVars, engineVars, serverVars, envVars
  <1>1. held \subseteq held'
    BY HeldGrows
  <1>2. ASSUME UNCHANGED <<row, ledger, attempts>>, saving' \subseteq saving
        PROVE  LedgerInv'
    BY <1>1, <1>2
  <1>3. CASE UNCHANGED vars
    BY <1>2, <1>3 DEF vars
  <1>4. CASE Page
    <2>1. ASSUME NEW r \in Rec, SaveRow(r) PROVE LedgerInv'
      BY <2>1 DEF SaveRow
    <2>2. ASSUME NEW r \in Rec, Enqueue(r) PROVE LedgerInv'
      BY <2>2 DEF Enqueue
    <2>3. CASE UpdateProgress \/ MergeCompletion \/ PatchCompleted \/ CompleteSession
      BY <1>2, <2>3 DEF UpdateProgress, MergeCompletion, PatchCompleted,
                        CompleteSession
    <2> QED BY <1>4, <2>1, <2>2, <2>3 DEF Page
  <1>5. CASE Disturb
    BY <1>2, <1>5 DEF Disturb, ReconcileSkipped, ConnectionLost,
                      ServerSyncLate, Crash, Died
  <1>6. ASSUME NEW e \in Engine, Drain(e) PROVE LedgerInv'
    <2>1. CASE StartDrain(e) \/ ReadRecords(e) \/ ServerSync(e) \/ ReceiveAck(e)
      BY <1>2, <2>1 DEF StartDrain, ReadRecords, ServerSync, ReceiveAck
    <2>2. CASE MarkSession(e) \/ Escalate(e)
      BY <1>2, <2>2 DEF MarkSession, Escalate
    <2>3. CASE Reconcile(e)
      BY <1>1, <2>3 DEF Reconcile, Missing, Acked
    <2>4. CASE MarkRows(e)
      BY <1>1, <2>4 DEF MarkRows, Marked
    <2>5. CASE PurgeSynced(e)
      BY <1>1, <2>5 DEF PurgeSynced, Purgeable
    <2>6. CASE MarkLedger(e)
      <3>1. acc[e] \subseteq held
        BY DEF AckInv
      <3> QED BY <1>1, <2>6, <3>1
                 DEF MarkLedger, AttemptsAfter, LedgerAfter, Tried, Exhausted,
                     LedgerState
    <2>7. CASE RegisterFailure(e)
      BY <1>1, <2>7 DEF RegisterFailure, AttemptsAfter, LedgerAfter, Tried,
                        Exhausted, LedgerState
    <2> QED BY <1>6, <2>1, <2>2, <2>3, <2>4, <2>5, <2>6, <2>7 DEF Drain
  <1> QED BY <1>3, <1>4, <1>5, <1>6 DEF Next

(* A record is marked, acknowledged in the ledger or purged only when the  *)
(* server holds it.                                                        *)
LEMMA NoOverMarkingStep == SyncInv /\ [Next]_vars => NoOverMarking'
  <1> SUFFICES ASSUME SyncInv, [Next]_vars PROVE NoOverMarking'
    OBVIOUS
  <1> USE DEF SyncInv, TypeOK, NoOverMarking, Tracked, deviceVars, pageVars,
          engineVars, serverVars, envVars
  <1>1. held \subseteq held'
    BY HeldGrows
  <1>2. ASSUME UNCHANGED <<row, ledger>> PROVE NoOverMarking'
    BY <1>1, <1>2
  <1>3. CASE UNCHANGED vars
    BY <1>2, <1>3 DEF vars
  <1>4. CASE Page
    <2>1. ASSUME NEW r \in Rec, SaveRow(r) PROVE NoOverMarking'
      BY <2>1 DEF SaveRow
    <2>2. ASSUME NEW r \in Rec, Enqueue(r) PROVE NoOverMarking'
      BY <2>2 DEF Enqueue
    <2>3. CASE UpdateProgress \/ MergeCompletion \/ PatchCompleted \/ CompleteSession
      BY <1>2, <2>3 DEF UpdateProgress, MergeCompletion, PatchCompleted,
                        CompleteSession
    <2> QED BY <1>4, <2>1, <2>2, <2>3 DEF Page
  <1>5. CASE Disturb
    BY <1>2, <1>5 DEF Disturb, ReconcileSkipped, ConnectionLost,
                      ServerSyncLate, Crash, Died
  <1>6. ASSUME NEW e \in Engine, Drain(e) PROVE NoOverMarking'
    <2>1. CASE StartDrain(e) \/ ReadRecords(e) \/ ServerSync(e) \/ ReceiveAck(e)
      BY <1>2, <2>1 DEF StartDrain, ReadRecords, ServerSync, ReceiveAck
    <2>2. CASE MarkSession(e) \/ Escalate(e)
      BY <1>2, <2>2 DEF MarkSession, Escalate
    <2>3. CASE Reconcile(e)
      BY <1>1, <2>3 DEF Reconcile
    <2>4. CASE MarkRows(e)
      (* the chunk in flight was answered, the earlier ones were accumulated *)
      <3>1. Accepted(e) \subseteq held
        BY <2>4 DEF MarkRows, Accepted, AckInv
      <3> QED BY <1>1, <2>4, <3>1 DEF MarkRows, Marked
    <2>5. CASE MarkLedger(e)
      <3>1. acc[e] \subseteq held
        BY DEF AckInv
      <3> QED BY <1>1, <2>5, <3>1 DEF MarkLedger, LedgerAfter, Tried
    <2>6. CASE PurgeSynced(e)
      BY <1>1, <2>6 DEF PurgeSynced, Purgeable
    <2>7. CASE RegisterFailure(e)
      BY <1>1, <2>7 DEF RegisterFailure, LedgerAfter, Tried
    <2> QED BY <1>6, <2>1, <2>2, <2>3, <2>4, <2>5, <2>6, <2>7 DEF Drain
  <1> QED BY <1>3, <1>4, <1>5, <1>6 DEF Next

THEOREM SyncInvariant == Spec => []SyncInv
  <1>1. SyncInv /\ [Next]_vars => SyncInv'
    BY TypeStep, AckStep, LedgerStep, NoOverMarkingStep DEF SyncInv
  <1> QED BY InitSyncInv, <1>1, PTL DEF Spec

(* Type correctness: in particular no record is charged more attempts than *)
(* the dead-letter budget (SyncLedger.markAttempt).                        *)
THEOREM TypeCorrect == Spec => []TypeOK
  BY SyncInvariant, PTL DEF SyncInv

(* Whatever is lost, retried, crashed or run twice, the device never       *)
(* counts a record as synced, acknowledged or purged that the server does  *)
(* not hold (the ack-driven marking of syncSession).                       *)
THEOREM NeverOverMarked == Spec => []NoOverMarking
  BY SyncInvariant, PTL DEF SyncInv
-----------------------------------------------------------------------------
(***************************************************************************)
(* The completed status rides the last chunk.                              *)
(***************************************************************************)

(* What a drain has behind it of its snapshot is on the server. *)
RideInv ==
    /\ \A e \in Engine : pc[e] = "await" => snap[e] \ todo[e] \subseteq held
    /\ \A q \in late : q.status => q.rest \subseteq held

(* A completing request leaves nothing of its drain behind. *)
LEMMA RequestRides ==
    ASSUME TypeOK, RideInv, NEW e \in Engine, pc[e] = "await"
    PROVE  /\ RequestOf(e).status => RequestOf(e).rest \subseteq held
           /\ \A q \in Abandoned(e) : q.status => q.rest \subseteq held
  <1>1. RequestOf(e).status => RequestOf(e).rest \subseteq held
    BY DEF RequestOf, Completes, IsLast, RideInv
  <1> QED BY <1>1 DEF Abandoned

LEMMA RideStep == SyncInv /\ RideInv /\ [Next]_vars => RideInv'
  <1> SUFFICES ASSUME SyncInv, RideInv, [Next]_vars PROVE RideInv'
    OBVIOUS
  <1> USE DEF SyncInv, TypeOK, RideInv, deviceVars, pageVars, engineVars,
          serverVars, envVars
  <1>1. held \subseteq held'
    BY HeldGrows
  <1>2. ASSUME late' \subseteq late, UNCHANGED <<pc, snap, todo>> PROVE RideInv'
    BY <1>1, <1>2
  <1>3. CASE UNCHANGED vars
    BY <1>2, <1>3 DEF vars
  <1>4. CASE Page
    BY <1>2, <1>4 DEF Page, SaveRow, Enqueue, UpdateProgress, MergeCompletion,
                      PatchCompleted, CompleteSession
  <1>5. CASE Disturb
    <2>1. ASSUME NEW e \in Engine, ReconcileSkipped(e) PROVE RideInv'
      BY <1>1, <2>1 DEF ReconcileSkipped
    <2>2. ASSUME NEW e \in Engine, ConnectionLost(e) PROVE RideInv'
      BY <1>1, <2>2, RequestRides DEF ConnectionLost
    <2>3. CASE ServerSyncLate
      BY <1>2, <2>3 DEF ServerSyncLate
    <2>4. CASE Crash
      <3>1. \A dead \in SUBSET Engine : \A q \in InFlight(dead) : q.status => q.rest \subseteq held
        BY RequestRides DEF InFlight
      <3> QED BY <1>1, <2>4, <3>1 DEF Crash, Died
    <2> QED BY <1>5, <2>1, <2>2, <2>3, <2>4 DEF Disturb
  <1>6. ASSUME NEW e \in Engine, Drain(e) PROVE RideInv'
    <2>1. CASE StartDrain(e) \/ Reconcile(e) \/ MarkLedger(e) \/ RegisterFailure(e)
      BY <1>1, <2>1 DEF StartDrain, Reconcile, MarkLedger, RegisterFailure
    <2>2. CASE ReadRecords(e)
      BY <1>1, <2>2 DEF ReadRecords
    <2>3. CASE ServerSync(e)
      BY <1>2, <2>3 DEF ServerSync
    <2>4. CASE ReceiveAck(e)
      <3>1. sent[e] \subseteq held
        BY <2>4 DEF ReceiveAck, AckInv
      <3> QED BY <1>1, <2>4, <3>1 DEF ReceiveAck
    <2>5. CASE MarkRows(e)
      BY <1>1, <2>5 DEF MarkRows
    <2>6. CASE MarkSession(e) \/ PurgeSynced(e) \/ Escalate(e)
      BY <1>1, <2>6 DEF MarkSession, PurgeSynced, Escalate, Return
    <2> QED BY <1>6, <2>1, <2>2, <2>3, <2>4, <2>5, <2>6 DEF Drain
  <1> QED BY <1>3, <1>4, <1>5, <1>6 DEF Next

(* A request that completes the session lands after every other record its *)
(* drain read, however late it arrives (the chunk loop of syncSession).    *)
THEOREM CompletionIsLast == Spec => []CompletionRidesLast
  <1>1. Init => RideInv
    BY DEF Init, RideInv
  <1>2. SyncInv /\ RideInv => CompletionRidesLast
    BY RequestRides DEF SyncInv, RideInv, CompletionRidesLast
  <1> QED BY SyncInvariant, RideStep, <1>1, <1>2, PTL DEF Spec
-----------------------------------------------------------------------------
(***************************************************************************)
(* The session row leaves the device only when the server has completed.   *)
(***************************************************************************)

(* From the answer to the last chunk to the purge, a drain of a completed  *)
(* session knows that the server completed it.                             *)
PurgeInv ==
    /\ \A e \in Engine :
          /\ pc[e] = "await" /\ reply[e] = "ok" /\ Completes(e) => srv.completed
          /\ pc[e] \in {"markLedger", "markSession"} /\ seen[e].completed
                => srv.completed
          /\ pc[e] = "purge" => srv.completed
    /\ ~sess.present => srv.completed

(* The server never takes a completion back. *)
LEMMA CompletionStays ==
    ASSUME TypeOK, [Next]_vars, srv.completed PROVE srv'.completed
  <1> USE DEF TypeOK, ServerRow, deviceVars, pageVars, engineVars, serverVars,
          envVars
  <1>1. ASSUME NEW q \in Request, Commit(q) PROVE srv'.completed
    BY <1>1 DEF Commit
  <1>2. CASE UNCHANGED vars
    BY <1>2 DEF vars
  <1>3. CASE Page
    <2>1. CASE PatchCompleted
      BY <2>1 DEF PatchCompleted
    <2>2. CASE ~PatchCompleted
      BY <1>3, <2>2 DEF Page, SaveRow, Enqueue, UpdateProgress,
                        MergeCompletion, CompleteSession
    <2> QED BY <2>1, <2>2
  <1>4. CASE Disturb
    <2>1. CASE ServerSyncLate
      BY <1>1, <2>1 DEF ServerSyncLate
    <2>2. CASE ~ServerSyncLate
      BY <1>4, <2>2 DEF Disturb, ReconcileSkipped, ConnectionLost, Crash, Died
    <2> QED BY <2>1, <2>2
  <1>5. ASSUME NEW e \in Engine, Drain(e) PROVE srv'.completed
    <2>1. CASE ServerSync(e)
      BY <1>1, <2>1, RequestType DEF ServerSync
    <2>2. CASE ~ServerSync(e)
      BY <1>5, <2>2 DEF Drain, StartDrain, Reconcile, ReadRecords, ReceiveAck,
                MarkRows, MarkLedger, MarkSession, PurgeSynced,
                RegisterFailure, Escalate
    <2> QED BY <2>1, <2>2
  <1> QED BY <1>2, <1>3, <1>4, <1>5 DEF Next

LEMMA PurgeStep == SyncInv /\ PurgeInv /\ [Next]_vars => PurgeInv'
  <1> SUFFICES ASSUME SyncInv, PurgeInv, [Next]_vars PROVE PurgeInv'
    OBVIOUS
  <1> USE DEF SyncInv, TypeOK, PurgeInv, deviceVars, pageVars, engineVars,
          serverVars, envVars, Completes, IsLast
  <1>1. srv.completed => srv'.completed
    BY CompletionStays
  <1>2. ASSUME UNCHANGED engineVars, sess'.present = sess.present PROVE PurgeInv'
    BY <1>1, <1>2
  <1>3. CASE UNCHANGED vars
    BY <1>2, <1>3 DEF vars
  <1>4. CASE Page
    <2>1. sess'.present = sess.present
      BY <1>4 DEF Page, SaveRow, Enqueue, UpdateProgress, MergeCompletion,
                  PatchCompleted, CompleteSession, RearmedRow, SessionRow
    <2> QED BY <1>2, <1>4, <2>1 DEF Page, SaveRow, Enqueue, UpdateProgress,
                  MergeCompletion, PatchCompleted, CompleteSession
  <1>5. CASE Disturb
    <2>1. ASSUME NEW e \in Engine, ReconcileSkipped(e) PROVE PurgeInv'
      BY <1>1, <2>1 DEF ReconcileSkipped
    <2>2. ASSUME NEW e \in Engine, ConnectionLost(e) PROVE PurgeInv'
      BY <1>1, <2>2 DEF ConnectionLost
    <2>3. CASE ServerSyncLate
      BY <1>2, <2>3 DEF ServerSyncLate
    <2>4. CASE Crash
      BY <1>1, <2>4 DEF Crash, Died
    <2> QED BY <1>5, <2>1, <2>2, <2>3, <2>4 DEF Disturb
  <1>6. ASSUME NEW e \in Engine, Drain(e) PROVE PurgeInv'
    <2>1. CASE StartDrain(e) \/ Reconcile(e) \/ MarkLedger(e) \/ RegisterFailure(e)
      BY <1>1, <2>1 DEF StartDrain, Reconcile, MarkLedger, RegisterFailure
    <2>2. CASE ReadRecords(e)
      <3>1. reply[e] # "ok"
        BY <2>2 DEF ReadRecords, AckInv
      <3> QED BY <1>1, <2>2, <3>1 DEF ReadRecords
    <2>3. CASE ServerSync(e)
      <3> HIDE DEF Completes
      <3>1. RequestOf(e).status = Completes(e)
        BY DEF RequestOf
      <3>2. ASSUME NEW q, Commit(q), q.status PROVE srv'.completed
        BY <3>2 DEF Commit
      <3>3. \A o \in Engine : Completes(o)' = Completes(o)
        BY <2>3 DEF ServerSync, Completes
      <3> QED BY <1>1, <2>3, <3>1, <3>2, <3>3 DEF ServerSync
    <2>4. CASE ReceiveAck(e)
      BY <1>1, <2>4 DEF ReceiveAck
    <2>5. CASE MarkRows(e)
      BY <1>1, <2>5 DEF MarkRows
    <2>6. CASE MarkSession(e)
      <3>1. sess'.present = sess.present
        BY <2>6 DEF MarkSession, SessionRow
      <3> QED BY <1>1, <2>6, <3>1 DEF MarkSession, Return, MayPurge
    <2>7. CASE PurgeSynced(e)
      BY <1>1, <2>7 DEF PurgeSynced, Return
    <2>8. CASE Escalate(e)
      <3>1. sess'.present = sess.present
        BY <2>8 DEF Escalate, SessionRow
      <3> QED BY <1>1, <2>8, <3>1 DEF Escalate, Return
    <2> QED BY <1>6, <2>1, <2>2, <2>3, <2>4, <2>5, <2>6, <2>7, <2>8 DEF Drain
  <1> QED BY <1>3, <1>4, <1>5, <1>6 DEF Next

(* A session the server does not know as completed keeps its row on the    *)
(* device, resumable (the completed gate of syncSession's purge).          *)
THEOREM PurgedIsCompleted == Spec => []PurgedSessionIsCompleted
  <1>1. Init => PurgeInv
    BY DEF Init, PurgeInv
  <1>2. PurgeInv => PurgedSessionIsCompleted
    BY DEF PurgeInv, PurgedSessionIsCompleted
  <1> QED BY SyncInvariant, PurgeStep, <1>1, <1>2, PTL DEF Spec
-----------------------------------------------------------------------------
(***************************************************************************)
(* FilloutSync implements AnswerCustody.                                   *)
(***************************************************************************)

(* Only captured records are read, sent, late or held. *)
CaptureInv ==
    LET captured == {r \in Rec : row[r] # "absent"} IN
    /\ held \subseteq captured
    /\ \A e \in Engine : sent[e] \subseteq captured /\ todo[e] \subseteq captured
    /\ \A q \in late : q.recs \subseteq captured

(* A row, once written, is never absent again. *)
LEMMA RowsStay ==
    ASSUME TypeOK, [Next]_vars
    PROVE  {r \in Rec : row[r] # "absent"} \subseteq {r \in Rec : row'[r] # "absent"}
  <1> USE DEF TypeOK, deviceVars, pageVars, engineVars, serverVars, envVars
  <1>1. CASE UNCHANGED vars
    BY <1>1 DEF vars
  <1>2. CASE Page
    BY <1>2 DEF Page, SaveRow, Enqueue, UpdateProgress, MergeCompletion,
                PatchCompleted, CompleteSession
  <1>3. CASE Disturb
    BY <1>3 DEF Disturb, ReconcileSkipped, ConnectionLost, ServerSyncLate, Crash, Died
  <1>4. ASSUME NEW e \in Engine, Drain(e)
        PROVE  {r \in Rec : row[r] # "absent"} \subseteq {r \in Rec : row'[r] # "absent"}
    BY <1>4 DEF Drain, StartDrain, Reconcile, ReadRecords, ServerSync,
                ReceiveAck, MarkRows, MarkLedger, MarkSession, PurgeSynced,
                RegisterFailure, Escalate
  <1> QED BY <1>1, <1>2, <1>3, <1>4 DEF Next

LEMMA CaptureStep == SyncInv /\ CaptureInv /\ [Next]_vars => CaptureInv'
  <1> SUFFICES ASSUME SyncInv, CaptureInv, [Next]_vars PROVE CaptureInv'
    OBVIOUS
  <1> USE DEF SyncInv, TypeOK, CaptureInv, deviceVars, pageVars, engineVars,
          serverVars, envVars
  <1>1. {r \in Rec : row[r] # "absent"} \subseteq {r \in Rec : row'[r] # "absent"}
    BY RowsStay
  <1>2. ASSUME UNCHANGED <<held, sent, todo>>, late' \subseteq late PROVE CaptureInv'
    BY <1>1, <1>2
  <1>3. CASE UNCHANGED vars
    BY <1>2, <1>3 DEF vars
  <1>4. CASE Page
    BY <1>2, <1>4 DEF Page, SaveRow, Enqueue, UpdateProgress, MergeCompletion,
                      PatchCompleted, CompleteSession
  <1>5. ASSUME NEW e \in Engine, NEW q \in Abandoned(e)
        PROVE  q.recs \subseteq {r \in Rec : row[r] # "absent"}
    BY <1>5 DEF Abandoned, RequestOf
  <1>6. CASE Disturb
    <2>1. ASSUME NEW e \in Engine, ReconcileSkipped(e) PROVE CaptureInv'
      BY <1>2, <2>1 DEF ReconcileSkipped
    <2>2. ASSUME NEW e \in Engine, ConnectionLost(e) PROVE CaptureInv'
      BY <1>1, <1>5, <2>2 DEF ConnectionLost
    <2>3. CASE ServerSyncLate
      BY <1>1, <2>3 DEF ServerSyncLate, Commit
    <2>4. CASE Crash
      <3>1. \A dead \in SUBSET Engine :
               \A q \in InFlight(dead) : q.recs \subseteq {r \in Rec : row[r] # "absent"}
        BY <1>5 DEF InFlight
      <3> QED BY <1>1, <2>4, <3>1 DEF Crash, Died
    <2> QED BY <1>6, <2>1, <2>2, <2>3, <2>4 DEF Disturb
  <1>7. ASSUME NEW e \in Engine, Drain(e) PROVE CaptureInv'
    <2>1. CASE \/ StartDrain(e) \/ Reconcile(e) \/ MarkLedger(e)
               \/ RegisterFailure(e)
      BY <1>2, <2>1 DEF StartDrain, Reconcile, MarkLedger, RegisterFailure
    <2>2. CASE ReadRecords(e)
      BY <1>1, <2>2 DEF ReadRecords, NextChunk, Shippable, Unsynced
    <2>3. CASE ServerSync(e)
      BY <1>1, <2>3 DEF ServerSync, Commit, RequestOf
    <2>4. CASE ReceiveAck(e)
      BY <1>1, <2>4 DEF ReceiveAck, NextChunk
    <2>5. CASE MarkRows(e)
      BY <1>1, <2>5 DEF MarkRows
    <2>6. CASE MarkSession(e) \/ PurgeSynced(e) \/ Escalate(e)
      BY <1>1, <2>6 DEF MarkSession, PurgeSynced, Escalate, Return
    <2> QED BY <1>7, <2>1, <2>2, <2>3, <2>4, <2>5, <2>6 DEF Drain
  <1> QED BY <1>3, <1>4, <1>6, <1>7 DEF Next

(* The refinement mapping: what is on the device, what is on the server.   *)
OnDevice == {r \in Tracked : row[r] \in {"unsynced", "synced"}}
OnServer == held \cap Tracked

(* A commit delivers captured records: those on the device, and those it   *)
(* already purged because the server had them.                             *)
LEMMA CommitDelivers ==
    ASSUME SyncInv, NEW q, Commit(q), UNCHANGED row,
           q.recs \subseteq {r \in Rec : row[r] # "absent"}
    PROVE  Custody!CustodyNext
  <1> DEFINE batch == q.recs \cap Tracked
  <1>1. batch \subseteq OnDevice \cup OnServer
    BY DEF SyncInv, TypeOK, RowState, NoOverMarking, OnDevice, OnServer, Tracked
  <1>2. OnServer' = OnServer \cup batch /\ OnDevice' = OnDevice
    BY DEF Commit, OnDevice, OnServer, Tracked
  <1>3. batch \in SUBSET Tracked
    OBVIOUS
  <1>4. Custody!Deliver(batch)
    BY <1>1, <1>2 DEF Custody!Deliver, OnDevice, OnServer
  <1> QED BY <1>3, <1>4 DEF Custody!CustodyNext

(* A purge releases marked rows only, which the server holds.              *)
LEMMA PurgeReleases ==
    ASSUME SyncInv, NEW e \in Engine, PurgeSynced(e)
    PROVE  Custody!CustodyNext
  (* named by a constant: an action's argument must not change under prime *)
  <1>1. PICK gone : gone = Purgeable \cap Tracked
    OBVIOUS
  <1>2. gone \subseteq OnDevice \cap OnServer
    BY <1>1 DEF SyncInv, Purgeable, OnDevice, OnServer, NoOverMarking, Tracked
  <1>3. OnDevice' = OnDevice \ gone /\ OnServer' = OnServer
    BY <1>1 DEF SyncInv, TypeOK, PurgeSynced, Purgeable, OnDevice, OnServer,
                Tracked, serverVars
  <1>4. Custody!Release(gone)
    BY <1>2, <1>3 DEF Custody!Release, OnDevice, OnServer
  <1> QED BY <1>1, <1>4 DEF Custody!CustodyNext

(* Every step captures, delivers, releases or leaves custody as it is.     *)
LEMMA CustodyStep ==
    SyncInv /\ CaptureInv /\ [Next]_vars => [Custody!CustodyNext]_(Custody!cvars)
  <1> SUFFICES ASSUME SyncInv, CaptureInv, [Next]_vars
               PROVE  Custody!CustodyNext \/ UNCHANGED Custody!cvars
    OBVIOUS
  <1> USE DEF SyncInv, TypeOK, deviceVars, pageVars, engineVars, serverVars,
          envVars
  <1>1. ASSUME OnDevice' = OnDevice, OnServer' = OnServer
        PROVE  UNCHANGED Custody!cvars
    BY <1>1 DEF Custody!cvars, OnDevice, OnServer
  <1>2. ASSUME UNCHANGED <<row, held>> PROVE UNCHANGED Custody!cvars
    BY <1>1, <1>2 DEF OnDevice, OnServer
  <1>3. CASE UNCHANGED vars
    BY <1>2, <1>3 DEF vars
  <1>4. CASE Page
    <2>1. ASSUME NEW r \in Rec, SaveRow(r)
          PROVE  Custody!CustodyNext \/ UNCHANGED Custody!cvars
      <3>1. CASE r \in Tracked
        <4>1. r \notin OnDevice \cup OnServer
          BY <2>1 DEF SaveRow, OnDevice, OnServer, CaptureInv
        <4>2. OnDevice' = OnDevice \cup {r} /\ OnServer' = OnServer
          BY <2>1, <3>1 DEF SaveRow, OnDevice, OnServer, Tracked
        <4>3. Custody!Capture(r)
          BY <4>1, <4>2 DEF Custody!Capture, OnDevice, OnServer
        <4> QED BY <3>1, <4>3 DEF Custody!CustodyNext
      <3>2. CASE r \notin Tracked
        <4>1. OnDevice' = OnDevice /\ OnServer' = OnServer
          BY <2>1, <3>2 DEF SaveRow, OnDevice, OnServer, Tracked
        <4> QED BY <1>1, <4>1
      <3> QED BY <3>1, <3>2
    <2>2. ASSUME NEW r \in Rec, Enqueue(r) PROVE UNCHANGED Custody!cvars
      BY <1>2, <2>2 DEF Enqueue
    <2>3. CASE UpdateProgress \/ MergeCompletion \/ PatchCompleted \/ CompleteSession
      BY <1>2, <2>3 DEF UpdateProgress, MergeCompletion, PatchCompleted,
                        CompleteSession
    <2> QED BY <1>4, <2>1, <2>2, <2>3 DEF Page
  <1>5. CASE Disturb
    <2>1. CASE ServerSyncLate
      <3>1. PICK q \in late : IF Admits(q) THEN Commit(q) ELSE UNCHANGED <<held, srv>>
        BY <2>1 DEF ServerSyncLate
      <3>2. UNCHANGED row
        BY <2>1 DEF ServerSyncLate
      <3>3. CASE Admits(q)
        BY <3>1, <3>2, <3>3, CommitDelivers DEF CaptureInv
      <3>4. CASE ~Admits(q)
        BY <1>2, <3>1, <3>2, <3>4
      <3> QED BY <3>3, <3>4
    <2>2. CASE ~ServerSyncLate
      BY <1>2, <1>5, <2>2 DEF Disturb, ReconcileSkipped, ConnectionLost, Crash, Died
    <2> QED BY <2>1, <2>2
  <1>6. ASSUME NEW e \in Engine, Drain(e)
        PROVE  Custody!CustodyNext \/ UNCHANGED Custody!cvars
    <2>1. CASE \/ StartDrain(e) \/ ReadRecords(e) \/ ReceiveAck(e)
               \/ MarkLedger(e) \/ MarkSession(e) \/ RegisterFailure(e)
               \/ Escalate(e)
      BY <1>2, <2>1 DEF StartDrain, ReadRecords, ReceiveAck, MarkLedger,
                        MarkSession, RegisterFailure, Escalate
    <2>2. CASE Reconcile(e) \/ MarkRows(e)
      <3>1. OnDevice' = OnDevice /\ OnServer' = OnServer
        BY <2>2 DEF Reconcile, MarkRows, Marked, OnDevice, OnServer, Tracked
      <3> QED BY <1>1, <3>1
    <2>3. CASE ServerSync(e)
      <3>1. UNCHANGED row
        BY <2>3 DEF ServerSync
      <3>2. CASE Admits(RequestOf(e))
        <4>1. RequestOf(e).recs = sent[e]
          BY DEF RequestOf
        <4>2. Commit(RequestOf(e))
          BY <2>3, <3>2 DEF ServerSync
        <4> QED BY <3>1, <4>1, <4>2, CommitDelivers DEF CaptureInv
      <3>3. CASE ~Admits(RequestOf(e))
        BY <1>2, <2>3, <3>1, <3>3 DEF ServerSync
      <3> QED BY <3>2, <3>3
    <2>4. CASE PurgeSynced(e)
      BY <2>4, PurgeReleases
    <2> QED BY <1>6, <2>1, <2>2, <2>3, <2>4 DEF Drain
  <1> QED BY <1>3, <1>4, <1>5, <1>6 DEF Next

(* FilloutSync implements AnswerCustody: an answer leaves the device only  *)
(* when the server has it, and nothing reaches the server uncaptured.      *)
THEOREM ImplementsCustody == Spec => CustodyKept
  <1>1. Init => CaptureInv
    BY DEF Init, CaptureInv
  <1>2. Init => Custody!CustodyInit
    <2> SUFFICES ASSUME Init PROVE Custody!CustodyInit
      OBVIOUS
    <2>1. PICK over \in SUBSET OverMarked :
            row = [r \in Rec |-> IF r \in over THEN "synced" ELSE "absent"]
      BY DEF Init
    <2> QED BY <2>1 DEF Init, Custody!CustodyInit, Tracked
  <1> QED BY SyncInvariant, CaptureStep, CustodyStep, <1>1, <1>2, PTL
          DEF Spec, CustodyKept, Custody!CustodySpec
=============================================================================
