---------------------------- MODULE DesignerSave ----------------------------
(* How an author's tab saves its questionnaire over REST, before a          *)
(* collaboration room takes over: the debounced save, the autosave timer    *)
(* and the author's own save and publish, all through saveQuestionnaire;    *)
(* the service worker, which queues what the network refused, answers 202   *)
(* and replays it later; and the server's rows with their version history.  *)
(* A content is the number of the edit it ends with.  Each trigger has one  *)
(* save under way at most.  Undo, what the drafts hold and leaving the page *)
(* are left out.                                                            *)
EXTENDS Naturals, Sequences, FiniteSetsExt

CONSTANTS
    Name,         \* names a questionnaire can have in its project
    MaxRetry,     \* MAX_RETRY_COUNT
    MaxEdits,     \* bound: edits
    MaxRequests,  \* bound: saves and publications the author asks for
    MaxFaults     \* bound: lost connections, server errors, failed drafts

Trigger == {"edit", "tick", "author"}

ASSUME DesignerAssumption ==
    /\ Name # {} /\ MaxRetry \in Nat \ {0}
    /\ MaxEdits \in Nat /\ MaxRequests \in Nat /\ MaxFaults \in Nat

VARIABLES
    edition, docName, docId,   \* the document: its edit, name and row (0: none)
    isDirty, isLoading,        \* what the header shows
    debounce, timer,           \* armed: save-on-edit, autosave
    createInFlight,            \* who owns the single-flight create
    blocked,                   \* blockedCreateSignature: the names it stands for
    call,                      \* a trigger's save
    outbox, replay,            \* pending-requests; entries a sync still has
    definitions, history,      \* questionnaire_definitions, questionnaire_versions
    landed,                    \* what saves have stored, for the property
    requests, faults           \* what the bounds count

docVars == <<edition, docName, docId>>
flagVars == <<isDirty, isLoading>>
armedVars == <<debounce, timer>>
createVars == <<createInFlight, blocked>>
outboxVars == <<outbox, replay>>
tableVars == <<definitions, history, landed>>
designerVars == <<docVars, flagVars, armedVars, createVars, call, outboxVars,
                  tableVars, requests, faults>>

Nobody == "nobody"
Edition == 0 .. MaxEdits
RequestKind == {"none", "create", "update", "publish"}
SaveStep == {"idle", "drafting", "waiting", "resumed", "sent", "ok", "queued",
             "refused", "listing"}
NoCall == [step |-> "idle", kind |-> "none", row |-> 0, name |-> "none", body |-> 0,
           on |-> Nobody, publish |-> FALSE]

(* A request as it is sent, queued and replayed, when there are n rows.     *)
Requests(n) ==
    [kind : RequestKind \ {"none"}, row : 0 .. n, name : Name, body : Edition]
Request(kind, row) == [kind |-> kind, row |-> row, name |-> docName, body |-> edition]
Definition(name, version, body) == [name |-> name, version |-> version, content |-> body]

DesignerTypeOK ==
    /\ edition \in Edition /\ docName \in Name /\ docId \in 0 .. Len(definitions)
    /\ isDirty \in BOOLEAN /\ isLoading \in BOOLEAN
    /\ debounce \in BOOLEAN /\ timer \in BOOLEAN
    /\ createInFlight \in Trigger \cup {Nobody} /\ blocked \subseteq Name
    /\ call \in [Trigger -> [step : SaveStep, kind : RequestKind,
                             row : 0 .. Len(definitions), name : Name \cup {"none"},
                             body : Edition, on : Trigger \cup {Nobody},
                             publish : BOOLEAN]]
    /\ \A e \in outbox \cup replay :
            e.tries \in 0 .. MaxRetry - 1 /\ e.req \in Requests(Len(definitions))
    /\ definitions \in Seq([name : Name, version : Nat \ {0}, content : Edition])
    /\ requests \in 0 .. MaxRequests /\ faults \in 0 .. MaxFaults

(* The tab opens a questionnaire it saved, or a new one whose create failed *)
(* or was queued.  Another author may have one of the same name, at the     *)
(* version a create or the first update would take.                         *)
DesignerInit ==
    /\ docName = (CHOOSE n \in Name : TRUE) /\ edition = 0
    /\ \E saved \in BOOLEAN, createQueued \in BOOLEAN, foreign \in BOOLEAN :
        /\ saved => ~createQueued
        /\ definitions =
                (IF foreign THEN <<Definition(docName, IF saved THEN 2 ELSE 1, 0)>> ELSE <<>>)
                \o (IF saved THEN <<Definition(docName, 1, 0)>> ELSE <<>>)
        /\ docId = IF saved THEN Len(definitions) ELSE 0
        /\ landed = IF saved THEN {<<docId, 0>>} ELSE {}
        /\ outbox = IF createQueued
                    THEN {[id |-> 1, tries |-> 0, req |-> Request("create", 0)]}
                    ELSE {}
    /\ isDirty = FALSE /\ isLoading = FALSE /\ debounce = FALSE /\ timer = FALSE
    /\ createInFlight = Nobody /\ blocked = {} /\ call = [c \in Trigger |-> NoCall]
    /\ replay = {} /\ history = {} /\ requests = 0 /\ faults = 0

-----------------------------------------------------------------------------
(* The server.  UNIQUE(project_id, name, version) refuses a create with a   *)
(* conflict, and with an error an update that would reach the version       *)
(* another row of the name has.                                             *)
NameTaken(name, version, but) ==
    \E r \in DOMAIN definitions \ {but} :
        definitions[r].name = name /\ definitions[r].version = version

FaultyNextVersion(r) == definitions[r].version

NextVersion(r) == definitions[r].version + 1

Applicable(req) ==
    CASE req.kind = "create" -> ~NameTaken(req.name, 1, 0)
      [] req.kind = "update" -> ~NameTaken(req.name, NextVersion(req.row), req.row)
      [] OTHER -> TRUE

(* snapshot_questionnaire_version: the first snapshot of a version stays.   *)
TakeSnapshot(r) ==
    IF \E s \in history : s[1] = r /\ s[2] = definitions[r].version THEN history
    ELSE history \cup {<<r, definitions[r].version, definitions[r].content>>}

Apply(req) ==
    CASE req.kind = "create" ->
            /\ definitions' = Append(definitions, Definition(req.name, 1, req.body))
            /\ landed' = landed \cup {<<Len(definitions) + 1, req.body>>}
            /\ UNCHANGED history
      [] req.kind = "update" ->
            /\ definitions' = [definitions EXCEPT ![req.row] =
                    Definition(req.name, NextVersion(req.row), req.body)]
            /\ history' = TakeSnapshot(req.row)
            /\ landed' = landed \cup {<<req.row, req.body>>}
      [] OTHER -> history' = TakeSnapshot(req.row) /\ UNCHANGED <<definitions, landed>>

-----------------------------------------------------------------------------
(* Promise continuations run before anything else happens: while a waiter   *)
(* of an ended create has not gone on, nothing else does.                   *)
Settled == \A c \in Trigger : call[c].step # "resumed"

Fault == faults < MaxFaults /\ faults' = faults + 1

Sent(kind, row, publish) ==
    [step |-> "sent", kind |-> kind, row |-> row, name |-> docName, body |-> edition,
     on |-> Nobody, publish |-> publish]

(* saveQuestionnaire from its decision on: c updates the row, or creates it *)
(* unless the name is blocked.                                              *)
Decide(c, publish) ==
    IF docId # 0
    THEN /\ call' = [call EXCEPT ![c] = Sent("update", docId, publish)]
         /\ isLoading' = TRUE /\ UNCHANGED createInFlight
    ELSE IF docName \in blocked
    THEN /\ call' = [call EXCEPT ![c] = NoCall]
         /\ UNCHANGED <<isLoading, createInFlight>>
    ELSE /\ call' = [call EXCEPT ![c] = Sent("create", 0, publish)]
         /\ isLoading' = TRUE /\ createInFlight' = c

(* saveQuestionnaire: wait for a create under way, then decide.             *)
SaveQuestionnaire(c, publish) ==
    IF docId = 0 /\ createInFlight # Nobody
    THEN /\ call' = [call EXCEPT ![c] =
                        [NoCall EXCEPT !.step = "waiting", !.on = createInFlight,
                                       !.publish = publish]]
         /\ UNCHANGED <<isLoading, createInFlight>>
    ELSE Decide(c, publish)

ResumeSave(c) ==
    /\ call[c].step = "resumed"
    /\ Decide(c, call[c].publish)
    /\ UNCHANGED <<docVars, isDirty, armedVars, blocked, outboxVars, tableVars, requests,
                   faults>>

(* An edit arms both timers; it may change the name.                        *)
EditDocument ==
    /\ Settled /\ edition < MaxEdits
    /\ edition' = edition + 1 /\ docName' \in Name
    /\ isDirty' = TRUE /\ debounce' = TRUE /\ timer' = TRUE
    /\ UNCHANGED <<docId, isLoading, createVars, call, outboxVars, tableVars, requests,
                   faults>>

DebounceFires ==
    /\ Settled /\ debounce /\ call["edit"].step = "idle"
    /\ debounce' = FALSE
    /\ IF isDirty /\ ~isLoading THEN SaveQuestionnaire("edit", FALSE)
       ELSE UNCHANGED <<call, isLoading, createInFlight>>
    /\ UNCHANGED <<docVars, isDirty, timer, blocked, outboxVars, tableVars, requests,
                   faults>>

(* performAutoSave: a tick during another autosave does nothing.            *)
TickFires ==
    /\ Settled /\ timer /\ timer' = FALSE
    /\ IF call["tick"].step = "idle"
       THEN call' = [call EXCEPT !["tick"].step = "drafting"]
       ELSE UNCHANGED call
    /\ UNCHANGED <<docVars, flagVars, debounce, createVars, outboxVars, tableVars,
                   requests, faults>>

(* Once the draft is stored the document is saved to the server too, unless *)
(* the browser is offline.                                                  *)
DraftStored ==
    /\ Settled /\ call["tick"].step = "drafting"
    /\ SaveQuestionnaire("tick", FALSE)
    /\ UNCHANGED <<docVars, isDirty, armedVars, blocked, outboxVars, tableVars, requests,
                   faults>>

DraftFailsOrOffline ==
    /\ Settled /\ call["tick"].step = "drafting" /\ Fault
    /\ call' = [call EXCEPT !["tick"] = NoCall]
    /\ UNCHANGED <<docVars, flagVars, armedVars, createVars, outboxVars, tableVars,
                   requests>>

(* Ctrl+S is always possible, the publish button not while a save runs.     *)
AuthorSaves(publish) ==
    /\ Settled /\ call["author"].step = "idle" /\ requests < MaxRequests
    /\ publish => ~isLoading
    /\ requests' = requests + 1
    /\ SaveQuestionnaire("author", publish)
    /\ UNCHANGED <<docVars, isDirty, armedVars, blocked, outboxVars, tableVars, faults>>

-----------------------------------------------------------------------------
(* The network.                                                             *)
Serve(c) ==
    /\ Settled /\ call[c].step = "sent"
    /\ IF Applicable(call[c])
       THEN /\ Apply(call[c])
            /\ call' = [call EXCEPT ![c].step = "ok",
                    ![c].row = IF call[c].kind = "create" THEN Len(definitions') ELSE @]
       ELSE call' = [call EXCEPT ![c].step = "refused"] /\ UNCHANGED tableVars
    /\ UNCHANGED <<docVars, flagVars, armedVars, createVars, outboxVars, requests, faults>>

ServerError(c) ==
    /\ Settled /\ call[c].step = "sent" /\ Fault
    /\ call' = [call EXCEPT ![c].step = "refused"]
    /\ UNCHANGED <<docVars, flagVars, armedVars, createVars, outboxVars, tableVars,
                   requests>>

(* The queue's keys increase.                                               *)
NextEntry == Max({e.id : e \in outbox} \cup {0}) + 1

(* fetchWithOfflineQueue: the request did not arrive, or its answer was     *)
(* lost; the page is answered 202 with no id.                               *)
ConnectionLost(c) ==
    /\ Settled /\ call[c].step \in {"sent", "ok", "refused"} /\ Fault
    /\ outbox' = outbox \cup {[id |-> NextEntry, tries |-> 0,
            req |-> [kind |-> call[c].kind, name |-> call[c].name,
                     body |-> call[c].body,
                     row |-> IF call[c].kind = "create" THEN 0 ELSE call[c].row]]}
    /\ call' = [call EXCEPT ![c].step = "queued", ![c].row = 0]
    /\ UNCHANGED <<docVars, flagVars, armedVars, createVars, replay, tableVars, requests>>

(* The end of c's part in a create: its waiters go on.                      *)
Ended(c, next) ==
    /\ call' = [w \in Trigger |->
            IF w = c THEN next
            ELSE IF call[w].step = "waiting" /\ call[w].on = c
            THEN [call[w] EXCEPT !.step = "resumed"] ELSE call[w]]
    /\ createInFlight' = IF createInFlight = c THEN Nobody ELSE createInFlight

(* A save the page takes for done, whether the server has it or the queue.  *)
(* Its row becomes the document's if there was none; the id that appears in *)
(* the document may arm the autosave.  A publication goes on.               *)
SaveSucceeds(c) ==
    /\ Settled /\ call[c].step \in {"ok", "queued"}
    /\ call[c].kind \in {"create", "update"}
    /\ docId' = IF docId = 0 /\ call[c].kind = "create" THEN call[c].row ELSE docId
    /\ timer' \in IF docId' # docId THEN {timer, TRUE} ELSE {timer}
    /\ blocked' = IF call[c].kind = "create" THEN {} ELSE blocked
    /\ isDirty' = FALSE /\ isLoading' = FALSE /\ debounce' = FALSE
    /\ Ended(c, IF call[c].publish /\ docId' # 0
                THEN [call[c] EXCEPT !.step = "sent", !.kind = "publish", !.row = docId']
                ELSE NoCall)
    /\ UNCHANGED <<edition, docName, outboxVars, tableVars, requests, faults>>

(* A failed save.  A create that finds an id by then becomes an update; one *)
(* that does not asks whether the name is taken.                            *)
SaveFails(c) ==
    /\ Settled /\ call[c].step = "refused"
    /\ \/ /\ call[c].kind = "update" /\ isLoading' = FALSE
          /\ Ended(c, NoCall)
       \/ /\ call[c].kind = "create" /\ docId # 0 /\ isLoading' = TRUE
          /\ call' = [call EXCEPT ![c] = Sent("update", docId, @.publish)]
          /\ UNCHANGED createInFlight
       \/ /\ call[c].kind = "create" /\ docId = 0
          /\ call' = [call EXCEPT ![c].step = "listing"]
          /\ UNCHANGED <<isLoading, createInFlight>>
    /\ UNCHANGED <<docVars, isDirty, armedVars, blocked, outboxVars, tableVars, requests,
                   faults>>

(* createConflictExists: the list of the project's questionnaires, or none  *)
(* when it fails.  A row of the name is not adopted.                        *)
ListAnswered(c) ==
    /\ Settled /\ call[c].step = "listing"
    /\ \/ /\ UNCHANGED faults
          /\ blocked' = IF \E r \in DOMAIN definitions : definitions[r].name = docName
                        THEN {docName} ELSE blocked
       \/ Fault /\ UNCHANGED blocked
    /\ isLoading' = FALSE
    /\ Ended(c, NoCall)
    /\ UNCHANGED <<docVars, isDirty, armedVars, outboxVars, tableVars, requests>>

PublishEnds(c) ==
    /\ Settled /\ call[c].kind = "publish"
    /\ call[c].step \in {"ok", "queued", "refused"}
    /\ call' = [call EXCEPT ![c] = NoCall]
    /\ UNCHANGED <<docVars, flagVars, armedVars, createVars, outboxVars, tableVars,
                   requests, faults>>

-----------------------------------------------------------------------------
(* The service worker's sync, when the browser fires it: the entries it     *)
(* reads, one after the other in the order of their keys.                   *)
SyncFires ==
    /\ Settled /\ outbox # {} /\ replay = {} /\ replay' = outbox
    /\ UNCHANGED <<docVars, flagVars, armedVars, createVars, call, outbox, tableVars,
                   requests, faults>>

Dropped(e) == {q \in outbox : q.id # e.id}

(* A failed replay stays in the queue, until the last.                      *)
Retried(e) ==
    IF e.tries + 1 >= MaxRetry THEN Dropped(e)
    ELSE Dropped(e) \cup {[e EXCEPT !.tries = @ + 1]}

(* An answer below 500 ends an entry, a conflict and a stale token too; the *)
(* answer of a replay that was applied may be lost.                         *)
ReplayEntry(e) ==
    /\ Settled /\ e \in replay /\ \A q \in replay : e.id <= q.id
    /\ replay' = replay \ {e}
    /\ LET fits == Applicable(e.req) IN
        \/ /\ fits /\ Apply(e.req)
           /\ \/ outbox' = Dropped(e) /\ UNCHANGED faults
              \/ outbox' = Retried(e) /\ Fault
        \/ /\ ~fits /\ UNCHANGED <<tableVars, faults>>
           /\ outbox' = IF e.req.kind = "create" THEN Dropped(e) ELSE Retried(e)
        \/ Fault /\ outbox' \in {Dropped(e), Retried(e)} /\ UNCHANGED tableVars
    /\ UNCHANGED <<docVars, flagVars, armedVars, createVars, call, requests>>

DesignerNext ==
    \/ EditDocument \/ DebounceFires \/ TickFires \/ DraftStored \/ DraftFailsOrOffline
    \/ \E publish \in BOOLEAN : AuthorSaves(publish)
    \/ \E c \in Trigger :
        \/ ResumeSave(c) \/ Serve(c) \/ ServerError(c) \/ ConnectionLost(c)
        \/ SaveSucceeds(c) \/ SaveFails(c) \/ ListAnswered(c) \/ PublishEnds(c)
    \/ SyncFires \/ \E e \in replay : ReplayEntry(e)

DesignerSpec == DesignerInit /\ [][DesignerNext]_designerVars

-----------------------------------------------------------------------------
(* What a save stored is the row's content or in its version history,       *)
(* whatever overlapping saves, publications and late or repeated replays    *)
(* write over it (snapshot_questionnaire_version).                          *)
AcceptedIsKept ==
    \A s \in landed :
        \/ definitions[s[1]].content = s[2]
        \/ \E v \in history : v[1] = s[1] /\ v[3] = s[2]
=============================================================================
