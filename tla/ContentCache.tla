---------------------------- MODULE ContentCache ----------------------------
(* The offline copies of a questionnaire's versions on one device, shared   *)
(* by its tabs.  A load caches the published version and prunes the others  *)
(* in the background, while participants start, resume, answer and complete *)
(* sessions pinned to a version.  Media and the server-computed variables   *)
(* of a version, which a prune drops with it, are left out.                 *)
EXTENDS Naturals, FiniteSetsExt

CONSTANTS
    Page,         \* the tabs
    MaxVersion,   \* bound: versions published
    MaxPins       \* bound: sessions started on the device

Version_ == 1 .. MaxVersion
LocalSession == 1 .. MaxPins

ASSUME ContentAssumption == MaxVersion \in Nat \ {0} /\ MaxPins \in Nat

VARIABLES
    published,  \* the version the server answers by code
    cachedRows, \* filloutQuestionnaires: the versions with a row
    opened,     \* a tab: [step, version to start, session it runs]
    pins,       \* filloutSessions: [pin, status, synced, owing]
    started,    \* sessions started so far
    prune,      \* a tab's pruneDefinitions: [step, rows, keep]
    strays      \* history: sessions started on a version already superseded
                \* here, or worked on by one tab after another completed them

contentVars == <<published, cachedRows, opened, pins, started, prune, strays>>

NoSession == [pin |-> 0, status |-> "none", synced |-> TRUE, owing |-> FALSE]
NoPrune == [step |-> "idle", rows |-> {}, keep |-> {}]
ClosedPage == [step |-> "closed", version |-> 0, session |-> 0]

ContentTypeOK ==
    /\ published \in Version_ /\ cachedRows \subseteq Version_
    /\ opened \in [Page ->
            [step : {"closed", "fetched", "welcome", "running", "done"},
             version : 0 .. MaxVersion, session : 0 .. MaxPins]]
    /\ pins \in [LocalSession -> [pin : 0 .. MaxVersion,
                                  status : {"none", "active", "completed", "purged"},
                                  synced : BOOLEAN, owing : BOOLEAN]]
    /\ started \in 0 .. MaxPins
    /\ prune \in [Page -> [step : {"idle", "queued", "rows", "deleting"},
                           rows : SUBSET Version_, keep : SUBSET Version_]]
    /\ strays \subseteq LocalSession

ContentInit ==
    /\ published = 1 /\ cachedRows = {} /\ started = 0 /\ strays = {}
    /\ opened = [t \in Page |-> ClosedPage]
    /\ pins = [s \in LocalSession |-> NoSession]
    /\ prune = [t \in Page |-> NoPrune]

-----------------------------------------------------------------------------
Publish ==
    /\ published < MaxVersion /\ published' = published + 1
    /\ UNCHANGED <<cachedRows, opened, pins, started, prune, strays>>

FetchLatest(t) ==
    /\ opened[t].step = "closed"
    /\ opened' = [opened EXCEPT ![t] = [@ EXCEPT !.step = "fetched", !.version = published]]
    /\ UNCHANGED <<published, cachedRows, pins, started, prune, strays>>

(* What the page does with the version it has loaded: findActiveSession     *)
(* finds some active session, and the page takes its version, cached or     *)
(* not, and the session itself when it has answers, which are left out.     *)
Resolved(v) ==
    LET active == {s \in LocalSession : pins[s].status = "active"} IN
    IF active = {} THEN {[step |-> "welcome", version |-> v, session |-> 0]}
    ELSE {[step |-> "running", version |-> 0, session |-> s] : s \in active} \cup
         {[step |-> "welcome", version |-> pins[s].pin, session |-> 0] : s \in active}

(* cacheQuestionnaire is awaited; the prune that follows is not.            *)
CacheVersion(t) ==
    /\ opened[t].step = "fetched"
    /\ cachedRows' = cachedRows \cup {opened[t].version}
    /\ \E next \in Resolved(opened[t].version) : opened' = [opened EXCEPT ![t] = next]
    /\ prune' = [prune EXCEPT ![t].step = "queued"]
    /\ UNCHANGED <<published, pins, started, strays>>

LoadOffline(t) ==
    /\ opened[t].step = "closed" /\ cachedRows # {}
    /\ \E next \in Resolved(Max(cachedRows)) : opened' = [opened EXCEPT ![t] = next]
    /\ UNCHANGED <<published, cachedRows, pins, started, prune, strays>>

(* A session that is active or has unsynced data.                           *)
Needs(s) ==
    \/ pins[s].status = "active"
    \/ pins[s].status = "completed" /\ (~pins[s].synced \/ pins[s].owing)

(* Online the row is stored as synced, offline it waits for a create.       *)
StartPinned(t) ==
    /\ opened[t].step = "welcome" /\ started < MaxPins
    /\ started' = started + 1
    /\ LET v == opened[t].version IN
        /\ \E online \in BOOLEAN : pins' = [pins EXCEPT ![started'] =
                [NoSession EXCEPT !.pin = v, !.status = "active", !.synced = online]]
        /\ strays' = IF \E u \in cachedRows : u > v
                     THEN strays \cup {started'} ELSE strays
    /\ opened' = [opened EXCEPT ![t] =
            [step |-> "running", version |-> 0, session |-> started']]
    /\ UNCHANGED <<published, cachedRows, prune>>

(* Tabs may run one session: another may have completed it already.         *)
StraysAfter(t) ==
    IF pins[opened[t].session].status = "active" THEN strays
    ELSE strays \cup {opened[t].session}

AnswerPinned(t) ==
    /\ opened[t].step = "running" /\ pins[opened[t].session].status # "purged"
    /\ pins' = [pins EXCEPT ![opened[t].session] =
            [@ EXCEPT !.owing = TRUE, !.synced = FALSE]]
    /\ strays' = StraysAfter(t)
    /\ UNCHANGED <<published, cachedRows, opened, started, prune>>

(* handleComplete prunes too, again without waiting.                        *)
CompletePinned(t) ==
    /\ opened[t].step = "running"
    /\ pins' = IF pins[opened[t].session].status = "purged" THEN pins
               ELSE [pins EXCEPT ![opened[t].session] =
                        [@ EXCEPT !.status = "completed", !.synced = FALSE]]
    /\ strays' = StraysAfter(t)
    /\ opened' = [opened EXCEPT ![t] = [ClosedPage EXCEPT !.step = "done"]]
    /\ prune' = [prune EXCEPT ![t].step = IF @ = "idle" THEN "queued" ELSE @]
    /\ UNCHANGED <<published, cachedRows, started>>

(* The upload marks the answers, then the row, and purges what is complete. *)
UploadPinned(s) ==
    /\ \/ /\ pins[s].status \in {"active", "completed"} /\ pins[s].owing
          /\ pins' = [pins EXCEPT ![s].owing = FALSE]
       \/ /\ pins[s].status \in {"active", "completed"} /\ ~pins[s].synced
          /\ pins' = [pins EXCEPT ![s].synced = TRUE]
       \/ /\ pins[s].status = "completed" /\ ~Needs(s)
          /\ pins' = [pins EXCEPT ![s].status = "purged"]
    /\ UNCHANGED <<published, cachedRows, opened, started, prune, strays>>

(* A closed tab, or a reload, ends what it runs in the background.          *)
ClosePage(t) ==
    /\ opened[t].step # "closed"
    /\ opened' = [opened EXCEPT ![t] = ClosedPage]
    /\ prune' = [prune EXCEPT ![t] = NoPrune]
    /\ UNCHANGED <<published, cachedRows, pins, started, strays>>

-----------------------------------------------------------------------------
(* pruneDefinitions: it awaits the rows, then the sessions.                 *)
ReadRows(t) ==
    /\ prune[t].step = "queued"
    /\ prune' = [prune EXCEPT ![t] = [@ EXCEPT !.step = "rows", !.rows = cachedRows]]
    /\ UNCHANGED <<published, cachedRows, opened, pins, started, strays>>

(* protectedVersionKeys: the versions of the sessions that need them.  What *)
(* a session owes is read a moment after its status; one whose upload ends  *)
(* between the two needs nothing, so one step stands for both reads.        *)
ReadSessions(t) ==
    /\ prune[t].step = "rows"
    /\ prune' = [prune EXCEPT ![t] = [@ EXCEPT !.step = "deleting",
            !.keep = {pins[s].pin : s \in {r \in LocalSession : Needs(r)}}]]
    /\ UNCHANGED <<published, cachedRows, opened, pins, started, strays>>

FaultyDoomed(t) == cachedRows \ (prune[t].keep \cup {Max(cachedRows)})

(* Of the rows it read, all but the protected and the newest go.            *)
Doomed(t) ==
    (prune[t].rows \cap cachedRows) \ (prune[t].keep \cup {Max(prune[t].rows)})

DeleteRow(t) ==
    /\ prune[t].step = "deleting"
    /\ IF Doomed(t) = {}
       THEN prune' = [prune EXCEPT ![t] = NoPrune] /\ UNCHANGED cachedRows
       ELSE /\ \E v \in Doomed(t) : cachedRows' = cachedRows \ {v}
            /\ UNCHANGED prune
    /\ UNCHANGED <<published, opened, pins, started, strays>>

ContentNext ==
    \/ Publish
    \/ \E t \in Page :
        \/ FetchLatest(t) \/ CacheVersion(t) \/ LoadOffline(t)
        \/ StartPinned(t) \/ AnswerPinned(t) \/ CompletePinned(t) \/ ClosePage(t)
        \/ ReadRows(t) \/ ReadSessions(t) \/ DeleteRow(t)
    \/ \E s \in LocalSession : UploadPinned(s)

ContentSpec == ContentInit /\ [][ContentNext]_contentVars

-----------------------------------------------------------------------------
(* The version a session was started on stays on the device while the       *)
(* session is active or owes data, whatever the prunes of this and other    *)
(* tabs had read; except of a session started from a page superseded by     *)
(* then, or still worked on in a second tab after its completion.           *)
PinnedVersionIsCached ==
    \A s \in LocalSession \ strays : Needs(s) => pins[s].pin \in cachedRows
=============================================================================
