---------------------------- MODULE SeriesWaves -----------------------------
(* A longitudinal study: one enrollment, its waves and their reminders.     *)
(* Schedulers of several server instances scan the due prompts and claim    *)
(* each before they mail it.  Pages, each with a session of its own, run    *)
(* the wave the enrollment points at and post its completion, whose         *)
(* transaction marks the wave, makes the next one of an event schedule and  *)
(* moves the pointer.  next_prompt_at is only shown, nothing tells an       *)
(* opened prompt from a delivered one: both are left out.                   *)
EXTENDS Naturals, FiniteSets, FiniteSetsExt

CONSTANTS
    WaveCount,
    Kinds,       \* schedule_kind of the series: "fixed" (or random), "event"
    PageCount,   \* bound: pages that open the link, named in their order
    Instance,    \* server instances, each with its scheduler
    Unknown,     \* the wave of a page whose token could not be resolved
    MaxMishaps   \* bound: crashes, failed mails, rollbacks, opt-outs and tokens
                 \* that are not resolved

Wave == 0 .. WaveCount - 1
RunPage == 1 .. PageCount
Unbound == 0

ASSUME SeriesAssumption ==
    /\ WaveCount \in Nat \ {0} /\ Kinds \subseteq {"fixed", "event"}
    /\ Unknown \notin Nat /\ PageCount \in Nat /\ MaxMishaps \in Nat

VARIABLES
    kind,       \* study_series.schedule_kind
    enrolled,   \* series_enrollment.status, "none" before it is enrolled
    pointer,    \* current_wave_index
    prompt,     \* series_prompt.status of each wave, "none" without a row
    boundTo,    \* series_prompt.session_id
    due,        \* waves whose scheduled_at has passed
    scanned,    \* what a scheduler's tick still has to claim
    mailing,    \* the claimed prompt a scheduler is sending
    mailed,     \* history: reminders sent for a wave
    runPage,    \* a page: [step, wave]
    completing, \* a completion's transaction: [wave, next], the pointer it read
    mishaps

enrollVars == <<enrolled, pointer, prompt, boundTo>>
mailVars == <<scanned, mailing, mailed>>
runVars == <<runPage, completing>>
seriesVars == <<kind, enrollVars, due, mailVars, runVars, mishaps>>

NoWave == WaveCount
NoCompletion == [wave |-> NoWave, next |-> NoWave]
Steps == {"closed", "running", "posting", "marked", "done"}

SeriesTypeOK ==
    /\ kind \in Kinds \cup {"fixed"}
    /\ enrolled \in {"none", "active", "completed", "withdrawn"}
    /\ pointer \in Wave
    /\ prompt \in [Wave -> {"none", "pending", "delivered", "completed"}]
    /\ boundTo \in [Wave -> RunPage \cup {Unbound}]
    /\ due \subseteq Wave
    /\ scanned \in [Instance -> SUBSET Wave]
    /\ mailing \in [Instance -> Wave \cup {NoWave}]
    /\ mailed \in [Wave -> Nat]
    /\ runPage \in [RunPage -> [step : Steps, wave : Wave \cup {Unknown}]]
    /\ completing \in [RunPage -> [wave : 0 .. NoWave, next : 0 .. NoWave]]
    /\ mishaps \in 0 .. MaxMishaps

SeriesInit ==
    /\ kind = "fixed" /\ enrolled = "none" /\ pointer = 0
    /\ prompt = [w \in Wave |-> "none"] /\ boundTo = [w \in Wave |-> Unbound]
    /\ due = {} /\ mailed = [w \in Wave |-> 0]
    /\ scanned = [i \in Instance |-> {}] /\ mailing = [i \in Instance |-> NoWave]
    /\ runPage = [p \in RunPage |-> [step |-> "closed", wave |-> Unknown]]
    /\ completing = [p \in RunPage |-> NoCompletion] /\ mishaps = 0

Mishap == mishaps < MaxMishaps /\ mishaps' = mishaps + 1

-----------------------------------------------------------------------------
(* The row of a prompt is locked from a completion's mark to its commit.    *)
PromptLocked(w) == \E p \in RunPage : runPage[p].step = "marked" /\ completing[p].wave = w

(* A participant is enrolled into a series of some kind: a fixed or random  *)
(* schedule makes all prompts, an event schedule the first; offsets ascend  *)
(* with the waves.                                                          *)
Enroll ==
    /\ enrolled = "none" /\ enrolled' = "active" /\ pointer' = 0
    /\ kind' \in Kinds
    /\ prompt' = [w \in Wave |->
            IF kind' = "fixed" \/ w = 0 THEN "pending" ELSE "none"]
    /\ UNCHANGED <<boundTo, due, mailVars, runVars, mishaps>>

TimePasses(w) ==
    /\ prompt[w] # "none" /\ w \notin due /\ \A v \in Wave : v < w => v \in due
    /\ due' = due \cup {w}
    /\ UNCHANGED <<kind, enrollVars, mailVars, runVars, mishaps>>

(* series_due_prompts: a tick reads the due set of active enrollments.      *)
Scan(i) ==
    /\ scanned[i] = {} /\ mailing[i] = NoWave /\ enrolled = "active"
    /\ {w \in due : prompt[w] = "pending"} # {}
    /\ scanned' = [scanned EXCEPT ![i] = {w \in due : prompt[w] = "pending"}]
    /\ UNCHANGED <<kind, enrollVars, due, mailing, mailed, runVars, mishaps>>

FaultyClaim(i) ==
    /\ scanned[i] # {} /\ mailing[i] = NoWave
    /\ LET w == Min(scanned[i]) IN
        /\ ~PromptLocked(w)
        /\ scanned' = [scanned EXCEPT ![i] = @ \ {w}]
        /\ mailing' = [mailing EXCEPT ![i] = w]
        /\ prompt' = [prompt EXCEPT ![w] = IF @ = "pending" THEN "delivered" ELSE @]
    /\ UNCHANGED <<kind, enrolled, pointer, boundTo, due, mailed, runVars, mishaps>>

(* series_mark_delivered: only the winner of pending -> delivered sends.    *)
Claim(i) ==
    /\ scanned[i] # {} /\ mailing[i] = NoWave
    /\ LET w == Min(scanned[i]) IN
        /\ ~PromptLocked(w)
        /\ scanned' = [scanned EXCEPT ![i] = @ \ {w}]
        /\ IF prompt[w] = "pending"
           THEN /\ prompt' = [prompt EXCEPT ![w] = "delivered"]
                /\ mailing' = [mailing EXCEPT ![i] = w]
           ELSE UNCHANGED <<prompt, mailing>>
    /\ UNCHANGED <<kind, enrolled, pointer, boundTo, due, mailed, runVars, mishaps>>

(* A mail that fails is logged, never sent again.                           *)
Mail(i) ==
    /\ mailing[i] # NoWave
    /\ mailing' = [mailing EXCEPT ![i] = NoWave]
    /\ \/ mailed' = [mailed EXCEPT ![mailing[i]] = @ + 1] /\ UNCHANGED mishaps
       \/ Mishap /\ UNCHANGED mailed
    /\ UNCHANGED <<kind, enrollVars, due, scanned, runVars>>

CrashInstance(i) ==
    /\ scanned[i] # {} \/ mailing[i] # NoWave
    /\ Mishap
    /\ scanned' = [scanned EXCEPT ![i] = {}] /\ mailing' = [mailing EXCEPT ![i] = NoWave]
    /\ UNCHANGED <<kind, enrollVars, due, mailed, runVars>>

-----------------------------------------------------------------------------
(* The next page opens the link.                                            *)
MayOpen(p) ==
    /\ enrolled # "none" /\ runPage[p].step = "closed"
    /\ \A q \in 1 .. p - 1 : runPage[q].step # "closed"

(* resolve_prompt names the current wave; the page runs it when the         *)
(* enrollment is active and the wave is due.                                *)
OpenLink(p) ==
    /\ MayOpen(p) /\ enrolled = "active" /\ pointer \in due
    /\ runPage' = [runPage EXCEPT ![p] = [step |-> "running", wave |-> pointer]]
    /\ UNCHANGED <<kind, enrollVars, due, mailVars, completing, mishaps>>

(* Offline, or when the resolve fails, it is a plain fillout with a token.  *)
OpenUnresolved(p) ==
    /\ MayOpen(p) /\ Mishap
    /\ runPage' = [runPage EXCEPT ![p] = [step |-> "running", wave |-> Unknown]]
    /\ UNCHANGED <<kind, enrollVars, due, mailVars, completing>>

FaultyPostCompletion(p) ==
    /\ runPage[p].step = "running"
    /\ runPage' = [runPage EXCEPT ![p].step = "posting"]
    /\ completing' = [completing EXCEPT ![p].wave = pointer]
    /\ UNCHANGED <<kind, enrollVars, due, mailVars, mishaps>>

(* handleComplete posts, and complete_prompt reads the enrollment: it takes *)
(* the current wave when the page names none.  A page that is screened out, *)
(* whose callback is lost, or refused for a session the server does not     *)
(* have yet, stays where it is: nobody posts again.                         *)
PostCompletion(p) ==
    /\ runPage[p].step = "running"
    /\ runPage' = [runPage EXCEPT ![p].step = "posting"]
    /\ completing' = [completing EXCEPT ![p].wave =
            IF runPage[p].wave = Unknown THEN pointer ELSE runPage[p].wave]
    /\ UNCHANGED <<kind, enrollVars, due, mailVars, mishaps>>

RollBackCompletion(p) ==
    /\ runPage[p].step \in {"posting", "marked"} /\ Mishap
    /\ runPage' = [runPage EXCEPT ![p].step = "done"]
    /\ completing' = [completing EXCEPT ![p] = NoCompletion]
    /\ UNCHANGED <<kind, enrollVars, due, mailVars>>

(* The wave an event schedule makes when this one is completed.             *)
MakesNext(w) == kind = "event" /\ w + 1 \in Wave /\ prompt[w + 1] = "none"

FaultyOpenAfter(w) == {v \in Wave : v # w /\ prompt[v] \notin {"none", "completed"}}

(* The transaction's view of the prompts that are not completed.            *)
OpenAfter(w) ==
    {v \in Wave : v # w /\ prompt[v] \notin {"none", "completed"}}
        \cup (IF MakesNext(w) THEN {w + 1} ELSE {})

(* It marks the prompt, makes the next and reads the earliest open one.     *)
MarkWave(p) ==
    /\ runPage[p].step = "posting" /\ ~PromptLocked(completing[p].wave)
    /\ runPage' = [runPage EXCEPT ![p].step = "marked"]
    /\ completing' = [completing EXCEPT ![p].next =
            Min(OpenAfter(completing[p].wave) \cup {NoWave})]
    /\ UNCHANGED <<kind, enrollVars, due, mailVars, mishaps>>

(* It writes status and pointer, whatever they have become, and commits.    *)
CommitWave(p) ==
    /\ runPage[p].step = "marked"
    /\ runPage' = [runPage EXCEPT ![p].step = "done"]
    /\ completing' = [completing EXCEPT ![p] = NoCompletion]
    /\ LET w == completing[p].wave IN
        /\ prompt' = [v \in Wave |-> IF v = w THEN "completed"
                                     ELSE IF v = w + 1 /\ MakesNext(w) THEN "pending"
                                     ELSE prompt[v]]
        /\ boundTo' = [boundTo EXCEPT ![w] = IF @ = Unbound THEN p ELSE @]
    /\ IF completing[p].next = NoWave
       THEN enrolled' = "completed" /\ UNCHANGED pointer
       ELSE enrolled' = "active" /\ pointer' = completing[p].next
    /\ UNCHANGED <<kind, due, mailVars, mishaps>>

(* unsubscribe_prompt: withdrawn, until a completion overwrites it.         *)
Unsubscribe ==
    /\ enrolled \in {"active", "completed"} /\ enrolled' = "withdrawn" /\ Mishap
    /\ UNCHANGED <<kind, pointer, prompt, boundTo, due, mailVars, runVars>>

SeriesNext ==
    \/ Enroll \/ Unsubscribe
    \/ \E w \in Wave : TimePasses(w)
    \/ \E i \in Instance : Scan(i) \/ Claim(i) \/ Mail(i) \/ CrashInstance(i)
    \/ \E p \in RunPage :
        \/ OpenLink(p) \/ OpenUnresolved(p) \/ PostCompletion(p)
        \/ RollBackCompletion(p) \/ MarkWave(p) \/ CommitWave(p)

SeriesSpec == SeriesInit /\ [][SeriesNext]_seriesVars

-----------------------------------------------------------------------------
(* However many instances scan the same prompt, and wherever one stops, the *)
(* participant gets at most one reminder of a wave.                         *)
RemindedAtMostOnce == \A w \in Wave : mailed[w] <= 1

(* A completed wave is bound to a session that ran that wave (or whose page *)
(* could not learn its wave), late and repeated completions included, and   *)
(* the waves complete in order.                                             *)
WavesAreHonest ==
    \A w \in Wave : prompt[w] = "completed" =>
        /\ boundTo[w] # Unbound /\ runPage[boundTo[w]].wave \in {w, Unknown}
        /\ \A v \in Wave : v < w => prompt[v] = "completed"

(* Once a wave's completion is stored, its next wave has a prompt and the   *)
(* series is not over, so that the due scan still finds it: no completion,  *)
(* however late, leaves a participant without the reminders still to come.  *)
NoWaveStranded ==
    \A w \in Wave \ {WaveCount - 1} : prompt[w] = "completed" =>
        /\ prompt[w + 1] # "none"
        /\ enrolled = "completed" => prompt[w + 1] = "completed"
=============================================================================
