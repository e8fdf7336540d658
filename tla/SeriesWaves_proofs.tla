------------------------- MODULE SeriesWaves_proofs -------------------------
(***************************************************************************)
(* Proofs about SeriesWaves, for any number of waves, pages and schedulers.*)
(***************************************************************************)
EXTENDS SeriesWaves, LibraryFacts, TLAPS

(* The part of the types the proof needs: what an instance is sending is    *)
(* left open.                                                               *)
MailTypes ==
    /\ prompt \in [Wave -> {"none", "pending", "delivered", "completed"}]
    /\ mailed \in [Wave -> Nat]
    /\ mailing = [i \in Instance |-> mailing[i]]

(* Who is sending a wave's reminder won it from pending: nobody sends it    *)
(* beside it, nobody sent it before, and it never is pending again.         *)
Unsent(w) == prompt[w] \in {"none", "pending"}
SenderInv ==
    /\ enrolled = "none" => \A w \in Wave : prompt[w] = "none"
    /\ \A w \in Wave : mailed[w] # 0 => ~Unsent(w)
    /\ \A i \in Instance, w \in Wave : mailing[i] = w => mailed[w] = 0 /\ ~Unsent(w)
    /\ \A i, j \in Instance : mailing[i] = mailing[j] /\ mailing[i] \in Wave => i = j

MailInv == MailTypes /\ SenderInv /\ RemindedAtMostOnce

LEMMA WaveFacts == Wave \subseteq Nat /\ NoWave \notin Wave
  BY SeriesAssumption DEF Wave, NoWave

LEMMA InitMail == SeriesInit => MailInv
  BY WaveFacts DEF SeriesInit, MailInv, MailTypes, SenderInv, Unsent, RemindedAtMostOnce

(* The winner of a pending prompt is its only sender.                       *)
LEMMA ClaimKeeps == ASSUME MailInv, NEW i \in Instance, Claim(i) PROVE MailInv'
  <1> DEFINE w == Min(scanned[i])
  <1>1. CASE prompt[w] # "pending"
    <2>1. /\ UNCHANGED <<prompt, mailing, mailed, enrolled>>
      BY <1>1 DEF Claim
    <2>2. QED
      BY <2>1 DEF MailInv, MailTypes, SenderInv, Unsent, RemindedAtMostOnce
  <1>2. CASE prompt[w] = "pending"
    <2>1. /\ prompt' = [prompt EXCEPT ![w] = "delivered"]
          /\ mailing' = [mailing EXCEPT ![i] = w]
          /\ mailed' = mailed /\ enrolled' = enrolled
      BY <1>2 DEF Claim
    <2> HIDE DEF w
    <2>2. MailTypes'
      BY <2>1 DEF MailInv, MailTypes
    <2>3. \A v \in Wave : prompt'[v] = IF v = w THEN "delivered" ELSE prompt[v]
      BY <2>1 DEF MailInv, MailTypes
    <2>4. \A j \in Instance : mailing'[j] = IF j = i THEN w ELSE mailing[j]
      BY <2>1 DEF MailInv, MailTypes
    <2>5. w \in Wave => mailed[w] = 0 /\ \A j \in Instance : mailing[j] # w
      BY <1>2 DEF MailInv, SenderInv, Unsent
    <2>6. enrolled = "none" => w \notin Wave
      BY <1>2 DEF MailInv, SenderInv
    <2>7. SenderInv'
      BY <2>1, <2>3, <2>4, <2>5, <2>6 DEF MailInv, SenderInv, Unsent
    <2>8. RemindedAtMostOnce'
      BY <2>1 DEF MailInv, RemindedAtMostOnce
    <2>9. QED
      BY <2>2, <2>7, <2>8 DEF MailInv
  <1>3. QED
    BY <1>1, <1>2

(* It sends one reminder, or none, and forgets the prompt.                  *)
LEMMA MailKeeps == ASSUME MailInv, NEW i \in Instance, Mail(i) PROVE MailInv'
  <1> DEFINE w == mailing[i]
  <1>1. /\ mailing' = [mailing EXCEPT ![i] = NoWave]
        /\ prompt' = prompt /\ enrolled' = enrolled
        /\ mailed' = [mailed EXCEPT ![w] = @ + 1] \/ mailed' = mailed
    BY DEF Mail, enrollVars
  <1>2. \A j \in Instance : mailing'[j] = IF j = i THEN NoWave ELSE mailing[j]
    BY <1>1 DEF MailInv, MailTypes
  <1>3. \A v \in Wave : mailed'[v] = mailed[v] \/ (v = w /\ mailed'[v] = mailed[v] + 1)
    BY <1>1 DEF MailInv, MailTypes
  <1>4. \A v \in Wave : v = w => mailed[v] = 0 /\ ~Unsent(v)
                                 /\ \A j \in Instance : j # i => mailing[j] # v
    BY DEF MailInv, SenderInv
  <1>5. MailTypes'
    BY <1>1, <1>3, WaveFacts DEF MailInv, MailTypes
  <1>6. SenderInv'
    <2>1. (enrolled = "none" => \A v \in Wave : prompt[v] = "none")'
      BY <1>1 DEF MailInv, SenderInv
    <2>2. (\A v \in Wave : mailed[v] # 0 => ~Unsent(v))'
      BY <1>1, <1>3, <1>4 DEF MailInv, SenderInv, Unsent
    <2>3. (\A j \in Instance, v \in Wave :
              mailing[j] = v => mailed[v] = 0 /\ ~Unsent(v))'
      BY <1>1, <1>2, <1>3, <1>4, WaveFacts DEF MailInv, SenderInv, Unsent
    <2>4. (\A j, k \in Instance :
              mailing[j] = mailing[k] /\ mailing[j] \in Wave => j = k)'
      BY <1>2, WaveFacts DEF MailInv, SenderInv
    <2>5. QED
      BY <2>1, <2>2, <2>3, <2>4 DEF SenderInv
  <1>7. RemindedAtMostOnce'
    BY <1>3, <1>4 DEF MailInv, RemindedAtMostOnce
  <1>8. QED
    BY <1>5, <1>6, <1>7 DEF MailInv

LEMMA CrashKeeps == ASSUME MailInv, NEW i \in Instance, CrashInstance(i) PROVE MailInv'
  <1>1. /\ mailing' = [mailing EXCEPT ![i] = NoWave]
        /\ UNCHANGED <<prompt, enrolled, mailed>>
    BY DEF CrashInstance, enrollVars
  <1>2. \A j \in Instance : mailing'[j] = IF j = i THEN NoWave ELSE mailing[j]
    BY <1>1 DEF MailInv, MailTypes
  <1>3. QED
    BY <1>1, <1>2, WaveFacts
       DEF MailInv, MailTypes, SenderInv, Unsent, RemindedAtMostOnce

(* A completion may make the next wave's prompt, which nobody has claimed.  *)
LEMMA CommitMail == ASSUME MailInv, NEW p \in RunPage, CommitWave(p) PROVE MailInv'
  <1> DEFINE w == completing[p].wave
  <1>1. /\ mailing' = mailing /\ mailed' = mailed /\ enrolled' \in {"active", "completed"}
    BY DEF CommitWave, mailVars
  <1>2. prompt' = [v \in Wave |-> IF v = w THEN "completed"
                                  ELSE IF v = w + 1 /\ MakesNext(w) THEN "pending"
                                  ELSE prompt[v]]
    BY DEF CommitWave
  <1>3. prompt' \in [Wave -> {"none", "pending", "delivered", "completed"}]
    BY <1>2 DEF MailInv, MailTypes
  <1>4. \A v \in Wave : Unsent(v)' => Unsent(v)
    BY <1>2 DEF Unsent, MakesNext
  <1>5. MailTypes'
    BY <1>1, <1>3 DEF MailInv, MailTypes
  <1>6. SenderInv'
    BY <1>1, <1>4 DEF MailInv, SenderInv
  <1>7. RemindedAtMostOnce'
    BY <1>1 DEF MailInv, RemindedAtMostOnce
  <1>8. QED
    BY <1>5, <1>6, <1>7 DEF MailInv

LEMMA EnrollKeeps == ASSUME MailInv, Enroll PROVE MailInv'
  <1>1. /\ enrolled = "none" /\ enrolled' = "active"
        /\ mailed' = mailed /\ mailing' = mailing
        /\ prompt' \in [Wave -> {"none", "pending"}]
    BY DEF Enroll, mailVars
  <1>2. \A v \in Wave : Unsent(v)
    BY <1>1 DEF MailInv, SenderInv, Unsent
  <1>3. \A v \in Wave : mailed[v] = 0 /\ \A i \in Instance : mailing[i] # v
    BY <1>2 DEF MailInv, SenderInv
  <1>4. MailTypes'
    BY <1>1 DEF MailInv, MailTypes
  <1>5. SenderInv'
    BY <1>1, <1>3 DEF MailInv, SenderInv
  <1>6. QED
    BY <1>1, <1>4, <1>5 DEF MailInv, RemindedAtMostOnce

(* The other steps send nothing and touch no prompt.                        *)
LEMMA OtherMail ==
    ASSUME MailInv, UNCHANGED <<prompt, mailed, mailing>>,
           enrolled' = "none" => enrolled = "none"
    PROVE  MailInv'
  BY DEF MailInv, MailTypes, SenderInv, Unsent, RemindedAtMostOnce

LEMMA StepMail == MailInv /\ [SeriesNext]_seriesVars => MailInv'
  <1> SUFFICES ASSUME MailInv, [SeriesNext]_seriesVars PROVE MailInv'
    OBVIOUS
  <1>1. CASE Enroll
    BY <1>1, EnrollKeeps
  <1>2. CASE Unsubscribe
    BY <1>2, OtherMail DEF Unsubscribe, mailVars
  <1>3. ASSUME NEW w \in Wave, TimePasses(w) PROVE MailInv'
    BY <1>3, OtherMail DEF TimePasses, mailVars, enrollVars
  <1>4. ASSUME NEW i \in Instance, Scan(i) PROVE MailInv'
    BY <1>4, OtherMail DEF Scan, enrollVars
  <1>5. ASSUME NEW i \in Instance, Claim(i) \/ Mail(i) \/ CrashInstance(i)
        PROVE  MailInv'
    BY <1>5, ClaimKeeps, MailKeeps, CrashKeeps
  <1>6. ASSUME NEW p \in RunPage,
               OpenLink(p) \/ OpenUnresolved(p) \/ PostCompletion(p)
                 \/ RollBackCompletion(p) \/ MarkWave(p)
        PROVE  MailInv'
    BY <1>6, OtherMail
       DEF OpenLink, OpenUnresolved, PostCompletion, RollBackCompletion, MarkWave,
           mailVars, enrollVars
  <1>7. ASSUME NEW p \in RunPage, CommitWave(p) PROVE MailInv'
    BY <1>7, CommitMail
  <1>8. CASE UNCHANGED seriesVars
    BY <1>8, OtherMail DEF seriesVars, mailVars, enrollVars
  <1>9. QED
    BY <1>1, <1>2, <1>3, <1>4, <1>5, <1>6, <1>7, <1>8 DEF SeriesNext

(* At most one reminder of a wave, however many schedulers run: the claim   *)
(* before the mail (run_tick, series_mark_delivered) is what keeps it.      *)
THEOREM OneReminder == SeriesSpec => []RemindedAtMostOnce
  <1>1. SeriesInit => MailInv
    BY InitMail
  <1>2. MailInv /\ [SeriesNext]_seriesVars => MailInv'
    BY StepMail
  <1>3. MailInv => RemindedAtMostOnce
    BY DEF MailInv
  <1>4. QED
    BY <1>1, <1>2, <1>3, PTL DEF SeriesSpec

-----------------------------------------------------------------------------
WaveTypes ==
    /\ kind \in {"fixed", "event"}
    /\ enrolled \in {"none", "active", "completed", "withdrawn"}
    /\ pointer \in Wave
    /\ prompt \in [Wave -> {"none", "pending", "delivered", "completed"}]
    /\ boundTo \in [Wave -> RunPage \cup {Unbound}]
    /\ runPage \in [RunPage -> [step : Steps, wave : Wave \cup {Unknown}]]
    /\ completing \in [RunPage -> [wave : 0 .. NoWave, next : 0 .. NoWave]]

(* The wave has its prompt and comes after completed ones only.             *)
InTurn(w) ==
    prompt[w] # "none" /\ \A v \in Wave : v < w => prompt[v] = "completed"

(* Prompts are made in the order of the waves: all of them at once, or each *)
(* by the completion of the one before.                                     *)
PromptInv ==
    /\ enrolled = "none" => /\ \A w \in Wave : prompt[w] = "none"
                            /\ \A p \in RunPage : runPage[p].step = "closed"
    /\ enrolled # "none" /\ kind = "fixed" => \A w \in Wave : prompt[w] # "none"
    /\ enrolled # "none" => InTurn(pointer)
    /\ \A v, w \in Wave : v < w /\ prompt[w] # "none" => prompt[v] # "none"
    /\ \A w \in Wave : prompt[w] = "completed" /\ w + 1 \in Wave
                            => prompt[w + 1] # "none"

(* What a page runs, and what its completion is about, was in turn.         *)
PageInv(p) ==
    /\ runPage[p].step = "closed" => runPage[p].wave = Unknown
    /\ runPage[p].wave \in Wave => InTurn(runPage[p].wave)
    /\ runPage[p].step \in {"posting", "marked"} =>
            /\ completing[p].wave \in Wave /\ InTurn(completing[p].wave)
            /\ runPage[p].wave \in {completing[p].wave, Unknown}

(* The cursor read under the lock of the wave is still good at the commit:  *)
(* a wave in turn, or the end when no other wave was open.                  *)
CursorInv(p) ==
    runPage[p].step = "marked" =>
        LET w == completing[p].wave  n == completing[p].next IN
        /\ n # NoWave => \A v \in Wave : v < n => v = w \/ prompt[v] = "completed"
        /\ n # NoWave => prompt[n] # "none" \/ (n = w + 1 /\ kind = "event")
        /\ n = NoWave /\ w + 1 \in Wave => prompt[w + 1] # "none"
        /\ n = NoWave => \A v \in Wave \ {w} : prompt[v] \in {"none", "completed"}
        /\ \A q \in RunPage \ {p} :
                runPage[q].step = "marked" => completing[q].wave # w

BoundInv ==
    \A w \in Wave : prompt[w] = "completed" =>
        /\ boundTo[w] \in RunPage /\ runPage[boundTo[w]].step # "closed"
        /\ runPage[boundTo[w]].wave \in {w, Unknown}
        /\ \A v \in Wave : v < w => prompt[v] = "completed"
BoundOpenInv == \A w \in Wave : boundTo[w] # Unbound => prompt[w] = "completed"

EndInv ==
    enrolled = "completed" =>
        \A w \in Wave : prompt[w] \in {"none", "completed"}

WaveInv ==
    /\ WaveTypes /\ PromptInv /\ BoundInv /\ BoundOpenInv /\ EndInv
    /\ \A p \in RunPage : PageInv(p) /\ CursorInv(p)

LEMMA PageFacts ==
    /\ Wave = 0 .. WaveCount - 1 /\ WaveCount \in Nat \ {0} /\ NoWave = WaveCount
    /\ Unknown \notin Wave /\ 0 \in Wave
    /\ Unbound \notin RunPage
  BY SeriesAssumption DEF Wave, NoWave, RunPage, Unbound

LEMMA InitWave == SeriesInit => WaveInv
  BY PageFacts
     DEF SeriesInit, WaveInv, WaveTypes, PromptInv, PageInv, CursorInv, BoundInv,
         BoundOpenInv, EndInv, Steps, NoCompletion

(* Steps that make, complete and bind no prompt and leave the pages alone.  *)
LEMMA QuietKeeps ==
    ASSUME WaveInv, UNCHANGED <<kind, pointer, boundTo, runPage, completing>>,
           \/ enrolled' = enrolled
           \/ enrolled # "none" /\ enrolled' = "withdrawn",
           prompt' \in [Wave -> {"none", "pending", "delivered", "completed"}],
           \A v \in Wave : /\ prompt'[v] = "none" <=> prompt[v] = "none"
                           /\ prompt'[v] = "completed" <=> prompt[v] = "completed",
           enrolled' = "completed" => prompt' = prompt
    PROVE  WaveInv'
  <1>1. WaveTypes'
    BY DEF WaveInv, WaveTypes
  <1>2. \A w \in Wave : InTurn(w)' <=> InTurn(w)
    BY DEF InTurn
  <1>3. PromptInv'
    BY <1>2, PageFacts DEF WaveInv, PromptInv, WaveTypes
  <1>4. BoundInv' /\ BoundOpenInv' /\ EndInv'
    BY DEF WaveInv, BoundInv, BoundOpenInv, EndInv
  <1>5. ASSUME NEW p \in RunPage PROVE PageInv(p)'
    BY <1>2 DEF WaveInv, PageInv
  <1>6. ASSUME NEW p \in RunPage PROVE CursorInv(p)'
    <2>1. CursorInv(p) /\ completing[p].next \in 0 .. NoWave
      BY DEF WaveInv, WaveTypes
    <2>2. completing[p].next # NoWave => completing[p].next \in Wave
      BY <2>1, PageFacts
    <2>3. QED
      BY <2>1, <2>2 DEF CursorInv, WaveInv, WaveTypes
  <1>7. QED
    BY <1>1, <1>3, <1>4, <1>5, <1>6 DEF WaveInv

(* The scheduler, the clock and an opt-out are such steps.                  *)
LEMMA QuietWaves ==
    ASSUME WaveInv,
           \/ Unsubscribe \/ UNCHANGED seriesVars
           \/ \E w \in Wave : TimePasses(w)
           \/ \E i \in Instance : Scan(i) \/ Claim(i) \/ Mail(i) \/ CrashInstance(i)
    PROVE  WaveInv'
  <1>1. ASSUME UNCHANGED <<kind, pointer, boundTo, runPage, completing, prompt>>,
               \/ enrolled' = enrolled
               \/ enrolled # "none" /\ enrolled' = "withdrawn"
        PROVE  WaveInv'
    <2>1. prompt' \in [Wave -> {"none", "pending", "delivered", "completed"}]
      BY <1>1 DEF WaveInv, WaveTypes
    <2>2. \A v \in Wave : /\ prompt'[v] = "none" <=> prompt[v] = "none"
                          /\ prompt'[v] = "completed" <=> prompt[v] = "completed"
      BY <1>1
    <2>3. QED
      BY <1>1, <2>1, <2>2, QuietKeeps
  <1>2. ASSUME NEW i \in Instance, Claim(i) PROVE WaveInv'
    <2> DEFINE w == Min(scanned[i])
    <2>1. CASE prompt[w] # "pending"
      BY <1>2, <2>1, <1>1 DEF Claim, runVars
    <2>2. CASE prompt[w] = "pending" /\ w \in Wave
      <3>1. /\ prompt' = [prompt EXCEPT ![w] = "delivered"]
            /\ UNCHANGED <<kind, enrolled, pointer, boundTo, runPage, completing>>
        BY <1>2, <2>2 DEF Claim, runVars
      <3> HIDE DEF w
      <3>2. prompt' \in [Wave -> {"none", "pending", "delivered", "completed"}]
        BY <3>1 DEF WaveInv, WaveTypes
      <3>3. \A v \in Wave : prompt'[v] = IF v = w THEN "delivered" ELSE prompt[v]
        BY <3>1 DEF WaveInv, WaveTypes
      <3>4. enrolled' # "completed"
        BY <2>2, <3>1 DEF WaveInv, EndInv
      <3>5. QED
        BY <2>2, <3>1, <3>2, <3>3, <3>4, QuietKeeps
    <2>3. CASE prompt[w] = "pending" /\ w \notin Wave
      <3>1. /\ prompt' = [prompt EXCEPT ![w] = "delivered"]
            /\ UNCHANGED <<kind, enrolled, pointer, boundTo, runPage, completing>>
        BY <1>2, <2>3 DEF Claim, runVars
      <3> HIDE DEF w
      <3>2. prompt' = prompt
        BY <2>3, <3>1 DEF WaveInv, WaveTypes
      <3>3. QED
        BY <3>1, <3>2, <1>1
    <2>4. QED
      BY <2>1, <2>2, <2>3
  <1>3. CASE Unsubscribe
    BY <1>3, <1>1 DEF Unsubscribe, runVars
  <1>4. CASE UNCHANGED seriesVars
    BY <1>4, <1>1 DEF seriesVars, enrollVars, runVars
  <1>5. ASSUME NEW w \in Wave, TimePasses(w) PROVE WaveInv'
    BY <1>5, <1>1 DEF TimePasses, enrollVars, runVars
  <1>6. ASSUME NEW i \in Instance, Scan(i) \/ Mail(i) \/ CrashInstance(i)
        PROVE  WaveInv'
    BY <1>6, <1>1 DEF Scan, Mail, CrashInstance, enrollVars, runVars
  <1>7. QED
    BY <1>2, <1>3, <1>4, <1>5, <1>6

LEMMA EnrollWaves == ASSUME WaveInv, Enroll PROVE WaveInv'
  <1>1. /\ enrolled = "none" /\ enrolled' = "active" /\ pointer' = 0
        /\ kind' \in {"fixed", "event"}
        /\ UNCHANGED <<boundTo, runPage, completing>>
        /\ prompt' = [w \in Wave |->
              IF kind' = "fixed" \/ w = 0 THEN "pending" ELSE "none"]
    BY SeriesAssumption DEF Enroll, runVars
  <1>2. /\ \A w \in Wave : boundTo[w] = Unbound
        /\ \A p \in RunPage : runPage[p].step = "closed" /\ runPage[p].wave = Unknown
    BY <1>1 DEF WaveInv, PromptInv, BoundOpenInv, PageInv
  <1>3. WaveTypes'
    BY <1>1, PageFacts DEF WaveInv, WaveTypes
  <1>4. \A w \in Wave : prompt'[w] = IF kind' = "fixed" \/ w = 0
                                     THEN "pending" ELSE "none"
    BY <1>1
  <1>5. PromptInv'
    BY <1>1, <1>2, <1>4, PageFacts DEF PromptInv, InTurn
  <1>6. BoundInv' /\ BoundOpenInv' /\ EndInv'
    BY <1>1, <1>2, <1>4 DEF BoundInv, BoundOpenInv, EndInv
  <1>7. ASSUME NEW p \in RunPage PROVE PageInv(p)' /\ CursorInv(p)'
    BY <1>1, <1>2, PageFacts DEF PageInv, CursorInv
  <1>8. QED
    BY <1>3, <1>5, <1>6, <1>7 DEF WaveInv

(* A page's own step before the commit: no prompt moves, no other page does.*)
LEMMA PageStepKeeps ==
    ASSUME WaveInv, NEW p \in RunPage,
           UNCHANGED <<kind, enrolled, pointer, prompt, boundTo>>, enrolled # "none",
           runPage' \in [RunPage -> [step : Steps, wave : Wave \cup {Unknown}]],
           completing' \in [RunPage -> [wave : 0 .. NoWave, next : 0 .. NoWave]],
           \A q \in RunPage \ {p} : /\ runPage'[q] = runPage[q]
                                    /\ completing'[q] = completing[q],
           runPage'[p].step # "closed",
           runPage[p].step # "closed" => runPage'[p].wave = runPage[p].wave,
           PageInv(p)', CursorInv(p)'
    PROVE  WaveInv'
  <1>1. WaveTypes' /\ BoundOpenInv' /\ EndInv'
    BY DEF WaveInv, WaveTypes, BoundOpenInv, EndInv
  <1>2. \A w \in Wave \cup {NoWave} : InTurn(w)' <=> InTurn(w)
    BY DEF InTurn
  <1>3. PromptInv'
    BY <1>2 DEF WaveInv, WaveTypes, PromptInv
  <1>4. BoundInv'
    BY DEF WaveInv, BoundInv
  <1>5. ASSUME NEW q \in RunPage \ {p} PROVE PageInv(q)'
    BY <1>2 DEF WaveInv, PageInv
  <1>6. ASSUME NEW q \in RunPage \ {p} PROVE CursorInv(q)'
    <2>1. CursorInv(q) /\ runPage'[q] = runPage[q] /\ completing'[q] = completing[q]
      BY DEF WaveInv
    <2>2. ASSUME NEW r \in RunPage \ {q}, runPage'[q].step = "marked",
                 runPage'[r].step = "marked"
          PROVE  completing'[r].wave # completing'[q].wave
      <3>1. CASE r = p
        BY <3>1, <2>2 DEF CursorInv
      <3>2. CASE r # p
        BY <3>2, <2>1, <2>2 DEF CursorInv
      <3>3. QED
        BY <3>1, <3>2
    <2>3. QED
      BY <2>1, <2>2 DEF CursorInv
  <1>7. QED
    BY <1>1, <1>3, <1>4, <1>5, <1>6 DEF WaveInv

LEMMA OpenWaves ==
    ASSUME WaveInv, NEW p \in RunPage, OpenLink(p) \/ OpenUnresolved(p)
    PROVE  WaveInv'
  <1>1. PICK w \in {pointer, Unknown} :
            runPage' = [runPage EXCEPT ![p] = [step |-> "running", wave |-> w]]
    BY DEF OpenLink, OpenUnresolved
  <1>2. /\ enrolled # "none" /\ runPage[p].step = "closed"
        /\ UNCHANGED <<kind, enrolled, pointer, prompt, boundTo, completing>>
    BY DEF OpenLink, OpenUnresolved, MayOpen, enrollVars
  <1>3. InTurn(pointer) /\ pointer \in Wave
    BY <1>2 DEF WaveInv, WaveTypes, PromptInv
  <1>4. /\ runPage' \in [RunPage -> [step : Steps, wave : Wave \cup {Unknown}]]
        /\ runPage'[p] = [step |-> "running", wave |-> w]
        /\ \A q \in RunPage \ {p} : runPage'[q] = runPage[q]
    BY <1>1, <1>3 DEF WaveInv, WaveTypes, Steps
  <1>5. PageInv(p)'
    BY <1>2, <1>3, <1>4, PageFacts DEF PageInv, InTurn
  <1>6. CursorInv(p)'
    BY <1>4 DEF CursorInv
  <1>7. completing' \in [RunPage -> [wave : 0 .. NoWave, next : 0 .. NoWave]]
    BY <1>2 DEF WaveInv, WaveTypes
  <1>8. QED
    BY <1>2, <1>4, <1>5, <1>6, <1>7, PageStepKeeps

LEMMA PostWaves == ASSUME WaveInv, NEW p \in RunPage, PostCompletion(p) PROVE WaveInv'
  <1>1. /\ runPage[p].step = "running"
        /\ runPage' = [runPage EXCEPT ![p].step = "posting"]
        /\ completing' = [completing EXCEPT ![p].wave =
                IF runPage[p].wave = Unknown THEN pointer ELSE runPage[p].wave]
        /\ UNCHANGED <<kind, enrolled, pointer, prompt, boundTo>>
    BY DEF PostCompletion, enrollVars
  <1>2. enrolled # "none"
    BY <1>1 DEF WaveInv, PromptInv
  <1>3. InTurn(pointer) /\ pointer \in Wave
    BY <1>2 DEF WaveInv, WaveTypes, PromptInv
  <1>4. /\ runPage[p] \in [step : Steps, wave : Wave \cup {Unknown}]
        /\ completing[p] \in [wave : 0 .. NoWave, next : 0 .. NoWave]
        /\ Wave \subseteq 0 .. NoWave
    BY PageFacts DEF WaveInv, WaveTypes
  <1>5. /\ runPage' \in [RunPage -> [step : Steps, wave : Wave \cup {Unknown}]]
        /\ runPage'[p].step = "posting" /\ runPage'[p].wave = runPage[p].wave
        /\ \A q \in RunPage \ {p} : runPage'[q] = runPage[q]
    BY <1>1, <1>4 DEF WaveInv, WaveTypes, Steps
  <1>6. /\ completing' \in [RunPage -> [wave : 0 .. NoWave, next : 0 .. NoWave]]
        /\ completing'[p].wave =
                IF runPage[p].wave = Unknown THEN pointer ELSE runPage[p].wave
        /\ \A q \in RunPage \ {p} : completing'[q] = completing[q]
    BY <1>1, <1>3, <1>4 DEF WaveInv, WaveTypes
  <1>7. PageInv(p)
    BY DEF WaveInv
  <1>8. PageInv(p)'
    BY <1>1, <1>3, <1>4, <1>5, <1>6, <1>7 DEF PageInv, InTurn
  <1>9. CursorInv(p)'
    BY <1>5 DEF CursorInv
  <1>10. QED
    BY <1>1, <1>2, <1>5, <1>6, <1>8, <1>9, PageStepKeeps

LEMMA RollBackWaves ==
    ASSUME WaveInv, NEW p \in RunPage, RollBackCompletion(p) PROVE WaveInv'
  <1>1. /\ runPage[p].step # "closed"
        /\ runPage' = [runPage EXCEPT ![p].step = "done"]
        /\ completing' = [completing EXCEPT ![p] = NoCompletion]
        /\ UNCHANGED <<kind, enrolled, pointer, prompt, boundTo>>
    BY DEF RollBackCompletion, enrollVars
  <1>2. enrolled # "none"
    BY <1>1 DEF WaveInv, PromptInv
  <1>3. /\ runPage' \in [RunPage -> [step : Steps, wave : Wave \cup {Unknown}]]
        /\ runPage'[p].step = "done" /\ runPage'[p].wave = runPage[p].wave
        /\ \A q \in RunPage \ {p} : runPage'[q] = runPage[q]
    BY <1>1 DEF WaveInv, WaveTypes, Steps
  <1>4. /\ completing' \in [RunPage -> [wave : 0 .. NoWave, next : 0 .. NoWave]]
        /\ \A q \in RunPage \ {p} : completing'[q] = completing[q]
    BY <1>1, PageFacts DEF WaveInv, WaveTypes, NoCompletion
  <1>5. PageInv(p)
    BY DEF WaveInv
  <1>6. PageInv(p)' /\ CursorInv(p)'
    BY <1>1, <1>3, <1>5 DEF PageInv, CursorInv, InTurn
  <1>7. QED
    BY <1>1, <1>2, <1>3, <1>4, <1>6, PageStepKeeps

(* The cursor is the earliest other wave that is open when its own is       *)
(* marked, and no page marks a wave another has marked.                     *)
LEMMA MarkWaves == ASSUME WaveInv, NEW p \in RunPage, MarkWave(p) PROVE WaveInv'
  <1> DEFINE w == completing[p].wave
             S == OpenAfter(w) \cup {NoWave}
             n == Min(S)
  <1>1. /\ runPage[p].step = "posting" /\ ~PromptLocked(w)
        /\ runPage' = [runPage EXCEPT ![p].step = "marked"]
        /\ completing' = [completing EXCEPT ![p].next = n]
        /\ UNCHANGED <<kind, enrolled, pointer, prompt, boundTo>>
    BY DEF MarkWave, enrollVars
  <1>2. enrolled # "none"
    BY <1>1 DEF WaveInv, PromptInv
  <1>3. w \in Wave /\ InTurn(w) /\ runPage[p].wave \in {w, Unknown}
    BY <1>1 DEF WaveInv, PageInv
  <1>4. S \subseteq 0 .. NoWave /\ NoWave \in S
    BY PageFacts DEF OpenAfter, MakesNext
  <1>5. n \in S /\ \A y \in S : n <= y
    <2>1. S \in SUBSET Nat /\ S # {}
      BY <1>4, PageFacts
    <2> HIDE DEF S
    <2>2. QED
      BY <2>1, MinIsLeast
  <1> HIDE DEF n, w
  <1>6. /\ n \in 0 .. NoWave
        /\ n # NoWave => n \in OpenAfter(w)
        /\ \A y \in OpenAfter(w) : n <= y
    BY <1>4, <1>5
  <1>7. /\ runPage[p] \in [step : Steps, wave : Wave \cup {Unknown}]
        /\ completing[p] \in [wave : 0 .. NoWave, next : 0 .. NoWave]
    BY DEF WaveInv, WaveTypes
  <1>8. /\ runPage' \in [RunPage -> [step : Steps, wave : Wave \cup {Unknown}]]
        /\ runPage'[p].step = "marked" /\ runPage'[p].wave = runPage[p].wave
        /\ \A q \in RunPage \ {p} : runPage'[q] = runPage[q]
    BY <1>1, <1>7 DEF WaveInv, WaveTypes, Steps
  <1>9. /\ completing' \in [RunPage -> [wave : 0 .. NoWave, next : 0 .. NoWave]]
        /\ completing'[p].wave = w /\ completing'[p].next = n
        /\ \A q \in RunPage \ {p} : completing'[q] = completing[q]
    BY <1>1, <1>6, <1>7 DEF WaveInv, WaveTypes, w
  <1>10. PageInv(p)'
    <2>1. PageInv(p)
      BY DEF WaveInv
    <2>2. QED
      BY <2>1, <1>1, <1>3, <1>8, <1>9 DEF PageInv, InTurn
  <1>11. prompt \in [Wave -> {"none", "pending", "delivered", "completed"}]
    BY DEF WaveInv, WaveTypes
  <1>12. n # NoWave => \A v \in Wave : v < n => v = w \/ prompt[v] = "completed"
    <2>1. SUFFICES ASSUME n # NoWave, NEW v \in Wave, v < n, v # w,
                          prompt[v] # "completed"
                   PROVE  FALSE
      OBVIOUS
    <2>2. prompt[v] = "none"
      BY <2>1, <1>6, PageFacts DEF OpenAfter
    <2>3. n \in Wave /\ prompt[n] = "none"
      <3>1. n \in Wave
        BY <2>1, <1>6, PageFacts
      <3>2. QED
        BY <3>1, <2>1, <2>2 DEF WaveInv, PromptInv
    <2>4. n = w + 1
      BY <2>1, <2>3, <1>6 DEF OpenAfter, MakesNext
    <2>5. QED
      BY <2>1, <2>2, <2>4, <1>3, PageFacts DEF InTurn
  <1>13. n # NoWave => prompt[n] # "none" \/ (n = w + 1 /\ kind = "event")
    BY <1>6 DEF OpenAfter, MakesNext
  <1>14. n = NoWave /\ w + 1 \in Wave => prompt[w + 1] # "none"
    <2>1. SUFFICES ASSUME n = NoWave, w + 1 \in Wave, prompt[w + 1] = "none"
                   PROVE  FALSE
      OBVIOUS
    <2>2. kind = "event"
      BY <2>1, <1>2 DEF WaveInv, WaveTypes, PromptInv
    <2>3. w + 1 \in OpenAfter(w)
      BY <2>1, <2>2 DEF OpenAfter, MakesNext
    <2>4. QED
      BY <2>1, <2>3, <1>6, PageFacts
  <1>15. n = NoWave => \A v \in Wave \ {w} : prompt[v] \in {"none", "completed"}
    <2>1. SUFFICES ASSUME n = NoWave, NEW v \in Wave \ {w},
                          prompt[v] \notin {"none", "completed"}
                   PROVE  FALSE
      OBVIOUS
    <2>2. v \in OpenAfter(w)
      BY <2>1 DEF OpenAfter
    <2>3. QED
      BY <2>1, <2>2, <1>6, PageFacts
  <1>16. \A q \in RunPage \ {p} : runPage[q].step = "marked" => completing[q].wave # w
    BY <1>1 DEF PromptLocked
  <1>17. CursorInv(p)'
    BY <1>1, <1>8, <1>9, <1>12, <1>13, <1>14, <1>15, <1>16 DEF CursorInv
  <1>18. QED
    BY <1>1, <1>2, <1>8, <1>9, <1>10, <1>17, PageStepKeeps

(* What a commit does to the prompts, in a wave's turn.                     *)
LEMMA CommitFacts ==
    ASSUME WaveInv, NEW p \in RunPage, CommitWave(p), NEW w, w = completing[p].wave
    PROVE  /\ w \in Wave /\ InTurn(w) /\ runPage[p].wave \in {w, Unknown}
           /\ runPage[p].step = "marked" /\ enrolled # "none"
           /\ prompt' \in [Wave -> {"none", "pending", "delivered", "completed"}]
           /\ \A v \in Wave : prompt'[v] = "completed"
                                <=> prompt[v] = "completed" \/ v = w
           /\ \A v \in Wave : prompt'[v] # "none"
                                <=> prompt[v] # "none" \/ (v = w + 1 /\ kind = "event")
           /\ \A v \in Wave : \/ prompt'[v] = prompt[v] \/ v = w
                              \/ v = w + 1 /\ prompt[v] = "none"
           /\ w + 1 \in Wave => prompt'[w + 1] # "none"
  <1>1. runPage[p].step = "marked"
    BY DEF CommitWave
  <1>2. w \in Wave /\ InTurn(w) /\ runPage[p].wave \in {w, Unknown} /\ enrolled # "none"
    BY <1>1 DEF WaveInv, PageInv, PromptInv
  <1>3. prompt' = [v \in Wave |-> IF v = w THEN "completed"
                                  ELSE IF v = w + 1 /\ MakesNext(w) THEN "pending"
                                  ELSE prompt[v]]
    BY DEF CommitWave
  <1>4. prompt \in [Wave -> {"none", "pending", "delivered", "completed"}]
    BY DEF WaveInv, WaveTypes
  <1>5. prompt' \in [Wave -> {"none", "pending", "delivered", "completed"}]
    BY <1>3, <1>4
  <1>6. \A v \in Wave : prompt'[v] = "completed" <=> prompt[v] = "completed" \/ v = w
    BY <1>3 DEF MakesNext
  <1>7. \A v \in Wave : prompt'[v] # "none"
                          <=> prompt[v] # "none" \/ (v = w + 1 /\ kind = "event")
    BY <1>2, <1>3 DEF MakesNext, InTurn
  <1>8. \A v \in Wave : \/ prompt'[v] = prompt[v] \/ v = w
                        \/ v = w + 1 /\ prompt[v] = "none"
    BY <1>3 DEF MakesNext
  <1>9. w + 1 \in Wave => prompt'[w + 1] # "none"
    BY <1>2, <1>7 DEF WaveInv, WaveTypes, PromptInv
  <1>10. QED
    BY <1>1, <1>2, <1>5, <1>6, <1>7, <1>8, <1>9

(* The commit completes a wave in its turn, so the pointer it writes is in  *)
(* turn as well; another open completion, of an earlier or a later wave,    *)
(* finds the next prompt of this one already made.                          *)
LEMMA CommitWaves == ASSUME WaveInv, NEW p \in RunPage, CommitWave(p) PROVE WaveInv'
  <1> DEFINE w == completing[p].wave
             n == completing[p].next
  <1>1. /\ runPage' = [runPage EXCEPT ![p].step = "done"]
        /\ completing' = [completing EXCEPT ![p] = NoCompletion]
        /\ boundTo' = [boundTo EXCEPT ![w] = IF @ = Unbound THEN p ELSE @]
        /\ kind' = kind
        /\ \/ n = NoWave /\ enrolled' = "completed" /\ pointer' = pointer
           \/ n # NoWave /\ enrolled' = "active" /\ pointer' = n
    BY DEF CommitWave
  <1>2. /\ w \in Wave /\ InTurn(w) /\ runPage[p].wave \in {w, Unknown}
        /\ runPage[p].step = "marked" /\ enrolled # "none"
        /\ prompt' \in [Wave -> {"none", "pending", "delivered", "completed"}]
        /\ \A v \in Wave : prompt'[v] = "completed" <=> prompt[v] = "completed" \/ v = w
        /\ \A v \in Wave : prompt'[v] # "none"
                             <=> prompt[v] # "none" \/ (v = w + 1 /\ kind = "event")
        /\ \A v \in Wave : \/ prompt'[v] = prompt[v] \/ v = w
                           \/ v = w + 1 /\ prompt[v] = "none"
        /\ w + 1 \in Wave => prompt'[w + 1] # "none"
    BY CommitFacts
  <1>3. CursorInv(p) /\ n \in 0 .. NoWave
    BY DEF WaveInv, WaveTypes
  <1>4. n # NoWave => n \in Wave
    BY <1>3, PageFacts
  <1>5. /\ n # NoWave => \A v \in Wave : v < n => v = w \/ prompt[v] = "completed"
        /\ n # NoWave => prompt[n] # "none" \/ (n = w + 1 /\ kind = "event")
        /\ n = NoWave /\ w + 1 \in Wave => prompt[w + 1] # "none"
        /\ n = NoWave => \A v \in Wave \ {w} : prompt[v] \in {"none", "completed"}
        /\ \A q \in RunPage \ {p} : runPage[q].step = "marked" => completing[q].wave # w
    BY <1>2, <1>3 DEF CursorInv
  <1> HIDE DEF w, n
  <1>6. /\ runPage' \in [RunPage -> [step : Steps, wave : Wave \cup {Unknown}]]
        /\ runPage'[p].step = "done"
        /\ \A q \in RunPage : runPage'[q].wave = runPage[q].wave
        /\ \A q \in RunPage \ {p} : runPage'[q] = runPage[q]
    BY <1>1 DEF WaveInv, WaveTypes, Steps
  <1>7. /\ completing' \in [RunPage -> [wave : 0 .. NoWave, next : 0 .. NoWave]]
        /\ \A q \in RunPage \ {p} : completing'[q] = completing[q]
    BY <1>1, PageFacts DEF WaveInv, WaveTypes, NoCompletion
  <1>8. /\ boundTo' \in [Wave -> RunPage \cup {Unbound}]
        /\ boundTo'[w] = IF boundTo[w] = Unbound THEN p ELSE boundTo[w]
        /\ \A v \in Wave \ {w} : boundTo'[v] = boundTo[v]
    BY <1>1, <1>2 DEF WaveInv, WaveTypes
  <1>9. WaveTypes'
    BY <1>1, <1>2, <1>4, <1>6, <1>7, <1>8 DEF WaveInv, WaveTypes
  <1>10. \A v \in Wave : InTurn(v) => InTurn(v)'
    BY <1>2 DEF InTurn
  <1>11. PromptInv'
    <2>1. (enrolled # "none" /\ kind = "fixed" => \A v \in Wave : prompt[v] # "none")'
      BY <1>1, <1>2 DEF WaveInv, PromptInv
    <2>2. InTurn(pointer)'
      <3>1. CASE n = NoWave
        BY <3>1, <1>1, <1>2, <1>10 DEF WaveInv, WaveTypes, PromptInv, InTurn
      <3>2. CASE n # NoWave
        BY <3>2, <1>1, <1>2, <1>4, <1>5 DEF InTurn
      <3>3. QED
        BY <3>1, <3>2
    <2>3. ASSUME NEW u \in Wave, NEW v \in Wave, u < v, prompt'[v] # "none"
          PROVE  prompt'[u] # "none"
      <3>1. CASE prompt[v] # "none"
        BY <2>3, <3>1, <1>2 DEF WaveInv, PromptInv
      <3>2. CASE v = w + 1
        <4>1. u = w \/ u < w
          BY <2>3, <3>2, <1>2, PageFacts
        <4>2. prompt[u] # "none"
          BY <4>1, <1>2 DEF InTurn
        <4>3. QED
          BY <4>2, <1>2
      <3>3. QED
        BY <3>1, <3>2, <2>3, <1>2
    <2>4. ASSUME NEW v \in Wave, prompt'[v] = "completed", v + 1 \in Wave
          PROVE  prompt'[v + 1] # "none"
      BY <2>4, <1>2 DEF WaveInv, PromptInv
    <2>5. enrolled' # "none"
      BY <1>1
    <2>6. QED
      BY <2>1, <2>2, <2>3, <2>4, <2>5 DEF PromptInv
  <1>12. BoundInv'
    <2>1. ASSUME NEW v \in Wave, prompt'[v] = "completed"
          PROVE  /\ boundTo'[v] \in RunPage /\ runPage'[boundTo'[v]].step # "closed"
                 /\ runPage'[boundTo'[v]].wave \in {v, Unknown}
                 /\ \A u \in Wave : u < v => prompt'[u] = "completed"
      <3>1. CASE prompt[v] = "completed"
        <4>1. /\ boundTo[v] \in RunPage /\ runPage[boundTo[v]].step # "closed"
              /\ runPage[boundTo[v]].wave \in {v, Unknown}
              /\ \A u \in Wave : u < v => prompt[u] = "completed"
          BY <3>1 DEF WaveInv, BoundInv
        <4>2. boundTo'[v] = boundTo[v]
          BY <4>1, <1>8, PageFacts
        <4>3. QED
          BY <4>1, <4>2, <1>2, <1>6
      <3>2. CASE prompt[v] # "completed"
        <4>1. v = w /\ boundTo[v] = Unbound
          BY <2>1, <3>2, <1>2 DEF WaveInv, BoundOpenInv
        <4>2. boundTo'[v] = p
          BY <4>1, <1>8
        <4>3. QED
          BY <4>1, <4>2, <1>2, <1>6 DEF InTurn
      <3>3. QED
        BY <3>1, <3>2
    <2>2. QED
      BY <2>1 DEF BoundInv
  <1>13. BoundOpenInv'
    BY <1>2, <1>8 DEF WaveInv, BoundOpenInv
  <1>14. EndInv'
    <2>1. SUFFICES ASSUME n = NoWave, NEW v \in Wave
                   PROVE  prompt'[v] \in {"none", "completed"}
      BY <1>1 DEF EndInv
    <2>2. QED
      BY <2>1, <1>2, <1>5
  <1>15. ASSUME NEW q \in RunPage PROVE PageInv(q)'
    <2>1. PageInv(q)
      BY DEF WaveInv
    <2>2. CASE q = p
      BY <2>1, <2>2, <1>6, <1>2, <1>10 DEF PageInv
    <2>3. CASE q # p
      BY <2>1, <2>3, <1>6, <1>7, <1>10 DEF PageInv
    <2>4. QED
      BY <2>2, <2>3
  <1>16. ASSUME NEW q \in RunPage PROVE CursorInv(q)'
    <2>1. SUFFICES ASSUME q # p, runPage[q].step = "marked" PROVE CursorInv(q)'
      BY <1>6 DEF CursorInv
    <2> DEFINE wq == completing[q].wave
               nq == completing[q].next
    <2>2. wq \in Wave /\ InTurn(wq) /\ wq # w
      BY <2>1, <1>5 DEF WaveInv, PageInv
    <2>3. nq # NoWave => nq \in Wave
      BY PageFacts DEF WaveInv, WaveTypes
    <2>4. CursorInv(q)
      BY DEF WaveInv
    <2>5. nq = NoWave => prompt[w] = "completed"
      <3>1. CASE w < wq
        BY <3>1, <1>2, <2>2 DEF InTurn
      <3>2. CASE wq < w
        BY <3>2, <1>2, <2>1, <2>2, <2>4 DEF CursorInv, InTurn
      <3>3. QED
        BY <3>1, <3>2, <1>2, <2>2, PageFacts
    <2>6. nq = NoWave => \A v \in Wave \ {wq} : prompt'[v] \in {"none", "completed"}
      BY <1>2, <2>1, <2>4, <2>5 DEF CursorInv, WaveInv, PromptInv
    <2>7. \A r \in RunPage \ {q} :
              runPage'[r].step = "marked" => completing'[r].wave # wq
      BY <1>6, <1>7, <2>1, <2>4 DEF CursorInv
    <2>8. /\ nq # NoWave => \A v \in Wave : v < nq => v = wq \/ prompt'[v] = "completed"
          /\ nq # NoWave => prompt'[nq] # "none" \/ (nq = wq + 1 /\ kind = "event")
          /\ nq = NoWave /\ wq + 1 \in Wave => prompt'[wq + 1] # "none"
      BY <1>2, <2>1, <2>3, <2>4 DEF CursorInv
    <2>9. completing'[q] = completing[q] /\ kind' = kind
      BY <1>1, <1>7, <2>1
    <2>10. QED
      BY <2>6, <2>7, <2>8, <2>9 DEF CursorInv
  <1>17. QED
    BY <1>9, <1>11, <1>12, <1>13, <1>14, <1>15, <1>16 DEF WaveInv

LEMMA StepWaves == WaveInv /\ [SeriesNext]_seriesVars => WaveInv'
  <1> SUFFICES ASSUME WaveInv, [SeriesNext]_seriesVars PROVE WaveInv'
    OBVIOUS
  <1>1. CASE Enroll
    BY <1>1, EnrollWaves
  <1>2. CASE \/ Unsubscribe \/ UNCHANGED seriesVars
             \/ \E w \in Wave : TimePasses(w)
             \/ \E i \in Instance : Scan(i) \/ Claim(i) \/ Mail(i) \/ CrashInstance(i)
    BY <1>2, QuietWaves
  <1>3. ASSUME NEW p \in RunPage,
               \/ OpenLink(p) \/ OpenUnresolved(p) \/ PostCompletion(p)
               \/ RollBackCompletion(p) \/ MarkWave(p) \/ CommitWave(p)
        PROVE  WaveInv'
    BY <1>3, OpenWaves, PostWaves, RollBackWaves, MarkWaves, CommitWaves
  <1>4. QED
    BY <1>1, <1>2, <1>3 DEF SeriesNext

(* The invariant of the prompts, the pages and their completions.           *)
THEOREM WavesInTurn == SeriesSpec => []WaveInv
  BY InitWave, StepWaves, PTL DEF SeriesSpec

(* Completed waves are bound to sessions that ran them, and complete in     *)
(* order, though a late or repeated completion (complete_prompt) writes the *)
(* pointer it computed from what it read.                                   *)
THEOREM WavesHonest == SeriesSpec => []WavesAreHonest
  <1>1. WaveInv => WavesAreHonest
    BY PageFacts DEF WaveInv, BoundInv, WavesAreHonest
  <1>2. QED
    BY <1>1, WavesInTurn, PTL

(* The wave after a completed one always has its prompt, and the enrollment *)
(* is not over while that prompt is open.                                   *)
THEOREM NoneStranded == SeriesSpec => []NoWaveStranded
  <1>1. WaveInv => NoWaveStranded
    <2>1. \A w \in Wave \ {WaveCount - 1} : w + 1 \in Wave
      BY PageFacts
    <2>2. QED
      BY <2>1 DEF WaveInv, PromptInv, EndInv, NoWaveStranded
  <1>2. QED
    BY <1>1, WavesInTurn, PTL
-----------------------------------------------------------------------------
(* The types of what WaveTypes leaves open: what the schedulers scanned,    *)
(* send and have sent.                                                      *)
SchedulerTypes ==
    /\ due \subseteq Wave
    /\ scanned \in [Instance -> SUBSET Wave]
    /\ mailing \in [Instance -> Wave \cup {NoWave}]
    /\ mailed \in [Wave -> Nat]
    /\ mishaps \in 0 .. MaxMishaps
SeriesKindInv == kind \in Kinds \cup {"fixed"}

LEMMA InitScheduler == SeriesInit => SchedulerTypes
  <1>1. 0 \in 0 .. MaxMishaps
    BY SeriesAssumption
  <1>2. QED
    BY <1>1 DEF SeriesInit, SchedulerTypes

(* A scheduler claims the least of the waves it scanned.                    *)
LEMMA ClaimTypes ==
    ASSUME SchedulerTypes, NEW i \in Instance, Claim(i) PROVE SchedulerTypes'
  <1> DEFINE w == Min(scanned[i])
  <1>1. w \in Wave
    BY MinIsLeast, WaveFacts DEF Claim, SchedulerTypes
  <1>2. /\ scanned' = [scanned EXCEPT ![i] = @ \ {w}]
        /\ mailing' = [mailing EXCEPT ![i] = w] \/ mailing' = mailing
        /\ UNCHANGED <<due, mailed, mishaps>>
    BY DEF Claim
  <1> HIDE DEF w
  <1>3. scanned' \in [Instance -> SUBSET Wave]
    BY <1>2 DEF SchedulerTypes
  <1>4. mailing' \in [Instance -> Wave \cup {NoWave}]
    BY <1>1, <1>2 DEF SchedulerTypes
  <1>5. QED
    BY <1>2, <1>3, <1>4 DEF SchedulerTypes

(* It mails, or stops, and sends nothing any more.                          *)
LEMMA MailingTypes ==
    ASSUME SchedulerTypes, NEW i \in Instance, Scan(i) \/ Mail(i) \/ CrashInstance(i)
    PROVE  SchedulerTypes'
  <1>1. mishaps' \in 0 .. MaxMishaps
    BY SeriesAssumption DEF SchedulerTypes, Scan, Mail, CrashInstance, Mishap
  <1>2. due' = due
    BY DEF Scan, Mail, CrashInstance
  <1>3. CASE Scan(i)
    BY <1>1, <1>2, <1>3 DEF SchedulerTypes, Scan
  <1>4. CASE Mail(i)
    <2>1. mailed' \in [Wave -> Nat]
      BY <1>4 DEF SchedulerTypes, Mail
    <2>2. QED
      BY <1>1, <1>2, <1>4, <2>1 DEF SchedulerTypes, Mail
  <1>5. CASE CrashInstance(i)
    BY <1>1, <1>2, <1>5 DEF SchedulerTypes, CrashInstance
  <1>6. QED
    BY <1>3, <1>4, <1>5

LEMMA StepScheduler == SchedulerTypes /\ [SeriesNext]_seriesVars => SchedulerTypes'
  <1> SUFFICES ASSUME SchedulerTypes, [SeriesNext]_seriesVars PROVE SchedulerTypes'
    OBVIOUS
  <1>1. ASSUME NEW w \in Wave, TimePasses(w) PROVE SchedulerTypes'
    BY <1>1 DEF TimePasses, SchedulerTypes, mailVars
  <1>2. ASSUME NEW i \in Instance,
               Scan(i) \/ Claim(i) \/ Mail(i) \/ CrashInstance(i)
        PROVE  SchedulerTypes'
    BY <1>2, ClaimTypes, MailingTypes
  <1>3. ASSUME \/ Enroll \/ Unsubscribe \/ UNCHANGED seriesVars
               \/ \E p \in RunPage :
                    \/ OpenLink(p) \/ OpenUnresolved(p) \/ PostCompletion(p)
                    \/ RollBackCompletion(p) \/ MarkWave(p) \/ CommitWave(p)
        PROVE  SchedulerTypes'
    <2>1. UNCHANGED <<due, mailVars>>
      BY <1>3 DEF Enroll, Unsubscribe, seriesVars, OpenLink, OpenUnresolved,
                  PostCompletion, RollBackCompletion, MarkWave, CommitWave
    <2>2. mishaps' = mishaps \/ Mishap
      BY <1>3 DEF Enroll, Unsubscribe, seriesVars, OpenLink, OpenUnresolved,
                  PostCompletion, RollBackCompletion, MarkWave, CommitWave
    <2>3. mishaps' \in 0 .. MaxMishaps
      BY <2>2, SeriesAssumption DEF Mishap, SchedulerTypes
    <2>4. QED
      BY <2>1, <2>3 DEF SchedulerTypes, mailVars
  <1>4. QED
    BY <1>1, <1>2, <1>3 DEF SeriesNext

(* The series, its prompts, the schedulers and the pages keep to their      *)
(* types.                                                                   *)
THEOREM SeriesKeepsItsTypes == SeriesSpec => []SeriesTypeOK
  <1>1. WaveInv /\ SchedulerTypes /\ SeriesKindInv => SeriesTypeOK
    BY DEF WaveInv, WaveTypes, SchedulerTypes, SeriesKindInv, SeriesTypeOK
  <1>2. SeriesSpec => []SchedulerTypes
    BY InitScheduler, StepScheduler, PTL DEF SeriesSpec
  <1>3. SeriesSpec => []SeriesKindInv
    <2>1. SeriesInit => SeriesKindInv
      BY DEF SeriesInit, SeriesKindInv
    <2>2. SeriesKindInv /\ [SeriesNext]_seriesVars => SeriesKindInv'
      BY DEF SeriesKindInv, SeriesNext, seriesVars, Enroll, Unsubscribe, TimePasses,
             Scan, Claim, Mail, CrashInstance, OpenLink, OpenUnresolved,
             PostCompletion, RollBackCompletion, MarkWave, CommitWave
    <2>3. QED
      BY <2>1, <2>2, PTL DEF SeriesSpec
  <1>4. QED
    BY <1>1, <1>2, <1>3, WavesInTurn, PTL
=============================================================================
