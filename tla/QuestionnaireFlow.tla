------------------------- MODULE QuestionnaireFlow -------------------------
(* The runtime that walks a participant through a questionnaire: pages, the *)
(* items of a page, flow rules, the four timers, the halt after a failed    *)
(* write and save-and-continue.  One method of QuestionnaireRuntime is one  *)
(* action; a chain of methods that await nothing but each other runs to its *)
(* end before any timer or click, which "step" keeps: unless it is "idle",  *)
(* only the method it names may be taken.  Answers, variables and scripts   *)
(* are abstracted to the choices they make (a condition holds or not).      *)
EXTENDS Naturals, Sequences, FiniteSets, FiniteSetsExt

CONSTANTS
    Pages,          \* a sequence of pages, each a sequence of items
    Question,       \* the items that take an answer; the others only show
    AutoAdvance,    \* shown items with an auto-advance timer
    HiddenItem,     \* items and pages whose visibility condition is false
    HiddenPage,
    Deadline,       \* item -> its onTimeout action, or "none"
    PageLimit,      \* page -> its onTimeLimit action, or "none"
    SurveyLimit,    \* onSurveyTimeout, or "none"
    Rules,          \* flow rules: [type, source, target, iterations]
    Vetoing,        \* items whose onNavigate script may refuse to leave
    Screener,       \* pages that carry an eligibility screener
    NoItem,
    MaxHalts,       \* bound: failed answer writes
    MaxReloads,     \* bound: reloads of the page
    MaxRewinds      \* bound: branches followed to an earlier page

PageNo == DOMAIN Pages
Item == UNION {{Pages[p][i] : i \in DOMAIN Pages[p]} : p \in PageNo}
LoopRule == {r \in Rules : r.type = "loop"}

ASSUME FlowAssumption ==
    /\ Pages \in Seq(Seq(Item)) /\ Pages # << >>
    /\ \A p \in PageNo : Len(Pages[p]) > 0
    /\ AutoAdvance \subseteq Item \ Question /\ Question \subseteq Item
    /\ HiddenItem \subseteq Item /\ HiddenPage \subseteq PageNo
    /\ Vetoing \subseteq Item /\ Screener \subseteq PageNo /\ NoItem \notin Item
    /\ Deadline \in [Question -> {"none", "warn", "skip", "auto-submit", "terminate"}]
    /\ PageLimit \in [PageNo -> {"none", "auto-advance", "terminate"}]
    /\ SurveyLimit \in {"none", "auto-submit", "terminate"}
    /\ Rules \subseteq [type : {"loop", "branch", "terminate"}, source : PageNo,
                        target : PageNo, iterations : Nat]
    /\ MaxHalts \in Nat /\ MaxReloads \in Nat /\ MaxRewinds \in Nat

VARIABLES
    running, paused, page, item,
    current,        \* currentQuestion, the item presented last
    shown,          \* the overlay's activePresentation
    step,           \* the method the running chain calls next, or "idle"
    goal,           \* the page index navigateToPage was called with
    autoTimer,      \* the item whose auto-advance timer is pending, or NoItem
    questionTimer,  \* the item whose deadline is armed, or NoItem
    pageTimer, surveyTimer,
    responses,      \* session.responses: the item, loops and rewinds then
    loops,          \* loopIterations
    rewinds,        \* history: branches followed to an earlier page
    answered,       \* resumeAnsweredIds
    landing,        \* pendingResumeItemIndex, 0 when null
    snapshot,       \* the ResumeState stored last
    status,
    mounted,        \* the page shows the form overlay of the run
    completions,    \* history: calls of onComplete
    leftEarly,      \* history: pages a time limit or a rule cut short or jumped
    overrun,        \* history: items an auto-advance of another item stepped over
    halts, reloads

cursorVars == <<running, paused, page, item, current, shown, step, goal>>
timerVars == <<autoTimer, questionTimer, pageTimer, surveyTimer>>
resumeVars == <<answered, landing, snapshot>>
passVars == <<loops, rewinds>>
outcomeVars == <<status, mounted>>
historyVars == <<completions, leftEarly, overrun, halts, reloads>>
flowVars == <<cursorVars, timerVars, responses, passVars, resumeVars, outcomeVars, historyVars>>

ItemsOf(p) == {Pages[p][i] : i \in DOMAIN Pages[p]}
(* An operator named Faulty... is a plausible bug in the definition that    *)
(* follows.  Nothing uses it: it says which slip the properties notice.     *)
FaultyNextVisible(p) ==
    Min({q \in p + 1 .. Len(Pages) : q \notin HiddenPage} \cup {Len(Pages) + 1})
NextVisible(p) == Min({q \in p .. Len(Pages) : q \notin HiddenPage} \cup {Len(Pages) + 1})
NoLoops == [r \in LoopRule |-> 0]
FreshState == [page |-> 1, item |-> 1, loops |-> NoLoops, presented |-> {}]

Response == [item : Question, loops : [LoopRule -> Nat], rewinds : Nat]
FlowTypeOK ==
    /\ running \in BOOLEAN /\ paused \in BOOLEAN /\ surveyTimer \in BOOLEAN
    /\ page \in PageNo /\ pageTimer \in PageNo \cup {0}
    /\ item \in Nat /\ landing \in Nat /\ goal \in Nat
    /\ shown \in Item \cup {NoItem} /\ current \in Item \cup {NoItem}
    /\ questionTimer \in Question \cup {NoItem}
    /\ autoTimer \in AutoAdvance \cup {NoItem}
    /\ step \in {"start", "idle", "show", "flow", "navigate"}
    /\ responses \in Seq(Response)
    /\ loops \in [LoopRule -> Nat] /\ answered \subseteq Question
    /\ snapshot \in [page : PageNo, item : Nat, loops : [LoopRule -> Nat],
                     presented : SUBSET Question]
    /\ status \in {"in_progress", "completed", "screened_out", "timed_out"}
    /\ completions \in Nat /\ leftEarly \subseteq PageNo /\ overrun \subseteq Item
    /\ mounted \in BOOLEAN
    /\ halts \in 0 .. MaxHalts /\ reloads \in 0 .. MaxReloads /\ rewinds \in 0 .. MaxRewinds

FlowInit ==
    /\ running = FALSE /\ paused = FALSE
    /\ page = 1 /\ item = 1 /\ current = NoItem /\ shown = NoItem
    /\ step = "start" /\ goal = 1
    /\ autoTimer = NoItem /\ questionTimer = NoItem
    /\ pageTimer = 0 /\ surveyTimer = FALSE
    /\ responses = << >> /\ loops = NoLoops /\ rewinds = 0 /\ mounted = TRUE
    /\ answered = {} /\ landing = 0 /\ snapshot = FreshState
    /\ status = "in_progress" /\ completions = 0
    /\ leftEarly = {} /\ overrun = {} /\ halts = 0 /\ reloads = 0

(* start(): the survey clock is armed and page 1 is navigated to.           *)
Start ==
    /\ step = "start"
    /\ running' = TRUE /\ step' = "navigate"
    /\ surveyTimer' = (SurveyLimit # "none")
    /\ UNCHANGED <<paused, page, item, current, shown, goal, autoTimer, questionTimer,
                   pageTimer, responses, passVars, resumeVars, outcomeVars, historyVars>>

(* complete(): once, and the auto-advance timer is not among those cleared; *)
(* neither is the presentation, so the form stays until the page goes on.   *)
Complete(outcome) ==
    /\ running' = FALSE /\ step' = "idle"
    /\ questionTimer' = NoItem /\ pageTimer' = 0 /\ surveyTimer' = FALSE
    /\ status' = outcome /\ completions' = completions + 1
    /\ UNCHANGED <<paused, page, item, current, shown, goal, autoTimer,
                   responses, passVars, resumeVars, mounted>>

(* navigateToPage(): past the last page the run completes; the script of    *)
(* the item presented last may refuse; otherwise all that was pending for   *)
(* the old page is cancelled and hidden pages are skipped.                  *)
Refuse ==
    /\ step = "navigate" /\ goal <= Len(Pages) /\ current \in Vetoing
    /\ step' = "idle"
    /\ UNCHANGED <<running, paused, page, item, current, shown, goal, timerVars, responses,
                   passVars, resumeVars, outcomeVars, historyVars>>

NavigateToPage ==
    /\ step = "navigate"
    /\ UNCHANGED <<leftEarly, overrun, halts, reloads>>
    /\ LET p == NextVisible(goal) IN
       IF p > Len(Pages)
       THEN Complete("completed")
       ELSE /\ page' = p
            /\ item' = IF landing # 0 THEN landing ELSE 1
            /\ landing' = 0
            /\ shown' = NoItem /\ autoTimer' = NoItem /\ questionTimer' = NoItem
            /\ pageTimer' = IF PageLimit[p] = "none" THEN 0 ELSE p
            /\ step' = "show"
            /\ UNCHANGED <<running, paused, current, goal, surveyTimer, responses, passVars,
                           answered, snapshot, outcomeVars, completions>>

(* showCurrentItem(): the end of the page goes to the flow rules; hidden    *)
(* items and those answered before a resume are passed; the next one is     *)
(* presented, its timers armed.  Presenting an item without auto-advance    *)
(* leaves a pending auto-advance timer alone.                               *)
ShowCurrentItem ==
    /\ step = "show"
    /\ UNCHANGED <<running, paused, page, goal, pageTimer, surveyTimer, responses, passVars,
                   resumeVars, outcomeVars, historyVars>>
    /\ IF item > Len(Pages[page])
       THEN /\ step' = "flow"
            /\ UNCHANGED <<item, current, shown, autoTimer, questionTimer>>
       ELSE LET x == Pages[page][item] IN
            IF x \in HiddenItem \cup answered
            THEN /\ item' = item + 1
                 /\ UNCHANGED <<step, current, shown, autoTimer, questionTimer>>
            ELSE /\ current' = x /\ shown' = x /\ step' = "idle"
                 /\ autoTimer' = IF x \in AutoAdvance THEN x ELSE autoTimer
                 /\ questionTimer' = IF x \in Question /\ Deadline[x] # "none"
                                     THEN x ELSE questionTimer
                 /\ UNCHANGED item

(* The pages strictly between two pages, and the pages a jump leaves out.   *)
Between(p, q) == (p + 1) .. (q - 1)

(* handleFlowControl(): screener first, then the first rule of this page    *)
(* whose condition holds (any of them may be the one), else the next page.  *)
(* A rule's target may be an earlier page, and only a loop counts its turns.*)
ScreenOut ==
    /\ step = "flow" /\ page \in Screener
    /\ Complete("screened_out")
    /\ UNCHANGED <<leftEarly, overrun, halts, reloads>>

FollowRule ==
    /\ step = "flow"
    /\ \E r \in Rules :
        /\ r.source = page
        /\ \/ /\ r.type = "terminate"
              /\ Complete("completed")
              /\ leftEarly' = leftEarly \cup (page + 1) .. Len(Pages)
           \/ /\ r.type = "loop"
              /\ IF loops[r] < r.iterations
                 THEN /\ loops' = [loops EXCEPT ![r] = @ + 1] /\ goal' = r.target
                      /\ leftEarly' = leftEarly \cup Between(page, r.target)
                 ELSE UNCHANGED <<loops, leftEarly>> /\ goal' = page + 1
              /\ step' = "navigate" /\ UNCHANGED rewinds
              /\ UNCHANGED <<running, paused, page, item, current, shown, timerVars, responses,
                             resumeVars, outcomeVars, completions>>
           \/ /\ r.type = "branch"
              /\ goal' = r.target /\ step' = "navigate"
              /\ leftEarly' = leftEarly \cup Between(page, r.target)
              /\ IF r.target <= page
                 THEN rewinds < MaxRewinds /\ rewinds' = rewinds + 1
                 ELSE UNCHANGED rewinds
              /\ UNCHANGED <<running, paused, page, item, current, shown, timerVars, responses, loops,
                             resumeVars, outcomeVars, completions>>
    /\ UNCHANGED <<overrun, halts, reloads>>

NextPage ==
    /\ step = "flow"
    /\ goal' = page + 1 /\ step' = "navigate"
    /\ UNCHANGED <<running, paused, page, item, current, shown, timerVars, responses, passVars,
                   resumeVars, outcomeVars, historyVars>>

FollowFlow == ScreenOut \/ FollowRule \/ NextPage

FaultyMoveOn ==
    /\ shown' = NoItem /\ questionTimer' = NoItem
    /\ item' = item + 1 /\ step' = "show"

(* clearPresentation() and the step to the next item, which showCurrentItem *)
(* refuses when the run is halted or over.                                  *)
MoveOn ==
    /\ shown' = NoItem /\ questionTimer' = NoItem
    /\ item' = item + 1
    /\ step' = IF running /\ ~paused THEN "show" ELSE "idle"

FaultyCommit(x) ==
    /\ responses' = Append(responses, [item |-> x, loops |-> loops, rewinds |-> rewinds])
    /\ snapshot' = [page |-> page, item |-> item, loops |-> loops,
                    presented |-> {responses[i].item : i \in DOMAIN responses}]
    /\ MoveOn
    /\ UNCHANGED <<running, paused, page, current, goal, autoTimer, pageTimer, surveyTimer, passVars,
                   answered, landing, outcomeVars, historyVars>>

(* handleCollectedResponse() and handleTimeout(): the response is pushed,   *)
(* the presentation cleared, the resume state stored, the next item shown.  *)
Commit(x) ==
    /\ responses' = Append(responses, [item |-> x, loops |-> loops, rewinds |-> rewinds])
    /\ snapshot' = [page |-> page, item |-> item, loops |-> loops,
                    presented |-> {responses'[i].item : i \in DOMAIN responses'}]
    /\ MoveOn
    /\ UNCHANGED <<running, paused, page, current, goal, autoTimer, pageTimer, surveyTimer, passVars,
                   answered, landing, outcomeVars, historyVars>>

FaultySubmit == step = "idle" /\ mounted /\ shown # NoItem /\ Commit(shown)

(* Continue in the overlay, which is shown while the run is not halted: an  *)
(* answer, or the advance of an item that takes none.  Nothing here asks    *)
(* whether the run is over.                                                 *)
Submit == step = "idle" /\ mounted /\ ~paused /\ shown \in Question /\ Commit(shown)

Continue ==
    /\ step = "idle" /\ mounted /\ ~paused /\ shown \in Item \ Question
    /\ MoveOn
    /\ UNCHANGED <<running, paused, page, current, goal, autoTimer, pageTimer, surveyTimer, responses,
                   passVars, resumeVars, outcomeVars, historyVars>>

(* The auto-advance timer is a plain setTimeout: no halt freezes it, neither *)
(* completion nor the participant's own Continue cancels it, and its callback *)
(* advances past whatever item the run has reached on that page.             *)
AutoAdvanceFires ==
    /\ step = "idle" /\ autoTimer # NoItem
    /\ autoTimer' = NoItem
    /\ overrun' = overrun \cup ({Pages[page][i] : i \in {item} \cap DOMAIN Pages[page]}
                               \ {autoTimer})
    /\ MoveOn
    /\ UNCHANGED <<running, paused, page, current, goal, pageTimer, surveyTimer, responses, passVars,
                   resumeVars, outcomeVars, completions, leftEarly, halts, reloads>>

(* handleQuestionDeadline(): the scope is frozen while halted, fires once.  *)
QuestionDeadline ==
    /\ step = "idle" /\ running /\ ~paused /\ questionTimer # NoItem
    /\ LET x == questionTimer IN
       \/ /\ Deadline[x] = "warn"
          /\ questionTimer' = NoItem
          /\ UNCHANGED <<cursorVars, autoTimer, pageTimer, surveyTimer, responses, passVars,
                         resumeVars, outcomeVars, historyVars>>
       \/ Deadline[x] \in {"skip", "auto-submit"} /\ Commit(x)
       \/ /\ Deadline[x] = "terminate"
          /\ Complete("timed_out")
          /\ UNCHANGED <<leftEarly, overrun, halts, reloads>>

(* handlePageTimeout() of the page the run is still on.                     *)
PageTimeout ==
    /\ step = "idle" /\ running /\ ~paused /\ pageTimer = page
    /\ \/ /\ PageLimit[page] = "terminate"
          /\ Complete("timed_out")
          /\ UNCHANGED leftEarly
       \/ /\ PageLimit[page] = "auto-advance"
          /\ goal' = page + 1 /\ step' = "navigate" /\ pageTimer' = 0
          /\ leftEarly' = leftEarly \cup {page}
          /\ UNCHANGED <<running, paused, page, item, current, shown, autoTimer, questionTimer,
                         surveyTimer, responses, passVars, resumeVars, outcomeVars, completions>>
    /\ UNCHANGED <<overrun, halts, reloads>>

FaultySurveyTimeout ==
    /\ step = "idle" /\ running /\ ~paused /\ surveyTimer /\ shown # NoItem
    /\ Complete(IF SurveyLimit = "terminate" THEN "timed_out" ELSE "completed")
    /\ leftEarly' = leftEarly \cup page .. Len(Pages)
    /\ UNCHANGED <<overrun, halts, reloads>>

(* handleSurveyTimeout(): an auto-submit is a completion, recorded as cut short. *)
SurveyTimeout ==
    /\ step = "idle" /\ running /\ ~paused /\ surveyTimer
    /\ Complete(IF SurveyLimit = "terminate" THEN "timed_out" ELSE "completed")
    /\ leftEarly' = leftEarly \cup page .. Len(Pages)
    /\ UNCHANGED <<overrun, halts, reloads>>

(* pause() when an answer's durable write failed, resume() when the retry   *)
(* stored it: flags and frozen scopes only, nothing is presented again.     *)
Halt ==
    /\ step = "idle" /\ running /\ ~paused /\ responses # << >> /\ halts < MaxHalts
    /\ paused' = TRUE /\ halts' = halts + 1
    /\ UNCHANGED <<running, page, item, current, shown, step, goal, timerVars, responses, passVars,
                   resumeVars, outcomeVars, completions, leftEarly, overrun, reloads>>

Unhalt ==
    /\ step = "idle" /\ running /\ paused
    /\ paused' = FALSE
    /\ UNCHANGED <<running, page, item, current, shown, step, goal, timerVars, responses, passVars,
                   resumeVars, outcomeVars, historyVars>>

(* The run is over, and its last writes and its completion are awaited: the *)
(* page then shows the end, or the blocking screen of a write that failed.  *)
(* A retry from that screen shows the run again, with what it presented.    *)
ShowEnd ==
    /\ step = "idle" /\ status # "in_progress" /\ mounted /\ mounted' = FALSE
    /\ UNCHANGED <<cursorVars, timerVars, responses, passVars, resumeVars, status, historyVars>>

RetryShowsRun ==
    /\ step = "idle" /\ status # "in_progress" /\ ~mounted /\ mounted' = TRUE
    /\ responses # << >> /\ halts < MaxHalts /\ halts' = halts + 1
    /\ UNCHANGED <<cursorVars, timerVars, responses, passVars, resumeVars, status, completions,
                   leftEarly, overrun, reloads>>

(* The participant reloads: a new runtime restores the stored ResumeState.  *)
(* (A reload over an answer that is not stored is AnswerStorage's subject.) *)
Reload ==
    /\ step = "idle" /\ running /\ ~paused /\ reloads < MaxReloads
    /\ reloads' = reloads + 1
    /\ current' = NoItem /\ shown' = NoItem
    /\ autoTimer' = NoItem /\ questionTimer' = NoItem /\ pageTimer' = 0
    /\ loops' = snapshot.loops /\ answered' = snapshot.presented
    /\ landing' = snapshot.item /\ goal' = snapshot.page /\ step' = "navigate"
    /\ UNCHANGED <<running, paused, page, item, surveyTimer, responses, rewinds, snapshot,
                   outcomeVars, completions, leftEarly, overrun, halts>>

FlowNext ==
    \/ Start \/ Refuse \/ NavigateToPage \/ ShowCurrentItem \/ FollowFlow
    \/ Submit \/ Continue \/ AutoAdvanceFires
    \/ QuestionDeadline \/ PageTimeout \/ SurveyTimeout
    \/ Halt \/ Unhalt \/ ShowEnd \/ RetryShowsRun \/ Reload

FlowSpec == FlowInit /\ [][FlowNext]_flowVars

-----------------------------------------------------------------------------
AnsweredItems == {responses[i].item : i \in DOMAIN responses}

(* A run that walked to its end has a response, timed out or not, for every *)
(* visible question of every page no limit and no rule took away: deadlines,*)
(* halts, vetoes and resumes lose none.  Only an auto-advance left pending  *)
(* by an item the participant had already continued from can lose one.      *)
NaturalEndIsWhole ==
    status = "completed" =>
        \A p \in PageNo \ (HiddenPage \cup leftEarly) :
            ItemsOf(p) \cap Question \subseteq AnsweredItems \cup HiddenItem \cup overrun

(* No question is asked twice in the same pass, which ends where a loop or  *)
(* a branch leads back: a resume does not present again what was answered   *)
(* before it, whatever page the run was on, and no answer is taken twice.   *)
AskedOncePerPass ==
    \A i, j \in DOMAIN responses : responses[i] = responses[j] => i = j

(* A session ends once and asks nothing more, although timers may still     *)
(* fire and the form is still there: at most the answer of the question on  *)
(* the screen at the end is taken after it, and only once.                  *)
EndsOnce ==
    [][status # "in_progress" =>
           /\ completions' = completions /\ status' = status
           /\ shown' \in {shown, NoItem}
           /\ responses' # responses => shown \in Question /\ shown' = NoItem]_flowVars

(* The survey budget is carried over pages, halts and reloads: a run that   *)
(* has one ends, whatever the participant does, unless it stays halted.     *)
BudgetEndsRun ==
    SurveyLimit # "none" /\ running ~> status # "in_progress" \/ paused
=============================================================================
